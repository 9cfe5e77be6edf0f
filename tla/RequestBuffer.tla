--------------------------- MODULE RequestBuffer ---------------------------
(***************************************************************************)
(* The interrupt-IN path of one imported device: util/request_buffer.go,   *)
(* the OUT-of-device branch of USBDevice.HandleMessage, and the SUBMIT and *)
(* UNLINK handlers of usbip_server.go that drive them.                     *)
(*                                                                         *)
(* Four kinds of goroutine meet in the buffer:                             *)
(*   - the connection's, which reads CMD_SUBMIT and CMD_UNLINK in turn;    *)
(*   - the HID layer's, which calls Respond once per report (one at a      *)
(*     time: CTAPHIDServer.responsesLock is held around the calls);        *)
(*   - one timer per request, started once Request has returned.           *)
(*                                                                         *)
(* buffer.lock is held across two steps by Request alone, which calls its  *)
(* callback under the lock; Respond and CancelRequest release it before    *)
(* anything is written, so each is one step guarded by LockFree, and the   *)
(* write that follows is a step of its own.  writeResponse is one step:    *)
(* it locks, writes and unlocks, and here the peer stays (UsbIpServer      *)
(* models a peer that goes).                                               *)
(***************************************************************************)
EXTENDS Integers, Sequences

CONSTANTS MaxRequests,  \* bound on the IN requests the host submits
          MaxReports    \* bound on the reports the HID layer produces

ASSUME BoundsAssumption == MaxRequests \in Nat /\ MaxReports \in Nat

Ids     == 1 .. MaxRequests   \* sequence numbers; vhci never reuses one
Reports == 1 .. MaxReports
Empty   == 0                  \* the nil response: the host sees zeroes

ECONNRESET == 104
ENOENT     == 2

VARIABLES
  submitted,       \* IN requests read so far: ids 1 .. submitted
  reported,        \* reports given to Respond so far
  waitingForData,  \* ids whose callback is registered in the buffer
  responses,       \* reports nobody has asked for yet
  conn,            \* what the connection goroutine is about to write
  hid,             \* what the HID goroutine is about to write
  timer,           \* per id: "off", "armed", or "expired" (about to write)
  wire             \* every reply written to the socket, in order

vars == <<submitted, reported, waitingForData, responses, conn, hid, timer, wire>>

Idle == [at |-> "idle", id |-> 0, data |-> 0]
RetSubmit(id, data)   == [type |-> "submit", id |-> id, data |-> data]
RetUnlink(id, status) == [type |-> "unlink", id |-> id, data |-> status]

LockFree == conn.at # "deliver"

Init ==
  /\ submitted = 0
  /\ reported = 0
  /\ waitingForData = {}
  /\ responses = <<>>
  /\ conn = Idle
  /\ hid = Idle
  /\ timer = [id \in Ids |-> "off"]
  /\ wire = <<>>

-----------------------------------------------------------------------------
(* The connection goroutine. *)

\* Mutant: Request does not look at responses first.
RequestWaitsUnlooked ==
  LET id == submitted + 1 IN
  /\ conn = Idle
  /\ id \in Ids
  /\ submitted' = id
  /\ waitingForData' = waitingForData \union {id}
  /\ timer' = [timer EXCEPT ![id] = "armed"]
  /\ UNCHANGED <<reported, responses, conn, hid, wire>>

\* Mutant: no SetTimeout, as before the timeout was introduced.
RequestWaitsUntimed ==
  LET id == submitted + 1 IN
  /\ conn = Idle
  /\ id \in Ids
  /\ responses = <<>>
  /\ submitted' = id
  /\ waitingForData' = waitingForData \union {id}
  /\ UNCHANGED <<reported, responses, conn, hid, timer, wire>>

\* CMD_SUBMIT on the IN endpoint with no report at hand: Request registers the
\* callback, and the timer starts.
RequestWaits ==
  LET id == submitted + 1 IN
  /\ conn = Idle
  /\ id \in Ids
  /\ responses = <<>>
  /\ submitted' = id
  /\ waitingForData' = waitingForData \union {id}
  /\ timer' = [timer EXCEPT ![id] = "armed"]
  /\ UNCHANGED <<reported, responses, conn, hid, wire>>

\* Mutant: the report queued last is popped.
RequestServedNewest ==
  LET id == submitted + 1 IN
  /\ conn = Idle
  /\ id \in Ids
  /\ responses # <<>>
  /\ submitted' = id
  /\ responses' = SubSeq(responses, 1, Len(responses) - 1)
  /\ conn' = [at |-> "deliver", id |-> id, data |-> responses[Len(responses)]]
  /\ UNCHANGED <<reported, waitingForData, hid, timer, wire>>

\* CMD_SUBMIT with a report queued: Request pops the oldest one and calls the
\* callback with the lock still held.
RequestServed ==
  LET id == submitted + 1 IN
  /\ conn = Idle
  /\ id \in Ids
  /\ responses # <<>>
  /\ submitted' = id
  /\ responses' = Tail(responses)
  /\ conn' = [at |-> "deliver", id |-> id, data |-> Head(responses)]
  /\ UNCHANGED <<reported, waitingForData, hid, timer, wire>>

\* The callback writes, Request unlocks and returns, and the timer starts
\* although the request is already answered.
FinishRequest ==
  /\ conn.at = "deliver"
  /\ wire' = Append(wire, RetSubmit(conn.id, conn.data))
  /\ conn' = Idle
  /\ timer' = [timer EXCEPT ![conn.id] = "armed"]
  /\ UNCHANGED <<submitted, reported, waitingForData, responses, hid>>

\* Mutant: the request stays in the buffer.
UnlinkKeeps(id) ==
  /\ conn = Idle
  /\ id <= submitted
  /\ \A k \in DOMAIN wire : ~(wire[k].type = "unlink" /\ wire[k].id = id)
  /\ conn' = [at |-> "unlink", id |-> id,
              data |-> IF id \in waitingForData THEN ECONNRESET ELSE ENOENT]
  /\ UNCHANGED <<submitted, reported, waitingForData, responses, hid, timer, wire>>

\* CMD_UNLINK of a request submitted earlier; vhci sends one at most.
Unlink(id) ==
  /\ conn = Idle
  /\ id <= submitted
  /\ \A k \in DOMAIN wire : ~(wire[k].type = "unlink" /\ wire[k].id = id)
  /\ waitingForData' = waitingForData \ {id}
  /\ conn' = [at |-> "unlink", id |-> id,
              data |-> IF id \in waitingForData THEN ECONNRESET ELSE ENOENT]
  /\ UNCHANGED <<submitted, reported, responses, hid, timer, wire>>

FinishUnlink ==
  /\ conn.at = "unlink"
  /\ wire' = Append(wire, RetUnlink(conn.id, conn.data))
  /\ conn' = Idle
  /\ UNCHANGED <<submitted, reported, waitingForData, responses, hid, timer>>

-----------------------------------------------------------------------------
(* The HID goroutine. *)

\* Respond with a request waiting: any one of them, since Go ranges over a map
\* in no particular order.
RespondToWaiting(id) ==
  /\ hid = Idle
  /\ LockFree
  /\ reported < MaxReports
  /\ id \in waitingForData
  /\ reported' = reported + 1
  /\ waitingForData' = waitingForData \ {id}
  /\ hid' = [at |-> "deliver", id |-> id, data |-> reported + 1]
  /\ UNCHANGED <<submitted, responses, conn, timer, wire>>

\* Respond with nobody waiting: the report is kept for the next request.
RespondQueues ==
  /\ hid = Idle
  /\ LockFree
  /\ reported < MaxReports
  /\ waitingForData = {}
  /\ reported' = reported + 1
  /\ responses' = Append(responses, reported + 1)
  /\ UNCHANGED <<submitted, waitingForData, conn, hid, timer, wire>>

FinishRespond ==
  /\ hid.at = "deliver"
  /\ wire' = Append(wire, RetSubmit(hid.id, hid.data))
  /\ hid' = Idle
  /\ UNCHANGED <<submitted, reported, waitingForData, responses, conn, timer>>

-----------------------------------------------------------------------------
(* The timers. *)

\* One second is over: CancelRequest finds the request or comes too late.
TimerFires(id) ==
  /\ timer[id] = "armed"
  /\ LockFree
  /\ waitingForData' = waitingForData \ {id}
  /\ timer' = [timer EXCEPT ![id] = IF id \in waitingForData THEN "expired" ELSE "off"]
  /\ UNCHANGED <<submitted, reported, responses, conn, hid, wire>>

FinishTimer(id) ==
  /\ timer[id] = "expired"
  /\ wire' = Append(wire, RetSubmit(id, Empty))
  /\ timer' = [timer EXCEPT ![id] = "off"]
  /\ UNCHANGED <<submitted, reported, waitingForData, responses, conn, hid>>

-----------------------------------------------------------------------------
\* The host is silent and so is the HID layer: nothing is left to do.
Quiescent ==
  /\ conn = Idle
  /\ hid = Idle
  /\ \A id \in Ids : timer[id] = "off"
  /\ UNCHANGED vars

Next ==
  \/ RequestWaits
  \/ RequestServed
  \/ FinishRequest
  \/ FinishUnlink
  \/ RespondQueues
  \/ FinishRespond
  \/ \E id \in Ids :
       Unlink(id) \/ RespondToWaiting(id) \/ TimerFires(id) \/ FinishTimer(id)
  \/ Quiescent

Spec == Init /\ [][Next]_vars

\* Goroutines that hold the processor go on, and sync.Mutex does not starve a
\* waiter (its starvation mode); host and HID layer owe nothing.
Fairness ==
  /\ WF_vars(FinishRequest)
  /\ WF_vars(FinishUnlink)
  /\ WF_vars(FinishRespond)
  /\ \A id \in Ids : SF_vars(TimerFires(id)) /\ WF_vars(FinishTimer(id))

FairSpec == Spec /\ Fairness

-----------------------------------------------------------------------------
(* Properties. *)

Writers == [at : {"idle", "deliver", "unlink"}, id : Nat, data : Nat]
Replies == [type : {"submit", "unlink"}, id : Ids, data : Nat]

\* Every variable has its type: in particular no id outside 1 .. submitted is
\* registered in the buffer.
TypeOK ==
  /\ submitted \in 0 .. MaxRequests
  /\ reported \in 0 .. MaxReports
  /\ waitingForData \subseteq 1 .. submitted
  /\ responses \in Seq(Reports)
  /\ conn \in Writers
  /\ hid \in Writers
  /\ timer \in [Ids -> {"off", "armed", "expired"}]
  /\ wire \in Seq(Replies)

\* The three ways a request ends (a report, the timeout, an unlink) race on
\* the buffer: whoever removes the callback answers, so the host never gets
\* two RET_SUBMITs for one sequence number (HandleMessage, Respond).
AnsweredOnce ==
  \A j, k \in DOMAIN wire :
    wire[j].type = "submit" /\ wire[k] .type = "submit" /\ wire[j].id = wire[k].id
      => j = k

\* An unlink that reports ECONNRESET has taken the request out of the buffer:
\* its RET_SUBMIT was not and will not be sent (handleCommandUnlink).
UnlinkedNotAnswered ==
  \A j, k \in DOMAIN wire :
    wire[j].type = "submit" /\ wire[k].type = "unlink" /\ wire[j].id = wire[k].id
      => wire[k].data # ECONNRESET

\* A report is never parked while a request waits for one: Request and Respond
\* look at both sides under one lock.
NoMissedWakeup == waitingForData = {} \/ responses = <<>>

\* Every request ends: with a report, an empty report, or taken back by the
\* host.  An unlink that came too late (ENOENT) does not excuse the answer.
Settled(id) ==
  \E k \in DOMAIN wire :
    \/ wire[k].type = "submit" /\ wire[k].id = id
    \/ wire[k] = RetUnlink(id, ECONNRESET)

EveryRequestEnds == \A id \in Ids : id <= submitted ~> Settled(id)

-----------------------------------------------------------------------------
(* RequestBuffer implements ReportPipe. *)

\* A report taken out of the buffer and not yet written.
InFlight == IF conn.at = "deliver" \/ hid.at = "deliver" THEN 1 ELSE 0

\* The RET_SUBMITs of a request, as positions on the wire.
AnswersTo(id) == {k \in DOMAIN wire : wire[k].type = "submit" /\ wire[k].id = id}

TheOne(S) == CHOOSE x \in S : TRUE

OutcomeOf(id) ==
  IF AnswersTo(id) # {}
  THEN [state |-> "answered", report |-> wire[TheOne(AnswersTo(id))].data]
  ELSE [state |-> IF Settled(id) THEN "cancelled"
                  ELSE IF id <= submitted THEN "open" ELSE "unsent",
        report |-> 0]

Pipe == INSTANCE ReportPipe WITH
          produced  <- reported,
          delivered <- reported - Len(responses) - InFlight,
          outcome   <- [id \in Ids |-> OutcomeOf(id)]

\* Every step of the buffer, its lock and its goroutines is a step of the
\* pipe or none: no report is lost, repeated or overtaken, whichever request
\* it ends up answering.
ImplementsPipe == Pipe!Spec

-----------------------------------------------------------------------------
(* What request_buffer.go:48 and request_buffer_test.go say of Respond. *)

\* "Get first waiting request": the request that gets a report is the oldest
\* one that waits.
OldestFirst ==
  [][\A id \in Ids : RespondToWaiting(id) => \A other \in waitingForData : id <= other]_vars
=============================================================================
