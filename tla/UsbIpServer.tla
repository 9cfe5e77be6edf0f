---------------------------- MODULE UsbIpServer ----------------------------
(***************************************************************************)
(* usbip_server.go with connections that come and go, and what the end of  *)
(* one does to the goroutines that still hold its callbacks (usb_device.go,*)
(* request_buffer.go).  One device is exported, as virtual_fido.go does.   *)
(*                                                                         *)
(* Every write goes through writeResponse, which locks responseMutex,      *)
(* writes and unlocks without a defer: a write that fails panics and       *)
(* leaves the mutex locked.  In the goroutine of the connection the panic  *)
(* is caught by alive(); in a timer or in the HID layer nobody catches it  *)
(* and the process ends.  When it is handleCommands that ended, handle()   *)
(* goes on with its control loop over what is left of the stream, and its  *)
(* next reply waits for the mutex its own panic left locked.  A write      *)
(* after the peer went may still be accepted by the kernel; after Close it *)
(* always fails.                                                           *)
(*                                                                         *)
(* What the reports carry is left to RequestBuffer; here they are counted. *)
(* A timer of a request that is no longer registered does nothing, so a    *)
(* timer is modelled by the request being registered.  (Some names begin   *)
(* with Server, so that one module can extend this and RequestBuffer.)     *)
(***************************************************************************)
EXTENDS Naturals, FiniteSets

CONSTANTS Conns,       \* the loopback connections that are accepted
          MaxReads,    \* bound on the IN requests read, over all connections
          MaxProduced  \* bound on the reports the HID layer produces

ASSUME ConnsAssumption == MaxReads \in Nat /\ MaxProduced \in Nat

\* An IN request and the connection whose socket its callback writes to.
Requests == [conn : Conns, id : 1 .. MaxReads]

VARIABLES
  pc,         \* where the goroutine of a connection is
  peer,       \* the other end: "none", "up" or "gone"
  imported,   \* server.imported[busID]
  mutex,      \* responseMutex: "free", or "leaked" by a panic
  read,       \* IN requests read so far
  waiting,    \* requestBuffer.waitingForData
  queued,     \* Len(requestBuffer.responses)
  produced,   \* reports handed over so far
  handing,    \* requests Respond has taken and is about to answer (one at most)
  expired,    \* requests a timer has taken and is about to answer
  crashed     \* a panic nobody recovered has ended the process

serverVars == <<pc, peer, imported, mutex, read, waiting, queued, produced, handing, expired, crashed>>

\* handleCommands reads and writes at these points, the claim held.
Commands == {"command", "reply", "served", "unlinked"}
Claimed  == Commands \union {"importing"}
Points   == Claimed \union {"new", "control", "listing", "refused", "stray", "ended", "closed"}

\* handle() writes at these points, and reads its next header at these.  After
\* handleCommands it is back in the control loop: at "stray" with some of the
\* stream left, at "ended" with none.
ControlReplies  == {"listing", "refused", "importing"}
ControlReads == {"control", "stray"}

\* Request calls its callback with buffer.lock held.
BufferFree == \A c \in Conns : pc[c] # "served"

ServerInit ==
  /\ pc = [c \in Conns |-> "new"]
  /\ peer = [c \in Conns |-> "none"]
  /\ imported = FALSE
  /\ mutex = [c \in Conns |-> "free"]
  /\ read = 0
  /\ waiting = {}
  /\ queued = 0
  /\ produced = 0
  /\ handing = {}
  /\ expired = {}
  /\ crashed = FALSE

Goto(c, point) == pc' = [pc EXCEPT ![c] = point]

buffer == <<read, waiting, queued, produced, handing, expired>>

-----------------------------------------------------------------------------
(* The peer. *)

\* usbip attach, usbip list or any other loopback client; Start accepts it and
\* serves it on a goroutine of its own.
Connect(c) ==
  /\ pc[c] = "new"
  /\ Goto(c, "control")
  /\ peer' = [peer EXCEPT ![c] = "up"]
  /\ UNCHANGED <<imported, mutex, buffer, crashed>>

\* A detach, a suspend, or the end of the client.
PeerDrops(c) ==
  /\ peer[c] = "up"
  /\ peer' = [peer EXCEPT ![c] = "gone"]
  /\ UNCHANGED <<pc, imported, mutex, buffer, crashed>>

-----------------------------------------------------------------------------
(* handle(): the control loop.  An unknown control header changes nothing. *)
(* A stray handler may read a header of the peer's, or bytes of a command  *)
(* that pass for one.                                                      *)

ReadDevlist(c) ==
  /\ pc[c] \in ControlReads
  /\ Goto(c, "listing")
  /\ UNCHANGED <<peer, imported, mutex, buffer, crashed>>

\* claimDevice succeeds.
ReadImport(c) ==
  /\ pc[c] \in ControlReads
  /\ ~imported
  /\ imported' = TRUE
  /\ Goto(c, "importing")
  /\ UNCHANGED <<peer, mutex, buffer, crashed>>

\* The bus id is unknown, or another connection holds the device.
ReadImportRefused(c, known) ==
  /\ pc[c] \in ControlReads
  /\ known => imported
  /\ Goto(c, "refused")
  /\ UNCHANGED <<peer, imported, mutex, buffer, crashed>>

\* A bus id without a terminating zero panics: handle() ends with the peer up.
ReadImportMalformed(c) ==
  /\ pc[c] \in ControlReads
  /\ Goto(c, "closed")
  /\ UNCHANGED <<peer, imported, mutex, buffer, crashed>>

\* Mutant: handleCommands loops on the dead socket, without alive().
ReadFailsSpins(c) ==
  /\ peer[c] = "gone"
  /\ pc[c] \in ControlReads \union {"ended"}
  /\ Goto(c, "closed")
  /\ UNCHANGED <<peer, imported, mutex, buffer, crashed>>

\* The read fails: alive() is false.  Out of handleCommands the claim is
\* released on the way and the control loop reads once more, which fails too;
\* out of handle() the socket is closed.
ReadFails(c) ==
  /\ peer[c] = "gone"
  /\ \/ /\ pc[c] \in ControlReads \union {"ended"}
        /\ Goto(c, "closed")
        /\ UNCHANGED imported
     \/ /\ pc[c] = "command"
        /\ Goto(c, "ended")
        /\ imported' = FALSE
  /\ UNCHANGED <<peer, mutex, buffer, crashed>>

-----------------------------------------------------------------------------
(* handleCommands(): one command after the other. *)

\* SUBMIT on the IN endpoint: a queued report is popped, or the request waits.
SubmitIn(c) ==
  /\ pc[c] = "command"
  /\ BufferFree
  /\ read < MaxReads
  /\ read' = read + 1
  /\ IF queued > 0
     THEN /\ queued' = queued - 1
          /\ Goto(c, "served")
          /\ UNCHANGED waiting
     ELSE /\ waiting' = waiting \union {[conn |-> c, id |-> read + 1]}
          /\ UNCHANGED <<queued, pc>>
  /\ UNCHANGED <<peer, imported, mutex, produced, handing, expired, crashed>>

\* SUBMIT on the OUT endpoint or a control request the device knows: the
\* answer is at hand.
SubmitOther(c) ==
  /\ pc[c] = "command"
  /\ Goto(c, "reply")
  /\ UNCHANGED <<peer, imported, mutex, buffer, crashed>>

\* A control request the device does not know, or another endpoint, panics in
\* HandleMessage; alive() takes it for a dropped connection.
SubmitUnsupported(c) ==
  /\ pc[c] = "command"
  /\ Goto(c, "stray")
  /\ imported' = FALSE
  /\ UNCHANGED <<peer, mutex, buffer, crashed>>

\* UNLINK: the request is taken out of the buffer if it is still there.
ReadUnlink(c) ==
  /\ pc[c] = "command"
  /\ BufferFree
  /\ waiting' \in {waiting} \union {waiting \ {r} : r \in {q \in waiting : q.conn = c}}
  /\ Goto(c, "unlinked")
  /\ UNCHANGED <<peer, imported, mutex, read, queued, produced, handing, expired, crashed>>

-----------------------------------------------------------------------------
(* writeResponse in the goroutine of the connection. *)

\* Where the goroutine goes on once it has written.
AfterWrite(point) ==
  IF point \in Claimed THEN "command" ELSE "control"

\* Where a panic in the write takes it: handle() ends and closes the socket,
\* or handleCommands ends and the control loop reads on.
AfterPanic(point) ==
  IF point \in Commands THEN "stray" ELSE "closed"

Writing(c) ==
  /\ pc[c] \in ControlReplies \union {"reply", "served", "unlinked"}
  /\ mutex[c] = "free"

\* Mutant: releaseDevice is deferred before the outcome of claimDevice is known.
WriteReleases(c) ==
  /\ Writing(c)
  /\ Goto(c, AfterWrite(pc[c]))
  /\ imported' = (imported /\ pc[c] # "refused")
  /\ UNCHANGED <<peer, mutex, buffer, crashed>>

Write(c) ==
  /\ Writing(c)
  /\ Goto(c, AfterWrite(pc[c]))
  /\ UNCHANGED <<peer, imported, mutex, buffer, crashed>>

\* The mutex stays locked; the deferred calls unlock the buffer and release
\* the claim.
WriteFails(c) ==
  /\ Writing(c)
  /\ peer[c] = "gone"
  /\ mutex' = [mutex EXCEPT ![c] = "leaked"]
  /\ imported' = (imported /\ pc[c] \notin Claimed)
  /\ Goto(c, AfterPanic(pc[c]))
  /\ UNCHANGED <<peer, buffer, crashed>>

-----------------------------------------------------------------------------
(* The HID layer and the timers, on goroutines of their own. *)

Respond ==
  /\ handing = {}
  /\ BufferFree
  /\ produced < MaxProduced
  /\ produced' = produced + 1
  /\ IF waiting = {}
     THEN queued' = queued + 1 /\ UNCHANGED <<waiting, handing>>
     ELSE \E r \in waiting :
            waiting' = waiting \ {r} /\ handing' = {r} /\ UNCHANGED queued
  /\ UNCHANGED <<pc, peer, imported, mutex, read, expired, crashed>>

\* Mutant: the timers end with handleCommands.
TimerExpiresInSession(r) ==
  /\ r \in waiting
  /\ BufferFree
  /\ pc[r.conn] \in Commands
  /\ waiting' = waiting \ {r}
  /\ expired' = expired \union {r}
  /\ UNCHANGED <<pc, peer, imported, mutex, read, queued, produced, handing, crashed>>

TimerExpires(r) ==
  /\ r \in waiting
  /\ BufferFree
  /\ waiting' = waiting \ {r}
  /\ expired' = expired \union {r}
  /\ UNCHANGED <<pc, peer, imported, mutex, read, queued, produced, handing, crashed>>

\* The callback of r writes to r's connection, whatever became of it.
AnswerWritten(r) ==
  /\ mutex[r.conn] = "free"
  /\ pc[r.conn] # "closed"
  /\ \/ r \in handing /\ handing' = {} /\ UNCHANGED expired
     \/ r \in expired /\ expired' = expired \ {r} /\ UNCHANGED handing
  /\ UNCHANGED <<pc, peer, imported, mutex, read, waiting, queued, produced, crashed>>

\* The write fails, as it always does once handle() has closed the socket, and
\* the panic ends the process.
AnswerCrashes(r) ==
  /\ mutex[r.conn] = "free"
  /\ peer[r.conn] = "gone" \/ pc[r.conn] = "closed"
  /\ r \in handing \union expired
  /\ crashed' = TRUE
  /\ UNCHANGED <<pc, peer, imported, mutex, buffer>>

-----------------------------------------------------------------------------
ConnStep(c) ==
  \/ ReadFails(c) \/ Write(c) \/ WriteFails(c)

HostStep(c) ==
  \/ Connect(c) \/ PeerDrops(c)
  \/ ReadDevlist(c) \/ ReadImport(c) \/ (\E known \in BOOLEAN : ReadImportRefused(c, known))
  \/ ReadImportMalformed(c)
  \/ SubmitIn(c) \/ SubmitOther(c) \/ SubmitUnsupported(c) \/ ReadUnlink(c)

ServerNext ==
  /\ ~crashed
  /\ \/ \E c \in Conns : ConnStep(c) \/ HostStep(c)
     \/ Respond
     \/ \E r \in Requests : TimerExpires(r) \/ AnswerWritten(r) \/ AnswerCrashes(r)

ServerSpec == ServerInit /\ [][ServerNext]_serverVars

\* Running goroutines go on until they block; the peer and the HID layer owe
\* nothing.  A dropped peer sends nothing more, so its goroutine comes to the
\* failing read in the end (SF: commands still buffered are read before it).
ServerFairness ==
  /\ \A c \in Conns : SF_serverVars(~crashed /\ ReadFails(c)) /\ WF_serverVars(~crashed /\ (Write(c) \/ WriteFails(c)))
  /\ \A r \in Requests :
       /\ WF_serverVars(~crashed /\ TimerExpires(r))
       /\ WF_serverVars(~crashed /\ (AnswerWritten(r) \/ AnswerCrashes(r)))

FairServerSpec == ServerSpec /\ ServerFairness

-----------------------------------------------------------------------------
(* Properties. *)

ServerTypeOK ==
  /\ pc \in [Conns -> Points]
  /\ peer \in [Conns -> {"none", "up", "gone"}]
  /\ imported \in BOOLEAN
  /\ mutex \in [Conns -> {"free", "leaked"}]
  /\ read \in 0 .. MaxReads
  /\ waiting \subseteq Requests
  /\ queued \in 0 .. MaxProduced
  /\ produced \in 0 .. MaxProduced
  /\ handing \subseteq Requests
  /\ expired \subseteq Requests
  /\ crashed \in BOOLEAN

Holders == {c \in Conns : pc[c] \in Claimed}

\* The device is driven by one connection at most, and the claim is set
\* exactly while one drives it: no path out of the handler keeps it or gives
\* away somebody else's (claimDevice, the deferred releaseDevice).
OneImporter ==
  /\ \A c, d \in Holders : c = d
  /\ imported <=> Holders # {}

\* Whichever way a request leaves the buffer, it leaves it to one goroutine.
OneOwner ==
  /\ waiting \intersect (handing \union expired) = {}
  /\ handing \intersect expired = {}

\* handle() waits for the mutex a panic of its own handleCommands left locked
\* (usbip_server.go:251-255): nobody will unlock it.
Stuck(c) == mutex[c] = "leaked" /\ pc[c] \in ControlReplies

\* A peer that goes ends the handler, the claim released and the socket closed,
\* instead of a loop on a dead socket (usbip_server.go:110-111, 165-168).  The
\* one exception is a handler that took what was left of the stream for another
\* control request and is stuck with its reply.
DropEndsHandler ==
  \A c \in Conns : peer[c] = "gone" ~> pc[c] = "closed" \/ Stuck(c) \/ crashed

InHands(r) == r \in waiting \union handing \union expired

\* As long as its peer stays, every request is answered, whatever happens to
\* the other connections and even if handleCommands has given up on its own.
RequestsOfLivePeersEnd ==
  \A r \in Requests :
    InHands(r) ~> ~InHands(r) \/ peer[r.conn] = "gone" \/ crashed

-----------------------------------------------------------------------------
(* What the documents and comments say. *)

\* docs/security.md:197-199: a detach cannot crash the authenticator.
DetachDoesNotCrash == ~crashed

\* usbip_server.go:102-103, 165-168: a dropped peer always ends the handler, and
\* the handler frees the socket and the port.
DropFreesSocket ==
  \A c \in Conns : peer[c] = "gone" ~> pc[c] = "closed" \/ crashed

\* usbip_server.go:185-187: a panic caught by alive() means that the peer
\* dropped the connection.
PanicMeansDropped == \A c \in Conns : pc[c] \in {"stray", "ended"} => peer[c] = "gone"

\* server_linux.go:47-49: after a drop a fresh attach brings the device back
\* without a restart.  A session that lasts finds the HID layer able to
\* respond, now or later.
ReattachBringsItBack ==
  \A c \in Conns : pc[c] = "command" ~> handing = {} \/ pc[c] # "command" \/ crashed
=============================================================================
