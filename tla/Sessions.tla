------------------------------ MODULE Sessions ------------------------------
(***************************************************************************)
(* What lasts longer than an attachment.  A session is the time a device   *)
(* is attached; the HID server, its channels and the report queue of the   *)
(* device belong to the process, so a command begun in one session may be  *)
(* answered in the next, and a report that nobody reads goes to the next   *)
(* reader.  This composes the connection handler (UsbIpServer), the        *)
(* request buffer (RequestBuffer) and the channels (CtapHid), each reduced *)
(* to one step per effect on the others.                                   *)
(*                                                                         *)
(* External: vhci and usbhid, which keep one IN request outstanding while  *)
(* a client has the device open; the clients, which open a channel with an *)
(* INIT each time they open the device, and give up when they like; and    *)
(* systemd, which starts the process again.  Packets to the device are     *)
(* read at once, a message is one packet, and no session is begun while    *)
(* the claim of the last is held (it would be refused).                    *)
(***************************************************************************)
EXTENDS Naturals, Sequences, FiniteSets

CONSTANTS Clients,
          MaxSessions,  \* bound on the attachments
          MaxRequests   \* bound on the requests and INITs of all clients

ASSUME SessionsAssumption == {MaxSessions, MaxRequests} \subseteq Nat

AllSessions == 1 .. MaxSessions

VARIABLES
  session,      \* the last session begun
  up,           \* it has not been ended by the host
  imported,     \* the server has not noticed its end: the claim is held
  irp,          \* per session, where its IN request is and what answers it
  leaked,       \* sessions whose responseMutex a panic has left locked
  responses,    \* requestBuffer.responses
  running,      \* commands that have not answered yet
  maxChannelID,
  client,
  requests,     \* requests sent so far
  delivered,    \* requests whose answer has reached a session that was up
  lost,         \* requests whose answer went to one that was not
  died,         \* requests whose answer was in a process that crashed
  crashed

vars == <<session, up, imported, irp, leaked, responses, running, maxChannelID,
          client, requests, delivered, lost, died, crashed>>

None == [of |-> 0, kind |-> "none", ch |-> 0]
Report(of, kind, ch) == [of |-> of, kind |-> kind, ch |-> ch]

At(point, report) == [at |-> point, report |-> report]
NoRequest == At("none", None)
Away      == [at |-> "idle", ch |-> 0, req |-> 0]

Init ==
  /\ session = 0
  /\ up = FALSE
  /\ imported = FALSE
  /\ irp = [s \in AllSessions |-> NoRequest]
  /\ leaked = {}
  /\ responses = <<>>
  /\ running = {}
  /\ maxChannelID = 0
  /\ client = [c \in Clients |-> Away]
  /\ requests = 0
  /\ delivered = {}
  /\ lost = {}
  /\ died = {}
  /\ crashed = FALSE

Live(s) == up /\ s = session

\* Respond takes responsesLock for as long as it writes; Request calls its
\* callback with the lock of the buffer held.
SenderFree == \A s \in AllSessions : irp[s].at # "hid"
BufferFree == \A s \in AllSessions : irp[s].at # "serving"

-----------------------------------------------------------------------------
(* The host. *)

\* Mutant: channel ids start anew with each session.
AttachResets ==
  /\ ~up /\ ~imported /\ session < MaxSessions
  /\ session' = session + 1
  /\ up' = TRUE
  /\ imported' = TRUE
  /\ maxChannelID' = 0
  /\ UNCHANGED <<irp, leaked, responses, running, client, requests, delivered, lost, died, crashed>>

Attach ==
  /\ ~up /\ ~imported /\ session < MaxSessions
  /\ session' = session + 1
  /\ up' = TRUE
  /\ imported' = TRUE
  /\ UNCHANGED <<irp, leaked, responses, running, maxChannelID, client, requests, delivered, lost, died, crashed>>

\* A detach or a suspend takes the device from the clients.
Detach ==
  /\ up
  /\ up' = FALSE
  /\ client' = [c \in Clients |-> Away]
  /\ UNCHANGED <<session, imported, irp, leaked, responses, running, maxChannelID, requests, delivered, lost, died, crashed>>

\* An IN request is kept outstanding while a client has the device open.
Reads ==
  /\ up
  /\ irp[session] = NoRequest
  /\ \E c \in Clients : client[c].at # "idle"
  /\ irp' = [irp EXCEPT ![session] = At("sent", None)]
  /\ UNCHANGED <<session, up, imported, leaked, responses, running, maxChannelID, client, requests, delivered, lost, died, crashed>>

\* The last client has closed it: the host unlinks the request, if it is not
\* answered already.
Unlinks ==
  /\ up
  /\ irp[session].at = "waiting"
  /\ \A c \in Clients : client[c].at = "idle"
  /\ BufferFree
  /\ irp' = [irp EXCEPT ![session] = NoRequest]
  /\ UNCHANGED <<session, up, imported, leaked, responses, running, maxChannelID, client, requests, delivered, lost, died, crashed>>

Sends(c, point, kind, ch) ==
  /\ requests < MaxRequests
  /\ requests' = requests + 1
  /\ client' = [client EXCEPT ![c] = [at |-> point, ch |-> ch, req |-> requests + 1]]
  /\ running' = running \union {Report(requests + 1, kind, ch)}
  /\ UNCHANGED <<session, up, imported, irp, leaked, responses, maxChannelID, delivered, lost, died, crashed>>

Open(c)    == up /\ client[c].at = "idle" /\ Sends(c, "opening", "init", 0)
Request(c) == client[c].at = "ready" /\ Sends(c, "waiting", "reply", client[c].ch)

\* A client gives up or is done, and closes the device.
Close(c) ==
  /\ client[c].at # "idle"
  /\ client' = [client EXCEPT ![c] = Away]
  /\ UNCHANGED <<session, up, imported, irp, leaked, responses, running, maxChannelID, requests, delivered, lost, died, crashed>>

-----------------------------------------------------------------------------
(* The connection's goroutine. *)

\* handleCommandSubmit on the IN endpoint; the request may have been sent
\* before a detach the server has yet to notice.
ServerReads ==
  /\ imported
  /\ irp[session].at = "sent"
  /\ BufferFree
  /\ IF responses # <<>>
     THEN /\ irp' = [irp EXCEPT ![session] = At("serving", Head(responses))]
          /\ responses' = Tail(responses)
     ELSE /\ irp' = [irp EXCEPT ![session] = At("waiting", None)]
          /\ UNCHANGED responses
  /\ UNCHANGED <<session, up, imported, leaked, running, maxChannelID, client, requests, delivered, lost, died, crashed>>

\* The handler ends, releases the claim and closes the socket: a read fails, or
\* the write of an answer of its own, which leaves the mutex locked.  What it
\* was serving, or had not read, is lost.
HandlerEnds ==
  /\ imported /\ ~up
  /\ imported' = FALSE
  /\ leaked' \in IF irp[session].at = "serving" THEN {leaked \union {session}}
                 ELSE {leaked, leaked \union {session}}
  /\ IF irp[session].at \in {"sent", "serving"}
     THEN irp' = [irp EXCEPT ![session] = NoRequest]
     ELSE UNCHANGED irp
  /\ lost' = IF irp[session].at = "serving" THEN lost \union {irp[session].report.of} ELSE lost
  /\ UNCHANGED <<session, up, responses, running, maxChannelID, client, requests, delivered, died, crashed>>

-----------------------------------------------------------------------------
(* The HID layer and the timers. *)

Answer(m) ==
  IF m.kind = "init" THEN Report(m.of, "init", maxChannelID + 1) ELSE m

Answers(m) ==
  /\ m \in running
  /\ SenderFree /\ BufferFree
  /\ running' = running \ {m}
  /\ maxChannelID' = IF m.kind = "init" THEN maxChannelID + 1 ELSE maxChannelID
  /\ UNCHANGED <<session, up, imported, leaked, client, requests, delivered, lost, died, crashed>>

Waiting == {s \in AllSessions : irp[s].at = "waiting"}

\* Mutant: Respond queues the report even if it hands it to a request.
RespondTwice(m) ==
  /\ Answers(m)
  /\ IF Waiting = {} THEN UNCHANGED irp
     ELSE \E s \in Waiting : irp' = [irp EXCEPT ![s] = At("hid", Answer(m))]
  /\ responses' = Append(responses, Answer(m))

\* Mutant: a report nobody waits for is dropped.
RespondDrops(m) ==
  /\ Answers(m)
  /\ IF Waiting = {}
     THEN UNCHANGED <<irp, responses>>
     ELSE /\ \E s \in Waiting : irp' = [irp EXCEPT ![s] = At("hid", Answer(m))]
          /\ UNCHANGED responses

\* A command ends; its answer goes to a waiting request, any one, whatever
\* became of its session, or is queued.
Respond(m) ==
  /\ Answers(m)
  /\ IF Waiting = {}
     THEN responses' = Append(responses, Answer(m)) /\ UNCHANGED irp
     ELSE /\ \E s \in Waiting : irp' = [irp EXCEPT ![s] = At("hid", Answer(m))]
          /\ UNCHANGED responses

\* After a second the timer answers a waiting request with nothing.
TimerFires(s) ==
  /\ irp[s].at = "waiting"
  /\ BufferFree
  /\ irp' = [irp EXCEPT ![s].at = "timer"]
  /\ UNCHANGED <<session, up, imported, leaked, responses, running, maxChannelID, client, requests, delivered, lost, died, crashed>>

\* hidraw shows a report to all clients; an INIT is known by its nonce, a
\* reply by its channel.
Takes(c, m) ==
  \/ m.kind = "init" /\ client[c].at = "opening" /\ m.of = client[c].req
  \/ m.kind = "reply" /\ client[c].at = "waiting" /\ m.ch = client[c].ch

\* writeResponse to a session that is up.
Delivered(s) ==
  LET m == irp[s].report IN
  /\ irp[s].at \in {"serving", "hid", "timer"}
  /\ Live(s) /\ s \notin leaked
  /\ irp' = [irp EXCEPT ![s] = NoRequest]
  /\ delivered' = IF m = None THEN delivered ELSE delivered \union {m.of}
  /\ client' = [c \in Clients |-> IF Takes(c, m) THEN [client[c] EXCEPT !.at = "ready", !.ch = m.ch] ELSE client[c]]
  /\ UNCHANGED <<session, up, imported, leaked, responses, running, maxChannelID, requests, lost, died, crashed>>

\* Mutant: a request that could not be answered waits again.
WrittenToNobodyRetries(s) ==
  /\ irp[s].at \in {"serving", "hid", "timer"}
  /\ ~Live(s) /\ s \notin leaked
  /\ irp' = [irp EXCEPT ![s] = At("waiting", None)]
  /\ lost' = lost \union ({irp[s].report.of} \ {0})
  /\ UNCHANGED <<session, up, imported, leaked, responses, running, maxChannelID, client, requests, delivered, died, crashed>>

\* writeResponse to one that is not: the kernel may still take it before the
\* socket is closed, or the panic ends the process (HandlerEnds has the one
\* that is caught).
WrittenToNobody(s) ==
  /\ irp[s].at \in {"serving", "hid", "timer"}
  /\ ~Live(s) /\ s \notin leaked
  /\ \/ /\ s = session /\ imported
        /\ irp' = [irp EXCEPT ![s] = NoRequest]
        /\ lost' = lost \union ({irp[s].report.of} \ {0})
        /\ UNCHANGED crashed
     \/ /\ irp[s].at # "serving"
        /\ crashed' = TRUE
        /\ UNCHANGED <<irp, lost>>
  /\ UNCHANGED <<session, up, imported, leaked, responses, running, maxChannelID, client, requests, delivered, died>>

\* A new process: channel ids start anew, and nothing is left that could
\* answer in an old one.
Restart ==
  /\ crashed
  /\ crashed' = FALSE
  /\ up' = FALSE
  /\ imported' = FALSE
  /\ irp' = [s \in AllSessions |-> NoRequest]
  /\ leaked' = {}
  /\ responses' = <<>>
  /\ running' = {}
  /\ maxChannelID' = 0
  /\ client' = [c \in Clients |-> Away]
  /\ died' = (1 .. requests) \ (delivered \union lost)
  /\ UNCHANGED <<session, requests, delivered, lost>>

-----------------------------------------------------------------------------
Work ==
  \/ ServerReads \/ Reads \/ Unlinks
  \/ \E s \in AllSessions : TimerFires(s) \/ Delivered(s) \/ WrittenToNobody(s)

Host == Attach \/ Detach \/ (\E c \in Clients : Open(c) \/ Request(c) \/ Close(c))

Next ==
  \/ ~crashed /\ (Host \/ Work \/ HandlerEnds \/ (\E m \in running : Respond(m)))
  \/ Restart

Spec == Init /\ [][Next]_vars

\* Goroutines and the host's reader go on, a command ends (CtapServer) and
\* finds the locks free in the end if they are free again and again, and
\* systemd restarts what has crashed.
Fairness ==
  /\ WF_vars(~crashed /\ ServerReads) /\ WF_vars(~crashed /\ Reads)
  /\ WF_vars(~crashed /\ HandlerEnds) /\ WF_vars(Restart)
  /\ \A s \in AllSessions :
       WF_vars(~crashed /\ TimerFires(s)) /\ WF_vars(~crashed /\ (Delivered(s) \/ WrittenToNobody(s)))
  /\ \A r \in 1 .. MaxRequests :
       SF_vars(~crashed /\ \E m \in running : m.of = r /\ Respond(m))

FairSpec == Spec /\ Fairness

-----------------------------------------------------------------------------
(* Properties. *)

Answerables == [of : 0 .. MaxRequests, kind : {"none", "init", "reply"}, ch : 0 .. MaxRequests]

TypeOK ==
  /\ session \in 0 .. MaxSessions
  /\ (up => imported) /\ (imported => session > 0)
  /\ irp \in [AllSessions -> [at : {"none", "sent", "waiting", "serving", "hid", "timer"}, report : Answerables]]
  /\ leaked \subseteq AllSessions
  /\ responses \in Seq(Answerables) /\ running \subseteq Answerables
  /\ maxChannelID \in 0 .. MaxRequests
  /\ client \in [Clients -> [at : {"idle", "opening", "ready", "waiting"}, ch : 0 .. MaxRequests, req : 0 .. MaxRequests]]
  /\ requests \in 0 .. MaxRequests
  /\ delivered \union lost \union died \subseteq 1 .. requests

\* The places where the answer to a request may be.
Places(r) ==
  Cardinality({m \in running : m.of = r}) + Cardinality({k \in DOMAIN responses : responses[k].of = r})
    + Cardinality({s \in AllSessions : irp[s].report.of = r})
    + Cardinality({n \in 1 .. 3 : r \in <<delivered, lost, died>>[n]})

\* Whatever sessions come and go, the answer to a request is in one place:
\* none is forgotten, none given to two readers (request_buffer.go:42-58).
OnePlace == \A r \in 1 .. requests : Places(r) = 1

\* A client takes nothing for the answer to its request but that answer:
\* neither what an earlier session left behind nor what another client asked
\* for (ctap_hid.go:66: ids are never used again in one process).
OwnAnswerOnly ==
  [][\A c \in Clients :
       client[c].at = "waiting" /\ client'[c].at = "ready" => delivered' \ delivered = {client[c].req}]_vars

\* Respond waits for a mutex nobody will unlock (usbip_server.go:251-255).
Stuck == \E s \in leaked : irp[s].at = "hid"

\* A client whose session lasts is answered, even with a queue full of answers
\* for others and with timers running, unless the answer was handed to a dead
\* session's request or one has wedged the HID layer.
WaitingEnds ==
  \A c \in Clients :
    client[c].at \in {"opening", "waiting"} ~>
      client[c].at \in {"idle", "ready"} \/ client[c].req \in lost \/ Stuck

\* The end of a session costs at most one answer: the one its last request was
\* waiting for (usb_device.go:80-87, usbip_server.go:111).
OneLostPerSession == Cardinality(lost) <= session

-----------------------------------------------------------------------------
(* What the comments say. *)

\* server_linux.go:47-49: a fresh attach brings the device straight back
\* without restarting the process.  In a session that lasts, every client is
\* answered.
FreshAttachAnswers ==
  \A c \in Clients :
    client[c].at \in {"opening", "waiting"} ~> client[c].at \in {"idle", "ready"}
=============================================================================
