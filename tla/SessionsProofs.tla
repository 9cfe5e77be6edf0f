--------------------------- MODULE SessionsProofs ---------------------------
(***************************************************************************)
(* Proofs about Sessions, for any set of clients and any number of         *)
(* sessions and requests: its types, that the answer to a request is in    *)
(* one place, that a client takes no answer but its own, and that a        *)
(* session loses at most one.                                              *)
(*                                                                         *)
(* The first part of the invariant divides the requests sent so far among  *)
(* the commands that run, the queue, the hands of goroutines and the ends  *)
(* an answer can come to (Spread).  The second keeps the channels apart: a *)
(* client that has one shares it with no other, and the only reply on it   *)
(* that can be about is the one the client waits for (Channels), because   *)
(* an id is given once, to the INIT of one client (Counted bounds them).   *)
(***************************************************************************)
EXTENDS Sessions, FiniteSetTheorems, TLAPS

Real    == [of : 1 .. requests, kind : {"init", "reply"}, ch : 0 .. maxChannelID]
Points  == {"none", "sent", "waiting", "serving", "hid", "timer"}
Phases  == {"idle", "opening", "ready", "waiting"}

Scalars ==
  /\ session \in 0 .. MaxSessions /\ requests \in 0 .. MaxRequests /\ maxChannelID \in Nat
  /\ up \in BOOLEAN /\ imported \in BOOLEAN /\ crashed \in BOOLEAN
  /\ (up => imported) /\ (imported => session > 0)
  /\ leaked \subseteq AllSessions
Hands ==
  /\ irp \in [AllSessions -> [at : Points, report : Real \union {None}]]
  /\ \A s \in AllSessions : irp[s].at \in {"serving", "hid"} <=> irp[s].report # None
Messages == responses \in Seq(Real) /\ running \subseteq Real
People == client \in [Clients -> [at : Phases, ch : 0 .. maxChannelID, req : 0 .. requests]]

Shapes == Scalars /\ Hands /\ Messages /\ People

\* The requests of which the answer is still to be made, is queued, is being
\* written.
Running == {m.of : m \in running}
Queued  == {responses[k].of : k \in DOMAIN responses}
InHand  == {irp[s].report.of : s \in AllSessions} \ {0}

Apart ==
  /\ \A m, n \in running : m.of = n.of => m = n
  /\ \A i, j \in DOMAIN responses : responses[i].of = responses[j].of => i = j
  /\ \A s, t \in AllSessions : irp[s].report.of = irp[t].report.of /\ irp[s].report.of # 0 => s = t

Divided ==
  /\ Running \intersect Queued = {}
  /\ (Running \union Queued) \intersect InHand = {}
  /\ (Running \union Queued \union InHand) \intersect delivered = {}
  /\ (Running \union Queued \union InHand \union delivered) \intersect lost = {}
  /\ (Running \union Queued \union InHand \union delivered \union lost) \intersect died = {}
  /\ Running \union Queued \union InHand \union delivered \union lost \union died = 1 .. requests

Spread == Apart /\ Divided

\* Answers that have been made, with the ids that INITs were given; and all
\* that may still be delivered.
Answered == {responses[k] : k \in DOMAIN responses} \union ({irp[s].report : s \in AllSessions} \ {None})
InFlight == running \union Answered

HasChannel(c) == client[c].at \in {"ready", "waiting"}

Channels ==
  /\ \A m, n \in Answered : m.kind = "init" /\ n.kind = "init" /\ m.ch = n.ch => m.of = n.of
  /\ \A m \in Answered, n \in InFlight : m.kind = "init" /\ n.kind = "reply" => m.ch # n.ch
  /\ \A m \in Answered, c \in Clients : m.kind = "init" /\ HasChannel(c) => m.ch # client[c].ch
  /\ \A c, d \in Clients : HasChannel(c) /\ HasChannel(d) /\ client[c].ch = client[d].ch => c = d
  /\ \A m \in InFlight, c \in Clients :
       m.kind = "reply" /\ HasChannel(c) /\ m.ch = client[c].ch => client[c].at = "waiting" /\ m.of = client[c].req
  /\ \A c, d \in Clients :
       client[c].at # "idle" /\ client[d].at # "idle" /\ client[c].req = client[d].req => c = d

Counted == maxChannelID + Cardinality(Running) <= requests

SInv == Shapes /\ Spread /\ Channels /\ Counted

LEMMA Bounds == MaxSessions \in Nat /\ MaxRequests \in Nat
  BY SessionsAssumption

LEMMA RunningFinite ==
  ASSUME Shapes, Divided
  PROVE  IsFiniteSet(Running) /\ Cardinality(Running) \in Nat
  <1>1. requests \in Nat /\ Running \subseteq 1 .. requests
    BY Bounds DEF Shapes, Scalars, Divided
  <1>2. IsFiniteSet(1 .. requests)
    BY <1>1, FS_Interval
  <1>3. IsFiniteSet(Running)
    BY <1>1, <1>2, FS_Subset
  <1> QED
    BY <1>3, FS_CardinalityType

LEMMA MessageIs ==
  ASSUME Shapes
  PROVE  /\ \A m \in running : m.of \in 1 .. requests /\ m.of # 0 /\ m.of \in Running
         /\ \A k \in DOMAIN responses : responses[k] \in Real /\ responses[k].of \in 1 .. requests /\ responses[k].of \in Queued
         /\ \A s \in AllSessions : irp[s].report # None =>
              irp[s].report \in Real /\ irp[s].report.of \in 1 .. requests /\ irp[s].report.of \in InHand
         /\ Running \union Queued \union InHand \subseteq 1 .. requests
         /\ \A m \in InFlight : m.of \in Running \union Queued \union InHand
  <1>1. \A m \in Real : m.of \in 1 .. requests /\ m.of # 0
    BY DEF Real
  <1>2. \A m \in running : m \in Real
    BY DEF Shapes, Messages
  <1>3. \A k \in DOMAIN responses : responses[k] \in Real
    BY DEF Shapes, Messages
  <1>4. \A s \in AllSessions : irp[s].report # None => irp[s].report \in Real
    BY DEF Shapes, Hands
  <1>5. \A s \in AllSessions : irp[s].report = None => irp[s].report.of = 0
    BY DEF None
  <1> QED
    BY <1>1, <1>2, <1>3, <1>4, <1>5 DEF Running, Queued, InHand, InFlight, Answered

-----------------------------------------------------------------------------
(* What a step does to hands and channels. *)

\* One request changes hands.
LEMMA HandChange ==
  ASSUME Shapes, Apart, NEW s \in AllSessions, NEW p, irp' = [irp EXCEPT ![s] = p],
         p.report.of = 0 \/ p.report.of \notin InHand
  PROVE  /\ InHand' = (InHand \ {irp[s].report.of}) \union ({p.report.of} \ {0})
         /\ \A t, v \in AllSessions : irp'[t].report.of = irp'[v].report.of /\ irp'[t].report.of # 0 => t = v
  <1>1. irp'[s] = p /\ \A t \in AllSessions \ {s} : irp'[t] = irp[t]
    BY DEF Shapes, Hands
  <1>2. \A t \in AllSessions : irp[t].report.of # 0 => irp[t].report.of \in InHand
    BY DEF InHand
  <1>3. \A t \in AllSessions \ {s} : irp[t].report.of # 0 => irp[t].report.of # irp[s].report.of
    BY DEF Apart
  <1> QED
    BY <1>1, <1>2, <1>3 DEF InHand, Apart

\* Nothing is made, moved or handed over; clients may give up.
LEMMA Quiet ==
  ASSUME SInv, Shapes', UNCHANGED <<responses, running, maxChannelID, requests, delivered, lost, died>>,
         \A s \in AllSessions : irp'[s].report = irp[s].report,
         \A c \in Clients : client'[c] \in {client[c], Away}
  PROVE  SInv'
  <1>1. Running' = Running /\ Queued' = Queued /\ InHand' = InHand /\ Answered' = Answered /\ InFlight' = InFlight
    BY DEF Running, Queued, InHand, Answered, InFlight, AllSessions
  <1>2. Spread'
    BY <1>1 DEF SInv, Spread, Apart, Divided, AllSessions
  <1>3. \A c \in Clients : client'[c].at # "idle" => client'[c] = client[c]
    BY DEF Away
  <1>4. Channels'
    BY <1>1, <1>3 DEF SInv, Channels, HasChannel
  <1> QED
    BY <1>1, <1>2, <1>4 DEF SInv, Counted

\* An answer comes to its end, at a session that has no client for it.
LEMMA FewerKeep ==
  ASSUME Channels, InFlight' \subseteq InFlight, Answered' \subseteq Answered, UNCHANGED client
  PROVE  Channels'
  BY DEF Channels, HasChannel

\* The head of the queue leaves it.
LEMMA HeadLeaves ==
  ASSUME Shapes, Apart, responses # <<>>, responses' = Tail(responses)
  PROVE  /\ Head(responses) \in Real /\ Head(responses).of \in Queued
         /\ Queued' = Queued \ {Head(responses).of}
         /\ \A i, j \in DOMAIN responses' : responses'[i].of = responses'[j].of => i = j
         /\ \A k \in DOMAIN responses' : responses'[k] \in {responses[j] : j \in DOMAIN responses}
         /\ Head(responses) \in {responses[j] : j \in DOMAIN responses}
         /\ responses' \in Seq(Real)
  <1>1. responses \in Seq(Real) /\ Len(responses) \in Nat /\ Len(responses) >= 1 /\ DOMAIN responses = 1 .. Len(responses)
    BY DEF Shapes, Messages
  <1>2. /\ responses' \in Seq(Real) /\ DOMAIN responses' = 1 .. Len(responses) - 1 /\ Head(responses) = responses[1]
        /\ \A k \in 1 .. Len(responses) - 1 : responses'[k] = responses[k + 1]
    BY <1>1
  <1>3. responses[1] \in Real /\ 1 \in DOMAIN responses
    BY <1>1
  <1>4. ASSUME NEW i \in DOMAIN responses', NEW j \in DOMAIN responses', responses'[i].of = responses'[j].of
        PROVE  i = j
    <2>1. i + 1 \in DOMAIN responses /\ j + 1 \in DOMAIN responses /\ responses[i + 1].of = responses[j + 1].of
      BY <1>1, <1>2, <1>4
    <2>2. i + 1 = j + 1
      BY <2>1 DEF Apart
    <2> QED
      BY <1>1, <1>2, <2>2
  <1>5. \A k \in DOMAIN responses' : k + 1 \in DOMAIN responses /\ k + 1 # 1 /\ responses'[k] = responses[k + 1]
    BY <1>1, <1>2
  <1>6. \A j \in DOMAIN responses : j # 1 => \E k \in DOMAIN responses' : responses'[k] = responses[j]
    <2> SUFFICES ASSUME NEW j \in DOMAIN responses, j # 1 PROVE \E k \in DOMAIN responses' : responses'[k] = responses[j]
      OBVIOUS
    <2>1. j - 1 \in DOMAIN responses' /\ responses'[j - 1] = responses[j]
      BY <1>1, <1>2
    <2> QED
      BY <2>1
  <1>7. Queued' = Queued \ {responses[1].of}
    BY <1>3, <1>5, <1>6 DEF Queued, Apart
  <1> QED
    BY <1>2, <1>3, <1>4, <1>5, <1>7 DEF Queued

\* A message joins the queue.
LEMMA JoinsQueue ==
  ASSUME responses \in Seq(Real), Apart, NEW R, Real \subseteq R, NEW m \in R, m.of \notin Queued, responses' = Append(responses, m)
  PROVE  /\ responses' \in Seq(R)
         /\ Queued' = Queued \union {m.of}
         /\ \A i, j \in DOMAIN responses' : responses'[i].of = responses'[j].of => i = j
         /\ {responses'[k] : k \in DOMAIN responses'} = {responses[k] : k \in DOMAIN responses} \union {m}
  <1>1. responses \in Seq(Real) /\ Len(responses) \in Nat /\ DOMAIN responses = 1 .. Len(responses)
    OBVIOUS
  <1>2. responses \in Seq(R)
    BY <1>1
  <1>3. /\ responses' \in Seq(R) /\ DOMAIN responses' = 1 .. Len(responses) + 1 /\ responses'[Len(responses) + 1] = m
        /\ \A k \in 1 .. Len(responses) : responses'[k] = responses[k]
    BY <1>1, <1>2
  <1>4. DOMAIN responses' = DOMAIN responses \union {Len(responses) + 1} /\ Len(responses) + 1 \notin DOMAIN responses
    BY <1>1, <1>3
  <1>5. {responses'[k] : k \in DOMAIN responses'} = {responses[k] : k \in DOMAIN responses} \union {m}
    BY <1>1, <1>3, <1>4
  <1>6. Queued' = Queued \union {m.of}
    BY <1>1, <1>3, <1>4 DEF Queued
  <1>7. \A k \in DOMAIN responses : responses[k].of # m.of
    BY DEF Queued
  <1>8. \A i, j \in DOMAIN responses' : responses'[i].of = responses'[j].of => i = j
    BY <1>1, <1>3, <1>4, <1>7 DEF Apart
  <1> QED
    BY <1>3, <1>5, <1>6, <1>8

-----------------------------------------------------------------------------
(* The steps. *)

LEMMA InitHolds == Init => SInv
  <1> SUFFICES ASSUME Init PROVE SInv
    OBVIOUS
  <1>1. \A s \in AllSessions : irp[s] = [at |-> "none", report |-> None]
    BY DEF Init, NoRequest, At
  <1>2. Shapes
    <2>1. Scalars
      <3>1. session \in 0 .. MaxSessions /\ requests \in 0 .. MaxRequests /\ maxChannelID \in Nat
        BY Bounds DEF Init
      <3>2. up = FALSE /\ imported = FALSE /\ crashed = FALSE /\ leaked = {}
        BY DEF Init
      <3> QED
        BY <3>1, <3>2, Zenon DEF Scalars
    <2>3. People
      <3>1. Away \in [at : Phases, ch : 0 .. 0, req : 0 .. 0]
        BY DEF Away, Phases
      <3> QED
        BY <3>1 DEF Init, People
    <2>2. Hands
      BY <1>1 DEF Init, Hands, Points, NoRequest, At
    <2> QED
      BY <2>1, <2>2, <2>3 DEF Init, Shapes, Messages
  <1>3. Running = {} /\ Queued = {} /\ InHand = {} /\ InFlight = {} /\ Answered = {}
    BY <1>1 DEF Init, Running, Queued, InHand, InFlight, Answered, None
  <1>4. Spread
    BY <1>1, <1>3 DEF Init, Spread, Apart, Divided, None
  <1>5. Channels
    BY <1>3 DEF Init, Channels, HasChannel, Away
  <1>6. Counted
    BY <1>3, FS_EmptySet DEF Init, Counted
  <1> QED
    BY <1>2, <1>4, <1>5, <1>6 DEF SInv

\* The host's steps that send nothing, and the timer's, which answers with
\* nothing.
LEMMA HostHolds ==
  ASSUME SInv, Attach \/ Detach \/ Reads \/ Unlinks
                 \/ (\E c \in Clients : Close(c)) \/ (\E s \in AllSessions : TimerFires(s))
  PROVE  SInv'
  <1> USE DEF SInv
  <1>1. CASE Attach
    <2>1. Shapes'
      BY <1>1, Bounds DEF Attach, Shapes, Scalars, Hands, Messages, People, Real
    <2> QED
      BY <1>1, <2>1, Quiet DEF Attach
  <1>2. CASE Detach \/ \E c \in Clients : Close(c)
    <2>1. \A c \in Clients : client'[c] \in {client[c], Away}
      BY <1>2 DEF Detach, Close, Shapes, People
    <2>2. People'
      <3>1. Away \in [at : Phases, ch : 0 .. maxChannelID, req : 0 .. requests]
        BY Bounds DEF Away, Phases, Shapes, Scalars
      <3> QED
        BY <1>2, <3>1 DEF Detach, Close, Shapes, People
    <2>4. Scalars'
      <3>1. /\ up' \in {up, FALSE}
            /\ UNCHANGED <<session, imported, leaked, maxChannelID, requests, crashed>>
        BY <1>2 DEF Detach, Close
      <3>2. CASE up' = up
        BY <3>1, <3>2 DEF Shapes, Scalars
      <3>3. CASE up' = FALSE
        BY <3>1, <3>3, Zenon DEF Shapes, Scalars, AllSessions
      <3> QED
        BY <3>1, <3>2, <3>3
    <2>5. Hands' /\ Messages'
      BY <1>2 DEF Detach, Close, Shapes, Hands, Messages, Real
    <2>3. Shapes'
      BY <2>2, <2>4, <2>5 DEF Shapes
    <2> QED
      BY <1>2, <2>1, <2>3, Quiet DEF Detach, Close
  <1>3. CASE Reads \/ Unlinks \/ \E s \in AllSessions : TimerFires(s)
    <2>1. PICK s \in AllSessions, p \in {"none", "sent", "timer"} :
            /\ irp[s].report = None /\ irp' = [irp EXCEPT ![s] = At(p, None)]
      <3>1. CASE Reads \/ Unlinks
        BY <1>3, <3>1 DEF Reads, Unlinks, NoRequest, At, Shapes, Scalars, Hands, AllSessions
      <3>2. ASSUME NEW s \in AllSessions, TimerFires(s)
            PROVE  irp[s].report = None /\ irp' = [irp EXCEPT ![s] = At("timer", None)]
        <4>1. irp[s].report = None /\ irp[s] = [at |-> irp[s].at, report |-> None]
          BY <3>2 DEF TimerFires, Shapes, Hands
        <4>2. [irp[s] EXCEPT !.at = "timer"] = At("timer", None)
          BY <4>1 DEF At
        <4> QED
          BY <3>2, <4>1, <4>2 DEF TimerFires, Shapes, Hands
      <3> QED
        BY <1>3, <3>1, <3>2
    <2>2. UNCHANGED <<session, up, imported, leaked, responses, running, maxChannelID, client, requests, delivered, lost, died, crashed>>
      BY <1>3 DEF Reads, Unlinks, TimerFires
    <2>3. Hands'
      BY <2>1, <2>2 DEF Shapes, Hands, Points, At, Real
    <2>4. Shapes'
      BY <2>2, <2>3 DEF Shapes, Scalars, Messages, People, Real
    <2>5. \A t \in AllSessions : irp'[t].report = irp[t].report
      BY <2>1 DEF Shapes, Hands, At
    <2> QED
      BY <2>2, <2>4, <2>5, Quiet
  <1> QED
    BY <1>1, <1>2, <1>3

\* A client sends a request or an INIT: a command begins to run.
LEMMA SendsHolds ==
  ASSUME SInv, NEW c \in Clients, Open(c) \/ Request(c)
  PROVE  SInv'
  <1> USE DEF SInv
  <1> DEFINE r == requests + 1
  <1>1. PICK point \in {"opening", "waiting"}, kind \in {"init", "reply"}, ch \in 0 .. maxChannelID :
          /\ Sends(c, point, kind, ch)
          /\ point = "opening" => kind = "init"
          /\ point = "waiting" => kind = "reply" /\ client[c].at = "ready" /\ ch = client[c].ch
    <2>1. CASE Open(c)
      <3>1. 0 \in 0 .. maxChannelID
        BY DEF Shapes, Scalars
      <3> QED
        BY <2>1, <3>1 DEF Open
    <2>2. CASE Request(c)
      <3>1. client[c].ch \in 0 .. maxChannelID
        BY DEF Shapes, People
      <3> QED
        BY <2>2, <3>1 DEF Request
    <2> QED
      BY <2>1, <2>2
  <1> DEFINE m == Report(r, kind, ch)
             k == [at |-> point, ch |-> ch, req |-> r]
  <1>2. /\ requests' = r /\ r \in 1 .. MaxRequests /\ requests \in Nat /\ running' = running \union {m}
        /\ client' = [client EXCEPT ![c] = k]
        /\ UNCHANGED <<session, up, imported, irp, leaked, responses, maxChannelID, delivered, lost, died, crashed>>
    BY <1>1, Bounds DEF Sends, Shapes, Scalars
  <1>3. m.of = r /\ m.kind = kind /\ m.ch = ch /\ k.at = point /\ k.ch = ch /\ k.req = r
    BY DEF Report
  <1>4. Shapes'
    <2>1. Real \subseteq Real' /\ m \in Real'
      BY <1>2 DEF Real, Report
    <2>2. Scalars'
      BY <1>2 DEF Shapes, Scalars
    <2>3. Hands'
      BY <1>2, <2>1 DEF Shapes, Hands
    <2>4. Messages'
      BY <1>2, <2>1 DEF Shapes, Messages
    <2>5. People'
      BY <1>2 DEF Shapes, People, Phases
    <2> QED
      BY <2>2, <2>3, <2>4, <2>5 DEF Shapes
  <1> HIDE DEF m, k
  <1>5. Running' = Running \union {r} /\ Queued' = Queued /\ InHand' = InHand /\ Answered' = Answered
        /\ InFlight' = InFlight \union {m}
    BY <1>2, <1>3 DEF Running, Queued, InHand, Answered, InFlight
  <1>6. Running \union Queued \union InHand \subseteq 1 .. requests /\ r \notin 1 .. requests
        /\ (\A n \in InFlight : n.of # r) /\ \A n \in running : n.of # r
    BY <1>2, MessageIs
  <1>7. Spread'
    <2>1. Apart'
      BY <1>2, <1>3, <1>6 DEF Spread, Apart
    <2>2. 1 .. requests' = (1 .. requests) \union {r}
      BY <1>2
    <2>3. Divided'
      BY <1>2, <1>5, <1>6, <2>2 DEF Spread, Divided
    <2> QED
      BY <2>1, <2>3 DEF Spread
  <1>8. \A d \in Clients : client[d].req \in 0 .. requests /\ client[d].req # r
    BY <1>2 DEF Shapes, People
  <1>9. client'[c] = k /\ \A d \in Clients \ {c} : client'[d] = client[d]
    BY <1>2 DEF Shapes, People
  <1>10. Channels'
    <2>1. \A a, b \in Answered : a.kind = "init" /\ b.kind = "init" /\ a.ch = b.ch => a.of = b.of
      BY DEF Channels
    <2>2. \A a \in Answered, b \in InFlight' : a.kind = "init" /\ b.kind = "reply" => a.ch # b.ch
      BY <1>1, <1>3, <1>5 DEF Channels, HasChannel
    <2>3. \A a \in Answered, d \in Clients : a.kind = "init" /\ HasChannel(d)' => a.ch # client'[d].ch
      BY <1>1, <1>3, <1>9 DEF Channels, HasChannel
    <2>4. \A d, e \in Clients : HasChannel(d)' /\ HasChannel(e)' /\ client'[d].ch = client'[e].ch => d = e
      BY <1>1, <1>3, <1>9 DEF Channels, HasChannel
    <2>5. \A a \in InFlight', d \in Clients :
            a.kind = "reply" /\ HasChannel(d)' /\ a.ch = client'[d].ch => client'[d].at = "waiting" /\ a.of = client'[d].req
      BY <1>1, <1>3, <1>5, <1>9 DEF Channels, HasChannel
    <2>6. \A d, e \in Clients :
            client'[d].at # "idle" /\ client'[e].at # "idle" /\ client'[d].req = client'[e].req => d = e
      BY <1>3, <1>8, <1>9 DEF Channels
    <2> QED
      BY <1>5, <2>1, <2>2, <2>3, <2>4, <2>5, <2>6 DEF Channels
  <1>11. Counted'
    <2>1. Cardinality(Running \union {r}) = Cardinality(Running) + 1 /\ Cardinality(Running) \in Nat
      BY <1>6, RunningFinite, FS_AddElement DEF Spread
    <2> QED
      BY <1>2, <1>5, <2>1 DEF Counted, Shapes, Scalars
  <1> QED
    BY <1>4, <1>7, <1>10, <1>11

\* An answer comes to its end: it is written, or lost.
LEMMA EndsHolds ==
  ASSUME SInv, NEW s \in AllSessions, irp[s].report # None, irp' = [irp EXCEPT ![s] = NoRequest],
         \/ delivered' = delivered \union {irp[s].report.of} /\ lost' = lost
         \/ delivered' = delivered /\ lost' = lost \union {irp[s].report.of},
         UNCHANGED <<responses, running, maxChannelID, requests, died>>
  PROVE  /\ Hands' /\ Messages' /\ Spread' /\ Counted' /\ InFlight' \subseteq InFlight /\ Answered' \subseteq Answered
         /\ \A n \in InFlight' : n.of # irp[s].report.of
  <1> USE DEF SInv
  <1> DEFINE r == irp[s].report.of
  <1>1. r \in 1 .. requests /\ r # 0 /\ r \in InHand
    BY MessageIs DEF Shapes, Scalars
  <1>2. NoRequest.report.of = 0 /\ NoRequest.report = None /\ NoRequest.at = "none"
    BY DEF NoRequest, At, None
  <1>3. /\ InHand' = (InHand \ {r}) \union ({NoRequest.report.of} \ {0})
        /\ \A t, v \in AllSessions : irp'[t].report.of = irp'[v].report.of /\ irp'[t].report.of # 0 => t = v
    BY <1>2, HandChange DEF Spread
  <1>4. Running' = Running /\ Queued' = Queued /\ InHand' = InHand \ {r}
    BY <1>2, <1>3 DEF Running, Queued
  <1>5. \A t \in AllSessions : irp'[t] = IF t = s THEN NoRequest ELSE irp[t]
    BY DEF Shapes, Hands
  <1>6. Hands' /\ Messages'
    <2>1. Real' = Real
      BY DEF Real
    <2>2. NoRequest \in [at : Points, report : Real \union {None}]
      BY DEF NoRequest, At, Points
    <2>3. Hands'
      BY <1>2, <1>5, <2>1, <2>2 DEF Shapes, Hands
    <2> QED
      BY <2>1, <2>3 DEF Shapes, Messages
  <1>7. Apart'
    BY <1>3 DEF Spread, Apart
  <1> HIDE DEF r
  <1>8. Divided'
    BY <1>1, <1>4 DEF Spread, Divided, r
  <1>9. Answered' \subseteq Answered /\ InFlight' \subseteq InFlight
    BY <1>2, <1>5 DEF Answered, InFlight
  <1>10. ASSUME NEW n \in InFlight' PROVE n.of # r
    <2>1. n.of \in Running' \union Queued' \union InHand'
      <3>1. \A t \in AllSessions : irp'[t].report # None => irp'[t].report.of # 0
        BY <1>2, <1>5, MessageIs, Bounds DEF Shapes, Scalars
      <3> QED
        BY <1>10, <3>1 DEF InFlight, Answered, Running, Queued, InHand
    <2> QED
      BY <1>1, <1>4, <2>1 DEF Spread, Divided
  <1>11. Counted'
    BY <1>4 DEF Counted
  <1> QED
    BY <1>6, <1>7, <1>8, <1>9, <1>10, <1>11 DEF Spread, r

\* The server has the request: it waits, or takes what is queued.
LEMMA ServerReadsHolds == ASSUME SInv, ServerReads PROVE SInv'
  <1> USE DEF SInv
  <1>1. /\ session \in AllSessions /\ irp[session].at = "sent" /\ irp[session].report = None
        /\ UNCHANGED <<session, up, imported, leaked, running, maxChannelID, client, requests, delivered, lost, died, crashed>>
    BY DEF ServerReads, Shapes, Scalars, Hands, AllSessions
  <1>2. CASE responses = <<>>
    <2>1. irp' = [irp EXCEPT ![session] = At("waiting", None)] /\ UNCHANGED responses
      BY <1>2 DEF ServerReads
    <2>2. Shapes'
      BY <1>1, <2>1 DEF Shapes, Scalars, Hands, Messages, People, Real, Points, At
    <2>3. \A t \in AllSessions : irp'[t].report = irp[t].report
      BY <1>1, <2>1 DEF Shapes, Hands, At
    <2> QED
      BY <1>1, <2>1, <2>2, <2>3, Quiet
  <1>3. CASE responses # <<>>
    <2> DEFINE m == Head(responses)
               p == At("serving", m)
    <2>1. irp' = [irp EXCEPT ![session] = p] /\ responses' = Tail(responses)
      BY <1>3 DEF ServerReads
    <2>2. /\ m \in Real /\ m.of \in Queued /\ Queued' = Queued \ {m.of}
          /\ \A i, j \in DOMAIN responses' : responses'[i].of = responses'[j].of => i = j
          /\ \A k \in DOMAIN responses' : responses'[k] \in {responses[j] : j \in DOMAIN responses}
          /\ m \in {responses[j] : j \in DOMAIN responses}
          /\ responses' \in Seq(Real)
      BY <1>3, <2>1, HeadLeaves DEF Spread
    <2> HIDE DEF m
    <2>3. p.report = m /\ p.at = "serving" /\ p \in [at : Points, report : Real \union {None}]
      BY <2>2 DEF At, Points
    <2> HIDE DEF p
    <2>4. m.of \notin InHand /\ m.of \in 1 .. requests /\ m.of # 0 /\ irp[session].report.of = 0
      BY <1>1, <2>2, MessageIs DEF Spread, Divided, None, Real
    <2>5. /\ InHand' = InHand \union {m.of}
          /\ \A t, v \in AllSessions : irp'[t].report.of = irp'[v].report.of /\ irp'[t].report.of # 0 => t = v
      <3>1. /\ InHand' = (InHand \ {irp[session].report.of}) \union ({p.report.of} \ {0})
            /\ \A t, v \in AllSessions : irp'[t].report.of = irp'[v].report.of /\ irp'[t].report.of # 0 => t = v
        BY <1>1, <2>1, <2>3, <2>4, HandChange DEF Spread
      <3> QED
        BY <2>3, <2>4, <3>1 DEF InHand
    <2>6. \A t \in AllSessions : irp'[t] = IF t = session THEN p ELSE irp[t]
      BY <2>1 DEF Shapes, Hands
    <2>7. Shapes'
      <3>1. Real' = Real
        BY <1>1 DEF Real
      <3>2. Hands'
        BY <1>1, <2>1, <2>3, <2>4, <3>1 DEF Shapes, Hands, None
      <3>3. Messages'
        BY <1>1, <2>2, <3>1 DEF Shapes, Messages
      <3> QED
        BY <1>1, <3>2, <3>3 DEF Shapes, Scalars, People
    <2>8. Running' = Running /\ Apart'
      BY <1>1, <2>2, <2>5 DEF Running, Spread, Apart
    <2>9. Divided'
      BY <1>1, <2>2, <2>4, <2>5, <2>8 DEF Spread, Divided
    <2>10. Answered' \subseteq Answered
      <3>1. m # None
        BY <2>4 DEF None
      <3>2. \A t \in AllSessions : irp'[t].report \in {irp[t].report, m}
        BY <2>3, <2>6
      <3> QED
        BY <2>2, <3>1, <3>2 DEF Answered
    <2>11. Channels'
      BY <1>1, <2>10, FewerKeep DEF InFlight
    <2> QED
      BY <1>1, <2>7, <2>8, <2>9, <2>11 DEF Spread, Counted
  <1> QED
    BY <1>2, <1>3

\* The handler ends: what it was writing is lost.
LEMMA HandlerEndsHolds == ASSUME SInv, HandlerEnds PROVE SInv'
  <1> USE DEF SInv
  <1>1. /\ session \in AllSessions /\ imported' = FALSE /\ ~up /\ leaked' \subseteq AllSessions
        /\ UNCHANGED <<session, up, responses, running, maxChannelID, client, requests, delivered, died, crashed>>
    BY DEF HandlerEnds, Shapes, Scalars, AllSessions
  <1>2. Scalars' /\ People'
    BY <1>1 DEF Shapes, Scalars, People, AllSessions
  <1>3. CASE irp[session].at = "serving" /\ irp[session].report # None
    <2>1. irp' = [irp EXCEPT ![session] = NoRequest] /\ lost' = lost \union {irp[session].report.of}
      BY <1>3 DEF HandlerEnds
    <2>2. /\ Hands' /\ Messages' /\ Spread' /\ Counted' /\ InFlight' \subseteq InFlight /\ Answered' \subseteq Answered
      BY <1>1, <1>3, <2>1, EndsHolds
    <2> QED
      BY <1>1, <1>2, <2>2, FewerKeep DEF Shapes
  <1>4. CASE irp[session].at # "serving"
    <2>1. lost' = lost /\ irp' \in {irp, [irp EXCEPT ![session] = NoRequest]} /\ (irp' # irp => irp[session].report = None)
      BY <1>1, <1>4 DEF HandlerEnds, Shapes, Hands
    <2>2. \A t \in AllSessions : irp'[t].report = irp[t].report
      BY <1>1, <2>1 DEF NoRequest, At, Shapes, Hands
    <2>3. Hands'
      BY <1>1, <2>1 DEF Shapes, Hands, Real, NoRequest, At, Points
    <2>4. Shapes'
      BY <1>1, <1>2, <2>3 DEF Shapes, Messages, Real
    <2> QED
      BY <1>1, <2>1, <2>2, <2>4, Quiet
  <1>5. irp[session].at = "serving" => irp[session].report # None
    BY <1>1 DEF Shapes, Hands
  <1> QED
    BY <1>3, <1>4, <1>5

\* A command ends: its answer is queued or given to a request; an INIT is
\* given the next id.
LEMMA RespondHolds == ASSUME SInv, NEW x \in running, Respond(x) PROVE SInv'
  <1> USE DEF SInv
  <1> DEFINE m == Answer(x)
             r == x.of
  <1>1. /\ running' = running \ {x}
        /\ maxChannelID' = IF x.kind = "init" THEN maxChannelID + 1 ELSE maxChannelID
        /\ UNCHANGED <<session, up, imported, leaked, client, requests, delivered, lost, died, crashed>>
    BY DEF Respond, Answers
  <1>2. x \in Real /\ r \in 1 .. requests /\ r # 0 /\ r \in Running /\ r \notin Queued /\ r \notin InHand
    BY MessageIs DEF Shapes, Messages, Spread, Divided
  <1>3. maxChannelID \in Nat /\ maxChannelID' \in Nat /\ maxChannelID <= maxChannelID' /\ maxChannelID' <= maxChannelID + 1
    BY <1>1 DEF Shapes, Scalars
  <1>4. m \in Real' /\ m.of = r /\ m.kind = x.kind /\ m.ch = (IF x.kind = "init" THEN maxChannelID + 1 ELSE x.ch)
    BY <1>1, <1>2, <1>3 DEF Answer, Report, Real
  <1>5. Real \subseteq Real'
    BY <1>1, <1>3 DEF Real
  <1>6. m # None
    BY <1>2, <1>4 DEF None
  <1>7. Running' = Running \ {r}
    BY <1>1 DEF Running, Spread, Apart
  <1> HIDE DEF m, r
  <1>8. Scalars' /\ People'
    BY <1>1, <1>3 DEF Shapes, Scalars, People
  <1>9. running' \subseteq Real' /\ \A a, b \in running' : a.of = b.of => a = b
    BY <1>1, <1>5 DEF Shapes, Messages, Spread, Apart
  <1>10. /\ Hands' /\ Messages' /\ Apart'
         /\ \/ Queued' = Queued \union {r} /\ InHand' = InHand
            \/ Queued' = Queued /\ InHand' = InHand \union {r}
         /\ Answered' \subseteq Answered \union {m}
    <2>1. CASE Waiting = {}
      <3>1. responses' = Append(responses, m) /\ irp' = irp
        BY <2>1 DEF Respond, m
      <3>2. /\ responses' \in Seq(Real') /\ Queued' = Queued \union {r}
            /\ \A i, j \in DOMAIN responses' : responses'[i].of = responses'[j].of => i = j
            /\ {responses'[k] : k \in DOMAIN responses'} = {responses[k] : k \in DOMAIN responses} \union {m}
        BY <1>2, <1>4, <1>5, <3>1, JoinsQueue DEF Shapes, Messages, Spread
      <3>3. Hands'
        BY <1>5, <3>1 DEF Shapes, Hands
      <3>4. Apart'
        BY <1>9, <3>1, <3>2 DEF Spread, Apart
      <3> QED
        BY <1>9, <3>1, <3>2, <3>3, <3>4 DEF Messages, InHand, Answered
    <2>2. CASE Waiting # {}
      <3>1. PICK s \in AllSessions : irp[s].at = "waiting" /\ irp' = [irp EXCEPT ![s] = At("hid", m)]
        BY <2>2 DEF Respond, Waiting, m
      <3> DEFINE p == At("hid", m)
      <3>2. responses' = responses
        BY <2>2 DEF Respond
      <3>3. p.report = m /\ p.at = "hid" /\ p \in [at : Points, report : Real' \union {None}]
        BY <1>4 DEF At, Points
      <3>4. irp' = [irp EXCEPT ![s] = p]
        BY <3>1
      <3> HIDE DEF p
      <3>5. irp[s].report = None /\ irp[s].report.of = 0
        BY <3>1 DEF Shapes, Hands, None
      <3>6. /\ InHand' = (InHand \ {irp[s].report.of}) \union ({p.report.of} \ {0})
            /\ \A t, v \in AllSessions : irp'[t].report.of = irp'[v].report.of /\ irp'[t].report.of # 0 => t = v
        BY <1>2, <1>4, <3>3, <3>4, HandChange DEF Spread
      <3>7. InHand' = InHand \union {r}
        BY <1>2, <1>4, <3>3, <3>5, <3>6 DEF InHand
      <3>8. \A t \in AllSessions : irp'[t] = IF t = s THEN p ELSE irp[t]
        BY <3>4 DEF Shapes, Hands
      <3>9. Hands'
        BY <1>5, <1>6, <3>3, <3>4, <3>8 DEF Shapes, Hands
      <3>10. Messages' /\ Apart' /\ Queued' = Queued
        BY <1>5, <1>9, <3>2, <3>6 DEF Shapes, Messages, Spread, Apart, Queued
      <3>11. Answered' \subseteq Answered \union {m}
        <4>1. \A t \in AllSessions : irp'[t].report \in {irp[t].report, m}
          BY <3>3, <3>8
        <4> QED
          BY <3>2, <4>1 DEF Answered
      <3> QED
        BY <3>7, <3>9, <3>10, <3>11
    <2> QED
      BY <2>1, <2>2
  <1>11. Divided'
    BY <1>1, <1>2, <1>7, <1>10 DEF Spread, Divided
  <1>12. Channels'
    <2>1. \A a \in InFlight : a \in Real
      BY DEF Shapes, Messages, Hands, InFlight, Answered
    <2>2. \A a \in InFlight : a.ch \in Nat /\ a.ch <= maxChannelID
      BY <1>3, <2>1 DEF Real
    <2>3. \A c \in Clients : client[c].ch \in Nat /\ client[c].ch <= maxChannelID
      BY <1>3 DEF Shapes, People
    <2>4. InFlight' \subseteq InFlight \union {m} /\ x \in InFlight /\ Answered \subseteq InFlight
      BY <1>1, <1>10 DEF InFlight
    <2>5. CASE x.kind = "init"
      <3>1. m.kind = "init" /\ m.ch = maxChannelID + 1
        BY <1>4, <2>5
      <3> QED
        BY <1>1, <1>3, <1>10, <2>2, <2>3, <2>4, <3>1 DEF Channels, HasChannel
    <2>6. CASE x.kind # "init"
      <3>1. m = x /\ m.kind = "reply"
        BY <1>2, <2>6 DEF Answer, m, Real
      <3>2. InFlight' \subseteq InFlight
        BY <2>4, <3>1
      <3>3. \A a \in Answered' : a.kind = "init" => a \in Answered
        BY <1>10, <3>1
      <3> QED
        BY <1>1, <3>2, <3>3 DEF Channels, HasChannel
    <2> QED
      BY <2>5, <2>6
  <1>13. Counted'
    <2>1. Cardinality(Running \ {r}) = Cardinality(Running) - 1 /\ Cardinality(Running) \in Nat
      BY <1>2, RunningFinite, FS_RemoveElement DEF Spread
    <2> QED
      BY <1>1, <1>3, <1>7, <2>1 DEF Counted, Shapes, Scalars
  <1> QED
    BY <1>8, <1>10, <1>11, <1>12, <1>13 DEF Shapes, Spread

\* The answer reaches the clients of a session that is up.
LEMMA DeliveredHolds == ASSUME SInv, NEW s \in AllSessions, Delivered(s) PROVE SInv'
  <1> USE DEF SInv
  <1> DEFINE m == irp[s].report
  <1>1. /\ irp' = [irp EXCEPT ![s] = NoRequest]
        /\ delivered' = IF m = None THEN delivered ELSE delivered \union {m.of}
        /\ client' = [c \in Clients |-> IF Takes(c, m) THEN [client[c] EXCEPT !.at = "ready", !.ch = m.ch] ELSE client[c]]
        /\ UNCHANGED <<session, up, imported, leaked, responses, running, maxChannelID, requests, lost, died, crashed>>
    BY DEF Delivered
  <1>2. Scalars'
    BY <1>1 DEF Shapes, Scalars
  <1>3. CASE m = None
    <2>1. \A c \in Clients : ~Takes(c, m)
      BY <1>3 DEF Takes, None
    <2>2. \A c \in Clients : client'[c] = client[c]
      BY <1>1, <2>1
    <2>3. Shapes'
      <3>1. People'
        BY <1>1, <2>1 DEF Shapes, People
      <3>2. Hands'
        BY <1>1 DEF Shapes, Hands, Real, NoRequest, At, Points
      <3> QED
        BY <1>1, <1>2, <3>1, <3>2 DEF Shapes, Messages, Real
    <2>4. \A t \in AllSessions : irp'[t].report = irp[t].report
      BY <1>1, <1>3 DEF Shapes, Hands, NoRequest, At
    <2> QED
      BY <1>1, <1>3, <2>2, <2>3, <2>4, Quiet
  <1>4. CASE m # None
    <2>1. /\ Hands' /\ Messages' /\ Spread' /\ Counted' /\ InFlight' \subseteq InFlight /\ Answered' \subseteq Answered
          /\ \A n \in InFlight' : n.of # m.of
      BY <1>1, <1>4, EndsHolds
    <2>2. m \in Answered /\ m \in InFlight /\ m \in Real /\ Answered \subseteq InFlight
      BY <1>4, MessageIs DEF Answered, InFlight
    <2> HIDE DEF m
    <2>3. ASSUME NEW c \in Clients
          PROVE  /\ Takes(c, m) => client'[c] = [at |-> "ready", ch |-> m.ch, req |-> client[c].req]
                 /\ ~Takes(c, m) => client'[c] = client[c]
      BY <1>1 DEF Shapes, People
    <2>7. ASSUME NEW c \in Clients
          PROVE  /\ Takes(c, m) => client'[c].at = "ready" /\ client'[c].ch = m.ch
                 /\ ~Takes(c, m) => client'[c].at = client[c].at /\ client'[c].ch = client[c].ch
                 /\ client'[c].req = client[c].req
      <3>1. CASE Takes(c, m)
        <4> DEFINE n == [at |-> "ready", ch |-> m.ch, req |-> client[c].req]
        <4>1. client'[c] = n
          BY <2>3, <3>1, Zenon
        <4>2. n.at = "ready" /\ n.ch = m.ch /\ n.req = client[c].req
          OBVIOUS
        <4> HIDE DEF n
        <4> QED
          BY <3>1, <4>1, <4>2
      <3>2. CASE ~Takes(c, m)
        BY <2>3, <3>2
      <3> QED
        BY <3>1, <3>2
    <2>4. People'
      <3>1. m.ch \in 0 .. maxChannelID
        BY <2>2 DEF Real
      <3>2. \A c \in Clients : client'[c] \in [at : Phases, ch : 0 .. maxChannelID, req : 0 .. requests]
        <4> SUFFICES ASSUME NEW c \in Clients
                     PROVE  client'[c] \in [at : Phases, ch : 0 .. maxChannelID, req : 0 .. requests]
          OBVIOUS
        <4>1. client[c] \in [at : Phases, ch : 0 .. maxChannelID, req : 0 .. requests]
          BY DEF Shapes, People
        <4>2. CASE Takes(c, m)
          <5> DEFINE n == [at |-> "ready", ch |-> m.ch, req |-> client[c].req]
          <5>1. client'[c] = n
            BY <2>3, <4>2, Zenon
          <5>2. n \in [at : Phases, ch : 0 .. maxChannelID, req : 0 .. requests]
            BY <3>1, <4>1 DEF Phases
          <5> QED
            BY <5>1, <5>2
        <4>3. CASE ~Takes(c, m)
          BY <2>3, <4>1, <4>3
        <4> QED
          BY <4>2, <4>3
      <3> QED
        BY <1>1, <3>2 DEF People
    <2>5. Shapes'
      BY <1>2, <2>1, <2>4 DEF Shapes
    <2>6. Channels'
      <3>1. CASE m.kind = "init"
        <4>1. \A c \in Clients : Takes(c, m) => client[c].at = "opening" /\ client[c].req = m.of
          BY <3>1 DEF Takes
        <4>2. \A c, d \in Clients : Takes(c, m) /\ Takes(d, m) => c = d
          BY <4>1 DEF Channels
        <4>3. \A c \in Clients : HasChannel(c)' =>
                 \/ Takes(c, m) /\ client'[c].ch = m.ch
                 \/ HasChannel(c) /\ client'[c].ch = client[c].ch
                    /\ client'[c].at = client[c].at /\ client'[c].req = client[c].req
          <5> SUFFICES ASSUME NEW c \in Clients, HasChannel(c)'
                       PROVE  \/ Takes(c, m) /\ client'[c].ch = m.ch
                              \/ HasChannel(c) /\ client'[c].ch = client[c].ch
                                 /\ client'[c].at = client[c].at /\ client'[c].req = client[c].req
            OBVIOUS
          <5>1. CASE Takes(c, m)
            BY <2>7, <5>1
          <5>2. CASE ~Takes(c, m)
            <6>1. client'[c].at = client[c].at /\ client'[c].ch = client[c].ch /\ client'[c].req = client[c].req
              BY <2>7, <5>2
            <6> QED
              BY <6>1 DEF HasChannel
          <5> QED
            BY <5>1, <5>2
        <4>4. \A a \in InFlight' : a.kind = "init" /\ a \in Answered' => a.ch # m.ch
          BY <2>1, <2>2, <3>1 DEF Channels
        <4>5. \A a \in InFlight' : a.kind = "reply" => a.ch # m.ch
          BY <2>1, <2>2, <3>1 DEF Channels
        <4>6. \A c \in Clients : HasChannel(c) => client[c].ch # m.ch
          BY <2>2, <3>1 DEF Channels
        <4>7. Answered' \subseteq InFlight'
          BY DEF InFlight
        <4>8. \A a, b \in Answered' : a.kind = "init" /\ b.kind = "init" /\ a.ch = b.ch => a.of = b.of
          BY <2>1 DEF Channels
        <4>9. \A a \in Answered', b \in InFlight' : a.kind = "init" /\ b.kind = "reply" => a.ch # b.ch
          BY <2>1 DEF Channels
        <4>10. \A a \in Answered', c \in Clients : a.kind = "init" /\ HasChannel(c)' => a.ch # client'[c].ch
          BY <2>1, <4>3, <4>4, <4>7 DEF Channels
        <4>11. \A c, d \in Clients : HasChannel(c)' /\ HasChannel(d)' /\ client'[c].ch = client'[d].ch => c = d
          BY <4>2, <4>3, <4>6 DEF Channels
        <4>12. \A a \in InFlight', c \in Clients :
                 a.kind = "reply" /\ HasChannel(c)' /\ a.ch = client'[c].ch => client'[c].at = "waiting" /\ a.of = client'[c].req
          BY <2>1, <4>3, <4>5 DEF Channels
        <4>13. \A c \in Clients : client'[c].req = client[c].req /\ (client'[c].at # "idle" => client[c].at # "idle")
          BY <2>7, <4>1
        <4> QED
          BY <4>8, <4>9, <4>10, <4>11, <4>12, <4>13 DEF Channels
      <3>2. CASE m.kind # "init"
        <4>1. m.kind = "reply"
          BY <2>2, <3>2 DEF Real
        <4>2. \A c \in Clients : Takes(c, m) => client[c].at = "waiting" /\ client[c].ch = m.ch
          BY <4>1 DEF Takes
        <4>3. \A c \in Clients : client'[c].req = client[c].req /\ (client'[c].at # "idle" <=> client[c].at # "idle")
          BY <2>7, <4>2
        <4>4. \A c \in Clients : (HasChannel(c)' <=> HasChannel(c)) /\ client'[c].ch = client[c].ch
          BY <2>7, <4>2 DEF HasChannel
        <4>5. \A c \in Clients : Takes(c, m) => client[c].req = m.of
          BY <2>2, <4>1, <4>2 DEF Channels, HasChannel
        <4>6. ASSUME NEW a \in InFlight', NEW c \in Clients, a.kind = "reply", HasChannel(c), a.ch = client[c].ch
              PROVE  client'[c].at = "waiting" /\ a.of = client'[c].req
          <5>1. client[c].at = "waiting" /\ a.of = client[c].req
            BY <2>1, <4>6 DEF Channels
          <5>2. ~Takes(c, m)
            BY <2>1, <4>5, <4>6, <5>1
          <5> QED
            BY <2>7, <5>1, <5>2
        <4> QED
          BY <2>1, <4>3, <4>4, <4>6 DEF Channels
      <3> QED
        BY <3>1, <3>2
    <2> QED
      BY <2>1, <2>5, <2>6
  <1> QED
    BY <1>3, <1>4

\* It goes to one that is not, or crashes the process.
LEMMA ToNobodyHolds == ASSUME SInv, NEW s \in AllSessions, WrittenToNobody(s) PROVE SInv'
  <1> USE DEF SInv
  <1>1. UNCHANGED <<session, up, imported, leaked, responses, running, maxChannelID, client, requests, delivered, died>>
    BY DEF WrittenToNobody
  <1>2. CASE irp' = [irp EXCEPT ![s] = NoRequest] /\ lost' = lost \union ({irp[s].report.of} \ {0}) /\ UNCHANGED crashed
    <2>1. Scalars' /\ People'
      BY <1>1, <1>2 DEF Shapes, Scalars, People
    <2>2. CASE irp[s].report = None
      <3>1. lost' = lost
        BY <1>2, <2>2 DEF None
      <3>2. Hands' /\ \A t \in AllSessions : irp'[t].report = irp[t].report
        BY <1>1, <1>2, <2>2 DEF Shapes, Hands, Real, NoRequest, At, Points
      <3> QED
        BY <1>1, <2>1, <3>1, <3>2, Quiet DEF Shapes, Messages, Real
    <2>3. CASE irp[s].report # None
      <3>1. lost' = lost \union {irp[s].report.of}
        BY <1>2, <2>3, MessageIs, Bounds DEF Shapes, Scalars
      <3>2. /\ Hands' /\ Messages' /\ Spread' /\ Counted' /\ InFlight' \subseteq InFlight /\ Answered' \subseteq Answered
        BY <1>1, <1>2, <2>3, <3>1, EndsHolds
      <3> QED
        BY <1>1, <2>1, <3>2, FewerKeep DEF Shapes
    <2> QED
      BY <2>2, <2>3
  <1>3. CASE crashed' = TRUE /\ UNCHANGED <<irp, lost>>
    <2>1. Shapes'
      BY <1>1, <1>3 DEF Shapes, Scalars, Hands, Messages, People, Real
    <2> QED
      BY <1>1, <1>3, <2>1, Quiet
  <1> QED
    BY <1>2, <1>3 DEF WrittenToNobody

\* What was not delivered or lost has died with the process.
LEMMA RestartHolds == ASSUME SInv, Restart PROVE SInv'
  <1> USE DEF SInv
  <1>1. /\ crashed' = FALSE /\ up' = FALSE /\ imported' = FALSE /\ leaked' = {} /\ responses' = <<>> /\ running' = {}
        /\ irp' = [s \in AllSessions |-> NoRequest] /\ maxChannelID' = 0 /\ client' = [c \in Clients |-> Away]
        /\ died' = (1 .. requests) \ (delivered \union lost) /\ UNCHANGED <<session, requests, delivered, lost>>
    BY DEF Restart
  <1>2. \A s \in AllSessions : irp'[s] = [at |-> "none", report |-> None]
    BY <1>1 DEF NoRequest, At
  <1>3. Shapes'
    <2>1. Scalars'
      <3>1. session' \in 0 .. MaxSessions /\ requests' \in 0 .. MaxRequests /\ maxChannelID' \in Nat
        BY <1>1 DEF Shapes, Scalars
      <3> QED
        BY <1>1, <3>1, Zenon DEF Scalars
    <2>2. People'
      <3>1. requests \in Nat
        BY Bounds DEF Shapes, Scalars
      <3>2. Away \in [at : Phases, ch : 0 .. 0, req : 0 .. requests]
        BY <3>1 DEF Away, Phases
      <3> QED
        BY <1>1, <3>2 DEF People
    <2>3. Hands'
      BY <1>1, <1>2 DEF Hands, Points, NoRequest, At
    <2> QED
      BY <1>1, <2>1, <2>2, <2>3 DEF Shapes, Messages
  <1>4. Running' = {} /\ Queued' = {} /\ InHand' = {} /\ InFlight' = {} /\ Answered' = {}
    BY <1>1, <1>2 DEF Running, Queued, InHand, InFlight, Answered, None
  <1>5. Spread'
    <2>1. delivered \intersect lost = {} /\ delivered \union lost \subseteq 1 .. requests
      BY DEF Spread, Divided
    <2> QED
      BY <1>1, <1>2, <1>4, <2>1 DEF Spread, Apart, Divided, None
  <1>6. Channels'
    BY <1>1, <1>4 DEF Channels, HasChannel, Away
  <1>7. Counted'
    BY <1>1, <1>4, FS_EmptySet DEF Counted, Shapes, Scalars
  <1> QED
    BY <1>3, <1>5, <1>6, <1>7

LEMMA NextHolds == SInv /\ [Next]_vars => SInv'
  <1> SUFFICES ASSUME SInv, [Next]_vars PROVE SInv'
    OBVIOUS
  <1>1. CASE Attach \/ Detach \/ Reads \/ Unlinks \/ (\E c \in Clients : Close(c)) \/ (\E s \in AllSessions : TimerFires(s))
    BY <1>1, HostHolds
  <1>2. ASSUME NEW c \in Clients, Open(c) \/ Request(c) PROVE SInv'
    BY <1>2, SendsHolds
  <1>3. CASE ServerReads
    BY <1>3, ServerReadsHolds
  <1>4. CASE HandlerEnds
    BY <1>4, HandlerEndsHolds
  <1>5. ASSUME NEW m \in running, Respond(m) PROVE SInv'
    BY <1>5, RespondHolds
  <1>6. ASSUME NEW s \in AllSessions, Delivered(s) \/ WrittenToNobody(s) PROVE SInv'
    BY <1>6, DeliveredHolds, ToNobodyHolds
  <1>7. CASE Restart
    BY <1>7, RestartHolds
  <1>8. CASE UNCHANGED vars
    <2>1. Shapes'
      BY <1>8 DEF vars, SInv, Shapes, Scalars, Hands, Messages, People, Real
    <2> QED
      BY <1>8, <2>1, Quiet DEF vars
  <1> QED
    BY <1>1, <1>2, <1>3, <1>4, <1>5, <1>6, <1>7, <1>8 DEF Next, Host, Work

-----------------------------------------------------------------------------
(* Theorems. *)

\* Each request is in one place, channels are not shared, and a reply is on
\* the channel of the client that waits for it.
THEOREM Invariance == Spec => []SInv
  <1> QED
    BY InitHolds, NextHolds, PTL DEF Spec

\* Types, for any set of clients and any number of sessions and requests.
THEOREM TypeCorrect == Spec => []TypeOK
  <1>1. SInv => TypeOK
    <2> SUFFICES ASSUME SInv PROVE TypeOK
      OBVIOUS
    <2> USE DEF SInv
    <2>1. requests \in Nat /\ requests <= MaxRequests /\ maxChannelID \in Nat /\ maxChannelID <= requests
      BY Bounds, RunningFinite DEF Spread, Counted, Shapes, Scalars
    <2>2. Real \subseteq Answerables /\ None \in Answerables
      BY <2>1, Bounds DEF Real, Answerables, None
    <2>3. irp \in [AllSessions -> [at : Points, report : Answerables]]
      BY <2>2 DEF Shapes, Hands
    <2>4. responses \in Seq(Answerables) /\ running \subseteq Answerables
      BY <2>2 DEF Shapes, Messages
    <2>5. client \in [Clients -> [at : Phases, ch : 0 .. MaxRequests, req : 0 .. MaxRequests]]
      <3>1. \A c \in Clients : client[c] \in [at : Phases, ch : 0 .. MaxRequests, req : 0 .. MaxRequests]
        BY <2>1, Bounds DEF Shapes, People
      <3> QED
        BY <3>1 DEF Shapes, People
    <2>6. delivered \union lost \union died \subseteq 1 .. requests
      BY DEF Spread, Divided
    <2> QED
      BY <2>1, <2>3, <2>4, <2>5, <2>6, Bounds DEF TypeOK, Shapes, Scalars, Points, Phases
  <1> QED
    BY <1>1, Invariance, PTL

\* A set that has at most the one element, by whether it has it.
LEMMA OneOrNone ==
  ASSUME NEW S, \A a, b \in S : a = b
  PROVE  Cardinality(S) = IF S = {} THEN 0 ELSE 1
  <1>1. CASE S = {}
    BY <1>1, FS_EmptySet
  <1>2. CASE S # {}
    <2>1. PICK a \in S : TRUE
      BY <1>2
    <2>2. S = {a}
      BY <2>1
    <2> QED
      BY <1>2, <2>2, FS_Singleton
  <1> QED
    BY <1>1, <1>2

\* The answer to a request is in one place (request_buffer.go:42-58).
THEOREM OnePlaceHolds == Spec => []OnePlace
  <1>1. SInv => OnePlace
    <2> SUFFICES ASSUME SInv, NEW r \in 1 .. requests PROVE Places(r) = 1
      BY DEF OnePlace
    <2> USE DEF SInv
    <2> DEFINE A == {m \in running : m.of = r}
               B == {k \in DOMAIN responses : responses[k].of = r}
               C == {s \in AllSessions : irp[s].report.of = r}
               D == {n \in 1 .. 3 : r \in <<delivered, lost, died>>[n]}
    <2>1. r # 0
      BY Bounds DEF Shapes, Scalars
    <2>2. (A # {} <=> r \in Running) /\ \A a, b \in A : a = b
      BY DEF Running, Spread, Apart
    <2>3. (B # {} <=> r \in Queued) /\ \A a, b \in B : a = b
      BY DEF Queued, Spread, Apart
    <2>4. (C # {} <=> r \in InHand) /\ \A a, b \in C : a = b
      BY <2>1 DEF InHand, Spread, Apart
    <2>5. /\ 1 \in D <=> r \in delivered
          /\ 2 \in D <=> r \in lost
          /\ 3 \in D <=> r \in died
          /\ D \subseteq {1, 2, 3}
      OBVIOUS
    <2> HIDE DEF A, B, C, D
    <2>6. (D # {} <=> r \in delivered \union lost \union died) /\ \A a, b \in D : a = b
      <3>1. ~(r \in delivered /\ r \in lost) /\ ~(r \in delivered /\ r \in died) /\ ~(r \in lost /\ r \in died)
        BY DEF Spread, Divided
      <3> QED
        BY <2>5, <3>1
    <2>7. /\ Cardinality(A) = IF A = {} THEN 0 ELSE 1
          /\ Cardinality(B) = IF B = {} THEN 0 ELSE 1
          /\ Cardinality(C) = IF C = {} THEN 0 ELSE 1
          /\ Cardinality(D) = IF D = {} THEN 0 ELSE 1
      BY <2>2, <2>3, <2>4, <2>6, OneOrNone
    <2>8. /\ r \in Running \union Queued \union InHand \union (delivered \union lost \union died)
          /\ r \in Running => r \notin Queued /\ r \notin InHand /\ r \notin delivered \union lost \union died
          /\ r \in Queued => r \notin InHand /\ r \notin delivered \union lost \union died
          /\ r \in InHand => r \notin delivered \union lost \union died
      BY DEF Spread, Divided
    <2>9. Cardinality(A) + Cardinality(B) + Cardinality(C) + Cardinality(D) = 1
      BY <2>2, <2>3, <2>4, <2>6, <2>7, <2>8
    <2> QED
      BY <2>9 DEF Places, A, B, C, D
  <1> QED
    BY <1>1, Invariance, PTL

\* A client takes no answer but that to its own request (ctap_hid.go:66).
THEOREM OwnAnswerOnlyHolds == Spec => OwnAnswerOnly
  <1> DEFINE Own == \A c \in Clients :
               client[c].at = "waiting" /\ client'[c].at = "ready" => delivered' \ delivered = {client[c].req}
  <1>1. SInv /\ [Next]_vars => [Own]_vars
    <2> SUFFICES ASSUME SInv, Next, NEW c \in Clients, client[c].at = "waiting", client'[c].at = "ready"
                 PROVE  delivered' \ delivered = {client[c].req}
      OBVIOUS
    <2>1. client'[c] # client[c] /\ client'[c] # Away
      BY DEF Away
    <2>2. ~\E d \in Clients : Open(d) \/ Request(d)
      <3> SUFFICES ASSUME NEW d \in Clients, Open(d) \/ Request(d) PROVE FALSE
        OBVIOUS
      <3>1. (d # c /\ client'[c] = client[c]) \/ client'[c].at \in {"opening", "waiting"}
        BY DEF Open, Request, Sends, SInv, Shapes, People
      <3> QED
        BY <2>1, <3>1
    <2>3. client' \in [Clients -> [at : Phases, ch : 0 .. maxChannelID', req : 0 .. requests']]
      BY NextHolds DEF SInv, Shapes, People
    <2>4. ~(\E d \in Clients : Close(d)) /\ ~Detach /\ ~Restart
      BY <2>1 DEF Close, Detach, Restart, SInv, Shapes, People
    <2>5. PICK s \in AllSessions : Delivered(s)
      BY <2>1, <2>2, <2>4 DEF Next, Host, Work, Attach, Reads, Unlinks, ServerReads, TimerFires, WrittenToNobody,
                              HandlerEnds, Respond, Answers
    <2> DEFINE m == irp[s].report
    <2>6. m.kind = "reply" /\ m.ch = client[c].ch /\ delivered' = IF m = None THEN delivered ELSE delivered \union {m.of}
      BY <2>1, <2>5 DEF Delivered, Takes
    <2>7. m # None
      BY <2>6 DEF None
    <2>8. m \in InFlight /\ m.of \in InHand
      BY <2>7, MessageIs DEF SInv, InFlight, Answered
    <2> HIDE DEF m
    <2>9. m.of = client[c].req
      BY <2>6, <2>8 DEF SInv, Channels, HasChannel
    <2>10. m.of \notin delivered
      BY <2>8 DEF SInv, Spread, Divided
    <2> QED
      BY <2>6, <2>7, <2>9, <2>10
  <1> QED
    BY <1>1, Invariance, PTL DEF Spec, OwnAnswerOnly

\* What a session may still lose.
Due == IF imported /\ (up \/ irp[session].at # "none") THEN 1 ELSE 0

Losses == IsFiniteSet(lost) /\ Cardinality(lost) + Due <= session

LEMMA NextLosses == SInv /\ Losses /\ [Next]_vars => Losses'
  <1> SUFFICES ASSUME SInv, Losses, [Next]_vars PROVE Losses'
    OBVIOUS
  <1>1. session \in Nat /\ Cardinality(lost) \in Nat /\ Due \in {0, 1} /\ Due' \in {0, 1}
    BY Bounds, FS_CardinalityType DEF SInv, Shapes, Scalars, Losses, Due
  <1>2. \A x : IsFiniteSet(lost \union {x}) /\ Cardinality(lost \union {x}) <= Cardinality(lost) + 1
    BY <1>1, FS_AddElement DEF Losses
  <1>3. CASE Attach
    BY <1>1, <1>3 DEF Attach, Losses
  <1>4. ASSUME lost' = lost, session' = session, Due' <= Due PROVE Losses'
    BY <1>1, <1>4 DEF Losses
  <1>5. ASSUME NEW x, lost' = lost \union {x}, session' = session, Due = 1, Due' = 0 PROVE Losses'
    <2>1. IsFiniteSet(lost') /\ Cardinality(lost') <= Cardinality(lost) + 1
      BY <1>2, <1>5
    <2>2. Cardinality(lost') \in Nat
      BY <2>1, FS_CardinalityType
    <2>3. Cardinality(lost) + 1 <= session
      BY <1>5 DEF Losses
    <2>4. Cardinality(lost') + 0 <= session'
      BY <1>1, <1>5, <2>1, <2>2, <2>3
    <2> QED
      BY <1>5, <2>1, <2>4 DEF Losses
  <1>6. CASE Detach \/ Restart
    <2>1. Due' <= Due
      BY <1>1, <1>6 DEF Detach, Restart, Due
    <2> QED
      BY <1>4, <1>6, <2>1 DEF Detach, Restart
  <1>7. CASE Reads \/ Unlinks \/ (\E c \in Clients : Open(c) \/ Request(c) \/ Close(c)) \/ UNCHANGED vars
             \/ (\E m \in running : Respond(m)) \/ (\E s \in AllSessions : TimerFires(s)) \/ ServerReads
    <2>1. lost' = lost /\ session' = session /\ imported' = imported /\ up' = up
      BY <1>7 DEF Reads, Unlinks, Open, Request, Close, Sends, Respond, Answers, TimerFires, ServerReads, vars
    <2>2. CASE up \/ ~imported
      BY <1>4, <2>1, <2>2 DEF Due
    <2>3. CASE ~up /\ imported
      <3>1. irp[session].at = "none" => irp'[session].at = "none"
        <4> USE DEF SInv, Shapes, Hands
        <4>1. CASE Reads \/ Unlinks
          BY <2>3, <4>1 DEF Reads, Unlinks
        <4>2. CASE (\E c \in Clients : Open(c) \/ Request(c) \/ Close(c)) \/ UNCHANGED vars
          BY <4>2 DEF Open, Request, Close, Sends, vars
        <4>3. ASSUME NEW m \in running, Respond(m), irp[session].at = "none" PROVE irp'[session].at = "none"
          <5>1. irp' = irp \/ \E s \in Waiting : irp' = [irp EXCEPT ![s] = At("hid", Answer(m))]
            BY <4>3 DEF Respond
          <5>2. ASSUME NEW t \in Waiting, irp' = [irp EXCEPT ![t] = At("hid", Answer(m))]
                PROVE  irp'[session].at = "none"
            <6>1. t # session
              BY <4>3, <5>2 DEF Waiting
            <6> QED
              BY <4>3, <5>2, <6>1
          <5> QED
            BY <4>3, <5>1, <5>2
        <4>4. ASSUME NEW s \in AllSessions, TimerFires(s), irp[session].at = "none" PROVE irp'[session].at = "none"
          BY <4>4 DEF TimerFires
        <4>5. CASE ServerReads
          BY <4>5 DEF ServerReads
        <4> QED
          BY <1>7, <4>1, <4>2, <4>3, <4>4, <4>5
      <3> QED
        BY <1>4, <2>1, <3>1 DEF Due
    <2> QED
      BY <2>2, <2>3
  <1>8. ASSUME NEW s \in AllSessions, Delivered(s) PROVE Losses'
    <2>1. up /\ lost' = lost /\ UNCHANGED <<up, imported, session>>
      BY <1>8 DEF Delivered, Live
    <2> QED
      BY <1>4, <2>1 DEF Due
  <1>9. CASE HandlerEnds
    <2>1. imported /\ ~imported' /\ session' = session /\ Due' = 0
      BY <1>9 DEF HandlerEnds, Due
    <2>2. CASE irp[session].at = "serving"
      BY <1>5, <1>9, <2>1, <2>2 DEF HandlerEnds, Due
    <2>3. CASE irp[session].at # "serving"
      BY <1>1, <1>4, <1>9, <2>1, <2>3 DEF HandlerEnds
    <2> QED
      BY <2>2, <2>3
  <1>10. ASSUME NEW s \in AllSessions, WrittenToNobody(s) PROVE Losses'
    <2>1. UNCHANGED <<session, up, imported>>
      BY <1>10 DEF WrittenToNobody
    <2>2. CASE UNCHANGED <<irp, lost>>
      BY <1>4, <2>1, <2>2 DEF Due
    <2>3. CASE s = session /\ imported /\ irp' = [irp EXCEPT ![s] = NoRequest] /\ lost' = lost \union ({irp[s].report.of} \ {0})
      <3>1. ~up /\ irp[session].at # "none"
        BY <1>10, <2>3 DEF WrittenToNobody, Live
      <3>2. irp'[session].at = "none"
        BY <2>3 DEF NoRequest, At, SInv, Shapes, Hands
      <3>3. Due = 1 /\ Due' = 0
        BY <2>1, <2>3, <3>1, <3>2 DEF Due
      <3>4. CASE irp[s].report.of = 0
        BY <1>4, <2>1, <2>3, <3>3, <3>4
      <3>5. CASE irp[s].report.of # 0
        BY <1>5, <2>1, <2>3, <3>3, <3>5
      <3> QED
        BY <3>4, <3>5
    <2> QED
      BY <1>10, <2>2, <2>3 DEF WrittenToNobody
  <1> QED
    BY <1>3, <1>6, <1>7, <1>8, <1>9, <1>10 DEF Next, Host, Work

\* A session costs one answer at most (usb_device.go:80-87, usbip_server.go:111).
THEOREM OneLostPerSessionHolds == Spec => []OneLostPerSession
  <1>1. Init => Losses
    BY FS_EmptySet DEF Init, Losses, Due
  <1>2. SInv /\ Losses => OneLostPerSession
    BY Bounds, FS_CardinalityType DEF Losses, Due, OneLostPerSession, SInv, Shapes, Scalars
  <1> QED
    BY <1>1, <1>2, NextLosses, Invariance, PTL DEF Spec
=============================================================================
