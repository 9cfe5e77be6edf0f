---------------------------- MODULE UsbIpProofs ----------------------------
(***************************************************************************)
(* Theorems about the USB/IP side: RequestBuffer, for every number of      *)
(* requests and reports, UsbIpServer, for every set of connections as      *)
(* well, and PacketPath, for every size of a report.                       *)
(*                                                                         *)
(* RequestBuffer.  A request that has been submitted is always in one place*)
(* at most: registered in the buffer, in the hands of one of the three     *)
(* goroutines that may answer it, taken back by an unlink, or settled on   *)
(* the wire (OnePlace).  A goroutine moves it from place to place and only *)
(* removal from the buffer lets it write, so nobody answers twice.  The    *)
(* reports are numbered in the order of Respond; the queue holds the last  *)
(* Len(responses) of them and the one in flight comes right before it      *)
(* (Numbered), so what reaches the host next is always the oldest report.  *)
(*                                                                         *)
(* UsbIpServer.  OneImporter is inductive: the claim is set by the one     *)
(* step that enters a claimed point and cleared by each step that leaves   *)
(* one.  OneOwner rests on two more facts, that ids grow with every        *)
(* request read and that Respond has taken one request at most.  The queue *)
(* is as short as its type says because every report in it was reported.   *)
(*                                                                         *)
(* PacketPath, for reports and headers of every size and any number of     *)
(* messages.  The host only asks for what is in Asks, which no answer can  *)
(* lead out of (Enumerating).  A message is always j packets on its way    *)
(* out, or its answer j packets on its way back: the packets left are the  *)
(* rest of the cut payload and the transaction, or what the host has       *)
(* heard, is what joining the first j of them gives (Outward, Inward).     *)
(* That joining undoes cutting is a lemma about all payloads (JoinsUp).    *)
(***************************************************************************)
EXTENDS RequestBuffer, UsbIpServer, PacketPath, SequenceTheorems, FiniteSetTheorems, WellFoundedInduction, TLAPS

\* Finer types than TypeOK: what a busy goroutine holds.
Typed ==
  /\ submitted \in 0 .. MaxRequests
  /\ reported \in 0 .. MaxReports
  /\ waitingForData \subseteq 1 .. submitted
  /\ responses \in Seq(Reports)
  /\ conn \in Writers
  /\ hid \in Writers
  /\ timer \in [Ids -> {"off", "armed", "expired"}]
  /\ wire \in Seq(Replies)
  /\ conn.at = "idle" => conn = Idle
  /\ conn.at # "idle" => conn.id \in 1 .. submitted
  /\ hid.at \in {"idle", "deliver"}
  /\ hid.at = "idle" => hid = Idle
  /\ hid.at = "deliver" => hid.id \in 1 .. submitted

\* The places a submitted request may be in.
Waits(id)     == id \in waitingForData
ConnHas(id)   == conn.at = "deliver" /\ conn.id = id
HidHas(id)    == hid.at = "deliver" /\ hid.id = id
TimerHas(id)  == timer[id] = "expired"
Unlinking(id) == conn.at = "unlink" /\ conn.id = id /\ conn.data = ECONNRESET
Answered(id)  == \E k \in 1 .. Len(wire) : wire[k].type = "submit" /\ wire[k].id = id
TakenBack(id) == \E k \in 1 .. Len(wire) : wire[k] = RetUnlink(id, ECONNRESET)

OnePlace(id) ==
  /\ Waits(id)     => ~(ConnHas(id) \/ HidHas(id) \/ TimerHas(id) \/ Unlinking(id) \/ Answered(id) \/ TakenBack(id))
  /\ ConnHas(id)   => ~(HidHas(id) \/ TimerHas(id) \/ Answered(id) \/ TakenBack(id))
  /\ HidHas(id)    => ~(TimerHas(id) \/ Unlinking(id) \/ Answered(id) \/ TakenBack(id))
  /\ TimerHas(id)  => ~(Unlinking(id) \/ Answered(id) \/ TakenBack(id))
  /\ Unlinking(id) => ~(Answered(id) \/ TakenBack(id))
  /\ Answered(id)  => ~TakenBack(id)
  /\ TimerHas(id) \/ Answered(id) \/ TakenBack(id) => id \in 1 .. submitted

\* No two RET_SUBMITs carry the same id.
Once ==
  \A j, k \in 1 .. Len(wire) :
    wire[j].type = "submit" /\ wire[k].type = "submit" /\ wire[j].id = wire[k].id
      => j = k

\* Which report sits where.
Numbered ==
  /\ waitingForData = {} \/ responses = <<>>
  /\ Len(responses) <= reported
  /\ \A k \in 1 .. Len(responses) : responses[k] = reported - Len(responses) + k
  /\ conn.at = "deliver" => /\ hid.at = "idle"
                            /\ waitingForData = {}
                            /\ conn.data = reported - Len(responses)
                            /\ conn.data >= 1
  /\ hid.at = "deliver" => /\ responses = <<>>
                           /\ hid.data = reported
                           /\ hid.data >= 1

IInv == Typed /\ (\A id \in Ids : OnePlace(id)) /\ Once /\ Numbered

-----------------------------------------------------------------------------
(* What a write adds to the wire. *)

LEMMA AppendFacts ==
  ASSUME NEW S, NEW s \in Seq(S), NEW e \in S
  PROVE  /\ Append(s, e) \in Seq(S)
         /\ Len(Append(s, e)) = Len(s) + 1
         /\ \A k \in 1 .. Len(s) : Append(s, e)[k] = s[k]
         /\ Append(s, e)[Len(s) + 1] = e
  OBVIOUS

LEMMA HeadTailFacts ==
  ASSUME NEW S, NEW s \in Seq(S), s # <<>>
  PROVE  /\ Head(s) = s[1]
         /\ Head(s) \in S
         /\ Tail(s) \in Seq(S)
         /\ Len(Tail(s)) = Len(s) - 1
         /\ Len(s) \in Nat \ {0}
         /\ \A k \in 1 .. Len(Tail(s)) : Tail(s)[k] = s[k + 1]
  OBVIOUS

\* A RET_SUBMIT answers its own request and changes nothing else on the wire.
LEMMA WriteSubmit ==
  ASSUME wire \in Seq(Replies), NEW i \in Ids, NEW d \in Nat,
         wire' = Append(wire, RetSubmit(i, d))
  PROVE  /\ wire' \in Seq(Replies)
         /\ \A id \in Ids : Answered(id)' <=> Answered(id) \/ id = i
         /\ \A id \in Ids : TakenBack(id)' <=> TakenBack(id)
  <1>1. RetSubmit(i, d) \in Replies
    BY DEF RetSubmit, Replies
  <1>2. /\ wire' \in Seq(Replies)
        /\ Len(wire') = Len(wire) + 1
        /\ \A k \in 1 .. Len(wire) : wire'[k] = wire[k]
        /\ wire'[Len(wire) + 1] = RetSubmit(i, d)
    BY <1>1, AppendFacts
  <1>3. \A k \in 1 .. Len(wire') : k \in 1 .. Len(wire) \/ k = Len(wire) + 1
    BY <1>2
  <1>4. Len(wire) \in Nat /\ Len(wire) + 1 \in 1 .. Len(wire')
    BY <1>2
  <1>5. \A id \in Ids : Answered(id)' <=> Answered(id) \/ id = i
    BY <1>2, <1>3, <1>4 DEF Answered, RetSubmit
  <1>6. \A id \in Ids : TakenBack(id)' <=> TakenBack(id)
    BY <1>2, <1>3, <1>4 DEF TakenBack, RetSubmit, RetUnlink
  <1> QED
    BY <1>2, <1>5, <1>6

\* A RET_UNLINK answers nobody, and takes its request back if it says so.
LEMMA WriteUnlink ==
  ASSUME wire \in Seq(Replies), NEW i \in Ids, NEW d \in Nat,
         wire' = Append(wire, RetUnlink(i, d))
  PROVE  /\ wire' \in Seq(Replies)
         /\ \A id \in Ids : Answered(id)' <=> Answered(id)
         /\ \A id \in Ids : TakenBack(id)' <=> TakenBack(id) \/ (id = i /\ d = ECONNRESET)
  <1>1. RetUnlink(i, d) \in Replies
    BY DEF RetUnlink, Replies
  <1>2. /\ wire' \in Seq(Replies)
        /\ Len(wire') = Len(wire) + 1
        /\ \A k \in 1 .. Len(wire) : wire'[k] = wire[k]
        /\ wire'[Len(wire) + 1] = RetUnlink(i, d)
    BY <1>1, AppendFacts
  <1>3. \A k \in 1 .. Len(wire') : k \in 1 .. Len(wire) \/ k = Len(wire) + 1
    BY <1>2
  <1>4. Len(wire) \in Nat /\ Len(wire) + 1 \in 1 .. Len(wire')
    BY <1>2
  <1>5. \A id \in Ids : Answered(id)' <=> Answered(id)
    BY <1>2, <1>3, <1>4 DEF Answered, RetUnlink
  <1>6. \A id \in Ids : TakenBack(id)' <=> TakenBack(id) \/ (id = i /\ d = ECONNRESET)
    BY <1>2, <1>3, <1>4 DEF TakenBack, RetUnlink
  <1> QED
    BY <1>2, <1>5, <1>6

-----------------------------------------------------------------------------
(* IInv is inductive: one lemma per action. *)

LEMMA InitIInv == Init => IInv
  <1> SUFFICES ASSUME Init PROVE IInv
    OBVIOUS
  <1> USE DEF Init
  <1>1. Typed
    BY BoundsAssumption DEF Typed, Idle, Writers, Reports, Replies, Ids
  <1>2. ASSUME NEW id \in Ids PROVE OnePlace(id)
    BY DEF OnePlace, Waits, ConnHas, HidHas, TimerHas, Unlinking, Answered, TakenBack, Idle
  <1>3. Once
    BY DEF Once
  <1>4. Numbered
    BY BoundsAssumption DEF Numbered, Idle
  <1> QED
    BY <1>1, <1>2, <1>3, <1>4 DEF IInv

\* Steps that leave the wire alone leave what it says alone.
LEMMA WireKept ==
  ASSUME wire' = wire, NEW id
  PROVE  (Answered(id)' <=> Answered(id)) /\ (TakenBack(id)' <=> TakenBack(id))
  BY DEF Answered, TakenBack

\* What a busy goroutine holds is a submitted request.
LEMMA Holdings ==
  ASSUME Typed
  PROVE  /\ submitted \in Nat /\ reported \in Nat
         /\ 1 .. submitted \subseteq Ids
         /\ conn.at # "idle" => conn.id \in Ids
         /\ hid.at = "deliver" => hid.id \in Ids
         /\ conn.data \in Nat /\ hid.data \in Nat
         /\ wire \in Seq(Replies)
  <1>1. submitted \in Nat /\ reported \in Nat
    BY BoundsAssumption DEF Typed
  <1>2. 1 .. submitted \subseteq Ids
    BY <1>1, BoundsAssumption DEF Typed, Ids
  <1>3. conn.data \in Nat /\ hid.data \in Nat
    BY DEF Typed, Writers
  <1> QED
    BY <1>1, <1>2, <1>3 DEF Typed

LEMMA RequestWaitsIInv == IInv /\ RequestWaits => IInv'
  <1> SUFFICES ASSUME IInv, RequestWaits PROVE IInv'
    OBVIOUS
  <1> USE DEF IInv, RequestWaits
  <1>1. Typed'
    BY DEF Typed, Ids, Idle
  <1>2. ASSUME NEW id \in Ids PROVE OnePlace(id)'
    <2>1. OnePlace(id)
      OBVIOUS
    <2> QED
      BY <2>1, WireKept DEF OnePlace, Waits, ConnHas, HidHas, TimerHas, Unlinking, Typed, Idle, Ids
  <1>3. Once'
    BY DEF Once
  <1>4. Numbered'
    BY DEF Numbered, Typed, Idle
  <1> QED
    BY <1>1, <1>2, <1>3, <1>4

LEMMA RequestServedIInv == IInv /\ RequestServed => IInv'
  <1> SUFFICES ASSUME IInv, RequestServed PROVE IInv'
    OBVIOUS
  <1> USE DEF IInv, RequestServed
  <1>1. /\ Head(responses) = responses[1]
        /\ Head(responses) \in Reports
        /\ Tail(responses) \in Seq(Reports)
        /\ Len(Tail(responses)) = Len(responses) - 1
        /\ Len(responses) \in Nat \ {0}
        /\ \A k \in 1 .. Len(Tail(responses)) : Tail(responses)[k] = responses[k + 1]
    BY HeadTailFacts DEF Typed
  <1>2. Typed'
    BY <1>1 DEF Typed, Ids, Idle, Writers, Reports
  <1>3. ASSUME NEW id \in Ids PROVE OnePlace(id)'
    <2>1. OnePlace(id) /\ waitingForData = {}
      BY DEF Numbered
    <2> QED
      BY <2>1, WireKept DEF OnePlace, Waits, ConnHas, HidHas, TimerHas, Unlinking, Typed, Idle, Ids
  <1>4. Once'
    BY DEF Once
  <1>5. Numbered'
    <2>1. hid.at = "idle" /\ waitingForData = {}
      BY DEF Numbered, Typed
    <2>2. Head(responses) = reported - Len(responses) + 1 /\ Len(responses) <= reported
      BY <1>1 DEF Numbered, Typed
    <2> QED
      BY <1>1, <2>1, <2>2 DEF Numbered, Typed, Reports
  <1> QED
    BY <1>2, <1>3, <1>4, <1>5

\* A RET_SUBMIT for a request that has none keeps the answers apart.
LEMMA OnceKept ==
  ASSUME Once, wire \in Seq(Replies), NEW i \in Ids, NEW d \in Nat,
         wire' = Append(wire, RetSubmit(i, d)), ~Answered(i)
  PROVE  Once'
  <1>1. RetSubmit(i, d) \in Replies
    BY DEF RetSubmit, Replies
  <1>2. /\ Len(wire') = Len(wire) + 1
        /\ Len(wire) \in Nat
        /\ \A k \in 1 .. Len(wire) : wire'[k] = wire[k]
        /\ wire'[Len(wire) + 1] = RetSubmit(i, d)
    BY <1>1, AppendFacts
  <1>3. \A k \in 1 .. Len(wire') : k \in 1 .. Len(wire) \/ k = Len(wire) + 1
    BY <1>2
  <1> QED
    BY <1>2, <1>3 DEF Once, Answered, RetSubmit

LEMMA FinishRequestIInv == IInv /\ FinishRequest => IInv'
  <1> SUFFICES ASSUME IInv, FinishRequest PROVE IInv'
    OBVIOUS
  <1> USE DEF IInv, FinishRequest
  <1>1. conn.id \in Ids /\ conn.data \in Nat /\ wire \in Seq(Replies) /\ ConnHas(conn.id)
    BY Holdings DEF ConnHas
  <1>2. OnePlace(conn.id) /\ ~Answered(conn.id)
    BY <1>1 DEF OnePlace
  <1>3. /\ wire' \in Seq(Replies)
        /\ \A id \in Ids : Answered(id)' <=> Answered(id) \/ id = conn.id
        /\ \A id \in Ids : TakenBack(id)' <=> TakenBack(id)
    BY <1>1, WriteSubmit
  <1>4. Typed'
    BY <1>3 DEF Typed, Ids, Idle, Writers
  <1>5. ASSUME NEW id \in Ids PROVE OnePlace(id)'
    <2>1. OnePlace(id)
      OBVIOUS
    <2> QED
      BY <1>1, <1>2, <1>3, <2>1 DEF OnePlace, Waits, ConnHas, HidHas, TimerHas, Unlinking, Typed, Idle, Ids
  <1>6. Once'
    BY <1>1, <1>2, OnceKept
  <1>7. Numbered'
    BY DEF Numbered, Typed, Idle
  <1> QED
    BY <1>4, <1>5, <1>6, <1>7

LEMMA UnlinkIInv == ASSUME NEW i \in Ids PROVE IInv /\ Unlink(i) => IInv'
  <1> SUFFICES ASSUME IInv, Unlink(i) PROVE IInv'
    OBVIOUS
  <1> USE DEF IInv, Unlink
  <1>1. Typed'
    BY DEF Typed, Ids, Idle, Writers, ECONNRESET, ENOENT
  <1>2. ASSUME NEW id \in Ids PROVE OnePlace(id)'
    <2>1. OnePlace(id)
      OBVIOUS
    <2> QED
      BY <2>1, WireKept DEF OnePlace, Waits, ConnHas, HidHas, TimerHas, Unlinking, Typed, Idle, Ids,
         ECONNRESET, ENOENT
  <1>3. Once'
    BY DEF Once
  <1>4. Numbered'
    BY DEF Numbered, Typed, Idle
  <1> QED
    BY <1>1, <1>2, <1>3, <1>4

LEMMA FinishUnlinkIInv == IInv /\ FinishUnlink => IInv'
  <1> SUFFICES ASSUME IInv, FinishUnlink PROVE IInv'
    OBVIOUS
  <1> USE DEF IInv, FinishUnlink
  <1>1. conn.id \in Ids /\ conn.data \in Nat /\ wire \in Seq(Replies)
    BY Holdings
  <1>2. /\ wire' \in Seq(Replies)
        /\ \A id \in Ids : Answered(id)' <=> Answered(id)
        /\ \A id \in Ids : TakenBack(id)' <=> TakenBack(id) \/ (id = conn.id /\ conn.data = ECONNRESET)
    BY <1>1, WriteUnlink
  <1>3. Typed'
    BY <1>2 DEF Typed, Ids, Idle, Writers
  <1>4. ASSUME NEW id \in Ids PROVE OnePlace(id)'
    <2>1. OnePlace(id)
      OBVIOUS
    <2> QED
      BY <1>1, <1>2, <2>1 DEF OnePlace, Waits, ConnHas, HidHas, TimerHas, Unlinking, Typed, Idle, Ids
  <1>5. Once'
    <2>1. RetUnlink(conn.id, conn.data) \in Replies
      BY <1>1 DEF RetUnlink, Replies
    <2>2. /\ Len(wire') = Len(wire) + 1
          /\ Len(wire) \in Nat
          /\ \A k \in 1 .. Len(wire) : wire'[k] = wire[k]
          /\ wire'[Len(wire) + 1] = RetUnlink(conn.id, conn.data)
      BY <1>1, <2>1, AppendFacts
    <2>3. \A k \in 1 .. Len(wire') : k \in 1 .. Len(wire) \/ k = Len(wire) + 1
      BY <2>2
    <2> QED
      BY <2>2, <2>3 DEF Once, RetUnlink
  <1>6. Numbered'
    BY DEF Numbered, Typed, Idle
  <1> QED
    BY <1>3, <1>4, <1>5, <1>6

LEMMA RespondToWaitingIInv == ASSUME NEW i \in Ids PROVE IInv /\ RespondToWaiting(i) => IInv'
  <1> SUFFICES ASSUME IInv, RespondToWaiting(i) PROVE IInv'
    OBVIOUS
  <1> USE DEF IInv, RespondToWaiting, LockFree
  <1>1. Typed'
    BY Holdings, BoundsAssumption DEF Typed, Ids, Idle, Writers
  <1>2. ASSUME NEW id \in Ids PROVE OnePlace(id)'
    <2>1. OnePlace(id)
      OBVIOUS
    <2> QED
      BY <2>1, WireKept DEF OnePlace, Waits, ConnHas, HidHas, TimerHas, Unlinking, Typed, Idle, Ids
  <1>3. Once'
    BY DEF Once
  <1>4. Numbered'
    BY DEF Numbered, Typed, Idle
  <1> QED
    BY <1>1, <1>2, <1>3, <1>4

LEMMA RespondQueuesIInv == IInv /\ RespondQueues => IInv'
  <1> SUFFICES ASSUME IInv, RespondQueues PROVE IInv'
    OBVIOUS
  <1> USE DEF IInv, RespondQueues, LockFree
  <1>1. reported + 1 \in Reports /\ responses \in Seq(Reports)
    BY BoundsAssumption DEF Typed, Reports
  <1>2. /\ responses' \in Seq(Reports)
        /\ Len(responses') = Len(responses) + 1
        /\ Len(responses) \in Nat
        /\ \A k \in 1 .. Len(responses) : responses'[k] = responses[k]
        /\ responses'[Len(responses) + 1] = reported + 1
    BY <1>1, AppendFacts
  <1>3. Typed'
    BY <1>2, BoundsAssumption DEF Typed, Ids, Idle
  <1>4. ASSUME NEW id \in Ids PROVE OnePlace(id)'
    <2>1. OnePlace(id)
      OBVIOUS
    <2> QED
      BY <2>1, WireKept DEF OnePlace, Waits, ConnHas, HidHas, TimerHas, Unlinking, Typed, Idle, Ids
  <1>5. Once'
    BY DEF Once
  <1>6. Numbered'
    <2>1. reported \in Nat /\ Len(responses) <= reported
      BY BoundsAssumption DEF Typed, Numbered
    <2>2. ASSUME NEW k \in 1 .. Len(responses')
          PROVE  responses'[k] = reported' - Len(responses') + k
      BY <1>2, <2>1 DEF Numbered
    <2> QED
      BY <1>2, <2>1, <2>2 DEF Numbered, Typed, Idle
  <1> QED
    BY <1>3, <1>4, <1>5, <1>6

LEMMA FinishRespondIInv == IInv /\ FinishRespond => IInv'
  <1> SUFFICES ASSUME IInv, FinishRespond PROVE IInv'
    OBVIOUS
  <1> USE DEF IInv, FinishRespond
  <1>1. hid.id \in Ids /\ hid.data \in Nat /\ wire \in Seq(Replies) /\ HidHas(hid.id)
    BY Holdings DEF HidHas
  <1>2. OnePlace(hid.id) /\ ~Answered(hid.id)
    BY <1>1 DEF OnePlace
  <1>3. /\ wire' \in Seq(Replies)
        /\ \A id \in Ids : Answered(id)' <=> Answered(id) \/ id = hid.id
        /\ \A id \in Ids : TakenBack(id)' <=> TakenBack(id)
    BY <1>1, WriteSubmit
  <1>4. Typed'
    BY <1>3 DEF Typed, Ids, Idle, Writers
  <1>5. ASSUME NEW id \in Ids PROVE OnePlace(id)'
    <2>1. OnePlace(id)
      OBVIOUS
    <2> QED
      BY <1>1, <1>2, <1>3, <2>1 DEF OnePlace, Waits, ConnHas, HidHas, TimerHas, Unlinking, Typed, Idle, Ids
  <1>6. Once'
    BY <1>1, <1>2, OnceKept
  <1>7. Numbered'
    BY DEF Numbered, Typed, Idle
  <1> QED
    BY <1>4, <1>5, <1>6, <1>7

LEMMA TimerFiresIInv == ASSUME NEW i \in Ids PROVE IInv /\ TimerFires(i) => IInv'
  <1> SUFFICES ASSUME IInv, TimerFires(i) PROVE IInv'
    OBVIOUS
  <1> USE DEF IInv, TimerFires, LockFree
  <1>1. Typed'
    BY DEF Typed, Ids, Idle
  <1>2. ASSUME NEW id \in Ids PROVE OnePlace(id)'
    <2>1. OnePlace(id) /\ timer \in [Ids -> {"off", "armed", "expired"}]
      BY DEF Typed
    <2> QED
      BY <2>1, WireKept DEF OnePlace, Waits, ConnHas, HidHas, TimerHas, Unlinking, Typed, Idle, Ids
  <1>3. Once'
    BY DEF Once
  <1>4. Numbered'
    BY DEF Numbered, Typed, Idle
  <1> QED
    BY <1>1, <1>2, <1>3, <1>4

LEMMA FinishTimerIInv == ASSUME NEW i \in Ids PROVE IInv /\ FinishTimer(i) => IInv'
  <1> SUFFICES ASSUME IInv, FinishTimer(i) PROVE IInv'
    OBVIOUS
  <1> USE DEF IInv, FinishTimer
  <1>1. Empty \in Nat /\ wire \in Seq(Replies) /\ TimerHas(i)
    BY DEF Typed, Empty, TimerHas
  <1>2. OnePlace(i) /\ ~Answered(i)
    BY <1>1 DEF OnePlace
  <1>3. /\ wire' \in Seq(Replies)
        /\ \A id \in Ids : Answered(id)' <=> Answered(id) \/ id = i
        /\ \A id \in Ids : TakenBack(id)' <=> TakenBack(id)
    BY <1>1, WriteSubmit
  <1>4. Typed'
    BY <1>3 DEF Typed, Ids, Idle, Writers
  <1>5. ASSUME NEW id \in Ids PROVE OnePlace(id)'
    <2>1. OnePlace(id) /\ timer \in [Ids -> {"off", "armed", "expired"}]
      BY DEF Typed
    <2> QED
      BY <1>1, <1>2, <1>3, <2>1 DEF OnePlace, Waits, ConnHas, HidHas, TimerHas, Unlinking, Typed, Idle, Ids
  <1>6. Once'
    BY <1>1, <1>2, OnceKept
  <1>7. Numbered'
    BY DEF Numbered, Typed, Idle
  <1> QED
    BY <1>4, <1>5, <1>6, <1>7

LEMMA NextIInv == IInv /\ [Next]_vars => IInv'
  <1> SUFFICES ASSUME IInv, [Next]_vars PROVE IInv'
    OBVIOUS
  <1>1. CASE RequestWaits
    BY <1>1, RequestWaitsIInv
  <1>2. CASE RequestServed
    BY <1>2, RequestServedIInv
  <1>3. CASE FinishRequest
    BY <1>3, FinishRequestIInv
  <1>4. CASE FinishUnlink
    BY <1>4, FinishUnlinkIInv
  <1>5. CASE RespondQueues
    BY <1>5, RespondQueuesIInv
  <1>6. CASE FinishRespond
    BY <1>6, FinishRespondIInv
  <1>7. ASSUME NEW id \in Ids, Unlink(id) PROVE IInv'
    BY <1>7, UnlinkIInv
  <1>8. ASSUME NEW id \in Ids, RespondToWaiting(id) PROVE IInv'
    BY <1>8, RespondToWaitingIInv
  <1>9. ASSUME NEW id \in Ids, TimerFires(id) PROVE IInv'
    BY <1>9, TimerFiresIInv
  <1>10. ASSUME NEW id \in Ids, FinishTimer(id) PROVE IInv'
    BY <1>10, FinishTimerIInv
  <1>11. CASE UNCHANGED vars
    <2> USE <1>11 DEF vars
    <2>1. Typed' /\ Once' /\ Numbered'
      BY DEF IInv, Typed, Once, Numbered
    <2>2. ASSUME NEW id \in Ids PROVE OnePlace(id)'
      BY WireKept DEF IInv, OnePlace, Waits, ConnHas, HidHas, TimerHas, Unlinking
    <2> QED
      BY <2>1, <2>2 DEF IInv
  <1>12. CASE Quiescent
    BY <1>11, <1>12 DEF Quiescent
  <1> QED
    BY <1>1, <1>2, <1>3, <1>4, <1>5, <1>6, <1>7, <1>8, <1>9, <1>10, <1>11, <1>12 DEF Next

\* The invariant the other theorems rest on.
THEOREM Invariance == Spec => []IInv
  BY InitIInv, NextIInv, PTL DEF Spec

-----------------------------------------------------------------------------
(* The safety properties. *)

\* Every variable keeps its type.
THEOREM TypeCorrect == Spec => []TypeOK
  <1>1. IInv => TypeOK
    BY DEF IInv, Typed, TypeOK
  <1> QED
    BY <1>1, Invariance, PTL

\* Response, timeout and unlink race for a request, and the host gets one
\* RET_SUBMIT at most.
THEOREM AnsweredOnceHolds == Spec => []AnsweredOnce
  <1>1. IInv => AnsweredOnce
    BY DEF IInv, Typed, Once, AnsweredOnce
  <1> QED
    BY <1>1, Invariance, PTL

\* A request an unlink took back (ECONNRESET) has no RET_SUBMIT, before or
\* after the RET_UNLINK.
THEOREM UnlinkedNotAnsweredHolds == Spec => []UnlinkedNotAnswered
  <1>1. IInv => UnlinkedNotAnswered
    <2> SUFFICES ASSUME IInv, NEW j \in DOMAIN wire, NEW k \in DOMAIN wire,
                        wire[j].type = "submit", wire[k].type = "unlink",
                        wire[j].id = wire[k].id, wire[k].data = ECONNRESET
                 PROVE  FALSE
      BY DEF UnlinkedNotAnswered
    <2>1. wire \in Seq(Replies) /\ DOMAIN wire = 1 .. Len(wire)
      BY DEF IInv, Typed
    <2>2. wire[j] \in Replies /\ wire[k] \in Replies
      BY <2>1
    <2>3. wire[k] = RetUnlink(wire[k].id, ECONNRESET) /\ wire[j].id \in Ids
      BY <2>2 DEF Replies, RetUnlink
    <2>4. Answered(wire[j].id) /\ TakenBack(wire[j].id)
      BY <2>1, <2>3 DEF Answered, TakenBack
    <2> QED
      BY <2>3, <2>4 DEF IInv, OnePlace
  <1> QED
    BY <1>1, Invariance, PTL

\* No report is parked while a request waits.
THEOREM NoMissedWakeupHolds == Spec => []NoMissedWakeup
  <1>1. IInv => NoMissedWakeup
    BY DEF IInv, Numbered, NoMissedWakeup
  <1> QED
    BY <1>1, Invariance, PTL

-----------------------------------------------------------------------------
(* RequestBuffer implements ReportPipe. *)

OutcomeBar   == [id \in Ids |-> OutcomeOf(id)]
DeliveredBar == reported - Len(responses) - InFlight

\* What a request's outcome depends on.
LEMMA OutcomeCases ==
  ASSUME wire \in Seq(Replies), NEW id \in Ids
  PROVE  /\ AnswersTo(id) # {} <=> Answered(id)
         /\ Settled(id) <=> Answered(id) \/ TakenBack(id)
         /\ ~Answered(id) /\ TakenBack(id) => OutcomeOf(id) = Pipe!Cancelled
         /\ ~Answered(id) /\ ~TakenBack(id) =>
              OutcomeOf(id) = IF id <= submitted THEN Pipe!Open ELSE Pipe!Unsent
  <1>1. DOMAIN wire = 1 .. Len(wire)
    OBVIOUS
  <1>2. AnswersTo(id) # {} <=> Answered(id)
    BY <1>1 DEF AnswersTo, Answered
  <1>3. Settled(id) <=> Answered(id) \/ TakenBack(id)
    BY <1>1 DEF Settled, Answered, TakenBack
  <1>4. ~Answered(id) /\ TakenBack(id) => OutcomeOf(id) = Pipe!Cancelled
    BY <1>2, <1>3 DEF OutcomeOf, Pipe!Cancelled
  <1>5. ~Answered(id) /\ ~TakenBack(id) =>
          OutcomeOf(id) = IF id <= submitted THEN Pipe!Open ELSE Pipe!Unsent
    BY <1>2, <1>3 DEF OutcomeOf, Pipe!Open, Pipe!Unsent
  <1> QED
    BY <1>2, <1>3, <1>4, <1>5

\* A step that writes nothing changes an outcome only by submitting.
LEMMA OutcomeKept ==
  ASSUME wire' = wire, submitted' = submitted
  PROVE  OutcomeBar' = OutcomeBar
  BY DEF OutcomeBar, OutcomeOf, AnswersTo, Settled

\* Writing the one RET_SUBMIT of a request settles it and no other.
LEMMA OutcomeWritten ==
  ASSUME IInv, NEW i \in Ids, NEW d \in Nat, ~Answered(i), submitted' = submitted,
         wire' = Append(wire, RetSubmit(i, d))
  PROVE  OutcomeBar' = [OutcomeBar EXCEPT ![i] = Pipe!Answered(d)]
  <1> DEFINE new == Len(wire) + 1
  <1>1. RetSubmit(i, d) \in Replies /\ wire \in Seq(Replies)
    BY DEF RetSubmit, Replies, IInv, Typed
  <1>2. /\ wire' \in Seq(Replies)
        /\ DOMAIN wire' = 1 .. new
        /\ DOMAIN wire = 1 .. Len(wire)
        /\ Len(wire) \in Nat
        /\ \A k \in 1 .. Len(wire) : wire'[k] = wire[k]
        /\ wire'[new] = RetSubmit(i, d)
    BY <1>1, AppendFacts
  <1>3. \A k \in 1 .. new : k \in 1 .. Len(wire) \/ k = new
    BY <1>2
  <1>4. AnswersTo(i)' = {new}
    BY <1>2, <1>3 DEF AnswersTo, Answered, RetSubmit
  <1>5. OutcomeOf(i)' = Pipe!Answered(d)
    <2>1. TheOne({new}) = new
      BY DEF TheOne
    <2>2. OutcomeOf(i)' = [state |-> "answered", report |-> wire'[TheOne({new})].data]
      BY <1>4 DEF OutcomeOf
    <2> QED
      BY <2>1, <2>2, <1>2 DEF RetSubmit, Pipe!Answered
  <1>6. ASSUME NEW id \in Ids, id # i PROVE OutcomeOf(id)' = OutcomeOf(id)
    <2>1. AnswersTo(id)' = AnswersTo(id)
      BY <1>2, <1>3, <1>6 DEF AnswersTo, RetSubmit
    <2>2. Settled(id)' <=> Settled(id)
      BY <1>2, <1>3, <1>6 DEF Settled, RetSubmit, RetUnlink
    <2>3. CASE AnswersTo(id) # {}
      <3>1. TheOne(AnswersTo(id)) \in AnswersTo(id)
        BY <2>3 DEF TheOne
      <3>2. TheOne(AnswersTo(id)) \in 1 .. Len(wire)
        BY <3>1, <1>2 DEF AnswersTo
      <3>3. wire'[TheOne(AnswersTo(id))] = wire[TheOne(AnswersTo(id))]
        BY <3>2, <1>2
      <3> QED
        BY <2>1, <2>3, <3>3 DEF OutcomeOf
    <2>4. CASE AnswersTo(id) = {}
      BY <2>1, <2>2, <2>4 DEF OutcomeOf
    <2> QED
      BY <2>3, <2>4
  <1> QED
    BY <1>5, <1>6 DEF OutcomeBar

LEMMA InitPipe == Init => Pipe!Init
  <1> SUFFICES ASSUME Init PROVE Pipe!Init
    OBVIOUS
  <1>1. DeliveredBar = 0
    <2>1. InFlight = 0 /\ Len(responses) = 0 /\ reported = 0
      BY DEF Init, InFlight, Idle
    <2> QED
      BY <2>1 DEF DeliveredBar
  <1>2. ASSUME NEW id \in Ids PROVE OutcomeOf(id) = Pipe!Unsent
    <2>1. wire \in Seq(Replies) /\ ~Answered(id) /\ ~TakenBack(id) /\ ~(id <= submitted)
      BY BoundsAssumption DEF Init, Answered, TakenBack, Ids
    <2> QED
      BY <2>1, OutcomeCases
  <1> QED
    BY <1>1, <1>2 DEF Pipe!Init, Init, DeliveredBar, Pipe!Unsent

\* Reading a SUBMIT opens a request, whether a report is at hand or not.
LEMMA SubmitStep ==
  ASSUME IInv, submitted + 1 \in Ids, submitted' = submitted + 1, wire' = wire,
         reported' = reported, DeliveredBar' = DeliveredBar
  PROVE  Pipe!Next
  <1>0. PICK new \in Ids : new = submitted + 1
    OBVIOUS
  <1>1. wire \in Seq(Replies) /\ submitted \in Nat
    BY Holdings DEF IInv
  <1>2. ~Answered(new) /\ ~TakenBack(new)
    BY <1>0, <1>1 DEF IInv, OnePlace
  <1>3. OutcomeOf(new) = Pipe!Unsent
    BY <1>0, <1>1, <1>2, OutcomeCases
  <1>4. OutcomeOf(new)' = Pipe!Open
    <2>1. AnswersTo(new) = {} /\ ~Settled(new)
      BY <1>1, <1>2, OutcomeCases
    <2>2. AnswersTo(new)' = {} /\ ~Settled(new)'
      BY <2>1 DEF AnswersTo, Settled
    <2> QED
      BY <2>2, <1>0, <1>1 DEF OutcomeOf, Pipe!Open
  <1>5. ASSUME NEW id \in Ids, id # new PROVE OutcomeOf(id)' = OutcomeOf(id)
    BY <1>0, <1>1, <1>5 DEF OutcomeOf, AnswersTo, Settled, Ids
  <1>6. OutcomeBar' = [OutcomeBar EXCEPT ![new] = Pipe!Open]
    BY <1>4, <1>5 DEF OutcomeBar
  <1>7. Pipe!Submit(new)
    BY <1>3, <1>6 DEF Pipe!Submit, OutcomeBar, DeliveredBar
  <1> QED
    BY <1>7 DEF Pipe!Next

\* Writing the report a goroutine holds delivers the oldest report.
LEMMA DeliverStep ==
  ASSUME IInv, NEW i \in 1 .. submitted, NEW d \in Nat, ~Answered(i), ~TakenBack(i),
         submitted' = submitted, wire' = Append(wire, RetSubmit(i, d)),
         reported' = reported, DeliveredBar < reported,
         d = DeliveredBar + 1, DeliveredBar' = DeliveredBar + 1
  PROVE  Pipe!Next
  <1>1. wire \in Seq(Replies) /\ i \in Ids
    BY Holdings DEF IInv
  <1>2. OutcomeOf(i) = Pipe!Open
    BY <1>1, OutcomeCases
  <1>3. OutcomeBar' = [OutcomeBar EXCEPT ![i] = Pipe!Answered(DeliveredBar + 1)]
    BY <1>1, OutcomeWritten
  <1>4. Pipe!Deliver(i)
    BY <1>1, <1>2, <1>3 DEF Pipe!Deliver, OutcomeBar, DeliveredBar
  <1> QED
    BY <1>1, <1>4 DEF Pipe!Next

\* Every step of the buffer is a step of the pipe or leaves it as it is.
LEMMA NextPipe == IInv /\ [Next]_vars => [Pipe!Next]_(Pipe!vars)
  <1> SUFFICES ASSUME IInv, [Next]_vars PROVE [Pipe!Next]_(Pipe!vars)
    OBVIOUS
  <1> DEFINE Stutters == reported' = reported /\ DeliveredBar' = DeliveredBar /\ OutcomeBar' = OutcomeBar
  <1>0. ASSUME Stutters PROVE UNCHANGED Pipe!vars
    BY <1>0 DEF Pipe!vars, DeliveredBar, OutcomeBar
  <1>13. Typed /\ Numbered /\ submitted \in Nat /\ reported \in Nat /\ Len(responses) \in Nat
    BY Holdings DEF IInv, Typed
  <1>1. CASE RequestWaits
    <2>1. DeliveredBar' = DeliveredBar
      BY <1>1 DEF RequestWaits, DeliveredBar, InFlight
    <2> QED
      BY <1>1, <2>1, SubmitStep DEF RequestWaits
  <1>2. CASE RequestServed
    <2>1. hid.at = "idle" /\ Len(Tail(responses)) = Len(responses) - 1
      BY <1>2, <1>13, HeadTailFacts DEF RequestServed, Numbered, Typed
    <2>2. DeliveredBar' = DeliveredBar
      BY <1>2, <1>13, <2>1 DEF RequestServed, DeliveredBar, InFlight, Idle
    <2> QED
      BY <1>2, <2>2, SubmitStep DEF RequestServed
  <1>3. CASE FinishRequest
    <2>1. conn.id \in 1 .. submitted /\ conn.data \in Nat /\ conn.id \in Ids
      BY <1>3, <1>13, Holdings DEF FinishRequest, Typed
    <2>2. ~Answered(conn.id) /\ ~TakenBack(conn.id)
      BY <1>3, <2>1 DEF FinishRequest, IInv, OnePlace, ConnHas
    <2>3. /\ DeliveredBar = reported - Len(responses) - 1
          /\ DeliveredBar' = reported - Len(responses)
      BY <1>3, <1>13 DEF FinishRequest, DeliveredBar, InFlight, Idle, Numbered
    <2>4. conn.data = DeliveredBar + 1 /\ DeliveredBar < reported /\ DeliveredBar' = DeliveredBar + 1
      BY <1>3, <1>13, <2>3 DEF FinishRequest, Numbered
    <2> QED
      BY <1>3, <2>1, <2>2, <2>4, DeliverStep DEF FinishRequest
  <1>4. CASE FinishUnlink
    <2>1. conn.id \in Ids /\ conn.data \in Nat /\ wire \in Seq(Replies) /\ conn.id \in 1 .. submitted
      BY <1>4, <1>13, Holdings DEF FinishUnlink, Typed
    <2>2. /\ \A id \in Ids : Answered(id)' <=> Answered(id)
          /\ \A id \in Ids : TakenBack(id)' <=> TakenBack(id) \/ (id = conn.id /\ conn.data = ECONNRESET)
      BY <1>4, <2>1, WriteUnlink DEF FinishUnlink
    <2>3. DeliveredBar' = DeliveredBar /\ reported' = reported
      BY <1>4 DEF FinishUnlink, DeliveredBar, InFlight, Idle
    <2>4. RetUnlink(conn.id, conn.data) \in Replies
      BY <2>1 DEF RetUnlink, Replies
    <2>5. /\ wire' \in Seq(Replies)
          /\ DOMAIN wire' = 1 .. Len(wire) + 1 /\ DOMAIN wire = 1 .. Len(wire)
          /\ Len(wire) \in Nat
          /\ \A k \in 1 .. Len(wire) : wire'[k] = wire[k]
          /\ wire'[Len(wire) + 1] = RetUnlink(conn.id, conn.data)
      BY <1>4, <2>1, <2>4, AppendFacts DEF FinishUnlink
    <2>6. \A k \in 1 .. Len(wire) + 1 : k \in 1 .. Len(wire) \/ k = Len(wire) + 1
      BY <2>5
    <2>7. ASSUME NEW id \in Ids, ~(id = conn.id /\ conn.data = ECONNRESET)
          PROVE  OutcomeOf(id)' = OutcomeOf(id)
      <3>1. AnswersTo(id)' = AnswersTo(id)
        BY <2>5, <2>6 DEF AnswersTo, RetUnlink
      <3>2. Settled(id)' <=> Settled(id)
        BY <2>5, <2>6, <2>7 DEF Settled, RetUnlink
      <3>3. CASE AnswersTo(id) # {}
        <4>1. TheOne(AnswersTo(id)) \in AnswersTo(id)
          BY <3>3 DEF TheOne
        <4>2. TheOne(AnswersTo(id)) \in 1 .. Len(wire)
          BY <4>1, <2>5 DEF AnswersTo
        <4>3. wire'[TheOne(AnswersTo(id))] = wire[TheOne(AnswersTo(id))]
          BY <4>2, <2>5
        <4> QED
          BY <3>1, <3>3, <4>3 DEF OutcomeOf
      <3>4. CASE AnswersTo(id) = {}
        BY <3>1, <3>2, <3>4, <1>4 DEF OutcomeOf, FinishUnlink
      <3> QED
        BY <3>3, <3>4
    <2>8. CASE conn.data # ECONNRESET
      <3>1. OutcomeBar' = OutcomeBar
        BY <2>7, <2>8 DEF OutcomeBar
      <3> QED
        BY <2>3, <3>1, <1>0
    <2>9. CASE conn.data = ECONNRESET
      <3>0. PICK i \in Ids : i = conn.id
        BY <2>1
      <3>1. ~Answered(i) /\ ~TakenBack(i)
        BY <1>4, <2>9, <3>0 DEF FinishUnlink, IInv, OnePlace, Unlinking
      <3>2. OutcomeOf(i) = Pipe!Open
        BY <1>13, <2>1, <3>0, <3>1, OutcomeCases
      <3>3. AnswersTo(i)' = {}
        <4>1. AnswersTo(i) = {}
          BY <2>1, <3>1, OutcomeCases
        <4> QED
          BY <4>1, <2>5, <2>6 DEF AnswersTo, RetUnlink
      <3>4. Settled(i)'
        BY <2>5, <2>9, <3>0 DEF Settled
      <3>5. OutcomeOf(i)' = Pipe!Cancelled
        BY <3>3, <3>4 DEF OutcomeOf, Pipe!Cancelled
      <3>6. OutcomeBar' = [OutcomeBar EXCEPT ![i] = Pipe!Cancelled]
        BY <2>7, <3>0, <3>5 DEF OutcomeBar
      <3>7. Pipe!Cancel(i)
        BY <2>1, <2>3, <3>2, <3>6 DEF Pipe!Cancel, OutcomeBar, DeliveredBar
      <3> QED
        BY <2>1, <3>7 DEF Pipe!Next
    <2> QED
      BY <2>8, <2>9
  <1>5. CASE RespondQueues
    <2>1. reported + 1 \in Reports /\ responses \in Seq(Reports)
      BY <1>5, <1>13, BoundsAssumption DEF RespondQueues, Typed, Reports
    <2>2. Len(responses') = Len(responses) + 1
      BY <1>5, <2>1, AppendFacts DEF RespondQueues
    <2>3. DeliveredBar' = DeliveredBar
      BY <1>5, <1>13, <2>2 DEF RespondQueues, DeliveredBar, InFlight
    <2>4. OutcomeBar' = OutcomeBar
      BY <1>5, OutcomeKept DEF RespondQueues
    <2>5. Pipe!Produce
      BY <1>5, <2>3, <2>4 DEF RespondQueues, Pipe!Produce, OutcomeBar, DeliveredBar
    <2> QED
      BY <2>5 DEF Pipe!Next
  <1>6. CASE FinishRespond
    <2>1. hid.id \in 1 .. submitted /\ hid.data \in Nat /\ hid.id \in Ids
      BY <1>6, <1>13, Holdings DEF FinishRespond, Typed
    <2>2. ~Answered(hid.id) /\ ~TakenBack(hid.id)
      BY <1>6, <2>1 DEF FinishRespond, IInv, OnePlace, HidHas
    <2>3. responses = <<>> /\ hid.data = reported /\ hid.data >= 1 /\ conn.at # "deliver"
      BY <1>6, <1>13 DEF FinishRespond, Numbered
    <2>4. DeliveredBar = reported - 1 /\ DeliveredBar' = reported
      BY <1>6, <1>13, <2>3 DEF FinishRespond, DeliveredBar, InFlight, Idle
    <2>5. hid.data = DeliveredBar + 1 /\ DeliveredBar < reported /\ DeliveredBar' = DeliveredBar + 1
      BY <1>13, <2>3, <2>4
    <2> QED
      BY <1>6, <2>1, <2>2, <2>5, DeliverStep DEF FinishRespond
  <1>7. ASSUME NEW id \in Ids, Unlink(id) PROVE Stutters
    <2>1. DeliveredBar' = DeliveredBar
      BY <1>7 DEF Unlink, DeliveredBar, InFlight, Idle
    <2> QED
      BY <1>7, <2>1, OutcomeKept DEF Unlink
  <1>8. ASSUME NEW id \in Ids, RespondToWaiting(id) PROVE Pipe!Next
    <2>1. responses = <<>> /\ conn.at # "deliver" /\ hid.at # "deliver"
      BY <1>8, <1>13 DEF RespondToWaiting, Numbered, LockFree, Idle
    <2>2. DeliveredBar' = DeliveredBar
      BY <1>8, <1>13, <2>1 DEF RespondToWaiting, DeliveredBar, InFlight
    <2>3. OutcomeBar' = OutcomeBar
      BY <1>8, OutcomeKept DEF RespondToWaiting
    <2>4. Pipe!Produce
      BY <1>8, <2>2, <2>3 DEF RespondToWaiting, Pipe!Produce, OutcomeBar, DeliveredBar
    <2> QED
      BY <2>4 DEF Pipe!Next
  <1>9. ASSUME NEW id \in Ids, TimerFires(id) PROVE Stutters
    <2>1. DeliveredBar' = DeliveredBar
      BY <1>9 DEF TimerFires, DeliveredBar, InFlight
    <2> QED
      BY <1>9, <2>1, OutcomeKept DEF TimerFires
  <1>10. ASSUME NEW id \in Ids, FinishTimer(id) PROVE Pipe!Next
    <2>1. TimerHas(id) /\ Empty \in Nat /\ wire \in Seq(Replies) /\ id \in 1 .. submitted
      BY <1>10, <1>13 DEF FinishTimer, TimerHas, Empty, IInv, OnePlace, Typed
    <2>2. ~Answered(id) /\ ~TakenBack(id)
      BY <2>1 DEF IInv, OnePlace
    <2>3. OutcomeOf(id) = Pipe!Open
      BY <2>1, <2>2, OutcomeCases
    <2>4. OutcomeBar' = [OutcomeBar EXCEPT ![id] = Pipe!Answered(Empty)]
      BY <1>10, <2>1, <2>2, OutcomeWritten DEF FinishTimer
    <2>5. DeliveredBar' = DeliveredBar
      BY <1>10 DEF FinishTimer, DeliveredBar, InFlight
    <2>6. Pipe!Expire(id)
      BY <1>10, <2>3, <2>4, <2>5 DEF FinishTimer, Pipe!Expire, OutcomeBar, DeliveredBar, Empty
    <2> QED
      BY <2>6 DEF Pipe!Next
  <1>11. CASE UNCHANGED vars
    <2>1. DeliveredBar' = DeliveredBar
      BY <1>11 DEF vars, DeliveredBar, InFlight
    <2>2. Stutters
      BY <1>11, <2>1, OutcomeKept DEF vars
    <2> QED
      BY <2>2, <1>0
  <1>12. CASE Quiescent
    BY <1>11, <1>12 DEF Quiescent
  <1> QED
    BY <1>0, <1>1, <1>2, <1>3, <1>4, <1>5, <1>6, <1>7, <1>8, <1>9, <1>10, <1>11, <1>12 DEF Next

\* The buffer with its lock, its goroutines and its timers delivers the
\* reports in order, each once, and settles a request once (ReportPipe).
THEOREM Refinement == Spec => ImplementsPipe
  BY InitPipe, NextPipe, Invariance, PTL DEF Spec, ImplementsPipe, Pipe!Spec

-----------------------------------------------------------------------------
(* UsbIpServer: connections that come and go over the same buffer.          *)

\* Every request that anybody holds was read before.
Known == \A r \in waiting \union handing \union expired : r.id <= read

\* Respond holds buffer.lock and answers one request before the next.
OneAtATime == \A r, s \in handing : r = s

Counted == queued <= produced

ServerIInv == ServerTypeOK /\ OneImporter /\ OneOwner /\ Known /\ OneAtATime /\ Counted

-----------------------------------------------------------------------------
LEMMA InitServer == ServerInit => ServerIInv
  <1> SUFFICES ASSUME ServerInit PROVE ServerIInv
    OBVIOUS
  <1>1. ServerTypeOK
    <2>1. pc \in [Conns -> Points] /\ peer \in [Conns -> {"none", "up", "gone"}]
      BY DEF ServerInit, Points
    <2>2. mutex \in [Conns -> {"free", "leaked"}]
      BY DEF ServerInit
    <2>3. read \in 0 .. MaxReads /\ queued \in 0 .. MaxProduced /\ produced \in 0 .. MaxProduced
      BY ConnsAssumption DEF ServerInit
    <2>4. imported \in BOOLEAN /\ crashed \in BOOLEAN
      BY DEF ServerInit
    <2>5. waiting \subseteq Requests /\ handing \subseteq Requests /\ expired \subseteq Requests
      BY DEF ServerInit
    <2> QED
      BY <2>1, <2>2, <2>3, <2>4, <2>5 DEF ServerTypeOK
  <1>2. \A c \in Conns : pc[c] \notin Claimed
    BY DEF ServerInit, Claimed, Commands
  <1>3. OneImporter
    BY <1>2 DEF ServerInit, OneImporter, Holders
  <1>4. OneOwner /\ Known /\ OneAtATime /\ Counted
    BY DEF ServerInit, OneOwner, Known, OneAtATime, Counted
  <1> QED
    BY <1>1, <1>3, <1>4 DEF ServerIInv

\* What a step of one connection keeps of the claim: it stays where it was, or
\* it is taken when it was free, or it is given up by its holder.
LEMMA ClaimKept ==
  ASSUME ServerTypeOK, OneImporter, NEW c \in Conns, NEW point \in Points,
         pc' = [pc EXCEPT ![c] = point],
         \/ imported' = imported /\ (pc[c] \in Claimed <=> point \in Claimed)
         \/ imported' = TRUE /\ ~imported /\ point \in Claimed
         \/ imported' = FALSE /\ pc[c] \in Claimed /\ point \notin Claimed
  PROVE  OneImporter'
  <1>1. \A d \in Conns : pc'[d] = IF d = c THEN point ELSE pc[d]
    BY DEF ServerTypeOK
  <1>2. CASE imported' = imported /\ (pc[c] \in Claimed <=> point \in Claimed)
    <2>1. Holders' = Holders
      BY <1>1, <1>2 DEF Holders
    <2> QED
      BY <1>2, <2>1 DEF OneImporter
  <1>3. CASE imported' = TRUE /\ ~imported /\ point \in Claimed
    <2>1. Holders = {}
      BY <1>3 DEF OneImporter
    <2>2. Holders' = {c}
      BY <1>1, <1>3, <2>1 DEF Holders
    <2> QED
      BY <1>3, <2>2 DEF OneImporter
  <1>4. CASE imported' = FALSE /\ pc[c] \in Claimed /\ point \notin Claimed
    <2>1. \A d \in Holders : d = c
      BY <1>4 DEF OneImporter, Holders
    <2>2. Holders' = {}
      BY <1>1, <1>4, <2>1 DEF Holders
    <2> QED
      BY <1>4, <2>2 DEF OneImporter
  <1> QED
    BY <1>2, <1>3, <1>4

\* Steps that leave every goroutine and the claim where they are.
LEMMA ClaimIdle ==
  ASSUME OneImporter, pc' = pc, imported' = imported
  PROVE  OneImporter'
  BY DEF OneImporter, Holders

\* Steps that leave the buffer alone.
LEMMA BufferKept ==
  ASSUME ServerIInv, UNCHANGED buffer
  PROVE  OneOwner' /\ Known' /\ OneAtATime' /\ Counted'
  BY DEF ServerIInv, buffer, OneOwner, Known, OneAtATime, Counted

-----------------------------------------------------------------------------
(* The connections. *)

LEMMA ControlIInv ==
  ASSUME ServerIInv, NEW c \in Conns,
         \/ Connect(c) \/ PeerDrops(c) \/ ReadDevlist(c) \/ ReadImport(c)
         \/ (\E exists \in BOOLEAN : ReadImportRefused(c, exists))
         \/ ReadImportMalformed(c) \/ ReadFails(c) \/ SubmitOther(c) \/ SubmitUnsupported(c)
  PROVE  ServerIInv'
  <1> USE DEF ServerIInv, Goto
  <1>1. CASE Connect(c)
    <2> USE <1>1 DEF Connect
    <2>1. ServerTypeOK'
      BY DEF ServerTypeOK, buffer, Claimed, Commands, ControlReads, Points
    <2>2. OneImporter'
      BY ClaimKept DEF Claimed, Commands, ControlReads, Points
    <2> QED
      BY <2>1, <2>2, BufferKept
  <1>2. CASE PeerDrops(c)
    <2> USE <1>2 DEF PeerDrops
    <2>1. ServerTypeOK'
      BY DEF ServerTypeOK, buffer, Claimed, Commands, ControlReads, Points
    <2>2. OneImporter'
      BY ClaimIdle
    <2> QED
      BY <2>1, <2>2, BufferKept
  <1>3. CASE ReadDevlist(c)
    <2> USE <1>3 DEF ReadDevlist
    <2>1. ServerTypeOK'
      BY DEF ServerTypeOK, buffer, Claimed, Commands, ControlReads, Points
    <2>2. OneImporter'
      BY ClaimKept DEF Claimed, Commands, ControlReads, Points
    <2> QED
      BY <2>1, <2>2, BufferKept
  <1>4. CASE ReadImport(c)
    <2> USE <1>4 DEF ReadImport
    <2>1. ServerTypeOK'
      BY DEF ServerTypeOK, buffer, Claimed, Commands, ControlReads, Points
    <2>2. OneImporter'
      BY ClaimKept DEF Claimed, Commands, ControlReads, Points
    <2> QED
      BY <2>1, <2>2, BufferKept
  <1>5. CASE \E exists \in BOOLEAN : ReadImportRefused(c, exists)
    <2> USE <1>5 DEF ReadImportRefused
    <2>1. ServerTypeOK'
      BY DEF ServerTypeOK, buffer, Claimed, Commands, ControlReads, Points
    <2>2. OneImporter'
      BY ClaimKept DEF Claimed, Commands, ControlReads, Points
    <2> QED
      BY <2>1, <2>2, BufferKept
  <1>6. CASE ReadImportMalformed(c)
    <2> USE <1>6 DEF ReadImportMalformed
    <2>1. ServerTypeOK'
      BY DEF ServerTypeOK, buffer, Claimed, Commands, ControlReads, Points
    <2>2. OneImporter'
      BY ClaimKept DEF Claimed, Commands, ControlReads, Points
    <2> QED
      BY <2>1, <2>2, BufferKept
  <1>7. CASE ReadFails(c)
    <2> USE <1>7 DEF ReadFails
    <2>1. ServerTypeOK'
      BY DEF ServerTypeOK, buffer, Claimed, Commands, ControlReads, Points
    <2>2. OneImporter'
      BY ClaimKept DEF Claimed, Commands, ControlReads, Points
    <2> QED
      BY <2>1, <2>2, BufferKept
  <1>8. CASE SubmitOther(c)
    <2> USE <1>8 DEF SubmitOther
    <2>1. ServerTypeOK'
      BY DEF ServerTypeOK, buffer, Claimed, Commands, ControlReads, Points
    <2>2. OneImporter'
      BY ClaimKept DEF Claimed, Commands, ControlReads, Points
    <2> QED
      BY <2>1, <2>2, BufferKept
  <1>9. CASE SubmitUnsupported(c)
    <2> USE <1>9 DEF SubmitUnsupported
    <2>1. ServerTypeOK'
      BY DEF ServerTypeOK, buffer, Claimed, Commands, ControlReads, Points
    <2>2. OneImporter'
      BY ClaimKept DEF Claimed, Commands, ControlReads, Points
    <2> QED
      BY <2>1, <2>2, BufferKept
  <1> QED
    BY <1>1, <1>2, <1>3, <1>4, <1>5, <1>6, <1>7, <1>8, <1>9

LEMMA WriteIInv ==
  ASSUME ServerIInv, NEW c \in Conns, Write(c) \/ WriteFails(c)
  PROVE  ServerIInv'
  <1> USE DEF ServerIInv, Goto
  <1>1. CASE Write(c)
    <2> USE <1>1 DEF Write, Writing, ControlReplies
    <2>1. ServerTypeOK'
      BY DEF ServerTypeOK, buffer, AfterWrite, Claimed, Commands, Points
    <2>2. OneImporter'
      BY ClaimKept DEF AfterWrite, Claimed, Commands, Points
    <2> QED
      BY <2>1, <2>2, BufferKept
  <1>2. CASE WriteFails(c)
    <2> USE <1>2 DEF WriteFails, Writing, ControlReplies
    <2>1. ServerTypeOK'
      BY DEF ServerTypeOK, buffer, AfterPanic, Claimed, Commands, Points
    <2>2. OneImporter'
      <3>1. pc[c] \in Claimed => imported
        BY DEF OneImporter, Holders
      <3>2. AfterPanic(pc[c]) \in Points /\ AfterPanic(pc[c]) \notin Claimed
        BY DEF AfterPanic, Claimed, Commands, Points
      <3>3. CASE pc[c] \in Claimed
        BY <3>2, <3>3, ClaimKept DEF ServerTypeOK
      <3>4. CASE pc[c] \notin Claimed
        <4>1. imported' = imported
          BY <3>4 DEF ServerTypeOK
        <4> QED
          BY <3>2, <3>4, <4>1, ClaimKept
      <3> QED
        BY <3>3, <3>4
    <2> QED
      BY <2>1, <2>2, BufferKept
  <1> QED
    BY <1>1, <1>2

LEMMA SubmitInIInv ==
  ASSUME ServerIInv, NEW c \in Conns, SubmitIn(c)
  PROVE  ServerIInv'
  <1> USE DEF ServerIInv, SubmitIn, Goto
  <1>1. read \in Nat /\ queued \in Nat /\ produced \in Nat /\ read + 1 \in 1 .. MaxReads
    BY ConnsAssumption DEF ServerTypeOK
  <1>2. CASE queued > 0
    <2> USE <1>1, <1>2
    <2>1. ServerTypeOK'
      BY ConnsAssumption DEF ServerTypeOK, Claimed, Commands, Points
    <2>2. OneImporter'
      BY ClaimKept DEF Claimed, Commands, Points
    <2>3. Known'
      BY DEF Known, ServerTypeOK, Requests
    <2> QED
      BY <2>1, <2>2, <2>3 DEF OneOwner, OneAtATime, Counted
  <1>3. CASE ~(queued > 0)
    <2> DEFINE r == [conn |-> c, id |-> read + 1]
    <2> USE <1>1, <1>3
    <2>1. r \in Requests /\ r.id = read + 1
      BY DEF Requests
    <2>2. ServerTypeOK'
      BY <2>1, ConnsAssumption DEF ServerTypeOK
    <2>3. OneImporter'
      BY ClaimIdle
    <2>4. r \notin handing \union expired
      BY <2>1 DEF Known
    <2>5. OneOwner'
      BY <2>4 DEF OneOwner
    <2>6. Known'
      BY <2>1 DEF Known, ServerTypeOK, Requests
    <2> QED
      BY <2>2, <2>3, <2>5, <2>6 DEF OneAtATime, Counted
  <1> QED
    BY <1>2, <1>3

LEMMA ReadUnlinkIInv ==
  ASSUME ServerIInv, NEW c \in Conns, ReadUnlink(c)
  PROVE  ServerIInv'
  <1> USE DEF ServerIInv, ReadUnlink, Goto
  <1>1. waiting' \subseteq waiting
    OBVIOUS
  <1>2. ServerTypeOK'
    BY <1>1 DEF ServerTypeOK, Claimed, Commands, Points
  <1>3. OneImporter'
    BY ClaimKept DEF Claimed, Commands, Points
  <1>4. OneOwner' /\ Known'
    BY <1>1 DEF OneOwner, Known
  <1> QED
    BY <1>2, <1>3, <1>4 DEF OneAtATime, Counted

-----------------------------------------------------------------------------
(* The HID layer and the timers. *)

LEMMA RespondIInv ==
  ASSUME ServerIInv, Respond
  PROVE  ServerIInv'
  <1> USE DEF ServerIInv, Respond
  <1>1. queued \in Nat /\ produced \in Nat /\ MaxProduced \in Nat
    BY ConnsAssumption DEF ServerTypeOK
  <1>2. CASE waiting = {}
    <2>1. ServerTypeOK'
      BY <1>1, <1>2 DEF ServerTypeOK, Counted
    <2>2. OneImporter'
      BY ClaimIdle
    <2>3. Counted'
      BY <1>1, <1>2 DEF Counted
    <2> QED
      BY <1>2, <2>1, <2>2, <2>3 DEF OneOwner, Known, OneAtATime
  <1>3. CASE waiting # {}
    <2>1. PICK r \in waiting : waiting' = waiting \ {r} /\ handing' = {r} /\ UNCHANGED queued
      BY <1>3
    <2>2. ServerTypeOK'
      BY <1>1, <2>1 DEF ServerTypeOK
    <2>3. OneImporter'
      BY ClaimIdle
    <2>4. OneOwner' /\ Known' /\ OneAtATime'
      BY <2>1 DEF OneOwner, Known, OneAtATime
    <2>5. Counted'
      BY <1>1, <2>1 DEF Counted
    <2> QED
      BY <2>2, <2>3, <2>4, <2>5
  <1> QED
    BY <1>2, <1>3

LEMMA TimerIInv ==
  ASSUME ServerIInv, NEW r \in Requests, TimerExpires(r) \/ AnswerWritten(r) \/ AnswerCrashes(r)
  PROVE  ServerIInv'
  <1> USE DEF ServerIInv
  <1>1. CASE TimerExpires(r)
    <2> USE <1>1 DEF TimerExpires
    <2>1. ServerTypeOK'
      BY DEF ServerTypeOK
    <2>2. OneImporter'
      BY ClaimIdle
    <2> QED
      BY <2>1, <2>2 DEF OneOwner, Known, OneAtATime, Counted
  <1>2. CASE AnswerWritten(r)
    <2> USE <1>2 DEF AnswerWritten
    <2>1. ServerTypeOK'
      BY DEF ServerTypeOK
    <2>2. OneImporter'
      BY ClaimIdle
    <2> QED
      BY <2>1, <2>2 DEF OneOwner, Known, OneAtATime, Counted
  <1>3. CASE AnswerCrashes(r)
    <2> USE <1>3 DEF AnswerCrashes
    <2>1. ServerTypeOK'
      BY DEF ServerTypeOK, buffer
    <2>2. OneImporter'
      BY ClaimIdle
    <2> QED
      BY <2>1, <2>2, BufferKept
  <1> QED
    BY <1>1, <1>2, <1>3

-----------------------------------------------------------------------------
LEMMA NextServer == ServerIInv /\ [ServerNext]_(serverVars) => ServerIInv'
  <1> SUFFICES ASSUME ServerIInv, [ServerNext]_(serverVars) PROVE ServerIInv'
    OBVIOUS
  <1>1. ASSUME NEW c \in Conns, ConnStep(c) \/ HostStep(c) PROVE ServerIInv'
    BY <1>1, ControlIInv, WriteIInv, SubmitInIInv, ReadUnlinkIInv DEF ConnStep, HostStep
  <1>2. CASE UNCHANGED serverVars
    <2>1. ServerTypeOK' /\ OneImporter'
      BY <1>2, ClaimIdle DEF ServerIInv, ServerTypeOK, serverVars
    <2> QED
      BY <1>2, <2>1, BufferKept DEF ServerIInv, serverVars, buffer
  <1> QED
    BY <1>1, <1>2, RespondIInv, TimerIInv DEF ServerNext

\* The strengthened invariant holds in every reachable state.
THEOREM ServerInvariance == ServerSpec => []ServerIInv
  BY InitServer, NextServer, PTL DEF ServerSpec

\* The server's state keeps its types.
THEOREM ServerTypeCorrect == ServerSpec => []ServerTypeOK
  <1>1. ServerIInv => ServerTypeOK
    BY DEF ServerIInv
  <1> QED
    BY <1>1, ServerInvariance, PTL

\* One connection at most drives the device, and the claim is set exactly while
\* one does, whatever panics, fails or drops (claimDevice, releaseDevice).
THEOREM OneImporterHolds == ServerSpec => []OneImporter
  <1>1. ServerIInv => OneImporter
    BY DEF ServerIInv
  <1> QED
    BY <1>1, ServerInvariance, PTL

\* A request never has two goroutines that will answer it.
THEOREM OneOwnerHolds == ServerSpec => []OneOwner
  <1>1. ServerIInv => OneOwner
    BY DEF ServerIInv
  <1> QED
    BY <1>1, ServerInvariance, PTL

-----------------------------------------------------------------------------
(* PacketPath: arithmetic. *)

\* The sizes are positive numbers and no packet is all payload.
LEMMA Sizes ==
  /\ ReportSize \in Nat /\ InitData \in Nat /\ ContData \in Nat /\ SeqLimit \in Nat /\ MaxPings \in Nat
  /\ InitData > 0 /\ ContData > 0 /\ SeqLimit > 0
  /\ InitData < ReportSize /\ ContData < ReportSize
  BY PacketAssumption

\* Every continuation packet moves on by its payload.
LEMMA BeforeNat ==
  ASSUME NEW k \in Nat
  PROVE  Before(k) \in Nat /\ Before(k + 1) = Before(k) + ContData /\ Before(0) = InitData
  BY Sizes DEF Before

\* Later packets begin later.
LEMMA BeforeGrows ==
  ASSUME NEW i \in Nat, NEW j \in Nat, i < j
  PROVE  Before(i) < Before(j)
  <1>1. j - i \in Nat /\ j - i > 0
    OBVIOUS
  <1>2. \A a, b \in Nat : a > 0 /\ b > 0 => a * b > 0
    OBVIOUS
  <1>3. (j - i) * ContData > 0
    BY <1>1, <1>2, Sizes
  <1>4. (j - i) * ContData = j * ContData - i * ContData
    BY Sizes
  <1> QED
    BY <1>3, <1>4, Sizes DEF Before

\* A set of naturals that is not empty has a least.
LEMMA Least ==
  ASSUME NEW S \in SUBSET Nat, S # {}
  PROVE  \E i \in S : \A j \in S : i <= j
  <1>1. \E i \in S : \A j \in S : ~(<<j, i>> \in OpToRel(<, Nat))
    BY NatLessThanWellFounded, WFMin, Zenon
  <1>2. PICK i \in S : \A j \in S : ~(<<j, i>> \in OpToRel(<, Nat))
    BY <1>1, Zenon
  <1>3. ASSUME NEW j \in S PROVE i <= j
    <2>1. i \in Nat /\ j \in Nat
      OBVIOUS
    <2>2. ~(j < i)
      BY <1>2, <2>1, Zenon DEF OpToRel
    <2> QED
      BY <2>1, <2>2
  <1> QED
    BY <1>3

\* How many packets a message of n units makes, and what the j-th begins
\* after and ends with.
Parts(n) == 1 + Cardinality({k \in 0 .. SeqLimit : Before(k) < n})
Start(j) == IF j = 1 THEN 0 ELSE Before(j - 2)
End(j)   == Before(j - 1)

\* A message needs no more packets than there are sequence numbers, and only
\* its last packet reaches its end.
LEMMA PartsSuffice ==
  ASSUME NEW n \in 0 .. MaxPayload
  PROVE  /\ Parts(n) \in 1 .. SeqLimit + 1
         /\ Cardinality({k \in 0 .. SeqLimit : Before(k) < n}) \in Nat
         /\ \A j \in 1 .. Parts(n) : j < Parts(n) <=> End(j) < n
  <1> DEFINE S == {k \in 0 .. SeqLimit : Before(k) >= n}
             D == {k \in 0 .. SeqLimit : Before(k) < n}
  <1>1. MaxPayload = Before(SeqLimit) /\ n \in Nat
    BY Sizes DEF MaxPayload, Before
  <1>2. SeqLimit \in S /\ S \in SUBSET Nat
    BY <1>1, Sizes, BeforeNat
  <1>3. PICK m \in S : \A k \in S : m <= k
    BY <1>2, Least
  <1>4. m \in 0 .. SeqLimit /\ Before(m) >= n
    BY <1>3
  <1>5. ASSUME NEW k \in 0 .. SeqLimit PROVE k < m <=> Before(k) < n
    <2>1. Before(k) \in Nat /\ Before(m) \in Nat /\ k \in Nat /\ m \in Nat
      BY <1>4, BeforeNat, Sizes
    <2>2. CASE k < m
      BY <1>1, <1>3, <2>1, <2>2
    <2>3. CASE k = m
      BY <1>1, <1>4, <2>1, <2>3
    <2>4. CASE k > m
      BY <1>1, <1>4, <2>1, <2>4, BeforeGrows
    <2> QED
      BY <2>1, <2>2, <2>3, <2>4
  <1>6. D = 0 .. m - 1
    BY <1>4, <1>5, Sizes
  <1>7. Cardinality(0 .. m - 1) = m
    BY <1>4, FS_Interval, Sizes
  <1>8. Parts(n) = m + 1 /\ Cardinality(D) \in Nat
    <2>1. Parts(n) = 1 + Cardinality(D)
      BY DEF Parts
    <2>2. Cardinality(D) = m
      BY <1>6, <1>7
    <2> HIDE DEF D
    <2> QED
      BY <2>1, <2>2, <1>4, Sizes
  <1>9. ASSUME NEW j \in 1 .. m + 1 PROVE j < m + 1 <=> End(j) < n
    BY <1>4, <1>5, Sizes DEF End
  <1> QED
    BY <1>4, <1>8, <1>9, Sizes

-----------------------------------------------------------------------------
(* Packets. *)

\* What lies where in a padded row of units.
LEMMA PaddedIs ==
  ASSUME NEW S, Zero \in S, NEW units \in Seq(S), NEW size \in Nat, Len(units) <= size
  PROVE  /\ Padded(units, size) \in Seq(S) /\ Len(Padded(units, size)) = size
         /\ \A i \in 1 .. size : Padded(units, size)[i] = IF i <= Len(units) THEN units[i] ELSE Zero
  <1> DEFINE rest == [i \in 1 .. size - Len(units) |-> Zero]
  <1>1. Len(units) \in Nat /\ size - Len(units) \in Nat
    OBVIOUS
  <1>2. rest \in Seq(S) /\ Len(rest) = size - Len(units) /\ \A i \in 1 .. size - Len(units) : rest[i] = Zero
    <2>1. rest \in [1 .. size - Len(units) -> S]
      OBVIOUS
    <2> HIDE DEF rest
    <2>2. rest \in Seq(S) /\ Len(rest) = size - Len(units)
      BY <1>1, <2>1, SeqDef
    <2> QED
      BY <2>2 DEF rest
  <1> HIDE DEF rest
  <1>3. /\ units \o rest \in Seq(S) /\ Len(units \o rest) = size
        /\ \A i \in 1 .. size : (units \o rest)[i] = IF i <= Len(units) THEN units[i] ELSE rest[i - Len(units)]
    BY <1>1, <1>2, ConcatProperties
  <1>4. Padded(units, size) = units \o rest
    BY DEF Padded, rest
  <1> QED
    BY <1>1, <1>2, <1>3, <1>4

\* What lies where in a packet.
LEMMA PacketIs ==
  ASSUME NEW S, Zero \in S, NEW header \in S, NEW payload \in Seq(S),
         NEW room \in 1 .. ReportSize - 1, Len(payload) <= room
  PROVE  LET p == Packet(header, payload, room) IN
         /\ p \in Seq(S) /\ Len(p) = ReportSize /\ p[1] = header
         /\ \A i \in 1 .. room : p[ReportSize - room + i] = IF i <= Len(payload) THEN payload[i] ELSE Zero
  <1> DEFINE u == <<header>>
             k == ReportSize - room
             a == Padded(u, k)
             b == Padded(payload, room)
  <1>1. room \in Nat /\ k \in Nat /\ k >= 1 /\ k + room = ReportSize /\ ReportSize \in Nat
    BY Sizes
  <1>2. u \in Seq(S) /\ Len(u) = 1 /\ u[1] = header
    OBVIOUS
  <1>3. Packet(header, payload, room) = a \o b
    BY DEF Packet
  <1>4. /\ b \in Seq(S) /\ Len(b) = room
        /\ \A i \in 1 .. room : b[i] = IF i <= Len(payload) THEN payload[i] ELSE Zero
    BY <1>1, PaddedIs
  <1> SUFFICES /\ a \o b \in Seq(S) /\ Len(a \o b) = ReportSize /\ (a \o b)[1] = header
               /\ \A i \in 1 .. room : (a \o b)[k + i] = b[i]
    BY <1>3, <1>4
  <1> HIDE DEF u, k, b
  <1>5. /\ a \in Seq(S) /\ Len(a) = k
        /\ \A i \in 1 .. k : a[i] = IF i <= Len(u) THEN u[i] ELSE Zero
    BY <1>1, <1>2, PaddedIs
  <1>6. a[1] = header
    BY <1>1, <1>2, <1>5
  <1> HIDE DEF a
  <1>7. /\ a \o b \in Seq(S) /\ Len(a \o b) = Len(a) + Len(b)
        /\ \A i \in 1 .. Len(a) + Len(b) : (a \o b)[i] = IF i <= Len(a) THEN a[i] ELSE b[i - Len(a)]
    BY <1>4, <1>5, ConcatProperties
  <1>8. (a \o b)[1] = header
    BY <1>1, <1>4, <1>5, <1>6, <1>7
  <1>9. ASSUME NEW i \in 1 .. room PROVE (a \o b)[k + i] = b[i]
    <2>1. k + i \in 1 .. Len(a) + Len(b) /\ ~(k + i <= Len(a)) /\ (k + i) - Len(a) = i
      BY <1>1, <1>4, <1>5
    <2> QED
      BY <1>7, <2>1
  <1> QED
    BY <1>1, <1>4, <1>5, <1>7, <1>8, <1>9

\* What a packet carries lies behind its header.
LEMMA CarriedIs ==
  ASSUME NEW S, NEW p \in Seq(S), Len(p) = ReportSize
  PROVE  /\ Carried(p) \in Seq(S) /\ Len(Carried(p)) = Room(p)
         /\ \A i \in 1 .. Room(p) : Carried(p)[i] = p[ReportSize - Room(p) + i]
  <1>1. Room(p) \in Nat /\ Room(p) >= 1 /\ Room(p) < ReportSize
    BY Sizes DEF Room
  <1> DEFINE m == ReportSize - Room(p) + 1
  <1>2. /\ m \in Int /\ ReportSize \in Int /\ m <= ReportSize /\ ReportSize - m + 1 = Room(p)
        /\ \A i \in 1 .. Room(p) : m + i - 1 = ReportSize - Room(p) + i
    BY <1>1, Sizes
  <1>3. \A i \in m .. ReportSize : p[i] \in S
    BY <1>1, Sizes
  <1>4. Carried(p) = SubSeq(p, m, ReportSize)
    BY DEF Carried
  <1> HIDE DEF m
  <1>5. /\ SubSeq(p, m, ReportSize) \in Seq(S)
        /\ Len(SubSeq(p, m, ReportSize)) = IF m <= ReportSize THEN ReportSize - m + 1 ELSE 0
        /\ \A i \in 1 .. ReportSize - m + 1 : SubSeq(p, m, ReportSize)[i] = p[m + i - 1]
    BY <1>2, <1>3, SubSeqProperties
  <1> QED
    BY <1>2, <1>4, <1>5

\* A packet that carries what lies between a and b of a payload.
Piece(header, payload, a, b, room) ==
  Packet(header, SubSeq(payload, a + 1, IF b < Len(payload) THEN b ELSE Len(payload)), room)

\* Such a packet, taken apart again, gives that part, with padding behind it.
LEMMA PieceIs ==
  ASSUME NEW S, Zero \in S, NEW header \in S, NEW payload \in Seq(S), NEW room \in 1 .. ReportSize - 1,
         NEW a \in Nat, NEW b \in Nat, a <= Len(payload), b = a + room,
         header.unit = "first" => room = InitData, header.unit # "first" => room = ContData
  PROVE  LET p == Piece(header, payload, a, b, room) IN
         /\ p \in Seq(S) /\ Len(p) = ReportSize /\ p[1] = header /\ Carried(p) \in Seq(S)
         /\ Len(Carried(p)) = room
         /\ \A i \in 1 .. room : Carried(p)[i] = IF a + i <= Len(payload) THEN payload[a + i] ELSE Zero
  <1> DEFINE n == Len(payload)
             c == IF b < n THEN b ELSE n
             piece == SubSeq(payload, a + 1, c)
             p == Packet(header, piece, room)
  <1>1. n \in Nat /\ c \in Nat /\ a <= c /\ c <= n /\ c - a <= room /\ room \in Nat /\ a + 1 \in Int /\ c \in Int
    OBVIOUS
  <1>2. \A i \in a + 1 .. c : payload[i] \in S
    BY <1>1
  <1>3. p = Piece(header, payload, a, b, room)
    BY DEF Piece
  <1>4. \A i \in 1 .. room : (i <= c - a) <=> (a + i <= n)
    BY <1>1
  <1> HIDE DEF c
  <1>5. /\ piece \in Seq(S) /\ Len(piece) = IF a + 1 <= c THEN c - (a + 1) + 1 ELSE 0
        /\ \A i \in 1 .. c - (a + 1) + 1 : piece[i] = payload[a + 1 + i - 1]
    BY <1>1, <1>2, SubSeqProperties
  <1>6. Len(piece) = c - a /\ \A i \in 1 .. c - a : piece[i] = payload[a + i]
    BY <1>1, <1>5
  <1> HIDE DEF piece
  <1>7. piece \in Seq(S) /\ Len(piece) <= room
    BY <1>1, <1>5, <1>6
  <1>8. /\ p \in Seq(S) /\ Len(p) = ReportSize /\ p[1] = header
        /\ \A i \in 1 .. room : p[ReportSize - room + i] = IF i <= Len(piece) THEN piece[i] ELSE Zero
    BY <1>7, PacketIs
  <1> HIDE DEF p
  <1>9. Room(p) = room
    BY <1>8 DEF Room
  <1>10. /\ Carried(p) \in Seq(S) /\ Len(Carried(p)) = room
         /\ \A i \in 1 .. room : Carried(p)[i] = p[ReportSize - room + i]
    BY <1>8, <1>9, CarriedIs
  <1>11. ASSUME NEW i \in 1 .. room PROVE Carried(p)[i] = IF a + i <= n THEN payload[a + i] ELSE Zero
    <2>1. Carried(p)[i] = IF i <= c - a THEN piece[i] ELSE Zero
      BY <1>6, <1>8, <1>10
    <2>2. i <= c - a => piece[i] = payload[a + i]
      BY <1>1, <1>6
    <2> QED
      BY <1>4, <2>1, <2>2
  <1> QED
    BY <1>3, <1>8, <1>10, <1>11

\* A packet begins where the one before it ends.
LEMMA StartIs ==
  ASSUME NEW j \in Nat, j >= 1
  PROVE  /\ Start(j) \in Nat /\ End(j) \in Nat /\ Start(j + 1) = End(j)
         /\ End(j) = Start(j) + IF j = 1 THEN InitData ELSE ContData
  <1>1. j - 1 \in Nat /\ (j + 1) - 2 = j - 1 /\ j + 1 # 1 /\ (j # 1 => j - 2 \in Nat /\ (j - 2) + 1 = j - 1)
    OBVIOUS
  <1>2. CASE j = 1
    BY <1>1, <1>2, BeforeNat DEF Start, End
  <1>3. CASE j # 1
    <2>1. Before(j - 2) \in Nat /\ Before(j - 1) = Before(j - 2) + ContData /\ Before(j - 1) \in Nat
      BY <1>1, <1>3, BeforeNat
    <2> QED
      BY <1>1, <1>3, <2>1 DEF Start, End
  <1> QED
    BY <1>2, <1>3

\* What the packets of a payload are.
LEMMA CutIs ==
  ASSUME NEW S, Zero \in S, NEW payload \in Seq(S), Len(payload) <= MaxPayload,
         First(Len(payload)) \in S, \A q \in 0 .. SeqLimit : Next_(q) \in S
  PROVE  LET n == Len(payload)
             C == Cut(payload) IN
         /\ Len(C) = Parts(n) /\ DOMAIN C = 1 .. Parts(n) /\ C \in Seq(Seq(S))
         /\ \A j \in 1 .. Parts(n) :
              /\ C[j] \in Seq(S) /\ Len(C[j]) = ReportSize /\ Carried(C[j]) \in Seq(S)
              /\ C[j][1] = IF j = 1 THEN First(n) ELSE Next_(j - 2)
              /\ Len(Carried(C[j])) = IF j = 1 THEN InitData ELSE ContData
              /\ \A i \in 1 .. Len(Carried(C[j])) :
                   Carried(C[j])[i] = IF Start(j) + i <= n THEN payload[Start(j) + i] ELSE Zero
  <1> DEFINE n == Len(payload)
             C == Cut(payload)
             one == Piece(First(n), payload, 0, InitData, InitData)
             more == Cardinality({k \in 0 .. SeqLimit : Before(k) < n})
             next(k) == Piece(Next_(k - 1), payload, Before(k - 1), Before(k), ContData)
             rest == [k \in 1 .. more |-> next(k)]
  <1>1. n \in 0 .. MaxPayload /\ n \in Nat
    BY Sizes DEF MaxPayload
  <1>2. /\ Parts(n) \in 1 .. SeqLimit + 1 /\ Parts(n) = 1 + more /\ more \in Nat
        /\ \A j \in 1 .. Parts(n) : j < Parts(n) <=> End(j) < n
    BY <1>1, PartsSuffice DEF Parts
  <1>3. C = <<one>> \o rest
    BY DEF Cut, Piece
  <1>4. /\ one \in Seq(S) /\ Len(one) = ReportSize /\ one[1] = First(n) /\ Carried(one) \in Seq(S)
        /\ Len(Carried(one)) = InitData
        /\ \A i \in 1 .. InitData : Carried(one)[i] = IF 0 + i <= n THEN payload[0 + i] ELSE Zero
    <2>1. InitData \in 1 .. ReportSize - 1 /\ 0 \in Nat /\ InitData \in Nat /\ InitData = 0 + InitData /\ 0 <= n
          /\ First(n).unit = "first"
      BY <1>1, Sizes DEF First
    <2> QED
      BY <2>1, PieceIs
  <1>5. more \in 0 .. SeqLimit
    <2> HIDE DEF more
    <2> QED
      BY <1>2, Sizes
  <1> HIDE DEF more, one
  <1>6. ASSUME NEW k \in 1 .. more
        PROVE  /\ next(k) \in Seq(S) /\ Len(next(k)) = ReportSize /\ next(k)[1] = Next_(k - 1)
               /\ Carried(next(k)) \in Seq(S) /\ Len(Carried(next(k))) = ContData
               /\ \A i \in 1 .. ContData :
                    Carried(next(k))[i] = IF Start(k + 1) + i <= n THEN payload[Start(k + 1) + i] ELSE Zero
    <2>1. k \in Nat /\ k - 1 \in Nat /\ k - 1 \in 0 .. SeqLimit /\ k \in 1 .. Parts(n) /\ k < Parts(n)
          /\ (k - 1) + 1 = k /\ (k + 1) - 2 = k - 1 /\ k + 1 # 1
      BY <1>2, <1>5, Sizes
    <2>2. Before(k - 1) < n
      BY <1>2, <2>1 DEF End
    <2>3. /\ Before(k - 1) \in Nat /\ Before(k) \in Nat /\ Before(k) = Before(k - 1) + ContData
          /\ Start(k + 1) = Before(k - 1)
      BY <2>1, BeforeNat DEF Start
    <2>4. ContData \in 1 .. ReportSize - 1 /\ Next_(k - 1).unit = "next" /\ Next_(k - 1) \in S /\ Before(k - 1) <= n
      BY <1>1, <2>1, <2>2, <2>3, Sizes DEF Next_
    <2> QED
      <3> DEFINE h == Next_(k - 1)
                 a == Before(k - 1)
                 b == Before(k)
                 p == Piece(h, payload, a, b, ContData)
      <3>1. /\ h \in S /\ a \in Nat /\ b \in Nat /\ b = a + ContData /\ a <= Len(payload)
            /\ ContData \in 1 .. ReportSize - 1 /\ h.unit # "first"
        BY <2>3, <2>4
      <3>3. next(k) = p /\ Start(k + 1) = a
        BY <2>3
      <3> HIDE DEF h, a, b, next, rest, C
      <3>2. /\ p \in Seq(S) /\ Len(p) = ReportSize /\ p[1] = h /\ Carried(p) \in Seq(S)
            /\ Len(Carried(p)) = ContData
            /\ \A i \in 1 .. ContData : Carried(p)[i] = IF a + i <= Len(payload) THEN payload[a + i] ELSE Zero
        BY <3>1, PieceIs
      <3> QED
        BY <3>2, <3>3 DEF h
  <1> HIDE DEF next
  <1>7. /\ rest \in Seq(Seq(S)) /\ Len(rest) = more /\ \A k \in 1 .. more : rest[k] = next(k)
    <2>1. rest \in [1 .. more -> Seq(S)]
      BY <1>6
    <2>2. Len(rest) = more
      BY <1>5, Sizes
    <2> QED
      BY <1>5, <2>1, <2>2, SeqDef, Sizes
  <1> HIDE DEF rest
  <1>8. /\ <<one>> \in Seq(Seq(S)) /\ Len(<<one>>) = 1 /\ <<one>>[1] = one
    BY <1>4
  <1> DEFINE w == <<one>>
  <1>9. /\ C \in Seq(Seq(S)) /\ Len(C) = 1 + more
        /\ \A j \in 1 .. 1 + more : C[j] = IF j <= 1 THEN w[j] ELSE rest[j - 1]
    <2> HIDE DEF C, w
    <2> QED
      BY <1>3, <1>7, <1>8, ConcatProperties DEF w
  <1> HIDE DEF C
  <1>10. C[1] = one /\ \A k \in 1 .. more : C[k + 1] = next(k)
    <2>1. C[1] = one
      BY <1>5, <1>8, <1>9, Sizes
    <2>2. ASSUME NEW k \in 1 .. more PROVE C[k + 1] = next(k)
      <3>1. k + 1 \in 1 .. 1 + more /\ ~(k + 1 <= 1) /\ (k + 1) - 1 = k
        BY <1>5, Sizes
      <3> QED
        BY <1>7, <1>9, <3>1
    <2> QED
      BY <2>1, <2>2
  <1>11. Len(C) = Parts(n) /\ DOMAIN C = 1 .. Parts(n)
    BY <1>2, <1>9
  <1>12. ASSUME NEW j \in 1 .. Parts(n)
         PROVE  /\ C[j] \in Seq(S) /\ Len(C[j]) = ReportSize /\ Carried(C[j]) \in Seq(S)
                /\ C[j][1] = IF j = 1 THEN First(n) ELSE Next_(j - 2)
                /\ Len(Carried(C[j])) = IF j = 1 THEN InitData ELSE ContData
                /\ \A i \in 1 .. Len(Carried(C[j])) :
                     Carried(C[j])[i] = IF Start(j) + i <= n THEN payload[Start(j) + i] ELSE Zero
    <2>1. CASE j = 1
      BY <1>4, <1>10, <2>1 DEF Start
    <2>2. CASE j # 1
      <3>1. j - 1 \in 1 .. more /\ (j - 1) + 1 = j /\ (j - 1) - 1 = j - 2
        BY <1>2, <1>5, <2>2, Sizes
      <3>2. C[j] = next(j - 1)
        BY <1>10, <3>1
      <3> QED
        BY <1>6, <2>2, <3>1, <3>2
    <2> QED
      BY <2>1, <2>2
  <1> QED
    BY <1>9, <1>11, <1>12 DEF C

-----------------------------------------------------------------------------
(* Joining. *)

\* What has been joined of a payload after j packets, and the transaction then.
Joined(payload, j) == [i \in 1 .. End(j) |-> IF i <= Len(payload) THEN payload[i] ELSE Zero]
After(payload, j)  ==
  IF j = 0 THEN Nothing ELSE [length |-> Len(payload), sequence |-> j - 1, payload |-> Joined(payload, j)]

\* What has been joined is the beginning of the payload, or all of it, padded.
LEMMA JoinedIs ==
  ASSUME NEW S, Zero \in S, NEW payload \in Seq(S), NEW j \in Nat, j >= 1
  PROVE  /\ Joined(payload, j) \in Seq(S) /\ Len(Joined(payload, j)) = End(j) /\ End(j) \in Nat
         /\ \A i \in 1 .. End(j) : Joined(payload, j)[i] = IF i <= Len(payload) THEN payload[i] ELSE Zero
  <1> DEFINE r == Joined(payload, j)
  <1>1. End(j) \in Nat
    BY StartIs
  <1>2. r \in [1 .. End(j) -> S]
    BY <1>1 DEF Joined
  <1>3. \A i \in 1 .. End(j) : r[i] = IF i <= Len(payload) THEN payload[i] ELSE Zero
    BY DEF Joined
  <1> HIDE DEF r
  <1>4. r \in Seq(S) /\ Len(r) = End(j)
    BY <1>1, <1>2, SeqDef
  <1> QED
    BY <1>1, <1>3, <1>4 DEF r

\* Joining undoes cutting: what a receiver has (addMessage) after a message is
\* cut (createResponsePackets) and j of its packets are joined.
THEOREM JoinsUp ==
  ASSUME NEW S, Zero \in S, NEW payload \in Seq(S), Len(payload) <= MaxPayload,
         First(Len(payload)) \in S, \A q \in 0 .. SeqLimit : Next_(q) \in S
  PROVE  LET n == Len(payload)
             C == Cut(payload) IN
         /\ Carried(C[1]) = Joined(payload, 1)
         /\ \A j \in 1 .. Parts(n) - 1 : Joined(payload, j) \o Carried(C[j + 1]) = Joined(payload, j + 1)
         /\ SubSeq(Joined(payload, Parts(n)), 1, n) = payload
  <1> DEFINE n == Len(payload)
             C == Cut(payload)
             m == Parts(n)
  <1>1. n \in 0 .. MaxPayload /\ n \in Nat
    BY Sizes DEF MaxPayload
  <1>2. m \in Nat /\ m >= 1 /\ \A j \in 1 .. m : j < m <=> End(j) < n
    <2>1. m \in 1 .. SeqLimit + 1 /\ \A j \in 1 .. m : j < m <=> End(j) < n
      BY <1>1, PartsSuffice
    <2> HIDE DEF m, n
    <2> QED
      BY <2>1, Sizes
  <1>3. \A j \in 1 .. m :
          /\ Carried(C[j]) \in Seq(S)
          /\ Len(Carried(C[j])) = IF j = 1 THEN InitData ELSE ContData
          /\ \A i \in 1 .. Len(Carried(C[j])) :
               Carried(C[j])[i] = IF Start(j) + i <= n THEN payload[Start(j) + i] ELSE Zero
    BY CutIs
  <1> HIDE DEF m, C
  <1>4. Carried(C[1]) = Joined(payload, 1)
    <2>1. Start(1) = 0 /\ End(1) = InitData /\ 1 \in 1 .. m
      BY <1>2, StartIs, Sizes DEF Start
    <2>2. /\ Carried(C[1]) \in Seq(S) /\ Len(Carried(C[1])) = InitData
          /\ \A i \in 1 .. InitData : Carried(C[1])[i] = IF i <= n THEN payload[i] ELSE Zero
      BY <1>3, <2>1, Sizes
    <2>3. /\ Joined(payload, 1) \in Seq(S) /\ Len(Joined(payload, 1)) = InitData
          /\ \A i \in 1 .. InitData : Joined(payload, 1)[i] = IF i <= n THEN payload[i] ELSE Zero
      <3>1. /\ Joined(payload, 1) \in Seq(S) /\ Len(Joined(payload, 1)) = End(1)
            /\ \A i \in 1 .. End(1) : Joined(payload, 1)[i] = IF i <= Len(payload) THEN payload[i] ELSE Zero
        BY JoinedIs
      <3> QED
        BY <2>1, <3>1
    <2> QED
      BY <2>2, <2>3, SeqEqual
  <1>5. ASSUME NEW j \in 1 .. m - 1
        PROVE  Joined(payload, j) \o Carried(C[j + 1]) = Joined(payload, j + 1)
    <2> DEFINE a == Joined(payload, j)
               b == Carried(C[j + 1])
               c == Joined(payload, j + 1)
               e == End(j)
    <2>1. j \in Nat /\ j >= 1 /\ j + 1 \in Nat /\ j + 1 >= 1 /\ j + 1 \in 1 .. m /\ j + 1 # 1
      BY <1>2
    <2>2. e \in Nat /\ Start(j + 1) = e /\ End(j + 1) = e + ContData
      BY <2>1, StartIs
    <2>3. /\ a \in Seq(S) /\ Len(a) = e /\ \A i \in 1 .. e : a[i] = IF i <= n THEN payload[i] ELSE Zero
      BY <2>1, JoinedIs
    <2>4. /\ c \in Seq(S) /\ Len(c) = e + ContData
          /\ \A i \in 1 .. e + ContData : c[i] = IF i <= n THEN payload[i] ELSE Zero
      BY <2>1, <2>2, JoinedIs
    <2>5. /\ b \in Seq(S) /\ Len(b) = ContData
          /\ \A i \in 1 .. ContData : b[i] = IF e + i <= n THEN payload[e + i] ELSE Zero
      BY <1>3, <2>1, <2>2
    <2> HIDE DEF a, b, c, e
    <2>6. /\ a \o b \in Seq(S) /\ Len(a \o b) = Len(a) + Len(b)
          /\ \A i \in 1 .. Len(a) + Len(b) : (a \o b)[i] = IF i <= Len(a) THEN a[i] ELSE b[i - Len(a)]
      BY <2>3, <2>5, ConcatProperties
    <2>7. ASSUME NEW i \in 1 .. e + ContData PROVE (a \o b)[i] = c[i]
      <3>1. CASE i <= e
        <4>1. i \in 1 .. e /\ i \in 1 .. Len(a) + Len(b)
          BY <2>2, <2>3, <2>5, <3>1, Sizes
        <4>2. (a \o b)[i] = a[i]
          BY <2>3, <2>6, <3>1, <4>1
        <4>3. a[i] = c[i]
          BY <2>3, <2>4, <4>1
        <4> QED
          BY <4>2, <4>3
      <3>2. CASE ~(i <= e)
        <4>1. i - e \in 1 .. ContData /\ e + (i - e) = i
          BY <2>2, <3>2, Sizes
        <4>2. b[i - e] = IF i <= n THEN payload[i] ELSE Zero
          BY <2>5, <4>1
        <4> QED
          BY <2>2, <2>3, <2>4, <2>5, <2>6, <3>2, <4>2, Sizes
      <3> QED
        BY <3>1, <3>2
    <2>8. a \o b = c
      BY <2>3, <2>4, <2>5, <2>6, <2>7, SeqEqual
    <2> QED
      BY <2>8 DEF a, b, c
  <1>6. SubSeq(Joined(payload, m), 1, n) = payload
    <2> DEFINE a == Joined(payload, m)
    <2>1. End(m) \in Nat /\ End(m) >= n
      <3> HIDE DEF m, n
      <3>1. End(m) \in Nat
        BY <1>2, StartIs
      <3>2. m \in 1 .. m /\ ~(m < m)
        BY <1>2
      <3>3. ~(End(m) < n)
        BY <1>2, <3>2
      <3> QED
        BY <1>1, <3>1, <3>3
    <2>2. a \in Seq(S) /\ Len(a) = End(m) /\ \A i \in 1 .. End(m) : a[i] = IF i <= n THEN payload[i] ELSE Zero
      BY <1>2, JoinedIs
    <2> HIDE DEF a
    <2>3. \A i \in 1 .. n : a[i] \in S /\ a[i] = payload[i]
      BY <1>1, <2>1, <2>2
    <2>4. /\ SubSeq(a, 1, n) \in Seq(S)
          /\ Len(SubSeq(a, 1, n)) = IF 1 <= n THEN n - 1 + 1 ELSE 0
          /\ \A i \in 1 .. n - 1 + 1 : SubSeq(a, 1, n)[i] = a[1 + i - 1]
      BY <1>1, <2>3, SubSeqProperties
    <2>5. Len(SubSeq(a, 1, n)) = n /\ \A i \in 1 .. n : SubSeq(a, 1, n)[i] = payload[i]
      BY <1>1, <2>3, <2>4
    <2>6. SubSeq(a, 1, n) = payload
      BY <2>4, <2>5, SeqEqual
    <2> QED
      BY <2>6 DEF a
  <1> QED
    BY <1>4, <1>5, <1>6 DEF C, m

-----------------------------------------------------------------------------
(* The enumeration. *)

\* What the host can ask for in the enumeration.
Asks ==
  {Descriptor(ToDevice, DEVICE, 0, 18), Descriptor(ToDevice, CONFIGURATION, 0, 9),
   Descriptor(ToDevice, CONFIGURATION, 0, 41), Setup(ToDevice, SET_CONFIGURATION, 0, 0),
   Setup(128 + ToDevice, GET_STATUS, 0, 2), Setup(32 + ToInterface, SET_IDLE, 0, 0),
   Descriptor(ToInterface, HID_REPORT, 0, 30)}
    \union {Descriptor(ToDevice, STRING_DESCRIPTOR, index, 255) : index \in 0 .. 5}

\* No descriptors have no length.
LEMMA NoLength == TotalLength(<<>>) = 0
  <1> DEFINE g == [s \in {{}} |-> 0]
             F(h) == [s \in SUBSET {} |-> IF s = {} THEN 0 ELSE LET x == CHOOSE y \in s : TRUE IN <<>>[x].length + h[s \ {x}]]
             iter == CHOOSE h : h = F(h)
  <1>1. g = F(g)
    OBVIOUS
  <1>2. iter = F(iter)
    BY <1>1
  <1>3. iter[{}] = 0
    <2> HIDE DEF iter
    <2> QED
      BY <1>2
  <1>4. DOMAIN <<>> = {}
    OBVIOUS
  <1> QED
    BY <1>3, <1>4, Zenon DEF TotalLength, FoldSeq, FoldFunction, FoldFunctionOnSet, MapThenFoldSet

\* The sum of the lengths of four descriptors, in whatever order they are added.
LEMMA LengthOfFour ==
  ASSUME NEW r, DOMAIN r = 1 .. 4, \A i \in 1 .. 4 : r[i].length \in Nat
  PROVE  TotalLength(r) = r[1].length + r[2].length + r[3].length + r[4].length
  <1> DEFINE D == DOMAIN r
             l(i) == r[i].length
             part(i, s) == IF i \in s THEN l(i) ELSE 0
             g == [s \in SUBSET D |-> part(1, s) + part(2, s) + part(3, s) + part(4, s)]
             F(h) == [s \in SUBSET D |-> IF s = {} THEN 0 ELSE LET x == CHOOSE y \in s : TRUE IN r[x].length + h[s \ {x}]]
             iter == CHOOSE h : h = F(h)
  <1>1. D = {1, 2, 3, 4}
    BY DEF D
  <1>2. \A i \in D : l(i) \in Nat
    BY <1>1
  <1> HIDE DEF l, D
  <1>3. ASSUME NEW s \in SUBSET D, NEW x \in s PROVE g[s] = l(x) + g[s \ {x}]
    <2>1. s \in SUBSET D /\ s \ {x} \in SUBSET D
      OBVIOUS
    <2>2. \A t \in SUBSET D : g[t] = part(1, t) + part(2, t) + part(3, t) + part(4, t)
      OBVIOUS
    <2>3. \A i \in {1, 2, 3, 4} : part(i, s) \in Nat /\ part(i, s \ {x}) \in Nat
      BY <1>1, <1>2
    <2>4. \A i \in {1, 2, 3, 4} : i # x => part(i, s) = part(i, s \ {x})
      OBVIOUS
    <2>5. part(x, s) = l(x) /\ part(x, s \ {x}) = 0
      OBVIOUS
    <2>6. x \in {1, 2, 3, 4} /\ l(x) \in Nat
      BY <1>1, <1>2
    <2> HIDE DEF part, g
    <2> QED
      BY <2>1, <2>2, <2>3, <2>4, <2>5, <2>6
  <1>4. g[{}] = 0
    OBVIOUS
  <1>5. \A s \in SUBSET D : g[s] \in Nat
    BY <1>1, <1>2
  <1>6. g[D] = l(1) + l(2) + l(3) + l(4)
    BY <1>1, <1>2
  <1>7. g = F(g)
    <2>1. ASSUME NEW s \in SUBSET D
          PROVE  g[s] = IF s = {} THEN 0 ELSE LET x == CHOOSE y \in s : TRUE IN r[x].length + g[s \ {x}]
      <3>1. s # {} => (CHOOSE y \in s : TRUE) \in s
        OBVIOUS
      <3> HIDE DEF g
      <3> QED
        BY <1>3, <1>4, <3>1 DEF l
    <2>2. g = [s \in SUBSET D |-> g[s]]
      OBVIOUS
    <2> HIDE DEF g
    <2> QED
      BY <2>1, <2>2
  <1>8. iter = F(iter)
    BY <1>7
  <1> HIDE DEF g, iter
  <1>9. ASSUME NEW s \in SUBSET D, s # {}
        PROVE  \E x \in s : iter[s] = l(x) + iter[s \ {x}]
    <2> DEFINE x == CHOOSE y \in s : TRUE
    <2>1. x \in s
      BY <1>9
    <2>2. iter[s] = r[x].length + iter[s \ {x}]
      BY <1>8, <1>9
    <2> HIDE DEF x
    <2> QED
      BY <2>1, <2>2 DEF l
  <1>10. iter[{}] = 0
    BY <1>8
  <1>11. PICK a \in D : iter[D] = l(a) + iter[D \ {a}]
    BY <1>1, <1>9
  <1> DEFINE A == D \ {a}
  <1>12. A \in SUBSET D /\ A # {}
    BY <1>1
  <1> HIDE DEF A
  <1>13. PICK b \in A : iter[A] = l(b) + iter[A \ {b}]
    BY <1>9, <1>12
  <1> DEFINE B == A \ {b}
  <1>14. B \in SUBSET D /\ B # {}
    BY <1>1, <1>12 DEF A
  <1> HIDE DEF B
  <1>15. PICK c \in B : iter[B] = l(c) + iter[B \ {c}]
    BY <1>9, <1>14
  <1> DEFINE C == B \ {c}
  <1>18. C \in SUBSET D /\ C # {}
    BY <1>1, <1>14 DEF A, B
  <1> HIDE DEF C
  <1>19. PICK d \in C : iter[C] = l(d) + iter[C \ {d}]
    BY <1>9, <1>18
  <1>20. /\ a \in {1, 2, 3, 4} /\ b \in {1, 2, 3, 4} /\ c \in {1, 2, 3, 4} /\ d \in {1, 2, 3, 4}
         /\ a # b /\ a # c /\ a # d /\ b # c /\ b # d /\ c # d
    <2>1. a \in D /\ b \in D /\ c \in D /\ d \in D
      BY <1>12, <1>14, <1>18
    <2>2. b # a /\ c # b /\ d # c
      BY DEF A, B, C
    <2>3. c \in A /\ d \in B
      BY DEF B, C
    <2>4. d \in A
      BY <2>3 DEF B
    <2>5. c # a /\ d # a /\ d # b
      BY <2>3, <2>4 DEF A, B
    <2> QED
      BY <1>1, <2>1, <2>2, <2>5
  <1>21. C \ {d} = {}
    <2>1. \A x \in C : x \in D /\ x # a /\ x # b /\ x # c
      BY <1>18 DEF A, B, C
    <2> QED
      BY <1>1, <1>20, <2>1
  <1>16. iter[D] = l(1) + l(2) + l(3) + l(4)
    <2>1. iter[D] = l(a) + (l(b) + (l(c) + (l(d) + 0)))
      BY <1>10, <1>11, <1>13, <1>15, <1>19, <1>21 DEF A, B, C
    <2>3. l(1) \in Nat /\ l(2) \in Nat /\ l(3) \in Nat /\ l(4) \in Nat
      BY <1>1, <1>2
    <2> QED
      BY <1>20, <2>1, <2>3
  <1>17. TotalLength(r) = iter[D]
    BY Zenon DEF TotalLength, FoldSeq, FoldFunction, FoldFunctionOnSet, MapThenFoldSet, iter, D
  <1> QED
    BY <1>16, <1>17 DEF l

\* Short sequences put together.
LEMMA TwoAndTwo ==
  ASSUME NEW a, NEW b, NEW c, NEW d
  PROVE  <<a, b>> \o <<c, d>> = <<a, b, c, d>>
  <1> DEFINE S == {a, b, c, d}
             x == <<a, b>>
             y == <<c, d>>
             z == <<a, b, c, d>>
  <1>1. x \in Seq(S) /\ Len(x) = 2 /\ x[1] = a /\ x[2] = b
    OBVIOUS
  <1>2. y \in Seq(S) /\ Len(y) = 2 /\ y[1] = c /\ y[2] = d
    OBVIOUS
  <1>3. z \in Seq(S) /\ Len(z) = 4 /\ z[1] = a /\ z[2] = b /\ z[3] = c /\ z[4] = d
    OBVIOUS
  <1> HIDE DEF S, x, y, z
  <1>4. /\ x \o y \in Seq(S) /\ Len(x \o y) = Len(x) + Len(y)
        /\ \A i \in 1 .. Len(x) + Len(y) : (x \o y)[i] = IF i <= Len(x) THEN x[i] ELSE y[i - Len(x)]
    BY <1>1, <1>2, ConcatProperties
  <1>5. \A i \in 1 .. 4 : (x \o y)[i] = z[i]
    BY <1>1, <1>2, <1>3, <1>4
  <1>6. x \o y = z
    BY <1>1, <1>2, <1>3, <1>4, <1>5, SeqEqual
  <1> QED
    BY <1>6 DEF x, y, z

LEMMA OneAndFour ==
  ASSUME NEW o, NEW a, NEW b, NEW c, NEW d
  PROVE  <<o>> \o <<a, b, c, d>> = <<o, a, b, c, d>>
  <1> DEFINE S == {o, a, b, c, d}
             x == <<o>>
             y == <<a, b, c, d>>
             z == <<o, a, b, c, d>>
  <1>1. x \in Seq(S) /\ Len(x) = 1 /\ x[1] = o
    OBVIOUS
  <1>2. y \in Seq(S) /\ Len(y) = 4 /\ y[1] = a /\ y[2] = b /\ y[3] = c /\ y[4] = d
    OBVIOUS
  <1>3. z \in Seq(S) /\ Len(z) = 5 /\ z[1] = o /\ z[2] = a /\ z[3] = b /\ z[4] = c /\ z[5] = d
    OBVIOUS
  <1> HIDE DEF S, x, y, z
  <1>4. /\ x \o y \in Seq(S) /\ Len(x \o y) = Len(x) + Len(y)
        /\ \A i \in 1 .. Len(x) + Len(y) : (x \o y)[i] = IF i <= Len(x) THEN x[i] ELSE y[i - Len(x)]
    BY <1>1, <1>2, ConcatProperties
  <1>5. \A i \in 1 .. 5 : (x \o y)[i] = z[i]
    BY <1>1, <1>2, <1>3, <1>4
  <1>6. x \o y = z
    <2>1. Len(x \o y) = 5
      BY <1>1, <1>2, <1>4
    <2> QED
      BY <1>3, <1>4, <1>5, <2>1, SeqEqual
  <1> QED
    BY <1>6 DEF x, y, z

\* The configuration says how long it is with all that belongs to it.
LEMMA ConfigurationIs ==
  /\ Configuration \in Seq({Configuration[i] : i \in 1 .. 5}) /\ Len(Configuration) = 5
  /\ Configuration[1] = [type |-> CONFIGURATION, length |-> 9, wTotalLength |-> 41, strings |-> <<4>>]
  /\ Configuration[2] = InterfaceDescriptor /\ Configuration[3] = HIDDescriptor
  <1> DEFINE rest == <<InterfaceDescriptor, HIDDescriptor>> \o EndpointDescriptors
             at(address) == [type |-> ENDPOINT, length |-> 7, address |-> address, packet |-> 64]
             one == [type |-> CONFIGURATION, length |-> 9, wTotalLength |-> 9 + TotalLength(rest), strings |-> <<4>>]
  <1>1. EndpointDescriptors = <<at(129), at(2)>>
    BY DEF EndpointDescriptors
  <1>2. rest = <<InterfaceDescriptor, HIDDescriptor, at(129), at(2)>>
    BY <1>1, TwoAndTwo, Zenon
  <1>3. DOMAIN rest = 1 .. 4
    BY <1>2
  <1>4. rest[1].length = 9 /\ rest[2].length = 9 /\ rest[3].length = 7 /\ rest[4].length = 7
    <2> DEFINE a == at(129)
               b == at(2)
    <2>1. a.length = 7 /\ b.length = 7 /\ InterfaceDescriptor.length = 9 /\ HIDDescriptor.length = 9
      BY DEF InterfaceDescriptor, HIDDescriptor
    <2>2. rest = <<InterfaceDescriptor, HIDDescriptor, a, b>>
      BY <1>2
    <2> HIDE DEF a, b, rest, at
    <2> QED
      BY <2>1, <2>2
  <1>5. TotalLength(rest) = 32
    <2> HIDE DEF rest
    <2>1. \A i \in 1 .. 4 : rest[i].length \in Nat
      BY <1>4
    <2>2. TotalLength(rest) = rest[1].length + rest[2].length + rest[3].length + rest[4].length
      BY <1>3, <2>1, LengthOfFour
    <2> QED
      BY <1>4, <2>2
  <1>6. Configuration = <<one>> \o rest
    BY DEF Configuration
  <1>7. Configuration = <<one, InterfaceDescriptor, HIDDescriptor, at(129), at(2)>>
    <2> HIDE DEF one, at
    <2> QED
      BY <1>2, <1>6, OneAndFour, Zenon
  <1>8. one = [type |-> CONFIGURATION, length |-> 9, wTotalLength |-> 41, strings |-> <<4>>]
    <2> HIDE DEF rest
    <2> QED
      BY <1>5
  <1> DEFINE x == at(129)
             y == at(2)
  <1> HIDE DEF one, at, rest, x, y
  <1>9. Configuration = <<one, InterfaceDescriptor, HIDDescriptor, x, y>>
    BY <1>7 DEF x, y
  <1>10. /\ Configuration[1] = one
         /\ Configuration[2] = InterfaceDescriptor /\ Configuration[3] = HIDDescriptor
         /\ Len(Configuration) = 5
    BY <1>9
  <1>11. Configuration \in Seq({Configuration[i] : i \in 1 .. 5})
    <2> DEFINE T == {Configuration[i] : i \in 1 .. 5}
    <2>1. Configuration[4] = x /\ Configuration[5] = y
      BY <1>9
    <2>2. one \in T /\ InterfaceDescriptor \in T /\ HIDDescriptor \in T /\ x \in T /\ y \in T
      BY <1>10, <2>1
    <2> HIDE DEF T
    <2>3. Configuration \in Seq(T)
      BY <1>9, <2>2
    <2> QED
      BY <2>3 DEF T
  <1> QED
    BY <1>8, <1>10, <1>11

\* What the host gets is the beginning of what the device answers.
LEMMA CopiedPrefix ==
  ASSUME NEW S, NEW answer \in Seq(S), NEW wLength \in Nat
  PROVE  \E n \in 0 .. Len(answer) : Copied(answer, wLength) = SubSeq(answer, 1, n)
  <1> DEFINE l == Len(answer)
             fits == {n \in 0 .. l : TotalLength(SubSeq(answer, 1, n)) <= wLength}
             far == {k \in 0 .. l : l - k \in fits}
             most == CHOOSE n \in fits : \A m \in fits : m <= n
  <1>1. l \in Nat
    OBVIOUS
  <1>2. 0 \in fits
    <2>1. \A i \in 1 .. 0 : answer[i] \in S
      OBVIOUS
    <2>2. SubSeq(answer, 1, 0) \in Seq(S) /\ Len(SubSeq(answer, 1, 0)) = 0
      BY <2>1, SubSeqProperties
    <2>3. SubSeq(answer, 1, 0) = <<>>
      BY <2>2, EmptySeq
    <2>4. TotalLength(SubSeq(answer, 1, 0)) = 0
      BY <2>3, NoLength, Zenon
    <2>5. TotalLength(SubSeq(answer, 1, 0)) <= wLength
      BY <2>4
    <2> QED
      BY <1>1, <2>5
  <1>3. \A n \in fits : n \in 0 .. l
    OBVIOUS
  <1>4. Copied(answer, wLength) = SubSeq(answer, 1, most)
    BY DEF Copied
  <1> HIDE DEF l, fits
  <1>5. l \in far /\ far \in SUBSET Nat
    BY <1>1, <1>2
  <1>6. PICK k \in far : \A j \in far : k <= j
    BY <1>5, Least
  <1>7. l - k \in fits /\ \A m \in fits : m <= l - k
    <2>1. l - k \in fits /\ k \in 0 .. l
      BY <1>6
    <2>2. ASSUME NEW m \in fits PROVE m <= l - k
      <3>1. m \in 0 .. l /\ l - m \in 0 .. l /\ l - (l - m) = m
        BY <1>1, <1>3
      <3>2. l - m \in far
        BY <3>1
      <3>3. k <= l - m
        BY <1>6, <3>2
      <3> QED
        BY <1>1, <2>1, <3>1, <3>3
    <2> QED
      BY <2>1, <2>2
  <1>8. most \in fits
    BY <1>7
  <1> QED
    BY <1>3, <1>4, <1>8 DEF l

\* What the device answers to what the host can ask for.
Answers ==
  {<<>>, <<DeviceDescriptor>>, Configuration, <<HIDReport>>} \union {<<StringDescriptors[index]>> : index \in 0 .. 5}

\* The device answers every request of the enumeration.
LEMMA AsksServed ==
  ASSUME NEW setup \in Asks
  PROVE  handleControlMessage(setup) \in Answers /\ setup.wLength \in Nat
  <1> USE DEF handleControlMessage, handleDeviceRequest, handleInterfaceRequest, getDescriptor, recipient,
              DescriptorType, DescriptorIndex, Descriptor, Setup, ToDevice, ToInterface, GET_STATUS, GET_DESCRIPTOR,
              SET_CONFIGURATION, SET_IDLE, SET_PROTOCOL, DEVICE, CONFIGURATION, STRING_DESCRIPTOR, HID_REPORT
  <1>1. CASE setup = Descriptor(ToDevice, DEVICE, 0, 18)
    BY <1>1 DEF Answers
  <1>2. CASE setup = Descriptor(ToDevice, CONFIGURATION, 0, 9)
    BY <1>2 DEF Answers
  <1>3. CASE setup = Descriptor(ToDevice, CONFIGURATION, 0, 41)
    BY <1>3 DEF Answers
  <1>4. CASE setup = Setup(ToDevice, SET_CONFIGURATION, 0, 0)
    BY <1>4 DEF Answers
  <1>5. CASE setup = Setup(128 + ToDevice, GET_STATUS, 0, 2)
    BY <1>5 DEF Answers
  <1>6. CASE setup = Setup(32 + ToInterface, SET_IDLE, 0, 0)
    BY <1>6 DEF Answers
  <1>7. CASE setup = Descriptor(ToInterface, HID_REPORT, 0, 30)
    BY <1>7 DEF Answers
  <1>8. ASSUME NEW index \in 0 .. 5, setup = Descriptor(ToDevice, STRING_DESCRIPTOR, index, 255)
        PROVE  handleControlMessage(setup) \in Answers /\ setup.wLength \in Nat
    <2>1. DOMAIN StringDescriptors = 0 .. 5
      BY DEF StringDescriptors
    <2>2. (256 * 3 + index) \div 256 = 3 /\ (256 * 3 + index) % 256 = index
      OBVIOUS
    <2>3. setup.wValue = 256 * 3 + index /\ setup.bmRequestType = 128 /\ setup.bRequest = 6 /\ setup.wLength = 255
      BY <1>8
    <2>4. recipient(setup) = ToDevice
      BY <2>3
    <2>5. handleControlMessage(setup) = getDescriptor(3, index)
      BY <2>2, <2>3, <2>4
    <2>6. getDescriptor(3, index) = <<StringDescriptors[index]>>
      BY <2>1
    <2> QED
      BY <2>3, <2>5, <2>6 DEF Answers
  <1> QED
    BY <1>1, <1>2, <1>3, <1>4, <1>5, <1>6, <1>7, <1>8 DEF Asks

\* No such answer is a panic.
LEMMA AnswersNoPanic ==
  ASSUME NEW answer \in Answers
  PROVE  answer # Panic
  <1>1. Len(Panic) = 1 /\ Panic[1].type = 0
    BY DEF Panic
  <1>2. CASE answer = <<>>
    <2>1. Panic # <<>>
      BY DEF Panic
    <2> QED
      BY <1>2, <2>1
  <1>3. CASE answer = <<DeviceDescriptor>>
    BY <1>1, <1>3 DEF DeviceDescriptor, DEVICE
  <1>4. CASE answer = Configuration
    <2>1. Len(Configuration) = 5
      BY ConfigurationIs
    <2> QED
      BY <1>1, <1>4, <2>1
  <1>5. CASE answer = <<HIDReport>>
    BY <1>1, <1>5 DEF HIDReport, HID_REPORT
  <1>6. ASSUME NEW index \in 0 .. 5, answer = <<StringDescriptors[index]>> PROVE answer # Panic
    BY <1>1, <1>6 DEF StringDescriptors, STRING_DESCRIPTOR
  <1> QED
    BY <1>2, <1>3, <1>4, <1>5, <1>6 DEF Answers

\* The strings a descriptor names are there to be asked for.
LEMMA StringsAsked ==
  ASSUME NEW d, NEW n \in Nat, DOMAIN d.strings = 1 .. n, \A k \in 1 .. n : d.strings[k] \in 0 .. 5
  PROVE  Strings(d) \in Seq(Asks)
  <1>1. ASSUME NEW k \in 1 .. n PROVE Descriptor(ToDevice, STRING_DESCRIPTOR, d.strings[k], 255) \in Asks
    BY <1>1 DEF Asks
  <1>2. Strings(d) = [k \in 1 .. n |-> Descriptor(ToDevice, STRING_DESCRIPTOR, d.strings[k], 255)]
    BY DEF Strings
  <1>3. Strings(d) \in [1 .. n -> Asks]
    BY <1>1, <1>2
  <1> QED
    BY <1>3, SeqDef

\* What the host asks for next, one kind of descriptor at a time.
LEMMA FollowUpsOfNothing == FollowUps(<<>>) = <<>>
  BY Zenon DEF FollowUps

LEMMA FollowUpsOfDevice ==
  ASSUME NEW got, got # <<>>, got[1].type = DEVICE
  PROVE  FollowUps(got) = (IF got[1].bcdUSB >= 512 THEN <<Descriptor(ToDevice, 6, 0, 10)>> ELSE <<>>)
           \o <<Descriptor(ToDevice, CONFIGURATION, 0, 9), Descriptor(ToDevice, STRING_DESCRIPTOR, 0, 255)>> \o Strings(got[1])
  <1>1. got[1].type # CONFIGURATION
    BY DEF DEVICE, CONFIGURATION
  <1> QED
    BY <1>1, Zenon DEF FollowUps

LEMMA FollowUpsOfHead ==
  ASSUME NEW got, got # <<>>, got[1].type = CONFIGURATION, Len(got) = 1
  PROVE  FollowUps(got) = <<Descriptor(ToDevice, CONFIGURATION, 0, got[1].wTotalLength)>>
  <1>1. got[1].type # DEVICE /\ ~(Len(got) > 1)
    BY DEF DEVICE, CONFIGURATION
  <1> QED
    BY <1>1, Zenon DEF FollowUps

LEMMA FollowUpsOfAll ==
  ASSUME NEW got, got # <<>>, got[1].type = CONFIGURATION, Len(got) # 1, Len(got) > 1
  PROVE  FollowUps(got) = <<Setup(ToDevice, SET_CONFIGURATION, 0, 0)>> \o Strings(got[1]) \o Strings(got[2])
           \o <<Setup(128 + ToDevice, GET_STATUS, 0, 2), Setup(32 + ToInterface, SET_IDLE, 0, 0)>>
           \o (IF Len(got) > 2 THEN <<Descriptor(ToInterface, HID_REPORT, 0, got[3].reportLength)>> ELSE <<>>)
  <1>1. got[1].type # DEVICE
    BY DEF DEVICE, CONFIGURATION
  <1> QED
    BY <1>1, Zenon DEF FollowUps

LEMMA FollowUpsOfOther ==
  ASSUME NEW got, got # <<>>, got[1].type \notin {DEVICE, CONFIGURATION}
  PROVE  FollowUps(got) = <<>>
  BY Zenon DEF FollowUps

\* Nothing the host gets makes it ask for what the device does not serve.
LEMMA FollowUpsAsked ==
  ASSUME NEW answer \in Answers, NEW n \in 0 .. Len(answer)
  PROVE  FollowUps(SubSeq(answer, 1, n)) \in Seq(Asks)
  <1> DEFINE got == SubSeq(answer, 1, n)
  <1>1. <<>> \in Seq(Asks) /\ FollowUps(<<>>) = <<>>
    BY EmptySeq, FollowUpsOfNothing
  <1>2. ASSUME NEW d, answer = <<d>> PROVE got = <<>> \/ got = <<d>>
    <2>1. Len(answer) = 1 /\ answer \in Seq({d})
      BY <1>2
    <2>2. n = 0 \/ n = 1
      BY <2>1
    <2>3. SubSeq(answer, 1, 0) = <<>> /\ SubSeq(answer, 1, 1) = answer
      BY <2>1, SubSeqEmpty, SubSeqFull
    <2> QED
      BY <1>2, <2>2, <2>3
  <1> SUFFICES FollowUps(got) \in Seq(Asks)
    OBVIOUS
  <1> HIDE DEF got
  <1>3. ASSUME NEW d, d.type \notin {DEVICE, CONFIGURATION}, answer = <<d>>
        PROVE  FollowUps(got) \in Seq(Asks)
    <2>1. CASE got = <<>>
      BY <1>1, <2>1
    <2>2. CASE got = <<d>>
      <3>1. got # <<>> /\ got[1] = d
        BY <2>2
      <3>2. FollowUps(got) = <<>>
        BY <1>3, <3>1, FollowUpsOfOther
      <3> QED
        BY <1>1, <3>2
    <2> QED
      BY <1>2, <1>3, <2>1, <2>2
  <1>4. CASE answer = <<DeviceDescriptor>>
    <2>1. CASE got = <<>>
      BY <1>1, <2>1
    <2>2. CASE got = <<DeviceDescriptor>>
      <3> DEFINE d == DeviceDescriptor
      <3>1. d.type = DEVICE /\ d.bcdUSB = 272 /\ DOMAIN d.strings = 1 .. 3 /\ \A k \in 1 .. 3 : d.strings[k] \in 0 .. 5
        BY DEF DeviceDescriptor
      <3> HIDE DEF d
      <3>2. Strings(d) \in Seq(Asks)
        <4>1. 3 \in Nat /\ DOMAIN d.strings = 1 .. 3 /\ \A k \in 1 .. 3 : d.strings[k] \in 0 .. 5
          BY <3>1
        <4> QED
          BY <4>1, StringsAsked, Zenon
      <3> DEFINE a == Descriptor(ToDevice, CONFIGURATION, 0, 9)
                 b == Descriptor(ToDevice, STRING_DESCRIPTOR, 0, 255)
      <3>3. a \in Asks /\ b \in Asks
        BY DEF Asks
      <3>4. got # <<>> /\ got[1] = d
        BY <2>2 DEF d
      <3>9. got[1].type = DEVICE
        BY <3>1, <3>4
      <3>5. FollowUps(got) = (IF d.bcdUSB >= 512 THEN <<Descriptor(ToDevice, 6, 0, 10)>> ELSE <<>>) \o <<a, b>> \o Strings(d)
        BY <3>4, <3>9, FollowUpsOfDevice, Zenon
      <3> HIDE DEF a, b
      <3>6. ~(d.bcdUSB >= 512)
        BY <3>1
      <3>7. FollowUps(got) = <<>> \o <<a, b>> \o Strings(d)
        BY <3>5, <3>6, Zenon
      <3>8. <<>> \o <<a, b>> \in Seq(Asks)
        BY <1>1, <3>3, ConcatProperties
      <3> QED
        BY <3>2, <3>7, <3>8, ConcatProperties
    <2> QED
      BY <1>2, <1>4, <2>1, <2>2
  <1>5. CASE answer = Configuration
    <2> DEFINE S == {Configuration[i] : i \in 1 .. 5}
               c == Configuration
               a == Descriptor(ToDevice, CONFIGURATION, 0, 41)
               b == Setup(ToDevice, SET_CONFIGURATION, 0, 0)
               e == Setup(128 + ToDevice, GET_STATUS, 0, 2)
               f == Setup(32 + ToInterface, SET_IDLE, 0, 0)
               h == Descriptor(ToInterface, HID_REPORT, 0, 30)
    <2>1. c \in Seq(S) /\ Len(c) = 5 /\ n \in 0 .. 5
      BY <1>5, ConfigurationIs
    <2>2. a \in Asks /\ b \in Asks /\ e \in Asks /\ f \in Asks /\ h \in Asks
      BY DEF Asks
    <2>3. /\ c[1].type = CONFIGURATION /\ c[1].wTotalLength = 41 /\ c[3].reportLength = 30
          /\ Strings(c[1]) \in Seq(Asks) /\ Strings(c[2]) \in Seq(Asks)
      <3>1. c[1] = [type |-> CONFIGURATION, length |-> 9, wTotalLength |-> 41, strings |-> <<4>>]
            /\ c[2] = InterfaceDescriptor /\ c[3] = HIDDescriptor
        BY ConfigurationIs
      <3> HIDE DEF c
      <3>2. DOMAIN c[1].strings = 1 .. 1 /\ \A k \in 1 .. 1 : c[1].strings[k] \in 0 .. 5
        BY <3>1
      <3>3. DOMAIN c[2].strings = 1 .. 1 /\ \A k \in 1 .. 1 : c[2].strings[k] \in 0 .. 5
        BY <3>1 DEF InterfaceDescriptor
      <3>4. Strings(c[1]) \in Seq(Asks) /\ Strings(c[2]) \in Seq(Asks)
        BY <3>2, <3>3, StringsAsked
      <3>5. c[1].type = CONFIGURATION /\ c[1].wTotalLength = 41 /\ c[3].reportLength = 30
        BY <3>1 DEF HIDDescriptor, HIDReport
      <3> QED
        BY <3>4, <3>5
    <2>4. CONFIGURATION # DEVICE
      BY DEF CONFIGURATION, DEVICE
    <2>5. got = SubSeq(c, 1, n)
      BY <1>5 DEF got
    <2> HIDE DEF S, c, a, b, e, f, h
    <2>6. CASE n = 0
      <3>1. got = <<>>
        BY <2>5, <2>6, SubSeqEmpty
      <3> QED
        BY <1>1, <3>1
    <2>7. n # 0 => /\ Len(got) = n /\ got # <<>> /\ got[1] = c[1]
                   /\ n >= 2 => got[2] = c[2]
                   /\ n >= 3 => got[3] = c[3]
      <3>0. \A i \in 1 .. 5 : c[i] \in S
        BY <2>1, ElementOfSeq
      <3>1. 1 \in Int /\ n \in Int /\ \A i \in 1 .. n : c[i] \in S
        BY <2>1, <3>0
      <3>2. /\ SubSeq(c, 1, n) \in Seq(S) /\ Len(SubSeq(c, 1, n)) = IF 1 <= n THEN n - 1 + 1 ELSE 0
            /\ \A i \in 1 .. n - 1 + 1 : SubSeq(c, 1, n)[i] = c[1 + i - 1]
        BY <3>1, SubSeqProperties
      <3>3. Len(got) = n /\ got \in Seq(S) /\ \A i \in 1 .. n : got[i] = c[i]
        BY <2>1, <2>5, <3>2
      <3>4. n # 0 => got # <<>>
        BY <3>3, EmptySeq
      <3> QED
        BY <2>1, <3>3, <3>4
    <2>8. CASE n = 1
      <3>1. FollowUps(got) = <<Descriptor(ToDevice, CONFIGURATION, 0, 41)>>
        <4>1. got # <<>> /\ got[1] = c[1] /\ Len(got) = 1
          BY <2>7, <2>8
        <4>2. got[1].type = CONFIGURATION /\ got[1].wTotalLength = 41
          BY <2>3, <4>1
        <4> QED
          BY <4>1, <4>2, FollowUpsOfHead, Zenon
      <3> QED
        BY <2>2, <3>1 DEF a
    <2>9. CASE n >= 2
      <3> DEFINE last == IF n > 2 THEN <<h>> ELSE <<>>
      <3>1. FollowUps(got) = <<b>> \o Strings(c[1]) \o Strings(c[2]) \o <<e, f>> \o last
        <4>1. got # <<>> /\ got[1] = c[1] /\ Len(got) = n /\ got[2] = c[2]
          BY <2>1, <2>7, <2>9
        <4>2. got[1].type = CONFIGURATION /\ Len(got) # 1 /\ Len(got) > 1
          BY <2>1, <2>3, <2>9, <4>1
        <4>3. FollowUps(got) = <<Setup(ToDevice, SET_CONFIGURATION, 0, 0)>> \o Strings(got[1]) \o Strings(got[2])
                 \o <<Setup(128 + ToDevice, GET_STATUS, 0, 2), Setup(32 + ToInterface, SET_IDLE, 0, 0)>>
                 \o (IF Len(got) > 2 THEN <<Descriptor(ToInterface, HID_REPORT, 0, got[3].reportLength)>> ELSE <<>>)
          BY <4>1, <4>2, FollowUpsOfAll, Zenon
        <4>4. (IF Len(got) > 2 THEN <<Descriptor(ToInterface, HID_REPORT, 0, got[3].reportLength)>> ELSE <<>>) = last
          <5>1. CASE n > 2
            <6>1. got[3].reportLength = 30 /\ Len(got) > 2
              BY <2>1, <2>3, <2>7, <4>1, <5>1
            <6> QED
              BY <5>1, <6>1 DEF h
          <5>2. CASE ~(n > 2)
            BY <4>1, <5>2
          <5> QED
            BY <5>1, <5>2
        <4> HIDE DEF last
        <4> QED
          BY <4>1, <4>3, <4>4, Zenon DEF b, e, f
      <3>2. <<b>> \in Seq(Asks) /\ <<e, f>> \in Seq(Asks) /\ last \in Seq(Asks)
        BY <1>1, <2>2
      <3> HIDE DEF last
      <3>3. <<b>> \o Strings(c[1]) \in Seq(Asks)
        BY <2>3, <3>2, ConcatProperties
      <3>4. <<b>> \o Strings(c[1]) \o Strings(c[2]) \in Seq(Asks)
        BY <2>3, <3>3, ConcatProperties
      <3>5. <<b>> \o Strings(c[1]) \o Strings(c[2]) \o <<e, f>> \in Seq(Asks)
        BY <3>2, <3>4, ConcatProperties
      <3> QED
        BY <3>1, <3>2, <3>5, ConcatProperties
    <2> QED
      BY <2>1, <2>6, <2>8, <2>9
  <1>6. CASE answer = <<>>
    <2>1. Len(answer) = 0
      BY <1>6, EmptySeq
    <2>2. got = <<>>
      BY <1>6, <2>1, SubSeqEmpty DEF got
    <2> QED
      BY <1>1, <2>2
  <1>7. CASE answer = <<HIDReport>>
    <2>1. HIDReport.type \notin {DEVICE, CONFIGURATION}
      BY DEF HIDReport, HID_REPORT, DEVICE, CONFIGURATION
    <2> QED
      BY <1>3, <1>7, <2>1
  <1>8. ASSUME NEW index \in 0 .. 5, answer = <<StringDescriptors[index]>>
        PROVE  FollowUps(got) \in Seq(Asks)
    <2>1. StringDescriptors[index].type \notin {DEVICE, CONFIGURATION}
      BY DEF StringDescriptors, STRING_DESCRIPTOR, DEVICE, CONFIGURATION
    <2> QED
      BY <1>3, <1>8, <2>1
  <1> QED
    BY <1>4, <1>5, <1>6, <1>7, <1>8 DEF Answers, got

-----------------------------------------------------------------------------
(* The session. *)

PacketUnits == [unit : {"data"}, of : Nat, at : Nat] \union [unit : {"first", "next", "error"}, n : Nat]
OutHeader   == Submit(InputEndpoint, NoSetup, ReportSize)
Asking      == {Submit(ControlEndpoint, setup, 0) : setup \in Asks}
StreamUnits == PacketUnits \union {OutHeader} \union Asking

Carriage ==
  /\ stream \in Seq(StreamUnits)
  /\ arrived \in 0 .. Len(stream)
  /\ packets \in Seq(Seq(PacketUnits))
  /\ pings \in Seq(0 .. MaxPayload)
  /\ short \in BOOLEAN

\* During the enumeration one control transfer is on its way at most.
Enumerating ==
  IF host = "enumerating"
  THEN /\ todo \in Seq(Asks)
       /\ stream = <<>> \/ (todo # <<>> /\ stream = <<Submit(ControlEndpoint, Head(todo), 0)>>)
       /\ server = "command" /\ packets = <<>> /\ transaction = Nothing /\ reports = <<>> /\ heard = Nothing
       /\ pings = <<>> /\ pongs = <<>> /\ ~short
  ELSE server # "ended" /\ stream \in Seq(PacketUnits \union {OutHeader})

Rest(payload, j) == SubSeq(Cut(payload), j + 1, Len(Cut(payload)))

\* Of a message j packets have been sent, the last of which may be on its way.
Outward(payload, j) ==
  /\ j \in 0 .. Parts(Len(payload))
  /\ packets = Rest(payload, j) /\ reports = <<>> /\ heard = Nothing
  /\ \/ j < Parts(Len(payload)) /\ server = "command" /\ stream = <<>> /\ transaction = After(payload, j)
     \/ /\ j >= 1 /\ transaction = After(payload, j - 1)
        /\ \/ server = "command" /\ stream = <<OutHeader>> \o Cut(payload)[j]
           \/ server = "buffer" /\ stream = Cut(payload)[j]

\* Of its answer j packets have been joined; an empty one has no packet.
Inward(payload, j) ==
  /\ packets = <<>> /\ stream = <<>> /\ server = "command" /\ transaction = Nothing
  /\ IF payload = <<>> THEN j = 0 /\ reports = <<>> /\ heard = Nothing
     ELSE j \in 0 .. Parts(Len(payload)) - 1 /\ reports = Rest(payload, j) /\ heard = After(payload, j)

UnderWay(payload) == \E j \in 0 .. Parts(Len(payload)) : Outward(payload, j) \/ Inward(payload, j)

Followed ==
  ~short /\ host # "enumerating" =>
    /\ pongs \in Seq(Seq(PacketUnits)) /\ \A k \in 1 .. Len(pongs) : pongs[k] = Ping(k)
    /\ IF host = "ready"
       THEN /\ Len(pongs) = Len(pings)
            /\ packets = <<>> /\ stream = <<>> /\ server = "command"
            /\ transaction = Nothing /\ reports = <<>> /\ heard = Nothing
       ELSE /\ host = "talking" /\ Len(pings) = Len(pongs) + 1
            /\ UnderWay(Ping(Len(pings)))

PathInv == Carriage /\ Enumerating /\ Followed

\* What may be in a packet, none of which passes for the header of a transfer.
LEMMA UnitsAre ==
  /\ Zero \in PacketUnits
  /\ \A n \in Nat : First(n) \in PacketUnits /\ Next_(n) \in PacketUnits
  /\ \A k, i \in Nat : Data(k, i) \in PacketUnits
  /\ \A u \in PacketUnits : u.unit # "submit"
  BY DEF PacketUnits, Zero, First, Next_, Data

\* The payload of a PING can be in a packet.
LEMMA PayloadIs ==
  ASSUME NEW k \in Nat, NEW n \in 0 .. MaxPayload
  PROVE  LET payload == [i \in 1 .. n |-> Data(k, i)] IN
         payload \in Seq(PacketUnits) /\ Len(payload) = n /\ Len(payload) <= MaxPayload
  <1> DEFINE payload == [i \in 1 .. n |-> Data(k, i)]
  <1>1. n \in Nat /\ n <= MaxPayload
    BY Sizes DEF MaxPayload
  <1>2. payload \in [1 .. n -> PacketUnits]
    BY <1>1, UnitsAre
  <1> HIDE DEF payload
  <1>3. payload \in Seq(PacketUnits) /\ Len(payload) = n
    BY <1>1, <1>2, SeqDef
  <1> QED
    BY <1>1, <1>3 DEF payload

\* The packets of a payload of the session.
LEMMA CutOf ==
  ASSUME NEW payload \in Seq(PacketUnits), Len(payload) <= MaxPayload
  PROVE  LET n == Len(payload)
             m == Parts(n)
             C == Cut(payload) IN
         /\ n \in Nat /\ m \in Nat /\ m >= 1 /\ m <= SeqLimit + 1
         /\ C \in Seq(Seq(PacketUnits)) /\ Len(C) = m
         /\ \A j \in 1 .. m :
              /\ C[j] \in Seq(PacketUnits) /\ Len(C[j]) = ReportSize
              /\ C[j][1] = IF j = 1 THEN First(n) ELSE Next_(j - 2)
              /\ End(j) \in Nat /\ End(j) > 0 /\ (j < m <=> End(j) < n)
         /\ Carried(C[1]) = Joined(payload, 1)
         /\ \A j \in 1 .. m - 1 : Joined(payload, j) \o Carried(C[j + 1]) = Joined(payload, j + 1)
         /\ SubSeq(Joined(payload, m), 1, n) = payload
  <1> DEFINE n == Len(payload)
             m == Parts(n)
             C == Cut(payload)
  <1>1. n \in 0 .. MaxPayload /\ n \in Nat
    BY Sizes DEF MaxPayload
  <1>2. Zero \in PacketUnits /\ First(n) \in PacketUnits /\ \A q \in 0 .. SeqLimit : Next_(q) \in PacketUnits
    BY <1>1, UnitsAre, Sizes
  <1>3. m \in 1 .. SeqLimit + 1 /\ \A j \in 1 .. m : j < m <=> End(j) < n
    BY <1>1, PartsSuffice
  <1>4. /\ Len(C) = m /\ C \in Seq(Seq(PacketUnits))
        /\ \A j \in 1 .. m : /\ C[j] \in Seq(PacketUnits) /\ Len(C[j]) = ReportSize
                             /\ C[j][1] = IF j = 1 THEN First(n) ELSE Next_(j - 2)
    BY <1>2, CutIs
  <1>5. /\ Carried(C[1]) = Joined(payload, 1)
        /\ \A j \in 1 .. m - 1 : Joined(payload, j) \o Carried(C[j + 1]) = Joined(payload, j + 1)
        /\ SubSeq(Joined(payload, m), 1, n) = payload
    BY <1>2, JoinsUp
  <1> HIDE DEF n, m, C
  <1>6. m \in Nat /\ m >= 1 /\ m <= SeqLimit + 1
    BY <1>3, Sizes
  <1>7. ASSUME NEW j \in 1 .. m PROVE End(j) \in Nat /\ End(j) > 0
    <2>1. j \in Nat /\ j >= 1
      BY <1>6
    <2>2. Start(j) \in Nat /\ End(j) = Start(j) + IF j = 1 THEN InitData ELSE ContData
      BY <2>1, StartIs
    <2> QED
      BY <2>2, Sizes
  <1> QED
    BY <1>1, <1>3, <1>4, <1>5, <1>6, <1>7 DEF n, m, C

\* The packets that are left, one after the other.
LEMMA RestIs ==
  ASSUME NEW payload \in Seq(PacketUnits), Len(payload) <= MaxPayload, NEW j \in 0 .. Parts(Len(payload))
  PROVE  /\ Rest(payload, j) \in Seq(Seq(PacketUnits))
         /\ j = 0 => Rest(payload, j) = Cut(payload)
         /\ j = Parts(Len(payload)) => Rest(payload, j) = <<>>
         /\ j < Parts(Len(payload)) => /\ Rest(payload, j) # <<>>
                                       /\ Head(Rest(payload, j)) = Cut(payload)[j + 1]
                                       /\ Tail(Rest(payload, j)) = Rest(payload, j + 1)
  <1> DEFINE m == Parts(Len(payload))
             C == Cut(payload)
             T == Seq(PacketUnits)
  <1>1. m \in Nat /\ m >= 1 /\ C \in Seq(T) /\ Len(C) = m
    BY CutOf
  <1>2. Rest(payload, j) = SubSeq(C, j + 1, m) /\ Rest(payload, j + 1) = SubSeq(C, j + 2, m)
    BY <1>1 DEF Rest
  <1>3. j \in 0 .. m
    OBVIOUS
  <1> HIDE DEF m, C, T
  <1>4. j + 1 \in Int /\ m \in Int /\ \A i \in j + 1 .. m : C[i] \in T
    <2>1. \A i \in 1 .. m : C[i] \in T
      BY <1>1, ElementOfSeq
    <2> QED
      BY <1>1, <1>3, <2>1
  <1>5. SubSeq(C, j + 1, m) \in Seq(T)
    BY <1>4, SubSeqProperties
  <1>6. j = 0 => SubSeq(C, j + 1, m) = C
    BY <1>1, SubSeqFull
  <1>7. j = m => SubSeq(C, j + 1, m) = <<>>
    BY <1>4, <1>1, SubSeqEmpty
  <1>8. ASSUME j < m
        PROVE  /\ SubSeq(C, j + 1, m) # <<>> /\ Head(SubSeq(C, j + 1, m)) = C[j + 1]
               /\ Tail(SubSeq(C, j + 1, m)) = SubSeq(C, j + 2, m)
    <2>1. j + 1 \in 1 .. Len(C) /\ m \in j + 1 .. Len(C) /\ (j + 1) + 1 = j + 2
      BY <1>1, <1>3, <1>8
    <2>2. Head(SubSeq(C, j + 1, m)) = C[j + 1] /\ Tail(SubSeq(C, j + 1, m)) = SubSeq(C, (j + 1) + 1, m)
      BY <1>1, <2>1, HeadTailOfSubSeq
    <2>3. Len(SubSeq(C, j + 1, m)) = m - (j + 1) + 1
      BY <1>1, <1>4, <2>1, SubSeqProperties
    <2>4. SubSeq(C, j + 1, m) # <<>>
      BY <1>1, <1>3, <1>8, <2>3, EmptySeq
    <2> QED
      BY <2>1, <2>2, <2>4
  <1> QED
    BY <1>2, <1>5, <1>6, <1>7, <1>8 DEF m, C, T

\* What joining one packet more does to a message.
LEMMA OneMore ==
  ASSUME NEW r \in [length : Nat, sequence : Nat, payload : Seq(PacketUnits)], NEW carried \in Seq(PacketUnits)
  PROVE  [r EXCEPT !.sequence = @ + 1, !.payload = @ \o carried]
           = [length |-> r.length, sequence |-> r.sequence + 1, payload |-> r.payload \o carried]
  <1> DEFINE x == r.sequence + 1
             y == r.payload \o carried
             q == [r EXCEPT !.sequence = x, !.payload = y]
  <1>1. x \in Nat /\ y \in Seq(PacketUnits)
    BY ConcatProperties
  <1>2. [r EXCEPT !.sequence = @ + 1, !.payload = @ \o carried] = q
    OBVIOUS
  <1> HIDE DEF x, y
  <1>3. q \in [length : Nat, sequence : Nat, payload : Seq(PacketUnits)]
    BY <1>1
  <1>4. q.length = r.length /\ q.sequence = x /\ q.payload = y
    OBVIOUS
  <1> HIDE DEF q
  <1>5. q = [length |-> q.length, sequence |-> q.sequence, payload |-> q.payload]
    BY <1>3
  <1> QED
    BY <1>2, <1>4, <1>5 DEF x, y

\* Once a packet has been joined there is a transaction.
LEMMA AfterIs ==
  ASSUME NEW payload \in Seq(PacketUnits), Len(payload) <= MaxPayload, NEW j \in 1 .. Parts(Len(payload))
  PROVE  /\ After(payload, j) # Nothing
         /\ After(payload, j) = [length |-> Len(payload), sequence |-> j - 1, payload |-> Joined(payload, j)]
         /\ Len(Joined(payload, j)) = End(j) /\ End(j) \in Nat
  <1>1. j \in Nat /\ j >= 1 /\ j # 0 /\ End(j) > 0
    BY CutOf
  <1>2. /\ Joined(payload, j) \in Seq(PacketUnits) /\ Len(Joined(payload, j)) = End(j) /\ End(j) \in Nat
    BY <1>1, JoinedIs, UnitsAre
  <1>3. Joined(payload, j) # <<>>
    BY <1>1, <1>2, EmptySeq
  <1>4. After(payload, j) = [length |-> Len(payload), sequence |-> j - 1, payload |-> Joined(payload, j)]
    BY <1>1 DEF After
  <1>5. After(payload, j).payload # Nothing.payload
    BY <1>3, <1>4 DEF Nothing
  <1> QED
    BY <1>2, <1>4, <1>5

\* Before the first packet there is none.
LEMMA NothingAfterNone ==
  ASSUME NEW payload
  PROVE  After(payload, 0) = Nothing
  BY DEF After

\* What the next packet of a payload does to what has been joined of it, in the
\* HID layer and in the host.
LEMMA NextPacket ==
  ASSUME NEW payload \in Seq(PacketUnits), Len(payload) <= MaxPayload, NEW j \in 1 .. Parts(Len(payload))
  PROVE  LET p == Cut(payload)[j]
             t == After(payload, j - 1) IN
         /\ IF j = 1
            THEN /\ t = Nothing /\ p[1].unit = "first"
                 /\ [length |-> p[1].n, sequence |-> 0, payload |-> Carried(p)] = After(payload, j)
            ELSE /\ t # Nothing /\ p[1].unit = "next" /\ p[1].n = t.sequence /\ p[1].n < SeqLimit
                 /\ [t EXCEPT !.sequence = @ + 1, !.payload = @ \o Carried(p)] = After(payload, j)
         /\ Len(After(payload, j).payload) >= After(payload, j).length <=> j = Parts(Len(payload))
         /\ After(payload, j).length = Len(payload) /\ After(payload, j).payload = Joined(payload, j)
  <1> DEFINE n == Len(payload)
             m == Parts(n)
             p == Cut(payload)[j]
             c == Carried(p)
             t == After(payload, j - 1)
             a == After(payload, j)
  <1>1. /\ n \in Nat /\ m \in Nat /\ m <= SeqLimit + 1
        /\ p \in Seq(PacketUnits) /\ Len(p) = ReportSize
        /\ p[1] = IF j = 1 THEN First(n) ELSE Next_(j - 2)
        /\ (j < m <=> End(j) < n)
        /\ j = 1 => c = Joined(payload, 1)
    BY CutOf
  <1>2. a = [length |-> n, sequence |-> j - 1, payload |-> Joined(payload, j)] /\ Len(Joined(payload, j)) = End(j) /\ End(j) \in Nat
    BY AfterIs
  <1>3. /\ Len(a.payload) >= a.length <=> j = m
        /\ a.length = n /\ a.payload = Joined(payload, j)
    <2>1. a.length = n /\ Len(a.payload) = End(j)
      BY <1>2
    <2>2. j \in Nat /\ j <= m
      BY <1>1
    <2> HIDE DEF a, m, n
    <2> QED
      BY <1>1, <1>2, <2>1, <2>2
  <1>4. CASE j = 1
    <2>1. t = Nothing
      BY <1>4, NothingAfterNone
    <2>2. p[1] = First(n)
      BY <1>1, <1>4
    <2> HIDE DEF p, c, n, a, t
    <2>3. p[1].unit = "first" /\ p[1].n = n
      BY <2>2 DEF First
    <2>4. [length |-> p[1].n, sequence |-> 0, payload |-> c] = [length |-> n, sequence |-> 0, payload |-> c]
      BY <2>3
    <2>5. a = [length |-> n, sequence |-> 0, payload |-> c]
      BY <1>1, <1>2, <1>4
    <2> QED
      BY <1>3, <1>4, <2>1, <2>3, <2>4, <2>5 DEF p, n, a, c, t
  <1>5. CASE j # 1
    <2> DEFINE k == j - 1
               b == Joined(payload, k)
    <2>1. k \in 1 .. m /\ k \in 1 .. m - 1 /\ k + 1 = j /\ k \in Nat /\ k - 1 \in Nat /\ k - 1 = j - 2 /\ k - 1 < SeqLimit
          /\ k >= 1
      <3>1. m \in Nat /\ m <= SeqLimit + 1 /\ j \in 1 .. m /\ j # 1
        BY <1>1, <1>5
      <3> HIDE DEF m, n, p, c, a
      <3> QED
        BY <3>1, Sizes
    <2> HIDE DEF k
    <2>2. t # Nothing /\ t = [length |-> n, sequence |-> k - 1, payload |-> b]
      <3>1. t = After(payload, k)
        BY DEF k
      <3> QED
        BY <2>1, <3>1, AfterIs
    <2>3. b \o c = Joined(payload, j)
      BY <2>1, CutOf
    <2>4. b \in Seq(PacketUnits) /\ c \in Seq(PacketUnits)
      BY <1>1, <2>1, JoinedIs, CarriedIs, UnitsAre
    <2>5. p[1] = Next_(k - 1)
      BY <1>1, <1>5, <2>1
    <2> HIDE DEF p, c, n, a, b, t
    <2>6. p[1].unit = "next" /\ p[1].n = k - 1
      BY <2>5 DEF Next_
    <2>7. p[1].n = t.sequence /\ p[1].n < SeqLimit
      BY <2>1, <2>2, <2>6
    <2>8. t \in [length : Nat, sequence : Nat, payload : Seq(PacketUnits)]
      BY <1>1, <2>1, <2>2, <2>4
    <2>9. [t EXCEPT !.sequence = @ + 1, !.payload = @ \o c]
            = [length |-> t.length, sequence |-> t.sequence + 1, payload |-> t.payload \o c]
      BY <2>4, <2>8, OneMore
    <2>10. t.length = n /\ t.sequence + 1 = j - 1 /\ t.payload \o c = Joined(payload, j)
      BY <2>1, <2>2, <2>3
    <2>11. [t EXCEPT !.sequence = @ + 1, !.payload = @ \o c] = a
      BY <1>2, <2>9, <2>10
    <2> QED
      BY <1>3, <1>5, <2>2, <2>6, <2>7, <2>11 DEF p, n, a, c, t
  <1> QED
    BY <1>4, <1>5

\* The HID layer takes the next packet and is done with the last one.
LEMMA PacketJoins ==
  ASSUME NEW payload \in Seq(PacketUnits), Len(payload) <= MaxPayload, NEW j \in 1 .. Parts(Len(payload)),
         transaction = After(payload, j - 1)
  PROVE  LET p == Cut(payload)[j] IN
         Joins(p) /\ Join(p) = After(payload, j) /\ (Complete(Join(p)) <=> j = Parts(Len(payload)))
  <1> DEFINE a == After(payload, j)
             p == Cut(payload)[j]
             t == After(payload, j - 1)
  <1>1. /\ IF j = 1
           THEN /\ t = Nothing /\ p[1].unit = "first"
                /\ [length |-> p[1].n, sequence |-> 0, payload |-> Carried(p)] = a
           ELSE /\ t # Nothing /\ p[1].unit = "next" /\ p[1].n = t.sequence /\ p[1].n < SeqLimit
                /\ [t EXCEPT !.sequence = @ + 1, !.payload = @ \o Carried(p)] = a
        /\ Len(a.payload) >= a.length <=> j = Parts(Len(payload))
    BY NextPacket, Zenon
  <1>0. transaction = t
    OBVIOUS
  <1> HIDE DEF a, p, t
  <1>2. Joins(p) /\ Join(p) = a
    BY <1>0, <1>1 DEF Joins, Join
  <1> QED
    BY <1>1, <1>2 DEF Complete, a, p

\* A report that is as long as the buffer fills it.
LEMMA FullRead ==
  ASSUME NEW p \in Seq(PacketUnits), Len(p) = ReportSize
  PROVE  Padded(SubSeq(p, 1, ReportSize), ReportSize) = p
  <1>1. SubSeq(p, 1, ReportSize) = p
    BY SubSeqFull
  <1>2. /\ Padded(p, ReportSize) \in Seq(PacketUnits) /\ Len(Padded(p, ReportSize)) = ReportSize
        /\ \A i \in 1 .. ReportSize : Padded(p, ReportSize)[i] = IF i <= Len(p) THEN p[i] ELSE Zero
    BY PaddedIs, UnitsAre, Sizes
  <1>3. Padded(p, ReportSize) = p
    BY <1>2, SeqEqual
  <1> QED
    BY <1>1, <1>3

-----------------------------------------------------------------------------
(* The invariant. *)

\* Every session begins so.
LEMMA PathInvInit == PathInit => PathInv
  <1> SUFFICES ASSUME PathInit PROVE PathInv
    OBVIOUS
  <1> USE DEF PathInit
  <1>0. short \in BOOLEAN
    OBVIOUS
  <1>1. Carriage
    <2>1. \A S : <<>> \in Seq(S)
      BY EmptySeq
    <2>2. arrived \in 0 .. Len(stream)
      BY EmptySeq
    <2> QED
      BY <1>0, <2>1, <2>2, Zenon DEF Carriage
  <1>2. Enumerating
    <2>1. Descriptor(ToDevice, DEVICE, 0, 18) \in Asks
      BY DEF Asks
    <2> QED
      BY <2>1 DEF Enumerating
  <1>3. Followed
    BY DEF Followed
  <1> QED
    BY <1>1, <1>2, <1>3 DEF PathInv

\* The headers of the two kinds of transfer are told apart.
LEMMA HeaderUnits ==
  /\ OutHeader.unit = "submit" /\ OutHeader.endpoint = InputEndpoint /\ OutHeader.endpoint # ControlEndpoint
  /\ \A setup : /\ Submit(ControlEndpoint, setup, 0).unit = "submit" /\ Submit(ControlEndpoint, setup, 0).setup = setup
                /\ Submit(ControlEndpoint, setup, 0).endpoint # InputEndpoint
  BY DEF OutHeader, Submit, InputEndpoint, ControlEndpoint

\* During the enumeration nothing but control transfers is on the stream.
LEMMA AskingStream ==
  ASSUME PathInv, host = "enumerating", stream # <<>>
  PROVE  /\ todo \in Seq(Asks) /\ todo # <<>> /\ Head(todo) \in Asks
         /\ stream = <<Submit(ControlEndpoint, Head(todo), 0)>> /\ Len(stream) = 1
         /\ stream[1] = Submit(ControlEndpoint, Head(todo), 0)
  <1>1. todo \in Seq(Asks) /\ todo # <<>> /\ stream = <<Submit(ControlEndpoint, Head(todo), 0)>>
    BY DEF PathInv, Enumerating
  <1>2. Head(todo) \in Asks
    BY <1>1, HeadTailProperties
  <1> QED
    BY <1>1, <1>2

\* What is on its way when no Read has been short.
LEMMA TalkingStep ==
  ASSUME PathInv, ~short, host # "enumerating"
  PROVE  \/ /\ host = "ready" /\ Len(pongs) = Len(pings) /\ packets = <<>> /\ stream = <<>> /\ server = "command"
            /\ transaction = Nothing /\ reports = <<>> /\ heard = Nothing
         \/ /\ host = "talking" /\ Len(pings) = Len(pongs) + 1 /\ Len(pings) \in 1 .. Len(pings)
            /\ \E payload \in Seq(PacketUnits) :
                 /\ payload = Ping(Len(pings)) /\ Len(payload) <= MaxPayload
                 /\ \E j \in 0 .. Parts(Len(payload)) : Outward(payload, j) \/ Inward(payload, j)
  <1>1. CASE host = "ready"
    BY <1>1 DEF PathInv, Followed
  <1>2. CASE host # "ready"
    <2>1. /\ host = "talking" /\ Len(pings) = Len(pongs) + 1 /\ UnderWay(Ping(Len(pings)))
          /\ pings \in Seq(0 .. MaxPayload) /\ pongs \in Seq(Seq(PacketUnits))
      BY <1>2 DEF PathInv, Followed, Carriage
    <2>2. Len(pings) \in Nat /\ Len(pings) \in 1 .. Len(pings) /\ pings[Len(pings)] \in 0 .. MaxPayload
      <3>1. Len(pings) \in Nat /\ Len(pongs) \in Nat
        BY <2>1
      <3>2. Len(pings) \in 1 .. Len(pings)
        BY <2>1, <3>1
      <3> QED
        BY <2>1, <3>1, <3>2, ElementOfSeq
    <2>3. Ping(Len(pings)) \in Seq(PacketUnits) /\ Len(Ping(Len(pings))) <= MaxPayload
      BY <2>2, PayloadIs DEF Ping
    <2> QED
      BY <2>1, <2>2, <2>3 DEF UnderWay
  <1> QED
    BY <1>1, <1>2

\* While the same message is under way, it stays so.
LEMMA SameMessage ==
  ASSUME PathInv, ~short, host = "talking", host' = host, pings' = pings, pongs' = pongs,
         NEW payload, payload = Ping(Len(pings)), NEW j \in 0 .. Parts(Len(payload)),
         Outward(payload, j)' \/ Inward(payload, j)'
  PROVE  Followed'
  <1>1. Ping(Len(pings))' = payload
    BY DEF Ping
  <1>2. UnderWay(payload)'
    BY DEF UnderWay
  <1>3. UnderWay(Ping(Len(pings)))'
    BY <1>1, <1>2 DEF UnderWay, Outward, Inward
  <1>4. /\ pongs \in Seq(Seq(PacketUnits)) /\ \A k \in 1 .. Len(pongs) : pongs[k] = Ping(k)
        /\ Len(pings) = Len(pongs) + 1
    BY DEF PathInv, Followed
  <1>5. \A k : Ping(k)' = Ping(k)
    BY DEF Ping
  <1> QED
    BY <1>3, <1>4, <1>5 DEF Followed

\* A control transfer on an empty stream.
LEMMA AppendedUnits ==
  ASSUME NEW setup \in Asks
  PROVE  Append(<<>>, Submit(ControlEndpoint, setup, 0)) = <<Submit(ControlEndpoint, setup, 0)>>
         /\ <<Submit(ControlEndpoint, setup, 0)>> \in Seq(StreamUnits)
         /\ Len(<<Submit(ControlEndpoint, setup, 0)>>) = 1
  <1> DEFINE u == Submit(ControlEndpoint, setup, 0)
  <1>1. u \in StreamUnits
    BY DEF StreamUnits, Asking
  <1> HIDE DEF u
  <1>2. <<u>> \in Seq(StreamUnits) /\ Len(<<u>>) = 1 /\ Append(<<>>, u) = <<u>>
    BY <1>1
  <1> QED
    BY <1>2 DEF u

\* The host asks for what is next on its list.
LEMMA ControlKeeps ==
  ASSUME PathInv, Control
  PROVE  PathInv'
  <1> USE DEF Control
  <1>1. stream = <<>>
    <2>1. CASE stream # <<>>
      <3>1. stream[1] = Submit(ControlEndpoint, Head(todo), 0) /\ Len(stream) = 1 /\ stream = <<Submit(ControlEndpoint, Head(todo), 0)>>
        BY <2>1, AskingStream
      <3>2. 1 \in DOMAIN stream
        BY <3>1
      <3>3. stream[1].unit # "submit"
        BY <3>2 DEF NoTransfer
      <3> QED
        BY <3>1, <3>3, HeaderUnits
    <2> QED
      BY <2>1
  <1>2. todo \in Seq(Asks) /\ Head(todo) \in Asks
    <2>1. todo \in Seq(Asks)
      BY DEF PathInv, Enumerating
    <2> QED
      BY <2>1, HeadTailProperties
  <1>3. stream' = <<Submit(ControlEndpoint, Head(todo), 0)>> /\ stream' \in Seq(StreamUnits) /\ Len(stream') = 1
    BY <1>1, <1>2, AppendedUnits
  <1>4. Carriage'
    <2>1. arrived = 0
      BY <1>1, EmptySeq DEF PathInv, Carriage
    <2> QED
      BY <1>3, <2>1 DEF PathInv, Carriage, StreamUnits
  <1>5. Enumerating'
    BY <1>3 DEF PathInv, Enumerating
  <1>6. Followed'
    BY DEF Followed
  <1> QED
    BY <1>4, <1>5, <1>6 DEF PathInv

\* What has arrived is still on the stream.
LEMMA ArriveKeeps ==
  ASSUME PathInv, Arrive
  PROVE  PathInv'
  <1> USE DEF Arrive
  <1>1. Carriage'
    <2>1. arrived \in Nat /\ Len(stream) \in Nat
      BY DEF PathInv, Carriage
    <2> QED
      BY <2>1 DEF PathInv, Carriage
  <1>2. Enumerating'
    BY DEF PathInv, Enumerating
  <1>3. Followed'
    <2> SUFFICES ASSUME ~short, host # "enumerating" PROVE Followed'
      BY DEF Followed
    <2>1. CASE host = "ready"
      BY <2>1 DEF PathInv, Followed, Ping
    <2>2. CASE host # "ready"
      <3>1. host = "talking"
        BY <2>2, TalkingStep
      <3>2. PICK payload \in Seq(PacketUnits) :
              payload = Ping(Len(pings)) /\ \E j \in 0 .. Parts(Len(payload)) : Outward(payload, j) \/ Inward(payload, j)
        BY <2>2, TalkingStep
      <3>3. PICK j \in 0 .. Parts(Len(payload)) : Outward(payload, j) \/ Inward(payload, j)
        BY <3>2
      <3>4. Outward(payload, j)' \/ Inward(payload, j)'
        BY <3>3 DEF Outward, Inward
      <3> QED
        BY <3>1, <3>2, <3>4, SameMessage
    <2> QED
      BY <2>1, <2>2
  <1> QED
    BY <1>1, <1>2, <1>3 DEF PathInv

\* A new message is cut and none of its packets is sent.
LEMMA SendPingKeeps ==
  ASSUME PathInv, NEW n \in 0 .. MaxPayload, SendPing(n)
  PROVE  PathInv'
  <1> DEFINE k == Len(pings) + 1
  <1> USE DEF SendPing, usb
  <1>0. PICK q : q = [i \in 1 .. n |-> Data(Len(pings) + 1, i)]
    OBVIOUS
  <1>1. pings \in Seq(0 .. MaxPayload) /\ Len(pings) \in Nat /\ k \in Nat
    BY DEF PathInv, Carriage
  <1>2. q \in Seq(PacketUnits) /\ Len(q) = n /\ Len(q) <= MaxPayload
    BY <1>0, <1>1, PayloadIs
  <1>3. packets' = Cut(q)
    BY <1>0
  <1>4. /\ pings' \in Seq(0 .. MaxPayload) /\ Len(pings') = k /\ pings'[k] = n
        /\ \A i \in 1 .. Len(pings) : pings'[i] = pings[i]
    BY <1>1, AppendProperties
  <1>5. Ping(Len(pings))' = q
    BY <1>0, <1>1, <1>4 DEF Ping
  <1>6. Cut(q) \in Seq(Seq(PacketUnits)) /\ Parts(Len(q)) \in Nat /\ Parts(Len(q)) >= 1
    BY <1>2, CutOf
  <1>7. Carriage'
    BY <1>3, <1>4, <1>6 DEF PathInv, Carriage
  <1>8. Enumerating'
    BY DEF PathInv, Enumerating
  <1>9. Followed'
    <2> SUFFICES ASSUME ~short PROVE Followed'
      BY DEF Followed
    <2>1. /\ Len(pongs) = Len(pings) /\ stream = <<>> /\ server = "command"
          /\ transaction = Nothing /\ reports = <<>> /\ heard = Nothing
          /\ pongs \in Seq(Seq(PacketUnits)) /\ \A i \in 1 .. Len(pongs) : pongs[i] = Ping(i)
      BY DEF PathInv, Followed
    <2>2. Rest(q, 0) = Cut(q) /\ After(q, 0) = Nothing /\ 0 \in 0 .. Parts(Len(q)) /\ 0 < Parts(Len(q))
      BY <1>2, <1>6, RestIs, NothingAfterNone
    <2>3. Outward(q, 0)'
      BY <1>3, <2>1, <2>2 DEF Outward
    <2>4. UnderWay(q)'
      BY <2>2, <2>3 DEF UnderWay
    <2>5. UnderWay(Ping(Len(pings)))'
      BY <1>5, <2>4 DEF UnderWay, Outward, Inward
    <2>6. \A i \in 1 .. Len(pongs) : Ping(i)' = Ping(i)
      BY <1>4, <2>1 DEF Ping
    <2> QED
      BY <1>1, <1>4, <2>1, <2>5, <2>6 DEF Followed
  <1> QED
    BY <1>7, <1>8, <1>9 DEF PathInv

\* A header before the packet it announces.
LEMMA Announced ==
  ASSUME NEW p \in Seq(PacketUnits), Len(p) = ReportSize
  PROVE  LET s == <<OutHeader>> \o p IN
         /\ s \in Seq(PacketUnits \union {OutHeader}) /\ s \in Seq(StreamUnits) /\ Len(s) = ReportSize + 1
         /\ s # <<>> /\ s[1] = OutHeader /\ s[1].unit = "submit" /\ s[1].endpoint = InputEndpoint
         /\ SubSeq(s, 2, Len(s)) = p
  <1> DEFINE S == PacketUnits \union {OutHeader}
             h == <<OutHeader>>
             s == h \o p
  <1>1. h \in Seq(S) /\ Len(h) = 1 /\ h[1] = OutHeader /\ p \in Seq(S)
    <2>1. p \in Seq(S)
      BY SeqMonotonic
    <2> QED
      BY <2>1
  <1> HIDE DEF h, S
  <1>2. /\ s \in Seq(S) /\ Len(s) = Len(h) + Len(p)
        /\ \A i \in 1 .. Len(h) + Len(p) : s[i] = IF i <= Len(h) THEN h[i] ELSE p[i - Len(h)]
    BY <1>1, ConcatProperties
  <1>3. ReportSize \in Nat /\ Len(s) = ReportSize + 1 /\ s[1] = OutHeader
    BY <1>1, <1>2, Sizes
  <1>4. s # <<>>
    BY <1>2, <1>3, EmptySeq
  <1>5. s \in Seq(StreamUnits)
    <2>1. S \subseteq StreamUnits
      BY DEF S, StreamUnits
    <2> HIDE DEF s
    <2> QED
      BY <1>2, <2>1, SeqMonotonic
  <1>6. SubSeq(s, 2, Len(s)) = p
    <2>1. Tail(s) = SubSeq(s, 2, Len(s)) /\ Tail(s) \in Seq(S) /\ Len(Tail(s)) = Len(s) - 1
          /\ \A i \in 1 .. Len(Tail(s)) : Tail(s)[i] = s[i + 1]
      <3> HIDE DEF s
      <3> QED
        BY <1>2, <1>4, HeadTailProperties, TailIsSubSeq
    <2>2. \A i \in 1 .. ReportSize : s[i + 1] = p[i]
      BY <1>1, <1>2, <1>3
    <2>3. Tail(s) = p
      <3> HIDE DEF s
      <3> QED
        BY <1>1, <1>3, <2>1, <2>2, SeqEqual
    <2> QED
      BY <2>1, <2>3
  <1> QED
    BY <1>2, <1>3, <1>4, <1>5, <1>6, HeaderUnits DEF S, h

\* A packet goes out when the one before it has been read.
LEMMA SendPacketKeeps ==
  ASSUME PathInv, SendPacket
  PROVE  PathInv'
  <1> USE DEF SendPacket
  <1>1. host # "enumerating"
    BY DEF PathInv, Enumerating
  <1>2. stream \in Seq(PacketUnits \union {OutHeader}) /\ stream \in Seq(StreamUnits) /\ packets \in Seq(Seq(PacketUnits))
        /\ arrived \in 0 .. Len(stream) /\ Len(stream) \in Nat
    BY <1>1 DEF PathInv, Enumerating, Carriage, StreamUnits
  <1>3. Head(packets) \in Seq(PacketUnits) /\ Tail(packets) \in Seq(Seq(PacketUnits))
    BY <1>2, HeadTailProperties
  <1> DEFINE S == PacketUnits \union {OutHeader}
             p == Head(packets)
             h == <<OutHeader>>
  <1>4. stream' = stream \o h \o p
    BY DEF OutHeader
  <1>5. /\ stream' \in Seq(S) /\ Len(stream') \in Nat /\ Len(stream') >= Len(stream)
    <2>1. p \in Seq(S) /\ h \in Seq(S)
      BY <1>3, SeqMonotonic
    <2> HIDE DEF S, p, h
    <2>2. stream \in Seq(S)
      BY <1>2 DEF S
    <2>3. stream \o h \in Seq(S) /\ Len(stream \o h) = Len(stream) + Len(h)
      BY <2>1, <2>2, ConcatProperties
    <2>4. (stream \o h) \o p \in Seq(S) /\ Len((stream \o h) \o p) = Len(stream \o h) + Len(p)
      BY <2>1, <2>3, ConcatProperties
    <2>5. Len(h) \in Nat /\ Len(p) \in Nat
      BY <2>1
    <2>6. stream' = (stream \o h) \o p
      BY <1>4 DEF h, p
    <2>7. stream' \in Seq(S) /\ Len(stream') = (Len(stream) + Len(h)) + Len(p)
      BY <2>3, <2>4, <2>6
    <2>8. Len(stream) \in Nat
      BY <1>2
    <2> HIDE DEF SendPacket
    <2>9. Len(stream') \in Nat /\ Len(stream') >= Len(stream)
      BY <2>5, <2>7, <2>8
    <2> QED
      BY <2>7, <2>9 DEF S
  <1>6. stream' \in Seq(StreamUnits)
    <2>1. S \subseteq StreamUnits
      BY DEF StreamUnits
    <2> HIDE DEF S
    <2> QED
      BY <1>5, <2>1, SeqMonotonic
  <1>7. Carriage'
    <2>1. arrived' \in 0 .. Len(stream')
      <3>1. arrived' = arrived /\ arrived \in 0 .. Len(stream) /\ Len(stream) \in Nat
        BY <1>2
      <3>2. Len(stream') \in Nat /\ Len(stream') >= Len(stream)
        BY <1>5
      <3> HIDE DEF S, SendPacket
      <3> QED
        BY <3>1, <3>2
    <2>2. packets' \in Seq(Seq(PacketUnits)) /\ pings' = pings /\ short' = short
      BY <1>3
    <2> HIDE DEF S, SendPacket
    <2> QED
      BY <1>6, <2>1, <2>2 DEF PathInv, Carriage, StreamUnits
  <1>8. Enumerating'
    BY <1>1, <1>5 DEF PathInv, Enumerating
  <1>9. Followed'
    <2> SUFFICES ASSUME ~short PROVE Followed'
      BY DEF Followed
    <2>1. host = "talking"
      BY <1>1, TalkingStep
    <2>2. PICK payload \in Seq(PacketUnits) :
            /\ payload = Ping(Len(pings)) /\ Len(payload) <= MaxPayload
            /\ \E j \in 0 .. Parts(Len(payload)) : Outward(payload, j) \/ Inward(payload, j)
      BY <1>1, <2>1, TalkingStep
    <2>3. PICK j \in 0 .. Parts(Len(payload)) : Outward(payload, j) \/ Inward(payload, j)
      BY <2>2
    <2>4. Outward(payload, j) /\ packets = Rest(payload, j)
      BY <2>3 DEF Inward, Outward
    <2>5. Parts(Len(payload)) \in Nat /\ j \in Nat /\ j < Parts(Len(payload)) /\ Parts(Len(payload)) >= 1
      BY <2>2, <2>4, RestIs, CutOf
    <2>6. Head(packets) = Cut(payload)[j + 1] /\ Tail(packets) = Rest(payload, j + 1)
      BY <2>2, <2>4, <2>5, RestIs
    <2>7. stream = <<>> /\ transaction = After(payload, j)
      <3>1. ASSUME NEW i \in 1 .. Parts(Len(payload)), stream = <<OutHeader>> \o Cut(payload)[i]
            PROVE  FALSE
        <4>1. Cut(payload)[i] \in Seq(PacketUnits) /\ Len(Cut(payload)[i]) = ReportSize
          BY <2>2, CutOf
        <4>2. stream # <<>> /\ stream[1].unit = "submit" /\ Len(stream) = ReportSize + 1
          BY <3>1, <4>1, Announced
        <4>3. 1 \in DOMAIN stream
          BY <1>2, <4>2, Sizes
        <4> QED
          BY <4>2, <4>3 DEF NoTransfer
      <3> QED
        <4>1. server = "command"
          BY DEF NoTransfer
        <4>2. \/ stream = <<>> /\ transaction = After(payload, j)
              \/ j >= 1 /\ stream = <<OutHeader>> \o Cut(payload)[j]
          BY <2>4, <4>1 DEF Outward
        <4>3. j >= 1 => j \in 1 .. Parts(Len(payload))
          BY <2>5
        <4> QED
          BY <3>1, <4>2, <4>3
    <2>8. stream' = <<OutHeader>> \o Cut(payload)[j + 1]
      <3>1. h \in Seq(S) /\ <<>> \o h = h
        BY ConcatEmptySeq
      <3> QED
        BY <1>4, <2>6, <2>7, <3>1
    <2>9. Outward(payload, j + 1)'
      <3>1. (j + 1) - 1 = j /\ j + 1 >= 1 /\ j + 1 \in 0 .. Parts(Len(payload))
        BY <2>5
      <3>2. server' = "command" /\ packets' = Rest(payload, j + 1) /\ reports' = <<>> /\ heard' = Nothing /\ transaction' = After(payload, j)
        BY <2>4, <2>6, <2>7 DEF Outward, NoTransfer
      <3> QED
        BY <2>8, <3>1, <3>2 DEF Outward
    <2>10. j + 1 \in 0 .. Parts(Len(payload))
      BY <2>5
    <2> QED
      BY <2>1, <2>2, <2>9, <2>10, SameMessage
  <1> QED
    BY <1>7, <1>8, <1>9 DEF PathInv

\* The host joins the next report, the last of which ends the answer.
LEMMA HearKeeps ==
  ASSUME PathInv, Hear
  PROVE  PathInv'
  <1> DEFINE p == Head(reports)
             now == IF p[1].unit = "first" THEN [length |-> p[1].n, sequence |-> 0, payload |-> Carried(p)]
                    ELSE [heard EXCEPT !.sequence = @ + 1, !.payload = @ \o Carried(p)]
             fits == p[1].unit = "first" \/ (p[1].unit = "next" /\ p[1].n = heard.sequence)
  <1>1. /\ reports # <<>> /\ reports' = Tail(reports)
        /\ IF fits /\ Len(now.payload) < now.length
           THEN heard' = now /\ UNCHANGED <<host, pongs>>
           ELSE /\ heard' = Nothing
                /\ host' = "ready"
                /\ pongs' = Append(pongs, IF fits THEN SubSeq(now.payload, 1, now.length) ELSE <<>>)
        /\ UNCHANGED <<todo, known, packets, stream, arrived, server, transaction, pings, short>>
    BY DEF Hear
  <1> HIDE DEF p, now, fits
  <1>2. host # "enumerating" /\ host' # "enumerating"
    BY <1>1 DEF PathInv, Enumerating
  <1>3. Carriage'
    BY <1>1 DEF PathInv, Carriage
  <1>4. Enumerating'
    BY <1>1, <1>2 DEF PathInv, Enumerating
  <1>5. Followed'
    <2> SUFFICES ASSUME ~short PROVE Followed'
      BY <1>1 DEF Followed
    <2>1. host = "talking" /\ Len(pings) = Len(pongs) + 1
      BY <1>1, <1>2, TalkingStep
    <2>2. PICK payload \in Seq(PacketUnits) :
            /\ payload = Ping(Len(pings)) /\ Len(payload) <= MaxPayload
            /\ \E j \in 0 .. Parts(Len(payload)) : Outward(payload, j) \/ Inward(payload, j)
      BY <1>2, <2>1, TalkingStep
    <2>3. PICK i \in 0 .. Parts(Len(payload)) : Outward(payload, i) \/ Inward(payload, i)
      BY <2>2
    <2>4. /\ packets = <<>> /\ stream = <<>> /\ server = "command" /\ transaction = Nothing /\ payload # <<>>
          /\ i \in 0 .. Parts(Len(payload)) - 1 /\ reports = Rest(payload, i) /\ heard = After(payload, i)
      BY <1>1, <2>3 DEF Outward, Inward
    <2> DEFINE n == Len(payload)
               m == Parts(n)
               j == i + 1
               a == After(payload, j)
    <2>5. n \in Nat /\ m \in Nat /\ j \in 1 .. m /\ j - 1 = i /\ i < m /\ j \in 0 .. m
      BY <2>2, <2>4, CutOf
    <2>6. p = Cut(payload)[j] /\ Tail(reports) = Rest(payload, j)
      BY <2>2, <2>3, <2>4, <2>5, RestIs DEF p
    <2>7. /\ IF j = 1
             THEN /\ After(payload, j - 1) = Nothing /\ p[1].unit = "first"
                  /\ [length |-> p[1].n, sequence |-> 0, payload |-> Carried(p)] = a
             ELSE /\ After(payload, j - 1) # Nothing /\ p[1].unit = "next"
                  /\ p[1].n = After(payload, j - 1).sequence /\ p[1].n < SeqLimit
                  /\ [After(payload, j - 1) EXCEPT !.sequence = @ + 1, !.payload = @ \o Carried(p)] = a
          /\ Len(a.payload) >= a.length <=> j = m
          /\ a.length = n /\ a.payload = Joined(payload, j)
      <3> DEFINE c == Cut(payload)[j]
                 t == After(payload, j - 1)
      <3>1. j \in 1 .. Parts(Len(payload)) /\ Len(payload) <= MaxPayload
        BY <2>2, <2>5
      <3>2. p = c
        BY <2>6
      <3> HIDE DEF j
      <3>3. /\ IF j = 1
               THEN /\ t = Nothing /\ c[1].unit = "first"
                    /\ [length |-> c[1].n, sequence |-> 0, payload |-> Carried(c)] = a
               ELSE /\ t # Nothing /\ c[1].unit = "next" /\ c[1].n = t.sequence /\ c[1].n < SeqLimit
                    /\ [t EXCEPT !.sequence = @ + 1, !.payload = @ \o Carried(c)] = a
            /\ Len(a.payload) >= a.length <=> j = m
            /\ a.length = n /\ a.payload = Joined(payload, j)
        BY <3>1, NextPacket, Zenon
      <3> HIDE DEF c, t, a, n, m
      <3>4. t = After(payload, j - 1)
        BY DEF t
      <3> QED
        BY <3>2, <3>3, <3>4, Zenon
    <2>8. Len(a.payload) \in Nat
      <3>1. Len(Joined(payload, j)) = End(j) /\ End(j) \in Nat
        BY <2>2, <2>5, AfterIs
      <3> QED
        BY <2>7, <3>1
    <2>9. heard = After(payload, j - 1)
      BY <2>4, <2>5
    <2> HIDE DEF a
    <2>10. fits /\ now = a
      <3>1. CASE j = 1
        BY <2>7, <3>1 DEF fits, now
      <3>2. CASE j # 1
        BY <2>7, <2>9, <3>2 DEF fits, now
      <3> QED
        BY <3>1, <3>2
    <2>11. j < m <=> Len(now.payload) < now.length
      <3>1. Len(a.payload) < a.length <=> ~(Len(a.payload) >= a.length)
        BY <2>5, <2>7, <2>8
      <3> HIDE DEF n, m, j
      <3>2. j < m <=> j # m
        BY <2>5
      <3> QED
        BY <2>7, <2>10, <3>1, <3>2
    <2>12. CASE j < m
      <3>1. heard' = a /\ host' = host /\ pongs' = pongs /\ pings' = pings
        BY <1>1, <2>10, <2>11, <2>12
      <3>2. j \in 0 .. m - 1
        <4> HIDE DEF m, j
        <4> QED
          BY <2>5, <2>12
      <3>3. Inward(payload, j)'
        BY <1>1, <2>4, <2>6, <3>1, <3>2 DEF Inward, a
      <3> QED
        BY <2>1, <2>2, <2>5, <3>1, <3>3, SameMessage
    <2>13. CASE ~(j < m)
      <3>1. j = m
        <4> HIDE DEF m, j
        <4> QED
          BY <2>5, <2>13
      <3>2. heard' = Nothing /\ host' = "ready" /\ pings' = pings
            /\ pongs' = Append(pongs, SubSeq(now.payload, 1, now.length))
        BY <1>1, <2>10, <2>11, <2>13
      <3>3. SubSeq(now.payload, 1, now.length) = payload
        <4>1. SubSeq(Joined(payload, m), 1, n) = payload
          BY <2>2, CutOf
        <4> QED
          BY <2>7, <2>10, <3>1, <4>1
      <3>4. /\ pongs \in Seq(Seq(PacketUnits)) /\ \A k \in 1 .. Len(pongs) : pongs[k] = Ping(k)
            /\ pings \in Seq(0 .. MaxPayload)
        BY <1>2, <2>1 DEF PathInv, Followed, Carriage
      <3>5. /\ pongs' \in Seq(Seq(PacketUnits)) /\ Len(pongs') = Len(pongs) + 1
            /\ \A k \in 1 .. Len(pongs) : pongs'[k] = pongs[k]
            /\ pongs'[Len(pongs) + 1] = payload
        <4>1. pongs' = Append(pongs, payload)
          BY <3>2, <3>3
        <4>2. pongs \in Seq(Seq(PacketUnits)) /\ payload \in Seq(PacketUnits)
          BY <3>4
        <4>3. /\ Append(pongs, payload) \in Seq(Seq(PacketUnits)) /\ Len(Append(pongs, payload)) = Len(pongs) + 1
              /\ \A k \in 1 .. Len(pongs) : Append(pongs, payload)[k] = pongs[k]
              /\ Append(pongs, payload)[Len(pongs) + 1] = payload
          BY <4>2, AppendProperties
        <4> QED
          BY <4>1, <4>3
      <3>6. \A k : Ping(k)' = Ping(k)
        BY <3>2 DEF Ping
      <3>7. \A k \in 1 .. Len(pongs') : pongs'[k] = Ping(k)'
        <4>1. Len(pongs) \in Nat
          BY <3>4
        <4>2. payload = Ping(Len(pongs) + 1)
          BY <2>1, <2>2
        <4>3. \A k \in 1 .. Len(pongs') : k \in 1 .. Len(pongs) \/ k = Len(pongs) + 1
          BY <3>5, <4>1
        <4> QED
          BY <3>4, <3>5, <3>6, <4>2, <4>3
      <3>8. reports' = <<>>
        BY <1>1, <2>2, <2>5, <2>6, <3>1, RestIs
      <3> QED
        BY <1>1, <2>1, <2>4, <3>2, <3>5, <3>7, <3>8 DEF Followed
    <2> QED
      BY <2>12, <2>13
  <1> QED
    BY <1>3, <1>4, <1>5 DEF PathInv

\* What the server reads first.
LEMMA FirstRead ==
  ASSUME PathInv, arrived > 0
  PROVE  /\ stream # <<>> /\ Len(stream) \in Nat /\ Len(stream) >= 1 /\ arrived \in Nat
         /\ host # "enumerating" => stream[1] \in PacketUnits \union {OutHeader}
  <1>1. /\ stream \in Seq(StreamUnits) /\ arrived \in 0 .. Len(stream)
        /\ host # "enumerating" => stream \in Seq(PacketUnits \union {OutHeader})
    BY DEF PathInv, Carriage, Enumerating, StreamUnits
  <1>2. Len(stream) \in Nat /\ arrived \in Nat /\ Len(stream) >= 1
    BY <1>1
  <1>3. stream # <<>>
    BY <1>2, EmptySeq
  <1>4. 1 \in 1 .. Len(stream)
    BY <1>2
  <1> QED
    BY <1>1, <1>2, <1>3, <1>4, ElementOfSeq

\* What is left of the stream.
LEMMA LeftOver ==
  ASSUME NEW S, NEW s \in Seq(S), NEW n \in 1 .. Len(s), NEW a \in n .. Len(s)
  PROVE  SubSeq(s, n + 1, Len(s)) \in Seq(S) /\ a - n \in 0 .. Len(SubSeq(s, n + 1, Len(s)))
         /\ Len(SubSeq(s, n + 1, Len(s))) = Len(s) - n
  <1> DEFINE l == Len(s)
             r == SubSeq(s, n + 1, l)
  <1>1. l \in Nat /\ n \in Nat /\ n >= 1 /\ n <= l /\ a \in Nat /\ n <= a /\ a <= l
    OBVIOUS
  <1>2. n + 1 \in Int /\ l \in Int /\ \A i \in n + 1 .. l : s[i] \in S
    <2>1. \A i \in 1 .. l : s[i] \in S
      BY ElementOfSeq
    <2> QED
      BY <1>1, <2>1
  <1> HIDE DEF l
  <1>3. r \in Seq(S) /\ Len(r) = IF n + 1 <= l THEN l - (n + 1) + 1 ELSE 0
    BY <1>2, SubSeqProperties
  <1> HIDE DEF r
  <1>4. Len(r) = l - n /\ a - n \in 0 .. Len(r)
    BY <1>1, <1>3
  <1> QED
    BY <1>3, <1>4 DEF l, r

\* Payload is read for a header only behind a short Read.
LEMMA ReadStrayKeeps ==
  ASSUME PathInv, ReadStray
  PROVE  PathInv' /\ short
  <1> USE DEF ReadStray
  <1>1. stream # <<>>
    BY FirstRead
  <1>2. host # "enumerating"
    BY <1>1, AskingStream, HeaderUnits
  <1>3. short
    <2> SUFFICES ASSUME ~short PROVE FALSE
      OBVIOUS
    <2>1. host = "talking"
      BY <1>1, <1>2, TalkingStep
    <2>2. PICK payload \in Seq(PacketUnits) :
            /\ payload = Ping(Len(pings)) /\ Len(payload) <= MaxPayload
            /\ \E j \in 0 .. Parts(Len(payload)) : Outward(payload, j) \/ Inward(payload, j)
      BY <1>2, <2>1, TalkingStep
    <2>3. PICK j \in 0 .. Parts(Len(payload)) : Outward(payload, j) \/ Inward(payload, j)
      BY <2>2
    <2>4. stream = <<OutHeader>> \o Cut(payload)[j] /\ j >= 1
      BY <1>1, <2>3 DEF Outward, Inward
    <2>5. j \in 1 .. Parts(Len(payload))
      BY <2>2, <2>4, CutOf
    <2>6. Cut(payload)[j] \in Seq(PacketUnits) /\ Len(Cut(payload)[j]) = ReportSize
      BY <2>2, <2>5, CutOf
    <2> QED
      BY <2>4, <2>6, Announced
  <1>4. Carriage'
    BY DEF PathInv, Carriage
  <1>5. Enumerating'
    BY <1>2 DEF PathInv, Enumerating
  <1>6. Followed'
    BY <1>3 DEF Followed
  <1> QED
    BY <1>3, <1>4, <1>5, <1>6 DEF PathInv

\* Behind the header of an OUT transfer there is a packet.
LEMMA ReadOutKeeps ==
  ASSUME PathInv, ReadOut
  PROVE  PathInv'
  <1> USE DEF ReadOut, Consumed
  <1>1. stream # <<>> /\ Len(stream) \in Nat /\ Len(stream) >= 1 /\ arrived \in Nat
    BY FirstRead
  <1>2. host # "enumerating"
    BY <1>1, AskingStream, HeaderUnits
  <1>3. /\ stream \in Seq(PacketUnits \union {OutHeader}) /\ stream \in Seq(StreamUnits)
        /\ arrived \in 1 .. Len(stream) /\ 1 \in 1 .. Len(stream)
    BY <1>1, <1>2 DEF PathInv, Enumerating, Carriage, StreamUnits
  <1>4. /\ stream' \in Seq(PacketUnits \union {OutHeader}) /\ stream' \in Seq(StreamUnits)
        /\ arrived' \in 0 .. Len(stream')
    BY <1>3, LeftOver
  <1>5. Carriage'
    BY <1>4 DEF PathInv, Carriage, StreamUnits
  <1>6. Enumerating'
    BY <1>2, <1>4 DEF PathInv, Enumerating
  <1>7. Followed'
    <2> SUFFICES ASSUME ~short PROVE Followed'
      BY DEF Followed
    <2>1. host = "talking"
      BY <1>1, <1>2, TalkingStep
    <2>2. PICK payload \in Seq(PacketUnits) :
            /\ payload = Ping(Len(pings)) /\ Len(payload) <= MaxPayload
            /\ \E j \in 0 .. Parts(Len(payload)) : Outward(payload, j) \/ Inward(payload, j)
      BY <1>2, <2>1, TalkingStep
    <2>3. PICK j \in 0 .. Parts(Len(payload)) : Outward(payload, j) \/ Inward(payload, j)
      BY <2>2
    <2>4. /\ stream = <<OutHeader>> \o Cut(payload)[j] /\ j >= 1 /\ transaction = After(payload, j - 1)
          /\ packets = Rest(payload, j) /\ reports = <<>> /\ heard = Nothing
      BY <1>1, <2>3 DEF Outward, Inward
    <2>5. j \in 1 .. Parts(Len(payload))
      BY <2>2, <2>4, CutOf
    <2>6. Cut(payload)[j] \in Seq(PacketUnits) /\ Len(Cut(payload)[j]) = ReportSize
      BY <2>2, <2>5, CutOf
    <2>7. stream' = Cut(payload)[j]
      BY <2>4, <2>6, Announced
    <2>8. Outward(payload, j)'
      BY <2>4, <2>7 DEF Outward
    <2> QED
      BY <2>1, <2>2, <2>8, SameMessage
  <1> QED
    BY <1>5, <1>6, <1>7 DEF PathInv

\* The server answers a control transfer, which makes the host ask on.
LEMMA ReadControlKeeps ==
  ASSUME PathInv, ReadControl
  PROVE  PathInv'
  <1> DEFINE setup  == stream[1].setup
             answer == handleControlMessage(setup)
             got    == Copied(answer, setup.wLength)
  <1>1. /\ server = "command" /\ arrived > 0
        /\ stream[1].unit = "submit" /\ stream[1].endpoint = ControlEndpoint
        /\ Consumed(1)
        /\ IF answer = Panic
           THEN server' = "ended" /\ UNCHANGED <<host, todo, known>>
           ELSE /\ known' = known \union ToSet(got)
                /\ todo' = Tail(todo) \o FollowUps(got)
                /\ host' = IF todo' = <<>> THEN "ready" ELSE host
                /\ UNCHANGED server
        /\ UNCHANGED <<packets, transaction, reports, heard, pings, pongs, short>>
    BY DEF ReadControl
  <1>2. stream # <<>> /\ (host # "enumerating" => stream[1] \in PacketUnits \union {OutHeader}) /\ arrived \in Nat
    BY <1>1, FirstRead
  <1>3. host = "enumerating"
    BY <1>1, <1>2, UnitsAre, HeaderUnits
  <1>4. /\ todo \in Seq(Asks) /\ todo # <<>> /\ Head(todo) \in Asks /\ Tail(todo) \in Seq(Asks)
        /\ Len(stream) = 1 /\ setup = Head(todo)
    BY <1>2, <1>3, AskingStream, HeaderUnits, HeadTailProperties
  <1>5. setup \in Asks /\ answer \in Answers /\ answer # Panic /\ setup.wLength \in Nat
    BY <1>4, AsksServed, AnswersNoPanic
  <1> HIDE DEF setup, answer
  <1>6. FollowUps(got) \in Seq(Asks)
    <2>1. \E S : answer \in Seq(S)
      <3>1. \A d : <<d>> \in Seq({d})
        OBVIOUS
      <3>2. <<>> \in Seq({})
        BY EmptySeq
      <3>3. \E S : Configuration \in Seq(S)
        BY ConfigurationIs
      <3> QED
        BY <1>5, <3>1, <3>2, <3>3 DEF Answers
    <2>2. PICK S : answer \in Seq(S)
      BY <2>1
    <2>3. PICK n \in 0 .. Len(answer) : got = SubSeq(answer, 1, n)
      BY <1>5, <2>2, CopiedPrefix
    <2> HIDE DEF got
    <2> QED
      BY <1>5, <2>3, FollowUpsAsked
  <1> HIDE DEF got
  <1>7. todo' \in Seq(Asks) /\ server' = "command"
    <2>1. todo' = Tail(todo) \o FollowUps(got) /\ server' = "command"
      BY <1>1, <1>5
    <2> QED
      BY <1>4, <1>6, <2>1, ConcatProperties
  <1>8. stream' = <<>> /\ arrived' = 0
    <2>1. arrived = 1
      BY <1>1, <1>2, <1>4 DEF PathInv, Carriage
    <2>2. stream' = SubSeq(stream, 2, 1)
      BY <1>1, <1>4 DEF Consumed
    <2> QED
      BY <1>1, <2>1, <2>2, SubSeqEmpty DEF Consumed
  <1>9. /\ packets = <<>> /\ transaction = Nothing /\ reports = <<>> /\ heard = Nothing
        /\ pings = <<>> /\ pongs = <<>> /\ ~short
    BY <1>3 DEF PathInv, Enumerating
  <1>10. \A S : <<>> \in Seq(S) /\ Len(<<>>) = 0
    BY EmptySeq
  <1>11. host' = "enumerating" \/ host' = "ready"
    BY <1>1, <1>3, <1>5
  <1>12. Carriage'
    <2>1. arrived' \in 0 .. Len(stream')
      BY <1>8, <1>10
    <2>2. stream' \in Seq(StreamUnits)
      BY <1>8, <1>10
    <2> QED
      BY <1>1, <2>1, <2>2 DEF PathInv, Carriage
  <1>13. Enumerating'
    <2>1. stream' \in Seq(PacketUnits \union {OutHeader})
      BY <1>8, <1>10
    <2>2. packets' = <<>> /\ transaction' = Nothing /\ reports' = <<>> /\ heard' = Nothing /\ pings' = <<>> /\ pongs' = <<>> /\ ~short'
      BY <1>1, <1>9
    <2> QED
      BY <1>7, <1>8, <2>1, <2>2 DEF Enumerating
  <1>14. Followed'
    <2>1. pongs' = <<>> /\ pings' = <<>> /\ packets' = <<>> /\ transaction' = Nothing /\ reports' = <<>> /\ heard' = Nothing
      BY <1>1, <1>9
    <2> QED
      BY <1>7, <1>8, <1>10, <1>11, <2>1 DEF Followed
  <1> QED
    BY <1>12, <1>13, <1>14 DEF PathInv

\* A full Read gives the HID layer the packet that was sent.
LEMMA ReadBufferKeeps ==
  ASSUME PathInv, ReadBuffer
  PROVE  PathInv'
  <1>0. PICK n : n = IF arrived < ReportSize THEN arrived ELSE ReportSize
    OBVIOUS
  <1>1. PICK p : p = Padded(SubSeq(stream, 1, n), ReportSize)
    OBVIOUS
  <1>2. /\ server = "buffer" /\ arrived > 0 /\ Consumed(n) /\ server' = "command"
        /\ short' = (short \/ n < ReportSize)
        /\ CASE ~Joins(p) -> transaction' = Nothing /\ reports' = Append(reports, Error)
             [] Joins(p) /\ Complete(Join(p)) ->
                  /\ transaction' = Nothing
                  /\ reports' = reports \o createResponsePackets(SubSeq(Join(p).payload, 1, Join(p).length))
             [] OTHER -> transaction' = Join(p) /\ UNCHANGED reports
        /\ UNCHANGED <<host, todo, known, packets, heard, pings, pongs>>
    BY <1>0, <1>1 DEF ReadBuffer
  <1>3. stream # <<>> /\ Len(stream) \in Nat /\ Len(stream) >= 1 /\ arrived \in Nat
    BY <1>2, FirstRead
  <1>4. host # "enumerating"
    BY <1>2 DEF PathInv, Enumerating
  <1>5. /\ stream \in Seq(PacketUnits \union {OutHeader}) /\ stream \in Seq(StreamUnits)
        /\ arrived \in 0 .. Len(stream)
    BY <1>4 DEF PathInv, Enumerating, Carriage, StreamUnits
  <1>6. n \in 1 .. Len(stream) /\ arrived \in n .. Len(stream) /\ n \in Nat /\ (n < ReportSize \/ n = ReportSize)
    BY <1>0, <1>2, <1>3, <1>5, Sizes
  <1>7. /\ stream' \in Seq(PacketUnits \union {OutHeader}) /\ stream' \in Seq(StreamUnits)
        /\ arrived' \in 0 .. Len(stream')
    BY <1>2, <1>5, <1>6, LeftOver DEF Consumed
  <1>8. Carriage'
    <2>1. short' \in BOOLEAN
      BY <1>2
    <2>2. packets' = packets /\ pings' = pings
      BY <1>2
    <2> QED
      BY <1>7, <2>1, <2>2 DEF PathInv, Carriage, StreamUnits
  <1>9. Enumerating'
    BY <1>2, <1>4, <1>7 DEF PathInv, Enumerating
  <1>10. Followed'
    <2> SUFFICES ASSUME ~short' PROVE Followed'
      BY DEF Followed
    <2>1. ~short /\ n = ReportSize
      BY <1>2, <1>6
    <2>2. host = "talking"
      BY <1>2, <1>4, <2>1, TalkingStep
    <2>3. PICK payload \in Seq(PacketUnits) :
            /\ payload = Ping(Len(pings)) /\ Len(payload) <= MaxPayload
            /\ \E j \in 0 .. Parts(Len(payload)) : Outward(payload, j) \/ Inward(payload, j)
      BY <1>4, <2>1, <2>2, TalkingStep
    <2>4. PICK j \in 0 .. Parts(Len(payload)) : Outward(payload, j) \/ Inward(payload, j)
      BY <2>3
    <2>5. /\ j >= 1 /\ transaction = After(payload, j - 1) /\ stream = Cut(payload)[j]
          /\ packets = Rest(payload, j) /\ reports = <<>> /\ heard = Nothing
      BY <1>2, <2>4 DEF Outward, Inward
    <2>6. /\ j \in 1 .. Parts(Len(payload)) /\ j \in Nat /\ Parts(Len(payload)) \in Nat /\ Parts(Len(payload)) >= 1
          /\ Len(payload) \in Nat
      BY <2>3, <2>5, CutOf
    <2> DEFINE c == Cut(payload)[j]
    <2>7. c \in Seq(PacketUnits) /\ Len(c) = ReportSize
      BY <2>3, <2>6, CutOf
    <2>8. p = c
      BY <1>1, <2>1, <2>5, <2>7, FullRead
    <2>9. stream' = <<>>
      BY <1>2, <1>3, <2>1, <2>5, <2>7, SubSeqEmpty DEF Consumed
    <2>10. Joins(c) /\ Join(c) = After(payload, j) /\ (Complete(Join(c)) <=> j = Parts(Len(payload)))
      BY <2>3, <2>5, <2>6, PacketJoins
    <2>11. Joins(p) /\ Join(p) = After(payload, j) /\ (Complete(Join(p)) <=> j = Parts(Len(payload)))
      <3> HIDE DEF c
      <3> QED
        BY <2>8, <2>10
    <2>12. CASE j < Parts(Len(payload))
      <3>1. ~Complete(Join(p))
        BY <2>6, <2>11, <2>12
      <3>2. transaction' = After(payload, j) /\ reports' = reports
        BY <1>2, <2>11, <3>1
      <3>3. Outward(payload, j)'
        BY <1>2, <2>5, <2>9, <2>12, <3>2 DEF Outward
      <3> QED
        BY <1>2, <2>1, <2>2, <2>3, <3>3, SameMessage
    <2>13. CASE ~(j < Parts(Len(payload)))
      <3>1. j = Parts(Len(payload)) /\ Complete(Join(p))
        BY <2>6, <2>11, <2>13
      <3>2. /\ transaction' = Nothing
            /\ reports' = reports \o createResponsePackets(SubSeq(Join(p).payload, 1, Join(p).length))
        BY <1>2, <2>11, <3>1
      <3>3. SubSeq(Join(p).payload, 1, Join(p).length) = payload
        <4>1. Join(p).payload = Joined(payload, j) /\ Join(p).length = Len(payload)
          BY <2>3, <2>6, <2>11, AfterIs
        <4> QED
          BY <2>3, <3>1, <4>1, CutOf
      <3>4. packets' = <<>>
        BY <1>2, <2>3, <2>5, <3>1, RestIs
      <3>5. Inward(payload, 0)'
        <4>1. CASE payload = <<>>
          <5>1. reports' = <<>> \o <<>>
            BY <2>5, <3>2, <3>3, <4>1 DEF createResponsePackets
          <5>2. <<>> \o <<>> = <<>>
            BY EmptySeq, ConcatEmptySeq
          <5> QED
            BY <1>2, <2>5, <2>9, <3>2, <3>4, <4>1, <5>1, <5>2 DEF Inward
        <4>2. CASE payload # <<>>
          <5>1. reports' = <<>> \o Cut(payload)
            BY <2>5, <3>2, <3>3, <4>2 DEF createResponsePackets
          <5>2. Cut(payload) \in Seq(Seq(PacketUnits))
            BY <2>3, CutOf
          <5>3. <<>> \o Cut(payload) = Cut(payload)
            BY <5>2, ConcatEmptySeq
          <5>4. 0 \in 0 .. Parts(Len(payload)) /\ 0 \in 0 .. Parts(Len(payload)) - 1
            BY <2>6
          <5>5. Rest(payload, 0) = Cut(payload) /\ After(payload, 0) = Nothing
            BY <2>3, <5>4, RestIs, NothingAfterNone
          <5> QED
            BY <1>2, <2>5, <2>9, <3>2, <3>4, <4>2, <5>1, <5>3, <5>4, <5>5 DEF Inward
        <4> QED
          BY <4>1, <4>2
      <3>6. 0 \in 0 .. Parts(Len(payload))
        BY <2>6
      <3> QED
        BY <1>2, <2>1, <2>2, <2>3, <3>5, <3>6, SameMessage
    <2> QED
      BY <2>12, <2>13
  <1> QED
    BY <1>8, <1>9, <1>10 DEF PathInv

\* Every step preserves the invariant.
LEMMA PathInvNext ==
  ASSUME PathInv, [PathNext]_pathVars
  PROVE  PathInv'
  <1>1. CASE UNCHANGED pathVars
    BY <1>1 DEF pathVars, PathInv, Carriage, Enumerating, Followed, UnderWay, Outward, Inward, Ping
  <1>2. CASE Listen
    BY <1>2, ControlKeeps, SendPacketKeeps, HearKeeps DEF Listen
  <1>3. CASE Serve
    BY <1>3, ReadControlKeeps, ReadOutKeeps, ReadBufferKeeps, ReadStrayKeeps DEF Serve
  <1>4. CASE Arrive
    BY <1>4, ArriveKeeps
  <1>5. ASSUME NEW n \in 0 .. MaxPayload, SendPing(n) PROVE PathInv'
    BY <1>5, SendPingKeeps
  <1> QED
    BY <1>1, <1>2, <1>3, <1>4, <1>5 DEF PathNext

\* The inductive invariant holds in every session, whatever the sizes of a
\* report and its headers, the number of sequence numbers and of messages.
THEOREM PathInvariance == PathSpec => []PathInv
  BY PathInvInit, PathInvNext, PTL DEF PathSpec

\* No request a descriptor leads the host to ends the session: getDescriptor
\* and the handlers around it have an answer to each (usb_device.go).
THEOREM EnumerationServedHolds == PathSpec => []EnumerationServed
  <1>1. PathInv => EnumerationServed
    BY DEF PathInv, Enumerating, EnumerationServed
  <1> QED
    BY <1>1, PathInvariance, PTL

\* Cutting and joining are inverse for every length CTAPHID allows and for
\* reports of every size (createResponsePackets and addMessage), and nothing
\* between the stream and the host changes that, unless a Read is short.
THEOREM PongsIntactHolds == PathSpec => []PongsIntact
  <1>1. PathInv => PongsIntact
    <2> SUFFICES ASSUME PathInv, ~short, NEW k \in DOMAIN pongs PROVE pongs[k] = Ping(k)
      BY DEF PongsIntact
    <2>1. CASE host = "enumerating"
      <3>1. pongs = <<>>
        BY <2>1 DEF PathInv, Enumerating
      <3> QED
        BY <3>1
    <2>2. CASE host # "enumerating"
      <3>1. pongs \in Seq(Seq(PacketUnits)) /\ \A i \in 1 .. Len(pongs) : pongs[i] = Ping(i)
        BY <2>2 DEF PathInv, Followed
      <3>2. k \in 1 .. Len(pongs)
        BY <3>1
      <3> QED
        BY <3>1, <3>2
    <2> QED
      BY <2>1, <2>2
  <1> QED
    BY <1>1, PathInvariance, PTL

\* The server reads its headers where they begin as long as each Read of
\* handleCommandSubmit fills its buffer.
THEOREM InStepHolds == PathSpec => []InStep
  <1>1. PathInv => InStep
    <2> SUFFICES ASSUME PathInv, server = "stray", ~short PROVE FALSE
      BY DEF InStep
    <2>1. host # "enumerating"
      BY DEF PathInv, Enumerating
    <2>2. host # "ready"
      BY <2>1 DEF PathInv, Followed
    <2>3. PICK payload \in Seq(PacketUnits) : \E j \in 0 .. Parts(Len(payload)) : Outward(payload, j) \/ Inward(payload, j)
      BY <2>1, <2>2, TalkingStep
    <2> QED
      BY <2>3 DEF Outward, Inward
  <1> QED
    BY <1>1, PathInvariance, PTL
=============================================================================
