---------------------------- MODULE CtapHidProofs ----------------------------
(***************************************************************************)
(* Proofs about CtapHid, for any clients and any bounds: its types, its    *)
(* safety properties, and that it implements Exchange.                     *)
(*                                                                         *)
(* The inductive invariant follows a packet: it is pending or gathered     *)
(* (Live) in one place, belongs to the one client that uses its channel    *)
(* (LiveOK, Ownership), and becomes the message of the one goroutine in    *)
(* the channel's messageLock (OwnerOK), which sends no packet for an empty *)
(* PING and one at least for everything else (Mute). Channel ids are given *)
(* out once (Numbered) and suffice (Counted), responses hold responsesLock *)
(* (Locked), keepalives start once (Once). Two parts hold only as long as  *)
(* packets are handled in the order they were sent: what is gathered is    *)
(* followed by its own continuation (InOrder), and a client that never     *)
(* cancels has one request at one place (Flow). What the implementation    *)
(* needs besides is Served: the packets to the host are read once and the  *)
(* replies among them are the only ones to their requests, a client reads  *)
(* in order, and in order nothing but a beginning has a continuation after *)
(* it.                                                                     *)
(***************************************************************************)
EXTENDS CtapHid, SequenceTheorems, FiniteSetTheorems, TLAPS

ClientStates == [at : {"start", "opening", "ready", "continuing", "waiting"},
                 ch : Ids \union {Stale}, req : 0 .. MaxRequests, sent : Nat, seen : Nat]
Packets      == [client : Clients, n : Nat, ch : Ids \union {Stale}, kind : {"first", "next", "cancel"},
                 req : Requests, more : BOOLEAN, cmd : {"init", "cbor", "plain", "empty", "none"}]
Owners       == [at : {"free", "allocate", "store", "run", "send", "sending"}, message : Messages]
Tickers      == [at : {"off", "on", "firing"}, ch : Ids, stop : BOOLEAN, final : BOOLEAN, late : Nat]
Parts        == [kind : Kinds, ch : Ids \union {Stale}, of : Requests, id : Ids, last : BOOLEAN]

Typed ==
  /\ client \in [Clients -> ClientStates]
  /\ \A c \in Clients : client[c].at \in {"continuing", "waiting"} => client[c].req \in Requests
  /\ packets \subseteq Packets
  /\ maxChannelID \in Ids
  /\ channels \subseteq 0 .. maxChannelID
  /\ Broadcast \in channels
  /\ transaction \in [Ids -> Seq(Packets)]
  /\ \A ch \in Ids : Len(transaction[ch]) <= 1
  /\ owner \in [Ids -> Owners]
  /\ sender \in Ids \union {Nobody}
  /\ ticker \in [Requests -> Tickers]
  /\ out \in Seq(Parts)
  /\ requests \in 0 .. MaxRequests
  /\ cancels \in 0 .. MaxCancels
  /\ keepalives \in 0 .. MaxKeepalives
  /\ crashed \in BOOLEAN
  /\ reordered \in BOOLEAN
  /\ cancelled \subseteq Clients

-----------------------------------------------------------------------------
(* The inductive invariant. *)

Private == Ids \ {Broadcast}     \* the channels an INIT opens

On(ch)  == {p \in Live : p.ch = ch}

\* Packets: what a client can have sent, each in one place.
LiveOK ==
  /\ \A p \in Live :
       /\ p.req <= requests
       /\ p.n < client[p.client].sent
       /\ p.ch = Broadcast => p.kind = "first" /\ ~p.more
       /\ p.ch \in Private => client[p.client].ch = p.ch
  /\ \A p, q \in Live : p.client = q.client /\ p.n = q.n => p = q
  /\ \A p, q \in Live : p.kind = "first" /\ q.kind = "first" /\ p.req = q.req => p = q
  /\ \A ch \in Ids : transaction[ch] # <<>> =>
       LET t == transaction[ch][1] IN
       t.ch = ch /\ ch # Broadcast /\ ch \in channels /\ t.kind = "first" /\ t.more /\ t \notin packets

\* The goroutine in messageLock: its message, and how far it can be with it.
OwnerOK(ch) ==
  LET m == owner[ch].message IN
  IF owner[ch].at = "free" THEN owner[ch] = Free
  ELSE /\ ch \in channels
       /\ m.ch = ch
       /\ m.of \in 1 .. requests
       /\ ch = Broadcast => m.kind = "init" /\ m.parts = 1 /\ owner[ch].at \in {"allocate", "store", "send"}
       /\ ch # Broadcast => m.kind \in {"reply", "error"} /\ owner[ch].at \in {"run", "send", "sending"}
       /\ m.parts = (IF owner[ch].at = "sending" THEN 2 ELSE m.parts)
       /\ owner[ch].at = "run" => m.kind = "reply"
       /\ owner[ch].at \in {"send", "sending"} => m.parts \in {1, 2}

OwnersOK == \A ch \in Ids : OwnerOK(ch)

\* Channel ids: a goroutine of an INIT has the next one; those sent are all
\* different.
Numbered ==
  /\ owner[Broadcast].at = "store" => owner[Broadcast].message.id = maxChannelID + 1
  /\ owner[Broadcast].at = "send" =>
       /\ owner[Broadcast].message.id \in channels \ {Broadcast}
       /\ \A k \in 1 .. Len(out) : out[k].kind = "init" => out[k].id # owner[Broadcast].message.id
  /\ \A k \in 1 .. Len(out) : out[k].kind = "init" => out[k].id \in channels \ {Broadcast}
  /\ \A i, j \in 1 .. Len(out) : out[i].kind = "init" /\ out[j].kind = "init" /\ out[i].id = out[j].id => i = j

\* The INITs that have no id yet; ids and these are no more than the requests.
Opening == {p.req : p \in {q \in packets : q.ch = Broadcast}}
             \union (IF owner[Broadcast].at \in {"allocate", "store"} THEN {owner[Broadcast].message.of} ELSE {})
Counted == maxChannelID + Cardinality(Opening) <= requests

\* responsesLock, and what was sent under it.
Locked ==
  /\ \A ch \in Ids : owner[ch].at = "sending" <=> sender = ch
  /\ \A ch \in Ids : sender = ch => Len(out) > 0 /\ out[Len(out)] = Part(owner[ch].message, 1)
  /\ sender = Nobody => \A k \in 1 .. Len(out) : k = Len(out) => out[k].last
  /\ \A k \in 1 .. Len(out) : ~out[k].last => k = Len(out) \/ [out[k + 1] EXCEPT !.last = FALSE] = out[k]

\* Keepalives: nothing of a request has happened before its first packet is
\* handled, and none of its keepalives is left after a late one.
Once ==
  /\ \A p \in Live : p.kind = "first" =>
       /\ ticker[p.req] = Quiet
       /\ \A ch \in Ids : owner[ch].message.kind \in {"init", "reply"} => owner[ch].message.of # p.req
  /\ \A r \in Requests : r > requests => ticker[r] = Quiet
  /\ \A ch \in Ids : owner[ch].at \in {"send", "sending"} /\ owner[ch].message.kind = "reply"
                       => ticker[owner[ch].message.of].stop
  /\ \A r \in Requests :
       /\ ticker[r].final => ticker[r].stop
       /\ ticker[r].late <= 1
       /\ ticker[r].late = 1 => ticker[r].at = "off"

\* An empty PING is one packet, and its reply none.
Mute ==
  /\ empty \subseteq 1 .. requests
  /\ \A p \in Live : p.kind = "first" => (p.cmd = "empty" <=> p.req \in empty) /\ (p.cmd = "empty" => ~p.more)
  /\ \A ch \in Ids : owner[ch].message.kind = "reply" => (owner[ch].message.parts = 0 <=> owner[ch].message.of \in empty)

\* A client that waits has the end of its request pending, a goroutine that
\* will send on its channel, or something to read, or waits for a mute reply.
Ends(p) == p.kind = "next" \/ (p.kind = "first" /\ ~p.more)
Unforgotten(c) ==
  \/ client[c].req \in empty
  \/ \E p \in packets : p.client = c /\ p.ch = client[c].ch /\ p.req = client[c].req /\ Ends(p)
  \/ client[c].ch \in Ids /\ owner[client[c].ch] # Free /\ owner[client[c].ch].message.parts # 0
  \/ \E k \in 1 .. Len(out) : Final(c, k)
NoneForgotten ==
  \A c \in Clients :
    /\ client[c].seen <= Len(out)
    /\ client[c].at \in {"continuing", "waiting"} => client[c].ch # Broadcast
    /\ client[c].at = "waiting" => Unforgotten(c)

\* Clients and their channels.
Ownership ==
  /\ \A c \in Clients : client[c].req <= requests
  /\ \A k \in 1 .. Len(out) : out[k].of <= requests
  /\ \A c \in Clients : client[c].at \in {"start", "opening"} => client[c].ch \in {Broadcast, Stale}
  /\ \A c \in Clients : client[c].at = "ready" => client[c].ch # Broadcast
  /\ \A c \in Clients : client[c].ch \in Private =>
       \E k \in 1 .. Len(out) : out[k].kind = "init" /\ out[k].id = client[c].ch
  /\ \A c, d \in Clients : c # d => client[c].req # client[d].req \/ client[c].req = 0
  /\ \A c, d \in Clients : c # d => client[c].ch # client[d].ch \/ client[c].ch = Broadcast
  /\ \A c, d \in Clients, k \in 1 .. Len(out) :
       out[k].kind = "init" /\ client[d].ch = out[k].id /\ client[c].at = "opening" => client[c].req # out[k].of
  /\ \A ch \in Private : owner[ch] # Free => \E c \in Clients : client[c].ch = ch
  /\ \A c \in Clients, p \in Live : client[c].ch = Stale /\ p.ch = Stale => p.client = c

\* In order: what is gathered is followed by its own continuation.
Followed(t) ==
  \/ /\ client[t.client].at = "continuing" /\ client[t.client].ch = t.ch
     /\ client[t.client].req = t.req /\ client[t.client].sent = t.n + 1
  \/ \E q \in packets : q.client = t.client /\ q.ch = t.ch /\ q.n = t.n + 1 /\ q.kind = "next" /\ q.req = t.req
InOrder ==
  ~reordered =>
    /\ \A t \in Live : t.kind = "first" /\ t.more => Followed(t)
    /\ \A t \in Gathered, p \in packets : p.client = t.client => t.n < p.n

\* In order: where the request is of a client that never cancels.
Quiescent(ch) == On(ch) = {} /\ owner[ch] = Free
NothingRead(c) == \A k \in 1 .. Len(out) : ~Final(c, k)
Sent(c, p, more) == p.client = c /\ p.kind = "first" /\ (p.more <=> more) /\ p.req = client[c].req
Begun(c, ch) ==
  /\ \E t \in Live : On(ch) = {t} /\ Sent(c, t, TRUE)
  /\ owner[ch] = Free /\ NothingRead(c)
Whole(c, ch) ==
  /\ \/ \E p \in packets : On(ch) = {p} /\ Sent(c, p, FALSE)
     \/ \E t \in Live, q \in packets :
          /\ On(ch) = {t, q} /\ Sent(c, t, TRUE) /\ t.n < q.n
          /\ q.client = c /\ q.kind = "next" /\ q.req = client[c].req
  /\ owner[ch] = Free /\ NothingRead(c)
Worked(c, ch) == On(ch) = {} /\ owner[ch] # Free /\ owner[ch].message.of = client[c].req /\ NothingRead(c)
Replied(c, ch) == Quiescent(ch) /\ \A k \in 1 .. Len(out) : Final(c, k) => out[k].of = client[c].req

FlowOf(c, ch) ==
  /\ client[c].at = "ready" => Quiescent(ch)
  /\ client[c].at = "continuing" => Begun(c, ch)
  /\ client[c].at = "waiting" => Whole(c, ch) \/ Worked(c, ch) \/ Replied(c, ch)
Flow == ~reordered => \A c \in Clients \ cancelled : client[c].ch \in Private => FlowOf(c, client[c].ch)

\* A channel from before the restart knows errors only.
StaleOut(k) == out[k].ch = Stale /\ out[k].kind \in {"reply", "error"}
StaleFlow ==
  \A c \in Clients \ cancelled : client[c].ch = Stale =>
    /\ client[c].at = "ready" => On(Stale) = {} /\ \A k \in 1 .. Len(out) : ~StaleOut(k)
    /\ client[c].at \in {"continuing", "waiting"} =>
         /\ \A p \in On(Stale) : p.req = client[c].req
         /\ \A k \in 1 .. Len(out) : StaleOut(k) => out[k].of = client[c].req

\* A request has one reply, by one goroutine, and its keepalives have stopped
\* before that is sent.
OneReply ==
  /\ \A j \in 1 .. Len(out) : out[j].kind = "reply" =>
       /\ ticker[out[j].of].stop
       /\ out[j].last =>
            /\ \A k \in 1 .. Len(out) : out[k].kind = "reply" /\ out[k].last /\ out[k].of = out[j].of => k = j
            /\ \A ch \in Ids : owner[ch].message.kind = "reply" => owner[ch].message.of # out[j].of
  /\ \A ch, d \in Ids :
       owner[ch].message.kind = "reply" /\ owner[d].message.kind = "reply"
         /\ owner[ch].message.of = owner[d].message.of => ch = d

\* A reply that a client has taken is behind it when it asks again.
ReadOnce ==
  \A a \in answers : a.ch # Stale =>
    /\ a.client \in Clients /\ a.ch \in Private /\ client[a.client].ch = a.ch
    /\ a.kind = "reply" =>
         \E k \in 1 .. Len(out) :
           /\ out[k].kind = "reply" /\ out[k].last /\ out[k].of = a.of /\ out[k].ch = a.ch
           /\ client[a.client].at \in {"continuing", "waiting"} => k <= client[a.client].seen

\* A client's requests are numbered as it sends them.
Ordered == \A p, q \in Live : p.kind = "first" /\ q.kind = "first" /\ p.client = q.client /\ p.n < q.n => p.req < q.req

\* In order: a continuation comes after its beginning, and there are no errors.
Precedes(t, c, ch, n) == t.client = c /\ t.ch = ch /\ t.kind = "first" /\ t.more /\ n = t.n + 1
Preceded ==
  ~reordered =>
    /\ \A p \in packets : p.kind = "next" /\ p.ch \in Private => \E t \in Live : Precedes(t, p.client, p.ch, p.n)
    /\ \A c \in Clients : client[c].at = "continuing" /\ client[c].ch \in Private =>
         \E t \in Live : Precedes(t, c, client[c].ch, client[c].sent)
    /\ \A ch \in Ids : owner[ch].message.kind # "error"

\* What the refinement needs besides.
Served == OneReply /\ ReadOnce /\ Ordered /\ Preceded

IInv ==
  /\ Typed /\ LiveOK /\ OwnersOK /\ Mute /\ Numbered /\ Counted /\ Locked /\ Once /\ NoneForgotten
  /\ Ownership /\ InOrder /\ HandedAsSent /\ Flow /\ StaleFlow /\ AnswersOwnRequest

-----------------------------------------------------------------------------
(* What the operators of the model give, once and for all. *)

LEMMA Bounds == MaxRequests \in Nat /\ MaxCancels \in Nat /\ MaxKeepalives \in Nat
  BY CtapHidAssumption

LEMMA Names ==
  /\ Broadcast \in Ids /\ Broadcast # Stale /\ Stale \notin Ids /\ Nobody \notin Ids
  /\ Requests \subseteq Ids /\ 0 .. MaxRequests = Ids
  BY Bounds DEF Broadcast, Ids, Stale, Nobody, Requests

\* A packet is appended to what was sent.
LEMMA Appending ==
  ASSUME NEW S, NEW s \in Seq(S), NEW e \in S
  PROVE  /\ Append(s, e) \in Seq(S)
         /\ Len(Append(s, e)) = Len(s) + 1
         /\ \A k \in 1 .. Len(s) : Append(s, e)[k] = s[k]
         /\ Append(s, e)[Len(s) + 1] = e
  BY AppendProperties

\* Two packets in a row.
LEMMA Pair ==
  ASSUME NEW S, NEW t \in S, NEW p \in S
  PROVE  Append(<<t>>, p) = <<t, p>>
  <1>1. <<t>> \in Seq(S) /\ Len(<<t>>) = 1 /\ <<t>>[1] = t
    OBVIOUS
  <1>2. Append(<<t>>, p) \in Seq(S) /\ Len(Append(<<t>>, p)) = 2 /\ Append(<<t>>, p)[1] = t /\ Append(<<t>>, p)[2] = p
    BY <1>1, AppendProperties
  <1>3. <<t, p>> \in Seq(S) /\ Len(<<t, p>>) = 2 /\ <<t, p>>[1] = t /\ <<t, p>>[2] = p
    OBVIOUS
  <1>4. \A i \in 1 .. 2 : i = 1 \/ i = 2
    OBVIOUS
  <1> QED
    BY <1>1, <1>2, <1>3, <1>4, SeqEqual

\* What a channel has gathered is one packet.
LEMMA GatheredOne ==
  ASSUME Typed, NEW ch \in Ids, transaction[ch] # <<>>
  PROVE  /\ transaction[ch][1] \in Packets
         /\ transaction[ch] = <<transaction[ch][1]>>
         /\ transaction[ch][1] \in Gathered
  <1>1. transaction[ch] \in Seq(Packets) /\ Len(transaction[ch]) <= 1
    BY DEF Typed
  <1>2. Len(transaction[ch]) = 1
    <2>1. Len(transaction[ch]) \in Nat \ {0}
      BY <1>1, EmptySeq, Zenon
    <2>2. \A n \in Nat \ {0} : n <= 1 => n = 1
      OBVIOUS
    <2> QED
      BY <1>1, <2>1, <2>2, Zenon
  <1>3. transaction[ch][1] \in Packets
    BY <1>1, <1>2, ElementOfSeq
  <1>4. transaction[ch] = <<transaction[ch][1]>>
    BY <1>1, <1>2
  <1>5. transaction[ch][1] \in Gathered
    BY DEF Gathered
  <1> QED
    BY <1>3, <1>4, <1>5

LEMMA LivePackets == Typed => Live \subseteq Packets /\ Gathered \subseteq Packets
  BY GatheredOne DEF Typed, Live, Gathered

-----------------------------------------------------------------------------
(* Types. *)

LEMMA InitTyped == Init => Typed
  <1> SUFFICES ASSUME Init PROVE Typed
    OBVIOUS
  <1> USE Bounds, Names DEF Init
  <1>1. client \in [Clients -> ClientStates]
    BY DEF Client, ClientStates, Broadcast, Ids
  <1>7. \A c \in Clients : client[c].at \in {"start", "ready"}
    <2>1. PICK stale \in Clients \union {Nobody} :
            client = [c \in Clients |-> IF c = stale THEN Client("ready", Stale) ELSE Client("start", Broadcast)]
      OBVIOUS
    <2> QED
      BY <2>1 DEF Client
  <1>2. NoMessage \in Messages /\ Quiet \in Tickers /\ Free \in Owners
    BY DEF NoMessage, Message, Messages, Kinds, Ids, Quiet, Tickers, Free, Owners
  <1>3. owner \in [Ids -> Owners] /\ ticker \in [Requests -> Tickers]
    BY <1>2
  <1>4. transaction \in [Ids -> Seq(Packets)] /\ \A ch \in Ids : Len(transaction[ch]) <= 1
    BY EmptySeq
  <1>5. out \in Seq(Parts)
    BY EmptySeq
  <1>6. channels \subseteq 0 .. maxChannelID /\ Broadcast \in channels /\ maxChannelID \in Ids
    BY DEF Broadcast, Ids
  <1> QED
    BY <1>1, <1>3, <1>4, <1>5, <1>6, <1>7 DEF Typed

\* What a step of a client may change, and its types.
Own(c) ==
  /\ client' = [client EXCEPT ![c] = client'[c]]
  /\ client'[c] \in ClientStates
  /\ client'[c].at \in {"continuing", "waiting"} => client'[c].req \in Requests
  /\ UNCHANGED <<maxChannelID, channels, transaction, owner, sender, ticker, out, keepalives, crashed, history>>

LEMMA OwnTyped ==
  ASSUME Typed, NEW c \in Clients, Own(c), packets' \subseteq Packets,
         requests' \in 0 .. MaxRequests, cancels' \in 0 .. MaxCancels, cancelled' \subseteq Clients
  PROVE  Typed'
  BY DEF Typed, Own, history

\* A client sends a packet.
Sending(c, p) ==
  /\ Own(c)
  /\ p \in Packets /\ p.client = c /\ p.n = client[c].sent
  /\ packets' = packets \union {p}
  /\ client'[c].sent = client[c].sent + 1
  /\ client'[c].ch = client[c].ch
  /\ client'[c].req = p.req

\* Its first packet: a new request.
Asking(c, p) ==
  /\ Sending(c, p)
  /\ requests' = requests + 1 /\ requests' \in Requests /\ p.req = requests'
  /\ p.kind = "first" /\ (p.cmd = "empty" => ~p.more)
  /\ empty' = (IF p.cmd = "empty" THEN empty \union {p.req} ELSE empty)
  /\ UNCHANGED <<cancels, answers, cancelled>>

LEMMA OpenDoes ==
  ASSUME Typed, NEW c \in Clients, Open(c)
  PROVE  /\ client[c].at = "start"
         /\ client'[c].at = "opening" /\ client'[c].seen = client[c].seen
         /\ \E p : Asking(c, p) /\ p.ch = Broadcast /\ ~p.more
  <1> DEFINE p == Packet(c, Broadcast, "first", requests + 1, FALSE, "init")
  <1> USE Bounds DEF Open
  <1>1. requests + 1 \in Requests /\ requests' \in Requests
    BY DEF Typed, Requests
  <1>2. /\ p \in Packets /\ p.client = c /\ p.n = client[c].sent /\ p.ch = Broadcast
        /\ p.kind = "first" /\ p.req = requests + 1 /\ p.more = FALSE /\ p.cmd = "init"
    BY <1>1, Names DEF Typed, ClientStates, Packet, Packets
  <1> HIDE DEF p
  <1>3. /\ client' = [client EXCEPT ![c] = client'[c]]
        /\ client'[c] \in ClientStates
        /\ client'[c].at = "opening" /\ client'[c].ch = client[c].ch /\ client'[c].req = requests + 1
        /\ client'[c].sent = client[c].sent + 1 /\ client'[c].seen = client[c].seen
    <2> DEFINE n == client[c].sent + 1
    <2>1. client[c] \in ClientStates /\ n \in Nat
      BY DEF Typed, ClientStates
    <2>2. /\ client' = [client EXCEPT ![c] = client'[c]]
          /\ client'[c] = [client[c] EXCEPT !.at = "opening", !.req = requests + 1, !.sent = n]
      BY DEF Typed
    <2>3. requests + 1 \in 0 .. MaxRequests
      BY <1>1 DEF Requests
    <2> HIDE DEF n, Open, Request
    <2>4. client'[c] \in ClientStates /\ client'[c].ch = client[c].ch /\ client'[c].sent = n
      BY <1>1, <2>1, <2>2, <2>3 DEF ClientStates
    <2> QED
      BY <2>1, <2>2, <2>4 DEF n, ClientStates
  <1>4. packets' = packets \union {p}
    BY DEF Sends, p
  <1>5. Asking(c, p)
    BY <1>1, <1>2, <1>3, <1>4 DEF Asking, Sending, Own
  <1> QED
    BY <1>2, <1>3, <1>5

LEMMA RequestDoes ==
  ASSUME Typed, NEW c \in Clients, NEW more \in BOOLEAN, NEW cmd \in {"cbor", "plain", "empty"}, Request(c, more, cmd)
  PROVE  /\ client[c].at = "ready"
         /\ client'[c].at = (IF more THEN "continuing" ELSE "waiting") /\ client'[c].seen = Len(out)
         /\ \E p : Asking(c, p) /\ p.ch = client[c].ch /\ (p.more <=> more)
  <1> DEFINE p == Packet(c, client[c].ch, "first", requests + 1, more, cmd)
  <1> USE Bounds DEF Request
  <1>1. requests + 1 \in Requests /\ requests' \in Requests /\ Len(out) \in Nat
    BY LenProperties DEF Typed, Requests
  <1>2. client[c].ch \in Ids \union {Stale}
    BY DEF Typed, ClientStates
  <1>3. /\ p \in Packets /\ p.client = c /\ p.n = client[c].sent /\ p.ch = client[c].ch
        /\ p.kind = "first" /\ p.req = requests + 1 /\ p.more = more /\ p.cmd = cmd
    BY <1>1, <1>2 DEF Typed, ClientStates, Packet, Packets
  <1> HIDE DEF p
  <1>4. /\ client' = [client EXCEPT ![c] = client'[c]]
        /\ client'[c] \in ClientStates
        /\ client'[c].at = (IF more THEN "continuing" ELSE "waiting")
        /\ client'[c].ch = client[c].ch /\ client'[c].req = requests + 1
        /\ client'[c].sent = client[c].sent + 1 /\ client'[c].seen = Len(out)
    <2> DEFINE n == client[c].sent + 1
    <2>1. client[c] \in ClientStates /\ n \in Nat
      BY DEF Typed, ClientStates
    <2>2. /\ client' = [client EXCEPT ![c] = client'[c]]
          /\ client'[c] = [client[c] EXCEPT !.at = IF more THEN "continuing" ELSE "waiting",
                                          !.req = requests + 1, !.sent = n, !.seen = Len(out)]
      BY DEF Typed
    <2>3. requests + 1 \in 0 .. MaxRequests
      BY <1>1 DEF Requests
    <2> HIDE DEF n, Open, Request
    <2>4. client'[c] \in ClientStates /\ client'[c].ch = client[c].ch /\ client'[c].sent = n
      BY <1>1, <2>1, <2>2, <2>3 DEF ClientStates
    <2> QED
      BY <2>1, <2>2, <2>4 DEF n, ClientStates
  <1>5. packets' = packets \union {p}
    BY DEF Sends, p
  <1>6. Asking(c, p)
    BY <1>1, <1>3, <1>4, <1>5 DEF Asking, Sending, Own
  <1> QED
    BY <1>3, <1>4, <1>6

LEMMA ContinueDoes ==
  ASSUME Typed, NEW c \in Clients, Continue(c)
  PROVE  /\ client[c].at = "continuing"
         /\ client'[c].at = "waiting" /\ client'[c].req = client[c].req /\ client'[c].seen = client[c].seen
         /\ UNCHANGED <<requests, cancels, empty, answers, cancelled>>
         /\ \E p : Sending(c, p) /\ p.ch = client[c].ch /\ p.kind = "next"
  <1> DEFINE p == Packet(c, client[c].ch, "next", client[c].req, FALSE, "none")
  <1> USE DEF Continue
  <1>1. client[c].req \in Requests /\ client[c].ch \in Ids \union {Stale}
    BY DEF Typed, ClientStates
  <1>2. /\ p \in Packets /\ p.client = c /\ p.n = client[c].sent /\ p.ch = client[c].ch
        /\ p.kind = "next" /\ p.req = client[c].req
    BY <1>1 DEF Typed, ClientStates, Packet, Packets
  <1> HIDE DEF p
  <1>3. /\ client' = [client EXCEPT ![c] = client'[c]]
        /\ client'[c] \in ClientStates
        /\ client'[c].at = "waiting" /\ client'[c].ch = client[c].ch /\ client'[c].req = client[c].req
        /\ client'[c].sent = client[c].sent + 1 /\ client'[c].seen = client[c].seen
    <2> DEFINE n == client[c].sent + 1
    <2>1. client[c] \in ClientStates /\ n \in Nat
      BY DEF Typed, ClientStates
    <2>2. /\ client' = [client EXCEPT ![c] = client'[c]]
          /\ client'[c] = [client[c] EXCEPT !.at = "waiting", !.sent = n]
      BY DEF Typed
    <2> HIDE DEF n, Continue
    <2>3. client'[c] \in ClientStates /\ client'[c].ch = client[c].ch /\ client'[c].sent = n
      BY <2>1, <2>2 DEF ClientStates
    <2> QED
      BY <2>1, <2>2, <2>3 DEF n, ClientStates
  <1>4. packets' = packets \union {p}
    BY DEF Sends, p
  <1>5. Sending(c, p)
    BY <1>1, <1>2, <1>3, <1>4 DEF Sending, Own
  <1> QED
    BY <1>2, <1>3, <1>5

LEMMA CancelDoes ==
  ASSUME Typed, NEW c \in Clients, Cancel(c)
  PROVE  /\ client[c].at = "waiting"
         /\ client'[c].at = "ready" /\ client'[c].req = client[c].req /\ client'[c].seen = client[c].seen
         /\ UNCHANGED <<requests, empty, answers>> /\ cancelled' = cancelled \union {c} /\ cancels' \in 0 .. MaxCancels
         /\ \E p : Sending(c, p) /\ p.ch = client[c].ch /\ p.kind = "cancel"
  <1> DEFINE p == Packet(c, client[c].ch, "cancel", client[c].req, FALSE, "none")
  <1> USE Bounds DEF Cancel
  <1>1. client[c].req \in Requests /\ client[c].ch \in Ids \union {Stale}
    BY DEF Typed, ClientStates
  <1>2. /\ p \in Packets /\ p.client = c /\ p.n = client[c].sent /\ p.ch = client[c].ch
        /\ p.kind = "cancel" /\ p.req = client[c].req
    BY <1>1 DEF Typed, ClientStates, Packet, Packets
  <1> HIDE DEF p
  <1>3. /\ client' = [client EXCEPT ![c] = client'[c]]
        /\ client'[c] \in ClientStates
        /\ client'[c].at = "ready" /\ client'[c].ch = client[c].ch /\ client'[c].req = client[c].req
        /\ client'[c].sent = client[c].sent + 1 /\ client'[c].seen = client[c].seen
    <2> DEFINE n == client[c].sent + 1
    <2>1. client[c] \in ClientStates /\ n \in Nat
      BY DEF Typed, ClientStates
    <2>2. /\ client' = [client EXCEPT ![c] = client'[c]]
          /\ client'[c] = [client[c] EXCEPT !.at = "ready", !.sent = n]
      BY DEF Typed
    <2> HIDE DEF n, Cancel
    <2>3. client'[c] \in ClientStates /\ client'[c].ch = client[c].ch /\ client'[c].sent = n
      BY <2>1, <2>2 DEF ClientStates
    <2> QED
      BY <2>1, <2>2, <2>3 DEF n, ClientStates
  <1>4. packets' = packets \union {p} /\ cancels' \in 0 .. MaxCancels
    BY DEF Sends, p, Typed
  <1>5. Sending(c, p)
    BY <1>1, <1>2, <1>3, <1>4 DEF Sending, Own
  <1> QED
    BY <1>2, <1>3, <1>4, <1>5

\* A client takes a message.
Taking(c) ==
  /\ Own(c)
  /\ UNCHANGED <<packets, requests, cancels, empty, cancelled>>
  /\ client'[c].req = client[c].req /\ client'[c].sent = client[c].sent /\ client'[c].seen = client[c].seen

LEMMA OpenedDoes ==
  ASSUME Typed, NEW c \in Clients, Opened(c)
  PROVE  /\ Taking(c) /\ answers' = answers
         /\ client[c].at = "opening" /\ client'[c].at = "ready"
         /\ \E k \in 1 .. Len(out) : out[k].kind = "init" /\ out[k].of = client[c].req /\ client'[c].ch = out[k].id
  <1> USE DEF Opened
  <1>1. PICK k \in DOMAIN out : /\ out[k].kind = "init" /\ out[k].of = client[c].req
                                /\ client' = [client EXCEPT ![c].at = "ready", ![c].ch = out[k].id]
    OBVIOUS
  <1>2. k \in 1 .. Len(out) /\ out[k] \in Parts
    BY <1>1, LenProperties, ElementOfSeq DEF Typed
  <1>3. out[k].id \in Ids
    BY <1>2 DEF Parts
  <1>4. /\ client' = [client EXCEPT ![c] = client'[c]]
        /\ client'[c] \in ClientStates
        /\ client'[c].at = "ready" /\ client'[c].ch = out[k].id /\ client'[c].req = client[c].req
        /\ client'[c].sent = client[c].sent /\ client'[c].seen = client[c].seen
    BY <1>1, <1>3 DEF Typed, ClientStates
  <1> QED
    BY <1>1, <1>2, <1>4 DEF Taking, Own

LEMMA AnsweredDoes ==
  ASSUME Typed, NEW c \in Clients, Answered(c)
  PROVE  /\ Taking(c) /\ client[c].at = "waiting"
         /\ client'[c].at = (IF client[c].ch = Stale THEN "start" ELSE "ready") /\ client'[c].ch = client[c].ch
         /\ \E k \in 1 .. Len(out) :
              /\ Final(c, k)
              /\ answers' = answers \union {[client |-> c, ch |-> client[c].ch, req |-> client[c].req,
                                             kind |-> out[k].kind, of |-> out[k].of]}
  <1> USE DEF Answered
  <1>1. PICK k \in DOMAIN out :
          /\ Final(c, k)
          /\ answers' = answers \union {[client |-> c, ch |-> client[c].ch, req |-> client[c].req,
                                         kind |-> out[k].kind, of |-> out[k].of]}
          /\ client' = [client EXCEPT ![c].at = IF client[c].ch = Stale THEN "start" ELSE "ready"]
    OBVIOUS
  <1>2. k \in 1 .. Len(out)
    BY <1>1, LenProperties DEF Typed
  <1>3. /\ client' = [client EXCEPT ![c] = client'[c]]
        /\ client'[c] \in ClientStates
        /\ client'[c].at = (IF client[c].ch = Stale THEN "start" ELSE "ready") /\ client'[c].ch = client[c].ch
        /\ client'[c].req = client[c].req
        /\ client'[c].sent = client[c].sent /\ client'[c].seen = client[c].seen
    BY <1>1 DEF Typed, ClientStates
  <1> QED
    BY <1>1, <1>2, <1>3 DEF Taking, Own

LEMMA ClientTyped ==
  ASSUME Typed, ClientStep
  PROVE  Typed'
  <1>1. ASSUME NEW c \in Clients, NEW p, Sending(c, p),
               requests' \in 0 .. MaxRequests, cancels' \in 0 .. MaxCancels, cancelled' \subseteq Clients
        PROVE  Typed'
    BY <1>1, OwnTyped DEF Sending, Typed
  <1>2. requests \in 0 .. MaxRequests /\ cancels \in 0 .. MaxCancels /\ cancelled \subseteq Clients /\ packets \subseteq Packets
    BY DEF Typed
  <1>3. ASSUME NEW c \in Clients, NEW p, Asking(c, p) PROVE Typed'
    BY <1>1, <1>2, <1>3, Bounds DEF Asking, Requests
  <1>4. ASSUME NEW c \in Clients, Taking(c) PROVE Typed'
    BY <1>2, <1>4, OwnTyped DEF Taking
  <1>5. ASSUME NEW c \in Clients, Continue(c) \/ Cancel(c) PROVE Typed'
    BY <1>1, <1>2, <1>5, ContinueDoes, CancelDoes
  <1> QED
    BY <1>3, <1>4, <1>5, OpenDoes, RequestDoes, OpenedDoes, AnsweredDoes DEF ClientStep

\* A packet comes to its channel: what that changes at most.
Handling(p) ==
  /\ p \in packets
  /\ packets' = packets \ {p}
  /\ reordered' = (reordered \/ \E q \in packets : q.client = p.client /\ q.n < p.n)
  /\ UNCHANGED <<client, requests, cancels, empty, answers, cancelled, maxChannelID, channels, sender, keepalives, crashed>>

LEMMA HandleDoes ==
  ASSUME NEW p, Handle(p)
  PROVE  Handling(p)
  BY DEF Handle, Handling, Taken, Locks, UnknownChannel, Gather, Drop, Reject, Complete, host

\* One channel gathers a packet or drops it.
LEMMA GatherTyped ==
  ASSUME Typed, NEW ch, NEW gathered \in Seq(Packets), Len(gathered) <= 1,
         transaction' = [transaction EXCEPT ![ch] = gathered]
  PROVE  transaction' \in [Ids -> Seq(Packets)] /\ \A d \in Ids : Len(transaction'[d]) <= 1
  <1>1. transaction' \in [Ids -> Seq(Packets)]
    BY DEF Typed
  <1>2. \A d \in Ids : transaction'[d] = IF d = ch THEN gathered ELSE transaction[d]
    BY DEF Typed
  <1>3. \A d \in Ids : Len(transaction'[d]) <= 1
    BY <1>2 DEF Typed
  <1> QED
    BY <1>1, <1>3

LEMMA HandleTyped ==
  ASSUME Typed, NEW p, Handle(p),
         transaction' \in [Ids -> Seq(Packets)], \A ch \in Ids : Len(transaction'[ch]) <= 1,
         owner' \in [Ids -> Owners], ticker' \in [Requests -> Tickers], out' \in Seq(Parts)
  PROVE  Typed'
  BY HandleDoes DEF Handling, Typed

\* What each of the five does besides.
LEMMA UnknownDoes ==
  ASSUME Typed, NEW p, UnknownChannel(p)
  PROVE  /\ p \in Packets /\ p.ch \notin channels /\ sender = Nobody
         /\ UNCHANGED <<transaction, owner, ticker, handed>>
         /\ \E e \in Parts : /\ out' = Append(out, e)
                             /\ e.kind = "error" /\ e.ch = p.ch /\ e.of = p.req /\ e.last
  <1> DEFINE m == Message("error", p.ch, p.req, 0, 1)
             e == Part(m, 1)
  <1> USE DEF UnknownChannel
  <1>1. p \in Packets
    BY DEF Typed
  <1>2. p.ch \in Ids \union {Stale} /\ p.req \in Requests /\ 0 \in Ids /\ 1 \in 0 .. 2
    BY <1>1, Bounds DEF Packets, Ids
  <1>3. e \in Parts /\ e.kind = "error" /\ e.ch = p.ch /\ e.of = p.req /\ e.last
    BY <1>2 DEF Part, Parts, Message, Kinds
  <1> HIDE DEF e
  <1>4. out' = Append(out, e)
    BY DEF e
  <1> QED
    BY <1>1, <1>3, <1>4

LEMMA LocksDoes ==
  ASSUME Typed, NEW p, Locks(p)
  PROVE  p \in packets /\ p \in Packets /\ p.ch \in Ids /\ p.ch \in channels /\ owner[p.ch] = Free
  <1>1. channels \subseteq Ids
    BY Bounds DEF Typed, Ids
  <1> QED
    BY <1>1 DEF Locks, Typed

LEMMA RejectDoes ==
  ASSUME Typed, NEW p, Reject(p)
  PROVE  /\ transaction' = [transaction EXCEPT ![p.ch] = <<>>] /\ UNCHANGED <<ticker, out, handed>>
         /\ \/ transaction[p.ch] = <<>> /\ p.kind = "next"
            \/ transaction[p.ch] # <<>> /\ p.kind = "first"
         /\ \E o \in Owners :
              /\ owner' = [owner EXCEPT ![p.ch] = o] /\ o.at = "send"
              /\ o.message.kind = "error" /\ o.message.ch = p.ch /\ o.message.of = p.req /\ o.message.parts = 1
  <1> DEFINE m == Message("error", p.ch, p.req, 0, 1)
             o == At("send", m)
  <1> USE DEF Reject
  <1>1. p.ch \in Ids /\ p.req \in Requests /\ 0 \in Ids /\ 1 \in 0 .. 2
    BY LocksDoes, Bounds DEF Packets, Ids
  <1>2. /\ o \in Owners /\ o.at = "send" /\ o.message = m
        /\ m.kind = "error" /\ m.ch = p.ch /\ m.of = p.req /\ m.parts = 1
    BY <1>1, Names DEF At, Owners, Message, Messages, Kinds
  <1> HIDE DEF o
  <1>3. owner' = [owner EXCEPT ![p.ch] = o]
    BY DEF o
  <1> QED
    BY <1>2, <1>3

\* The first packet of the message that p completes.
Head1(p) == IF transaction[p.ch] = <<>> THEN p ELSE transaction[p.ch][1]

LEMMA WholeHead ==
  ASSUME Typed, NEW p, Complete(p)
  PROVE  /\ Append(transaction[p.ch], p) = IF transaction[p.ch] = <<>> THEN <<p>> ELSE <<transaction[p.ch][1], p>>
         /\ Append(transaction[p.ch], p)[1] = Head1(p)
         /\ Head1(p) \in Packets
         /\ Head1(p) \in Live
  <1> USE DEF Complete
  <1>1. p \in packets /\ p \in Packets /\ p.ch \in Ids
    BY LocksDoes
  <1>2. CASE transaction[p.ch] = <<>>
    BY <1>1, <1>2 DEF Head1, Live
  <1>3. CASE transaction[p.ch] # <<>>
    <2> DEFINE t == transaction[p.ch][1]
    <2>1. transaction[p.ch] = <<t>> /\ t \in Packets /\ t \in Gathered
      BY <1>1, <1>3, GatheredOne
    <2> HIDE DEF t
    <2>2. Append(<<t>>, p) = <<t, p>> /\ Append(<<t>>, p)[1] = t
      BY <1>1, <2>1, Pair
    <2> QED
      BY <1>3, <2>1, <2>2 DEF Head1, Live, t
  <1> QED
    BY <1>2, <1>3

LEMMA HeadBegins ==
  ASSUME Typed, LiveOK, NEW p, Complete(p)
  PROVE  Head1(p).kind = "first" /\ (transaction[p.ch] # <<>> => Head1(p).more)
  <1>1. p.ch \in Ids
    BY LocksDoes DEF Complete
  <1> QED
    BY <1>1 DEF Complete, Head1, LiveOK

LEMMA CompleteDoes ==
  ASSUME Typed, NEW p, Complete(p)
  PROVE  /\ transaction' = [transaction EXCEPT ![p.ch] = <<>>] /\ out' = out
         /\ \/ transaction[p.ch] = <<>> /\ p.kind = "first" /\ ~p.more
            \/ transaction[p.ch] # <<>> /\ p.kind = "next"
         /\ handed' = handed \union {Append(transaction[p.ch], p)}
         /\ \E o \in Owners :
              /\ owner' = [owner EXCEPT ![p.ch] = o]
              /\ o.message.ch = p.ch /\ o.message.of = Head1(p).req
              /\ p.ch = Broadcast => o.at = "allocate" /\ o.message.kind = "init" /\ o.message.parts = 1
              /\ p.ch # Broadcast => /\ o.at = "run" /\ o.message.kind = "reply"
                                     /\ o.message.parts = (IF Head1(p).cmd = "empty" THEN 0 ELSE 1)
         /\ ticker' \in [Requests -> Tickers]
         /\ \A r \in Requests :
              /\ r # Head1(p).req => ticker'[r] = ticker[r]
              /\ ticker'[r].stop = ticker[r].stop /\ ticker'[r].final = ticker[r].final
              /\ ticker'[r].late = ticker[r].late
  <1> DEFINE req == Head1(p).req
             parts == IF Head1(p).cmd = "empty" THEN 0 ELSE 1
  <1>1. p.ch \in Ids /\ Head1(p) \in Packets /\ Append(transaction[p.ch], p)[1] = Head1(p)
    BY LocksDoes, WholeHead DEF Complete
  <1>2. req \in Requests /\ 0 \in Ids /\ 1 \in 0 .. 2 /\ parts \in 0 .. 2
    BY <1>1, Bounds DEF Packets, Ids
  <1>3. Start(p, req, Head1(p).cmd)
    BY <1>1 DEF Complete
  <1>6. p.ch # Broadcast => owner' = [owner EXCEPT ![p.ch] = At("run", Message("reply", p.ch, req, 0, parts))]
    BY <1>3 DEF Start
  <1> HIDE DEF req, parts
  <1>4. \E o \in Owners :
          /\ owner' = [owner EXCEPT ![p.ch] = o]
          /\ o.message.ch = p.ch /\ o.message.of = req
          /\ p.ch = Broadcast => o.at = "allocate" /\ o.message.kind = "init" /\ o.message.parts = 1
          /\ p.ch # Broadcast => o.at = "run" /\ o.message.kind = "reply" /\ o.message.parts = parts
    <2>1. CASE p.ch = Broadcast
      <3> DEFINE m == Message("init", p.ch, req, 0, 1)
                 o == At("allocate", m)
      <3>1. /\ o \in Owners /\ o.at = "allocate" /\ o.message = m
            /\ m.kind = "init" /\ m.ch = p.ch /\ m.of = req /\ m.parts = 1
        BY <1>1, <1>2, Names DEF At, Owners, Message, Messages, Kinds
      <3>2. owner' = [owner EXCEPT ![p.ch] = o]
        BY <1>3, <2>1 DEF Start
      <3> HIDE DEF o
      <3> QED
        BY <2>1, <3>1, <3>2
    <2>2. CASE p.ch # Broadcast
      <3> DEFINE m == Message("reply", p.ch, req, 0, parts)
                 o == At("run", m)
      <3>1. /\ o \in Owners /\ o.at = "run" /\ o.message = m
            /\ m.kind = "reply" /\ m.ch = p.ch /\ m.of = req /\ m.parts = parts
        BY <1>1, <1>2, Names DEF At, Owners, Message, Messages, Kinds
      <3>2. owner' = [owner EXCEPT ![p.ch] = o]
        BY <1>6, <2>2
      <3> HIDE DEF o
      <3> QED
        BY <2>2, <3>1, <3>2
    <2> QED
      BY <2>1, <2>2
  <1>5. /\ ticker' \in [Requests -> Tickers]
        /\ \A r \in Requests :
             /\ r # req => ticker'[r] = ticker[r]
             /\ ticker'[r].stop = ticker[r].stop /\ ticker'[r].final = ticker[r].final
             /\ ticker'[r].late = ticker[r].late
    <2>1. ticker' = ticker \/ ticker' = [ticker EXCEPT ![req].at = "on", ![req].ch = p.ch]
      BY <1>3 DEF Start
    <2>2. ticker \in [Requests -> Tickers]
      BY DEF Typed
    <2>3. CASE ticker' = [ticker EXCEPT ![req].at = "on", ![req].ch = p.ch]
      <3> DEFINE t == [ticker[req] EXCEPT !.at = "on", !.ch = p.ch]
      <3>1. t \in Tickers /\ t.stop = ticker[req].stop /\ t.final = ticker[req].final /\ t.late = ticker[req].late
        BY <1>1, <1>2, <2>2 DEF Tickers
      <3>2. ticker' = [ticker EXCEPT ![req] = t]
        BY <1>2, <2>2, <2>3
      <3> QED
        BY <1>2, <2>2, <3>1, <3>2
    <2> QED
      BY <2>1, <2>2, <2>3
  <1> QED
    BY <1>4, <1>5 DEF Complete, req, parts

LEMMA HandlesTyped ==
  ASSUME Typed, NEW p, Handle(p)
  PROVE  Typed'
  <1>1. /\ transaction \in [Ids -> Seq(Packets)] /\ \A ch \in Ids : Len(transaction[ch]) <= 1
        /\ owner \in [Ids -> Owners] /\ ticker \in [Requests -> Tickers] /\ out \in Seq(Parts)
    BY DEF Typed
  <1>2. transaction' = [transaction EXCEPT ![p.ch] = <<>>] =>
          transaction' \in [Ids -> Seq(Packets)] /\ \A ch \in Ids : Len(transaction'[ch]) <= 1
    <2>1. <<>> \in Seq(Packets) /\ Len(<<>>) <= 1
      BY EmptySeq
    <2> QED
      BY <2>1, GatherTyped
  <1>3. \A o \in Owners : owner' = [owner EXCEPT ![p.ch] = o] => owner' \in [Ids -> Owners]
    BY <1>1
  <1>4. CASE UnknownChannel(p)
    <2>1. PICK e \in Parts : out' = Append(out, e)
      BY <1>4, UnknownDoes
    <2>2. out' \in Seq(Parts)
      BY <1>1, <2>1, Appending
    <2>3. UNCHANGED <<transaction, owner, ticker>>
      BY <1>4, UnknownDoes
    <2> QED
      BY <1>1, <2>2, <2>3, HandleTyped
  <1>5. CASE Gather(p)
    <2>1. <<p>> \in Seq(Packets) /\ Len(<<p>>) <= 1
      BY <1>5, LocksDoes DEF Gather
    <2>2. transaction' = [transaction EXCEPT ![p.ch] = <<p>>]
      BY <1>5 DEF Gather
    <2>3. transaction' \in [Ids -> Seq(Packets)] /\ \A ch \in Ids : Len(transaction'[ch]) <= 1
      BY <2>1, <2>2, GatherTyped
    <2> QED
      BY <1>1, <1>5, <2>3, HandleTyped DEF Gather
  <1>6. CASE Drop(p)
    BY <1>1, <1>2, <1>6, HandleTyped DEF Drop
  <1>7. CASE Reject(p)
    <2>1. owner' \in [Ids -> Owners]
      BY <1>3, <1>7, RejectDoes
    <2> QED
      BY <1>1, <1>2, <1>7, <2>1, RejectDoes, HandleTyped
  <1>8. CASE Complete(p)
    <2>1. owner' \in [Ids -> Owners]
      BY <1>3, <1>8, CompleteDoes
    <2> QED
      BY <1>1, <1>2, <1>8, <2>1, CompleteDoes, HandleTyped
  <1> QED
    BY <1>4, <1>5, <1>6, <1>7, <1>8 DEF Handle

\* There is an id for every INIT that has none yet.
LEMMA OpeningFinite ==
  ASSUME Typed, OwnersOK
  PROVE  Opening \subseteq 1 .. MaxRequests /\ IsFiniteSet(Opening) /\ Cardinality(Opening) \in Nat
  <1>1. Broadcast \in Ids /\ requests \in 0 .. MaxRequests /\ MaxRequests \in Nat
    BY Names, Bounds DEF Typed
  <1>2. owner[Broadcast].at \in {"allocate", "store"} => owner[Broadcast].message.of \in 1 .. MaxRequests
    BY <1>1 DEF OwnersOK, OwnerOK
  <1>3. \A p \in packets : p.req \in 1 .. MaxRequests
    BY DEF Typed, Packets, Requests
  <1>4. Opening \subseteq 1 .. MaxRequests
    BY <1>2, <1>3 DEF Opening
  <1>5. IsFiniteSet(1 .. MaxRequests)
    BY <1>1, FS_Interval
  <1> QED
    BY <1>4, <1>5, FS_Subset, FS_CardinalityType

LEMMA Spare ==
  ASSUME Typed, OwnersOK, Counted, owner[Broadcast].at = "allocate"
  PROVE  maxChannelID + 1 \in Ids
  <1>1. Opening # {}
    BY DEF Opening
  <1>2. Cardinality(Opening) # 0 /\ Cardinality(Opening) \in Nat
    BY <1>1, OpeningFinite, FS_EmptySet
  <1> QED
    BY <1>2, Bounds DEF Typed, Counted, Ids

\* The flags of a keepalive goroutine.
LEMMA Flags ==
  ASSUME NEW f \in [Requests -> Tickers], NEW r \in Requests, NEW flag \in BOOLEAN
  PROVE  /\ [f EXCEPT ![r].stop = flag] \in [Requests -> Tickers]
         /\ [f EXCEPT ![r].final = flag] \in [Requests -> Tickers]
         /\ \A s \in Requests :
              /\ [f EXCEPT ![r].stop = flag][s] = IF s = r THEN [f[r] EXCEPT !.stop = flag] ELSE f[s]
              /\ [f EXCEPT ![r].final = flag][s] = IF s = r THEN [f[r] EXCEPT !.final = flag] ELSE f[s]
  <1>1. [f[r] EXCEPT !.stop = flag] \in Tickers /\ [f[r] EXCEPT !.final = flag] \in Tickers
    BY DEF Tickers
  <1> QED
    BY <1>1

\* A step of the goroutine in messageLock: what it changes at most.
Working(ch, o) ==
  /\ ch \in Ids /\ owner' = [owner EXCEPT ![ch] = o]
  /\ UNCHANGED <<client, requests, cancels, empty, answers, cancelled, packets, transaction, keepalives, crashed, handed, reordered>>

LEMMA AllocateDoes ==
  ASSUME Typed, OwnersOK, Counted, NEW ch \in Ids, Allocate(ch)
  PROVE  /\ ch = Broadcast /\ owner[ch].at = "allocate"
         /\ UNCHANGED <<maxChannelID, channels, sender, ticker, out>>
         /\ \E o \in Owners : /\ Working(ch, o) /\ o.at = "store" /\ o.message.kind = "init" /\ o.message.ch = ch
                              /\ o.message.of = owner[ch].message.of /\ o.message.id = maxChannelID + 1
                              /\ o.message.parts = 1
  <1> DEFINE id == maxChannelID + 1
             m == [owner[ch].message EXCEPT !.id = id]
             o == At("store", m)
  <1>1. owner[ch].at = "allocate" /\ owner' = [owner EXCEPT ![ch] = o]
    BY DEF Allocate
  <1>2. OwnerOK(ch) /\ owner[ch] \in Owners
    BY DEF OwnersOK, Typed
  <1>3. ch = Broadcast
    BY <1>1, <1>2 DEF OwnerOK
  <1>4. owner[ch].message.kind = "init" /\ owner[ch].message.ch = ch /\ owner[ch].message.parts = 1
    BY <1>1, <1>2, <1>3 DEF OwnerOK
  <1>5. id \in Ids
    BY <1>1, <1>3, Spare
  <1> HIDE DEF id
  <1>6. owner[ch].message \in Messages
    BY <1>2 DEF Owners
  <1>7. m \in Messages /\ m.kind = "init" /\ m.ch = ch /\ m.of = owner[ch].message.of /\ m.id = id /\ m.parts = 1
    BY <1>4, <1>5, <1>6 DEF Messages
  <1> HIDE DEF m
  <1>8. o \in Owners /\ o.at = "store" /\ o.message = m
    BY <1>7 DEF At, Owners
  <1> HIDE DEF o
  <1>9. Working(ch, o) /\ UNCHANGED <<maxChannelID, channels, sender, ticker, out>>
    BY <1>1 DEF Allocate, Working, host, history
  <1> QED
    BY <1>1, <1>3, <1>7, <1>8, <1>9 DEF id

LEMMA StoreDoes ==
  ASSUME Typed, OwnersOK, Numbered, NEW ch \in Ids, Store(ch)
  PROVE  /\ ch = Broadcast /\ owner[ch].at = "store"
         /\ maxChannelID' = maxChannelID + 1 /\ maxChannelID' \in Ids
         /\ channels' = channels \union {maxChannelID'} /\ owner[ch].message.id = maxChannelID'
         /\ UNCHANGED <<sender, ticker, out>>
         /\ \E o \in Owners : Working(ch, o) /\ o.at = "send" /\ o.message = owner[ch].message
  <1> DEFINE o == At("send", owner[ch].message)
  <1>1. owner[ch].at = "store" /\ owner' = [owner EXCEPT ![ch].at = "send"]
    BY DEF Store
  <1>2. OwnerOK(ch) /\ owner[ch] \in Owners
    BY DEF OwnersOK, Typed
  <1>3. ch = Broadcast
    BY <1>1, <1>2 DEF OwnerOK
  <1>4. owner[ch].message.id = maxChannelID + 1 /\ owner[ch].message.id \in Ids
    BY <1>1, <1>2, <1>3 DEF Numbered, Owners, Messages
  <1>5. o \in Owners /\ o.at = "send" /\ o.message = owner[ch].message
    BY <1>2 DEF At, Owners
  <1>6. [owner[ch] EXCEPT !.at = "send"] = o
    BY <1>2 DEF At, Owners
  <1>7. owner' = [owner EXCEPT ![ch] = o]
    BY <1>1, <1>6 DEF Typed
  <1> HIDE DEF o
  <1>8. /\ Working(ch, o) /\ UNCHANGED <<sender, ticker, out>>
        /\ maxChannelID' = maxChannelID + 1 /\ channels' = channels \union {owner[ch].message.id}
    BY <1>7 DEF Store, Working, host, history
  <1> QED
    BY <1>1, <1>3, <1>4, <1>5, <1>8

LEMMA ReturnDoes ==
  ASSUME Typed, OwnersOK, NEW ch \in Ids, NEW parts \in {1, 2}, Return(ch, parts)
  PROVE  /\ ch # Broadcast /\ owner[ch].at = "run"
         /\ UNCHANGED <<maxChannelID, channels, sender, out>>
         /\ \E o \in Owners : /\ Working(ch, o) /\ o.at = "send" /\ o.message.kind = "reply" /\ o.message.ch = ch
                              /\ o.message.of = owner[ch].message.of /\ o.message.parts \in {1, 2}
         /\ owner[ch].message.of \in Requests
         /\ ticker' = [ticker EXCEPT ![owner[ch].message.of].stop = TRUE]
  <1> DEFINE m == Message("reply", ch, owner[ch].message.of, 0, parts)
             o == At("send", m)
  <1>1. owner[ch].at = "run" /\ owner' = [owner EXCEPT ![ch] = o]
    BY DEF Return
  <1>2. OwnerOK(ch) /\ owner[ch] \in Owners
    BY DEF OwnersOK, Typed
  <1>3. ch # Broadcast
    BY <1>1, <1>2 DEF OwnerOK
  <1>4. owner[ch].message.of \in 0 .. MaxRequests /\ 0 \in Ids
    BY <1>2, Bounds DEF Owners, Messages, Ids
  <1>8. owner[ch].message.of \in Requests
    BY <1>1, <1>2, Bounds DEF OwnerOK, Typed, Requests
  <1>5. m \in Messages /\ m.kind = "reply" /\ m.ch = ch /\ m.of = owner[ch].message.of /\ m.parts = parts
    BY <1>4 DEF Message, Messages, Kinds
  <1> HIDE DEF m
  <1>6. o \in Owners /\ o.at = "send" /\ o.message = m
    BY <1>5 DEF At, Owners
  <1> HIDE DEF o
  <1>7. /\ Working(ch, o) /\ UNCHANGED <<maxChannelID, channels, sender, out>>
        /\ ticker' = [ticker EXCEPT ![owner[ch].message.of].stop = TRUE]
    BY <1>1 DEF Return, Working, host, history
  <1> QED
    BY <1>1, <1>3, <1>5, <1>6, <1>7, <1>8

\* The echo of an empty PING: the lock is given back, and nothing is sent.
LEMMA EchoDoes ==
  ASSUME Typed, OwnersOK, NEW ch \in Ids, Echo(ch)
  PROVE  /\ ch # Broadcast /\ owner[ch].at = "run" /\ sender = Nobody
         /\ owner[ch].message.kind = "reply" /\ owner[ch].message.ch = ch
         /\ owner[ch].message.of \in Requests /\ owner[ch].message.parts = 0
         /\ UNCHANGED <<maxChannelID, channels, sender, ticker, out>>
         /\ Working(ch, Free)
  <1>1. OwnerOK(ch) /\ owner[ch].at = "run" /\ owner[ch].message.parts = 0
    BY DEF OwnersOK, Echo
  <1>2. /\ ch # Broadcast /\ owner[ch].message.kind = "reply" /\ owner[ch].message.ch = ch
        /\ owner[ch].message.of \in 1 .. requests
    BY <1>1 DEF OwnerOK
  <1>3. owner[ch].message.of \in Requests
    BY <1>2, Bounds DEF Typed, Requests
  <1> QED
    BY <1>1, <1>2, <1>3 DEF Echo, Working, host, history

LEMMA ReturnSends ==
  ASSUME Typed, OwnersOK, NEW ch \in Ids, NEW parts \in {1, 2}, Return(ch, parts)
  PROVE  \E o \in Owners : Working(ch, o) /\ o.at = "send" /\ o.message.of = owner[ch].message.of
  <1>1. PICK o \in Owners : /\ Working(ch, o) /\ o.at = "send" /\ o.message.kind = "reply" /\ o.message.ch = ch
                            /\ o.message.of = owner[ch].message.of /\ o.message.parts \in {1, 2}
    BY ReturnDoes
  <1> QED
    BY <1>1

LEMMA SendDoes ==
  ASSUME Typed, OwnersOK, NEW ch \in Ids, NEW part \in {1, 2}, Send(ch, part)
  PROVE  /\ owner[ch].at = (IF part = 1 THEN "send" ELSE "sending")
         /\ sender = (IF part = 1 THEN Nobody ELSE ch)
         /\ owner[ch].message.of \in Requests
         /\ UNCHANGED <<maxChannelID, channels>>
         /\ Part(owner[ch].message, part) \in Parts /\ out' = Append(out, Part(owner[ch].message, part))
         /\ \/ /\ part = owner[ch].message.parts /\ sender' = Nobody /\ Working(ch, Free)
            \/ /\ part = 1 /\ owner[ch].message.parts = 2 /\ sender' = ch
               /\ Working(ch, At("sending", owner[ch].message))
         /\ ticker' = IF owner[ch].message.kind = "reply"
                      THEN [ticker EXCEPT ![owner[ch].message.of].final = (part = owner[ch].message.parts)] ELSE ticker
  <1> DEFINE m == owner[ch].message
  <1>1. /\ owner[ch].at = (IF part = 1 THEN "send" ELSE "sending")
        /\ sender = (IF part = 1 THEN Nobody ELSE ch)
        /\ out' = Append(out, Part(m, part))
        /\ sender' = (IF part = m.parts THEN Nobody ELSE ch)
        /\ owner' = [owner EXCEPT ![ch] = IF part = m.parts THEN Free ELSE At("sending", m)]
        /\ ticker' = IF m.kind = "reply" THEN [ticker EXCEPT ![m.of].final = (part = m.parts)] ELSE ticker
        /\ UNCHANGED <<client, requests, cancels, empty, answers, cancelled, packets, transaction, keepalives, crashed,
                       handed, reordered, maxChannelID, channels>>
    BY DEF Send, host, history
  <1>2. OwnerOK(ch) /\ owner[ch] \in Owners
    BY DEF OwnersOK, Typed
  <1>3. m.parts \in {1, 2} /\ (part = 2 => m.parts = 2) /\ m.of \in 1 .. requests
    BY <1>1, <1>2 DEF OwnerOK
  <1>4. m.of \in Requests /\ m \in Messages
    BY <1>2, <1>3, Bounds DEF Typed, Requests, Owners
  <1>5. Part(m, part) \in Parts
    BY <1>4 DEF Part, Parts, Messages
  <1>6. \/ part = m.parts
        \/ part = 1 /\ m.parts = 2 /\ part # m.parts
    BY <1>3
  <1> QED
    BY <1>1, <1>4, <1>5, <1>6 DEF Working

LEMMA WorkTyped ==
  ASSUME Typed, OwnersOK, Counted, Numbered, NEW ch \in Ids, Work(ch)
  PROVE  Typed'
  <1>1. ASSUME NEW o \in Owners, Working(ch, o), ticker' \in [Requests -> Tickers], out' \in Seq(Parts),
               sender' \in Ids \union {Nobody}, maxChannelID' \in Ids, channels' \subseteq 0 .. maxChannelID',
               Broadcast \in channels'
        PROVE  Typed'
    BY <1>1 DEF Typed, Working
  <1>2. /\ ticker \in [Requests -> Tickers] /\ out \in Seq(Parts)
        /\ sender \in Ids \union {Nobody} /\ maxChannelID \in Ids /\ channels \subseteq 0 .. maxChannelID
        /\ Broadcast \in channels
    BY DEF Typed
  <1>3. CASE Allocate(ch)
    BY <1>1, <1>2, <1>3, AllocateDoes
  <1>4. CASE Store(ch)
    <2>1. PICK o \in Owners : Working(ch, o)
      BY <1>4, StoreDoes
    <2>2. maxChannelID' = maxChannelID + 1 /\ maxChannelID' \in Ids /\ channels' = channels \union {maxChannelID'}
      BY <1>4, StoreDoes
    <2>3. channels' \subseteq 0 .. maxChannelID'
      BY <1>2, <2>2, Bounds DEF Ids
    <2> QED
      BY <1>1, <1>2, <1>4, <2>1, <2>2, <2>3, StoreDoes
  <1>5. ASSUME NEW parts \in {1, 2}, Return(ch, parts) PROVE Typed'
    <2>1. PICK o \in Owners : Working(ch, o)
      BY <1>5, ReturnDoes
    <2>2. /\ owner[ch].message.of \in Requests /\ ticker' = [ticker EXCEPT ![owner[ch].message.of].stop = TRUE]
          /\ UNCHANGED <<maxChannelID, channels, sender, out>>
      BY <1>5, ReturnDoes
    <2>3. ticker' \in [Requests -> Tickers]
      BY <1>2, <2>2, Flags
    <2> QED
      BY <1>1, <1>2, <2>1, <2>2, <2>3
  <1>6. ASSUME NEW part \in {1, 2}, Send(ch, part) PROVE Typed'
    <2> DEFINE m == owner[ch].message
    <2>0. /\ Part(m, part) \in Parts /\ out' = Append(out, Part(m, part)) /\ m.of \in Requests
          /\ ticker' = IF m.kind = "reply" THEN [ticker EXCEPT ![m.of].final = (part = m.parts)] ELSE ticker
      BY <1>6, SendDoes
    <2>1. out' \in Seq(Parts)
      BY <1>2, <2>0, Appending
    <2>2. ticker' \in [Requests -> Tickers]
      <3> DEFINE flag == part = m.parts
      <3>1. flag \in BOOLEAN
        OBVIOUS
      <3>2. ticker' = IF m.kind = "reply" THEN [ticker EXCEPT ![m.of].final = flag] ELSE ticker
        BY <2>0
      <3> HIDE DEF flag
      <3>3. [ticker EXCEPT ![m.of].final = flag] \in [Requests -> Tickers]
        BY <1>2, <2>0, <3>1, Flags, Zenon
      <3> QED
        BY <1>2, <3>2, <3>3, Zenon
    <2>3. Free \in Owners
      BY Names, Bounds DEF Free, NoMessage, Message, Messages, Kinds, Owners
    <2>4. At("sending", m) \in Owners
      BY DEF Typed, At, Owners
    <2>5. \E o \in Owners : Working(ch, o)
      BY <1>6, <2>3, <2>4, SendDoes
    <2> QED
      BY <1>1, <1>2, <1>6, <2>1, <2>2, <2>5, SendDoes
  <1>7. CASE Echo(ch)
    <2>1. Free \in Owners
      BY Names, Bounds DEF Free, NoMessage, Message, Messages, Kinds, Owners
    <2> QED
      BY <1>1, <1>2, <1>7, <2>1, EchoDoes
  <1> QED
    BY <1>3, <1>4, <1>5, <1>6, <1>7 DEF Work

\* A step of a keepalive goroutine: what it changes at most.
Ticking(r, t) ==
  /\ t \in Tickers /\ ticker' = [ticker EXCEPT ![r] = t]
  /\ t.ch = ticker[r].ch /\ t.stop = ticker[r].stop /\ t.final = ticker[r].final
  /\ ticker[r].at # "off"
  /\ UNCHANGED <<client, requests, cancels, empty, answers, cancelled, packets, transaction, maxChannelID, channels, owner,
                 sender, crashed, handed, reordered>>

LEMMA FireDoes ==
  ASSUME Typed, NEW r \in Requests, Fire(r)
  PROVE  /\ out' = out /\ keepalives' \in 0 .. MaxKeepalives /\ ticker[r].at = "on"
         /\ \E t : Ticking(r, t) /\ t.at = "firing" /\ t.late = ticker[r].late
  <1> DEFINE t == [ticker[r] EXCEPT !.at = "firing"]
  <1>1. ticker[r] \in Tickers /\ ticker \in [Requests -> Tickers]
    BY DEF Typed
  <1>2. /\ t \in Tickers /\ t.ch = ticker[r].ch /\ t.stop = ticker[r].stop /\ t.final = ticker[r].final
        /\ t.at = "firing" /\ t.late = ticker[r].late
    BY <1>1 DEF Tickers
  <1>3. ticker' = [ticker EXCEPT ![r] = t]
    BY DEF Fire
  <1> HIDE DEF t
  <1>4. keepalives' \in 0 .. MaxKeepalives
    BY Bounds DEF Fire, Typed
  <1> QED
    BY <1>2, <1>3, <1>4 DEF Fire, Ticking, host, history

LEMMA StopTickerDoes ==
  ASSUME Typed, NEW r \in Requests, StopTicker(r)
  PROVE  /\ out' = out /\ keepalives' = keepalives /\ ticker[r].at = "on"
         /\ \E t : Ticking(r, t) /\ t.at = "off" /\ t.late = ticker[r].late
  <1> DEFINE t == [ticker[r] EXCEPT !.at = "off"]
  <1>1. ticker[r] \in Tickers /\ ticker \in [Requests -> Tickers]
    BY DEF Typed
  <1>2. /\ t \in Tickers /\ t.ch = ticker[r].ch /\ t.stop = ticker[r].stop /\ t.final = ticker[r].final
        /\ t.at = "off" /\ t.late = ticker[r].late
    BY <1>1 DEF Tickers
  <1>3. ticker' = [ticker EXCEPT ![r] = t]
    BY DEF StopTicker
  <1> HIDE DEF t
  <1> QED
    BY <1>2, <1>3 DEF StopTicker, Ticking, host, history

LEMMA KeepaliveDoes ==
  ASSUME Typed, NEW r \in Requests, Keepalive(r)
  PROVE  /\ keepalives' = keepalives /\ ticker[r].at = "firing" /\ sender = Nobody
         /\ \E e \in Parts : out' = Append(out, e) /\ e.kind = "keepalive" /\ e.of = r /\ e.last
         /\ \E t : /\ Ticking(r, t)
                   /\ t.at = (IF ticker[r].stop THEN "off" ELSE "on")
                   /\ t.late = (IF ticker[r].final THEN ticker[r].late + 1 ELSE ticker[r].late)
  <1> DEFINE late == IF ticker[r].final THEN ticker[r].late + 1 ELSE ticker[r].late
             at == IF ticker[r].stop THEN "off" ELSE "on"
             t == [ticker[r] EXCEPT !.at = at, !.late = late]
             e == Part(Message("keepalive", ticker[r].ch, r, 0, 1), 1)
  <1>1. ticker[r] \in Tickers /\ ticker \in [Requests -> Tickers]
    BY DEF Typed
  <1>2. late \in Nat /\ at \in {"off", "on", "firing"}
    BY <1>1 DEF Tickers
  <1>3. ticker' = [ticker EXCEPT ![r] = t]
    BY DEF Keepalive
  <1> HIDE DEF late, at
  <1>4. /\ t \in Tickers /\ t.ch = ticker[r].ch /\ t.stop = ticker[r].stop /\ t.final = ticker[r].final
        /\ t.at = at /\ t.late = late
    BY <1>1, <1>2 DEF Tickers
  <1>5. e \in Parts /\ e.kind = "keepalive" /\ e.of = r /\ e.last
    <2>1. ticker[r].ch \in Ids /\ 0 \in Ids
      BY <1>1, Bounds DEF Tickers, Ids
    <2> QED
      BY <2>1 DEF Part, Parts, Message, Kinds
  <1>6. out' = Append(out, e)
    BY DEF Keepalive
  <1> HIDE DEF t, e
  <1>7. Ticking(r, t)
    BY <1>3, <1>4, <1>1 DEF Keepalive, Ticking, host, history
  <1>8. /\ keepalives' = keepalives /\ ticker[r].at = "firing" /\ sender = Nobody
        /\ \E x \in Parts : out' = Append(out, x) /\ x.kind = "keepalive" /\ x.of = r /\ x.last
    BY <1>5, <1>6 DEF Keepalive
  <1>9. t.at = (IF ticker[r].stop THEN "off" ELSE "on") /\ t.late = (IF ticker[r].final THEN ticker[r].late + 1 ELSE ticker[r].late)
    BY <1>4 DEF at, late
  <1> HIDE DEF Keepalive
  <1> QED
    BY <1>7, <1>8, <1>9

LEMMA TickTyped ==
  ASSUME Typed, NEW r \in Requests, Fire(r) \/ Tick(r)
  PROVE  Typed'
  <1>1. ASSUME NEW t, Ticking(r, t), out' \in Seq(Parts), keepalives' \in 0 .. MaxKeepalives PROVE Typed'
    BY <1>1 DEF Typed, Ticking
  <1>2. out \in Seq(Parts) /\ keepalives \in 0 .. MaxKeepalives
    BY DEF Typed
  <1>3. CASE Fire(r)
    BY <1>1, <1>2, <1>3, FireDoes
  <1>4. CASE StopTicker(r)
    BY <1>1, <1>2, <1>4, StopTickerDoes
  <1>5. CASE Keepalive(r)
    <2>1. out' \in Seq(Parts)
      BY <1>2, <1>5, KeepaliveDoes, Appending
    <2> QED
      BY <1>1, <1>2, <1>5, <2>1, KeepaliveDoes
  <1> QED
    BY <1>3, <1>4, <1>5 DEF Tick

\* The runtime ends the process, or nothing happens.
Idle == /\ crashed' \in BOOLEAN
        /\ UNCHANGED <<client, packets, maxChannelID, channels, transaction, owner, sender, ticker, out,
                       requests, cancels, keepalives, empty, handed, answers, cancelled, reordered>>

LEMMA IdleDoes == Typed /\ (MapRace \/ UNCHANGED vars) => Idle
  BY DEF MapRace, vars, host, history, Idle, Typed

\* The steps, one kind at a time.
LEMMA Steps ==
  ASSUME Typed, [Next]_vars
  PROVE  \/ ClientStep
         \/ \E p \in packets : Handle(p)
         \/ \E ch \in Ids : Work(ch)
         \/ \E r \in Requests : Fire(r) \/ Tick(r)
         \/ Idle
  BY IdleDoes DEF Next

LEMMA NextTyped ==
  ASSUME Typed, OwnersOK, Counted, Numbered, [Next]_vars
  PROVE  Typed'
  <1>1. CASE Idle
    BY <1>1 DEF Idle, Typed
  <1> QED
    BY <1>1, Steps, ClientTyped, HandlesTyped, WorkTyped, TickTyped

-----------------------------------------------------------------------------
(* The packets that are pending or gathered. *)

LEMMA LiveSame ==
  ASSUME UNCHANGED <<packets, transaction>>
  PROVE  Gathered' = Gathered /\ Live' = Live /\ \A ch : On(ch)' = On(ch)
  BY DEF Gathered, Live, On

LEMMA LiveSent ==
  ASSUME NEW p, packets' = packets \union {p}, transaction' = transaction
  PROVE  /\ Gathered' = Gathered /\ Live' = Live \union {p}
         /\ \A ch : On(ch)' = IF ch = p.ch THEN On(ch) \union {p} ELSE On(ch)
  <1>1. Gathered' = Gathered /\ Live' = Live \union {p}
    BY DEF Gathered, Live
  <1> QED
    BY <1>1 DEF On

\* Every packet that was gathered was gathered by one channel, its own.
LEMMA GatheredWhere ==
  ASSUME Typed, LiveOK, NEW t \in Gathered
  PROVE  /\ t \in Packets /\ t \in Live /\ t \notin packets /\ t.kind = "first" /\ t.more
         /\ t.ch \in Ids /\ t.ch # Broadcast /\ t.ch \in channels
         /\ transaction[t.ch] # <<>> /\ transaction[t.ch][1] = t
  <1>1. PICK ch \in Ids : transaction[ch] # <<>> /\ t = transaction[ch][1]
    BY DEF Gathered
  <1> QED
    BY <1>1, GatheredOne DEF LiveOK, Live

\* What is left of a channel when p was gathered, dropped, refused or completed.
LEMMA LiveGather ==
  ASSUME Typed, LiveOK, NEW p, Gather(p)
  PROVE  Gathered' = Gathered \union {p} /\ Live' = Live /\ \A ch : On(ch)' = On(ch)
  <1>1. p \in packets /\ p.ch \in Ids /\ transaction[p.ch] = <<>>
    BY LocksDoes DEF Gather
  <1>2. \A ch \in Ids : transaction'[ch] = IF ch = p.ch THEN <<p>> ELSE transaction[ch]
    BY <1>1 DEF Gather, Typed
  <1>3. <<p>> # <<>> /\ <<p>>[1] = p
    OBVIOUS
  <1>4. Gathered' = Gathered \union {p}
    BY <1>1, <1>2, <1>3 DEF Gathered
  <1>5. packets' = packets \ {p}
    BY DEF Gather, Locks, Taken
  <1>6. Live' = Live
    BY <1>1, <1>4, <1>5 DEF Live
  <1> QED
    BY <1>4, <1>6 DEF On

LEMMA LiveEmptied ==
  ASSUME Typed, LiveOK, NEW p \in packets, p.ch \in Ids, packets' = packets \ {p},
         transaction' = [transaction EXCEPT ![p.ch] = <<>>]
  PROVE  /\ Gathered' = {t \in Gathered : t.ch # p.ch}
         /\ Live' = {q \in Live : q # p /\ (q \in Gathered => q.ch # p.ch)}
         /\ \A ch : ch # p.ch => On(ch)' = On(ch)
  <1>1. \A ch \in Ids : transaction'[ch] = IF ch = p.ch THEN <<>> ELSE transaction[ch]
    BY DEF Typed
  <1>2. \A ch \in Ids : transaction[ch] # <<>> => transaction[ch][1].ch = ch
    BY DEF LiveOK
  <1>3. Gathered' = {t \in Gathered : t.ch # p.ch}
    BY <1>1, <1>2 DEF Gathered
  <1>4. \A t \in Gathered : t \notin packets
    BY GatheredWhere
  <1>5. Live' = {q \in Live : q # p /\ (q \in Gathered => q.ch # p.ch)}
    BY <1>3, <1>4 DEF Live
  <1>6. \A ch : ch # p.ch => On(ch)' = On(ch)
    BY <1>5 DEF On
  <1> QED
    BY <1>3, <1>5, <1>6

LEMMA LiveUnknown ==
  ASSUME Typed, LiveOK, NEW p, UnknownChannel(p)
  PROVE  /\ Gathered' = Gathered /\ Live' = Live \ {p}
         /\ \A ch : ch # p.ch => On(ch)' = On(ch)
  <1>1. p \in packets /\ packets' = packets \ {p} /\ transaction' = transaction
    BY DEF UnknownChannel, Taken
  <1>2. Gathered' = Gathered
    BY <1>1 DEF Gathered
  <1>3. \A t \in Gathered : t \notin packets
    BY GatheredWhere
  <1>4. Live' = Live \ {p}
    BY <1>1, <1>2, <1>3 DEF Live
  <1> QED
    BY <1>2, <1>4 DEF On

\* Handling a packet brings no new one, and leaves the other channels alone.
LEMMA LiveHandled ==
  ASSUME Typed, LiveOK, NEW p, Handle(p)
  PROVE  /\ Live' \subseteq Live /\ packets' = packets \ {p} /\ p \in packets
         /\ Gathered' \subseteq Gathered \union {p}
         /\ \A ch \in Ids : ch # p.ch => transaction'[ch] = transaction[ch] /\ owner'[ch] = owner[ch]
         /\ \A ch : ch # p.ch => On(ch)' = On(ch)
         /\ Gather(p) \/ p \notin Live'
  <1>1. p \in packets /\ packets' = packets \ {p}
    BY HandleDoes DEF Handling
  <1>2. CASE UnknownChannel(p)
    BY <1>1, <1>2, LiveUnknown, UnknownDoes
  <1>3. CASE Gather(p)
    BY <1>1, <1>3, LiveGather, LocksDoes DEF Gather, Typed
  <1>4. ASSUME p.ch \in Ids, transaction' = [transaction EXCEPT ![p.ch] = <<>>],
               \E o : owner' = [owner EXCEPT ![p.ch] = o]
        PROVE  /\ Live' \subseteq Live /\ Gathered' \subseteq Gathered \union {p}
               /\ \A ch \in Ids : ch # p.ch => transaction'[ch] = transaction[ch] /\ owner'[ch] = owner[ch]
               /\ \A ch : ch # p.ch => On(ch)' = On(ch)
               /\ p \notin Live'
    BY <1>1, <1>4, LiveEmptied DEF Typed
  <1>5. CASE Drop(p)
    <2>1. owner' = [owner EXCEPT ![p.ch] = owner[p.ch]]
      BY <1>5 DEF Drop, Typed
    <2> QED
      BY <1>1, <1>4, <1>5, <2>1, LocksDoes DEF Drop
  <1>6. CASE Reject(p)
    BY <1>1, <1>4, <1>6, LocksDoes, RejectDoes DEF Reject
  <1>7. CASE Complete(p)
    <2>1. PICK o \in Owners :
            /\ owner' = [owner EXCEPT ![p.ch] = o]
            /\ o.message.ch = p.ch /\ o.message.of = Head1(p).req
            /\ p.ch = Broadcast => o.at = "allocate" /\ o.message.kind = "init" /\ o.message.parts = 1
            /\ p.ch # Broadcast => /\ o.at = "run" /\ o.message.kind = "reply"
                                   /\ o.message.parts = (IF Head1(p).cmd = "empty" THEN 0 ELSE 1)
      BY <1>7, CompleteDoes
    <2>2. transaction' = [transaction EXCEPT ![p.ch] = <<>>]
      BY <1>7, CompleteDoes
    <2>3. p.ch \in Ids
      BY <1>7, LocksDoes DEF Complete
    <2> QED
      BY <1>1, <1>4, <2>1, <2>2, <2>3
  <1> QED
    BY <1>2, <1>3, <1>5, <1>6, <1>7 DEF Handle

LEMMA InitLive == Init => LiveOK
  <1> SUFFICES ASSUME Init PROVE LiveOK
    OBVIOUS
  <1>1. \A ch \in Ids : transaction[ch] = <<>>
    BY DEF Init
  <1>2. Live = {}
    BY <1>1 DEF Init, Live, Gathered
  <1> QED
    BY <1>1, <1>2 DEF LiveOK

\* The clients other than c, and c, after a step of c.
LEMMA OwnClients ==
  ASSUME Typed, NEW c \in Clients, Own(c)
  PROVE  /\ \A d \in Clients : d # c => client'[d] = client[d]
         /\ client'[c] \in ClientStates
         /\ \A d \in Clients : client[d].sent \in Nat /\ client[d].req \in 0 .. MaxRequests /\ client[d].seen \in Nat
         /\ requests \in Nat
         /\ \A p \in Live : p \in Packets /\ p.client \in Clients /\ p.n \in Nat /\ p.req \in Nat
  <1>1. \A d \in Clients : client[d] \in ClientStates
    BY DEF Typed
  <1>2. \A d \in Clients : client[d].sent \in Nat /\ client[d].req \in 0 .. MaxRequests /\ client[d].seen \in Nat
    BY <1>1 DEF ClientStates
  <1>3. \A d \in Clients : d # c => client'[d] = client[d]
    BY DEF Own, Typed
  <1>4. \A p \in Live : p \in Packets /\ p.client \in Clients /\ p.n \in Nat /\ p.req \in Nat
    BY LivePackets DEF Packets, Requests
  <1> QED
    BY <1>2, <1>3, <1>4 DEF Own, Typed

LEMMA SendingLive ==
  ASSUME Typed, LiveOK, NEW c \in Clients, NEW p, Sending(c, p), requests' \in Nat,
         requests <= requests', p.req <= requests', p.kind = "first" => p.req = requests + 1,
         p.ch = Broadcast => p.kind = "first" /\ ~p.more,
         p.ch \in Private => client[c].ch = p.ch
  PROVE  LiveOK'
  <1> USE DEF Sending
  <1>1. Gathered' = Gathered /\ Live' = Live \union {p}
    BY LiveSent DEF Own
  <1>2. /\ \A d \in Clients : d # c => client'[d] = client[d]
        /\ \A d \in Clients : client[d].sent \in Nat
        /\ requests \in Nat
        /\ \A q \in Live : q.client \in Clients /\ q.n \in Nat /\ q.req \in Nat
    BY OwnClients
  <1>3. /\ \A q \in Live : q.req <= requests /\ q.n < client[q.client].sent
        /\ \A q \in Live : q.ch = Broadcast => q.kind = "first" /\ ~q.more
        /\ \A q \in Live : q.ch \in Private => client[q.client].ch = q.ch
    BY DEF LiveOK
  <1>4. p.n = client[c].sent /\ p.client = c /\ p.req \in Nat
    BY DEF Packets, Requests
  <1>5. \A q \in Live' :
          /\ q.req <= requests'
          /\ q.n < client'[q.client].sent
          /\ q.ch = Broadcast => q.kind = "first" /\ ~q.more
          /\ q.ch \in Private => client'[q.client].ch = q.ch
    <2>1. ASSUME NEW q \in Live
          PROVE  q.req <= requests' /\ q.n < client'[q.client].sent /\ (q.ch \in Private => client'[q.client].ch = q.ch)
      <3>1. CASE q.client = c
        BY <1>2, <1>3, <3>1
      <3>2. CASE q.client # c
        BY <1>2, <1>3, <3>2
      <3> QED
        BY <3>1, <3>2
    <2>2. p.n < client'[c].sent
      BY <1>2, <1>4
    <2> QED
      BY <1>1, <1>3, <1>4, <2>1, <2>2
  <1>6. \A q \in Live : q.client = c => q.n # p.n
    BY <1>2, <1>3, <1>4
  <1>7. \A q, r \in Live' : q.client = r.client /\ q.n = r.n => q = r
    BY <1>1, <1>4, <1>6 DEF LiveOK
  <1>8. p.kind = "first" => \A q \in Live : q.req # p.req
    BY <1>2, <1>3
  <1>9. \A q, r \in Live' : q.kind = "first" /\ r.kind = "first" /\ q.req = r.req => q = r
    BY <1>1, <1>8 DEF LiveOK
  <1>10. \A ch \in Ids : transaction[ch] # <<>> => transaction[ch][1] \in Live
    BY GatheredOne DEF Live
  <1>11. \A ch \in Ids : transaction'[ch] # <<>> =>
           LET t == transaction'[ch][1] IN
           t.ch = ch /\ ch # Broadcast /\ ch \in channels' /\ t.kind = "first" /\ t.more /\ t \notin packets'
    <2> SUFFICES ASSUME NEW ch \in Ids, transaction[ch] # <<>>
                 PROVE  LET t == transaction[ch][1] IN
                        /\ t.ch = ch /\ ch # Broadcast /\ ch \in channels /\ t.kind = "first" /\ t.more
                        /\ t \notin packets /\ t # p
      BY DEF Own
    <2>1. transaction[ch][1] # p
      BY <1>6, <1>10, <1>4
    <2> QED
      BY <2>1 DEF LiveOK
  <1> QED
    BY <1>5, <1>7, <1>9, <1>11 DEF LiveOK

LEMMA ClientLive ==
  ASSUME Typed, LiveOK, NoneForgotten, Ownership, ClientStep
  PROVE  LiveOK'
  <1> USE Names
  <1>1. requests \in Nat /\ \A d \in Clients : client[d] \in ClientStates /\ client[d].req <= requests
    BY DEF Typed, Ownership
  <1>2. ASSUME NEW c \in Clients, NEW p, Asking(c, p), p.ch = client[c].ch \/ p.ch = Broadcast,
               p.ch = Broadcast => ~p.more
        PROVE  LiveOK'
    <2>1. requests <= requests' /\ p.req <= requests' /\ p.req = requests + 1 /\ requests' \in Nat
      BY <1>1, <1>2 DEF Asking
    <2>2. p.ch \in Private => client[c].ch = p.ch
      BY <1>2 DEF Private
    <2> QED
      BY <1>2, <2>1, <2>2, SendingLive DEF Asking
  <1>3. ASSUME NEW c \in Clients, NEW p, Sending(c, p), p.ch = client[c].ch, p.ch # Broadcast, p.kind # "first",
               requests' = requests, client'[c].req = client[c].req
        PROVE  LiveOK'
    <2>1. p.req <= requests' /\ requests <= requests' /\ requests' \in Nat
      BY <1>1, <1>3 DEF Sending
    <2> QED
      BY <1>3, <2>1, SendingLive
  <1>4. ASSUME NEW c \in Clients, Taking(c), client'[c].ch = client[c].ch \/ client[c].ch \notin Private
        PROVE  LiveOK'
    <2>1. Live' = Live /\ UNCHANGED <<packets, transaction, channels, requests>>
      BY <1>4, LiveSame DEF Taking, Own
    <2>2. \A d \in Clients : client'[d].sent = client[d].sent /\ (client[d].ch \in Private => client'[d].ch = client[d].ch)
      BY <1>4, OwnClients DEF Taking
    <2>3. \A q \in Live : q.client \in Clients
      BY <1>4, OwnClients DEF Taking
    <2>4. \A q \in Live' :
            /\ q.req <= requests'
            /\ q.n < client'[q.client].sent
            /\ q.ch = Broadcast => q.kind = "first" /\ ~q.more
            /\ q.ch \in Private => client'[q.client].ch = q.ch
      BY <2>1, <2>2, <2>3 DEF LiveOK
    <2> QED
      BY <2>1, <2>4 DEF LiveOK
  <1>5. ASSUME NEW c \in Clients, Open(c) PROVE LiveOK'
    BY <1>2, <1>5, OpenDoes
  <1>6. ASSUME NEW c \in Clients, NEW more \in BOOLEAN, NEW cmd \in {"cbor", "plain", "empty"}, Request(c, more, cmd) PROVE LiveOK'
    BY <1>2, <1>6, RequestDoes DEF Ownership
  <1>7. ASSUME NEW c \in Clients, Continue(c) \/ Cancel(c) PROVE LiveOK'
    <2>1. client[c].ch # Broadcast
      BY <1>7, ContinueDoes, CancelDoes DEF NoneForgotten
    <2> QED
      BY <1>3, <1>7, <2>1, ContinueDoes, CancelDoes
  <1>8. ASSUME NEW c \in Clients, Opened(c) PROVE LiveOK'
    <2>1. client[c].ch \notin Private
      BY <1>8, OpenedDoes DEF Ownership, Private
    <2> QED
      BY <1>4, <1>8, <2>1, OpenedDoes
  <1>9. ASSUME NEW c \in Clients, Answered(c) PROVE LiveOK'
    BY <1>4, <1>9, AnsweredDoes
  <1> QED
    BY <1>5, <1>6, <1>7, <1>8, <1>9 DEF ClientStep

LEMMA HandleLive ==
  ASSUME Typed, LiveOK, NEW p, Handle(p)
  PROVE  LiveOK'
  <1>1. Live' \subseteq Live /\ UNCHANGED <<client, requests, channels>> /\ packets' \subseteq packets
    BY LiveHandled, HandleDoes DEF Handling
  <1>2. \A ch \in Ids : transaction'[ch] = transaction[ch] \/ transaction'[ch] = <<>> \/ (Gather(p) /\ ch = p.ch /\ transaction'[ch] = <<p>>)
    <2>1. CASE UnknownChannel(p)
      BY <2>1, UnknownDoes
    <2>2. CASE Gather(p)
      BY <2>2, LocksDoes DEF Gather, Typed
    <2>3. CASE Drop(p) \/ Reject(p) \/ Complete(p)
      <3>1. transaction' = [transaction EXCEPT ![p.ch] = <<>>]
        BY <2>3 DEF Drop, Reject, Complete
      <3> QED
        BY <3>1 DEF Typed
    <2> QED
      BY <2>1, <2>2, <2>3 DEF Handle
  <1>3. Gather(p) => /\ p.ch # Broadcast /\ p.ch \in channels /\ p.kind = "first" /\ p.more /\ p \notin packets'
                     /\ <<p>>[1] = p
    <2> SUFFICES ASSUME Gather(p)
                 PROVE  /\ p.ch # Broadcast /\ p.ch \in channels /\ p.kind = "first" /\ p.more /\ p \notin packets'
                        /\ <<p>>[1] = p
      OBVIOUS
    <2>1. p.kind = "first" /\ p.more /\ p.ch \in channels /\ p \in Live
      BY LocksDoes DEF Gather, Live
    <2>2. p.ch # Broadcast
      BY <2>1 DEF LiveOK
    <2> QED
      BY <2>1, <2>2, LiveHandled
  <1>4. \A ch \in Ids : transaction'[ch] # <<>> =>
          LET t == transaction'[ch][1] IN
          t.ch = ch /\ ch # Broadcast /\ ch \in channels' /\ t.kind = "first" /\ t.more /\ t \notin packets'
    BY <1>1, <1>2, <1>3 DEF LiveOK
  <1> QED
    BY <1>1, <1>4 DEF LiveOK

LEMMA StillLive ==
  ASSUME LiveOK, UNCHANGED <<client, packets, transaction, requests>>, channels \subseteq channels'
  PROVE  LiveOK'
  <1>1. Live' = Live
    BY LiveSame
  <1> QED
    BY <1>1 DEF LiveOK

-----------------------------------------------------------------------------
(* The goroutines in messageLock. *)

LEMMA InitOwners == Init => OwnersOK
  BY DEF Init, OwnersOK, OwnerOK, Free

LEMMA OwnerSet ==
  ASSUME Typed, OwnersOK, NEW ch \in Ids, NEW o \in Owners, owner' = [owner EXCEPT ![ch] = o],
         requests' = requests, channels \subseteq channels', ch \in channels,
         o.message.ch = ch, o.message.of \in 1 .. requests,
         ch = Broadcast => o.message.kind = "init" /\ o.message.parts = 1 /\ o.at \in {"allocate", "store", "send"},
         ch # Broadcast => /\ o.message.kind \in {"reply", "error"} /\ o.at \in {"run", "send", "sending"}
                           /\ o.at = "run" => o.message.kind = "reply",
         o.at \in {"send", "sending"} => o.message.parts \in {1, 2},
         o.at = "sending" => o.message.parts = 2
  PROVE  OwnersOK'
  <1>1. owner'[ch] = o /\ \A d \in Ids : d # ch => owner'[d] = owner[d]
    BY DEF Typed
  <1>2. ASSUME NEW d \in Ids, d # ch PROVE OwnerOK(d)'
    <2>1. OwnerOK(d)
      BY DEF OwnersOK
    <2> QED
      BY <1>1, <1>2, <2>1 DEF OwnerOK
  <1>3. OwnerOK(ch)'
    BY <1>1 DEF OwnerOK
  <1> QED
    BY <1>2, <1>3 DEF OwnersOK

LEMMA OwnerFreed ==
  ASSUME Typed, OwnersOK, NEW ch \in Ids, owner' = [owner EXCEPT ![ch] = Free], requests' = requests, channels' = channels
  PROVE  OwnersOK'
  <1>1. owner'[ch] = Free /\ \A d \in Ids : d # ch => owner'[d] = owner[d]
    BY DEF Typed
  <1>2. ASSUME NEW d \in Ids PROVE OwnerOK(d)'
    <2>1. OwnerOK(d)
      BY DEF OwnersOK
    <2> QED
      BY <1>1, <2>1 DEF OwnerOK, Free
  <1> QED
    BY <1>2 DEF OwnersOK

LEMMA OwnersKept ==
  ASSUME Typed, OwnersOK, owner' = owner, channels' = channels, requests <= requests', requests' \in Nat
  PROVE  OwnersOK'
  <1>1. requests \in Nat
    BY DEF Typed
  <1>2. ASSUME NEW d \in Ids PROVE OwnerOK(d)'
    <2>1. OwnerOK(d)
      BY DEF OwnersOK
    <2> QED
      BY <1>1, <2>1 DEF OwnerOK
  <1> QED
    BY <1>2 DEF OwnersOK

LEMMA HandleOwners ==
  ASSUME Typed, LiveOK, OwnersOK, NEW p, Handle(p)
  PROVE  OwnersOK'
  <1>1. UNCHANGED <<requests, channels>> /\ requests \in Nat
    BY HandleDoes DEF Handling, Typed
  <1>2. \A q \in Live : q.req \in 1 .. requests
    <2>1. \A q \in Live : q.req \in 1 .. MaxRequests
      BY LivePackets DEF Packets, Requests
    <2> QED
      BY <1>1, <2>1, Bounds DEF LiveOK
  <1>3. CASE UnknownChannel(p)
    BY <1>1, <1>3, UnknownDoes, OwnersKept
  <1>4. CASE Gather(p) \/ Drop(p)
    BY <1>1, <1>4, OwnersKept DEF Gather, Drop
  <1>5. CASE Reject(p)
    <2>1. p \in Live /\ p.ch \in Ids /\ p.ch \in channels
      BY <1>5, LocksDoes DEF Reject, Live
    <2>2. p.ch # Broadcast
      BY <1>5, <2>1, RejectDoes DEF LiveOK
    <2>3. PICK o \in Owners :
            /\ owner' = [owner EXCEPT ![p.ch] = o] /\ o.at = "send"
            /\ o.message.kind = "error" /\ o.message.ch = p.ch /\ o.message.of = p.req /\ o.message.parts = 1
      BY <1>5, RejectDoes
    <2>4. o.message.of \in 1 .. requests
      BY <1>2, <2>1, <2>3
    <2> QED
      BY <1>1, <2>1, <2>2, <2>3, <2>4, OwnerSet
  <1>6. CASE Complete(p)
    <2>1. Head1(p) \in Live /\ p.ch \in Ids /\ p.ch \in channels
      BY <1>6, LocksDoes, WholeHead DEF Complete
    <2>2. PICK o \in Owners :
            /\ owner' = [owner EXCEPT ![p.ch] = o]
            /\ o.message.ch = p.ch /\ o.message.of = Head1(p).req
            /\ p.ch = Broadcast => o.at = "allocate" /\ o.message.kind = "init" /\ o.message.parts = 1
            /\ p.ch # Broadcast => o.at = "run" /\ o.message.kind = "reply"
      BY <1>6, CompleteDoes
    <2>3. o.message.of \in 1 .. requests
      BY <1>2, <2>1, <2>2
    <2> QED
      BY <1>1, <2>1, <2>2, <2>3, OwnerSet
  <1> QED
    BY <1>3, <1>4, <1>5, <1>6 DEF Handle

LEMMA WorkOwners ==
  ASSUME Typed, OwnersOK, Counted, Numbered, NEW ch \in Ids, Work(ch)
  PROVE  OwnersOK'
  <1>1. OwnerOK(ch) /\ owner[ch] \in Owners
    BY DEF OwnersOK, Typed
  <1>2. CASE Allocate(ch)
    <2>1. PICK o \in Owners :
            /\ Working(ch, o) /\ o.at = "store" /\ o.message.kind = "init" /\ o.message.ch = ch
            /\ o.message.of = owner[ch].message.of /\ o.message.id = maxChannelID + 1 /\ o.message.parts = 1
      BY <1>2, AllocateDoes
    <2>2. ch = Broadcast /\ owner[ch].at = "allocate" /\ channels' = channels
      BY <1>2, AllocateDoes
    <2>3. ch \in channels /\ owner[ch].message.of \in 1 .. requests
      BY <1>1, <2>2 DEF OwnerOK
    <2> QED
      BY <2>1, <2>2, <2>3, OwnerSet DEF Working
  <1>3. CASE Store(ch)
    <2>1. PICK o \in Owners : Working(ch, o) /\ o.at = "send" /\ o.message = owner[ch].message
      BY <1>3, StoreDoes
    <2>2. ch = Broadcast /\ owner[ch].at = "store" /\ channels \subseteq channels'
      BY <1>3, StoreDoes
    <2>3. /\ ch \in channels /\ owner[ch].message.of \in 1 .. requests /\ owner[ch].message.ch = ch
          /\ owner[ch].message.kind = "init" /\ owner[ch].message.parts = 1
      BY <1>1, <2>2 DEF OwnerOK
    <2> QED
      BY <2>1, <2>2, <2>3, OwnerSet DEF Working
  <1>4. ASSUME NEW parts \in {1, 2}, Return(ch, parts) PROVE OwnersOK'
    <2>1. PICK o \in Owners :
            /\ Working(ch, o) /\ o.at = "send" /\ o.message.kind = "reply" /\ o.message.ch = ch
            /\ o.message.of = owner[ch].message.of /\ o.message.parts \in {1, 2}
      BY <1>4, ReturnDoes
    <2>2. ch # Broadcast /\ owner[ch].at = "run" /\ channels' = channels
      BY <1>4, ReturnDoes
    <2>3. ch \in channels /\ owner[ch].message.of \in 1 .. requests
      BY <1>1, <2>2 DEF OwnerOK
    <2> QED
      BY <2>1, <2>2, <2>3, OwnerSet DEF Working
  <1>5. ASSUME NEW part \in {1, 2}, Send(ch, part) PROVE OwnersOK'
    <2> DEFINE m == owner[ch].message
               o == At("sending", m)
    <2>1. /\ owner[ch].at = (IF part = 1 THEN "send" ELSE "sending")
          /\ channels' = channels
          /\ \/ part = m.parts /\ Working(ch, Free)
             \/ part = 1 /\ m.parts = 2 /\ Working(ch, o)
      BY <1>5, SendDoes
    <2>2. CASE Working(ch, Free)
      BY <2>1, <2>2, OwnerFreed DEF Working
    <2>3. CASE part = 1 /\ m.parts = 2 /\ Working(ch, o)
      <3>1. o \in Owners /\ o.at = "sending" /\ o.message = m
        BY <1>1 DEF At, Owners
      <3>2. ch \in channels /\ m.ch = ch /\ m.of \in 1 .. requests /\ ch # Broadcast /\ m.kind \in {"reply", "error"}
        BY <1>1, <2>1, <2>3 DEF OwnerOK
      <3>3. owner' = [owner EXCEPT ![ch] = o] /\ requests' = requests
        BY <2>3 DEF Working
      <3> HIDE DEF o
      <3> QED
        BY <2>1, <2>3, <3>1, <3>2, <3>3, OwnerSet
    <2> QED
      BY <2>1, <2>2, <2>3
  <1>6. CASE Echo(ch)
    BY <1>6, EchoDoes, OwnerFreed DEF Working
  <1> QED
    BY <1>2, <1>3, <1>4, <1>5, <1>6 DEF Work

\* What a goroutine in messageLock and one of the keepalives leave alone.
LEMMA WorkKeeps ==
  ASSUME NEW ch \in Ids, Work(ch)
  PROVE  /\ UNCHANGED <<client, requests, cancels, empty, answers, cancelled, packets, transaction, keepalives, crashed,
                        handed, reordered>>
         /\ channels \subseteq channels'
  <1>1. CASE Allocate(ch) \/ Store(ch) \/ Echo(ch)
    BY <1>1 DEF Allocate, Store, Echo, host, history
  <1>2. ASSUME NEW n \in {1, 2}, Return(ch, n) \/ Send(ch, n)
        PROVE  /\ UNCHANGED <<client, requests, cancels, empty, answers, cancelled, packets, transaction, keepalives, crashed,
                              handed, reordered>>
               /\ channels \subseteq channels'
    BY <1>2 DEF Return, Send, host, history
  <1> QED
    BY <1>1, <1>2 DEF Work

LEMMA TickKeeps ==
  ASSUME NEW r, Fire(r) \/ Tick(r)
  PROVE  UNCHANGED <<client, requests, cancels, empty, answers, cancelled, packets, transaction, maxChannelID, channels,
                     owner, sender, crashed, handed, reordered>>
  BY DEF Fire, Tick, Keepalive, StopTicker, host, history

\* How much the steps of the clients leave alone.
LEMMA ClientKeeps ==
  ASSUME Typed, ClientStep
  PROVE  /\ UNCHANGED <<maxChannelID, channels, transaction, owner, sender, ticker, out, handed, reordered>>
         /\ requests' \in Nat /\ requests <= requests' /\ requests \in Nat
         /\ packets \subseteq packets' /\ cancelled \subseteq cancelled' /\ empty \subseteq empty'
  <1>1. requests \in Nat
    BY DEF Typed
  <1>2. PICK c \in Clients :
          \/ Open(c) \/ Opened(c) \/ Continue(c) \/ Cancel(c) \/ Answered(c)
          \/ \E more \in BOOLEAN, cmd \in {"cbor", "plain", "empty"} : Request(c, more, cmd)
    BY DEF ClientStep
  <1>3. CASE Open(c)
    BY <1>1, <1>3, OpenDoes DEF Asking, Sending, Own, history
  <1>4. CASE Continue(c)
    BY <1>1, <1>4, ContinueDoes DEF Sending, Own, history
  <1>6. CASE Cancel(c)
    BY <1>1, <1>6, CancelDoes DEF Sending, Own, history
  <1>7. CASE Opened(c)
    BY <1>1, <1>7 DEF Opened, history
  <1>8. CASE Answered(c)
    BY <1>1, <1>8 DEF Answered, history
  <1>5. ASSUME NEW more \in BOOLEAN, NEW cmd \in {"cbor", "plain", "empty"}, Request(c, more, cmd)
        PROVE  /\ UNCHANGED <<maxChannelID, channels, transaction, owner, sender, ticker, out, handed, reordered>>
               /\ requests' \in Nat /\ requests <= requests'
               /\ packets \subseteq packets' /\ cancelled \subseteq cancelled' /\ empty \subseteq empty'
    BY <1>1, <1>5 DEF Request, Sends, history
  <1> QED
    BY <1>1, <1>2, <1>3, <1>4, <1>5, <1>6, <1>7, <1>8

LEMMA NextOwners ==
  ASSUME Typed, LiveOK, OwnersOK, Counted, Numbered, [Next]_vars
  PROVE  OwnersOK'
  <1>1. requests \in Nat
    BY DEF Typed
  <1>2. CASE ClientStep
    BY <1>2, ClientKeeps, OwnersKept
  <1>3. ASSUME NEW r \in Requests, Fire(r) \/ Tick(r) PROVE OwnersOK'
    BY <1>1, <1>3, TickKeeps, OwnersKept
  <1>4. CASE Idle
    BY <1>1, <1>4, OwnersKept DEF Idle
  <1> QED
    BY <1>2, <1>3, <1>4, Steps, HandleOwners, WorkOwners

LEMMA NextLive ==
  ASSUME Typed, LiveOK, OwnersOK, Counted, Numbered, NoneForgotten, Ownership, [Next]_vars
  PROVE  LiveOK'
  <1>1. ASSUME NEW ch \in Ids, Work(ch) PROVE LiveOK'
    BY <1>1, WorkKeeps, StillLive
  <1>2. ASSUME NEW r \in Requests, Fire(r) \/ Tick(r) PROVE LiveOK'
    BY <1>2, TickKeeps, StillLive
  <1>3. CASE Idle
    BY <1>3, StillLive DEF Idle
  <1> QED
    BY <1>1, <1>2, <1>3, Steps, ClientLive, HandleLive

-----------------------------------------------------------------------------
(* Empty PINGs. *)

LEMMA InitMute == Init => Mute
  <1> SUFFICES ASSUME Init PROVE Mute
    OBVIOUS
  <1>1. Live = {}
    BY DEF Init, Live, Gathered
  <1>2. \A ch \in Ids : owner[ch].message.kind # "reply"
    BY DEF Init, Free, NoMessage, Message
  <1> QED
    BY <1>1, <1>2 DEF Init, Mute

LEMMA MuteKept ==
  ASSUME Mute, empty' = empty, requests' = requests, Live' \subseteq Live,
         \A ch \in Ids : \/ owner'[ch] = owner[ch] \/ owner'[ch].message.kind # "reply"
                         \/ owner'[ch].message.parts = 0 <=> owner'[ch].message.of \in empty
  PROVE  Mute'
  <1>1. \A p \in Live' : p.kind = "first" => (p.cmd = "empty" <=> p.req \in empty) /\ (p.cmd = "empty" => ~p.more)
    BY DEF Mute
  <1>2. ASSUME NEW ch \in Ids, owner'[ch].message.kind = "reply"
        PROVE  owner'[ch].message.parts = 0 <=> owner'[ch].message.of \in empty
    BY <1>2 DEF Mute
  <1> QED
    BY <1>1, <1>2 DEF Mute

LEMMA ClientMute ==
  ASSUME Typed, LiveOK, OwnersOK, Mute, ClientStep
  PROVE  Mute'
  <1>1. owner' = owner /\ requests \in Nat
    BY ClientKeeps
  <1>2. \A q \in Live : q \in Packets /\ q.req \in Nat /\ q.req <= requests
    BY LivePackets DEF LiveOK, Packets, Requests
  <1>3. \A ch \in Ids : owner[ch].message.kind = "reply" => owner[ch].message.of \in 1 .. requests
    <2>1. Free.message.kind = "none"
      BY DEF Free, NoMessage, Message
    <2> QED
      BY <2>1 DEF OwnersOK, OwnerOK
  <1>4. ASSUME NEW c \in Clients, NEW p, Asking(c, p) PROVE Mute'
    <2>1. /\ p.req = requests + 1 /\ requests' = requests + 1 /\ (p.cmd = "empty" => ~p.more)
          /\ empty' = (IF p.cmd = "empty" THEN empty \union {p.req} ELSE empty)
      BY <1>4 DEF Asking
    <2>2. Live' = Live \union {p}
      BY <1>4, LiveSent DEF Asking, Sending, Own
    <2>3. p.req \notin empty /\ (\A q \in Live : q.req # p.req)
          /\ \A ch \in Ids : owner[ch].message.kind = "reply" => owner[ch].message.of # p.req
      BY <1>1, <1>2, <1>3, <2>1 DEF Mute
    <2>4. \A n : n # p.req => (n \in empty' <=> n \in empty)
      BY <2>1
    <2>5. p.cmd = "empty" <=> p.req \in empty'
      BY <2>1, <2>3
    <2>6. empty' \subseteq 1 .. requests'
      BY <1>1, <2>1 DEF Mute
    <2>7. \A q \in Live' : q.kind = "first" => (q.cmd = "empty" <=> q.req \in empty') /\ (q.cmd = "empty" => ~q.more)
      BY <2>1, <2>2, <2>3, <2>4, <2>5 DEF Mute
    <2>8. \A ch \in Ids : owner'[ch].message.kind = "reply" => (owner'[ch].message.parts = 0 <=> owner'[ch].message.of \in empty')
      BY <1>1, <2>3, <2>4 DEF Mute
    <2> QED
      BY <2>6, <2>7, <2>8 DEF Mute
  <1>5. ASSUME NEW c \in Clients, NEW p, Sending(c, p), p.kind # "first", empty' = empty, requests' = requests PROVE Mute'
    <2>1. Live' = Live \union {p}
      BY <1>5, LiveSent DEF Sending, Own
    <2> QED
      BY <1>1, <1>5, <2>1 DEF Mute
  <1>6. ASSUME NEW c \in Clients, Taking(c) PROVE Mute'
    <2>1. Live' = Live
      BY <1>6, LiveSame DEF Taking, Own
    <2> QED
      BY <1>1, <1>6, <2>1, MuteKept DEF Taking
  <1> QED
    BY <1>4, <1>5, <1>6, OpenDoes, RequestDoes, ContinueDoes, CancelDoes, OpenedDoes, AnsweredDoes DEF ClientStep

LEMMA HandleMute ==
  ASSUME Typed, LiveOK, Mute, NEW p, Handle(p)
  PROVE  Mute'
  <1>1. Live' \subseteq Live /\ empty' = empty /\ requests' = requests
    BY LiveHandled, HandleDoes DEF Handling
  <1>2. ASSUME NEW o, owner' = [owner EXCEPT ![p.ch] = o],
               o.message.kind # "reply" \/ (o.message.parts = 0 <=> o.message.of \in empty)
        PROVE  Mute'
    <2>1. \A ch \in Ids : owner'[ch] = IF ch = p.ch THEN o ELSE owner[ch]
      BY <1>2 DEF Typed
    <2> QED
      BY <1>1, <1>2, <2>1, MuteKept
  <1>3. CASE owner' = owner
    BY <1>1, <1>3, MuteKept
  <1>4. CASE Reject(p)
    BY <1>2, <1>4, RejectDoes
  <1>5. CASE Complete(p)
    <2>1. Head1(p) \in Live /\ Head1(p).kind = "first"
      BY <1>5, WholeHead, HeadBegins
    <2>2. PICK o \in Owners :
            /\ owner' = [owner EXCEPT ![p.ch] = o]
            /\ o.message.ch = p.ch /\ o.message.of = Head1(p).req
            /\ p.ch = Broadcast => o.at = "allocate" /\ o.message.kind = "init" /\ o.message.parts = 1
            /\ p.ch # Broadcast => /\ o.at = "run" /\ o.message.kind = "reply"
                                   /\ o.message.parts = (IF Head1(p).cmd = "empty" THEN 0 ELSE 1)
      BY <1>5, CompleteDoes
    <2>3. Head1(p).cmd = "empty" <=> Head1(p).req \in empty
      BY <2>1 DEF Mute
    <2>4. o.message.kind # "reply" \/ (o.message.parts = 0 <=> o.message.of \in empty)
      <3>1. CASE p.ch = Broadcast
        BY <2>2, <3>1
      <3>2. CASE p.ch # Broadcast
        BY <2>2, <2>3, <3>2
      <3> QED
        BY <3>1, <3>2
    <2> QED
      BY <1>2, <2>2, <2>4
  <1> QED
    BY <1>3, <1>4, <1>5 DEF Handle, UnknownChannel, Gather, Drop

LEMMA WorkMute ==
  ASSUME Typed, OwnersOK, Mute, Counted, Numbered, NEW ch \in Ids, Work(ch)
  PROVE  Mute'
  <1>1. Live' = Live /\ empty' = empty /\ requests' = requests
    BY LiveSame, WorkKeeps
  <1>2. ASSUME NEW o, Working(ch, o), o.message.kind # "reply" \/ (o.message.parts = 0 <=> o.message.of \in empty)
        PROVE  Mute'
    <2>1. \A d \in Ids : owner'[d] = IF d = ch THEN o ELSE owner[d]
      BY <1>2 DEF Typed, Working
    <2> QED
      BY <1>1, <1>2, <2>1, MuteKept
  <1>3. OwnerOK(ch) /\ Free.message.kind = "none"
    BY DEF OwnersOK, Free, NoMessage, Message
  <1>4. CASE Allocate(ch)
    BY <1>2, <1>4, AllocateDoes
  <1>5. CASE Store(ch)
    <2>1. owner[ch].message.kind = "init"
      BY <1>3, <1>5, StoreDoes DEF OwnerOK
    <2> QED
      BY <1>2, <1>5, <2>1, StoreDoes
  <1>6. CASE Echo(ch)
    BY <1>2, <1>3, <1>6, EchoDoes
  <1>7. ASSUME NEW n \in {1, 2}, Return(ch, n) PROVE Mute'
    <2>1. owner[ch].at = "run" /\ owner[ch].message.parts # 0
      BY <1>7 DEF Return
    <2>2. owner[ch].message.of \notin empty
      BY <1>3, <2>1 DEF OwnerOK, Mute
    <2>3. PICK o \in Owners : Working(ch, o) /\ o.message.of = owner[ch].message.of /\ o.message.parts \in {1, 2}
      BY <1>7, ReturnDoes
    <2> QED
      BY <1>2, <2>2, <2>3
  <1>8. ASSUME NEW n \in {1, 2}, Send(ch, n) PROVE Mute'
    <2>1. At("sending", owner[ch].message).message = owner[ch].message
      BY DEF At
    <2>2. Working(ch, Free) \/ Working(ch, At("sending", owner[ch].message))
      BY <1>8, SendDoes
    <2>3. owner[ch].message.kind # "reply" \/ (owner[ch].message.parts = 0 <=> owner[ch].message.of \in empty)
      BY DEF Mute
    <2> QED
      BY <1>2, <1>3, <2>1, <2>2, <2>3
  <1> QED
    BY <1>4, <1>5, <1>6, <1>7, <1>8 DEF Work

LEMMA NextMute ==
  ASSUME Typed, LiveOK, OwnersOK, Mute, Counted, Numbered, [Next]_vars
  PROVE  Mute'
  <1>1. ASSUME UNCHANGED <<packets, transaction, owner, empty, requests>> PROVE Mute'
    <2>1. Live' = Live
      BY <1>1, LiveSame
    <2> QED
      BY <1>1, <2>1, MuteKept
  <1>2. CASE Idle
    BY <1>1, <1>2 DEF Idle
  <1>3. ASSUME NEW r \in Requests, Fire(r) \/ Tick(r) PROVE Mute'
    BY <1>1, <1>3, TickKeeps
  <1> QED
    BY <1>2, <1>3, Steps, ClientMute, HandleMute, WorkMute

-----------------------------------------------------------------------------
(* Channel ids. *)

\* What was sent stays sent.
LEMMA OutGrows ==
  ASSUME Typed, NEW e \in Parts, out' = Append(out, e)
  PROVE  /\ Len(out) \in Nat /\ Len(out') = Len(out) + 1
         /\ \A k \in 1 .. Len(out) : out'[k] = out[k]
         /\ out'[Len(out) + 1] = e
         /\ \A k \in 1 .. Len(out') : k \in 1 .. Len(out) \/ k = Len(out) + 1
  <1>1. out \in Seq(Parts)
    BY DEF Typed
  <1>2. /\ Len(out) \in Nat /\ Len(out') = Len(out) + 1
        /\ \A k \in 1 .. Len(out) : out'[k] = out[k]
        /\ out'[Len(out) + 1] = e
    BY <1>1, Appending, LenProperties
  <1> QED
    BY <1>2

LEMMA NoErrorOnBroadcast ==
  ASSUME Typed, LiveOK, NEW p, Reject(p)
  PROVE  p.ch # Broadcast
  <1>1. p \in Live /\ p.ch \in Ids
    BY LocksDoes DEF Reject, Live
  <1>2. CASE p.kind = "next"
    BY <1>1, <1>2 DEF LiveOK
  <1>3. CASE transaction[p.ch] # <<>>
    BY <1>1, <1>3 DEF LiveOK
  <1> QED
    BY <1>2, <1>3, RejectDoes

\* What comes to the broadcast channel is an INIT of one packet.
LEMMA BroadcastHandled ==
  ASSUME Typed, LiveOK, NEW p, Handle(p)
  PROVE  \/ owner'[Broadcast] = owner[Broadcast]
         \/ /\ p.ch = Broadcast /\ owner[Broadcast] = Free
            /\ owner'[Broadcast].at = "allocate" /\ owner'[Broadcast].message.of = p.req
  <1>1. CASE p.ch # Broadcast
    BY <1>1, LiveHandled, Names
  <1>2. CASE p.ch = Broadcast /\ ~Complete(p)
    <2>1. UnknownChannel(p) \/ Gather(p) \/ Drop(p)
      BY <1>2, NoErrorOnBroadcast DEF Handle
    <2> QED
      BY <2>1 DEF UnknownChannel, Gather, Drop
  <1>3. CASE p.ch = Broadcast /\ Complete(p)
    <2>1. transaction[Broadcast] = <<>>
      BY Names DEF LiveOK
    <2>2. PICK o \in Owners : owner' = [owner EXCEPT ![p.ch] = o] /\ o.at = "allocate" /\ o.message.of = Head1(p).req
      BY <1>3, CompleteDoes
    <2>3. owner[Broadcast] = Free
      BY <1>3, LocksDoes DEF Complete
    <2>4. owner'[Broadcast] = o
      BY <1>3, <2>2, Names DEF Typed
    <2> QED
      BY <1>3, <2>1, <2>2, <2>3, <2>4 DEF Head1
  <1> QED
    BY <1>1, <1>2, <1>3

LEMMA InitNumbered == Init => Numbered
  BY Names DEF Init, Numbered, Free

LEMMA NumberedKept ==
  ASSUME Typed, Numbered, UNCHANGED <<maxChannelID, channels>>,
         owner'[Broadcast] = owner[Broadcast] \/ owner'[Broadcast].at \notin {"store", "send"},
         out' = out \/ \E e \in Parts : out' = Append(out, e) /\ e.kind # "init"
  PROVE  Numbered'
  <1>1. CASE out' = out
    BY <1>1 DEF Numbered
  <1>2. ASSUME NEW e \in Parts, out' = Append(out, e), e.kind # "init" PROVE Numbered'
    <2>1. \A k \in 1 .. Len(out') : out'[k].kind = "init" => k \in 1 .. Len(out) /\ out'[k] = out[k]
      BY <1>2, OutGrows
    <2> QED
      BY <2>1 DEF Numbered
  <1> QED
    BY <1>1, <1>2

LEMMA HandleNumbered ==
  ASSUME Typed, LiveOK, Numbered, NEW p, Handle(p)
  PROVE  Numbered'
  <1>1. UNCHANGED <<maxChannelID, channels>>
    BY HandleDoes DEF Handling
  <1>2. owner'[Broadcast] = owner[Broadcast] \/ owner'[Broadcast].at \notin {"store", "send"}
    BY BroadcastHandled
  <1>3. out' = out \/ \E e \in Parts : out' = Append(out, e) /\ e.kind # "init"
    <2>1. CASE UnknownChannel(p)
      BY <2>1, UnknownDoes
    <2>2. CASE ~UnknownChannel(p)
      BY <2>2 DEF Handle, Gather, Drop, Reject, Complete
    <2> QED
      BY <2>1, <2>2
  <1> QED
    BY <1>1, <1>2, <1>3, NumberedKept

LEMMA WorkNumbered ==
  ASSUME Typed, OwnersOK, Counted, Numbered, NEW ch \in Ids, Work(ch)
  PROVE  Numbered'
  <1>0. OwnerOK(ch) /\ channels \subseteq 0 .. maxChannelID /\ maxChannelID \in Nat
    BY Bounds DEF OwnersOK, Typed, Ids
  <1>1. CASE Allocate(ch)
    <2>1. PICK o \in Owners : Working(ch, o) /\ o.at = "store" /\ o.message.id = maxChannelID + 1
      BY <1>1, AllocateDoes
    <2>2. ch = Broadcast /\ UNCHANGED <<maxChannelID, channels, out>>
      BY <1>1, AllocateDoes
    <2>3. owner'[Broadcast] = o
      BY <2>1, <2>2 DEF Working, Typed
    <2> QED
      BY <2>1, <2>2, <2>3 DEF Numbered
  <1>2. CASE Store(ch)
    <2>1. PICK o \in Owners : Working(ch, o) /\ o.at = "send" /\ o.message = owner[ch].message
      BY <1>2, StoreDoes
    <2>2. /\ ch = Broadcast /\ maxChannelID' = maxChannelID + 1
          /\ channels' = channels \union {maxChannelID'} /\ owner[ch].message.id = maxChannelID' /\ out' = out
      BY <1>2, StoreDoes
    <2>3. owner'[Broadcast] = o
      BY <2>1, <2>2 DEF Working, Typed
    <2>4. \A k \in 1 .. Len(out) : out[k].kind = "init" => out[k].id \in channels \ {Broadcast} /\ out[k].id # maxChannelID'
      BY <1>0, <2>2 DEF Numbered
    <2>5. maxChannelID' \in channels' \ {Broadcast}
      BY <1>0, <2>2 DEF Broadcast
    <2> QED
      BY <2>1, <2>2, <2>3, <2>4, <2>5 DEF Numbered
  <1>3. ASSUME NEW parts \in {1, 2}, Return(ch, parts) PROVE Numbered'
    <2>1. ch # Broadcast /\ UNCHANGED <<maxChannelID, channels, out>> /\ \E o \in Owners : Working(ch, o)
      BY <1>3, ReturnDoes
    <2>2. owner'[Broadcast] = owner[Broadcast]
      BY <2>1, Names DEF Working, Typed
    <2> QED
      BY <2>1, <2>2, NumberedKept
  <1>4. ASSUME NEW part \in {1, 2}, Send(ch, part) PROVE Numbered'
    <2> DEFINE m == owner[ch].message
               e == Part(m, part)
    <2>1. /\ owner[ch].at = (IF part = 1 THEN "send" ELSE "sending")
          /\ e \in Parts /\ out' = Append(out, e) /\ UNCHANGED <<maxChannelID, channels>>
          /\ \/ part = m.parts /\ Working(ch, Free)
             \/ part = 1 /\ m.parts = 2 /\ Working(ch, At("sending", m))
      BY <1>4, SendDoes
    <2>2. e.kind = m.kind /\ e.id = m.id
      BY DEF Part
    <2> HIDE DEF e
    <2>3. CASE ch # Broadcast
      <3>1. m.kind # "init"
        BY <1>0, <2>1, <2>3 DEF OwnerOK
      <3>2. owner'[Broadcast] = owner[Broadcast]
        BY <2>1, <2>3, Names DEF Working, Typed
      <3> QED
        BY <2>1, <2>2, <3>1, <3>2, NumberedKept
    <2>4. CASE ch = Broadcast
      <3>1. m.parts = 1 /\ owner[ch].at = "send"
        BY <1>0, <2>1, <2>4 DEF OwnerOK
      <3>2. owner'[Broadcast] = Free
        BY <2>1, <2>4, <3>1 DEF Working, Typed
      <3>3. owner'[Broadcast].at = "free"
        BY <3>2 DEF Free
      <3>4. m.id \in channels \ {Broadcast} /\ \A k \in 1 .. Len(out) : out[k].kind = "init" => out[k].id # m.id
        BY <2>4, <3>1 DEF Numbered
      <3>5. \A k \in 1 .. Len(out') : out'[k].kind = "init" => out'[k].id \in channels' \ {Broadcast}
        BY <2>1, <2>2, <3>4, OutGrows DEF Numbered
      <3>6. \A i, j \in 1 .. Len(out') :
              out'[i].kind = "init" /\ out'[j].kind = "init" /\ out'[i].id = out'[j].id => i = j
        BY <2>1, <2>2, <3>4, OutGrows DEF Numbered
      <3> QED
        BY <3>3, <3>5, <3>6 DEF Numbered
    <2> QED
      BY <2>3, <2>4
  <1>5. CASE Echo(ch)
    <2>1. ch # Broadcast /\ UNCHANGED <<maxChannelID, channels, out>> /\ Working(ch, Free)
      BY <1>5, EchoDoes
    <2>2. owner'[Broadcast] = owner[Broadcast]
      BY <2>1, Names DEF Working, Typed
    <2> QED
      BY <2>1, <2>2, NumberedKept
  <1> QED
    BY <1>1, <1>2, <1>3, <1>4, <1>5 DEF Work

LEMMA TickNumbered ==
  ASSUME Typed, Numbered, NEW r \in Requests, Fire(r) \/ Tick(r)
  PROVE  Numbered'
  <1>1. UNCHANGED <<maxChannelID, channels, owner>>
    BY TickKeeps
  <1>2. out' = out \/ \E e \in Parts : out' = Append(out, e) /\ e.kind # "init"
    <2>1. CASE Keepalive(r)
      BY <2>1, KeepaliveDoes
    <2>2. CASE ~Keepalive(r)
      BY <2>2 DEF Fire, Tick, StopTicker
    <2> QED
      BY <2>1, <2>2
  <1> QED
    BY <1>1, <1>2, NumberedKept

LEMMA NextNumbered ==
  ASSUME Typed, LiveOK, OwnersOK, Counted, Numbered, [Next]_vars
  PROVE  Numbered'
  <1>1. CASE ClientStep
    BY <1>1, ClientKeeps, NumberedKept
  <1>2. CASE Idle
    BY <1>2, NumberedKept DEF Idle
  <1> QED
    BY <1>1, <1>2, Steps, HandleNumbered, WorkNumbered, TickNumbered

LEMMA InitCounted == Init => Counted
  <1> SUFFICES ASSUME Init PROVE Counted
    OBVIOUS
  <1>1. owner[Broadcast].at = "free"
    BY Names DEF Init, Free
  <1>2. Opening = {}
    BY <1>1 DEF Init, Opening
  <1> QED
    BY <1>2, FS_EmptySet DEF Init, Counted

LEMMA CountedKept ==
  ASSUME Typed, OwnersOK, Counted, Opening' \subseteq Opening, maxChannelID' = maxChannelID,
         requests <= requests', requests' \in Nat
  PROVE  Counted'
  <1>1. Cardinality(Opening') <= Cardinality(Opening) /\ Cardinality(Opening') \in Nat /\ Cardinality(Opening) \in Nat
    BY OpeningFinite, FS_Subset, FS_CardinalityType
  <1>2. maxChannelID \in Nat /\ requests \in Nat
    BY Bounds DEF Typed, Ids
  <1> QED
    BY <1>1, <1>2 DEF Counted

LEMMA ClientCounted ==
  ASSUME Typed, OwnersOK, Counted, NoneForgotten, Ownership, ClientStep
  PROVE  Counted'
  <1>1. UNCHANGED <<maxChannelID, owner>> /\ requests <= requests' /\ requests' \in Nat /\ requests \in Nat
    BY ClientKeeps
  <1>2. ASSUME NEW c \in Clients, NEW p, Sending(c, p), p.ch # Broadcast PROVE Counted'
    <2>1. Opening' = Opening
      BY <1>1, <1>2 DEF Sending, Opening
    <2> QED
      BY <1>1, <2>1, CountedKept
  <1>3. ASSUME NEW c \in Clients, Taking(c) PROVE Counted'
    <2>1. Opening' = Opening
      BY <1>1, <1>3 DEF Taking, Opening
    <2> QED
      BY <1>1, <2>1, CountedKept
  <1>4. ASSUME NEW c \in Clients, Open(c) PROVE Counted'
    <2>1. PICK p : Asking(c, p) /\ p.ch = Broadcast
      BY <1>4, OpenDoes
    <2>2. packets' = packets \union {p} /\ requests' = requests + 1
      BY <2>1 DEF Asking, Sending
    <2>3. Opening' = Opening \union {p.req}
      BY <1>1, <2>1, <2>2 DEF Opening
    <2>4. Cardinality(Opening') <= Cardinality(Opening) + 1 /\ Cardinality(Opening) \in Nat /\ Cardinality(Opening') \in Nat
      <3>1. IsFiniteSet(Opening) /\ Cardinality(Opening) \in Nat
        BY OpeningFinite
      <3>2. Cardinality(Opening \union {p.req}) = IF p.req \in Opening THEN Cardinality(Opening) ELSE Cardinality(Opening) + 1
        BY <3>1, FS_AddElement
      <3> QED
        BY <2>3, <3>1, <3>2
    <2>5. maxChannelID \in Nat
      BY Bounds DEF Typed, Ids
    <2> QED
      BY <1>1, <2>2, <2>4, <2>5 DEF Counted
  <1>5. ASSUME NEW c \in Clients, NEW more \in BOOLEAN, NEW cmd \in {"cbor", "plain", "empty"}, Request(c, more, cmd) PROVE Counted'
    <2>1. PICK p : Asking(c, p) /\ p.ch = client[c].ch
      BY <1>5, RequestDoes
    <2>2. client[c].ch # Broadcast
      BY <1>5, RequestDoes DEF Ownership
    <2> QED
      BY <1>2, <2>1, <2>2 DEF Asking
  <1>6. ASSUME NEW c \in Clients, Continue(c) \/ Cancel(c) PROVE Counted'
    <2>1. PICK p : Sending(c, p) /\ p.ch = client[c].ch
      BY <1>6, ContinueDoes, CancelDoes
    <2>2. client[c].ch # Broadcast
      BY <1>6, ContinueDoes, CancelDoes DEF NoneForgotten
    <2> QED
      BY <1>2, <2>1, <2>2
  <1>7. ASSUME NEW c \in Clients, Opened(c) \/ Answered(c) PROVE Counted'
    BY <1>3, <1>7, OpenedDoes, AnsweredDoes
  <1> QED
    BY <1>4, <1>5, <1>6, <1>7 DEF ClientStep

LEMMA HandleCounted ==
  ASSUME Typed, LiveOK, OwnersOK, Counted, NEW p, Handle(p)
  PROVE  Counted'
  <1>1. UNCHANGED <<maxChannelID, requests>> /\ packets' \subseteq packets /\ p \in packets /\ requests \in Nat
    BY HandleDoes, LiveHandled DEF Handling, Typed
  <1>2. CASE owner'[Broadcast] = owner[Broadcast]
    <2>1. Opening' \subseteq Opening
      BY <1>1, <1>2 DEF Opening
    <2> QED
      BY <1>1, <2>1, CountedKept
  <1>3. CASE /\ p.ch = Broadcast /\ owner[Broadcast] = Free
             /\ owner'[Broadcast].at = "allocate" /\ owner'[Broadcast].message.of = p.req
    <2>1. Opening' \subseteq Opening
      BY <1>1, <1>3 DEF Opening
    <2> QED
      BY <1>1, <2>1, CountedKept
  <1> QED
    BY <1>2, <1>3, BroadcastHandled

LEMMA WorkCounted ==
  ASSUME Typed, LiveOK, OwnersOK, Counted, Numbered, Once, NEW ch \in Ids, Work(ch)
  PROVE  Counted'
  <1>0. requests \in Nat /\ maxChannelID \in Nat /\ UNCHANGED <<requests, packets>>
    BY Bounds, WorkKeeps DEF Typed, Ids
  <1>1. CASE Allocate(ch)
    <2>1. PICK o \in Owners : Working(ch, o) /\ o.at = "store" /\ o.message.of = owner[ch].message.of
      BY <1>1, AllocateDoes
    <2>2. ch = Broadcast /\ owner[ch].at = "allocate" /\ maxChannelID' = maxChannelID
      BY <1>1, AllocateDoes
    <2>3. owner'[Broadcast] = o
      BY <2>1, <2>2 DEF Working, Typed
    <2>4. Opening' = Opening
      BY <1>0, <2>1, <2>2, <2>3 DEF Opening
    <2> QED
      BY <1>0, <2>2, <2>4, CountedKept
  <1>2. CASE Store(ch)
    <2> DEFINE of == owner[Broadcast].message.of
    <2>1. PICK o \in Owners : Working(ch, o) /\ o.at = "send"
      BY <1>2, StoreDoes
    <2>2. ch = Broadcast /\ owner[ch].at = "store" /\ maxChannelID' = maxChannelID + 1
      BY <1>2, StoreDoes
    <2>3. owner'[Broadcast] = o
      BY <2>1, <2>2 DEF Working, Typed
    <2>4. owner[Broadcast].message.kind = "init"
      BY <2>2 DEF OwnersOK, OwnerOK
    <2>5. \A p \in packets : p.ch = Broadcast => p.req # of
      BY <2>4, Names DEF LiveOK, Live, Once
    <2>6. Opening' = {p.req : p \in {q \in packets : q.ch = Broadcast}}
      BY <1>0, <2>1, <2>3 DEF Opening
    <2>7. Opening' = Opening \ {of} /\ of \in Opening
      BY <2>2, <2>5, <2>6 DEF Opening
    <2>8. Cardinality(Opening') = Cardinality(Opening) - 1 /\ Cardinality(Opening) \in Nat /\ Cardinality(Opening') \in Nat
      BY <2>7, OpeningFinite, FS_RemoveElement, FS_CardinalityType
    <2> QED
      BY <1>0, <2>2, <2>8 DEF Counted
  <1>3. ASSUME NEW parts \in {1, 2}, Return(ch, parts) PROVE Counted'
    <2>1. ch # Broadcast /\ maxChannelID' = maxChannelID /\ \E o \in Owners : Working(ch, o)
      BY <1>3, ReturnDoes
    <2>2. owner'[Broadcast] = owner[Broadcast]
      BY <2>1, Names DEF Working, Typed
    <2>3. Opening' = Opening
      BY <1>0, <2>2 DEF Opening
    <2> QED
      BY <1>0, <2>1, <2>3, CountedKept
  <1>4. ASSUME NEW part \in {1, 2}, Send(ch, part) PROVE Counted'
    <2>1. /\ owner[ch].at \in {"send", "sending"} /\ maxChannelID' = maxChannelID
          /\ \E o : Working(ch, o) /\ o.at \in {"free", "sending"}
      <3>1. Free.at = "free" /\ At("sending", owner[ch].message).at = "sending"
        BY DEF Free, At
      <3> QED
        BY <1>4, <3>1, SendDoes
    <2>2. \/ owner'[Broadcast] = owner[Broadcast]
          \/ owner'[Broadcast].at \in {"free", "sending"}
      BY <2>1, Names DEF Working, Typed
    <2>3. Opening' \subseteq Opening
      BY <1>0, <2>2 DEF Opening
    <2> QED
      BY <1>0, <2>1, <2>3, CountedKept
  <1>5. CASE Echo(ch)
    <2>1. ch # Broadcast /\ maxChannelID' = maxChannelID /\ Working(ch, Free)
      BY <1>5, EchoDoes
    <2>2. owner'[Broadcast] = owner[Broadcast]
      BY <2>1, Names DEF Working, Typed
    <2>3. Opening' = Opening
      BY <1>0, <2>2 DEF Opening
    <2> QED
      BY <1>0, <2>1, <2>3, CountedKept
  <1> QED
    BY <1>1, <1>2, <1>3, <1>4, <1>5 DEF Work

LEMMA NextCounted ==
  ASSUME Typed, LiveOK, OwnersOK, Counted, Numbered, Once, NoneForgotten, Ownership, [Next]_vars
  PROVE  Counted'
  <1>1. ASSUME UNCHANGED <<packets, owner, maxChannelID, requests>> PROVE Counted'
    BY <1>1, CountedKept DEF Opening, Typed
  <1>2. CASE Idle
    BY <1>1, <1>2 DEF Idle
  <1>3. ASSUME NEW r \in Requests, Fire(r) \/ Tick(r) PROVE Counted'
    BY <1>1, <1>3, TickKeeps
  <1> QED
    BY <1>2, <1>3, Steps, ClientCounted, HandleCounted, WorkCounted

-----------------------------------------------------------------------------
(* responsesLock. *)

LEMMA InitLocked == Init => Locked
  <1> SUFFICES ASSUME Init PROVE Locked
    OBVIOUS
  <1>1. Len(out) = 0 /\ sender = Nobody /\ \A ch \in Ids : owner[ch].at = "free" /\ sender # ch
    BY Names DEF Init, Free
  <1> QED
    BY <1>1 DEF Locked

\* Nothing is sent, and the goroutines that move hold no responsesLock.
LEMMA LockedKept ==
  ASSUME Locked, out' = out, sender' = sender,
         \A ch \in Ids : owner'[ch] = owner[ch] \/ (owner[ch].at # "sending" /\ owner'[ch].at # "sending")
  PROVE  Locked'
  <1>1. \A ch \in Ids : owner[ch].at = "sending" => owner'[ch] = owner[ch]
    OBVIOUS
  <1> QED
    BY <1>1 DEF Locked

\* A packet that is a whole message.
LEMMA LockedSingle ==
  ASSUME Typed, Locked, sender = Nobody, sender' = Nobody, NEW e \in Parts, out' = Append(out, e), e.last,
         \A ch \in Ids : owner'[ch] = owner[ch] \/ (owner[ch].at # "sending" /\ owner'[ch].at # "sending")
  PROVE  Locked'
  <1>1. /\ Len(out) \in Nat /\ Len(out') = Len(out) + 1
        /\ \A k \in 1 .. Len(out) : out'[k] = out[k]
        /\ out'[Len(out) + 1] = e
        /\ \A k \in 1 .. Len(out') : k \in 1 .. Len(out) \/ k = Len(out) + 1
    BY OutGrows
  <1>2. \A ch \in Ids : owner'[ch].at # "sending" /\ sender' # ch
    BY Names DEF Locked
  <1>3. \A k \in 1 .. Len(out') : k = Len(out') => out'[k].last
    BY <1>1
  <1>4. ASSUME NEW k \in 1 .. Len(out'), ~out'[k].last
        PROVE  [out'[k + 1] EXCEPT !.last = FALSE] = out'[k]
    <2>1. k \in 1 .. Len(out) /\ ~out[k].last
      BY <1>1, <1>4
    <2>2. k # Len(out)
      BY <2>1 DEF Locked
    <2>3. [out[k + 1] EXCEPT !.last = FALSE] = out[k] /\ k + 1 \in 1 .. Len(out)
      BY <1>1, <2>1, <2>2 DEF Locked
    <2> QED
      BY <1>1, <2>1, <2>3
  <1> QED
    BY <1>2, <1>3, <1>4 DEF Locked

\* The two packets of a response differ in which is the last.
LEMMA FirstPart ==
  ASSUME NEW m, m.parts = 2
  PROVE  [Part(m, 2) EXCEPT !.last = FALSE] = Part(m, 1)
  <1>1. (1 = m.parts) = FALSE
    OBVIOUS
  <1>2. Part(m, 1) = [kind |-> m.kind, ch |-> m.ch, of |-> m.of, id |-> m.id, last |-> FALSE]
    BY <1>1, Zenon DEF Part
  <1>3. Part(m, 2) = [kind |-> m.kind, ch |-> m.ch, of |-> m.of, id |-> m.id, last |-> 2 = m.parts]
    BY Zenon DEF Part
  <1> QED
    BY <1>2, <1>3

LEMMA SendLocked ==
  ASSUME Typed, OwnersOK, Locked, NEW ch \in Ids, NEW part \in {1, 2}, Send(ch, part)
  PROVE  Locked'
  <1> DEFINE m == owner[ch].message
             e == Part(m, part)
  <1>1. /\ owner[ch].at = (IF part = 1 THEN "send" ELSE "sending")
        /\ sender = (IF part = 1 THEN Nobody ELSE ch)
        /\ e \in Parts /\ out' = Append(out, e)
        /\ \/ part = m.parts /\ sender' = Nobody /\ Working(ch, Free)
           \/ part = 1 /\ m.parts = 2 /\ sender' = ch /\ Working(ch, At("sending", m))
    BY SendDoes
  <1>2. \A o : Working(ch, o) => owner'[ch] = o /\ \A d \in Ids : d # ch => owner'[d] = owner[d]
    BY DEF Working, Typed
  <1>3. e.last = (part = m.parts) /\ Free.at = "free" /\ At("sending", m).at = "sending" /\ At("sending", m).message = m
    BY DEF Part, Free, At
  <1>4. OwnerOK(ch)
    BY DEF OwnersOK
  <1>5. CASE part = 1 /\ m.parts = 1
    <2>1. owner'[ch] = Free /\ sender' = Nobody /\ \A d \in Ids : d # ch => owner'[d] = owner[d]
      BY <1>1, <1>2, <1>5
    <2> HIDE DEF e
    <2>2. \A d \in Ids : owner'[d] = owner[d] \/ (owner[d].at # "sending" /\ owner'[d].at # "sending")
      BY <1>1, <1>3, <1>5, <2>1
    <2>3. e.last
      BY <1>3, <1>5
    <2> QED
      BY <1>1, <1>5, <2>1, <2>2, <2>3, LockedSingle
  <1>6. CASE part = 1 /\ m.parts = 2
    <2>1. owner'[ch] = At("sending", m) /\ sender' = ch /\ sender = Nobody /\ \A d \in Ids : d # ch => owner'[d] = owner[d]
      BY <1>1, <1>2, <1>6
    <2>2. e = Part(m, 1)
      BY <1>6
    <2> HIDE DEF e
    <2>3. /\ Len(out) \in Nat /\ Len(out') = Len(out) + 1
          /\ \A k \in 1 .. Len(out) : out'[k] = out[k]
          /\ out'[Len(out) + 1] = e
          /\ \A k \in 1 .. Len(out') : k \in 1 .. Len(out) \/ k = Len(out) + 1
      BY <1>1, OutGrows
    <2>4. \A d \in Ids : owner'[d].at = "sending" <=> sender' = d
      BY <1>3, <2>1, Names DEF Locked
    <2>5. owner'[ch].message = m
      BY <1>3, <2>1
    <2> HIDE DEF m
    <2>6. \A d \in Ids : sender' = d => Len(out') > 0 /\ out'[Len(out')] = Part(owner'[d].message, 1)
      BY <2>1, <2>2, <2>3, <2>5
    <2>7. ASSUME NEW k \in 1 .. Len(out'), ~out'[k].last
          PROVE  k = Len(out') \/ [out'[k + 1] EXCEPT !.last = FALSE] = out'[k]
      <3>1. CASE k = Len(out) + 1
        BY <2>3, <3>1
      <3>2. CASE k \in 1 .. Len(out)
        <4>1. ~out[k].last /\ k # Len(out)
          BY <2>1, <2>3, <2>7, <3>2 DEF Locked
        <4>2. [out[k + 1] EXCEPT !.last = FALSE] = out[k] /\ k + 1 \in 1 .. Len(out)
          BY <2>3, <3>2, <4>1 DEF Locked
        <4> QED
          BY <2>3, <3>2, <4>2
      <3> QED
        BY <2>3, <3>1, <3>2
    <2>8. sender' # Nobody
      BY <2>1, Names
    <2> QED
      BY <2>4, <2>6, <2>7, <2>8 DEF Locked
  <1>7. CASE part = 2
    <2>1. m.parts = 2 /\ owner[ch].at = "sending" /\ sender = ch
      BY <1>1, <1>4, <1>7 DEF OwnerOK
    <2>2. owner'[ch] = Free /\ sender' = Nobody /\ \A d \in Ids : d # ch => owner'[d] = owner[d]
      BY <1>1, <1>2, <1>7
    <2>3. /\ Len(out) \in Nat /\ Len(out') = Len(out) + 1
          /\ \A k \in 1 .. Len(out) : out'[k] = out[k]
          /\ out'[Len(out) + 1] = e
          /\ \A k \in 1 .. Len(out') : k \in 1 .. Len(out) \/ k = Len(out) + 1
      BY <1>1, OutGrows
    <2>4. Len(out) > 0 /\ out[Len(out)] = Part(m, 1)
      BY <2>1 DEF Locked
    <2>5. [e EXCEPT !.last = FALSE] = Part(m, 1)
      BY <1>7, <2>1, FirstPart
    <2>6. e.last
      BY <1>3, <1>7, <2>1
    <2>7. \A d \in Ids : owner'[d].at # "sending" /\ sender' # d
      BY <1>3, <2>1, <2>2, Names DEF Locked
    <2> HIDE DEF e, m
    <2>8. ASSUME NEW k \in 1 .. Len(out'), ~out'[k].last
          PROVE  [out'[k + 1] EXCEPT !.last = FALSE] = out'[k]
      <3>1. k \in 1 .. Len(out) /\ ~out[k].last
        BY <2>3, <2>6, <2>8
      <3>2. CASE k = Len(out)
        BY <2>3, <2>4, <2>5, <3>1, <3>2
      <3>3. CASE k # Len(out)
        <4>1. [out[k + 1] EXCEPT !.last = FALSE] = out[k] /\ k + 1 \in 1 .. Len(out)
          BY <2>3, <3>1, <3>3 DEF Locked
        <4> QED
          BY <2>3, <3>1, <4>1
      <3> QED
        BY <3>2, <3>3
    <2>9. \A k \in 1 .. Len(out') : k = Len(out') => out'[k].last
      BY <2>3, <2>6
    <2> QED
      BY <2>7, <2>8, <2>9 DEF Locked
  <1> QED
    BY <1>1, <1>5, <1>6, <1>7, <1>4 DEF OwnerOK

LEMMA HandleLocked ==
  ASSUME Typed, LiveOK, Locked, NEW p, Handle(p)
  PROVE  Locked'
  <1>1. sender' = sender
    BY HandleDoes DEF Handling
  <1>2. Free.at = "free"
    BY DEF Free
  <1>3. CASE UnknownChannel(p)
    BY <1>1, <1>3, UnknownDoes, LockedSingle
  <1>4. CASE Gather(p) \/ Drop(p)
    BY <1>1, <1>4, LockedKept DEF Gather, Drop
  <1>5. ASSUME p.ch \in Ids, owner[p.ch] = Free, NEW o, owner' = [owner EXCEPT ![p.ch] = o], o.at # "sending", out' = out
        PROVE  Locked'
    <2>1. \A d \in Ids : owner'[d] = owner[d] \/ (owner[d].at # "sending" /\ owner'[d].at # "sending")
      BY <1>2, <1>5 DEF Typed
    <2> QED
      BY <1>1, <1>5, <2>1, LockedKept
  <1>6. CASE Reject(p)
    <2>1. PICK o \in Owners : owner' = [owner EXCEPT ![p.ch] = o] /\ o.at = "send"
      BY <1>6, RejectDoes
    <2> QED
      BY <1>5, <1>6, <2>1, LocksDoes, RejectDoes DEF Reject
  <1>7. CASE Complete(p)
    <2>1. PICK o \in Owners :
            owner' = [owner EXCEPT ![p.ch] = o] /\ (p.ch = Broadcast => o.at = "allocate") /\ (p.ch # Broadcast => o.at = "run")
      BY <1>7, CompleteDoes
    <2>2. p.ch \in Ids /\ owner[p.ch] = Free /\ out' = out
      BY <1>7, LocksDoes, CompleteDoes DEF Complete
    <2> QED
      BY <1>5, <2>1, <2>2
  <1> QED
    BY <1>3, <1>4, <1>6, <1>7 DEF Handle

LEMMA WorkLocked ==
  ASSUME Typed, OwnersOK, Counted, Numbered, Locked, NEW ch \in Ids, Work(ch)
  PROVE  Locked'
  <1>1. ASSUME NEW o, Working(ch, o), owner[ch].at # "sending", o.at # "sending", out' = out, sender' = sender
        PROVE  Locked'
    <2>1. \A d \in Ids : owner'[d] = owner[d] \/ (owner[d].at # "sending" /\ owner'[d].at # "sending")
      BY <1>1 DEF Typed, Working
    <2> QED
      BY <1>1, <2>1, LockedKept
  <1>2. CASE Allocate(ch)
    BY <1>1, <1>2, AllocateDoes
  <1>3. CASE Store(ch)
    BY <1>1, <1>3, StoreDoes
  <1>4. ASSUME NEW parts \in {1, 2}, Return(ch, parts) PROVE Locked'
    BY <1>1, <1>4, ReturnDoes
  <1>5. CASE Echo(ch)
    <2>1. Free.at = "free"
      BY DEF Free
    <2> QED
      BY <1>1, <1>5, <2>1, EchoDoes
  <1> QED
    BY <1>2, <1>3, <1>4, <1>5, SendLocked DEF Work

LEMMA NextLocked ==
  ASSUME Typed, LiveOK, OwnersOK, Counted, Numbered, Locked, [Next]_vars
  PROVE  Locked'
  <1>1. CASE ClientStep
    BY <1>1, ClientKeeps, LockedKept
  <1>2. CASE Idle
    BY <1>2, LockedKept DEF Idle
  <1>3. ASSUME NEW r \in Requests, Fire(r) \/ Tick(r) PROVE Locked'
    <2>1. owner' = owner /\ sender' = sender
      BY <1>3, TickKeeps
    <2>2. CASE Keepalive(r)
      BY <2>1, <2>2, KeepaliveDoes, LockedSingle
    <2>3. CASE ~Keepalive(r)
      BY <1>3, <2>1, <2>3, LockedKept DEF Fire, Tick, StopTicker
    <2> QED
      BY <2>2, <2>3
  <1> QED
    BY <1>1, <1>2, <1>3, Steps, HandleLocked, WorkLocked

-----------------------------------------------------------------------------
(* Keepalives. *)

LEMMA InitOnce == Init => Once
  <1> SUFFICES ASSUME Init PROVE Once
    OBVIOUS
  <1>1. Live = {}
    BY DEF Init, Live, Gathered
  <1>2. \A ch \in Ids : owner[ch].at = "free"
    BY DEF Init, Free
  <1>3. \A r \in Requests : ticker[r] = Quiet
    BY DEF Init
  <1>4. Quiet.final = FALSE /\ Quiet.late = 0 /\ Quiet.stop = FALSE
    BY DEF Quiet
  <1> QED
    BY <1>1, <1>2, <1>3, <1>4 DEF Once

LEMMA Early == Quiet.at = "off" /\ Quiet.late = 0 /\ Quiet.stop = FALSE /\ Quiet.final = FALSE /\ Free.at = "free"
               /\ Free.message.kind = "none"
  BY DEF Quiet, Free, NoMessage, Message

\* Requests of the packets that are to come, and of messages that are there.
LEMMA RequestsKnown ==
  ASSUME Typed, LiveOK, OwnersOK
  PROVE  /\ requests \in 0 .. MaxRequests
         /\ \A p \in Live : p.req \in Requests /\ p.req <= requests
         /\ \A ch \in Ids : owner[ch].message.kind \in {"init", "reply"} =>
              owner[ch].message.of \in Requests /\ owner[ch].message.of <= requests
  <1>1. requests \in 0 .. MaxRequests
    BY DEF Typed
  <1>2. \A p \in Live : p.req \in Requests /\ p.req <= requests
    BY LivePackets DEF Packets, LiveOK
  <1>3. ASSUME NEW ch \in Ids, owner[ch].message.kind \in {"init", "reply"}
        PROVE  owner[ch].message.of \in Requests /\ owner[ch].message.of <= requests
    <2>1. OwnerOK(ch)
      BY DEF OwnersOK
    <2>2. owner[ch].message.of \in 1 .. requests
      BY <1>3, <2>1, Early DEF OwnerOK
    <2> QED
      BY <1>1, <2>2, Bounds DEF Requests
  <1> QED
    BY <1>1, <1>2, <1>3

LEMMA ClientOnce ==
  ASSUME Typed, LiveOK, OwnersOK, Once, ClientStep
  PROVE  Once'
  <1>1. UNCHANGED <<transaction, owner, ticker>> /\ requests <= requests' /\ requests' \in Nat /\ requests \in Nat
    BY ClientKeeps
  <1>2. ASSUME \A p \in Live' : p.kind = "first" => p \in Live \/ (p.req = requests + 1 /\ p.req \in Requests)
        PROVE  Once'
    <2>1. ASSUME NEW p \in Live', p.kind = "first"
          PROVE  /\ ticker[p.req] = Quiet
                 /\ \A ch \in Ids : owner[ch].message.kind \in {"init", "reply"} => owner[ch].message.of # p.req
      <3>1. CASE p \in Live
        BY <2>1, <3>1 DEF Once
      <3>2. CASE p.req = requests + 1 /\ p.req \in Requests
        BY <1>1, <3>2, RequestsKnown DEF Once
      <3> QED
        BY <1>2, <2>1, <3>1, <3>2
    <2>2. \A r \in Requests : r > requests' => ticker[r] = Quiet
      BY <1>1 DEF Once, Requests
    <2> QED
      BY <1>1, <2>1, <2>2 DEF Once
  <1>3. ASSUME NEW c \in Clients, NEW p, Asking(c, p) PROVE Once'
    <2>1. Live' = Live \union {p} /\ p.req = requests + 1 /\ p.req \in Requests
      BY <1>1, <1>3, LiveSent DEF Asking, Sending
    <2> QED
      BY <1>2, <2>1
  <1>4. ASSUME NEW c \in Clients, NEW p, Sending(c, p), p.kind # "first" PROVE Once'
    <2>1. Live' = Live \union {p}
      BY <1>1, <1>4, LiveSent DEF Sending
    <2> QED
      BY <1>2, <1>4, <2>1
  <1>5. ASSUME NEW c \in Clients, Taking(c) PROVE Once'
    <2>1. Live' = Live
      BY <1>1, <1>5, LiveSame DEF Taking
    <2> QED
      BY <1>2, <2>1
  <1> QED
    BY <1>3, <1>4, <1>5, OpenDoes, RequestDoes, ContinueDoes, CancelDoes, OpenedDoes, AnsweredDoes DEF ClientStep

\* The message that was put together leaves no first packet of its request.
LEMMA HeadGone ==
  ASSUME Typed, LiveOK, NEW p, Complete(p)
  PROVE  /\ Head1(p) \in Live /\ Head1(p).kind = "first" /\ Head1(p).req \in Requests
         /\ Live' \subseteq Live
         /\ \A q \in Live' : q.kind = "first" => q.req # Head1(p).req
  <1>1. p \in packets /\ p.ch \in Ids
    BY LocksDoes DEF Complete
  <1>2. Head1(p) \in Live /\ Head1(p).kind = "first" /\ (Head1(p) = p \/ (Head1(p) \in Gathered /\ Head1(p).ch = p.ch))
    <2>1. CASE transaction[p.ch] = <<>>
      BY <1>1, <2>1, CompleteDoes DEF Head1, Live
    <2>2. CASE transaction[p.ch] # <<>>
      BY <1>1, <2>2, GatheredOne DEF LiveOK, Head1, Live
    <2> QED
      BY <2>1, <2>2
  <1>3. packets' = packets \ {p} /\ transaction' = [transaction EXCEPT ![p.ch] = <<>>]
    BY CompleteDoes DEF Complete, Locks, Taken
  <1>4. Live' = {q \in Live : q # p /\ (q \in Gathered => q.ch # p.ch)}
    BY <1>1, <1>3, LiveEmptied
  <1>5. Head1(p) \notin Live'
    BY <1>2, <1>4
  <1>6. \A q \in Live' : q.kind = "first" => q.req # Head1(p).req
    BY <1>2, <1>4, <1>5 DEF LiveOK
  <1>7. Head1(p).req \in Requests
    BY WholeHead DEF Packets
  <1> QED
    BY <1>2, <1>4, <1>6, <1>7

LEMMA HandleOnce ==
  ASSUME Typed, LiveOK, OwnersOK, Once, NEW p, Handle(p)
  PROVE  Once'
  <1>1. Live' \subseteq Live /\ requests' = requests /\ requests \in Nat
    BY LiveHandled, HandleDoes DEF Handling, Typed
  <1>2. ASSUME ticker' = ticker, \A ch \in Ids : owner'[ch] = owner[ch] \/ owner'[ch].message.kind = "error"
        PROVE  Once'
    <2>1. \A q \in Live' : q.kind = "first" =>
            /\ ticker'[q.req] = Quiet
            /\ \A ch \in Ids : owner'[ch].message.kind \in {"init", "reply"} => owner'[ch].message.of # q.req
      BY <1>1, <1>2 DEF Once
    <2>2. \A ch \in Ids : owner'[ch].at \in {"send", "sending"} /\ owner'[ch].message.kind = "reply"
                            => ticker'[owner'[ch].message.of].stop
      BY <1>2 DEF Once
    <2> QED
      BY <1>1, <1>2, <2>1, <2>2 DEF Once
  <1>3. CASE UnknownChannel(p)
    BY <1>2, <1>3, UnknownDoes
  <1>4. CASE Gather(p) \/ Drop(p)
    BY <1>2, <1>4 DEF Gather, Drop
  <1>5. CASE Reject(p)
    <2>1. PICK o \in Owners : owner' = [owner EXCEPT ![p.ch] = o] /\ o.message.kind = "error"
      BY <1>5, RejectDoes
    <2>2. \A ch \in Ids : owner'[ch] = owner[ch] \/ owner'[ch].message.kind = "error"
      BY <2>1 DEF Typed
    <2> QED
      BY <1>2, <1>5, <2>2, RejectDoes
  <1>6. CASE Complete(p)
    <2> DEFINE req == Head1(p).req
    <2>1. /\ req \in Requests /\ ticker[req] = Quiet /\ req <= requests
          /\ \A q \in Live' : q.kind = "first" => q.req # req
      BY <1>6, HeadGone, RequestsKnown DEF Once
    <2>2. \A r \in Requests :
            /\ r # req => ticker'[r] = ticker[r]
            /\ ticker'[r].stop = ticker[r].stop /\ ticker'[r].final = ticker[r].final /\ ticker'[r].late = ticker[r].late
      BY <1>6, CompleteDoes
    <2>3. PICK o \in Owners :
            /\ owner' = [owner EXCEPT ![p.ch] = o] /\ o.message.of = req
            /\ p.ch = Broadcast => o.at = "allocate"
            /\ p.ch # Broadcast => o.at = "run"
      BY <1>6, CompleteDoes
    <2>4. \A ch \in Ids : owner'[ch] = owner[ch] \/ (owner'[ch].message.of = req /\ owner'[ch].at \notin {"send", "sending"})
      BY <2>3 DEF Typed
    <2> HIDE DEF req
    <2>5. ASSUME NEW q \in Live', q.kind = "first"
          PROVE  /\ ticker'[q.req] = Quiet
                 /\ \A ch \in Ids : owner'[ch].message.kind \in {"init", "reply"} => owner'[ch].message.of # q.req
      <3>1. q \in Live /\ q.req # req /\ q.req \in Requests
        BY <1>1, <2>1, <2>5, RequestsKnown
      <3>2. ticker'[q.req] = Quiet
        BY <2>2, <2>5, <3>1 DEF Once
      <3>3. \A ch \in Ids : owner'[ch].message.kind \in {"init", "reply"} => owner'[ch].message.of # q.req
        BY <2>4, <2>5, <3>1 DEF Once
      <3> QED
        BY <3>2, <3>3
    <2>6. \A r \in Requests : r > requests' => ticker'[r] = Quiet
      BY <1>1, <2>1, <2>2 DEF Once, Requests
    <2>7. \A ch \in Ids : owner'[ch].at \in {"send", "sending"} /\ owner'[ch].message.kind = "reply"
                            => ticker'[owner'[ch].message.of].stop
      BY <2>2, <2>4, RequestsKnown DEF Once
    <2>8. \A r \in Requests :
            /\ ticker'[r].final => ticker'[r].stop
            /\ ticker'[r].late <= 1
            /\ ticker'[r].late = 1 => ticker'[r].at = "off"
      <3>1. ticker'[req].late = 0
        BY <2>1, <2>2, Early
      <3> QED
        BY <2>2, <3>1 DEF Once
    <2> QED
      BY <2>5, <2>6, <2>7, <2>8 DEF Once
  <1> QED
    BY <1>3, <1>4, <1>5, <1>6 DEF Handle

\* A goroutine goes on with its message, or its command has told the keepalives
\* to stop.
LEMMA WorkOnce ==
  ASSUME Typed, LiveOK, OwnersOK, Counted, Numbered, Once, NEW ch \in Ids, Work(ch)
  PROVE  Once'
  <1>1. Live' = Live /\ requests' = requests /\ requests \in Nat
    BY WorkKeeps, LiveSame DEF Typed
  <1>2. OwnerOK(ch) /\ ticker \in [Requests -> Tickers] /\ owner \in [Ids -> Owners]
    BY DEF OwnersOK, Typed
  <1>3. ASSUME NEW o, Working(ch, o), ticker' = ticker,
               o.message.kind \in {"init", "reply"} =>
                 o.message.kind = owner[ch].message.kind /\ o.message.of = owner[ch].message.of,
               o.at \in {"send", "sending"} /\ o.message.kind = "reply" => owner[ch].at \in {"send", "sending"}
        PROVE  Once'
    <2>1. owner'[ch] = o /\ \A d \in Ids : d # ch => owner'[d] = owner[d]
      BY <1>2, <1>3 DEF Working
    <2>2. \A q \in Live' : q.kind = "first" =>
            /\ ticker'[q.req] = Quiet
            /\ \A d \in Ids : owner'[d].message.kind \in {"init", "reply"} => owner'[d].message.of # q.req
      BY <1>1, <1>3, <2>1 DEF Once
    <2>3. \A d \in Ids : owner'[d].at \in {"send", "sending"} /\ owner'[d].message.kind = "reply"
                           => ticker'[owner'[d].message.of].stop
      BY <1>3, <2>1 DEF Once
    <2> QED
      BY <1>1, <1>3, <2>2, <2>3 DEF Once
  <1>4. CASE Allocate(ch)
    <2>1. PICK o \in Owners : Working(ch, o) /\ o.at = "store" /\ o.message.kind = "init" /\ o.message.of = owner[ch].message.of
      BY <1>4, AllocateDoes
    <2>2. ch = Broadcast /\ owner[ch].at = "allocate" /\ ticker' = ticker
      BY <1>4, AllocateDoes
    <2>3. owner[ch].message.kind = "init"
      BY <1>2, <2>2 DEF OwnerOK
    <2> QED
      BY <1>3, <2>1, <2>2, <2>3
  <1>5. CASE Store(ch)
    <2>1. PICK o \in Owners : Working(ch, o) /\ o.at = "send" /\ o.message = owner[ch].message
      BY <1>5, StoreDoes
    <2>2. ch = Broadcast /\ owner[ch].at = "store" /\ ticker' = ticker
      BY <1>5, StoreDoes
    <2>3. owner[ch].message.kind = "init"
      BY <1>2, <2>2 DEF OwnerOK
    <2> QED
      BY <1>3, <2>1, <2>2, <2>3
  <1>6. ASSUME NEW parts \in {1, 2}, Return(ch, parts) PROVE Once'
    <2>1. PICK o \in Owners :
            /\ Working(ch, o) /\ o.at = "send" /\ o.message.kind = "reply" /\ o.message.ch = ch
            /\ o.message.of = owner[ch].message.of /\ o.message.parts \in {1, 2}
      BY <1>6, ReturnDoes
    <2> DEFINE of == owner[ch].message.of
    <2>2. /\ ch # Broadcast /\ owner[ch].at = "run" /\ of \in Requests
          /\ ticker' = [ticker EXCEPT ![of].stop = TRUE]
      BY <1>6, ReturnDoes
    <2>3. owner[ch].message.kind = "reply" /\ of \in 1 .. requests
      BY <1>2, <2>2 DEF OwnerOK
    <2>4. owner'[ch] = o /\ o.message.of = of /\ \A d \in Ids : d # ch => owner'[d] = owner[d]
      BY <1>2, <2>1 DEF Working
    <2>11. \A q \in Live : q.kind = "first" => q.req # of
      BY <2>3 DEF Once
    <2> HIDE DEF of
    <2>5. \A r \in Requests : ticker'[r] = IF r = of THEN [ticker[of] EXCEPT !.stop = TRUE] ELSE ticker[r]
      BY <1>2, <2>2
    <2>12. /\ ticker[of] \in Tickers
          /\ LET t == [ticker[of] EXCEPT !.stop = TRUE] IN
             t.stop = TRUE /\ t.final = ticker[of].final /\ t.late = ticker[of].late /\ t.at = ticker[of].at
      BY <1>2, <2>2 DEF Tickers
    <2>6. \A r \in Requests : /\ r # of => ticker'[r] = ticker[r]
                              /\ r = of => ticker'[r].stop
                              /\ ticker'[r].final = ticker[r].final /\ ticker'[r].late = ticker[r].late
                              /\ ticker'[r].at = ticker[r].at
      BY <2>5, <2>12
    <2>7. \A q \in Live' : q.kind = "first" =>
            /\ ticker'[q.req] = Quiet
            /\ \A d \in Ids : owner'[d].message.kind \in {"init", "reply"} => owner'[d].message.of # q.req
      BY <1>1, <2>4, <2>6, <2>11, RequestsKnown DEF Once
    <2>8. \A d \in Ids : owner'[d].at \in {"send", "sending"} /\ owner'[d].message.kind = "reply"
                           => ticker'[owner'[d].message.of].stop
      <3> SUFFICES ASSUME NEW d \in Ids, owner'[d].at \in {"send", "sending"}, owner'[d].message.kind = "reply"
                   PROVE  ticker'[owner'[d].message.of].stop
        OBVIOUS
      <3>1. CASE d = ch
        BY <2>2, <2>4, <2>6, <3>1
      <3>2. CASE d # ch
        <4>1. owner'[d] = owner[d] /\ ticker[owner[d].message.of].stop
          BY <2>4, <3>2 DEF Once
        <4>2. owner[d].message.of \in Requests
          BY <4>1, RequestsKnown
        <4> QED
          BY <2>6, <4>1, <4>2
      <3> QED
        BY <3>1, <3>2
    <2>9. \A r \in Requests : r > requests' => ticker'[r] = Quiet
      BY <1>1, <2>3, <2>6 DEF Once, Requests
    <2>10. \A r \in Requests :
             /\ ticker'[r].final => ticker'[r].stop
             /\ ticker'[r].late <= 1
             /\ ticker'[r].late = 1 => ticker'[r].at = "off"
      BY <2>6 DEF Once
    <2> QED
      BY <2>7, <2>8, <2>9, <2>10 DEF Once
  <1>7. ASSUME NEW part \in {1, 2}, Send(ch, part) PROVE Once'
    <2> DEFINE m == owner[ch].message
               flag == part = m.parts
    <2>1. /\ owner[ch].at \in {"send", "sending"}
          /\ \/ Working(ch, Free)
             \/ Working(ch, At("sending", m))
          /\ ticker' = IF m.kind = "reply" THEN [ticker EXCEPT ![m.of].final = flag] ELSE ticker
      BY <1>7, SendDoes
    <2>2. PICK o : Working(ch, o) /\ (o = Free \/ (o.at = "sending" /\ o.message = m))
      BY <2>1 DEF At
    <2>3. CASE m.kind # "reply"
      BY <1>3, <2>1, <2>2, <2>3, Early
    <2>4. CASE m.kind = "reply"
      <3>1. m.of \in Requests /\ m.of <= requests /\ ticker[m.of].stop
        BY <2>1, <2>4, RequestsKnown DEF Once
      <3>2. owner'[ch] = o /\ \A d \in Ids : d # ch => owner'[d] = owner[d]
        BY <1>2, <2>2 DEF Working
      <3>3. flag \in BOOLEAN
        OBVIOUS
      <3>4. ticker' = [ticker EXCEPT ![m.of].final = flag]
        BY <2>1, <2>4
      <3> HIDE DEF flag
      <3>5. \A r \in Requests : ticker'[r] = IF r = m.of THEN [ticker[m.of] EXCEPT !.final = flag] ELSE ticker[r]
        BY <1>2, <3>1, <3>4
      <3>6. \A r \in Requests : /\ r # m.of => ticker'[r] = ticker[r]
                                /\ ticker'[r].stop = ticker[r].stop /\ ticker'[r].late = ticker[r].late
                                /\ ticker'[r].at = ticker[r].at
        BY <1>2, <3>5 DEF Tickers
      <3>7. \A q \in Live' : q.kind = "first" =>
              /\ ticker'[q.req] = Quiet
              /\ \A d \in Ids : owner'[d].message.kind \in {"init", "reply"} => owner'[d].message.of # q.req
        BY <1>1, <2>2, <2>4, <3>2, <3>6, RequestsKnown, Early DEF Once
      <3>8. \A d \in Ids : owner'[d].at \in {"send", "sending"} /\ owner'[d].message.kind = "reply"
                             => ticker'[owner'[d].message.of].stop
        BY <2>2, <3>1, <3>2, <3>6, RequestsKnown, Early DEF Once
      <3>9. \A r \in Requests : r > requests' => ticker'[r] = Quiet
        BY <1>1, <3>1, <3>6 DEF Once, Requests
      <3>10. \A r \in Requests :
               /\ ticker'[r].final => ticker'[r].stop
               /\ ticker'[r].late <= 1
               /\ ticker'[r].late = 1 => ticker'[r].at = "off"
        BY <3>1, <3>6 DEF Once
      <3> QED
        BY <3>7, <3>8, <3>9, <3>10 DEF Once
    <2> QED
      BY <2>3, <2>4
  <1>8. CASE Echo(ch)
    BY <1>3, <1>8, EchoDoes, Early
  <1> QED
    BY <1>4, <1>5, <1>6, <1>7, <1>8 DEF Work

LEMMA TickOnce ==
  ASSUME Typed, LiveOK, OwnersOK, Once, NEW r \in Requests, Fire(r) \/ Tick(r)
  PROVE  Once'
  <1>1. Live' = Live /\ UNCHANGED <<requests, owner>> /\ requests \in Nat
    BY TickKeeps, LiveSame DEF Typed
  <1>2. ASSUME NEW t, Ticking(r, t), t.late <= 1, t.late = 1 => t.at = "off" PROVE Once'
    <2>1. ticker \in [Requests -> Tickers]
      BY DEF Typed
    <2>2. ticker'[r] = t /\ \A s \in Requests : s # r => ticker'[s] = ticker[s]
      BY <1>2, <2>1 DEF Ticking
    <2>3. t.stop = ticker[r].stop /\ t.final = ticker[r].final /\ ticker[r] # Quiet
      BY <1>2, Early DEF Ticking
    <2>4. \A q \in Live' : q.kind = "first" =>
            /\ ticker'[q.req] = Quiet
            /\ \A d \in Ids : owner'[d].message.kind \in {"init", "reply"} => owner'[d].message.of # q.req
      BY <1>1, <2>2, <2>3, RequestsKnown DEF Once
    <2>5. \A d \in Ids : owner'[d].at \in {"send", "sending"} /\ owner'[d].message.kind = "reply"
                           => ticker'[owner'[d].message.of].stop
      BY <1>1, <2>2, <2>3, RequestsKnown DEF Once
    <2>6. \A s \in Requests : s > requests' => ticker'[s] = Quiet
      BY <1>1, <2>2, <2>3 DEF Once
    <2>7. \A s \in Requests :
            /\ ticker'[s].final => ticker'[s].stop
            /\ ticker'[s].late <= 1
            /\ ticker'[s].late = 1 => ticker'[s].at = "off"
      BY <1>2, <2>2, <2>3 DEF Once
    <2> QED
      BY <2>4, <2>5, <2>6, <2>7 DEF Once
  <1>3. ticker[r].late \in Nat /\ ticker[r].late <= 1 /\ (ticker[r].at # "off" => ticker[r].late = 0)
    BY DEF Typed, Tickers, Once
  <1>4. CASE Fire(r)
    BY <1>2, <1>3, <1>4, FireDoes
  <1>5. CASE StopTicker(r)
    BY <1>2, <1>3, <1>5, StopTickerDoes
  <1>6. CASE Keepalive(r)
    <2>1. PICK t : /\ Ticking(r, t)
                   /\ t.at = (IF ticker[r].stop THEN "off" ELSE "on")
                   /\ t.late = (IF ticker[r].final THEN ticker[r].late + 1 ELSE ticker[r].late)
      BY <1>6, KeepaliveDoes
    <2>2. ticker[r].late = 0 /\ (ticker[r].final => ticker[r].stop)
      BY <1>3, <1>6, KeepaliveDoes DEF Once
    <2> QED
      BY <1>2, <2>1, <2>2
  <1> QED
    BY <1>4, <1>5, <1>6 DEF Tick

LEMMA NextOnce ==
  ASSUME Typed, LiveOK, OwnersOK, Counted, Numbered, Once, [Next]_vars
  PROVE  Once'
  <1>1. CASE Idle
    <2>1. Live' = Live
      BY <1>1, LiveSame DEF Idle
    <2> QED
      BY <1>1, <2>1 DEF Idle, Once
  <1> QED
    BY <1>1, Steps, ClientOnce, HandleOnce, WorkOnce, TickOnce
-----------------------------------------------------------------------------
(* Nobody is forgotten. *)

\* What a step may do to what was sent.
Grows == out' = out \/ \E e \in Parts : out' = Append(out, e)

LEMMA Grown ==
  ASSUME Typed, Grows
  PROVE  /\ Len(out) \in Nat /\ Len(out') \in Nat /\ Len(out) <= Len(out')
         /\ \A k \in 1 .. Len(out) : k \in 1 .. Len(out') /\ out'[k] = out[k]
  <1>1. out \in Seq(Parts)
    BY DEF Typed
  <1>2. Len(out) \in Nat
    BY <1>1, LenProperties
  <1>3. CASE out' = out
    BY <1>2, <1>3
  <1>4. ASSUME NEW e \in Parts, out' = Append(out, e) PROVE Len(out') = Len(out) + 1 /\ \A k \in 1 .. Len(out) : out'[k] = out[k]
    BY <1>4, OutGrows
  <1> QED
    BY <1>2, <1>3, <1>4 DEF Grows

\* What a client could read it can still read.
LEMMA FinalStays ==
  ASSUME Typed, Grows, NEW c, client'[c] = client[c], NEW k \in 1 .. Len(out)
  PROVE  k \in 1 .. Len(out') /\ (Final(c, k)' <=> Final(c, k))
  BY Grown DEF Final

LEMMA HandleGrows ==
  ASSUME Typed, NEW p, Handle(p)
  PROVE  Grows
  <1>1. CASE UnknownChannel(p)
    BY <1>1, UnknownDoes DEF Grows
  <1>2. CASE ~UnknownChannel(p)
    BY <1>2 DEF Handle, Gather, Drop, Reject, Complete, Grows
  <1> QED
    BY <1>1, <1>2

LEMMA WorkGrows ==
  ASSUME Typed, OwnersOK, NEW ch \in Ids, Work(ch)
  PROVE  Grows
  <1>1. CASE Allocate(ch) \/ Store(ch) \/ Echo(ch)
    BY <1>1 DEF Allocate, Store, Echo, Grows
  <1>2. ASSUME NEW n \in {1, 2}, Return(ch, n) PROVE Grows
    BY <1>2 DEF Return, Grows
  <1>3. ASSUME NEW n \in {1, 2}, Send(ch, n) PROVE Grows
    <2>1. Part(owner[ch].message, n) \in Parts /\ out' = Append(out, Part(owner[ch].message, n))
      BY <1>3, SendDoes
    <2> QED
      BY <2>1 DEF Grows
  <1> QED
    BY <1>1, <1>2, <1>3 DEF Work

LEMMA TickGrows ==
  ASSUME Typed, NEW r \in Requests, Fire(r) \/ Tick(r)
  PROVE  Grows
  <1>1. CASE Keepalive(r)
    BY <1>1, KeepaliveDoes DEF Grows
  <1>2. CASE ~Keepalive(r)
    BY <1>2 DEF Fire, Tick, StopTicker, Grows
  <1> QED
    BY <1>1, <1>2

LEMMA InitForgotten == Init => NoneForgotten
  <1> SUFFICES ASSUME Init PROVE NoneForgotten
    OBVIOUS
  <1>1. \A c \in Clients : client[c].seen = 0 /\ client[c].at \in {"start", "ready"}
    <2>1. PICK stale \in Clients \union {Nobody} :
            client = [c \in Clients |-> IF c = stale THEN Client("ready", Stale) ELSE Client("start", Broadcast)]
      BY DEF Init
    <2> QED
      BY <2>1 DEF Client
  <1>2. Len(out) = 0
    BY EmptySeq DEF Init
  <1>3. 0 <= Len(out)
    BY <1>2
  <1> QED
    BY <1>1, <1>3 DEF NoneForgotten

\* The clients do nothing, and who had something in sight still has.
LEMMA ForgottenKept ==
  ASSUME Typed, NoneForgotten, client' = client, empty' = empty, Grows,
         \A c \in Clients, p \in packets :
           client[c].at = "waiting" /\ p.client = c /\ p.ch = client[c].ch /\ p.req = client[c].req /\ Ends(p)
             => Unforgotten(c)',
         \A c \in Clients :
           client[c].at = "waiting" /\ client[c].ch \in Ids /\ owner[client[c].ch] # Free
             /\ owner[client[c].ch].message.parts # 0 => Unforgotten(c)'
  PROVE  NoneForgotten'
  <1>1. \A c \in Clients : client[c].seen \in Nat
    BY DEF Typed, ClientStates
  <1>2. \A c \in Clients : client'[c].seen <= Len(out')
    BY <1>1, Grown DEF NoneForgotten
  <1>3. ASSUME NEW c \in Clients, client[c].at = "waiting" PROVE Unforgotten(c)'
    <2>1. CASE \E k \in 1 .. Len(out) : Final(c, k)
      <3>1. PICK k \in 1 .. Len(out) : Final(c, k)
        BY <2>1
      <3>2. k \in 1 .. Len(out') /\ Final(c, k)'
        BY <3>1, FinalStays
      <3> QED
        BY <3>2 DEF Unforgotten
    <2> QED
      BY <1>3, <2>1 DEF NoneForgotten, Unforgotten
  <1> QED
    BY <1>2, <1>3 DEF NoneForgotten

LEMMA ClientForgotten ==
  ASSUME Typed, NoneForgotten, Ownership, ClientStep
  PROVE  NoneForgotten'
  <1>1. /\ UNCHANGED <<owner, out>> /\ packets \subseteq packets' /\ empty \subseteq empty'
        /\ Len(out) \in Nat /\ Len(out) <= Len(out)
    BY ClientKeeps, LenProperties DEF Typed
  <1>2. ASSUME NEW c \in Clients, Own(c), client'[c].seen <= Len(out),
               client'[c].at \in {"continuing", "waiting"} => client'[c].ch # Broadcast,
               client'[c].at = "waiting" =>
                 \E p \in packets' : p.client = c /\ p.ch = client'[c].ch /\ p.req = client'[c].req /\ Ends(p)
        PROVE  NoneForgotten'
    <2>1. ASSUME NEW d \in Clients, d # c
          PROVE  /\ client'[d].seen <= Len(out')
                 /\ client'[d].at \in {"continuing", "waiting"} => client'[d].ch # Broadcast
                 /\ client'[d].at = "waiting" => Unforgotten(d)'
      <3>1. client'[d] = client[d]
        BY <1>2, <2>1, OwnClients
      <3>2. Unforgotten(d) => Unforgotten(d)'
        BY <1>1, <3>1 DEF Unforgotten, Final
      <3> QED
        BY <1>1, <3>1, <3>2 DEF NoneForgotten
    <2>2. client'[c].at = "waiting" => Unforgotten(c)'
      BY <1>2 DEF Unforgotten
    <2> QED
      BY <1>1, <1>2, <2>1, <2>2 DEF NoneForgotten
  <1>3. \A c \in Clients : client[c].seen <= Len(out)
    BY DEF NoneForgotten
  <1>4. ASSUME NEW c \in Clients, Open(c) PROVE NoneForgotten'
    BY <1>2, <1>3, <1>4, OpenDoes DEF Asking, Sending
  <1>5. ASSUME NEW c \in Clients, NEW more \in BOOLEAN, NEW cmd \in {"cbor", "plain", "empty"}, Request(c, more, cmd) PROVE NoneForgotten'
    <2>1. PICK p : Asking(c, p) /\ p.ch = client[c].ch /\ (p.more <=> more)
      BY <1>5, RequestDoes
    <2>2. client[c].at = "ready" /\ client'[c].at = (IF more THEN "continuing" ELSE "waiting") /\ client'[c].seen = Len(out)
      BY <1>5, RequestDoes
    <2>3. /\ Own(c) /\ p \in packets' /\ p.client = c /\ p.kind = "first" /\ client'[c].ch = client[c].ch
          /\ p.req = client'[c].req
      BY <2>1 DEF Asking, Sending
    <2>4. client'[c].at = "waiting" => Ends(p)
      BY <2>1, <2>2, <2>3 DEF Ends
    <2>5. client'[c].ch # Broadcast
      BY <2>2, <2>3 DEF Ownership
    <2> QED
      BY <1>1, <1>2, <2>1, <2>2, <2>3, <2>4, <2>5
  <1>6. ASSUME NEW c \in Clients, Continue(c) PROVE NoneForgotten'
    <2>1. PICK p : Sending(c, p) /\ p.ch = client[c].ch /\ p.kind = "next"
      BY <1>6, ContinueDoes
    <2>2. client[c].at = "continuing" /\ client'[c].seen = client[c].seen
      BY <1>6, ContinueDoes
    <2>3. /\ Own(c) /\ p \in packets' /\ p.client = c /\ client'[c].ch = client[c].ch /\ Ends(p)
          /\ p.req = client'[c].req
      BY <2>1 DEF Sending, Ends
    <2> QED
      BY <1>2, <1>3, <2>1, <2>2, <2>3 DEF NoneForgotten
  <1>7. ASSUME NEW c \in Clients, Cancel(c) PROVE NoneForgotten'
    BY <1>2, <1>3, <1>7, CancelDoes DEF Sending
  <1>8. ASSUME NEW c \in Clients, Opened(c) \/ Answered(c) PROVE NoneForgotten'
    BY <1>2, <1>3, <1>8, OpenedDoes, AnsweredDoes DEF Taking
  <1> QED
    BY <1>4, <1>5, <1>6, <1>7, <1>8 DEF ClientStep

LEMMA HandleForgotten ==
  ASSUME Typed, LiveOK, Mute, NoneForgotten, NEW p, Handle(p)
  PROVE  NoneForgotten'
  <1>1. client' = client /\ empty' = empty /\ packets' = packets \ {p} /\ p \in packets
    BY HandleDoes DEF Handling
  <1>2. ASSUME NEW c \in Clients, NEW q \in packets,
               client[c].at = "waiting", q.client = c, q.ch = client[c].ch, q.req = client[c].req, Ends(q)
        PROVE  Unforgotten(c)'
    <2>1. CASE q # p
      BY <1>1, <1>2, <2>1 DEF Unforgotten
    <2>2. CASE q = p /\ UnknownChannel(p)
      <3>1. PICK e \in Parts : out' = Append(out, e) /\ e.kind = "error" /\ e.ch = p.ch /\ e.of = p.req /\ e.last
        BY <2>2, UnknownDoes
      <3>2. /\ Len(out) \in Nat /\ Len(out') = Len(out) + 1 /\ out'[Len(out) + 1] = e
        BY <3>1, OutGrows
      <3>3. client[c].seen \in Nat /\ client[c].seen <= Len(out)
        BY DEF Typed, ClientStates, NoneForgotten
      <3>4. PICK k \in 1 .. Len(out') : k > client[c].seen /\ out'[k] = e
        BY <3>2, <3>3
      <3>5. Final(c, k)'
        BY <1>1, <1>2, <2>2, <3>1, <3>4 DEF Final
      <3> QED
        BY <3>4, <3>5 DEF Unforgotten
    <2>3. CASE q = p /\ (Gather(p) \/ Drop(p))
      BY <1>2, <2>3 DEF Gather, Drop, Ends
    <2>4. ASSUME q = p, p.ch \in Ids, NEW o, owner' = [owner EXCEPT ![p.ch] = o], o.at # "free",
                 o.message.parts # 0 \/ p.req \in empty
          PROVE  Unforgotten(c)'
      <3>1. owner'[p.ch] = o /\ o # Free
        BY <2>4, Early DEF Typed
      <3> QED
        BY <1>1, <1>2, <2>4, <3>1 DEF Unforgotten
    <2>5. CASE q = p /\ Reject(p)
      <3>1. p.ch \in Ids
        BY <2>5, LocksDoes DEF Reject
      <3>2. PICK o \in Owners : owner' = [owner EXCEPT ![p.ch] = o] /\ o.at = "send" /\ o.message.parts = 1
        BY <2>5, RejectDoes
      <3>3. o.at # "free" /\ o.message.parts # 0
        BY <3>2
      <3> QED
        BY <2>4, <2>5, <3>1, <3>2, <3>3
    <2>6. CASE q = p /\ Complete(p)
      <3>1. PICK o \in Owners :
              /\ owner' = [owner EXCEPT ![p.ch] = o]
              /\ o.message.ch = p.ch /\ o.message.of = Head1(p).req
              /\ p.ch = Broadcast => o.at = "allocate" /\ o.message.kind = "init" /\ o.message.parts = 1
              /\ p.ch # Broadcast => /\ o.at = "run" /\ o.message.kind = "reply"
                                       /\ o.message.parts = (IF Head1(p).cmd = "empty" THEN 0 ELSE 1)
        BY <2>6, CompleteDoes
      <3>2. p.ch \in Ids /\ Head1(p) \in Live /\ Head1(p).kind = "first"
        BY <2>6, LocksDoes, WholeHead, HeadBegins DEF Complete
      <3>3. Head1(p).cmd = "empty" => p.req \in empty
        <4>1. Head1(p).cmd = "empty" => ~Head1(p).more /\ Head1(p).req \in empty
          BY <3>2 DEF Mute
        <4>2. Head1(p).cmd = "empty" => Head1(p) = p
          BY <2>6, <4>1, HeadBegins DEF Head1
        <4> QED
          BY <4>1, <4>2
      <3>4. o.at # "free" /\ (o.message.parts # 0 \/ p.req \in empty)
        BY <3>1, <3>3
      <3> QED
        BY <2>4, <2>6, <3>1, <3>2, <3>4
    <2> QED
      BY <2>1, <2>2, <2>3, <2>5, <2>6 DEF Handle
  <1>3. ASSUME NEW c \in Clients, client[c].at = "waiting", client[c].ch \in Ids, owner[client[c].ch] # Free,
               owner[client[c].ch].message.parts # 0
        PROVE  Unforgotten(c)'
    <2>1. CASE UnknownChannel(p)
      BY <1>1, <1>3, <2>1, UnknownDoes DEF Unforgotten
    <2>2. CASE ~UnknownChannel(p)
      <3>1. client[c].ch # p.ch
        BY <1>3, <2>2, LocksDoes DEF Handle, Gather, Drop, Reject, Complete
      <3> QED
        BY <1>1, <1>3, <3>1, LiveHandled DEF Unforgotten
    <2> QED
      BY <2>1, <2>2
  <1> QED
    BY <1>1, <1>2, <1>3, HandleGrows, ForgottenKept

LEMMA WorkForgotten ==
  ASSUME Typed, OwnersOK, Counted, Numbered, NoneForgotten, NEW ch \in Ids, Work(ch)
  PROVE  NoneForgotten'
  <1>1. client' = client /\ empty' = empty /\ packets' = packets
    BY WorkKeeps
  <1>2. \A c \in Clients, q \in packets :
           client[c].at = "waiting" /\ q.client = c /\ q.ch = client[c].ch /\ q.req = client[c].req /\ Ends(q)
             => Unforgotten(c)'
    BY <1>1 DEF Unforgotten
  <1>3. ASSUME NEW o, Working(ch, o), o.at # "free", o.message.parts # 0 \/ o.message.parts = owner[ch].message.parts,
               NEW c \in Clients, client[c].ch \in Ids, owner[client[c].ch] # Free,
               owner[client[c].ch].message.parts # 0
        PROVE  Unforgotten(c)'
    <2>1. owner'[client[c].ch] # Free /\ owner'[client[c].ch].message.parts # 0
      BY <1>3, Early DEF Working, Typed
    <2> QED
      BY <1>1, <1>3, <2>1 DEF Unforgotten
  <1>4. ASSUME NEW n \in {1, 2}, Send(ch, n), n = owner[ch].message.parts, Working(ch, Free),
               NEW c \in Clients, client[c].at = "waiting", client[c].ch \in Ids, owner[client[c].ch] # Free,
               owner[client[c].ch].message.parts # 0
        PROVE  Unforgotten(c)'
    <2> DEFINE m == owner[ch].message
               e == Part(m, n)
    <2>1. CASE client[c].ch # ch
      BY <1>1, <1>4, <2>1 DEF Unforgotten, Working, Typed
    <2>2. CASE client[c].ch = ch
      <3>1. ch # Broadcast /\ client[c].seen \in Nat /\ client[c].seen <= Len(out)
        BY <1>4, <2>2 DEF NoneForgotten, Typed, ClientStates
      <3>2. owner[ch].at \in {"send", "sending"}
        BY <1>4, SendDoes
      <3>3. m.ch = ch /\ m.kind \in {"reply", "error"}
        BY <3>1, <3>2 DEF OwnersOK, OwnerOK
      <3>4. e.last /\ e.ch = ch /\ e.kind \in {"reply", "error"}
        BY <1>4, <3>3 DEF Part
      <3>5. e \in Parts /\ out' = Append(out, e)
        BY <1>4, SendDoes
      <3> HIDE DEF e
      <3>6. Len(out) \in Nat /\ Len(out') = Len(out) + 1 /\ out'[Len(out) + 1] = e
        BY <3>5, OutGrows
      <3>7. PICK k \in 1 .. Len(out') : k > client[c].seen /\ out'[k] = e
        BY <3>1, <3>6
      <3>8. Final(c, k)'
        BY <1>1, <2>2, <3>4, <3>7 DEF Final
      <3> QED
        BY <3>7, <3>8 DEF Unforgotten
    <2> QED
      BY <2>1, <2>2
  <1>5. ASSUME NEW c \in Clients, client[c].at = "waiting", client[c].ch \in Ids, owner[client[c].ch] # Free,
               owner[client[c].ch].message.parts # 0
        PROVE  Unforgotten(c)'
    <2>1. CASE Allocate(ch)
      <3>1. PICK o \in Owners : Working(ch, o) /\ o.at = "store" /\ o.message.parts = 1
        BY <2>1, AllocateDoes
      <3> QED
        BY <1>3, <1>5, <3>1
    <2>2. CASE Store(ch)
      <3>1. PICK o \in Owners : Working(ch, o) /\ o.at = "send" /\ o.message = owner[ch].message
        BY <2>2, StoreDoes
      <3> QED
        BY <1>3, <1>5, <3>1
    <2>3. ASSUME NEW n \in {1, 2}, Return(ch, n) PROVE Unforgotten(c)'
      <3>1. PICK o \in Owners :
              /\ Working(ch, o) /\ o.at = "send" /\ o.message.kind = "reply" /\ o.message.ch = ch
              /\ o.message.of = owner[ch].message.of /\ o.message.parts \in {1, 2}
        BY <2>3, ReturnDoes
      <3> QED
        BY <1>3, <1>5, <3>1
    <2>4. ASSUME NEW n \in {1, 2}, Send(ch, n) PROVE Unforgotten(c)'
      <3>1. \/ n = owner[ch].message.parts /\ Working(ch, Free)
            \/ Working(ch, At("sending", owner[ch].message))
        BY <2>4, SendDoes
      <3>2. At("sending", owner[ch].message).at # "free" /\ At("sending", owner[ch].message).message = owner[ch].message
        BY DEF At
      <3> QED
        BY <1>3, <1>4, <1>5, <2>4, <3>1, <3>2
    <2>5. CASE Echo(ch)
      <3>1. client[c].ch # ch /\ owner' = [owner EXCEPT ![ch] = Free]
        BY <1>5, <2>5, EchoDoes DEF Working
      <3> QED
        BY <1>1, <1>5, <3>1 DEF Unforgotten, Typed
    <2> QED
      BY <2>1, <2>2, <2>3, <2>4, <2>5 DEF Work
  <1> QED
    BY <1>1, <1>2, <1>5, WorkGrows, ForgottenKept

LEMMA NextForgotten ==
  ASSUME Typed, LiveOK, OwnersOK, Mute, Counted, Numbered, NoneForgotten, Ownership, [Next]_vars
  PROVE  NoneForgotten'
  <1>1. ASSUME UNCHANGED <<client, packets, owner, empty>>, Grows PROVE NoneForgotten'
    BY <1>1, ForgottenKept DEF Unforgotten
  <1>2. CASE Idle
    BY <1>1, <1>2 DEF Idle, Grows
  <1>3. ASSUME NEW r \in Requests, Fire(r) \/ Tick(r) PROVE NoneForgotten'
    BY <1>1, <1>3, TickKeeps, TickGrows
  <1> QED
    BY <1>2, <1>3, Steps, ClientForgotten, HandleForgotten, WorkForgotten

-----------------------------------------------------------------------------
(* Clients and their channels. *)

LEMMA InitOwnership == Init => Ownership
  <1> SUFFICES ASSUME Init PROVE Ownership
    OBVIOUS
  <1>1. PICK stale \in Clients \union {Nobody} :
          client = [c \in Clients |-> IF c = stale THEN Client("ready", Stale) ELSE Client("start", Broadcast)]
    BY DEF Init
  <1>2. \A c \in Clients : /\ client[c].req = 0
                           /\ client[c].ch = (IF c = stale THEN Stale ELSE Broadcast)
                           /\ client[c].at = (IF c = stale THEN "ready" ELSE "start")
    BY <1>1 DEF Client
  <1>3. requests = 0 /\ Len(out) = 0 /\ Live = {} /\ \A ch \in Ids : owner[ch] = Free
    <2>1. \A ch \in Ids : transaction[ch] = <<>>
      BY DEF Init
    <2> QED
      BY <2>1, EmptySeq DEF Init, Live, Gathered
  <1>4. \A k \in 1 .. Len(out) : FALSE
    BY <1>3
  <1>5. \A c \in Clients : client[c].req <= requests
    <2>1. 0 <= requests
      BY <1>3
    <2> QED
      BY <1>2, <2>1
  <1> QED
    BY <1>2, <1>3, <1>4, <1>5, Names DEF Ownership, Private

\* A step of the bridge.
LEMMA OwnershipKept ==
  ASSUME Typed, Ownership, Grows, UNCHANGED <<client, requests>>, Live' \subseteq Live,
         \A e \in Parts : out' = Append(out, e) =>
           e.of <= requests /\ (e.kind = "init" => \A d \in Clients : client[d].ch # e.id),
         \A ch \in Private : owner'[ch] # Free => owner[ch] # Free \/ \E c \in Clients : client[c].ch = ch
  PROVE  Ownership'
  <1>1. \A k \in 1 .. Len(out') :
          \/ k \in 1 .. Len(out) /\ out'[k] = out[k]
          \/ out'[k].of <= requests /\ (out'[k].kind = "init" => \A d \in Clients : client[d].ch # out'[k].id)
    <2>1. CASE out' = out
      BY <2>1
    <2>2. ASSUME NEW e \in Parts, out' = Append(out, e)
          PROVE  \A k \in 1 .. Len(out') :
                   \/ k \in 1 .. Len(out) /\ out'[k] = out[k]
                   \/ out'[k].of <= requests /\ (out'[k].kind = "init" => \A d \in Clients : client[d].ch # out'[k].id)
      BY <2>2, OutGrows
    <2> QED
      BY <2>1, <2>2 DEF Grows
  <1>2. \A k \in 1 .. Len(out) : k \in 1 .. Len(out') /\ out'[k] = out[k]
    BY Grown
  <1>3. \A c \in Clients : client'[c].ch \in Private =>
          \E k \in 1 .. Len(out') : out'[k].kind = "init" /\ out'[k].id = client'[c].ch
    <2> SUFFICES ASSUME NEW c \in Clients, client[c].ch \in Private
                 PROVE  \E k \in 1 .. Len(out') : out'[k].kind = "init" /\ out'[k].id = client[c].ch
      OBVIOUS
    <2>1. PICK k \in 1 .. Len(out) : out[k].kind = "init" /\ out[k].id = client[c].ch
      BY DEF Ownership
    <2> QED
      BY <1>2, <2>1
  <1>4. \A k \in 1 .. Len(out') : out'[k].of <= requests'
    BY <1>1 DEF Ownership
  <1>5. \A c, d \in Clients, k \in 1 .. Len(out') :
          out'[k].kind = "init" /\ client'[d].ch = out'[k].id /\ client'[c].at = "opening" => client'[c].req # out'[k].of
    BY <1>1 DEF Ownership
  <1>6. \A ch \in Private : owner'[ch] # Free => \E c \in Clients : client'[c].ch = ch
    BY DEF Ownership
  <1> QED
    BY <1>3, <1>4, <1>5, <1>6 DEF Ownership

\* A step of a client that stays on its channel.
LEMMA OwnershipStay ==
  ASSUME Typed, Ownership, NEW c \in Clients, Own(c), client'[c].ch = client[c].ch,
         requests' \in Nat,
         \/ requests' = requests /\ client'[c].req = client[c].req /\ client'[c].at # "opening"
         \/ requests' = requests + 1 /\ client'[c].req = requests',
         client'[c].at \in {"start", "opening"} => client[c].ch \in {Broadcast, Stale},
         client'[c].at = "ready" => client[c].ch # Broadcast,
         \A q \in Live' : q \in Live \/ (q.client = c /\ q.ch \in {client[c].ch, Broadcast})
  PROVE  Ownership'
  <1>1. UNCHANGED <<owner, out>>
    BY DEF Own
  <1>2. \A d \in Clients : d # c => client'[d] = client[d]
    BY OwnClients
  <1>3. /\ requests \in Nat /\ requests <= requests'
        /\ \A d \in Clients : client[d].req \in Nat /\ client[d].req <= requests
        /\ \A k \in 1 .. Len(out) : out[k] \in Parts /\ out[k].of \in Nat /\ out[k].of <= requests
    <2>1. requests \in Nat /\ requests <= requests' /\ \A d \in Clients : client[d].req \in Nat
      BY OwnClients
    <2>2. \A k \in 1 .. Len(out) : out[k] \in Parts
      BY ElementOfSeq DEF Typed
    <2> QED
      BY <2>1, <2>2 DEF Ownership, Parts, Requests
  <1>4. \A d \in Clients : client'[d].ch = client[d].ch
    BY <1>2
  <1>5. \A d \in Clients : client'[d].req <= requests'
    BY <1>2, <1>3
  <1>6. \A k \in 1 .. Len(out') : out'[k].of <= requests'
    BY <1>1, <1>3
  <1>7. \A d \in Clients : client'[d].at \in {"start", "opening"} => client'[d].ch \in {Broadcast, Stale}
    BY <1>2 DEF Ownership
  <1>8. \A d \in Clients : client'[d].at = "ready" => client'[d].ch # Broadcast
    BY <1>2 DEF Ownership
  <1>9. \A d \in Clients : client'[d].ch \in Private =>
          \E k \in 1 .. Len(out') : out'[k].kind = "init" /\ out'[k].id = client'[d].ch
    BY <1>1, <1>4 DEF Ownership
  <1>10. \A d, e \in Clients : d # e => client'[d].req # client'[e].req \/ client'[d].req = 0
    <2> SUFFICES ASSUME NEW d \in Clients, NEW e \in Clients, d # e
                 PROVE  client'[d].req # client'[e].req \/ client'[d].req = 0
      OBVIOUS
    <2>1. CASE requests' = requests /\ client'[c].req = client[c].req
      <3>1. client'[d].req = client[d].req /\ client'[e].req = client[e].req
        BY <1>2, <2>1
      <3> QED
        BY <3>1 DEF Ownership
    <2>2. CASE requests' = requests + 1 /\ client'[c].req = requests'
      <3>1. CASE d = c
        BY <1>2, <1>3, <2>2, <3>1
      <3>2. CASE e = c
        BY <1>2, <1>3, <2>2, <3>2
      <3>3. CASE d # c /\ e # c
        BY <1>2, <3>3 DEF Ownership
      <3> QED
        BY <3>1, <3>2, <3>3
    <2> QED
      BY <2>1, <2>2
  <1>11. \A d, e \in Clients : d # e => client'[d].ch # client'[e].ch \/ client'[d].ch = Broadcast
    BY <1>4 DEF Ownership
  <1>12. \A e, d \in Clients, k \in 1 .. Len(out') :
           out'[k].kind = "init" /\ client'[d].ch = out'[k].id /\ client'[e].at = "opening" => client'[e].req # out'[k].of
    <2> SUFFICES ASSUME NEW e \in Clients, NEW d \in Clients, NEW k \in 1 .. Len(out),
                        out[k].kind = "init", client[d].ch = out[k].id, client'[e].at = "opening"
                 PROVE  client'[e].req # out[k].of
      BY <1>1, <1>4
    <2>1. CASE e # c
      BY <1>2, <2>1 DEF Ownership
    <2>2. CASE e = c
      BY <1>3, <2>2
    <2> QED
      BY <2>1, <2>2
  <1>13. \A ch \in Private : owner'[ch] # Free => \E d \in Clients : client'[d].ch = ch
    BY <1>1, <1>4 DEF Ownership
  <1>14. \A d \in Clients, p \in Live' : client'[d].ch = Stale /\ p.ch = Stale => p.client = d
    BY <1>4, <1>11, Names DEF Ownership
  <1> QED
    BY <1>5, <1>6, <1>7, <1>8, <1>9, <1>10, <1>11, <1>12, <1>13, <1>14 DEF Ownership

\* A client takes the channel that its INIT opened.
LEMMA OpenedOwnership ==
  ASSUME Typed, LiveOK, Numbered, Ownership, NEW c \in Clients, Opened(c)
  PROVE  Ownership'
  <1>1. PICK k \in 1 .. Len(out) : out[k].kind = "init" /\ out[k].of = client[c].req /\ client'[c].ch = out[k].id
    BY OpenedDoes
  <1>2. /\ Taking(c) /\ client[c].at = "opening" /\ client'[c].at = "ready"
        /\ client'[c].req = client[c].req
    BY OpenedDoes DEF Taking
  <1>3. UNCHANGED <<owner, out, requests>> /\ Live' = Live
    BY <1>2, LiveSame DEF Taking, Own
  <1>4. \A d \in Clients : d # c => client'[d] = client[d]
    BY <1>2, OwnClients DEF Taking
  <1>5. out[k].of # 0 /\ out[k].id \in Private
    <2>1. out[k] \in Parts
      BY ElementOfSeq DEF Typed
    <2> QED
      BY <1>1, <2>1 DEF Parts, Requests, Private, Numbered
  <1>6. client[c].ch \in {Broadcast, Stale}
    BY <1>2 DEF Ownership
  <1>7. \A d \in Clients : d # c => client[d].ch # out[k].id
    BY <1>1, <1>2 DEF Ownership
  <1>8. \A d \in Clients : client'[d].req = client[d].req
    BY <1>2, <1>4
  <1>9. \A d \in Clients : client'[d].ch \in Private =>
          \E j \in 1 .. Len(out') : out'[j].kind = "init" /\ out'[j].id = client'[d].ch
    BY <1>1, <1>3, <1>4 DEF Ownership
  <1>10. \A e, d \in Clients, j \in 1 .. Len(out') :
           out'[j].kind = "init" /\ client'[d].ch = out'[j].id /\ client'[e].at = "opening" => client'[e].req # out'[j].of
    <2> SUFFICES ASSUME NEW e \in Clients, NEW d \in Clients, NEW j \in 1 .. Len(out),
                        out[j].kind = "init", client'[d].ch = out[j].id, client'[e].at = "opening"
                 PROVE  client'[e].req # out[j].of
      BY <1>3
    <2>1. e # c /\ client[e].at = "opening"
      BY <1>2, <1>4
    <2>2. CASE d # c
      BY <1>4, <1>8, <2>1, <2>2 DEF Ownership
    <2>3. CASE d = c
      <3>1. j = k
        BY <1>1, <2>3 DEF Numbered
      <3> QED
        BY <1>1, <1>5, <1>8, <2>1, <3>1 DEF Ownership
    <2> QED
      BY <2>2, <2>3
  <1>11. \A ch \in Private : owner'[ch] # Free => \E d \in Clients : client'[d].ch = ch
    <2> SUFFICES ASSUME NEW ch \in Private, owner[ch] # Free
                 PROVE  \E d \in Clients : client'[d].ch = ch
      BY <1>3
    <2>1. PICK d \in Clients : client[d].ch = ch
      BY DEF Ownership
    <2>2. d # c
      BY <1>6, <2>1, Names DEF Private
    <2> QED
      BY <1>4, <2>1, <2>2
  <1>12. \A d, e \in Clients : d # e => client'[d].ch # client'[e].ch \/ client'[d].ch = Broadcast
    BY <1>1, <1>4, <1>7 DEF Ownership
  <1>13. \A d \in Clients, p \in Live' : client'[d].ch = Stale /\ p.ch = Stale => p.client = d
    BY <1>1, <1>3, <1>4, <1>5, Names DEF Ownership, Private
  <1>14. /\ \A d \in Clients : client'[d].req <= requests'
         /\ \A j \in 1 .. Len(out') : out'[j].of <= requests'
         /\ \A d \in Clients : client'[d].at \in {"start", "opening"} => client'[d].ch \in {Broadcast, Stale}
         /\ \A d \in Clients : client'[d].at = "ready" => client'[d].ch # Broadcast
         /\ \A d, e \in Clients : d # e => client'[d].req # client'[e].req \/ client'[d].req = 0
    BY <1>1, <1>2, <1>3, <1>4, <1>5, <1>8 DEF Ownership, Private
  <1> QED
    BY <1>9, <1>10, <1>11, <1>12, <1>13, <1>14 DEF Ownership

LEMMA ClientOwnership ==
  ASSUME Typed, LiveOK, Numbered, NoneForgotten, Ownership, ClientStep
  PROVE  Ownership'
  <1>1. requests' \in Nat
    BY ClientKeeps
  <1>2. ASSUME NEW c \in Clients, NEW p, Asking(c, p), p.ch \in {client[c].ch, Broadcast},
               client'[c].at \in {"start", "opening"} => client[c].ch \in {Broadcast, Stale},
               client'[c].at # "ready"
        PROVE  Ownership'
    <2>1. Own(c) /\ client'[c].ch = client[c].ch /\ requests' = requests + 1 /\ client'[c].req = requests'
      BY <1>2 DEF Asking, Sending
    <2>2. Live' = Live \union {p} /\ p.client = c
      BY <1>2, LiveSent DEF Asking, Sending, Own
    <2> QED
      BY <1>1, <1>2, <2>1, <2>2, OwnershipStay
  <1>3. ASSUME NEW c \in Clients, NEW p, Sending(c, p), p.ch = client[c].ch, requests' = requests,
               client'[c].req = client[c].req, client'[c].at \in {"waiting", "ready"}, client[c].ch # Broadcast
        PROVE  Ownership'
    <2>1. Own(c) /\ client'[c].ch = client[c].ch
      BY <1>3 DEF Sending
    <2>2. Live' = Live \union {p} /\ p.client = c
      BY <1>3, LiveSent DEF Sending, Own
    <2> QED
      BY <1>1, <1>3, <2>1, <2>2, OwnershipStay
  <1>4. ASSUME NEW c \in Clients, Open(c) PROVE Ownership'
    <2>1. PICK p : Asking(c, p) /\ p.ch = Broadcast /\ ~p.more
      BY <1>4, OpenDoes
    <2>2. client[c].at = "start" /\ client'[c].at = "opening"
      BY <1>4, OpenDoes
    <2> QED
      BY <1>2, <2>1, <2>2 DEF Ownership
  <1>5. ASSUME NEW c \in Clients, NEW more \in BOOLEAN, NEW cmd \in {"cbor", "plain", "empty"}, Request(c, more, cmd) PROVE Ownership'
    <2>1. PICK p : Asking(c, p) /\ p.ch = client[c].ch /\ (p.more <=> more)
      BY <1>5, RequestDoes
    <2>2. client'[c].at \in {"continuing", "waiting"}
      BY <1>5, RequestDoes
    <2> QED
      BY <1>2, <2>1, <2>2
  <1>6. ASSUME NEW c \in Clients, Continue(c) PROVE Ownership'
    <2>1. PICK p : Sending(c, p) /\ p.ch = client[c].ch /\ p.kind = "next"
      BY <1>6, ContinueDoes
    <2>2. client[c].at = "continuing" /\ client'[c].at = "waiting" /\ client'[c].req = client[c].req /\ requests' = requests
      BY <1>6, ContinueDoes
    <2> QED
      BY <1>3, <2>1, <2>2 DEF NoneForgotten
  <1>7. ASSUME NEW c \in Clients, Cancel(c) PROVE Ownership'
    <2>1. PICK p : Sending(c, p) /\ p.ch = client[c].ch /\ p.kind = "cancel"
      BY <1>7, CancelDoes
    <2>2. client[c].at = "waiting" /\ client'[c].at = "ready" /\ client'[c].req = client[c].req /\ requests' = requests
      BY <1>7, CancelDoes
    <2> QED
      BY <1>3, <2>1, <2>2 DEF NoneForgotten
  <1>8. ASSUME NEW c \in Clients, Answered(c) PROVE Ownership'
    <2>1. /\ Taking(c) /\ client[c].at = "waiting"
          /\ client'[c].at = (IF client[c].ch = Stale THEN "start" ELSE "ready") /\ client'[c].ch = client[c].ch
      BY <1>8, AnsweredDoes
    <2>2. Own(c) /\ requests' = requests /\ client'[c].req = client[c].req /\ Live' = Live
      BY <2>1, LiveSame DEF Taking, Own
    <2>3. client[c].ch # Broadcast
      BY <2>1 DEF NoneForgotten
    <2> QED
      BY <1>1, <2>1, <2>2, <2>3, OwnershipStay
  <1> QED
    BY <1>4, <1>5, <1>6, <1>7, <1>8, OpenedOwnership DEF ClientStep

LEMMA HandleOwnership ==
  ASSUME Typed, LiveOK, OwnersOK, Ownership, NEW p, Handle(p)
  PROVE  Ownership'
  <1>1. UNCHANGED <<client, requests>> /\ Live' \subseteq Live /\ p \in Live /\ p \in Packets
    BY HandleDoes, LiveHandled DEF Handling, Live, Typed
  <1>2. \A e \in Parts : out' = Append(out, e) =>
          e.of <= requests /\ (e.kind = "init" => \A d \in Clients : client[d].ch # e.id)
    <2> SUFFICES ASSUME NEW e \in Parts, out' = Append(out, e)
                 PROVE  e.of <= requests /\ e.kind # "init"
      OBVIOUS
    <2>1. out' # out
      BY OutGrows
    <2>2. UnknownChannel(p)
      BY <2>1 DEF Handle, Gather, Drop, Reject, Complete
    <2>3. PICK x \in Parts : out' = Append(out, x) /\ x.kind = "error" /\ x.of = p.req
      BY <2>2, UnknownDoes
    <2>4. out'[Len(out) + 1] = x
      BY <2>3, OutGrows
    <2>5. x = e
      BY <2>4, OutGrows
    <2> QED
      BY <1>1, <2>3, <2>5 DEF LiveOK
  <1>3. \A ch \in Private : owner'[ch] # Free => owner[ch] # Free \/ \E c \in Clients : client[c].ch = ch
    <2> SUFFICES ASSUME NEW ch \in Private, ch = p.ch PROVE \E c \in Clients : client[c].ch = ch
      BY LiveHandled DEF Private
    <2> QED
      BY <1>1 DEF LiveOK, Packets
  <1> QED
    BY <1>1, <1>2, <1>3, HandleGrows, OwnershipKept

LEMMA WorkOwnership ==
  ASSUME Typed, LiveOK, OwnersOK, Counted, Numbered, Ownership, NEW ch \in Ids, Work(ch)
  PROVE  Ownership'
  <1>1. UNCHANGED <<client, requests>> /\ Live' = Live
    BY WorkKeeps, LiveSame
  <1>2. \A d \in Ids : owner'[d] # Free => owner[d] # Free
    <2>1. owner[ch].at # "free"
      BY DEF Work, Allocate, Store, Echo, Return, Send
    <2>2. owner[ch] # Free
      BY <2>1, Early
    <2>3. \A d \in Ids : d # ch => owner'[d] = owner[d]
      <3>1. \A o : Working(ch, o) => \A d \in Ids : d # ch => owner'[d] = owner[d]
        BY DEF Working, Typed
      <3>2. CASE Allocate(ch)
        BY <3>1, <3>2, AllocateDoes
      <3>3. CASE Store(ch)
        BY <3>1, <3>3, StoreDoes
      <3>4. ASSUME NEW n \in {1, 2}, Return(ch, n) PROVE \A d \in Ids : d # ch => owner'[d] = owner[d]
        <4>1. PICK o \in Owners :
                /\ Working(ch, o) /\ o.at = "send" /\ o.message.kind = "reply" /\ o.message.ch = ch
                /\ o.message.of = owner[ch].message.of /\ o.message.parts \in {1, 2}
          BY <3>4, ReturnDoes
        <4> QED
          BY <3>1, <4>1
      <3>5. ASSUME NEW n \in {1, 2}, Send(ch, n) PROVE \A d \in Ids : d # ch => owner'[d] = owner[d]
        BY <3>1, <3>5, SendDoes
      <3>6. CASE Echo(ch)
        BY <3>1, <3>6, EchoDoes
      <3> QED
        BY <3>2, <3>3, <3>4, <3>5, <3>6 DEF Work
    <2> QED
      BY <2>2, <2>3
  <1>3. \A e \in Parts : out' = Append(out, e) =>
          e.of <= requests /\ (e.kind = "init" => \A d \in Clients : client[d].ch # e.id)
    <2> SUFFICES ASSUME NEW e \in Parts, out' = Append(out, e)
                 PROVE  e.of <= requests /\ (e.kind = "init" => \A d \in Clients : client[d].ch # e.id)
      OBVIOUS
    <2>1. out' # out
      BY OutGrows
    <2>2. PICK n \in {1, 2} : Send(ch, n)
      BY <2>1 DEF Work, Allocate, Store, Echo, Return
    <2> DEFINE m == owner[ch].message
    <2>3. out' = Append(out, Part(m, n)) /\ Part(m, n) \in Parts /\ owner[ch].at = (IF n = 1 THEN "send" ELSE "sending")
      BY <2>2, SendDoes
    <2>4. out'[Len(out) + 1] = Part(m, n) /\ out'[Len(out) + 1] = e
      BY <2>3, OutGrows
    <2>5. e.kind = m.kind /\ e.id = m.id /\ e.of = m.of
      BY <2>4 DEF Part
    <2>6. OwnerOK(ch) /\ owner[ch].at # "free"
      BY <2>3 DEF OwnersOK
    <2>7. m.of \in 1 .. requests
      BY <2>6 DEF OwnerOK
    <2>8. ASSUME e.kind = "init", NEW d \in Clients, client[d].ch = e.id PROVE FALSE
      <3>1. ch = Broadcast /\ owner[ch].at = "send"
        BY <2>3, <2>5, <2>6, <2>8 DEF OwnerOK
      <3>2. m.id \in channels \ {Broadcast} /\ \A k \in 1 .. Len(out) : out[k].kind = "init" => out[k].id # m.id
        BY <3>1 DEF Numbered
      <3>3. client[d].ch \in Private
        BY <2>5, <2>8, <3>2 DEF Private, Parts
      <3> QED
        BY <2>5, <2>8, <3>2, <3>3 DEF Ownership
    <2> QED
      BY <2>5, <2>7, <2>8
  <1> QED
    BY <1>1, <1>2, <1>3, WorkGrows, OwnershipKept DEF Private

LEMMA TickOwnership ==
  ASSUME Typed, LiveOK, OwnersOK, Once, Ownership, NEW r \in Requests, Fire(r) \/ Tick(r)
  PROVE  Ownership'
  <1>1. UNCHANGED <<client, requests, owner>> /\ Live' = Live
    BY TickKeeps, LiveSame
  <1>2. \A e \in Parts : out' = Append(out, e) =>
          e.of <= requests /\ (e.kind = "init" => \A d \in Clients : client[d].ch # e.id)
    <2> SUFFICES ASSUME NEW e \in Parts, out' = Append(out, e)
                 PROVE  e.of <= requests /\ e.kind # "init"
      OBVIOUS
    <2>1. out' # out
      BY OutGrows
    <2>2. Keepalive(r)
      BY <2>1 DEF Fire, Tick, StopTicker
    <2>3. PICK x \in Parts : out' = Append(out, x) /\ x.kind = "keepalive" /\ x.of = r /\ x.last
      BY <2>2, KeepaliveDoes
    <2>4. x = e
      <3>1. out'[Len(out) + 1] = x
        BY <2>3, OutGrows
      <3> QED
        BY <3>1, OutGrows
    <2>5. ticker[r] # Quiet
      BY <2>2, KeepaliveDoes, Early
    <2>6. r <= requests
      BY <2>5 DEF Once, Requests, Typed
    <2> QED
      BY <2>3, <2>4, <2>6
  <1> QED
    BY <1>1, <1>2, TickGrows, OwnershipKept

LEMMA NextOwnership ==
  ASSUME Typed, LiveOK, OwnersOK, Counted, Numbered, Once, NoneForgotten, Ownership, [Next]_vars
  PROVE  Ownership'
  <1>1. CASE Idle
    <2>1. Live' = Live
      BY <1>1, LiveSame DEF Idle
    <2> QED
      BY <1>1, <2>1 DEF Idle, Ownership
  <1> QED
    BY <1>1, Steps, ClientOwnership, HandleOwnership, WorkOwnership, TickOwnership

-----------------------------------------------------------------------------
(* As long as packets are handled in the order they were sent. *)

LEMMA InitInOrder == Init => InOrder /\ HandedAsSent
  <1> SUFFICES ASSUME Init PROVE InOrder /\ HandedAsSent
    OBVIOUS
  <1>1. \A ch \in Ids : transaction[ch] = <<>>
    BY DEF Init
  <1>2. Live = {} /\ Gathered = {} /\ handed = {}
    BY <1>1 DEF Init, Live, Gathered
  <1> QED
    BY <1>2 DEF InOrder, HandedAsSent

LEMMA InOrderKept ==
  ASSUME InOrder, reordered' = reordered, UNCHANGED <<client, packets, transaction>>
  PROVE  InOrder'
  <1>1. Live' = Live /\ Gathered' = Gathered
    BY LiveSame
  <1>2. \A t : Followed(t) => Followed(t)'
    BY DEF Followed
  <1> QED
    BY <1>1, <1>2 DEF InOrder

\* A client sends p: no first packet, or one that is followed, or the one that
\* follows.
LEMMA SendingInOrder ==
  ASSUME Typed, LiveOK, InOrder, NEW c \in Clients, NEW p, Sending(c, p),
         p.kind = "first" /\ p.more => Followed(p)',
         client[c].at = "continuing" => p.kind = "next" /\ p.ch = client[c].ch /\ p.req = client[c].req
  PROVE  InOrder'
  <1>1. /\ Live' = Live \union {p} /\ Gathered' = Gathered /\ packets' = packets \union {p}
        /\ reordered' = reordered /\ p.client = c /\ p.n = client[c].sent
    BY LiveSent DEF Sending, Own, history
  <1>2. \A d \in Clients : d # c => client'[d] = client[d]
    BY OwnClients DEF Sending
  <1>3. \A q \in Live : q.client \in Clients /\ q.n < client[q.client].sent
    BY OwnClients DEF LiveOK, Sending
  <1>4. ASSUME ~reordered, NEW t \in Live, t.kind = "first", t.more PROVE Followed(t)'
    <2>1. Followed(t)
      BY <1>4 DEF InOrder
    <2>2. CASE \E q \in packets : q.client = t.client /\ q.ch = t.ch /\ q.n = t.n + 1 /\ q.kind = "next" /\ q.req = t.req
      BY <1>1, <2>2 DEF Followed
    <2>3. CASE /\ client[t.client].at = "continuing" /\ client[t.client].ch = t.ch
               /\ client[t.client].req = t.req /\ client[t.client].sent = t.n + 1
      <3>1. CASE t.client = c
        BY <1>1, <2>3, <3>1 DEF Followed
      <3>2. CASE t.client # c
        BY <1>2, <1>3, <2>3, <3>2 DEF Followed
      <3> QED
        BY <3>1, <3>2
    <2> QED
      BY <2>1, <2>2, <2>3 DEF Followed
  <1>5. ASSUME ~reordered, NEW t \in Gathered, NEW q \in packets', q.client = t.client PROVE t.n < q.n
    <2>1. CASE q = p
      BY <1>1, <1>3, <1>5, <2>1 DEF Live
    <2>2. CASE q \in packets
      BY <1>5, <2>2 DEF InOrder
    <2> QED
      BY <1>1, <2>1, <2>2
  <1> QED
    BY <1>1, <1>4, <1>5 DEF InOrder

LEMMA ClientInOrder ==
  ASSUME Typed, LiveOK, Ownership, InOrder, ClientStep
  PROVE  InOrder'
  <1>1. ASSUME NEW c \in Clients, NEW p, Asking(c, p), client[c].at # "continuing", p.ch = client[c].ch \/ ~p.more,
               p.more => client'[c].at = "continuing"
        PROVE  InOrder'
    <2>1. /\ Sending(c, p) /\ p.client = c /\ p.n = client[c].sent /\ client'[c].req = p.req
          /\ client'[c].sent = client[c].sent + 1 /\ client'[c].ch = client[c].ch
      BY <1>1 DEF Asking, Sending
    <2>2. p.more => Followed(p)'
      BY <1>1, <2>1 DEF Followed
    <2> QED
      BY <1>1, <2>1, <2>2, SendingInOrder
  <1>2. ASSUME NEW c \in Clients, Open(c) PROVE InOrder'
    <2>1. PICK p : Asking(c, p) /\ p.ch = Broadcast /\ ~p.more
      BY <1>2, OpenDoes
    <2> QED
      BY <1>1, <1>2, <2>1, OpenDoes
  <1>3. ASSUME NEW c \in Clients, NEW more \in BOOLEAN, NEW cmd \in {"cbor", "plain", "empty"}, Request(c, more, cmd) PROVE InOrder'
    <2>1. PICK p : Asking(c, p) /\ p.ch = client[c].ch /\ (p.more <=> more)
      BY <1>3, RequestDoes
    <2>2. client[c].at = "ready" /\ client'[c].at = (IF more THEN "continuing" ELSE "waiting")
      BY <1>3, RequestDoes
    <2> QED
      BY <1>1, <2>1, <2>2
  <1>4. ASSUME NEW c \in Clients, Continue(c) PROVE InOrder'
    <2>1. PICK p : Sending(c, p) /\ p.ch = client[c].ch /\ p.kind = "next"
      BY <1>4, ContinueDoes
    <2>2. client'[c].req = client[c].req
      BY <1>4, ContinueDoes
    <2>3. p.req = client[c].req
      BY <2>1, <2>2 DEF Sending
    <2> QED
      BY <2>1, <2>3, SendingInOrder
  <1>5. ASSUME NEW c \in Clients, Cancel(c) PROVE InOrder'
    <2>1. PICK p : Sending(c, p) /\ p.ch = client[c].ch /\ p.kind = "cancel"
      BY <1>5, CancelDoes
    <2>2. client[c].at = "waiting"
      BY <1>5, CancelDoes
    <2> QED
      BY <2>1, <2>2, SendingInOrder
  <1>6. ASSUME NEW c \in Clients, Taking(c), client[c].at # "continuing" PROVE InOrder'
    <2>1. Live' = Live /\ Gathered' = Gathered /\ packets' = packets /\ reordered' = reordered
      BY <1>6, LiveSame DEF Taking, Own, history
    <2>2. \A d \in Clients : d # c => client'[d] = client[d]
      BY <1>6, OwnClients DEF Taking
    <2>3. \A q \in Live : q.client \in Clients
      BY LivePackets DEF Packets
    <2>4. \A t \in Live : Followed(t) => Followed(t)'
      BY <1>6, <2>1, <2>2, <2>3 DEF Followed
    <2> QED
      BY <2>1, <2>4 DEF InOrder
  <1>7. ASSUME NEW c \in Clients, Opened(c) \/ Answered(c) PROVE InOrder'
    <2>1. Taking(c) /\ client[c].at # "continuing"
      BY <1>7, OpenedDoes, AnsweredDoes
    <2> QED
      BY <1>6, <2>1
  <1> QED
    BY <1>2, <1>3, <1>4, <1>5, <1>7 DEF ClientStep

\* What comes, in order, to a channel that has gathered a packet continues it.
LEMMA OwnContinuation ==
  ASSUME Typed, LiveOK, Ownership, InOrder, NEW p, Handle(p), ~reordered', p.ch \in Ids, transaction[p.ch] # <<>>
  PROVE  /\ p.kind = "next" /\ p.req = transaction[p.ch][1].req /\ p.n = transaction[p.ch][1].n + 1
         /\ Complete(p)
  <1> DEFINE t == transaction[p.ch][1]
  <1>1. t \in Gathered /\ t \in Live /\ t \in Packets /\ t.ch = p.ch /\ t.kind = "first" /\ t.more /\ p.ch \in Private
    BY GatheredOne DEF LiveOK, Live, Private
  <1>2. p \in packets /\ p \in Live /\ p \in Packets
    BY HandleDoes DEF Handling, Live, Typed
  <1> HIDE DEF t
  <1>3. ~reordered /\ \A q \in packets : q.client = p.client => ~(q.n < p.n)
    BY HandleDoes DEF Handling
  <1>4. p.client \in Clients /\ t.client \in Clients /\ p.n \in Nat /\ t.n \in Nat
    BY <1>1, <1>2 DEF Packets
  <1>5. p.client = t.client
    <2>1. client[p.client].ch = p.ch /\ client[t.client].ch = p.ch
      BY <1>1, <1>2 DEF LiveOK
    <2> QED
      BY <1>1, <1>4, <2>1 DEF Ownership, Private
  <1>6. t.n < p.n
    BY <1>1, <1>2, <1>3, <1>5 DEF InOrder
  <1>7. p.n < client[t.client].sent
    BY <1>2, <1>5 DEF LiveOK
  <1>8. PICK q \in packets : q.client = t.client /\ q.n = t.n + 1 /\ q.kind = "next" /\ q.req = t.req
    <2>1. Followed(t)
      BY <1>1, <1>3 DEF InOrder
    <2>2. client[t.client].sent # t.n + 1
      <3>1. client[t.client].sent \in Nat
        BY <1>4 DEF Typed, ClientStates
      <3> QED
        BY <1>4, <1>6, <1>7, <3>1
    <2> QED
      BY <2>1, <2>2 DEF Followed
  <1>9. q \in Live /\ q.n = p.n
    <2>1. q \in Live
      BY DEF Live
    <2>2. ~(q.n < p.n)
      BY <1>3, <1>5, <1>8
    <2> QED
      BY <1>4, <1>6, <1>8, <2>1, <2>2
  <1>10. p = q
    BY <1>2, <1>5, <1>8, <1>9 DEF LiveOK
  <1>11. p.kind = "next" /\ p.req = t.req /\ p.n = t.n + 1
    BY <1>8, <1>10
  <1>12. p.ch \in channels
    BY DEF LiveOK
  <1> QED
    BY <1>11, <1>12 DEF t, Handle, UnknownChannel, Gather, Drop, Reject, Complete

LEMMA HandleInOrder ==
  ASSUME Typed, LiveOK, Ownership, InOrder, NEW p, Handle(p)
  PROVE  InOrder'
  <1> SUFFICES ASSUME ~reordered' PROVE InOrder'
    BY DEF InOrder
  <1>1. /\ client' = client /\ packets' = packets \ {p} /\ p \in packets /\ ~reordered
        /\ \A q \in packets : q.client = p.client => ~(q.n < p.n)
    BY HandleDoes DEF Handling
  <1>2. Live' \subseteq Live /\ Gathered' \subseteq Gathered \union {p}
    BY LiveHandled
  <1>3. \A q \in Live : q.n \in Nat /\ q \in Packets
    BY LivePackets DEF Packets
  <1>4. ASSUME NEW t \in Live', t.kind = "first", t.more PROVE Followed(t)'
    <2>1. Followed(t) /\ t \in Live
      BY <1>1, <1>2, <1>4 DEF InOrder
    <2>2. CASE /\ client[t.client].at = "continuing" /\ client[t.client].ch = t.ch
               /\ client[t.client].req = t.req /\ client[t.client].sent = t.n + 1
      BY <1>1, <2>2 DEF Followed
    <2>3. ASSUME NEW q \in packets, q.client = t.client, q.ch = t.ch, q.n = t.n + 1, q.kind = "next", q.req = t.req
          PROVE  Followed(t)'
      <3>1. CASE q # p
        BY <1>1, <2>3, <3>1 DEF Followed
      <3>2. CASE q = p
        <4>1. t \in Gathered
          <5>1. t.n < q.n
            BY <1>3, <2>1, <2>3
          <5> QED
            BY <1>1, <2>1, <2>3, <3>2, <5>1 DEF Live
        <4>2. p.ch \in Ids /\ transaction[p.ch] # <<>>
          BY <2>3, <3>2, <4>1, GatheredWhere
        <4>3. Complete(p)
          BY <4>2, OwnContinuation
        <4>4. Live' = {x \in Live : x # p /\ (x \in Gathered => x.ch # p.ch)}
          BY <1>1, <4>2, <4>3, LiveEmptied DEF Complete
        <4> QED
          BY <2>3, <3>2, <4>1, <4>4
      <3> QED
        BY <3>1, <3>2
    <2> QED
      BY <2>1, <2>2, <2>3 DEF Followed
  <1>5. ASSUME NEW t \in Gathered', NEW q \in packets', q.client = t.client PROVE t.n < q.n
    <2>1. CASE t \in Gathered
      BY <1>1, <1>5, <2>1 DEF InOrder
    <2>2. CASE t = p
      <3>1. q \in packets /\ q # p /\ q \in Live /\ p \in Live
        BY <1>1 DEF Live
      <3>2. q.n # p.n /\ ~(q.n < p.n)
        BY <1>1, <1>5, <2>2, <3>1 DEF LiveOK
      <3> QED
        BY <1>3, <2>2, <3>1, <3>2
    <2> QED
      BY <1>2, <2>1, <2>2
  <1> QED
    BY <1>4, <1>5 DEF InOrder

LEMMA NextInOrder ==
  ASSUME Typed, LiveOK, Ownership, InOrder, [Next]_vars
  PROVE  InOrder'
  <1>1. ASSUME NEW ch \in Ids, Work(ch) PROVE InOrder'
    BY <1>1, WorkKeeps, InOrderKept
  <1>2. ASSUME NEW r \in Requests, Fire(r) \/ Tick(r) PROVE InOrder'
    BY <1>2, TickKeeps, InOrderKept
  <1>3. CASE Idle
    BY <1>3, InOrderKept DEF Idle
  <1> QED
    BY <1>1, <1>2, <1>3, Steps, ClientInOrder, HandleInOrder

LEMMA HandleHanded ==
  ASSUME Typed, LiveOK, Ownership, InOrder, HandedAsSent, NEW p, Handle(p)
  PROVE  HandedAsSent'
  <1> SUFFICES ASSUME ~reordered' PROVE HandedAsSent'
    BY DEF HandedAsSent
  <1>1. ~reordered
    BY HandleDoes DEF Handling
  <1>2. CASE ~Complete(p)
    <2>1. handed' = handed
      BY <1>2, UnknownDoes, RejectDoes DEF Handle, Gather, Drop
    <2> QED
      BY <1>1, <2>1 DEF HandedAsSent
  <1>3. CASE Complete(p)
    <2> DEFINE whole == Append(transaction[p.ch], p)
    <2>1. handed' = handed \union {whole}
      BY <1>3, CompleteDoes
    <2>2. p \in Packets /\ p.ch \in Ids
      BY <1>3, LocksDoes DEF Complete
    <2>3. (\A k \in DOMAIN whole : whole[k].req = whole[1].req) /\ Len(whole) = IF whole[1].more THEN 2 ELSE 1
      <3>1. CASE transaction[p.ch] = <<>>
        <4>1. whole = <<p>> /\ ~p.more
          BY <1>3, <3>1, WholeHead, CompleteDoes
        <4> HIDE DEF whole
        <4> QED
          BY <4>1
      <3>2. CASE transaction[p.ch] # <<>>
        <4> DEFINE t == transaction[p.ch][1]
        <4>1. whole = <<t, p>> /\ t.more
          BY <1>3, <2>2, <3>2, WholeHead DEF LiveOK
        <4>2. p.req = t.req
          BY <2>2, <3>2, OwnContinuation
        <4> HIDE DEF whole, t
        <4>3. Len(whole) = 2 /\ DOMAIN whole = 1 .. 2 /\ whole[1] = t /\ whole[2] = p
          BY <4>1
        <4>4. \A k \in 1 .. 2 : k = 1 \/ k = 2
          OBVIOUS
        <4> QED
          BY <4>1, <4>2, <4>3, <4>4
      <3> QED
        BY <3>1, <3>2
    <2> HIDE DEF whole
    <2> QED
      BY <1>1, <2>1, <2>3 DEF HandedAsSent
  <1> QED
    BY <1>2, <1>3

LEMMA NextHanded ==
  ASSUME Typed, LiveOK, Ownership, InOrder, HandedAsSent, [Next]_vars
  PROVE  HandedAsSent'
  <1>1. ASSUME UNCHANGED <<handed, reordered>> PROVE HandedAsSent'
    BY <1>1 DEF HandedAsSent
  <1>2. CASE Idle
    BY <1>1, <1>2 DEF Idle
  <1> QED
    BY <1>1, <1>2, Steps, ClientKeeps, WorkKeeps, TickKeeps, HandleHanded

-----------------------------------------------------------------------------
(* One request of a client at a time. *)

LEMMA InitFlow == Init => Flow /\ StaleFlow /\ AnswersOwnRequest
  <1> SUFFICES ASSUME Init PROVE Flow /\ StaleFlow /\ AnswersOwnRequest
    OBVIOUS
  <1>1. PICK stale \in Clients \union {Nobody} :
          client = [c \in Clients |-> IF c = stale THEN Client("ready", Stale) ELSE Client("start", Broadcast)]
    BY DEF Init
  <1>2. \A c \in Clients : client[c].ch \in {Stale, Broadcast} /\ client[c].at \in {"start", "ready"}
    BY <1>1 DEF Client
  <1>3. Live = {} /\ Len(out) = 0
    <2>1. \A ch \in Ids : transaction[ch] = <<>>
      BY DEF Init
    <2> QED
      BY <2>1, EmptySeq DEF Init, Live, Gathered
  <1>4. \A k \in 1 .. Len(out) : FALSE
    BY <1>3
  <1>5. Flow
    BY <1>2, Names DEF Flow, Private
  <1>6. StaleFlow
    BY <1>2, <1>3, <1>4 DEF StaleFlow, On
  <1>7. AnswersOwnRequest
    BY DEF Init, AnswersOwnRequest
  <1> QED
    BY <1>5, <1>6, <1>7

\* What is on a private channel is of its client.
LEMMA OnPrivate ==
  ASSUME Typed, LiveOK, Ownership, NEW c \in Clients, NEW ch \in Private, client[c].ch = ch, NEW p \in Live, p.ch = ch
  PROVE  p.client = c
  <1>1. client[p.client].ch = ch /\ p.client \in Clients
    BY LivePackets DEF LiveOK, Packets
  <1> QED
    BY <1>1 DEF Ownership, Private

\* The private channels are open.
LEMMA PrivateOpen ==
  ASSUME Numbered, Ownership, NEW c \in Clients, client[c].ch \in Private
  PROVE  client[c].ch \in channels
  BY DEF Numbered, Ownership

\* What a client has on its channel stays as it is, and it has no more to read.
LEMMA FlowStays ==
  ASSUME Typed, NEW c \in Clients, NEW ch \in Private, client'[c] = client[c], client[c].ch = ch,
         On(ch)' = On(ch), owner'[ch] = owner[ch], \A p \in packets : p.ch = ch => p \in packets', Grows,
         \A k \in 1 .. Len(out') : Final(c, k)' => k \in 1 .. Len(out),
         FlowOf(c, ch)
  PROVE  FlowOf(c, ch)'
  <1>1. \A k \in 1 .. Len(out') : Final(c, k)' => k \in 1 .. Len(out) /\ Final(c, k) /\ out'[k] = out[k]
    BY FinalStays, Grown
  <1>2. NothingRead(c) => NothingRead(c)'
    BY <1>1 DEF NothingRead
  <1>3. \A p : p \in On(ch) => p \in Live' /\ p.ch = ch
    <2>1. \A p : p \in On(ch)' => p \in Live'
      BY DEF On
    <2> QED
      BY <2>1 DEF On
  <1>4. Quiescent(ch) => Quiescent(ch)'
    BY DEF Quiescent
  <1>5. \A p, more : Sent(c, p, more) => Sent(c, p, more)'
    BY DEF Sent
  <1>6. Begun(c, ch) => Begun(c, ch)'
    <2> SUFFICES ASSUME Begun(c, ch) PROVE Begun(c, ch)'
      OBVIOUS
    <2>1. PICK t \in Live : On(ch) = {t} /\ Sent(c, t, TRUE)
      BY DEF Begun
    <2>2. t \in Live' /\ On(ch)' = {t} /\ Sent(c, t, TRUE)'
      BY <1>3, <1>5, <2>1
    <2> QED
      BY <1>2, <2>2 DEF Begun
  <1>7. Whole(c, ch) => Whole(c, ch)'
    <2> SUFFICES ASSUME Whole(c, ch) PROVE Whole(c, ch)'
      OBVIOUS
    <2>1. CASE \E p \in packets : On(ch) = {p} /\ Sent(c, p, FALSE)
      <3>1. PICK p \in packets : On(ch) = {p} /\ Sent(c, p, FALSE)
        BY <2>1
      <3>2. p \in packets' /\ On(ch)' = {p} /\ Sent(c, p, FALSE)'
        BY <1>3, <1>5, <3>1
      <3> QED
        BY <1>2, <3>2 DEF Whole
    <2>2. CASE \E t \in Live, q \in packets :
                 /\ On(ch) = {t, q} /\ Sent(c, t, TRUE) /\ t.n < q.n
                 /\ q.client = c /\ q.kind = "next" /\ q.req = client[c].req
      <3>1. PICK t \in Live, q \in packets :
                 /\ On(ch) = {t, q} /\ Sent(c, t, TRUE) /\ t.n < q.n
                 /\ q.client = c /\ q.kind = "next" /\ q.req = client[c].req
        BY <2>2
      <3>2. q \in packets' /\ t \in Live' /\ On(ch)' = {t, q} /\ Sent(c, t, TRUE)'
        BY <1>3, <1>5, <3>1
      <3> QED
        BY <1>2, <3>1, <3>2 DEF Whole
    <2> QED
      BY <2>1, <2>2 DEF Whole
  <1>8. Worked(c, ch) => Worked(c, ch)'
    BY <1>2 DEF Worked
  <1>9. Replied(c, ch) => Replied(c, ch)'
    BY <1>1, <1>4 DEF Replied
  <1> QED
    BY <1>4, <1>6, <1>7, <1>8, <1>9 DEF FlowOf

\* A client sends a packet: the others do not see it.
LEMMA FlowOthers ==
  ASSUME Typed, LiveOK, Ownership, NEW c \in Clients, Own(c), packets \subseteq packets',
         \A q \in Live' : q \in Live \/ q.ch \in {client[c].ch, Broadcast},
         NEW d \in Clients, d # c, NEW ch \in Private, client[d].ch = ch, FlowOf(d, ch)
  PROVE  FlowOf(d, ch)'
  <1>1. client'[d] = client[d] /\ UNCHANGED <<owner, out, transaction>>
    BY OwnClients DEF Own
  <1>2. client[c].ch # ch /\ ch # Broadcast
    BY DEF Ownership, Private
  <1>3. Live \subseteq Live'
    BY <1>1 DEF Live, Gathered
  <1>4. On(ch)' = On(ch)
    BY <1>2, <1>3 DEF On
  <1> QED
    BY <1>1, <1>4, FlowStays DEF Grows

LEMMA ClientFlow ==
  ASSUME Typed, LiveOK, Numbered, NoneForgotten, Ownership, Flow, ClientStep
  PROVE  Flow'
  <1>1. reordered' = reordered /\ UNCHANGED <<owner, out, transaction>> /\ cancelled \subseteq cancelled' /\ packets \subseteq packets'
    BY ClientKeeps
  <1> SUFFICES ASSUME ~reordered PROVE Flow'
    BY <1>1 DEF Flow
  <1>2. ASSUME NEW c \in Clients, Own(c), \A q \in Live' : q \in Live \/ q.ch \in {client[c].ch, Broadcast},
               \A ch \in Private : client'[c].ch = ch /\ c \notin cancelled' => FlowOf(c, ch)'
        PROVE  Flow'
    <2> SUFFICES ASSUME NEW d \in Clients \ cancelled', NEW ch \in Private, client'[d].ch = ch
                 PROVE  FlowOf(d, ch)'
      BY DEF Flow
    <2>1. CASE d = c
      BY <1>2, <2>1
    <2>2. CASE d # c
      <3>1. client[d].ch = ch /\ d \notin cancelled
        BY <1>1, <1>2, <2>2, OwnClients
      <3>2. FlowOf(d, ch)
        BY <3>1 DEF Flow
      <3> QED
        BY <1>1, <1>2, <2>2, <3>1, <3>2, FlowOthers
    <2> QED
      BY <2>1, <2>2
  <1>3. ASSUME NEW c \in Clients, NEW p, Sending(c, p)
        PROVE  /\ Own(c) /\ Live' = Live \union {p} /\ p \in packets' /\ p \in Packets
               /\ client'[c].ch = client[c].ch /\ p.client = c /\ client'[c].req = p.req /\ p.n = client[c].sent
               /\ \A ch : On(ch)' = IF ch = p.ch THEN On(ch) \union {p} ELSE On(ch)
    BY <1>3, LiveSent DEF Sending, Own
  <1>4. ASSUME NEW c \in Clients, Open(c) PROVE Flow'
    <2>1. PICK p : Asking(c, p) /\ p.ch = Broadcast /\ ~p.more
      BY <1>4, OpenDoes
    <2>2. client[c].ch \notin Private
      BY <1>4, OpenDoes, Names DEF Ownership, Private
    <2>3. Sending(c, p)
      BY <2>1 DEF Asking
    <2> QED
      BY <1>2, <1>3, <2>1, <2>2, <2>3
  <1>5. ASSUME NEW c \in Clients, NEW more \in BOOLEAN, NEW cmd \in {"cbor", "plain", "empty"}, Request(c, more, cmd) PROVE Flow'
    <2>1. PICK p : Asking(c, p) /\ p.ch = client[c].ch /\ (p.more <=> more)
      BY <1>5, RequestDoes
    <2>2. client[c].at = "ready" /\ client'[c].at = (IF more THEN "continuing" ELSE "waiting") /\ client'[c].seen = Len(out)
      BY <1>5, RequestDoes
    <2>3. Sending(c, p) /\ p.kind = "first"
      BY <2>1 DEF Asking
    <2>4. ASSUME NEW ch \in Private, client'[c].ch = ch, c \notin cancelled' PROVE FlowOf(c, ch)'
      <3>1. client[c].ch = ch /\ FlowOf(c, ch)
        BY <1>1, <1>3, <2>3, <2>4 DEF Flow
      <3>2. Quiescent(ch)
        BY <2>2, <3>1 DEF FlowOf
      <3>3. On(ch)' = {p} /\ owner'[ch] = Free /\ p \in Live' /\ p \in packets'
        BY <1>1, <1>3, <2>1, <2>3, <3>1, <3>2 DEF Quiescent
      <3>4. NothingRead(c)'
        <4>1. Len(out) \in Nat
          BY LenProperties DEF Typed
        <4>2. \A k \in 1 .. Len(out') : ~(k > client'[c].seen)
          BY <1>1, <2>2, <4>1
        <4> QED
          BY <4>2 DEF NothingRead, Final
      <3>5. CASE more
        <4>1. Sent(c, p, TRUE)'
          BY <1>3, <2>1, <2>3, <3>5 DEF Sent
        <4>2. Begun(c, ch)'
          BY <3>3, <3>4, <4>1 DEF Begun
        <4> QED
          BY <2>2, <3>5, <4>2 DEF FlowOf
      <3>6. CASE ~more
        <4>1. Sent(c, p, FALSE)'
          BY <1>3, <2>1, <2>3, <3>6 DEF Sent
        <4>2. Whole(c, ch)'
          BY <3>3, <3>4, <4>1 DEF Whole
        <4> QED
          BY <2>2, <3>6, <4>2 DEF FlowOf
      <3> QED
        BY <3>5, <3>6
    <2> QED
      BY <1>2, <1>3, <2>1, <2>3, <2>4
  <1>6. ASSUME NEW c \in Clients, Continue(c) PROVE Flow'
    <2>1. PICK p : Sending(c, p) /\ p.ch = client[c].ch /\ p.kind = "next"
      BY <1>6, ContinueDoes
    <2>2. client[c].at = "continuing" /\ client'[c].at = "waiting" /\ client'[c].req = client[c].req /\ client'[c].seen = client[c].seen
      BY <1>6, ContinueDoes
    <2>3. ASSUME NEW ch \in Private, client'[c].ch = ch, c \notin cancelled' PROVE FlowOf(c, ch)'
      <3>1. client[c].ch = ch /\ FlowOf(c, ch)
        BY <1>1, <1>3, <2>1, <2>3 DEF Flow
      <3>2. Begun(c, ch)
        BY <2>2, <3>1 DEF FlowOf
      <3>3. PICK t \in Live : On(ch) = {t} /\ Sent(c, t, TRUE)
        BY <3>2 DEF Begun
      <3>4. t \in Live' /\ p \in packets' /\ On(ch)' = {t, p} /\ owner'[ch] = Free
        BY <1>1, <1>3, <2>1, <3>1, <3>2, <3>3 DEF Begun
      <3>5. NothingRead(c)'
        BY <1>1, <1>3, <2>1, <2>2, <3>2 DEF NothingRead, Final, Begun
      <3>6. t.n < p.n /\ Sent(c, t, TRUE)'
        BY <1>3, <2>1, <2>2, <3>3 DEF Sent, LiveOK
      <3>7. p.client = c /\ p.kind = "next" /\ p.req = client'[c].req
        BY <1>3, <2>1
      <3>8. Whole(c, ch)'
        BY <3>4, <3>5, <3>6, <3>7 DEF Whole
      <3> QED
        BY <2>2, <3>8 DEF FlowOf
    <2> QED
      BY <1>2, <1>3, <2>1, <2>3
  <1>7. ASSUME NEW c \in Clients, Cancel(c) PROVE Flow'
    <2>1. PICK p : Sending(c, p) /\ p.ch = client[c].ch /\ p.kind = "cancel"
      BY <1>7, CancelDoes
    <2>2. c \in cancelled'
      BY <1>7, CancelDoes
    <2> QED
      BY <1>2, <1>3, <2>1, <2>2
  <1>8. ASSUME NEW c \in Clients, Opened(c) PROVE Flow'
    <2>1. PICK k \in 1 .. Len(out) : out[k].kind = "init" /\ out[k].of = client[c].req /\ client'[c].ch = out[k].id
      BY <1>8, OpenedDoes
    <2>2. Taking(c) /\ client[c].at = "opening" /\ client'[c].at = "ready"
      BY <1>8, OpenedDoes
    <2>3. Own(c) /\ Live' = Live
      BY <2>2, LiveSame DEF Taking, Own
    <2>4. ASSUME NEW ch \in Private, client'[c].ch = ch PROVE FlowOf(c, ch)'
      <3>1. \A d \in Clients : client[d].ch # ch
        <4>1. \A d \in Clients, j \in 1 .. Len(out) :
                out[j].kind = "init" /\ client[d].ch = out[j].id /\ client[c].at = "opening" => client[c].req # out[j].of
          BY DEF Ownership
        <4>2. \A d \in Clients : client[d].ch # out[k].id
          BY <2>1, <2>2, <4>1, Zenon
        <4> QED
          BY <2>1, <2>4, <4>2
      <3>2. On(ch) = {}
        <4>1. \A p \in Live : p.ch = ch => client[p.client].ch = ch /\ p.client \in Clients
          BY LivePackets DEF LiveOK, Packets
        <4> QED
          BY <3>1, <4>1 DEF On
      <3>3. owner[ch] = Free
        BY <3>1 DEF Ownership
      <3>4. Quiescent(ch)'
        BY <1>1, <2>3, <3>2, <3>3 DEF Quiescent, On
      <3> QED
        BY <2>2, <3>4 DEF FlowOf
    <2> QED
      BY <1>2, <2>3, <2>4
  <1>9. ASSUME NEW c \in Clients, Answered(c) PROVE Flow'
    <2>1. /\ Taking(c) /\ client[c].at = "waiting"
          /\ client'[c].at = (IF client[c].ch = Stale THEN "start" ELSE "ready") /\ client'[c].ch = client[c].ch
      BY <1>9, AnsweredDoes
    <2>2. PICK k \in 1 .. Len(out) : Final(c, k)
      BY <1>9, AnsweredDoes
    <2>3. Own(c) /\ Live' = Live /\ cancelled' = cancelled
      BY <2>1, LiveSame DEF Taking, Own
    <2>4. ASSUME NEW ch \in Private, client'[c].ch = ch, c \notin cancelled' PROVE FlowOf(c, ch)'
      <3>1. client[c].ch = ch /\ FlowOf(c, ch)
        BY <2>1, <2>3, <2>4 DEF Flow
      <3>2. Replied(c, ch)
        BY <2>1, <2>2, <3>1 DEF FlowOf, Whole, Worked, NothingRead
      <3>3. Quiescent(ch)'
        BY <1>1, <2>3, <3>2 DEF Replied, Quiescent, On
      <3>4. client'[c].at = "ready"
        BY <2>1, <3>1, Names DEF Private
      <3> QED
        BY <3>3, <3>4 DEF FlowOf
    <2> QED
      BY <1>2, <2>3, <2>4
  <1> QED
    BY <1>4, <1>5, <1>6, <1>7, <1>8, <1>9 DEF ClientStep

\* The packet on its channel that a client has in order waits for is handled.
LEMMA HandleOwnFlow ==
  ASSUME Typed, LiveOK, OwnersOK, Numbered, Ownership, InOrder, NEW p, Handle(p), ~reordered',
         NEW c \in Clients, NEW ch \in Private, client[c].ch = ch, p.ch = ch, FlowOf(c, ch)
  PROVE  FlowOf(c, ch)'
  <1>1. /\ client' = client /\ packets' = packets \ {p} /\ p \in packets
        /\ \A q \in packets : q.client = p.client => ~(q.n < p.n)
    BY HandleDoes DEF Handling
  <1>2. p \in On(ch) /\ ch \in Ids /\ ch \in channels /\ ch # Broadcast
    BY <1>1, PrivateOpen DEF On, Live, Private
  <1>3. client[c].at \in {"continuing", "waiting"}
    <2>1. client[c].at \in {"start", "opening", "ready", "continuing", "waiting"}
      BY DEF Typed, ClientStates
    <2>2. client[c].at # "ready"
      BY <1>2 DEF FlowOf, Quiescent
    <2> QED
      BY <1>2, <2>1, <2>2, Names DEF Ownership
  <1>4. ~UnknownChannel(p)
    BY <1>2 DEF UnknownChannel
  <1>5. out' = out
    BY <1>4, RejectDoes, CompleteDoes DEF Handle, Gather, Drop
  <1>6. NothingRead(c) => NothingRead(c)'
    BY <1>1, <1>5 DEF NothingRead, Final
  <1>7. \A g \in On(ch) : g \in packets \/ (g \in Gathered /\ transaction[ch] # <<>> /\ transaction[ch][1] = g)
    BY GatheredWhere DEF On, Live
  <1>8. transaction[ch] # <<>> => transaction[ch][1] \in On(ch) /\ transaction[ch][1] \notin packets
    BY <1>2, GatheredOne DEF LiveOK, On, Live
  \* The first packet of two is gathered.
  <1>9. ASSUME p.kind = "first", p.more, transaction[ch] = <<>>
        PROVE  Gather(p) /\ On(ch)' = On(ch) /\ owner' = owner /\ Live' = Live
    <2>1. Gather(p)
      BY <1>4, <1>9 DEF Handle, Drop, Reject, Complete
    <2> QED
      BY <2>1, LiveGather DEF Gather
  \* The last one starts the command.
  <1>10. ASSUME NEW h, Complete(p), h = Head1(p), h.req = client[c].req, \A g \in On(ch) : g = p \/ g \in Gathered, NothingRead(c)
         PROVE  Worked(c, ch)'
    <2>1. PICK o \in Owners :
            /\ owner' = [owner EXCEPT ![p.ch] = o] /\ o.message.of = Head1(p).req
            /\ p.ch # Broadcast => o.at = "run" /\ o.message.kind = "reply"
      BY <1>10, CompleteDoes
    <2>2. owner'[ch] = o /\ o # Free
      BY <1>2, <2>1, Early DEF Typed
    <2>3. Live' = {q \in Live : q # p /\ (q \in Gathered => q.ch # p.ch)}
      BY <1>1, <1>2, <1>10, LiveEmptied DEF Complete
    <2>4. On(ch)' = {}
      BY <1>10, <2>3 DEF On
    <2>5. owner'[ch].message.of = client'[c].req
      BY <1>1, <1>10, <2>1, <2>2
    <2> QED
      BY <1>6, <1>10, <2>2, <2>4, <2>5 DEF Worked
  <1>11. CASE client[c].at = "continuing"
    <2>1. Begun(c, ch)
      BY <1>11 DEF FlowOf
    <2>2. PICK t \in Live : On(ch) = {t} /\ Sent(c, t, TRUE)
      BY <2>1 DEF Begun
    <2>3. t = p /\ transaction[ch] = <<>> /\ p.kind = "first" /\ p.more
      BY <1>1, <1>2, <1>8, <2>2 DEF Sent
    <2>4. On(ch)' = {t} /\ owner'[ch] = Free /\ t \in Live' /\ Sent(c, t, TRUE)'
      BY <1>1, <1>9, <2>1, <2>2, <2>3 DEF Begun, Sent
    <2>5. Begun(c, ch)'
      BY <1>6, <2>1, <2>4 DEF Begun
    <2> QED
      BY <1>1, <1>11, <2>5 DEF FlowOf
  <1>12. CASE client[c].at = "waiting"
    <2>1. Whole(c, ch)
      BY <1>2, <1>12 DEF FlowOf, Worked, Replied, Quiescent
    <2>2. owner[ch] = Free /\ NothingRead(c)
      BY <2>1 DEF Whole
    <2>3. ASSUME NEW q \in packets, On(ch) = {q}, Sent(c, q, FALSE)
          PROVE  FlowOf(c, ch)'
      <3>1. q = p /\ transaction[ch] = <<>> /\ p.kind = "first" /\ ~p.more
        BY <1>1, <1>2, <1>8, <2>3 DEF Sent
      <3>2. Complete(p)
        BY <1>4, <3>1 DEF Handle, Gather, Drop, Reject
      <3>3. Head1(p) = p /\ p.req = client[c].req
        BY <2>3, <3>1 DEF Head1, Sent
      <3>4. Worked(c, ch)'
        BY <1>10, <2>2, <2>3, <3>1, <3>2, <3>3
      <3> QED
        BY <1>1, <1>12, <3>4 DEF FlowOf
    <2>4. ASSUME NEW t \in Live, NEW q \in packets, On(ch) = {t, q}, Sent(c, t, TRUE), t.n < q.n,
                 q.client = c, q.kind = "next", q.req = client[c].req
          PROVE  FlowOf(c, ch)'
      <3>1. CASE p = t
        <4>1. transaction[ch] = <<>> /\ p.kind = "first" /\ p.more
          BY <1>1, <1>8, <2>4, <3>1 DEF Sent
        <4>2. /\ On(ch)' = {t, q} /\ owner'[ch] = Free /\ t \in Live' /\ q \in packets' /\ Sent(c, t, TRUE)'
              /\ q.req = client'[c].req
          BY <1>1, <1>9, <2>2, <2>4, <3>1, <4>1 DEF Sent
        <4>3. Whole(c, ch)'
          BY <1>6, <2>2, <2>4, <4>2 DEF Whole
        <4> QED
          BY <1>1, <1>12, <4>3 DEF FlowOf
      <3>2. CASE p = q
        <4>1. t \in Gathered /\ transaction[ch] # <<>> /\ transaction[ch][1] = t
          <5>1. t \notin packets
            BY <1>1, <2>4, <3>2 DEF Sent
          <5> QED
            BY <1>7, <2>4, <5>1
        <4>2. Complete(p)
          BY <1>2, <4>1, OwnContinuation
        <4>3. Head1(p) = t /\ t.req = client[c].req
          BY <2>4, <4>1 DEF Head1, Sent
        <4>4. Worked(c, ch)'
          BY <1>10, <2>2, <2>4, <3>2, <4>1, <4>2, <4>3
        <4> QED
          BY <1>1, <1>12, <4>4 DEF FlowOf
      <3> QED
        BY <1>2, <2>4, <3>1, <3>2
    <2> QED
      BY <2>1, <2>3, <2>4 DEF Whole
  <1> QED
    BY <1>3, <1>11, <1>12

\* A new packet that was sent is read by a client only if it is the last of a
\* response on its channel.
LEMMA NothingNew ==
  ASSUME Typed, NEW e \in Parts, out' = Append(out, e), NEW c \in Clients, client'[c] = client[c],
         e.ch # client[c].ch \/ e.kind \notin {"reply", "error"} \/ ~e.last
  PROVE  \A k \in 1 .. Len(out') : Final(c, k)' => k \in 1 .. Len(out)
  BY OutGrows DEF Final

LEMMA HandleFlow ==
  ASSUME Typed, LiveOK, OwnersOK, Numbered, Ownership, InOrder, Flow, NEW p, Handle(p)
  PROVE  Flow'
  <1>1. UNCHANGED <<client, cancelled>> /\ packets' = packets \ {p} /\ (reordered => reordered')
    BY HandleDoes DEF Handling
  <1> SUFFICES ASSUME ~reordered', NEW c \in Clients \ cancelled, NEW ch \in Private, client[c].ch = ch
               PROVE  FlowOf(c, ch)'
    BY <1>1 DEF Flow
  <1>2. FlowOf(c, ch)
    BY <1>1 DEF Flow
  <1>3. CASE p.ch # ch
    <2>1. On(ch)' = On(ch) /\ owner'[ch] = owner[ch]
      BY <1>3, LiveHandled DEF Private
    <2>2. \A q \in packets : q.ch = ch => q \in packets'
      BY <1>1, <1>3
    <2>3. \A k \in 1 .. Len(out') : Final(c, k)' => k \in 1 .. Len(out)
      <3>1. CASE out' = out
        BY <3>1
      <3>2. CASE UnknownChannel(p)
        BY <1>1, <1>3, <3>2, UnknownDoes, NothingNew
      <3> QED
        BY <3>1, <3>2, RejectDoes, CompleteDoes DEF Handle, Gather, Drop
    <2> QED
      BY <1>1, <1>2, <2>1, <2>2, <2>3, HandleGrows, FlowStays
  <1> QED
    BY <1>2, <1>3, HandleOwnFlow

\* The goroutine on the channel of a client goes on, or ends.
LEMMA WorkOwnFlow ==
  ASSUME Typed, LiveOK, OwnersOK, Numbered, Counted, Ownership, NEW ch \in Private, Work(ch),
         NEW c \in Clients, client[c].ch = ch, FlowOf(c, ch)
  PROVE  FlowOf(c, ch)'
  <1>1. client' = client /\ On(ch)' = On(ch) /\ ch \in Ids /\ ch # Broadcast
    BY WorkKeeps, LiveSame DEF Private
  <1>2. owner[ch] # Free
    <2>1. owner[ch].at # "free"
      BY <1>1 DEF Work, Allocate, Store, Echo, Return, Send
    <2> QED
      BY <2>1, Early
  <1>3. client[c].at = "waiting" /\ Worked(c, ch)
    <2>1. client[c].at \in {"start", "opening", "ready", "continuing", "waiting"}
      BY DEF Typed, ClientStates
    <2>2. client[c].at \notin {"start", "opening"}
      BY <1>1, Names DEF Ownership
    <2> QED
      BY <1>2, <2>1, <2>2 DEF FlowOf, Quiescent, Begun, Whole, Replied
  <1>4. ASSUME NEW o, Working(ch, o), o.at # "free", o.message.of = owner[ch].message.of,
               \A k \in 1 .. Len(out') : Final(c, k)' => k \in 1 .. Len(out), Grows
        PROVE  FlowOf(c, ch)'
    <2>1. owner'[ch] = o /\ o # Free
      BY <1>1, <1>4, Early DEF Working, Typed
    <2>2. NothingRead(c)'
      BY <1>1, <1>3, <1>4, FinalStays DEF NothingRead, Worked
    <2>3. Worked(c, ch)'
      BY <1>1, <1>3, <1>4, <2>1, <2>2 DEF Worked
    <2> QED
      BY <1>1, <1>3, <2>3 DEF FlowOf
  <1>5. ~Allocate(ch) /\ ~Store(ch)
    BY <1>1, AllocateDoes, StoreDoes
  <1>6. ch \in Ids
    BY DEF Private
  <1>7. ASSUME NEW n \in {1, 2}, Return(ch, n) PROVE FlowOf(c, ch)'
    <2>1. PICK o \in Owners : Working(ch, o) /\ o.at = "send" /\ o.message.of = owner[ch].message.of
      BY <1>6, <1>7, ReturnSends
    <2>2. out' = out
      BY <1>7, <1>6, ReturnDoes
    <2> QED
      BY <1>4, <2>1, <2>2 DEF Grows
  <1>8. ASSUME NEW n \in {1, 2}, Send(ch, n) PROVE FlowOf(c, ch)'
    <2> DEFINE m == owner[ch].message
               e == Part(m, n)
    <2>1. /\ owner[ch].at = (IF n = 1 THEN "send" ELSE "sending")
          /\ e \in Parts /\ out' = Append(out, e)
          /\ \/ n = m.parts /\ Working(ch, Free)
             \/ n = 1 /\ m.parts = 2 /\ Working(ch, At("sending", m))
      BY <1>1, <1>8, SendDoes
    <2>2. e.of = m.of /\ (e.last <=> n = m.parts)
      BY DEF Part
    <2> HIDE DEF e
    <2>3. CASE n = 1 /\ m.parts = 2 /\ Working(ch, At("sending", m))
      <3>1. At("sending", m).at # "free" /\ At("sending", m).message = m
        BY DEF At
      <3>2. \A k \in 1 .. Len(out') : Final(c, k)' => k \in 1 .. Len(out)
        BY <1>1, <2>1, <2>2, <2>3, NothingNew
      <3>3. Grows
        BY <2>1 DEF Grows
      <3> QED
        BY <1>4, <2>3, <3>1, <3>2, <3>3
    <2>4. CASE n = m.parts /\ Working(ch, Free)
      <3>1. owner'[ch] = Free /\ On(ch)' = {}
        BY <1>1, <1>3, <2>4 DEF Working, Typed, Worked
      <3>2. \A k \in 1 .. Len(out) : ~Final(c, k)'
        BY <1>1, <1>3, <2>1, FinalStays DEF Worked, NothingRead, Grows
      <3>3. \A k \in 1 .. Len(out') : k \in 1 .. Len(out) \/ out'[k] = e
        BY <2>1, OutGrows
      <3>4. Replied(c, ch)'
        BY <1>1, <1>3, <2>2, <3>1, <3>2, <3>3 DEF Replied, Quiescent, Worked
      <3> QED
        BY <1>1, <1>3, <3>4 DEF FlowOf
    <2> QED
      BY <2>1, <2>3, <2>4
  <1>9. CASE Echo(ch)
    <2>1. Working(ch, Free) /\ out' = out
      BY <1>6, <1>9, EchoDoes
    <2>2. owner'[ch] = Free /\ On(ch)' = {}
      BY <1>1, <1>3, <2>1 DEF Working, Typed, Worked
    <2>3. \A k \in 1 .. Len(out') : ~Final(c, k)'
      BY <1>1, <1>3, <2>1 DEF Worked, NothingRead, Final
    <2>4. Replied(c, ch)'
      BY <2>2, <2>3 DEF Replied, Quiescent
    <2> QED
      BY <1>1, <1>3, <2>4 DEF FlowOf
  <1> QED
    BY <1>5, <1>7, <1>8, <1>9 DEF Work

\* A goroutine on another channel.
LEMMA WorkOther ==
  ASSUME Typed, OwnersOK, Numbered, Counted, NEW ch \in Ids, Work(ch)
  PROVE  /\ \A d \in Ids : d # ch => owner'[d] = owner[d]
         /\ out' = out \/ \E e \in Parts : out' = Append(out, e) /\ e.ch = ch
  <1>1. \A o : Working(ch, o) => \A d \in Ids : d # ch => owner'[d] = owner[d]
    BY DEF Working, Typed
  <1>2. CASE Allocate(ch)
    BY <1>1, <1>2, AllocateDoes
  <1>3. CASE Store(ch)
    BY <1>1, <1>3, StoreDoes
  <1>4. ASSUME NEW n \in {1, 2}, Return(ch, n)
        PROVE  (\A d \in Ids : d # ch => owner'[d] = owner[d]) /\ out' = out
    <2>1. PICK o \in Owners :
            /\ Working(ch, o) /\ o.at = "send" /\ o.message.kind = "reply" /\ o.message.ch = ch
            /\ o.message.of = owner[ch].message.of /\ o.message.parts \in {1, 2}
      BY <1>4, ReturnDoes
    <2> QED
      BY <1>1, <1>4, <2>1, ReturnDoes
  <1>5. ASSUME NEW n \in {1, 2}, Send(ch, n)
        PROVE  /\ \A d \in Ids : d # ch => owner'[d] = owner[d]
               /\ \E e \in Parts : out' = Append(out, e) /\ e.ch = ch
    <2> DEFINE e == Part(owner[ch].message, n)
    <2>1. /\ owner[ch].at # "free"
          /\ e \in Parts /\ out' = Append(out, e)
          /\ \/ Working(ch, Free)
             \/ Working(ch, At("sending", owner[ch].message))
      BY <1>5, SendDoes
    <2>2. owner[ch].message.ch = ch
      BY <2>1 DEF OwnersOK, OwnerOK
    <2>3. e.ch = ch
      BY <2>2 DEF Part
    <2> HIDE DEF e
    <2> QED
      BY <1>1, <2>1, <2>3
  <1>6. CASE Echo(ch)
    BY <1>1, <1>6, EchoDoes
  <1> QED
    BY <1>2, <1>3, <1>4, <1>5, <1>6 DEF Work

LEMMA WorkFlow ==
  ASSUME Typed, LiveOK, OwnersOK, Numbered, Counted, Ownership, Flow, NEW ch \in Ids, Work(ch)
  PROVE  Flow'
  <1>1. UNCHANGED <<client, cancelled, reordered, packets, transaction>>
    BY WorkKeeps
  <1> SUFFICES ASSUME ~reordered, NEW c \in Clients \ cancelled, NEW d \in Private, client[c].ch = d
               PROVE  FlowOf(c, d)'
    BY <1>1 DEF Flow
  <1>2. FlowOf(c, d) /\ d \in Ids /\ On(d)' = On(d)
    BY <1>1, LiveSame DEF Flow, Private
  <1>3. CASE d # ch
    <2>1. owner'[d] = owner[d]
      BY <1>2, <1>3, WorkOther
    <2>2. \A k \in 1 .. Len(out') : Final(c, k)' => k \in 1 .. Len(out)
      BY <1>1, <1>3, WorkOther, NothingNew
    <2> QED
      BY <1>1, <1>2, <2>1, <2>2, WorkGrows, FlowStays
  <1> QED
    BY <1>2, <1>3, WorkOwnFlow

LEMMA TickFlow ==
  ASSUME Typed, Flow, NEW r \in Requests, Fire(r) \/ Tick(r)
  PROVE  Flow'
  <1>1. UNCHANGED <<client, cancelled, reordered, packets, transaction, owner>>
    BY TickKeeps
  <1> SUFFICES ASSUME ~reordered, NEW c \in Clients \ cancelled, NEW d \in Private, client[c].ch = d
               PROVE  FlowOf(c, d)'
    BY <1>1 DEF Flow
  <1>2. FlowOf(c, d) /\ On(d)' = On(d)
    BY <1>1, LiveSame DEF Flow
  <1>3. \A k \in 1 .. Len(out') : Final(c, k)' => k \in 1 .. Len(out)
    <2>1. CASE Keepalive(r)
      <3>1. PICK e \in Parts : out' = Append(out, e) /\ e.kind = "keepalive" /\ e.of = r /\ e.last
        BY <2>1, KeepaliveDoes
      <3> QED
        BY <1>1, <3>1, NothingNew
    <2>2. CASE ~Keepalive(r)
      BY <2>2 DEF Fire, Tick, StopTicker
    <2> QED
      BY <2>1, <2>2
  <1> QED
    BY <1>1, <1>2, <1>3, TickGrows, FlowStays

LEMMA NextFlow ==
  ASSUME Typed, LiveOK, OwnersOK, Counted, Numbered, NoneForgotten, Ownership, InOrder, Flow, [Next]_vars
  PROVE  Flow'
  <1>1. CASE Idle
    <2> SUFFICES ASSUME ~reordered, NEW c \in Clients \ cancelled, NEW d \in Private, client[c].ch = d
                 PROVE  FlowOf(c, d)'
      BY <1>1 DEF Flow, Idle
    <2>1. On(d)' = On(d)
      BY <1>1, LiveSame DEF Idle
    <2>2. FlowOf(c, d)
      BY DEF Flow
    <2> QED
      BY <1>1, <2>1, <2>2, FlowStays DEF Idle, Grows
  <1> QED
    BY <1>1, Steps, ClientFlow, HandleFlow, WorkFlow, TickFlow

-----------------------------------------------------------------------------
(* A channel from before the restart, and the answers. *)

LEMMA ClientStale ==
  ASSUME Typed, NoneForgotten, Ownership, Numbered, StaleFlow, ClientStep
  PROVE  StaleFlow'
  <1>1. UNCHANGED <<out, transaction>> /\ cancelled \subseteq cancelled'
    BY ClientKeeps
  <1>2. ASSUME NEW c \in Clients, Own(c), \A q \in Live' : q \in Live \/ q.ch \in {client[c].ch, Broadcast},
               client'[c].ch = Stale /\ c \notin cancelled' =>
                 /\ client[c].ch = Stale
                 /\ client'[c].at \in {"continuing", "waiting"} =>
                      /\ \A p \in On(Stale)' : p.req = client'[c].req
                      /\ \A k \in 1 .. Len(out) : StaleOut(k) => out[k].of = client'[c].req
                 /\ client'[c].at # "ready"
        PROVE  StaleFlow'
    <2>1. \A d \in Clients : d # c => client'[d] = client[d]
      BY <1>2, OwnClients
    <2>2. \A d \in Clients : d # c /\ client[d].ch = Stale => On(Stale)' \subseteq On(Stale)
      <3>1. \A d \in Clients : d # c /\ client[d].ch = Stale => client[c].ch # Stale
        BY Names DEF Ownership
      <3> QED
        BY <1>2, <3>1, Names DEF On
    <2>3. \A k : StaleOut(k)' <=> StaleOut(k)
      BY <1>1 DEF StaleOut
    <2> SUFFICES ASSUME NEW d \in Clients \ cancelled', client'[d].ch = Stale
                 PROVE  /\ client'[d].at = "ready" => On(Stale)' = {} /\ \A k \in 1 .. Len(out) : ~StaleOut(k)
                        /\ client'[d].at \in {"continuing", "waiting"} =>
                             /\ \A p \in On(Stale)' : p.req = client'[d].req
                             /\ \A k \in 1 .. Len(out) : StaleOut(k) => out[k].of = client'[d].req
      BY <1>1, <2>3 DEF StaleFlow
    <2>4. CASE d = c
      BY <1>2, <2>4
    <2>5. CASE d # c
      BY <1>1, <2>1, <2>2, <2>5 DEF StaleFlow
    <2> QED
      BY <2>4, <2>5
  <1>3. ASSUME NEW c \in Clients, NEW p, Sending(c, p)
        PROVE  /\ Own(c) /\ Live' = Live \union {p}
               /\ client'[c].ch = client[c].ch /\ client'[c].req = p.req
               /\ \A ch : On(ch)' = IF ch = p.ch THEN On(ch) \union {p} ELSE On(ch)
    BY <1>3, LiveSent DEF Sending, Own
  <1>4. ASSUME NEW c \in Clients, Open(c) PROVE StaleFlow'
    <2>1. PICK p : Asking(c, p) /\ p.ch = Broadcast /\ ~p.more
      BY <1>4, OpenDoes
    <2>2. Sending(c, p) /\ client'[c].at = "opening"
      BY <1>4, <2>1, OpenDoes DEF Asking
    <2> QED
      BY <1>2, <1>3, <2>1, <2>2
  <1>5. ASSUME NEW c \in Clients, NEW more \in BOOLEAN, NEW cmd \in {"cbor", "plain", "empty"}, Request(c, more, cmd) PROVE StaleFlow'
    <2>1. PICK p : Asking(c, p) /\ p.ch = client[c].ch /\ (p.more <=> more)
      BY <1>5, RequestDoes
    <2>2. client[c].at = "ready" /\ client'[c].at \in {"continuing", "waiting"}
      BY <1>5, RequestDoes
    <2>3. Sending(c, p)
      BY <2>1 DEF Asking
    <2>4. client[c].ch = Stale /\ c \notin cancelled =>
            On(Stale)' = {p} /\ \A k \in 1 .. Len(out) : ~StaleOut(k)
      BY <1>3, <2>1, <2>2, <2>3 DEF StaleFlow
    <2> QED
      BY <1>1, <1>2, <1>3, <2>1, <2>2, <2>3, <2>4
  <1>6. ASSUME NEW c \in Clients, Continue(c) PROVE StaleFlow'
    <2>1. PICK p : Sending(c, p) /\ p.ch = client[c].ch /\ p.kind = "next"
      BY <1>6, ContinueDoes
    <2>2. client[c].at = "continuing" /\ client'[c].at = "waiting" /\ client'[c].req = client[c].req
      BY <1>6, ContinueDoes
    <2>3. client[c].ch = Stale /\ c \notin cancelled =>
            /\ \A q \in On(Stale)' : q.req = client'[c].req
            /\ \A k \in 1 .. Len(out) : StaleOut(k) => out[k].of = client'[c].req
      BY <1>3, <2>1, <2>2 DEF StaleFlow
    <2> QED
      BY <1>1, <1>2, <1>3, <2>1, <2>2, <2>3
  <1>7. ASSUME NEW c \in Clients, Cancel(c) PROVE StaleFlow'
    <2>1. PICK p : Sending(c, p) /\ p.ch = client[c].ch /\ p.kind = "cancel"
      BY <1>7, CancelDoes
    <2>2. c \in cancelled'
      BY <1>7, CancelDoes
    <2> QED
      BY <1>2, <1>3, <2>1, <2>2
  <1>8. ASSUME NEW c \in Clients, Opened(c) PROVE StaleFlow'
    <2>1. PICK k \in 1 .. Len(out) : out[k].kind = "init" /\ out[k].of = client[c].req /\ client'[c].ch = out[k].id
      BY <1>8, OpenedDoes
    <2>2. Taking(c) /\ out[k] \in Parts
      BY <1>8, OpenedDoes, ElementOfSeq DEF Typed
    <2>3. Own(c) /\ Live' = Live /\ client'[c].ch # Stale
      BY <2>1, <2>2, LiveSame, Names DEF Taking, Own, Parts
    <2> QED
      BY <1>2, <2>3
  <1>9. ASSUME NEW c \in Clients, Answered(c) PROVE StaleFlow'
    <2>1. /\ Taking(c)
          /\ client'[c].at = (IF client[c].ch = Stale THEN "start" ELSE "ready") /\ client'[c].ch = client[c].ch
      BY <1>9, AnsweredDoes
    <2>2. Own(c) /\ Live' = Live
      BY <2>1, LiveSame DEF Taking, Own
    <2> QED
      BY <1>2, <2>1, <2>2
  <1> QED
    BY <1>4, <1>5, <1>6, <1>7, <1>8, <1>9 DEF ClientStep

\* The bridge sends no more on such a channel than errors for what comes there.
LEMMA StaleKept ==
  ASSUME Typed, StaleFlow, Grows, UNCHANGED <<client, cancelled>>, Live' \subseteq Live,
         \A e \in Parts : out' = Append(out, e) /\ e.ch = Stale /\ e.kind \in {"reply", "error"} =>
           \E p \in On(Stale) : e.of = p.req
  PROVE  StaleFlow'
  <1>1. On(Stale)' \subseteq On(Stale)
    BY DEF On
  <1>2. \A k \in 1 .. Len(out') : StaleOut(k)' =>
          \/ k \in 1 .. Len(out) /\ StaleOut(k) /\ out'[k] = out[k]
          \/ \E p \in On(Stale) : out'[k].of = p.req
    <2>1. CASE out' = out
      BY <2>1 DEF StaleOut
    <2>2. ASSUME NEW e \in Parts, out' = Append(out, e)
          PROVE  \A k \in 1 .. Len(out') : StaleOut(k)' =>
                   \/ k \in 1 .. Len(out) /\ StaleOut(k) /\ out'[k] = out[k]
                   \/ \E p \in On(Stale) : out'[k].of = p.req
      BY <2>2, OutGrows DEF StaleOut
    <2> QED
      BY <2>1, <2>2 DEF Grows
  <1> QED
    BY <1>1, <1>2 DEF StaleFlow

LEMMA HandleStale ==
  ASSUME Typed, LiveOK, StaleFlow, NEW p, Handle(p)
  PROVE  StaleFlow'
  <1>1. UNCHANGED <<client, cancelled>> /\ p \in Live /\ Live' \subseteq Live
    BY HandleDoes, LiveHandled DEF Handling, Live
  <1>2. \A e \in Parts : out' = Append(out, e) /\ e.ch = Stale /\ e.kind \in {"reply", "error"} =>
          \E q \in On(Stale) : e.of = q.req
    <2> SUFFICES ASSUME NEW e \in Parts, out' = Append(out, e), e.ch = Stale
                 PROVE  \E q \in On(Stale) : e.of = q.req
      OBVIOUS
    <2>1. out' # out
      BY OutGrows
    <2>2. UnknownChannel(p)
      BY <2>1 DEF Handle, Gather, Drop, Reject, Complete
    <2>3. PICK x \in Parts : out' = Append(out, x) /\ x.kind = "error" /\ x.ch = p.ch /\ x.of = p.req /\ x.last
      BY <2>2, UnknownDoes
    <2>4. x = e
      <3>1. out'[Len(out) + 1] = x
        BY <2>3, OutGrows
      <3> QED
        BY <3>1, OutGrows
    <2> QED
      BY <1>1, <2>3, <2>4 DEF On
  <1> QED
    BY <1>1, <1>2, HandleGrows, StaleKept

LEMMA WorkStale ==
  ASSUME Typed, OwnersOK, Counted, Numbered, StaleFlow, NEW ch \in Ids, Work(ch)
  PROVE  StaleFlow'
  <1>1. UNCHANGED <<client, cancelled>> /\ Live' = Live
    BY WorkKeeps, LiveSame
  <1>2. \A e \in Parts : out' = Append(out, e) => e.ch # Stale
    <2> SUFFICES ASSUME NEW e \in Parts, out' = Append(out, e) PROVE e.ch # Stale
      OBVIOUS
    <2>1. out' # out /\ out'[Len(out) + 1] = e
      BY OutGrows
    <2>2. PICK x \in Parts : out' = Append(out, x) /\ x.ch = ch
      BY <2>1, WorkOther
    <2>3. out'[Len(out) + 1] = x
      BY <2>2, OutGrows
    <2> QED
      BY <2>1, <2>2, <2>3, Names
  <1> QED
    BY <1>1, <1>2, WorkGrows, StaleKept

LEMMA TickStale ==
  ASSUME Typed, StaleFlow, NEW r \in Requests, Fire(r) \/ Tick(r)
  PROVE  StaleFlow'
  <1>1. UNCHANGED <<client, cancelled>> /\ Live' = Live
    BY TickKeeps, LiveSame
  <1>2. \A e \in Parts : out' = Append(out, e) => e.kind = "keepalive"
    <2> SUFFICES ASSUME NEW e \in Parts, out' = Append(out, e) PROVE e.kind = "keepalive"
      OBVIOUS
    <2>1. out' # out /\ out'[Len(out) + 1] = e
      BY OutGrows
    <2>2. Keepalive(r)
      BY <2>1 DEF Fire, Tick, StopTicker
    <2>3. PICK x \in Parts : out' = Append(out, x) /\ x.kind = "keepalive" /\ x.of = r /\ x.last
      BY <2>2, KeepaliveDoes
    <2>4. out'[Len(out) + 1] = x
      BY <2>3, OutGrows
    <2> QED
      BY <2>1, <2>3, <2>4
  <1> QED
    BY <1>1, <1>2, TickGrows, StaleKept

LEMMA NextStale ==
  ASSUME Typed, LiveOK, OwnersOK, Counted, Numbered, NoneForgotten, Ownership, StaleFlow, [Next]_vars
  PROVE  StaleFlow'
  <1>1. CASE Idle
    <2>1. Live' = Live
      BY <1>1, LiveSame DEF Idle
    <2> QED
      BY <1>1, <2>1 DEF Idle, StaleFlow, StaleOut, On
  <1> QED
    BY <1>1, Steps, ClientStale, HandleStale, WorkStale, TickStale

\* What a client takes for its answer.
LEMMA AnsweredOwn ==
  ASSUME Typed, NoneForgotten, Ownership, Flow, StaleFlow, AnswersOwnRequest, NEW c \in Clients, Answered(c)
  PROVE  AnswersOwnRequest'
  <1>1. Taking(c) /\ client[c].at = "waiting"
    BY AnsweredDoes
  <1>2. PICK k \in 1 .. Len(out) :
          /\ Final(c, k)
          /\ answers' = answers \union {[client |-> c, ch |-> client[c].ch, req |-> client[c].req,
                                         kind |-> out[k].kind, of |-> out[k].of]}
    BY AnsweredDoes
  <1>3. reordered' = reordered /\ cancelled' = cancelled
    BY <1>1 DEF Taking, Own, history
  <1>4. ASSUME ~reordered, c \notin cancelled PROVE out[k].of = client[c].req
    <2>1. client[c].ch \in Private \/ client[c].ch = Stale
      <3>1. client[c].ch \in Ids \union {Stale}
        BY DEF Typed, ClientStates
      <3> QED
        BY <1>1, <3>1 DEF NoneForgotten, Private
    <2>2. CASE client[c].ch \in Private
      <3>1. FlowOf(c, client[c].ch)
        BY <1>4, <2>2 DEF Flow
      <3>2. Replied(c, client[c].ch)
        BY <1>1, <1>2, <3>1 DEF FlowOf, Whole, Worked, NothingRead
      <3> QED
        BY <1>2, <3>2 DEF Replied
    <2>3. CASE client[c].ch = Stale
      BY <1>1, <1>2, <1>4, <2>3 DEF StaleFlow, StaleOut, Final
    <2> QED
      BY <2>1, <2>2, <2>3
  <1> QED
    BY <1>2, <1>3, <1>4 DEF AnswersOwnRequest

LEMMA NextAnswers ==
  ASSUME Typed, NoneForgotten, Ownership, Flow, StaleFlow, AnswersOwnRequest, [Next]_vars
  PROVE  AnswersOwnRequest'
  <1>1. ASSUME answers' = answers, cancelled \subseteq cancelled', reordered => reordered' PROVE AnswersOwnRequest'
    BY <1>1 DEF AnswersOwnRequest
  <1>2. CASE ClientStep
    <2>1. reordered' = reordered /\ cancelled \subseteq cancelled'
      BY <1>2, ClientKeeps
    <2>2. (\E c \in Clients : Answered(c)) \/ answers' = answers
      <3>1. PICK c \in Clients :
              \/ Open(c) \/ Opened(c) \/ Continue(c) \/ Cancel(c) \/ Answered(c)
              \/ \E more \in BOOLEAN, cmd \in {"cbor", "plain", "empty"} : Request(c, more, cmd)
        BY <1>2 DEF ClientStep
      <3>2. CASE Open(c) \/ Opened(c) \/ Continue(c) \/ Cancel(c)
        BY <3>2 DEF Open, Opened, Continue, Cancel
      <3>3. ASSUME NEW more \in BOOLEAN, NEW cmd \in {"cbor", "plain", "empty"}, Request(c, more, cmd) PROVE answers' = answers
        BY <3>3 DEF Request
      <3> QED
        BY <3>1, <3>2, <3>3
    <2> QED
      BY <1>1, <2>1, <2>2, AnsweredOwn
  <1>3. ASSUME NEW p \in packets, Handle(p) PROVE AnswersOwnRequest'
    BY <1>1, <1>3, HandleDoes DEF Handling
  <1>4. CASE Idle
    BY <1>1, <1>4 DEF Idle
  <1> QED
    BY <1>1, <1>2, <1>3, <1>4, Steps, WorkKeeps, TickKeeps

-----------------------------------------------------------------------------
(* The theorems. *)

\* The inductive invariant holds at the start (Init).
LEMMA InitIInv == Init => IInv
  BY InitTyped, InitLive, InitOwners, InitNumbered, InitCounted, InitLocked, InitOnce, InitMute, InitForgotten,
     InitOwnership, InitInOrder, InitFlow DEF IInv

\* Every step of the clients, of the goroutines of their packets and of the
\* keepalives keeps it (Next).
LEMMA NextIInv == IInv /\ [Next]_vars => IInv'
  <1> SUFFICES ASSUME IInv, [Next]_vars PROVE IInv'
    OBVIOUS
  <1>1. Typed' /\ LiveOK' /\ OwnersOK' /\ Mute'
    BY NextTyped, NextLive, NextOwners, NextMute DEF IInv
  <1>2. Numbered' /\ Counted' /\ Locked' /\ Once'
    BY NextNumbered, NextCounted, NextLocked, NextOnce DEF IInv
  <1>3. NoneForgotten' /\ Ownership'
    BY NextForgotten, NextOwnership DEF IInv
  <1>4. InOrder' /\ HandedAsSent'
    BY NextInOrder, NextHanded DEF IInv
  <1>5. Flow' /\ StaleFlow' /\ AnswersOwnRequest'
    BY NextFlow, NextStale, NextAnswers DEF IInv
  <1> QED
    BY <1>1, <1>2, <1>3, <1>4, <1>5 DEF IInv

\* The inductive invariant holds throughout, for any clients and any bounds:
\* where each packet, message and goroutine of HandleMessage can be.
THEOREM Invariance == Spec => []IInv
  BY InitIInv, NextIInv, PTL DEF Spec

\* Type correctness (TypeOK) of the channels, their transactions and the
\* messages in work (ctap_hid.go, channel.go), for any clients and any bounds.
THEOREM TypeCorrect == Spec => []TypeOK
  <1>1. IInv => TypeOK
    <2> SUFFICES ASSUME IInv PROVE TypeOK
      OBVIOUS
    <2>1. Typed /\ LiveOK /\ OwnersOK /\ empty \subseteq 1 .. requests
      BY DEF IInv, Mute
    <2>2. \A p \in packets : p.ch \in Ids \union {Stale} /\ p.req \in 1 .. requests
      <3> SUFFICES ASSUME NEW p \in packets PROVE p.ch \in Ids \union {Stale} /\ p.req \in 1 .. requests
        OBVIOUS
      <3>1. p \in Live /\ p \in Packets /\ requests \in Nat
        BY <2>1 DEF Live, Typed
      <3> QED
        BY <2>1, <3>1, Bounds DEF LiveOK, Packets, Requests
    <2>3. \A ch \in Ids : ch \notin channels => owner[ch] = Free
      BY <2>1 DEF OwnersOK, OwnerOK
    <2>4. \A ch \in Ids : owner[ch].message \in Messages
      BY <2>1 DEF Typed, Owners
    <2> QED
      BY <2>1, <2>2, <2>3, <2>4 DEF TypeOK, Typed, ClientStates
  <1> QED
    BY Invariance, <1>1, PTL

LEMMA OutDomain == Typed => DOMAIN out = 1 .. Len(out)
  BY LenProperties DEF Typed

\* Two clients never get the same channel (ChannelsUnshared): newChannel gives
\* an id out once, whatever packets overtake each other.
THEOREM ChannelsUnsharedHolds == Spec => []ChannelsUnshared
  <1>1. IInv => ChannelsUnshared
    BY OutDomain DEF IInv, Numbered, ChannelsUnshared
  <1> QED
    BY Invariance, <1>1, PTL

\* The packets of a response are sent one after the other (Contiguous):
\* sendResponse holds responsesLock for all of them.
THEOREM ContiguousHolds == Spec => []Contiguous
  <1>1. IInv => Contiguous
    BY OutDomain DEF IInv, Locked, Contiguous
  <1> QED
    BY Invariance, <1>1, PTL

\* At most one keepalive of a request follows its response (OneLateKeepalive):
\* StartRecurringFunction takes a stop before it waits for the next trigger.
THEOREM OneLateKeepaliveHolds == Spec => []OneLateKeepalive
  <1>1. IInv => OneLateKeepalive
    BY DEF IInv, Once, OneLateKeepalive
  <1> QED
    BY Invariance, <1>1, PTL

\* As long as packets are handled in order, a command gets a request as one
\* client has sent it (HandedAsSent), CANCELs or not.
THEOREM HandedAsSentHolds == Spec => []HandedAsSent
  <1>1. IInv => HandedAsSent
    BY DEF IInv
  <1> QED
    BY Invariance, <1>1, PTL

\* As long as packets are handled in order, a client that never cancels takes
\* only the answer to its own request for it (AnswersOwnRequest).
THEOREM AnswersOwnRequestHolds == Spec => []AnswersOwnRequest
  <1>1. IInv => AnswersOwnRequest
    BY DEF IInv
  <1> QED
    BY Invariance, <1>1, PTL

\* When all packets are handled and no goroutine holds a messageLock, a client
\* that waits has something to read (NobodyForgotten), in order or not, unless
\* it waits for the echo of an empty PING.
THEOREM NobodyForgottenHolds == Spec => []NobodyForgotten
  <1>1. IInv => NobodyForgotten
    <2> SUFFICES ASSUME IInv, packets = {}, \A ch \in Ids : owner[ch] = Free,
                        NEW c \in Clients, client[c].at = "waiting", client[c].req \notin empty
                 PROVE  \E k \in DOMAIN out : Final(c, k)
      BY DEF NobodyForgotten
    <2>1. Unforgotten(c) /\ DOMAIN out = 1 .. Len(out)
      BY OutDomain DEF IInv, NoneForgotten
    <2> QED
      BY <2>1 DEF Unforgotten
  <1> QED
    BY Invariance, <1>1, PTL

-----------------------------------------------------------------------------
(* What the refinement needs besides. *)

LEMMA InitServed == Init => Served
  <1> SUFFICES ASSUME Init PROVE Served
    OBVIOUS
  <1>1. \A ch \in Ids : transaction[ch] = <<>> /\ owner[ch].message.kind = "none"
    BY Early DEF Init
  <1>2. Live = {} /\ Len(out) = 0 /\ packets = {} /\ answers = {}
    BY <1>1, EmptySeq DEF Init, Live, Gathered
  <1>3. \A c \in Clients : client[c].at # "continuing"
    <2>1. PICK stale \in Clients \union {Nobody} :
            client = [c \in Clients |-> IF c = stale THEN Client("ready", Stale) ELSE Client("start", Broadcast)]
      BY DEF Init
    <2> QED
      BY <2>1 DEF Client
  <1>4. \A k \in 1 .. Len(out) : FALSE
    BY <1>2
  <1>5. OneReply
    BY <1>1, <1>4 DEF OneReply
  <1>6. ReadOnce /\ Ordered
    BY <1>2 DEF ReadOnce, Ordered
  <1>7. Preceded
    BY <1>1, <1>2, <1>3 DEF Preceded
  <1> QED
    BY <1>5, <1>6, <1>7 DEF Served

LEMMA OutParts == Typed => \A k \in 1 .. Len(out) : out[k] \in Parts /\ out[k].of \in Requests
  <1> SUFFICES ASSUME Typed, NEW k \in 1 .. Len(out) PROVE out[k] \in Parts /\ out[k].of \in Requests
    OBVIOUS
  <1>1. out[k] \in Parts
    BY ElementOfSeq DEF Typed
  <1> QED
    BY <1>1 DEF Parts

LEMMA OneReplyKept ==
  ASSUME Typed, OneReply,
         \A r \in Requests : ticker[r].stop => ticker'[r].stop,
         \A ch \in Ids : owner'[ch].message.kind = "reply" =>
           owner[ch].message.kind = "reply" /\ owner'[ch].message.of = owner[ch].message.of,
         out' = out \/ \E e \in Parts : out' = Append(out, e) /\ (e.kind = "reply" => ~e.last /\ ticker[e.of].stop)
  PROVE  OneReply'
  <1>1. \A k \in 1 .. Len(out') : out'[k].kind = "reply" =>
          \/ k \in 1 .. Len(out) /\ out'[k] = out[k] /\ out[k].of \in Requests
          \/ ~out'[k].last /\ ticker'[out'[k].of].stop
    <2>1. CASE out' = out
      BY <2>1, OutParts
    <2>2. ASSUME NEW e \in Parts, out' = Append(out, e), e.kind = "reply" => ~e.last /\ ticker[e.of].stop
          PROVE  \A k \in 1 .. Len(out') : out'[k].kind = "reply" =>
                   \/ k \in 1 .. Len(out) /\ out'[k] = out[k] /\ out[k].of \in Requests
                   \/ ~out'[k].last /\ ticker'[out'[k].of].stop
      <3>1. e.of \in Requests
        BY DEF Parts
      <3> QED
        BY <2>2, <3>1, OutGrows, OutParts
    <2> QED
      BY <2>1, <2>2
  <1> QED
    BY <1>1 DEF OneReply

LEMMA HandleOneReply ==
  ASSUME Typed, LiveOK, OwnersOK, Once, OneReply, NEW p, Handle(p)
  PROVE  OneReply'
  <1>1. CASE UnknownChannel(p)
    BY <1>1, UnknownDoes, OneReplyKept
  <1>2. CASE Gather(p) \/ Drop(p)
    BY <1>2, OneReplyKept DEF Gather, Drop
  <1>3. CASE Reject(p)
    <2>1. PICK o \in Owners : owner' = [owner EXCEPT ![p.ch] = o] /\ o.message.kind = "error"
      BY <1>3, RejectDoes
    <2>2. \A ch \in Ids : owner'[ch].message.kind = "reply" => owner'[ch] = owner[ch]
      BY <2>1 DEF Typed
    <2> QED
      BY <1>3, <2>2, RejectDoes, OneReplyKept
  <1>4. CASE Complete(p)
    <2> DEFINE req == Head1(p).req
    <2>1. req \in Requests /\ ticker[req] = Quiet /\ Head1(p) \in Live /\ Head1(p).kind = "first"
      BY <1>4, HeadGone DEF Once
    <2>2. \A ch \in Ids : owner[ch].message.kind = "reply" => owner[ch].message.of # req
      BY <2>1 DEF Once
    <2>3. \A k \in 1 .. Len(out) : out[k].kind = "reply" => out[k].of # req
      BY <2>1, Early DEF OneReply
    <2>4. PICK o \in Owners : owner' = [owner EXCEPT ![p.ch] = o] /\ o.message.of = req
      BY <1>4, CompleteDoes
    <2>5. \A ch \in Ids : owner'[ch] = IF ch = p.ch THEN o ELSE owner[ch]
      BY <2>4 DEF Typed
    <2>6. out' = out /\ \A r \in Requests : ticker'[r].stop = ticker[r].stop
      BY <1>4, CompleteDoes
    <2> HIDE DEF req
    <2>7. \A j \in 1 .. Len(out') : out'[j].kind = "reply" =>
            /\ ticker'[out'[j].of].stop
            /\ out'[j].last =>
                 /\ \A k \in 1 .. Len(out') : out'[k].kind = "reply" /\ out'[k].last /\ out'[k].of = out'[j].of => k = j
                 /\ \A ch \in Ids : owner'[ch].message.kind = "reply" => owner'[ch].message.of # out'[j].of
      BY <2>3, <2>4, <2>5, <2>6, OutParts DEF OneReply
    <2>8. \A ch, d \in Ids :
            owner'[ch].message.kind = "reply" /\ owner'[d].message.kind = "reply"
              /\ owner'[ch].message.of = owner'[d].message.of => ch = d
      BY <2>2, <2>4, <2>5 DEF OneReply
    <2> QED
      BY <2>7, <2>8 DEF OneReply
  <1> QED
    BY <1>1, <1>2, <1>3, <1>4 DEF Handle

LEMMA WorkOneReply ==
  ASSUME Typed, LiveOK, OwnersOK, Counted, Numbered, Once, OneReply, NEW ch \in Ids, Work(ch)
  PROVE  OneReply'
  <1>1. OwnerOK(ch) /\ ticker \in [Requests -> Tickers] /\ owner \in [Ids -> Owners]
    BY DEF OwnersOK, Typed
  <1>2. CASE Allocate(ch)
    <2>1. PICK o \in Owners : Working(ch, o) /\ o.message.kind = "init"
      BY <1>2, AllocateDoes
    <2>2. UNCHANGED <<ticker, out>>
      BY <1>2, AllocateDoes
    <2>3. \A d \in Ids : owner'[d].message.kind = "reply" => owner'[d] = owner[d]
      BY <1>1, <2>1 DEF Working
    <2> QED
      BY <2>2, <2>3, OneReplyKept
  <1>3. CASE Store(ch)
    <2>1. PICK o \in Owners : Working(ch, o) /\ o.message = owner[ch].message
      BY <1>3, StoreDoes
    <2>2. UNCHANGED <<ticker, out>>
      BY <1>3, StoreDoes
    <2>3. \A d \in Ids : owner'[d].message = owner[d].message
      BY <1>1, <2>1 DEF Working
    <2> QED
      BY <2>2, <2>3, OneReplyKept
  <1>4. ASSUME NEW parts \in {1, 2}, Return(ch, parts) PROVE OneReply'
    <2> DEFINE of == owner[ch].message.of
    <2>1. PICK o \in Owners : Working(ch, o) /\ o.message.of = of
      BY <1>4, ReturnSends
    <2>2. /\ ch # Broadcast /\ owner[ch].at = "run" /\ of \in Requests /\ out' = out
          /\ ticker' = [ticker EXCEPT ![of].stop = TRUE]
      BY <1>4, ReturnDoes
    <2>3. owner[ch].message.kind = "reply"
      BY <1>1, <2>2 DEF OwnerOK
    <2>4. \A d \in Ids : owner'[d].message.kind = "reply" =>
            owner[d].message.kind = "reply" /\ owner'[d].message.of = owner[d].message.of
      BY <1>1, <2>1, <2>3 DEF Working
    <2> HIDE DEF of
    <2>5. \A r \in Requests : ticker'[r] = IF r = of THEN [ticker[of] EXCEPT !.stop = TRUE] ELSE ticker[r]
      BY <1>1, <2>2
    <2>6. [ticker[of] EXCEPT !.stop = TRUE].stop = TRUE
      BY <1>1, <2>2 DEF Tickers
    <2>7. \A r \in Requests : ticker[r].stop => ticker'[r].stop
      BY <2>5, <2>6
    <2> QED
      BY <2>2, <2>4, <2>7, OneReplyKept
  <1>5. ASSUME NEW part \in {1, 2}, Send(ch, part) PROVE OneReply'
    <2> DEFINE m == owner[ch].message
               flag == part = m.parts
               e == Part(m, part)
    <2>1. /\ owner[ch].at \in {"send", "sending"} /\ e \in Parts /\ out' = Append(out, e) /\ m.of \in Requests
          /\ ticker' = IF m.kind = "reply" THEN [ticker EXCEPT ![m.of].final = flag] ELSE ticker
      BY <1>5, SendDoes
    <2>11. \/ part = m.parts /\ Working(ch, Free)
           \/ part = 1 /\ m.parts = 2 /\ Working(ch, At("sending", m))
      BY <1>5, SendDoes
    <2>2. e.kind = m.kind /\ e.of = m.of /\ (e.last <=> flag)
      BY DEF Part
    <2>3. PICK o : Working(ch, o) /\ (flag => o = Free) /\ (~flag => o.message = m)
      BY <2>11 DEF At
    <2>4. \A d \in Ids : owner'[d] = IF d = ch THEN o ELSE owner[d]
      BY <1>1, <2>3 DEF Working
    <2>5. flag \in BOOLEAN
      OBVIOUS
    <2> HIDE DEF flag, e
    <2>6. \A r \in Requests : ticker[r].stop => ticker'[r].stop
      <3>1. CASE m.kind = "reply"
        <4>1. \A r \in Requests : ticker'[r] = IF r = m.of THEN [ticker[m.of] EXCEPT !.final = flag] ELSE ticker[r]
          BY <1>1, <2>1, <3>1
        <4>2. [ticker[m.of] EXCEPT !.final = flag].stop = ticker[m.of].stop
          BY <1>1, <2>1 DEF Tickers
        <4> QED
          BY <4>1, <4>2
      <3> QED
        BY <2>1, <3>1
    <2>7. \A d \in Ids : owner'[d].message.kind = "reply" =>
            owner[d].message.kind = "reply" /\ owner'[d].message.of = owner[d].message.of
      BY <2>3, <2>4, Early
    <2>8. m.kind = "reply" => ticker[m.of].stop
      BY <2>1 DEF Once
    <2>9. CASE m.kind # "reply" \/ ~flag
      BY <2>1, <2>2, <2>6, <2>7, <2>8, <2>9, OneReplyKept
    <2>10. CASE m.kind = "reply" /\ flag
      <3>1. \A k \in 1 .. Len(out) : out[k].kind = "reply" /\ out[k].last => out[k].of # m.of
        BY <2>10 DEF OneReply
      <3>2. \A d \in Ids : owner'[d].message.kind = "reply" => owner'[d] = owner[d] /\ d # ch /\ owner'[d].message.of # m.of
        BY <2>3, <2>4, <2>10, Early DEF OneReply
      <3>3. \A k \in 1 .. Len(out') :
              \/ k \in 1 .. Len(out) /\ out'[k] = out[k] /\ out[k].of \in Requests
              \/ k = Len(out) + 1 /\ out'[k] = e
        BY <2>1, OutGrows, OutParts
      <3>4. \A j \in 1 .. Len(out') : out'[j].kind = "reply" => ticker'[out'[j].of].stop
        BY <2>1, <2>2, <2>6, <2>8, <2>10, <3>3 DEF OneReply
      <3>5. \A j, k \in 1 .. Len(out') : out'[j].kind = "reply" /\ out'[j].last
                /\ out'[k].kind = "reply" /\ out'[k].last /\ out'[k].of = out'[j].of => k = j
        BY <2>2, <3>1, <3>3 DEF OneReply
      <3>6. \A j \in 1 .. Len(out'), d \in Ids : out'[j].kind = "reply" /\ out'[j].last
                /\ owner'[d].message.kind = "reply" => owner'[d].message.of # out'[j].of
        BY <2>2, <3>2, <3>3 DEF OneReply
      <3>7. \A c, d \in Ids :
              owner'[c].message.kind = "reply" /\ owner'[d].message.kind = "reply"
                /\ owner'[c].message.of = owner'[d].message.of => c = d
        BY <3>2 DEF OneReply
      <3> QED
        BY <3>4, <3>5, <3>6, <3>7 DEF OneReply
    <2> QED
      BY <2>5, <2>9, <2>10
  <1>6. CASE Echo(ch)
    <2>1. Working(ch, Free) /\ UNCHANGED <<ticker, out>>
      BY <1>6, EchoDoes
    <2>2. \A d \in Ids : owner'[d].message.kind = "reply" => owner'[d] = owner[d]
      BY <1>1, <2>1, Early DEF Working
    <2> QED
      BY <2>1, <2>2, OneReplyKept
  <1> QED
    BY <1>2, <1>3, <1>4, <1>5, <1>6 DEF Work

LEMMA TickOneReply ==
  ASSUME Typed, OneReply, NEW r \in Requests, Fire(r) \/ Tick(r)
  PROVE  OneReply'
  <1>1. owner' = owner
    BY TickKeeps
  <1>2. ASSUME NEW t, Ticking(r, t) PROVE \A s \in Requests : ticker[s].stop => ticker'[s].stop
    BY <1>2 DEF Ticking, Typed
  <1>3. CASE Fire(r)
    BY <1>1, <1>2, <1>3, FireDoes, OneReplyKept
  <1>4. CASE StopTicker(r)
    BY <1>1, <1>2, <1>4, StopTickerDoes, OneReplyKept
  <1>5. CASE Keepalive(r)
    <2>1. \E e \in Parts : out' = Append(out, e) /\ e.kind = "keepalive"
      BY <1>5, KeepaliveDoes
    <2>2. \A s \in Requests : ticker[s].stop => ticker'[s].stop
      BY <1>2, <1>5, KeepaliveDoes
    <2> QED
      BY <1>1, <2>1, <2>2, OneReplyKept
  <1> QED
    BY <1>3, <1>4, <1>5 DEF Tick

LEMMA NextOneReply ==
  ASSUME Typed, LiveOK, OwnersOK, Counted, Numbered, Once, OneReply, [Next]_vars
  PROVE  OneReply'
  <1>1. CASE ClientStep
    BY <1>1, ClientKeeps, OneReplyKept
  <1>2. CASE Idle
    BY <1>2, OneReplyKept DEF Idle
  <1> QED
    BY <1>1, <1>2, Steps, HandleOneReply, WorkOneReply, TickOneReply

LEMMA ReadOnceKept ==
  ASSUME Typed, ReadOnce, Grows, answers' = answers,
         \A c \in Clients : client[c].ch \in Private =>
           /\ client'[c].ch = client[c].ch
           /\ client'[c].at \in {"continuing", "waiting"} =>
                \/ client[c].at \in {"continuing", "waiting"} /\ client'[c].seen = client[c].seen
                \/ client'[c].seen = Len(out)
  PROVE  ReadOnce'
  <1> SUFFICES ASSUME NEW a \in answers, a.ch # Stale
               PROVE  /\ client'[a.client].ch = a.ch
                      /\ a.kind = "reply" =>
                           \E k \in 1 .. Len(out') :
                             /\ out'[k].kind = "reply" /\ out'[k].last /\ out'[k].of = a.of /\ out'[k].ch = a.ch
                             /\ client'[a.client].at \in {"continuing", "waiting"} => k <= client'[a.client].seen
    BY DEF ReadOnce
  <1>1. a.client \in Clients /\ a.ch \in Private /\ client[a.client].ch = a.ch
    BY DEF ReadOnce
  <1>2. ASSUME a.kind = "reply"
        PROVE  \E k \in 1 .. Len(out') :
                 /\ out'[k].kind = "reply" /\ out'[k].last /\ out'[k].of = a.of /\ out'[k].ch = a.ch
                 /\ client'[a.client].at \in {"continuing", "waiting"} => k <= client'[a.client].seen
    <2>1. PICK k \in 1 .. Len(out) :
            /\ out[k].kind = "reply" /\ out[k].last /\ out[k].of = a.of /\ out[k].ch = a.ch
            /\ client[a.client].at \in {"continuing", "waiting"} => k <= client[a.client].seen
      BY <1>2 DEF ReadOnce
    <2>2. k \in 1 .. Len(out') /\ out'[k] = out[k] /\ k <= Len(out)
      BY Grown
    <2> QED
      BY <1>1, <2>1, <2>2
  <1> QED
    BY <1>1, <1>2

LEMMA AnsweredOnce ==
  ASSUME Typed, NoneForgotten, Ownership, ReadOnce, NEW c \in Clients, Answered(c)
  PROVE  ReadOnce'
  <1>1. /\ Taking(c) /\ client[c].at = "waiting" /\ client'[c].ch = client[c].ch
        /\ client'[c].at \in {"start", "ready"}
    BY AnsweredDoes
  <1>2. PICK k \in 1 .. Len(out) :
          /\ Final(c, k)
          /\ answers' = answers \union {[client |-> c, ch |-> client[c].ch, req |-> client[c].req,
                                         kind |-> out[k].kind, of |-> out[k].of]}
    BY AnsweredDoes
  <1>3. \A d \in Clients : d # c => client'[d] = client[d]
    BY <1>1, OwnClients DEF Taking
  <1>4. out' = out
    BY <1>1 DEF Taking, Own
  <1>5. client[c].ch # Stale => client[c].ch \in Private
    BY <1>1 DEF Typed, ClientStates, NoneForgotten, Private
  <1>6. ASSUME NEW a \in answers, a.ch # Stale
        PROVE  /\ a.client \in Clients /\ a.ch \in Private /\ client'[a.client].ch = a.ch
               /\ a.kind = "reply" =>
                    \E j \in 1 .. Len(out') :
                      /\ out'[j].kind = "reply" /\ out'[j].last /\ out'[j].of = a.of /\ out'[j].ch = a.ch
                      /\ client'[a.client].at \in {"continuing", "waiting"} => j <= client'[a.client].seen
    <2>1. /\ a.client \in Clients /\ a.ch \in Private /\ client[a.client].ch = a.ch
          /\ a.kind = "reply" =>
               \E j \in 1 .. Len(out) :
                 /\ out[j].kind = "reply" /\ out[j].last /\ out[j].of = a.of /\ out[j].ch = a.ch
                 /\ client[a.client].at \in {"continuing", "waiting"} => j <= client[a.client].seen
      BY <1>6 DEF ReadOnce
    <2>2. CASE a.client = c
      BY <1>1, <1>4, <2>1, <2>2
    <2>3. CASE a.client # c
      BY <1>3, <1>4, <2>1, <2>3
    <2> QED
      BY <2>2, <2>3
  <1>7. client[c].ch # Stale =>
          /\ client[c].ch \in Private /\ client'[c].ch = client[c].ch
          /\ out[k].kind = "reply" =>
               \E j \in 1 .. Len(out') :
                 /\ out'[j].kind = "reply" /\ out'[j].last /\ out'[j].of = out[k].of /\ out'[j].ch = client[c].ch
                 /\ client'[c].at \in {"continuing", "waiting"} => j <= client'[c].seen
    BY <1>1, <1>2, <1>4, <1>5 DEF Final
  <1> QED
    BY <1>2, <1>6, <1>7 DEF ReadOnce

LEMMA ClientReadOnce ==
  ASSUME Typed, NoneForgotten, Ownership, ReadOnce, ClientStep
  PROVE  ReadOnce'
  <1>1. Grows
    BY ClientKeeps DEF Grows
  <1>2. ASSUME NEW c \in Clients, Own(c), answers' = answers,
               client[c].ch \in Private =>
                 /\ client'[c].ch = client[c].ch
                 /\ client'[c].at \in {"continuing", "waiting"} =>
                      \/ client[c].at \in {"continuing", "waiting"} /\ client'[c].seen = client[c].seen
                      \/ client'[c].seen = Len(out)
        PROVE  ReadOnce'
    <2>1. \A d \in Clients : d # c => client'[d] = client[d]
      BY <1>2, OwnClients
    <2> QED
      BY <1>1, <1>2, <2>1, ReadOnceKept
  <1>3. ASSUME NEW c \in Clients, Open(c) PROVE ReadOnce'
    <2>1. \E p : Asking(c, p)
      BY <1>3, OpenDoes
    <2>2. Own(c) /\ answers' = answers /\ client'[c].ch = client[c].ch
      BY <2>1 DEF Asking, Sending
    <2> QED
      BY <1>2, <1>3, <2>2, OpenDoes
  <1>4. ASSUME NEW c \in Clients, NEW more \in BOOLEAN, NEW cmd \in {"cbor", "plain", "empty"}, Request(c, more, cmd) PROVE ReadOnce'
    <2>1. (\E p : Asking(c, p)) /\ client'[c].seen = Len(out)
      BY <1>4, RequestDoes
    <2>2. Own(c) /\ answers' = answers /\ client'[c].ch = client[c].ch
      BY <2>1 DEF Asking, Sending
    <2> QED
      BY <1>2, <2>1, <2>2
  <1>5. ASSUME NEW c \in Clients, Continue(c) PROVE ReadOnce'
    <2>1. \E p : Sending(c, p)
      BY <1>5, ContinueDoes
    <2>2. Own(c) /\ client'[c].ch = client[c].ch
      BY <2>1 DEF Sending
    <2> QED
      BY <1>2, <1>5, <2>2, ContinueDoes
  <1>6. ASSUME NEW c \in Clients, Cancel(c) PROVE ReadOnce'
    <2>1. \E p : Sending(c, p)
      BY <1>6, CancelDoes
    <2>2. Own(c) /\ client'[c].ch = client[c].ch
      BY <2>1 DEF Sending
    <2> QED
      BY <1>2, <1>6, <2>2, CancelDoes
  <1>7. ASSUME NEW c \in Clients, Opened(c) PROVE ReadOnce'
    <2>1. Own(c) /\ answers' = answers /\ client[c].at = "opening"
      BY <1>7, OpenedDoes DEF Taking
    <2>2. client[c].ch \notin Private
      BY <2>1, Names DEF Ownership, Private
    <2> QED
      BY <1>2, <2>1, <2>2
  <1> QED
    BY <1>3, <1>4, <1>5, <1>6, <1>7, AnsweredOnce DEF ClientStep

LEMMA NextReadOnce ==
  ASSUME Typed, OwnersOK, NoneForgotten, Ownership, ReadOnce, [Next]_vars
  PROVE  ReadOnce'
  <1>1. ASSUME Grows, UNCHANGED <<client, answers>> PROVE ReadOnce'
    BY <1>1, ReadOnceKept
  <1>2. ASSUME NEW p \in packets, Handle(p) PROVE ReadOnce'
    BY <1>1, <1>2, HandleGrows, HandleDoes DEF Handling
  <1>3. ASSUME NEW ch \in Ids, Work(ch) PROVE ReadOnce'
    BY <1>1, <1>3, WorkGrows, WorkKeeps
  <1>4. ASSUME NEW r \in Requests, Fire(r) \/ Tick(r) PROVE ReadOnce'
    BY <1>1, <1>4, TickGrows, TickKeeps
  <1>5. CASE Idle
    BY <1>1, <1>5 DEF Idle, Grows
  <1> QED
    BY <1>2, <1>3, <1>4, <1>5, Steps, ClientReadOnce

-----------------------------------------------------------------------------
LEMMA SendingOrdered ==
  ASSUME Typed, LiveOK, Ordered, NEW c \in Clients, NEW p, Sending(c, p), p.kind = "first" => p.req = requests + 1
  PROVE  Ordered'
  <1>1. Live' = Live \union {p} /\ p.client = c /\ p.n = client[c].sent
    BY LiveSent DEF Sending, Own
  <1>2. \A q \in Live : q.n \in Nat /\ q.req \in Nat /\ q.req <= requests /\ q.n < client[q.client].sent
    BY OwnClients DEF Sending, LiveOK
  <1>3. requests \in Nat /\ client[c].sent \in Nat
    BY OwnClients DEF Sending
  <1> QED
    BY <1>1, <1>2, <1>3 DEF Ordered

LEMMA NextOrdered ==
  ASSUME Typed, LiveOK, Ordered, [Next]_vars
  PROVE  Ordered'
  <1>1. ASSUME Live' \subseteq Live PROVE Ordered'
    BY <1>1 DEF Ordered
  <1>2. CASE ClientStep
    <2>1. ASSUME NEW c \in Clients, NEW p, Asking(c, p) PROVE Ordered'
      BY <2>1, SendingOrdered DEF Asking
    <2>2. ASSUME NEW c \in Clients, NEW p, Sending(c, p), p.kind # "first" PROVE Ordered'
      BY <2>2, SendingOrdered
    <2>3. ASSUME NEW c \in Clients, Taking(c) PROVE Ordered'
      BY <1>1, <2>3, LiveSame DEF Taking, Own
    <2> QED
      BY <1>2, <2>1, <2>2, <2>3, OpenDoes, RequestDoes, ContinueDoes, CancelDoes, OpenedDoes, AnsweredDoes DEF ClientStep
  <1>3. ASSUME NEW p \in packets, Handle(p) PROVE Ordered'
    BY <1>1, <1>3, LiveHandled
  <1>4. ASSUME UNCHANGED <<packets, transaction>> PROVE Ordered'
    BY <1>1, <1>4, LiveSame
  <1> QED
    BY <1>2, <1>3, <1>4, Steps, WorkKeeps, TickKeeps DEF Idle

\* What comes, in order, takes no beginning away from another continuation.
LEMMA BeginningStays ==
  ASSUME Typed, LiveOK, Numbered, Ownership, InOrder, NEW p, Handle(p), ~reordered',
         NEW t \in Live, NEW c \in Clients, NEW n, Precedes(t, c, t.ch, n), t.ch \in Private,
         p.client = c => p.n # n
  PROVE  t \in Live'
  <1>1. p \in packets /\ packets' = packets \ {p} /\ p.ch \in Ids \union {Stale}
    BY HandleDoes DEF Handling, Typed, Packets
  <1>2. t.kind = "first" /\ t.more /\ t.client = c /\ n = t.n + 1 /\ client[c].ch = t.ch
    BY DEF Precedes, LiveOK
  <1>3. CASE UnknownChannel(p)
    <2>1. p # t
      BY <1>2, <1>3, PrivateOpen, UnknownDoes
    <2> QED
      BY <1>3, <2>1, LiveUnknown
  <1>4. CASE Gather(p)
    BY <1>4, LiveGather
  <1>5. CASE ~UnknownChannel(p) /\ ~Gather(p)
    <2>1. Locks(p) /\ transaction' = [transaction EXCEPT ![p.ch] = <<>>] /\ p.ch \in Ids
      BY <1>5, LocksDoes DEF Handle, Drop, Reject, Complete
    <2>2. CASE transaction[p.ch] # <<>>
      <3> DEFINE s == transaction[p.ch][1]
      <3>1. p.kind = "next" /\ p.n = s.n + 1 /\ s \in Live /\ s.ch = p.ch /\ p.ch \in Private
        BY <2>1, <2>2, OwnContinuation, GatheredOne DEF LiveOK, Live, Private
      <3>2. t # s
        <4>1. p.client \in Clients /\ client[p.client].ch = p.ch
          BY <1>1, <3>1 DEF Live, LiveOK, Typed, Packets
        <4>2. t = s => p.client = c
          BY <1>2, <3>1, <4>1 DEF Ownership, Private
        <4> QED
          BY <1>2, <3>1, <4>2
      <3>3. t # p /\ (t \in Gathered => t.ch # p.ch)
        BY <1>2, <3>1, <3>2, GatheredWhere
      <3> QED
        BY <1>1, <2>1, <3>3, LiveEmptied
    <2>3. CASE transaction[p.ch] = <<>>
      <3>1. t # p
        BY <1>2, <1>5, <2>1, <2>3, CompleteDoes, RejectDoes DEF Handle, Drop
      <3>2. t \in Gathered => t.ch # p.ch
        BY <2>3, GatheredWhere
      <3> QED
        BY <1>1, <2>1, <3>1, <3>2, LiveEmptied
    <2> QED
      BY <2>2, <2>3
  <1> QED
    BY <1>3, <1>4, <1>5

\* What comes, in order, is no continuation without a beginning.
LEMMA NothingRejected ==
  ASSUME Typed, LiveOK, Ownership, InOrder, Preceded, NEW p, Reject(p)
  PROVE  reordered'
  <1> SUFFICES ASSUME ~reordered' PROVE FALSE
    OBVIOUS
  <1>1. Handle(p) /\ p \in packets /\ p.ch \in Ids /\ p.ch \in Private
    BY LocksDoes, NoErrorOnBroadcast DEF Handle, Reject, Private
  <1>2. ~reordered /\ \A q \in packets : q.client = p.client => ~(q.n < p.n)
    BY <1>1, HandleDoes DEF Handling
  <1>3. transaction[p.ch] = <<>> /\ p.kind = "next"
    BY <1>1, RejectDoes, OwnContinuation
  <1>4. PICK t \in Live : Precedes(t, p.client, p.ch, p.n)
    BY <1>1, <1>2, <1>3 DEF Preceded
  <1>5. t \notin Gathered
    BY <1>3, <1>4, GatheredWhere DEF Precedes
  <1>6. t \in packets /\ t.n \in Nat
    BY <1>5, LivePackets DEF Live, Packets
  <1> QED
    BY <1>2, <1>4, <1>6 DEF Precedes

LEMMA HandlePreceded ==
  ASSUME Typed, LiveOK, Numbered, Ownership, InOrder, Preceded, NEW p, Handle(p)
  PROVE  Preceded'
  <1> SUFFICES ASSUME ~reordered' PROVE Preceded'
    BY DEF Preceded
  <1>1. client' = client /\ packets' = packets \ {p} /\ p \in packets /\ ~reordered
    BY HandleDoes DEF Handling
  <1>2. ASSUME NEW q \in packets', q.kind = "next", q.ch \in Private PROVE \E t \in Live' : Precedes(t, q.client, q.ch, q.n)
    <2>1. PICK t \in Live : Precedes(t, q.client, q.ch, q.n)
      BY <1>1, <1>2 DEF Preceded
    <2>2. p.client = q.client => p.n # q.n
      BY <1>1, <1>2 DEF LiveOK, Live
    <2>3. t.ch = q.ch /\ q.client \in Clients
      BY <1>1, <2>1 DEF Precedes, Typed, Packets
    <2> QED
      BY <1>2, <2>1, <2>2, <2>3, BeginningStays
  <1>3. ASSUME NEW c \in Clients, client[c].at = "continuing", client[c].ch \in Private
        PROVE  \E t \in Live' : Precedes(t, c, client[c].ch, client[c].sent)
    <2>1. PICK t \in Live : Precedes(t, c, client[c].ch, client[c].sent)
      BY <1>1, <1>3 DEF Preceded
    <2>2. p.client = c => p.n # client[c].sent
      <3>1. p \in Live /\ p \in Packets
        BY <1>1 DEF Live, Typed
      <3>2. p.n < client[p.client].sent /\ p.n \in Nat
        BY <3>1 DEF LiveOK, Packets
      <3> QED
        BY <3>2
    <2>3. t.ch = client[c].ch
      BY <2>1 DEF Precedes
    <2> QED
      BY <1>3, <2>1, <2>2, <2>3, BeginningStays
  <1>4. \A ch \in Ids : owner'[ch].message.kind # "error"
    <2>1. \A ch \in Ids : owner[ch].message.kind # "error"
      BY <1>1 DEF Preceded
    <2>2. CASE Complete(p)
      <3>1. PICK o \in Owners : owner' = [owner EXCEPT ![p.ch] = o] /\ o.message.kind \in {"init", "reply"}
        BY <2>2, CompleteDoes
      <3> QED
        BY <2>1, <3>1 DEF Typed
    <2>3. CASE UnknownChannel(p) \/ Gather(p) \/ Drop(p)
      BY <2>1, <2>3, UnknownDoes DEF Gather, Drop
    <2> QED
      BY <2>2, <2>3, NothingRejected DEF Handle
  <1> QED
    BY <1>1, <1>2, <1>3, <1>4 DEF Preceded

LEMMA ClientPreceded ==
  ASSUME Typed, LiveOK, Ownership, Preceded, ClientStep
  PROVE  Preceded'
  <1> SUFFICES ASSUME ~reordered' PROVE Preceded'
    BY DEF Preceded
  <1>1. ~reordered /\ owner' = owner
    BY ClientKeeps
  <1>2. ASSUME NEW c \in Clients, Own(c), Live \subseteq Live',
               \A q \in packets' : q.kind = "next" /\ q.ch \in Private => q \in packets \/ \E t \in Live' : Precedes(t, q.client, q.ch, q.n),
               client'[c].at = "continuing" /\ client'[c].ch \in Private => \E t \in Live' : Precedes(t, c, client'[c].ch, client'[c].sent)
        PROVE  Preceded'
    <2>1. \A d \in Clients : d # c => client'[d] = client[d]
      BY <1>2, OwnClients
    <2>2. \A q \in packets' : q.kind = "next" /\ q.ch \in Private => \E t \in Live' : Precedes(t, q.client, q.ch, q.n)
      BY <1>1, <1>2 DEF Preceded
    <2>3. \A d \in Clients : client'[d].at = "continuing" /\ client'[d].ch \in Private =>
            \E t \in Live' : Precedes(t, d, client'[d].ch, client'[d].sent)
      BY <1>1, <1>2, <2>1 DEF Preceded
    <2>4. \A ch \in Ids : owner'[ch].message.kind # "error"
      BY <1>1 DEF Preceded
    <2> QED
      BY <2>2, <2>3, <2>4 DEF Preceded
  <1>3. ASSUME NEW c \in Clients, NEW p, Asking(c, p),
               client'[c].at = "continuing" => p.more /\ p.ch = client[c].ch
        PROVE  Preceded'
    <2>1. /\ Own(c) /\ packets' = packets \union {p} /\ Live' = Live \union {p} /\ p.client = c /\ p.n = client[c].sent
          /\ client'[c].sent = client[c].sent + 1 /\ client'[c].ch = client[c].ch /\ p.kind = "first"
      BY <1>3, LiveSent DEF Asking, Sending, Own
    <2>2. client'[c].at = "continuing" => Precedes(p, c, client'[c].ch, client'[c].sent)
      BY <1>3, <2>1 DEF Precedes
    <2> QED
      BY <1>2, <2>1, <2>2
  <1>4. ASSUME NEW c \in Clients, Continue(c) PROVE Preceded'
    <2>1. PICK p : Sending(c, p) /\ p.ch = client[c].ch /\ p.kind = "next"
      BY <1>4, ContinueDoes
    <2>2. /\ Own(c) /\ packets' = packets \union {p} /\ Live' = Live \union {p} /\ p.client = c /\ p.n = client[c].sent
          /\ client'[c].at = "waiting"
      BY <1>4, <2>1, ContinueDoes, LiveSent DEF Sending, Own
    <2>3. p.ch \in Private => \E t \in Live : Precedes(t, p.client, p.ch, p.n)
      BY <1>1, <1>4, <2>1, <2>2, ContinueDoes DEF Preceded
    <2> QED
      BY <1>2, <2>2, <2>3
  <1>5. ASSUME NEW c \in Clients, Cancel(c) PROVE Preceded'
    <2>1. PICK p : Sending(c, p) /\ p.kind = "cancel"
      BY <1>5, CancelDoes
    <2>2. Own(c) /\ packets' = packets \union {p} /\ Live' = Live \union {p} /\ client'[c].at = "ready"
      BY <1>5, <2>1, CancelDoes, LiveSent DEF Sending, Own
    <2> QED
      BY <1>2, <2>1, <2>2
  <1>6. ASSUME NEW c \in Clients, Taking(c), client'[c].at # "continuing" PROVE Preceded'
    <2>1. Own(c) /\ packets' = packets /\ Live' = Live
      BY <1>6, LiveSame DEF Taking, Own
    <2> QED
      BY <1>2, <1>6, <2>1
  <1>7. ASSUME NEW c \in Clients, Open(c) PROVE Preceded'
    BY <1>3, <1>7, OpenDoes
  <1>8. ASSUME NEW c \in Clients, NEW more \in BOOLEAN, NEW cmd \in {"cbor", "plain", "empty"}, Request(c, more, cmd) PROVE Preceded'
    BY <1>3, <1>8, RequestDoes
  <1>9. ASSUME NEW c \in Clients, Opened(c) \/ Answered(c) PROVE Preceded'
    BY <1>6, <1>9, OpenedDoes, AnsweredDoes
  <1> QED
    BY <1>4, <1>5, <1>7, <1>8, <1>9 DEF ClientStep

LEMMA WorkPreceded ==
  ASSUME Typed, LiveOK, OwnersOK, Counted, Numbered, Preceded, NEW ch \in Ids, Work(ch)
  PROVE  Preceded'
  <1> SUFFICES ASSUME ~reordered' PROVE Preceded'
    BY DEF Preceded
  <1>1. UNCHANGED <<client, packets>> /\ Live' = Live /\ ~reordered
    BY WorkKeeps, LiveSame
  <1>2. \A d \in Ids : owner[d].message.kind # "error"
    BY <1>1 DEF Preceded
  <1>3. \E o : Working(ch, o) /\ o.message.kind # "error"
    <2>1. CASE Allocate(ch)
      BY <2>1, AllocateDoes
    <2>2. CASE Store(ch)
      BY <1>2, <2>2, StoreDoes
    <2>3. ASSUME NEW parts \in {1, 2}, Return(ch, parts) PROVE \E o : Working(ch, o) /\ o.message.kind # "error"
      <3>1. PICK o \in Owners : /\ Working(ch, o) /\ o.at = "send" /\ o.message.kind = "reply" /\ o.message.ch = ch
                                /\ o.message.of = owner[ch].message.of /\ o.message.parts \in {1, 2}
        BY <2>3, ReturnDoes
      <3> QED
        BY <3>1
    <2>4. ASSUME NEW part \in {1, 2}, Send(ch, part) PROVE \E o : Working(ch, o) /\ o.message.kind # "error"
      <3>1. Working(ch, Free) \/ Working(ch, At("sending", owner[ch].message))
        BY <2>4, SendDoes
      <3> QED
        BY <1>2, <3>1, Early DEF At
    <2>5. CASE Echo(ch)
      <3>1. Working(ch, Free)
        BY <2>5, EchoDoes
      <3> QED
        BY <3>1, Early
    <2> QED
      BY <2>1, <2>2, <2>3, <2>4, <2>5 DEF Work
  <1>4. \A d \in Ids : owner'[d].message.kind # "error"
    BY <1>2, <1>3 DEF Working, Typed
  <1> QED
    BY <1>1, <1>4 DEF Preceded

LEMMA NextPreceded ==
  ASSUME Typed, LiveOK, OwnersOK, Counted, Numbered, Ownership, InOrder, Preceded, [Next]_vars
  PROVE  Preceded'
  <1>1. ASSUME UNCHANGED <<client, packets, transaction, owner, reordered>> PROVE Preceded'
    BY <1>1, LiveSame DEF Preceded
  <1>2. ASSUME NEW r \in Requests, Fire(r) \/ Tick(r) PROVE Preceded'
    BY <1>1, <1>2, TickKeeps
  <1>3. CASE Idle
    BY <1>1, <1>3 DEF Idle
  <1> QED
    BY <1>2, <1>3, Steps, ClientPreceded, HandlePreceded, WorkPreceded

LEMMA NextServed == IInv /\ Served /\ [Next]_vars => Served'
  <1> SUFFICES ASSUME IInv, Served, [Next]_vars PROVE Served'
    OBVIOUS
  <1>1. OneReply' /\ ReadOnce'
    BY NextOneReply, NextReadOnce DEF IInv, Served
  <1>2. Ordered' /\ Preceded'
    BY NextOrdered, NextPreceded DEF IInv, Served
  <1> QED
    BY <1>1, <1>2 DEF Served

-----------------------------------------------------------------------------
(* CtapHid implements Exchange: what each step is there. *)

LEMMA ServiceChannels == Service!Channels = Ids /\ Service!Lobby = Broadcast
  BY DEF Service!Channels, Service!Lobby, Ids, Broadcast

\* What a packet to the host adds to the results.
Added(e, kind) == e.kind = kind /\ e.last /\ e.ch # Stale

LEMMA OutAdds ==
  ASSUME Typed, NEW e \in Parts, out' = Append(out, e)
  PROVE  /\ Grants' = IF e.kind = "init" THEN Grants \union {[of |-> e.of, id |-> e.id]} ELSE Grants
         /\ Results' = IF Added(e, "reply") THEN Results \union {[ch |-> e.ch, of |-> e.of]} ELSE Results
         /\ Refusals' = IF Added(e, "error") THEN Refusals \union {e.of} ELSE Refusals
  <1>1. out \in Seq(Parts) /\ out' \in Seq(Parts)
    BY Appending DEF Typed
  <1>2. DOMAIN out = 1 .. Len(out) /\ DOMAIN out' = 1 .. Len(out')
    BY <1>1, LenProperties
  <1>3. DOMAIN out' = DOMAIN out \union {Len(out) + 1} /\ \A k \in DOMAIN out : out'[k] = out[k]
    BY <1>2, OutGrows
  <1>4. out'[Len(out) + 1] = e
    BY OutGrows
  <1>5. Grants' = IF e.kind = "init" THEN Grants \union {[of |-> e.of, id |-> e.id]} ELSE Grants
    <2>1. {j \in DOMAIN out : out[j].kind = "init"}' =
            {j \in DOMAIN out : out[j].kind = "init"} \union (IF e.kind = "init" THEN {Len(out) + 1} ELSE {})
      BY <1>3, <1>4
    <2> QED
      BY <1>3, <1>4, <2>1 DEF Grants
  <1>6. \A kind : Ended(kind)' = Ended(kind) \union (IF Added(e, kind) THEN {Len(out) + 1} ELSE {})
    BY <1>3, <1>4 DEF Ended, Added
  <1>7. \A kind : \A k \in Ended(kind) : out'[k] = out[k]
    BY <1>3 DEF Ended
  <1>8. Results' = IF Added(e, "reply") THEN Results \union {[ch |-> e.ch, of |-> e.of]} ELSE Results
    BY <1>4, <1>6, <1>7 DEF Results
  <1>9. Refusals' = IF Added(e, "error") THEN Refusals \union {e.of} ELSE Refusals
    <2>1. Ended("error")' = Ended("error") \union (IF Added(e, "error") THEN {Len(out) + 1} ELSE {})
      BY <1>6
    <2>2. Refusals = {out[k].of : k \in Ended("error")} /\ Refusals' = {out'[k].of : k \in Ended("error")'}
      BY DEF Refusals
    <2>3. \A k \in Ended("error") : out'[k].of = out[k].of
      BY <1>7
    <2> QED
      BY <1>4, <2>1, <2>2, <2>3
  <1> QED
    BY <1>5, <1>8, <1>9

LEMMA OutSame == out' = out => Grants' = Grants /\ Results' = Results /\ Refusals' = Refusals
  BY DEF Grants, Results, Refusals, Ended

\* What is unchanged where a step leaves the state behind it alone.
LEMMA ClientsSame == client' = client => ClientChannel' = ClientChannel /\ Call' = Call
  BY DEF ClientChannel, Call, Awaits

LEMMA PendingSame == UNCHANGED <<packets, transaction>> => Pending' = Pending
  BY LiveSame DEF Pending

LEMMA RunningSame ==
  ASSUME \A ch \in Ids : \/ owner'[ch].message.kind = owner[ch].message.kind /\ owner'[ch].message.of = owner[ch].message.of
                         \/ {owner[ch].message.kind, owner'[ch].message.kind} \intersect {"init", "reply"} = {}
  PROVE  Running' = Running
  BY DEF Running

LEMMA AnswersSame == answers' = answers => ChannelAnswers' = ChannelAnswers
  BY DEF ChannelAnswers

\* A client sends a first packet, or another one.
LEMMA PendingSent ==
  ASSUME NEW p, packets' = packets \union {p}, transaction' = transaction
  PROVE  Pending' = IF p.kind = "first" /\ p.ch \in Ids THEN [Pending EXCEPT ![p.ch] = @ \union {p.req}] ELSE Pending
  <1>1. Live' = Live \union {p}
    BY LiveSent
  <1>2. \A ch \in Ids : Pending'[ch] = Pending[ch] \union (IF p.kind = "first" /\ p.ch = ch THEN {p.req} ELSE {})
    BY <1>1 DEF Pending
  <1>3. Pending = [ch \in Ids |-> Pending[ch]] /\ Pending' = [ch \in Ids |-> Pending'[ch]]
    BY DEF Pending
  <1>4. CASE p.kind = "first" /\ p.ch \in Ids
    <2> DEFINE f == [Pending EXCEPT ![p.ch] = @ \union {p.req}]
    <2>1. f = [ch \in Ids |-> f[ch]] /\ \A ch \in Ids : f[ch] = IF ch = p.ch THEN Pending[ch] \union {p.req} ELSE Pending[ch]
      BY <1>3, <1>4
    <2>2. \A ch \in Ids : f[ch] = Pending'[ch]
      BY <1>2, <1>4, <2>1
    <2> HIDE DEF f
    <2>3. f = Pending'
      BY <1>3, <2>1, <2>2
    <2> QED
      BY <1>4, <2>3 DEF f
  <1>5. CASE ~(p.kind = "first" /\ p.ch \in Ids)
    <2>1. \A ch \in Ids : Pending'[ch] = Pending[ch]
      BY <1>2, <1>5
    <2> QED
      BY <1>3, <1>5, <2>1
  <1> QED
    BY <1>4, <1>5

LEMMA InitExchange == Init => Service!Init
  <1> SUFFICES ASSUME Init PROVE Service!Init
    OBVIOUS
  <1>1. PICK stale \in Clients \union {Nobody} :
          client = [c \in Clients |-> IF c = stale THEN Client("ready", Stale) ELSE Client("start", Broadcast)]
    BY DEF Init
  <1>2. \A c \in Clients : client[c].ch \in {Stale, Broadcast} /\ client[c].at \in {"start", "ready"}
    BY <1>1 DEF Client
  <1>3. ClientChannel = [c \in Clients |-> Broadcast] /\ Call = [c \in Clients |-> 0]
    BY <1>2 DEF ClientChannel, Call, Awaits
  <1>4. \A ch \in Ids : transaction[ch] = <<>> /\ owner[ch].message.kind = "none"
    BY Early DEF Init
  <1>5. Live = {} /\ DOMAIN out = {}
    BY <1>4 DEF Init, Live, Gathered
  <1>6. Pending = [ch \in Ids |-> {}] /\ Running = [ch \in Ids |-> 0]
    BY <1>4, <1>5 DEF Pending, Running
  <1>7. Grants = {} /\ Results = {} /\ Refusals = {} /\ ChannelAnswers = {}
    BY <1>5 DEF Init, Grants, Results, Refusals, Ended, ChannelAnswers
  <1> QED
    BY <1>3, <1>6, <1>7, ServiceChannels DEF Service!Init, Init

\* How a step of one client looks.
LEMMA ClientSeen ==
  ASSUME Typed, NEW c \in Clients, Own(c)
  PROVE  /\ ClientChannel' = [ClientChannel EXCEPT ![c] = IF client'[c].ch = Stale THEN Broadcast ELSE client'[c].ch]
         /\ Call' = [Call EXCEPT ![c] = IF Awaits(c)' THEN client'[c].req ELSE 0]
         /\ UNCHANGED <<Running, Grants, Results, Refusals, reordered>>
  <1>1. \A d \in Clients : d # c => client'[d] = client[d]
    BY OwnClients
  <1>2. UNCHANGED <<owner, out, reordered>>
    BY DEF Own, history
  <1>3. ClientChannel' = [ClientChannel EXCEPT ![c] = IF client'[c].ch = Stale THEN Broadcast ELSE client'[c].ch]
    BY <1>1 DEF ClientChannel
  <1>4. Call' = [Call EXCEPT ![c] = IF Awaits(c)' THEN client'[c].req ELSE 0]
    BY <1>1 DEF Call, Awaits
  <1> QED
    BY <1>2, <1>3, <1>4, OutSame, RunningSame

\* It is the same client to the eye.
LEMMA ClientUnseen ==
  ASSUME Typed, NEW c \in Clients, Own(c),
         (IF client'[c].ch = Stale THEN Broadcast ELSE client'[c].ch) = ClientChannel[c],
         (IF Awaits(c)' THEN client'[c].req ELSE 0) = Call[c]
  PROVE  UNCHANGED <<ClientChannel, Call, Running, Grants, Results, Refusals, reordered>>
  <1>1. ClientChannel = [d \in Clients |-> ClientChannel[d]] /\ Call = [d \in Clients |-> Call[d]]
    BY DEF ClientChannel, Call
  <1>2. [ClientChannel EXCEPT ![c] = ClientChannel[c]] = ClientChannel /\ [Call EXCEPT ![c] = Call[c]] = Call
    BY <1>1
  <1> QED
    BY <1>2, ClientSeen

LEMMA Unseen ==
  UNCHANGED <<requests, ClientChannel, Call, Pending, Running, Grants, Results, Refusals, ChannelAnswers, empty, cancelled,
              reordered>>
    => UNCHANGED Service!vars
  BY DEF Service!vars

LEMMA ChannelKept ==
  ASSUME Typed, NEW c \in Clients, Own(c), client'[c].ch = client[c].ch
  PROVE  ClientChannel' = ClientChannel
  <1>1. \A d \in Clients : client'[d].ch = client[d].ch
    BY OwnClients
  <1> QED
    BY <1>1 DEF ClientChannel

\* A call is made with its first packet.
LEMMA Makes ==
  ASSUME Typed, NEW c \in Clients, NEW p, Asking(c, p), requests < MaxRequests,
         ~Awaits(c), Awaits(c)', p.ch = ClientChannel[c], p.ch \in Ids
  PROVE  Service!Next
  <1>1. /\ Own(c) /\ client'[c].ch = client[c].ch /\ client'[c].req = requests + 1 /\ requests' = requests + 1
        /\ packets' = packets \union {p} /\ transaction' = transaction /\ p.kind = "first" /\ p.req = requests + 1
        /\ empty' \in {empty, empty \union {requests + 1}}
        /\ UNCHANGED <<answers, cancelled>>
    BY DEF Asking, Sending, Own
  <1>2. ClientChannel' = ClientChannel
    BY <1>1, ChannelKept
  <1>3. Call' = [Call EXCEPT ![c] = requests + 1] /\ UNCHANGED <<Running, Grants, Results, Refusals, reordered>>
    BY <1>1, ClientSeen
  <1>4. Pending' = [Pending EXCEPT ![ClientChannel[c]] = @ \union {requests + 1}]
    BY <1>1, PendingSent
  <1>5. Call[c] = 0
    BY DEF Call
  <1>6. ChannelAnswers' = ChannelAnswers
    BY <1>1, AnswersSame
  <1>7. Service!Make(c)
    BY <1>1, <1>2, <1>3, <1>4, <1>5, <1>6 DEF Service!Make, Service!Asks
  <1> QED
    BY <1>7 DEF Service!Next

LEMMA OpenExchange ==
  ASSUME Typed, Ownership, NEW c \in Clients, Open(c)
  PROVE  Service!Next
  <1>1. PICK p : Asking(c, p) /\ p.ch = Broadcast
    BY OpenDoes
  <1>2. client[c].at = "start" /\ client'[c].at = "opening"
    BY OpenDoes
  <1>3. ~Awaits(c) /\ Awaits(c)' /\ ClientChannel[c] = Broadcast
    BY <1>2 DEF Awaits, ClientChannel, Ownership
  <1>4. requests < MaxRequests
    BY DEF Open
  <1> QED
    BY <1>1, <1>3, <1>4, Names, Makes

LEMMA RequestExchange ==
  ASSUME Typed, NEW c \in Clients, NEW more \in BOOLEAN, NEW cmd \in {"cbor", "plain", "empty"}, Request(c, more, cmd)
  PROVE  Service!Next
  <1>1. PICK p : Asking(c, p) /\ p.ch = client[c].ch
    BY RequestDoes
  <1>2. client[c].at = "ready" /\ client'[c].at \in {"continuing", "waiting"}
    BY RequestDoes
  <1>3. requests < MaxRequests /\ client[c].ch \in Ids \union {Stale}
    BY DEF Request, Typed, ClientStates
  <1>4. /\ Own(c) /\ client'[c].ch = client[c].ch /\ requests' = requests + 1
        /\ packets' = packets \union {p} /\ transaction' = transaction
        /\ empty' \in {empty, empty \union {requests + 1}}
        /\ UNCHANGED <<answers, cancelled>>
    BY <1>1 DEF Asking, Sending, Own
  <1>5. CASE client[c].ch # Stale
    <2>1. ~Awaits(c) /\ Awaits(c)' /\ ClientChannel[c] = client[c].ch
      BY <1>2, <1>4, <1>5 DEF Awaits, ClientChannel
    <2> QED
      BY <1>1, <1>3, <1>5, <2>1, Makes
  <1>6. CASE client[c].ch = Stale
    <2>1. ~Awaits(c) /\ ~Awaits(c)' /\ ClientChannel[c] = Broadcast /\ Call[c] = 0
      BY <1>2, <1>4, <1>6 DEF Awaits, ClientChannel, Call
    <2>2. UNCHANGED <<ClientChannel, Call, Running, Grants, Results, Refusals, reordered>>
      BY <1>4, <1>6, <2>1, ClientUnseen
    <2>3. Pending' = Pending
      BY <1>1, <1>4, <1>6, Names, PendingSent
    <2>4. ChannelAnswers' = ChannelAnswers
      BY <1>4, AnswersSame
    <2>5. Service!MakeElsewhere
      BY <1>3, <1>4, <2>2, <2>3, <2>4 DEF Service!MakeElsewhere, Service!Asks
    <2> QED
      BY <2>5 DEF Service!Next
  <1> QED
    BY <1>5, <1>6

LEMMA ContinueExchange ==
  ASSUME Typed, NEW c \in Clients, Continue(c)
  PROVE  UNCHANGED Service!vars
  <1>1. PICK p : Sending(c, p) /\ p.kind = "next"
    BY ContinueDoes
  <1>2. /\ Own(c) /\ client'[c].ch = client[c].ch /\ packets' = packets \union {p} /\ transaction' = transaction
        /\ client[c].at = "continuing" /\ client'[c].at = "waiting" /\ client'[c].req = client[c].req
        /\ UNCHANGED <<requests, empty, answers, cancelled>>
    BY <1>1, ContinueDoes DEF Sending, Own
  <1>3. (Awaits(c)' <=> Awaits(c)) /\ ClientChannel[c] = (IF client[c].ch = Stale THEN Broadcast ELSE client[c].ch)
    BY <1>2 DEF Awaits, ClientChannel
  <1>4. UNCHANGED <<ClientChannel, Call, Running, Grants, Results, Refusals, reordered>>
    BY <1>2, <1>3, ClientUnseen DEF Call
  <1>5. Pending' = Pending /\ ChannelAnswers' = ChannelAnswers
    BY <1>1, <1>2, PendingSent, AnswersSame
  <1> QED
    BY <1>2, <1>4, <1>5, Unseen

LEMMA CancelExchange ==
  ASSUME Typed, NEW c \in Clients, Cancel(c)
  PROVE  Service!Next
  <1>1. PICK p : Sending(c, p) /\ p.kind = "cancel"
    BY CancelDoes
  <1>2. /\ Own(c) /\ client'[c].ch = client[c].ch /\ packets' = packets \union {p} /\ transaction' = transaction
        /\ client'[c].at = "ready" /\ cancelled' = cancelled \union {c} /\ UNCHANGED <<requests, empty, answers>>
    BY <1>1, CancelDoes DEF Sending, Own
  <1>3. ClientChannel' = ClientChannel
    BY <1>2, ChannelKept
  <1>4. Call' = [Call EXCEPT ![c] = 0] /\ UNCHANGED <<Running, Grants, Results, Refusals, reordered>>
    BY <1>2, ClientSeen DEF Awaits
  <1>5. Pending' = Pending /\ ChannelAnswers' = ChannelAnswers
    BY <1>1, <1>2, PendingSent, AnswersSame
  <1>6. Service!GiveUp(c)
    BY <1>2, <1>3, <1>4, <1>5 DEF Service!GiveUp
  <1> QED
    BY <1>6 DEF Service!Next

LEMMA OpenedExchange ==
  ASSUME Typed, Ownership, NEW c \in Clients, Opened(c)
  PROVE  Service!Next
  <1>1. PICK k \in 1 .. Len(out) : out[k].kind = "init" /\ out[k].of = client[c].req /\ client'[c].ch = out[k].id
    BY OpenedDoes
  <1>2. /\ Own(c) /\ client[c].at = "opening" /\ client'[c].at = "ready"
        /\ UNCHANGED <<packets, transaction, requests, empty, answers, cancelled>>
    BY OpenedDoes DEF Taking, Own
  <1>3. out[k].id \in Ids
    BY OutParts DEF Parts
  <1>4. ClientChannel' = [ClientChannel EXCEPT ![c] = out[k].id] /\ Call' = [Call EXCEPT ![c] = 0]
        /\ UNCHANGED <<Running, Grants, Results, Refusals, reordered>>
    BY <1>1, <1>2, <1>3, Names, ClientSeen DEF Awaits
  <1>5. ClientChannel[c] = Broadcast /\ Call[c] = client[c].req
    BY <1>2 DEF ClientChannel, Call, Awaits, Ownership
  <1>6. [of |-> out[k].of, id |-> out[k].id] \in Grants
    BY <1>1, OutDomain DEF Grants
  <1>7. Pending' = Pending /\ ChannelAnswers' = ChannelAnswers
    BY <1>2, PendingSame, AnswersSame
  <1>8. Service!Join(c)
    BY <1>1, <1>2, <1>4, <1>5, <1>6, <1>7, ServiceChannels DEF Service!Join
  <1> QED
    BY <1>8 DEF Service!Next

LEMMA AnsweredExchange ==
  ASSUME IInv, Served, NEW c \in Clients, Answered(c)
  PROVE  [Service!Next]_(Service!vars)
  <1>0. Typed /\ NoneForgotten /\ Ownership /\ AnswersOwnRequest'
    BY AnsweredOwn DEF IInv
  <1>1. PICK k \in 1 .. Len(out) :
          /\ Final(c, k)
          /\ answers' = answers \union {[client |-> c, ch |-> client[c].ch, req |-> client[c].req,
                                         kind |-> out[k].kind, of |-> out[k].of]}
    BY <1>0, AnsweredDoes
  <1>2. /\ Own(c) /\ client[c].at = "waiting" /\ client'[c].at \in {"start", "ready"} /\ client'[c].ch = client[c].ch
        /\ UNCHANGED <<packets, transaction, requests, empty, cancelled>>
    BY <1>0, AnsweredDoes DEF Taking, Own
  <1>3. ClientChannel' = ClientChannel
    BY <1>0, <1>2, ChannelKept
  <1>4. Call' = [Call EXCEPT ![c] = 0] /\ UNCHANGED <<Running, Grants, Results, Refusals, reordered>>
    BY <1>0, <1>2, ClientSeen DEF Awaits
  <1>5. Pending' = Pending
    BY <1>2, PendingSame
  <1>6. CASE client[c].ch = Stale
    <2>1. Call' = Call
      <3>1. Call[c] = 0 /\ Call = [d \in Clients |-> Call[d]]
        BY <1>2, <1>6 DEF Call, Awaits
      <3> QED
        BY <1>4, <3>1
    <2>2. ChannelAnswers' = ChannelAnswers
      BY <1>1, <1>6 DEF ChannelAnswers
    <2> QED
      BY <1>2, <1>3, <1>4, <1>5, <2>1, <2>2, Unseen
  <1>7. CASE client[c].ch # Stale
    <2> DEFINE a == [client |-> c, ch |-> client[c].ch, req |-> client[c].req, kind |-> out[k].kind, of |-> out[k].of]
    <2>1. /\ k > client[c].seen /\ out[k].ch = client[c].ch /\ out[k].kind \in {"reply", "error"} /\ out[k].last
          /\ k \in DOMAIN out
      BY <1>0, <1>1, OutDomain DEF Final
    <2>2. client[c].req \in Requests /\ client[c].req <= requests /\ client[c].ch \in Private
      BY <1>0, <1>2, <1>7 DEF Typed, ClientStates, Ownership, NoneForgotten, Private
    <2>3. out[k].of \in Requests /\ out[k].of <= requests /\ requests \in Nat
      BY <1>0, OutParts DEF Ownership, Typed
    <2>4. /\ a.client = c /\ a.ch = client[c].ch /\ a.req = client[c].req /\ a.kind = out[k].kind /\ a.of = out[k].of
          /\ answers' = answers \union {a}
      BY <1>1
    <2>5. a \in Service!Answers
      BY <2>1, <2>2, <2>3, ServiceChannels DEF Service!Answers, Private, Requests
    <2> HIDE DEF a
    <2>6. ChannelAnswers' = ChannelAnswers \union {a}
      BY <1>7, <2>4 DEF ChannelAnswers
    <2>7. Call[c] = client[c].req /\ Call[c] # 0 /\ ClientChannel[c] = client[c].ch /\ ClientChannel[c] # Broadcast
      BY <1>2, <1>7, <2>2 DEF Call, Awaits, ClientChannel, Requests, Private
    <2>8. \/ /\ a.kind = "reply" /\ Service!Result(a.ch, a.of) \in Results
             /\ \A b \in ChannelAnswers : b.kind = "reply" => b.of # a.of
          \/ a.kind = "error" /\ a.of \in Refusals
      <3>1. CASE out[k].kind = "reply"
        <4>1. Service!Result(a.ch, a.of) \in Results
          BY <1>7, <2>1, <2>4, <3>1 DEF Service!Result, Results, Ended
        <4>2. ASSUME NEW b \in ChannelAnswers, b.kind = "reply" PROVE b.of # a.of
          <5>1. b \in answers /\ b.ch # Stale
            BY DEF ChannelAnswers
          <5>2. /\ b.client \in Clients /\ b.ch \in Private /\ client[b.client].ch = b.ch
                /\ \E j \in 1 .. Len(out) :
                     /\ out[j].kind = "reply" /\ out[j].last /\ out[j].of = b.of /\ out[j].ch = b.ch
                     /\ client[b.client].at \in {"continuing", "waiting"} => j <= client[b.client].seen
            BY <4>2, <5>1 DEF Served, ReadOnce
          <5>3. PICK j \in 1 .. Len(out) :
                  /\ out[j].kind = "reply" /\ out[j].last /\ out[j].of = b.of /\ out[j].ch = b.ch
                  /\ client[b.client].at \in {"continuing", "waiting"} => j <= client[b.client].seen
            BY <5>2
          <5>4. SUFFICES ASSUME b.of = a.of PROVE FALSE
            OBVIOUS
          <5>5. j = k
            BY <2>1, <2>4, <3>1, <5>3, <5>4 DEF Served, OneReply
          <5>6. b.client = c
            BY <1>0, <2>1, <2>2, <5>2, <5>3, <5>5 DEF Ownership, Private
          <5>7. client[c].seen \in Nat /\ Len(out) \in Nat
            BY <1>0, LenProperties DEF Typed, ClientStates
          <5> QED
            BY <1>2, <2>1, <5>3, <5>5, <5>6, <5>7
        <4> QED
          BY <2>4, <3>1, <4>1, <4>2
      <3>2. CASE out[k].kind = "error"
        <4>1. a.of \in Refusals
          BY <1>7, <2>1, <2>4, <3>2 DEF Refusals, Ended
        <4> QED
          BY <2>4, <3>2, <4>1
      <3> QED
        BY <2>1, <3>1, <3>2
    <2>9. c \notin cancelled /\ ~reordered => a.of = Call[c]
      BY <1>0, <1>2, <1>4, <2>4, <2>7 DEF AnswersOwnRequest
    <2>10. Service!Take(c, a)
      BY <1>2, <1>3, <1>4, <1>5, <2>4, <2>6, <2>7, <2>8, <2>9, ServiceChannels DEF Service!Take
    <2> QED
      BY <2>5, <2>10 DEF Service!Next
  <1> QED
    BY <1>6, <1>7

LEMMA ClientExchange ==
  ASSUME IInv, Served, ClientStep
  PROVE  [Service!Next]_(Service!vars)
  BY OpenExchange, RequestExchange, ContinueExchange, CancelExchange, OpenedExchange, AnsweredExchange DEF ClientStep, IInv

\* The requests of a channel are its packets' of which each begins one.
LEMMA PendingOn ==
  ASSUME NEW ch \in Ids
  PROVE  Pending[ch] = {q.req : q \in {x \in On(ch) : x.kind = "first"}}
  <1>1. {q \in Live : q.ch = ch /\ q.kind = "first"} = {x \in On(ch) : x.kind = "first"}
    BY DEF On
  <1> QED
    BY <1>1 DEF Pending

\* A goroutine goes on with another message.
LEMMA RunningSet ==
  ASSUME Typed, NEW ch \in Ids, NEW o, owner' = [owner EXCEPT ![ch] = o]
  PROVE  Running' = [Running EXCEPT ![ch] = IF o.message.kind \in {"init", "reply"} THEN o.message.of ELSE 0]
  <1> DEFINE of == IF o.message.kind \in {"init", "reply"} THEN o.message.of ELSE 0
             f == [Running EXCEPT ![ch] = of]
  <1>1. \A d \in Ids : owner'[d] = IF d = ch THEN o ELSE owner[d]
    BY DEF Typed
  <1>2. \A d \in Ids : Running'[d] = IF d = ch THEN of ELSE Running[d]
    BY <1>1 DEF Running
  <1> HIDE DEF of
  <1>3. Running = [d \in Ids |-> Running[d]] /\ Running' = [d \in Ids |-> Running'[d]]
    BY DEF Running
  <1>4. f = [d \in Ids |-> f[d]] /\ \A d \in Ids : f[d] = IF d = ch THEN of ELSE Running[d]
    BY <1>3
  <1>5. \A d \in Ids : f[d] = Running'[d]
    BY <1>2, <1>4
  <1> HIDE DEF f
  <1>6. f = Running'
    BY <1>3, <1>4, <1>5
  <1> QED
    BY <1>6 DEF f, of

\* A packet is handled, which runs nothing: nothing of it is seen if it was in
\* order, and otherwise it may take requests with it.
LEMMA Handled ==
  ASSUME IInv, NEW p, Handle(p), Running' = Running, UNCHANGED <<Grants, Results, Refusals>>,
         ~reordered' => Pending' = Pending, p.ch = Stale => Pending' = Pending
  PROVE  [Service!Next]_(Service!vars)
  <1>1. Typed /\ LiveOK /\ OwnersOK
    BY DEF IInv
  <1>0. Handling(p)
    BY HandleDoes
  <1>2. /\ UNCHANGED <<requests, ClientChannel, Call, ChannelAnswers, empty, cancelled>>
        /\ reordered \in BOOLEAN /\ reordered' \in BOOLEAN /\ (reordered => reordered')
        /\ p \in Live /\ p.ch \in Ids \union {Stale}
    <2>1. /\ UNCHANGED <<client, requests, empty, answers, cancelled>> /\ p \in packets
          /\ reordered' = (reordered \/ \E q \in packets : q.client = p.client /\ q.n < p.n)
      BY <1>0 DEF Handling
    <2>2. p \in Live /\ p.ch \in Ids \union {Stale}
      BY <1>1, <2>1 DEF Live, Typed, Packets
    <2>3. reordered \in BOOLEAN
      BY <1>1 DEF Typed
    <2> QED
      BY <2>1, <2>2, <2>3, ClientsSame, AnswersSame
  <1>3. CASE ~reordered'
    BY <1>2, <1>3, Unseen
  <1>4. CASE reordered' = TRUE
    <2> DEFINE ch == IF p.ch = Stale THEN Broadcast ELSE p.ch
               lost == Pending[ch] \ Pending'[ch]
    <2>1. ch \in Ids
      BY <1>2, Names
    <2>2. lost \in SUBSET (1 .. requests)
      <3>1. \A q \in Live : q.req \in 1 .. requests
        BY <1>1, RequestsKnown DEF Requests
      <3> QED
        BY <2>1, <3>1 DEF Pending
    <2>3. \A d \in Ids : Pending'[d] = IF d = ch THEN Pending[d] \ lost ELSE Pending[d]
      <3>1. Pending'[ch] \subseteq Pending[ch]
        BY <1>1, <2>1, LiveHandled DEF Pending
      <3>2. CASE p.ch = Stale
        BY <2>1, <3>2
      <3>3. CASE p.ch # Stale
        <4>1. \A d \in Ids : d # ch => On(d)' = On(d)
          BY <1>1, <3>3, LiveHandled
        <4>2. \A d \in Ids : Pending'[d] = {q.req : q \in {x \in On(d)' : x.kind = "first"}}
          BY DEF Pending, On
        <4>3. \A d \in Ids : d # ch => Pending'[d] = Pending[d]
          BY <4>1, <4>2, PendingOn
        <4> QED
          BY <2>1, <3>1, <4>3
      <3> QED
        BY <3>2, <3>3
    <2> HIDE DEF lost, ch
    <2>4. Pending' = [Pending EXCEPT ![ch] = @ \ lost]
      <3>1. Pending = [d \in Ids |-> Pending[d]] /\ Pending' = [d \in Ids |-> Pending'[d]]
        BY DEF Pending
      <3> DEFINE f == [Pending EXCEPT ![ch] = @ \ lost]
      <3>2. f = [d \in Ids |-> f[d]] /\ \A d \in Ids : f[d] = IF d = ch THEN Pending[d] \ lost ELSE Pending[d]
        BY <2>1, <3>1
      <3>3. \A d \in Ids : f[d] = Pending'[d]
        BY <2>3, <3>2
      <3> HIDE DEF f
      <3>4. f = Pending'
        BY <3>1, <3>2, <3>3
      <3> QED
        BY <3>4 DEF f
    <2>5. Service!Lose(ch, lost)
      BY <1>2, <1>4, <2>4 DEF Service!Lose
    <2> QED
      BY <2>1, <2>2, <2>5, ServiceChannels DEF Service!Next
  <1> QED
    BY <1>2, <1>3, <1>4

LEMMA UnknownExchange ==
  ASSUME IInv, NEW p, UnknownChannel(p)
  PROVE  [Service!Next]_(Service!vars)
  <1>1. Typed /\ LiveOK /\ Numbered /\ Ownership /\ Handle(p) /\ p \in Live /\ p \in Packets
    BY DEF IInv, Handle, UnknownChannel, Live, Typed
  <1>2. p.ch = Stale
    <2>1. p.ch # Broadcast
      BY <1>1, UnknownDoes DEF Typed
    <2>2. p.ch \notin Private
      <3>1. p.ch \in Private => client[p.client].ch = p.ch /\ p.client \in Clients
        BY <1>1 DEF LiveOK, Packets
      <3> QED
        BY <1>1, <3>1, PrivateOpen, UnknownDoes
    <2> QED
      BY <1>1, <2>1, <2>2 DEF Packets, Private
  <1>3. PICK e \in Parts : out' = Append(out, e) /\ e.kind = "error" /\ e.ch = p.ch
    BY <1>1, UnknownDoes
  <1>4. UNCHANGED <<Grants, Results, Refusals>>
    BY <1>1, <1>2, <1>3, OutAdds DEF Added
  <1>5. Running' = Running
    BY <1>1, UnknownDoes, RunningSame
  <1>6. Pending' = Pending
    <2>1. Live' = Live \ {p}
      BY <1>1, LiveUnknown
    <2>2. \A ch \in Ids : {q \in Live' : q.ch = ch /\ q.kind = "first"} = {q \in Live : q.ch = ch /\ q.kind = "first"}
      BY <1>2, <2>1, Names
    <2> QED
      BY <2>2 DEF Pending
  <1> QED
    BY <1>1, <1>4, <1>5, <1>6, Handled

LEMMA GatherExchange ==
  ASSUME IInv, NEW p, Gather(p)
  PROVE  [Service!Next]_(Service!vars)
  <1>1. Typed /\ LiveOK /\ Handle(p) /\ UNCHANGED <<owner, out>>
    BY DEF IInv, Handle, Gather
  <1>2. UNCHANGED <<Grants, Results, Refusals>> /\ Running' = Running
    BY <1>1, OutSame, RunningSame
  <1>3. Pending' = Pending
    BY <1>1, LiveGather DEF Pending
  <1> QED
    BY <1>1, <1>2, <1>3, Handled

\* A channel that gathers nothing loses no request by a packet that begins none.
LEMMA NothingLost ==
  ASSUME Typed, LiveOK, NEW p \in packets, p.ch \in Ids, packets' = packets \ {p},
         transaction' = [transaction EXCEPT ![p.ch] = <<>>], transaction[p.ch] = <<>>, p.kind # "first"
  PROVE  Pending' = Pending
  <1>1. Live' = {q \in Live : q # p /\ (q \in Gathered => q.ch # p.ch)}
    BY LiveEmptied
  <1>2. \A q \in Gathered : q.ch # p.ch
    BY GatheredWhere
  <1>3. \A ch \in Ids : {q \in Live' : q.ch = ch /\ q.kind = "first"} = {q \in Live : q.ch = ch /\ q.kind = "first"}
    BY <1>1, <1>2
  <1> QED
    BY <1>3 DEF Pending

LEMMA DropExchange ==
  ASSUME IInv, NEW p, Drop(p)
  PROVE  [Service!Next]_(Service!vars)
  <1>1. /\ Typed /\ LiveOK /\ Ownership /\ InOrder /\ Handle(p) /\ UNCHANGED <<owner, out>>
        /\ transaction' = [transaction EXCEPT ![p.ch] = <<>>] /\ p.kind = "cancel"
    BY DEF IInv, Handle, Drop
  <1>2. p \in packets /\ packets' = packets \ {p} /\ p.ch \in Ids
    BY <1>1, LocksDoes, HandleDoes DEF Drop, Handling
  <1>3. UNCHANGED <<Grants, Results, Refusals>> /\ Running' = Running
    BY <1>1, OutSame, RunningSame
  <1>4. ~reordered' => transaction[p.ch] = <<>>
    BY <1>1, <1>2, OwnContinuation
  <1>5. ~reordered' => Pending' = Pending
    BY <1>1, <1>2, <1>4, NothingLost
  <1> QED
    BY <1>1, <1>2, <1>3, <1>5, Names, Handled

LEMMA RejectExchange ==
  ASSUME IInv, Served, NEW p, Reject(p)
  PROVE  [Service!Next]_(Service!vars)
  <1>1. Typed /\ LiveOK /\ Ownership /\ InOrder /\ Preceded /\ Handle(p)
    BY DEF IInv, Served, Handle
  <1>2. p \in packets /\ p.ch \in Ids /\ owner[p.ch] = Free /\ out' = out
    BY <1>1, LocksDoes DEF Reject
  <1>3. PICK o \in Owners : owner' = [owner EXCEPT ![p.ch] = o] /\ o.message.kind = "error"
    BY <1>1, RejectDoes
  <1>4. Running' = Running
    BY <1>1, <1>2, <1>3, Early, RunningSame DEF Typed
  <1>5. UNCHANGED <<Grants, Results, Refusals>>
    BY <1>2, OutSame
  <1>6. reordered'
    BY <1>1, NothingRejected
  <1> QED
    BY <1>1, <1>2, <1>4, <1>5, <1>6, Names, Handled

\* A message is complete: its request runs.
LEMMA CompleteExchange ==
  ASSUME IInv, Served, NEW p, Complete(p)
  PROVE  Service!Next
  <1> DEFINE h == Head1(p)
             r == h.req
             ch == p.ch
  <1>1. /\ Typed /\ LiveOK /\ OwnersOK /\ Ownership /\ InOrder /\ Ordered /\ Handle(p) /\ p \in packets /\ ch \in Ids
        /\ owner[ch] = Free
    BY LocksDoes DEF IInv, Served, Handle, Complete
  <1>2. /\ packets' = packets \ {p} /\ transaction' = [transaction EXCEPT ![ch] = <<>>] /\ out' = out
        /\ \/ transaction[ch] = <<>> /\ p.kind = "first" /\ h = p
           \/ transaction[ch] # <<>> /\ p.kind = "next" /\ h = transaction[ch][1]
    BY <1>1, HandleDoes, CompleteDoes DEF Handling, Head1
  <1>3. h \in Live /\ h.kind = "first" /\ r \in Requests /\ \A q \in Live' : q.kind = "first" => q.req # r
    BY <1>1, HeadGone
  <1>4. h.ch = ch
    BY <1>1, <1>2 DEF LiveOK
  <1>5. r <= requests
    BY <1>1, <1>3 DEF LiveOK
  <1>6. PICK o \in Owners : owner' = [owner EXCEPT ![ch] = o] /\ o.message.of = r /\ o.message.kind \in {"init", "reply"}
    BY <1>1, CompleteDoes
  <1>7. \A t \in Gathered : t.ch = ch => t = h
    BY <1>1, <1>2, GatheredWhere
  <1>8. Live' = {q \in Live : q # p /\ (q \in Gathered => q.ch # ch)}
    BY <1>1, <1>2, LiveEmptied
  <1> HIDE DEF h, r, ch
  <1>9. Pending' = [Pending EXCEPT ![ch] = @ \ {r}]
    <2>1. \A q \in Live : q.kind = "first" /\ q # h => q \in Live'
      BY <1>2, <1>7, <1>8
    <2>2. h \notin Live' /\ Live' \subseteq Live
      BY <1>3, <1>8 DEF r
    <2>3. \A d \in Ids : {q \in Live' : q.ch = d /\ q.kind = "first"} = {q \in Live : q.ch = d /\ q.kind = "first"} \ {h}
      BY <2>1, <2>2
    <2>4. \A q \in Live : q.kind = "first" /\ q # h => q.req # r
      BY <1>1, <1>3 DEF LiveOK, r
    <2>5. \A d \in Ids : Pending'[d] = IF d = ch THEN Pending[d] \ {r} ELSE Pending[d]
      BY <1>3, <1>4, <2>3, <2>4 DEF Pending, r
    <2>6. Pending = [d \in Ids |-> Pending[d]] /\ Pending' = [d \in Ids |-> Pending'[d]]
      BY DEF Pending
    <2> DEFINE f == [Pending EXCEPT ![ch] = @ \ {r}]
    <2>7. f = [d \in Ids |-> f[d]] /\ \A d \in Ids : f[d] = IF d = ch THEN Pending[d] \ {r} ELSE Pending[d]
      BY <1>1, <2>6
    <2>8. \A d \in Ids : f[d] = Pending'[d]
      BY <2>5, <2>7
    <2> HIDE DEF f
    <2>9. f = Pending'
      BY <2>6, <2>7, <2>8
    <2> QED
      BY <2>9 DEF f
  <1>10. Running' = [Running EXCEPT ![ch] = r] /\ Running[ch] = 0
    <2>1. Running' = [Running EXCEPT ![ch] = IF o.message.kind \in {"init", "reply"} THEN o.message.of ELSE 0]
      BY <1>1, <1>6, RunningSet
    <2>2. Running[ch] = 0
      BY <1>1, Early DEF Running
    <2> QED
      BY <1>6, <2>1, <2>2
  <1>11. r \in Pending[ch]
    BY <1>1, <1>3, <1>4 DEF Pending, r
  <1>12. ~reordered' => Service!InTurn(ch, r)
    <2> SUFFICES ASSUME ~reordered', ch # Broadcast, NEW q \in Live, q.ch = ch, q.kind = "first" PROVE r <= q.req
      BY <1>1, ServiceChannels DEF Service!InTurn, Pending
    <2>1. ~reordered /\ \A x \in packets : x.client = p.client => ~(x.n < p.n)
      BY <1>1, HandleDoes DEF Handling
    <2>2. p \in Live /\ ch \in Private /\ p.ch = ch
      BY <1>1 DEF Live, Private, ch
    <2>3. \A x \in Live : x \in Packets /\ x.client \in Clients /\ x.n \in Nat /\ x.req \in Nat
      BY <1>1, LivePackets DEF Packets, Requests
    <2>4. q.client = p.client /\ h.client = p.client
      <3>1. \A x \in Live : x.ch = ch => client[x.client].ch = ch
        BY <1>1, <2>2 DEF LiveOK
      <3> QED
        BY <1>1, <1>3, <1>4, <2>2, <2>3, <3>1 DEF Ownership, Private
    <2>5. CASE q = h
      BY <1>3, <2>3, <2>5 DEF r
    <2>6. CASE q # h
      <3>1. q \in packets
        BY <1>7, <2>6 DEF Live
      <3>2. h.n < q.n
        <4>1. CASE h = p
          BY <1>1, <2>1, <2>2, <2>3, <2>4, <2>6, <3>1, <4>1 DEF LiveOK
        <4>2. CASE h # p
          <5>1. h \in Gathered
            BY <1>1, <1>2, <4>2, GatheredOne
          <5> QED
            BY <1>1, <2>1, <2>4, <3>1, <5>1 DEF InOrder
        <4> QED
          BY <4>1, <4>2
      <3>3. h.req < q.req
        BY <1>1, <1>3, <2>4, <3>2 DEF Ordered
      <3> QED
        BY <1>3, <2>3, <3>3 DEF r
    <2> QED
      BY <2>5, <2>6
  <1>13. /\ UNCHANGED <<requests, ClientChannel, Call, ChannelAnswers, empty, cancelled, Grants, Results, Refusals>>
         /\ reordered' \in {reordered, TRUE}
    <2>1. /\ UNCHANGED <<client, requests, empty, answers, cancelled>>
          /\ reordered \in BOOLEAN /\ reordered' \in BOOLEAN /\ (reordered => reordered')
      BY <1>1, HandleDoes DEF Handling, Typed
    <2> QED
      BY <1>2, <2>1, ClientsSame, AnswersSame, OutSame
  <1>14. Service!Begin(ch, r)
    BY <1>9, <1>10, <1>11, <1>12, <1>13 DEF Service!Begin
  <1>15. r \in 1 .. requests
    BY <1>3, <1>5 DEF Requests, r, IInv, Typed
  <1> QED
    BY <1>1, <1>14, <1>15, ServiceChannels DEF Service!Next

LEMMA HandleExchange ==
  ASSUME IInv, Served, NEW p, Handle(p)
  PROVE  [Service!Next]_(Service!vars)
  BY UnknownExchange, GatherExchange, DropExchange, RejectExchange, CompleteExchange DEF Handle

\* What a goroutine in messageLock leaves alone of what is seen.
LEMMA WorkingSeen ==
  ASSUME Typed, NEW ch, NEW o, Working(ch, o)
  PROVE  UNCHANGED <<requests, ClientChannel, Call, Pending, ChannelAnswers, empty, cancelled, reordered>>
  BY ClientsSame, PendingSame, AnswersSame DEF Working

\* The message stays the same in its kind and request, and nothing is seen.
LEMMA WorksUnseen ==
  ASSUME Typed, NEW ch \in Ids, NEW o, Working(ch, o), UNCHANGED <<Grants, Results, Refusals>>,
         \/ o.message.kind = owner[ch].message.kind /\ o.message.of = owner[ch].message.of
         \/ {owner[ch].message.kind, o.message.kind} \intersect {"init", "reply"} = {}
  PROVE  UNCHANGED Service!vars
  <1>1. \A d \in Ids : owner'[d] = IF d = ch THEN o ELSE owner[d]
    BY DEF Working, Typed
  <1>2. Running' = Running
    BY <1>1, RunningSame
  <1> QED
    BY <1>2, WorkingSeen, Unseen

\* The last packet of a response: a channel is open, a result out, or an error.
LEMMA SendsLast ==
  ASSUME IInv, Served, NEW ch \in Ids, owner[ch].at \in {"send", "sending"}, owner[ch].message.of \in Requests,
         Working(ch, Free), NEW e \in Parts, out' = Append(out, e), e.last, e.ch = owner[ch].message.ch,
         e.kind = owner[ch].message.kind, e.of = owner[ch].message.of, e.id = owner[ch].message.id
  PROVE  Service!Next
  <1> DEFINE m == owner[ch].message
  <1>1. Typed /\ OwnerOK(ch) /\ Mute /\ Numbered /\ Preceded
    BY DEF IInv, Served, OwnersOK
  <1>2. /\ m.ch = ch /\ m.of \in 1 .. requests /\ ch \in Ids /\ ch # Stale
        /\ ch = Broadcast => m.kind = "init" /\ owner[ch].at = "send"
        /\ ch # Broadcast => m.kind \in {"reply", "error"}
        /\ m.parts \in {1, 2}
    BY <1>1, Names DEF OwnerOK
  <1>3. UNCHANGED <<requests, ClientChannel, Call, Pending, ChannelAnswers, empty, cancelled, reordered>>
    BY <1>1, WorkingSeen
  <1>4. Running' = [Running EXCEPT ![ch] = 0]
    BY <1>1, Early, RunningSet DEF Working
  <1>5. Running = [d \in Ids |-> Running[d]] /\ Running[ch] = IF m.kind \in {"init", "reply"} THEN m.of ELSE 0
    BY DEF Running
  <1>6. m.of # 0 /\ (m.kind = "reply" => m.of \notin empty)
    BY <1>1, <1>2 DEF Requests, Mute
  <1> HIDE DEF m
  <1>7. e.kind = m.kind /\ e.of = m.of /\ e.id = m.id /\ e.ch = ch
    BY <1>2 DEF m
  <1>8. CASE ch = Broadcast
    <2>1. e.kind = "init"
      BY <1>2, <1>7, <1>8
    <2>2. Grants' = Grants \union {Service!Grant(m.of, m.id)} /\ Results' = Results /\ Refusals' = Refusals
      BY <1>1, <1>7, <2>1, OutAdds DEF Added, Service!Grant
    <2>3. m.id \in Ids \ {Broadcast} /\ \A k \in 1 .. Len(out) : out[k].kind = "init" => out[k].id # m.id
      <3>1. owner[Broadcast].at = "send" /\ m = owner[Broadcast].message
        BY <1>2, <1>8 DEF m
      <3>2. m.id \in channels \ {Broadcast} /\ \A k \in 1 .. Len(out) : out[k].kind = "init" => out[k].id # m.id
        BY <1>1, <3>1 DEF Numbered
      <3>3. channels \subseteq Ids
        BY <1>1, Bounds DEF Typed, Ids
      <3> QED
        BY <3>2, <3>3
    <2>4. \A g \in Grants : g.id # m.id
      BY <1>1, <2>3, OutDomain DEF Grants
    <2>5. Running[Broadcast] = m.of /\ Running' = [Running EXCEPT ![Broadcast] = 0]
      BY <1>4, <1>5, <1>7, <1>8, <2>1
    <2>6. Service!Open(m.id)
      BY <1>3, <1>6, <2>2, <2>3, <2>4, <2>5, ServiceChannels DEF Service!Open
    <2> QED
      BY <2>3, <2>6, ServiceChannels DEF Service!Next
  <1>9. CASE ch # Broadcast /\ m.kind = "reply"
    <2>1. Results' = Results \union {Service!Result(ch, m.of)} /\ Grants' = Grants /\ Refusals' = Refusals
      BY <1>1, <1>2, <1>7, <1>9, OutAdds DEF Added, Service!Result
    <2>2. Running[ch] = m.of
      BY <1>5, <1>9
    <2>3. Service!Return(ch)
      BY <1>3, <1>4, <1>6, <1>9, <2>1, <2>2, ServiceChannels DEF Service!Return
    <2> QED
      BY <2>3, ServiceChannels DEF Service!Next
  <1>10. CASE ch # Broadcast /\ m.kind = "error"
    <2>1. Refusals' = Refusals \union {m.of} /\ Grants' = Grants /\ Results' = Results
      BY <1>1, <1>2, <1>7, <1>10, OutAdds DEF Added
    <2>2. Running[ch] = 0
      BY <1>5, <1>10
    <2>3. Running' = Running
      BY <1>4, <1>5, <2>2
    <2>4. reordered
      BY <1>1, <1>10 DEF Preceded, m
    <2>5. Service!Refuse(ch, m.of)
      BY <1>3, <1>10, <2>1, <2>2, <2>3, <2>4, ServiceChannels DEF Service!Refuse
    <2> QED
      BY <1>2, <2>5, ServiceChannels DEF Service!Next
  <1> QED
    BY <1>2, <1>8, <1>9, <1>10

LEMMA WorkExchange ==
  ASSUME IInv, Served, NEW ch \in Ids, Work(ch)
  PROVE  [Service!Next]_(Service!vars)
  <1>1. Typed /\ OwnersOK /\ Counted /\ Numbered /\ OwnerOK(ch)
    BY DEF IInv, OwnersOK
  <1>2. CASE Allocate(ch)
    <2>1. PICK o \in Owners : Working(ch, o) /\ o.message.kind = "init" /\ o.message.of = owner[ch].message.of
      BY <1>1, <1>2, AllocateDoes
    <2>2. owner[ch].message.kind = "init" /\ out' = out
      BY <1>1, <1>2, AllocateDoes DEF OwnerOK
    <2> QED
      BY <1>1, <2>1, <2>2, OutSame, WorksUnseen
  <1>3. CASE Store(ch)
    <2>1. PICK o \in Owners : Working(ch, o) /\ o.message = owner[ch].message
      BY <1>1, <1>3, StoreDoes
    <2>2. out' = out
      BY <1>1, <1>3, StoreDoes
    <2> QED
      BY <1>1, <2>1, <2>2, OutSame, WorksUnseen
  <1>4. ASSUME NEW parts \in {1, 2}, Return(ch, parts) PROVE [Service!Next]_(Service!vars)
    <2>1. PICK o \in Owners : /\ Working(ch, o) /\ o.at = "send" /\ o.message.kind = "reply" /\ o.message.ch = ch
                              /\ o.message.of = owner[ch].message.of /\ o.message.parts \in {1, 2}
      BY <1>1, <1>4, ReturnDoes
    <2>2. owner[ch].message.kind = "reply" /\ out' = out
      BY <1>1, <1>4, ReturnDoes DEF OwnerOK
    <2> QED
      BY <1>1, <2>1, <2>2, OutSame, WorksUnseen
  <1>5. ASSUME NEW part \in {1, 2}, Send(ch, part) PROVE [Service!Next]_(Service!vars)
    <2> DEFINE m == owner[ch].message
               e == Part(m, part)
    <2>1. /\ owner[ch].at \in {"send", "sending"} /\ m.of \in Requests
          /\ e \in Parts /\ out' = Append(out, e)
      BY <1>1, <1>5, SendDoes
    <2>2. \/ part = m.parts /\ Working(ch, Free)
          \/ part = 1 /\ m.parts = 2 /\ Working(ch, At("sending", m))
      BY <1>1, <1>5, SendDoes
    <2>3. e.kind = m.kind /\ e.of = m.of /\ e.id = m.id /\ e.ch = m.ch /\ (e.last <=> part = m.parts)
      BY DEF Part
    <2> HIDE DEF e
    <2>4. CASE part = m.parts /\ Working(ch, Free)
      BY <2>1, <2>3, <2>4, SendsLast
    <2>5. CASE part = 1 /\ m.parts = 2 /\ Working(ch, At("sending", m))
      <3>1. m.kind # "init"
        BY <1>1, <2>1, <2>5 DEF OwnerOK
      <3>2. UNCHANGED <<Grants, Results, Refusals>>
        BY <1>1, <2>1, <2>3, <2>5, <3>1, OutAdds DEF Added
      <3>3. At("sending", m).message = m
        BY DEF At
      <3> QED
        BY <1>1, <2>5, <3>2, <3>3, WorksUnseen
    <2> QED
      BY <2>2, <2>4, <2>5
  <1>6. CASE Echo(ch)
    <2> DEFINE of == owner[ch].message.of
    <2>1. /\ ch # Broadcast /\ owner[ch].message.kind = "reply" /\ owner[ch].message.parts = 0
          /\ Working(ch, Free) /\ out' = out
      BY <1>1, <1>6, EchoDoes
    <2>2. of \in empty
      BY <2>1 DEF IInv, Mute
    <2>3. Running[ch] = of
      BY <2>1 DEF Running
    <2>4. Running' = [Running EXCEPT ![ch] = 0]
      BY <1>1, <2>1, Early, RunningSet DEF Working
    <2>5. UNCHANGED <<requests, ClientChannel, Call, Pending, ChannelAnswers, empty, cancelled, reordered>>
      BY <1>1, <2>1, WorkingSeen
    <2>6. UNCHANGED <<Grants, Results, Refusals>>
      BY <2>1, OutSame
    <2> HIDE DEF of
    <2>7. Service!Finish(ch)
      BY <2>1, <2>2, <2>3, <2>4, <2>5, <2>6, ServiceChannels DEF Service!Finish
    <2> QED
      BY <2>7, ServiceChannels DEF Service!Next
  <1> QED
    BY <1>2, <1>3, <1>4, <1>5, <1>6 DEF Work

LEMMA TickExchange ==
  ASSUME Typed, NEW r \in Requests, Fire(r) \/ Tick(r)
  PROVE  UNCHANGED Service!vars
  <1>1. UNCHANGED <<client, requests, empty, answers, cancelled, packets, transaction, owner, reordered>>
    BY TickKeeps
  <1>2. UNCHANGED <<Grants, Results, Refusals>>
    <2>1. CASE Keepalive(r)
      <3>1. PICK e \in Parts : out' = Append(out, e) /\ e.kind = "keepalive"
        BY <2>1, KeepaliveDoes
      <3> QED
        BY <3>1, OutAdds DEF Added
    <2>2. CASE ~Keepalive(r)
      BY <2>2, OutSame DEF Fire, Tick, StopTicker
    <2> QED
      BY <2>1, <2>2
  <1> QED
    BY <1>1, <1>2, ClientsSame, PendingSame, RunningSame, AnswersSame, Unseen

LEMMA IdleExchange == Idle => UNCHANGED Service!vars
  BY ClientsSame, PendingSame, RunningSame, AnswersSame, OutSame, Unseen DEF Idle

LEMMA NextExchange == IInv /\ Served /\ [Next]_vars => [Service!Next]_(Service!vars)
  <1> SUFFICES ASSUME IInv, Served, [Next]_vars PROVE [Service!Next]_(Service!vars)
    OBVIOUS
  <1>1. Typed
    BY DEF IInv
  <1> QED
    BY <1>1, Steps, ClientExchange, HandleExchange, WorkExchange, TickExchange, IdleExchange

\* Clients see requests, results and channels (ImplementsExchange): whatever
\* packets overtake each other, a request runs once at most, alone on its
\* channel, and a result answers one request of its channel's client; as long
\* as packets keep their order the requests of a client run in the order it
\* made them, and none gets an error or is lost.
THEOREM Refinement == Spec => ImplementsExchange
  <1>1. Init => IInv /\ Served /\ Service!Init
    BY InitIInv, InitServed, InitExchange
  <1>2. IInv /\ Served /\ [Next]_vars => IInv' /\ Served' /\ [Service!Next]_(Service!vars)
    BY NextIInv, NextServed, NextExchange
  <1> QED
    BY <1>1, <1>2, PTL DEF Spec, ImplementsExchange, Service!Spec
=============================================================================
