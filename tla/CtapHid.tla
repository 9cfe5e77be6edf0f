------------------------------ MODULE CtapHid ------------------------------
(***************************************************************************)
(* ctap_hid: how the packets of several clients become messages, messages  *)
(* become ceremonies, and their responses packets again.                   *)
(*                                                                         *)
(* USBDevice.HandleMessage starts a goroutine per OUT packet, so packets   *)
(* sent in order may be handled in any order.  A goroutine looks up its    *)
(* channel, takes the channel's messageLock, adds its packet to the        *)
(* transaction and, if that is complete, runs the command and sends the    *)
(* response, all under the lock.  While a CBOR command runs, a goroutine   *)
(* of its own (StartRecurringFunction) sends keepalives.  sendResponse     *)
(* holds responsesLock for all packets of a message.                       *)
(*                                                                         *)
(* External: the clients (browsers and the like), which open a channel with*)
(* an INIT, send a request of one or two packets, wait for its answer, or  *)
(* cancel it and go on.  A request is known by its number, which stands for*)
(* its payload (of an INIT: its nonce).  What a command does is left to    *)
(* CtapServer and VaultStore; here it ends some time, in a response of one *)
(* or two packets, or of none: createResponsePackets makes no packet of an *)
(* empty payload, which only an empty PING has.                            *)
(***************************************************************************)
EXTENDS Naturals, Sequences

CONSTANTS Clients,       \* the clients, one or more
          MaxRequests,   \* bound on the requests and INITs, over all clients
          MaxCancels,    \* bound on the CANCELs
          MaxKeepalives  \* bound on the keepalives

ASSUME CtapHidAssumption == {MaxRequests, MaxCancels, MaxKeepalives} \subseteq Nat

Broadcast == 0                    \* stands for 0xFFFFFFFF; ids start at 1
Ids       == 0 .. MaxRequests
Stale     == MaxRequests + 1      \* an id from before the bridge was restarted
Nobody    == MaxRequests + 2
Requests  == 1 .. MaxRequests

VARIABLES
  client,       \* what a client is doing
  packets,      \* packets whose goroutine has not got its channel yet
  maxChannelID,
  channels,     \* the ids in server.channels
  transaction,  \* per channel, the packets gathered so far
  owner,        \* per channel, what the goroutine in messageLock is about to do
  sender,       \* the channel whose response holds responsesLock, or Nobody
  ticker,       \* per request, its keepalive goroutine
  out,          \* every packet sent to the host, in order
  requests, cancels, keepalives,   \* what the bounds count
  empty,        \* the requests that are an empty PING
  crashed,      \* the runtime has found a concurrent read and write of the map
  handed,       \* messages handed to a command: the packets they are made of
  answers,      \* what clients have taken for the answer to their request
  cancelled,    \* clients that have sent a CANCEL
  reordered     \* a packet was handled before an older one of its client

vars == <<client, packets, maxChannelID, channels, transaction, owner, sender, ticker, out,
          requests, cancels, keepalives, empty, crashed, handed, answers, cancelled, reordered>>

host    == <<client, requests, cancels, empty, answers, cancelled>>
history == <<handed, reordered>>

\* A message to the host, about a request; id is the channel an INIT opened.
Message(kind, ch, of, id, parts) == [kind |-> kind, ch |-> ch, of |-> of, id |-> id, parts |-> parts]
NoMessage == Message("none", Broadcast, 0, 0, 0)
Part(m, part) == [kind |-> m.kind, ch |-> m.ch, of |-> m.of, id |-> m.id, last |-> part = m.parts]

Free == [at |-> "free", message |-> NoMessage]
At(point, m) == [at |-> point, message |-> m]
Quiet == [at |-> "off", ch |-> Broadcast, stop |-> FALSE, final |-> FALSE, late |-> 0]

\* One of the clients may still use a channel from before the restart.
Client(point, ch) == [at |-> point, ch |-> ch, req |-> 0, sent |-> 0, seen |-> 0]

Init ==
  /\ \E stale \in Clients \union {Nobody} :
       client = [c \in Clients |-> IF c = stale THEN Client("ready", Stale) ELSE Client("start", Broadcast)]
  /\ packets = {}
  /\ maxChannelID = 0
  /\ channels = {Broadcast}
  /\ transaction = [ch \in Ids |-> <<>>]
  /\ owner = [ch \in Ids |-> Free]
  /\ sender = Nobody
  /\ ticker = [r \in Requests |-> Quiet]
  /\ out = <<>>
  /\ requests = 0
  /\ cancels = 0
  /\ keepalives = 0
  /\ empty = {}
  /\ crashed = FALSE
  /\ handed = {}
  /\ answers = {}
  /\ cancelled = {}
  /\ reordered = FALSE

-----------------------------------------------------------------------------
(* The clients. *)

Packet(c, ch, kind, req, more, cmd) ==
  [client |-> c, n |-> client[c].sent, ch |-> ch, kind |-> kind, req |-> req, more |-> more, cmd |-> cmd]

Sends(c, p) == packets' = packets \union {p}

Open(c) ==
  /\ client[c].at = "start"
  /\ requests < MaxRequests
  /\ requests' = requests + 1
  /\ Sends(c, Packet(c, Broadcast, "first", requests + 1, FALSE, "init"))
  /\ client' = [client EXCEPT ![c].at = "opening", ![c].req = requests + 1, ![c].sent = @ + 1]
  /\ UNCHANGED <<maxChannelID, channels, transaction, owner, sender, ticker, out,
                 cancels, keepalives, empty, crashed, answers, cancelled, history>>

\* The INIT response carries the nonce and the new channel.
Opened(c) ==
  /\ client[c].at = "opening"
  /\ \E k \in DOMAIN out :
       /\ out[k].kind = "init" /\ out[k].of = client[c].req
       /\ client' = [client EXCEPT ![c].at = "ready", ![c].ch = out[k].id]
  /\ UNCHANGED <<packets, maxChannelID, channels, transaction, owner, sender, ticker, out,
                 requests, cancels, keepalives, empty, crashed, answers, cancelled, history>>

\* The first packet of a request: CBOR, or MSG and PING, which differ in that
\* no keepalives are sent.  An empty PING is one packet.
Request(c, more, cmd) ==
  /\ client[c].at = "ready"
  /\ requests < MaxRequests
  /\ cmd = "empty" => ~more
  /\ requests' = requests + 1
  /\ empty' = IF cmd = "empty" THEN empty \union {requests + 1} ELSE empty
  /\ Sends(c, Packet(c, client[c].ch, "first", requests + 1, more, cmd))
  /\ client' = [client EXCEPT ![c].at = IF more THEN "continuing" ELSE "waiting",
                              ![c].req = requests + 1, ![c].sent = @ + 1, ![c].seen = Len(out)]
  /\ UNCHANGED <<maxChannelID, channels, transaction, owner, sender, ticker, out,
                 cancels, keepalives, crashed, answers, cancelled, history>>

\* Its second and last packet, sequence number 0.
Continue(c) ==
  /\ client[c].at = "continuing"
  /\ Sends(c, Packet(c, client[c].ch, "next", client[c].req, FALSE, "none"))
  /\ client' = [client EXCEPT ![c].at = "waiting", ![c].sent = @ + 1]
  /\ UNCHANGED <<maxChannelID, channels, transaction, owner, sender, ticker, out,
                 requests, cancels, keepalives, empty, crashed, answers, cancelled, history>>

\* The user or a timeout of the client ends the request.
Cancel(c) ==
  /\ client[c].at = "waiting"
  /\ cancels < MaxCancels
  /\ cancels' = cancels + 1
  /\ Sends(c, Packet(c, client[c].ch, "cancel", client[c].req, FALSE, "none"))
  /\ client' = [client EXCEPT ![c].at = "ready", ![c].sent = @ + 1]
  /\ cancelled' = cancelled \union {c}
  /\ UNCHANGED <<maxChannelID, channels, transaction, owner, sender, ticker, out,
                 requests, keepalives, empty, crashed, answers, history>>

\* The next complete message on its channel that is no keepalive.
Final(c, k) ==
  /\ k > client[c].seen
  /\ out[k].ch = client[c].ch /\ out[k].kind \in {"reply", "error"} /\ out[k].last

Answered(c) ==
  /\ client[c].at = "waiting"
  /\ \E k \in DOMAIN out :
       /\ Final(c, k)
       /\ \A j \in 1 .. k - 1 : ~Final(c, j)
       /\ answers' = answers \union {[client |-> c, ch |-> client[c].ch, req |-> client[c].req,
                                      kind |-> out[k].kind, of |-> out[k].of]}
       /\ client' = [client EXCEPT ![c].at = IF client[c].ch = Stale THEN "start" ELSE "ready"]
  /\ UNCHANGED <<packets, maxChannelID, channels, transaction, owner, sender, ticker, out,
                 requests, cancels, keepalives, empty, crashed, cancelled, history>>

-----------------------------------------------------------------------------
(* HandleMessage: a packet comes to its channel.                           *)

Taken(p) ==
  /\ packets' = packets \ {p}
  /\ reordered' = (reordered \/ \E q \in packets : q.client = p.client /\ q.n < p.n)

\* An unknown channel: the error is sent without a messageLock.
UnknownChannel(p) ==
  /\ p \in packets
  /\ p.ch \notin channels
  /\ sender = Nobody
  /\ Taken(p)
  /\ out' = Append(out, Part(Message("error", p.ch, p.req, 0, 1), 1))
  /\ UNCHANGED <<host, maxChannelID, channels, transaction, owner, sender, ticker, keepalives, crashed, handed>>

\* Mutant: messageLock is not taken.
LocksNot(p) ==
  /\ p \in packets
  /\ p.ch \in channels
  /\ Taken(p)

Locks(p) ==
  /\ p \in packets
  /\ p.ch \in channels
  /\ owner[p.ch] = Free
  /\ Taken(p)

\* The packet belongs where it comes, and more are to follow.
Gather(p) ==
  /\ Locks(p)
  /\ transaction[p.ch] = <<>> /\ p.kind = "first" /\ p.more
  /\ transaction' = [transaction EXCEPT ![p.ch] = <<p>>]
  /\ UNCHANGED <<host, maxChannelID, channels, owner, sender, ticker, out, keepalives, crashed, handed>>

\* CANCEL ends the transaction that is being gathered, if any; no response.
Drop(p) ==
  /\ Locks(p)
  /\ p.kind = "cancel"
  /\ transaction' = [transaction EXCEPT ![p.ch] = <<>>]
  /\ UNCHANGED <<host, maxChannelID, channels, owner, sender, ticker, out, keepalives, crashed, handed>>

\* Mutant: the error is not sent.
RejectSilently(p) ==
  /\ Locks(p)
  /\ \/ transaction[p.ch] = <<>> /\ p.kind = "next"
     \/ transaction[p.ch] # <<>> /\ p.kind = "first"
  /\ transaction' = [transaction EXCEPT ![p.ch] = <<>>]
  /\ UNCHANGED <<host, maxChannelID, channels, owner, sender, ticker, out, keepalives, crashed, handed>>

\* A continuation without a beginning, or a beginning instead of a
\* continuation.
Reject(p) ==
  /\ Locks(p)
  /\ \/ transaction[p.ch] = <<>> /\ p.kind = "next"
     \/ transaction[p.ch] # <<>> /\ p.kind = "first"
  /\ transaction' = [transaction EXCEPT ![p.ch] = <<>>]
  /\ owner' = [owner EXCEPT ![p.ch] = At("send", Message("error", p.ch, p.req, 0, 1))]
  /\ UNCHANGED <<host, maxChannelID, channels, sender, ticker, out, keepalives, crashed, handed>>

\* What a complete message starts.
Start(p, req, cmd) ==
  IF p.ch = Broadcast
  THEN /\ owner' = [owner EXCEPT ![p.ch] = At("allocate", Message("init", p.ch, req, 0, 1))]
       /\ UNCHANGED ticker
  ELSE /\ owner' = [owner EXCEPT ![p.ch] = At("run", Message("reply", p.ch, req, 0, IF cmd = "empty" THEN 0 ELSE 1))]
       /\ ticker' = IF cmd = "cbor" THEN [ticker EXCEPT ![req].at = "on", ![req].ch = p.ch] ELSE ticker

\* Mutant: the length of the payload is not looked at.
CompleteEarly(p) ==
  LET whole == Append(transaction[p.ch], p) IN
  /\ Locks(p)
  /\ \/ transaction[p.ch] = <<>> /\ p.kind = "first"
     \/ transaction[p.ch] # <<>> /\ p.kind = "next"
  /\ transaction' = [transaction EXCEPT ![p.ch] = <<>>]
  /\ handed' = handed \union {whole}
  /\ Start(p, whole[1].req, whole[1].cmd)
  /\ UNCHANGED <<host, maxChannelID, channels, sender, out, keepalives, crashed>>

\* The message is complete: an INIT opens a channel, a CBOR command starts its
\* keepalives, and the command runs.
Complete(p) ==
  LET whole == Append(transaction[p.ch], p) IN
  /\ Locks(p)
  /\ \/ transaction[p.ch] = <<>> /\ p.kind = "first" /\ ~p.more
     \/ transaction[p.ch] # <<>> /\ p.kind = "next"
  /\ transaction' = [transaction EXCEPT ![p.ch] = <<>>]
  /\ handed' = handed \union {whole}
  /\ Start(p, whole[1].req, whole[1].cmd)
  /\ UNCHANGED <<host, maxChannelID, channels, sender, out, keepalives, crashed>>

-----------------------------------------------------------------------------
(* The goroutine in messageLock. *)

\* newChannel reads maxChannelID, then counts it up and writes the map.
Allocate(ch) ==
  /\ owner[ch].at = "allocate"
  /\ owner' = [owner EXCEPT ![ch] = At("store", [owner[ch].message EXCEPT !.id = maxChannelID + 1])]
  /\ UNCHANGED <<host, packets, maxChannelID, channels, transaction, sender, ticker, out, keepalives, crashed, history>>

Store(ch) ==
  /\ owner[ch].at = "store"
  /\ maxChannelID' = maxChannelID + 1
  /\ channels' = channels \union {owner[ch].message.id}
  /\ owner' = [owner EXCEPT ![ch].at = "send"]
  /\ UNCHANGED <<host, packets, transaction, sender, ticker, out, keepalives, crashed, history>>

\* A look-up of another goroutine falls into the write of the map.
MapRace ==
  /\ \E ch \in Ids : owner[ch].at = "store"
  /\ packets # {}
  /\ crashed' = TRUE
  /\ UNCHANGED <<host, packets, maxChannelID, channels, transaction, owner, sender, ticker, out, keepalives, history>>

\* The command returns; the keepalives are told to stop.
Return(ch, parts) ==
  LET req == owner[ch].message.of IN
  /\ owner[ch].at = "run" /\ owner[ch].message.parts # 0
  /\ owner' = [owner EXCEPT ![ch] = At("send", Message("reply", ch, req, 0, parts))]
  /\ ticker' = [ticker EXCEPT ![req].stop = TRUE]
  /\ UNCHANGED <<host, packets, maxChannelID, channels, transaction, sender, out, keepalives, crashed, history>>

\* The echo of an empty PING has no packets: responsesLock is taken for none.
Echo(ch) ==
  /\ owner[ch].at = "run" /\ owner[ch].message.parts = 0
  /\ sender = Nobody
  /\ owner' = [owner EXCEPT ![ch] = Free]
  /\ UNCHANGED <<host, packets, maxChannelID, channels, transaction, sender, ticker, out, keepalives, crashed, history>>

\* Mutant: a response of two packets is followed by its first packet again.
SendAgain(ch, part) ==
  LET m == owner[ch].message IN
  /\ owner[ch].at = (IF part = 1 THEN "send" ELSE "sending")
  /\ sender = (IF part = 1 THEN Nobody ELSE ch)
  /\ out' = Append(out, Part(m, part))
  /\ sender' = IF part = m.parts THEN Nobody ELSE ch
  /\ owner' = [owner EXCEPT ![ch] = IF part = 1 /\ m.parts = 2 THEN At("sending", m)
                                    ELSE IF part = 2 THEN At("send", [m EXCEPT !.parts = 1]) ELSE Free]
  /\ ticker' = IF m.kind = "reply" THEN [ticker EXCEPT ![m.of].final = (part = m.parts)] ELSE ticker
  /\ UNCHANGED <<host, packets, maxChannelID, channels, transaction, keepalives, crashed, history>>

\* sendResponsePackets: responsesLock is held from the first packet on, and
\* after the last one the goroutine ends.
Send(ch, part) ==
  LET m == owner[ch].message IN
  /\ owner[ch].at = (IF part = 1 THEN "send" ELSE "sending")
  /\ sender = (IF part = 1 THEN Nobody ELSE ch)
  /\ out' = Append(out, Part(m, part))
  /\ sender' = IF part = m.parts THEN Nobody ELSE ch
  /\ owner' = [owner EXCEPT ![ch] = IF part = m.parts THEN Free ELSE At("sending", m)]
  /\ ticker' = IF m.kind = "reply" THEN [ticker EXCEPT ![m.of].final = (part = m.parts)] ELSE ticker
  /\ UNCHANGED <<host, packets, maxChannelID, channels, transaction, keepalives, crashed, history>>

-----------------------------------------------------------------------------
(* The keepalives of a request: StartRecurringFunction. *)

\* select takes the trigger, although stop may be ready as well.
Fire(r) ==
  /\ ticker[r].at = "on"
  /\ keepalives < MaxKeepalives
  /\ keepalives' = keepalives + 1
  /\ ticker' = [ticker EXCEPT ![r].at = "firing"]
  /\ UNCHANGED <<host, packets, maxChannelID, channels, transaction, owner, sender, out, crashed, history>>

\* Mutant: keepalives do not take responsesLock.
KeepaliveUnlocked(r) ==
  /\ ticker[r].at = "firing"
  /\ out' = Append(out, Part(Message("keepalive", ticker[r].ch, r, 0, 1), 1))
  /\ ticker' = [ticker EXCEPT ![r].at = IF ticker[r].stop THEN "off" ELSE "on",
                              ![r].late = IF ticker[r].final THEN @ + 1 ELSE @]
  /\ UNCHANGED <<host, packets, maxChannelID, channels, transaction, owner, sender, keepalives, crashed, history>>

\* Mutant: the next trigger is ready at once.
KeepaliveEager(r) ==
  /\ ticker[r].at = "firing"
  /\ sender = Nobody
  /\ out' = Append(out, Part(Message("keepalive", ticker[r].ch, r, 0, 1), 1))
  /\ ticker' = [ticker EXCEPT ![r].at = "on",
                              ![r].late = IF ticker[r].final THEN @ + 1 ELSE @]
  /\ UNCHANGED <<host, packets, maxChannelID, channels, transaction, owner, sender, keepalives, crashed, history>>

\* The keepalive is sent; the next trigger is 50 ms away, so a stop that is
\* ready by now is taken.
Keepalive(r) ==
  /\ ticker[r].at = "firing"
  /\ sender = Nobody
  /\ out' = Append(out, Part(Message("keepalive", ticker[r].ch, r, 0, 1), 1))
  /\ ticker' = [ticker EXCEPT ![r].at = IF ticker[r].stop THEN "off" ELSE "on",
                              ![r].late = IF ticker[r].final THEN @ + 1 ELSE @]
  /\ UNCHANGED <<host, packets, maxChannelID, channels, transaction, owner, sender, keepalives, crashed, history>>

StopTicker(r) ==
  /\ ticker[r].at = "on"
  /\ ticker[r].stop
  /\ ticker' = [ticker EXCEPT ![r].at = "off"]
  /\ UNCHANGED <<host, packets, maxChannelID, channels, transaction, owner, sender, out, keepalives, crashed, history>>

-----------------------------------------------------------------------------
ClientStep ==
  \E c \in Clients :
    \/ Open(c) \/ Opened(c) \/ Continue(c) \/ Cancel(c) \/ Answered(c)
    \/ \E more \in BOOLEAN, cmd \in {"cbor", "plain", "empty"} : Request(c, more, cmd)

Handle(p) == UnknownChannel(p) \/ Gather(p) \/ Drop(p) \/ Reject(p) \/ Complete(p)

Work(ch) ==
  \/ Allocate(ch) \/ Store(ch) \/ Echo(ch)
  \/ \E n \in {1, 2} : Return(ch, n) \/ Send(ch, n)

Tick(r) == Keepalive(r) \/ StopTicker(r)

Next ==
  /\ ~crashed
  /\ \/ ClientStep
     \/ \E p \in packets : Handle(p)
     \/ \E ch \in Ids : Work(ch)
     \/ \E r \in Requests : Fire(r) \/ Tick(r)
     \/ MapRace

Spec == Init /\ [][Next]_vars

-----------------------------------------------------------------------------
(* Properties. *)

Kinds    == {"none", "init", "reply", "error", "keepalive"}
Messages == [kind : Kinds, ch : Ids \union {Stale}, of : 0 .. MaxRequests, id : Ids, parts : 0 .. 2]

TypeOK ==
  /\ client \in [Clients -> [at : {"start", "opening", "ready", "continuing", "waiting"},
                             ch : Ids \union {Stale}, req : 0 .. MaxRequests, sent : Nat, seen : Nat]]
  /\ \A p \in packets : p.ch \in Ids \union {Stale} /\ p.req \in 1 .. requests
  /\ channels \subseteq 0 .. maxChannelID
  /\ maxChannelID \in Ids
  /\ \A ch \in Ids : Len(transaction[ch]) <= 1 /\ (ch \notin channels => owner[ch] = Free)
  /\ \A ch \in Ids : owner[ch].message \in Messages
  /\ sender \in Ids \union {Nobody}
  /\ requests \in 0 .. MaxRequests
  /\ cancels \in 0 .. MaxCancels
  /\ keepalives \in 0 .. MaxKeepalives
  /\ cancelled \subseteq Clients
  /\ empty \subseteq 1 .. requests
  /\ {crashed, reordered} \subseteq BOOLEAN

\* Two clients never get the same channel: the INITs of both are handled under
\* the messageLock of the broadcast channel (newChannel).
ChannelsUnshared ==
  \A i, j \in DOMAIN out :
    out[i].kind = "init" /\ out[j].kind = "init" /\ out[i].id = out[j].id => i = j

\* The packets of a response are sent one after the other, with no keepalive
\* and no other channel's response in between (ctap_hid.go:43).
Contiguous ==
  \A k \in DOMAIN out :
    ~out[k].last => k = Len(out) \/ [out[k + 1] EXCEPT !.last = FALSE] = out[k]

\* After the response to a request at most one of its keepalives follows: the
\* one that select took, or was sending, when the command returned.
OneLateKeepalive == \A r \in Requests : ticker[r].late <= 1

\* Unless packets overtook each other, a command gets a request as one client
\* has sent it, whatever requests were cancelled before it.
HandedAsSent ==
  ~reordered =>
    \A whole \in handed :
      /\ \A k \in DOMAIN whole : whole[k].req = whole[1].req
      /\ Len(whole) = IF whole[1].more THEN 2 ELSE 1

\* A client that never cancels takes only the answer to its own request for
\* it, unless packets overtook each other.
AnswersOwnRequest ==
  ~reordered =>
    \A a \in answers : a.client \notin cancelled => a.of = a.req

\* Nobody is forgotten: when every packet is handled and every goroutine of a
\* message has ended, a client that still waits has something to read, for a
\* request well-formed or mixed up with another.  The exception is a client
\* that waits for the echo of an empty PING, which has no packets
\* (ctap_hid.go:85, channel.go:99).
NobodyForgotten ==
  packets = {} /\ (\A ch \in Ids : owner[ch] = Free)
    => \A c \in Clients :
         client[c].at = "waiting" /\ client[c].req \notin empty => \E k \in DOMAIN out : Final(c, k)

-----------------------------------------------------------------------------
(* CtapHid implements Exchange. *)

\* A request is pending until the packet that completes it is handled: its
\* first packet is on its way or gathered.
Gathered == {transaction[ch][1] : ch \in {d \in Ids : transaction[d] # <<>>}}
Live     == packets \union Gathered
Pending  == [ch \in Ids |-> {p.req : p \in {q \in Live : q.ch = ch /\ q.kind = "first"}}]

\* It runs from there to the last packet of its response.
Running     == [ch \in Ids |-> IF owner[ch].message.kind \in {"init", "reply"} THEN owner[ch].message.of ELSE 0]
Ended(kind) == {k \in DOMAIN out : out[k].kind = kind /\ out[k].last /\ out[k].ch # Stale}
Grants      == {[of |-> out[k].of, id |-> out[k].id] : k \in {j \in DOMAIN out : out[j].kind = "init"}}
Results     == {[ch |-> out[k].ch, of |-> out[k].of] : k \in Ended("reply")}
Refusals    == {out[k].of : k \in Ended("error")}

\* A channel from before a restart is none, and what is asked on it is nothing.
ClientChannel == [c \in Clients |-> IF client[c].ch = Stale THEN Broadcast ELSE client[c].ch]
Awaits(c) ==
  \/ client[c].at = "opening"
  \/ client[c].at \in {"continuing", "waiting"} /\ client[c].ch # Stale
Call == [c \in Clients |-> IF Awaits(c) THEN client[c].req ELSE 0]
ChannelAnswers == {a \in answers : a.ch # Stale}

Service == INSTANCE Exchange WITH
  MaxCalls  <- MaxRequests,
  asked     <- requests,
  channel   <- ClientChannel,
  call      <- Call,
  pending   <- Pending,
  running   <- Running,
  grants    <- Grants,
  results   <- Results,
  refused   <- Refusals,
  answers   <- ChannelAnswers,
  mute      <- empty,
  impatient <- cancelled,
  mixed     <- reordered

\* Clients see no packets, goroutines and locks: their requests run at most
\* once and one by one on each channel, in order and without an error as long
\* as packets keep their order, and a result answers one request of the client
\* whose channel it is.
ImplementsExchange == Service!Spec

-----------------------------------------------------------------------------
(* What the comments say. *)

\* transaction.go:15: single or multiple messages are combined into a single
\* command: no client that sends a request in full, in order and on an open
\* channel, and waits for the answer, gets an error for it.
ProperRequestAccepted ==
  cancelled = {} => \A a \in answers : a.kind = "error" => a.ch = Stale
=============================================================================
