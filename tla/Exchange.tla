------------------------------ MODULE Exchange ------------------------------
(***************************************************************************)
(* What the HID layer promises its clients.  A call is made on a channel   *)
(* and run there: at most once, one call of a channel at a time, and as    *)
(* long as packets keep their order exactly in the order in which the      *)
(* client of the channel has made them, none refused and none lost.  Its   *)
(* result goes out once, after it, on its channel, and answers one call at *)
(* most: the client's own if it has never given one up.  A mute call runs  *)
(* and has no result.  In the lobby a call opens a channel, which is       *)
(* nobody else's.                                                          *)
(*                                                                         *)
(* Packets, transactions, goroutines, locks and keepalives are gone.       *)
(***************************************************************************)
EXTENDS Naturals

CONSTANTS Clients,
          MaxCalls  \* bound on the calls, over all clients

Lobby    == 0
Channels == 0 .. MaxCalls

VARIABLES
  asked,      \* calls made so far: call n is the n-th one
  channel,    \* a client's channel, or Lobby
  call,       \* the call a client waits for, or 0
  pending,    \* per channel, calls made and not yet run
  running,    \* per channel, the call that runs, or 0
  grants,     \* which call has opened which channel
  results,    \* calls that have run, and where
  refused,    \* calls an open channel has refused
  answers,    \* what clients have taken for the answer to their call
  mute,       \* calls that have no result
  impatient,  \* clients that have given a call up
  mixed       \* packets have overtaken each other

vars == <<asked, channel, call, pending, running, grants, results, refused, answers, mute, impatient, mixed>>

Grant(of, id)  == [of |-> of, id |-> id]
Result(ch, of) == [ch |-> ch, of |-> of]

Init ==
  /\ asked = 0
  /\ channel = [c \in Clients |-> Lobby]
  /\ call = [c \in Clients |-> 0]
  /\ pending = [ch \in Channels |-> {}]
  /\ running = [ch \in Channels |-> 0]
  /\ grants = {}
  /\ results = {}
  /\ refused = {}
  /\ answers = {}
  /\ mute = {}
  /\ impatient = {}
  /\ mixed = FALSE

-----------------------------------------------------------------------------
(* The clients. *)

\* The next call is mute, or it is not.
Asks == mute' \in {mute, mute \union {asked + 1}}

\* A call, in the lobby for a channel.
Make(c) ==
  /\ call[c] = 0
  /\ asked < MaxCalls
  /\ asked' = asked + 1
  /\ call' = [call EXCEPT ![c] = asked + 1]
  /\ pending' = [pending EXCEPT ![channel[c]] = @ \union {asked + 1}]
  /\ Asks
  /\ UNCHANGED <<channel, running, grants, results, refused, answers, impatient, mixed>>

\* A call on a channel from before a restart goes nowhere.
MakeElsewhere ==
  /\ asked < MaxCalls
  /\ asked' = asked + 1
  /\ Asks
  /\ UNCHANGED <<channel, call, pending, running, grants, results, refused, answers, impatient, mixed>>

Join(c) ==
  /\ channel[c] = Lobby
  /\ \E g \in grants :
       /\ g.of = call[c]
       /\ channel' = [channel EXCEPT ![c] = g.id]
  /\ call' = [call EXCEPT ![c] = 0]
  /\ UNCHANGED <<asked, pending, running, grants, results, refused, answers, mute, impatient, mixed>>

\* Somebody without a channel may be impatient as well.
GiveUp(c) ==
  /\ call' \in {call, [call EXCEPT ![c] = 0]}
  /\ impatient' = impatient \union {c}
  /\ UNCHANGED <<asked, channel, pending, running, grants, results, refused, answers, mute, mixed>>

\* A result is taken once, and is the client's own unless it was impatient.
Take(c, a) ==
  /\ call[c] # 0 /\ channel[c] # Lobby
  /\ a.client = c /\ a.ch = channel[c] /\ a.req = call[c]
  /\ \/ /\ a.kind = "reply"
        /\ Result(a.ch, a.of) \in results
        /\ \A b \in answers : b.kind = "reply" => b.of # a.of
     \/ a.kind = "error" /\ a.of \in refused
  /\ c \notin impatient /\ ~mixed => a.of = call[c]
  /\ answers' = answers \union {a}
  /\ call' = [call EXCEPT ![c] = 0]
  /\ UNCHANGED <<asked, channel, pending, running, grants, results, refused, mute, impatient, mixed>>

-----------------------------------------------------------------------------
(* The service. *)

\* A client's first call in the order of making is the first to run.
InTurn(ch, r) == ch # Lobby => \A s \in pending[ch] : r <= s

Begin(ch, r) ==
  /\ r \in pending[ch]
  /\ running[ch] = 0
  /\ mixed' \in {mixed, TRUE}
  /\ mixed' \/ InTurn(ch, r)
  /\ running' = [running EXCEPT ![ch] = r]
  /\ pending' = [pending EXCEPT ![ch] = @ \ {r}]
  /\ UNCHANGED <<asked, channel, call, grants, results, refused, answers, mute, impatient>>

\* Calls are lost and refused only where packets are out of order.
Lose(ch, lost) ==
  /\ mixed' = TRUE
  /\ pending' = [pending EXCEPT ![ch] = @ \ lost]
  /\ UNCHANGED <<asked, channel, call, running, grants, results, refused, answers, mute, impatient>>

Refuse(ch, r) ==
  /\ mixed
  /\ ch # Lobby /\ running[ch] = 0
  /\ refused' = refused \union {r}
  /\ UNCHANGED <<asked, channel, call, pending, running, grants, results, answers, mute, impatient, mixed>>

Open(id) ==
  /\ running[Lobby] # 0
  /\ id # Lobby /\ \A g \in grants : g.id # id
  /\ grants' = grants \union {Grant(running[Lobby], id)}
  /\ running' = [running EXCEPT ![Lobby] = 0]
  /\ UNCHANGED <<asked, channel, call, pending, results, refused, answers, mute, impatient, mixed>>

Return(ch) ==
  /\ ch # Lobby
  /\ running[ch] # 0 /\ running[ch] \notin mute
  /\ results' = results \union {Result(ch, running[ch])}
  /\ running' = [running EXCEPT ![ch] = 0]
  /\ UNCHANGED <<asked, channel, call, pending, grants, refused, answers, mute, impatient, mixed>>

\* A mute call ends.
Finish(ch) ==
  /\ ch # Lobby
  /\ running[ch] \in mute
  /\ running' = [running EXCEPT ![ch] = 0]
  /\ UNCHANGED <<asked, channel, call, pending, grants, results, refused, answers, mute, impatient, mixed>>

-----------------------------------------------------------------------------
Answers == [client : Clients, ch : Channels, req : 1 .. asked, kind : {"reply", "error"}, of : 1 .. asked]

Next ==
  \/ MakeElsewhere
  \/ \E c \in Clients : Make(c) \/ Join(c) \/ GiveUp(c) \/ \E a \in Answers : Take(c, a)
  \/ \E ch \in Channels :
       \/ Return(ch) \/ Finish(ch)
       \/ \E r \in 1 .. asked : Begin(ch, r) \/ Refuse(ch, r)
       \/ \E lost \in SUBSET (1 .. asked) : Lose(ch, lost)
  \/ \E id \in Channels : Open(id)

Spec == Init /\ [][Next]_vars
=============================================================================
