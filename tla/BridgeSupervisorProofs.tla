----------------------- MODULE BridgeSupervisorProofs -----------------------
(***************************************************************************)
(* Theorems about BridgeSupervisor, for every number of suspends, drops,   *)
(* failures and losses of the bus.                                         *)
(*                                                                         *)
(* The argument.  Two goroutines may run `usbip attach` at the same time,  *)
(* and nothing in this process keeps them apart.  What does is the claim   *)
(* of the server: it is taken in the step that begins to bind a port, and  *)
(* given back only when there is neither a port that is served nor anybody *)
(* binding one (Guarded); a handler that gives up takes its port out of    *)
(* service in the same step, so whatever ports are left in use, one at     *)
(* most is served.  That the inhibitors are counted down only for a lock   *)
(* that is held needs that a lock that is held is counted (LockCounted).   *)
(*                                                                         *)
(* CaughtUp and SuspendMeetsPortOnlyExcused rest on a second invariant:    *)
(* the last signal in the queue says how the system is, and an empty queue *)
(* means that the coordinator has acted on it (Told); a suspend that is    *)
(* announced finds the coordinator about to take the port away under the   *)
(* lock, or the port gone (Covered).                                       *)
(***************************************************************************)
EXTENDS BridgeSupervisor, SequenceTheorems, TLAPS

Binding(g) == pc[g] = "bind"

\* A port that is served, or a goroutine that is about to bind one, has the claim
\* to itself.
Guarded ==
  /\ served \in {0, 1}
  /\ served = 1 => claim /\ ~Binding("main") /\ ~Binding("coord")
  /\ Binding("main") => claim /\ ~Binding("coord")
  /\ Binding("coord") => claim

LockCounted == lock => inhibitors > 0

IInv == TypeOK /\ Guarded /\ LockCounted

-----------------------------------------------------------------------------
(* The program counters.                                                   *)

MainPoints  == {"attach", "bind", "subscribe", "inhibit", "watch", "look"}
CoordPoints == {"none", "wait", "detach", "release", "resumed", "attach", "bind", "ended"}
Counters    == [main : MainPoints, coord : CoordPoints]

LEMMA GotoMain ==
  ASSUME pc \in Counters, NEW point \in MainPoints, Goto("main", point)
  PROVE  pc' \in Counters /\ pc'["main"] = point /\ pc'["coord"] = pc["coord"]
  BY DEF Goto, MainPoints, CoordPoints, Counters

LEMMA GotoCoord ==
  ASSUME pc \in Counters, NEW point \in CoordPoints, Goto("coord", point)
  PROVE  pc' \in Counters /\ pc'["coord"] = point /\ pc'["main"] = pc["main"]
  BY DEF Goto, MainPoints, CoordPoints, Counters

\* attachDevice returns to where nobody binds a port.
LEMMA ReturnKept ==
  ASSUME pc \in Counters, NEW g \in Goroutines, Return(g)
  PROVE  /\ pc' \in Counters
         /\ ~Binding(g)'
         /\ \A h \in Goroutines : h # g => pc'[h] = pc[h]
  <1>1. CASE g = "main"
    <2>1. Goto("main", "subscribe") \/ Goto("main", "watch")
      BY <1>1 DEF Return
    <2>2. "subscribe" \in MainPoints /\ "watch" \in MainPoints
      BY DEF MainPoints
    <2> QED
      BY <1>1, <2>1, <2>2, GotoMain DEF Binding, Goroutines
  <1>2. CASE g = "coord"
    <2>1. Goto("coord", "wait")
      BY <1>2 DEF Return
    <2>2. "wait" \in CoordPoints
      BY DEF CoordPoints
    <2> QED
      BY <1>2, <2>1, <2>2, GotoCoord DEF Binding, Goroutines
  <1> QED
    BY <1>1, <1>2 DEF Goroutines

\* attachDevice goes on to bind a port.
LEMMA BindKept ==
  ASSUME pc \in Counters, NEW g \in Goroutines, Goto(g, "bind")
  PROVE  /\ pc' \in Counters
         /\ \A h \in Goroutines : h # g => pc'[h] = pc[h]
  <1>1. "bind" \in MainPoints /\ "bind" \in CoordPoints
    BY DEF MainPoints, CoordPoints
  <1> QED
    BY <1>1, GotoMain, GotoCoord DEF Goroutines

LEMMA TypeOKCounters == TypeOK => pc \in Counters
  BY DEF TypeOK, Counters, MainPoints, CoordPoints

\* TypeOK without the counters.
Rest ==
  /\ served \in Nat /\ forsaken \in Nat
  /\ inhibitors \in Nat
  /\ claim \in BOOLEAN /\ sleepPending \in BOOLEAN /\ lock \in BOOLEAN /\ refused \in BOOLEAN
  /\ subscribed \in BOOLEAN /\ bus \in BOOLEAN /\ excused \in BOOLEAN
  /\ signals \in Seq(BOOLEAN)
  /\ system \in {"awake", "preparing", "suspended"}
  /\ suspends \in 0 .. MaxSuspends
  /\ drops \in 0 .. MaxDrops
  /\ failures \in 0 .. MaxFailures
  /\ panics \in 0 .. MaxPanics
  /\ busLosses \in 0 .. MaxBusLosses

LEMMA TypeOKSplit ==
  /\ TypeOK <=> pc \in Counters /\ Rest
  /\ TypeOK' <=> (pc \in Counters)' /\ Rest'
  BY DEF TypeOK, Counters, MainPoints, CoordPoints, Rest

LEMMA QueueFacts ==
  ASSUME NEW S, NEW s \in Seq(S)
  PROVE  /\ s # <<>> => Tail(s) \in Seq(S)
         /\ \A e \in S : Append(s, e) \in Seq(S)
  OBVIOUS

LEMMA FailsKept ==
  ASSUME Rest, Fails
  PROVE  failures' \in 0 .. MaxFailures /\ UNCHANGED <<suspends, drops, panics, busLosses>>
  BY BridgeAssumption DEF Rest, Fails

-----------------------------------------------------------------------------
LEMMA InitIInv == Init => IInv
  <1> SUFFICES ASSUME Init PROVE IInv
    OBVIOUS
  <1>1. pc \in Counters
    BY DEF Init, Counters, MainPoints, CoordPoints
  <1>2. Rest
    <2>1. suspends \in 0 .. MaxSuspends /\ drops \in 0 .. MaxDrops
      BY BridgeAssumption DEF Init
    <2>2. failures \in 0 .. MaxFailures /\ panics \in 0 .. MaxPanics /\ busLosses \in 0 .. MaxBusLosses
      BY BridgeAssumption DEF Init
    <2>3. signals \in Seq(BOOLEAN)
      BY DEF Init
    <2> QED
      BY <2>1, <2>2, <2>3 DEF Init, Rest
  <1>3. Guarded /\ LockCounted
    BY DEF Init, Guarded, Binding, LockCounted
  <1> QED
    BY <1>1, <1>2, <1>3, TypeOKSplit DEF IInv

\* Steps of nobody's attach that leave the port and the claim alone.
LEMMA GuardedKept ==
  ASSUME Guarded, served' = served, claim' = claim,
         \A g \in Goroutines : Binding(g)' => Binding(g)
  PROVE  Guarded'
  BY DEF Guarded, Goroutines

LEMMA AttachIInv ==
  ASSUME IInv, NEW g \in Goroutines, Attach(g)
  PROVE  IInv'
  <1> USE TypeOKSplit DEF IInv, At, handlers, file
  <1>1. CASE AttachImports(g)
    <2> USE <1>1 DEF AttachImports
    <2>1. pc' \in Counters /\ \A h \in Goroutines : h # g => pc'[h] = pc[h]
      BY BindKept
    <2>2. Rest'
      BY DEF Rest, handlers, file, bounds
    <2>3. Guarded'
      BY <2>1 DEF Guarded, Binding, Goroutines
    <2> QED
      BY <2>1, <2>2, <2>3 DEF LockCounted
  <1>2. CASE AttachBinds(g)
    <2> USE <1>2 DEF AttachBinds
    <2>1. pc' \in Counters /\ ~Binding(g)' /\ \A h \in Goroutines : h # g => pc'[h] = pc[h]
      BY ReturnKept
    <2>2. Rest'
      BY DEF Rest, handlers, file, bounds
    <2>3. Guarded'
      BY <2>1 DEF Guarded, Binding, Goroutines
    <2> QED
      BY <2>1, <2>2, <2>3 DEF LockCounted
  <1>3. CASE AttachRefused(g)
    <2> USE <1>3 DEF AttachRefused
    <2>1. pc' \in Counters /\ ~Binding(g)' /\ \A h \in Goroutines : h # g => pc'[h] = pc[h]
      BY ReturnKept
    <2>2. Rest'
      BY DEF Rest, handlers, file, bounds
    <2>3. Guarded'
      BY <2>1, GuardedKept DEF Binding
    <2> QED
      BY <2>1, <2>2, <2>3 DEF LockCounted
  <1>4. CASE AttachFails(g)
    <2> USE <1>4 DEF AttachFails
    <2>1. pc' \in Counters /\ ~Binding(g)' /\ \A h \in Goroutines : h # g => pc'[h] = pc[h]
      BY ReturnKept
    <2>2. Rest'
      BY FailsKept DEF Rest
    <2>3. Guarded'
      BY <2>1, GuardedKept DEF Binding
    <2> QED
      BY <2>1, <2>2, <2>3 DEF LockCounted
  <1> QED
    BY <1>1, <1>2, <1>3, <1>4 DEF Attach

\* takeSleepInhibitor keeps a held lock counted.
LEMMA TakeKept ==
  ASSUME Rest, LockCounted, TakeInhibitor
  PROVE  /\ inhibitors' \in Nat /\ lock' \in BOOLEAN /\ refused' \in BOOLEAN /\ LockCounted'
         /\ failures' \in 0 .. MaxFailures /\ UNCHANGED <<suspends, drops, panics, busLosses>>
  <1>1. CASE lock' = TRUE /\ refused' = FALSE /\ inhibitors' = inhibitors + 1 /\ UNCHANGED bounds
    <2>1. inhibitors' \in Nat /\ inhibitors' > 0
      BY <1>1 DEF Rest
    <2>2. failures' \in 0 .. MaxFailures /\ UNCHANGED <<suspends, drops, panics, busLosses>>
      BY <1>1 DEF Rest, bounds
    <2> QED
      BY <1>1, <2>1, <2>2 DEF LockCounted
  <1>2. CASE lock' = FALSE /\ refused' \in BOOLEAN /\ UNCHANGED inhibitors /\ (UNCHANGED bounds \/ Fails)
    BY <1>2, FailsKept DEF Rest, LockCounted, bounds
  <1> QED
    BY <1>1, <1>2 DEF TakeInhibitor

LEMMA MainIInv ==
  ASSUME IInv, Subscribe \/ StartCoordinator \/ WatchdogWakes \/ WatchdogLooks
  PROVE  IInv'
  <1> USE TypeOKSplit DEF IInv, At, handlers, file
  <1>0. \A point \in {"subscribe", "inhibit", "watch", "look", "attach"} : point \in MainPoints
    BY DEF MainPoints
  <1>1. CASE Subscribe
    <2> USE <1>1 DEF Subscribe
    <2>1. pc' \in Counters /\ ~Binding("main")' /\ (~Binding("coord")' \/ pc'["coord"] = pc["coord"])
      <3>1. CASE bus
        BY <1>0, <3>1, GotoMain DEF Binding
      <3>2. CASE ~bus
        <4>1. pc' = [main |-> "watch", coord |-> "ended"]
          BY <3>2
        <4>2. pc' \in Counters
          BY <4>1 DEF Counters, MainPoints, CoordPoints
        <4>3. ~Binding("main")' /\ ~Binding("coord")'
          BY <4>1 DEF Binding
        <4> QED
          BY <4>2, <4>3
      <3> QED
        BY <3>1, <3>2
    <2>2. Rest'
      BY DEF Rest, handlers, file, bounds
    <2>3. Guarded'
      BY <2>1, GuardedKept DEF Binding, Goroutines
    <2> QED
      BY <2>1, <2>2, <2>3 DEF LockCounted
  <1>2. CASE StartCoordinator
    <2> USE <1>2 DEF StartCoordinator
    <2>1. pc' \in Counters /\ ~Binding("main")' /\ ~Binding("coord")'
      BY DEF Binding, Counters, MainPoints, CoordPoints
    <2>2. Rest' /\ LockCounted'
      BY TakeKept DEF Rest
    <2>3. Guarded'
      BY <2>1, GuardedKept DEF Goroutines
    <2> QED
      BY <2>1, <2>2, <2>3
  <1>3. CASE WatchdogWakes
    <2> USE <1>3 DEF WatchdogWakes
    <2>1. pc' \in Counters /\ ~Binding("main")' /\ pc'["coord"] = pc["coord"]
      BY <1>0, GotoMain DEF Binding
    <2>2. Rest'
      BY DEF Rest, handlers, file, bounds
    <2>3. Guarded'
      BY <2>1, GuardedKept DEF Binding, Goroutines
    <2> QED
      BY <2>1, <2>2, <2>3 DEF LockCounted
  <1>4. CASE WatchdogLooks
    <2> USE <1>4 DEF WatchdogLooks
    <2>1. Goto("main", "watch") \/ Goto("main", "attach")
      OBVIOUS
    <2>2. pc' \in Counters /\ ~Binding("main")' /\ pc'["coord"] = pc["coord"]
      BY <1>0, <2>1, GotoMain DEF Binding
    <2>3. Rest'
      BY FailsKept DEF Rest, handlers, file, bounds
    <2>4. Guarded'
      BY <2>2, GuardedKept DEF Binding, Goroutines
    <2> QED
      BY <2>2, <2>3, <2>4 DEF LockCounted
  <1> QED
    BY <1>1, <1>2, <1>3, <1>4

LEMMA CoordIInv ==
  ASSUME IInv, GoingDown \/ Detach \/ ReleaseInhibitor \/ Resumed \/ ClearPending \/ SignalsClosed
  PROVE  IInv'
  <1> USE TypeOKSplit DEF IInv, At, handlers, file
  <1>0. \A point \in {"detach", "release", "wait", "resumed", "attach", "ended"} : point \in CoordPoints /\ point # "bind"
    BY DEF CoordPoints
  <1>1. CASE GoingDown
    <2> USE <1>1 DEF GoingDown, Receive
    <2>1. pc' \in Counters /\ ~Binding("coord")' /\ pc'["main"] = pc["main"]
      BY <1>0, GotoCoord DEF Binding
    <2>2. Tail(signals) \in Seq(BOOLEAN)
      BY QueueFacts DEF Rest
    <2>3. Rest'
      BY <2>2 DEF Rest, handlers, file, bounds
    <2>4. Guarded'
      BY <2>1, GuardedKept DEF Binding, Goroutines
    <2> QED
      BY <2>1, <2>3, <2>4 DEF LockCounted
  <1>2. CASE Detach
    <2> USE <1>2 DEF Detach
    <2>1. pc' \in Counters /\ ~Binding("coord")' /\ pc'["main"] = pc["main"]
      BY <1>0, GotoCoord DEF Binding
    <2>2. Rest'
      <3>1. CASE UNCHANGED <<excused, bounds>>
        BY <3>1 DEF Rest, handlers, file, bounds
      <3>2. CASE Fails /\ excused' = TRUE
        BY <3>2, FailsKept DEF Rest
      <3> QED
        BY <3>1, <3>2
    <2>3. Guarded'
      BY <2>1 DEF Guarded, Binding
    <2> QED
      BY <2>1, <2>2, <2>3 DEF LockCounted
  <1>3. CASE ReleaseInhibitor
    <2> USE <1>3 DEF ReleaseInhibitor
    <2>1. pc' \in Counters /\ ~Binding("coord")' /\ pc'["main"] = pc["main"]
      BY <1>0, GotoCoord DEF Binding
    <2>2. inhibitors' \in Nat
      BY DEF Rest, LockCounted
    <2>3. Rest'
      BY <2>2 DEF Rest, handlers, file, bounds
    <2>4. Guarded'
      BY <2>1, GuardedKept DEF Binding, Goroutines
    <2> QED
      BY <2>1, <2>3, <2>4 DEF LockCounted
  <1>4. CASE Resumed
    <2> USE <1>4 DEF Resumed, Receive
    <2>1. pc' \in Counters /\ ~Binding("coord")' /\ pc'["main"] = pc["main"]
      BY <1>0, GotoCoord DEF Binding
    <2>2. Tail(signals) \in Seq(BOOLEAN)
      BY QueueFacts DEF Rest
    <2>3. Rest' /\ LockCounted'
      BY <2>2, TakeKept DEF Rest
    <2>4. Guarded'
      BY <2>1, GuardedKept DEF Binding, Goroutines
    <2> QED
      BY <2>1, <2>3, <2>4
  <1>5. CASE ClearPending
    <2> USE <1>5 DEF ClearPending
    <2>1. pc' \in Counters /\ ~Binding("coord")' /\ pc'["main"] = pc["main"]
      BY <1>0, GotoCoord DEF Binding
    <2>2. Rest'
      BY DEF Rest, handlers, file, bounds
    <2>3. Guarded'
      BY <2>1, GuardedKept DEF Binding, Goroutines
    <2> QED
      BY <2>1, <2>2, <2>3 DEF LockCounted
  <1>6. CASE SignalsClosed
    <2> USE <1>6 DEF SignalsClosed
    <2>1. pc' \in Counters /\ ~Binding("coord")' /\ pc'["main"] = pc["main"]
      BY <1>0, GotoCoord DEF Binding
    <2>2. Rest'
      BY DEF Rest, handlers, file, bounds
    <2>3. Guarded'
      BY <2>1, GuardedKept DEF Binding, Goroutines
    <2> QED
      BY <2>1, <2>2, <2>3 DEF LockCounted
  <1> QED
    BY <1>1, <1>2, <1>3, <1>4, <1>5, <1>6

LEMMA EmitKept ==
  ASSUME Rest, NEW goingDown \in BOOLEAN, Emit(goingDown)
  PROVE  signals' \in Seq(BOOLEAN)
  BY QueueFacts DEF Rest, Emit

LEMMA WorldIInv ==
  ASSUME IInv, Logind \/ Announce \/ ClaimReleased \/ HandlerGivesUp \/ Finalized \/ PortDrops \/ BusLost
  PROVE  IInv'
  <1> USE TypeOKSplit DEF IInv, handlers, file
  <1>1. CASE Logind
    <2>1. UNCHANGED <<pc, handlers, claim, sleepPending, file, inhibitors, subscribed, bus, bounds>>
      BY <1>1 DEF Logind, LocksGone, CapExpires, Resume, Proceed
    <2>2. signals' \in Seq(BOOLEAN)
      BY <1>1, EmitKept DEF Logind, LocksGone, CapExpires, Resume, Proceed, Rest
    <2>3. system' \in {"awake", "preparing", "suspended"} /\ excused' \in BOOLEAN
      BY <1>1 DEF Logind, LocksGone, CapExpires, Resume, Proceed, Rest
    <2>4. Rest'
      BY <2>1, <2>2, <2>3 DEF Rest, handlers, file, bounds
    <2> QED
      BY <2>1, <2>4, GuardedKept DEF LockCounted, Binding
  <1>2. CASE Announce
    <2> USE <1>2 DEF Announce
    <2>0. suspends' \in 0 .. MaxSuspends
      BY BridgeAssumption DEF Rest
    <2>1. signals' \in Seq(BOOLEAN) /\ suspends' \in 0 .. MaxSuspends
      BY <2>0, EmitKept
    <2>2. excused' \in BOOLEAN
      BY DEF Armed
    <2>3. Rest'
      BY <2>1, <2>2 DEF Rest
    <2> QED
      BY <2>3, GuardedKept DEF LockCounted, Binding
  <1>3. CASE ClaimReleased
    <2> USE <1>3 DEF ClaimReleased
    <2>1. Rest'
      BY DEF Rest, handlers, file, bounds
    <2>2. Guarded'
      BY DEF Guarded, Binding, Goroutines
    <2> QED
      BY <2>1, <2>2 DEF LockCounted
  <1>4. CASE PortDrops
    <2> USE <1>4 DEF PortDrops
    <2>1. served' \in Nat /\ forsaken' \in Nat
      BY DEF Rest
    <2>0. drops' \in 0 .. MaxDrops
      BY BridgeAssumption DEF Rest
    <2>2. Rest'
      BY <2>0, <2>1 DEF Rest
    <2>3. Guarded'
      BY DEF Guarded, Binding
    <2> QED
      BY <2>2, <2>3 DEF LockCounted
  <1>5. CASE BusLost
    <2> USE <1>5 DEF BusLost
    <2>1. busLosses' \in 0 .. MaxBusLosses
      BY BridgeAssumption DEF Rest
    <2>2. Rest'
      BY <2>1 DEF Rest
    <2> QED
      BY <2>2, GuardedKept DEF LockCounted, Binding
  <1>6. CASE Finalized
    <2> USE <1>6 DEF Finalized
    <2>1. Rest' /\ LockCounted'
      BY DEF Rest, LockCounted, bounds
    <2> QED
      BY <2>1, GuardedKept DEF Binding
  <1>7. CASE HandlerGivesUp
    <2> USE <1>7 DEF HandlerGivesUp
    <2>1. served' \in Nat /\ forsaken' \in Nat
      BY DEF Rest
    <2>0. panics' \in 0 .. MaxPanics
      <3>1. MaxPanics \in Nat /\ panics \in 0 .. MaxPanics
        BY BridgeAssumption DEF Rest
      <3> QED
        BY <3>1
    <2>2. Rest'
      BY <2>0, <2>1 DEF Rest
    <2>3. served' = 0 /\ ~Binding("main")' /\ ~Binding("coord")'
      BY DEF Guarded, Binding
    <2>4. Guarded'
      BY <2>3 DEF Guarded
    <2> QED
      BY <2>2, <2>4 DEF LockCounted
  <1> QED
    BY <1>1, <1>2, <1>3, <1>4, <1>5, <1>6, <1>7

LEMMA NextIInv == IInv /\ [Next]_vars => IInv'
  <1> SUFFICES ASSUME IInv, [Next]_vars PROVE IInv'
    OBVIOUS
  <1>1. "main" \in Goroutines /\ "coord" \in Goroutines
    BY DEF Goroutines
  <1>2. CASE MainStep \/ CoordStep
    BY <1>1, <1>2, AttachIInv, MainIInv, CoordIInv DEF MainStep, CoordStep
  <1>3. CASE Logind \/ Announce \/ ClaimReleased \/ HandlerGivesUp \/ Finalized \/ PortDrops \/ BusLost
    BY <1>3, WorldIInv
  <1>4. CASE UNCHANGED vars
    <2>1. TypeOK' /\ LockCounted'
      BY <1>4 DEF IInv, TypeOK, LockCounted, vars, handlers, file, bounds
    <2>2. Guarded'
      BY <1>4, GuardedKept DEF IInv, Binding, vars, handlers, file, bounds
    <2> QED
      BY <2>1, <2>2 DEF IInv
  <1> QED
    BY <1>2, <1>3, <1>4 DEF Next

\* The strengthened invariant holds in every reachable state.
THEOREM Invariance == Spec => []IInv
  BY InitIInv, NextIInv, PTL DEF Spec

\* The supervisor's state keeps its types; in particular it never lets go of
\* an inhibitor it does not hold.
THEOREM TypeCorrect == Spec => []TypeOK
  <1>1. IInv => TypeOK
    BY DEF IInv
  <1> QED
    BY <1>1, Invariance, PTL

\* However startup, watchdog and resume overlap, and whichever handlers give up
\* a port that is in use, one port at most is served.
THEOREM AtMostOneServedHolds == Spec => []AtMostOneServed
  <1>1. IInv => AtMostOneServed
    BY DEF IInv, Guarded, Binding, AtMostOneServed, Goroutines
  <1> QED
    BY <1>1, Invariance, PTL

-----------------------------------------------------------------------------
(* The coordinator and logind.  What logind said last is how the system is,  *)
(* so a coordinator with nothing left to handle knows it (Told); and from an *)
(* announcement that finds it armed to the end of the attempt, either the    *)
(* lock is held, or the port is gone and the watchdog stopped (Covered).     *)

Main  == pc["main"]
Coord == pc["coord"]

\* Where the coordinator gets to the next signal without letting go.
Ready == {"wait", "resumed", "attach", "bind"}

Started ==
  /\ Main \in {"subscribe", "inhibit"} => Coord = "none"
  /\ Coord = "none" => ~sleepPending
  /\ Coord = "none" /\ subscribed => Main = "inhibit"
  /\ Coord \notin {"none", "ended"} \/ Main = "inhibit" => subscribed
  /\ ~subscribed => signals = <<>>

LastIs(b) == signals # <<>> => signals[Len(signals)] = b

Told ==
  bus /\ subscribed =>
    /\ system = "awake" => LastIs(FALSE)
    /\ system # "awake" => LastIs(TRUE)
    /\ system = "awake" /\ signals = <<>> =>
         /\ Coord \notin {"detach", "release"}
         /\ Coord \in Ready => lock \/ refused
         /\ Coord \in {"wait", "attach", "bind"} => ~sleepPending

Covered ==
  system = "preparing" /\ ~excused =>
    \/ Coord \in Ready /\ lock /\ signals = <<TRUE>>
    \/ Coord = "detach" /\ lock /\ sleepPending /\ signals = <<>>
    \/ Coord \in {"release", "wait", "ended"} /\ sleepPending /\ ports = 0 /\ signals = <<>>

Order == Started /\ Told /\ Covered

LEMMA LastFacts ==
  ASSUME NEW s \in Seq(BOOLEAN)
  PROVE  /\ s # <<>> /\ Tail(s) # <<>> => Tail(s)[Len(Tail(s))] = s[Len(s)]
         /\ s # <<>> /\ Tail(s) = <<>> => Head(s) = s[Len(s)]
         /\ \A b \in BOOLEAN : Append(s, b)[Len(Append(s, b))] = b /\ Append(s, b) # <<>>
         /\ s = <<TRUE>> => s # <<>> /\ Head(s) = TRUE /\ Tail(s) = <<>>
  <1>1. s # <<>> /\ Tail(s) # <<>> => Tail(s)[Len(Tail(s))] = s[Len(s)]
    OBVIOUS
  <1>2. s # <<>> /\ Tail(s) = <<>> => Head(s) = s[Len(s)]
    <2> SUFFICES ASSUME s # <<>>, Tail(s) = <<>> PROVE Head(s) = s[Len(s)]
      OBVIOUS
    <2>1. Len(Tail(s)) = Len(s) - 1 /\ Len(<<>>) = 0 /\ Len(s) \in Nat /\ Head(s) = s[1]
      OBVIOUS
    <2>2. Len(s) = 1
      BY <2>1
    <2> QED
      BY <2>1, <2>2
  <1>3. \A b \in BOOLEAN : Append(s, b)[Len(Append(s, b))] = b /\ Append(s, b) # <<>>
    OBVIOUS
  <1>4. s = <<TRUE>> => s # <<>> /\ Head(s) = TRUE /\ Tail(s) = <<>>
    <2>1. Len(<<TRUE>>) = 1 /\ <<TRUE>>[1] = TRUE /\ <<TRUE>> # <<>>
      OBVIOUS
    <2>2. Tail(<<TRUE>>) = <<>> /\ Head(<<TRUE>>) = TRUE
      <3> DEFINE e == <<TRUE>>
      <3>1. e \in Seq(BOOLEAN) /\ Len(e) = 1 /\ e[1] = TRUE /\ e # <<>>
        OBVIOUS
      <3> HIDE DEF e
      <3>2. Head(e) = TRUE
        <4>1. Head(e) = e[1]
          BY <3>1
        <4> QED
          BY <3>1, <4>1, Zenon
      <3>3. Tail(e) \in Seq(BOOLEAN) /\ Len(Tail(e)) = 0
        BY <3>1
      <3>4. Tail(e) = <<>>
        <4>1. ~(Len(Tail(e)) \in Nat \ {0})
          BY <3>3
        <4> QED
          BY <3>3, <4>1, EmptySeq
      <3> QED
        BY <3>2, <3>4 DEF e
    <2> QED
      BY <2>1, <2>2, Zenon
  <1> QED
    BY <1>1, <1>2, <1>3, <1>4

\* attachDevice, whoever calls it, and the watchdog.
LEMMA AttachOrder ==
  ASSUME IInv, Order, Attach("main") \/ Attach("coord") \/ WatchdogWakes \/ WatchdogLooks
  PROVE  Order'
  <1> USE TypeOKSplit DEF IInv, handlers, file
  <1>1. /\ UNCHANGED <<sleepPending, lock, refused, signals, subscribed, system, bus>>
        /\ (ports' = ports /\ excused' = excused) \/ excused' = (excused \/ sleepPending)
    BY BridgeAssumption DEF Attach, AttachImports, AttachBinds, AttachRefused, AttachFails, WatchdogWakes, WatchdogLooks,
                            Fails, bounds, Rest, ports
  <1>2. \/ Coord' = Coord /\ Main # "inhibit" /\ (Main' \in {"inhibit", "subscribe"} => Coord = "none" /\ Main' = "subscribe")
        \/ Main' = Main /\ Coord \in {"attach", "bind"} /\ Coord' \in {"bind", "wait"}
    <2>1. CASE WatchdogWakes \/ WatchdogLooks
      BY <2>1, GotoMain DEF WatchdogWakes, WatchdogLooks, At, MainPoints, Main, Coord
    <2>2. ASSUME NEW g \in Goroutines, Attach(g)
          PROVE  pc[g] \in {"attach", "bind"} /\ (Goto(g, "bind") \/ Return(g))
      BY <2>2 DEF Attach, AttachImports, AttachBinds, AttachRefused, AttachFails, At
    <2>3. CASE Attach("main")
      <3>1. /\ Main # "inhibit"
            /\ Goto("main", "bind") \/ Goto("main", "watch") \/ (Goto("main", "subscribe") /\ Coord = "none")
        BY <2>2, <2>3 DEF Return, Goroutines, Main, Coord
      <3> QED
        BY <3>1, GotoMain DEF MainPoints, Main, Coord
    <2>4. CASE Attach("coord")
      <3>1. Coord \in {"attach", "bind"} /\ (Goto("coord", "bind") \/ Goto("coord", "wait"))
        BY <2>2, <2>4 DEF Return, Goroutines, Coord
      <3> QED
        BY <3>1, GotoCoord DEF CoordPoints, Main, Coord
    <2> QED
      BY <2>1, <2>3, <2>4
  <1>3. Started'
    BY <1>1, <1>2 DEF Order, Started
  <1>4. Told'
    BY <1>1, <1>2 DEF Order, Told, LastIs, Ready
  <1>5. Covered'
    <2>1. Coord' = Coord \/ (Coord \in Ready /\ Coord' \in Ready /\ Coord \in {"attach", "bind"})
      BY <1>2 DEF Ready
    <2>2. CASE ports' = ports /\ excused' = excused
      BY <1>1, <2>1, <2>2 DEF Order, Covered
    <2>3. CASE excused' = (excused \/ sleepPending)
      <3> SUFFICES ASSUME system = "preparing", ~excused, ~sleepPending PROVE Covered'
        BY <1>1, <2>3 DEF Covered
      <3>1. Coord \in Ready /\ lock /\ signals = <<TRUE>>
        BY DEF Order, Covered
      <3> QED
        BY <1>1, <2>1, <3>1 DEF Covered
    <2> QED
      BY <1>1, <2>2, <2>3
  <1> QED
    BY <1>3, <1>4, <1>5 DEF Order

\* The coordinator is started, or not.
LEMMA StartOrder == ASSUME IInv, Order, Subscribe \/ StartCoordinator PROVE Order'
  <1> USE TypeOKSplit DEF IInv, handlers, file
  <1>1. CASE Subscribe
    <2> USE <1>1 DEF Subscribe, At
    <2>1. Main = "subscribe" /\ Coord = "none" /\ ~sleepPending
      BY DEF Order, Started, Main
    <2>2. UNCHANGED <<ports, lock, refused, sleepPending, signals, system, bus, excused>>
      BY DEF ports
    <2>3. CASE bus
      <3>1. subscribed' = TRUE /\ Main' = "inhibit" /\ Coord' = "none"
        BY <2>1, <2>3, GotoMain DEF MainPoints, Main, Coord
      <3> QED
        BY <2>1, <2>2, <3>1 DEF Order, Started, Told, LastIs, Covered, Ready
    <2>4. CASE ~bus
      <3>1. subscribed' = FALSE /\ Main' = "watch" /\ Coord' = "ended"
        BY <2>4 DEF Main, Coord
      <3>2. signals = <<>>
        BY <2>1 DEF Order, Started
      <3>3. Started' /\ Told'
        BY <2>1, <2>2, <2>4, <3>1, <3>2 DEF Started, Told
      <3>4. Covered'
        BY <2>1, <2>2 DEF Order, Covered, Ready
      <3> QED
        BY <3>3, <3>4 DEF Order
    <2> QED
      BY <2>3, <2>4
  <1>2. CASE StartCoordinator
    <2> USE <1>2 DEF StartCoordinator, At
    <2>1. Main = "inhibit" /\ Coord = "none" /\ ~sleepPending /\ subscribed
      BY DEF Order, Started, Main
    <2>2. UNCHANGED <<ports, sleepPending, signals, subscribed, system, bus, excused>> /\ Main' = "watch" /\ Coord' = "wait"
      BY DEF ports, Main, Coord
    <2>3. bus /\ system = "awake" => lock' \/ refused'
      BY BridgeAssumption DEF TakeInhibitor, Granted, Fails, Rest
    <2>4. Started'
      BY <2>1, <2>2 DEF Started
    <2>5. Told'
      BY <2>1, <2>2, <2>3 DEF Order, Told, LastIs, Ready
    <2>6. ~(system = "preparing" /\ ~excused)
      BY <2>1 DEF Order, Covered, Ready
    <2>7. Covered'
      BY <2>2, <2>6 DEF Covered
    <2> QED
      BY <2>4, <2>5, <2>7 DEF Order
  <1> QED
    BY <1>1, <1>2

\* The coordinator handles a signal.
LEMMA SignalOrder == ASSUME IInv, Order, GoingDown \/ Resumed PROVE Order'
  <1> USE TypeOKSplit DEF IInv, handlers, file
  <1>1. /\ Coord = "wait" /\ signals # <<>> /\ signals' = Tail(signals) /\ signals \in Seq(BOOLEAN)
        /\ Main' = Main /\ UNCHANGED <<ports, subscribed, system, bus, excused>>
    BY GotoCoord DEF GoingDown, Resumed, Receive, At, Rest, CoordPoints, ports, Main, Coord
  <1>2. subscribed
    BY <1>1 DEF Order, Started
  <1>3. \A b \in BOOLEAN : LastIs(b) => LastIs(b)'
    BY <1>1, LastFacts DEF LastIs
  <1>4. signals' = <<>> => Head(signals) = signals[Len(signals)]
    BY <1>1, LastFacts
  <1>5. CASE GoingDown
    <2>1. sleepPending' = TRUE /\ Coord' = "detach" /\ UNCHANGED <<lock, refused>> /\ Head(signals) = TRUE
      BY <1>5, GotoCoord DEF GoingDown, Receive, CoordPoints, Coord
    <2>2. Started'
      BY <1>1, <1>2, <2>1 DEF Order, Started
    <2>3. Told'
      BY <1>1, <1>2, <1>3, <1>4, <2>1 DEF Order, Told, LastIs, Ready
    <2>4. Covered'
      BY <1>1, <2>1, LastFacts DEF Order, Covered
    <2> QED
      BY <2>2, <2>3, <2>4 DEF Order
  <1>6. CASE Resumed
    <2>1. Coord' = "resumed" /\ UNCHANGED sleepPending /\ Head(signals) = FALSE
      BY <1>6, GotoCoord DEF Resumed, Receive, CoordPoints, Coord
    <2>2. bus /\ system = "awake" => lock' \/ refused'
      BY <1>6, BridgeAssumption DEF Resumed, TakeInhibitor, Granted, Fails, Rest
    <2>3. Started'
      BY <1>1, <1>2, <2>1 DEF Order, Started
    <2>4. Told'
      BY <1>1, <1>2, <1>3, <1>4, <2>1, <2>2 DEF Order, Told, LastIs, Ready
    <2>5. Covered'
      BY <1>1, <2>1, LastFacts DEF Order, Covered
    <2> QED
      BY <2>3, <2>4, <2>5 DEF Order
  <1> QED
    BY <1>5, <1>6

\* What it does about a signal.
LEMMA CoordOrder == ASSUME IInv, Order, Detach \/ ReleaseInhibitor \/ ClearPending \/ SignalsClosed PROVE Order'
  <1> USE TypeOKSplit DEF IInv, handlers, file
  <1>1. CASE Detach
    <2>1. /\ Coord = "detach" /\ Coord' = "release" /\ Main' = Main
          /\ UNCHANGED <<sleepPending, lock, refused, signals, subscribed, system, bus>>
          /\ (ports' = 0 /\ excused' = excused) \/ excused' = TRUE
      BY <1>1, GotoCoord DEF Detach, At, CoordPoints, ports, Main, Coord
    <2> QED
      BY <2>1 DEF Order, Started, Told, LastIs, Covered, Ready
  <1>2. CASE ReleaseInhibitor
    <2>1. /\ Coord = "release" /\ Coord' = "wait" /\ Main' = Main
          /\ UNCHANGED <<ports, sleepPending, signals, subscribed, system, bus, excused>>
      BY <1>2, GotoCoord DEF ReleaseInhibitor, At, CoordPoints, ports, Main, Coord
    <2> QED
      BY <2>1 DEF Order, Started, Told, LastIs, Covered, Ready
  <1>3. CASE ClearPending
    <2>1. /\ Coord = "resumed" /\ Coord' = "attach" /\ Main' = Main /\ sleepPending' = FALSE
          /\ UNCHANGED <<ports, lock, refused, signals, subscribed, system, bus, excused>>
      BY <1>3, GotoCoord DEF ClearPending, At, CoordPoints, ports, Main, Coord, bounds
    <2> QED
      BY <2>1 DEF Order, Started, Told, LastIs, Covered, Ready
  <1>4. CASE SignalsClosed
    <2>1. /\ Coord = "wait" /\ Coord' = "ended" /\ Main' = Main /\ ~bus /\ signals = <<>>
          /\ UNCHANGED <<ports, sleepPending, lock, refused, signals, subscribed, system, bus, excused>>
      BY <1>4, GotoCoord DEF SignalsClosed, At, CoordPoints, ports, Main, Coord
    <2> QED
      BY <2>1 DEF Order, Started, Told, Covered, Ready
  <1> QED
    BY <1>1, <1>2, <1>3, <1>4

\* logind announces, goes on or wakes up.
LEMMA LogindOrder == ASSUME IInv, Order, Announce \/ LocksGone \/ CapExpires \/ Resume PROVE Order'
  <1> USE TypeOKSplit DEF IInv, handlers, file
  <1>1. Coord' = Coord /\ Main' = Main /\ UNCHANGED <<ports, sleepPending, lock, refused, subscribed, bus>> /\ signals \in Seq(BOOLEAN)
    BY DEF Announce, LocksGone, CapExpires, Proceed, Resume, Rest, Coord, Main, ports
  <1>2. CASE Announce
    <2>1. system' = "preparing" /\ Emit(TRUE) /\ excused' = ~Armed
      BY <1>2 DEF Announce
    <2>2. bus /\ subscribed => LastIs(TRUE)' /\ signals' # <<>>
      BY <1>1, <2>1, LastFacts DEF Emit, LastIs
    <2>3. Started'
      BY <1>1, <2>1 DEF Order, Started, Emit
    <2>4. Told'
      BY <1>1, <2>1, <2>2 DEF Told
    <2>5. Covered'
      <3> SUFFICES ASSUME ~excused' PROVE Coord' \in Ready /\ lock' /\ signals' = <<TRUE>>
        BY DEF Covered
      <3>1. lock /\ bus /\ signals = <<>> /\ Coord \in Ready
        BY <2>1 DEF Armed, Ready, Coord
      <3>2. subscribed
        BY <3>1 DEF Order, Started, Ready
      <3>3. signals' = Append(<<>>, TRUE)
        BY <2>1, <3>1, <3>2 DEF Emit
      <3>4. Append(<<>>, TRUE) = <<TRUE>>
        OBVIOUS
      <3> QED
        BY <1>1, <3>1, <3>3, <3>4
    <2> QED
      BY <2>3, <2>4, <2>5 DEF Order
  <1>3. CASE system' = "suspended" /\ system = "preparing" /\ signals' = signals
    BY <1>1, <1>3 DEF Order, Started, Told, LastIs, Covered
  <1>4. CASE system' = "awake" /\ Emit(FALSE)
    <2>1. bus /\ subscribed => LastIs(FALSE)' /\ signals' # <<>>
      BY <1>1, <1>4, LastFacts DEF Emit, LastIs
    <2>2. Started'
      BY <1>1, <1>4 DEF Order, Started, Emit
    <2>3. Told' /\ Covered'
      BY <1>1, <1>4, <2>1 DEF Told, Covered
    <2> QED
      BY <2>2, <2>3 DEF Order
  <1> QED
    BY <1>2, <1>3, <1>4 DEF LocksGone, CapExpires, Proceed, Resume

\* Everything else.
LEMMA RestOrder == ASSUME IInv, Order, ClaimReleased \/ HandlerGivesUp \/ Finalized \/ PortDrops \/ BusLost \/ UNCHANGED vars PROVE Order'
  <1> USE TypeOKSplit DEF IInv, handlers, file
  <1>1. /\ Coord' = Coord /\ Main' = Main /\ UNCHANGED <<sleepPending, lock, refused, signals, subscribed, system, excused>>
        /\ (bus' = bus \/ bus' = FALSE) /\ (ports = 0 => ports' = 0)
    BY DEF ClaimReleased, HandlerGivesUp, Rest, ports, Finalized, PortDrops, BusLost, vars, Coord, Main, bounds
  <1>2. Started'
    BY <1>1 DEF Order, Started
  <1>3. Told'
    <2>1. CASE bus' = bus
      BY <1>1, <2>1 DEF Order, Told, LastIs
    <2>2. CASE bus' = FALSE
      BY <2>2 DEF Told
    <2> QED
      BY <1>1, <2>1, <2>2
  <1>4. Covered'
    BY <1>1 DEF Order, Covered
  <1> QED
    BY <1>2, <1>3, <1>4 DEF Order

LEMMA NextOrder == IInv /\ Order /\ [Next]_vars => Order'
  BY AttachOrder, StartOrder, SignalOrder, CoordOrder, LogindOrder, RestOrder
     DEF Next, MainStep, CoordStep, Logind

\* The coordinator keeps up with logind.
THEOREM OrderKept == Spec => []Order
  <1>1. Init => Order
    BY DEF Init, Order, Started, Told, LastIs, Covered, Main, Coord, Ready
  <1> QED
    BY <1>1, NextOrder, Invariance, PTL DEF Spec

\* No sequence of suspends leaves the watchdog stopped or the lock behind
\* (sleep_linux.go:115-147).
THEOREM CaughtUpHolds == Spec => []CaughtUp
  <1>1. Order => CaughtUp
    BY DEF Order, Started, Told, CaughtUp, Coord, Ready
  <1> QED
    BY <1>1, OrderKept, PTL

\* A suspend attempt meets the port only for one of the reasons named
\* (sleep_linux.go:115-118).
THEOREM SuspendMeetsPortHolds == Spec => SuspendMeetsPortOnlyExcused
  <1>1. IInv /\ Order /\ [Next]_vars => [system = "preparing" /\ ports > 0 /\ system' = "awake" => excused']_vars
    <2> SUFFICES ASSUME IInv, Order, Next, system = "preparing", ports > 0, system' = "awake" PROVE excused'
      BY DEF vars
    <2>1. LocksGone \/ CapExpires
      BY DEF Next, MainStep, CoordStep, Logind, Attach, AttachImports, AttachBinds, AttachRefused, AttachFails, Subscribe,
             StartCoordinator, WatchdogWakes, WatchdogLooks, GoingDown, Detach, ReleaseInhibitor, Resumed, ClearPending,
             SignalsClosed, Announce, ClaimReleased, HandlerGivesUp, Finalized, PortDrops, BusLost, Resume
    <2>2. CASE CapExpires
      BY <2>2 DEF CapExpires
    <2>3. CASE LocksGone
      <3>1. ~lock
        BY <2>3 DEF LocksGone, IInv, LockCounted
      <3>2. ports # 0
        OBVIOUS
      <3>3. ~excused => FALSE
        BY <3>1, <3>2, Zenon DEF Order, Covered
      <3>4. excused' = excused
        BY <2>3 DEF LocksGone
      <3> QED
        BY <3>3, <3>4
    <2> QED
      BY <2>1, <2>2, <2>3
  <1> QED
    BY <1>1, OrderKept, Invariance, PTL DEF Spec, SuspendMeetsPortOnlyExcused
=============================================================================
