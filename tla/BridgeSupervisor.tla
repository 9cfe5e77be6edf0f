-------------------------- MODULE BridgeSupervisor --------------------------
(***************************************************************************)
(* server_linux.go and sleep_linux.go: two goroutines that attach and      *)
(* detach the authenticator.  "main" attaches at startup and then watches  *)
(* the port; "coord" detaches when logind announces a suspend and attaches *)
(* again after the resume.  They share sleepPending, the vhci port, and,   *)
(* through the USB/IP server, the claim on the device.                     *)
(*                                                                         *)
(* External, modelled from their use: logind (PrepareForSleep, the delay   *)
(* inhibitors and their cap), the kernel (no suspend with a port in use),  *)
(* `usbip attach` (an import at the server, then the port), `usbip detach` *)
(* and the server, which refuses a second import while its claim is held.  *)
(* The handler of an import lets go of the claim when its handleCommands   *)
(* ends: some time after the port is gone, or by a panic while the kernel  *)
(* still uses the port, which then serves nothing.  (What such a handler   *)
(* makes of the rest of its stream, and that one may be stuck for good, is *)
(* in UsbIpServer.)  The settling poll of attachDevice only chooses what   *)
(* is logged.                                                              *)
(***************************************************************************)
EXTENDS Naturals, Sequences

CONSTANTS MaxSuspends,  \* bound on the suspends logind announces
          MaxDrops,     \* bound on the times the port drops by itself
          MaxFailures,  \* bound on failing usbip and Inhibit calls
          MaxPanics,    \* bound on handlers that give up a port in use
          MaxBusLosses  \* bound on losses of the system bus (0 or 1)

ASSUME BridgeAssumption ==
  {MaxSuspends, MaxDrops, MaxFailures, MaxPanics, MaxBusLosses} \subseteq Nat

VARIABLES
  pc,            \* where each goroutine is
  served,        \* vhci ports in use whose handler serves the device
  forsaken,      \* vhci ports in use whose handler has given up
  claim,         \* the server's claim on the device
  sleepPending,
  lock,          \* the coordinator's *os.File is not nil
  refused,       \* it is nil since the last call of Inhibit failed
  inhibitors,    \* delay locks logind counts for this process
  signals,       \* PrepareForSleep signals not handled yet
  subscribed,    \* AddMatchSignal and Signal have run
  system,        \* "awake", "preparing" (announced) or "suspended"
  bus,           \* the connection to the system bus is up
  excused,       \* since the last announcement something else than the
                 \* coordinator's order may put or leave a port in use
  suspends, drops, failures, panics, busLosses   \* what the bounds count

handlers == <<served, forsaken>>
file     == <<lock, refused>>
bounds   == <<suspends, drops, failures, panics, busLosses>>

vars == <<pc, handlers, claim, sleepPending, file, inhibitors, signals, subscribed,
          system, bus, excused, bounds>>

\* What `usbip port` and the kernel count.
ports == served + forsaken

Goroutines == {"main", "coord"}

Init ==
  /\ pc = [main |-> "attach", coord |-> "none"]
  /\ served = 0
  /\ forsaken = 0
  /\ claim = FALSE
  /\ sleepPending = FALSE
  /\ lock = FALSE
  /\ refused = FALSE
  /\ inhibitors = 0
  /\ signals = <<>>
  /\ subscribed = FALSE
  /\ system = "awake"
  /\ bus = TRUE
  /\ excused = FALSE
  /\ suspends = 0
  /\ drops = 0
  /\ failures = 0
  /\ panics = 0
  /\ busLosses = 0

\* User space is frozen while the machine sleeps.
At(g, point)   == system # "suspended" /\ pc[g] = point
Goto(g, point) == pc' = [pc EXCEPT ![g] = point]

\* A call fails, as often as the bound allows.
Fails ==
  /\ failures < MaxFailures
  /\ failures' = failures + 1
  /\ UNCHANGED <<suspends, drops, panics, busLosses>>

-----------------------------------------------------------------------------
(* attachDevice, called by both goroutines. *)

\* Where the caller goes on: main starts the coordinator once, then watches.
Return(g) ==
  Goto(g, CASE g = "coord" -> "wait"
            [] g = "main" /\ pc["coord"] = "none" -> "subscribe"
            [] OTHER -> "watch")

\* Mutant: the server takes a second import.
AttachImportsTwice(g) ==
  /\ At(g, "attach")
  /\ claim' = TRUE
  /\ Goto(g, "bind")
  /\ UNCHANGED <<handlers, sleepPending, file, inhibitors, signals, subscribed, system, bus, excused, bounds>>

\* `usbip attach` imports the device from the server.
AttachImports(g) ==
  /\ At(g, "attach")
  /\ ~claim
  /\ claim' = TRUE
  /\ Goto(g, "bind")
  /\ UNCHANGED <<handlers, sleepPending, file, inhibitors, signals, subscribed, system, bus, excused, bounds>>

\* It then writes the socket to vhci, and the port is in use.
AttachBinds(g) ==
  /\ At(g, "bind")
  /\ served' = served + 1
  /\ excused' = (excused \/ sleepPending)
  /\ Return(g)
  /\ UNCHANGED <<forsaken, claim, sleepPending, file, inhibitors, signals, subscribed, system, bus, bounds>>

\* The server refuses, since some connection has the device.
AttachRefused(g) ==
  /\ At(g, "attach")
  /\ claim
  /\ Return(g)
  /\ UNCHANGED <<handlers, claim, sleepPending, file, inhibitors, signals, subscribed, system, bus, excused, bounds>>

\* It fails before the import or between the import and the port.
AttachFails(g) ==
  /\ At(g, "attach") \/ At(g, "bind")
  /\ Fails
  /\ Return(g)
  /\ UNCHANGED <<handlers, claim, sleepPending, file, inhibitors, signals, subscribed, system, bus, excused>>

-----------------------------------------------------------------------------
(* main: runServer. *)

\* startSleepCoordinator subscribes, or gives up when the bus is gone.
Subscribe ==
  /\ At("main", "subscribe")
  /\ IF bus
     THEN subscribed' = TRUE /\ Goto("main", "inhibit")
     ELSE subscribed' = FALSE /\ pc' = [main |-> "watch", coord |-> "ended"]
  /\ UNCHANGED <<handlers, claim, sleepPending, file, inhibitors, signals, system, bus, excused, bounds>>

\* logind grants a delay lock unless it is already going down.
Granted == bus /\ system = "awake"

\* takeSleepInhibitor: the new lock or nil.  Whatever file the variable held
\* is dropped without being closed (Finalized).
TakeInhibitor ==
  \/ /\ Granted
     /\ lock' = TRUE
     /\ refused' = FALSE
     /\ inhibitors' = inhibitors + 1
     /\ UNCHANGED bounds
  \/ /\ lock' = FALSE
     /\ UNCHANGED inhibitors
     /\ \/ ~Granted /\ refused' = FALSE /\ UNCHANGED bounds
        \/ Granted /\ refused' = TRUE /\ Fails

StartCoordinator ==
  /\ At("main", "inhibit")
  /\ TakeInhibitor
  /\ pc' = [main |-> "watch", coord |-> "wait"]
  /\ UNCHANGED <<handlers, claim, sleepPending, signals, subscribed, system, bus, excused>>

\* The watchdog wakes up and asks suspendPending().
WatchdogWakes ==
  /\ At("main", "watch")
  /\ ~sleepPending
  /\ Goto("main", "look")
  /\ UNCHANGED <<handlers, claim, sleepPending, file, inhibitors, signals, subscribed, system, bus, excused, bounds>>

\* deviceAttached(): when `usbip port` fails the device counts as attached.
WatchdogLooks ==
  /\ At("main", "look")
  /\ \/ Goto("main", IF ports > 0 THEN "watch" ELSE "attach") /\ UNCHANGED bounds
     \/ Goto("main", "watch") /\ Fails
  /\ UNCHANGED <<handlers, claim, sleepPending, file, inhibitors, signals, subscribed, system, bus, excused>>

-----------------------------------------------------------------------------
(* coord: handleSleepSignals. *)

Receive(goingDown) ==
  /\ At("coord", "wait")
  /\ signals # <<>>
  /\ Head(signals) = goingDown
  /\ signals' = Tail(signals)

\* Mutant: the inhibitor is released before the port is detached.
GoingDownLetsGo ==
  /\ Receive(TRUE)
  /\ sleepPending' = TRUE
  /\ lock' = FALSE /\ UNCHANGED refused
  /\ inhibitors' = IF lock THEN inhibitors - 1 ELSE inhibitors
  /\ Goto("coord", "detach")
  /\ UNCHANGED <<handlers, claim, subscribed, system, bus, excused, bounds>>

\* PrepareForSleep(true): stop the watchdog, then detach, then let go.
GoingDown ==
  /\ Receive(TRUE)
  /\ sleepPending' = TRUE
  /\ Goto("coord", "detach")
  /\ UNCHANGED <<handlers, claim, file, inhibitors, subscribed, system, bus, excused, bounds>>

\* detachAllPorts: port by port, a failure is logged and skipped.
Detach ==
  /\ At("coord", "detach")
  /\ served' \in 0 .. served /\ forsaken' \in 0 .. forsaken
  /\ \/ served' + forsaken' = 0 /\ UNCHANGED <<excused, bounds>>
     \/ served' + forsaken' > 0 /\ Fails /\ excused' = TRUE
  /\ Goto("coord", "release")
  /\ UNCHANGED <<claim, sleepPending, file, inhibitors, signals, subscribed, system, bus>>

ReleaseInhibitor ==
  /\ At("coord", "release")
  /\ lock' = FALSE /\ UNCHANGED refused
  /\ inhibitors' = IF lock THEN inhibitors - 1 ELSE inhibitors
  /\ Goto("coord", "wait")
  /\ UNCHANGED <<handlers, claim, sleepPending, signals, subscribed, system, bus, excused, bounds>>

\* Mutant: the resume does not take a new inhibitor.
ResumedUnarmed ==
  /\ Receive(FALSE)
  /\ Goto("coord", "resumed")
  /\ UNCHANGED <<handlers, claim, sleepPending, file, inhibitors, subscribed, system, bus, excused, bounds>>

\* PrepareForSleep(false): re-arm, let the watchdog on, attach.
Resumed ==
  /\ Receive(FALSE)
  /\ TakeInhibitor
  /\ Goto("coord", "resumed")
  /\ UNCHANGED <<handlers, claim, sleepPending, subscribed, system, bus, excused>>

\* Mutant: sleepPending is not cleared.
ClearPendingForgotten ==
  /\ At("coord", "resumed")
  /\ Goto("coord", "attach")
  /\ UNCHANGED <<handlers, claim, sleepPending, file, inhibitors, signals, subscribed, system, bus, excused, bounds>>

\* The garbage collector finalizes a file that was dropped unclosed.
Finalized ==
  /\ system # "suspended"
  /\ inhibitors > (IF lock THEN 1 ELSE 0)
  /\ inhibitors' = inhibitors - 1
  /\ UNCHANGED <<pc, handlers, claim, sleepPending, file, signals, subscribed, system, bus, excused, bounds>>

ClearPending ==
  /\ At("coord", "resumed")
  /\ sleepPending' = FALSE
  /\ Goto("coord", "attach")
  /\ UNCHANGED <<handlers, claim, file, inhibitors, signals, subscribed, system, bus, excused, bounds>>

\* The channel is closed when the bus is lost, and the loop ends.
SignalsClosed ==
  /\ At("coord", "wait")
  /\ ~bus
  /\ signals = <<>>
  /\ Goto("coord", "ended")
  /\ UNCHANGED <<handlers, claim, sleepPending, file, inhibitors, signals, subscribed, system, bus, excused, bounds>>

-----------------------------------------------------------------------------
(* The server, the kernel, logind and the bus. *)

\* The handler of a dropped connection ends and releases the claim.
ClaimReleased ==
  /\ system # "suspended"
  /\ claim
  /\ served = 0
  /\ \A g \in Goroutines : pc[g] # "bind"
  /\ claim' = FALSE
  /\ UNCHANGED <<pc, handlers, sleepPending, file, inhibitors, signals, subscribed, system, bus, excused, bounds>>

\* handleCommands ends by a panic while the kernel uses the port: a command the
\* device does not know, or a transfer read short.
HandlerGivesUp ==
  /\ system # "suspended"
  /\ served > 0
  /\ panics < MaxPanics
  /\ panics' = panics + 1
  /\ served' = served - 1
  /\ forsaken' = forsaken + 1
  /\ claim' = FALSE
  /\ UNCHANGED <<pc, sleepPending, file, inhibitors, signals, subscribed, system, bus, excused,
                 suspends, drops, failures, busLosses>>

PortDrops ==
  /\ system # "suspended"
  /\ \/ served > 0 /\ served' = served - 1 /\ UNCHANGED forsaken
     \/ forsaken > 0 /\ forsaken' = forsaken - 1 /\ UNCHANGED served
  /\ drops < MaxDrops
  /\ drops' = drops + 1
  /\ UNCHANGED <<pc, claim, sleepPending, file, inhibitors, signals, subscribed, system, bus, excused,
                 suspends, failures, panics, busLosses>>

Emit(goingDown) ==
  signals' = IF bus /\ subscribed THEN Append(signals, goingDown) ELSE signals

\* The coordinator holds a delay lock and will handle the next announcement
\* before it lets go of it.
Armed == lock /\ bus /\ signals = <<>> /\ pc["coord"] \in {"wait", "resumed", "attach", "bind"}

Announce ==
  /\ system = "awake"
  /\ suspends < MaxSuspends
  /\ suspends' = suspends + 1
  /\ system' = "preparing"
  /\ Emit(TRUE)
  /\ excused' = ~Armed
  /\ UNCHANGED <<pc, handlers, claim, sleepPending, file, inhibitors, subscribed, bus, drops, failures, panics, busLosses>>

\* The last delay lock is gone, or InhibitDelayMaxSec is over.
Proceed ==
  /\ system = "preparing"
  /\ IF ports = 0
     THEN system' = "suspended" /\ UNCHANGED signals
     ELSE system' = "awake" /\ Emit(FALSE)   \* -EBUSY: the attempt fails
  /\ UNCHANGED <<pc, handlers, claim, sleepPending, file, inhibitors, subscribed, bus, bounds>>

LocksGone  == inhibitors = 0 /\ Proceed /\ UNCHANGED excused
CapExpires == inhibitors > 0 /\ Proceed /\ excused' = TRUE

Resume ==
  /\ system = "suspended"
  /\ system' = "awake"
  /\ Emit(FALSE)
  /\ UNCHANGED <<pc, handlers, claim, sleepPending, file, inhibitors, subscribed, bus, excused, bounds>>

BusLost ==
  /\ bus
  /\ busLosses < MaxBusLosses
  /\ busLosses' = busLosses + 1
  /\ bus' = FALSE
  /\ UNCHANGED <<pc, handlers, claim, sleepPending, file, inhibitors, signals, subscribed, system, excused,
                 suspends, drops, failures, panics>>

-----------------------------------------------------------------------------
Attach(g) == AttachImports(g) \/ AttachBinds(g) \/ AttachRefused(g) \/ AttachFails(g)

MainStep  == Attach("main") \/ Subscribe \/ StartCoordinator \/ WatchdogWakes \/ WatchdogLooks
CoordStep == Attach("coord") \/ GoingDown \/ Detach \/ ReleaseInhibitor \/ Resumed \/ ClearPending
             \/ SignalsClosed
Logind    == LocksGone \/ CapExpires \/ Resume

Next == MainStep \/ CoordStep \/ Logind \/ Announce \/ ClaimReleased \/ HandlerGivesUp
        \/ Finalized \/ PortDrops \/ BusLost

Spec == Init /\ [][Next]_vars

\* Goroutines, the server's handler and logind (its cap, and a machine that
\* is woken up) go on; announcements, drops and losses may stay away.
Fairness == WF_vars(MainStep) /\ WF_vars(CoordStep) /\ WF_vars(ClaimReleased) /\ WF_vars(Logind)

FairSpec == Spec /\ Fairness

-----------------------------------------------------------------------------
(* Properties. *)

TypeOK ==
  /\ pc \in [main : {"attach", "bind", "subscribe", "inhibit", "watch", "look"},
             coord : {"none", "wait", "detach", "release", "resumed", "attach", "bind", "ended"}]
  /\ served \in Nat /\ forsaken \in Nat
  /\ inhibitors \in Nat
  /\ claim \in BOOLEAN /\ sleepPending \in BOOLEAN /\ lock \in BOOLEAN /\ refused \in BOOLEAN
  /\ subscribed \in BOOLEAN /\ bus \in BOOLEAN /\ excused \in BOOLEAN
  /\ signals \in Seq(BOOLEAN)
  /\ system \in {"awake", "preparing", "suspended"}
  /\ suspends \in 0 .. MaxSuspends
  /\ drops \in 0 .. MaxDrops
  /\ failures \in 0 .. MaxFailures
  /\ panics \in 0 .. MaxPanics
  /\ busLosses \in 0 .. MaxBusLosses

\* Startup, watchdog and resume may all attach, at the same time, and a port
\* whose handler has given up may stay in use beside a new one: the claim of the
\* server leaves one import through, and two never drive the device at once
\* (usbip_server.go:18-20, 136-143).
AtMostOneServed ==
  /\ served <= 1
  /\ served = 1 => claim /\ \A g \in Goroutines : pc[g] # "bind"

\* Once the coordinator has handled all that logind said and the machine is
\* awake, the watchdog is free to attach again, and the delay lock is held
\* unless the last call for it failed: no sequence of suspends leaves it behind.
CaughtUp ==
  bus /\ system = "awake" /\ signals = <<>> /\ pc["coord"] = "wait"
    => ~sleepPending /\ (lock \/ refused)

\* "Order matters": with the delay lock in place, a suspend attempt meets our
\* port only if a detach failed, the cap expired, or an attach slipped in
\* after the announcement was handled (sleep_linux.go:115-118).
SuspendMeetsPortOnlyExcused ==
  [][system = "preparing" /\ ports > 0 /\ system' = "awake" => excused']_vars

\* Suspends, drops and failures come and go, and in the end the authenticator
\* is attached, served, and stays so, as long as the bus holds and no port whose
\* handler gave up is left in use, which the watchdog takes for a live one.
AttachedInTheEnd == <>[](served = 1) \/ <>[](forsaken > 0) \/ <>~bus

-----------------------------------------------------------------------------
(* What the comments say. *)

\* sleep_linux.go:54-57: the watchdog cannot re-attach into the window between
\* the detach and the kernel going down.
NoAttachWhilePending ==
  [][sleepPending /\ sleepPending' => ports' <= ports]_vars

\* sleep_linux.go:73-76: a broken bus must not take the authenticator down.
BrokenBusKeepsAuthenticator == <>[](served = 1)

\* server_linux.go:181-184: any port in use means that the authenticator is live;
\* one that is not is attached again.
InUseMeansLive == [](ports > 0 => <>(served > 0 \/ ports = 0))
=============================================================================
