----------------------------- MODULE ReportPipe -----------------------------
(***************************************************************************)
(* What the interrupt-IN endpoint of the authenticator promises its host:  *)
(* the reports of the HID layer leave in the order they were produced,     *)
(* each in the answer to one request; a request is answered once, with the *)
(* next report or (after its timeout) with an empty one, or is cancelled   *)
(* and then never answered.  Locks, goroutines and the socket are gone.    *)
(***************************************************************************)
EXTENDS Naturals

CONSTANTS Ids,        \* the sequence numbers of the host's requests
          MaxReports  \* bound on the reports the HID layer produces

VARIABLES
  produced,   \* reports handed to the pipe so far; report n is the n-th one
  delivered,  \* reports that reached the host, always 1 .. delivered
  outcome     \* what became of each request

vars == <<produced, delivered, outcome>>

Unsent    == [state |-> "unsent",    report |-> 0]
Open      == [state |-> "open",      report |-> 0]
Cancelled == [state |-> "cancelled", report |-> 0]
Answered(report) == [state |-> "answered", report |-> report]

Init ==
  /\ produced = 0
  /\ delivered = 0
  /\ outcome = [id \in Ids |-> Unsent]

\* The host asks for a report.
Submit(id) ==
  /\ outcome[id] = Unsent
  /\ outcome' = [outcome EXCEPT ![id] = Open]
  /\ UNCHANGED <<produced, delivered>>

\* The HID layer hands over its next report.
Produce ==
  /\ produced < MaxReports
  /\ produced' = produced + 1
  /\ UNCHANGED <<delivered, outcome>>

\* A request gets the oldest report not delivered yet.
Deliver(id) ==
  /\ delivered < produced
  /\ outcome[id] = Open
  /\ delivered' = delivered + 1
  /\ outcome' = [outcome EXCEPT ![id] = Answered(delivered + 1)]
  /\ UNCHANGED produced

\* A request whose time is up gets an empty report (0).
Expire(id) ==
  /\ outcome[id] = Open
  /\ outcome' = [outcome EXCEPT ![id] = Answered(0)]
  /\ UNCHANGED <<produced, delivered>>

\* The host takes a request back before it was answered.
Cancel(id) ==
  /\ outcome[id] = Open
  /\ outcome' = [outcome EXCEPT ![id] = Cancelled]
  /\ UNCHANGED <<produced, delivered>>

Next ==
  \/ Produce
  \/ \E id \in Ids : Submit(id) \/ Deliver(id) \/ Expire(id) \/ Cancel(id)

Spec == Init /\ [][Next]_vars
=============================================================================
