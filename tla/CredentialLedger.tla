-------------------------- MODULE CredentialLedger --------------------------
(***************************************************************************)
(* What the vault promises to relying parties, without memory, files or    *)
(* ceremonies: a ledger that only grows, in which a credential is entered  *)
(* before its relying party is told of it, and a counter before anything   *)
(* is signed with it.  After an accident it promises nothing.              *)
(***************************************************************************)
EXTENDS Naturals, Sequences

CONSTANT Credentials

VARIABLES
  creds,    \* credentials entered
  counter,  \* and their counters
  acked,    \* credentials a relying party was told of
  signed,   \* per credential, the counters of its assertions
  void      \* an accident has happened

vars == <<creds, counter, acked, signed, void>>

Init ==
  /\ creds = {}
  /\ counter = [c \in Credentials |-> 0]
  /\ acked = {}
  /\ signed = [c \in Credentials |-> <<>>]
  /\ void = FALSE

\* Nothing entered is taken back.
Enter ==
  /\ creds \subseteq creds'
  /\ \A c \in Credentials : counter[c] <= counter'[c]
  /\ UNCHANGED <<acked, signed, void>>

Acknowledge(c) ==
  /\ c \in creds
  /\ acked' = acked \union {c}
  /\ UNCHANGED <<creds, counter, signed, void>>

\* With a value that is entered, and was not used before.
Sign(c, n) ==
  /\ c \in creds
  /\ n <= counter[c]
  /\ \A i \in DOMAIN signed[c] : signed[c][i] < n
  /\ signed' = [signed EXCEPT ![c] = Append(@, n)]
  /\ UNCHANGED <<creds, counter, acked, void>>

Next ==
  \/ void'
  \/ Enter
  \/ \E c \in Credentials : Acknowledge(c) \/ \E n \in 0 .. counter[c] : Sign(c, n)

Spec == Init /\ [][Next]_vars
=============================================================================
