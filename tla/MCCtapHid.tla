------------------------------ MODULE MCCtapHid ------------------------------
(* CtapHid for TLC. *)
EXTENDS CtapHid, TLC

\* The clients are alike: which of them has the channel id from before a
\* restart, and which cancels, makes no difference.
ClientSymmetry == Permutations(Clients)
==============================================================================
