---------------------------- MODULE MCCtapServer ----------------------------
(***************************************************************************)
(* CtapServer for the run of its invariants: the channels are alike, no    *)
(* action and no invariant tells one from another.                         *)
(***************************************************************************)
EXTENDS CtapServer, TLC

Symmetry == Permutations(Channels)
=============================================================================
