-------------------------- MODULE MCOperationQueue --------------------------
(***************************************************************************)
(* Instances of OperationQueue for TLC.  Calls is finite, so ticket and    *)
(* arrivals never exceed its cardinality.                                  *)
(***************************************************************************)
EXTENDS OperationQueue, TLC

\* The specification treats users alike and calls alike.
Symmetry == Permutations(Users) \cup Permutations(Calls)
=============================================================================
