---------------------------- MODULE MCTiedotStore ----------------------------
(***************************************************************************)
(* Instances of TiedotStore for TLC.                                       *)
(***************************************************************************)
EXTENDS TiedotStore, TLC

\* Only posts can be exchanged: every run tells readers and writers apart.
Symmetry == Permutations(Posts)

=============================================================================
