---------------------------- MODULE MCFileStore ----------------------------
(***************************************************************************)
(* Instances of FileStore for TLC.                                         *)
(***************************************************************************)
EXTENDS FileStore, TLC

\* Only posts can be exchanged: every run tells readers and writers apart.
Symmetry == Permutations(Posts)

=============================================================================
