---------------------------- MODULE MCMongoStore ----------------------------
(***************************************************************************)
(* Instances of MongoStore for TLC.                                        *)
(***************************************************************************)
EXTENDS MongoStore, TLC

\* Only posts can be exchanged: every run tells readers and writers apart.
Symmetry == Permutations(Posts)

=============================================================================
