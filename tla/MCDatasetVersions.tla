--------------------------- MODULE MCDatasetVersions ---------------------------
(***************************************************************************)
(* Instances of DatasetVersions for TLC: a create, an append, a repeat of  *)
(* the append and an update of the settings, at two replicas.              *)
(***************************************************************************)
EXTENDS DatasetVersions, TLC

CONSTANTS create, row, rowAgain, settings

MCSubject ==
  [q \in Requests |->
     CASE q = create -> Create
       [] q \in {row, rowAgain} -> Append_
       [] q = settings -> Settings]

\* The repeat has the key of the append.
MCKey == [q \in Requests |-> IF q = rowAgain THEN row ELSE q]

AnyReplica == Permutations(Replicas)
================================================================================
