-------------------------- MODULE MCStableSnapshot --------------------------
(* StableSnapshot for TLC.                                                  *)
EXTENDS StableSnapshot

\* An importer that never copied anything.
EmptyCopies == {[s \in Sessions |-> {}]}
=============================================================================
