-------------------------- MODULE MCPluginLifetime --------------------------
(* Instances of PluginLifetime for TLC. *)
EXTENDS PluginLifetime, TLC

Symmetry == Permutations(Sessions)

\* Bound: where a mark_serving sets something after quiesce, one session at
\* most is still on its way or leaves a lease to the background task.
Busy == {s \in Sessions : seat[s] # "out" \/ lease[s] \in AtWork \cup Overdue}

OneBusyOnceRepublished == republished # {} => Cardinality(Busy) <= 1
=============================================================================
