---------------------------- MODULE MCTallyExport ----------------------------
(* TallyExport on small instances.                                          *)
EXTENDS TallyExport, TLC

\* Requests of one kind are interchangeable.
PushSymmetry == Permutations(Pushers) \cup Permutations(Retriers)
=============================================================================
