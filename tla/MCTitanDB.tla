----------------------------- MODULE MCTitanDB -----------------------------
(***************************************************************************)
(* Instances of TitanDB for TLC.                                           *)
(***************************************************************************)
EXTENDS TitanDBRefinement, TLC

\* Readers and workers are interchangeable; keys are ordered and are not.
Symmetry == Permutations(Reader) \cup Permutations(Worker)
=============================================================================
