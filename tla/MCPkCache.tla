----------------------------- MODULE MCPkCache ------------------------------
(***************************************************************************)
(* Small instances of PkCacheTasks.                                        *)
(***************************************************************************)
EXTENDS PkCacheTasks, TLC

Symmetry == Permutations(Task) \cup Permutations(Pk) \cup Permutations(Ctx)
              \cup Permutations(Cell)
=============================================================================
