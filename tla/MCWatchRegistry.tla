--------------------------- MODULE MCWatchRegistry ---------------------------
(* Small instances of WatchRegistry for TLC. *)
EXTENDS WatchRegistry, TLC

(* Calls and addresses are only compared: any permutation of them is sound *)
(* for safety properties.                                                  *)
Symmetry == Permutations(Call) \union Permutations(Addr)
=============================================================================
