---------------------------- MODULE MCOperations ----------------------------
(* Small instances of Operations for TLC. *)
EXTENDS Operations, TLC

(* Calls are only compared: sound for safety properties. *)
Symmetry == Permutations(Call)
=============================================================================
