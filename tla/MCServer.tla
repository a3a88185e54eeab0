------------------------------ MODULE MCServer -----------------------------
(* Small instances of Server for TLC. *)
EXTENDS Server, TLC

CONSTANTS c1, c2, c3

Symmetry == Permutations(Conn)

============================================================================
