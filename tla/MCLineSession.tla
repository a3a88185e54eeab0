--------------------------- MODULE MCLineSession ---------------------------
(* LineSession with the separator of its default argument. *)
EXTENDS LineSession

CONSTANTS r, n, x

CRLF == <<r, n>>

============================================================================
