--------------------------- MODULE MCRedactWriter ---------------------------
(***************************************************************************)
(* Two Patterns that overlap each other and themselves, neither in the     *)
(* other, and every chunk of one, two or three bytes.                      *)
(***************************************************************************)
EXTENDS RedactWriter

CONSTANTS a, b, c

MCPatterns == {<<a, a, b>>, <<b, a>>}
MCChunks == UNION {[1..n -> Bytes] : n \in 1..3}
=============================================================================
