----------------------------- MODULE MCKeyCache -----------------------------
(***************************************************************************)
(* Two calls over two keys.  A period of two ticks is enough for a hit in  *)
(* either half of it, and a derivation of one for the Broker's key to      *)
(* change while it is on its way.                                          *)
(***************************************************************************)
EXTENDS KeyCache
=============================================================================
