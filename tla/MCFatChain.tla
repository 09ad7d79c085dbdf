----------------------------- MODULE MCFatChain -----------------------------
(***************************************************************************)
(* Small instance of FatChain: every table of four clusters with a window  *)
(* of three entries, so that chains stay in it, leave it forwards and        *)
(* backwards, and close to cycles.                                         *)
(***************************************************************************)
EXTENDS FatChain
=============================================================================
