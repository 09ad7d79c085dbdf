----------------------------- MODULE MCFatWalk -----------------------------
(***************************************************************************)
(* Small instance of FatWalk: directories three deep that end each level   *)
(* but the first, so that the walk climbs one, two or three at once (which *)
(* depends on the limit), and one without entries of its own.              *)
(***************************************************************************)
EXTENDS FatWalk, TLC

CONSTANTS root, a, b, c, e, f, g

MCChildren == root :> <<e, a, f>> @@ a :> <<g, b>> @@ b :> <<c>> @@ c :> <<>> @@ e :> <<>>
=============================================================================
