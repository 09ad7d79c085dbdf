---------------------------- MODULE MCFatSession ----------------------------
(***************************************************************************)
(* Small instance of FatSession: /top/sub, a file f beside top and a       *)
(* file g in top.  f is the second entry of the root directory, the one    *)
(* that ".." into top is mistaken for.  The three handles are the current  *)
(* directory, the current file and the one a command needs in between.     *)
(***************************************************************************)
EXTENDS FatSession, TLC

CONSTANTS root, top, sub, f, g

MCChildren == root :> <<top, f>> @@ top :> <<g, sub>> @@ sub :> <<>>

MCPaths ==
  [abs : {FALSE}, tokens : {<<"..">>, <<".">>, <<top>>, <<sub>>, <<f>>, <<"..", ".">>,
                            <<"..", g>>, <<sub, "..">>, <<f, "..">>, <<"missing">>}]
    \cup [abs : {TRUE}, tokens : {<<>>, <<top, sub>>, <<f>>, <<top, ".">>, <<"", top>>}]
=============================================================================
