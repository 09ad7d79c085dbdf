---------------------------- MODULE MCNtfsDriver ----------------------------
(***************************************************************************)
(* Small instance of NtfsDriver.  The root lists itself as ".", as NTFS    *)
(* does; the directory top has a long and a short name; e is empty.  From  *)
(* top/sub/low/deep the walk comes up to top at once, and on to the file   *)
(* h.  yon ends with a hard link to g, which is in deep by its first name, *)
(* so that the walk of the root goes astray.  The root is large: of the    *)
(* names of yon the first one is in its index root and not read.  A page   *)
(* has the offsets of 3 levels and is allocated for limits up to 6, so     *)
(* that a walk of the root to the limit 5 writes behind its buffer.        *)
(***************************************************************************)
EXTENDS NtfsDriver, TLC

CONSTANTS root, top, sub, low, deep, yon, e, g, h

Item(n, f) == [name |-> n, file |-> f]

MCEntries ==
  root :> <<Item(".", root), Item("e", e), Item("top", top), Item("TOP~1", top), Item("YON~1", yon)>>
  @@ top :> <<Item("sub", sub), Item("h", h)>>
  @@ sub :> <<Item("low", low)>>
  @@ low :> <<Item("deep", deep)>>
  @@ deep :> <<Item("g", g)>>
  @@ yon :> <<Item("link", g)>>
  @@ e :> <<>>

MCUnlisted ==
  [d \in {root, top, sub, low, deep, yon, e} |-> IF d = root THEN {Item("yon", yon)} ELSE {}]

In(n, d) == [name |-> n, dir |-> d]

MCFirstName ==
  root :> In(".", root) @@ top :> In("TOP~1", root) @@ sub :> In("sub", top) @@ low :> In("low", sub)
  @@ deep :> In("deep", low) @@ g :> In("g", deep) @@ h :> In("h", top)
  @@ yon :> In("yon", root) @@ e :> In("e", root)

MCPaths ==
  {<<>>, <<"">>, <<".">>, <<"..">>, <<"top">>, <<"TOP~1", "sub">>, <<"h", "..">>, <<"YON~1", "link">>,
   <<"", "top", "..", "e">>, <<"e", "yon">>, <<"", "none">>}
=============================================================================
