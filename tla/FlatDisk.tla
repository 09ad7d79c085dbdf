------------------------------ MODULE FlatDisk ------------------------------
(***************************************************************************)
(* What the driver interface of a virtual disk promises (VDISK_DRIVER in   *)
(* vdisk.h): an array of Size units.  A request in bounds may be refused,  *)
(* but one that is acknowledged did exactly what was asked, and nothing    *)
(* else changes the contents: not a refused write, not a request that was  *)
(* cut short, not closing and reopening the disk.                          *)
(***************************************************************************)
EXTENDS Naturals

CONSTANTS
  Size,   \* units in the disk
  Val,    \* values of a unit
  Zero    \* the value of a unit never written

VARIABLES
  vdata,  \* the contents
  out     \* the last reply

vars == <<vdata, out>>

NoReply == [op |-> "none", off |-> 0, len |-> 0, ok |-> FALSE, value |-> <<>>]

Reply(op, off, len, ok, value) ==
  [op |-> op, off |-> off, len |-> len, ok |-> ok, value |-> value]

Slice(off, len) == [k \in 1 .. len |-> vdata[off + k - 1]]

Init ==
  /\ vdata = [u \in 0 .. Size - 1 |-> Zero]
  /\ out = NoReply

InBounds(off, len) == len > 0 /\ off + len <= Size

Read(off, len) ==
  /\ InBounds(off, len)
  /\ out' = Reply("read", off, len, TRUE, Slice(off, len))
  /\ UNCHANGED vdata

Write(off, len, v) ==
  /\ InBounds(off, len)
  /\ vdata' = [u \in 0 .. Size - 1 |-> IF u \in off .. off + len - 1 THEN v ELSE vdata[u]]
  /\ out' = Reply("write", off, len, TRUE, <<>>)

Refuse(op, off, len) ==
  /\ out' = Reply(op, off, len, FALSE, <<>>)
  /\ UNCHANGED vdata

Forget ==
  /\ out' = NoReply
  /\ UNCHANGED vdata

Next ==
  \/ \E off \in 0 .. Size, len \in 1 .. Size :
       \/ Read(off, len)
       \/ \E v \in Val : Write(off, len, v)
       \/ \E op \in {"read", "write"} : Refuse(op, off, len)
  \/ Forget

Spec == Init /\ [][Next]_vars
=============================================================================
