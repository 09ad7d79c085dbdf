----------------------------- MODULE DynamicVhd -----------------------------
(***************************************************************************)
(* The sparse disk driver of vhd.c: reads and writes of a dynamic VHD, the *)
(* allocation of a block on the first write to it, which grows the file    *)
(* (expandVDISKFile, setEOF) and moves the footer to the new end, and what *)
(* detection makes of the file when it is opened again.                    *)
(*                                                                         *)
(* A write is several steps, because the process can be killed between any *)
(* two of them and the file keeps what was done; each system call can      *)
(* fail.  Offsets and lengths count units of the granularity that callers  *)
(* use; a footer and a unit have the same size.                            *)
(*                                                                         *)
(*   0        BatOffset   HeaderEnd                      eof - 1           *)
(*   | copy of the footer, header, BAT | bitmap block ... | footer |       *)
(***************************************************************************)
EXTENDS Integers, FiniteSets

CONSTANTS
  BlockSize,    \* bs: units in a block
  BitmapSize,   \* btmp_s: units of the sector bitmap before a block's data
  MaxEntries,   \* drv->max_entries: blocks in the table
  BatOffset,    \* drv->bat_offset
  HeaderEnd,    \* end of the header area of a new, empty disk
  SwappedSize,  \* current_size as the write path reads it, without swapping its bytes
  MaxLength,    \* bound: the longest request
  MaxOffset,    \* bound: the largest offset a table entry can express ("Disk too big!")
  Val, Zero,    \* contents of a unit
  Junk,         \* what the bytes of a footer look like as data
  Unused        \* a table entry of 0xFFFFFFFF

Blocks == 0 .. MaxEntries - 1
Size == MaxEntries * BlockSize
Extent == BitmapSize + BlockSize      \* exp: what one allocation adds to the file

ASSUME SizesAssumption ==
  /\ BlockSize \in Nat \ {0} /\ BitmapSize \in Nat \ {0} /\ MaxEntries \in Nat \ {0}
  /\ BatOffset \in Nat /\ HeaderEnd \in Nat /\ BatOffset < HeaderEnd
  /\ SwappedSize \in Nat
  /\ MaxLength \in 1 .. Size
  /\ MaxOffset \in Nat /\ HeaderEnd <= MaxOffset
ASSUME ValuesAssumption == Zero \in Val /\ Junk \notin Val /\ Unused \notin Nat

VARIABLES
  \* the file
  eof,            \* its length
  footers,        \* offsets of units that hold a footer
  bat,            \* block allocation table: where each block starts
  data,           \* the other units
  \* the process
  mode,           \* "closed", "dynamic", or "raw" when detection saw no VHD
  length,         \* vdisk->length
  mapped,         \* vdisk->buffer is a view of the file
  footer_offset,  \* drv->footer_offset
  pc,             \* the step of dynamicVHDWrite that runs next, "idle" between requests
  req,            \* the write in progress
  out             \* the last reply

file == <<eof, footers, bat, data>>
process == <<mode, length, mapped, footer_offset>>
vars == <<eof, footers, bat, data, mode, length, mapped, footer_offset, pc, req, out>>

Cell(o) == IF o \in footers THEN Junk ELSE data[o]

(* The contents the file stands for.                                       *)
VData == [u \in 0 .. Size - 1 |->
            IF bat[u \div BlockSize] = Unused THEN Zero
            ELSE Cell(bat[u \div BlockSize] + BitmapSize + (u % BlockSize))]

F == INSTANCE FlatDisk WITH vdata <- VData

NoReq == [off |-> 0, len |-> 0, val |-> Zero, f_off |-> 0, status |-> FALSE]

Steps == {"idle", "set eof", "set allocation", "remap", "copy footer", "zero footer",
          "set entry", "store"}

FileTyped ==
  /\ eof \in Nat
  /\ footers \subseteq 0 .. MaxOffset
  /\ bat \in [Blocks -> (0 .. MaxOffset) \cup {Unused}]
  /\ data \in [0 .. MaxOffset -> Val]

ProcessTyped ==
  /\ mode \in {"closed", "dynamic", "raw"}
  /\ length \in Nat
  /\ footer_offset \in 0 .. MaxOffset

RequestTyped ==
  /\ pc \in Steps
  /\ req \in [off : Nat, len : Nat, val : Val, f_off : 0 .. MaxOffset, status : BOOLEAN]

TypeOK == FileTyped /\ ProcessTyped /\ RequestTyped /\ mapped \in BOOLEAN

(* A disk as "create vdisk" makes it: no block allocated, not yet open.    *)
Init ==
  /\ eof = HeaderEnd + 1
  /\ footers = {HeaderEnd}
  /\ bat = [b \in Blocks |-> Unused]
  /\ data = [o \in 0 .. MaxOffset |-> Zero]
  /\ mode = "closed"
  /\ length = 0
  /\ mapped = FALSE
  /\ footer_offset = 0
  /\ pc = "idle"
  /\ req = NoReq
  /\ out = F!NoReply

-----------------------------------------------------------------------------
(* Of requests that begin and end with a unit, as those of all callers do. *)
(* In bytes the end is decremented twice, so that a request of one byte at *)
(* the start of a block has its last block before its first, and gets to   *)
(* the branches for several blocks.                                        *)
FirstBlock(off) == off \div BlockSize
LastBlock(off, len) == (off + len - 1) \div BlockSize
InBlock(off) == off % BlockSize
ReqBlock == FirstBlock(req.off)

Serving == mode = "dynamic" /\ pc = "idle"

Refuse(op, off, len) == out' = F!Reply(op, off, len, FALSE, <<>>)

(* A block must lie between the table and the footer.                      *)
BadOffset(o, f_off) == o >= f_off \/ o <= BatOffset

(* dynamicVHDRead.  The test for a last block before the first one has its *)
(* operands swapped, so it refuses every read that spans two blocks.       *)
ReadRefused(off, len) ==
  \/ off + len > Size
  \/ LastBlock(off, len) >= MaxEntries
  \/ LastBlock(off, len) > FirstBlock(off)
  \/ /\ bat[FirstBlock(off)] # Unused
     /\ BadOffset(bat[FirstBlock(off)], footer_offset)

BytesRead(off, len) ==
  LET b == FirstBlock(off) IN
  [k \in 1 .. len |-> IF bat[b] = Unused THEN Zero
                      ELSE Cell(bat[b] + BitmapSize + InBlock(off) + k - 1)]

Read(off, len) ==
  /\ Serving
  /\ mapped
  /\ IF ReadRefused(off, len) THEN Refuse("read", off, len)
     ELSE out' = F!Reply("read", off, len, TRUE, BytesRead(off, len))
  /\ UNCHANGED <<file, process, pc, req>>

-----------------------------------------------------------------------------
\* mutant: no test for a disk that is too big
WriteRefusedUnbounded(off, len) ==
  \/ off + len > SwappedSize
  \/ LastBlock(off, len) >= MaxEntries
  \/ LastBlock(off, len) > FirstBlock(off)

(* dynamicVHDWrite up to the allocation.  Its bound is the size with the   *)
(* bytes in the wrong order.                                               *)
WriteRefused(off, len) ==
  \/ off + len > SwappedSize
  \/ LastBlock(off, len) >= MaxEntries
  \/ LastBlock(off, len) > FirstBlock(off)
  \/ /\ bat[FirstBlock(off)] = Unused
     /\ footer_offset + Extent > MaxOffset

BeginWrite(off, len, v) ==
  /\ Serving
  /\ mapped
  /\ IF WriteRefused(off, len)
     THEN Refuse("write", off, len) /\ UNCHANGED <<pc, req>>
     ELSE /\ req' = [off |-> off, len |-> len, val |-> v,
                     f_off |-> footer_offset, status |-> FALSE]
          /\ pc' = IF bat[FirstBlock(off)] = Unused THEN "set eof" ELSE "store"
          /\ out' = F!NoReply
  /\ UNCHANGED <<file, process>>

(* expandVDISKFile: the view goes, then setEOF sets the end of file and    *)
(* the allocation size in two calls, then the file is mapped again.        *)
SetEOF ==
  /\ pc = "set eof"
  /\ mapped' = FALSE
  /\ \/ eof' = length + Extent /\ pc' = "set allocation"
     \/ eof' = eof /\ pc' = "remap"
  /\ UNCHANGED <<footers, bat, data, mode, length, footer_offset, req, out>>

\* mutant: vdisk->length is not updated
SetAllocationKeepsLength ==
  /\ pc = "set allocation"
  /\ req' \in {req, [req EXCEPT !.status = TRUE]}
  /\ pc' = "remap"
  /\ UNCHANGED <<file, mode, length, mapped, footer_offset, out>>

SetAllocation ==
  /\ pc = "set allocation"
  /\ \/ length' = length + Extent /\ req' = [req EXCEPT !.status = TRUE]
     \/ UNCHANGED <<length, req>>
  /\ pc' = "remap"
  /\ UNCHANGED <<file, mode, mapped, footer_offset, out>>

\* mutant: the old footer is cleared before it is copied
RemapZeroFirst ==
  /\ pc = "remap"
  /\ mapped' \in BOOLEAN
  /\ IF mapped' /\ req.status
     THEN pc' = "zero footer" /\ UNCHANGED <<req, out>>
     ELSE pc' = "idle" /\ req' = NoReq /\ Refuse("write", req.off, req.len)
  /\ UNCHANGED <<file, mode, length, footer_offset>>

Remap ==
  /\ pc = "remap"
  /\ mapped' \in BOOLEAN
  /\ IF mapped' /\ req.status
     THEN pc' = "copy footer" /\ UNCHANGED <<req, out>>
     ELSE pc' = "idle" /\ req' = NoReq /\ Refuse("write", req.off, req.len)
  /\ UNCHANGED <<file, mode, length, footer_offset>>

CopyFooter ==
  /\ pc = "copy footer"
  /\ footers' = IF req.f_off \in footers THEN footers \cup {req.f_off + Extent} ELSE footers
  /\ pc' = "zero footer"
  /\ UNCHANGED <<eof, bat, data, process, req, out>>

ZeroFooter ==
  /\ pc = "zero footer"
  /\ footers' = footers \ {req.f_off}
  /\ data' = [data EXCEPT ![req.f_off] = Zero]
  /\ pc' = "set entry"
  /\ UNCHANGED <<eof, bat, process, req, out>>

\* mutant: the driver keeps the old offset of the footer
SetEntryKeepsFooter ==
  /\ pc = "set entry"
  /\ bat' = [bat EXCEPT ![ReqBlock] = footer_offset]
  /\ pc' = "store"
  /\ UNCHANGED <<eof, footers, data, mode, length, mapped, footer_offset, req, out>>

(* The entry is written through a pointer into the view that               *)
(* expandVDISKFile took away: it works when the new view is at the same    *)
(* address, and is an access violation when it is not (LostEntry).         *)
SetEntry ==
  /\ pc = "set entry"
  /\ bat' = [bat EXCEPT ![ReqBlock] = footer_offset]
  /\ footer_offset' = footer_offset + Extent
  /\ pc' = "store"
  /\ UNCHANGED <<eof, footers, data, mode, length, mapped, req, out>>

\* mutant: the data is stored at the block's bitmap
StoreAtBitmap ==
  LET start == bat[ReqBlock]
      target == {start + InBlock(req.off) + k - 1 : k \in 1 .. req.len}
  IN
  /\ pc = "store"
  /\ IF BadOffset(start, req.f_off)
     THEN Refuse("write", req.off, req.len) /\ UNCHANGED <<data, footers>>
     ELSE /\ data' = [o \in DOMAIN data |-> IF o \in target THEN req.val ELSE data[o]]
          /\ footers' = footers \ target
          /\ out' = F!Reply("write", req.off, req.len, TRUE, <<>>)
  /\ pc' = "idle"
  /\ req' = NoReq
  /\ UNCHANGED <<eof, bat, process>>

(* The range check compares with the footer's offset at the start of the   *)
(* request, so it refuses the block this request allocated.                *)
Store ==
  LET start == bat[ReqBlock] + BitmapSize
      target == {start + InBlock(req.off) + k - 1 : k \in 1 .. req.len}
  IN
  /\ pc = "store"
  /\ IF BadOffset(start, req.f_off)
     THEN Refuse("write", req.off, req.len) /\ UNCHANGED <<data, footers>>
     ELSE /\ data' = [o \in DOMAIN data |-> IF o \in target THEN req.val ELSE data[o]]
          /\ footers' = footers \ target
          /\ out' = F!Reply("write", req.off, req.len, TRUE, <<>>)
  /\ pc' = "idle"
  /\ req' = NoReq
  /\ UNCHANGED <<eof, bat, process>>

-----------------------------------------------------------------------------
(* A request on a disk that lost its view reads through a null pointer:    *)
(* the process dies.  It can also be killed at any time.                   *)
Dead ==
  /\ mode' = "closed"
  /\ length' = 0
  /\ mapped' = FALSE
  /\ footer_offset' = 0
  /\ pc' = "idle"
  /\ req' = NoReq
  /\ out' = F!NoReply

NullView ==
  /\ Serving
  /\ ~ mapped
  /\ Dead
  /\ UNCHANGED file

LostEntry ==
  /\ pc = "set entry"
  /\ Dead
  /\ UNCHANGED file

Killed ==
  /\ mode # "closed"
  /\ Dead
  /\ UNCHANGED file

Close ==
  /\ mode # "closed"
  /\ pc = "idle"
  /\ mode' = "closed"
  /\ length' = 0
  /\ mapped' = FALSE
  /\ footer_offset' = 0
  /\ out' = F!NoReply
  /\ UNCHANGED <<file, pc, req>>

(* isVHDPresent looks for the footer in the last unit of the file only;    *)
(* setVHDDriver takes its offset from there.                               *)
Open ==
  /\ mode = "closed"
  /\ mapped' = TRUE
  /\ length' = eof
  /\ IF eof - 1 \in footers
     THEN mode' = "dynamic" /\ footer_offset' = eof - 1
     ELSE mode' = "raw" /\ UNCHANGED footer_offset
  /\ UNCHANGED <<file, pc, req, out>>

Next ==
  \/ \E off \in 0 .. Size, len \in 1 .. MaxLength :
       \/ Read(off, len)
       \/ \E v \in Val : BeginWrite(off, len, v)
  \/ SetEOF
  \/ SetAllocation
  \/ Remap
  \/ CopyFooter
  \/ ZeroFooter
  \/ SetEntry
  \/ Store
  \/ NullView
  \/ LostEntry
  \/ Killed
  \/ Close
  \/ Open

Spec == Init /\ [][Next]_vars

-----------------------------------------------------------------------------
Allocated == {b \in Blocks : bat[b] # Unused}
Extents(b) == bat[b] .. bat[b] + Extent - 1

(* Allocated blocks lie between the table and the footer, never on each    *)
(* other and never on a footer, at every step of an allocation and after   *)
(* any cut (the file keeps what dynamicVHDWrite had done): what one block  *)
(* stores cannot change another or the disk's own structures.              *)
BlocksApart ==
  /\ \A b \in Allocated :
       /\ HeaderEnd <= bat[b]
       /\ bat[b] + Extent < eof
       /\ footers \cap Extents(b) = {}
  /\ \A b, c \in Allocated : b # c => Extents(b) \cap Extents(c) = {}
  /\ \A o \in footers : HeaderEnd <= o /\ o < eof

(* Killing the process or failing a system call during an allocation can   *)
(* hide the footer from isVHDPresent, but never lose it: there is one at   *)
(* the end of the file or one extent before, and every block lies before   *)
(* it (the footer is copied before it is cleared, and the table entry is   *)
(* written last).                                                          *)
FooterRecoverable ==
  \E o \in footers :
    /\ o \in {eof - 1, eof - 1 - Extent}
    /\ \A b \in Allocated : bat[b] + Extent <= o

(* Between requests the driver's own offset is that of a footer, the last  *)
(* unit of the view, also after an allocation that failed half way: the    *)
(* size, the bound of every request and the place of the next block are    *)
(* read through it.                                                        *)
DriverKnowsFooter ==
  mode = "dynamic" /\ pc = "idle" /\ mapped =>
    /\ footer_offset \in footers
    /\ length = footer_offset + 1
    /\ length <= eof

(* The sparse file behaves as a flat array: an acknowledged write is there *)
(* for every later read, a refused or interrupted one changes nothing, and *)
(* neither allocation nor crash nor reopening changes any content.         *)
ImplementsFlatDisk == F!Spec

(* Refuted.  vhd.c:116 refuses with "Negative read length not possible!",  *)
(* and only that; its test refuses every read over two blocks.             *)
ReadsInBoundsServed ==
  out.op = "read" /\ out.off + out.len <= Size => out.ok
=============================================================================
