-------------------------- MODULE DynamicVhdProofs --------------------------
(***************************************************************************)
(* Proofs about DynamicVhd for every geometry of the disk.  The inductive  *)
(* invariant adds to the layout what the driver knows at each step of an   *)
(* allocation (DriverInv), and that space no block owns is still zero      *)
(* (Fresh), which is why a new block reads as zeros.                       *)
(***************************************************************************)
EXTENDS DynamicVhd, TLAPS

Expanding == {"set eof", "set allocation", "remap", "copy footer", "zero footer", "set entry"}
Moving == {"zero footer", "set entry"}     \* a copy of the footer is one extent on

(* Nothing has been stored outside the allocated blocks.                   *)
Fresh ==
  \A o \in 0 .. MaxOffset :
    data[o] # Zero => \E b \in Allocated : o \in Extents(b)

FootersKnown ==
  /\ pc # "set entry" => footer_offset \in footers
  /\ pc = "set entry" => footer_offset \notin footers
  /\ pc \in Moving => footer_offset + Extent \in footers
  /\ \A o \in footers :
       \/ o <= footer_offset
       \/ pc \in Moving /\ o = footer_offset + Extent

(* eof may exceed length when only the first call of setEOF succeeded.     *)
LengthKnown ==
  LET H == footer_offset + 1 IN
  /\ pc = "idle" => length \in {H, H + Extent} /\ (mapped => length = H)
  /\ pc \in {"set eof", "set allocation", "store"} => length = H
  /\ pc = "remap" => length = IF req.status THEN H + Extent ELSE H
  /\ pc \in {"copy footer"} \cup Moving => length = H + Extent
  /\ pc = "set allocation" => eof = H + Extent
  /\ eof \in {H, H + Extent}
  /\ length <= eof

RequestKnown ==
  pc # "idle" =>
    /\ ReqBlock \in Blocks
    /\ req.len > 0
    /\ InBlock(req.off) + req.len <= BlockSize
    /\ req.off + req.len <= Size
    /\ pc \in Expanding =>
         /\ req.f_off = footer_offset
         /\ bat[ReqBlock] = Unused
         /\ footer_offset + Extent <= MaxOffset
    /\ pc \in {"set eof", "set allocation"} => ~ req.status
    /\ pc = "store" => bat[ReqBlock] # Unused

DriverInv ==
  /\ pc # "idle" => mode = "dynamic"
  /\ mode = "dynamic" =>
       /\ HeaderEnd <= footer_offset
       /\ \A b \in Allocated : bat[b] + Extent <= footer_offset
       /\ FootersKnown
       /\ LengthKnown
       /\ RequestKnown

IInv == TypeOK /\ BlocksApart /\ FooterRecoverable /\ Fresh /\ DriverInv

-----------------------------------------------------------------------------
(* Division by the block size.                                             *)
LEMMA DivMod ==
  ASSUME NEW u \in Nat
  PROVE  /\ u \div BlockSize \in Nat
         /\ u % BlockSize \in 0 .. BlockSize - 1
         /\ u = BlockSize * (u \div BlockSize) + (u % BlockSize)
  BY SizesAssumption, SMT

LEMMA DivUnique ==
  ASSUME NEW B \in Nat \ {0}, NEW q \in Nat, NEW p \in Nat,
         NEW r \in 0 .. B - 1, NEW s \in 0 .. B - 1,
         B * q + r = B * p + s
  PROVE  q = p /\ r = s
<1>1. CASE q < p
  <2>1. PICK d \in Nat : d >= 1 /\ p = q + d
    <3>1. p - q \in Nat /\ p - q >= 1 /\ p = q + (p - q)  BY <1>1, SMT
    <3>. QED  BY <3>1
  <2>2. B * p = B * q + B * d  BY <2>1, SMT
  <2>3. B * d >= B  BY <2>1, SMT
  <2>. QED  BY <2>2, <2>3, SMT
<1>2. CASE p < q
  <2>1. PICK d \in Nat : d >= 1 /\ q = p + d
    <3>1. q - p \in Nat /\ q - p >= 1 /\ q = p + (q - p)  BY <1>2, SMT
    <3>. QED  BY <3>1
  <2>2. B * q = B * p + B * d  BY <2>1, SMT
  <2>3. B * d >= B  BY <2>1, SMT
  <2>. QED  BY <2>2, <2>3, SMT
<1>. QED  BY <1>1, <1>2, SMT

LEMMA Sizes ==
  /\ Extent \in Nat /\ BlockSize < Extent /\ Extent = BitmapSize + BlockSize
  /\ Size \in Nat \ {0}
<1>1. MaxEntries * BlockSize >= 1  BY SizesAssumption, SMT
<1>. QED  BY <1>1, SizesAssumption DEF Extent, Size

(* A unit of the disk belongs to one of its blocks.                        *)
LEMMA UnitInDisk ==
  ASSUME NEW u \in 0 .. Size - 1
  PROVE  u \div BlockSize \in Blocks
<1>. DEFINE q == u \div BlockSize
<1>1. u \in Nat /\ u < MaxEntries * BlockSize  BY Sizes DEF Size
<1>2. q \in Nat /\ BlockSize * q <= u  BY <1>1, DivMod, SizesAssumption, SMT
<1>. HIDE DEF q
<1>3. ASSUME q >= MaxEntries PROVE FALSE
  <2>1. PICK d \in Nat : q = MaxEntries + d
    <3>1. q - MaxEntries \in Nat /\ q = MaxEntries + (q - MaxEntries)
      BY <1>2, <1>3, SizesAssumption
    <3>. QED  BY <3>1
  <2>2. BlockSize * q = MaxEntries * BlockSize + BlockSize * d  BY <2>1, SizesAssumption, SMT
  <2>3. BlockSize * d >= 0  BY SizesAssumption, SMT
  <2>4. BlockSize * d \in Nat /\ MaxEntries * BlockSize \in Nat  BY SizesAssumption, SMT
  <2>. QED  BY <2>2, <2>3, <2>4, <1>1, <1>2, SMT
<1>4. q \in 0 .. MaxEntries - 1  BY <1>2, <1>3, SizesAssumption
<1>. QED  BY <1>4 DEF q, Blocks

(* Units of one request that stays in a block.                             *)
LEMMA SameBlock ==
  ASSUME NEW off \in Nat, NEW k \in Nat, InBlock(off) + k < BlockSize
  PROVE  /\ (off + k) \div BlockSize = FirstBlock(off)
         /\ (off + k) % BlockSize = InBlock(off) + k
<1>. DEFINE q == off \div BlockSize  r == off % BlockSize
           p == (off + k) \div BlockSize  s == (off + k) % BlockSize
<1>1. q \in Nat /\ r \in 0 .. BlockSize - 1 /\ off = BlockSize * q + r  BY DivMod
<1>2. p \in Nat /\ s \in 0 .. BlockSize - 1 /\ off + k = BlockSize * p + s  BY DivMod, off + k \in Nat
<1>3. r + k < BlockSize  BY DEF InBlock
<1>. HIDE DEF q, r, p, s
<1>4. BlockSize * q \in Nat /\ BlockSize * p \in Nat  BY <1>1, <1>2, SizesAssumption, SMT
<1>5. r + k \in 0 .. BlockSize - 1 /\ BlockSize * p + s = BlockSize * q + (r + k)
  BY <1>1, <1>2, <1>3, <1>4, SizesAssumption
<1>6. p = q /\ s = r + k
  BY <1>1, <1>2, <1>5, DivUnique, SizesAssumption
<1>. QED  BY <1>6 DEF q, r, p, s, FirstBlock, InBlock

LEMMA FirstNotAfterLast ==
  ASSUME NEW off \in Nat, NEW len \in Nat \ {0}
  PROVE  FirstBlock(off) <= LastBlock(off, len)
<1>. DEFINE q == off \div BlockSize  r == off % BlockSize
           p == (off + len - 1) \div BlockSize  s == (off + len - 1) % BlockSize
<1>1. q \in Nat /\ r \in 0 .. BlockSize - 1 /\ off = BlockSize * q + r  BY DivMod
<1>2. p \in Nat /\ s \in 0 .. BlockSize - 1 /\ off + len - 1 = BlockSize * p + s
  BY DivMod, off + len - 1 \in Nat
<1>. HIDE DEF q, r, p, s
<1>3. ASSUME q > p PROVE FALSE
  <2>1. PICK d \in Nat : q = p + 1 + d
    <3>1. q - p - 1 \in Nat /\ q = p + 1 + (q - p - 1)  BY <1>1, <1>2, <1>3
    <3>. QED  BY <3>1
  <2>2. BlockSize * q = BlockSize * p + BlockSize + BlockSize * d
    BY <1>2, <2>1, SizesAssumption, SMT
  <2>3. BlockSize * p \in Nat /\ BlockSize * d \in Nat  BY <1>2, <2>1, SizesAssumption, SMT
  <2>. QED  BY <1>1, <1>2, <2>2, <2>3, SizesAssumption, SMT
<1>4. q <= p  BY <1>1, <1>2, <1>3
<1>. QED  BY <1>4 DEF q, p, FirstBlock, LastBlock

LEMMA WithinBlock ==
  ASSUME NEW off \in Nat, NEW len \in Nat \ {0}, ~ (LastBlock(off, len) > FirstBlock(off))
  PROVE  InBlock(off) + len <= BlockSize
<1>. DEFINE q == off \div BlockSize  r == off % BlockSize
           p == (off + len - 1) \div BlockSize  s == (off + len - 1) % BlockSize
<1>1. q \in Nat /\ r \in 0 .. BlockSize - 1 /\ off = BlockSize * q + r  BY DivMod
<1>2. p \in Nat /\ s \in 0 .. BlockSize - 1 /\ off + len - 1 = BlockSize * p + s
  BY DivMod, off + len - 1 \in Nat
<1>3. p <= q  BY <1>1, <1>2 DEF LastBlock, FirstBlock
<1>. HIDE DEF q, r, p, s
<1>4. PICK d \in Nat : q = p + d
  <2>1. q - p \in Nat /\ q = p + (q - p)  BY <1>1, <1>2, <1>3
  <2>. QED  BY <2>1
<1>5. BlockSize * q = BlockSize * p + BlockSize * d  BY <1>2, <1>4, SizesAssumption, SMT
<1>6. BlockSize * q \in Nat /\ BlockSize * p \in Nat /\ BlockSize * d \in Nat
  BY <1>1, <1>2, <1>4, SizesAssumption, SMT
<1>7. r + len <= BlockSize  BY <1>1, <1>2, <1>5, <1>6, SizesAssumption, SMT
<1>. QED  BY <1>7 DEF r, InBlock

LEMMA WithinDisk ==
  ASSUME NEW off \in Nat, NEW len \in Nat \ {0}, FirstBlock(off) < MaxEntries,
         InBlock(off) + len <= BlockSize
  PROVE  FirstBlock(off) \in Blocks /\ off + len <= Size
<1>. DEFINE q == off \div BlockSize  r == off % BlockSize
<1>1. q \in Nat /\ r \in 0 .. BlockSize - 1 /\ off = BlockSize * q + r  BY DivMod
<1>2. q < MaxEntries /\ r + len <= BlockSize  BY DEF FirstBlock, InBlock
<1>. HIDE DEF q, r
<1>3. PICK d \in Nat : MaxEntries = q + 1 + d
  <2>1. MaxEntries - q - 1 \in Nat /\ MaxEntries = q + 1 + (MaxEntries - q - 1)
    BY <1>1, <1>2, SizesAssumption
  <2>. QED  BY <2>1
<1>4. MaxEntries * BlockSize = BlockSize * q + BlockSize + BlockSize * d
  BY <1>1, <1>3, SizesAssumption, SMT
<1>5. BlockSize * q \in Nat /\ BlockSize * d \in Nat  BY <1>1, <1>3, SizesAssumption, SMT
<1>6. off + len <= MaxEntries * BlockSize  BY <1>1, <1>2, <1>4, <1>5, SizesAssumption, SMT
<1>7. q \in 0 .. MaxEntries - 1  BY <1>1, <1>2, SizesAssumption
<1>. QED  BY <1>6, <1>7 DEF q, Size, FirstBlock, Blocks

-----------------------------------------------------------------------------
(* The file's part of the invariant depends on the file alone.             *)
LEMMA FileUnchanged ==
  ASSUME BlocksApart, FooterRecoverable, Fresh, UNCHANGED file
  PROVE  BlocksApart' /\ FooterRecoverable' /\ Fresh'
  BY DEF BlocksApart, FooterRecoverable, Fresh, Allocated, Extents, file

LEMMA NoReqTyped ==
  NoReq \in [off : Nat, len : Nat, val : Val, f_off : 0 .. MaxOffset, status : BOOLEAN]
  BY ValuesAssumption, SizesAssumption DEF NoReq

LEMMA InitInv == Init => IInv
<1>. SUFFICES ASSUME Init PROVE IInv
  OBVIOUS
<1>. USE DEF Init
<1>1. TypeOK
  <2>1. FileTyped  BY SizesAssumption, ValuesAssumption DEF FileTyped
  <2>2. ProcessTyped  BY SizesAssumption DEF ProcessTyped
  <2>3. RequestTyped  BY NoReqTyped DEF RequestTyped, Steps
  <2>4. mapped \in BOOLEAN  OBVIOUS
  <2>. QED  BY <2>1, <2>2, <2>3, <2>4 DEF TypeOK
<1>2. Allocated = {}  BY DEF Allocated
<1>3. BlocksApart  BY <1>2, SizesAssumption DEF BlocksApart
<1>4. FooterRecoverable  BY <1>2, SizesAssumption DEF FooterRecoverable
<1>5. Fresh  BY DEF Fresh
<1>6. DriverInv  BY DEF DriverInv
<1>. QED  BY <1>1, <1>3, <1>4, <1>5, <1>6 DEF IInv

(* The process is gone: the file stays as it is.                           *)
LEMMA DeadInv ==
  ASSUME IInv, Dead, UNCHANGED file
  PROVE  IInv'
<1>. USE DEF Dead
<1>1. TypeOK'
  <2>1. FileTyped'  BY DEF IInv, TypeOK, FileTyped, file
  <2>2. ProcessTyped'  BY SizesAssumption DEF ProcessTyped
  <2>3. RequestTyped'  BY NoReqTyped DEF RequestTyped, Steps
  <2>4. mapped' \in BOOLEAN  OBVIOUS
  <2>. QED  BY <2>1, <2>2, <2>3, <2>4 DEF TypeOK
<1>2. BlocksApart' /\ FooterRecoverable' /\ Fresh'  BY FileUnchanged DEF IInv
<1>3. DriverInv'  BY DEF DriverInv
<1>. QED  BY <1>1, <1>2, <1>3 DEF IInv

LEMMA CloseInv ==
  ASSUME IInv, Close
  PROVE  IInv'
<1>. USE DEF Close
<1>1. TypeOK'
  <2>1. FileTyped' /\ RequestTyped'  BY DEF IInv, TypeOK, FileTyped, RequestTyped, file
  <2>2. ProcessTyped'  BY SizesAssumption DEF ProcessTyped
  <2>3. mapped' \in BOOLEAN  OBVIOUS
  <2>. QED  BY <2>1, <2>2, <2>3 DEF TypeOK
<1>2. BlocksApart' /\ FooterRecoverable' /\ Fresh'  BY FileUnchanged DEF IInv
<1>3. DriverInv'  BY DEF DriverInv
<1>. QED  BY <1>1, <1>2, <1>3 DEF IInv

LEMMA ReadInv ==
  ASSUME IInv, NEW off \in 0 .. Size, NEW len \in 1 .. MaxLength, Read(off, len)
  PROVE  IInv'
<1>1. UNCHANGED <<file, process, pc, req>>  BY DEF Read
<1>2. TypeOK'  BY <1>1 DEF IInv, TypeOK, FileTyped, ProcessTyped, RequestTyped, file, process
<1>3. BlocksApart' /\ FooterRecoverable' /\ Fresh'  BY <1>1, FileUnchanged DEF IInv
<1>4. DriverInv'
  BY <1>1 DEF IInv, DriverInv, FootersKnown, LengthKnown, RequestKnown, ReqBlock,
              Allocated, file, process
<1>. QED  BY <1>2, <1>3, <1>4 DEF IInv

LEMMA BeginWriteInv ==
  ASSUME IInv, NEW off \in 0 .. Size, NEW len \in 1 .. MaxLength, NEW v \in Val,
         BeginWrite(off, len, v)
  PROVE  IInv'
<1>u. UNCHANGED <<file, process>>  BY DEF BeginWrite
<1>s. mode = "dynamic" /\ pc = "idle" /\ mapped  BY DEF BeginWrite, Serving
<1>t. off \in Nat /\ len \in Nat \ {0} /\ FirstBlock(off) \in Nat /\ LastBlock(off, len) \in Nat
  BY Sizes, DivMod, SizesAssumption, off \in Nat, off + len - 1 \in Nat DEF FirstBlock, LastBlock
<1>1. BlocksApart' /\ FooterRecoverable' /\ Fresh'  BY <1>u, FileUnchanged DEF IInv
<1>2. CASE WriteRefused(off, len)
  <2>1. UNCHANGED <<pc, req>>  BY <1>2 DEF BeginWrite
  <2>2. TypeOK'  BY <1>u, <2>1 DEF IInv, TypeOK, FileTyped, ProcessTyped, RequestTyped, file, process
  <2>3. DriverInv'
    BY <1>u, <1>s, <2>1 DEF IInv, DriverInv, FootersKnown, LengthKnown, RequestKnown, Allocated, file, process
  <2>. QED  BY <1>1, <2>2, <2>3 DEF IInv
<1>3. CASE ~ WriteRefused(off, len)
  <2>r. req' = [off |-> off, len |-> len, val |-> v, f_off |-> footer_offset, status |-> FALSE]
    BY <1>3 DEF BeginWrite
  <2>p. pc' = IF bat[FirstBlock(off)] = Unused THEN "set eof" ELSE "store"
    BY <1>3 DEF BeginWrite
  <2>1. TypeOK'
    <3>1. FileTyped' /\ ProcessTyped' /\ mapped' \in BOOLEAN  BY <1>u DEF IInv, TypeOK, FileTyped, ProcessTyped, file, process
    <3>2. RequestTyped'  BY <1>t, <2>r, <2>p DEF IInv, TypeOK, ProcessTyped, RequestTyped, Steps
    <3>. QED  BY <3>1, <3>2 DEF TypeOK
  <2>2. InBlock(off) + len <= BlockSize
    BY <1>3, <1>t, WithinBlock DEF WriteRefused
  <2>3. FirstBlock(off) < MaxEntries
    <3>1. ~ (LastBlock(off, len) >= MaxEntries)  BY <1>3 DEF WriteRefused
    <3>2. FirstBlock(off) <= LastBlock(off, len)
      BY <1>t, FirstNotAfterLast
    <3>. QED  BY <3>1, <3>2, <1>t, SizesAssumption
  <2>4. FirstBlock(off) \in Blocks /\ off + len <= Size
    BY <2>2, <2>3, <1>t, WithinDisk
  <2>5. bat[FirstBlock(off)] = Unused => footer_offset + Extent <= MaxOffset
    <3>1. footer_offset + Extent \in Nat
      BY Sizes, SizesAssumption DEF IInv, TypeOK, ProcessTyped
    <3>2. bat[FirstBlock(off)] = Unused => ~ (footer_offset + Extent > MaxOffset)
      BY <1>3 DEF WriteRefused
    <3>. QED  BY <3>1, <3>2, SizesAssumption
  <2>6. ReqBlock' = FirstBlock(off)  BY <2>r DEF ReqBlock
  <2>7. RequestKnown'
    <3>1. bat' = bat /\ footer_offset' = footer_offset  BY <1>u DEF file, process
    <3>2. pc' = "store" => bat[FirstBlock(off)] # Unused  BY <2>p
    <3>3. pc' \in Expanding => bat[FirstBlock(off)] = Unused  BY <2>p DEF Expanding
    <3>4. req'.off = off /\ req'.len = len /\ req'.f_off = footer_offset /\ ~ req'.status
      BY <2>r
    <3>5. req'.len > 0  BY <3>4, <1>t
    <3>. QED  BY <2>2, <2>4, <2>5, <2>6, <3>1, <3>2, <3>3, <3>4, <3>5, Zenon DEF RequestKnown
  <2>8. FootersKnown' /\ LengthKnown'
    BY <1>u, <1>s, <2>p DEF IInv, DriverInv, FootersKnown, LengthKnown, Moving, file, process
  <2>9. DriverInv'
    BY <1>u, <1>s, <2>7, <2>8 DEF IInv, DriverInv, Allocated, file, process
  <2>. QED  BY <1>1, <2>1, <2>9 DEF IInv
<1>. QED  BY <1>2, <1>3

-----------------------------------------------------------------------------
(* A step of an allocation leaves the parts of the invariant it does not   *)
(* write, so each proof has one step per part it disturbs.                 *)
LEMMA Busy ==
  ASSUME IInv, pc \in Expanding \cup {"store"}
  PROVE  /\ mode = "dynamic"
         /\ HeaderEnd <= footer_offset
         /\ \A b \in Allocated : bat[b] + Extent <= footer_offset
         /\ FootersKnown /\ LengthKnown /\ RequestKnown
  BY DEF IInv, DriverInv, Expanding

LEMMA Numbers ==
  ASSUME TypeOK
  PROVE  footer_offset \in Nat /\ eof \in Nat /\ length \in Nat
  BY SizesAssumption DEF TypeOK, FileTyped, ProcessTyped

LEMMA AllocatedTyped ==
  ASSUME TypeOK, NEW b \in Allocated
  PROVE  b \in Blocks /\ bat[b] \in Nat
  BY SizesAssumption DEF Allocated, TypeOK, FileTyped

LEMMA SetEOFInv ==
  ASSUME IInv, SetEOF
  PROVE  IInv'
<1>1. pc = "set eof" /\ mapped' = FALSE
  BY DEF SetEOF
<1>2. UNCHANGED <<footers, bat, data, mode, length, footer_offset, req>>
  BY DEF SetEOF
<1>3. \/ eof' = length + Extent /\ pc' = "set allocation"
      \/ eof' = eof /\ pc' = "remap"
  BY DEF SetEOF
<1>4. /\ mode = "dynamic"
      /\ HeaderEnd <= footer_offset
      /\ \A b \in Allocated : bat[b] + Extent <= footer_offset
      /\ FootersKnown /\ LengthKnown /\ RequestKnown
  BY <1>1, Busy DEF Expanding
<1>n. footer_offset \in Nat /\ eof \in Nat /\ length \in Nat  BY Numbers DEF IInv
<1>5. length = footer_offset + 1 /\ eof \in {footer_offset + 1, footer_offset + 1 + Extent}
  BY <1>1, <1>4 DEF LengthKnown
<1>6. eof' \in {footer_offset + 1, footer_offset + 1 + Extent} /\ eof <= eof'
  <2>1. eof' = length + Extent \/ eof' = eof  BY <1>3
  <2>. QED  BY <2>1, <1>n, <1>5, Sizes
<1>7. TypeOK'
  <2>1. FileTyped'
    BY <1>2, <1>n, <1>6, Sizes DEF IInv, TypeOK, FileTyped
  <2>2. ProcessTyped'  BY <1>2 DEF IInv, TypeOK, ProcessTyped
  <2>3. RequestTyped'  BY <1>2, <1>3 DEF IInv, TypeOK, RequestTyped, Steps
  <2>4. mapped' \in BOOLEAN  BY <1>1
  <2>. QED  BY <2>1, <2>2, <2>3, <2>4 DEF TypeOK
<1>8. BlocksApart'
  <2>1. Allocated' = Allocated /\ \A b : Extents(b)' = Extents(b)
    BY <1>2 DEF Allocated, Extents
  <2>2. \A b \in Allocated : bat[b] + Extent < eof'
    BY <1>n, <1>6, AllocatedTyped, Sizes DEF IInv, BlocksApart
  <2>3. \A o \in footers : o < eof'
    BY <1>n, <1>6, Sizes, SizesAssumption DEF IInv, BlocksApart, TypeOK, FileTyped
  <2>. QED  BY <1>2, <2>1, <2>2, <2>3 DEF IInv, BlocksApart
<1>9. FooterRecoverable'
  <2>1. footer_offset \in footers  BY <1>1, <1>4 DEF FootersKnown
  <2>2. footer_offset \in {eof' - 1, eof' - 1 - Extent}
    <3>1. CASE eof' = footer_offset + 1  BY <3>1, <1>n
    <3>2. CASE eof' = footer_offset + 1 + Extent  BY <3>2, <1>n, Sizes
    <3>. QED  BY <1>6, <3>1, <3>2
  <2>. QED  BY <1>2, <1>4, <2>1, <2>2 DEF FooterRecoverable, Allocated
<1>10. Fresh'  BY <1>2 DEF IInv, Fresh, Allocated, Extents
<1>11. DriverInv'
  <2>1. FootersKnown'  BY <1>1, <1>2, <1>3, <1>4 DEF FootersKnown, Moving
  <2>2. LengthKnown'
    <3>1. ~ req.status  BY <1>1, <1>4 DEF RequestKnown
    <3>2. pc' = "set allocation" => eof' = footer_offset + 1 + Extent
      BY <1>3, <1>n, <1>5, Sizes
    <3>3. length <= eof'  BY <1>n, <1>5, <1>6, Sizes
    <3>4. pc' \in {"set allocation", "remap"}  BY <1>3
    <3>. QED  BY <1>2, <1>5, <1>6, <3>1, <3>2, <3>3, <3>4, Zenon DEF LengthKnown, Moving
  <2>3. RequestKnown'
    BY <1>1, <1>2, <1>3, <1>4 DEF RequestKnown, ReqBlock, Expanding
  <2>. QED  BY <1>2, <1>4, <2>1, <2>2, <2>3 DEF DriverInv, Allocated
<1>. QED  BY <1>7, <1>8, <1>9, <1>10, <1>11 DEF IInv

LEMMA SetAllocationInv ==
  ASSUME IInv, SetAllocation
  PROVE  IInv'
<1>1. pc = "set allocation" /\ pc' = "remap"  BY DEF SetAllocation
<1>2. UNCHANGED <<file, mode, mapped, footer_offset, out>>  BY DEF SetAllocation
<1>3. \/ length' = length + Extent /\ req' = [req EXCEPT !.status = TRUE]
      \/ length' = length /\ req' = req
  BY DEF SetAllocation
<1>4. /\ mode = "dynamic"
      /\ HeaderEnd <= footer_offset
      /\ \A b \in Allocated : bat[b] + Extent <= footer_offset
      /\ FootersKnown /\ LengthKnown /\ RequestKnown
  BY <1>1, Busy DEF Expanding
<1>n. footer_offset \in Nat /\ eof \in Nat /\ length \in Nat  BY Numbers DEF IInv
<1>5. length = footer_offset + 1 /\ eof = footer_offset + 1 + Extent
  BY <1>1, <1>4 DEF LengthKnown
<1>r. req \in [off : Nat, len : Nat, val : Val, f_off : 0 .. MaxOffset, status : BOOLEAN]
  BY DEF IInv, TypeOK, RequestTyped
<1>6. TypeOK'
  <2>1. FileTyped'  BY <1>2 DEF IInv, TypeOK, FileTyped, file
  <2>2. ProcessTyped'
    <3>1. length' = length + Extent \/ length' = length  BY <1>3
    <3>2. length' \in Nat  BY <3>1, <1>n, Sizes
    <3>. QED  BY <1>2, <3>2 DEF IInv, TypeOK, ProcessTyped
  <2>3. RequestTyped'  BY <1>1, <1>3, <1>r DEF RequestTyped, Steps
  <2>. QED  BY <1>2, <2>1, <2>2, <2>3 DEF IInv, TypeOK
<1>7. BlocksApart' /\ FooterRecoverable' /\ Fresh'  BY <1>2, FileUnchanged DEF IInv
<1>8. DriverInv'
  <2>1. FootersKnown'  BY <1>1, <1>2, <1>4 DEF FootersKnown, Moving, file
  <2>2. LengthKnown'
    <3>1. CASE length' = length + Extent /\ req' = [req EXCEPT !.status = TRUE]
      <4>1. length' = footer_offset + 1 + Extent /\ length' <= eof
        BY <3>1, <1>5, <1>n, Sizes
      <4>2. req'.status = TRUE  BY <3>1, <1>r
      <4>. QED  BY <1>1, <1>2, <1>5, <4>1, <4>2, Zenon DEF LengthKnown, Moving, file
    <3>2. CASE length' = length /\ req' = req
      <4>1. ~ req'.status  BY <3>2, <1>1, <1>4 DEF RequestKnown
      <4>2. length' = footer_offset + 1 /\ length' <= eof  BY <3>2, <1>5, <1>n, Sizes
      <4>. QED  BY <1>1, <1>2, <1>5, <4>1, <4>2, Zenon DEF LengthKnown, Moving, file
    <3>. QED  BY <1>3, <3>1, <3>2
  <2>3. RequestKnown'
    <3>1. req'.off = req.off /\ req'.len = req.len /\ req'.f_off = req.f_off
      BY <1>3, <1>r
    <3>2. ReqBlock' = ReqBlock  BY <3>1 DEF ReqBlock
    <3>3. bat' = bat /\ footer_offset' = footer_offset  BY <1>2 DEF file
    <3>. QED  BY <1>1, <1>4, <3>1, <3>2, <3>3, Zenon DEF RequestKnown, Expanding
  <2>. QED  BY <1>2, <1>4, <2>1, <2>2, <2>3 DEF DriverInv, Allocated, file
<1>. QED  BY <1>6, <1>7, <1>8 DEF IInv

LEMMA RemapInv ==
  ASSUME IInv, Remap
  PROVE  IInv'
<1>1. pc = "remap" /\ mapped' \in BOOLEAN  BY DEF Remap
<1>2. UNCHANGED <<file, mode, length, footer_offset>>  BY DEF Remap
<1>3. \/ pc' = "copy footer" /\ mapped' /\ req.status /\ req' = req
      \/ pc' = "idle" /\ ~ (mapped' /\ req.status) /\ req' = NoReq
  BY DEF Remap
<1>4. /\ mode = "dynamic"
      /\ HeaderEnd <= footer_offset
      /\ \A b \in Allocated : bat[b] + Extent <= footer_offset
      /\ FootersKnown /\ LengthKnown /\ RequestKnown
  BY <1>1, Busy DEF Expanding
<1>5. /\ length = IF req.status THEN footer_offset + 1 + Extent ELSE footer_offset + 1
      /\ eof \in {footer_offset + 1, footer_offset + 1 + Extent}
      /\ length <= eof
  BY <1>1, <1>4 DEF LengthKnown
<1>6. TypeOK'
  <2>1. FileTyped'  BY <1>2 DEF IInv, TypeOK, FileTyped, file
  <2>2. ProcessTyped'  BY <1>2 DEF IInv, TypeOK, ProcessTyped
  <2>3. RequestTyped'  BY <1>3, NoReqTyped DEF IInv, TypeOK, RequestTyped, Steps
  <2>. QED  BY <1>1, <2>1, <2>2, <2>3 DEF TypeOK
<1>7. BlocksApart' /\ FooterRecoverable' /\ Fresh'  BY <1>2, FileUnchanged DEF IInv
<1>8. DriverInv'
  <2>1. FootersKnown'  BY <1>1, <1>2, <1>3, <1>4 DEF FootersKnown, Moving, file
  <2>2. CASE pc' = "copy footer" /\ mapped' /\ req.status /\ req' = req
    <3>1. LengthKnown'
      <4>1. length = footer_offset + 1 + Extent  BY <2>2, <1>5
      <4>. QED  BY <1>2, <1>5, <2>2, <4>1, Zenon DEF LengthKnown, Moving, file
    <3>2. RequestKnown'
      <4>1. ReqBlock' = ReqBlock  BY <2>2 DEF ReqBlock
      <4>. QED  BY <1>1, <1>2, <1>4, <2>2, <4>1, Zenon DEF RequestKnown, Expanding, file
    <3>. QED  BY <1>2, <1>4, <2>1, <3>1, <3>2 DEF DriverInv, Allocated, file
  <2>3. CASE pc' = "idle" /\ ~ (mapped' /\ req.status) /\ req' = NoReq
    <3>1. LengthKnown'
      <4>1. mapped' => length = footer_offset + 1  BY <2>3, <1>5
      <4>2. length \in {footer_offset + 1, footer_offset + 1 + Extent}
        BY <1>5
      <4>. QED  BY <1>2, <1>5, <2>3, <4>1, <4>2, Zenon DEF LengthKnown, Moving, file
    <3>2. RequestKnown'  BY <2>3 DEF RequestKnown
    <3>. QED  BY <1>2, <1>4, <2>1, <3>1, <3>2 DEF DriverInv, Allocated, file
  <2>. QED  BY <1>3, <2>2, <2>3
<1>. QED  BY <1>6, <1>7, <1>8 DEF IInv

LEMMA OpenInv ==
  ASSUME IInv, Open
  PROVE  IInv'
<1>1. UNCHANGED <<file, pc, req>> /\ mode = "closed" /\ length' = eof /\ mapped' = TRUE
  BY DEF Open
<1>2. pc = "idle" /\ pc' = "idle"
  <2>1. mode # "dynamic"  BY <1>1
  <2>. QED  BY <1>1, <2>1 DEF IInv, DriverInv
<1>n. footer_offset \in Nat /\ eof \in Nat /\ length \in Nat  BY Numbers DEF IInv
<1>3. BlocksApart' /\ FooterRecoverable' /\ Fresh'  BY <1>1, FileUnchanged DEF IInv
<1>4. FileTyped' /\ RequestTyped' /\ mapped' \in BOOLEAN
  BY <1>1 DEF IInv, TypeOK, FileTyped, RequestTyped, file
<1>5. CASE eof - 1 \in footers
  <2>1. mode' = "dynamic" /\ footer_offset' = eof - 1  BY <1>5 DEF Open
  <2>2. eof - 1 \in 0 .. MaxOffset  BY <1>5 DEF IInv, TypeOK, FileTyped
  <2>3. ProcessTyped'  BY <1>1, <1>n, <2>1, <2>2 DEF ProcessTyped
  <2>4. HeaderEnd <= eof - 1  BY <1>5 DEF IInv, BlocksApart
  <2>5. \A b \in Allocated : bat[b] + Extent <= eof - 1
    BY <1>n, AllocatedTyped, Sizes DEF IInv, BlocksApart
  <2>6. FootersKnown'
    <3>1. \A o \in footers : o <= eof - 1
      BY <1>n DEF IInv, BlocksApart, TypeOK, FileTyped
    <3>. QED  BY <1>1, <1>2, <1>5, <2>1, <3>1 DEF FootersKnown, Moving, file
  <2>7. LengthKnown'
    <3>1. eof = eof - 1 + 1 /\ eof <= eof  BY <1>n
    <3>. QED  BY <1>1, <1>2, <2>1, <3>1, Zenon DEF LengthKnown, Moving, file
  <2>8. RequestKnown'  BY <1>2 DEF RequestKnown
  <2>9. DriverInv'
    BY <1>1, <2>1, <2>4, <2>5, <2>6, <2>7, <2>8 DEF DriverInv, Allocated, file
  <2>. QED  BY <1>3, <1>4, <2>3, <2>9 DEF IInv, TypeOK
<1>6. CASE eof - 1 \notin footers
  <2>1. mode' = "raw" /\ footer_offset' = footer_offset  BY <1>6 DEF Open
  <2>2. ProcessTyped'  BY <1>1, <1>n, <2>1 DEF IInv, TypeOK, ProcessTyped
  <2>3. DriverInv'  BY <1>2, <2>1 DEF DriverInv
  <2>. QED  BY <1>3, <1>4, <2>2, <2>3 DEF IInv, TypeOK
<1>. QED  BY <1>5, <1>6

LEMMA CopyFooterInv ==
  ASSUME IInv, CopyFooter
  PROVE  IInv'
<1>1. pc = "copy footer" /\ pc' = "zero footer"  BY DEF CopyFooter
<1>2. UNCHANGED <<eof, bat, data, process, req, out>>  BY DEF CopyFooter
<1>4. /\ mode = "dynamic"
      /\ HeaderEnd <= footer_offset
      /\ \A b \in Allocated : bat[b] + Extent <= footer_offset
      /\ FootersKnown /\ LengthKnown /\ RequestKnown
  BY <1>1, Busy DEF Expanding
<1>n. footer_offset \in Nat /\ eof \in Nat /\ length \in Nat  BY Numbers DEF IInv
<1>5. footer_offset + Extent <= MaxOffset /\ req.f_off = footer_offset
  BY <1>1, <1>4 DEF RequestKnown, Expanding
<1>6. footer_offset \in footers /\ \A o \in footers : o <= footer_offset
  BY <1>1, <1>4 DEF FootersKnown, Moving
<1>7. footers' = footers \cup {footer_offset + Extent}
  BY <1>5, <1>6 DEF CopyFooter
<1>8. length = footer_offset + 1 + Extent /\ eof = length
  <2>1. length = footer_offset + 1 + Extent
    BY <1>1, <1>4, Zenon DEF LengthKnown
  <2>2. length <= eof /\ eof \in {footer_offset + 1, footer_offset + 1 + Extent}
    BY <1>4 DEF LengthKnown
  <2>. QED  BY <2>1, <2>2, <1>n, Sizes
<1>9. TypeOK'
  <2>1. footer_offset + Extent \in 0 .. MaxOffset  BY <1>5, <1>n, Sizes, SizesAssumption
  <2>2. FileTyped'  BY <1>2, <1>7, <2>1 DEF IInv, TypeOK, FileTyped
  <2>3. ProcessTyped' /\ mapped' \in BOOLEAN  BY <1>2 DEF IInv, TypeOK, ProcessTyped, process
  <2>4. RequestTyped'  BY <1>1, <1>2 DEF IInv, TypeOK, RequestTyped, Steps
  <2>. QED  BY <2>2, <2>3, <2>4 DEF TypeOK
<1>10. BlocksApart'
  <2>1. Allocated' = Allocated /\ \A b : Extents(b)' = Extents(b)
    BY <1>2 DEF Allocated, Extents
  <2>2. \A b \in Allocated : footer_offset + Extent \notin Extents(b)
    BY <1>4, <1>n, AllocatedTyped, Sizes DEF IInv, Extents
  <2>3. \A b \in Allocated : footers' \cap Extents(b) = {}
    BY <1>7, <2>2 DEF IInv, BlocksApart
  <2>4. HeaderEnd <= footer_offset + Extent /\ footer_offset + Extent < eof
    BY <1>4, <1>8, <1>n, Sizes, SizesAssumption
  <2>5. \A o \in footers' : HeaderEnd <= o /\ o < eof
    BY <1>7, <2>4 DEF IInv, BlocksApart
  <2>. QED  BY <1>2, <2>1, <2>3, <2>5 DEF IInv, BlocksApart
<1>11. FooterRecoverable'
  <2>1. footer_offset = eof - 1 - Extent  BY <1>8, <1>n, Sizes
  <2>. QED  BY <1>2, <1>4, <1>6, <1>7, <2>1 DEF FooterRecoverable, Allocated
<1>12. Fresh'  BY <1>2 DEF IInv, Fresh, Allocated, Extents
<1>13. DriverInv'
  <2>1. FootersKnown'
    BY <1>1, <1>2, <1>6, <1>7 DEF FootersKnown, Moving, process
  <2>2. LengthKnown'
    BY <1>1, <1>2, <1>4, Zenon DEF LengthKnown, Moving, process
  <2>3. RequestKnown'
    <3>1. ReqBlock' = ReqBlock  BY <1>2 DEF ReqBlock
    <3>. QED  BY <1>1, <1>2, <1>4, <3>1, Zenon DEF RequestKnown, Expanding, process
  <2>. QED  BY <1>2, <1>4, <2>1, <2>2, <2>3 DEF DriverInv, Allocated, process
<1>. QED  BY <1>9, <1>10, <1>11, <1>12, <1>13 DEF IInv

LEMMA ZeroFooterInv ==
  ASSUME IInv, ZeroFooter
  PROVE  IInv'
<1>1. pc = "zero footer" /\ pc' = "set entry"  BY DEF ZeroFooter
<1>2. UNCHANGED <<eof, bat, process, req, out>>  BY DEF ZeroFooter
<1>4. /\ mode = "dynamic"
      /\ HeaderEnd <= footer_offset
      /\ \A b \in Allocated : bat[b] + Extent <= footer_offset
      /\ FootersKnown /\ LengthKnown /\ RequestKnown
  BY <1>1, Busy DEF Expanding
<1>n. footer_offset \in Nat /\ eof \in Nat /\ length \in Nat  BY Numbers DEF IInv
<1>5. footer_offset + Extent <= MaxOffset /\ req.f_off = footer_offset
  BY <1>1, <1>4 DEF RequestKnown, Expanding
<1>6. /\ footer_offset + Extent \in footers
      /\ \A o \in footers : o <= footer_offset \/ o = footer_offset + Extent
  BY <1>1, <1>4 DEF FootersKnown, Moving
<1>7. footers' = footers \ {footer_offset} /\ data' = [data EXCEPT ![footer_offset] = Zero]
  BY <1>5 DEF ZeroFooter
<1>8. length = footer_offset + 1 + Extent /\ eof = length
  <2>1. length = footer_offset + 1 + Extent
    BY <1>1, <1>4, Zenon DEF LengthKnown, Moving
  <2>2. length <= eof /\ eof \in {footer_offset + 1, footer_offset + 1 + Extent}
    BY <1>4 DEF LengthKnown
  <2>. QED  BY <2>1, <2>2, <1>n, Sizes
<1>9. footer_offset + Extent \in footers'
  <2>1. footer_offset + Extent # footer_offset  BY <1>n, Sizes, SizesAssumption
  <2>. QED  BY <1>6, <1>7, <2>1
<1>10. TypeOK'
  <2>1. FileTyped'  BY <1>2, <1>7, ValuesAssumption DEF IInv, TypeOK, FileTyped
  <2>2. ProcessTyped' /\ mapped' \in BOOLEAN  BY <1>2 DEF IInv, TypeOK, ProcessTyped, process
  <2>3. RequestTyped'  BY <1>1, <1>2 DEF IInv, TypeOK, RequestTyped, Steps
  <2>. QED  BY <2>1, <2>2, <2>3 DEF TypeOK
<1>11. BlocksApart'
  <2>1. Allocated' = Allocated /\ \A b : Extents(b)' = Extents(b)
    BY <1>2 DEF Allocated, Extents
  <2>. QED  BY <1>2, <1>7, <2>1 DEF IInv, BlocksApart
<1>12. FooterRecoverable'
  <2>1. footer_offset + Extent = eof - 1  BY <1>8, <1>n, Sizes
  <2>2. \A b \in Allocated : bat[b] + Extent <= footer_offset + Extent
    BY <1>4, <1>n, AllocatedTyped, Sizes DEF IInv
  <2>. QED  BY <1>2, <1>9, <2>1, <2>2 DEF FooterRecoverable, Allocated
<1>13. Fresh'
  BY <1>2, <1>7 DEF IInv, Fresh, Allocated, Extents, TypeOK, FileTyped
<1>14. DriverInv'
  <2>1. FootersKnown'
    BY <1>1, <1>2, <1>6, <1>7, <1>9 DEF FootersKnown, Moving, process
  <2>2. LengthKnown'
    BY <1>1, <1>2, <1>4, Zenon DEF LengthKnown, Moving, process
  <2>3. RequestKnown'
    <3>1. ReqBlock' = ReqBlock  BY <1>2 DEF ReqBlock
    <3>. QED  BY <1>1, <1>2, <1>4, <3>1, Zenon DEF RequestKnown, Expanding, process
  <2>. QED  BY <1>2, <1>4, <2>1, <2>2, <2>3 DEF DriverInv, Allocated, process
<1>. QED  BY <1>10, <1>11, <1>12, <1>13, <1>14 DEF IInv

LEMMA SetEntryInv ==
  ASSUME IInv, SetEntry
  PROVE  IInv'
<1>1. pc = "set entry" /\ pc' = "store"  BY DEF SetEntry
<1>2. UNCHANGED <<eof, footers, data, mode, length, mapped, req, out>>  BY DEF SetEntry
<1>3. bat' = [bat EXCEPT ![ReqBlock] = footer_offset] /\ footer_offset' = footer_offset + Extent
  BY DEF SetEntry
<1>4. /\ mode = "dynamic"
      /\ HeaderEnd <= footer_offset
      /\ \A b \in Allocated : bat[b] + Extent <= footer_offset
      /\ FootersKnown /\ LengthKnown /\ RequestKnown
  BY <1>1, Busy DEF Expanding
<1>n. footer_offset \in Nat /\ eof \in Nat /\ length \in Nat  BY Numbers DEF IInv
<1>5. /\ footer_offset + Extent <= MaxOffset
      /\ ReqBlock \in Blocks /\ bat[ReqBlock] = Unused
  BY <1>1, <1>4 DEF RequestKnown, Expanding
<1>6. /\ footer_offset + Extent \in footers
      /\ footer_offset \notin footers
      /\ \A o \in footers : o <= footer_offset \/ o = footer_offset + Extent
  BY <1>1, <1>4 DEF FootersKnown, Moving
<1>7. length = footer_offset + 1 + Extent /\ eof = length
  <2>1. length = footer_offset + 1 + Extent
    BY <1>1, <1>4, Zenon DEF LengthKnown, Moving
  <2>2. length <= eof /\ eof \in {footer_offset + 1, footer_offset + 1 + Extent}
    BY <1>4 DEF LengthKnown
  <2>. QED  BY <2>1, <2>2, <1>n, Sizes
<1>8. bat \in [Blocks -> (0 .. MaxOffset) \cup {Unused}]  BY DEF IInv, TypeOK, FileTyped
<1>9. footer_offset \in 0 .. MaxOffset /\ footer_offset + Extent \in 0 .. MaxOffset
  BY <1>5, <1>n, Sizes, SizesAssumption DEF IInv, TypeOK, ProcessTyped
<1>10. TypeOK'
  <2>1. FileTyped'  BY <1>2, <1>3, <1>8, <1>9 DEF IInv, TypeOK, FileTyped
  <2>2. ProcessTyped' /\ mapped' \in BOOLEAN
    BY <1>2, <1>3, <1>9 DEF IInv, TypeOK, ProcessTyped
  <2>3. RequestTyped'  BY <1>1, <1>2 DEF IInv, TypeOK, RequestTyped, Steps
  <2>. QED  BY <2>2, <2>1, <2>3 DEF TypeOK
<1>11. Allocated' = Allocated \cup {ReqBlock} /\ ReqBlock \notin Allocated
  BY <1>3, <1>5, <1>8, <1>n, ValuesAssumption DEF Allocated
<1>12. /\ \A b \in Allocated : bat'[b] = bat[b] /\ Extents(b)' = Extents(b)
       /\ bat'[ReqBlock] = footer_offset
       /\ \A b \in {ReqBlock} : Extents(b)' = footer_offset .. footer_offset + Extent - 1
  <2>1. \A b \in Allocated : bat'[b] = bat[b]  BY <1>3, <1>8, <1>11 DEF Allocated
  <2>2. bat'[ReqBlock] = footer_offset  BY <1>3, <1>5, <1>8
  <2>. QED  BY <2>1, <2>2 DEF Extents
<1>13. BlocksApart'
  <2>1. \A o \in footers : o \notin footer_offset .. footer_offset + Extent - 1
    BY <1>6, <1>n, Sizes, SizesAssumption DEF IInv, TypeOK, FileTyped
  <2>2. \A b \in Allocated : Extents(b) \cap (footer_offset .. footer_offset + Extent - 1) = {}
    BY <1>4, <1>n, AllocatedTyped, Sizes DEF IInv, Extents
  <2>3. footer_offset + Extent < eof  BY <1>7, <1>n, Sizes
  <2>4. ASSUME NEW b \in Allocated'
        PROVE  /\ HeaderEnd <= bat'[b]
               /\ bat'[b] + Extent < eof
               /\ footers \cap Extents(b)' = {}
    <3>1. CASE b \in Allocated  BY <3>1, <1>12 DEF IInv, BlocksApart
    <3>2. CASE b = ReqBlock
      <4>1. footers \cap (footer_offset .. footer_offset + Extent - 1) = {}  BY <2>1
      <4>. QED  BY <3>2, <1>4, <1>12, <2>3, <4>1
    <3>. QED  BY <1>11, <3>1, <3>2
  <2>5. ASSUME NEW b \in Allocated', NEW c \in Allocated', b # c
        PROVE  Extents(b)' \cap Extents(c)' = {}
    <3>1. CASE b \in Allocated /\ c \in Allocated
      BY <2>5, <3>1, <1>12 DEF IInv, BlocksApart
    <3>2. CASE b = ReqBlock /\ c \in Allocated  BY <3>2, <1>12, <2>2
    <3>3. CASE c = ReqBlock /\ b \in Allocated  BY <3>3, <1>12, <2>2
    <3>. QED  BY <1>11, <2>5, <3>1, <3>2, <3>3
  <2>. QED  BY <1>2, <2>4, <2>5 DEF IInv, BlocksApart
<1>14. FooterRecoverable'
  <2>1. footer_offset + Extent = eof - 1  BY <1>7, <1>n, Sizes
  <2>2. \A b \in Allocated : bat[b] + Extent <= footer_offset + Extent
    BY <1>4, <1>n, AllocatedTyped, Sizes DEF IInv
  <2>3. footer_offset + Extent <= footer_offset + Extent  BY <1>n, Sizes
  <2>. QED  BY <1>2, <1>6, <1>11, <1>12, <2>1, <2>2, <2>3 DEF FooterRecoverable
<1>15. Fresh'  BY <1>2, <1>11, <1>12 DEF IInv, Fresh
<1>16. DriverInv'
  <2>1. FootersKnown'
    <3>1. \A o \in footers : o <= footer_offset + Extent
      BY <1>6, <1>n, Sizes, SizesAssumption DEF IInv, TypeOK, FileTyped
    <3>. QED  BY <1>1, <1>2, <1>3, <1>6, <3>1 DEF FootersKnown, Moving
  <2>2. LengthKnown'
    <3>1. length = footer_offset + Extent + 1 /\ length <= eof /\ eof = footer_offset + Extent + 1
      BY <1>7, <1>n, Sizes
    <3>. QED  BY <1>1, <1>2, <1>3, <3>1, Zenon DEF LengthKnown, Moving
  <2>3. RequestKnown'
    <3>1. ReqBlock' = ReqBlock  BY <1>2 DEF ReqBlock
    <3>2. bat'[ReqBlock] # Unused  BY <1>12, <1>n, ValuesAssumption
    <3>. QED  BY <1>1, <1>2, <1>4, <3>1, <3>2, Zenon DEF RequestKnown, Expanding
  <2>4. HeaderEnd <= footer_offset + Extent  BY <1>4, <1>n, Sizes, SizesAssumption
  <2>5. \A b \in Allocated' : bat'[b] + Extent <= footer_offset + Extent
    <3>1. \A b \in Allocated : bat[b] + Extent <= footer_offset + Extent
      BY <1>4, <1>n, AllocatedTyped, Sizes DEF IInv
    <3>2. footer_offset + Extent <= footer_offset + Extent  BY <1>n, Sizes
    <3>. QED  BY <1>11, <1>12, <3>1, <3>2
  <2>. QED  BY <1>2, <1>3, <1>4, <2>1, <2>2, <2>3, <2>4, <2>5 DEF DriverInv
<1>. QED  BY <1>10, <1>13, <1>14, <1>15, <1>16 DEF IInv

Target == {bat[ReqBlock] + BitmapSize + InBlock(req.off) + k - 1 : k \in 1 .. req.len}

(* What Store writes lies in the request's own block.                      *)
LEMMA TargetInBlock ==
  ASSUME IInv, pc = "store"
  PROVE  /\ ReqBlock \in Allocated /\ bat[ReqBlock] \in Nat
         /\ Target \subseteq Extents(ReqBlock)
         /\ InBlock(req.off) \in 0 .. BlockSize - 1
         /\ req.off \in Nat /\ req.len \in Nat \ {0}
         /\ InBlock(req.off) + req.len <= BlockSize
         /\ req.off + req.len <= Size
<1>1. RequestKnown  BY Busy
<1>2. /\ ReqBlock \in Blocks /\ bat[ReqBlock] # Unused
      /\ req.len > 0 /\ InBlock(req.off) + req.len <= BlockSize
      /\ req.off + req.len <= Size
  BY <1>1 DEF RequestKnown
<1>3. ReqBlock \in Allocated /\ bat[ReqBlock] \in Nat
  BY <1>2, AllocatedTyped DEF Allocated, IInv
<1>4. req.off \in Nat /\ req.len \in Nat \ {0}
  BY <1>2 DEF IInv, TypeOK, RequestTyped
<1>5. InBlock(req.off) \in 0 .. BlockSize - 1  BY <1>4, DivMod DEF InBlock
<1>6. Target \subseteq Extents(ReqBlock)
  BY <1>2, <1>3, <1>4, <1>5, Sizes, SizesAssumption DEF Target, Extents
<1>. QED  BY <1>2, <1>3, <1>4, <1>5, <1>6

LEMMA StoreInv ==
  ASSUME IInv, Store
  PROVE  IInv'
<1>1. pc = "store" /\ pc' = "idle" /\ req' = NoReq  BY DEF Store
<1>2. UNCHANGED <<eof, bat, process>>  BY DEF Store
<1>3. \/ UNCHANGED <<data, footers>>
      \/ /\ data' = [o \in DOMAIN data |-> IF o \in Target THEN req.val ELSE data[o]]
         /\ footers' = footers \ Target
  BY DEF Store, Target
<1>4. /\ mode = "dynamic"
      /\ HeaderEnd <= footer_offset
      /\ \A b \in Allocated : bat[b] + Extent <= footer_offset
      /\ FootersKnown /\ LengthKnown
  BY <1>1, Busy
<1>5. ReqBlock \in Allocated /\ Target \subseteq Extents(ReqBlock)
  BY <1>1, TargetInBlock
<1>6. footers' = footers
  BY <1>3, <1>5 DEF IInv, BlocksApart
<1>7. TypeOK'
  <2>1. req.val \in Val  BY DEF IInv, TypeOK, RequestTyped
  <2>2. data' \in [0 .. MaxOffset -> Val]  BY <1>3, <2>1 DEF IInv, TypeOK, FileTyped
  <2>3. FileTyped'  BY <1>2, <1>6, <2>2 DEF IInv, TypeOK, FileTyped
  <2>4. ProcessTyped' /\ mapped' \in BOOLEAN  BY <1>2 DEF IInv, TypeOK, ProcessTyped, process
  <2>5. RequestTyped'  BY <1>1, NoReqTyped DEF RequestTyped, Steps
  <2>. QED  BY <2>3, <2>4, <2>5 DEF TypeOK
<1>8. BlocksApart' /\ FooterRecoverable'
  BY <1>2, <1>6 DEF IInv, BlocksApart, FooterRecoverable, Allocated, Extents
<1>9. Fresh'
  <2>1. Allocated' = Allocated /\ \A b : Extents(b)' = Extents(b)
    BY <1>2 DEF Allocated, Extents
  <2>2. \A o \in 0 .. MaxOffset : data'[o] = data[o] \/ o \in Target
    BY <1>3 DEF IInv, TypeOK, FileTyped
  <2>. QED  BY <1>5, <2>1, <2>2 DEF IInv, Fresh
<1>10. DriverInv'
  <2>1. FootersKnown'  BY <1>1, <1>2, <1>4, <1>6 DEF FootersKnown, Moving, process
  <2>2. LengthKnown'
    BY <1>1, <1>2, <1>4, Zenon DEF LengthKnown, Moving, process
  <2>3. RequestKnown'  BY <1>1 DEF RequestKnown
  <2>. QED  BY <1>2, <1>4, <2>1, <2>2, <2>3 DEF DriverInv, Allocated, process
<1>. QED  BY <1>7, <1>8, <1>9, <1>10 DEF IInv

-----------------------------------------------------------------------------
LEMMA StutterInv ==
  ASSUME IInv, UNCHANGED vars
  PROVE  IInv'
<1>1. TypeOK'
  BY DEF vars, IInv, TypeOK, FileTyped, ProcessTyped, RequestTyped
<1>2. BlocksApart' /\ FooterRecoverable' /\ Fresh'
  BY DEF vars, IInv, BlocksApart, FooterRecoverable, Fresh, Allocated, Extents
<1>3. DriverInv'
  BY DEF vars, IInv, DriverInv, FootersKnown, LengthKnown, RequestKnown, ReqBlock, Allocated
<1>. QED  BY <1>1, <1>2, <1>3 DEF IInv

LEMMA StepInv ==
  ASSUME IInv, [Next]_vars
  PROVE  IInv'
<1>1. ASSUME NEW off \in 0 .. Size, NEW len \in 1 .. MaxLength, Read(off, len)
      PROVE  IInv'
  BY <1>1, ReadInv
<1>2. ASSUME NEW off \in 0 .. Size, NEW len \in 1 .. MaxLength, NEW v \in Val,
             BeginWrite(off, len, v)
      PROVE  IInv'
  BY <1>2, BeginWriteInv
<1>3. ASSUME NullView \/ LostEntry \/ Killed PROVE IInv'
  BY <1>3, DeadInv DEF NullView, LostEntry, Killed
<1>. QED
  BY <1>1, <1>2, <1>3, SetEOFInv, SetAllocationInv, RemapInv, CopyFooterInv,
     ZeroFooterInv, SetEntryInv, StoreInv, CloseInv, OpenInv, StutterInv DEF Next

(* The inductive invariant.                                                *)
LEMMA Invariance == Spec => []IInv
<1>1. IInv /\ [Next]_vars => IInv'  BY StepInv
<1>. QED  BY InitInv, <1>1, PTL DEF Spec

(* The file, the driver's state and the request in progress stay within    *)
(* their types for every geometry: no allocation leaves the range of a     *)
(* table entry.                                                            *)
THEOREM TypeCorrect == Spec => []TypeOK
<1>1. IInv => TypeOK  BY DEF IInv
<1>. QED  BY <1>1, Invariance, PTL

(* No allocation, failure or cut makes two blocks share space, or a block  *)
(* cover the footer or the table.                                          *)
THEOREM LayoutSafe == Spec => []BlocksApart
<1>1. IInv => BlocksApart  BY DEF IInv
<1>. QED  BY <1>1, Invariance, PTL

(* Whatever step the process is killed at, a footer that lies after every  *)
(* block is at the end of the file or one extent before.                   *)
THEOREM FooterSafe == Spec => []FooterRecoverable
<1>1. IInv => FooterRecoverable  BY DEF IInv
<1>. QED  BY <1>1, Invariance, PTL

(* Between requests the driver finds its footer, at the end of its view.   *)
THEOREM FooterFound == Spec => []DriverKnowsFooter
<1>1. ASSUME IInv, mode = "dynamic", pc = "idle", mapped
      PROVE  footer_offset \in footers /\ length = footer_offset + 1 /\ length <= eof
  BY <1>1 DEF IInv, DriverInv, FootersKnown, LengthKnown
<1>2. IInv => DriverKnowsFooter  BY <1>1 DEF DriverKnowsFooter
<1>. QED  BY <1>2, Invariance, PTL

-----------------------------------------------------------------------------
(* The refinement of FlatDisk.                                             *)
LEMMA UnitCell ==
  ASSUME IInv, NEW u \in 0 .. Size - 1, bat[u \div BlockSize] # Unused
  PROVE  /\ u \div BlockSize \in Allocated /\ bat[u \div BlockSize] \in Nat
         /\ bat[u \div BlockSize] + BitmapSize + (u % BlockSize) \in Extents(u \div BlockSize)
         /\ u % BlockSize \in 0 .. BlockSize - 1
<1>1. u \div BlockSize \in Blocks  BY UnitInDisk
<1>2. u \div BlockSize \in Allocated  BY <1>1 DEF Allocated
<1>3. bat[u \div BlockSize] \in Nat  BY <1>2, AllocatedTyped DEF IInv
<1>4. u % BlockSize \in 0 .. BlockSize - 1  BY u \in Nat, DivMod
<1>5. bat[u \div BlockSize] + BitmapSize + (u % BlockSize) \in Extents(u \div BlockSize)
  <2>. DEFINE a == bat[u \div BlockSize]  r == u % BlockSize
  <2>1. a \in Nat /\ r \in 0 .. BlockSize - 1  BY <1>3, <1>4
  <2>. HIDE DEF a, r
  <2>2. a + BitmapSize + r \in a .. a + Extent - 1  BY <2>1, Sizes, SizesAssumption
  <2>. QED  BY <2>2 DEF a, r, Extents
<1>. QED  BY <1>2, <1>3, <1>4, <1>5

LEMMA ExtentCell ==
  ASSUME IInv, NEW b \in Allocated, NEW o \in Extents(b)
  PROVE  Cell(o) = data[o]
  BY DEF IInv, BlocksApart, Cell

(* The contents depend on the table and on what the blocks hold.           *)
LEMMA SameContents ==
  ASSUME IInv, IInv', bat' = bat,
         \A b \in Allocated : \A o \in Extents(b) : data'[o] = data[o]
  PROVE  VData' = VData
<1>1. Allocated' = Allocated /\ \A b : Extents(b)' = Extents(b)  BY DEF Allocated, Extents
<1>2. \A b \in Allocated : \A o \in Extents(b) : Cell(o)' = Cell(o)
  <2>1. \A b \in Allocated : footers' \cap Extents(b) = {} /\ footers \cap Extents(b) = {}
    BY <1>1 DEF IInv, BlocksApart
  <2>. QED  BY <2>1 DEF Cell
<1>3. ASSUME NEW u \in 0 .. Size - 1, bat[u \div BlockSize] # Unused
      PROVE  Cell(bat[u \div BlockSize] + BitmapSize + (u % BlockSize))'
           = Cell(bat[u \div BlockSize] + BitmapSize + (u % BlockSize))
  BY <1>2, <1>3, UnitCell
<1>. QED  BY <1>3, Zenon DEF VData

LEMMA SameFile ==
  ASSUME UNCHANGED file
  PROVE  VData' = VData
  BY DEF VData, Cell, file

LEMMA RefineInit == Init => F!Init
<1>. SUFFICES ASSUME Init PROVE F!Init
  OBVIOUS
<1>1. \A u \in 0 .. Size - 1 : bat[u \div BlockSize] = Unused
  BY UnitInDisk DEF Init
<1>2. VData = [u \in 0 .. Size - 1 |-> Zero]  BY <1>1 DEF VData
<1>. QED  BY <1>2 DEF Init, F!Init

LEMMA Refused ==
  ASSUME VData' = VData, NEW op \in {"read", "write"},
         NEW off \in 0 .. Size, NEW len \in 1 .. Size, Refuse(op, off, len)
  PROVE  F!Next
<1>1. F!Refuse(op, off, len)  BY DEF Refuse, F!Refuse
<1>. QED  BY <1>1 DEF F!Next

LEMMA Forgotten ==
  ASSUME VData' = VData, out' = F!NoReply
  PROVE  F!Next
  BY DEF F!Next, F!Forget

LEMMA RefineRead ==
  ASSUME IInv, NEW off \in 0 .. Size, NEW len \in 1 .. MaxLength, Read(off, len)
  PROVE  F!Next
<1>t. off \in Nat /\ len \in Nat \ {0} /\ len \in 1 .. Size
  BY Sizes, SizesAssumption
<1>1. VData' = VData  BY SameFile DEF Read
<1>2. CASE ReadRefused(off, len)
  <2>1. Refuse("read", off, len)  BY <1>2 DEF Read
  <2>. QED  BY <1>1, <1>t, <2>1, Refused
<1>3. CASE ~ ReadRefused(off, len)
  <2>1. ~ (off + len > Size) /\ ~ (LastBlock(off, len) > FirstBlock(off))
    BY <1>3 DEF ReadRefused
  <2>2. off + len <= Size  BY <2>1, <1>t, Sizes
  <2>3. InBlock(off) + len <= BlockSize  BY <2>1, <1>t, WithinBlock
  <2>4. InBlock(off) \in Nat  BY <1>t, DivMod, SizesAssumption DEF InBlock
  <2>5. ASSUME NEW k \in 1 .. len
        PROVE  BytesRead(off, len)[k] = VData[off + k - 1]
    <3>1. k - 1 \in Nat /\ InBlock(off) + (k - 1) < BlockSize
          /\ off + k - 1 \in 0 .. Size - 1 /\ off + (k - 1) = off + k - 1
      BY <1>t, <2>2, <2>3, <2>4, Sizes, SizesAssumption
    <3>2. /\ (off + k - 1) \div BlockSize = FirstBlock(off)
          /\ (off + k - 1) % BlockSize = InBlock(off) + (k - 1)
      BY <3>1, <1>t, SameBlock
    <3>3. VData[off + k - 1] = IF bat[FirstBlock(off)] = Unused THEN Zero
                               ELSE Cell(bat[FirstBlock(off)] + BitmapSize + (InBlock(off) + (k - 1)))
      BY <3>1, <3>2 DEF VData
    <3>4. BytesRead(off, len)[k] = IF bat[FirstBlock(off)] = Unused THEN Zero
                                   ELSE Cell(bat[FirstBlock(off)] + BitmapSize + InBlock(off) + k - 1)
      BY DEF BytesRead
    <3>5. ASSUME bat[FirstBlock(off)] # Unused
          PROVE  bat[FirstBlock(off)] + BitmapSize + InBlock(off) + k - 1
               = bat[FirstBlock(off)] + BitmapSize + (InBlock(off) + (k - 1))
      <4>1. bat[FirstBlock(off)] \in Nat
        BY <3>1, <3>2, <3>5, UnitCell
      <4>. QED  BY <4>1, <2>4, <3>1, SizesAssumption
    <3>. QED  BY <3>3, <3>4, <3>5
  <2>6. BytesRead(off, len) = F!Slice(off, len)
    BY <2>5 DEF BytesRead, F!Slice
  <2>7. out' = F!Reply("read", off, len, TRUE, BytesRead(off, len))
    BY <1>3 DEF Read
  <2>8. F!Read(off, len)
    BY <1>1, <1>t, <2>2, <2>6, <2>7 DEF F!Read, F!InBounds
  <2>. QED  BY <1>t, <2>8 DEF F!Next
<1>. QED  BY <1>2, <1>3

LEMMA RefineBeginWrite ==
  ASSUME NEW off \in 0 .. Size, NEW len \in 1 .. MaxLength, NEW v \in Val,
         BeginWrite(off, len, v)
  PROVE  F!Next
<1>t. len \in 1 .. Size  BY Sizes, SizesAssumption
<1>1. VData' = VData  BY SameFile DEF BeginWrite
<1>2. CASE WriteRefused(off, len)
  <2>1. Refuse("write", off, len)  BY <1>2 DEF BeginWrite
  <2>. QED  BY <1>1, <1>t, <2>1, Refused
<1>3. CASE ~ WriteRefused(off, len)
  <2>1. out' = F!NoReply  BY <1>3 DEF BeginWrite
  <2>. QED  BY <1>1, <2>1, Forgotten
<1>. QED  BY <1>2, <1>3

LEMMA RequestBounds ==
  ASSUME IInv, pc \in Expanding \cup {"store"}
  PROVE  req.off \in 0 .. Size /\ req.len \in 1 .. Size
<1>1. req.len > 0 /\ req.off + req.len <= Size
  BY Busy DEF RequestKnown, Expanding
<1>2. req.off \in Nat /\ req.len \in Nat  BY DEF IInv, TypeOK, RequestTyped
<1>. QED  BY <1>1, <1>2, Sizes

LEMMA RefineRemap ==
  ASSUME IInv, Remap
  PROVE  F!Next \/ UNCHANGED <<VData, out>>
<1>1. VData' = VData  BY SameFile DEF Remap
<1>2. req.off \in 0 .. Size /\ req.len \in 1 .. Size
  BY RequestBounds DEF Remap, Expanding
<1>3. out' = out \/ Refuse("write", req.off, req.len)  BY DEF Remap
<1>. QED  BY <1>1, <1>2, <1>3, Refused

(* A block that has just been given a place reads as zeros, as it did      *)
(* before it had one.                                                      *)
LEMMA RefineSetEntry ==
  ASSUME IInv, IInv', SetEntry
  PROVE  UNCHANGED <<VData, out>>
<1>1. /\ pc = "set entry" /\ UNCHANGED <<footers, data, req, out>>
      /\ bat' = [bat EXCEPT ![ReqBlock] = footer_offset]
  BY DEF SetEntry
<1>2. RequestKnown /\ \A b \in Allocated : bat[b] + Extent <= footer_offset
  BY <1>1, Busy DEF Expanding
<1>3. ReqBlock \in Blocks /\ bat[ReqBlock] = Unused /\ footer_offset + Extent <= MaxOffset
  BY <1>1, <1>2 DEF RequestKnown, Expanding
<1>n. footer_offset \in Nat  BY Numbers DEF IInv
<1>4. bat \in [Blocks -> (0 .. MaxOffset) \cup {Unused}]  BY DEF IInv, TypeOK, FileTyped
<1>5. bat'[ReqBlock] = footer_offset /\ \A b \in Blocks : b # ReqBlock => bat'[b] = bat[b]
  BY <1>1, <1>3, <1>4
<1>6. ASSUME NEW o \in footer_offset .. footer_offset + Extent - 1
      PROVE  o \notin footers /\ data[o] = Zero
  <2>1. o \in 0 .. MaxOffset  BY <1>3, <1>n, Sizes, SizesAssumption
  <2>2. \A b \in Allocated : o \notin Extents(b)
    BY <1>2, <1>n, AllocatedTyped, Sizes DEF IInv, Extents
  <2>3. data[o] = Zero  BY <2>1, <2>2 DEF IInv, Fresh
  <2>4. \A b \in {ReqBlock} : b \in Allocated' /\ o \in Extents(b)'
    <3>1. footer_offset # Unused  BY <1>n, ValuesAssumption
    <3>2. ReqBlock \in Blocks /\ bat'[ReqBlock] = footer_offset  BY <1>3, <1>5
    <3>. QED  BY <3>1, <3>2 DEF Allocated, Extents
  <2>5. o \notin footers'  BY <2>4 DEF IInv, BlocksApart
  <2>. QED  BY <1>1, <2>3, <2>5
<1>7. ASSUME NEW u \in 0 .. Size - 1
      PROVE  VData'[u] = VData[u]
  <2>. DEFINE b == u \div BlockSize  r == u % BlockSize
  <2>1. b \in Blocks  BY UnitInDisk
  <2>2. VData[u] = IF bat[b] = Unused THEN Zero ELSE Cell(bat[b] + BitmapSize + r)
    BY DEF VData
  <2>3. VData'[u] = IF bat'[b] = Unused THEN Zero ELSE Cell(bat[b] + BitmapSize + r)'
    BY DEF VData
  <2>4. CASE b # ReqBlock
    <3>1. bat'[b] = bat[b]  BY <1>5, <2>1, <2>4
    <3>2. footers' = footers /\ data' = data  BY <1>1
    <3>. HIDE DEF b, r
    <3>3. b' = b /\ r' = r  BY DEF b, r
    <3>4. Cell(bat[b] + BitmapSize + r)' = Cell(bat[b] + BitmapSize + r)
      BY <3>1, <3>2, <3>3 DEF Cell
    <3>. QED  BY <2>2, <2>3, <3>1, <3>4
  <2>5. CASE b = ReqBlock
    <3>1. VData[u] = Zero  BY <1>3, <2>2, <2>5
    <3>2. bat'[b] # Unused /\ bat'[b] = footer_offset  BY <1>5, <1>n, <2>5, ValuesAssumption
    <3>3. r \in 0 .. BlockSize - 1  BY u \in Nat, DivMod
    <3>. HIDE DEF r
    <3>4. footer_offset + BitmapSize + r \in footer_offset .. footer_offset + Extent - 1
      BY <3>3, <1>n, Sizes, SizesAssumption
    <3>5. Cell(bat[b] + BitmapSize + r)' = Zero
      <4>1. r' = r  BY DEF r
      <4>2. footer_offset + BitmapSize + r \notin footers'
            /\ data'[footer_offset + BitmapSize + r] = Zero
        BY <1>1, <1>6, <3>4
      <4>. QED  BY <1>1, <3>2, <4>2, <4>1 DEF Cell
    <3>. QED  BY <2>3, <3>1, <3>2, <3>5
  <2>. QED  BY <2>4, <2>5
<1>8. VData' = VData
  <2>. DEFINE D == 0 .. Size - 1
  <2>1. VData = [u \in D |-> VData[u]] /\ VData' = [u \in D |-> VData'[u]]  BY DEF VData
  <2>. QED  BY <1>7, <2>1
<1>. QED  BY <1>1, <1>8

(* An acknowledged store changes exactly the units asked for.              *)
LEMMA RefineStore ==
  ASSUME IInv, IInv', Store
  PROVE  F!Next
<1>1. /\ pc = "store" /\ UNCHANGED <<eof, bat, process>>
  BY DEF Store
<1>2. /\ ReqBlock \in Allocated /\ bat[ReqBlock] \in Nat
      /\ Target \subseteq Extents(ReqBlock)
      /\ InBlock(req.off) \in 0 .. BlockSize - 1
      /\ req.off \in Nat /\ req.len \in Nat \ {0}
      /\ InBlock(req.off) + req.len <= BlockSize
      /\ req.off + req.len <= Size
  BY <1>1, TargetInBlock
<1>b. req.off \in 0 .. Size /\ req.len \in 1 .. Size  BY <1>2, Sizes
<1>v. req.val \in Val  BY DEF IInv, TypeOK, RequestTyped
<1>3. CASE BadOffset(bat[ReqBlock] + BitmapSize, req.f_off)
  <2>1. Refuse("write", req.off, req.len) /\ UNCHANGED <<data, footers>>
    BY <1>3 DEF Store
  <2>2. VData' = VData  BY <1>1, <2>1, SameFile DEF file
  <2>. QED  BY <1>b, <2>1, <2>2, Refused
<1>4. CASE ~ BadOffset(bat[ReqBlock] + BitmapSize, req.f_off)
  <2>1. /\ data' = [o \in DOMAIN data |-> IF o \in Target THEN req.val ELSE data[o]]
        /\ out' = F!Reply("write", req.off, req.len, TRUE, <<>>)
    BY <1>4 DEF Store, Target
  <2>2. ASSUME NEW b \in Allocated, NEW o \in Extents(b)
        PROVE  /\ o \notin footers /\ o \notin footers'
               /\ data'[o] = IF o \in Target THEN req.val ELSE data[o]
    <3>1. o \notin footers /\ footers' \subseteq footers
      BY <1>4 DEF IInv, BlocksApart, Store
    <3>2. o \in Nat /\ o < eof /\ eof \in Nat
      BY Numbers, AllocatedTyped, Sizes DEF IInv, BlocksApart, Extents
    <3>3. o <= footer_offset /\ footer_offset \in 0 .. MaxOffset
      <4>1. bat[b] + Extent <= footer_offset  BY <1>1, Busy
      <4>. QED  BY <4>1, Numbers, AllocatedTyped, Sizes DEF IInv, TypeOK, ProcessTyped, Extents
    <3>4. o \in DOMAIN data
      BY <3>2, <3>3, SizesAssumption DEF IInv, TypeOK, FileTyped
    <3>. QED  BY <2>1, <3>1, <3>4
  <2>3. ASSUME NEW u \in 0 .. Size - 1
        PROVE  VData'[u] = IF u \in req.off .. req.off + req.len - 1 THEN req.val ELSE VData[u]
    <3>. DEFINE b == u \div BlockSize  r == u % BlockSize  o == bat[b] + BitmapSize + r
    <3>1. VData[u] = IF bat[b] = Unused THEN Zero ELSE Cell(o)  BY DEF VData
    <3>2. VData'[u] = IF bat[b] = Unused THEN Zero ELSE Cell(o)'  BY <1>1 DEF VData
    <3>3. u \in Nat /\ b \in Nat /\ r \in 0 .. BlockSize - 1 /\ u = BlockSize * b + r
      BY DivMod
    <3>4. CASE u \in req.off .. req.off + req.len - 1
      <4>1. PICK k \in Nat : u = req.off + k /\ k < req.len
        <5>1. u - req.off \in Nat /\ u = req.off + (u - req.off) /\ u - req.off < req.len
          BY <3>4, <1>2
        <5>. QED  BY <5>1
      <4>2. b = ReqBlock /\ r = InBlock(req.off) + k
        <5>1. InBlock(req.off) + k < BlockSize  BY <4>1, <1>2, SizesAssumption
        <5>. QED  BY <4>1, <5>1, <1>2, SameBlock DEF ReqBlock
      <4>3. bat[b] # Unused  BY <4>2, <1>2 DEF Allocated
      <4>4. o \in Target
        <5>1. k + 1 \in 1 .. req.len  BY <4>1, <1>2
        <5>2. o = bat[ReqBlock] + BitmapSize + InBlock(req.off) + (k + 1) - 1
          BY <4>1, <4>2, <1>2, SizesAssumption
        <5>. QED  BY <5>1, <5>2 DEF Target
      <4>5. o \in Extents(ReqBlock)  BY <4>4, <1>2
      <4>6. o \notin footers' /\ data'[o] = req.val  BY <1>2, <2>2, <4>4, <4>5
      <4>7. Cell(o)' = req.val
        <5>1. o' = o  BY <1>1
        <5>. HIDE DEF o
        <5>. QED  BY <4>6, <5>1 DEF Cell
      <4>. QED  BY <3>2, <3>4, <4>3, <4>7
    <3>5. CASE u \notin req.off .. req.off + req.len - 1
      <4>1. CASE bat[b] = Unused  BY <3>1, <3>2, <3>5, <4>1
      <4>2. CASE bat[b] # Unused
        <5>1. b \in Allocated /\ bat[b] \in Nat /\ o \in Extents(b)  BY <4>2, UnitCell
        <5>2. o \notin Target
          <6>1. SUFFICES ASSUME o \in Target PROVE FALSE
            OBVIOUS
          <6>2. b = ReqBlock
            <7>1. o \in Extents(ReqBlock)  BY <1>2, <6>1
            <7>. HIDE DEF b, o
            <7>. QED  BY <1>2, <5>1, <7>1 DEF IInv, BlocksApart
          <6>3. PICK k \in 1 .. req.len :
                  o = bat[ReqBlock] + BitmapSize + InBlock(req.off) + k - 1
            BY <6>1 DEF Target
          <6>4. r = InBlock(req.off) + k - 1
            <7>1. bat[ReqBlock] + BitmapSize + r = bat[ReqBlock] + BitmapSize + InBlock(req.off) + k - 1
              BY <6>2, <6>3
            <7>. HIDE DEF r, b
            <7>. QED  BY <7>1, <1>2, <3>3, SizesAssumption
          <6>5. req.off = BlockSize * ReqBlock + InBlock(req.off) /\ ReqBlock \in Nat
            BY <1>2, DivMod DEF ReqBlock, FirstBlock, InBlock
          <6>6. BlockSize * ReqBlock \in Nat  BY <6>5, SizesAssumption, SMT
          <6>7. u = req.off + k - 1
            <7>. HIDE DEF r, b
            <7>1. u = BlockSize * ReqBlock + r  BY <3>3, <6>2
            <7>. QED  BY <6>4, <6>5, <6>6, <7>1, <1>2
          <6>. QED  BY <6>7, <3>5, <1>2
        <5>3. Cell(o)' = Cell(o)
          <6>1. o' = o  BY <1>1
          <6>2. o \notin footers /\ o \notin footers' /\ data'[o] = data[o]
            BY <2>2, <5>1, <5>2
          <6>. HIDE DEF o
          <6>. QED  BY <6>1, <6>2 DEF Cell
        <5>. QED  BY <3>1, <3>2, <3>5, <5>3
      <4>. QED  BY <4>1, <4>2
    <3>. QED  BY <3>4, <3>5
  <2>4. VData' = [u \in 0 .. Size - 1 |->
                    IF u \in req.off .. req.off + req.len - 1 THEN req.val ELSE VData[u]]
    <3>. DEFINE D == 0 .. Size - 1
    <3>1. VData' = [u \in D |-> VData'[u]]  BY DEF VData
    <3>. QED  BY <2>3, <3>1
  <2>5. F!Write(req.off, req.len, req.val)
    BY <1>2, <2>1, <2>4 DEF F!Write, F!InBounds
  <2>. QED  BY <1>b, <1>v, <2>5 DEF F!Next
<1>. QED  BY <1>3, <1>4

LEMMA RefineStep ==
  ASSUME IInv, IInv', [Next]_vars
  PROVE  [F!Next]_F!vars
<1>1. ASSUME NEW off \in 0 .. Size, NEW len \in 1 .. MaxLength, Read(off, len)
      PROVE  F!Next
  BY <1>1, RefineRead
<1>2. ASSUME NEW off \in 0 .. Size, NEW len \in 1 .. MaxLength, NEW v \in Val,
             BeginWrite(off, len, v)
      PROVE  F!Next
  BY <1>2, RefineBeginWrite
<1>3. ASSUME SetEOF \/ SetAllocation \/ CopyFooter \/ ZeroFooter
      PROVE  UNCHANGED <<VData, out>>
  <2>1. bat' = bat /\ out' = out
    BY <1>3 DEF SetEOF, SetAllocation, CopyFooter, ZeroFooter, file
  <2>2. CASE SetEOF \/ SetAllocation \/ CopyFooter
    <3>1. data' = data  BY <2>2 DEF SetEOF, SetAllocation, CopyFooter, file
    <3>. QED  BY <2>1, <3>1, SameContents
  <2>3. CASE ZeroFooter
    <3>1. pc = "zero footer" /\ data' = [data EXCEPT ![req.f_off] = Zero]
      BY <2>3 DEF ZeroFooter
    <3>2. req.f_off = footer_offset /\ footer_offset \in footers
      BY <3>1, Busy DEF RequestKnown, FootersKnown, Expanding
    <3>3. \A b \in Allocated : footer_offset \notin Extents(b)
      BY <3>2 DEF IInv, BlocksApart
    <3>4. \A b \in Allocated : \A o \in Extents(b) : data'[o] = data[o]
      <4>1. ASSUME NEW b \in Allocated, NEW o \in Extents(b) PROVE o \in 0 .. MaxOffset
        <5>1. bat[b] + Extent <= footer_offset  BY <3>1, Busy DEF Expanding
        <5>. QED  BY <5>1, AllocatedTyped, Sizes, SizesAssumption
                  DEF IInv, TypeOK, ProcessTyped, Extents
      <4>2. \A b \in Allocated : \A o \in Extents(b) : o # footer_offset  BY <3>3
      <4>. QED  BY <3>1, <3>2, <4>1, <4>2 DEF IInv, TypeOK, FileTyped
    <3>. QED  BY <2>1, <3>4, SameContents
  <2>. QED  BY <1>3, <2>2, <2>3
<1>4. ASSUME NullView \/ LostEntry \/ Killed \/ Close PROVE F!Next
  <2>1. VData' = VData  BY <1>4, SameFile DEF NullView, LostEntry, Killed, Close
  <2>2. out' = F!NoReply  BY <1>4 DEF NullView, LostEntry, Killed, Close, Dead
  <2>. QED  BY <2>1, <2>2, Forgotten
<1>5. ASSUME Open PROVE UNCHANGED <<VData, out>>
  BY <1>5, SameFile DEF Open
<1>6. ASSUME UNCHANGED vars PROVE UNCHANGED <<VData, out>>
  <2>1. UNCHANGED file  BY <1>6 DEF vars, file
  <2>. QED  BY <1>6, <2>1, SameFile DEF vars
<1>7. F!Next \/ UNCHANGED <<VData, out>>
  BY <1>1, <1>2, <1>3, <1>4, <1>5, <1>6, RefineRemap, RefineSetEntry, RefineStore DEF Next
<1>. QED  BY <1>7 DEF F!vars

(* For every geometry the driver implements the flat disk: acknowledged    *)
(* writes are read back, and no allocation, failure, cut or reopening      *)
(* changes the contents.                                                   *)
THEOREM Implements == Spec => ImplementsFlatDisk
<1>1. IInv /\ IInv' /\ [Next]_vars => [F!Next]_F!vars  BY RefineStep
<1>. QED  BY RefineInit, Invariance, <1>1, PTL DEF Spec, ImplementsFlatDisk, F!Spec
=============================================================================
