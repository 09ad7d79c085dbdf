--------------------------- MODULE DecodersProofs ---------------------------
(***************************************************************************)
(* Proofs of what the operators read from a disk. A disk that is           *)
(* recognised as a GPT disk, for every set of disks (DiskStep). The        *)
(* listing of a directory, for any records and bitmap: what was found is   *)
(* what comes before the pointer (ScanInv). A file by its run list, for    *)
(* any layout and widths: a number is read back from its bytes             *)
(* (UnsignedOfBytes, ParseOfBytes), the running offsets are the clusters   *)
(* of the layout (RunsAreLayout), and while the runs are analysed those    *)
(* with a flag are the ones that have to have one (AnalysisOK). Read once, *)
(* a verdict is kept.                                                      *)
(***************************************************************************)
EXTENDS Decoders, SequenceTheorems, WellFoundedInduction, TLAPS

(* A disk that was looked at keeps its verdict.                            *)
DiskInv == job = "disk" => input \in Disks /\ output = IsGPTPresent(input)

LEMMA DiskStep == DiskInv /\ [Next]_vars => DiskInv'
<1> SUFFICES ASSUME DiskInv, [Next]_vars PROVE DiskInv' OBVIOUS
<1>1. CASE ReadRuns BY <1>1 DEF ReadRuns, DiskInv
<1>2. CASE ReadDisk BY <1>2 DEF ReadDisk, DiskInv
<1>3. CASE OpenIndex BY <1>3 DEF OpenIndex, DiskInv
<1>4. CASE NextEntry BY <1>4 DEF NextEntry, Listing, DiskInv
<1>5. CASE EndOfNode BY <1>5 DEF EndOfNode, Listing, DiskInv
<1>6. CASE UNCHANGED vars BY <1>6 DEF vars, DiskInv
<1> QED BY <1>1, <1>2, <1>3, <1>4, <1>5, <1>6 DEF Next

-----------------------------------------------------------------------------
(* The scan stops only if every entry is accepted, and the first is then   *)
(* the GPT entry: another that comes before it is refused.                 *)
LEMMA ScanAccepts ==
  ASSUME NEW mbr, GptEntry(mbr) \in 0 .. 3
  PROVE  /\ mbr[1] = "ee" /\ \A i \in 2 .. 4 : mbr[i] # "other"
         /\ mbr[GptEntry(mbr) + 1] = "ee" /\ GptEntry(mbr) + 1 \in 1 .. 4
         /\ \A j \in 1 .. 4 : j > GptEntry(mbr) + 1 => mbr[j] # "ee"
<1> DEFINE a == Scan(mbr, Empty, 0)
           b == Scan(mbr, a, 1)
           c == Scan(mbr, b, 2)
           d == Scan(mbr, c, 3)
<1>1. a = IF mbr[1] = "ee" THEN 0 ELSE IF mbr[1] = "empty" THEN 4 ELSE -1
  BY DEF Scan, Entry, Empty
<1>2. b = IF a = -1 THEN -1
          ELSE IF mbr[2] = "ee" THEN IF a = 4 THEN -1 ELSE 1
          ELSE IF mbr[2] = "empty" THEN a ELSE -1
  <2> HIDE DEF a
  <2> QED BY DEF Scan, Entry, Empty
<1>3. c = IF b = -1 THEN -1
          ELSE IF mbr[3] = "ee" THEN IF b = 4 THEN -1 ELSE 2
          ELSE IF mbr[3] = "empty" THEN b ELSE -1
  <2> HIDE DEF b
  <2> QED BY DEF Scan, Entry, Empty
<1>4. d = IF c = -1 THEN -1
          ELSE IF mbr[4] = "ee" THEN IF c = 4 THEN -1 ELSE 3
          ELSE IF mbr[4] = "empty" THEN c ELSE -1
  <2> HIDE DEF c
  <2> QED BY DEF Scan, Entry, Empty
<1>5. d \in 0 .. 3 /\ d = GptEntry(mbr) BY DEF GptEntry
<1> HIDE DEF a, b, c, d
<1>6. d # -1 /\ d # 4 BY <1>5
<1>7. c # -1 /\ c # 4 /\ mbr[4] \in {"ee", "empty"} BY <1>4, <1>6
<1>8. b # -1 /\ b # 4 /\ mbr[3] \in {"ee", "empty"} BY <1>3, <1>7
<1>9. a # -1 /\ a # 4 /\ mbr[2] \in {"ee", "empty"} BY <1>2, <1>8
<1>10. mbr[1] = "ee" BY <1>1, <1>9
<1>11. \A i \in 2 .. 4 : i = 2 \/ i = 3 \/ i = 4 OBVIOUS
<1>12. a = 0 BY <1>1, <1>9
<1>13. /\ b = IF mbr[2] = "ee" THEN 1 ELSE 0
       /\ c = IF mbr[3] = "ee" THEN 2 ELSE b
       /\ d = IF mbr[4] = "ee" THEN 3 ELSE c
  BY <1>2, <1>3, <1>4, <1>7, <1>8, <1>9, <1>12
<1>14. mbr[d + 1] = "ee" /\ \A j \in 1 .. 4 : j > d + 1 => mbr[j] # "ee"
  <2>1. CASE mbr[4] = "ee" BY <1>13, <2>1
  <2>2. CASE mbr[4] # "ee" /\ mbr[3] = "ee" BY <1>13, <2>2
  <2>3. CASE mbr[4] # "ee" /\ mbr[3] # "ee" /\ mbr[2] = "ee" BY <1>13, <2>3
  <2>4. CASE mbr[4] # "ee" /\ mbr[3] # "ee" /\ mbr[2] # "ee" BY <1>10, <1>13, <2>4
  <2> QED BY <2>1, <2>2, <2>3, <2>4
<1>15. d + 1 \in 1 .. 4 BY <1>5
<1> QED BY <1>5, <1>7, <1>8, <1>9, <1>10, <1>11, <1>14, <1>15

LEMMA ScanOfPrescribed ==
  ASSUME NEW mbr, mbr = <<"ee", "empty", "empty", "empty">>
  PROVE  GptEntry(mbr) = 0
<1>1. mbr[1] = "ee" /\ mbr[2] = "empty" /\ mbr[3] = "empty" /\ mbr[4] = "empty" OBVIOUS
<1>2. Scan(mbr, Empty, 0) = 0 BY <1>1 DEF Scan, Entry, Empty
<1>3. Scan(mbr, 0, 1) = 0 BY <1>1 DEF Scan, Entry
<1>4. Scan(mbr, 0, 2) = 0 BY <1>1 DEF Scan, Entry
<1>5. Scan(mbr, 0, 3) = 0 BY <1>1 DEF Scan, Entry
<1> QED BY <1>2, <1>3, <1>4, <1>5 DEF GptEntry

(* A header whose checksums are right has those of itself and its table.   *)
LEMMA SealedHeader ==
  ASSUME NEW disk, NEW gpt, IsSealed(disk, gpt)
  PROVE  /\ gpt.entries_checksum = disk.table[gpt.parts_start_lba]
         /\ gpt.hdr_checksum = [body |-> Body(gpt), table |-> gpt.entries_checksum]
<1> DEFINE table == disk.table[gpt.parts_start_lba]
           sums  == Checksums(disk, gpt)
<1>1. sums.table = table /\ sums.header = [body |-> Body(gpt), table |-> table]
  BY DEF Checksums
<1>2. gpt.hdr_checksum = sums.header /\ gpt.entries_checksum = sums.table BY DEF IsSealed
<1> QED BY <1>1, <1>2

-----------------------------------------------------------------------------
LEMMA RecognisedIsPrescribed ==
  ASSUME NEW disk, IsGPTPresent(disk).present
  PROVE  LET one == disk.header[1]
             two == disk.header[one.backup_lba]
         IN /\ GptEntry(disk.mbr) \in 0 .. 3 /\ GptEntry(disk.mbr) + 1 \in disk.starts
            /\ IsSealed(disk, one) /\ IsSealed(disk, two)
            /\ one.current_lba = two.backup_lba /\ two.current_lba = one.backup_lba
            /\ one.usable = two.usable /\ one.disk_guid = two.disk_guid
<1>1. IsSecond(disk) /\ IsSealed(disk, Backup(disk)) BY DEF IsGPTPresent
<1>2. FirstSealed(disk) /\ IsValidTable2(Backup(disk), disk.header[1]) BY <1>1 DEF IsSecond
<1>3. IsFirst(disk) /\ IsSealed(disk, disk.header[1]) BY <1>2 DEF FirstSealed
<1>4. IsValidMbr(disk) /\ IsValidTable1(disk.header[1]) BY <1>3 DEF IsFirst
<1> QED BY <1>1, <1>2, <1>3, <1>4 DEF Backup, IsValidMbr, IsValidTable1, IsValidTable2

LEMMA PrescribedIsRecognised ==
  ASSUME NEW disk, IsPrescribed(disk)
  PROVE  IsGPTPresent(disk).present
<1> DEFINE one == disk.header[1]
           two == disk.header[one.backup_lba]
<1>1. GptEntry(disk.mbr) = 0 BY ScanOfPrescribed DEF IsPrescribed
<1>2. IsValidMbr(disk) BY <1>1 DEF IsValidMbr, IsPrescribed
<1>3. IsValidTable1(one) BY DEF IsValidTable1, IsPrescribed
<1>4. IsFirst(disk) BY <1>2, <1>3 DEF IsFirst, Asked, IsHeader, IsPrescribed
<1>5. IsSealed(disk, one) /\ IsSealed(disk, two) BY DEF IsPrescribed
<1>6. TableRead(disk, one) /\ TableRead(disk, two) BY DEF TableRead, IsPrescribed
<1>7. FirstSealed(disk) BY <1>4, <1>5, <1>6 DEF FirstSealed
<1>8. IsValidTable2(two, one) BY DEF IsValidTable2, IsPrescribed
<1>9. IsSecond(disk) BY <1>7, <1>8 DEF IsSecond, IsHeader, Backup, IsPrescribed
<1> QED BY <1>5, <1>6, <1>9 DEF IsGPTPresent, Backup

LEMMA LeftIsUnreadTable ==
  ASSUME NEW disk, IsGPTPresent(disk).left
  PROVE  LET one == disk.header[1]
             two == disk.header[one.backup_lba]
         IN /\ ~ IsGPTPresent(disk).present
            /\ one.parts_start_lba \in disk.broken \/ two.parts_start_lba \in disk.broken
<1>1. CASE IsFirst(disk) /\ ~ TableRead(disk, disk.header[1])
  BY <1>1 DEF FirstSealed, IsSecond, IsGPTPresent, TableRead
<1>2. CASE IsSecond(disk) /\ ~ TableRead(disk, Backup(disk))
  BY <1>2 DEF IsGPTPresent, TableRead, Backup
<1> QED BY <1>1, <1>2 DEF IsGPTPresent

(* A disk that is recognised has the GPT entry first and two headers that  *)
(* agree, with their checksums; a prescribed disk is recognised; and only  *)
(* a table that cannot be read leaves a buffer (isGPTPresent).             *)
THEOREM RecognisedDisks == Spec => []ProtectiveMbr
<1>1. Init => DiskInv BY DEF Init, DiskInv
<1>2. DiskInv => ProtectiveMbr
  <2> SUFFICES ASSUME DiskInv, job = "disk" PROVE ProtectiveMbr BY DEF ProtectiveMbr
  <2>1. input \in Disks /\ output = IsGPTPresent(input) BY DEF DiskInv
  <2> DEFINE one == input.header[1]
             two == input.header[one.backup_lba]
  <2>2. ASSUME output.present
        PROVE  /\ input.mbr[1] = "ee" /\ \A i \in 2 .. 4 : input.mbr[i] # "other"
               /\ \E i \in input.starts \cap 1 .. 4 :
                    /\ input.mbr[i] = "ee"
                    /\ \A j \in 1 .. 4 : j > i => input.mbr[j] # "ee"
               /\ IsSealed(input, one) /\ IsSealed(input, two)
               /\ one.current_lba = two.backup_lba /\ two.current_lba = one.backup_lba
               /\ one.usable = two.usable /\ one.disk_guid = two.disk_guid
    BY <2>1, <2>2, RecognisedIsPrescribed, ScanAccepts
  <2>3. input.prescribed => output.present
    BY <2>1, DisksAssumption, PrescribedIsRecognised
  <2>4. output.left =>
          /\ ~ output.present
          /\ one.parts_start_lba \in input.broken \/ two.parts_start_lba \in input.broken
    BY <2>1, LeftIsUnreadTable
  <2> HIDE DEF one, two
  <2>5. ASSUME output.present
        PROVE  \A h \in {one, two} :
                 /\ h.entries_checksum = input.table[h.parts_start_lba]
                 /\ h.hdr_checksum = [body |-> Body(h), table |-> h.entries_checksum]
    BY <2>2, <2>5, SealedHeader
  <2> QED BY <2>2, <2>3, <2>4, <2>5 DEF ProtectiveMbr, one, two
<1> QED BY <1>1, <1>2, DiskStep, PTL DEF Spec
-----------------------------------------------------------------------------
(* Induction on a set of numbers, from the least number outside of it.     *)
LEMMA NatSetInduction ==
  ASSUME NEW T, 0 \in T, \A n \in Nat : n \in T => n + 1 \in T
  PROVE  Nat \subseteq T
<1> SUFFICES ASSUME Nat \ T # {} PROVE FALSE OBVIOUS
<1>1. PICK x \in Nat \ T : \A y \in Nat \ T : ~ (<<y, x>> \in OpToRel(<, Nat))
  <2>1. IsWellFoundedOn(OpToRel(<, Nat), Nat) BY NatLessThanWellFounded
  <2> QED BY <2>1, WFMin
<1>2. \A y \in Nat \ T : ~ (y < x) BY <1>1 DEF OpToRel
<1>3. x - 1 \in Nat /\ x - 1 \notin Nat \ T BY <1>2
<1>4. x - 1 + 1 = x /\ x \notin T OBVIOUS
<1> QED BY <1>3, <1>4

(* There is a function that is defined by recursion on its argument.       *)
Unfolds(g, S, c, N, D) ==
  g \in [0 .. N -> S] /\ g[0] = c /\ \A n \in 1 .. N : g[n] = D[<<g[n - 1], n>>]

LEMMA Recursion ==
  ASSUME NEW S, NEW c, c \in S, NEW N, N \in Nat, NEW D, D \in [S \X (1 .. N) -> S]
  PROVE  \E g : Unfolds(g, S, c, N, D)
<1> DEFINE Begins(g, k) == /\ g \in [0 .. k -> S] /\ g[0] = c
                           /\ \A n \in 1 .. k : g[n] = D[<<g[n - 1], n>>]
           T == {k \in Nat : k <= N => \E g : Begins(g, k)}
<1>1. 0 \in T
  <2>1. Begins([n \in 0 .. 0 |-> c], 0) OBVIOUS
  <2> QED BY <2>1
<1>2. ASSUME NEW k \in Nat, k \in T PROVE k + 1 \in T
  <2> SUFFICES ASSUME k + 1 <= N PROVE \E h : Begins(h, k + 1) OBVIOUS
  <2>1. PICK g : Begins(g, k) BY <1>2
  <2> DEFINE h == [n \in 0 .. k + 1 |-> IF n <= k THEN g[n] ELSE D[<<g[k], k + 1>>]]
  <2>2. g[k] \in S /\ k + 1 \in 1 .. N BY <2>1
  <2>3. h \in [0 .. k + 1 -> S] /\ h[0] = c BY <2>1, <2>2
  <2>4. ASSUME NEW n \in 1 .. k + 1 PROVE h[n] = D[<<h[n - 1], n>>]
    <3>1. n - 1 \in 0 .. k /\ h[n - 1] = g[n - 1] OBVIOUS
    <3>2. CASE n \in 1 .. k
      <4>1. h[n] = g[n] BY <3>2
      <4> QED BY <2>1, <3>1, <3>2, <4>1
    <3>3. CASE n = k + 1
      <4>1. h[n] = D[<<g[k], k + 1>>] BY <3>3
      <4>2. n - 1 = k BY <3>3
      <4> QED BY <3>1, <3>3, <4>1, <4>2
    <3> QED BY <3>2, <3>3
  <2> QED BY <2>3, <2>4
<1> HIDE DEF T
<1>3. N \in T BY <1>1, <1>2, NatSetInduction
<1> QED BY <1>3 DEF T, Unfolds

(* FlattenSeq adds up the sequences one after the other.                   *)
Flat(g, s, A) ==
  g \in [0 .. Len(s) -> Seq(A)] /\ g[0] = <<>> /\ \A n \in 1 .. Len(s) : g[n] = g[n - 1] \o s[n]

LEMMA FlatExists ==
  ASSUME NEW A, NEW s \in Seq(Seq(A))
  PROVE  \E g : Flat(g, s, A)
<1> DEFINE S == Seq(A)
           N == Len(s)
           D == [x \in S \X (1 .. N) |-> x[1] \o s[x[2]]]
<1>1. N \in Nat /\ <<>> \in S OBVIOUS
<1>2. \A t \in S, k \in 1 .. N : t \o s[k] \in S OBVIOUS
<1>3. D \in [S \X (1 .. N) -> S] BY <1>2
<1>4. PICK g : Unfolds(g, S, <<>>, N, D)
  <2> HIDE DEF D, N, S
  <2> QED BY <1>1, <1>3, Recursion
<1>5. ASSUME NEW n \in 1 .. N PROVE g[n] = g[n - 1] \o s[n]
  <2>0. n - 1 \in 0 .. N BY <1>1
  <2>1. g[n - 1] \in S
    <3> HIDE DEF S, N
    <3> QED BY <1>4, <2>0 DEF Unfolds
  <2>2. <<g[n - 1], n>> \in S \X (1 .. N) BY <2>1
  <2>3. D[<<g[n - 1], n>>] = g[n - 1] \o s[n] BY <2>2
  <2>4. g[n] = D[<<g[n - 1], n>>]
    <3> HIDE DEF S, N, D
    <3> QED BY <1>4 DEF Unfolds
  <2> QED BY <2>3, <2>4
<1>6. g \in [0 .. N -> S] /\ g[0] = <<>> BY <1>4 DEF Unfolds
<1> QED BY <1>5, <1>6 DEF Flat

LEMMA FlattenIs ==
  ASSUME NEW A, NEW s \in Seq(Seq(A)), NEW g, Flat(g, s, A)
  PROVE  FlattenSeq(s) = g[Len(s)]
<1>0. \A n \in 1 .. Len(s) : g[n] = g[n - 1] \o s[n] BY Zenon DEF Flat
<1>1. CASE Len(s) = 0
  <2>1. s = <<>> BY <1>1
  <2> QED BY <1>1, <2>1 DEF FlattenSeq, Flat
<1>2. CASE Len(s) # 0
  <2> DEFINE Sound(f) == f = [i \in 1 .. Len(s) |-> IF i = 1 THEN s[i] ELSE f[i - 1] \o s[i]]
  <2>1. Len(s) \in Nat /\ Len(s) > 0 /\ \A i \in 1 .. Len(s) : s[i] \in Seq(A) BY <1>2
  <2>2. FlattenSeq(s) = (CHOOSE f : Sound(f))[Len(s)] BY <1>2 DEF FlattenSeq
  <2>3. g[1] = s[1]
    <3>1. s[1] \in Seq(A) BY <2>1
    <3>2. 1 \in 1 .. Len(s) /\ g[0] = <<>> BY <2>1 DEF Flat
    <3>3. g[1] = g[1 - 1] \o s[1] BY <1>0, <3>2, Zenon
    <3>4. g[1 - 1] = <<>> BY <3>2
    <3> QED BY <3>1, <3>3, <3>4
  <2>4. \E f : Sound(f)
    <3> DEFINE f == [i \in 1 .. Len(s) |-> g[i]]
    <3>1. ASSUME NEW i \in 1 .. Len(s)
          PROVE  f[i] = IF i = 1 THEN s[i] ELSE f[i - 1] \o s[i]
      <4>1. CASE i = 1 BY <2>3, <4>1
      <4>2. CASE i # 1
        <5>1. i - 1 \in 1 .. Len(s) BY <2>1, <4>2
        <5>2. f[i - 1] = g[i - 1] /\ f[i] = g[i] BY <5>1, Zenon
        <5>3. g[i] = g[i - 1] \o s[i] BY <1>0, Zenon
        <5> QED BY <4>2, <5>2, <5>3, Zenon
      <4> QED BY <4>1, <4>2
    <3>2. f = [i \in 1 .. Len(s) |-> IF i = 1 THEN s[i] ELSE f[i - 1] \o s[i]] BY <3>1
    <3> QED BY <3>2
  <2>5. PICK f : Sound(f) /\ FlattenSeq(s) = f[Len(s)] BY <2>2, <2>4
  <2>6. f[1] = s[1] BY <2>1, <2>5
  <2>7. \A i \in 1 .. Len(s) : i # 1 => f[i] = f[i - 1] \o s[i] BY <2>5
  <2> DEFINE T == {k \in Nat : k > 0 /\ k <= Len(s) => f[k] = g[k]}
  <2>8. 0 \in T OBVIOUS
  <2>9. ASSUME NEW k \in Nat, k \in T PROVE k + 1 \in T
    <3> SUFFICES ASSUME k + 1 <= Len(s) PROVE f[k + 1] = g[k + 1] OBVIOUS
    <3>1. CASE k = 0 BY <2>3, <2>6, <3>1
    <3>2. CASE k # 0
      <4>1. f[k] = g[k] BY <2>9, <3>2
      <4> DEFINE n == k + 1
      <4>2. n \in 1 .. Len(s) /\ n - 1 = k /\ n # 1 BY <2>1, <3>2
      <4> HIDE DEF n
      <4>3. f[n] = f[n - 1] \o s[n] BY <2>7, <4>2, Zenon
      <4>4. g[n] = g[n - 1] \o s[n] BY <1>0, <4>2, Zenon
      <4>5. f[n] = g[n] BY <4>1, <4>2, <4>3, <4>4, Zenon
      <4> QED BY <4>5 DEF n
    <3> QED BY <3>1, <3>2
  <2> HIDE DEF T
  <2>10. Len(s) \in T BY <2>1, <2>8, <2>9, NatSetInduction
  <2> QED BY <2>1, <2>5, <2>10 DEF T
<1> QED BY <1>1, <1>2

-----------------------------------------------------------------------------
(* The listing of a directory: what was found is what comes before the     *)
(* entry that is looked at.                                                *)
Reader == [root : Seq(Keys), records : Seq(Seq(Keys)), bitmap : SUBSET Nat, per : Nat \ {0}]

Regular(reader) ==
  /\ reader \in Reader /\ reader.bitmap \subseteq DOMAIN reader.records
  /\ reader.per = 1 \/ Len(reader.records) < 2

Kept(reader) ==
  [r \in DOMAIN reader.records |-> IF r \in reader.bitmap THEN reader.records[r] ELSE <<>>]

(* The entries in use of the first records.                                *)
Until(reader) == CHOOSE g : Flat(g, Kept(reader), Keys)

All(reader) == IF reader.records = <<>> THEN reader.root ELSE InUse(reader)

Position(reader) == [record : reader.bitmap, entry : Nat \ {0}]

(* What was found before the pointer.                                      *)
Before(reader, cur) ==
  IF RootOnly(reader) THEN SubSeq(reader.root, 1, cur.entry - 1)
  ELSE Until(reader)[cur.record - 1] \o SubSeq(reader.records[cur.record], 1, cur.entry - 1)

Place(reader, cur) ==
  /\ cur \in [record : IF RootOnly(reader) THEN {1} ELSE reader.bitmap, entry : Nat \ {0}]
  /\ cur.entry <= Len(Node(reader, cur)) + 1

Progress(reader, cur, fnd) ==
  \/ cur = None /\ fnd = All(reader)
  \/ Place(reader, cur) /\ fnd = Before(reader, cur)

ScanInv ==
  /\ job = "none" => found = <<>>
  /\ job = "index" => input \in Readers
  /\ job = "index" /\ (input.per = 1 \/ Len(input.records) < 2) => Progress(input, current, found)

LEMMA UntilFacts ==
  ASSUME NEW reader, Regular(reader)
  PROVE  /\ Flat(Until(reader), Kept(reader), Keys)
         /\ Kept(reader) \in Seq(Seq(Keys)) /\ Len(Kept(reader)) = Len(reader.records)
         /\ InUse(reader) = Until(reader)[Len(reader.records)]
<1> DEFINE S == Seq(Keys)
           N == Len(reader.records)
           k == Kept(reader)
<1>1. reader.records \in Seq(S) /\ N \in Nat /\ DOMAIN reader.records = 1 .. N
  BY DEF Regular, Reader
<1>2. k \in Seq(S) /\ Len(k) = N
  <2>1. <<>> \in S OBVIOUS
  <2>2. \A r \in 1 .. N : reader.records[r] \in S
    <3> HIDE DEF S
    <3> QED BY <1>1
  <2>3. k \in [1 .. N -> S]
    <3> HIDE DEF S, N
    <3> QED BY <1>1, <2>1, <2>2 DEF Kept
  <2> HIDE DEF S, N, k
  <2> QED BY <1>1, <2>3
<1>3. Flat(Until(reader), k, Keys)
  <2>1. \E g : Flat(g, k, Keys)
    <3> HIDE DEF k
    <3> QED BY <1>2, FlatExists
  <2> QED BY <2>1, Zenon DEF Until
<1>4. InUse(reader) = FlattenSeq(k) BY Zenon DEF InUse, Kept
<1>5. FlattenSeq(k) = Until(reader)[N]
  <2> DEFINE u == Until(reader)
  <2> HIDE DEF k, u
  <2>1. Flat(u, k, Keys) BY <1>3 DEF u
  <2>2. FlattenSeq(k) = u[Len(k)] BY <1>2, <2>1, FlattenIs
  <2>3. FlattenSeq(k) = u[N] BY <1>2, <2>2, Zenon
  <2> QED BY <2>3 DEF u
<1> QED BY <1>2, <1>3, <1>4, <1>5

(* Records that are not in use add nothing.                                *)
LEMMA UntilSkips ==
  ASSUME NEW reader, Regular(reader), NEW a \in 0 .. Len(reader.records),
         NEW b \in 0 .. Len(reader.records), a <= b,
         \A r \in a + 1 .. b : r \notin reader.bitmap
  PROVE  Until(reader)[b] = Until(reader)[a]
<1> DEFINE u == Until(reader)
           N == Len(reader.records)
           T == {n \in Nat : a + n <= b => u[a + n] = u[a]}
<1>0. N \in Nat BY DEF Regular, Reader
<1>1. 0 \in T OBVIOUS
<1>2. ASSUME NEW n \in Nat, n \in T PROVE n + 1 \in T
  <2> SUFFICES ASSUME a + n + 1 <= b PROVE u[a + n + 1] = u[a]
    OBVIOUS
  <2> DEFINE r == a + n + 1
  <2>1. r \in 1 .. N /\ r - 1 = a + n /\ r \in a + 1 .. b /\ r - 1 \in 0 .. N BY <1>0
  <2>2. Kept(reader)[r] = <<>>
    <3>1. r \in DOMAIN reader.records BY <2>1 DEF Regular, Reader
    <3>2. r \notin reader.bitmap BY <2>1
    <3> HIDE DEF r
    <3> QED BY <3>1, <3>2, Zenon DEF Kept
  <2>3. u[r] = u[r - 1] \o Kept(reader)[r] /\ u[r - 1] \in Seq(Keys)
    <3>1. Flat(u, Kept(reader), Keys) /\ Len(Kept(reader)) = N BY UntilFacts
    <3> HIDE DEF u, r, N
    <3> QED BY <2>1, <3>1 DEF Flat
  <2>4. u[r] = u[r - 1]
    <3> DEFINE v == u[r - 1]
    <3> HIDE DEF v, u, r
    <3>1. u[r] = v \o <<>> /\ v \in Seq(Keys) BY <2>2, <2>3, Zenon DEF v
    <3>2. v \o <<>> = v BY <3>1
    <3> QED BY <3>1, <3>2 DEF v
  <2>5. u[a + n] = u[a] BY <1>2
  <2> HIDE DEF u
  <2>6. u[r] = u[a]
    <3> HIDE DEF r
    <3> QED BY <2>1, <2>4, <2>5, Zenon
  <2> QED BY <2>6
<1> HIDE DEF T
<1>3. b - a \in T BY <1>1, <1>2, NatSetInduction
<1>4. u[a + (b - a)] = u[a] BY <1>3 DEF T
<1>5. a + (b - a) = b OBVIOUS
<1> HIDE DEF u
<1>6. u[b] = u[a] BY <1>4, <1>5, Zenon
<1> QED BY <1>6 DEF u


(* Where the search for a set bit ends (getNextIndexValue).                *)
LEMMA LeastBit ==
  ASSUME NEW B, B \subseteq Nat, B # {}
  PROVE  \E b \in B : \A c \in B : b <= c
<1> DEFINE T == {n \in Nat : (\E b \in B : b <= n) => \E b \in B : \A c \in B : b <= c}
<1>1. 0 \in T
  <2> SUFFICES ASSUME NEW b \in B, b <= 0 PROVE \A c \in B : b <= c OBVIOUS
  <2> QED OBVIOUS
<1>2. ASSUME NEW n \in Nat, n \in T PROVE n + 1 \in T
  <2> SUFFICES ASSUME NEW b \in B, b <= n + 1 PROVE \E x \in B : \A c \in B : x <= c
    OBVIOUS
  <2>1. CASE \E c \in B : c <= n BY <1>2, <2>1
  <2>2. CASE ~ \E c \in B : c <= n
    <3>1. \A c \in B : b <= c BY <2>2
    <3> QED BY <3>1
  <2> QED BY <2>1, <2>2
<1> HIDE DEF T
<1>3. Nat \subseteq T BY <1>1, <1>2, NatSetInduction
<1>4. PICK n \in B : TRUE OBVIOUS
<1>5. n \in T /\ n <= n BY <1>3, <1>4
<1> QED BY <1>5, <1>4 DEF T

LEMMA BitFound ==
  ASSUME NEW reader, Regular(reader), ~ RootOnly(reader), NEW i \in 0 .. Len(reader.records),
         NEW off \in {i}, off = 0 \/ reader.per = 1 \/ \A b \in reader.bitmap : b <= i
  PROVE  LET cur == FromBit(reader, i, off) IN
         \/ /\ cur = None
            /\ \A b \in reader.bitmap : b <= i
         \/ /\ cur \in [record : reader.bitmap, entry : {1}] /\ cur.record > i
            /\ \A b \in reader.bitmap : b > i => b >= cur.record
<1> DEFINE N == Len(reader.records)
           used == {b \in reader.bitmap : b > i}
<1>1. N \in Nat /\ N > 0 /\ reader.per \in Nat \ {0} /\ reader.bitmap \subseteq 1 .. N
  BY DEF Regular, Reader, RootOnly
<1>2. CASE used = {}
  <2>1. FromBit(reader, i, off) = None BY <1>2 DEF FromBit
  <2>2. \A b \in reader.bitmap : ~ (b > i) BY <1>2
  <2>3. \A b \in reader.bitmap : b <= i BY <1>1, <2>2
  <2> QED BY <2>1, <2>3
<1>3. CASE used # {}
  <2> DEFINE bit == CHOOSE b \in used : \A c \in used : b <= c
             at  == off + (bit - 1 - i) * reader.per
  <2>1. bit \in used /\ \A c \in used : bit <= c
    <3>1. used \subseteq Nat BY <1>1
    <3> HIDE DEF used
    <3> QED BY <1>3, <3>1, LeastBit
  <2>2. bit \in 1 .. N /\ bit > i /\ bit \in reader.bitmap BY <1>1, <2>1
  <2>3. FromBit(reader, i, off) = IF at >= Maxl(reader) THEN None ELSE At(reader, at)
    BY <1>3, Zenon DEF FromBit
  <2> HIDE DEF bit
  <2>4. At(reader, at) = [record |-> bit, entry |-> 1] /\ ~ (at >= Maxl(reader))
    <3>1. CASE reader.per = 1
      <4>1. at = bit - 1 BY <2>2, <3>1
      <4>2. at % 1 = 0 /\ at \div 1 = at BY <4>1, <2>2
      <4> HIDE DEF at
      <4> QED BY <1>1, <2>2, <3>1, <4>1, <4>2 DEF At, Maxl
    <3>2. CASE N = 1
      <4>1. bit = 1 /\ i = 0 /\ at = 0 BY <1>1, <2>2, <3>2
      <4>2. 0 % reader.per = 0 /\ 0 \div reader.per = 0 BY <1>1
      <4> HIDE DEF at
      <4> QED BY <1>1, <3>2, <4>1, <4>2 DEF At, Maxl
    <3>3. reader.per = 1 \/ N = 1
      <4>1. reader.per = 1 \/ N < 2 BY Zenon DEF Regular
      <4> HIDE DEF N
      <4> QED BY <1>1, <4>1
    <3> HIDE DEF at
    <3> QED BY <3>1, <3>2, <3>3
  <2>5. FromBit(reader, i, off) = [record |-> bit, entry |-> 1]
    BY <2>3, <2>4, Zenon
  <2>6. \A b \in reader.bitmap : b > i => b >= bit BY <1>1, <2>1, <2>2
  <2> QED BY <2>2, <2>5, <2>6
<1> QED BY <1>2, <1>3

(* The first of the entries that come next, or all of them.                *)
LEMMA StartOfRecord ==
  ASSUME NEW reader, Regular(reader), ~ RootOnly(reader), NEW i \in 0 .. Len(reader.records)
  PROVE  Progress(reader, FromBit(reader, i, i), Until(reader)[i])
<1> DEFINE cur == FromBit(reader, i, i)
           u   == Until(reader)
           N   == Len(reader.records)
<1>1. N \in Nat /\ N > 0 /\ reader.bitmap \subseteq 1 .. N /\ reader.records # <<>>
      /\ reader.records \in Seq(Seq(Keys))
  BY DEF Regular, Reader, RootOnly
<1>2. i = 0 \/ reader.per = 1 \/ \A b \in reader.bitmap : b <= i
  BY <1>1 DEF Regular
<1>3. CASE cur = None /\ \A b \in reader.bitmap : b <= i
  <2>1. \A r \in i + 1 .. N : r \notin reader.bitmap BY <1>1, <1>3
  <2>2. u[N] = u[i]
    <3>1. N \in 0 .. N /\ i <= N BY <1>1
    <3> HIDE DEF u
    <3> QED BY <2>1, <3>1, UntilSkips DEF u
  <2>3. All(reader) = u[N] BY <1>1, UntilFacts DEF All
  <2> QED BY <1>3, <2>2, <2>3 DEF Progress
<1>4. CASE /\ cur \in [record : reader.bitmap, entry : {1}] /\ cur.record > i
           /\ \A b \in reader.bitmap : b > i => b >= cur.record
  <2> DEFINE r == cur.record
  <2>1. r \in reader.bitmap /\ r \in 1 .. N /\ r > i /\ cur.entry = 1 BY <1>1, <1>4
  <2>2. \A x \in i + 1 .. r - 1 : x \notin reader.bitmap
    <3> TAKE x \in i + 1 .. r - 1
    <3>1. x > i /\ ~ (x >= r) BY <1>1, <2>1
    <3>2. x \in reader.bitmap /\ x > i => x >= r
      <4> HIDE DEF cur
      <4> QED BY <1>4, Zenon
    <3> HIDE DEF r
    <3> QED BY <3>1, <3>2
  <2>3. u[r - 1] = u[i]
    <3>1. r - 1 \in 0 .. N /\ i <= r - 1 BY <1>1, <2>1
    <3> HIDE DEF u, r
    <3> QED BY <2>2, <3>1, UntilSkips DEF u
  <2>4. Place(reader, cur)
    <3>1. Node(reader, cur) = reader.records[r] BY DEF Node
    <3>2. reader.records[r] \in Seq(Keys) BY <1>1, <2>1
    <3>3. Len(reader.records[r]) \in Nat BY <3>2
    <3>4. cur \in [record : reader.bitmap, entry : Nat \ {0}]
      <4> HIDE DEF cur
      <4> QED BY <1>4
    <3>5. cur.entry <= Len(Node(reader, cur)) + 1
      <4> HIDE DEF cur
      <4> QED BY <2>1, <3>1, <3>3
    <3> HIDE DEF cur
    <3> QED BY <3>4, <3>5 DEF Place
  <2>5. Before(reader, cur) = u[r - 1]
    <3> DEFINE v == u[r - 1]
               s == reader.records[r]
    <3>1. v \in Seq(Keys)
      <4>1. r - 1 \in 0 .. N BY <1>1, <2>1
      <4>2. Flat(u, Kept(reader), Keys) /\ Len(Kept(reader)) = N BY UntilFacts
      <4> HIDE DEF u, r, N
      <4> QED BY <4>1, <4>2 DEF Flat
    <3>2. Before(reader, cur) = v \o SubSeq(s, 1, cur.entry - 1) BY DEF Before
    <3>3. SubSeq(s, 1, cur.entry - 1) = <<>>
      <4>1. s \in Seq(Keys) BY <1>1, <2>1
      <4> HIDE DEF s, cur
      <4>2. cur.entry - 1 = 0 BY <2>1
      <4> DEFINE e == cur.entry - 1
      <4> HIDE DEF e
      <4>3. e = 0 BY <4>2 DEF e
      <4>4. SubSeq(s, 1, e) = <<>> BY <4>1, <4>3
      <4> QED BY <4>4 DEF e
    <3> HIDE DEF v, s, cur
    <3>4. Before(reader, cur) = v \o <<>> BY <3>2, <3>3, Zenon
    <3>5. v \o <<>> = v BY <3>1
    <3> QED BY <3>4, <3>5, Zenon DEF v
  <2> HIDE DEF cur, u
  <2>6. u[i] = Before(reader, cur) BY <2>3, <2>5, Zenon
  <2> QED BY <2>4, <2>6, Zenon DEF Progress, cur, u
<1>5. \/ cur = None /\ \A b \in reader.bitmap : b <= i
      \/ /\ cur \in [record : reader.bitmap, entry : {1}] /\ cur.record > i
         /\ \A b \in reader.bitmap : b > i => b >= cur.record
  BY <1>2, BitFound
<1> HIDE DEF cur
<1> QED BY <1>3, <1>4, <1>5
-----------------------------------------------------------------------------
LEMMA SubSeqFacts ==
  ASSUME NEW s \in Seq(Keys)
  PROVE  /\ SubSeq(s, 1, Len(s)) = s /\ SubSeq(s, 1, 0) = <<>>
         /\ \A e \in 1 .. Len(s) : /\ SubSeq(s, 1, e - 1) \in Seq(Keys) /\ s[e] \in Keys
                                   /\ SubSeq(s, 1, e) = Append(SubSeq(s, 1, e - 1), s[e])
<1>1. SubSeq(s, 1, Len(s)) = s /\ SubSeq(s, 1, 0) = <<>> OBVIOUS
<1>2. ASSUME NEW e \in 1 .. Len(s)
      PROVE  /\ SubSeq(s, 1, e - 1) \in Seq(Keys) /\ s[e] \in Keys
             /\ SubSeq(s, 1, e) = Append(SubSeq(s, 1, e - 1), s[e])
  <2> DEFINE t == SubSeq(s, 1, e - 1)
             u == SubSeq(s, 1, e)
  <2>1. /\ t \in Seq(Keys) /\ Len(t) = e - 1 /\ s[e] \in Keys
        /\ \A i \in 1 .. e - 1 : t[i] = s[i]
    OBVIOUS
  <2>2. u \in Seq(Keys) /\ Len(u) = e /\ \A i \in 1 .. e : u[i] = s[i] OBVIOUS
  <2> DEFINE v == Append(t, s[e])
  <2>3. v \in Seq(Keys) /\ Len(v) = e /\ \A i \in 1 .. e : v[i] = s[i]
    <3> HIDE DEF t
    <3> QED BY <2>1
  <2>4. u = v
    <3> HIDE DEF u, v
    <3> QED BY <2>2, <2>3
  <2> QED BY <2>1, <2>4
<1> QED BY <1>1, <1>2

LEMMA AppendConcat ==
  ASSUME NEW s \in Seq(Keys), NEW t \in Seq(Keys), NEW x \in Keys
  PROVE  Append(s \o t, x) = s \o Append(t, x)
<1> DEFINE u == Append(s \o t, x)
           v == s \o Append(t, x)
           N == Len(s) + Len(t) + 1
<1>1. u \in Seq(Keys) /\ Len(u) = N OBVIOUS
<1>2. v \in Seq(Keys) /\ Len(v) = N OBVIOUS
<1>3. ASSUME NEW i \in 1 .. N PROVE u[i] = v[i]
  <2>1. CASE i <= Len(s) BY <2>1
  <2>2. CASE i > Len(s) /\ i < N
    <3>1. i - Len(s) \in 1 .. Len(t) BY <2>2
    <3>2. u[i] = (s \o t)[i] BY <2>2
    <3>3. (s \o t)[i] = t[i - Len(s)] BY <2>2
    <3>4. v[i] = Append(t, x)[i - Len(s)] BY <2>2
    <3> QED BY <3>1, <3>2, <3>3, <3>4
  <2>3. CASE i = N BY <2>3
  <2> QED BY <2>1, <2>2, <2>3
<1>4. u = v
  <2> HIDE DEF u, v
  <2> QED BY <1>1, <1>2, <1>3
<1> QED BY <1>4

LEMMA PrefixConcat ==
  ASSUME NEW s \in Seq(Keys), NEW t \in Seq(Keys), NEW x \in Seq(Keys), IsPrefix(s, t)
  PROVE  IsPrefix(s, t \o x)
<1> DEFINE w == t \o x
<1>1. w \in Seq(Keys) /\ Len(w) = Len(t) + Len(x) /\ \A i \in 1 .. Len(t) : w[i] = t[i]
  OBVIOUS
<1>2. Len(s) <= Len(t) /\ SubSeq(s, 1, Len(s)) = SubSeq(t, 1, Len(s)) BY DEF IsPrefix
<1>3. Len(s) <= Len(w)
  <2> HIDE DEF w
  <2> QED BY <1>1, <1>2
<1> DEFINE a == SubSeq(t, 1, Len(s))
           b == SubSeq(w, 1, Len(s))
<1>4. a \in Seq(Keys) /\ Len(a) = Len(s) /\ \A i \in 1 .. Len(s) : a[i] = t[i] BY <1>2
<1>5. b \in Seq(Keys) /\ Len(b) = Len(s) /\ \A i \in 1 .. Len(s) : b[i] = w[i]
  <2> HIDE DEF w
  <2> QED BY <1>1, <1>3
<1>6. a = b
  <2>1. \A i \in 1 .. Len(s) : i \in 1 .. Len(t) BY <1>2
  <2> HIDE DEF a, b, w
  <2> QED BY <1>1, <1>4, <1>5, <2>1
<1> HIDE DEF w, a, b
<1> QED BY <1>2, <1>3, <1>6 DEF IsPrefix, a, b

LEMMA ConcatPrefix ==
  ASSUME NEW s \in Seq(Keys), NEW x \in Seq(Keys)
  PROVE  IsPrefix(s, s \o x)
<1>1. IsPrefix(s, s) BY DEF IsPrefix
<1> QED BY <1>1, PrefixConcat

(* What is before an entry begins what is in use.                          *)
LEMMA BeforeIsPrefix ==
  ASSUME NEW reader, Regular(reader), NEW cur, Place(reader, cur)
  PROVE  /\ Before(reader, cur) \in Seq(Keys) /\ IsPrefix(Before(reader, cur), All(reader))
         /\ cur # None /\ cur # Astray /\ Node(reader, cur) \in Seq(Keys) /\ cur.entry \in Nat \ {0}
         /\ ~ RootOnly(reader) => cur.record \in 1 .. Len(reader.records)
<1>0. cur # None /\ cur # Astray /\ cur.entry \in Nat \ {0} /\ cur.entry <= Len(Node(reader, cur)) + 1
  BY DEF Place, None, Astray
<1>1. /\ reader.root \in Seq(Keys) /\ reader.records \in Seq(Seq(Keys))
      /\ Len(reader.records) \in Nat
  BY DEF Regular, Reader
<1>2. ~ RootOnly(reader) => cur.record \in 1 .. Len(reader.records)
  BY <1>1 DEF Place, Regular
<1>3. \A s \in Seq(Keys) : \A e \in Nat \ {0} : e <= Len(s) + 1 =>
        /\ SubSeq(s, 1, e - 1) \in Seq(Keys) /\ SubSeq(s, e, Len(s)) \in Seq(Keys)
        /\ s = SubSeq(s, 1, e - 1) \o SubSeq(s, e, Len(s))
  <2> TAKE s \in Seq(Keys), e \in Nat \ {0}
  <2> HAVE e <= Len(s) + 1
  <2> DEFINE a == SubSeq(s, 1, e - 1)
             b == SubSeq(s, e, Len(s))
             w == a \o b
  <2>1. a \in Seq(Keys) /\ Len(a) = e - 1 /\ \A i \in 1 .. e - 1 : a[i] = s[i] OBVIOUS
  <2>2. b \in Seq(Keys) /\ Len(b) = Len(s) - e + 1
    OBVIOUS
  <2>3. \A i \in 1 .. Len(b) : b[i] = s[i + e - 1] OBVIOUS
  <2>4. w \in Seq(Keys) /\ Len(w) = Len(s)
    <3> HIDE DEF a, b
    <3> QED BY <2>1, <2>2
  <2>5. ASSUME NEW i \in 1 .. Len(s) PROVE w[i] = s[i]
    <3>1. CASE i <= e - 1
      <4> HIDE DEF a, b
      <4> QED BY <2>1, <2>2, <3>1
    <3>2. CASE i > e - 1
      <4> DEFINE j == i - (e - 1)
      <4>1. j \in 1 .. Len(s) - e + 1 /\ j + e - 1 = i BY <3>2
      <4>2. w[i] = b[j]
        <5> HIDE DEF a, b
        <5> QED BY <2>1, <2>2, <3>2
      <4>3. b[j] = s[j + e - 1]
        <5> HIDE DEF b, j
        <5> QED BY <2>2, <2>3, <4>1
      <4> HIDE DEF b, j, w
      <4> QED BY <4>1, <4>2, <4>3, Zenon
    <3> HIDE DEF w
    <3> QED BY <3>1, <3>2
  <2>6. s = w
    <3> HIDE DEF w
    <3> QED BY <2>4, <2>5
  <2> QED BY <2>1, <2>2, <2>6
<1>4. CASE RootOnly(reader)
  <2> DEFINE s == reader.root
             a == SubSeq(s, 1, cur.entry - 1)
             b == SubSeq(s, cur.entry, Len(s))
  <2>1. Node(reader, cur) = s /\ All(reader) = s /\ Before(reader, cur) = a
    BY <1>4, Zenon DEF Node, RootOnly, All, Before
  <2>2. s \in Seq(Keys) /\ cur.entry <= Len(s) + 1 BY <1>0, <1>1, <2>1
  <2>3. a \in Seq(Keys) /\ b \in Seq(Keys) /\ s = a \o b
    <3> HIDE DEF s
    <3> QED BY <1>0, <1>3, <2>2
  <2> HIDE DEF s, a, b
  <2>4. IsPrefix(a, a \o b) BY <2>3, ConcatPrefix
  <2>5. IsPrefix(a, s) BY <2>3, <2>4
  <2> QED BY <1>0, <1>4, <2>1, <2>2, <2>3, <2>5, Zenon
<1>5. CASE ~ RootOnly(reader)
  <2> DEFINE N == Len(reader.records)
             r == cur.record
             u == Until(reader)
             s == reader.records[r]
             a == SubSeq(s, 1, cur.entry - 1)
             b == SubSeq(s, cur.entry, Len(s))
             f == u[r - 1] \o a
  <2>1. r \in 1 .. N /\ r \in reader.bitmap /\ r - 1 \in 0 .. N /\ N \in 0 .. N
    BY <1>1, <1>2, <1>5 DEF Place
  <2>2. s \in Seq(Keys) BY <1>1, <2>1
  <2>3. Node(reader, cur) = s /\ Before(reader, cur) = f
    BY <1>5, Zenon DEF Node, Before
  <2>4. a \in Seq(Keys) /\ b \in Seq(Keys) /\ s = a \o b
    <3>1. cur.entry <= Len(s) + 1 BY <1>0, <2>3
    <3> HIDE DEF s
    <3> QED BY <1>0, <1>3, <2>2, <3>1
  <2>5. /\ \A n \in 0 .. N : u[n] \in Seq(Keys)
        /\ \A n \in 1 .. N : Kept(reader)[n] \in Seq(Keys) /\ u[n] = u[n - 1] \o Kept(reader)[n]
        /\ All(reader) = u[N]
    <3>1. Flat(u, Kept(reader), Keys) /\ Kept(reader) \in Seq(Seq(Keys))
          /\ Len(Kept(reader)) = N /\ InUse(reader) = u[N]
      BY UntilFacts
    <3>2. All(reader) = u[N] BY <1>5, <3>1, Zenon DEF All, RootOnly
    <3> DEFINE k == Kept(reader)
    <3> HIDE DEF u, N, k
    <3>3. Flat(u, k, Keys) /\ k \in Seq(Seq(Keys)) /\ Len(k) = N BY <3>1 DEF k
    <3>4. \A n \in 0 .. N : u[n] \in Seq(Keys) BY <3>3 DEF Flat
    <3>5. \A n \in 1 .. N : u[n] = u[n - 1] \o k[n] BY <3>3, Zenon DEF Flat
    <3>6. \A n \in 1 .. N : k[n] \in Seq(Keys) BY <3>3
    <3> QED BY <3>2, <3>4, <3>5, <3>6 DEF k
  <2>6. Kept(reader)[r] = s
    <3>1. r \in DOMAIN reader.records BY <1>1, <2>1
    <3> HIDE DEF r
    <3> QED BY <2>1, <3>1, Zenon DEF Kept
  <2> DEFINE v == u[r - 1]
  <2> HIDE DEF N, u, s, a, b, r
  <2>7. v \in Seq(Keys) BY <2>1, <2>5
  <2>8. u[r] = f \o b
    <3>1. u[r] = v \o (a \o b) BY <2>1, <2>4, <2>5, <2>6, Zenon
    <3> HIDE DEF v
    <3>2. v \o (a \o b) = (v \o a) \o b BY <2>4, <2>7
    <3> QED BY <3>1, <3>2, Zenon DEF v
  <2>9. f \in Seq(Keys)
    <3> HIDE DEF v
    <3>1. v \o a \in Seq(Keys) BY <2>4, <2>7
    <3> QED BY <3>1 DEF v
  <2> HIDE DEF f, v
  <2>10. IsPrefix(f, u[r]) BY <2>4, <2>8, <2>9, ConcatPrefix
  <2> DEFINE T == {n \in Nat : r + n <= N => IsPrefix(f, u[r + n])}
  <2>11. 0 \in T
    <3>1. r + 0 = r BY <2>1
    <3>2. IsPrefix(f, u[r + 0]) BY <2>10, <3>1, Zenon
    <3> QED BY <3>2
  <2>12. ASSUME NEW n \in Nat, n \in T PROVE n + 1 \in T
    <3> SUFFICES ASSUME r + (n + 1) <= N PROVE IsPrefix(f, u[r + (n + 1)]) OBVIOUS
    <3>0. N \in Nat BY <1>1 DEF N
    <3> DEFINE m == r + (n + 1)
    <3>1. m \in 1 .. N /\ m - 1 \in 0 .. N /\ m - 1 = r + n /\ r + n <= N
      BY <2>1, <3>0
    <3>2. IsPrefix(f, u[r + n]) BY <2>12, <3>1
    <3> HIDE DEF m
    <3>3. IsPrefix(f, u[m - 1]) BY <3>1, <3>2, Zenon
    <3>4. u[m - 1] \in Seq(Keys) /\ Kept(reader)[m] \in Seq(Keys)
          /\ u[m] = u[m - 1] \o Kept(reader)[m]
      BY <2>5, <3>1, Zenon
    <3> DEFINE p == u[m - 1]
               q == Kept(reader)[m]
    <3> HIDE DEF p, q
    <3>5. IsPrefix(f, p \o q) BY <2>9, <3>3, <3>4, PrefixConcat DEF p, q
    <3>6. IsPrefix(f, u[m]) BY <3>4, <3>5, Zenon DEF p, q
    <3> QED BY <3>6, Zenon DEF m
  <2> HIDE DEF T
  <2>13. N - r \in T
    <3>1. N - r \in Nat BY <1>1, <2>1 DEF N
    <3> QED BY <2>11, <2>12, <3>1, NatSetInduction
  <2>14. IsPrefix(f, u[N])
    <3>1. r + (N - r) = N BY <1>1, <2>1 DEF N
    <3>2. N <= N BY <1>1 DEF N
    <3>3. IsPrefix(f, u[r + (N - r)]) BY <2>13, <3>1, <3>2 DEF T
    <3> QED BY <3>1, <3>3, Zenon
  <2> QED BY <1>0, <1>2, <2>2, <2>3, <2>5, <2>9, <2>14, Zenon
<1> QED BY <1>4, <1>5
(* The next entry of a node, and the end of a node.                        *)
LEMMA NextProgress ==
  ASSUME NEW reader, Regular(reader), NEW cur, Place(reader, cur),
         cur.entry \in DOMAIN Node(reader, cur)
  PROVE  Progress(reader, [cur EXCEPT !.entry = @ + 1],
                  Append(Before(reader, cur), Node(reader, cur)[cur.entry]))
<1> DEFINE new == [cur EXCEPT !.entry = @ + 1]
           s == Node(reader, cur)
           e == cur.entry
<1>1. s \in Seq(Keys) /\ e \in 1 .. Len(s)
  <2>1. s \in Seq(Keys) BY BeforeIsPrefix
  <2> HIDE DEF s
  <2>2. e \in DOMAIN s BY DEF s
  <2> QED BY <2>1, <2>2
<1>2. new = [record |-> cur.record, entry |-> e + 1] BY DEF Place
<1>3. new.record = cur.record /\ new.entry = e + 1 /\ Node(reader, new) = s
  <2>1. new.record = cur.record /\ new.entry = e + 1 BY <1>2
  <2> HIDE DEF new
  <2> QED BY <2>1, Zenon DEF Node
<1>4. Place(reader, new)
  <2>1. cur.record \in IF RootOnly(reader) THEN {1} ELSE reader.bitmap
    BY DEF Place
  <2> HIDE DEF s, e
  <2>2. e + 1 \in Nat \ {0} /\ e + 1 <= Len(s) + 1 BY <1>1
  <2>3. new \in [record : IF RootOnly(reader) THEN {1} ELSE reader.bitmap, entry : Nat \ {0}]
    BY <1>2, <2>1, <2>2
  <2> HIDE DEF new
  <2> QED BY <1>3, <2>2, <2>3 DEF Place
<1> DEFINE t == SubSeq(s, 1, e - 1)
           x == s[e]
<1>5. t \in Seq(Keys) /\ x \in Keys /\ SubSeq(s, 1, e) = Append(t, x)
  <2> HIDE DEF s, e
  <2> QED BY <1>1, SubSeqFacts
<1>6. new.entry - 1 = e
  <2> HIDE DEF s, e, new
  <2>1. e \in Nat BY <1>1
  <2>2. new.entry = e + 1 BY <1>3
  <2> QED BY <2>1, <2>2
<1>7. CASE RootOnly(reader)
  <2>1. s = reader.root BY <1>7, Zenon DEF Node
  <2>2. Before(reader, cur) = t BY <1>7, <2>1, Zenon DEF Before
  <2> HIDE DEF new, e, s
  <2>3. Before(reader, new) = SubSeq(s, 1, e)
    <3>1. Before(reader, new) = SubSeq(reader.root, 1, new.entry - 1)
      BY <1>7, Zenon DEF Before
    <3> QED BY <1>6, <2>1, <3>1, Zenon
  <2>4. Before(reader, new) = Append(t, x) BY <1>5, <2>3, Zenon
  <2> HIDE DEF t, x
  <2>5. Append(Before(reader, cur), x) = Before(reader, new) BY <2>2, <2>4, Zenon
  <2> QED BY <1>4, <2>5, Zenon DEF Progress, new, x, s, e
<1>8. CASE ~ RootOnly(reader)
  <2> DEFINE v == Until(reader)[cur.record - 1]
  <2>1. s = reader.records[cur.record] BY <1>8, Zenon DEF Node
  <2>2. Before(reader, cur) = v \o t BY <1>8, <2>1, Zenon DEF Before
  <2>3. v \in Seq(Keys)
    <3>1. cur.record \in 1 .. Len(reader.records) BY <1>8, BeforeIsPrefix
    <3>2. Len(reader.records) \in Nat BY DEF Regular, Reader
    <3>3. cur.record - 1 \in 0 .. Len(reader.records) BY <3>1, <3>2
    <3> DEFINE r == cur.record - 1
    <3> HIDE DEF r
    <3> QED BY <3>3, UntilFacts DEF Flat, r
  <2> HIDE DEF new, e, s, v
  <2>4. Before(reader, new) = v \o SubSeq(s, 1, e)
    <3>1. Before(reader, new)
            = Until(reader)[new.record - 1] \o SubSeq(reader.records[new.record], 1, new.entry - 1)
      BY <1>8, Zenon DEF Before
    <3>2. new.record = cur.record BY <1>3
    <3> QED BY <1>6, <2>1, <3>1, <3>2, Zenon DEF v
  <2>5. Before(reader, new) = v \o Append(t, x) BY <1>5, <2>4, Zenon
  <2> HIDE DEF t, x
  <2>6. Append(v \o t, x) = v \o Append(t, x) BY <1>5, <2>3, AppendConcat
  <2>7. Append(Before(reader, cur), x) = Before(reader, new) BY <2>2, <2>5, <2>6, Zenon
  <2> QED BY <1>4, <2>7, Zenon DEF Progress, new, x, s, e
<1> QED BY <1>7, <1>8

LEMMA EndProgress ==
  ASSUME NEW reader, Regular(reader), NEW cur, Place(reader, cur),
         cur.entry \notin DOMAIN Node(reader, cur)
  PROVE  Progress(reader, NextRecord(reader, cur), Before(reader, cur))
<1> DEFINE s == Node(reader, cur)
           e == cur.entry
<1>1. s \in Seq(Keys) /\ e \in Nat \ {0} /\ e <= Len(s) + 1
  BY BeforeIsPrefix DEF Place
<1>2. SubSeq(s, 1, e - 1) = s
  <2> HIDE DEF s, e
  <2>1. DOMAIN s = 1 .. Len(s) /\ Len(s) \in Nat BY <1>1
  <2>2. e \notin 1 .. Len(s) BY <2>1 DEF s, e
  <2>3. e - 1 = Len(s) BY <1>1, <2>1, <2>2
  <2>4. SubSeq(s, 1, Len(s)) = s BY <1>1, SubSeqFacts
  <2> QED BY <2>3, <2>4, Zenon
<1>3. CASE RootOnly(reader)
  <2>1. NextRecord(reader, cur) = None BY <1>3, Zenon DEF NextRecord
  <2>2. s = reader.root /\ All(reader) = reader.root BY <1>3, Zenon DEF Node, RootOnly, All
  <2>3. Before(reader, cur) = SubSeq(s, 1, e - 1) BY <1>3, <2>2, Zenon DEF Before
  <2>4. Before(reader, cur) = All(reader) BY <1>2, <2>2, <2>3, Zenon
  <2> QED BY <2>1, <2>4, Zenon DEF Progress
<1>4. CASE ~ RootOnly(reader)
  <2> DEFINE r == cur.record
             N == Len(reader.records)
             v == Until(reader)[r - 1]
  <2>1. NextRecord(reader, cur) = FromBit(reader, r, r) BY <1>4, Zenon DEF NextRecord
  <2>2. s = reader.records[r] BY <1>4, Zenon DEF Node
  <2>3. Before(reader, cur) = v \o SubSeq(s, 1, e - 1) BY <1>4, <2>2, Zenon DEF Before
  <2>4. r \in 1 .. N /\ r \in 0 .. N /\ r \in DOMAIN reader.records /\ r \in reader.bitmap
    <3>1. r \in 1 .. N BY <1>4, BeforeIsPrefix
    <3>2. N \in Nat /\ DOMAIN reader.records = 1 .. N BY DEF Regular, Reader
    <3>3. r \in reader.bitmap BY <1>4 DEF Place
    <3> QED BY <3>1, <3>2, <3>3
  <2>5. Kept(reader)[r] = s
    <3> HIDE DEF r
    <3> QED BY <2>2, <2>4, Zenon DEF Kept
  <2>6. Until(reader)[r] = v \o Kept(reader)[r]
    <3>1. Flat(Until(reader), Kept(reader), Keys) /\ Len(Kept(reader)) = N BY UntilFacts
    <3> HIDE DEF r, N
    <3>2. \A n \in 1 .. N : Until(reader)[n] = Until(reader)[n - 1] \o Kept(reader)[n]
      BY <3>1, Zenon DEF Flat
    <3> QED BY <2>4, <3>2, Zenon
  <2>7. Before(reader, cur) = Until(reader)[r] BY <1>2, <2>3, <2>5, <2>6, Zenon
  <2>8. Progress(reader, FromBit(reader, r, r), Until(reader)[r])
    <3> HIDE DEF r
    <3> QED BY <1>4, <2>4, StartOfRecord
  <2> QED BY <2>1, <2>7, <2>8, Zenon
<1> QED BY <1>3, <1>4

LEMMA FirstProgress ==
  ASSUME NEW reader, Regular(reader)
  PROVE  Progress(reader, First(reader), <<>>)
<1>0. reader.root \in Seq(Keys) /\ Len(reader.root) \in Nat /\ Len(reader.records) \in Nat
  BY DEF Regular, Reader
<1>1. CASE RootOnly(reader)
  <2> DEFINE cur == [record |-> 1, entry |-> 1]
  <2>1. First(reader) = cur BY <1>1, Zenon DEF First
  <2>2. cur.record = 1 /\ cur.entry = 1 OBVIOUS
  <2>3. Node(reader, cur) = reader.root BY <1>1, Zenon DEF Node
  <2>4. Place(reader, cur)
    <3>1. cur \in [record : {1}, entry : Nat \ {0}] OBVIOUS
    <3> HIDE DEF cur
    <3> QED BY <1>0, <1>1, <2>2, <2>3, <3>1 DEF Place
  <2>5. Before(reader, cur) = SubSeq(reader.root, 1, cur.entry - 1)
    <3> HIDE DEF cur
    <3> QED BY <1>1, Zenon DEF Before
  <2>6. SubSeq(reader.root, 1, 0) = <<>> BY <1>0, SubSeqFacts
  <2>7. cur.entry - 1 = 0 OBVIOUS
  <2> HIDE DEF cur
  <2>8. Before(reader, cur) = <<>> BY <2>5, <2>6, <2>7, Zenon
  <2> QED BY <2>1, <2>4, <2>8, Zenon DEF Progress
<1>2. CASE ~ RootOnly(reader)
  <2>1. First(reader) = FromBit(reader, 0, 0) BY <1>2, Zenon DEF First
  <2>2. 0 \in 0 .. Len(reader.records) BY <1>0
  <2>3. Progress(reader, FromBit(reader, 0, 0), Until(reader)[0])
    BY <1>2, <2>2, StartOfRecord
  <2>4. Until(reader)[0] = <<>> BY UntilFacts DEF Flat
  <2> QED BY <2>1, <2>3, <2>4, Zenon
<1> QED BY <1>1, <1>2

LEMMA IsRegular ==
  ASSUME NEW reader \in Readers, reader.per = 1 \/ Len(reader.records) < 2
  PROVE  Regular(reader)
BY ReadersAssumption, Zenon DEF Regular, Reader

LEMMA ScanStep == ScanInv /\ [Next]_vars => ScanInv'
<1> SUFFICES ASSUME ScanInv, [Next]_vars PROVE ScanInv' OBVIOUS
<1>1. CASE ReadRuns BY <1>1 DEF ReadRuns, ScanInv
<1>2. CASE ReadDisk BY <1>2 DEF ReadDisk, ScanInv
<1>3. CASE OpenIndex
  <2>1. job' = "index" /\ input' \in Readers /\ current' = First(input') /\ found' = <<>>
    BY <1>3 DEF OpenIndex, ScanInv
  <2>2. ASSUME input'.per = 1 \/ Len(input'.records) < 2
        PROVE  Progress(input', current', found')
    <3>1. Regular(input') BY <2>1, <2>2, IsRegular
    <3>2. Progress(input', First(input'), <<>>) BY <3>1, FirstProgress
    <3> QED BY <2>1, <3>2, Zenon
  <2> QED BY <2>1, <2>2 DEF ScanInv
<1>4. CASE NextEntry \/ EndOfNode
  <2>1. /\ job = "index" /\ job' = "index" /\ input' = input /\ input \in Readers
        /\ current # None
    BY <1>4 DEF NextEntry, EndOfNode, Listing, ScanInv
  <2>2. ASSUME input.per = 1 \/ Len(input.records) < 2
        PROVE  Progress(input, current', found')
    <3>1. Regular(input) BY <2>1, <2>2, IsRegular
    <3>2. Place(input, current) /\ found = Before(input, current)
      BY <2>1, <2>2 DEF ScanInv, Progress
    <3>3. CASE NextEntry
      <4>1. /\ current.entry \in DOMAIN Node(input, current)
            /\ found' = Append(found, Node(input, current)[current.entry])
            /\ current' = [current EXCEPT !.entry = @ + 1]
        BY <3>3 DEF NextEntry
      <4>2. Progress(input, [current EXCEPT !.entry = @ + 1],
                     Append(Before(input, current), Node(input, current)[current.entry]))
        BY <3>1, <3>2, <4>1, NextProgress
      <4> QED BY <3>2, <4>1, <4>2, Zenon
    <3>4. CASE EndOfNode
      <4>1. /\ current.entry \notin DOMAIN Node(input, current)
            /\ found' = found /\ current' = NextRecord(input, current)
        BY <3>4 DEF EndOfNode
      <4>2. Progress(input, NextRecord(input, current), Before(input, current))
        BY <3>1, <3>2, <4>1, EndProgress
      <4> QED BY <3>2, <4>1, <4>2, Zenon
    <3> QED BY <1>4, <3>3, <3>4
  <2> QED BY <2>1, <2>2 DEF ScanInv
<1>5. CASE UNCHANGED vars BY <1>5 DEF vars, ScanInv
<1> QED BY <1>1, <1>2, <1>3, <1>4, <1>5 DEF Next

(* A directory is listed from its first entry to its last, each once and   *)
(* none from a record that is not in use, if a record is a cluster or      *)
(* there is one record (NTFSGetDirEntries, getNextIndexValue).             *)
THEOREM DirectoryIsListed == Spec => []ScanReturnsEntries
<1>1. Init => ScanInv BY DEF Init, ScanInv
<1>2. ScanInv => ScanReturnsEntries
  <2> SUFFICES ASSUME ScanInv, job = "index", input.per = 1 \/ Len(input.records) < 2
               PROVE  /\ current # Astray /\ IsPrefix(found, All(input))
                      /\ current = None => found = All(input)
    BY Zenon DEF ScanReturnsEntries, All
  <2>1. input \in Readers /\ Progress(input, current, found) BY DEF ScanInv
  <2>2. Regular(input) BY <2>1, IsRegular
  <2>3. CASE current = None /\ found = All(input)
    <3>1. IsPrefix(found, found) BY <2>3 DEF IsPrefix
    <3> QED BY <2>3, <3>1 DEF None, Astray
  <2>4. CASE Place(input, current) /\ found = Before(input, current)
    BY <2>2, <2>4, BeforeIsPrefix
  <2> QED BY <2>1, <2>3, <2>4, Zenon DEF Progress
<1> QED BY <1>1, <1>2, ScanStep, PTL DEF Spec
-----------------------------------------------------------------------------
(* Numbers and their bytes.                                                *)
LEMMA DivMod ==
  \A d \in Nat \ {0} : \A x \in Int :
    x = (x \div d) * d + (x % d) /\ x % d \in 0 .. d - 1 /\ x \div d \in Int
OBVIOUS

LEMMA DivModUnique ==
  \A d \in Nat \ {0} : \A q \in Int : \A r \in 0 .. d - 1 :
    (q * d + r) \div d = q /\ (q * d + r) % d = r
OBVIOUS

LEMMA Products ==
  /\ \A a, b \in Nat : a * b \in Nat
  /\ \A a, b \in Nat \ {0} : a * b \in Nat \ {0} /\ b <= a * b
OBVIOUS

LEMMA Constants ==
  Base \in Nat /\ Base > 1 /\ Word \in Nat \ {0} /\ Unit \in Nat \ {0} /\ Clusters \in Nat \ {0}
BY RunsAssumption

LEMMA PowerFacts ==
  /\ Power[0] = 1 /\ \A n \in 0 .. Word : Power[n] \in Nat \ {0}
  /\ \A n \in 1 .. Word : Power[n] = Base * Power[n - 1] /\ Power[n] >= Power[n - 1]
<1> DEFINE Walk(g) == g = [n \in 0 .. Word |-> IF n = 0 THEN 1 ELSE Base * g[n - 1]]
           S == Nat
           D == [x \in S \X (1 .. Word) |-> Base * x[1]]
<1>1. \E g : Walk(g)
  <2>1. Word \in Nat /\ 1 \in S BY Constants
  <2>2. D \in [S \X (1 .. Word) -> S] BY Constants, Products
  <2>3. PICK g : Unfolds(g, S, 1, Word, D)
    <3> HIDE DEF D, S
    <3> QED BY <2>1, <2>2, Recursion
  <2>4. ASSUME NEW n \in 1 .. Word PROVE g[n] = Base * g[n - 1]
    <3>1. n - 1 \in 0 .. Word BY <2>1
    <3>2. g[n - 1] \in S /\ g[n] = D[<<g[n - 1], n>>]
      <4> HIDE DEF S, D
      <4> QED BY <2>3, <3>1 DEF Unfolds
    <3>3. D[<<g[n - 1], n>>] = Base * g[n - 1] BY <3>2
    <3> QED BY <3>2, <3>3
  <2>5. g[0] = 1 /\ g = [n \in 0 .. Word |-> g[n]] BY <2>3 DEF Unfolds
  <2>6. ASSUME NEW n \in 0 .. Word PROVE g[n] = IF n = 0 THEN 1 ELSE Base * g[n - 1]
    <3>1. CASE n = 0 BY <2>5, <3>1
    <3>2. CASE n # 0
      <4>1. n \in 1 .. Word BY <2>1, <3>2
      <4> QED BY <2>4, <3>2, <4>1, Zenon
    <3> QED BY <3>1, <3>2
  <2> QED BY <2>5, <2>6, Zenon
<1>2. PICK g : Walk(g) /\ Power = [n \in 0 .. Word |-> g[n]]
  <2> DEFINE p == CHOOSE g : Walk(g)
  <2>1. Walk(p) BY <1>1
  <2>2. Power = [n \in 0 .. Word |-> p[n]] BY Zenon DEF Power
  <2> QED BY <2>1, <2>2
<1>3. g[0] = 1 /\ \A n \in 1 .. Word : g[n] = Base * g[n - 1]
  <2>1. 0 \in 0 .. Word /\ \A n \in 1 .. Word : n \in 0 .. Word /\ n # 0 BY Constants
  <2>2. ASSUME NEW n \in 1 .. Word PROVE g[n] = Base * g[n - 1]
    BY <1>2, <2>1, Zenon
  <2> QED BY <1>2, <2>1, <2>2
<1>4. Power[0] = 1 /\ \A n \in 1 .. Word : Power[n] = Base * Power[n - 1]
  <2>1. \A n \in 0 .. Word : Power[n] = g[n] BY <1>2, Zenon
  <2>2. 0 \in 0 .. Word /\ \A n \in 1 .. Word : n \in 0 .. Word /\ n - 1 \in 0 .. Word
    BY Constants
  <2> QED BY <1>3, <2>1, <2>2
<1> DEFINE T == {n \in Nat : n <= Word => Power[n] \in Nat \ {0}}
<1>5. 0 \in T BY <1>4
<1>6. ASSUME NEW n \in Nat, n \in T PROVE n + 1 \in T
  <2> SUFFICES ASSUME n + 1 <= Word PROVE Power[n + 1] \in Nat \ {0} OBVIOUS
  <2> DEFINE m == n + 1
  <2>1. m \in 1 .. Word /\ m - 1 = n /\ Power[n] \in Nat \ {0} BY <1>6, Constants
  <2> HIDE DEF m
  <2>2. Power[m] = Base * Power[n] BY <1>4, <2>1, Zenon
  <2>3. Power[m] \in Nat \ {0} BY <2>1, <2>2, Constants, Products
  <2> QED BY <2>3 DEF m
<1> HIDE DEF T
<1>7. Nat \subseteq T BY <1>5, <1>6, NatSetInduction
<1>8. \A n \in 0 .. Word : Power[n] \in Nat \ {0} BY <1>7, Constants DEF T
<1>9. ASSUME NEW n \in 1 .. Word PROVE Power[n] >= Power[n - 1]
  <2>1. n - 1 \in 0 .. Word BY Constants
  <2>2. Power[n - 1] \in Nat \ {0} /\ Power[n] \in Nat BY <1>8, <2>1, Constants
  <2>3. Power[n] = Base * Power[n - 1] BY <1>4
  <2>4. Base \in Nat \ {0} BY Constants
  <2>5. Power[n - 1] <= Base * Power[n - 1] BY <2>2, <2>4, Products
  <2> QED BY <2>2, <2>3, <2>5
<1> QED BY <1>4, <1>8, <1>9

(* What a byte adds to the number made of those below it.                  *)
LEMMA OneByte ==
  ASSUME NEW y \in Int, NEW p \in Nat \ {0}
  PROVE  y % (Base * p) = (y % p) + ((y \div p) % Base) * p
<1> DEFINE q == y \div p
           r == y % p
           c == q \div Base
           d == q % Base
<1>0. Base \in Nat \ {0} /\ Base * p \in Nat \ {0} BY Constants, Products
<1>1. y = q * p + r /\ r \in 0 .. p - 1 /\ q \in Int BY DivMod
<1>2. q = c * Base + d /\ d \in 0 .. Base - 1 /\ c \in Int
  <2> HIDE DEF q
  <2> QED BY <1>0, <1>1, DivMod
<1> HIDE DEF q, r, c, d
<1>3. y = c * (Base * p) + (d * p + r)
  <2>1. q * p = c * Base * p + d * p BY <1>0, <1>1, <1>2
  <2>2. c * Base * p = c * (Base * p) BY <1>0, <1>1, <1>2
  <2> DEFINE m == q * p
             n == c * (Base * p)
             o == d * p
  <2>3. m \in Int /\ n \in Int /\ o \in Int BY <1>0, <1>1, <1>2
  <2>4. m = n + o BY <2>1, <2>2
  <2>5. y = m + r BY <1>1
  <2> HIDE DEF m, n, o
  <2>6. y = n + (o + r) BY <1>1, <2>3, <2>4, <2>5
  <2> QED BY <2>6 DEF n, o
<1>4. d * p + r \in 0 .. Base * p - 1
  <2>1. d * p + p = (d + 1) * p BY <1>2
  <2>2. (d + 1) * p <= Base * p
    <3>1. Base = (d + 1) + (Base - (d + 1)) /\ Base - (d + 1) \in Nat BY <1>0, <1>2
    <3> DEFINE e == Base - (d + 1)
    <3> HIDE DEF e
    <3>2. Base = (d + 1) + e /\ e \in Nat BY <3>1 DEF e
    <3>3. Base * p = (d + 1) * p + e * p BY <1>2, <3>2
    <3>4. e * p \in Nat /\ (d + 1) * p \in Nat BY <1>2, <3>2, Products
    <3> QED BY <3>3, <3>4
  <2> DEFINE m == d * p
             n == (d + 1) * p
             o == Base * p
  <2>3. m \in Nat /\ n \in Nat /\ o \in Nat BY <1>0, <1>2, Products
  <2>4. m + p = n /\ n <= o BY <2>1, <2>2
  <2> HIDE DEF m, n, o
  <2>5. m + r \in 0 .. o - 1 BY <1>1, <2>3, <2>4
  <2> QED BY <2>5 DEF m, o
<1> DEFINE m == Base * p
           n == d * p + r
<1>5. m \in Nat \ {0} /\ n \in 0 .. m - 1 /\ y = c * m + n BY <1>0, <1>3, <1>4
<1>6. y % m = n
  <2> HIDE DEF m, n
  <2> QED BY <1>2, <1>5, DivModUnique
<1>7. n = r + d * p BY <1>1, <1>2
<1> QED BY <1>6, <1>7 DEF q, r, d
Byte == 0 .. Base - 1

(* The bytes of a number, put together, are the number.                    *)
LEMMA UnsignedOfBytes ==
  ASSUME NEW n \in 0 .. Word, NEW y \in 0 .. Power[n] - 1,
         NEW data \in [1 .. n -> Byte], \A k \in 1 .. n : data[k] = (y \div Power[k - 1]) % Base
  PROVE  Unsigned(data) = y
<1> DEFINE Walk(g) == g = [k \in 0 .. n |-> IF k = 0 THEN 0 ELSE g[k - 1] + data[k] * Power[k - 1]]
           S == Nat
           D == [x \in S \X (1 .. n) |-> x[1] + data[x[2]] * Power[x[2] - 1]]
<1>0. Len(data) = n /\ n \in Nat BY Constants
<1>1. ASSUME NEW k \in 1 .. n PROVE data[k] * Power[k - 1] \in Nat
  <2>1. k - 1 \in 0 .. Word BY Constants
  <2>2. data[k] \in Nat /\ Power[k - 1] \in Nat BY <2>1, PowerFacts, Constants DEF Byte
  <2> QED BY <2>2, Products
<1>2. D \in [S \X (1 .. n) -> S] BY <1>1
<1>3. \E g : Walk(g)
  <2>1. PICK g : Unfolds(g, S, 0, n, D)
    <3>1. 0 \in S OBVIOUS
    <3> HIDE DEF D, S
    <3> QED BY <1>0, <1>2, <3>1, Recursion
  <2>2. g[0] = 0 /\ g = [k \in 0 .. n |-> g[k]] BY <2>1 DEF Unfolds
  <2>3. ASSUME NEW k \in 0 .. n
        PROVE  g[k] = IF k = 0 THEN 0 ELSE g[k - 1] + data[k] * Power[k - 1]
    <3>1. CASE k = 0 BY <2>2, <3>1
    <3>2. CASE k # 0
      <4>1. k \in 1 .. n /\ k - 1 \in 0 .. n BY <1>0, <3>2
      <4>2. g[k - 1] \in S /\ g[k] = D[<<g[k - 1], k>>]
        <5> HIDE DEF S, D
        <5> QED BY <2>1, <4>1 DEF Unfolds
      <4>3. D[<<g[k - 1], k>>] = g[k - 1] + data[k] * Power[k - 1] BY <4>1, <4>2
      <4> QED BY <3>2, <4>2, <4>3, Zenon
    <3> QED BY <3>1, <3>2
  <2>4. g = [k \in 0 .. n |-> g[k]] BY <2>2
  <2> HIDE DEF D, S
  <2> QED BY <2>3, <2>4
<1>4. PICK g : Walk(g) /\ Unsigned(data) = g[n]
  <2> DEFINE p == CHOOSE g : Walk(g)
  <2>1. Walk(p) BY <1>3
  <2>2. Unsigned(data) = p[n] BY <1>0 DEF Unsigned
  <2> QED BY <2>1, <2>2
<1>5. g[0] = 0 BY <1>0, <1>4
<1>6. ASSUME NEW k \in 1 .. n PROVE g[k] = g[k - 1] + data[k] * Power[k - 1]
  <2>1. k \in 0 .. n /\ k # 0 BY <1>0
  <2> QED BY <1>4, <2>1, Zenon
<1>7. y \in Int /\ Power[n] \in Nat \ {0} BY PowerFacts
<1> DEFINE T == {k \in Nat : k <= n => g[k] = y % Power[k]}
<1>8. 0 \in T
  <2>1. y % 1 = 0 BY <1>7
  <2>2. g[0] = y % Power[0] BY <1>5, <2>1, PowerFacts
  <2> QED BY <2>2
<1>9. ASSUME NEW k \in Nat, k \in T PROVE k + 1 \in T
  <2> SUFFICES ASSUME k + 1 <= n PROVE g[k + 1] = y % Power[k + 1] OBVIOUS
  <2> DEFINE m == k + 1
  <2>1. m \in 1 .. n /\ m \in 1 .. Word /\ k \in 0 .. Word /\ m - 1 = k /\ g[k] = y % Power[k]
    BY <1>0, <1>9, Constants
  <2> HIDE DEF m
  <2>2. g[m] = g[k] + data[m] * Power[k] /\ data[m] = (y \div Power[k]) % Base
    BY <1>6, <2>1, Zenon
  <2>3. Power[m] = Base * Power[k] BY <2>1, PowerFacts, Zenon
  <2>4. Power[k] \in Nat \ {0} BY <2>1, PowerFacts
  <2>5. y % (Base * Power[k]) = (y % Power[k]) + ((y \div Power[k]) % Base) * Power[k]
    BY <1>7, <2>4, OneByte
  <2>6. g[m] = y % Power[m] BY <2>1, <2>2, <2>3, <2>5, Zenon
  <2> QED BY <2>6 DEF m
<1> HIDE DEF T
<1>10. n \in T BY <1>0, <1>8, <1>9, NatSetInduction
<1>11. g[n] = y % Power[n] BY <1>0, <1>10 DEF T
<1>12. y % Power[n] = y
  <2>1. 0 \in Int /\ y = 0 * Power[n] + y BY <1>7
  <2> QED BY <1>7, <2>1, DivModUnique
<1> QED BY <1>4, <1>11, <1>12

LEMMA UnsignedOfNone == Unsigned(<<>>) = 0
<1>1. 0 \in 0 .. Word /\ Power[0] = 1 /\ 0 \in 0 .. Power[0] - 1 BY Constants, PowerFacts
<1>2. <<>> \in [1 .. 0 -> Byte] OBVIOUS
<1>3. \A k \in 1 .. 0 : <<>>[k] = (0 \div Power[k - 1]) % Base OBVIOUS
<1> QED BY <1>1, <1>2, <1>3, UnsignedOfBytes

(* A number is read as it is written, up to the size of a word.            *)
LEMMA ParseOfBytes ==
  ASSUME NEW x \in Int, Fits(x, Word - 1)
  PROVE  Bytes(x) # <<>> /\ ParseRun(Bytes(x)) = IF x >= 0 THEN x ELSE x + Power[Word]
<1> DEFINE Ns == {n \in 1 .. Word : Fits(x, n)}
<1>0. Word \in 1 .. Word /\ Word - 1 \in 0 .. Word BY Constants
<1>1. Word \in Ns
  <2> DEFINE p == Power[Word - 1]
             q == Power[Word]
  <2>1. p \in Nat \ {0} /\ q \in Nat \ {0} /\ q >= p BY <1>0, PowerFacts
  <2>2. -p <= 2 * x /\ 2 * x < p BY DEF Fits
  <2> HIDE DEF p, q
  <2>3. -q <= 2 * x /\ 2 * x < q BY <2>1, <2>2
  <2>4. Fits(x, Word) BY <2>3 DEF Fits, q
  <2> QED BY <1>0, <2>4
<1>2. \E n \in 1 .. Word : Fits(x, n) /\ (n = 1 \/ ~ Fits(x, n - 1))
  <2>1. Ns \subseteq Nat /\ Ns # {} BY <1>1
  <2>2. PICK n \in Ns : \A m \in Ns : n <= m
    <3> HIDE DEF Ns
    <3> QED BY <2>1, LeastBit
  <2>3. n = 1 \/ n - 1 \in 1 .. Word BY <1>0, Constants
  <2>4. n = 1 \/ n - 1 \notin Ns BY <2>2
  <2>5. n = 1 \/ ~ Fits(x, n - 1)
    <3>1. n - 1 \in 1 .. Word /\ n - 1 \notin Ns => ~ Fits(x, n - 1) OBVIOUS
    <3> QED BY <2>3, <2>4, <3>1
  <2> QED BY <2>5
<1> DEFINE n == CHOOSE n \in 1 .. Word : Fits(x, n) /\ (n = 1 \/ ~ Fits(x, n - 1))
           p == Power[n]
           y == x % p
           data == [k \in 1 .. n |-> (y \div Power[k - 1]) % Base]
<1>3. n \in 1 .. Word /\ Fits(x, n)
  <2> DEFINE P(m) == Fits(x, m) /\ (m = 1 \/ ~ Fits(x, m - 1))
  <2>1. \E m \in 1 .. Word : P(m) BY <1>2
  <2>2. n = CHOOSE m \in 1 .. Word : P(m) OBVIOUS
  <2> HIDE DEF P, n
  <2>3. n \in 1 .. Word /\ P(n) BY <2>1, <2>2
  <2> QED BY <2>3 DEF P
<1>4. Bytes(x) = data BY Zenon DEF Bytes
<1> HIDE DEF n
<1>5. n \in 0 .. Word /\ n \in Nat /\ p \in Nat \ {0} /\ n \in 1 .. Word
  <2>1. n \in 0 .. Word /\ n \in Nat BY <1>3, Constants
  <2> QED BY <1>3, <2>1, PowerFacts
<1>6. -p <= 2 * x /\ 2 * x < p BY <1>3 DEF Fits
<1>7. y \in 0 .. p - 1 /\ y = IF x >= 0 THEN x ELSE x + p
  <2> HIDE DEF p
  <2>1. CASE x >= 0
    <3>1. x \in 0 .. p - 1 /\ x = 0 * p + x BY <1>5, <1>6, <2>1
    <3>2. 0 \in Int OBVIOUS
    <3>3. x % p = x BY <1>5, <3>1, <3>2, DivModUnique
    <3> QED BY <2>1, <3>1, <3>3
  <2>2. CASE x < 0
    <3>1. x + p \in 0 .. p - 1 /\ x = (-1) * p + (x + p) BY <1>5, <1>6, <2>2
    <3>2. -1 \in Int OBVIOUS
    <3>3. ((-1) * p + (x + p)) % p = x + p BY <1>5, <3>1, <3>2, DivModUnique
    <3>4. x % p = x + p BY <3>1, <3>3
    <3> QED BY <2>2, <3>1, <3>4
  <2> QED BY <2>1, <2>2
<1>8. data \in [1 .. n -> Byte]
  <2>1. ASSUME NEW k \in 1 .. n PROVE (y \div Power[k - 1]) % Base \in Byte
    <3>1. k - 1 \in 0 .. Word BY <1>5, Constants
    <3>2. Power[k - 1] \in Nat \ {0} BY <3>1, PowerFacts
    <3>3. y \in Int BY <1>7
    <3> DEFINE q == y \div Power[k - 1]
    <3>4. q \in Int BY <3>2, <3>3, DivMod
    <3> HIDE DEF q
    <3>5. q % Base \in Byte BY <3>4, Constants, DivMod DEF Byte
    <3> QED BY <3>5 DEF q
  <2> QED BY <2>1
<1>9. \A k \in 1 .. n : data[k] = (y \div Power[k - 1]) % Base OBVIOUS
<1> HIDE DEF y, data
<1>10. Unsigned(data) = y BY <1>5, <1>7, <1>8, <1>9, UnsignedOfBytes
<1>11. Len(data) = n /\ data # <<>> BY <1>5, <1>8
<1>12. ParseRun(data) = IF 2 * y >= p THEN y + Power[Word] - p ELSE y
  BY <1>10, <1>11 DEF ParseRun
<1>13. Power[Word] \in Nat BY <1>0, PowerFacts
<1> HIDE DEF p
<1>14. ParseRun(data) = IF x >= 0 THEN x ELSE x + Power[Word]
  <2>1. CASE x >= 0 BY <1>5, <1>6, <1>7, <1>12, <1>13, <2>1
  <2>2. CASE x < 0 BY <1>5, <1>6, <1>7, <1>12, <1>13, <2>2
  <2> QED BY <2>1, <2>2
<1> QED BY <1>4, <1>11, <1>14
-----------------------------------------------------------------------------
(* The runs that are read are those of the layout.                         *)
LEMMA LayoutFacts ==
  ASSUME NEW layout \in Layouts
  PROVE  /\ Len(layout) \in Nat /\ DOMAIN layout = 1 .. Len(layout)
         /\ \A i \in 1 .. Len(layout) :
              /\ layout[i].length \in Nat \ {0} /\ layout[i].cluster \in Nat
              /\ 2 * layout[i].length < Power[Word - 1] /\ 2 * layout[i].cluster < Power[Word - 1]
              /\ ~ IsHole(layout[i]) => layout[i].cluster + layout[i].length <= Clusters
<1> DEFINE R == [length : Nat \ {0}, cluster : Nat]
<1>1. /\ layout \in Seq(R)
      /\ \A i \in DOMAIN layout :
           /\ 2 * layout[i].length < Power[Word - 1] /\ 2 * layout[i].cluster < Power[Word - 1]
           /\ layout[i].cluster # 0 => layout[i].cluster + layout[i].length <= Clusters
  BY LayoutsAssumption
<1>2. Len(layout) \in Nat /\ DOMAIN layout = 1 .. Len(layout) /\ \A i \in 1 .. Len(layout) : layout[i] \in R
  <2> HIDE DEF R
  <2> QED BY <1>1
<1>3. ASSUME NEW i \in 1 .. Len(layout)
      PROVE  layout[i].length \in Nat \ {0} /\ layout[i].cluster \in Nat
  <2>1. layout[i] \in R BY <1>2
  <2> QED BY <2>1
<1> HIDE DEF R
<1> QED BY <1>1, <1>2, <1>3, Zenon DEF IsHole

LEMMA LastClusterFacts ==
  ASSUME NEW layout \in Layouts
  PROVE  /\ LastCluster(layout, 1) = 0
         /\ \A i \in 1 .. Len(layout) :
              LastCluster(layout, i + 1)
                = IF IsHole(layout[i]) THEN LastCluster(layout, i) ELSE layout[i].cluster
<1> DEFINE placed(i) == {j \in 1 .. i - 1 : ~ IsHole(layout[j])}
           last(i)   == CHOOSE j \in placed(i) : \A k \in placed(i) : k <= j
<1>1. \A i : LastCluster(layout, i) = IF placed(i) = {} THEN 0 ELSE layout[last(i)].cluster
  BY Zenon DEF LastCluster
<1>2. placed(1) = {} OBVIOUS
<1>3. ASSUME NEW i \in 1 .. Len(layout)
      PROVE  LastCluster(layout, i + 1)
               = IF IsHole(layout[i]) THEN LastCluster(layout, i) ELSE layout[i].cluster
  <2>0. i \in Nat \ {0} BY LayoutFacts
  <2>1. CASE IsHole(layout[i])
    <3>1. placed(i + 1) = placed(i) BY <2>0, <2>1
    <3> HIDE DEF placed
    <3> QED BY <1>1, <2>1, <3>1, Zenon
  <2>2. CASE ~ IsHole(layout[i])
    <3> DEFINE P == placed(i + 1)
               l == CHOOSE j \in P : \A k \in P : k <= j
    <3>1. i \in P /\ P \subseteq Nat /\ \A k \in P : k <= i BY <2>0, <2>2
    <3> HIDE DEF P
    <3>2. l \in P /\ \A k \in P : k <= l
      <4>1. \E j \in P : \A k \in P : k <= j BY <3>1
      <4> QED BY <4>1
    <3> HIDE DEF l
    <3>3. l = i BY <3>1, <3>2
    <3>4. P # {} BY <3>1
    <3>5. LastCluster(layout, i + 1) = layout[l].cluster
      <4> HIDE DEF placed
      <4> QED BY <1>1, <3>4, Zenon DEF P, l
    <3> QED BY <2>2, <3>3, <3>5, Zenon
  <2> QED BY <2>1, <2>2
<1>4. LastCluster(layout, 1) = 0
  <2> HIDE DEF placed
  <2> QED BY <1>1, <1>2, Zenon
<1> QED BY <1>3, <1>4

LEMMA DistanceRead ==
  ASSUME NEW a \in Nat, NEW b \in Nat, 2 * a < Power[Word - 1], 2 * b < Power[Word - 1]
  PROVE  /\ Bytes(b - a) # <<>> /\ ParseRun(Bytes(b - a)) \in Int
         /\ (a + ParseRun(Bytes(b - a))) % Power[Word] = b
<1> DEFINE q == Power[Word - 1]
           p == Power[Word]
           x == b - a
<1>1. q \in Nat \ {0} /\ p \in Nat \ {0} /\ q <= p
  <2>1. Word - 1 \in 0 .. Word /\ Word \in 1 .. Word /\ Word \in 0 .. Word BY Constants
  <2> QED BY <2>1, PowerFacts
<1>2. x \in Int /\ Fits(x, Word - 1)
  <2>1. 2 * a < q /\ 2 * b < q OBVIOUS
  <2> HIDE DEF q
  <2>2. -q <= 2 * x /\ 2 * x < q BY <1>1, <2>1
  <2> HIDE DEF x
  <2> QED BY <2>2 DEF Fits, q, x
<1>3. Bytes(x) # <<>> /\ ParseRun(Bytes(x)) = IF x >= 0 THEN x ELSE x + p
  <2> HIDE DEF x
  <2> QED BY <1>2, ParseOfBytes
<1>4. b \in 0 .. p - 1
  <2>1. 2 * b < q OBVIOUS
  <2> HIDE DEF p, q
  <2> QED BY <1>1, <2>1
<1> DEFINE r == ParseRun(Bytes(x))
<1>5. r = IF x >= 0 THEN x ELSE x + p BY <1>3
<1> HIDE DEF r, p, q
<1>6. r \in Int /\ (a + r = 0 * p + b \/ a + r = 1 * p + b) BY <1>1, <1>5
<1>7. (0 * p + b) % p = b /\ (1 * p + b) % p = b
  <2>1. 0 \in Int /\ 1 \in Int OBVIOUS
  <2> QED BY <1>1, <1>4, <2>1, DivModUnique
<1>8. (a + r) % p = b BY <1>6, <1>7
<1> QED BY <1>3, <1>6, <1>8 DEF r, p

RunType == [length : Nat \ {0}, offset : Nat, flags : SUBSET Flag]

(* Flags are those of the memory and, for a hole, that it is sparse.       *)
FlagsAt(layout, fresh, i) == fresh[i] \cup IF IsHole(layout[i]) THEN {"sparse"} ELSE {}

LEMMA RunsAreLayout ==
  ASSUME NEW layout \in Layouts, NEW fresh \in [DOMAIN layout -> SUBSET Flag]
  PROVE  LET runs == Runs(RunList(layout), fresh) IN
         /\ runs \in [1 .. Len(layout) -> RunType]
         /\ \A i \in 1 .. Len(layout) :
              /\ runs[i].length = layout[i].length
              /\ runs[i].flags = FlagsAt(layout, fresh, i)
              /\ ~ IsHole(layout[i]) => runs[i].offset = layout[i].cluster
<1> DEFINE N == Len(layout)
           pairs == RunList(layout)
           d(i) == ParseRun(pairs[i].distance)
           Walk(g) == g = [i \in 0 .. N |-> IF i = 0 THEN 0 ELSE (g[i - 1] + d(i)) % Power[Word]]
           L(i) == LastCluster(layout, i)
           w == Power[Word]
<1>0. /\ N \in Nat /\ DOMAIN layout = 1 .. N /\ w \in Nat \ {0}
      /\ \A i \in 1 .. N : /\ layout[i].length \in Nat \ {0} /\ layout[i].cluster \in Nat
                           /\ 2 * layout[i].length < Power[Word - 1]
                           /\ 2 * layout[i].cluster < Power[Word - 1]
  <2>1. Word \in 0 .. Word BY Constants
  <2> QED BY <2>1, LayoutFacts, PowerFacts
<1>1. /\ DOMAIN pairs = 1 .. N /\ Len(pairs) = N
      /\ \A i \in 1 .. N :
           /\ pairs[i].length = Bytes(layout[i].length)
           /\ pairs[i].distance = IF IsHole(layout[i]) THEN <<>>
                                  ELSE Bytes(layout[i].cluster - L(i))
  <2>1. pairs = [i \in 1 .. N |->
                   [length   |-> Bytes(layout[i].length),
                    distance |-> IF IsHole(layout[i]) THEN <<>>
                                 ELSE Bytes(layout[i].cluster - L(i))]]
    BY <1>0, Zenon DEF RunList
  <2> HIDE DEF pairs, L
  <2> QED BY <1>0, <2>1
<1>2. \A i \in 1 .. N : L(i + 1) = IF IsHole(layout[i]) THEN L(i) ELSE layout[i].cluster
  BY LastClusterFacts, Zenon
<1>3. L(1) = 0 BY LastClusterFacts, Zenon
<1> HIDE DEF L
<1> DEFINE T == {i \in Nat : i <= N => L(i + 1) \in Nat /\ 2 * L(i + 1) < Power[Word - 1]}
<1>4. Nat \subseteq T
  <2>1. 0 \in T
    <3>1. Word - 1 \in 0 .. Word BY Constants
    <3>2. Power[Word - 1] \in Nat \ {0} BY <3>1, PowerFacts
    <3>3. L(0 + 1) = 0 BY <1>3
    <3> QED BY <3>2, <3>3
  <2>2. ASSUME NEW i \in Nat, i \in T PROVE i + 1 \in T
    <3> SUFFICES ASSUME i + 1 <= N
                 PROVE  L(i + 1 + 1) \in Nat /\ 2 * L(i + 1 + 1) < Power[Word - 1]
      OBVIOUS
    <3> DEFINE m == i + 1
    <3>1. m \in 1 .. N /\ L(m) \in Nat /\ 2 * L(m) < Power[Word - 1] BY <1>0, <2>2
    <3> HIDE DEF m
    <3>2. L(m + 1) = IF IsHole(layout[m]) THEN L(m) ELSE layout[m].cluster BY <1>2, <3>1
    <3>3. layout[m].cluster \in Nat /\ 2 * layout[m].cluster < Power[Word - 1] BY <1>0, <3>1
    <3>4. L(m + 1) \in Nat /\ 2 * L(m + 1) < Power[Word - 1] BY <3>1, <3>2, <3>3
    <3> QED BY <3>4 DEF m
  <2> HIDE DEF T
  <2> QED BY <2>1, <2>2, NatSetInduction
<1>5. ASSUME NEW i \in 1 .. N PROVE L(i) \in Nat /\ 2 * L(i) < Power[Word - 1]
  <2>1. i - 1 \in T /\ i - 1 <= N
    <3>1. i - 1 \in Nat /\ i - 1 <= N BY <1>0
    <3> HIDE DEF T
    <3> QED BY <1>4, <3>1
  <2>2. L(i - 1 + 1) \in Nat /\ 2 * L(i - 1 + 1) < Power[Word - 1] BY <2>1
  <2>3. i - 1 + 1 = i BY <1>0
  <2> QED BY <2>2, <2>3
<1> HIDE DEF T, pairs
<1>6. ASSUME NEW i \in 1 .. N
      PROVE  /\ d(i) \in Int /\ (L(i) + d(i)) % w = L(i + 1)
             /\ pairs[i].distance = <<>> <=> IsHole(layout[i])
  <2>1. CASE IsHole(layout[i])
    <3>1. pairs[i].distance = <<>> BY <1>1, <2>1, Zenon
    <3>2. d(i) = 0 BY <3>1, UnsignedOfNone DEF ParseRun
    <3>3. L(i) \in Nat /\ 2 * L(i) < Power[Word - 1] BY <1>5
    <3>4. L(i) \in 0 .. w - 1
      <4>1. Word - 1 \in 0 .. Word /\ Word \in 1 .. Word BY Constants
      <4>2. Power[Word - 1] \in Nat \ {0} /\ Power[Word] >= Power[Word - 1]
        BY <4>1, PowerFacts
      <4> QED BY <1>0, <3>3, <4>2
    <3>5. L(i) % w = L(i)
      <4>1. 0 \in Int /\ L(i) = 0 * w + L(i) BY <1>0, <3>4
      <4> HIDE DEF w
      <4> QED BY <1>0, <3>4, <4>1, DivModUnique
    <3>6. L(i + 1) = L(i) BY <1>2, <2>1
    <3>7. L(i) + d(i) = L(i) BY <3>2, <3>3
    <3> QED BY <2>1, <3>1, <3>2, <3>5, <3>6, <3>7
  <2>2. CASE ~ IsHole(layout[i])
    <3> DEFINE c == layout[i].cluster
    <3>1. pairs[i].distance = Bytes(c - L(i)) BY <1>1, <2>2, Zenon
    <3>2. c \in Nat /\ 2 * c < Power[Word - 1] BY <1>0
    <3>3. L(i) \in Nat /\ 2 * L(i) < Power[Word - 1] BY <1>5
    <3> HIDE DEF c
    <3>4. /\ Bytes(c - L(i)) # <<>> /\ ParseRun(Bytes(c - L(i))) \in Int
          /\ (L(i) + ParseRun(Bytes(c - L(i)))) % Power[Word] = c
      BY <3>2, <3>3, DistanceRead
    <3>5. L(i + 1) = c BY <1>2, <2>2 DEF c
    <3> QED BY <2>2, <3>1, <3>4, <3>5, Zenon
  <2> QED BY <2>1, <2>2
<1> DEFINE l == [i \in 0 .. N |-> L(i + 1)]
<1>7. ASSUME NEW g, Walk(g) PROVE g = l
  <2>1. g[0] = 0 BY <1>0, <1>7
  <2>2. ASSUME NEW i \in 1 .. N PROVE g[i] = (g[i - 1] + d(i)) % Power[Word]
    <3>1. i \in 0 .. N /\ i # 0 BY <1>0
    <3> HIDE DEF d
    <3> QED BY <1>7, <3>1, Zenon
  <2> DEFINE Q == {i \in Nat : i <= N => g[i] = L(i + 1)}
  <2>3. 0 \in Q
    <3>1. L(0 + 1) = 0 BY <1>3
    <3> QED BY <2>1, <3>1
  <2>4. ASSUME NEW i \in Nat, i \in Q PROVE i + 1 \in Q
    <3> SUFFICES ASSUME i + 1 <= N PROVE g[i + 1] = L(i + 1 + 1) OBVIOUS
    <3> DEFINE m == i + 1
    <3>1. m \in 1 .. N /\ m - 1 = i /\ g[i] = L(m) BY <1>0, <2>4
    <3> HIDE DEF m, d
    <3>2. g[m] = (g[m - 1] + d(m)) % w BY <2>2, <3>1
    <3>3. g[m] = L(m + 1) BY <1>6, <3>1, <3>2, Zenon
    <3> QED BY <3>3 DEF m
  <2> HIDE DEF Q
  <2>5. Nat \subseteq Q BY <2>3, <2>4, NatSetInduction
  <2>6. \A i \in 0 .. N : g[i] = L(i + 1) BY <1>0, <2>5 DEF Q
  <2>7. g = [i \in 0 .. N |-> g[i]]
    <3> DEFINE e(i) == IF i = 0 THEN 0 ELSE (g[i - 1] + d(i)) % Power[Word]
    <3>1. g = [i \in 0 .. N |-> e(i)] BY <1>7, Zenon
    <3> HIDE DEF e
    <3> QED BY <3>1
  <2> QED BY <2>6, <2>7, Zenon
<1>8. Walk(l)
  <2>1. ASSUME NEW i \in 0 .. N PROVE L(i + 1) = IF i = 0 THEN 0 ELSE (l[i - 1] + d(i)) % Power[Word]
    <3>1. CASE i = 0
      <4>1. L(0 + 1) = 0 BY <1>3
      <4> QED BY <3>1, <4>1
    <3>2. CASE i # 0
      <4>1. i \in 1 .. N /\ i - 1 \in 0 .. N /\ i - 1 + 1 = i BY <1>0, <3>2
      <4>2. l[i - 1] = L(i) BY <4>1
      <4> HIDE DEF l, d
      <4>3. L(i + 1) = (l[i - 1] + d(i)) % Power[Word] BY <1>6, <4>1, <4>2, Zenon
      <4> QED BY <3>2, <4>3, Zenon
    <3> QED BY <3>1, <3>2
  <2> HIDE DEF d
  <2> QED BY <2>1, Zenon
<1>9. l = CHOOSE g : Walk(g)
  <2> HIDE DEF l, Walk
  <2>1. \E g : Walk(g) BY <1>8
  <2>2. Walk(CHOOSE g : Walk(g)) BY <2>1
  <2> QED BY <1>7, <2>2
<1> DEFINE runs == [i \in 1 .. N |->
                      [length |-> ParseRun(pairs[i].length),
                       offset |-> l[i],
                       flags  |-> fresh[i] \cup IF pairs[i].distance = <<>> THEN {"sparse"} ELSE {}]]
<1>10. Runs(pairs, fresh) = runs
  <2> DEFINE f == CHOOSE g : Walk(g)
  <2>1. Runs(pairs, fresh)
          = [i \in 1 .. N |->
               [length |-> ParseRun(pairs[i].length),
                offset |-> f[i],
                flags  |-> fresh[i] \cup IF pairs[i].distance = <<>> THEN {"sparse"} ELSE {}]]
    BY <1>1, Zenon DEF Runs
  <2>2. f = l BY <1>9
  <2> HIDE DEF f, l
  <2> QED BY <2>1, <2>2, Zenon
<1>11. ASSUME NEW i \in 1 .. N
       PROVE  /\ runs[i] = [length |-> layout[i].length, offset |-> L(i + 1),
                            flags |-> FlagsAt(layout, fresh, i)]
              /\ L(i + 1) \in Nat /\ FlagsAt(layout, fresh, i) \in SUBSET Flag
  <2>1. ParseRun(pairs[i].length) = layout[i].length
    <3> DEFINE x == layout[i].length
               q == Power[Word - 1]
    <3>1. x \in Nat \ {0} /\ 2 * x < q BY <1>0
    <3>2. q \in Nat \ {0}
      <4>1. Word - 1 \in 0 .. Word BY Constants
      <4> QED BY <4>1, PowerFacts
    <3> HIDE DEF x, q
    <3>3. x \in Int /\ x >= 0 /\ -q <= 2 * x BY <3>1, <3>2
    <3>4. ParseRun(Bytes(x)) = IF x >= 0 THEN x ELSE x + Power[Word]
      <4>1. Fits(x, Word - 1) BY <3>1, <3>3 DEF Fits, q
      <4> QED BY <3>3, <4>1, ParseOfBytes
    <3>5. pairs[i].length = Bytes(x) BY <1>1 DEF x
    <3> QED BY <3>3, <3>4, <3>5 DEF x
  <2>2. l[i] = L(i + 1) /\ L(i + 1) \in Nat
    <3>1. i \in 0 .. N /\ i \in Nat /\ i <= N BY <1>0
    <3>2. L(i + 1) \in Nat BY <1>4, <3>1 DEF T
    <3> QED BY <3>1, <3>2
  <2>3. (fresh[i] \cup IF pairs[i].distance = <<>> THEN {"sparse"} ELSE {})
          = FlagsAt(layout, fresh, i)
    BY <1>6, Zenon DEF FlagsAt
  <2>4. FlagsAt(layout, fresh, i) \in SUBSET Flag
    <3>1. fresh[i] \in SUBSET Flag BY <1>0
    <3> QED BY <3>1 DEF FlagsAt, Flag
  <2> HIDE DEF l
  <2> QED BY <2>1, <2>2, <2>3, <2>4, Zenon
<1>12. \A i \in 1 .. N : runs[i] \in RunType
  <2> TAKE i \in 1 .. N
  <2> DEFINE F == FlagsAt(layout, fresh, i)
  <2>1. layout[i].length \in Nat \ {0} BY <1>0
  <2>2. runs[i] = [length |-> layout[i].length, offset |-> L(i + 1), flags |-> F]
        /\ L(i + 1) \in Nat /\ F \in SUBSET Flag
    BY <1>11
  <2> HIDE DEF runs, F
  <2> QED BY <2>1, <2>2 DEF RunType
<1>13. DOMAIN runs = 1 .. N /\ runs = [i \in 1 .. N |-> runs[i]] OBVIOUS
<1>14. \A i \in 1 .. N : /\ runs[i].length = layout[i].length
                         /\ runs[i].flags = FlagsAt(layout, fresh, i)
                         /\ ~ IsHole(layout[i]) => runs[i].offset = layout[i].cluster
  <2> TAKE i \in 1 .. N
  <2>1. runs[i] = [length |-> layout[i].length, offset |-> L(i + 1),
                   flags |-> FlagsAt(layout, fresh, i)]
    BY <1>11
  <2>2. ~ IsHole(layout[i]) => L(i + 1) = layout[i].cluster BY <1>2
  <2> HIDE DEF runs
  <2> QED BY <2>1, <2>2
<1>15. runs \in [1 .. N -> RunType]
  <2> HIDE DEF runs
  <2> QED BY <1>12, <1>13
<1> HIDE DEF runs
<1> QED BY <1>10, <1>14, <1>15, Zenon DEF pairs
-----------------------------------------------------------------------------
(* The analysis of the runs.  b[i] is the first cluster of run i in the    *)
(* file, H are the holes.                                                  *)
LEMMA ModAdd ==
  ASSUME NEW p \in Nat, NEW n \in Nat \ {0}
  PROVE  LET v == p % Unit
             t == v + n
             w == (p + n) % Unit
         IN /\ v \in 0 .. Unit - 1 /\ w \in 0 .. Unit - 1 /\ v <= p /\ w = t % Unit
            /\ p + n - w >= p - v
            /\ t < Unit => p + n - w = p - v
            /\ t > Unit /\ w # 0 => p + n - w > p
<1> DEFINE v == p % Unit
           t == v + n
           w == (p + n) % Unit
           x == t % Unit
           y == t \div Unit
           z == p \div Unit
<1>0. Unit \in Nat \ {0} BY Constants
<1>1. p = z * Unit + v /\ v \in 0 .. Unit - 1 /\ z \in Int BY <1>0, DivMod
<1>2. t = y * Unit + x /\ x \in 0 .. Unit - 1 /\ y \in Int
  <2>1. t \in Int BY <1>1
  <2> HIDE DEF t
  <2> QED BY <1>0, <2>1, DivMod
<1>3. p + n = (z + y) * Unit + x
  <2>1. z * Unit \in Int /\ y * Unit \in Int /\ (z + y) * Unit = z * Unit + y * Unit
    BY <1>0, <1>1, <1>2
  <2> DEFINE zu == z * Unit
             yu == y * Unit
  <2>2. zu \in Int /\ yu \in Int /\ p = zu + v /\ t = yu + x /\ v \in Int /\ x \in Int
        /\ (z + y) * Unit = zu + yu
    BY <1>1, <1>2, <2>1
  <2>3. t = v + n OBVIOUS
  <2> HIDE DEF zu, yu, v, t, w, x, y, z
  <2> QED BY <2>2, <2>3
<1>4. w = x
  <2>1. z + y \in Int BY <1>1, <1>2
  <2>2. ((z + y) * Unit + x) % Unit = x
    <3> HIDE DEF x, y, z
    <3> QED BY <1>0, <1>2, <2>1, DivModUnique
  <2> HIDE DEF x, y, z
  <2> QED BY <1>3, <2>2
<1>5. z >= 0 /\ y >= 0
  <2> HIDE DEF w, x, y, z
  <2>1. t \in Nat BY <1>1
  <2>2. \A c \in Int, r \in 0 .. Unit - 1 : c * Unit + r >= 0 => c >= 0
    <3> TAKE c \in Int, r \in 0 .. Unit - 1
    <3>1. c < 0 => c * Unit <= -Unit BY <1>0
    <3>2. c * Unit \in Int BY <1>0
    <3> QED BY <1>0, <3>1, <3>2
  <2> HIDE DEF v, t
  <2> QED BY <1>1, <1>2, <2>1, <2>2
<1>6. v <= p
  <2>1. z * Unit >= 0 BY <1>0, <1>1, <1>5
  <2>2. z * Unit \in Int BY <1>0, <1>1
  <2> HIDE DEF z, v
  <2> QED BY <1>1, <2>1, <2>2
<1>7. p + n - w = p - v + y * Unit
  <2>1. y * Unit \in Int BY <1>0, <1>2
  <2>2. p + n = p - v + t BY <1>1
  <2> HIDE DEF w, x, y, z, t, v
  <2> QED BY <1>1, <1>2, <1>4, <2>1, <2>2
<1>8. y * Unit >= 0 /\ y * Unit \in Int BY <1>0, <1>2, <1>5
<1>9. t < Unit => y * Unit = 0
  <2> HAVE t < Unit
  <2>1. t = 0 * Unit + t /\ t \in 0 .. Unit - 1 BY <1>0, <1>1
  <2>2. y = 0
    <3> HIDE DEF t
    <3>1. 0 \in Int OBVIOUS
    <3> QED BY <1>0, <2>1, <3>1, DivModUnique
  <2> HIDE DEF y
  <2> QED BY <1>0, <2>2
<1>10. t > Unit => y * Unit >= Unit
  <2> HAVE t > Unit
  <2> HIDE DEF y, x
  <2>1. y # 0 BY <1>0, <1>1, <1>2
  <2>2. y >= 1 BY <1>2, <1>5, <2>1
  <2> QED BY <1>0, <1>2, <2>2
<1> HIDE DEF w, x, y, z
<1>11. w = t % Unit BY <1>4 DEF x
<1>12. w \in 0 .. Unit - 1 BY <1>2, <1>4
<1> DEFINE e == y * Unit
<1>13. e >= 0 /\ e \in Int /\ p + n - w = p - v + e /\ (t < Unit => e = 0) /\ (t > Unit => e >= Unit)
  BY <1>7, <1>8, <1>9, <1>10
<1> HIDE DEF e, v, t
<1>14. t > Unit => p + n - w > p
  BY <1>0, <1>1, <1>12, <1>13
<1>15. t < Unit => p + n - w = p - v
  BY <1>0, <1>1, <1>12, <1>13
<1>16. p + n - w >= p - v BY <1>0, <1>1, <1>12, <1>13
<1> QED BY <1>1, <1>6, <1>11, <1>12, <1>14, <1>15, <1>16 DEF w, v, t

(* Some cluster of run j is in the unit that hole h goes on with.          *)
Touches(b, j, h) == b[h] % Unit # 0 /\ b[j + 1] > b[h] - (b[h] % Unit)

Marked(b, H, j, m) == \E h \in H : j < h /\ h < m /\ Touches(b, j, h)

(* What is known before run m: flags are only added; a run with clusters   *)
(* in the last unit has a flag or comes from si on; what a hole has marked *)
(* has a flag; and nothing else has got one.                               *)
AnalysisOK(b, H, N, runs, a, m) ==
  LET u == b[m] - (b[m] % Unit) IN
  /\ a \in [vcn : Nat, si : 0 .. N, runs : [1 .. N -> RunType]]
  /\ a.vcn = b[m] % Unit /\ a.si < m
  /\ a.si # 0 => a.vcn # 0 /\ b[a.si + 1] > u
  /\ \A j \in 1 .. N :
       /\ a.runs[j].length = runs[j].length /\ a.runs[j].offset = runs[j].offset
       /\ runs[j].flags \subseteq a.runs[j].flags
       /\ j >= m => a.runs[j] = runs[j]
  /\ \A j \in 1 .. N : j < m /\ b[j + 1] > u => a.runs[j].flags # {} \/ (a.si # 0 /\ j >= a.si)
  /\ \A j \in 1 .. N : Marked(b, H, j, m) => a.runs[j].flags # {}
  /\ \A j \in 1 .. N : a.runs[j].flags # {} => runs[j].flags # {} \/ Marked(b, H, j, m)

Lengths(b, H, N, runs) ==
  /\ N \in Nat /\ b \in [1 .. N + 1 -> Nat] /\ runs \in [1 .. N -> RunType] /\ H \subseteq 1 .. N
  /\ \A j \in 1 .. N : b[j + 1] = b[j] + runs[j].length
  /\ \A j \in 1 .. N : j \in H <=> "sparse" \in runs[j].flags

LEMMA Increasing ==
  ASSUME NEW b, NEW H, NEW N, NEW runs, Lengths(b, H, N, runs)
  PROVE  \A j, k \in 1 .. N + 1 : j <= k => b[j] <= b[k]
<1> SUFFICES ASSUME NEW j \in 1 .. N + 1, NEW k \in 1 .. N + 1, j <= k PROVE b[j] <= b[k]
  OBVIOUS
<1>0. N \in Nat /\ \A i \in 1 .. N + 1 : b[i] \in Nat BY DEF Lengths
<1> DEFINE T == {n \in Nat : j + n <= N + 1 => b[j] <= b[j + n]}
<1>1. 0 \in T
  <2>1. j + 0 = j BY <1>0
  <2>2. b[j] <= b[j] BY <1>0
  <2> QED BY <2>1, <2>2
<1>2. ASSUME NEW n \in Nat, n \in T PROVE n + 1 \in T
  <2> SUFFICES ASSUME j + (n + 1) <= N + 1 PROVE b[j] <= b[j + (n + 1)] OBVIOUS
  <2> DEFINE m == j + n
  <2>1. m \in 1 .. N /\ m \in 1 .. N + 1 /\ m + 1 \in 1 .. N + 1 /\ m + 1 = j + (n + 1)
        /\ b[j] <= b[m]
    BY <1>0, <1>2
  <2> HIDE DEF m
  <2>2. b[m + 1] = b[m] + runs[m].length /\ runs[m].length \in Nat
    BY <2>1 DEF Lengths, RunType
  <2>3. b[j] <= b[m + 1] BY <1>0, <2>1, <2>2
  <2> QED BY <2>1, <2>3
<1> HIDE DEF T
<1>3. k - j \in T BY <1>0, <1>1, <1>2, NatSetInduction
<1>4. j + (k - j) = k BY <1>0
<1> QED BY <1>3, <1>4 DEF T

LEMMA UnitFacts ==
  ASSUME NEW b, NEW H, NEW N, NEW runs, Lengths(b, H, N, runs), NEW i \in 1 .. N
  PROVE  LET v == b[i] % Unit
             w == b[i + 1] % Unit
             n == runs[i].length
         IN /\ b[i] \in Nat /\ b[i + 1] \in Nat /\ n \in Nat \ {0} /\ b[i + 1] = b[i] + n
            /\ v \in 0 .. Unit - 1 /\ w \in 0 .. Unit - 1 /\ w = (v + n) % Unit
            /\ b[i + 1] - w >= b[i] - v
            /\ v + n < Unit => b[i + 1] - w = b[i] - v
            /\ v + n > Unit /\ w # 0 => b[i + 1] - w > b[i]
            /\ v + n = Unit => w = 0
<1>1. i \in 1 .. N + 1 /\ i + 1 \in 1 .. N + 1 BY DEF Lengths
<1>2. b[i] \in Nat /\ b[i + 1] \in Nat /\ runs[i].length \in Nat \ {0}
      /\ b[i + 1] = b[i] + runs[i].length
  BY <1>1 DEF Lengths, RunType
<1>3. Unit % Unit = 0
  <2>1. Unit \in Nat \ {0} /\ Unit = 1 * Unit + 0 /\ 0 \in 0 .. Unit - 1 /\ 1 \in Int
    BY Constants
  <2> QED BY <2>1, DivModUnique
<1> DEFINE p == b[i]
           n == runs[i].length
           q == b[i + 1]
<1>4. p \in Nat /\ n \in Nat \ {0} /\ q = p + n BY <1>2
<1> HIDE DEF p, n, q
<1>5. LET v == p % Unit
          t == v + n
          w == (p + n) % Unit
      IN /\ v \in 0 .. Unit - 1 /\ w \in 0 .. Unit - 1 /\ v <= p /\ w = t % Unit
         /\ p + n - w >= p - v
         /\ t < Unit => p + n - w = p - v
         /\ t > Unit /\ w # 0 => p + n - w > p
  BY <1>4, ModAdd
<1> DEFINE v == p % Unit
           w == q % Unit
<1>6. /\ v \in 0 .. Unit - 1 /\ w \in 0 .. Unit - 1 /\ w = (v + n) % Unit
      /\ q - w >= p - v
      /\ v + n < Unit => q - w = p - v
      /\ v + n > Unit /\ w # 0 => q - w > p
  BY <1>4, <1>5
<1> HIDE DEF v, w
<1>7. v + n = Unit => w = 0 BY <1>3, <1>6
<1> QED BY <1>2, <1>6, <1>7 DEF p, q, n, v, w

LEMMA MarkedNext ==
  ASSUME NEW b, NEW H, NEW N, NEW runs, Lengths(b, H, N, runs), NEW i \in 1 .. N, NEW j \in 1 .. N
  PROVE  Marked(b, H, j, i + 1) <=> Marked(b, H, j, i) \/ (i \in H /\ j < i /\ Touches(b, j, i))
<1>1. H \subseteq 1 .. N /\ N \in Nat BY DEF Lengths
<1>2. \A h \in H : h < i + 1 <=> h < i \/ h = i BY <1>1
<1> QED BY <1>2, Zenon DEF Marked

LEMMA HoleStep ==
  ASSUME NEW b, NEW H, NEW N, NEW runs, Lengths(b, H, N, runs), NEW i \in 1 .. N,
         NEW a, AnalysisOK(b, H, N, runs, a, i), "sparse" \in a.runs[i].flags
  PROVE  AnalysisOK(b, H, N, runs, AtHole(a, i), i + 1)
<1> DEFINE v == b[i] % Unit
           w == b[i + 1] % Unit
           n == runs[i].length
           new == AtHole(a, i)
           marks == a.vcn # 0 /\ a.si # 0
<1>1. /\ b[i] \in Nat /\ b[i + 1] \in Nat /\ n \in Nat \ {0} /\ b[i + 1] = b[i] + n
      /\ v \in 0 .. Unit - 1 /\ w \in 0 .. Unit - 1 /\ w = (v + n) % Unit
      /\ b[i + 1] - w >= b[i] - v
  BY UnitFacts
<1>2. /\ a.vcn = v /\ a.si \in 0 .. N /\ a.si < i /\ a.runs \in [1 .. N -> RunType]
      /\ a.runs[i] = runs[i] /\ N \in Nat /\ H \subseteq 1 .. N
  BY DEF AnalysisOK, Lengths
<1>3. a.si # 0 => a.vcn # 0 /\ b[a.si + 1] > b[i] - v BY DEF AnalysisOK
<1>4. \A j \in 1 .. N : /\ a.runs[j] \in RunType
                        /\ a.runs[j].length = runs[j].length /\ a.runs[j].offset = runs[j].offset
                        /\ runs[j].flags \subseteq a.runs[j].flags
                        /\ j >= i => a.runs[j] = runs[j]
  BY <1>2 DEF AnalysisOK
<1>5. \A j \in 1 .. N : j < i /\ b[j + 1] > b[i] - v => a.runs[j].flags # {} \/ (a.si # 0 /\ j >= a.si)
  BY DEF AnalysisOK
<1>6. \A j \in 1 .. N : Marked(b, H, j, i) => a.runs[j].flags # {} BY DEF AnalysisOK
<1>7. \A j \in 1 .. N : a.runs[j].flags # {} => runs[j].flags # {} \/ Marked(b, H, j, i)
  BY DEF AnalysisOK
<1> DEFINE mark(j) == marks /\ j \in a.si .. i - 1
           r(j) == IF mark(j) THEN [a.runs[j] EXCEPT !.flags = @ \cup {"compressed"}] ELSE a.runs[j]
<1>8. new = [vcn |-> w, si |-> 0, runs |-> [j \in 1 .. N |-> r(j)]]
  <2>1. (a.vcn + a.runs[i].length) % Unit = w BY <1>1, <1>2
  <2>2. (IF marks THEN 0 ELSE a.si) = 0 BY <1>3
  <2>3. DOMAIN a.runs = 1 .. N BY <1>2
  <2> HIDE DEF w
  <2> QED BY <2>1, <2>2, <2>3, Zenon DEF AtHole
<1>9. \A j \in 1 .. N : /\ r(j) \in RunType
                        /\ r(j).length = runs[j].length /\ r(j).offset = runs[j].offset
                        /\ a.runs[j].flags \subseteq r(j).flags
                        /\ mark(j) => r(j).flags # {}
                        /\ ~ mark(j) => r(j) = a.runs[j]
  <2> TAKE j \in 1 .. N
  <2> DEFINE x == a.runs[j]
             y == [x EXCEPT !.flags = @ \cup {"compressed"}]
  <2>1. x \in RunType /\ x.length = runs[j].length /\ x.offset = runs[j].offset BY <1>4
  <2>2. r(j) = IF mark(j) THEN y ELSE x OBVIOUS
  <2> HIDE DEF x
  <2>3. y \in RunType /\ y.length = x.length /\ y.offset = x.offset
        /\ y.flags = x.flags \cup {"compressed"}
    BY <2>1 DEF RunType, Flag
  <2> HIDE DEF y, mark, r
  <2> QED BY <2>1, <2>2, <2>3 DEF x
<1>10. mark(i) = FALSE BY <1>2
<1> HIDE DEF new, r
<1>11. /\ new.vcn = w /\ new.si = 0 /\ \A j \in 1 .. N : new.runs[j] = r(j)
       /\ new \in [vcn : Nat, si : 0 .. N, runs : [1 .. N -> RunType]]
  <2>1. w \in Nat /\ 0 \in 0 .. N BY <1>1, <1>2
  <2>2. [j \in 1 .. N |-> r(j)] \in [1 .. N -> RunType] BY <1>9
  <2> HIDE DEF w
  <2> QED BY <1>8, <2>1, <2>2
<1>12. ASSUME NEW j \in 1 .. N, j < i, b[j + 1] > b[i] - v PROVE r(j).flags # {}
  <2>1. CASE a.runs[j].flags # {} BY <1>9, <2>1
  <2>2. CASE a.si # 0 /\ j >= a.si
    <3>1. mark(j) BY <1>2, <1>3, <1>12, <2>2
    <3> QED BY <1>9, <3>1
  <2> QED BY <1>5, <1>12, <2>1, <2>2
<1>13. r(i).flags # {}
  <2>1. r(i) = a.runs[i] BY <1>9, <1>10
  <2> QED BY <2>1
<1>14. ASSUME NEW j \in 1 .. N, j < i + 1, b[j + 1] > b[i + 1] - w PROVE r(j).flags # {}
  <2>1. CASE j = i BY <1>13, <2>1
  <2>2. CASE j # i
    <3>1. j < i BY <1>14, <2>2
    <3>2. j + 1 \in 1 .. N + 1 BY <1>2
    <3>3. b[j + 1] \in Nat BY <3>2 DEF Lengths
    <3> HIDE DEF v, w
    <3>4. b[j + 1] > b[i] - v BY <1>1, <1>14, <3>3
    <3> QED BY <1>12, <3>1, <3>4
  <2> QED BY <2>1, <2>2
<1>15. ASSUME NEW j \in 1 .. N, Marked(b, H, j, i + 1) PROVE r(j).flags # {}
  <2>1. CASE Marked(b, H, j, i) BY <1>6, <1>9, <2>1
  <2>2. CASE j < i /\ Touches(b, j, i)
    <3>1. b[j + 1] > b[i] - v BY <2>2 DEF Touches
    <3> QED BY <1>12, <2>2, <3>1
  <2> QED BY <1>15, <2>1, <2>2, MarkedNext
<1>16. ASSUME NEW j \in 1 .. N, r(j).flags # {}
       PROVE  runs[j].flags # {} \/ Marked(b, H, j, i + 1)
  <2>1. CASE ~ mark(j)
    <3>1. a.runs[j].flags # {} BY <1>9, <1>16, <2>1
    <3>2. runs[j].flags # {} \/ Marked(b, H, j, i) BY <1>7, <1>16, <3>1
    <3> QED BY <3>2, MarkedNext
  <2>2. CASE mark(j)
    <3>1. i \in H BY <1>2 DEF Lengths
    <3>2. j < i /\ j >= a.si /\ a.vcn # 0 /\ a.si # 0 BY <1>2, <2>2
    <3>3. b[a.si + 1] > b[i] - v /\ b[a.si + 1] <= b[j + 1]
      <4>1. a.si + 1 \in 1 .. N + 1 /\ j + 1 \in 1 .. N + 1 /\ a.si + 1 <= j + 1 BY <1>2, <3>2
      <4>2. b[a.si + 1] <= b[j + 1] BY <4>1, Increasing
      <4> QED BY <1>3, <3>2, <4>2
    <3>4. b[j + 1] > b[i] - v
      <4>1. a.si + 1 \in 1 .. N + 1 /\ j + 1 \in 1 .. N + 1 BY <1>2
      <4>2. b[a.si + 1] \in Nat /\ b[j + 1] \in Nat BY <4>1 DEF Lengths
      <4> HIDE DEF v
      <4> QED BY <1>1, <3>3, <4>2
    <3>5. Touches(b, j, i) BY <1>2, <3>2, <3>4 DEF Touches
    <3> QED BY <3>1, <3>2, <3>5, MarkedNext
  <2> QED BY <2>1, <2>2
<1> DEFINE u == b[i + 1] - w
<1>17. \A j \in 1 .. N :
         /\ new.runs[j].length = runs[j].length /\ new.runs[j].offset = runs[j].offset
         /\ runs[j].flags \subseteq new.runs[j].flags
         /\ j >= i + 1 => new.runs[j] = runs[j]
  <2> TAKE j \in 1 .. N
  <2>1. new.runs[j] = r(j) BY <1>11
  <2>2. j >= i + 1 => j >= i /\ ~ mark(j) BY <1>2
  <2> HIDE DEF mark
  <2> QED BY <1>4, <1>9, <2>1, <2>2
<1> HIDE DEF marks, mark
<1>18. \A j \in 1 .. N : j < i + 1 /\ b[j + 1] > u => new.runs[j].flags # {}
  BY <1>11, <1>14
<1>19. \A j \in 1 .. N : Marked(b, H, j, i + 1) => new.runs[j].flags # {}
  BY <1>11, <1>15, Zenon
<1>20. \A j \in 1 .. N : new.runs[j].flags # {} => runs[j].flags # {} \/ Marked(b, H, j, i + 1)
  BY <1>11, <1>16, Zenon
<1>21. new.vcn = w /\ new.si = 0 /\ 0 < i + 1 BY <1>11
<1> QED BY <1>11, <1>17, <1>18, <1>19, <1>20, <1>21, Zenon DEF AnalysisOK, new

LEMMA DataStep ==
  ASSUME NEW b, NEW H, NEW N, NEW runs, Lengths(b, H, N, runs), NEW i \in 1 .. N,
         NEW a, AnalysisOK(b, H, N, runs, a, i), "sparse" \notin a.runs[i].flags
  PROVE  AnalysisOK(b, H, N, runs, AtData(a, i), i + 1)
<1> DEFINE v == b[i] % Unit
           w == b[i + 1] % Unit
           n == runs[i].length
           new == AtData(a, i)
           u == b[i + 1] - w
<1>1. /\ b[i] \in Nat /\ b[i + 1] \in Nat /\ n \in Nat \ {0} /\ b[i + 1] = b[i] + n
      /\ v \in 0 .. Unit - 1 /\ w \in 0 .. Unit - 1 /\ w = (v + n) % Unit
      /\ v + n < Unit => u = b[i] - v
      /\ v + n > Unit /\ w # 0 => u > b[i]
      /\ v + n = Unit => w = 0
  BY UnitFacts
<1>2. /\ a.vcn = v /\ a.si \in 0 .. N /\ a.si < i /\ a.runs \in [1 .. N -> RunType]
      /\ a.runs[i] = runs[i] /\ N \in Nat /\ H \subseteq 1 .. N
      /\ a \in [vcn : Nat, si : 0 .. N, runs : [1 .. N -> RunType]]
  BY DEF AnalysisOK, Lengths
<1>3. a.si # 0 => a.vcn # 0 /\ b[a.si + 1] > b[i] - v BY DEF AnalysisOK
<1>4. \A j \in 1 .. N : /\ a.runs[j].length = runs[j].length /\ a.runs[j].offset = runs[j].offset
                        /\ runs[j].flags \subseteq a.runs[j].flags
                        /\ j >= i => a.runs[j] = runs[j]
  BY DEF AnalysisOK
<1>5. \A j \in 1 .. N : j < i /\ b[j + 1] > b[i] - v => a.runs[j].flags # {} \/ (a.si # 0 /\ j >= a.si)
  BY DEF AnalysisOK
<1>6. \A j \in 1 .. N : Marked(b, H, j, i) => a.runs[j].flags # {} BY DEF AnalysisOK
<1>7. \A j \in 1 .. N : a.runs[j].flags # {} => runs[j].flags # {} \/ Marked(b, H, j, i)
  BY DEF AnalysisOK
<1>8. i \notin H BY <1>2 DEF Lengths
<1> DEFINE si == IF w = 0 THEN 0 ELSE IF v + n > Unit \/ a.si = 0 THEN i ELSE a.si
<1>9. /\ new.vcn = w /\ new.si = si /\ new.runs = a.runs
      /\ new \in [vcn : Nat, si : 0 .. N, runs : [1 .. N -> RunType]]
  <2>1. w \in Nat /\ si \in 0 .. N BY <1>1, <1>2
  <2>2. new = [a EXCEPT !.vcn = w, !.si = si]
    <3>1. a.vcn + a.runs[i].length = v + n /\ (v + n) % Unit = w BY <1>1, <1>2
    <3> HIDE DEF v, w, n
    <3> QED BY <3>1, Zenon DEF AtData
  <2> HIDE DEF new, w, si
  <2> QED BY <1>2, <2>1, <2>2
<1> HIDE DEF new
<1>11. \A j \in 1 .. N : j < i + 1 => b[j + 1] \in Nat /\ b[j + 1] <= b[i + 1] /\ (j < i => b[j + 1] <= b[i])
  <2> TAKE j \in 1 .. N
  <2> HAVE j < i + 1
  <2>1. /\ j + 1 \in 1 .. N + 1 /\ i + 1 \in 1 .. N + 1 /\ i \in 1 .. N + 1 /\ j + 1 <= i + 1
        /\ j < i => j + 1 <= i
    BY <1>2
  <2>2. b[j + 1] <= b[i + 1] /\ (j < i => b[j + 1] <= b[i]) BY <2>1, Increasing
  <2>3. b[j + 1] \in Nat BY <2>1 DEF Lengths
  <2> QED BY <2>2, <2>3
<1> HIDE DEF v, w, n
<1>12. si < i + 1 /\ (si # 0 => w # 0 /\ b[si + 1] > u)
  <2>1. CASE w = 0 BY <1>2, <2>1
  <2>2. CASE w # 0 /\ (v + n > Unit \/ a.si = 0)
    <3>1. si = i BY <2>2
    <3>2. b[i + 1] > u BY <1>1, <2>2
    <3> QED BY <2>2, <3>1, <3>2
  <2>3. CASE w # 0 /\ ~ (v + n > Unit \/ a.si = 0)
    <3>1. si = a.si /\ si < i + 1 BY <1>2, <2>3
    <3>2. u = b[i] - v BY <1>1, <2>3, Constants
    <3> QED BY <1>3, <2>3, <3>1, <3>2
  <2> QED BY <2>1, <2>2, <2>3
<1>13. ASSUME NEW j \in 1 .. N, j < i + 1, b[j + 1] > u
       PROVE  a.runs[j].flags # {} \/ (si # 0 /\ j >= si)
  <2>1. w # 0 BY <1>1, <1>11, <1>13
  <2>2. CASE v + n > Unit
    <3>1. si = i BY <2>1, <2>2
    <3>2. ~ (j < i) BY <1>1, <1>11, <1>13, <2>1, <2>2
    <3> QED BY <1>2, <3>1, <3>2
  <2>3. CASE ~ (v + n > Unit)
    <3>1. u = b[i] - v BY <1>1, <2>1, <2>3, Constants
    <3>2. si = IF a.si = 0 THEN i ELSE a.si BY <2>1, <2>3
    <3>3. CASE j = i BY <1>2, <3>2, <3>3
    <3>4. CASE j < i
      <4>1. a.runs[j].flags # {} \/ (a.si # 0 /\ j >= a.si) BY <1>5, <1>13, <3>1, <3>4
      <4> QED BY <3>2, <4>1
    <3> QED BY <1>13, <3>3, <3>4
  <2> QED BY <2>2, <2>3
<1> HIDE DEF si, u
<1>14. \A j \in 1 .. N : Marked(b, H, j, i + 1) <=> Marked(b, H, j, i)
  BY <1>8, MarkedNext
<1>15. \A j \in 1 .. N : j >= i + 1 => j >= i OBVIOUS
<1>16. \A j \in 1 .. N : j < i + 1 /\ b[j + 1] > u =>
         new.runs[j].flags # {} \/ (new.si # 0 /\ j >= new.si)
  BY <1>9, <1>13
<1>17. \A j \in 1 .. N : Marked(b, H, j, i + 1) => new.runs[j].flags # {}
  BY <1>6, <1>9, <1>14, Zenon
<1>18. \A j \in 1 .. N : new.runs[j].flags # {} => runs[j].flags # {} \/ Marked(b, H, j, i + 1)
  BY <1>7, <1>9, <1>14, Zenon
<1>19. \A j \in 1 .. N :
         /\ new.runs[j].length = runs[j].length /\ new.runs[j].offset = runs[j].offset
         /\ runs[j].flags \subseteq new.runs[j].flags
         /\ j >= i + 1 => new.runs[j] = runs[j]
  BY <1>4, <1>9, <1>15, Zenon
<1>20. new.vcn = w /\ new.si < i + 1 /\ (new.si # 0 => new.vcn # 0 /\ b[new.si + 1] > u)
  BY <1>9, <1>12
<1> QED BY <1>9, <1>16, <1>17, <1>18, <1>19, <1>20, Zenon DEF AnalysisOK, new, u, w
LEMMA AnalyzedRuns ==
  ASSUME NEW b, NEW H, NEW N, NEW runs, Lengths(b, H, N, runs), b[1] = 0
  PROVE  \E a : a.runs = Analyzed(runs) /\ AnalysisOK(b, H, N, runs, a, N + 1)
<1> DEFINE S == [vcn : Nat, si : 0 .. N, runs : [1 .. N -> RunType]]
           c == [vcn |-> 0, si |-> 0, runs |-> runs]
           step(a, i) == IF "sparse" \in a.runs[i].flags THEN AtHole(a, i) ELSE AtData(a, i)
           Walk(g) == g = [i \in 0 .. N |-> IF i = 0 THEN c ELSE step(g[i - 1], i)]
           D == [x \in S \X (1 .. N) |-> step(x[1], x[2])]
<1>1. N \in Nat /\ runs \in [1 .. N -> RunType] /\ Len(runs) = N /\ H \subseteq 1 .. N
  BY DEF Lengths
<1>2. c \in S BY <1>1
<1>3. ASSUME NEW a \in S, NEW i \in 1 .. N PROVE step(a, i) \in S
  <2>0. /\ a.vcn \in Nat /\ a.si \in 0 .. N /\ a.runs \in [1 .. N -> RunType]
        /\ a.runs[i] \in RunType
    OBVIOUS
  <2>1. a.vcn + a.runs[i].length \in Nat BY <2>0 DEF RunType
  <2>2. (a.vcn + a.runs[i].length) % Unit \in Nat
    <3> DEFINE x == a.vcn + a.runs[i].length
    <3>1. x \in Int BY <2>1
    <3> HIDE DEF x
    <3>2. x % Unit \in 0 .. Unit - 1 BY <3>1, Constants, DivMod
    <3>3. x % Unit \in Nat BY <3>2, Constants
    <3> QED BY <3>3 DEF x
  <2>3. AtHole(a, i) \in S
    <3> DEFINE marks == a.vcn # 0 /\ a.si # 0
               m(j) == [a.runs[j] EXCEPT !.flags = @ \cup {"compressed"}]
               r == [j \in 1 .. N |-> IF marks /\ j \in a.si .. i - 1 THEN m(j) ELSE a.runs[j]]
               x == (a.vcn + a.runs[i].length) % Unit
               s == IF marks THEN 0 ELSE a.si
    <3>1. \A j \in 1 .. N : m(j) \in RunType /\ a.runs[j] \in RunType
      <4> TAKE j \in 1 .. N
      <4> DEFINE y == a.runs[j]
                 z == [y EXCEPT !.flags = @ \cup {"compressed"}]
      <4>1. y \in RunType BY <2>0
      <4> HIDE DEF y
      <4>2. z \in RunType BY <4>1 DEF RunType, Flag
      <4> QED BY <4>1, <4>2 DEF y
    <3>2. r \in [1 .. N -> RunType]
      <4> HIDE DEF m, marks
      <4> QED BY <3>1
    <3>3. s \in 0 .. N BY <1>1, <2>0
    <3>4. DOMAIN a.runs = 1 .. N BY <2>0
    <3>5. AtHole(a, i) = [vcn |-> x, si |-> s, runs |-> r] BY <3>4, Zenon DEF AtHole
    <3> HIDE DEF r, x, s
    <3>6. x \in Nat BY <2>2 DEF x
    <3> QED BY <3>2, <3>3, <3>5, <3>6
  <2>4. AtData(a, i) \in S
    <3> DEFINE t == a.vcn + a.runs[i].length
               x == t % Unit
               s == IF x = 0 THEN 0 ELSE IF t > Unit \/ a.si = 0 THEN i ELSE a.si
    <3>1. AtData(a, i) = [a EXCEPT !.vcn = x, !.si = s] BY Zenon DEF AtData
    <3>2. x \in Nat BY <2>2
    <3>3. s \in 0 .. N BY <1>1, <2>0
    <3> HIDE DEF x, s
    <3> QED BY <3>1, <3>2, <3>3
  <2> HIDE DEF S
  <2> QED BY <2>3, <2>4
<1> HIDE DEF step
<1>4. D \in [S \X (1 .. N) -> S] BY <1>3
<1>5. \E g : Walk(g)
  <2>1. PICK g : Unfolds(g, S, c, N, D)
    <3> HIDE DEF D, S, c
    <3> QED BY <1>1, <1>2, <1>4, Recursion
  <2>2. g[0] = c /\ g \in [0 .. N -> S] BY <2>1 DEF Unfolds
  <2>3. ASSUME NEW i \in 0 .. N PROVE g[i] = IF i = 0 THEN c ELSE step(g[i - 1], i)
    <3>1. CASE i = 0 BY <2>2, <3>1
    <3>2. CASE i # 0
      <4>1. i \in 1 .. N /\ i - 1 \in 0 .. N BY <1>1, <3>2
      <4>2. g[i - 1] \in S /\ g[i] = D[<<g[i - 1], i>>]
        <5> HIDE DEF S, D, c
        <5> QED BY <2>1, <4>1 DEF Unfolds
      <4>3. D[<<g[i - 1], i>>] = step(g[i - 1], i) BY <4>1, <4>2
      <4> HIDE DEF c, D
      <4> QED BY <3>2, <4>2, <4>3, Zenon
    <3> HIDE DEF c
    <3> QED BY <3>1, <3>2
  <2>4. g = [i \in 0 .. N |-> g[i]] BY <2>2
  <2> HIDE DEF c, D, S
  <2> QED BY <2>3, <2>4
<1>6. PICK g : Walk(g) /\ Analyzed(runs) = g[N].runs
  <2> DEFINE p == CHOOSE g : Walk(g)
  <2>1. Walk(p) BY <1>5
  <2>2. Analyzed(runs) = p[N].runs BY <1>1, Zenon DEF Analyzed, step
  <2> QED BY <2>1, <2>2
<1>7. g[0] = c BY <1>1, <1>6
<1>8. ASSUME NEW i \in 1 .. N PROVE g[i] = step(g[i - 1], i)
  <2>1. i \in 0 .. N /\ i # 0 BY <1>1
  <2> HIDE DEF c
  <2> QED BY <1>6, <2>1, Zenon
<1> DEFINE T == {i \in Nat : i <= N => AnalysisOK(b, H, N, runs, g[i], i + 1)}
<1>9. 0 \in T
  <2>1. c.vcn = 0 /\ c.si = 0 /\ c.runs = runs OBVIOUS
  <2>2. 0 % Unit = 0
    <3>1. Unit \in Nat \ {0} /\ 0 = 0 * Unit + 0 /\ 0 \in 0 .. Unit - 1 /\ 0 \in Int
      BY Constants
    <3> QED BY <3>1, DivModUnique
  <2> HIDE DEF c
  <2>3. c.vcn = b[1] % Unit /\ c.si < 1 BY <2>1, <2>2
  <2>4. ~ (c.si # 0) BY <2>1
  <2>5. \A j \in 1 .. N : ~ (j < 1) /\ ~ Marked(b, H, j, 1)
    <3>1. \A h \in H : ~ (h < 1) BY <1>1
    <3> QED BY <3>1 DEF Marked
  <2>6. \A j \in 1 .. N : c.runs[j].flags # {} => runs[j].flags # {} BY <2>1
  <2>7. \A j \in 1 .. N : runs[j].flags \subseteq c.runs[j].flags BY <2>1
  <2>8. AnalysisOK(b, H, N, runs, c, 1)
    BY <1>2, <2>1, <2>3, <2>4, <2>5, <2>6, <2>7, Zenon DEF AnalysisOK
  <2>9. 0 + 1 = 1 OBVIOUS
  <2> QED BY <1>7, <2>8, <2>9
<1>10. ASSUME NEW i \in Nat, i \in T PROVE i + 1 \in T
  <2> SUFFICES ASSUME i + 1 <= N PROVE AnalysisOK(b, H, N, runs, g[i + 1], i + 1 + 1) OBVIOUS
  <2> DEFINE m == i + 1
  <2>1. m \in 1 .. N /\ m - 1 = i /\ AnalysisOK(b, H, N, runs, g[i], m) BY <1>1, <1>10
  <2> HIDE DEF m
  <2>2. g[m] = step(g[i], m) BY <1>8, <2>1
  <2>3. AnalysisOK(b, H, N, runs, step(g[i], m), m + 1)
    BY <2>1, HoleStep, DataStep DEF step
  <2>4. AnalysisOK(b, H, N, runs, g[m], m + 1) BY <2>2, <2>3, Zenon
  <2> QED BY <2>4 DEF m
<1> HIDE DEF T
<1>11. N \in T BY <1>1, <1>9, <1>10, NatSetInduction
<1>12. AnalysisOK(b, H, N, runs, g[N], N + 1) BY <1>1, <1>11 DEF T
<1> QED BY <1>6, <1>12

-----------------------------------------------------------------------------
(* Where the runs of a layout begin.                                       *)
LEMMA BeginFacts ==
  ASSUME NEW layout \in Layouts
  PROVE  /\ Begin(layout, 1) = 0 /\ \A i \in 1 .. Len(layout) + 1 : Begin(layout, i) \in Nat
         /\ \A i \in 1 .. Len(layout) : Begin(layout, i + 1) = Begin(layout, i) + layout[i].length
<1> DEFINE N == Len(layout)
           S == Nat
           Walk(g) == g = [i \in 0 .. N |-> IF i = 0 THEN 0 ELSE g[i - 1] + layout[i].length]
           D == [x \in S \X (1 .. N) |-> x[1] + layout[x[2]].length]
<1>1. N \in Nat /\ \A i \in 1 .. N : layout[i].length \in Nat BY LayoutFacts
<1>2. D \in [S \X (1 .. N) -> S]
  <2> HIDE DEF N
  <2> QED BY <1>1
<1> HIDE DEF N
<1>3. \E g : Walk(g)
  <2>1. PICK g : Unfolds(g, S, 0, N, D)
    <3>1. 0 \in S OBVIOUS
    <3> HIDE DEF D, S
    <3> QED BY <1>1, <1>2, <3>1, Recursion
  <2>2. g[0] = 0 /\ g \in [0 .. N -> S] BY <2>1 DEF Unfolds
  <2>3. ASSUME NEW i \in 0 .. N PROVE g[i] = IF i = 0 THEN 0 ELSE g[i - 1] + layout[i].length
    <3>1. CASE i = 0 BY <2>2, <3>1
    <3>2. CASE i # 0
      <4>1. i \in 1 .. N /\ i - 1 \in 0 .. N BY <1>1, <3>2
      <4>2. g[i - 1] \in S /\ g[i] = D[<<g[i - 1], i>>]
        <5> HIDE DEF S, D
        <5> QED BY <2>1, <4>1 DEF Unfolds
      <4>3. D[<<g[i - 1], i>>] = g[i - 1] + layout[i].length BY <4>1, <4>2
      <4> HIDE DEF D
      <4> QED BY <3>2, <4>2, <4>3, Zenon
    <3> QED BY <3>1, <3>2
  <2>4. g = [i \in 0 .. N |-> g[i]] BY <2>2
  <2> HIDE DEF D, S
  <2> QED BY <2>3, <2>4
<1>4. PICK g : Walk(g) /\ \A i : Begin(layout, i) = g[i - 1]
  <2> DEFINE p == CHOOSE g : Walk(g)
  <2>1. Walk(p) BY <1>3
  <2>2. \A i : Begin(layout, i) = p[i - 1] BY Zenon DEF Begin, N
  <2> QED BY <2>1, <2>2
<1>5. g[0] = 0 BY <1>1, <1>4
<1>6. ASSUME NEW i \in 1 .. N PROVE g[i] = g[i - 1] + layout[i].length
  <2>1. i \in 0 .. N /\ i # 0 BY <1>1
  <2> QED BY <1>4, <2>1, Zenon
<1> DEFINE T == {i \in Nat : i <= N => g[i] \in Nat}
<1>7. 0 \in T BY <1>5
<1>8. ASSUME NEW i \in Nat, i \in T PROVE i + 1 \in T
  <2> SUFFICES ASSUME i + 1 <= N PROVE g[i + 1] \in Nat OBVIOUS
  <2> DEFINE m == i + 1
  <2>1. m \in 1 .. N /\ m - 1 = i /\ g[i] \in Nat BY <1>1, <1>8
  <2> HIDE DEF m
  <2>2. g[m] = g[m - 1] + layout[m].length /\ layout[m].length \in Nat BY <1>1, <1>6, <2>1
  <2>3. g[m] \in Nat BY <2>1, <2>2
  <2> QED BY <2>3 DEF m
<1> HIDE DEF T
<1>9. Nat \subseteq T BY <1>7, <1>8, NatSetInduction
<1>10. \A i \in 0 .. N : g[i] \in Nat BY <1>1, <1>9 DEF T
<1>11. Begin(layout, 1) = 0
  <2>1. 1 - 1 = 0 OBVIOUS
  <2>2. Begin(layout, 1) = g[1 - 1] BY <1>4, Zenon
  <2> QED BY <1>5, <2>1, <2>2
<1>12. \A i \in 1 .. N + 1 : Begin(layout, i) \in Nat
  <2> TAKE i \in 1 .. N + 1
  <2>1. i - 1 \in 0 .. N BY <1>1
  <2>2. Begin(layout, i) = g[i - 1] BY <1>4, Zenon
  <2> QED BY <1>10, <2>1, <2>2
<1>13. \A i \in 1 .. N : Begin(layout, i + 1) = Begin(layout, i) + layout[i].length
  <2> TAKE i \in 1 .. N
  <2> DEFINE m == i + 1
  <2>1. m - 1 = i BY <1>1
  <2> HIDE DEF m
  <2>2. Begin(layout, m) = g[m - 1] /\ Begin(layout, i) = g[i - 1] BY <1>4, Zenon
  <2>3. g[i] = g[i - 1] + layout[i].length BY <1>6
  <2>4. Begin(layout, m) = Begin(layout, i) + layout[i].length BY <2>1, <2>2, <2>3, Zenon
  <2> QED BY <2>4 DEF m
<1> QED BY <1>11, <1>12, <1>13 DEF N

LEMMA FlattenPairs ==
  ASSUME NEW A, NEW B, NEW s \in Seq(Seq(A)), NEW t \in Seq(Seq(B)), NEW Q, Len(s) = Len(t),
         \A n \in 1 .. Len(s) : /\ Len(s[n]) = Len(t[n])
                                /\ \A k \in 1 .. Len(s[n]) : <<s[n][k], t[n][k]>> \in Q
  PROVE  LET x == FlattenSeq(s)
             y == FlattenSeq(t)
         IN /\ x \in Seq(A) /\ y \in Seq(B) /\ Len(x) = Len(y)
            /\ \A v \in 1 .. Len(x) : <<x[v], y[v]>> \in Q
<1> DEFINE N == Len(s)
           OK(x, y) == /\ x \in Seq(A) /\ y \in Seq(B) /\ Len(x) = Len(y)
                       /\ \A v \in 1 .. Len(x) : <<x[v], y[v]>> \in Q
<1>1. PICK g : Flat(g, s, A) BY FlatExists
<1>2. PICK h : Flat(h, t, B) BY FlatExists
<1>3. FlattenSeq(s) = g[N] /\ FlattenSeq(t) = h[N]
  <2>1. FlattenSeq(s) = g[Len(s)] BY <1>1, FlattenIs
  <2>2. FlattenSeq(t) = h[Len(t)] BY <1>2, FlattenIs
  <2>3. Len(t) = N OBVIOUS
  <2> HIDE DEF N
  <2> QED BY <2>1, <2>2, <2>3, Zenon DEF N
<1>4. N \in Nat /\ \A n \in 1 .. N : s[n] \in Seq(A) /\ t[n] \in Seq(B)
  <2> DEFINE SA == Seq(A)
             SB == Seq(B)
  <2>1. s \in Seq(SA) /\ t \in Seq(SB) /\ Len(t) = N OBVIOUS
  <2> HIDE DEF SA, SB
  <2>2. \A n \in 1 .. N : s[n] \in SA /\ t[n] \in SB BY <2>1
  <2>3. N \in Nat BY <2>1
  <2> QED BY <2>2, <2>3 DEF SA, SB
<1>5. g[0] = <<>> /\ h[0] = <<>>
      /\ \A n \in 1 .. N : g[n] = g[n - 1] \o s[n] /\ h[n] = h[n - 1] \o t[n]
  BY <1>1, <1>2, Zenon DEF Flat
<1> DEFINE T == {n \in Nat : n <= N => OK(g[n], h[n])}
<1>6. 0 \in T
  <2>1. <<>> \in Seq(A) /\ <<>> \in Seq(B) /\ Len(<<>>) = 0 OBVIOUS
  <2>2. \A v \in 1 .. 0 : FALSE OBVIOUS
  <2>3. OK(<<>>, <<>>) BY <2>1, <2>2
  <2> HIDE DEF OK
  <2>4. OK(g[0], h[0]) BY <1>5, <2>3, Zenon
  <2> QED BY <2>4
<1>7. ASSUME NEW n \in Nat, n \in T PROVE n + 1 \in T
  <2> SUFFICES ASSUME n + 1 <= N PROVE OK(g[n + 1], h[n + 1]) OBVIOUS
  <2> DEFINE m == n + 1
             x == g[n]
             y == h[n]
             p == s[m]
             q == t[m]
  <2>1. m \in 1 .. N /\ m - 1 = n /\ OK(x, y) BY <1>4, <1>7
  <2>2. p \in Seq(A) /\ q \in Seq(B) /\ Len(p) = Len(q)
        /\ \A k \in 1 .. Len(p) : <<p[k], q[k]>> \in Q
    BY <1>4, <2>1, Zenon
  <2> HIDE DEF m
  <2>3. g[m] = x \o p /\ h[m] = y \o q BY <1>5, <2>1
  <2> HIDE DEF x, y, p, q
  <2> DEFINE xp == x \o p
             yq == y \o q
  <2>4. xp \in Seq(A) /\ yq \in Seq(B) /\ Len(xp) = Len(x) + Len(p) /\ Len(yq) = Len(xp)
        /\ Len(x) \in Nat /\ Len(p) \in Nat
    <3>1. x \in Seq(A) /\ y \in Seq(B) /\ Len(x) = Len(y) BY <2>1
    <3>2. p \in Seq(A) /\ q \in Seq(B) /\ Len(p) = Len(q) BY <2>2
    <3>3. xp \in Seq(A) /\ Len(xp) = Len(x) + Len(p) /\ Len(x) \in Nat /\ Len(p) \in Nat
      <4>1. Len(x) \in Nat BY <3>1
      <4>2. Len(p) \in Nat BY <3>2
      <4>3. x \in Seq(A) /\ p \in Seq(A) BY <3>1, <3>2
      <4>4. xp \in Seq(A) /\ Len(xp) = Len(x) + Len(p) BY <4>3, ConcatProperties
      <4> HIDE DEF xp
      <4> QED BY <4>1, <4>2, <4>4
    <3>4. yq \in Seq(B) /\ Len(yq) = Len(y) + Len(q) BY <3>1, <3>2
    <3> QED BY <3>1, <3>2, <3>3, <3>4
  <2>5. ASSUME NEW v \in 1 .. Len(xp) PROVE <<xp[v], yq[v]>> \in Q
    <3>1. CASE v <= Len(x)
      <4>1. v \in 1 .. Len(x) BY <2>4, <3>1
      <4>2. xp[v] = x[v] BY <2>1, <2>2, <2>4, <4>1, ConcatProperties
      <4>3. yq[v] = y[v]
        <5>1. y \in Seq(B) /\ q \in Seq(B) BY <2>1, <2>2
        <5>2. v \in 1 .. Len(y) + Len(q) /\ v <= Len(y) BY <2>1, <2>2, <2>4, <3>1
        <5> QED BY <5>1, <5>2, ConcatProperties
      <4> HIDE DEF xp, yq
      <4> QED BY <2>1, <4>1, <4>2, <4>3
    <3>2. CASE v > Len(x)
      <4> DEFINE k == v - Len(x)
      <4>1. k \in 1 .. Len(p) BY <2>1, <2>2, <2>4, <3>2
      <4>2. xp[v] = p[k] BY <2>1, <2>2, <3>2, ConcatProperties
      <4>3. yq[v] = q[v - Len(y)]
        <5>1. y \in Seq(B) /\ q \in Seq(B) BY <2>1, <2>2
        <5>2. v \in 1 .. Len(y) + Len(q) /\ ~ (v <= Len(y)) BY <2>1, <2>2, <2>4, <3>2
        <5> QED BY <5>1, <5>2, ConcatProperties
      <4>4. yq[v] = q[k] BY <2>1, <4>3
      <4> HIDE DEF xp, yq, k
      <4> QED BY <2>2, <4>1, <4>2, <4>4
    <3>3. v \in Nat
      <4> HIDE DEF xp
      <4> QED BY <2>4
    <3>4. v <= Len(x) \/ v > Len(x) BY <2>4, <3>3
    <3> QED BY <3>1, <3>2, <3>4
  <2> HIDE DEF xp, yq
  <2>6. OK(xp, yq) BY <2>4, <2>5
  <2>7. OK(g[m], h[m]) BY <2>3, <2>6, Zenon DEF xp, yq
  <2> QED BY <2>7 DEF m
<1> HIDE DEF T
<1>8. N \in T BY <1>4, <1>6, <1>7, NatSetInduction
<1> HIDE DEF OK
<1>9. OK(g[N], h[N]) BY <1>4, <1>8 DEF T
<1>10. OK(FlattenSeq(s), FlattenSeq(t)) BY <1>3, <1>9, Zenon
<1> QED BY <1>10 DEF OK
-----------------------------------------------------------------------------
(* A file that was read keeps what was read of it.                         *)
RunsInv ==
  job = "runs" =>
    \E layout \in Layouts : \E fresh \in [DOMAIN layout -> SUBSET Flag] :
       /\ input = [layout |-> layout, fresh |-> fresh]
       /\ output = DataRunRead(RunList(layout), fresh)

LEMMA RunsStep == RunsInv /\ [Next]_vars => RunsInv'
<1> SUFFICES ASSUME RunsInv, [Next]_vars PROVE RunsInv' OBVIOUS
<1>1. CASE ReadRuns
  <2>1. PICK layout \in Layouts, memory \in Memory :
          /\ input' = [layout |-> layout, fresh |-> [i \in DOMAIN layout |-> memory[i]]]
          /\ output' = DataRunRead(RunList(layout), [i \in DOMAIN layout |-> memory[i]])
    BY <1>1 DEF ReadRuns
  <2> DEFINE fresh == [i \in DOMAIN layout |-> memory[i]]
  <2>2. \A i \in DOMAIN layout : memory[i] \in SUBSET Flag BY LayoutsAssumption
  <2>3. fresh \in [DOMAIN layout -> SUBSET Flag] BY <2>2
  <2> HIDE DEF fresh
  <2>4. input' = [layout |-> layout, fresh |-> fresh]
        /\ output' = DataRunRead(RunList(layout), fresh)
    BY <2>1, Zenon DEF fresh
  <2> QED BY <2>3, <2>4, Zenon DEF RunsInv
<1>2. CASE ReadDisk BY <1>2 DEF ReadDisk, RunsInv
<1>3. CASE OpenIndex BY <1>3 DEF OpenIndex, RunsInv
<1>4. CASE NextEntry BY <1>4 DEF NextEntry, Listing, RunsInv
<1>5. CASE EndOfNode BY <1>5 DEF EndOfNode, Listing, RunsInv
<1>6. CASE UNCHANGED vars BY <1>6, Zenon DEF vars, RunsInv
<1> QED BY <1>1, <1>2, <1>3, <1>4, <1>5, <1>6 DEF Next

(* The flags of a run after the analysis, by what the layout has.          *)
LEMMA AnalyzedLayout ==
  ASSUME NEW layout \in Layouts, NEW fresh \in [DOMAIN layout -> SUBSET Flag]
  PROVE  LET runs == Analyzed(Runs(RunList(layout), fresh))
             N == Len(layout)
             H == Holes(layout, fresh)
         IN /\ runs \in [1 .. N -> RunType]
            /\ \A i \in 1 .. N :
                 /\ runs[i].length = layout[i].length
                 /\ runs[i].flags # {} <=> \/ i \in H \/ fresh[i] # {}
                                           \/ IsCompressed(layout, H, i)
                 /\ ~ IsHole(layout[i]) => runs[i].offset = layout[i].cluster
<1> DEFINE N == Len(layout)
           first == Runs(RunList(layout), fresh)
           b == [i \in 1 .. N + 1 |-> Begin(layout, i)]
           H == Holes(layout, fresh)
<1>1. /\ first \in [1 .. N -> RunType]
      /\ \A i \in 1 .. N : /\ first[i].length = layout[i].length
                           /\ first[i].flags = FlagsAt(layout, fresh, i)
                           /\ ~ IsHole(layout[i]) => first[i].offset = layout[i].cluster
  BY RunsAreLayout
<1>2. N \in Nat /\ DOMAIN layout = 1 .. N BY LayoutFacts
<1>3. \A i \in 1 .. N : i \in 1 .. N + 1 /\ i + 1 \in 1 .. N + 1
  <2> HIDE DEF N
  <2> QED BY <1>2
<1>4. /\ b \in [1 .. N + 1 -> Nat] /\ b[1] = 0 /\ \A i \in 1 .. N + 1 : b[i] = Begin(layout, i)
      /\ \A i \in 1 .. N : b[i + 1] = b[i] + layout[i].length
  <2>1. /\ Begin(layout, 1) = 0 /\ \A i \in 1 .. N + 1 : Begin(layout, i) \in Nat
        /\ \A i \in 1 .. N : Begin(layout, i + 1) = Begin(layout, i) + layout[i].length
    BY BeginFacts
  <2>2. \A i \in 1 .. N + 1 : b[i] = Begin(layout, i) OBVIOUS
  <2>3. 1 \in 1 .. N + 1
    <3> HIDE DEF N
    <3> QED BY <1>2
  <2>4. b \in [1 .. N + 1 -> Nat] BY <2>1
  <2> HIDE DEF b, N
  <2> QED BY <1>3, <2>1, <2>2, <2>3, <2>4
<1> HIDE DEF b, N, first
<1>5. Lengths(b, H, N, first)
  <2>1. \A j \in 1 .. N : b[j + 1] = b[j] + first[j].length BY <1>1, <1>4
  <2>2. \A j \in 1 .. N : j \in H <=> "sparse" \in first[j].flags
    BY <1>1, <1>2 DEF FlagsAt, Holes
  <2>3. H \subseteq 1 .. N BY <1>2 DEF Holes
  <2> QED BY <1>1, <1>2, <1>4, <2>1, <2>2, <2>3 DEF Lengths
<1>6. PICK a : a.runs = Analyzed(first) /\ AnalysisOK(b, H, N, first, a, N + 1)
  <2> HIDE DEF H
  <2> QED BY <1>4, <1>5, AnalyzedRuns
<1> DEFINE runs == a.runs
<1>7. ASSUME NEW i \in 1 .. N
      PROVE  Marked(b, H, i, N + 1) <=> IsCompressed(layout, H, i)
  <2>0. H \subseteq 1 .. N BY <1>5 DEF Lengths
  <2>1. i + 1 \in 1 .. N + 1 /\ b[i + 1] = Begin(layout, i + 1) BY <1>3, <1>4
  <2>2. \A h \in H : h < N + 1 BY <1>2, <2>0
  <2>3. \A h \in H : b[h] = Begin(layout, h) BY <1>3, <1>4, <2>0
  <2>4. \A h \in H : Touches(b, i, h) <=>
          LET s == Begin(layout, h) IN s % Unit # 0 /\ Begin(layout, i + 1) > s - (s % Unit)
    BY <2>1, <2>3, Zenon DEF Touches
  <2>5. IsCompressed(layout, H, i) <=>
          \E h \in H :
            LET s == Begin(layout, h) IN
            /\ i < h /\ s % Unit # 0 /\ Begin(layout, i + 1) > s - (s % Unit)
    BY Zenon DEF IsCompressed
  <2> HIDE DEF H
  <2> QED BY <2>2, <2>4, <2>5, Zenon DEF Marked
<1>8. runs \in [1 .. N -> RunType] BY <1>6 DEF AnalysisOK
<1>9. ASSUME NEW i \in 1 .. N
      PROVE  /\ runs[i].length = layout[i].length
             /\ runs[i].flags # {} <=> \/ i \in H \/ fresh[i] # {}
                                       \/ IsCompressed(layout, H, i)
             /\ ~ IsHole(layout[i]) => runs[i].offset = layout[i].cluster
  <2>1. runs[i].length = first[i].length /\ runs[i].offset = first[i].offset
        /\ first[i].flags \subseteq runs[i].flags
    BY <1>6 DEF AnalysisOK
  <2>2. Marked(b, H, i, N + 1) => runs[i].flags # {} BY <1>6 DEF AnalysisOK
  <2>3. first[i].flags # {} <=> i \in H \/ fresh[i] # {}
    BY <1>1, <1>2 DEF FlagsAt, Holes
  <2>4. runs[i].flags # {} => first[i].flags # {} \/ Marked(b, H, i, N + 1)
    BY <1>6 DEF AnalysisOK
  <2> HIDE DEF H, runs
  <2>5. runs[i].flags # {} <=> i \in H \/ fresh[i] # {} \/ IsCompressed(layout, H, i)
    BY <1>7, <2>1, <2>2, <2>3, <2>4
  <2> QED BY <1>1, <2>1, <2>5
<1> HIDE DEF runs
<1>11. runs = Analyzed(Runs(RunList(layout), fresh)) BY <1>6, Zenon DEF runs, first
<1> QED BY <1>8, <1>9, <1>11, Zenon DEF N, H

(* What is read, cluster by cluster, beside what belongs there.            *)
LEMMA ReadPairs ==
  ASSUME NEW layout \in Layouts, NEW runs \in [1 .. Len(layout) -> RunType],
         \A i \in 1 .. Len(layout) :
           /\ runs[i].length = layout[i].length
           /\ IsHole(layout[i]) => runs[i].flags # {}
           /\ ~ IsHole(layout[i]) => runs[i].offset = layout[i].cluster
  PROVE  /\ Readable(runs) /\ Len(ClustersRead(runs)) = Len(Placed(layout))
         /\ DOMAIN ClustersRead(runs) = 1 .. Len(Placed(layout))
         /\ \A v \in DOMAIN ClustersRead(runs) :
              LET i == Placed(layout)[v].run IN
              /\ i \in 1 .. Len(layout)
              /\ ClustersRead(runs)[v] = IF runs[i].flags = {} THEN Placed(layout)[v].cluster ELSE 0
              /\ ~ IsHole(layout[i]) => Placed(layout)[v].cluster \in Nat \ {0}
<1> DEFINE N == Len(layout)
           A == [run : 1 .. N, cluster : Nat]
           place(i, k) == [run |-> i, cluster |-> layout[i].cluster + k - 1]
           datum(i, k) == IF runs[i].flags = {} THEN runs[i].offset + k - 1 ELSE 0
           s == [i \in 1 .. N |-> [k \in 1 .. layout[i].length |-> place(i, k)]]
           t == [i \in 1 .. N |-> [k \in 1 .. runs[i].length |-> datum(i, k)]]
           Fit(p, d) == /\ d = IF runs[p.run].flags = {} THEN p.cluster ELSE 0
                        /\ ~ IsHole(layout[p.run]) => p.cluster \in Nat \ {0}
           Q == {x \in A \X Nat : Fit(x[1], x[2])}
<1>1. /\ N \in Nat /\ DOMAIN layout = 1 .. N
      /\ \A i \in 1 .. N :
           /\ layout[i].length \in Nat \ {0} /\ layout[i].cluster \in Nat
           /\ ~ IsHole(layout[i]) => layout[i].cluster + layout[i].length <= Clusters
  BY LayoutFacts
<1>2. \A i \in 1 .. N : /\ runs[i].length = layout[i].length
                        /\ IsHole(layout[i]) => runs[i].flags # {}
                        /\ ~ IsHole(layout[i]) => runs[i].offset = layout[i].cluster
                        /\ runs[i].offset \in Nat
  <2>1. \A i \in 1 .. N : runs[i] \in RunType OBVIOUS
  <2>2. \A i \in 1 .. N : runs[i].offset \in Nat BY <2>1 DEF RunType
  <2> QED BY <2>2
<1>3. DOMAIN runs = 1 .. N OBVIOUS
<1> HIDE DEF N
<1>4. Readable(runs)
  <2>1. ASSUME NEW i \in 1 .. N, runs[i].flags = {}
        PROVE  runs[i].offset + runs[i].length <= Clusters
    <3>1. ~ IsHole(layout[i]) BY <1>2, <2>1
    <3>2. runs[i].offset = layout[i].cluster /\ runs[i].length = layout[i].length
      BY <1>2, <3>1
    <3> QED BY <1>1, <3>1, <3>2
  <2> QED BY <1>3, <2>1 DEF Readable
<1>5. ASSUME NEW i \in 1 .. N, NEW k \in 1 .. layout[i].length
      PROVE  place(i, k) \in A /\ datum(i, k) \in Nat /\ <<place(i, k), datum(i, k)>> \in Q
  <2> DEFINE c == layout[i].cluster
             p == place(i, k)
             d == datum(i, k)
  <2>1. c \in Nat /\ k \in Nat /\ k >= 1 /\ c + k - 1 \in Nat BY <1>1
  <2>2. p \in A /\ p.run = i /\ p.cluster = c + k - 1 BY <2>1
  <2>3. runs[i].offset + k - 1 \in Nat BY <1>2, <2>1
  <2>4. d \in Nat BY <2>3
  <2>5. d = IF runs[i].flags = {} THEN c + k - 1 ELSE 0
    <3>1. CASE runs[i].flags = {}
      <4>1. runs[i].offset = c BY <1>2, <3>1
      <4> QED BY <3>1, <4>1
    <3>2. CASE runs[i].flags # {} BY <3>2
    <3> QED BY <3>1, <3>2
  <2>6. ~ IsHole(layout[i]) => c + k - 1 \in Nat \ {0}
    <3> HAVE ~ IsHole(layout[i])
    <3>1. c # 0 BY DEF IsHole
    <3> HIDE DEF c
    <3> QED BY <2>1, <3>1
  <2> HIDE DEF p, d, c, A
  <2>7. Fit(p, d) BY <2>2, <2>5, <2>6
  <2> HIDE DEF Fit
  <2>8. <<p, d>> \in Q BY <2>2, <2>4, <2>7
  <2> QED BY <2>2, <2>4, <2>8 DEF p, d
<1> HIDE DEF place, datum, A, Q
<1>6. ASSUME NEW i \in 1 .. N
      PROVE  /\ s[i] \in Seq(A) /\ t[i] \in Seq(Nat) /\ Len(s[i]) = Len(t[i])
             /\ \A k \in 1 .. Len(s[i]) : <<s[i][k], t[i][k]>> \in Q
  <2> DEFINE l == layout[i].length
             x == [k \in 1 .. l |-> place(i, k)]
             y == [k \in 1 .. l |-> datum(i, k)]
  <2>1. s[i] = x /\ t[i] = y
    <3>1. runs[i].length = l BY <1>2
    <3> QED BY <3>1
  <2>2. l \in Nat BY <1>1
  <2>3. \A k \in 1 .. l : place(i, k) \in A /\ datum(i, k) \in Nat /\ <<place(i, k), datum(i, k)>> \in Q
    BY <1>5
  <2> HIDE DEF l
  <2>4. x \in Seq(A) /\ y \in Seq(Nat) /\ Len(x) = l /\ Len(y) = l
    <3>1. x \in [1 .. l -> A] /\ y \in [1 .. l -> Nat] BY <2>3
    <3> HIDE DEF x, y
    <3>2. x \in Seq(A) /\ Len(x) = l BY <2>2, <3>1
    <3>3. y \in Seq(Nat) /\ Len(y) = l BY <2>2, <3>1
    <3> QED BY <3>2, <3>3
  <2>5. \A k \in 1 .. l : x[k] = place(i, k) /\ y[k] = datum(i, k) OBVIOUS
  <2> HIDE DEF x, y
  <2>6. \A k \in 1 .. Len(x) : <<x[k], y[k]>> \in Q BY <2>3, <2>4, <2>5
  <2> HIDE DEF s, t
  <2> QED BY <2>1, <2>4, <2>6, Zenon
<1>7. s \in Seq(Seq(A)) /\ t \in Seq(Seq(Nat)) /\ Len(s) = N /\ Len(t) = N
  <2> DEFINE SA == Seq(A)
             SN == Seq(Nat)
  <2>1. \A i \in 1 .. N : s[i] \in SA /\ t[i] \in SN BY <1>6
  <2>2. s = [i \in 1 .. N |-> s[i]] /\ t = [i \in 1 .. N |-> t[i]] OBVIOUS
  <2> HIDE DEF SA, SN, s, t
  <2>3. s \in [1 .. N -> SA] /\ t \in [1 .. N -> SN] BY <2>1, <2>2
  <2>4. s \in Seq(SA) /\ t \in Seq(SN) /\ Len(s) = N /\ Len(t) = N BY <1>1, <2>3
  <2> QED BY <2>4 DEF SA, SN
<1>8. Placed(layout) = FlattenSeq(s) BY <1>1, Zenon DEF Placed, place
<1>9. ClustersRead(runs) = FlattenSeq(t) BY <1>3, Zenon DEF ClustersRead, datum
<1> HIDE DEF s, t
<1> DEFINE x == FlattenSeq(s)
           y == FlattenSeq(t)
<1>10. x \in Seq(A) /\ y \in Seq(Nat) /\ Len(x) = Len(y) /\ \A v \in 1 .. Len(x) : <<x[v], y[v]>> \in Q
  <2>1. \A n \in 1 .. Len(s) : /\ Len(s[n]) = Len(t[n])
                               /\ \A k \in 1 .. Len(s[n]) : <<s[n][k], t[n][k]>> \in Q
    BY <1>6, <1>7
  <2>2. Len(s) = Len(t) BY <1>7
  <2> DEFINE B == Nat
  <2>3. t \in Seq(Seq(B)) BY <1>7
  <2> HIDE DEF B
  <2>4. x \in Seq(A) /\ y \in Seq(B) /\ Len(x) = Len(y) /\ \A v \in 1 .. Len(x) : <<x[v], y[v]>> \in Q
    BY <1>7, <2>1, <2>2, <2>3, FlattenPairs
  <2> QED BY <2>4 DEF B
<1> HIDE DEF x, y
<1>11. DOMAIN y = 1 .. Len(x) BY <1>10
<1>12. ASSUME NEW v \in 1 .. Len(x)
       PROVE  /\ x[v].run \in 1 .. N
              /\ y[v] = IF runs[x[v].run].flags = {} THEN x[v].cluster ELSE 0
              /\ ~ IsHole(layout[x[v].run]) => x[v].cluster \in Nat \ {0}
  <2> DEFINE p == x[v]
             d == y[v]
  <2>1. <<p, d>> \in Q BY <1>10
  <2> HIDE DEF p, d
  <2>2. p \in A /\ Fit(p, d)
    <3> HIDE DEF Fit
    <3> QED BY <2>1 DEF Q
  <2>3. p.run \in 1 .. N BY <2>2 DEF A
  <2> QED BY <2>2, <2>3 DEF p, d
<1>13. Placed(layout) = x /\ ClustersRead(runs) = y BY <1>8, <1>9 DEF x, y
<1> QED BY <1>4, <1>10, <1>11, <1>12, <1>13, Zenon DEF N

(* A file that is read has every cluster where the layout has it, and      *)
(* zeros in holes, in compressed runs and where memory was not clear, and  *)
(* nowhere else (parseDataRuns, analyzeDataRuns, dataRunRead).             *)
THEOREM FileIsRead == Spec => []RunsRead
<1>1. Init => RunsInv BY DEF Init, RunsInv
<1>2. RunsInv => RunsRead
  <2> SUFFICES ASSUME RunsInv, job = "runs" PROVE RunsRead BY DEF RunsRead
  <2>0. PICK layout \in Layouts : \E fresh \in [DOMAIN layout -> SUBSET Flag] :
          /\ input = [layout |-> layout, fresh |-> fresh]
          /\ output = DataRunRead(RunList(layout), fresh)
    BY Zenon DEF RunsInv
  <2>1. PICK fresh \in [DOMAIN layout -> SUBSET Flag] :
          /\ input = [layout |-> layout, fresh |-> fresh]
          /\ output = DataRunRead(RunList(layout), fresh)
    BY <2>0, Zenon
  <2> DEFINE N == Len(layout)
             runs == Analyzed(Runs(RunList(layout), fresh))
             data == ClustersRead(runs)
             placed == Placed(layout)
             holes == Holes(layout, fresh)
             zero(i) == \/ i \in holes \/ fresh[i] # {}
                        \/ IsCompressed(layout, holes, i)
  <2>2. /\ runs \in [1 .. N -> RunType]
        /\ \A i \in 1 .. N :
             /\ runs[i].length = layout[i].length
             /\ runs[i].flags # {} <=> zero(i)
             /\ ~ IsHole(layout[i]) => runs[i].offset = layout[i].cluster
        /\ \A i \in 1 .. N : IsHole(layout[i]) => runs[i].flags # {}
    <3>1. /\ runs \in [1 .. N -> RunType]
          /\ \A i \in 1 .. N :
               /\ runs[i].length = layout[i].length
               /\ runs[i].flags # {} <=> zero(i)
               /\ ~ IsHole(layout[i]) => runs[i].offset = layout[i].cluster
      BY AnalyzedLayout, Zenon
    <3>2. \A i \in 1 .. N : IsHole(layout[i]) => i \in holes
      BY LayoutFacts, Zenon DEF Holes
    <3> HIDE DEF holes
    <3>3. \A i \in 1 .. N : i \in holes => zero(i) OBVIOUS
    <3> HIDE DEF zero
    <3> QED BY <3>1, <3>2, <3>3, Zenon
  <2> HIDE DEF runs
  <2>3. /\ Readable(runs) /\ Len(data) = Len(placed)
        /\ \A v \in DOMAIN data :
             LET i == placed[v].run IN
             /\ i \in 1 .. N
             /\ data[v] = IF runs[i].flags = {} THEN placed[v].cluster ELSE 0
             /\ ~ IsHole(layout[i]) => placed[v].cluster \in Nat \ {0}
    <3>1. \A i \in 1 .. N : /\ runs[i].length = layout[i].length
                            /\ IsHole(layout[i]) => runs[i].flags # {}
                            /\ ~ IsHole(layout[i]) => runs[i].offset = layout[i].cluster
      BY <2>2, Zenon
    <3> QED BY <2>2, <3>1, ReadPairs, Zenon
  <2>4. output = [ok |-> TRUE, data |-> data] BY <2>1, <2>3, Zenon DEF DataRunRead, runs
  <2> HIDE DEF data, placed
  <2>5. ASSUME NEW v \in DOMAIN data
        PROVE  data[v] = IF zero(placed[v].run) THEN 0 ELSE placed[v].cluster
    <3> DEFINE i == placed[v].run
    <3>1. /\ i \in 1 .. N
          /\ data[v] = IF runs[i].flags = {} THEN placed[v].cluster ELSE 0
          /\ ~ IsHole(layout[i]) => placed[v].cluster \in Nat \ {0}
      BY <2>3, Zenon
    <3> HIDE DEF i, zero
    <3>2. runs[i].flags # {} <=> zero(i) BY <2>2, <3>1
    <3>3. data[v] = IF zero(i) THEN 0 ELSE placed[v].cluster BY <3>1, <3>2
    <3> QED BY <3>3 DEF i
  <2>6. input.layout = layout /\ input.fresh = fresh /\ output.ok /\ output.data = data
    BY <2>1, <2>4
  <2> HIDE DEF N
  <2>7. Len(output.data) = Len(placed) BY <2>3, <2>6
  <2> QED BY <2>5, <2>6, <2>7, Zenon DEF RunsRead, placed
<1> QED BY <1>1, <1>2, RunsStep, PTL DEF Spec
=============================================================================
