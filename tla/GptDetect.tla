----------------------------- MODULE GptDetect -----------------------------
(***************************************************************************)
(* How a GUID partition table is recognised (isGPTPresent and its helpers  *)
(* in gpt.c): the protective MBR, then the header in the second sector,    *)
(* then the one it names as its backup.                                    *)
(*                                                                         *)
(* A disk has                                                              *)
(*   open, mapped, large  what is asked of the VDISK before it is read,    *)
(*   mbr      the types of the four entries: "ee", "empty" or "other",     *)
(*   starts   those whose start is that of a GPT entry,                    *)
(*   header   the headers, by their addresses,                             *)
(*   table    the partition entries at an address,                         *)
(*   broken   the addresses that cannot be read.                           *)
(* A header has the fields the code looks at, those it compares with a     *)
(* constant as one, "right".  A checksum is what it was calculated from.   *)
(***************************************************************************)
EXTENDS Integers, Sequences, FiniteSets

CONSTANTS TableSectors   \* 0x20: where the backup table is before its header

ASSUME GptAssumption == TableSectors \in Nat \ {0}

Empty == 4   \* index, while no GPT entry was found

-----------------------------------------------------------------------------
\* mutant: a later entry is looked at like the first
EntryAlone(mbr, index, i) ==
  IF mbr[i + 1] = "ee" THEN i ELSE IF mbr[i + 1] = "empty" THEN index ELSE -1

(* index after entry i, or -1 if the entry is refused: a GPT entry that    *)
(* follows none, and a partition.                                          *)
Entry(mbr, index, i) ==
  IF mbr[i + 1] = "ee" THEN IF i > 0 /\ index = Empty THEN -1 ELSE i
  ELSE IF mbr[i + 1] = "empty" THEN index ELSE -1

Scan(mbr, index, i) == IF index = -1 THEN -1 ELSE Entry(mbr, index, i)

GptEntry(mbr) ==
  Scan(mbr, Scan(mbr, Scan(mbr, Scan(mbr, Empty, 0), 1), 2), 3)

IsValidMbr(disk) ==
  /\ GptEntry(disk.mbr) \in 0 .. 3
  /\ GptEntry(disk.mbr) + 1 \in disk.starts

-----------------------------------------------------------------------------
IsValidTable1(gpt) ==
  /\ gpt.constants = "right"
  /\ gpt.current_lba = 1
  /\ gpt.parts_start_lba = 2

IsValidTable2(gpt, orig) ==
  /\ gpt.constants = "right"
  /\ gpt.current_lba = orig.backup_lba
  /\ gpt.backup_lba = 1
  /\ gpt.usable = orig.usable          \* first_lba and last_lba
  /\ gpt.disk_guid = orig.disk_guid
  /\ gpt.parts_start_lba = orig.backup_lba - TableSectors

(* The checksum of a header is calculated with that of the table in place  *)
(* of the one that is stored, and with none of its own.                    *)
Body(gpt) == [f \in DOMAIN gpt \ {"hdr_checksum", "entries_checksum"} |-> gpt[f]]

Checksums(disk, gpt) ==
  LET table == disk.table[gpt.parts_start_lba]
  IN [header |-> [body |-> Body(gpt), table |-> table], table |-> table]

IsSealed(disk, gpt) ==
  LET sums == Checksums(disk, gpt) IN
  /\ gpt.hdr_checksum = sums.header
  /\ gpt.entries_checksum = sums.table

IsHeader(disk, lba) == lba \in DOMAIN disk.header

(* The table of a valid header is read into a buffer of its own, which     *)
(* stays allocated if that fails.                                          *)
TableRead(disk, gpt) == gpt.parts_start_lba \notin disk.broken

Asked(disk) == disk.open /\ disk.mapped /\ disk.large

IsFirst(disk) ==
  /\ Asked(disk) /\ 0 \notin disk.broken
  /\ IsValidMbr(disk)
  /\ IsHeader(disk, 1) /\ IsValidTable1(disk.header[1])

FirstSealed(disk) ==
  IsFirst(disk) /\ TableRead(disk, disk.header[1]) /\ IsSealed(disk, disk.header[1])

Backup(disk) == disk.header[disk.header[1].backup_lba]

IsSecond(disk) ==
  /\ FirstSealed(disk)
  /\ disk.header[1].backup_lba \notin disk.broken
  /\ IsHeader(disk, disk.header[1].backup_lba)
  /\ IsValidTable2(Backup(disk), disk.header[1])

IsGPTPresent(disk) ==
  [present |-> IsSecond(disk) /\ TableRead(disk, Backup(disk)) /\ IsSealed(disk, Backup(disk)),
   left    |-> \/ IsFirst(disk) /\ ~ TableRead(disk, disk.header[1])
               \/ IsSecond(disk) /\ ~ TableRead(disk, Backup(disk))]
=============================================================================
