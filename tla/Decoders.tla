------------------------------ MODULE Decoders ------------------------------
(***************************************************************************)
(* What the program makes of structures that it finds on a disk: run lists *)
(* and directory indices of NTFS, and the partition table of a GPT disk.   *)
(* Something of the kind is found, and the code reads it.                  *)
(***************************************************************************)
EXTENDS NtfsRuns, NtfsIndex, GptDetect

CONSTANTS
  Layouts,   \* bound: the runs of an attribute, as pairs of length and cluster
  Memory,    \* bound: what fresh memory holds, the flags by the run
  Keys,      \* what an entry of an index may have
  Readers,   \* bound: the indices of a directory
  Disks,     \* bound: the disks
  MaxFound   \* bound: the entries that are listed

(* Runs have clusters, in the partition unless they are holes; numbers are *)
(* written in fewer bytes than a word has.                                 *)
ASSUME LayoutsAssumption ==
  /\ \A layout \in Layouts :
       /\ layout \in Seq([length : Nat \ {0}, cluster : Nat]) \ {<<>>}
       /\ \A i \in DOMAIN layout :
            /\ 2 * layout[i].length < Power[Word - 1] /\ 2 * layout[i].cluster < Power[Word - 1]
            /\ layout[i].cluster # 0 => layout[i].cluster + layout[i].length <= Clusters
       /\ \A memory \in Memory : DOMAIN layout \subseteq DOMAIN memory
  /\ \A memory \in Memory : \A i \in DOMAIN memory : memory[i] \subseteq Flag

(* The bitmap of an index names records that it has.                       *)
ASSUME ReadersAssumption ==
  \A reader \in Readers :
    /\ reader \in [root : Seq(Keys), records : Seq(Seq(Keys)), bitmap : SUBSET Nat, per : Nat \ {0}]
    /\ reader.bitmap \subseteq DOMAIN reader.records

(* What is meant by a prescribed disk.                                     *)
IsPrescribed(disk) ==
  /\ disk.open /\ disk.mapped /\ disk.large /\ disk.broken = {}
  /\ disk.mbr = <<"ee", "empty", "empty", "empty">> /\ 1 \in disk.starts
  /\ LET one == disk.header[1]
         two == disk.header[one.backup_lba]
     IN /\ 1 \in DOMAIN disk.header /\ one.backup_lba \in DOMAIN disk.header
        /\ one.constants = "right" /\ two.constants = "right"
        /\ one.current_lba = 1 /\ two.backup_lba = 1
        /\ two.current_lba = one.backup_lba
        /\ one.parts_start_lba = 2
        /\ two.parts_start_lba = one.backup_lba - TableSectors
        /\ two.usable = one.usable /\ two.disk_guid = one.disk_guid
        /\ \A h \in {one, two} : IsSealed(disk, h)

ASSUME DisksAssumption == \A disk \in Disks : disk.prescribed => IsPrescribed(disk)

VARIABLES
  job,       \* what is being read: "none", "runs", "index", "disk"
  input,
  current,   \* the entry that getNextIndexValue looks at
  found,     \* the entries it returned
  output

vars == <<job, input, current, found, output>>

Init ==
  /\ job = "none" /\ input = <<>> /\ output = <<>>
  /\ current = None /\ found = <<>>

-----------------------------------------------------------------------------
(* The run list that NTFS writes for a layout.  A number has as few bytes  *)
(* as it takes with its sign, but at least one; a hole has no distance.    *)
Fits(x, n) == -Power[n] <= 2 * x /\ 2 * x < Power[n]

Bytes(x) ==
  LET n == CHOOSE n \in 1 .. Word : Fits(x, n) /\ (n = 1 \/ ~ Fits(x, n - 1))
  IN [k \in 1 .. n |-> ((x % Power[n]) \div Power[k - 1]) % Base]

IsHole(run) == run.cluster = 0

LastCluster(layout, i) ==
  LET placed == {j \in 1 .. i - 1 : ~ IsHole(layout[j])}
  IN IF placed = {} THEN 0 ELSE layout[CHOOSE j \in placed : \A k \in placed : k <= j].cluster

RunList(layout) ==
  [i \in DOMAIN layout |->
     [length   |-> Bytes(layout[i].length),
      distance |-> IF IsHole(layout[i]) THEN <<>>
                   ELSE Bytes(layout[i].cluster - LastCluster(layout, i))]]

ReadRuns ==
  /\ job = "none"
  /\ \E layout \in Layouts, memory \in Memory :
       LET fresh == [i \in DOMAIN layout |-> memory[i]] IN
       /\ input' = [layout |-> layout, fresh |-> fresh]
       /\ output' = DataRunRead(RunList(layout), fresh)
  /\ job' = "runs"
  /\ UNCHANGED <<current, found>>

ReadDisk ==
  /\ job = "none"
  /\ \E disk \in Disks :
       /\ input' = disk
       /\ output' = IsGPTPresent(disk)
  /\ job' = "disk"
  /\ UNCHANGED <<current, found>>

-----------------------------------------------------------------------------
(* A directory is listed entry by entry, each call with what the one       *)
(* before returned (NTFSGetFile, FSGetNext).                               *)
OpenIndex ==
  /\ job = "none"
  /\ \E reader \in Readers : input' = reader /\ current' = First(reader)
  /\ job' = "index"
  /\ UNCHANGED <<found, output>>

Listing == job = "index" /\ current \notin {None, Astray} /\ Len(found) < MaxFound

NextEntry ==
  /\ Listing
  /\ current.entry \in DOMAIN Node(input, current)
  /\ found' = Append(found, Node(input, current)[current.entry])
  /\ current' = [current EXCEPT !.entry = @ + 1]
  /\ UNCHANGED <<job, input, output>>

EndOfNode ==
  /\ Listing
  /\ current.entry \notin DOMAIN Node(input, current)
  /\ current' = NextRecord(input, current)
  /\ UNCHANGED <<job, input, found, output>>

Next ==
  \/ ReadDisk
  \/ OpenIndex
  \/ ReadRuns
  \/ NextEntry
  \/ EndOfNode

Spec == Init /\ [][Next]_vars

-----------------------------------------------------------------------------
(* The cluster of the partition that belongs at each place of a layout.    *)
Placed(layout) ==
  FlattenSeq([i \in DOMAIN layout |->
    [k \in 1 .. layout[i].length |->
       [run |-> i, cluster |-> layout[i].cluster + k - 1]]])

Begin(layout, i) ==
  LET sum[j \in 0 .. Len(layout)] == IF j = 0 THEN 0 ELSE sum[j - 1] + layout[j].length
  IN sum[i - 1]

(* The runs that are taken for holes: those that are, and those of which   *)
(* the memory said so before the run was put there.                        *)
Holes(layout, fresh) ==
  {i \in DOMAIN layout : IsHole(layout[i]) \/ "sparse" \in fresh[i]}

(* A run of which some cluster is in a unit that goes on with a hole.      *)
IsCompressed(layout, holes, i) ==
  \E h \in holes :
    LET s == Begin(layout, h) IN
    /\ i < h /\ s % Unit # 0
    /\ Begin(layout, i + 1) > s - (s % Unit)

(* A file that is read has every cluster where the layout has it, whatever *)
(* the signs and sizes of the distances, and zeros in place of exactly the *)
(* holes, the compressed runs, the runs that had a flag in memory that was *)
(* not cleared, and the runs that share a unit with one that had "sparse"  *)
(* there (parseDataRuns, analyzeDataRuns, dataRunRead).                    *)
RunsRead ==
  job = "runs" =>
    LET layout  == input.layout
        placed  == Placed(layout)
        holes   == Holes(layout, input.fresh)
        zero(i) == \/ i \in holes \/ input.fresh[i] # {}
                   \/ IsCompressed(layout, holes, i)
    IN /\ output.ok
       /\ Len(output.data) = Len(placed)
       /\ \A v \in DOMAIN output.data :
            output.data[v] = IF zero(placed[v].run) THEN 0 ELSE placed[v].cluster

(* The entries of an index that are in use, in the order of the records.   *)
InUse(reader) ==
  FlattenSeq([r \in DOMAIN reader.records |->
                IF r \in reader.bitmap THEN reader.records[r] ELSE <<>>])

(* If a record of the index is a cluster, or there is one record, a        *)
(* directory is listed from its first entry to the last, no entry twice or *)
(* from a record that is not in use; the entries of the root are listed    *)
(* only if there are no records (NTFSGetDirEntries, getNextIndexValue).    *)
ScanReturnsEntries ==
  job = "index" /\ (input.per = 1 \/ Len(input.records) < 2) =>
    LET all == IF input.records = <<>> THEN input.root ELSE InUse(input)
    IN /\ current # Astray
       /\ IsPrefix(found, all)
       /\ current = None => found = all

(* What the code recognises has a GPT entry first in its protective MBR    *)
(* and no partition there, the last of its GPT entries starts where one    *)
(* does, and its two headers agree on each other and on the disk, each     *)
(* with the checksums of itself and of its table.  A disk as it is         *)
(* prescribed is recognised.  A buffer is left only where a disk is        *)
(* refused because one of its tables cannot be read (isGPTPresent).        *)
ProtectiveMbr ==
  job = "disk" =>
    LET one == input.header[1]
        two == input.header[one.backup_lba]
        sealed(h) == /\ h.entries_checksum = input.table[h.parts_start_lba]
                     /\ h.hdr_checksum = [body |-> Body(h), table |-> h.entries_checksum]
    IN /\ output.present =>
            /\ input.mbr[1] = "ee" /\ \A i \in 2 .. 4 : input.mbr[i] # "other"
            /\ \E i \in input.starts \cap 1 .. 4 :
                 /\ input.mbr[i] = "ee"
                 /\ \A j \in 1 .. 4 : j > i => input.mbr[j] # "ee"
            /\ sealed(one) /\ sealed(two)
            /\ one.current_lba = two.backup_lba /\ two.current_lba = one.backup_lba
            /\ one.usable = two.usable /\ one.disk_guid = two.disk_guid
       /\ input.prescribed => output.present
       /\ output.left =>
            /\ ~ output.present
            /\ one.parts_start_lba \in input.broken \/ two.parts_start_lba \in input.broken
=============================================================================
