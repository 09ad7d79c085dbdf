--------------------------- MODULE VDiskRegistry ---------------------------
(***************************************************************************)
(* The list of virtual disks of the console (vdisk.c): opening a file by   *)
(* path or by index, detecting what it holds, closing it, the selected     *)
(* disk and partition, the cached partition table, and entering the file   *)
(* system context on the selection.                                        *)
(*                                                                         *)
(* Every kernel handle and every driver instance the program acquires is a *)
(* resource with an identity and an owner, so that a leak, a dangling      *)
(* reference and a double owner are states of the model.  Disk data is     *)
(* abstracted to what detection tells apart: the image format and the      *)
(* partition table in it.                                                  *)
(*                                                                         *)
(* The program is one thread, so a command is one step.  Each system call  *)
(* of a command may fail on its own, whatever the calls around it did.     *)
(* A command that is refused before it touches anything is a stutter.      *)
(***************************************************************************)
EXTENDS Integers, Sequences, FiniteSets

CONSTANTS
  Path,       \* names the user can type for a disk file
  File,       \* files of the host
  FileOf,     \* the file a name reaches: two names may reach one file
  Image,      \* contents a host file can have, at least those of a footer (512 bytes)
  Id,         \* identities of kernel handles and driver instances
  MaxParts,   \* bound: partitions in one table
  None        \* "no handle", "no driver", "no table", "no file", "not selected"

Formats == {"raw", "fixed", "dynamic", "diff"}
Tables == {"none", "mbr", "gpt"}

ImageKinds == [format : Formats, table : Tables, parts : 0 .. MaxParts]

ASSUME FileOfAssumption == FileOf \in [Path -> File]
ASSUME ImageAssumption  == Image \subseteq ImageKinds
ASSUME BoundAssumption  == MaxParts \in Nat
ASSUME NoneAssumption   == /\ None \notin Id
                           /\ None \notin Image
                           /\ None \notin 0 .. MaxParts
                           /\ "raw_driver" \notin Id \cup {None}

VARIABLES
  host,              \* external: what each host file holds, None when it is gone
  vdisk_list,        \* vdisk_list[1 .. n_vdisk] (the C array starts at 0, and ends at 511)
  res,               \* live kernel handles and driver instances
  currentVDISK,      \* 1 at start, as 0 is in C: possibly above n_vdisk
  currentPartition,  \* None for 0xFFFFFFFFFFFFFFFF
  fs,                \* the file system driver of commands.c, None for 0
  alive              \* FALSE once the process dereferenced a null driver

vars == <<host, vdisk_list, res, currentVDISK, currentPartition, fs, alive>>

n_vdisk == Len(vdisk_list)
raw_driver == "raw_driver"

Free == [kind |-> "free", of |-> 0]
FreeIds(r) == {x \in Id : r[x] = Free}
Acquire(r, x, kind, i) == [r EXCEPT ![x] = [kind |-> kind, of |-> i]]
Release(r, x) == [r EXCEPT ![x] = Free]

Disk == [path : Path, open : BOOLEAN, mapped : BOOLEAN,
         part : {"none", "gpt", "mbr", "raw"},
         n_partitions : 0 .. MaxParts, partitions : Image \cup {None},
         file : Id \cup {None}, mapping : Id \cup {None},
         driver : Id \cup {raw_driver, None},
         type : Formats]      \* which read function the driver has: "raw" for raw_driver

TypeOK ==
  /\ host \in [File -> Image \cup {None}]
  /\ vdisk_list \in Seq(Disk)
  /\ res \in [Id -> [kind : {"free", "file", "mapping", "driver"}, of : Nat]]
  /\ currentVDISK \in Nat \ {0}
  /\ currentPartition \in (0 .. MaxParts) \cup {None}
  /\ fs \in [vdisk : Nat, part : (0 .. MaxParts) \cup {None}] \cup {None}
  /\ alive \in BOOLEAN

Init ==
  /\ host \in [File -> Image \cup {None}]
  /\ vdisk_list = <<>>
  /\ res = [x \in Id |-> Free]
  /\ currentVDISK = 1
  /\ currentPartition = None
  /\ fs = None
  /\ alive = TRUE

-----------------------------------------------------------------------------
(***************************************************************************)
(* One call on entry i of the list takes a work state w, the entry and the *)
(* resources, to one of a set of outcomes; ok is what the call returns.    *)
(***************************************************************************)
Outcome(ok, d, r) == [ok |-> ok, disk |-> d, res |-> r]

ImageIn(h, d) == h[FileOf[d.path]]

(* What the sectors read through a driver of the given type show: a sparse *)
(* image read as raw bytes starts with a copy of its footer, which has no  *)
(* boot signature.                                                         *)
TableSeen(type, image) ==
  IF type = "raw" /\ image.format \in {"dynamic", "diff"} THEN "none" ELSE image.table

(* Variant for ExclusiveFile: FILE_SHARE_WRITE added to the share mode.     *)
CreateFileShared(h, l, r, p) == h[FileOf[p]] # None

CreateFileAllowed(h, l, r, p) ==     \* FILE_SHARE_READ: no second handle that writes
  /\ h[FileOf[p]] # None
  /\ \A x \in Id : ~ /\ r[x].kind = "file"
                     /\ r[x].of \in 1 .. Len(l)
                     /\ FileOf[l[r[x].of].path] = FileOf[p]

MapVDISKFile(i, d, r) ==
  IF ~ d.open THEN {Outcome(FALSE, d, r)}
  ELSE IF d.mapped THEN {Outcome(TRUE, d, r)}
  ELSE {Outcome(FALSE, d, r)}        \* no mapping, or no view and the mapping closed again
       \cup {Outcome(TRUE, [d EXCEPT !.mapped = TRUE, !.mapping = x],
                     Acquire(r, x, "mapping", i)) : x \in FreeIds(r)}

ExitDriver(d, r) == IF d.driver \in Id THEN Release(r, d.driver) ELSE r

(* Variant for Ownership: the mapping object is not closed.                *)
CloseFreedNoMapping(d, r) == Release(ExitDriver(d, r), d.file)

CloseFreed(d, r) ==
  LET r1 == ExitDriver(d, r)
      r2 == IF d.mapped THEN Release(r1, d.mapping) ELSE r1
  IN Release(r2, d.file)

(* n_partitions and partitions are kept.                                   *)
CloseDisk(d) == [d EXCEPT !.open = FALSE, !.mapped = FALSE, !.part = "none",
                          !.file = None, !.mapping = None,
                          !.driver = None, !.type = "raw"]

CloseVDISKInternal(d, r) ==
  IF d.open THEN Outcome(TRUE, CloseDisk(d), CloseFreed(d, r))
  ELSE Outcome(FALSE, d, r)

SetVHDDriver(i, d, r, image) ==
  {Outcome(FALSE, d, r)}             \* no memory, or a differencing image
  \cup IF image.format \in {"fixed", "dynamic"}
       THEN {Outcome(TRUE, [d EXCEPT !.driver = x, !.type = image.format],
                     ExitDriver(d, Acquire(r, x, "driver", i))) : x \in FreeIds(r)}
       ELSE {}

(* isMBRPresent then isGPTPresent: running out of memory makes either fail, *)
(* so a table can be missed, and a GPT can be taken for an MBR.             *)
(* Variant for FlagsMatchDriver: the table is looked for in the raw file.  *)
TablesFoundRaw(d, image) == {image.table, "none"}

TablesFound(d, image) ==
  CASE TableSeen(d.type, image) = "gpt" -> {"gpt", "mbr", "none"}
    [] TableSeen(d.type, image) = "mbr" -> {"mbr", "none"}
    [] OTHER -> {"none"}

DetectTable(d, mapped, image) ==
  LET found == IF mapped THEN TablesFound(d, image) ELSE {"none"} IN
  {[d EXCEPT !.part = t] : t \in found}
  \cup IF "none" \in found THEN {[d EXCEPT !.part = "raw"]} ELSE {}   \* the user answers y

DetectAfterVHD(i, d, r, image) ==
  UNION {{Outcome(TRUE, e, m.res) : e \in DetectTable(m.disk, m.ok, image)} :
         m \in MapVDISKFile(i, d, r)}

(* Variant for VhdDriverMapped: the result of the first mapping is ignored. *)
DetectUnmapped(i, d, r, image) ==
  UNION {UNION {IF v.ok THEN DetectAfterVHD(i, v.disk, v.res, image)
                ELSE {[CloseVDISKInternal(v.disk, v.res) EXCEPT !.ok = FALSE]} :
                v \in SetVHDDriver(i, m.disk, m.res, image)} :
         m \in MapVDISKFile(i, d, r)}

DetectVDISKContent(i, d, r, image) ==
  UNION {IF m.ok /\ image.format # "raw"
         THEN UNION {IF v.ok THEN DetectAfterVHD(i, v.disk, v.res, image)
                     ELSE {[CloseVDISKInternal(v.disk, v.res) EXCEPT !.ok = FALSE]} :
                     v \in SetVHDDriver(i, m.disk, m.res, image)}
         ELSE DetectAfterVHD(i, m.disk, m.res, image) :
         m \in MapVDISKFile(i, d, r)}

NewDisk(p, x) ==
  [path |-> p, open |-> TRUE, mapped |-> FALSE, part |-> "none",
   n_partitions |-> 0, partitions |-> None, file |-> x, mapping |-> None,
   driver |-> raw_driver, type |-> "raw"]

ReopenedDisk(d, x) ==
  [d EXCEPT !.open = TRUE, !.file = x, !.driver = raw_driver, !.type = "raw"]

-----------------------------------------------------------------------------
(* Variant for PathsUnique: only open entries are compared.                *)
ListedOpen(p) == \E i \in 1 .. n_vdisk : vdisk_list[i].open /\ vdisk_list[i].path = p

Listed(p) == \E i \in 1 .. n_vdisk : vdisk_list[i].path = p

(* Variant for FsOnOpenDisk: disk commands also run in the other context.  *)
AnyContext == alive

CommandContext == alive /\ fs = None

(* "open -f path" for a path not in the list.  The code does not ask       *)
(* whether the list, a page of 512 pointers, has room; here it has.        *)
OpenVdiskPNew(p) ==
  /\ CommandContext
  /\ ~ Listed(p)
  /\ CreateFileAllowed(host, vdisk_list, res, p)
  /\ \E x \in FreeIds(res) :
       LET i == n_vdisk + 1 IN
       \E o \in DetectVDISKContent(i, NewDisk(p, x), Acquire(res, x, "file", i),
                                   ImageIn(host, NewDisk(p, x))) :
         /\ vdisk_list' = Append(vdisk_list, o.disk)
         /\ res' = o.res
  /\ UNCHANGED <<host, currentVDISK, currentPartition, fs, alive>>

(* The same command when GetFileSizeEx or an allocation fails: the handle  *)
(* that CreateFile returned is closed and nothing is listed.               *)
OpenVdiskPFails(p) ==
  /\ CommandContext
  /\ ~ Listed(p)
  /\ CreateFileAllowed(host, vdisk_list, res, p)
  /\ \E x \in FreeIds(res) :
       res' = Release(Acquire(res, x, "file", n_vdisk + 1), x)
  /\ UNCHANGED <<host, vdisk_list, currentVDISK, currentPartition, fs, alive>>

(* "open -f path" for a listed path and "open -i index" or "open": reopen. *)
OpenVdiskI(i) ==
  /\ CommandContext
  /\ i \in 1 .. n_vdisk
  /\ ~ vdisk_list[i].open
  /\ CreateFileAllowed(host, vdisk_list, res, vdisk_list[i].path)
  /\ \E x \in FreeIds(res) :
       \E o \in DetectVDISKContent(i, ReopenedDisk(vdisk_list[i], x),
                                   Acquire(res, x, "file", i),
                                   ImageIn(host, vdisk_list[i])) :
         /\ vdisk_list' = [vdisk_list EXCEPT ![i] = o.disk]
         /\ res' = o.res
  /\ UNCHANGED <<host, currentVDISK, currentPartition, fs, alive>>

(* Variant for OneEntryPerCommand: the selected disk is closed as well.    *)
CloseVDISKAndSelected(i) ==
  /\ CommandContext
  /\ i \in 1 .. n_vdisk
  /\ vdisk_list[i].open
  /\ vdisk_list' = [j \in 1 .. n_vdisk |-> IF j \in {i, currentVDISK}
                                          THEN CloseDisk(vdisk_list[j]) ELSE vdisk_list[j]]
  /\ res' = CloseFreed(vdisk_list[i], res)
  /\ UNCHANGED <<host, currentVDISK, currentPartition, fs, alive>>

CloseVDISK(i) ==
  /\ CommandContext
  /\ i \in 1 .. n_vdisk
  /\ vdisk_list[i].open
  /\ LET o == CloseVDISKInternal(vdisk_list[i], res) IN
       /\ vdisk_list' = [vdisk_list EXCEPT ![i] = o.disk]
       /\ res' = o.res
  /\ UNCHANGED <<host, currentVDISK, currentPartition, fs, alive>>

(* "select vdisk" by index or by path.  The partition stays selected.      *)
SelectVdisk(i) ==
  /\ CommandContext
  /\ i \in 1 .. n_vdisk
  /\ currentVDISK' = i
  /\ UNCHANGED <<host, vdisk_list, res, currentPartition, fs, alive>>

CurrentDisk == vdisk_list[currentVDISK]
CurrentOpen == currentVDISK <= n_vdisk /\ CurrentDisk.open

(* "list partition" reads the table of a GPT disk the first time only.     *)
ListPartitions ==
  /\ CommandContext
  /\ CurrentOpen
  /\ CurrentDisk.part = "gpt"
  /\ CurrentDisk.partitions = None
  /\ LET image == ImageIn(host, CurrentDisk) IN
       vdisk_list' = [vdisk_list EXCEPT ![currentVDISK].partitions = image,
                                        ![currentVDISK].n_partitions = image.parts]
  /\ UNCHANGED <<host, res, currentVDISK, currentPartition, fs, alive>>

SelectPartition(index) ==
  /\ CommandContext
  /\ CurrentOpen
  /\ index < CurrentDisk.n_partitions
  /\ currentPartition' = index
  /\ UNCHANGED <<host, vdisk_list, res, currentVDISK, fs, alive>>

-----------------------------------------------------------------------------
(* partitionRead asks the driver only for a listed partition, or for the   *)
(* whole disk in raw mode.                                                 *)
PartitionListed(d, part) == part # None /\ part < d.n_partitions
PartitionReadable(d, part) ==
  PartitionListed(d, part) \/ (d.n_partitions = 0 /\ d.part = "raw")

(* "enter": createDriver reads the boot sector through the disk's driver   *)
(* and finds a file system it knows.                                       *)
EnterFS ==
  /\ CommandContext
  /\ currentVDISK <= n_vdisk
  /\ PartitionReadable(CurrentDisk, currentPartition)
  /\ CurrentDisk.driver # None
  /\ CurrentDisk.mapped
  /\ fs' = [vdisk |-> currentVDISK, part |-> currentPartition]
  /\ UNCHANGED <<host, vdisk_list, res, currentVDISK, currentPartition, alive>>

(* The same command on a closed disk whose partitions are still cached:    *)
(* vdisk->driver is 0 and partitionRead calls through it.                  *)
EnterNullDriver ==
  /\ CommandContext
  /\ currentVDISK <= n_vdisk
  /\ PartitionReadable(CurrentDisk, currentPartition)
  /\ CurrentDisk.driver = None
  /\ alive' = FALSE
  /\ UNCHANGED <<host, vdisk_list, res, currentVDISK, currentPartition, fs>>

ExitFS ==
  /\ alive
  /\ fs # None
  /\ fs' = None
  /\ UNCHANGED <<host, vdisk_list, res, currentVDISK, currentPartition, alive>>

(* External: other programs replace or delete a file this process has not  *)
(* open.                                                                   *)
HostChanges(f) ==
  /\ \A i \in 1 .. n_vdisk : vdisk_list[i].open => FileOf[vdisk_list[i].path] # f
  /\ \E image \in Image \cup {None} : host' = [host EXCEPT ![f] = image]
  /\ UNCHANGED <<vdisk_list, res, currentVDISK, currentPartition, fs, alive>>

Next ==
  \/ \E p \in Path : OpenVdiskPNew(p)
  \/ \E p \in Path : OpenVdiskPFails(p)
  \/ \E i \in 1 .. n_vdisk : OpenVdiskI(i)
  \/ \E i \in 1 .. n_vdisk : CloseVDISK(i)
  \/ \E i \in 1 .. n_vdisk : SelectVdisk(i)
  \/ ListPartitions
  \/ \E index \in 0 .. MaxParts : SelectPartition(index)
  \/ EnterFS
  \/ EnterNullDriver
  \/ ExitFS
  \/ \E f \in File : HostChanges(f)

Spec == Init /\ [][Next]_vars
-----------------------------------------------------------------------------
(* What entry d, at index i of the list, holds among the resources r.      *)
EntryOwns(d, r, i) ==
  /\ d.open <=> d.file # None
  /\ d.open <=> d.driver # None
  /\ d.mapped <=> d.mapping # None
  /\ d.mapped => d.open
  /\ d.file # None => r[d.file] = [kind |-> "file", of |-> i]
  /\ d.mapping # None => r[d.mapping] = [kind |-> "mapping", of |-> i]
  /\ d.driver \in Id => r[d.driver] = [kind |-> "driver", of |-> i]
  /\ \A x \in Id : r[x].of = i => x \in {d.file, d.mapping, d.driver}

NoOrphans ==
  \A x \in Id :
    /\ res[x].kind = "free" <=> res[x].of = 0
    /\ res[x].of <= n_vdisk

(* The kernel handles and driver instances alive are exactly those the     *)
(* entries refer to, each by one field of one entry: no path through open, *)
(* detect, close and their failures leaks one, keeps one that was freed,   *)
(* or shares one (closeVDISKInternal, setVHDDriver, mapVDISKFile).         *)
Ownership ==
  /\ \A i \in 1 .. n_vdisk : EntryOwns(vdisk_list[i], res, i)
  /\ NoOrphans

(* An index shown by "list vdisk" names one path, and a path one index:    *)
(* openVdiskP reopens a listed path instead of listing it twice.           *)
PathsUnique ==
  \A i, j \in 1 .. n_vdisk : vdisk_list[i].path = vdisk_list[j].path => i = j

(* Two open entries never work on one host file, also when two paths reach *)
(* it: each would cache its own length, view and block table.              *)
ExclusiveFile ==
  \A i, j \in 1 .. n_vdisk :
    /\ vdisk_list[i].open
    /\ vdisk_list[j].open
    /\ FileOf[vdisk_list[i].path] = FileOf[vdisk_list[j].path]
    => i = j

(* A VHD driver instance is installed only over a mapped view of an image  *)
(* of its own type: dynamicVHDRead and getDynamicVHDSize read the view     *)
(* without looking at the MAPPED flag.                                     *)
VhdDriverMapped ==
  \A i \in 1 .. n_vdisk :
    LET d == vdisk_list[i] IN
    IF d.driver \in Id
    THEN d.mapped /\ d.type \in {"fixed", "dynamic"} /\ d.type = ImageIn(host, d).format
    ELSE d.type = "raw"

(* A disk flagged GPT or MBR shows that table through the driver it ended  *)
(* up with, also when the first mapping failed and detection fell back to  *)
(* the raw driver (dectectVDISKContent).                                   *)
FlagsMatchDriver ==
  \A i \in 1 .. n_vdisk :
    LET d == vdisk_list[i]
        seen == TableSeen(d.type, ImageIn(host, d))
    IN /\ d.part = "gpt" => seen = "gpt"
       /\ d.part = "mbr" => seen # "none"

(* While the file system context is entered its disk stays open and mapped *)
(* and its partition stays readable: the FAT and NTFS drivers keep only    *)
(* the disk's address and an index (getSelDrv, partitionRead).             *)
FsOnOpenDisk ==
  fs # None => /\ fs.vdisk \in 1 .. n_vdisk
               /\ vdisk_list[fs.vdisk].mapped
               /\ vdisk_list[fs.vdisk].driver # None
               /\ PartitionReadable(vdisk_list[fs.vdisk], fs.part)

(* A command changes one entry at most, adds one at most, and never gives  *)
(* an index another path: indexes the user has seen stay valid.            *)
OneEntryPerCommand ==
  [][/\ n_vdisk' \in {n_vdisk, n_vdisk + 1}
     /\ \A i \in 1 .. n_vdisk : vdisk_list'[i].path = vdisk_list[i].path
     /\ \A i, j \in 1 .. n_vdisk :
          vdisk_list'[i] # vdisk_list[i] /\ vdisk_list'[j] # vdisk_list[j] => i = j]_vars

(* Refuted.  vdisk.h:273 has getSelDrv create a driver for the selected    *)
(* disk and partition; on a closed disk it calls through a null driver.    *)
NeverNullDriver == alive
=============================================================================
