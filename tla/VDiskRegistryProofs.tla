------------------------ MODULE VDiskRegistryProofs ------------------------
(***************************************************************************)
(* The invariants of VDiskRegistry for every set of paths, files, images   *)
(* and resources.                                                          *)
(*                                                                         *)
(* A command works on one entry.  WorkOK says what holds of that entry and *)
(* of the resources at every point of the command, and Frame that the      *)
(* resources of the other entries are as they were.  One lemma per call    *)
(* shows that each of its outcomes keeps both; IInv then follows command   *)
(* by command.                                                             *)
(***************************************************************************)
EXTENDS VDiskRegistry, TLAPS

Resources == [kind : {"free", "file", "mapping", "driver"}, of : Nat]

ResOK(r) == /\ r \in [Id -> Resources]
            /\ \A x \in Id : r[x].kind = "free" <=> r[x].of = 0

(* What the driver and the flags of an entry say about its image.          *)
DriverOK(d, image) ==
  IF d.driver \in Id
  THEN d.mapped /\ d.type \in {"fixed", "dynamic"} /\ d.type = image.format
  ELSE d.type = "raw"

FlagsOK(d, image) ==
  /\ d.part = "gpt" => TableSeen(d.type, image) = "gpt"
  /\ d.part = "mbr" => TableSeen(d.type, image) # "none"
  /\ ~ d.open => d.part = "none"
  /\ d.open => image # None

WorkOK(i, d, r, image) ==
  /\ d \in Disk
  /\ ResOK(r)
  /\ EntryOwns(d, r, i)
  /\ DriverOK(d, image)
  /\ FlagsOK(d, image)

(* Only resources that were free or belonged to entry i changed, and they  *)
(* are free or belong to entry i now.                                      *)
Frame(i, r, r2) ==
  \A x \in Id : \/ r2[x] = r[x]
                \/ /\ r[x].of \in {0, i}
                   /\ r2[x].of \in {0, i}

SameTable(d, e) == /\ e.path = d.path
                   /\ e.n_partitions = d.n_partitions
                   /\ e.partitions = d.partitions

Kept(i, d, r, image, o) == /\ WorkOK(i, o.disk, o.res, image)
                           /\ Frame(i, r, o.res)
                           /\ SameTable(d, o.disk)

LEMMA FrameTransitive ==
  ASSUME NEW i \in Nat \ {0}, NEW r, NEW r2, NEW r3, ResOK(r), ResOK(r2), ResOK(r3),
         Frame(i, r, r2), Frame(i, r2, r3)
  PROVE  Frame(i, r, r3)
BY DEF Frame

LEMMA MapKeeps ==
  ASSUME NEW i \in Nat \ {0}, NEW d, NEW r, NEW image, WorkOK(i, d, r, image),
         NEW o \in MapVDISKFile(i, d, r)
  PROVE  /\ Kept(i, d, r, image, o)
         /\ o.ok = o.disk.mapped
         /\ o.disk.open = d.open
         /\ o.disk.part = d.part
         /\ o.disk.driver = d.driver
<1> USE NoneAssumption
<1>0. d.mapped \in BOOLEAN
  BY DEF WorkOK, Disk
<1>1. CASE o = Outcome(FALSE, d, r) /\ ~ d.mapped
  BY <1>0, <1>1 DEF Outcome, Kept, WorkOK, Frame, SameTable
<1>2. CASE o = Outcome(TRUE, d, r) /\ d.mapped
  BY <1>0, <1>2 DEF Outcome, Kept, WorkOK, Frame, SameTable
<1>3. ASSUME NEW x \in FreeIds(r), d.open, ~ d.mapped,
             o = Outcome(TRUE, [d EXCEPT !.mapped = TRUE, !.mapping = x],
                         Acquire(r, x, "mapping", i))
      PROVE  /\ Kept(i, d, r, image, o)
             /\ o.ok = o.disk.mapped
             /\ o.disk.open = d.open
             /\ o.disk.part = d.part
             /\ o.disk.driver = d.driver
  <2> DEFINE e == [d EXCEPT !.mapped = TRUE, !.mapping = x]
             r2 == Acquire(r, x, "mapping", i)
  <2>1. /\ x \in Id
        /\ r[x] = Free
        /\ d \in Disk
        /\ ResOK(r)
        /\ EntryOwns(d, r, i)
    BY <1>3 DEF FreeIds, WorkOK
  <2>2. /\ o.ok = TRUE
        /\ o.disk = e
        /\ o.res = r2
    BY <1>3 DEF Outcome
  <2>3. /\ e \in Disk
        /\ e.mapped = TRUE
        /\ e.mapping = x
        /\ e.open = d.open
        /\ e.file = d.file
        /\ e.driver = d.driver
        /\ e.part = d.part
        /\ e.type = d.type
        /\ SameTable(d, e)
    BY <2>1 DEF Disk, SameTable
  <2>4. /\ r2 \in [Id -> Resources]
        /\ r2[x] = [kind |-> "mapping", of |-> i]
        /\ \A y \in Id \ {x} : r2[y] = r[y]
    BY <2>1 DEF Acquire, ResOK, Resources
  <2>5. ResOK(r2)
    BY <2>1, <2>4 DEF ResOK
  <2>6. Frame(i, r, r2)
    BY <2>1, <2>4 DEF Frame, Free
  <2>7. EntryOwns(e, r2, i)
    <3> HIDE DEF e, r2
    <3>1. /\ x # d.file
          /\ x # d.driver
          /\ r[x].of # i
      BY <2>1 DEF EntryOwns, Free
    <3>2. /\ e.open <=> e.file # None
          /\ e.open <=> e.driver # None
          /\ e.mapped <=> e.mapping # None
          /\ e.mapped => e.open
      BY <1>3, <2>1, <2>3 DEF EntryOwns
    <3>3. e.file # None => r2[e.file] = [kind |-> "file", of |-> i]
      BY <2>1, <2>3, <2>4, <3>1 DEF EntryOwns, Disk
    <3>4. e.driver \in Id => r2[e.driver] = [kind |-> "driver", of |-> i]
      BY <2>1, <2>3, <2>4, <3>1 DEF EntryOwns
    <3>5. \A y \in Id : r2[y].of = i => y \in {e.file, e.mapping, e.driver}
      <4>1. d.mapping = None
        BY <1>3, <2>1 DEF EntryOwns
      <4> QED
        BY <2>1, <2>3, <2>4, <4>1 DEF EntryOwns
    <3> QED
      BY <2>3, <2>4, <3>2, <3>3, <3>4, <3>5 DEF EntryOwns
  <2>8. DriverOK(e, image)
    BY <2>3 DEF WorkOK, DriverOK
  <2>9. FlagsOK(e, image)
    BY <1>3, <2>3 DEF WorkOK, FlagsOK
  <2> QED
    BY <2>2, <2>3, <2>5, <2>6, <2>7, <2>8, <2>9 DEF Kept, WorkOK
<1>4. ~ d.open => ~ d.mapped
  BY DEF WorkOK, EntryOwns, Disk
<1> QED
  BY <1>1, <1>2, <1>3, <1>4 DEF MapVDISKFile

LEMMA ReleaseEffect ==
  ASSUME NEW r, ResOK(r), NEW x \in Id
  PROVE  /\ ResOK(Release(r, x))
         /\ Release(r, x)[x] = Free
         /\ \A y \in Id \ {x} : Release(r, x)[y] = r[y]
BY DEF ResOK, Resources, Release, Free

(* Closing an entry frees all it holds and nothing else.                   *)
LEMMA CloseKeeps ==
  ASSUME NEW i \in Nat \ {0}, NEW d, NEW r, NEW image, WorkOK(i, d, r, image), d.open,
         NEW o, o = CloseVDISKInternal(d, r)
  PROVE  /\ Kept(i, d, r, image, o)
         /\ ~ o.disk.open
         /\ \A x \in Id : o.res[x].of # i
<1> USE NoneAssumption
<1> DEFINE e == CloseDisk(d)
           r1 == ExitDriver(d, r)
           r2 == IF d.mapped THEN Release(r1, d.mapping) ELSE r1
           r3 == Release(r2, d.file)
<1>1. /\ d \in Disk
      /\ ResOK(r)
      /\ EntryOwns(d, r, i)
      /\ d.file \in Id
      /\ d.mapped => d.mapping \in Id
  BY DEF WorkOK, EntryOwns, Disk
<1>2. /\ ResOK(r1)
      /\ d.driver \in Id => r1[d.driver] = Free
      /\ \A y \in Id \ {d.driver} : r1[y] = r[y]
  BY <1>1, ReleaseEffect DEF ExitDriver
<1>3. /\ ResOK(r2)
      /\ d.mapped => r2[d.mapping] = Free
      /\ \A y \in Id \ {d.mapping} : r2[y] = r1[y]
      /\ ~ d.mapped => r2 = r1
  <2> HIDE DEF r1
  <2> QED BY <1>1, <1>2, ReleaseEffect
<1>4. /\ ResOK(r3)
      /\ r3[d.file] = Free
      /\ \A y \in Id \ {d.file} : r3[y] = r2[y]
  <2> HIDE DEF r1, r2
  <2> QED BY <1>1, <1>3, ReleaseEffect
<1>5. /\ o.disk = e
      /\ o.res = r3
  BY DEF CloseVDISKInternal, CloseFreed, Outcome
<1>6. /\ e \in Disk
      /\ ~ e.open
      /\ ~ e.mapped
      /\ e.part = "none"
      /\ e.file = None
      /\ e.mapping = None
      /\ e.driver = None
      /\ e.type = "raw"
      /\ SameTable(d, e)
  BY <1>1 DEF CloseDisk, Disk, SameTable, Formats
<1> HIDE DEF e, r1, r2, r3
<1>7. \A y \in Id : r3[y] = Free \/ (r3[y] = r[y] /\ r[y].of # i)
  BY <1>1, <1>2, <1>3, <1>4 DEF EntryOwns
<1>8. \A y \in Id : r3[y].of # i
  BY <1>7 DEF Free
<1>9. Frame(i, r, r3)
  <2>1. ASSUME NEW y \in Id, r3[y] # r[y]
        PROVE  r3[y] = Free /\ r[y].of = i
    BY <2>1, <1>1, <1>2, <1>3, <1>4, <1>7 DEF EntryOwns
  <2> QED BY <2>1 DEF Frame, Free
<1>10. EntryOwns(e, r3, i)
  BY <1>6, <1>8 DEF EntryOwns
<1>11. DriverOK(e, image) /\ FlagsOK(e, image)
  BY <1>6 DEF DriverOK, FlagsOK
<1> QED
  BY <1>4, <1>5, <1>6, <1>8, <1>9, <1>10, <1>11 DEF Kept, WorkOK

(* Installing a VHD driver over a mapped image that is not yet flagged.    *)
LEMMA SetDriverKeeps ==
  ASSUME NEW i \in Nat \ {0}, NEW d, NEW r, NEW image, WorkOK(i, d, r, image),
         d.open, d.mapped, d.driver = raw_driver, d.part = "none",
         NEW o \in SetVHDDriver(i, d, r, image)
  PROVE  /\ Kept(i, d, r, image, o)
         /\ o.disk.open
         /\ o.disk.mapped
         /\ o.disk.part = "none"
<1> USE NoneAssumption
<1>1. CASE o = Outcome(FALSE, d, r)
  BY <1>1 DEF Outcome, Kept, Frame, SameTable
<1>2. ASSUME NEW x \in FreeIds(r), image.format \in {"fixed", "dynamic"},
             o = Outcome(TRUE, [d EXCEPT !.driver = x, !.type = image.format],
                         ExitDriver(d, Acquire(r, x, "driver", i)))
      PROVE  /\ Kept(i, d, r, image, o)
             /\ o.disk.open
             /\ o.disk.mapped
             /\ o.disk.part = "none"
  <2> DEFINE e == [d EXCEPT !.driver = x, !.type = image.format]
             r2 == Acquire(r, x, "driver", i)
  <2>1. /\ x \in Id
        /\ r[x] = Free
        /\ d \in Disk
        /\ ResOK(r)
        /\ EntryOwns(d, r, i)
    BY <1>2 DEF FreeIds, WorkOK
  <2>2. /\ o.disk = e
        /\ o.res = r2
    BY <1>2 DEF Outcome, ExitDriver, raw_driver
  <2>3. /\ e \in Disk
        /\ e.open <=> d.open
        /\ e.mapped <=> d.mapped
        /\ e.mapping = d.mapping
        /\ e.file = d.file
        /\ e.driver = x
        /\ e.part = d.part
        /\ e.type = image.format
        /\ SameTable(d, e)
    BY <1>2, <2>1 DEF Disk, SameTable, Formats
  <2>4. /\ ResOK(r2)
        /\ r2[x] = [kind |-> "driver", of |-> i]
        /\ \A y \in Id \ {x} : r2[y] = r[y]
    <3>1. /\ r2 \in [Id -> Resources]
          /\ r2[x] = [kind |-> "driver", of |-> i]
          /\ \A y \in Id \ {x} : r2[y] = r[y]
      BY <2>1 DEF Acquire, ResOK, Resources
    <3> QED
      BY <2>1, <3>1 DEF ResOK
  <2> HIDE DEF e, r2
  <2>5. Frame(i, r, r2)
    BY <2>1, <2>4 DEF Frame, Free
  <2>6. /\ x # d.file
        /\ x # d.mapping
        /\ r[x].of # i
    BY <2>1 DEF EntryOwns, Free
  <2>7. EntryOwns(e, r2, i)
    <3>1. /\ e.open <=> e.file # None
          /\ e.open <=> e.driver # None
          /\ e.mapped <=> e.mapping # None
          /\ e.mapped => e.open
      BY <2>1, <2>3 DEF EntryOwns
    <3>2. e.file # None => r2[e.file] = [kind |-> "file", of |-> i]
      BY <2>1, <2>3, <2>4, <2>6 DEF EntryOwns, Disk
    <3>3. e.mapping # None => r2[e.mapping] = [kind |-> "mapping", of |-> i]
      BY <2>1, <2>3, <2>4, <2>6 DEF EntryOwns, Disk
    <3>4. \A y \in Id : r2[y].of = i => y \in {e.file, e.mapping, e.driver}
      BY <2>1, <2>3, <2>4 DEF EntryOwns, raw_driver
    <3> QED
      BY <2>3, <2>4, <3>1, <3>2, <3>3, <3>4 DEF EntryOwns
  <2>8. DriverOK(e, image)
    BY <1>2, <2>1, <2>3 DEF DriverOK
  <2>9. FlagsOK(e, image)
    BY <2>3 DEF WorkOK, FlagsOK
  <2> QED
    BY <2>2, <2>3, <2>4, <2>5, <2>7, <2>8, <2>9 DEF Kept, WorkOK
<1> QED
  BY <1>1, <1>2 DEF SetVHDDriver

(* Flagging an entry with a table that shows through its driver.           *)
LEMMA TableKeeps ==
  ASSUME NEW i \in Nat \ {0}, NEW d, NEW r, NEW image, WorkOK(i, d, r, image), d.open,
         NEW mapped, NEW e \in DetectTable(d, mapped, image), NEW ok
  PROVE  Kept(i, d, r, image, Outcome(ok, e, r)) /\ e.open
<1>1. PICK t \in {"none", "gpt", "mbr", "raw"} :
        /\ e = [d EXCEPT !.part = t]
        /\ t \in {"gpt", "mbr"} => t \in TablesFound(d, image)
  BY DEF DetectTable, TablesFound
<1>2. /\ d \in Disk
      /\ EntryOwns(d, r, i)
  BY DEF WorkOK
<1>3. /\ e \in Disk
      /\ e.open <=> d.open
      /\ e.mapped <=> d.mapped
      /\ e.file = d.file
      /\ e.mapping = d.mapping
      /\ e.driver = d.driver
      /\ e.type = d.type
      /\ e.part = t
      /\ SameTable(d, e)
  BY <1>1, <1>2 DEF Disk, SameTable
<1>4. EntryOwns(e, r, i)
  BY <1>2, <1>3 DEF EntryOwns
<1>5. DriverOK(e, image)
  BY <1>3 DEF WorkOK, DriverOK
<1>6. FlagsOK(e, image)
  BY <1>1, <1>3 DEF WorkOK, FlagsOK, TablesFound
<1> QED
  BY <1>3, <1>4, <1>5, <1>6 DEF Kept, WorkOK, Outcome, Frame

LEMMA KeptTransitive ==
  ASSUME NEW i \in Nat \ {0}, NEW d, NEW r, NEW image, ResOK(r), NEW m, NEW o,
         Kept(i, d, r, image, m), Kept(i, m.disk, m.res, image, o)
  PROVE  Kept(i, d, r, image, o)
<1>1. Frame(i, r, o.res)
  BY FrameTransitive DEF Kept, WorkOK
<1>2. SameTable(d, o.disk)
  BY DEF Kept, SameTable
<1> QED
  BY <1>1, <1>2 DEF Kept

LEMMA DetectAfterKeeps ==
  ASSUME NEW i \in Nat \ {0}, NEW d, NEW r, NEW image, WorkOK(i, d, r, image), d.open,
         NEW o \in DetectAfterVHD(i, d, r, image)
  PROVE  Kept(i, d, r, image, o)
<1>1. PICK m \in MapVDISKFile(i, d, r) :
        \E e \in DetectTable(m.disk, m.ok, image) : o = Outcome(TRUE, e, m.res)
  BY DEF DetectAfterVHD
<1>2. Kept(i, d, r, image, m) /\ m.disk.open
  BY MapKeeps
<1>3. Kept(i, m.disk, m.res, image, o)
  BY <1>1, <1>2, TableKeeps DEF Kept
<1> QED
  BY <1>2, <1>3, KeptTransitive DEF WorkOK

(* Every way detection can end leaves the entry and the resources in order. *)
LEMMA DetectKeeps ==
  ASSUME NEW i \in Nat \ {0}, NEW d, NEW r, NEW image, WorkOK(i, d, r, image),
         d.open, d.driver = raw_driver, d.part = "none",
         NEW o \in DetectVDISKContent(i, d, r, image)
  PROVE  Kept(i, d, r, image, o)
<1>1. PICK m \in MapVDISKFile(i, d, r) :
        o \in IF m.ok /\ image.format # "raw"
              THEN UNION {IF v.ok THEN DetectAfterVHD(i, v.disk, v.res, image)
                          ELSE {[CloseVDISKInternal(v.disk, v.res) EXCEPT !.ok = FALSE]} :
                          v \in SetVHDDriver(i, m.disk, m.res, image)}
              ELSE DetectAfterVHD(i, m.disk, m.res, image)
  BY DEF DetectVDISKContent
<1>2. /\ Kept(i, d, r, image, m)
      /\ m.ok = m.disk.mapped
      /\ m.disk.open
      /\ m.disk.part = "none"
      /\ m.disk.driver = raw_driver
      /\ ResOK(r)
  BY MapKeeps DEF WorkOK
<1>3. Kept(i, m.disk, m.res, image, o)
  <2>1. CASE o \in DetectAfterVHD(i, m.disk, m.res, image)
    BY <1>2, <2>1, DetectAfterKeeps DEF Kept
  <2>2. ASSUME NEW v \in SetVHDDriver(i, m.disk, m.res, image), m.ok,
               o \in IF v.ok THEN DetectAfterVHD(i, v.disk, v.res, image)
                     ELSE {[CloseVDISKInternal(v.disk, v.res) EXCEPT !.ok = FALSE]}
        PROVE  Kept(i, m.disk, m.res, image, o)
    <3>1. WorkOK(i, m.disk, m.res, image) /\ m.disk.mapped
      BY <1>2, <2>2 DEF Kept
    <3>2. Kept(i, m.disk, m.res, image, v) /\ v.disk.open
      BY <1>2, <3>1, SetDriverKeeps
    <3>3. WorkOK(i, v.disk, v.res, image)
      BY <3>2 DEF Kept
    <3>4. Kept(i, v.disk, v.res, image, o)
      <4>1. CASE o \in DetectAfterVHD(i, v.disk, v.res, image)
        BY <3>2, <3>3, <4>1, DetectAfterKeeps
      <4>2. CASE o = [CloseVDISKInternal(v.disk, v.res) EXCEPT !.ok = FALSE]
        <5> DEFINE c == CloseVDISKInternal(v.disk, v.res)
        <5>1. Kept(i, v.disk, v.res, image, c)
          BY <3>2, <3>3, CloseKeeps
        <5>2. o.disk = c.disk /\ o.res = c.res
          BY <3>2, <4>2 DEF CloseVDISKInternal, Outcome
        <5> HIDE DEF c
        <5> QED
          BY <5>1, <5>2 DEF Kept
      <4> QED
        BY <2>2, <4>1, <4>2
    <3> QED
      BY <3>1, <3>2, <3>4, KeptTransitive DEF WorkOK
  <2> QED
    BY <1>1, <2>1, <2>2
<1> QED
  BY <1>2, <1>3, KeptTransitive

-----------------------------------------------------------------------------
EntryOK(i) ==
  /\ DriverOK(vdisk_list[i], ImageIn(host, vdisk_list[i]))
  /\ FlagsOK(vdisk_list[i], ImageIn(host, vdisk_list[i]))

(* The inductive invariant.                                                *)
IInv ==
  /\ TypeOK
  /\ Ownership
  /\ PathsUnique
  /\ ExclusiveFile
  /\ \A i \in 1 .. n_vdisk : EntryOK(i)
  /\ FsOnOpenDisk

(* A command puts e in place i of the list, i possibly new, and r2 in      *)
(* place of the resources.                                                 *)
LEMMA EntryStep ==
  ASSUME IInv, NEW i \in 1 .. n_vdisk + 1, NEW e, NEW r2,
         vdisk_list' \in Seq(Disk),
         n_vdisk' = (IF i <= n_vdisk THEN n_vdisk ELSE i),
         vdisk_list'[i] = e,
         \A j \in 1 .. n_vdisk : j # i => vdisk_list'[j] = vdisk_list[j],
         res' = r2, UNCHANGED <<host, currentVDISK, currentPartition, fs, alive>>,
         fs = None,
         WorkOK(i, e, r2, ImageIn(host, e)),
         Frame(i, res, r2),
         \A j \in 1 .. n_vdisk : j # i => vdisk_list[j].path # e.path,
         e.open => \A j \in 1 .. n_vdisk :
                     j # i /\ vdisk_list[j].open => FileOf[vdisk_list[j].path] # FileOf[e.path]
  PROVE  IInv'
<1>1. n_vdisk \in Nat /\ i \in Nat \ {0}
  BY DEF IInv, TypeOK, n_vdisk
<1>2. \A j \in 1 .. n_vdisk' : j = i \/ (j \in 1 .. n_vdisk /\ vdisk_list'[j] = vdisk_list[j])
  BY <1>1
<1>3. TypeOK'
  BY DEF IInv, TypeOK, WorkOK, ResOK, Resources
<1>4. Ownership'
  <2>1. ASSUME NEW j \in 1 .. n_vdisk'
        PROVE  EntryOwns(vdisk_list'[j], res', j)
    <3>1. CASE j = i
      BY <3>1 DEF WorkOK
    <3>2. CASE j # i
      <4>1. EntryOwns(vdisk_list[j], res, j) /\ vdisk_list[j] \in Disk
        BY <1>1, <1>2, <3>2 DEF IInv, Ownership, TypeOK, n_vdisk
      <4>2. \A x \in Id : (res[x].of = j \/ r2[x].of = j) => r2[x] = res[x]
        BY <1>1, <3>2 DEF Frame
      <4>3. EntryOwns(vdisk_list[j], r2, j)
        <5> DEFINE d == vdisk_list[j]
        <5>1. /\ d.file # None => d.file \in Id
              /\ d.mapping # None => d.mapping \in Id
          BY <4>1 DEF Disk
        <5> HIDE DEF d
        <5>2. EntryOwns(d, res, j)
          BY <4>1 DEF d
        <5>3. EntryOwns(d, r2, j)
          BY <4>2, <5>1, <5>2 DEF EntryOwns
        <5> QED
          BY <5>3 DEF d
      <4> QED
        BY <1>2, <3>2, <4>3
    <3> QED
      BY <3>1, <3>2
  <2>2. NoOrphans'
    <3>1. ASSUME NEW x \in Id
          PROVE  (r2[x].kind = "free" <=> r2[x].of = 0) /\ r2[x].of <= n_vdisk'
      <4>1. res[x].of <= n_vdisk /\ res[x].of \in Nat
        BY DEF IInv, Ownership, NoOrphans, TypeOK
      <4>2. r2[x].of \in {0, i} \/ r2[x].of = res[x].of
        BY DEF Frame
      <4>3. n_vdisk <= n_vdisk' /\ i <= n_vdisk'
        BY <1>1
      <4>4. r2[x].of <= n_vdisk'
        BY <1>1, <4>1, <4>2, <4>3
      <4> QED
        BY <4>4 DEF WorkOK, ResOK
    <3> QED
      BY <3>1 DEF NoOrphans
  <2> QED
    BY <2>1, <2>2 DEF Ownership
<1>5. PathsUnique'
  <2> SUFFICES ASSUME NEW j \in 1 .. n_vdisk', NEW k \in 1 .. n_vdisk',
                      vdisk_list'[j].path = vdisk_list'[k].path
               PROVE  j = k
    BY DEF PathsUnique
  <2>1. CASE j # i /\ k # i
    BY <1>2, <2>1 DEF IInv, PathsUnique
  <2>2. CASE j = i \/ k = i
    BY <1>2, <2>2
  <2> QED
    BY <2>1, <2>2
<1>6. ExclusiveFile'
  BY <1>1, <1>2 DEF IInv, ExclusiveFile
<1>7. \A j \in 1 .. n_vdisk' : EntryOK(j)'
  <2> SUFFICES ASSUME NEW j \in 1 .. n_vdisk'
               PROVE  EntryOK(j)'
    OBVIOUS
  <2>1. CASE j = i
    BY <2>1 DEF WorkOK, EntryOK, ImageIn
  <2>2. CASE j # i
    BY <1>2, <2>2 DEF IInv, EntryOK, ImageIn
  <2> QED
    BY <2>1, <2>2
<1>8. FsOnOpenDisk'
  BY DEF FsOnOpenDisk
<1> QED
  BY <1>3, <1>4, <1>5, <1>6, <1>7, <1>8 DEF IInv

(* CreateFile lets a path through only when no entry has its file open.    *)
LEMMA CreateExclusive ==
  ASSUME IInv, NEW p \in Path, CreateFileAllowed(host, vdisk_list, res, p)
  PROVE  /\ host[FileOf[p]] # None
         /\ \A j \in 1 .. n_vdisk :
              vdisk_list[j].open => FileOf[vdisk_list[j].path] # FileOf[p]
<1>1. host[FileOf[p]] # None
  BY DEF CreateFileAllowed
<1>2. ASSUME NEW j \in 1 .. n_vdisk, vdisk_list[j].open
      PROVE  FileOf[vdisk_list[j].path] # FileOf[p]
  <2>1. vdisk_list[j] \in Disk /\ EntryOwns(vdisk_list[j], res, j)
    BY DEF IInv, TypeOK, Ownership, n_vdisk
  <2>2. vdisk_list[j].file \in Id
    BY <1>2, <2>1 DEF EntryOwns, Disk
  <2>3. res[vdisk_list[j].file] = [kind |-> "file", of |-> j]
    BY <1>2, <2>1, <2>2, NoneAssumption DEF EntryOwns
  <2> QED
    BY <2>2, <2>3 DEF CreateFileAllowed, n_vdisk
<1> QED
  BY <1>1, <1>2

(* The file handle of an entry that held nothing.                          *)
LEMMA OpenedOK ==
  ASSUME NEW i \in Nat \ {0}, NEW r, ResOK(r), NEW x \in FreeIds(r), NEW image, image # None,
         NEW d \in Disk, d.open, ~ d.mapped, d.part = "none", d.file = x, d.mapping = None,
         d.driver = raw_driver, d.type = "raw", \A y \in Id : r[y].of # i
  PROVE  /\ WorkOK(i, d, Acquire(r, x, "file", i), image)
         /\ Frame(i, r, Acquire(r, x, "file", i))
<1> USE NoneAssumption
<1> DEFINE r2 == Acquire(r, x, "file", i)
<1>1. x \in Id /\ r[x] = Free
  BY DEF FreeIds
<1>2. /\ r2 \in [Id -> Resources]
      /\ r2[x] = [kind |-> "file", of |-> i]
      /\ \A y \in Id \ {x} : r2[y] = r[y]
  BY <1>1 DEF Acquire, ResOK, Resources
<1> HIDE DEF r2
<1>3. ResOK(r2)
  BY <1>1, <1>2 DEF ResOK
<1>4. Frame(i, r, r2)
  BY <1>1, <1>2 DEF Frame, Free
<1>5. EntryOwns(d, r2, i)
  BY <1>1, <1>2 DEF EntryOwns, raw_driver
<1>6. DriverOK(d, image) /\ FlagsOK(d, image)
  BY DEF DriverOK, FlagsOK, raw_driver
<1> QED
  BY <1>3, <1>4, <1>5, <1>6 DEF WorkOK, r2

LEMMA ResInv == IInv => ResOK(res) /\ n_vdisk \in Nat
BY DEF IInv, TypeOK, Ownership, NoOrphans, ResOK, Resources, n_vdisk

LEMMA OpenNewKeeps ==
  ASSUME IInv, NEW p \in Path, OpenVdiskPNew(p)
  PROVE  IInv'
<1> USE NoneAssumption, BoundAssumption
<1> DEFINE i == n_vdisk + 1
<1>1. PICK x \in FreeIds(res) :
        \E o \in DetectVDISKContent(i, NewDisk(p, x), Acquire(res, x, "file", i),
                                    ImageIn(host, NewDisk(p, x))) :
          vdisk_list' = Append(vdisk_list, o.disk) /\ res' = o.res
  BY DEF OpenVdiskPNew
<1> DEFINE d == NewDisk(p, x)
           r == Acquire(res, x, "file", i)
           image == ImageIn(host, d)
<1>2. PICK o \in DetectVDISKContent(i, d, r, image) :
        vdisk_list' = Append(vdisk_list, o.disk) /\ res' = o.res
  BY <1>1
<1>3. ResOK(res) /\ i \in Nat \ {0} /\ n_vdisk \in Nat
  BY ResInv
<1>4. /\ d \in Disk
      /\ d.open
      /\ ~ d.mapped
      /\ d.part = "none"
      /\ d.file = x
      /\ d.mapping = None
      /\ d.driver = raw_driver
      /\ d.type = "raw"
      /\ d.path = p
  BY DEF NewDisk, Disk, Formats, FreeIds
<1>5. image = host[FileOf[p]]
  BY <1>4 DEF ImageIn
<1>6. /\ image # None
      /\ \A j \in 1 .. n_vdisk :
           vdisk_list[j].open => FileOf[vdisk_list[j].path] # FileOf[p]
  BY <1>5, CreateExclusive DEF OpenVdiskPNew
<1>7. \A y \in Id : res[y].of # i
  <2>1. \A y \in Id : res[y].of \in Nat /\ res[y].of <= n_vdisk
    BY DEF IInv, Ownership, NoOrphans, TypeOK
  <2> QED
    BY <1>3, <2>1
<1> HIDE DEF d, image
<1>8. WorkOK(i, d, r, image) /\ Frame(i, res, r)
  <2> HIDE DEF i
  <2> QED
    BY <1>3, <1>4, <1>6, <1>7, OpenedOK
<1>9. Kept(i, d, r, image, o)
  <2> HIDE DEF r, i
  <2> QED
    BY <1>2, <1>3, <1>4, <1>8, DetectKeeps
<1>10. WorkOK(i, o.disk, o.res, ImageIn(host, o.disk)) /\ o.disk.path = p
  BY <1>4, <1>5, <1>9 DEF Kept, SameTable, ImageIn
<1>11. Frame(i, res, o.res)
  <2> HIDE DEF r, i
  <2> QED
    BY <1>3, <1>8, <1>9, FrameTransitive DEF Kept, WorkOK
<1>12. /\ vdisk_list' \in Seq(Disk)
       /\ n_vdisk' = i
       /\ vdisk_list'[i] = o.disk
       /\ \A j \in 1 .. n_vdisk : vdisk_list'[j] = vdisk_list[j]
  BY <1>2, <1>10 DEF IInv, TypeOK, n_vdisk, WorkOK
<1>13. /\ UNCHANGED <<host, currentVDISK, currentPartition, fs, alive>>
       /\ fs = None
       /\ \A j \in 1 .. n_vdisk : vdisk_list[j].path # p
  BY DEF OpenVdiskPNew, CommandContext, Listed
<1>14. /\ i \in 1 .. n_vdisk + 1
       /\ n_vdisk' = (IF i <= n_vdisk THEN n_vdisk ELSE i)
  BY <1>3, <1>12
<1> DEFINE e == o.disk
           r2 == o.res
<1>15. /\ vdisk_list'[i] = e
       /\ \A j \in 1 .. n_vdisk : j # i => vdisk_list'[j] = vdisk_list[j]
       /\ res' = r2
  BY <1>2, <1>12
<1>16. /\ WorkOK(i, e, r2, ImageIn(host, e))
       /\ Frame(i, res, r2)
  BY <1>10, <1>11
<1>17. /\ \A j \in 1 .. n_vdisk : j # i => vdisk_list[j].path # e.path
       /\ e.open => \A j \in 1 .. n_vdisk :
                      j # i /\ vdisk_list[j].open => FileOf[vdisk_list[j].path] # FileOf[e.path]
  BY <1>6, <1>10, <1>13
<1> HIDE DEF i, r, e, r2
<1> HIDE NoneAssumption, BoundAssumption
<1> QED
  BY <1>12, <1>13, <1>14, <1>15, <1>16, <1>17, EntryStep

LEMMA ReopenWork ==
  ASSUME IInv, NEW i \in 1 .. n_vdisk, OpenVdiskI(i)
  PROVE  \E o : /\ vdisk_list' = [vdisk_list EXCEPT ![i] = o.disk]
                /\ res' = o.res
                /\ o.disk.path = vdisk_list[i].path
                /\ WorkOK(i, o.disk, o.res, ImageIn(host, o.disk))
                /\ Frame(i, res, o.res)
<1> USE NoneAssumption
<1> DEFINE old == vdisk_list[i]
           image == ImageIn(host, old)
<1>1. PICK x \in FreeIds(res) :
        \E o \in DetectVDISKContent(i, ReopenedDisk(old, x), Acquire(res, x, "file", i), image) :
          vdisk_list' = [vdisk_list EXCEPT ![i] = o.disk] /\ res' = o.res
  BY DEF OpenVdiskI
<1> DEFINE d == ReopenedDisk(old, x)
           r == Acquire(res, x, "file", i)
<1>2. PICK o \in DetectVDISKContent(i, d, r, image) :
        vdisk_list' = [vdisk_list EXCEPT ![i] = o.disk] /\ res' = o.res
  BY <1>1
<1>3. ResOK(res) /\ i \in Nat \ {0} /\ n_vdisk \in Nat
  BY ResInv
<1>4. /\ old \in Disk
      /\ EntryOwns(old, res, i)
      /\ FlagsOK(old, image)
      /\ ~ old.open
  BY DEF IInv, TypeOK, Ownership, EntryOK, n_vdisk, OpenVdiskI
<1>5. /\ old.file = None
      /\ old.mapping = None
      /\ old.driver = None
      /\ ~ old.mapped
      /\ old.part = "none"
  BY <1>4 DEF EntryOwns, FlagsOK
<1>6. /\ d \in Disk
      /\ d.open
      /\ ~ d.mapped
      /\ d.part = "none"
      /\ d.file = x
      /\ d.mapping = None
      /\ d.driver = raw_driver
      /\ d.type = "raw"
      /\ d.path = old.path
  <2> HIDE DEF old
  <2> QED
    BY <1>4, <1>5 DEF ReopenedDisk, Disk, Formats, FreeIds
<1>7. image # None
  BY <1>4, CreateExclusive DEF OpenVdiskI, ImageIn, Disk
<1>8. \A y \in Id : res[y].of # i
  BY <1>4, <1>5 DEF EntryOwns
<1>9. WorkOK(i, d, r, image) /\ Frame(i, res, r)
  <2> HIDE DEF d, image
  <2> QED
    BY <1>3, <1>6, <1>7, <1>8, OpenedOK
<1>10. Kept(i, d, r, image, o)
  <2> HIDE DEF d, r, image
  <2> QED
    BY <1>2, <1>3, <1>6, <1>9, DetectKeeps
<1>11. o.disk.path = old.path
  <2> HIDE DEF d, old
  <2> QED
    BY <1>6, <1>10 DEF Kept, SameTable
<1>12. WorkOK(i, o.disk, o.res, ImageIn(host, o.disk))
  BY <1>10, <1>11 DEF Kept, ImageIn
<1>13. Frame(i, res, o.res)
  <2> HIDE DEF d, r, image
  <2> QED
    BY <1>3, <1>9, <1>10, FrameTransitive DEF Kept, WorkOK
<1> QED
  BY <1>2, <1>11, <1>12, <1>13

LEMMA ReopenKeepsPath ==
  ASSUME IInv, NEW i \in 1 .. n_vdisk, OpenVdiskI(i)
  PROVE  \E e : /\ vdisk_list' = [vdisk_list EXCEPT ![i] = e]
                /\ e.path = vdisk_list[i].path
BY ReopenWork

LEMMA OpenIndexKeeps ==
  ASSUME IInv, NEW i \in 1 .. n_vdisk, OpenVdiskI(i)
  PROVE  IInv'
<1> DEFINE old == vdisk_list[i]
<1>1. PICK o : /\ vdisk_list' = [vdisk_list EXCEPT ![i] = o.disk]
               /\ res' = o.res
               /\ o.disk.path = old.path
               /\ WorkOK(i, o.disk, o.res, ImageIn(host, o.disk))
               /\ Frame(i, res, o.res)
  BY ReopenWork
<1>2. \A j \in 1 .. n_vdisk : vdisk_list[j].open => FileOf[vdisk_list[j].path] # FileOf[old.path]
  <2>1. old \in Disk
    BY DEF IInv, TypeOK, n_vdisk
  <2> QED
    BY <2>1, CreateExclusive DEF OpenVdiskI, Disk
<1>3. /\ vdisk_list' \in Seq(Disk)
      /\ n_vdisk' = n_vdisk
      /\ vdisk_list'[i] = o.disk
      /\ \A j \in 1 .. n_vdisk : j # i => vdisk_list'[j] = vdisk_list[j]
  BY <1>1 DEF IInv, TypeOK, n_vdisk, WorkOK
<1>4. /\ UNCHANGED <<host, currentVDISK, currentPartition, fs, alive>>
      /\ fs = None
      /\ \A j \in 1 .. n_vdisk : j # i => vdisk_list[j].path # old.path
  BY DEF OpenVdiskI, CommandContext, IInv, PathsUnique
<1>5. i \in 1 .. n_vdisk + 1 /\ i <= n_vdisk
  BY ResInv
<1> HIDE DEF old
<1> QED
  BY <1>1, <1>2, <1>3, <1>4, <1>5, EntryStep

LEMMA OpenFailsKeeps ==
  ASSUME IInv, NEW p \in Path, OpenVdiskPFails(p)
  PROVE  UNCHANGED vars
<1>1. PICK x \in FreeIds(res) : res' = Release(Acquire(res, x, "file", n_vdisk + 1), x)
  BY DEF OpenVdiskPFails
<1>2. res' = res
  BY <1>1, ResInv DEF Release, Acquire, FreeIds, ResOK
<1> QED
  BY <1>2 DEF OpenVdiskPFails, vars

LEMMA CloseStepKeeps ==
  ASSUME IInv, NEW i \in 1 .. n_vdisk, CloseVDISK(i)
  PROVE  IInv'
<1> DEFINE d == vdisk_list[i]
           image == ImageIn(host, d)
           o == CloseVDISKInternal(d, res)
<1>1. ResOK(res) /\ i \in Nat \ {0} /\ n_vdisk \in Nat
  BY ResInv
<1>2. d.open /\ WorkOK(i, d, res, image)
  BY <1>1 DEF IInv, TypeOK, Ownership, EntryOK, WorkOK, n_vdisk, CloseVDISK
<1>3. vdisk_list' = [vdisk_list EXCEPT ![i] = o.disk] /\ res' = o.res
  BY DEF CloseVDISK
<1>4. Kept(i, d, res, image, o) /\ ~ o.disk.open
  <2> HIDE DEF d, image
  <2> QED
    BY <1>1, <1>2, CloseKeeps
<1> HIDE DEF o
<1>5. /\ o.disk.path = d.path
      /\ Frame(i, res, o.res)
      /\ WorkOK(i, o.disk, o.res, ImageIn(host, o.disk))
  BY <1>4 DEF Kept, SameTable, ImageIn
<1>6. /\ vdisk_list' \in Seq(Disk)
      /\ n_vdisk' = n_vdisk
      /\ vdisk_list'[i] = o.disk
      /\ \A j \in 1 .. n_vdisk : j # i => vdisk_list'[j] = vdisk_list[j]
  BY <1>3, <1>5 DEF IInv, TypeOK, n_vdisk, WorkOK
<1>7. /\ UNCHANGED <<host, currentVDISK, currentPartition, fs, alive>>
      /\ fs = None
      /\ \A j \in 1 .. n_vdisk : j # i => vdisk_list[j].path # d.path
  BY DEF CloseVDISK, CommandContext, IInv, PathsUnique
<1>8. i \in 1 .. n_vdisk + 1 /\ i <= n_vdisk
  BY <1>1
<1> HIDE DEF d
<1> QED
  BY <1>3, <1>4, <1>5, <1>6, <1>7, <1>8, EntryStep

LEMMA ListPartitionsKeeps ==
  ASSUME IInv, ListPartitions
  PROVE  IInv'
<1> USE BoundAssumption, NoneAssumption
<1> DEFINE i == currentVDISK
           d == vdisk_list[i]
           image == ImageIn(host, d)
           e == [d EXCEPT !.partitions = image, !.n_partitions = image.parts]
<1>1. /\ i \in 1 .. n_vdisk
      /\ n_vdisk \in Nat
      /\ d.open
      /\ ResOK(res)
  BY ResInv DEF ListPartitions, CurrentOpen, CurrentDisk, IInv, TypeOK
<1>2. WorkOK(i, d, res, image)
  BY <1>1 DEF IInv, TypeOK, Ownership, EntryOK, WorkOK, n_vdisk
<1>3. image \in Image /\ image.parts \in 0 .. MaxParts
  <2>1. FileOf[d.path] \in File
    BY <1>2, FileOfAssumption DEF WorkOK, Disk
  <2>2. image \in Image
    BY <1>1, <1>2, <2>1 DEF WorkOK, FlagsOK, ImageIn, IInv, TypeOK
  <2> QED
    BY <2>2, ImageAssumption DEF ImageKinds
<1>4. vdisk_list' = [vdisk_list EXCEPT ![i] = e]
  BY <1>1 DEF ListPartitions, CurrentDisk, IInv, TypeOK, n_vdisk
<1>5. /\ e \in Disk
      /\ e.open <=> d.open
      /\ e.mapped <=> d.mapped
      /\ e.file = d.file
      /\ e.mapping = d.mapping
      /\ e.driver = d.driver
      /\ e.part = d.part
      /\ e.type = d.type
      /\ e.path = d.path
  <2> HIDE DEF d, image
  <2> QED
    BY <1>2, <1>3 DEF WorkOK, Disk
<1> HIDE DEF e, d
<1>6. EntryOwns(e, res, i)
  BY <1>2, <1>5 DEF WorkOK, EntryOwns
<1>7. DriverOK(e, image) /\ FlagsOK(e, image)
  <2>1. DriverOK(e, image)
    BY <1>2, <1>5 DEF WorkOK, DriverOK
  <2>2. FlagsOK(e, image)
    BY <1>2, <1>5 DEF WorkOK, FlagsOK
  <2> QED
    BY <2>1, <2>2
<1>8. WorkOK(i, e, res, ImageIn(host, e)) /\ Frame(i, res, res)
  BY <1>1, <1>5, <1>6, <1>7 DEF WorkOK, ImageIn, Frame
<1>9. /\ vdisk_list' \in Seq(Disk)
      /\ n_vdisk' = n_vdisk
      /\ vdisk_list'[i] = e
      /\ \A j \in 1 .. n_vdisk : j # i => vdisk_list'[j] = vdisk_list[j]
  BY <1>1, <1>4, <1>5 DEF IInv, TypeOK, n_vdisk
<1>10. /\ UNCHANGED <<host, currentVDISK, currentPartition, fs, alive>>
       /\ res' = res
       /\ fs = None
       /\ \A j \in 1 .. n_vdisk : j # i => vdisk_list[j].path # e.path
  BY <1>1, <1>5 DEF ListPartitions, CommandContext, IInv, PathsUnique, d
<1>11. \A j \in 1 .. n_vdisk :
         j # i /\ vdisk_list[j].open => FileOf[vdisk_list[j].path] # FileOf[e.path]
  BY <1>1, <1>5 DEF IInv, ExclusiveFile, d
<1>12. i \in 1 .. n_vdisk + 1 /\ i <= n_vdisk
  BY <1>1
<1> HIDE DEF i, image
<1> QED
  BY <1>8, <1>9, <1>10, <1>11, <1>12, EntryStep

(* Commands that touch neither the list nor the resources nor the host.    *)
LEMMA SelectionKeeps ==
  ASSUME IInv, UNCHANGED <<host, vdisk_list, res>>, TypeOK', FsOnOpenDisk'
  PROVE  IInv'
BY DEF IInv, Ownership, NoOrphans, PathsUnique, ExclusiveFile, EntryOK, n_vdisk, EntryOwns

LEMMA HostKeeps ==
  ASSUME IInv, NEW f \in File, HostChanges(f)
  PROVE  IInv'
<1> USE NoneAssumption
<1>1. PICK image \in Image \cup {None} : host' = [host EXCEPT ![f] = image]
  BY DEF HostChanges
<1>2. UNCHANGED <<vdisk_list, res, currentVDISK, currentPartition, fs, alive>>
  BY DEF HostChanges
<1>3. TypeOK'
  BY <1>1, <1>2 DEF IInv, TypeOK
<1>4. \A i \in 1 .. n_vdisk' : EntryOK(i)'
  <2> SUFFICES ASSUME NEW i \in 1 .. n_vdisk
               PROVE  EntryOK(i)'
    BY <1>2 DEF n_vdisk
  <2> DEFINE d == vdisk_list[i]
  <2>1. /\ d \in Disk
        /\ FileOf[d.path] \in File
        /\ EntryOwns(d, res, i)
        /\ DriverOK(d, ImageIn(host, d))
        /\ FlagsOK(d, ImageIn(host, d))
    <3>1. d \in Disk
      BY DEF IInv, TypeOK, n_vdisk
    <3>2. FileOf[d.path] \in File
      BY <3>1, FileOfAssumption DEF Disk
    <3>3. EntryOwns(d, res, i) /\ EntryOK(i)
      BY DEF IInv, Ownership
    <3> QED
      BY <3>1, <3>2, <3>3 DEF EntryOK
  <2>2. CASE d.open
    <3>1. ImageIn(host', d) = ImageIn(host, d)
      BY <1>1, <2>1, <2>2 DEF HostChanges, IInv, TypeOK, ImageIn
    <3> QED
      BY <1>2, <2>1, <3>1 DEF EntryOK
  <2>3. CASE ~ d.open
    <3>1. d.driver = None /\ d.part = "none" /\ d.type = "raw"
      BY <2>1, <2>3 DEF EntryOwns, FlagsOK, DriverOK
    <3>2. DriverOK(d, ImageIn(host', d)) /\ FlagsOK(d, ImageIn(host', d))
      BY <2>3, <3>1 DEF FlagsOK, DriverOK
    <3> QED
      BY <1>2, <3>2 DEF EntryOK
  <2> QED
    BY <2>2, <2>3
<1>5. (Ownership /\ PathsUnique /\ ExclusiveFile /\ FsOnOpenDisk)'
  BY <1>2 DEF IInv, Ownership, NoOrphans, EntryOwns, PathsUnique, ExclusiveFile, FsOnOpenDisk,
              PartitionReadable, PartitionListed, n_vdisk
<1> QED
  BY <1>3, <1>4, <1>5 DEF IInv

-----------------------------------------------------------------------------
LEMMA InitOK == Init => IInv
<1> SUFFICES ASSUME Init
             PROVE  IInv
  OBVIOUS
<1>1. TypeOK
  BY DEF Init, TypeOK, Free
<1>2. n_vdisk = 0
  BY DEF Init, n_vdisk
<1>3. NoOrphans
  BY <1>2 DEF Init, NoOrphans, Free
<1> QED
  BY <1>1, <1>2, <1>3 DEF Init, IInv, Ownership, PathsUnique, ExclusiveFile, FsOnOpenDisk

LEMMA NextKeeps == IInv /\ [Next]_vars => IInv'
<1> SUFFICES ASSUME IInv, [Next]_vars
             PROVE  IInv'
  OBVIOUS
<1>1. ASSUME UNCHANGED vars
      PROVE  IInv'
  <2>1. UNCHANGED <<host, vdisk_list, res, currentVDISK, currentPartition, fs, alive>>
    BY <1>1 DEF vars
  <2>2. TypeOK' /\ FsOnOpenDisk'
    BY <2>1 DEF IInv, TypeOK, FsOnOpenDisk, PartitionReadable, PartitionListed, n_vdisk
  <2> QED
    BY <2>1, <2>2, SelectionKeeps
<1>2. ASSUME NEW p \in Path, OpenVdiskPNew(p)
      PROVE  IInv'
  BY <1>2, OpenNewKeeps
<1>3. ASSUME NEW p \in Path, OpenVdiskPFails(p)
      PROVE  IInv'
  BY <1>1, <1>3, OpenFailsKeeps
<1>4. ASSUME NEW i \in 1 .. n_vdisk, OpenVdiskI(i)
      PROVE  IInv'
  BY <1>4, OpenIndexKeeps
<1>5. ASSUME NEW i \in 1 .. n_vdisk, CloseVDISK(i)
      PROVE  IInv'
  BY <1>5, CloseStepKeeps
<1>6. ASSUME NEW i \in 1 .. n_vdisk, SelectVdisk(i)
      PROVE  IInv'
  <2>1. UNCHANGED <<host, vdisk_list, res, fs>> /\ fs = None
    BY <1>6 DEF SelectVdisk, CommandContext
  <2>2. TypeOK'
    BY <1>6, <2>1, ResInv DEF SelectVdisk, IInv, TypeOK
  <2> QED
    BY <2>1, <2>2, SelectionKeeps DEF FsOnOpenDisk
<1>7. CASE ListPartitions
  BY <1>7, ListPartitionsKeeps
<1>8. ASSUME NEW index \in 0 .. MaxParts, SelectPartition(index)
      PROVE  IInv'
  <2>1. UNCHANGED <<host, vdisk_list, res, fs>> /\ fs = None
    BY <1>8 DEF SelectPartition, CommandContext
  <2>2. TypeOK'
    BY <1>8, <2>1 DEF SelectPartition, IInv, TypeOK
  <2> QED
    BY <2>1, <2>2, SelectionKeeps DEF FsOnOpenDisk
<1>9. CASE EnterFS
  <2>1. UNCHANGED <<host, vdisk_list, res, currentVDISK, currentPartition>>
    BY <1>9 DEF EnterFS
  <2>2. TypeOK'
    BY <1>9, <2>1 DEF EnterFS, IInv, TypeOK
  <2>3. FsOnOpenDisk'
    <3>1. currentVDISK \in 1 .. n_vdisk
      BY <1>9, ResInv DEF EnterFS, IInv, TypeOK
    <3> QED
      BY <1>9, <2>1, <3>1 DEF EnterFS, FsOnOpenDisk, CurrentDisk, n_vdisk, PartitionReadable,
                              PartitionListed
  <2> QED
    BY <2>1, <2>2, <2>3, SelectionKeeps
<1>10. CASE EnterNullDriver
  <2>1. UNCHANGED <<host, vdisk_list, res, fs>> /\ fs = None
    BY <1>10 DEF EnterNullDriver, CommandContext
  <2>2. TypeOK'
    BY <1>10, <2>1 DEF EnterNullDriver, IInv, TypeOK
  <2> QED
    BY <2>1, <2>2, SelectionKeeps DEF FsOnOpenDisk
<1>11. CASE ExitFS
  <2>1. UNCHANGED <<host, vdisk_list, res>> /\ fs' = None
    BY <1>11 DEF ExitFS
  <2>2. TypeOK'
    BY <1>11, <2>1 DEF ExitFS, IInv, TypeOK
  <2> QED
    BY <2>1, <2>2, SelectionKeeps DEF FsOnOpenDisk
<1>12. ASSUME NEW f \in File, HostChanges(f)
       PROVE  IInv'
  BY <1>12, HostKeeps
<1> QED
  BY <1>1, <1>2, <1>3, <1>4, <1>5, <1>6, <1>7, <1>8, <1>9, <1>10, <1>11, <1>12 DEF Next

(* Everything below follows from this invariant.                           *)
THEOREM Invariance == Spec => []IInv
BY InitOK, NextKeeps, PTL DEF Spec

(* The state of vdisk.c always has its type: for instance no entry ends    *)
(* with a partition count without a table of that size.                    *)
THEOREM TypeCorrect == Spec => []TypeOK
<1>1. IInv => TypeOK
  BY DEF IInv
<1> QED
  BY <1>1, Invariance, PTL

(* No sequence of commands, failing or not, leaks a kernel handle or a     *)
(* driver instance, or leaves an entry with one that was freed.            *)
THEOREM NoLeakNoDangling == Spec => []Ownership
<1>1. IInv => Ownership
  BY DEF IInv
<1> QED
  BY <1>1, Invariance, PTL

(* A path is listed once, whatever is opened, closed and reopened.         *)
THEOREM OneIndexPerPath == Spec => []PathsUnique
<1>1. IInv => PathsUnique
  BY DEF IInv
<1> QED
  BY <1>1, Invariance, PTL

(* Two open disks never share a host file, also under two names.           *)
THEOREM OpenExclusive == Spec => []ExclusiveFile
<1>1. IInv => ExclusiveFile
  BY DEF IInv
<1> QED
  BY <1>1, Invariance, PTL

(* A VHD driver instance always stands on a mapped image of its type.      *)
THEOREM DriversMapped == Spec => []VhdDriverMapped
<1>1. IInv => VhdDriverMapped
  BY DEF IInv, EntryOK, DriverOK, VhdDriverMapped
<1> QED
  BY <1>1, Invariance, PTL

(* The GPT and MBR flags agree with what the installed driver shows.       *)
THEOREM FlagsTrusted == Spec => []FlagsMatchDriver
<1>1. IInv => FlagsMatchDriver
  BY DEF IInv, EntryOK, FlagsOK, FlagsMatchDriver
<1> QED
  BY <1>1, Invariance, PTL

(* The file system context only ever works on an open, mapped disk and a   *)
(* partition it can read.                                                  *)
THEOREM ContextSafe == Spec => []FsOnOpenDisk
<1>1. IInv => FsOnOpenDisk
  BY DEF IInv
<1> QED
  BY <1>1, Invariance, PTL

(* Each command works on the entry it names and on no other.               *)
THEOREM OneEntry == Spec => OneEntryPerCommand
<1> DEFINE Step == /\ n_vdisk' \in {n_vdisk, n_vdisk + 1}
                   /\ \A i \in 1 .. n_vdisk : vdisk_list'[i].path = vdisk_list[i].path
                   /\ \A i, j \in 1 .. n_vdisk :
                        vdisk_list'[i] # vdisk_list[i] /\ vdisk_list'[j] # vdisk_list[j] => i = j
<1>1. ASSUME IInv, [Next]_vars
      PROVE  [Step]_vars
  <2>1. IInv'
    BY <1>1, NextKeeps
  <2>2. n_vdisk \in Nat /\ vdisk_list \in Seq(Disk) /\ vdisk_list' \in Seq(Disk)
    BY <1>1, <2>1 DEF IInv, TypeOK, n_vdisk
  <2>3. CASE UNCHANGED vdisk_list
    BY <2>2, <2>3 DEF n_vdisk
  <2>4. ASSUME NEW p \in Path, OpenVdiskPNew(p)
        PROVE  Step
    BY <2>2, <2>4 DEF OpenVdiskPNew, n_vdisk
  <2>5. ASSUME NEW k \in 1 .. n_vdisk, NEW e, e.path = vdisk_list[k].path,
               vdisk_list' = [vdisk_list EXCEPT ![k] = e]
        PROVE  Step
    BY <2>2, <2>5 DEF n_vdisk
  <2>6. ASSUME NEW k \in 1 .. n_vdisk, OpenVdiskI(k)
        PROVE  Step
    BY <1>1, <2>5, <2>6, ReopenKeepsPath
  <2>7. ASSUME NEW k \in 1 .. n_vdisk, CloseVDISK(k)
        PROVE  Step
    <3>1. CloseVDISKInternal(vdisk_list[k], res).disk.path = vdisk_list[k].path
      BY <2>2 DEF CloseVDISKInternal, Outcome, CloseDisk, Disk, n_vdisk
    <3> QED
      BY <2>5, <2>7, <3>1 DEF CloseVDISK
  <2>8. CASE ListPartitions
    <3>1. currentVDISK \in 1 .. n_vdisk
      BY <1>1, <2>8, ResInv DEF ListPartitions, CurrentOpen, IInv, TypeOK
    <3> DEFINE d == vdisk_list[currentVDISK]
               image == ImageIn(host, d)
               e == [d EXCEPT !.partitions = image, !.n_partitions = image.parts]
    <3>2. vdisk_list' = [vdisk_list EXCEPT ![currentVDISK] = e]
      BY <2>2, <2>8, <3>1 DEF ListPartitions, CurrentDisk, n_vdisk
    <3>3. e.path = d.path
      <4>1. d \in Disk
        BY <2>2, <3>1 DEF n_vdisk
      <4> HIDE DEF d, image
      <4> QED
        BY <4>1 DEF Disk
    <3> HIDE DEF e
    <3> QED
      BY <2>5, <3>1, <3>2, <3>3
  <2> QED
    BY <1>1, <2>3, <2>4, <2>6, <2>7, <2>8
       DEF Next, vars, OpenVdiskPFails, SelectVdisk, SelectPartition, EnterFS, EnterNullDriver,
           ExitFS, HostChanges
<1> QED
  BY <1>1, Invariance, PTL DEF Spec, OneEntryPerCommand
=============================================================================
