------------------------------ MODULE FatChain ------------------------------
(***************************************************************************)
(* How the FAT32 driver reads a chain of clusters: getFat32FileSize walks  *)
(* the chain to know its size, then readFat32Data walks it again and       *)
(* copies it run by run.  Both hold a window of FAT_CACHE_SIZE entries of  *)
(* the table and load another one when the chain leaves it.                *)
(*                                                                         *)
(* Sizes count clusters, and size_t arithmetic is modulo Word clusters.    *)
(* The table is any table: 1 is an entry below 2, NClus one that is out of *)
(* range, and Bad + 1 an end of chain.  It does not change during a call,  *)
(* because the file is open for this process alone.                        *)
(***************************************************************************)
EXTENDS Integers, Sequences

CONSTANTS
  NClus,        \* n_clus, the entries of the table
  Bad,          \* 0x0FFFFFF7
  CacheSize,    \* FAT_CACHE_SIZE
  MaxClusters,  \* 0x100000000 bytes
  Word          \* 2^64 bytes

ASSUME SizesAssumption ==
  /\ NClus \in Nat /\ NClus > 2 /\ Bad \in Nat /\ Bad > NClus
  /\ CacheSize \in Nat \ {0} /\ MaxClusters \in Nat \ {0}
  /\ Word \in Nat /\ Word > NClus + CacheSize

VARIABLES
  table,    \* the file allocation table
  pc,       \* "idle", "size" or "read" for the two loops, "crashed"
  start,    \* cluster_start
  base,     \* start_clus, the first entry of the window
  current,  \* the entry of the window that is looked at
  size,     \* size, sz
  fc, lc,   \* the first and the last cluster of the run
  data,     \* the clusters copied to dta
  result    \* what the last call returned

vars == <<table, pc, start, base, current, size, fc, lc, data, result>>

-----------------------------------------------------------------------------
Clusters == 2 .. NClus - 1

TypeOK ==
  /\ table \in [Clusters -> 1 .. Bad + 1]
  /\ pc \in {"idle", "size", "read", "crashed"}
  /\ start \in Clusters /\ base \in Clusters /\ current \in Nat
  /\ size \in 1 .. MaxClusters
  /\ fc \in Clusters /\ lc \in Clusters
  /\ data \in Seq(Clusters)
  /\ result \in {"none", "ok", "size", "error"}

Init ==
  /\ table \in [Clusters -> 1 .. Bad + 1]
  /\ pc = "idle"
  /\ start = 2 /\ base = 2 /\ current = 0
  /\ size = 1
  /\ fc = 2 /\ lc = 2
  /\ data = <<>>
  /\ result = "none"

(* cc: the entry the loop is at.                                           *)
Entry == table[base + current]

EndOfChain(e) == e > Bad

InRange(e) == e >= 2 /\ e < NClus

(* dif: how far an entry is behind the first of the window; before it, the *)
(* unsigned difference is larger than any window.                          *)
Distance(e) == (e - base) % Word

\* mutant: the difference as a signed number
CachedSigned(e) == e - base < CacheSize

Cached(e) == Distance(e) < CacheSize

MoveTo(e) ==
  IF Cached(e) THEN current' = Distance(e) /\ UNCHANGED base
               ELSE current' = 0 /\ base' = e

-----------------------------------------------------------------------------
Return(r) == pc' = "idle" /\ result' = r

\* mutant: the cluster the chain starts with is not counted
CallEmpty(c) ==
  /\ pc = "idle"
  /\ InRange(c)
  /\ pc' = "size"
  /\ start' = c /\ base' = c /\ current' = 0 /\ fc' = c /\ lc' = c
  /\ size' = 0
  /\ data' = <<>>
  /\ result' = "none"
  /\ UNCHANGED table

(* A call, up to the loop of getFat32FileSize.                             *)
Call(c) ==
  /\ pc = "idle"
  /\ InRange(c)
  /\ pc' = "size"
  /\ start' = c /\ base' = c /\ current' = 0 /\ fc' = c /\ lc' = c
  /\ size' = 1
  /\ data' = <<>>
  /\ result' = "none"
  /\ UNCHANGED table

(* No such cluster, no memory, or the window cannot be read.               *)
CallFails ==
  /\ pc = "idle"
  /\ Return("error")
  /\ UNCHANGED <<table, start, base, current, size, fc, lc, data>>

\* mutant: a step within the window is not counted
SizeStepOutside ==
  /\ pc = "size"
  /\ InRange(Entry)
  /\ size < MaxClusters
  /\ size' = IF Cached(Entry) THEN size ELSE size + 1
  /\ MoveTo(Entry)
  /\ UNCHANGED <<table, pc, start, fc, lc, data, result>>

SizeStep ==
  /\ pc = "size"
  /\ InRange(Entry)
  /\ size < MaxClusters
  /\ size' = size + 1
  /\ MoveTo(Entry)
  /\ UNCHANGED <<table, pc, start, fc, lc, data, result>>

(* The size is known; readFat32Data starts again from the first cluster.   *)
SizeFound ==
  /\ pc = "size"
  /\ EndOfChain(Entry)
  /\ pc' = "read"
  /\ base' = start /\ current' = 0
  /\ UNCHANGED <<table, start, size, fc, lc, data, result>>

(* FSSize in fat32GetInfo only asks for the size.                          *)
SizeReturned ==
  /\ pc = "size"
  /\ EndOfChain(Entry)
  /\ Return("size")
  /\ UNCHANGED <<table, start, base, current, size, fc, lc, data>>

(* A bad entry, a chain above the limit, a window that cannot be read, or  *)
(* no memory for the data of the chain.                                    *)
SizeFails ==
  /\ pc = "size"
  /\ \/ ~ InRange(Entry)
     \/ size >= MaxClusters
     \/ ~ Cached(Entry)
  /\ Return("error")
  /\ UNCHANGED <<table, start, base, current, size, fc, lc, data>>

-----------------------------------------------------------------------------
(* len: the clusters asked for, with the ends of the run swapped.          *)
Asked == (fc - lc + 1) % Word

\* mutant: a run ends only where the chain goes back
RunEndsBack(e) == EndOfChain(e) \/ (InRange(e) /\ e < lc)

RunEnds(e) == EndOfChain(e) \/ (InRange(e) /\ e # lc + 1)

(* The run is copied, as far as it was asked for.  The dynamic VHD driver  *)
(* refuses a length of 0, the others do nothing (and dta does not move).   *)
CopyRun ==
  \/ Asked = 1 /\ data' = Append(data, fc)
  \/ Asked = 0 /\ UNCHANGED data

(* Where the next cluster is not adjacent, the run is copied ...           *)
ReadBreak ==
  /\ pc = "read"
  /\ InRange(Entry) /\ RunEnds(Entry)
  /\ CopyRun
  /\ fc' = Entry /\ lc' = Entry
  /\ MoveTo(Entry)
  /\ UNCHANGED <<table, pc, start, size, result>>

(* ... and otherwise it grows.                                             *)
ReadAdjacent ==
  /\ pc = "read"
  /\ InRange(Entry) /\ ~ RunEnds(Entry)
  /\ lc' = Entry
  /\ MoveTo(Entry)
  /\ UNCHANGED <<table, pc, start, size, fc, data, result>>

\* mutant: the last run is not copied
ReadEndSkipsRun ==
  /\ pc = "read"
  /\ EndOfChain(Entry)
  /\ Return("ok")
  /\ UNCHANGED <<table, start, base, current, size, fc, lc, data>>

ReadEnd ==
  /\ pc = "read"
  /\ EndOfChain(Entry)
  /\ CopyRun
  /\ Return("ok")
  /\ UNCHANGED <<table, start, base, current, size, fc, lc>>

(* The entry is bad, the run is refused or the window cannot be read.      *)
ReadFails ==
  /\ pc = "read"
  /\ \/ ~ InRange(Entry)
     \/ RunEnds(Entry)
     \/ ~ Cached(Entry)
  /\ Return("error")
  /\ UNCHANGED <<table, start, base, current, size, fc, lc, data>>

(* A length that wrapped around passes the checks of partitionRead and of  *)
(* the driver if offset + length wraps too, and the copy leaves memory.    *)
ReadCrashes ==
  /\ pc = "read"
  /\ RunEnds(Entry)
  /\ Asked \notin {0, 1}
  /\ pc' = "crashed"
  /\ UNCHANGED <<table, start, base, current, size, fc, lc, data, result>>

Step ==
  \/ SizeStep
  \/ SizeFound
  \/ SizeReturned
  \/ SizeFails
  \/ ReadAdjacent
  \/ ReadBreak
  \/ ReadEnd
  \/ ReadFails
  \/ ReadCrashes

Next ==
  \/ \E c \in Clusters : Call(c)
  \/ CallFails
  \/ Step

Spec == Init /\ [][Next]_vars

(* A call that has begun goes on: the program has one thread, and nothing  *)
(* in the two loops waits.                                                 *)
FairSpec == Spec /\ WF_vars(Step)

-----------------------------------------------------------------------------
(* The first n clusters of the chain from start, if it has as many.        *)
Path(n) ==
  {s \in [1 .. n -> Clusters] :
     /\ n > 0 => s[1] = start
     /\ \A i \in 1 .. n - 1 : s[i + 1] = table[s[i]]}

Fragmented(s) == \A i \in 1 .. Len(s) - 1 : s[i + 1] # s[i] + 1

(* The window entry that is looked at is in the window, and in the second  *)
(* loop it is the entry of the last cluster of the run, however the chain  *)
(* jumps back and forth (current, start_clus).                             *)
WindowFollows ==
  /\ current < CacheSize
  /\ pc = "read" => base + current = lc

(* The size of a chain is the number of its clusters up to the end mark,   *)
(* also if it has been through many windows (getFat32FileSize).            *)
SizeIsChain ==
  pc = "read" \/ result \in {"ok", "size"} =>
    \E s \in Path(size) : size > 0 /\ EndOfChain(table[s[size]])

(* The run about to be copied lies in the chain: each of its clusters but  *)
(* the last leads to the next one (fc, lc in readFat32Data).               *)
RunIsConsecutive ==
  pc = "read" => fc <= lc /\ \A c \in fc .. lc - 1 : table[c] = c + 1

(* The buffer that was made for the size of the first walk has room for    *)
(* another cluster whenever the second is about to copy one (dta).         *)
BufferHolds ==
  /\ pc = "read" => Len(data) < size
  /\ result = "ok" => Len(data) <= size

(* If no two clusters of the chain are adjacent and the call succeeds, the *)
(* data is that of the chain, cluster by cluster (readFat32Data).          *)
FragmentedRead ==
  result = "ok" => \A s \in Path(size) : Fragmented(s) => data = s

(* Every call ends, also on a table with cycles (the limit of the size).   *)
CallEnds == pc \in {"size", "read"} ~> pc \notin {"size", "read"}

(* What is left of a call: clusters to count, then clusters from the one   *)
(* the second loop is at to the end of the chain.                          *)
Place == CHOOSE n \in 1 .. size : \E s \in Path(size) : s[n] = lc

StepsLeft ==
  CASE pc = "size" -> 2 * MaxClusters - size + 1
    [] pc = "read" -> size - Place + 1
    [] OTHER       -> 0

(* Each step of a call brings its end nearer, also on a table with cycles: *)
(* the second loop is never at a cluster again, although it counts         *)
(* nothing, because the first has found the end (readFat32Data).           *)
CallAdvances ==
  [][(pc \in {"size", "read"}) => StepsLeft' \in 0 .. StepsLeft - 1]_vars

(* Refuted.  fat.c:1019 says "end of chain, read last continuous block";   *)
(* the length of a run of two clusters is 0, so a call can succeed without *)
(* having read one.                                                        *)
ChainRead ==
  result = "ok" => \A s \in Path(size) : data = s
=============================================================================
