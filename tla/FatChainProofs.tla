--------------------------- MODULE FatChainProofs ---------------------------
(***************************************************************************)
(* Proofs about FatChain: the safety invariants hold for any table, window *)
(* and limit.  The inductive invariant says of every chain from the start  *)
(* with as many clusters as counted where in it the two loops are.  A      *)
(* chain that ends is only one and has no cluster twice, which is why the  *)
(* second loop, which counts nothing, comes to an end.                     *)
(***************************************************************************)
EXTENDS FatChain, WellFoundedInduction, TLAPS

USE SizesAssumption

-----------------------------------------------------------------------------
(* Unsigned differences.                                                   *)
LEMMA ModInRange ==
  ASSUME NEW w \in Nat, NEW x \in Int, 0 <= x, x < w
  PROVE  x % w = x
OBVIOUS

LEMMA ModNegative ==
  ASSUME NEW w \in Nat, NEW x \in Int, x < 0, x > 0 - w
  PROVE  x % w = x + w
OBVIOUS

(* An entry that is found in the window is the one behind the window's     *)
(* first; one that lies before it is not.                                  *)
LEMMA CachedEntry ==
  ASSUME base \in Clusters, NEW e \in Clusters, Cached(e)
  PROVE  Distance(e) \in Nat /\ Distance(e) < CacheSize /\ base + Distance(e) = e
<1>1. base \in Int /\ e \in Int /\ e - base \in Int /\ e - base < Word /\ e - base > 0 - Word
  BY DEF Clusters
<1>2. e - base >= 0
  <2> SUFFICES ASSUME e - base < 0 PROVE FALSE BY <1>1
  <2>1. Distance(e) = e - base + Word BY <1>1, ModNegative DEF Distance
  <2>2. e - base + Word > CacheSize BY DEF Clusters
  <2> QED BY <1>1, <2>1, <2>2 DEF Cached
<1>3. Distance(e) = e - base BY <1>1, <1>2, ModInRange DEF Distance
<1> QED BY <1>1, <1>2, <1>3 DEF Cached

(* All of a run of one cluster is asked for.                               *)
LEMMA AskedSingle ==
  ASSUME fc \in Clusters, lc \in Clusters, fc = lc
  PROVE  Asked = 1
<1>1. fc - lc + 1 = 1 BY DEF Clusters
<1> QED BY <1>1, ModInRange DEF Asked

-----------------------------------------------------------------------------
(* Chains.                                                                 *)
LEMMA PathLen ==
  ASSUME NEW n \in Nat, NEW s \in [1 .. n -> Clusters]
  PROVE  s \in Seq(Clusters) /\ Len(s) = n
OBVIOUS

LEMMA PathStep ==
  ASSUME NEW n \in Nat \ {0}, NEW s \in Path(n), NEW i \in 1 .. n, i < n
  PROVE  i + 1 \in 1 .. n /\ s[i + 1] = table[s[i]] /\ s[i + 1] \in Clusters
BY DEF Path

(* A chain grows by the entry of its last cluster, if that is in range ... *)
LEMMA PathGrows ==
  ASSUME NEW n \in Nat \ {0}, NEW s \in Path(n), table[s[n]] \in Clusters
  PROVE  \E t \in Path(n + 1) : t[n + 1] = table[s[n]]
<1> DEFINE t == [i \in 1 .. n + 1 |-> IF i = n + 1 THEN table[s[n]] ELSE s[i]]
<1>1. s \in [1 .. n -> Clusters] /\ s[1] = start /\ \A i \in 1 .. n - 1 : s[i + 1] = table[s[i]]
  BY DEF Path
<1>2. t \in [1 .. n + 1 -> Clusters] BY <1>1
<1>3. t[1] = start BY <1>1
<1>4. ASSUME NEW i \in 1 .. n PROVE t[i + 1] = table[t[i]]
  <2>1. CASE i = n BY <2>1
  <2>2. CASE i # n
    <3>1. i \in 1 .. n - 1 /\ i + 1 \in 1 .. n + 1 /\ i + 1 # n + 1 /\ i # n + 1 BY <2>2
    <3> QED BY <1>1, <3>1
  <2> QED BY <2>1, <2>2
<1>5. t \in Path(n + 1) BY <1>2, <1>3, <1>4 DEF Path
<1>6. t[n + 1] = table[s[n]] OBVIOUS
<1> QED BY <1>5, <1>6

(* ... and without its last cluster it is a chain.                         *)
LEMMA PathShrinks ==
  ASSUME NEW n \in Nat \ {0}, NEW t \in Path(n + 1)
  PROVE  \E s \in Path(n) : t[n + 1] = table[s[n]]
<1> DEFINE s == [i \in 1 .. n |-> t[i]]
<1>1. t \in [1 .. n + 1 -> Clusters] /\ t[1] = start /\ \A i \in 1 .. n : t[i + 1] = table[t[i]]
  BY DEF Path
<1>2. s \in [1 .. n -> Clusters] /\ s[1] = start BY <1>1
<1>3. \A i \in 1 .. n - 1 : s[i + 1] = table[s[i]] BY <1>1
<1>4. s \in Path(n) BY <1>2, <1>3 DEF Path
<1>5. t[n + 1] = table[s[n]] BY <1>1
<1> QED BY <1>4, <1>5

(* Copying one more cluster of a chain.                                    *)
LEMMA AppendNext ==
  ASSUME NEW m \in Nat, NEW s \in [1 .. m -> Clusters], NEW n \in 1 .. m,
         NEW d, d = [i \in 1 .. n - 1 |-> s[i]]
  PROVE  Append(d, s[n]) = [i \in 1 .. n |-> s[i]]
<1>1. d \in Seq(Clusters) /\ Len(d) = n - 1 OBVIOUS
<1>2. Append(d, s[n]) \in Seq(Clusters) /\ Len(Append(d, s[n])) = n BY <1>1
<1>3. DOMAIN Append(d, s[n]) = 1 .. n BY <1>2
<1>4. \A i \in 1 .. n : Append(d, s[n])[i] = s[i] BY <1>1
<1>5. Append(d, s[n]) = [i \in 1 .. n |-> Append(d, s[n])[i]] BY <1>2, <1>3
<1> QED BY <1>4, <1>5


-----------------------------------------------------------------------------
(* The window holds the entry that is looked at, a cluster of the chain.   *)
AtCluster == base + current \in Clusters

(* Every chain with as many clusters as counted ends where the first loop  *)
(* is, and there is one.                                                   *)
SizeInv ==
  pc = "size" =>
    /\ result = "none"
    /\ Path(size) # {}
    /\ \A s \in Path(size) : s[size] = base + current

(* Once the size is known, such a chain ends with the end mark.            *)
FoundInv ==
  pc = "read" \/ result \in {"ok", "size"} =>
    /\ Path(size) # {}
    /\ \A s \in Path(size) : EndOfChain(table[s[size]])

(* The second loop is at the n-th cluster, with less than n copied; in a   *)
(* chain without adjacent clusters all before the n-th are.                *)
Reading(s, n) ==
  /\ s[n] = lc
  /\ Len(data) < n
  /\ Fragmented(s) => fc = lc /\ data = [i \in 1 .. n - 1 |-> s[i]]

ReadInv ==
  pc = "read" => result = "none" /\ \A s \in Path(size) : \E n \in 1 .. size : Reading(s, n)

(* The second loop starts from what the call began with.                   *)
Started == pc = "size" => fc = start /\ lc = start /\ data = <<>>

Copied == result = "ok" => Len(data) <= size

IInv ==
  /\ TypeOK
  /\ AtCluster
  /\ WindowFollows
  /\ SizeInv
  /\ Started
  /\ FoundInv
  /\ RunIsConsecutive
  /\ ReadInv
  /\ Copied
  /\ FragmentedRead

-----------------------------------------------------------------------------
LEMMA InitInv == Init => IInv
<1> SUFFICES ASSUME Init PROVE IInv OBVIOUS
<1>1. TypeOK BY DEF Init, TypeOK, Clusters
<1>2. AtCluster /\ WindowFollows BY DEF Init, AtCluster, WindowFollows, Clusters
<1>3. SizeInv /\ Started /\ FoundInv /\ RunIsConsecutive /\ ReadInv /\ Copied /\ FragmentedRead
  BY DEF Init, SizeInv, Started, FoundInv, RunIsConsecutive, ReadInv, Copied, FragmentedRead
<1> QED BY <1>1, <1>2, <1>3 DEF IInv

(* A step to a cluster keeps the window around it.                         *)
LEMMA MoveKeepsWindow ==
  ASSUME TypeOK, NEW e \in Clusters, MoveTo(e)
  PROVE  /\ base' \in Clusters /\ current' \in Nat /\ current' < CacheSize
         /\ base' + current' = e
<1>1. CASE Cached(e)
  BY <1>1, CachedEntry DEF MoveTo, TypeOK
<1>2. CASE ~ Cached(e)
  BY <1>2 DEF MoveTo, Clusters
<1> QED BY <1>1, <1>2

(* The chains and their ends depend on the table, the start and the size.  *)
LEMMA PathSame ==
  ASSUME UNCHANGED <<table, start>>, NEW n
  PROVE  Path(n)' = Path(n)
BY DEF Path, Clusters

(* A call that returns an error, or crashes, leaves nothing to show.       *)
LEMMA FailInv ==
  ASSUME IInv, UNCHANGED <<table, start, base, current, size, fc, lc, data>>,
         \/ pc' = "idle" /\ result' = "error"
         \/ pc' = "crashed" /\ result' = "none"
  PROVE  IInv'
<1>1. TypeOK' BY DEF IInv, TypeOK
<1>2. AtCluster' /\ WindowFollows' BY DEF IInv, AtCluster, WindowFollows, Clusters
<1>3. (SizeInv /\ Started /\ FoundInv /\ RunIsConsecutive /\ ReadInv /\ Copied /\ FragmentedRead)'
  BY DEF SizeInv, Started, FoundInv, RunIsConsecutive, ReadInv, Copied, FragmentedRead
<1> QED BY <1>1, <1>2, <1>3 DEF IInv

LEMMA CallInv ==
  ASSUME IInv, NEW c \in Clusters, Call(c)
  PROVE  IInv'
<1>0. c \in Int /\ 1 \in 1 .. MaxClusters BY DEF Clusters
<1>1. TypeOK' BY <1>0 DEF IInv, TypeOK, Call
<1>2. AtCluster' /\ WindowFollows' BY <1>0 DEF Call, AtCluster, WindowFollows, Clusters
<1>3. SizeInv'
  <2>1. start' = c /\ size' = 1 /\ base' = c /\ current' = 0 /\ result' = "none"
    BY DEF Call
  <2>2. \A s \in Path(1)' : s[1] = c BY <2>1 DEF Path
  <2>3. [i \in 1 .. 1 |-> c] \in Path(1)' BY <2>1 DEF Path, Clusters
  <2>4. Path(size)' = Path(1)' BY <2>1 DEF Path
  <2> QED BY <1>0, <2>1, <2>2, <2>3, <2>4 DEF SizeInv
<1>4. (Started /\ FoundInv /\ RunIsConsecutive /\ ReadInv /\ Copied /\ FragmentedRead)'
  BY DEF Call, Started, FoundInv, RunIsConsecutive, ReadInv, Copied, FragmentedRead
<1> QED BY <1>1, <1>2, <1>3, <1>4 DEF IInv

LEMMA SizeStepInv ==
  ASSUME IInv, SizeStep
  PROVE  IInv'
<1> DEFINE e == Entry
<1>1. e \in Clusters /\ e = table[base + current]
  BY DEF IInv, TypeOK, AtCluster, SizeStep, InRange, Entry, Clusters
<1>2. /\ base' \in Clusters /\ current' \in Nat /\ current' < CacheSize
      /\ base' + current' = e
  <2>1. MoveTo(e) BY DEF SizeStep
  <2> HIDE DEF e
  <2> QED BY <1>1, <2>1, MoveKeepsWindow DEF IInv
<1>3. /\ pc = "size" /\ pc' = "size" /\ result' = result /\ size' = size + 1
      /\ size \in Nat \ {0} /\ size < MaxClusters /\ UNCHANGED <<table, start, fc, lc, data>>
  BY DEF IInv, TypeOK, SizeStep
<1>4. TypeOK' BY <1>2, <1>3 DEF IInv, TypeOK
<1>5. AtCluster' /\ WindowFollows' BY <1>1, <1>2, <1>3 DEF AtCluster, WindowFollows
<1>6. SizeInv'
  <2>1. result = "none" /\ Path(size) # {} /\ \A s \in Path(size) : s[size] = base + current
    BY <1>3 DEF IInv, SizeInv
  <2>2. PICK s \in Path(size) : s[size] = base + current BY <2>1
  <2>3. Path(size + 1) # {} BY <1>1, <1>3, <2>2, PathGrows
  <2>4. ASSUME NEW t \in Path(size + 1) PROVE t[size + 1] = e
    <3>1. PICK r \in Path(size) : t[size + 1] = table[r[size]] BY <1>3, PathShrinks
    <3> QED BY <1>1, <2>1, <3>1
  <2>5. Path(size)' = Path(size + 1) BY <1>3 DEF Path, Clusters
  <2> HIDE DEF e
  <2> QED BY <1>2, <1>3, <2>1, <2>3, <2>4, <2>5 DEF SizeInv
<1>7. (Started /\ FoundInv /\ RunIsConsecutive /\ ReadInv /\ Copied /\ FragmentedRead)'
  BY <1>3 DEF IInv, SizeInv, Started, FoundInv, RunIsConsecutive, ReadInv, Copied, FragmentedRead
<1> QED BY <1>4, <1>5, <1>6, <1>7 DEF IInv

LEMMA SizeFoundInv ==
  ASSUME IInv, SizeFound
  PROVE  IInv'
<1>1. /\ pc = "size" /\ pc' = "read" /\ base' = start /\ current' = 0
      /\ EndOfChain(table[base + current])
      /\ UNCHANGED <<table, start, size, fc, lc, data, result>>
  BY DEF SizeFound, Entry
<1>2. /\ start \in Clusters /\ size \in Nat \ {0} /\ result = "none"
      /\ Path(size) # {} /\ \A s \in Path(size) : s[size] = base + current
  BY <1>1 DEF IInv, TypeOK, SizeInv
<1>3. fc = start /\ lc = start /\ data = <<>>
  BY <1>1 DEF IInv, Started
<1>4. TypeOK' BY <1>1, <1>2 DEF IInv, TypeOK
<1>5. AtCluster' /\ WindowFollows' BY <1>1, <1>2, <1>3 DEF AtCluster, WindowFollows, Clusters
<1>6. Path(size)' = Path(size) BY <1>1 DEF Path, Clusters
<1>7. FoundInv' BY <1>1, <1>2, <1>6 DEF FoundInv, EndOfChain
<1>8. ReadInv'
  <2>1. ASSUME NEW s \in Path(size) PROVE Reading(s, 1)'
    <3>1. s[1] = start BY <1>2 DEF Path
    <3>2. data = [i \in 1 .. 1 - 1 |-> s[i]] BY <1>3
    <3>3. Len(data) < 1 BY <1>3
    <3> QED BY <1>1, <1>3, <3>1, <3>2, <3>3 DEF Reading
  <2> QED BY <1>1, <1>2, <1>6, <2>1 DEF ReadInv
<1>9. (SizeInv /\ RunIsConsecutive /\ Copied /\ FragmentedRead /\ Started)'
  BY <1>1, <1>2, <1>3 DEF SizeInv, RunIsConsecutive, Copied, FragmentedRead, Started, Clusters
<1> QED BY <1>4, <1>5, <1>7, <1>8, <1>9 DEF IInv

LEMMA SizeReturnedInv ==
  ASSUME IInv, SizeReturned
  PROVE  IInv'
<1>1. /\ pc = "size" /\ pc' = "idle" /\ result' = "size" /\ EndOfChain(table[base + current])
      /\ UNCHANGED <<table, start, base, current, size, fc, lc, data>>
  BY DEF SizeReturned, Entry, Return
<1>2. Path(size) # {} /\ \A s \in Path(size) : s[size] = base + current
  BY <1>1 DEF IInv, SizeInv
<1>3. Path(size)' = Path(size) BY <1>1 DEF Path, Clusters
<1>4. TypeOK' BY <1>1 DEF IInv, TypeOK
<1>5. AtCluster' /\ WindowFollows' BY <1>1 DEF IInv, AtCluster, WindowFollows, Clusters
<1>6. FoundInv' BY <1>1, <1>2, <1>3 DEF FoundInv, EndOfChain
<1>7. (SizeInv /\ Started /\ RunIsConsecutive /\ ReadInv /\ Copied /\ FragmentedRead)'
  BY <1>1 DEF SizeInv, Started, RunIsConsecutive, ReadInv, Copied, FragmentedRead
<1> QED BY <1>4, <1>5, <1>6, <1>7 DEF IInv

(* What a step of the second loop starts from.                             *)
LEMMA ReadFacts ==
  ASSUME IInv, pc = "read"
  PROVE  /\ result = "none" /\ size \in Nat \ {0} /\ lc \in Clusters /\ fc \in Clusters
         /\ Entry = table[lc]
         /\ \A s \in Path(size) : \E n \in 1 .. size : Reading(s, n)
         /\ \A s \in Path(size) : EndOfChain(table[s[size]])
BY DEF IInv, TypeOK, WindowFollows, Entry, ReadInv, FoundInv

(* A chain that is at an entry in range goes on ...                        *)
LEMMA ChainGoesOn ==
  ASSUME IInv, pc = "read", Entry \in Clusters, NEW s \in Path(size), NEW n \in 1 .. size,
         s[n] = lc
  PROVE  n + 1 \in 1 .. size /\ s[n + 1] = Entry
<1>1. Entry = table[lc] /\ size \in Nat \ {0} /\ EndOfChain(table[s[size]]) BY ReadFacts
<1>2. n # size
  <2> SUFFICES ASSUME n = size PROVE FALSE OBVIOUS
  <2>1. EndOfChain(Entry) BY <1>1
  <2> QED BY <2>1 DEF EndOfChain, Clusters
<1>3. n < size BY <1>1, <1>2
<1> QED BY <1>1, <1>3, PathStep

(* ... and at an end mark it is over.                                      *)
LEMMA ChainStops ==
  ASSUME IInv, pc = "read", EndOfChain(Entry), NEW s \in Path(size), NEW n \in 1 .. size,
         s[n] = lc
  PROVE  n = size
<1>1. Entry = table[lc] /\ size \in Nat \ {0} BY ReadFacts
<1> SUFFICES ASSUME n < size PROVE FALSE BY <1>1
<1>2. Entry \in Clusters BY <1>1, PathStep
<1> QED BY <1>2 DEF EndOfChain, Clusters

(* A step of the second loop to the entry e of the last cluster.           *)
LEMMA ReadMoves ==
  ASSUME IInv, pc = "read", pc' = "read", Entry \in Clusters, MoveTo(Entry), lc' = Entry,
         UNCHANGED <<table, start, size, result>>, fc' \in Clusters, data' \in Seq(Clusters),
         fc' <= lc', \A c \in fc' .. lc' - 1 : table[c] = c + 1,
         \A s \in Path(size), n \in 1 .. size :
           n + 1 \in 1 .. size /\ s[n + 1] = Entry /\ Reading(s, n) => Reading(s, n + 1)'
  PROVE  IInv'
<1> DEFINE e == Entry
<1>1. /\ base' \in Clusters /\ current' \in Nat /\ current' < CacheSize
      /\ base' + current' = e
  <2>1. e \in Clusters /\ MoveTo(e) OBVIOUS
  <2> HIDE DEF e
  <2> QED BY <2>1, MoveKeepsWindow DEF IInv
<1>2. TypeOK' BY <1>1 DEF IInv, TypeOK
<1>3. AtCluster' /\ WindowFollows' BY <1>1 DEF AtCluster, WindowFollows
<1>4. Path(size)' = Path(size) BY DEF Path, Clusters
<1>5. FoundInv' BY <1>4 DEF IInv, FoundInv, EndOfChain
<1>6. RunIsConsecutive' BY DEF RunIsConsecutive
<1>7. ReadInv'
  <2>1. ASSUME NEW s \in Path(size) PROVE \E n \in 1 .. size : Reading(s, n)'
    <3>1. PICK n \in 1 .. size : Reading(s, n) BY ReadFacts
    <3>2. n + 1 \in 1 .. size /\ s[n + 1] = Entry BY <3>1, ChainGoesOn DEF Reading
    <3> QED BY <3>1, <3>2
  <2> QED BY <1>4, <2>1, ReadFacts DEF ReadInv
<1>8. (SizeInv /\ Copied /\ FragmentedRead /\ Started)'
  BY ReadFacts DEF SizeInv, Copied, FragmentedRead, Started
<1> QED BY <1>2, <1>3, <1>5, <1>6, <1>7, <1>8 DEF IInv

LEMMA ReadAdjacentInv ==
  ASSUME IInv, ReadAdjacent
  PROVE  IInv'
<1>1. /\ pc = "read" /\ pc' = "read" /\ lc' = Entry /\ MoveTo(Entry)
      /\ Entry \in Clusters /\ Entry = lc + 1
      /\ UNCHANGED <<table, start, size, fc, data, result>>
  <2>1. Entry \in 1 .. Bad + 1 BY DEF IInv, TypeOK, AtCluster, Entry, ReadAdjacent
  <2> QED BY <2>1 DEF ReadAdjacent, InRange, RunEnds, Clusters
<1>2. Entry = table[lc] /\ fc \in Clusters /\ lc \in Clusters BY <1>1, ReadFacts
<1>3. fc <= lc /\ \A c \in fc .. lc - 1 : table[c] = c + 1
  BY <1>1 DEF IInv, RunIsConsecutive
<1>4. fc' <= lc' BY <1>1, <1>2, <1>3 DEF Clusters
<1>5. \A c \in fc' .. lc' - 1 : table[c] = c + 1
  <2> SUFFICES ASSUME NEW c \in fc' .. lc' - 1 PROVE table[c] = c + 1 OBVIOUS
  <2>1. c \in fc .. lc BY <1>1, <1>2 DEF Clusters
  <2>2. c = lc \/ c \in fc .. lc - 1 BY <1>2, <2>1 DEF Clusters
  <2> QED BY <1>1, <1>2, <1>3, <2>2
<1>6. data \in Seq(Clusters) BY DEF IInv, TypeOK
<1>7. ASSUME NEW s \in Path(size), NEW n \in 1 .. size,
             n + 1 \in 1 .. size, s[n + 1] = Entry, Reading(s, n)
      PROVE  Reading(s, n + 1)'
  <2>1. ~ Fragmented(s)
    <3>1. Len(s) = size BY ReadFacts, <1>1, PathLen DEF Path
    <3>2. n \in 1 .. Len(s) - 1 BY <1>1, <1>7, <3>1, ReadFacts
    <3>3. s[n + 1] = s[n] + 1 BY <1>1, <1>7 DEF Reading
    <3> QED BY <3>2, <3>3 DEF Fragmented
  <2>2. Len(data) \in Nat BY <1>6
  <2> QED BY <1>1, <1>7, <2>1, <2>2 DEF Reading, Fragmented
<1> QED BY <1>1, <1>2, <1>4, <1>5, <1>6, <1>7, ReadMoves

LEMMA CopyTyped ==
  ASSUME TypeOK, CopyRun
  PROVE  data' \in Seq(Clusters)
<1>1. fc \in Clusters /\ data \in Seq(Clusters) BY DEF TypeOK
<1> QED BY <1>1 DEF CopyRun

(* What copying a run does to the data of a chain.                         *)
LEMMA RunCopied ==
  ASSUME IInv, pc = "read", CopyRun, NEW s \in Path(size), NEW n \in 1 .. size, Reading(s, n)
  PROVE  /\ data' \in Seq(Clusters) /\ Len(data') <= n
         /\ Fragmented(s) => data' = [i \in 1 .. n |-> s[i]]
<1>1. fc \in Clusters /\ lc \in Clusters /\ data \in Seq(Clusters) /\ Len(data) < n
  BY DEF IInv, TypeOK, Reading
<1>2. data' \in Seq(Clusters) /\ Len(data') <= n BY <1>1 DEF CopyRun
<1>3. ASSUME Fragmented(s) PROVE data' = [i \in 1 .. n |-> s[i]]
  <2>1. s[n] = lc /\ fc = lc /\ data = [i \in 1 .. n - 1 |-> s[i]] BY <1>3 DEF Reading
  <2>2. Asked = 1 BY <1>1, <2>1, AskedSingle
  <2>3. data' = Append(data, s[n]) BY <2>1, <2>2 DEF CopyRun
  <2>4. size \in Nat /\ s \in [1 .. size -> Clusters] BY DEF IInv, TypeOK, Path
  <2> QED BY <2>1, <2>3, <2>4, AppendNext
<1> QED BY <1>2, <1>3

LEMMA ReadBreakInv ==
  ASSUME IInv, ReadBreak
  PROVE  IInv'
<1>1. /\ pc = "read" /\ pc' = "read" /\ fc' = Entry /\ lc' = Entry /\ MoveTo(Entry)
      /\ CopyRun /\ Entry \in Clusters /\ UNCHANGED <<table, start, size, result>>
  <2>1. Entry \in 1 .. Bad + 1 BY DEF IInv, TypeOK, AtCluster, Entry, ReadBreak
  <2> QED BY <2>1 DEF ReadBreak, InRange, Clusters
<1>2. fc' <= lc' /\ \A c \in fc' .. lc' - 1 : table[c] = c + 1 BY <1>1 DEF Clusters
<1>3. data' \in Seq(Clusters) BY <1>1, CopyTyped DEF IInv
<1>4. ASSUME NEW s \in Path(size), NEW n \in 1 .. size,
             n + 1 \in 1 .. size, s[n + 1] = Entry, Reading(s, n)
      PROVE  Reading(s, n + 1)'
  <2>1. Len(data') <= n /\ (Fragmented(s) => data' = [i \in 1 .. n |-> s[i]])
    BY <1>1, <1>4, RunCopied
  <2>2. Len(data') \in Nat BY <1>3
  <2>3. Len(data') < n + 1 BY <1>4, <2>1, <2>2
  <2>4. (n + 1) - 1 = n OBVIOUS
  <2> QED BY <1>1, <1>4, <2>1, <2>3, <2>4 DEF Reading, Fragmented
<1> QED BY <1>1, <1>2, <1>3, <1>4, ReadMoves

LEMMA ReadEndInv ==
  ASSUME IInv, ReadEnd
  PROVE  IInv'
<1>1. /\ pc = "read" /\ pc' = "idle" /\ result' = "ok" /\ EndOfChain(Entry) /\ CopyRun
      /\ UNCHANGED <<table, start, base, current, size, fc, lc>>
  BY DEF ReadEnd, Return
<1>2. ASSUME NEW s \in Path(size)
      PROVE  Len(data') <= size /\ (Fragmented(s) => data' = s)
  <2>1. PICK n \in 1 .. size : Reading(s, n) BY <1>1, ReadFacts
  <2>2. n = size BY <1>1, <2>1, ChainStops DEF Reading
  <2>3. Len(data') <= size /\ (Fragmented(s) => data' = [i \in 1 .. size |-> s[i]])
    BY <1>1, <2>1, <2>2, RunCopied
  <2>4. s = [i \in 1 .. size |-> s[i]] BY DEF Path
  <2> QED BY <2>3, <2>4
<1>3. Path(size)' = Path(size) BY <1>1 DEF Path, Clusters
<1>4. Path(size) # {} /\ \A s \in Path(size) : EndOfChain(table[s[size]])
  BY <1>1 DEF IInv, FoundInv
<1>5. TypeOK' BY <1>1, CopyTyped DEF IInv, TypeOK
<1>6. AtCluster' /\ WindowFollows' BY <1>1 DEF IInv, AtCluster, WindowFollows
<1>7. FoundInv' BY <1>1, <1>3, <1>4 DEF FoundInv, EndOfChain
<1>8. Copied' BY <1>1, <1>2, <1>4 DEF Copied
<1>9. FragmentedRead' BY <1>1, <1>2, <1>3 DEF FragmentedRead, Fragmented
<1>10. (SizeInv /\ Started /\ RunIsConsecutive /\ ReadInv)'
  BY <1>1 DEF SizeInv, Started, RunIsConsecutive, ReadInv
<1> QED BY <1>5, <1>6, <1>7, <1>8, <1>9, <1>10 DEF IInv

LEMMA NextInv == IInv /\ [Next]_vars => IInv'
<1> SUFFICES ASSUME IInv, [Next]_vars PROVE IInv' OBVIOUS
<1>1. ASSUME NEW c \in Clusters, Call(c) PROVE IInv' BY <1>1, CallInv
<1>2. CASE CallFails BY <1>2, FailInv DEF CallFails, Return
<1>3. CASE SizeStep BY <1>3, SizeStepInv
<1>4. CASE SizeFound BY <1>4, SizeFoundInv
<1>5. CASE SizeFails BY <1>5, FailInv DEF SizeFails, Return
<1>6. CASE ReadAdjacent BY <1>6, ReadAdjacentInv
<1>7. CASE ReadBreak BY <1>7, ReadBreakInv
<1>8. CASE ReadEnd BY <1>8, ReadEndInv
<1>9. CASE ReadFails BY <1>9, FailInv DEF ReadFails, Return
<1>10. CASE ReadCrashes
  <2>1. result = "none" BY <1>10, ReadFacts DEF ReadCrashes
  <2> QED BY <1>10, <2>1, FailInv DEF ReadCrashes
<1>11. CASE UNCHANGED vars
  <2>1. Path(size)' = Path(size) BY <1>11 DEF vars, Path, Clusters
  <2>2. (TypeOK /\ AtCluster /\ WindowFollows /\ Started /\ RunIsConsecutive /\ Copied)'
    BY <1>11 DEF vars, IInv, TypeOK, AtCluster, WindowFollows, Started, RunIsConsecutive,
                 Copied, Clusters
  <2>3. (SizeInv /\ FoundInv)'
    BY <1>11, <2>1 DEF vars, IInv, SizeInv, FoundInv, EndOfChain
  <2>4. (ReadInv /\ FragmentedRead)'
    BY <1>11, <2>1 DEF vars, IInv, ReadInv, Reading, Fragmented, FragmentedRead
  <2> QED BY <2>2, <2>3, <2>4 DEF IInv
<1>12. CASE SizeReturned BY <1>12, SizeReturnedInv
<1> QED
  BY <1>1, <1>2, <1>3, <1>4, <1>5, <1>6, <1>7, <1>8, <1>9, <1>10, <1>11, <1>12 DEF Next, Step

LEMMA Invariance == Spec => []IInv
<1> QED BY InitInv, NextInv, PTL DEF Spec

-----------------------------------------------------------------------------
(* The variables keep their types, whatever the table holds.               *)
THEOREM TypeCorrect == Spec => []TypeOK
<1>1. IInv => TypeOK BY DEF IInv
<1> QED BY <1>1, Invariance, PTL

(* The window follows the chain (getFat32FileSize, readFat32Data).         *)
THEOREM WindowSafe == Spec => []WindowFollows
<1>1. IInv => WindowFollows BY DEF IInv
<1> QED BY <1>1, Invariance, PTL

(* A size that is found is that of the chain (getFat32FileSize).           *)
THEOREM SizeCorrect == Spec => []SizeIsChain
<1>1. IInv => SizeIsChain BY DEF IInv, TypeOK, FoundInv, SizeIsChain
<1> QED BY <1>1, Invariance, PTL

(* A run consists of adjacent clusters of the chain (readFat32Data).       *)
THEOREM RunsLieInChain == Spec => []RunIsConsecutive
<1>1. IInv => RunIsConsecutive BY DEF IInv
<1> QED BY <1>1, Invariance, PTL

(* What is copied fits the buffer (readFat32Data).                         *)
THEOREM NoOverrun == Spec => []BufferHolds
<1>1. ASSUME IInv, pc = "read" PROVE Len(data) < size
  <2>1. PICK s \in Path(size) : TRUE BY <1>1 DEF IInv, FoundInv
  <2>2. PICK n \in 1 .. size : Reading(s, n) BY <1>1, ReadFacts
  <2>3. Len(data) \in Nat /\ size \in Nat BY <1>1 DEF IInv, TypeOK
  <2> QED BY <2>2, <2>3 DEF Reading
<1>2. IInv => BufferHolds BY <1>1 DEF IInv, Copied, BufferHolds
<1> QED BY <1>2, Invariance, PTL

(* A chain without adjacent clusters is read as it is (readFat32Data).     *)
THEOREM FragmentedReadCorrect == Spec => []FragmentedRead
<1>1. IInv => FragmentedRead BY DEF IInv
<1> QED BY <1>1, Invariance, PTL
-----------------------------------------------------------------------------
(* Induction on a set of numbers, by the least one that is not in it.      *)
LEMMA NatSetInduction ==
  ASSUME NEW T, 0 \in T, \A n \in Nat : n \in T => n + 1 \in T
  PROVE  Nat \subseteq T
<1> SUFFICES ASSUME Nat \ T # {} PROVE FALSE OBVIOUS
<1>1. PICK x \in Nat \ T : \A y \in Nat \ T : ~ (<<y, x>> \in OpToRel(<, Nat))
  <2>1. IsWellFoundedOn(OpToRel(<, Nat), Nat) BY NatLessThanWellFounded
  <2> QED BY <2>1, WFMin
<1>2. x # 0 /\ x - 1 \in Nat /\ x - 1 < x /\ x - 1 + 1 = x OBVIOUS
<1>3. x - 1 \in T BY <1>1, <1>2 DEF OpToRel
<1> QED BY <1>1, <1>2, <1>3

(* There is one chain of a length ...                                      *)
LEMMA PathUnique ==
  ASSUME NEW n \in Nat \ {0}, NEW s \in Path(n), NEW t \in Path(n)
  PROVE  s = t
<1> DEFINE T == {k \in Nat : k < n => s[k + 1] = t[k + 1]}
<1>1. /\ s \in [1 .. n -> Clusters] /\ s[1] = start /\ \A i \in 1 .. n - 1 : s[i + 1] = table[s[i]]
      /\ t \in [1 .. n -> Clusters] /\ t[1] = start /\ \A i \in 1 .. n - 1 : t[i + 1] = table[t[i]]
  BY DEF Path
<1>2. 0 \in T BY <1>1
<1>3. ASSUME NEW k \in Nat, k \in T PROVE k + 1 \in T
  <2> SUFFICES ASSUME k + 1 < n PROVE s[k + 1 + 1] = t[k + 1 + 1] OBVIOUS
  <2> DEFINE i == k + 1
  <2>1. i \in 1 .. n - 1 /\ s[i] = t[i] BY <1>3
  <2> HIDE DEF i
  <2>2. s[i + 1] = t[i + 1] BY <1>1, <2>1
  <2> QED BY <2>2 DEF i
<1> HIDE DEF T
<1>4. Nat \subseteq T BY <1>2, <1>3, NatSetInduction
<1>5. ASSUME NEW i \in 1 .. n PROVE s[i] = t[i]
  <2>1. i - 1 \in Nat /\ i - 1 < n /\ i - 1 + 1 = i OBVIOUS
  <2>2. i - 1 \in T BY <1>4, <2>1
  <2> QED BY <2>1, <2>2 DEF T
<1> QED BY <1>1, <1>5

(* ... and if it ends it has no cluster twice.                             *)
LEMMA PathRepeatsNothing ==
  ASSUME NEW n \in Nat \ {0}, NEW s \in Path(n), EndOfChain(table[s[n]]),
         NEW i \in 1 .. n, NEW j \in 1 .. n, s[i] = s[j]
  PROVE  ~ (i < j)
<1> SUFFICES ASSUME i < j PROVE FALSE OBVIOUS
<1>1. s \in [1 .. n -> Clusters] /\ \A k \in 1 .. n - 1 : s[k + 1] = table[s[k]]
  BY DEF Path
<1> DEFINE T == {k \in Nat : j + k <= n => s[i + k] = s[j + k]}
<1>2. 0 \in T OBVIOUS
<1>3. ASSUME NEW k \in Nat, k \in T PROVE k + 1 \in T
  <2> SUFFICES ASSUME j + (k + 1) <= n PROVE s[i + (k + 1)] = s[j + (k + 1)] OBVIOUS
  <2> DEFINE a == i + k
             b == j + k
  <2>1. a \in 1 .. n - 1 /\ b \in 1 .. n - 1 /\ s[a] = s[b]
        /\ i + (k + 1) = a + 1 /\ j + (k + 1) = b + 1
    BY <1>3
  <2> HIDE DEF a, b
  <2>2. s[a + 1] = s[b + 1] BY <1>1, <2>1
  <2> QED BY <2>1, <2>2
<1> HIDE DEF T
<1>4. Nat \subseteq T BY <1>2, <1>3, NatSetInduction
<1> DEFINE a == i + (n - j)
<1>5. n - j \in Nat /\ j + (n - j) = n /\ a \in 1 .. n - 1 OBVIOUS
<1>6. s[a] = s[n] BY <1>4, <1>5 DEF T
<1> HIDE DEF a
<1>7. s[a + 1] = table[s[n]] /\ a + 1 \in 1 .. n BY <1>1, <1>5, <1>6
<1>8. table[s[n]] \in Clusters BY <1>1, <1>7
<1> QED BY <1>8 DEF EndOfChain, Clusters

(* Where the second loop is in the chain.                                  *)
LEMMA PlaceIs ==
  ASSUME IInv, pc = "read", NEW s \in Path(size), NEW n \in 1 .. size, s[n] = lc
  PROVE  Place = n
<1>1. size \in Nat \ {0} /\ EndOfChain(table[s[size]]) BY ReadFacts
<1>2. ASSUME NEW m \in 1 .. size, NEW t \in Path(size), t[m] = lc PROVE m = n
  <2>1. t = s BY <1>1, PathUnique
  <2>2. ~ (m < n) /\ ~ (n < m) BY <1>1, <1>2, <2>1, PathRepeatsNothing
  <2> QED BY <1>1, <2>2
<1> QED BY <1>2 DEF Place

LEMMA AdvanceStep ==
  ASSUME IInv, IInv', Next, pc \in {"size", "read"}
  PROVE  StepsLeft' \in 0 .. StepsLeft - 1
<1>0. size \in 1 .. MaxClusters /\ size \in Nat /\ MaxClusters \in Nat BY DEF IInv, TypeOK
<1>1. ASSUME pc = "size" PROVE StepsLeft = 2 * MaxClusters - size + 1
  BY <1>1, Zenon DEF StepsLeft
<1>2. ASSUME pc = "read" PROVE StepsLeft = size - Place + 1
  BY <1>2, Zenon DEF StepsLeft
<1>3. ASSUME pc = "read"
      PROVE  \E s \in Path(size), n \in 1 .. size : s[n] = lc /\ Place = n
  <2>1. PICK s \in Path(size) : TRUE BY <1>3 DEF IInv, FoundInv
  <2>2. PICK n \in 1 .. size : s[n] = lc BY <1>3, ReadFacts DEF Reading
  <2> QED BY <1>3, <2>2, PlaceIs
<1>4. StepsLeft \in Nat /\ StepsLeft > 0
  <2>1. CASE pc = "size" BY <1>0, <1>1, <2>1
  <2>2. CASE pc = "read"
    <3>1. Place \in 1 .. size BY <1>3, <2>2
    <3> QED BY <1>0, <1>2, <2>2, <3>1
  <2> QED BY <2>1, <2>2
<1>5. ASSUME pc' \notin {"size", "read"} PROVE StepsLeft' \in 0 .. StepsLeft - 1
  <2>1. StepsLeft' = 0 BY <1>5 DEF StepsLeft
  <2> QED BY <1>4, <2>1
<1>6. CASE SizeStep
  <2>1. pc = "size" /\ pc' = "size" /\ size' = size + 1 /\ size < MaxClusters BY <1>6 DEF SizeStep
  <2>2. StepsLeft' = 2 * MaxClusters - size' + 1 BY <2>1, Zenon DEF StepsLeft
  <2> QED BY <1>0, <1>1, <2>1, <2>2
<1>7. CASE SizeFound
  <2>1. pc = "size" /\ pc' = "read" /\ UNCHANGED <<table, start, size, lc>> BY <1>7 DEF SizeFound
  <2>2. lc = start BY <2>1 DEF IInv, Started
  <2>3. Path(size)' = Path(size) BY <2>1, PathSame
  <2>4. PICK s \in Path(size) : TRUE BY <2>1 DEF IInv, SizeInv
  <2>5. Place' \in 1 .. size
    <3>1. s[1] = start BY <1>0 DEF Path
    <3>2. \E n \in 1 .. size : \E t \in Path(size) : t[n] = lc BY <1>0, <2>2, <2>4, <3>1
    <3>3. Place' = CHOOSE n \in 1 .. size : \E t \in Path(size) : t[n] = lc
      BY <2>1, <2>3 DEF Place
    <3> QED BY <3>2, <3>3
  <2>6. StepsLeft' = size' - Place' + 1 BY <2>1, Zenon DEF StepsLeft
  <2> DEFINE p == Place'
  <2>7. p \in 1 .. size /\ StepsLeft' = size - p + 1 BY <2>1, <2>5, <2>6
  <2> HIDE DEF p
  <2>8. StepsLeft = 2 * MaxClusters - size + 1 BY <1>1, <2>1
  <2>9. size - p + 1 \in Nat /\ size - p + 1 <= MaxClusters BY <1>0, <2>7
  <2>10. MaxClusters <= StepsLeft - 1 /\ StepsLeft \in Nat BY <1>0, <2>8
  <2> QED BY <1>0, <2>7, <2>9, <2>10
<1>8. CASE ReadAdjacent \/ ReadBreak
  <2>1. /\ pc = "read" /\ pc' = "read" /\ lc' = Entry /\ InRange(Entry)
        /\ UNCHANGED <<table, start, size>>
    BY <1>8 DEF ReadAdjacent, ReadBreak
  <2>2. Entry \in Clusters
    <3>1. Entry \in 1 .. Bad + 1 BY <2>1 DEF IInv, TypeOK, AtCluster, Entry, InRange
    <3> QED BY <2>1, <3>1 DEF InRange, Clusters
  <2>3. PICK s \in Path(size), n \in 1 .. size : s[n] = lc /\ Place = n BY <1>3, <2>1
  <2>4. n + 1 \in 1 .. size /\ s[n + 1] = Entry BY <2>1, <2>2, <2>3, ChainGoesOn
  <2>5. Place' = n + 1
    <3>1. EndOfChain(table[s[size]]) /\ size \in Nat \ {0} BY <2>1, ReadFacts
    <3>2. ASSUME NEW m \in 1 .. size, NEW t \in Path(size), t[m] = Entry PROVE m = n + 1
      <4>1. t = s BY <3>1, PathUnique
      <4>2. ~ (m < n + 1) /\ ~ (n + 1 < m) BY <2>4, <3>1, <3>2, <4>1, PathRepeatsNothing
      <4> QED BY <2>4, <3>1, <4>2
    <3>3. Path(size)' = Path(size) BY <2>1, PathSame
    <3>4. Place' = CHOOSE m \in 1 .. size : \E t \in Path(size) : t[m] = Entry
      BY <2>1, <3>3 DEF Place
    <3> QED BY <2>4, <3>2, <3>4
  <2>6. StepsLeft' = size' - Place' + 1 BY <2>1, Zenon DEF StepsLeft
  <2> QED BY <1>0, <1>2, <2>1, <2>3, <2>4, <2>5, <2>6
<1>9. CASE CallFails BY <1>9 DEF CallFails
<1>10. ASSUME NEW c \in Clusters, Call(c) PROVE FALSE BY <1>10 DEF Call
<1>11. CASE SizeReturned \/ SizeFails \/ ReadEnd \/ ReadFails \/ ReadCrashes
  BY <1>5, <1>11 DEF SizeReturned, SizeFails, ReadEnd, ReadFails, ReadCrashes, Return
<1> QED BY <1>6, <1>7, <1>8, <1>9, <1>10, <1>11 DEF Next, Step

(* A call of readFat32Data or getFat32FileSize takes at most twice as many *)
(* steps as the limit of the size, whatever the table holds: the first     *)
(* loop counts, and the second follows a chain that is known to end.       *)
THEOREM CallsComeToAnEnd == Spec => CallAdvances
<1>1. IInv /\ IInv' /\ [Next]_vars
      => [(pc \in {"size", "read"}) => StepsLeft' \in 0 .. StepsLeft - 1]_vars
  BY AdvanceStep
<1> QED BY <1>1, Invariance, PTL DEF Spec, CallAdvances
=============================================================================
