------------------------------ MODULE NtfsRuns ------------------------------
(***************************************************************************)
(* How the NTFS driver turns the run list of a non-resident attribute into *)
(* clusters (parseRun, parseDataRuns, analyzeDataRuns, dataRunRead in      *)
(* ntfs.c).  A run list is a sequence of pairs of numbers, each given by   *)
(* its bytes, the lowest first: the length of the run and the distance of  *)
(* its first cluster from that of the run before.  A run without a         *)
(* distance is a hole.                                                     *)
(*                                                                         *)
(* What is in a cluster of the partition is its number; 0 is what is in a  *)
(* buffer that nothing was read into.  (Cluster 0 has the boot sector.)    *)
(***************************************************************************)
EXTENDS Integers, SequencesExt

CONSTANTS
  Base,      \* 256, the values of a byte
  Word,      \* 8, the bytes of a UINT64
  Unit,      \* 16, the clusters of a compression unit
  Clusters   \* the clusters of the partition

ASSUME RunsAssumption ==
  {Base, Word, Unit, Clusters} \subseteq Nat \ {0} /\ Base % 2 = 0

Flag == {"sparse", "compressed"}

Power ==
  LET power[n \in 0 .. Word] == IF n = 0 THEN 1 ELSE Base * power[n - 1]
  IN [n \in 0 .. Word |-> power[n]]

-----------------------------------------------------------------------------
(* The bytes of a number put together without a sign; of none it is 0.     *)
Unsigned(data) ==
  LET out[k \in 0 .. Len(data)] ==
        IF k = 0 THEN 0 ELSE out[k - 1] + data[k] * Power[k - 1]
  IN out[Len(data)]

\* mutant: a distance has no sign
ParseRunUnsigned(data) == Unsigned(data)

(* Fewer bytes than a UINT64 has.                                          *)
ParseRun(data) ==
  LET out == Unsigned(data) IN
  IF data # <<>> /\ 2 * out >= Power[Len(data)]
    THEN out + Power[Word] - Power[Len(data)]
    ELSE out

(* fresh[i] are the flags that the memory of run i happens to have: it is  *)
(* not cleared, and flags are only added to it.                            *)
Runs(pairs, fresh) ==
  LET offset[i \in 0 .. Len(pairs)] ==
        IF i = 0 THEN 0 ELSE (offset[i - 1] + ParseRun(pairs[i].distance)) % Power[Word]
  IN [i \in DOMAIN pairs |->
        [length |-> ParseRun(pairs[i].length),
         offset |-> offset[i],
         flags  |-> fresh[i] \cup IF pairs[i].distance = <<>> THEN {"sparse"} ELSE {}]]

-----------------------------------------------------------------------------
(* analyzeDataRuns: vcn is the position in the unit and si the first run   *)
(* with clusters in it, if there is one and the unit is not full.  A hole  *)
(* that starts within a unit marks the runs from si on.                    *)
AtHole(a, i) ==
  LET marks == a.vcn # 0 /\ a.si # 0 IN
  [vcn  |-> (a.vcn + a.runs[i].length) % Unit,
   si   |-> IF marks THEN 0 ELSE a.si,
   runs |-> [j \in DOMAIN a.runs |->
               IF marks /\ j \in a.si .. i - 1
                 THEN [a.runs[j] EXCEPT !.flags = @ \cup {"compressed"}]
                 ELSE a.runs[j]]]

AtData(a, i) ==
  LET vcn == a.vcn + a.runs[i].length IN
  [a EXCEPT !.vcn = vcn % Unit,
            !.si  = IF vcn % Unit = 0 THEN 0
                    ELSE IF vcn > Unit \/ @ = 0 THEN i ELSE @]

Analyzed(runs) ==
  LET a[i \in 0 .. Len(runs)] ==
        IF i = 0 THEN [vcn |-> 0, si |-> 0, runs |-> runs]
        ELSE IF "sparse" \in a[i - 1].runs[i].flags THEN AtHole(a[i - 1], i)
        ELSE AtData(a[i - 1], i)
  IN a[Len(runs)].runs

-----------------------------------------------------------------------------
Readable(runs) ==
  \A i \in DOMAIN runs :
    runs[i].flags = {} => runs[i].offset + runs[i].length <= Clusters

(* dataRunRead into a fresh buffer: a run with a flag is skipped.          *)
ClustersRead(runs) ==
  FlattenSeq([i \in DOMAIN runs |->
    [k \in 1 .. runs[i].length |->
       IF runs[i].flags = {} THEN runs[i].offset + k - 1 ELSE 0]])

(* What a caller gets of a run list: an error or the clusters.             *)
DataRunRead(pairs, fresh) ==
  LET runs == Analyzed(Runs(pairs, fresh)) IN
  [ok   |-> Readable(runs),
   data |-> IF Readable(runs) THEN ClustersRead(runs) ELSE <<>>]
=============================================================================
