------------------------------ MODULE FatWalk ------------------------------
(***************************************************************************)
(* "ls", "ls -r" and "ls -rl n": the query handle of the FAT32 driver      *)
(* (FSGetFirst, FSGetNext, FSGetPath in fat32GetInfo) driven by the loop   *)
(* in execFsCmd.  The walk is depth first without a stack of directories:  *)
(* only the entry indices are kept, the way up is read from ".." entries,  *)
(* and one directory at a time is in memory.                               *)
(*                                                                         *)
(* Nodes stand for clusters, entries are counted from 1, and a directory   *)
(* has no deleted entries and no parts of long names (getNextImpl skips    *)
(* them).  The ".." of a directory under the root holds cluster 0.         *)
(***************************************************************************)
EXTENDS Integers, SequencesExt

CONSTANTS
  Node,         \* files and directories on the partition
  Root,         \* params.root_cluster
  DirNode,      \* the directories
  Children,     \* the entries of a directory, without "." and ".."
  MaxRecursion, \* 0xFFFC
  Limits,       \* bound: what the user types after -rl
  Buffer,       \* bound: the memory that VirtualAlloc can give
  None          \* no query, no buffer

Dots == {".", ".."}

(* The root is in no directory, every other node in exactly one.           *)
ASSUME TreeAssumption ==
  /\ Root \in DirNode /\ DirNode \subseteq Node /\ (Dots \cup {None}) \cap Node = {}
  /\ Children \in [DirNode -> Seq(Node \ {Root})]
  /\ \A n \in Node \ {Root} :
       \E d \in DirNode : \A e \in DirNode : n \in ToSet(Children[e]) <=> e = d
ASSUME LimitsAssumption == MaxRecursion \in Nat \ {0} /\ Limits \subseteq Nat
ASSUME BufferAssumption == None \notin Buffer

VARIABLES
  pc,       \* where the loop of ls is: "idle", "show", "next", "close"
  query,    \* the handle and its FAT_QUERY_DATA
  cache,    \* dir_cache: the buffer it points to
  live,     \* the directory that each allocated buffer holds
  lost,     \* history: buffers that only a variable of an ended call pointed to
  visited   \* history: the entries returned

vars == <<pc, query, cache, live, lost, visited>>

-----------------------------------------------------------------------------
Parent(n) == IF n = Root THEN Root ELSE CHOOSE d \in DirNode : n \in ToSet(Children[d])

(* A directory's entries, by name; only the root has no "." and "..".      *)
Entries == [d \in DirNode |-> IF d = Root THEN Children[d] ELSE <<".", "..">> \o Children[d]]

EntryNode(d, i) ==
  CASE Entries[d][i] = "."  -> d
    [] Entries[d][i] = ".." -> Parent(d)
    [] OTHER                -> Entries[d][i]

(* getNextImpl: the first entry from i on.                                 *)
HasEntry(d, i) == i \in DOMAIN Entries[d]

(* FSGetFirst: a query that does not recurse has limit 1.                  *)
Clamped(recursive, limit) ==
  IF ~ recursive THEN 1
  ELSE IF limit = 0 \/ limit > MaxRecursion THEN MaxRecursion
  ELSE limit

(* The k-th directory above the one in memory, read from ".." entries, and *)
(* the index that the walk has there.                                      *)
Up[k \in 0 .. MaxRecursion] == IF k = 0 THEN query.dir ELSE Parent(Up[k - 1])

IndexAt(k) == IF k = 0 THEN query.index ELSE query.indices[query.depth - k + 1]

MoreAt(k) == HasEntry(Up[k], IndexAt(k) + 1)

EndAt(k) == \A j \in 0 .. k : ~ MoreAt(j)

-----------------------------------------------------------------------------
Query ==
  [start : DirNode, recursive : BOOLEAN, limit : 1 .. MaxRecursion, dir : DirNode,
   index : Nat \ {0}, is_dir : BOOLEAN, depth : 0 .. MaxRecursion, indices : Seq(Nat \ {0})]

ASSUME NoneAssumption == None \notin Query

MemoryOK ==
  /\ IF query = None THEN cache = None ELSE cache \in Buffer
  /\ DOMAIN live \subseteq Buffer /\ lost \subseteq Buffer
  /\ \A b \in DOMAIN live : live[b] \in DirNode

(* The indices fill at most the recursion_limit slots FSGetFirst allocates *)
(* behind the query, and the index is an entry of the directory.           *)
TypeOK ==
  /\ pc \in {"idle", "show", "next", "close"}
  /\ pc = "idle" <=> query = None
  /\ query # None =>
       /\ query \in Query
       /\ Len(query.indices) = query.depth /\ query.depth <= query.limit
       /\ HasEntry(query.dir, query.index)
  /\ MemoryOK
  /\ visited \in Seq(DirNode \X (Nat \ {0}))

Init ==
  /\ pc = "idle"
  /\ query = None
  /\ cache = None
  /\ live = <<>> /\ lost = {}
  /\ visited = <<>>

-----------------------------------------------------------------------------
At(q, d, i) == [q EXCEPT !.dir = d, !.index = i, !.is_dir = EntryNode(d, i) \in DirNode]

Returned(q) == visited' = Append(visited, <<q.dir, q.index>>)

Free == Buffer \ DOMAIN live

(* The k-th buffer that is allocated while the one before it is freed in   *)
(* turn, the first of them dir_cache, may be where dir_cache was.          *)
NewBuffers(k) == IF k > 1 /\ Free # {} THEN Free \cup {cache} ELSE Free

(* dir_cache is freed, and directory d is in buffer b.                     *)
FreeCache(b, d) ==
  live' = [c \in (DOMAIN live \ {cache}) \cup {b} |-> IF c = b THEN d ELSE live[c]]

(* The k-th buffer takes the place of dir_cache.                           *)
ReplaceCache(k, d) ==
  /\ \E b \in NewBuffers(k) : cache' = b /\ FreeCache(b, d)
  /\ UNCHANGED lost

(* ls: FSGetFirst on the current directory.                                *)
GetFirst(d, recursive, limit) ==
  /\ pc = "idle"
  /\ HasEntry(d, 1)
  /\ query' = [start |-> d, recursive |-> recursive, limit |-> Clamped(recursive, limit),
               dir |-> d, index |-> 1, is_dir |-> EntryNode(d, 1) \in DirNode,
               depth |-> 0, indices |-> <<>>]
  /\ ReplaceCache(1, d)
  /\ visited' = <<<<d, 1>>>>
  /\ pc' = "show"

(* It fails and keeps nothing: an empty directory, one that could not be   *)
(* read, no memory.                                                        *)
GetFirstFails == pc = "idle" /\ UNCHANGED vars

(* FSGetPath: the names from the entry up to the directory of the query    *)
(* and then, only if the walk has gone down, on to the root; below the     *)
(* root that ends at the cluster 0 that readFat32Data refuses.             *)
Relative ==
  [k \in 1 .. query.depth + 1 |->
     Entries[Up[query.depth + 1 - k]][IndexAt(query.depth + 1 - k)]]

PathShown ==
  IF query.depth > 0 /\ Up[query.depth] # Root THEN None ELSE Relative

Show ==
  /\ pc = "show"
  /\ \/ PathShown # None /\ pc' = "next"
     \/ pc' = "close"   \* no path, or a directory could not be read
  /\ UNCHANGED <<query, cache, live, lost, visited>>

-----------------------------------------------------------------------------
\* mutant: one level too many
CanDescendOnce ==
  /\ query.recursive
  /\ query.is_dir
  /\ query.limit >= query.depth
  /\ Entries[query.dir][query.index] \notin Dots

\* mutant: goes down into "." and ".." as well, as far as the limit allows
CanDescendDots ==
  /\ query.recursive
  /\ query.is_dir
  /\ query.limit > query.depth

(* FSGetNext goes down into the entry of the last call.                    *)
CanDescend ==
  /\ query.recursive
  /\ query.is_dir
  /\ query.limit > query.depth
  /\ Entries[query.dir][query.index] \notin Dots

Child == EntryNode(query.dir, query.index)

\* mutant: the index of the subdirectory is not kept
DescendForgets ==
  /\ pc = "next"
  /\ CanDescend
  /\ HasEntry(Child, 1)
  /\ LET q == [query EXCEPT !.dir = Child, !.index = 1, !.depth = @ + 1,
                            !.indices = Append(@, 1)]
     IN query' = q /\ Returned(q)
  /\ ReplaceCache(1, Child)
  /\ pc' = "show"

Descend ==
  /\ pc = "next"
  /\ CanDescend
  /\ HasEntry(Child, 1)
  /\ LET q == [query EXCEPT !.dir = Child, !.index = 1, !.depth = @ + 1,
                            !.indices = Append(@, query.index)]
     IN query' = q /\ Returned(q)
  /\ ReplaceCache(1, Child)
  /\ pc' = "show"

DescendFails ==
  /\ pc = "next"
  /\ CanDescend
  /\ pc' = "close"
  /\ UNCHANGED <<query, cache, live, lost, visited>>

(* Otherwise it takes the next entry here ...                              *)
Stays == pc = "next" /\ ~ (CanDescend /\ HasEntry(Child, 1))

Sibling ==
  /\ Stays
  /\ HasEntry(query.dir, query.index + 1)
  /\ LET q == At(query, query.dir, query.index + 1) IN query' = q /\ Returned(q)
  /\ pc' = "show"
  /\ UNCHANGED <<cache, live, lost>>

(* ... or goes up until a directory has one.  The buffers on the way are   *)
(* freed as soon as the one above is read.                                 *)
Ascend(k) ==
  /\ Stays
  /\ k \in 1 .. query.depth
  /\ EndAt(k - 1) /\ MoreAt(k)
  /\ \E d \in DirNode :
       /\ d = Up[k]
       /\ LET q == [At(query, d, IndexAt(k) + 1) EXCEPT
                      !.depth = @ - k, !.indices = SubSeq(@, 1, query.depth - k)]
          IN query' = q /\ Returned(q)
       /\ ReplaceCache(k, d)
  /\ pc' = "show"

(* After k directories up nothing is left, or the next could not be read:  *)
(* dir_cache still points to the first buffer, which is freed if k > 0,    *)
(* and the last one, unless it is in the same place, is in no variable     *)
(* that survives the call.                                                 *)
GoneUp(k) ==
  /\ query' = [query EXCEPT !.depth = @ - k, !.indices = SubSeq(@, 1, query.depth - k)]
  /\ \/ k = 0 /\ UNCHANGED <<live, lost>>
     \/ /\ k > 0
        /\ \E b \in NewBuffers(k), d \in DirNode :
             /\ d = Up[k]
             /\ FreeCache(b, d)
             /\ lost' = lost \cup ({b} \ {cache})
  /\ pc' = "close"
  /\ UNCHANGED <<cache, visited>>

Exhausted == Stays /\ EndAt(query.depth) /\ GoneUp(query.depth)

AscendFails(k) ==
  /\ Stays
  /\ k \in 0 .. query.depth - 1
  /\ EndAt(k)
  /\ GoneUp(k)

\* mutant: only the query is freed
CloseKeepsCache ==
  /\ pc = "close"
  /\ pc' = "idle"
  /\ query' = None /\ cache' = None /\ visited' = <<>>
  /\ UNCHANGED <<live, lost>>

(* fat32Close: frees dir_cache, which fails if it is freed already.        *)
Close ==
  /\ pc = "close"
  /\ pc' = "idle"
  /\ query' = None /\ cache' = None /\ visited' = <<>>
  /\ live' = [b \in DOMAIN live \ {cache} |-> live[b]]
  /\ UNCHANGED lost

Next ==
  \/ \E d \in DirNode, recursive \in BOOLEAN, limit \in Limits : GetFirst(d, recursive, limit)
  \/ GetFirstFails
  \/ Show
  \/ Descend
  \/ DescendFails
  \/ Sibling
  \/ \E k \in 0 .. MaxRecursion : Ascend(k) \/ AscendFails(k)
  \/ Exhausted
  \/ Close

Spec == Init /\ [][Next]_vars

-----------------------------------------------------------------------------
(* The last entries of a directory in order, each followed by what is      *)
(* listed below it.                                                        *)
Lasts(d, below) ==
  LET last[j \in 0 .. Len(Entries[d])] ==
        LET i == Len(Entries[d]) - j + 1 IN
        IF j = 0 THEN <<>>
        ELSE <<<<d, i>>>> \o (below[Entries[d][i]] \o last[j - 1])
  IN last

Item == Node \cup Dots

Nothing == [e \in Item |-> <<>>]

Listed(below) ==
  [e \in Item |-> IF e \in DirNode THEN Lasts(e, below)[Len(Entries[e])] ELSE <<>>]

(* What should be listed below an entry: its entries, n levels deep.       *)
Listing[n \in 0 .. MaxRecursion] == Listed(IF n = 0 THEN Nothing ELSE Listing[n - 1])

Wanted == Listing[IF query.recursive THEN query.limit ELSE 0][query.start]

(* The walk returns the entries of a depth-first listing, in its order and *)
(* none twice, and when it says that there are no more it has returned all *)
(* (FSGetNext, which finds its way back through ".." and saved indices).   *)
WalkIsListing ==
  query # None =>
    /\ IsPrefix(visited, Wanted)
    /\ Stays /\ EndAt(query.depth) => visited = Wanted

Into(d, name) == IF d \in DirNode /\ name \in ToSet(Children[d]) THEN name ELSE None

(* The names FSGetPath collects with the saved indices lead from the       *)
(* directory of the query to the entry the handle is about.                *)
PathMatchesEntry ==
  pc = "show" =>
    /\ LET reached[k \in 0 .. query.depth] ==
             IF k = 0 THEN query.start ELSE Into(reached[k - 1], Relative[k])
       IN reached[query.depth] = query.dir
    /\ Last(Relative) = Entries[query.dir][query.index]

(* As long as the walk goes on, dir_cache is allocated and holds the       *)
(* directory of the entry, and every buffer that is freed was allocated    *)
(* and is freed once, but for one call: that which ends a walk on the way  *)
(* up frees dir_cache and leaves it for fat32Close to free again, and it   *)
(* loses one buffer.  Nothing else is ever left behind (FSGetNext and      *)
(* fat32Close).                                                            *)
OneBuffer ==
  /\ pc \in {"show", "next"} => cache \in DOMAIN live \ lost /\ live[cache] = query.dir
  /\ pc = "close" /\ cache \notin DOMAIN live => lost # {}
  /\ DOMAIN live = lost \cup ({cache} \cap DOMAIN live)
  /\ pc = "idle" => DOMAIN live = lost

(* What is left of a walk: every entry to come is returned and shown, and  *)
(* the handle is closed.                                                   *)
StepsLeft ==
  IF query = None THEN 0
  ELSE 2 * (Len(Wanted) - Len(visited))
         + (CASE pc = "show" -> 3 [] pc = "next" -> 2 [] pc = "close" -> 1)

(* Each call of the loop of ls, whether it fails or not, brings the end of *)
(* the walk nearer: it never lists more than there is, for example by      *)
(* going down into ".." or by losing its place on the way up.              *)
WalkAdvances == [][query # None => StepsLeft' \in 0 .. StepsLeft - 1]_vars
=============================================================================
