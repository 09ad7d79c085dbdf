--------------------------- MODULE FatWalkProofs ---------------------------
(***************************************************************************)
(* Proofs about FatWalk, for any tree and limit.  The query owns exactly   *)
(* one buffer as long as the walk goes on (BufferInv), its entry and its   *)
(* saved indices stay within the directories and their buffer (TypeInv,    *)
(* which adds that the flag of the query is that of its entry, since the   *)
(* walk goes down by the flag), and the walk is the depth-first listing    *)
(* (ListInv).  That invariant names what the program never holds: the      *)
(* directories on the way down (Stack) and what is still to be listed in   *)
(* each of them (Pending); what was returned and what is pending make up   *)
(* the listing, and a step moves one entry from the one to the other, so   *)
(* that each leaves less to do.                                            *)
(***************************************************************************)
EXTENDS FatWalk, WellFoundedInduction, TLAPS

Walking == pc \in {"show", "next"}

HasQuery == Walking => "dir" \in DOMAIN query

BufferInv ==
  /\ OneBuffer /\ HasQuery
  /\ cache \notin lost /\ lost \subseteq Buffer
  /\ pc = "idle" => cache = None

LEMMA Freed ==
  ASSUME NEW b, NEW d, FreeCache(b, d)
  PROVE  DOMAIN live' = (DOMAIN live \ {cache}) \cup {b} /\ live'[b] = d
BY DEF FreeCache

(* The k-th buffer is nobody else's.                                       *)
LEMMA NewBufferIsNew ==
  ASSUME BufferInv, NEW k, NEW b \in NewBuffers(k)
  PROVE  b \notin lost /\ (b # cache => b \in Buffer)
<1>1. lost \subseteq DOMAIN live /\ cache \notin lost BY DEF BufferInv, OneBuffer
<1>2. b \in Free \/ b = cache BY DEF NewBuffers
<1> QED BY <1>1, <1>2 DEF Free

LEMMA ReplaceHolds ==
  ASSUME BufferInv, NEW k, NEW d, ReplaceCache(k, d)
  PROVE  /\ cache' \in DOMAIN live' \ lost' /\ live'[cache'] = d
         /\ DOMAIN live' = lost' \cup {cache'} /\ lost' = lost
<1>1. PICK b \in NewBuffers(k) : cache' = b /\ FreeCache(b, d) BY DEF ReplaceCache
<1>2. DOMAIN live' = (DOMAIN live \ {cache}) \cup {b} /\ live'[b] = d BY <1>1, Freed
<1>3. lost' = lost BY DEF ReplaceCache
<1>4. b \notin lost BY <1>1, NewBufferIsNew
<1>5. DOMAIN live = lost \cup ({cache} \cap DOMAIN live) /\ cache \notin lost
  BY DEF BufferInv, OneBuffer
<1> QED BY <1>1, <1>2, <1>3, <1>4, <1>5

(* The walk goes on in directory d, in the k-th buffer.                    *)
LEMMA GoesOn ==
  ASSUME BufferInv, NEW k, NEW d, ReplaceCache(k, d), query'.dir = d, "dir" \in DOMAIN query',
         pc' = "show"
  PROVE  BufferInv'
<1>1. /\ cache' \in DOMAIN live' \ lost' /\ live'[cache'] = d
      /\ DOMAIN live' = lost' \cup {cache'} /\ lost' = lost
  BY ReplaceHolds
<1>2. lost \subseteq Buffer BY DEF BufferInv
<1> QED BY <1>1, <1>2 DEF BufferInv, OneBuffer, HasQuery, Walking

(* A step that does not touch the buffers of a walk that goes on.          *)
LEMMA KeepsBuffers ==
  ASSUME BufferInv, Walking, UNCHANGED <<cache, live, lost>>,
         \/ pc' = "close"
         \/ Walking' /\ "dir" \in DOMAIN query' /\ query'.dir = query.dir
  PROVE  BufferInv'
<1>1. /\ cache \in DOMAIN live \ lost /\ live[cache] = query.dir
      /\ DOMAIN live = lost \cup ({cache} \cap DOMAIN live)
      /\ cache \notin lost /\ lost \subseteq Buffer
  BY DEF BufferInv, OneBuffer, Walking
<1>2. pc' # "idle" BY DEF Walking
<1> QED BY <1>1, <1>2 DEF BufferInv, OneBuffer, HasQuery, Walking

LEMMA GoneUpBuffers ==
  ASSUME BufferInv, Walking, NEW k, GoneUp(k)
  PROVE  BufferInv'
<1>1. pc' = "close" /\ cache' = cache BY DEF GoneUp
<1>2. CASE UNCHANGED <<live, lost>> BY <1>1, <1>2, KeepsBuffers
<1>3. ASSUME NEW b \in NewBuffers(k), NEW d \in DirNode,
             FreeCache(b, d), lost' = lost \cup ({b} \ {cache})
      PROVE  BufferInv'
  <2>1. DOMAIN live' = (DOMAIN live \ {cache}) \cup {b} BY <1>3, Freed
  <2>2. b \notin lost /\ (b # cache => b \in Buffer) BY <1>3, NewBufferIsNew
  <2>3. /\ DOMAIN live = lost \cup ({cache} \cap DOMAIN live)
        /\ cache \notin lost /\ lost \subseteq Buffer
    BY DEF BufferInv, OneBuffer
  <2>4. DOMAIN live' = lost \cup {b} BY <2>1, <2>2, <2>3
  <2>5. cache' \notin lost' /\ lost' \subseteq Buffer BY <1>1, <1>3, <2>2, <2>3
  <2>6. DOMAIN live' = lost' \cup ({cache'} \cap DOMAIN live') BY <1>1, <1>3, <2>3, <2>4
  <2>7. cache' \notin DOMAIN live' => lost' # {} BY <1>1, <1>3, <2>4
  <2> QED BY <1>1, <2>5, <2>6, <2>7 DEF BufferInv, OneBuffer, HasQuery, Walking
<1> QED BY <1>2, <1>3 DEF GoneUp

LEMMA BufferStep == BufferInv /\ [Next]_vars => BufferInv'
<1> SUFFICES ASSUME BufferInv, [Next]_vars PROVE BufferInv' OBVIOUS
<1>1. pc = "next" => Walking /\ "dir" \in DOMAIN query BY DEF BufferInv, HasQuery, Walking
<1>2. ASSUME NEW d \in DirNode, NEW recursive \in BOOLEAN, NEW limit \in Limits,
             GetFirst(d, recursive, limit)
      PROVE  BufferInv'
  <2> DEFINE q == [start |-> d, recursive |-> recursive, limit |-> Clamped(recursive, limit),
                   dir |-> d, index |-> 1, is_dir |-> EntryNode(d, 1) \in DirNode,
                   depth |-> 0, indices |-> <<>>]
  <2>1. query' = q /\ ReplaceCache(1, d) /\ pc' = "show" BY <1>2 DEF GetFirst
  <2>2. q.dir = d /\ "dir" \in DOMAIN q OBVIOUS
  <2> HIDE DEF q
  <2> QED BY <2>1, <2>2, GoesOn
<1>3. CASE Show
  <2>1. Walking /\ "dir" \in DOMAIN query BY <1>3 DEF Show, BufferInv, HasQuery, Walking
  <2>2. pc' = "close" \/ Walking' BY <1>3 DEF Show, Walking
  <2>3. UNCHANGED <<query, cache, live, lost>> BY <1>3 DEF Show
  <2> QED BY <2>1, <2>2, <2>3, KeepsBuffers
<1>4. CASE Descend
  <2> DEFINE q == [query EXCEPT !.dir = Child, !.index = 1, !.depth = @ + 1,
                                !.indices = Append(@, query.index)]
  <2>1. pc = "next" /\ query' = q /\ ReplaceCache(1, Child) /\ pc' = "show" BY <1>4 DEF Descend
  <2>2. q.dir = Child /\ "dir" \in DOMAIN q BY <1>1, <2>1
  <2> HIDE DEF q
  <2> QED BY <2>1, <2>2, GoesOn
<1>5. CASE DescendFails
  <2>1. pc = "next" /\ pc' = "close" /\ UNCHANGED <<cache, live, lost>> BY <1>5 DEF DescendFails
  <2> QED BY <1>1, <2>1, KeepsBuffers
<1>6. CASE Sibling
  <2> DEFINE q == At(query, query.dir, query.index + 1)
  <2>1. pc = "next" /\ query' = q /\ UNCHANGED <<cache, live, lost>> /\ pc' = "show"
    BY <1>6 DEF Sibling, Stays
  <2>2. q.dir = query.dir /\ "dir" \in DOMAIN q BY <1>1, <2>1 DEF At
  <2> HIDE DEF q
  <2>3. Walking' BY <2>1 DEF Walking
  <2> QED BY <1>1, <2>1, <2>2, <2>3, KeepsBuffers
<1>7. ASSUME NEW k \in 0 .. MaxRecursion, Ascend(k) PROVE BufferInv'
  <2>0. PICK d \in DirNode :
          /\ LET q == [At(query, d, IndexAt(k) + 1) EXCEPT
                         !.depth = @ - k, !.indices = SubSeq(@, 1, query.depth - k)]
             IN query' = q
          /\ ReplaceCache(k, d)
    BY <1>7 DEF Ascend
  <2> DEFINE q == [At(query, d, IndexAt(k) + 1) EXCEPT
                     !.depth = @ - k, !.indices = SubSeq(@, 1, query.depth - k)]
  <2>1. pc = "next" /\ query' = q /\ ReplaceCache(k, d) /\ pc' = "show"
    BY <1>7, <2>0 DEF Ascend, Stays
  <2>2. q.dir = d /\ "dir" \in DOMAIN q BY <1>1, <2>1 DEF At
  <2> HIDE DEF q
  <2> QED BY <2>1, <2>2, GoesOn
<1>8. ASSUME NEW k \in 0 .. MaxRecursion, AscendFails(k) PROVE BufferInv'
  <2>1. pc = "next" /\ GoneUp(k) BY <1>8 DEF AscendFails, Stays
  <2> QED BY <1>1, <2>1, GoneUpBuffers
<1>9. CASE Exhausted
  <2>1. pc = "next" /\ GoneUp(query.depth) BY <1>9 DEF Exhausted, Stays
  <2> QED BY <1>1, <2>1, GoneUpBuffers
<1>10. CASE Close
  <2>1. /\ DOMAIN live = lost \cup ({cache} \cap DOMAIN live)
        /\ cache \notin lost /\ lost \subseteq Buffer
    BY DEF BufferInv, OneBuffer
  <2>2. /\ pc' = "idle" /\ cache' = None /\ lost' = lost
        /\ DOMAIN live' = DOMAIN live \ {cache}
    BY <1>10 DEF Close
  <2>3. DOMAIN live' = lost' /\ cache' \notin lost' BY <2>1, <2>2, BufferAssumption
  <2> QED BY <2>1, <2>2, <2>3 DEF BufferInv, OneBuffer, HasQuery, Walking
<1>11. CASE UNCHANGED vars
  <2>1. UNCHANGED <<pc, query, cache, live, lost>> BY <1>11 DEF vars
  <2> QED BY <2>1 DEF BufferInv, OneBuffer, HasQuery, Walking
<1>12. CASE GetFirstFails BY <1>11, <1>12 DEF GetFirstFails
<1> QED BY <1>2, <1>3, <1>4, <1>5, <1>6, <1>7, <1>8, <1>9, <1>10, <1>11, <1>12 DEF Next

(* While a walk goes on, the directory of its entry is in dir_cache, and   *)
(* apart from it only those buffers are allocated that walks have lost on  *)
(* their way up, whatever the tree (FSGetFirst, FSGetNext, fat32Close).    *)
(* While a walk goes on, the directory of its entry is in the one buffer   *)
(* that is allocated, whatever the tree (FSGetFirst, FSGetNext).           *)
THEOREM WalkKeepsOneBuffer == Spec => []OneBuffer
<1>1. Init => BufferInv BY DEF Init, BufferInv, OneBuffer, HasQuery, Walking
<1>2. BufferInv => OneBuffer BY DEF BufferInv
<1> QED BY <1>1, <1>2, BufferStep, PTL DEF Spec

-----------------------------------------------------------------------------
FlagMatches ==
  query # None => query.is_dir = (EntryNode(query.dir, query.index) \in DirNode)

TypeInv == TypeOK /\ FlagMatches

(* An entry other than the dots is a child; "." is the directory itself.   *)
LEMMA EntryShape ==
  ASSUME NEW d \in DirNode
  PROVE  /\ DOMAIN Entries[d] \subseteq Nat \ {0}
         /\ \A i \in DOMAIN Entries[d] :
              Entries[d][i] \notin Dots =>
                /\ Entries[d][i] \in Node \ {Root}
                /\ EntryNode(d, i) = Entries[d][i]
         /\ d # Root => EntryNode(d, 1) = d
<1>1. Children[d] \in Seq(Node \ {Root}) BY TreeAssumption
<1>2. Entries[d] = IF d = Root THEN Children[d] ELSE <<".", "..">> \o Children[d]
  BY DEF Entries
<1>3. ASSUME NEW i \in DOMAIN Entries[d], Entries[d][i] \notin Dots
      PROVE  Entries[d][i] \in Node \ {Root} /\ EntryNode(d, i) = Entries[d][i]
  <2>1. EntryNode(d, i) = Entries[d][i] BY <1>3 DEF EntryNode, Dots
  <2>2. CASE d = Root BY <1>1, <1>2, <1>3, <2>1, <2>2
  <2>3. CASE d # Root
    <3>1. Entries[d] = <<".", "..">> \o Children[d] BY <1>2, <2>3
    <3>2. i \in 1 .. 2 + Len(Children[d]) BY <1>1, <1>3, <3>1
    <3>3. CASE i = 1 BY <1>1, <1>3, <3>1, <3>3 DEF Dots
    <3>4. CASE i = 2 BY <1>1, <1>3, <3>1, <3>4 DEF Dots
    <3>5. CASE i > 2
      <4>1. Entries[d][i] = Children[d][i - 2] /\ i - 2 \in 1 .. Len(Children[d])
        BY <1>1, <3>1, <3>2, <3>5
      <4> QED BY <1>1, <2>1, <4>1
    <3> QED BY <3>2, <3>3, <3>4, <3>5
  <2> QED BY <2>1, <2>2, <2>3
<1>4. DOMAIN Entries[d] \subseteq Nat \ {0} BY <1>1, <1>2
<1>5. ASSUME d # Root PROVE EntryNode(d, 1) = d
  <2>1. Entries[d][1] = "." BY <1>1, <1>2, <1>5
  <2> QED BY <2>1 DEF EntryNode
<1> QED BY <1>3, <1>4, <1>5

(* A query that is about another entry.                                   *)
LEMMA AtQuery ==
  ASSUME NEW p \in Query, NEW d \in DirNode, NEW i \in Nat \ {0}, NEW q, q = At(p, d, i)
  PROVE  /\ q \in Query /\ q.limit = p.limit /\ q.dir = d /\ q.index = i
         /\ q.is_dir = (EntryNode(d, i) \in DirNode)
         /\ q.depth = p.depth /\ q.indices = p.indices
         /\ q.start = p.start /\ q.recursive = p.recursive
<1> DEFINE f == EntryNode(d, i) \in DirNode
<1>1. q = [p EXCEPT !.dir = d, !.index = i, !.is_dir = f] BY DEF At
<1>2. f \in BOOLEAN OBVIOUS
<1> HIDE DEF f
<1>3. /\ q \in Query /\ q.limit = p.limit /\ q.dir = d /\ q.index = i
      /\ q.is_dir = f /\ q.depth = p.depth /\ q.indices = p.indices
      /\ q.start = p.start /\ q.recursive = p.recursive
  BY <1>1, <1>2 DEF Query
<1> QED BY <1>3 DEF f

LEMMA ClampedRange ==
  ASSUME NEW recursive \in BOOLEAN, NEW limit \in Limits
  PROVE  Clamped(recursive, limit) \in 1 .. MaxRecursion
BY LimitsAssumption DEF Clamped

LEMMA ReplaceTypes ==
  ASSUME TypeOK, NEW d \in DirNode, NEW k, query # None \/ k = 1, ReplaceCache(k, d), query' # None
  PROVE  MemoryOK'
<1>1. PICK b \in NewBuffers(k) : cache' = b /\ FreeCache(b, d) BY DEF ReplaceCache
<1>2. MemoryOK BY DEF TypeOK
<1>3. b \in Buffer
  <2>1. CASE query # None BY <1>2, <2>1 DEF NewBuffers, Free, MemoryOK
  <2>2. CASE k = 1 BY <2>2 DEF NewBuffers, Free
  <2> QED BY <2>1, <2>2
<1>4. lost' = lost BY DEF ReplaceCache
<1> QED BY <1>1, <1>2, <1>3, <1>4 DEF MemoryOK, FreeCache

LEMMA SameMemory ==
  ASSUME MemoryOK, UNCHANGED <<cache, live, lost>>, query = None <=> query' = None
  PROVE  MemoryOK'
BY DEF MemoryOK

(* A query that has moved to another entry, with the indices that are      *)
(* left of those it had or one more.                                       *)
LEMMA MovedTypes ==
  ASSUME TypeOK, NEW q \in Query, HasEntry(q.dir, q.index),
         Len(q.indices) = q.depth, q.depth <= q.limit,
         q.is_dir = (EntryNode(q.dir, q.index) \in DirNode),
         query' = q, Returned(q), pc' = "show", MemoryOK'
  PROVE  TypeInv'
<1>1. q # None BY NoneAssumption
<1>2. visited' \in Seq(DirNode \X (Nat \ {0}))
  <2>1. q.index \in Nat \ {0} /\ q.dir \in DirNode BY DEF Query
  <2>2. visited \in Seq(DirNode \X (Nat \ {0})) BY DEF TypeOK
  <2> QED BY <2>1, <2>2 DEF Returned
<1> QED BY <1>1, <1>2 DEF TypeInv, TypeOK, FlagMatches

(* The entry that the walk goes on with in a directory it has come up to.  *)
LEMMA Climbed ==
  ASSUME TypeOK, query # None, NEW k \in 0 .. query.depth, NEW d \in DirNode, d = Up[k], MoreAt(k),
         NEW q, q = [At(query, d, IndexAt(k) + 1) EXCEPT
                       !.depth = @ - k, !.indices = SubSeq(@, 1, query.depth - k)]
  PROVE  /\ q \in Query /\ HasEntry(q.dir, q.index)
         /\ Len(q.indices) = q.depth /\ q.depth <= q.limit
         /\ q.is_dir = (EntryNode(q.dir, q.index) \in DirNode)
<1>1. /\ query \in Query /\ Len(query.indices) = query.depth
      /\ query.depth <= query.limit /\ query.limit \in 1 .. MaxRecursion
  BY DEF TypeOK, Query
<1>2. k \in Nat /\ k <= query.depth /\ query.depth \in Nat /\ query.indices \in Seq(Nat \ {0})
  BY <1>1 DEF Query
<1>3. IndexAt(k) \in Nat \ {0}
  <2>1. CASE k = 0 BY <1>1, <2>1 DEF IndexAt, Query
  <2>2. CASE k # 0
    <3>1. query.depth - k + 1 \in 1 .. Len(query.indices) BY <1>1, <1>2, <2>2
    <3>2. query.indices[query.depth - k + 1] \in Nat \ {0} BY <1>2, <3>1
    <3> QED BY <2>2, <3>2 DEF IndexAt
  <2> QED BY <2>1, <2>2
<1>4. HasEntry(d, IndexAt(k) + 1) BY DEF MoreAt
<1>5. /\ SubSeq(query.indices, 1, query.depth - k) \in Seq(Nat \ {0})
      /\ Len(SubSeq(query.indices, 1, query.depth - k)) = query.depth - k
  BY <1>1, <1>2
<1>6. IndexAt(k) + 1 \in Nat \ {0} BY <1>3
<1>7. query.depth - k \in 0 .. MaxRecursion BY <1>1, <1>2, LimitsAssumption DEF Query
<1> DEFINE m == At(query, d, IndexAt(k) + 1)
<1>8. /\ m \in Query /\ m.limit = query.limit /\ m.dir = d /\ m.index = IndexAt(k) + 1
      /\ m.is_dir = (EntryNode(d, IndexAt(k) + 1) \in DirNode)
      /\ m.depth = query.depth /\ m.indices = query.indices
  BY <1>1, <1>6, AtQuery
<1>9. q = [m EXCEPT !.depth = m.depth - k, !.indices = SubSeq(m.indices, 1, query.depth - k)]
  OBVIOUS
<1> HIDE DEF m
<1> DEFINE n == query.depth - k
           x == SubSeq(query.indices, 1, query.depth - k)
<1>10. q = [m EXCEPT !.depth = n, !.indices = x] BY <1>8, <1>9
<1>11. n \in 0 .. MaxRecursion /\ x \in Seq(Nat \ {0}) BY <1>5, <1>7
<1>12. Len(x) = n /\ n <= query.limit BY <1>1, <1>2, <1>5, LimitsAssumption
<1> HIDE DEF n, x
<1>13. /\ q \in Query /\ q.limit = m.limit /\ q.dir = m.dir /\ q.index = m.index
       /\ q.is_dir = m.is_dir /\ q.depth = n /\ q.indices = x
  BY <1>8, <1>10, <1>11 DEF Query
<1> QED BY <1>4, <1>8, <1>12, <1>13

(* A walk that ends keeps its entry, and as many indices as directories.   *)
LEMMA GoneUpTypes ==
  ASSUME TypeInv, query # None, NEW k \in 0 .. query.depth, GoneUp(k)
  PROVE  TypeInv'
<1>1. /\ query \in Query /\ Len(query.indices) = query.depth
      /\ query.depth <= query.limit /\ query.limit \in 1 .. MaxRecursion
      /\ HasEntry(query.dir, query.index)
  BY DEF TypeInv, TypeOK, Query
<1>2. k \in Nat /\ k <= query.depth /\ query.depth \in Nat /\ query.indices \in Seq(Nat \ {0})
  BY <1>1 DEF Query
<1> DEFINE n == query.depth - k
           x == SubSeq(query.indices, 1, query.depth - k)
           q == [query EXCEPT !.depth = n, !.indices = x]
<1>3. x \in Seq(Nat \ {0}) /\ Len(x) = n /\ n <= query.limit BY <1>1, <1>2, LimitsAssumption
<1>4. n \in 0 .. MaxRecursion BY <1>1, <1>2, LimitsAssumption DEF Query
<1>5. query' = [query EXCEPT !.depth = query.depth - k,
                             !.indices = SubSeq(query.indices, 1, query.depth - k)]
      /\ pc' = "close" /\ UNCHANGED <<cache, visited>>
  BY DEF GoneUp
<1>6. query' = q /\ pc' = "close" /\ UNCHANGED <<cache, visited>> BY <1>5
<1> HIDE DEF n, x
<1>7. /\ q \in Query /\ q.limit = query.limit /\ q.dir = query.dir /\ q.index = query.index
      /\ q.is_dir = query.is_dir /\ q.depth = n /\ q.indices = x
  BY <1>1, <1>3, <1>4 DEF Query
<1> HIDE DEF q
<1>8. q \in Query BY <1>7
<1>9. q # None BY <1>8, NoneAssumption
<1>10. q.depth <= q.limit BY <1>3, <1>7
<1>11. MemoryOK'
  <2>1. MemoryOK /\ cache \in Buffer BY DEF TypeInv, TypeOK, MemoryOK
  <2>2. query' # None /\ cache' = cache BY <1>6, <1>9
  <2>3. CASE UNCHANGED <<live, lost>> BY <2>1, <2>2, <2>3, SameMemory
  <2>4. ASSUME NEW b \in NewBuffers(k), NEW d \in DirNode,
               FreeCache(b, d), lost' = lost \cup ({b} \ {cache})
        PROVE  MemoryOK'
    <3>1. b \in Buffer BY <2>1, <2>4 DEF NewBuffers, Free
    <3> QED BY <2>1, <2>2, <2>4, <3>1 DEF MemoryOK, FreeCache
  <2> QED BY <2>3, <2>4 DEF GoneUp
<1>12. TypeOK'
  BY <1>1, <1>3, <1>6, <1>7, <1>8, <1>9, <1>10, <1>11 DEF TypeInv, TypeOK, HasEntry
<1>13. FlagMatches' BY <1>6, <1>7, <1>9 DEF TypeInv, FlagMatches, EntryNode, Parent
<1> QED BY <1>12, <1>13 DEF TypeInv

LEMMA TypeStep == TypeInv /\ [Next]_vars => TypeInv'
<1> SUFFICES ASSUME TypeInv, [Next]_vars PROVE TypeInv' OBVIOUS
<1>0. TypeOK /\ FlagMatches BY DEF TypeInv
<1>1. ASSUME NEW d \in DirNode, NEW recursive \in BOOLEAN, NEW limit \in Limits,
             GetFirst(d, recursive, limit)
      PROVE  TypeInv'
  <2> DEFINE q == [start |-> d, recursive |-> recursive, limit |-> Clamped(recursive, limit),
                   dir |-> d, index |-> 1, is_dir |-> EntryNode(d, 1) \in DirNode,
                   depth |-> 0, indices |-> <<>>]
  <2>1. query' = q /\ ReplaceCache(1, d) /\ visited' = <<<<d, 1>>>>
        /\ pc' = "show" /\ HasEntry(d, 1)
    BY <1>1 DEF GetFirst
  <2>2. q \in Query
    <3>1. Clamped(recursive, limit) \in 1 .. MaxRecursion BY ClampedRange
    <3>2. 0 \in 0 .. MaxRecursion BY LimitsAssumption
    <3> QED BY <3>1, <3>2 DEF Query
  <2>3. q.dir = d /\ q.index = 1 /\ q.depth = 0 /\ q.indices = <<>>
        /\ q.limit \in 1 .. MaxRecursion /\ q.is_dir = (EntryNode(d, 1) \in DirNode)
    BY ClampedRange
  <2> HIDE DEF q
  <2>4. q # None BY <2>2, NoneAssumption
  <2>5. MemoryOK' BY <1>0, <2>1, <2>4, ReplaceTypes
  <2>6. visited' \in Seq(DirNode \X (Nat \ {0})) BY <2>1
  <2>7. TypeOK' BY <2>1, <2>2, <2>3, <2>4, <2>5, <2>6, LimitsAssumption DEF TypeOK, HasEntry
  <2>8. FlagMatches' BY <2>1, <2>3 DEF FlagMatches, EntryNode, Parent
  <2> QED BY <2>7, <2>8 DEF TypeInv
<1>2. CASE Show
  <2>1. pc = "show" /\ pc' \in {"next", "close"} /\ UNCHANGED <<query, cache, live, lost, visited>>
    BY <1>2 DEF Show
  <2>2. MemoryOK' BY <1>0, <2>1, SameMemory DEF TypeOK
  <2> QED BY <1>0, <2>1, <2>2 DEF TypeInv, TypeOK, FlagMatches, HasEntry, EntryNode, Parent
<1>3. CASE Descend
  <2> DEFINE q == [query EXCEPT !.dir = Child, !.index = 1, !.depth = @ + 1,
                                !.indices = Append(@, query.index)]
  <2>1. pc = "next" /\ CanDescend /\ HasEntry(Child, 1) /\ query' = q /\ Returned(q)
        /\ ReplaceCache(1, Child) /\ pc' = "show"
    BY <1>3 DEF Descend
  <2>2. query # None /\ query \in Query /\ Len(query.indices) = query.depth
        /\ HasEntry(query.dir, query.index)
    BY <1>0, <2>1 DEF TypeOK
  <2>3. query.dir \in DirNode /\ query.depth \in Nat /\ query.limit \in 1 .. MaxRecursion
        /\ query.index \in Nat \ {0} /\ query.indices \in Seq(Nat \ {0})
    BY <2>2 DEF Query
  <2>4. query.limit > query.depth /\ query.is_dir = TRUE
        /\ Entries[query.dir][query.index] \notin Dots
    BY <2>1, <2>2 DEF CanDescend, Query
  <2>5. Child \in DirNode BY <1>0, <2>2, <2>4 DEF FlagMatches, Child
  <2>6. Child # Root BY <2>2, <2>3, <2>4, EntryShape DEF Child, HasEntry
  <2>7. EntryNode(Child, 1) = Child BY <2>5, <2>6, EntryShape
  <2> DEFINE i == 1
             n == query.depth + 1
             x == Append(query.indices, query.index)
  <2>8. x \in Seq(Nat \ {0}) /\ Len(x) = n BY <2>2, <2>3
  <2>9. n \in 0 .. MaxRecursion /\ n <= query.limit BY <2>3, <2>4, LimitsAssumption
  <2>10. q = [query EXCEPT !.dir = Child, !.index = i, !.depth = n, !.indices = x] OBVIOUS
  <2>11. i \in Nat \ {0} OBVIOUS
  <2> HIDE DEF q, i, n, x
  <2>12. /\ q \in Query /\ q.limit = query.limit /\ q.dir = Child /\ q.index = i
         /\ q.is_dir = query.is_dir /\ q.depth = n /\ q.indices = x
    BY <2>2, <2>5, <2>8, <2>9, <2>10, <2>11 DEF Query
  <2>13. MemoryOK'
    <3>1. query' # None BY <2>1, <2>12, NoneAssumption
    <3> QED BY <1>0, <2>1, <2>5, <3>1, ReplaceTypes
  <2>14. q.is_dir = (EntryNode(q.dir, q.index) \in DirNode) BY <2>4, <2>5, <2>7, <2>12 DEF i
  <2>15. HasEntry(q.dir, q.index) /\ Len(q.indices) = q.depth /\ q.depth <= q.limit
    BY <2>1, <2>8, <2>9, <2>12 DEF i
  <2> QED BY <1>0, <2>1, <2>12, <2>13, <2>14, <2>15, MovedTypes
<1>4. CASE DescendFails
  <2>1. pc = "next" /\ pc' = "close" /\ UNCHANGED <<query, cache, live, lost, visited>>
    BY <1>4 DEF DescendFails
  <2>2. MemoryOK' BY <1>0, <2>1, SameMemory DEF TypeOK
  <2> QED BY <1>0, <2>1, <2>2 DEF TypeInv, TypeOK, FlagMatches, HasEntry, EntryNode, Parent
<1>5. CASE Sibling
  <2> DEFINE q == At(query, query.dir, query.index + 1)
  <2>1. pc = "next" /\ query' = q /\ Returned(q) /\ pc' = "show" /\ UNCHANGED <<cache, live, lost>>
    BY <1>5 DEF Sibling, Stays
  <2>2. query # None /\ query \in Query /\ Len(query.indices) = query.depth
        /\ query.depth <= query.limit
    BY <1>0, <2>1 DEF TypeOK
  <2>3. HasEntry(query.dir, query.index + 1) BY <1>5 DEF Sibling
  <2>4. query.dir \in DirNode /\ query.index + 1 \in Nat \ {0} BY <2>2 DEF Query
  <2> HIDE DEF q
  <2>5. q = At(query, query.dir, query.index + 1) BY DEF q
  <2>7. /\ q \in Query /\ q.limit = query.limit /\ q.dir = query.dir /\ q.index = query.index + 1
        /\ q.is_dir = (EntryNode(query.dir, query.index + 1) \in DirNode)
        /\ q.depth = query.depth /\ q.indices = query.indices
    BY <2>2, <2>4, <2>5, AtQuery
  <2>8. MemoryOK'
    <3>1. query' # None BY <2>1, <2>7, NoneAssumption
    <3> QED BY <1>0, <2>1, <2>2, <3>1, SameMemory DEF TypeOK
  <2>9. HasEntry(q.dir, q.index) /\ Len(q.indices) = q.depth /\ q.depth <= q.limit
        /\ q.is_dir = (EntryNode(q.dir, q.index) \in DirNode)
    BY <2>2, <2>3, <2>7
  <2> QED BY <1>0, <2>1, <2>7, <2>8, <2>9, MovedTypes
<1>6. ASSUME NEW k \in 0 .. MaxRecursion, Ascend(k) PROVE TypeInv'
  <2>1. PICK d \in DirNode :
          /\ d = Up[k]
          /\ LET q == [At(query, d, IndexAt(k) + 1) EXCEPT
                         !.depth = @ - k, !.indices = SubSeq(@, 1, query.depth - k)]
             IN query' = q /\ Returned(q)
          /\ ReplaceCache(k, d)
    BY <1>6 DEF Ascend
  <2> DEFINE q == [At(query, d, IndexAt(k) + 1) EXCEPT
                     !.depth = @ - k, !.indices = SubSeq(@, 1, query.depth - k)]
  <2>2. query' = q /\ Returned(q) BY <2>1
  <2>3. pc = "next" /\ k \in 1 .. query.depth /\ MoreAt(k) /\ pc' = "show"
    BY <1>6 DEF Ascend, Stays
  <2>4. query # None BY <1>0, <2>3 DEF TypeOK
  <2>5. k \in 0 .. query.depth BY <2>3
  <2>6. /\ q \in Query /\ HasEntry(q.dir, q.index)
        /\ Len(q.indices) = q.depth /\ q.depth <= q.limit
        /\ q.is_dir = (EntryNode(q.dir, q.index) \in DirNode)
    BY <1>0, <2>1, <2>3, <2>4, <2>5, Climbed
  <2> HIDE DEF q
  <2>7. MemoryOK'
    <3>1. query' # None BY <2>2, <2>6, NoneAssumption
    <3> QED BY <1>0, <2>1, <2>4, <3>1, ReplaceTypes
  <2> QED BY <1>0, <2>2, <2>3, <2>6, <2>7, MovedTypes
<1>7. ASSUME NEW k \in 0 .. MaxRecursion, AscendFails(k) PROVE TypeInv'
  <2>1. pc = "next" /\ k \in 0 .. query.depth - 1 /\ GoneUp(k) BY <1>7 DEF AscendFails, Stays
  <2>2. query # None /\ query.depth \in Nat BY <1>0, <2>1 DEF TypeOK, Query
  <2>3. k \in 0 .. query.depth BY <2>1, <2>2
  <2> QED BY <2>1, <2>2, <2>3, GoneUpTypes
<1>8. CASE Exhausted
  <2>1. pc = "next" /\ GoneUp(query.depth) BY <1>8 DEF Exhausted, Stays
  <2>2. query # None /\ query.depth \in 0 .. query.depth BY <1>0, <2>1 DEF TypeOK, Query
  <2> QED BY <2>1, <2>2, GoneUpTypes
<1>9. CASE Close
  <2>1. pc' = "idle" /\ query' = None /\ visited' = <<>> /\ cache' = None
    BY <1>9 DEF Close
  <2>4. MemoryOK' BY <1>0, <1>9, <2>1 DEF TypeOK, MemoryOK, Close
  <2>2. TypeOK' BY <1>0, <2>1, <2>4 DEF TypeOK
  <2>3. FlagMatches' BY <2>1 DEF FlagMatches
  <2> QED BY <2>2, <2>3 DEF TypeInv
<1>10. CASE UNCHANGED vars \/ GetFirstFails
  <2>1. UNCHANGED vars BY <1>10 DEF GetFirstFails
  <2>2. MemoryOK' BY <1>0, <2>1, SameMemory DEF TypeOK, vars
  <2> QED BY <1>0, <2>1, <2>2 DEF vars, TypeInv, TypeOK, FlagMatches, HasEntry, EntryNode, Parent
<1> QED BY <1>1, <1>2, <1>3, <1>4, <1>5, <1>6, <1>7, <1>8, <1>9, <1>10 DEF Next

(* The walk is always at an entry of the directory in memory, and the      *)
(* indices it keeps fill at most the recursion_limit slots behind the      *)
(* query, for any tree and limit (FSGetFirst, FSGetNext).                  *)
THEOREM TypeCorrect == Spec => []TypeOK
<1>1. Init => TypeInv
  <2>1. Init => TypeOK BY DEF Init, TypeOK, MemoryOK
  <2>2. Init => FlagMatches BY DEF Init, FlagMatches
  <2> QED BY <2>1, <2>2 DEF TypeInv
<1>2. TypeInv => TypeOK BY DEF TypeInv
<1> QED BY <1>1, <1>2, TypeStep, PTL DEF Spec
-----------------------------------------------------------------------------
(* Induction on a set of numbers, from the least number outside of it.     *)
LEMMA NatSetInduction ==
  ASSUME NEW T, 0 \in T, \A n \in Nat : n \in T => n + 1 \in T
  PROVE  Nat \subseteq T
<1> SUFFICES ASSUME Nat \ T # {} PROVE FALSE OBVIOUS
<1>1. PICK x \in Nat \ T : \A y \in Nat \ T : ~ (<<y, x>> \in OpToRel(<, Nat))
  <2>1. IsWellFoundedOn(OpToRel(<, Nat), Nat) BY NatLessThanWellFounded
  <2> QED BY <2>1, WFMin
<1>2. \A y \in Nat \ T : ~ (y < x) BY <1>1 DEF OpToRel
<1>3. x - 1 \in Nat /\ x - 1 \notin Nat \ T BY <1>2
<1>4. x - 1 + 1 = x /\ x \notin T OBVIOUS
<1> QED BY <1>3, <1>4

(* There is a function that is defined by recursion on its argument.       *)
Unfolds(g, S, c, N, D) ==
  g \in [0 .. N -> S] /\ g[0] = c /\ \A n \in 1 .. N : g[n] = D[<<g[n - 1], n>>]

LEMMA Recursion ==
  ASSUME NEW S, NEW c, c \in S, NEW N, N \in Nat, NEW D, D \in [S \X (1 .. N) -> S]
  PROVE  \E g : Unfolds(g, S, c, N, D)
<1> DEFINE Begins(g, k) == /\ g \in [0 .. k -> S] /\ g[0] = c
                           /\ \A n \in 1 .. k : g[n] = D[<<g[n - 1], n>>]
           T == {k \in Nat : k <= N => \E g : Begins(g, k)}
<1>1. 0 \in T
  <2>1. Begins([n \in 0 .. 0 |-> c], 0) OBVIOUS
  <2> QED BY <2>1
<1>2. ASSUME NEW k \in Nat, k \in T PROVE k + 1 \in T
  <2> SUFFICES ASSUME k + 1 <= N PROVE \E h : Begins(h, k + 1) OBVIOUS
  <2>1. PICK g : Begins(g, k) BY <1>2
  <2> DEFINE h == [n \in 0 .. k + 1 |-> IF n <= k THEN g[n] ELSE D[<<g[k], k + 1>>]]
  <2>2. g[k] \in S /\ k + 1 \in 1 .. N BY <2>1
  <2>3. h \in [0 .. k + 1 -> S] /\ h[0] = c BY <2>1, <2>2
  <2>4. ASSUME NEW n \in 1 .. k + 1 PROVE h[n] = D[<<h[n - 1], n>>]
    <3>1. n - 1 \in 0 .. k /\ h[n - 1] = g[n - 1] OBVIOUS
    <3>2. CASE n \in 1 .. k
      <4>1. h[n] = g[n] BY <3>2
      <4> QED BY <2>1, <3>1, <3>2, <4>1
    <3>3. CASE n = k + 1
      <4>1. h[n] = D[<<g[k], k + 1>>] BY <3>3
      <4>2. n - 1 = k BY <3>3
      <4> QED BY <3>1, <3>3, <4>1, <4>2
    <3> QED BY <3>2, <3>3
  <2> QED BY <2>3, <2>4
<1> HIDE DEF T
<1>3. N \in T BY <1>1, <1>2, NatSetInduction
<1> QED BY <1>3 DEF T, Unfolds

-----------------------------------------------------------------------------
(* What the listing of a directory is made of.                             *)
Out == Seq(DirNode \X (Nat \ {0}))

LEMMA EntriesType ==
  ASSUME NEW d \in DirNode
  PROVE  Entries[d] \in Seq(Item) /\ DOMAIN Entries[d] = 1 .. Len(Entries[d])
         /\ Len(Entries[d]) \in Nat
<1>1. Children[d] \in Seq(Item)
  <2>1. Children[d] \in Seq(Node \ {Root}) BY TreeAssumption
  <2>2. Node \ {Root} \subseteq Item BY DEF Item
  <2> DEFINE S == Node \ {Root}
  <2>3. S \subseteq Item BY <2>2
  <2>4. Children[d] \in Seq(S) BY <2>1
  <2> HIDE DEF S
  <2> QED BY <2>3, <2>4
<1>2. <<".", "..">> \in Seq(Item) BY DEF Item, Dots
<1>3. Entries[d] = IF d = Root THEN Children[d] ELSE <<".", "..">> \o Children[d]
  BY DEF Entries
<1> HIDE DEF Item
<1>4. Entries[d] \in Seq(Item) BY <1>1, <1>2, <1>3
<1> QED BY <1>4

LEMMA LastsRecursion ==
  ASSUME NEW d \in DirNode, NEW below \in [Item -> Out]
  PROVE  /\ Lasts(d, below) \in [0 .. Len(Entries[d]) -> Out]
         /\ Lasts(d, below)[0] = <<>>
         /\ \A j \in 1 .. Len(Entries[d]) :
              Lasts(d, below)[j] =
                <<<<d, Len(Entries[d]) - j + 1>>>>
                \o (below[Entries[d][Len(Entries[d]) - j + 1]] \o Lasts(d, below)[j - 1])
<1> DEFINE N == Len(Entries[d])
           Head1(j) == <<<<d, N - j + 1>>>>
           Under(j) == below[Entries[d][N - j + 1]]
           D == [x \in Out \X (1 .. N) |-> Head1(x[2]) \o (Under(x[2]) \o x[1])]
           Sound(g) == g = [j \in 0 .. N |-> IF j = 0 THEN <<>> ELSE Head1(j) \o (Under(j) \o g[j - 1])]
<1>1. N \in Nat BY EntriesType
<1>2. ASSUME NEW j \in 1 .. N PROVE Head1(j) \in Out /\ Under(j) \in Out
  <2>1. N - j + 1 \in 1 .. N BY <1>1
  <2>2. <<d, N - j + 1>> \in DirNode \X (Nat \ {0}) BY <2>1
  <2>3. Entries[d][N - j + 1] \in Item BY <2>1, EntriesType
  <2> HIDE DEF N
  <2> QED BY <2>2, <2>3 DEF Out
<1>3. <<>> \in Out BY DEF Out
<1>4. ASSUME NEW x \in Out, NEW y \in Out PROVE x \o y \in Out BY DEF Out
<1>5. Lasts(d, below) = CHOOSE g : Sound(g) BY DEF Lasts
<1> HIDE DEF N, Head1, Under
<1>6. D \in [Out \X (1 .. N) -> Out]
  <2> SUFFICES ASSUME NEW x \in Out \X (1 .. N) PROVE Head1(x[2]) \o (Under(x[2]) \o x[1]) \in Out
    OBVIOUS
  <2>1. x[1] \in Out /\ x[2] \in 1 .. N OBVIOUS
  <2> QED BY <2>1, <1>2, <1>4
<1>7. \A x \in Out, j \in 1 .. N : D[<<x, j>>] = Head1(j) \o (Under(j) \o x) OBVIOUS
<1> HIDE DEF D
<1>8. PICK g : Unfolds(g, Out, <<>>, N, D) BY <1>1, <1>3, <1>6, Recursion
<1>9. g \in [0 .. N -> Out] /\ g[0] = <<>> /\ \A j \in 1 .. N : g[j] = D[<<g[j - 1], j>>]
  BY <1>8 DEF Unfolds
<1>10. \A j \in 1 .. N : g[j] = Head1(j) \o (Under(j) \o g[j - 1])
  <2> TAKE j \in 1 .. N
  <2>1. j - 1 \in 0 .. N BY <1>1
  <2>2. g[j - 1] \in Out BY <1>9, <2>1
  <2> QED BY <1>7, <1>9, <2>2
<1>11. Sound(g) BY <1>1, <1>9, <1>10
<1> DEFINE L == Lasts(d, below)
<1>12. Sound(L) BY <1>5, <1>11
<1> HIDE DEF L
<1>13. L[0] = <<>> BY <1>1, <1>12
<1>14. \A j \in 1 .. N : L[j] = Head1(j) \o (Under(j) \o L[j - 1])
  <2> TAKE j \in 1 .. N
  <2>1. j \in 0 .. N /\ j # 0 BY <1>1
  <2>2. L[j] = IF j = 0 THEN <<>> ELSE Head1(j) \o (Under(j) \o L[j - 1]) BY <1>12, <2>1, Zenon
  <2> QED BY <2>1, <2>2
<1>15. \A j \in 0 .. N : L[j] \in Out
  <2> DEFINE T == {j \in Nat : j <= N => L[j] \in Out}
  <2>1. 0 \in T BY <1>3, <1>13
  <2>2. ASSUME NEW m \in 1 .. N, L[m - 1] \in Out PROVE L[m] \in Out
    <3>1. L[m] = Head1(m) \o (Under(m) \o L[m - 1]) BY <1>14
    <3> QED BY <2>2, <3>1, <1>2, <1>4
  <2>3. ASSUME NEW j \in Nat, j \in T PROVE j + 1 \in T
    <3> SUFFICES ASSUME j + 1 <= N PROVE L[j + 1] \in Out OBVIOUS
    <3>1. j + 1 \in 1 .. N /\ j + 1 - 1 = j BY <1>1
    <3>2. L[j] \in Out BY <1>1, <2>3
    <3> QED BY <2>2, <3>1, <3>2
  <2> HIDE DEF T
  <2>4. Nat \subseteq T BY <2>1, <2>3, NatSetInduction
  <2> QED BY <1>1, <2>4 DEF T
<1>16. L \in [0 .. N -> Out] BY <1>12, <1>15
<1> QED BY <1>13, <1>14, <1>16 DEF N, Head1, Under, L

LEMMA ListedType ==
  ASSUME NEW below \in [Item -> Out] PROVE Listed(below) \in [Item -> Out]
<1> SUFFICES ASSUME NEW e \in Item
             PROVE  (IF e \in DirNode THEN Lasts(e, below)[Len(Entries[e])] ELSE <<>>) \in Out
  BY DEF Listed
<1>1. <<>> \in Out BY DEF Out
<1>2. ASSUME e \in DirNode PROVE Lasts(e, below)[Len(Entries[e])] \in Out
  <2>1. Len(Entries[e]) \in 0 .. Len(Entries[e]) BY <1>2, EntriesType
  <2> QED BY <1>2, <2>1, LastsRecursion
<1> QED BY <1>1, <1>2

(* What is listed below an entry with n levels still to go.                *)
Sub(n) == IF n = 0 THEN Nothing ELSE Listing[n - 1]

LEMMA ListingRecursion ==
  /\ \A n \in 0 .. MaxRecursion : Sub(n) \in [Item -> Out] /\ Listing[n] = Listed(Sub(n))
  /\ Listing \in [0 .. MaxRecursion -> [Item -> Out]]
<1> DEFINE N == MaxRecursion
           F == [Item -> Out]
           D == [x \in F \X (1 .. N) |-> Listed(x[1])]
           Sound(g) == g = [n \in 0 .. N |-> Listed(IF n = 0 THEN Nothing ELSE g[n - 1])]
<1>1. N \in Nat BY LimitsAssumption
<1>2. Nothing \in F
  <2>1. <<>> \in Out BY DEF Out
  <2> QED BY <2>1 DEF Nothing
<1>3. \A x \in F : Listed(x) \in F BY ListedType
<1>4. Listing = CHOOSE g : Sound(g) BY DEF Listing
<1> HIDE DEF N, F
<1>5. D \in [F \X (1 .. N) -> F] BY <1>3
<1>6. \A x \in F, n \in 1 .. N : D[<<x, n>>] = Listed(x) OBVIOUS
<1> HIDE DEF D
<1>7. PICK g : Unfolds(g, F, Listed(Nothing), N, D)
  <2>1. Listed(Nothing) \in F BY <1>2, <1>3
  <2> DEFINE c == Listed(Nothing)
  <2>2. c \in F BY <2>1
  <2> HIDE DEF c
  <2>3. \E g : Unfolds(g, F, c, N, D) BY <1>1, <1>5, <2>2, Recursion
  <2> QED BY <2>3 DEF c
<1>8. g \in [0 .. N -> F] /\ g[0] = Listed(Nothing) /\ \A n \in 1 .. N : g[n] = D[<<g[n - 1], n>>]
  BY <1>7 DEF Unfolds
<1>9. \A n \in 1 .. N : g[n] = Listed(g[n - 1])
  <2> TAKE n \in 1 .. N
  <2>1. n - 1 \in 0 .. N BY <1>1
  <2>2. g[n - 1] \in F BY <1>8, <2>1
  <2> QED BY <1>6, <1>8, <2>2
<1>10. Sound(g)
  <2> SUFFICES ASSUME NEW n \in 0 .. N
               PROVE  g[n] = Listed(IF n = 0 THEN Nothing ELSE g[n - 1])
    BY <1>8
  <2>1. CASE n = 0 BY <1>8, <2>1
  <2>2. CASE n # 0
    <3>1. n \in 1 .. N BY <1>1, <2>2
    <3>2. (IF n = 0 THEN Nothing ELSE g[n - 1]) = g[n - 1] BY <2>2
    <3>3. g[n] = Listed(g[n - 1]) BY <1>9, <3>1
    <3> QED BY <3>2, <3>3
  <2> QED BY <2>1, <2>2
<1>11. Sound(Listing) BY <1>4, <1>10
<1>12. \A n \in 0 .. N : Listing[n] = Listed(Sub(n)) BY <1>11 DEF Sub
<1>13. \A n \in 0 .. N : Listing[n] \in F
  <2> DEFINE T == {n \in Nat : n <= N => Listing[n] \in F}
  <2>1. 0 \in T
    <3>1. Listing[0] = Listed(Nothing) BY <1>1, <1>12 DEF Sub
    <3> QED BY <1>2, <1>3, <3>1
  <2>2. ASSUME NEW n \in Nat, n \in T PROVE n + 1 \in T
    <3> SUFFICES ASSUME n + 1 <= N PROVE Listing[n + 1] \in F OBVIOUS
    <3>1. n + 1 \in 0 .. N /\ n + 1 # 0 /\ n + 1 - 1 = n BY <1>1
    <3>2. Listing[n] \in F BY <1>1, <2>2
    <3>3. Listing[n + 1] = Listed(Listing[n]) BY <1>12, <3>1 DEF Sub
    <3> QED BY <3>2, <3>3, <1>3
  <2> HIDE DEF T
  <2>3. Nat \subseteq T BY <2>1, <2>2, NatSetInduction
  <2> QED BY <1>1, <2>3 DEF T
<1>14. \A n \in 0 .. N : Sub(n) \in F
  <2> SUFFICES ASSUME NEW n \in 0 .. N PROVE Sub(n) \in F OBVIOUS
  <2>1. CASE n = 0 BY <1>2, <2>1 DEF Sub
  <2>2. CASE n # 0
    <3>1. n - 1 \in 0 .. N BY <1>1, <2>2
    <3> QED BY <1>13, <2>2, <3>1 DEF Sub
  <2> QED BY <2>1, <2>2
<1>15. Listing \in [0 .. N -> F] BY <1>11, <1>13
<1> QED BY <1>12, <1>14, <1>15 DEF N, F
-----------------------------------------------------------------------------
(* The directories on the way down to the entry of query q, the first of   *)
(* which is that of the query, and the entries that led from one to the    *)
(* next.                                                                   *)
Stack(q, s) ==
  /\ s \in [0 .. q.depth -> DirNode] /\ s[0] = q.start /\ s[q.depth] = q.dir
  /\ \A j \in 1 .. q.depth :
       q.indices[j] \in DOMAIN Entries[s[j - 1]] /\ Entries[s[j - 1]][q.indices[j]] = s[j]

LEMMA ChildCases ==
  ASSUME NEW d \in DirNode, NEW i \in DOMAIN Entries[d], Entries[d][i] \in Node
  PROVE  /\ Entries[d][i] \in ToSet(Children[d]) /\ Entries[d][i] # Root
         /\ Entries[d][i] \notin Dots
<1>1. Children[d] \in Seq(Node \ {Root}) BY TreeAssumption
<1>2. Entries[d] = IF d = Root THEN Children[d] ELSE <<".", "..">> \o Children[d]
  BY DEF Entries
<1>3. Entries[d][i] \notin Dots BY TreeAssumption
<1>4. PICK j \in DOMAIN Children[d] : Entries[d][i] = Children[d][j]
  <2>1. CASE d = Root BY <1>2, <2>1
  <2>2. CASE d # Root
    <3>1. Entries[d] = <<".", "..">> \o Children[d] BY <1>2, <2>2
    <3>2. i \in 1 .. 2 + Len(Children[d]) BY <1>1, <3>1
    <3>3. i # 1 /\ i # 2 BY <1>1, <1>3, <3>1 DEF Dots
    <3>4. Entries[d][i] = Children[d][i - 2] /\ i - 2 \in 1 .. Len(Children[d])
      BY <1>1, <3>1, <3>2, <3>3
    <3> QED BY <1>1, <3>4
  <2> QED BY <2>1, <2>2
<1>5. Entries[d][i] \in ToSet(Children[d]) BY <1>4 DEF ToSet
<1>6. Entries[d][i] \in Node \ {Root} BY <1>1, <1>4
<1> QED BY <1>3, <1>5, <1>6

(* The ".." of a directory leads back to the one that has it.              *)
LEMMA OneParent ==
  ASSUME NEW d \in DirNode, NEW n \in Node \ {Root}, n \in ToSet(Children[d])
  PROVE  Parent(n) = d
<1>1. PICK c \in DirNode : \A e \in DirNode : n \in ToSet(Children[e]) <=> e = c
  BY TreeAssumption
<1>2. \A e \in DirNode : n \in ToSet(Children[e]) <=> e = d BY <1>1
<1>3. (CHOOSE e \in DirNode : n \in ToSet(Children[e])) = d BY <1>2
<1> QED BY <1>3 DEF Parent

LEMMA ParentIsDir == ASSUME NEW n \in Node PROVE Parent(n) \in DirNode
<1>1. CASE n = Root BY <1>1, TreeAssumption DEF Parent
<1>2. CASE n # Root
  <2>1. \E d \in DirNode : n \in ToSet(Children[d]) BY <1>2, TreeAssumption
  <2>2. (CHOOSE d \in DirNode : n \in ToSet(Children[d])) \in DirNode BY <2>1
  <2> QED BY <1>2, <2>2 DEF Parent
<1> QED BY <1>1, <1>2

LEMMA UpRecursion ==
  ASSUME query.dir \in DirNode
  PROVE  Up[0] = query.dir /\ \A k \in 1 .. MaxRecursion : Up[k] = Parent(Up[k - 1])
<1> DEFINE N == MaxRecursion
           D == [x \in DirNode \X (1 .. N) |-> Parent(x[1])]
           c == query.dir
           Sound(g) == g = [k \in 0 .. N |-> IF k = 0 THEN c ELSE Parent(g[k - 1])]
<1>1. N \in Nat /\ c \in DirNode BY LimitsAssumption
<1>2. \A d \in DirNode : Parent(d) \in DirNode BY ParentIsDir, TreeAssumption
<1>3. Up = CHOOSE g : Sound(g) BY DEF Up
<1> HIDE DEF N, c
<1>4. D \in [DirNode \X (1 .. N) -> DirNode] BY <1>2
<1>5. \A x \in DirNode, k \in 1 .. N : D[<<x, k>>] = Parent(x) OBVIOUS
<1> HIDE DEF D
<1>6. PICK g : Unfolds(g, DirNode, c, N, D) BY <1>1, <1>4, Recursion
<1>7. g \in [0 .. N -> DirNode] /\ g[0] = c /\ \A k \in 1 .. N : g[k] = D[<<g[k - 1], k>>]
  BY <1>6 DEF Unfolds
<1>8. \A k \in 1 .. N : g[k] = Parent(g[k - 1])
  <2> TAKE k \in 1 .. N
  <2>1. k - 1 \in 0 .. N BY <1>1
  <2>2. g[k - 1] \in DirNode BY <1>7, <2>1
  <2> QED BY <1>5, <1>7, <2>2
<1>9. Sound(g)
  <2> SUFFICES ASSUME NEW k \in 0 .. N PROVE g[k] = IF k = 0 THEN c ELSE Parent(g[k - 1])
    BY <1>7
  <2>1. CASE k = 0 BY <1>7, <2>1
  <2>2. CASE k # 0
    <3>1. k \in 1 .. N BY <1>1, <2>2
    <3> QED BY <1>8, <2>2, <3>1
  <2> QED BY <2>1, <2>2
<1>10. Sound(Up) BY <1>3, <1>9
<1>11. Up[0] = c BY <1>1, <1>10
<1>12. \A k \in 1 .. N : Up[k] = Parent(Up[k - 1])
  <2> TAKE k \in 1 .. N
  <2>1. k \in 0 .. N /\ k # 0 BY <1>1
  <2>2. Up[k] = IF k = 0 THEN c ELSE Parent(Up[k - 1]) BY <1>10, <2>1, Zenon
  <2> QED BY <2>1, <2>2
<1> QED BY <1>11, <1>12 DEF N, c

(* The walk finds its way up by the ".." entries.                          *)
LEMMA UpIsStack ==
  ASSUME TypeOK, query # None, NEW s, Stack(query, s), NEW k \in 0 .. query.depth
  PROVE  Up[k] = s[query.depth - k]
<1> DEFINE n == query.depth
           T == {j \in Nat : j <= n => Up[j] = s[n - j]}
<1>1. n \in Nat /\ n <= MaxRecursion /\ query.dir \in DirNode
  BY LimitsAssumption DEF TypeOK, Query
<1>2. /\ s \in [0 .. n -> DirNode] /\ s[n] = query.dir
      /\ \A j \in 1 .. n : query.indices[j] \in DOMAIN Entries[s[j - 1]]
                           /\ Entries[s[j - 1]][query.indices[j]] = s[j]
  BY DEF Stack
<1>3. Up[0] = query.dir /\ \A j \in 1 .. MaxRecursion : Up[j] = Parent(Up[j - 1])
  BY <1>1, UpRecursion
<1> HIDE DEF n
<1>4. \A j \in 1 .. n : Parent(s[j]) = s[j - 1]
  <2> TAKE j \in 1 .. n
  <2>1. s[j - 1] \in DirNode /\ s[j] \in DirNode BY <1>1, <1>2
  <2>2. s[j] \in Node BY <2>1, TreeAssumption
  <2> DEFINE i == query.indices[j]
  <2>3. i \in DOMAIN Entries[s[j - 1]] /\ Entries[s[j - 1]][i] = s[j] BY <1>2
  <2> HIDE DEF i
  <2>4. s[j] \in ToSet(Children[s[j - 1]]) /\ s[j] # Root BY <2>1, <2>2, <2>3, ChildCases
  <2> QED BY <2>1, <2>2, <2>4, OneParent
<1>5. 0 \in T BY <1>1, <1>2, <1>3
<1>6. ASSUME NEW j \in Nat, j \in T PROVE j + 1 \in T
  <2> SUFFICES ASSUME j + 1 <= n PROVE Up[j + 1] = s[n - (j + 1)] OBVIOUS
  <2>1. j + 1 \in 1 .. MaxRecursion /\ j + 1 - 1 = j BY <1>1, LimitsAssumption
  <2>2. Up[j + 1] = Parent(Up[j]) BY <1>3, <2>1
  <2>3. Up[j] = s[n - j] BY <1>1, <1>6
  <2>4. n - j \in 1 .. n /\ n - j - 1 = n - (j + 1) BY <1>1
  <2>5. Parent(s[n - j]) = s[n - j - 1] BY <1>4, <2>4
  <2> QED BY <2>2, <2>3, <2>4, <2>5
<1> HIDE DEF T
<1>7. Nat \subseteq T BY <1>5, <1>6, NatSetInduction
<1> QED BY <1>1, <1>7 DEF T, n
-----------------------------------------------------------------------------
(* Levels still to go below the directory that is j levels down.           *)
Left(q, j) == IF q.recursive THEN q.limit - j ELSE 0

(* What is to be listed after entry i of directory d, j levels down; after *)
(* the entries that led down to the directory at each level; and after the *)
(* entry of the query.                                                     *)
After(q, d, i, j) == Lasts(d, Sub(Left(q, j)))[Len(Entries[d]) - i]

Pending(q, s, t) ==
  /\ t \in [0 .. q.depth -> Out] /\ t[0] = <<>>
  /\ \A j \in 1 .. q.depth : t[j] = After(q, s[j - 1], q.indices[j], j - 1) \o t[j - 1]

Below(q) == Sub(Left(q, q.depth))[Entries[q.dir][q.index]]

Rest(q, t) == Below(q) \o (After(q, q.dir, q.index, q.depth) \o t[q.depth])

Goal(q) == Listing[Left(q, 0)][q.start]

LEMMA LeftRange ==
  ASSUME NEW q \in Query, NEW j \in 0 .. q.limit
  PROVE  Left(q, j) \in 0 .. MaxRecursion
<1>1. q.limit \in 1 .. MaxRecursion BY DEF Query
<1> QED BY <1>1, LimitsAssumption DEF Left

LEMMA AfterIs ==
  ASSUME NEW q \in Query, NEW d \in DirNode, NEW j \in 0 .. q.limit,
         NEW i \in 0 .. Len(Entries[d])
  PROVE  /\ After(q, d, i, j) \in Out
         /\ i = Len(Entries[d]) => After(q, d, i, j) = <<>>
         /\ i # Len(Entries[d]) =>
              After(q, d, i, j) =
                <<<<d, i + 1>>>> \o (Sub(Left(q, j))[Entries[d][i + 1]] \o After(q, d, i + 1, j))
<1> DEFINE b == Sub(Left(q, j))
           N == Len(Entries[d])
           L == Lasts(d, b)
<1>1. b \in [Item -> Out] BY LeftRange, ListingRecursion
<1>2. N \in Nat BY EntriesType
<1> HIDE DEF b
<1>3. /\ L \in [0 .. N -> Out] /\ L[0] = <<>>
      /\ \A m \in 1 .. N : L[m] = <<<<d, N - m + 1>>>> \o (b[Entries[d][N - m + 1]] \o L[m - 1])
  BY <1>1, LastsRecursion
<1>4. \A m \in 0 .. N : After(q, d, m, j) = L[N - m] BY DEF After, b
<1> HIDE DEF L, N
<1>5. i \in 0 .. N BY DEF N
<1>6. N - i \in 0 .. N BY <1>2, <1>5
<1>7. After(q, d, i, j) \in Out BY <1>3, <1>4, <1>5, <1>6
<1>8. ASSUME i = N PROVE After(q, d, i, j) = <<>>
  <2>1. N - i = 0 BY <1>2, <1>8
  <2> QED BY <1>3, <1>4, <1>5, <2>1
<1>9. ASSUME i # N
      PROVE  After(q, d, i, j) = <<<<d, i + 1>>>> \o (b[Entries[d][i + 1]] \o After(q, d, i + 1, j))
  <2> DEFINE m == N - i
  <2>1. m \in 1 .. N /\ N - m + 1 = i + 1 /\ m - 1 = N - (i + 1) /\ i + 1 \in 0 .. N
    BY <1>2, <1>5, <1>9
  <2>2. After(q, d, i, j) = L[m] /\ After(q, d, i + 1, j) = L[m - 1] BY <1>4, <1>5, <2>1
  <2> HIDE DEF m
  <2>3. L[m] = <<<<d, N - m + 1>>>> \o (b[Entries[d][N - m + 1]] \o L[m - 1]) BY <1>3, <2>1
  <2> QED BY <2>1, <2>2, <2>3
<1> QED BY <1>7, <1>8, <1>9 DEF N, b

LEMMA GoalIs == ASSUME NEW q \in Query PROVE Goal(q) \in Out /\ Goal(q) = After(q, q.start, 0, 0)
<1>1. q.start \in DirNode /\ 0 \in 0 .. q.limit BY DEF Query
<1>2. Left(q, 0) \in 0 .. MaxRecursion BY <1>1, LeftRange
<1>3. Goal(q) = Listed(Sub(Left(q, 0)))[q.start] BY <1>2, ListingRecursion DEF Goal
<1>4. q.start \in Item BY <1>1, TreeAssumption DEF Item
<1>5. Goal(q) = Lasts(q.start, Sub(Left(q, 0)))[Len(Entries[q.start])]
  BY <1>1, <1>3, <1>4 DEF Listed
<1>6. Len(Entries[q.start]) \in Nat BY <1>1, EntriesType
<1>7. Len(Entries[q.start]) - 0 = Len(Entries[q.start]) BY <1>6
<1>8. Goal(q) = After(q, q.start, 0, 0) BY <1>5, <1>7 DEF After
<1>9. 0 \in 0 .. Len(Entries[q.start]) BY <1>6
<1> QED BY <1>1, <1>8, <1>9, AfterIs

(* What is listed below an entry: nothing, unless it is a directory that   *)
(* is not as deep as the limit.                                            *)
LEMMA SubIs ==
  ASSUME NEW q \in Query, NEW j \in 0 .. q.limit, NEW e \in Item
  PROVE  /\ Sub(Left(q, j))[e] \in Out
         /\ e \notin DirNode \/ Left(q, j) = 0 => Sub(Left(q, j))[e] = <<>>
         /\ e \in DirNode /\ Left(q, j) # 0 =>
              j + 1 \in 0 .. q.limit /\ Sub(Left(q, j))[e] = After(q, e, 0, j + 1)
<1> DEFINE n == Left(q, j)
<1>1. n \in 0 .. MaxRecursion BY LeftRange
<1>2. Sub(n) \in [Item -> Out] BY <1>1, ListingRecursion
<1>3. ASSUME n = 0 PROVE Sub(n)[e] = <<>> BY <1>3 DEF Sub, Nothing
<1>4. ASSUME n # 0
      PROVE  Sub(n)[e] = IF e \in DirNode THEN Lasts(e, Sub(n - 1))[Len(Entries[e])] ELSE <<>>
  <2>1. n - 1 \in 0 .. MaxRecursion BY <1>1, <1>4, LimitsAssumption
  <2>2. Sub(n) = Listed(Sub(n - 1)) BY <1>4, <2>1, ListingRecursion DEF Sub
  <2> QED BY <2>2 DEF Listed
<1>5. ASSUME n # 0, e \in DirNode
      PROVE  j + 1 \in 0 .. q.limit /\ Sub(n)[e] = After(q, e, 0, j + 1)
  <2>1. q.recursive /\ n = q.limit - j BY <1>5 DEF Left
  <2>2. q.limit \in Nat BY LimitsAssumption DEF Query
  <2>3. j + 1 \in 0 .. q.limit /\ n - 1 = q.limit - (j + 1) BY <1>5, <2>1, <2>2
  <2>4. n - 1 = Left(q, j + 1) BY <2>1, <2>3 DEF Left
  <2>5. Len(Entries[e]) - 0 = Len(Entries[e]) BY <1>5, EntriesType
  <2> QED BY <1>4, <1>5, <2>3, <2>4, <2>5 DEF After
<1> QED BY <1>2, <1>3, <1>4, <1>5

LEMMA SameAfter ==
  ASSUME NEW p, NEW q, q.recursive = p.recursive, q.limit = p.limit
  PROVE  /\ \A j : Left(q, j) = Left(p, j)
         /\ \A d, i, j : After(q, d, i, j) = After(p, d, i, j)
BY DEF Left, After

LEMMA ConcatType ==
  ASSUME NEW a \in Out, NEW b \in Out
  PROVE  a \o b \in Out /\ <<>> \o a = a /\ a \o <<>> = a
BY DEF Out

LEMMA ConcatAssoc ==
  ASSUME NEW a \in Out, NEW b \in Out, NEW c \in Out
  PROVE  (a \o b) \o c = a \o (b \o c)
BY DEF Out

LEMMA AppendConcat ==
  ASSUME NEW v \in Out, NEW x \in DirNode \X (Nat \ {0}), NEW a \in Out
  PROVE  /\ <<x>> \in Out /\ Append(v, x) \in Out
         /\ Append(v, x) \o a = v \o (<<x>> \o a)
<1> DEFINE P == DirNode \X (Nat \ {0})
<1>1. v \in Seq(P) /\ x \in P /\ a \in Seq(P) BY DEF Out
<1> HIDE DEF P
<1>2. <<x>> \in Seq(P) /\ Append(v, x) \in Seq(P) BY <1>1
<1>3. Append(v, x) \o a = v \o (<<x>> \o a) BY <1>1
<1> QED BY <1>2, <1>3 DEF P, Out

-----------------------------------------------------------------------------
LEMMA QueryFacts ==
  ASSUME TypeOK, query # None
  PROVE  /\ query \in Query /\ query.dir \in DirNode /\ query.start \in DirNode
         /\ query.limit \in Nat /\ query.depth \in 0 .. query.limit
         /\ query.depth <= MaxRecursion /\ query.index \in DOMAIN Entries[query.dir]
         /\ Len(query.indices) = query.depth /\ query.indices \in Seq(Nat \ {0})
BY LimitsAssumption DEF TypeOK, Query, HasEntry

(* The index that the walk has k levels up is that of an entry there; if   *)
(* there is no next one, nothing comes after it.                           *)
LEMMA LevelIs ==
  ASSUME TypeOK, query # None, NEW s, Stack(query, s), NEW k \in 0 .. query.depth
  PROVE  /\ query.depth - k \in 0 .. query.depth /\ Up[k] \in DirNode
         /\ Up[k] = s[query.depth - k]
         /\ IndexAt(k) \in 1 .. Len(Entries[Up[k]])
         /\ ~ MoreAt(k) => After(query, Up[k], IndexAt(k), query.depth - k) = <<>>
         /\ MoreAt(k) => IndexAt(k) + 1 \in 1 .. Len(Entries[Up[k]])
<1> DEFINE n == query.depth
           d == s[n - k]
           i == IndexAt(k)
<1>1. query \in Query /\ n \in 0 .. query.limit /\ query.limit \in Nat
      /\ query.index \in DOMAIN Entries[query.dir]
  BY QueryFacts
<1>2. Up[k] = d BY UpIsStack
<1>3. n - k \in 0 .. n BY <1>1
<1>4. /\ s \in [0 .. n -> DirNode] /\ s[n] = query.dir
      /\ \A j \in 1 .. n : query.indices[j] \in DOMAIN Entries[s[j - 1]]
  BY DEF Stack
<1>5. d \in DirNode BY <1>3, <1>4
<1>6. i \in DOMAIN Entries[d]
  <2>1. CASE k = 0
    <3>1. n - k = n BY <1>1, <2>1
    <3> QED BY <1>1, <1>4, <2>1, <3>1 DEF IndexAt
  <2>2. CASE k # 0
    <3> DEFINE j == n - k + 1
    <3>1. j \in 1 .. n /\ j - 1 = n - k BY <1>1, <2>2
    <3>2. i = query.indices[j] BY <2>2 DEF IndexAt
    <3> HIDE DEF j
    <3>3. query.indices[j] \in DOMAIN Entries[s[j - 1]] BY <1>4, <3>1
    <3> QED BY <3>1, <3>2, <3>3
  <2> QED BY <2>1, <2>2
<1>7. DOMAIN Entries[d] = 1 .. Len(Entries[d]) /\ Len(Entries[d]) \in Nat BY <1>5, EntriesType
<1>8. MoreAt(k) <=> i + 1 \in 1 .. Len(Entries[d]) BY <1>2, <1>7 DEF MoreAt, HasEntry
<1>9. n - k \in 0 .. query.limit BY <1>1
<1> HIDE DEF d, i, n
<1>10. i \in 0 .. Len(Entries[d]) BY <1>6, <1>7
<1>11. ASSUME ~ MoreAt(k) PROVE After(query, d, i, n - k) = <<>>
  <2>1. i = Len(Entries[d]) BY <1>6, <1>7, <1>8, <1>11
  <2> QED BY <1>1, <1>5, <1>9, <1>10, <2>1, AfterIs
<1> QED BY <1>2, <1>3, <1>5, <1>6, <1>7, <1>8, <1>11 DEF d, i, n

(* If k levels have no more entries, what is pending is that of the levels *)
(* above them.                                                             *)
LEMMA EndedIs ==
  ASSUME TypeOK, query # None, NEW s, Stack(query, s), NEW t, Pending(query, s, t),
         NEW k \in 0 .. query.depth, EndAt(k)
  PROVE  /\ After(query, query.dir, query.index, query.depth) = <<>>
         /\ t[query.depth] = t[query.depth - k]
<1> DEFINE n == query.depth
           T == {j \in Nat : j <= k => t[n] = t[n - j]}
<1>1. n \in Nat /\ query.dir \in DirNode BY QueryFacts
<1>2. \A j \in 0 .. k : ~ MoreAt(j) BY DEF EndAt
<1>3. 0 \in 0 .. n /\ 0 \in 0 .. k /\ n - 0 = n BY <1>1
<1>4. Up[0] = query.dir /\ IndexAt(0) = query.index
  BY <1>3, UpIsStack DEF Stack, IndexAt
<1>5. After(query, query.dir, query.index, n) = <<>> BY <1>2, <1>3, <1>4, LevelIs
<1>6. /\ t \in [0 .. n -> Out]
      /\ \A j \in 1 .. n : t[j] = After(query, s[j - 1], query.indices[j], j - 1) \o t[j - 1]
  BY DEF Pending
<1>7. ASSUME NEW j \in 1 .. k PROVE t[n - j + 1] = t[n - j]
  <2>1. j \in 0 .. n /\ n - j + 1 \in 1 .. n /\ n - j \in 0 .. n /\ n - j + 1 - 1 = n - j /\ j # 0
    BY <1>1
  <2>2. ~ MoreAt(j) BY <1>2
  <2>3. Up[j] = s[n - j] /\ IndexAt(j) = query.indices[n - j + 1]
    BY <2>1, UpIsStack DEF IndexAt
  <2>4. After(query, s[n - j], query.indices[n - j + 1], n - j) = <<>>
    BY <2>1, <2>2, <2>3, LevelIs
  <2> DEFINE m == n - j + 1
  <2>5. m \in 1 .. n /\ m - 1 = n - j BY <2>1
  <2> HIDE DEF m
  <2>6. t[m] = After(query, s[m - 1], query.indices[m], m - 1) \o t[m - 1] BY <1>6, <2>5
  <2>7. t[m - 1] \in Out BY <1>6, <2>1, <2>5
  <2>8. t[m] = t[m - 1]
    <3>1. After(query, s[m - 1], query.indices[m], m - 1) = <<>> BY <2>4, <2>5 DEF m
    <3>2. \A a \in Out : <<>> \o a = a BY DEF Out
    <3>3. t[m] = <<>> \o t[m - 1] BY <2>6, <3>1
    <3>4. <<>> \o t[m - 1] = t[m - 1] BY <2>7, <3>2
    <3> QED BY <3>3, <3>4
  <2> QED BY <2>5, <2>8 DEF m
<1>8. 0 \in T BY <1>3
<1>9. ASSUME NEW j \in Nat, j \in T PROVE j + 1 \in T
  <2> SUFFICES ASSUME j + 1 <= k PROVE t[n] = t[n - (j + 1)] OBVIOUS
  <2>1. j + 1 \in 1 .. k /\ n - (j + 1) + 1 = n - j BY <1>1
  <2>2. t[n - (j + 1) + 1] = t[n - (j + 1)] BY <1>7, <2>1
  <2>3. t[n] = t[n - j] BY <1>9, <2>1
  <2> QED BY <2>1, <2>2, <2>3
<1> HIDE DEF T
<1>10. Nat \subseteq T BY <1>8, <1>9, NatSetInduction
<1>11. t[n] = t[n - k] BY <1>1, <1>10 DEF T
<1> QED BY <1>5, <1>11

(* The walk stays only if there is nothing below its entry.                *)
LEMMA NothingBelow ==
  ASSUME TypeInv, query # None, Stays
  PROVE  Below(query) = <<>>
<1> DEFINE d == query.dir
           e == Entries[query.dir][query.index]
           n == query.depth
<1>1. TypeOK /\ FlagMatches BY DEF TypeInv
<1>2. /\ query \in Query /\ d \in DirNode /\ query.limit \in Nat
      /\ n \in 0 .. query.limit /\ query.index \in DOMAIN Entries[d]
  BY <1>1, QueryFacts
<1>3. e \in Item BY <1>2, EntriesType
<1>4. Below(query) = Sub(Left(query, n))[e] BY DEF Below
<1>5. CASE e \notin DirNode \/ Left(query, n) = 0 BY <1>2, <1>3, <1>4, <1>5, SubIs
<1>6. CASE e \in DirNode /\ Left(query, n) # 0
  <2>1. e \in Node BY <1>6, TreeAssumption
  <2>2. e \notin Dots BY <1>2, <2>1, ChildCases
  <2>3. Child = e BY <1>2, <2>2, EntryShape DEF Child
  <2>4. query.is_dir = TRUE BY <1>1, <1>6, <2>3 DEF FlagMatches, Child
  <2>5. query.recursive /\ query.limit > n BY <1>2, <1>6 DEF Left
  <2>6. CanDescend BY <2>2, <2>4, <2>5 DEF CanDescend
  <2>7. ~ HasEntry(e, 1) BY <2>3, <2>6 DEF Stays
  <2>8. Len(Entries[e]) \in Nat /\ DOMAIN Entries[e] = 1 .. Len(Entries[e]) BY <1>6, EntriesType
  <2>9. Len(Entries[e]) = 0 /\ 0 \in 0 .. Len(Entries[e]) BY <2>7, <2>8 DEF HasEntry
  <2>10. n + 1 \in 0 .. query.limit /\ Sub(Left(query, n))[e] = After(query, e, 0, n + 1)
    BY <1>2, <1>3, <1>6, SubIs
  <2>11. After(query, e, 0, n + 1) = <<>> BY <1>2, <1>6, <2>9, <2>10, AfterIs
  <2> QED BY <1>4, <2>10, <2>11
<1> QED BY <1>5, <1>6
-----------------------------------------------------------------------------
Sane(q) ==
  /\ q \in Query /\ q.index \in DOMAIN Entries[q.dir]
  /\ Len(q.indices) = q.depth /\ q.depth <= q.limit

(* A query that has come to an entry, which was the first one missing.     *)
LEMMA Arrives ==
  ASSUME NEW v \in Out, NEW q, Sane(q), NEW s, NEW t, Pending(q, s, t),
         v \o (After(q, q.dir, q.index - 1, q.depth) \o t[q.depth]) = Goal(q)
  PROVE  /\ Append(v, <<q.dir, q.index>>) \in Out /\ Rest(q, t) \in Out
         /\ Append(v, <<q.dir, q.index>>) \o Rest(q, t) = Goal(q)
<1> DEFINE d == q.dir
           i == q.index
           j == q.depth
           x == <<d, i>>
           b == Below(q)
           a == After(q, d, i, j)
           u == t[j]
<1>1. q \in Query /\ d \in DirNode /\ q.limit \in Nat /\ j \in 0 .. q.limit
  BY LimitsAssumption DEF Sane, Query
<1>2. DOMAIN Entries[d] = 1 .. Len(Entries[d]) /\ Len(Entries[d]) \in Nat BY <1>1, EntriesType
<1>3. i \in 1 .. Len(Entries[d]) BY <1>2 DEF Sane
<1>4. /\ i \in 0 .. Len(Entries[d]) /\ i - 1 \in 0 .. Len(Entries[d])
      /\ i - 1 # Len(Entries[d]) /\ i - 1 + 1 = i
  BY <1>2, <1>3
<1>5. x \in DirNode \X (Nat \ {0}) BY <1>1, <1>3
<1>6. Entries[d][i] \in Item BY <1>1, <1>3, EntriesType
<1>7. b \in Out BY <1>1, <1>6, SubIs DEF Below
<1>8. a \in Out BY <1>1, <1>4, AfterIs
<1>9. u \in Out
  <2>1. t \in [0 .. j -> Out] BY DEF Pending
  <2> QED BY <1>1, <2>1
<1>10. After(q, d, i - 1, j) = <<x>> \o (b \o a)
  <2>1. After(q, d, i - 1, j) = <<<<d, i - 1 + 1>>>> \o (Sub(Left(q, j))[Entries[d][i - 1 + 1]] \o After(q, d, i - 1 + 1, j))
    BY <1>1, <1>4, AfterIs
  <2> QED BY <1>4, <2>1 DEF Below
<1>11. Rest(q, t) = b \o (a \o u) BY DEF Rest
<1>12. v \o (After(q, d, i - 1, j) \o u) = Goal(q) OBVIOUS
<1> HIDE DEF x, b, a, u
<1>13. a \o u \in Out /\ b \o a \in Out BY <1>7, <1>8, <1>9, ConcatType
<1>14. b \o (a \o u) \in Out BY <1>7, <1>13, ConcatType
<1>15. <<x>> \in Out /\ Append(v, x) \in Out BY <1>5, <1>14, AppendConcat
<1>16. (<<x>> \o (b \o a)) \o u = <<x>> \o ((b \o a) \o u) BY <1>9, <1>13, <1>15, ConcatAssoc
<1>17. (b \o a) \o u = b \o (a \o u) BY <1>7, <1>8, <1>9, ConcatAssoc
<1>18. v \o (<<x>> \o (b \o (a \o u))) = Goal(q) BY <1>10, <1>12, <1>16, <1>17
<1> DEFINE w == b \o (a \o u)
<1>19. w \in Out BY <1>14
<1> HIDE DEF w
<1>20. Append(v, x) \o w = v \o (<<x>> \o w) BY <1>5, <1>19, AppendConcat
<1> QED BY <1>11, <1>14, <1>15, <1>18, <1>20 DEF x, w

LEMMA SamePending ==
  ASSUME NEW p, NEW q, NEW s, NEW t, Pending(p, s, t), q.recursive = p.recursive,
         q.limit = p.limit, q.depth = p.depth, q.indices = p.indices
  PROVE  Pending(q, s, t)
<1>1. \A d, i, j : After(q, d, i, j) = After(p, d, i, j) BY SameAfter
<1>2. \A j \in 1 .. p.depth : t[j] = After(p, s[j - 1], p.indices[j], j - 1) \o t[j - 1]
  BY DEF Pending
<1>3. \A j \in 1 .. p.depth : t[j] = After(q, s[j - 1], p.indices[j], j - 1) \o t[j - 1]
  BY <1>1, <1>2, Zenon
<1> QED BY <1>3 DEF Pending

(* The directories above those that the walk has come up from.             *)
LEMMA Shorter ==
  ASSUME NEW p, Sane(p), NEW s, Stack(p, s), NEW t, Pending(p, s, t),
         NEW m \in 0 .. p.depth, NEW q, Sane(q),
         q.start = p.start, q.recursive = p.recursive, q.limit = p.limit,
         q.depth = m, q.dir = s[m], q.indices = SubSeq(p.indices, 1, m)
  PROVE  \E r, u : /\ Stack(q, r) /\ Pending(q, r, u)
                   /\ u[q.depth] = t[q.depth] /\ Goal(q) = Goal(p)
<1> DEFINE n == p.depth
           r == [j \in 0 .. m |-> s[j]]
           u == [j \in 0 .. m |-> t[j]]
<1>1. n \in Nat /\ p.indices \in Seq(Nat \ {0}) /\ Len(p.indices) = n
  BY LimitsAssumption DEF Sane, Query
<1>2. m \in 0 .. n /\ m = q.depth BY <1>1
<1>3. /\ s \in [0 .. n -> DirNode] /\ s[0] = p.start
      /\ \A j \in 1 .. n : p.indices[j] \in DOMAIN Entries[s[j - 1]] /\ Entries[s[j - 1]][p.indices[j]] = s[j]
  BY DEF Stack
<1>4. /\ t \in [0 .. n -> Out] /\ t[0] = <<>>
      /\ \A j \in 1 .. n : t[j] = After(p, s[j - 1], p.indices[j], j - 1) \o t[j - 1]
  BY DEF Pending
<1>5. q.dir = s[m] /\ q.indices = SubSeq(p.indices, 1, m) OBVIOUS
<1> HIDE DEF n
<1>6. \A j \in 1 .. m : q.indices[j] = p.indices[j] BY <1>1, <1>2, <1>5
<1>7. \A j \in 1 .. m : j \in 0 .. m /\ j - 1 \in 0 .. m /\ j \in 1 .. n BY <1>1, <1>2
<1>8. \A j \in 0 .. m : j \in 0 .. n BY <1>1, <1>2
<1>9. 0 \in 0 .. m /\ m \in 0 .. m BY <1>1, <1>2
<1>10. Stack(q, r)
  <2>1. r \in [0 .. m -> DirNode] BY <1>3, <1>8
  <2>2. r[0] = q.start /\ r[m] = q.dir BY <1>3, <1>5, <1>9
  <2>3. ASSUME NEW j \in 1 .. m
        PROVE  q.indices[j] \in DOMAIN Entries[r[j - 1]] /\ Entries[r[j - 1]][q.indices[j]] = r[j]
    <3>1. r[j] = s[j] /\ r[j - 1] = s[j - 1] /\ q.indices[j] = p.indices[j] BY <1>6, <1>7
    <3> QED BY <1>3, <1>7, <3>1
  <2> HIDE DEF r
  <2> QED BY <1>2, <2>1, <2>2, <2>3 DEF Stack
<1>11. Pending(q, r, u)
  <2>1. u \in [0 .. m -> Out] /\ u[0] = <<>> BY <1>4, <1>8, <1>9
  <2>2. ASSUME NEW j \in 1 .. m
        PROVE  u[j] = After(q, r[j - 1], q.indices[j], j - 1) \o u[j - 1]
    <3>1. /\ u[j] = t[j] /\ u[j - 1] = t[j - 1] /\ r[j - 1] = s[j - 1]
          /\ q.indices[j] = p.indices[j]
      BY <1>6, <1>7
    <3>2. After(q, s[j - 1], p.indices[j], j - 1) = After(p, s[j - 1], p.indices[j], j - 1)
      BY SameAfter
    <3> QED BY <1>4, <1>7, <3>1, <3>2
  <2> HIDE DEF r, u
  <2> QED BY <1>2, <2>1, <2>2 DEF Pending
<1>12. u[q.depth] = t[q.depth] BY <1>2, <1>9
<1>13. Goal(q) = Goal(p) BY SameAfter DEF Goal
<1> HIDE DEF r, u
<1> QED BY <1>10, <1>11, <1>12, <1>13

(* The directories with the one that the walk goes down to.                *)
LEMMA Longer ==
  ASSUME NEW p, Sane(p), NEW s, Stack(p, s), NEW t, Pending(p, s, t),
         NEW q, Sane(q), p.depth + 1 <= p.limit,
         q.start = p.start, q.recursive = p.recursive, q.limit = p.limit,
         q.depth = p.depth + 1, q.dir = Entries[p.dir][p.index],
         q.indices = Append(p.indices, p.index)
  PROVE  \E r, u : /\ Stack(q, r) /\ Pending(q, r, u) /\ Goal(q) = Goal(p)
                   /\ u[q.depth] = After(p, p.dir, p.index, p.depth) \o t[p.depth]
<1> DEFINE n == p.depth
           m == n + 1
           a == After(p, p.dir, p.index, p.depth) \o t[p.depth]
           r == [j \in 0 .. m |-> IF j <= n THEN s[j] ELSE q.dir]
           u == [j \in 0 .. m |-> IF j <= n THEN t[j] ELSE a]
<1>1. n \in Nat /\ p.indices \in Seq(Nat \ {0}) /\ Len(p.indices) = n /\ p.index \in Nat \ {0}
      /\ p.dir \in DirNode /\ q.dir \in DirNode /\ p \in Query /\ p.limit \in Nat
      /\ p.index \in DOMAIN Entries[p.dir]
  BY LimitsAssumption DEF Sane, Query
<1>2. m = q.depth /\ m \in Nat /\ n \in 0 .. m /\ n \in 0 .. n BY <1>1
<1>3. /\ s \in [0 .. n -> DirNode] /\ s[0] = p.start /\ s[n] = p.dir
      /\ \A j \in 1 .. n : p.indices[j] \in DOMAIN Entries[s[j - 1]] /\ Entries[s[j - 1]][p.indices[j]] = s[j]
  BY DEF Stack
<1>4. /\ t \in [0 .. n -> Out] /\ t[0] = <<>>
      /\ \A j \in 1 .. n : t[j] = After(p, s[j - 1], p.indices[j], j - 1) \o t[j - 1]
  BY DEF Pending
<1>5. a \in Out
  <2>1. DOMAIN Entries[p.dir] = 1 .. Len(Entries[p.dir]) /\ Len(Entries[p.dir]) \in Nat
    BY <1>1, EntriesType
  <2>2. p.index \in 0 .. Len(Entries[p.dir]) /\ p.depth \in 0 .. p.limit BY <1>1, <2>1 DEF Sane
  <2>3. After(p, p.dir, p.index, p.depth) \in Out BY <1>1, <2>2, AfterIs
  <2>4. t[p.depth] \in Out BY <1>2, <1>4
  <2> QED BY <2>3, <2>4 DEF Out
<1>6. /\ \A j \in 1 .. n : q.indices[j] = p.indices[j]
      /\ q.indices[m] = p.index
  BY <1>1
<1>7. q.dir = Entries[p.dir][p.index] OBVIOUS
<1> HIDE DEF a
<1>8. r \in [0 .. m -> DirNode] BY <1>1, <1>3
<1>9. u \in [0 .. m -> Out] BY <1>1, <1>4, <1>5
<1>10. \A j \in 0 .. n : r[j] = s[j] /\ u[j] = t[j] BY <1>1
<1>11. r[m] = q.dir /\ u[m] = a BY <1>1
<1> HIDE DEF r, u
<1>12. Stack(q, r)
  <2>1. r[0] = q.start /\ r[m] = q.dir BY <1>1, <1>3, <1>10, <1>11
  <2>2. ASSUME NEW j \in 1 .. m
        PROVE  q.indices[j] \in DOMAIN Entries[r[j - 1]] /\ Entries[r[j - 1]][q.indices[j]] = r[j]
    <3>1. CASE j \in 1 .. n
      <4>1. j \in 0 .. n /\ j - 1 \in 0 .. n BY <1>1, <3>1
      <4> QED BY <1>3, <1>6, <1>10, <3>1, <4>1
    <3>2. CASE j = m
      <4>1. j - 1 = n BY <1>1, <3>2
      <4>2. r[j - 1] = p.dir BY <1>2, <1>3, <1>10, <4>1
      <4> QED BY <1>1, <1>6, <1>7, <1>11, <3>2, <4>2
    <3> QED BY <1>1, <3>1, <3>2
  <2> QED BY <1>2, <1>8, <2>1, <2>2 DEF Stack
<1>13. Pending(q, r, u)
  <2>1. u[0] = <<>> BY <1>1, <1>4, <1>10
  <2>2. ASSUME NEW j \in 1 .. m
        PROVE  u[j] = After(q, r[j - 1], q.indices[j], j - 1) \o u[j - 1]
    <3>1. CASE j \in 1 .. n
      <4>1. j \in 0 .. n /\ j - 1 \in 0 .. n BY <1>1, <3>1
      <4>2. u[j] = t[j] /\ u[j - 1] = t[j - 1] /\ r[j - 1] = s[j - 1] /\ q.indices[j] = p.indices[j]
        BY <1>6, <1>10, <3>1, <4>1
      <4>3. After(q, s[j - 1], p.indices[j], j - 1) = After(p, s[j - 1], p.indices[j], j - 1)
        BY SameAfter
      <4> QED BY <1>4, <3>1, <4>2, <4>3
    <3>0. j \in 1 .. n \/ j = m BY <1>1
    <3>2. CASE j = m
      <4>1. j - 1 = n BY <1>1, <3>2
      <4>2. r[j - 1] = p.dir /\ u[j - 1] = t[n] BY <1>2, <1>3, <1>10, <4>1
      <4>3. After(q, p.dir, p.index, n) = After(p, p.dir, p.index, n) BY SameAfter
      <4> QED BY <1>6, <1>11, <3>2, <4>1, <4>2, <4>3 DEF a
    <3> HIDE DEF m
    <3> QED BY <3>0, <3>1, <3>2
  <2> QED BY <1>2, <1>9, <2>1, <2>2 DEF Pending
<1>14. Goal(q) = Goal(p) BY SameAfter DEF Goal
<1>15. u[q.depth] = a BY <1>2, <1>11
<1> QED BY <1>12, <1>13, <1>14, <1>15 DEF a
-----------------------------------------------------------------------------
(* What has been returned and what is still to come make up the listing.   *)
ListInv ==
  /\ Walking => \E s, t : /\ Stack(query, s) /\ Pending(query, s, t)
                          /\ visited \o Rest(query, t) = Goal(query)
  /\ query # None => visited \in Out /\ \E r \in Out : visited \o r = Goal(query)

LEMMA Arrived ==
  ASSUME NEW v \in Out, NEW q, Sane(q), NEW s, Stack(q, s), NEW t, Pending(q, s, t),
         v \o (After(q, q.dir, q.index - 1, q.depth) \o t[q.depth]) = Goal(q),
         query' = q, visited' = Append(v, <<q.dir, q.index>>)
  PROVE  ListInv'
<1>1. /\ visited' \in Out /\ Rest(q, t) \in Out
      /\ visited' \o Rest(q, t) = Goal(q)
  BY Arrives
<1> QED BY <1>1 DEF ListInv

LEMMA ListStep == TypeInv /\ TypeInv' /\ ListInv /\ [Next]_vars => ListInv'
<1> SUFFICES ASSUME TypeInv, TypeInv', ListInv, [Next]_vars PROVE ListInv' OBVIOUS
<1>0. TypeOK /\ TypeOK' BY DEF TypeInv
<1>1. ASSUME query # None PROVE Sane(query)
  BY <1>0, <1>1 DEF TypeOK, Sane, HasEntry
<1>2. ASSUME query' # None PROVE Sane(query')
  BY <1>0, <1>2 DEF TypeOK, Sane, HasEntry
<1>3. ASSUME pc' \in {"show", "next", "close"} PROVE Sane(query')
  BY <1>0, <1>2, <1>3 DEF TypeOK
<1>4. ASSUME NEW d \in DirNode, NEW recursive \in BOOLEAN, NEW limit \in Limits,
             GetFirst(d, recursive, limit)
      PROVE  ListInv'
  <2> DEFINE q == query'
             s == [j \in 0 .. 0 |-> d]
             t == [j \in 0 .. 0 |-> <<>>]
  <2>1. /\ q = [start |-> d, recursive |-> recursive, limit |-> Clamped(recursive, limit),
                dir |-> d, index |-> 1, is_dir |-> EntryNode(d, 1) \in DirNode,
                depth |-> 0, indices |-> <<>>]
        /\ visited' = <<<<d, 1>>>> /\ pc' = "show"
    BY <1>4 DEF GetFirst
  <2>2. q.start = d /\ q.dir = d /\ q.index = 1 /\ q.depth = 0 /\ q.indices = <<>>
    BY <2>1
  <2>3. Sane(q) BY <1>3, <2>1
  <2> HIDE DEF q
  <2>4. <<>> \in Out BY DEF Out
  <2>5. Stack(q, s) BY <2>2 DEF Stack
  <2>6. Pending(q, s, t) BY <2>2, <2>4 DEF Pending
  <2>7. Goal(q) \in Out /\ Goal(q) = After(q, d, 0, 0) BY <2>2, <2>3, GoalIs DEF Sane
  <2>8. t[q.depth] = <<>> BY <2>2
  <2> HIDE DEF s, t
  <2>9. After(q, q.dir, q.index - 1, q.depth) = Goal(q) BY <2>2, <2>7
  <2>10. <<>> \o (Goal(q) \o <<>>) = Goal(q) BY <2>4, <2>7, ConcatType
  <2>11. <<>> \o (After(q, q.dir, q.index - 1, q.depth) \o t[q.depth]) = Goal(q)
    BY <2>8, <2>9, <2>10
  <2>12. visited' = Append(<<>>, <<q.dir, q.index>>) BY <2>1, <2>2
  <2> QED BY <2>3, <2>4, <2>5, <2>6, <2>11, <2>12, Arrived DEF q
<1>5. CASE Show
  <2>1. pc = "show" /\ pc' \in {"next", "close"} /\ UNCHANGED <<query, visited>>
    BY <1>5 DEF Show
  <2>2. Walking BY <2>1 DEF Walking
  <2> QED BY <2>1, <2>2 DEF ListInv
<1>6. ASSUME Walking
      PROVE  query # None /\ Sane(query) /\ visited \in Out
             /\ \E s, t : /\ Stack(query, s) /\ Pending(query, s, t)
                          /\ visited \o Rest(query, t) = Goal(query)
  BY <1>0, <1>1, <1>6 DEF Walking, ListInv, TypeOK
<1>7. CASE Descend
  <2>1. pc = "next" /\ CanDescend /\ Returned(query') /\ pc' = "show"
        /\ query' = [query EXCEPT !.dir = Child, !.index = 1, !.depth = query.depth + 1,
                                  !.indices = Append(query.indices, query.index)]
    BY <1>7 DEF Descend
  <2>2. /\ query # None /\ Sane(query) /\ visited \in Out
        /\ \E s, t : /\ Stack(query, s) /\ Pending(query, s, t)
                     /\ visited \o Rest(query, t) = Goal(query)
    BY <1>6, <2>1 DEF Walking
  <2>3. PICK s, t : /\ Stack(query, s) /\ Pending(query, s, t)
                    /\ visited \o Rest(query, t) = Goal(query)
    BY <2>2
  <2> DEFINE q == query'
             e == Entries[query.dir][query.index]
  <2>4. Sane(q) BY <1>3, <2>1
  <2>5. query \in Query /\ query.index \in DOMAIN Entries[query.dir] /\ query.depth <= query.limit
    BY <2>2 DEF Sane
  <2>6. /\ q.start = query.start /\ q.recursive = query.recursive /\ q.limit = query.limit
        /\ q.depth = query.depth + 1 /\ q.dir = Child /\ q.index = 1
        /\ q.indices = Append(query.indices, query.index)
    BY <2>1, <2>5 DEF Query
  <2>7. /\ query.dir \in DirNode /\ query.depth \in 0 .. query.limit /\ query.limit \in Nat
        /\ query.limit > query.depth /\ query.recursive /\ e \notin Dots
    BY <1>0, <2>1, <2>2, QueryFacts DEF CanDescend
  <2>8. Child = e BY <2>5, <2>7, EntryShape DEF Child
  <2>9. e \in DirNode BY <2>4, <2>6, <2>8 DEF Sane, Query
  <2>10. Left(query, query.depth) # 0 BY <2>7 DEF Left
  <2>11. e \in Item BY <2>9, TreeAssumption DEF Item
  <2>12. Below(query) = After(query, e, 0, query.depth + 1)
    BY <2>5, <2>7, <2>9, <2>10, <2>11, SubIs DEF Below
  <2> HIDE DEF q
  <2>13. query.depth + 1 <= query.limit BY <2>7
  <2>14. PICK r, u : /\ Stack(q, r) /\ Pending(q, r, u) /\ Goal(q) = Goal(query)
                     /\ u[q.depth] = After(query, query.dir, query.index, query.depth) \o t[query.depth]
    BY <2>2, <2>3, <2>4, <2>6, <2>8, <2>13, Longer
  <2>15. After(q, q.dir, q.index - 1, q.depth) = Below(query)
    <3>1. q.index - 1 = 0 BY <2>6
    <3>2. After(q, e, 0, query.depth + 1) = After(query, e, 0, query.depth + 1)
      BY <2>6, SameAfter
    <3> QED BY <2>6, <2>8, <2>12, <3>1, <3>2
  <2>16. visited \o (After(q, q.dir, q.index - 1, q.depth) \o u[q.depth]) = Goal(q)
    BY <2>3, <2>14, <2>15 DEF Rest
  <2>17. visited' = Append(visited, <<q.dir, q.index>>) BY <2>1 DEF Returned, q
  <2> QED BY <2>2, <2>4, <2>14, <2>16, <2>17, Arrived DEF q
<1>8. CASE DescendFails
  <2>1. pc = "next" /\ pc' = "close" /\ UNCHANGED <<query, visited>> BY <1>8 DEF DescendFails
  <2> QED BY <2>1 DEF ListInv, Walking
<1>9. CASE Sibling
  <2> DEFINE q == query'
  <2>1. pc = "next" /\ Stays /\ q = At(query, query.dir, query.index + 1) /\ Returned(q) /\ pc' = "show"
    BY <1>9 DEF Sibling, Stays
  <2>2. /\ query # None /\ Sane(query) /\ visited \in Out
        /\ \E s, t : /\ Stack(query, s) /\ Pending(query, s, t)
                     /\ visited \o Rest(query, t) = Goal(query)
    BY <1>6, <2>1 DEF Walking
  <2>3. PICK s, t : /\ Stack(query, s) /\ Pending(query, s, t)
                    /\ visited \o Rest(query, t) = Goal(query)
    BY <2>2
  <2>4. Sane(q) BY <1>3, <2>1
  <2>5. query \in Query /\ query.dir \in DirNode /\ query.index + 1 \in Nat \ {0}
        /\ query.index \in Nat
    BY <2>2 DEF Sane, Query
  <2> HIDE DEF q
  <2>6. /\ q.limit = query.limit /\ q.dir = query.dir /\ q.index = query.index + 1
        /\ q.depth = query.depth /\ q.indices = query.indices
        /\ q.start = query.start /\ q.recursive = query.recursive
    BY <2>1, <2>5, AtQuery
  <2>7. Stack(q, s) BY <2>3, <2>6 DEF Stack
  <2>8. Pending(q, s, t) BY <2>3, <2>6, SamePending
  <2>9. Goal(q) = Goal(query) BY <2>6, SameAfter DEF Goal
  <2>10. Below(query) = <<>> BY <2>1, <2>2, NothingBelow
  <2> DEFINE w == After(query, query.dir, query.index, query.depth) \o t[query.depth]
  <2>11. After(q, q.dir, q.index - 1, q.depth) \o t[q.depth] = w
    <3>1. After(q, q.dir, q.index - 1, q.depth) = After(query, query.dir, query.index, query.depth)
      <4>1. \A e, i, j : After(q, e, i, j) = After(query, e, i, j) BY <2>6, SameAfter
      <4>2. q.index - 1 = query.index BY <2>5, <2>6
      <4> QED BY <2>6, <4>1, <4>2
    <3> QED BY <2>6, <3>1
  <2>12. w \in Out
    <3>1. DOMAIN Entries[query.dir] = 1 .. Len(Entries[query.dir]) /\ Len(Entries[query.dir]) \in Nat
      BY <2>5, EntriesType
    <3>2. query.index \in 0 .. Len(Entries[query.dir]) BY <2>2, <3>1 DEF Sane
    <3>3. query.depth \in 0 .. query.limit BY <1>0, <2>2, QueryFacts
    <3>4. After(query, query.dir, query.index, query.depth) \in Out
      BY <2>5, <3>2, <3>3, AfterIs
    <3>5. t[query.depth] \in Out
      <4>1. t \in [0 .. query.depth -> Out] BY <2>3 DEF Pending
      <4>2. query.depth \in 0 .. query.depth BY <3>3, <1>0, <2>2, QueryFacts
      <4> QED BY <4>1, <4>2
    <3> QED BY <3>4, <3>5, ConcatType
  <2>13. Rest(query, t) = <<>> \o w BY <2>10 DEF Rest
  <2> HIDE DEF w
  <2>14. Rest(query, t) = w BY <2>12, <2>13, ConcatType
  <2>15. visited \o (After(q, q.dir, q.index - 1, q.depth) \o t[q.depth]) = Goal(q)
    BY <2>3, <2>9, <2>11, <2>14
  <2>16. visited' = Append(visited, <<q.dir, q.index>>) BY <2>1 DEF Returned, q
  <2> QED BY <2>2, <2>4, <2>7, <2>8, <2>15, <2>16, Arrived DEF q
<1>10. ASSUME NEW k \in 0 .. MaxRecursion, Ascend(k) PROVE ListInv'
  <2> DEFINE q == query'
             n == query.depth
  <2>1. PICK d \in DirNode :
          /\ d = Up[k]
          /\ q = [At(query, d, IndexAt(k) + 1) EXCEPT
                    !.depth = @ - k, !.indices = SubSeq(@, 1, query.depth - k)]
          /\ Returned(q)
    BY <1>10 DEF Ascend
  <2>2. pc = "next" /\ Stays /\ k \in 1 .. n /\ EndAt(k - 1) /\ MoreAt(k) /\ pc' = "show"
    BY <1>10 DEF Ascend, Stays
  <2>3. /\ query # None /\ Sane(query) /\ visited \in Out
        /\ \E s, t : /\ Stack(query, s) /\ Pending(query, s, t)
                     /\ visited \o Rest(query, t) = Goal(query)
    BY <1>6, <2>2 DEF Walking
  <2>4. PICK s, t : /\ Stack(query, s) /\ Pending(query, s, t)
                    /\ visited \o Rest(query, t) = Goal(query)
    BY <2>3
  <2>5. Sane(q) BY <1>3, <2>2
  <2> HIDE DEF q
  <2>6. n \in Nat /\ k \in 0 .. n /\ k - 1 \in 0 .. n BY <1>0, <2>2, <2>3, QueryFacts
  <2>7. /\ q.dir = d /\ q.index = IndexAt(k) + 1 /\ q.depth = n - k
        /\ q.indices = SubSeq(query.indices, 1, n - k)
        /\ q.start = query.start /\ q.recursive = query.recursive /\ q.limit = query.limit
    <3> DEFINE i == IndexAt(k) + 1
               a == At(query, d, i)
               m == n - k
               x == SubSeq(query.indices, 1, n - k)
    <3>1. IndexAt(k) \in 1 .. Len(Entries[Up[k]]) BY <1>0, <2>3, <2>4, <2>6, LevelIs
    <3>2. i \in Nat \ {0} /\ query \in Query BY <2>3, <3>1 DEF Sane
    <3>3. q = [a EXCEPT !.depth = a.depth - k, !.indices = SubSeq(a.indices, 1, n - k)] BY <2>1
    <3> HIDE DEF a, i
    <3>4. /\ a \in Query /\ a.limit = query.limit /\ a.dir = d /\ a.index = i
          /\ a.depth = query.depth /\ a.indices = query.indices
          /\ a.start = query.start /\ a.recursive = query.recursive
      BY <3>2, AtQuery DEF a
    <3>5. q = [a EXCEPT !.depth = m, !.indices = x] BY <3>3, <3>4
    <3> HIDE DEF m, x
    <3>6. /\ q.dir = a.dir /\ q.index = a.index /\ q.depth = m /\ q.indices = x
          /\ q.start = a.start /\ q.recursive = a.recursive /\ q.limit = a.limit
      BY <3>4, <3>5 DEF Query
    <3> QED BY <3>4, <3>6 DEF i, m, x
  <2>8. d = s[n - k] BY <1>0, <2>1, <2>3, <2>4, <2>6, UpIsStack
  <2>9. PICK r, u : /\ Stack(q, r) /\ Pending(q, r, u)
                    /\ u[q.depth] = t[q.depth] /\ Goal(q) = Goal(query)
    <3> DEFINE m == n - k
    <3>1. q.dir = s[m] /\ q.depth = m /\ q.indices = SubSeq(query.indices, 1, m)
      BY <2>7, <2>8
    <3>2. m \in 0 .. query.depth BY <2>6
    <3> HIDE DEF m, n
    <3>3. q.start = query.start /\ q.recursive = query.recursive /\ q.limit = query.limit
      BY <2>7
    <3>4. Sane(query) /\ Stack(query, s) /\ Pending(query, s, t) BY <2>3, <2>4
    <3> QED BY <2>5, <3>1, <3>2, <3>3, <3>4, Shorter
  <2>10. /\ After(query, query.dir, query.index, n) = <<>>
         /\ t[n] = t[n - (k - 1)]
    BY <1>0, <2>2, <2>3, <2>4, <2>6, EndedIs
  <2>11. Below(query) = <<>> BY <2>2, <2>3, NothingBelow
  <2>12. t \in [0 .. n -> Out] /\ n - (k - 1) \in 1 .. n /\ n \in 0 .. n /\ n - (k - 1) - 1 = n - k
         /\ n - (k - 1) = n - k + 1
    BY <2>2, <2>4, <2>6 DEF Pending
  <2>13. Rest(query, t) = t[n - (k - 1)]
    <3>1. t[n] \in Out BY <2>12
    <3>2. Rest(query, t) = <<>> \o (<<>> \o t[n]) BY <2>10, <2>11 DEF Rest
    <3>3. Rest(query, t) = t[n] BY <3>1, <3>2, ConcatType
    <3> QED BY <2>10, <3>3
  <2>14. t[n - (k - 1)] = After(q, q.dir, q.index - 1, q.depth) \o u[q.depth]
    <3> DEFINE m == n - (k - 1)
    <3>1. m \in 1 .. n BY <2>12
    <3>2. t[m] = After(query, s[m - 1], query.indices[m], m - 1) \o t[m - 1]
      BY <2>4, <3>1 DEF Pending
    <3>3. m - 1 = n - k BY <2>12
    <3>4. IndexAt(k) = query.indices[m] BY <2>2, <2>12 DEF IndexAt
    <3>5. IndexAt(k) \in Nat
      <4>1. IndexAt(k) \in 1 .. Len(Entries[Up[k]]) BY <1>0, <2>3, <2>4, <2>6, LevelIs
      <4> QED BY <4>1
    <3>6. q.index - 1 = IndexAt(k) BY <2>7, <3>5
    <3> HIDE DEF m
    <3>7. After(query, s[m - 1], query.indices[m], m - 1) = After(q, q.dir, q.index - 1, q.depth)
      BY <2>7, <2>8, <3>3, <3>4, <3>6, SameAfter
    <3>8. t[m - 1] = u[q.depth] BY <2>7, <2>9, <3>3
    <3> QED BY <3>2, <3>7, <3>8 DEF m
  <2>15. visited \o (After(q, q.dir, q.index - 1, q.depth) \o u[q.depth]) = Goal(q)
    BY <2>4, <2>9, <2>13, <2>14
  <2>16. visited' = Append(visited, <<q.dir, q.index>>) BY <2>1 DEF Returned, q
  <2> QED BY <2>3, <2>5, <2>9, <2>15, <2>16, Arrived DEF q
<1>11. ASSUME NEW k, GoneUp(k), pc = "next" PROVE ListInv'
  <2>1. /\ query' = [query EXCEPT !.depth = query.depth - k,
                                  !.indices = SubSeq(query.indices, 1, query.depth - k)]
        /\ pc' = "close" /\ visited' = visited
    BY <1>11 DEF GoneUp
  <2>2. query \in Query /\ query # None /\ visited \in Out
    BY <1>6, <1>11 DEF Walking, Sane
  <2>3. query'.start = query.start /\ query'.recursive = query.recursive /\ query'.limit = query.limit
    BY <2>1, <2>2 DEF Query
  <2>4. Goal(query') = Goal(query) BY <2>3, SameAfter DEF Goal
  <2> QED BY <2>1, <2>2, <2>4 DEF ListInv, Walking
<1>12. ASSUME NEW k \in 0 .. MaxRecursion, AscendFails(k) PROVE ListInv'
  BY <1>11, <1>12 DEF AscendFails, Stays
<1>13. CASE Exhausted BY <1>11, <1>13 DEF Exhausted, Stays
<1>14. CASE Close BY <1>14 DEF Close, ListInv, Walking
<1>15. CASE UNCHANGED vars \/ GetFirstFails BY <1>15 DEF vars, GetFirstFails, ListInv, Walking
<1> QED BY <1>4, <1>5, <1>7, <1>8, <1>9, <1>10, <1>12, <1>13, <1>14, <1>15 DEF Next
-----------------------------------------------------------------------------
(* Goal, as a state function, is what the model calls Wanted.              *)
LEMMA WantedIsGoal == ASSUME query \in Query PROVE Wanted = Goal(query)
<1>1. query.limit \in Nat /\ query.limit - 0 = query.limit BY LimitsAssumption DEF Query
<1> QED BY <1>1 DEF Wanted, Goal, Left

LEMMA PrefixOfConcat ==
  ASSUME NEW v \in Out, NEW r \in Out
  PROVE  IsPrefix(v, v \o r)
<1>1. Len(v) <= Len(v \o r) BY DEF Out
<1>2. SubSeq(v, 1, Len(v)) = SubSeq(v \o r, 1, Len(v)) BY DEF Out
<1> QED BY <1>1, <1>2 DEF IsPrefix

LEMMA ListSound == TypeInv /\ ListInv => WalkIsListing
<1> SUFFICES ASSUME TypeInv, ListInv, query # None
             PROVE  /\ IsPrefix(visited, Wanted)
                    /\ Stays /\ EndAt(query.depth) => visited = Wanted
  BY DEF WalkIsListing
<1>1. TypeOK BY DEF TypeInv
<1>2. query \in Query /\ Wanted = Goal(query) BY <1>1, QueryFacts, WantedIsGoal
<1>3. visited \in Out BY DEF ListInv
<1>4. IsPrefix(visited, Wanted)
  <2>1. PICK r \in Out : visited \o r = Goal(query) BY DEF ListInv
  <2> QED BY <1>2, <1>3, <2>1, PrefixOfConcat
<1>5. ASSUME Stays, EndAt(query.depth) PROVE visited = Wanted
  <2>1. Walking BY <1>5 DEF Stays, Walking
  <2>2. PICK s, t : /\ Stack(query, s) /\ Pending(query, s, t)
                    /\ visited \o Rest(query, t) = Goal(query)
    BY <2>1 DEF ListInv
  <2>3. query.depth \in 0 .. query.depth /\ query.depth - query.depth = 0
    BY <1>1, QueryFacts
  <2>4. /\ After(query, query.dir, query.index, query.depth) = <<>>
        /\ t[query.depth] = t[query.depth - query.depth]
    BY <1>1, <1>5, <2>2, <2>3, EndedIs
  <2>5. t[query.depth] = <<>> BY <2>2, <2>3, <2>4 DEF Pending
  <2>6. Below(query) = <<>> BY <1>5, NothingBelow
  <2>7. <<>> \in Out BY DEF Out
  <2>8. Rest(query, t) = <<>> BY <2>4, <2>5, <2>6, <2>7, ConcatType DEF Rest
  <2>9. visited \o <<>> = visited BY <1>3, <2>7, ConcatType
  <2> QED BY <1>2, <2>2, <2>8, <2>9
<1> QED BY <1>4, <1>5

(* The names that a path is made of are those of the directories on the    *)
(* way down and of the entry.                                              *)
LEMMA PathSound == TypeInv /\ ListInv => PathMatchesEntry
<1> DEFINE n == query.depth
           Sound(g) == g = [k \in 0 .. n |-> IF k = 0 THEN query.start ELSE Into(g[k - 1], Relative[k])]
<1> SUFFICES ASSUME TypeInv, ListInv, pc = "show"
             PROVE  /\ (CHOOSE g : Sound(g))[n] = query.dir
                    /\ Last(Relative) = Entries[query.dir][query.index]
  BY DEF PathMatchesEntry
<1>1. TypeOK /\ query # None BY DEF TypeInv, TypeOK
<1>2. PICK s : Stack(query, s) BY DEF ListInv, Walking
<1>3. n \in Nat BY <1>1, QueryFacts
<1>4. /\ s \in [0 .. n -> DirNode] /\ s[0] = query.start /\ s[n] = query.dir
      /\ \A j \in 1 .. n : query.indices[j] \in DOMAIN Entries[s[j - 1]] /\ Entries[s[j - 1]][query.indices[j]] = s[j]
  BY <1>2 DEF Stack
<1>5. ASSUME NEW k \in 1 .. n + 1
      PROVE  Relative[k] = Entries[s[k - 1]][IndexAt(n + 1 - k)]
  <2>1. n + 1 - k \in 0 .. n /\ n - (n + 1 - k) = k - 1 BY <1>3
  <2>2. Up[n + 1 - k] = s[k - 1] BY <1>1, <1>2, <2>1, UpIsStack
  <2>3. Relative[k] = Entries[Up[n + 1 - k]][IndexAt(n + 1 - k)] BY DEF Relative
  <2> QED BY <2>2, <2>3
<1>6. ASSUME NEW k \in 1 .. n PROVE Into(s[k - 1], Relative[k]) = s[k]
  <2>1. /\ k \in 1 .. n + 1 /\ n + 1 - k # 0 /\ n - (n + 1 - k) + 1 = k
        /\ k - 1 \in 0 .. n /\ k \in 0 .. n
    BY <1>3
  <2>2. IndexAt(n + 1 - k) = query.indices[k] BY <2>1 DEF IndexAt
  <2>3. Relative[k] = s[k] BY <1>4, <1>5, <2>1, <2>2
  <2>4. s[k] \in Node /\ s[k - 1] \in DirNode BY <1>4, <2>1, TreeAssumption
  <2> DEFINE i == query.indices[k]
  <2>5. i \in DOMAIN Entries[s[k - 1]] /\ Entries[s[k - 1]][i] = s[k] BY <1>4
  <2> HIDE DEF i
  <2>6. s[k] \in ToSet(Children[s[k - 1]]) BY <2>4, <2>5, ChildCases
  <2> QED BY <2>3, <2>4, <2>6 DEF Into
<1>7. (CHOOSE g : Sound(g))[n] = query.dir
  <2> HIDE DEF n
  <2>1. Sound(s)
    <3> SUFFICES ASSUME NEW k \in 0 .. n
                 PROVE  s[k] = IF k = 0 THEN query.start ELSE Into(s[k - 1], Relative[k])
      BY <1>4
    <3>1. CASE k = 0 BY <1>4, <3>1
    <3>2. CASE k # 0
      <4>1. k \in 1 .. n BY <1>3, <3>2
      <4> QED BY <1>6, <3>2, <4>1
    <3> QED BY <3>1, <3>2
  <2> DEFINE g == CHOOSE g : Sound(g)
             T == {k \in Nat : k <= n => g[k] = s[k]}
  <2>2. Sound(g) BY <2>1
  <2> HIDE DEF g
  <2>3. g[0] = s[0] BY <1>3, <1>4, <2>2
  <2>4. ASSUME NEW k \in 1 .. n, g[k - 1] = s[k - 1] PROVE g[k] = s[k]
    <3>1. k \in 0 .. n /\ k # 0 BY <1>3
    <3>2. g[k] = IF k = 0 THEN query.start ELSE Into(g[k - 1], Relative[k]) BY <2>2, <3>1, Zenon
    <3> QED BY <1>6, <2>4, <3>1, <3>2
  <2>5. 0 \in T BY <2>3
  <2>6. ASSUME NEW k \in Nat, k \in T PROVE k + 1 \in T
    <3> SUFFICES ASSUME k + 1 <= n PROVE g[k + 1] = s[k + 1] OBVIOUS
    <3>1. k + 1 \in 1 .. n /\ k + 1 - 1 = k BY <1>3
    <3>2. g[k] = s[k] BY <1>3, <2>6
    <3> QED BY <2>4, <3>1, <3>2
  <2> HIDE DEF T
  <2>7. Nat \subseteq T BY <2>5, <2>6, NatSetInduction
  <2>8. g[n] = s[n] BY <1>3, <2>7 DEF T
  <2> QED BY <1>4, <2>8 DEF g
<1>8. Last(Relative) = Entries[query.dir][query.index]
  <2> DEFINE m == n + 1
             S == {Relative[k] : k \in 1 .. m}
  <2>1. m \in 1 .. n + 1 /\ m - 1 = n /\ n + 1 - m = 0 /\ m \in Nat BY <1>3
  <2>2. Relative = [k \in 1 .. m |-> Relative[k]] BY DEF Relative
  <2>3. Relative[m] = Entries[query.dir][query.index]
    <3> HIDE DEF m
    <3>1. Relative[m] = Entries[s[m - 1]][IndexAt(n + 1 - m)] BY <1>5, <2>1
    <3> QED BY <1>4, <2>1, <3>1 DEF IndexAt
  <2> HIDE DEF m
  <2>4. Relative \in [1 .. m -> S] BY <2>2
  <2> HIDE DEF S
  <2>5. Relative \in Seq(S) /\ Len(Relative) = m BY <2>1, <2>4
  <2> QED BY <2>3, <2>5 DEF Last
<1> QED BY <1>7, <1>8

WalkInv == TypeInv /\ ListInv

LEMMA WalkInvariant == Spec => []WalkInv
<1>1. Init => WalkInv
  <2>1. Init => TypeOK BY DEF Init, TypeOK, MemoryOK
  <2>2. Init => FlagMatches /\ ListInv BY DEF Init, FlagMatches, ListInv, Walking
  <2> QED BY <2>1, <2>2 DEF WalkInv, TypeInv
<1>2. WalkInv /\ [Next]_vars => WalkInv' BY TypeStep, ListStep DEF WalkInv
<1> QED BY <1>1, <1>2, PTL DEF Spec

(* ls returns the entries of a depth-first listing in its order, none      *)
(* twice, and has returned all when it says that there are no more, for    *)
(* any tree and limit, although only indices are kept on the way down and  *)
(* the way up is read from "..".                                           *)
THEOREM WalkListsTree == Spec => []WalkIsListing
<1>1. WalkInv => WalkIsListing BY ListSound DEF WalkInv
<1> QED BY <1>1, WalkInvariant, PTL

(* The names that FSGetPath collects lead from the directory of the query  *)
(* to the entry that the handle is about.                                  *)
THEOREM PathLeadsToEntry == Spec => []PathMatchesEntry
<1>1. WalkInv => PathMatchesEntry BY PathSound DEF WalkInv
<1> QED BY <1>1, WalkInvariant, PTL
(* What has been returned is no longer than what is wanted.                *)
LEMMA PrefixShorter ==
  ASSUME NEW q \in Query, NEW v \in Out, NEW r \in Out, v \o r = Goal(q)
  PROVE  Len(Goal(q)) \in Nat /\ Len(v) \in Nat /\ Len(v) <= Len(Goal(q))
<1>1. Goal(q) \in Out BY GoalIs
<1> DEFINE g == Goal(q)
<1>2. Len(g) = Len(v) + Len(r) /\ Len(r) \in Nat /\ Len(v) \in Nat
  <2>1. Len(v \o r) = Len(v) + Len(r) BY DEF Out
  <2> QED BY <2>1 DEF Out
<1>3. Len(g) \in Nat BY <1>1 DEF Out
<1> HIDE DEF g
<1> QED BY <1>2, <1>3 DEF g

LEMMA StillToCome ==
  ASSUME WalkInv, query # None
  PROVE  /\ query \in Query /\ visited \in Out /\ Wanted = Goal(query)
         /\ Len(Wanted) \in Nat /\ Len(visited) \in Nat /\ Len(visited) <= Len(Wanted)
<1>1. query \in Query /\ Wanted = Goal(query)
  BY QueryFacts, WantedIsGoal DEF WalkInv, TypeInv
<1>2. PICK r \in Out : visited \in Out /\ visited \o r = Goal(query) BY DEF WalkInv, ListInv
<1> QED BY <1>1, <1>2, PrefixShorter

(* A call that returns an entry, for a query that wants the same.          *)
LEMMA EntryReturned ==
  ASSUME WalkInv, WalkInv', pc = "next", query # None, pc' = "show", query' # None,
         query'.start = query.start, query'.recursive = query.recursive,
         query'.limit = query.limit, Returned(query')
  PROVE  StepsLeft' \in 0 .. StepsLeft - 1
<1> DEFINE w == Len(Wanted)
           v == Len(visited)
<1>1. w \in Nat /\ v \in Nat /\ v <= w BY StillToCome
<1>2. v' <= w
  <2>1. query' \in Query BY DEF WalkInv, TypeInv, TypeOK
  <2>2. PICK r \in Out : visited' \in Out /\ visited' \o r = Goal(query') BY DEF WalkInv, ListInv
  <2>3. Goal(query') = Goal(query) BY SameAfter DEF Goal
  <2>4. Wanted = Goal(query) BY StillToCome
  <2> QED BY <2>1, <2>2, <2>3, <2>4, PrefixShorter
<1>3. w' = w BY DEF Wanted
<1>4. v' = v + 1
  <2>1. visited \in Out BY StillToCome
  <2> QED BY <2>1 DEF Returned, Out
<1>5. StepsLeft = 2 * (w - v) + 2 BY Zenon DEF StepsLeft
<1>6. StepsLeft' = 2 * (w' - v') + 3 BY Zenon DEF StepsLeft
<1> HIDE DEF w, v
<1> QED BY <1>1, <1>2, <1>3, <1>4, <1>5, <1>6

(* A call that returns nothing.                                            *)
LEMMA NothingReturned ==
  ASSUME WalkInv, WalkInv', query # None, query' # None,
         query'.start = query.start, query'.recursive = query.recursive,
         query'.limit = query.limit, visited' = visited,
         \/ pc = "show" /\ pc' \in {"next", "close"}
         \/ pc = "next" /\ pc' = "close"
  PROVE  StepsLeft' \in 0 .. StepsLeft - 1
<1> DEFINE w == Len(Wanted)
           v == Len(visited)
<1>1. w \in Nat /\ v \in Nat /\ v <= w BY StillToCome
<1>2. w' = w BY DEF Wanted
<1>3. v' = v OBVIOUS
<1>4. StepsLeft = 2 * (w - v) + (IF pc = "show" THEN 3 ELSE 2) BY DEF StepsLeft
<1>5. StepsLeft' = 2 * (w' - v') + (IF pc' = "next" THEN 2 ELSE 1) BY DEF StepsLeft
<1> HIDE DEF w, v
<1> QED BY <1>1, <1>2, <1>3, <1>4, <1>5

LEMMA AdvanceStep ==
  ASSUME WalkInv, WalkInv', Next, query # None
  PROVE  StepsLeft' \in 0 .. StepsLeft - 1
<1>1. query \in Query /\ pc # "idle" BY StillToCome DEF WalkInv, TypeInv, TypeOK
<1>2. pc' # "idle" => query' # None BY DEF WalkInv, TypeInv, TypeOK
<1>3. ASSUME NEW d \in DirNode, NEW recursive \in BOOLEAN, NEW limit \in Limits,
             GetFirst(d, recursive, limit)
      PROVE  FALSE
  BY <1>1, <1>3 DEF GetFirst
<1>4. CASE Show
  <2>1. pc = "show" /\ pc' \in {"next", "close"} /\ query' = query /\ visited' = visited
    BY <1>4 DEF Show
  <2>2. query' # None /\ query'.start = query.start /\ query'.recursive = query.recursive
        /\ query'.limit = query.limit
    BY <2>1
  <2> QED BY <2>1, <2>2, NothingReturned
<1>5. CASE Descend
  <2>1. pc = "next" /\ pc' = "show" /\ Returned(query')
        /\ query' = [query EXCEPT !.dir = Child, !.index = 1, !.depth = query.depth + 1,
                                  !.indices = Append(query.indices, query.index)]
    BY <1>5 DEF Descend
  <2>2. query'.start = query.start /\ query'.recursive = query.recursive /\ query'.limit = query.limit
    BY <1>1, <2>1 DEF Query
  <2> QED BY <1>2, <2>1, <2>2, EntryReturned
<1>6. CASE DescendFails BY <1>2, <1>6, NothingReturned DEF DescendFails
<1>7. CASE Sibling
  <2>1. pc = "next" /\ pc' = "show" /\ Returned(query')
        /\ query' = At(query, query.dir, query.index + 1)
    BY <1>7 DEF Sibling, Stays
  <2>2. query'.start = query.start /\ query'.recursive = query.recursive /\ query'.limit = query.limit
    BY <1>1, <2>1 DEF At, Query
  <2> QED BY <1>2, <2>1, <2>2, EntryReturned
<1>8. ASSUME NEW k \in 0 .. MaxRecursion, Ascend(k) PROVE StepsLeft' \in 0 .. StepsLeft - 1
  <2>1. PICK d \in DirNode :
          /\ query' = [At(query, d, IndexAt(k) + 1) EXCEPT
                         !.depth = query.depth - k,
                         !.indices = SubSeq(query.indices, 1, query.depth - k)]
          /\ Returned(query')
    BY <1>1, <1>8 DEF Ascend, At, Query
  <2>2. query'.start = query.start /\ query'.recursive = query.recursive /\ query'.limit = query.limit
    BY <1>1, <2>1 DEF At, Query
  <2>3. pc = "next" /\ pc' = "show" BY <1>8 DEF Ascend, Stays
  <2> QED BY <1>2, <2>1, <2>2, <2>3, EntryReturned
<1>9. ASSUME NEW k, GoneUp(k), pc = "next" PROVE StepsLeft' \in 0 .. StepsLeft - 1
  <2>1. /\ query' = [query EXCEPT !.depth = query.depth - k,
                                  !.indices = SubSeq(query.indices, 1, query.depth - k)]
        /\ pc' = "close" /\ visited' = visited
    BY <1>9 DEF GoneUp
  <2>2. query'.start = query.start /\ query'.recursive = query.recursive /\ query'.limit = query.limit
    BY <1>1, <2>1 DEF Query
  <2> QED BY <1>2, <1>9, <2>1, <2>2, NothingReturned
<1>10. ASSUME NEW k \in 0 .. MaxRecursion, AscendFails(k) PROVE StepsLeft' \in 0 .. StepsLeft - 1
  BY <1>9, <1>10 DEF AscendFails, Stays
<1>11. CASE Exhausted BY <1>9, <1>11 DEF Exhausted, Stays
<1>12. CASE Close
  <2>1. pc = "close" /\ query' = None BY <1>12 DEF Close
  <2> DEFINE w == Len(Wanted)
             v == Len(visited)
  <2>2. w \in Nat /\ v \in Nat /\ v <= w BY StillToCome
  <2>3. StepsLeft = 2 * (w - v) + 1 BY <2>1 DEF StepsLeft
  <2>4. StepsLeft' = 0 BY <2>1 DEF StepsLeft
  <2> HIDE DEF w, v
  <2> QED BY <2>2, <2>3, <2>4
<1>13. CASE GetFirstFails
  <2>1. query = None BY <1>13 DEF GetFirstFails, WalkInv, TypeInv, TypeOK
  <2> QED BY <2>1
<1> QED BY <1>3, <1>4, <1>5, <1>6, <1>7, <1>8, <1>10, <1>11, <1>12, <1>13 DEF Next

(* ls comes to an end, for any tree and limit: each call of its loop       *)
(* leaves less to do, though it keeps no stack and climbs by "..".         *)
THEOREM WalkEnds == Spec => WalkAdvances
<1>1. WalkInv /\ WalkInv' /\ [Next]_vars => [query # None => StepsLeft' \in 0 .. StepsLeft - 1]_vars
  BY AdvanceStep
<1> QED BY <1>1, WalkInvariant, PTL DEF Spec, WalkAdvances
=============================================================================
