-------------------------- MODULE NtfsDriverProofs --------------------------
(***************************************************************************)
(* Proofs about NtfsDriver: the type invariant, which holds because the    *)
(* query of ls is about an entry its reader has; the account of the slots, *)
(* which is inductive with it; what ls lists (ListInv): what was shown and *)
(* what the saved offsets lead to make up the listing, though the program  *)
(* keeps no directory on the way; the search of a path, token by token     *)
(* (At); that first names, followed up to the root, lead back down as far  *)
(* as they are among the entries (Climb); and why ls ends: a walk that     *)
(* finds its way up and has room for its offsets does not go astray        *)
(* (HomeInv), and leaves less to list with each call.                      *)
(***************************************************************************)
EXTENDS NtfsDriver, FiniteSetTheorems, WellFoundedInduction, TLAPS

TableType == [Handle -> SlotType \cup {None}]

LEMMA EntryFile ==
  ASSUME NEW d \in Dir, NEW i \in DOMAIN Entries[d]
  PROVE  Entries[d][i].file \in File /\ i \in Nat \ {0}
<1> DEFINE T == [name : Name, file : File]
<1>1. Entries[d] \in Seq(T) BY TreeAssumption
<1> HIDE DEF T
<1>2. DOMAIN Entries[d] = 1 .. Len(Entries[d]) BY <1>1
<1>3. Entries[d][i] \in T BY <1>1, <1>2
<1>4. Entries[d][i].file \in File BY <1>3 DEF T
<1> QED BY <1>1, <1>2, <1>4

LEMMA FirstEntry ==
  ASSUME NEW d \in Dir, Entries[d] # <<>>
  PROVE  1 \in DOMAIN Entries[d]
<1>1. Entries[d] \in Seq([name : Name, file : File]) BY TreeAssumption
<1> QED BY <1>1

LEMMA IndexInDomain ==
  ASSUME NEW d \in Dir, NEW i \in Nat, ~ EndOf(d, i)
  PROVE  i + 1 \in DOMAIN Entries[d]
<1>1. Entries[d] \in Seq([name : Name, file : File]) BY TreeAssumption
<1> QED BY <1>1 DEF EndOf

LEMMA SlotsTyped ==
  /\ \A f \in File : Slot(f) \in SlotType /\ QuerySlot(f) \in SlotType
  /\ EmptySlot \in SlotType
BY DEF SlotType

LEMMA DirSlot ==
  ASSUME NEW s \in SlotType, s.dir
  PROVE  s.file \in Dir
<1>1. ASSUME NEW f \in File, s = Slot(f) PROVE s.file \in Dir
  <2>1. s.dir = (f \in Dir) /\ s.file = f BY <1>1, Zenon DEF Slot
  <2> QED BY <2>1
<1>2. ASSUME NEW f \in File, s = QuerySlot(f) PROVE s.file \in Dir
  <2>1. s.dir = (f \in Dir) /\ s.file = f BY <1>2, Zenon DEF QuerySlot
  <2> QED BY <2>1
<1>3. s # EmptySlot BY DEF EmptySlot
<1> QED BY <1>1, <1>2, <1>3 DEF SlotType

LEMMA HereDir ==
  ASSUME TypeOK, IsOpenDir(current_dir)
  PROVE  Here \in Dir
<1>1. handle_table[current_dir] \in SlotType BY DEF TypeOK, IsOpenDir, IsOpen
<1> QED BY <1>1, DirSlot DEF IsOpenDir, Here

LEMMA CloseType ==
  ASSUME NEW t \in TableType, NEW h
  PROVE  /\ CloseIn(t, h) \in TableType
         /\ \A g \in Handle : CloseIn(t, h)[g] = IF g = h THEN None ELSE t[g]
BY DEF CloseIn, TableType

LEMMA RootSlot == 1 \in Handle /\ Root \in File
<1>1. 1 \in Handle BY HandlesAssumption DEF Handle
<1>2. Root \in File BY TreeAssumption
<1> QED BY <1>1, <1>2

LEMMA LimitType ==
  ASSUME NEW recursive \in BOOLEAN, NEW limit \in Limits
  PROVE  Clamped(recursive, limit) \in 1 .. MaxRecursion
BY LimitsAssumption DEF Clamped

-----------------------------------------------------------------------------
LEMMA InitType == Init => TypeOK
<1> SUFFICES ASSUME Init PROVE TypeOK OBVIOUS
<1>1. handle_table \in TableType BY DEF Init, Closed, TableType
<1>2. visited \in Seq(Dir \X Nat) BY DEF Init
<1> QED BY <1>1, <1>2 DEF Init, TypeOK, TableType

(* A query that was given an entry of a directory.                         *)
LEMMA ReturnType ==
  ASSUME TypeOK, pc # "idle",
         NEW d \in Dir, NEW i \in DOMAIN Entries[d], NEW depth \in Nat,
         NEW indices \in Seq(Nat \ {0}), NEW astray \in BOOLEAN,
         Len(indices) = depth, depth < walk.limit,
         Return(d, i, depth, indices, astray)
  PROVE  TypeOK'
<1>1. Entries[d][i].file \in File /\ i \in Nat \ {0} BY EntryFile
<1>2. WalkOK BY DEF TypeOK
<1>3. walk' \in WalkType BY <1>1, <1>2 DEF Return, WalkOK, WalkType
<1>4. walk'.handle = walk.handle /\ walk'.dir = d /\ walk'.index = i /\ walk'.depth = depth
      /\ walk'.indices = indices /\ walk'.limit = walk.limit /\ walk.handle \in Handle
  BY <1>2 DEF Return, WalkOK, WalkType
<1>5. handle_table' \in TableType
      /\ handle_table'[walk.handle] = QuerySlot(Entries[d][i].file)
  BY <1>1, <1>4, SlotsTyped DEF Return, TypeOK, TableType
<1>6. WalkOK' BY <1>3, <1>4, <1>5 DEF WalkOK
<1>7. visited' \in Seq(Dir \X Nat)
  <2>1. <<d, i>> \in Dir \X Nat BY <1>1
  <2> QED BY <2>1 DEF Return, TypeOK
<1> QED BY <1>5, <1>6, <1>7 DEF Return, TypeOK, TableType, session

LEMMA StuckType ==
  ASSUME TypeOK, UNCHANGED <<session, handle_table, walk, visited, lost>>,
         alive' \in BOOLEAN, pc # "idle", pc' \in {"show", "next", "close"}
  PROVE  TypeOK'
BY DEF TypeOK, session, WalkOK, EndOf

LEMMA CrashType ==
  ASSUME TypeOK, Crash
  PROVE  TypeOK'
BY DEF TypeOK, Crash, session, WalkOK

(* With a place for the offset or without, the query is given an entry if  *)
(* the process goes on.                                                    *)
LEMMA Saved ==
  ASSUME NEW d, NEW i, NEW depth, NEW indices, SaveAndReturn(d, i, depth, indices), ~ Crash
  PROVE  /\ Return(d, i, depth, indices, walk.astray \/ ~ HasPlace)
         /\ (walk.astray \/ ~ HasPlace) \in BOOLEAN
BY DEF SaveAndReturn

(* A buffer with room for all the levels has one for the walk's.           *)
LEMMA RoomyHasPlace ==
  ASSUME WalkOK, Roomy(walk.limit)
  PROVE  HasPlace
<1> DEFINE m == walk.limit
           n == Places(m)
<1>1. m \in Nat /\ walk.depth \in Nat /\ walk.depth < m
  BY LimitsAssumption DEF WalkOK, WalkType
<1>2. n \in Nat
  <2> DEFINE k == (m * 4 + PageSize - 1) \div PageSize
             b == k * PageSize
  <2>1. PageSize \in Nat /\ PageSize > 0 BY PageAssumption
  <2>2. m * 4 + PageSize - 1 \in Nat BY <1>1, <2>1
  <2>3. k \in Nat
    <3> DEFINE a == m * 4 + PageSize - 1
    <3> HIDE DEF a, m
    <3>1. a \in Nat BY <2>2 DEF a
    <3>2. a \div PageSize \in Nat BY <2>1, <3>1
    <3> QED BY <3>2 DEF a
  <2>4. b \in Nat
    <3> HIDE DEF k, m
    <3> QED BY <2>1, <2>3
  <2>5. n = b \div 8 BY DEF Places
  <2> HIDE DEF b, n, m
  <2> QED BY <2>4, <2>5
<1>3. m <= n BY DEF Roomy
<1> HIDE DEF n, m
<1>4. walk.depth < n BY <1>1, <1>2, <1>3
<1> QED BY <1>4 DEF HasPlace, n, m

LEMMA DescendType ==
  ASSUME TypeOK, pc # "idle", Descend
  PROVE  TypeOK'
<1>1. WalkOK BY DEF TypeOK
<1>2. handle_table[walk.handle] = QuerySlot(Current) /\ Current \in File
  BY <1>1, EntryFile DEF WalkOK, Current, WalkType, QuerySlot
<1>3. Current \in Dir
  <2>1. handle_table[walk.handle] \in SlotType BY <1>2, SlotsTyped
  <2> QED BY <2>1, DirSlot DEF Current, Descend, Descends, MayDescend
<1>4. 1 \in DOMAIN Entries[Current] BY <1>3, FirstEntry DEF Descend, Descends
<1>5. walk.depth \in Nat /\ walk.index \in Nat \ {0} /\ walk.indices \in Seq(Nat \ {0})
      /\ walk.astray \in BOOLEAN /\ walk.limit \in Nat
  BY <1>1, LimitsAssumption DEF WalkOK, WalkType
<1>6. Append(walk.indices, walk.index) \in Seq(Nat \ {0})
      /\ Len(Append(walk.indices, walk.index)) = walk.depth + 1
  BY <1>1, <1>5 DEF WalkOK
<1>7. walk.depth + 1 < walk.limit BY <1>5 DEF Descend, Descends, MayDescend
<1>8. CASE Crash BY <1>8, CrashType
<1>9. CASE ~ Crash
  <2> DEFINE n == walk.depth + 1
             x == Append(walk.indices, walk.index)
             b == walk.astray \/ ~ HasPlace
  <2>1. Return(Current, 1, n, x, b) /\ b \in BOOLEAN BY <1>9, Saved DEF Descend
  <2>2. n \in Nat /\ n < walk.limit /\ x \in Seq(Nat \ {0}) /\ Len(x) = n
    BY <1>5, <1>6, <1>7
  <2> HIDE DEF Current, n, x, b
  <2> QED BY <1>3, <1>4, <2>1, <2>2, ReturnType
<1> QED BY <1>8, <1>9

LEMMA SiblingType ==
  ASSUME TypeOK, pc # "idle", Sibling
  PROVE  TypeOK'
<1>1. WalkOK BY DEF TypeOK
<1>2. walk.depth \in Nat /\ walk.index \in Nat \ {0} /\ walk.indices \in Seq(Nat \ {0})
      /\ walk.astray \in BOOLEAN /\ walk.dir \in Dir
  BY <1>1 DEF WalkOK, WalkType
<1>3. walk.index + 1 \in DOMAIN Entries[walk.dir] BY <1>2, IndexInDomain DEF Sibling
<1> QED BY <1>1, <1>2, <1>3, ReturnType DEF Sibling, WalkOK

(* What is kept of the way down when the walk goes up k levels.            *)
LEMMA UpType ==
  ASSUME TypeOK, pc # "idle", NEW k \in 1 .. walk.depth
  PROVE  /\ walk.depth - k \in Nat
         /\ SubSeq(walk.indices, 1, walk.depth - k) \in Seq(Nat \ {0})
         /\ Len(SubSeq(walk.indices, 1, walk.depth - k)) = walk.depth - k
         /\ walk.depth - k < walk.limit
         /\ IndexAt(k) \in Nat \ {0}
<1>1. WalkOK BY DEF TypeOK
<1>2. walk.depth \in Nat /\ walk.indices \in Seq(Nat \ {0}) /\ Len(walk.indices) = walk.depth
      /\ walk.limit \in Nat /\ walk.depth < walk.limit
  BY <1>1, LimitsAssumption DEF WalkOK, WalkType
<1>3. walk.depth - k + 1 \in 1 .. Len(walk.indices) BY <1>2
<1>4. IndexAt(k) \in Nat \ {0} BY <1>2, <1>3 DEF IndexAt
<1>5. 1 .. walk.depth - k \subseteq DOMAIN walk.indices BY <1>2
<1> QED BY <1>2, <1>4, <1>5

LEMMA AscendType ==
  ASSUME TypeOK, pc # "idle", NEW k \in 1 .. walk.depth, Ascend(k)
  PROVE  TypeOK'
<1>1. PICK d \in Dir :
        /\ ~ EndOf(d, IndexAt(k))
        /\ SaveAndReturn(d, IndexAt(k) + 1, walk.depth - k, SubSeq(walk.indices, 1, walk.depth - k))
  BY DEF Ascend
<1>2. IndexAt(k) \in Nat BY UpType
<1>3. IndexAt(k) + 1 \in DOMAIN Entries[d] BY <1>1, <1>2, IndexInDomain
<1>4. CASE Crash BY <1>4, CrashType
<1>5. CASE ~ Crash
  <2> DEFINE b == walk.astray \/ ~ HasPlace
  <2>1. /\ Return(d, IndexAt(k) + 1, walk.depth - k, SubSeq(walk.indices, 1, walk.depth - k), b)
        /\ b \in BOOLEAN
    BY <1>1, <1>5, Saved
  <2> HIDE DEF b
  <2> QED BY <1>3, <2>1, UpType, ReturnType
<1> QED BY <1>4, <1>5

LEMMA AstrayType ==
  ASSUME TypeOK, pc # "idle", Astray
  PROVE  TypeOK'
<1>1. CASE Crash BY <1>1, CrashType
<1>2. CASE ~ Crash
  <2>1. PICK k \in 1 .. walk.depth, d \in Dir : \E i \in DOMAIN Entries[d] :
          Return(d, i, walk.depth - k, SubSeq(walk.indices, 1, walk.depth - k), TRUE)
    BY <1>2 DEF Astray
  <2> QED BY <2>1, UpType, ReturnType
<1> QED BY <1>1, <1>2

LEMMA GetNextType ==
  ASSUME TypeOK, GetNext
  PROVE  TypeOK'
<1>0. pc # "idle" BY DEF GetNext
<1>1. CASE Descend BY <1>0, <1>1, DescendType
<1>2. CASE Sibling BY <1>0, <1>2, SiblingType
<1>3. ASSUME NEW k \in 1 .. walk.depth, Ascend(k) PROVE TypeOK' BY <1>0, <1>3, AscendType
<1>4. CASE Astray BY <1>0, <1>4, AstrayType
<1>5. CASE Exhausted \/ Fails
  <2>1. alive' \in BOOLEAN BY <1>5 DEF Exhausted, Fails, TypeOK
  <2> QED BY <1>0, <1>5, <2>1, StuckType DEF Exhausted, Fails
<1> QED BY <1>1, <1>2, <1>3, <1>4, <1>5 DEF GetNext

(* A step of the shell that opens no query.                                *)
LEMMA IdleType ==
  ASSUME TypeOK, pc = "idle", UNCHANGED <<pc, walk, visited>>,
         alive' \in BOOLEAN, driver' \in BOOLEAN, carried' \in BOOLEAN,
         handle_table' \in TableType,
         current_dir' \in Handle \cup {None}, current_file' \in Handle \cup {None},
         lost' \subseteq Handle
  PROVE  TypeOK'
BY DEF TypeOK, TableType

LEMMA PutType ==
  ASSUME TypeOK, NEW h \in Handle, NEW s \in SlotType
  PROVE  [handle_table EXCEPT ![h] = s] \in TableType
BY DEF TypeOK, TableType

THEOREM TypeStep == TypeOK /\ [Next]_vars => TypeOK'
<1> SUFFICES ASSUME TypeOK, [Next]_vars PROVE TypeOK' OBVIOUS
<1>1. CASE Enter
  <2>1. handle_table' \in TableType BY <1>1, RootSlot, SlotsTyped DEF Enter, TableType, Closed
  <2> QED BY <1>1, <2>1, RootSlot, IdleType DEF Enter, TypeOK
<1>2. CASE Exit
  <2>1. handle_table' \in TableType BY <1>2 DEF Exit, TableType, Closed
  <2> QED BY <1>2, <2>1, IdleType DEF Exit, Serving, TypeOK
<1>3. ASSUME NEW p \in Paths, OpenFile(p) PROVE TypeOK'
  <2>1. CASE Crash BY <2>1, CrashType
  <2>2. CASE ~ Crash
    <3>1. PICK h \in Handle, f \in File :
            /\ handle_table' = [handle_table EXCEPT ![h] = Slot(f)]
            /\ current_file' = h
            /\ UNCHANGED <<alive, driver, current_dir, carried, pc, walk, visited, lost>>
      BY <1>3, <2>2 DEF OpenFile
    <3>2. handle_table' \in TableType BY <3>1, SlotsTyped, PutType
    <3> QED BY <1>3, <3>1, <3>2, IdleType DEF OpenFile, Serving, TypeOK
  <2> QED BY <2>1, <2>2
<1>4. ASSUME NEW p \in Paths, Cd(p) PROVE TypeOK'
  <2>1. CASE Crash BY <2>1, CrashType
  <2>2. CASE ~ Crash
    <3>1. PICK h \in Handle, f \in Dir :
            /\ handle_table' = CloseIn([handle_table EXCEPT ![h] = Slot(f)], current_dir)
            /\ current_dir' = h
            /\ UNCHANGED <<alive, driver, current_file, carried, pc, walk, visited, lost>>
      BY <1>4, <2>2 DEF Cd
    <3>2. f \in File BY TreeAssumption
    <3>3. handle_table' \in TableType BY <3>1, <3>2, SlotsTyped, PutType, CloseType
    <3> QED BY <1>4, <3>1, <3>3, IdleType DEF Cd, Serving, TypeOK
  <2> QED BY <2>1, <2>2
<1>5. CASE CloseFile
  <2>1. handle_table' \in TableType BY <1>5, CloseType DEF CloseFile, TypeOK, TableType
  <2> QED BY <1>5, <2>1, IdleType DEF CloseFile, Serving, TypeOK
<1>6. CASE AttributeGet \/ GetFirstFull BY <1>6, CrashType DEF AttributeGet, GetFirstFull
<1>7. CASE GetFirstEmpty
  <2>1. PICK h \in Handle : handle_table' = [handle_table EXCEPT ![h] = EmptySlot] /\ lost' = lost \cup {h}
    BY <1>7 DEF GetFirstEmpty
  <2>2. handle_table' \in TableType BY <2>1, SlotsTyped, PutType
  <2> QED BY <1>7, <2>1, <2>2, IdleType DEF GetFirstEmpty, Serving, TypeOK, session
<1>8. CASE LsOutOfMemory
  <2>1. Here \in Dir BY <1>8, HereDir DEF LsOutOfMemory
  <2>2. Entries[Here][1].file \in File BY <1>8, <2>1, FirstEntry, EntryFile DEF LsOutOfMemory
  <2>3. PICK h \in Handle :
          handle_table' = [handle_table EXCEPT ![h] = QuerySlot(Entries[Here][1].file)]
          /\ lost' = lost \cup {h}
    BY <1>8 DEF LsOutOfMemory
  <2>4. handle_table' \in TableType BY <2>2, <2>3, SlotsTyped, PutType
  <2> QED BY <1>8, <2>3, <2>4, IdleType DEF LsOutOfMemory, Serving, TypeOK, session
<1>9. ASSUME NEW recursive \in BOOLEAN, NEW limit \in Limits, GetFirst(recursive, limit)
      PROVE  TypeOK'
  <2>1. Here \in Dir BY <1>9, HereDir DEF GetFirst
  <2>2. 1 \in DOMAIN Entries[Here] BY <1>9, <2>1, FirstEntry DEF GetFirst
  <2>3. Entries[Here][1].file \in File BY <2>1, <2>2, EntryFile
  <2>4. PICK h \in Handle :
          /\ handle_table' = [handle_table EXCEPT ![h] = QuerySlot(Entries[Here][1].file)]
          /\ walk' = [handle |-> h, start |-> Here, recursive |-> recursive,
                      limit |-> Clamped(recursive, limit), dir |-> Here, index |-> 1,
                      depth |-> 0, indices |-> <<>>, astray |-> FALSE]
    BY <1>9 DEF GetFirst
  <2>5. handle_table' \in TableType /\ handle_table'[h] = QuerySlot(Entries[Here][1].file)
    BY <2>3, <2>4, SlotsTyped, PutType DEF TypeOK
  <2>6. walk' \in WalkType BY <2>1, <2>4, LimitType DEF WalkType
  <2>7. 0 < walk'.limit BY <2>4, LimitType
  <2>8. WalkOK' BY <2>2, <2>4, <2>5, <2>6, <2>7 DEF WalkOK
  <2>9. visited' \in Seq(Dir \X Nat)
    <3>1. <<Here, 1>> \in Dir \X Nat BY <2>1
    <3> QED BY <1>9, <3>1 DEF GetFirst
  <2> QED BY <1>9, <2>5, <2>8, <2>9 DEF GetFirst, TypeOK, TableType, session
<1>10. CASE Show
  <2>1. alive' \in BOOLEAN BY <1>10 DEF Show, TypeOK
  <2> QED BY <1>10, <2>1, StuckType DEF Show
<1>11. CASE GetNext BY <1>11, GetNextType
<1>12. CASE CloseQuery
  <2>1. handle_table' \in TableType BY <1>12, CloseType DEF CloseQuery, TypeOK, TableType
  <2> QED BY <1>12, <2>1 DEF CloseQuery, TypeOK, TableType, session
<1>13. CASE UNCHANGED vars BY <1>13 DEF vars, session, TypeOK, WalkOK
<1> QED BY <1>1, <1>2, <1>3, <1>4, <1>5, <1>6, <1>7, <1>8, <1>9, <1>10, <1>11, <1>12, <1>13 DEF Next

(* In every behaviour the variables have their types, and the query of ls  *)
(* is about an entry that its reader has and has saved an offset for each  *)
(* level above it, which are fewer than its limit (NTFSGetInfo).           *)
THEOREM TypeCorrect == Spec => []TypeOK
<1>1. Init => TypeOK BY InitType
<1>2. TypeOK /\ [Next]_vars => TypeOK' BY TypeStep
<1> QED BY <1>1, <1>2, PTL DEF Spec

-----------------------------------------------------------------------------
(* The slot is an open directory that is not a query.                      *)
IsPlace(slot) == slot # None /\ slot.dir /\ ~ slot.query

LEMMA PutOpened ==
  ASSUME TypeOK, NEW h \in Handle, NEW s \in SlotType,
         handle_table' = [handle_table EXCEPT ![h] = s]
  PROVE  /\ Opened' = Opened \cup {h}
         /\ \A g \in Handle : handle_table'[g] = IF g = h THEN s ELSE handle_table[g]
BY NoneAssumption DEF TypeOK, Opened

LEMMA CloseOpened ==
  ASSUME NEW t \in TableType, NEW h, handle_table' = CloseIn(t, h)
  PROVE  Opened' = {g \in Handle : t[g] # None} \ {h}
BY CloseType DEF Opened

LEMMA FreeNotOpened ==
  ASSUME NEW h \in Handle, FirstFree(h)
  PROVE  h \notin Opened /\ h # None
BY HandlesAssumption DEF FirstFree, Opened

(* What is used for what, while no file was left open over an exit.        *)
Account(dir, file, query, more) ==
  /\ Opened = {dir} \cup ({file} \ {None}) \cup query \cup more
  /\ dir # file
  /\ more \cap ({dir, file} \cup query) = {}
  /\ query \cap {dir, file} = {}
  /\ dir \in Handle /\ IsPlace(handle_table[dir])

LEMMA AccountIs ==
  HandlesAccounted <=>
    (alive /\ driver /\ ~ carried => Account(current_dir, current_file, Querying, lost))
BY DEF HandlesAccounted, Account, IsOpenDir, IsOpen, IsPlace

LEMMA AccountIsNext ==
  HandlesAccounted' <=>
    (alive' /\ driver' /\ ~ carried' =>
       Account(current_dir, current_file, Querying, lost)')
BY DEF HandlesAccounted, Account, IsOpenDir, IsOpen, IsPlace

LEMMA SlotPlace ==
  \A f \in Dir : Slot(f) \in SlotType /\ IsPlace(Slot(f))
<1> SUFFICES ASSUME NEW f \in Dir PROVE Slot(f) \in SlotType /\ IsPlace(Slot(f)) OBVIOUS
<1>1. Slot(f) \in SlotType BY SlotsTyped, TreeAssumption
<1>2. Slot(f) # None BY <1>1, NoneAssumption
<1>3. Slot(f).dir = (f \in Dir) /\ Slot(f).query = FALSE BY Zenon DEF Slot
<1> QED BY <1>1, <1>2, <1>3 DEF IsPlace

(* ls takes or leaves one more slot.                                       *)
LEMMA QueryAccount ==
  ASSUME TypeOK, HandlesAccounted, pc = "idle", NEW h \in Handle, FirstFree(h),
         NEW s \in SlotType, handle_table' = [handle_table EXCEPT ![h] = s],
         UNCHANGED <<alive, session>>,
         \/ Querying' = {} /\ lost' = lost \cup {h}
         \/ Querying' = {h} /\ lost' = lost
  PROVE  HandlesAccounted'
<1> SUFFICES ASSUME alive', driver', ~ carried'
             PROVE  Account(current_dir, current_file, Querying, lost)'
  BY AccountIsNext
<1>1. Account(current_dir, current_file, Querying, lost) BY AccountIs DEF session
<1>2. Querying = {} BY DEF Querying
<1>3. h \notin Opened /\ h # None BY FreeNotOpened
<1>4. /\ Opened' = Opened \cup {h}
      /\ \A g \in Handle : handle_table'[g] = IF g = h THEN s ELSE handle_table[g]
  BY PutOpened
<1>5. h # current_dir /\ h # current_file BY <1>1, <1>3 DEF Account
<1>6. current_dir' = current_dir /\ current_file' = current_file BY DEF session
<1> QED BY <1>1, <1>2, <1>3, <1>4, <1>5, <1>6 DEF Account, IsPlace

(* The query is given another entry.                                       *)
LEMMA ReturnAccount ==
  ASSUME TypeOK, HandlesAccounted, pc # "idle", NEW d \in Dir, NEW i \in DOMAIN Entries[d],
         NEW depth, NEW indices, NEW astray, Return(d, i, depth, indices, astray)
  PROVE  HandlesAccounted'
<1> SUFFICES ASSUME alive', driver', ~ carried'
             PROVE  Account(current_dir, current_file, Querying, lost)'
  BY AccountIsNext
<1>1. Account(current_dir, current_file, Querying, lost) BY AccountIs DEF session, Return
<1>2. QuerySlot(Entries[d][i].file) \in SlotType BY EntryFile, SlotsTyped
<1>3. WalkOK BY DEF TypeOK
<1>4. walk \in WalkType BY <1>3 DEF WalkOK
<1>5. walk.handle \in Handle BY <1>4 DEF WalkType
<1>6. walk'.handle = walk.handle BY <1>4 DEF Return, WalkType
<1>7. Querying = {walk.handle} /\ Querying' = {walk.handle} BY <1>6 DEF Querying, Return
<1>8. /\ Opened' = Opened \cup {walk.handle}
      /\ \A g \in Handle : g # walk.handle => handle_table'[g] = handle_table[g]
  BY <1>2, <1>5, PutOpened DEF Return
<1>9. current_dir' = current_dir /\ current_file' = current_file /\ lost' = lost
  BY DEF Return, session
<1> QED BY <1>1, <1>7, <1>8, <1>9 DEF Account, IsPlace

(* What no step of ls changes but the last.                                *)
LEMMA SameAccount ==
  ASSUME HandlesAccounted,
         UNCHANGED <<session, handle_table, walk, lost>>, pc = "idle" <=> pc' = "idle",
         alive' => alive
  PROVE  HandlesAccounted'
<1> SUFFICES ASSUME alive', driver', ~ carried'
             PROVE  Account(current_dir, current_file, Querying, lost)'
  BY AccountIsNext
<1>1. Account(current_dir, current_file, Querying, lost) BY AccountIs DEF session
<1>2. Querying' = Querying BY DEF Querying
<1>3. Opened' = Opened BY DEF Opened
<1> QED BY <1>1, <1>2, <1>3 DEF Account, IsPlace, session

LEMMA CrashAccount ==
  ASSUME Crash
  PROVE  HandlesAccounted'
BY DEF Crash, HandlesAccounted

LEMMA GetNextAccount ==
  ASSUME TypeOK, HandlesAccounted, GetNext
  PROVE  HandlesAccounted'
<1>0. pc # "idle" /\ WalkOK BY DEF GetNext, TypeOK
<1>1. CASE Descend
  <2>1. handle_table[walk.handle] = QuerySlot(Current) /\ Current \in File
    BY <1>0, EntryFile DEF WalkOK, Current, WalkType, QuerySlot
  <2>2. handle_table[walk.handle] \in SlotType BY <2>1, SlotsTyped
  <2>3. Current \in Dir BY <1>1, <2>2, DirSlot DEF Current, Descend, Descends, MayDescend
  <2>4. 1 \in DOMAIN Entries[Current] BY <1>1, <2>3, FirstEntry DEF Descend, Descends
  <2>5. CASE Crash BY <2>5, CrashAccount
  <2>6. CASE ~ Crash
    <3>1. \E n, x, b : Return(Current, 1, n, x, b) BY <1>1, <2>6, Saved DEF Descend
    <3> HIDE DEF Current
    <3> QED BY <1>0, <2>3, <2>4, <3>1, ReturnAccount
  <2> QED BY <2>5, <2>6
<1>2. CASE Sibling
  <2>1. walk.dir \in Dir /\ walk.index \in Nat BY <1>0 DEF WalkOK, WalkType
  <2>2. walk.index + 1 \in DOMAIN Entries[walk.dir] BY <1>2, <2>1, IndexInDomain DEF Sibling
  <2> QED BY <1>0, <1>2, <2>1, <2>2, ReturnAccount DEF Sibling
<1>3. ASSUME NEW k \in 1 .. walk.depth, Ascend(k) PROVE HandlesAccounted'
  <2>1. PICK d \in Dir :
          /\ ~ EndOf(d, IndexAt(k))
          /\ SaveAndReturn(d, IndexAt(k) + 1, walk.depth - k, SubSeq(walk.indices, 1, walk.depth - k))
    BY <1>3 DEF Ascend
  <2>2. IndexAt(k) \in Nat BY <1>0, UpType
  <2>3. IndexAt(k) + 1 \in DOMAIN Entries[d] BY <2>1, <2>2, IndexInDomain
  <2>4. CASE Crash BY <2>4, CrashAccount
  <2>5. CASE ~ Crash
    <3>1. \E n, x, b : Return(d, IndexAt(k) + 1, n, x, b) BY <2>1, <2>5, Saved
    <3> QED BY <1>0, <2>3, <3>1, ReturnAccount
  <2> QED BY <2>4, <2>5
<1>4. CASE Astray
  <2>1. CASE Crash BY <2>1, CrashAccount
  <2>2. CASE ~ Crash
    <3>1. PICK k \in 1 .. walk.depth, d \in Dir : \E i \in DOMAIN Entries[d] :
            Return(d, i, walk.depth - k, SubSeq(walk.indices, 1, walk.depth - k), TRUE)
      BY <1>4, <2>2 DEF Astray
    <3> QED BY <1>0, <3>1, ReturnAccount
  <2> QED BY <2>1, <2>2
<1>5. CASE Exhausted \/ Fails BY <1>0, <1>5, SameAccount DEF Exhausted, Fails
<1> QED BY <1>1, <1>2, <1>3, <1>4, <1>5 DEF GetNext

LEMMA OpenAccount ==
  ASSUME TypeOK, HandlesAccounted, NEW p \in Paths, OpenFile(p)
  PROVE  HandlesAccounted'
<1>1. CASE Crash BY <1>1, CrashAccount
<1>2. CASE ~ Crash
  <2> SUFFICES ASSUME alive', driver', ~ carried'
               PROVE  Account(current_dir, current_file, Querying, lost)'
    BY AccountIsNext
  <2>1. PICK h \in Handle, f \in File :
          /\ FirstFree(h)
          /\ handle_table' = [handle_table EXCEPT ![h] = Slot(f)]
          /\ current_file' = h
          /\ UNCHANGED <<alive, driver, current_dir, carried, pc, walk, visited, lost>>
    BY <1>2 DEF OpenFile, Opens
  <2>2. Account(current_dir, current_file, Querying, lost) BY <2>1, AccountIs
  <2>3. current_file = None /\ pc = "idle" BY DEF OpenFile, Serving
  <2>4. Querying = {} /\ Querying' = {} BY <2>1, <2>3 DEF Querying
  <2>5. h \notin Opened /\ h # None BY <2>1, FreeNotOpened
  <2>6. /\ Opened' = Opened \cup {h}
        /\ \A g \in Handle : g # h => handle_table'[g] = handle_table[g]
    BY <2>1, SlotsTyped, PutOpened
  <2> QED BY <2>1, <2>2, <2>3, <2>4, <2>5, <2>6 DEF Account, IsPlace
<1> QED BY <1>1, <1>2

LEMMA CdAccount ==
  ASSUME TypeOK, HandlesAccounted, NEW p \in Paths, Cd(p)
  PROVE  HandlesAccounted'
<1>1. CASE Crash BY <1>1, CrashAccount
<1>2. CASE ~ Crash
  <2> SUFFICES ASSUME alive', driver', ~ carried'
               PROVE  Account(current_dir, current_file, Querying, lost)'
    BY AccountIsNext
  <2>1. PICK h \in Handle, f \in Dir :
          /\ FirstFree(h)
          /\ handle_table' = CloseIn([handle_table EXCEPT ![h] = Slot(f)], current_dir)
          /\ current_dir' = h
          /\ UNCHANGED <<alive, driver, current_file, carried, pc, walk, visited, lost>>
    BY <1>2 DEF Cd, Opens
  <2>2. Account(current_dir, current_file, Querying, lost) BY <2>1, AccountIs
  <2>3. pc = "idle" BY DEF Cd, Serving
  <2>4. Querying = {} /\ Querying' = {} BY <2>1, <2>3 DEF Querying
  <2>5. h \notin Opened /\ h # None BY <2>1, FreeNotOpened
  <2>6. Slot(f) \in SlotType /\ IsPlace(Slot(f)) BY SlotPlace
  <2> DEFINE t == [handle_table EXCEPT ![h] = Slot(f)]
  <2>7. t \in TableType /\ t[h] = Slot(f)
    BY <2>6, PutType DEF TypeOK
  <2>8. {g \in Handle : t[g] # None} = Opened \cup {h}
    BY <2>6, NoneAssumption DEF TypeOK, Opened
  <2>9. handle_table' = CloseIn(t, current_dir) BY <2>1
  <2> HIDE DEF t
  <2>10. Opened' = (Opened \cup {h}) \ {current_dir} BY <2>7, <2>8, <2>9, CloseOpened
  <2>11. h # current_dir BY <2>2, <2>5 DEF Account
  <2>12. handle_table'[h] = Slot(f) BY <2>7, <2>9, <2>11, CloseType
  <2> QED BY <2>1, <2>2, <2>4, <2>5, <2>6, <2>10, <2>11, <2>12 DEF Account
<1> QED BY <1>1, <1>2

LEMMA CloseAccount ==
  ASSUME TypeOK, HandlesAccounted, CloseFile
  PROVE  HandlesAccounted'
<1> SUFFICES ASSUME alive', driver', ~ carried'
             PROVE  Account(current_dir, current_file, Querying, lost)'
  BY AccountIsNext
<1>1. Account(current_dir, current_file, Querying, lost) BY AccountIs DEF CloseFile
<1>2. handle_table \in TableType BY DEF TypeOK, TableType
<1>3. handle_table' = CloseIn(handle_table, current_file) BY DEF CloseFile
<1>4. Opened' = Opened \ {current_file} BY <1>2, <1>3, CloseOpened DEF Opened
<1>5. \A g \in Handle : g # current_file => handle_table'[g] = handle_table[g]
  BY <1>2, <1>3, CloseType
<1>6. Querying = {} /\ Querying' = {} BY DEF Querying, CloseFile, Serving
<1>7. current_dir' = current_dir /\ current_file' = None /\ lost' = lost /\ current_file # None
  BY DEF CloseFile
<1>8. current_dir # None BY <1>1, HandlesAssumption DEF Account
<1>9. None \notin lost BY HandlesAssumption DEF TypeOK
<1> QED BY <1>1, <1>4, <1>5, <1>6, <1>7, <1>8, <1>9 DEF Account

LEMMA EnterAccount ==
  ASSUME Enter
  PROVE  HandlesAccounted'
<1> SUFFICES ASSUME ~ carried' PROVE Account(current_dir, current_file, Querying, lost)'
  BY AccountIsNext
<1>1. handle_table' = [Closed EXCEPT ![1] = Slot(Root)] /\ current_dir' = 1 /\ lost' = {}
      /\ current_file' = None /\ pc' = "idle"
  BY DEF Enter
<1>2. 1 \in Handle /\ 1 # None BY RootSlot, HandlesAssumption
<1>3. Slot(Root) \in SlotType /\ IsPlace(Slot(Root)) BY SlotPlace, TreeAssumption
<1>4. \A g \in Handle : handle_table'[g] = IF g = 1 THEN Slot(Root) ELSE None
  BY <1>1, <1>2 DEF Closed
<1>5. Opened' = {1} BY <1>2, <1>3, <1>4, NoneAssumption DEF Opened
<1>6. Querying' = {} BY <1>1 DEF Querying
<1> QED BY <1>1, <1>2, <1>3, <1>4, <1>5, <1>6 DEF Account

LEMMA CloseQueryAccount ==
  ASSUME TypeOK, HandlesAccounted, CloseQuery
  PROVE  HandlesAccounted'
<1> SUFFICES ASSUME alive', driver', ~ carried'
             PROVE  Account(current_dir, current_file, Querying, lost)'
  BY AccountIsNext
<1>1. Account(current_dir, current_file, Querying, lost) BY AccountIs DEF CloseQuery, session
<1>2. handle_table \in TableType BY DEF TypeOK, TableType
<1>3. handle_table' = CloseIn(handle_table, walk.handle) BY DEF CloseQuery
<1>4. Opened' = Opened \ {walk.handle} BY <1>2, <1>3, CloseOpened DEF Opened
<1>5. \A g \in Handle : g # walk.handle => handle_table'[g] = handle_table[g]
  BY <1>2, <1>3, CloseType
<1>6. Querying = {walk.handle} /\ Querying' = {} BY DEF Querying, CloseQuery
<1>7. current_dir' = current_dir /\ current_file' = current_file /\ lost' = lost
  BY DEF CloseQuery, session
<1> QED BY <1>1, <1>4, <1>5, <1>6, <1>7 DEF Account

LEMMA AccountStep == TypeOK /\ HandlesAccounted /\ [Next]_vars => HandlesAccounted'
<1> SUFFICES ASSUME TypeOK, HandlesAccounted, [Next]_vars PROVE HandlesAccounted' OBVIOUS
<1>1. CASE Enter BY <1>1, EnterAccount
<1>2. CASE Exit BY <1>2 DEF Exit, HandlesAccounted
<1>3. ASSUME NEW p \in Paths, OpenFile(p) PROVE HandlesAccounted' BY <1>3, OpenAccount
<1>4. ASSUME NEW p \in Paths, Cd(p) PROVE HandlesAccounted' BY <1>4, CdAccount
<1>5. CASE CloseFile BY <1>5, CloseAccount
<1>6. CASE AttributeGet \/ GetFirstFull BY <1>6, CrashAccount DEF AttributeGet, GetFirstFull
<1>7. CASE GetFirstEmpty
  <2>1. PICK h \in Handle :
          FirstFree(h) /\ handle_table' = [handle_table EXCEPT ![h] = EmptySlot] /\ lost' = lost \cup {h}
    BY <1>7 DEF GetFirstEmpty
  <2>2. Querying' = {} BY <1>7 DEF GetFirstEmpty, Querying, Serving
  <2> QED BY <1>7, <2>1, <2>2, SlotsTyped, QueryAccount DEF GetFirstEmpty, Serving
<1>8. CASE LsOutOfMemory
  <2>1. Here \in Dir BY <1>8, HereDir DEF LsOutOfMemory
  <2>2. QuerySlot(Entries[Here][1].file) \in SlotType
    BY <1>8, <2>1, FirstEntry, EntryFile, SlotsTyped DEF LsOutOfMemory
  <2>3. PICK h \in Handle :
          FirstFree(h) /\ lost' = lost \cup {h}
          /\ handle_table' = [handle_table EXCEPT ![h] = QuerySlot(Entries[Here][1].file)]
    BY <1>8 DEF LsOutOfMemory
  <2>4. Querying' = {} BY <1>8 DEF LsOutOfMemory, Querying, Serving
  <2> QED BY <1>8, <2>2, <2>3, <2>4, QueryAccount DEF LsOutOfMemory, Serving
<1>9. ASSUME NEW recursive \in BOOLEAN, NEW limit \in Limits, GetFirst(recursive, limit)
      PROVE  HandlesAccounted'
  <2>1. Here \in Dir BY <1>9, HereDir DEF GetFirst
  <2>2. QuerySlot(Entries[Here][1].file) \in SlotType
    BY <1>9, <2>1, FirstEntry, EntryFile, SlotsTyped DEF GetFirst
  <2>3. PICK h \in Handle :
          /\ FirstFree(h)
          /\ handle_table' = [handle_table EXCEPT ![h] = QuerySlot(Entries[Here][1].file)]
          /\ walk' = [handle |-> h, start |-> Here, recursive |-> recursive,
                      limit |-> Clamped(recursive, limit), dir |-> Here, index |-> 1,
                      depth |-> 0, indices |-> <<>>, astray |-> FALSE]
    BY <1>9 DEF GetFirst
  <2>4. Querying' = {h}
    <3>1. walk'.handle = h BY <2>3
    <3> QED BY <1>9, <3>1 DEF GetFirst, Querying
  <2> QED BY <1>9, <2>2, <2>3, <2>4, QueryAccount DEF GetFirst, Serving
<1>10. CASE Show BY <1>10, SameAccount DEF Show
<1>11. CASE GetNext BY <1>11, GetNextAccount
<1>12. CASE CloseQuery BY <1>12, CloseQueryAccount
<1>13. CASE UNCHANGED vars
  <2>1. pc = "idle" <=> pc' = "idle" BY <1>13 DEF vars
  <2>2. alive' = alive /\ UNCHANGED <<session, handle_table, walk, lost>> BY <1>13 DEF vars, session
  <2> QED BY <2>1, <2>2, SameAccount
<1> QED BY <1>1, <1>2, <1>3, <1>4, <1>5, <1>6, <1>7, <1>8, <1>9, <1>10, <1>11, <1>12, <1>13 DEF Next

(* Every command of the shell that can fail gives back the slot it took,   *)
(* but for an ls of an empty directory or without memory; no slot serves   *)
(* two purposes (NTFSOpen, NTFSClose, FSGetFirst, execFsCmd).              *)
THEOREM SlotsAccounted == Spec => []HandlesAccounted
<1>1. Init => TypeOK /\ HandlesAccounted BY InitType DEF Init, HandlesAccounted
<1>2. TypeOK /\ HandlesAccounted /\ [Next]_vars => TypeOK' /\ HandlesAccounted'
  BY TypeStep, AccountStep
<1> QED BY <1>1, <1>2, PTL DEF Spec
-----------------------------------------------------------------------------
(* Induction on a set of numbers, from the least number outside of it.     *)
LEMMA NatSetInduction ==
  ASSUME NEW T, 0 \in T, \A n \in Nat : n \in T => n + 1 \in T
  PROVE  Nat \subseteq T
<1> SUFFICES ASSUME Nat \ T # {} PROVE FALSE OBVIOUS
<1>1. PICK x \in Nat \ T : \A y \in Nat \ T : ~ (<<y, x>> \in OpToRel(<, Nat))
  <2>1. IsWellFoundedOn(OpToRel(<, Nat), Nat) BY NatLessThanWellFounded
  <2> QED BY <2>1, WFMin
<1>2. \A y \in Nat \ T : ~ (y < x) BY <1>1 DEF OpToRel
<1>3. x - 1 \in Nat /\ x - 1 \notin Nat \ T BY <1>2
<1>4. x - 1 + 1 = x /\ x \notin T OBVIOUS
<1> QED BY <1>3, <1>4

(* There is a function that is defined by recursion on its argument.       *)
Unfolds(g, S, c, N, D) ==
  g \in [0 .. N -> S] /\ g[0] = c /\ \A n \in 1 .. N : g[n] = D[<<g[n - 1], n>>]

LEMMA Recursion ==
  ASSUME NEW S, NEW c, c \in S, NEW N, N \in Nat, NEW D, D \in [S \X (1 .. N) -> S]
  PROVE  \E g : Unfolds(g, S, c, N, D)
<1> DEFINE Begins(g, k) == /\ g \in [0 .. k -> S] /\ g[0] = c
                           /\ \A n \in 1 .. k : g[n] = D[<<g[n - 1], n>>]
           T == {k \in Nat : k <= N => \E g : Begins(g, k)}
<1>1. 0 \in T
  <2>1. Begins([n \in 0 .. 0 |-> c], 0) OBVIOUS
  <2> QED BY <2>1
<1>2. ASSUME NEW k \in Nat, k \in T PROVE k + 1 \in T
  <2> SUFFICES ASSUME k + 1 <= N PROVE \E h : Begins(h, k + 1) OBVIOUS
  <2>1. PICK g : Begins(g, k) BY <1>2
  <2> DEFINE h == [n \in 0 .. k + 1 |-> IF n <= k THEN g[n] ELSE D[<<g[k], k + 1>>]]
  <2>2. g[k] \in S /\ k + 1 \in 1 .. N BY <2>1
  <2>3. h \in [0 .. k + 1 -> S] /\ h[0] = c BY <2>1, <2>2
  <2>4. ASSUME NEW n \in 1 .. k + 1 PROVE h[n] = D[<<h[n - 1], n>>]
    <3>1. n - 1 \in 0 .. k /\ h[n - 1] = g[n - 1] OBVIOUS
    <3>2. CASE n \in 1 .. k
      <4>1. h[n] = g[n] BY <3>2
      <4> QED BY <2>1, <3>1, <3>2, <4>1
    <3>3. CASE n = k + 1
      <4>1. h[n] = D[<<g[k], k + 1>>] BY <3>3
      <4>2. n - 1 = k BY <3>3
      <4> QED BY <3>1, <3>3, <4>1, <4>2
    <3> QED BY <3>2, <3>3
  <2> QED BY <2>3, <2>4
<1> HIDE DEF T
<1>3. N \in T BY <1>1, <1>2, NatSetInduction
<1> QED BY <1>3 DEF T, Unfolds

-----------------------------------------------------------------------------
(* What the listing of a directory is made of.                             *)
Out == Seq(Dir \X Nat)

LEMMA EntriesSeq ==
  ASSUME NEW d \in Dir
  PROVE  /\ DOMAIN Entries[d] = 1 .. Len(Entries[d]) /\ Len(Entries[d]) \in Nat
         /\ \A i \in 1 .. Len(Entries[d]) : Entries[d][i].file \in File
<1>1. Entries[d] \in Seq([name : Name, file : File]) BY TreeAssumption
<1>2. DOMAIN Entries[d] = 1 .. Len(Entries[d]) /\ Len(Entries[d]) \in Nat BY <1>1
<1> QED BY <1>2, EntryFile

(* The root is not listed again where it lists itself.                     *)
Unless(f, below) == IF f = Root THEN <<>> ELSE below[f]

LEMMA UnlessType ==
  ASSUME NEW below \in [File -> Out], NEW f \in File PROVE Unless(f, below) \in Out
<1>1. <<>> \in Out BY DEF Out
<1> QED BY <1>1 DEF Unless

LEMMA LastsRecursion ==
  ASSUME NEW d \in Dir, NEW below \in [File -> Out]
  PROVE  /\ Lasts(d, below) \in [0 .. Len(Entries[d]) -> Out]
         /\ Lasts(d, below)[0] = <<>>
         /\ \A j \in 1 .. Len(Entries[d]) :
              Lasts(d, below)[j] =
                <<<<d, Len(Entries[d]) - j + 1>>>>
                \o (Unless(Entries[d][Len(Entries[d]) - j + 1].file, below) \o Lasts(d, below)[j - 1])
<1> DEFINE N == Len(Entries[d])
           Head1(j) == <<<<d, N - j + 1>>>>
           Under(j) == Unless(Entries[d][N - j + 1].file, below)
           D == [x \in Out \X (1 .. N) |-> Head1(x[2]) \o (Under(x[2]) \o x[1])]
           Sound(g) == g = [j \in 0 .. N |-> IF j = 0 THEN <<>> ELSE Head1(j) \o (Under(j) \o g[j - 1])]
<1>1. N \in Nat BY EntriesSeq
<1>2. ASSUME NEW j \in 1 .. N PROVE Head1(j) \in Out /\ Under(j) \in Out
  <2>1. N - j + 1 \in 1 .. N BY <1>1
  <2>2. <<d, N - j + 1>> \in Dir \X Nat BY <2>1, <1>1
  <2>3. Entries[d][N - j + 1].file \in File BY <2>1, EntriesSeq
  <2>4. Under(j) \in Out BY <2>3, UnlessType
  <2> HIDE DEF N
  <2> QED BY <2>2, <2>4 DEF Out
<1>3. <<>> \in Out BY DEF Out
<1>4. ASSUME NEW x \in Out, NEW y \in Out PROVE x \o y \in Out BY DEF Out
<1>5. Lasts(d, below) = CHOOSE g : Sound(g) BY DEF Lasts, Unless
<1> HIDE DEF N, Head1, Under
<1>6. D \in [Out \X (1 .. N) -> Out]
  <2> SUFFICES ASSUME NEW x \in Out \X (1 .. N) PROVE Head1(x[2]) \o (Under(x[2]) \o x[1]) \in Out
    OBVIOUS
  <2>1. x[1] \in Out /\ x[2] \in 1 .. N OBVIOUS
  <2> QED BY <2>1, <1>2, <1>4
<1>7. \A x \in Out, j \in 1 .. N : D[<<x, j>>] = Head1(j) \o (Under(j) \o x) OBVIOUS
<1> HIDE DEF D
<1>8. PICK g : Unfolds(g, Out, <<>>, N, D) BY <1>1, <1>3, <1>6, Recursion
<1>9. g \in [0 .. N -> Out] /\ g[0] = <<>> /\ \A j \in 1 .. N : g[j] = D[<<g[j - 1], j>>]
  BY <1>8 DEF Unfolds
<1>10. \A j \in 1 .. N : g[j] = Head1(j) \o (Under(j) \o g[j - 1])
  <2> TAKE j \in 1 .. N
  <2>1. j - 1 \in 0 .. N BY <1>1
  <2>2. g[j - 1] \in Out BY <1>9, <2>1
  <2> QED BY <1>7, <1>9, <2>2
<1>11. Sound(g) BY <1>1, <1>9, <1>10
<1> DEFINE L == Lasts(d, below)
<1>12. Sound(L) BY <1>5, <1>11
<1> HIDE DEF L
<1>13. L[0] = <<>> BY <1>1, <1>12
<1>14. \A j \in 1 .. N : L[j] = Head1(j) \o (Under(j) \o L[j - 1])
  <2> TAKE j \in 1 .. N
  <2>1. j \in 0 .. N /\ j # 0 BY <1>1
  <2>2. L[j] = IF j = 0 THEN <<>> ELSE Head1(j) \o (Under(j) \o L[j - 1]) BY <1>12, <2>1, Zenon
  <2> QED BY <2>1, <2>2
<1>15. \A j \in 0 .. N : L[j] \in Out
  <2> DEFINE T == {j \in Nat : j <= N => L[j] \in Out}
  <2>1. 0 \in T BY <1>3, <1>13
  <2>2. ASSUME NEW m \in 1 .. N, L[m - 1] \in Out PROVE L[m] \in Out
    <3>1. L[m] = Head1(m) \o (Under(m) \o L[m - 1]) BY <1>14
    <3> QED BY <2>2, <3>1, <1>2, <1>4
  <2>3. ASSUME NEW j \in Nat, j \in T PROVE j + 1 \in T
    <3> SUFFICES ASSUME j + 1 <= N PROVE L[j + 1] \in Out OBVIOUS
    <3>1. j + 1 \in 1 .. N /\ j + 1 - 1 = j BY <1>1
    <3>2. L[j] \in Out BY <1>1, <2>3
    <3> QED BY <2>2, <3>1, <3>2
  <2> HIDE DEF T
  <2>4. Nat \subseteq T BY <2>1, <2>3, NatSetInduction
  <2> QED BY <1>1, <2>4 DEF T
<1>16. L \in [0 .. N -> Out] BY <1>12, <1>15
<1> QED BY <1>13, <1>14, <1>16 DEF N, Head1, Under, L

LEMMA ListedType ==
  ASSUME NEW below \in [File -> Out] PROVE Listed(below) \in [File -> Out]
<1> SUFFICES ASSUME NEW e \in File
             PROVE  (IF e \in Dir THEN Lasts(e, below)[Len(Entries[e])] ELSE <<>>) \in Out
  BY DEF Listed
<1>1. <<>> \in Out BY DEF Out
<1>2. ASSUME e \in Dir PROVE Lasts(e, below)[Len(Entries[e])] \in Out
  <2>1. Len(Entries[e]) \in 0 .. Len(Entries[e]) BY <1>2, EntriesSeq
  <2> QED BY <1>2, <2>1, LastsRecursion
<1> QED BY <1>1, <1>2

(* What is listed below an entry with n levels still to go.                *)
Sub(n) == IF n = 0 THEN Nothing ELSE Listing[n - 1]

LEMMA ListingRecursion ==
  /\ \A n \in 0 .. MaxRecursion : Sub(n) \in [File -> Out] /\ Listing[n] = Listed(Sub(n))
  /\ Listing \in [0 .. MaxRecursion -> [File -> Out]]
<1> DEFINE N == MaxRecursion
           F == [File -> Out]
           D == [x \in F \X (1 .. N) |-> Listed(x[1])]
           Sound(g) == g = [n \in 0 .. N |-> Listed(IF n = 0 THEN Nothing ELSE g[n - 1])]
<1>1. N \in Nat BY LimitsAssumption
<1>2. Nothing \in F
  <2>1. <<>> \in Out BY DEF Out
  <2> QED BY <2>1 DEF Nothing
<1>3. \A x \in F : Listed(x) \in F BY ListedType
<1>4. Listing = CHOOSE g : Sound(g) BY DEF Listing
<1> HIDE DEF N, F
<1>5. D \in [F \X (1 .. N) -> F] BY <1>3
<1>6. \A x \in F, n \in 1 .. N : D[<<x, n>>] = Listed(x) OBVIOUS
<1> HIDE DEF D
<1>7. PICK g : Unfolds(g, F, Listed(Nothing), N, D)
  <2>1. Listed(Nothing) \in F BY <1>2, <1>3
  <2> DEFINE c == Listed(Nothing)
  <2>2. c \in F BY <2>1
  <2> HIDE DEF c
  <2>3. \E g : Unfolds(g, F, c, N, D) BY <1>1, <1>5, <2>2, Recursion
  <2> QED BY <2>3 DEF c
<1>8. g \in [0 .. N -> F] /\ g[0] = Listed(Nothing) /\ \A n \in 1 .. N : g[n] = D[<<g[n - 1], n>>]
  BY <1>7 DEF Unfolds
<1>9. \A n \in 1 .. N : g[n] = Listed(g[n - 1])
  <2> TAKE n \in 1 .. N
  <2>1. n - 1 \in 0 .. N BY <1>1
  <2>2. g[n - 1] \in F BY <1>8, <2>1
  <2> QED BY <1>6, <1>8, <2>2
<1>10. Sound(g)
  <2> SUFFICES ASSUME NEW n \in 0 .. N
               PROVE  g[n] = Listed(IF n = 0 THEN Nothing ELSE g[n - 1])
    BY <1>8
  <2>1. CASE n = 0 BY <1>8, <2>1
  <2>2. CASE n # 0
    <3>1. n \in 1 .. N BY <1>1, <2>2
    <3>2. (IF n = 0 THEN Nothing ELSE g[n - 1]) = g[n - 1] BY <2>2
    <3>3. g[n] = Listed(g[n - 1]) BY <1>9, <3>1
    <3> QED BY <3>2, <3>3
  <2> QED BY <2>1, <2>2
<1>11. Sound(Listing) BY <1>4, <1>10
<1>12. \A n \in 0 .. N : Listing[n] = Listed(Sub(n)) BY <1>11 DEF Sub
<1>13. \A n \in 0 .. N : Listing[n] \in F
  <2> DEFINE T == {n \in Nat : n <= N => Listing[n] \in F}
  <2>1. 0 \in T
    <3>1. Listing[0] = Listed(Nothing) BY <1>1, <1>12 DEF Sub
    <3> QED BY <1>2, <1>3, <3>1
  <2>2. ASSUME NEW n \in Nat, n \in T PROVE n + 1 \in T
    <3> SUFFICES ASSUME n + 1 <= N PROVE Listing[n + 1] \in F OBVIOUS
    <3>1. n + 1 \in 0 .. N /\ n + 1 # 0 /\ n + 1 - 1 = n BY <1>1
    <3>2. Listing[n] \in F BY <1>1, <2>2
    <3>3. Listing[n + 1] = Listed(Listing[n]) BY <1>12, <3>1 DEF Sub
    <3> QED BY <3>2, <3>3, <1>3
  <2> HIDE DEF T
  <2>3. Nat \subseteq T BY <2>1, <2>2, NatSetInduction
  <2> QED BY <1>1, <2>3 DEF T
<1>14. \A n \in 0 .. N : Sub(n) \in F
  <2> SUFFICES ASSUME NEW n \in 0 .. N PROVE Sub(n) \in F OBVIOUS
  <2>1. CASE n = 0 BY <1>2, <2>1 DEF Sub
  <2>2. CASE n # 0
    <3>1. n - 1 \in 0 .. N BY <1>1, <2>2
    <3> QED BY <1>13, <2>2, <3>1 DEF Sub
  <2> QED BY <2>1, <2>2
<1>15. Listing \in [0 .. N -> F] BY <1>11, <1>13
<1> QED BY <1>12, <1>14, <1>15 DEF N, F
-----------------------------------------------------------------------------
(* Levels still to go below the directory that is j levels down.           *)
Left(w, j) == w.limit - 1 - j

(* What is to be listed below an entry; after entry i of directory d, j    *)
(* levels down; after the entries that led down to the directory at each   *)
(* level; and after the entry of the query.                                *)
Under(n, f) == Unless(f, Sub(n))

After(w, d, i, j) == Lasts(d, Sub(Left(w, j)))[Len(Entries[d]) - i]

Stack(w, s) ==
  /\ s \in [0 .. w.depth -> Dir] /\ s[0] = w.start /\ s[w.depth] = w.dir
  /\ \A j \in 1 .. w.depth :
       /\ w.indices[j] \in DOMAIN Entries[s[j - 1]]
       /\ Entries[s[j - 1]][w.indices[j]].file = s[j] /\ s[j] # Root

Pending(w, s, t) ==
  /\ t \in [0 .. w.depth -> Out] /\ t[0] = <<>>
  /\ \A j \in 1 .. w.depth : t[j] = After(w, s[j - 1], w.indices[j], j - 1) \o t[j - 1]

Below(w) == Under(Left(w, w.depth), Entries[w.dir][w.index].file)

Rest(w, t) == Below(w) \o (After(w, w.dir, w.index, w.depth) \o t[w.depth])

Goal(w) == Listing[w.limit - 1][w.start]

LEMMA LeftRange ==
  ASSUME NEW w \in WalkType, NEW j \in 0 .. w.limit - 1
  PROVE  Left(w, j) \in 0 .. MaxRecursion
<1>1. w.limit \in 1 .. MaxRecursion BY DEF WalkType
<1> QED BY <1>1, LimitsAssumption DEF Left

LEMMA AfterIs ==
  ASSUME NEW w \in WalkType, NEW d \in Dir, NEW j \in 0 .. w.limit - 1,
         NEW i \in 0 .. Len(Entries[d])
  PROVE  /\ After(w, d, i, j) \in Out
         /\ i = Len(Entries[d]) => After(w, d, i, j) = <<>>
         /\ i # Len(Entries[d]) =>
              After(w, d, i, j) =
                <<<<d, i + 1>>>>
                \o (Under(Left(w, j), Entries[d][i + 1].file) \o After(w, d, i + 1, j))
<1> DEFINE b == Sub(Left(w, j))
           N == Len(Entries[d])
           L == Lasts(d, b)
<1>1. b \in [File -> Out] BY LeftRange, ListingRecursion
<1>2. N \in Nat BY EntriesSeq
<1> HIDE DEF b
<1>3. /\ L \in [0 .. N -> Out] /\ L[0] = <<>>
      /\ \A m \in 1 .. N :
           L[m] = <<<<d, N - m + 1>>>> \o (Unless(Entries[d][N - m + 1].file, b) \o L[m - 1])
  BY <1>1, LastsRecursion
<1>4. \A m \in 0 .. N : After(w, d, m, j) = L[N - m] BY DEF After, b
<1> HIDE DEF L, N
<1>5. i \in 0 .. N BY DEF N
<1>6. N - i \in 0 .. N BY <1>2, <1>5
<1>7. After(w, d, i, j) \in Out BY <1>3, <1>4, <1>5, <1>6
<1>8. ASSUME i = N PROVE After(w, d, i, j) = <<>>
  <2>1. N - i = 0 BY <1>2, <1>8
  <2> QED BY <1>3, <1>4, <1>5, <2>1
<1>9. ASSUME i # N
      PROVE  After(w, d, i, j) =
               <<<<d, i + 1>>>> \o (Unless(Entries[d][i + 1].file, b) \o After(w, d, i + 1, j))
  <2> DEFINE m == N - i
  <2>1. m \in 1 .. N /\ N - m + 1 = i + 1 /\ m - 1 = N - (i + 1) /\ i + 1 \in 0 .. N
    BY <1>2, <1>5, <1>9
  <2>2. After(w, d, i, j) = L[m] /\ After(w, d, i + 1, j) = L[m - 1] BY <1>4, <1>5, <2>1
  <2> HIDE DEF m
  <2>3. L[m] = <<<<d, N - m + 1>>>> \o (Unless(Entries[d][N - m + 1].file, b) \o L[m - 1])
    BY <1>3, <2>1
  <2> QED BY <2>1, <2>2, <2>3
<1> QED BY <1>7, <1>8, <1>9 DEF N, b, Under

LEMMA GoalIs == ASSUME NEW w \in WalkType PROVE Goal(w) \in Out /\ Goal(w) = After(w, w.start, 0, 0)
<1>1. w.start \in Dir /\ w.limit \in 1 .. MaxRecursion BY DEF WalkType
<1>2. 0 \in 0 .. w.limit - 1 /\ Left(w, 0) = w.limit - 1
  BY <1>1, LimitsAssumption DEF Left
<1>3. Left(w, 0) \in 0 .. MaxRecursion BY <1>2, LeftRange
<1>4. Goal(w) = Listed(Sub(Left(w, 0)))[w.start] BY <1>2, <1>3, ListingRecursion DEF Goal
<1>5. w.start \in File BY <1>1, TreeAssumption
<1>6. Goal(w) = Lasts(w.start, Sub(Left(w, 0)))[Len(Entries[w.start])]
  BY <1>1, <1>4, <1>5 DEF Listed
<1>7. Len(Entries[w.start]) \in Nat BY <1>1, EntriesSeq
<1>8. Len(Entries[w.start]) - 0 = Len(Entries[w.start]) BY <1>7
<1>9. Goal(w) = After(w, w.start, 0, 0) BY <1>6, <1>8 DEF After
<1>10. 0 \in 0 .. Len(Entries[w.start]) BY <1>7
<1> QED BY <1>1, <1>2, <1>9, <1>10, AfterIs

(* What is listed below an entry: nothing, unless it is a directory other  *)
(* than the root that is not as deep as the limit.                         *)
LEMMA UnderIs ==
  ASSUME NEW w \in WalkType, NEW j \in 0 .. w.limit - 1, NEW f \in File
  PROVE  /\ Under(Left(w, j), f) \in Out
         /\ f \notin Dir \/ f = Root \/ Left(w, j) = 0 => Under(Left(w, j), f) = <<>>
         /\ f \in Dir /\ f # Root /\ Left(w, j) # 0 =>
              j + 1 \in 0 .. w.limit - 1 /\ Under(Left(w, j), f) = After(w, f, 0, j + 1)
<1> DEFINE n == Left(w, j)
<1>1. n \in 0 .. MaxRecursion BY LeftRange
<1>2. Under(n, f) \in Out BY <1>1, ListingRecursion, UnlessType DEF Under
<1>3. ASSUME n = 0 \/ f = Root PROVE Under(n, f) = <<>>
  BY <1>3 DEF Under, Unless, Sub, Nothing
<1>4. ASSUME n # 0, f # Root
      PROVE  Under(n, f) = IF f \in Dir THEN Lasts(f, Sub(n - 1))[Len(Entries[f])] ELSE <<>>
  <2>1. n - 1 \in 0 .. MaxRecursion BY <1>1, <1>4, LimitsAssumption
  <2>2. Sub(n) = Listed(Sub(n - 1)) BY <1>4, <2>1, ListingRecursion DEF Sub
  <2>3. Under(n, f) = Sub(n)[f] BY <1>4 DEF Under, Unless
  <2> QED BY <2>2, <2>3 DEF Listed
<1>5. ASSUME n # 0, f # Root, f \in Dir
      PROVE  j + 1 \in 0 .. w.limit - 1 /\ Under(n, f) = After(w, f, 0, j + 1)
  <2>1. n = w.limit - 1 - j /\ w.limit \in Nat BY LimitsAssumption DEF Left, WalkType
  <2>2. j + 1 \in 0 .. w.limit - 1 /\ n - 1 = w.limit - 1 - (j + 1) BY <1>5, <2>1
  <2>3. n - 1 = Left(w, j + 1) BY <2>2 DEF Left
  <2>4. Len(Entries[f]) - 0 = Len(Entries[f]) BY <1>5, EntriesSeq
  <2> QED BY <1>4, <1>5, <2>2, <2>3, <2>4 DEF After
<1> QED BY <1>2, <1>3, <1>4, <1>5

LEMMA SameAfter ==
  ASSUME NEW p, NEW q, q.limit = p.limit
  PROVE  /\ \A j : Left(q, j) = Left(p, j)
         /\ \A d, i, j : After(q, d, i, j) = After(p, d, i, j)
BY DEF Left, After

LEMMA ConcatType ==
  ASSUME NEW a \in Out, NEW b \in Out
  PROVE  a \o b \in Out /\ <<>> \o a = a /\ a \o <<>> = a
BY DEF Out

LEMMA ConcatAssoc ==
  ASSUME NEW a \in Out, NEW b \in Out, NEW c \in Out
  PROVE  (a \o b) \o c = a \o (b \o c)
BY DEF Out

LEMMA AppendConcat ==
  ASSUME NEW v \in Out, NEW x \in Dir \X Nat, NEW a \in Out
  PROVE  /\ <<x>> \in Out /\ Append(v, x) \in Out
         /\ Append(v, x) \o a = v \o (<<x>> \o a)
<1> DEFINE P == Dir \X Nat
<1>1. v \in Seq(P) /\ x \in P /\ a \in Seq(P) BY DEF Out
<1> HIDE DEF P
<1>2. <<x>> \in Seq(P) /\ Append(v, x) \in Seq(P) BY <1>1
<1>3. Append(v, x) \o a = v \o (<<x>> \o a) BY <1>1
<1> QED BY <1>2, <1>3 DEF P, Out

LEMMA PrefixOfConcat ==
  ASSUME NEW v \in Out, NEW r \in Out
  PROVE  IsPrefix(v, v \o r)
<1>1. Len(v) <= Len(v \o r) BY DEF Out
<1>2. SubSeq(v, 1, Len(v)) = SubSeq(v \o r, 1, Len(v)) BY DEF Out
<1> QED BY <1>1, <1>2 DEF IsPrefix
-----------------------------------------------------------------------------
LEMMA CurrentIs ==
  ASSUME WalkOK
  PROVE  /\ Current = Entries[walk.dir][walk.index].file /\ Current \in File
         /\ handle_table[walk.handle].dir = (Current \in Dir)
<1>1. walk.dir \in Dir /\ walk.index \in DOMAIN Entries[walk.dir] BY DEF WalkOK, WalkType
<1>2. handle_table[walk.handle] = QuerySlot(Entries[walk.dir][walk.index].file) BY DEF WalkOK
<1>3. Entries[walk.dir][walk.index].file \in File BY <1>1, EntryFile
<1>4. Current = Entries[walk.dir][walk.index].file BY <1>2 DEF Current, QuerySlot
<1>5. ASSUME NEW f \in File PROVE QuerySlot(f).dir = (f \in Dir) BY Zenon DEF QuerySlot
<1> DEFINE e == Entries[walk.dir][walk.index].file
<1>6. e \in File /\ handle_table[walk.handle] = QuerySlot(e) BY <1>2, <1>3
<1> HIDE DEF e
<1>7. handle_table[walk.handle].dir = (e \in Dir) BY <1>5, <1>6, Zenon
<1>8. Current = e BY <1>4 DEF e
<1> QED BY <1>3, <1>4, <1>7, <1>8, Zenon

LEMMA AboveIsDir == ASSUME NEW f \in File PROVE Above(f) \in Dir
BY TreeAssumption DEF Above

LEMMA UpRecursion ==
  ASSUME Current \in File
  PROVE  Up[0] = Above(Current) /\ \A k \in 1 .. MaxRecursion : Up[k] = Above(Up[k - 1])
<1> DEFINE N == MaxRecursion
           D == [x \in Dir \X (1 .. N) |-> Above(x[1])]
           c == Above(Current)
           Sound(g) == g = [k \in 0 .. N |-> IF k = 0 THEN c ELSE Above(g[k - 1])]
<1>1. N \in Nat /\ c \in Dir BY LimitsAssumption, AboveIsDir
<1>2. \A d \in Dir : Above(d) \in Dir BY AboveIsDir, TreeAssumption
<1>3. Up = CHOOSE g : Sound(g) BY DEF Up
<1> HIDE DEF N, c
<1>4. D \in [Dir \X (1 .. N) -> Dir] BY <1>2
<1>5. \A x \in Dir, k \in 1 .. N : D[<<x, k>>] = Above(x) OBVIOUS
<1> HIDE DEF D
<1>6. PICK g : Unfolds(g, Dir, c, N, D) BY <1>1, <1>4, Recursion
<1>7. g \in [0 .. N -> Dir] /\ g[0] = c /\ \A k \in 1 .. N : g[k] = D[<<g[k - 1], k>>]
  BY <1>6 DEF Unfolds
<1>8. \A k \in 1 .. N : g[k] = Above(g[k - 1])
  <2> TAKE k \in 1 .. N
  <2>1. k - 1 \in 0 .. N BY <1>1
  <2>2. g[k - 1] \in Dir BY <1>7, <2>1
  <2> QED BY <1>5, <1>7, <2>2
<1>9. Sound(g)
  <2> SUFFICES ASSUME NEW k \in 0 .. N PROVE g[k] = IF k = 0 THEN c ELSE Above(g[k - 1])
    BY <1>7
  <2>1. CASE k = 0 BY <1>7, <2>1
  <2>2. CASE k # 0
    <3>1. k \in 1 .. N BY <1>1, <2>2
    <3> QED BY <1>8, <2>2, <3>1
  <2> QED BY <2>1, <2>2
<1>10. Sound(Up) BY <1>3, <1>9
<1>11. Up[0] = c BY <1>1, <1>10
<1>12. \A k \in 1 .. N : Up[k] = Above(Up[k - 1])
  <2> TAKE k \in 1 .. N
  <2>1. k \in 0 .. N /\ k # 0 BY <1>1
  <2>2. Up[k] = IF k = 0 THEN c ELSE Above(Up[k - 1]) BY <1>10, <2>1, Zenon
  <2> QED BY <2>1, <2>2
<1> QED BY <1>11, <1>12 DEF N, c

LEMMA WalkFacts ==
  ASSUME WalkOK
  PROVE  /\ walk \in WalkType /\ walk.dir \in Dir /\ walk.start \in Dir
         /\ walk.limit \in Nat /\ walk.depth \in 0 .. walk.limit - 1
         /\ walk.depth < MaxRecursion /\ walk.index \in 1 .. Len(Entries[walk.dir])
         /\ Len(walk.indices) = walk.depth /\ walk.indices \in Seq(Nat \ {0})
         /\ walk.astray \in BOOLEAN
<1>1. /\ walk \in WalkType /\ walk.index \in DOMAIN Entries[walk.dir]
      /\ Len(walk.indices) = walk.depth /\ walk.depth < walk.limit
  BY DEF WalkOK
<1>2. /\ walk.dir \in Dir /\ walk.start \in Dir /\ walk.limit \in 1 .. MaxRecursion
      /\ walk.depth \in Nat /\ walk.indices \in Seq(Nat \ {0}) /\ walk.astray \in BOOLEAN
  BY <1>1 DEF WalkType
<1>3. walk.index \in 1 .. Len(Entries[walk.dir]) BY <1>1, <1>2, EntriesSeq
<1> QED BY <1>1, <1>2, <1>3, LimitsAssumption

(* If its last entry leads back to the directory that the walk is in, the  *)
(* walk finds its way up to the directories that it came through.          *)
LEMMA UpIsStack ==
  ASSUME WalkOK, AtHome, NEW s, Stack(walk, s), NEW k \in 1 .. walk.depth
  PROVE  Up[k] = s[walk.depth - k]
<1> DEFINE n == walk.depth
           T == {j \in Nat : j + 1 <= n => Up[j + 1] = s[n - (j + 1)]}
<1>1. n \in Nat /\ n < MaxRecursion /\ MaxRecursion \in Nat BY WalkFacts, LimitsAssumption
<1>2. /\ s \in [0 .. n -> Dir] /\ s[n] = walk.dir
      /\ \A j \in 1 .. n :
           /\ walk.indices[j] \in DOMAIN Entries[s[j - 1]]
           /\ Entries[s[j - 1]][walk.indices[j]].file = s[j] /\ s[j] # Root
  BY DEF Stack
<1>3. Up[0] = Above(Current) /\ \A j \in 1 .. MaxRecursion : Up[j] = Above(Up[j - 1])
  BY CurrentIs, UpRecursion
<1>4. Above(Above(Current)) = Above(walk.dir) BY DEF AtHome, WayBack
<1> HIDE DEF n
<1>5. \A j \in 1 .. n : Above(s[j]) = s[j - 1]
  <2> TAKE j \in 1 .. n
  <2>1. s[j - 1] \in Dir /\ s[j] \in Dir BY <1>1, <1>2
  <2> DEFINE i == walk.indices[j]
  <2>2. i \in DOMAIN Entries[s[j - 1]] /\ Entries[s[j - 1]][i].file = s[j] /\ s[j] # Root
    BY <1>2
  <2> HIDE DEF i
  <2> QED BY <2>1, <2>2, NamesAssumption
<1>6. 0 \in T
  <2> SUFFICES ASSUME 0 + 1 <= n PROVE Up[0 + 1] = s[n - (0 + 1)] OBVIOUS
  <2>1. n \in 1 .. n /\ 1 \in 1 .. MaxRecursion /\ 1 - 1 = 0 BY <1>1
  <2>2. Up[1] = Above(Up[0]) BY <1>3, <2>1
  <2>3. Above(s[n]) = s[n - 1] BY <1>5, <2>1
  <2> QED BY <1>2, <1>3, <1>4, <2>2, <2>3
<1>7. ASSUME NEW j \in Nat, j \in T PROVE j + 1 \in T
  <2> SUFFICES ASSUME j + 1 + 1 <= n PROVE Up[j + 1 + 1] = s[n - (j + 1 + 1)] OBVIOUS
  <2> DEFINE m == j + 1
  <2>1. m + 1 \in 1 .. MaxRecursion /\ m + 1 - 1 = m BY <1>1
  <2>2. Up[m] = s[n - m] BY <1>1, <1>7
  <2>3. n - m \in 1 .. n /\ n - m - 1 = n - (m + 1) BY <1>1
  <2> DEFINE x == m + 1
  <2>4. x \in 1 .. MaxRecursion /\ x - 1 = m /\ m + 1 = x BY <2>1
  <2> HIDE DEF m, x
  <2>5. Up[x] = Above(Up[x - 1]) BY <1>3, <2>4
  <2>6. Up[m + 1] = Above(Up[m]) BY <2>4, <2>5
  <2>7. Above(s[n - m]) = s[n - m - 1] BY <1>5, <2>3
  <2>8. Up[m + 1] = s[n - (m + 1)] BY <2>2, <2>3, <2>6, <2>7
  <2> QED BY <2>8 DEF m
<1> HIDE DEF T
<1>8. Nat \subseteq T BY <1>6, <1>7, NatSetInduction
<1>9. k - 1 \in T /\ k - 1 + 1 = k /\ k <= n BY <1>1, <1>8 DEF n
<1> QED BY <1>9 DEF T, n

(* The index that the walk has k levels up is that of an entry there; if   *)
(* it is the last one, nothing comes after it.                             *)
LEMMA LevelIs ==
  ASSUME WalkOK, AtHome, NEW s, Stack(walk, s), NEW k \in 1 .. walk.depth
  PROVE  /\ Up[k] \in Dir /\ Up[k] = s[walk.depth - k]
         /\ IndexAt(k) \in 1 .. Len(Entries[Up[k]])
         /\ EndOf(Up[k], IndexAt(k)) => After(walk, Up[k], IndexAt(k), walk.depth - k) = <<>>
<1> DEFINE n == walk.depth
           d == s[n - k]
           i == IndexAt(k)
<1>1. walk \in WalkType /\ n \in 0 .. walk.limit - 1 /\ walk.limit \in Nat BY WalkFacts
<1>2. Up[k] = d BY UpIsStack
<1>3. n - k \in 0 .. n /\ n - k \in 0 .. walk.limit - 1 BY <1>1
<1>4. s \in [0 .. n -> Dir] /\ \A j \in 1 .. n : walk.indices[j] \in DOMAIN Entries[s[j - 1]]
  BY DEF Stack
<1>5. d \in Dir BY <1>3, <1>4
<1>6. i \in DOMAIN Entries[d]
  <2> DEFINE j == n - k + 1
  <2>1. j \in 1 .. n /\ j - 1 = n - k BY <1>1
  <2>2. i = walk.indices[j] BY DEF IndexAt
  <2> HIDE DEF j
  <2>3. walk.indices[j] \in DOMAIN Entries[s[j - 1]] BY <1>4, <2>1
  <2> QED BY <2>1, <2>2, <2>3
<1>7. DOMAIN Entries[d] = 1 .. Len(Entries[d]) /\ Len(Entries[d]) \in Nat BY <1>5, EntriesSeq
<1> HIDE DEF d, i, n
<1>8. i \in 0 .. Len(Entries[d]) BY <1>6, <1>7
<1>9. ASSUME EndOf(d, i) PROVE After(walk, d, i, n - k) = <<>>
  <2>1. i = Len(Entries[d]) BY <1>6, <1>7, <1>9 DEF EndOf
  <2> QED BY <1>1, <1>3, <1>5, <1>8, <2>1, AfterIs
<1> QED BY <1>2, <1>5, <1>6, <1>7, <1>9 DEF d, i, n

(* If k levels have no more entries, what is pending is that of the levels *)
(* above them.                                                             *)
LEMMA EndedIs ==
  ASSUME WalkOK, NEW s, Stack(walk, s), NEW t, Pending(walk, s, t),
         NEW k \in 0 .. walk.depth, EndOf(walk.dir, walk.index),
         k # 0 => AtHome /\ \A j \in 1 .. k : EndOf(Up[j], IndexAt(j))
  PROVE  /\ After(walk, walk.dir, walk.index, walk.depth) = <<>>
         /\ t[walk.depth] = t[walk.depth - k]
<1> DEFINE n == walk.depth
           T == {j \in Nat : j <= k => t[n] = t[n - j]}
<1>1. /\ n \in Nat /\ walk.dir \in Dir /\ walk \in WalkType /\ n \in 0 .. walk.limit - 1
      /\ walk.index \in 1 .. Len(Entries[walk.dir])
  BY WalkFacts
<1>2. After(walk, walk.dir, walk.index, n) = <<>>
  <2>1. Len(Entries[walk.dir]) \in Nat BY <1>1, EntriesSeq
  <2>2. walk.index = Len(Entries[walk.dir]) /\ walk.index \in 0 .. Len(Entries[walk.dir])
    BY <1>1, <2>1 DEF EndOf
  <2> HIDE DEF n
  <2> QED BY <1>1, <2>2, AfterIs
<1>3. /\ t \in [0 .. n -> Out]
      /\ \A j \in 1 .. n : t[j] = After(walk, s[j - 1], walk.indices[j], j - 1) \o t[j - 1]
  BY DEF Pending
<1>4. ASSUME NEW j \in 1 .. k PROVE t[n - j + 1] = t[n - j]
  <2>1. j \in 1 .. n /\ n - j + 1 \in 1 .. n /\ n - j \in 0 .. n /\ n - j + 1 - 1 = n - j /\ k # 0
    BY <1>1
  <2>2. Up[j] = s[n - j] /\ IndexAt(j) = walk.indices[n - j + 1]
    BY <2>1, UpIsStack DEF IndexAt
  <2>3. After(walk, s[n - j], walk.indices[n - j + 1], n - j) = <<>>
    BY <2>1, <2>2, LevelIs
  <2> DEFINE m == n - j + 1
  <2>4. m \in 1 .. n /\ m - 1 = n - j BY <2>1
  <2>5. After(walk, s[m - 1], walk.indices[m], m - 1) = <<>> BY <2>3, <2>4
  <2> HIDE DEF m
  <2>6. t[m] = After(walk, s[m - 1], walk.indices[m], m - 1) \o t[m - 1] BY <1>3, <2>4
  <2>7. t[m - 1] \in Out BY <1>3, <2>1, <2>4
  <2>8. t[m] = <<>> \o t[m - 1] BY <2>5, <2>6
  <2>9. <<>> \o t[m - 1] = t[m - 1] BY <2>7, ConcatType
  <2> QED BY <2>4, <2>8, <2>9 DEF m
<1>5. 0 \in T BY <1>1
<1>6. ASSUME NEW j \in Nat, j \in T PROVE j + 1 \in T
  <2> SUFFICES ASSUME j + 1 <= k PROVE t[n] = t[n - (j + 1)] OBVIOUS
  <2>1. j + 1 \in 1 .. k /\ n - (j + 1) + 1 = n - j BY <1>1
  <2>2. t[n - (j + 1) + 1] = t[n - (j + 1)] BY <1>4, <2>1
  <2>3. t[n] = t[n - j] BY <1>6, <2>1
  <2> QED BY <2>1, <2>2, <2>3
<1> HIDE DEF T
<1>7. Nat \subseteq T BY <1>5, <1>6, NatSetInduction
<1>8. t[n] = t[n - k] BY <1>1, <1>7 DEF T
<1> QED BY <1>2, <1>8

(* The walk does not go down only if there is nothing below its entry.     *)
LEMMA NothingBelow ==
  ASSUME WalkOK, ~ walk.recursive => walk.limit = 1, ~ Descends
  PROVE  Below(walk) = <<>>
<1> DEFINE f == Current
           n == walk.depth
<1>1. walk \in WalkType /\ walk.limit \in Nat /\ n \in 0 .. walk.limit - 1 BY WalkFacts
<1>2. f \in File /\ Below(walk) = Under(Left(walk, n), f) BY CurrentIs DEF Below
<1>3. CASE f \notin Dir \/ f = Root \/ Left(walk, n) = 0 BY <1>1, <1>2, <1>3, UnderIs
<1>4. CASE f \in Dir /\ f # Root /\ Left(walk, n) # 0
  <2>1. n < walk.limit - 1 BY <1>1, <1>4 DEF Left
  <2>2. walk.recursive BY <1>1, <2>1
  <2>3. MayDescend BY <1>4, <2>1, <2>2, CurrentIs DEF MayDescend
  <2>4. Entries[f] = <<>> BY <2>3 DEF Descends
  <2>5. Len(Entries[f]) = 0 BY <2>4
  <2>6. 0 \in 0 .. Len(Entries[f]) BY <2>5
  <2> HIDE DEF f, n
  <2>7. n + 1 \in 0 .. walk.limit - 1 /\ Under(Left(walk, n), f) = After(walk, f, 0, n + 1)
    BY <1>1, <1>2, <1>4, UnderIs
  <2>8. After(walk, f, 0, n + 1) = <<>> BY <1>1, <1>4, <2>5, <2>6, <2>7, AfterIs
  <2> QED BY <1>2, <2>7, <2>8
<1> QED BY <1>3, <1>4
-----------------------------------------------------------------------------
(* A walk that is at an entry, and within its limit.                       *)
Sane(q) ==
  /\ q \in WalkType /\ q.index \in DOMAIN Entries[q.dir]
  /\ Len(q.indices) = q.depth /\ q.depth < q.limit

(* A walk that has come to an entry, which was the first one missing.     *)
LEMMA Arrives ==
  ASSUME NEW v \in Out, NEW q, Sane(q), NEW s, NEW t, Pending(q, s, t),
         v \o (After(q, q.dir, q.index - 1, q.depth) \o t[q.depth]) = Goal(q)
  PROVE  /\ Append(v, <<q.dir, q.index>>) \in Out /\ Rest(q, t) \in Out
         /\ Append(v, <<q.dir, q.index>>) \o Rest(q, t) = Goal(q)
<1> DEFINE d == q.dir
           i == q.index
           j == q.depth
           x == <<d, i>>
           b == Below(q)
           a == After(q, d, i, j)
           u == t[j]
<1>1. q \in WalkType /\ d \in Dir /\ q.limit \in Nat /\ j \in 0 .. q.limit - 1
  BY LimitsAssumption DEF Sane, WalkType
<1>2. DOMAIN Entries[d] = 1 .. Len(Entries[d]) /\ Len(Entries[d]) \in Nat BY <1>1, EntriesSeq
<1>3. i \in 1 .. Len(Entries[d]) BY <1>2 DEF Sane
<1>4. /\ i \in 0 .. Len(Entries[d]) /\ i - 1 \in 0 .. Len(Entries[d])
      /\ i - 1 # Len(Entries[d]) /\ i - 1 + 1 = i
  BY <1>2, <1>3
<1>5. x \in Dir \X Nat BY <1>1, <1>3
<1>6. Entries[d][i].file \in File BY <1>1, <1>3, EntryFile
<1>7. b \in Out BY <1>1, <1>6, UnderIs DEF Below
<1>8. a \in Out BY <1>1, <1>4, AfterIs
<1>9. u \in Out
  <2>1. t \in [0 .. j -> Out] BY DEF Pending
  <2> QED BY <1>1, <2>1
<1>10. After(q, d, i - 1, j) = <<x>> \o (b \o a)
  <2>1. After(q, d, i - 1, j) = <<<<d, i - 1 + 1>>>> \o (Under(Left(q, j), Entries[d][i - 1 + 1].file) \o After(q, d, i - 1 + 1, j))
    BY <1>1, <1>4, AfterIs
  <2> QED BY <1>4, <2>1 DEF Below
<1>11. Rest(q, t) = b \o (a \o u) BY DEF Rest
<1>12. v \o (After(q, d, i - 1, j) \o u) = Goal(q) OBVIOUS
<1> HIDE DEF x, b, a, u
<1>13. a \o u \in Out /\ b \o a \in Out BY <1>7, <1>8, <1>9, ConcatType
<1>14. b \o (a \o u) \in Out BY <1>7, <1>13, ConcatType
<1>15. <<x>> \in Out /\ Append(v, x) \in Out BY <1>5, <1>14, AppendConcat
<1>16. (<<x>> \o (b \o a)) \o u = <<x>> \o ((b \o a) \o u) BY <1>9, <1>13, <1>15, ConcatAssoc
<1>17. (b \o a) \o u = b \o (a \o u) BY <1>7, <1>8, <1>9, ConcatAssoc
<1>18. v \o (<<x>> \o (b \o (a \o u))) = Goal(q) BY <1>10, <1>12, <1>16, <1>17
<1> DEFINE w == b \o (a \o u)
<1>19. w \in Out BY <1>14
<1> HIDE DEF w
<1>20. Append(v, x) \o w = v \o (<<x>> \o w) BY <1>5, <1>19, AppendConcat
<1> QED BY <1>11, <1>14, <1>15, <1>18, <1>20 DEF x, w

LEMMA SamePending ==
  ASSUME NEW p, NEW q, NEW s, NEW t, Pending(p, s, t), q.limit = p.limit,
         q.depth = p.depth, q.indices = p.indices
  PROVE  Pending(q, s, t)
<1>1. \A d, i, j : After(q, d, i, j) = After(p, d, i, j) BY SameAfter
<1>2. \A j \in 1 .. p.depth : t[j] = After(p, s[j - 1], p.indices[j], j - 1) \o t[j - 1]
  BY DEF Pending
<1>3. \A j \in 1 .. p.depth : t[j] = After(q, s[j - 1], p.indices[j], j - 1) \o t[j - 1]
  BY <1>1, <1>2, Zenon
<1> QED BY <1>3 DEF Pending

(* The directories above those that the walk has come up from.             *)
LEMMA Shorter ==
  ASSUME NEW p, Sane(p), NEW s, Stack(p, s), NEW t, Pending(p, s, t),
         NEW m \in 0 .. p.depth, NEW q, Sane(q),
         q.start = p.start, q.limit = p.limit,
         q.depth = m, q.dir = s[m], q.indices = SubSeq(p.indices, 1, m)
  PROVE  \E r, u : /\ Stack(q, r) /\ Pending(q, r, u)
                   /\ u[q.depth] = t[q.depth] /\ Goal(q) = Goal(p)
<1> DEFINE n == p.depth
           r == [j \in 0 .. m |-> s[j]]
           u == [j \in 0 .. m |-> t[j]]
<1>1. n \in Nat /\ p.indices \in Seq(Nat \ {0}) /\ Len(p.indices) = n
  BY LimitsAssumption DEF Sane, WalkType
<1>2. m \in 0 .. n /\ m = q.depth BY <1>1
<1>3. /\ s \in [0 .. n -> Dir] /\ s[0] = p.start
      /\ \A j \in 1 .. n : p.indices[j] \in DOMAIN Entries[s[j - 1]] /\ Entries[s[j - 1]][p.indices[j]].file = s[j] /\ s[j] # Root
  BY DEF Stack
<1>4. /\ t \in [0 .. n -> Out] /\ t[0] = <<>>
      /\ \A j \in 1 .. n : t[j] = After(p, s[j - 1], p.indices[j], j - 1) \o t[j - 1]
  BY DEF Pending
<1>5. q.dir = s[m] /\ q.indices = SubSeq(p.indices, 1, m) OBVIOUS
<1> HIDE DEF n
<1>6. \A j \in 1 .. m : q.indices[j] = p.indices[j] BY <1>1, <1>2, <1>5
<1>7. \A j \in 1 .. m : j \in 0 .. m /\ j - 1 \in 0 .. m /\ j \in 1 .. n BY <1>1, <1>2
<1>8. \A j \in 0 .. m : j \in 0 .. n BY <1>1, <1>2
<1>9. 0 \in 0 .. m /\ m \in 0 .. m BY <1>1, <1>2
<1>10. Stack(q, r)
  <2>1. r \in [0 .. m -> Dir] BY <1>3, <1>8
  <2>2. r[0] = q.start /\ r[m] = q.dir BY <1>3, <1>5, <1>9
  <2>3. ASSUME NEW j \in 1 .. m
        PROVE  q.indices[j] \in DOMAIN Entries[r[j - 1]] /\ Entries[r[j - 1]][q.indices[j]].file = r[j] /\ r[j] # Root
    <3>1. r[j] = s[j] /\ r[j - 1] = s[j - 1] /\ q.indices[j] = p.indices[j] BY <1>6, <1>7
    <3> QED BY <1>3, <1>7, <3>1
  <2> HIDE DEF r
  <2> QED BY <1>2, <2>1, <2>2, <2>3 DEF Stack
<1>11. Pending(q, r, u)
  <2>1. u \in [0 .. m -> Out] /\ u[0] = <<>> BY <1>4, <1>8, <1>9
  <2>2. ASSUME NEW j \in 1 .. m
        PROVE  u[j] = After(q, r[j - 1], q.indices[j], j - 1) \o u[j - 1]
    <3>1. /\ u[j] = t[j] /\ u[j - 1] = t[j - 1] /\ r[j - 1] = s[j - 1]
          /\ q.indices[j] = p.indices[j]
      BY <1>6, <1>7
    <3>2. After(q, s[j - 1], p.indices[j], j - 1) = After(p, s[j - 1], p.indices[j], j - 1)
      BY SameAfter
    <3> QED BY <1>4, <1>7, <3>1, <3>2
  <2> HIDE DEF r, u
  <2> QED BY <1>2, <2>1, <2>2 DEF Pending
<1>12. u[q.depth] = t[q.depth] BY <1>2, <1>9
<1>13. Goal(q) = Goal(p) BY SameAfter DEF Goal
<1> HIDE DEF r, u
<1> QED BY <1>10, <1>11, <1>12, <1>13

(* The directories with the one that the walk goes down to.                *)
LEMMA Longer ==
  ASSUME NEW p, Sane(p), NEW s, Stack(p, s), NEW t, Pending(p, s, t),
         NEW q, Sane(q), p.depth + 1 < p.limit, q.dir # Root,
         q.start = p.start, q.limit = p.limit,
         q.depth = p.depth + 1, q.dir = Entries[p.dir][p.index].file,
         q.indices = Append(p.indices, p.index)
  PROVE  \E r, u : /\ Stack(q, r) /\ Pending(q, r, u) /\ Goal(q) = Goal(p)
                   /\ u[q.depth] = After(p, p.dir, p.index, p.depth) \o t[p.depth]
<1> DEFINE n == p.depth
           m == n + 1
           a == After(p, p.dir, p.index, p.depth) \o t[p.depth]
           r == [j \in 0 .. m |-> IF j <= n THEN s[j] ELSE q.dir]
           u == [j \in 0 .. m |-> IF j <= n THEN t[j] ELSE a]
<1>1. n \in Nat /\ p.indices \in Seq(Nat \ {0}) /\ Len(p.indices) = n /\ p.index \in Nat \ {0}
      /\ p.dir \in Dir /\ q.dir \in Dir /\ p \in WalkType /\ p.limit \in Nat
      /\ p.index \in DOMAIN Entries[p.dir]
  BY LimitsAssumption DEF Sane, WalkType
<1>2. m = q.depth /\ m \in Nat /\ n \in 0 .. m /\ n \in 0 .. n BY <1>1
<1>3. /\ s \in [0 .. n -> Dir] /\ s[0] = p.start /\ s[n] = p.dir
      /\ \A j \in 1 .. n : p.indices[j] \in DOMAIN Entries[s[j - 1]] /\ Entries[s[j - 1]][p.indices[j]].file = s[j] /\ s[j] # Root
  BY DEF Stack
<1>4. /\ t \in [0 .. n -> Out] /\ t[0] = <<>>
      /\ \A j \in 1 .. n : t[j] = After(p, s[j - 1], p.indices[j], j - 1) \o t[j - 1]
  BY DEF Pending
<1>5. a \in Out
  <2>1. DOMAIN Entries[p.dir] = 1 .. Len(Entries[p.dir]) /\ Len(Entries[p.dir]) \in Nat
    BY <1>1, EntriesSeq
  <2>2. p.index \in 0 .. Len(Entries[p.dir]) /\ p.depth \in 0 .. p.limit - 1 BY <1>1, <2>1 DEF Sane
  <2>3. After(p, p.dir, p.index, p.depth) \in Out BY <1>1, <2>2, AfterIs
  <2>4. t[p.depth] \in Out BY <1>2, <1>4
  <2> QED BY <2>3, <2>4 DEF Out
<1>6. /\ \A j \in 1 .. n : q.indices[j] = p.indices[j]
      /\ q.indices[m] = p.index
  BY <1>1
<1>7. q.dir = Entries[p.dir][p.index].file /\ q.dir # Root OBVIOUS
<1> HIDE DEF a
<1>8. r \in [0 .. m -> Dir] BY <1>1, <1>3
<1>9. u \in [0 .. m -> Out] BY <1>1, <1>4, <1>5
<1>10. \A j \in 0 .. n : r[j] = s[j] /\ u[j] = t[j] BY <1>1
<1>11. r[m] = q.dir /\ u[m] = a BY <1>1
<1> HIDE DEF r, u
<1>12. Stack(q, r)
  <2>1. r[0] = q.start /\ r[m] = q.dir BY <1>1, <1>3, <1>10, <1>11
  <2>2. ASSUME NEW j \in 1 .. m
        PROVE  q.indices[j] \in DOMAIN Entries[r[j - 1]] /\ Entries[r[j - 1]][q.indices[j]].file = r[j] /\ r[j] # Root
    <3>1. CASE j \in 1 .. n
      <4>1. j \in 0 .. n /\ j - 1 \in 0 .. n BY <1>1, <3>1
      <4> QED BY <1>3, <1>6, <1>10, <3>1, <4>1
    <3>2. CASE j = m
      <4>1. j - 1 = n BY <1>1, <3>2
      <4>2. r[j - 1] = p.dir BY <1>2, <1>3, <1>10, <4>1
      <4> QED BY <1>1, <1>6, <1>7, <1>11, <3>2, <4>2
    <3> QED BY <1>1, <3>1, <3>2
  <2> QED BY <1>2, <1>8, <2>1, <2>2 DEF Stack
<1>13. Pending(q, r, u)
  <2>1. u[0] = <<>> BY <1>1, <1>4, <1>10
  <2>2. ASSUME NEW j \in 1 .. m
        PROVE  u[j] = After(q, r[j - 1], q.indices[j], j - 1) \o u[j - 1]
    <3>1. CASE j \in 1 .. n
      <4>1. j \in 0 .. n /\ j - 1 \in 0 .. n BY <1>1, <3>1
      <4>2. u[j] = t[j] /\ u[j - 1] = t[j - 1] /\ r[j - 1] = s[j - 1] /\ q.indices[j] = p.indices[j]
        BY <1>6, <1>10, <3>1, <4>1
      <4>3. After(q, s[j - 1], p.indices[j], j - 1) = After(p, s[j - 1], p.indices[j], j - 1)
        BY SameAfter
      <4> QED BY <1>4, <3>1, <4>2, <4>3
    <3>0. j \in 1 .. n \/ j = m BY <1>1
    <3>2. CASE j = m
      <4>1. j - 1 = n BY <1>1, <3>2
      <4>2. r[j - 1] = p.dir /\ u[j - 1] = t[n] BY <1>2, <1>3, <1>10, <4>1
      <4>3. After(q, p.dir, p.index, n) = After(p, p.dir, p.index, n) BY SameAfter
      <4> QED BY <1>6, <1>11, <3>2, <4>1, <4>2, <4>3 DEF a
    <3> HIDE DEF m
    <3> QED BY <3>0, <3>1, <3>2
  <2> QED BY <1>2, <1>9, <2>1, <2>2 DEF Pending
<1>14. Goal(q) = Goal(p) BY SameAfter DEF Goal
<1>15. u[q.depth] = a BY <1>2, <1>11
<1> QED BY <1>12, <1>13, <1>14, <1>15 DEF a
-----------------------------------------------------------------------------
(* What ls has listed and what is still to come make up the listing, unless *)
(* a hard link has led it astray.                                          *)
Walks(w, v) ==
  \E s, t : /\ Stack(w, s) /\ Pending(w, s, t)
            /\ v \o Rest(w, t) = Goal(w)

ListInv ==
  pc # "idle" => /\ ~ walk.recursive => walk.limit = 1
                 /\ ~ walk.astray => Walks(walk, visited)

LEMMA ListFacts ==
  ASSUME TypeOK, ListInv, pc # "idle"
  PROVE  /\ WalkOK /\ Sane(walk) /\ visited \in Out
         /\ ~ walk.recursive => walk.limit = 1
         /\ ~ walk.astray => Walks(walk, visited)
BY DEF TypeOK, ListInv, WalkOK, Sane, Out

LEMMA Arrived ==
  ASSUME NEW v \in Out, NEW q, Sane(q), NEW s, Stack(q, s), NEW t, Pending(q, s, t),
         v \o (After(q, q.dir, q.index - 1, q.depth) \o t[q.depth]) = Goal(q)
  PROVE  Walks(q, Append(v, <<q.dir, q.index>>))
BY Arrives DEF Walks

(* The walk that FSGetNext returns from, and what it leaves as it was.     *)
LEMMA Returned ==
  ASSUME TypeOK, TypeOK', pc # "idle", NEW d, NEW i, NEW depth, NEW indices, NEW astray,
         Return(d, i, depth, indices, astray)
  PROVE  /\ Sane(walk') /\ walk'.dir = d /\ walk'.index = i /\ walk'.depth = depth
         /\ walk'.indices = indices /\ walk'.astray = astray
         /\ walk'.start = walk.start /\ walk'.recursive = walk.recursive
         /\ walk'.limit = walk.limit
         /\ ~ astray => visited' = Append(visited, <<d, i>>)
<1>1. walk \in WalkType /\ pc' = "show" BY DEF TypeOK, WalkOK, Return
<1>2. Sane(walk') BY <1>1 DEF TypeOK, WalkOK, Sane
<1>3. walk' = [walk EXCEPT !.dir = d, !.index = i, !.depth = depth,
                           !.indices = indices, !.astray = astray]
  BY DEF Return
<1>4. ~ astray => visited' = Append(visited, <<d, i>>) BY DEF Return
<1> QED BY <1>1, <1>2, <1>3, <1>4 DEF WalkType

LEMMA DescendLists ==
  ASSUME TypeOK, TypeOK', ListInv, pc # "idle", Descend, ~ Crash, ~ walk'.astray
  PROVE  Walks(walk', visited')
<1> DEFINE q == walk'
           f == Entries[walk.dir][walk.index].file
<1>0. ~ walk.astray
  <2> DEFINE b == walk.astray \/ ~ HasPlace
  <2>1. \E n, x : Return(Current, 1, n, x, b) BY Saved DEF Descend
  <2> HIDE DEF b
  <2>2. walk'.astray = b BY <2>1, Returned
  <2> QED BY <2>2 DEF b
<1>1. WalkOK /\ Sane(walk) /\ visited \in Out /\ Walks(walk, visited) BY <1>0, ListFacts
<1>2. PICK s, t : /\ Stack(walk, s) /\ Pending(walk, s, t)
                  /\ visited \o Rest(walk, t) = Goal(walk)
  BY <1>1 DEF Walks
<1>3. Current = f /\ f \in File /\ handle_table[walk.handle].dir = (f \in Dir)
  BY <1>1, CurrentIs
<1>4. walk \in WalkType /\ walk.limit \in Nat /\ walk.depth \in 0 .. walk.limit - 1
  BY <1>1, WalkFacts
<1>5. f \in Dir /\ f # Root /\ walk.depth < walk.limit - 1
  BY <1>3 DEF Descend, Descends, MayDescend
<1>6. Return(f, 1, walk.depth + 1, Append(walk.indices, walk.index), walk.astray \/ ~ HasPlace)
  BY <1>3, Saved DEF Descend
<1>7. /\ Sane(q) /\ q.dir = f /\ q.index = 1 /\ q.depth = walk.depth + 1
      /\ q.indices = Append(walk.indices, walk.index)
      /\ q.start = walk.start /\ q.limit = walk.limit
      /\ visited' = Append(visited, <<f, 1>>)
  <2> DEFINE n == walk.depth + 1
             x == Append(walk.indices, walk.index)
             b == walk.astray \/ ~ HasPlace
  <2>1. Return(f, 1, n, x, b) BY <1>6
  <2> HIDE DEF f, n, x, b
  <2>2. /\ Sane(q) /\ q.dir = f /\ q.index = 1 /\ q.depth = n /\ q.indices = x
        /\ q.start = walk.start /\ q.limit = walk.limit
        /\ visited' = Append(visited, <<f, 1>>)
    BY <2>1, Returned
  <2> QED BY <2>2 DEF n, x
<1> HIDE DEF q
<1>8. walk.depth + 1 < walk.limit BY <1>4, <1>5
<1>9. PICK r, u : /\ Stack(q, r) /\ Pending(q, r, u) /\ Goal(q) = Goal(walk)
                  /\ u[q.depth] = After(walk, walk.dir, walk.index, walk.depth) \o t[walk.depth]
  BY <1>1, <1>2, <1>5, <1>7, <1>8, Longer
<1>10. Left(walk, walk.depth) # 0 BY <1>4, <1>5 DEF Left
<1>11. Below(walk) = After(walk, f, 0, walk.depth + 1)
  BY <1>3, <1>4, <1>5, <1>10, UnderIs DEF Below
<1>12. After(q, q.dir, q.index - 1, q.depth) = Below(walk)
  <2>1. q.index - 1 = 0 BY <1>7
  <2>2. After(q, f, 0, walk.depth + 1) = After(walk, f, 0, walk.depth + 1) BY <1>7, SameAfter
  <2> QED BY <1>7, <1>11, <2>1, <2>2
<1>13. visited \o (After(q, q.dir, q.index - 1, q.depth) \o u[q.depth]) = Goal(q)
  BY <1>2, <1>9, <1>12 DEF Rest
<1>14. visited' = Append(visited, <<q.dir, q.index>>) BY <1>7
<1>15. Walks(q, Append(visited, <<q.dir, q.index>>)) BY <1>1, <1>7, <1>9, <1>13, Arrived
<1> QED BY <1>14, <1>15 DEF q

LEMMA SiblingLists ==
  ASSUME TypeOK, TypeOK', ListInv, pc # "idle", Sibling, ~ walk.astray
  PROVE  Walks(walk', visited')
<1> DEFINE q == walk'
<1>1. /\ WalkOK /\ Sane(walk) /\ visited \in Out /\ Walks(walk, visited)
      /\ ~ walk.recursive => walk.limit = 1
  BY ListFacts
<1>2. PICK s, t : /\ Stack(walk, s) /\ Pending(walk, s, t)
                  /\ visited \o Rest(walk, t) = Goal(walk)
  BY <1>1 DEF Walks
<1>3. Return(walk.dir, walk.index + 1, walk.depth, walk.indices, walk.astray)
  BY DEF Sibling
<1>4. /\ Sane(q) /\ q.dir = walk.dir /\ q.index = walk.index + 1 /\ q.depth = walk.depth
      /\ q.indices = walk.indices /\ q.start = walk.start /\ q.limit = walk.limit
      /\ visited' = Append(visited, <<walk.dir, walk.index + 1>>)
  BY <1>3, Returned
<1> HIDE DEF q
<1>5. Stack(q, s) BY <1>2, <1>4 DEF Stack
<1>6. Pending(q, s, t) BY <1>2, <1>4, SamePending
<1>7. Goal(q) = Goal(walk) BY <1>4 DEF Goal
<1>8. Below(walk) = <<>> BY <1>1, NothingBelow DEF Sibling
<1>9. /\ walk \in WalkType /\ walk.dir \in Dir /\ walk.limit \in Nat
      /\ walk.depth \in 0 .. walk.limit - 1 /\ walk.depth \in 0 .. walk.depth
      /\ walk.index \in 1 .. Len(Entries[walk.dir])
  BY <1>1, WalkFacts
<1> DEFINE a == After(walk, walk.dir, walk.index, walk.depth)
           b == t[walk.depth]
<1>10. a \in Out
  <2>1. walk.index \in 0 .. Len(Entries[walk.dir]) BY <1>9
  <2> QED BY <1>9, <2>1, AfterIs
<1>11. b \in Out
  <2>1. t \in [0 .. walk.depth -> Out] BY <1>2 DEF Pending
  <2> QED BY <1>9, <2>1
<1>12. After(q, q.dir, q.index - 1, q.depth) = a
  <2>1. q.index - 1 = walk.index BY <1>4, <1>9
  <2>2. After(q, walk.dir, walk.index, walk.depth) = a BY <1>4, SameAfter
  <2> QED BY <1>4, <2>1, <2>2
<1>13. Rest(walk, t) = <<>> \o (a \o b) BY <1>8 DEF Rest
<1>14. t[q.depth] = b BY <1>4
<1> HIDE DEF a, b
<1>15. Rest(walk, t) = a \o b
  <2>1. a \o b \in Out BY <1>10, <1>11, ConcatType
  <2> QED BY <1>13, <2>1, ConcatType
<1>16. visited \o (After(q, q.dir, q.index - 1, q.depth) \o t[q.depth]) = Goal(q)
  BY <1>2, <1>7, <1>12, <1>14, <1>15
<1>17. visited' = Append(visited, <<q.dir, q.index>>) BY <1>4
<1>18. Walks(q, Append(visited, <<q.dir, q.index>>)) BY <1>1, <1>4, <1>5, <1>6, <1>16, Arrived
<1> QED BY <1>17, <1>18 DEF q

LEMMA AscendLists ==
  ASSUME TypeOK, TypeOK', ListInv, pc # "idle", NEW k \in 1 .. walk.depth, Ascend(k),
         ~ Crash, ~ walk'.astray
  PROVE  Walks(walk', visited')
<1> DEFINE q == walk'
           n == walk.depth
<1>0. ~ walk.astray BY DEF Ascend, AtHome
<1>1. /\ WalkOK /\ Sane(walk) /\ visited \in Out /\ Walks(walk, visited)
      /\ ~ walk.recursive => walk.limit = 1
  BY <1>0, ListFacts
<1>2. PICK s, t : /\ Stack(walk, s) /\ Pending(walk, s, t)
                  /\ visited \o Rest(walk, t) = Goal(walk)
  BY <1>1 DEF Walks
<1>3. PICK d \in Dir, b \in BOOLEAN :
        /\ d = Up[k]
        /\ Return(d, IndexAt(k) + 1, n - k, SubSeq(walk.indices, 1, n - k), b)
  BY Saved DEF Ascend
<1>4. /\ Sane(q) /\ q.dir = d /\ q.index = IndexAt(k) + 1 /\ q.depth = n - k
      /\ q.indices = SubSeq(walk.indices, 1, n - k)
      /\ q.start = walk.start /\ q.limit = walk.limit
      /\ visited' = Append(visited, <<d, IndexAt(k) + 1>>)
  BY <1>3, Returned
<1> HIDE DEF q
<1>5. n \in Nat BY <1>1, WalkFacts
<1>6. k \in 1 .. n /\ k - 1 \in 0 .. n /\ n - k \in 0 .. n BY <1>5
<1>7. AtHome /\ EndOf(walk.dir, walk.index) /\ \A j \in 1 .. k - 1 : EndOf(Up[j], IndexAt(j))
  BY DEF Ascend
<1>8. d = s[n - k] /\ IndexAt(k) \in 1 .. Len(Entries[d])
  BY <1>1, <1>2, <1>3, <1>6, <1>7, LevelIs
<1>9. PICK r, u : /\ Stack(q, r) /\ Pending(q, r, u)
                  /\ u[q.depth] = t[q.depth] /\ Goal(q) = Goal(walk)
  <2> DEFINE m == n - k
  <2>1. q.dir = s[m] /\ q.depth = m /\ q.indices = SubSeq(walk.indices, 1, m)
    BY <1>4, <1>8
  <2>2. m \in 0 .. walk.depth BY <1>6
  <2> HIDE DEF m, n
  <2>3. Sane(q) /\ q.start = walk.start /\ q.limit = walk.limit BY <1>4
  <2>4. Sane(walk) /\ Stack(walk, s) /\ Pending(walk, s, t) BY <1>1, <1>2
  <2> QED BY <2>1, <2>2, <2>3, <2>4, Shorter
<1>10. After(walk, walk.dir, walk.index, n) = <<>> /\ t[n] = t[n - (k - 1)]
  <2> DEFINE j == k - 1
  <2>1. j \in 0 .. walk.depth /\ (j # 0 => AtHome /\ \A i \in 1 .. j : EndOf(Up[i], IndexAt(i)))
    BY <1>6, <1>7
  <2> HIDE DEF j
  <2>2. After(walk, walk.dir, walk.index, walk.depth) = <<>> /\ t[walk.depth] = t[walk.depth - j]
    BY <1>1, <1>2, <1>7, <2>1, EndedIs
  <2> QED BY <2>2 DEF j
<1>11. Below(walk) = <<>> BY <1>1, NothingBelow DEF Ascend
<1> DEFINE m == n - (k - 1)
<1>12. m \in 1 .. n /\ m - 1 = n - k /\ m = n - k + 1 /\ n \in 0 .. n BY <1>5, <1>6
<1>13. t \in [0 .. n -> Out] BY <1>2 DEF Pending
<1>14. Rest(walk, t) = t[m]
  <2>1. t[n] \in Out BY <1>12, <1>13
  <2>2. Rest(walk, t) = <<>> \o (<<>> \o t[n]) BY <1>10, <1>11 DEF Rest
  <2>3. Rest(walk, t) = t[n] BY <2>1, <2>2, ConcatType
  <2> QED BY <1>10, <2>3
<1>15. t[m] = After(q, q.dir, q.index - 1, q.depth) \o u[q.depth]
  <2>1. IndexAt(k) = walk.indices[m] BY <1>12 DEF IndexAt
  <2>2. q.index - 1 = IndexAt(k) BY <1>4, <1>8
  <2> HIDE DEF m
  <2>3. t[m] = After(walk, s[m - 1], walk.indices[m], m - 1) \o t[m - 1]
    BY <1>2, <1>12 DEF Pending
  <2>4. After(walk, s[m - 1], walk.indices[m], m - 1) = After(q, q.dir, q.index - 1, q.depth)
    BY <1>4, <1>8, <1>12, <2>1, <2>2, SameAfter
  <2>5. t[m - 1] = u[q.depth] BY <1>4, <1>9, <1>12
  <2> QED BY <2>3, <2>4, <2>5
<1>16. visited \o (After(q, q.dir, q.index - 1, q.depth) \o u[q.depth]) = Goal(q)
  BY <1>2, <1>9, <1>14, <1>15
<1>17. visited' = Append(visited, <<q.dir, q.index>>) BY <1>4
<1>18. Walks(q, Append(visited, <<q.dir, q.index>>)) BY <1>1, <1>4, <1>9, <1>16, Arrived
<1> QED BY <1>17, <1>18 DEF q

(* One step of GetNext: astray, the walk stays so.                         *)
LEMMA GetNextLists ==
  ASSUME TypeOK, TypeOK', ListInv, GetNext
  PROVE  ListInv'
<1>1. pc # "idle" BY DEF GetNext
<1>2. walk \in WalkType /\ (~ walk.recursive => walk.limit = 1) BY <1>1, ListFacts DEF WalkOK
<1>3. ASSUME NEW d, NEW i, NEW depth, NEW indices, NEW astray,
             Return(d, i, depth, indices, astray), ~ walk'.astray => Walks(walk', visited')
      PROVE  ListInv'
  <2>1. walk'.recursive = walk.recursive /\ walk'.limit = walk.limit /\ walk'.astray = astray
    BY <1>1, <1>3, Returned
  <2> QED BY <1>2, <1>3, <2>1 DEF ListInv
<1>4. ASSUME UNCHANGED <<walk, visited>> PROVE ListInv'
  BY <1>1, <1>4 DEF ListInv
<1>5. CASE Crash BY <1>4, <1>5 DEF Crash
<1>6. CASE Descend
  <2> SUFFICES ASSUME ~ Crash PROVE ListInv' BY <1>5
  <2>1. ~ walk'.astray => Walks(walk', visited') BY <1>1, <1>6, DescendLists
  <2>2. \E n, x, b : Return(Current, 1, n, x, b) BY <1>6, Saved DEF Descend
  <2> QED BY <1>3, <2>1, <2>2
<1>7. CASE Sibling
  <2>1. Return(walk.dir, walk.index + 1, walk.depth, walk.indices, walk.astray)
    BY <1>7 DEF Sibling
  <2>2. walk'.astray = walk.astray BY <1>1, <2>1, Returned
  <2>3. ~ walk.astray => Walks(walk', visited') BY <1>1, <1>7, SiblingLists
  <2> QED BY <1>3, <2>1, <2>2, <2>3
<1>8. CASE Astray
  <2>1. ASSUME NEW k \in 1 .. walk.depth, NEW d \in Dir, NEW i \in DOMAIN Entries[d],
               Return(d, i, walk.depth - k, SubSeq(walk.indices, 1, walk.depth - k), TRUE)
        PROVE  ListInv'
    <3>1. walk'.astray = TRUE BY <1>1, <2>1, Returned
    <3> QED BY <1>3, <2>1, <3>1
  <2> QED BY <1>5, <1>8, <2>1 DEF Astray
<1>9. ASSUME NEW k \in 1 .. walk.depth, Ascend(k) PROVE ListInv'
  <2> SUFFICES ASSUME ~ Crash PROVE ListInv' BY <1>5
  <2>1. ~ walk'.astray => Walks(walk', visited') BY <1>1, <1>9, AscendLists
  <2>2. \E d, i, n, x, b : Return(d, i, n, x, b) BY <1>9, Saved DEF Ascend
  <2> QED BY <1>3, <2>1, <2>2
<1>10. CASE Exhausted BY <1>4, <1>10 DEF Exhausted
<1>11. CASE Fails BY <1>4, <1>11 DEF Fails
<1> QED BY <1>6, <1>7, <1>8, <1>9, <1>10, <1>11 DEF GetNext

(* The first entry of the directory is the first of its listing.           *)
LEMMA GetFirstLists ==
  ASSUME TypeOK, TypeOK', NEW recursive \in BOOLEAN, NEW limit \in Limits, GetFirst(recursive, limit)
  PROVE  ListInv'
<1> DEFINE q == walk'
           s == [j \in 0 .. 0 |-> Here]
           t == [j \in 0 .. 0 |-> <<>>]
<1>1. PICK h \in Handle :
        q = [handle |-> h, start |-> Here, recursive |-> recursive,
             limit |-> Clamped(recursive, limit), dir |-> Here, index |-> 1,
             depth |-> 0, indices |-> <<>>, astray |-> FALSE]
  BY DEF GetFirst
<1>2. visited' = <<<<Here, 1>>>> /\ pc' = "show" BY DEF GetFirst
<1>3. /\ q.start = Here /\ q.dir = Here /\ q.index = 1 /\ q.depth = 0 /\ q.indices = <<>>
      /\ q.recursive = recursive /\ q.limit = Clamped(recursive, limit)
  BY <1>1
<1>4. Sane(q) BY <1>2 DEF TypeOK, WalkOK, Sane
<1>5. Here \in Dir BY HereDir DEF GetFirst
<1> HIDE DEF q
<1>6. <<>> \in Out BY DEF Out
<1>7. Stack(q, s) BY <1>3, <1>5 DEF Stack
<1>8. Pending(q, s, t) BY <1>3, <1>6 DEF Pending
<1>9. Goal(q) \in Out /\ Goal(q) = After(q, Here, 0, 0) BY <1>3, <1>4, GoalIs DEF Sane
<1>10. t[q.depth] = <<>> BY <1>3
<1> HIDE DEF s, t
<1>11. After(q, q.dir, q.index - 1, q.depth) = Goal(q) BY <1>3, <1>9
<1>12. <<>> \o (Goal(q) \o <<>>) = Goal(q) BY <1>6, <1>9, ConcatType
<1>13. <<>> \o (After(q, q.dir, q.index - 1, q.depth) \o t[q.depth]) = Goal(q)
  BY <1>10, <1>11, <1>12
<1>14. Walks(q, Append(<<>>, <<q.dir, q.index>>)) BY <1>4, <1>6, <1>7, <1>8, <1>13, Arrived
<1>15. visited' = Append(<<>>, <<q.dir, q.index>>) BY <1>2, <1>3
<1>16. ~ q.recursive => q.limit = 1 BY <1>3 DEF Clamped
<1> QED BY <1>14, <1>15, <1>16 DEF ListInv, q

LEMMA ListStep ==
  ASSUME TypeOK, TypeOK', ListInv, [Next]_vars
  PROVE  ListInv'
<1>1. ASSUME UNCHANGED <<pc, walk, visited>> PROVE ListInv' BY <1>1 DEF ListInv
<1>2. CASE Crash BY <1>1, <1>2 DEF Crash
<1>3. ASSUME NEW p \in Paths, OpenFile(p) \/ Cd(p) PROVE ListInv'
  BY <1>1, <1>2, <1>3 DEF OpenFile, Cd
<1>4. ASSUME NEW recursive \in BOOLEAN, NEW limit \in Limits, GetFirst(recursive, limit)
      PROVE  ListInv'
  BY <1>4, GetFirstLists
<1>5. CASE Enter \/ Exit \/ CloseFile \/ GetFirstEmpty \/ LsOutOfMemory
  BY <1>1, <1>5 DEF Enter, Exit, CloseFile, GetFirstEmpty, LsOutOfMemory
<1>6. CASE AttributeGet \/ GetFirstFull BY <1>2, <1>6 DEF AttributeGet, GetFirstFull
<1>7. CASE Show BY <1>7 DEF Show, ListInv
<1>8. CASE GetNext BY <1>8, GetNextLists
<1>9. CASE CloseQuery BY <1>9 DEF CloseQuery, ListInv
<1>10. CASE UNCHANGED vars BY <1>1, <1>10 DEF vars
<1> QED BY <1>3, <1>4, <1>5, <1>6, <1>7, <1>8, <1>9, <1>10 DEF Next

LEMMA ListSound ==
  ASSUME TypeOK, ListInv
  PROVE  WalkIsListing
<1> SUFFICES ASSUME walk # None, ~ walk.astray
             PROVE  /\ IsPrefix(visited, Goal(walk))
                    /\ pc = "next" /\ NothingLeft => visited = Goal(walk)
  BY DEF WalkIsListing, Goal
<1>1. pc # "idle" BY DEF TypeOK
<1>2. /\ WalkOK /\ Sane(walk) /\ visited \in Out /\ Walks(walk, visited)
      /\ ~ walk.recursive => walk.limit = 1
  BY <1>1, ListFacts
<1>3. PICK s, t : /\ Stack(walk, s) /\ Pending(walk, s, t)
                  /\ visited \o Rest(walk, t) = Goal(walk)
  BY <1>2 DEF Walks
<1> DEFINE a == After(walk, walk.dir, walk.index, walk.depth)
           b == t[walk.depth]
           c == Below(walk)
<1>4. /\ walk \in WalkType /\ walk.dir \in Dir /\ walk.limit \in Nat
      /\ walk.depth \in 0 .. walk.limit - 1 /\ walk.depth \in 0 .. walk.depth
      /\ walk.index \in 0 .. Len(Entries[walk.dir])
  BY <1>2, WalkFacts
<1>5. a \in Out BY <1>4, AfterIs
<1>6. b \in Out
  <2>1. t \in [0 .. walk.depth -> Out] BY <1>3 DEF Pending
  <2> QED BY <1>4, <2>1
<1>7. c \in Out BY <1>2, <1>4, CurrentIs, UnderIs DEF Below
<1>8. Rest(walk, t) = c \o (a \o b) BY DEF Rest
<1> HIDE DEF a, b, c
<1>9. Rest(walk, t) \in Out
  <2>1. a \o b \in Out BY <1>5, <1>6, ConcatType
  <2> QED BY <1>7, <1>8, <2>1, ConcatType
<1>10. IsPrefix(visited, Goal(walk)) BY <1>2, <1>3, <1>9, PrefixOfConcat
<1>11. ASSUME NothingLeft PROVE visited = Goal(walk)
  <2>1. c = <<>> BY <1>2, <1>11, NothingBelow DEF NothingLeft, c
  <2>2. /\ EndOf(walk.dir, walk.index)
        /\ walk.depth # 0 => AtHome /\ \A j \in 1 .. walk.depth : EndOf(Up[j], IndexAt(j))
    BY <1>4, <1>11 DEF NothingLeft
  <2>3. a = <<>> /\ t[walk.depth] = t[walk.depth - walk.depth]
    BY <1>2, <1>3, <1>4, <2>2, EndedIs DEF a
  <2>4. walk.depth - walk.depth = 0 BY <1>4
  <2>5. b = <<>> BY <1>3, <2>3, <2>4 DEF Pending, b
  <2>6. <<>> \in Out /\ <<>> \o (<<>> \o <<>>) = <<>> BY ConcatType DEF Out
  <2>7. visited \o <<>> = visited BY <1>2, <2>6, ConcatType
  <2> QED BY <1>3, <1>8, <2>1, <2>3, <2>5, <2>6, <2>7
<1> QED BY <1>10, <1>11

(* ls returns the entries of a depth-first listing in its order and says   *)
(* that there are no more only after the last, for any directories and    *)
(* limit, until a hard link or a buffer with too few places leads it       *)
(* astray: FSGetNext finds its way up by first names and saved offsets     *)
(* alone.                                                                  *)
THEOREM WalkListsTree == Spec => []WalkIsListing
<1>1. Init => TypeOK /\ ListInv
  <2>1. Init => ListInv BY DEF Init, ListInv
  <2> QED BY <2>1, InitType
<1>2. (TypeOK /\ ListInv) /\ [Next]_vars => (TypeOK /\ ListInv)' BY TypeStep, ListStep
<1>3. TypeOK /\ ListInv => WalkIsListing BY ListSound
<1> QED BY <1>1, <1>2, <1>3, PTL DEF Spec
-----------------------------------------------------------------------------
(* The search of a path.  What its cursors are, whatever they are about.   *)
TokenType == Name \cup {".", "..", ""}

CursorRecord ==
  [state : {"found", "failed", "crashed"}, file : File \cup {None},
   value : {None} \cup [dir : Dir, from : Nat \ {0}]]

Cursor == {c \in CursorRecord : c.state = "found" => c.file \in File}

LEMMA FirstValueType ==
  ASSUME NEW d \in Dir, NEW old \in {None} \cup [dir : Dir, from : Nat \ {0}]
  PROVE  /\ FirstValue(d, old) \in {None} \cup [dir : Dir, from : Nat \ {0}]
         /\ Entries[d] # <<>> => FirstValue(d, old) = Value(d, 1)
BY DEF FirstValue, Value

LEMMA BeginType ==
  ASSUME NEW f \in File
  PROVE  /\ Begin(f) \in Cursor /\ Begin(f).file = f
         /\ f \in Dir => Begin(f).state = "found" /\ Begin(f).value = FirstValue(f, None)
<1>1. f \in Dir => FirstValue(f, None) \in {None} \cup [dir : Dir, from : Nat \ {0}]
  BY FirstValueType
<1> QED BY <1>1 DEF Begin, Cursor, CursorRecord

LEMMA StopType ==
  ASSUME NEW c \in Cursor, NEW how \in {"failed", "crashed"}
  PROVE  Stop(c, how) \in Cursor /\ Stop(c, how).state = how /\ Stop(c, how).file = c.file
BY DEF Stop, Cursor, CursorRecord

LEMMA ReachType ==
  ASSUME NEW c \in Cursor, c.state = "found", NEW f \in File, NEW last \in BOOLEAN
  PROVE  /\ Reach(c, f, last) \in Cursor
         /\ last \/ f \in Dir => Reach(c, f, last).state = "found" /\ Reach(c, f, last).file = f
         /\ ~ last /\ f \in Dir => Reach(c, f, last).value = FirstValue(f, c.value)
         /\ ~ last /\ f \notin Dir => Reach(c, f, last) = Stop(c, "failed")
<1>1. CASE last BY <1>1 DEF Reach, Cursor, CursorRecord
<1>2. CASE ~ last /\ f \notin Dir BY <1>2, StopType DEF Reach
<1>3. CASE ~ last /\ f \in Dir
  <2> DEFINE v == FirstValue(f, c.value)
  <2>1. v \in {None} \cup [dir : Dir, from : Nat \ {0}]
    BY <1>3, FirstValueType DEF Cursor, CursorRecord
  <2>2. Reach(c, f, last) = [c EXCEPT !.file = f, !.value = v] BY <1>3 DEF Reach
  <2> HIDE DEF v
  <2>3. /\ Reach(c, f, last) \in Cursor /\ Reach(c, f, last).state = "found"
        /\ Reach(c, f, last).file = f /\ Reach(c, f, last).value = v
    BY <2>1, <2>2 DEF Cursor, CursorRecord
  <2> QED BY <1>3, <2>3 DEF v
<1> QED BY <1>1, <1>2, <1>3

LEMMA CrashedType == Crashed \in Cursor
BY DEF Crashed, Cursor, CursorRecord

(* A hit of the search: the value goes on to it.                           *)
LEMMA HitType ==
  ASSUME NEW c \in Cursor, c.state = "found", c.value # None, NEW name,
         NEW i \in Hits(c.value, name)
  PROVE  LET e == [c EXCEPT !.value.from = i] IN
         /\ c.value.dir \in Dir /\ i \in DOMAIN Entries[c.value.dir]
         /\ Entries[c.value.dir][i].file \in File /\ Entries[c.value.dir][i].name = name
         /\ e \in Cursor /\ e.state = "found" /\ e.file = c.file
<1> DEFINE v == c.value
           e == [c EXCEPT !.value.from = i]
<1>1. v \in [dir : Dir, from : Nat \ {0}] BY DEF Cursor, CursorRecord
<1>2. v.dir \in Dir /\ v.from \in Nat \ {0} BY <1>1
<1>3. /\ i \in v.from .. Len(Entries[v.dir]) /\ Entries[v.dir][i].name = name
  BY DEF Hits
<1>4. Len(Entries[v.dir]) \in Nat /\ DOMAIN Entries[v.dir] = 1 .. Len(Entries[v.dir])
  BY <1>2, EntriesSeq
<1>5. i \in DOMAIN Entries[v.dir] /\ i \in Nat \ {0} BY <1>2, <1>3, <1>4
<1>6. Entries[v.dir][i].file \in File BY <1>2, <1>5, EntryFile
<1>7. e \in Cursor /\ e.state = "found" /\ e.file = c.file
  <2> DEFINE w == [v EXCEPT !.from = i]
  <2>1. w \in [dir : Dir, from : Nat \ {0}] BY <1>1, <1>5
  <2>2. e = [c EXCEPT !.value = w] OBVIOUS
  <2> HIDE DEF w
  <2> QED BY <2>1, <2>2 DEF Cursor, CursorRecord
<1> QED BY <1>2, <1>3, <1>5, <1>6, <1>7

LEMMA MinHits ==
  ASSUME NEW c \in Cursor, c.state = "found", c.value # None, NEW name, Hits(c.value, name) # {}
  PROVE  Min(Hits(c.value, name)) \in Hits(c.value, name)
<1> DEFINE H == Hits(c.value, name)
<1>1. c.value \in [dir : Dir, from : Nat \ {0}] BY DEF Cursor, CursorRecord
<1>2. H \subseteq Nat BY <1>1 DEF Hits
<1>3. \E x \in H : \A y \in H : x <= y
  <2> DEFINE T == {n \in Nat : \A y \in H : n <= y}
  <2> SUFFICES ASSUME \A x \in H : \E y \in H : ~ (x <= y) PROVE FALSE OBVIOUS
  <2>1. 0 \in T BY <1>2
  <2>2. ASSUME NEW n \in Nat, n \in T PROVE n + 1 \in T
    <3>1. n \notin H BY <2>2
    <3> SUFFICES ASSUME NEW y \in H PROVE n + 1 <= y OBVIOUS
    <3> QED BY <1>2, <2>2, <3>1
  <2> HIDE DEF T
  <2>3. Nat \subseteq T BY <2>1, <2>2, NatSetInduction
  <2>4. PICK x \in H : TRUE OBVIOUS
  <2>5. x + 1 \in T /\ x \in Nat BY <1>2, <2>3
  <2> QED BY <2>5 DEF T
<1> HIDE DEF H
<1> QED BY <1>3 DEF Min, H

LEMMA SearchType ==
  ASSUME NEW c \in Cursor, c.state = "found", NEW name, NEW last \in BOOLEAN
  PROVE  Search(c, name, last) \subseteq Cursor
<1>1. CASE c.value = None
  <2>1. Named(name) \subseteq File BY DEF Named
  <2>2. \A f \in Named(name) : Reach(c, f, last) \in Cursor BY <2>1, ReachType
  <2>3. Search(c, name, last)
          = {Crashed, Stop(c, "failed")} \cup {Reach(c, f, last) : f \in Named(name)}
    BY <1>1 DEF Search
  <2>4. Stop(c, "failed") \in Cursor BY StopType
  <2> QED BY <2>2, <2>3, <2>4, CrashedType
<1>2. CASE c.value # None /\ Hits(c.value, name) # {}
  <2> DEFINE i == Min(Hits(c.value, name))
             e == [c EXCEPT !.value.from = i]
  <2>1. i \in Hits(c.value, name) BY <1>2, MinHits
  <2>2. Entries[c.value.dir][i].file \in File /\ e \in Cursor /\ e.state = "found"
    BY <1>2, <2>1, HitType
  <2>3. Reach(e, Entries[c.value.dir][i].file, last) \in Cursor BY <2>2, ReachType
  <2> HIDE DEF e
  <2>4. Search(c, name, last)
          \in {{Crashed}, {Reach(e, Entries[c.value.dir][i].file, last)}}
    BY <1>2 DEF Search, e
  <2> QED BY <2>3, <2>4, CrashedType
<1>3. CASE c.value # None /\ Hits(c.value, name) = {}
  <2>1. Search(c, name, last) \in {{Crashed}, {Stop(c, "failed")}} BY <1>3 DEF Search
  <2> QED BY <2>1, CrashedType, StopType
<1> QED BY <1>1, <1>2, <1>3

LEMMA CursorStep ==
  ASSUME NEW c \in Cursor, NEW p, NEW i
  PROVE  Token(c, p, i) \subseteq Cursor
<1> DEFINE last == i = Len(p)
<1>1. CASE c.state # "found" \/ p[i] = "." \/ (p[i] = "" /\ i = 1) BY <1>1 DEF Token
<1>2. CASE ~ (c.state # "found" \/ p[i] = "." \/ (p[i] = "" /\ i = 1)) /\ p[i] = ".."
  <2>1. Token(c, p, i) = {Reach(c, Above(c.file), last)} BY <1>2 DEF Token
  <2>2. Above(c.file) \in File BY <1>2, AboveIsDir, TreeAssumption DEF Cursor
  <2>3. last \in BOOLEAN OBVIOUS
  <2> HIDE DEF last
  <2> QED BY <1>2, <2>1, <2>2, <2>3, ReachType
<1>3. CASE ~ (c.state # "found" \/ p[i] = "." \/ (p[i] = "" /\ i = 1)) /\ p[i] # ".."
  <2>1. Token(c, p, i) = Search(c, p[i], last) BY <1>3 DEF Token
  <2>2. last \in BOOLEAN OBVIOUS
  <2> HIDE DEF last
  <2> QED BY <1>3, <2>1, <2>2, SearchType
<1> QED BY <1>1, <1>2, <1>3

(* How the cursors of NTFSGetFile follow each other.                       *)
LEMMA GetFileRecursion ==
  ASSUME NEW start \in File, NEW p \in Seq(TokenType)
  PROVE  \E g : /\ g \in [0 .. Len(p) -> SUBSET Cursor] /\ GetFile(start, p) = g[Len(p)]
                /\ g[0] = {Begin(start)}
                /\ \A i \in 1 .. Len(p) : g[i] = UNION {Token(c, p, i) : c \in g[i - 1]}
<1> DEFINE N == Len(p)
           S == SUBSET Cursor
           b == {Begin(start)}
           To(x, i) == UNION {Token(c, p, i) : c \in x}
           D == [x \in S \X (1 .. N) |-> To(x[1], x[2])]
           Sound(g) == g = [i \in 0 .. N |-> IF i = 0 THEN b ELSE To(g[i - 1], i)]
           cursors == CHOOSE g : Sound(g)
<1>1. N \in Nat OBVIOUS
<1>2. b \in S
  <2>1. Begin(start) \in Cursor BY BeginType
  <2> QED BY <2>1
<1>3. \A x \in S, i \in 1 .. N : To(x, i) \in S BY CursorStep
<1>4. GetFile(start, p) = cursors[N] BY DEF GetFile
<1> HIDE DEF To, b, N
<1>5. D \in [S \X (1 .. N) -> S] BY <1>3
<1>6. \A x \in S, i \in 1 .. N : D[<<x, i>>] = To(x, i) OBVIOUS
<1> HIDE DEF D, S
<1>7. PICK g : Unfolds(g, S, b, N, D) BY <1>1, <1>2, <1>5, Recursion
<1>8. g \in [0 .. N -> S] /\ g[0] = b /\ \A i \in 1 .. N : g[i] = D[<<g[i - 1], i>>]
  BY <1>7 DEF Unfolds
<1>9. \A i \in 1 .. N : g[i] = To(g[i - 1], i)
  <2> TAKE i \in 1 .. N
  <2>1. i - 1 \in 0 .. N BY <1>1
  <2>2. g[i - 1] \in S BY <1>8, <2>1
  <2> QED BY <1>6, <1>8, <2>2
<1>10. Sound(g)
  <2> SUFFICES ASSUME NEW i \in 0 .. N PROVE g[i] = IF i = 0 THEN b ELSE To(g[i - 1], i)
    BY <1>8
  <2>1. CASE i = 0 BY <1>8, <2>1
  <2>2. CASE i # 0
    <3>1. i \in 1 .. N BY <1>1, <2>2
    <3> QED BY <1>9, <2>2, <3>1
  <2> QED BY <2>1, <2>2
<1>11. Sound(cursors) BY <1>10
<1> HIDE DEF cursors
<1>12. cursors[0] = b BY <1>1, <1>11
<1>13. \A i \in 1 .. N : cursors[i] = To(cursors[i - 1], i)
  <2> TAKE i \in 1 .. N
  <2>1. i \in 0 .. N /\ i # 0 BY <1>1
  <2>2. cursors[i] = IF i = 0 THEN b ELSE To(cursors[i - 1], i) BY <1>11, <2>1, Zenon
  <2> QED BY <2>1, <2>2
<1>14. \A i \in 0 .. N : cursors[i] \in S
  <2> DEFINE T == {i \in Nat : i <= N => cursors[i] \in S}
  <2>1. 0 \in T BY <1>2, <1>12
  <2>2. ASSUME NEW i \in 1 .. N, cursors[i - 1] \in S PROVE cursors[i] \in S
    BY <1>3, <1>13, <2>2 DEF S
  <2>3. ASSUME NEW i \in Nat, i \in T PROVE i + 1 \in T
    <3> SUFFICES ASSUME i + 1 <= N PROVE cursors[i + 1] \in S OBVIOUS
    <3>1. i + 1 \in 1 .. N /\ i + 1 - 1 = i BY <1>1
    <3>2. cursors[i] \in S BY <1>1, <2>3
    <3> QED BY <2>2, <3>1, <3>2
  <2> HIDE DEF T
  <2>4. Nat \subseteq T BY <2>1, <2>3, NatSetInduction
  <2> QED BY <1>1, <2>4 DEF T
<1>15. cursors \in [0 .. N -> S] BY <1>11, <1>14
<1>16. \A i \in 1 .. N : cursors[i] = UNION {Token(c, p, i) : c \in cursors[i - 1]}
  BY <1>13 DEF To
<1> QED BY <1>4, <1>12, <1>15, <1>16 DEF N, b, S

LEMMA IntoType ==
  ASSUME NEW f \in File \cup {None}, NEW name
  PROVE  Into(f, name) \in File \cup {None}
<1>1. CASE f \notin Dir \/ name = "." BY <1>1 DEF Into
<1>2. CASE f \in Dir /\ name = ".." BY <1>2, AboveIsDir, TreeAssumption DEF Into
<1>3. CASE f \in Dir /\ name # "." /\ name # ".."
  <2> DEFINE hits == {e \in ToSet(Entries[f]) : e.name = name}
  <2>1. Into(f, name) = IF hits = {} THEN None ELSE (CHOOSE e \in hits : TRUE).file
    BY <1>3 DEF Into
  <2>2. \A e \in ToSet(Entries[f]) : e.file \in File BY <1>3, EntryFile DEF ToSet
  <2>3. \A e \in hits : e.file \in File BY <2>2
  <2> HIDE DEF hits
  <2> QED BY <2>1, <2>3
<1> QED BY <1>1, <1>2, <1>3

LEMMA RouteRecursion ==
  ASSUME NEW start \in File, NEW p \in Seq(TokenType)
  PROVE  /\ Route(start, p) \in [0 .. Len(p) -> File \cup {None}]
         /\ Route(start, p)[0] = start
         /\ \A k \in 1 .. Len(p) : Route(start, p)[k] = Into(Route(start, p)[k - 1], p[k])
<1> DEFINE N == Len(p)
           S == File \cup {None}
           D == [x \in S \X (1 .. N) |-> Into(x[1], p[x[2]])]
           Sound(g) == g = [k \in 0 .. N |-> IF k = 0 THEN start ELSE Into(g[k - 1], p[k])]
           R == Route(start, p)
<1>1. N \in Nat /\ start \in S OBVIOUS
<1>2. \A x \in S, k \in 1 .. N : Into(x, p[k]) \in S BY IntoType
<1>3. R = CHOOSE g : Sound(g) BY DEF Route
<1> HIDE DEF N, S
<1>4. D \in [S \X (1 .. N) -> S] BY <1>2
<1>5. \A x \in S, k \in 1 .. N : D[<<x, k>>] = Into(x, p[k]) OBVIOUS
<1> HIDE DEF D
<1>6. PICK g : Unfolds(g, S, start, N, D) BY <1>1, <1>4, Recursion
<1>7. g \in [0 .. N -> S] /\ g[0] = start /\ \A k \in 1 .. N : g[k] = D[<<g[k - 1], k>>]
  BY <1>6 DEF Unfolds
<1>8. \A k \in 1 .. N : g[k] = Into(g[k - 1], p[k])
  <2> TAKE k \in 1 .. N
  <2>1. k - 1 \in 0 .. N BY <1>1
  <2>2. g[k - 1] \in S BY <1>7, <2>1
  <2> QED BY <1>5, <1>7, <2>2
<1>9. Sound(g)
  <2> SUFFICES ASSUME NEW k \in 0 .. N PROVE g[k] = IF k = 0 THEN start ELSE Into(g[k - 1], p[k])
    BY <1>7
  <2>1. CASE k = 0 BY <1>7, <2>1
  <2>2. CASE k # 0
    <3>1. k \in 1 .. N BY <1>1, <2>2
    <3> QED BY <1>8, <2>2, <3>1
  <2> QED BY <2>1, <2>2
<1>10. Sound(R) BY <1>3, <1>9
<1> HIDE DEF R
<1>11. R[0] = start BY <1>1, <1>10
<1>12. \A k \in 1 .. N : R[k] = Into(R[k - 1], p[k])
  <2> TAKE k \in 1 .. N
  <2>1. k \in 0 .. N /\ k # 0 BY <1>1
  <2>2. R[k] = IF k = 0 THEN start ELSE Into(R[k - 1], p[k]) BY <1>10, <2>1, Zenon
  <2> QED BY <2>1, <2>2
<1>13. \A k \in 0 .. N : R[k] \in S
  <2> DEFINE T == {k \in Nat : k <= N => R[k] \in S}
  <2>1. 0 \in T BY <1>1, <1>11
  <2>2. ASSUME NEW k \in 1 .. N, R[k - 1] \in S PROVE R[k] \in S BY <1>2, <1>12, <2>2
  <2>3. ASSUME NEW k \in Nat, k \in T PROVE k + 1 \in T
    <3> SUFFICES ASSUME k + 1 <= N PROVE R[k + 1] \in S OBVIOUS
    <3>1. k + 1 \in 1 .. N /\ k + 1 - 1 = k BY <1>1
    <3>2. R[k] \in S BY <1>1, <2>3
    <3> QED BY <2>2, <3>1, <3>2
  <2> HIDE DEF T
  <2>4. Nat \subseteq T BY <2>1, <2>3, NatSetInduction
  <2> QED BY <1>1, <2>4 DEF T
<1>14. R \in [0 .. N -> S] BY <1>10, <1>13
<1> QED BY <1>11, <1>12, <1>14 DEF R, N, S

(* A search from the first value of a directory finds what the directory  *)
(* has by that name.                                                       *)
LEMMA SearchFinds ==
  ASSUME NEW c \in Cursor, c.state = "found", c.file \in Dir, c.value = Value(c.file, 1),
         NEW name, name \notin {".", ".."}, NEW last \in BOOLEAN
  PROVE  \/ Into(c.file, name) = None /\ Search(c, name, last) = {Stop(c, "failed")}
         \/ /\ Into(c.file, name) \in File
            /\ \E e \in Cursor :
                 /\ e.state = "found" /\ e.file = c.file
                 /\ Search(c, name, last) = {Reach(e, Into(c.file, name), last)}
<1> DEFINE d == c.file
           hits == {x \in ToSet(Entries[d]) : x.name = name}
           H == Hits(c.value, name)
<1>1. c.value # None /\ c.value.dir = d /\ c.value.from = 1
  <2>1. None # Value(d, 1) BY NoneAssumption
  <2>2. Value(d, 1).dir = d /\ Value(d, 1).from = 1 BY DEF Value
  <2> QED BY <2>1, <2>2
<1>2. Into(d, name) = IF hits = {} THEN None ELSE (CHOOSE x \in hits : TRUE).file
  BY DEF Into
<1>3. DOMAIN Entries[d] = 1 .. Len(Entries[d]) /\ Len(Entries[d]) \in Nat BY EntriesSeq
<1>4. H = {i \in DOMAIN Entries[d] : Entries[d][i].name = name} BY <1>1, <1>3 DEF Hits
<1>5. hits = {Entries[d][i] : i \in H} BY <1>4 DEF ToSet
<1>6. CASE H = {}
  <2>1. Into(d, name) = None BY <1>2, <1>5, <1>6
  <2>2. Search(c, name, last) = {Stop(c, "failed")} BY <1>1, <1>6 DEF Search
  <2> QED BY <2>1, <2>2
<1>7. CASE H # {}
  <2> DEFINE i == Min(H)
             e == [c EXCEPT !.value.from = i]
             f == Entries[d][i].file
  <2>1. i \in H BY <1>1, <1>7, MinHits
  <2>2. /\ i \in DOMAIN Entries[d] /\ f \in File /\ Entries[d][i].name = name
        /\ e \in Cursor /\ e.state = "found" /\ e.file = c.file
    BY <1>1, <2>1, HitType
  <2>3. Search(c, name, last) = {Reach(e, f, last)} BY <1>1, <1>7 DEF Search
  <2> HIDE DEF i
  <2>4. \A j \in H : j = i BY <1>4, <2>1, NamesAssumption
  <2>5. hits = {Entries[d][i]} BY <1>5, <2>1, <2>4
  <2>6. Into(d, name) = f BY <1>2, <2>5
  <2> HIDE DEF e, f, d
  <2>7. Into(c.file, name) \in File /\ Search(c, name, last) = {Reach(e, Into(c.file, name), last)}
    BY <2>2, <2>3, <2>6 DEF d
  <2> QED BY <2>2, <2>7
<1> QED BY <1>6, <1>7

(* A cursor is where the entries lead, or it has failed because they lead  *)
(* nowhere or to no directory where one is needed.                         *)
At(c, f, last) ==
  \/ /\ c.state = "found" /\ c.file = f /\ f \in File
     /\ ~ last => f \in Dir /\ (Entries[f] # <<>> => c.value = Value(f, 1))
  \/ /\ c.state = "failed" /\ c.file \in File
     /\ f \notin Dir /\ (last => f = None)

LEMMA ReachLeads ==
  ASSUME NEW c \in Cursor, c.state = "found", NEW f \in File, NEW last \in BOOLEAN
  PROVE  Reach(c, f, last) \in Cursor /\ At(Reach(c, f, last), f, last)
<1> DEFINE r == Reach(c, f, last)
<1>1. /\ r \in Cursor /\ (last \/ f \in Dir => r.state = "found" /\ r.file = f)
      /\ ~ last /\ f \in Dir => r.value = FirstValue(f, c.value)
      /\ ~ last /\ f \notin Dir => r = Stop(c, "failed")
  BY ReachType
<1>2. c.file \in File BY DEF Cursor
<1>3. ~ last /\ f \notin Dir => r.state = "failed" /\ r.file \in File
  BY <1>1, <1>2, StopType
<1>4. ~ last /\ f \in Dir /\ Entries[f] # <<>> => r.value = Value(f, 1)
  BY <1>1 DEF FirstValue
<1> HIDE DEF r
<1>5. At(r, f, last) BY <1>1, <1>3, <1>4 DEF At
<1> QED BY <1>1, <1>5 DEF r

LEMMA TokenLeads ==
  ASSUME NEW c \in Cursor, NEW f \in File \cup {None}, At(c, f, FALSE),
         NEW p, NEW i, ~ (p[i] = "" /\ i = 1),
         f \in Dir /\ Entries[f] = <<>> => p[i] \in {".", ".."}
  PROVE  \E e \in Cursor : Token(c, p, i) = {e} /\ At(e, Into(f, p[i]), i = Len(p))
<1> DEFINE last == i = Len(p)
           t == p[i]
<1>0. last \in BOOLEAN /\ None \notin Dir BY TreeAssumption
<1>1. CASE c.state = "failed"
  <2>1. f \notin Dir /\ c.file \in File BY <1>1 DEF At
  <2>2. Token(c, p, i) = {c} BY <1>1 DEF Token
  <2>3. Into(f, t) = None BY <2>1 DEF Into
  <2>4. At(c, None, last) BY <1>0, <1>1, <2>1 DEF At
  <2> QED BY <2>2, <2>3, <2>4
<1>2. CASE c.state = "found"
  <2>1. c.file = f /\ f \in Dir /\ f \in File /\ (Entries[f] # <<>> => c.value = Value(f, 1))
    BY <1>2 DEF At
  <2>2. CASE t = "."
    <3>1. Token(c, p, i) = {c} /\ Into(f, t) = f BY <2>1, <2>2 DEF Token, Into
    <3>2. At(c, f, last) BY <1>2, <2>1 DEF At
    <3> QED BY <3>1, <3>2
  <2>3. CASE t = ".."
    <3>1. Into(f, t) = Above(f) BY <2>1, <2>3 DEF Into
    <3>2. Token(c, p, i) = {Reach(c, Above(f), last)} BY <1>2, <2>1, <2>3 DEF Token
    <3>3. Above(f) \in File BY <2>1, AboveIsDir, TreeAssumption
    <3> HIDE DEF last
    <3>4. Reach(c, Above(f), last) \in Cursor /\ At(Reach(c, Above(f), last), Above(f), last)
      BY <1>0, <1>2, <3>3, ReachLeads
    <3> QED BY <3>1, <3>2, <3>4 DEF last
  <2>4. CASE t # "." /\ t # ".."
    <3>1. Token(c, p, i) = Search(c, t, last) BY <1>2, <2>4 DEF Token
    <3>2. c.value = Value(c.file, 1) /\ c.file \in Dir /\ t \notin {".", ".."} BY <2>1, <2>4
    <3> HIDE DEF last, t
    <3>3. \/ Into(f, t) = None /\ Search(c, t, last) = {Stop(c, "failed")}
          \/ /\ Into(f, t) \in File
             /\ \E e \in Cursor : /\ e.state = "found" /\ e.file = c.file
                                  /\ Search(c, t, last) = {Reach(e, Into(f, t), last)}
      BY <1>0, <1>2, <2>1, <3>2, SearchFinds
    <3>4. CASE Into(f, t) = None /\ Search(c, t, last) = {Stop(c, "failed")}
      <4>1. Stop(c, "failed") \in Cursor /\ At(Stop(c, "failed"), None, last)
        BY <1>0, <2>1, StopType DEF At
      <4> QED BY <3>1, <3>4, <4>1 DEF last, t
    <3>5. ASSUME Into(f, t) \in File,
                 NEW e \in Cursor, e.state = "found", Search(c, t, last) = {Reach(e, Into(f, t), last)}
          PROVE  \E r \in Cursor : Token(c, p, i) = {r} /\ At(r, Into(f, p[i]), i = Len(p))
      <4>1. Reach(e, Into(f, t), last) \in Cursor /\ At(Reach(e, Into(f, t), last), Into(f, t), last)
        BY <1>0, <3>5, ReachLeads
      <4> QED BY <3>1, <3>5, <4>1 DEF last, t
    <3> QED BY <3>3, <3>4, <3>5
  <2> QED BY <2>2, <2>3, <2>4
<1> QED BY <1>1, <1>2 DEF At

(* The path that is looked up: without the empty token that makes it      *)
(* absolute.                                                               *)
Names(p) == IF p[1] = "" THEN Tail(p) ELSE p

LEMMA LookupLeads ==
  ASSUME NEW start \in Dir, NEW p \in Seq(TokenType), p # <<>>,
         ~ SearchesEmpty(start, Names(p))
  PROVE  /\ Names(p) \in Seq(TokenType)
         /\ Route(start, Names(p))[Len(Names(p))] \in File \cup {None}
         /\ \E c \in Cursor :
              /\ GetFile(start, p) = {c}
              /\ At(c, Route(start, Names(p))[Len(Names(p))], TRUE)
<1> DEFINE q == Names(p)
           o == IF p[1] = "" THEN 1 ELSE 0
           R == Route(start, q)
<1>1. start \in File BY TreeAssumption
<1>2. /\ q \in Seq(TokenType) /\ Len(q) = Len(p) - o /\ Len(q) \in Nat /\ Len(p) \in Nat \ {0}
      /\ \A k \in 1 .. Len(q) : q[k] = p[k + o]
  <2>1. Len(p) \in Nat \ {0} OBVIOUS
  <2>2. CASE p[1] = ""
    <3>1. q = Tail(p) /\ o = 1 BY <2>2 DEF Names
    <3> HIDE DEF q, o
    <3>2. q \in Seq(TokenType) /\ Len(q) = Len(p) - 1 BY <2>1, <3>1
    <3>3. \A k \in 1 .. Len(q) : q[k] = p[k + 1] BY <2>1, <3>1
    <3> QED BY <2>1, <3>1, <3>2, <3>3
  <2>3. CASE p[1] # ""
    <3>1. q = p /\ o = 0 BY <2>3 DEF Names
    <3> HIDE DEF q, o
    <3> QED BY <2>1, <3>1
  <2> QED BY <2>2, <2>3
<1>3. o \in {0, 1} OBVIOUS
<1>4. \A k \in 1 .. Len(q) : R[k - 1] \in Dir /\ Entries[R[k - 1]] = <<>> => q[k] \in {".", ".."}
  <2> HIDE DEF q, o
  <2>1. DOMAIN q = 1 .. Len(q) BY <1>2
  <2> QED BY <2>1 DEF SearchesEmpty, q
<1>5. p[1] = "" <=> o = 1
  <2>1. p[1] = "" => o = 1 OBVIOUS
  <2>2. p[1] # "" => o = 0 OBVIOUS
  <2>3. 0 # 1 OBVIOUS
  <2> HIDE DEF o
  <2> QED BY <2>1, <2>2, <2>3, Zenon
<1> HIDE DEF q, o
<1>6. /\ R \in [0 .. Len(q) -> File \cup {None}] /\ R[0] = start
      /\ \A k \in 1 .. Len(q) : R[k] = Into(R[k - 1], q[k])
  BY <1>1, <1>2, RouteRecursion
<1> HIDE DEF R
<1>7. PICK g : /\ g \in [0 .. Len(p) -> SUBSET Cursor] /\ GetFile(start, p) = g[Len(p)]
               /\ g[0] = {Begin(start)}
               /\ \A i \in 1 .. Len(p) : g[i] = UNION {Token(c, p, i) : c \in g[i - 1]}
  BY <1>1, GetFileRecursion
<1> DEFINE Good(k) == \E c \in Cursor : g[k + o] = {c} /\ At(c, R[k], k + o = Len(p))
           T == {k \in Nat : k <= Len(q) => Good(k)}
<1>8. \A last \in BOOLEAN : Begin(start) \in Cursor /\ At(Begin(start), start, last)
  <2>1. /\ Begin(start) \in Cursor /\ Begin(start).file = start /\ Begin(start).state = "found"
        /\ Begin(start).value = FirstValue(start, None)
    BY <1>1, BeginType
  <2>2. Entries[start] # <<>> => Begin(start).value = Value(start, 1)
    BY <2>1 DEF FirstValue
  <2> QED BY <1>1, <2>1, <2>2 DEF At
<1>9. 0 \in T
  <2>1. CASE o = 0
    <3>1. g[0 + o] = {Begin(start)} BY <1>7, <2>1
    <3> QED BY <1>6, <1>8, <3>1
  <2>2. CASE o = 1
    <3>1. 1 \in 1 .. Len(p) /\ 1 - 1 = 0 /\ 0 + o = 1 BY <1>2, <2>2
    <3>2. g[1] = UNION {Token(c, p, 1) : c \in {Begin(start)}} BY <1>7, <3>1
    <3>3. Token(Begin(start), p, 1) = {Begin(start)} BY <1>5, <2>2 DEF Token
    <3>4. g[0 + o] = {Begin(start)} BY <3>1, <3>2, <3>3
    <3> QED BY <1>6, <1>8, <3>4
  <2> QED BY <1>3, <2>1, <2>2
<1>10. ASSUME NEW k \in 1 .. Len(q), Good(k - 1) PROVE Good(k)
  <2> DEFINE i == k + o
  <2>1. i \in 1 .. Len(p) /\ i - 1 = k - 1 + o /\ k - 1 + o # Len(p) /\ k - 1 \in 0 .. Len(q)
    BY <1>2, <1>3
  <2>2. PICK c \in Cursor : g[k - 1 + o] = {c} /\ At(c, R[k - 1], FALSE) BY <1>10, <2>1
  <2>3. R[k - 1] \in File \cup {None} /\ R[k] = Into(R[k - 1], q[k]) /\ q[k] = p[i]
    BY <1>2, <1>6, <2>1
  <2>4. ~ (p[i] = "" /\ i = 1)
    <3>1. i = 1 => o # 1 BY <1>3
    <3> HIDE DEF i
    <3> QED BY <1>5, <3>1, Zenon
  <2>5. R[k - 1] \in Dir /\ Entries[R[k - 1]] = <<>> => p[i] \in {".", ".."} BY <1>4, <2>3
  <2>6. g[i] = UNION {Token(x, p, i) : x \in g[i - 1]} BY <1>7, <2>1
  <2> DEFINE f == R[k - 1]
  <2>7. g[i - 1] = {c} BY <2>1, <2>2
  <2> HIDE DEF i, f
  <2>8. PICK e \in Cursor : Token(c, p, i) = {e} /\ At(e, Into(f, p[i]), i = Len(p))
    BY <2>2, <2>3, <2>4, <2>5, TokenLeads DEF f
  <2>9. g[i] = {e} BY <2>6, <2>7, <2>8
  <2> QED BY <2>3, <2>8, <2>9 DEF i, f
<1>11. ASSUME NEW k \in Nat, k \in T PROVE k + 1 \in T
  <2> SUFFICES ASSUME k + 1 <= Len(q) PROVE Good(k + 1) OBVIOUS
  <2> DEFINE j == k + 1
  <2>1. j \in 1 .. Len(q) /\ j - 1 = k BY <1>2
  <2>2. Good(k) BY <1>2, <1>11
  <2> HIDE DEF Good, j
  <2>3. Good(j) BY <1>10, <2>1, <2>2
  <2> QED BY <2>3 DEF j
<1> HIDE DEF T
<1>12. Nat \subseteq T BY <1>9, <1>11, NatSetInduction
<1>13. Len(q) + o = Len(p) BY <1>2, <1>3
<1>14. Good(Len(q)) BY <1>2, <1>12 DEF T
<1>15. R[Len(q)] \in File \cup {None} BY <1>2, <1>6
<1>16. \E c \in Cursor : GetFile(start, p) = {c} /\ At(c, R[Len(q)], TRUE) BY <1>7, <1>13, <1>14
<1> QED BY <1>2, <1>15, <1>16 DEF R, q

(* A path leads where the entries of the directories lead and to nothing   *)
(* else, for any directories and paths: the value the search goes on from  *)
(* is the first of the directory the cursor is in, if that has entries.    *)
THEOREM LookupFollowsEntries == Spec => []LookupSound
<1>1. TypeOK => LookupSound
  <2> SUFFICES ASSUME TypeOK, NEW p \in Paths \ {<<>>}, NEW h \in Handle,
                      FirstFree(h), IsOpenDir(current_dir),
                      NEW start, start = IF p[1] = "" THEN Root ELSE Here,
                      NEW path, path = Names(p),
                      NEW target, target = Route(start, path)[Len(path)],
                      ~ SearchesEmpty(start, path)
               PROVE  {<<c.state, c.file>> : c \in Resolved(h, p)} \subseteq
                        {<<"found", target>>}
                        \cup {<<"failed", f>> : f \in IF target = None THEN File ELSE {}}
    BY DEF LookupSound, Names
  <2>1. Here \in Dir BY HereDir
  <2>2. p \in Seq(TokenType) /\ p # <<>> BY PathsAssumption DEF TokenType
  <2>3. Resolved(h, p) = GetFile(start, p)
    <3>1. CASE p[1] = ""
      <4>1. Root \in File BY TreeAssumption
      <4>2. Lookup[Root][p] = GetFile(Root, p) BY <4>1 DEF Lookup
      <4> QED BY <3>1, <4>2 DEF Resolved
    <3>2. CASE p[1] # ""
      <4>1. Here \in File /\ Here # None BY <2>1, TreeAssumption
      <4>2. current_dir # h /\ IsOpen(current_dir) BY DEF FirstFree, IsOpenDir, IsOpen
      <4>3. FromCurrent(h, p) = Lookup[Here][p] BY <4>1, <4>2 DEF FromCurrent, Here
      <4>4. Lookup[Here][p] = GetFile(Here, p) BY <4>1 DEF Lookup
      <4> QED BY <3>2, <4>3, <4>4 DEF Resolved
    <3> QED BY <3>1, <3>2
  <2>4. start \in Dir BY <2>1, TreeAssumption
  <2>5. PICK c \in Cursor : GetFile(start, p) = {c} /\ At(c, target, TRUE)
    BY <2>2, <2>4, LookupLeads
  <2>6. CASE c.state = "found" /\ c.file = target BY <2>3, <2>5, <2>6
  <2>7. CASE c.state = "failed" /\ c.file \in File /\ target = None
    <3>1. {<<e.state, e.file>> : e \in Resolved(h, p)} = {<<c.state, c.file>>} BY <2>3, <2>5
    <3>2. <<c.state, c.file>> \in {<<"failed", f>> : f \in File} BY <2>7
    <3> QED BY <2>7, <3>1, <3>2
  <2> QED BY <2>5, <2>6, <2>7 DEF At
<1> QED BY <1>1, TypeCorrect, PTL
-----------------------------------------------------------------------------
(* The path of a file: the first names on the way down from the root.      *)
Climb ==
  CHOOSE climb :
    climb = [n \in 0 .. Cardinality(File) |->
              [g \in File |->
                 IF n = 0 \/ Above(g) = Root THEN <<FirstName[g].name>>
                 ELSE Append(climb[n - 1][Above(g)], FirstName[g].name)]]

LEMMA FirstNameType ==
  ASSUME NEW f \in File
  PROVE  FirstName[f].name \in TokenType /\ Above(f) \in Dir /\ Above(f) \in File
<1>1. FirstName[f].name \in Name BY TreeAssumption
<1> QED BY <1>1, AboveIsDir, TreeAssumption DEF TokenType

LEMMA ClimbRecursion ==
  /\ \A n \in 0 .. Cardinality(File) : Climb[n] \in [File -> Seq(TokenType)]
  /\ \A n \in 0 .. Cardinality(File), f \in File :
       Climb[n][f] = IF n = 0 \/ Above(f) = Root THEN <<FirstName[f].name>>
                     ELSE Append(Climb[n - 1][Above(f)], FirstName[f].name)
<1> DEFINE N == Cardinality(File)
           S == [File -> Seq(TokenType)]
           Ends(n, f) == n = 0 \/ Above(f) = Root
           b == [f \in File |-> <<FirstName[f].name>>]
           To(x) == [f \in File |-> IF Above(f) = Root THEN <<FirstName[f].name>>
                                    ELSE Append(x[Above(f)], FirstName[f].name)]
           D == [x \in S \X (1 .. N) |-> To(x[1])]
           Sound(g) == g = [n \in 0 .. N |-> [f \in File |-> IF n = 0 \/ Above(f) = Root
                              THEN <<FirstName[f].name>>
                              ELSE Append(g[n - 1][Above(f)], FirstName[f].name)]]
           Steps(g) == g = [n \in 0 .. N |-> IF n = 0 THEN b ELSE To(g[n - 1])]
<1>1. N \in Nat BY FS_CardinalityType, FirstNamesAssumption
<1>2. \A f \in File : <<FirstName[f].name>> \in Seq(TokenType) BY FirstNameType
<1>3. b \in S BY <1>2
<1>4. \A x \in S : To(x) \in S
  <2> TAKE x \in S
  <2>1. \A f \in File : x[Above(f)] \in Seq(TokenType) BY FirstNameType
  <2>2. \A f \in File : Append(x[Above(f)], FirstName[f].name) \in Seq(TokenType)
    BY <2>1, FirstNameType
  <2> QED BY <1>2, <2>2
<1>5. Climb = CHOOSE g : Sound(g) BY DEF Climb
<1>6. \A g : Sound(g) <=> Steps(g)
  <2> TAKE g
  <2>1. ASSUME NEW n \in 0 .. N
        PROVE  [f \in File |-> IF n = 0 \/ Above(f) = Root THEN <<FirstName[f].name>>
                               ELSE Append(g[n - 1][Above(f)], FirstName[f].name)]
               = IF n = 0 THEN b ELSE To(g[n - 1])
    <3>1. CASE n = 0 BY <3>1
    <3>2. CASE n # 0 BY <3>2
    <3> QED BY <3>1, <3>2
  <2> HIDE DEF N, b, To
  <2> QED BY <2>1
<1> HIDE DEF N, S, b, Sound
<1>7. D \in [S \X (1 .. N) -> S] BY <1>4
<1>8. \A x \in S, n \in 1 .. N : D[<<x, n>>] = To(x) OBVIOUS
<1> HIDE DEF D, To
<1>9. PICK g : Unfolds(g, S, b, N, D) BY <1>1, <1>3, <1>7, Recursion
<1>10. g \in [0 .. N -> S] /\ g[0] = b /\ \A n \in 1 .. N : g[n] = D[<<g[n - 1], n>>]
  BY <1>9 DEF Unfolds
<1>11. \A n \in 1 .. N : g[n] = To(g[n - 1])
  <2> TAKE n \in 1 .. N
  <2>1. n - 1 \in 0 .. N BY <1>1
  <2>2. g[n - 1] \in S BY <1>10, <2>1
  <2> QED BY <1>8, <1>10, <2>2
<1>12. Steps(g)
  <2> SUFFICES ASSUME NEW n \in 0 .. N PROVE g[n] = IF n = 0 THEN b ELSE To(g[n - 1])
    BY <1>10
  <2>1. CASE n = 0 BY <1>10, <2>1
  <2>2. CASE n # 0
    <3>1. n \in 1 .. N BY <1>1, <2>2
    <3> QED BY <1>11, <2>2, <3>1
  <2> QED BY <2>1, <2>2
<1>13. Sound(Climb) /\ Steps(Climb)
  <2>1. Sound(g) BY <1>6, <1>12
  <2>2. Sound(Climb) BY <1>5, <2>1
  <2> QED BY <1>6, <2>2
<1>14. Climb[0] = b BY <1>1, <1>13
<1>15. \A n \in 1 .. N : Climb[n] = To(Climb[n - 1])
  <2> TAKE n \in 1 .. N
  <2>1. n \in 0 .. N /\ n # 0 BY <1>1
  <2>2. Climb[n] = IF n = 0 THEN b ELSE To(Climb[n - 1]) BY <1>13, <2>1, Zenon
  <2> QED BY <2>1, <2>2
<1>16. \A n \in 0 .. N : Climb[n] \in S
  <2> DEFINE T == {n \in Nat : n <= N => Climb[n] \in S}
  <2>1. 0 \in T BY <1>3, <1>14
  <2>2. ASSUME NEW n \in 1 .. N, Climb[n - 1] \in S PROVE Climb[n] \in S BY <1>4, <1>15, <2>2
  <2>3. ASSUME NEW n \in Nat, n \in T PROVE n + 1 \in T
    <3> SUFFICES ASSUME n + 1 <= N PROVE Climb[n + 1] \in S OBVIOUS
    <3>1. n + 1 \in 1 .. N /\ n + 1 - 1 = n BY <1>1
    <3>2. Climb[n] \in S BY <1>1, <2>3
    <3> QED BY <2>2, <3>1, <3>2
  <2> HIDE DEF T
  <2>4. Nat \subseteq T BY <2>1, <2>3, NatSetInduction
  <2> QED BY <1>1, <2>4 DEF T
<1>17. \A n \in 0 .. N, f \in File :
         Climb[n][f] = IF n = 0 \/ Above(f) = Root THEN <<FirstName[f].name>>
                       ELSE Append(Climb[n - 1][Above(f)], FirstName[f].name)
  <2> TAKE n \in 0 .. N
  <2>1. Climb[n] = [f \in File |-> IF n = 0 \/ Above(f) = Root THEN <<FirstName[f].name>>
                                  ELSE Append(Climb[n - 1][Above(f)], FirstName[f].name)]
    BY <1>13, Zenon DEF Sound
  <2> QED BY <2>1, Zenon
<1> QED BY <1>16, <1>17 DEF N, S

LEMMA AncestorRecursion ==
  /\ DOMAIN Ancestor = 0 .. Cardinality(File)
  /\ \A f \in File : Ancestor[0][f] = f
  /\ \A n \in 1 .. Cardinality(File), f \in File : Ancestor[n][f] = Ancestor[n - 1][Above(f)]
<1> DEFINE N == Cardinality(File)
           S == [File -> File]
           b == [f \in File |-> f]
           To(x) == [f \in File |-> x[Above(f)]]
           D == [x \in S \X (1 .. N) |-> To(x[1])]
           Sound(g) == g = [n \in 0 .. N |-> [f \in File |-> IF n = 0 THEN f ELSE g[n - 1][Above(f)]]]
           A == Ancestor
<1>1. N \in Nat BY FS_CardinalityType, FirstNamesAssumption
<1>2. b \in S OBVIOUS
<1>3. \A x \in S : To(x) \in S BY FirstNameType
<1>4. A = CHOOSE g : Sound(g) BY DEF Ancestor
<1> HIDE DEF N, S
<1>5. D \in [S \X (1 .. N) -> S] BY <1>3
<1>6. \A x \in S, n \in 1 .. N : D[<<x, n>>] = To(x) OBVIOUS
<1> HIDE DEF D
<1>7. PICK g : Unfolds(g, S, b, N, D)
  <2> HIDE DEF b
  <2> QED BY <1>1, <1>2, <1>5, Recursion
<1>8. g \in [0 .. N -> S] /\ g[0] = b /\ \A n \in 1 .. N : g[n] = D[<<g[n - 1], n>>]
  BY <1>7 DEF Unfolds
<1>9. \A n \in 1 .. N : g[n] = To(g[n - 1])
  <2> TAKE n \in 1 .. N
  <2>1. n - 1 \in 0 .. N BY <1>1
  <2>2. g[n - 1] \in S BY <1>8, <2>1
  <2> QED BY <1>6, <1>8, <2>2
<1>10. Sound(g)
  <2> SUFFICES ASSUME NEW n \in 0 .. N
               PROVE  g[n] = [f \in File |-> IF n = 0 THEN f ELSE g[n - 1][Above(f)]]
    BY <1>8
  <2>1. CASE n = 0 BY <1>8, <2>1
  <2>2. CASE n # 0
    <3>1. n \in 1 .. N BY <1>1, <2>2
    <3>2. g[n] = To(g[n - 1]) BY <1>9, <3>1
    <3> QED BY <2>2, <3>2
  <2> QED BY <2>1, <2>2
<1>11. Sound(A) BY <1>4, <1>10
<1>12. DOMAIN A = 0 .. N BY <1>11
<1> HIDE DEF A
<1>13. \A n \in 0 .. N, f \in File : A[n][f] = IF n = 0 THEN f ELSE A[n - 1][Above(f)]
  <2> TAKE n \in 0 .. N
  <2>1. A[n] = [f \in File |-> IF n = 0 THEN f ELSE A[n - 1][Above(f)]] BY <1>11, Zenon
  <2> QED BY <2>1, Zenon
<1>14. \A f \in File : A[0][f] = f
  <2>1. 0 \in 0 .. N BY <1>1
  <2> QED BY <1>13, <2>1
<1>15. \A n \in 1 .. N, f \in File : A[n][f] = A[n - 1][Above(f)]
  <2> TAKE n \in 1 .. N, f \in File
  <2>1. n \in 0 .. N /\ n # 0 BY <1>1
  <2> QED BY <1>13, <2>1, Zenon
<1> QED BY <1>12, <1>14, <1>15 DEF A, N

LEMMA RoutePrefix ==
  ASSUME NEW start \in File, NEW p \in Seq(TokenType), NEW x \in TokenType
  PROVE  /\ \A k \in 0 .. Len(p) : Route(start, Append(p, x))[k] = Route(start, p)[k]
         /\ Route(start, Append(p, x))[Len(p) + 1] = Into(Route(start, p)[Len(p)], x)
<1> DEFINE q == Append(p, x)
           N == Len(p)
           Q == Route(start, q)
           P == Route(start, p)
           T == {k \in Nat : k <= N => Q[k] = P[k]}
<1>1. /\ q \in Seq(TokenType) /\ Len(q) = N + 1 /\ N \in Nat /\ q[N + 1] = x
      /\ \A k \in 1 .. N : q[k] = p[k]
  OBVIOUS
<1> HIDE DEF q, N
<1>2. Q[0] = start /\ \A k \in 1 .. N + 1 : Q[k] = Into(Q[k - 1], q[k])
  BY <1>1, RouteRecursion
<1>3. P[0] = start /\ \A k \in 1 .. N : P[k] = Into(P[k - 1], p[k])
  BY RouteRecursion DEF N
<1> HIDE DEF P, Q
<1>4. 0 \in T BY <1>2, <1>3
<1>5. ASSUME NEW k \in 1 .. N, Q[k - 1] = P[k - 1] PROVE Q[k] = P[k]
  <2>1. k \in 1 .. N + 1 BY <1>1
  <2> QED BY <1>1, <1>2, <1>3, <1>5, <2>1
<1>6. ASSUME NEW k \in Nat, k \in T PROVE k + 1 \in T
  <2> SUFFICES ASSUME k + 1 <= N PROVE Q[k + 1] = P[k + 1] OBVIOUS
  <2>1. k + 1 \in 1 .. N /\ k + 1 - 1 = k BY <1>1
  <2>2. Q[k] = P[k] BY <1>1, <1>6
  <2> QED BY <1>5, <2>1, <2>2
<1> HIDE DEF T
<1>7. Nat \subseteq T BY <1>4, <1>6, NatSetInduction
<1>8. \A k \in 0 .. N : Q[k] = P[k] BY <1>1, <1>7 DEF T
<1>9. Q[N + 1] = Into(P[N], x)
  <2> DEFINE m == N + 1
  <2>1. m \in 1 .. N + 1 /\ m - 1 = N /\ q[m] = x /\ N \in 0 .. N BY <1>1
  <2> HIDE DEF m
  <2>2. Q[m] = Into(Q[m - 1], q[m]) BY <1>2, <2>1
  <2>3. Q[m] = Into(P[N], x) BY <1>8, <2>1, <2>2
  <2> QED BY <2>3 DEF m
<1> QED BY <1>8, <1>9 DEF P, Q, q, N

LEMMA RootName == Above(Root) = Root /\ FirstName[Root].name = "."
<1>1. FirstName[Root] = [name |-> ".", dir |-> Root] BY TreeAssumption
<1> QED BY <1>1 DEF Above

(* A first name is in the directory above: that has entries, and if the    *)
(* name is not among them, none of them has it.                            *)
LEMMA FirstNameIs ==
  ASSUME NEW f \in File
  PROVE  /\ Entries[Above(f)] # <<>>
         /\ ~ IsListed(f) =>
              \A i \in DOMAIN Entries[Above(f)] : Entries[Above(f)][i].name # FirstName[f].name
<1> DEFINE d == Above(f)
           x == [name |-> FirstName[f].name, file |-> f]
<1>1. d \in Dir /\ x \in ToSet(Entries[d]) \cup Unlisted[d] BY AboveIsDir, TreeAssumption
<1>2. IsListed(f) <=> x \in ToSet(Entries[d]) BY DEF IsListed
<1>3. x.name = FirstName[f].name OBVIOUS
<1> HIDE DEF d, x
<1>4. CASE x \in ToSet(Entries[d])
  <2>1. Entries[d] # <<>> BY <1>4 DEF ToSet
  <2> QED BY <1>2, <1>4, <2>1 DEF d
<1>5. CASE x \in Unlisted[d]
  <2>1. d \notin Small BY <1>5, TreeAssumption
  <2>2. Entries[d] # <<>> BY <1>1, <2>1, TreeAssumption
  <2>3. \A i \in DOMAIN Entries[d] : Entries[d][i].name # x.name
    BY <1>1, <1>5, NamesAssumption
  <2> QED BY <1>3, <2>2, <2>3 DEF d
<1> QED BY <1>1, <1>4, <1>5

(* From the directory above, the first name of a file leads to it, or to   *)
(* nothing if it is not among the entries.                                 *)
LEMMA FirstNameLeads ==
  ASSUME NEW f \in File
  PROVE  Into(Above(f), FirstName[f].name) = IF f = Root \/ IsListed(f) THEN f ELSE None
<1> DEFINE d == Above(f)
           t == FirstName[f].name
           hits == {e \in ToSet(Entries[d]) : e.name = t}
           x == [name |-> t, file |-> f]
<1>1. d \in Dir /\ t # ".." BY AboveIsDir, TreeAssumption
<1>2. CASE f = Root
  <2>1. d = Root /\ t = "." BY <1>2, RootName
  <2> QED BY <1>1, <1>2, <2>1 DEF Into
<1>3. ASSUME f # Root
      PROVE  Into(d, t) = IF hits = {} THEN None ELSE (CHOOSE e \in hits : TRUE).file
  <2>1. t # "." BY <1>3, FirstNamesAssumption
  <2> QED BY <1>1, <2>1 DEF Into
<1>4. CASE f # Root /\ IsListed(f)
  <2>1. PICK i \in DOMAIN Entries[d] : x = Entries[d][i] BY <1>4 DEF ToSet, IsListed
  <2>2. x.name = t /\ x.file = f OBVIOUS
  <2>3. Entries[d][i].name = t /\ x \in hits
    <3>1. x \in ToSet(Entries[d]) BY <1>4 DEF IsListed
    <3> QED BY <2>1, <2>2, <3>1
  <2>4. \A e \in hits : e = x
    <3> TAKE e \in hits
    <3>1. PICK j \in DOMAIN Entries[d] : e = Entries[d][j] /\ Entries[d][j].name = t
      BY DEF ToSet
    <3> HIDE DEF x, d, t
    <3>2. Entries[d][i].name = Entries[d][j].name BY <2>3, <3>1
    <3>3. i = j BY <1>1, <3>1, <3>2, NamesAssumption
    <3> QED BY <2>1, <3>1, <3>3
  <2> HIDE DEF hits, x, d, t
  <2>5. hits = {x} BY <2>3, <2>4
  <2>6. Into(d, t) = x.file BY <1>3, <1>4, <2>5
  <2> QED BY <1>4, <2>2, <2>6 DEF d, t
<1>5. CASE f # Root /\ ~ IsListed(f)
  <2>1. hits = {} BY <1>5, FirstNameIs DEF ToSet
  <2> HIDE DEF hits, d, t
  <2> QED BY <1>3, <1>5, <2>1 DEF d, t
<1> QED BY <1>2, <1>4, <1>5

Leads(q, f) ==
  /\ q \in Seq(TokenType)
  /\ Route(Root, q)[Len(q)] = f
  /\ ~ SearchesEmpty(Root, q)

(* One more name.                                                          *)
LEMMA LeadsInto ==
  ASSUME NEW d \in File \cup {None}, NEW q, Leads(q, d), NEW t \in TokenType,
         d \in Dir => Entries[d] # <<>>
  PROVE  Leads(Append(q, t), Into(d, t))
<1> DEFINE r == Append(q, t)
           N == Len(q)
<1>0. q \in Seq(TokenType) /\ Route(Root, q)[N] = d /\ ~ SearchesEmpty(Root, q)
  BY DEF Leads
<1>1. /\ q \in Seq(TokenType) /\ Root \in File /\ N \in Nat
      /\ Route(Root, q)[N] = d /\ ~ SearchesEmpty(Root, q)
  <2>1. N \in Nat BY <1>0
  <2> QED BY <1>0, <2>1, TreeAssumption
<1>2. /\ \A k \in 0 .. N : Route(Root, r)[k] = Route(Root, q)[k]
      /\ Route(Root, r)[N + 1] = Into(d, t)
  BY <1>1, RoutePrefix
<1>3. r \in Seq(TokenType) /\ Len(r) = N + 1 /\ \A k \in 1 .. N : r[k] = q[k] BY <1>1
<1>4. DOMAIN q = 1 .. N /\ DOMAIN r = 1 .. N + 1 BY <1>1, <1>3
<1> HIDE DEF r, N
<1>5. Route(Root, r)[Len(r)] = Into(d, t) BY <1>2, <1>3
<1>6. ~ SearchesEmpty(Root, r)
  <2> SUFFICES ASSUME NEW i \in 1 .. N + 1, Route(Root, r)[i - 1] \in Dir,
                      Entries[Route(Root, r)[i - 1]] = <<>>, r[i] \notin {".", ".."}
               PROVE  FALSE
    BY <1>4 DEF SearchesEmpty
  <2>1. i - 1 \in 0 .. N BY <1>1
  <2> DEFINE e == Route(Root, q)[i - 1]
  <2>2. e \in Dir /\ Entries[e] = <<>> BY <1>2, <2>1
  <2>3. CASE i \in 1 .. N
    <3>1. q[i] \notin {".", ".."} BY <1>3, <2>3
    <3> QED BY <1>1, <1>4, <2>2, <2>3, <3>1 DEF SearchesEmpty
  <2>4. CASE i = N + 1
    <3>1. i - 1 = N BY <1>1, <2>4
    <3> QED BY <1>1, <2>2, <3>1
  <2> QED BY <1>1, <2>3, <2>4
<1> QED BY <1>3, <1>5, <1>6 DEF Leads, r

(* Where the first names of g and of those above it lead, n levels up: to  *)
(* nothing if one of them is not among the entries.                        *)
Way(n, g) == \A k \in 0 .. n : Ancestor[k][g] = Root \/ IsListed(Ancestor[k][g])

Aim(n, g) == IF Way(n, g) THEN g ELSE None

LEMMA AncestorOfRoot ==
  \A n \in 0 .. Cardinality(File) : Ancestor[n][Root] = Root
<1> DEFINE N == Cardinality(File)
           T == {n \in Nat : n <= N => Ancestor[n][Root] = Root}
<1>1. N \in Nat BY FS_CardinalityType, FirstNamesAssumption
<1>2. Root \in File /\ Above(Root) = Root BY RootName, TreeAssumption
<1>3. /\ Ancestor[0][Root] = Root
      /\ \A n \in 1 .. N : Ancestor[n][Root] = Ancestor[n - 1][Root]
  BY <1>2, AncestorRecursion
<1> HIDE DEF N
<1>4. 0 \in T BY <1>3
<1>5. ASSUME NEW n \in Nat, n \in T PROVE n + 1 \in T
  <2> SUFFICES ASSUME n + 1 <= N PROVE Ancestor[n + 1][Root] = Root OBVIOUS
  <2>1. n + 1 \in 1 .. N /\ n + 1 - 1 = n /\ n <= N BY <1>1
  <2>2. Ancestor[n + 1][Root] = Ancestor[n][Root] BY <1>3, <2>1
  <2> QED BY <1>5, <2>1, <2>2
<1> HIDE DEF T
<1>6. Nat \subseteq T BY <1>4, <1>5, NatSetInduction
<1> QED BY <1>1, <1>6 DEF T, N

LEMMA WayRecursion ==
  ASSUME NEW n \in 1 .. Cardinality(File), NEW g \in File
  PROVE  /\ Way(n, g) <=> (g = Root \/ IsListed(g)) /\ Way(n - 1, Above(g))
         /\ Above(g) = Root => Way(n - 1, Above(g))
<1> DEFINE N == Cardinality(File)
           d == Above(g)
           Fits(f) == f = Root \/ IsListed(f)
<1>1. N \in Nat /\ n \in Nat BY FS_CardinalityType, FirstNamesAssumption
<1>2. Ancestor[0][g] = g BY AncestorRecursion
<1>3. \A k \in 1 .. n : Ancestor[k][g] = Ancestor[k - 1][d]
  <2> TAKE k \in 1 .. n
  <2>1. k \in 1 .. N BY <1>1
  <2> QED BY <2>1, AncestorRecursion
<1>4. Way(n, g) <=> \A k \in 0 .. n : Fits(Ancestor[k][g]) BY DEF Way
<1>5. Way(n - 1, d) <=> \A k \in 0 .. n - 1 : Fits(Ancestor[k][d]) BY DEF Way
<1>6. n \in 1 .. N OBVIOUS
<1> HIDE DEF N, d, Fits
<1>7. ASSUME Way(n, g) PROVE Fits(g) /\ Way(n - 1, d)
  <2>1. 0 \in 0 .. n BY <1>1
  <2>2. Fits(g) BY <1>2, <1>4, <1>7, <2>1
  <2>3. ASSUME NEW k \in 0 .. n - 1 PROVE Fits(Ancestor[k][d])
    <3> DEFINE j == k + 1
    <3>1. j \in 1 .. n /\ j \in 0 .. n /\ j - 1 = k BY <1>1
    <3> HIDE DEF j
    <3>2. Ancestor[j][g] = Ancestor[k][d] BY <1>3, <3>1
    <3> QED BY <1>4, <1>7, <3>1, <3>2
  <2> QED BY <1>5, <2>2, <2>3
<1>8. ASSUME Fits(g), Way(n - 1, d) PROVE Way(n, g)
  <2> SUFFICES ASSUME NEW k \in 0 .. n PROVE Fits(Ancestor[k][g]) BY <1>4
  <2>1. CASE k = 0 BY <1>2, <1>8, <2>1
  <2>2. CASE k # 0
    <3>1. k \in 1 .. n /\ k - 1 \in 0 .. n - 1 BY <1>1, <2>2
    <3> QED BY <1>3, <1>5, <1>8, <3>1
  <2> QED BY <2>1, <2>2
<1>9. ASSUME d = Root PROVE Way(n - 1, d)
  <2> SUFFICES ASSUME NEW k \in 0 .. n - 1 PROVE Fits(Ancestor[k][d]) BY <1>5
  <2>1. k \in 0 .. N BY <1>1, <1>6
  <2>2. Ancestor[k][d] = Root BY <1>9, <2>1, AncestorOfRoot DEF N
  <2> QED BY <2>2 DEF Fits
<1> QED BY <1>7, <1>8, <1>9 DEF Fits, d

(* One more first name: it leads on from what those above lead to.         *)
LEMMA LeadsOn ==
  ASSUME NEW n \in 1 .. Cardinality(File), NEW g \in File,
         NEW q, Leads(q, Aim(n - 1, Above(g)))
  PROVE  Leads(Append(q, FirstName[g].name), Aim(n, g))
<1> DEFINE t == FirstName[g].name
           d == Above(g)
           a == Aim(n - 1, d)
<1>1. t \in TokenType /\ d \in Dir /\ d \in File BY FirstNameType
<1>2. a \in {d, None} BY DEF Aim
<1>3. None \notin Dir BY TreeAssumption
<1>4. Entries[d] # <<>> /\ Into(d, t) = IF g = Root \/ IsListed(g) THEN g ELSE None
  BY FirstNameIs, FirstNameLeads
<1>5. Into(None, t) = None BY <1>3 DEF Into
<1>6. Way(n, g) <=> (g = Root \/ IsListed(g)) /\ Way(n - 1, d) BY WayRecursion
<1>7. Into(a, t) = Aim(n, g)
  <2>1. CASE Way(n - 1, d)
    <3>1. a = d BY <2>1 DEF Aim
    <3> QED BY <1>4, <1>6, <2>1, <3>1 DEF Aim
  <2>2. CASE ~ Way(n - 1, d)
    <3>1. a = None BY <2>2 DEF Aim
    <3> QED BY <1>5, <1>6, <2>2, <3>1 DEF Aim
  <2> QED BY <2>1, <2>2
<1>8. Leads(q, a) OBVIOUS
<1> HIDE DEF a, d, t
<1>9. a \in File \cup {None} /\ (a \in Dir => Entries[a] # <<>>) BY <1>1, <1>2, <1>3, <1>4
<1>10. Leads(Append(q, t), Into(a, t)) BY <1>1, <1>8, <1>9, LeadsInto
<1> QED BY <1>7, <1>10 DEF t

LEMMA ClimbLeads ==
  ASSUME NEW f \in File
  PROVE  Leads(Climb[Cardinality(File)][f], Aim(Cardinality(File), f))
<1> DEFINE N == Cardinality(File)
           Good(n) == \A g \in File : Ancestor[n][g] = Root => Leads(Climb[n][g], Aim(n, g))
           T == {n \in Nat : n <= N => Good(n)}
<1>1. N \in Nat BY FS_CardinalityType, FirstNamesAssumption
<1>2. /\ \A n \in 0 .. N, g \in File :
           Climb[n][g] = IF n = 0 \/ Above(g) = Root THEN <<FirstName[g].name>>
                         ELSE Append(Climb[n - 1][Above(g)], FirstName[g].name)
      /\ \A g \in File : Ancestor[0][g] = g
      /\ \A n \in 1 .. N, g \in File : Ancestor[n][g] = Ancestor[n - 1][Above(g)]
  BY ClimbRecursion, AncestorRecursion
<1>3. \A g \in File : Ancestor[N][g] = Root BY FirstNamesAssumption
<1>4. Root \in File /\ Above(Root) = Root /\ FirstName[Root].name \in TokenType
  BY RootName, FirstNameType, TreeAssumption
<1>5. \A n \in 1 .. N, g \in File : Above(g) = Root => Aim(n - 1, Above(g)) = Root
  BY WayRecursion DEF Aim
<1>6. \A n \in 1 .. N, g \in File : \A q :
        Leads(q, Aim(n - 1, Above(g))) => Leads(Append(q, FirstName[g].name), Aim(n, g))
  BY LeadsOn
<1> HIDE DEF N
<1>7. Leads(<<>>, Root)
  <2>1. <<>> \in Seq(TokenType) /\ Len(<<>>) = 0 /\ DOMAIN <<>> = {} OBVIOUS
  <2>2. Route(Root, <<>>)[Len(<<>>)] = Root BY <1>4, <2>1, RouteRecursion
  <2>3. ~ SearchesEmpty(Root, <<>>) BY <2>1 DEF SearchesEmpty
  <2> QED BY <2>1, <2>2, <2>3 DEF Leads
<1>8. \A x : Append(<<>>, x) = <<x>> OBVIOUS
<1>9. 0 \in T
  <2> SUFFICES ASSUME NEW g \in File, Ancestor[0][g] = Root PROVE Leads(Climb[0][g], Aim(0, g))
    OBVIOUS
  <2>1. g = Root BY <1>2
  <2>2. 0 \in 0 .. N BY <1>1
  <2>3. Climb[0][g] = <<FirstName[Root].name>> BY <1>2, <2>1, <2>2
  <2>4. Aim(0, g) = Root
    <3>1. \A k \in 0 .. 0 : k = 0 OBVIOUS
    <3> QED BY <1>2, <2>1, <3>1 DEF Aim, Way
  <2>5. Into(Root, FirstName[Root].name) = Root BY <1>4, FirstNameLeads
  <2>6. Entries[Root] # <<>> BY <1>4, FirstNameIs
  <2>7. Leads(Append(<<>>, FirstName[Root].name), Into(Root, FirstName[Root].name))
    BY <1>4, <1>7, <2>6, LeadsInto
  <2> QED BY <1>8, <2>3, <2>4, <2>5, <2>7
<1>10. ASSUME NEW n \in 1 .. N, Good(n - 1) PROVE Good(n)
  <2> SUFFICES ASSUME NEW g \in File, Ancestor[n][g] = Root PROVE Leads(Climb[n][g], Aim(n, g))
    OBVIOUS
  <2>1. n \in 0 .. N /\ n # 0 BY <1>1
  <2>2. Climb[n][g] = IF n = 0 \/ Above(g) = Root THEN <<FirstName[g].name>>
                      ELSE Append(Climb[n - 1][Above(g)], FirstName[g].name)
    BY <1>2, <2>1
  <2>3. CASE Above(g) = Root
    <3>1. Climb[n][g] = Append(<<>>, FirstName[g].name) BY <1>8, <2>2, <2>3
    <3> QED BY <1>5, <1>6, <1>7, <2>3, <3>1
  <2>4. CASE Above(g) # Root
    <3>1. Above(g) \in File /\ Ancestor[n - 1][Above(g)] = Root BY <1>2, FirstNameType
    <3>2. Leads(Climb[n - 1][Above(g)], Aim(n - 1, Above(g))) BY <1>10, <3>1
    <3>3. Climb[n][g] = Append(Climb[n - 1][Above(g)], FirstName[g].name) BY <2>1, <2>2, <2>4
    <3> QED BY <1>6, <3>2, <3>3
  <2> QED BY <2>3, <2>4
<1>11. ASSUME NEW n \in Nat, n \in T PROVE n + 1 \in T
  <2> SUFFICES ASSUME n + 1 <= N PROVE Good(n + 1) OBVIOUS
  <2> DEFINE j == n + 1
  <2>1. j \in 1 .. N /\ j - 1 = n BY <1>1
  <2>2. Good(n) BY <1>1, <1>11
  <2> HIDE DEF Good, j
  <2>3. Good(j) BY <1>10, <2>1, <2>2
  <2> QED BY <2>3 DEF j
<1> HIDE DEF T
<1>12. Nat \subseteq T BY <1>9, <1>11, NatSetInduction
<1>13. Good(N) BY <1>1, <1>12 DEF T
<1> QED BY <1>3, <1>13 DEF N

LEMMA Prepend ==
  ASSUME NEW S, NEW x \in S, NEW q \in Seq(S)
  PROVE  /\ <<x>> \o q \in Seq(S) /\ <<x>> \o q # <<>>
         /\ (<<x>> \o q)[1] = x /\ Tail(<<x>> \o q) = q
<1> DEFINE p == <<x>> \o q
<1>1. p \in Seq(S) /\ Len(p) = Len(q) + 1 /\ p[1] = x OBVIOUS
<1>2. \A i \in 1 .. Len(q) : p[i + 1] = q[i] OBVIOUS
<1> HIDE DEF p
<1>3. Tail(p) \in Seq(S) /\ Len(Tail(p)) = Len(q) BY <1>1
<1>4. \A i \in 1 .. Len(q) : Tail(p)[i] = q[i] BY <1>1, <1>2
<1>5. Tail(p) = q BY <1>3, <1>4
<1>6. p # <<>> BY <1>1
<1> QED BY <1>1, <1>5, <1>6 DEF p

(* The path that ls prints, typed in, leads to the file if the first names *)
(* on its way are among the entries that are read, and to nothing if one   *)
(* of them is not, for any directories whose first names lead up to the    *)
(* root.                                                                   *)
THEOREM PrintedPathLeadsBack == Spec => []PathLeadsBack
<1>1. TypeOK => PathLeadsBack
  <2> DEFINE f == Current
             N == Cardinality(File)
             g == Aim(N, f)
             q == Climb[N][f]
             p == <<"">> \o q
             listed == \A x \in OnTheWay(f) : IsListed(x)
  <2> SUFFICES ASSUME TypeOK, pc = "show"
               PROVE  IF listed
                        THEN {<<c.state, c.file>> : c \in GetFile(Root, PathOf(f))} = {<<"found", f>>}
                        ELSE {c.state : c \in GetFile(Root, PathOf(f))} = {"failed"}
    BY DEF PathLeadsBack
  <2>1. f \in File BY CurrentIs DEF TypeOK
  <2>2. PathOf(f) = p BY DEF PathOf, Climb
  <2>3. q \in Seq(TokenType) /\ Route(Root, q)[Len(q)] = g /\ ~ SearchesEmpty(Root, q)
    BY <2>1, ClimbLeads DEF Leads
  <2>4. g = IF listed THEN f ELSE None
    <3>1. DOMAIN Ancestor = 0 .. N BY AncestorRecursion
    <3>2. listed <=> Way(N, f) BY <3>1 DEF OnTheWay, Way
    <3> QED BY <3>2 DEF Aim
  <2> HIDE DEF q, g, listed
  <2>5. p \in Seq(TokenType) /\ p # <<>> /\ p[1] = "" /\ Tail(p) = q
    <3>1. "" \in TokenType BY DEF TokenType
    <3> QED BY <2>3, <3>1, Prepend
  <2> HIDE DEF p, f
  <2>6. Names(p) = q BY <2>5 DEF Names
  <2>7. Root \in Dir /\ f # None BY <2>1, TreeAssumption
  <2>8. PICK c \in Cursor : GetFile(Root, p) = {c} /\ At(c, g, TRUE)
    BY <2>3, <2>5, <2>6, <2>7, LookupLeads
  <2>9. CASE listed
    <3>1. c.state = "found" /\ c.file = f BY <2>4, <2>7, <2>8, <2>9 DEF At
    <3> QED BY <2>2, <2>8, <2>9, <3>1
  <2>10. CASE ~ listed
    <3>1. None \notin File BY TreeAssumption
    <3>2. c.state = "failed" BY <2>4, <2>8, <2>10, <3>1 DEF At, Cursor
    <3> QED BY <2>2, <2>8, <2>10, <3>2
  <2> QED BY <2>9, <2>10
<1> QED BY <1>1, TypeCorrect, PTL
----------------------------------------------------------------------------
(* Why ls ends.  The directories that the walk came through are the ones   *)
(* above the directory it is in.                                           *)
LEMMA StackAbove ==
  ASSUME NEW w \in WalkType, NEW s, Stack(w, s)
  PROVE  /\ w.depth \in Nat /\ s \in [0 .. w.depth -> File]
         /\ \A j \in 1 .. w.depth : Above(s[j]) = s[j - 1] /\ s[j] # Root
<1> DEFINE n == w.depth
<1>1. /\ s \in [0 .. n -> Dir]
      /\ \A j \in 1 .. n :
           /\ w.indices[j] \in DOMAIN Entries[s[j - 1]]
           /\ Entries[s[j - 1]][w.indices[j]].file = s[j] /\ s[j] # Root
  BY DEF Stack
<1>2. n \in Nat BY DEF WalkType
<1> HIDE DEF n
<1>3. ASSUME NEW j \in 1 .. n PROVE Above(s[j]) = s[j - 1]
  <2>1. s[j - 1] \in Dir /\ s[j] \in Dir BY <1>1, <1>2
  <2> DEFINE i == w.indices[j]
  <2>2. i \in DOMAIN Entries[s[j - 1]] /\ Entries[s[j - 1]][i].file = s[j] /\ s[j] # Root
    BY <1>1
  <2> HIDE DEF i
  <2> QED BY <2>1, <2>2, NamesAssumption
<1>4. s \in [0 .. n -> File] BY <1>1, TreeAssumption
<1> QED BY <1>1, <1>2, <1>3, <1>4 DEF n

LEMMA AncestorStep ==
  ASSUME NEW m \in Nat, m + 1 <= Cardinality(File), NEW f \in File
  PROVE  Ancestor[m + 1][f] = Ancestor[m][Above(f)]
<1> DEFINE x == m + 1
<1>1. x \in 1 .. Cardinality(File) /\ x - 1 = m
  BY FS_CardinalityType, FirstNamesAssumption
<1> HIDE DEF x
<1>2. Ancestor[x][f] = Ancestor[x - 1][Above(f)] BY <1>1, AncestorRecursion
<1> QED BY <1>1, <1>2 DEF x

LEMMA AncestorIsStack ==
  ASSUME NEW w \in WalkType, NEW s, Stack(w, s), NEW m \in 0 .. w.depth, m <= Cardinality(File)
  PROVE  Ancestor[m][s[w.depth]] = s[w.depth - m]
<1> DEFINE n == w.depth
           N == Cardinality(File)
           T == {k \in Nat : k <= n /\ k <= N => \A j \in k .. n : Ancestor[k][s[j]] = s[j - k]}
<1>1. /\ n \in Nat /\ s \in [0 .. n -> File]
      /\ \A j \in 1 .. n : Above(s[j]) = s[j - 1]
  BY StackAbove
<1>2. m \in 0 .. n /\ m <= N OBVIOUS
<1> HIDE DEF n, N
<1>3. 0 \in T
  <2>1. \A j \in 0 .. n : Ancestor[0][s[j]] = s[j] BY <1>1, AncestorRecursion
  <2>2. \A j \in 0 .. n : j - 0 = j OBVIOUS
  <2> QED BY <2>1, <2>2
<1>4. ASSUME NEW k \in Nat, k \in T PROVE k + 1 \in T
  <2> SUFFICES ASSUME k + 1 <= n, k + 1 <= N, NEW j \in k + 1 .. n
               PROVE  Ancestor[k + 1][s[j]] = s[j - (k + 1)]
    OBVIOUS
  <2>1. N \in Nat BY FS_CardinalityType, FirstNamesAssumption DEF N
  <2>2. /\ j \in 1 .. n /\ j \in 0 .. n /\ j - 1 \in k .. n /\ j - 1 - k = j - (k + 1)
        /\ k <= n /\ k <= N
    BY <1>1, <2>1
  <2>3. Ancestor[k + 1][s[j]] = Ancestor[k][Above(s[j])] BY <1>1, <2>2, AncestorStep DEF N
  <2>4. Ancestor[k][s[j - 1]] = s[j - 1 - k] BY <1>4, <2>2
  <2> QED BY <1>1, <2>2, <2>3, <2>4
<1> HIDE DEF T
<1>5. Nat \subseteq T BY <1>3, <1>4, NatSetInduction
<1>6. m \in Nat /\ n \in m .. n BY <1>1, <1>2
<1>7. m \in T BY <1>5, <1>6
<1> QED BY <1>2, <1>6, <1>7 DEF T, n

(* A walk never comes back to a directory above: the first names would     *)
(* lead around and not to the root.                                        *)
LEMMA NoWayAround ==
  ASSUME NEW w \in WalkType, NEW s, Stack(w, s), w.depth # 0
  PROVE  w.dir # w.start
<1> DEFINE n == w.depth
           N == Cardinality(File)
           Seen == {s[i] : i \in 1 .. n}
           T == {k \in Nat : k <= N => \A j \in 1 .. n : Ancestor[k][s[j]] \in Seen}
<1> SUFFICES ASSUME w.dir = w.start PROVE FALSE OBVIOUS
<1>1. /\ n \in Nat \ {0} /\ s \in [0 .. n -> File]
      /\ \A j \in 1 .. n : Above(s[j]) = s[j - 1] /\ s[j] # Root
  BY StackAbove
<1>2. s[0] = s[n] BY DEF Stack
<1>3. N \in Nat /\ \A f \in File : Ancestor[N][f] = Root
  BY FS_CardinalityType, FirstNamesAssumption
<1> HIDE DEF n, N
<1>4. \A j \in 1 .. n : \E i \in 1 .. n : Above(s[j]) = s[i]
  <2> TAKE j \in 1 .. n
  <2>1. CASE j = 1
    <3>1. Above(s[j]) = s[n] /\ n \in 1 .. n BY <1>1, <1>2, <2>1
    <3> QED BY <3>1
  <2>2. CASE j # 1
    <3>1. j - 1 \in 1 .. n BY <1>1, <2>2
    <3> QED BY <1>1, <3>1
  <2> QED BY <2>1, <2>2
<1>5. 0 \in T BY <1>1, AncestorRecursion
<1>6. ASSUME NEW k \in Nat, k \in T PROVE k + 1 \in T
  <2> SUFFICES ASSUME k + 1 <= N, NEW j \in 1 .. n PROVE Ancestor[k + 1][s[j]] \in Seen
    OBVIOUS
  <2>1. s[j] \in File /\ k <= N BY <1>1, <1>3
  <2>2. Ancestor[k + 1][s[j]] = Ancestor[k][Above(s[j])] BY <2>1, AncestorStep DEF N
  <2>3. PICK i \in 1 .. n : Above(s[j]) = s[i] BY <1>4
  <2>4. Ancestor[k][s[i]] \in Seen BY <1>6, <2>1
  <2> QED BY <2>2, <2>3, <2>4
<1> HIDE DEF T
<1>7. N \in T BY <1>3, <1>5, <1>6, NatSetInduction
<1>8. n \in 1 .. n BY <1>1
<1>9. Ancestor[N][s[n]] \in Seen BY <1>3, <1>7, <1>8 DEF T
<1>10. s[n] \in File BY <1>1, <1>8
<1>11. Root \in Seen BY <1>3, <1>9, <1>10
<1> QED BY <1>1, <1>11

(* A walk from a directory below which there is a way back everywhere does *)
(* not go astray.                                                          *)
LEMMA FindsItsWay ==
  ASSUME WalkOK, Walks(walk, visited), ~ walk.astray, Homely(walk.start), walk.depth > 0,
         EndOf(walk.dir, walk.index)
  PROVE  AtHome
<1> DEFINE n == walk.depth
           N == Cardinality(File)
           d == walk.dir
<1>1. PICK s : Stack(walk, s) BY DEF Walks
<1>2. /\ walk \in WalkType /\ d \in Dir /\ walk.index \in 1 .. Len(Entries[d])
      /\ s[0] = walk.start /\ s[n] = d
  BY <1>1, WalkFacts DEF Stack
<1>3. /\ n \in Nat \ {0} /\ s \in [0 .. n -> File]
      /\ \A j \in 1 .. n : Above(s[j]) = s[j - 1] /\ s[j] # Root
  BY <1>1, <1>2, StackAbove
<1>4. N \in Nat /\ \A f \in File : Ancestor[N][f] = Root
  BY FS_CardinalityType, FirstNamesAssumption
<1>5. d # walk.start /\ d # Root
  <2>1. d # walk.start BY <1>1, <1>2, <1>3, NoWayAround
  <2>2. n \in 1 .. n BY <1>3
  <2> QED BY <1>2, <1>3, <2>1, <2>2
<1>6. n <= N
  <2> SUFFICES ASSUME N < n PROVE FALSE BY <1>3, <1>4
  <2>1. N \in 0 .. n /\ n - N \in 1 .. n /\ n \in 0 .. n /\ N <= N BY <1>3, <1>4
  <2>2. Ancestor[N][s[n]] = s[n - N] BY <1>1, <1>2, <2>1, AncestorIsStack
  <2>3. s[n] \in File BY <1>3, <2>1
  <2> QED BY <1>3, <1>4, <2>1, <2>2, <2>3
<1>7. Ancestor[n][d] = walk.start
  <2>1. n \in 0 .. n /\ n - n = 0 BY <1>3
  <2>2. Ancestor[n][s[n]] = s[n - n] BY <1>1, <1>2, <1>6, <2>1, AncestorIsStack
  <2> QED BY <1>2, <2>1, <2>2
<1>8. n \in DOMAIN Ancestor BY <1>3, <1>4, <1>6, AncestorRecursion
<1>9. Entries[d] # <<>> /\ Last(Entries[d]).file = Current
  <2>1. walk.index = Len(Entries[d]) /\ Len(Entries[d]) \in Nat \ {0}
    BY <1>2, EntriesSeq DEF EndOf
  <2> QED BY <2>1, CurrentIs DEF Last
<1>10. WayBack(Last(Entries[d]).file, d) BY <1>2, <1>5, <1>7, <1>8, <1>9 DEF Homely
<1> QED BY <1>9, <1>10 DEF AtHome

HomeInv == pc # "idle" /\ FindsBack => ~ walk.astray

LEMMA NotAstray ==
  ASSUME TypeOK, ListInv, HomeInv, pc # "idle", FindsBack
  PROVE  ~ Astray
<1>1. WalkOK /\ ~ walk.astray /\ Walks(walk, visited) BY ListFacts DEF HomeInv
<1>2. Homely(walk.start) BY DEF FindsBack
<1> QED BY <1>1, <1>2, FindsItsWay DEF Astray

LEMMA GetNextHome ==
  ASSUME TypeOK, TypeOK', ListInv, HomeInv, GetNext
  PROVE  HomeInv'
<1> SUFFICES ASSUME Homely(walk'.start), Roomy(walk'.limit) PROVE ~ walk'.astray
  BY DEF HomeInv, FindsBack
<1>1. pc # "idle" BY DEF GetNext
<1>2. ASSUME NEW d, NEW i, NEW depth, NEW indices, NEW astray,
             Return(d, i, depth, indices, astray)
      PROVE  /\ walk'.start = walk.start /\ walk'.limit = walk.limit
             /\ walk'.astray = astray
  BY <1>1, <1>2, Returned
<1>3. ASSUME walk'.start = walk.start, walk'.limit = walk.limit
      PROVE  FindsBack /\ ~ walk.astray /\ HasPlace
  <2>1. FindsBack /\ Roomy(walk.limit) BY <1>3 DEF FindsBack
  <2>2. WalkOK BY <1>1 DEF TypeOK
  <2> QED BY <1>1, <2>1, <2>2, RoomyHasPlace DEF HomeInv
<1>4. CASE walk' = walk BY <1>3, <1>4
<1>5. ASSUME NEW d, NEW i, NEW n, NEW x, SaveAndReturn(d, i, n, x) PROVE ~ walk'.astray
  <2>1. CASE Crash BY <1>4, <2>1 DEF Crash
  <2>2. CASE ~ Crash
    <3> DEFINE b == walk.astray \/ ~ HasPlace
    <3>1. Return(d, i, n, x, b) BY <1>5, <2>2, Saved
    <3> HIDE DEF b
    <3>2. walk'.start = walk.start /\ walk'.limit = walk.limit /\ walk'.astray = b
      BY <1>2, <3>1
    <3> QED BY <1>3, <3>2 DEF b
  <2> QED BY <2>1, <2>2
<1>6. CASE Descend \/ \E k \in 1 .. walk.depth : Ascend(k)
  BY <1>5, <1>6 DEF Descend, Ascend
<1>10. CASE Sibling
  <2>1. /\ walk'.start = walk.start /\ walk'.limit = walk.limit
        /\ walk'.astray = walk.astray
    BY <1>2, <1>10 DEF Sibling
  <2> QED BY <1>3, <2>1
<1>7. CASE Exhausted BY <1>4, <1>7 DEF Exhausted
<1>8. CASE Fails BY <1>4, <1>8 DEF Fails
<1>9. CASE Astray
  <2>1. walk'.start = walk.start /\ walk'.limit = walk.limit
    <3>1. CASE Crash BY <3>1 DEF Crash
    <3>2. ASSUME NEW k \in 1 .. walk.depth, NEW d \in Dir, NEW i \in DOMAIN Entries[d],
                 Return(d, i, walk.depth - k, SubSeq(walk.indices, 1, walk.depth - k), TRUE)
          PROVE  walk'.start = walk.start /\ walk'.limit = walk.limit
      BY <1>2, <3>2
    <3> QED BY <1>9, <3>1, <3>2 DEF Astray
  <2> QED BY <1>1, <1>3, <1>9, <2>1, NotAstray
<1> QED BY <1>6, <1>7, <1>8, <1>9, <1>10 DEF GetNext

LEMMA HomeStep ==
  ASSUME TypeOK, TypeOK', ListInv, HomeInv, [Next]_vars
  PROVE  HomeInv'
<1>1. ASSUME UNCHANGED <<pc, walk>> PROVE HomeInv' BY <1>1 DEF HomeInv, FindsBack
<1>2. CASE Crash BY <1>1, <1>2 DEF Crash
<1>3. ASSUME NEW p \in Paths, OpenFile(p) \/ Cd(p) PROVE HomeInv'
  BY <1>1, <1>2, <1>3 DEF OpenFile, Cd
<1>4. ASSUME NEW recursive \in BOOLEAN, NEW limit \in Limits, GetFirst(recursive, limit)
      PROVE  HomeInv'
  <2>1. walk'.astray = FALSE BY <1>4 DEF GetFirst
  <2> QED BY <2>1 DEF HomeInv
<1>5. CASE Enter \/ Exit \/ CloseFile \/ GetFirstEmpty \/ LsOutOfMemory
  BY <1>1, <1>5 DEF Enter, Exit, CloseFile, GetFirstEmpty, LsOutOfMemory
<1>6. CASE AttributeGet \/ GetFirstFull BY <1>2, <1>6 DEF AttributeGet, GetFirstFull
<1>7. CASE Show
  <2>1. walk' = walk /\ pc # "idle" BY <1>7 DEF Show
  <2> QED BY <2>1 DEF HomeInv, FindsBack
<1>8. CASE GetNext BY <1>8, GetNextHome
<1>9. CASE CloseQuery BY <1>9 DEF CloseQuery, HomeInv
<1>10. CASE UNCHANGED vars BY <1>1, <1>10 DEF vars
<1> QED BY <1>3, <1>4, <1>5, <1>6, <1>7, <1>8, <1>9, <1>10 DEF Next
HomelyInv == TypeOK /\ ListInv /\ HomeInv

(* What was listed is no longer than the listing.                          *)
LEMMA ListedIsPart ==
  ASSUME NEW v \in Out, NEW q, Sane(q), Walks(q, v)
  PROVE  /\ Len(Goal(q)) \in Nat /\ Len(v) \in Nat /\ Len(v) <= Len(Goal(q))
         /\ \A x \in Dir \X Nat : Len(Append(v, x)) = Len(v) + 1
<1>1. PICK s, t : Stack(q, s) /\ Pending(q, s, t) /\ v \o Rest(q, t) = Goal(q) BY DEF Walks
<1> DEFINE a == After(q, q.dir, q.index, q.depth)
           b == t[q.depth]
           c == Below(q)
           r == Rest(q, t)
           g == Goal(q)
<1>2. q \in WalkType /\ q.dir \in Dir /\ q.limit \in Nat /\ q.depth \in 0 .. q.limit - 1
  BY LimitsAssumption DEF Sane, WalkType
<1>3. q.index \in DOMAIN Entries[q.dir] BY DEF Sane
<1>4. q.index \in 0 .. Len(Entries[q.dir]) /\ Entries[q.dir][q.index].file \in File
  BY <1>2, <1>3, EntriesSeq
<1>5. a \in Out BY <1>2, <1>4, AfterIs
<1>6. b \in Out
  <2>1. t \in [0 .. q.depth -> Out] BY <1>1 DEF Pending
  <2> QED BY <1>2, <2>1
<1>7. c \in Out BY <1>2, <1>4, UnderIs DEF Below
<1>8. r = c \o (a \o b) BY DEF Rest
<1> HIDE DEF a, b, c
<1>9. r \in Out
  <2>1. a \o b \in Out BY <1>5, <1>6, ConcatType
  <2> QED BY <1>7, <1>8, <2>1, ConcatType
<1>10. g \in Out /\ v \o r = g BY <1>1, <1>2, GoalIs
<1> HIDE DEF r, g
<1>11. Len(v \o r) = Len(v) + Len(r) /\ Len(r) \in Nat /\ Len(v) \in Nat /\ Len(g) \in Nat
  BY <1>9, <1>10 DEF Out
<1>12. \A x \in Dir \X Nat : Len(Append(v, x)) = Len(v) + 1 BY DEF Out
<1> QED BY <1>10, <1>11, <1>12 DEF g

LEMMA StillToCome ==
  ASSUME HomelyInv, pc # "idle", FindsBack
  PROVE  /\ Sane(walk) /\ visited \in Out /\ ~ walk.astray /\ Walks(walk, visited)
         /\ Len(Goal(walk)) \in Nat /\ Len(visited) \in Nat /\ Len(visited) <= Len(Goal(walk))
<1>1. Sane(walk) /\ visited \in Out /\ ~ walk.astray /\ Walks(walk, visited)
  BY ListFacts DEF HomelyInv, HomeInv
<1> QED BY <1>1, ListedIsPart

(* A call that returns an entry.                                           *)
LEMMA EntryReturned ==
  ASSUME HomelyInv, HomelyInv', pc = "next", FindsBack,
         NEW d \in Dir, NEW i \in Nat, NEW depth, NEW indices, NEW astray, ~ astray,
         Return(d, i, depth, indices, astray)
  PROVE  StepsLeft' \in 0 .. StepsLeft - 1
<1> DEFINE w == Len(Goal(walk))
           v == Len(visited)
<1>1. w \in Nat /\ v \in Nat /\ v <= w BY StillToCome
<1>2. /\ Sane(walk') /\ walk'.start = walk.start /\ walk'.limit = walk.limit
      /\ walk'.astray = astray /\ visited' = Append(visited, <<d, i>>) /\ pc' = "show"
  <2>1. TypeOK /\ TypeOK' /\ pc # "idle" BY DEF HomelyInv
  <2>2. pc' = "show" BY Zenon DEF Return
  <2> QED BY <2>1, <2>2, Returned
<1>3. w' = w BY <1>2 DEF Goal
<1>4. v' = v + 1
  <2>1. <<d, i>> \in Dir \X Nat OBVIOUS
  <2> QED BY <1>2, <2>1, StillToCome, ListedIsPart
<1>5. v' <= w'
  <2>1. Walks(walk', visited') BY <1>2 DEF HomelyInv, ListInv
  <2>2. visited' \in Out BY DEF HomelyInv, TypeOK, Out
  <2>3. Len(visited') <= Len(Goal(walk')) BY <1>2, <2>1, <2>2, ListedIsPart
  <2> QED BY <2>3 DEF Goal
<1>6. StepsLeft = 2 * (w - v) + 2 BY Zenon DEF StepsLeft, Goal
<1>7. StepsLeft' = 2 * (w' - v') + 3 BY <1>2, Zenon DEF StepsLeft, Goal
<1> HIDE DEF w, v
<1> QED BY <1>1, <1>3, <1>4, <1>5, <1>6, <1>7

(* A call that returns nothing.                                            *)
LEMMA NothingReturned ==
  ASSUME HomelyInv, FindsBack, walk' = walk, visited' = visited,
         \/ pc = "show" /\ pc' \in {"next", "close"}
         \/ pc = "next" /\ pc' = "close"
  PROVE  StepsLeft' \in 0 .. StepsLeft - 1
<1> DEFINE w == Len(Goal(walk))
           v == Len(visited)
<1>1. w \in Nat /\ v \in Nat /\ v <= w BY StillToCome
<1>2. w' = w /\ v' = v BY DEF Goal
<1>3. StepsLeft = 2 * (w - v) + (IF pc = "show" THEN 3 ELSE 2) BY DEF StepsLeft, Goal
<1>4. StepsLeft' = 2 * (w' - v') + (IF pc' = "next" THEN 2 ELSE 1) BY DEF StepsLeft, Goal
<1> HIDE DEF w, v
<1> QED BY <1>1, <1>2, <1>3, <1>4

LEMMA AdvanceStep ==
  ASSUME HomelyInv, HomelyInv', Next, alive, pc # "idle", FindsBack
  PROVE  StepsLeft' \in 0 .. StepsLeft - 1
<1>1. WalkOK /\ Sane(walk) /\ ~ walk.astray /\ ~ Astray
  BY StillToCome, ListFacts, NotAstray DEF HomelyInv
<1>7. HasPlace BY <1>1, RoomyHasPlace DEF FindsBack
<1>8. \A d, i, n, x : SaveAndReturn(d, i, n, x) => Return(d, i, n, x, walk.astray \/ ~ HasPlace)
  BY <1>7 DEF SaveAndReturn
<1>2. walk.dir \in Dir /\ walk.index \in Nat BY <1>1, WalkFacts DEF WalkType
<1>3. \/ Show
      \/ GetNext
      \/ CloseQuery
  BY DEF Next, Enter, Exit, OpenFile, Cd, CloseFile, AttributeGet, GetFirstFull, GetFirstEmpty,
         LsOutOfMemory, GetFirst, Serving
<1>4. CASE Show
  <2>1. pc = "show" /\ pc' \in {"next", "close"} /\ walk' = walk /\ visited' = visited
    BY <1>4 DEF Show
  <2> QED BY <2>1, NothingReturned
<1>5. CASE GetNext
  <2>1. pc = "next" BY <1>5 DEF GetNext
  <2>2. ASSUME NEW d \in Dir, NEW i \in Nat, NEW depth, NEW indices, NEW astray, ~ astray,
               Return(d, i, depth, indices, astray)
        PROVE  StepsLeft' \in 0 .. StepsLeft - 1
    BY <2>1, <2>2, EntryReturned
  <2>3. CASE Descend
    <3>1. Current \in Dir BY <1>1, <2>3, CurrentIs DEF Descend, Descends, MayDescend
    <3>2. \E n, x : Return(Current, 1, n, x, walk.astray \/ ~ HasPlace) BY <1>8, <2>3 DEF Descend
    <3> QED BY <1>1, <1>7, <2>2, <3>1, <3>2
  <2>4. CASE Sibling
    <3>1. walk.index + 1 \in Nat BY <1>2
    <3> QED BY <1>1, <1>2, <2>2, <2>4, <3>1 DEF Sibling
  <2>5. ASSUME NEW k \in 1 .. walk.depth, Ascend(k) PROVE StepsLeft' \in 0 .. StepsLeft - 1
    <3>1. PICK d \in Dir :
            \E n, x : Return(d, IndexAt(k) + 1, n, x, walk.astray \/ ~ HasPlace)
      BY <1>8, <2>5 DEF Ascend
    <3>2. IndexAt(k) + 1 \in Nat
      <4>1. PICK s : Stack(walk, s) BY StillToCome DEF Walks
      <4>2. IndexAt(k) \in 1 .. Len(Entries[Up[k]]) /\ Up[k] \in Dir
        BY <1>1, <2>5, <4>1, LevelIs DEF Ascend
      <4> QED BY <4>2, EntriesSeq
    <3> QED BY <1>1, <1>7, <2>2, <3>1, <3>2
  <2>6. CASE Exhausted \/ Fails
    <3>1. pc' = "close" /\ walk' = walk /\ visited' = visited BY <2>6 DEF Exhausted, Fails
    <3> QED BY <2>1, <3>1, NothingReturned
  <2> QED BY <1>1, <1>5, <2>3, <2>4, <2>5, <2>6 DEF GetNext
<1>6. CASE CloseQuery
  <2>1. pc = "close" /\ pc' = "idle" BY <1>6 DEF CloseQuery
  <2> DEFINE w == Len(Goal(walk))
             v == Len(visited)
  <2>2. w \in Nat /\ v \in Nat /\ v <= w BY StillToCome
  <2>3. StepsLeft = 2 * (w - v) + 1 BY <2>1 DEF StepsLeft, Goal
  <2>4. StepsLeft' = 0 BY <2>1 DEF StepsLeft
  <2> HIDE DEF w, v
  <2> QED BY <2>2, <2>3, <2>4
<1> QED BY <1>3, <1>4, <1>5, <1>6

(* ls comes to an end wherever it can find its way up and has room for the *)
(* offsets, for any directories and limit: each call of its loop leaves    *)
(* less to do, though FSGetNext keeps no directory on its way and climbs   *)
(* by first names.                                                         *)
THEOREM LsComesToAnEnd == Spec => LsAdvances
<1>1. Init => HomelyInv
  <2>1. Init => ListInv /\ HomeInv BY DEF Init, ListInv, HomeInv
  <2> QED BY <2>1, InitType DEF HomelyInv
<1>2. HomelyInv /\ [Next]_vars => HomelyInv' BY TypeStep, ListStep, HomeStep DEF HomelyInv
<1>3. HomelyInv /\ HomelyInv' /\ [Next]_vars =>
        [alive /\ pc # "idle" /\ FindsBack => StepsLeft' \in 0 .. StepsLeft - 1]_vars
  BY AdvanceStep
<1> QED BY <1>1, <1>2, <1>3, PTL DEF Spec, LsAdvances
=============================================================================
