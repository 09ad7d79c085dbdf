-------------------------- MODULE FatSessionProofs --------------------------
(***************************************************************************)
(* Proofs about FatSession. The table's type needs that the flag DIR of an *)
(* open handle is right; the account of the handles is inductive with the  *)
(* type. That what a lookup returns is sound is an induction on the tokens *)
(* that were read (Sound), and that relative paths always start at a       *)
(* directory rests on it.                                                  *)
(***************************************************************************)
EXTENDS FatSession, FiniteSetTheorems, WellFoundedInduction, TLAPS

DirFlags == \A h \in Handle :
  handle_table[h] # None => handle_table[h].dir = (handle_table[h].node \in DirNode)

IInv == TypeOK /\ DirFlags /\ HandlesAccounted

LEMMA ParentType == \A n \in Node : Parent(n) \in DirNode \cup {None}
BY TreeAssumption DEF Parent

LEMMA FirstIndex == 1 \in Index /\ None \in Index
<1>1. Cardinality(Node) \in Nat BY FS_CardinalityType, TreeAssumption
<1> QED BY <1>1 DEF Index

LEMMA FileHandleType ==
  ASSUME NEW n \in Node, NEW i \in Index
  PROVE  /\ FileHandle(n, i) \in HandleType
         /\ FileHandle(n, i) # None => FileHandle(n, i).dir = (FileHandle(n, i).node \in DirNode)
         /\ FileHandle(n, i).query = FALSE
BY ParentType DEF FileHandle, HandleType

LEMMA FirstEntry ==
  ASSUME NEW d \in DirNode, Entries[d] # <<>>
  PROVE  Entries[d][1].node \in Node
<1> DEFINE children == [i \in DOMAIN Children[d] |-> Entry(Children[d][i], Children[d][i])]
<1>1. Children[d] \in Seq(Node) BY TreeAssumption
<1>2. CASE d = Root
  <2>1. Entries[d] = children BY <1>2 DEF Entries
  <2>2. Children[d] # <<>> BY <2>1, <1>1, <1>2
  <2>3. 1 \in DOMAIN Children[d] BY <2>2, <1>1
  <2>4. children[1].node = Children[d][1] BY <2>3 DEF Entry
  <2> QED BY <2>1, <2>3, <2>4, <1>1
<1>3. CASE d # Root
  <2> DEFINE two == <<Entry(".", d), Entry("..", Parent(d))>>
  <2>1. Entries[d] = two \o children BY <1>3 DEF Entries
  <2>2. (two \o children)[1] = Entry(".", d)
    <3>1. two \in Seq({Entry(".", d), Entry("..", Parent(d))}) /\ Len(two) = 2 OBVIOUS
    <3>2. children \in Seq({Entry(x, x) : x \in Node}) BY <1>1 DEF Entry
    <3> QED BY <3>1, <3>2
  <2>3. Entries[d][1].node = d BY <2>1, <2>2 DEF Entry
  <2> QED BY <2>3, TreeAssumption
<1> QED BY <1>2, <1>3

-----------------------------------------------------------------------------
THEOREM InitInv == Init => IInv
<1> SUFFICES ASSUME Init PROVE IInv OBVIOUS
<1>1. TypeOK BY HandlesAssumption DEF Init, TypeOK, Closed
<1>2. DirFlags BY DEF Init, DirFlags, Closed
<1>3. HandlesAccounted BY DEF Init, HandlesAccounted
<1> QED BY <1>1, <1>2, <1>3 DEF IInv

(* The table after one slot got a well-typed handle or was closed.         *)
LEMMA PutHandle ==
  ASSUME TypeOK, DirFlags, NEW h \in Handle, NEW hdl \in HandleType,
         hdl.dir = (hdl.node \in DirNode),
         handle_table' = [handle_table EXCEPT ![h] = hdl]
  PROVE  handle_table' \in [Handle -> HandleType \cup {None}] /\ DirFlags'
BY DEF TypeOK, DirFlags

LEMMA CloseHandle ==
  ASSUME NEW t \in [Handle -> HandleType \cup {None}], NEW h,
         \A g \in Handle : t[g] # None => t[g].dir = (t[g].node \in DirNode)
  PROVE  /\ CloseIn(t, h) \in [Handle -> HandleType \cup {None}]
         /\ \A g \in Handle :
              CloseIn(t, h)[g] # None => CloseIn(t, h)[g].dir = (CloseIn(t, h)[g].node \in DirNode)
         /\ \A g \in Handle : CloseIn(t, h)[g] = IF g = h THEN None ELSE t[g]
BY DEF CloseIn

(* The shell forgets no handle and no slot is used twice when slot h, that *)
(* was free, is given out.                                                 *)
LEMMA PutOpened ==
  ASSUME TypeOK, NEW h \in Handle, NEW hdl \in HandleType,
         handle_table' = [handle_table EXCEPT ![h] = hdl]
  PROVE  Opened' = Opened \cup {h}
BY NoneAssumption DEF TypeOK, Opened

LEMMA CloseOpened ==
  ASSUME NEW t \in [Handle -> HandleType \cup {None}], NEW h, handle_table' = CloseIn(t, h)
  PROVE  Opened' = {g \in Handle : t[g] # None} \ {h}
BY NoneAssumption DEF CloseIn, Opened

LEMMA StepInv == IInv /\ [Next]_vars => IInv'
<1> SUFFICES ASSUME IInv, [Next]_vars PROVE IInv' OBVIOUS
<1>0. TypeOK /\ DirFlags /\ HandlesAccounted BY DEF IInv
<1>1. CASE Enter
  <2> DEFINE root == FileHandle(Root, None)
  <2>1. root \in HandleType /\ root.dir = (root.node \in DirNode)
    <3>1. Root \in Node /\ None \in Index BY FirstIndex, TreeAssumption
    <3>2. root \in HandleType BY <3>1, FileHandleType
    <3> HIDE DEF root
    <3>3. root # None BY <3>2, NoneAssumption
    <3> QED BY <3>1, <3>2, <3>3, FileHandleType DEF root
  <2>2. 1 \in Handle BY HandlesAssumption DEF Handle
  <2>3. handle_table' = [Closed EXCEPT ![1] = root] BY <1>1 DEF Enter
  <2>4. handle_table' \in [Handle -> HandleType \cup {None}] BY <2>1, <2>3 DEF Closed
  <2>5. \A g \in Handle : handle_table'[g] = IF g = 1 THEN root ELSE None
    BY <2>2, <2>3 DEF Closed
  <2>6. TypeOK'
    <3>1. driver' \in BOOLEAN /\ alive' \in BOOLEAN /\ carried' \in BOOLEAN
      BY <1>0, <1>1 DEF TypeOK, Enter
    <3>2. /\ current_dir' \in Handle \cup {None} /\ current_file' \in Handle \cup {None}
          /\ lost' \subseteq Handle
      BY <1>0, <1>1, <2>2 DEF TypeOK, Enter
    <3> QED BY <2>4, <3>1, <3>2 DEF TypeOK
  <2>7. DirFlags' BY <2>1, <2>5 DEF DirFlags
  <2>8. HandlesAccounted'
    <3>1. Opened' = {1} BY <2>1, <2>2, <2>5, NoneAssumption DEF Opened
    <3>2. carried' = (current_file # None) /\ current_dir' = 1 /\ lost' = {}
          /\ current_file' = current_file
      BY <1>1 DEF Enter
    <3> SUFFICES ASSUME ~ carried' PROVE
          /\ Opened' = {current_dir'} \cup ({current_file'} \ {None}) \cup lost'
          /\ current_dir' # current_file'
          /\ lost' \cap {current_dir', current_file'} = {}
      BY DEF HandlesAccounted
    <3>3. current_file' = None BY <3>2
    <3>4. 1 # None BY <2>2, HandlesAssumption
    <3> QED BY <3>1, <3>2, <3>3, <3>4
  <2> QED BY <2>6, <2>7, <2>8 DEF IInv
<1>2. CASE Exit
  <2>1. TypeOK' BY <1>0, <1>2 DEF TypeOK, Exit, Closed
  <2>2. DirFlags' BY <1>2 DEF DirFlags, Exit, Closed
  <2>3. HandlesAccounted' BY <1>2 DEF HandlesAccounted, Exit
  <2> QED BY <2>1, <2>2, <2>3 DEF IInv
<1>3. ASSUME NEW p \in Paths, OpenFile(p) PROVE IInv'
  <2>1. PICK h \in Handle, n \in Node, i \in Index :
          /\ FirstFree(h)
          /\ handle_table' = [handle_table EXCEPT ![h] = FileHandle(n, i)]
          /\ current_file' = h
    BY <1>3 DEF OpenFile, Opens
  <2>2. FileHandle(n, i) \in HandleType /\ FileHandle(n, i).dir = (FileHandle(n, i).node \in DirNode)
    BY FileHandleType, NoneAssumption
  <2>3. handle_table' \in [Handle -> HandleType \cup {None}] /\ DirFlags'
    BY <1>0, <2>1, <2>2, PutHandle
  <2>4. UNCHANGED <<driver, current_dir, alive, carried, lost>> /\ current_file = None
    BY <1>3 DEF OpenFile
  <2>5. TypeOK' BY <1>0, <2>1, <2>3, <2>4 DEF TypeOK
  <2>6. Opened' = Opened \cup {h} /\ h \notin Opened
    BY <1>0, <2>1, <2>2, PutOpened DEF FirstFree, Opened
  <2>7. HandlesAccounted'
    BY <1>0, <2>1, <2>4, <2>6, HandlesAssumption DEF HandlesAccounted
  <2> QED BY <2>3, <2>5, <2>7 DEF IInv
<1>4. ASSUME NEW p \in Paths, Cd(p) PROVE IInv'
  <2>1. PICK h \in Handle, n \in Node, i \in Index :
          LET hdl == FileHandle(n, i) IN
          /\ FirstFree(h)
          /\ \/ LoseHandle(h, hdl)
             \/ ~ AttributeCrashes(hdl) /\ ChangeDir(h, hdl)
             \/ AttributeCrashes(hdl) /\ Crash
    BY <1>4 DEF Cd, Opens
  <2> DEFINE hdl == FileHandle(n, i)
             put == [handle_table EXCEPT ![h] = hdl]
  <2>2. hdl \in HandleType /\ hdl.dir = (hdl.node \in DirNode)
    BY FileHandleType, NoneAssumption
  <2>3. h \notin Opened BY <2>1 DEF FirstFree, Opened
  <2> HIDE DEF hdl
  <2>4. CASE LoseHandle(h, hdl)
    <3>1. handle_table' \in [Handle -> HandleType \cup {None}] /\ DirFlags'
      BY <1>0, <2>2, <2>4, PutHandle DEF LoseHandle
    <3>2. TypeOK' BY <1>0, <2>4, <3>1 DEF TypeOK, LoseHandle
    <3>3. Opened' = Opened \cup {h} BY <1>0, <2>2, <2>4, PutOpened DEF LoseHandle
    <3>4. HandlesAccounted'
      BY <1>0, <2>3, <2>4, <3>3, HandlesAssumption DEF HandlesAccounted, LoseHandle
    <3> QED BY <3>1, <3>2, <3>4 DEF IInv
  <2>5. CASE ChangeDir(h, hdl)
    <3>1. put \in [Handle -> HandleType \cup {None}] BY <1>0, <2>2 DEF TypeOK
    <3>2. \A g \in Handle : put[g] # None => put[g].dir = (put[g].node \in DirNode)
      BY <1>0, <2>2 DEF TypeOK, DirFlags
    <3>3. handle_table' = CloseIn(put, current_dir) /\ current_dir' = h
          /\ UNCHANGED <<driver, current_file, alive, carried, lost>>
      BY <2>5 DEF ChangeDir
    <3>4. {g \in Handle : put[g] # None} = Opened \cup {h}
      BY <1>0, <2>2, NoneAssumption DEF TypeOK, Opened
    <3> HIDE DEF put
    <3>5. handle_table' \in [Handle -> HandleType \cup {None}]
      BY <3>1, <3>2, <3>3, CloseHandle
    <3>6. DirFlags' BY <3>1, <3>2, <3>3, CloseHandle DEF DirFlags
    <3>7. TypeOK' BY <1>0, <3>3, <3>5 DEF TypeOK
    <3>8. Opened' = (Opened \cup {h}) \ {current_dir}
      BY <3>1, <3>3, <3>4, CloseOpened
    <3>9. HandlesAccounted'
      <4> SUFFICES ASSUME driver, ~ carried PROVE
            /\ Opened' = {h} \cup ({current_file} \ {None}) \cup lost
            /\ h # current_file
            /\ lost \cap {h, current_file} = {}
        BY <3>3 DEF HandlesAccounted
      <4>1. /\ Opened = {current_dir} \cup ({current_file} \ {None}) \cup lost
            /\ current_dir # current_file
            /\ lost \cap {current_dir, current_file} = {}
        BY <1>0 DEF HandlesAccounted
      <4> QED BY <2>3, <3>8, <4>1, HandlesAssumption
    <3> QED BY <3>6, <3>7, <3>9 DEF IInv
  <2>6. CASE Crash
    <3>1. TypeOK' BY <1>0, <2>6 DEF TypeOK, Crash
    <3>2. DirFlags' /\ HandlesAccounted'
      BY <1>0, <2>6 DEF DirFlags, HandlesAccounted, Crash, Opened
    <3> QED BY <3>1, <3>2 DEF IInv
  <2> QED BY <2>1, <2>4, <2>5, <2>6 DEF hdl
<1>5. CASE CloseFile
  <2>1. handle_table \in [Handle -> HandleType \cup {None}]
        /\ \A g \in Handle : handle_table[g] # None =>
             handle_table[g].dir = (handle_table[g].node \in DirNode)
    BY <1>0 DEF TypeOK, DirFlags
  <2>2. handle_table' = CloseIn(handle_table, current_file) /\ current_file' = None
        /\ UNCHANGED <<driver, current_dir, alive, carried, lost>>
    BY <1>5 DEF CloseFile
  <2>3. handle_table' \in [Handle -> HandleType \cup {None}] BY <2>1, <2>2, CloseHandle
  <2>4. DirFlags' BY <2>1, <2>2, CloseHandle DEF DirFlags
  <2>5. TypeOK' BY <1>0, <2>2, <2>3 DEF TypeOK
  <2>6. Opened' = Opened \ {current_file} BY <2>1, <2>2, CloseOpened DEF Opened
  <2>7. HandlesAccounted'
    <3> SUFFICES ASSUME driver, ~ carried PROVE
          /\ Opened' = {current_dir} \cup lost
          /\ current_dir # None
          /\ lost \cap {current_dir, None} = {}
      BY <2>2 DEF HandlesAccounted
    <3>1. /\ Opened = {current_dir} \cup ({current_file} \ {None}) \cup lost
          /\ current_dir # current_file
          /\ lost \cap {current_dir, current_file} = {}
      BY <1>0 DEF HandlesAccounted
    <3>2. Opened \subseteq Handle BY DEF Opened
    <3> QED BY <2>6, <3>1, <3>2, HandlesAssumption
  <2> QED BY <2>4, <2>5, <2>7 DEF IInv
<1>6. CASE LsOutOfMemory
  <2> DEFINE d == handle_table[current_dir].node
  <2>1. IsOpenDir(current_dir) /\ Entries[d] # <<>>
        /\ UNCHANGED <<driver, current_dir, current_file, alive, carried>>
    BY <1>6 DEF LsOutOfMemory
  <2>2. d \in DirNode BY <1>0, <2>1 DEF DirFlags, IsOpenDir, IsOpen
  <2> DEFINE hdl == [dir |-> Entries[d][1].node \in DirNode, query |-> TRUE,
                     node |-> Entries[d][1].node, parent |-> d, index |-> 1]
  <2>3. PICK h \in Handle :
          /\ FirstFree(h)
          /\ handle_table' = [handle_table EXCEPT ![h] = hdl]
          /\ lost' = lost \cup {h}
    BY <1>6 DEF LsOutOfMemory
  <2>4. Entries[d][1].node \in Node BY <2>1, <2>2, FirstEntry
  <2> HIDE DEF d
  <2>5. hdl \in HandleType /\ hdl.dir = (hdl.node \in DirNode)
    BY <2>2, <2>4, FirstIndex DEF HandleType
  <2> HIDE DEF hdl
  <2>6. handle_table' \in [Handle -> HandleType \cup {None}] /\ DirFlags'
    BY <1>0, <2>3, <2>5, PutHandle
  <2>7. TypeOK' BY <1>0, <2>1, <2>3, <2>6 DEF TypeOK
  <2>8. Opened' = Opened \cup {h} /\ h \notin Opened
    BY <1>0, <2>3, <2>5, PutOpened DEF FirstFree, Opened
  <2>9. HandlesAccounted'
    BY <1>0, <2>1, <2>3, <2>8, HandlesAssumption DEF HandlesAccounted
  <2> QED BY <2>6, <2>7, <2>9 DEF IInv
<1>7. CASE AttributeGet
  <2>1. Crash BY <1>7 DEF AttributeGet
  <2>2. TypeOK' BY <1>0, <2>1 DEF TypeOK, Crash
  <2>3. DirFlags' /\ HandlesAccounted'
    BY <1>0, <2>1 DEF DirFlags, HandlesAccounted, Crash, Opened
  <2> QED BY <2>2, <2>3 DEF IInv
<1>8. CASE UNCHANGED vars
  <2>1. TypeOK' BY <1>0, <1>8 DEF TypeOK, vars
  <2>2. DirFlags' /\ HandlesAccounted'
    BY <1>0, <1>8 DEF DirFlags, HandlesAccounted, vars, Opened
  <2> QED BY <2>1, <2>2 DEF IInv
<1> QED BY <1>1, <1>2, <1>3, <1>4, <1>5, <1>6, <1>7, <1>8 DEF Next

-----------------------------------------------------------------------------
LEMMA Invariance == Spec => []IInv
<1>1. Init => IInv BY InitInv
<1>2. IInv /\ [Next]_vars => IInv' BY StepInv
<1> QED BY <1>1, <1>2, PTL DEF Spec

(* The handle table and the globals of the shell are well typed.           *)
THEOREM TypeCorrect == Spec => []TypeOK
<1>1. IInv => TypeOK BY DEF IInv
<1> QED BY <1>1, Invariance, PTL

(* The open handles of an instance are the current directory, the current  *)
(* file and those that failed commands left, each in its own slot, unless  *)
(* a file was left open over an exit (allocateHandle, cd, open, close, ls). *)
THEOREM NoHandleForgotten == Spec => []HandlesAccounted
<1>1. IInv => HandlesAccounted BY DEF IInv
<1> QED BY <1>1, Invariance, PTL

-----------------------------------------------------------------------------
(* Induction on a set of numbers, from the least number outside of it.     *)
LEMMA NatSetInduction ==
  ASSUME NEW T, 0 \in T, \A n \in Nat : n \in T => n + 1 \in T
  PROVE  Nat \subseteq T
<1> SUFFICES ASSUME Nat \ T # {} PROVE FALSE OBVIOUS
<1>1. PICK x \in Nat \ T : \A y \in Nat \ T : ~ (<<y, x>> \in OpToRel(<, Nat))
  <2>1. IsWellFoundedOn(OpToRel(<, Nat), Nat) BY NatLessThanWellFounded
  <2> QED BY <2>1, WFMin
<1>2. \A y \in Nat \ T : ~ (y < x) BY <1>1 DEF OpToRel
<1>3. x - 1 \in Nat /\ x - 1 \notin Nat \ T BY <1>2
<1>4. x - 1 + 1 = x /\ x \notin T OBVIOUS
<1> QED BY <1>3, <1>4

(* There is a function that is defined by recursion on its argument.       *)
Unfolds(g, S, c, N, D) ==
  g \in [0 .. N -> S] /\ g[0] = c /\ \A n \in 1 .. N : g[n] = D[<<g[n - 1], n>>]

LEMMA Recursion ==
  ASSUME NEW S, NEW c, c \in S, NEW N, N \in Nat, NEW D, D \in [S \X (1 .. N) -> S]
  PROVE  \E g : Unfolds(g, S, c, N, D)
<1> DEFINE Begins(g, k) == /\ g \in [0 .. k -> S] /\ g[0] = c
                           /\ \A n \in 1 .. k : g[n] = D[<<g[n - 1], n>>]
           T == {k \in Nat : k <= N => \E g : Begins(g, k)}
<1>1. 0 \in T
  <2>1. Begins([n \in 0 .. 0 |-> c], 0) OBVIOUS
  <2> QED BY <2>1
<1>2. ASSUME NEW k \in Nat, k \in T PROVE k + 1 \in T
  <2> SUFFICES ASSUME k + 1 <= N PROVE \E h : Begins(h, k + 1) OBVIOUS
  <2>1. PICK g : Begins(g, k) BY <1>2
  <2> DEFINE h == [n \in 0 .. k + 1 |-> IF n <= k THEN g[n] ELSE D[<<g[k], k + 1>>]]
  <2>2. g[k] \in S /\ k + 1 \in 1 .. N BY <2>1
  <2>3. h \in [0 .. k + 1 -> S] /\ h[0] = c BY <2>1, <2>2
  <2>4. ASSUME NEW n \in 1 .. k + 1 PROVE h[n] = D[<<h[n - 1], n>>]
    <3>1. n - 1 \in 0 .. k /\ h[n - 1] = g[n - 1] OBVIOUS
    <3>2. CASE n \in 1 .. k
      <4>1. h[n] = g[n] BY <3>2
      <4> QED BY <2>1, <3>1, <3>2, <4>1
    <3>3. CASE n = k + 1
      <4>1. h[n] = D[<<g[k], k + 1>>] BY <3>3
      <4>2. n - 1 = k BY <3>3
      <4> QED BY <3>1, <3>3, <4>1, <4>2
    <3> QED BY <3>2, <3>3
  <2> QED BY <2>3, <2>4
<1> HIDE DEF T
<1>3. N \in T BY <1>1, <1>2, NatSetInduction
<1> QED BY <1>3 DEF T, Unfolds

-----------------------------------------------------------------------------
(* Where fat32GetFile can be after some tokens.                            *)
Place == [ok : BOOLEAN, done : BOOLEAN, node : Node \cup {None}, index : Nat \cup {None}]

(* What is known of it after k tokens.                                     *)
Sound(tokens, k, c) ==
  c.ok =>
    /\ c.node \in Node /\ EntryFits(tokens, k, c.node, c.index)
    /\ ~ c.done <=> \A j \in 1 .. k : tokens[j] # ""

LEMMA ParentIsDir ==
  ASSUME NEW n \in Node \ {Root}
  PROVE  Parent(n) \in DirNode /\ n \in ToSet(Children[Parent(n)])
BY TreeAssumption DEF Parent

LEMMA OneParent ==
  ASSUME NEW d \in DirNode, NEW n \in ToSet(Children[d]), n \in Node \ {Root}
  PROVE  Parent(n) = d
<1>1. PICK p \in DirNode : \A e \in DirNode : n \in ToSet(Children[e]) <=> e = p
  BY TreeAssumption
<1> QED BY <1>1, ParentIsDir

LEMMA AfterTwo ==
  ASSUME NEW a, NEW b, NEW S, NEW s \in Seq(S)
  PROVE  LET t == <<a, b>> \o s IN
         /\ DOMAIN t = 1 .. 2 + Len(s) /\ t[1] = a /\ t[2] = b
         /\ \A k \in 3 .. 2 + Len(s) : t[k] = s[k - 2]
<1>1. <<a, b>> \in Seq({a, b} \cup S) /\ s \in Seq({a, b} \cup S) /\ Len(<<a, b>>) = 2
  OBVIOUS
<1> QED BY <1>1

(* The entries of a directory are its children, after "." and "..".        *)
LEMMA EntryCases ==
  ASSUME NEW d \in DirNode, NEW i \in DOMAIN Entries[d]
  PROVE  /\ i \in Nat
         /\ \/ d # Root /\ i = 1 /\ Entries[d][i] = Entry(".", d)
            \/ d # Root /\ i = 2 /\ Entries[d][i] = Entry("..", Parent(d))
            \/ \E n \in ToSet(Children[d]) : n \in Node \ {Root} /\ Entries[d][i] = Entry(n, n)
<1> DEFINE children == [k \in DOMAIN Children[d] |-> Entry(Children[d][k], Children[d][k])]
           two == <<Entry(".", d), Entry("..", Parent(d))>>
<1>1. Children[d] \in Seq(Node \ {Root}) BY TreeAssumption
<1>2. ASSUME NEW k \in DOMAIN Children[d]
      PROVE  \E n \in ToSet(Children[d]) : n \in Node \ {Root} /\ children[k] = Entry(n, n)
  <2>1. Children[d][k] \in ToSet(Children[d]) BY DEF ToSet
  <2>2. Children[d][k] \in Node \ {Root} BY <1>1
  <2> QED BY <2>1, <2>2
<1>3. children \in Seq({Entry(n, n) : n \in Node}) /\ Len(children) = Len(Children[d])
      /\ DOMAIN children = DOMAIN Children[d]
  BY <1>1
<1>4. CASE d = Root
  <2>1. Entries[d] = children BY <1>4 DEF Entries
  <2> HIDE DEF children
  <2>2. i \in DOMAIN Children[d] /\ i \in Nat BY <1>1, <1>3, <2>1
  <2> QED BY <1>2, <2>1, <2>2
<1>5. CASE d # Root
  <2>1. Entries[d] = two \o children BY <1>5 DEF Entries
  <2> HIDE DEF children
  <2>2. /\ DOMAIN Entries[d] = 1 .. 2 + Len(children)
        /\ Entries[d][1] = Entry(".", d) /\ Entries[d][2] = Entry("..", Parent(d))
        /\ \A k \in 3 .. 2 + Len(children) : Entries[d][k] = children[k - 2]
    BY <1>3, <2>1, AfterTwo
  <2>3. i \in 1 .. 2 + Len(children) /\ Len(children) \in Nat BY <1>3, <2>2
  <2>4. CASE i = 1 BY <1>5, <2>2, <2>3, <2>4
  <2>5. CASE i = 2 BY <1>5, <2>2, <2>3, <2>5
  <2>6. CASE i > 2
    <3>1. i - 2 \in DOMAIN Children[d] /\ i \in 3 .. 2 + Len(children) BY <1>1, <1>3, <2>3, <2>6
    <3>2. Entries[d][i] = children[i - 2] BY <2>2, <3>1
    <3> QED BY <1>2, <2>3, <3>1, <3>2
  <2> QED BY <2>3, <2>4, <2>5, <2>6
<1> QED BY <1>4, <1>5

LEMMA ParentEntry ==
  ASSUME NEW d \in DirNode \ {Root}
  PROVE  Entries[d][2].node = Parent(d)
<1> DEFINE children == [k \in DOMAIN Children[d] |-> Entry(Children[d][k], Children[d][k])]
           two == <<Entry(".", d), Entry("..", Parent(d))>>
<1>1. Children[d] \in Seq(Node \ {Root}) BY TreeAssumption
<1>2. children \in Seq({Entry(n, n) : n \in Node}) BY <1>1
<1>3. Entries[d] = two \o children BY DEF Entries
<1> HIDE DEF children
<1>5. Entries[d][2] = Entry("..", Parent(d)) BY <1>2, <1>3, AfterTwo
<1> QED BY <1>5 DEF Entry

(* A name leads to the child's own entry, or nowhere.                      *)
LEMMA NamedEntry ==
  ASSUME NEW c \in Place, ~ c.done, c.node \in DirNode, NEW token, token \notin {"", ".", ".."}
  PROVE  \/ NextToken(c, token) = NotFound
         \/ \E i \in Nat, n \in Node :
              /\ Entries[c.node][i].node = n /\ NextToken(c, token) = FoundAt(c, i)
              /\ n # Root /\ i \in DOMAIN Entries[Parent(n)] /\ Entries[Parent(n)][i].node = n
<1> DEFINE here == {i \in DOMAIN Entries[c.node] : Entries[c.node][i].name = token}
           i == CHOOSE k \in here : TRUE
<1>1. NextToken(c, token) = IF here = {} THEN NotFound ELSE FoundAt(c, i) BY DEF NextToken
<1>2. CASE here = {} BY <1>1, <1>2
<1>3. CASE here # {}
  <2>1. i \in here BY <1>3
  <2>2. i \in DOMAIN Entries[c.node] /\ Entries[c.node][i].name = token BY <2>1
  <2> HIDE DEF i, here
  <2>3. i \in Nat BY <2>2, EntryCases
  <2>4. PICK n \in ToSet(Children[c.node]) :
          n \in Node \ {Root} /\ Entries[c.node][i] = Entry(n, n)
    <3>1. Entry(".", c.node).name = "." /\ Entry("..", Parent(c.node)).name = ".." BY DEF Entry
    <3>2. Entries[c.node][i] # Entry(".", c.node) /\ Entries[c.node][i] # Entry("..", Parent(c.node))
      BY <2>2, <3>1
    <3> QED BY <2>2, <3>2, EntryCases
  <2>5. Entries[c.node][i].node = n
    <3>1. Entry(n, n).node = n BY DEF Entry
    <3> QED BY <2>4, <3>1, Zenon
  <2>6. Parent(n) = c.node BY <2>4, OneParent
  <2> QED BY <1>1, <1>3, <2>2, <2>3, <2>4, <2>5, <2>6
<1> QED BY <1>2, <1>3

LEMMA NextTokenPlace ==
  ASSUME NEW c \in Place, NEW token
  PROVE  NextToken(c, token) \in Place
<1>1. CASE c.done BY <1>1 DEF NextToken
<1>2. NotFound \in Place BY DEF NotFound, Place
<1>3. ASSUME NEW i \in Nat, NEW n \in Node, Entries[c.node][i].node = n
      PROVE  FoundAt(c, i) \in Place
  <2> DEFINE e == Entries[c.node][i].node
  <2>1. FoundAt(c, i) = [c EXCEPT !.node = e, !.index = i] BY DEF FoundAt
  <2>2. e \in Node BY <1>3
  <2> HIDE DEF e
  <2> QED BY <2>1, <2>2 DEF Place
<1>4. ASSUME ~ c.done, c.node \in DirNode PROVE NextToken(c, token) \in Place
  <2>1. CASE token = "" BY <1>4, <2>1 DEF NextToken, Place
  <2>2. CASE token = "." BY <1>4, <2>2 DEF NextToken
  <2>3. CASE token = ".." /\ c.node = Root BY <1>2, <1>4, <2>3 DEF NextToken
  <2>4. CASE token = ".." /\ c.node # Root
    <3>1. NextToken(c, token) = FoundAt(c, 2) BY <1>4, <2>4 DEF NextToken
    <3>2. Parent(c.node) \in Node BY <1>4, <2>4, ParentIsDir, TreeAssumption
    <3>3. Entries[c.node][2].node = Parent(c.node) BY <1>4, <2>4, ParentEntry
    <3> QED BY <1>3, <3>1, <3>2, <3>3
  <2>5. CASE token \notin {"", ".", ".."}
    <3>1. \/ NextToken(c, token) = NotFound
          \/ \E i \in Nat, n \in Node : /\ Entries[c.node][i].node = n
                                        /\ NextToken(c, token) = FoundAt(c, i)
      BY <1>4, <2>5, NamedEntry
    <3> QED BY <1>2, <1>3, <3>1
  <2> QED BY <2>1, <2>2, <2>3, <2>4, <2>5
<1>5. CASE ~ c.done /\ c.node \notin DirNode BY <1>2, <1>5 DEF NextToken
<1> QED BY <1>1, <1>4, <1>5

(* One more token: whether it names an entry.                              *)
LEMMA NamingNext ==
  ASSUME NEW tokens, NEW k \in Nat
  PROVE  /\ Naming(tokens, k + 1) = Naming(tokens, k) \cup
              {j \in {k + 1} : tokens[j] # "." /\ \A l \in 1 .. j : tokens[l] # ""}
         /\ k + 1 \in Naming(tokens, k + 1) => Max(Naming(tokens, k + 1)) = k + 1
<1>1. 1 .. k + 1 = (1 .. k) \cup {k + 1} OBVIOUS
<1>2. Naming(tokens, k + 1) \subseteq 1 .. k + 1 BY DEF Naming
<1>3. ASSUME NEW S, S \subseteq 1 .. k + 1, k + 1 \in S PROVE Max(S) = k + 1
  <2>1. \A y \in S : k + 1 >= y BY <1>3
  <2>2. \A x \in S : (\A y \in S : x >= y) => x = k + 1 BY <1>3
  <2> QED BY <1>3, <2>1, <2>2 DEF Max
<1>4. k + 1 \in Naming(tokens, k + 1) => Max(Naming(tokens, k + 1)) = k + 1 BY <1>2, <1>3
<1>5. Naming(tokens, k + 1) = Naming(tokens, k) \cup
        {j \in {k + 1} : tokens[j] # "." /\ \A l \in 1 .. j : tokens[l] # ""}
  BY <1>1 DEF Naming
<1> QED BY <1>4, <1>5

LEMMA NextTokenSound ==
  ASSUME NEW c \in Place, NEW tokens, NEW k \in Nat, Sound(tokens, k, c)
  PROVE  Sound(tokens, k + 1, NextToken(c, tokens[k + 1]))
<1> DEFINE m == k + 1
           token == tokens[m]
           new == {j \in {m} : tokens[j] # "." /\ \A l \in 1 .. j : tokens[l] # ""}
<1>1. /\ Naming(tokens, m) = Naming(tokens, k) \cup new
      /\ m \in Naming(tokens, m) => Max(Naming(tokens, m)) = m
  BY NamingNext
<1>2. /\ new = IF token # "." /\ \A l \in 1 .. m : tokens[l] # "" THEN {m} ELSE {}
      /\ (\A l \in 1 .. m : tokens[l] # "") <=> (\A l \in 1 .. k : tokens[l] # "") /\ token # ""
  <2>1. 1 .. m = (1 .. k) \cup {m} OBVIOUS
  <2> QED BY <2>1
<1> HIDE DEF m, new
<1> SUFFICES ASSUME NextToken(c, token).ok PROVE Sound(tokens, m, NextToken(c, token))
  BY DEF Sound, m
<1>3. ~ NotFound.ok BY DEF NotFound
<1>4. c.ok
  <2>1. CASE c.done BY <2>1 DEF NextToken
  <2>2. CASE ~ c.done /\ c.node \in DirNode
    <3>1. \A i : FoundAt(c, i).ok = c.ok BY DEF FoundAt, Place
    <3>2. [c EXCEPT !.done = TRUE].ok = c.ok BY DEF Place
    <3> QED BY <1>3, <2>2, <3>1, <3>2 DEF NextToken
  <2> QED BY <1>3, <2>1, <2>2 DEF NextToken
<1>5. /\ c.node \in Node /\ EntryFits(tokens, k, c.node, c.index)
      /\ ~ c.done <=> \A l \in 1 .. k : tokens[l] # ""
  BY <1>4 DEF Sound
<1>6. ASSUME Naming(tokens, m) = Naming(tokens, k)
      PROVE  EntryFits(tokens, m, c.node, c.index)
  BY <1>5, <1>6 DEF EntryFits
<1>7. CASE c.done
  <2>1. new = {} BY <1>2, <1>5, <1>7
  <2>2. NextToken(c, token) = c BY <1>7 DEF NextToken
  <2> QED BY <1>1, <1>2, <1>5, <1>6, <1>7, <2>1, <2>2 DEF Sound
<1>8. ASSUME ~ c.done, c.node \in DirNode, token \notin {"", "."},
             NEW i \in Nat, NEW n \in Node,
             Entries[c.node][i].node = n, NextToken(c, token) = FoundAt(c, i),
             IF token = ".." THEN i = 2 /\ n \in DirNode
             ELSE /\ n # Root
                  /\ i \in DOMAIN Entries[Parent(n)]
                  /\ Entries[Parent(n)][i].node = n
      PROVE  Sound(tokens, m, NextToken(c, token))
  <2> DEFINE e == Entries[c.node][i].node
             d == FoundAt(c, i)
  <2>1. d = [c EXCEPT !.node = e, !.index = i] BY DEF FoundAt
  <2>2. e = n BY <1>8
  <2> HIDE DEF e
  <2>3. d.node = n /\ d.index = i /\ d.done = c.done BY <2>1, <2>2 DEF Place
  <2>4. m \in Naming(tokens, m) BY <1>1, <1>2, <1>5, <1>8
  <2>5. Max(Naming(tokens, m)) = m /\ Naming(tokens, m) # {} BY <1>1, <2>4
  <2> HIDE DEF d
  <2>6. EntryFits(tokens, m, n, i) BY <1>8, <2>5 DEF EntryFits
  <2>7. NextToken(c, token) = d BY <1>8 DEF d
  <2> QED BY <1>2, <1>5, <1>8, <2>3, <2>6, <2>7 DEF Sound
<1>9. CASE ~ c.done /\ c.node \in DirNode /\ token = ""
  <2>1. NextToken(c, token) = [c EXCEPT !.done = TRUE] BY <1>9 DEF NextToken
  <2> DEFINE d == [c EXCEPT !.done = TRUE]
  <2>2. d.node = c.node /\ d.index = c.index /\ d.done BY DEF Place
  <2> HIDE DEF d
  <2>3. new = {} BY <1>2, <1>9
  <2>4. EntryFits(tokens, m, c.node, c.index) BY <1>1, <1>6, <2>3
  <2>5. NextToken(c, token) = d BY <2>1 DEF d
  <2> QED BY <1>2, <1>5, <1>9, <2>2, <2>4, <2>5 DEF Sound
<1>10. CASE ~ c.done /\ c.node \in DirNode /\ token = "."
  <2>1. NextToken(c, token) = c BY <1>10 DEF NextToken
  <2>2. new = {} BY <1>2, <1>10
  <2>3. EntryFits(tokens, m, c.node, c.index) BY <1>1, <1>6, <2>2
  <2> QED BY <1>2, <1>5, <1>10, <2>1, <2>3 DEF Sound
<1>11. CASE ~ c.done /\ c.node \in DirNode /\ token = ".."
  <2>1. c.node # Root BY <1>3, <1>11 DEF NextToken
  <2>2. NextToken(c, token) = FoundAt(c, 2) BY <1>11, <2>1 DEF NextToken
  <2>3. Parent(c.node) \in DirNode BY <1>11, <2>1, ParentIsDir, TreeAssumption
  <2>4. Entries[c.node][2].node = Parent(c.node) BY <1>11, <2>1, ParentEntry
  <2>5. Parent(c.node) \in Node BY <2>3, TreeAssumption
  <2> QED BY <1>8, <1>11, <2>2, <2>3, <2>4, <2>5
<1>12. CASE ~ c.done /\ c.node \in DirNode /\ token \notin {"", ".", ".."}
  <2>1. PICK i \in Nat, n \in Node :
          /\ Entries[c.node][i].node = n /\ NextToken(c, token) = FoundAt(c, i)
          /\ n # Root /\ i \in DOMAIN Entries[Parent(n)] /\ Entries[Parent(n)][i].node = n
    BY <1>3, <1>12, NamedEntry
  <2> QED BY <1>8, <1>12, <2>1
<1>13. CASE ~ c.done /\ c.node \notin DirNode BY <1>3, <1>13 DEF NextToken
<1> QED BY <1>7, <1>9, <1>10, <1>11, <1>12, <1>13

(* However many tokens a path has.                                         *)
LEMMA GetFileSound ==
  ASSUME NEW start \in DirNode, NEW tokens, Len(tokens) \in Nat
  PROVE  Sound(tokens, Len(tokens), GetFile(start, tokens))
<1> DEFINE N == Len(tokens)
           D == [x \in Place \X (1 .. N) |-> NextToken(x[1], tokens[x[2]])]
           Walk(g) == g = [k \in 0 .. N |-> IF k = 0 THEN Begin(start)
                                            ELSE NextToken(g[k - 1], tokens[k])]
<1>1. Begin(start) \in Place BY TreeAssumption DEF Begin, Place
<1>2. \A c \in Place : \A token : NextToken(c, token) \in Place BY NextTokenPlace
<1>3. GetFile(start, tokens) = (CHOOSE g : Walk(g))[N] BY DEF GetFile
<1>4. D \in [Place \X (1 .. N) -> Place] BY <1>2
<1>5. \E g : Walk(g) /\ \A k \in 0 .. N : g[k] \in Place
  <2>1. PICK g : Unfolds(g, Place, Begin(start), N, D)
    <3>1. N \in Nat OBVIOUS
    <3>2. D \in [Place \X (1 .. N) -> Place] /\ Begin(start) \in Place BY <1>1, <1>4
    <3> HIDE DEF D, N
    <3> QED BY <3>1, <3>2, Recursion
  <2>2. ASSUME NEW k \in 1 .. N PROVE g[k] = NextToken(g[k - 1], tokens[k])
    <3>1. g[k - 1] \in Place BY <2>1 DEF Unfolds
    <3>2. <<g[k - 1], k>> \in Place \X (1 .. N) BY <3>1
    <3> QED BY <2>1, <3>2 DEF Unfolds
  <2>3. \A k \in 0 .. N : g[k] = IF k = 0 THEN Begin(start) ELSE NextToken(g[k - 1], tokens[k])
    BY <2>1, <2>2 DEF Unfolds
  <2>4. g = [k \in 0 .. N |-> g[k]] BY <2>1 DEF Unfolds
  <2>5. \A k \in 0 .. N : g[k] \in Place BY <2>1 DEF Unfolds
  <2> QED BY <2>3, <2>4, <2>5
<1>6. PICK g : Walk(g) /\ g[N] = GetFile(start, tokens) BY <1>3, <1>5
<1> DEFINE T == {k \in Nat : k <= N => g[k] \in Place /\ Sound(tokens, k, g[k])}
<1>7. 0 \in T
  <2>1. g[0] = Begin(start) BY <1>6
  <2>2. Naming(tokens, 0) = {} BY DEF Naming
  <2>3. Sound(tokens, 0, Begin(start)) BY <2>2, TreeAssumption DEF Begin, Sound, EntryFits
  <2> QED BY <1>1, <2>1, <2>3
<1>8. ASSUME NEW k \in Nat, k \in T PROVE k + 1 \in T
  <2> SUFFICES ASSUME k + 1 <= N
               PROVE  g[k + 1] \in Place /\ Sound(tokens, k + 1, g[k + 1])
    OBVIOUS
  <2>1. g[k] \in Place /\ Sound(tokens, k, g[k]) BY <1>8
  <2>2. g[k + 1] = NextToken(g[k], tokens[k + 1]) BY <1>6
  <2> QED BY <1>2, <2>1, <2>2, NextTokenSound
<1> HIDE DEF T
<1>9. N \in T BY <1>7, <1>8, NatSetInduction
<1>10. Sound(tokens, N, g[N]) BY <1>9 DEF T
<1> QED BY <1>6, <1>10

LEMMA LookupIsSound == IInv => LookupSound
<1> SUFFICES ASSUME IInv, NEW p \in Paths, NEW n \in Node, NEW i \in Index, Leads(p, n, i)
             PROVE  EntryFits(p.tokens, Len(p.tokens), n, i)
  BY DEF LookupSound
<1> DEFINE start == IF p.abs \/ current_dir = None THEN Root ELSE handle_table[current_dir].node
<1>1. start \in DirNode
  <2>1. CASE p.abs \/ current_dir = None BY <2>1, TreeAssumption
  <2>2. CASE ~ (p.abs \/ current_dir = None)
    <3>1. IsOpenDir(current_dir) BY <2>2 DEF Leads
    <3>2. handle_table[current_dir].node \in DirNode
      BY <3>1 DEF IsOpenDir, IsOpen, IInv, DirFlags
    <3> QED BY <2>2, <3>2
  <2> QED BY <2>1, <2>2
<1> DEFINE Token == Node \cup {".", "..", "", "missing"}
<1>2. p.tokens \in Seq(Token) BY PathsAssumption
<1> HIDE DEF Token
<1>3. Len(p.tokens) \in Nat BY <1>2
<1>4. Lookup[start][p.tokens] = GetFile(start, p.tokens) BY <1>1 DEF Lookup
<1>5. /\ Lookup[start][p.tokens].ok
      /\ Lookup[start][p.tokens].node = n /\ Lookup[start][p.tokens].index = i
  BY DEF Leads
<1> HIDE DEF start
<1>6. Sound(p.tokens, Len(p.tokens), GetFile(start, p.tokens)) BY <1>1, <1>3, GetFileSound
<1> QED BY <1>4, <1>5, <1>6 DEF Sound

(* Whatever path is looked up, the index that is returned is that of the   *)
(* node's entry, or that of the ".." which is the path's last name, for    *)
(* any tree and paths of any length (fat32GetFile).                        *)
THEOREM LookupReturnsEntry == Spec => []LookupSound
<1> QED BY LookupIsSound, Invariance, PTL

-----------------------------------------------------------------------------
DirInv == IInv /\ CurrentDirIsDir

LEMMA FittingAttribute ==
  ASSUME NEW n \in Node, NEW i \in Index, NEW tokens, NEW k, EntryFits(tokens, k, n, i),
         AttributeIsDir(FileHandle(n, i)), ~ AttributeCrashes(FileHandle(n, i))
  PROVE  n \in DirNode
<1>1. CASE n = Root BY <1>1, TreeAssumption
<1>2. CASE n # Root
  <2>1. Parent(n) # None BY <1>2, TreeAssumption DEF Parent
  <2>2. i # None BY <2>1 DEF AttributeCrashes, FileHandle
  <2>3. CASE i = 2 /\ n \in DirNode BY <2>3
  <2>4. CASE i \in DOMAIN Entries[Parent(n)] /\ Entries[Parent(n)][i].node = n
    BY <2>1, <2>4 DEF AttributeIsDir, FileHandle
  <2> QED BY <2>2, <2>3, <2>4 DEF EntryFits
<1> QED BY <1>1, <1>2

LEMMA DirStep == DirInv /\ [Next]_vars => DirInv'
<1> SUFFICES ASSUME DirInv, [Next]_vars PROVE DirInv' OBVIOUS
<1>1. IInv /\ IInv' /\ LookupSound BY StepInv, LookupIsSound DEF DirInv
<1>2. TypeOK /\ HandlesAccounted /\ CurrentDirIsDir BY <1>1 DEF IInv, DirInv
<1> SUFFICES ASSUME driver', ~ carried'
             PROVE  IsOpenDir(current_dir)' /\ handle_table'[current_dir'].node \in DirNode
  BY <1>1 DEF DirInv, CurrentDirIsDir
<1>3. CASE Enter
  <2>1. 1 \in Handle BY HandlesAssumption DEF Handle
  <2>2. handle_table'[1] = FileHandle(Root, None) /\ current_dir' = 1
    BY <1>3, <2>1 DEF Enter, Closed
  <2>3. FileHandle(Root, None) \in HandleType
    BY FileHandleType, FirstIndex, TreeAssumption
  <2>4. FileHandle(Root, None) # None BY <2>3, NoneAssumption
  <2>5. /\ FileHandle(Root, None).dir /\ ~ FileHandle(Root, None).query
        /\ FileHandle(Root, None).node \in DirNode
    BY TreeAssumption DEF FileHandle
  <2> QED BY <2>1, <2>2, <2>4, <2>5 DEF IsOpenDir, IsOpen
<1>4. CASE Exit BY <1>4 DEF Exit
<1>5. ASSUME driver, ~ carried, current_dir' = current_dir,
             handle_table'[current_dir] = handle_table[current_dir]
      PROVE  IsOpenDir(current_dir)' /\ handle_table'[current_dir'].node \in DirNode
  BY <1>2, <1>5 DEF CurrentDirIsDir, IsOpenDir, IsOpen
<1>6. ASSUME NEW h \in Handle, NEW hdl, FirstFree(h), driver, ~ carried,
             handle_table' = [handle_table EXCEPT ![h] = hdl]
      PROVE  handle_table'[current_dir] = handle_table[current_dir]
  BY <1>2, <1>6 DEF CurrentDirIsDir, IsOpenDir, IsOpen, FirstFree, TypeOK
<1>7. ASSUME NEW p \in Paths, OpenFile(p)
      PROVE  IsOpenDir(current_dir)' /\ handle_table'[current_dir'].node \in DirNode
  <2>1. PICK h \in Handle, n \in Node, i \in Index :
          FirstFree(h) /\ handle_table' = [handle_table EXCEPT ![h] = FileHandle(n, i)]
    BY <1>7 DEF OpenFile, Opens
  <2>2. driver /\ ~ carried /\ current_dir' = current_dir BY <1>7 DEF OpenFile
  <2>3. handle_table'[current_dir] = handle_table[current_dir] BY <1>6, <2>1, <2>2
  <2> QED BY <1>5, <2>2, <2>3
<1>8. ASSUME NEW p \in Paths, Cd(p)
      PROVE  IsOpenDir(current_dir)' /\ handle_table'[current_dir'].node \in DirNode
  <2>1. PICK h \in Handle, n \in Node, i \in Index :
          /\ FirstFree(h) /\ Leads(p, n, i)
          /\ \/ LoseHandle(h, FileHandle(n, i))
             \/ ~ AttributeCrashes(FileHandle(n, i)) /\ ChangeDir(h, FileHandle(n, i))
             \/ AttributeCrashes(FileHandle(n, i)) /\ Crash
    BY <1>8 DEF Cd, Opens
  <2> DEFINE hdl == FileHandle(n, i)
  <2>2. CASE LoseHandle(h, hdl)
    <3>1. driver /\ ~ carried /\ current_dir' = current_dir
          /\ handle_table' = [handle_table EXCEPT ![h] = hdl]
      BY <2>2 DEF LoseHandle
    <3>2. handle_table'[current_dir] = handle_table[current_dir] BY <1>6, <2>1, <3>1
    <3> QED BY <1>5, <3>1, <3>2
  <2>3. CASE Crash BY <1>5, <2>3 DEF Crash
  <2>4. CASE ~ AttributeCrashes(hdl) /\ ChangeDir(h, hdl)
    <3>1. driver /\ ~ carried /\ current_dir' = h
          /\ handle_table' = CloseIn([handle_table EXCEPT ![h] = hdl], current_dir)
          /\ AttributeIsDir(hdl)
      BY <2>4 DEF ChangeDir
    <3>2. IsOpenDir(current_dir) /\ handle_table[current_dir].node \in DirNode
      BY <1>2, <3>1 DEF CurrentDirIsDir
    <3>3. h # current_dir BY <2>1, <3>2 DEF FirstFree, IsOpenDir, IsOpen
    <3>4. EntryFits(p.tokens, Len(p.tokens), n, i) BY <1>1, <2>1 DEF LookupSound
    <3>5. n \in DirNode BY <2>4, <3>1, <3>4, FittingAttribute
    <3>6. handle_table'[h] = hdl
      BY <1>2, <3>1, <3>3 DEF CloseIn, TypeOK
    <3>7. hdl # None BY FileHandleType, NoneAssumption
    <3>8. hdl.dir /\ ~ hdl.query /\ hdl.node \in DirNode BY <3>5 DEF FileHandle
    <3> HIDE DEF hdl
    <3> QED BY <3>1, <3>6, <3>7, <3>8 DEF IsOpenDir, IsOpen
  <2> QED BY <2>1, <2>2, <2>3, <2>4
<1>9. CASE CloseFile
  <2>1. driver /\ ~ carried /\ current_dir' = current_dir
        /\ handle_table' = CloseIn(handle_table, current_file)
    BY <1>9 DEF CloseFile
  <2>2. current_dir # current_file BY <1>2, <2>1 DEF HandlesAccounted
  <2>3. handle_table'[current_dir] = handle_table[current_dir]
    BY <1>2, <2>1, <2>2 DEF CloseIn, CurrentDirIsDir, IsOpenDir, IsOpen, TypeOK
  <2> QED BY <1>5, <2>1, <2>3
<1>10. CASE LsOutOfMemory
  <2>1. driver /\ ~ carried /\ current_dir' = current_dir BY <1>10 DEF LsOutOfMemory
  <2>2. PICK h \in Handle, hdl \in {handle_table'[g] : g \in Handle} :
          FirstFree(h) /\ handle_table' = [handle_table EXCEPT ![h] = hdl]
    <3>1. PICK h \in Handle :
            /\ FirstFree(h)
            /\ handle_table' = [handle_table EXCEPT ![h] =
                 [dir |-> Entries[handle_table[current_dir].node][1].node \in DirNode,
                  query |-> TRUE, node |-> Entries[handle_table[current_dir].node][1].node,
                  parent |-> handle_table[current_dir].node, index |-> 1]]
      BY <1>10 DEF LsOutOfMemory
    <3>2. handle_table' = [handle_table EXCEPT ![h] = handle_table'[h]]
      BY <1>2, <3>1 DEF TypeOK
    <3> DEFINE hdl == handle_table'[h]
    <3>3. hdl \in {handle_table'[g] : g \in Handle} OBVIOUS
    <3> HIDE DEF hdl
    <3>4. handle_table' = [handle_table EXCEPT ![h] = hdl] BY <3>2 DEF hdl
    <3> QED BY <3>1, <3>3, <3>4
  <2>3. handle_table'[current_dir] = handle_table[current_dir] BY <1>6, <2>1, <2>2
  <2> QED BY <1>5, <2>1, <2>3
<1>11. CASE AttributeGet BY <1>5, <1>11 DEF AttributeGet, Crash
<1>12. CASE UNCHANGED vars BY <1>5, <1>12 DEF vars
<1> QED BY <1>3, <1>4, <1>7, <1>8, <1>9, <1>10, <1>11, <1>12 DEF Next

(* Relative paths start at an open directory, unless a file was left open  *)
(* over an exit: no sequence of cd, open, close and failing ls breaks it,  *)
(* although cd judges the new handle by the index of its lookup.           *)
THEOREM CurrentDirKept == Spec => []CurrentDirIsDir
<1>1. Init => DirInv BY InitInv DEF Init, DirInv, CurrentDirIsDir
<1>2. DirInv /\ [Next]_vars => DirInv' BY DirStep
<1>3. DirInv => CurrentDirIsDir BY DEF DirInv
<1> QED BY <1>1, <1>2, <1>3, PTL DEF Spec
=============================================================================
