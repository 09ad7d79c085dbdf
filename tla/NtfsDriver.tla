----------------------------- MODULE NtfsDriver -----------------------------
(***************************************************************************)
(* The NTFS driver (ntfs.c) under the shell (execFsCmd in commands.c): its *)
(* handle table, the lookup of a path, and the query that ls drives from   *)
(* the directory on, which is one more handle of the same table.           *)
(*                                                                         *)
(* A file is its MFT record.  Entries is what getNextIndexValue returns    *)
(* for a directory, in order, and Unlisted what it does not return because *)
(* NTFSGetDirEntries reads no index root that has index records below it   *)
(* (NtfsIndex has that loop); a file can have several entries, of which    *)
(* its record names one first.  Offsets into an index are positions.  A    *)
(* command that fails and changes nothing is a stuttering step.            *)
(***************************************************************************)
EXTENDS Integers, FiniteSets, SequencesExt

CONSTANTS
  File,         \* MFT records in use
  Root,         \* record 5
  Dir,          \* the directories
  Small,        \* directories whose index is within the record
  Name,         \* names of entries
  Entries,      \* the index of a directory, as far as it is read
  Unlisted,     \* its entries that are not read
  FirstName,    \* the first FILE_NAME attribute of a record
  Paths,        \* bound: what the user types, as parsePath splits it
  MaxHandles,   \* MAX_NTFS_HANDLES: slot 0 is never given out
  MaxRecursion, \* 0xFFFF
  PageSize,     \* what VirtualAlloc rounds up to
  Limits,       \* bound: what the user types after -rl
  None          \* INVALID_HANDLE_VALUE, a null record, an unused slot, no query

Handle == 1 .. MaxHandles - 1

Above(d) == FirstName[d].dir

ASSUME TreeAssumption ==
  /\ Root \in Dir /\ Dir \subseteq File /\ Small \subseteq Dir /\ None \notin File
  /\ Name \cap {"", ".."} = {}
  /\ Entries \in [Dir -> Seq([name : Name, file : File])]
  /\ Unlisted \in [Dir -> SUBSET [name : Name, file : File]]
  /\ \A d \in Small : Unlisted[d] = {}
  /\ FirstName \in [File -> [name : Name, dir : Dir]]
  /\ FirstName[Root] = [name |-> ".", dir |-> Root]
  /\ \A f \in File :
       [name |-> FirstName[f].name, file |-> f] \in ToSet(Entries[Above(f)]) \cup Unlisted[Above(f)]
  /\ \A d \in Dir : Entries[d] = <<>> => d \in Small

(* A name is in a directory once, a directory other than the root in one.  *)
ASSUME NamesAssumption ==
  /\ \A d \in Dir : \A i, j \in DOMAIN Entries[d] :
       Entries[d][i].name = Entries[d][j].name => i = j
  /\ \A d \in Dir : \A i \in DOMAIN Entries[d], e \in Unlisted[d] : Entries[d][i].name # e.name
  /\ \A d \in Dir : \A i \in DOMAIN Entries[d] :
       Entries[d][i].file \in Dir \ {Root} => Above(Entries[d][i].file) = d

Ancestor[n \in 0 .. Cardinality(File)] ==
  [f \in File |-> IF n = 0 THEN f ELSE Ancestor[n - 1][Above(f)]]

(* The first names lead up to the root, which alone is called ".".         *)
ASSUME FirstNamesAssumption ==
  /\ IsFiniteSet(File)
  /\ \A f \in File : Ancestor[Cardinality(File)][f] = Root
  /\ \A f \in File \ {Root} : FirstName[f].name # "."

ASSUME HandlesAssumption == MaxHandles \in Nat /\ MaxHandles >= 2 /\ None \notin Handle
ASSUME LimitsAssumption  == MaxRecursion \in Nat \ {0} /\ Limits \subseteq Nat
ASSUME PageAssumption    == PageSize \in Nat \ {0}

(* A path that starts with an empty token is absolute; one without tokens  *)
(* is what the user gets for "".                                           *)
ASSUME PathsAssumption == Paths \subseteq Seq(Name \cup {".", "..", ""})

VARIABLES
  alive,         \* the process has not crashed
  driver,        \* the shell holds a driver instance
  handle_table,  \* its handles, None for a slot without NTFS_HANDLE_OPEN
  current_dir,
  current_file,
  pc,            \* where the loop of ls is: "idle", "show", "next", "close"
  walk,          \* the query handle of ls and its NTFS_QUERY_INFO
  visited,       \* history: the entries the query returned, unless it went astray
  carried,       \* history: current_file was already set when this instance was made
  lost           \* history: handles that failed commands of this instance left open

session == <<driver, current_dir, current_file, carried>>
vars == <<alive, driver, handle_table, current_dir, current_file, pc, walk, visited, carried, lost>>

-----------------------------------------------------------------------------
(* NTFSGetFile.  The cursor holds the record in the buffer and the value   *)
(* the search goes on from: None until a directory that has entries was    *)
(* read, and an old one after a directory that has none.                   *)
Value(d, i) == [dir |-> d, from |-> i]

FirstValue(d, old) == IF Entries[d] = <<>> THEN old ELSE Value(d, 1)

Stop(c, how) == [c EXCEPT !.state = how]

Begin(f) ==
  [state |-> IF f \in Dir THEN "found" ELSE "failed", file |-> f,
   value |-> IF f \in Dir THEN FirstValue(f, None) ELSE None]

Crashed == [state |-> "crashed", file |-> None, value |-> None]

(* _next_file: only the last token may lead to something else than a       *)
(* directory.                                                              *)
Reach(c, f, last) ==
  IF last THEN [c EXCEPT !.file = f]
  ELSE IF f \in Dir THEN [c EXCEPT !.file = f, !.value = FirstValue(f, @)]
  ELSE Stop(c, "failed")

\* mutant: the search starts after the value
HitsAfter(value, name) ==
  {i \in value.from + 1 .. Len(Entries[value.dir]) : Entries[value.dir][i].name = name}

Hits(value, name) ==
  {i \in value.from .. Len(Entries[value.dir]) : Entries[value.dir][i].name = name}

Named(name) ==
  {f \in File : \E d \in Dir :
     [name |-> name, file |-> f] \in ToSet(Entries[d]) \cup Unlisted[d]}

(* In a directory without entries the value is not initialised (anything   *)
(* that was once read may be behind it), or it is in the index of the      *)
(* directory before, which is still there if that index was small, because *)
(* VirtualFree does not free heap memory, and unmapped otherwise.          *)
Search(c, name, last) ==
  IF c.value = None
    THEN {Crashed, Stop(c, "failed")} \cup {Reach(c, f, last) : f \in Named(name)}
  ELSE IF c.value.dir # c.file /\ c.value.dir \notin Small THEN {Crashed}
  ELSE IF Hits(c.value, name) = {} THEN {Stop(c, "failed")}
  ELSE LET i == Min(Hits(c.value, name)) IN
       {Reach([c EXCEPT !.value.from = i], Entries[c.value.dir][i].file, last)}

Token(c, tokens, i) ==
  LET last == i = Len(tokens) IN
  IF c.state # "found" \/ tokens[i] = "." \/ (tokens[i] = "" /\ i = 1) THEN {c}
  ELSE IF tokens[i] = ".." THEN {Reach(c, Above(c.file), last)}
  ELSE Search(c, tokens[i], last)

GetFile(start, tokens) ==
  LET cursors[i \in 0 .. Len(tokens)] ==
        IF i = 0 THEN {Begin(start)}
        ELSE UNION {Token(c, tokens, i) : c \in cursors[i - 1]}
  IN cursors[Len(tokens)]

Lookup == [start \in File |-> [p \in Paths |-> GetFile(start, p)]]

IsOpen(h) == h \in Handle /\ handle_table[h] # None

IsOpenDir(h) == IsOpen(h) /\ handle_table[h].dir

(* A relative path starts with a copy of the current directory's record.   *)
(* Slot h is already marked open: if the number in current_dir is stale    *)
(* and is h, there is no record to copy yet.                               *)
FromCurrent(h, p) ==
  IF current_dir = h \/ (IsOpen(current_dir) /\ handle_table[current_dir].file = None)
    THEN {Crashed}
  ELSE IF IsOpen(current_dir) THEN Lookup[handle_table[current_dir].file][p]
  ELSE {Stop(Crashed, "failed")}

(* Without tokens the first one is read all the same.                      *)
Resolved(h, p) ==
  IF p = <<>> THEN {Crashed} \cup Lookup[Root][p] \cup FromCurrent(h, p)
  ELSE IF p[1] = "" THEN Lookup[Root][p]
  ELSE FromCurrent(h, p)

-----------------------------------------------------------------------------
(* allocHandle.                                                            *)
FirstFree(h) == handle_table[h] = None /\ \A g \in Handle : g < h => handle_table[g] # None

Slot(f) == [query |-> FALSE, dir |-> f \in Dir, file |-> f]

QuerySlot(f) == [query |-> TRUE, dir |-> f \in Dir, file |-> f]

(* What FSGetFirst leaves behind when the directory has no entries.        *)
EmptySlot == [query |-> TRUE, dir |-> FALSE, file |-> None]

SlotType == {Slot(f) : f \in File} \cup {QuerySlot(f) : f \in File} \cup {EmptySlot}

ASSUME NoneAssumption == None \notin SlotType \cup {Value(d, 1) : d \in Dir}

Closed == [h \in Handle |-> None]

\* mutant: the slot is not given back
CloseInForgets(table, h) == table

CloseIn(table, h) == IF h \in Handle THEN [table EXCEPT ![h] = None] ELSE table

Init ==
  /\ alive = TRUE /\ driver = FALSE /\ carried = FALSE
  /\ handle_table = Closed
  /\ current_dir = None /\ current_file = None
  /\ pc = "idle" /\ walk = None /\ visited = <<>>
  /\ lost = {}

Crash ==
  /\ alive' = FALSE
  /\ UNCHANGED <<session, handle_table, pc, walk, visited, lost>>

Serving == alive /\ driver /\ pc = "idle"

(* enter: createNTFSDriver and an open of "/".                             *)
Enter ==
  /\ alive /\ ~ driver /\ pc = "idle"
  /\ driver' = TRUE
  /\ handle_table' = [Closed EXCEPT ![1] = Slot(Root)]
  /\ current_dir' = 1
  /\ carried' = (current_file # None)
  /\ lost' = {}
  /\ UNCHANGED <<alive, current_file, pc, walk, visited>>

(* exit: the table goes, the globals of the shell stay.                    *)
Exit ==
  /\ Serving
  /\ driver' = FALSE
  /\ handle_table' = Closed
  /\ lost' = {}
  /\ UNCHANGED <<alive, current_dir, current_file, carried, pc, walk, visited>>

(* NTFSOpen.                                                               *)
Opens(p, h, f) == FirstFree(h) /\ \E c \in Resolved(h, p) : c.state = "found" /\ c.file = f

OpenCrashes(p) == \E h \in Handle : FirstFree(h) /\ Crashed \in Resolved(h, p)

OpenFile(p) ==
  /\ Serving
  /\ current_file = None
  /\ \/ \E h \in Handle, f \in File :
          /\ Opens(p, h, f)
          /\ handle_table' = [handle_table EXCEPT ![h] = Slot(f)]
          /\ current_file' = h
          /\ UNCHANGED <<alive, driver, current_dir, carried, pc, walk, visited, lost>>
     \/ OpenCrashes(p) /\ Crash

(* cd: a file is closed again, a directory takes the place of the old one. *)
Cd(p) ==
  /\ Serving
  /\ \/ \E h \in Handle, f \in Dir :
          /\ Opens(p, h, f)
          /\ handle_table' = CloseIn([handle_table EXCEPT ![h] = Slot(f)], current_dir)
          /\ current_dir' = h
          /\ UNCHANGED <<alive, driver, current_file, carried, pc, walk, visited, lost>>
     \/ OpenCrashes(p) /\ Crash

CloseFile ==
  /\ Serving
  /\ current_file # None
  /\ handle_table' = CloseIn(handle_table, current_file)
  /\ current_file' = None
  /\ UNCHANGED <<alive, driver, current_dir, carried, pc, walk, visited, lost>>

(* attribute get: reads the record, which a slot that ls left has not got. *)
AttributeGet ==
  /\ Serving
  /\ IsOpen(current_file) /\ handle_table[current_file].file = None
  /\ Crash

-----------------------------------------------------------------------------
(* ls.  FSGetFirst does not look at what allocHandle returns.              *)
GetFirstFull ==
  /\ Serving /\ IsOpenDir(current_dir)
  /\ \A h \in Handle : handle_table[h] # None
  /\ Crash

Here == handle_table[current_dir].file

(* It fails for an empty directory and keeps the handle ...                *)
GetFirstEmpty ==
  /\ Serving /\ IsOpenDir(current_dir)
  /\ Entries[Here] = <<>>
  /\ \E h \in Handle :
       /\ FirstFree(h)
       /\ handle_table' = [handle_table EXCEPT ![h] = EmptySlot]
       /\ lost' = lost \cup {h}
  /\ UNCHANGED <<session, alive, pc, walk, visited>>

(* ... as ls does if it gets no memory for the path.                       *)
LsOutOfMemory ==
  /\ Serving /\ IsOpenDir(current_dir)
  /\ Entries[Here] # <<>>
  /\ \E h \in Handle :
       /\ FirstFree(h)
       /\ handle_table' = [handle_table EXCEPT ![h] = QuerySlot(Entries[Here][1].file)]
       /\ lost' = lost \cup {h}
  /\ UNCHANGED <<session, alive, pc, walk, visited>>

(* The limit is taken modulo 2^32 less one, so that 0 is no limit.         *)
Clamped(recursive, limit) ==
  IF ~ recursive THEN 1
  ELSE IF limit = 0 \/ limit > MaxRecursion THEN MaxRecursion
  ELSE limit

(* The buffer for the offsets on the way down: it is allocated with 4      *)
(* bytes for each level of the limit, in whole pages, and an offset has 8. *)
Places(limit) == (((limit * 4 + PageSize - 1) \div PageSize) * PageSize) \div 8

GetFirst(recursive, limit) ==
  /\ Serving /\ IsOpenDir(current_dir)
  /\ Entries[Here] # <<>>
  /\ \E h \in Handle :
       /\ FirstFree(h)
       /\ handle_table' = [handle_table EXCEPT ![h] = QuerySlot(Entries[Here][1].file)]
       /\ walk' = [handle |-> h, start |-> Here, recursive |-> recursive,
                   limit |-> Clamped(recursive, limit), dir |-> Here, index |-> 1,
                   depth |-> 0, indices |-> <<>>, astray |-> FALSE]
  /\ visited' = <<<<Here, 1>>>>
  /\ pc' = "show"
  /\ UNCHANGED <<session, alive, lost>>

(* FSGetPath: the first names up to the root, which is named by its own.   *)
\* mutant: stops at the name
PathOfName(f) == <<"", FirstName[f].name>>

PathOf(f) ==
  LET climb[n \in 0 .. Cardinality(File)] ==
        [g \in File |->
           IF n = 0 \/ Above(g) = Root THEN <<FirstName[g].name>>
           ELSE Append(climb[n - 1][Above(g)], FirstName[g].name)]
  IN <<"">> \o climb[Cardinality(File)][f]

Current == handle_table[walk.handle].file

Show ==
  /\ alive /\ pc = "show"
  /\ pc' \in {"next", "close"}   \* "close": a record could not be read
  /\ UNCHANGED <<session, alive, handle_table, walk, visited, lost>>

-----------------------------------------------------------------------------
(* FSGetNext.                                                              *)
Return(d, i, depth, indices, astray) ==
  /\ walk' = [walk EXCEPT !.dir = d, !.index = i, !.depth = depth,
                          !.indices = indices, !.astray = astray]
  /\ handle_table' = [handle_table EXCEPT ![walk.handle] = QuerySlot(Entries[d][i].file)]
  /\ visited' = IF astray THEN <<>> ELSE Append(visited, <<d, i>>)
  /\ pc' = "show"
  /\ UNCHANGED <<session, alive, lost>>

(* An offset is written in the place for the current depth, on the way     *)
(* down and on the way up, where nothing reads it; behind the buffer there *)
(* is either no memory or that of others, which is not followed but for    *)
(* what is read of it as an offset later.                                  *)
HasPlace == walk.depth < Places(walk.limit)

SaveAndReturn(d, i, depth, indices) ==
  \/ Return(d, i, depth, indices, walk.astray \/ ~ HasPlace)
  \/ ~ HasPlace /\ Crash

\* mutant: one level more
MayDescendMore ==
  walk.recursive /\ handle_table[walk.handle].dir /\ walk.depth < walk.limit /\ Current # Root

\* mutant: goes down into the root as well
MayDescendRoot ==
  walk.recursive /\ handle_table[walk.handle].dir /\ walk.depth < walk.limit - 1

MayDescend ==
  walk.recursive /\ handle_table[walk.handle].dir /\ walk.depth < walk.limit - 1 /\ Current # Root

(* A directory without entries is passed over.                             *)
Descends == MayDescend /\ Entries[Current] # <<>>

Descend ==
  /\ Descends
  /\ SaveAndReturn(Current, 1, walk.depth + 1, Append(walk.indices, walk.index))

EndOf(d, i) == i >= Len(Entries[d])

Sibling ==
  /\ ~ Descends
  /\ ~ EndOf(walk.dir, walk.index)
  /\ Return(walk.dir, walk.index + 1, walk.depth, walk.indices, walk.astray)

(* The way up is along the first name of the last entry.  It is the way    *)
(* back unless that entry is a hard link that has its first name elsewhere *)
(* (a directory other than the root is in one directory only).             *)
Up[k \in 0 .. MaxRecursion] == IF k = 0 THEN Above(Current) ELSE Above(Up[k - 1])

IndexAt(k) == walk.indices[walk.depth - k + 1]

WayBack(f, d) == Above(Above(f)) = Above(d)

AtHome == ~ walk.astray /\ WayBack(Current, walk.dir)

Ascend(k) ==
  /\ ~ Descends /\ EndOf(walk.dir, walk.index) /\ AtHome
  /\ \A j \in 1 .. k - 1 : EndOf(Up[j], IndexAt(j))
  /\ \E d \in Dir :
       /\ d = Up[k]
       /\ ~ EndOf(d, IndexAt(k))
       /\ SaveAndReturn(d, IndexAt(k) + 1, walk.depth - k, SubSeq(walk.indices, 1, walk.depth - k))

(* Otherwise the saved offset is used in the index of another directory:   *)
(* anything may be found there, and on every later way up (and whether the *)
(* offset that is written has a place makes no more difference).           *)
Astray ==
  /\ ~ Descends /\ EndOf(walk.dir, walk.index) /\ ~ AtHome
  /\ walk.depth > 0
  /\ \/ Crash
     \/ \E k \in 1 .. walk.depth, d \in Dir : \E i \in DOMAIN Entries[d] :
          /\ d = Up[k]
          /\ Return(d, i, walk.depth - k, SubSeq(walk.indices, 1, walk.depth - k), TRUE)

(* No more entries up to the first directory.                              *)
NothingLeft ==
  /\ ~ Descends /\ EndOf(walk.dir, walk.index)
  /\ walk.depth > 0 => AtHome /\ \A j \in 1 .. walk.depth : EndOf(Up[j], IndexAt(j))

\* mutant: says that there are more
ExhaustedGoesOn ==
  /\ NothingLeft
  /\ pc' = "show"
  /\ UNCHANGED <<session, alive, handle_table, walk, visited, lost>>

Exhausted ==
  /\ NothingLeft
  /\ pc' = "close"
  /\ UNCHANGED <<session, alive, handle_table, walk, visited, lost>>

(* A record or an index could not be read: the query is as it was.         *)
Fails ==
  /\ pc' = "close"
  /\ UNCHANGED <<session, alive, handle_table, walk, visited, lost>>

GetNext ==
  /\ alive /\ pc = "next"
  /\ \/ Descend
     \/ Sibling
     \/ \E k \in 1 .. walk.depth : Ascend(k)
     \/ Astray
     \/ Exhausted
     \/ Fails

(* NTFSClose of the query handle.                                          *)
CloseQuery ==
  /\ alive /\ pc = "close"
  /\ handle_table' = CloseIn(handle_table, walk.handle)
  /\ pc' = "idle" /\ walk' = None /\ visited' = <<>>
  /\ UNCHANGED <<session, alive, lost>>

Next ==
  \/ Enter
  \/ Exit
  \/ \E p \in Paths : OpenFile(p) \/ Cd(p)
  \/ CloseFile
  \/ AttributeGet
  \/ GetFirstFull
  \/ GetFirstEmpty
  \/ LsOutOfMemory
  \/ \E recursive \in BOOLEAN, limit \in Limits : GetFirst(recursive, limit)
  \/ Show
  \/ GetNext
  \/ CloseQuery

(* Nothing interrupts the loop of ls.                                      *)
Fairness == WF_vars(Show) /\ WF_vars(GetNext) /\ WF_vars(CloseQuery)

Spec == Init /\ [][Next]_vars /\ Fairness

-----------------------------------------------------------------------------
WalkType ==
  [handle : Handle, start : Dir, recursive : BOOLEAN, limit : 1 .. MaxRecursion,
   dir : Dir, index : Nat \ {0}, depth : Nat, indices : Seq(Nat \ {0}), astray : BOOLEAN]

(* The query is about the entry its reader is at; it has saved an offset   *)
(* for each level above, and these are fewer than the limit (of which the  *)
(* buffer may have room for half: Places).                                 *)
WalkOK ==
  /\ walk \in WalkType
  /\ walk.index \in DOMAIN Entries[walk.dir]
  /\ handle_table[walk.handle] = QuerySlot(Entries[walk.dir][walk.index].file)
  /\ Len(walk.indices) = walk.depth /\ walk.depth < walk.limit

(* Every variable has its type, and the query of ls is consistent.         *)
TypeOK ==
  /\ alive \in BOOLEAN /\ driver \in BOOLEAN /\ carried \in BOOLEAN
  /\ handle_table \in [Handle -> SlotType \cup {None}]
  /\ current_dir \in Handle \cup {None}
  /\ current_file \in Handle \cup {None}
  /\ lost \subseteq Handle
  /\ visited \in Seq(Dir \X Nat)
  /\ \/ pc = "idle" /\ walk = None
     \/ pc \in {"show", "next", "close"} /\ WalkOK

Opened == {h \in Handle : handle_table[h] # None}

Querying == IF pc = "idle" THEN {} ELSE {walk.handle}

(* Unless a file was left open over an exit, the open slots are those of   *)
(* the current directory, the current file, the query of a running ls and  *)
(* the ones that ls left, each for one purpose, and relative paths start   *)
(* in a directory (allocHandle, NTFSOpen, which marks the slot before it   *)
(* resolves the path, NTFSClose, cd, open, close, ls).                     *)
HandlesAccounted ==
  alive /\ driver /\ ~ carried =>
    /\ Opened = {current_dir} \cup ({current_file} \ {None}) \cup Querying \cup lost
    /\ current_dir # current_file
    /\ lost \cap ({current_dir, current_file} \cup Querying) = {}
    /\ Querying \cap {current_dir, current_file} = {}
    /\ IsOpenDir(current_dir) /\ ~ handle_table[current_dir].query

(* Where a path leads by the entries of the directories.                   *)
Into(f, name) ==
  IF f \notin Dir THEN None
  ELSE IF name = "." THEN f
  ELSE IF name = ".." THEN Above(f)
  ELSE LET hits == {e \in ToSet(Entries[f]) : e.name = name} IN
       IF hits = {} THEN None ELSE (CHOOSE e \in hits : TRUE).file

Route(start, p) ==
  LET reached[k \in 0 .. Len(p)] ==
        IF k = 0 THEN start ELSE Into(reached[k - 1], p[k])
  IN reached

(* The path looks for a name in a directory without entries.               *)
SearchesEmpty(start, p) ==
  \E i \in DOMAIN p :
    LET d == Route(start, p)[i - 1] IN
    d \in Dir /\ Entries[d] = <<>> /\ p[i] \notin {".", ".."}

(* A path leads where the entries lead, and to nothing else, although the  *)
(* search goes on from a value that is kept from token to token; only a    *)
(* name looked for in an empty directory is compared with the entries of   *)
(* the one before, or with what is no entry (NTFSGetFile).                 *)
LookupSound ==
  \A p \in Paths \ {<<>>}, h \in Handle :
    Serving /\ FirstFree(h) /\ IsOpenDir(current_dir) =>
      LET start  == IF p[1] = "" THEN Root ELSE Here
          path   == IF p[1] = "" THEN Tail(p) ELSE p
          target == Route(start, path)[Len(path)]
      IN ~ SearchesEmpty(start, path) =>
           {<<c.state, c.file>> : c \in Resolved(h, p)} \subseteq
             {<<"found", target>>} \cup {<<"failed", f>> : f \in IF target = None THEN File ELSE {}}

(* The last entries of a directory in order, each followed by what is      *)
(* listed below it; the root is not listed again.                          *)
Lasts(d, below) ==
  LET last[j \in 0 .. Len(Entries[d])] ==
        LET i == Len(Entries[d]) - j + 1
            f == Entries[d][i].file
        IN IF j = 0 THEN <<>>
           ELSE <<<<d, i>>>> \o ((IF f = Root THEN <<>> ELSE below[f]) \o last[j - 1])
  IN last

Nothing == [f \in File |-> <<>>]

Listed(below) ==
  [f \in File |-> IF f \in Dir THEN Lasts(f, below)[Len(Entries[f])] ELSE <<>>]

(* What should be listed below a file: its entries, n levels deep.         *)
Listing[n \in 0 .. MaxRecursion] == Listed(IF n = 0 THEN Nothing ELSE Listing[n - 1])

(* ls lists each entry once, in the order of a depth-first walk that ends  *)
(* one level above the limit, and says that there are no more only after   *)
(* the last one (FSGetNext, which has neither stack nor path but finds its *)
(* way up by the first name of the last entry and the saved offsets),      *)
(* unless a hard link has led it astray or its buffer was too small.       *)
WalkIsListing ==
  walk # None /\ alive /\ ~ walk.astray =>
    LET wanted == Listing[walk.limit - 1][walk.start] IN
    /\ IsPrefix(visited, wanted)
    /\ pc = "next" /\ NothingLeft => visited = wanted

(* The first name of a file is among the entries that are read.            *)
IsListed(f) == [name |-> FirstName[f].name, file |-> f] \in ToSet(Entries[Above(f)])

OnTheWay(f) == {Ancestor[n][f] : n \in DOMAIN Ancestor} \ {Root}

(* The path that ls prints for an entry, typed in, leads to its file, hard *)
(* links and the root's own entry included, if the first names on the way  *)
(* are among the entries that are read, and to nothing if one of them is   *)
(* not, though ls has printed it (FSGetPath, NTFSGetFile and the index     *)
(* root that NTFSGetDirEntries leaves out).                                *)
PathLeadsBack ==
  alive /\ pc = "show" =>
    LET ends == GetFile(Root, PathOf(Current)) IN
    IF \A f \in OnTheWay(Current) : IsListed(f)
      THEN {<<c.state, c.file>> : c \in ends} = {<<"found", Current>>}
      ELSE {c.state : c \in ends} = {"failed"}

(* From all directories below d there is a way back.                       *)
Homely(d) ==
  \A e \in Dir \ {d, Root} :
    /\ \E n \in DOMAIN Ancestor : Ancestor[n][e] = d
    /\ Entries[e] # <<>>
    => WayBack(Last(Entries[e]).file, e)

(* The buffer has room for all the levels of a limit.                      *)
Roomy(limit) == limit <= Places(limit)

(* The walk of ls finds its way up.                                        *)
FindsBack == Homely(walk.start) /\ Roomy(walk.limit)

(* ls comes to an end, records it cannot read or not, if it can find its   *)
(* way up and has room for the offsets (FSGetNext and the loop in          *)
(* execFsCmd).                                                             *)
LsEnds == (pc = "show" /\ FindsBack) ~> (pc = "idle" \/ ~ alive)

(* What is left of a walk: every entry to come is returned and shown, and  *)
(* the handle is closed.                                                   *)
StepsLeft ==
  IF pc = "idle" THEN 0
  ELSE 2 * (Len(Listing[walk.limit - 1][walk.start]) - Len(visited))
         + (CASE pc = "show" -> 3 [] pc = "next" -> 2 [] pc = "close" -> 1)

(* Each call of the loop of ls, whether it fails or not, brings its end    *)
(* nearer if it can find its way up and has room for the offsets, so that  *)
(* it takes no more calls than there are entries to list (FSGetNext and    *)
(* the loop in execFsCmd).                                                 *)
LsAdvances ==
  [][alive /\ pc # "idle" /\ FindsBack => StepsLeft' \in 0 .. StepsLeft - 1]_vars
=============================================================================
