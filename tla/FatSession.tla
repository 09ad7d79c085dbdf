----------------------------- MODULE FatSession -----------------------------
(***************************************************************************)
(* The file-system context of the shell (execFsCmd and "enter" in          *)
(* commands.c) over the handle table of the FAT32 driver (fat.c): which    *)
(* handles cd, open, close, ls and exit leave open, what current_dir and   *)
(* current_file refer to, and which directory entry a handle is about.     *)
(*                                                                         *)
(* current_dir and current_file are globals of the shell; the table lives  *)
(* and dies with the driver instance.  Nodes stand for clusters, and a     *)
(* node's name is the node.  A command that fails and changes nothing is a *)
(* stuttering step.                                                        *)
(***************************************************************************)
EXTENDS Integers, FiniteSets, SequencesExt

CONSTANTS
  Node,        \* files and directories on the partition
  Root,        \* params.root_cluster
  DirNode,     \* the directories
  Children,    \* the entries of a directory, without "." and ".."
  Paths,       \* bound: what the user types
  MaxHandles,  \* FAT_MAX_HANDLES: slot 0 is never given out
  None         \* INVALID_HANDLE_VALUE, no parent, no entry, an unused slot

Handle == 1 .. MaxHandles - 1

ASSUME TreeAssumption ==
  /\ IsFiniteSet(Node) /\ None \notin Node
  /\ Root \in DirNode /\ DirNode \subseteq Node
  /\ Children \in [DirNode -> Seq(Node \ {Root})]
  /\ \A n \in Node \ {Root} :
       \E d \in DirNode : \A e \in DirNode : n \in ToSet(Children[e]) <=> e = d
ASSUME HandlesAssumption == MaxHandles \in Nat /\ MaxHandles >= 2 /\ None \notin Handle

(* A path is absolute or starts at the current directory; its tokens are   *)
(* names, ".", ".." and the empty token between two slashes.               *)
ASSUME PathsAssumption ==
  Paths \subseteq [abs : BOOLEAN, tokens : Seq(Node \cup {".", "..", "", "missing"})]

VARIABLES
  driver,        \* the shell holds a driver instance
  handle_table,  \* its handles, None for a slot without HANDLE_FLAG_OPEN
  current_dir,
  current_file,
  alive,         \* the process has not crashed
  carried,       \* history: current_file was already set when this instance was made
  lost           \* history: handles that failed commands of this instance left open

vars == <<driver, handle_table, current_dir, current_file, alive, carried, lost>>

-----------------------------------------------------------------------------
Parent(n) == IF n = Root THEN None
             ELSE CHOOSE d \in DirNode : n \in ToSet(Children[d])

Entry(name, n) == [name |-> name, node |-> n]

(* The directory on disk.  Entries are counted from 1, so that the entry   *)
(* the code calls index 1 is the second.                                   *)
Entries == [d \in DirNode |->
  LET children == [i \in DOMAIN Children[d] |-> Entry(Children[d][i], Children[d][i])] IN
  IF d = Root THEN children
  ELSE <<Entry(".", d), Entry("..", Parent(d))>> \o children]

\* None: the 0xFFFFFFFF of a path that named no entry
Index == (1 .. Cardinality(Node) + 2) \cup {None}

NotFound == [ok |-> FALSE, done |-> TRUE, node |-> None, index |-> None]

\* mutant: counts the entry that follows
FoundAfter(c, i) == [c EXCEPT !.node = Entries[c.node][i].node, !.index = i + 1]

(* fat32GetFile, one token.  A file may only be the last one; an empty     *)
(* token ends the path.                                                    *)
FoundAt(c, i) == [c EXCEPT !.node = Entries[c.node][i].node, !.index = i]

NextToken(c, token) ==
  IF c.done THEN c ELSE IF c.node \notin DirNode THEN NotFound ELSE
  CASE token = ""   -> [c EXCEPT !.done = TRUE]
    [] token = "."  -> c
    [] token = ".." -> IF c.node = Root THEN NotFound ELSE FoundAt(c, 2)
    [] OTHER ->
         LET here == {i \in DOMAIN Entries[c.node] : Entries[c.node][i].name = token} IN
         IF here = {} THEN NotFound ELSE FoundAt(c, CHOOSE i \in here : TRUE)

Begin(start) == [ok |-> TRUE, done |-> FALSE, node |-> start, index |-> None]

GetFile(start, tokens) ==
  LET after[k \in 0 .. Len(tokens)] ==
        IF k = 0 THEN Begin(start) ELSE NextToken(after[k - 1], tokens[k])
  IN after[Len(tokens)]

Lookup == [start \in DirNode |-> [tokens \in {p.tokens : p \in Paths} |-> GetFile(start, tokens)]]

IsOpen(h) == h \in Handle /\ handle_table[h] # None

IsOpenDir(h) == IsOpen(h) /\ handle_table[h].dir /\ ~ handle_table[h].query

(* The path leads to node n, through entry i of its directory.             *)
Leads(p, n, i) ==
  /\ p.abs \/ current_dir = None \/ IsOpenDir(current_dir)
  /\ LET start == IF p.abs \/ current_dir = None THEN Root ELSE handle_table[current_dir].node
         found == Lookup[start][p.tokens]
     IN found.ok /\ found.node = n /\ found.index = i

-----------------------------------------------------------------------------
(* allocateHandle: the first slot that is not open.                        *)
FirstFree(h) == handle_table[h] = None /\ \A g \in Handle : g < h => handle_table[g] # None

FileHandle(n, i) ==
  [dir |-> n \in DirNode, query |-> FALSE, node |-> n, parent |-> Parent(n), index |-> i]

HandleType ==
  [dir : BOOLEAN, query : BOOLEAN, node : Node, parent : DirNode \cup {None}, index : Index]

ASSUME NoneAssumption == None \notin HandleType

TypeOK ==
  /\ driver \in BOOLEAN /\ alive \in BOOLEAN /\ carried \in BOOLEAN
  /\ handle_table \in [Handle -> HandleType \cup {None}]
  /\ current_dir \in Handle \cup {None}
  /\ current_file \in Handle \cup {None}
  /\ lost \subseteq Handle

Closed == [h \in Handle |-> None]

Init ==
  /\ driver = FALSE /\ alive = TRUE /\ carried = FALSE
  /\ handle_table = Closed
  /\ current_dir = None /\ current_file = None
  /\ lost = {}

-----------------------------------------------------------------------------
(* FSAttribute reads the entry with the handle's index in the parent's     *)
(* directory.  A slot after the last entry is all zeros.                   *)
AttributeIsDir(hdl) ==
  hdl.parent # None => /\ hdl.index \in DOMAIN Entries[hdl.parent]
                       /\ Entries[hdl.parent][hdl.index].node \in DirNode

(* Index 0xFFFFFFFF is far outside the buffer.                             *)
AttributeCrashes(hdl) == hdl.parent # None /\ hdl.index = None

Crash ==
  /\ alive' = FALSE
  /\ UNCHANGED <<driver, handle_table, current_dir, current_file, carried, lost>>

Serving == alive /\ driver

(* enter: a new driver instance opens the root directory.                  *)
Enter ==
  /\ alive /\ ~ driver
  /\ driver' = TRUE
  /\ handle_table' = [Closed EXCEPT ![1] = FileHandle(Root, None)]
  /\ current_dir' = 1
  /\ carried' = (current_file # None)
  /\ lost' = {}
  /\ UNCHANGED <<current_file, alive>>

(* exit: the instance goes with its table; the shell's globals stay.       *)
Exit ==
  /\ Serving
  /\ driver' = FALSE
  /\ handle_table' = Closed
  /\ lost' = {}
  /\ UNCHANGED <<current_dir, current_file, alive, carried>>

(* fat32Open: handle h is given out for node n, found at entry i.          *)
Opens(p, h, n, i) == FirstFree(h) /\ Leads(p, n, i)

OpenFile(p) ==
  /\ Serving
  /\ current_file = None
  /\ \E h \in Handle, n \in Node, i \in Index :
       /\ Opens(p, h, n, i)
       /\ handle_table' = [handle_table EXCEPT ![h] = FileHandle(n, i)]
       /\ current_file' = h
  /\ UNCHANGED <<driver, current_dir, alive, carried, lost>>

(* cd opens the path, asks for the attribute of the new handle, and then   *)
(* keeps it and closes the old one, or closes it, or forgets it when the   *)
(* attribute could not be read.                                            *)
CloseIn(table, h) == IF h \in Handle THEN [table EXCEPT ![h] = None] ELSE table

\* mutant: the attribute is not looked at
ChangeDirUnchecked(h, hdl) ==
  /\ handle_table' = CloseIn([handle_table EXCEPT ![h] = hdl], current_dir)
  /\ current_dir' = h
  /\ UNCHANGED <<driver, current_file, alive, carried, lost>>

\* mutant: the old directory is not closed
ChangeDirKeeps(h, hdl) ==
  /\ AttributeIsDir(hdl)
  /\ handle_table' = [handle_table EXCEPT ![h] = hdl]
  /\ current_dir' = h
  /\ UNCHANGED <<driver, current_file, alive, carried, lost>>

ChangeDir(h, hdl) ==
  /\ AttributeIsDir(hdl)
  /\ handle_table' = CloseIn([handle_table EXCEPT ![h] = hdl], current_dir)
  /\ current_dir' = h
  /\ UNCHANGED <<driver, current_file, alive, carried, lost>>

LoseHandle(h, hdl) ==
  /\ hdl.parent # None
  /\ handle_table' = [handle_table EXCEPT ![h] = hdl]
  /\ lost' = lost \cup {h}
  /\ UNCHANGED <<driver, current_dir, current_file, alive, carried>>

Cd(p) ==
  /\ Serving
  /\ \E h \in Handle, n \in Node, i \in Index :
       LET hdl == FileHandle(n, i) IN
       /\ Opens(p, h, n, i)
       /\ \/ LoseHandle(h, hdl)
          \/ ~ AttributeCrashes(hdl) /\ ChangeDir(h, hdl)
          \/ AttributeCrashes(hdl) /\ Crash

(* close: the driver ignores a handle that is not open, the shell does not *)
(* look.                                                                   *)
CloseFile ==
  /\ Serving
  /\ current_file # None
  /\ handle_table' = CloseIn(handle_table, current_file)
  /\ current_file' = None
  /\ UNCHANGED <<driver, current_dir, alive, carried, lost>>

(* ls closes its query handle unless it got no memory for the paths it is  *)
(* about to print.                                                         *)
LsOutOfMemory ==
  /\ Serving
  /\ IsOpenDir(current_dir)
  /\ LET d == handle_table[current_dir].node IN
     /\ Entries[d] # <<>>
     /\ \E h \in Handle :
          /\ FirstFree(h)
          /\ handle_table' = [handle_table EXCEPT ![h] =
               [dir |-> Entries[d][1].node \in DirNode, query |-> TRUE,
                node |-> Entries[d][1].node, parent |-> d, index |-> 1]]
          /\ lost' = lost \cup {h}
  /\ UNCHANGED <<driver, current_dir, current_file, alive, carried>>

(* attribute get attribute: only reads, unless it reads too far.           *)
AttributeGet ==
  /\ Serving
  /\ IsOpen(current_file)
  /\ AttributeCrashes(handle_table[current_file])
  /\ Crash

Next ==
  \/ Enter
  \/ Exit
  \/ \E p \in Paths : OpenFile(p) \/ Cd(p)
  \/ CloseFile
  \/ LsOutOfMemory
  \/ AttributeGet

Spec == Init /\ [][Next]_vars

-----------------------------------------------------------------------------
Opened == {h \in Handle : handle_table[h] # None}

(* Unless a file was left open over an exit, the open handles are the      *)
(* current directory, the current file and what failed commands lost, each *)
(* in a slot of its own: no command leaks another handle or lets the shell *)
(* use one slot for two things (allocateHandle, cd, open, close, ls).      *)
HandlesAccounted ==
  driver /\ ~ carried =>
    /\ Opened = {current_dir} \cup ({current_file} \ {None}) \cup lost
    /\ current_dir # current_file
    /\ lost \cap {current_dir, current_file} = {}

(* Unless a file was left open over an exit, relative paths have a         *)
(* directory to start from, although cd judges the new handle by an entry  *)
(* that may be another one's (FSAttribute after a path ending in "..").    *)
CurrentDirIsDir ==
  driver /\ ~ carried => /\ IsOpenDir(current_dir)
                         /\ handle_table[current_dir].node \in DirNode

(* The first k tokens that name an entry: an empty one ends the path.      *)
Naming(tokens, k) ==
  {j \in 1 .. k : tokens[j] # "." /\ \A l \in 1 .. j : tokens[l] # ""}

(* What fat32GetFile says of the node that k tokens lead to: without a     *)
(* name there is no entry; after a last ".." the index is the 1 of that    *)
(* ".." in the directory it was read in, which is no entry of the node; in *)
(* all other cases the node's own entry has the index.                     *)
EntryFits(tokens, k, n, i) ==
  LET names == Naming(tokens, k) IN
  IF names = {} THEN i = None
  ELSE IF tokens[Max(names)] = ".." THEN i = 2 /\ n \in DirNode
  ELSE /\ n # Root
       /\ i \in DOMAIN Entries[Parent(n)]
       /\ Entries[Parent(n)][i].node = n

(* Whatever path is looked up next, the index that is returned is that of  *)
(* the node's entry, by which alone get_info finds a file, but for a path  *)
(* whose last name is "..": only then it is the index of another entry,    *)
(* although it is counted in the directory of the last token that named an *)
(* entry, and "." and the empty token name none (fat32GetFile).            *)
LookupSound ==
  \A p \in Paths, n \in Node, i \in Index :
    Leads(p, n, i) => EntryFits(p.tokens, Len(p.tokens), n, i)

(* Refuted.  commands.c:580 says of close "closes the currently open       *)
(* file"; a file left open over exit and enter is a number that by then    *)
(* can be the slot of the current directory.                               *)
CurrentDirStays ==
  driver => IsOpenDir(current_dir)
=============================================================================
