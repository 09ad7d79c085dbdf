# TLA+ models of VDiskUtils

VDiskUtils is a Windows console program that opens virtual disk images (raw and
VHD), finds a GPT or MBR on them, and browses the FAT32 or NTFS file system of a
partition. This directory holds TLA+ models of its state machines, TLC
configurations that check them on small instances, and proofs of the main
theorems for every value of the constants.

The program has one thread and one user, so what makes it hard is not
concurrency. It is that every command is a chain of system calls each of which
can fail, that three layers (disk list, disk driver, file system driver) keep
numbers and pointers into each other, that the shell keeps handle numbers longer
than the handles live, that files are replaced under the program by other
programs, and that growing a sparse disk is several writes to a file which a
crash can cut anywhere.

## The system

| part | source | state | operations | modelled by |
|---|---|---|---|---|
| disk list | `vdisk.c`, `execCmd` | `vdisk_list`, `currentVDISK`, `currentPartition`; per disk: flags, file, mapping, view, driver, cached partitions | `openVdiskP/I`, `closeVDISK`, `selectVdiskI/P`, `listPartitions`, `selectPartition`, `partitionRead`, `createDriver` | `VDiskRegistry` |
| detection | `vhd.c`, `mbr.c`, `gpt.c` | none | `isVHDPresent`, `setVHDDriver`, `isMBRPresent`, `isGPTPresent`, `getGPTPartitions` | its outcomes in `VDiskRegistry`; `isGPTPresent` in `GptDetect` |
| dynamic VHD driver | `vhd.c`, `expandVDISKFile`, `setEOF` | block table and footer in the file; `footer_offset`, `length`, the view | read, write with allocation, get_size, exit | `DynamicVhd`, `FlatDisk` |
| fixed VHD and raw driver | `vhd.c`, `vdisk.c` | none | bounds check and copy | their installation in `VDiskRegistry` |
| FAT32 session | `execFsCmd`, `fat.c` | `driver`, `current_dir`, `current_file`; the handle table | enter, exit, cd, open, close, ls, attribute; `fat32GetFile` | `FatSession` |
| FAT32 walk | `fat.c`, `ls` | a query handle, its indices, one directory buffer | `FSGetFirst`, `FSGetNext`, `FSGetPath`, close | `FatWalk` |
| FAT32 chains | `readFat32Data`, `getFat32FileSize` | the table on the disk; a window of its entries, the run, the buffer | read a chain of clusters, know its size | `FatChain` |
| NTFS driver | `ntfs.c`, `execFsCmd` | handle table; a query's reader, depth and saved offsets | `NTFSOpen`, `NTFSClose`, `NTFSGetFile`, `NTFSGetInfo` | `NtfsDriver` |
| NTFS on-disk data | `ntfs.c` | none | run lists, the index of a directory | `NtfsRuns`, `NtfsIndex`, `Decoders` |
| console | `console_main.c`, `parsePath` | the context, the line, its arguments | read, split and dispatch a line; split a path | `CommandLine` |
| names, dates | `fat.c`, `utils.c` | none | 8.3 and long names | not modelled |

Calls go down only: command loop → `execCmd`/`execFsCmd` → file system driver →
`partitionRead` → disk driver → file view. There are no callbacks. What is shared
between the layers is what the models are about: `VDISK.driver` (owned by the
entry, used by `partitionRead`), the disk's address and the partition's index
(kept by a file system driver), and handle numbers (kept by the shell).

What makes each part correct:

* disk list: every handle and driver is released once and only once, entries are
  not duplicated, indexes the user saw stay valid, the partition flag fits the
  driver, an entered file system never loses its disk;
* dynamic VHD: blocks never overlap anything, the footer survives, and to a
  caller the disk is a flat array whatever is interrupted;
* session: no handle leaks or is used for two things, the current directory is
  a directory, the entry index belongs to the node;
* walk: every entry once, in order, to the requested depth, with the right path,
  without leaking the buffer;
* chains: the size and the data are those of the chain, whatever jumps it makes,
  and a damaged table ends a call instead of keeping it going;
* NTFS driver: a slot is taken before the path is known and given back on every
  failure, a path leads where the entries lead, and `ls`, which keeps neither a
  stack nor a path, lists every entry once and ends;
* on-disk data: clusters are read where the runs place them, entries in use are
  listed once, and a disk is taken for GPT only if its two headers agree;
* console: splitting a line in place never leaves the line or the table of
  arguments, and the arguments are its words.

## Modules

`VDiskRegistry` has one action per command. A kernel handle or a driver instance
is an `Id`; `res` records for each live one which entry it was made for, so a
leak or a double owner is a state. The operators `MapVDISKFile`, `SetVHDDriver`,
`DetectVDISKContent` and `CloseVDISKInternal` follow the functions of those names
and return the set of outcomes of a call, one for each way its system calls can
go; `DetectVDISKContent` chains them as `dectectVDISKContent` does, including the
repeated attempts to map the file. Disk contents are records of an image format,
a partition table and a number of partitions. `HostChanges` is the environment:
another program replaces or deletes a file that is not open. `CreateFileAllowed`
is the share mode. Refused commands are stuttering steps.

`DynamicVhd` has one action per step of `dynamicVHDWrite` after which the file
differs (`BeginWrite`, `SetEOF`, `SetAllocation`, `Remap`, `CopyFooter`,
`ZeroFooter`, `SetEntry`, `Store`), because a crash keeps the file as it is then,
and one for a whole read. `Killed` is the end of the process at any step,
`Open` what `isVHDPresent` and `setVHDDriver` conclude afterwards. The view of
the file may come back at another address after it was unmapped to grow the
file; the table entry is written through the old pointer, so `SetEntry` (same
address) and `LostEntry` (access violation) are both possible. `FlatDisk` is what
the interface `VDISK_DRIVER` promises: an array, requests that are either
refused or done, and nothing else that changes it. `ImplementsFlatDisk` is the
refinement, with the array computed from table and blocks (`VData`).

Offsets count units: one unit is the size of the requests callers make (a
sector) and of a footer. Two byte-level details vanish with that: the end of a
request is decremented once too often, and a request one byte over the end
passes the first bound. Requests that span blocks are refused by the test the
code has, so its branches for them are not modelled: of the requests that begin and
end with a sector, which are all that callers make, only one whose end wraps around
2^64 gets there, which `FatChain` looks at. For single bytes that is not so: a request
of one byte at the start of a block has its last byte in the block before
(`vhd.c:98`, `vhd.c:200`) and gets there too.

`FatSession` is the shell's `driver`, `current_dir` and `current_file` over the
handle table of the driver. `fat32GetFile` is the operator `GetFile`, which
applies `NextToken` to one token after the other, with the directory, index and parent it computes as
the code computes them: the index in the directory of the last token that named
an entry, the parent from `..`. `carried` and `lost` are history variables: a
file that was open over an exit, and handles that failed commands of this
instance left open.

`FatWalk` is the loop of `ls` over one query handle: `pc` says whether the loop
shows a line, asks for the next entry, or closes. `Up` and `IndexAt` are the way
back that `FSGetNext` reconstructs from `..` entries and saved indices. `live`
are the allocated directory buffers (`Buffer`) and what they hold, `cache` is the one
that `dir_cache` points to, and `lost` (a history variable) those that only a variable of
an ended call pointed to, over all walks of a session. A freed buffer can be given out
again (`NewBuffers`), also within a call that climbs. So freeing the wrong one, freeing
one twice and leaking one are visible.

`FatChain` is `readFat32Data` with `getFat32FileSize`: `pc` says which of the two
loops runs, `base` and `current` are the window of `FAT_CACHE_SIZE` entries and the
place in it, `fc` and `lc` the run. `Call` chooses the first cluster, `SizeStep`
and `SizeFound` are the first loop, `ReadAdjacent`, `ReadBreak` and `ReadEnd` the
second, and `SizeReturned` is `FSSize`, which needs the first only. Any table is
an initial state. Lengths and distances are unsigned numbers modulo `Word`, as
`size_t` is; `Asked` keeps the order of `fc` and `lc` of the code. What a disk does
with a length is one of the things its drivers do: refuse, copy, or copy outside
of memory if the end of the request wraps around (`ReadCrashes`).

`NtfsDriver` is the shell over the NTFS driver, from `enter` to `exit`, with the
loop of `ls` taken apart into its calls (`pc`, `walk`). A file is its MFT record;
`Entries` is the index of a directory and `FirstName` the name attribute of a
record that the code stops at, so a file with several names, or a hard link, has
several entries and one first name. `GetFile` is `NTFSGetFile`: a set of outcomes,
since it goes on from a value that may never have been set. `NTFSOpen` marks its
slot before it resolves the path, and a relative path is resolved from
`current_dir`, which after exit and enter can be that very slot (`FromCurrent`).
`Descend`, `Sibling`, `Ascend(k)`, `Exhausted` and `Fails` are the ways through
`FSGetNext`; `Ascend(k)` climbs `k` levels with the offsets saved on the way down.
If the last entry of a directory is a hard link whose first name is in another
directory, the offset is used in an index it does not belong to: from then on
(`Astray`) anything in a directory on the way up may be found, or the process
crashes. The same is said of a walk whose buffer of offsets has no place for the
current depth (`Places`, `HasPlace`, `SaveAndReturn`): it is allocated with 4 bytes a level
in whole pages and used with 8. `Entries` is what is read of a directory and `Unlisted`
what is not, because it is in the index root of a directory that has index records; a
first name can be in either. `carried` and `lost` are history variables as in `FatSession`.

`NtfsRuns`, `NtfsIndex` and `GptDetect` are operators without state; `Decoders`
chooses something to read and reads it. `NtfsRuns` takes a run list as pairs of
byte sequences, decodes the numbers with their sign, adds up the distances modulo
the word, marks runs that are compressed (`AtHole`, `AtData`) and reads the
clusters. The structure of a run is allocated without being cleared and its flags
are only added to, so the memory it was given (`fresh`) is an input. `NtfsIndex` has
the scan of the bitmap; offsets are counted in clusters, because the code
multiplies the number of the next record by the size of a cluster. `GptDetect` has
the four entries of the protective MBR and both headers; a checksum is what it was
calculated from, so changing a field and sealing the header again are two things
that can be done to a disk.

`CommandLine` is the loop of `WinMain`: one action per character of the line, with
the flags of the code, writing NULs into the buffer it reads from. An argument is a
position in the buffer. `ParsePath` is `parsePath` on the argument of cd and open.
A line that fills the buffer of `MaxChars` has no NUL (`LineFills`); the model does not
follow what is read behind it.

`FatSession` and `FatWalk` look at different state of the same driver and do not
interact: `ls` opens and closes its own handle within one command, and the only
way it changes the table otherwise is `LsOutOfMemory`. Both read directories
through the function of `FatChain` and take each to be one cluster, for which it is
proved right.

## Runs

| run | expects | shows |
|---|---|---|
| `registry` | pass | seven properties of the disk list |
| `registry_null_driver` | violation | `enter` on a closed disk calls through a null driver |
| `dynamic_vhd` | pass | layout, footer, driver and refinement properties |
| `dynamic_vhd_reads` | violation | reads over two blocks are refused |
| `fat_session` | pass | handles, current directory, lookup |
| `fat_session_current_dir` | violation | `close` closes the current directory |
| `fat_walk` | pass | the walk is the listing, paths, one buffer, also at its end; each call leaves less to do |
| `fat_chain` | pass | window, size, runs, buffer, fragmented chains; every call ends, each step leaving less to do |
| `fat_chain_read` | violation | a run of two clusters is not read |
| `ntfs` | pass | slots, lookup, the walk and its end, paths that lead back; each call leaves less to do |
| `console` | pass | arguments are words, tokens are parts, bounds |
| `decoders` | pass | run lists, index scans, GPT recognition |

Bounds, and why they are enough:

* `MCVDiskRegistry`: three names for two files, so two entries can contend for
  one file and a third is unrelated; four handle identities, so that one open VHD
  (file, mapping, driver) can meet a second open disk, and identities run out;
  one sparse GPT image with a partition and one differencing image, which is
  recognised but refused. 120,648 states up to the symmetry of the identities,
  which no property tells apart. Deadlock is not checked: after the null
  call the process is gone.
* `MCDynamicVhd`: three blocks of two units with room for two allocations, so
  that a second allocation follows a first one, in each order, also after a
  crash, and a third is refused as too big; the misread size cuts off the last
  unit, so a write in bounds is refused. 8,336 states.
* `MCFatSession`: a tree two directories deep with a file before and after the
  directory that `..` is confused with; 15 paths of up to two tokens cover
  names, `.`, `..`, an empty token, a missing name and a file used as a directory;
  three handles are one more than the shell holds, so the table fills up.
  15,643 states; the process may crash, so deadlock is not checked.
* `MCFatWalk`: a chain of directories `a/b/c` below the root, each of which ends with the
  next, while the root goes on after `a`: the walk climbs one, two or three levels in one
  call, as the limit has it; two directories without entries of their own; limits below,
  at and above the depth of the tree. There are four buffers: a walk needs one, and one
  more while a call climbs, so that two or three can be lost before memory runs out.
  32,161 states, most of which differ only in which buffers are lost: a walk itself is
  nearly deterministic.
* `MCFatChain`: all 4096 tables of four clusters, so chains of every shape, cycles
  of every length, bad, small and large entries, from every start; windows of
  three entries are left forwards by one chain and backwards by many; a limit of
  four clusters is as long as a chain without a cycle can be; `Word` is larger
  than any distance. 76,080 states. After a crash nothing follows, so deadlock
  is not checked.
* `MCNtfsDriver`: a root that lists itself, as NTFS roots do; a directory with two
  names; a chain of four directories, `top/sub/low/deep`, of which `sub` and `low` end with
  the next, so that the walk comes up one or two levels at once, as the limit has it; an
  empty directory; a directory that ends in a hard link and whose first name is not read,
  because the root is large. Three slots are one more than the shell holds. The limits are
  2 and 3, and none or one beyond the largest, which both come to 5. A buffer has three
  places: enough for the limits 2 and 3, and for 5 one too few on the way down from `low`
  and on the way up from `deep`. 86,536 states; the process may crash, so deadlock is not
  checked.
* `MCCommandLine`: every line of up to five characters out of blank, quote,
  backslash, slash and a letter, and four longer ones, of which one of eleven fills a buffer
  of 12; two arguments have room, so lines of five characters overrun the table. 55,272 states; the program may end,
  so deadlock is not checked.
* `MCDecoders`: four values of a byte, four bytes of a word and four clusters of a
  unit, so that distances of one to three bytes have either sign and runs end
  within, at and beyond a unit; up to three runs, one of them in dirty memory
  (of three, none is a unit long); up to four records of none to two of the four `Keys` with every bitmap, of one cluster or
  two; every protective MBR, every pair of changes to the headers with either
  checksum, every set of unreadable places. 34,308 states, each of which stops.

Each property of a passing run has a mutant in `PROJECT.json`: a variant of one
definition, with a plausible mistake, under which the property fails.

Fairness is assumed in two places. In `FatChain` a call that has begun takes its
next step (`WF_vars(Step)`), and in `NtfsDriver` the loop of `ls` does (weak fairness
of `Show`, `GetNext` and `CloseQuery`), because the program has one thread and these
loops do not wait for anything; that the user types again is not assumed.
`CallEnds` is about tables with cycles. `LsEnds` is about a walk that keeps no stack:
it says that `ls` ends if, from each directory below, the last entry leads back up.
Where it does not, the walk can go round for ever (`Astray`). Without fairness,
`CallAdvances`, `LsAdvances` and, for the walk on FAT, `WalkAdvances` say that each step
of these loops makes a natural number (`StepsLeft`) smaller, so that their number is
bounded by what there is to read or list. The other models assume
no fairness and state no liveness: the program acts only when the user types, and
each of their commands is a bounded piece of code.

## Proofs

`VDiskRegistryProofs`, `DynamicVhdProofs`, `FatSessionProofs`, `FatWalkProofs`,
`FatChainProofs`, `NtfsDriverProofs`, `CommandLineProofs` and `DecodersProofs` hold
the theorems. Every invariant and action property that a run checks, and the
refinement, is proved there for every value of the constants; only liveness is not,
and of that the part that needs no fairness is. The type invariants of `VDiskRegistry`,
`FatSession` and `FatChain` are proved and not in a run of their own.
They assume only the named `ASSUME`s of the modules they extend. Most are shapes of
the constants, or say that `None` and the other marker values are not ordinary
ones. Those that say something about a disk are: in `FatSession` and `FatWalk`
everything but the root is in exactly one directory (`TreeAssumption`); in
`NtfsDriver` a name is in a directory once and a directory in one other
(`NamesAssumption`), and every record's first name is in its directory, among the entries
that are read or those that are not, and leads up to the root (`TreeAssumption`,
`FirstNamesAssumption`), while files and links may have many names; in `Decoders` the numbers of a layout fit the word, clusters lie on the volume
(`LayoutsAssumption`), records in use exist (`ReadersAssumption`), and
`DisksAssumption` says what a prescribed disk is. TLC evaluates all of them on the
instances.

* `VDiskRegistry`: all seven properties and the type invariant. The inductive invariant is the type
  invariant, `Ownership`, `PathsUnique`, `ExclusiveFile`, what each entry
  satisfies on its own (`EntryOK`) and `FsOnOpenDisk`. `Ownership` is needed by
  everything else: that a freed identity is in no other entry is what makes
  changing one entry leave the others alone. The proof follows the call chain, one
  lemma per function, from `MapVDISKFile` to the commands.
* `DynamicVhd`: all four invariants and the refinement. `IInv` adds to them
  `Fresh` (outside the allocated blocks the file holds zeros, so a new block reads
  as it did before it existed) and `DriverInv` (what the driver
  and the file look like at each step of an allocation). The step that carries
  the refinement is that between `SetEOF` and `SetEntry` no table entry changes,
  and that `SetEntry` maps a block to units that are all zero.
* `FatSession`: type correctness and `HandlesAccounted` are inductive with `DirFlags`
  (a handle is marked as a directory exactly when its node is one). `LookupSound` is
  an induction on the tokens: `Sound` says of the place reached so far that the index
  is that of the node's own entry, unless the last token that names something is `..`,
  of which it then is the index. `CurrentDirIsDir` rests on it: the directory `cd` keeps
  was found with its own entry, whose attribute was tested.
* `FatWalk`: `OneBuffer`, with the fact that a walk has a query, by what each call does
  with the buffers: whatever is allocated is `dir_cache` or in `lost`, and only a call that
  ends a walk on the way up leaves `dir_cache` freed. Type correctness,
  with `FlagMatches`, that the query's flag is that of its entry, because the walk
  goes down by the flag. `WalkIsListing` needs what the program does not hold:
  the directories on the way down (`Stack`) and what is still to be listed in each of
  them (`Pending`). What was returned followed by what is pending is the listing
  (`ListInv`); going down, on and up move one entry from the second to the first.
  `PathMatchesEntry` follows from the same stack: the `..` entries and saved indices that
  `FSGetPath` climbs by are those of the stack. `WalkAdvances` counts what is pending:
  what was returned is a part of the listing, and a call returns another entry or is the last.
* `FatChain`: all five invariants and the type invariant, for any table, window and limit. `IInv` says of
  every chain from the start with as many clusters as were counted (`Path`) where
  the loops are in it: in the first loop at its last cluster (`SizeInv`), after it
  at the end mark (`FoundInv`), in the second at some cluster with fewer copied
  before it (`ReadInv`). It speaks of all such chains, and says that there is one.
  That differences of clusters do not wrap into the window is `CachedEntry`. `CallAdvances`
  is the limit in the first loop. The second counts nothing: it ends because the first has
  found the end, and a chain that ends is only one (`PathUnique`) and has no cluster
  twice (`PathRepeatsNothing`), so that `Place` says how far the loop is.
* `NtfsDriver`: the type invariant carries `WalkOK`, that the query is about
  the entry its reader is at and has saved an offset for each level above it, fewer than
  its limit (which is not to say that the buffer has room for them); without it
  neither `IndexAt` nor the slot of the walk is defined. `HandlesAccounted` needs
  that and the fact that a slot is taken free: one lemma per kind of command
  (opened and kept, opened and closed again, a query begun, changed, closed).
  `WalkIsListing` has an invariant like that of `FatWalk`, with the difference that a
  level is left by the first name of a directory, so it holds as long as the walk is not
  astray. `LookupSound` is an induction on the tokens (`At`), and `PathLeadsBack` one on
  the levels from the root (`Climb`), whose number `FirstNamesAssumption` bounds: down to
  the first name that is not read the path leads along its directories, and there the
  search ends without a hit.
  `LsAdvances` is that of a walk that finds its way up (`HomeInv`): the directories it came
  through are those above it by first name (`AncestorIsStack`), it never comes back to
  where it started (`NoWayAround`), so `Homely` says of each directory it leaves upwards that
  its last entry leads back, and `Roomy` that every offset has its place.
* `CommandLine`: type correctness is the claim that the loop stays within the
  line and the table of arguments. It is inductive with `LastStart`: the last
  argument starts at or before the character that is read, and before it if that
  character follows a quote. `ArgumentsAreWords` needs `SplitInv`, since the line is
  cut up in the buffer it is read from: from the start of the last argument the buffer
  still is the line, the arguments before it are complete words that end before it,
  as many as there are word ends, and the three flags of the loop are the parities of the
  backslashes and quotes read. `TokensAreParts` is an induction on the characters of
  the path (`PartOK`): the tokens, each with a slash, and the open one make up what was
  read, and there are as many tokens as slashes.
* `Decoders`: `ProtectiveMbr`, for any set of disks; the facts are about the operators
  of `GptDetect`, of which the one on the scan (`ScanAccepts`) is the least obvious.
  `ScanReturnsEntries`: what was found is what comes before the pointer of the reader
  (`ScanInv`), where the records before it that are in use are flattened. `RunsRead`
  has the longest argument. A number is the sum of its bytes, and written in as many bytes
  as hold it with its sign it is read back (`UnsignedOfBytes`, `ParseOfBytes`); adding the
  distances modulo the word gives the clusters of the layout (`RunsAreLayout`); and
  `AnalysisOK` says of the analysis before each run that `si` and `vcn` are the first run
  and the offset of the unit that is open, and that a run was marked if it shares the unit of
  one that is taken for a hole, and only then. Then the clusters are compared one by one.

What is defined by recursion is defined in these models by a function on the numbers up to
a length (the first `k` tokens, characters or runs), and what holds of it for every length
is shown by taking the least length for which it fails: `NatSetInduction` is that argument
for a set of numbers, `Recursion` the existence and the equation of such a
function, and `Flat` relates them to `FlattenSeq`. Both are proved from the library's
`WFMin`, in each module that needs them.

Out of reach of the prover and left to TLC: liveness (`CallEnds`, `LsEnds`), where `StepsLeft`
gives what is left of the argument, that a loop that may take a step does so (`ENABLED` and
fairness); and the four refuted claims, which are counterexamples.

## Disagreements between code and text

Refuted by a run, each with the text it disagrees with in `PROJECT.json`:

* `enter` on a closed disk with cached partitions calls a null driver (`vdisk.c:410`).
* The test for a negative length refuses reads over two blocks (`vhd.c:115`).
* `close` after exit, enter and `cd` closes the current directory (`commands.c:574`).
* `readFat32Data` does not read runs of adjacent clusters (`fat.c:1020`).

Other behaviour that the models have and a reader should know of:

* `listPartitions` keeps a disk's table over close and reopen, also when the file
  was replaced meanwhile (`vdisk.c:343`).
* On FAT a path that ends in `..` gets the index of that `..` in the directory it was
  found in, so `attribute` shows another entry's (`fat.c:1158`); a path of `.` leaves an
  index outside of the directory (`fat.c:1488`).
* `FSGetPath` on FAT gives bare names for the listed directory itself, and fails where
  the way up ends in cluster 0 (`fat.c:1660`, `fat.c:1674`).
* The test for too many GPT entries in the protective MBR is the wrong way round
  (`gpt.c:144`): a GPT entry is accepted in the first place only, and further ones
  after it are no error, the last of them being used. That both tables are the same is
  not asked. A table that cannot be read leaves its buffer allocated (`gpt.c:102`).
* A directory of NTFS that has index records is listed without the entries in its
  index root (`ntfs.c:395`), so a path that `ls` prints with a first name that is there
  leads nowhere (`PathLeadsBack`); and its records are found only if each
  is a cluster (`ntfs.c:534`): with smaller clusters the scan lands within a record or
  comes back to the same one without end.
* A run of a run list whose memory was not clear is read as zeros (`ntfs.c:226`).
* NTFS counts the limit of `ls -rl` differently: it descends one level less than FAT
  for the same number (`ntfs.c:1026`, `fat.c:1812`).
* A name looked up in an empty NTFS directory is compared with the entries of the
  directory before it, so `e/x` can find a sibling of `e` (`ntfs.c:668`); `ls` of an empty
  directory fails and keeps its slot (`ntfs.c:990`), and with a full table it writes
  outside of it (`ntfs.c:952`).
* NTFS allocates the buffer of a walk's offsets with 4 bytes for each level of its limit
  and keeps 8-byte offsets in it (`ntfs.c:967`, `ntfs_internal.h:21`). Whole pages hide that
  for limits up to 512. Beyond, a walk that gets deeper than the buffer has places writes
  behind it (`ntfs.c:1052`, and on the way up `ntfs.c:1162`): an access violation, or the
  memory of something else. Such a walk counts as led astray.
* An empty path has no tokens, and NTFS reads the first all the same (`ntfs.c:571`).
* `ls -r` that leaves a directory by a hard link goes on in another one (`ntfs.c:1097`).
* A blank at the end of a line is an empty argument (`console_main.c:216`), so `close `
  is not `close`. `attribute` without arguments in the command context compares an
  argument that there is not (`commands.c:417`), and a line that fills the buffer has
  no NUL (`console_main.c:190`).

Behaviour found on the way that no text of the repository contradicts: the first
write to a new block of a sparse disk always fails after growing the file, and
succeeds when repeated (`vhd.c:239`); a crash in an allocation leaves a file that
opens as raw until its footer is moved (`FooterRecoverable` says it is still
there); a call that ends a FAT walk below its first directory, or fails there, leaves
`dir_cache` pointing to a buffer it has freed, which close frees again, and leaks the one
it read last (`fat.c:1857`); no console command reaches the write path yet.

## Not modelled

FAT12 and FAT16 (every operation is "not implemented"), the FAT32 allocator (no
caller), VHDX and exFAT (declarations only), printing and formatting, 8.3 and long
name conversions and dates (a name is one value in all models), the field checks of
the VHD footer and of a plain MBR (their outcomes are in `VDiskRegistry`), memory that
is not freed in `ntfs.c` (bitmaps, and the path and tokens of an open), and the project
files. Two limits of the disk list are not in `VDiskRegistry` either: the list is one page
of 512 pointers, and nothing asks whether it is full (`vdisk.c:171`); and a file shorter than
a footer, whose last 512 bytes are read before its start (`vhd.c:332`). `NtfsDriver` takes an index record to hold its directory's entries as
`NtfsIndex` returns them; an empty index is within its record (`TreeAssumption`).
Entries of a directory with attribute lists are not followed by the code either.
`PROJECT.json` lists the parts with their status.

## Plan

1. The composition of `VDiskRegistry` with the session modules over the two contexts
   of the shell, through the disk and partition a driver keeps, with the proof that
   each context sees steps of its own module only.
2. A handle table as an abstract specification, implemented by both file system
   drivers, the refinement proved from `HandlesAccounted`.
3. The name conversions of `fat.c` as operators against a reference.
4. The list of partitions that `getGPTPartitions` and the MBR give.
5. That the listing of a tree has each entry once, which `WalkIsListing` leaves to the
   definition of `Listing`.
