----------------------------- MODULE NtfsIndex -----------------------------
(***************************************************************************)
(* How the NTFS driver goes through the index of a directory               *)
(* (NTFSGetDirEntries, getNextIndexValue in ntfs.c): the entries of the    *)
(* root if it has no index records, and otherwise those of the records     *)
(* that the bitmap names.                                                  *)
(*                                                                         *)
(* A reader has                                                            *)
(*   root     the entries of the index root,                               *)
(*   records  the entries of each index record, none if there is no index  *)
(*            allocation,                                                  *)
(*   bitmap   the numbers of the records in use,                           *)
(*   per      the clusters of a record: bytes_per_indr over those of a     *)
(*            cluster.                                                     *)
(* The entry that ends a node has no key and is not shown here: it is what *)
(* follows the last one.  Records are numbered from 1.                     *)
(***************************************************************************)
EXTENDS Integers, Sequences, FiniteSets

None   == [record |-> 0, entry |-> 0]   \* a null PNTFS_INDEX_VALUE
Astray == [record |-> -1, entry |-> 0]  \* a pointer into the middle of a record

RootOnly(reader) == reader.records = <<>>

Maxl(reader) == reader.per * Len(reader.records)

(* The pointer to the first entry, or to what ends the node, at an offset  *)
(* of so many clusters.                                                    *)
At(reader, offset) ==
  IF offset % reader.per = 0
    THEN [record |-> offset \div reader.per + 1, entry |-> 1]
    ELSE Astray

(* The bitmap is looked through from bit nxt_i on, with an offset that     *)
(* starts at n_off and grows by a record for each bit that is clear.       *)
FromBit(reader, nxt_i, n_off) ==
  LET used == {b \in reader.bitmap : b > nxt_i}
      bit  == CHOOSE b \in used : \A c \in used : b <= c
      off  == n_off + (bit - 1 - nxt_i) * reader.per
  IN IF used = {} THEN None
     ELSE IF off >= Maxl(reader) THEN None ELSE At(reader, off)

First(reader) ==
  IF RootOnly(reader) THEN [record |-> 1, entry |-> 1] ELSE FromBit(reader, 0, 0)

\* mutant: the record that the pointer is in is looked at again
NextRecordSame(reader, current) ==
  IF RootOnly(reader) THEN None ELSE FromBit(reader, current.record - 1, current.record)

(* What follows the entry that ends a node: the number of the next record  *)
(* times the size of a cluster is where it is looked for.                  *)
NextRecord(reader, current) ==
  IF RootOnly(reader) THEN None ELSE FromBit(reader, current.record, current.record)

(* The entries of the node that the pointer is in.                         *)
Node(reader, current) ==
  IF RootOnly(reader) THEN reader.root ELSE reader.records[current.record]
=============================================================================
