----------------------------- MODULE MCDecoders -----------------------------
(***************************************************************************)
(* Small instance of Decoders.  A byte has four values, a word four bytes  *)
(* and a compression unit four clusters.                                   *)
(***************************************************************************)
EXTENDS Decoders

(* Distances of one, two and three bytes of either sign; runs that end in  *)
(* the unit they start in, with it, in the next one and two further.  Of   *)
(* three runs together none is a unit long.                                *)
Run == [length : {1, 3, 4, 6}, cluster : {0, 2, 9, 30}]

MCLayouts ==
  UNION {[1 .. n -> Run] : n \in 1 .. 2} \cup [1 .. 3 -> {r \in Run : r.length # Unit}]

(* One run of three finds something in its memory.                         *)
MCMemory == {m \in [1 .. 3 -> SUBSET Flag] : Cardinality({i \in 1 .. 3 : m[i] # {}}) <= 1}

MCReaders ==
  {[root |-> root, records |-> <<>>, bitmap |-> {}, per |-> 1] :
     root \in {<<>>, <<"a">>, <<"a", "b">>}} \cup
  UNION {[root : {<<"k">>}, records : [1 .. n -> {<<>>, <<"a">>, <<"b", "c">>}],
          bitmap : SUBSET (1 .. n), per : {1, 2}] : n \in 1 .. 4}

-----------------------------------------------------------------------------
(* A disk as it is prescribed, with its last header at 40; then the same   *)
(* with up to two things changed, where a header that changed may have     *)
(* been given a new checksum.                                              *)
Header(at, other, parts) ==
  [constants |-> "right", current_lba |-> at, backup_lba |-> other,
   parts_start_lba |-> parts, usable |-> "all", disk_guid |-> "guid",
   entries_checksum |-> "parts", hdr_checksum |-> "none"]

Seal(gpt) == [gpt EXCEPT !.hdr_checksum = [body |-> Body(gpt), table |-> gpt.entries_checksum]]

Changes(lba) ==
  {[lba |-> lba, field |-> f[1], value |-> f[2], sealed |-> s] :
     f \in {<<"constants", "wrong">>, <<"current_lba", 7>>, <<"backup_lba", 7>>,
            <<"parts_start_lba", 3>>, <<"usable", "some">>, <<"disk_guid", "other">>,
            <<"entries_checksum", "rest">>},
     s \in BOOLEAN}

Changed(header, changes) ==
  [lba \in DOMAIN header |->
     LET mine == {c \in changes : c.lba = lba}
         gpt  == [f \in DOMAIN header[lba] |->
                    IF \E c \in mine : c.field = f
                      THEN (CHOOSE c \in mine : c.field = f).value
                      ELSE header[lba][f]]
     IN IF \E c \in mine : c.sealed THEN Seal(gpt) ELSE gpt]

Prescribed == [x \in {1, 40} |-> Seal(IF x = 1 THEN Header(1, 40, 2) ELSE Header(40, 1, 8))]

Tables == {[x \in 0 .. 60 |-> IF x \in {2, 8} THEN t[x] ELSE "none"] :
             t \in [{2, 8} -> {"parts", "rest"}]}

Disk(mbr, starts, changes, table, broken, asked) ==
  [mbr |-> mbr, starts |-> starts, header |-> Changed(Prescribed, changes),
   table |-> table, broken |-> broken,
   open |-> asked[1], mapped |-> asked[2], large |-> asked[3],
   prescribed |-> mbr = <<"ee", "empty", "empty", "empty">> /\ 1 \in starts
                  /\ changes = {} /\ table[2] = "parts" /\ table[8] = "parts"
                  /\ broken = {} /\ asked = <<TRUE, TRUE, TRUE>>]

Protective == <<"ee", "empty", "empty", "empty">>
Whole      == CHOOSE t \in Tables : t[2] = "parts" /\ t[8] = "parts"
AllAsked   == <<TRUE, TRUE, TRUE>>

MCDisks ==
  {Disk(mbr, starts, {}, Whole, {}, AllAsked) :
     mbr \in [1 .. 4 -> {"ee", "empty", "other"}], starts \in {1 .. 4, {1}, {}}} \cup
  {Disk(Protective, {1}, {a, b}, table, {}, AllAsked) :
     a \in Changes(1) \cup Changes(40), b \in Changes(1) \cup Changes(40), table \in Tables} \cup
  {Disk(Protective, {1}, {}, Whole, broken, asked) :
     broken \in SUBSET {0, 2, 8, 40}, asked \in [1 .. 3 -> BOOLEAN]}
=============================================================================
