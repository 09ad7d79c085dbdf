------------------------- MODULE CommandLineProofs -------------------------
(***************************************************************************)
(* Proofs that the loop of the shell stays within its buffers and gets the *)
(* words of the line, for every line and every size of the table of        *)
(* arguments. The type invariant is inductive once it is said where the    *)
(* last argument starts: not after the character that is read, and before  *)
(* it if that follows a quote. The words need what is in the buffer while  *)
(* it is changed in place (SplitInv): from the last argument on it is the  *)
(* line, before it are complete words, and the flags say how many          *)
(* backslashes and quotes precede. The tokens of a path follow from what   *)
(* parsePath has read at each character (PartOK).                          *)
(***************************************************************************)
EXTENDS CommandLine, FiniteSetTheorems, WellFoundedInduction, TLAPS

LastStart ==
  pc = "split" =>
    /\ Len(args) > 0
    /\ args[Len(args)] <= pos
    /\ stre => args[Len(args)] < pos

IInv == TypeOK /\ LastStart

LEMMA InitInv == Init => IInv
<1> SUFFICES ASSUME Init PROVE IInv OBVIOUS
<1>1. line \in Seq(Char) /\ buf \in Seq(Char \cup {NUL}) /\ Len(buf) = Len(line) + 1
      /\ buf[Len(buf)] = NUL /\ pos \in DOMAIN buf
  BY DEF Init
<1>2. args \in Seq(DOMAIN buf) /\ Len(args) <= MaxArgs BY ArgsAssumption DEF Init
<1> QED BY <1>1, <1>2 DEF Init, IInv, TypeOK, LastStart

(* After a command the buffers are as they were first.                     *)
LEMMA ClearInv ==
  ASSUME Clear, pc' = "prompt", context' \in {"cmd", "fs"}, driver' = (context' = "fs")
  PROVE  IInv'
<1>1. line' \in Seq(Char) /\ buf' \in Seq(Char \cup {NUL}) /\ Len(buf') = Len(line') + 1
      /\ buf'[Len(buf')] = NUL /\ pos' \in DOMAIN buf'
  BY DEF Clear
<1>2. args' \in Seq(DOMAIN buf') /\ Len(args') <= MaxArgs BY ArgsAssumption DEF Clear
<1> QED BY <1>1, <1>2 DEF Clear, IInv, TypeOK, LastStart

LEMMA AppendNul ==
  ASSUME NEW l \in Seq(Char)
  PROVE  LET b == Append(l, NUL) IN
         /\ b \in Seq(Char \cup {NUL}) /\ Len(b) = Len(l) + 1 /\ b[Len(b)] = NUL
         /\ DOMAIN b = 1 .. Len(l) + 1
<1> DEFINE T == Char \cup {NUL}
<1>1. l \in Seq(T)
  <2>1. \A i \in 1 .. Len(l) : l[i] \in T OBVIOUS
  <2> QED BY <2>1
<1>2. NUL \in T OBVIOUS
<1> HIDE DEF T, NUL
<1>3. LET b == Append(l, NUL) IN
        b \in Seq(T) /\ Len(b) = Len(l) + 1 /\ b[Len(b)] = NUL /\ DOMAIN b = 1 .. Len(l) + 1
  BY <1>1, <1>2
<1> QED BY <1>3 DEF T

LEMMA ReadInv ==
  ASSUME IInv, NEW l \in Lines, ReadLine(l)
  PROVE  IInv'
<1>1. PICK i \in DOMAIN l :
        line' = l /\ buf' = Append(l, NUL) /\ pos' = i /\ args' = <<i>>
  BY DEF ReadLine
<1>2. l \in Seq(Char) BY LinesAssumption
<1>3. i \in 1 .. Len(l) /\ Len(l) \in Nat BY <1>2
<1>4. buf' \in Seq(Char \cup {NUL}) /\ Len(buf') = Len(l) + 1 /\ buf'[Len(buf')] = NUL
      /\ DOMAIN buf' = 1 .. Len(l) + 1
  BY <1>1, <1>2, AppendNul
<1>5. pos' \in DOMAIN buf' BY <1>1, <1>3, <1>4
<1>6. args' \in Seq(DOMAIN buf') /\ Len(args') = 1 /\ args'[1] = i
  <2>1. i \in DOMAIN buf' BY <1>1, <1>5
  <2> QED BY <1>1, <2>1
<1>7. Len(args') <= MaxArgs BY <1>6, ArgsAssumption
<1>8. strs' \in BOOLEAN BY DEF ReadLine
<1>9. TypeOK'
  <2>1. line' \in Seq(Char) /\ Len(buf') = Len(line') + 1 BY <1>1, <1>2, <1>4
  <2>2. /\ pc' = "split" /\ context' = context /\ driver' = driver
        /\ escape' \in BOOLEAN /\ str' \in BOOLEAN /\ stre' \in BOOLEAN
    BY DEF ReadLine
  <2> QED BY <1>4, <1>5, <1>6, <1>7, <1>8, <2>1, <2>2 DEF IInv, TypeOK
<1>10. LastStart'
  <2>1. pos' = i /\ stre' = FALSE BY <1>1 DEF ReadLine
  <2> QED BY <1>3, <1>6, <2>1 DEF LastStart
<1> QED BY <1>9, <1>10 DEF IInv

(* While a line is split there is a character at pos, and no other than    *)
(* the NUL is the last.                                                    *)
LEMMA Within ==
  ASSUME IInv, pc = "split"
  PROVE  /\ Len(buf) \in Nat /\ DOMAIN buf = 1 .. Len(buf)
         /\ pos \in 1 .. Len(buf)
         /\ buf[pos] # NUL => pos < Len(buf)
         /\ Len(args) \in Nat \ {0} /\ DOMAIN args = 1 .. Len(args)
         /\ args[Len(args)] \in 1 .. pos
         /\ Quoted => args[Len(args)] < pos
<1>1. buf \in Seq(Char \cup {NUL}) /\ buf[Len(buf)] = NUL /\ pos \in DOMAIN buf
      /\ args \in Seq(DOMAIN buf)
  BY DEF IInv, TypeOK
<1>2. Len(buf) \in Nat /\ DOMAIN buf = 1 .. Len(buf) BY <1>1
<1>3. Len(args) \in Nat \ {0} /\ DOMAIN args = 1 .. Len(args) BY <1>1 DEF IInv, LastStart
<1>4. args[Len(args)] \in 1 .. Len(buf) BY <1>1, <1>2, <1>3
<1> QED BY <1>1, <1>2, <1>3, <1>4 DEF IInv, LastStart, Quoted

(* A character that changes nothing but the flags.                         *)
LEMMA AdvanceInv ==
  ASSUME IInv, pc = "split", buf[pos] # NUL, pos' = pos + 1, pc' = pc,
         UNCHANGED <<context, driver, line, buf, args>>,
         escape' \in BOOLEAN, str' \in BOOLEAN, stre' \in BOOLEAN, strs' = strs
  PROVE  IInv'
<1>1. pos' \in DOMAIN buf' BY Within
<1>2. TypeOK' BY <1>1 DEF IInv, TypeOK
<1>3. LastStart' BY Within DEF LastStart
<1> QED BY <1>2, <1>3 DEF IInv

LEMMA ClosedType ==
  ASSUME IInv, pc = "split"
  PROVE  ClosedArgs \in Seq(DOMAIN buf) /\ Len(ClosedArgs) = Len(args)
<1>1. args \in Seq(DOMAIN buf) BY DEF IInv, TypeOK
<1>2. CASE Quoted
  <2>1. args[Len(args)] + 1 \in DOMAIN buf BY <1>2, Within
  <2> QED BY <1>1, <1>2, <2>1, Within DEF ClosedArgs
<1>3. CASE ~ Quoted BY <1>1, <1>3 DEF ClosedArgs
<1> QED BY <1>2, <1>3

(* A NUL within the line.                                                  *)
LEMMA CutType ==
  ASSUME IInv, NEW i \in DOMAIN buf, buf' = [buf EXCEPT ![i] = NUL]
  PROVE  /\ buf' \in Seq(Char \cup {NUL}) /\ Len(buf') = Len(buf) /\ buf'[Len(buf')] = NUL
         /\ DOMAIN buf' = DOMAIN buf
<1>1. buf \in Seq(Char \cup {NUL}) /\ buf[Len(buf)] = NUL BY DEF IInv, TypeOK
<1> DEFINE T == Char \cup {NUL}
<1>2. NUL \in T /\ buf \in Seq(T) BY <1>1
<1> HIDE DEF T, NUL
<1>3. buf' \in Seq(T) /\ Len(buf') = Len(buf) /\ DOMAIN buf' = DOMAIN buf BY <1>2
<1>4. buf'[Len(buf')] = NUL BY <1>1, <1>2, <1>3
<1> QED BY <1>3, <1>4 DEF T

LEMMA BlankInv ==
  ASSUME IInv, Blank
  PROVE  IInv'
<1>0. pc = "split" /\ pc' = pc /\ UNCHANGED <<context, driver, line, str>>
      /\ stre' = FALSE /\ escape' = FALSE
  BY DEF Blank, Splitting
<1>1. PICK next \in DOMAIN buf :
        args' = Append(ClosedArgs, next) /\ pos' = next
  BY DEF Blank
<1>2. (IF Quoted THEN pos - 1 ELSE pos) \in DOMAIN buf
  <2>1. Quoted => pos - 1 \in DOMAIN buf BY <1>0, Within
  <2>2. pos \in DOMAIN buf BY <1>0, Within
  <2> QED BY <2>1, <2>2
<1>3. buf' \in Seq(Char \cup {NUL}) /\ Len(buf') = Len(buf) /\ buf'[Len(buf')] = NUL
      /\ DOMAIN buf' = DOMAIN buf
  BY <1>2, CutType DEF Blank
<1>4. ClosedArgs \in Seq(DOMAIN buf) /\ Len(ClosedArgs) = Len(args) BY <1>0, ClosedType
<1>5. args' \in Seq(DOMAIN buf) /\ Len(args') = Len(args) + 1 /\ args'[Len(args')] = next
  BY <1>1, <1>4
<1>6. Len(args') <= MaxArgs
  <2>1. Len(args) < MaxArgs BY DEF Blank, HasRoom
  <2> QED BY <1>0, <1>5, <2>1, Within, ArgsAssumption
<1>7. strs' \in BOOLEAN BY DEF Blank
<1>8. TypeOK' BY <1>0, <1>1, <1>3, <1>5, <1>6, <1>7 DEF IInv, TypeOK
<1>9. LastStart'
  <2>1. next \in Nat BY <1>0, Within
  <2> QED BY <1>0, <1>1, <1>5, <2>1, Within DEF LastStart
<1> QED BY <1>8, <1>9 DEF IInv

LEMMA EndInv ==
  ASSUME IInv, EndOfLine
  PROVE  IInv'
<1>0. pc = "split" /\ pc' = "run"
      /\ UNCHANGED <<context, driver, line, pos, escape, str, stre, strs>>
      /\ args' = ClosedArgs
  BY DEF EndOfLine, Splitting
<1>1. buf' \in Seq(Char \cup {NUL}) /\ Len(buf') = Len(buf) /\ buf'[Len(buf')] = NUL
      /\ DOMAIN buf' = DOMAIN buf
  <2>1. CASE Quoted
    <3>1. pos - 1 \in DOMAIN buf BY <1>0, <2>1, Within
    <3> QED BY <2>1, <3>1, CutType DEF EndOfLine
  <2>2. CASE ~ Quoted BY <2>2 DEF EndOfLine, IInv, TypeOK
  <2> QED BY <2>1, <2>2
<1>2. args' \in Seq(DOMAIN buf') /\ Len(args') <= MaxArgs
  BY <1>0, <1>1, ClosedType DEF IInv, TypeOK
<1>3. TypeOK' BY <1>0, <1>1, <1>2 DEF IInv, TypeOK
<1> QED BY <1>0, <1>3 DEF IInv, LastStart

LEMMA SameInv ==
  ASSUME IInv, UNCHANGED <<context, driver, scanner>>, pc' \in {pc, "run", "open", "left"}
  PROVE  IInv'
BY DEF IInv, TypeOK, LastStart, scanner

LEMMA StepInv == IInv /\ [Next]_vars => IInv'
<1> SUFFICES ASSUME IInv, [Next]_vars PROVE IInv' OBVIOUS
<1>0. /\ escape \in BOOLEAN /\ str \in BOOLEAN /\ stre \in BOOLEAN
      /\ context \in {"cmd", "fs"} /\ driver = (context = "fs")
  BY DEF IInv, TypeOK
<1>1. ASSUME NEW l \in Lines, ReadLine(l) PROVE IInv' BY <1>1, ReadInv
<1>2. CASE \/ NoInput \/ ParsePath \/ Quit \/ AttributeCrashes
           \/ \E l \in Lines : LineFills(l)
  BY <1>2, SameInv DEF NoInput, ParsePath, Quit, AttributeCrashes, LineFills
<1>3. CASE Blank BY <1>3, BlankInv
<1>4. CASE QuotedBlank
  <2>1. buf[pos] # NUL BY <1>4 DEF QuotedBlank, Splitting, NUL
  <2> QED BY <1>0, <1>4, <2>1, AdvanceInv DEF QuotedBlank, Splitting
<1>5. CASE Backslash
  <2>1. buf[pos] # NUL BY <1>5 DEF Backslash, Splitting, NUL
  <2> QED BY <1>0, <1>5, <2>1, AdvanceInv DEF Backslash, Splitting
<1>6. CASE Quote
  <2>1. buf[pos] # NUL BY <1>6 DEF Quote, Splitting, NUL
  <2>2. str' \in BOOLEAN /\ stre' \in BOOLEAN BY <1>0, <1>6 DEF Quote
  <2> QED BY <1>0, <1>6, <2>1, <2>2, AdvanceInv DEF Quote, Splitting
<1>7. CASE OtherChar
  <2>1. pc = "split" /\ buf[pos] # NUL BY <1>7, CharAssumption DEF OtherChar, Splitting
  <2> QED BY <1>0, <1>7, <2>1, AdvanceInv DEF OtherChar
<1>8. CASE EndOfLine BY <1>8, EndInv
<1>9. CASE Done BY <1>0, <1>9, ClearInv DEF Done
<1>10. CASE EnterFS BY <1>10, ClearInv DEF EnterFS
<1>11. CASE ExitFS BY <1>11, ClearInv DEF ExitFS
<1>12. CASE UNCHANGED vars BY <1>12, SameInv DEF vars
<1> QED BY <1>1, <1>2, <1>3, <1>4, <1>5, <1>6, <1>7, <1>8, <1>9, <1>10, <1>11, <1>12 DEF Next

(* Whatever is typed, the loop reads and writes within the line and its    *)
(* NUL, its arguments start within the line and are at most as many as the *)
(* table holds, and the file system context is that of a driver (WinMain). *)
THEOREM TypeCorrect == Spec => []TypeOK
<1>1. Init => IInv BY InitInv
<1>2. IInv /\ [Next]_vars => IInv' BY StepInv
<1>3. IInv => TypeOK BY DEF IInv
<1> QED BY <1>1, <1>2, <1>3, PTL DEF Spec
-----------------------------------------------------------------------------

(* Induction on a set of numbers, from the least number outside of it.     *)
LEMMA NatSetInduction ==
  ASSUME NEW T, 0 \in T, \A n \in Nat : n \in T => n + 1 \in T
  PROVE  Nat \subseteq T
<1> SUFFICES ASSUME Nat \ T # {} PROVE FALSE OBVIOUS
<1>1. PICK x \in Nat \ T : \A y \in Nat \ T : ~ (<<y, x>> \in OpToRel(<, Nat))
  <2>1. IsWellFoundedOn(OpToRel(<, Nat), Nat) BY NatLessThanWellFounded
  <2> QED BY <2>1, WFMin
<1>2. \A y \in Nat \ T : ~ (y < x) BY <1>1 DEF OpToRel
<1>3. x - 1 \in Nat /\ x - 1 \notin Nat \ T BY <1>2
<1>4. x - 1 + 1 = x /\ x \notin T OBVIOUS
<1> QED BY <1>3, <1>4

(* There is a function that is defined by recursion on its argument.       *)
Unfolds(g, S, c, N, D) ==
  g \in [0 .. N -> S] /\ g[0] = c /\ \A n \in 1 .. N : g[n] = D[<<g[n - 1], n>>]

LEMMA Recursion ==
  ASSUME NEW S, NEW c, c \in S, NEW N, N \in Nat, NEW D, D \in [S \X (1 .. N) -> S]
  PROVE  \E g : Unfolds(g, S, c, N, D)
<1> DEFINE Begins(g, k) == /\ g \in [0 .. k -> S] /\ g[0] = c
                           /\ \A n \in 1 .. k : g[n] = D[<<g[n - 1], n>>]
           T == {k \in Nat : k <= N => \E g : Begins(g, k)}
<1>1. 0 \in T
  <2>1. Begins([n \in 0 .. 0 |-> c], 0) OBVIOUS
  <2> QED BY <2>1
<1>2. ASSUME NEW k \in Nat, k \in T PROVE k + 1 \in T
  <2> SUFFICES ASSUME k + 1 <= N PROVE \E h : Begins(h, k + 1) OBVIOUS
  <2>1. PICK g : Begins(g, k) BY <1>2
  <2> DEFINE h == [n \in 0 .. k + 1 |-> IF n <= k THEN g[n] ELSE D[<<g[k], k + 1>>]]
  <2>2. g[k] \in S /\ k + 1 \in 1 .. N BY <2>1
  <2>3. h \in [0 .. k + 1 -> S] /\ h[0] = c BY <2>1, <2>2
  <2>4. ASSUME NEW n \in 1 .. k + 1 PROVE h[n] = D[<<h[n - 1], n>>]
    <3>1. n - 1 \in 0 .. k /\ h[n - 1] = g[n - 1] OBVIOUS
    <3>2. CASE n \in 1 .. k
      <4>1. h[n] = g[n] BY <3>2
      <4> QED BY <2>1, <3>1, <3>2, <4>1
    <3>3. CASE n = k + 1
      <4>1. h[n] = D[<<g[k], k + 1>>] BY <3>3
      <4>2. n - 1 = k BY <3>3
      <4> QED BY <3>1, <3>3, <4>1, <4>2
    <3> QED BY <3>2, <3>3
  <2> QED BY <2>3, <2>4
<1> HIDE DEF T
<1>3. N \in T BY <1>1, <1>2, NatSetInduction
<1> QED BY <1>3 DEF T, Unfolds

(* FlattenSeq adds up the sequences one after the other.                   *)
Flat(g, s, A) ==
  g \in [0 .. Len(s) -> Seq(A)] /\ g[0] = <<>> /\ \A n \in 1 .. Len(s) : g[n] = g[n - 1] \o s[n]

LEMMA FlatExists ==
  ASSUME NEW A, NEW s \in Seq(Seq(A))
  PROVE  \E g : Flat(g, s, A)
<1> DEFINE S == Seq(A)
           N == Len(s)
           D == [x \in S \X (1 .. N) |-> x[1] \o s[x[2]]]
<1>1. N \in Nat /\ <<>> \in S OBVIOUS
<1>2. \A t \in S, k \in 1 .. N : t \o s[k] \in S OBVIOUS
<1>3. D \in [S \X (1 .. N) -> S] BY <1>2
<1>4. PICK g : Unfolds(g, S, <<>>, N, D)
  <2> HIDE DEF D, N, S
  <2> QED BY <1>1, <1>3, Recursion
<1>5. ASSUME NEW n \in 1 .. N PROVE g[n] = g[n - 1] \o s[n]
  <2>0. n - 1 \in 0 .. N BY <1>1
  <2>1. g[n - 1] \in S
    <3> HIDE DEF S, N
    <3> QED BY <1>4, <2>0 DEF Unfolds
  <2>2. <<g[n - 1], n>> \in S \X (1 .. N) BY <2>1
  <2>3. D[<<g[n - 1], n>>] = g[n - 1] \o s[n] BY <2>2
  <2>4. g[n] = D[<<g[n - 1], n>>]
    <3> HIDE DEF S, N, D
    <3> QED BY <1>4 DEF Unfolds
  <2> QED BY <2>3, <2>4
<1>6. g \in [0 .. N -> S] /\ g[0] = <<>> BY <1>4 DEF Unfolds
<1> QED BY <1>5, <1>6 DEF Flat

LEMMA FlattenIs ==
  ASSUME NEW A, NEW s \in Seq(Seq(A)), NEW g, Flat(g, s, A)
  PROVE  FlattenSeq(s) = g[Len(s)]
<1>0. \A n \in 1 .. Len(s) : g[n] = g[n - 1] \o s[n] BY Zenon DEF Flat
<1>1. CASE Len(s) = 0
  <2>1. s = <<>> BY <1>1
  <2> QED BY <1>1, <2>1 DEF FlattenSeq, Flat
<1>2. CASE Len(s) # 0
  <2> DEFINE Sound(f) == f = [i \in 1 .. Len(s) |-> IF i = 1 THEN s[i] ELSE f[i - 1] \o s[i]]
  <2>1. Len(s) \in Nat /\ Len(s) > 0 /\ \A i \in 1 .. Len(s) : s[i] \in Seq(A) BY <1>2
  <2>2. FlattenSeq(s) = (CHOOSE f : Sound(f))[Len(s)] BY <1>2 DEF FlattenSeq
  <2>3. g[1] = s[1]
    <3>1. s[1] \in Seq(A) BY <2>1
    <3>2. 1 \in 1 .. Len(s) /\ g[0] = <<>> BY <2>1 DEF Flat
    <3>3. g[1] = g[1 - 1] \o s[1] BY <1>0, <3>2, Zenon
    <3>4. g[1 - 1] = <<>> BY <3>2
    <3> QED BY <3>1, <3>3, <3>4
  <2>4. \E f : Sound(f)
    <3> DEFINE f == [i \in 1 .. Len(s) |-> g[i]]
    <3>1. ASSUME NEW i \in 1 .. Len(s)
          PROVE  f[i] = IF i = 1 THEN s[i] ELSE f[i - 1] \o s[i]
      <4>1. CASE i = 1 BY <2>3, <4>1
      <4>2. CASE i # 1
        <5>1. i - 1 \in 1 .. Len(s) BY <2>1, <4>2
        <5>2. f[i - 1] = g[i - 1] /\ f[i] = g[i] BY <5>1, Zenon
        <5>3. g[i] = g[i - 1] \o s[i] BY <1>0, Zenon
        <5> QED BY <4>2, <5>2, <5>3, Zenon
      <4> QED BY <4>1, <4>2
    <3>2. f = [i \in 1 .. Len(s) |-> IF i = 1 THEN s[i] ELSE f[i - 1] \o s[i]] BY <3>1
    <3> QED BY <3>2
  <2>5. PICK f : Sound(f) /\ FlattenSeq(s) = f[Len(s)] BY <2>2, <2>4
  <2>6. f[1] = s[1] BY <2>1, <2>5
  <2>7. \A i \in 1 .. Len(s) : i # 1 => f[i] = f[i - 1] \o s[i] BY <2>5
  <2> DEFINE T == {k \in Nat : k > 0 /\ k <= Len(s) => f[k] = g[k]}
  <2>8. 0 \in T OBVIOUS
  <2>9. ASSUME NEW k \in Nat, k \in T PROVE k + 1 \in T
    <3> SUFFICES ASSUME k + 1 <= Len(s) PROVE f[k + 1] = g[k + 1] OBVIOUS
    <3>1. CASE k = 0 BY <2>3, <2>6, <3>1
    <3>2. CASE k # 0
      <4>1. f[k] = g[k] BY <2>9, <3>2
      <4> DEFINE n == k + 1
      <4>2. n \in 1 .. Len(s) /\ n - 1 = k /\ n # 1 BY <2>1, <3>2
      <4> HIDE DEF n
      <4>3. f[n] = f[n - 1] \o s[n] BY <2>7, <4>2, Zenon
      <4>4. g[n] = g[n - 1] \o s[n] BY <1>0, <4>2, Zenon
      <4>5. f[n] = g[n] BY <4>1, <4>2, <4>3, <4>4, Zenon
      <4> QED BY <4>5 DEF n
    <3> QED BY <3>1, <3>2
  <2> HIDE DEF T
  <2>10. Len(s) \in T BY <2>1, <2>8, <2>9, NatSetInduction
  <2> QED BY <2>1, <2>5, <2>10 DEF T
<1> QED BY <1>1, <1>2

LEMMA FlattenAppend ==
  ASSUME NEW A, NEW s \in Seq(Seq(A)), NEW x \in Seq(A)
  PROVE  FlattenSeq(s) \in Seq(A) /\ FlattenSeq(Append(s, x)) = FlattenSeq(s) \o x
<1> DEFINE S == Seq(A)
           t == Append(s, x)
           N == Len(s)
<1>1. PICK g : Flat(g, s, A) BY FlatExists
<1>2. /\ N \in Nat /\ Len(t) = N + 1 /\ t \in Seq(S) /\ t[N + 1] = x
      /\ \A i \in 1 .. N : t[i] = s[i]
  <2>1. s \in Seq(S) /\ x \in S OBVIOUS
  <2> HIDE DEF S
  <2> QED BY <2>1
<1>3. g \in [0 .. N -> S] /\ g[0] = <<>> /\ \A n \in 1 .. N : g[n] = g[n - 1] \o s[n]
  BY <1>1 DEF Flat
<1> DEFINE h == [n \in 0 .. N + 1 |-> IF n <= N THEN g[n] ELSE g[N] \o x]
<1>4. FlattenSeq(s) = g[N] BY <1>1, FlattenIs
<1>5. g[N] \in S /\ g[N] \o x \in S BY <1>2, <1>3
<1>6. Flat(h, t, A)
  <2>1. h \in [0 .. N + 1 -> S] /\ h[0] = <<>> BY <1>2, <1>3, <1>5
  <2>2. ASSUME NEW n \in 1 .. N + 1 PROVE h[n] = h[n - 1] \o t[n]
    <3>1. n - 1 \in 0 .. N /\ h[n - 1] = g[n - 1] BY <1>2
    <3>2. CASE n \in 1 .. N
      <4>1. h[n] = g[n] /\ t[n] = s[n] BY <1>2, <3>2
      <4> QED BY <1>3, <3>1, <3>2, <4>1
    <3>3. CASE n = N + 1
      <4>1. h[n] = g[N] \o x /\ n - 1 = N BY <1>2, <3>3
      <4> QED BY <1>2, <3>1, <3>3, <4>1
    <3> QED BY <1>2, <3>2, <3>3
  <2> QED BY <1>2, <2>1, <2>2 DEF Flat
<1>7. FlattenSeq(t) = h[N + 1]
  <2> HIDE DEF h, t
  <2> QED BY <1>2, <1>6, FlattenIs
<1>8. h[N + 1] = g[N] \o x BY <1>2
<1> QED BY <1>4, <1>5, <1>7, <1>8
-----------------------------------------------------------------------------
(* What parsePath has read is the tokens, each with its slash, and the     *)
(* characters after the last slash; there is a token for each slash.       *)
Plain == Char \ {"/"}

Ended(toksOf) == [i \in DOMAIN toksOf |-> Append(toksOf[i], "/")]

PartType == [done : Seq(Seq(Plain)), open : Seq(Plain)]

LEMMA WiderSeq ==
  ASSUME NEW A, NEW B, A \subseteq B, NEW s \in Seq(A)
  PROVE  s \in Seq(B)
<1>1. \A i \in 1 .. Len(s) : s[i] \in B OBVIOUS
<1>2. s = [i \in 1 .. Len(s) |-> s[i]] /\ Len(s) \in Nat OBVIOUS
<1> QED BY <1>1, <1>2

LEMMA ConcatFacts ==
  ASSUME NEW A, NEW s \in Seq(A), NEW x \in A
  PROVE  s \o <<>> = s /\ Append(s, x) # <<>>
<1>1. s \o <<>> = s OBVIOUS
<1>2. Len(Append(s, x)) = Len(s) + 1 /\ Len(s) \in Nat OBVIOUS
<1>3. Append(s, x) # <<>>
  <2>1. Len(<<>>) = 0 OBVIOUS
  <2> DEFINE q == Append(s, x)
  <2> HIDE DEF q
  <2>2. Len(q) # Len(<<>>) BY <1>2, <2>1 DEF q
  <2>3. q # <<>> BY <2>2, Zenon
  <2> QED BY <2>3 DEF q
<1> QED BY <1>1, <1>3

LEMMA ConcatAppend ==
  \A s, t \in Seq(Char), x \in Char : Append(s \o t, x) = s \o Append(t, x)
<1> TAKE s, t \in Seq(Char), x \in Char
<1> DEFINE u == Append(s \o t, x)
           v == s \o Append(t, x)
           N == Len(s) + Len(t) + 1
<1>1. u \in Seq(Char) /\ Len(u) = N OBVIOUS
<1>2. v \in Seq(Char) /\ Len(v) = N OBVIOUS
<1>3. ASSUME NEW i \in 1 .. N PROVE u[i] = v[i]
  <2>1. CASE i <= Len(s) BY <2>1
  <2>2. CASE i > Len(s) /\ i < N
    <3>1. i - Len(s) \in 1 .. Len(t) BY <2>2
    <3>2. u[i] = (s \o t)[i] BY <2>2
    <3>3. (s \o t)[i] = t[i - Len(s)] BY <2>2
    <3>4. v[i] = Append(t, x)[i - Len(s)] BY <2>2
    <3> QED BY <3>1, <3>2, <3>3, <3>4
  <2>3. CASE i = N BY <2>3
  <2> QED BY <2>1, <2>2, <2>3
<1>4. u = v
  <2> HIDE DEF u, v
  <2> QED BY <1>1, <1>2, <1>3
<1> QED BY <1>4

LEMMA EndedAppend ==
  ASSUME NEW s \in Seq(Seq(Plain)), NEW x \in Seq(Plain)
  PROVE  /\ Ended(s) \in Seq(Seq(Char)) /\ Append(x, "/") \in Seq(Char)
         /\ Ended(Append(s, x)) = Append(Ended(s), Append(x, "/"))
<1>1. \A y \in Seq(Plain) : Append(y, "/") \in Seq(Char)
  <2> TAKE y \in Seq(Plain)
  <2>1. Plain \subseteq Char BY DEF Plain
  <2>2. y \in Seq(Char) BY <2>1, WiderSeq
  <2>3. "/" \in Char BY CharAssumption
  <2> QED BY <2>2, <2>3
<1> DEFINE P == Seq(Plain)
           C == Seq(Char)
           L(y) == Append(y, "/")
<1>2. s \in Seq(P) /\ x \in P /\ \A y \in P : L(y) \in C BY <1>1
<1> HIDE DEF P, C, L
<1> DEFINE e == [i \in DOMAIN s |-> L(s[i])]
           f == [i \in DOMAIN Append(s, x) |-> L(Append(s, x)[i])]
<1>3. e \in Seq(C) /\ Len(e) = Len(s) BY <1>2
<1>4. f = Append(e, L(x))
  <2>1. L(x) \in C BY <1>2
  <2>2. Append(s, x) \in Seq(P) /\ Len(Append(s, x)) = Len(s) + 1 BY <1>2
  <2>3. DOMAIN f = 1 .. Len(s) + 1 BY <2>2
  <2>4. Append(e, L(x)) \in Seq(C) /\ Len(Append(e, L(x))) = Len(s) + 1 BY <1>3, <2>1
  <2>5. ASSUME NEW i \in 1 .. Len(s) + 1 PROVE f[i] = Append(e, L(x))[i]
    <3>1. CASE i = Len(s) + 1 BY <1>2, <1>3, <2>1, <2>3, <3>1
    <3>2. CASE i # Len(s) + 1
      <4>1. i \in 1 .. Len(s) BY <1>2, <3>2
      <4>2. Append(s, x)[i] = s[i] BY <1>2, <4>1
      <4>3. Append(e, L(x))[i] = e[i] BY <1>3, <2>1, <4>1
      <4>4. e[i] = L(s[i]) BY <1>2, <4>1
      <4> QED BY <2>3, <4>2, <4>3, <4>4
    <3> QED BY <3>1, <3>2
  <2>6. f = [i \in 1 .. Len(s) + 1 |-> f[i]] BY <2>3
  <2>7. Append(e, L(x)) = [i \in 1 .. Len(s) + 1 |-> Append(e, L(x))[i]]
    <3> DEFINE q == Append(e, L(x))
    <3> HIDE DEF q
    <3> QED BY <2>4
  <2> HIDE DEF f
  <2> QED BY <2>5, <2>6, <2>7
<1>5. Ended(s) = e /\ Ended(Append(s, x)) = f BY DEF Ended, L
<1>6. e \in Seq(C) /\ f = Append(e, L(x)) BY <1>3, <1>4
<1> QED BY <1>1, <1>5, <1>6 DEF C, L

SlashesIn(p, k) == {i \in 1 .. k : p[i] = "/"}

PartOK(t, p, k) ==
  /\ t \in PartType
  /\ FlattenSeq(Ended(t.done)) \o t.open = SubSeq(p, 1, k)
  /\ IsFiniteSet(SlashesIn(p, k)) /\ Len(t.done) = Cardinality(SlashesIn(p, k))
  /\ k > 0 => (t.open = <<>> <=> p[k] = "/")

LEMMA PartStep ==
  ASSUME NEW p \in Seq(Char), NEW m \in 1 .. Len(p), NEW t, PartOK(t, p, m - 1)
  PROVE  PartOK(AtSlash(t, p[m]), p, m)
<1> DEFINE u == AtSlash(t, p[m])
           flat == FlattenSeq(Ended(t.done))
<1>1. Len(p) \in Nat /\ p[m] \in Char /\ m - 1 \in Nat /\ m \in Nat OBVIOUS
<1>2. t \in PartType /\ t.done \in Seq(Seq(Plain)) /\ t.open \in Seq(Plain)
  BY DEF PartOK, PartType
<1>3. Ended(t.done) \in Seq(Seq(Char)) /\ Append(t.open, "/") \in Seq(Char)
  BY <1>2, EndedAppend
<1>4. flat \in Seq(Char) BY <1>2, <1>3, FlattenAppend
<1>5. SubSeq(p, 1, m) = Append(SubSeq(p, 1, m - 1), p[m]) BY <1>1
<1>6. t.open \in Seq(Char)
  <2>1. Plain \subseteq Char BY DEF Plain
  <2> QED BY <1>2, <2>1, WiderSeq
<1>7. Append(flat \o t.open, p[m]) = flat \o Append(t.open, p[m])
  <2> DEFINE x == p[m]
             o == t.open
  <2>1. x \in Char /\ o \in Seq(Char) /\ flat \in Seq(Char) BY <1>1, <1>4, <1>6
  <2> HIDE DEF flat, x, o
  <2>2. Append(flat \o o, x) = flat \o Append(o, x) BY <2>1, ConcatAppend, Zenon
  <2> QED BY <2>2 DEF x, o
<1>8. flat \o t.open = SubSeq(p, 1, m - 1) BY DEF PartOK
<1>9. SubSeq(p, 1, m) = flat \o Append(t.open, p[m]) BY <1>5, <1>7, <1>8
<1>10. CASE p[m] = "/"
  <2>1. u = [done |-> Append(t.done, t.open), open |-> <<>>] BY <1>10 DEF AtSlash
  <2>2. Append(t.done, t.open) \in Seq(Seq(Plain)) BY <1>2
  <2>3. u \in PartType BY <2>1, <2>2 DEF PartType
  <2>4. Ended(u.done) = Append(Ended(t.done), Append(t.open, "/"))
    <3>1. u.done = Append(t.done, t.open) BY <2>1
    <3> HIDE DEF u
    <3> QED BY <1>2, <3>1, EndedAppend
  <2>5. FlattenSeq(Ended(u.done)) \in Seq(Char)
    <3>1. u.done \in Seq(Seq(Plain)) BY <2>1, <2>2
    <3>2. Ended(u.done) \in Seq(Seq(Char)) BY <1>2, <3>1, EndedAppend
    <3> QED BY <1>3, <3>2, FlattenAppend
  <2>6. FlattenSeq(Ended(u.done)) = flat \o Append(t.open, "/") BY <1>3, <2>4, FlattenAppend
  <2>7. FlattenSeq(Ended(u.done)) \o u.open = SubSeq(p, 1, m)
    <3>1. u.open = <<>> BY <2>1
    <3>2. FlattenSeq(Ended(u.done)) = SubSeq(p, 1, m) BY <1>9, <1>10, <2>6
    <3> HIDE DEF u, flat
    <3>3. FlattenSeq(Ended(u.done)) \o <<>> = FlattenSeq(Ended(u.done))
      BY <2>5, <1>1, ConcatFacts
    <3> QED BY <3>1, <3>2, <3>3
  <2>8. SlashesIn(p, m) = SlashesIn(p, m - 1) \cup {m} /\ m \notin SlashesIn(p, m - 1)
    BY <1>1, <1>10 DEF SlashesIn
  <2>9. IsFiniteSet(SlashesIn(p, m))
        /\ Cardinality(SlashesIn(p, m)) = Cardinality(SlashesIn(p, m - 1)) + 1
    BY <2>8, FS_AddElement DEF PartOK
  <2>10. Len(u.done) = Len(t.done) + 1 BY <1>2, <2>1
  <2>11. Len(u.done) = Cardinality(SlashesIn(p, m)) BY <2>9, <2>10 DEF PartOK
  <2>12. u.open = <<>> BY <2>1
  <2> QED BY <1>10, <2>3, <2>7, <2>9, <2>11, <2>12 DEF PartOK
<1>11. CASE p[m] # "/"
  <2>1. u = [t EXCEPT !.open = Append(@, p[m])] BY <1>11 DEF AtSlash
  <2>2. u.done = t.done /\ u.open = Append(t.open, p[m]) BY <1>2, <2>1 DEF PartType
  <2>3. p[m] \in Plain BY <1>1, <1>11 DEF Plain
  <2>4. u.open \in Seq(Plain) /\ u.open # <<>>
    <3>1. Append(t.open, p[m]) \in Seq(Plain) BY <1>2, <2>3
    <3>2. Append(t.open, p[m]) # <<>> BY <1>2, <2>3, ConcatFacts
    <3> QED BY <2>2, <3>1, <3>2
  <2>5. u \in PartType BY <1>2, <2>1, <2>2, <2>4 DEF PartType
  <2>6. SlashesIn(p, m) = SlashesIn(p, m - 1) BY <1>1, <1>11 DEF SlashesIn
  <2>7. FlattenSeq(Ended(u.done)) \o u.open = SubSeq(p, 1, m) BY <1>9, <2>2
  <2> QED BY <1>11, <2>2, <2>4, <2>5, <2>6, <2>7 DEF PartOK
<1> QED BY <1>10, <1>11

LEMMA PartsOK ==
  ASSUME NEW p \in Seq(Char)
  PROVE  PartOK(Parts(p), p, Len(p))
<1> DEFINE N == Len(p)
           c == [done |-> <<>>, open |-> <<>>]
           Walk(g) == g = [k \in 0 .. N |-> IF k = 0 THEN c ELSE AtSlash(g[k - 1], p[k])]
           S == PartType
           D == [x \in S \X (1 .. N) |-> AtSlash(x[1], p[x[2]])]
<1>1. N \in Nat /\ c \in S BY DEF PartType
<1>2. ASSUME NEW t \in S, NEW k \in 1 .. N PROVE AtSlash(t, p[k]) \in S
  <2>1. t.done \in Seq(Seq(Plain)) /\ t.open \in Seq(Plain) BY DEF PartType
  <2>2. CASE p[k] = "/"
    <3>1. Append(t.done, t.open) \in Seq(Seq(Plain)) BY <2>1
    <3>2. AtSlash(t, p[k]) = [done |-> Append(t.done, t.open), open |-> <<>>]
      BY <2>2 DEF AtSlash
    <3> QED BY <3>1, <3>2 DEF PartType
  <2>3. CASE p[k] # "/"
    <3>1. p[k] \in Plain BY <1>1, <2>3 DEF Plain
    <3>2. Append(t.open, p[k]) \in Seq(Plain) BY <2>1, <3>1
    <3>3. AtSlash(t, p[k]) = [t EXCEPT !.open = Append(@, p[k])] BY <2>3 DEF AtSlash
    <3> QED BY <3>2, <3>3 DEF PartType
  <2> QED BY <2>2, <2>3
<1>3. Parts(p) = (CHOOSE g : Walk(g))[N] BY DEF Parts
<1>4. D \in [S \X (1 .. N) -> S] BY <1>2
<1>5. \E g : Walk(g)
  <2>1. PICK g : Unfolds(g, S, c, N, D)
    <3> HIDE DEF D, N, S, c
    <3> QED BY <1>1, <1>4, Recursion
  <2>2. ASSUME NEW k \in 1 .. N PROVE g[k] = AtSlash(g[k - 1], p[k])
    <3>1. k - 1 \in 0 .. N BY <1>1
    <3>2. g[k - 1] \in S
      <4> HIDE DEF S, N
      <4> QED BY <2>1, <3>1 DEF Unfolds
    <3>3. <<g[k - 1], k>> \in S \X (1 .. N) BY <3>2
    <3>4. D[<<g[k - 1], k>>] = AtSlash(g[k - 1], p[k]) BY <3>3
    <3>5. g[k] = D[<<g[k - 1], k>>]
      <4> HIDE DEF S, N, D
      <4> QED BY <2>1 DEF Unfolds
    <3> QED BY <3>4, <3>5
  <2>3. g[0] = c /\ g \in [0 .. N -> S] BY <2>1 DEF Unfolds
  <2>4. \A k \in 0 .. N : g[k] = IF k = 0 THEN c ELSE AtSlash(g[k - 1], p[k])
    <3> HIDE DEF c
    <3> QED BY <1>1, <2>2, <2>3
  <2>5. g = [k \in 0 .. N |-> g[k]] BY <2>3
  <2> QED BY <2>4, <2>5, Zenon
<1>6. PICK g : Walk(g) /\ g[N] = Parts(p) BY <1>3, <1>5
<1>7. g[0] = c BY <1>1, <1>6
<1>8. \A k \in 1 .. N : g[k] = AtSlash(g[k - 1], p[k])
  <2> TAKE k \in 1 .. N
  <2>1. k \in 0 .. N /\ k # 0 BY <1>1
  <2> HIDE DEF c
  <2> QED BY <1>6, <2>1, Zenon
<1> DEFINE T == {k \in Nat : k <= N => PartOK(g[k], p, k)}
<1>9. 0 \in T
  <2>1. SlashesIn(p, 0) = {} BY DEF SlashesIn
  <2>2. Ended(<<>>) = <<>> BY DEF Ended
  <2>3. FlattenSeq(<<>>) = <<>> BY DEF FlattenSeq
  <2>4. IsFiniteSet({}) /\ Cardinality({}) = 0 BY FS_EmptySet
  <2>5. SubSeq(p, 1, 0) = <<>> BY <1>1
  <2>6. c.done = <<>> /\ c.open = <<>> /\ c \in PartType BY <1>1
  <2>7. <<>> \o <<>> = <<>> /\ Len(<<>>) = 0 OBVIOUS
  <2> HIDE DEF c
  <2>8. FlattenSeq(Ended(c.done)) \o c.open = SubSeq(p, 1, 0) BY <2>2, <2>3, <2>5, <2>6, <2>7
  <2>9. IsFiniteSet(SlashesIn(p, 0)) /\ Len(c.done) = Cardinality(SlashesIn(p, 0))
    BY <2>1, <2>4, <2>6, <2>7
  <2>10. ~ (0 > 0) OBVIOUS
  <2>11. PartOK(c, p, 0) BY <2>6, <2>8, <2>9, <2>10, Zenon DEF PartOK
  <2> QED BY <1>7, <2>11
<1>10. ASSUME NEW k \in Nat, k \in T PROVE k + 1 \in T
  <2> SUFFICES ASSUME k + 1 <= N PROVE PartOK(g[k + 1], p, k + 1) OBVIOUS
  <2> DEFINE m == k + 1
  <2>1. m \in 1 .. N /\ m - 1 = k /\ PartOK(g[k], p, k) BY <1>1, <1>10
  <2> HIDE DEF m
  <2>2. PartOK(AtSlash(g[m - 1], p[m]), p, m) BY <2>1, PartStep
  <2>3. PartOK(g[m], p, m) BY <1>8, <2>1, <2>2
  <2> QED BY <2>3 DEF m
<1> HIDE DEF T
<1>11. N \in T BY <1>1, <1>9, <1>10, NatSetInduction
<1>12. PartOK(g[N], p, N) BY <1>1, <1>11 DEF T
<1> QED BY <1>6, <1>12
-----------------------------------------------------------------------------
(* A set of numbers has a least one.                                       *)
LEMMA LeastNumber ==
  ASSUME NEW S, S \subseteq Nat, S # {}
  PROVE  \E x \in S : \A y \in S : x <= y
<1>1. PICK x \in S : \A y \in S : ~ (<<y, x>> \in OpToRel(<, Nat))
  <2>1. IsWellFoundedOn(OpToRel(<, Nat), Nat) BY NatLessThanWellFounded
  <2> QED BY <2>1, WFMin
<1>2. \A y \in S : ~ (y < x) BY <1>1 DEF OpToRel
<1> QED BY <1>2

(* The word at a position ends before the first NUL.                       *)
EndsWord(b, i, j) == j \in i .. Len(b) /\ b[j] = NUL /\ \A k \in i .. j - 1 : b[k] # NUL

WordOf(b, i) == SubSeq(b, i, (CHOOSE j \in i .. Len(b) :
                                b[j] = NUL /\ \A k \in i .. j - 1 : b[k] # NUL) - 1)

LEMMA WordIs ==
  ASSUME NEW b \in Seq(Char \cup {NUL}), NEW i \in DOMAIN b, NEW j, EndsWord(b, i, j)
  PROVE  WordOf(b, i) = SubSeq(b, i, j - 1)
<1>1. Len(b) \in Nat /\ i \in 1 .. Len(b) OBVIOUS
<1>2. ASSUME NEW k, EndsWord(b, i, k) PROVE k = j
  <2>1. k \in i .. Len(b) /\ j \in i .. Len(b) BY <1>2 DEF EndsWord
  <2>2. ~ (k < j)
    <3> SUFFICES ASSUME k < j PROVE FALSE OBVIOUS
    <3>1. k \in i .. j - 1 BY <1>1, <2>1
    <3> QED BY <1>2, <3>1 DEF EndsWord
  <2>3. ~ (j < k)
    <3> SUFFICES ASSUME j < k PROVE FALSE OBVIOUS
    <3>1. j \in i .. k - 1 BY <1>1, <2>1
    <3> QED BY <1>2, <3>1 DEF EndsWord
  <2> QED BY <1>1, <2>1, <2>2, <2>3
<1>3. (CHOOSE k \in i .. Len(b) : b[k] = NUL /\ \A x \in i .. k - 1 : b[x] # NUL) = j
  <2> HIDE DEF NUL
  <2> QED BY <1>2 DEF EndsWord
<1> QED BY <1>3 DEF WordOf

LEMMA WordEnds ==
  ASSUME IInv, NEW i \in DOMAIN buf
  PROVE  \E j \in i .. Len(buf) : EndsWord(buf, i, j) /\ Word(i) = SubSeq(buf, i, j - 1)
<1>1. buf \in Seq(Char \cup {NUL}) /\ buf[Len(buf)] = NUL /\ Len(buf) \in Nat /\ i \in 1 .. Len(buf)
  BY DEF IInv, TypeOK
<1> DEFINE S == {j \in Nat : j \in i .. Len(buf) /\ buf[j] = NUL}
<1>2. Len(buf) \in S BY <1>1
<1>3. PICK j \in S : \A k \in S : j <= k BY <1>2, LeastNumber
<1>4. EndsWord(buf, i, j) BY <1>1, <1>3 DEF EndsWord
<1>5. WordOf(buf, i) = SubSeq(buf, i, j - 1) BY <1>1, <1>4, WordIs
<1>6. Word(i) = WordOf(buf, i) BY DEF Word, WordOf
<1> QED BY <1>3, <1>4, <1>5, <1>6

LEMMA WordType ==
  ASSUME IInv, NEW i \in DOMAIN buf
  PROVE  Word(i) \in Seq(Char)
<1>1. PICK j \in i .. Len(buf) : EndsWord(buf, i, j) /\ Word(i) = SubSeq(buf, i, j - 1) BY WordEnds
<1>2. buf \in Seq(Char \cup {NUL}) /\ Len(buf) \in Nat /\ i \in 1 .. Len(buf)
  BY DEF IInv, TypeOK
<1>3. \A k \in i .. j - 1 : k \in 1 .. Len(buf) /\ buf[k] # NUL BY <1>1, <1>2 DEF EndsWord
<1>4. \A k \in i .. j - 1 : buf[k] \in Char BY <1>2, <1>3
<1>5. SubSeq(buf, i, j - 1) \in Seq(Char)
  <2> HIDE DEF NUL
  <2>1. SubSeq(buf, i, j - 1) = [k \in 1 .. j - i |-> buf[i + k - 1]] BY <1>2
  <2>2. \A k \in 1 .. j - i : buf[i + k - 1] \in Char
    <3> TAKE k \in 1 .. j - i
    <3>1. i + k - 1 \in i .. j - 1 BY <1>2
    <3> QED BY <1>4, <3>1
  <2>3. j - i \in Nat BY <1>2
  <2> DEFINE n == j - i
             w == [k \in 1 .. n |-> buf[i + k - 1]]
  <2>4. w \in [1 .. n -> Char] /\ n \in Nat BY <2>2, <2>3
  <2>5. w \in Seq(Char)
    <3> HIDE DEF w, n
    <3> QED BY <2>4
  <2> QED BY <2>1, <2>5
<1> QED BY <1>1, <1>5

LEMMA TokensMakePath ==
  ASSUME NEW p \in Seq(Char)
  PROVE  /\ Tokens(p) \in Seq(Seq(Plain))
         /\ FlattenSeq(Ended(Tokens(p))) = IF p = <<>> \/ Last(p) = "/" THEN p ELSE Append(p, "/")
         /\ Len(Tokens(p)) <= Slashes(p) + 1
<1> DEFINE t == Parts(p)
           flat == FlattenSeq(Ended(t.done))
<1>1. PartOK(t, p, Len(p)) BY PartsOK
<1>2. t.done \in Seq(Seq(Plain)) /\ t.open \in Seq(Plain) BY <1>1 DEF PartOK, PartType
<1>3. flat \o t.open = p BY <1>1 DEF PartOK
<1>4. Ended(t.done) \in Seq(Seq(Char)) /\ Append(t.open, "/") \in Seq(Char)
  BY <1>2, EndedAppend
<1>5. flat \in Seq(Char) BY <1>4, FlattenAppend
<1>6. Slashes(p) \in Nat /\ Slashes(p) = Len(t.done)
  <2>1. SlashesIn(p, Len(p)) = {i \in DOMAIN p : p[i] = "/"} BY DEF SlashesIn
  <2>2. Len(t.done) = Slashes(p) BY <1>1, <2>1 DEF PartOK, Slashes
  <2> QED BY <1>2, <2>2
<1>7. CASE t.open = <<>>
  <2>1. Tokens(p) = t.done BY <1>7 DEF Tokens
  <2>2. flat \o <<>> = flat BY <1>5, ConcatFacts, CharAssumption
  <2>3. flat = p BY <1>3, <1>7, <2>2
  <2>4. p = <<>> \/ Last(p) = "/"
    <3>1. CASE Len(p) = 0 BY <3>1
    <3>2. CASE Len(p) > 0 BY <1>1, <1>7, <3>2 DEF PartOK, Last
    <3> QED BY <3>1, <3>2
  <2> HIDE DEF t
  <2> QED BY <1>2, <1>6, <2>1, <2>3, <2>4
<1>8. CASE t.open # <<>>
  <2>1. Tokens(p) = Append(t.done, t.open) BY <1>8 DEF Tokens
  <2>2. Len(p) # 0
    <3> SUFFICES ASSUME Len(p) = 0 PROVE FALSE OBVIOUS
    <3>1. p = <<>> OBVIOUS
    <3>2. Len(flat \o t.open) = Len(flat) + Len(t.open) /\ Len(t.open) > 0
      <4> HIDE DEF t, flat
      <4> QED BY <1>2, <1>5, <1>8
    <3> HIDE DEF flat
    <3> QED BY <1>3, <1>5, <3>1, <3>2
  <2>3. Last(p) # "/" /\ p # <<>>
    <3>1. Len(p) > 0 BY <2>2
    <3>2. p[Len(p)] # "/" BY <1>1, <1>8, <3>1 DEF PartOK
    <3> QED BY <3>1, <3>2 DEF Last
  <2>4. FlattenSeq(Ended(Tokens(p))) = flat \o Append(t.open, "/")
    <3>1. Ended(Tokens(p)) = Append(Ended(t.done), Append(t.open, "/"))
      BY <1>2, <2>1, EndedAppend
    <3> QED BY <1>4, <3>1, FlattenAppend
  <2>5. flat \o Append(t.open, "/") = Append(p, "/")
    <3> DEFINE o == t.open
               x == "/"
    <3>1. Plain \subseteq Char /\ x \in Char BY CharAssumption DEF Plain
    <3>2. o \in Seq(Char) BY <1>2, <3>1, WiderSeq
    <3> HIDE DEF flat, o, x
    <3>3. Append(flat \o o, x) = flat \o Append(o, x) BY <1>5, <3>1, <3>2, ConcatAppend, Zenon
    <3>4. flat \o o = p BY <1>3 DEF o
    <3> QED BY <3>3, <3>4 DEF o, x
  <2>6. Tokens(p) \in Seq(Seq(Plain)) /\ Len(Tokens(p)) = Len(t.done) + 1
    <3> HIDE DEF t
    <3> QED BY <1>2, <2>1
  <2>7. FlattenSeq(Ended(Tokens(p))) = Append(p, "/") BY <2>4, <2>5
  <2>8. Len(Tokens(p)) <= Slashes(p) + 1 BY <1>6, <2>6
  <2> QED BY <2>3, <2>6, <2>7, <2>8, Zenon
<1> QED BY <1>7, <1>8

PathInv ==
  pc = "open" =>
    /\ Len(args) = 2
    /\ toks = Tokens(Word(args[2])) /\ room = Slashes(Word(args[2])) + 1

LEMMA PathStep == IInv /\ PathInv /\ [Next]_vars => PathInv'
<1> SUFFICES ASSUME IInv, PathInv, [Next]_vars, pc' = "open" PROVE PathInv' BY DEF PathInv
<1>1. CASE ParsePath
  <2>1. Word(args[2])' = Word(args[2]) BY <1>1 DEF ParsePath, scanner, Word
  <2> QED BY <1>1, <2>1 DEF ParsePath, PathInv, scanner
<1>2. CASE UNCHANGED vars
  <2>1. Word(args[2])' = Word(args[2]) BY <1>2 DEF vars, scanner, Word
  <2>2. pc = "open" /\ args' = args /\ toks' = toks /\ room' = room BY <1>2 DEF vars, scanner, path
  <2> QED BY <2>1, <2>2 DEF PathInv
<1>3. ASSUME NEW l \in Lines, ReadLine(l) PROVE FALSE BY <1>3 DEF ReadLine
<1>4. CASE NoInput \/ Blank \/ QuotedBlank \/ Backslash \/ Quote \/ OtherChar \/ EndOfLine
  BY <1>4 DEF NoInput, Blank, QuotedBlank, Backslash, Quote, OtherChar, EndOfLine, Splitting
<1>5. CASE \/ Done \/ EnterFS \/ ExitFS \/ Quit \/ AttributeCrashes
           \/ \E l \in Lines : LineFills(l)
  BY <1>5 DEF Done, EnterFS, ExitFS, Quit, AttributeCrashes, LineFills
<1> QED BY <1>1, <1>2, <1>3, <1>4, <1>5 DEF Next

LEMMA PathTokens == IInv /\ PathInv => TokensAreParts
<1> SUFFICES ASSUME IInv, PathInv, pc = "open" PROVE TokensAreParts BY DEF TokensAreParts
<1> DEFINE p == Word(args[2])
<1>1. args[2] \in DOMAIN buf
  <2>1. args \in Seq(DOMAIN buf) /\ Len(args) = 2 BY DEF IInv, TypeOK, PathInv
  <2> QED BY <2>1
<1>2. p \in Seq(Char) BY <1>1, WordType
<1>3. toks = Tokens(p) /\ room = Slashes(p) + 1 BY DEF PathInv
<1> HIDE DEF p
<1>4. /\ toks \in Seq(Seq(Plain))
      /\ FlattenSeq(Ended(toks)) = IF p = <<>> \/ Last(p) = "/" THEN p ELSE Append(p, "/")
      /\ Len(toks) <= room
  BY <1>2, <1>3, TokensMakePath
<1> QED BY <1>4 DEF p, TokensAreParts, Ended, Plain

(* Whatever path is typed, its tokens make it up again and there is room   *)
(* for them, for a path of any length (parsePath).                         *)
THEOREM TokensMakeUpPath == Spec => []TokensAreParts
<1>1. Init => IInv /\ PathInv
  <2>1. Init => PathInv BY DEF Init, PathInv
  <2> QED BY <2>1, InitInv
<1>2. (IInv /\ PathInv) /\ [Next]_vars => (IInv /\ PathInv)' BY StepInv, PathStep
<1>3. IInv /\ PathInv => TokensAreParts BY PathTokens
<1> QED BY <1>1, <1>2, <1>3, PTL DEF Spec
-----------------------------------------------------------------------------
(* The backslashes before a place, and how their number changes from one   *)
(* place to the next.                                                      *)
RunBefore(l, i, n) ==
  /\ n \in 0 .. i - 1
  /\ \A k \in i - n .. i - 1 : l[k] = "\\"
  /\ i - n > 1 => l[i - n - 1] # "\\"

LEMMA EscapesAre ==
  ASSUME NEW l \in Seq(Char), NEW i \in 1 .. Len(l) + 1, NEW n, RunBefore(l, i, n)
  PROVE  Escapes(l, i) = n
<1>1. i \in Nat /\ i > 0 OBVIOUS
<1>2. ASSUME NEW m, RunBefore(l, i, m) PROVE m = n
  <2>1. m \in 0 .. i - 1 /\ n \in 0 .. i - 1 BY <1>2 DEF RunBefore
  <2>2. CASE m < n
    <3>1. i - m > 1 /\ i - m - 1 \in i - n .. i - 1 BY <1>1, <2>1, <2>2
    <3> QED BY <1>2, <3>1 DEF RunBefore
  <2>3. CASE n < m
    <3>1. i - n > 1 /\ i - n - 1 \in i - m .. i - 1 BY <1>1, <2>1, <2>3
    <3> QED BY <1>2, <3>1 DEF RunBefore
  <2> QED BY <2>1, <2>2, <2>3
<1>3. Escapes(l, i) = CHOOSE m \in 0 .. i - 1 : /\ \A k \in i - m .. i - 1 : l[k] = "\\"
                                                /\ i - m > 1 => l[i - m - 1] # "\\"
  BY DEF Escapes
<1> QED BY <1>2, <1>3 DEF RunBefore

LEMMA RunExists ==
  ASSUME NEW l \in Seq(Char), NEW i \in 1 .. Len(l) + 1
  PROVE  \E n \in 0 .. i - 1 : RunBefore(l, i, n)
<1>1. Len(l) \in Nat /\ i \in Nat /\ i > 0 OBVIOUS
<1> DEFINE S == {n \in Nat : n <= i - 1 /\ (n = i - 1 \/ l[i - n - 1] # "\\")}
<1>2. i - 1 \in S BY <1>1
<1>3. PICK n \in S : \A m \in S : n <= m
  <2>1. S \subseteq Nat /\ S # {} BY <1>2
  <2> HIDE DEF S
  <2> QED BY <2>1, LeastNumber
<1>4. n \in 0 .. i - 1 BY <1>1
<1>5. ASSUME NEW k \in i - n .. i - 1 PROVE l[k] = "\\"
  <2> DEFINE m == i - 1 - k
  <2>1. m \in Nat /\ m < n /\ m <= i - 1 /\ i - m - 1 = k BY <1>1, <1>4
  <2>2. m \notin S
    <3> HIDE DEF S, m
    <3> QED BY <1>3, <1>4, <2>1
  <2> HIDE DEF m
  <2> QED BY <2>1, <2>2
<1>6. i - n > 1 => l[i - n - 1] # "\\" BY <1>1, <1>4
<1> QED BY <1>4, <1>5, <1>6 DEF RunBefore

LEMMA EscapesNat ==
  ASSUME NEW l \in Seq(Char), NEW i \in 1 .. Len(l) + 1
  PROVE  /\ Escapes(l, i) \in Nat
         /\ Escapes(l, i) > 0 => i > 1 /\ l[i - 1] = "\\"
<1>1. PICK n \in 0 .. i - 1 : RunBefore(l, i, n) BY RunExists
<1>2. Escapes(l, i) = n BY <1>1, EscapesAre
<1>3. n > 0 => i > 1 /\ l[i - 1] = "\\"
  <2> SUFFICES ASSUME n > 0 PROVE i > 1 /\ l[i - 1] = "\\" OBVIOUS
  <2>1. i - 1 \in i - n .. i - 1 /\ i > 1 OBVIOUS
  <2> QED BY <1>1, <2>1 DEF RunBefore
<1> QED BY <1>2, <1>3

LEMMA EscapesNext ==
  ASSUME NEW l \in Seq(Char), NEW i \in 1 .. Len(l)
  PROVE  /\ l[i] = "\\" => Escapes(l, i + 1) = Escapes(l, i) + 1
         /\ l[i] # "\\" => Escapes(l, i + 1) = 0
<1>1. Len(l) \in Nat /\ i \in 1 .. Len(l) + 1 /\ i + 1 \in 1 .. Len(l) + 1 OBVIOUS
<1> DEFINE j == i + 1
<1>2. j \in 1 .. Len(l) + 1 /\ j - 1 = i BY <1>1
<1>3. CASE l[i] = "\\"
  <2>1. PICK n \in 0 .. i - 1 : RunBefore(l, i, n) BY <1>1, RunExists
  <2>2. Escapes(l, i) = n BY <1>1, <2>1, EscapesAre
  <2>3. RunBefore(l, j, n + 1)
    <3>1. n + 1 \in 0 .. j - 1 BY <1>2
    <3>2. ASSUME NEW k \in j - (n + 1) .. j - 1 PROVE l[k] = "\\"
      <4>1. k \in i - n .. i - 1 \/ k = i BY <1>2
      <4> QED BY <1>3, <2>1, <4>1 DEF RunBefore
    <3>3. j - (n + 1) = i - n BY <1>2
    <3> HIDE DEF j
    <3>4. j - (n + 1) > 1 => l[j - (n + 1) - 1] # "\\" BY <2>1, <3>3 DEF RunBefore
    <3> QED BY <3>1, <3>2, <3>4 DEF RunBefore
  <2>4. Escapes(l, j) = n + 1
    <3> HIDE DEF j
    <3> QED BY <1>2, <2>3, EscapesAre
  <2> QED BY <1>3, <2>2, <2>4
<1>4. CASE l[i] # "\\"
  <2>1. RunBefore(l, j, 0)
    <3> HIDE DEF j
    <3>1. 0 \in 0 .. j - 1 /\ j - 0 - 1 = i BY <1>2
    <3>2. \A k \in j - 0 .. j - 1 : FALSE BY <1>2
    <3> QED BY <1>4, <3>1, <3>2 DEF RunBefore
  <2>2. Escapes(l, j) = 0
    <3> HIDE DEF j
    <3> QED BY <1>2, <2>1, EscapesAre
  <2> QED BY <1>4, <2>2
<1> QED BY <1>3, <1>4

LEMMA EscapesFirst ==
  ASSUME NEW l \in Seq(Char)
  PROVE  Escapes(l, 1) = 0
<1>1. 1 \in 1 .. Len(l) + 1 OBVIOUS
<1>2. RunBefore(l, 1, 0) BY DEF RunBefore
<1> QED BY <1>1, <1>2, EscapesAre

(* The quotes up to a place.                                               *)
LEMMA QuotesNext ==
  ASSUME NEW l \in Seq(Char), NEW i \in Nat
  PROVE  /\ IsFiniteSet({j \in 1 .. i : Counts(l, j)}) /\ Quotes(l, i) \in Nat
         /\ i > 0 /\ Counts(l, i) => Quotes(l, i) = Quotes(l, i - 1) + 1
         /\ i > 0 /\ ~ Counts(l, i) => Quotes(l, i) = Quotes(l, i - 1)
<1> DEFINE S(k) == {j \in 1 .. k : Counts(l, j)}
<1>1. \A k \in Nat : IsFiniteSet(S(k)) /\ Cardinality(S(k)) \in Nat
  <2> TAKE k \in Nat
  <2>1. IsFiniteSet(1 .. k) BY FS_Interval
  <2>2. S(k) \subseteq 1 .. k OBVIOUS
  <2> HIDE DEF S
  <2> QED BY <2>1, <2>2, FS_Subset, FS_CardinalityType
<1>2. \A k : Quotes(l, k) = Cardinality(S(k)) BY DEF Quotes
<1>3. CASE i > 0 /\ Counts(l, i)
  <2>1. S(i) = S(i - 1) \cup {i} /\ i \notin S(i - 1) BY <1>3
  <2>2. i - 1 \in Nat BY <1>3
  <2> HIDE DEF S
  <2>3. IsFiniteSet(S(i - 1)) BY <1>1, <2>2
  <2>4. Cardinality(S(i)) = Cardinality(S(i - 1)) + 1 BY <2>1, <2>3, FS_AddElement
  <2>5. Quotes(l, i) = Quotes(l, i - 1) + 1 BY <1>2, <2>4
  <2> QED BY <1>1, <1>2, <1>3, <2>5 DEF S
<1>4. CASE i > 0 /\ ~ Counts(l, i)
  <2>1. S(i) = S(i - 1) BY <1>4
  <2>2. Quotes(l, i) = Quotes(l, i - 1) BY <1>2, <2>1
  <2> QED BY <1>1, <1>2, <1>4, <2>2
<1>5. CASE i = 0 BY <1>1, <1>2, <1>5
<1> QED BY <1>3, <1>4, <1>5

LEMMA QuotesNone ==
  ASSUME NEW l \in Seq(Char), NEW i \in Nat, \A k \in 1 .. i : l[k] # "\""
  PROVE  Quotes(l, i) = 0
<1>1. {j \in 1 .. i : Counts(l, j)} = {} BY DEF Counts
<1> QED BY <1>1, FS_EmptySet DEF Quotes
(* A word is the one that starts after as many others as its number says,  *)
(* and ends before the next blank that ends one.                           *)
LEMMA StartsFinite ==
  ASSUME NEW l \in Seq(Char), NEW s
  PROVE  /\ IsFiniteSet(Starts(l)) /\ Starts(l) \subseteq Nat
         /\ IsFiniteSet(Before(l, s)) /\ Before(l, s) \subseteq Starts(l)
         /\ Cardinality(Before(l, s)) \in Nat /\ Cardinality(Starts(l)) \in Nat
<1>1. Len(l) \in Nat OBVIOUS
<1>2. Starts(l) \subseteq 1 .. Len(l) + 1 BY DEF Starts
<1>3. IsFiniteSet(1 .. Len(l) + 1) BY <1>1, FS_Interval
<1>4. IsFiniteSet(Starts(l)) BY <1>2, <1>3, FS_Subset
<1>5. Before(l, s) \subseteq Starts(l) BY DEF Before
<1>6. IsFiniteSet(Before(l, s)) BY <1>4, <1>5, FS_Subset
<1>7. Starts(l) \subseteq Nat BY <1>1, <1>2
<1> QED BY <1>4, <1>5, <1>6, <1>7, FS_CardinalityType

LEMMA RankUnique ==
  ASSUME NEW l \in Seq(Char), NEW s \in Starts(l), NEW t \in Starts(l),
         Cardinality(Before(l, s)) = Cardinality(Before(l, t))
  PROVE  s = t
<1>1. s \in Nat /\ t \in Nat BY StartsFinite
<1>2. ASSUME NEW x \in Starts(l), NEW y \in Starts(l), x < y,
             Cardinality(Before(l, x)) = Cardinality(Before(l, y))
      PROVE  FALSE
  <2>1. Before(l, x) \subseteq Before(l, y)
    <3>1. Starts(l) \subseteq Nat BY StartsFinite
    <3> QED BY <1>2, <3>1 DEF Before
  <2>2. Before(l, x) = Before(l, y)
    <3>1. IsFiniteSet(Before(l, y)) BY StartsFinite
    <3> QED BY <1>2, <2>1, <3>1, FS_Subset
  <2>3. x \in Before(l, y) /\ x \notin Before(l, x)
    <3>1. x \in Nat BY StartsFinite
    <3> QED BY <1>2, <3>1 DEF Before
  <2> QED BY <2>2, <2>3
<1> QED BY <1>1, <1>2

LEMMA BeforeNext ==
  ASSUME NEW l \in Seq(Char), NEW s \in Starts(l), NEW t \in Starts(l), s < t,
         \A j \in s + 1 .. t - 1 : j \notin Starts(l)
  PROVE  Cardinality(Before(l, t)) = Cardinality(Before(l, s)) + 1
<1>1. Starts(l) \subseteq Nat /\ s \in Nat /\ t \in Nat /\ IsFiniteSet(Before(l, s))
  BY StartsFinite
<1>2. Before(l, t) = Before(l, s) \cup {s}
  <2>1. ASSUME NEW j \in Starts(l), j < t PROVE j < s \/ j = s
    <3>1. j \in Nat BY <1>1
    <3> QED BY <1>1, <2>1, <3>1
  <2>2. ASSUME NEW j \in Starts(l), j < s PROVE j < t
    <3>1. j \in Nat BY <1>1
    <3> QED BY <1>1, <2>2, <3>1
  <2> QED BY <2>1, <2>2 DEF Before
<1>3. s \notin Before(l, s) BY <1>1 DEF Before
<1> QED BY <1>1, <1>2, <1>3, FS_AddElement

LEMMA EndsRange ==
  ASSUME NEW l \in Seq(Char)
  PROVE  Len(l) \in Nat /\ \A i \in Ends(l) : i \in 1 .. Len(l) /\ l[i] = " "
<1>1. Len(l) \in Nat /\ DOMAIN l = 1 .. Len(l) OBVIOUS
<1> QED BY <1>1 DEF Ends

LEMMA ArgumentIs ==
  ASSUME NEW l \in Seq(Char), NEW s \in Starts(l), NEW k \in Nat,
         Cardinality(Before(l, s)) = k - 1,
         NEW e \in {i \in Ends(l) : i > s} \cup {Len(l) + 1},
         \A i \in Ends(l) : i > s => e <= i
  PROVE  Argument(l, k) =
           IF e - 1 >= s /\ l[s] = "\"" /\ Counts(l, e - 1) THEN SubSeq(l, s + 1, e - 2)
           ELSE IF k = MaxArgs THEN SubSeq(l, s, Len(l))
           ELSE SubSeq(l, s, e - 1)
<1> DEFINE start == CHOOSE i \in Starts(l) : Cardinality(Before(l, i)) = k - 1
           after == {i \in Ends(l) : i > start} \cup {Len(l) + 1}
<1>1. start = s BY RankUnique
<1>2. Len(l) \in Nat /\ \A i \in Ends(l) : i \in 1 .. Len(l) BY EndsRange
<1>3. e \in Nat BY <1>2
<1>4. after = {i \in Ends(l) : i > s} \cup {Len(l) + 1}
  <2> HIDE DEF start
  <2> QED BY <1>1
<1>5. e \in after /\ after \subseteq Nat /\ \A i \in after : e <= i
  <2> HIDE DEF after
  <2>1. e \in after BY <1>4
  <2>2. after \subseteq Nat BY <1>2, <1>4
  <2>3. e <= Len(l) + 1 BY <1>2
  <2> QED BY <1>4, <2>1, <2>2, <2>3
<1>6. Min(after) = e
  <2> HIDE DEF after
  <2>1. \A x \in after : (\A y \in after : x <= y) => x = e BY <1>5
  <2> QED BY <1>5, <2>1 DEF Min
<1>7. Argument(l, k) =
        IF Min(after) - 1 >= start /\ l[start] = "\"" /\ Counts(l, Min(after) - 1)
          THEN SubSeq(l, start + 1, Min(after) - 1 - 1)
        ELSE IF k = MaxArgs THEN SubSeq(l, start, Len(l))
        ELSE SubSeq(l, start, Min(after) - 1)
  BY DEF Argument
<1>8. e - 1 - 1 = e - 2 BY <1>3
<1> HIDE DEF start, after
<1> QED BY <1>1, <1>6, <1>7, <1>8
-----------------------------------------------------------------------------
(* What is in the buffer while a line is split: from the last argument on  *)
(* the line, before it the words that are complete.  The flags say how     *)
(* many backslashes and quotes are before the character that is read.      *)
Start(a) == a[Len(a)]

Complete(b, a, l) ==
  \A k \in 1 .. Len(a) - 1 :
    \E j \in Nat : EndsWord(b, a[k], j) /\ j < Start(a) /\ SubSeq(b, a[k], j - 1) = Argument(l, k)

Aligned(b, a, l, quoted) ==
  /\ \A i \in Start(a) .. Len(l) : b[i] = l[i]
  /\ quoted <=> Start(a) \in DOMAIN l /\ l[Start(a)] = "\""
  /\ Start(a) \in Starts(l)
  /\ Cardinality(Before(l, Start(a))) = Len(a) - 1
  /\ Complete(b, a, l)

SplitInv ==
  pc = "split" =>
    /\ escape <=> Escapes(line, pos) % 2 # 0
    /\ str <=> Quotes(line, pos - 1) % 2 # 0
    /\ stre <=> Counts(line, pos - 1)
    /\ \A i \in Start(args) .. pos - 1 : i \notin Ends(line)
    /\ Aligned(buf, args, line, strs)

LEMMA SplitFacts ==
  ASSUME IInv, SplitInv, pc = "split"
  PROVE  /\ line \in Seq(Char) /\ Len(line) \in Nat /\ DOMAIN line = 1 .. Len(line)
         /\ buf \in Seq(Char \cup {NUL}) /\ Len(buf) = Len(line) + 1
         /\ DOMAIN buf = 1 .. Len(buf) /\ buf[Len(line) + 1] = NUL
         /\ pos \in 1 .. Len(line) + 1 /\ Start(args) \in 1 .. pos
         /\ Quoted => Start(args) < pos
         /\ buf[pos] # NUL => pos \in 1 .. Len(line)
         /\ pos \in 1 .. Len(line) => buf[pos] = line[pos] /\ buf[pos] # NUL
<1>1. line \in Seq(Char) /\ buf \in Seq(Char \cup {NUL}) /\ Len(buf) = Len(line) + 1
      /\ buf[Len(buf)] = NUL
  BY DEF IInv, TypeOK
<1>2. Len(line) \in Nat /\ DOMAIN line = 1 .. Len(line) BY <1>1
<1>3. pos \in 1 .. Len(line) + 1 /\ Start(args) \in 1 .. pos /\ DOMAIN buf = 1 .. Len(buf)
      /\ (Quoted => Start(args) < pos)
  BY <1>1, Within DEF Start
<1>4. buf[pos] # NUL => pos \in 1 .. Len(line) BY <1>1, <1>2, Within
<1>5. pos \in 1 .. Len(line) => buf[pos] = line[pos] /\ buf[pos] # NUL
  <2> SUFFICES ASSUME pos \in 1 .. Len(line) PROVE buf[pos] = line[pos] /\ buf[pos] # NUL OBVIOUS
  <2>1. pos \in Start(args) .. Len(line) BY <1>3
  <2>2. buf[pos] = line[pos] BY <2>1 DEF SplitInv, Aligned
  <2>3. line[pos] \in Char BY <1>1
  <2> QED BY <2>2, <2>3, CharAssumption
<1> QED BY <1>1, <1>2, <1>3, <1>4, <1>5

LEMMA Parity == \A n \in Nat : (n + 1) % 2 = 0 <=> n % 2 # 0
OBVIOUS

LEMMA AdvanceSplit ==
  ASSUME IInv, SplitInv, pc = "split", pc' = pc, pos' = pos + 1,
         UNCHANGED <<line, buf, args, strs>>, buf[pos] # NUL, pos \notin Ends(line),
         escape' <=> Escapes(line, pos + 1) % 2 # 0,
         str' <=> Quotes(line, pos) % 2 # 0,
         stre' <=> Counts(line, pos)
  PROVE  SplitInv'
<1>1. pos \in Nat /\ Start(args) \in Nat BY SplitFacts
<1>2. pos' - 1 = pos BY <1>1
<1>3. \A i \in Start(args) .. pos' - 1 : i \notin Ends(line)
  <2>1. \A i \in Start(args) .. pos - 1 : i \notin Ends(line) BY DEF SplitInv
  <2> QED BY <1>1, <1>2, <2>1
<1>4. Aligned(buf, args, line, strs) BY DEF SplitInv
<1>5. line' = line /\ buf' = buf /\ args' = args /\ strs' = strs OBVIOUS
<1>6. /\ escape' <=> Escapes(line', pos') % 2 # 0
      /\ str' <=> Quotes(line', pos' - 1) % 2 # 0
      /\ stre' <=> Counts(line', pos' - 1)
  BY <1>2, <1>5
<1>7. Aligned(buf', args', line', strs') BY <1>4, <1>5, Zenon
<1>8. \A i \in Start(args') .. pos' - 1 : i \notin Ends(line') BY <1>3, <1>5
<1> QED BY <1>6, <1>7, <1>8 DEF SplitInv

(* The characters that are read one by one.                                *)
LEMMA CharSplit ==
  ASSUME IInv, SplitInv, QuotedBlank \/ Backslash \/ Quote \/ OtherChar
  PROVE  SplitInv'
<1>0. \E c \in Char : Splitting(c)
  BY CharAssumption DEF QuotedBlank, Backslash, Quote, OtherChar
<1>1. pc = "split" /\ buf[pos] # NUL BY <1>0, CharAssumption DEF Splitting
<1>2. pc' = pc /\ pos' = pos + 1 /\ UNCHANGED <<line, buf, args, strs>>
  BY DEF QuotedBlank, Backslash, Quote, OtherChar
<1>3. line \in Seq(Char) /\ pos \in 1 .. Len(line) /\ buf[pos] = line[pos] /\ Len(line) \in Nat
      /\ DOMAIN line = 1 .. Len(line)
  BY <1>1, SplitFacts
<1>4. /\ escape <=> Escapes(line, pos) % 2 # 0
      /\ str <=> Quotes(line, pos - 1) % 2 # 0
      /\ stre <=> Counts(line, pos - 1)
  BY <1>1 DEF SplitInv
<1>5. /\ Escapes(line, pos) \in Nat
      /\ Escapes(line, pos) > 0 => pos > 1 /\ line[pos - 1] = "\\"
      /\ line[pos] = "\\" => Escapes(line, pos + 1) = Escapes(line, pos) + 1
      /\ line[pos] # "\\" => Escapes(line, pos + 1) = 0
  BY <1>3, EscapesNat, EscapesNext
<1>6. /\ Quotes(line, pos) \in Nat /\ Quotes(line, pos - 1) \in Nat
      /\ Counts(line, pos) => Quotes(line, pos) = Quotes(line, pos - 1) + 1
      /\ ~ Counts(line, pos) => Quotes(line, pos) = Quotes(line, pos - 1)
  <2>1. pos \in Nat /\ pos - 1 \in Nat /\ pos > 0 BY <1>3
  <2> QED BY <1>3, <2>1, QuotesNext
<1>7. 0 % 2 = 0 OBVIOUS
<1> DEFINE Goal == /\ pos \notin Ends(line)
                   /\ escape' <=> Escapes(line, pos + 1) % 2 # 0
                   /\ str' <=> Quotes(line, pos) % 2 # 0
                   /\ stre' <=> Counts(line, pos)
<1>8. ASSUME QuotedBlank PROVE Goal
  <2>1. line[pos] = " " /\ str /\ str' = str /\ ~ stre' /\ ~ escape'
    BY <1>3, <1>8 DEF QuotedBlank, Splitting
  <2>2. ~ Counts(line, pos) BY <2>1 DEF Counts
  <2>3. pos \notin Ends(line) BY <1>4, <1>6, <2>1, <2>2 DEF Ends
  <2> QED BY <1>4, <1>5, <1>6, <1>7, <2>1, <2>2, <2>3
<1>9. ASSUME Backslash PROVE Goal
  <2>1. line[pos] = "\\" /\ str' = str /\ ~ stre' /\ escape' = ~ escape
    BY <1>3, <1>9 DEF Backslash, Splitting
  <2>2. ~ Counts(line, pos) /\ pos \notin Ends(line) BY <2>1 DEF Counts, Ends
  <2>3. Escapes(line, pos + 1) = Escapes(line, pos) + 1 BY <1>5, <2>1
  <2>4. escape' <=> Escapes(line, pos + 1) % 2 # 0
    <3>1. (Escapes(line, pos) + 1) % 2 = 0 <=> Escapes(line, pos) % 2 # 0 BY <1>5, Parity
    <3> QED BY <1>4, <2>1, <2>3, <3>1
  <2> QED BY <1>4, <1>6, <2>1, <2>2, <2>4
<1>10. ASSUME Quote PROVE Goal
  <2>1. line[pos] = "\"" /\ ~ escape'
        /\ IF escape THEN UNCHANGED <<str, stre>> ELSE str' = ~ str /\ stre' = TRUE
    BY <1>3, <1>10 DEF Quote, Splitting
  <2>2. pos \notin Ends(line) BY <2>1 DEF Ends
  <2>3. Counts(line, pos) <=> ~ escape BY <1>3, <1>4, <2>1 DEF Counts
  <2>4. escape' <=> Escapes(line, pos + 1) % 2 # 0 BY <1>5, <1>7, <2>1
  <2>5. CASE escape
    <3>1. Escapes(line, pos) > 0 BY <1>4, <1>5, <1>7, <2>5
    <3>2. line[pos - 1] = "\\" BY <1>5, <3>1
    <3>3. ~ Counts(line, pos - 1) BY <3>2 DEF Counts
    <3> QED BY <1>4, <1>6, <2>1, <2>2, <2>3, <2>4, <2>5, <3>3
  <2>6. CASE ~ escape
    <3>1. Quotes(line, pos) = Quotes(line, pos - 1) + 1 BY <1>6, <2>3, <2>6
    <3>2. (Quotes(line, pos - 1) + 1) % 2 = 0 <=> Quotes(line, pos - 1) % 2 # 0
      BY <1>6, Parity
    <3>3. str' <=> Quotes(line, pos) % 2 # 0 BY <1>4, <2>1, <2>6, <3>1, <3>2
    <3> QED BY <2>1, <2>2, <2>3, <2>4, <2>6, <3>3
  <2> QED BY <2>5, <2>6
<1>11. ASSUME OtherChar PROVE Goal
  <2>1. line[pos] \notin {" ", "\"", "\\"} /\ str' = str /\ ~ stre' /\ ~ escape'
    BY <1>3, <1>11 DEF OtherChar, Splitting
  <2>2. ~ Counts(line, pos) /\ pos \notin Ends(line) BY <2>1 DEF Counts, Ends
  <2> QED BY <1>4, <1>5, <1>6, <1>7, <2>1, <2>2
<1>12. Goal BY <1>8, <1>9, <1>10, <1>11
<1> QED BY <1>1, <1>2, <1>12, AdvanceSplit
LEMMA SamePart ==
  ASSUME NEW A, NEW B, NEW s \in Seq(A), NEW t \in Seq(B), NEW i \in Nat \ {0}, NEW j \in Nat,
         \A k \in i .. j : s[k] = t[k]
  PROVE  SubSeq(s, i, j) = SubSeq(t, i, j)
<1>1. SubSeq(s, i, j) = [k \in 1 .. 1 + j - i |-> s[i + k - 1]] OBVIOUS
<1>2. SubSeq(t, i, j) = [k \in 1 .. 1 + j - i |-> t[i + k - 1]] OBVIOUS
<1>3. \A k \in 1 .. 1 + j - i : s[i + k - 1] = t[i + k - 1]
  <2> TAKE k \in 1 .. 1 + j - i
  <2>1. i + k - 1 \in i .. j OBVIOUS
  <2> QED BY <2>1
<1> QED BY <1>1, <1>2, <1>3

LEMMA QuotesSame ==
  ASSUME NEW l, NEW i \in Nat, NEW m \in Nat, i <= m, \A k \in i + 1 .. m : ~ Counts(l, k)
  PROVE  Quotes(l, m) = Quotes(l, i)
<1>1. {j \in 1 .. m : Counts(l, j)} = {j \in 1 .. i : Counts(l, j)} OBVIOUS
<1> QED BY <1>1 DEF Quotes

(* The number of quotes before a word is even.                             *)
LEMMA StartEven ==
  ASSUME NEW l \in Seq(Char), NEW s \in Starts(l)
  PROVE  s \in Nat /\ s > 0 /\ Quotes(l, s - 1) % 2 = 0
<1>1. s \in Nat /\ s > 0 BY DEF Starts
<1>2. CASE s = 1
  <2>0. 1 .. 0 = {} OBVIOUS
  <2>1. Quotes(l, 0) = 0 BY <2>0, FS_EmptySet DEF Quotes
  <2>2. s - 1 = 0 BY <1>2
  <2> QED BY <1>1, <2>1, <2>2
<1>3. CASE s # 1
  <2>1. s - 1 \in Ends(l) BY <1>3 DEF Starts
  <2> QED BY <1>1, <2>1 DEF Ends
<1> QED BY <1>2, <1>3

(* The NUL that closes the last argument.                                  *)
Cut == [buf EXCEPT ![IF Quoted THEN pos - 1 ELSE pos] = NUL]

LEMMA CutFacts ==
  ASSUME IInv, SplitInv, pc = "split"
  PROVE  /\ Cut \in Seq(Char \cup {NUL}) /\ Len(Cut) = Len(line) + 1
         /\ DOMAIN Cut = 1 .. Len(line) + 1
         /\ \A i \in 1 .. Len(line) + 1 :
              Cut[i] = IF i = (IF Quoted THEN pos - 1 ELSE pos) THEN NUL ELSE buf[i]
         /\ \A i \in 1 .. Start(args) - 1 : Cut[i] = buf[i]
         /\ \A i \in Start(args) .. pos - 2 : Cut[i] = line[i] /\ Cut[i] # NUL
         /\ ~ Quoted /\ pos > Start(args) => Cut[pos - 1] = line[pos - 1] /\ Cut[pos - 1] # NUL
         /\ Complete(Cut, args, line)
<1> DEFINE q == IF Quoted THEN pos - 1 ELSE pos
<1>1. /\ line \in Seq(Char) /\ Len(line) \in Nat
      /\ buf \in Seq(Char \cup {NUL}) /\ Len(buf) = Len(line) + 1 /\ DOMAIN buf = 1 .. Len(line) + 1
      /\ pos \in 1 .. Len(line) + 1 /\ Start(args) \in 1 .. pos
      /\ Quoted => Start(args) < pos
  BY SplitFacts
<1>2. q \in 1 .. Len(line) + 1 /\ q >= Start(args) /\ q \in {pos - 1, pos} BY <1>1
<1>3. Cut = [buf EXCEPT ![q] = NUL] BY DEF Cut
<1> DEFINE T == Char \cup {NUL}
<1>4. Cut \in Seq(T) /\ Len(Cut) = Len(line) + 1 /\ DOMAIN Cut = 1 .. Len(line) + 1
      /\ \A i \in 1 .. Len(line) + 1 : Cut[i] = IF i = q THEN NUL ELSE buf[i]
  <2>1. NUL \in T OBVIOUS
  <2> HIDE DEF T, q, NUL
  <2> QED BY <1>1, <1>2, <1>3, <2>1 DEF T
<1>5. \A i \in 1 .. Start(args) - 1 : Cut[i] = buf[i]
  <2> TAKE i \in 1 .. Start(args) - 1
  <2>1. i \in 1 .. Len(line) + 1 /\ i # q BY <1>1, <1>2
  <2> HIDE DEF q
  <2> QED BY <1>4, <2>1
<1>6. \A i \in Start(args) .. Len(line) : buf[i] = line[i] /\ buf[i] # NUL
  <2> TAKE i \in Start(args) .. Len(line)
  <2>1. buf[i] = line[i] BY DEF SplitInv, Aligned
  <2>2. i \in 1 .. Len(line) BY <1>1
  <2>3. line[i] \in Char BY <1>1, <2>2
  <2> QED BY <2>1, <2>3, CharAssumption
<1>7. \A i \in Start(args) .. pos - 2 : Cut[i] = line[i] /\ Cut[i] # NUL
  <2> TAKE i \in Start(args) .. pos - 2
  <2>1. i \in 1 .. Len(line) + 1 /\ i # q /\ i \in Start(args) .. Len(line) BY <1>1, <1>2
  <2> HIDE DEF q
  <2> QED BY <1>4, <1>6, <2>1
<1>8. ~ Quoted /\ pos > Start(args) => Cut[pos - 1] = line[pos - 1] /\ Cut[pos - 1] # NUL
  <2> SUFFICES ASSUME ~ Quoted, pos > Start(args)
               PROVE  Cut[pos - 1] = line[pos - 1] /\ Cut[pos - 1] # NUL
    OBVIOUS
  <2>1. q = pos OBVIOUS
  <2> DEFINE i == pos - 1
  <2>2. i \in 1 .. Len(line) + 1 /\ i # q /\ i \in Start(args) .. Len(line) BY <1>1, <2>1
  <2> HIDE DEF q, i
  <2>3. Cut[i] = line[i] /\ Cut[i] # NUL BY <1>4, <1>6, <2>2
  <2> QED BY <2>3 DEF i
<1>9. Complete(Cut, args, line)
  <2> SUFFICES ASSUME NEW k \in 1 .. Len(args) - 1
               PROVE  \E j \in Nat : /\ EndsWord(Cut, args[k], j) /\ j < Start(args)
                                     /\ SubSeq(Cut, args[k], j - 1) = Argument(line, k)
    BY DEF Complete
  <2>1. PICK j \in Nat : /\ EndsWord(buf, args[k], j) /\ j < Start(args)
                         /\ SubSeq(buf, args[k], j - 1) = Argument(line, k)
    BY DEF SplitInv, Aligned, Complete
  <2>2. args[k] \in 1 .. Len(line) + 1
    <3>1. args \in Seq(DOMAIN buf) BY DEF IInv, TypeOK
    <3>2. k \in 1 .. Len(args) BY <3>1
    <3> QED BY <1>1, <3>1, <3>2
  <2> DEFINE c == args[k]
  <2>3. c \in Nat /\ c > 0 /\ c <= j /\ j - 1 \in Nat /\ j \in c .. Len(buf)
    BY <1>1, <2>1, <2>2 DEF EndsWord
  <2> HIDE DEF c, q
  <2>4. \A i \in c .. j : Cut[i] = buf[i]
    <3> TAKE i \in c .. j
    <3>1. i \in 1 .. Start(args) - 1 BY <1>1, <2>1, <2>3
    <3> QED BY <1>5, <3>1
  <2>5. EndsWord(Cut, c, j)
    <3>1. j \in c .. Len(Cut) BY <1>1, <1>4, <2>3
    <3>2. EndsWord(buf, c, j) BY <2>1 DEF c
    <3>3. j \in c .. j BY <2>3
    <3>4. \A i \in c .. j - 1 : i \in c .. j BY <2>3
    <3> HIDE DEF NUL
    <3> QED BY <2>4, <3>1, <3>2, <3>3, <3>4 DEF EndsWord
  <2>6. SubSeq(Cut, c, j - 1) = SubSeq(buf, c, j - 1)
    <3>1. \A i \in c .. j - 1 : Cut[i] = buf[i] BY <2>3, <2>4
    <3>2. Cut \in Seq(T) /\ buf \in Seq(T) /\ c \in Nat \ {0} /\ j - 1 \in Nat
      BY <1>1, <1>4, <2>3
    <3> HIDE DEF T
    <3> QED BY <3>1, <3>2, SamePart
  <2> QED BY <2>1, <2>5, <2>6 DEF c
<1> QED BY <1>4, <1>5, <1>7, <1>8, <1>9

(* What the last argument is when the character at pos ends it.            *)
LEMMA LastArgument ==
  ASSUME IInv, SplitInv, pc = "split", pos \in Ends(line) \cup {Len(line) + 1}
  PROVE  /\ Quoted => Argument(line, Len(args)) = SubSeq(line, Start(args) + 1, pos - 2)
         /\ ~ Quoted => Argument(line, Len(args)) =
              IF Len(args) = MaxArgs THEN SubSeq(line, Start(args), Len(line))
              ELSE SubSeq(line, Start(args), pos - 1)
<1> DEFINE s == Start(args)
           k == Len(args)
<1>1. /\ line \in Seq(Char) /\ Len(line) \in Nat /\ DOMAIN line = 1 .. Len(line)
      /\ pos \in 1 .. Len(line) + 1 /\ s \in 1 .. pos
      /\ Quoted => s < pos
  BY SplitFacts
<1>2. k \in Nat BY Within
<1>3. /\ stre <=> Counts(line, pos - 1)
      /\ \A i \in s .. pos - 1 : i \notin Ends(line)
      /\ strs <=> s \in DOMAIN line /\ line[s] = "\""
      /\ s \in Starts(line)
      /\ Cardinality(Before(line, s)) = k - 1
  BY DEF SplitInv, Aligned
<1>4. \A i \in Ends(line) : i \in 1 .. Len(line) BY <1>1, EndsRange
<1>5. s \notin Ends(line) BY <1>3 DEF Starts
<1>6. pos \in {i \in Ends(line) : i > s} \cup {Len(line) + 1} BY <1>1, <1>5
<1>7. \A i \in Ends(line) : i > s => pos <= i
  <2> HIDE DEF s
  <2> SUFFICES ASSUME NEW i \in Ends(line), i > s, ~ (pos <= i) PROVE FALSE OBVIOUS
  <2>1. i \in 1 .. Len(line) BY <1>4
  <2>2. i \in s .. pos - 1 BY <1>1, <2>1
  <2> QED BY <1>3, <2>2
<1> HIDE DEF s, k
<1>8. Argument(line, k) =
        IF pos - 1 >= s /\ line[s] = "\"" /\ Counts(line, pos - 1) THEN SubSeq(line, s + 1, pos - 2)
        ELSE IF k = MaxArgs THEN SubSeq(line, s, Len(line))
        ELSE SubSeq(line, s, pos - 1)
  BY <1>1, <1>2, <1>3, <1>6, <1>7, ArgumentIs
<1>9. Quoted <=> pos - 1 >= s /\ line[s] = "\"" /\ Counts(line, pos - 1)
  <2>1. Quoted => s < pos BY <1>1
  <2>2. pos - 1 >= s <=> s < pos BY <1>1
  <2>3. s < pos => s \in DOMAIN line BY <1>1
  <2> QED BY <1>3, <2>1, <2>2, <2>3 DEF Quoted
<1> QED BY <1>8, <1>9 DEF s, k

(* A quote alone is not an argument that a blank ends.                     *)
LEMMA QuotedEnd ==
  ASSUME IInv, SplitInv, pc = "split", pos \in Ends(line), Quoted
  PROVE  Start(args) < pos - 1
<1> DEFINE s == Start(args)
<1>1. /\ line \in Seq(Char) /\ Len(line) \in Nat /\ DOMAIN line = 1 .. Len(line)
      /\ pos \in 1 .. Len(line) + 1 /\ s \in 1 .. pos /\ s < pos
  BY SplitFacts
<1> SUFFICES ASSUME s = pos - 1 PROVE FALSE BY <1>1
<1>2. Counts(line, s) /\ s \in Starts(line) BY DEF SplitInv, Aligned, Quoted
<1> HIDE DEF s
<1>3. s \in Nat /\ s > 0 /\ Quotes(line, s - 1) % 2 = 0 BY <1>1, <1>2, StartEven
<1>4. Quotes(line, s) = Quotes(line, s - 1) + 1 BY <1>1, <1>2, <1>3, QuotesNext
<1>5. line[pos] = " " /\ Quotes(line, pos) % 2 = 0 BY DEF Ends
<1>6. ~ Counts(line, pos) BY <1>5 DEF Counts
<1>7. pos \in Nat /\ pos > 0 /\ pos - 1 = s BY <1>1
<1>8. Quotes(line, pos) = Quotes(line, pos - 1) BY <1>1, <1>6, <1>7, QuotesNext
<1>9. s - 1 \in Nat BY <1>3
<1>10. Quotes(line, s - 1) \in Nat BY <1>1, <1>9, QuotesNext
<1>11. Quotes(line, s) % 2 = 0 BY <1>5, <1>7, <1>8
<1> QED BY <1>3, <1>4, <1>10, <1>11, Parity
(* The word of an argument that is closed at pos is what it has to be.     *)
LEMMA ClosedWord ==
  ASSUME IInv, SplitInv, pc = "split", pos \in Ends(line) \cup {Len(line) + 1},
         Quoted \/ Len(args) # MaxArgs \/ pos = Len(line) + 1
  PROVE  \E j \in Nat : /\ EndsWord(Cut, ClosedArgs[Len(args)], j) /\ j <= pos
                        /\ SubSeq(Cut, ClosedArgs[Len(args)], j - 1) = Argument(line, Len(args))
<1> DEFINE s == Start(args)
           k == Len(args)
           L == Len(line)
           c == ClosedArgs[k]
<1>1. /\ line \in Seq(Char) /\ L \in Nat
      /\ pos \in 1 .. L + 1 /\ s \in 1 .. pos
      /\ buf[L + 1] = NUL
      /\ Quoted => s < pos
  BY SplitFacts
<1>2. /\ Cut \in Seq(Char \cup {NUL}) /\ Len(Cut) = L + 1
      /\ \A i \in 1 .. L + 1 : Cut[i] = IF i = (IF Quoted THEN pos - 1 ELSE pos) THEN NUL ELSE buf[i]
      /\ \A i \in s .. pos - 2 : Cut[i] = line[i] /\ Cut[i] # NUL
      /\ ~ Quoted /\ pos > s => Cut[pos - 1] = line[pos - 1] /\ Cut[pos - 1] # NUL
  BY CutFacts
<1>3. args \in Seq(DOMAIN buf) /\ k \in 1 .. k BY Within DEF IInv, TypeOK
<1>4. c = IF Quoted THEN s + 1 ELSE s
  <2>1. k \in DOMAIN args BY <1>3
  <2> QED BY <2>1 DEF ClosedArgs, Start
<1>5. /\ Quoted => Argument(line, k) = SubSeq(line, s + 1, pos - 2)
      /\ ~ Quoted => Argument(line, k) = IF k = MaxArgs THEN SubSeq(line, s, L)
                                         ELSE SubSeq(line, s, pos - 1)
  BY LastArgument
<1> DEFINE T == Char \cup {NUL}
<1>6. Cut \in Seq(T) BY <1>2
<1> HIDE DEF s, k, L, T, NUL, c
<1>7. CASE Quoted /\ s < pos - 1
  <2>1. c = s + 1 /\ c \in Nat \ {0} /\ pos - 1 \in Nat /\ pos - 2 \in Nat
        /\ pos - 1 \in c .. L + 1 /\ pos - 1 - 1 = pos - 2
    BY <1>1, <1>4, <1>7
  <2>2. Cut[pos - 1] = NUL BY <1>1, <1>2, <1>7, <2>1
  <2>3. \A i \in c .. pos - 2 : Cut[i] = line[i] /\ Cut[i] # NUL
    <3> TAKE i \in c .. pos - 2
    <3>1. i \in s .. pos - 2 BY <1>1, <2>1
    <3> QED BY <1>2, <3>1
  <2>4. EndsWord(Cut, c, pos - 1) BY <1>2, <2>1, <2>2, <2>3 DEF EndsWord
  <2>5. SubSeq(Cut, c, pos - 2) = SubSeq(line, c, pos - 2)
    BY <1>1, <1>6, <2>1, <2>3, SamePart
  <2>6. Argument(line, k) = SubSeq(line, c, pos - 2) BY <1>5, <1>7, <2>1
  <2>7. pos - 1 <= pos BY <1>1
  <2> QED BY <2>1, <2>4, <2>5, <2>6, <2>7 DEF c, k
<1>8. CASE Quoted /\ ~ (s < pos - 1)
  <2>1. pos = L + 1
    <3>1. pos \in Ends(line) => Start(args) < pos - 1 BY <1>8, QuotedEnd
    <3> QED BY <1>8, <3>1 DEF s, L
  <2>2. c = pos /\ s + 1 = pos BY <1>1, <1>4, <1>8
  <2>3. Cut[pos] = NUL /\ pos \in Nat /\ pos > 0
    <3>1. pos \in 1 .. L + 1 /\ pos # pos - 1 BY <1>1
    <3> QED BY <1>1, <1>2, <1>8, <2>1, <3>1
  <2>4. EndsWord(Cut, c, pos)
    <3>1. pos \in c .. Len(Cut) /\ \A i \in c .. pos - 1 : FALSE BY <1>1, <1>2, <2>1, <2>2
    <3> QED BY <2>3, <3>1 DEF EndsWord
  <2>5. SubSeq(Cut, c, pos - 1) = <<>> BY <2>2, <2>3
  <2>6. SubSeq(line, s + 1, pos - 2) = <<>> BY <1>1, <2>2, <2>3
  <2>7. pos <= pos BY <2>3
  <2> QED BY <1>5, <1>8, <2>3, <2>4, <2>5, <2>6, <2>7 DEF c, k
<1>9. CASE ~ Quoted
  <2>1. c = s /\ c \in Nat \ {0} /\ pos - 1 \in Nat /\ pos \in c .. L + 1 BY <1>1, <1>4, <1>9
  <2>2. Cut[pos] = NUL BY <1>1, <1>2, <1>9
  <2>3. \A i \in c .. pos - 1 : Cut[i] = line[i] /\ Cut[i] # NUL
    <3> TAKE i \in c .. pos - 1
    <3>1. i \in s .. pos - 2 \/ (i = pos - 1 /\ pos > s) BY <1>1, <2>1
    <3> QED BY <1>2, <1>9, <3>1
  <2>4. EndsWord(Cut, c, pos) BY <1>2, <2>1, <2>2, <2>3 DEF EndsWord
  <2>5. SubSeq(Cut, c, pos - 1) = SubSeq(line, c, pos - 1)
    BY <1>1, <1>6, <2>1, <2>3, SamePart
  <2>6. Argument(line, k) = SubSeq(line, c, pos - 1)
    <3>1. CASE k # MaxArgs BY <1>5, <1>9, <2>1, <3>1
    <3>2. CASE k = MaxArgs
      <4>1. pos = L + 1 BY <1>9, <3>2 DEF k, L
      <4>2. pos - 1 = L BY <1>1, <4>1
      <4> QED BY <1>5, <1>9, <2>1, <3>2, <4>2
    <3> QED BY <3>1, <3>2
  <2>7. pos <= pos /\ pos \in Nat BY <1>1
  <2> QED BY <2>4, <2>5, <2>6, <2>7 DEF c, k
<1> QED BY <1>7, <1>8, <1>9

LEMMA OtherArgs ==
  ASSUME IInv, pc = "split"
  PROVE  \A k \in 1 .. Len(args) - 1 : ClosedArgs[k] = args[k]
<1>1. args \in Seq(DOMAIN buf) BY DEF IInv, TypeOK
<1> QED BY <1>1 DEF ClosedArgs

(* A blank ends an argument, and the next one starts after the blanks.     *)
LEMMA BlanksEnd ==
  ASSUME IInv, SplitInv, Blank, NEW next \in DOMAIN buf, next > pos,
         SkipBlanks(buf, pos + 1, next)
  PROVE  /\ pos \in Ends(line) /\ pos \in 1 .. Len(line) /\ next \in 1 .. Len(line) + 1
         /\ \A i \in pos .. next - 1 : i \in Ends(line)
         /\ Quotes(line, next - 1) % 2 = 0
         /\ ~ Counts(line, next - 1) /\ Escapes(line, next) = 0
         /\ next \in Starts(line)
<1>0. pc = "split" /\ buf[pos] = " " /\ ~ str BY DEF Blank, Splitting
<1>1. buf[pos] # NUL BY <1>0 DEF NUL
<1>2. /\ line \in Seq(Char) /\ Len(line) \in Nat /\ DOMAIN line = 1 .. Len(line)
      /\ Len(buf) = Len(line) + 1 /\ DOMAIN buf = 1 .. Len(buf)
      /\ pos \in 1 .. Len(line) /\ Start(args) \in 1 .. pos /\ line[pos] = " "
  BY <1>0, <1>1, SplitFacts
<1>3. \A i \in Start(args) .. Len(line) : buf[i] = line[i] BY <1>0 DEF SplitInv, Aligned
<1>13. /\ Len(line) \in Nat /\ pos \in 1 .. Len(line) /\ Start(args) \in 1 .. pos
      /\ next \in 1 .. Len(line) + 1 /\ next > pos
  <2>1. Len(buf) = Len(line) + 1 /\ next \in 1 .. Len(buf) BY <1>2
  <2> QED BY <1>2, <2>1
<1>4. next \in 1 .. Len(line) + 1 /\ next - 1 \in pos .. Len(line) BY <1>13
<1>5. \A i \in pos .. next - 1 : i \in 1 .. Len(line) /\ line[i] = " "
  <2> TAKE i \in pos .. next - 1
  <2>1. i \in 1 .. Len(line) /\ i \in Start(args) .. Len(line) BY <1>13, <1>4
  <2>2. i = pos \/ i \in pos + 1 .. next - 1 BY <1>13
  <2>3. buf[i] = " " BY <1>0, <2>2 DEF SkipBlanks
  <2> QED BY <1>3, <2>1, <2>3
<1>6. \A i \in pos .. next - 1 : ~ Counts(line, i) BY <1>5 DEF Counts
<1>7. Quotes(line, pos - 1) % 2 = 0 BY <1>0 DEF SplitInv
<1>8. \A i \in pos .. next - 1 : Quotes(line, i) % 2 = 0
  <2> TAKE i \in pos .. next - 1
  <2>1. i \in Nat /\ pos - 1 \in Nat /\ pos - 1 <= i BY <1>13
  <2>2. \A k \in pos - 1 + 1 .. i : ~ Counts(line, k)
    <3> TAKE k \in pos - 1 + 1 .. i
    <3>1. k \in pos .. next - 1 BY <1>13
    <3> QED BY <1>6, <3>1
  <2>3. Quotes(line, i) = Quotes(line, pos - 1) BY <2>1, <2>2, QuotesSame
  <2> QED BY <1>7, <2>3
<1>9. \A i \in pos .. next - 1 : i \in Ends(line) BY <1>2, <1>5, <1>8 DEF Ends
<1>10. pos \in pos .. next - 1 /\ next - 1 \in pos .. next - 1 BY <1>13, <1>4
<1>11. Escapes(line, next) = 0
  <2> DEFINE i == next - 1
  <2>1. i \in 1 .. Len(line) /\ line[i] = " " /\ i + 1 = next
    <3>1. i \in 1 .. Len(line) /\ i + 1 = next BY <1>13, <1>4
    <3> QED BY <1>5, <1>10, <3>1
  <2> HIDE DEF i
  <2>2. Escapes(line, i + 1) = 0 BY <1>2, <2>1, EscapesNext
  <2> QED BY <2>1, <2>2
<1>12. next \in Starts(line)
  <2>1. next \notin Ends(line)
    <3> SUFFICES ASSUME next \in Ends(line) PROVE FALSE OBVIOUS
    <3>1. next \in 1 .. Len(line) /\ line[next] = " " BY <1>2, EndsRange
    <3>2. next \in Start(args) .. Len(line)
      <4>1. next \in 1 .. Len(line) BY <3>1
      <4> QED BY <1>13, <4>1
    <3>3. buf[next] = " " BY <1>3, <3>1, <3>2
    <3> QED BY <3>3 DEF SkipBlanks
  <2>2. next # 1 BY <1>13
  <2> QED BY <1>4, <1>9, <1>10, <2>1, <2>2 DEF Starts
<1> QED BY <1>2, <1>4, <1>6, <1>8, <1>9, <1>10, <1>11, <1>12
LEMMA BlankSplit ==
  ASSUME IInv, SplitInv, Blank
  PROVE  SplitInv'
<1>0. pc = "split" /\ ~ str /\ HasRoom BY DEF Blank, Splitting
<1>1. PICK next \in DOMAIN buf :
        /\ next > pos /\ SkipBlanks(buf, pos + 1, next)
        /\ args' = Append(ClosedArgs, next)
        /\ pos' = next
        /\ strs' = (buf[next] = "\"")
  BY DEF Blank
<1>2. buf' = Cut /\ line' = line /\ ~ stre' /\ ~ escape' /\ ~ str'
  BY <1>0 DEF Blank, Cut
<1>3. /\ pos \in Ends(line) /\ pos \in 1 .. Len(line) /\ next \in 1 .. Len(line) + 1
      /\ \A i \in pos .. next - 1 : i \in Ends(line)
      /\ Quotes(line, next - 1) % 2 = 0
      /\ ~ Counts(line, next - 1) /\ Escapes(line, next) = 0
      /\ next \in Starts(line)
  BY <1>1, BlanksEnd
<1>4. /\ line \in Seq(Char) /\ Len(line) \in Nat /\ DOMAIN line = 1 .. Len(line)
      /\ Start(args) \in 1 .. pos
      /\ buf[Len(line) + 1] = NUL
      /\ Quoted => Start(args) < pos
  BY <1>0, SplitFacts
<1>5. ClosedArgs \in Seq(DOMAIN buf) /\ Len(ClosedArgs) = Len(args) /\ Len(args) \in Nat \ {0}
  BY <1>0, ClosedType, Within
<1>16. args' = Append(ClosedArgs, next) /\ pos' = next /\ next > pos BY <1>1, Zenon
<1>6. /\ Len(args') = Len(args) + 1 /\ Start(args') = next
      /\ \A k \in 1 .. Len(args) : args'[k] = ClosedArgs[k]
  <2> DEFINE D == DOMAIN buf
             c == ClosedArgs
             n == Len(args)
  <2>1. c \in Seq(D) /\ Len(c) = n /\ n \in Nat /\ next \in D /\ args' = Append(c, next)
    BY <1>5, <1>16
  <2> HIDE DEF D, c, n
  <2>2. Len(args') = n + 1 /\ args'[n + 1] = next /\ \A k \in 1 .. n : args'[k] = c[k]
    BY <2>1
  <2> QED BY <2>2 DEF Start, c, n
<1>7. /\ \A i \in Start(args) .. Len(line) : buf[i] = line[i]
      /\ Start(args) \in Starts(line)
      /\ \A i \in Start(args) .. pos - 1 : i \notin Ends(line)
      /\ Cardinality(Before(line, Start(args))) = Len(args) - 1
  BY <1>0 DEF SplitInv, Aligned
<1>8. next > pos /\ next \in Nat /\ pos \in Nat /\ Start(args) \in Nat
  <2>1. pos \in 1 .. Len(line) /\ next \in 1 .. Len(line) + 1 BY <1>3
  <2>2. Len(line) \in Nat /\ Start(args) \in 1 .. pos BY <1>4
  <2> QED BY <1>16, <2>1, <2>2
<1>9. \A i \in next .. Len(line) : Cut[i] = line[i]
  <2> TAKE i \in next .. Len(line)
  <2>1. i \in 1 .. Len(line) + 1 /\ i # pos /\ i # pos - 1 /\ i \in Start(args) .. Len(line)
    BY <1>3, <1>4, <1>8
  <2>2. Cut[i] = buf[i] BY <1>0, <2>1, CutFacts
  <2> QED BY <1>7, <2>1, <2>2
<1>10. strs' <=> next \in DOMAIN line /\ line[next] = "\""
  <2>1. CASE next \in 1 .. Len(line)
    <3>1. next \in Start(args) .. Len(line) BY <1>4, <1>8, <2>1
    <3>2. buf[next] = line[next] BY <1>7, <3>1
    <3> QED BY <1>1, <1>4, <2>1, <3>2
  <2>2. CASE next \notin 1 .. Len(line)
    <3>1. next = Len(line) + 1 BY <1>3, <1>4, <2>2
    <3>2. buf[next] = NUL BY <1>4, <3>1
    <3> QED BY <1>1, <1>4, <2>2, <3>2 DEF NUL
  <2> QED BY <2>1, <2>2
<1>11. Cardinality(Before(line, next)) = Len(args') - 1
  <2>1. ASSUME NEW j \in Start(args) + 1 .. next - 1 PROVE j \notin Starts(line)
    <3>1. CASE j <= pos
      <4>1. j - 1 \in Start(args) .. pos - 1 /\ j # 1 BY <1>8, <1>4, <3>1
      <4> QED BY <1>7, <4>1 DEF Starts
    <3>2. CASE ~ (j <= pos)
      <4>1. j \in pos .. next - 1 BY <1>8, <3>2
      <4> QED BY <1>3, <4>1 DEF Starts
    <3> QED BY <3>1, <3>2
  <2>2. Start(args) < next BY <1>4, <1>8
  <2>3. Cardinality(Before(line, next)) = Cardinality(Before(line, Start(args))) + 1
    BY <1>3, <1>4, <1>7, <2>1, <2>2, BeforeNext
  <2> QED BY <1>5, <1>6, <1>7, <2>3
<1>12. Complete(Cut, args', line)
  <2> SUFFICES ASSUME NEW k \in 1 .. Len(args') - 1
               PROVE  \E j \in Nat : /\ EndsWord(Cut, args'[k], j) /\ j < Start(args')
                                     /\ SubSeq(Cut, args'[k], j - 1) = Argument(line, k)
    BY DEF Complete
  <2>1. k \in 1 .. Len(args) /\ args'[k] = ClosedArgs[k]
    <3>1. k \in 1 .. Len(args) BY <1>5, <1>6
    <3> QED BY <1>6, <3>1
  <2>2. CASE k = Len(args)
    <3>1. Len(args) # MaxArgs BY <1>0, <1>5, ArgsAssumption DEF HasRoom
    <3>2. PICK j \in Nat : /\ EndsWord(Cut, ClosedArgs[Len(args)], j) /\ j <= pos
                           /\ SubSeq(Cut, ClosedArgs[Len(args)], j - 1) = Argument(line, Len(args))
      BY <1>0, <1>3, <3>1, ClosedWord
    <3>3. j < Start(args') BY <1>6, <1>8, <3>2
    <3> QED BY <2>1, <2>2, <3>2, <3>3
  <2>3. CASE k # Len(args)
    <3>1. k \in 1 .. Len(args) - 1 BY <1>5, <2>1, <2>3
    <3>2. args'[k] = args[k] BY <1>0, <2>1, <3>1, OtherArgs
    <3>3. Complete(Cut, args, line) BY <1>0, CutFacts
    <3>4. PICK j \in Nat : /\ EndsWord(Cut, args[k], j) /\ j < Start(args)
                           /\ SubSeq(Cut, args[k], j - 1) = Argument(line, k)
      BY <3>1, <3>3 DEF Complete
    <3>5. j < Start(args') BY <1>4, <1>6, <1>8, <3>4
    <3> QED BY <3>2, <3>4, <3>5
  <2> QED BY <2>2, <2>3
<1>13. Aligned(buf', args', line', strs')
  BY <1>2, <1>3, <1>6, <1>9, <1>10, <1>11, <1>12 DEF Aligned
<1>14. pos' = next /\ 0 % 2 = 0 BY <1>16
<1>15. \A i \in Start(args') .. pos' - 1 : i \notin Ends(line') BY <1>6, <1>8, <1>14
<1> QED BY <1>2, <1>3, <1>13, <1>14, <1>15 DEF SplitInv

(* The first word starts after the blanks before it.                       *)
LEMMA ReadSplit ==
  ASSUME NEW l \in Lines, ReadLine(l)
  PROVE  SplitInv'
<1>1. PICK i \in DOMAIN l :
        /\ SkipBlanks(l, 1, i)
        /\ line' = l /\ buf' = Append(l, NUL) /\ pos' = i /\ args' = <<i>>
        /\ strs' = (l[i] = "\"")
  BY DEF ReadLine
<1>2. l \in Seq(Char) BY LinesAssumption
<1>3. Len(l) \in Nat /\ i \in 1 .. Len(l) /\ DOMAIN l = 1 .. Len(l) BY <1>2
<1>4. Start(args') = i /\ Len(args') = 1 BY <1>1 DEF Start
<1>5. ~ escape' /\ ~ str' /\ ~ stre' BY DEF ReadLine
<1>6. l[i] # " " /\ \A k \in 1 .. i - 1 : l[k] = " " BY <1>1 DEF SkipBlanks
<1>7. \A k \in 0 .. i - 1 : Quotes(l, k) = 0
  <2> TAKE k \in 0 .. i - 1
  <2>1. k \in Nat /\ \A x \in 1 .. k : x \in 1 .. i - 1 BY <1>3
  <2>2. \A x \in 1 .. k : l[x] # "\"" BY <1>6, <2>1
  <2> QED BY <1>2, <2>1, <2>2, QuotesNone
<1>8. \A k \in 1 .. i - 1 : k \in Ends(l)
  <2> TAKE k \in 1 .. i - 1
  <2>1. k \in 0 .. i - 1 /\ k \in 1 .. Len(l) BY <1>3
  <2>2. Quotes(l, k) % 2 = 0 BY <1>7, <2>1
  <2> QED BY <1>3, <1>6, <2>1, <2>2 DEF Ends
<1>9. i \in Starts(l)
  <2>1. i \notin Ends(l) BY <1>6 DEF Ends
  <2>2. i # 1 => i - 1 \in 1 .. i - 1 BY <1>3
  <2>3. i \in 1 .. Len(l) + 1 BY <1>3
  <2> QED BY <1>8, <2>1, <2>2, <2>3 DEF Starts
<1>10. Before(l, i) = {}
  <2> SUFFICES ASSUME NEW j \in Starts(l), j < i PROVE FALSE BY DEF Before
  <2>1. j \in 1 .. i - 1 BY <1>3 DEF Starts
  <2> QED BY <1>8, <2>1 DEF Starts
<1>11. Escapes(l, i) = 0
  <2>1. i \in 1 .. Len(l) + 1 BY <1>3
  <2>2. Escapes(l, i) > 0 => i > 1 /\ l[i - 1] = "\\" BY <1>2, <2>1, EscapesNat
  <2>3. i > 1 => i - 1 \in 1 .. i - 1 BY <1>3
  <2>4. ~ (Escapes(l, i) > 0) BY <1>6, <2>2, <2>3
  <2>5. Escapes(l, i) \in Nat BY <1>2, <2>1, EscapesNat
  <2> QED BY <2>4, <2>5
<1>12. ~ Counts(l, i - 1)
  <2>1. i - 1 \in DOMAIN l => i - 1 \in 1 .. i - 1 BY <1>3
  <2> QED BY <1>6, <2>1 DEF Counts
<1>13. Aligned(buf', args', l, strs')
  <2>1. \A k \in Start(args') .. Len(l) : buf'[k] = l[k]
    <3>1. \A k \in 1 .. Len(l) : Append(l, NUL)[k] = l[k] BY <1>2 DEF NUL
    <3>2. \A k \in i .. Len(l) : k \in 1 .. Len(l) BY <1>3
    <3> QED BY <1>1, <1>4, <3>1, <3>2
  <2>2. Cardinality(Before(l, i)) = Len(args') - 1 BY <1>4, <1>10, FS_EmptySet
  <2>3. Complete(buf', args', l)
    <3>1. \A k \in 1 .. Len(args') - 1 : FALSE BY <1>4
    <3> QED BY <3>1 DEF Complete
  <2>4. strs' <=> i \in DOMAIN l /\ l[i] = "\"" BY <1>1
  <2> QED BY <1>4, <1>9, <2>1, <2>2, <2>3, <2>4 DEF Aligned
<1>14. Quotes(l, i - 1) = 0 /\ 0 % 2 = 0
  <2>1. i - 1 \in 0 .. i - 1 BY <1>3
  <2> QED BY <1>7, <2>1
<1>15. \A k \in Start(args') .. pos' - 1 : k \notin Ends(line')
  <2>1. pos' = i BY <1>1, Zenon
  <2>2. Start(args') .. pos' - 1 = {} BY <1>3, <1>4, <2>1
  <2> QED BY <2>2
<1> QED BY <1>1, <1>5, <1>11, <1>12, <1>13, <1>14, <1>15 DEF SplitInv
LEMMA MinOfTwo ==
  ASSUME NEW a \in Nat, NEW b \in Nat, a <= b
  PROVE  Min({a, b}) = a /\ Min({b, a}) = a
BY DEF Min

(* A blank where there is no more room ends the last argument there is     *)
(* room for, as the end of the line does.                                  *)
LEMMA EndCases ==
  ASSUME IInv, SplitInv, EndOfLine
  PROVE  \/ pos = Len(line) + 1 /\ buf' = Cut
         \/ pos \in Ends(line) /\ Len(args) = MaxArgs /\ buf' = IF Quoted THEN Cut ELSE buf
<1>0. pc = "split" /\ buf' = IF Quoted THEN [buf EXCEPT ![pos - 1] = NUL] ELSE buf
  BY DEF EndOfLine, Splitting
<1>1. /\ line \in Seq(Char) /\ Len(line) \in Nat /\ DOMAIN line = 1 .. Len(line)
      /\ buf \in Seq(Char \cup {NUL}) /\ pos \in 1 .. Len(line) + 1
      /\ buf[pos] # NUL => pos \in 1 .. Len(line)
      /\ pos \in 1 .. Len(line) => buf[pos] = line[pos] /\ buf[pos] # NUL
  BY <1>0, SplitFacts
<1>2. CASE Splitting(NUL)
  <2>1. buf[pos] = NUL BY <1>2 DEF Splitting
  <2>2. pos = Len(line) + 1
    <3>1. pos \notin 1 .. Len(line) BY <1>1, <2>1
    <3> QED BY <1>1, <3>1
  <2>3. buf' = Cut
    <3>1. CASE Quoted BY <1>0, <3>1 DEF Cut
    <3>2. CASE ~ Quoted
      <4>1. buf = [buf EXCEPT ![pos] = NUL]
        <5> HIDE DEF NUL
        <5> QED BY <1>1, <2>1
      <4> QED BY <1>0, <3>2, <4>1 DEF Cut
    <3> QED BY <3>1, <3>2
  <2> QED BY <2>2, <2>3
<1>3. CASE ~ Splitting(NUL)
  <2>1. buf[pos] = " " /\ ~ str /\ ~ HasRoom BY <1>3 DEF EndOfLine, Splitting
  <2>2. buf[pos] # NUL BY <2>1 DEF NUL
  <2>3. pos \in 1 .. Len(line) /\ line[pos] = " " BY <1>1, <2>1, <2>2
  <2>4. Quotes(line, pos - 1) % 2 = 0 BY <1>0, <2>1 DEF SplitInv
  <2>5. ~ Counts(line, pos) BY <2>3 DEF Counts
  <2>6. Quotes(line, pos) = Quotes(line, pos - 1)
    <3>1. pos \in 1 .. Len(line) BY <2>3
    <3>2. pos \in Nat /\ pos > 0 BY <3>1
    <3> QED BY <1>1, <2>5, <3>2, QuotesNext
  <2>7. pos \in Ends(line) BY <1>1, <2>3, <2>4, <2>6 DEF Ends
  <2>8. Len(args) = MaxArgs
    <3>1. Len(args) \in Nat BY <1>0, Within
    <3>2. Len(args) <= MaxArgs BY DEF IInv, TypeOK
    <3>3. ~ (Len(args) < MaxArgs) BY <2>1, Zenon DEF HasRoom
    <3> QED BY <3>1, <3>2, <3>3, ArgsAssumption
  <2>9. buf' = IF Quoted THEN Cut ELSE buf BY <1>0 DEF Cut
  <2> QED BY <2>7, <2>8, <2>9
<1> QED BY <1>2, <1>3

LEMMA EndCount ==
  ASSUME IInv, SplitInv, EndOfLine
  PROVE  Len(args) = Min({MaxArgs, Cardinality(Starts(line))})
<1> DEFINE s == Start(args)
           n == Len(args)
           c == Cardinality(Starts(line))
<1>0. pc = "split" BY DEF EndOfLine, Splitting
<1>1. /\ line \in Seq(Char) /\ Len(line) \in Nat
      /\ pos \in 1 .. Len(line) + 1 /\ s \in 1 .. pos
  BY <1>0, SplitFacts
<1>2. /\ \A i \in s .. pos - 1 : i \notin Ends(line)
      /\ s \in Starts(line) /\ Cardinality(Before(line, s)) = n - 1
  BY <1>0 DEF SplitInv, Aligned
<1>3. n \in Nat /\ n <= MaxArgs /\ MaxArgs \in Nat
  BY <1>0, Within, ArgsAssumption DEF IInv, TypeOK
<1> HIDE DEF s, n
<1>4. /\ IsFiniteSet(Starts(line)) /\ Starts(line) \subseteq Nat
      /\ IsFiniteSet(Before(line, s)) /\ Before(line, s) \subseteq Starts(line) /\ c \in Nat
  BY <1>1, StartsFinite
<1> DEFINE B == Before(line, s) \cup {s}
<1>5. B \subseteq Starts(line) BY <1>2, <1>4
<1>6. Cardinality(B) = n
  <2>1. s \notin Before(line, s) BY <1>2, <1>4 DEF Before
  <2>2. Cardinality(B) = Cardinality(Before(line, s)) + 1 BY <1>4, <2>1, FS_AddElement
  <2> QED BY <1>2, <1>3, <2>2
<1>7. n <= c
  <2> HIDE DEF B
  <2>1. Cardinality(B) <= Cardinality(Starts(line)) BY <1>4, <1>5, FS_Subset
  <2> QED BY <1>6, <2>1
<1>8. pos = Len(line) + 1 => c = n
  <2> SUFFICES ASSUME pos = Len(line) + 1 PROVE c = n OBVIOUS
  <2>1. Starts(line) \subseteq B
    <3> SUFFICES ASSUME NEW j \in Starts(line), ~ (j < s), j # s PROVE FALSE BY DEF Before
    <3>1. j \in 1 .. Len(line) + 1 BY DEF Starts
    <3>2. j - 1 \in s .. pos - 1 /\ j # 1 BY <1>1, <3>1
    <3> QED BY <1>2, <3>2 DEF Starts
  <2>2. Starts(line) = B BY <1>5, <2>1
  <2> HIDE DEF B
  <2> QED BY <1>6, <2>2
<1>9. pos = Len(line) + 1 \/ n = MaxArgs BY EndCases DEF n
<1> HIDE DEF c
<1>10. n = Min({MaxArgs, c})
  <2>1. CASE c = n BY <1>3, <2>1, MinOfTwo
  <2>2. CASE n = MaxArgs BY <1>3, <1>4, <1>7, <2>2, MinOfTwo
  <2> QED BY <1>8, <1>9, <2>1, <2>2
<1> QED BY <1>10 DEF n, c

LEMMA EndWords ==
  ASSUME IInv, SplitInv, EndOfLine
  PROVE  ArgumentsAreWords'
<1>0. pc = "split" /\ line' = line /\ args' = ClosedArgs BY DEF EndOfLine, Splitting
<1>1. /\ buf' \in Seq(Char \cup {NUL}) /\ Len(buf') = Len(line) + 1 /\ args' \in Seq(DOMAIN buf')
  <2>1. IInv' BY EndInv
  <2> QED BY <1>0, <2>1 DEF IInv, TypeOK
<1>2. Len(args') = Len(args) /\ Len(args) \in Nat \ {0} BY <1>0, ClosedType, Within
<1>3. ASSUME NEW k \in 1 .. Len(args)
      PROVE  \E j \in Nat : EndsWord(buf', args'[k], j)
                            /\ SubSeq(buf', args'[k], j - 1) = Argument(line, k)
  <2>1. CASE k # Len(args)
    <3>1. k \in 1 .. Len(args) - 1 BY <1>2, <2>1
    <3>2. args'[k] = args[k] BY <1>0, <3>1, OtherArgs
    <3>3. Complete(buf', args, line)
      <4>1. Complete(Cut, args, line) BY <1>0, CutFacts
      <4>2. Complete(buf, args, line) BY <1>0 DEF SplitInv, Aligned
      <4>3. buf' = Cut \/ buf' = buf BY EndCases
      <4> QED BY <4>1, <4>2, <4>3
    <3> QED BY <3>1, <3>2, <3>3 DEF Complete
  <2>2. CASE k = Len(args) /\ buf' = Cut /\ (Quoted \/ pos = Len(line) + 1)
    <3>1. pos \in Ends(line) \cup {Len(line) + 1} BY EndCases
    <3>2. PICK j \in Nat : /\ EndsWord(Cut, ClosedArgs[Len(args)], j)
                           /\ SubSeq(Cut, ClosedArgs[Len(args)], j - 1) = Argument(line, Len(args))
      BY <1>0, <2>2, <3>1, ClosedWord
    <3> QED BY <1>0, <2>2, <3>2
  <2>3. CASE /\ k = Len(args) /\ ~ Quoted /\ buf' = buf
             /\ pos \in Ends(line) /\ Len(args) = MaxArgs
    <3> DEFINE s == Start(args)
               L == Len(line)
    <3>1. Argument(line, k) = SubSeq(line, s, L) BY <1>0, <2>3, LastArgument
    <3>2. args'[k] = s BY <1>0, <2>3 DEF ClosedArgs, Start
    <3>3. /\ line \in Seq(Char) /\ L \in Nat /\ buf[L + 1] = NUL /\ Len(buf) = L + 1
          /\ buf \in Seq(Char \cup {NUL}) /\ pos \in 1 .. L + 1 /\ s \in 1 .. pos
      BY <1>0, SplitFacts
    <3>4. \A i \in s .. L : buf[i] = line[i] BY <1>0 DEF SplitInv, Aligned
    <3> DEFINE T == Char \cup {NUL}
    <3>5. buf \in Seq(T) BY <3>3
    <3> HIDE DEF s, L, T, NUL
    <3>6. \A i \in s .. L : buf[i] # NUL
      <4> TAKE i \in s .. L
      <4>1. i \in 1 .. Len(line) BY <3>3 DEF L
      <4>2. line[i] \in Char BY <3>3, <4>1
      <4> QED BY <3>4, <4>2, CharAssumption
    <3>7. L + 1 \in Nat /\ L + 1 - 1 = L /\ L + 1 \in s .. L + 1 /\ s \in Nat \ {0} BY <3>3
    <3>8. EndsWord(buf, s, L + 1) BY <3>3, <3>6, <3>7 DEF EndsWord
    <3>9. SubSeq(buf, s, L) = SubSeq(line, s, L) BY <3>3, <3>4, <3>5, <3>7, SamePart
    <3> DEFINE e == L + 1
    <3>10. L \in Nat BY <3>3, Zenon
    <3>11. e \in Nat /\ e - 1 = L BY <3>10
    <3>12. EndsWord(buf, s, e) BY <3>8
    <3>13. buf' = buf BY <2>3
    <3> HIDE DEF e
    <3>14. SubSeq(buf, s, e - 1) = Argument(line, k) BY <3>1, <3>9, <3>11, Zenon
    <3> QED BY <3>2, <3>11, <3>12, <3>13, <3>14, Zenon
  <2> QED BY <2>1, <2>2, <2>3, EndCases
<1>4. \A k \in DOMAIN args' : WordOf(buf', args'[k]) = Argument(line', k)
  <2> TAKE k \in DOMAIN args'
  <2>1. k \in 1 .. Len(args) BY <1>1, <1>2
  <2>2. PICK j \in Nat : EndsWord(buf', args'[k], j)
                         /\ SubSeq(buf', args'[k], j - 1) = Argument(line, k)
    BY <1>3, <2>1
  <2>3. args'[k] \in DOMAIN buf' BY <1>1
  <2>4. WordOf(buf', args'[k]) = SubSeq(buf', args'[k], j - 1) BY <1>1, <2>2, <2>3, WordIs
  <2> QED BY <1>0, <2>2, <2>4
<1>5. Len(args') = Min({MaxArgs, Cardinality(Starts(line'))}) BY <1>0, <1>2, EndCount
<1> QED BY <1>4, <1>5 DEF ArgumentsAreWords, Word, WordOf

LEMMA WordsStep == IInv /\ SplitInv /\ ArgumentsAreWords /\ [Next]_vars => SplitInv' /\ ArgumentsAreWords'
<1> SUFFICES ASSUME IInv, SplitInv, ArgumentsAreWords, [Next]_vars
             PROVE  SplitInv' /\ ArgumentsAreWords'
  OBVIOUS
<1>1. ASSUME NEW l \in Lines, ReadLine(l) PROVE SplitInv' /\ ArgumentsAreWords'
  BY <1>1, ReadSplit DEF ReadLine, ArgumentsAreWords
<1>2. CASE Blank
  <2>1. pc' = "split" BY <1>2 DEF Blank, Splitting
  <2> QED BY <1>2, <2>1, BlankSplit DEF ArgumentsAreWords
<1>3. CASE QuotedBlank \/ Backslash \/ Quote \/ OtherChar
  <2>1. pc' = "split" BY <1>3 DEF QuotedBlank, Backslash, Quote, OtherChar, Splitting
  <2> QED BY <1>3, <2>1, CharSplit DEF ArgumentsAreWords
<1>4. CASE EndOfLine
  <2>1. pc' = "run" BY <1>4 DEF EndOfLine
  <2> QED BY <1>4, <2>1, EndWords DEF SplitInv
<1>5. CASE \/ NoInput \/ ParsePath \/ Done \/ EnterFS \/ ExitFS \/ Quit \/ AttributeCrashes
           \/ \E l \in Lines : LineFills(l)
  <2>1. pc' \in {"left", "open", "prompt"}
    BY <1>5 DEF NoInput, ParsePath, Done, EnterFS, ExitFS, Quit, AttributeCrashes, LineFills
  <2> QED BY <2>1 DEF SplitInv, ArgumentsAreWords
<1>6. CASE UNCHANGED vars
  <2>1. UNCHANGED <<pc, line, buf, pos, args, escape, str, stre, strs>> BY <1>6 DEF vars, scanner
  <2>2. SplitInv'
    <3>1. SplitInv' <=> SplitInv BY <2>1 DEF SplitInv
    <3> QED BY <3>1
  <2>3. ArgumentsAreWords'
    <3>1. ArgumentsAreWords' <=> ArgumentsAreWords BY <2>1 DEF ArgumentsAreWords, Word
    <3> QED BY <3>1
  <2> QED BY <2>2, <2>3
<1> QED BY <1>1, <1>2, <1>3, <1>4, <1>5, <1>6 DEF Next

(* What a command gets are the words of the line, as many as there is room *)
(* for, whatever line is typed and whatever the size of the table, in      *)
(* spite of the NULs that are written while it is read (WinMain).          *)
THEOREM CommandGetsWords == Spec => []ArgumentsAreWords
<1>1. Init => IInv /\ SplitInv /\ ArgumentsAreWords
  <2>1. Init => SplitInv /\ ArgumentsAreWords BY DEF Init, SplitInv, ArgumentsAreWords
  <2> QED BY <2>1, InitInv
<1>2. (IInv /\ SplitInv /\ ArgumentsAreWords) /\ [Next]_vars
        => (IInv /\ SplitInv /\ ArgumentsAreWords)'
  BY StepInv, WordsStep
<1> QED BY <1>1, <1>2, PTL DEF Spec
=============================================================================
