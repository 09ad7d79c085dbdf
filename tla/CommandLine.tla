---------------------------- MODULE CommandLine ----------------------------
(***************************************************************************)
(* The loop of the shell (WinMain in console_main.c): it reads a line,     *)
(* splits it in place into arguments, and runs the command in the context  *)
(* the shell is in.  A path that the file system context is given is taken *)
(* apart by parsePath (utils.c).                                           *)
(*                                                                         *)
(* Arguments are positions in the line buffer; a word ends at the first    *)
(* NUL.  Which command a line stands for is left open: what it can do here *)
(* is to change the context.                                               *)
(***************************************************************************)
EXTENDS Integers, FiniteSets, SequencesExt

CONSTANTS
  Char,     \* the characters that can be typed
  Lines,    \* bound: the lines that are typed
  MaxChars, \* MAX_INPUT_CHARS
  MaxArgs   \* 512

NUL == ""

ASSUME CharAssumption == {" ", "\"", "\\", "/"} \subseteq Char /\ NUL \notin Char
ASSUME LinesAssumption == Lines \subseteq Seq(Char)
ASSUME ArgsAssumption == MaxArgs \in Nat \ {0} /\ MaxChars \in Nat

VARIABLES
  pc,       \* "prompt", "split", "run", "open"; "left" when the program ended
  context,  \* -1 or 2: "cmd", "fs"
  driver,   \* there is a driver instance (commands.c)
  line,     \* history: what was typed
  buf,      \* o_cmdbuf, with the NUL at the end of the line
  pos,      \* cmdbuf
  args,
  escape, str,
  stre,     \* the last character was a quote that counts
  strs,     \* the last argument starts with a quote
  toks,     \* what parsePath made of a path
  room      \* the entries it allocated for them

scanner == <<line, buf, pos, args, escape, str, stre, strs>>
path    == <<toks, room>>
vars    == <<pc, context, driver, scanner, path>>

Init ==
  /\ pc = "prompt" /\ context = "cmd" /\ driver = FALSE
  /\ line = <<>> /\ buf = <<NUL>> /\ pos = 1 /\ args = <<>>
  /\ escape = FALSE /\ str = FALSE /\ stre = FALSE /\ strs = FALSE
  /\ toks = <<>> /\ room = 0

-----------------------------------------------------------------------------
(* j is the first character from i on that is no blank; the NUL is none.   *)
SkipBlanks(b, i, j) == b[j] # " " /\ \A k \in i .. j - 1 : b[k] = " "

(* The line and the two characters that end it are read into the buffer,   *)
(* where the first of them becomes the NUL.                                *)
FitsBuffer(l) == Len(l) + 2 <= MaxChars

(* A line without words is asked for again.                                *)
ReadLine(l) ==
  /\ pc = "prompt" /\ FitsBuffer(l)
  /\ \E i \in DOMAIN l :
       /\ SkipBlanks(l, 1, i)
       /\ line' = l /\ buf' = Append(l, NUL) /\ pos' = i /\ args' = <<i>>
       /\ strs' = (l[i] = "\"")
  /\ escape' = FALSE /\ str' = FALSE /\ stre' = FALSE
  /\ pc' = "split"
  /\ UNCHANGED <<context, driver, path>>

(* A longer line fills the buffer and gets no NUL: what is read behind it  *)
(* is left open, and no more is said of the program.                       *)
LineFills(l) ==
  /\ pc = "prompt" /\ ~ FitsBuffer(l)
  /\ pc' = "left"
  /\ UNCHANGED <<context, driver, scanner, path>>

(* ReadConsole fails or reads nothing.                                     *)
NoInput ==
  /\ pc = "prompt"
  /\ pc' = "left"
  /\ UNCHANGED <<context, driver, scanner, path>>

Splitting(c) == pc = "split" /\ buf[pos] = c

(* The last argument is complete: it loses its quotes, or stays as it is.  *)
Quoted == strs /\ stre

ClosedArgs == IF Quoted THEN [args EXCEPT ![Len(args)] = @ + 1] ELSE args

\* mutant: one argument too many
HasRoomForOne == Len(args) <= MaxArgs

HasRoom == Len(args) < MaxArgs

(* A blank outside of quotes ends an argument, and the next one starts     *)
(* after the blanks, even if that is the end of the line.                  *)
Blank ==
  /\ Splitting(" ") /\ ~ str /\ HasRoom
  /\ \E next \in DOMAIN buf :
       /\ next > pos /\ SkipBlanks(buf, pos + 1, next)
       /\ args' = Append(ClosedArgs, next)
       /\ pos' = next
       /\ strs' = (buf[next] = "\"")
  /\ buf' = [buf EXCEPT ![IF Quoted THEN pos - 1 ELSE pos] = NUL]
  /\ stre' = FALSE /\ escape' = FALSE
  /\ UNCHANGED <<pc, context, driver, line, str, path>>

QuotedBlank ==
  /\ Splitting(" ")
  /\ str
  /\ pos' = pos + 1
  /\ stre' = FALSE /\ escape' = FALSE
  /\ UNCHANGED <<pc, context, driver, line, buf, args, str, strs, path>>

Backslash ==
  /\ Splitting("\\")
  /\ pos' = pos + 1
  /\ escape' = ~ escape /\ stre' = FALSE
  /\ UNCHANGED <<pc, context, driver, line, buf, args, str, strs, path>>

\* mutant: an escaped quote is not told apart
QuoteEscaped ==
  /\ Splitting("\"")
  /\ pos' = pos + 1
  /\ escape' = FALSE
  /\ str' = ~ str /\ stre' = TRUE
  /\ UNCHANGED <<pc, context, driver, line, buf, args, strs, path>>

Quote ==
  /\ Splitting("\"")
  /\ pos' = pos + 1
  /\ escape' = FALSE
  /\ IF escape THEN UNCHANGED <<str, stre>> ELSE str' = ~ str /\ stre' = TRUE
  /\ UNCHANGED <<pc, context, driver, line, buf, args, strs, path>>

OtherChar ==
  /\ \E c \in Char \ {" ", "\"", "\\"} : Splitting(c)
  /\ pos' = pos + 1
  /\ escape' = FALSE /\ stre' = FALSE
  /\ UNCHANGED <<pc, context, driver, line, buf, args, str, strs, path>>

(* The end of the line, or a blank after the last argument there is room   *)
(* for, which then goes on to the end of the line unless it is quoted.     *)
EndOfLine ==
  /\ \/ Splitting(NUL)
     \/ Splitting(" ") /\ ~ str /\ ~ HasRoom
  /\ buf' = IF Quoted THEN [buf EXCEPT ![pos - 1] = NUL] ELSE buf
  /\ args' = ClosedArgs
  /\ pc' = "run"
  /\ UNCHANGED <<context, driver, line, pos, escape, str, stre, strs, path>>

-----------------------------------------------------------------------------
(* The word at position i.                                                 *)
Word(i) == SubSeq(buf, i, (CHOOSE j \in i .. Len(buf) :
                             buf[j] = NUL /\ \A k \in i .. j - 1 : buf[k] # NUL) - 1)

(* parsePath: a slash ends a token, and what follows the last one is a     *)
(* token unless it is empty.                                               *)
AtSlash(t, c) ==
  IF c = "/" THEN [done |-> Append(t.done, t.open), open |-> <<>>]
  ELSE [t EXCEPT !.open = Append(@, c)]

Parts(p) ==
  LET part[k \in 0 .. Len(p)] ==
        IF k = 0 THEN [done |-> <<>>, open |-> <<>>] ELSE AtSlash(part[k - 1], p[k])
  IN part[Len(p)]

\* mutant: what follows the last slash is always a token
TokensWithLast(p) == Append(Parts(p).done, Parts(p).open)

Tokens(p) ==
  IF Parts(p).open = <<>> THEN Parts(p).done ELSE Append(Parts(p).done, Parts(p).open)

Slashes(p) == Cardinality({i \in DOMAIN p : p[i] = "/"})

(* cd or open with a path: the driver takes it apart.                      *)
ParsePath ==
  /\ pc = "run" /\ context = "fs" /\ Len(args) = 2
  /\ toks' = Tokens(Word(args[2]))
  /\ room' = Slashes(Word(args[2])) + 1
  /\ pc' = "open"
  /\ UNCHANGED <<context, driver, scanner>>

(* The buffers are cleared for the next line.                              *)
Clear ==
  /\ line' = <<>> /\ buf' = <<NUL>> /\ pos' = 1 /\ args' = <<>>
  /\ escape' = FALSE /\ str' = FALSE /\ stre' = FALSE /\ strs' = FALSE
  /\ toks' = <<>> /\ room' = 0

Done ==
  /\ pc \in {"run", "open"}
  /\ pc' = "prompt"
  /\ Clear
  /\ UNCHANGED <<context, driver>>

(* enter succeeds; exit, which in the other context leaves the program.    *)
EnterFS ==
  /\ pc = "run" /\ context = "cmd"
  /\ context' = "fs" /\ driver' = TRUE
  /\ pc' = "prompt"
  /\ Clear

ExitFS ==
  /\ pc = "run" /\ context = "fs"
  /\ context' = "cmd" /\ driver' = FALSE
  /\ pc' = "prompt"
  /\ Clear

Quit ==
  /\ pc = "run" /\ context = "cmd"
  /\ pc' = "left"
  /\ UNCHANGED <<context, driver, scanner, path>>

(* "attribute" alone, in the command context, compares an argument that    *)
(* there is not: an access violation.                                      *)
AttributeCrashes ==
  /\ pc = "run" /\ context = "cmd" /\ Len(args) = 1
  /\ pc' = "left"
  /\ UNCHANGED <<context, driver, scanner, path>>

Next ==
  \/ \E l \in Lines : ReadLine(l)
  \/ \E l \in Lines : LineFills(l)
  \/ NoInput
  \/ Blank
  \/ QuotedBlank
  \/ Backslash
  \/ Quote
  \/ OtherChar
  \/ EndOfLine
  \/ ParsePath
  \/ Done
  \/ EnterFS
  \/ ExitFS
  \/ Quit
  \/ AttributeCrashes

Spec == Init /\ [][Next]_vars

-----------------------------------------------------------------------------
(* Every variable has its type.  The scanner and the arguments stay within *)
(* the line, which keeps its NUL, the arguments within their table, and    *)
(* the shell is in the file system context exactly when it has a driver.   *)
TypeOK ==
  /\ pc \in {"prompt", "split", "run", "open", "left"}
  /\ context \in {"cmd", "fs"} /\ driver = (context = "fs")
  /\ line \in Seq(Char)
  /\ buf \in Seq(Char \cup {NUL}) /\ Len(buf) = Len(line) + 1 /\ buf[Len(buf)] = NUL
  /\ pos \in DOMAIN buf
  /\ args \in Seq(DOMAIN buf) /\ Len(args) <= MaxArgs
  /\ escape \in BOOLEAN /\ str \in BOOLEAN /\ stre \in BOOLEAN /\ strs \in BOOLEAN

(* A quote counts unless an odd number of backslashes is before it, and a  *)
(* blank ends a word unless an odd number of quotes is.                    *)
Escapes(l, i) == CHOOSE n \in 0 .. i - 1 :
  /\ \A k \in i - n .. i - 1 : l[k] = "\\"
  /\ i - n > 1 => l[i - n - 1] # "\\"

Counts(l, i) == i \in DOMAIN l /\ l[i] = "\"" /\ Escapes(l, i) % 2 = 0

Quotes(l, i) == Cardinality({j \in 1 .. i : Counts(l, j)})

Ends(l) == {i \in DOMAIN l : l[i] = " " /\ Quotes(l, i) % 2 = 0}

Starts(l) == {i \in 1 .. Len(l) + 1 :
                i \notin Ends(l) /\ IF i = 1 THEN TRUE ELSE i - 1 \in Ends(l)}

Before(l, start) == {j \in Starts(l) : j < start}

(* The k-th word and, if it is the last that has a place, the rest of the  *)
(* line; a word in quotes loses them and what follows.                     *)
Argument(l, k) ==
  LET start == CHOOSE i \in Starts(l) : Cardinality(Before(l, i)) = k - 1
      after == {i \in Ends(l) : i > start} \cup {Len(l) + 1}
      stop  == Min(after) - 1
  IN IF stop >= start /\ l[start] = "\"" /\ Counts(l, stop)
       THEN SubSeq(l, start + 1, stop - 1)
     ELSE IF k = MaxArgs THEN SubSeq(l, start, Len(l))
     ELSE SubSeq(l, start, stop)

(* What a command gets are the words of the line, as many as there is room *)
(* for, in spite of the NULs that are written into the line while it is    *)
(* read (WinMain).  A blank at the end of a line makes an empty word.      *)
ArgumentsAreWords ==
  pc = "run" =>
    /\ Len(args) = Min({MaxArgs, Cardinality(Starts(line))})
    /\ \A k \in DOMAIN args : Word(args[k]) = Argument(line, k)

(* The tokens are words without slashes that, with a slash after each,     *)
(* make up the path again, or the path and one more slash; there is room   *)
(* for them, and an empty path has none (parsePath).                       *)
TokensAreParts ==
  pc = "open" =>
    LET p      == Word(args[2])
        joined == FlattenSeq([i \in DOMAIN toks |-> Append(toks[i], "/")])
    IN /\ toks \in Seq(Seq(Char \ {"/"}))
       /\ joined = IF p = <<>> \/ Last(p) = "/" THEN p ELSE Append(p, "/")
       /\ Len(toks) <= room
=============================================================================
