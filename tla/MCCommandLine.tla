--------------------------- MODULE MCCommandLine ---------------------------
(***************************************************************************)
(* Small instance of CommandLine: every line of up to five characters that *)
(* matter to it, and some longer ones, the last of which fills the buffer. *)
(* With room for two arguments there is one too many in a line of five     *)
(* characters.                                                             *)
(***************************************************************************)
EXTENDS CommandLine

MCChar == {" ", "\"", "\\", "/", "a"}

MCLines ==
  SeqOf(MCChar, 5) \cup
    {<<"a", " ", "\"", "a", " ", "/", "\"", " ", "a">>,
     <<"a", " ", "/", "a", "/", "/", "a", "/">>,
     <<"\"", "a", "\\", "\"", " ", "a", "\"", " ", "\"", "\"">>,
     <<"\"", "a", " ", "a", " ", "a", "\"", " ", "\"", "a", "\"">>}
=============================================================================
