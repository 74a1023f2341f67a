--------------------------- MODULE MCMainProgram ---------------------------
(***************************************************************************)
(* MainProgram for TLC: words on both sides of every limit.  A word that   *)
(* begins with digits is a number for stoi(), and inet_aton() takes a      *)
(* number for an address; a second -v is no number.                        *)
(***************************************************************************)
EXTENDS MainProgram

MCNumberOf ==
  [w \in {"-1", "0", "1", "2.0.0.1"} |->
     CASE w = "-1" -> -1 [] w = "0" -> 0 [] w = "1" -> 1 [] OTHER -> 2]

MCNumbers   == DOMAIN MCNumberOf
MCAddresses == {"0", "1", "2.0.0.1"}
MCWords     == MCNumbers \union {Flag}

(* What is wrong with a call does not depend on the log file: calls that   *)
(* are refused are explored with one that can be opened.                   *)
MCBounded == creatable \/ IsProperCall
=============================================================================
