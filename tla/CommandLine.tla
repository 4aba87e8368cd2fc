----------------------------- MODULE CommandLine ----------------------------
(***************************************************************************)
(* pmwatch_parse_cli (src/pmwatch.c) as operators: the first two words,    *)
(* and one step of the scan for options.  args are argv without argv[0].   *)
(*                                                                         *)
(* A word is one of those below, a number, or a file name.  The long forms *)
(* of the options mean the same.                                           *)
(***************************************************************************)
EXTENDS Integers, Sequences

CONSTANTS
  Numeral,   \* what atof makes of the words that are numbers, in tenths
  TooLong    \* the words that do not fit in a file name

Option == {"-f", "-F", "-td", "-g", "-hi"}

ASSUME WordsOK ==
  /\ DOMAIN Numeral \subseteq STRING /\ \A w \in DOMAIN Numeral : Numeral[w] \in Int
  /\ "1" \in DOMAIN Numeral /\ Numeral["1"] = 10
  /\ DOMAIN Numeral \cap (Option \cup {"-l"}) = {}

\* The faults are planted in the definitions that follow them.
atof(w) == IF w \in DOMAIN Numeral THEN Numeral[w] ELSE 0
ToInt(tenths) == IF tenths >= 0 THEN tenths \div 10 ELSE -((-tenths) \div 10)

\* "1" and "-l" do without a second word when an option follows or nothing.
Alone(args) == Len(args) = 1 \/ args[2] \in Option
Indefinite(args) == args[1] = "1" /\ Alone(args)
Snapshot(args) == args[1] = "-l" /\ Alone(args)
Loops(args) == ToInt(atof(args[2]))

Refused_ZeroOnly(args) ==
  \/ Len(args) = 0
  \/ /\ ~Indefinite(args) /\ ~Snapshot(args)
     /\ Len(args) = 1 \/ atof(args[1]) <= 0
\* The help is printed, or the complaint about a value that is not positive.
Refused(args) ==
  \/ Len(args) = 0
  \/ /\ ~Indefinite(args) /\ ~Snapshot(args)
     /\ Len(args) = 1 \/ atof(args[1]) <= 0 \/ Loops(args) < 0

NoSettings ==
  [lifetime |-> FALSE, infinite |-> FALSE, loops |-> 0, health |-> FALSE,
   format |-> "one", delimiter |-> "semicolon", file |-> "stdout", mode |-> "w"]

FirstWords(args) ==
  IF Snapshot(args) THEN [NoSettings EXCEPT !.lifetime = TRUE]
  ELSE IF Indefinite(args) THEN [NoSettings EXCEPT !.infinite = TRUE]
  ELSE [NoSettings EXCEPT !.loops = Loops(args), !.infinite = Loops(args) = 0]

\* The scan looks at every word from the second on, file names included.
FirstOption_Third == 3
FirstOption == 2
NoFileName(args, itr) ==
  args[itr] \in {"-f", "-F"} /\ (itr = Len(args) \/ args[itr + 1] \in TooLong)

ScanOption(s, args, itr) ==
  CASE args[itr] = "-f" -> [s EXCEPT !.file = args[itr + 1]]
    [] args[itr] = "-F" -> [s EXCEPT !.file = args[itr + 1], !.mode = "a"]
    [] args[itr] = "-td" -> [s EXCEPT !.delimiter = "tab"]
    [] args[itr] = "-g" -> [s EXCEPT !.format = "two"]
    [] args[itr] = "-hi" -> [s EXCEPT !.health = TRUE]
    [] OTHER -> s

\* -g is dropped, with a warning, when it comes with -l.
Settled(s) == IF s.lifetime THEN [s EXCEPT !.format = "one"] ELSE s
=============================================================================
