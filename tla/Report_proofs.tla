---------------------------- MODULE Report_proofs ---------------------------
(***************************************************************************)
(* Theorems about the command line, for every sequence of words, and about *)
(* the output file, for every machine, number of runs and end of a run.    *)
(***************************************************************************)
EXTENDS ReportColumns_proofs

(***************************************************************************)
(* The settings are what the first two words say and what the options      *)
(* before itr add: the state of the scan, whatever the words are.          *)
(***************************************************************************)
Seen(option) == \E k \in 2 .. itr - 1 : args[k] = option
NamesSeen == {k \in 2 .. itr - 1 : args[k] \in {"-f", "-F"}}
FromHead ==
  /\ settings.lifetime <=> Snapshot(args)
  /\ settings.infinite <=> ~Snapshot(args) /\ (Indefinite(args) \/ Loops(args) = 0)
  /\ ~Snapshot(args) /\ ~Indefinite(args) => settings.loops = Loops(args)
FromOptions ==
  /\ settings.health <=> Seen("-hi")
  /\ settings.delimiter = "tab" <=> Seen("-td")
  /\ settings.mode = "a" <=> Seen("-F")
  /\ NamesSeen = {} => settings.file = "stdout"
  /\ NamesSeen # {} =>
       \E k \in NamesSeen :
         k < Len(args) /\ settings.file = args[k + 1] /\ \A l \in NamesSeen : l <= k
FormatSeen ==
  settings.format = "two" <=> Seen("-g") /\ (at = "open" => ~settings.lifetime)
ScanInv ==
  /\ run \in Nat /\ args \in Seq(STRING) /\ itr \in Nat
  /\ at \in {"scan", "open"} =>
       /\ settings \in Settings
       /\ ~Refused(args) /\ itr \in 2 .. Len(args) + 1
       /\ FromHead /\ FromOptions /\ FormatSeen
  /\ at = "open" => itr = Len(args) + 1
  /\ at = "refused" =>
       Refused(args) \/ (itr \in 2 .. Len(args) /\ NoFileName(args, itr))

LEMMA NumbersAreInts ==
  /\ \A w \in STRING : atof(w) \in Int /\ ToInt(atof(w)) \in Int
  /\ \A w \in Option \cup {"-l"} : atof(w) = 0 /\ ToInt(atof(w)) = 0
<1>1. ASSUME NEW w PROVE atof(w) \in Int
  <2>1. CASE w \in DOMAIN Numeral
    BY <2>1, WordsOK DEF atof
  <2>2. CASE w \notin DOMAIN Numeral
    BY <2>2 DEF atof
  <2> QED
    BY <2>1, <2>2
<1>2. \A n \in Int : ToInt(n) \in Int
  BY DEF ToInt
<1>3. ToInt(0) = 0
  BY DEF ToInt
<1>4. \A w \in Option \cup {"-l"} : atof(w) = 0
  BY WordsOK DEF atof
<1> QED
  BY <1>1, <1>2, <1>3, <1>4

LEMMA LoopsType ==
  ASSUME NEW words \in Seq(STRING), ~Refused(words),
         ~Snapshot(words), ~Indefinite(words)
  PROVE  Loops(words) \in Nat
<1>1. Len(words) \in Nat /\ Len(words) > 1
  BY DEF Refused
<1>2. Loops(words) \in Int
  <2>1. words[2] \in STRING
    BY <1>1
  <2> QED
    BY <2>1, NumbersAreInts DEF Loops
<1>3. ~(Loops(words) < 0)
  BY DEF Refused
<1> QED
  BY <1>2, <1>3

LEMMA StartsScan ==
  ASSUME ScanInv, NEW words \in Seq(STRING), Invoke(words) PROVE ScanInv'
<1> USE DEF ScanInv, Invoke, Goto
<1>1. /\ run' \in Nat /\ args' \in Seq(STRING) /\ itr' = 2 /\ args' = words
  BY DEF FirstOption
<1>2. CASE Refused(words)
  BY <1>1, <1>2
<1>3. CASE ~Refused(words)
  <2>1. settings' \in Settings
    <3>1. settings' = FirstWords(words)
      BY <1>3
    <3>2. NoSettings \in Settings
      BY DEF NoSettings, Settings
    <3>3. ~Snapshot(words) /\ ~Indefinite(words) => Loops(words) \in Nat
      BY <1>3, LoopsType
    <3> QED
      BY <3>1, <3>2, <3>3 DEF FirstWords, Settings
  <2>2. FromHead'
    BY <1>1, <1>3, NumbersAreInts DEF FirstWords, NoSettings, FromHead, Snapshot, Indefinite
  <2>3. (FromOptions /\ FormatSeen)'
    <3>1. 2 .. itr' - 1 = {}
      BY <1>1
    <3>2. (\A o : ~Seen(o)') /\ NamesSeen' = {}
      BY <3>1 DEF Seen, NamesSeen
    <3> QED
      BY <1>3, <3>2 DEF FirstWords, NoSettings, FromOptions, FormatSeen
  <2>4. Len(words) \in Nat /\ Len(words) # 0
    BY <1>3 DEF Refused
  <2> QED
    BY <1>1, <1>3, <2>1, <2>2, <2>3, <2>4
<1> QED
  BY <1>2, <1>3

LEMMA ScansOn == ASSUME ScanInv, Scan PROVE ScanInv'
<1> USE DEF ScanInv, Scan, Goto
<1>1. CASE NoFileName(args, itr)
  BY <1>1
<1>2. CASE ~NoFileName(args, itr)
  <2>1. /\ settings' = ScanOption(settings, args, itr) /\ itr' = itr + 1
        /\ at = "scan" /\ at' = "scan" /\ UNCHANGED <<run, args>>
        /\ itr \in 2 .. Len(args) /\ args[itr] \in STRING
    BY <1>2
  <2>2. args[itr] \in {"-f", "-F"} => args[itr + 1] \in STRING
    BY <1>2, <2>1 DEF NoFileName
  <2>3. settings' \in Settings
    BY <2>1, <2>2 DEF ScanOption, Settings
  <2>4. FromHead'
    BY <2>1 DEF FromHead, ScanOption, Settings
  <2>5. \A k \in Int : k \in 2 .. itr' - 1 <=> k \in 2 .. itr - 1 \/ k = itr
    BY <2>1
  <2>6. NamesSeen' = IF args[itr] \in {"-f", "-F"} THEN NamesSeen \cup {itr} ELSE NamesSeen
    BY <2>1, <2>5 DEF NamesSeen
  <2>7. \A o : Seen(o)' <=> Seen(o) \/ args[itr] = o
    BY <2>1, <2>5 DEF Seen
  <2>8. FormatSeen'
    BY <2>1, <2>7 DEF FormatSeen, ScanOption, Settings
  <2>9. FromOptions'
    <3>1. /\ settings'.health <=> Seen("-hi")'
          /\ settings'.delimiter = "tab" <=> Seen("-td")'
          /\ settings'.mode = "a" <=> Seen("-F")'
      BY <2>1, <2>7 DEF FromOptions, ScanOption, Settings
    <3>2. CASE args[itr] \in {"-f", "-F"}
      <4>1. settings'.file = args[itr + 1] /\ itr \in NamesSeen' /\ itr < Len(args)
        BY <1>2, <2>1, <2>6, <3>2 DEF ScanOption, Settings, NoFileName
      <4>2. \A l \in NamesSeen' : l <= itr
        BY <2>1, <2>6, <3>2 DEF NamesSeen
      <4> QED
        BY <2>1, <3>1, <4>1, <4>2 DEF FromOptions
    <3>3. CASE args[itr] \notin {"-f", "-F"}
      <4>1. settings'.file = settings.file /\ NamesSeen' = NamesSeen
        BY <2>1, <2>6, <3>3 DEF ScanOption, Settings
      <4> QED
        BY <2>1, <3>1, <4>1 DEF FromOptions
    <3> QED
      BY <3>2, <3>3
  <2> QED
    BY <2>1, <2>3, <2>4, <2>8, <2>9
<1> QED
  BY <1>1, <1>2

LEMMA EndsScan == ASSUME ScanInv, Scanned PROVE ScanInv'
<1>1. /\ settings' = Settled(settings) /\ at = "scan" /\ at' = "open"
      /\ UNCHANGED <<run, args, itr>> /\ itr = Len(args) + 1 /\ settings \in Settings
  BY DEF Scanned, ScanInv, Goto
<1>2. settings' \in Settings /\ FromHead' /\ FromOptions' /\ FormatSeen'
  BY <1>1 DEF ScanInv, Settled, Settings, FromHead, FromOptions, FormatSeen, Seen, NamesSeen
<1> QED
  BY <1>1, <1>2 DEF ScanInv

LEMMA ScanStep == ScanInv /\ [Next]_vars => ScanInv'
<1> SUFFICES ASSUME ScanInv, [Next]_vars PROVE ScanInv'
  OBVIOUS
<1>1. ASSUME run < Len(Commands), NEW words \in Commands[run + 1], Invoke(words)
      PROVE  ScanInv'
  <2>1. words \in Seq(STRING)
    BY <1>1, ReportOK DEF ScanInv
  <2> QED
    BY <1>1, <2>1, StartsScan
<1>2. ASSUME UNCHANGED <<run, at, asked>> PROVE ScanInv'
  BY <1>2 DEF ScanInv, asked, FromHead, FromOptions, FormatSeen, Seen, NamesSeen
<1>3. ASSUME UNCHANGED <<run, itr>>, args' \in {args, <<>>},
             at' \notin {"scan", "open", "refused"}
      PROVE  ScanInv'
  <2>1. args \in Seq(STRING) /\ <<>> \in Seq(STRING)
    BY DEF ScanInv
  <2> QED
    BY <1>3, <2>1 DEF ScanInv
<1>4. ASSUME Leave \/ OpenFile \/ Initialize \/ PrintInfoHeader \/ PrintHeader
             \/ PrintLifetime \/ Baseline \/ PrintStamp \/ Stop
      PROVE  ScanInv'
  BY <1>2, <1>3, <1>4 DEF Leave, OpenFile, Initialize, PrintInfoHeader, PrintHeader,
     PrintLifetime, Baseline, PrintStamp, Stop, NextInterval, Goto, asked
<1>5. ASSUME ReadDimm \/ DeviceFails \/ AllRead \/ PrintPackage \/ EndRow
             \/ ReportSkips \/ Exit \/ Spill \/ Terminated \/ UNCHANGED vars
      PROVE  ScanInv'
  BY <1>2, <1>3, <1>5 DEF ReadDimm, DeviceFails, AllRead, PrintPackage, EndRow,
     ReportSkips, Exit, Spill, Terminated, vars, NextInterval, Goto, asked
<1> QED
  BY <1>1, <1>4, <1>5, ScansOn, EndsScan DEF Next

LEMMA Understood == ScanInv => AskedIsDone
<1> SUFFICES ASSUME ScanInv PROVE AskedIsDone
  OBVIOUS
<1> USE DEF ScanInv
<1>1. ASSUME at = "refused"
      PROVE  \/ Len(args) < 2
             \/ atof(args[1]) <= 0 /\ args[1] # "-l"
             \/ args[1] = "-l" /\ args[2] \notin Option
             \/ Loops(args) < 0
             \/ \E k \in FileAsked : k = Len(args) \/ args[k + 1] \in TooLong
  BY <1>1 DEF Refused, Snapshot, Alone, NoFileName, FileAsked
<1>2. ASSUME at = "open"
      PROVE  /\ \A o : Seen(o) <=> Given(o)
             /\ NamesSeen = FileAsked
  <2>1. itr - 1 = Len(args)
    BY <1>2
  <2> QED
    BY <2>1 DEF Seen, Given, NamesSeen, FileAsked
<1>3. ASSUME at = "open" PROVE settings.lifetime <=> args[1] = "-l"
  BY <1>3, NumbersAreInts DEF FromHead, Snapshot, Refused, Indefinite
<1>4. ASSUME at = "open"
      PROVE  /\ settings.health <=> Given("-hi")
             /\ settings.delimiter = "tab" <=> Given("-td")
             /\ settings.format = "two" <=> Given("-g") /\ args[1] # "-l"
             /\ settings.mode = "a" <=> Given("-F")
  BY <1>2, <1>3, <1>4 DEF FromOptions, FormatSeen
<1>5. ASSUME at = "open"
      PROVE  IF FileAsked = {} THEN settings.file = "stdout"
             ELSE \E k \in FileAsked :
                    k < Len(args) /\ settings.file = args[k + 1] /\ \A l \in FileAsked : l <= k
  BY <1>2, <1>5 DEF FromOptions
<1>6. ASSUME at = "open"
      PROVE  settings.infinite \/ settings.lifetime
               <=> args[1] = "-l" \/ Len(args) = 1 \/ Loops(args) = 0
  <2>1. CASE Snapshot(args)
    BY <1>3, <1>6, <2>1 DEF FromHead
  <2>2. CASE Indefinite(args)
    <3>1. Len(args) = 1 \/ Loops(args) = 0
      BY <2>2, NumbersAreInts DEF Indefinite, Alone, Loops
    <3> QED
      BY <1>6, <2>2, <3>1 DEF FromHead, Indefinite, Snapshot
  <2>3. CASE ~Snapshot(args) /\ ~Indefinite(args)
    BY <1>3, <1>6, <2>3 DEF FromHead, Refused
  <2> QED
    BY <2>1, <2>2, <2>3
<1>7. ASSUME at = "open", ~settings.infinite, ~settings.lifetime
      PROVE  settings.loops = Loops(args) /\ settings.loops > 0
  <2>1. ~Snapshot(args) /\ ~Indefinite(args) /\ Loops(args) # 0
    BY <1>7 DEF FromHead
  <2> QED
    BY <1>7, <2>1, LoopsType DEF FromHead
<1> QED
  BY <1>1, <1>3, <1>4, <1>5, <1>6, <1>7 DEF AskedIsDone

(***************************************************************************)
(* The tool does what its help says, for every command line and whatever   *)
(* numbers its words are: the scan misses no option and invents none.      *)
(***************************************************************************)
THEOREM CommandLineUnderstood == Spec => []AskedIsDone
<1>1. Init => ScanInv
  BY DEF Init, ScanInv
<1> QED
  BY <1>1, ScanStep, Understood, PTL DEF Spec

(***************************************************************************)
(* What has been printed is what is in the file and what is in the buffer. *)
(* A row begins with a stamp, and then grows by what j counts.             *)
(***************************************************************************)
printed == file \o buffer
Total == Len(printed)
InRow == at \in {"read", "packages", "end"}
Done == IF at = "read" /\ Form = "two" THEN 0 ELSE j

\* The buffer is the running process's, and a run that is cut is at its end.
ProcessInv ==
  /\ at # "shell" => run > 0
  /\ at \in {"refused", "scan", "open"} \/ args = <<>>
  /\ \A y \in DOMAIN buffer : buffer[y].run = run
  /\ at \in {"shell", "refused", "scan", "open", "init", "info"} => buffer = <<>>
  /\ run \in cut => at \in {"cleanup", "exit", "shell"}

\* No interval later than i has left a trace, and no row is begun twice.
OrderInv ==
  /\ \A y \in DOMAIN printed :
       printed[y].run <= run /\ (printed[y].run = run => printed[y].n <= i)
  /\ \A r \in kept : r[2] > 0 /\ (r[1] = run => r[2] <= i)

\* The row that is being printed.
RowInv ==
  InRow =>
    /\ i > 0 /\ <<run, i>> \notin kept
    /\ at = "read" => j <= count
    /\ at = "packages" => Form = "two" /\ j <= num_packages
    /\ at = "end" => j = Parts(Form)
    /\ Total > Done /\ printed[Total - Done] = Piece("stamp", i, 0)
    /\ \A p \in 1 .. Done : printed[Total - Done + p] = Piece("cells", i, p)
    /\ \A y \in DOMAIN printed :
         printed[y].run = run /\ printed[y].n = i => y >= Total - Done

\* The rows that are over.
WholeInv ==
  \A x \in DOMAIN printed : printed[x].kind = "end" => IsWhole(printed, x)
HasRow(r) ==
  \E x \in DOMAIN file :
    /\ printed[x].kind = "end" /\ <<printed[x].run, printed[x].n>> = r
    /\ \A y \in DOMAIN printed :
         <<printed[y].run, printed[y].n>> = r => y \in RowOf(printed, x)
KeptInv == \A r \in kept : HasRow(r)

\* The header above them, in a report that has rows.
HeaderUpTo(x, number, form) ==
  \E y \in 1 .. x : /\ printed[y].kind = "header"
                  /\ printed[y].run = number /\ printed[y].form = form
HeaderInv ==
  at \in {"baseline", "stamp"} \/ InRow =>
    ~settings.lifetime /\ HeaderUpTo(Total, run, Form)
HeadedInv ==
  \A x \in DOMAIN printed :
    printed[x].kind = "end" =>
      printed[x].form # "lifetime" /\ HeaderUpTo(x, printed[x].run, printed[x].form)

\* The rows that are not over: one goes on, or its run was cut in it.
CutInv ==
  \A x \in DOMAIN printed :
    printed[x].kind \in {"stamp", "cells"} =>
      \/ x < Total /\ Follows(printed[x], printed[x + 1])
      \/ /\ printed[x].run \in cut
         /\ \A y \in x + 1 .. Total : printed[y].run = printed[x].run => printed[y].kind = "skips"
      \/ x = Total /\ InRow /\ printed[x].run = run

PastInv == WholeInv /\ KeptInv /\ HeadedInv /\ CutInv
RowsInv == OrderInv /\ RowInv /\ HeaderInv /\ PastInv
FileInv == ProcessInv /\ RowsInv

LEMMA PieceFields ==
  ASSUME NEW kind, NEW n, NEW part
  PROVE  /\ Piece(kind, n, part).run = run /\ Piece(kind, n, part).form = Form
         /\ Piece(kind, n, part).kind = kind /\ Piece(kind, n, part).n = n
         /\ Piece(kind, n, part).part = part
  BY DEF Piece

LEMMA PieceType ==
  ASSUME TypeOK, run > 0, NEW n \in Nat, NEW part \in Nat,
         NEW kind \in {"info", "header", "snapshot", "stamp", "cells", "end", "skips"}
  PROVE  Piece(kind, n, part) \in Pieces
<1>1. Form \in {"one", "two", "health", "lifetime"}
  BY DEF Form, TypeOK, Settings
<1>2. run \in 1 .. Len(Commands)
  BY ReportOK DEF TypeOK
<1> QED
  BY <1>1, <1>2 DEF Piece, Pieces

\* What the actions do to what has been printed.
LEMMA PrintsOne ==
  ASSUME TypeOK, NEW piece \in Pieces, Prints(piece) \/ PrintsFlushed(piece)
  PROVE  /\ buffer' \in Seq(Pieces) /\ file' \in Seq(Pieces)
         /\ printed \in Seq(Pieces) /\ Len(file') >= Len(file)
         /\ printed' = Append(printed, piece)
         /\ \A y \in DOMAIN buffer' :
              buffer'[y] = piece \/ \E x \in DOMAIN buffer : buffer'[y] = buffer[x]
<1>1. buffer \in Seq(Pieces) /\ file \in Seq(Pieces)
  BY DEF TypeOK
<1>2. CASE Prints(piece)
  BY <1>1, <1>2 DEF Prints, printed
<1>3. CASE PrintsFlushed(piece)
  <2>1. file' = file \o Append(buffer, piece) /\ buffer' = <<>>
    BY <1>3 DEF PrintsFlushed
  <2>2. /\ file' \in Seq(Pieces) /\ printed \in Seq(Pieces) /\ Len(file') >= Len(file)
        /\ file' = Append(printed, piece)
    BY <1>1, <2>1 DEF printed
  <2>3. printed' = file'
    BY <2>1, <2>2 DEF printed
  <2> QED
    BY <2>1, <2>2, <2>3
<1> QED
  BY <1>2, <1>3

\* What is written and what is left are still what there was.
Splits(f, b, k) == f \o SubSeq(b, 1, k) \o SubSeq(b, k + 1, Len(b)) = f \o b

LEMMA SplitsBuffer ==
  ASSUME NEW S, NEW f \in Seq(S), NEW b \in Seq(S), NEW k \in 1 .. Len(b)
  PROVE  /\ SubSeq(b, 1, k) \in Seq(S) /\ SubSeq(b, k + 1, Len(b)) \in Seq(S)
         /\ Splits(f, b, k)
         /\ \A y \in DOMAIN SubSeq(b, k + 1, Len(b)) :
              y + k \in DOMAIN b /\ SubSeq(b, k + 1, Len(b))[y] = b[y + k]
<1> DEFINE c == SubSeq(b, 1, k)
           d == SubSeq(b, k + 1, Len(b))
<1>1. c \in Seq(S) /\ d \in Seq(S) /\ c \o d = b
  <2>1. c \o d = SubSeq(b, 1, Len(b))
    BY ConcatAdjacentSubSeq
  <2> QED
    BY <2>1, SubSeqFull
<1>2. \A y \in DOMAIN d : y + k \in DOMAIN b /\ d[y] = b[y + k]
  <2>1. \A y \in k + 1 .. Len(b) : b[y] \in S
    OBVIOUS
  <2>2. d \in Seq(S) /\ Len(d) = Len(b) - k
        /\ \A y \in 1 .. Len(b) - (k + 1) + 1 : d[y] = b[k + 1 + y - 1]
    BY <2>1, SubSeqProperties
  <2> HIDE DEF d
  <2> QED
    BY <2>2
<1> HIDE DEF c, d
<1>3. (f \o c) \o d = f \o (c \o d)
  <2>1. \A s, t, u \in Seq(S) : (s \o t) \o u = s \o (t \o u)
    BY SMTT(60)
  <2> QED
    BY <1>1, <2>1, Zenon
<1>4. (f \o c) \o d = f \o b
  BY <1>1, <1>3
<1> QED
  BY <1>1, <1>2, <1>4 DEF c, d, Splits

LEMMA SpillsSome ==
  ASSUME TypeOK, Spill \/ Exit
  PROVE  /\ buffer' \in Seq(Pieces) /\ file' \in Seq(Pieces)
         /\ Len(file') >= Len(file) /\ printed' = printed
         /\ \A y \in DOMAIN buffer' : \E x \in DOMAIN buffer : buffer'[y] = buffer[x]
<1>1. buffer \in Seq(Pieces) /\ file \in Seq(Pieces)
  BY DEF TypeOK
<1>2. CASE Exit
  <2>1. file' = file \o buffer /\ buffer' = <<>>
    BY <1>2 DEF Exit
  <2> QED
    BY <1>1, <2>1 DEF printed
<1>3. CASE Spill
  <2>1. PICK k \in 1 .. Len(buffer) :
          /\ file' = file \o SubSeq(buffer, 1, k)
          /\ buffer' = SubSeq(buffer, k + 1, Len(buffer))
    BY <1>3 DEF Spill
  <2>2. printed' = printed
    <3>1. Splits(file, buffer, k)
      BY <1>1, SplitsBuffer, Zenon
    <3> QED
      BY <2>1, <3>1, Zenon DEF printed, Splits
  <2>3. \A y \in DOMAIN buffer' : y + k \in DOMAIN buffer /\ buffer'[y] = buffer[y + k]
    BY <1>1, <2>1, SplitsBuffer
  <2>4. buffer' \in Seq(Pieces) /\ file' \in Seq(Pieces) /\ Len(file') >= Len(file)
    BY <1>1, <2>1, SplitsBuffer
  <2> QED
    BY <2>2, <2>3, <2>4
<1> QED
  BY <1>2, <1>3

(***************************************************************************)
(* Types.                                                                  *)
(***************************************************************************)
LEMMA NoSettingsType == NoSettings \in Settings
  BY DEF NoSettings, Settings

LEMMA SettingsType ==
  ASSUME TypeOK, ScanInv, Next PROVE settings' \in Settings
<1>1. ScanInv'
  BY ScanStep
<1>2. CASE at' \in {"scan", "open"}
  BY <1>1, <1>2 DEF ScanInv
<1>3. CASE at' \notin {"scan", "open"}
  <2>1. ASSUME NEW words \in Commands[run + 1], Invoke(words) PROVE settings' = NoSettings
    BY <1>3, <2>1 DEF Invoke, Goto
  <2>2. ASSUME Scan \/ Scanned PROVE settings' = settings
    BY <1>3, <2>2 DEF Scan, Scanned, Goto, TypeOK
  <2>3. ASSUME Leave \/ OpenFile \/ Initialize \/ PrintInfoHeader \/ PrintHeader
               \/ PrintLifetime \/ Baseline \/ PrintStamp \/ ReadDimm \/ DeviceFails
        PROVE  settings' = settings
    BY <2>3 DEF Leave, OpenFile, Initialize, PrintInfoHeader, PrintHeader, asked,
       PrintLifetime, Baseline, PrintStamp, ReadDimm, DeviceFails
  <2>4. ASSUME AllRead \/ PrintPackage \/ EndRow \/ ReportSkips \/ Exit \/ Spill
               \/ Stop \/ Terminated
        PROVE  settings' = settings
    BY <2>4 DEF AllRead, PrintPackage, EndRow, ReportSkips, Exit, Spill, Stop,
       Terminated, asked, vars
  <2> QED
    BY <2>1, <2>2, <2>3, <2>4, NoSettingsType DEF Next, TypeOK
<1> QED
  BY <1>2, <1>3

LEMMA TypeStep ==
  ASSUME TypeOK, ScanInv, ProcessInv, [Next]_vars PROVE TypeOK'
<1> USE DEF Goto, NextInterval, Skips, asked, loop, output, history
<1>1. CASE UNCHANGED vars
  BY <1>1 DEF vars, TypeOK, Pieces, Settings
<1> SUFFICES ASSUME Next PROVE TypeOK'
  BY <1>1
<1>2. settings' \in Settings
  BY SettingsType
<1>3. /\ run \in Nat /\ i + 1 \in Nat /\ j + 1 \in Nat
      /\ at # "shell" => run \in 1 .. Len(Commands)
      /\ Len(Commands) \in Nat
  BY ReportOK DEF TypeOK, ProcessInv
<1>4. ASSUME NEW words \in Commands[run + 1], run < Len(Commands), Invoke(words)
      PROVE  TypeOK'
  <2>1. words \in Seq(STRING) /\ itr' \in Nat /\ run' \in 0 .. Len(Commands)
    BY <1>3, <1>4, ReportOK DEF Invoke, FirstOption
  <2>2. args' = words /\ i' = 0 /\ j' = 0 /\ skipped' = FALSE /\ at' \in {"refused", "scan"}
    BY <1>4 DEF Invoke
  <2>3. UNCHANGED <<socket_id, buffer, file>>
    BY <1>4 DEF Invoke
  <2>4. cut' \subseteq 1 .. run' /\ kept' \subseteq (1 .. run') \X Nat
    BY <1>3, <1>4 DEF Invoke, TypeOK
  <2> QED
    BY <1>2, <2>1, <2>2, <2>3, <2>4 DEF TypeOK
<1>5. ASSUME UNCHANGED <<socket_id, run, cut, i, j, skipped>>, itr' \in {itr, itr + 1},
             args' \in {args, <<>>}, kept' \in {kept, {}}, file' \in {file, <<>>},
             buffer' = buffer, at' \in {"refused", "scan", "open", "init", "shell"},
             at' = "shell" => args' = <<>> /\ buffer = <<>>
      PROVE  TypeOK'
  <2>1. args' \in Seq(STRING) /\ itr' \in Nat /\ file' \in Seq(Pieces)
    <3>1. /\ <<>> \in Seq(STRING) /\ <<>> \in Seq(Pieces)
          /\ args \in Seq(STRING) /\ itr \in Nat /\ file \in Seq(Pieces)
      BY DEF TypeOK
    <3>2. args' \in Seq(STRING)
      BY <1>5, <3>1, Zenon
    <3>3. file' \in Seq(Pieces)
      BY <1>5, <3>1, Zenon
    <3>4. itr' \in Nat
      BY <1>5, <3>1
    <3> QED
      BY <3>2, <3>3, <3>4
  <2>2. cut' \subseteq 1 .. run' /\ kept' \subseteq (1 .. run') \X Nat
    BY <1>5 DEF TypeOK
  <2>3. at' = "shell" => args' = <<>> /\ buffer' = <<>>
    BY <1>5
  <2> QED
    BY <1>2, <1>5, <2>1, <2>2, <2>3 DEF TypeOK
<1>6. CASE Scan \/ Scanned \/ Leave \/ OpenFile
  <2>1. CASE Scan
    BY <1>5, <2>1 DEF Scan
  <2>2. CASE Scanned
    BY <1>5, <2>2 DEF Scanned
  <2>3. CASE Leave
    BY <1>5, <2>3 DEF Leave, ProcessInv
  <2>4. CASE OpenFile
    BY <1>5, <2>4 DEF OpenFile, ProcessInv
  <2> QED
    BY <1>6, <2>1, <2>2, <2>3, <2>4
<1>7. CASE Initialize \/ Baseline \/ AllRead
  <2>1. /\ UNCHANGED <<socket_id, run, args, itr, i, buffer, file, cut, kept>>
        /\ j' \in {j, 0} /\ skipped' \in {skipped, TRUE}
        /\ at' \in {"info", "exit", "stamp", "cleanup", "packages", "end"}
    BY <1>7 DEF Initialize, Baseline, AllRead
  <2>2. skipped \in BOOLEAN /\ j' \in Nat
    BY <2>1 DEF TypeOK
  <2>3. skipped' \in BOOLEAN
    BY <2>1, <2>2, Zenon
  <2> QED
    BY <1>2, <2>1, <2>2, <2>3 DEF TypeOK
<1>8. CASE DeviceFails
  BY <1>2, <1>3, <1>8 DEF TypeOK, DeviceFails
<1>9. CASE Stop
  BY <1>2, <1>3, <1>9 DEF TypeOK, Stop
<1>10. CASE Terminated
  BY <1>10 DEF Terminated, vars, TypeOK
<1>11. ASSUME NEW piece \in Pieces, Prints(piece) \/ PrintsFlushed(piece)
       PROVE  buffer' \in Seq(Pieces) /\ file' \in Seq(Pieces)
  BY <1>11, PrintsOne
<1>12. \A kind \in {"info", "header", "snapshot", "stamp", "cells", "end", "skips"} :
         \A n, part \in Nat : at # "shell" => Piece(kind, n, part) \in Pieces
  BY <1>3, PieceType
<1>13. CASE PrintInfoHeader \/ PrintHeader \/ ReportSkips
  BY <1>2, <1>3, <1>11, <1>12, <1>13 DEF TypeOK, PrintInfoHeader, PrintHeader, ReportSkips
<1>14. CASE PrintLifetime \/ PrintPackage
  BY <1>2, <1>3, <1>11, <1>12, <1>14 DEF TypeOK, PrintLifetime, PrintPackage
<1>15. CASE PrintStamp \/ ReadDimm
  <2>1. /\ UNCHANGED <<socket_id, run, args, itr, skipped, cut, kept>>
        /\ i' \in {i, i + 1} /\ j' \in {0, j + 1} /\ at' = "read"
    BY <1>15 DEF PrintStamp, ReadDimm
  <2>2. buffer' \in Seq(Pieces) /\ file' \in Seq(Pieces)
    <3>1. CASE PrintStamp
      BY <1>3, <1>11, <1>12, <3>1 DEF PrintStamp
    <3>2. CASE ReadDimm
      BY <1>3, <1>11, <1>12, <3>2 DEF ReadDimm, TypeOK
    <3> QED
      BY <1>15, <3>1, <3>2
  <2> QED
    BY <1>2, <1>3, <2>1, <2>2 DEF TypeOK
<1>16. CASE EndRow
  <2>1. <<run, i>> \in (1 .. run) \X Nat
    BY <1>3, <1>16 DEF EndRow, TypeOK
  <2> QED
    BY <1>2, <1>3, <1>11, <1>12, <1>16, <2>1 DEF TypeOK, EndRow
<1>17. CASE Spill \/ Exit
  <2>1. at # "shell" /\ (at = "exit" => args = <<>>)
    BY <1>17, EmptySeq DEF TypeOK, ProcessInv, Spill, Exit
  <2>2. buffer' \in Seq(Pieces) /\ file' \in Seq(Pieces)
    BY <1>17, SpillsSome
  <2>3. /\ UNCHANGED <<socket_id, run, args, itr, i, j, skipped, cut, kept>>
        /\ at' # at => at' = "shell" /\ buffer' = <<>> /\ at = "exit"
    BY <1>17 DEF Spill, Exit
  <2> QED
    BY <1>2, <1>3, <2>1, <2>2, <2>3 DEF TypeOK
<1> QED
  BY <1>4, <1>5, <1>6, <1>7, <1>8, <1>9, <1>10, <1>13, <1>14, <1>15, <1>16, <1>17 DEF Next

(***************************************************************************)
(* The process: its buffer, and where it can be when its run is cut.       *)
(***************************************************************************)
LEMMA ProcessStep ==
  ASSUME TypeOK, ScanInv, ProcessInv, [Next]_vars PROVE ProcessInv'
<1> USE DEF Goto, NextInterval, asked, loop, output, history
<1>1. CASE UNCHANGED vars
  BY <1>1 DEF vars, ProcessInv
<1> SUFFICES ASSUME Next PROVE ProcessInv'
  BY <1>1
<1>2. /\ run \in Nat /\ (at # "shell" => run > 0 /\ run \in 1 .. Len(Commands))
      /\ run \notin cut \/ at \in {"cleanup", "exit", "shell"}
      /\ run + 1 \notin cut
  BY ReportOK DEF TypeOK, ProcessInv
<1>3. ASSUME NEW words \in Commands[run + 1], Invoke(words) PROVE ProcessInv'
  <2>1. buffer' = <<>> /\ run' > 0 /\ run' \notin cut' /\ at' \in {"refused", "scan"}
    BY <1>2, <1>3 DEF Invoke, TypeOK
  <2> QED
    BY <2>1 DEF ProcessInv
<1>4. CASE Scan \/ Scanned
  BY <1>2, <1>4 DEF Scan, Scanned, ProcessInv
<1>5. CASE Leave \/ OpenFile
  BY <1>2, <1>5 DEF Leave, OpenFile, ProcessInv
<1>6. CASE Initialize \/ Baseline \/ AllRead
  BY <1>2, <1>6 DEF Initialize, Baseline, AllRead, ProcessInv
<1>7. CASE DeviceFails
  BY <1>2, <1>7 DEF DeviceFails, ProcessInv
<1>8. CASE Stop
  BY <1>2, <1>8 DEF Stop, ProcessInv
<1>9. CASE Terminated
  BY <1>9 DEF Terminated, vars, ProcessInv
<1>10. ASSUME NEW kind \in {"info", "header", "snapshot", "stamp", "cells", "end", "skips"},
              NEW n \in Nat, NEW part \in Nat, at # "shell",
              Prints(Piece(kind, n, part)) \/ PrintsFlushed(Piece(kind, n, part))
       PROVE  \A y \in DOMAIN buffer' : buffer'[y].run = run
  <2>1. Piece(kind, n, part) \in Pieces /\ Piece(kind, n, part).run = run
    BY <1>2, <1>10, PieceType DEF Piece
  <2> QED
    BY <1>10, <2>1, PrintsOne DEF ProcessInv
<1>11. i \in Nat /\ j \in Nat /\ i + 1 \in Nat /\ j + 1 \in Nat
  BY DEF TypeOK
<1>12. CASE PrintInfoHeader \/ PrintHeader \/ ReportSkips
  BY <1>2, <1>10, <1>12 DEF ProcessInv, PrintInfoHeader, PrintHeader, ReportSkips
<1>13. CASE PrintLifetime \/ PrintPackage
  BY <1>2, <1>10, <1>11, <1>13 DEF ProcessInv, PrintLifetime, PrintPackage
<1>14. CASE PrintStamp \/ ReadDimm
  BY <1>2, <1>10, <1>11, <1>14 DEF ProcessInv, PrintStamp, ReadDimm
<1>15. CASE EndRow
  BY <1>2, <1>10, <1>11, <1>15 DEF ProcessInv, EndRow
<1>16. CASE Spill \/ Exit
  <2>1. \A y \in DOMAIN buffer' : buffer'[y].run = run
    BY <1>16, SpillsSome DEF ProcessInv
  <2>2. buffer' = <<>> \/ (buffer # <<>> /\ at' = at)
    BY <1>16 DEF Spill, Exit
  <2>3. UNCHANGED <<run, args, cut>> /\ at' \in {at, "shell"} /\ (at' = "shell" => args = <<>>)
    BY <1>16 DEF Spill, Exit, ProcessInv, TypeOK
  <2> QED
    BY <1>2, <2>1, <2>2, <2>3 DEF ProcessInv
<1> QED
  BY <1>3, <1>4, <1>5, <1>6, <1>7, <1>8, <1>9, <1>12, <1>13, <1>14, <1>15, <1>16 DEF Next

(***************************************************************************)
(* The rows that are over, in the steps that print nothing and in those    *)
(* that print one piece more.                                              *)
(***************************************************************************)
Shape ==
  /\ printed \in Seq(Pieces) /\ Total \in Nat /\ DOMAIN printed = 1 .. Total
  /\ Len(file) \in 0 .. Total /\ DOMAIN file = 1 .. Len(file)
  /\ \A x \in 1 .. Len(file) : printed[x] = file[x]
  /\ \A x \in Len(file) + 1 .. Total :
       x - Len(file) \in DOMAIN buffer /\ printed[x] = buffer[x - Len(file)]

LEMMA ShapeNow == TypeOK => Shape
<1> SUFFICES ASSUME TypeOK PROVE Shape
  OBVIOUS
<1>1. file \in Seq(Pieces) /\ buffer \in Seq(Pieces)
  BY DEF TypeOK
<1> QED
  BY <1>1 DEF Shape, Total, printed

LEMMA PieceNumbers ==
  ASSUME TypeOK, NEW y \in DOMAIN printed
  PROVE  run \in Nat /\ printed[y].run \in Nat /\ printed[y].n \in Nat
<1>1. Len(Commands) \in Nat
  BY ReportOK
<1>2. printed[y] \in Pieces
  BY ShapeNow DEF Shape
<1> QED
  BY <1>1, <1>2 DEF Pieces, TypeOK

LEMMA ShapeNext == TypeOK' => Shape'
<1> SUFFICES ASSUME TypeOK' PROVE Shape'
  OBVIOUS
<1>1. file' \in Seq(Pieces) /\ buffer' \in Seq(Pieces)
  BY DEF TypeOK
<1> QED
  BY <1>1 DEF Shape, Total, printed

LEMMA WholeStays ==
  ASSUME socket_id \in Machines, NEW p, NEW q, NEW x \in Nat \ {0}, IsWhole(p, x),
         \A y \in 1 .. x : q[y] = p[y]
  PROVE  IsWhole(q, x)
<1> DEFINE size == Parts(p[x].form)
           stamp == x - size - 1
<1>1. size \in Nat /\ q[x] = p[x] /\ stamp = x - size - 1
  BY Sizes
<1>2. /\ stamp > 0 /\ p[stamp].kind = "stamp"
      /\ \A part \in 1 .. size : p[stamp + part].kind = "cells" /\ p[stamp + part].part = part
      /\ \A y \in stamp .. x : InOneRow(p[y], p[x])
  BY DEF IsWhole, RowOf
<1> HIDE DEF size, stamp
<1>3. stamp \in 1 .. x /\ \A part \in 1 .. size : stamp + part \in 1 .. x
  <2>1. x \in Int /\ size \in Int /\ size >= 0
    BY <1>1
  <2>2. stamp > 0 /\ stamp = x - size - 1
    BY <1>1, <1>2
  <2>3. stamp \in Int
    BY <2>1, <2>2
  <2>4. stamp >= 1 /\ stamp <= x - 1 /\ stamp + size = x - 1
    BY <2>1, <2>2, <2>3
  <2> QED
    BY <2>1, <2>3, <2>4
<1>4. /\ q[stamp] = p[stamp] /\ \A part \in 1 .. size : q[stamp + part] = p[stamp + part]
      /\ \A y \in stamp .. x : q[y] = p[y]
  BY <1>3
<1>5. /\ stamp > 0 /\ q[stamp].kind = "stamp"
      /\ \A part \in 1 .. size : q[stamp + part].kind = "cells" /\ q[stamp + part].part = part
      /\ \A y \in stamp .. x : InOneRow(q[y], q[x])
  BY <1>1, <1>2, <1>4
<1> QED
  BY <1>1, <1>5 DEF IsWhole, RowOf, size, stamp

LEMMA RowsStay ==
  ASSUME TypeOK, TypeOK', PastInv, UNCHANGED socket_id, kept' \subseteq kept,
         cut \subseteq cut', printed' = printed, Len(file) <= Len(file'),
         InRow => (run' = run /\ InRow') \/ run \in cut'
  PROVE  PastInv'
<1> USE DEF Parts, count, num_packages
<1>1. /\ Shape /\ Shape' /\ Total' = Total /\ DOMAIN printed' = DOMAIN printed
  BY ShapeNow, ShapeNext DEF Total
<1>2. WholeInv'
  BY <1>1 DEF PastInv, WholeInv, IsWhole, RowOf
<1>3. KeptInv'
  BY <1>1 DEF PastInv, KeptInv, HasRow, RowOf, Shape
<1>4. HeadedInv'
  BY <1>1 DEF PastInv, HeadedInv, HeaderUpTo
<1>5. CutInv'
  <2> SUFFICES ASSUME NEW x \in DOMAIN printed, printed[x].kind \in {"stamp", "cells"}
               PROVE
                 \/ x < Total' /\ Follows(printed[x], printed[x + 1])'
                 \/ /\ printed'[x].run \in cut'
                    /\ \A y \in x + 1 .. Total' :
                         printed'[y].run = printed'[x].run => printed'[y].kind = "skips"
                 \/ x = Total' /\ InRow' /\ printed'[x].run = run'
    BY <1>1 DEF CutInv
  <2>1. CASE x < Total /\ Follows(printed[x], printed[x + 1])
    BY <1>1, <2>1 DEF Follows
  <2>2. CASE /\ printed[x].run \in cut
             /\ \A y \in x + 1 .. Total :
                  printed[y].run = printed[x].run => printed[y].kind = "skips"
    BY <1>1, <2>2
  <2>3. CASE x = Total /\ InRow /\ printed[x].run = run
    BY <1>1, <2>3 DEF Shape
  <2> QED
    BY <2>1, <2>2, <2>3 DEF PastInv, CutInv
<1> QED
  BY <1>2, <1>3, <1>4, <1>5 DEF PastInv

OneMore(piece) ==
  /\ Shape /\ Shape' /\ Total' = Total + 1 /\ printed'[Total + 1] = piece
  /\ \A x \in 1 .. Total : printed'[x] = printed[x]
  /\ Len(file) <= Len(file')
  /\ socket_id \in Machines /\ UNCHANGED <<socket_id, run>>

LEMMA PrintsOneMore ==
  ASSUME TypeOK, TypeOK', UNCHANGED <<socket_id, run>>,
         NEW piece \in Pieces, Prints(piece) \/ PrintsFlushed(piece)
  PROVE  OneMore(piece)
<1>1. Shape /\ Shape' /\ socket_id \in Machines
  BY ShapeNow, ShapeNext DEF TypeOK
<1>2. printed' = Append(printed, piece) /\ Len(file) <= Len(file') /\ printed \in Seq(Pieces)
  BY PrintsOne
<1> QED
  BY <1>1, <1>2 DEF OneMore, Total

LEMMA WholeAdd ==
  ASSUME WholeInv, NEW piece, OneMore(piece),
         piece.kind = "end" => IsWhole(printed', Total + 1)
  PROVE  WholeInv'
<1> SUFFICES ASSUME NEW x \in DOMAIN printed', printed'[x].kind = "end"
             PROVE  IsWhole(printed', x)
  BY DEF WholeInv, IsWhole, RowOf, OneMore, Parts, count, num_packages
<1>1. CASE x = Total + 1
  BY <1>1 DEF OneMore
<1>2. CASE x \in 1 .. Total
  <2>1. IsWhole(printed, x)
    BY <1>2 DEF OneMore, Shape, WholeInv
  <2>2. socket_id \in Machines /\ x \in Nat \ {0} /\ \A y \in 1 .. x : printed'[y] = printed[y]
    BY <1>2 DEF OneMore, Shape
  <2> QED
    BY <2>1, <2>2, WholeStays
<1> QED
  BY <1>1, <1>2 DEF OneMore, Shape

LEMMA KeptAdd ==
  ASSUME NEW r, HasRow(r), NEW piece, OneMore(piece), <<piece.run, piece.n>> # r
  PROVE  HasRow(r)'
<1>1. PICK x \in DOMAIN file :
        /\ printed[x].kind = "end" /\ <<printed[x].run, printed[x].n>> = r
        /\ \A y \in DOMAIN printed :
             <<printed[y].run, printed[y].n>> = r => y \in RowOf(printed, x)
  BY DEF HasRow
<1>2. x \in DOMAIN file' /\ printed'[x] = printed[x] /\ RowOf(printed, x)' = RowOf(printed, x)
  BY <1>1 DEF OneMore, Shape, RowOf, Parts, count, num_packages
<1>3. ASSUME NEW y \in DOMAIN printed', <<printed'[y].run, printed'[y].n>> = r
      PROVE  y \in RowOf(printed, x)
  <2>1. printed'[Total + 1] = piece /\ y \in 1 .. Total + 1
    BY DEF OneMore, Shape
  <2>2. y # Total + 1
    BY <1>3, <2>1
  <2>3. y \in DOMAIN printed /\ printed'[y] = printed[y]
    BY <2>1, <2>2 DEF OneMore, Shape
  <2> QED
    BY <1>1, <1>3, <2>3
<1> QED
  BY <1>1, <1>2, <1>3 DEF HasRow

LEMMA HeadedAdd ==
  ASSUME HeadedInv, NEW piece, OneMore(piece),
         piece.kind = "end" =>
           piece.form # "lifetime" /\ HeaderUpTo(Total, piece.run, piece.form)
  PROVE  HeadedInv'
<1> SUFFICES ASSUME NEW x \in DOMAIN printed', printed'[x].kind = "end"
             PROVE  (printed[x].form # "lifetime"
                     /\ HeaderUpTo(x, printed[x].run, printed[x].form))'
  BY DEF HeadedInv
<1> USE DEF HeaderUpTo
<1>1. CASE x = Total + 1
  <2>1. printed'[x] = piece /\ \A y \in 1 .. Total : y \in 1 .. x /\ printed'[y] = printed[y]
    BY <1>1 DEF OneMore, Shape
  <2> QED
    BY <2>1
<1>2. CASE x \in 1 .. Total
  <2>1. printed'[x] = printed[x] /\ x \in DOMAIN printed /\ \A y \in 1 .. x : printed'[y] = printed[y]
    BY <1>2 DEF OneMore, Shape
  <2>2. printed[x].form # "lifetime" /\ HeaderUpTo(x, printed[x].run, printed[x].form)
    BY <2>1 DEF HeadedInv
  <2> QED
    BY <2>1, <2>2
<1> QED
  BY <1>1, <1>2 DEF OneMore, Shape

LEMMA CutAdd ==
  ASSUME CutInv, NEW piece, OneMore(piece), piece.run = run, UNCHANGED cut,
         InRow => Follows(printed[Total], piece),
         piece.kind \in {"stamp", "cells"} => InRow',
         run \in cut => piece.kind = "skips"
  PROVE  CutInv'
<1> SUFFICES ASSUME NEW x \in DOMAIN printed', printed'[x].kind \in {"stamp", "cells"}
             PROVE
               \/ x < Total' /\ Follows(printed[x], printed[x + 1])'
               \/ /\ printed'[x].run \in cut'
                  /\ \A y \in x + 1 .. Total' :
                       printed'[y].run = printed'[x].run => printed'[y].kind = "skips"
               \/ x = Total' /\ InRow' /\ printed'[x].run = run'
  BY DEF CutInv
<1> USE DEF OneMore, Parts, count, num_packages
<1>1. CASE x = Total + 1
  BY <1>1
<1>2. CASE x \in 1 .. Total
  <2>1. CASE x < Total /\ Follows(printed[x], printed[x + 1])
    BY <1>2, <2>1 DEF Shape, Follows
  <2>2. CASE /\ printed[x].run \in cut
             /\ \A y \in x + 1 .. Total :
                  printed[y].run = printed[x].run => printed[y].kind = "skips"
    BY <1>2, <2>2 DEF Shape
  <2>3. CASE x = Total /\ InRow /\ printed[x].run = run
    BY <1>2, <2>3 DEF Shape, Follows
  <2> QED
    BY <1>2, <2>1, <2>2, <2>3 DEF CutInv, Shape
<1> QED
  BY <1>1, <1>2 DEF Shape

LEMMA PastAdd ==
  ASSUME PastInv, NEW piece, OneMore(piece), piece.kind # "end", piece.run = run,
         UNCHANGED <<cut, kept>>, <<piece.run, piece.n>> \notin kept,
         InRow => Follows(printed[Total], piece),
         piece.kind \in {"stamp", "cells"} => InRow',
         run \in cut => piece.kind = "skips"
  PROVE  PastInv'
<1>1. WholeInv' /\ HeadedInv'
  BY WholeAdd, HeadedAdd DEF PastInv
<1>2. KeptInv'
  BY KeptAdd DEF PastInv, KeptInv
<1>3. CutInv'
  BY CutAdd DEF PastInv
<1> QED
  BY <1>1, <1>2, <1>3 DEF PastInv

(***************************************************************************)
(* The steps that print nothing.                                           *)
(***************************************************************************)
LEMMA Quietly ==
  ASSUME TypeOK, TypeOK', RowsInv, UNCHANGED <<socket_id, run, i>>, kept' \subseteq kept,
         cut \subseteq cut', printed' = printed, Len(file) <= Len(file'), RowInv',
         InRow => InRow' \/ run \in cut',
         at' \in {"baseline", "stamp"} \/ InRow' =>
           (at \in {"baseline", "stamp"} \/ InRow) /\ UNCHANGED settings
  PROVE  RowsInv'
<1>1. PastInv'
  BY RowsStay DEF RowsInv
<1>2. OrderInv'
  BY DEF RowsInv, OrderInv
<1>3. HeaderInv'
  BY DEF RowsInv, HeaderInv, HeaderUpTo, Total, Form
<1> QED
  BY <1>1, <1>2, <1>3 DEF RowsInv

LEMMA QuietSteps ==
  ASSUME TypeOK, TypeOK', RowsInv,
         \/ Scan \/ Scanned \/ Leave \/ Initialize \/ Baseline \/ Exit
         \/ DeviceFails \/ Terminated \/ UNCHANGED vars
  PROVE  RowsInv'
<1> USE DEF Goto, NextInterval, asked, loop, output, history
<1>1. CASE Exit
  <2>1. printed' = printed /\ Len(file) <= Len(file')
    BY <1>1, SpillsSome
  <2> QED
    BY <1>1, <2>1, Quietly DEF Exit, RowInv, InRow
<1>2. CASE Scan \/ Scanned \/ Leave \/ Initialize \/ Baseline \/ DeviceFails
  <2>1. /\ UNCHANGED <<socket_id, run, i, file, buffer, kept>> /\ cut \subseteq cut'
        /\ ~InRow' /\ at' # "baseline"
    BY <1>2 DEF Scan, Scanned, Leave, Initialize, Baseline, DeviceFails, InRow
  <2>2. at' = "stamp" => at = "baseline" /\ UNCHANGED settings
    BY <1>2 DEF Scan, Scanned, Leave, Initialize, Baseline, DeviceFails
  <2>3. InRow => run \in cut'
    BY <1>2 DEF Scan, Scanned, Leave, Initialize, Baseline, DeviceFails, InRow
  <2>4. printed' = printed /\ Len(file') = Len(file) /\ Len(file) \in Nat
    BY <2>1, ShapeNow DEF printed, Shape
  <2> QED
    BY <2>1, <2>2, <2>3, <2>4, Quietly DEF RowInv
<1>3. CASE Terminated \/ UNCHANGED vars
  <2>1. UNCHANGED vars
    BY <1>3 DEF Terminated
  <2>2. printed' = printed /\ Len(file') = Len(file) /\ Len(file) \in Nat
    BY <2>1, ShapeNow DEF printed, Shape, vars
  <2>3. RowInv' /\ InRow' = InRow
    BY <2>1, <2>2 DEF RowsInv, RowInv, InRow, vars, Total, Done, Form, Piece, count,
       num_packages, Parts
  <2> QED
    BY <2>1, <2>2, <2>3, Quietly DEF vars
<1> QED
  BY <1>1, <1>2, <1>3

LEMMA SpillStep ==
  ASSUME TypeOK, TypeOK', RowsInv, Spill PROVE RowsInv'
<1> USE DEF asked, loop, history
<1>1. printed' = printed /\ Len(file) <= Len(file')
  BY SpillsSome
<1>2. UNCHANGED <<socket_id, run, at, settings, i, j, cut, kept>>
  BY DEF Spill
<1>3. RowInv' /\ InRow' = InRow
  BY <1>1, <1>2 DEF RowsInv, RowInv, InRow, Total, Done, Form, Piece, count,
     num_packages, Parts
<1> QED
  BY <1>1, <1>2, <1>3, Quietly

LEMMA AllReadStep ==
  ASSUME TypeOK, TypeOK', RowsInv, AllRead PROVE RowsInv'
<1> USE DEF asked, output, history, Goto
<1>1. /\ UNCHANGED <<socket_id, run, settings, i, cut, kept, file, buffer>>
      /\ InRow /\ InRow' /\ at = "read" /\ j = count
      /\ IF Form = "two" THEN j' = 0 /\ at' = "packages" ELSE j' = j /\ at' = "end"
  BY DEF AllRead, InRow
<1>2. printed' = printed /\ Len(file') = Len(file) /\ Len(file) \in Nat
  BY <1>1, ShapeNow DEF printed, Shape
<1>3. Total' = Total /\ Done' = Done
  BY <1>1, <1>2 DEF Total, Done
<1>4. RowInv'
  BY <1>1, <1>2, <1>3, Sizes DEF RowsInv, RowInv, Form, Piece, count, num_packages, Parts, TypeOK
<1> QED
  BY <1>1, <1>2, <1>4, Quietly

(***************************************************************************)
(* A run begins, empties the file, or is killed.                           *)
(***************************************************************************)
LEMMA InvokeStep ==
  ASSUME TypeOK, TypeOK', RowsInv, NEW words, Invoke(words) PROVE RowsInv'
<1> USE DEF output, history, Goto
<1>1. /\ UNCHANGED <<socket_id, cut, kept, file, buffer>> /\ run' = run + 1 /\ i' = 0
      /\ ~InRow /\ ~InRow' /\ at' \notin {"baseline", "stamp"}
  BY DEF Invoke, InRow
<1>2. printed' = printed /\ Len(file') = Len(file) /\ Len(file) \in Nat
  BY <1>1, ShapeNow DEF printed, Shape
<1>3. PastInv'
  BY <1>1, <1>2, RowsStay DEF RowsInv
<1>4. OrderInv'
  <2>1. ASSUME NEW y \in DOMAIN printed PROVE printed[y].run < run'
    BY <1>1, <2>1, PieceNumbers DEF RowsInv, OrderInv
  <2>2. ASSUME NEW r \in kept PROVE r[2] > 0 /\ r[1] # run'
    <3>1. r \in (1 .. run) \X Nat /\ run \in Nat /\ run' = run + 1
      BY <1>1 DEF TypeOK
    <3>2. r[1] \in 1 .. run
      BY <3>1
    <3> QED
      BY <3>1, <3>2 DEF RowsInv, OrderInv
  <2>3. \A y \in DOMAIN printed : printed[y].run \in Int /\ run' \in Int
    BY <1>1, PieceNumbers
  <2>4. \A y \in DOMAIN printed : printed[y].run <= run' /\ printed[y].run # run'
    BY <2>1, <2>3
  <2>5. \A r \in kept : r[2] > 0 /\ r[1] # run'
    BY <2>2
  <2> QED
    BY <1>1, <1>2, <2>4, <2>5 DEF OrderInv
<1> QED
  BY <1>1, <1>3, <1>4 DEF RowsInv, RowInv, HeaderInv

LEMMA OpenStep ==
  ASSUME TypeOK, TypeOK', ScanInv, FileInv, OpenFile PROVE RowsInv'
<1> USE DEF Goto, loop
<1>1. /\ UNCHANGED <<socket_id, run, i, cut>> /\ buffer' = <<>> /\ buffer = <<>>
      /\ ~InRow /\ ~InRow' /\ at' \notin {"baseline", "stamp"} /\ kept' \in {kept, {}}
  BY DEF OpenFile, FileInv, ProcessInv, InRow
<1>2. file' = file \/ (file' = <<>> /\ kept' = {})
  <2>1. CASE file' # file
    <3>1. settings.mode = "w" /\ file' = <<>> /\ at = "open"
      BY <2>1 DEF OpenFile
    <3>2. \A k \in 2 .. Len(args) : args[k] # "-F"
      BY <3>1 DEF ScanInv, FromOptions, Seen
    <3>3. args[1] # "-F"
      <4>1. ~Refused(args) /\ Len(args) # 0
        BY <3>1 DEF ScanInv, Refused
      <4>2. atof("-F") = 0
        BY NumbersAreInts DEF Option
      <4> QED
        BY <4>1, <4>2 DEF Refused, Indefinite, Snapshot
    <3>4. \A k \in DOMAIN args : args[k] # "-F"
      BY <3>2, <3>3 DEF TypeOK
    <3> QED
      BY <3>1, <3>4, <2>1 DEF OpenFile
  <2> QED
    BY <2>1
<1>3. CASE file' = file
  <2>1. printed' = printed /\ Len(file') = Len(file) /\ Len(file) \in Nat
    BY <1>1, <1>3, ShapeNow DEF printed, Shape
  <2> QED
    BY <1>1, <2>1, Quietly DEF RowInv, FileInv
<1>4. CASE file' = <<>> /\ kept' = {}
  <2>1. DOMAIN printed' = {}
    BY <1>1, <1>4, ShapeNext DEF Shape, printed, Total
  <2> QED
    BY <1>1, <1>4, <2>1 DEF RowsInv, OrderInv, RowInv, HeaderInv, PastInv, WholeInv,
       KeptInv, HeadedInv, CutInv
<1> QED
  BY <1>2, <1>3, <1>4

\* The buffer is lost: what is left is the beginning of what was printed.
LEMMA StopStep ==
  ASSUME TypeOK, TypeOK', FileInv, Stop PROVE RowsInv'
<1>1. /\ UNCHANGED <<socket_id, run, i, file, kept>> /\ buffer' = <<>> /\ cut' = cut \cup {run}
      /\ ~InRow' /\ at' = "shell"
  BY DEF Stop, InRow, Goto, loop
<1>2. /\ Shape /\ printed' = file /\ Total' = Len(file) /\ DOMAIN printed' = 1 .. Len(file)
      /\ \A x \in 1 .. Len(file) : printed'[x] = printed[x] /\ x \in DOMAIN printed
  <2>1. Shape /\ printed' = file
    BY <1>1, ShapeNow DEF printed, TypeOK
  <2> QED
    BY <2>1 DEF Shape, Total
<1>3. OrderInv'
  BY <1>1, <1>2 DEF FileInv, RowsInv, OrderInv
<1>4. WholeInv'
  <2> SUFFICES ASSUME NEW x \in DOMAIN printed', printed'[x].kind = "end"
               PROVE  IsWhole(printed', x)
    BY <1>1 DEF WholeInv, IsWhole, RowOf, Parts, count, num_packages
  <2>1. IsWhole(printed, x)
    BY <1>2 DEF FileInv, RowsInv, PastInv, WholeInv
  <2>2. socket_id \in Machines /\ x \in Nat \ {0} /\ \A y \in 1 .. x : printed'[y] = printed[y]
    BY <1>2 DEF TypeOK, Shape
  <2> QED
    BY <2>1, <2>2, WholeStays
<1>5. KeptInv'
  <2> SUFFICES ASSUME NEW r \in kept PROVE HasRow(r)'
    BY <1>1 DEF KeptInv
  <2>1. PICK x \in DOMAIN file :
          /\ printed[x].kind = "end" /\ <<printed[x].run, printed[x].n>> = r
          /\ \A y \in DOMAIN printed :
               <<printed[y].run, printed[y].n>> = r => y \in RowOf(printed, x)
    BY DEF FileInv, RowsInv, PastInv, KeptInv, HasRow
  <2>2. /\ x \in DOMAIN file' /\ printed'[x] = printed[x]
        /\ RowOf(printed, x)' = RowOf(printed, x)
    BY <1>1, <1>2, <2>1 DEF Shape, RowOf, Parts, count, num_packages
  <2> QED
    BY <1>2, <2>1, <2>2 DEF HasRow
<1>6. HeadedInv'
  <2> SUFFICES ASSUME NEW x \in 1 .. Len(file), printed'[x].kind = "end"
               PROVE  (printed[x].form # "lifetime"
                       /\ HeaderUpTo(x, printed[x].run, printed[x].form))'
    BY <1>2 DEF HeadedInv
  <2>1. printed[x].form # "lifetime" /\ HeaderUpTo(x, printed[x].run, printed[x].form)
    BY <1>2 DEF FileInv, RowsInv, PastInv, HeadedInv
  <2>2. printed'[x] = printed[x] /\ \A y \in 1 .. x : printed'[y] = printed[y]
    BY <1>2 DEF Shape
  <2> QED
    BY <2>1, <2>2 DEF HeaderUpTo
<1>7. CutInv'
  <2> SUFFICES ASSUME NEW x \in 1 .. Len(file), printed[x].kind \in {"stamp", "cells"}
               PROVE
                 \/ x < Len(file) /\ Follows(printed[x], printed[x + 1])
                 \/ /\ printed[x].run \in cut'
                    /\ \A y \in x + 1 .. Len(file) :
                         printed[y].run = printed[x].run => printed[y].kind = "skips"
    BY <1>1, <1>2 DEF CutInv, Follows, Parts, count, num_packages, Shape
  <2>1. CASE x < Total /\ Follows(printed[x], printed[x + 1])
    <3>1. CASE x < Len(file)
      BY <2>1, <3>1
    <3>2. CASE x = Len(file)
      <4>1. printed[x + 1].run = run
        <5>1. x + 1 \in Len(file) + 1 .. Total
          BY <1>2, <2>1, <3>2 DEF Shape
        <5> QED
          BY <1>2, <5>1 DEF Shape, FileInv, ProcessInv
      <4>2. printed[x].run \in cut'
        BY <1>1, <2>1, <4>1 DEF Follows
      <4> QED
        BY <1>2, <3>2, <4>2 DEF Shape
    <3> QED
      BY <1>2, <3>1, <3>2 DEF Shape
  <2>2. CASE /\ printed[x].run \in cut
             /\ \A y \in x + 1 .. Total :
                  printed[y].run = printed[x].run => printed[y].kind = "skips"
    BY <1>1, <1>2, <2>2 DEF Shape
  <2>3. CASE x = Total /\ InRow /\ printed[x].run = run
    BY <1>1, <1>2, <2>3 DEF Shape
  <2> QED
    BY <1>2, <2>1, <2>2, <2>3 DEF FileInv, RowsInv, PastInv, CutInv
<1> QED
  BY <1>1, <1>3, <1>4, <1>5, <1>6, <1>7 DEF RowsInv, RowInv, HeaderInv, PastInv


(***************************************************************************)
(* The steps that print.                                                   *)
(***************************************************************************)
LEMMA OrderAdd ==
  ASSUME TypeOK, OrderInv, NEW piece, OneMore(piece), piece.run = run,
         i' \in Nat, i <= i', piece.n <= i',
         kept' = kept \/ (kept' = kept \cup {<<run, i>>} /\ i > 0)
  PROVE  OrderInv'
<1>1. run' = run /\ i \in Nat /\ run \in Nat
  BY DEF OneMore, TypeOK
<1>2. ASSUME NEW y \in DOMAIN printed'
      PROVE  printed'[y].run <= run' /\ (printed'[y].run = run' => printed'[y].n <= i')
  <2>1. CASE y = Total + 1
    BY <1>1, <2>1 DEF OneMore
  <2>2. CASE y \in 1 .. Total
    <3>1. y \in DOMAIN printed /\ printed'[y] = printed[y]
      BY <2>2 DEF OneMore, Shape
    <3>2. printed[y].run <= run /\ (printed[y].run = run => printed[y].n <= i)
      BY <3>1 DEF OrderInv
    <3>3. printed[y].n \in Nat
      BY <3>1, PieceNumbers
    <3> QED
      BY <1>1, <3>1, <3>2, <3>3
  <2> QED
    BY <2>1, <2>2 DEF OneMore, Shape
<1>3. ASSUME NEW r \in kept' PROVE r[2] > 0 /\ (r[1] = run' => r[2] <= i')
  <2>1. CASE r \in kept
    <3>1. r[2] \in Nat
      BY <2>1 DEF TypeOK
    <3> QED
      BY <1>1, <2>1, <3>1 DEF OrderInv
  <2>2. CASE r = <<run, i>> /\ i > 0
    BY <1>1, <2>2
  <2> QED
    BY <2>1, <2>2
<1> QED
  BY <1>2, <1>3 DEF OrderInv

LEMMA HeaderStays ==
  ASSUME HeaderUpTo(Total, run, Form), NEW piece, OneMore(piece), UNCHANGED settings
  PROVE  HeaderUpTo(Total, run, Form)'
<1>1. PICK y \in 1 .. Total : /\ printed[y].kind = "header"
                            /\ printed[y].run = run /\ printed[y].form = Form
  BY DEF HeaderUpTo
<1>2. y \in 1 .. Total' /\ printed'[y] = printed[y] /\ Form' = Form /\ run' = run
  BY <1>1 DEF OneMore, Shape, Form
<1> QED
  BY <1>1, <1>2 DEF HeaderUpTo

\* Outside of a row.
LEMMA PrintsBetween ==
  ASSUME TypeOK, FileInv, NEW piece, OneMore(piece), UNCHANGED <<i, cut, kept>>,
         piece.run = run, piece.n = 0, piece.kind \in {"info", "header", "snapshot", "skips"},
         run \in cut => piece.kind = "skips",
         ~InRow, ~InRow', at' # "stamp",
         at' = "baseline" => ~settings'.lifetime /\ piece.kind = "header" /\ piece.form = Form'
  PROVE  RowsInv'
<1>1. OrderInv'
  BY OrderAdd DEF FileInv, RowsInv, TypeOK
<1>2. PastInv'
  <2>1. <<piece.run, piece.n>> \notin kept
    BY DEF FileInv, RowsInv, OrderInv
  <2> QED
    BY <2>1, PastAdd DEF FileInv, RowsInv
<1>3. HeaderInv'
  BY DEF HeaderInv, HeaderUpTo, OneMore, Shape
<1> QED
  BY <1>1, <1>2, <1>3 DEF RowsInv, RowInv

LEMMA HeaderStep ==
  ASSUME TypeOK, TypeOK', FileInv, PrintInfoHeader \/ PrintHeader \/ PrintLifetime \/ ReportSkips
  PROVE  RowsInv'
<1> USE DEF asked, loop, history, Goto, InRow
<1>1. /\ UNCHANGED <<socket_id, run, settings, i, cut, kept>> /\ ~InRow /\ ~InRow'
      /\ at' # "stamp" /\ Form' = Form /\ run > 0
  BY DEF PrintInfoHeader, PrintHeader, PrintLifetime, ReportSkips, Form, FileInv, ProcessInv
<1>2. ASSUME NEW kind \in {"info", "header", "snapshot", "skips"}, NEW part \in Nat,
             Prints(Piece(kind, 0, part)) \/ PrintsFlushed(Piece(kind, 0, part)),
             run \in cut => kind = "skips",
             at' = "baseline" => ~settings.lifetime /\ kind = "header"
      PROVE  RowsInv'
  <2>1. Piece(kind, 0, part) \in Pieces
    BY <1>1, PieceType
  <2>2. OneMore(Piece(kind, 0, part))
    BY <1>1, <1>2, <2>1, PrintsOneMore
  <2>3. /\ Piece(kind, 0, part).run = run /\ Piece(kind, 0, part).n = 0
        /\ Piece(kind, 0, part).kind = kind /\ Piece(kind, 0, part).form = Form
    BY DEF Piece
  <2> HIDE DEF InRow
  <2> QED
    BY <1>1, <1>2, <2>2, <2>3, PrintsBetween
<1>3. ASSUME UNCHANGED output, at' # "baseline" PROVE RowsInv'
  <2>1. printed' = printed /\ Len(file') = Len(file) /\ Len(file) \in Nat
    BY <1>3, ShapeNow DEF printed, Shape, output
  <2> QED
    BY <1>1, <1>3, <2>1, Quietly DEF FileInv, RowInv
<1>4. CASE PrintInfoHeader
  BY <1>2, <1>4 DEF PrintInfoHeader, FileInv, ProcessInv
<1>5. CASE PrintHeader
  BY <1>2, <1>5 DEF PrintHeader, FileInv, ProcessInv
<1>6. CASE PrintLifetime
  BY <1>2, <1>3, <1>6 DEF PrintLifetime, FileInv, ProcessInv, TypeOK
<1>7. CASE ReportSkips
  BY <1>2, <1>3, <1>7 DEF ReportSkips
<1> QED
  BY <1>4, <1>5, <1>6, <1>7

LEMMA StampStep ==
  ASSUME TypeOK, TypeOK', FileInv, PrintStamp PROVE RowsInv'
<1> DEFINE piece == Piece("stamp", i + 1, 0)
<1>1. /\ UNCHANGED <<socket_id, run, settings, cut, kept>> /\ i' = i + 1 /\ j' = 0 /\ i \in Nat
      /\ ~InRow /\ at = "stamp" /\ at' = "read" /\ run > 0 /\ Prints(piece) /\ run \notin cut
  BY DEF PrintStamp, FileInv, ProcessInv, TypeOK, Goto, InRow, asked, history
<1>2. piece \in Pieces /\ OneMore(piece)
  <2>1. piece \in Pieces
    BY <1>1, PieceType
  <2> QED
    BY <1>1, <2>1, PrintsOneMore
<1>3. /\ piece.run = run /\ piece.n = i + 1 /\ piece.kind = "stamp"
      /\ piece = Piece("stamp", i, 0)'
  BY <1>1 DEF Piece, Form
<1> HIDE DEF piece
<1>4. InRow' /\ Done' = 0
  BY <1>1 DEF InRow, Done
<1>5. <<run, i + 1>> \notin kept
  BY <1>1 DEF FileInv, RowsInv, OrderInv
<1>6. OrderInv'
  BY <1>1, <1>2, <1>3, OrderAdd DEF FileInv, RowsInv
<1>7. PastInv'
  BY <1>1, <1>2, <1>3, <1>4, <1>5, PastAdd DEF FileInv, RowsInv
<1>8. HeaderInv'
  BY <1>1, <1>2, HeaderStays DEF FileInv, RowsInv, HeaderInv
<1>9. RowInv'
  <2>1. Total' = Total + 1 /\ printed'[Total + 1] = piece /\ Total \in Nat
        /\ DOMAIN printed' = 1 .. Total + 1
    BY <1>2 DEF OneMore, Shape
  <2>2. ASSUME NEW y \in 1 .. Total, printed'[y].run = run PROVE printed'[y].n # i + 1
    <3>1. y \in DOMAIN printed /\ printed'[y] = printed[y]
      BY <1>2 DEF OneMore, Shape
    <3>2. printed[y].n <= i /\ printed[y].n \in Nat
      BY <2>2, <3>1, PieceNumbers DEF FileInv, RowsInv, OrderInv
    <3> QED
      BY <1>1, <3>1, <3>2
  <2>3. \A y \in DOMAIN printed' :
          printed'[y].run = run' /\ printed'[y].n = i' => y >= Total' - Done'
    BY <1>1, <1>4, <2>1, <2>2
  <2>4. i' > 0 /\ <<run, i>>' \notin kept' /\ j' <= count'
    BY <1>1, <1>5, Sizes DEF TypeOK, count
  <2>5. Total' > Done' /\ printed'[Total' - Done'] = Piece("stamp", i, 0)'
    BY <1>3, <1>4, <2>1
  <2>6. 1 .. Done' = {} /\ at' = "read"
    BY <1>1, <1>4
  <2> QED
    BY <2>3, <2>4, <2>5, <2>6 DEF RowInv
<1> QED
  BY <1>6, <1>7, <1>8, <1>9 DEF RowsInv

LEMMA LastPiece ==
  ASSUME TypeOK, RowInv, InRow
  PROVE  /\ Done \in Nat /\ Total > Done /\ Total \in Nat
         /\ printed[Total].run = run /\ printed[Total].n = i
         /\ printed[Total].form = Form /\ printed[Total].part = Done
<1>1. Done \in Nat /\ Total > Done /\ Total \in Nat
  BY ShapeNow DEF Done, TypeOK, RowInv, Shape
<1>2. CASE Done = 0
  BY <1>1, <1>2 DEF RowInv, Piece
<1>3. CASE Done > 0
  <2>1. Total - Done + Done = Total /\ Done \in 1 .. Done
    BY <1>1, <1>3
  <2>2. printed[Total] = Piece("cells", i, Done)
    BY <2>1 DEF RowInv
  <2> QED
    BY <1>1, <2>2 DEF Piece
<1> QED
  BY <1>1, <1>2, <1>3

LEMMA CellsStep ==
  ASSUME TypeOK, TypeOK', FileInv, InRow, InRow', Done' = j + 1, Done = j,
         UNCHANGED <<socket_id, run, at, settings, i, cut, kept>>, j' = j + 1,
         j < Parts(Form), at \in {"read", "packages"},
         at = "read" => j < count, at = "packages" => j < num_packages,
         Prints(Piece("cells", i, j + 1))
  PROVE  RowsInv'
<1> DEFINE piece == Piece("cells", i, j + 1)
<1>1. i \in Nat /\ j \in Nat /\ j + 1 \in Nat /\ run > 0 /\ run \notin cut
  BY DEF FileInv, ProcessInv, TypeOK, InRow
<1>2. piece \in Pieces /\ OneMore(piece)
  <2>1. piece \in Pieces
    BY <1>1, PieceType
  <2> QED
    BY <2>1, PrintsOneMore
<1>3. /\ piece.run = run /\ piece.n = i /\ piece.kind = "cells" /\ piece.part = j + 1
      /\ piece = Piece("cells", i, j + 1)
  BY DEF Piece
<1> HIDE DEF piece
<1>4. <<run, i>> \notin kept /\ i > 0
  BY DEF FileInv, RowsInv, RowInv
<1>5. Follows(printed[Total], piece)
  BY <1>3, LastPiece DEF Follows, FileInv, RowsInv
<1>6. OrderInv'
  BY <1>1, <1>2, <1>3, OrderAdd DEF FileInv, RowsInv
<1>7. PastInv'
  BY <1>1, <1>2, <1>3, <1>4, <1>5, PastAdd DEF FileInv, RowsInv
<1>8. HeaderInv'
  BY <1>2, HeaderStays DEF FileInv, RowsInv, HeaderInv
<1>9. RowInv'
  <2>1. /\ Total' = Total + 1 /\ printed'[Total + 1] = piece /\ Total \in Nat /\ Total > j
        /\ DOMAIN printed = 1 .. Total /\ DOMAIN printed' = 1 .. Total + 1
        /\ \A y \in 1 .. Total : printed'[y] = printed[y]
    BY <1>2, LastPiece DEF OneMore, Shape, FileInv, RowsInv
  <2>2. Total' - Done' = Total - j /\ Total' > Done'
    BY <1>1, <2>1
  <2>3. Piece("stamp", i, 0)' = Piece("stamp", i, 0)
        /\ \A p : Piece("cells", i, p)' = Piece("cells", i, p)
    BY DEF Piece, Form
  <2>4. printed'[Total' - Done'] = Piece("stamp", i, 0)'
    <3>1. Total - j \in 1 .. Total
      BY <1>1, <2>1
    <3> QED
      BY <2>1, <2>2, <2>3, <3>1 DEF FileInv, RowsInv, RowInv
  <2>5. ASSUME NEW p \in 1 .. Done'
        PROVE  printed'[Total' - Done' + p] = Piece("cells", i, p)'
    <3>1. CASE p = j + 1
      BY <1>1, <1>3, <2>1, <2>2, <2>3, <3>1
    <3>2. CASE p \in 1 .. j
      <4>1. Total - j + p \in 1 .. Total
        BY <1>1, <2>1, <3>2
      <4>2. printed[Total - j + p] = Piece("cells", i, p)
        BY <3>2 DEF FileInv, RowsInv, RowInv
      <4> QED
        BY <2>1, <2>2, <2>3, <4>1, <4>2
    <3> QED
      BY <1>1, <3>1, <3>2
  <2>6. ASSUME NEW y \in DOMAIN printed', printed'[y].run = run, printed'[y].n = i
        PROVE  y >= Total' - Done'
    <3>1. CASE y = Total + 1
      BY <1>1, <2>1, <2>2, <3>1
    <3>2. CASE y \in 1 .. Total
      BY <2>1, <2>2, <2>6, <3>2 DEF FileInv, RowsInv, RowInv
    <3> QED
      BY <2>1, <3>1, <3>2
  <2>7. /\ at' = "read" => j' <= count'
        /\ at' = "packages" => j' <= num_packages'
        /\ Form' = Form /\ at' # "end"
    BY <1>1, Sizes DEF TypeOK, count, num_packages, Form
  <2>8. at' = "packages" => Form' = "two"
    BY <2>7 DEF FileInv, RowsInv, RowInv
  <2>9. /\ i' > 0 /\ <<run, i>>' \notin kept'
        /\ \A y \in DOMAIN printed' :
             printed'[y].run = run' /\ printed'[y].n = i' => y >= Total' - Done'
    BY <1>4, <2>6
  <2> QED
    BY <2>2, <2>4, <2>5, <2>7, <2>8, <2>9 DEF RowInv
<1> QED
  BY <1>6, <1>7, <1>8, <1>9 DEF RowsInv

LEMMA ReadStep ==
  ASSUME TypeOK, TypeOK', FileInv, ReadDimm PROVE RowsInv'
<1> USE DEF asked, history
<1>1. /\ UNCHANGED <<socket_id, run, at, settings, i, cut, kept>> /\ at = "read"
      /\ j < count /\ j' = j + 1 /\ InRow /\ InRow' /\ Form' = Form
  BY DEF ReadDimm, InRow, Form
<1>2. CASE Form = "two"
  <2>1. /\ printed' = printed /\ Len(file') = Len(file) /\ Len(file) \in Nat
        /\ Done = 0 /\ Done' = 0 /\ Total' = Total
    BY <1>1, <1>2, ShapeNow DEF ReadDimm, printed, Shape, output, Done, Total
  <2>2. j' <= count'
    BY <1>1, Sizes DEF TypeOK, count
  <2>3. RowInv'
    BY <1>1, <2>1, <2>2 DEF FileInv, RowsInv, RowInv, Piece, Form
  <2> QED
    BY <1>1, <2>1, <2>3, Quietly DEF FileInv
<1>3. CASE Form # "two"
  BY <1>1, <1>3, CellsStep DEF ReadDimm, Done, Parts
<1> QED
  BY <1>2, <1>3

LEMMA PackageStep ==
  ASSUME TypeOK, TypeOK', FileInv, PrintPackage PROVE RowsInv'
<1> USE DEF asked, history, Goto
<1>1. /\ UNCHANGED <<socket_id, run, settings, i, cut, kept>> /\ at = "packages"
      /\ InRow /\ InRow' /\ Form' = Form /\ Form = "two" /\ j <= num_packages
  BY DEF PrintPackage, InRow, Form, FileInv, RowsInv, RowInv
<1>2. CASE j < num_packages
  BY <1>1, <1>2, CellsStep DEF PrintPackage, Done, Parts
<1>3. CASE ~(j < num_packages)
  <2>1. /\ printed' = printed /\ Len(file') = Len(file) /\ Len(file) \in Nat
        /\ at' = "end" /\ j' = j /\ Done' = Done /\ Total' = Total
    BY <1>1, <1>3, ShapeNow DEF PrintPackage, printed, Shape, output, Done, Total
  <2>2. j' = Parts(Form)'
    BY <1>1, <1>3, <2>1, Sizes DEF TypeOK, Parts, num_packages, count
  <2>3. RowInv'
    BY <1>1, <2>1, <2>2 DEF FileInv, RowsInv, RowInv, Piece, Form
  <2> QED
    BY <1>1, <2>1, <2>3, Quietly DEF FileInv
<1> QED
  BY <1>2, <1>3

LEMMA EndStep ==
  ASSUME TypeOK, TypeOK', FileInv, EndRow PROVE RowsInv'
<1> DEFINE piece == Piece("end", i, 0)
<1>1. /\ UNCHANGED <<socket_id, run, settings, i, cut>> /\ kept' = kept \cup {<<run, i>>}
      /\ at = "end" /\ at' \in {"stamp", "cleanup"} /\ InRow /\ ~InRow' /\ i \in Nat
      /\ PrintsFlushed(piece) /\ run > 0 /\ run \notin cut
  BY DEF EndRow, FileInv, ProcessInv, TypeOK, NextInterval, Goto, InRow, asked
<1>2. piece \in Pieces /\ OneMore(piece) /\ Len(file') = Total'
  <2>1. piece \in Pieces
    BY <1>1, PieceType
  <2>2. OneMore(piece)
    BY <1>1, <2>1, PrintsOneMore
  <2>3. printed' = file'
    BY <1>1 DEF PrintsFlushed, printed, TypeOK
  <2> QED
    BY <2>1, <2>2, <2>3 DEF Total
<1>3. /\ piece.run = run /\ piece.n = i /\ piece.kind = "end" /\ piece.form = Form
      /\ piece.part = 0 /\ piece = Piece("end", i, 0)
  BY DEF Piece
<1> HIDE DEF piece
<1>4. /\ i > 0 /\ <<run, i>> \notin kept /\ Done = j /\ j = Parts(Form)
      /\ Parts(Form) \in Nat \ {0}
      /\ Total > j /\ printed[Total - j] = Piece("stamp", i, 0)
      /\ \A p \in 1 .. j : printed[Total - j + p] = Piece("cells", i, p)
      /\ \A y \in DOMAIN printed :
           printed[y].run = run /\ printed[y].n = i => y >= Total - j
  BY <1>1, Sizes DEF FileInv, RowsInv, RowInv, Done, TypeOK
<1>5. /\ Total' = Total + 1 /\ printed'[Total + 1] = piece /\ Total \in Nat
      /\ DOMAIN printed = 1 .. Total /\ DOMAIN printed' = 1 .. Total + 1
      /\ DOMAIN file' = 1 .. Total + 1
      /\ \A y \in 1 .. Total : printed'[y] = printed[y]
  BY <1>2 DEF OneMore, Shape
<1>6. OrderInv'
  BY <1>1, <1>2, <1>3, <1>4, OrderAdd DEF FileInv, RowsInv
<1>7. WholeInv'
  <2>2. Total - j \in 1 .. Total /\ \A p \in 1 .. j : Total - j + p \in 1 .. Total
    BY <1>4, <1>5
  <2>3. printed'[Total - j] = Piece("stamp", i, 0)
    BY <1>4, <1>5, <2>2
  <2>4. ASSUME NEW p \in 1 .. j PROVE printed'[Total - j + p] = Piece("cells", i, p)
    BY <1>4, <1>5, <2>2
  <2>5. ASSUME NEW y \in Total - j .. Total + 1 PROVE InOneRow(printed'[y], piece)
    <3>1. CASE y = Total - j
      BY <1>3, <2>3, <3>1 DEF InOneRow, Piece
    <3>2. CASE y \in Total - j + 1 .. Total
      <4>1. y - (Total - j) \in 1 .. j /\ y = Total - j + (y - (Total - j))
        BY <1>4, <1>5, <3>2
      <4>2. PICK p \in 1 .. j : y = Total - j + p
        BY <4>1
      <4> QED
        BY <1>3, <2>4, <4>2, PieceFields DEF InOneRow
    <3>3. CASE y = Total + 1
      BY <1>5, <3>3 DEF InOneRow
    <3> QED
      BY <1>4, <1>5, <3>1, <3>2, <3>3
  <2>6. IsWhole(printed', Total + 1)
    <3>1. /\ Parts(printed'[Total + 1].form) = j /\ Total - j > 0 /\ Total + 1 - j - 1 = Total - j
          /\ j \in Nat /\ Total \in Nat
      BY <1>3, <1>4, <1>5
    <3>2. /\ printed'[Total - j].kind = "stamp"
          /\ \A p \in 1 .. j :
               printed'[Total - j + p].kind = "cells" /\ printed'[Total - j + p].part = p
      BY <2>3, <2>4, PieceFields
    <3>3. \A y \in Total - j .. Total + 1 : InOneRow(printed'[y], printed'[Total + 1])
      BY <1>5, <2>5
    <3>4. /\ RowOf(printed', Total + 1) = Total - j .. Total + 1
          /\ Total + 1 - Parts(printed'[Total + 1].form) - 1 = Total - j
      BY <3>1 DEF RowOf
    <3>5. PICK stamp \in Nat : stamp = Total - j
      BY <3>1
    <3>6. PICK x \in Nat : x = Total + 1
      BY <3>1
    <3> QED
      BY <3>1, <3>2, <3>3, <3>4, <3>5, <3>6 DEF IsWhole
  <2> QED
    BY <1>2, <2>6, WholeAdd DEF FileInv, RowsInv, PastInv
<1>8. KeptInv'
  <2> SUFFICES ASSUME NEW r \in kept' PROVE HasRow(r)'
    BY DEF KeptInv
  <2>1. CASE r \in kept
    BY <1>2, <1>3, <1>4, <2>1, KeptAdd DEF FileInv, RowsInv, PastInv, KeptInv
  <2>2. CASE r = <<run, i>>
    <3>1. PICK x \in Nat : x = Total + 1
      BY <1>5
    <3>2. RowOf(printed, x)' = Total - j .. Total + 1
      <4>1. printed'[x].form = Form /\ Parts(Form) = j
        BY <1>3, <1>4, <1>5, <3>1
      <4>2. RowOf(printed', x) = Total - j .. Total + 1
        BY <1>4, <1>5, <3>1, <4>1 DEF RowOf
      <4> QED
        BY <1>1, <4>2 DEF RowOf, Parts, count, num_packages
    <3>3. ASSUME NEW y \in DOMAIN printed', <<printed'[y].run, printed'[y].n>> = r
          PROVE  y \in Total - j .. Total + 1
      <4>1. CASE y = Total + 1
        BY <1>4, <1>5, <4>1
      <4>2. CASE y \in 1 .. Total
        <5>1. printed[y].run = run /\ printed[y].n = i
          BY <1>5, <2>2, <3>3, <4>2
        <5> QED
          BY <1>4, <1>5, <4>2, <5>1
      <4> QED
        BY <1>5, <4>1, <4>2
    <3>4. x \in DOMAIN file' /\ printed'[x].kind = "end" /\ <<printed'[x].run, printed'[x].n>> = r
      BY <1>3, <1>5, <2>2, <3>1
    <3> QED
      BY <3>2, <3>3, <3>4 DEF HasRow
  <2> QED
    BY <1>1, <2>1, <2>2
<1>9. HeadedInv'
  <2>1. Form # "lifetime" /\ HeaderUpTo(Total, run, Form)
    BY <1>1 DEF FileInv, RowsInv, HeaderInv, Form, TypeOK, Settings
  <2> QED
    BY <1>2, <1>3, <2>1, HeadedAdd DEF FileInv, RowsInv, PastInv
<1>10. CutInv'
  <2>1. Follows(printed[Total], piece)
    BY <1>1, <1>3, <1>4, LastPiece DEF Follows, FileInv, RowsInv
  <2> QED
    BY <1>1, <1>2, <1>3, <2>1, CutAdd DEF FileInv, RowsInv, PastInv
<1>11. HeaderInv'
  BY <1>1, <1>2, HeaderStays DEF FileInv, RowsInv, HeaderInv
<1> QED
  BY <1>1, <1>6, <1>7, <1>8, <1>9, <1>10, <1>11 DEF RowsInv, RowInv, PastInv

LEMMA FileStep ==
  ASSUME TypeOK, ScanInv, FileInv, [Next]_vars PROVE TypeOK' /\ FileInv'
<1>1. TypeOK' /\ ProcessInv'
  BY TypeStep, ProcessStep DEF FileInv
<1>2. RowsInv'
  <2> HIDE DEF vars
  <2>1. ASSUME NEW words, Invoke(words) PROVE RowsInv'
    BY <1>1, <2>1, InvokeStep DEF FileInv
  <2>2. CASE \/ Scan \/ Scanned \/ Leave \/ Initialize \/ Baseline \/ Exit
             \/ DeviceFails \/ Terminated \/ UNCHANGED vars
    BY <1>1, <2>2, QuietSteps DEF FileInv
  <2>3. CASE OpenFile \/ Spill \/ Stop
    BY <1>1, <2>3, OpenStep, SpillStep, StopStep DEF FileInv
  <2>4. CASE PrintInfoHeader \/ PrintHeader \/ PrintLifetime \/ ReportSkips
    BY <1>1, <2>4, HeaderStep
  <2>5. CASE PrintStamp \/ ReadDimm \/ AllRead \/ PrintPackage \/ EndRow
    BY <1>1, <2>5, StampStep, ReadStep, AllReadStep, PackageStep, EndStep DEF FileInv
  <2> QED
    BY <2>1, <2>2, <2>3, <2>4, <2>5 DEF Next
<1> QED
  BY <1>1, <1>2 DEF FileInv

LEMMA ReportInit == Init => TypeOK /\ ScanInv /\ FileInv
<1> SUFFICES ASSUME Init PROVE TypeOK /\ ScanInv /\ FileInv
  OBVIOUS
<1>1. TypeOK
  <2>1. Len(Commands) \in Nat /\ <<>> \in Seq(STRING) /\ <<>> \in Seq(Pieces)
    BY ReportOK
  <2>2. run \in 0 .. Len(Commands) /\ cut \subseteq 1 .. run /\ kept \subseteq (1 .. run) \X Nat
    BY <2>1 DEF Init
  <2> QED
    BY <2>1, <2>2, NoSettingsType DEF Init, TypeOK
<1>5. ScanInv
  BY DEF Init, ScanInv
<1>2. DOMAIN printed = {} /\ ~InRow /\ at = "shell" /\ kept = {} /\ cut = {} /\ args = <<>>
      /\ buffer = <<>>
  BY DEF Init, printed, InRow
<1>3. ProcessInv
  BY <1>2 DEF ProcessInv
<1>4. OrderInv /\ RowInv /\ HeaderInv /\ WholeInv /\ KeptInv /\ HeadedInv /\ CutInv
  BY <1>2 DEF OrderInv, RowInv, HeaderInv, WholeInv, KeptInv, HeadedInv, CutInv
<1> QED
  BY <1>1, <1>3, <1>4, <1>5 DEF FileInv, RowsInv, PastInv

(***************************************************************************)
(* Every variable has its type, for every machine and sequence of runs.    *)
(***************************************************************************)
THEOREM ReportTypes == Spec => []TypeOK
<1>1. TypeOK /\ ScanInv /\ FileInv /\ [Next]_vars => (TypeOK /\ ScanInv /\ FileInv)'
  BY FileStep, ScanStep
<1> QED
  BY <1>1, ReportInit, PTL DEF Spec

LEMMA FileIsKept == Spec => [](TypeOK /\ ScanInv /\ FileInv)
<1>1. TypeOK /\ ScanInv /\ FileInv /\ [Next]_vars => (TypeOK /\ ScanInv /\ FileInv)'
  BY FileStep, ScanStep
<1> QED
  BY <1>1, ReportInit, PTL DEF Spec

(***************************************************************************)
(* A row that has been finished stays in the file, whole and once, however *)
(* the runs end, until one of them is told to begin the file anew.         *)
(***************************************************************************)
THEOREM FinishedRowsSurvive == Spec => []RowsSurvive
<1>1. TypeOK /\ FileInv => RowsSurvive
  <2> SUFFICES ASSUME TypeOK, FileInv, NEW r \in kept
               PROVE  \E x \in DOMAIN file :
                        /\ file[x].kind = "end" /\ <<file[x].run, file[x].n>> = r
                        /\ IsWhole(file, x)
                        /\ \A y \in DOMAIN file :
                             <<file[y].run, file[y].n>> = r => y \in RowOf(file, x)
    BY DEF RowsSurvive
  <2>1. PICK x \in DOMAIN file :
          /\ printed[x].kind = "end" /\ <<printed[x].run, printed[x].n>> = r
          /\ \A y \in DOMAIN printed :
               <<printed[y].run, printed[y].n>> = r => y \in RowOf(printed, x)
    BY DEF FileInv, RowsInv, PastInv, KeptInv, HasRow
  <2>2. /\ x \in Nat \ {0} /\ x \in DOMAIN printed /\ socket_id \in Machines
        /\ \A y \in DOMAIN file : file[y] = printed[y] /\ y \in DOMAIN printed
        /\ \A y \in 1 .. x : y \in DOMAIN file
    <3>1. Shape /\ x \in 1 .. Len(file) /\ socket_id \in Machines
      BY ShapeNow DEF Shape, TypeOK
    <3>2. \A y \in 1 .. Len(file) : y \in 1 .. Total /\ file[y] = printed[y]
      BY <3>1 DEF Shape
    <3>3. \A y \in 1 .. x : y \in 1 .. Len(file)
      BY <3>1 DEF Shape
    <3> QED
      BY <3>1, <3>2, <3>3 DEF Shape
  <2>3. IsWhole(printed, x)
    BY <2>1, <2>2 DEF FileInv, RowsInv, PastInv, WholeInv
  <2>4. IsWhole(file, x)
    BY <2>2, <2>3, WholeStays
  <2>5. RowOf(file, x) = RowOf(printed, x)
    BY <2>2 DEF RowOf
  <2> QED
    BY <2>1, <2>2, <2>4, <2>5
<1> QED
  BY <1>1, FileIsKept, PTL

(***************************************************************************)
(* A line of the file breaks off only where its run was cut short.         *)
(***************************************************************************)
THEOREM LinesBreakAtCuts == Spec => []CutOnlyAtEnd
<1>1. TypeOK /\ FileInv => CutOnlyAtEnd
  <2> SUFFICES ASSUME TypeOK, FileInv, NEW x \in DOMAIN file,
                      file[x].kind \in {"stamp", "cells"}
               PROVE
                 \/ x < Len(file) /\ Follows(file[x], file[x + 1])
                 \/ /\ \A y \in x + 1 .. Len(file) :
                         file[y].run = file[x].run => file[y].kind = "skips"
                    /\ file[x].run \in cut
                         \/ (x = Len(file) /\ at # "shell" /\ file[x].run = run)
    BY DEF CutOnlyAtEnd
  <2>1. Shape /\ x \in 1 .. Len(file) /\ printed[x] = file[x] /\ x \in DOMAIN printed
    BY ShapeNow DEF Shape
  <2>2. CASE x < Total /\ Follows(printed[x], printed[x + 1])
    <3>1. CASE x < Len(file)
      BY <2>1, <2>2, <3>1 DEF Shape
    <3>2. CASE x = Len(file)
      <4>1. x + 1 \in Len(file) + 1 .. Total
        BY <2>1, <2>2, <3>2 DEF Shape
      <4>2. printed[x + 1].run = run /\ buffer # <<>>
        BY <2>1, <4>1 DEF Shape, FileInv, ProcessInv
      <4>3. file[x].run = run /\ at # "shell"
        BY <2>1, <2>2, <4>2 DEF Follows, TypeOK
      <4> QED
        BY <2>1, <3>2, <4>3 DEF Shape
    <3> QED
      BY <2>1, <3>1, <3>2 DEF Shape
  <2>3. CASE /\ printed[x].run \in cut
             /\ \A y \in x + 1 .. Total :
                  printed[y].run = printed[x].run => printed[y].kind = "skips"
    BY <2>1, <2>3 DEF Shape
  <2>4. CASE x = Total /\ InRow /\ printed[x].run = run
    <3>1. x = Len(file) /\ x \in Int
      <4>1. Len(file) \in 0 .. Total /\ Total \in Nat
        BY <2>1 DEF Shape
      <4> QED
        BY <2>1, <2>4, <4>1
    <3>2. \A y \in x + 1 .. Len(file) : FALSE
      BY <3>1
    <3>3. at # "shell"
      BY <2>4 DEF InRow
    <3> QED
      BY <2>1, <2>4, <3>1, <3>2, <3>3
  <2>5. \/ x < Total /\ Follows(printed[x], printed[x + 1])
        \/ /\ printed[x].run \in cut
           /\ \A y \in x + 1 .. Total :
                printed[y].run = printed[x].run => printed[y].kind = "skips"
        \/ x = Total /\ InRow /\ printed[x].run = run
    BY <2>1 DEF FileInv, RowsInv, PastInv, CutInv
  <2> QED
    BY <2>2, <2>3, <2>4, <2>5
<1> QED
  BY <1>1, FileIsKept, PTL

(***************************************************************************)
(* A row that ends is whole, below the header of its run, and has that     *)
(* header's columns.                                                       *)
(***************************************************************************)
THEOREM RowsHaveHeaders == Spec => []RowsFitHeader
<1>1. TypeOK /\ FileInv => RowsFitHeader
  <2> SUFFICES ASSUME TypeOK, FileInv, NEW x \in DOMAIN file, file[x].kind = "end"
               PROVE  /\ IsWhole(file, x)
                      /\ \E y \in 1 .. x : /\ file[y].kind = "header"
                                          /\ file[y].run = file[x].run
                                          /\ file[y].form = file[x].form
                      /\ Header(file[x].form) = Titled(Columns(file[x].form))
    BY DEF RowsFitHeader
  <2>1. /\ x \in Nat \ {0} /\ x \in DOMAIN printed /\ socket_id \in Machines
        /\ \A y \in 1 .. x : file[y] = printed[y]
    <3>1. Shape /\ x \in 1 .. Len(file) /\ socket_id \in Machines
      BY ShapeNow DEF Shape, TypeOK
    <3>2. \A y \in 1 .. Len(file) : y \in 1 .. Total /\ file[y] = printed[y]
      BY <3>1 DEF Shape
    <3>3. \A y \in 1 .. x : y \in 1 .. Len(file)
      BY <3>1 DEF Shape
    <3> QED
      BY <3>1, <3>2, <3>3 DEF Shape
  <2>2. file[x] = printed[x]
    BY <2>1
  <2>3. IsWhole(file, x)
    <3>1. IsWhole(printed, x)
      BY <2>1, <2>2 DEF FileInv, RowsInv, PastInv, WholeInv
    <3> QED
      BY <2>1, <3>1, WholeStays
  <2>4. printed[x].form # "lifetime" /\ HeaderUpTo(x, printed[x].run, printed[x].form)
    BY <2>1, <2>2 DEF FileInv, RowsInv, PastInv, HeadedInv
  <2>5. file[x].form \in {"one", "two", "health"}
    <3>1. file \in Seq(Pieces) /\ x \in 1 .. Len(file)
      BY DEF TypeOK
    <3>2. file[x] \in Pieces
      BY <3>1
    <3>3. file[x].form \in {"one", "two", "health", "lifetime"}
      BY <3>2 DEF Pieces
    <3> QED
      BY <2>2, <2>4, <3>3
  <2>6. Header(file[x].form) = Titled(Columns(file[x].form))
    BY <2>1, <2>5, HeaderFits
  <2>7. \E y \in 1 .. x : /\ file[y].kind = "header"
                         /\ file[y].run = file[x].run /\ file[y].form = file[x].form
    BY <2>1, <2>2, <2>4 DEF HeaderUpTo
  <2> QED
    BY <2>3, <2>6, <2>7
<1> QED
  BY <1>1, FileIsKept, PTL
=============================================================================
