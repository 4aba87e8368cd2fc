-------------------------------- MODULE Report ------------------------------
(***************************************************************************)
(* One output file over several runs of the command line tool: what each   *)
(* command line asks for (CommandLine), the report that it prints, the     *)
(* stdio buffer between the two, a DIMM that does not answer, and          *)
(* pmwatch-stop, which kills the process wherever it is.                   *)
(*                                                                         *)
(* Abstractions.  A report is a sequence of pieces, each what one fprintf  *)
(* prints (one or more lines of a header are one piece); only the columns  *)
(* of the cells are kept.  The buffer is written out when it is flushed,   *)
(* and libc may write out any part of it before.  Every number of the rows *)
(* is as in Sampling; here a finite run may end early and may report       *)
(* skipped intervals.  A run without a file, or with another one, is over  *)
(* once it is understood.                                                  *)
(***************************************************************************)
EXTENDS CommandLine, SequencesExt

CONSTANTS
  Commands,   \* the command lines that each run, in its turn, may get
  OutFile,    \* the file we look at; its name has .csv in it, so none is added
  Machines,   \* the sockets of the DIMMs, in the order of the topology
  MaxRows     \* bound: rows of a run without an end of its own

ASSUME ReportOK ==
  /\ Commands \in Seq(SUBSET Seq(STRING)) /\ MaxRows \in Nat \ {0}
  /\ \A m \in Machines : m \in Seq(Nat) /\ Len(m) > 0
                         /\ \A d \in 1 .. Len(m) - 1 : m[d] <= m[d + 1]

VARIABLES
  socket_id,      \* of each DIMM
  run,            \* the number of the run
  at,             \* where the run is; "shell" when there is none
  args, itr,      \* the command line and how far it is scanned
  settings,
  i, j,           \* the interval, and the DIMMs read or packages printed in it
  skipped,        \* intervals have been skipped
  buffer, file,   \* pieces
  \* History, which only the properties read:
  cut,            \* the runs that were killed or met a DIMM that fails
  kept            \* the rows that were printed and not thrown away by -f

asked == <<args, itr, settings>>
loop == <<i, j, skipped>>
output == <<buffer, file>>
history == <<cut, kept>>
vars == <<socket_id, run, at, asked, loop, output, history>>

count == Len(socket_id)
num_packages == socket_id[count] + 1

Init ==
  /\ socket_id \in Machines
  /\ run = 0 /\ at = "shell"
  /\ args = <<>> /\ itr = 0 /\ settings = NoSettings
  /\ i = 0 /\ j = 0 /\ skipped = FALSE
  /\ buffer = <<>> /\ file = <<>>
  /\ cut = {} /\ kept = {}

(***************************************************************************)
(* The columns of the four reports.                                        *)
(***************************************************************************)
Form ==
  IF settings.lifetime THEN "lifetime"
  ELSE IF settings.health THEN "health"
  ELSE settings.format

Media == <<"total_bytes_read", "total_bytes_written", "media_read", "media_write">>
Buffer == <<"read_hit_ratio", "write_hit_ratio">>
Controller == <<"bytes_read", "bytes_written">>
CPU == <<"host_reads", "host_writes">>
Metric == <<Media, Buffer, Controller, CPU>>

OneRow ==
  <<"total_bytes_read", "total_bytes_written", "read_hit_ratio", "write_hit_ratio",
    "media_read", "media_write", "bytes_read", "bytes_written", "host_reads",
    "host_writes">>
HealthRow ==
  <<"health_status", "percentage_used", "percentage_remaining", "power_on_time",
    "uptime", "last_shutdown_time", "media_temp", "controller_temp",
    "max_media_temp", "max_controller_temp">>

OneTitles ==
  <<"bytes_read (derived)", "bytes_written (derived)", "read_hit_ratio (derived)",
    "write_hit_ratio (derived)", "media_read_ops (derived)",
    "media_write_ops (derived)", "read_64B_ops_received", "write_64B_ops_received",
    "cpu_read_ops", "cpu_write_ops">>
HealthTitles ==
  <<"health_status", "lifespan_used", "lifespan_remaining", "power_on_time",
    "uptime", "last_shutdown_time", "media_temp", "controller_temp",
    "max_media_temp", "max_controller_temp">>

Packages == [p \in 1 .. num_packages |-> p - 1]
OfDimm(names, d) == [k \in DOMAIN names |-> [name |-> names[k], dimm |-> d]]
OfDimms(names) == FlattenSeq([d \in 1 .. count |-> OfDimm(names, d)])
OfPackage(names, p) ==
  FlattenSeq([d \in 1 .. count |-> IF socket_id[d] = p THEN OfDimm(names, d) ELSE <<>>])

\* The header of format two repeats its loop over the DIMMs for each group.
HeaderOfPackage(p) ==
  OfPackage(<<"bytes_read (derived)", "bytes_written (derived)",
              "media_read_ops (derived)", "media_write_ops (derived)">>, p)
    \o OfPackage(<<"read_hit_ratio (derived)", "write_hit_ratio (derived)">>, p)
    \o OfPackage(<<"read_64B_ops_received", "write_64B_ops_received">>, p)
    \o OfPackage(<<"cpu_read_ops", "cpu_write_ops">>, p)

Header(form) ==
  CASE form = "one" -> OfDimms(OneTitles)
    [] form = "health" -> OfDimms(HealthTitles)
    [] form = "two" -> FlattenSeq([k \in DOMAIN Packages |-> HeaderOfPackage(Packages[k])])

\* What one piece of a row prints: a DIMM's metrics, or a package's.
Cells_DimmsFirst(form, part) ==
  CASE form = "one" -> OfDimm(OneRow, part)
    [] form = "health" -> OfDimm(HealthRow, part)
    [] form = "two" -> OfPackage(FlattenSeq(Metric), Packages[part])
Cells(form, part) ==
  CASE form = "one" -> OfDimm(OneRow, part)
    [] form = "health" -> OfDimm(HealthRow, part)
    [] form = "two" -> FlattenSeq([m \in DOMAIN Metric |-> OfPackage(Metric[m], Packages[part])])
Parts(form) == IF form = "two" THEN num_packages ELSE count

(***************************************************************************)
(* The run.                                                                *)
(***************************************************************************)
Piece(kind, n, part) ==
  [run |-> run, form |-> Form, kind |-> kind, n |-> n, part |-> part]
Prints(piece) == buffer' = Append(buffer, piece) /\ UNCHANGED file
PrintsFlushed(piece) == file' = file \o Append(buffer, piece) /\ buffer' = <<>>
Goto(label) == at' = label

\* A new process: nothing of the one before is left but the file.
Invoke(words) ==
  /\ at = "shell" /\ run < Len(Commands) /\ words \in Commands[run + 1]
  /\ run' = run + 1
  /\ args' = words /\ itr' = FirstOption
  /\ i' = 0 /\ j' = 0 /\ skipped' = FALSE
  /\ IF Refused(words) THEN Goto("refused") /\ settings' = NoSettings
                       ELSE Goto("scan") /\ settings' = FirstWords(words)
  /\ UNCHANGED <<socket_id, output, history>>

Scan ==
  /\ at = "scan" /\ itr <= Len(args)
  /\ IF NoFileName(args, itr)
     THEN Goto("refused") /\ UNCHANGED <<settings, itr>>
     ELSE settings' = ScanOption(settings, args, itr) /\ itr' = itr + 1 /\ UNCHANGED at
  /\ UNCHANGED <<socket_id, run, args, loop, output, history>>

Scanned ==
  /\ at = "scan" /\ itr > Len(args)
  /\ settings' = Settled(settings)
  /\ Goto("open")
  /\ UNCHANGED <<socket_id, run, args, itr, loop, output, history>>

Leave ==
  /\ at = "refused"
  /\ Goto("shell") /\ args' = <<>>
  /\ UNCHANGED <<socket_id, run, itr, settings, loop, output, history>>

\* fopen; when it fails the report goes to the console.  Nobody looks at
\* the command line again.
OpenFile ==
  /\ at = "open"
  /\ \/ /\ settings.file = OutFile
        /\ file' = IF settings.mode = "w" THEN <<>> ELSE file
        /\ kept' = IF \E k \in DOMAIN args : args[k] = "-F" THEN kept ELSE {}
        /\ Goto("init")
     \/ Goto("shell") /\ UNCHANGED <<file, kept>>
  /\ args' = <<>>
  /\ UNCHANGED <<socket_id, run, itr, settings, loop, buffer, cut>>

\* PMW_COMM_Init: by now the file of a run without -F is empty.
Initialize ==
  /\ at = "init"
  /\ Goto("info") \/ Goto("exit")
  /\ UNCHANGED <<socket_id, run, asked, loop, output, history>>

PrintInfoHeader ==
  /\ at = "info"
  /\ Prints(Piece("info", 0, 0))
  /\ Goto("header")
  /\ UNCHANGED <<socket_id, run, asked, loop, history>>

\* The lines of a header are flushed one by one; that of the lifetime
\* snapshot is not.
PrintHeader ==
  /\ at = "header"
  /\ IF settings.lifetime THEN Prints(Piece("header", 0, 0)) /\ Goto("snapshot")
                          ELSE PrintsFlushed(Piece("header", 0, 0)) /\ Goto("baseline")
  /\ UNCHANGED <<socket_id, run, asked, loop, history>>

\* One line for a DIMM; the first that does not answer is the end of it.
PrintLifetime ==
  /\ at = "snapshot"
  /\ IF j < count
     THEN Prints(Piece("snapshot", 0, j + 1)) /\ j' = j + 1 /\ UNCHANGED at
     ELSE Goto("exit") /\ UNCHANGED <<j, output>>
  /\ UNCHANGED <<socket_id, run, asked, i, skipped, history>>

\* Interval 0, of which nothing is printed; a run of one interval may even
\* outlast its time here.
MayGoOn == settings.infinite \/ i < settings.loops
MayEnd == ~settings.infinite
NextInterval ==
  \/ MayGoOn /\ (settings.infinite => i < MaxRows) /\ Goto("stamp")
  \/ MayEnd /\ Goto("cleanup")
Skips == skipped' \in {skipped} \cup (IF MayEnd THEN {TRUE} ELSE {})

Baseline ==
  /\ at = "baseline"
  /\ Skips /\ NextInterval
  /\ UNCHANGED <<socket_id, run, asked, i, j, output, history>>

PrintStamp ==
  /\ at = "stamp"
  /\ i' = i + 1 /\ j' = 0
  /\ Prints(Piece("stamp", i + 1, 0))
  /\ Goto("read")
  /\ UNCHANGED <<socket_id, run, asked, skipped, history>>

\* Format two prints its cells when all DIMMs have been read.
ReadDimm ==
  /\ at = "read" /\ j < count
  /\ j' = j + 1
  /\ IF Form = "two" THEN UNCHANGED output ELSE Prints(Piece("cells", i, j + 1))
  /\ UNCHANGED <<socket_id, run, at, asked, i, skipped, history>>

DeviceFails_NextDimm ==
  /\ at = "read" /\ j < count
  /\ j' = j + 1
  /\ UNCHANGED <<socket_id, run, at, asked, i, skipped, output, history>>
DeviceFails ==
  /\ \/ at = "read" /\ j < count
     \/ at = "baseline" /\ Form # "health"
     \/ at = "snapshot" /\ j < count
  /\ Goto(IF settings.lifetime THEN "exit" ELSE "cleanup")
  /\ cut' = cut \cup {run}
  /\ UNCHANGED <<socket_id, run, asked, loop, output, kept>>

AllRead ==
  /\ at = "read" /\ j = count
  /\ IF Form = "two" THEN j' = 0 /\ Goto("packages")
                     ELSE UNCHANGED j /\ Goto("end")
  /\ UNCHANGED <<socket_id, run, asked, i, skipped, output, history>>

PrintPackage ==
  /\ at = "packages"
  /\ IF j < num_packages
     THEN Prints(Piece("cells", i, j + 1)) /\ j' = j + 1 /\ UNCHANGED at
     ELSE Goto("end") /\ UNCHANGED <<j, output>>
  /\ UNCHANGED <<socket_id, run, asked, i, skipped, history>>

EndRow_NotFlushed ==
  /\ at = "end"
  /\ Prints(Piece("end", i, 0))
  /\ kept' = kept \cup {<<run, i>>}
  /\ Skips /\ NextInterval
  /\ UNCHANGED <<socket_id, run, asked, i, j, cut>>
EndRow ==
  /\ at = "end"
  /\ PrintsFlushed(Piece("end", i, 0))
  /\ kept' = kept \cup {<<run, i>>}
  /\ Skips /\ NextInterval
  /\ UNCHANGED <<socket_id, run, asked, i, j, cut>>

ReportSkips ==
  /\ at = "cleanup"
  /\ IF skipped THEN Prints(Piece("skips", 0, 0)) ELSE UNCHANGED output
  /\ Goto("exit")
  /\ UNCHANGED <<socket_id, run, asked, loop, history>>

\* pmwatch_Close_File.
Exit ==
  /\ at = "exit"
  /\ file' = file \o buffer /\ buffer' = <<>>
  /\ Goto("shell")
  /\ UNCHANGED <<socket_id, run, asked, loop, history>>

\* libc makes room in its buffer.
Spill ==
  /\ \E k \in 1 .. Len(buffer) :
       /\ file' = file \o SubSeq(buffer, 1, k)
       /\ buffer' = SubSeq(buffer, k + 1, Len(buffer))
  /\ UNCHANGED <<socket_id, run, at, asked, loop, history>>

\* pmwatch-stop: kill -9, which leaves the buffer unwritten.
Stop ==
  /\ at # "shell"
  /\ Goto("shell")
  /\ args' = <<>> /\ buffer' = <<>>
  /\ cut' = cut \cup {run}
  /\ UNCHANGED <<socket_id, run, itr, settings, loop, file, kept>>

Terminated == at = "shell" /\ run = Len(Commands) /\ UNCHANGED vars

Next ==
  \/ run < Len(Commands) /\ \E words \in Commands[run + 1] : Invoke(words)
  \/ Scan \/ Scanned \/ Leave \/ OpenFile \/ Initialize
  \/ PrintInfoHeader \/ PrintHeader \/ PrintLifetime
  \/ Baseline \/ PrintStamp \/ ReadDimm \/ DeviceFails \/ AllRead \/ PrintPackage
  \/ EndRow \/ ReportSkips \/ Exit
  \/ Spill \/ Stop
  \/ Terminated

Spec == Init /\ [][Next]_vars

(***************************************************************************)
(* Every variable has its type, and a process that is gone has no buffer.  *)
(***************************************************************************)
Pieces ==
  [run : 1 .. Len(Commands), form : {"one", "two", "health", "lifetime"},
   kind : {"info", "header", "snapshot", "stamp", "cells", "end", "skips"},
   n : Nat, part : Nat]
Settings ==
  [lifetime : BOOLEAN, infinite : BOOLEAN, loops : Nat, health : BOOLEAN,
   format : {"one", "two"}, delimiter : {"semicolon", "tab"},
   file : {"stdout"} \cup STRING, mode : {"w", "a"}]
TypeOK ==
  /\ socket_id \in Machines /\ run \in 0 .. Len(Commands)
  /\ at \in {"shell", "refused", "scan", "open", "init", "info", "header", "snapshot",
            "baseline", "stamp", "read", "packages", "end", "cleanup", "exit"}
  /\ at = "shell" => args = <<>> /\ buffer = <<>>
  /\ args \in Seq(STRING) /\ itr \in Nat /\ settings \in Settings
  /\ i \in Nat /\ j \in Nat /\ skipped \in BOOLEAN
  /\ buffer \in Seq(Pieces) /\ file \in Seq(Pieces)
  /\ cut \subseteq 1 .. run /\ kept \subseteq (1 .. run) \X Nat

(***************************************************************************)
(* Each of the options -l, -hi, -td, -g, -f and -F has its own effect and  *)
(* no other, in whatever order and however often they come, so does the    *)
(* number of samples, and the tool refuses only what lacks a time above    *)
(* zero, a number of samples or the name of a file.  (The first word is    *)
(* the time, and -f or -F anywhere is one, even as the name of a file.)    *)
(***************************************************************************)
Given(option) == \E k \in 2 .. Len(args) : args[k] = option
FileAsked == {k \in 2 .. Len(args) : args[k] \in {"-f", "-F"}}
AskedIsDone ==
  /\ at = "open" =>
       /\ settings.lifetime <=> args[1] = "-l"
       /\ settings.health <=> Given("-hi")
       /\ settings.delimiter = "tab" <=> Given("-td")
       /\ settings.format = "two" <=> Given("-g") /\ args[1] # "-l"
       /\ settings.mode = "a" <=> Given("-F")
       /\ IF FileAsked = {} THEN settings.file = "stdout"
          ELSE \E k \in FileAsked :
                 k < Len(args) /\ settings.file = args[k + 1] /\ \A l \in FileAsked : l <= k
       /\ settings.infinite \/ settings.lifetime
            <=> args[1] = "-l" \/ Len(args) = 1 \/ Loops(args) = 0
       /\ ~settings.infinite /\ ~settings.lifetime
            => settings.loops = Loops(args) /\ settings.loops > 0
  /\ at = "refused" =>
       \/ Len(args) < 2
       \/ atof(args[1]) <= 0 /\ args[1] # "-l"
       \/ args[1] = "-l" /\ args[2] \notin Option
       \/ Loops(args) < 0
       \/ \E k \in FileAsked : k = Len(args) \/ args[k + 1] \in TooLong

(***************************************************************************)
(* The delimiter is the tab when it is asked for, and "Default is comma"   *)
(* (the help, pmwatch.c:78).                                               *)
(***************************************************************************)
DelimiterAsHelped ==
  at = "open" => settings.delimiter = IF Given("-td") THEN "tab" ELSE "comma"

(***************************************************************************)
(* A row that a run has finished stays in the file, whole, through every   *)
(* way the run may end and through the runs after it, until one of them is *)
(* called with -f and without -F; and no part of it is printed twice.      *)
(***************************************************************************)
RowOf(pieces, x) == x - Parts(pieces[x].form) - 1 .. x
InOneRow(p, q) == p.run = q.run /\ p.n = q.n /\ p.form = q.form
IsWhole(pieces, x) ==
  LET stamp == x - Parts(pieces[x].form) - 1
  IN  /\ stamp > 0 /\ pieces[stamp].kind = "stamp"
      /\ \A p \in 1 .. Parts(pieces[x].form) :
           pieces[stamp + p].kind = "cells" /\ pieces[stamp + p].part = p
      /\ \A y \in RowOf(pieces, x) : InOneRow(pieces[y], pieces[x])
RowsSurvive ==
  \A r \in kept :
    \E x \in DOMAIN file :
      /\ file[x].kind = "end" /\ <<file[x].run, file[x].n>> = r
      /\ IsWhole(file, x)
      /\ \A y \in DOMAIN file : <<file[y].run, file[y].n>> = r => y \in RowOf(file, x)

(***************************************************************************)
(* A row that ends is whole, and its columns are those of the header that  *)
(* its run has printed above it: the same metric of the same DIMM, in      *)
(* every report format and on every machine.                               *)
(***************************************************************************)
TitleOf ==
  [total_bytes_read |-> "bytes_read (derived)",
   total_bytes_written |-> "bytes_written (derived)",
   media_read |-> "media_read_ops (derived)",
   media_write |-> "media_write_ops (derived)",
   read_hit_ratio |-> "read_hit_ratio (derived)",
   write_hit_ratio |-> "write_hit_ratio (derived)",
   bytes_read |-> "read_64B_ops_received", bytes_written |-> "write_64B_ops_received",
   host_reads |-> "cpu_read_ops", host_writes |-> "cpu_write_ops",
   percentage_used |-> "lifespan_used", percentage_remaining |-> "lifespan_remaining"]
Title(name) == IF name \in DOMAIN TitleOf THEN TitleOf[name] ELSE name
Columns(form) == FlattenSeq([p \in 1 .. Parts(form) |-> Cells(form, p)])
Titled(columns) ==
  [k \in DOMAIN columns |-> [name |-> Title(columns[k].name), dimm |-> columns[k].dimm]]
RowsFitHeader ==
  \A x \in DOMAIN file :
    file[x].kind = "end" =>
      /\ IsWhole(file, x)
      /\ \E y \in 1 .. x : /\ file[y].kind = "header"
                          /\ file[y].run = file[x].run /\ file[y].form = file[x].form
      /\ Header(file[x].form) = Titled(Columns(file[x].form))

(***************************************************************************)
(* Only where its run was cut short does a line of the file break off: a   *)
(* piece of a row is followed by the next piece of that row, or it is the  *)
(* last row its run printed and the run was killed, or met a DIMM that     *)
(* does not answer, or is still at it.  What follows on the same line then *)
(* is the count of skipped intervals or the next run's report.             *)
(***************************************************************************)
Follows(p, q) ==
  /\ q.run = p.run /\ q.n = p.n
  /\ IF p.part < Parts(p.form) THEN q.kind = "cells" /\ q.part = p.part + 1
                               ELSE q.kind = "end"
CutOnlyAtEnd ==
  \A x \in DOMAIN file :
    file[x].kind \in {"stamp", "cells"} =>
      \/ x < Len(file) /\ Follows(file[x], file[x + 1])
      \/ /\ \A y \in x + 1 .. Len(file) : file[y].run = file[x].run => file[y].kind = "skips"
         /\ file[x].run \in cut \/ (x = Len(file) /\ at # "shell" /\ file[x].run = run)
=============================================================================
