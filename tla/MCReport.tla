------------------------------ MODULE MCReport ------------------------------
(***************************************************************************)
(* Instances of Report for TLC: the first run gets every command line of   *)
(* up to three words and some longer ones, the second one of a few.        *)
(***************************************************************************)
EXTENDS Report

Numbers == [w \in {"1", "2", "0", "0.5", "-1"} |->
              CASE w = "1" -> 10 [] w = "2" -> 20 [] w = "0" -> 0 [] w = "0.5" -> 5
                [] w = "-1" -> -10]
Long == {"long"}
Words == DOMAIN Numbers \cup Option \cup {"-l", "out.csv", "long"}
Short == UNION {[1 .. n -> Words] : n \in 0 .. 3}
Longer ==
  {<<"1", "-F", "out.csv", "-f", "out.csv">>, <<"1", "-f", "out.csv", "-g", "-td">>,
   <<"1", "2", "-hi", "-F", "out.csv">>, <<"1", "2", "-f", "out.csv">>,
   <<"1", "2", "-g", "-f", "out.csv">>, <<"-l", "-g", "-F", "out.csv">>,
   <<"1", "2", "-g", "-hi", "-f", "out.csv">>, <<"1", "2", "-f", "-F", "out.csv">>}
Second ==
  {<<"1", "-F", "out.csv", "-f", "out.csv">>, <<"1", "1", "-f", "out.csv">>,
   <<"1", "1", "-g", "-F", "out.csv">>, <<"-l", "-F", "out.csv">>}
TwoRuns == <<Short \cup Longer, Second>>

Sockets == {<<0, 0, 1>>, <<1>>}
=============================================================================
