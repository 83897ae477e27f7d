--------------------------- MODULE MCConsoleSession ---------------------------
(* Constants of the runs of ConsoleSession: every script ends with exit, as    *)
(* those of test_case do.                                                      *)
EXTENDS ConsoleSession

MCScript == [s \in Sessions |-> IF s = 1 THEN <<"cmd", "exit">> ELSE <<"exit">>]
=============================================================================
