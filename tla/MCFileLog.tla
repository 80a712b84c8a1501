------------------------------ MODULE MCFileLog ------------------------------
(* A small instance of FileLog: days of one hour, so that the daily        *)
(* configuration of config.go with a limit on lines and an hourly one      *)
(* without differ in the names of files, in limits and in numbers.         *)
EXTENDS FileLog

MCDaily  == [hourly |-> FALSE, daily |-> TRUE, maxLines |-> 1, maxAge |-> 1]
MCHourly == [hourly |-> TRUE, daily |-> TRUE, maxLines |-> 0, maxAge |-> 1]
MCConfs  == {MCDaily, MCHourly}
=============================================================================
