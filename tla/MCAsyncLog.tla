----------------------------- MODULE MCAsyncLog -----------------------------
(* A small instance of AsyncLog: the default console and a file adapter;   *)
(* one goroutine logs twice, the other logs once and flushes.              *)
EXTENDS AsyncLog

CONSTANTS c1, f1, w1, w2
MCAdapters == {c1, f1}
MCNameOf   == [a \in MCAdapters |-> IF a = f1 THEN "file" ELSE "console"]
MCWriters  == {w1, w2}
MCMaxMsgs  == [w \in MCWriters |-> IF w = w1 THEN 2 ELSE 1]
=============================================================================
