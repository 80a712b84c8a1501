--------------------------- MODULE MCStaticCache ---------------------------
(* A small instance of StaticCache: one file, plain and compressed, in a   *)
(* cache of one entry; the last version is too large to be cached.         *)
EXTENDS StaticCache

MCFileOf == [k \in Keys |-> "file"]
MCStat   == [v \in Versions |-> v]
=============================================================================
