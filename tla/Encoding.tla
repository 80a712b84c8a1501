------------------------------ MODULE Encoding ------------------------------
(***************************************************************************)
(* context/accept_encoder.go: which encoding a response is given, and the  *)
(* pools its compressors come from and go back to.  A compressor is its    *)
(* level; a pool is the set of levels that one taken from it may have.     *)
(***************************************************************************)
EXTENDS Integers, SequencesExt

CONSTANTS
  InitMethods,  \* the methods InitGzip is called with
  InitLevel     \* the level InitGzip is called with

BestSpeed       == 1
BestCompression == 9

gzipCompressLevel == IF InitLevel \in 0..9 THEN InitLevel ELSE BestSpeed
includedMethods   == IF InitMethods = {} THEN {"GET"} ELSE InitMethods

encoderMap == [n \in {"gzip", "deflate", "*", "identity"} |->
                IF n = "identity" THEN "" ELSE IF n = "*" THEN "gzip" ELSE n]

(* An entry of Accept-Encoding: a name with a weight in tenths, 0 also for *)
(* one that is no number or has a parameter more; no weight is Plain.      *)
Plain == -1

(* The first entry without a weight is taken; when there is none, the one  *)
(* of greatest weight, the first of several.                               *)
parseEncoding(header) ==
  LET known  == {i \in DOMAIN header : header[i].name \in DOMAIN encoderMap}
      plain  == {i \in known : header[i].q = Plain}
      weight == {i \in known : header[i].q > 0}
      best   == {i \in weight : \A j \in weight : header[i].q >= header[j].q}
  IN IF plain # {} THEN encoderMap[header[Min(plain)].name]
     ELSE IF best # {} THEN encoderMap[header[Min(best)].name]
     ELSE ""

ParseEncoding(method, header) ==
  IF method \in includedMethods THEN parseEncoding(header) ELSE ""

(* A sync.Pool that is empty makes a compressor of its own level.          *)
NewPools == [custom |-> {gzipCompressLevel}, best |-> {BestCompression}]

(* encode: the levels a compressor asked for at this level may have.       *)
encode(pools, level) ==
  IF level = BestSpeed THEN pools.custom
  ELSE IF level = BestCompression THEN pools.best
  ELSE {level}

(* Faulty: whatever was taken goes to the pool of the configured level. *)
putCustom(pools, got, level) == [pools EXCEPT !.custom = @ \cup {got}]

put(pools, got, level) ==
  IF level = gzipCompressLevel THEN [pools EXCEPT !.custom = @ \cup {got}]
  ELSE IF level = BestCompression THEN [pools EXCEPT !.best = @ \cup {got}]
  ELSE pools

(* WriteBody leaves content below gzipMinLength as it is. *)
WriteBody(encoding, size) == IF size = "short" THEN "" ELSE encoding

-----------------------------------------------------------------------------
(* The client can read the encoding: it has listed it or *, and the entry  *)
(* has a weight other than 0.                                              *)
Acceptable(encoding, header) ==
  encoding # "" =>
    \E i \in DOMAIN header : /\ header[i].name \in {encoding, "*"}
                             /\ header[i].q = Plain \/ header[i].q > 0
=============================================================================
