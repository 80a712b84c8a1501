------------------------------ MODULE Binding ------------------------------
(***************************************************************************)
(* How the values of a form become Go values: GonInput.Bind of             *)
(* context/input.go and the typed getters of ctrl/controller.go.           *)
(*                                                                         *)
(* A form is a function from the keys that begin with one name to the      *)
(* values sent for them, in order.  The keys of name: name itself          *)
(* ("plain"), name[i] ("index"; more than one spelling may have index i),  *)
(* name[], name[-1] and the like ("open"), name.f ("dot"), name[f]         *)
(* ("bracket").  A Go map is walked in any order: order is a sequence of   *)
(* all the keys of the form.                                               *)
(***************************************************************************)
EXTENDS Integers, SequencesExt

CONSTANTS
  Half,     \* 2^(w-1) for the width w of the integer that is bound: 128 for an int8
  WideHalf  \* the same for an int64

(* A value sent: a numeral, some other text, or nothing.                   *)
Number(n) == [is |-> "number", n |-> n]
Text      == [is |-> "text", n |-> 0]
Blank     == [is |-> "blank", n |-> 0]

FitsIn(n, half) == n \in -half .. half - 1

(* Conversion of an integer to a narrower type keeps the low bits.         *)
Wrap(n, half) == ((n + half) % (2 * half)) - half

(* strconv.ParseInt: the value, and whether it is an error; a number out   *)
(* of range is cut off at the range.                                       *)
ParseInt(v, half) ==
  CASE v.is # "number" -> [val |-> 0, err |-> TRUE]
    [] v.is = "number" /\ FitsIn(v.n, half) -> [val |-> v.n, err |-> FALSE]
    [] OTHER -> [val |-> IF v.n < 0 THEN -half ELSE half - 1, err |-> TRUE]

(* Form.Get: the first value of the key, blank without one.                *)
Query(form, key) == IF key \in DOMAIN form /\ form[key] # <<>> THEN Head(form[key]) ELSE Blank

(* bindInt: parsed as an int64, then set into the narrower type unchecked. *)
bindInt(v) == LET p == ParseInt(v, WideHalf) IN IF p.err THEN 0 ELSE Wrap(p.val, Half)

(* GetInt8 and its like: the default for a blank value.                    *)
GetInt(v, def) == IF v = Blank /\ def # <<>> THEN [val |-> def[1], err |-> FALSE]
                  ELSE ParseInt(v, Half)

(* The keys that name an index, and how long the slice is because of them; *)
(* the values of an open key, each bound as it was sent.                   *)
Indexed(form)    == {k \in DOMAIN form : k.as = "index"}
Size(form)       == Max({0} \cup {k.at + 1 : k \in Indexed(form)})
Bound(values)    == [j \in DOMAIN values |-> bindInt(values[j])]
Open(form, keys) ==
  FlattenSeq([n \in DOMAIN keys |-> IF keys[n].as = "open" THEN Bound(form[keys[n]]) ELSE <<>>])

(* Faulty: elements are appended as they are found.                        *)
bindSliceAppend(form, order) ==
  FlattenSeq([n \in DOMAIN order |->
                IF order[n].as \in {"index", "open"} THEN Bound(form[order[n]]) ELSE <<>>])

(* bindSlice: as long as the greatest index needs; of two keys with the    *)
(* same index the last one walked is kept; open keys are appended.         *)
bindSlice(form, order) ==
  LET at(i)   == {n \in DOMAIN order : order[n] \in Indexed(form) /\ order[n].at = i}
      elem(i) == IF at(i) = {} THEN 0 ELSE bindInt(Query(form, order[Max(at(i))]))
  IN [i \in 1..Size(form) |-> elem(i - 1)] \o Open(form, order)

(* bindStruct: of several spellings of a field the first one walked.       *)
bindField(form, order) ==
  LET at == {n \in DOMAIN order : order[n].as \in {"dot", "bracket"}}
  IN IF at = {} THEN 0 ELSE bindInt(Head(form[order[Min(at)]]))

-----------------------------------------------------------------------------
(* "ol[0]=1&ol[1]=2  ol ==[1 2]", "ul[]=str&ul[]=array  ul ==[str array]": *)
(* every value is at its index whatever the order of the walk, gaps are    *)
(* zero, and the values of the open keys follow, those of one key together *)
(* and in the order they were sent, and nothing else.                      *)
SliceRight(form, out) ==
  LET index  == {k \in DOMAIN form : k.as = "index"}
      open   == {k \in DOMAIN form : k.as = "open"}
  IN \E size \in 0..Len(out) :
       /\ \A k \in index : k.at < size
       /\ size > 0 => \E k \in index : k.at = size - 1
       /\ \A i \in 1..size :
            LET here == {k \in index : k.at = i - 1} IN
            IF here = {} THEN out[i] = 0 ELSE \E k \in here : out[i] = bindInt(Query(form, k))
       /\ \E from \in [open -> size..Len(out)] :
            LET places(k) == from[k] + 1 .. from[k] + Len(form[k]) IN
            /\ \A k, l \in open : k # l => places(k) \cap places(l) = {}
            /\ UNION {places(k) : k \in open} = size + 1 .. Len(out)
            /\ \A k \in open : \A j \in DOMAIN form[k] : out[from[k] + j] = bindInt(form[k][j])
=============================================================================
