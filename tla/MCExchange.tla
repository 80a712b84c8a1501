----------------------------- MODULE MCExchange -----------------------------
(* A small instance of Exchange: two clients of one route; plain requests, *)
(* requests with encodings and a static file, and forms whose keys are     *)
(* walked in every order, with integers of 2 bits bound from 3.            *)
EXTENDS Exchange

In(method, accept, form, static) ==
  [method |-> method, accept |-> accept, form |-> form, static |-> static]
E(name, q)  == [name |-> name, q |-> q]
K(as, at)   == [as |-> as, at |-> at]
N(n)        == Number(n)

MCHeaders == {<<E("deflate", 5), E("gzip", 8)>>,
              <<E("br", Plain), E("gzip", 0), E("deflate", 3)>>}

MCForms == {
  K("index", 0) :> <<Text>> @@ K("index", 2) :> <<N(-1)>> @@ K("open", 0) :> <<N(0), N(1)>>,
  K("plain", 0) :> <<N(3)>> @@ K("dot", 0) :> <<N(1)>> @@ K("bracket", 0) :> <<N(-2)>>,
  K("plain", 0) :> <<Blank>> @@ K("open", 0) :> <<N(5)>> @@ K("open", 1) :> <<N(1), Blank>>}

MCInputs ==
  {In("GET", <<>>, <<>>, FALSE), In("POST", <<>>, <<>>, FALSE)}
  \cup {In("GET", h, <<>>, static) : h \in MCHeaders, static \in BOOLEAN}
  \cup {In("GET", <<>>, f, FALSE) : f \in MCForms}

MCSymmetry == Permutations(Clients)
=============================================================================
