------------------------------ MODULE MCRouter ------------------------------
EXTENDS Router

CONSTANTS x, y

MCVars      == {x, y}
MCExtends   == {<<"a", "ab">>, <<"", "a">>, <<"", "ab">>, <<"", "b">>}
MCPathTpls  == {<<"a">>, <<x>>, <<y, "">>}
MCHostTpls  == {<<x>>, <<"bad">>}
MCQueryTpls == {<<y>>}
MCBadTpls   == {<<"bad">>}

Url(p, h, q) == [path |-> p, host |-> h, query |-> q]
MCUrls ==
  {Url(<<"a">>, "h", Nil), Url(<<"ab">>, "h", "q"), Url(<<"a", "b">>, "h", "q"),
   Url(<<"b", "">>, "h", Nil), Url(<<"b", "a", "a">>, "h", "q")}
=============================================================================
