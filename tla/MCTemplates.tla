----------------------------- MODULE MCTemplates ----------------------------
(* A page that uses two blocks that a part defines, then the part itself.  *)
(* The page is rendered, or is the layout of the part.  The part is        *)
(* removed and made again; its last version does not parse.                *)
EXTENDS Templates

Says(uses, defines, bad) == [uses |-> uses, defines |-> defines, bad |-> bad]

MCFiles == {"page", "part"}
MCDir   == [f \in MCFiles |-> "views"]
MCMax   == [f \in MCFiles |-> IF f = "page" THEN 2 ELSE 3]
MCText  ==
  LET blocks == {"head", "foot"} IN
  [f \in MCFiles |-> [v \in 1..3 |->
    CASE f = "page" /\ v = 1 -> Says(blocks, {}, FALSE)
      [] f = "page" /\ v # 1 -> Says({"part"}, {}, FALSE)
      [] f = "part"          -> Says({}, blocks, v = 3)]]
MCPages ==
  {[tpl |-> "page", layout |-> None, sections |-> {}],
   [tpl |-> "part", layout |-> "page", sections |-> {"part"}]}
=============================================================================
