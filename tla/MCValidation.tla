---------------------------- MODULE MCValidation ----------------------------
(* Validation over every file of up to three rows with up to two cells. *)
EXTENDS Validation

CONSTANT MaxRows, MaxCells

MCCell == {"", "a", " a", "b"}
MCStrip == [c \in MCCell |-> IF c = " a" THEN "a" ELSE c]

Rows == UNION {[1..n -> MCCell] : n \in 0..MaxCells}

(* Uploads whose rows do not all vary: empty, oversized, unreadable, *)
(* acceptable, malformed.  They are also the replacements.            *)
MCReplacement ==
  {[size |-> 0, readable |-> TRUE, rows |-> <<>>],
   [size |-> MaxSize + 1, readable |-> TRUE, rows |-> <<<<"a">>, <<"b">>>>],
   [size |-> 1, readable |-> FALSE, rows |-> <<>>],
   [size |-> MaxSize, readable |-> TRUE, rows |-> <<<<"a">>, <<>>, <<"b">>>>],
   [size |-> 1, readable |-> TRUE, rows |-> <<<<"", "a">>, <<"">>>>]}

MCFile ==
  {[size |-> MaxSize, readable |-> TRUE, rows |-> r] : r \in UNION {[1..n -> Rows] : n \in 1..MaxRows}}
    \cup MCReplacement
=============================================================================
