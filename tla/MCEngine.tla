------------------------------- MODULE MCEngine -------------------------------
EXTENDS Engine

Op(name, results, operands, types, attrs) ==
  [name |-> name, results |-> results, operands |-> operands, types |-> types,
   attrs |-> attrs, location |-> NoLocation]

\* Two values; two operations of one name that have nothing else in common.
MCCarriers == {Op("def", {1}, {}, "t", "none")}
MCOpForms  == MCCarriers \union {Op("use", {2}, {1}, "t", "none"),
                                 Op("use", {}, {1, 2}, "none", "a")}
MCSymbols  == <<"f", "g">>
=============================================================================
