SPECIFICATION Spec
CONSTANTS
  add = add
  mul = mul
  Names = {add, mul}
  Addresses = {a1, a2, a3}
  NoAddress = NoAddress
  Missing = Missing
  Start <- MCStart
  MaxStages = 2
  MaxChanges = 3
  MaxOps = 3
INVARIANTS
  ExactLinksAreLineage
  LinksAreFunctional
  UidsFollowLinks
  SurvivorsAreTraced
SYMMETRY AddressSymmetry
CHECK_DEADLOCK FALSE
