------------------------------- MODULE MCLineage -------------------------------
EXTENDS Lineage, TLC

CONSTANTS add, mul  \* names of operations

MCStart == <<add, add>>
AddressSymmetry == Permutations(Addresses)
=============================================================================
