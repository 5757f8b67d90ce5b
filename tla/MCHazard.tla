----------------------------- MODULE MCHazard ------------------------------
EXTENDS Hazard, TLC

CONSTANTS a, b

MCParent == (a :> NoRef) @@ (b :> a)

\* A state after the race is not of interest to the properties.
NotRaced == ~ raced

Symm == Permutations(Pages) \union Permutations(Cursors) \union Permutations(Evictors)
=============================================================================
