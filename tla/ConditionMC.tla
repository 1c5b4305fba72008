---------------------------- MODULE ConditionMC ----------------------------
(* Instances of Condition for TLC.                                          *)
EXTENDS Condition, TLC

CONSTANTS c1, c2, c3, p1, p2, k1, k2

TwoConsumers == {c1, c2}
ThreeConsumers == {c1, c2, c3}
OneProducer == {p1}
TwoProducers == {p1, p2}
OneCondition == {k1}
TwoConditions == {k1, k2}

\* Consumers, producers and conditions are each interchangeable.
Symmetry == Permutations(Consumers) \union Permutations(Producers)
               \union Permutations(Conditions)

=============================================================================
