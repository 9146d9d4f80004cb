------------------------------- MODULE MCIngestion -------------------------------
(* Instances of the ingestion transactions for TLC.                         *)
EXTENDS Ingestion, TLC

Trusted(v, t, received) ==
    [value |-> v, measured |-> t, synchronised |-> TRUE, received |-> received]

It(d, n, r) == [dev |-> d, n |-> n, reading |-> r]

MCOwner == [d \in Devices |-> IF d = 3 THEN "g2" ELSE "g1"]

\* Device 1 reports 31, 32 (opens an episode) and then 20, 19 (resolves it); the
\* same events are sent again in other batches, one of them with a later receipt
\* time, one with other bytes.
E1  == It(1, 1, Trusted(31, 0, 0))
E2  == It(1, 2, Trusted(32, 1, 0))
E3  == It(1, 3, Trusted(20, 2, 1))
E4  == It(1, 4, [value |-> 19, measured |-> NoTime, synchronised |-> TRUE, received |-> 3])
E2r == It(1, 2, Trusted(32, 1, 2))
E1x == It(1, 1, Trusted(20, 0, 0))
E2x == It(1, 2, Trusted(20, 1, 1))
F1  == It(2, 1, Trusted(31, 0, 0))
F2  == It(2, 2, Trusted(99, 1, 1))
X1  == It(3, 1, Trusted(31, 0, 0))

AlertBatches == {<<E1, E2>>, <<E2r, E3>>, <<E3, E4>>, <<E2x>>}
LockBatches  == {<<F1, E1>>, <<E1, F1>>, <<E2, F1, X1>>, <<E1, E1x, F2>>}
Unstored     == {F2}

BudgetOf(submit, fault, registry_, heartbeat) ==
    [m \in Moves |-> CASE m = "submit" -> submit [] m = "fault" -> fault
                        [] m = "registry" -> registry_ [] m = "heartbeat" -> heartbeat]

\* The requests are interchangeable.
Symmetry == Permutations(Requests)

AlertBudget    == BudgetOf(4, 1, 0, 1)
LockBudget     == BudgetOf(2, 1, 2, 0)
=============================================================================
