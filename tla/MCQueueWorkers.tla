---------------------------- MODULE MCQueueWorkers ----------------------------
(***************************************************************************)
(* Instances of QueueWorkers for TLC.                                      *)
(***************************************************************************)
EXTENDS QueueWorkers, TLC

CONSTANTS m1, m2, m3

\* m1 and m2 share a batch; m3 does not fit beside another message.
MCMessages == {m1, m2, m3}
MCBytes ==
  [S \in SUBSET MCMessages |-> Cardinality(S \cap {m1, m2}) + 3 * Cardinality(S \cap {m3})]

\* m1 and m2 are alike.
MCSymmetry == Permutations({m1, m2})

MCFewMessages == {m1, m2}
MCFewBytes == [S \in SUBSET MCFewMessages |-> Cardinality(S)]
===============================================================================
