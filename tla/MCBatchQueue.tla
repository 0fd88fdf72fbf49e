----------------------------- MODULE MCBatchQueue -----------------------------
(***************************************************************************)
(* Instances of BatchQueue for TLC.                                        *)
(***************************************************************************)
EXTENDS BatchQueue, FiniteSetsExt, TLC

CONSTANTS r1, r2, r3, r4, deA, deB, f1, f2

\* Two Data Extensions, and a row (r3) that is over the size limit by itself.
MCItems == {r1, r2, r3, r4}
MCDeKeys == {deA, deB}
MCDeKeyOf == (r1 :> deA) @@ (r2 :> deA) @@ (r3 :> deA) @@ (r4 :> deB)
MCSizeOf(i) == IF i = r3 THEN 4 ELSE 1
MCBytes == [S \in SUBSET MCItems |-> MapThenSumSet(MCSizeOf, S)]
MCFlushers == {f1, f2}

\* The instance of the liveness runs: two rows that share a batch, one that does
\* not, and a single flush call at a time.
MCFewItems == {r1, r2, r4}
MCOneFlusher == {f1}
MCFewKeys == [i \in MCFewItems |-> MCDeKeyOf[i]]
MCFewBytes == [S \in SUBSET MCFewItems |-> MapThenSumSet(MCSizeOf, S)]

\* The flushes are alike, and so are the rows r1 and r2.
MCSymmetry == Permutations(MCFlushers) \cup Permutations({r1, r2})
===============================================================================
