---------------------------- MODULE MCUpsertRetry ----------------------------
(***************************************************************************)
(* Instances of UpsertRetry for TLC.                                       *)
(***************************************************************************)
EXTENDS UpsertRetry, TLC

CONSTANTS r1, r2, r3, r4, big, t1, t2, t3

MCRows == {r1, r2, r3, r4, big}
MCSizeOf == (r1 :> 2) @@ (r2 :> 2) @@ (r3 :> 2) @@ (r4 :> 1) @@ (big :> 4)

\* Calls that fit, that have to be split, and that hold a record too large.
MCCalls == {<<r1>>, <<r1, r2, r3, r4>>, <<r1, r4, r2, r3>>, <<r4, big>>,
            <<r1, r2, big, r3>>}

MCStatuses == {200, 204, 401, 404, 409, 429, 503}
MCAnswers ==
  [status : MCStatuses, code : {NoCode}]
    \cup [status : {0}, code : {"ECONNABORTED", "ECONNRESET"}]
MCTokens == {t1, t2, t3}

\* One answer of each kind for the runs that look for one behaviour.
MCFewCalls == {<<r1>>}
MCFewAnswers == [status : {200, 401, 429}, code : {NoCode}]
===============================================================================
