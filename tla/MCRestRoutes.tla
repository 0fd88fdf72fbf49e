---------------------------- MODULE MCRestRoutes ----------------------------
(***************************************************************************)
(* Instances of RestRoutes for TLC.                                        *)
(***************************************************************************)
EXTENDS RestRoutes, TLC

CONSTANTS c1, c2, c3

MCCallers == {c1, c2, c3}

\* The requests are alike.
MCSymmetry == Permutations(MCCallers)

\* A Format 1 click, an account event, a workflow response, one without its answers
\* and one the validator has to rewrite, a body with a version whose parts are no
\* objects, and one that is neither format.
MCNothing == [version |-> FALSE, type |-> Absent, workflow_id |-> FALSE,
              customer |-> Absent, message |-> Absent, event |-> Absent,
              data |-> Absent]
MCData(pairs) == [customer |-> Absent, message |-> Absent, event |-> Absent,
                  workflow_id |-> TRUE, pairs |-> pairs]
MCBodies ==
  {[MCNothing EXCEPT !.event = [click |-> "click"]],
   [MCNothing EXCEPT !.type = "account_update", !.data = MCData(Absent)],
   [MCNothing EXCEPT !.type = "workflow_response_update", !.data = MCData(3)],
   [MCNothing EXCEPT !.type = "workflow_response_update", !.data = MCData(Absent)],
   [MCNothing EXCEPT !.type = "workflow_response_update", !.data = Scalar,
                     !.workflow_id = TRUE, !.customer = "customer"],
   [MCNothing EXCEPT !.version = TRUE, !.event = Scalar],
   MCNothing}

MCGoodEvent == [f \in EventFields |-> "text"]
MCEvents ==
  {MCGoodEvent,
   [MCGoodEvent EXCEPT !.id = "blank"],
   [MCGoodEvent EXCEPT !.phoneNumber = Scalar],
   [MCGoodEvent EXCEPT !.result = Absent]}

\* For which Format 1 bodies both runtimes make the same; it has no state.
ASSUME FormatsAgree == RuntimesAgree
=============================================================================
