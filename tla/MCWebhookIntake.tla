--------------------------- MODULE MCWebhookIntake ---------------------------
(***************************************************************************)
(* Instances of WebhookIntake for TLC.                                     *)
(***************************************************************************)
EXTENDS WebhookIntake

CONSTANTS click1, click2, workflow, empty

\* Two clicks on one message, which share an id; a workflow response with two
\* answers; a body that is no webhook.
MCWebhooks == {click1, click2, workflow, empty}

MCNothing == [version |-> FALSE, type |-> Absent, workflow_id |-> FALSE,
              customer |-> Absent, message |-> Absent, event |-> Absent,
              data |-> Absent]
MCClick == [MCNothing EXCEPT !.message = [status |-> "Read", click |-> "missing"],
                             !.event = [click |-> "click"]]
MCBodyOf == [w \in MCWebhooks |->
  CASE w \in {click1, click2} -> MCClick
    [] w = workflow -> [MCNothing EXCEPT !.type = "workflow_response_update",
                          !.data = [customer |-> Absent, message |-> Absent,
                                    event |-> Absent, workflow_id |-> TRUE,
                                    pairs |-> 2]]
    [] w = empty -> MCNothing]
MCMessageIdOf == [w \in MCWebhooks |->
                    IF w \in {click1, click2} THEN "message" ELSE Absent]

\* No header, as Interakt sends it, and one.
MCHeaders == {"none", "good"}

\* With and without the queue, with and without a secret, and without a Data
\* Extension.
MCEnvironments ==
  {[queue |-> TRUE, local |-> FALSE, secret |-> TRUE, deKey |-> TRUE],
   [queue |-> FALSE, local |-> TRUE, secret |-> FALSE, deKey |-> TRUE],
   [queue |-> TRUE, local |-> TRUE, secret |-> TRUE, deKey |-> FALSE]}
=============================================================================
