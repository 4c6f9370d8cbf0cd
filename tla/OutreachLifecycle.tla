-------------------------- MODULE OutreachLifecycle --------------------------
(***************************************************************************)
(* What the outreach subsystem promises for each campaign, with no queue,  *)
(* worker, vault or provider in sight.  A campaign is a draft until a      *)
(* relationship manager approves it; only an approved campaign may reach a *)
(* provider; it is reported as sent only after a provider accepted it; and *)
(* the status shown to the RM climbs the delivery funnel and never falls   *)
(* back.  OutreachDispatch implements this module.                         *)
(***************************************************************************)
EXTENDS Naturals

CONSTANT Campaigns     \* the rows of outreach_campaigns

VARIABLES
  stage,     \* how far the campaign has gone towards a provider
  status     \* the delivery status GET /outreach/{id}/status reports

lifecycle == <<stage, status>>

Stages == {"draft", "approved", "accepted"}

\* The funnel of get_outreach_status, from its bottom to its top.
Funnel == {"pending", "sent", "delivered", "opened", "converted"}

FunnelRank == [s \in Funnel |->
                 CASE s = "pending"   -> 0
                   [] s = "sent"      -> 1
                   [] s = "delivered" -> 2
                   [] s = "opened"    -> 3
                   [] s = "converted" -> 4]

LInit ==
  /\ stage = [c \in Campaigns |-> "draft"]
  /\ status = [c \in Campaigns |-> "pending"]

\* An RM confirms the draft; a second approval changes nothing here.
LApprove(c) ==
  /\ stage[c] = "draft"
  /\ stage' = [stage EXCEPT ![c] = "approved"]
  /\ UNCHANGED status

\* A provider accepts the campaign's message for the first time.
LAccept(c) ==
  /\ stage[c] = "approved"
  /\ stage' = [stage EXCEPT ![c] = "accepted"]
  /\ UNCHANGED status

\* The campaign is recorded as sent.
LRecord(c) ==
  /\ stage[c] = "accepted"
  /\ status[c] = "pending"
  /\ status' = [status EXCEPT ![c] = "sent"]
  /\ UNCHANGED stage

\* A delivery receipt moves a sent campaign up the funnel, possibly by
\* several rungs when an intermediate receipt never came.
LProgress(c, s) ==
  /\ status[c] # "pending"
  /\ FunnelRank[status[c]] < FunnelRank[s]
  /\ status' = [status EXCEPT ![c] = s]
  /\ UNCHANGED stage

LNext ==
  \E c \in Campaigns :
    \/ LApprove(c)
    \/ LAccept(c)
    \/ LRecord(c)
    \/ \E s \in Funnel : LProgress(c, s)

LSpec == LInit /\ [][LNext]_lifecycle

==============================================================================
