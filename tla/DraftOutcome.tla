----------------------------- MODULE DraftOutcome -----------------------------
(***************************************************************************)
(* What one request for drafts promises, channel by channel: a draft is in *)
(* the database before the RM is shown it as done, is shown as done at     *)
(* most once, and is never shown as failed when it was saved.              *)
(***************************************************************************)
CONSTANT Channels

VARIABLE draft   \* draft[ch]: how far the draft of channel ch is

Init == draft = [ch \in Channels |-> "pending"]

Save(ch) ==
  /\ draft[ch] = "pending"
  /\ draft' = [draft EXCEPT ![ch] = "saved"]

Tell(ch) ==
  /\ draft[ch] = "saved"
  /\ draft' = [draft EXCEPT ![ch] = "told"]

Fail(ch) ==
  /\ draft[ch] = "pending"
  /\ draft' = [draft EXCEPT ![ch] = "failed"]

Next == \E ch \in Channels : Save(ch) \/ Tell(ch) \/ Fail(ch)

Spec == Init /\ [][Next]_draft

==============================================================================
