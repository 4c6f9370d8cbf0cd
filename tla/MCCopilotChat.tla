---------------------------- MODULE MCCopilotChat -----------------------------
(***************************************************************************)
(* Instances of CopilotChat for TLC.                                       *)
(***************************************************************************)
EXTENDS CopilotChat

==============================================================================
