---------------------------- MODULE MCDraftStream -----------------------------
(***************************************************************************)
(* Instances of DraftStream for TLC.                                       *)
(***************************************************************************)
EXTENDS DraftStream

\* Both options, with a word to be replaced and one that is left, cut in two;
\* one option only.
MCDrafts ==
  {<< <<"option_a", "<PII_NAME>">>, <<"option_b", "[PHONE_1]", "end">> >>,
   << <<"option_a", "word", "end">> >>}

==============================================================================
