----------------------------- MODULE MCReadCaches -----------------------------
(***************************************************************************)
(* Instances of ReadCaches for TLC.                                        *)
(***************************************************************************)
EXTENDS ReadCaches

==============================================================================
