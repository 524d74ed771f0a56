---------------------------- MODULE MCXapiClient -----------------------------
(* One pull, a notification and a burst of pushes, with a few failures    *)
(* and a clock that may be set back, behind the credit earned, or forward. *)
EXTENDS XapiClient
=============================================================================
