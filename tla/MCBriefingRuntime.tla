------------------------- MODULE MCBriefingRuntime -------------------------
(***************************************************************************)
(* Timers that are due at once, but for the login: their lengths are the   *)
(* business of ConnectionManager, here it is their order that matters.     *)
(***************************************************************************)
EXTENDS BriefingRuntime

MCBackoff == <<0>>
MCRecheckDelays == <<0, 0>>
=============================================================================
