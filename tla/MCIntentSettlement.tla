------------------------- MODULE MCIntentSettlement -------------------------
(***************************************************************************)
(* IntentSettlement for TLC: a quote with an intent, of the provider whose *)
(* orders may end in the most ways, with the shortest plan.                *)
(***************************************************************************)
EXTENDS IntentSettlement

IntentJobs == [provider : {"debridge"}, intent : {TRUE}, skip : {FALSE},
               tail : {<<"VERIFY", "COMPLETE">>}]
=============================================================================
