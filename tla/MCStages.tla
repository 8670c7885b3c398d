----------------------------- MODULE MCStages -----------------------------
(* One invoice, one request at a time approving its referral. *)
EXTENDS CollectionStages

CONSTANT a1
===========================================================================
