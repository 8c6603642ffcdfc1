----------------------------- MODULE MCSettlement -----------------------------
(* Small instances of Settlement for TLC. *)
EXTENDS Settlement

\* The statuses PaystackProvider::initiate_payout answers with.
PaystackReplies == {"accepted", "failed"}
==============================================================================
