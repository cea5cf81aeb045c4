------------------------- MODULE MCPaymentSettlement -------------------------
(* Small instances of PaymentSettlement for TLC. *)
EXTENDS PaymentSettlement, TLC

CONSTANTS r1, r2, k1, k2, k3, k4, w1, w2

\* FAILED stands for the outcomes that ask nothing of the rider: PENDING, UNKNOWN, FAILED.
MCOutcomes == {"SUCCEEDED", "DECLINED", "FAILED"}

MCSymmetry == Permutations(Workers) \cup Permutations(Keys)
=============================================================================
