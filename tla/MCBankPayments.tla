---------------------------- MODULE MCBankPayments ----------------------------
(* Small instances of BankPayments. *)
EXTENDS BankPayments, TLC

CONSTANTS x1, x2, p1, p2, p3

MCSymmetry == Permutations(Transfers) \cup Permutations(ConsentIds)
=============================================================================
