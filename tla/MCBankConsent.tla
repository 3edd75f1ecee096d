---------------------------- MODULE MCBankConsent ----------------------------
(* Small instances of BankConsent. *)
EXTENDS BankConsent, TLC

CONSTANTS t1, t2, c1, c2, i1, i2, i3

MCSymmetry == Permutations(Tasks) \cup Permutations(Clients)
              \cup Permutations(ConsentIds)
=============================================================================
