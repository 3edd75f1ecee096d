--------------------------- MODULE MCCryptoLedger ---------------------------
(* Small instances of CryptoLedger.  Amounts are multiples of 4 so that both *)
(* buy prices divide them; the second quote is a market that has risen       *)
(* enough for a client to sell at a profit.                                  *)
EXTENDS CryptoLedger, TLC

CONSTANTS u1, u2, BTC, BNB

MCQuotes == {[buy |-> 2, sell |-> 1], [buy |-> 4, sell |-> 3]}
MCSymmetry == Permutations(Users)
=============================================================================
