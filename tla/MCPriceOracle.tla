--------------------------- MODULE MCPriceOracle ---------------------------
(* A small instance of PriceOracle: prices in thousands of dollars, one of   *)
(* the answers outside the expected range.                                   *)
EXTENDS PriceOracle, TLC

CONSTANT BTC

MCLow == BTC :> 10
MCHigh == BTC :> 150
MCFallback == BTC :> 66
=============================================================================
