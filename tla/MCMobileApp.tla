----------------------------- MODULE MCMobileApp -----------------------------
\* Two of the five clients, two of the three banks, and two of everything that
\* can be under way at a time.
EXTENDS MobileApp, TLC

CONSTANTS r1, r2, l1, l2, x1, x2

MCClients == {"team020-1", "team020-2"}
MCBanks == {"vbank", "abank"}

MCSymmetry == Permutations({r1, r2}) \cup Permutations({l1, l2}) \cup Permutations({x1, x2})
=============================================================================
