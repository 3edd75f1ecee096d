---------------------------- MODULE PriceOracle ----------------------------
(***************************************************************************)
(* RealTimePriceOracle of crypto_module: prices from up to five exchanges, *)
(* cached for a while, replaced by constants when no exchange answers, and *)
(* quoted with a spread that follows volatility and client imbalance.      *)
(*                                                                         *)
(* Exchanges are called synchronously, so one call of the oracle is one    *)
(* action.  get_price_info is a Price followed by a Quote at imbalance 50. *)
(* Prices are integers; shares of a price are ten-thousandths (base points)*)
(* and rounded down, and quoted prices are in 1/20000 of the price unit, so*)
(* that the two sides of a quote are exact.                                *)
(***************************************************************************)
EXTENDS Integers, Sequences, FiniteSets, Functions, FiniteSetsExt

CONSTANTS
  Symbols,       \* symbols clients ask for
  Listed,        \* symbols _initialize_prices asks for: BTC and ETH
  Answers,       \* prices exchanges answer
  Low, High,     \* expected_ranges of _is_valid_price, per symbol
                 \* (one that admits every answer where the code has none)
  Fallback,      \* current_prices of _get_realistic_fallback_price
  Imbalances,    \* client imbalance, in percent
  Ttl,           \* cache_ttl, in ticks
  HistoryCap,    \* 100: prices kept per symbol
  VolatilityMin, \* 5: fewer prices give the default volatility
  VolatilityWindow  \* 10: prices the volatility looks at

NoPrice == 0

ASSUME OracleAssumption ==
  /\ Listed \subseteq Symbols
  /\ Answers \subseteq Nat \ {0}
  /\ Low \in [Symbols -> Nat \ {0}] /\ High \in [Symbols -> Nat]
  /\ Fallback \in [Symbols -> Nat]
  /\ \A s \in Symbols : Low[s] <= Fallback[s] /\ Fallback[s] <= High[s]
  /\ Imbalances \subseteq 0 .. 100
  /\ {Ttl, HistoryCap, VolatilityMin, VolatilityWindow} \subseteq Nat \ {0}

VARIABLES
  known,     \* last_prices
  age,       \* time since last_update; Ttl + 1 when older or never updated
  history,   \* price_history
  answer,    \* history: the market price of the last call
  cheapest,  \* history: lowest purchase price since the market price changed
  dearest    \* history: highest sale price since then

cacheVars == <<known, age, history>>
vars == <<known, age, history, answer, cheapest, dearest>>

-----------------------------------------------------------------------------
(* Prices *)

IsValidPrice(s, p) == Low[s] <= p /\ p <= High[s]

\* Mutation: answers out of range count too.
MediansOfAll(s) == {(p + q) \div 2 : p, q \in Answers}

\* The median of the first one or two valid prices.
Medians(s) ==
  LET valid == {p \in Answers : IsValidPrice(s, p)}
  IN  {(p + q) \div 2 : p, q \in valid}

Remembered(h, p) ==
  LET longer == Append(h, p)
  IN  IF Len(longer) > HistoryCap THEN Tail(longer) ELSE longer

\* Mutation: the exchanges are asked although the cache is fresh.
MarketPriceUncached(s, p) ==
  \/ /\ p \in Medians(s)
     /\ known' = [known EXCEPT ![s] = p]
     /\ age' = [age EXCEPT ![s] = 0]
     /\ history' = [history EXCEPT ![s] = Remembered(@, p)]
  \/ /\ p = Fallback[s]
     /\ history' = [history EXCEPT ![s] = Remembered(@, p)]
     /\ UNCHANGED <<known, age>>

\* get_market_price: p from the cache, from exchanges, or, when none answers
\* with a valid price, the constant, which replaces even a price known before
\* and is not cached.
MarketPrice(s, p) ==
  \/ /\ age[s] <= Ttl
     /\ p = known[s]
     /\ UNCHANGED cacheVars
  \/ /\ age[s] > Ttl
     /\ p \in Medians(s)
     /\ known' = [known EXCEPT ![s] = p]
     /\ age' = [age EXCEPT ![s] = 0]
     /\ history' = [history EXCEPT ![s] = Remembered(@, p)]
  \/ /\ age[s] > Ttl
     /\ p = Fallback[s]
     /\ history' = [history EXCEPT ![s] = Remembered(@, p)]
     /\ UNCHANGED <<known, age>>

-----------------------------------------------------------------------------
(* Spreads *)

Abs(n) == IF n < 0 THEN -n ELSE n
Least(a, b) == IF a < b THEN a ELSE b

\* The newest prices of a history.
Newest(h) == {h[i] : i \in {j \in DOMAIN h : j > Len(h) - VolatilityWindow}}

\* Mutation: the change over the history instead of the range of its prices.
VolatilityOfChange(h) ==
  IF Len(h) < VolatilityMin THEN 100
  ELSE ((h[Len(h)] - h[1]) * 1000) \div h[1]

\* A tenth of the range of the newest prices, relative to their average.
Volatility(h) ==
  IF Len(h) < VolatilityMin THEN 100
  ELSE LET window == {j \in DOMAIN h : j > Len(h) - VolatilityWindow}
           range  == Max(Newest(h)) - Min(Newest(h))
       IN  (range * Cardinality(window) * 1000) \div SumFunctionOnSet(h, window)

Spread(volatility, imbalance) ==
  Least(200 + Least(volatility \div 2, 300) + 2 * Abs(imbalance - 50), 500)

BuyPrice(market, spread)  == market * (20000 + spread)
SellPrice(market, spread) == market * (20000 - spread)

-----------------------------------------------------------------------------
(* Calls *)

\* The history variables start over when the market price changes.
Answered(s, p, buy, sell) ==
  /\ answer' = [answer EXCEPT ![s] = p]
  /\ cheapest' = [cheapest EXCEPT ![s] = IF p = answer[s] /\ @ # NoPrice THEN Least(@, buy) ELSE buy]
  /\ dearest' = [dearest EXCEPT ![s] = IF p = answer[s] /\ @ > sell THEN @ ELSE sell]

\* get_market_price, as portfolios and hedges call it.
Price(s) ==
  \E p \in Medians(s) \cup {known[s], Fallback[s]} :
    /\ MarketPrice(s, p)
    /\ answer' = [answer EXCEPT ![s] = p]
    /\ cheapest' = [cheapest EXCEPT ![s] = IF p = answer[s] THEN @ ELSE NoPrice]
    /\ dearest' = [dearest EXCEPT ![s] = IF p = answer[s] THEN @ ELSE NoPrice]

\* calculate_spread: the volatility is the one after the price was fetched.
Quote(s, imbalance) ==
  \E p \in Medians(s) \cup {known[s], Fallback[s]} :
    LET spread == Spread(Volatility(history'[s]), imbalance)
    IN  /\ MarketPrice(s, p)
        /\ Answered(s, p, BuyPrice(p, spread), SellPrice(p, spread))

Tick ==
  /\ \E s \in Symbols : age[s] <= Ttl
  /\ age' = [s \in Symbols |-> Least(age[s] + 1, Ttl + 1)]
  /\ UNCHANGED <<known, history, answer, cheapest, dearest>>

\* _initialize_prices asks once for each listed symbol.
Init ==
  \E first \in [Listed -> UNION {Medians(s) : s \in Listed} \cup {NoPrice}] :
    /\ \A s \in Listed : first[s] \in Medians(s) \cup {NoPrice}
    /\ known = [s \in Symbols |-> IF s \in Listed THEN first[s] ELSE NoPrice]
    /\ age = [s \in Symbols |-> IF known[s] # NoPrice THEN 0 ELSE Ttl + 1]
    /\ history = [s \in Symbols |->
                    IF s \notin Listed THEN <<>>
                    ELSE <<IF first[s] # NoPrice THEN first[s] ELSE Fallback[s]>>]
    /\ answer = known
    /\ cheapest = [s \in Symbols |-> NoPrice]
    /\ dearest = [s \in Symbols |-> NoPrice]

Next ==
  \/ \E s \in Symbols : Price(s) \/ \E i \in Imbalances : Quote(s, i)
  \/ Tick

Spec == Init /\ [][Next]_vars

-----------------------------------------------------------------------------
(* Properties *)

TypeOK ==
  /\ known \in [Symbols -> Nat]
  /\ age \in [Symbols -> 0 .. Ttl + 1]
  /\ history \in [Symbols -> Seq(Nat)]
  /\ \A s \in Symbols : Len(history[s]) <= HistoryCap
  /\ answer \in [Symbols -> Nat]
  /\ cheapest \in [Symbols -> Nat]
  /\ dearest \in [Symbols -> Nat]

\* Whatever exchanges answer, every price that is answered, cached or
\* remembered lies in the range expected of its symbol.
PricesPlausible ==
  \A s \in Symbols :
    /\ known[s] # NoPrice => IsValidPrice(s, known[s])
    /\ answer[s] # NoPrice => IsValidPrice(s, answer[s])
    /\ \A i \in DOMAIN history[s] : IsValidPrice(s, history[s][i])

\* Until the cache expires every call answers the price it holds: exchanges that
\* fail meanwhile do not make the price jump to the fallback and back.
AnswersStayInCache ==
  \A s \in Symbols : age[s] <= Ttl => known[s] # NoPrice /\ answer[s] = known[s]

\* As long as the market price stays the same nobody gains by buying and
\* selling: no sale is quoted at the price of a purchase quoted before or after
\* it, although volatility and imbalance change the spread in between.
RoundTripLoses ==
  \A s \in Symbols :
    cheapest[s] # NoPrice /\ dearest[s] # NoPrice => dearest[s] < cheapest[s]
=============================================================================
