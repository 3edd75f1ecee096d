-------------------------- MODULE PriceOracleProofs --------------------------
(***************************************************************************)
(* What holds of the oracle for all symbols, ranges, answers and caches,   *)
(* and of its quotes for every price, volatility and imbalance.            *)
(***************************************************************************)
EXTENDS PriceOracle, FiniteInduction, TLAPS

-----------------------------------------------------------------------------
(* Quotes *)

\* The spread lies between two and five percent whatever the volatility and the
\* imbalance of the clients.
LEMMA SpreadRange ==
  ASSUME NEW volatility \in Nat, NEW imbalance \in 0 .. 100
  PROVE  Spread(volatility, imbalance) \in 200 .. 500
<1>1. Least(volatility \div 2, 300) \in Nat
  BY DEF Least
<1>2. Abs(imbalance - 50) \in Nat
  BY DEF Abs
<1> QED
  BY <1>1, <1>2 DEF Spread, Least

\* Multiplication by a price keeps the order.
LEMMA TimesMonotone ==
  \A m \in Nat \ {0} : \A a, b \in Int : a < b => m * a < m * b
OBVIOUS

\* At one market price no sale quoted by calculate_spread brings as much as any
\* purchase quoted by it costs, however volatility and imbalance have moved the
\* spread in between.
THEOREM QuotesNeverCross ==
  ASSUME NEW market \in Nat \ {0},
         NEW v1 \in Nat, NEW v2 \in Nat, NEW i1 \in 0 .. 100, NEW i2 \in 0 .. 100
  PROVE  SellPrice(market, Spread(v1, i1)) < BuyPrice(market, Spread(v2, i2))
<1> DEFINE a == Spread(v1, i1)
           b == Spread(v2, i2)
<1>1. a \in 200 .. 500 /\ b \in 200 .. 500
  BY SpreadRange
<1> HIDE DEF a, b
<1>2. 20000 - a \in Int /\ 20000 + b \in Int /\ 20000 - a < 20000 + b
  BY <1>1
<1>3. market * (20000 - a) < market * (20000 + b)
  BY ONLY <1>2, TimesMonotone
<1> QED
  BY <1>3 DEF SellPrice, BuyPrice, a, b

-----------------------------------------------------------------------------
(* The cache *)

CacheInv ==
  /\ known \in [Symbols -> Nat]
  /\ age \in [Symbols -> 0 .. Ttl + 1]
  /\ history \in [Symbols -> Seq(Nat)]
  /\ answer \in [Symbols -> Nat]
  /\ PricesPlausible
  /\ AnswersStayInCache

\* The median of valid prices is valid.
LEMMA MedianValid ==
  ASSUME NEW s \in Symbols, NEW p \in Medians(s)
  PROVE  p \in Nat \ {0} /\ IsValidPrice(s, p)
<1>1. PICK a \in Answers, b \in Answers :
        IsValidPrice(s, a) /\ IsValidPrice(s, b) /\ p = (a + b) \div 2
  BY DEF Medians
<1>2. a \in Nat \ {0} /\ b \in Nat \ {0} /\ Low[s] \in Nat \ {0} /\ High[s] \in Nat
  BY OracleAssumption
<1>3. (a + b) \div 2 \in Nat /\ (a >= b => b <= (a + b) \div 2 /\ (a + b) \div 2 <= a)
      /\ (a <= b => a <= (a + b) \div 2 /\ (a + b) \div 2 <= b)
  BY <1>2
<1> QED
  BY <1>1, <1>2, <1>3 DEF IsValidPrice

\* The constant prices are valid too.
LEMMA FallbackValid ==
  ASSUME NEW s \in Symbols
  PROVE  Fallback[s] \in Nat \ {0} /\ IsValidPrice(s, Fallback[s])
BY OracleAssumption DEF IsValidPrice

\* Remembering a valid price keeps a history valid.
LEMMA RememberedFacts ==
  ASSUME NEW s \in Symbols, NEW h \in Seq(Nat), NEW p \in Nat, IsValidPrice(s, p),
         \A i \in DOMAIN h : IsValidPrice(s, h[i])
  PROVE  /\ Remembered(h, p) \in Seq(Nat)
         /\ \A i \in DOMAIN Remembered(h, p) : IsValidPrice(s, Remembered(h, p)[i])
<1> DEFINE longer == Append(h, p)
<1>1. longer \in Seq(Nat) /\ Len(longer) = Len(h) + 1 /\ longer # <<>>
  OBVIOUS
<1>2. \A i \in 1 .. Len(longer) : IsValidPrice(s, longer[i])
  OBVIOUS
<1> HIDE DEF longer
<1>3. /\ Tail(longer) \in Seq(Nat)
      /\ \A i \in DOMAIN Tail(longer) : IsValidPrice(s, Tail(longer)[i])
  BY <1>1, <1>2
<1>4. Remembered(h, p) \in {longer, Tail(longer)}
  BY DEF Remembered, longer
<1>5. \A i \in DOMAIN longer : IsValidPrice(s, longer[i])
  BY <1>1, <1>2
<1> QED
  BY <1>1, <1>3, <1>4, <1>5

\* What get_market_price does to the cache, and that its answer is the cached
\* price whenever the cache is fresh afterwards.
LEMMA MarketPriceKeeps ==
  ASSUME CacheInv, NEW s \in Symbols, NEW p, MarketPrice(s, p)
  PROVE  /\ known' \in [Symbols -> Nat]
         /\ age' \in [Symbols -> 0 .. Ttl + 1]
         /\ history' \in [Symbols -> Seq(Nat)]
         /\ p \in Nat \ {0} /\ IsValidPrice(s, p)
         /\ \A t \in Symbols \ {s} : known'[t] = known[t] /\ age'[t] = age[t]
         /\ known'[s] # NoPrice => IsValidPrice(s, known'[s])
         /\ age'[s] <= Ttl => known'[s] = p
         /\ \A t \in Symbols : \A i \in DOMAIN history'[t] : IsValidPrice(t, history'[t][i])
<1>1. /\ known \in [Symbols -> Nat]
      /\ age \in [Symbols -> 0 .. Ttl + 1]
      /\ history \in [Symbols -> Seq(Nat)]
      /\ known[s] # NoPrice => IsValidPrice(s, known[s])
      /\ \A t \in Symbols : \A i \in DOMAIN history[t] : IsValidPrice(t, history[t][i])
      /\ age[s] <= Ttl => known[s] # NoPrice
      /\ Ttl \in Nat
  BY OracleAssumption DEF CacheInv, PricesPlausible, AnswersStayInCache
<1>2. ASSUME NEW q \in Nat, IsValidPrice(s, q), history' = [history EXCEPT ![s] = Remembered(@, q)]
      PROVE  /\ history' \in [Symbols -> Seq(Nat)]
             /\ \A t \in Symbols : \A i \in DOMAIN history'[t] : IsValidPrice(t, history'[t][i])
  <2>1. /\ Remembered(history[s], q) \in Seq(Nat)
        /\ \A i \in DOMAIN Remembered(history[s], q) : IsValidPrice(s, Remembered(history[s], q)[i])
    BY <1>1, <1>2, RememberedFacts
  <2>2. /\ history'[s] = Remembered(history[s], q)
        /\ \A t \in Symbols \ {s} : history'[t] = history[t]
    BY <1>1, <1>2
  <2>3. history' \in [Symbols -> Seq(Nat)]
    BY <1>1, <1>2, <2>1
  <2> QED
    BY <1>1, <2>1, <2>2, <2>3
<1>3. CASE age[s] <= Ttl /\ p = known[s] /\ UNCHANGED cacheVars
  BY <1>1, <1>3 DEF cacheVars, NoPrice
<1>4. CASE /\ age[s] > Ttl
           /\ p \in Medians(s)
           /\ known' = [known EXCEPT ![s] = p]
           /\ age' = [age EXCEPT ![s] = 0]
           /\ history' = [history EXCEPT ![s] = Remembered(@, p)]
  <2>1. p \in Nat \ {0} /\ IsValidPrice(s, p)
    BY <1>4, MedianValid
  <2>2. /\ history' \in [Symbols -> Seq(Nat)]
        /\ \A t \in Symbols : \A i \in DOMAIN history'[t] : IsValidPrice(t, history'[t][i])
    BY <1>2, <1>4, <2>1
  <2> QED
    BY <1>1, <1>4, <2>1, <2>2
<1>5. CASE /\ age[s] > Ttl
           /\ p = Fallback[s]
           /\ history' = [history EXCEPT ![s] = Remembered(@, p)]
           /\ UNCHANGED <<known, age>>
  <2>1. p \in Nat \ {0} /\ IsValidPrice(s, p)
    BY <1>5, FallbackValid
  <2>2. /\ history' \in [Symbols -> Seq(Nat)]
        /\ \A t \in Symbols : \A i \in DOMAIN history'[t] : IsValidPrice(t, history'[t][i])
    BY <1>2, <1>5, <2>1
  <2> QED
    BY <1>1, <1>5, <2>1, <2>2
<1> QED
  BY <1>3, <1>4, <1>5 DEF MarketPrice

\* The prices asked for at the start are valid or the constants.
LEMMA InitCacheInv == Init => CacheInv
<1> SUFFICES ASSUME Init PROVE CacheInv
  OBVIOUS
<1>1. PICK first \in [Listed -> UNION {Medians(s) : s \in Listed} \cup {NoPrice}] :
        /\ \A s \in Listed : first[s] \in Medians(s) \cup {NoPrice}
        /\ known = [s \in Symbols |-> IF s \in Listed THEN first[s] ELSE NoPrice]
        /\ age = [s \in Symbols |-> IF known[s] # NoPrice THEN 0 ELSE Ttl + 1]
        /\ history = [s \in Symbols |->
                        IF s \notin Listed THEN <<>>
                        ELSE <<IF first[s] # NoPrice THEN first[s] ELSE Fallback[s]>>]
        /\ answer = known
  BY DEF Init
<1>2. \A s \in Symbols : known[s] \in Nat /\ (known[s] # NoPrice => IsValidPrice(s, known[s]))
  BY <1>1, MedianValid DEF NoPrice
<1>3. known \in [Symbols -> Nat]
  BY <1>1, <1>2
<1>4. age \in [Symbols -> 0 .. Ttl + 1] /\ \A s \in Symbols : age[s] <= Ttl => known[s] # NoPrice
  BY <1>1, OracleAssumption
<1>5. ASSUME NEW s \in Symbols
      PROVE  history[s] \in Seq(Nat) /\ \A i \in DOMAIN history[s] : IsValidPrice(s, history[s][i])
  <2>1. CASE s \notin Listed
    BY <1>1, <2>1
  <2>2. CASE s \in Listed
    <3> DEFINE p == IF first[s] # NoPrice THEN first[s] ELSE Fallback[s]
    <3>1. p \in Nat /\ IsValidPrice(s, p)
      BY <1>1, <2>2, MedianValid, FallbackValid
    <3>2. history[s] = <<p>>
      BY <1>1, <2>2
    <3> HIDE DEF p
    <3> QED
      BY <3>1, <3>2
  <2> QED
    BY <2>1, <2>2
<1>6. history \in [Symbols -> Seq(Nat)]
  BY <1>1, <1>5
<1> QED
  BY <1>1, <1>2, <1>3, <1>4, <1>5, <1>6 DEF CacheInv, PricesPlausible, AnswersStayInCache

\* Calls and the passing of time keep the cache and the history plausible.
LEMMA NextCacheInv == CacheInv /\ [Next]_vars => CacheInv'
<1> SUFFICES ASSUME CacheInv, [Next]_vars PROVE CacheInv'
  OBVIOUS
<1>1. ASSUME NEW s \in Symbols, NEW p, MarketPrice(s, p), answer' = [answer EXCEPT ![s] = p]
      PROVE  CacheInv'
  BY <1>1, MarketPriceKeeps DEF CacheInv, PricesPlausible, AnswersStayInCache, NoPrice
<1>2. ASSUME NEW s \in Symbols, Price(s) PROVE CacheInv'
  BY <1>1, <1>2 DEF Price
<1>3. ASSUME NEW s \in Symbols, NEW i \in Imbalances, Quote(s, i) PROVE CacheInv'
  BY <1>1, <1>3 DEF Quote, Answered
<1>4. CASE Tick
  <2>1. /\ age' = [s \in Symbols |-> Least(age[s] + 1, Ttl + 1)]
        /\ UNCHANGED <<known, history, answer>>
    BY <1>4 DEF Tick
  <2>2. \A s \in Symbols : age[s] \in 0 .. Ttl + 1 /\ Ttl \in Nat
    BY OracleAssumption DEF CacheInv
  <2>3. \A s \in Symbols : age'[s] \in 0 .. Ttl + 1 /\ (age'[s] <= Ttl => age[s] <= Ttl)
    BY <2>1, <2>2 DEF Least
  <2> QED
    BY <2>1, <2>3 DEF CacheInv, PricesPlausible, AnswersStayInCache
<1>5. CASE UNCHANGED vars
  BY <1>5 DEF vars, CacheInv, PricesPlausible, AnswersStayInCache
<1> QED
  BY <1>2, <1>3, <1>4, <1>5 DEF Next

\* The invariant of which the theorems about prices are parts.
LEMMA CacheInvariant == Spec => []CacheInv
BY InitCacheInv, NextCacheInv, PTL DEF Spec

\* Every price the oracle answers, caches or remembers is in the range expected
\* of its symbol, whatever the exchanges answer.
THEOREM AlwaysPlausible == Spec => []PricesPlausible
BY CacheInvariant, PTL DEF CacheInv

\* While the cache is fresh its price is the one that was answered last.
THEOREM CacheAnswers == Spec => []AnswersStayInCache
BY CacheInvariant, PTL DEF CacheInv

-----------------------------------------------------------------------------
(* Quotes over time: the volatility is never negative, because prices are    *)
(* positive, so every spread is in the range of SpreadRange.                 *)

\* The places of a history are finitely many.
LEMMA PlacesFinite ==
  ASSUME NEW h \in Seq(Nat), NEW D, D \subseteq DOMAIN h
  PROVE  IsFiniteSet(D) /\ Cardinality(D) \in Nat
<1>1. Len(h) \in Int /\ DOMAIN h = 1 .. Len(h) /\ 1 \in Int
  OBVIOUS
<1>2. IsFiniteSet(DOMAIN h)
  BY <1>1, FS_Interval
<1> QED
  BY <1>2, FS_Subset, FS_CardinalityType

\* The greatest and the least of the newest prices exist; one is not below the other.
LEMMA NewestRange ==
  ASSUME NEW h \in Seq(Nat), Len(h) > 0
  PROVE  Max(Newest(h)) - Min(Newest(h)) \in Nat
<1> DEFINE D == {j \in DOMAIN h : j > Len(h) - VolatilityWindow}
<1>1. IsFiniteSet(D)
  BY PlacesFinite
<1>2. VolatilityWindow \in Nat \ {0}
  BY OracleAssumption
<1>3. D # {}
  <2>1. Len(h) \in D
    BY <1>2
  <2> QED
    BY <2>1
<1>4. \A j \in D : h[j] \in Nat
  OBVIOUS
<1>5. Newest(h) = {h[j] : j \in D}
  BY DEF Newest
<1> HIDE DEF D
<1>6. \E x \in Newest(h) : \A y \in Newest(h) : x >= y
  <2>1. PICK j \in D : \A i \in D : h[i] <= h[j]
    BY <1>1, <1>3, <1>4, GreatestValue
  <2> QED
    BY <1>4, <1>5, <2>1
<1>7. \E x \in Newest(h) : \A y \in Newest(h) : x =< y
  <2> DEFINE f == [j \in D |-> -h[j]]
  <2>1. \A j \in D : f[j] \in Int /\ f[j] = -h[j]
    BY <1>4
  <2> HIDE DEF f
  <2>2. PICK j \in D : \A i \in D : f[i] <= f[j]
    BY <1>1, <1>3, <2>1, GreatestValue
  <2>3. \A i \in D : h[j] <= h[i]
    BY <1>4, <2>1, <2>2
  <2> QED
    BY <1>4, <1>5, <2>3
<1>8. Max(Newest(h)) \in Newest(h) /\ \A y \in Newest(h) : Max(Newest(h)) >= y
  BY <1>6 DEF Max
<1>9. Min(Newest(h)) \in Newest(h)
  BY <1>7 DEF Min
<1>10. Newest(h) \subseteq Nat
  BY <1>4, <1>5
<1> QED
  BY <1>8, <1>9, <1>10

\* A quotient of natural numbers is one.
LEMMA QuotientIsNatural == \A a \in Nat : \A b \in Nat \ {0} : a \div b \in Nat
OBVIOUS

\* The volatility of positive prices is not negative.
LEMMA VolatilityNatural ==
  ASSUME NEW h \in Seq(Nat), \A i \in DOMAIN h : h[i] # 0
  PROVE  Volatility(h) \in Nat
<1> DEFINE D == {j \in DOMAIN h : j > Len(h) - VolatilityWindow}
           range == Max(Newest(h)) - Min(Newest(h))
           total == SumFunctionOnSet(h, D)
<1>1. CASE Len(h) < VolatilityMin
  BY <1>1 DEF Volatility
<1>2. CASE ~(Len(h) < VolatilityMin)
  <2>1. VolatilityMin \in Nat \ {0} /\ VolatilityWindow \in Nat \ {0}
    BY OracleAssumption
  <2>2. Len(h) > 0 /\ Len(h) \in Nat
    BY <1>2, <2>1
  <2>3. range \in Nat
    BY <2>2, NewestRange
  <2>4. IsFiniteSet(D) /\ Cardinality(D) \in Nat
    BY PlacesFinite
  <2>5. D # {}
    <3>1. Len(h) \in D
      BY <2>1, <2>2
    <3> QED
      BY <3>1
  <2>6. \A j \in D : h[j] \in Nat \ {0}
    OBVIOUS
  <2>7. Volatility(h) = (range * Cardinality(D) * 1000) \div total
    BY <1>2 DEF Volatility
  <2> HIDE DEF D, range
  <2>8. total \in Nat \ {0}
    BY <2>4, <2>5, <2>6, SumOfPositives
  <2> HIDE DEF total
  <2>9. range * Cardinality(D) * 1000 \in Nat
    BY <2>3, <2>4
  <2> QED
    BY <2>7, <2>8, <2>9, QuotientIsNatural
<1> QED
  BY <1>1, <1>2

\* The purchases and sales quoted since the market price changed lie on their sides of it.
QuotedInv ==
  /\ cheapest \in [Symbols -> Nat] /\ dearest \in [Symbols -> Nat]
  /\ \A s \in Symbols :
       /\ cheapest[s] # NoPrice => answer[s] # 0 /\ cheapest[s] >= BuyPrice(answer[s], 200)
       /\ dearest[s] # NoPrice => dearest[s] <= SellPrice(answer[s], 200)

\* The sides of a quote, whatever its spread.
LEMMA QuoteSides ==
  ASSUME NEW p \in Nat \ {0}, NEW spread \in 200 .. 500
  PROVE  /\ BuyPrice(p, spread) \in Nat \ {0} /\ BuyPrice(p, spread) >= BuyPrice(p, 200)
         /\ SellPrice(p, spread) \in Nat /\ SellPrice(p, spread) <= SellPrice(p, 200)
<1> DEFINE a == 20000 + spread
           b == 20000 - spread
<1>1. a >= 20200 /\ b <= 19800 /\ b \in Nat /\ a \in Nat \ {0}
  OBVIOUS
<1>2. BuyPrice(p, spread) = p * a /\ SellPrice(p, spread) = p * b
  BY DEF BuyPrice, SellPrice
<1>3. BuyPrice(p, 200) = p * 20200 /\ SellPrice(p, 200) = p * 19800
  BY DEF BuyPrice, SellPrice
<1> HIDE DEF a, b
<1>4. \A m \in Nat \ {0} : \A x \in Nat : m * x \in Nat /\ (x # 0 => m * x # 0)
  OBVIOUS
<1>5. \A m \in Nat \ {0} : \A x, y \in Nat : x <= y => m * x <= m * y
  OBVIOUS
<1>6. p * a \in Nat \ {0} /\ p * b \in Nat
  BY ONLY <1>1, <1>4, p \in Nat \ {0}
<1>7. p * 20200 <= p * a
  BY ONLY <1>1, <1>5, p \in Nat \ {0}
<1>8. p * b <= p * 19800
  BY ONLY <1>1, <1>5, p \in Nat \ {0}
<1> QED
  BY <1>2, <1>3, <1>6, <1>7, <1>8

\* A call that answers the same price keeps the quotes, one that answers another forgets them.
LEMMA AnswerKeepsQuoted ==
  ASSUME QuotedInv, NEW s \in Symbols, NEW p \in Nat \ {0}, NEW c \in Nat, NEW d \in Nat,
         answer \in [Symbols -> Nat], answer' = [answer EXCEPT ![s] = p],
         cheapest' = [cheapest EXCEPT ![s] = c], dearest' = [dearest EXCEPT ![s] = d],
         c = NoPrice \/ (p = answer[s] /\ c = cheapest[s]) \/ c >= BuyPrice(p, 200),
         d = NoPrice \/ (p = answer[s] /\ d = dearest[s]) \/ d <= SellPrice(p, 200)
  PROVE  QuotedInv'
<1>1. cheapest' \in [Symbols -> Nat] /\ dearest' \in [Symbols -> Nat]
  BY DEF QuotedInv
<1> SUFFICES ASSUME NEW t \in Symbols
             PROVE  /\ cheapest'[t] # NoPrice => answer'[t] # 0 /\ cheapest'[t] >= BuyPrice(answer'[t], 200)
                    /\ dearest'[t] # NoPrice => dearest'[t] <= SellPrice(answer'[t], 200)
  BY <1>1 DEF QuotedInv
<1>2. CASE t # s
  BY <1>2 DEF QuotedInv
<1>3. CASE t = s
  <2>1. answer'[t] = p /\ cheapest'[t] = c /\ dearest'[t] = d /\ p # 0
    BY <1>3 DEF QuotedInv
  <2>2. p = answer[s] => /\ cheapest[s] # NoPrice => cheapest[s] >= BuyPrice(p, 200)
                         /\ dearest[s] # NoPrice => dearest[s] <= SellPrice(p, 200)
    BY DEF QuotedInv
  <2> QED
    BY <2>1, <2>2
<1> QED
  BY <1>2, <1>3

\* Quotes stay on their sides of the market price.
LEMMA QuotedNext == CacheInv /\ QuotedInv /\ [Next]_vars => QuotedInv'
<1> SUFFICES ASSUME CacheInv, QuotedInv, [Next]_vars PROVE QuotedInv'
  OBVIOUS
<1>1. CacheInv'
  BY NextCacheInv
<1>2. /\ answer \in [Symbols -> Nat]
      /\ cheapest \in [Symbols -> Nat] /\ dearest \in [Symbols -> Nat]
  BY DEF CacheInv, QuotedInv
<1>3. ASSUME NEW s \in Symbols, NEW i \in Imbalances, Quote(s, i)
      PROVE  QuotedInv'
  <2> DEFINE spread == Spread(Volatility(history'[s]), i)
  <2>1. PICK p : MarketPrice(s, p) /\ Answered(s, p, BuyPrice(p, spread), SellPrice(p, spread))
    BY <1>3 DEF Quote
  <2>2. p \in Nat \ {0}
    BY <2>1, MarketPriceKeeps
  <2>3. spread \in 200 .. 500
    <3> DEFINE h == history'[s]
    <3>1. h \in Seq(Nat) /\ \A j \in DOMAIN h : IsValidPrice(s, h[j])
      BY <1>1 DEF CacheInv, PricesPlausible
    <3>2. \A j \in DOMAIN h : h[j] # 0
      BY <3>1, OracleAssumption DEF IsValidPrice
    <3>3. i \in 0 .. 100
      BY OracleAssumption
    <3> HIDE DEF h
    <3>4. Volatility(h) \in Nat
      BY <3>1, <3>2, VolatilityNatural
    <3>5. Spread(Volatility(h), i) \in 200 .. 500
      BY <3>3, <3>4, SpreadRange
    <3> QED
      BY <3>5 DEF h
  <2> HIDE DEF spread
  <2> DEFINE buy == BuyPrice(p, spread)
             sell == SellPrice(p, spread)
  <2>4. /\ buy \in Nat \ {0} /\ buy >= BuyPrice(p, 200)
        /\ sell \in Nat /\ sell <= SellPrice(p, 200)
    BY <2>2, <2>3, QuoteSides
  <2>5. Answered(s, p, buy, sell)
    BY <2>1
  <2> HIDE DEF buy, sell
  <2> DEFINE c == IF p = answer[s] /\ cheapest[s] # NoPrice THEN Least(cheapest[s], buy) ELSE buy
             d == IF p = answer[s] /\ dearest[s] > sell THEN dearest[s] ELSE sell
  <2>6. /\ answer' = [answer EXCEPT ![s] = p]
        /\ cheapest' = [cheapest EXCEPT ![s] = c] /\ dearest' = [dearest EXCEPT ![s] = d]
    BY <2>5 DEF Answered
  <2>7. c \in Nat /\ ((p = answer[s] /\ c = cheapest[s]) \/ c >= BuyPrice(p, 200))
    BY <1>2, <2>4 DEF Least
  <2>8. d \in Nat /\ ((p = answer[s] /\ d = dearest[s]) \/ d <= SellPrice(p, 200))
    BY <1>2, <2>4
  <2> HIDE DEF c, d
  <2> QED
    BY <1>2, <2>2, <2>6, <2>7, <2>8, AnswerKeepsQuoted
<1>4. ASSUME NEW s \in Symbols, Price(s)
      PROVE  QuotedInv'
  <2>1. PICK p : /\ MarketPrice(s, p)
                 /\ answer' = [answer EXCEPT ![s] = p]
                 /\ cheapest' = [cheapest EXCEPT ![s] = IF p = answer[s] THEN @ ELSE NoPrice]
                 /\ dearest' = [dearest EXCEPT ![s] = IF p = answer[s] THEN @ ELSE NoPrice]
    BY <1>4 DEF Price
  <2>2. p \in Nat \ {0}
    BY <2>1, MarketPriceKeeps
  <2> DEFINE c == IF p = answer[s] THEN cheapest[s] ELSE NoPrice
             d == IF p = answer[s] THEN dearest[s] ELSE NoPrice
  <2>3. /\ answer' = [answer EXCEPT ![s] = p]
        /\ cheapest' = [cheapest EXCEPT ![s] = c] /\ dearest' = [dearest EXCEPT ![s] = d]
    BY <2>1
  <2>4. c \in Nat /\ (c = NoPrice \/ (p = answer[s] /\ c = cheapest[s]))
    BY <1>2 DEF NoPrice
  <2>5. d \in Nat /\ (d = NoPrice \/ (p = answer[s] /\ d = dearest[s]))
    BY <1>2 DEF NoPrice
  <2> HIDE DEF c, d
  <2> QED
    BY <1>2, <2>2, <2>3, <2>4, <2>5, AnswerKeepsQuoted
<1>5. CASE UNCHANGED <<answer, cheapest, dearest>>
  BY <1>5 DEF QuotedInv
<1> QED
  BY <1>3, <1>4, <1>5 DEF Next, Tick, vars

\* Nobody gains by buying and selling while the market price stays: no sale is quoted at the
\* price of a purchase quoted before or after it, for every market price, history of prices
\* and imbalance.
THEOREM RoundTripsLose == Spec => []RoundTripLoses
<1>1. Init => QuotedInv
  BY DEF Init, QuotedInv, NoPrice
<1>2. CacheInv /\ QuotedInv => RoundTripLoses
  <2> SUFFICES ASSUME CacheInv, QuotedInv, NEW s \in Symbols, cheapest[s] # NoPrice, dearest[s] # NoPrice
               PROVE  dearest[s] < cheapest[s]
    BY DEF RoundTripLoses
  <2>1. /\ answer[s] \in Nat \ {0} /\ cheapest[s] \in Nat /\ dearest[s] \in Nat
        /\ cheapest[s] >= BuyPrice(answer[s], 200) /\ dearest[s] <= SellPrice(answer[s], 200)
    BY DEF CacheInv, QuotedInv
  <2>2. BuyPrice(answer[s], 200) = answer[s] * 20200 /\ SellPrice(answer[s], 200) = answer[s] * 19800
    BY DEF BuyPrice, SellPrice
  <2> QED
    BY <2>1, <2>2
<1> QED
  BY CacheInvariant, QuotedNext, <1>1, <1>2, PTL DEF Spec

\* No history grows beyond HistoryCap prices.
LEMMA HistoryCapped ==
  ASSUME CacheInv, \A s \in Symbols : Len(history[s]) <= HistoryCap, [Next]_vars
  PROVE  \A s \in Symbols : Len(history'[s]) <= HistoryCap
<1>1. history \in [Symbols -> Seq(Nat)] /\ HistoryCap \in Nat
  BY OracleAssumption DEF CacheInv
<1>2. ASSUME NEW s \in Symbols, NEW p, MarketPrice(s, p)
      PROVE  \A t \in Symbols : Len(history'[t]) <= HistoryCap
  <2>1. p \in Nat \ {0}
    BY <1>2, MarketPriceKeeps
  <2>2. history' = history \/ history' = [history EXCEPT ![s] = Remembered(@, p)]
    BY <1>2 DEF MarketPrice, cacheVars
  <2>3. Len(Remembered(history[s], p)) <= HistoryCap
    <3> DEFINE longer == Append(history[s], p)
    <3>1. longer \in Seq(Nat) /\ Len(longer) = Len(history[s]) + 1 /\ longer # <<>>
      BY <1>1, <2>1
    <3>2. Len(history[s]) \in Nat /\ Len(history[s]) <= HistoryCap
      BY <1>1
    <3>3. Remembered(history[s], p) = IF Len(longer) > HistoryCap THEN Tail(longer) ELSE longer
      BY DEF Remembered
    <3> HIDE DEF longer
    <3>4. Len(Tail(longer)) = Len(longer) - 1
      BY <3>1
    <3> QED
      BY <1>1, <3>1, <3>2, <3>3, <3>4
  <2> QED
    BY <1>1, <2>2, <2>3
<1>3. CASE UNCHANGED history
  BY <1>3
<1> QED
  BY <1>2, <1>3 DEF Next, Price, Quote, Tick, vars

\* The variables of the oracle keep their types; histories stay as short as HistoryCap.
THEOREM TypeCorrect == Spec => []TypeOK
<1> DEFINE Capped == \A s \in Symbols : Len(history[s]) <= HistoryCap
<1>1. Init => QuotedInv /\ Capped
  <2> SUFFICES ASSUME Init PROVE QuotedInv /\ Capped
    OBVIOUS
  <2>1. QuotedInv
    BY DEF Init, QuotedInv, NoPrice
  <2>2. HistoryCap \in Nat \ {0}
    BY OracleAssumption
  <2>3. ASSUME NEW s \in Symbols
        PROVE  Len(history[s]) <= HistoryCap
    <3>1. history[s] = <<>> \/ \E p : history[s] = <<p>>
      BY DEF Init
    <3>2. CASE history[s] = <<>>
      BY <2>2, <3>2
    <3>3. ASSUME NEW p, history[s] = <<p>>
          PROVE  Len(history[s]) <= HistoryCap
      <4>1. Len(history[s]) = 1
        BY <3>3
      <4> QED
        BY <2>2, <4>1
    <3> QED
      BY <3>1, <3>2, <3>3
  <2> QED
    BY <2>1, <2>3
<1>2. CacheInv /\ Capped /\ [Next]_vars => Capped'
  BY HistoryCapped
<1>3. CacheInv /\ QuotedInv /\ Capped => TypeOK
  BY DEF CacheInv, QuotedInv, TypeOK
<1> QED
  BY CacheInvariant, QuotedNext, <1>1, <1>2, <1>3, PTL DEF Spec
=============================================================================
