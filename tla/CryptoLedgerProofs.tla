------------------------- MODULE CryptoLedgerProofs -------------------------
(***************************************************************************)
(* What holds of CryptoLedger for every set of users, coins, amounts and   *)
(* quotes and every value of the limits.                                   *)
(***************************************************************************)
EXTENDS CryptoLedger, FiniteInduction, TLAPS

\* A trade moves a whole number of units and of money, never a negative one.
LEMMA TradeAmounts ==
  ASSUME NEW q \in Quotes
  PROVE  /\ \A amount \in Amounts : amount \in Nat /\ amount \div q.buy \in Nat
         /\ \A units \in Nat : units * q.sell \in Nat
BY LedgerAssumption

\* A newly opened account is an account.
LEMMA EmptyAccountType == EmptyAccount \in Account
BY DEF EmptyAccount, Account

\* What saving an account changes, whether sqlite raises or not.
LEMMA StoreFacts ==
  ASSUME TypeOK, NEW u \in Users, NEW new \in Account, Store(u, new)
  PROVE  /\ accounts' \in [Users -> Account \cup {NoAccount}]
         /\ rows' \in [Users -> Account \cup {NoAccount}]
         /\ unsaved' \subseteq Users
         /\ accounts' = [accounts EXCEPT ![u] = new]
         /\ rows'[u] \in {new, EmptyAccount, rows[u]}
         /\ \A v \in Users \ {u} : rows'[v] = rows[v] /\ (v \in unsaved' <=> v \in unsaved)
         /\ u \notin unsaved' => rows'[u] = new
<1>1. PICK opened \in BOOLEAN, saved \in BOOLEAN :
        /\ rows' = [rows EXCEPT ![u] =
                      IF saved THEN new
                      ELSE IF accounts[u] = NoAccount /\ opened
                           THEN EmptyAccount ELSE @]
        /\ unsaved' = IF saved THEN unsaved \ {u} ELSE unsaved \cup {u}
  BY DEF Store
<1>2. accounts' = [accounts EXCEPT ![u] = new]
  BY DEF Store
<1>3. rows \in [Users -> Account \cup {NoAccount}] /\ accounts \in [Users -> Account \cup {NoAccount}]
      /\ unsaved \subseteq Users
  BY DEF TypeOK
<1>4. rows' \in [Users -> Account \cup {NoAccount}]
  BY <1>1, <1>3, EmptyAccountType
<1>5. CASE saved
  BY <1>1, <1>2, <1>3, <1>4, <1>5
<1>6. CASE ~saved
  BY <1>1, <1>2, <1>3, <1>4, <1>6
<1> QED
  BY <1>5, <1>6

\* Being within t of m.
LEMMA NearFacts ==
  ASSUME NEW m \in Int, NEW t \in Nat, NEW h \in (m - t) .. (m + t)
  PROVE  h \in Int /\ Abs(h - m) <= t
BY DEF Abs

\* What entering a trade in the risk book changes.
LEMMA RecordFacts ==
  ASSUME TypeOK, NEW u \in Users, NEW amount \in Nat, NEW side \in {"buy", "sell"},
         Record(u, amount, side)
  PROVE  /\ dailyVolume' \in Nat
         /\ netExposure' \in Int
         /\ positions' \in [Users -> Int]
         /\ hedged' \in Int
         /\ positions' = [positions EXCEPT ![u] = @ + Signed(amount, side)]
         /\ HedgeCoversExposure'
<1> DEFINE net == netExposure + Signed(amount, side)
<1>1. net \in Int /\ Signed(amount, side) \in Int
  BY DEF TypeOK, Signed
<1>2. /\ dailyVolume' = dailyVolume + amount
      /\ netExposure' = net
      /\ positions' = [positions EXCEPT ![u] = @ + Signed(amount, side)]
      /\ Hedge(net)
  BY DEF Record
<1> HIDE DEF net
<1>3. HedgeTolerance \in Nat /\ HedgeThreshold \in Nat
  BY LedgerAssumption
<1>4. hedged' \in Int /\ HedgeCoversExposure'
  <2>1. CASE Abs(net) > HedgeThreshold
    <3>1. hedged' \in net - HedgeTolerance .. net + HedgeTolerance
      BY <1>2, <2>1 DEF Hedge, Resized
    <3>2. hedged' \in Int /\ Abs(hedged' - net) <= HedgeTolerance
      BY <1>1, <1>3, <3>1, NearFacts
    <3> QED
      BY <1>2, <3>2 DEF HedgeCoversExposure
  <2>2. CASE ~(Abs(net) > HedgeThreshold)
    BY <1>2, <2>2 DEF Hedge, HedgeCoversExposure, Abs, TypeOK
  <2> QED
    BY <2>1, <2>2
<1> QED
  BY <1>1, <1>2, <1>4 DEF TypeOK

-----------------------------------------------------------------------------
(* Type correctness *)

\* The server starts with variables of their types.
LEMMA InitTypeOK == Init => TypeOK
BY LedgerAssumption DEF Init, TypeOK

\* Paying and trading turn an account into an account.
LEMMA PaidFacts ==
  ASSUME NEW a \in Account, NEW cash \in Int
  PROVE  /\ Paid(a, cash) \in Account
         /\ Paid(a, cash).fiat = a.fiat + cash
         /\ Paid(a, cash).units = a.units
BY DEF Paid, Account

\* What a trade leaves of an account: its fiat and one coin change.
LEMMA TradedFacts ==
  ASSUME NEW a \in Account, NEW cash \in Int, NEW c \in HeldCoins, NEW n \in Int
  PROVE  /\ Traded(a, cash, c, n) \in Account
         /\ Traded(a, cash, c, n).fiat = a.fiat + cash
         /\ Traded(a, cash, c, n).units[c] = a.units[c] + n
         /\ \A d \in HeldCoins \ {c} : Traded(a, cash, c, n).units[d] = a.units[d]
BY DEF Traded, Account

\* An entry of user_accounts is an account, and so is a newly opened one.
LEMMA OpenedFacts ==
  ASSUME TypeOK, NEW u \in Users
  PROVE  /\ Opened(u) \in Account
         /\ accounts[u] # NoAccount => accounts[u] \in Account
         /\ accounts[u] = NoAccount => Opened(u).fiat = 0
         /\ accounts[u] # NoAccount => Opened(u) = accounts[u]
BY EmptyAccountType DEF TypeOK, Opened, EmptyAccount

\* Saving, or failing to, keeps the table in step and never stores a debt.
LEMMA StoreKeeps ==
  ASSUME TypeOK, NEW u \in Users, NEW new \in Account, Store(u, new)
  PROVE  /\ StoredUnlessSaveFailed => StoredUnlessSaveFailed'
         /\ NoOverdraft /\ Solvent(new) => NoOverdraft'
<1>1. /\ accounts' = [accounts EXCEPT ![u] = new]
      /\ rows'[u] \in {new, EmptyAccount, rows[u]}
      /\ \A v \in Users \ {u} : rows'[v] = rows[v] /\ (v \in unsaved' <=> v \in unsaved)
      /\ u \notin unsaved' => rows'[u] = new
  BY StoreFacts
<1>2. StoredUnlessSaveFailed => StoredUnlessSaveFailed'
  BY <1>1 DEF StoredUnlessSaveFailed, TypeOK
<1>3. Solvent(EmptyAccount)
  BY DEF Solvent, EmptyAccount
<1>4. NoOverdraft /\ Solvent(new) => NoOverdraft'
  BY <1>1, <1>3 DEF NoOverdraft, TypeOK
<1> QED
  BY <1>2, <1>4

\* Exchanging fiat for units of a coin, as a purchase, a sale and a closing do:
\* the account, the table and the risk book move together.
LEMMA TradeKeeps ==
  ASSUME TypeOK, NEW u \in Users, NEW coin \in HeldCoins, NEW n \in Int,
         NEW amount \in Nat, NEW side \in {"buy", "sell"}, NEW cash \in Int,
         cash = -Signed(amount, side), accounts[u] # NoAccount,
         Store(u, Traded(accounts[u], cash, coin, n)), Record(u, amount, side),
         UNCHANGED <<recent, flowVars, uncredited, restarts>>
  PROVE  /\ TypeOK'
         /\ OnlyOpenAccountsTrade => OnlyOpenAccountsTrade'
         /\ FiatConservation => FiatConservation'
         /\ StoredUnlessSaveFailed => StoredUnlessSaveFailed'
         /\ HedgeCoversExposure'
         /\ NoOverdraft /\ accounts[u].fiat + cash >= 0 /\ accounts[u].units[coin] + n >= 0
              => NoOverdraft'
         /\ ClientLimit /\ positions[u] - cash <= MaxClientBalance => ClientLimit'
<1> DEFINE new == Traded(accounts[u], cash, coin, n)
<1>1. accounts[u] \in Account
  BY OpenedFacts
<1>2. /\ new \in Account
      /\ new.fiat = accounts[u].fiat + cash
      /\ new.units[coin] = accounts[u].units[coin] + n
      /\ \A d \in HeldCoins \ {coin} : new.units[d] = accounts[u].units[d]
  BY ONLY <1>1, TradedFacts
<1>3. Store(u, new)
  OBVIOUS
<1> HIDE DEF new
<1>4. /\ accounts' \in [Users -> Account \cup {NoAccount}]
      /\ rows' \in [Users -> Account \cup {NoAccount}]
      /\ unsaved' \subseteq Users
      /\ accounts' = [accounts EXCEPT ![u] = new]
      /\ rows'[u] \in {new, EmptyAccount, rows[u]}
      /\ \A v \in Users \ {u} : rows'[v] = rows[v] /\ (v \in unsaved' <=> v \in unsaved)
      /\ u \notin unsaved' => rows'[u] = new
  BY <1>2, <1>3, StoreFacts
<1>5. /\ dailyVolume' \in Nat /\ netExposure' \in Int /\ positions' \in [Users -> Int] /\ hedged' \in Int
      /\ positions' = [positions EXCEPT ![u] = @ + Signed(amount, side)]
      /\ HedgeCoversExposure'
  BY RecordFacts
<1>6. Signed(amount, side) = -cash /\ Signed(amount, side) \in Int
  BY DEF Signed
<1>7. positions' = [positions EXCEPT ![u] = @ - cash] /\ positions \in [Users -> Int]
  BY <1>5, <1>6 DEF TypeOK
<1>8. TypeOK'
  BY <1>4, <1>5 DEF TypeOK, flowVars
<1>9. OnlyOpenAccountsTrade => OnlyOpenAccountsTrade'
  BY <1>4, <1>7, <1>2, LedgerAssumption DEF OnlyOpenAccountsTrade, flowVars, TypeOK
<1>10. ASSUME FiatConservation PROVE FiatConservation'
  <2>1. /\ {paidIn, takenOut, lost} \subseteq [Users -> Nat]
        /\ paidIn' = paidIn /\ takenOut' = takenOut /\ lost' = lost
    BY DEF TypeOK, flowVars
  <2>2. new.fiat = paidIn[u] - takenOut[u] - lost[u] - positions'[u]
    <3>1. accounts[u].fiat = paidIn[u] - takenOut[u] - lost[u] - positions[u]
      BY <1>10 DEF FiatConservation
    <3>2. positions'[u] = positions[u] - cash /\ positions[u] \in Int
      BY <1>7
    <3> QED
      BY <1>2, <2>1, <3>1, <3>2
  <2>3. \A v \in Users \ {u} : accounts'[v] = accounts[v] /\ positions'[v] = positions[v]
    BY <1>4, <1>7 DEF TypeOK
  <2>4. accounts'[u] = new
    BY <1>4 DEF TypeOK
  <2> QED
    BY <1>10, <2>1, <2>2, <2>3, <2>4 DEF FiatConservation
<1>11. StoredUnlessSaveFailed => StoredUnlessSaveFailed'
  BY <1>2, <1>3, StoreKeeps
<1>12. ASSUME NoOverdraft, accounts[u].fiat + cash >= 0, accounts[u].units[coin] + n >= 0
       PROVE  NoOverdraft'
  <2>1. Solvent(new)
    BY <1>1, <1>2, <1>12 DEF Solvent, NoOverdraft
  <2> QED
    BY <1>2, <1>3, <1>12, <2>1, StoreKeeps
<1>13. ClientLimit /\ positions[u] - cash <= MaxClientBalance => ClientLimit'
  BY <1>7 DEF ClientLimit
<1> QED
  BY <1>5, <1>8, <1>9, <1>10, <1>11, <1>12, <1>13

-----------------------------------------------------------------------------
(* The inductive invariant.  The cash book and the risk book agree only       *)
(* because users without an account in memory have no entry in either; the    *)
(* type and the balance checks give the rest.                                 *)

LedgerInv ==
  /\ TypeOK
  /\ OnlyOpenAccountsTrade
  /\ FiatConservation
  /\ StoredUnlessSaveFailed
  /\ HedgeCoversExposure
  /\ NoOverdraft
  /\ ClientLimit

\* Nobody has an account at first.
LEMMA InitLedgerInv == Init => LedgerInv
BY InitTypeOK, LedgerAssumption
DEF Init, LedgerInv, OnlyOpenAccountsTrade, FiatConservation, StoredUnlessSaveFailed,
    HedgeCoversExposure, Abs, NoOverdraft, ClientLimit

\* Money paid in and out: fiat and the flows move together, the risk book rests.
LEMMA DepositKeeps ==
  ASSUME LedgerInv, NEW u \in Users, NEW amount \in Amounts, Deposit(u, amount)
  PROVE  LedgerInv'
<1> DEFINE new == Paid(Opened(u), amount)
<1>1. amount \in Nat
  BY LedgerAssumption
<1>2. Opened(u) \in Account /\ TypeOK
  BY OpenedFacts DEF LedgerInv
<1>3. new \in Account /\ new.fiat = Opened(u).fiat + amount /\ new.units = Opened(u).units
  BY <1>1, <1>2, PaidFacts
<1>4. Store(u, new)
  BY DEF Deposit
<1>5. /\ recent' = [recent EXCEPT ![u] = Append(@, "deposit")]
      /\ paidIn' = [paidIn EXCEPT ![u] = @ + amount]
      /\ UNCHANGED <<riskVars, takenOut, lost, uncredited, restarts>>
  BY DEF Deposit
<1> HIDE DEF new
<1>6. /\ accounts' \in [Users -> Account \cup {NoAccount}]
      /\ rows' \in [Users -> Account \cup {NoAccount}]
      /\ unsaved' \subseteq Users
      /\ accounts' = [accounts EXCEPT ![u] = new]
  BY <1>2, <1>3, <1>4, StoreFacts
<1>7. TypeOK'
  <2>1. recent' \in [Users -> Seq({"deposit", "withdrawal"})]
    BY <1>2, <1>5 DEF TypeOK
  <2>2. paidIn' \in [Users -> Nat]
    BY <1>1, <1>2, <1>5 DEF TypeOK
  <2> QED
    BY <1>2, <1>5, <1>6, <2>1, <2>2 DEF TypeOK, riskVars
<1>8. OnlyOpenAccountsTrade'
  BY <1>2, <1>3, <1>5, <1>6, LedgerAssumption
  DEF LedgerInv, OnlyOpenAccountsTrade, TypeOK, riskVars
<1>9. FiatConservation'
  <2>1. Opened(u).fiat = paidIn[u] - takenOut[u] - lost[u] - positions[u]
    BY <1>2, OpenedFacts DEF LedgerInv, FiatConservation, OnlyOpenAccountsTrade, TypeOK
  <2>2. paidIn'[u] = paidIn[u] + amount /\ accounts'[u] = new
    BY <1>2, <1>5, <1>6 DEF TypeOK
  <2>3. \A v \in Users \ {u} : paidIn'[v] = paidIn[v] /\ accounts'[v] = accounts[v]
    BY <1>2, <1>5, <1>6 DEF TypeOK
  <2>4. takenOut' = takenOut /\ lost' = lost /\ positions' = positions
    BY <1>5 DEF riskVars
  <2>5. /\ paidIn[u] \in Nat /\ takenOut[u] \in Nat /\ lost[u] \in Nat
        /\ positions[u] \in Int /\ Opened(u).fiat \in Int
    BY <1>2 DEF TypeOK, Account
  <2>6. new.fiat = paidIn'[u] - takenOut'[u] - lost'[u] - positions'[u]
    BY <1>1, <1>3, <2>1, <2>2, <2>4, <2>5
  <2> QED
    BY <2>2, <2>3, <2>4, <2>6 DEF LedgerInv, FiatConservation
<1>10. Solvent(new)
  BY <1>1, <1>2, <1>3 DEF LedgerInv, NoOverdraft, Solvent, Opened, EmptyAccount, Account
<1>11. StoredUnlessSaveFailed' /\ NoOverdraft'
  BY <1>2, <1>3, <1>4, <1>10, StoreKeeps DEF LedgerInv
<1>12. HedgeCoversExposure' /\ ClientLimit'
  BY <1>5 DEF LedgerInv, HedgeCoversExposure, ClientLimit, riskVars
<1> QED
  BY <1>7, <1>8, <1>9, <1>11, <1>12 DEF LedgerInv

\* Money taken out: only what the account holds.
LEMMA WithdrawKeeps ==
  ASSUME LedgerInv, NEW u \in Users, NEW amount \in Amounts, Withdraw(u, amount)
  PROVE  LedgerInv'
<1> DEFINE new == Paid(accounts[u], -amount)
<1>1. amount \in Nat /\ -amount \in Int
  BY LedgerAssumption
<1>2. /\ accounts[u] # NoAccount
      /\ accounts[u] \in Account /\ TypeOK
      /\ accounts[u].fiat >= amount
  BY OpenedFacts DEF LedgerInv, Withdraw, HasFunds
<1>3. new \in Account /\ new.fiat = accounts[u].fiat + (-amount) /\ new.units = accounts[u].units
  BY <1>1, <1>2, PaidFacts
<1>4. Store(u, new)
  BY DEF Withdraw
<1>5. /\ recent' = [recent EXCEPT ![u] = Append(@, "withdrawal")]
      /\ takenOut' = [takenOut EXCEPT ![u] = @ + amount]
      /\ UNCHANGED <<riskVars, paidIn, lost, uncredited, restarts>>
  BY DEF Withdraw
<1> HIDE DEF new
<1>6. /\ accounts' \in [Users -> Account \cup {NoAccount}]
      /\ rows' \in [Users -> Account \cup {NoAccount}]
      /\ unsaved' \subseteq Users
      /\ accounts' = [accounts EXCEPT ![u] = new]
  BY <1>2, <1>3, <1>4, StoreFacts
<1>7. TypeOK'
  <2>1. recent' \in [Users -> Seq({"deposit", "withdrawal"})]
    BY <1>2, <1>5 DEF TypeOK
  <2>2. takenOut' \in [Users -> Nat]
    BY <1>1, <1>2, <1>5 DEF TypeOK
  <2> QED
    BY <1>2, <1>5, <1>6, <2>1, <2>2 DEF TypeOK, riskVars
<1>8. OnlyOpenAccountsTrade'
  BY <1>2, <1>3, <1>5, <1>6, LedgerAssumption
  DEF LedgerInv, OnlyOpenAccountsTrade, TypeOK, riskVars
<1>9. FiatConservation'
  <2>1. accounts[u].fiat = paidIn[u] - takenOut[u] - lost[u] - positions[u]
    BY <1>2 DEF LedgerInv, FiatConservation
  <2>2. takenOut'[u] = takenOut[u] + amount /\ accounts'[u] = new
    BY <1>2, <1>5, <1>6 DEF TypeOK
  <2>3. \A v \in Users \ {u} : takenOut'[v] = takenOut[v] /\ accounts'[v] = accounts[v]
    BY <1>2, <1>5, <1>6 DEF TypeOK
  <2>4. paidIn' = paidIn /\ lost' = lost /\ positions' = positions
    BY <1>5 DEF riskVars
  <2>5. /\ paidIn[u] \in Nat /\ takenOut[u] \in Nat /\ lost[u] \in Nat
        /\ positions[u] \in Int /\ accounts[u].fiat \in Int
    BY <1>2 DEF TypeOK, Account
  <2>6. new.fiat = paidIn'[u] - takenOut'[u] - lost'[u] - positions'[u]
    BY <1>1, <1>3, <2>1, <2>2, <2>4, <2>5
  <2> QED
    BY <2>2, <2>3, <2>4, <2>6 DEF LedgerInv, FiatConservation
<1>10. Solvent(new)
  BY <1>1, <1>2, <1>3 DEF LedgerInv, NoOverdraft, Solvent, Account
<1>11. StoredUnlessSaveFailed' /\ NoOverdraft'
  BY <1>2, <1>3, <1>4, <1>10, StoreKeeps DEF LedgerInv
<1>12. HedgeCoversExposure' /\ ClientLimit'
  BY <1>5 DEF LedgerInv, HedgeCoversExposure, ClientLimit, riskVars
<1> QED
  BY <1>7, <1>8, <1>9, <1>11, <1>12 DEF LedgerInv

\* Opening an account for a request that is then refused: the new account is
\* empty and so are the books of a user without one.
LEMMA RefuseKeeps ==
  ASSUME LedgerInv, NEW u \in Users, RefuseNewUser(u)
  PROVE  LedgerInv'
<1>1. TypeOK /\ accounts[u] = NoAccount /\ Store(u, EmptyAccount)
  BY DEF LedgerInv, RefuseNewUser
<1>2. UNCHANGED <<riskVars, recent, flowVars, uncredited, restarts>>
  BY DEF RefuseNewUser
<1>3. /\ accounts' \in [Users -> Account \cup {NoAccount}]
      /\ rows' \in [Users -> Account \cup {NoAccount}]
      /\ unsaved' \subseteq Users
      /\ accounts' = [accounts EXCEPT ![u] = EmptyAccount]
  BY <1>1, EmptyAccountType, StoreFacts
<1>4. TypeOK'
  BY <1>1, <1>2, <1>3 DEF TypeOK, riskVars, flowVars
<1>5. OnlyOpenAccountsTrade'
  BY <1>1, <1>2, <1>3, EmptyAccountType, LedgerAssumption
  DEF LedgerInv, OnlyOpenAccountsTrade, TypeOK, riskVars, flowVars
<1>6. FiatConservation'
  <2>1. paidIn[u] = 0 /\ takenOut[u] = 0 /\ lost[u] = 0 /\ positions[u] = 0
    BY <1>1 DEF LedgerInv, OnlyOpenAccountsTrade
  <2>2. EmptyAccount.fiat = 0
    BY DEF EmptyAccount
  <2> QED
    BY <1>1, <1>2, <1>3, <2>1, <2>2
    DEF LedgerInv, FiatConservation, TypeOK, riskVars, flowVars
<1>7. Solvent(EmptyAccount)
  BY DEF Solvent, EmptyAccount
<1>8. StoredUnlessSaveFailed' /\ NoOverdraft'
  BY <1>1, <1>7, EmptyAccountType, StoreKeeps DEF LedgerInv
<1>9. HedgeCoversExposure' /\ ClientLimit'
  BY <1>2 DEF LedgerInv, HedgeCoversExposure, ClientLimit, riskVars
<1> QED
  BY <1>4, <1>5, <1>6, <1>8, <1>9 DEF LedgerInv

\* A purchase of a coin accounts hold: paid from the balance, within the client limit.
LEMMA BuyKeeps ==
  ASSUME LedgerInv, NEW u \in Users, NEW coin \in Coins, NEW amount \in Amounts,
         NEW q \in Quotes, BuyCrypto(u, coin, amount, q)
  PROVE  LedgerInv'
<1> DEFINE n == amount \div q.buy
           cash == -amount
<1>1. amount \in Nat /\ n \in Int /\ cash \in Int /\ n >= 0
  BY TradeAmounts
<1>2. TypeOK /\ accounts[u] # NoAccount /\ coin \in HeldCoins
  BY DEF LedgerInv, BuyCrypto, HasFunds
<1>3. /\ Store(u, Traded(accounts[u], cash, coin, n))
      /\ Record(u, amount, "buy")
      /\ UNCHANGED <<recent, flowVars, uncredited, restarts>>
  BY DEF BuyCrypto
<1>4. cash = -Signed(amount, "buy")
  BY DEF Signed
<1>5. accounts[u] \in Account /\ positions[u] \in Int
  BY <1>2, OpenedFacts DEF TypeOK
<1>6. accounts[u].fiat + cash >= 0
  BY <1>1, <1>5 DEF BuyCrypto, HasFunds, Account
<1>7. positions[u] - cash <= MaxClientBalance
  BY <1>1, <1>5 DEF BuyCrypto, WithinLimits
<1>8. accounts[u].units[coin] + n >= 0
  BY <1>1, <1>2, <1>5 DEF LedgerInv, NoOverdraft, Solvent, Account
<1> HIDE DEF n, cash
<1> QED
  BY <1>1, <1>2, <1>3, <1>4, <1>6, <1>7, <1>8, TradeKeeps DEF LedgerInv

\* A sale: no more units than the account has.
LEMMA SellKeeps ==
  ASSUME LedgerInv, NEW u \in Users, NEW coin \in Coins, NEW units \in UnitAmounts,
         NEW q \in Quotes, SellCrypto(u, coin, units, q)
  PROVE  LedgerInv'
<1> DEFINE cash == units * q.sell
           n == -units
<1>1. units \in Nat /\ cash \in Nat /\ n \in Int
  BY LedgerAssumption, TradeAmounts
<1>2. TypeOK /\ accounts[u] # NoAccount /\ coin \in HeldCoins
  BY DEF LedgerInv, SellCrypto
<1>3. /\ Store(u, Traded(accounts[u], cash, coin, n))
      /\ Record(u, cash, "sell")
      /\ UNCHANGED <<recent, flowVars, uncredited, restarts>>
  BY DEF SellCrypto
<1>4. accounts[u] \in Account /\ positions[u] \in Int
  BY <1>2, OpenedFacts DEF TypeOK
<1>5. accounts[u].units[coin] + n >= 0
  BY <1>1, <1>2, <1>4 DEF SellCrypto, Account
<1> HIDE DEF n, cash
<1>6. cash \in Int /\ cash = -Signed(cash, "sell")
  BY <1>1 DEF Signed
<1>7. accounts[u].fiat + cash >= 0
  BY <1>1, <1>2, <1>4 DEF LedgerInv, NoOverdraft, Solvent, Account
<1>8. positions[u] - cash <= MaxClientBalance
  BY <1>1, <1>4, LedgerAssumption DEF LedgerInv, ClientLimit
<1> QED
  BY <1>1, <1>2, <1>3, <1>5, <1>6, <1>7, <1>8, TradeKeeps DEF LedgerInv

\* A closing sells all units of the coin, whatever the limits say.
LEMMA CloseKeeps ==
  ASSUME LedgerInv, NEW u \in Users, NEW coin \in Coins, NEW q \in Quotes,
         ClosePosition(u, coin, q)
  PROVE  LedgerInv'
<1> DEFINE units == accounts[u].units[coin]
           cash == units * q.sell
           n == -units
<1>1. TypeOK /\ accounts[u] # NoAccount /\ coin \in HeldCoins
  BY DEF LedgerInv, ClosePosition
<1>2. accounts[u] \in Account /\ positions[u] \in Int
  BY <1>1, OpenedFacts DEF TypeOK
<1>3. units \in Nat /\ n \in Int
  BY <1>1, <1>2 DEF ClosePosition, Account
<1>4. cash \in Nat
  BY <1>3, TradeAmounts
<1>5. /\ Store(u, Traded(accounts[u], cash, coin, n))
      /\ Record(u, cash, "sell")
      /\ UNCHANGED <<recent, flowVars, uncredited, restarts>>
  BY DEF ClosePosition
<1>6. accounts[u].units[coin] + n >= 0
  BY <1>3
<1> HIDE DEF n, cash
<1>7. cash \in Int /\ cash = -Signed(cash, "sell")
  BY <1>4 DEF Signed
<1>8. accounts[u].fiat + cash >= 0
  BY <1>1, <1>2, <1>4 DEF LedgerInv, NoOverdraft, Solvent, Account
<1>9. positions[u] - cash <= MaxClientBalance
  BY <1>2, <1>4, LedgerAssumption DEF LedgerInv, ClientLimit
<1> QED
  BY <1>1, <1>3, <1>4, <1>5, <1>6, <1>7, <1>8, <1>9, TradeKeeps DEF LedgerInv

\* A purchase that raises half way takes the money and books it as lost.
LEMMA BuyUnheldKeeps ==
  ASSUME LedgerInv, NEW u \in Users, NEW coin \in Coins, NEW amount \in Amounts,
         BuyUnheldCoin(u, coin, amount)
  PROVE  LedgerInv'
<1> DEFINE new == Paid(accounts[u], -amount)
<1>1. amount \in Nat /\ -amount \in Int
  BY LedgerAssumption
<1>2. /\ TypeOK
      /\ accounts[u] # NoAccount
      /\ accounts[u] \in Account
      /\ accounts[u].fiat >= amount
  BY OpenedFacts DEF LedgerInv, BuyUnheldCoin, HasFunds
<1>3. new \in Account /\ new.fiat = accounts[u].fiat + (-amount) /\ new.units = accounts[u].units
  BY <1>1, <1>2, PaidFacts
<1>4. /\ accounts' = [accounts EXCEPT ![u] = new]
      /\ lost' = [lost EXCEPT ![u] = @ + amount]
      /\ unsaved' = unsaved \cup {u}
      /\ UNCHANGED <<rows, riskVars, paidIn, takenOut, recent, uncredited, restarts>>
  BY DEF BuyUnheldCoin
<1> HIDE DEF new
<1>5. TypeOK'
  <2>1. accounts' \in [Users -> Account \cup {NoAccount}]
    BY <1>2, <1>3, <1>4 DEF TypeOK
  <2>2. lost' \in [Users -> Nat]
    BY <1>1, <1>2, <1>4 DEF TypeOK
  <2> QED
    BY <1>2, <1>4, <2>1, <2>2 DEF TypeOK, riskVars
<1>6. OnlyOpenAccountsTrade'
  BY <1>2, <1>3, <1>4, LedgerAssumption
  DEF LedgerInv, OnlyOpenAccountsTrade, TypeOK, riskVars
<1>7. FiatConservation'
  <2>1. accounts[u].fiat = paidIn[u] - takenOut[u] - lost[u] - positions[u]
    BY <1>2 DEF LedgerInv, FiatConservation
  <2>2. lost'[u] = lost[u] + amount /\ accounts'[u] = new
    BY <1>2, <1>4 DEF TypeOK
  <2>3. \A v \in Users \ {u} : lost'[v] = lost[v] /\ accounts'[v] = accounts[v]
    BY <1>2, <1>4 DEF TypeOK
  <2>4. paidIn' = paidIn /\ takenOut' = takenOut /\ positions' = positions
    BY <1>4 DEF riskVars
  <2>5. /\ paidIn[u] \in Nat /\ takenOut[u] \in Nat /\ lost[u] \in Nat
        /\ positions[u] \in Int /\ accounts[u].fiat \in Int
    BY <1>2 DEF TypeOK, Account
  <2>6. new.fiat = paidIn'[u] - takenOut'[u] - lost'[u] - positions'[u]
    BY <1>1, <1>3, <2>1, <2>2, <2>4, <2>5
  <2> QED
    BY <2>2, <2>3, <2>4, <2>6 DEF LedgerInv, FiatConservation
<1>8. StoredUnlessSaveFailed'
  BY <1>2, <1>4 DEF LedgerInv, StoredUnlessSaveFailed, TypeOK
<1>9. NoOverdraft'
  <2>1. Solvent(new)
    BY <1>1, <1>2, <1>3 DEF LedgerInv, NoOverdraft, Solvent, Account
  <2> QED
    BY <1>2, <1>4, <2>1 DEF LedgerInv, NoOverdraft, TypeOK
<1>10. HedgeCoversExposure' /\ ClientLimit'
  BY <1>4 DEF LedgerInv, HedgeCoversExposure, ClientLimit, riskVars
<1> QED
  BY <1>5, <1>6, <1>7, <1>8, <1>9, <1>10 DEF LedgerInv

\* A payment no account receives, and a transaction that grows old, touch
\* neither book.
LEMMA OutsideKeeps ==
  ASSUME LedgerInv, NEW u \in Users,
         \/ \E amount \in Amounts : DepositNotCredited(u, amount)
         \/ Age(u)
  PROVE  LedgerInv'
<1>1. TypeOK /\ UNCHANGED <<ledgerVars, riskVars, restarts>>
  BY DEF LedgerInv, DepositNotCredited, Age
<1>2. CASE \E amount \in Amounts : DepositNotCredited(u, amount)
  <2>1. recent' = recent
    BY <1>2 DEF DepositNotCredited
  <2>2. uncredited' \in [Users -> Nat]
    <3>1. PICK amount \in Amounts : uncredited' = [uncredited EXCEPT ![u] = @ + amount]
      BY <1>2 DEF DepositNotCredited
    <3>2. amount \in Nat /\ uncredited \in [Users -> Nat]
      BY <1>1, LedgerAssumption DEF TypeOK
    <3> QED
      BY <3>1, <3>2
  <2> QED
    BY <1>1, <2>1, <2>2
    DEF LedgerInv, TypeOK, OnlyOpenAccountsTrade, FiatConservation, StoredUnlessSaveFailed,
        HedgeCoversExposure, NoOverdraft, ClientLimit, ledgerVars, riskVars, flowVars
<1>3. CASE Age(u)
  <2>1. /\ uncredited' = uncredited /\ recent[u] # <<>>
        /\ recent' = [recent EXCEPT ![u] = Tail(@)]
    BY <1>3 DEF Age
  <2>2. recent' \in [Users -> Seq({"deposit", "withdrawal"})]
    <3>1. recent[u] \in Seq({"deposit", "withdrawal"})
      BY <1>1 DEF TypeOK
    <3>2. Tail(recent[u]) \in Seq({"deposit", "withdrawal"})
      BY <2>1, <3>1
    <3> QED
      BY <1>1, <2>1, <3>2 DEF TypeOK
  <2>3. OnlyOpenAccountsTrade'
    BY <1>1, <2>1 DEF LedgerInv, OnlyOpenAccountsTrade, TypeOK, ledgerVars, riskVars, flowVars
  <2> QED
    BY <1>1, <2>1, <2>2, <2>3
    DEF LedgerInv, TypeOK, FiatConservation, StoredUnlessSaveFailed,
        HedgeCoversExposure, NoOverdraft, ClientLimit, ledgerVars, riskVars, flowVars
<1> QED
  BY <1>2, <1>3

\* A restart forgets memory, flows and the risk book at once; the table stays.
LEMMA RestartKeeps ==
  ASSUME LedgerInv, Restart
  PROVE  LedgerInv'
<1>1. TypeOK'
  BY LedgerAssumption DEF LedgerInv, Restart, Boot, TypeOK
<1>2. \A u \in Users : accounts'[u] = NoAccount
  BY DEF Restart, Boot
<1>3. OnlyOpenAccountsTrade' /\ HedgeCoversExposure' /\ ClientLimit'
  BY LedgerAssumption
  DEF Restart, Boot, OnlyOpenAccountsTrade, HedgeCoversExposure, Abs, ClientLimit
<1>4. FiatConservation' /\ StoredUnlessSaveFailed'
  BY <1>2 DEF FiatConservation, StoredUnlessSaveFailed
<1>5. NoOverdraft'
  BY <1>2 DEF LedgerInv, Restart, NoOverdraft
<1> QED
  BY <1>1, <1>3, <1>4, <1>5 DEF LedgerInv

\* Every step keeps the books.
LEMMA NextLedgerInv == LedgerInv /\ [Next]_vars => LedgerInv'
<1> SUFFICES ASSUME LedgerInv, [Next]_vars PROVE LedgerInv'
  OBVIOUS
<1>1. ASSUME NEW u \in Users, Pay(u) PROVE LedgerInv'
  BY <1>1, DepositKeeps, WithdrawKeeps, OutsideKeeps DEF Pay
<1>2. ASSUME NEW u \in Users, Trade(u) PROVE LedgerInv'
  BY <1>2, BuyKeeps, BuyUnheldKeeps, SellKeeps, CloseKeeps DEF Trade
<1>3. ASSUME NEW u \in Users, RefuseNewUser(u) \/ Age(u) PROVE LedgerInv'
  BY <1>3, RefuseKeeps, OutsideKeeps
<1>4. CASE Restart
  BY <1>4, RestartKeeps
<1>5. CASE UNCHANGED vars
  BY <1>5
  DEF vars, LedgerInv, TypeOK, OnlyOpenAccountsTrade, FiatConservation, StoredUnlessSaveFailed,
      HedgeCoversExposure, NoOverdraft, ClientLimit, riskVars, flowVars
<1> QED
  BY <1>1, <1>2, <1>3, <1>4, <1>5 DEF Next

\* The invariant of which the theorems about the books are parts.
LEMMA LedgerInvariant == Spec => []LedgerInv
BY InitLedgerInv, NextLedgerInv, PTL DEF Spec

-----------------------------------------------------------------------------
(* What the ledger promises *)

\* Every reachable state of the ledger has the declared shape; in particular
\* memory and table only ever hold accounts.
THEOREM TypeCorrect == Spec => []TypeOK
BY LedgerInvariant, PTL DEF LedgerInv

\* No order of payments, trades, failed saves and restarts overdraws an account
\* in memory or in the table, in fiat or in any coin.
THEOREM NeverOverdrawn == Spec => []NoOverdraft
BY LedgerInvariant, PTL DEF LedgerInv

\* The cash of every open account and its position in the risk book always add
\* up to what was paid in, less what was taken out or lost.
THEOREM BooksAgree == Spec => []FiatConservation
BY LedgerInvariant, PTL DEF LedgerInv

\* No client's position exceeds MAX_CLIENT_BALANCE, although only purchases look
\* at that limit.
THEOREM PositionBounded == Spec => []ClientLimit
BY LedgerInvariant, PTL DEF LedgerInv

\* An exposure beyond the threshold is always hedged to within the tolerance.
THEOREM AlwaysHedged == Spec => []HedgeCoversExposure
BY LedgerInvariant, PTL DEF LedgerInv

\* The table lags behind memory only for users whose last save failed or whose
\* last purchase raised.
THEOREM TableFollowsMemory == Spec => []StoredUnlessSaveFailed
BY LedgerInvariant, PTL DEF LedgerInv

\* A user without an account in memory has no position, no history, no flows.
THEOREM BooksOnlyOfOpenAccounts == Spec => []OnlyOpenAccountsTrade
BY LedgerInvariant, PTL DEF LedgerInv

-----------------------------------------------------------------------------
(* The exposure as a sum.  The number of users is any; what one trade does to  *)
(* the sum of all positions is a lemma of FiniteInduction.                     *)

SizeOf(pos) == [u \in Users |-> Abs(pos[u])]

\* A sum follows the position that a trade moves, and the sizes grow by no more than
\* the trade.
LEMMA RecordMovesSum ==
  ASSUME TypeOK, ExposureIsSumOfPositions, NEW u \in Users, NEW amount \in Nat,
         NEW side \in {"buy", "sell"}, Record(u, amount, side)
  PROVE  ExposureIsSumOfPositions'
<1> DEFINE n == Signed(amount, side)
           total == SumFunctionOnSet(positions, Users)
           size == SumFunctionOnSet(SizeOf(positions), Users)
<1>1. n \in Int /\ Abs(n) <= amount
  BY DEF Signed, Abs
<1>2. positions \in [Users -> Int] /\ dailyVolume \in Nat /\ netExposure \in Int /\ IsFiniteSet(Users)
  BY LedgerAssumption DEF TypeOK
<1>3. /\ positions' = [positions EXCEPT ![u] = @ + n]
      /\ netExposure' = netExposure + n /\ dailyVolume' = dailyVolume + amount
  BY DEF Record
<1> HIDE DEF n
<1>4. /\ positions' \in [Users -> Int] /\ positions'[u] = positions[u] + n
      /\ \A v \in Users \ {u} : positions'[v] = positions[v]
  BY <1>1, <1>2, <1>3
<1>5. /\ SizeOf(positions) \in [Users -> Int] /\ SizeOf(positions') \in [Users -> Int]
      /\ \A v \in Users \ {u} : SizeOf(positions')[v] = SizeOf(positions)[v]
      /\ SizeOf(positions)[u] = Abs(positions[u]) /\ SizeOf(positions')[u] = Abs(positions'[u])
  BY <1>2, <1>4 DEF SizeOf, Abs
<1>6. /\ total \in Int
      /\ SumFunctionOnSet(positions', Users) = total + (positions'[u] - positions[u])
  BY ONLY <1>2, <1>4, u \in Users, SumOfChange
<1>7. /\ size \in Int
      /\ SumFunctionOnSet(SizeOf(positions'), Users)
           = size + (SizeOf(positions')[u] - SizeOf(positions)[u])
  BY ONLY <1>2, <1>5, u \in Users, SumOfChange
<1>8. netExposure = total /\ size <= dailyVolume
  BY DEF ExposureIsSumOfPositions, SizeOf
<1>9. positions[u] \in Int
  BY <1>2
<1> HIDE DEF total, size
<1>10. SumFunctionOnSet(positions', Users) = netExposure'
  BY <1>1, <1>3, <1>4, <1>6, <1>8, <1>9
<1>11. Abs(positions[u] + n) - Abs(positions[u]) <= amount
  BY <1>1, <1>9 DEF Abs
<1>12. Abs(positions[u] + n) \in Int /\ Abs(positions[u]) \in Int
  BY <1>1, <1>9 DEF Abs
<1>13. SumFunctionOnSet(SizeOf(positions'), Users) <= dailyVolume'
  BY <1>2, <1>3, <1>4, <1>5, <1>7, <1>8, <1>11, <1>12
<1> QED
  BY <1>10, <1>13 DEF ExposureIsSumOfPositions, SizeOf

\* Trades record what they move; no other request touches the risk book.
LEMMA TradesRecord ==
  ASSUME TypeOK, [Next]_vars
  PROVE  \/ UNCHANGED riskVars
         \/ Boot
         \/ \E u \in Users, amount \in Nat, side \in {"buy", "sell"} : Record(u, amount, side)
<1>1. ASSUME NEW u \in Users, Pay(u) \/ RefuseNewUser(u) \/ Age(u)
      PROVE  UNCHANGED riskVars
  BY <1>1 DEF Pay, Deposit, DepositNotCredited, Withdraw, RefuseNewUser, Age
<1>2. ASSUME NEW u \in Users, Trade(u)
      PROVE  \/ UNCHANGED riskVars
             \/ \E amount \in Nat, side \in {"buy", "sell"} : Record(u, amount, side)
  <2>1. PICK coin \in Coins, q \in Quotes :
          \/ \E amount \in Amounts : BuyCrypto(u, coin, amount, q)
          \/ \E amount \in Amounts : BuyUnheldCoin(u, coin, amount)
          \/ \E units \in UnitAmounts : SellCrypto(u, coin, units, q)
          \/ ClosePosition(u, coin, q)
    BY <1>2 DEF Trade
  <2>2. ASSUME NEW amount \in Amounts, BuyCrypto(u, coin, amount, q)
        PROVE  amount \in Nat /\ Record(u, amount, "buy")
    BY <2>2, TradeAmounts DEF BuyCrypto
  <2>3. ASSUME NEW amount \in Amounts, BuyUnheldCoin(u, coin, amount)
        PROVE  UNCHANGED riskVars
    BY <2>3 DEF BuyUnheldCoin
  <2>4. ASSUME NEW units \in UnitAmounts, SellCrypto(u, coin, units, q)
        PROVE  units * q.sell \in Nat /\ Record(u, units * q.sell, "sell")
    BY <2>4, TradeAmounts, LedgerAssumption DEF SellCrypto
  <2>5. ASSUME ClosePosition(u, coin, q)
        PROVE  \E amount \in Nat : Record(u, amount, "sell")
    <3>1. accounts[u].units[coin] \in Nat
      BY <2>5, OpenedFacts DEF ClosePosition, Account
    <3>2. accounts[u].units[coin] * q.sell \in Nat
      BY <3>1, TradeAmounts
    <3> QED
      BY <2>5, <3>2 DEF ClosePosition
  <2> QED
    BY <2>1, <2>2, <2>3, <2>4, <2>5
<1>3. CASE Restart
  BY <1>3 DEF Restart
<1>4. CASE UNCHANGED vars
  BY <1>4 DEF vars, riskVars
<1> QED
  BY <1>1, <1>2, <1>3, <1>4 DEF Next

\* With no positions there is no exposure.
LEMMA NoExposure ==
  ASSUME NEW pos, pos = [u \in Users |-> 0]
  PROVE  SumFunctionOnSet(pos, Users) = 0 /\ SumFunctionOnSet(SizeOf(pos), Users) = 0
<1>1. pos \in [Users -> {0}] /\ SizeOf(pos) \in [Users -> {0}] /\ IsFiniteSet(Users)
  BY LedgerAssumption DEF SizeOf, Abs
<1> QED
  BY <1>1, SumOfZeros

\* net_exposure, which limits and hedge look at, is the sum of the positions of all clients,
\* and the volume bounds what their sizes add up to: for any number of users and any trades.
THEOREM ExposureAddsUp == Spec => []ExposureIsSumOfPositions
<1>1. Init => ExposureIsSumOfPositions
  BY NoExposure DEF Init, ExposureIsSumOfPositions, SizeOf
<1>2. TypeOK /\ ExposureIsSumOfPositions /\ [Next]_vars => ExposureIsSumOfPositions'
  <2> SUFFICES ASSUME TypeOK, ExposureIsSumOfPositions, [Next]_vars
               PROVE  ExposureIsSumOfPositions'
    OBVIOUS
  <2>1. CASE UNCHANGED riskVars
    BY <2>1 DEF riskVars, ExposureIsSumOfPositions
  <2>2. CASE Boot
    <3>1. positions' = [u \in Users |-> 0] /\ netExposure' = 0 /\ dailyVolume' = 0
      BY <2>2 DEF Boot
    <3>2. SumFunctionOnSet(positions', Users) = 0 /\ SumFunctionOnSet(SizeOf(positions'), Users) = 0
      BY <3>1, NoExposure
    <3> QED
      BY <3>1, <3>2 DEF ExposureIsSumOfPositions, SizeOf
  <2>3. CASE \E u \in Users, amount \in Nat, side \in {"buy", "sell"} : Record(u, amount, side)
    BY <2>3, RecordMovesSum
  <2> QED
    BY <2>1, <2>2, <2>3, TradesRecord
<1> QED
  BY TypeCorrect, <1>1, <1>2, PTL DEF Spec

-----------------------------------------------------------------------------
(* The withdrawals the risk check sees. *)

Seen24h(h) == {i \in DOMAIN h : i + HistoryWindow > Len(h) /\ h[i] = "withdrawal"}
Kinds == {"deposit", "withdrawal"}

\* They are finitely many places of the history.
LEMMA SeenFinite ==
  ASSUME NEW h \in Seq(Kinds)
  PROVE  IsFiniteSet(Seen24h(h)) /\ Cardinality(Seen24h(h)) \in Nat
<1>1. IsFiniteSet(1 .. Len(h)) /\ Seen24h(h) \subseteq 1 .. Len(h)
  BY FS_Interval DEF Seen24h
<1> QED
  BY <1>1, FS_Subset, FS_CardinalityType

\* Another transaction makes the window show at most itself in addition, and a deposit
\* no withdrawal at all.
LEMMA SeenAfterAppend ==
  ASSUME NEW h \in Seq(Kinds), NEW kind \in Kinds
  PROVE  /\ Cardinality(Seen24h(h)) \in Nat /\ Cardinality(Seen24h(Append(h, kind))) \in Nat
         /\ Cardinality(Seen24h(Append(h, kind)))
              <= Cardinality(Seen24h(h)) + (IF kind = "withdrawal" THEN 1 ELSE 0)
<1> DEFINE longer == Append(h, kind)
           new == Len(h) + 1
<1>1. /\ longer \in Seq(Kinds) /\ Len(longer) = new /\ longer[new] = kind
      /\ \A i \in 1 .. Len(h) : longer[i] = h[i]
  OBVIOUS
<1>2. HistoryWindow \in Nat /\ Len(h) \in Nat
  BY LedgerAssumption
<1> HIDE DEF longer
<1>3. Seen24h(longer) \subseteq Seen24h(h) \cup {new}
  BY <1>1, <1>2 DEF Seen24h
<1>4. kind # "withdrawal" => Seen24h(longer) \subseteq Seen24h(h)
  BY <1>1, <1>3 DEF Seen24h
<1>5. /\ IsFiniteSet(Seen24h(h)) /\ Cardinality(Seen24h(h)) \in Nat
      /\ Cardinality(Seen24h(longer)) \in Nat
  BY <1>1, SeenFinite
<1>6. /\ IsFiniteSet(Seen24h(h) \cup {new})
      /\ Cardinality(Seen24h(h) \cup {new}) <= Cardinality(Seen24h(h)) + 1
      /\ Cardinality(Seen24h(h) \cup {new}) \in Nat
  <2>1. /\ IsFiniteSet(Seen24h(h) \cup {new})
        /\ Cardinality(Seen24h(h) \cup {new})
             = IF new \in Seen24h(h) THEN Cardinality(Seen24h(h)) ELSE Cardinality(Seen24h(h)) + 1
    BY <1>5, FS_AddElement
  <2> QED
    BY <1>5, <2>1
<1>7. Cardinality(Seen24h(longer)) <= Cardinality(Seen24h(h) \cup {new})
  BY <1>3, <1>6, FS_Subset
<1>8. kind # "withdrawal" => Cardinality(Seen24h(longer)) <= Cardinality(Seen24h(h))
  BY <1>4, <1>5, FS_Subset
<1>9. Cardinality(Seen24h(longer)) <= Cardinality(Seen24h(h)) + 1
  BY <1>5, <1>6, <1>7
<1> QED
  BY <1>5, <1>8, <1>9 DEF longer

\* The oldest transaction that ages away leaves no more to see.
LEMMA SeenAfterTail ==
  ASSUME NEW h \in Seq(Kinds), h # <<>>
  PROVE  /\ Cardinality(Seen24h(h)) \in Nat /\ Cardinality(Seen24h(Tail(h))) \in Nat
         /\ Cardinality(Seen24h(Tail(h))) <= Cardinality(Seen24h(h))
<1> DEFINE rest == Tail(h)
           f == [i \in Seen24h(rest) |-> i + 1]
<1>1. /\ rest \in Seq(Kinds) /\ Len(rest) = Len(h) - 1 /\ Len(h) \in Nat
      /\ \A i \in 1 .. Len(rest) : rest[i] = h[i + 1]
  OBVIOUS
<1>2. HistoryWindow \in Nat
  BY LedgerAssumption
<1> HIDE DEF rest
<1>3. \A i \in Seen24h(rest) : i \in Nat /\ i + 1 \in Seen24h(h)
  BY <1>1, <1>2 DEF Seen24h
<1>4. f \in [Seen24h(rest) -> Seen24h(h)] /\ \A i \in Seen24h(rest) : f[i] = i + 1
  BY <1>3
<1> HIDE DEF f
<1>5. f \in Injection(Seen24h(rest), Seen24h(h))
  BY <1>3, <1>4 DEF Injection, IsInjective
<1>6. /\ IsFiniteSet(Seen24h(h)) /\ Cardinality(Seen24h(h)) \in Nat
      /\ Cardinality(Seen24h(rest)) \in Nat
  BY <1>1, SeenFinite
<1> QED
  BY <1>5, <1>6, FS_Injection DEF rest

\* The risk check never sees more than MaxRecent + 1 withdrawals, however deposits, ageing
\* and withdrawals of a user interleave and however wide the window is.
THEOREM WithdrawalsBounded == Spec => []WithdrawalRateBound
<1> DEFINE Within(h) == Cardinality(Seen24h(h)) <= MaxRecent + 1
           Bound == \A u \in Users : Within(recent[u])
<1>1. Bound <=> WithdrawalRateBound
  <2>1. ASSUME NEW u \in Users
        PROVE  {i \in {j \in DOMAIN recent[u] : j + HistoryWindow > Len(recent[u])} :
                  recent[u][i] = "withdrawal"} = Seen24h(recent[u])
    BY DEF Seen24h
  <2> QED
    BY <2>1 DEF WithdrawalRateBound
<1>2. MaxRecent \in Nat
  BY LedgerAssumption
<1>3. Within(<<>>)
  <2>1. Seen24h(<<>>) = {}
    BY DEF Seen24h
  <2> QED
    BY <1>2, <2>1, FS_EmptySet
<1>4. ASSUME TypeOK, Bound, [Next]_vars, NEW u \in Users
      PROVE  Within(recent'[u])
  <2>1. recent \in [Users -> Seq(Kinds)] /\ recent[u] \in Seq(Kinds) /\ Within(recent[u])
    BY <1>4 DEF TypeOK, Kinds
  <2>2. ASSUME NEW v \in Users, NEW amount \in Amounts, Deposit(v, amount)
        PROVE  Within(recent'[u])
    <3>1. recent'[u] \in {recent[u], Append(recent[u], "deposit")}
      BY <2>1, <2>2 DEF Deposit
    <3>2. /\ Cardinality(Seen24h(recent[u])) \in Nat
          /\ Cardinality(Seen24h(Append(recent[u], "deposit"))) \in Nat
          /\ Cardinality(Seen24h(Append(recent[u], "deposit"))) <= Cardinality(Seen24h(recent[u])) + 0
      BY <2>1, SeenAfterAppend DEF Kinds
    <3>3. CASE recent'[u] = Append(recent[u], "deposit")
      BY <1>2, <2>1, <3>2, <3>3
    <3> HIDE DEF Within
    <3> QED
      BY <2>1, <3>1, <3>3
  <2>3. ASSUME NEW v \in Users, NEW amount \in Amounts, Withdraw(v, amount)
        PROVE  Within(recent'[u])
    <3>1. CASE u # v
      BY <2>1, <2>3, <3>1 DEF Withdraw
    <3>2. CASE u = v
      <4>1. Cardinality(RecentWithdrawals(u)) <= MaxRecent /\ recent'[u] = Append(recent[u], "withdrawal")
        BY <2>1, <2>3, <3>2 DEF Withdraw
      <4>2. Len(recent[u]) \in Nat /\ HistoryWindow \in Nat /\ DOMAIN recent[u] = 1 .. Len(recent[u])
        BY <2>1, LedgerAssumption
      <4>3. RecentWithdrawals(u) = Seen24h(recent[u])
        BY <4>2 DEF RecentWithdrawals, Seen, Seen24h
      <4>4. /\ Cardinality(Seen24h(recent[u])) \in Nat
            /\ Cardinality(Seen24h(Append(recent[u], "withdrawal"))) \in Nat
            /\ Cardinality(Seen24h(Append(recent[u], "withdrawal"))) <= Cardinality(Seen24h(recent[u])) + 1
        BY <2>1, SeenAfterAppend DEF Kinds
      <4> QED
        BY <1>2, <4>1, <4>3, <4>4
    <3> QED
      BY <3>1, <3>2
  <2>4. ASSUME NEW v \in Users, Age(v)
        PROVE  Within(recent'[u])
    <3>1. recent'[u] = recent[u] \/ (recent[u] # <<>> /\ recent'[u] = Tail(recent[u]))
      BY <2>1, <2>4 DEF Age
    <3>2. CASE recent'[u] = recent[u]
      BY <2>1, <3>2
    <3>3. CASE recent[u] # <<>> /\ recent'[u] = Tail(recent[u])
      <4>1. /\ Cardinality(Seen24h(recent[u])) \in Nat /\ Cardinality(Seen24h(Tail(recent[u]))) \in Nat
            /\ Cardinality(Seen24h(Tail(recent[u]))) <= Cardinality(Seen24h(recent[u]))
        BY <2>1, <3>3, SeenAfterTail
      <4> QED
        BY <1>2, <2>1, <3>3, <4>1
    <3> QED
      BY <3>1, <3>2, <3>3
  <2>5. CASE Restart
    BY <1>3, <2>5 DEF Restart, Boot
  <2>6. ASSUME NEW v \in Users, Trade(v) \/ RefuseNewUser(v)
                 \/ (\E amount \in Amounts : DepositNotCredited(v, amount))
        PROVE  recent' = recent
    BY <2>6 DEF Trade, BuyCrypto, BuyUnheldCoin, SellCrypto, ClosePosition, RefuseNewUser,
               DepositNotCredited
  <2>7. CASE UNCHANGED vars
    BY <2>1, <2>7 DEF vars
  <2> HIDE DEF Within
  <2> QED
    BY <1>4, <2>1, <2>2, <2>3, <2>4, <2>5, <2>6, <2>7 DEF Next, Pay
<1>5. Init => Bound
  BY <1>3 DEF Init
<1>6. TypeOK /\ Bound /\ [Next]_vars => Bound'
  BY <1>4
<1> HIDE DEF Bound
<1> QED
  BY TypeCorrect, <1>1, <1>5, <1>6, PTL DEF Spec
=============================================================================
