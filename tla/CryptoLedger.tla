---------------------------- MODULE CryptoLedger ----------------------------
(***************************************************************************)
(* The synthetic crypto ledger: CryptoTradingService, PaymentService,      *)
(* RiskManager, HedgingService and AccountStorage of crypto_module.        *)
(*                                                                         *)
(* Every endpoint is an `async def' whose body never awaits, so a request  *)
(* runs from its first line to its last without another one in between:    *)
(* one request is one action here.  What interleaves is requests of        *)
(* different users, saves that fail (and are swallowed), the passing of    *)
(* time, and restarts of the process, which lose everything but the        *)
(* sqlite table.  A request that is refused without touching any state is  *)
(* a stuttering step and has no action.                                    *)
(*                                                                         *)
(* Money and units are integers.  Prices are drawn from Quotes, one        *)
(* <<buy, sell>> pair per calculate_spread call: what the oracle computes  *)
(* is the subject of another module.                                       *)
(***************************************************************************)
EXTENDS Integers, Sequences, FiniteSets, Functions

CONSTANTS
  Users,             \* the user_id values clients send
  Coins,             \* config.SUPPORTED_CRYPTOS
  HeldCoins,         \* coins an account is created with: BTC and ETH
  Amounts,           \* fiat amounts a client asks for
  UnitAmounts,       \* coin amounts a client asks to sell
  Quotes,            \* possible results of calculate_spread
  MaxDeposit,        \* config.MAX_DEPOSIT_AMOUNT
  MaxWithdrawal,     \* config.MAX_WITHDRAWAL_AMOUNT
  ReviewAbove,       \* 10000: larger withdrawals need manual verification
  MaxRecent,         \* 5: `len(recent_withdrawals) > 5' is refused
  HistoryWindow,     \* 100: transactions _get_recent_withdrawals looks at
  MaxClientBalance,  \* config.MAX_CLIENT_BALANCE
  MaxNetExposure,    \* config.RISK_LIMITS['max_net_exposure']
  MaxDailyVolume,    \* config.RISK_LIMITS['max_daily_volume']
  HedgeThreshold,    \* config.AUTO_HEDGE_THRESHOLD
  HedgeTolerance,    \* worth of the 0.001 units a hedge may be off
  DepositCap,        \* model bound: money one user pays in per process life
  MaxRestarts,       \* model bound: restarts of the process
  NoAccount          \* no entry in user_accounts, or no row in the table

Account == [fiat : Int, units : [HeldCoins -> Int]]

ASSUME LedgerAssumption ==
  /\ IsFiniteSet(Users)
  /\ HeldCoins \subseteq Coins
  /\ Amounts \subseteq Nat \ {0}
  /\ UnitAmounts \subseteq Nat \ {0}
  /\ Quotes \subseteq [buy : Nat \ {0}, sell : Nat]
  /\ {MaxDeposit, MaxWithdrawal, ReviewAbove, MaxRecent, HistoryWindow,
      MaxClientBalance, MaxNetExposure, MaxDailyVolume, HedgeThreshold,
      HedgeTolerance, DepositCap, MaxRestarts} \subseteq Nat
  /\ NoAccount \notin Account

\* Float division is exact enough that amount / buy_price * buy_price is the
\* amount again; the integer instances keep that by dividing evenly.
ASSUME ExactDivision == \A a \in Amounts, q \in Quotes : a % q.buy = 0

VARIABLES
  accounts,     \* CryptoTradingService.user_accounts
  rows,         \* table crypto_accounts, user_id -> account_data
  dailyVolume,  \* RiskManager.daily_volume
  netExposure,  \* RiskManager.net_exposure
  positions,    \* RiskManager.client_positions, 0 where there is no entry
  hedged,       \* what HedgingService.hedge_positions were worth when last
                \* compared with the exposure
  recent,       \* per user, PaymentService transactions of the last 24 hours
  paidIn,       \* history: what each user paid in, in this process life,
  takenOut,     \*          took out,
  lost,         \*          and lost to purchases that failed half way
  unsaved,      \* history: users whose last change of memory was not saved
  uncredited,   \* history: gateway payments no account received
  restarts      \* model bound: restarts so far

flowVars   == <<paidIn, takenOut, lost>>
ledgerVars == <<accounts, rows, flowVars, unsaved>>
riskVars   == <<dailyVolume, netExposure, positions, hedged>>
vars == <<accounts, rows, dailyVolume, netExposure, positions, hedged, recent,
          paidIn, takenOut, lost, unsaved, uncredited, restarts>>

-----------------------------------------------------------------------------
(* Helpers.  A definition whose comment starts with `Mutation' is a          *)
(* plausible mistake in the definition after it, kept to see that a property *)
(* of this module notices it.                                                *)

Abs(n) == IF n < 0 THEN -n ELSE n

Signed(amount, side) == IF side = "buy" THEN amount ELSE -amount

EmptyAccount == [fiat |-> 0, units |-> [c \in HeldCoins |-> 0]]

\* An account in memory is used as it is; otherwise the table is asked, and a
\* row it has cannot be turned back into an account: _deserialize_account
\* names CryptoSyntheticBalance, which storage.py does not import, so the
\* request ends in the handler's `except'.
CanOpen(u) == accounts[u] # NoAccount \/ rows[u] = NoAccount

Opened(u) == IF accounts[u] = NoAccount THEN EmptyAccount ELSE accounts[u]

\* An account after cash is paid in (out, when negative), and after cash is
\* exchanged for units of a coin.
Paid(a, cash) == [fiat |-> a.fiat + cash, units |-> a.units]
Traded(a, cash, coin, n) ==
  [fiat |-> a.fiat + cash, units |-> [a.units EXCEPT ![coin] = @ + n]]

\* Mutation: the balance is not compared.
HasFundsUnchecked(u, amount) == accounts[u] # NoAccount

\* A new account is empty and amounts are positive, so only a known one has
\* the money.
HasFunds(u, amount) == accounts[u] # NoAccount /\ accounts[u].fiat >= amount

\* Mutation: the account is saved before it is changed.
StoreBeforeChange(u, new) ==
  /\ accounts' = [accounts EXCEPT ![u] = new]
  /\ rows' = [rows EXCEPT ![u] = Opened(u)]
  /\ unsaved' = unsaved \ {u}

\* Memory gets the new account; the row is replaced unless sqlite raises, which
\* _save_account logs and swallows.  A user seen for the first time was also
\* saved once, empty, by _get_user_account: that save can succeed alone.
Store(u, new) ==
  /\ accounts' = [accounts EXCEPT ![u] = new]
  /\ \E opened, saved \in BOOLEAN :
       /\ rows' = [rows EXCEPT ![u] =
                     IF saved THEN new
                     ELSE IF accounts[u] = NoAccount /\ opened
                          THEN EmptyAccount ELSE @]
       /\ unsaved' = IF saved THEN unsaved \ {u} ELSE unsaved \cup {u}

\* Mutation: the limits are compared without the trade itself.
WithinLimitsBeforeTrade(u, amount, side) ==
  /\ dailyVolume <= MaxDailyVolume
  /\ side = "buy" => positions[u] <= MaxClientBalance
  /\ Abs(netExposure) <= MaxNetExposure

WithinLimits(u, amount, side) ==
  /\ dailyVolume + amount <= MaxDailyVolume
  /\ side = "buy" => positions[u] + amount <= MaxClientBalance
  /\ Abs(netExposure + Signed(amount, side)) <= MaxNetExposure

\* What the hedge can be worth after it was resized for an exposure: a coin
\* whose hedge is off by less than 0.001 units keeps it.
Resized(net) == net - HedgeTolerance .. net + HedgeTolerance

\* Mutation: only a long exposure is hedged.
HedgeLongOnly(net) == hedged' \in IF net > HedgeThreshold THEN Resized(net) ELSE {hedged}

\* Below the threshold the hedge is left as it was.
Hedge(net) == hedged' \in IF Abs(net) > HedgeThreshold THEN Resized(net) ELSE {hedged}

\* Mutation: a sale gives volume back.
RecordNetVolume(u, amount, side) ==
  LET net == netExposure + Signed(amount, side)
  IN  /\ dailyVolume' = dailyVolume + Signed(amount, side)
      /\ netExposure' = net
      /\ positions' = [positions EXCEPT ![u] = @ + Signed(amount, side)]
      /\ Hedge(net)

\* Mutation: sales are not entered in the position of the client.
RecordBuysOnly(u, amount, side) ==
  LET net == netExposure + Signed(amount, side)
  IN  /\ dailyVolume' = dailyVolume + amount
      /\ netExposure' = net
      /\ positions' = [positions EXCEPT ![u] = IF side = "buy" THEN @ + amount ELSE @]
      /\ Hedge(net)

\* update_metrics, then _check_and_execute_hedge.  Nothing ever resets the
\* volume, which the code calls daily.
Record(u, amount, side) ==
  LET net == netExposure + Signed(amount, side)
  IN  /\ dailyVolume' = dailyVolume + amount
      /\ netExposure' = net
      /\ positions' = [positions EXCEPT ![u] = @ + Signed(amount, side)]
      /\ Hedge(net)

\* Mutation: the history is sorted the other way round.
SeenOldestFirst(u) == {i \in DOMAIN recent[u] : i <= HistoryWindow}

\* The newest HistoryWindow transactions of any kind, and the withdrawals
\* among them.
Seen(u) == {i \in DOMAIN recent[u] : i > Len(recent[u]) - HistoryWindow}
RecentWithdrawals(u) == {i \in Seen(u) : recent[u][i] = "withdrawal"}

-----------------------------------------------------------------------------
(* Requests *)

Deposit(u, amount) ==
  /\ amount <= MaxDeposit
  /\ paidIn[u] + amount <= DepositCap
  /\ CanOpen(u)
  /\ Store(u, Paid(Opened(u), amount))
  /\ recent' = [recent EXCEPT ![u] = Append(@, "deposit")]
  /\ paidIn' = [paidIn EXCEPT ![u] = @ + amount]
  /\ UNCHANGED <<riskVars, takenOut, lost, uncredited, restarts>>

\* The gateway is charged before the account is looked up.
DepositNotCredited(u, amount) ==
  /\ amount <= MaxDeposit
  /\ uncredited[u] + amount <= DepositCap
  /\ ~CanOpen(u)
  /\ uncredited' = [uncredited EXCEPT ![u] = @ + amount]
  /\ UNCHANGED <<ledgerVars, riskVars, recent, restarts>>

Withdraw(u, amount) ==
  /\ amount <= MaxWithdrawal
  /\ HasFunds(u, amount)
  /\ amount <= ReviewAbove
  /\ Cardinality(RecentWithdrawals(u)) <= MaxRecent
  /\ Store(u, Paid(accounts[u], -amount))
  /\ recent' = [recent EXCEPT ![u] = Append(@, "withdrawal")]
  /\ takenOut' = [takenOut EXCEPT ![u] = @ + amount]
  /\ UNCHANGED <<riskVars, paidIn, lost, uncredited, restarts>>

\* A withdrawal, purchase, sale or closing asked for by a user nobody has seen:
\* the account is opened and saved, then the request is refused for lack of
\* funds.
RefuseNewUser(u) ==
  /\ accounts[u] = NoAccount
  /\ rows[u] = NoAccount
  /\ Store(u, EmptyAccount)
  /\ UNCHANGED <<riskVars, recent, flowVars, uncredited, restarts>>

BuyCrypto(u, coin, amount, q) ==
  /\ WithinLimits(u, amount, "buy")
  /\ HasFunds(u, amount)
  /\ coin \in HeldCoins
  /\ Store(u, Traded(accounts[u], -amount, coin, amount \div q.buy))
  /\ Record(u, amount, "buy")
  /\ UNCHANGED <<recent, flowVars, uncredited, restarts>>

\* crypto_balances has no entry for the coin: the fiat is already deducted when
\* the lookup raises, and the handler answers failure without saving.
BuyUnheldCoin(u, coin, amount) ==
  /\ WithinLimits(u, amount, "buy")
  /\ HasFunds(u, amount)
  /\ coin \notin HeldCoins
  /\ accounts' = [accounts EXCEPT ![u] = Paid(@, -amount)]
  /\ lost' = [lost EXCEPT ![u] = @ + amount]
  /\ unsaved' = unsaved \cup {u}
  /\ UNCHANGED <<rows, riskVars, paidIn, takenOut, recent, uncredited, restarts>>

SellCrypto(u, coin, units, q) ==
  /\ accounts[u] # NoAccount
  /\ coin \in HeldCoins
  /\ accounts[u].units[coin] >= units
  /\ WithinLimits(u, units * q.sell, "sell")
  /\ Store(u, Traded(accounts[u], units * q.sell, coin, -units))
  /\ Record(u, units * q.sell, "sell")
  /\ UNCHANGED <<recent, flowVars, uncredited, restarts>>

\* Sells everything and asks RiskManager nothing.
ClosePosition(u, coin, q) ==
  /\ accounts[u] # NoAccount
  /\ coin \in HeldCoins
  /\ accounts[u].units[coin] > 0
  /\ LET proceeds == accounts[u].units[coin] * q.sell
     IN  /\ Store(u, Traded(accounts[u], proceeds, coin, -accounts[u].units[coin]))
         /\ Record(u, proceeds, "sell")
  /\ UNCHANGED <<recent, flowVars, uncredited, restarts>>

-----------------------------------------------------------------------------
(* The environment *)

\* The oldest transaction of a user becomes older than 24 hours.
Age(u) ==
  /\ recent[u] # <<>>
  /\ recent' = [recent EXCEPT ![u] = Tail(@)]
  /\ UNCHANGED <<ledgerVars, riskVars, uncredited, restarts>>

\* The server starts with empty dictionaries; only the table survives.
Boot ==
  /\ accounts' = [u \in Users |-> NoAccount]
  /\ dailyVolume' = 0
  /\ netExposure' = 0
  /\ positions' = [u \in Users |-> 0]
  /\ hedged' = 0
  /\ recent' = [u \in Users |-> <<>>]

Restart ==
  /\ restarts < MaxRestarts
  /\ restarts' = restarts + 1
  /\ Boot
  /\ paidIn' = [u \in Users |-> 0]
  /\ takenOut' = [u \in Users |-> 0]
  /\ lost' = [u \in Users |-> 0]
  /\ unsaved' = {}
  /\ UNCHANGED <<rows, uncredited>>

Init ==
  /\ accounts = [u \in Users |-> NoAccount]
  /\ rows = [u \in Users |-> NoAccount]
  /\ dailyVolume = 0
  /\ netExposure = 0
  /\ positions = [u \in Users |-> 0]
  /\ hedged = 0
  /\ recent = [u \in Users |-> <<>>]
  /\ paidIn = [u \in Users |-> 0]
  /\ takenOut = [u \in Users |-> 0]
  /\ lost = [u \in Users |-> 0]
  /\ unsaved = {}
  /\ uncredited = [u \in Users |-> 0]
  /\ restarts = 0

Trade(u) ==
  \E coin \in Coins, q \in Quotes :
    \/ \E amount \in Amounts : BuyCrypto(u, coin, amount, q)
    \/ \E amount \in Amounts : BuyUnheldCoin(u, coin, amount)
    \/ \E units \in UnitAmounts : SellCrypto(u, coin, units, q)
    \/ ClosePosition(u, coin, q)

Pay(u) ==
  \E amount \in Amounts :
    \/ Deposit(u, amount)
    \/ DepositNotCredited(u, amount)
    \/ Withdraw(u, amount)

Next ==
  \/ \E u \in Users : Pay(u) \/ Trade(u) \/ RefuseNewUser(u) \/ Age(u)
  \/ Restart

Spec == Init /\ [][Next]_vars
-----------------------------------------------------------------------------
(* Properties *)

TypeOK ==
  /\ accounts \in [Users -> Account \cup {NoAccount}]
  /\ rows \in [Users -> Account \cup {NoAccount}]
  /\ dailyVolume \in Nat
  /\ netExposure \in Int
  /\ positions \in [Users -> Int]
  /\ hedged \in Int
  /\ recent \in [Users -> Seq({"deposit", "withdrawal"})]
  /\ {paidIn, takenOut, lost, uncredited} \subseteq [Users -> Nat]
  /\ unsaved \subseteq Users
  /\ restarts \in 0 .. MaxRestarts

\* No order of deposits, withdrawals, trades, failed saves and restarts leaves
\* an account, in memory or in the table, below zero: neither its fiat nor any
\* coin (the balance checks of buy_crypto, sell_crypto and withdraw_funds).
Solvent(acct) == acct.fiat >= 0 /\ \A c \in HeldCoins : acct.units[c] >= 0

NoOverdraft ==
  \A u \in Users :
    /\ accounts[u] # NoAccount => Solvent(accounts[u])
    /\ rows[u] # NoAccount => Solvent(rows[u])

\* The risk book agrees with the cash book: what an account holds in fiat is
\* what was paid in, less what was taken out, what failed purchases swallowed
\* and what RiskManager believes is invested.  Every handler updates both
\* sides, with the same amount, or neither.
FiatConservation ==
  \A u \in Users :
    accounts[u] # NoAccount =>
      accounts[u].fiat = paidIn[u] - takenOut[u] - lost[u] - positions[u]

\* Only an account in memory has a position, history or flows.
OnlyOpenAccountsTrade ==
  \A u \in Users :
    accounts[u] = NoAccount => /\ positions[u] = 0
                              /\ recent[u] = <<>>
                              /\ paidIn[u] = 0 /\ takenOut[u] = 0 /\ lost[u] = 0

\* The net position of a client never exceeds MAX_CLIENT_BALANCE, although
\* sales and closings move it without looking at that limit.
ClientLimit == \A u \in Users : positions[u] <= MaxClientBalance

\* net_exposure, which the limits and the hedge use, is the sum of the client
\* positions, which the limits per client use; and the traded volume bounds
\* what all positions together can amount to.
ExposureIsSumOfPositions ==
  /\ netExposure = SumFunctionOnSet(positions, Users)
  /\ SumFunctionOnSet([u \in Users |-> Abs(positions[u])], Users) <= dailyVolume

\* Whenever the exposure is beyond AUTO_HEDGE_THRESHOLD the hedge was compared
\* with exactly that exposure: no trade, closing included, forgets to.
HedgeCoversExposure ==
  Abs(netExposure) > HedgeThreshold => Abs(hedged - netExposure) <= HedgeTolerance

\* The table holds what memory holds for every user whose last change was not
\* one of a failed save or a purchase that raised after deducting the money.
StoredUnlessSaveFailed ==
  \A u \in Users :
    accounts[u] # NoAccount /\ u \notin unsaved => rows[u] = accounts[u]

\* Among the transactions the risk check looks at there are never more than
\* MaxRecent + 1 withdrawals of the last 24 hours: the check counts before the
\* new one is stored.  (Older withdrawals that deposits pushed out of the
\* window are not counted: the bound is on what the check sees.)
WithdrawalRateBound ==
  \A u \in Users :
    LET newest == {i \in DOMAIN recent[u] : i + HistoryWindow > Len(recent[u])}
    IN  Cardinality({i \in newest : recent[u][i] = "withdrawal"})
          <= MaxRecent + 1
=============================================================================
