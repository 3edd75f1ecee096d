----------------------------- MODULE MobileApp -----------------------------
(***************************************************************************)
(* The Flutter application: the pages, and the calls of ApiService that are*)
(* under way while the user goes on.  Dart runs one callback at a time; a  *)
(* call answers in a callback of its own, so the user can press buttons,   *)
(* leave the page and start more calls before it does, and calls answer in *)
(* any order.                                                              *)
(*                                                                         *)
(* The dashboard stays alive under the pages pushed on it; the state of a  *)
(* page that is left is disposed of, and what its calls answer later is    *)
(* not shown.  What a list of accounts says is abstracted to one account   *)
(* of the bank it came from; amounts, prices and portfolios are left out.  *)
(***************************************************************************)
EXTENDS Integers, FiniteSets

CONSTANTS
  Clients,     \* _availableAccounts of the login page
  Banks,       \* bank codes offered by the dashboard
  Requests,    \* model bound: requests for accounts under way at a time
  Loads,       \* model bound: loads of the trading page under way at a time
  Transfers,   \* model bound: transfers started
  MaxOrders,   \* model bound: orders under way at a time
  None         \* no bank, no account, no transfer

DemoClient == "team020-1"

ASSUME AppAssumption ==
  /\ DemoClient \in Clients
  /\ None \notin Banks \cup {"portfolio", "BTC price", "ETH price"}
  /\ MaxOrders \in Nat \ {0}

VARIABLES
  page,      \* the page on top of the navigator
  client,    \* _selectedAccount, then DashboardPage.selectedAccount
  loading,   \* dashboard: _isLoading
  shown,     \* dashboard: _accounts, None before _hasConnectedBank
  asked,     \* per request for accounts under way: its bank
  offered,   \* transfer page: the accounts it was opened with
  transfer,  \* per transfer: what makeTransfer was called with, and its end
  busy,      \* trading page: _isLoading
  loads,     \* per run of _loadData: the call it waits for
  orders,    \* orders of the trading page not yet answered
  selected   \* history: banks selected since no request was under way

dashboardVars == <<loading, shown, asked, selected>>
transferVars  == <<offered, transfer>>
tradingVars   == <<busy, loads, orders>>
vars == <<page, client, loading, shown, asked, offered, transfer, busy, loads, orders, selected>>

-----------------------------------------------------------------------------
(* Names.  The cases of both switch statements, in Latin letters.            *)

FormatBankName(bank) ==
  CASE bank = "vbank" -> "V Bank"
    [] bank = "abank" -> "A Bank"
    [] bank = "sbank" -> "S Bank"
    [] OTHER -> bank

\* Other names than FormatBankName gives.
GetBankCode(name) ==
  CASE name = "Volga Bank" -> "vbank"
    [] name = "Alfa Bank" -> "abank"
    [] name = "City Bank" -> "sbank"
    [] OTHER -> "vbank"

\* An account of the bank, kept under the client the answer names.
AccountOf(bank, owner, demo) ==
  [bank |-> bank, name |-> FormatBankName(bank), owner |-> owner, demo |-> demo]

\* An answer with accounts is for the client asked for; an error, no answer and
\* an answer without accounts are all replaced by a demo account.
Answers(bank) ==
  {AccountOf(bank, client, FALSE), AccountOf(bank, DemoClient, TRUE)}

-----------------------------------------------------------------------------
(* Login and dashboard *)

ChooseAccount(c) ==
  /\ page = "login"
  /\ client' = c
  /\ UNCHANGED <<page, dashboardVars, transferVars, tradingVars>>

Login ==
  /\ page = "login"
  /\ page' = "dashboard"
  /\ UNCHANGED <<client, dashboardVars, transferVars, tradingVars>>

Free(slots) == {r \in DOMAIN slots : slots[r] = None}

\* Before the first bank is connected a load hides the button that selects one;
\* afterwards the floating button stays while the next bank loads.
SelectBank(r, bank) ==
  /\ page = "dashboard"
  /\ shown # None \/ ~loading
  /\ r \in Free(asked)
  /\ loading' = TRUE
  /\ asked' = [asked EXCEPT ![r] = bank]
  /\ selected' = {bank} \cup (IF Free(asked) = Requests THEN {} ELSE selected)
  /\ UNCHANGED <<page, client, shown, transferVars, tradingVars>>

\* Mutation: only real accounts end the load.
BankAnsweredSpinning(r) ==
  /\ asked[r] # None
  /\ asked' = [asked EXCEPT ![r] = None]
  /\ \E a \in Answers(asked[r]) : shown' = a /\ loading' = (loading /\ a.demo)
  /\ UNCHANGED <<page, client, selected, transferVars, tradingVars>>

\* Mutation: a failed call leaves the accounts of before.
BankAnsweredKeeping(r) ==
  /\ asked[r] # None
  /\ asked' = [asked EXCEPT ![r] = None]
  /\ loading' = FALSE
  /\ \E a \in Answers(asked[r]) : shown' = IF a.demo /\ shown # None THEN shown ELSE a
  /\ UNCHANGED <<page, client, selected, transferVars, tradingVars>>

\* The catch of _connectToBank is never reached: getBankAccounts catches.
BankAnswered(r) ==
  /\ asked[r] # None
  /\ asked' = [asked EXCEPT ![r] = None]
  /\ loading' = FALSE
  /\ \E a \in Answers(asked[r]) : shown' = a
  /\ UNCHANGED <<page, client, selected, transferVars, tradingVars>>

-----------------------------------------------------------------------------
(* Transfers *)

OpenTransfers ==
  /\ page = "dashboard"
  /\ ~loading
  /\ shown # None
  /\ page' = "transfer"
  /\ offered' = shown
  /\ UNCHANGED <<client, dashboardVars, transfer, tradingVars>>

\* Mutation: the client of the account is not looked at.
MakeTransferForDemo(x) ==
  /\ page = "transfer"
  /\ transfer[x] = None
  /\ page' = "process"
  /\ transfer' = [transfer EXCEPT ![x] =
                    [account |-> offered, bank |-> GetBankCode(offered.name),
                     client |-> DemoClient, state |-> "running"]]
  /\ UNCHANGED <<client, offered, dashboardVars, tradingVars>>

\* The process page calls makeTransfer as soon as it is opened.
MakeTransfer(x) ==
  /\ page = "transfer"
  /\ transfer[x] = None
  /\ page' = "process"
  /\ transfer' = [transfer EXCEPT ![x] =
                    [account |-> offered, bank |-> GetBankCode(offered.name),
                     client |-> offered.owner, state |-> "running"]]
  /\ UNCHANGED <<client, offered, dashboardVars, tradingVars>>

TransferAnswered(x) ==
  /\ transfer[x] # None
  /\ transfer[x].state = "running"
  /\ \E s \in {"completed", "error"} : transfer' = [transfer EXCEPT ![x].state = s]
  /\ UNCHANGED <<page, client, offered, dashboardVars, tradingVars>>

\* The button of the process page leaves two pages, the system's one; neither
\* waits for the transfer to end.
LeaveTransfer ==
  /\ page \in {"transfer", "process"}
  /\ \/ page' = "dashboard" /\ offered' = None
     \/ page = "process" /\ page' = "transfer" /\ UNCHANGED offered
  /\ UNCHANGED <<client, transfer, dashboardVars, tradingVars>>

-----------------------------------------------------------------------------
(* Trading *)

NoLoads == [l \in Loads |-> None]

OpenTrading ==
  /\ page = "dashboard"
  /\ ~loading
  /\ shown # None
  /\ page' = "trading"
  /\ busy' = TRUE
  /\ \E l \in Loads : loads' = [NoLoads EXCEPT ![l] = "portfolio"]
  /\ UNCHANGED <<client, orders, dashboardVars, transferVars>>

\* _loadData awaits three calls in turn, none of which throws.
LoadAnswered(l) ==
  \/ /\ loads[l] = "portfolio"
     /\ loads' = [loads EXCEPT ![l] = "BTC price"]
     /\ UNCHANGED <<page, client, busy, orders, dashboardVars, transferVars>>
  \/ /\ loads[l] = "BTC price"
     /\ loads' = [loads EXCEPT ![l] = "ETH price"]
     /\ UNCHANGED <<page, client, busy, orders, dashboardVars, transferVars>>
  \/ /\ loads[l] = "ETH price"
     /\ loads' = [loads EXCEPT ![l] = None]
     /\ busy' = FALSE
     /\ UNCHANGED <<page, client, orders, dashboardVars, transferVars>>

\* The button stays enabled while an order is under way.
Order ==
  /\ page = "trading"
  /\ ~busy
  /\ orders < MaxOrders
  /\ orders' = orders + 1
  /\ UNCHANGED <<page, client, busy, loads, dashboardVars, transferVars>>

\* Any status but 200 shows an error.
OrderRefused ==
  /\ orders > 0
  /\ orders' = orders - 1
  /\ UNCHANGED <<page, client, busy, loads, dashboardVars, transferVars>>

\* Status 200, or no answer at all, shows success and reloads.
OrderConfirmed(l) ==
  /\ orders > 0
  /\ l \in Free(loads)
  /\ orders' = orders - 1
  /\ busy' = TRUE
  /\ loads' = [loads EXCEPT ![l] = "portfolio"]
  /\ UNCHANGED <<page, client, dashboardVars, transferVars>>

LeaveTrading ==
  /\ page = "trading"
  /\ page' = "dashboard"
  /\ busy' = FALSE
  /\ loads' = NoLoads
  /\ orders' = 0
  /\ UNCHANGED <<client, dashboardVars, transferVars>>

-----------------------------------------------------------------------------

Init ==
  /\ page = "login"
  /\ client = "team020-1"
  /\ loading = FALSE
  /\ shown = None
  /\ asked = [r \in Requests |-> None]
  /\ offered = None
  /\ transfer = [x \in Transfers |-> None]
  /\ busy = FALSE
  /\ loads = NoLoads
  /\ orders = 0
  /\ selected = {}

Answered ==
  \/ \E r \in Requests : BankAnswered(r)
  \/ \E x \in Transfers : TransferAnswered(x)
  \/ \E l \in Loads : LoadAnswered(l) \/ OrderConfirmed(l)
  \/ OrderRefused

Pressed ==
  \/ \E c \in Clients : ChooseAccount(c)
  \/ Login
  \/ \E r \in Requests, bank \in Banks : SelectBank(r, bank)
  \/ OpenTransfers \/ (\E x \in Transfers : MakeTransfer(x)) \/ LeaveTransfer
  \/ OpenTrading \/ Order \/ LeaveTrading

Next == Answered \/ Pressed

Spec == Init /\ [][Next]_vars

-----------------------------------------------------------------------------
(* Properties *)

Accounts == {AccountOf(b, c, demo) : b \in Banks, c \in Clients, demo \in BOOLEAN}

Transfer == [account : Accounts, bank : {"vbank", "abank", "sbank"},
             client : Clients, state : {"running", "completed", "error"}]

TypeOK ==
  /\ page \in {"login", "dashboard", "transfer", "process", "trading"}
  /\ client \in Clients
  /\ loading \in BOOLEAN
  /\ shown \in Accounts \cup {None}
  /\ asked \in [Requests -> Banks \cup {None}]
  /\ offered \in Accounts \cup {None}
  /\ transfer \in [Transfers -> Transfer \cup {None}]
  /\ busy \in BOOLEAN
  /\ loads \in [Loads -> {None, "portfolio", "BTC price", "ETH price"}]
  /\ orders \in 0 .. MaxOrders
  /\ selected \subseteq Banks

\* A page that shows its spinner waits for a call that is under way: however
\* selections, orders and answers overlap, no spinner stays behind.
SpinnersHaveCause ==
  /\ loading => Free(asked) # Requests
  /\ busy => Free(loads) # Loads

\* Once every request has been answered the dashboard shows a bank selected
\* since the dashboard was last at rest: an answer can overtake another one,
\* but neither a failed call nor an old one brings back earlier accounts.
ShownWasSelected ==
  Free(asked) = Requests /\ shown # None => shown.bank \in selected

\* A transfer is made for another client than the one logged in only when it
\* debits a demo account.
TransferForOwnClient ==
  \A x \in Transfers :
    transfer[x] # None /\ transfer[x].client # client => transfer[x].account.demo
=============================================================================
