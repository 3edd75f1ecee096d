--------------------------- MODULE MobileAppProofs ---------------------------
(***************************************************************************)
(* What holds of MobileApp for every set of clients and banks and however  *)
(* many requests, loads, orders and transfers are under way at a time.     *)
(***************************************************************************)
EXTENDS MobileApp, TLAPS

-----------------------------------------------------------------------------
(* Type correctness *)

\* What AccountOf makes is an account.
LEMMA AccountOfType ==
  ASSUME NEW b \in Banks, NEW c \in Clients, NEW demo \in BOOLEAN
  PROVE  AccountOf(b, c, demo) \in Accounts
BY SMT DEF Accounts

\* An answer is an account of the bank asked, of this client or of the demo one.
LEMMA AnswersFacts ==
  ASSUME TypeOK, NEW bank \in Banks, NEW a \in Answers(bank)
  PROVE  a \in Accounts /\ a.bank = bank /\ (a.demo \/ a.owner = client)
<1>1. client \in Clients /\ DemoClient \in Clients
  BY AppAssumption DEF TypeOK
<1>2. CASE a = AccountOf(bank, client, FALSE)
  <2>1. a \in Accounts
    BY <1>1, <1>2, AccountOfType
  <2> QED
    BY <1>2, <2>1 DEF AccountOf
<1>3. CASE a = AccountOf(bank, DemoClient, TRUE)
  <2>1. a \in Accounts
    BY <1>1, <1>3, AccountOfType
  <2>2. a.bank = bank /\ a.demo = TRUE
    BY <1>3 DEF AccountOf
  <2> QED
    BY <2>1, <2>2
<1> QED
  BY <1>2, <1>3 DEF Answers

\* An account has an owner among the clients.
LEMMA AccountFacts ==
  ASSUME NEW a \in Accounts
  PROVE  a.owner \in Clients /\ a.bank \in Banks /\ a.demo \in BOOLEAN
BY DEF Accounts, AccountOf

\* The transfer page is opened with an account: a load cannot take it away.
AccountOffered == page \in {"transfer", "process"} => offered # None

\* The shape of the transfer that the process page makes.
LEMMA MadeFacts ==
  ASSUME TypeOK, AccountOffered, NEW x \in Transfers, MakeTransfer(x)
  PROVE  /\ offered \in Accounts
         /\ transfer' \in [Transfers -> Transfer \cup {None}]
         /\ transfer'[x].account = offered /\ transfer'[x].client = offered.owner
         /\ \A y \in Transfers \ {x} : transfer'[y] = transfer[y]
<1> DEFINE t == [account |-> offered, bank |-> GetBankCode(offered.name),
                 client |-> offered.owner, state |-> "running"]
<1>1. offered \in Accounts
  BY DEF MakeTransfer, AccountOffered, TypeOK
<1>2. t \in Transfer
  BY <1>1, AccountFacts DEF Transfer, GetBankCode
<1>3. transfer' = [transfer EXCEPT ![x] = t]
  BY DEF MakeTransfer
<1>4. transfer \in [Transfers -> Transfer \cup {None}]
  BY DEF TypeOK
<1> HIDE DEF t
<1>5. transfer' \in [Transfers -> Transfer \cup {None}] /\ transfer'[x] = t
      /\ \A y \in Transfers \ {x} : transfer'[y] = transfer[y]
  BY <1>2, <1>3, <1>4
<1>6. t.account = offered /\ t.client = offered.owner
  BY DEF t
<1> QED
  BY <1>1, <1>5, <1>6

\* An answered transfer keeps what it was made with.
LEMMA AnsweredFacts ==
  ASSUME TypeOK, NEW x \in Transfers, TransferAnswered(x)
  PROVE  /\ transfer' \in [Transfers -> Transfer \cup {None}]
         /\ transfer[x] # None
         /\ transfer'[x].account = transfer[x].account
         /\ transfer'[x].client = transfer[x].client
         /\ \A y \in Transfers \ {x} : transfer'[y] = transfer[y]
<1>1. transfer \in [Transfers -> Transfer \cup {None}] /\ transfer[x] # None
  BY DEF TypeOK, TransferAnswered
<1>2. PICK s \in {"completed", "error"} :
        transfer' = [transfer EXCEPT ![x] = [transfer[x] EXCEPT !.state = s]]
  BY DEF TransferAnswered
<1>3. [transfer[x] EXCEPT !.state = s] \in Transfer
      /\ [transfer[x] EXCEPT !.state = s].account = transfer[x].account
      /\ [transfer[x] EXCEPT !.state = s].client = transfer[x].client
  BY <1>1 DEF Transfer
<1> QED
  BY <1>1, <1>2, <1>3

\* Every callback and every button keeps the shape of the state, and an account
\* under the transfer pages.
LEMMA TypeStep == TypeOK /\ AccountOffered /\ [Next]_vars => TypeOK' /\ AccountOffered'
<1> SUFFICES ASSUME TypeOK, AccountOffered, [Next]_vars
             PROVE  TypeOK' /\ AccountOffered'
  OBVIOUS
<1> USE DEF dashboardVars, transferVars, tradingVars, AccountOffered
<1>1. ASSUME NEW c \in Clients, ChooseAccount(c)
      PROVE  TypeOK' /\ AccountOffered'
  BY <1>1 DEF TypeOK, ChooseAccount
<1>2. CASE Login
  BY <1>2 DEF TypeOK, Login
<1>3. ASSUME NEW r \in Requests, NEW bank \in Banks, SelectBank(r, bank)
      PROVE  TypeOK' /\ AccountOffered'
  BY <1>3 DEF TypeOK, SelectBank
<1>4. ASSUME NEW r \in Requests, BankAnswered(r)
      PROVE  TypeOK' /\ AccountOffered'
  <2>1. asked[r] \in Banks
    BY <1>4 DEF BankAnswered, TypeOK
  <2>2. shown' \in Accounts
    BY <1>4, <2>1, AnswersFacts DEF BankAnswered
  <2> QED
    BY <1>4, <2>1, <2>2 DEF TypeOK, BankAnswered
<1>5. CASE OpenTransfers
  BY <1>5 DEF TypeOK, OpenTransfers
<1>6. ASSUME NEW x \in Transfers, MakeTransfer(x)
      PROVE  TypeOK' /\ AccountOffered'
  BY <1>6, MadeFacts DEF TypeOK, MakeTransfer
<1>7. ASSUME NEW x \in Transfers, TransferAnswered(x)
      PROVE  TypeOK' /\ AccountOffered'
  BY <1>7, AnsweredFacts DEF TypeOK, TransferAnswered
<1>8. CASE LeaveTransfer
  BY <1>8 DEF TypeOK, LeaveTransfer
<1>9. CASE OpenTrading \/ Order \/ OrderRefused \/ LeaveTrading
  <2>1. loads' \in [Loads -> {None, "portfolio", "BTC price", "ETH price"}]
    BY <1>9 DEF TypeOK, OpenTrading, Order, OrderRefused, LeaveTrading, NoLoads
  <2>2. orders' \in 0 .. MaxOrders
    <3>1. orders \in 0 .. MaxOrders /\ MaxOrders \in Nat \ {0}
      BY AppAssumption DEF TypeOK
    <3>2. \/ orders' = orders \/ orders' = 0
          \/ (orders < MaxOrders /\ orders' = orders + 1)
          \/ (orders > 0 /\ orders' = orders - 1)
      BY <1>9 DEF OpenTrading, Order, OrderRefused, LeaveTrading
    <3> QED
      BY <3>1, <3>2
  <2> QED
    BY <1>9, <2>1, <2>2 DEF TypeOK, OpenTrading, Order, OrderRefused, LeaveTrading
<1>10. ASSUME NEW l \in Loads, LoadAnswered(l) \/ OrderConfirmed(l)
       PROVE  TypeOK' /\ AccountOffered'
  <2>1. loads' \in [Loads -> {None, "portfolio", "BTC price", "ETH price"}]
    BY <1>10 DEF TypeOK, LoadAnswered, OrderConfirmed
  <2>2. orders' \in 0 .. MaxOrders
    <3>1. orders \in 0 .. MaxOrders /\ MaxOrders \in Nat \ {0}
      BY AppAssumption DEF TypeOK
    <3>2. orders' = orders \/ (orders > 0 /\ orders' = orders - 1)
      BY <1>10 DEF LoadAnswered, OrderConfirmed
    <3> QED
      BY <3>1, <3>2
  <2>4. busy' \in BOOLEAN
    BY <1>10 DEF TypeOK, LoadAnswered, OrderConfirmed
  <2>3. UNCHANGED <<page, client, dashboardVars, transferVars>>
    BY <1>10 DEF LoadAnswered, OrderConfirmed
  <2> QED
    BY <2>1, <2>2, <2>3, <2>4 DEF TypeOK
<1>11. CASE UNCHANGED vars
  BY <1>11 DEF TypeOK, vars
<1> QED
  BY <1>1, <1>2, <1>3, <1>4, <1>5, <1>6, <1>7, <1>8, <1>9, <1>10, <1>11
     DEF Next, Answered, Pressed

\* Every reachable state of the application has the declared shape, and no page
\* of a transfer is on top without an account to debit.
THEOREM TypeCorrect == Spec => [](TypeOK /\ AccountOffered)
<1>1. Init => TypeOK /\ AccountOffered
  <2>1. Init => orders \in 0 .. MaxOrders
    <3>1. MaxOrders \in Nat
      BY AppAssumption
    <3> QED
      BY <3>1 DEF Init
  <2>2. Init => loads \in [Loads -> {None, "portfolio", "BTC price", "ETH price"}]
    BY DEF Init, NoLoads
  <2>3. Init => client \in Clients
    BY AppAssumption DEF Init, DemoClient
  <2> QED
    BY <2>1, <2>2, <2>3 DEF Init, TypeOK, AccountOffered
<1> QED
  BY <1>1, TypeStep, PTL DEF Spec

-----------------------------------------------------------------------------
(* Spinners *)

\* Selections, orders and answers may overlap in any way and in any number: a
\* page that spins still waits for a call.
THEOREM NoOrphanSpinner == Spec => []SpinnersHaveCause
<1> USE DEF dashboardVars, transferVars, tradingVars
<1>1. Init => SpinnersHaveCause
  BY DEF Init, SpinnersHaveCause
<1>2. TypeOK /\ SpinnersHaveCause /\ [Next]_vars => SpinnersHaveCause'
  <2> SUFFICES ASSUME TypeOK, SpinnersHaveCause, [Next]_vars
               PROVE  SpinnersHaveCause'
    OBVIOUS
  <2>0. /\ None \notin Banks \cup {"portfolio", "BTC price", "ETH price"}
        /\ asked \in [Requests -> Banks \cup {None}]
        /\ loads \in [Loads -> {None, "portfolio", "BTC price", "ETH price"}]
    BY AppAssumption DEF TypeOK
  <2> USE DEF SpinnersHaveCause, Free
  <2>1. CASE UNCHANGED <<loading, asked, busy, loads>>
    BY <2>1
  <2>2. ASSUME NEW r \in Requests, NEW bank \in Banks, SelectBank(r, bank)
        PROVE  SpinnersHaveCause'
    BY <2>0, <2>2 DEF SelectBank
  <2>3. ASSUME NEW r \in Requests, BankAnswered(r)
        PROVE  SpinnersHaveCause'
    BY <2>0, <2>3 DEF BankAnswered
  <2>4. CASE OpenTrading
    BY <2>0, <2>4 DEF OpenTrading, NoLoads
  <2>5. ASSUME NEW l \in Loads, LoadAnswered(l) \/ OrderConfirmed(l)
        PROVE  SpinnersHaveCause'
    <3>1. UNCHANGED <<loading, asked>>
      BY <2>5 DEF LoadAnswered, OrderConfirmed
    <3>2. busy' = FALSE \/ loads'[l] # None
      BY <2>0, <2>5 DEF LoadAnswered, OrderConfirmed
    <3>3. loads' \in [Loads -> {None, "portfolio", "BTC price", "ETH price"}]
      BY <2>0, <2>5 DEF LoadAnswered, OrderConfirmed
    <3>4. ~busy' \/ Free(loads)' # Loads
      BY <2>5, <3>2, <3>3
    <3> QED
      BY <3>1, <3>4
  <2>6. CASE LeaveTrading
    BY <2>6 DEF LeaveTrading
  <2>7. ASSUME \/ \E c \in Clients : ChooseAccount(c)
               \/ Login \/ OpenTransfers \/ LeaveTransfer
               \/ \E x \in Transfers : MakeTransfer(x) \/ TransferAnswered(x)
               \/ Order \/ OrderRefused \/ UNCHANGED vars
        PROVE  UNCHANGED <<loading, asked, busy, loads>>
    BY <2>7 DEF ChooseAccount, Login, OpenTransfers, LeaveTransfer, MakeTransfer,
                TransferAnswered, Order, OrderRefused, vars
  <2> QED
    BY <2>1, <2>2, <2>3, <2>4, <2>5, <2>6, <2>7 DEF Next, Answered, Pressed
<1> QED
  BY <1>1, <1>2, TypeCorrect, PTL DEF Spec

-----------------------------------------------------------------------------
(* What the dashboard shows *)

\* The banks asked are among those selected since the dashboard was at rest.
AskedWereSelected == \A r \in Requests : asked[r] # None => asked[r] \in selected

\* Whatever order the answers arrive in, once all have the dashboard shows one of
\* the banks selected since it was last at rest.
THEOREM AlwaysShowsSelection == Spec => []ShownWasSelected
<1> USE DEF dashboardVars, transferVars, tradingVars
<1> DEFINE Inv == AskedWereSelected /\ ShownWasSelected
<1>1. Init => Inv
  BY DEF Init, AskedWereSelected, ShownWasSelected
<1>2. TypeOK /\ Inv /\ [Next]_vars => Inv'
  <2> SUFFICES ASSUME TypeOK, Inv, [Next]_vars
               PROVE  Inv'
    OBVIOUS
  <2>0. /\ None \notin Banks /\ asked \in [Requests -> Banks \cup {None}]
        /\ DOMAIN asked = Requests
    BY AppAssumption DEF TypeOK
  <2> USE DEF AskedWereSelected, ShownWasSelected, Free
  <2>1. CASE UNCHANGED <<shown, asked, selected>>
    BY <2>1
  <2>2. ASSUME NEW r \in Requests, NEW bank \in Banks, SelectBank(r, bank)
        PROVE  Inv'
    <3>1. /\ asked[r] = None /\ asked' = [asked EXCEPT ![r] = bank]
          /\ selected' = {bank} \cup (IF \A q \in Requests : asked[q] = None THEN {} ELSE selected)
      BY <2>0, <2>2 DEF SelectBank
    <3>2. AskedWereSelected'
      BY <2>0, <3>1
    <3>3. Free(asked)' # Requests
      BY <2>0, <3>1
    <3> QED
      BY <3>2, <3>3
  <2>3. ASSUME NEW r \in Requests, BankAnswered(r)
        PROVE  Inv'
    <3>1. asked[r] \in Banks /\ asked[r] \in selected
      BY <2>0, <2>3 DEF BankAnswered
    <3>2. shown'.bank = asked[r]
      BY <2>3, <3>1, AnswersFacts DEF BankAnswered
    <3> QED
      BY <2>0, <2>3, <3>1, <3>2 DEF BankAnswered
  <2>4. ASSUME \/ \E c \in Clients : ChooseAccount(c)
               \/ Login \/ OpenTransfers \/ LeaveTransfer
               \/ \E x \in Transfers : MakeTransfer(x) \/ TransferAnswered(x)
               \/ OpenTrading \/ Order \/ OrderRefused \/ LeaveTrading
               \/ \E l \in Loads : LoadAnswered(l) \/ OrderConfirmed(l)
               \/ UNCHANGED vars
        PROVE  UNCHANGED <<shown, asked, selected>>
    BY <2>4 DEF ChooseAccount, Login, OpenTransfers, LeaveTransfer, MakeTransfer,
                TransferAnswered, OpenTrading, Order, OrderRefused, LeaveTrading,
                LoadAnswered, OrderConfirmed, vars
  <2> QED
    BY <2>1, <2>2, <2>3, <2>4 DEF Next, Answered, Pressed
<1> QED
  BY <1>1, <1>2, TypeCorrect, PTL DEF Spec

-----------------------------------------------------------------------------
(* For whom a transfer is made *)

OfClient(a) == a = None \/ a.demo \/ a.owner = client

\* Nothing is loaded before login, which fixes the client; what is shown, offered
\* or debited afterwards is that client's or a demo account.
AccountsOfClient ==
  /\ page = "login" =>
       /\ shown = None /\ offered = None
       /\ \A r \in Requests : asked[r] = None
       /\ \A x \in Transfers : transfer[x] = None
  /\ OfClient(shown) /\ OfClient(offered)
  /\ \A x \in Transfers :
       transfer[x] = None \/ transfer[x].account.demo \/ transfer[x].client = client

\* A transfer names the client who logged in unless it debits a demo account,
\* however late the accounts arrived and whatever pages were left meanwhile.
THEOREM AlwaysOwnClient == Spec => []TransferForOwnClient
<1> USE DEF dashboardVars, transferVars, tradingVars
<1>1. Init => AccountsOfClient
  BY DEF Init, AccountsOfClient, OfClient
<1>2. AccountsOfClient => TransferForOwnClient
  BY DEF AccountsOfClient, TransferForOwnClient
<1>3. TypeOK /\ AccountOffered /\ AccountsOfClient /\ [Next]_vars => AccountsOfClient'
  <2> SUFFICES ASSUME TypeOK, AccountOffered, AccountsOfClient, [Next]_vars
               PROVE  AccountsOfClient'
    OBVIOUS
  <2> USE DEF AccountsOfClient
  <2>1. CASE /\ UNCHANGED <<client, shown, offered, transfer, asked>>
             /\ page' = page \/ page' # "login"
    BY <2>1 DEF OfClient
  <2>2. ASSUME NEW c \in Clients, ChooseAccount(c)
        PROVE  AccountsOfClient'
    BY <2>2 DEF ChooseAccount, OfClient
  <2>3. ASSUME NEW r \in Requests, NEW bank \in Banks, SelectBank(r, bank)
        PROVE  AccountsOfClient'
    BY <2>3 DEF SelectBank, OfClient
  <2>4. ASSUME NEW r \in Requests, BankAnswered(r)
        PROVE  AccountsOfClient'
    <3>1. asked[r] \in Banks /\ page # "login"
      BY <2>4 DEF BankAnswered, TypeOK
    <3>2. OfClient(shown')
      BY <2>4, <3>1, AnswersFacts DEF BankAnswered, OfClient
    <3> QED
      BY <2>4, <3>1, <3>2 DEF BankAnswered, OfClient
  <2>5. CASE OpenTransfers
    BY <2>5 DEF OpenTransfers, OfClient
  <2>6. ASSUME NEW x \in Transfers, MakeTransfer(x)
        PROVE  AccountsOfClient'
    <3>1. offered # None /\ page' = "process" /\ UNCHANGED <<client, shown, offered>>
      BY <2>6 DEF MakeTransfer, AccountOffered
    <3>2. transfer'[x].account.demo \/ transfer'[x].client = client
      BY <2>6, <3>1, MadeFacts DEF OfClient
    <3> QED
      BY <2>6, <3>1, <3>2, MadeFacts DEF OfClient
  <2>7. ASSUME NEW x \in Transfers, TransferAnswered(x)
        PROVE  AccountsOfClient'
    <3>1. UNCHANGED <<page, client, shown, offered, asked>> /\ page # "login"
      BY <2>7 DEF TransferAnswered
    <3> QED
      BY <2>7, <3>1, AnsweredFacts DEF OfClient
  <2>8. CASE LeaveTransfer
    BY <2>8 DEF LeaveTransfer, OfClient
  <2>9. ASSUME \/ Login \/ OpenTrading \/ Order \/ OrderRefused \/ LeaveTrading
               \/ \E l \in Loads : LoadAnswered(l) \/ OrderConfirmed(l)
               \/ UNCHANGED vars
        PROVE  /\ UNCHANGED <<client, shown, offered, transfer, asked>>
               /\ page' = page \/ page' # "login"
    BY <2>9 DEF Login, OpenTrading, Order, OrderRefused, LeaveTrading,
                LoadAnswered, OrderConfirmed, vars
  <2> QED
    BY <2>1, <2>2, <2>3, <2>4, <2>5, <2>6, <2>7, <2>8, <2>9 DEF Next, Answered, Pressed
<1> QED
  BY <1>1, <1>2, <1>3, TypeCorrect, PTL DEF Spec
=============================================================================
