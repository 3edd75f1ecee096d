-------------------------- MODULE BankConsentProofs --------------------------
(***************************************************************************)
(* What holds of BankConsent for every number of coroutines, clients,      *)
(* services and accounts, every number of retries, with tokens that expire *)
(* or not and with crashes that may tear the file.                         *)
(***************************************************************************)
EXTENDS BankConsent, TLAPS

-----------------------------------------------------------------------------
(* The POSTs a request for accounts may have sent after k renewals. *)

Budget(k) == k * MaxRetries

\* The budget grows by MaxRetries with every renewal and never passes the limit.
LEMMA BudgetFacts ==
  /\ PostLimit \in Nat
  /\ Budget(0) = 0
  /\ \A k \in 0 .. MaxRenewals : /\ Budget(k) \in Nat
                                 /\ Budget(k + 1) = Budget(k) + MaxRetries
                                 /\ Budget(k + 1) <= PostLimit
<1>1. MaxRetries \in Nat /\ MaxRenewals = 2
  BY ConsentAssumption DEF MaxRenewals
<1>2. PostLimit = 3 * MaxRetries
  BY <1>1 DEF PostLimit
<1>3. ASSUME NEW k \in 0 .. MaxRenewals
      PROVE  /\ Budget(k) \in Nat
             /\ Budget(k + 1) = Budget(k) + MaxRetries
             /\ Budget(k + 1) <= PostLimit
  <2>1. k = 0 \/ k = 1 \/ k = 2
    BY <1>1
  <2> QED
    BY <1>1, <1>2, <2>1 DEF Budget
<1>4. Budget(0) = 0
  BY <1>1 DEF Budget
<1> QED
  BY <1>1, <1>2, <1>3, <1>4

-----------------------------------------------------------------------------
(* A coroutine. *)

Reading == {"detail", "balance", "history"}

\* What the local variables of a coroutine may be, where it awaits.
GoodTask(r) ==
  /\ r \in Task
  /\ r.pc = "idle" => r.held = None /\ r.used = None /\ r.posts = 0
  /\ r.pc # "idle" => r.svc \in Services /\ r.client \in Clients
  /\ r.pc \in {"login", "lookup"} => r.posts = 0 /\ r.tries = 0 /\ r.renewals = 0
  /\ r.pc = "ask" => r.posts <= Budget(r.renewals) + r.tries
  /\ r.pc \in {"list"} \cup Reading => r.tries = 0 /\ r.posts <= Budget(r.renewals + 1)
  /\ r.pc \in Reading => r.left > 0

GoodTasks == \A t \in Tasks : GoodTask(task[t])

\* A coroutine that is not running has nothing.
LEMMA IdleIsGood == GoodTask(Idle)
<1>1. PostLimit \in Nat /\ MaxRetries \in Nat \ {0} /\ MaxAccounts \in Nat /\ MaxServices \in Nat
  BY BudgetFacts, ConsentAssumption
<1>2. Idle \in Task
  BY <1>1 DEF Idle, Task, ConsentOrNone, MaxRenewals
<1> QED
  BY <1>2 DEF GoodTask, Idle, Reading

\* A POST that failed: sent again, within the budget of this renewal, or the end.
LEMMA RetryIsGood ==
  ASSUME NEW t \in Tasks, GoodTask(task[t]), task[t].pc = "ask", Retry(t)
  PROVE  \E new : /\ GoodTask(new) /\ task' = [task EXCEPT ![t] = new]
                  /\ \/ new = Idle
                     \/ /\ new.client = task[t].client
                        /\ new.held = task[t].held /\ new.used = task[t].used
<1> DEFINE r == task[t]
           new == [r EXCEPT !.posts = Counted(@), !.tries = @ + 1]
<1>1. r \in Task /\ r.pc = "ask" /\ r.posts <= Budget(r.renewals) + r.tries
      /\ r.svc \in Services /\ r.client \in Clients
  BY DEF GoodTask
<1>2. CASE r.tries + 1 < MaxRetries
  <2>1. task' = [task EXCEPT ![t] = new]
    BY <1>2 DEF Retry
  <2>2. /\ r.posts \in 0 .. PostLimit + 1 /\ r.tries \in Nat /\ r.renewals \in 0 .. MaxRenewals
        /\ MaxRetries \in Nat
    BY <1>1, ConsentAssumption DEF Task
  <2>3. r.posts <= PostLimit
    BY <1>1, <1>2, <2>2, BudgetFacts
  <2>4. Counted(r.posts) = r.posts + 1
    BY <2>3 DEF Counted
  <2>5. new \in Task
    <3>1. Counted(r.posts) \in 0 .. PostLimit + 1 /\ r.tries + 1 \in 0 .. MaxRetries - 1
      BY <1>2, <2>2, <2>3, <2>4, BudgetFacts
    <3> QED
      BY <1>1, <3>1 DEF Task
  <2>6. /\ new.pc = "ask" /\ new.posts = r.posts + 1 /\ new.tries = r.tries + 1
        /\ new.renewals = r.renewals /\ new.svc = r.svc /\ new.client = r.client
        /\ new.held = r.held /\ new.used = r.used
    BY <1>1, <2>4 DEF Task
  <2>7. new.posts <= Budget(new.renewals) + new.tries
    BY <1>1, <2>2, <2>6, BudgetFacts
  <2> HIDE DEF new
  <2>8. GoodTask(new)
    BY <1>1, <2>5, <2>6, <2>7 DEF GoodTask, Reading
  <2> QED
    BY <2>1, <2>6, <2>8
<1>3. CASE ~(r.tries + 1 < MaxRetries)
  BY <1>3, IdleIsGood DEF Retry, End
<1> QED
  BY <1>2, <1>3

\* The consents a step of a coroutine may go on with: those it had, the one it finds in
\* the dictionary and the one it is granted.
Known(t, x) ==
  \/ x \in {None, task[t].held, task[t].used}
  \/ x = cache[task[t].svc][task[t].client]
  \/ \E id \in ConsentIds : AskGranted(t, id) /\ x = id

\* What a step of the coroutine t makes of it.
Becomes(t, new) ==
  /\ GoodTask(new)
  /\ task' = [task EXCEPT ![t] = new]
  /\ new = Idle \/ (new.client = task[t].client /\ Known(t, new.held) /\ Known(t, new.used))

\* The end of a request.
LEMMA EndBecomes ==
  ASSUME NEW t \in Tasks, End(t)
  PROVE  Becomes(t, Idle)
BY IdleIsGood DEF Becomes, End

\* A failed POST.
LEMMA RetryBecomes ==
  ASSUME NEW t \in Tasks, GoodTask(task[t]), task[t].pc = "ask", Retry(t)
  PROVE  \E new : Becomes(t, new)
<1>1. PICK new : /\ GoodTask(new) /\ task' = [task EXCEPT ![t] = new]
                 /\ \/ new = Idle
                    \/ /\ new.client = task[t].client
                       /\ new.held = task[t].held /\ new.used = task[t].used
  BY RetryIsGood
<1>2. Becomes(t, new)
  BY <1>1 DEF Becomes, Known
<1> QED
  BY <1>2

\* The steps that find a consent.
LEMMA FindingBecomes ==
  ASSUME TypeOK, NEW t \in Tasks, GoodTask(task[t]),
         LoginOk(t) \/ FindCached(t) \/ MissCached(t)
  PROVE  \E new : Becomes(t, new)
<1> DEFINE r == task[t]
<1>1. r \in Task /\ r.pc \in {"login", "lookup"}
      /\ r.posts = 0 /\ r.tries = 0 /\ r.renewals = 0 /\ r.svc \in Services /\ r.client \in Clients
  BY DEF LoginOk, FindCached, MissCached, GoodTask
<1>2. MaxRetries \in Nat \ {0} /\ Budget(0) = 0 /\ Budget(1) \in Nat
  BY BudgetFacts, ConsentAssumption DEF Budget
<1>3. CASE LoginOk(t)
  <2> DEFINE new == [r EXCEPT !.pc = "lookup"]
  <2>1. new \in Task /\ new.pc = "lookup" /\ new.posts = 0 /\ new.tries = 0 /\ new.renewals = 0
        /\ new.svc = r.svc /\ new.client = r.client /\ new.held = r.held /\ new.used = r.used
    BY <1>1 DEF Task
  <2>2. GoodTask(new)
    BY <1>1, <2>1 DEF GoodTask, Reading
  <2>3. Becomes(t, new)
    BY <1>3, <2>1, <2>2 DEF Becomes, Known, LoginOk
  <2> QED
    BY <2>3
<1>4. CASE FindCached(t)
  <2> DEFINE id == cache[r.svc][r.client]
             new == [r EXCEPT !.pc = "list", !.held = id, !.used = id]
  <2>1. id \in ConsentOrNone
    BY <1>1 DEF TypeOK
  <2>2. task' = [task EXCEPT ![t] = new]
    BY <1>4 DEF FindCached
  <2> HIDE DEF id
  <2>3. new \in Task /\ new.pc = "list" /\ new.posts = 0 /\ new.tries = 0 /\ new.renewals = 0
        /\ new.svc = r.svc /\ new.client = r.client /\ new.held = id /\ new.used = id
    BY <1>1, <2>1 DEF Task
  <2>4. new.posts <= Budget(new.renewals + 1)
    BY <1>2, <2>3
  <2> HIDE DEF new
  <2>5. GoodTask(new)
    BY <1>1, <2>3, <2>4 DEF GoodTask, Reading
  <2>6. Becomes(t, new)
    BY <2>2, <2>3, <2>5 DEF Becomes, Known, id
  <2> QED
    BY <2>6
<1>5. CASE MissCached(t)
  <2> DEFINE new == [r EXCEPT !.pc = "ask"]
  <2>1. new \in Task /\ new.pc = "ask" /\ new.posts = 0 /\ new.tries = 0 /\ new.renewals = 0
        /\ new.svc = r.svc /\ new.client = r.client /\ new.held = r.held /\ new.used = r.used
    BY <1>1 DEF Task
  <2>2. GoodTask(new)
    BY <1>1, <1>2, <2>1 DEF GoodTask, Reading
  <2>3. Becomes(t, new)
    BY <1>5, <2>1, <2>2 DEF Becomes, Known, MissCached
  <2> QED
    BY <2>3
<1> QED
  BY <1>3, <1>4, <1>5

\* The POST that is answered.
LEMMA AskGrantedBecomes ==
  ASSUME NEW t \in Tasks, GoodTask(task[t]), NEW id \in ConsentIds, AskGranted(t, id)
  PROVE  \E new : Becomes(t, new)
<1> DEFINE r == task[t]
           held == IF r.held = None THEN id ELSE r.held
           posts == Counted(r.posts)
           new == [r EXCEPT !.pc = "list", !.held = held, !.used = id, !.tries = 0, !.posts = posts]
<1>1. r \in Task /\ r.pc = "ask" /\ r.posts <= Budget(r.renewals) + r.tries
      /\ r.svc \in Services /\ r.client \in Clients
  BY DEF AskGranted, GoodTask
<1>2. /\ r.posts \in 0 .. PostLimit + 1 /\ r.tries \in 0 .. MaxRetries - 1
      /\ r.renewals \in 0 .. MaxRenewals /\ MaxRetries \in Nat \ {0} /\ r.held \in ConsentOrNone
  BY <1>1, ConsentAssumption DEF Task
<1>3. r.posts + 1 <= Budget(r.renewals + 1) /\ Budget(r.renewals + 1) <= PostLimit
  BY <1>1, <1>2, BudgetFacts
<1>4. posts = r.posts + 1 /\ posts \in 0 .. PostLimit + 1
  BY <1>2, <1>3, BudgetFacts DEF Counted
<1>5. task' = [task EXCEPT ![t] = new]
  BY DEF AskGranted
<1>6. held \in ConsentOrNone /\ id \in ConsentOrNone /\ 0 \in 0 .. MaxRetries - 1
  BY <1>2 DEF ConsentOrNone
<1>7. Known(t, held) /\ Known(t, id)
  BY DEF Known
<1> HIDE DEF held, posts
<1>8. /\ new \in Task /\ new.pc = "list" /\ new.posts = posts /\ new.tries = 0
      /\ new.renewals = r.renewals /\ new.svc = r.svc /\ new.client = r.client
      /\ new.held = held /\ new.used = id
  BY <1>1, <1>4, <1>6 DEF Task
<1> HIDE DEF new
<1>9. new.posts <= Budget(new.renewals + 1)
  BY <1>3, <1>4, <1>8
<1>10. GoodTask(new)
  BY <1>1, <1>8, <1>9 DEF GoodTask, Reading
<1>11. Becomes(t, new)
  BY <1>5, <1>7, <1>8, <1>10 DEF Becomes
<1> QED
  BY <1>11

\* The account list.
LEMMA ListBecomes ==
  ASSUME NEW t \in Tasks, GoodTask(task[t]), Listed(t) \/ ListDenied(t) \/ ListFails(t)
  PROVE  \E new : Becomes(t, new)
<1> DEFINE r == task[t]
<1>1. r \in Task /\ r.pc = "list" /\ r.posts <= Budget(r.renewals + 1) /\ r.tries = 0
      /\ r.svc \in Services /\ r.client \in Clients
  BY DEF Listed, ListDenied, ListFails, GoodTask
<1>2. CASE End(t)
  BY <1>2, EndBecomes
<1>3. CASE Listed(t) /\ ~End(t)
  <2>1. PICK n \in 0 .. MaxAccounts : n # 0 /\ task' = [task EXCEPT ![t].pc = "detail", ![t].left = n]
    BY <1>3 DEF Listed
  <2> DEFINE new == [r EXCEPT !.pc = "detail", !.left = n]
  <2>2. /\ new \in Task /\ new.pc = "detail" /\ new.posts = r.posts /\ new.tries = 0
        /\ new.renewals = r.renewals /\ new.svc = r.svc /\ new.client = r.client
        /\ new.held = r.held /\ new.used = r.used /\ new.left = n
    BY <1>1 DEF Task
  <2>3. task' = [task EXCEPT ![t] = new]
    BY <2>1
  <2>4. n > 0
    BY <2>1, ConsentAssumption
  <2> HIDE DEF new
  <2>5. GoodTask(new)
    BY <1>1, <2>2, <2>4 DEF GoodTask, Reading
  <2>6. Becomes(t, new)
    BY <2>2, <2>3, <2>5 DEF Becomes, Known
  <2> QED
    BY <2>6
<1>4. CASE ListDenied(t)
  <2> DEFINE renewals == r.renewals + 1
             new == [r EXCEPT !.pc = "ask", !.renewals = renewals]
  <2>1. task' = [task EXCEPT ![t] = new]
    BY <1>4 DEF ListDenied
  <2>2. renewals \in 0 .. MaxRenewals
    BY <1>1, <1>4 DEF ListDenied, Task, MaxRenewals
  <2>3. r.posts <= Budget(renewals)
    BY <1>1
  <2> HIDE DEF renewals
  <2>4. /\ new \in Task /\ new.pc = "ask" /\ new.posts = r.posts /\ new.tries = 0
        /\ new.renewals = renewals /\ new.svc = r.svc /\ new.client = r.client
        /\ new.held = r.held /\ new.used = r.used
    BY <1>1, <2>2 DEF Task
  <2> HIDE DEF new
  <2>5. new.posts <= Budget(new.renewals) + new.tries
    BY <2>2, <2>3, <2>4, BudgetFacts
  <2>6. GoodTask(new)
    BY <1>1, <2>4, <2>5 DEF GoodTask, Reading
  <2>7. Becomes(t, new)
    BY <2>1, <2>4, <2>6 DEF Becomes, Known
  <2> QED
    BY <2>7
<1> QED
  BY <1>2, <1>3, <1>4 DEF ListFails

\* The reads of the accounts.
LEMMA ReadBecomes ==
  ASSUME NEW t \in Tasks, GoodTask(task[t]), ReadOk(t) \/ ReadDenied(t) \/ ReadFails(t)
  PROVE  \E new : Becomes(t, new)
<1> DEFINE r == task[t]
<1>1. r \in Task /\ r.pc \in Reading /\ r.posts <= Budget(r.renewals + 1) /\ r.tries = 0
      /\ r.svc \in Services /\ r.client \in Clients /\ r.left > 0
  BY DEF ReadOk, ReadDenied, ReadFails, GoodTask, Reading
<1>2. CASE End(t)
  BY <1>2, EndBecomes
<1>3. ASSUME NEW pc \in Reading, NEW left \in 1 .. MaxAccounts,
             task' = [task EXCEPT ![t] = [r EXCEPT !.pc = pc, !.left = left]]
      PROVE  \E new : Becomes(t, new)
  <2> DEFINE new == [r EXCEPT !.pc = pc, !.left = left]
  <2>1. left \in 0 .. MaxAccounts /\ left > 0
    BY ConsentAssumption
  <2>2. /\ new \in Task /\ new.pc = pc /\ new.posts = r.posts /\ new.tries = 0
        /\ new.renewals = r.renewals /\ new.svc = r.svc /\ new.client = r.client
        /\ new.held = r.held /\ new.used = r.used /\ new.left = left
    BY <1>1, <2>1 DEF Task, Reading
  <2> HIDE DEF new
  <2>3. pc \notin {"idle", "login", "lookup", "ask"}
    BY DEF Reading
  <2>4. GoodTask(new)
    BY <1>1, <2>1, <2>2, <2>3 DEF GoodTask
  <2>5. Becomes(t, new)
    BY <1>3, <2>2, <2>4 DEF Becomes, Known, new
  <2> QED
    BY <2>5
<1>4. r.left \in 1 .. MaxAccounts /\ (r.left # 1 => r.left - 1 \in 1 .. MaxAccounts)
  BY <1>1, ConsentAssumption DEF Task
<1>5. CASE \E pc \in Reading : task' = [task EXCEPT ![t].pc = pc]
  <2>1. PICK pc \in Reading : task' = [task EXCEPT ![t].pc = pc]
    BY <1>5
  <2>2. [r EXCEPT !.pc = pc] = [r EXCEPT !.pc = pc, !.left = r.left]
    BY <1>1 DEF Task
  <2>3. task' = [task EXCEPT ![t] = [r EXCEPT !.pc = pc, !.left = r.left]]
    BY <2>1, <2>2
  <2> QED
    BY <1>3, <1>4, <2>3
<1>6. CASE NextAccount(t) /\ ~End(t)
  <2>1. r.left # 1 /\ task' = [task EXCEPT ![t].pc = "detail", ![t].left = @ - 1]
    BY <1>6 DEF NextAccount
  <2>2. task' = [task EXCEPT ![t] = [r EXCEPT !.pc = "detail", !.left = r.left - 1]]
    BY <2>1
  <2> QED
    BY <1>3, <1>4, <2>1, <2>2 DEF Reading
<1>7. NextAccount(t) \/ \E pc \in Reading : task' = [task EXCEPT ![t].pc = pc]
  <2>1. CASE ReadOk(t)
    <3>1. \/ task' = [task EXCEPT ![t].pc = "balance"]
          \/ task' = [task EXCEPT ![t].pc = "history"]
          \/ NextAccount(t)
      BY <1>1, <2>1 DEF ReadOk, Reading
    <3> QED
      BY <3>1 DEF Reading
  <2>2. CASE ReadDenied(t) \/ ReadFails(t)
    BY <2>2 DEF ReadDenied, ReadFails, GoOnWithout, Reading
  <2> QED
    BY <2>1, <2>2
<1> QED
  BY <1>2, <1>5, <1>6, <1>7

\* Every step of a coroutine.
LEMMA StepBecomes ==
  ASSUME TypeOK, NEW t \in Tasks, GoodTask(task[t]), Step(t)
  PROVE  \E new : Becomes(t, new)
<1>1. CASE LoginOk(t) \/ FindCached(t) \/ MissCached(t)
  BY <1>1, FindingBecomes
<1>2. CASE LoginFails(t) \/ AskRefused(t)
  BY <1>2, EndBecomes DEF LoginFails, AskRefused
<1>3. CASE \E id \in ConsentIds : AskGranted(t, id)
  BY <1>3, AskGrantedBecomes
<1>4. CASE AskUnavailable(t) \/ \E id \in ConsentIds : AskLost(t, id)
  BY <1>4, RetryBecomes DEF AskUnavailable, AskLost
<1>5. CASE Listed(t) \/ ListDenied(t) \/ ListFails(t)
  BY <1>5, ListBecomes
<1>6. CASE ReadOk(t) \/ ReadDenied(t) \/ ReadFails(t)
  BY <1>6, ReadBecomes
<1> QED
  BY <1>1, <1>2, <1>3, <1>4, <1>5, <1>6 DEF Step

-----------------------------------------------------------------------------
(* The dictionaries of the services, the file and the bank. *)

\* A consent that was not given yet has no owner.
NoOwnerYet == \A id \in ConsentIds : status[id] = "unused" => owner[id] = None

ConsentInv == TypeOK /\ GoodTasks /\ NoOwnerYet /\ ConsentsBelongToClient

\* The bank gives a consent once, so those that belong to somebody still do.
LEMMA OwnersStay ==
  ASSUME TypeOK, NoOwnerYet, owner' = owner \/ \E c \in Clients, id \in ConsentIds : Grants(c, id)
  PROVE  \A c \in Clients, x \in ConsentOrNone : Belongs(x, c) => Belongs(x, c)'
<1> SUFFICES ASSUME NEW c \in Clients, NEW x \in ConsentOrNone, Belongs(x, c), x # None
             PROVE  owner'[x] = c
  BY DEF Belongs
<1>1. x \in ConsentIds /\ owner[x] = c /\ c # None /\ status[x] # "unused"
  BY ConsentAssumption DEF ConsentOrNone, Belongs, NoOwnerYet
<1>2. CASE owner' = owner
  BY <1>1, <1>2
<1>3. CASE \E d \in Clients, id \in ConsentIds : Grants(d, id)
  <2>1. PICK d \in Clients, id \in ConsentIds : Grants(d, id)
    BY <1>3
  <2>2. id # x /\ owner' = [owner EXCEPT ![id] = d]
    BY <1>1, <2>1 DEF Grants
  <2> QED
    BY <1>1, <2>2 DEF TypeOK
<1> QED
  BY <1>2, <1>3

\* A grant keeps the bank's records typed and in step.
LEMMA GrantsKeep ==
  ASSUME TypeOK, NoOwnerYet, NEW c \in Clients, NEW id \in ConsentIds, Grants(c, id)
  PROVE  /\ owner' \in [ConsentIds -> Clients \cup {None}]
         /\ status' \in [ConsentIds -> {"unused", "pending", "valid", "revoked"}]
         /\ NoOwnerYet' /\ owner'[id] = c
<1>1. PICK s \in {"pending", "valid"} : status' = [status EXCEPT ![id] = s]
  BY DEF Grants
<1>2. owner' = [owner EXCEPT ![id] = c]
  BY DEF Grants
<1> QED
  BY <1>1, <1>2 DEF TypeOK, NoOwnerYet

\* What a coroutine does to the services and to the bank.
LEMMA StepEffects ==
  ASSUME TypeOK, NEW t \in Tasks, GoodTask(task[t]), Step(t)
  PROVE  /\ task[t].svc \in Services /\ task[t].client \in Clients
         /\ UNCHANGED <<current, made>>
         /\ token' \in [Services -> {"none", "live", "expired"}]
         /\ \/ UNCHANGED <<cache, file, staleWrite>>
            \/ \E x \in ConsentOrNone :
                 /\ Put(task[t].svc, task[t].client, x)
                 /\ x = None \/ (x \in ConsentIds /\ Grants(task[t].client, x))
         /\ UNCHANGED bankVars \/ \E id \in ConsentIds : Grants(task[t].client, id)
         /\ \A id \in ConsentIds : AskGranted(t, id) => Grants(task[t].client, id)
<1> DEFINE s == task[t].svc
           c == task[t].client
<1>1. s \in Services /\ c \in Clients
  <2>1. task[t].pc # "idle"
    BY DEF Step, LoginOk, LoginFails, FindCached, MissCached, AskGranted, AskLost, AskUnavailable,
           AskRefused, Listed, ListDenied, ListFails, ReadOk, ReadDenied, ReadFails
  <2> QED
    BY <2>1 DEF GoodTask
<1>2. UNCHANGED <<current, made>>
  BY DEF Step, LoginOk, LoginFails, FindCached, MissCached, AskGranted, AskLost, AskUnavailable,
         AskRefused, Listed, ListDenied, ListFails, ReadOk, ReadDenied, ReadFails, serviceVars
<1>3. token' = token \/ token' = [token EXCEPT ![s] = "live"]
  BY DEF Step, LoginOk, LoginFails, FindCached, MissCached, AskGranted, AskLost, AskUnavailable,
         AskRefused, Listed, ListDenied, ListFails, ReadOk, ReadDenied, ReadFails, serviceVars
<1>4. Remove(s, c) => UNCHANGED <<cache, file, staleWrite>> \/ Put(s, c, None)
  BY DEF Remove
<1>5. \/ UNCHANGED <<cache, file, staleWrite>>
      \/ Put(s, c, None)
      \/ \E id \in ConsentIds : Put(s, c, id) /\ Grants(c, id)
  <2>1. CASE \E id \in ConsentIds : AskGranted(t, id)
    BY <2>1 DEF AskGranted
  <2>2. CASE AskRefused(t) \/ ListDenied(t) \/ ReadDenied(t)
    BY <1>4, <2>2 DEF AskRefused, ListDenied, ReadDenied
  <2>3. CASE \/ LoginOk(t) \/ LoginFails(t) \/ FindCached(t) \/ MissCached(t)
             \/ (\E id \in ConsentIds : AskLost(t, id)) \/ AskUnavailable(t)
             \/ Listed(t) \/ ListFails(t) \/ ReadOk(t) \/ ReadFails(t)
    BY <2>3 DEF LoginOk, LoginFails, FindCached, MissCached, AskLost, AskUnavailable,
                Listed, ListFails, ReadOk, ReadFails, serviceVars
  <2> QED
    BY <2>1, <2>2, <2>3 DEF Step
<1>6. \A id \in ConsentIds : AskGranted(t, id) => Grants(c, id)
  BY DEF AskGranted
<1>7. UNCHANGED bankVars \/ \E id \in ConsentIds : Grants(c, id)
  BY DEF Step, LoginOk, LoginFails, FindCached, MissCached, AskGranted, AskLost, AskUnavailable,
         AskRefused, Listed, ListDenied, ListFails, ReadOk, ReadDenied, ReadFails
<1>8. token' \in [Services -> {"none", "live", "expired"}]
  BY <1>1, <1>3 DEF TypeOK
<1>9. \/ UNCHANGED <<cache, file, staleWrite>>
      \/ \E x \in ConsentOrNone : Put(s, c, x) /\ (x = None \/ (x \in ConsentIds /\ Grants(c, x)))
  BY <1>5 DEF ConsentOrNone
<1> QED
  BY <1>1, <1>2, <1>6, <1>7, <1>8, <1>9

\* Saving a consent changes one entry of one dictionary and makes it the file.
LEMMA PutFacts ==
  ASSUME TypeOK, NEW s \in Services, NEW c \in Clients, NEW x \in ConsentOrNone, Put(s, c, x)
  PROVE  /\ cache' \in [Services -> [Clients -> ConsentOrNone]]
         /\ file' \in [Clients -> ConsentOrNone] /\ staleWrite' = (s # current)
         /\ file' = cache'[s] /\ cache'[s][c] = x
         /\ \A d \in Clients \ {c} : cache'[s][d] = cache[s][d]
         /\ \A r \in Services \ {s} : cache'[r] = cache[r]
<1> DEFINE new == [cache[s] EXCEPT ![c] = x]
<1>1. cache[s] \in [Clients -> ConsentOrNone] /\ cache \in [Services -> [Clients -> ConsentOrNone]]
  BY DEF TypeOK
<1>2. new \in [Clients -> ConsentOrNone] /\ new[c] = x /\ \A d \in Clients \ {c} : new[d] = cache[s][d]
  BY <1>1
<1>3. cache' = [cache EXCEPT ![s] = new] /\ file' = new /\ staleWrite' = (s # current)
  BY DEF Put
<1> HIDE DEF new
<1> QED
  BY <1>1, <1>2, <1>3

-----------------------------------------------------------------------------
(* Whose consents they are. *)

\* What every coroutine holds belongs to its client.
TaskBelongs(r) == Belongs(r.held, r.client) /\ Belongs(r.used, r.client)

\* The invariant, with what belongs to a coroutine said of its record.
LEMMA InvParts ==
  ConsentInv <=>
    /\ TypeOK /\ NoOwnerYet
    /\ \A c \in Clients : Belongs(file[c], c) /\ \A s \in Services : Belongs(cache[s][c], c)
    /\ \A t \in Tasks : GoodTask(task[t]) /\ TaskBelongs(task[t])
BY DEF ConsentInv, ConsentsBelongToClient, GoodTasks, TaskBelongs

\* A coroutine that stays as it is keeps what belongs to its client.
LEMMA TasksStay ==
  ASSUME TypeOK, NoOwnerYet, owner' = owner \/ \E c \in Clients, id \in ConsentIds : Grants(c, id),
         NEW r, GoodTask(r), TaskBelongs(r)
  PROVE  TaskBelongs(r)'
<1>1. r.held \in ConsentOrNone /\ r.used \in ConsentOrNone
  BY DEF GoodTask, Task
<1>2. CASE r.pc = "idle"
  BY <1>2 DEF GoodTask, TaskBelongs, Belongs
<1>3. CASE r.pc # "idle"
  <2>1. r.client \in Clients
    BY <1>3 DEF GoodTask
  <2> QED
    BY <1>1, <2>1, OwnersStay DEF TaskBelongs
<1> QED
  BY <1>2, <1>3

\* A step of a coroutine.
LEMMA StepKeeps ==
  ASSUME ConsentInv, NEW t \in Tasks, Step(t)
  PROVE  ConsentInv'
<1>1. /\ TypeOK /\ NoOwnerYet
      /\ \A c \in Clients : Belongs(file[c], c) /\ \A s \in Services : Belongs(cache[s][c], c)
      /\ \A u \in Tasks : GoodTask(task[u]) /\ TaskBelongs(task[u])
  BY InvParts
<1>2. PICK new : Becomes(t, new)
  BY <1>1, StepBecomes
<1>3. PICK s \in Services, c \in Clients : s = task[t].svc /\ c = task[t].client
  BY <1>1, StepEffects
<1>4. /\ UNCHANGED <<current, made>> /\ token' \in [Services -> {"none", "live", "expired"}]
      /\ \/ UNCHANGED <<cache, file, staleWrite>>
         \/ \E x \in ConsentOrNone : Put(s, c, x) /\ (x = None \/ (x \in ConsentIds /\ Grants(c, x)))
      /\ UNCHANGED bankVars \/ \E id \in ConsentIds : Grants(c, id)
      /\ \A id \in ConsentIds : AskGranted(t, id) => Grants(c, id)
  BY <1>1, <1>3, StepEffects
<1>5. owner' = owner \/ \E d \in Clients, id \in ConsentIds : Grants(d, id)
  BY <1>4 DEF bankVars
<1>6. \A d \in Clients, x \in ConsentOrNone : Belongs(x, d) => Belongs(x, d)'
  BY <1>1, <1>5, OwnersStay
<1>7. /\ owner' \in [ConsentIds -> Clients \cup {None}]
      /\ status' \in [ConsentIds -> {"unused", "pending", "valid", "revoked"}]
      /\ NoOwnerYet'
  <2>1. CASE UNCHANGED bankVars
    BY <1>1, <2>1 DEF bankVars, TypeOK, NoOwnerYet
  <2>2. CASE \E id \in ConsentIds : Grants(c, id)
    BY <1>1, <2>2, GrantsKeep
  <2> QED
    BY <1>4, <2>1, <2>2
<1>8. \A x \in ConsentIds : Grants(c, x) => owner'[x] = c
  BY <1>1, GrantsKeep
<1> DEFINE Kept ==
      /\ cache' \in [Services -> [Clients -> ConsentOrNone]] /\ file' \in [Clients -> ConsentOrNone]
      /\ staleWrite' \in BOOLEAN
      /\ \A d \in Clients : Belongs(file[d], d)' /\ \A r \in Services : Belongs(cache[r][d], d)'
<1>9. Kept
  <2>1. CASE UNCHANGED <<cache, file, staleWrite>>
    BY <1>1, <1>6, <2>1 DEF TypeOK, Belongs
  <2>2. ASSUME NEW x \in ConsentOrNone, Put(s, c, x), x = None \/ (x \in ConsentIds /\ Grants(c, x))
        PROVE  Kept
    <3>1. /\ cache' \in [Services -> [Clients -> ConsentOrNone]]
          /\ file' \in [Clients -> ConsentOrNone] /\ staleWrite' = (s # current)
          /\ file' = cache'[s] /\ cache'[s][c] = x
          /\ \A d \in Clients \ {c} : cache'[s][d] = cache[s][d]
          /\ \A r \in Services \ {s} : cache'[r] = cache[r]
      BY <1>1, <2>2, PutFacts
    <3>2. x # None => owner'[x] = c
      BY <1>8, <2>2
    <3>3. \A d \in Clients, r \in Services : cache[r][d] \in ConsentOrNone
      BY <1>1 DEF TypeOK
    <3>4. ASSUME NEW d \in Clients, NEW r \in Services
          PROVE  Belongs(cache[r][d], d)'
      <4>1. CASE r = s /\ d = c
        BY <3>1, <3>2, <4>1 DEF Belongs
      <4>2. CASE ~(r = s /\ d = c)
        <5>1. cache'[r][d] = cache[r][d]
          BY <3>1, <4>2
        <5> QED
          BY <1>1, <1>6, <3>3, <5>1 DEF Belongs
      <4> QED
        BY <4>1, <4>2
    <3>5. \A d \in Clients : Belongs(file[d], d)'
      BY <3>1, <3>4 DEF Belongs
    <3> QED
      BY <3>1, <3>4, <3>5
  <2> QED
    BY <1>4, <2>1, <2>2
<1>10. GoodTask(new) /\ task' = [task EXCEPT ![t] = new] /\ task \in [Tasks -> Task] /\ new \in Task
  BY <1>1, <1>2 DEF Becomes, GoodTask, TypeOK
<1>11. TaskBelongs(new)'
  <2>1. CASE new = Idle
    BY <2>1 DEF Idle, TaskBelongs, Belongs
  <2>2. CASE new # Idle
    <3>1. new.client = c /\ Known(t, new.held) /\ Known(t, new.used)
      BY <1>2, <1>3, <2>2 DEF Becomes
    <3>2. ASSUME NEW x, Known(t, x)
          PROVE  Belongs(x, c)'
      <4>1. CASE x \in {None, task[t].held, task[t].used}
        <5>1. Belongs(x, c) /\ x \in ConsentOrNone
          BY <1>1, <1>3, <4>1 DEF TaskBelongs, Belongs, GoodTask, Task, ConsentOrNone
        <5> QED
          BY <1>6, <5>1
      <4>2. CASE x = cache[task[t].svc][task[t].client]
        <5>1. Belongs(x, c) /\ x \in ConsentOrNone
          BY <1>1, <1>3, <4>2 DEF TypeOK
        <5> QED
          BY <1>6, <5>1
      <4>3. CASE \E id \in ConsentIds : AskGranted(t, id) /\ x = id
        BY <1>4, <1>8, <4>3 DEF Belongs
      <4> QED
        BY <3>2, <4>1, <4>2, <4>3 DEF Known
    <3> QED
      BY <3>1, <3>2 DEF TaskBelongs
  <2> QED
    BY <2>1, <2>2
<1>12. \A u \in Tasks : GoodTask(task'[u]) /\ TaskBelongs(task[u])'
  <2> SUFFICES ASSUME NEW u \in Tasks
               PROVE  GoodTask(task'[u]) /\ TaskBelongs(task[u])'
    OBVIOUS
  <2>1. CASE u = t
    BY <1>10, <1>11, <2>1 DEF TaskBelongs, Belongs
  <2>2. CASE u # t
    <3>1. task'[u] = task[u]
      BY <1>10, <2>2
    <3>2. PICK r : r = task[u]
      OBVIOUS
    <3>3. TaskBelongs(r)'
      BY <1>1, <1>5, <3>2, TasksStay
    <3> QED
      BY <1>1, <3>1, <3>2, <3>3 DEF TaskBelongs, Belongs
  <2> QED
    BY <2>1, <2>2
<1>13. TypeOK'
  <2>1. task' \in [Tasks -> Task]
    BY <1>10
  <2> QED
    BY <1>1, <1>4, <1>7, <1>9, <2>1 DEF TypeOK
<1> QED
  BY <1>7, <1>9, <1>12, <1>13 DEF ConsentInv, ConsentsBelongToClient, GoodTasks, TaskBelongs, GoodTask

\* A step that leaves the consents of the bank where they are, or gives one to nobody
\* that keeps it.
LEMMA OutsideKeeps ==
  ASSUME ConsentInv, owner' = owner \/ \E c \in Clients, id \in ConsentIds : Grants(c, id),
         \A r \in Services : cache'[r] = cache[r] \/ cache'[r] = file' ,
         file' = file \/ file' = NoConsents,
         \A t \in Tasks : task'[t] = task[t] \/ (GoodTask(task'[t]) /\ task'[t].held = None /\ task'[t].used = None)
  PROVE  /\ \A c \in Clients : Belongs(file[c], c)' /\ \A s \in Services : Belongs(cache[s][c], c)'
         /\ \A t \in Tasks : GoodTask(task'[t]) /\ TaskBelongs(task[t])'
<1>1. /\ TypeOK /\ NoOwnerYet
      /\ \A c \in Clients : Belongs(file[c], c) /\ \A s \in Services : Belongs(cache[s][c], c)
      /\ \A u \in Tasks : GoodTask(task[u]) /\ TaskBelongs(task[u])
  BY InvParts
<1>2. \A d \in Clients, x \in ConsentOrNone : Belongs(x, d) => Belongs(x, d)'
  BY <1>1, OwnersStay
<1>3. ASSUME NEW c \in Clients PROVE Belongs(file[c], c)'
  <2>1. file[c] \in ConsentOrNone /\ Belongs(file[c], c)
    BY <1>1 DEF TypeOK
  <2>2. file'[c] = file[c] \/ file'[c] = None
    BY DEF NoConsents
  <2> QED
    BY <1>2, <2>1, <2>2 DEF Belongs
<1>4. ASSUME NEW c \in Clients, NEW s \in Services PROVE Belongs(cache[s][c], c)'
  <2>1. cache[s][c] \in ConsentOrNone /\ Belongs(cache[s][c], c)
    BY <1>1 DEF TypeOK
  <2>2. cache'[s][c] = cache[s][c] \/ cache'[s][c] = file'[c]
    OBVIOUS
  <2> QED
    BY <1>2, <1>3, <2>1, <2>2 DEF Belongs
<1>5. ASSUME NEW t \in Tasks PROVE GoodTask(task'[t]) /\ TaskBelongs(task[t])'
  <2>1. CASE task'[t] = task[t]
    <3>1. PICK r : r = task[t]
      OBVIOUS
    <3>2. TaskBelongs(r)'
      BY <1>1, <3>1, TasksStay
    <3> QED
      BY <1>1, <2>1, <3>1, <3>2 DEF TaskBelongs, Belongs
  <2>2. CASE GoodTask(task'[t]) /\ task'[t].held = None /\ task'[t].used = None
    BY <2>2 DEF TaskBelongs, Belongs
  <2> QED
    BY <2>1, <2>2
<1> QED
  BY <1>3, <1>4, <1>5

\* A request begins with the service that is connected.
LEMMA StartKeeps ==
  ASSUME ConsentInv, NEW t \in Tasks, NEW c \in Clients, Start(t, c)
  PROVE  ConsentInv'
<1>1. TypeOK /\ NoOwnerYet /\ MaxServices \in Nat /\ current \in Services
  BY ConsentAssumption DEF ConsentInv, TypeOK, Start, Services
<1>2. PICK pc \in {"login", "lookup"} :
        task' = [task EXCEPT ![t] = [Idle EXCEPT !.pc = pc, !.svc = current, !.client = c]]
  BY DEF Start
<1> DEFINE new == [Idle EXCEPT !.pc = pc, !.svc = current, !.client = c]
<1>3. Idle \in Task /\ current \in 0 .. MaxServices
  BY <1>1, IdleIsGood DEF GoodTask, TypeOK
<1>4. new \in Task
  BY <1>3 DEF Task
<1>5. /\ new.pc = pc /\ new.svc = current /\ new.client = c /\ new.held = None /\ new.used = None
      /\ new.posts = 0 /\ new.tries = 0 /\ new.renewals = 0
  BY DEF Idle
<1>6. task' = [task EXCEPT ![t] = new] /\ UNCHANGED <<serviceVars, bankVars>>
  BY <1>2 DEF Start
<1> HIDE DEF new
<1>7. GoodTask(new)
  BY <1>1, <1>4, <1>5 DEF GoodTask, Reading
<1>8. \A u \in Tasks : task'[u] = task[u] \/ task'[u] = new
  BY <1>1, <1>6 DEF TypeOK
<1>9. TypeOK' /\ NoOwnerYet'
  BY <1>1, <1>4, <1>6 DEF TypeOK, NoOwnerYet, serviceVars, bankVars
<1>10. UNCHANGED <<owner, cache, file>>
  BY <1>6 DEF serviceVars, bankVars
<1>11. /\ \A d \in Clients : Belongs(file[d], d)' /\ \A s \in Services : Belongs(cache[s][d], d)'
       /\ \A u \in Tasks : GoodTask(task'[u]) /\ TaskBelongs(task[u])'
  BY <1>5, <1>7, <1>8, <1>10, OutsideKeeps
<1> QED
  BY <1>9, <1>11 DEF ConsentInv, ConsentsBelongToClient, GoodTasks, TaskBelongs, GoodTask

\* The bank, its clients and the requests for a consent that is not kept.
LEMMA BankKeeps ==
  ASSUME ConsentInv,
         \/ \E c \in Clients, id \in ConsentIds : RequestAccountConsent(c, id)
         \/ \E id \in ConsentIds : Approve(id) \/ Revoke(id)
         \/ \E s \in Services : ExpireToken(s)
         \/ UNCHANGED vars
  PROVE  ConsentInv'
<1>1. TypeOK /\ NoOwnerYet
  BY DEF ConsentInv
<1>2. UNCHANGED <<task, cache, file, current, made, staleWrite>>
  BY DEF RequestAccountConsent, Approve, Revoke, ExpireToken, vars, serviceVars
<1>3. owner' = owner \/ \E c \in Clients, id \in ConsentIds : Grants(c, id)
  BY DEF RequestAccountConsent, Approve, Revoke, ExpireToken, vars, bankVars
<1>4. token' \in [Services -> {"none", "live", "expired"}]
  BY <1>1 DEF RequestAccountConsent, Approve, Revoke, ExpireToken, vars, serviceVars, TypeOK
<1>5. /\ owner' \in [ConsentIds -> Clients \cup {None}]
      /\ status' \in [ConsentIds -> {"unused", "pending", "valid", "revoked"}]
      /\ NoOwnerYet'
  <2>1. CASE \E c \in Clients, id \in ConsentIds : RequestAccountConsent(c, id)
    BY <1>1, <2>1, GrantsKeep DEF RequestAccountConsent
  <2>2. CASE \E id \in ConsentIds : Approve(id) \/ Revoke(id)
    BY <1>1, <2>2 DEF Approve, Revoke, TypeOK, NoOwnerYet
  <2>3. CASE (\E s \in Services : ExpireToken(s)) \/ UNCHANGED vars
    BY <1>1, <2>3 DEF ExpireToken, vars, bankVars, TypeOK, NoOwnerYet
  <2> QED
    BY <2>1, <2>2, <2>3
<1>6. TypeOK'
  BY <1>1, <1>2, <1>4, <1>5 DEF TypeOK
<1>7. /\ \A d \in Clients : Belongs(file[d], d)' /\ \A s \in Services : Belongs(cache[s][d], d)'
      /\ \A u \in Tasks : GoodTask(task'[u]) /\ TaskBelongs(task[u])'
  BY <1>2, <1>3, OutsideKeeps
<1> QED
  BY <1>5, <1>6, <1>7 DEF ConsentInv, ConsentsBelongToClient, GoodTasks, TaskBelongs, GoodTask

\* A service is connected, with what the file holds or nothing, or disconnected.
LEMMA ServiceKeeps ==
  ASSUME ConsentInv, Connect \/ Disconnect \/ Restart
  PROVE  ConsentInv'
<1>1. TypeOK /\ NoOwnerYet /\ UNCHANGED bankVars
  BY DEF ConsentInv, Connect, Disconnect, Restart
<1>2. \A t \in Tasks : task'[t] = task[t] \/ task'[t] = Idle
  BY <1>1 DEF Connect, Disconnect, Restart, TypeOK
<1>3. task' \in [Tasks -> Task]
  BY <1>1, IdleIsGood DEF Connect, Disconnect, Restart, TypeOK, GoodTask
<1>4. Idle.held = None /\ Idle.used = None /\ GoodTask(Idle)
  BY IdleIsGood DEF Idle
<1>5. CASE Disconnect
  <2>1. TypeOK'
    BY <1>1, <1>5, ConsentAssumption DEF Disconnect, TypeOK, bankVars
  <2>2. /\ \A d \in Clients : Belongs(file[d], d)' /\ \A s \in Services : Belongs(cache[s][d], d)'
        /\ \A u \in Tasks : GoodTask(task'[u]) /\ TaskBelongs(task[u])'
    BY <1>1, <1>2, <1>4, <1>5, OutsideKeeps DEF Disconnect, bankVars
  <2>3. NoOwnerYet'
    BY <1>1 DEF NoOwnerYet, bankVars
  <2> QED
    BY <2>1, <2>2, <2>3 DEF ConsentInv, ConsentsBelongToClient, GoodTasks, TaskBelongs, GoodTask
<1>6. CASE Connect \/ Restart
  <2>1. PICK contents \in {file, NoConsents} : NewService(contents)
    BY <1>6 DEF Connect, Restart
  <2>2. contents \in [Clients -> ConsentOrNone]
    BY <1>1, <2>1 DEF TypeOK, NoConsents, ConsentOrNone
  <2>3. made + 1 \in Services /\ made + 1 \in 0 .. MaxServices
    BY <1>1, <2>1, ConsentAssumption DEF NewService, TypeOK, Services
  <2>4. /\ cache' = [cache EXCEPT ![made + 1] = contents] /\ file' = contents
        /\ made' = made + 1 /\ current' = made + 1 /\ staleWrite' = FALSE /\ token' = token
    BY <2>1 DEF NewService
  <2>5. cache' \in [Services -> [Clients -> ConsentOrNone]]
    BY <1>1, <2>2, <2>3, <2>4 DEF TypeOK
  <2>6. TypeOK'
    BY <1>1, <1>3, <2>2, <2>3, <2>4, <2>5 DEF TypeOK, bankVars
  <2>7. \A r \in Services : cache'[r] = cache[r] \/ cache'[r] = file'
    BY <1>1, <2>3, <2>4 DEF TypeOK
  <2>8. /\ \A d \in Clients : Belongs(file[d], d)' /\ \A s \in Services : Belongs(cache[s][d], d)'
        /\ \A u \in Tasks : GoodTask(task'[u]) /\ TaskBelongs(task[u])'
    BY <1>1, <1>2, <1>4, <2>1, <2>4, <2>7, OutsideKeeps DEF bankVars
  <2>9. NoOwnerYet'
    BY <1>1 DEF NoOwnerYet, bankVars
  <2> QED
    BY <2>6, <2>8, <2>9 DEF ConsentInv, ConsentsBelongToClient, GoodTasks, TaskBelongs, GoodTask
<1> QED
  BY <1>5, <1>6

\* Nothing is granted, kept or running at first.
LEMMA ConsentInit == Init => ConsentInv
<1> SUFFICES ASSUME Init PROVE ConsentInv
  OBVIOUS
<1>1. GoodTask(Idle) /\ Idle \in Task /\ Idle.held = None /\ Idle.used = None
  BY IdleIsGood DEF GoodTask, Idle
<1>2. NoConsents \in [Clients -> ConsentOrNone] /\ 1 \in Services /\ 1 \in 0 .. MaxServices
  BY ConsentAssumption DEF NoConsents, ConsentOrNone, Services
<1>3. TypeOK
  BY <1>1, <1>2 DEF Init, TypeOK
<1>4. NoOwnerYet
  BY DEF Init, NoOwnerYet
<1>5. \A t \in Tasks : task[t] = Idle
  BY DEF Init
<1>6. ConsentsBelongToClient
  BY <1>1, <1>5 DEF Init, ConsentsBelongToClient, Belongs, NoConsents
<1> QED
  BY <1>1, <1>3, <1>4, <1>5, <1>6 DEF ConsentInv, GoodTasks

\* Every step keeps the consents with their clients and the POSTs within their budget.
LEMMA ConsentNext == ConsentInv /\ [Next]_vars => ConsentInv'
<1> SUFFICES ASSUME ConsentInv, [Next]_vars PROVE ConsentInv'
  OBVIOUS
<1>1. ASSUME NEW t \in Tasks, Step(t) \/ \E c \in Clients : Start(t, c)
      PROVE  ConsentInv'
  BY <1>1, StepKeeps, StartKeeps
<1>2. CASE Environment
  BY <1>2, BankKeeps, ServiceKeeps DEF Environment
<1>3. CASE UNCHANGED vars
  BY <1>3, BankKeeps
<1> QED
  BY <1>1, <1>2, <1>3 DEF Next

\* No client's accounts are asked for with the consent of another, whatever tasks, services,
\* restarts and refusals come in between.
THEOREM AlwaysOwnConsent == Spec => []ConsentsBelongToClient
<1>1. ConsentInv => ConsentsBelongToClient
  BY DEF ConsentInv
<1> QED
  BY ConsentInit, ConsentNext, <1>1, PTL DEF Spec

\* A request for accounts sends at most the POSTs of a first consent and of two renewals,
\* for every number of retries.
THEOREM AlwaysPostsBounded == Spec => []PostsBounded
<1>1. ConsentInv => PostsBounded
  <2> SUFFICES ASSUME ConsentInv, NEW t \in Tasks
               PROVE  task[t].posts <= PostLimit
    BY DEF PostsBounded
  <2> DEFINE r == task[t]
  <2>1. GoodTask(r)
    BY DEF ConsentInv, GoodTasks
  <2>2. /\ r.posts \in 0 .. PostLimit + 1 /\ r.renewals \in 0 .. MaxRenewals
        /\ r.tries \in 0 .. MaxRetries - 1 /\ MaxRetries \in Nat
        /\ r.pc \in {"idle", "login", "lookup", "ask", "list"} \cup Reading
    BY <2>1, ConsentAssumption DEF GoodTask, Task, Reading
  <2>3. /\ PostLimit \in Nat /\ Budget(r.renewals) \in Nat
        /\ Budget(r.renewals + 1) = Budget(r.renewals) + MaxRetries
        /\ Budget(r.renewals + 1) <= PostLimit
    BY <2>2, BudgetFacts
  <2>4. \/ r.posts = 0
        \/ r.posts <= Budget(r.renewals) + r.tries
        \/ r.posts <= Budget(r.renewals + 1)
    BY <2>1, <2>2 DEF GoodTask
  <2> HIDE DEF r
  <2>5. r.posts <= PostLimit
    BY <2>2, <2>3, <2>4
  <2> QED
    BY <2>5 DEF r
<1> QED
  BY ConsentInit, ConsentNext, <1>1, PTL DEF Spec

\* The variables of BankConsent keep their types.
THEOREM TypeCorrect == Spec => []TypeOK
<1>1. ConsentInv => TypeOK
  BY DEF ConsentInv
<1> QED
  BY ConsentInit, ConsentNext, <1>1, PTL DEF Spec
-----------------------------------------------------------------------------
(* What a restart finds. *)

\* A write makes the file the dictionary of the service that writes.
LEMMA FileIsCacheStep ==
  ASSUME ConsentInv, FileIsCache, NEW t \in Tasks, Step(t)
  PROVE  FileIsCache'
<1>1. TypeOK /\ GoodTask(task[t])
  BY DEF ConsentInv, GoodTasks
<1>2. PICK s \in Services : s = task[t].svc
  BY <1>1, StepEffects
<1>3. PICK c \in Clients : c = task[t].client
  BY <1>1, StepEffects
<1>4. /\ UNCHANGED current
      /\ \/ UNCHANGED <<cache, file, staleWrite>>
         \/ \E x \in ConsentOrNone : Put(s, c, x)
  BY <1>1, <1>2, <1>3, StepEffects
<1>5. CASE UNCHANGED <<cache, file, staleWrite>>
  BY <1>4, <1>5 DEF FileIsCache
<1>6. CASE \E x \in ConsentOrNone : Put(s, c, x)
  <2>1. file' = cache'[s] /\ staleWrite' = (s # current)
    BY <1>1, <1>6, PutFacts
  <2> QED
    BY <1>4, <2>1 DEF FileIsCache
<1> QED
  BY <1>4, <1>5, <1>6

\* A service is made with what the file holds; no other step touches the three.
LEMMA FileIsCacheOutside ==
  ASSUME ConsentInv, FileIsCache,
         Environment \/ UNCHANGED vars \/ \E t \in Tasks, c \in Clients : Start(t, c)
  PROVE  FileIsCache'
<1>1. TypeOK
  BY DEF ConsentInv
<1>2. CASE Connect \/ Restart
  <2>1. PICK contents : NewService(contents)
    BY <1>2 DEF Connect, Restart
  <2>2. made + 1 \in Services
    BY <1>1, <2>1, ConsentAssumption DEF NewService, TypeOK, Services
  <2> QED
    BY <1>1, <2>1, <2>2 DEF NewService, FileIsCache, TypeOK
<1>3. CASE Disconnect
  BY <1>3 DEF Disconnect, FileIsCache
<1>4. CASE ~(Connect \/ Restart \/ Disconnect)
  <2>1. UNCHANGED <<cache, file, current, staleWrite>>
    BY <1>4 DEF Environment, Start, RequestAccountConsent, Approve, Revoke, ExpireToken, vars, serviceVars
  <2> QED
    BY <2>1 DEF FileIsCache
<1> QED
  BY <1>2, <1>3, <1>4

\* A restart finds what the connected service knows, unless a service that was replaced or
\* disconnected wrote last: for any number of services and requests, and torn files.
THEOREM AlwaysFileIsCache == Spec => []FileIsCache
<1>1. Init => FileIsCache
  <2>1. 1 \in Services
    BY ConsentAssumption DEF Services
  <2> QED
    BY <2>1 DEF Init, FileIsCache
<1>2. ConsentInv /\ FileIsCache /\ [Next]_vars => FileIsCache'
  BY FileIsCacheStep, FileIsCacheOutside DEF Next
<1> QED
  BY ConsentInit, ConsentNext, <1>1, <1>2, PTL DEF Spec

\* When the dictionary of the service that writes agrees with the file, a write changes the
\* entry of its own client only.
LEMMA PutKeepsOthers ==
  ASSUME TypeOK, NEW t \in Tasks, GoodTask(task[t]), Step(t), file = cache[task[t].svc],
         NEW c \in Clients, file'[c] # file[c]
  PROVE  task[t].client = c
<1>1. PICK s \in Services : s = task[t].svc
  BY StepEffects
<1>2. PICK d \in Clients : d = task[t].client
  BY StepEffects
<1>3. \E x \in ConsentOrNone : Put(s, d, x)
  BY <1>1, <1>2, StepEffects
<1>4. file' = cache'[s] /\ \A e \in Clients \ {d} : cache'[s][e] = cache[s][e]
  BY <1>3, PutFacts
<1> QED
  BY <1>1, <1>2, <1>4

\* Only the coroutines and the making of a service write the file.
LEMMA OthersKeepFile ==
  ASSUME [Next]_vars, file' # file
  PROVE  (\E t \in Tasks : Step(t)) \/ Connect \/ Restart
BY DEF Next, Environment, Disconnect, Start, RequestAccountConsent, Approve, Revoke, ExpireToken,
       vars, serviceVars

\* Between two makings of a service, and as long as no service that was replaced or
\* disconnected writes, the file changes for a client only while its request runs.
CurrentKeepsOthers ==
  [][~staleWrite /\ ~staleWrite' /\ made' = made =>
       \A c \in Clients : file'[c] # file[c] => \E t \in Tasks : task[t].client = c]_vars

\* Saving the consent of one client keeps those of the others, for any number of services,
\* in every step that is not the write of a service that is gone.
THEOREM AlwaysKeepsOthers == Spec => CurrentKeepsOthers
<1> DEFINE A == ~staleWrite /\ ~staleWrite' /\ made' = made =>
                  \A c \in Clients : file'[c] # file[c] => \E t \in Tasks : task[t].client = c
<1>1. ConsentInv /\ FileIsCache /\ [Next]_vars => [A]_vars
  <2> SUFFICES ASSUME ConsentInv, FileIsCache, [Next]_vars, ~staleWrite, ~staleWrite', made' = made,
                      NEW c \in Clients, file'[c] # file[c]
               PROVE  \E t \in Tasks : task[t].client = c
    OBVIOUS
  <2>1. TypeOK /\ \A t \in Tasks : GoodTask(task[t])
    BY DEF ConsentInv, GoodTasks
  <2>2. ~(Connect \/ Restart)
    <3>1. made \in Int
      BY <2>1, ConsentAssumption DEF TypeOK, Services
    <3> QED
      BY <3>1 DEF Connect, Restart, NewService
  <2>3. PICK t \in Tasks : Step(t)
    BY <2>2, OthersKeepFile
  <2>4. PICK s \in Services : s = task[t].svc
    BY <2>1, <2>3, StepEffects
  <2>5. staleWrite' = (s # current)
    <3>1. PICK d \in Clients, x \in ConsentOrNone : Put(s, d, x)
      BY <2>1, <2>3, <2>4, StepEffects
    <3> QED
      BY <3>1 DEF Put
  <2>6. s = current
    BY <2>5, Zenon
  <2>7. s # 0
    BY ConsentAssumption DEF Services
  <2>8. file = cache[task[t].svc]
    BY <2>4, <2>6, <2>7 DEF FileIsCache
  <2> QED
    BY <2>1, <2>3, <2>8, PutKeepsOthers
<1>2. Spec => [][A]_vars
  BY ConsentInit, ConsentNext, AlwaysFileIsCache, <1>1, PTL DEF Spec
<1> QED
  BY <1>2 DEF CurrentKeepsOthers

\* While the server makes one service for the bank, what the file holds for a client changes
\* only while a request of that client runs, disconnected or not.
THEOREM OneServiceKeepsOthers ==
  ASSUME MaxServices = 1
  PROVE  Spec => FileKeepsOthers
<1> DEFINE Same == file = cache[1]
           A == \A c \in Clients : file'[c] # file[c] => \E t \in Tasks : task[t].client = c
<1>1. Services = {1}
  BY DEF Services
<1>2. Init => Same
  BY <1>1 DEF Init
<1>3. ASSUME ConsentInv, Same, [Next]_vars
      PROVE  Same' /\ A
  <2>1. TypeOK /\ \A t \in Tasks : GoodTask(task[t])
    BY <1>3 DEF ConsentInv, GoodTasks
  <2>2. ~(Connect \/ Restart)
    BY <1>1, <2>1 DEF Connect, Restart, NewService, TypeOK
  <2>3. CASE \E t \in Tasks : Step(t)
    <3>1. PICK t \in Tasks : Step(t)
      BY <2>3
    <3>2. task[t].svc = 1
      BY <1>1, <2>1, <3>1, StepEffects
    <3>3. PICK d \in Clients : d = task[t].client
      BY <2>1, <3>1, StepEffects
    <3>4. UNCHANGED <<cache, file>> \/ \E x \in ConsentOrNone : Put(1, d, x)
      BY <2>1, <3>1, <3>2, <3>3, StepEffects
    <3>5. Same'
      <4>1. CASE UNCHANGED <<cache, file>>
        BY <1>3, <4>1
      <4>2. CASE \E x \in ConsentOrNone : Put(1, d, x)
        BY <1>1, <2>1, <4>2, PutFacts
      <4> QED
        BY <3>4, <4>1, <4>2
    <3>6. A
      BY <1>3, <2>1, <3>1, <3>2, PutKeepsOthers
    <3> QED
      BY <3>5, <3>6
  <2>4. CASE ~\E t \in Tasks : Step(t)
    <3>1. file' = file
      BY <1>3, <2>2, <2>4, OthersKeepFile
    <3>2. cache' = cache
      BY <1>3, <2>2, <2>4 DEF Next, Environment, Disconnect, Start, RequestAccountConsent, Approve, Revoke,
                             ExpireToken, vars, serviceVars
    <3> QED
      BY <1>3, <3>1, <3>2
  <2> QED
    BY <2>3, <2>4
<1>4. ConsentInv /\ Same /\ [Next]_vars => Same' /\ [A]_vars
  BY <1>3
<1>5. Spec => [][A]_vars
  BY ConsentInit, ConsentNext, <1>2, <1>4, PTL DEF Spec
<1> QED
  BY <1>5 DEF FileKeepsOthers
=============================================================================
