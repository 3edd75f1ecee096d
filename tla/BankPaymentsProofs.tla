-------------------------- MODULE BankPaymentsProofs --------------------------
(***************************************************************************)
(* What holds of BankPayments for every set of transfers and of consents   *)
(* and every number of retries and of attempts.                            *)
(***************************************************************************)
EXTENDS BankPayments, TLAPS

Phase == {"idle", "asking", "waiting", "paying", "failed"}
ConsentState == {"unused", "pending", "authorised", "consumed", "revoked"}

-----------------------------------------------------------------------------
(* Type correctness *)

\* Ending an attempt or going on to the next one moves x alone, to "failed" or
\* not at all.
LEMMA RetryFacts ==
  ASSUME TypeOK, NEW x \in Transfers, Retry(x)
  PROVE  /\ phase' \in [Transfers -> Phase]
         /\ tries' \in [Transfers -> 0 .. MaxRetries - 1]
         /\ \A y \in Transfers \ {x} : phase'[y] = phase[y] /\ tries'[y] = tries[y]
         /\ \/ phase'[x] = phase[x] /\ tries'[x] = tries[x] + 1
            \/ phase'[x] = "failed" /\ tries'[x] = 0 /\ tries[x] + 1 >= MaxRetries
<1>1. CASE tries[x] + 1 < MaxRetries
  BY <1>1, PaymentAssumption DEF Retry, TypeOK, Phase
<1>2. CASE ~(tries[x] + 1 < MaxRetries)
  BY <1>2, PaymentAssumption DEF Retry, GoTo, TypeOK, Phase
<1> QED
  BY <1>1, <1>2

\* Moving to another phase starts its loop from nothing.
LEMMA GoToFacts ==
  ASSUME TypeOK, NEW x \in Transfers, NEW p \in Phase, GoTo(x, p)
  PROVE  /\ phase' \in [Transfers -> Phase]
         /\ tries' \in [Transfers -> 0 .. MaxRetries - 1]
         /\ \A y \in Transfers \ {x} : phase'[y] = phase[y] /\ tries'[y] = tries[y]
         /\ phase'[x] = p /\ tries'[x] = 0
BY PaymentAssumption DEF GoTo, TypeOK, Phase

\* The bank gives a consent no client has had before, for x alone.
LEMMA GrantsFacts ==
  ASSUME TypeOK, NEW x \in Transfers, NEW id \in ConsentIds, Grants(x, id)
  PROVE  /\ consent' \in [ConsentIds -> ConsentState]
         /\ payer' \in [ConsentIds -> Transfers \cup {None}]
         /\ consent[id] = "unused" /\ consent'[id] \in {"pending", "authorised"}
         /\ payer'[id] = x
         /\ \A c \in ConsentIds \ {id} : consent'[c] = consent[c] /\ payer'[c] = payer[c]
BY DEF Grants, TypeOK, ConsentState

\* What an executed payment does to the consents.
LEMMA ExecutedFacts ==
  ASSUME TypeOK, NEW x \in Transfers, PaymentExecuted(x)
  PROVE  /\ consent' \in [ConsentIds -> ConsentState]
         /\ held[x] \in ConsentIds =>
              consent'[held[x]] = IF x \in SingleUse THEN "consumed" ELSE consent[held[x]]
         /\ \A id \in ConsentIds : id # held[x] => consent'[id] = consent[id]
<1>1. consent \in [ConsentIds -> ConsentState]
  BY DEF TypeOK, ConsentState
<1>2. CASE x \in SingleUse
  <2>1. consent' = [consent EXCEPT ![held[x]] = "consumed"]
    BY <1>2 DEF PaymentExecuted
  <2> QED
    BY <1>1, <1>2, <2>1 DEF ConsentState
<1>3. CASE x \notin SingleUse
  BY <1>1, <1>3 DEF PaymentExecuted
<1> QED
  BY <1>2, <1>3

\* Every reachable state of a transfer and of the bank has the declared shape,
\* whatever is lost, retried, refused or restarted.
THEOREM TypeCorrect == Spec => []TypeOK
<1>1. Init => TypeOK
  BY PaymentAssumption DEF Init, TypeOK
<1>2. TypeOK /\ [Next]_vars => TypeOK'
  <2> SUFFICES ASSUME TypeOK, [Next]_vars
               PROVE  TypeOK'
    OBVIOUS
  <2> USE DEF Phase, ConsentState
  <2>1. ASSUME NEW x \in Transfers, Begin(x)
        PROVE  TypeOK'
    <3>1. attempts' \in [Transfers -> 0 .. MaxAttempts]
      BY <2>1, PaymentAssumption DEF TypeOK, Begin
    <3>2. QED
      BY <2>1, <3>1, GoToFacts DEF TypeOK, Begin, bankVars
  <2>2. ASSUME NEW x \in Transfers, NEW id \in ConsentIds, ConsentGranted(x, id)
        PROVE  TypeOK'
    BY <2>2, GoToFacts, GrantsFacts DEF TypeOK, ConsentGranted
  <2>3. ASSUME NEW x \in Transfers, NEW id \in ConsentIds, ConsentLost(x, id)
        PROVE  TypeOK'
    BY <2>3, RetryFacts, GrantsFacts DEF TypeOK, ConsentLost
  <2>4. ASSUME NEW x \in Transfers, ConsentUnavailable(x) \/ PaymentUnavailable(x)
        PROVE  TypeOK'
    BY <2>4, RetryFacts DEF TypeOK, ConsentUnavailable, PaymentUnavailable, bankVars
  <2>5. ASSUME NEW x \in Transfers, ConsentRefused(x) \/ StartPayment(x) \/ StartFails(x)
        PROVE  TypeOK'
    BY <2>5, GoToFacts DEF TypeOK, ConsentRefused, StartPayment, StartFails, bankVars
  <2>6. ASSUME NEW x \in Transfers, PaymentExecuted(x)
        PROVE  TypeOK'
    <3>1. paid' \in [Transfers -> Nat]
      BY <2>6 DEF TypeOK, PaymentExecuted
    <3>2. consent' \in [ConsentIds -> ConsentState]
      BY <2>6, ExecutedFacts
    <3>3. QED
      BY <2>6, <3>1, <3>2, RetryFacts DEF TypeOK, PaymentExecuted
  <2>7. ASSUME NEW x \in Transfers, PaymentRefused(x)
        PROVE  TypeOK'
    BY <2>7, GoToFacts DEF TypeOK, PaymentRefused, bankVars
  <2>8. ASSUME NEW id \in ConsentIds, Authorise(id) \/ Revoke(id)
        PROVE  TypeOK'
    BY <2>8 DEF TypeOK, Authorise, Revoke
  <2>9. CASE Restart
    BY <2>9, PaymentAssumption DEF TypeOK, Restart, bankVars
  <2>10. CASE UNCHANGED vars
    BY <2>10 DEF TypeOK, vars
  <2> QED
    BY <2>1, <2>2, <2>3, <2>4, <2>5, <2>6, <2>7, <2>8, <2>9, <2>10 DEF Next, Step
<1> QED
  BY <1>1, <1>2, PTL DEF Spec

-----------------------------------------------------------------------------
(* Whose consents *)

\* The bank gives a consent once: nobody has one it has not given, and a
\* transfer that waits or pays has one.
ConsentsAreFresh ==
  /\ \A id \in ConsentIds :
       consent[id] = "unused" => known[id] = None /\ \A x \in Transfers : held[x] # id
  /\ \A x \in Transfers : phase[x] \in {"waiting", "paying"} => held[x] # None

ConsentsInv == ConsentsAreFresh /\ ConsentsBelongToTransfer

\* No step gives a transfer or the aggregator a consent the bank gave another
\* transfer, or none.
LEMMA ConsentsInvStep == TypeOK /\ ConsentsInv /\ [Next]_vars => ConsentsInv'
<1> SUFFICES ASSUME TypeOK, ConsentsInv, [Next]_vars
             PROVE  ConsentsInv'
  OBVIOUS
<1>0. /\ None \notin ConsentIds /\ None \notin Transfers
      /\ held \in [Transfers -> ConsentIds \cup {None}]
      /\ known \in [ConsentIds -> Transfers \cup {None}]
      /\ phase \in [Transfers -> Phase]
      /\ consent \in [ConsentIds -> ConsentState]
  BY PaymentAssumption DEF TypeOK, Phase, ConsentState
<1> USE DEF ConsentsInv, ConsentsAreFresh, ConsentsBelongToTransfer
<1>1. ASSUME NEW x \in Transfers, Begin(x)
      PROVE  ConsentsInv'
  BY <1>0, <1>1, GoToFacts DEF Begin, bankVars, Phase
<1>2. ASSUME NEW x \in Transfers, NEW id \in ConsentIds, ConsentGranted(x, id)
      PROVE  ConsentsInv'
  <2>1. /\ held' = [held EXCEPT ![x] = id] /\ known' = [known EXCEPT ![id] = x]
        /\ \A y \in Transfers \ {x} : phase'[y] = phase[y]
        /\ consent[id] = "unused" /\ consent'[id] # "unused" /\ payer'[id] = x
        /\ \A c \in ConsentIds \ {id} : consent'[c] = consent[c] /\ payer'[c] = payer[c]
    BY <1>2, GoToFacts, GrantsFacts DEF ConsentGranted, Phase
  <2>2. ConsentsAreFresh'
    BY <1>0, <2>1
  <2>3. ConsentsBelongToTransfer'
    BY <1>0, <2>1
  <2> QED
    BY <2>2, <2>3
<1>3. ASSUME NEW x \in Transfers, NEW id \in ConsentIds, ConsentLost(x, id)
      PROVE  ConsentsInv'
  <2>1. /\ UNCHANGED <<held, known>>
        /\ \A y \in Transfers : phase'[y] \in {phase[y], "failed"}
        /\ consent[id] = "unused" /\ consent'[id] # "unused" /\ payer'[id] = x
        /\ \A c \in ConsentIds \ {id} : consent'[c] = consent[c] /\ payer'[c] = payer[c]
    BY <1>3, RetryFacts, GrantsFacts DEF ConsentLost
  <2> QED
    BY <1>0, <2>1
<1>4. ASSUME NEW x \in Transfers, ConsentUnavailable(x) \/ PaymentUnavailable(x)
      PROVE  ConsentsInv'
  BY <1>0, <1>4, RetryFacts DEF ConsentUnavailable, PaymentUnavailable, bankVars
<1>5. ASSUME NEW x \in Transfers, ConsentRefused(x) \/ StartPayment(x) \/ StartFails(x)
      PROVE  ConsentsInv'
  BY <1>0, <1>5, GoToFacts DEF ConsentRefused, StartPayment, StartFails, bankVars, Phase
<1>6. ASSUME NEW x \in Transfers, PaymentExecuted(x)
      PROVE  ConsentsInv'
  <2>1. /\ UNCHANGED <<held, known, payer>>
        /\ \A y \in Transfers : phase'[y] \in {phase[y], "failed"}
        /\ \A id \in ConsentIds : consent'[id] \in {consent[id], "consumed"}
    BY <1>0, <1>6, RetryFacts, ExecutedFacts DEF PaymentExecuted
  <2> QED
    BY <1>0, <2>1
<1>7. ASSUME NEW x \in Transfers, PaymentRefused(x)
      PROVE  ConsentsInv'
  <2>1. /\ UNCHANGED <<held, payer, consent>>
        /\ \A y \in Transfers : phase'[y] \in {phase[y], "failed"}
    BY <1>0, <1>7, GoToFacts DEF PaymentRefused, bankVars, Phase
  <2>2. \A id \in ConsentIds : known'[id] \in {known[id], None}
    BY <1>0, <1>7 DEF PaymentRefused
  <2> QED
    BY <1>0, <2>1, <2>2
<1>8. ASSUME NEW id \in ConsentIds, Authorise(id) \/ Revoke(id)
      PROVE  ConsentsInv'
  BY <1>0, <1>8 DEF Authorise, Revoke, ConsentState
<1>9. CASE Restart
  BY <1>0, <1>9 DEF Restart, bankVars
<1>10. CASE UNCHANGED vars
  BY <1>10 DEF vars
<1> QED
  BY <1>1, <1>2, <1>3, <1>4, <1>5, <1>6, <1>7, <1>8, <1>9, <1>10 DEF Next, Step

\* Consents the aggregator knows are under the client the bank gave them to, and
\* a transfer pays with a consent given for it alone, through lost answers,
\* forgotten consents and restarts.
THEOREM AlwaysOwnConsent == Spec => []ConsentsBelongToTransfer
<1>1. Init => ConsentsInv
  BY PaymentAssumption DEF Init, ConsentsInv, ConsentsAreFresh, ConsentsBelongToTransfer
<1>2. ConsentsInv => ConsentsBelongToTransfer
  BY DEF ConsentsInv
<1> QED
  BY <1>1, <1>2, TypeCorrect, ConsentsInvStep, PTL DEF Spec

-----------------------------------------------------------------------------
(* How often the bank pays *)

\* Payments a user's start of x may cause.
PerAttempt(x) == IF x \in SingleUse THEN 1 ELSE MaxRetries

\* Payments the attempt that is running may still cause: with a single-use
\* consent one until it is consumed, with a reusable one as many as the loop
\* has rounds left.
StillToPay(x) ==
  CASE phase[x] \in {"asking", "waiting"} -> PerAttempt(x)
    [] phase[x] = "paying" ->
         IF x \in SingleUse THEN IF consent[held[x]] = "consumed" THEN 0 ELSE 1
         ELSE MaxRetries - tries[x]
    [] OTHER -> 0

PaymentBudget ==
  \A x \in Transfers : paid[x] + StillToPay(x) <= attempts[x] * PerAttempt(x)

\* One more attempt is worth one attempt's payments more.
LEMMA OneAttemptMore ==
  ASSUME NEW a \in Nat, NEW x \in Transfers
  PROVE  PerAttempt(x) \in Nat /\ PerAttempt(x) \in Int
         /\ (a + 1) * PerAttempt(x) = a * PerAttempt(x) + PerAttempt(x)
         /\ a * PerAttempt(x) \in Nat
BY PaymentAssumption DEF PerAttempt

\* What is left of an attempt is at most what an attempt is worth.
LEMMA StillToPayType ==
  ASSUME TypeOK, NEW x \in Transfers
  PROVE  StillToPay(x) \in Nat /\ StillToPay(x) <= PerAttempt(x)
BY PaymentAssumption DEF StillToPay, PerAttempt, TypeOK

\* The same, after a step.
LEMMA StillToPayTypeNext ==
  ASSUME TypeOK', NEW x \in Transfers
  PROVE  StillToPay(x)' \in Nat
BY PaymentAssumption DEF StillToPay, PerAttempt, TypeOK

\* What a step may do to one transfer: nothing to its payments, or one payment
\* the attempt still had.
LEMMA BudgetKept ==
  ASSUME TypeOK, TypeOK', NEW x \in Transfers,
         paid[x] + StillToPay(x) <= attempts[x] * PerAttempt(x),
         attempts'[x] = attempts[x],
         paid'[x] + StillToPay(x)' <= paid[x] + StillToPay(x)
  PROVE  paid'[x] + StillToPay(x)' <= attempts'[x] * PerAttempt(x)
<1>1. PICK a \in Int : a = attempts[x] * PerAttempt(x)
  BY OneAttemptMore DEF TypeOK
<1>2. paid[x] \in Nat /\ paid'[x] \in Nat /\ StillToPay(x) \in Nat /\ StillToPay(x)' \in Nat
  BY StillToPayType, StillToPayTypeNext DEF TypeOK
<1> QED
  BY <1>1, <1>2

\* No step lets the bank pay more than the starts of a transfer are worth.
LEMMA BudgetStep ==
  TypeOK /\ TypeOK' /\ ConsentsInv /\ PaymentBudget /\ [Next]_vars => PaymentBudget'
<1> SUFFICES ASSUME TypeOK, TypeOK', ConsentsInv, PaymentBudget, [Next]_vars,
                    NEW y \in Transfers
             PROVE  paid'[y] + StillToPay(y)' <= attempts'[y] * PerAttempt(y)
  BY DEF PaymentBudget, PerAttempt
<1> DEFINE Kept == /\ attempts'[y] = attempts[y]
                   /\ paid'[y] + StillToPay(y)' <= paid[y] + StillToPay(y)
<1>0. /\ paid[y] \in Nat /\ attempts[y] \in Nat /\ tries[y] \in 0 .. MaxRetries - 1
      /\ MaxRetries \in Nat \ {0} /\ PerAttempt(y) \in Nat /\ PerAttempt(y) >= 1
      /\ StillToPay(y) \in Nat /\ StillToPay(y) <= PerAttempt(y)
  BY PaymentAssumption, StillToPayType DEF TypeOK, PerAttempt
<1>1. Kept => paid'[y] + StillToPay(y)' <= attempts'[y] * PerAttempt(y)
  BY BudgetKept DEF PaymentBudget
\* A step in which y keeps its phase and its round, and its consent its state.
<1>2. ASSUME UNCHANGED <<held, attempts, paid>>, phase'[y] = phase[y], tries'[y] = tries[y],
             phase[y] = "paying" => (consent[held[y]] = "consumed" => consent'[held[y]] = "consumed")
      PROVE  Kept
  BY <1>0, <1>2 DEF StillToPay, PerAttempt
\* A step that ends y's attempt, or takes a round from it.
<1>3. ASSUME UNCHANGED <<held, attempts, paid>>,
             \/ phase'[y] \in {"idle", "failed"}
             \/ phase'[y] = phase[y] /\ tries'[y] = tries[y] + 1
             \/ phase[y] \in {"asking", "waiting"} /\ phase'[y] \in {"waiting", "paying"} /\ tries'[y] = 0,
             phase[y] = "paying" => (consent[held[y]] = "consumed" => consent'[held[y]] = "consumed")
      PROVE  Kept
  BY <1>0, <1>3 DEF StillToPay, PerAttempt
<1> DEFINE Counts == UNCHANGED <<held, attempts, paid>>
           NotRevived == phase[y] = "paying" =>
                           (consent[held[y]] = "consumed" => consent'[held[y]] = "consumed")
<1>4. ASSUME NEW x \in Transfers, Begin(x)
      PROVE  paid'[y] + StillToPay(y)' <= attempts'[y] * PerAttempt(y)
  <2>1. /\ phase'[x] = "asking" /\ tries'[x] = 0 /\ attempts' = [attempts EXCEPT ![x] = @ + 1]
        /\ \A z \in Transfers \ {x} : phase'[z] = phase[z] /\ tries'[z] = tries[z]
        /\ held' = [held EXCEPT ![x] = None] /\ UNCHANGED <<consent, paid>>
        /\ phase[x] \in {"idle", "failed"}
    BY <1>4, GoToFacts DEF Begin, bankVars, Phase
  <2>2. CASE y = x
    <3>1. StillToPay(y) = 0 /\ StillToPay(y)' = PerAttempt(y) /\ paid'[y] = paid[y]
      BY <2>1, <2>2 DEF StillToPay, PerAttempt
    <3>2. attempts'[y] = attempts[y] + 1
      BY <2>1, <2>2 DEF TypeOK
    <3>3. attempts'[y] * PerAttempt(y) = attempts[y] * PerAttempt(y) + PerAttempt(y)
      BY <1>0, <3>2, OneAttemptMore
    <3>4. PICK b \in Nat : b = attempts[y] * PerAttempt(y)
      BY <1>0, OneAttemptMore
    <3>5. paid[y] <= b
      BY <1>0, <3>1, <3>4 DEF PaymentBudget
    <3> QED
      BY <1>0, <3>1, <3>3, <3>4, <3>5
  <2>3. CASE y # x
    <3>1. attempts'[y] = attempts[y] /\ held'[y] = held[y]
      BY <2>1, <2>3 DEF TypeOK
    <3> QED
      BY <1>0, <1>1, <2>1, <2>3, <3>1 DEF StillToPay, PerAttempt
  <2> QED
    BY <2>2, <2>3
<1>5. ASSUME NEW x \in Transfers, NEW id \in ConsentIds, ConsentGranted(x, id)
      PROVE  Kept
  <2>1. /\ phase[x] = "asking" /\ phase'[x] = "waiting"
        /\ \A z \in Transfers \ {x} : phase'[z] = phase[z] /\ tries'[z] = tries[z]
        /\ held' = [held EXCEPT ![x] = id] /\ UNCHANGED <<attempts, paid>>
        /\ consent[id] = "unused"
        /\ \A c \in ConsentIds \ {id} : consent'[c] = consent[c]
    BY <1>5, GoToFacts, GrantsFacts DEF ConsentGranted, Phase
  <2>2. CASE y = x
    BY <1>0, <2>1, <2>2 DEF StillToPay, PerAttempt
  <2>3. CASE y # x
    <3>1. held'[y] = held[y] /\ held[y] # id
      BY <2>1, <2>3 DEF TypeOK, ConsentsInv, ConsentsAreFresh
    <3>2. phase[y] = "paying" => held[y] \in ConsentIds
      BY DEF TypeOK, ConsentsInv, ConsentsAreFresh
    <3> QED
      BY <1>0, <2>1, <2>3, <3>1, <3>2 DEF StillToPay, PerAttempt
  <2> QED
    BY <2>2, <2>3
<1>6. ASSUME NEW x \in Transfers, NEW id \in ConsentIds, ConsentLost(x, id)
      PROVE  Kept
  <2>1. Counts /\ phase[x] = "asking"
    BY <1>6 DEF ConsentLost
  <2>2. NotRevived
    <3>1. phase[y] = "paying" => held[y] \in ConsentIds
      BY DEF TypeOK, ConsentsInv, ConsentsAreFresh
    <3> QED
      BY <1>6, <3>1, GrantsFacts DEF ConsentLost
  <2>3. CASE y = x
    BY <1>3, <1>6, <2>1, <2>2, <2>3, RetryFacts DEF ConsentLost
  <2>4. CASE y # x
    BY <1>2, <1>6, <2>1, <2>2, <2>4, RetryFacts DEF ConsentLost
  <2> QED
    BY <2>3, <2>4
<1>7. ASSUME NEW x \in Transfers, ConsentUnavailable(x) \/ PaymentUnavailable(x)
      PROVE  Kept
  <2>1. Counts /\ NotRevived /\ Retry(x)
    BY <1>7 DEF ConsentUnavailable, PaymentUnavailable, bankVars
  <2>2. CASE y = x
    BY <1>3, <2>1, <2>2, RetryFacts
  <2>3. CASE y # x
    BY <1>2, <2>1, <2>3, RetryFacts
  <2> QED
    BY <2>2, <2>3
<1>8. ASSUME NEW x \in Transfers,
             ConsentRefused(x) \/ StartFails(x) \/ PaymentRefused(x) \/ StartPayment(x)
      PROVE  Kept
  <2>1. Counts /\ NotRevived
    BY <1>8 DEF ConsentRefused, StartFails, PaymentRefused, StartPayment, bankVars
  <2>2. /\ \A z \in Transfers \ {x} : phase'[z] = phase[z] /\ tries'[z] = tries[z]
        /\ \/ phase'[x] = "failed"
           \/ phase[x] = "waiting" /\ phase'[x] = "paying" /\ tries'[x] = 0
    BY <1>8, GoToFacts DEF ConsentRefused, StartFails, PaymentRefused, StartPayment, Phase
  <2>3. CASE y = x
    BY <1>3, <2>1, <2>2, <2>3
  <2>4. CASE y # x
    BY <1>2, <2>1, <2>2, <2>4
  <2> QED
    BY <2>3, <2>4
<1>9. ASSUME NEW x \in Transfers, PaymentExecuted(x)
      PROVE  Kept
  <2>1. /\ phase[x] = "paying" /\ consent[held[x]] = "authorised"
        /\ UNCHANGED <<held, attempts>> /\ paid' = [paid EXCEPT ![x] = @ + 1]
        /\ Retry(x)
    BY <1>9 DEF PaymentExecuted
  <2>2. held[x] \in ConsentIds /\ (phase[y] = "paying" => held[y] \in ConsentIds)
    BY <2>1 DEF TypeOK, ConsentsInv, ConsentsAreFresh
  <2>3. NotRevived
    BY <1>9, <2>2, ExecutedFacts
  <2>4. CASE y = x
    <3>1. paid'[y] = paid[y] + 1
      BY <2>1, <2>4 DEF TypeOK
    <3>2. StillToPay(y)' <= StillToPay(y) - 1
      <4>1. \/ phase'[y] = phase[y] /\ tries'[y] = tries[y] + 1
            \/ phase'[y] = "failed" /\ tries'[y] = 0
        BY <2>1, <2>4, RetryFacts
      <4>2. y \in SingleUse => consent'[held[y]] = "consumed"
        BY <1>9, <2>2, <2>4, ExecutedFacts
      <4> QED
        BY <1>0, <2>1, <2>4, <4>1, <4>2 DEF StillToPay
    <3>3. StillToPay(y)' \in Nat
      BY StillToPayTypeNext
    <3> QED
      BY <1>0, <2>1, <3>1, <3>2, <3>3
  <2>5. CASE y # x
    <3>1. paid'[y] = paid[y] /\ attempts'[y] = attempts[y] /\ held'[y] = held[y]
      BY <2>1, <2>5 DEF TypeOK
    <3>2. phase'[y] = phase[y] /\ tries'[y] = tries[y]
      BY <2>1, <2>5, RetryFacts
    <3>3. StillToPay(y)' <= StillToPay(y)
      BY <1>0, <2>3, <3>1, <3>2 DEF StillToPay, PerAttempt
    <3>4. StillToPay(y)' \in Nat
      BY StillToPayTypeNext
    <3> QED
      BY <1>0, <3>1, <3>3, <3>4
  <2> QED
    BY <2>4, <2>5
<1>10. ASSUME NEW id \in ConsentIds, Authorise(id) \/ Revoke(id)
       PROVE  Kept
  <2>1. Counts /\ UNCHANGED <<phase, tries>>
    BY <1>10 DEF Authorise, Revoke
  <2>2. NotRevived
    <3>1. phase[y] = "paying" => held[y] \in ConsentIds
      BY DEF TypeOK, ConsentsInv, ConsentsAreFresh
    <3> QED
      BY <1>10, <3>1 DEF Authorise, Revoke, TypeOK
  <2> QED
    BY <1>2, <2>1, <2>2
<1>11. ASSUME Restart
       PROVE  Kept
  <2>1. Counts /\ NotRevived
    BY <1>11 DEF Restart, bankVars
  <2>2. /\ tries'[y] = 0
        /\ phase'[y] = IF phase[y] \in {"asking", "paying"} THEN "failed" ELSE phase[y]
    BY <1>11 DEF Restart
  <2>3. CASE phase[y] = "waiting"
    BY <1>0, <2>1, <2>2, <2>3 DEF StillToPay, PerAttempt
  <2>4. CASE phase[y] # "waiting"
    <3>1. phase'[y] \in {"idle", "failed"}
      BY <2>2, <2>4 DEF TypeOK
    <3> QED
      BY <1>3, <2>1, <3>1
  <2> QED
    BY <2>3, <2>4
<1>12. ASSUME UNCHANGED vars
       PROVE  Kept
  BY <1>2, <1>12 DEF vars
<1> QED
  BY <1>1, <1>4, <1>5, <1>6, <1>7, <1>8, <1>9, <1>10, <1>11, <1>12 DEF Next, Step

\* With a single-use consent a transfer is paid at most once per start, with a
\* reusable one at most as often as execute_payment repeats its POST: for any
\* number of transfers, retries and consents, whatever answers are lost.
THEOREM AlwaysPaidOncePerAttempt == Spec => []PaidOncePerAttempt
<1>1. Init => PaymentBudget
  <2> SUFFICES ASSUME Init, NEW x \in Transfers
               PROVE  paid[x] + StillToPay(x) <= attempts[x] * PerAttempt(x)
    BY DEF PaymentBudget
  <2>1. paid[x] = 0 /\ attempts[x] = 0 /\ StillToPay(x) = 0 /\ PerAttempt(x) \in Nat
    BY PaymentAssumption DEF Init, StillToPay, PerAttempt
  <2> QED
    BY <2>1
<1>2. Init => ConsentsInv
  BY PaymentAssumption DEF Init, ConsentsInv, ConsentsAreFresh, ConsentsBelongToTransfer
<1>3. TypeOK /\ PaymentBudget => PaidOncePerAttempt
  <2> SUFFICES ASSUME TypeOK, PaymentBudget, NEW x \in Transfers
               PROVE  paid[x] <= attempts[x] * PerAttempt(x)
    BY DEF PaidOncePerAttempt, PerAttempt
  <2>1. PICK b \in Nat : b = attempts[x] * PerAttempt(x)
    BY OneAttemptMore DEF TypeOK
  <2>2. paid[x] \in Nat /\ StillToPay(x) \in Nat /\ paid[x] + StillToPay(x) <= b
    BY <2>1, StillToPayType DEF TypeOK, PaymentBudget
  <2> QED
    BY <2>1, <2>2
<1> QED
  BY <1>1, <1>2, <1>3, TypeCorrect, ConsentsInvStep, BudgetStep, PTL DEF Spec
=============================================================================
