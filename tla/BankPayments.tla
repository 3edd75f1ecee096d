---------------------------- MODULE BankPayments ----------------------------
(***************************************************************************)
(* A transfer, from the application's makeTransfer through the aggregator  *)
(* (request_payment_consent and execute_payment of BankService) to the     *)
(* bank and back.  The application first asks for a payment consent, waits *)
(* while the client may confirm it, then has it executed; the aggregator   *)
(* repeats each POST up to MaxRetries times.  As in BankConsent a step     *)
(* runs from one await to the next.  Whatever goes wrong is shown to the   *)
(* user as a failed transfer, and the user may then try again.             *)
(***************************************************************************)
EXTENDS Integers, FiniteSets

CONSTANTS
  Transfers,    \* what users want paid, each once
  ConsentIds,   \* payment consents the bank can give; bounds their number
  None,         \* no consent, no transfer
  SingleUse,    \* transfers with a consent_type of "single_use", the one the
                \* application asks for; the others are "multi_use" or "vrp"
  MaxRetries,   \* max_retries of both requests (5 in the code)
  MaxAttempts   \* model bound: times a user starts the same transfer

ASSUME PaymentAssumption ==
  /\ None \notin ConsentIds /\ None \notin Transfers
  /\ SingleUse \subseteq Transfers
  /\ MaxRetries \in Nat \ {0}
  /\ MaxAttempts \in Nat

VARIABLES
  phase,     \* per transfer: what the application shows or waits for
  tries,     \* per transfer: attempts made in the loop that is running
  held,      \* per transfer: the consent_id the application was answered
  known,     \* BankService.payment_consent_ids, and its file
  attempts,  \* per transfer: times the user started it
  consent,   \* the bank: state of each payment consent
  payer,     \* the bank: the transfer a consent was given for
  paid       \* the bank: payments executed for each transfer

vars == <<phase, tries, held, known, attempts, consent, payer, paid>>
bankVars == <<consent, payer, paid>>

-----------------------------------------------------------------------------
(* Helpers.  Definitions whose comment starts with `Mutation' are plausible  *)
(* mistakes in the definition after them.                                    *)

GoTo(x, p) ==
  /\ phase' = [phase EXCEPT ![x] = p]
  /\ tries' = [tries EXCEPT ![x] = 0]

\* Mutation: the attempts are never used up.
RetryForever(x) ==
  /\ tries' = [tries EXCEPT ![x] = (@ + 1) % MaxRetries]
  /\ UNCHANGED phase

Retry(x) ==
  IF tries[x] + 1 < MaxRetries
  THEN tries' = [tries EXCEPT ![x] = @ + 1] /\ UNCHANGED phase
  ELSE GoTo(x, "failed")

Grants(x, id) ==
  /\ consent[id] = "unused"
  /\ payer' = [payer EXCEPT ![id] = x]
  /\ \E s \in {"pending", "authorised"} : consent' = [consent EXCEPT ![id] = s]

-----------------------------------------------------------------------------
(* The consent *)

Begin(x) ==
  /\ phase[x] \in {"idle", "failed"}
  /\ attempts[x] < MaxAttempts
  /\ attempts' = [attempts EXCEPT ![x] = @ + 1]
  /\ held' = [held EXCEPT ![x] = None]
  /\ GoTo(x, "asking")
  /\ UNCHANGED <<known, bankVars>>

\* Mutation: the application keeps one consent_id for all its transfers.
ConsentGrantedShared(x, id) ==
  /\ phase[x] = "asking"
  /\ Grants(x, id)
  /\ known' = [known EXCEPT ![id] = x]
  /\ held' = [y \in Transfers |-> id]
  /\ GoTo(x, "waiting")
  /\ UNCHANGED <<attempts, paid>>

ConsentGranted(x, id) ==
  /\ phase[x] = "asking"
  /\ Grants(x, id)
  /\ known' = [known EXCEPT ![id] = x]
  /\ held' = [held EXCEPT ![x] = id]
  /\ GoTo(x, "waiting")
  /\ UNCHANGED <<attempts, paid>>

\* The bank gave the consent, no usable answer came back.
ConsentLost(x, id) ==
  /\ phase[x] = "asking"
  /\ Grants(x, id)
  /\ Retry(x)
  /\ UNCHANGED <<held, known, attempts, paid>>

ConsentUnavailable(x) ==
  /\ phase[x] = "asking"
  /\ Retry(x)
  /\ UNCHANGED <<held, known, attempts, bankVars>>

ConsentRefused(x) ==
  /\ phase[x] = "asking"
  /\ GoTo(x, "failed")
  /\ UNCHANGED <<held, known, attempts, bankVars>>

-----------------------------------------------------------------------------
(* The payment.  Both the aggregator and the application have waited ten     *)
(* seconds when it starts.                                                   *)

StartPayment(x) ==
  /\ phase[x] = "waiting"
  /\ GoTo(x, "paying")
  /\ UNCHANGED <<held, known, attempts, bankVars>>

\* The bank was disconnected meanwhile, or the request did not get through.
StartFails(x) ==
  /\ phase[x] = "waiting"
  /\ GoTo(x, "failed")
  /\ UNCHANGED <<held, known, attempts, bankVars>>

\* The bank executes the payment.  When its answer arrives the log line after
\* it reads payment_response.data, which PaymentStatusResponse does not have:
\* the exception is taken for a failed attempt, as a lost answer or a 5xx is.
PaymentExecuted(x) ==
  /\ phase[x] = "paying"
  /\ consent[held[x]] = "authorised"
  /\ paid' = [paid EXCEPT ![x] = @ + 1]
  /\ consent' = IF x \in SingleUse THEN [consent EXCEPT ![held[x]] = "consumed"] ELSE consent
  /\ Retry(x)
  /\ UNCHANGED <<held, known, attempts, payer>>

PaymentUnavailable(x) ==
  /\ phase[x] = "paying"
  /\ Retry(x)
  /\ UNCHANGED <<held, known, attempts, bankVars>>

\* Mutation: a refused consent is renewed, as it is for account consents.
PaymentRefusedRenewing(x) ==
  /\ phase[x] = "paying"
  /\ known' = [known EXCEPT ![held[x]] = None]
  /\ held' = [held EXCEPT ![x] = None]
  /\ GoTo(x, "asking")
  /\ UNCHANGED <<attempts, bankVars>>

\* 4xx, because of the consent or of the payment itself: with a text that says
\* "consent", "invalid" or "revoked" the consent is also forgotten.
PaymentRefused(x) ==
  /\ phase[x] = "paying"
  /\ \/ known' = [known EXCEPT ![held[x]] = None]
     \/ UNCHANGED known
  /\ GoTo(x, "failed")
  /\ UNCHANGED <<held, attempts, bankVars>>

-----------------------------------------------------------------------------
(* The environment *)

Authorise(id) ==
  /\ consent[id] = "pending"
  /\ consent' = [consent EXCEPT ![id] = "authorised"]
  /\ UNCHANGED <<phase, tries, held, known, attempts, payer, paid>>

Revoke(id) ==
  /\ consent[id] \in {"pending", "authorised"}
  /\ consent' = [consent EXCEPT ![id] = "revoked"]
  /\ UNCHANGED <<phase, tries, held, known, attempts, payer, paid>>

\* The server restarts: requests in flight end in a connection error, and the
\* dictionary is loaded again from the file.
Restart ==
  /\ phase' = [x \in Transfers |->
                 IF phase[x] \in {"asking", "paying"} THEN "failed" ELSE phase[x]]
  /\ tries' = [x \in Transfers |-> 0]
  /\ UNCHANGED <<held, known, attempts, bankVars>>

Init ==
  /\ phase = [x \in Transfers |-> "idle"]
  /\ tries = [x \in Transfers |-> 0]
  /\ held = [x \in Transfers |-> None]
  /\ known = [id \in ConsentIds |-> None]
  /\ attempts = [x \in Transfers |-> 0]
  /\ consent = [id \in ConsentIds |-> "unused"]
  /\ payer = [id \in ConsentIds |-> None]
  /\ paid = [x \in Transfers |-> 0]

Step(x) ==
  \/ \E id \in ConsentIds : ConsentGranted(x, id) \/ ConsentLost(x, id)
  \/ ConsentUnavailable(x) \/ ConsentRefused(x)
  \/ StartPayment(x) \/ StartFails(x)
  \/ PaymentExecuted(x) \/ PaymentUnavailable(x) \/ PaymentRefused(x)

Next ==
  \/ \E x \in Transfers : Begin(x) \/ Step(x)
  \/ \E id \in ConsentIds : Authorise(id) \/ Revoke(id)
  \/ Restart

\* HTTP calls time out and sleeps end; users need not start or confirm
\* anything.
Fairness == \A x \in Transfers : WF_vars(Step(x))

Spec == Init /\ [][Next]_vars /\ Fairness

-----------------------------------------------------------------------------
(* Properties *)

TypeOK ==
  /\ phase \in [Transfers -> {"idle", "asking", "waiting", "paying", "failed"}]
  /\ tries \in [Transfers -> 0 .. MaxRetries - 1]
  /\ held \in [Transfers -> ConsentIds \cup {None}]
  /\ known \in [ConsentIds -> Transfers \cup {None}]
  /\ attempts \in [Transfers -> 0 .. MaxAttempts]
  /\ consent \in [ConsentIds ->
                    {"unused", "pending", "authorised", "consumed", "revoked"}]
  /\ payer \in [ConsentIds -> Transfers \cup {None}]
  /\ paid \in [Transfers -> Nat]

\* With single-use consents a transfer is paid at most once each time the user
\* starts it, although execute_payment repeats the POST after the payment was
\* made: every repetition carries the same, now consumed, consent.  With reusable
\* consents nothing stops the repetitions but their number.
PaidOncePerAttempt ==
  \A x \in Transfers :
    paid[x] <= attempts[x] * (IF x \in SingleUse THEN 1 ELSE MaxRetries)

\* The aggregator only knows consents the bank gave, each under the client it
\* was given for, and the application pays with the consent of its own transfer.
ConsentsBelongToTransfer ==
  /\ \A id \in ConsentIds : known[id] # None => known[id] = payer[id]
  /\ \A x \in Transfers : held[x] # None => payer[held[x]] = x

\* Every transfer that was started is answered.
TransfersEnd ==
  \A x \in Transfers :
    phase[x] \in {"asking", "waiting", "paying"} ~> phase[x] = "failed"
=============================================================================
