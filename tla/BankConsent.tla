---------------------------- MODULE BankConsent ----------------------------
(***************************************************************************)
(* Account consents of one bank: BankService of project_2 with the file    *)
(* consents_<bank>.json, the MultiBankService entry that points to it, and *)
(* the bank behind it.                                                     *)
(*                                                                         *)
(* A task is one run of _process_single_client: find or ask a consent,     *)
(* list the accounts, read each of them.  The event loop switches tasks at *)
(* every await, so a step here runs from one await to the next; everything *)
(* a task does between two awaits is one action.  An HTTP call and its     *)
(* answer are one step of the task that awaits it, a call that reaches the *)
(* bank without an answer coming back (a lost answer) included.  Retries   *)
(* of reads change nothing and are left out; retries of the POST that asks *)
(* for a consent are kept, because each of them may create one.            *)
(***************************************************************************)
EXTENDS Integers, FiniteSets

CONSTANTS
  Tasks,         \* coroutines running _process_single_client
  Clients,       \* client_id values
  ConsentIds,    \* ids the bank can give to consents; bounds their number
  None,          \* no consent, no client
  MaxRetries,    \* max_retries of request_consent_if_needed (5 in the code)
  MaxAccounts,   \* model bound: accounts a client has
  MaxServices,   \* model bound: BankService objects made for the bank
  TokensExpire,  \* whether the bank's access tokens expire
  FilesTear      \* whether a crash can interrupt a write of the file

\* get_account_list renews a refused consent once, and the call it then makes,
\* _fetch_account_list_with_consent (max_retries = 1), once more.
MaxRenewals == 2

ASSUME ConsentAssumption ==
  /\ None \notin ConsentIds /\ None \notin Clients
  /\ MaxRetries \in Nat \ {0}
  /\ MaxAccounts \in Nat
  /\ MaxServices \in Nat \ {0}
  /\ TokensExpire \in BOOLEAN /\ FilesTear \in BOOLEAN

VARIABLES
  task,        \* per coroutine: where it awaits, and its local variables
  token,       \* per service: BankService.token and whether it has expired
  cache,       \* per service: BankService.consent_ids
  file,        \* consents_<bank>.json
  current,     \* the service in MultiBankService.bank_services, 0: none
  made,        \* BankService objects made so far
  staleWrite,  \* history: a replaced service wrote the file last
  owner,       \* the bank: the client a consent was given for
  status       \* the bank: what became of the consent

serviceVars == <<token, cache, file, current, made, staleWrite>>
bankVars    == <<owner, status>>
vars        == <<task, token, cache, file, current, made, staleWrite, owner, status>>

Services == 1 .. MaxServices
NoConsents == [c \in Clients |-> None]
PostLimit == (1 + MaxRenewals) * MaxRetries

\* held is the consent_id get_all_account_details was called with, used the one
\* the account list was last asked with.
Idle == [pc |-> "idle", svc |-> 0, client |-> None, held |-> None, used |-> None,
         tries |-> 0, renewals |-> 0, left |-> 0, posts |-> 0]

-----------------------------------------------------------------------------
(* Steps of a coroutine are written with these.  A definition whose comment  *)
(* starts with `Mutation' is a plausible mistake in the definition after it. *)

End(t) == task' = [task EXCEPT ![t] = Idle]

\* Mutation: one consent for the bank instead of one per client.
PutForAll(s, c, id) ==
  /\ cache' = [cache EXCEPT ![s] = [d \in Clients |-> id]]
  /\ file' = [d \in Clients |-> id]
  /\ staleWrite' = (s # current)

\* _save_consents writes the whole dictionary of its own object.
Put(s, c, id) ==
  /\ cache' = [cache EXCEPT ![s][c] = id]
  /\ file' = [cache[s] EXCEPT ![c] = id]
  /\ staleWrite' = (s # current)

\* Mutation: the file is only written when a consent is added.
RemoveFromCache(s, c) ==
  /\ cache' = [cache EXCEPT ![s][c] = None]
  /\ UNCHANGED <<file, staleWrite>>

\* _remove_consent drops whatever the dictionary now holds for the client.
Remove(s, c) ==
  IF cache[s][c] = None THEN UNCHANGED <<cache, file, staleWrite>>
  ELSE Put(s, c, None)

TokenLive(t) == token[task[t].svc] = "live"
Accepts(t, id) == TokenLive(t) /\ status[id] = "valid"

\* The bank records a new consent, which may still wait for the client's
\* confirmation: request_consent_if_needed does not look at auto_approved.
Grants(c, id) ==
  /\ status[id] = "unused"
  /\ owner' = [owner EXCEPT ![id] = c]
  /\ \E s \in {"pending", "valid"} : status' = [status EXCEPT ![id] = s]

Counted(posts) == IF posts <= PostLimit THEN posts + 1 ELSE posts

\* Mutation: the attempt counter starts over instead of ending the loop.
RetryForever(t) ==
  task' = [task EXCEPT ![t].posts = Counted(@),
                       ![t].tries = (@ + 1) % MaxRetries]

\* The POST failed: it is sent again until MaxRetries attempts were made.
Retry(t) ==
  IF task[t].tries + 1 < MaxRetries
  THEN task' = [task EXCEPT ![t].posts = Counted(@), ![t].tries = @ + 1]
  ELSE End(t)

-----------------------------------------------------------------------------
(* request_consent_if_needed *)

Start(t, c) ==
  /\ task[t].pc = "idle"
  /\ current # 0
  /\ task' = [task EXCEPT ![t] =
                [Idle EXCEPT !.pc = IF token[current] = "none" THEN "login"
                                    ELSE "lookup",
                             !.svc = current, !.client = c]]
  /\ UNCHANGED <<serviceVars, bankVars>>

LoginOk(t) ==
  /\ task[t].pc = "login"
  /\ token' = [token EXCEPT ![task[t].svc] = "live"]
  /\ task' = [task EXCEPT ![t].pc = "lookup"]
  /\ UNCHANGED <<cache, file, current, made, staleWrite, bankVars>>

LoginFails(t) ==
  /\ task[t].pc = "login"
  /\ End(t)
  /\ UNCHANGED <<serviceVars, bankVars>>

FindCached(t) ==
  LET id == cache[task[t].svc][task[t].client]
  IN  /\ task[t].pc = "lookup"
      /\ id # None
      /\ task' = [task EXCEPT ![t].pc = "list", ![t].held = id, ![t].used = id]
      /\ UNCHANGED <<serviceVars, bankVars>>

MissCached(t) ==
  /\ task[t].pc = "lookup"
  /\ cache[task[t].svc][task[t].client] = None
  /\ task' = [task EXCEPT ![t].pc = "ask"]
  /\ UNCHANGED <<serviceVars, bankVars>>

\* The answer to the POST arrives: the consent is cached, saved and used.
AskGranted(t, id) ==
  /\ task[t].pc = "ask"
  /\ TokenLive(t)
  /\ Grants(task[t].client, id)
  /\ Put(task[t].svc, task[t].client, id)
  /\ task' = [task EXCEPT ![t].pc = "list",
                          ![t].held = IF @ = None THEN id ELSE @,
                          ![t].used = id,
                          ![t].tries = 0,
                          ![t].posts = Counted(@)]
  /\ UNCHANGED <<token, current, made>>

\* The bank granted the consent; the answer got lost, or names no id.
AskLost(t, id) ==
  /\ task[t].pc = "ask"
  /\ TokenLive(t)
  /\ Grants(task[t].client, id)
  /\ Retry(t)
  /\ UNCHANGED serviceVars

AskUnavailable(t) ==
  /\ task[t].pc = "ask"
  /\ Retry(t)
  /\ UNCHANGED <<serviceVars, bankVars>>

\* 4xx: when the text mentions consent, invalid or revoked the cached consent
\* of the client, possibly put there by another task meanwhile, is removed.
AskRefused(t) ==
  /\ task[t].pc = "ask"
  /\ \/ Remove(task[t].svc, task[t].client)
     \/ UNCHANGED <<cache, file, staleWrite>>
  /\ End(t)
  /\ UNCHANGED <<token, current, made, bankVars>>

-----------------------------------------------------------------------------
(* get_account_list and _fetch_account_list_with_consent *)

Listed(t) ==
  /\ task[t].pc = "list"
  /\ Accepts(t, task[t].used)
  /\ \E n \in 0 .. MaxAccounts :
       IF n = 0 THEN End(t)
       ELSE task' = [task EXCEPT ![t].pc = "detail", ![t].left = n]
  /\ UNCHANGED <<serviceVars, bankVars>>

\* The removal, the cache lookup of request_consent_if_needed, which therefore
\* misses, and the start of its POST run without an await in between.
ListDenied(t) ==
  /\ task[t].pc = "list"
  /\ ~Accepts(t, task[t].used)
  /\ task[t].renewals < MaxRenewals
  /\ Remove(task[t].svc, task[t].client)
  /\ task' = [task EXCEPT ![t].pc = "ask", ![t].renewals = @ + 1]
  /\ UNCHANGED <<token, current, made, bankVars>>

\* Renewals used up, a refusal with another text, or no answer at all.
ListFails(t) ==
  /\ task[t].pc = "list"
  /\ End(t)
  /\ UNCHANGED <<serviceVars, bankVars>>

-----------------------------------------------------------------------------
(* get_all_account_details: detail, balance and transactions per account,    *)
(* all asked with the consent the function was called with.                  *)

\* Mutation: the loop reads the same account again.
SameAccount(t) == task' = [task EXCEPT ![t].pc = "detail"]

NextAccount(t) ==
  IF task[t].left = 1 THEN End(t)
  ELSE task' = [task EXCEPT ![t].pc = "detail", ![t].left = @ - 1]

ReadOk(t) ==
  /\ task[t].pc \in {"detail", "balance", "history"}
  /\ Accepts(t, task[t].held)
  /\ CASE task[t].pc = "detail"  -> task' = [task EXCEPT ![t].pc = "balance"]
       [] task[t].pc = "balance" -> task' = [task EXCEPT ![t].pc = "history"]
       [] task[t].pc = "history" -> NextAccount(t)
  /\ UNCHANGED <<serviceVars, bankVars>>

\* No detail skips the account; no balance and no transactions are None in it.
GoOnWithout(t) ==
  IF task[t].pc = "balance" THEN task' = [task EXCEPT ![t].pc = "history"]
  ELSE NextAccount(t)

ReadDenied(t) ==
  /\ task[t].pc \in {"detail", "balance", "history"}
  /\ ~Accepts(t, task[t].held)
  /\ Remove(task[t].svc, task[t].client)
  /\ GoOnWithout(t)
  /\ UNCHANGED <<token, current, made, bankVars>>

ReadFails(t) ==
  /\ task[t].pc \in {"detail", "balance", "history"}
  /\ GoOnWithout(t)
  /\ UNCHANGED <<serviceVars, bankVars>>

-----------------------------------------------------------------------------
(* Other requests and the environment *)

\* POST /request-account-consent: the new consent is returned, never cached.
RequestAccountConsent(c, id) ==
  /\ current # 0
  /\ token[current] # "expired"
  /\ Grants(c, id)
  /\ token' = [token EXCEPT ![current] = "live"]
  /\ UNCHANGED <<task, cache, file, current, made, staleWrite>>

\* A new BankService starts without a token and with what the file holds.
NewService(contents) ==
  /\ made < MaxServices
  /\ made' = made + 1
  /\ current' = made + 1
  /\ cache' = [cache EXCEPT ![made + 1] = contents]
  /\ file' = contents
  /\ staleWrite' = FALSE
  /\ UNCHANGED token

\* POST /connect: coroutines of the replaced service keep running on it.
Connect == NewService(file) /\ UNCHANGED <<task, bankVars>>

Disconnect ==
  /\ current # 0
  /\ current' = 0
  /\ UNCHANGED <<task, token, cache, file, made, staleWrite, bankVars>>

\* The server restarts.  A crash while the file is being written leaves text
\* that _load_consents cannot parse and treats as no consents at all.
Restart ==
  /\ task' = [t \in Tasks |-> Idle]
  /\ \/ NewService(file)
     \/ /\ FilesTear
        /\ \E t \in Tasks : task[t].pc \in {"ask", "list", "detail", "balance", "history"}
        /\ NewService(NoConsents)
  /\ UNCHANGED bankVars

Approve(id) ==
  /\ status[id] = "pending"
  /\ status' = [status EXCEPT ![id] = "valid"]
  /\ UNCHANGED <<task, serviceVars, owner>>

Revoke(id) ==
  /\ status[id] \in {"pending", "valid"}
  /\ status' = [status EXCEPT ![id] = "revoked"]
  /\ UNCHANGED <<task, serviceVars, owner>>

ExpireToken(s) ==
  /\ TokensExpire
  /\ token[s] = "live"
  /\ token' = [token EXCEPT ![s] = "expired"]
  /\ UNCHANGED <<task, cache, file, current, made, staleWrite, bankVars>>

-----------------------------------------------------------------------------

Init ==
  /\ task = [t \in Tasks |-> Idle]
  /\ token = [s \in Services |-> "none"]
  /\ cache = [s \in Services |-> NoConsents]
  /\ file = NoConsents
  /\ current = 1
  /\ made = 1
  /\ staleWrite = FALSE
  /\ owner = [id \in ConsentIds |-> None]
  /\ status = [id \in ConsentIds |-> "unused"]

\* What the coroutine does by itself, once started.
Step(t) ==
  \/ LoginOk(t) \/ LoginFails(t) \/ FindCached(t) \/ MissCached(t)
  \/ \E id \in ConsentIds : AskGranted(t, id) \/ AskLost(t, id)
  \/ AskUnavailable(t) \/ AskRefused(t)
  \/ Listed(t) \/ ListDenied(t) \/ ListFails(t)
  \/ ReadOk(t) \/ ReadDenied(t) \/ ReadFails(t)

Environment ==
  \/ \E c \in Clients, id \in ConsentIds : RequestAccountConsent(c, id)
  \/ \E id \in ConsentIds : Approve(id) \/ Revoke(id)
  \/ \E s \in Services : ExpireToken(s)
  \/ Connect \/ Disconnect \/ Restart

Next ==
  \/ \E t \in Tasks : Step(t) \/ \E c \in Clients : Start(t, c)
  \/ Environment

\* Every await ends: httpx has a timeout, the sleeps are finite and the event
\* loop resumes a coroutine that is ready.  Nothing makes clients send
\* requests, users confirm consents or the server restart.
Fairness == \A t \in Tasks : WF_vars(Step(t))

Spec == Init /\ [][Next]_vars /\ Fairness
-----------------------------------------------------------------------------
(* Properties *)

ConsentOrNone == ConsentIds \cup {None}

Task == [pc : {"idle", "login", "lookup", "ask", "list", "detail", "balance", "history"},
         svc : 0 .. MaxServices, client : Clients \cup {None},
         held : ConsentOrNone, used : ConsentOrNone,
         tries : 0 .. MaxRetries - 1, renewals : 0 .. MaxRenewals,
         left : 0 .. MaxAccounts, posts : 0 .. PostLimit + 1]

TypeOK ==
  /\ task \in [Tasks -> Task]
  /\ token \in [Services -> {"none", "live", "expired"}]
  /\ cache \in [Services -> [Clients -> ConsentOrNone]]
  /\ file \in [Clients -> ConsentOrNone]
  /\ current \in 0 .. MaxServices
  /\ made \in Services
  /\ staleWrite \in BOOLEAN
  /\ owner \in [ConsentIds -> Clients \cup {None}]
  /\ status \in [ConsentIds -> {"unused", "pending", "valid", "revoked"}]

\* A consent is only ever kept, saved or used for the client it was given for,
\* whatever tasks, services and restarts come in between: no client's accounts
\* are asked for with the consent of another.
Belongs(id, c) == id # None => owner[id] = c

ConsentsBelongToClient ==
  /\ \A c \in Clients : Belongs(file[c], c) /\ \A s \in Services : Belongs(cache[s][c], c)
  /\ \A t \in Tasks : /\ Belongs(task[t].held, task[t].client)
                      /\ Belongs(task[t].used, task[t].client)

\* A restart finds what the connected service knows: the file equals its
\* dictionary unless a service that was replaced or disconnected wrote last.
FileIsCache == current # 0 /\ ~staleWrite => file = cache[current]

\* A request for accounts never sends more POSTs for consents than the retries
\* of the first consent and of two renewals amount to, although the functions
\* that retry and renew call each other.
PostsBounded == \A t \in Tasks : task[t].posts <= PostLimit

\* A running request for accounts ends: no cycle of refusals, renewals and
\* retries keeps it going for ever.
RequestsEnd == \A t \in Tasks : task[t].pc # "idle" ~> task[t].pc = "idle"

\* What the file holds for a client changes only while a request of that client
\* runs: saving the consent of one client keeps those of the others.
FileKeepsOthers ==
  [][\A c \in Clients : file'[c] # file[c] => \E t \in Tasks : task[t].client = c]_vars
=============================================================================
