----------------------------- MODULE SignatureProofs -----------------------------
(***************************************************************************)
(* The handlers of the signature requests use the ledger as its            *)
(* specification says, forge no signature and complete no request that     *)
(* still waits for somebody, for any number of handlers, requests and      *)
(* persons; when no two work on one request, they hold one credit per open *)
(* request and settle it once, and one seat by person if no two send.      *)
(***************************************************************************)
EXTENDS SignatureRequests, TLAPS

(* The ledger with its theorems, under the names of the handlers. *)
Proved == INSTANCE CreditLedgerProofs WITH Txs <- Handlers

LEMMA InitType == Init => RequestTypeOK
BY SignatureAssumption
DEF Init, RequestTypeOK, NoJob, Job, Seats, Terminal

(* A new job has its type, and a request when it goes to the provider or to  *)
(* the settlement.                                                           *)
LEMMA BeginType ==
    ASSUME RequestTypeOK, NEW h \in Handlers, NEW j \in Job, Begin(h, j),
           j.at \in {"provider", "check"} => j.request \in Requests
    PROVE  /\ job' \in [Handlers -> Job]
           /\ \A g \in Handlers :
                  job'[g].at \in {"provider", "check"} => job'[g].request \in Requests
BY DEF RequestTypeOK, Begin

LEMMA AnswerType ==
    ASSUME RequestTypeOK, NEW E, Answer(E)
    PROVE  inbox' \subseteq Events /\ faults' \in 0..MaxFaults
BY SignatureAssumption DEF RequestTypeOK, Answer

LEMMA EventType ==
    ASSUME NEW e \in Events
    PROVE  e.request \in Requests /\ {e} \subseteq Events
           /\ (e.type \in {"form.completed", "form.declined"} => e.seat \in Seats)
BY DEF Events

(* A job of its own kind, for what a handler begins. *)
LEMMA SendType ==
    ASSUME RequestTypeOK, NEW h \in Handlers, NEW r \in Requests,
           NEW who \in SUBSET Persons, SendRequest(h, r, who)
    PROVE  RequestTypeOK'
<1> DEFINE j == [NoJob EXCEPT !.kind = "send", !.at = "ledger", !.request = r,
                              !.to = "sent", !.seats = who \cup Countersigner]
<1>1. j \in Job /\ j.at = "ledger"
    BY DEF NoJob, Job, Seats
<1>2. Begin(h, j)
    BY DEF SendRequest
<1> HIDE DEF j
<1> QED
    BY <1>1, <1>2, BeginType
    DEF SendRequest, RequestTypeOK, requestVars, providerVars

LEMMA AgentType ==
    ASSUME RequestTypeOK, NEW h \in Handlers, Agent(h)
    PROVE  RequestTypeOK'
<1>1. ASSUME NEW r \in Requests, SendForProgress(h, r) PROVE RequestTypeOK'
    <2>1. people \ Seated \in SUBSET Persons
        BY DEF RequestTypeOK
    <2> QED BY <1>1, <2>1, SendType DEF SendForProgress
<1>2. ASSUME NEW r \in Requests, NEW p \in Persons, SendForLatePerson(h, r, p)
      PROVE  RequestTypeOK'
    BY <1>2, SendType DEF SendForLatePerson
<1>3. ASSUME NEW r \in Requests, CancelRequest(h, r) PROVE RequestTypeOK'
    <2> DEFINE j == [NoJob EXCEPT !.kind = "cancel", !.at = "provider", !.request = r,
                                  !.to = "cancelled"]
    <2>1. j \in Job /\ j.request \in Requests
        BY DEF NoJob, Job, Terminal
    <2>2. Begin(h, j)
        BY <1>3 DEF CancelRequest
    <2> HIDE DEF j
    <2> QED
        BY <1>3, <2>1, <2>2, BeginType
        DEF CancelRequest, RequestTypeOK, requestVars, providerVars
<1> QED
    BY <1>1, <1>2, <1>3 DEF Agent

LEMMA DeliverType ==
    ASSUME RequestTypeOK, NEW h \in Handlers, NEW e \in inbox, Deliver(h, e)
    PROVE  RequestTypeOK'
<1>1. e \in Events /\ e.request \in Requests
    BY EventType DEF RequestTypeOK
<1>2. CASE OnFormCompleted(h, e)
    <2> DEFINE r == e.request
               mine == IF signer[r][e.seat] # "signed" THEN {e.seat} ELSE {}
               j == [NoJob EXCEPT !.kind = "sign", !.request = r, !.seats = mine,
                                  !.event = {e}]
               k == [j EXCEPT !.at = "commit",
                     !.to = IF status[r] = "sent" THEN "partially_signed" ELSE "same"]
               l == [j EXCEPT !.at = "check", !.to = "completed"]
               m == [j EXCEPT !.at = "commit"]
    <2>1. mine \subseteq Seats /\ {e} \subseteq Events
        BY <1>1, <1>2, EventType DEF OnFormCompleted
    <2> HIDE DEF mine
    <2>2. k \in Job /\ l \in Job /\ m \in Job
        BY <1>1, <2>1 DEF NoJob, Job, Terminal
    <2>3. k.at = "commit" /\ m.at = "commit" /\ l.request \in Requests
        BY <1>1 DEF NoJob
    <2>4. Begin(h, k) \/ Begin(h, l) \/ Begin(h, m)
        BY <1>2 DEF OnFormCompleted, mine
    <2> HIDE DEF k, l, m
    <2>5. /\ job' \in [Handlers -> Job]
          /\ \A g \in Handlers :
                 job'[g].at \in {"provider", "check"} => job'[g].request \in Requests
        BY <2>2, <2>3, <2>4, BeginType
    <2>6. UNCHANGED <<requestVars, providerVars, faults>>
        BY <1>2 DEF OnFormCompleted
    <2> QED
        BY <2>5, <2>6 DEF RequestTypeOK, requestVars, providerVars
<1>3. CASE OnFormDeclined(h, e)
    <2>1. inbox' \subseteq Events /\ faults' \in 0..MaxFaults
        BY <1>3, AnswerType DEF OnFormDeclined
    <2> DEFINE Marks == {"none", "pending", "signed", "declined"}
               mark == IF signer[e.request][e.seat] = "pending"
                       THEN "declined" ELSE signer[e.request][e.seat]
    <2>2. /\ signer \in [Requests -> [Seats -> Marks]]
          /\ signer' = [signer EXCEPT ![e.request] = [@ EXCEPT ![e.seat] = mark]]
        BY <1>3 DEF OnFormDeclined, RequestTypeOK
    <2>3. e.seat \in Seats /\ signer[e.request] \in [Seats -> Marks]
        BY <1>1, <1>3, <2>2, EventType DEF OnFormDeclined
    <2>4. mark \in Marks
        BY <2>3
    <2>5. [signer[e.request] EXCEPT ![e.seat] = mark] \in [Seats -> Marks]
        BY <2>3, <2>4
    <2>6. signer' \in [Requests -> [Seats -> Marks]]
        <3> HIDE DEF mark, Marks
        <3> QED
            BY <2>2, <2>5
    <2>7. UNCHANGED <<status, people, provided, submission, form, job>>
        BY <1>3 DEF OnFormDeclined
    <2> QED
        BY <2>1, <2>6, <2>7 DEF RequestTypeOK
<1>4. CASE OnSubmissionEnded(h, e)
    <2> DEFINE j == [NoJob EXCEPT !.kind = "end", !.at = "check", !.request = e.request,
                 !.event = {e},
                 !.to = IF e.type = "submission.expired" THEN "expired" ELSE "cancelled"]
    <2>1. j \in Job /\ j.request \in Requests
        BY <1>1 DEF NoJob, Job, Terminal
    <2>2. Begin(h, j)
        BY <1>4 DEF OnSubmissionEnded
    <2> HIDE DEF j
    <2> QED
        BY <1>4, <2>1, <2>2, BeginType
        DEF OnSubmissionEnded, RequestTypeOK, requestVars, providerVars
<1>5. CASE OnIgnored(h, e)
    <2>1. inbox' \subseteq Events /\ faults' \in 0..MaxFaults
        BY <1>5, AnswerType DEF OnIgnored
    <2> QED
        BY <1>5, <2>1 DEF OnIgnored, RequestTypeOK, requestVars
<1> QED
    BY <1>2, <1>3, <1>4, <1>5 DEF Deliver

LEMMA WriteType ==
    ASSUME RequestTypeOK, NEW h \in Handlers, Write(h)
    PROVE  RequestTypeOK'
<1>1. job[h] \in Job
    BY DEF RequestTypeOK
<1>2. inbox' \subseteq Events /\ faults' \in 0..MaxFaults
    BY AnswerType DEF Write
<1>3. NoJob \in Job /\ NoJob.at = "idle"
    BY DEF NoJob, Job
<1>4. status' \in [Requests -> {"none", "sent", "partially_signed"} \cup Terminal]
    BY <1>1 DEF Write, RequestTypeOK, Job
<1>5. signer' \in [Requests -> [Seats -> {"none", "pending", "signed", "declined"}]]
    BY DEF Write, RequestTypeOK
<1>6. people' \subseteq Persons /\ provided' \subseteq Persons
    BY DEF Write, RequestTypeOK
<1> HIDE DEF NoJob
<1> QED
    BY <1>2, <1>3, <1>4, <1>5, <1>6 DEF Write, RequestTypeOK

(* A handler that moves on, or ends, keeps a typed job.                      *)
LEMMA JobType ==
    ASSUME RequestTypeOK, NEW h \in Handlers,
           \/ job' = [job EXCEPT ![h] = NoJob]
           \/ \E at \in {"ledger", "commit"} : job' = [job EXCEPT ![h].at = at]
           \/ job[h].at = "provider" /\ job' = [job EXCEPT ![h].at = "check"]
    PROVE  /\ job' \in [Handlers -> Job]
           /\ \A g \in Handlers :
                  job'[g].at \in {"provider", "check"} => job'[g].request \in Requests
<1>1. NoJob \in Job /\ NoJob.at = "idle"
    BY DEF NoJob, Job
<1>2. job \in [Handlers -> Job]
      /\ \A g \in Handlers : job[g].at \in {"provider", "check"} => job[g].request \in Requests
    BY DEF RequestTypeOK
<1>3. CASE job' = [job EXCEPT ![h] = NoJob]
    BY <1>1, <1>2, <1>3
<1>4. CASE \E at \in {"ledger", "commit"} : job' = [job EXCEPT ![h].at = at]
    BY <1>2, <1>4 DEF Job
<1>5. CASE job[h].at = "provider" /\ job' = [job EXCEPT ![h].at = "check"]
    BY <1>2, <1>5 DEF Job
<1> QED
    BY <1>3, <1>4, <1>5

LEMMA ContinueType ==
    ASSUME RequestTypeOK, NEW h \in Handlers, Continue(h)
    PROVE  RequestTypeOK'
<1>1. CASE CreateSubmission(h)
    BY <1>1 DEF CreateSubmission, RequestTypeOK, requestVars
<1>2. CASE ProviderCancel(h)
    <2>1. job[h].request \in Requests
        BY <1>2 DEF ProviderCancel, RequestTypeOK
    <2>2. inbox' \subseteq Events
        BY <1>2, <2>1 DEF ProviderCancel, RequestTypeOK, Events
    <2> QED
        BY <1>2, <2>2, JobType DEF ProviderCancel, RequestTypeOK, requestVars
<1>3. CASE Settle(h)
    BY <1>3, JobType DEF Settle, RequestTypeOK, requestVars, providerVars
<1>4. CASE LedgerStep(h)
    BY <1>4 DEF LedgerStep, RequestTypeOK, requestVars, providerVars
<1>5. CASE CommitWithLedger(h)
    BY <1>5, WriteType DEF CommitWithLedger
<1>6. CASE CommitWithoutLedger(h)
    BY <1>6, WriteType DEF CommitWithoutLedger
<1>7. CASE Refused(h)
    BY <1>7, JobType DEF Refused, RequestTypeOK, requestVars, providerVars
<1> QED
    BY <1>1, <1>2, <1>3, <1>4, <1>5, <1>6, <1>7 DEF Continue

LEMMA ProviderType ==
    ASSUME RequestTypeOK, Provider
    PROVE  RequestTypeOK'
<1>1. ASSUME NEW r \in Requests, NEW s \in Seats, SignForm(r, s) PROVE RequestTypeOK'
    BY <1>1 DEF SignForm, RequestTypeOK, requestVars, Events
<1>2. ASSUME NEW r \in Requests, NEW s \in Seats, DeclineForm(r, s) PROVE RequestTypeOK'
    BY <1>2 DEF DeclineForm, RequestTypeOK, requestVars, Events
<1>3. ASSUME NEW r \in Requests, ExpireSubmission(r) PROVE RequestTypeOK'
    BY <1>3 DEF ExpireSubmission, RequestTypeOK, requestVars, Events
<1> QED
    BY <1>1, <1>2, <1>3 DEF Provider

LEMMA NextType == RequestTypeOK /\ [Next]_vars => RequestTypeOK'
<1> SUFFICES ASSUME RequestTypeOK, [Next]_vars PROVE RequestTypeOK'
    OBVIOUS
<1>1. ASSUME NEW h \in Handlers, Agent(h) PROVE RequestTypeOK'
    BY <1>1, AgentType
<1>2. ASSUME NEW h \in Handlers, NEW p \in Purchases, BuyPack(h, p) PROVE RequestTypeOK'
    <2> DEFINE j == [NoJob EXCEPT !.kind = "buy", !.at = "ledger"]
    <2>1. j \in Job /\ j.at = "ledger"
        BY DEF NoJob, Job
    <2>2. Begin(h, j)
        BY <1>2 DEF BuyPack
    <2> HIDE DEF j
    <2> QED
        BY <1>2, <2>1, <2>2, BeginType DEF BuyPack, RequestTypeOK, requestVars, providerVars
<1>3. ASSUME NEW h \in Handlers, NEW e \in inbox, Deliver(h, e) PROVE RequestTypeOK'
    BY <1>3, DeliverType
<1>4. ASSUME NEW h \in Handlers, Continue(h) PROVE RequestTypeOK'
    BY <1>4, ContinueType
<1>5. ASSUME NEW h \in Handlers, Fail(h) PROVE RequestTypeOK'
    <2>1. faults' \in 0..MaxFaults
        BY <1>5, SignatureAssumption DEF Fail, RequestTypeOK
    <2> QED
        BY <1>5, <2>1, JobType DEF Fail, RequestTypeOK, requestVars, providerVars
<1>6. CASE Provider
    BY <1>6, ProviderType
<1>7. CASE UNCHANGED vars
    BY <1>7 DEF vars, RequestTypeOK, requestVars, providerVars
<1> QED
    BY <1>1, <1>2, <1>3, <1>4, <1>5, <1>6, <1>7 DEF Next

LEMMA SpecType == Spec => []RequestTypeOK
BY InitType, NextType, PTL DEF Spec

-----------------------------------------------------------------------------
(* Every step of the composed system is a step of the ledger or leaves it    *)
(* alone.                                                                    *)
LEMMA StepOfLedger ==
    RequestTypeOK /\ [Next]_vars => [Ledger!Next]_(Ledger!ledgerVars)
<1> DEFINE Quiet == UNCHANGED ledgerVars
<1> SUFFICES ASSUME RequestTypeOK, [Next]_vars PROVE Ledger!Next \/ Quiet
    BY DEF ledgerVars, Ledger!ledgerVars
<1>1. ASSUME NEW h \in Handlers, Agent(h) PROVE Ledger!Next \/ Quiet
    <2>1. ASSUME NEW r \in Requests, NEW who, SendRequest(h, r, who) PROVE Ledger!Next
        BY <2>1 DEF SendRequest, Ledger!Next
    <2>2. ASSUME NEW r \in Requests, CancelRequest(h, r) PROVE Quiet
        BY <2>2 DEF CancelRequest
    <2> QED
        BY <1>1, <2>1, <2>2 DEF Agent, SendForProgress, SendForLatePerson
<1>2. ASSUME NEW h \in Handlers, NEW p \in Purchases, BuyPack(h, p) PROVE Ledger!Next
    BY <1>2 DEF BuyPack, Ledger!Next
<1>3. ASSUME NEW h \in Handlers, NEW e \in inbox, Deliver(h, e) PROVE Quiet
    BY <1>3 DEF Deliver, OnFormCompleted, OnFormDeclined, OnSubmissionEnded, OnIgnored
<1>4. ASSUME NEW h \in Handlers, Continue(h) PROVE Ledger!Next \/ Quiet
    <2>1. CASE Settle(h)
        <3>1. job[h].request \in Requests
            BY <2>1 DEF Settle, RequestTypeOK
        <3> QED
            BY <2>1, <3>1 DEF Settle, Ledger!Next
    <2>2. CASE LedgerStep(h)
        BY <2>2 DEF LedgerStep, Ledger!Next
    <2>3. CASE CommitWithLedger(h)
        BY <2>3 DEF CommitWithLedger, Ledger!Next
    <2>4. CASE Refused(h)
        BY <2>4 DEF Refused, Ledger!Next
    <2>5. CASE CreateSubmission(h) \/ ProviderCancel(h) \/ CommitWithoutLedger(h)
        BY <2>5 DEF CreateSubmission, ProviderCancel, CommitWithoutLedger
    <2> QED
        BY <1>4, <2>1, <2>2, <2>3, <2>4, <2>5 DEF Continue
<1>5. ASSUME NEW h \in Handlers, Fail(h) PROVE Ledger!Next \/ Quiet
    BY <1>5 DEF Fail, Ledger!Next
<1>6. CASE Provider
    BY <1>6 DEF Provider, SignForm, DeclineForm, ExpireSubmission
<1>7. CASE UNCHANGED vars
    BY <1>7 DEF vars
<1> QED
    BY <1>1, <1>2, <1>3, <1>4, <1>5, <1>6, <1>7 DEF Next

(* Handlers that send, cancel, receive webhooks, fail and overlap never ask  *)
(* of the ledger anything its specification does not allow.                  *)
THEOREM HandlersUseLedger == Spec => LedgerSpec
<1>1. Init => Ledger!Init
    BY DEF Init
<1> QED
    BY <1>1, StepOfLedger, SpecType, PTL DEF Spec, LedgerSpec, Ledger!Spec

-----------------------------------------------------------------------------
(* What is proved of the ledger holds of the ledger the handlers use: the    *)
(* two instances are the same formulas.                                      *)
LEMMA LedgerTheorems ==
    LedgerSpec =>
        []Ledger!TypeOK /\ []Ledger!BalanceIsDerived /\ []Ledger!PurchasedOnce
<1>1. Proved!LedgerAssumption
    BY SignatureAssumption DEF Proved!IsFiniteSet, IsFiniteSet
<1>2. Proved!Spec =>
          []Proved!TypeOK /\ []Proved!BalanceIsDerived /\ []Proved!PurchasedOnce
    BY <1>1, Proved!LedgerTypeCorrect, Proved!LedgerBalanceIsDerived,
       Proved!LedgerPurchasedOnce
<1>3. Ledger!Init <=> Proved!Init
    BY DEF Ledger!Init, Proved!Init, Ledger!ZeroBalance, Proved!ZeroBalance,
           Ledger!NoOp, Proved!NoOp, Ledger!Kinds, Proved!Kinds,
           Ledger!RequestKinds, Proved!RequestKinds
<1>4. Ledger!Next <=> Proved!Next
    BY DEF Ledger!Next, Proved!Next, Ledger!PurchaseCredits,
           Proved!PurchaseCredits, Ledger!GrantCredits, Proved!GrantCredits,
           Ledger!ReserveCredits, Proved!ReserveCredits, Ledger!SettleCredit,
           Proved!SettleCredit, Ledger!LockRow, Proved!LockRow, Ledger!MissRow,
           Proved!MissRow, Ledger!InsertRow, Proved!InsertRow,
           Ledger!RefuseReserve, Proved!RefuseReserve, Ledger!InsertConflict,
           Proved!InsertConflict, Ledger!Commit, Proved!Commit,
           Ledger!CheckViolation, Proved!CheckViolation, Ledger!AlreadyCredited,
           Proved!AlreadyCredited, Ledger!Belt, Proved!Belt, Ledger!Rollback,
           Proved!Rollback, Ledger!Start, Proved!Start, Ledger!Finish,
           Proved!Finish, Ledger!Nothing, Proved!Nothing, Ledger!InFlight,
           Proved!InFlight, Ledger!RowIsFree,
           Proved!RowIsFree, Ledger!LiveReserve, Proved!LiveReserve,
           Ledger!Updated, Proved!Updated, Ledger!ChecksHold, Proved!ChecksHold,
           Ledger!Credit, Proved!Credit, Ledger!Hold, Proved!Hold,
           Ledger!ZeroBalance, Proved!ZeroBalance, Ledger!NoOp, Proved!NoOp,
           Ledger!Kinds, Proved!Kinds, Ledger!RequestKinds, Proved!RequestKinds,
           Ledger!Cardinality, Proved!Cardinality, Ledger!IsFiniteSet,
           Proved!IsFiniteSet
<1>5. [Ledger!Next]_(Ledger!ledgerVars) <=> [Proved!Next]_(Proved!ledgerVars)
    BY <1>4 DEF Ledger!ledgerVars, Proved!ledgerVars
<1>6. Ledger!TypeOK <=> Proved!TypeOK
    BY DEF Ledger!TypeOK, Proved!TypeOK, Ledger!Op, Proved!Op, Ledger!NoOp,
           Proved!NoOp, Ledger!Kinds, Proved!Kinds, Ledger!RequestKinds,
           Proved!RequestKinds
<1>7. Ledger!BalanceIsDerived <=> Proved!BalanceIsDerived
    BY DEF Ledger!BalanceIsDerived, Proved!BalanceIsDerived, Ledger!Derived,
           Proved!Derived
<1>8. Ledger!PurchasedOnce <=> Proved!PurchasedOnce
    BY DEF Ledger!PurchasedOnce, Proved!PurchasedOnce, Ledger!Cardinality,
           Proved!Cardinality, Ledger!IsFiniteSet, Proved!IsFiniteSet
<1> QED
    BY <1>2, <1>3, <1>5, <1>6, <1>7, <1>8, PTL
    DEF LedgerSpec, Ledger!Spec, Proved!Spec

(* Every column of the requests and of the ledger keeps its type, whatever   *)
(* the handlers, the persons and the order of DocuSeal's events.             *)
THEOREM SignatureTypeCorrect == Spec => []TypeOK
BY SpecType, HandlersUseLedger, LedgerTheorems, PTL DEF TypeOK

(* The balance the handlers leave is the one their journal derives, and a    *)
(* pack bought while they run is credited once, delivered twice or not.      *)
THEOREM SignaturesKeepTheBalance ==
    Spec => [](Ledger!BalanceIsDerived /\ Ledger!PurchasedOnce)
BY HandlersUseLedger, LedgerTheorems, PTL

-----------------------------------------------------------------------------
(* A signature on its way, in DocuSeal's outbox, was given by somebody seated.*)
EventsAreReal ==
    \A e \in inbox : e.type = "form.completed" =>
        form[e.request][e.seat] = "signed" /\ signer[e.request][e.seat] # "none"

(* A handler that creates a request finds no seat on it; one that records a  *)
(* signature finds the signature, and when it is to complete the request     *)
(* nobody else is awaited.                                                   *)
JobIsReal(j) ==
    /\ j.kind = "send" =>
          /\ j.at = "ledger" /\ j.request \in Requests /\ j.to = "sent"
          /\ \A s \in Seats : signer[j.request][s] = "none"
    /\ j.kind = "sign" =>
          /\ j.request \in Requests
          /\ \E s \in Seats : signer[j.request][s] # "none"
          /\ \A s \in j.seats :
                form[j.request][s] = "signed" /\ signer[j.request][s] # "none"
          /\ j.to = "completed" => Pending(j.request) \subseteq j.seats
    /\ j.kind \notin {"send", "sign"} => j.seats = {} /\ j.to # "completed"

(* A completed request has no seat that still reads "pending".               *)
CompletedAwaitsNobody ==
    \A r \in Requests : status[r] = "completed" => Pending(r) = {}

SendsApart ==
    \A g, h \in Handlers :
        g # h /\ job[g].kind = "send" /\ job[h].kind = "send"
        => job[g].request # job[h].request

FormsFollowSubmission ==
    \A r \in Requests, s \in Seats : form[r][s] # "none" => submission[r] # "none"

SignersFollowStatus ==
    \A r \in Requests, s \in Seats : signer[r][s] # "none" => status[r] # "none"

RealInv ==
    /\ RequestTypeOK
    /\ SignaturesAreReal /\ CompletedAwaitsNobody
    /\ EventsAreReal /\ FormsFollowSubmission /\ SignersFollowStatus /\ SendsApart
    /\ \A h \in Handlers : JobIsReal(job[h])


(* A step that seats nobody, unseats nobody and forgets no signature.        *)
Steady ==
    /\ \A r \in Requests, s \in Seats : signer'[r][s] = "none" <=> signer[r][s] = "none"
    /\ \A r \in Requests : Pending(r)' \subseteq Pending(r)
    /\ \A r \in Requests, s \in Seats : form[r][s] = "signed" => form'[r][s] = "signed"

LEMMA SteadyJob ==
    ASSUME Steady, NEW j \in Job, JobIsReal(j)
    PROVE  JobIsReal(j)'
<1>1. CASE j.kind = "send"
    BY <1>1 DEF Steady, JobIsReal
<1>2. CASE j.kind = "sign"
    <2>1. Pending(j.request)' \subseteq Pending(j.request)
        BY <1>2 DEF Steady, JobIsReal
    <2> QED
        BY <1>2, <2>1 DEF Steady, JobIsReal, Job
<1>3. CASE j.kind \notin {"send", "sign"}
    BY <1>3 DEF JobIsReal
<1> QED
    BY <1>1, <1>2, <1>3

LEMMA SteadyJobs ==
    ASSUME RealInv, Steady, UNCHANGED job
    PROVE  \A g \in Handlers : JobIsReal(job[g])'
<1> TAKE g \in Handlers
<1>1. PICK j \in Job : j = job[g] /\ JobIsReal(j)
    BY DEF RealInv, RequestTypeOK
<1>2. JobIsReal(j)'
    BY <1>1, SteadyJob
<1>3. j = job'[g]
    BY <1>1
<1> QED
    BY <1>2, <1>3

LEMMA SeatedPersons == Persons \subseteq Seats
BY DEF Seats

(* The rows and DocuSeal's state stay: a handler begins, goes on or ends.    *)
LEMMA BeginReal ==
    ASSUME RealInv, RequestTypeOK', NEW h \in Handlers, NEW j, Begin(h, j), JobIsReal(j),
           j.kind = "send" => \A g \in Handlers : job[g].request # j.request,
           UNCHANGED <<requestVars, providerVars>>
    PROVE  RealInv'
<1>1. UNCHANGED <<status, signer, provided, submission, form, inbox>>
    BY DEF requestVars, providerVars
<1>2. \A g \in Handlers : job'[g] = IF g = h THEN j ELSE job[g]
    BY DEF RealInv, RequestTypeOK, Begin
<1>3. /\ SignaturesAreReal' /\ CompletedAwaitsNobody' /\ EventsAreReal'
      /\ FormsFollowSubmission' /\ SignersFollowStatus'
    BY <1>1 DEF RealInv, SignaturesAreReal, CompletedAwaitsNobody, EventsAreReal,
                FormsFollowSubmission, SignersFollowStatus, Pending
<1>4. SendsApart'
    BY <1>2 DEF RealInv, SendsApart
<1>5. \A g \in Handlers : JobIsReal(job'[g])
    BY <1>2 DEF RealInv
<1>6. \A g \in Handlers : JobIsReal(job[g])'
    BY <1>1, <1>5 DEF JobIsReal, Pending
<1> QED
    BY <1>3, <1>4, <1>6 DEF RealInv

LEMMA GoOnReal ==
    ASSUME RealInv, RequestTypeOK', NEW h \in Handlers,
           \/ job' = [job EXCEPT ![h] = NoJob]
           \/ /\ job[h].kind # "send"
              /\ \E at \in {"check", "ledger", "commit"} : job' = [job EXCEPT ![h].at = at]
           \/ UNCHANGED job,
           UNCHANGED <<requestVars, providerVars>>
    PROVE  RealInv'
<1>1. UNCHANGED <<status, signer, provided, submission, form, inbox>>
    BY DEF requestVars, providerVars
<1>2. \A g \in Handlers :
          \/ job'[g] = NoJob
          \/ /\ job'[g].kind = job[g].kind /\ job'[g].request = job[g].request
             /\ job'[g].to = job[g].to /\ job'[g].seats = job[g].seats
             /\ job[g].kind = "send" => job'[g].at = job[g].at
    BY DEF RealInv, RequestTypeOK, Job
<1>3. /\ SignaturesAreReal' /\ CompletedAwaitsNobody' /\ EventsAreReal'
      /\ FormsFollowSubmission' /\ SignersFollowStatus'
    BY <1>1 DEF RealInv, SignaturesAreReal, CompletedAwaitsNobody, EventsAreReal,
                FormsFollowSubmission, SignersFollowStatus, Pending
<1>4. NoJob.kind = "none" /\ NoJob.seats = {} /\ NoJob.to = "same"
    BY DEF NoJob
<1>5. SendsApart'
    BY <1>2, <1>4 DEF RealInv, SendsApart
<1>6. \A g \in Handlers : JobIsReal(job[g])'
    BY <1>1, <1>2, <1>4 DEF RealInv, JobIsReal, Pending
<1> QED
    BY <1>3, <1>5, <1>6 DEF RealInv

-----------------------------------------------------------------------------
LEMMA AgentReal ==
    ASSUME RealInv, RequestTypeOK', NEW h \in Handlers, Agent(h)
    PROVE  RealInv'
<1>1. ASSUME NEW r \in Requests, NEW who \in SUBSET Persons, SendRequest(h, r, who)
      PROVE  RealInv'
    <2> DEFINE j == [NoJob EXCEPT !.kind = "send", !.at = "ledger", !.request = r,
                                  !.to = "sent", !.seats = who \cup Countersigner]
    <2>1. Begin(h, j) /\ Unused(r) /\ UNCHANGED <<requestVars, providerVars>>
        BY <1>1 DEF SendRequest
    <2>2. j.kind = "send" /\ j.at = "ledger" /\ j.request = r /\ j.to = "sent"
        BY DEF NoJob
    <2>3. \A s \in Seats : signer[r][s] = "none"
        BY <2>1 DEF Unused, RealInv, SignersFollowStatus
    <2>4. \A g \in Handlers : job[g].request # r
        BY <2>1 DEF Unused
    <2> HIDE DEF j
    <2>5. JobIsReal(j)
        BY <2>2, <2>3 DEF JobIsReal
    <2> QED
        BY <2>1, <2>2, <2>4, <2>5, BeginReal
<1>2. ASSUME NEW r \in Requests, SendForProgress(h, r) PROVE RealInv'
    <2>1. people \ Seated \in SUBSET Persons
        BY DEF RealInv, RequestTypeOK
    <2> QED
        BY <1>1, <1>2, <2>1 DEF SendForProgress
<1>3. ASSUME NEW r \in Requests, NEW p \in Persons, SendForLatePerson(h, r, p)
      PROVE  RealInv'
    BY <1>1, <1>3 DEF SendForLatePerson
<1>4. ASSUME NEW r \in Requests, CancelRequest(h, r) PROVE RealInv'
    <2> DEFINE j == [NoJob EXCEPT !.kind = "cancel", !.at = "provider", !.request = r,
                                  !.to = "cancelled"]
    <2>1. Begin(h, j) /\ UNCHANGED <<requestVars, providerVars>>
        BY <1>4 DEF CancelRequest
    <2>2. j.kind = "cancel" /\ j.seats = {} /\ j.to = "cancelled"
        BY DEF NoJob
    <2> HIDE DEF j
    <2> QED
        BY <2>1, <2>2, BeginReal DEF JobIsReal
<1> QED
    BY <1>2, <1>3, <1>4 DEF Agent

LEMMA DeliverReal ==
    ASSUME RealInv, RequestTypeOK', NEW h \in Handlers, NEW e \in inbox, Deliver(h, e)
    PROVE  RealInv'
<1>1. e \in Events /\ e.request \in Requests
    BY EventType DEF RealInv, RequestTypeOK
<1>2. CASE OnFormCompleted(h, e)
    <2> DEFINE r == e.request
               others == Pending(r) \ {e.seat}
               mine == IF signer[r][e.seat] # "signed" THEN {e.seat} ELSE {}
               j == [NoJob EXCEPT !.kind = "sign", !.request = r, !.seats = mine,
                                  !.event = {e}]
               k == [j EXCEPT !.at = "commit",
                     !.to = IF status[r] = "sent" THEN "partially_signed" ELSE "same"]
               l == [j EXCEPT !.at = "check", !.to = "completed"]
               m == [j EXCEPT !.at = "commit"]
    <2>1. e.seat \in Seats /\ form[r][e.seat] = "signed" /\ signer[r][e.seat] # "none"
        BY <1>1, <1>2, EventType DEF OnFormCompleted, RealInv, EventsAreReal
    <2>2. others = {} => Pending(r) \subseteq mine
        BY DEF Pending
    <2>3. \/ Begin(h, k)
          \/ Begin(h, l) /\ others = {}
          \/ Begin(h, m)
        BY <1>2 DEF OnFormCompleted
    <2>4. \A x \in {k, l, m} : x.kind = "sign" /\ x.request = r /\ x.seats = mine
        BY DEF NoJob
    <2>5. k.to # "completed" /\ m.to # "completed"
        BY DEF NoJob
    <2>6. \A s \in mine : s = e.seat
        OBVIOUS
    <2> HIDE DEF mine, others, k, l, m
    <2>7. PICK x \in {k, l, m} : Begin(h, x) /\ (x.to = "completed" => others = {})
        BY <2>3, <2>5
    <2>8. JobIsReal(x)
        BY <1>1, <2>1, <2>2, <2>4, <2>6, <2>7 DEF JobIsReal
    <2>9. x.kind # "send"
        BY <2>4
    <2> QED
        BY <1>2, <2>7, <2>8, <2>9, BeginReal DEF OnFormCompleted
<1>3. CASE OnFormDeclined(h, e)
    <2>1. /\ UNCHANGED <<status, provided, submission, form, job>>
          /\ inbox' \subseteq inbox
        BY <1>3 DEF OnFormDeclined, Answer
    <2>2. \A r \in Requests, s \in Seats :
              \/ signer'[r][s] = signer[r][s]
              \/ signer[r][s] = "pending" /\ signer'[r][s] = "declined"
        BY <1>3 DEF OnFormDeclined, RealInv, RequestTypeOK
    <2>3. Steady
        BY <2>1, <2>2 DEF Steady, Pending
    <2>4. SignaturesAreReal'
        <3>1. \A r \in Requests, s \in Seats : signer'[r][s] = "signed" <=> signer[r][s] = "signed"
            BY <2>2
        <3>2. provided \subseteq Seats
            BY SeatedPersons DEF RealInv, RequestTypeOK
        <3> QED
            BY <2>1, <3>1, <3>2 DEF RealInv, SignaturesAreReal
    <2>5. CompletedAwaitsNobody'
        BY <2>1, <2>3 DEF RealInv, CompletedAwaitsNobody, Steady
    <2>6. EventsAreReal'
        <3> SUFFICES ASSUME NEW f \in inbox', f.type = "form.completed"
                     PROVE  form[f.request][f.seat] = "signed"
                            /\ signer'[f.request][f.seat] # "none"
            BY <2>1 DEF EventsAreReal
        <3>1. f \in inbox /\ f \in Events /\ f.request \in Requests /\ f.seat \in Seats
            BY <2>1, EventType DEF RealInv, RequestTypeOK
        <3> QED
            BY <2>2, <3>1 DEF RealInv, EventsAreReal
    <2>7. FormsFollowSubmission' /\ SignersFollowStatus' /\ SendsApart'
        BY <2>1, <2>2 DEF RealInv, FormsFollowSubmission, SignersFollowStatus, SendsApart
    <2>8. \A g \in Handlers : JobIsReal(job[g])'
        BY <2>1, <2>3, SteadyJobs
    <2> QED
        BY <2>1, <2>4, <2>5, <2>6, <2>7, <2>8 DEF RealInv
<1>4. CASE OnSubmissionEnded(h, e)
    <2> DEFINE j == [NoJob EXCEPT !.kind = "end", !.at = "check", !.request = e.request,
                 !.event = {e},
                 !.to = IF e.type = "submission.expired" THEN "expired" ELSE "cancelled"]
    <2>1. Begin(h, j) /\ UNCHANGED <<requestVars, providerVars>>
        BY <1>4 DEF OnSubmissionEnded
    <2>2. j.kind = "end" /\ j.seats = {} /\ j.to # "completed"
        BY DEF NoJob
    <2> HIDE DEF j
    <2> QED
        BY <2>1, <2>2, BeginReal DEF JobIsReal
<1>5. CASE OnIgnored(h, e)
    <2>1. UNCHANGED <<status, signer, provided, submission, form, job>> /\ inbox' \subseteq inbox
        BY <1>5 DEF OnIgnored, Answer, requestVars
    <2>2. /\ SignaturesAreReal' /\ CompletedAwaitsNobody' /\ EventsAreReal'
          /\ FormsFollowSubmission' /\ SignersFollowStatus' /\ SendsApart'
        BY <2>1 DEF RealInv, SignaturesAreReal, CompletedAwaitsNobody, EventsAreReal,
                    FormsFollowSubmission, SignersFollowStatus, SendsApart, Pending
    <2>3. \A g \in Handlers : JobIsReal(job[g])'
        BY <2>1 DEF RealInv, JobIsReal, Pending
    <2> QED
        BY <2>2, <2>3 DEF RealInv
<1> QED
    BY <1>2, <1>3, <1>4, <1>5 DEF Deliver

(* The end of a transaction that recorded signatures, or none.               *)
LEMMA WriteSignedReal ==
    ASSUME RealInv, RequestTypeOK', NEW h \in Handlers, Write(h), job[h].kind # "send"
    PROVE  RealInv'
<1> DEFINE j == job[h]  r == job[h].request
<1>1. j \in Job /\ JobIsReal(j)
    BY DEF RealInv, RequestTypeOK
<1>2. /\ UNCHANGED <<submission, form>>
      /\ \A q \in Requests, s \in Seats :
             signer'[q][s] = IF q = r /\ s \in j.seats THEN "signed" ELSE signer[q][s]
      /\ provided' = provided \cup (j.seats \cap Persons)
      /\ \A q \in Requests : status'[q] = IF q = r /\ j.to # "same" THEN j.to ELSE status[q]
      /\ inbox' \subseteq inbox
      /\ job' = [job EXCEPT ![h] = NoJob]
    BY DEF Write, Answer
<1>3. \A q \in Requests, s \in Seats :
          q = r /\ s \in j.seats => form[q][s] = "signed" /\ signer[q][s] # "none"
    BY <1>1 DEF JobIsReal
<1>4. Steady
    BY <1>2, <1>3 DEF Steady, Pending
<1>5. SignaturesAreReal'
    <2>1. \A q \in Requests, s \in Seats : signer'[q][s] = "signed" => form'[q][s] = "signed"
        BY <1>2, <1>3 DEF RealInv, SignaturesAreReal
    <2>2. ASSUME NEW p \in provided' PROVE \E q \in Requests : signer'[q][p] = "signed"
        <3>1. p \in Persons /\ p \in Seats
            BY SeatedPersons DEF RequestTypeOK
        <3>2. CASE p \in provided
            BY <1>2, <3>1, <3>2 DEF RealInv, SignaturesAreReal
        <3>3. CASE p \in j.seats
            <4>1. r \in Requests
                BY <1>1, <3>3 DEF JobIsReal
            <4> QED
                BY <1>2, <3>1, <3>3, <4>1
        <3> QED
            BY <1>2, <3>2, <3>3
    <2> QED
        BY <2>1, <2>2 DEF SignaturesAreReal
<1>6. CompletedAwaitsNobody'
    <2> SUFFICES ASSUME NEW q \in Requests, status'[q] = "completed", NEW s \in Seats,
                        signer'[q][s] = "pending"
                 PROVE  FALSE
        BY DEF CompletedAwaitsNobody, Pending
    <2>1. signer[q][s] = "pending" /\ ~(q = r /\ s \in j.seats)
        BY <1>2
    <2>2. CASE status[q] = "completed"
        BY <2>1, <2>2 DEF RealInv, CompletedAwaitsNobody, Pending
    <2>3. CASE status[q] # "completed"
        <3>1. q = r /\ j.to = "completed"
            BY <1>2, <2>3
        <3>2. j.kind = "sign"
            BY <1>1, <3>1 DEF JobIsReal
        <3> QED
            BY <1>1, <2>1, <3>1, <3>2 DEF JobIsReal, Pending
    <2> QED
        BY <2>2, <2>3
<1>7. EventsAreReal'
    <2> SUFFICES ASSUME NEW f \in inbox', f.type = "form.completed"
                 PROVE  form'[f.request][f.seat] = "signed"
                        /\ signer'[f.request][f.seat] # "none"
        BY DEF EventsAreReal
    <2>1. f \in inbox /\ f \in Events /\ f.request \in Requests /\ f.seat \in Seats
        BY <1>2, EventType DEF RealInv, RequestTypeOK
    <2> QED
        BY <1>2, <2>1 DEF RealInv, EventsAreReal
<1>8. FormsFollowSubmission'
    BY <1>2 DEF RealInv, FormsFollowSubmission
<1>9. SignersFollowStatus'
    <2>1. j.to # "none"
        BY <1>1 DEF Job, Terminal
    <2> QED
        BY <1>2, <1>3, <2>1 DEF RealInv, SignersFollowStatus
<1>10. \A g \in Handlers : job'[g] = IF g = h THEN NoJob ELSE job[g]
    BY <1>2 DEF RealInv, RequestTypeOK
<1>11. NoJob.kind = "none" /\ NoJob.seats = {} /\ NoJob.to = "same"
    BY DEF NoJob
<1>12. SendsApart'
    BY <1>10, <1>11 DEF RealInv, SendsApart
<1>13. ASSUME NEW g \in Handlers PROVE JobIsReal(job[g])'
    <2>1. CASE g = h
        BY <1>10, <1>11, <2>1 DEF JobIsReal
    <2>2. CASE g # h
        <3>1. PICK k \in Job : k = job[g] /\ JobIsReal(k)
            BY DEF RealInv, RequestTypeOK
        <3>2. JobIsReal(k)'
            BY <1>4, <3>1, SteadyJob
        <3>3. k = job'[g]
            BY <1>10, <2>2, <3>1
        <3> QED
            BY <3>2, <3>3
    <2> QED
        BY <2>1, <2>2
<1> QED
    BY <1>5, <1>6, <1>7, <1>8, <1>9, <1>12, <1>13 DEF RealInv

(* The end of a transaction that created a request: nobody had a seat on it. *)
LEMMA WriteSentReal ==
    ASSUME RealInv, RequestTypeOK', NEW h \in Handlers, Write(h), job[h].kind = "send",
           submission[job[h].request] # "none"
    PROVE  RealInv'
<1> DEFINE j == job[h]  r == job[h].request
<1>1. j \in Job /\ r \in Requests /\ j.to = "sent" /\ \A s \in Seats : signer[r][s] = "none"
    BY DEF RealInv, RequestTypeOK, JobIsReal
<1>2. /\ UNCHANGED <<provided, submission, form>>
      /\ \A q \in Requests, s \in Seats :
             /\ q # r => signer'[q][s] = signer[q][s]
             /\ q = r => signer'[q][s] = IF s \in j.seats THEN "pending" ELSE "none"
      /\ \A q \in Requests : status'[q] = IF q = r THEN "sent" ELSE status[q]
      /\ inbox' \subseteq inbox
      /\ job' = [job EXCEPT ![h] = NoJob]
    BY <1>1 DEF Write, Answer, RealInv, RequestTypeOK
<1>3. SignaturesAreReal'
    <2>1. \A q \in Requests, s \in Seats : signer'[q][s] = "signed" => form'[q][s] = "signed"
        BY <1>1, <1>2 DEF RealInv, SignaturesAreReal
    <2>2. ASSUME NEW p \in provided' PROVE \E q \in Requests : signer'[q][p] = "signed"
        <3>1. p \in Seats /\ p \in provided
            BY <1>2, SeatedPersons DEF RequestTypeOK
        <3>2. PICK q \in Requests : signer[q][p] = "signed"
            BY <3>1 DEF RealInv, SignaturesAreReal
        <3> QED
            BY <1>1, <1>2, <3>1, <3>2
    <2> QED
        BY <2>1, <2>2 DEF SignaturesAreReal
<1>4. CompletedAwaitsNobody'
    BY <1>1, <1>2 DEF RealInv, CompletedAwaitsNobody, Pending
<1>5. EventsAreReal'
    <2> SUFFICES ASSUME NEW f \in inbox', f.type = "form.completed"
                 PROVE  form'[f.request][f.seat] = "signed"
                        /\ signer'[f.request][f.seat] # "none"
        BY DEF EventsAreReal
    <2>1. f \in inbox /\ f \in Events /\ f.request \in Requests /\ f.seat \in Seats
        BY <1>2, EventType DEF RealInv, RequestTypeOK
    <2>2. form[f.request][f.seat] = "signed" /\ signer[f.request][f.seat] # "none"
        BY <2>1 DEF RealInv, EventsAreReal
    <2> QED
        BY <1>1, <1>2, <2>1, <2>2
<1>6. FormsFollowSubmission'
    BY <1>2 DEF RealInv, FormsFollowSubmission
<1>7. SignersFollowStatus'
    BY <1>2 DEF RealInv, SignersFollowStatus
<1>8. \A g \in Handlers : job'[g] = IF g = h THEN NoJob ELSE job[g]
    BY <1>2 DEF RealInv, RequestTypeOK
<1>9. NoJob.kind = "none" /\ NoJob.seats = {} /\ NoJob.to = "same"
    BY DEF NoJob
<1>10. SendsApart'
    BY <1>8, <1>9 DEF RealInv, SendsApart
<1>11. ASSUME NEW g \in Handlers PROVE JobIsReal(job[g])'
    <2>1. CASE g = h
        BY <1>8, <1>9, <2>1 DEF JobIsReal
    <2>2. CASE g # h
        <3> DEFINE k == job[g]
        <3>1. k \in Job /\ JobIsReal(k) /\ job'[g] = k
            BY <1>8, <2>2 DEF RealInv, RequestTypeOK
        <3>2. k.kind \in {"send", "sign"} => k.request \in Requests /\ k.request # r
            BY <1>1, <2>2, <3>1 DEF RealInv, SendsApart, JobIsReal
        <3>3. k.seats \subseteq Seats
            BY <3>1 DEF Job
        <3> QED
            BY <1>2, <3>1, <3>2, <3>3 DEF JobIsReal, Pending
    <2> QED
        BY <2>1, <2>2
<1> QED
    BY <1>3, <1>4, <1>5, <1>6, <1>7, <1>10, <1>11 DEF RealInv

LEMMA ContinueReal ==
    ASSUME RealInv, RequestTypeOK', NEW h \in Handlers, Continue(h)
    PROVE  RealInv'
<1>1. JobIsReal(job[h])
    BY DEF RealInv
<1>2. CASE CreateSubmission(h)
    <2>1. /\ UNCHANGED <<status, signer, provided, inbox, job>>
          /\ job[h].kind = "send"
          /\ submission[job[h].request] = "none"
        BY <1>2 DEF CreateSubmission, requestVars
    <2> DEFINE r == job[h].request
    <2>2. r \in Requests /\ \A s \in Seats : form[r][s] = "none"
        BY <1>1, <2>1 DEF JobIsReal, RealInv, FormsFollowSubmission, RequestTypeOK
    <2>3. \A q \in Requests : /\ q # r => form'[q] = form[q]
                             /\ submission'[q] = IF q = r THEN "open" ELSE submission[q]
        BY <1>2 DEF CreateSubmission, RealInv, RequestTypeOK
    <2>4. SignaturesAreReal'
        BY <2>1, <2>2, <2>3 DEF RealInv, SignaturesAreReal
    <2>5. CompletedAwaitsNobody' /\ SendsApart' /\ SignersFollowStatus'
        BY <2>1 DEF RealInv, CompletedAwaitsNobody, SendsApart, SignersFollowStatus, Pending
    <2>6. EventsAreReal'
        <3> SUFFICES ASSUME NEW f \in inbox, f.type = "form.completed"
                     PROVE  form'[f.request][f.seat] = "signed"
                            /\ signer[f.request][f.seat] # "none"
            BY <2>1 DEF EventsAreReal
        <3>1. f \in Events /\ f.request \in Requests /\ f.seat \in Seats
            BY EventType DEF RealInv, RequestTypeOK
        <3>2. form[f.request][f.seat] = "signed" /\ signer[f.request][f.seat] # "none"
            BY DEF RealInv, EventsAreReal
        <3> QED
            BY <2>2, <2>3, <3>1, <3>2
    <2>7. FormsFollowSubmission'
        BY <2>3 DEF RealInv, FormsFollowSubmission
    <2>8. Steady
        BY <2>1, <2>2, <2>3 DEF Steady, Pending
    <2>9. \A g \in Handlers : JobIsReal(job[g])'
        BY <2>1, <2>8, SteadyJobs
    <2> QED
        BY <2>4, <2>5, <2>6, <2>7, <2>9 DEF RealInv
<1>3. CASE ProviderCancel(h)
    <2>1. /\ UNCHANGED <<status, signer, provided, form>>
          /\ job[h].kind = "cancel"
        BY <1>3 DEF ProviderCancel, requestVars
    <2>2. \A q \in Requests : submission[q] # "none" => submission'[q] # "none"
        BY <1>3 DEF ProviderCancel, RealInv, RequestTypeOK
    <2>3. \A f \in inbox' : f.type = "form.completed" => f \in inbox
        BY <1>3 DEF ProviderCancel
    <2>4. \A g \in Handlers :
              /\ job'[g].kind = job[g].kind /\ job'[g].request = job[g].request
              /\ job'[g].to = job[g].to /\ job'[g].seats = job[g].seats
              /\ job[g].kind = "send" => job'[g].at = job[g].at
        BY <1>3 DEF ProviderCancel, RealInv, RequestTypeOK, Job
    <2>5. /\ SignaturesAreReal' /\ CompletedAwaitsNobody' /\ EventsAreReal'
          /\ FormsFollowSubmission' /\ SignersFollowStatus'
        BY <2>1, <2>2, <2>3 DEF RealInv, SignaturesAreReal, CompletedAwaitsNobody,
            EventsAreReal, FormsFollowSubmission, SignersFollowStatus, Pending
    <2>6. SendsApart'
        BY <2>4 DEF RealInv, SendsApart
    <2>7. \A g \in Handlers : JobIsReal(job[g])'
        BY <2>1, <2>4 DEF RealInv, JobIsReal, Pending
    <2> QED
        BY <2>5, <2>6, <2>7 DEF RealInv
<1>4. CASE Settle(h)
    <2>1. job[h].kind # "send"
        BY <1>1, <1>4 DEF Settle, JobIsReal
    <2> QED
        BY <1>4, <2>1, GoOnReal DEF Settle
<1>5. CASE LedgerStep(h)
    BY <1>5, GoOnReal DEF LedgerStep
<1>6. CASE CommitWithLedger(h)
    BY <1>6, WriteSentReal, WriteSignedReal DEF CommitWithLedger
<1>7. CASE CommitWithoutLedger(h)
    BY <1>1, <1>7, WriteSignedReal DEF CommitWithoutLedger, JobIsReal
<1>8. CASE Refused(h)
    BY <1>8, GoOnReal DEF Refused
<1> QED
    BY <1>2, <1>3, <1>4, <1>5, <1>6, <1>7, <1>8 DEF Continue

(* DocuSeal takes a signature of somebody seated, and never takes one back.  *)
LEMMA ProviderReal ==
    ASSUME RealInv, RequestTypeOK', Provider
    PROVE  RealInv'
<1>1. UNCHANGED <<status, signer, provided, job>>
    BY DEF Provider, SignForm, DeclineForm, ExpireSubmission, requestVars
<1>2. \A r \in Requests, s \in Seats :
          /\ form[r][s] = "signed" => form'[r][s] = "signed"
          /\ form[r][s] = "none" => form'[r][s] = "none"
    BY DEF Provider, SignForm, DeclineForm, ExpireSubmission, Reachable, RealInv,
           RequestTypeOK
<1>3. \A r \in Requests : submission[r] # "none" => submission'[r] # "none"
    BY DEF Provider, SignForm, DeclineForm, ExpireSubmission, RealInv, RequestTypeOK
<1>4. ASSUME NEW f \in inbox', f.type = "form.completed"
      PROVE  \/ f \in inbox
             \/ form'[f.request][f.seat] = "signed" /\ signer[f.request][f.seat] # "none"
    BY <1>4 DEF Provider, SignForm, DeclineForm, ExpireSubmission, Reachable, RealInv,
                RequestTypeOK
<1>5. Steady
    BY <1>1, <1>2 DEF Steady, Pending
<1>6. SignaturesAreReal'
    BY <1>1, <1>2 DEF RealInv, SignaturesAreReal
<1>7. CompletedAwaitsNobody' /\ SendsApart' /\ SignersFollowStatus'
    BY <1>1 DEF RealInv, CompletedAwaitsNobody, SendsApart, SignersFollowStatus, Pending
<1>8. EventsAreReal'
    <2> SUFFICES ASSUME NEW f \in inbox', f.type = "form.completed"
                 PROVE  form'[f.request][f.seat] = "signed"
                        /\ signer[f.request][f.seat] # "none"
        BY <1>1 DEF EventsAreReal
    <2>1. f.request \in Requests /\ f.seat \in Seats
        BY EventType DEF RequestTypeOK
    <2> QED
        BY <1>2, <1>4, <2>1 DEF RealInv, EventsAreReal
<1>9. FormsFollowSubmission'
    BY <1>2, <1>3 DEF RealInv, FormsFollowSubmission
<1>10. \A g \in Handlers : JobIsReal(job[g])'
    BY <1>1, <1>5, SteadyJobs
<1> QED
    BY <1>6, <1>7, <1>8, <1>9, <1>10 DEF RealInv

LEMMA InitReal == Init => RealInv
<1> SUFFICES ASSUME Init PROVE RealInv
    OBVIOUS
<1>1. \A g \in Handlers : JobIsReal(job[g])
    BY DEF Init, NoJob, JobIsReal
<1>2. SendsApart
    BY DEF Init, NoJob, SendsApart
<1> QED
    BY <1>1, <1>2, InitType
    DEF Init, RealInv, SignaturesAreReal, CompletedAwaitsNobody, EventsAreReal,
        FormsFollowSubmission, SignersFollowStatus, Pending

LEMMA NextReal == RealInv /\ [Next]_vars => RealInv'
<1> SUFFICES ASSUME RealInv, [Next]_vars PROVE RealInv'
    OBVIOUS
<1>1. RequestTypeOK'
    BY NextType DEF RealInv
<1>2. ASSUME NEW h \in Handlers, Agent(h) PROVE RealInv'
    BY <1>1, <1>2, AgentReal
<1>3. ASSUME NEW h \in Handlers, NEW p \in Purchases, BuyPack(h, p) PROVE RealInv'
    <2> DEFINE j == [NoJob EXCEPT !.kind = "buy", !.at = "ledger"]
    <2>1. Begin(h, j) /\ UNCHANGED <<requestVars, providerVars>>
        BY <1>3 DEF BuyPack
    <2>2. j.kind = "buy" /\ j.seats = {} /\ j.to = "same"
        BY DEF NoJob
    <2> HIDE DEF j
    <2> QED
        BY <1>1, <2>1, <2>2, BeginReal DEF JobIsReal
<1>4. ASSUME NEW h \in Handlers, NEW e \in inbox, Deliver(h, e) PROVE RealInv'
    BY <1>1, <1>4, DeliverReal
<1>5. ASSUME NEW h \in Handlers, Continue(h) PROVE RealInv'
    BY <1>1, <1>5, ContinueReal
<1>6. ASSUME NEW h \in Handlers, Fail(h) PROVE RealInv'
    BY <1>1, <1>6, GoOnReal DEF Fail
<1>7. CASE Provider
    BY <1>1, <1>7, ProviderReal
<1>8. CASE UNCHANGED vars
    <2>1. UNCHANGED <<job, requestVars, providerVars>>
        BY <1>8 DEF vars
    <2>2. /\ SignaturesAreReal' /\ CompletedAwaitsNobody' /\ EventsAreReal'
          /\ FormsFollowSubmission' /\ SignersFollowStatus' /\ SendsApart'
        BY <2>1 DEF RealInv, SignaturesAreReal, CompletedAwaitsNobody, EventsAreReal,
            FormsFollowSubmission, SignersFollowStatus, SendsApart, Pending,
            requestVars, providerVars
    <2>3. \A g \in Handlers : JobIsReal(job[g])'
        BY <2>1 DEF RealInv, JobIsReal, Pending, requestVars, providerVars
    <2> QED
        BY <1>1, <2>2, <2>3 DEF RealInv
<1> QED
    BY <1>2, <1>3, <1>4, <1>5, <1>6, <1>7, <1>8 DEF Next

LEMMA SpecReal == Spec => []RealInv
<1>1. Spec => [][Next]_vars /\ Init
    BY DEF Spec
<1> QED
    BY <1>1, InitReal, NextReal, PTL

(* What the database holds for signed was signed at DocuSeal and a provided  *)
(* requirement has a signature behind it, for any number of handlers: a      *)
(* rollback, a lost answer or an overlap forges nothing.                     *)
THEOREM SignaturesStayReal == Spec => []SignaturesAreReal
<1>1. RealInv => SignaturesAreReal
    BY DEF RealInv
<1> QED
    BY <1>1, SpecReal, PTL

(* A refusal on file, or on its way, is one DocuSeal has; DocuSeal takes     *)
(* none back.                                                                *)
RefusalsAreReal ==
    /\ \A r \in Requests, s \in Seats :
           signer[r][s] = "declined" => form[r][s] = "declined"
    /\ \A e \in inbox :
           e.type = "form.declined" => form[e.request][e.seat] = "declined"

(* What a step may do to refusals: report one that was sent, or send one.    *)
LEMMA RefusalStep ==
    ASSUME RealInv, RefusalsAreReal, RequestTypeOK',
           \A r \in Requests, s \in Seats :
               /\ form[r][s] = "declined" => form'[r][s] = "declined"
               /\ signer'[r][s] = "declined" =>
                     signer[r][s] = "declined" \/ form[r][s] = "declined",
           \A e \in inbox' : e.type = "form.declined" =>
               e \in inbox \/ form'[e.request][e.seat] = "declined"
    PROVE  RefusalsAreReal'
<1>1. \A e \in inbox : e.type = "form.declined" => e.request \in Requests /\ e.seat \in Seats
    BY EventType DEF RealInv, RequestTypeOK
<1> QED
    BY <1>1 DEF RefusalsAreReal

LEMMA NextRefusals == RealInv /\ RefusalsAreReal /\ [Next]_vars => RefusalsAreReal'
<1> SUFFICES ASSUME RealInv, RefusalsAreReal, [Next]_vars PROVE RefusalsAreReal'
    OBVIOUS
<1>1. RequestTypeOK'
    BY NextType DEF RealInv
<1>2. ASSUME UNCHANGED <<signer, form, inbox>> PROVE RefusalsAreReal'
    BY <1>2 DEF RefusalsAreReal
<1>3. ASSUME NEW h \in Handlers, Write(h)
      PROVE  RefusalsAreReal'
    <2>1. form' = form /\ inbox' \subseteq inbox
        BY <1>3 DEF Write, Answer
    <2>2. \A r \in Requests, s \in Seats :
              signer'[r][s] = "declined" => signer[r][s] = "declined"
        BY <1>3 DEF Write, RealInv, RequestTypeOK
    <2> QED
        BY <1>1, <2>1, <2>2, RefusalStep
<1>4. ASSUME NEW h \in Handlers, NEW e \in inbox, OnFormDeclined(h, e)
      PROVE  RefusalsAreReal'
    <2>1. form' = form /\ inbox' \subseteq inbox
        BY <1>4 DEF OnFormDeclined, Answer
    <2>2. form[e.request][e.seat] = "declined"
        BY <1>4 DEF OnFormDeclined, RefusalsAreReal
    <2>3. \A r \in Requests, s \in Seats :
              \/ signer'[r][s] = signer[r][s]
              \/ r = e.request /\ s = e.seat
        BY <1>4 DEF OnFormDeclined, RealInv, RequestTypeOK
    <2> QED
        BY <1>1, <2>1, <2>2, <2>3, RefusalStep
<1>5. ASSUME NEW h \in Handlers, NEW e \in inbox, OnIgnored(h, e)
      PROVE  RefusalsAreReal'
    BY <1>5 DEF OnIgnored, Answer, requestVars, RefusalsAreReal
<1>6. ASSUME NEW h \in Handlers, CreateSubmission(h)
      PROVE  RefusalsAreReal'
    <2> DEFINE q == job[h].request
    <2>1. signer' = signer /\ inbox' = inbox /\ submission[q] = "none" /\ job[h].kind = "send"
        BY <1>6 DEF CreateSubmission, requestVars
    <2>2. q \in Requests /\ \A s \in Seats : form[q][s] = "none"
        BY <2>1 DEF RealInv, JobIsReal, FormsFollowSubmission
    <2>3. \A r \in Requests : r # q => form'[r] = form[r]
        BY <1>6 DEF CreateSubmission, RealInv, RequestTypeOK
    <2> QED
        BY <1>1, <2>1, <2>2, <2>3, RefusalStep
<1>7. ASSUME NEW h \in Handlers, ProviderCancel(h)
      PROVE  RefusalsAreReal'
    BY <1>7 DEF ProviderCancel, requestVars, RefusalsAreReal
<1>8. CASE Provider
    <2>1. signer' = signer
        BY <1>8 DEF Provider, SignForm, DeclineForm, ExpireSubmission, requestVars
    <2>2. \A r \in Requests, s \in Seats : form[r][s] = "declined" => form'[r][s] = "declined"
        BY <1>8 DEF Provider, SignForm, DeclineForm, ExpireSubmission, Reachable, RealInv,
                    RequestTypeOK
    <2>3. \A e \in inbox' : e.type = "form.declined" =>
              e \in inbox \/ form'[e.request][e.seat] = "declined"
        BY <1>8 DEF Provider, SignForm, DeclineForm, ExpireSubmission, RealInv, RequestTypeOK
    <2> QED
        BY <1>1, <2>1, <2>2, <2>3, RefusalStep
<1>9. ASSUME NEW h \in Handlers,
             \/ Agent(h)
             \/ \E p \in Purchases : BuyPack(h, p)
             \/ \E e \in inbox : OnFormCompleted(h, e) \/ OnSubmissionEnded(h, e)
             \/ Settle(h) \/ LedgerStep(h) \/ Refused(h) \/ Fail(h)
      PROVE  UNCHANGED <<signer, form, inbox>>
    BY <1>9 DEF Agent, SendForProgress, SendForLatePerson, SendRequest, CancelRequest,
                BuyPack, OnFormCompleted, OnSubmissionEnded, Settle, LedgerStep, Refused,
                Fail, requestVars, providerVars
<1>10. CASE UNCHANGED vars
    BY <1>2, <1>10 DEF vars, requestVars, providerVars
<1> QED
    BY <1>2, <1>3, <1>4, <1>5, <1>6, <1>7, <1>8, <1>9, <1>10
    DEF Next, Deliver, Continue, CommitWithLedger, CommitWithoutLedger

(* Nobody is left out of a completed request, for any number of handlers     *)
(* whose signatures, refusals and cancellations overlap: each of its seats   *)
(* is signed, in the database and at DocuSeal, or was refused there.         *)
THEOREM CompletedIsSignedOrRefused == Spec => []CompletedIsAnswered
<1>1. Init => RefusalsAreReal
    BY DEF Init, RefusalsAreReal
<1>2. RealInv /\ RefusalsAreReal => CompletedIsAnswered
    BY DEF RealInv, RequestTypeOK, SignaturesAreReal, CompletedAwaitsNobody, Pending,
           RefusalsAreReal, CompletedIsAnswered
<1>3. Spec => [][Next]_vars /\ Init
    BY DEF Spec
<1> QED
    BY <1>1, <1>2, <1>3, SpecReal, NextRefusals, PTL

-----------------------------------------------------------------------------
(* No two handlers work on one request: what locking its row would give, and  *)
(* what the accounts below suppose, since the guard of a settlement is read   *)
(* without a lock.  Handlers of different requests overlap as they may.       *)
RequestsApart ==
    \A g, h \in Handlers :
        (g # h /\ job[g].request = job[h].request) => job[g].request = NoRequest

OpenStatus == {"sent", "partially_signed"}

(* A request reserves at most one credit and settles it at most once.        *)
CountsAreSingle ==
    \A r \in Requests :
        LET settled == count[r]["consume"] + count[r]["release"] IN
        /\ settled <= count[r]["reserve"] /\ count[r]["reserve"] <= settled + 1
        /\ status[r] = "none" =>
              count[r]["reserve"] = 0 /\ count[r]["consume"] = 0 /\ count[r]["release"] = 0

(* What a handler is about to write, and what its ledger operation is.       *)
JobHoldsCredit(h) ==
    LET j == job[h] IN
    /\ j.at = "ledger" <=> pc[h] # "idle"
    /\ j.kind = "none" => j.at = "idle"
    /\ j.kind = "buy" => j.at = "ledger" /\ op[h].on = {} /\ j.to = "same"
    /\ j.kind = "send" =>
          /\ j.request \in Requests
          /\ j.at = "ledger" /\ status[j.request] = "none"
          /\ op[h].kind = "reserve" /\ op[h].on = {j.request}
    /\ j.kind \in {"cancel", "sign", "end"} =>
          /\ j.request \in Requests
          /\ j.to \in Terminal \cup {"same", "partially_signed"}
          /\ j.to = "partially_signed" => status[j.request] = "sent"
          /\ j.to \notin Terminal => j.at = "commit"
          /\ j.at = "commit" /\ j.to \in Terminal => ~Ledger!LiveReserve(j.request)
          /\ j.at = "ledger" =>
                /\ Ledger!LiveReserve(j.request)
                /\ op[h].kind \in {"consume", "release"} /\ op[h].on = {j.request}

RowsHoldCredit == LiveHoldsCredit /\ CountsAreSingle

CreditInv == RowsHoldCredit /\ \A h \in Handlers : JobHoldsCredit(h)

(* What the steps below suppose of a state. *)
Ground == TypeOK /\ RealInv /\ RequestsApart

(* A handler is left as it is while its own request is. *)
LEMMA JobStays ==
    ASSUME NEW g \in Handlers, JobHoldsCredit(g), job'[g] = job[g], pc'[g] = pc[g],
           op'[g] = op[g],
           job[g].request \in Requests =>
               /\ status'[job[g].request] = status[job[g].request]
               /\ count'[job[g].request] = count[job[g].request]
    PROVE  JobHoldsCredit(g)'
BY DEF JobHoldsCredit, Ledger!LiveReserve

LEMMA QuietCredit ==
    ASSUME CreditInv, UNCHANGED <<status, count, job, pc, op>>
    PROVE  CreditInv'
<1>1. RowsHoldCredit'
    BY DEF CreditInv, RowsHoldCredit, LiveHoldsCredit, CountsAreSingle, Ledger!LiveReserve
<1>2. ASSUME NEW h \in Handlers PROVE JobHoldsCredit(h)'
    BY JobStays DEF CreditInv
<1> QED
    BY <1>1, <1>2 DEF CreditInv

(* A handler begins, goes on or gives up: only what it is doing changes.     *)
LEMMA RunsCredit ==
    ASSUME CreditInv, NEW h \in Handlers, UNCHANGED <<status, count>>,
           \A g \in Handlers : g # h => job'[g] = job[g] /\ pc'[g] = pc[g] /\ op'[g] = op[g],
           JobHoldsCredit(h)'
    PROVE  CreditInv'
<1>1. RowsHoldCredit'
    BY DEF CreditInv, RowsHoldCredit, LiveHoldsCredit, CountsAreSingle, Ledger!LiveReserve
<1>2. ASSUME NEW g \in Handlers, g # h PROVE JobHoldsCredit(g)'
    BY <1>2, JobStays DEF CreditInv
<1> QED
    BY <1>1, <1>2 DEF CreditInv

-----------------------------------------------------------------------------
(* What a handler begins. *)
LEMMA StartCredit ==
    ASSUME Ground, CreditInv, NEW h \in Handlers, NEW j, NEW o, Begin(h, j), Ledger!Start(h, o)
    PROVE  /\ job'[h] = j /\ pc'[h] = "lock" /\ op'[h] = o /\ UNCHANGED count
           /\ \A g \in Handlers : g # h => job'[g] = job[g] /\ pc'[g] = pc[g] /\ op'[g] = op[g]
BY DEF Ground, TypeOK, RequestTypeOK, Ledger!TypeOK, Begin, Ledger!Start

LEMMA SendCredit ==
    ASSUME Ground, CreditInv, NEW h \in Handlers, NEW r \in Requests,
           NEW who \in SUBSET Persons, SendRequest(h, r, who)
    PROVE  CreditInv'
<1> DEFINE j == [NoJob EXCEPT !.kind = "send", !.at = "ledger", !.request = r,
                              !.to = "sent", !.seats = who \cup Countersigner]
           o == [kind |-> "reserve", amount |-> Ledger!Cardinality({r}), on |-> {r},
                 txn |-> {}]
<1>1. Begin(h, j) /\ Ledger!Start(h, o) /\ Unused(r)
    BY DEF SendRequest, Ledger!ReserveCredits
<1>2. /\ j.kind = "send" /\ j.at = "ledger" /\ j.request = r
      /\ j.seats = who \cup Countersigner
    BY DEF NoJob
<1>3. o.kind = "reserve" /\ o.on = {r}
    OBVIOUS
<1> HIDE DEF j, o
<1>4. /\ job'[h] = j /\ pc'[h] = "lock" /\ op'[h] = o /\ UNCHANGED count
      /\ \A g \in Handlers : g # h => job'[g] = job[g] /\ pc'[g] = pc[g] /\ op'[g] = op[g]
    BY <1>1, StartCredit
<1>5. UNCHANGED status
    BY DEF SendRequest, requestVars
<1>6. JobHoldsCredit(h)'
    BY <1>1, <1>2, <1>3, <1>4, <1>5 DEF JobHoldsCredit, Unused
<1> QED
    BY <1>4, <1>5, <1>6, RunsCredit

LEMMA AgentCredit ==
    ASSUME Ground, CreditInv, NEW h \in Handlers, Agent(h)
    PROVE  CreditInv'
<1>1. ASSUME NEW r \in Requests, SendForProgress(h, r) PROVE CreditInv'
    <2>1. people \ Seated \in SUBSET Persons
        BY DEF Ground, RealInv, RequestTypeOK
    <2> QED
        BY <1>1, <2>1, SendCredit DEF SendForProgress
<1>2. ASSUME NEW r \in Requests, NEW p \in Persons, SendForLatePerson(h, r, p)
      PROVE  CreditInv'
    BY <1>2, SendCredit DEF SendForLatePerson
<1>3. ASSUME NEW r \in Requests, CancelRequest(h, r) PROVE CreditInv'
    <2> DEFINE j == [NoJob EXCEPT !.kind = "cancel", !.at = "provider", !.request = r,
                                  !.to = "cancelled"]
    <2>1. Begin(h, j) /\ UNCHANGED <<status, signer, people, pc, op, count>>
        BY <1>3 DEF CancelRequest, requestVars, ledgerVars
    <2>2. j.kind = "cancel" /\ j.at = "provider" /\ j.request = r /\ j.to = "cancelled"
        BY DEF NoJob
    <2>3. NoJob.at = "idle"
        BY DEF NoJob
    <2> HIDE DEF j, NoJob
    <2>4. job'[h] = j /\ \A g \in Handlers : g # h => job'[g] = job[g]
        BY <2>1 DEF Begin, Ground, RealInv, RequestTypeOK
    <2>5. pc[h] = "idle"
        BY <2>1, <2>3 DEF Begin, Idle, CreditInv, JobHoldsCredit
    <2>6. JobHoldsCredit(h)'
        BY <2>1, <2>2, <2>4, <2>5 DEF JobHoldsCredit, Terminal
    <2> QED
        BY <2>1, <2>4, <2>6, RunsCredit
<1> QED
    BY <1>1, <1>2, <1>3 DEF Agent

LEMMA BuyCredit ==
    ASSUME Ground, CreditInv, NEW h \in Handlers, NEW p \in Purchases, BuyPack(h, p)
    PROVE  CreditInv'
<1> DEFINE j == [NoJob EXCEPT !.kind = "buy", !.at = "ledger"]
           o == [kind |-> "purchase", amount |-> Pack, on |-> {}, txn |-> {p}]
<1>1. Begin(h, j) /\ Ledger!Start(h, o) /\ UNCHANGED <<status, signer, people>>
    BY DEF BuyPack, Ledger!PurchaseCredits, requestVars
<1>2. j.kind = "buy" /\ j.at = "ledger" /\ j.to = "same" /\ o.on = {}
    BY DEF NoJob
<1> HIDE DEF j, o
<1>3. /\ job'[h] = j /\ pc'[h] = "lock" /\ op'[h] = o /\ UNCHANGED count
      /\ \A g \in Handlers : g # h => job'[g] = job[g] /\ pc'[g] = pc[g] /\ op'[g] = op[g]
    BY <1>1, StartCredit
<1>4. JobHoldsCredit(h)'
    BY <1>2, <1>3 DEF JobHoldsCredit
<1> QED
    BY <1>1, <1>3, <1>4, RunsCredit

LEMMA DeliverCredit ==
    ASSUME Ground, CreditInv, NEW h \in Handlers, NEW e \in inbox, Deliver(h, e)
    PROVE  CreditInv'
<1>1. e \in Events /\ e.request \in Requests
    BY EventType DEF Ground, RealInv, RequestTypeOK
<1>2. NoJob.at = "idle"
    BY DEF NoJob
<1>3. ASSUME NEW j, Begin(h, j), UNCHANGED <<status, signer, people, pc, op, count>>,
             j.kind \in {"sign", "end"}, j.at \in {"check", "commit"}, j.request = e.request,
             j.to \in Terminal \cup {"same", "partially_signed"},
             j.to = "partially_signed" => status[e.request] = "sent",
             j.to \in Terminal <=> j.at = "check"
      PROVE  CreditInv'
    <2>1. job'[h] = j /\ \A g \in Handlers : g # h => job'[g] = job[g]
        BY <1>3 DEF Begin, Ground, RealInv, RequestTypeOK
    <2>2. pc[h] = "idle"
        BY <1>2, <1>3 DEF Begin, Idle, CreditInv, JobHoldsCredit
    <2>3. JobHoldsCredit(h)'
        BY <1>1, <1>3, <2>1, <2>2 DEF JobHoldsCredit
    <2> QED
        BY <1>3, <2>1, <2>3, RunsCredit
<1>4. CASE OnFormCompleted(h, e)
    <2> DEFINE r == e.request
               mine == IF signer[r][e.seat] # "signed" THEN {e.seat} ELSE {}
               j == [NoJob EXCEPT !.kind = "sign", !.request = r, !.seats = mine,
                                  !.event = {e}]
               k == [j EXCEPT !.at = "commit",
                     !.to = IF status[r] = "sent" THEN "partially_signed" ELSE "same"]
               l == [j EXCEPT !.at = "check", !.to = "completed"]
               m == [j EXCEPT !.at = "commit"]
    <2>1. Begin(h, k) \/ Begin(h, l) \/ Begin(h, m)
        BY <1>4 DEF OnFormCompleted
    <2>2. UNCHANGED <<status, signer, people, pc, op, count>>
        BY <1>4 DEF OnFormCompleted, requestVars, ledgerVars
    <2>3. /\ k.kind = "sign" /\ k.at = "commit" /\ k.request = r
          /\ k.to \in {"same", "partially_signed"}
          /\ k.to = "partially_signed" => status[r] = "sent"
        BY DEF NoJob
    <2>4. l.kind = "sign" /\ l.at = "check" /\ l.request = r /\ l.to = "completed"
        BY DEF NoJob
    <2>5. m.kind = "sign" /\ m.at = "commit" /\ m.request = r /\ m.to = "same"
        BY DEF NoJob
    <2> HIDE DEF k, l, m
    <2>6. CASE Begin(h, k)
        BY <1>3, <2>2, <2>3, <2>6 DEF Terminal
    <2>7. CASE Begin(h, l)
        BY <1>3, <2>2, <2>4, <2>7 DEF Terminal
    <2>8. CASE Begin(h, m)
        BY <1>3, <2>2, <2>5, <2>8 DEF Terminal
    <2> QED
        BY <2>1, <2>6, <2>7, <2>8
<1>5. CASE OnFormDeclined(h, e)
    BY <1>5, QuietCredit DEF OnFormDeclined, ledgerVars
<1>6. CASE OnSubmissionEnded(h, e)
    <2> DEFINE j == [NoJob EXCEPT !.kind = "end", !.at = "check", !.request = e.request,
                 !.event = {e},
                 !.to = IF e.type = "submission.expired" THEN "expired" ELSE "cancelled"]
    <2>1. Begin(h, j) /\ UNCHANGED <<status, signer, people, pc, op, count>>
        BY <1>6 DEF OnSubmissionEnded, requestVars, ledgerVars
    <2>2. /\ j.kind = "end" /\ j.at = "check" /\ j.request = e.request
          /\ j.to \in {"expired", "cancelled"}
        BY DEF NoJob
    <2> HIDE DEF j
    <2> QED
        BY <1>3, <2>1, <2>2 DEF Terminal
<1>7. CASE OnIgnored(h, e)
    BY <1>7, QuietCredit DEF OnIgnored, requestVars, ledgerVars
<1> QED
    BY <1>4, <1>5, <1>6, <1>7 DEF Deliver

-----------------------------------------------------------------------------
(* A transaction ends: what it wrote is seen, with its ledger entry if any.  *)
LEMMA EndCredit ==
    ASSUME Ground, CreditInv, NEW h \in Handlers,
           job' = [job EXCEPT ![h] = NoJob], pc' = [pc EXCEPT ![h] = "idle"],
           op' = [op EXCEPT ![h] = op'[h]], RowsHoldCredit',
           \A q \in Requests : q # job[h].request => status'[q] = status[q] /\ count'[q] = count[q]
    PROVE  CreditInv'
<1>1. \A g \in Handlers : g # h => job'[g] = job[g] /\ pc'[g] = pc[g] /\ op'[g] = op[g]
    BY DEF Ground, TypeOK, RequestTypeOK, Ledger!TypeOK
<1>2. job'[h] = NoJob /\ pc'[h] = "idle"
    BY DEF Ground, TypeOK, RequestTypeOK, Ledger!TypeOK
<1>3. JobHoldsCredit(h)'
    BY <1>2 DEF JobHoldsCredit, NoJob
<1>4. ASSUME NEW g \in Handlers, g # h PROVE JobHoldsCredit(g)'
    <2>1. job[g].request \in Requests => job[g].request # job[h].request
        BY <1>4, SignatureAssumption DEF Ground, RequestsApart
    <2> QED
        BY <1>1, <1>4, <2>1, JobStays DEF CreditInv
<1> QED
    BY <1>3, <1>4 DEF CreditInv

(* One entry more of one kind in a request's counts. *)
LEMMA OneMore ==
    ASSUME NEW c \in [{"reserve", "consume", "release"} -> Nat],
           NEW k \in {"reserve", "consume", "release"},
           NEW d, d = [c EXCEPT ![k] = @ + 1]
    PROVE  /\ d["reserve"] = IF k = "reserve" THEN c["reserve"] + 1 ELSE c["reserve"]
           /\ d["consume"] = IF k = "consume" THEN c["consume"] + 1 ELSE c["consume"]
           /\ d["release"] = IF k = "release" THEN c["release"] + 1 ELSE c["release"]
           /\ c["reserve"] \in Nat /\ c["consume"] \in Nat /\ c["release"] \in Nat
OBVIOUS

(* The journal with the entry of a handler's operation. *)
Counted(h) ==
    \A q \in Requests : count'[q] =
        IF q \in op[h].on THEN [count[q] EXCEPT ![op[h].kind] = @ + 1] ELSE count[q]

(* What a commit leaves of the rows, by what the handler was.                *)
LEMMA WriteSentRows ==
    ASSUME Ground, CreditInv, NEW h \in Handlers, Write(h), job[h].kind = "send",
           Counted(h)
    PROVE  /\ RowsHoldCredit'
           /\ \A q \in Requests : q # job[h].request =>
                  status'[q] = status[q] /\ count'[q] = count[q]
<1> DEFINE j == job[h]  r == job[h].request
<1>1. /\ status[r] = "none" /\ op[h].kind = "reserve" /\ op[h].on = {r}
    BY DEF CreditInv, JobHoldsCredit
<1>2. j \in Job /\ r \in Requests /\ j.to = "sent"
    BY DEF Ground, RealInv, RequestTypeOK, JobIsReal
<1>3. \A q \in Requests : status'[q] = IF q = r THEN "sent" ELSE status[q]
    BY <1>2 DEF Write, Ground, RealInv, RequestTypeOK
<1>4. \A q \in Requests : q # r => count'[q] = count[q] /\ status'[q] = status[q]
    BY <1>1, <1>3 DEF Counted
<1>5. count[r]["reserve"] = 0 /\ count[r]["consume"] = 0 /\ count[r]["release"] = 0
    BY <1>1, <1>2 DEF CreditInv, RowsHoldCredit, CountsAreSingle
<1>6. /\ count'[r]["reserve"] = 1 /\ count'[r]["consume"] = 0 /\ count'[r]["release"] = 0
    <2>1. count'[r] = [count[r] EXCEPT ![op[h].kind] = @ + 1]
        BY <1>1, <1>2 DEF Counted
    <2>2. count[r] \in [{"reserve", "consume", "release"} -> Nat]
        BY <1>2 DEF Ground, TypeOK, Ledger!TypeOK, Ledger!RequestKinds
    <2>3. count'[r]["reserve"] = count[r]["reserve"] + 1
          /\ count'[r]["consume"] = count[r]["consume"]
          /\ count'[r]["release"] = count[r]["release"]
        BY <1>1, <2>1, <2>2, OneMore
    <2> QED
        BY <1>5, <2>3
<1>7. LiveHoldsCredit'
    <2> SUFFICES ASSUME NEW q \in Requests
                 PROVE  status'[q] \in OpenStatus <=> Ledger!LiveReserve(q)'
        BY DEF LiveHoldsCredit, OpenStatus
    <2>1. CASE q = r
        BY <1>3, <1>6, <2>1 DEF OpenStatus, Ledger!LiveReserve
    <2>2. CASE q # r
        <3>1. count'[q] = count[q] /\ status'[q] = status[q]
            BY <1>4, <2>2
        <3>2. status[q] \in OpenStatus <=> Ledger!LiveReserve(q)
            BY DEF CreditInv, RowsHoldCredit, LiveHoldsCredit, OpenStatus
        <3> QED
            BY <3>1, <3>2 DEF Ledger!LiveReserve
    <2> QED
        BY <2>1, <2>2
<1>8. CountsAreSingle'
    <2> SUFFICES ASSUME NEW q \in Requests
                 PROVE  /\ count'[q]["consume"] + count'[q]["release"] <= count'[q]["reserve"]
                        /\ count'[q]["reserve"] <= count'[q]["consume"] + count'[q]["release"] + 1
                        /\ status'[q] = "none" =>
                              /\ count'[q]["reserve"] = 0
                              /\ count'[q]["consume"] = 0 /\ count'[q]["release"] = 0
        BY DEF CountsAreSingle
    <2>1. CASE q = r
        BY <1>3, <1>6, <2>1
    <2>2. CASE q # r
        <3>1. count'[q] = count[q] /\ status'[q] = status[q]
            BY <1>4, <2>2
        <3>2. /\ count[q]["consume"] + count[q]["release"] <= count[q]["reserve"]
              /\ count[q]["reserve"] <= count[q]["consume"] + count[q]["release"] + 1
              /\ status[q] = "none" =>
                    /\ count[q]["reserve"] = 0
                    /\ count[q]["consume"] = 0 /\ count[q]["release"] = 0
            BY DEF CreditInv, RowsHoldCredit, CountsAreSingle
        <3> QED
            BY <3>1, <3>2
    <2> QED
        BY <2>1, <2>2
<1> QED
    BY <1>4, <1>7, <1>8 DEF RowsHoldCredit

LEMMA WriteEndsRows ==
    ASSUME Ground, CreditInv, NEW h \in Handlers, Write(h), ~Idle(h),
           job[h].kind # "send",
           \/ job[h].at = "commit" /\ UNCHANGED count
           \/ job[h].at = "ledger" /\ Counted(h)
    PROVE  /\ RowsHoldCredit'
           /\ \A q \in Requests : q # job[h].request =>
                  status'[q] = status[q] /\ count'[q] = count[q]
<1> DEFINE j == job[h]  r == job[h].request
<1>1. j \in Job /\ JobHoldsCredit(h)
    BY DEF Ground, RealInv, RequestTypeOK, CreditInv
<1>2. \A q \in Requests : status'[q] = IF q = r /\ j.to # "same" THEN j.to ELSE status[q]
    BY DEF Write
<1>4. \A q \in Requests : count[q] \in [{"reserve", "consume", "release"} -> Nat]
    BY DEF Ground, TypeOK, Ledger!TypeOK, Ledger!RequestKinds
<1>5. CASE j.kind = "buy"
    <2>1. \A q \in Requests : status'[q] = status[q]
        BY <1>1, <1>2, <1>5 DEF JobHoldsCredit
    <2>2. \A q \in Requests : count'[q] = count[q]
        BY <1>1, <1>5 DEF JobHoldsCredit, Counted
    <2> QED
        BY <2>1, <2>2 DEF CreditInv, RowsHoldCredit, LiveHoldsCredit, CountsAreSingle,
                          Ledger!LiveReserve
<1>6. CASE j.kind \in {"cancel", "sign", "end"}
    <2>1. /\ r \in Requests
          /\ j.to \in Terminal \cup {"same", "partially_signed"}
          /\ j.to = "partially_signed" => status[r] = "sent"
          /\ j.to \notin Terminal => j.at = "commit"
          /\ j.at = "commit" /\ j.to \in Terminal => ~Ledger!LiveReserve(r)
          /\ j.at = "ledger" =>
                /\ Ledger!LiveReserve(r)
                /\ op[h].kind \in {"consume", "release"} /\ op[h].on = {r}
        BY <1>1, <1>6 DEF JobHoldsCredit
    <2>3. \A q \in Requests : status'[q] = "none" => status[q] = "none"
        BY <1>2, <2>1 DEF Terminal
    <2>5. CASE j.at = "commit"
        <3>1. UNCHANGED count
            BY <2>5
        <3>2. CountsAreSingle'
            BY <2>3, <3>1 DEF CreditInv, RowsHoldCredit, CountsAreSingle
        <3>3. LiveHoldsCredit'
            <4>1. ASSUME NEW q \in Requests
                  PROVE  status'[q] \in OpenStatus <=> Ledger!LiveReserve(q)
                <5>1. status[q] \in OpenStatus <=> Ledger!LiveReserve(q)
                    BY DEF CreditInv, RowsHoldCredit, LiveHoldsCredit, OpenStatus
                <5>2. CASE q = r /\ j.to \in Terminal
                    BY <1>2, <2>1, <2>5, <5>2 DEF OpenStatus, Terminal
                <5>3. CASE q = r /\ j.to = "partially_signed"
                    BY <1>2, <2>1, <5>1, <5>3 DEF OpenStatus
                <5>4. CASE q # r \/ j.to = "same"
                    BY <1>2, <5>1, <5>4
                <5> QED
                    BY <2>1, <5>2, <5>3, <5>4
            <4> QED
                BY <3>1, <4>1 DEF LiveHoldsCredit, OpenStatus, Ledger!LiveReserve
        <3> QED
            BY <1>2, <3>1, <3>2, <3>3 DEF RowsHoldCredit
    <2>6. CASE j.at = "ledger"
        <3>1. /\ Ledger!LiveReserve(r) /\ j.to \in Terminal
              /\ op[h].kind \in {"consume", "release"} /\ op[h].on = {r}
            BY <2>1, <2>6
        <3>2. \A q \in Requests : q # r => count'[q] = count[q]
            BY <2>6, <3>1 DEF Counted
        <3>3. /\ count'[r]["reserve"] = count[r]["reserve"]
              /\ count'[r]["consume"] + count'[r]["release"]
                    = count[r]["consume"] + count[r]["release"] + 1
            <4>1. count'[r] = [count[r] EXCEPT ![op[h].kind] = @ + 1]
                BY <2>1, <2>6, <3>1 DEF Counted
            <4> QED
                BY <1>4, <2>1, <3>1, <4>1, OneMore
        <3>4. /\ count[r]["reserve"] = count[r]["consume"] + count[r]["release"] + 1
            BY <1>4, <2>1, <3>1
            DEF CreditInv, RowsHoldCredit, CountsAreSingle, Ledger!LiveReserve
        <3>5. /\ count'[r]["consume"] \in Nat /\ count'[r]["release"] \in Nat
              /\ count'[r]["reserve"] = count'[r]["consume"] + count'[r]["release"]
            <4>1. count'[r] = [count[r] EXCEPT ![op[h].kind] = @ + 1]
                BY <2>1, <2>6, <3>1 DEF Counted
            <4> QED
                BY <1>4, <2>1, <3>1, <3>3, <3>4, <4>1, OneMore
        <3>6. status'[r] \in Terminal
            BY <1>2, <2>1, <3>1 DEF Terminal
        <3>7. CountsAreSingle'
            BY <1>2, <2>3, <3>2, <3>5, <3>6
            DEF CreditInv, RowsHoldCredit, CountsAreSingle, Terminal
        <3>8. LiveHoldsCredit'
            BY <1>2, <3>2, <3>5, <3>6
            DEF CreditInv, RowsHoldCredit, LiveHoldsCredit, Ledger!LiveReserve, Terminal
        <3> QED
            BY <1>2, <3>2, <3>7, <3>8 DEF RowsHoldCredit
    <2> QED
        BY <2>5, <2>6
<1>7. j.kind # "none"
    BY <1>1 DEF JobHoldsCredit
<1> QED
    BY <1>1, <1>5, <1>6, <1>7 DEF Job

LEMMA CommitCredit ==
    ASSUME Ground, CreditInv, NEW h \in Handlers,
           CommitWithLedger(h) \/ CommitWithoutLedger(h)
    PROVE  CreditInv'
<1>1. ~Idle(h)
    BY DEF CommitWithLedger, CommitWithoutLedger, Idle, NoJob
<1>2. job' = [job EXCEPT ![h] = NoJob] /\ Write(h)
    BY DEF CommitWithLedger, CommitWithoutLedger, Write
<1>3. CASE CommitWithLedger(h)
    <2>1. /\ job[h].at = "ledger"
          /\ Counted(h)
          /\ pc' = [pc EXCEPT ![h] = "idle"]
          /\ op' = [op EXCEPT ![h] = op'[h]]
        BY <1>3 DEF Counted, CommitWithLedger, Ledger!Commit, Ledger!Finish, Ground, TypeOK,
           Ledger!TypeOK
    <2>2. /\ RowsHoldCredit'
          /\ \A q \in Requests : q # job[h].request =>
                 status'[q] = status[q] /\ count'[q] = count[q]
        BY <1>1, <1>2, <2>1, WriteSentRows, WriteEndsRows
    <2> QED
        BY <1>2, <2>1, <2>2, EndCredit
<1>4. CASE CommitWithoutLedger(h)
    <2>1. job[h].at = "commit" /\ UNCHANGED <<count, pc, op>>
        BY <1>4 DEF CommitWithoutLedger, ledgerVars
    <2>2. job[h].kind # "send" /\ pc[h] = "idle"
        BY <2>1 DEF CreditInv, JobHoldsCredit
    <2>3. /\ RowsHoldCredit'
          /\ \A q \in Requests : q # job[h].request =>
                 status'[q] = status[q] /\ count'[q] = count[q]
        BY <1>1, <1>2, <2>1, <2>2, WriteEndsRows
    <2>4. pc' = [pc EXCEPT ![h] = "idle"] /\ op' = [op EXCEPT ![h] = op'[h]]
        BY <2>1, <2>2 DEF Ground, TypeOK, Ledger!TypeOK
    <2> QED
        BY <1>2, <2>3, <2>4, EndCredit
<1> QED
    BY <1>3, <1>4

LEMMA GiveUpCredit ==
    ASSUME Ground, CreditInv, NEW h \in Handlers, Refused(h) \/ Fail(h)
    PROVE  CreditInv'
<1>1. UNCHANGED <<status, count>> /\ job' = [job EXCEPT ![h] = NoJob]
    BY DEF Refused, Fail, requestVars, ledgerVars, Ledger!RefuseReserve,
           Ledger!InsertConflict, Ledger!CheckViolation, Ledger!AlreadyCredited,
           Ledger!Rollback, Ledger!Nothing
<1>2. pc' = [pc EXCEPT ![h] = "idle"] /\ op' = [op EXCEPT ![h] = op'[h]]
    <2>1. CASE UNCHANGED <<pc, op>> /\ pc[h] = "idle"
        BY <2>1 DEF Ground, TypeOK, Ledger!TypeOK
    <2>2. CASE ~(UNCHANGED <<pc, op>> /\ pc[h] = "idle")
        <3>1. pc' = [pc EXCEPT ![h] = "idle"] /\ op' = [op EXCEPT ![h] = Ledger!NoOp]
            BY <2>2 DEF Refused, Fail, ledgerVars, Ledger!RefuseReserve,
               Ledger!InsertConflict, Ledger!CheckViolation, Ledger!AlreadyCredited,
               Ledger!Rollback, Ledger!Finish
        <3> QED
            BY <3>1 DEF Ground, TypeOK, Ledger!TypeOK
    <2> QED
        BY <2>1, <2>2
<1>3. RowsHoldCredit'
    BY <1>1 DEF CreditInv, RowsHoldCredit, LiveHoldsCredit, CountsAreSingle,
                Ledger!LiveReserve
<1> QED
    BY <1>1, <1>2, <1>3, EndCredit

LEMMA ContinueCredit ==
    ASSUME Ground, CreditInv, NEW h \in Handlers, Continue(h)
    PROVE  CreditInv'
<1>1. job[h] \in Job /\ JobHoldsCredit(h)
    BY DEF Ground, RealInv, RequestTypeOK, CreditInv
<1>2. CASE CreateSubmission(h)
    BY <1>2, QuietCredit DEF CreateSubmission, requestVars, ledgerVars
<1>3. CASE ProviderCancel(h)
    <2>1. UNCHANGED <<status, pc, op, count>>
        BY <1>3 DEF ProviderCancel, requestVars, ledgerVars
    <2>2. /\ job'[h] = [job[h] EXCEPT !.at = "check"]
          /\ \A g \in Handlers : g # h => job'[g] = job[g]
        BY <1>3 DEF ProviderCancel, Ground, RealInv, RequestTypeOK
    <2>3. /\ job'[h].at = "check" /\ job'[h].kind = "cancel"
          /\ job'[h].request = job[h].request /\ job'[h].to = job[h].to
          /\ job[h].at = "provider" /\ job[h].kind = "cancel"
        BY <1>1, <1>3, <2>2 DEF ProviderCancel, Job
    <2>4. JobHoldsCredit(h)'
        BY <1>1, <2>1, <2>3 DEF JobHoldsCredit
    <2> QED
        BY <2>1, <2>2, <2>4, RunsCredit
<1>4. CASE Settle(h)
    <2>1. UNCHANGED <<status, count>> /\ job[h].at = "check"
        BY <1>4 DEF Settle, requestVars, ledgerVars, Ledger!SettleCredit, Ledger!Start
    <2>3. job[h].kind \in {"cancel", "sign", "end"}
        BY <1>1, <2>1 DEF JobHoldsCredit, Job
    <2>4. job[h].to \in Terminal /\ pc[h] = "idle"
        BY <1>1, <2>1, <2>3 DEF JobHoldsCredit
    <2> DEFINE r == job[h].request
               o == [kind |-> IF job[h].to = "completed" THEN "consume" ELSE "release",
                     amount |-> 1, on |-> {r}, txn |-> {}]
    <2>5. CASE Ledger!LiveReserve(r) /\ Ledger!Start(h, o)
               /\ job' = [job EXCEPT ![h].at = "ledger"]
        <3>1. /\ pc'[h] = "lock" /\ op'[h] = o
              /\ job'[h] = [job[h] EXCEPT !.at = "ledger"]
              /\ \A g \in Handlers : g # h =>
                     job'[g] = job[g] /\ pc'[g] = pc[g] /\ op'[g] = op[g]
            BY <2>5 DEF Ground, TypeOK, RequestTypeOK, Ledger!TypeOK, Ledger!Start
        <3>2. /\ job'[h].at = "ledger" /\ job'[h].kind = job[h].kind
              /\ job'[h].request = r /\ job'[h].to = job[h].to
            BY <1>1, <3>1 DEF Job
        <3>3. op'[h].kind \in {"consume", "release"} /\ op'[h].on = {r}
            BY <3>1
        <3>4. JobHoldsCredit(h)'
            BY <1>1, <2>1, <2>3, <2>4, <2>5, <3>1, <3>2, <3>3
            DEF JobHoldsCredit, Ledger!LiveReserve
        <3> QED
            BY <2>1, <3>1, <3>4, RunsCredit
    <2>6. CASE ~Ledger!LiveReserve(r) /\ UNCHANGED <<pc, op>>
               /\ job' = [job EXCEPT ![h].at = "commit"]
        <3>1. /\ job'[h] = [job[h] EXCEPT !.at = "commit"]
              /\ \A g \in Handlers : g # h => job'[g] = job[g]
            BY <2>6 DEF Ground, TypeOK, RequestTypeOK
        <3>2. /\ job'[h].at = "commit" /\ job'[h].kind = job[h].kind
              /\ job'[h].request = r /\ job'[h].to = job[h].to
            BY <1>1, <3>1 DEF Job
        <3>3. JobHoldsCredit(h)'
            BY <1>1, <2>1, <2>3, <2>4, <2>6, <3>2 DEF JobHoldsCredit, Ledger!LiveReserve
        <3> QED
            BY <2>1, <2>6, <3>1, <3>3, RunsCredit
    <2> QED
        BY <1>4, <2>5, <2>6 DEF Settle, Ledger!SettleCredit, ledgerVars
<1>5. CASE LedgerStep(h)
    <2>1. UNCHANGED <<status, count, job, op>>
        BY <1>5 DEF LedgerStep, requestVars, Ledger!LockRow, Ledger!MissRow, Ledger!InsertRow
    <2>2. /\ pc[h] # "idle" /\ pc'[h] # "idle"
          /\ \A g \in Handlers : g # h => pc'[g] = pc[g]
        BY <1>5 DEF LedgerStep, Ledger!LockRow, Ledger!MissRow, Ledger!InsertRow, Ground,
            TypeOK, Ledger!TypeOK
    <2>3. JobHoldsCredit(h)'
        BY <1>1, <2>1, <2>2 DEF JobHoldsCredit, Ledger!LiveReserve
    <2> QED
        BY <2>1, <2>2, <2>3, RunsCredit
<1>6. CASE CommitWithLedger(h) \/ CommitWithoutLedger(h)
    BY <1>6, CommitCredit
<1>7. CASE Refused(h)
    BY <1>7, GiveUpCredit
<1> QED
    BY <1>2, <1>3, <1>4, <1>5, <1>6, <1>7 DEF Continue

LEMMA InitCredit == Init => CreditInv
<1> SUFFICES ASSUME Init PROVE CreditInv
    OBVIOUS
<1>1. \A h \in Handlers : JobHoldsCredit(h)
    BY DEF Init, Ledger!Init, NoJob, JobHoldsCredit
<1>2. RowsHoldCredit
    BY DEF Init, Ledger!Init, RowsHoldCredit, LiveHoldsCredit, CountsAreSingle,
           Ledger!LiveReserve, Ledger!RequestKinds
<1> QED
    BY <1>1, <1>2 DEF CreditInv

LEMMA NextCredit == Ground /\ CreditInv /\ [Next]_vars => CreditInv'
<1> SUFFICES ASSUME Ground, CreditInv, [Next]_vars PROVE CreditInv'
    OBVIOUS
<1>1. ASSUME NEW h \in Handlers, Agent(h) PROVE CreditInv'
    BY <1>1, AgentCredit
<1>2. ASSUME NEW h \in Handlers, NEW p \in Purchases, BuyPack(h, p) PROVE CreditInv'
    BY <1>2, BuyCredit
<1>3. ASSUME NEW h \in Handlers, NEW e \in inbox, Deliver(h, e) PROVE CreditInv'
    BY <1>3, DeliverCredit
<1>4. ASSUME NEW h \in Handlers, Continue(h) PROVE CreditInv'
    BY <1>4, ContinueCredit
<1>5. ASSUME NEW h \in Handlers, Fail(h) PROVE CreditInv'
    BY <1>5, GiveUpCredit
<1>6. CASE Provider
    BY <1>6, QuietCredit
    DEF Provider, SignForm, DeclineForm, ExpireSubmission, requestVars, ledgerVars
<1>7. CASE UNCHANGED vars
    BY <1>7, QuietCredit DEF vars, requestVars, ledgerVars
<1> QED
    BY <1>1, <1>2, <1>3, <1>4, <1>5, <1>6, <1>7 DEF Next

LEMMA SpecCredit == Spec /\ []RequestsApart => []CreditInv
<1>1. TypeOK /\ RealInv /\ RequestsApart => Ground
    BY DEF Ground
<1> QED
    BY <1>1, InitCredit, NextCredit, SpecReal, SignatureTypeCorrect, PTL DEF Spec

(* One credit per document under way: a request is open exactly while its    *)
(* reservation is alive, through every replay, failure and late event, as    *)
(* long as no two handlers work on the same request.                         *)
THEOREM OneCreditPerOpenRequest == Spec /\ []RequestsApart => []LiveHoldsCredit
<1>1. CreditInv => LiveHoldsCredit
    BY DEF CreditInv, RowsHoldCredit
<1> QED
    BY <1>1, SpecCredit, PTL

(* Under the same condition no reservation is settled twice: a cancellation, *)
(* an expiry, an archive and a last signature of one request, replayed and   *)
(* reordered, take or give back one credit between them.                     *)
THEOREM OneSettlementPerRequest == Spec /\ []RequestsApart => []Ledger!SettledOnce
<1>1. CreditInv => Ledger!SettledOnce
    BY DEF CreditInv, RowsHoldCredit, CountsAreSingle, Ledger!SettledOnce
<1> QED
    BY <1>1, SpecCredit, PTL

-----------------------------------------------------------------------------
(* One send at a time: the guard of a send, which reads who is seated, is    *)
(* taken without a lock too.                                                 *)
OneSend ==
    \A g, h \in Handlers : (job[g].kind = "send" /\ job[h].kind = "send") => g = h

SeatedArePeople ==
    \A r \in Requests, p \in Persons : signer[r][p] # "none" => p \in people

(* Those a send is about to seat sit on no open request. *)
SendsFreeSeats(h) ==
    job[h].kind = "send" =>
        \A p \in job[h].seats \cap Persons, q \in Requests :
            status[q] \in OpenStatus => signer[q][p] = "none"

SeatInv == NoDoubleSeat /\ SeatedArePeople /\ \A h \in Handlers : SendsFreeSeats(h)

(* A step that opens no request, seats nobody and begins no send. *)
LEMMA QuietSeats ==
    ASSUME SeatInv, people \subseteq people',
           \A r \in Requests : status'[r] \in OpenStatus => status[r] \in OpenStatus,
           \A r \in Requests, s \in Seats : signer'[r][s] = "none" <=> signer[r][s] = "none",
           \A g \in Handlers : job'[g].kind = "send" => job'[g] = job[g]
    PROVE  SeatInv'
<1>1. \A r \in Requests, p \in Persons : signer'[r][p] = "none" <=> signer[r][p] = "none"
    BY SeatedPersons
<1>2. NoDoubleSeat' /\ SeatedArePeople'
    BY <1>1 DEF SeatInv, NoDoubleSeat, SeatedArePeople, OpenStatus
<1>3. ASSUME NEW g \in Handlers PROVE SendsFreeSeats(g)'
    BY <1>1 DEF SeatInv, SendsFreeSeats
<1> QED
    BY <1>2, <1>3 DEF SeatInv

LEMMA SendSeats ==
    ASSUME Ground, SeatInv, NEW h \in Handlers, NEW r \in Requests,
           NEW who \in SUBSET Persons, SendRequest(h, r, who),
           \A p \in who, q \in Requests : status[q] \in OpenStatus => signer[q][p] = "none"
    PROVE  SeatInv'
<1> DEFINE j == [NoJob EXCEPT !.kind = "send", !.at = "ledger", !.request = r,
                              !.to = "sent", !.seats = who \cup Countersigner]
<1>1. j.seats = who \cup Countersigner
    BY DEF NoJob
<1>2. Begin(h, j) /\ UNCHANGED <<status, signer, people>>
    BY DEF SendRequest, requestVars
<1> HIDE DEF j
<1>3. job'[h] = j /\ \A g \in Handlers : g # h => job'[g] = job[g]
    BY <1>2 DEF Begin, Ground, RealInv, RequestTypeOK
<1>4. \A p \in j.seats \cap Persons : p \in who
    BY <1>1, SignatureAssumption
<1>5. NoDoubleSeat' /\ SeatedArePeople'
    BY <1>2 DEF SeatInv, NoDoubleSeat, SeatedArePeople
<1>6. ASSUME NEW g \in Handlers PROVE SendsFreeSeats(g)'
    <2>1. CASE g = h
        BY <1>2, <1>3, <1>4, <2>1 DEF SendsFreeSeats
    <2>2. CASE g # h
        BY <1>2, <1>3, <2>2 DEF SeatInv, SendsFreeSeats
    <2> QED
        BY <2>1, <2>2
<1> QED
    BY <1>5, <1>6 DEF SeatInv

LEMMA AgentSeats ==
    ASSUME Ground, SeatInv, NEW h \in Handlers, Agent(h)
    PROVE  SeatInv'
<1>1. ASSUME NEW r \in Requests, SendForProgress(h, r) PROVE SeatInv'
    <2>1. people \ Seated \in SUBSET Persons
        BY DEF Ground, RealInv, RequestTypeOK
    <2>2. \A p \in people \ Seated, q \in Requests :
              status[q] \in OpenStatus => signer[q][p] = "none"
        BY <2>1 DEF Seated, OpenStatus, Live
    <2> QED
        BY <1>1, <2>1, <2>2, SendSeats DEF SendForProgress
<1>2. ASSUME NEW r \in Requests, NEW p \in Persons, SendForLatePerson(h, r, p)
      PROVE  SeatInv'
    <2>1. \A q \in Requests : signer[q][p] = "none"
        BY <1>2 DEF SendForLatePerson, SeatInv, SeatedArePeople
    <2> QED
        BY <1>2, <2>1, SendSeats DEF SendForLatePerson
<1>3. ASSUME NEW r \in Requests, CancelRequest(h, r) PROVE SeatInv'
    <2> DEFINE j == [NoJob EXCEPT !.kind = "cancel", !.at = "provider", !.request = r,
                                  !.to = "cancelled"]
    <2>1. Begin(h, j) /\ UNCHANGED <<status, signer, people>>
        BY <1>3 DEF CancelRequest, requestVars
    <2>2. j.kind = "cancel"
        BY DEF NoJob
    <2> HIDE DEF j
    <2>3. \A g \in Handlers : job'[g].kind = "send" => job'[g] = job[g]
        BY <2>1, <2>2 DEF Begin, Ground, RealInv, RequestTypeOK
    <2> QED
        BY <2>1, <2>3, QuietSeats
<1> QED
    BY <1>1, <1>2, <1>3 DEF Agent

(* A delivery begins no send, and a refusal to sign keeps the seat. *)
LEMMA DeliverSeats ==
    ASSUME Ground, SeatInv, NEW h \in Handlers, NEW e \in inbox, Deliver(h, e)
    PROVE  SeatInv'
<1>1. CASE OnFormDeclined(h, e)
    <2>1. UNCHANGED <<status, people, job>>
        BY <1>1 DEF OnFormDeclined
    <2>2. \A r \in Requests, s \in Seats : signer'[r][s] = "none" <=> signer[r][s] = "none"
        BY <1>1 DEF OnFormDeclined, Ground, RealInv, RequestTypeOK
    <2> QED
        BY <2>1, <2>2, QuietSeats
<1>2. CASE OnFormCompleted(h, e) \/ OnSubmissionEnded(h, e) \/ OnIgnored(h, e)
    <2>1. UNCHANGED <<status, signer, people>>
        BY <1>2 DEF OnFormCompleted, OnSubmissionEnded, OnIgnored, requestVars
    <2>2. \E j : j.kind # "send" /\ job' = [job EXCEPT ![h] = j]
        <3>1. CASE OnFormCompleted(h, e)
            <4> DEFINE r == e.request
                       mine == IF signer[r][e.seat] # "signed" THEN {e.seat} ELSE {}
                       j == [NoJob EXCEPT !.kind = "sign", !.request = r, !.seats = mine,
                                          !.event = {e}]
                       k == [j EXCEPT !.at = "commit",
                             !.to = IF status[r] = "sent" THEN "partially_signed" ELSE "same"]
                       l == [j EXCEPT !.at = "check", !.to = "completed"]
                       m == [j EXCEPT !.at = "commit"]
            <4>1. Begin(h, k) \/ Begin(h, l) \/ Begin(h, m)
                BY <3>1 DEF OnFormCompleted
            <4>2. k.kind = "sign" /\ l.kind = "sign" /\ m.kind = "sign"
                BY DEF NoJob
            <4> HIDE DEF k, l, m
            <4> QED
                BY <4>1, <4>2 DEF Begin
        <3>2. CASE OnSubmissionEnded(h, e)
            <4> DEFINE j == [NoJob EXCEPT !.kind = "end", !.at = "check",
                 !.request = e.request, !.event = {e},
                 !.to = IF e.type = "submission.expired" THEN "expired" ELSE "cancelled"]
            <4>1. Begin(h, j) /\ j.kind = "end"
                BY <3>2 DEF OnSubmissionEnded, NoJob
            <4> HIDE DEF j
            <4> QED
                BY <4>1 DEF Begin
        <3>3. CASE OnIgnored(h, e)
            <4>1. job' = [job EXCEPT ![h] = NoJob] /\ NoJob.kind = "none"
                BY <3>3 DEF OnIgnored, Idle, Ground, RealInv, RequestTypeOK, NoJob
            <4> HIDE DEF NoJob
            <4> QED
                BY <4>1
        <3> QED
            BY <1>2, <3>1, <3>2, <3>3
    <2>3. \A g \in Handlers : job'[g].kind = "send" => job'[g] = job[g]
        BY <2>2 DEF Ground, RealInv, RequestTypeOK
    <2> QED
        BY <2>1, <2>3, QuietSeats
<1> QED
    BY <1>1, <1>2 DEF Deliver

(* What a commit leaves of the seats. *)
LEMMA WriteSeats ==
    ASSUME Ground, CreditInv, OneSend, SeatInv, NEW h \in Handlers, Write(h),
           job[h].at \in {"ledger", "commit"}
    PROVE  SeatInv'
<1> DEFINE j == job[h]  r == job[h].request
<1>1. j \in Job /\ JobIsReal(j) /\ JobHoldsCredit(h)
    BY DEF Ground, RealInv, RequestTypeOK, CreditInv
<1>2. job'[h] = NoJob /\ NoJob.kind = "none" /\ \A g \in Handlers : g # h => job'[g] = job[g]
    BY DEF Write, Ground, RealInv, RequestTypeOK, NoJob
<1>3. CASE j.kind = "send"
    <2>1. r \in Requests /\ j.to = "sent"
        BY <1>1, <1>3 DEF JobIsReal
    <2>2. /\ \A q \in Requests, s \in Seats :
                 /\ q # r => signer'[q][s] = signer[q][s]
                 /\ q = r => signer'[q][s] = IF s \in j.seats THEN "pending" ELSE "none"
          /\ \A q \in Requests : status'[q] = IF q = r THEN "sent" ELSE status[q]
          /\ people' = people \cup (j.seats \cap Persons)
        BY <1>3, <2>1 DEF Write, Ground, RealInv, RequestTypeOK
    <2>3. \A p \in j.seats \cap Persons, q \in Requests :
              status[q] \in OpenStatus => signer[q][p] = "none"
        BY <1>3 DEF SeatInv, SendsFreeSeats
    <2>4. NoDoubleSeat'
        <3> SUFFICES ASSUME NEW p \in Persons, NEW q \in Requests, NEW t \in Requests, q # t,
                            status'[q] \in OpenStatus, status'[t] \in OpenStatus
                     PROVE  signer'[q][p] = "none" \/ signer'[t][p] = "none"
            BY DEF NoDoubleSeat, OpenStatus
        <3>1. p \in Seats
            BY SeatedPersons
        <3>2. CASE q # r /\ t # r
            BY <2>2, <3>1, <3>2 DEF SeatInv, NoDoubleSeat, OpenStatus
        <3>3. CASE q = r \/ t = r
            BY <2>2, <2>3, <3>1, <3>3
        <3> QED
            BY <3>2, <3>3
    <2>5. SeatedArePeople'
        <3> SUFFICES ASSUME NEW q \in Requests, NEW p \in Persons, signer'[q][p] # "none"
                     PROVE  p \in people'
            BY DEF SeatedArePeople
        <3>1. p \in Seats
            BY SeatedPersons
        <3> QED
            BY <2>2, <3>1 DEF SeatInv, SeatedArePeople
    <2>6. ASSUME NEW g \in Handlers PROVE SendsFreeSeats(g)'
        <3>1. CASE g = h
            BY <1>2, <3>1 DEF SendsFreeSeats
        <3>2. CASE g # h
            BY <1>2, <1>3, <3>2 DEF OneSend, SendsFreeSeats
        <3> QED
            BY <3>1, <3>2
    <2> QED
        BY <2>4, <2>5, <2>6 DEF SeatInv
<1>4. CASE j.kind # "send"
    <2>1. /\ UNCHANGED people
          /\ \A q \in Requests, s \in Seats :
                 signer'[q][s] = IF q = r /\ s \in j.seats THEN "signed" ELSE signer[q][s]
          /\ \A q \in Requests : status'[q] = IF q = r /\ j.to # "same" THEN j.to
                                                                        ELSE status[q]
        BY <1>4 DEF Write
    <2>2. \A q \in Requests, s \in Seats : signer'[q][s] = "none" <=> signer[q][s] = "none"
        BY <1>1, <1>4, <2>1 DEF JobIsReal
    <2>3. \A q \in Requests : status'[q] \in OpenStatus => status[q] \in OpenStatus
        <3>1. j.kind # "none"
            BY <1>1 DEF JobHoldsCredit
        <3>2. CASE j.kind = "buy"
            BY <1>1, <2>1, <3>2 DEF JobHoldsCredit
        <3>3. CASE j.kind \in {"cancel", "sign", "end"}
            BY <1>1, <2>1, <3>3 DEF JobHoldsCredit, OpenStatus, Terminal
        <3> QED
            BY <1>1, <1>4, <3>1, <3>2, <3>3 DEF Job
    <2>4. \A g \in Handlers : job'[g].kind = "send" => job'[g] = job[g]
        BY <1>2
    <2> QED
        BY <2>1, <2>2, <2>3, <2>4, QuietSeats
<1> QED
    BY <1>3, <1>4

LEMMA ContinueSeats ==
    ASSUME Ground, CreditInv, OneSend, SeatInv, NEW h \in Handlers, Continue(h)
    PROVE  SeatInv'
<1>1. ASSUME UNCHANGED <<status, signer, people>>,
             \A g \in Handlers : job'[g].kind = "send" => job'[g] = job[g]
      PROVE  SeatInv'
    BY <1>1, QuietSeats
<1>2. CASE CreateSubmission(h) \/ LedgerStep(h)
    BY <1>1, <1>2 DEF CreateSubmission, LedgerStep, requestVars
<1>3. CASE ProviderCancel(h)
    <2>1. /\ job'[h] = [job[h] EXCEPT !.at = "check"] /\ job[h].kind = "cancel"
          /\ \A g \in Handlers : g # h => job'[g] = job[g]
        BY <1>3 DEF ProviderCancel, Ground, RealInv, RequestTypeOK
    <2>2. job'[h].kind = "cancel"
        BY <2>1 DEF Ground, RealInv, RequestTypeOK, Job
    <2> QED
        BY <1>1, <1>3, <2>1, <2>2 DEF ProviderCancel, requestVars
<1>4. CASE Settle(h)
    <2>1. UNCHANGED <<status, signer, people>> /\ job[h].at = "check"
        BY <1>4 DEF Settle, requestVars
    <2>2. job[h].kind # "send"
        BY <2>1 DEF CreditInv, JobHoldsCredit
    <2>3. /\ job'[h] = [job[h] EXCEPT !.at = "ledger"] \/ job'[h] = [job[h] EXCEPT !.at = "commit"]
          /\ \A g \in Handlers : g # h => job'[g] = job[g]
        BY <1>4 DEF Settle, Ground, RealInv, RequestTypeOK
    <2>4. job'[h].kind = job[h].kind
        BY <2>3 DEF Ground, RealInv, RequestTypeOK, Job
    <2> QED
        BY <1>1, <2>1, <2>2, <2>3, <2>4
<1>5. CASE CommitWithLedger(h) \/ CommitWithoutLedger(h)
    BY <1>5, WriteSeats DEF CommitWithLedger, CommitWithoutLedger
<1>6. CASE Refused(h)
    <2>1. /\ UNCHANGED <<status, signer, people>>
          /\ job'[h] = NoJob /\ \A g \in Handlers : g # h => job'[g] = job[g]
        BY <1>6 DEF Refused, requestVars, Ground, RealInv, RequestTypeOK
    <2> QED
        BY <1>1, <2>1 DEF NoJob
<1> QED
    BY <1>2, <1>3, <1>4, <1>5, <1>6 DEF Continue

LEMMA NextSeats == Ground /\ CreditInv /\ OneSend /\ SeatInv /\ [Next]_vars => SeatInv'
<1> SUFFICES ASSUME Ground, CreditInv, OneSend, SeatInv, [Next]_vars PROVE SeatInv'
    OBVIOUS
<1>1. ASSUME NEW h \in Handlers, Agent(h) PROVE SeatInv'
    BY <1>1, AgentSeats
<1>2. ASSUME NEW h \in Handlers, NEW p \in Purchases, BuyPack(h, p) PROVE SeatInv'
    <2> DEFINE j == [NoJob EXCEPT !.kind = "buy", !.at = "ledger"]
    <2>1. Begin(h, j) /\ UNCHANGED <<status, signer, people>> /\ j.kind = "buy"
        BY <1>2 DEF BuyPack, requestVars, NoJob
    <2> HIDE DEF j
    <2>2. \A g \in Handlers : job'[g].kind = "send" => job'[g] = job[g]
        BY <2>1 DEF Begin, Ground, RealInv, RequestTypeOK
    <2> QED
        BY <2>1, <2>2, QuietSeats
<1>3. ASSUME NEW h \in Handlers, NEW e \in inbox, Deliver(h, e) PROVE SeatInv'
    BY <1>3, DeliverSeats
<1>4. ASSUME NEW h \in Handlers, Continue(h) PROVE SeatInv'
    BY <1>4, ContinueSeats
<1>5. ASSUME NEW h \in Handlers, Fail(h) PROVE SeatInv'
    <2>1. /\ UNCHANGED <<status, signer, people>>
          /\ job'[h] = NoJob /\ \A g \in Handlers : g # h => job'[g] = job[g]
        BY <1>5 DEF Fail, requestVars, Ground, RealInv, RequestTypeOK
    <2> QED
        BY <2>1, QuietSeats DEF NoJob
<1>6. CASE Provider
    BY <1>6, QuietSeats DEF Provider, SignForm, DeclineForm, ExpireSubmission, requestVars
<1>7. CASE UNCHANGED vars
    BY <1>7, QuietSeats DEF vars, requestVars
<1> QED
    BY <1>1, <1>2, <1>3, <1>4, <1>5, <1>6, <1>7 DEF Next

(* Nobody sits on two open requests for one document, whatever is sent again *)
(* or joined late, as long as no two sends overlap and no two handlers work  *)
(* on the same request: cancellations, signatures and expiries of the others *)
(* may fall anywhere between the guard of a send and its commit.             *)
THEOREM SeatedOnce == Spec /\ []RequestsApart /\ []OneSend => []NoDoubleSeat
<1>1. Init => SeatInv
    <2>1. Init => \A p \in Persons, r \in Requests : signer[r][p] = "none"
        BY SeatedPersons DEF Init
    <2>2. Init => \A h \in Handlers : job[h].kind = "none"
        BY DEF Init, NoJob
    <2> QED
        BY <2>1, <2>2 DEF SeatInv, NoDoubleSeat, SeatedArePeople, SendsFreeSeats
<1>2. TypeOK /\ RealInv /\ RequestsApart => Ground
    BY DEF Ground
<1>3. SeatInv => NoDoubleSeat
    BY DEF SeatInv
<1> QED
    BY <1>1, <1>2, <1>3, NextSeats, SpecCredit, SpecReal, SignatureTypeCorrect, PTL
    DEF Spec
=================================================================================
