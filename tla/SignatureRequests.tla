--------------------------- MODULE SignatureRequests ---------------------------
(***************************************************************************)
(* The signature requests of one signable document of one ACTIVE step      *)
(* (src/signatures/signatures_manager.py), composed with the credit ledger *)
(* of the agency.  A handler is a web request (activation or "re-demander",*)
(* late person, cancellation) or one delivery of a DocuSeal webhook; each  *)
(* runs in one database transaction at READ COMMITTED, without a row lock  *)
(* except the ledger's.  DocuSeal is the environment: it keeps submissions *)
(* and forms of its own and delivers events late, out of order and more    *)
(* than once, until one delivery is answered 2xx.                          *)
(***************************************************************************)
EXTENDS Integers, FiniteSets

CONSTANTS
    Handlers, NoTx, Requests, Purchases, Pack, MaxGrants,   \* see CreditLedger
    Persons,         \* case persons under the signable requirement
    InitialPeople,   \* those present when the step is activated
    Countersigner,   \* {} or the one agency seat (template.agency_countersigns)
    Roles,           \* template.roles_count: client roles of the template
    NoRequest, NoSeat,
    MaxFaults        \* bound on rollbacks and on lost 2xx answers

Seats == Persons \cup Countersigner

ASSUME SignatureAssumption ==
    /\ NoTx \notin Handlers
    /\ IsFiniteSet(Requests)
    /\ IsFiniteSet(Purchases)
    /\ Pack \in Nat \ {0}
    /\ MaxGrants \in Nat
    /\ InitialPeople \subseteq Persons
    /\ Persons \cap Countersigner = {}
    /\ NoSeat \notin Seats
    /\ NoRequest \notin Requests
    /\ Roles \in Nat
    /\ MaxFaults \in Nat

VARIABLES
    row, total, count, bought, acked, lock, pc, op, seen,   \* the ledger's
    status,     \* signature_request.status, "none" before the row exists
    signer,     \* signature_signer.status by request and seat
    people,     \* persons of the case
    provided,   \* persons whose requirement row is provided
    submission, \* DocuSeal: state of the submission of each request
    form,       \* DocuSeal: state of each signer's form
    inbox,      \* DocuSeal: events not yet answered 2xx
    job,        \* what each handler is doing
    faults

Ledger == INSTANCE CreditLedger WITH Txs <- Handlers

ledgerVars   == <<row, total, count, bought, acked, lock, pc, op, seen>>
requestVars  == <<status, signer, people, provided>>
providerVars == <<submission, form, inbox>>
vars == <<ledgerVars, requestVars, providerVars, job, faults>>

Terminal == {"completed", "cancelled", "expired"}
Live     == {"sent", "partially_signed", "completed"}   \* LIVE_STATUSES

Events ==
    [type: {"form.completed", "form.declined"}, request: Requests, seat: Seats]
    \cup [type: {"submission.expired", "submission.archived"},
          request: Requests, seat: {NoSeat}]

(* kind: what the handler is; at: how far it is; to: the status it will    *)
(* write ("same" for none); seats: the seats it creates or marks signed;   *)
(* event: the delivery it answers.                                         *)
NoJob == [kind |-> "none", at |-> "idle", request |-> NoRequest,
          to |-> "same", seats |-> {}, event |-> {}]

Job == [kind: {"none", "buy", "send", "cancel", "sign", "end"},
        at: {"idle", "provider", "check", "ledger", "commit"},
        request: Requests \cup {NoRequest},
        to: {"same", "sent", "partially_signed"} \cup Terminal,
        seats: SUBSET Seats, event: SUBSET Events]

Init ==
    /\ Ledger!Init
    /\ status = [r \in Requests |-> "none"]
    /\ signer = [r \in Requests |-> [s \in Seats |-> "none"]]
    /\ people = InitialPeople
    /\ provided = {}
    /\ submission = [r \in Requests |-> "none"]
    /\ form = [r \in Requests |-> [s \in Seats |-> "none"]]
    /\ inbox = {}
    /\ job = [h \in Handlers |-> NoJob]
    /\ faults = 0

Idle(h) == job[h] = NoJob
Begin(h, j) == Idle(h) /\ job' = [job EXCEPT ![h] = j]

-----------------------------------------------------------------------------
(* Sending.                                                                *)

(* live_signer_person_ids: persons seated on a live request.               *)
\* Mutant: a guard that forgets partially signed requests.
Seated_OnlySent ==
    {p \in Persons : \E r \in Requests : status[r] = "sent" /\ signer[r][p] # "none"}

Seated ==
    {p \in Persons : \E r \in Requests : status[r] \in Live /\ signer[r][p] # "none"}

(* A request row not created yet, by any transaction. *)
Unused(r) ==
    /\ status[r] = "none"
    /\ submission[r] = "none"
    /\ \A h \in Handlers : job[h].request # r

SendRequest(h, r, who) ==
    /\ Unused(r)
    /\ Ledger!ReserveCredits(h, {r})
    /\ Begin(h, [NoJob EXCEPT !.kind = "send", !.at = "ledger", !.request = r,
                              !.to = "sent", !.seats = who \cup Countersigner])
    /\ UNCHANGED <<requestVars, providerVars, faults>>

(* send_for_progress: one request for the persons not seated yet.  The     *)
(* template must have exactly as many roles as persons to seat.            *)
SendForProgress(h, r) ==
    LET fresh == people \ Seated IN
    /\ fresh # {}
    /\ Cardinality(fresh) = Roles
    /\ SendRequest(h, r, fresh)

(* send_for_late_person: a person added after the activation gets a        *)
(* request of their own; the "too many roles" guard is disarmed.           *)
SendForLatePerson(h, r, p) ==
    /\ \E q \in Requests : status[q] # "none"
    /\ p \in Persons \ people
    /\ Roles >= 1
    /\ SendRequest(h, r, {p})

(* create_from_template, inside the transaction, after the reservation.    *)
CreateSubmission(h) ==
    LET r == job[h].request IN
    /\ job[h].kind = "send"
    /\ pc[h] = "write"
    /\ submission[r] = "none"
    /\ submission' = [submission EXCEPT ![r] = "open"]
    /\ form' = [form EXCEPT ![r] =
                   [s \in Seats |-> IF s \in job[h].seats THEN "open" ELSE "none"]]
    /\ UNCHANGED <<ledgerVars, requestVars, inbox, job, faults>>

-----------------------------------------------------------------------------
(* Cancelling: the provider first, then the ledger and the status.         *)

CancelRequest(h, r) ==
    /\ status[r] \notin Terminal \cup {"none"}
    /\ Begin(h, [NoJob EXCEPT !.kind = "cancel", !.at = "provider", !.request = r,
                              !.to = "cancelled"])
    /\ UNCHANGED <<ledgerVars, requestVars, providerVars, faults>>

(* DELETE /submissions/{id}: DocuSeal archives it and says so in an event. *)
ProviderCancel(h) ==
    LET r == job[h].request IN
    /\ job[h].kind = "cancel" /\ job[h].at = "provider"
    /\ submission' = [submission EXCEPT ![r] = "archived"]
    /\ inbox' = inbox \cup
          {[type |-> "submission.archived", request |-> r, seat |-> NoSeat]}
    /\ job' = [job EXCEPT ![h].at = "check"]
    /\ UNCHANGED <<ledgerVars, requestVars, form, faults>>

-----------------------------------------------------------------------------
(* Webhooks.                                                               *)

Pending(r) == {s \in Seats : signer[r][s] = "pending"}

(* An answer 2xx: DocuSeal forgets the event, unless the answer is lost.   *)
Answer(event) ==
    \/ inbox' = inbox \ event /\ UNCHANGED faults
    \/ /\ event # {} /\ faults < MaxFaults
       /\ inbox' = inbox /\ faults' = faults + 1

(* _on_form_completed, up to its reads: the signer row, the request row    *)
(* and the statuses of the other seats, as committed by then.              *)
\* Mutant: one signature marks every pending seat.
OnFormCompleted_SignsForAll(h, e) ==
    /\ e \in inbox /\ e.type = "form.completed"
    /\ status[e.request] # "completed"
    /\ Begin(h, [NoJob EXCEPT !.kind = "sign", !.at = "check", !.request = e.request,
                 !.to = "completed", !.seats = Pending(e.request), !.event = {e}])
    /\ UNCHANGED <<ledgerVars, requestVars, providerVars, faults>>

\* Mutant: the first signature completes the request.
OnFormCompleted_FirstCompletes(h, e) ==
    /\ e \in inbox /\ e.type = "form.completed"
    /\ status[e.request] # "completed"
    /\ Begin(h, [NoJob EXCEPT !.kind = "sign", !.at = "check", !.request = e.request,
                 !.to = "completed", !.seats = {e.seat}, !.event = {e}])
    /\ UNCHANGED <<ledgerVars, requestVars, providerVars, faults>>

OnFormCompleted(h, e) ==
    LET r == e.request
        others == Pending(r) \ {e.seat}
        mine == IF signer[r][e.seat] # "signed" THEN {e.seat} ELSE {}
        j == [NoJob EXCEPT !.kind = "sign", !.request = r, !.seats = mine, !.event = {e}]
    IN
    /\ e \in inbox /\ e.type = "form.completed"
    /\ \/ /\ others # {}
          /\ Begin(h, [j EXCEPT !.at = "commit",
                 !.to = IF status[r] = "sent" THEN "partially_signed" ELSE "same"])
       \/ /\ others = {} /\ status[r] # "completed"
          /\ Begin(h, [j EXCEPT !.at = "check", !.to = "completed"])
       \/ /\ others = {} /\ status[r] = "completed"
          /\ Begin(h, [j EXCEPT !.at = "commit"])
    /\ UNCHANGED <<ledgerVars, requestVars, providerVars, faults>>

(* _on_form_declined writes nothing but the signer row. *)
OnFormDeclined(h, e) ==
    /\ Idle(h)
    /\ e \in inbox /\ e.type = "form.declined"
    /\ signer' = [signer EXCEPT ![e.request][e.seat] = IF @ = "pending" THEN "declined" ELSE @]
    /\ Answer({e})
    /\ UNCHANGED <<ledgerVars, status, people, provided, submission, form, job>>

(* _on_submission_ended: expired or archived, unless already terminal.     *)
OnSubmissionEnded(h, e) ==
    /\ e \in inbox /\ e.seat = NoSeat
    /\ status[e.request] \notin Terminal \cup {"none"}
    /\ Begin(h, [NoJob EXCEPT !.kind = "end", !.at = "check", !.request = e.request,
                 !.event = {e},
                 !.to = IF e.type = "submission.expired" THEN "expired" ELSE "cancelled"])
    /\ UNCHANGED <<ledgerVars, requestVars, providerVars, faults>>

(* Answered without a write: a submission the database does not know (its  *)
(* transaction rolled back), or a request that is already terminal.        *)
OnIgnored(h, e) ==
    /\ Idle(h)
    /\ e \in inbox
    /\ e.seat = NoSeat
    /\ status[e.request] \in Terminal \cup {"none"}
    /\ Answer({e})
    /\ UNCHANGED <<ledgerVars, requestVars, submission, form, job>>

-----------------------------------------------------------------------------
(* The ledger's part of a handler, and the end of its transaction.         *)

(* consume_credit on a completion, release_credit otherwise: no ledger     *)
(* write when no reservation is seen alive.                                *)
\* Mutant: a cancellation does not release the credit.
Settle_KeepsCancelled(h) ==
    /\ job[h].at = "check"
    /\ \/ /\ job[h].kind # "cancel"
          /\ Ledger!SettleCredit(h, job[h].request,
                 IF job[h].to = "completed" THEN "consume" ELSE "release")
          /\ job' = [job EXCEPT ![h].at = "ledger"]
       \/ /\ job[h].kind = "cancel" \/ ~Ledger!LiveReserve(job[h].request)
          /\ job' = [job EXCEPT ![h].at = "commit"]
          /\ UNCHANGED ledgerVars
    /\ UNCHANGED <<requestVars, providerVars, faults>>

\* Mutant: settled without the idempotence guard.
Settle_NoGuard(h) ==
    /\ job[h].at = "check"
    /\ Ledger!Start(h, [kind |-> IF job[h].to = "completed" THEN "consume" ELSE "release",
                        amount |-> 1, on |-> {job[h].request}, txn |-> {}])
    /\ job' = [job EXCEPT ![h].at = "ledger"]
    /\ UNCHANGED <<requestVars, providerVars, faults>>

Settle(h) ==
    LET r == job[h].request
        k == IF job[h].to = "completed" THEN "consume" ELSE "release" IN
    /\ job[h].at = "check"
    /\ \/ /\ Ledger!SettleCredit(h, r, k)
          /\ job' = [job EXCEPT ![h].at = "ledger"]
       \/ /\ ~Ledger!LiveReserve(r)
          /\ job' = [job EXCEPT ![h].at = "commit"]
          /\ UNCHANGED ledgerVars
    /\ UNCHANGED <<requestVars, providerVars, faults>>

(* A credit pack is bought meanwhile (billing webhook). *)
BuyPack(h, p) ==
    /\ Ledger!PurchaseCredits(h, p)
    /\ Begin(h, [NoJob EXCEPT !.kind = "buy", !.at = "ledger"])
    /\ UNCHANGED <<requestVars, providerVars, faults>>

LedgerStep(h) ==
    /\ Ledger!LockRow(h) \/ Ledger!MissRow(h) \/ Ledger!InsertRow(h)
    /\ UNCHANGED <<requestVars, providerVars, job, faults>>

(* What the transaction wrote becomes visible. *)
Write(h) ==
    LET j == job[h]  r == j.request IN
    /\ IF j.kind = "send"
       THEN /\ signer' = [signer EXCEPT ![r] =
                   [s \in Seats |-> IF s \in j.seats THEN "pending" ELSE "none"]]
            /\ people' = people \cup (j.seats \cap Persons)
            /\ UNCHANGED provided
       ELSE /\ signer' = [q \in Requests |-> [s \in Seats |->
                   IF q = r /\ s \in j.seats THEN "signed" ELSE signer[q][s]]]
            /\ provided' = provided \cup (j.seats \cap Persons)
            /\ UNCHANGED people
    /\ status' = [q \in Requests |->
           IF q = r /\ j.to # "same" THEN j.to ELSE status[q]]
    /\ job' = [job EXCEPT ![h] = NoJob]
    /\ Answer(j.event)
    /\ UNCHANGED <<submission, form>>

CommitWithLedger(h) ==
    /\ job[h].at = "ledger"
    /\ job[h].kind = "send" => submission[job[h].request] # "none"
    /\ Ledger!Commit(h)
    /\ Write(h)

CommitWithoutLedger(h) ==
    /\ job[h].at = "commit"
    /\ Write(h)
    /\ UNCHANGED ledgerVars

(* The ledger or the database refuses: everything rolls back, and a        *)
(* webhook's event stays to be delivered again.                            *)
Refused(h) ==
    /\ \/ Ledger!RefuseReserve(h) \/ Ledger!InsertConflict(h)
       \/ Ledger!CheckViolation(h) \/ Ledger!AlreadyCredited(h)
    /\ job' = [job EXCEPT ![h] = NoJob]
    /\ UNCHANGED <<requestVars, providerVars, faults>>

(* The provider, the download or the process fails mid-transaction.        *)
\* Mutant: a webhook answers 2xx although its transaction rolled back.
Fail_Acknowledges(h) ==
    /\ ~Idle(h)
    /\ faults < MaxFaults
    /\ faults' = faults + 1
    /\ job' = [job EXCEPT ![h] = NoJob]
    /\ inbox' = inbox \ job[h].event
    /\ IF pc[h] # "idle" THEN Ledger!Rollback(h) ELSE UNCHANGED ledgerVars
    /\ UNCHANGED <<requestVars, submission, form>>

Fail(h) ==
    /\ ~Idle(h)
    /\ faults < MaxFaults
    /\ faults' = faults + 1
    /\ job' = [job EXCEPT ![h] = NoJob]
    /\ IF pc[h] # "idle" THEN Ledger!Rollback(h) ELSE UNCHANGED ledgerVars
    /\ UNCHANGED <<requestVars, providerVars>>

-----------------------------------------------------------------------------
(* DocuSeal and the signers.                                               *)

Signed(r) == \A s \in Seats : form[r][s] \in {"none", "signed"}

(* A signer reaches the form by the slug our API serves once it committed. *)
Reachable(r, s) ==
    submission[r] = "open" /\ form[r][s] = "open" /\ signer[r][s] # "none"

(* A signer signs; the countersigner after every client (order 1).         *)
SignForm(r, s) ==
    /\ Reachable(r, s)
    /\ s \in Countersigner => \A p \in Persons : form[r][p] # "open"
    /\ form' = [form EXCEPT ![r][s] = "signed"]
    /\ submission' = [submission EXCEPT ![r] = IF Signed(r)' THEN "done" ELSE @]
    /\ inbox' = inbox \cup {[type |-> "form.completed", request |-> r, seat |-> s]}
    /\ UNCHANGED <<ledgerVars, requestVars, job, faults>>

DeclineForm(r, s) ==
    /\ Reachable(r, s)
    /\ form' = [form EXCEPT ![r][s] = "declined"]
    /\ inbox' = inbox \cup {[type |-> "form.declined", request |-> r, seat |-> s]}
    /\ UNCHANGED <<ledgerVars, requestVars, submission, job, faults>>

ExpireSubmission(r) ==
    /\ submission[r] = "open"
    /\ submission' = [submission EXCEPT ![r] = "expired"]
    /\ inbox' = inbox \cup
          {[type |-> "submission.expired", request |-> r, seat |-> NoSeat]}
    /\ UNCHANGED <<ledgerVars, requestVars, form, job, faults>>

-----------------------------------------------------------------------------
Deliver(h, e) ==
    \/ OnFormCompleted(h, e)
    \/ OnFormDeclined(h, e)
    \/ OnSubmissionEnded(h, e)
    \/ OnIgnored(h, e)

Agent(h) ==
    \E r \in Requests :
        \/ SendForProgress(h, r)
        \/ \E p \in Persons : SendForLatePerson(h, r, p)
        \/ CancelRequest(h, r)

Continue(h) ==
    \/ CreateSubmission(h)
    \/ ProviderCancel(h)
    \/ Settle(h)
    \/ LedgerStep(h)
    \/ CommitWithLedger(h)
    \/ CommitWithoutLedger(h)
    \/ Refused(h)

Provider ==
    \E r \in Requests :
        \/ \E s \in Seats : SignForm(r, s) \/ DeclineForm(r, s)
        \/ ExpireSubmission(r)

Next ==
    \/ \E h \in Handlers :
           \/ Agent(h)
           \/ \E p \in Purchases : BuyPack(h, p)
           \/ \E e \in inbox : Deliver(h, e)
           \/ Continue(h)
           \/ Fail(h)
    \/ Provider

Spec == Init /\ [][Next]_vars

(* A handler that runs goes on; an event DocuSeal keeps delivering is      *)
(* eventually accepted by some handler.                                    *)
FairSpec ==
    /\ Spec
    /\ \A h \in Handlers : WF_vars(Continue(h))
    /\ \A e \in Events : SF_vars(\E h \in Handlers : Deliver(h, e))

-----------------------------------------------------------------------------
(* Properties.                                                             *)

(* The types of the requests, of DocuSeal and of the handlers' work; a     *)
(* handler at the provider or about to settle has a request.               *)
RequestTypeOK ==
    /\ status \in [Requests -> {"none", "sent", "partially_signed"} \cup Terminal]
    /\ signer \in [Requests -> [Seats -> {"none", "pending", "signed", "declined"}]]
    /\ people \subseteq Persons
    /\ provided \subseteq Persons
    /\ submission \in [Requests -> {"none", "open", "done", "expired", "archived"}]
    /\ form \in [Requests -> [Seats -> {"none", "open", "signed", "declined"}]]
    /\ inbox \subseteq Events
    /\ job \in [Handlers -> Job]
    /\ \A h \in Handlers :
           job[h].at \in {"provider", "check"} => job[h].request \in Requests
    /\ faults \in 0..MaxFaults

(* Every variable has its type; the ledger's keep theirs. *)
TypeOK == Ledger!TypeOK /\ RequestTypeOK

(* One credit per document under way: a request is sent or partially       *)
(* signed exactly while its reservation is alive.  Holds when handlers do  *)
(* not overlap, through every replay, reordering, failure and late event.  *)
LiveHoldsCredit ==
    \A r \in Requests :
        status[r] \in {"sent", "partially_signed"} <=> Ledger!LiveReserve(r)

(* The send guard: nobody sits on two open requests for one document ("une *)
(* personne deja assise sur une demande vivante n'est jamais reassise").   *)
NoDoubleSeat ==
    \A p \in Persons, q, r \in Requests :
        /\ q # r
        /\ status[q] \in {"sent", "partially_signed"}
        /\ status[r] \in {"sent", "partially_signed"}
        => signer[q][p] = "none" \/ signer[r][p] = "none"

(* What the database holds for signed was signed at DocuSeal, and a        *)
(* provided requirement has such a signature behind it, even when the      *)
(* transaction that created the submission was rolled back.                *)
SignaturesAreReal ==
    /\ \A r \in Requests, s \in Seats : signer[r][s] = "signed" => form[r][s] = "signed"
    /\ \A p \in provided : \E r \in Requests : signer[r][p] = "signed"

(* Nobody is left out of a completed request: each of its seats is signed, *)
(* in the database as at DocuSeal, or was refused there, however the last  *)
(* signatures interleave with refusals and with other handlers.  That a    *)
(* refusal is let through is CompletedIsSigned, below.                     *)
CompletedIsAnswered ==
    \A r \in Requests, s \in Seats :
        status[r] = "completed" =>
            \/ signer[r][s] = "none"
            \/ signer[r][s] = "signed" /\ form[r][s] = "signed"
            \/ form[r][s] = "declined"

(* Every step of the handlers is a step of the ledger, or does not touch   *)
(* it: the theorems about the ledger hold of the composed system.          *)
LedgerSpec == Ledger!Spec

(* "une demande en vol converge toujours (signatures enregistrees, credits *)
(* jamais coinces)" (flags.py): once DocuSeal is done with a submission,   *)
(* its request reaches a terminal status and gives its credit back or      *)
(* consumes it.                                                            *)
EndedRequestSettles ==
    \A r \in Requests :
        submission[r] \in {"done", "expired", "archived"}
            ~> status[r] \in Terminal \cup {"none"} /\ ~Ledger!LiveReserve(r)

-----------------------------------------------------------------------------
(* Promises of the sources that do not hold; the README has the traces.    *)
(* NoDoubleSeat, LiveHoldsCredit and EndedRequestSettles above fail too as *)
(* soon as two handlers overlap.                                           *)

(* "Tous signes : consume du credit" (_complete): a completed request has  *)
(* every signature.  A refused seat no longer counts as pending, so that   *)
(* the next signature of another completes the request.                    *)
CompletedIsSigned ==
    \A r \in Requests, s \in Seats :
        status[r] = "completed" => signer[r][s] \in {"none", "signed"}

(* "Une demande deja completee/annulee ne bouge plus."                     *)
DeadStaysDead ==
    [][\A r \in Requests :
          status[r] \in {"cancelled", "expired"} => status'[r] = status[r]]_vars

(* "Re-demander : renvoie les demandes de signature manquantes d'une etape *)
(* active (sieges liberes par une annulation/expiration)": whenever seats  *)
(* are free, the template's role count lets the resend through.            *)
FreedSeatsCanBeResent ==
    people \ Seated # {} => Cardinality(people \ Seated) = Roles
=================================================================================
