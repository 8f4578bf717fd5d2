# A verification project for the ExpatFlow backend

The backend is a FastAPI service over PostgreSQL: relocation agencies run client
cases through journeys of steps, collect documents, have documents signed through
DocuSeal, remind people by e-mail and pay for all this through Paddle. There is no
message bus and no cache: every component meets the others in the database, at READ
COMMITTED, mostly without row locks, and meets the outside world through webhooks,
an HTTP client and jobs. What is hard to test in it is what several transactions,
deliveries or runs do together. That is what the modules here are about.

Paths are relative to the root of the repository.

## 1. Inventory

### Components that keep protocol state

| Component | State | Operations | Meets | What is hard, and what makes it correct |
|---|---|---|---|---|
| Signature credit ledger (`src/signatures/ledger.py`) | one balance row per agency (available, reserved), an append-only journal | purchase, grant, reserve, consume, release | called inside the transactions of billing, signatures and administration | lost updates, the first row, the last credit, a pack notified twice. Correct: balance = journal, no overdraft, a pack credited once, a reservation settled once |
| Electronic signatures (`src/signatures/`) | `signature_request`, `signature_signer`, and DocuSeal's own submissions | send, late person, re-demander, cancel, five webhooks | ledger; step engine; DocuSeal over HTTP and webhooks | webhooks late, repeated, reordered; a provider call inside a transaction that may roll back; two handlers on one request. Correct: an open request holds one credit, nobody sits twice, what is signed in the database was signed, an ended request settles |
| Step engine (`src/progress/`) | `case_step_progress`, `case_step_requirement`, `client_case.status` | assign, start, complete, validate, reopen, change the validator, materialize rows, auto-close | journeys, cases, documents, portals and signatures all call it | status derived from rows other transactions write; edits of a template that reach running cases. Correct: the prerequisite lock, the derived case status, a step with nothing to wait for closes, no row without its definition |
| Journeys (`src/journeys/`) | templates, steps, `step_prerequisite`, `step_requirement` | edit, clone, import, translate | their edits reach running cases through the step engine | the prerequisite graph stays acyclic |
| Cases and persons (`src/cases/`) | `client_case`, `case_person`, `case_invitation`, one `expat_user` per address | create, edit, bulk status, add and remove persons, correct an address, invite, resend, activate, delete | step engine, activation reminders, mails | a person who leaves takes rows with her; corrections, resends and expiries cancel each other's links. Correct: whoever waits before the client space holds a link, live or renewable |
| Activation reminders (`src/cases/activation_jobs.py`) | `activation_reminder_stage` of an invitation | one job: mails at three and seven days | cases, mail provider | mail, then record, row by row. Correct: each stage leaves, and once |
| Documents (`src/documents/`) | `document` rows and files | upload, delete, review | fulfil or clear requirement rows | the row of an upload and its effect on a step are two commits |
| Reminders (`src/reminders/`) | `reminder`: to_approve, approved, sent, cancelled | create, approve, edit, cancel, bulk, mark sent, automatic creation, dispatch job, delivery webhook | job runner, step engine, mail provider | a run that mails while agents edit; crashes; overlapping runs. Correct: what leaves was approved, leaves once, and leaves |
| Job runner (`src/core/job_wrapper.py`, `scheduler.py`, `src/jobs/`) | `job_config`, `job_run` | tick, manual trigger, pause, window | one session per run, and a `log()` that commits it | the row locks of a job end at its first log line |
| Paddle billing (`src/billing/`) | billing columns of `agency`, `paddle_webhook_event` | checkout, webhooks, plan change, cancel, resume, seat quantities | Paddle, ledger (packs), agencies, referral | events at least once and in any order, two at a time; a superadmin who converts by hand. Correct: the status follows the newest event, an event takes effect once, a conversion is final, everything verified ends on file |
| Agencies, seats, invitations (`src/agencies/`) | `agent`, `agent_invitation`, seat types, `reader_seats_purchased` | invite, accept, cancel, expire (job), deactivate, reactivate, change of seat type, conversion | billing (quantities pushed to Paddle) | a counter read, changed and written back by several handlers; acceptance against expiry. Correct: the pool moves with the readers it pays for, the trial's cap holds, Paddle bills what the roster derives, somebody can manage the agency, a provider's agent has an invitation or an owner |
| Referral (`src/referral/`) | credits of the referrer, a Paddle discount | grant on conversion, recompute, the lazy tick of an invoice | runs after the webhook's commit, best effort | a discount counted in invoices against credits counted in days; a recompute lost or late. Correct: no invoice over-discounted, a lost recompute made good |
| Authentication and MFA (`src/auth/`) | refresh and reset tokens, MFA challenge and attempts, backup codes | login, refresh, setup, verify, disable, reset | - | an attempts counter without a lock; codes used once |
| Signup (`src/signup/`) | `signup_verification`: code, attempts, completion token | request, verify, complete | agencies | the same counter; a token used once |
| Notification window (`src/core/notification_window.py`) | last mail per case, recipient and category | check, record | every notifying handler | check and record are two steps without a lock |
| AI translation quota (`src/ai/quota.py`) | points used in the month | ensure, debit | journeys' translations | check, long call, then debit |
| Document templates (`src/document_templates/`) | drafts and their DocuSeal template | create, builder sync, delete, sweep (job) | job runner, signatures | a sweep whose locks end at its first log line |
| Mail sweeps (`src/digest/`, `src/nurture/`, onboarding and task digests), activation reminders apart | a stage or a cursor per recipient | one job each | job runner | mail, then record |

### Components without a protocol of their own

The billing lock (a pure rule over the billing columns), the billing catalog, client
and company profiles, imports, comments, consents, custom fields, costs, usage and
activity trackers, permissions, impersonation, administration and platform
tasks, the external providers' portal (it delegates to the step engine), dashboards,
views, exports, help, the e-mail templates, migrations and scripts. They read, or
write in one request what no other actor decides on. `PROJECT.json` lists each with
its reason.

## 2. Modules

| Module | Models | Uses |
|---|---|---|
| `CreditAccount` | the promise of the ledger: an account whose operations are atomic and never overdraw | |
| `CreditLedger` | the ledger of one agency, transactions that interleave | `CreditAccount` by refinement |
| `CreditLedgerProofs` | theorems about it | |
| `SignatureRequests` | the signature requests of one document of one step, DocuSeal, and the credits they hold | INSTANCE `CreditLedger` |
| `SignatureProofs` | theorems about it, which carry those of the ledger over | INSTANCE `CreditLedgerProofs` |
| `PrerequisiteGraph` | what it means for prerequisites to have no cycle, a definition | |
| `CycleSearch` | `_has_cycle`, the three-colour search of the editor of journeys, step by step | `PrerequisiteGraph` |
| `StepEngine` | the steps of one case, with the edits of its journey, its persons, documents and signatures | `PrerequisiteGraph` |
| `StepEngineProofs` | theorems about it and about `CycleSearch` | `CycleSearch` |
| `ReminderDispatch` | the reminders of one case, the agents and the dispatch job | |
| `ReminderProofs` | theorems about it | |
| `PaddleWebhooks` | the Paddle events of one agency, their deliveries, and the superadmin's PATCH | |
| `PaddleProofs` | theorems about it | |
| `SeatPool` | the members, providers and invitations of one agency, its pool of reader seats, its subscription and the quantities Paddle bills | |
| `SeatProofs` | theorems about it | |
| `ClientActivation` | the invitations to the client space, the accounts they activate, and the job that reminds | |
| `ActivationProofs` | theorems about it | |
| `ReferralDiscount` | the credits of one referrer, her billing cycles, and the discount posed at Paddle | |
| `ReferralProofs` | theorems about it | |
| `MC...` | for each of the above, the constants and the symmetry of its runs | |

### How code becomes actions

*A transaction at READ COMMITTED.* A handler reads what is committed, then computes,
then its writes appear together at its commit. A handler is therefore at least two
actions: one that reads (named after the function), which leaves in a record what will
be written, and a commit that writes those COLUMNS and no other, over whatever was
committed in between, as SQLAlchemy's UPDATE does. An error anywhere in between drops
the record: nothing is written. Where the code takes a row lock, or an UPDATE holds one
until the commit, the lock is a variable and the next writer waits for it. A handler's
several reads are taken together in its first action unless their order matters. They are
kept apart in `SettleCredit` and `PurchaseCredits` (a guard read before the lock), in
`ChangeAddress` and its sequel (the account, then two questions, then the links), in
`AskRotation` and `Rotate`, in `Flush` and `ActivatedStatus` (an UPDATE is sent between two
reads) and in `ReminderDispatch` (reads at the selection, commits at every log line).

*Ledger.* `row` is the balance row, `total` and `count` are the two aggregates the code
asks of the journal, `bought` the `paddle_event_id`s of the journal, `acked` the packs
whose event was answered 200. `LockRow` is `_locked_balance` on an existing row,
`MissRow`, `InsertRow` and `InsertConflict` its first insert; `Commit` stores the
ABSOLUTE values computed from what was loaded. A purchase asks the journal first, without a
lock, so that any number of transactions may be crediting one pack; the unique key of the
journal (`Belt`) lets one commit, and the others end in `AlreadyCredited`: the error rolls
back, and the event is stored and answered 200.

*Signatures.* `job[h]` is the handler's unit of work: what it is, how far it got, the
status and seats it will write, the delivery it answers. A job holds its ledger
operation through the instance `Ledger` (same handlers), so a send commits its request
and its reservation in one action, and a refusal by the ledger drops both. DocuSeal is
the environment: `submission`, `form`, and `inbox`, the set of events not answered 2xx
yet. An event stays in `inbox` when its handler fails or the answer is lost; any event
of `inbox` may be delivered next. A submission created by a transaction that rolls back
stays at DocuSeal.

*Step engine.* One record per handler, `Write`, has one field per column the code may
write (partial functions for steps, sets of cells for requirement rows, a cell being a
definition and a person). `Synced` is `_sync_case_status`, `AutoClosed` the pass of
`recompute_active` (its query has no ORDER BY, so each order is a possible outcome),
`MissingRows` is `_sync_missing_requirements`, `Refused` the unique keys and foreign
keys. The signature requests are reduced to a seat per cell. `SetPrerequisites` gets the
answer of the search from the definition `Acyclic`; that the search gives this answer is what
`CycleSearch` is about: `path` and `pending` are its stack, `color` its three sets, and the
order of its loops is free.

*Reminders.* A run holds what it read; `lock` is the FOR UPDATE lock, and every action
that logs ends with `Unlocked`, because `log()` commits the session. Agents' handlers
write at `CommitHand`, which waits for a lock but does not look at the row again.
`grants` and `mails` are history: approvals and departures per version of the text.
Two edits that overlap share one version number. A follow-up with several recipients
in the code is one reminder per recipient; escalations are the kind "hand". `channel` is the
kind of a reminder, chosen at its creation; `refused` the addresses the provider refuses,
which an agent may correct (`CorrectAddress`).

*Paddle.* `emitted` is the sequence of what happened to the subscriptions, in the order
it happened: the index is both the `event_id` and `occurred_at`. Deliveries take any
element that is not on file, as often as they like. `row` holds the billing columns,
`stored` and `orphans` the event rows, `processed` those whose handler did not answer
"ignored". The superadmin's PATCH (`ReadPatch`, `CommitPatch`) carries a plan, a date of
conversion that wins over the one on file, or both. `signals` counts the `agency.converted`
of the webhooks alone: a PATCH with a plan emits its own each time
(`src/agencies/agencies_manager.py:914`), as the code means it to. Events of type trialing or unknown types are stored without effect in the
code and are not emitted; `transaction.completed` is in the ledger.

*Seats.* As in the step engine a handler leaves in `Write` the columns it will write; the
pool is written as an absolute value, as the code does. A gesture that moves a seat is
three steps: `Begin`, `Commit`, then `Push` (`sync_seat_quantity`, best effort, from the
agency row the session loaded or, for the sweep and the superadmin, from the database);
a purchase by hand pays before it commits (`Pay`). `echo` is what Paddle bills and `fresh`
says that nothing moved since without a push, so that `PaddleIsDerived` does not claim more
than the code does of a push that failed. `Waiting` counts the invitations that have not
expired, as `seat_usage` does; `Internal` all that are open, as cancellation and sweep do.

*Client space.* An invitation belongs to a case and an address, an account to an address
alone, so two cases may share a client. `Pending` includes expired invitations, whose
status is still pending. `Ages` are the four instants the code compares with: the resend
cooldown, three days, seven days, the expiry. A correction of an address reads in four steps:
the person and her account, which must not be active (`ChangeAddress`), whether another case
uses it (`NotShared`), whether the new address is taken on the case (`NotTaken`), and at last
the links to cancel (`Relink`); a session may commit between any two. A rotation asks
(`AskRotation`), then reads the links (`Rotate`). The job loads its rows once (`Tick`), then
mails and records row by row; it may die between the two.

*Referral.* Time is a countdown: `credit[g]` is the number of units a credit has left,
`next` the units to the next invoice. A recompute reads (`Read`), then calls Paddle
(`Keep`, `Pose` or `Fails`), or is lost after the commit that called for it (`Lost`).
`CyclesUntil` is the number of invoices before a boundary, `Tier` the rate of a number of
credits. What is posed carries how many invoices it has left at Paddle (`AfterInvoice`).
No instant passes while a recompute is in flight, and a change of cycle at Paddle and its
commit here are one step.

## 3. Runs

| Run | Instance | States | Shows |
|---|---|---|---|
| `ledger` | 2 transactions, 2 requests, 2 packs of 2, a gift | 6.1 k | balance = journal, no overdraft, packs credited once even by two events at once, refinement of `CreditAccount` |
| `ledger_lost_pack` | the same | violation | a paid pack is never credited |
| `signature_serial` | 1 handler, 2 requests, a client and the countersigning agency, a late person, 1 fault | 0.9 M | open request = live credit, no double seat |
| `signature_concurrent` | 2 handlers, 2 requests, 2 clients of a two-role template | 1.9 M | types, real signatures, no completed request with a seat that has not answered, and the ledger used as specified |
| `signature_live` | 1 handler, 1 request, 2 clients and the agency, 1 fault | 10 k | an ended submission settles its request and its credit |
| `step_serial` | 1 handler, 2 steps, 2 definitions (one signable), 2 persons; before them, the search on every graph of 4 steps | 1.1 M | the lock, the case status, the auto-close, no orphan row; the search finds a cycle when there is one, and only then |
| `reminders` | 1 run that may crash, 1 agent, two reminders of every kind, a refused address that may be corrected, 1 edit | 1.2 M | approved text only, one mail per approval, and what is due leaves once its address is good |
| `paddle_serial` | 1 delivery at a time, 2 subscriptions, 5 events, an unknown price, a customer already taken, no custom_data, diverging quantities, a superadmin who gives a plan or one of 2 dates, 1 crash | 1.9 M | the status never goes back and is the newest on file, the grace anchor follows, no webhook moves the date of conversion, a manual agency is left alone |
| `paddle_concurrent` | 2 deliveries at once, 4 events, a link conflict, 1 crash | 0.06 M | an event takes effect once, every event ends on file |
| `seats` | 1 session, a founder, 2 colleagues and a provider, 2 open invitations; pushes, payments and commits fail at will | 1.9 M | the pool moves with the readers, the trial's cap, Paddle bills what is derived, somebody manages, no orphan phantom |
| `activation` | an agency: 1 session, 1 run that may die once, 2 cases that may share a client, a refused address, a spouse; or a family: 2 sessions on one case, 2 persons and 2 addresses, until the case is deleted | 1.0 M | reminders leave and leave once; nobody before a closed door |
| `referral` | 3 godchildren, cycles of 1 and 3, credits of 5, 1 recompute that may be lost | 1.5 M | no invoice over-discounted, what is posed is earned, what is lost is made good |

*Why the bounds are enough.* Two transactions make every race of the ledger: the row is
either free or held, and a third writer only waits. Two requests are the least for a
reservation to keep `reserved` positive while another is settled. In `SignatureRequests`
two requests are the least for a double seat and for a send after a cancellation; two
persons for a seat that waits for another. The engine needs two steps for a prerequisite,
two persons for a person who leaves or joins, one plain and one signable definition for
each way a row is provided. A graph of four steps has room for a cycle reached by two ways and
for a step that is gone through twice. Two reminders give a shared mail, or a refused one and
one behind it. Four or five events give an activation, a failure, a recovery and a late one, of one subscription
or of two. Two seats in a trial, one included and a pool of two give each count a boundary
that three people cross; one provider under a cap of one is both below and at it. Two
invitations are two reminders of one run, or a link and its successor; the family's three are a
creation and any two of corrections, rotations and a second person, so that a correction meets
a rotation or another correction. Three godchildren reach the cap
of the tier minus one and every order of expiry; a credit of five against a cycle of three
has an invoice on each side of every boundary, and one on it. `MaxFaults`, `MaxEdits`, `MaxEvents`, `MaxGrants` and `MaxOpen` are the only
cut-offs; each is a CONSTANT with an assumption, and appears as a guard of the action it
bounds. Symmetry is used only where the permuted values occur in no definition by name, and never
with a liveness property: the persons of `signature_concurrent` are interchangeable
because all are there from the start, those of `signature_serial` are not.

*Two instances in one run.* `step_serial` runs the search to its end on a template and then,
after one template, a case; `activation` runs the agency's cases or the family's. The parts
share nothing but the module that instantiates them (`SearchThenCase`, `OneInstance`), so their
states add up. `OneInstance` also keeps the family's two sessions to the overlaps for which the
door is promised, the two conditions of `ActivationDoorStaysOpen` (section 4); without them it
closes (section 5).

`CHECK_DEADLOCK FALSE` everywhere: a case whose bounded histories are exhausted, or a
ledger whose packs and requests are used up, has nothing left to do.

*One handler or two.* Several properties hold one handler at a time and not two (section
5): the code reads without a lock and never checks again. The serial runs are not idle
for that: one handler meets every reordering, repetition, loss, rollback and provider
event, and every sequence of gestures.

### Fairness

* `SignatureRequests!FairSpec`: a handler that runs goes on (weak fairness of
  `Continue`: web workers run, and every call has a timeout that makes it fail); an
  event DocuSeal still holds is accepted again and again (strong fairness of `Deliver`
  per event, strong because a handler may be busy: DocuSeal retries until a 2xx).
  Nothing is assumed of signers and agents.
* `ReminderDispatch!FairSpec`: the scheduler keeps ticking and a run goes on (weak
  fairness of `Dispatch`), a handler's commit happens. Agents approve, edit, correct an
  address, cancel, or do nothing. What is due is promised to leave only if no address is
  refused (section 5).
* `PaddleWebhooks!FairSpec`: Paddle retries what it has no 200 for, per event (weak
  fairness), and a session ends.
* `ClientActivation!FairSpec`: the scheduler ticks and a run goes on, per run. Sessions,
  clocks and crashes are owed nothing: crashes are bounded, so a run ends.
* `ReferralDiscount!FairSpec`: time passes, invoices are issued and subscriptions that were
  cancelled end (Paddle's clock), and a recompute that was called for is made or fails (the
  session ends). No conversion, resumption or change of cycle is assumed, and no success:
  the invoice's lazy tick is what makes a lost recompute good.

## 4. Proofs

`CreditLedgerProofs`, for any sets of transactions, finite sets of requests and packs and
any positive `Pack` (`LedgerAssumption`):

* `LedgerTypeCorrect`, `LedgerBalanceIsDerived`, `LedgerPurchasedOnce`: `Spec => []P` for
  the three invariants of the run.
* `LedgerImplementsAccount`: `Spec => ImplementsAccount`, the atomic account.
* `LedgerSettledOnce`: `Spec /\ []NoRivals => []SettledOnce`, where `NoRivals` says that no two
  transactions are settling one request. The instance of `ledger` refutes `SettledOnce` (section 5); the
  theorem says that this race is its only cause. `SettleInv`: a settlement that has begun still finds
  its reservation alive.
* `LedgerPaidIsCredited`: `Spec /\ []FirstAlone => []PaidIsCredited`, where `FirstAlone` says that
  transactions run one by one until the balance row exists. It is the property the run
  `ledger_lost_pack` refutes: the INSERT that loses the race for the first row is all that it
  fails for.

`BalanceIsDerived` is not inductive: nothing in it says that the values a transaction
stores are those it loaded from the CURRENT row. `Inv` adds `LockInv` (whoever is at
"write" holds the lock, and what it has loaded is the committed balance; no row means a
zero balance) and `OpInv` (an operation under way is well formed, and has amount 1 when it
settles). It says nothing of who else is crediting the same pack: any number may be, and
`PurchasedOnce` rests on the unique key that `Commit` meets (`Belt`). Each action
has its lemma: `StartInv` for the five ways to begin, `TakeInv` for the two ways to get
the row, `CommitInv`, and `GiveUpInv` for every end without a write. The refinement
follows: only `Commit` changes `row`, and under `Inv` it is one account operation on the
balance the previous commit left.

`StepEngineProofs`, for any journey and persons (`StepAssumption`):

* `StepTypeCorrect`, `Spec => []TypeOK`, for any number of concurrent handlers. `TypeOK` says
  that the holder of the case stays on it, which needs `HolderStays`: no write under way
  removes her. The module has a lemma per group of actions and per helper that builds a write.
* Four properties of `step_serial` and two that no run checks (`PrerequisitesAcyclic`,
  `LastClosureValidates`), for any number of handlers that overlap. A handler takes no lock, so each needs that a certain pair of them does not,
  and each has its own hypothesis:

  | Theorem | Property | Hypothesis: at no time |
  |---|---|---|
  | `StepNoOrphanRow` | `[]NoOrphanRow` | `RowsApart`: is a requirement about to be deleted while somebody is about to add rows of it |
  | `StepPrerequisitesAcyclic` | `[]PrerequisitesAcyclic` | `EdgesApart`: are two about to set prerequisites |
  | `StepLockHolds` | `LockHolds` | `LockApart`: is somebody about to reopen a done step or to set prerequisites while another is about to move a step; starts and closures may overlap |
  | `StepStatusFollows` | `StatusFollowsSteps` | `StatusApart`: is somebody about to move or add a step, or to write the status of the case, while another is about to move or add a step |
  | `StepLastClosureValidates` | `LastClosureValidates` | `StatusApart` |
  | `StepProvidedCloses` | `ProvidedCloses` | `PiecesApart`: is anybody at work beside a handler that brings a piece |

  The argument has two parts. `Sound(w)` says what the write a handler begins will bring: a step
  moved has its prerequisites done in what is written with it, the case follows its steps, the
  rows of a requirement that is removed go, an edge closes no cycle (`MakesNoCycle`: the edges
  checked are those it commits on), and no step is left open with all provided. Then each
  property has its invariant (`RowsInv`, `EdgesInv`, `LockInv`, `StatusInv`, `PiecesInv`), which
  keeps the one conjunct of `Sound` it needs true of every pending write through the commits
  that its hypothesis lets in.
* `SearchVerdictIsRight`, `SearchSpec => []VerdictIsRight`, for any set of steps: when the
  search returns, it is right. `GrayPath`: the steps being explored are a path of
  prerequisites, so that one met again closes a cycle. `Explored`: the steps explored to their
  end are free of cycles and wait for no other step, which stays true although a step may be
  gone through twice.

`SignatureProofs`, for any number of handlers, requests and persons
(`SignatureAssumption`, which contains the ledger's):

* `HandlersUseLedger`, `Spec => LedgerSpec`: every step of a handler, of DocuSeal or of a
  failure is a step of the ledger or leaves it alone. A handler that settles must do so for
  a request that exists, which the type of its unit of work does not say: `RequestTypeOK`
  adds that a handler at "provider" or "check" has one, and is inductive.
* `SignatureTypeCorrect` (`[]TypeOK`) and `SignaturesKeepTheBalance`: the ledger's theorems,
  proved once for any transactions, hold of the ledger the handlers drive. The lemma
  `LedgerTheorems` shows that the two instances, of the module and of its proofs, are the
  same formulas.
* `SignaturesStayReal`, `CompletedIsSignedOrRefused`: `[]SignaturesAreReal` and
  `[]CompletedIsAnswered`, for any number of handlers that overlap: each seat of a completed
  request is signed, in the database as at DocuSeal, or was refused there. That a refusal is
  enough is the code's doing, against what it says (section 5). `RealInv`
  follows a signature from DocuSeal to the requirement: an event of completion, or a handler, has
  it only if the form is signed; no two handlers send one request (`SendsApart`); and a handler
  about to complete a request writes the signature of everyone it still waits for.
* `OneCreditPerOpenRequest`, `OneSettlementPerRequest`: `[]LiveHoldsCredit` and
  `[]Ledger!SettledOnce` under `[]RequestsApart`: no two handlers work on one request, as if its row
  were locked first. Handlers of different requests overlap as they may, on the one balance row.
  `CreditInv` says which ledger operation each handler is in the middle of: a send reserves for a
  row that does not exist yet, a terminal status is written only when the reservation is
  settled (`JobHoldsCredit`), and a request is never reserved twice without a settlement
  between (`CountsAreSingle`).
* `SeatedOnce`: `[]NoDoubleSeat` under `[]RequestsApart /\ []OneSend` (no two sends overlap): signatures,
  cancellations and expiries may fall anywhere between the guard of a send and its commit, since
  `SendsFreeSeats` says that they only free seats. Two sends refute it (section 5).

`ReminderProofs`, for any reminders, steps, texts and crashes:

* `RemindersAreTyped`, `Spec => []TypeOK`, for any number of agents and of runs; `EditsFit` adds
  that an edit under way was read below the bound.
* `OnlyApprovedTextLeaves`, `[]ApprovedOnly` under `[]HandsApart`: no two handlers hold one
  reminder (two refute it, section 5). Any number of runs may overlap, crash and read again.
  `ApprovedInv`: an approved row has its very text approved; what a handler is about to write was
  read from the row as it still is (`IsTrue`); what a run holds in its queue, has sent or will
  fail was approved with the text it read (`RunIsTrue`), even if the row is edited since.
* `OneMailForOneApproval`, `[]OneMailPerApproval` under `[]HandsApart /\ []RunsApart`: no two runs
  hold one reminder either, which is what their row locks are for and two runs refute. Mails and
  approvals are counters, so the invariant `MailsFit` is about debts: a version that is approved
  and has not just left, or that waits in a queue, is owed a mail, and there are then
  fewer mails than approvals and crashes.
* `SentStaysSent`, `TerminalIsFinal` (a property section 5 refutes with one run and one agent)
  under `[]RowsApart`, the same with no handler holding what a run holds. `OpenInv`: whatever is
  held is still open, a run's queue, its mails and its failures are apart, and only holders
  write a status.

`PaddleProofs`, for any subscriptions, plans, events, deliveries and crashes
(the assumption of `PaddleWebhooks`):

* `TypeIsKept`, `Spec => []TypeOK`, for any number of sessions: `EventsInv` adds that the status of
  an event follows from its type, that a subscription is activated once, and that a delivery
  carries an event that was emitted.
* `ConvertedIsAnnouncedOnce`, `[]SignalOnce` (the `agency.converted` of the webhooks) for any number of overlapping deliveries, under
  `OneSubscription`: of the subscriptions no other agency pays, the agency has one. With two, both
  activations convert (section 5). `ConvertsInv`: who converts works on an activation; and
  `SignalsOnFile`: the signal leaves in the commit that stores the event, once.
* `ConversionIsKept` (`DateMovesByHandOnly`), for any number of subscriptions, under
  `[]ConversionsApart`: no two sessions overlap that have read an unconverted agency and may
  convert it, namely PATCHes and the activations of two events. Copies of one delivery may
  overlap, and so may anything once the agency is converted. The date of conversion, once posed,
  moves only to the date a PATCH gives: an explicit `converted_at` wins, as the code says
  (`src/agencies/agencies_manager.py:896`), and nothing else moves or unsets it.
  `ConvertedInv`: once the agency is converted, whoever could convert it
  works on an activation that is on file, and will find it a duplicate.
* `WebhooksAnnounceOnceInALife`: `[]SignalOnce` under the same hypothesis, over all the
  subscriptions of the agency and whatever PATCHes convert it or move its date meanwhile. It
  counts what webhooks emit; a PATCH with a plan emits `agency.converted` anew each time.
* `ConversionIsKeptThroughOverlap`: `DateMovesByHandOnly` from conditions on the instance,
  `OneSubscription` and `[]PatchAlone` (nothing runs beside a superadmin's PATCH), by the lemma
  `PatchAloneIsEnough`: then every delivery may overlap every other.
* `ManualIsKept`, `ManualIsProtected` under `[]PatchAlone`: what changes a converted manual agency is a
  PATCH, and that changes its plan and its date.
* `GraceFollowsStatus`, `NewestStatusWins` (`[]P`), `StatusNeverBack` under `[]StatusApart`: the
  deliveries of two different status events do not overlap; copies of one, all other
  deliveries and PATCHes may, in any order and dying anywhere. `KeepsStatus`: a session that bears
  no status writes none, and one that bears one has read the row's and computes its own
  from it, until a copy of it commits. That a set of events has a newest one (`NewestExists`)
  is shown by a smallest set of later ones, since those sets are well founded.

`ReferralProofs`, for any finite set of godchildren, any life of a credit, any billing
cycles, any number of overlapping recomputes and of losses (`ReferralAssumption`):

* `ReferralNeverOverDiscounted`, `Spec => []NeverOverDiscounted`. The property speaks of the
  next invoice; the invariant must speak of the last one a discount covers. `EarnedBy(d)`
  says that some set of credits gives the rate of `d` and that each outlives
  `next + (left - 1) * cycle`; it holds of what is posed AND of what a recompute in flight
  wants to pose. The lemmas carry the arithmetic: `CoveredInvoices` (division),
  `TierMonotonic` (more credits never give less), `FirstExpiryIsFirst`, `WantedIsEarned`,
  `CreditsOnlyGrow`.
* `ReferralPosedIsEarned`, `[]PosedIsEarned` under `[]RecomputesApart`: any number of recomputes, of
  which no two overlap; two that do break it (section 5).
* `ReferralTypeCorrect`.

`ActivationProofs`, for any sessions, runs, cases, persons, addresses and invitations:

* `ActivationDoorStaysOpen`, `Spec /\ [](Undisturbed /\ OwnAddress) => []DoorStaysOpen`, whatever
  addresses may be typed for whom. `Undisturbed`: until a correction has read the links, no
  commit has moved its person or activated her account. `OwnAddress`: no two persons of a case
  hold one account; the code asks that when it corrects an address and not when it adds a person.
  Without either the door closes (section 5). All else may overlap: rotations with each other
  and with corrections, two corrections of one case, activations, removals. `DoorInv`: whoever
  waits has a link that `Lasts`, that is, a pending one which no session at work cancels without
  minting another for the same address or moving the person (`Covers`); and what a session is
  about to write is `Safe`: the address it gives comes with its link, what it accepts is
  activated. The door is used once, in the last read of a correction: the code mints a new
  link only if it cancelled one, and by the door it did.
* `ActivationTypeCorrect`, `Spec => []TypeOK`, without these conditions (`TypeInv`).
* `ActivationRemindedOnce`, `[]RemindedOnce` under `[]RunsApart`: no two runs
  have one row on their lists. The scheduler never starts a run beside its own (`max_instances`),
  but one may be triggered by hand meanwhile, and breaks the property (section 5). `MailInv`
  counts: the mails of a stage are at most the crashes, and one more only if the stage is `Told`,
  written down or about to be by the run that mailed it; the stages that left twice, or once and
  that nobody will write down (`Slips`), are no more than the crashes, since a run that dies
  owes one record at most; and what a run has loaded is `Ahead` of
  what is written. A row that is rotated or corrected keeps its stage (`Stays`), so no session
  matters.

`SeatProofs`, for any sessions, members, providers and invitation rows (`SeatAssumption`):

* `SeatPhantomIsInvited`, `Spec => []PhantomIsInvited`, checked by `seats` with one session and
  proved for any number. `Safe(w)`: whoever closes the invitation of a provider removes the
  agent or gives it an owner, whoever creates the agent opens an invitation. `Exclusive`: an
  invitation row being opened is touched by no other session, so that closing one that was
  closed already and opened again for somebody else does not happen (a row is a new id).
* `SeatKeepsManager`, `[]KeepsManager` under `[]ManagersApart`: of two sessions that overlap, one
  touches no admin. `KeepsManager` is not inductive: it says nothing of what a session has read
  and not yet written. `ManagerInv` adds that some active admin is outside `Touched(w)`, the members
  each session is about to rewrite; `_assert_agency_keeps_manager`, asked when the session
  begins, provides that admin. Two sessions that both touch one refute it (section 5).
* `SeatsAreTyped`, `Spec => []TypeOK`, for any number of sessions: the pool is never negative,
  and neither is what a session will write.
* `SeatPoolFollows`, `SeatTrialCapHolds` under `[]SeatsApart`: of two sessions that have read and
  not yet committed, one is `Elsewhere`, its write being about providers and about neither the
  members, their invitations, the pool nor the subscription. Pushes to Paddle may come as late
  as they like, during anything. `CountInv` says of what each session is about to write that it
  is `Counted`: the pool moves by the readers seated or unseated, or by a purchase or an
  adoption (`Balanced`); a trial grows up to its cap or not at all (`Capped`). The lemmas count:
  seating or unseating one person moves a cardinality by one (`Moves`, `CountMove`), and a write
  `Elsewhere` moves none (`ElsewhereCounts`).
* `SeatPaddleIsDerived`, `[]PaddleIsDerived` under `[]BillApart`: no two sessions that read, write or
  push what is billed are at work at once, beside any number of sessions about providers
  (`Beside`). `PoolInv` says that what such a session writes `Fits` (it is balanced, capped, and
  changes no quantity that Paddle is not told of, `Quiet`) and what Paddle holds meanwhile.
  For the three, two sessions that both seat members refute the property (section 5).
* `SeatProviderCap`, `[]ProviderCapHolds` under `[]AccessApart` (no two sessions that overlap both
  open a provider's access): a property no run checks, since it takes an instance of its own, two providers for one place, where TLC finds that it holds with
  one session and refutes it with two. The limit is that of one plan: a change of plan may leave
  more providers than the new one allows.

The hypotheses written `[]...` are predicates on the state, and not promises of the code:
requests about one agency or one case may overlap. They put no bound on the number of handlers,
runs or sessions; every behaviour on which units of work follow one another satisfies them
(`OwnAddress` apart, which one session can break), and all but one (`RecomputesApart`) name
a kind of overlap and let all others happen. For each theorem, section 5 gives an overlap that its hypothesis excludes and that breaks
the property. Together they say what a lock would have to cover, and that nothing else can
go wrong: no sequence of requests, failures, replays and late answers, of any length.

Proving showed one flaw of the models: `CASE` with overlapping arms in `PaddleWebhooks` and
`SeatPool`, where TLA+ leaves the choice open and TLC takes the first arm that fits. They are now
nested conditions in the order of the code.

What stays with TLC: liveness under fairness (`EndedRequestSettles`, `DueLeaves`,
`EventuallyStored`, `DueReminderLeaves`, `LostIsMadeGood`), which is beyond the prover, and
everything about enabledness. Every other property of the passing runs is a theorem.

## 5. Divergences

One is a run and a finding of `PROJECT.json`: `ledger_lost_pack`. The following were met
while modelling; each is a definition of its module that TLC refutes on the instance named, all other
constants as in the passing run of that module. The farthest-reaching are
`CompletedIsSigned`, a plain sequence of two events, `PrerequisitesAcyclic`, since a cycle locks its
steps on every case for good, and `DoorStaysOpen` with its neighbour `ActiveKeepsAddress`.

| Definition | Instance | What happens | What the sources say |
|---|---|---|---|
| `CompletedIsSigned` | 1 handler, 1 request, 2 clients | a client refuses, the other signs: the refused seat is no longer pending, so the request is completed and its credit consumed, provided that DocuSeal serves the documents of such a submission (if not, every retry of the event fails) | "Tous signés : consume du crédit", `src/signatures/signatures_manager.py:548` |
| `SettledOnce` | `ledger` as it is | a cancellation and an expiry both read a live reservation, then lock in turn: two settlements while another request keeps `reserved` positive | "un seul release", `src/signatures/ledger.py:241` |
| `NoDoubleSeat` | 2 handlers, 1 person, 2 requests | two resends both read the seat as free | "n'est jamais reassise", `src/signatures/signatures_manager.py:104` |
| `LiveHoldsCredit` | 2 handlers, 1 request | a cancellation settles the credit and commits while the handler of a signature, which read the request as sent, commits `partially_signed` over it: an open request without its credit | "Une demande déjà complétée/annulée ne bouge plus", `src/signatures/signatures_manager.py:696` |
| `EndedRequestSettles` | 2 handlers, 2 clients, `FairSpec` | the two last signers each see the other pending; the request stays partially signed and its credit reserved, every event answered | "une demande en vol converge toujours", `src/signatures/flags.py:10` |
| `FreedSeatsCanBeResent` | 1 handler, a late person | one more free seat than the template has roles: the resend is refused for good | "renvoie les demandes de signature manquantes", `src/signatures/signatures_router.py:353` |
| `DeadStaysDead` | 1 handler, 1 request, 1 client | the last signature is answered after a cancellation: a cancelled request comes back as completed | "Une demande déjà complétée/annulée ne bouge plus", `src/signatures/signatures_manager.py:696` |
| `LockHolds` | 2 handlers, one edge | a step starts on a prerequisite reopened before its commit | "requires all CURRENT prerequisites DONE", `src/progress/progress_manager.py:1322` |
| `LastClosureValidates` | 2 handlers, 2 steps | each closes one step and sees the other open: the case is never validated | "ALL steps validated", `src/progress/progress_manager.py:1270` |
| `StatusFollowsSteps` | 2 handlers | a status set by hand (validated) is committed between the read of an AssignJourney and its commit: the case stays validated with a step to do | "a step reopened (or newly instantiated) on a VALIDATED case → back to IN_PROGRESS", `src/progress/progress_manager.py:1270` |
| `ProvidedCloses` | 2 handlers, 2 definitions on one step | two uploads each see the other missing: nobody closes the step | "se clot seule", `docs/step-validator.md:23` |
| `NoOrphanRow` | 2 handlers | a requirement is deleted while a start materializes it; the row survives | "no row must ever carry a NULL", `src/progress/progress_repository.py:515` |
| `PrerequisitesAcyclic` | 2 handlers, 2 steps | a -> b and b -> a are set at once | "full-graph validation on EVERY mutation", `src/journeys/journeys_manager.py:1130` |
| `CoversComposition` | 1 handler, 2 persons | a person joins while a step is done; reopening it gives her no row | "elles rattrapent au reopen", `src/progress/progress_manager.py:612` |
| `SignableRowsAreSent` | 1 handler | reopening materializes a signable row and sends nothing | `src/progress/progress_manager.py:676` |
| `MissingSignatureCanBeAsked` | 1 handler | the signed document is deleted; the completed request still seats the person, so nothing can be re-asked | `src/signatures/signatures_router.py:353` |
| `NewlyMetCloses` | 1 handler | removing a person, a requirement or a request recomputes nothing: the step stays open with all provided | `docs/step-validator.md:23` |
| `TerminalIsFinal` | 1 run, 1 agent; or 2 runs | a cancellation or an edit begun before the mail is committed over SENT; of two runs with one reminder, one sends it and the other, which finds its step validated meanwhile, records it cancelled | "Only to_approve or approved reminders can be edited", `src/reminders/reminders_manager.py:766` |
| `ApprovedOnly` | 2 agents | an approval is committed over an edit nobody has read | "Nothing is ever dispatched before APPROVED", `shared/models/reminder.py:22` |
| `OneMailPerApproval` | 2 runs | the first log line of a run ends its row locks: the other run takes and mails the same reminder | "never process the same row twice", `src/reminders/reminders_jobs.py:200` |
| `DueLeaves` without its exception | one refused address, `FairSpec` | the send raises and fails the run, at every tick, before the reminders behind it | `src/reminders/reminders_jobs.py:9` |
| `NeverBack` | 2 deliveries | both find nothing newer on file, the older commits last | "never overwrites a newer one", `shared/models/paddle_event.py:17` |
| `AnchorFollowsStatus` | 2 deliveries | a cancellation that read the row before past_due leaves its anchor | "cleared by any other status", `shared/models/agency.py:158` |
| `StatusIsNewest` | 2 deliveries, 1 subscription | after the activation, a past_due and a newer active are delivered at once: the newer reads the row as active and has no change to write, the older commits past_due | "a stale status event never overwrites a newer one", `shared/models/paddle_event.py:17` |
| `DateMovesByHandOnly` | 2 deliveries, 2 subscriptions | both activations convert, the later commit with its own date | "NEVER overwritten", `src/billing/billing_manager.py:657` |
| `ManualIsProtected` | a delivery and a superadmin at once | an event that read the agency before the PATCH writes after it | `src/billing/billing_manager.py:536` |
| `Converges` | 1 delivery at a time, 1 subscription | a past_due delivered before the activation is ignored but on file, so the activation finds itself stale: converted, and no status | "Every handler is CONVERGENT", `src/billing/billing_manager.py:6` |
| `ProcessedWins` | diverging quantities | an ignored event makes an older one stale | "already processed", `src/billing/billing_manager.py:514` |
| `LinkIsLatest` | 2 subscriptions | a late activation takes the link back to a dead subscription | `src/billing/billing_manager.py:608` |
| `PoolCovers` | 1 session | a reader's invitation that expired in the trial is not adopted by the conversion, then cancelled or swept after it: it takes back a seat somebody else sits on | "never offered by accident", `src/agencies/agencies_manager.py:903` |
| `KeepsManager` | 2 sessions | two managers deactivate each other, each reading the other as active | `src/roles/roles_manager.py:55` |
| `TrialCapHolds` | 2 sessions | two invitations both count the last seat of the trial | `src/agencies/agencies_manager.py:1573` |
| `ProviderCapHolds` | 2 sessions, 2 providers | two invitations both count the last place of the plan | `src/agencies/agencies_manager.py:1610` |
| `PoolFollowsOccupancy` | 2 sessions | an invitation that read the agency before a conversion commits buys no seat; two purchases write the same absolute value | `src/agencies/agencies_manager.py:1573` |
| `PaddleIsDerived` | 2 sessions | an invitation that loaded the agency in trial pushes nothing after the activation | `src/billing/billing_manager.py:292` |
| `OneLiveLink` | 2 sessions and 3 invitations; or 1 session and two persons of a case at one address; or 1 session, 1 person, 2 addresses and 4 invitations | two resends each cancel what they saw, and each mint a link; or an address is corrected, its dead link renewed by whoever has it (`src/auth/auth_manager.py:272`), and the correction taken back, which cancels the links of the other address only (`src/cases/cases_manager.py:1295`) | "so a case never carries two live activation tokens", `src/cases/cases_manager.py:1423` |
| `RemindsTheWaiting` | 1 session, 1 run | the rows are loaded once: a client who activates while the run mails is reminded, and a link rotated meanwhile is sent dead | "CE QU'ELLE NE FAIT JAMAIS : relancer sur un lien mort [...] relancer un compte déjà actif", `src/cases/activation_jobs.py:14` |
| `RemindedOnce` | 2 runs, no crash | a run triggered by hand while the scheduler's mails loads the same stage and mails it again | "idempotent et un tick manqué rattrape sans doubler", `src/cases/activation_jobs.py:12` |
| `ActiveKeepsAddress` | the family, 2 sessions, without `OneInstance` | a correction has found the account inactive; the activation commits before the correction does, and the person loses the account just activated | "This person has an active account; the email change is theirs to make", `src/cases/cases_manager.py:1268` |
| `DoorStaysOpen` | the same | as above, the activation (or another correction) committing before the links are read: none is left to cancel, so no new one leaves, and the person has a new account that nobody can activate | `src/cases/cases_manager.py:1314` |
| `DoorStaysOpen` | the family, 1 session, without `OneInstance` | a person is added at the address of another; correcting one cancels the link of both | "une autre personne du dossier porte deja cet email -> 409", `src/cases/cases_manager.py:1282` |
| `NeverOverAnyCycle` | as `referral` | the billing cycle is not part of `referral_key`: after a change of cycle a recompute that was lost, or that keeps the same key, leaves a count of invoices made for the other cycle | `src/referral/referral_manager.py:310` |
| `ForeignIsKept` | as `referral` | a promotion posed by hand between the read and the pose is overwritten | `src/referral/referral_manager.py:302` |
| `PosedIsEarned` | 2 recomputes | the one that read first poses last | `src/referral/referral_manager.py:266` |

`NeverOverDiscounted` therefore speaks of discounts that are not `stale`: counted for the cycle
in force. `PosedIsEarned` needs no such condition, since it waits for a recompute after the last
change.

## 6. Not modelled

Parts left out of modelled components: mails and file storage of the signatures,
`propagate_requirement_update` and field requirements of the step engine, sub-cases,
the delivery webhooks and escalation tokens of the reminders, the pause and window of
the job runner, the quotes and the portal session of billing, the settings of an agency,
search, archiving and custom fields of a case.
Timestamps appear only where the code compares them (Paddle's `occurred_at`, the grace
anchor, the ages of an invitation, the life of a referral credit); due dates of reminders
are taken as reached. Authentication but for the activation of a client, signup, the notification
window, the AI quota, the document templates and the other mail sweeps are listed in section
7. The components of the second list of section 1 stay out, with the reason each has in
`PROJECT.json`: most of the repository's lines are seeds, e-mail templates, catalogs of
fields, imports, schemas and listings, which have no protocol, so the modules cover the
part of the code that decides and not most of its text.

## 7. Plan

Done, in this order: ledger and its proofs, signatures on the ledger and the proof that they
use it as specified, step engine and its types, reminders, Paddle webhooks, seats, client
activation with its reminders, referral, the proofs of the last three, then of the safety
properties of the others; the search for a cycle and its proof.

Next modules:

1. `DocumentTemplates`: the draft, its promotion, the provider's copy and the sweep of
   drafts, whose locks end at its first log line.
2. `DeliveryProof`, on `ReminderDispatch`: the mail provider's webhooks against the
   commit of the message id.
3. `CheckThenRecord`: the notification window and the AI quota, two instances of a check,
   an action and a record without a lock.
4. `CodeChallenge`: one module for the codes of the signup and of MFA (attempts, expiry,
   single use, backup codes), with the completion token.
5. `MailSweeps`: the other jobs that mail and then record, on the session of the job runner.

Runs are shared as far as an instance serves several properties; new modules take the
place of the runs a later instance makes redundant.

Theorems to come: those of the next modules.
