----------------------------- MODULE PaddleWebhooks -----------------------------
(***************************************************************************)
(* The Paddle webhooks of one agency (handle_webhook and the handlers it   *)
(* dispatches to, src/billing/billing_manager.py).  Paddle says what        *)
(* happens to a subscription in events that it delivers at least once, in  *)
(* any order and possibly side by side; a delivery is a session that reads *)
(* the agency's row without a lock, computes, and at its flush writes only *)
(* the columns it changed.  The unique event_id is the idempotence gate.   *)
(***************************************************************************)
EXTENDS Integers, Sequences, FiniteSets, FiniteSetsExt

CONSTANTS
    Handlers, NoHandler,  \* deliveries under way at once
    Admins,               \* superadmins at the manual PATCH
    Subs, NoSub,          \* Paddle subscriptions
    Plans, NoPlan,        \* NoPlan: price ids the environment does not know
    OnSale,               \* what is sold, a subset of Plans and NoPlan
    Tagged,               \* subscriptions whose custom_data names the agency
    Taken,                \* those whose customer another agency has
    Diverging,            \* may the seat quantities echoed differ from ours?
    Dates,                \* the converted_at that a PATCH may carry
    MaxOpen,              \* sessions open at once
    MaxEvents,            \* bound on what Paddle emits
    MaxFaults             \* bound on crashes of a delivery

ASSUME PaddleAssumption ==
    /\ Handlers \cap Admins = {} /\ NoHandler \notin Handlers
    /\ NoSub \notin Subs /\ NoPlan \notin Plans /\ OnSale \subseteq Plans \cup {NoPlan}
    /\ Tagged \subseteq Subs /\ Taken \subseteq Subs
    /\ Diverging \in BOOLEAN /\ Dates \subseteq 1..(MaxEvents + 1)
    /\ MaxOpen \in Nat \ {0} /\ MaxEvents \in Nat /\ MaxFaults \in Nat

VARIABLES
    emitted,    \* Paddle's events; the place of one is its id and its occurred_at
    row,        \* the billing columns of the agency
    stored,     \* paddle_webhook_event rows of the agency
    orphans,    \* those stored without an agency
    processed,  \* events whose handler answered "processed"
    work,       \* what each session is doing; "event" is the event delivered
                \* or, in a PATCH, the converted_at it carries
    lock,       \* who has flushed the agency's row and not committed
    signals,    \* agency.converted emitted by webhooks (a PATCH with a plan
                \* emits its own, each time: not counted)
    faults

vars == <<emitted, row, stored, orphans, processed, work, lock, signals, faults>>
ledger == <<stored, orphans, processed, signals>>

Sessions == Handlers \cup Admins
Times == 0..MaxEvents + 1   \* 0: never
StatusEvents == {"activated", "past_due", "canceled", "resumed", "updated"}
BillingStatus == {"none", "active", "past_due", "canceled"}
Event == [type: StatusEvents \cup {"created"}, sub: Subs, plan: OnSale,
          status: {"active", "past_due", "paused", "canceled"}]
Row == [mode: {"manual", "paddle"}, converted: Times, plan: Plans \cup {NoPlan},
        sub: Subs \cup {NoSub}, customer: Subs \cup {NoSub},
        status: BillingStatus, since: Times]

NewAgency == [mode |-> "manual", converted |-> 0, plan |-> NoPlan, sub |-> NoSub,
              customer |-> NoSub, status |-> "none", since |-> 0]
Idle == [at |-> "idle", event |-> 0, seen |-> NewAgency, new |-> NewAgency, ok |-> FALSE]

Init ==
    /\ emitted = <<>>
    /\ row = NewAgency
    /\ stored = {} /\ orphans = {} /\ processed = {}
    /\ work = [h \in Sessions |-> Idle]
    /\ lock = NoHandler
    /\ signals = 0
    /\ faults = 0

-----------------------------------------------------------------------------
(* Paddle.                                                                 *)

EventsOf(s) == {i \in DOMAIN emitted : emitted[i].sub = s}
State(s) == IF EventsOf(s) = {} THEN "none" ELSE emitted[Max(EventsOf(s))].status
Plan(s) == emitted[Max(EventsOf(s))].plan

Emit(types, s, status, plan) ==
    /\ Len(emitted) + Len(types) <= MaxEvents
    /\ emitted' = emitted \o [i \in DOMAIN types |->
                      [type |-> types[i], sub |-> s, status |-> status, plan |-> plan]]
    /\ UNCHANGED <<row, ledger, work, lock, faults>>

(* create_checkout lets the agency through, and it pays.                   *)
CheckoutOpen ==
    IF row.mode = "paddle" THEN row.sub = NoSub \/ row.status = "canceled"
                           ELSE row.converted = 0

Subscribe(s, plan) ==
    /\ CheckoutOpen
    /\ State(s) = "none"
    /\ Emit(<<"created", "activated">>, s, "active", plan)

PaymentFails(s)   == State(s) = "active" /\ Emit(<<"past_due">>, s, "past_due", Plan(s))
PaymentBack(s)    == State(s) = "past_due" /\ Emit(<<"updated">>, s, "active", Plan(s))
Pause(s)          == State(s) = "active" /\ Emit(<<"updated">>, s, "paused", Plan(s))
Resume(s)         == State(s) = "paused" /\ Emit(<<"resumed">>, s, "active", Plan(s))
ChangePlan(s, p)  == State(s) = "active" /\ p # Plan(s) /\ Emit(<<"updated">>, s, "active", p)
PeriodEnds(s)     == State(s) \in {"active", "past_due"} /\ Emit(<<"canceled">>, s, "canceled", Plan(s))

-----------------------------------------------------------------------------
(* The shared pieces of the handlers.                                      *)

Ev(h) == emitted[work[h].event]

\* Mutant: out-of-order deliveries are not looked for.
Stale_Never(e) == FALSE

\* Mutant: any other status event on file counts, older or newer.
Stale_AnyOther(e) == \E n \in stored : n # e /\ emitted[n].type \in StatusEvents

(* _status_is_stale: a newer status event is on file.                      *)
Stale(e) == \E n \in stored : n > e /\ emitted[n].type \in StatusEvents

\* Mutant: the anchor of the grace period survives the recovery.
ApplyStatus_KeepsAnchor(r, status, at) ==
    [r EXCEPT !.status = status,
              !.since = IF status = "past_due" /\ @ = 0 THEN at ELSE @]

ApplyStatus(r, status, at) ==
    [r EXCEPT !.status = status,
              !.since = IF status = "past_due" THEN (IF @ = 0 THEN at ELSE @) ELSE 0]

\* Mutant: a manual conversion does not keep the webhooks out.
ManualGuard_NotConverted(r, type) ==
    r.mode # "paddle" /\ type \notin {"created", "activated"}

(* A manual agency is written by the conversion only, once.                *)
ManualGuard(r, type) ==
    r.mode # "paddle" /\ (type \in {"created", "activated"} => r.converted # 0)

Fill(old, new) == IF old = NoSub THEN new ELSE old

Adopt(r, s) == [r EXCEPT !.sub = s, !.customer = s, !.mode = "paddle"]

\* Mutant: a re-subscription converts anew.
Convert_Again(r, plan, at) ==
    IF plan = NoPlan THEN r ELSE [r EXCEPT !.plan = plan, !.converted = at]

(* The conversion, and the refreshed plan of a re-subscription.            *)
Convert(r, plan, at) ==
    IF plan = NoPlan THEN r
    ELSE [r EXCEPT !.plan = plan, !.converted = IF @ = 0 THEN at ELSE @]

(* The columns an UPDATE carries, and the row it leaves.                   *)
Dirty(h) == {c \in DOMAIN row : work[h].new[c] # work[h].seen[c]}
Written(h) == [c \in DOMAIN row |-> IF c \in Dirty(h) THEN work[h].new[c] ELSE row[c]]
RowIsFree(h) == lock \in {NoHandler, h}
CustomerTaken(h) == "customer" \in Dirty(h) /\ work[h].new.customer \in Taken

Open == {h \in Sessions : work[h].at # "idle"}
MayOpen(h) == h \notin Open /\ Cardinality(Open) < MaxOpen

Goto(h, at, new, ok) ==
    work' = [work EXCEPT ![h].at = at, ![h].new = new, ![h].ok = ok]

Unlocked(h) == IF lock = h THEN NoHandler ELSE lock

-----------------------------------------------------------------------------
(* A delivery.                                                             *)

(* The event is not on file (a duplicate answers at once, and changes      *)
(* nothing); the agency is the one custom_data names, else the one linked. *)
Receive(h, e) ==
    /\ MayOpen(h)
    /\ e \notin stored \cup orphans
    /\ LET known == emitted[e].sub \in Tagged \/ row.sub = emitted[e].sub IN
       work' = [work EXCEPT ![h] = [at |-> IF known THEN "dispatch" ELSE "orphan",
                                    event |-> e, seen |-> row, new |-> row, ok |-> FALSE]]
    /\ UNCHANGED <<emitted, row, ledger, lock, faults>>

Dispatching(h, types) ==
    /\ work[h].at = "dispatch"
    /\ Ev(h).type \in types
    /\ ~ManualGuard(work[h].seen, Ev(h).type)
    /\ UNCHANGED <<emitted, row, ledger, lock, faults>>

OnManual(h) ==
    /\ work[h].at = "dispatch"
    /\ ManualGuard(work[h].seen, Ev(h).type)
    /\ Goto(h, "commit", work[h].seen, FALSE)
    /\ UNCHANGED <<emitted, row, ledger, lock, faults>>

OnCreated(h) ==
    /\ Dispatching(h, {"created"})
    /\ Goto(h, "commit", [work[h].seen EXCEPT !.sub = Fill(@, Ev(h).sub),
                                              !.customer = Fill(@, Ev(h).sub)], TRUE)

(* A first conversion needs a price it knows; the ids are adopted anyway,  *)
(* also from the event of a subscription that is no longer the latest.     *)
OnActivated(h) ==
    LET adopted == Adopt(work[h].seen, Ev(h).sub)
        unknown == adopted.converted = 0 /\ Ev(h).plan = NoPlan IN
    /\ Dispatching(h, {"activated"})
    /\ IF unknown THEN Goto(h, "commit", adopted, FALSE)
       ELSE Goto(h, "flush", Convert(adopted, Ev(h).plan, work[h].event), TRUE)

(* The query that follows sends the UPDATE, which locks the row.           *)
Flush(h) ==
    /\ work[h].at = "flush"
    /\ Dirty(h) # {} => RowIsFree(h)
    /\ IF CustomerTaken(h)
       THEN /\ work' = [work EXCEPT ![h].at = "store"]
            /\ UNCHANGED lock
       ELSE /\ work' = [work EXCEPT ![h].at = "status"]
            /\ lock' = IF Dirty(h) = {} THEN lock ELSE h
    /\ UNCHANGED <<emitted, row, ledger, faults>>

ActivatedStatus(h) ==
    LET w == work[h] IN
    /\ w.at = "status"
    /\ Goto(h, "commit",
            IF Stale(w.event) THEN w.new ELSE ApplyStatus(w.new, "active", w.event), TRUE)
    /\ UNCHANGED <<emitted, row, ledger, lock, faults>>

OnStatus(h) ==
    LET w == work[h] IN
    /\ Dispatching(h, {"past_due", "canceled", "resumed"})
    /\ Goto(h, "commit",
            IF Stale(w.event) THEN w.seen ELSE ApplyStatus(w.seen, Ev(h).status, w.event),
            TRUE)

OnUpdated(h) ==
    LET w == work[h]
        plan == IF Ev(h).plan = NoPlan THEN w.seen.plan ELSE Ev(h).plan
        refreshed == [w.seen EXCEPT !.plan = plan] IN
    /\ Dispatching(h, {"updated"})
    /\ \/ /\ Diverging   \* the quantities are not ours: no write
          /\ Goto(h, "commit", w.seen, FALSE)
       \/ Goto(h, "commit",
               IF Stale(w.event) THEN w.seen
               ELSE IF Ev(h).status \notin BillingStatus THEN refreshed
               ELSE ApplyStatus(refreshed, Ev(h).status, w.event), TRUE)

\* Mutant: event_id is not unique, only looked for on arrival.
Commit_NotUnique(h) ==
    LET w == work[h] IN
    /\ w.at = "commit" /\ h \in Handlers
    /\ Dirty(h) # {} => RowIsFree(h)
    /\ row' = Written(h)
    /\ stored' = stored \cup {w.event}
    /\ processed' = IF w.ok THEN processed \cup {w.event} ELSE processed
    /\ signals' = signals + (IF "converted" \in Dirty(h) THEN 1 ELSE 0)
    /\ work' = [work EXCEPT ![h] = Idle]
    /\ lock' = Unlocked(h)
    /\ UNCHANGED <<emitted, orphans, faults>>

(* The event row and the agency's go together, unless another delivery has *)
(* stored the event: "duplicate".                                          *)
Commit(h) ==
    LET w == work[h] IN
    /\ w.at = "commit" /\ h \in Handlers
    /\ w.event \notin stored \cup orphans
    /\ Dirty(h) # {} => RowIsFree(h)
    /\ ~CustomerTaken(h)
    /\ row' = Written(h)
    /\ stored' = stored \cup {w.event}
    /\ processed' = IF w.ok THEN processed \cup {w.event} ELSE processed
    /\ signals' = signals + (IF "converted" \in Dirty(h) THEN 1 ELSE 0)
    /\ work' = [work EXCEPT ![h] = Idle]
    /\ lock' = Unlocked(h)
    /\ UNCHANGED <<emitted, orphans, faults>>

Duplicate(h) ==
    /\ work[h].at \in {"commit", "flush", "status", "store", "orphan"} /\ h \in Handlers
    /\ work[h].event \in stored \cup orphans
    /\ work' = [work EXCEPT ![h] = Idle]
    /\ lock' = Unlocked(h)
    /\ UNCHANGED <<emitted, row, ledger, faults>>

LinkConflict(h) ==
    /\ work[h].at = "commit" /\ h \in Handlers
    /\ CustomerTaken(h)
    /\ work' = [work EXCEPT ![h].at = "store"]
    /\ UNCHANGED <<emitted, row, ledger, lock, faults>>

\* Mutant: the rollback loses the event, and the answer is an error.
StoreAlone_Forgets(h) ==
    /\ work[h].at = "store"
    /\ work' = [work EXCEPT ![h] = Idle]
    /\ UNCHANGED <<emitted, row, ledger, lock, faults>>

(* After the rollback of a link conflict: the event, and nothing else.     *)
StoreAlone(h) ==
    /\ work[h].at = "store"
    /\ work[h].event \notin stored \cup orphans
    /\ stored' = stored \cup {work[h].event}
    /\ work' = [work EXCEPT ![h] = Idle]
    /\ UNCHANGED <<emitted, row, orphans, processed, signals, lock, faults>>

StoreOrphan(h) ==
    /\ work[h].at = "orphan"
    /\ work[h].event \notin stored \cup orphans
    /\ orphans' = orphans \cup {work[h].event}
    /\ work' = [work EXCEPT ![h] = Idle]
    /\ UNCHANGED <<emitted, row, stored, processed, signals, lock, faults>>

Crash(h) ==
    /\ work[h].at # "idle"
    /\ faults < MaxFaults
    /\ faults' = faults + 1
    /\ work' = [work EXCEPT ![h] = Idle]
    /\ lock' = Unlocked(h)
    /\ UNCHANGED <<emitted, row, ledger>>

-----------------------------------------------------------------------------
(* The superadmin's PATCH, refused on an agency that Paddle bills.         *)

\* With a plan, an agency that is not converted is converted now; "date" (0:
\* none) is an explicit converted_at, which wins over any date on file.
ReadPatch(a, plan, date) ==
    /\ MayOpen(a)
    /\ plan # NoPlan \/ date # 0
    /\ row.mode # "paddle"
    /\ LET posed == Convert(row, plan, Len(emitted) + 1)
           dated == IF date = 0 THEN posed ELSE [posed EXCEPT !.converted = date] IN
       work' = [work EXCEPT ![a] =
                  [Idle EXCEPT !.at = "commit", !.event = date, !.seen = row, !.new = dated]]
    /\ UNCHANGED <<emitted, row, ledger, lock, faults>>

CommitPatch(a) ==
    /\ work[a].at = "commit"
    /\ Dirty(a) # {} => RowIsFree(a)
    /\ row' = Written(a)
    /\ work' = [work EXCEPT ![a] = Idle]
    /\ UNCHANGED <<emitted, ledger, lock, faults>>

-----------------------------------------------------------------------------
Paddle ==
    \E s \in Subs :
        \/ \E p \in OnSale : Subscribe(s, p) \/ ChangePlan(s, p)
        \/ PaymentFails(s) \/ PaymentBack(s)
        \/ Pause(s) \/ Resume(s)
        \/ PeriodEnds(s)

Proceed(h) ==
    \/ OnManual(h) \/ OnCreated(h) \/ OnActivated(h) \/ OnStatus(h) \/ OnUpdated(h)
    \/ Flush(h) \/ ActivatedStatus(h)
    \/ Commit(h) \/ Duplicate(h) \/ LinkConflict(h)
    \/ StoreAlone(h) \/ StoreOrphan(h)

Next ==
    \/ Paddle
    \/ \E h \in Handlers :
           \/ \E e \in DOMAIN emitted : Receive(h, e)
           \/ Proceed(h)
           \/ Crash(h)
    \/ \E a \in Admins : (\E p \in Plans \cup {NoPlan}, d \in Dates \cup {0} : ReadPatch(a, p, d)) \/ CommitPatch(a)

Spec == Init /\ [][Next]_vars

(* Paddle retries what it has no 200 for, a session ends.                  *)
FairSpec ==
    /\ Spec
    /\ \A e \in 1..MaxEvents :
           WF_vars(e \in DOMAIN emitted /\ \E h \in Handlers : Receive(h, e))
    /\ \A h \in Handlers : WF_vars(Proceed(h))
    /\ \A a \in Admins : WF_vars(CommitPatch(a))

-----------------------------------------------------------------------------
(* Properties.                                                             *)

(* Every variable has its type; in particular the row never takes a status *)
(* the billing lock does not know.                                         *)
TypeOK ==
    /\ emitted \in Seq(Event) /\ Len(emitted) <= MaxEvents
    /\ row \in Row
    /\ stored \subseteq DOMAIN emitted /\ orphans \subseteq DOMAIN emitted
    /\ processed \subseteq stored
    /\ work \in [Sessions -> [at: {"idle", "dispatch", "orphan", "flush", "status",
                                   "commit", "store"},
                              event: Times, seen: Row, new: Row, ok: BOOLEAN]]
    /\ lock \in Handlers \cup {NoHandler}
    /\ signals \in Nat
    /\ faults \in 0..MaxFaults

StatusEventsIn(S) == {e \in S : emitted[e].type \in StatusEvents}

(* "a stale status event never overwrites a newer one" (paddle_event.py):  *)
(* when an event changes the status, no newer one is on file.              *)
NeverBack ==
    [][row'.status # row.status =>
          \A e \in stored' \ stored, n \in StatusEventsIn(stored) : n < e]_vars

Quiet == Open = {}

(* When the newest status event on file was processed, the agency bears    *)
(* its status, whatever the order the others came in.                      *)
StatusIsNewest ==
    LET known == StatusEventsIn(stored) IN
    Quiet /\ known # {} /\ Max(known) \in processed
        => emitted[Max(known)].status \in {row.status, "paused"}

(* past_due_since is "posed at the FIRST past_due status write", "cleared  *)
(* by any other status" (Agency): a grace period runs when, and only when, *)
(* the agency is past due.                                                 *)
AnchorFollowsStatus == (row.since # 0) <=> (row.status = "past_due")

(* "converted_at is NEVER overwritten" (_on_activated) by a webhook, nor by *)
(* a PATCH that carries none, and it is never unset: once posed it moves   *)
(* only to the date that a superadmin's PATCH gives.                       *)
DateMovesByHandOnly ==
    [][row.converted # 0 /\ row'.converted # row.converted
          => \E a \in Admins : CommitPatch(a) /\ row'.converted = work[a].event]_vars

(* "a MANUAL agency is never written by webhooks" once it is converted:    *)
(* what changes it is a PATCH, and that changes its plan and its date.     *)
ManualIsProtected ==
    [][row.mode = "manual" /\ row.converted # 0
          => \/ row' = row
             \/ /\ \E a \in Admins : CommitPatch(a)
                /\ \A c \in DOMAIN row \ {"plan", "converted"} : row'[c] = row[c]]_vars

(* A webhook emits agency.converted once, however often an event is        *)
(* delivered and however its deliveries overlap (one subscription that     *)
(* activates).                                                             *)
SignalOnce == signals <= 1

(* "Every VERIFIED Paddle webhook" ends on file: no retry goes on for ever. *)
EventuallyStored ==
    \A e \in 1..MaxEvents : e \in DOMAIN emitted ~> e \in stored \cup orphans

AllStored == Quiet /\ stored = DOMAIN emitted

-----------------------------------------------------------------------------
(* Promises of the sources that do not hold, already with one delivery at a*)
(* time; the README has the traces.  NeverBack, AnchorFollowsStatus,       *)
(* DateMovesByHandOnly and ManualIsProtected above fail with two sessions. *)

(* "Every handler is CONVERGENT: events may arrive out of order"           *)
(* (billing_manager.py): when every event is on file, a Paddle agency      *)
(* bears the status of the newest.                                         *)
Converges ==
    LET known == StatusEventsIn(stored) IN
    AllStored /\ row.mode = "paddle" /\ known # {}
        => emitted[Max(known)].status \in {row.status, "paused"}

(* _status_is_stale is "True when a NEWER status-bearing event was already *)
(* processed": once there is a status, the newest event processed gives it. *)
ProcessedWins ==
    LET known == StatusEventsIn(processed) IN
    Quiet /\ known # {} /\ row.status # "none"
        => emitted[Max(known)].status \in {row.status, "paused"}

(* "the activated event is authoritative for ITS subscription", the dead   *)
(* one stays in history: the agency ends linked to the latest it paid for. *)
LinkIsLatest ==
    LET activated == {e \in DOMAIN emitted : emitted[e].type = "activated"} IN
    AllStored /\ activated # {} => row.sub = emitted[Max(activated)].sub
=================================================================================
