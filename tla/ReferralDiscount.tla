---------------------------- MODULE ReferralDiscount ----------------------------
(***************************************************************************)
(* The referral programme, seen by ONE referrer (src/referral/             *)
(* referral_manager.py, called by src/billing/billing_manager.py and       *)
(* src/agencies/agencies_manager.py).  Each godchild that converts grants  *)
(* a credit for a year; the number of live credits is a tier; the tier is  *)
(* posed on the Paddle subscription as a discount that stops by itself     *)
(* when the first of those credits expires.  Nothing is remembered of what *)
(* was posed: it is read back from Paddle.                                 *)
(*                                                                         *)
(* A recompute reads the subscription and the credits, then poses: it runs *)
(* after the commit of what caused it, best effort, and is never retried.  *)
(* Time is counted from now, in instants; a recompute takes less than one. *)
(***************************************************************************)
EXTENDS Integers, FiniteSets

CONSTANTS
    Handlers,      \* sessions that recompute
    Godchildren,   \* agencies referred by this one
    Life,          \* CREDIT_MONTHS
    Cycles,        \* billing cycles on sale
    MaxFaults      \* bound: recomputes that are lost

ASSUME ReferralAssumption ==
    /\ IsFiniteSet(Godchildren)
    /\ Life \in Nat \ {0}
    /\ Cycles \subseteq Nat \ {0} /\ Cycles # {}
    /\ MaxFaults \in Nat

VARIABLES
    credit,    \* referral_credit: what is left of each, 0 once expired
    sub,       \* the referrer's subscription; "ending": a cancellation is scheduled
    cycle,     \* agency.billing_cycle
    next,      \* instants until next_billed_at
    discount,  \* of the Paddle subscription
    owed,      \* an event whose recompute has not started
    missed,    \* a recompute was lost or had nothing to bill, and none came after
    job,       \* what each recompute has read
    faults     \* recomputes lost

vars == <<credit, sub, cycle, next, discount, owed, missed, job, faults>>
ledger == <<credit, sub, cycle, next>>

NotGranted == -1
NoDiscount == [by |-> "nobody"]
Foreign == [by |-> "human"]

(* rate and boundary are referral_key; left is what remains of             *)
(* maximum_recurring_intervals; stale (for the properties alone): counted  *)
(* in a billing cycle that has changed since.                              *)
Ours == [by: {"us"}, rate: Nat, boundary: Nat, left: Nat, stale: BOOLEAN]
Idle == [at |-> "idle"]

Init ==
    /\ credit = [g \in Godchildren |-> NotGranted]
    /\ sub = "none" /\ cycle \in Cycles /\ next = 0
    /\ discount = NoDiscount
    /\ owed = FALSE /\ missed = FALSE /\ faults = 0
    /\ job = [h \in Handlers |-> Idle]

Live == sub \in {"live", "ending"}
NoJob == \A h \in Handlers : job[h] = Idle

-----------------------------------------------------------------------------
(* tier_for_active *)
FirstRate == 20
Step == 10
RateCap == 50
Tier(n) == IF n = 0 THEN 0
           ELSE IF FirstRate + Step * (n - 1) < RateCap THEN FirstRate + Step * (n - 1)
           ELSE RateCap

LiveAt(t) == {g \in Godchildren : credit[g] > t}
Earned(t) == Tier(Cardinality(LiveAt(t)))

(* The credits that count are those still alive at the next invoice.       *)
\* Mutant: the credits alive today.
Counted_Today == LiveAt(0)
Counted == LiveAt(next)

(* Until the first of them expires. *)
FirstExpiry(S) == CHOOSE t \in 1..Life : /\ \E g \in S : credit[g] = t
                                         /\ \A g \in S : t <= credit[g]

(* _cycles_until: invoices strictly before the boundary, at least one.     *)
\* Mutant: the invoice that falls on the boundary is covered too.
CyclesUntil_Closed(boundary) == IF boundary < next THEN 1 ELSE (boundary - next) \div cycle + 1
CyclesUntil(boundary) == IF boundary <= next THEN 1 ELSE (boundary - next - 1) \div cycle + 1

-----------------------------------------------------------------------------
(* What calls for a recompute.                                             *)

(* grant_on_conversion: once per godchild, whatever happens to it later.   *)
Grant(g) ==
    /\ credit[g] = NotGranted
    /\ credit' = [credit EXCEPT ![g] = Life]
    /\ owed' = TRUE
    /\ UNCHANGED <<sub, cycle, next, discount, missed, job, faults>>

(* subscription.activated: the first, or a new one after a cancellation.   *)
Subscribe(c) ==
    /\ ~Live
    /\ sub' = "live" /\ cycle' = c /\ next' = c /\ discount' = NoDiscount
    /\ owed' = TRUE
    /\ UNCHANGED <<credit, missed, job, faults>>

Stale(d) == IF d.by = "us" THEN [d EXCEPT !.stale = TRUE] ELSE d

(* plan_change to another cycle: Paddle bills the difference at once, whose *)
(* transaction.completed is a tick, and the new period starts now.         *)
ChangeCycle(c) ==
    /\ sub = "live" /\ c # cycle
    /\ cycle' = c /\ next' = c
    /\ owed' = TRUE
    /\ discount' = Stale(discount)
    /\ job' = [h \in Handlers |-> IF job[h] = Idle THEN Idle
                                 ELSE [job[h] EXCEPT !.wanted = Stale(@)]]
    /\ UNCHANGED <<credit, sub, missed, faults>>

(* Paddle bills and counts the interval; transaction.completed is the lazy *)
(* tick.                                                                   *)
AfterInvoice == IF discount.by # "us" THEN discount
                ELSE IF discount.left = 1 THEN NoDiscount
                ELSE [discount EXCEPT !.left = @ - 1]

\* Mutant: the invoice is not a tick.
Bill_NoTick ==
    /\ sub = "live" /\ next = 0 /\ NoJob
    /\ next' = cycle /\ discount' = AfterInvoice
    /\ UNCHANGED <<credit, sub, cycle, owed, missed, job, faults>>

Bill ==
    /\ sub = "live" /\ next = 0 /\ NoJob
    /\ next' = cycle /\ discount' = AfterInvoice
    /\ owed' = TRUE
    /\ UNCHANGED <<credit, sub, cycle, missed, job, faults>>

(* Any other transaction.completed is a tick too: a pack of credits.       *)
Purchase ==
    /\ Live /\ ~owed
    /\ owed' = TRUE
    /\ UNCHANGED <<ledger, discount, missed, job, faults>>

(* What does not call for one: a cancellation at the end of the period,    *)
(* taken back or not.                                                      *)
ScheduleCancel ==
    /\ sub = "live"
    /\ sub' = "ending"
    /\ UNCHANGED <<credit, cycle, next, discount, owed, missed, job, faults>>

Resume ==
    /\ sub = "ending"
    /\ sub' = "live"
    /\ UNCHANGED <<credit, cycle, next, discount, owed, missed, job, faults>>

Ends ==
    /\ sub = "ending" /\ next = 0 /\ NoJob
    /\ sub' = "canceled" /\ discount' = NoDiscount
    /\ UNCHANGED <<credit, cycle, next, owed, missed, job, faults>>

(* Somebody poses a promotion in Paddle, or takes it away. *)
Promote ==
    /\ Live /\ discount.by = "nobody"
    /\ discount' = Foreign
    /\ UNCHANGED <<ledger, owed, missed, job, faults>>

Unpromote ==
    /\ discount.by = "human"
    /\ discount' = NoDiscount /\ missed' = TRUE
    /\ UNCHANGED <<ledger, owed, job, faults>>

Shorter(n) == IF n > 0 THEN n - 1 ELSE n
Pass ==
    /\ NoJob
    /\ Live => next > 0
    /\ credit' = [g \in Godchildren |-> Shorter(credit[g])]
    /\ next' = IF Live THEN next - 1 ELSE next
    /\ discount' = IF discount.by = "us" THEN [discount EXCEPT !.boundary = Shorter(@)]
                   ELSE discount
    /\ UNCHANGED <<sub, cycle, owed, missed, job, faults>>

-----------------------------------------------------------------------------
(* recompute_discount                                                      *)

(* Dormant without a live subscription; nothing to do without an invoice   *)
(* to come; a discount that is not ours is never touched.                  *)
Skip ==
    /\ owed /\ (sub # "live" \/ discount.by = "human")
    /\ owed' = FALSE /\ missed' = TRUE
    /\ UNCHANGED <<ledger, discount, job, faults>>

Read(h) ==
    /\ owed /\ sub = "live" /\ discount.by # "human"
    /\ job[h] = Idle
    /\ owed' = FALSE /\ missed' = FALSE
    /\ job' = [job EXCEPT ![h] =
          IF Counted = {} THEN [at |-> "read", wanted |-> NoDiscount, found |-> discount]
          ELSE [at |-> "read", found |-> discount,
                wanted |-> [by |-> "us", rate |-> Tier(Cardinality(Counted)),
                            boundary |-> FirstExpiry(Counted),
                            left |-> CyclesUntil(FirstExpiry(Counted)), stale |-> FALSE]]]
    /\ UNCHANGED <<ledger, discount, faults>>

SameKey(d, e) == d.by = "us" /\ e.by = "us" /\ d.rate = e.rate /\ d.boundary = e.boundary

(* Nothing to change. *)
Keep(h) ==
    /\ job[h] # Idle
    /\ \/ SameKey(job[h].wanted, job[h].found)
       \/ job[h].wanted = NoDiscount /\ job[h].found = NoDiscount
    /\ job' = [job EXCEPT ![h] = Idle]
    /\ UNCHANGED <<ledger, discount, owed, missed, faults>>

Pose(h) ==
    /\ job[h] # Idle
    /\ ~SameKey(job[h].wanted, job[h].found)
    /\ job[h].wanted # NoDiscount \/ job[h].found # NoDiscount
    /\ discount' = job[h].wanted
    /\ job' = [job EXCEPT ![h] = Idle]
    /\ UNCHANGED <<ledger, owed, missed, faults>>

(* recompute_discount_best_effort: Paddle refuses, or the process dies     *)
(* between the commit and its effects.                                     *)
Fails(h) ==
    /\ job[h] # Idle /\ faults < MaxFaults
    /\ job' = [job EXCEPT ![h] = Idle]
    /\ missed' = TRUE /\ faults' = faults + 1
    /\ UNCHANGED <<ledger, discount, owed>>

Lost ==
    /\ owed /\ faults < MaxFaults
    /\ owed' = FALSE /\ missed' = TRUE /\ faults' = faults + 1
    /\ UNCHANGED <<ledger, discount, job>>

Next ==
    \/ \E g \in Godchildren : Grant(g)
    \/ \E c \in Cycles : Subscribe(c) \/ ChangeCycle(c)
    \/ Bill \/ Purchase \/ ScheduleCancel \/ Resume \/ Ends \/ Promote \/ Unpromote \/ Pass
    \/ Skip \/ Lost
    \/ \E h \in Handlers : Read(h) \/ Keep(h) \/ Pose(h) \/ Fails(h)

Spec == Init /\ [][Next]_vars

(* Time passes, Paddle bills, and a recompute that is called is made.      *)
FairSpec ==
    /\ Spec
    /\ WF_vars(Pass) /\ WF_vars(Bill) /\ WF_vars(Ends) /\ WF_vars(Skip)
    /\ \A h \in Handlers : WF_vars(Read(h)) /\ WF_vars(Keep(h) \/ Pose(h))

-----------------------------------------------------------------------------
(* Properties.                                                             *)

TypeOK ==
    /\ credit \in [Godchildren -> {NotGranted} \cup 0..Life]
    /\ sub \in {"none", "live", "ending", "canceled"}
    /\ cycle \in Cycles /\ next \in Nat
    /\ discount \in Ours \cup {NoDiscount, Foreign}
    /\ owed \in BOOLEAN /\ missed \in BOOLEAN /\ faults \in 0..MaxFaults
    /\ job \in [Handlers -> {Idle} \cup [at: {"read"}, wanted: Ours \cup {NoDiscount},
                                         found: Ours \cup {NoDiscount}]]

(* "Paddle stops by itself there": however many recomputes are lost, no    *)
(* invoice carries more than the credits alive on its day have earned, as  *)
(* long as the billing cycle is the one the discount was counted in.       *)
NeverOverDiscounted ==
    sub = "live" /\ next = 0 /\ discount.by = "us" /\ ~discount.stale
    => discount.rate <= Earned(0)

PosedRate == IF discount.by = "us" THEN discount.rate ELSE 0

(* "A drop is announced to Paddle before the invoice it applies to": once  *)
(* a recompute has been made after the last event, the next invoice        *)
(* carries exactly what will be earned on its day.                         *)
PosedIsEarned ==
    sub = "live" /\ ~owed /\ ~missed /\ NoJob /\ discount.by # "human"
    => PosedRate = Earned(next)

(* A recompute that was lost is never retried, yet another one comes: the  *)
(* invoices are the clock, as long as the subscription lives and nobody    *)
(* promotes.                                                               *)
LostIsMadeGood ==
    missed ~> (~missed \/ sub # "live" \/ discount.by = "human")

-----------------------------------------------------------------------------
(* What the comments say and the code does not hold (README, section 5).   *)

(* A change of cycle whose recompute is lost, or that keeps the key. *)
NeverOverAnyCycle ==
    sub = "live" /\ next = 0 /\ discount.by = "us" => discount.rate <= Earned(0)

(* "A discount WE did not pose: never clobber it" *)
ForeignIsKept == [][discount.by = "human" => discount'.by # "us"]_vars
=================================================================================
