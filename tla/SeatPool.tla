-------------------------------- MODULE SeatPool --------------------------------
(***************************************************************************)
(* The seats of ONE agency: its members and providers, their invitations,  *)
(* the pool of reader seats it has bought, and the two quantities Paddle   *)
(* bills (src/agencies/agencies_manager.py, agencies_jobs.py, the seat     *)
(* sync of src/billing/billing_manager.py, the member role of              *)
(* src/roles/roles_manager.py).  The rule of the code is "inviting is      *)
(* paying": a seat is bought when it is promised, returned when the        *)
(* promise or the member goes, and accepting changes nothing.              *)
(*                                                                         *)
(* A handler loads the agency row when its request starts, writes the      *)
(* columns it changed at its commit (the pool as an absolute value), and   *)
(* then pushes the quantities to Paddle, best effort: three steps that     *)
(* other handlers may interleave with.                                     *)
(***************************************************************************)
EXTENDS Integers, FiniteSets

CONSTANTS
    Handlers,      \* concurrent sessions
    Members,       \* people who may sit in the agency
    Providers,     \* its directory contacts
    Founder,       \* the member who opened the agency
    Slots,         \* invitation rows open at the same time
    TrialSeats,    \* TRIAL_SEAT_LIMIT
    Included,      \* SEATS_INCLUDED_BY_PLAN
    ProviderCap,   \* providers_max_for(plan)
    MaxOffered,    \* bound: founding_free_seats
    MaxPool        \* bound: seats bought

People == Members \cup Providers

(* Who wears what: a manager seat with or without agent.manage, or a       *)
(* reader seat, which caps the role to the system viewer.                  *)
Kinds == {"admin", "staff", "reader"}
Subscription == {"trial", "manual", "paddle", "canceled"}
Same == "same"       \* a column that is not written
Keep == -1           \* a count that is not written

ASSUME SeatAssumption ==
    /\ Founder \in Members
    /\ IsFiniteSet(Members) /\ IsFiniteSet(Slots)
    /\ Members \cap Providers = {}
    /\ {TrialSeats, Included, ProviderCap, MaxOffered, MaxPool} \subseteq Nat

VARIABLES
    sub,      \* plan, converted_at, billing_mode and billing_status
    pool,     \* agency.reader_seats_purchased
    offered,  \* agency.founding_free_seats
    account,  \* agent.deactivated_at ("none": no row)
    kind,     \* agent.seat_type and its role
    joined,   \* providers who accepted (the others' agent is a phantom)
    inv,      \* agent_invitation, PENDING rows only ("late": past expires_at)
    echo,     \* the quantities of the Paddle subscription
    fresh,    \* nothing changed that was not pushed since
    job       \* what each session is about to write, then to push

vars == <<sub, pool, offered, account, kind, joined, inv, echo, fresh, job>>
database == <<sub, pool, offered, account, kind, joined, inv>>
paddle == <<echo, fresh>>

Free == [status |-> "free"]
Invitation == [status: {"pending", "late"}, who: People, kind: Kinds]
Quantities == [seats: Nat, readers: Nat]
Nothing == [seats |-> 0, readers |-> 0]

(* Columns written: functions on part of a set, the others stay. *)
Partial(S, T) == UNION {[D -> T] : D \in SUBSET S}
Update(g, f) == [x \in DOMAIN f |-> IF x \in DOMAIN g THEN g[x] ELSE f[x]]
Nowhere == [x \in {} |-> x]
Set(col, old) == IF col = Same THEN old ELSE col
SetTo(n, old) == IF n = Keep THEN old ELSE n

Write == [sub: Subscription \cup {Same}, pool: Nat \cup {Keep},
          offered: Nat \cup {Keep},
          create: SUBSET People, remove: SUBSET Providers,
          account: Partial(People, {"active", "off"}),
          kind: Partial(Members, Kinds), join: SUBSET Providers,
          inv: Partial(Slots, Invitation \cup {Free})]
NoWrite == [sub |-> Same, pool |-> Keep, offered |-> Keep,
            create |-> {}, remove |-> {}, account |-> Nowhere,
            kind |-> Nowhere, join |-> {}, inv |-> Nowhere]
Idle == [at |-> "idle"]

Init ==
    /\ sub = "trial" /\ pool = 0 /\ offered = 0
    /\ account = [p \in People |-> IF p = Founder THEN "active" ELSE "none"]
    /\ kind = [m \in Members |-> IF m = Founder THEN "admin" ELSE "staff"]
    /\ joined = {}
    /\ inv = [s \in Slots |-> Free]
    /\ echo = Nothing /\ fresh = FALSE
    /\ job = [h \in Handlers |-> Idle]

-----------------------------------------------------------------------------
(* What is counted.                                                        *)

(* subscription_is_active; past_due stays active. *)
Active == sub \in {"manual", "paddle"}

Open(s) == inv[s].status # "free"
Internal(s) == Open(s) /\ inv[s].who \in Members
OnRoster(K) == {m \in Members : account[m] = "active" /\ kind[m] \in K}
Waiting(K) == {s \in Slots : Internal(s) /\ inv[s].status = "pending" /\ inv[s].kind \in K}

(* seat_usage: the roster plus the invitations that have not expired. *)
Seats(K) == Cardinality(OnRoster(K)) + Cardinality(Waiting(K))
Usage == Seats(Kinds)
CommittedReaders == Seats({"reader"})
AtLeast0(n) == IF n > 0 THEN n ELSE 0
Billed == AtLeast0(Seats({"admin", "staff"}) - Included - offered)
Derived == [seats |-> Billed, readers |-> pool]

UnderCap == Active \/ Usage < TrialSeats

(* _providers_with_access: phantoms count. *)
ProvidersWithAccess == Cardinality({p \in Providers : account[p] = "active"})

(* _assert_agency_keeps_manager: with m's seat as given, an active member  *)
(* still holds agent.manage.                                               *)
KeepsManagerWithout(m) == \E other \in OnRoster({"admin"}) : other # m
Admins == OnRoster({"admin"})

Bought == IF Active THEN pool + 1 ELSE Keep
\* Mutant: a release does not stop at zero.
Returned_NoFloor(n) == IF n > 0 THEN pool - n ELSE Keep
Returned(n) == IF n > 0 /\ pool > 0 THEN AtLeast0(pool - n) ELSE Keep
Adopted == IF CommittedReaders > pool THEN CommittedReaders ELSE Keep

-----------------------------------------------------------------------------
(* A session reads and decides; its commit and its push come later.  The   *)
(* push is made from the agency row the session loaded ("own"), or from    *)
(* the database when another session makes it ("reread"); a purchase pays  *)
(* before it commits ("first", then "paid").                               *)

Begin(h, w, push) ==
    /\ job[h] = Idle
    /\ w.pool <= MaxPool
    /\ job' = [job EXCEPT ![h] =
          [at |-> "writing", write |-> w, push |-> push, sub |-> sub,
           pool |-> SetTo(w.pool, pool)]]
    /\ UNCHANGED <<database, paddle>>

(* create_invitation, internal: the seat is bought now.  An invitation of  *)
(* the same person that has expired but was not swept does not stand in    *)
(* the way.                                                                *)
Invite(h, s, m, k) ==
    /\ Admins # {}
    /\ account[m] = "none"
    /\ UnderCap
    /\ ~\E o \in Slots : Open(o) /\ inv[o].who = m /\ inv[o].status = "pending"
    /\ inv[s] = Free /\ \A g \in Handlers : job[g] # Idle => s \notin DOMAIN job[g].write.inv
    /\ Begin(h, [NoWrite EXCEPT
           !.inv = [x \in {s} |-> [status |-> "pending", who |-> m, kind |-> k]],
           !.pool = IF k = "reader" THEN Bought ELSE Keep], "own")

(* create_invitation, external: the agent row is created at once, with a   *)
(* password nobody knows; it counts as an access.                          *)
InviteProvider(h, s, p) ==
    /\ Admins # {}
    /\ account[p] = "none"
    /\ ProvidersWithAccess < ProviderCap
    /\ inv[s] = Free /\ \A g \in Handlers : job[g] # Idle => s \notin DOMAIN job[g].write.inv
    /\ Begin(h, [NoWrite EXCEPT
           !.inv = [x \in {s} |-> [status |-> "pending", who |-> p, kind |-> "staff"]],
           !.create = {p}], "none")

(* cancel_invitation: an expired row that was not swept is still pending.  *)
Cancel(h, s) ==
    /\ Internal(s)
    /\ Begin(h, [NoWrite EXCEPT
           !.inv = [x \in {s} |-> Free],
           !.pool = IF inv[s].kind = "reader" /\ Active THEN Returned(1) ELSE Keep], "own")

CancelProvider(h, s) ==
    /\ Open(s) /\ inv[s].who \in Providers
    /\ Begin(h, [NoWrite EXCEPT !.inv = [x \in {s} |-> Free],
                                !.remove = {inv[s].who}], "none")

(* accept_invitation: the seat moves from the invitations to the roster,   *)
(* nothing is bought and nothing pushed.                                   *)
\* Mutant: accepting a reader's invitation buys its seat again.
Accept_BuysAgain(h, s) ==
    /\ Internal(s) /\ inv[s].status = "pending"
    /\ Active \/ Usage <= TrialSeats
    /\ account[inv[s].who] = "none"
    /\ Begin(h, [NoWrite EXCEPT !.inv = [x \in {s} |-> Free], !.create = {inv[s].who},
                                !.kind = [m \in {inv[s].who} |-> inv[s].kind],
                                !.pool = IF inv[s].kind = "reader" THEN Bought ELSE Keep], "none")

Accept(h, s) ==
    /\ Internal(s) /\ inv[s].status = "pending"
    /\ Active \/ Usage <= TrialSeats
    /\ account[inv[s].who] = "none"
    /\ Begin(h, [NoWrite EXCEPT !.inv = [x \in {s} |-> Free], !.create = {inv[s].who},
                                !.kind = [m \in {inv[s].who} |-> inv[s].kind]], "none")

(* ... and a provider's phantom becomes theirs, deactivated or not. *)
AcceptProvider(h, s) ==
    /\ Open(s) /\ inv[s].who \in Providers /\ inv[s].status = "pending"
    /\ account[inv[s].who] # "none"
    /\ ProvidersWithAccess <= ProviderCap
    /\ Begin(h, [NoWrite EXCEPT !.inv = [x \in {s} |-> Free],
                                !.join = {inv[s].who}], "none")

-----------------------------------------------------------------------------
(* Members.                                                                *)

(* deactivate_member: a reader takes the seat along, subscribed or not.    *)
\* Mutant: the last manager may be deactivated.
Deactivate_AnyManager(h, m) ==
    /\ Admins # {} /\ account[m] = "active"
    /\ Begin(h, [NoWrite EXCEPT !.account = [x \in {m} |-> "off"],
           !.pool = IF kind[m] = "reader" THEN Returned(1) ELSE Keep], "own")

Deactivate(h, m) ==
    /\ Admins # {} /\ account[m] = "active"
    /\ KeepsManagerWithout(m)
    /\ Begin(h, [NoWrite EXCEPT !.account = [x \in {m} |-> "off"],
           !.pool = IF kind[m] = "reader" THEN Returned(1) ELSE Keep], "own")

DeactivateProvider(h, p) ==
    /\ Admins # {} /\ account[p] = "active"
    /\ Begin(h, [NoWrite EXCEPT !.account = [x \in {p} |-> "off"]], "none")

(* reactivate_member: a reader buys the seat back.                         *)
\* Mutant: coming back is not capped.
Reactivate_NoCap(h, m) ==
    /\ Admins # {} /\ account[m] = "off"
    /\ Begin(h, [NoWrite EXCEPT !.account = [x \in {m} |-> "active"],
           !.pool = IF kind[m] = "reader" THEN Bought ELSE Keep], "own")

Reactivate(h, m) ==
    /\ Admins # {} /\ account[m] = "off"
    /\ UnderCap
    /\ Begin(h, [NoWrite EXCEPT !.account = [x \in {m} |-> "active"],
           !.pool = IF kind[m] = "reader" THEN Bought ELSE Keep], "own")

ReactivateProvider(h, p) ==
    /\ Admins # {} /\ account[p] = "off"
    /\ ProvidersWithAccess < ProviderCap
    /\ Begin(h, [NoWrite EXCEPT !.account = [x \in {p} |-> "active"]], "none")

(* set_member_seat_type, by another manager: to a reader seat, which       *)
(* forces the viewer role, or back to a manager seat, still as a viewer.   *)
(* The member may be deactivated: then no seat moves.                      *)
ToReader(h, m) ==
    /\ Admins \ {m} # {} /\ account[m] # "none" /\ kind[m] # "reader"
    /\ KeepsManagerWithout(m)
    /\ Begin(h, [NoWrite EXCEPT !.kind = [x \in {m} |-> "reader"],
           !.pool = IF account[m] = "active" THEN Bought ELSE Keep],
           IF account[m] = "active" THEN "own" ELSE "none")

\* Mutant: the seat of a deactivated reader is returned a second time.
ToManager_Twice(h, m) ==
    /\ Admins \ {m} # {} /\ account[m] # "none" /\ kind[m] = "reader"
    /\ Begin(h, [NoWrite EXCEPT !.kind = [x \in {m} |-> "staff"],
           !.pool = IF Active THEN Returned(1) ELSE Keep],
           IF account[m] = "active" THEN "own" ELSE "none")

ToManager(h, m) ==
    /\ Admins \ {m} # {} /\ account[m] # "none" /\ kind[m] = "reader"
    /\ Begin(h, [NoWrite EXCEPT !.kind = [x \in {m} |-> "staff"],
           !.pool = IF account[m] = "active" /\ Active THEN Returned(1) ELSE Keep],
           IF account[m] = "active" THEN "own" ELSE "none")

(* set_member_role: a reader keeps the viewer role. *)
SetRole(h, m, k) ==
    /\ Admins \ {m} # {} /\ account[m] # "none"
    /\ kind[m] # "reader" /\ k # kind[m] /\ k # "reader"
    /\ k = "admin" \/ KeepsManagerWithout(m)
    /\ Begin(h, [NoWrite EXCEPT !.kind = [x \in {m} |-> k]], "none")

-----------------------------------------------------------------------------
(* The subscription.                                                       *)

(* update_subscription with a plan, refused to an agency Paddle bills: the *)
(* seats already promised are adopted.                                     *)
ConvertByHand(h) ==
    /\ sub \in {"trial", "manual"}
    /\ Begin(h, [NoWrite EXCEPT !.sub = "manual", !.pool = Adopted], "none")

(* founding_free_seats. *)
OfferSeats(h, n) ==
    /\ n # offered
    /\ Begin(h, [NoWrite EXCEPT !.offered = n], "reread")

(* create_checkout, then subscription.activated: the quantities of the     *)
(* checkout are Paddle's, whatever happened in between.                    *)
Activate(h) ==
    /\ sub \in {"trial", "canceled"}
    /\ Begin(h, [NoWrite EXCEPT !.sub = "paddle", !.pool = Adopted], "checkout")

(* subscription.canceled. *)
SubscriptionEnds(h) ==
    /\ sub = "paddle"
    /\ Begin(h, [NoWrite EXCEPT !.sub = "canceled"], "none")

(* resume_subscription catches up with what was refused meanwhile. *)
Resume(h) ==
    /\ Admins # {} /\ sub = "paddle" /\ ~fresh
    /\ Begin(h, NoWrite, "own")

(* add_seats, remove_seats: bought or released by hand, Paddle first; a    *)
(* seat in use or promised is not released.                                *)
AddSeat(h) ==
    /\ Admins # {} /\ Active
    /\ Begin(h, [NoWrite EXCEPT !.pool = pool + 1], "first")

RemoveSeat(h) ==
    /\ Admins # {} /\ Active
    /\ pool > 0 /\ pool - 1 >= CommittedReaders
    /\ Begin(h, [NoWrite EXCEPT !.pool = pool - 1], "first")

(* expire_agent_invitations: every row past its term, in one commit.       *)
\* Mutant: the sweep leaves the phantom agents behind.
Sweep_KeepsPhantoms(h) ==
    LET late == {s \in Slots : inv[s].status = "late"} IN
    /\ late # {}
    /\ Begin(h, [NoWrite EXCEPT !.inv = [s \in late |-> Free],
           !.pool = Returned(Cardinality({s \in late : Internal(s) /\ inv[s].kind = "reader"}))],
           IF \E s \in late : Internal(s) THEN "reread" ELSE "none")

Sweep(h) ==
    LET late == {s \in Slots : inv[s].status = "late"} IN
    /\ late # {}
    /\ Begin(h, [NoWrite EXCEPT !.inv = [s \in late |-> Free],
           !.remove = {p \in Providers : \E s \in late : inv[s].who = p},
           !.pool = Returned(Cardinality({s \in late : Internal(s) /\ inv[s].kind = "reader"}))],
           IF \E s \in late : Internal(s) THEN "reread" ELSE "none")

(* The term of an invitation passes. *)
Expire(s) ==
    /\ inv[s].status = "pending"
    /\ inv' = [inv EXCEPT ![s].status = "late"]
    /\ IF Internal(s) /\ inv[s].kind # "reader" /\ fresh
       THEN fresh' = FALSE /\ echo' = Nothing
       ELSE UNCHANGED <<fresh, echo>>
    /\ UNCHANGED <<sub, pool, offered, account, kind, joined, job>>

-----------------------------------------------------------------------------
(* Commit, push, rollback.                                                 *)

(* agent.email is unique; a row that is gone cannot be updated. *)
Refused(w) ==
    \/ \E p \in w.create : account[p] # "none"
    \/ \E p \in (DOMAIN w.account \cup w.join \cup w.remove) : account[p] = "none"

(* The checkout's quantities are those of the activation, if nothing moved *)
(* in between.                                                             *)
Commit(h) ==
    LET w == job[h].write IN
    /\ job[h].at = "writing" /\ job[h].push # "first" /\ ~Refused(w)
    /\ sub' = Set(w.sub, sub)
    /\ pool' = SetTo(w.pool, pool)
    /\ offered' = SetTo(w.offered, offered)
    /\ account' = Update([p \in w.create |-> "active"],
                  Update([p \in w.remove |-> "none"], Update(w.account, account)))
    /\ kind' = Update(w.kind, kind)
    /\ joined' = (joined \ w.remove) \cup w.join
    /\ inv' = Update(w.inv, inv)
    /\ job' = [job EXCEPT ![h] = IF job[h].push \in {"own", "reread"}
                                 THEN [@ EXCEPT !.at = "pushing"] ELSE Idle]
    /\ IF job[h].push = "checkout"
       THEN \E prompt \in BOOLEAN :
              /\ fresh' = prompt
              /\ echo' = IF prompt THEN [seats |-> Billed, readers |-> pool'] ELSE Nothing
       ELSE IF w.sub = "canceled" THEN fresh' = FALSE /\ echo' = Nothing
       ELSE UNCHANGED <<fresh, echo>>

(* The session fails before its commit: nothing is written, but what was   *)
(* paid at Paddle stays.                                                   *)
Rollback(h) ==
    /\ job[h].at = "writing"
    /\ IF job[h].push = "paid" THEN fresh' = FALSE /\ echo' = Nothing
       ELSE UNCHANGED <<fresh, echo>>
    /\ job' = [job EXCEPT ![h] = Idle]
    /\ UNCHANGED database

(* sync_seat_quantity: nothing to push without a live Paddle subscription. *)
Pushed(h) == IF job[h].push = "reread" THEN [sub |-> sub, pool |-> pool]
             ELSE [sub |-> Set(job[h].write.sub, job[h].sub), pool |-> job[h].pool]

Push(h) ==
    /\ job[h].at = "pushing"
    /\ IF Pushed(h).sub # "paddle"
       THEN UNCHANGED <<echo, fresh>>
       ELSE fresh' = TRUE /\ echo' = [seats |-> Billed, readers |-> Pushed(h).pool]
    /\ job' = [job EXCEPT ![h] = Idle]
    /\ UNCHANGED database

PushFails(h) ==
    /\ job[h].at = "pushing" /\ Pushed(h).sub = "paddle"
    /\ fresh' = FALSE /\ echo' = Nothing
    /\ job' = [job EXCEPT ![h] = Idle]
    /\ UNCHANGED database

(* _push_reader_pool: the quantities are Paddle's before they are ours; if *)
(* it refuses, nothing is bought.                                          *)
Pay(h) ==
    /\ job[h].at = "writing" /\ job[h].push = "first"
    /\ job' = [job EXCEPT ![h].push = "paid"]
    /\ IF job[h].sub # "paddle"
       THEN UNCHANGED <<echo, fresh>>
       ELSE fresh' = TRUE /\ echo' = [seats |-> Billed, readers |-> job[h].pool]
    /\ UNCHANGED database

PayFails(h) ==
    /\ job[h].at = "writing" /\ job[h].push = "first" /\ job[h].sub = "paddle"
    /\ job' = [job EXCEPT ![h] = Idle]
    /\ UNCHANGED <<database, echo, fresh>>

Next ==
    \/ \E h \in Handlers, s \in Slots :
          \/ \E m \in Members, k \in Kinds : Invite(h, s, m, k)
          \/ \E p \in Providers : InviteProvider(h, s, p)
          \/ Cancel(h, s) \/ CancelProvider(h, s)
          \/ Accept(h, s) \/ AcceptProvider(h, s)
    \/ \E h \in Handlers, m \in Members :
          \/ Deactivate(h, m) \/ Reactivate(h, m)
          \/ ToReader(h, m) \/ ToManager(h, m)
          \/ \E k \in Kinds : SetRole(h, m, k)
    \/ \E h \in Handlers, p \in Providers :
          DeactivateProvider(h, p) \/ ReactivateProvider(h, p)
    \/ \E h \in Handlers :
          \/ ConvertByHand(h) \/ Activate(h) \/ SubscriptionEnds(h) \/ Resume(h)
          \/ \E n \in 0..MaxOffered : OfferSeats(h, n)
          \/ AddSeat(h) \/ RemoveSeat(h) \/ Pay(h) \/ PayFails(h)
          \/ Sweep(h) \/ Commit(h) \/ Rollback(h) \/ Push(h) \/ PushFails(h)
    \/ \E s \in Slots : Expire(s)

Spec == Init /\ [][Next]_vars

-----------------------------------------------------------------------------
(* Properties.                                                             *)

(* Every column and every pending write has its type; the pool is never    *)
(* negative.                                                               *)
TypeOK ==
    /\ sub \in Subscription /\ pool \in Nat /\ offered \in Nat
    /\ account \in [People -> {"none", "active", "off"}]
    /\ kind \in [Members -> Kinds]
    /\ joined \subseteq Providers
    /\ inv \in [Slots -> Invitation \cup {Free}]
    /\ echo \in Quantities /\ fresh \in BOOLEAN
    /\ \A h \in Handlers :
          job[h] # Idle => /\ job[h].at \in {"writing", "pushing"}
                           /\ job[h].push \in {"none", "own", "reread", "checkout", "first", "paid"}
                           /\ job[h].sub \in Subscription /\ job[h].pool \in Nat
                           /\ job[h].write.pool \in Nat \cup {Keep}

(* Reader seats in use or promised, expired promises included.             *)
Occupied ==
    Cardinality(OnRoster({"reader"}))
    + Cardinality({s \in Slots : Internal(s) /\ inv[s].kind = "reader"})

(* A seat is bought or released by hand: never one in use or promised.     *)
BoughtByHand ==
    /\ \E h \in Handlers : job[h] # Idle /\ job'[h] = Idle /\ job[h].push = "paid"
    /\ pool' > pool \/ pool' >= CommittedReaders

(* "The pool follows the roster and the invitations": while the            *)
(* subscription is active, every step that seats or unseats a reader moves *)
(* the pool by as much, and no other step moves it but a purchase by hand  *)
(* and a conversion, which adopts seats already promised and no more.      *)
PoolFollowsOccupancy ==
    [][Active /\ Active' =>
         \/ pool' = AtLeast0(pool + Occupied' - Occupied)
         \/ /\ Occupied' = Occupied
            /\ BoughtByHand \/ (pool < pool' /\ pool' <= Occupied)]_vars

(* Without a subscription the team never grows past the trial's seats,     *)
(* whatever mixture of invitations, returns and acceptances.               *)
TrialCapHolds ==
    [][~Active /\ ~Active' /\ Usage' > Usage => Usage' <= TrialSeats]_vars

(* "N providers per plan", the invited included. *)
ProviderCapHolds == ProvidersWithAccess <= ProviderCap

(* "Acceptance is billing-neutral": when no session is at work and no push *)
(* was lost, Paddle bills what the roster and the invitations derive.      *)
PaddleIsDerived ==
    sub = "paddle" /\ fresh /\ (\A h \in Handlers : job[h] = Idle) => echo = Derived

(* An agency always has an active member who may manage it. *)
KeepsManager == Admins # {}

(* A provider's agent that nobody has activated has an open invitation. *)
PhantomIsInvited ==
    \A p \in Providers :
        account[p] # "none" /\ p \notin joined => \E s \in Slots : Open(s) /\ inv[s].who = p

-----------------------------------------------------------------------------
(* What the comments say and the code does not hold (README, section 5).   *)

(* "pending reader invitations (an invitation is a seat), never offered by accident" *)
PoolCovers == Active => pool >= CommittedReaders
=================================================================================
