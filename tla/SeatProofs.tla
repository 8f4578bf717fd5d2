-------------------------------- MODULE SeatProofs --------------------------------
(***************************************************************************)
(* A provider's agent is never left without an invitation nor an owner,    *)
(* and every column keeps its type, for every number of concurrent         *)
(* sessions, members, providers and invitations.  The agency is never      *)
(* without a manager unless two overlapping sessions both touch one, and   *)
(* the providers of a plan stay under their cap unless two overlapping     *)
(* sessions each open a provider's access.  The pool moves by the readers  *)
(* the roster seats, and a trial stays under its cap, unless two sessions  *)
(* about members' seats have both read and neither has committed; Paddle   *)
(* has the quantities the roster derives unless two sessions that read,    *)
(* write or push what is billed overlap.                                   *)
(***************************************************************************)
EXTENDS SeatPool, FiniteSetTheorems, TLAPS

Writing(h) == job[h].at = "writing"
Slotted(h) == DOMAIN job[h].write.inv

(* A session that closes the invitation of a provider takes the agent away *)
(* or gives it an owner; one that creates the agent opens an invitation.   *)
Safe(w) ==
    /\ DOMAIN w.inv \subseteq Slots
    /\ \A s \in DOMAIN w.inv :
          /\ w.inv[s] \in Invitation \cup {Free}
          /\ w.inv[s] # Free => inv[s] = Free
          /\ w.inv[s] = Free /\ inv[s] # Free /\ inv[s].who \in Providers =>
                inv[s].who \in w.remove \cup w.join
    /\ \A p \in w.create \cap Providers :
          \E s \in DOMAIN w.inv : w.inv[s] # Free /\ w.inv[s].who = p

(* Two sessions may close one invitation; no other touches one that opens. *)
Exclusive ==
    \A g, h \in Handlers : g # h /\ Writing(g) /\ Writing(h) =>
        \A s \in Slotted(g) \cap Slotted(h) : job[g].write.inv[s] = Free

JobType(r) == r = Idle \/ DOMAIN r = {"at", "write", "push", "sub", "pool"}

Typed ==
    /\ DOMAIN account = People
    /\ inv \in [Slots -> Invitation \cup {Free}]
    /\ DOMAIN job = Handlers
    /\ \A h \in Handlers : JobType(job[h])

Inv == /\ Typed
       /\ \A h \in Handlers : Writing(h) => Safe(job[h].write)
       /\ Exclusive
       /\ PhantomIsInvited

-----------------------------------------------------------------------------
LEMMA FreeIsNoInvitation ==
    /\ \A r \in Invitation : r.status # "free" /\ r # Free
    /\ Free.status = "free"
BY DEF Invitation, Free

LEMMA IdleIsNotWriting == Idle.at # "writing"
BY DEF Idle

LEMMA InitInv == Init => Inv
<1> SUFFICES ASSUME Init PROVE Inv
    OBVIOUS
<1>1. Typed
    BY DEF Init, Typed, JobType
<1>2. \A h \in Handlers : ~Writing(h)
    BY IdleIsNotWriting DEF Init, Writing
<1>3. \A p \in Providers : account[p] = "none"
    BY SeatAssumption DEF Init, People
<1> QED
    BY <1>1, <1>2, <1>3 DEF Inv, Exclusive, PhantomIsInvited

(* Nothing is read but what the invariant is about. *)
LEMMA QuietInv ==
    ASSUME Inv, UNCHANGED <<account, joined, inv>>, DOMAIN job' = Handlers,
           \A h \in Handlers : /\ JobType(job'[h])
                               /\ job'[h].at = "writing" =>
                                     job[h].at = "writing" /\ job'[h].write = job[h].write
    PROVE  Inv'
<1>1. Typed'
    BY DEF Inv, Typed, JobType
<1>2. \A w : Safe(w) => Safe(w)'
    BY DEF Safe
<1>3. \A h \in Handlers : Writing(h)' => Safe(job[h].write)'
    BY <1>2 DEF Inv, Writing
<1>4. Exclusive'
    BY DEF Inv, Exclusive, Writing, Slotted
<1>5. PhantomIsInvited'
    BY DEF Inv, PhantomIsInvited, Open
<1> QED
    BY <1>1, <1>3, <1>4, <1>5 DEF Inv, Writing, Safe

LEMMA BeginInv ==
    ASSUME Inv, NEW h \in Handlers, NEW w, NEW push, Begin(h, w, push), Safe(w),
           \A s \in DOMAIN w.inv :
              \/ w.inv[s] = Free /\ inv[s] # Free
              \/ \A g \in Handlers : job[g] # Idle => s \notin DOMAIN job[g].write.inv
    PROVE  Inv'
<1> DEFINE r == [at |-> "writing", write |-> w, push |-> push, sub |-> sub,
                 pool |-> SetTo(w.pool, pool)]
<1>1. UNCHANGED <<account, joined, inv>> /\ job' = [job EXCEPT ![h] = r]
    BY DEF Begin, database
<1>2. r.write = w /\ DOMAIN r = {"at", "write", "push", "sub", "pool"}
    OBVIOUS
<1> HIDE DEF r
<1>3. DOMAIN job' = Handlers /\ job'[h] = r /\ \A g \in Handlers \ {h} : job'[g] = job[g]
    BY <1>1 DEF Inv, Typed
<1>4. Typed'
    BY <1>1, <1>2, <1>3 DEF Inv, Typed, JobType
<1>5. \A v : Safe(v) => Safe(v)'
    BY <1>1 DEF Safe
<1>6. ASSUME NEW g \in Handlers, job'[g].at = "writing"
      PROVE  Safe(job'[g].write)
    BY <1>2, <1>3, <1>6 DEF Inv, Writing
<1>7. \A g \in Handlers : Writing(g)' => Safe(job[g].write)'
    <2>1. \A g \in Handlers : Safe(job'[g].write) => Safe(job[g].write)'
        BY <1>1 DEF Safe
    <2> QED
        BY <1>6, <2>1 DEF Writing
<1>8. ASSUME NEW g \in Handlers \ {h}, Writing(g),
             NEW s \in Slotted(g) \cap DOMAIN w.inv
      PROVE  job[g].write.inv[s] = Free /\ w.inv[s] = Free
    <2>1. job[g] # Idle
        BY <1>8, IdleIsNotWriting DEF Writing
    <2>2. w.inv[s] = Free /\ inv[s] # Free
        BY <1>8, <2>1 DEF Slotted
    <2>3. Safe(job[g].write)
        BY <1>8 DEF Inv
    <2> QED
        BY <1>8, <2>2, <2>3 DEF Safe, Slotted
<1>9. Exclusive'
    <2> SUFFICES ASSUME NEW a \in Handlers, NEW b \in Handlers, a # b,
                        job'[a].at = "writing", job'[b].at = "writing",
                        NEW s \in DOMAIN job'[a].write.inv \cap DOMAIN job'[b].write.inv
                 PROVE  job'[a].write.inv[s] = Free
        BY DEF Exclusive, Writing, Slotted
    <2>1. CASE a = h
        <3>1. job'[a].write = w /\ job'[b] = job[b] /\ b \in Handlers \ {h}
            BY <1>2, <1>3, <2>1
        <3> QED
            BY <1>8, <3>1 DEF Writing, Slotted
    <2>2. CASE b = h
        <3>1. job'[b].write = w /\ job'[a] = job[a] /\ a \in Handlers \ {h}
            BY <1>2, <1>3, <2>2
        <3> QED
            BY <1>8, <3>1 DEF Writing, Slotted
    <2>3. CASE a # h /\ b # h
        <3>1. job'[b] = job[b] /\ job'[a] = job[a]
            BY <1>3, <2>3
        <3> QED
            BY <3>1 DEF Inv, Exclusive, Writing, Slotted
    <2> QED
        BY <2>1, <2>2, <2>3
<1>10. PhantomIsInvited'
    BY <1>1 DEF Inv, PhantomIsInvited, Open
<1> QED
    BY <1>4, <1>7, <1>9, <1>10 DEF Inv

(* A session that leaves invitations and providers' agents alone. *)
LEMMA BeginElsewhereInv ==
    ASSUME Inv, NEW h \in Handlers, NEW w, NEW push, Begin(h, w, push),
           w.inv = Nowhere, w.create = {}
    PROVE  Inv'
<1>1. DOMAIN w.inv = {}
    BY DEF Nowhere
<1>2. Safe(w)
    BY <1>1 DEF Safe
<1> QED
    BY <1>1, <1>2, BeginInv

-----------------------------------------------------------------------------
(* The sessions that open or close an invitation.                          *)

LEMMA OpensInv ==
    ASSUME Inv, NEW h \in Handlers, NEW s \in Slots, NEW w, NEW push, Begin(h, w, push),
           NEW r \in Invitation, DOMAIN w.inv = {s}, w.inv[s] = r,
           w.create \subseteq {r.who},
           inv[s] = Free, \A g \in Handlers : job[g] # Idle => s \notin DOMAIN job[g].write.inv
    PROVE  Inv'
<1>1. DOMAIN w.inv = {s} /\ w.inv[s] = r /\ r # Free
    BY FreeIsNoInvitation
<1>2. Safe(w)
    BY <1>1 DEF Safe
<1> QED
    BY <1>1, <1>2, BeginInv

LEMMA ClosesInv ==
    ASSUME Inv, NEW h \in Handlers, NEW S \in SUBSET Slots, NEW w, NEW push, Begin(h, w, push),
           w.inv = [x \in S |-> Free], w.create \cap Providers = {},
           \A s \in S : /\ Open(s)
                        /\ inv[s].who \in Providers => inv[s].who \in w.remove \cup w.join
    PROVE  Inv'
<1>1. DOMAIN w.inv = S /\ \A s \in S : w.inv[s] = Free
    OBVIOUS
<1>2. \A s \in S : inv[s] # Free
    BY FreeIsNoInvitation DEF Open
<1>3. Safe(w)
    BY <1>1 DEF Safe
<1> QED
    BY <1>1, <1>2, <1>3, BeginInv

LEMMA InviteInv ==
    ASSUME Inv, NEW h \in Handlers, NEW s \in Slots, NEW m \in Members, NEW k \in Kinds,
           Invite(h, s, m, k)
    PROVE  Inv'
<1> DEFINE r == [status |-> "pending", who |-> m, kind |-> k]
           w == [NoWrite EXCEPT !.inv = [x \in {s} |-> r],
                                !.pool = IF k = "reader" THEN Bought ELSE Keep]
<1>1. r \in Invitation
    BY DEF Invitation, People
<1>2. DOMAIN w.inv = {s} /\ w.inv[s] = r /\ w.create = {}
    BY DEF NoWrite
<1>3. Begin(h, w, "own")
    BY DEF Invite
<1>4. inv[s] = Free /\ \A g \in Handlers : job[g] # Idle => s \notin DOMAIN job[g].write.inv
    BY DEF Invite
<1> HIDE DEF r, w
<1> QED
    BY <1>1, <1>2, <1>3, <1>4, OpensInv

LEMMA InviteProviderInv ==
    ASSUME Inv, NEW h \in Handlers, NEW s \in Slots, NEW p \in Providers,
           InviteProvider(h, s, p)
    PROVE  Inv'
<1> DEFINE r == [status |-> "pending", who |-> p, kind |-> "staff"]
           w == [NoWrite EXCEPT !.inv = [x \in {s} |-> r], !.create = {p}]
<1>1. r \in Invitation /\ r.who = p
    BY DEF Invitation, People, Kinds
<1>2. DOMAIN w.inv = {s} /\ w.inv[s] = r /\ w.create = {p}
    BY DEF NoWrite
<1>3. Begin(h, w, "none")
    BY DEF InviteProvider
<1>4. inv[s] = Free /\ \A g \in Handlers : job[g] # Idle => s \notin DOMAIN job[g].write.inv
    BY DEF InviteProvider
<1> HIDE DEF r, w
<1> QED
    BY <1>1, <1>2, <1>3, <1>4, OpensInv

LEMMA CancelInv ==
    ASSUME Inv, NEW h \in Handlers, NEW s \in Slots, Cancel(h, s)
    PROVE  Inv'
<1> DEFINE w == [NoWrite EXCEPT !.inv = [x \in {s} |-> Free],
               !.pool = IF inv[s].kind = "reader" /\ Active THEN Returned(1) ELSE Keep]
<1>1. w.inv = [x \in {s} |-> Free] /\ w.create = {}
    BY DEF NoWrite
<1>2. Begin(h, w, "own") /\ Open(s) /\ inv[s].who \notin Providers
    BY SeatAssumption DEF Cancel, Internal
<1> HIDE DEF w
<1> QED
    BY <1>1, <1>2, ClosesInv

LEMMA CancelProviderInv ==
    ASSUME Inv, NEW h \in Handlers, NEW s \in Slots, CancelProvider(h, s)
    PROVE  Inv'
<1> DEFINE w == [NoWrite EXCEPT !.inv = [x \in {s} |-> Free], !.remove = {inv[s].who}]
<1>1. w.inv = [x \in {s} |-> Free] /\ w.create = {} /\ w.remove = {inv[s].who}
    BY DEF NoWrite
<1>2. Begin(h, w, "none") /\ Open(s)
    BY DEF CancelProvider
<1> HIDE DEF w
<1> QED
    BY <1>1, <1>2, ClosesInv

LEMMA AcceptInv ==
    ASSUME Inv, NEW h \in Handlers, NEW s \in Slots, Accept(h, s)
    PROVE  Inv'
<1> DEFINE w == [NoWrite EXCEPT !.inv = [x \in {s} |-> Free], !.create = {inv[s].who},
                                !.kind = [m \in {inv[s].who} |-> inv[s].kind]]
<1>1. w.inv = [x \in {s} |-> Free] /\ w.create = {inv[s].who}
    BY DEF NoWrite
<1>2. Begin(h, w, "none") /\ Open(s) /\ inv[s].who \notin Providers
    BY SeatAssumption DEF Accept, Internal
<1> HIDE DEF w
<1> QED
    BY <1>1, <1>2, ClosesInv

LEMMA AcceptProviderInv ==
    ASSUME Inv, NEW h \in Handlers, NEW s \in Slots, AcceptProvider(h, s)
    PROVE  Inv'
<1> DEFINE w == [NoWrite EXCEPT !.inv = [x \in {s} |-> Free], !.join = {inv[s].who}]
<1>1. w.inv = [x \in {s} |-> Free] /\ w.create = {} /\ w.join = {inv[s].who}
    BY DEF NoWrite
<1>2. Begin(h, w, "none") /\ Open(s)
    BY DEF AcceptProvider
<1> HIDE DEF w
<1> QED
    BY <1>1, <1>2, ClosesInv

LEMMA SweepInv ==
    ASSUME Inv, NEW h \in Handlers, Sweep(h)
    PROVE  Inv'
<1> DEFINE late == {s \in Slots : inv[s].status = "late"}
           w == [NoWrite EXCEPT !.inv = [s \in late |-> Free],
                   !.remove = {p \in Providers : \E s \in late : inv[s].who = p},
                   !.pool = Returned(Cardinality({s \in late :
                                         Internal(s) /\ inv[s].kind = "reader"}))]
<1>1. /\ w.inv = [s \in late |-> Free] /\ w.create = {}
      /\ w.remove = {p \in Providers : \E s \in late : inv[s].who = p}
    BY DEF NoWrite
<1>2. PICK push : Begin(h, w, push)
    BY DEF Sweep
<1>3. late \in SUBSET Slots /\ \A s \in late : Open(s)
    BY DEF Open
<1> HIDE DEF w, late
<1> QED
    BY <1>1, <1>2, <1>3, ClosesInv

LEMMA MemberInv ==
    ASSUME Inv, NEW h \in Handlers, NEW m \in Members,
           \/ Deactivate(h, m) \/ Reactivate(h, m)
           \/ ToReader(h, m) \/ ToManager(h, m)
           \/ \E k \in Kinds : SetRole(h, m, k)
    PROVE  Inv'
<1>1. CASE Deactivate(h, m)
    BY <1>1, BeginElsewhereInv DEF Deactivate, NoWrite
<1>2. CASE Reactivate(h, m)
    BY <1>2, BeginElsewhereInv DEF Reactivate, NoWrite
<1>3. CASE ToReader(h, m)
    BY <1>3, BeginElsewhereInv DEF ToReader, NoWrite
<1>4. CASE ToManager(h, m)
    BY <1>4, BeginElsewhereInv DEF ToManager, NoWrite
<1>5. ASSUME NEW k \in Kinds, SetRole(h, m, k) PROVE Inv'
    BY <1>5, BeginElsewhereInv DEF SetRole, NoWrite
<1> QED
    BY <1>1, <1>2, <1>3, <1>4, <1>5

LEMMA ProviderAccessInv ==
    ASSUME Inv, NEW h \in Handlers, NEW p \in Providers,
           DeactivateProvider(h, p) \/ ReactivateProvider(h, p)
    PROVE  Inv'
BY BeginElsewhereInv DEF DeactivateProvider, ReactivateProvider, NoWrite

LEMMA SubscriptionInv ==
    ASSUME Inv, NEW h \in Handlers,
           \/ ConvertByHand(h) \/ Activate(h) \/ SubscriptionEnds(h) \/ Resume(h)
           \/ \E n \in 0..MaxOffered : OfferSeats(h, n)
           \/ AddSeat(h) \/ RemoveSeat(h)
    PROVE  Inv'
<1>1. CASE ConvertByHand(h)
    BY <1>1, BeginElsewhereInv DEF ConvertByHand, NoWrite
<1>2. CASE Activate(h)
    BY <1>2, BeginElsewhereInv DEF Activate, NoWrite
<1>3. CASE SubscriptionEnds(h)
    BY <1>3, BeginElsewhereInv DEF SubscriptionEnds, NoWrite
<1>4. CASE Resume(h)
    BY <1>4, BeginElsewhereInv DEF Resume, NoWrite
<1>5. ASSUME NEW n \in 0..MaxOffered, OfferSeats(h, n) PROVE Inv'
    BY <1>5, BeginElsewhereInv DEF OfferSeats, NoWrite
<1>6. CASE AddSeat(h)
    BY <1>6, BeginElsewhereInv DEF AddSeat, NoWrite
<1>7. CASE RemoveSeat(h)
    BY <1>7, BeginElsewhereInv DEF RemoveSeat, NoWrite
<1> QED
    BY <1>1, <1>2, <1>3, <1>4, <1>5, <1>6, <1>7

-----------------------------------------------------------------------------
(* Time, commits and pushes.                                               *)

LEMMA ExpireInv ==
    ASSUME Inv, NEW s \in Slots, Expire(s)
    PROVE  Inv'
<1>1. /\ inv[s].status = "pending" /\ inv' = [inv EXCEPT ![s].status = "late"]
      /\ UNCHANGED <<account, joined, job>>
    BY DEF Expire
<1>2. inv[s] \in Invitation /\ inv[s] # Free
    BY <1>1, FreeIsNoInvitation DEF Inv, Typed
<1>3. inv'[s] \in Invitation /\ inv'[s].who = inv[s].who /\ inv'[s] # Free
    <2>1. [inv[s] EXCEPT !.status = "late"] \in Invitation
        BY <1>2 DEF Invitation
    <2>2. inv'[s] = [inv[s] EXCEPT !.status = "late"]
        BY <1>1 DEF Inv, Typed
    <2> QED
        BY <1>2, <2>1, <2>2, FreeIsNoInvitation DEF Invitation
<1>4. \A x \in Slots \ {s} : inv'[x] = inv[x]
    BY <1>1 DEF Inv, Typed
<1>5. Typed'
    <2>1. inv' \in [Slots -> Invitation \cup {Free}]
        BY <1>1, <1>3, <1>4 DEF Inv, Typed
    <2> QED
        BY <1>1, <2>1 DEF Inv, Typed, JobType
<1>6. \A w : Safe(w) => Safe(w)'
    BY <1>2, <1>3, <1>4 DEF Safe
<1>7. \A h \in Handlers : Writing(h)' => Safe(job[h].write)'
    BY <1>1, <1>6 DEF Inv, Writing
<1>8. Exclusive'
    BY <1>1 DEF Inv, Exclusive, Writing, Slotted
<1>9. PhantomIsInvited'
    <2>1. \A x \in Slots : Open(x) => Open(x)' /\ inv'[x].who = inv[x].who
        BY <1>3, <1>4, FreeIsNoInvitation DEF Open
    <2> QED
        BY <1>1, <2>1 DEF Inv, PhantomIsInvited
<1> QED
    BY <1>5, <1>7, <1>8, <1>9 DEF Inv

LEMMA CommitInv ==
    ASSUME Inv, NEW h \in Handlers, Commit(h)
    PROVE  Inv'
<1> DEFINE w == job[h].write
<1>1. /\ job[h].at = "writing" /\ ~Refused(w)
      /\ account' = Update([p \in w.create |-> "active"],
                    Update([p \in w.remove |-> "none"], Update(w.account, account)))
      /\ joined' = (joined \ w.remove) \cup w.join
      /\ inv' = Update(w.inv, inv)
    BY DEF Commit
<1>2. /\ job' = [job EXCEPT ![h] = job'[h]]
      /\ job'[h] = Idle \/ job'[h] = [job[h] EXCEPT !.at = "pushing"]
    BY DEF Commit, Inv, Typed
<1>3. Safe(w)
    BY <1>1 DEF Inv, Writing
<1>4. \A g \in Handlers, s \in DOMAIN w.inv :
         g # h /\ Writing(g) /\ s \in Slotted(g) =>
             w.inv[s] = Free /\ job[g].write.inv[s] = Free
    BY <1>1 DEF Inv, Exclusive, Writing, Slotted
<1> HIDE DEF w
<1>5. DOMAIN job' = Handlers /\ JobType(job'[h]) /\ job'[h].at # "writing"
    <2>1. JobType(job[h]) /\ job[h] # Idle /\ DOMAIN job = Handlers
        BY <1>1, IdleIsNotWriting DEF Inv, Typed
    <2> QED
        BY <1>2, <2>1, IdleIsNotWriting DEF JobType
<1>6. \A g \in Handlers \ {h} : job'[g] = job[g]
    BY <1>2 DEF Inv, Typed
<1>7. inv' \in [Slots -> Invitation \cup {Free}]
      /\ \A s \in Slots : inv'[s] = IF s \in DOMAIN w.inv THEN w.inv[s] ELSE inv[s]
    BY <1>1, <1>3 DEF Inv, Typed, Safe, Update
<1>8. DOMAIN account' = People
      /\ \A p \in People : account'[p] =
            IF p \in w.create THEN "active" ELSE IF p \in w.remove THEN "none"
            ELSE IF p \in DOMAIN w.account THEN w.account[p] ELSE account[p]
    BY <1>1 DEF Inv, Typed, Update
<1>9. Typed'
    BY <1>5, <1>6, <1>7, <1>8 DEF Inv, Typed
(* Another session's write is still safe: a slot it opens was left alone,  *)
(* and one that is closed already needs nothing.                           *)
<1>10. ASSUME NEW g \in Handlers, Writing(g)'
       PROVE  Safe(job[g].write)'
    <2> DEFINE v == job[g].write
    <2>1. g # h /\ job'[g] = job[g] /\ Writing(g)
        BY <1>5, <1>6, <1>10 DEF Writing
    <2>2. Safe(v)
        BY <2>1 DEF Inv
    <2>3. \A s \in DOMAIN v.inv :
             \/ s \notin DOMAIN w.inv /\ inv'[s] = inv[s]
             \/ inv'[s] = Free /\ v.inv[s] = Free
        BY <1>4, <1>7, <2>1, <2>2 DEF Safe, Slotted
    <2> HIDE DEF v
    <2>4. Safe(v) => \A s \in DOMAIN v.inv :
                /\ v.inv[s] # Free => inv'[s] = Free
                /\ v.inv[s] = Free /\ inv'[s] # Free /\ inv'[s].who \in Providers =>
                       inv'[s].who \in v.remove \cup v.join
        BY <2>3 DEF Safe
    <2> QED
        BY <2>1, <2>2, <2>4 DEF Safe, v
<1>11. Exclusive'
    BY <1>5, <1>6 DEF Inv, Exclusive, Writing, Slotted
<1>12. ASSUME NEW p \in Providers, account'[p] # "none", p \notin joined'
       PROVE  \E s \in Slots : inv'[s].status # "free" /\ inv'[s].who = p
    <2>1. p \in People /\ p \notin w.join
        BY <1>1, <1>12 DEF People
    <2>2. CASE p \in w.create
        <3>1. PICK s \in DOMAIN w.inv : w.inv[s] # Free /\ w.inv[s].who = p
            BY <1>3, <2>2 DEF Safe
        <3>2. s \in Slots /\ inv'[s] = w.inv[s] /\ w.inv[s] \in Invitation
            BY <1>3, <1>7, <3>1 DEF Safe
        <3> QED
            BY <3>1, <3>2, FreeIsNoInvitation
    <2>3. CASE p \notin w.create
        <3>1. p \notin w.remove
            BY <1>8, <1>12, <2>1, <2>3
        <3>2. account[p] # "none"
            BY <1>1, <1>8, <1>12, <2>1, <2>3, <3>1 DEF Refused
        <3>3. p \notin joined
            BY <1>1, <1>12, <3>1
        <3>4. PICK s \in Slots : Open(s) /\ inv[s].who = p
            BY <3>2, <3>3 DEF Inv, PhantomIsInvited
        <3>5. inv[s] # Free
            BY <3>4, FreeIsNoInvitation DEF Open
        <3>6. s \notin DOMAIN w.inv
            BY <1>3, <2>1, <3>1, <3>4, <3>5 DEF Safe
        <3> QED
            BY <1>7, <3>4, <3>6 DEF Open
    <2> QED
        BY <2>2, <2>3
<1>13. PhantomIsInvited'
    BY <1>12 DEF PhantomIsInvited, Open
<1> QED
    BY <1>9, <1>10, <1>11, <1>13 DEF Inv

LEMMA PushesInv ==
    ASSUME Inv, NEW h \in Handlers,
           \/ Rollback(h) \/ Push(h) \/ PushFails(h) \/ Pay(h) \/ PayFails(h)
    PROVE  Inv'
<1>1. UNCHANGED <<account, joined, inv>>
    BY DEF Rollback, Push, PushFails, Pay, PayFails, database
<1>2. \/ job' = [job EXCEPT ![h] = Idle]
      \/ job' = [job EXCEPT ![h].push = "paid"] /\ job[h].at = "writing"
    BY DEF Rollback, Push, PushFails, Pay, PayFails
<1>3. CASE job' = [job EXCEPT ![h] = Idle]
    BY <1>1, <1>3, IdleIsNotWriting, QuietInv DEF Inv, Typed, JobType
<1>4. CASE job' = [job EXCEPT ![h].push = "paid"] /\ job[h].at = "writing"
    <2>1. DOMAIN job[h] = {"at", "write", "push", "sub", "pool"}
        BY <1>4, IdleIsNotWriting DEF Inv, Typed, JobType
    <2>2. job'[h] = [job[h] EXCEPT !.push = "paid"]
        BY <1>4 DEF Inv, Typed
    <2>3. /\ DOMAIN job'[h] = {"at", "write", "push", "sub", "pool"}
          /\ job'[h].at = job[h].at /\ job'[h].write = job[h].write
        BY <2>1, <2>2
    <2>4. DOMAIN job' = Handlers /\ \A g \in Handlers \ {h} : job'[g] = job[g]
        BY <1>4 DEF Inv, Typed
    <2> QED
        BY <1>1, <2>3, <2>4, QuietInv DEF Inv, Typed, JobType
<1> QED
    BY <1>2, <1>3, <1>4

-----------------------------------------------------------------------------
LEMMA NextInv == Inv /\ [Next]_vars => Inv'
<1> SUFFICES ASSUME Inv, [Next]_vars PROVE Inv'
    OBVIOUS
<1>1. ASSUME NEW h \in Handlers, NEW s \in Slots,
             \/ \E m \in Members, k \in Kinds : Invite(h, s, m, k)
             \/ \E p \in Providers : InviteProvider(h, s, p)
             \/ Cancel(h, s) \/ CancelProvider(h, s)
             \/ Accept(h, s) \/ AcceptProvider(h, s)
      PROVE  Inv'
    BY <1>1, InviteInv, InviteProviderInv, CancelInv, CancelProviderInv, AcceptInv,
       AcceptProviderInv
<1>2. ASSUME NEW h \in Handlers, NEW m \in Members,
             \/ Deactivate(h, m) \/ Reactivate(h, m)
             \/ ToReader(h, m) \/ ToManager(h, m)
             \/ \E k \in Kinds : SetRole(h, m, k)
      PROVE  Inv'
    BY <1>2, MemberInv
<1>3. ASSUME NEW h \in Handlers, NEW p \in Providers,
             DeactivateProvider(h, p) \/ ReactivateProvider(h, p)
      PROVE  Inv'
    BY <1>3, ProviderAccessInv
<1>4. ASSUME NEW h \in Handlers,
             \/ ConvertByHand(h) \/ Activate(h) \/ SubscriptionEnds(h) \/ Resume(h)
             \/ \E n \in 0..MaxOffered : OfferSeats(h, n)
             \/ AddSeat(h) \/ RemoveSeat(h)
      PROVE  Inv'
    BY <1>4, SubscriptionInv
<1>5. ASSUME NEW h \in Handlers,
             \/ Pay(h) \/ PayFails(h) \/ Sweep(h) \/ Commit(h)
             \/ Rollback(h) \/ Push(h) \/ PushFails(h)
      PROVE  Inv'
    BY <1>5, PushesInv, SweepInv, CommitInv
<1>6. ASSUME NEW s \in Slots, Expire(s) PROVE Inv'
    BY <1>6, ExpireInv
<1>7. CASE UNCHANGED vars
    BY <1>7, QuietInv DEF vars, Inv, Typed
<1> QED
    BY <1>1, <1>2, <1>3, <1>4, <1>5, <1>6, <1>7 DEF Next

LEMMA InvAlways == Spec => []Inv
BY InitInv, NextInv, PTL DEF Spec

(* A provider's agent that nobody activated has an open invitation,        *)
(* however many sessions cancel, sweep, accept and invite at once.         *)
THEOREM SeatPhantomIsInvited == Spec => []PhantomIsInvited
<1>1. Inv => PhantomIsInvited
    BY DEF Inv
<1> QED
    BY <1>1, InvAlways, PTL
-----------------------------------------------------------------------------
(* Somebody manages the agency, as long as no two sessions that touch a    *)
(* manager overlap.                                                        *)

Touched(w) == DOMAIN w.account \cup DOMAIN w.kind \cup w.create \cup w.remove
Manager(a) == a \in Members /\ account[a] = "active" /\ kind[a] = "admin"

(* Whoever manages is never written by two sessions, nor one manager each. *)
ManagersApart ==
    \A g, h \in Handlers :
        (g # h /\ Writing(g) /\ Writing(h))
        => \/ Touched(job[g].write) \cap Admins = {}
           \/ Touched(job[h].write) \cap Admins = {}

(* Whatever a session is about to write, it leaves a manager alone. *)
ManagerInv ==
    /\ DOMAIN account = People /\ DOMAIN kind = Members
    /\ DOMAIN job = Handlers /\ \A h \in Handlers : JobType(job[h])
    /\ \E a : Manager(a)
    /\ \A h \in Handlers : Writing(h) => \E a : Manager(a) /\ a \notin Touched(job[h].write)

LEMMA AdminIsManager == \A a : a \in Admins <=> Manager(a)
BY DEF Admins, OnRoster, Manager

LEMMA BeginManagerInv ==
    ASSUME ManagerInv, NEW h \in Handlers, NEW w, NEW push, Begin(h, w, push),
           NEW a, Manager(a), a \notin Touched(w)
    PROVE  ManagerInv'
<1> DEFINE r == [at |-> "writing", write |-> w, push |-> push, sub |-> sub,
                 pool |-> SetTo(w.pool, pool)]
<1>1. UNCHANGED <<account, kind>> /\ job' = [job EXCEPT ![h] = r]
    BY DEF Begin, database
<1>2. r.write = w /\ JobType(r)
    BY DEF JobType
<1> HIDE DEF r
<1>3. DOMAIN job' = Handlers /\ job'[h] = r /\ \A g \in Handlers \ {h} : job'[g] = job[g]
    BY <1>1 DEF ManagerInv
<1>4. \A b : Manager(b) => Manager(b)'
    BY <1>1 DEF Manager
<1>5. ASSUME NEW g \in Handlers, Writing(g)'
      PROVE  \E b : Manager(b)' /\ b \notin Touched(job'[g].write)
    <2>1. CASE g = h
        BY <1>2, <1>3, <1>4, <2>1
    <2>2. CASE g # h
        BY <1>3, <1>4, <1>5, <2>2 DEF ManagerInv, Writing
    <2> QED
        BY <2>1, <2>2
<1>6. \A g \in Handlers : JobType(job'[g])
    BY <1>2, <1>3 DEF ManagerInv
<1>7. \E b : Manager(b)'
    BY <1>4
<1>8. DOMAIN account' = People /\ DOMAIN kind' = Members
    BY <1>1 DEF ManagerInv
<1>9. \A g \in Handlers : JobType(job[g])'
    BY <1>6
<1> QED
    BY <1>3, <1>5, <1>7, <1>8, <1>9 DEF ManagerInv, Touched

LEMMA QuietManagerInv ==
    ASSUME ManagerInv, UNCHANGED <<account, kind>>, DOMAIN job' = Handlers,
           \A h \in Handlers : /\ JobType(job'[h])
                               /\ job'[h].at = "writing" =>
                                     job[h].at = "writing" /\ job'[h].write = job[h].write
    PROVE  ManagerInv'
BY DEF ManagerInv, Manager, Writing, Touched, JobType

LEMMA CommitManagerInv ==
    ASSUME ManagerInv, ManagersApart, NEW h \in Handlers, Commit(h)
    PROVE  ManagerInv'
<1> DEFINE w == job[h].write
<1>1. /\ account' = Update([p \in w.create |-> "active"],
                    Update([p \in w.remove |-> "none"], Update(w.account, account)))
      /\ kind' = Update(w.kind, kind)
      /\ Writing(h)
    BY DEF Commit, Writing
<1>2. /\ job' = [job EXCEPT ![h] = job'[h]]
      /\ job'[h] = Idle \/ job'[h] = [job[h] EXCEPT !.at = "pushing"]
    BY DEF Commit, ManagerInv
<1>3. DOMAIN job' = Handlers /\ \A g \in Handlers \ {h} : job'[g] = job[g]
    BY <1>2 DEF ManagerInv
<1>4. job'[h].at # "writing" /\ JobType(job'[h])
    <2>1. DOMAIN job[h] = {"at", "write", "push", "sub", "pool"}
        BY <1>1, IdleIsNotWriting DEF ManagerInv, JobType, Writing
    <2> QED
        BY <1>2, <2>1, IdleIsNotWriting DEF JobType
<1>5. PICK a : Manager(a) /\ a \notin Touched(w)
    BY <1>1 DEF ManagerInv
<1>6. \A g \in Handlers \ {h} : Writing(g) =>
          Touched(w) \cap Admins = {} \/ Touched(job[g].write) \cap Admins = {}
    BY <1>1 DEF ManagersApart
<1> HIDE DEF w
<1>7. DOMAIN account' = People /\ DOMAIN kind' = Members
    BY <1>1 DEF Update, ManagerInv
<1>8. ASSUME NEW b, Manager(b), b \notin Touched(w)
      PROVE  Manager(b)'
    <2>1. account'[b] = account[b] /\ kind'[b] = kind[b]
        BY <1>1, <1>8 DEF Update, Touched, Manager, People, ManagerInv
    <2> QED
        BY <1>8, <2>1 DEF Manager
<1>9. ASSUME NEW g \in Handlers, job'[g].at = "writing"
      PROVE  \E b : Manager(b)' /\ b \notin Touched(job'[g].write)
    <2>1. g # h /\ job'[g] = job[g] /\ Writing(g)
        BY <1>3, <1>4, <1>9 DEF Writing
    <2>2. CASE Touched(job[g].write) \cap Admins = {}
        BY <1>5, <1>8, <2>1, <2>2, AdminIsManager
    <2>3. CASE Touched(w) \cap Admins = {}
        <3>1. PICK b : Manager(b) /\ b \notin Touched(job[g].write)
            BY <2>1 DEF ManagerInv
        <3>2. Manager(b)'
            BY <1>8, <2>3, <3>1, AdminIsManager
        <3> QED
            BY <2>1, <3>1, <3>2
    <2> QED
        BY <1>6, <2>1, <2>2, <2>3
<1>10. \A g \in Handlers : JobType(job[g])'
    BY <1>3, <1>4 DEF ManagerInv
<1>11. \E b : Manager(b)'
    BY <1>5, <1>8
<1> QED
    BY <1>3, <1>7, <1>9, <1>10, <1>11 DEF ManagerInv, Writing, Touched

(* A step that pushes, pays, fails, or lets time pass. *)
LEMMA PushesManagerInv ==
    ASSUME ManagerInv, NEW h \in Handlers,
           \/ Rollback(h) \/ Push(h) \/ PushFails(h) \/ Pay(h) \/ PayFails(h)
    PROVE  ManagerInv'
<1>1. UNCHANGED <<account, kind>>
    BY DEF Rollback, Push, PushFails, Pay, PayFails, database
<1>2. \/ job' = [job EXCEPT ![h] = Idle]
      \/ job' = [job EXCEPT ![h].push = "paid"] /\ job[h].at = "writing"
    BY DEF Rollback, Push, PushFails, Pay, PayFails
<1>3. CASE job' = [job EXCEPT ![h] = Idle]
    BY <1>1, <1>3, IdleIsNotWriting, QuietManagerInv DEF ManagerInv, JobType
<1>4. CASE job' = [job EXCEPT ![h].push = "paid"] /\ job[h].at = "writing"
    <2>1. DOMAIN job[h] = {"at", "write", "push", "sub", "pool"}
        BY <1>4, IdleIsNotWriting DEF ManagerInv, JobType
    <2>2. job'[h] = [job[h] EXCEPT !.push = "paid"]
        BY <1>4 DEF ManagerInv
    <2>3. /\ DOMAIN job'[h] = {"at", "write", "push", "sub", "pool"}
          /\ job'[h].at = job[h].at /\ job'[h].write = job[h].write
        BY <2>1, <2>2
    <2>4. DOMAIN job' = Handlers /\ \A g \in Handlers \ {h} : job'[g] = job[g]
        BY <1>4 DEF ManagerInv
    <2> QED
        BY <1>1, <2>3, <2>4, QuietManagerInv DEF ManagerInv, JobType
<1> QED
    BY <1>2, <1>3, <1>4

(* Sessions that write about no member who is here: a newcomer, a          *)
(* provider, an invitation, a column of the agency.                        *)
LEMMA BeginElsewhereManagerInv ==
    ASSUME ManagerInv, NEW h \in Handlers, NEW w, NEW push, Begin(h, w, push),
           \A m \in Touched(w) : m \in Members => account[m] # "active"
    PROVE  ManagerInv'
<1>1. PICK a : Manager(a)
    BY DEF ManagerInv
<1>2. a \notin Touched(w)
    BY <1>1 DEF Manager
<1> QED
    BY <1>1, <1>2, BeginManagerInv

LEMMA InvitationManagerInv ==
    ASSUME ManagerInv, NEW h \in Handlers, NEW s \in Slots,
           \/ \E m \in Members, k \in Kinds : Invite(h, s, m, k)
           \/ \E p \in Providers : InviteProvider(h, s, p)
           \/ Cancel(h, s) \/ CancelProvider(h, s)
           \/ Accept(h, s) \/ AcceptProvider(h, s)
    PROVE  ManagerInv'
<1> USE DEF NoWrite, Nowhere, Touched
<1>1. ASSUME NEW m \in Members, NEW k \in Kinds, Invite(h, s, m, k) PROVE ManagerInv'
    BY <1>1, BeginElsewhereManagerInv DEF Invite
<1>2. ASSUME NEW p \in Providers, InviteProvider(h, s, p) PROVE ManagerInv'
    BY <1>2, BeginElsewhereManagerInv, SeatAssumption DEF InviteProvider
<1>3. CASE Cancel(h, s)
    BY <1>3, BeginElsewhereManagerInv DEF Cancel
<1>4. CASE CancelProvider(h, s)
    BY <1>4, BeginElsewhereManagerInv, SeatAssumption DEF CancelProvider
<1>5. CASE Accept(h, s)
    BY <1>5, BeginElsewhereManagerInv DEF Accept
<1>6. CASE AcceptProvider(h, s)
    BY <1>6, BeginElsewhereManagerInv DEF AcceptProvider
<1> QED
    BY <1>1, <1>2, <1>3, <1>4, <1>5, <1>6

(* Sessions about one member: another one manages. *)
LEMMA BeginMemberManagerInv ==
    ASSUME ManagerInv, NEW h \in Handlers, NEW w, NEW push, Begin(h, w, push),
           NEW m, Touched(w) \subseteq {m},
           \/ KeepsManagerWithout(m) \/ Admins \ {m} # {} \/ m \notin Admins
    PROVE  ManagerInv'
<1>1. PICK a : Manager(a) /\ a # m
    BY AdminIsManager DEF KeepsManagerWithout, Admins, ManagerInv
<1> QED
    BY <1>1, BeginManagerInv

LEMMA MemberManagerInv ==
    ASSUME ManagerInv, NEW h \in Handlers, NEW m \in Members,
           \/ Deactivate(h, m) \/ Reactivate(h, m)
           \/ ToReader(h, m) \/ ToManager(h, m)
           \/ \E k \in Kinds : SetRole(h, m, k)
    PROVE  ManagerInv'
<1>1. CASE Deactivate(h, m)
    <2> DEFINE w == [NoWrite EXCEPT !.account = [x \in {m} |-> "off"],
                           !.pool = IF kind[m] = "reader" THEN Returned(1) ELSE Keep]
    <2>1. Touched(w) \subseteq {m}
        BY DEF NoWrite, Nowhere, Touched
    <2>2. Begin(h, w, "own") /\ KeepsManagerWithout(m)
        BY <1>1 DEF Deactivate
    <2> HIDE DEF w
    <2> QED
        BY <2>1, <2>2, BeginMemberManagerInv
<1>2. CASE Reactivate(h, m)
    <2> DEFINE w == [NoWrite EXCEPT !.account = [x \in {m} |-> "active"],
                           !.pool = IF kind[m] = "reader" THEN Bought ELSE Keep]
    <2>1. Touched(w) \subseteq {m}
        BY DEF NoWrite, Nowhere, Touched
    <2>2. Begin(h, w, "own") /\ m \notin Admins
        BY <1>2 DEF Reactivate, Admins, OnRoster
    <2> HIDE DEF w
    <2> QED
        BY <2>1, <2>2, BeginMemberManagerInv
<1>3. CASE ToReader(h, m)
    <2> DEFINE w == [NoWrite EXCEPT !.kind = [x \in {m} |-> "reader"],
                           !.pool = IF account[m] = "active" THEN Bought ELSE Keep]
    <2>1. Touched(w) \subseteq {m}
        BY DEF NoWrite, Nowhere, Touched
    <2>2. Begin(h, w, IF account[m] = "active" THEN "own" ELSE "none") /\ KeepsManagerWithout(m)
        BY <1>3 DEF ToReader
    <2> HIDE DEF w
    <2> QED
        BY <2>1, <2>2, BeginMemberManagerInv
<1>4. CASE ToManager(h, m)
    <2> DEFINE w == [NoWrite EXCEPT !.kind = [x \in {m} |-> "staff"],
                           !.pool = IF account[m] = "active" /\ Active
                                    THEN Returned(1) ELSE Keep]
    <2>1. Touched(w) \subseteq {m}
        BY DEF NoWrite, Nowhere, Touched
    <2>2. Begin(h, w, IF account[m] = "active" THEN "own" ELSE "none") /\ Admins \ {m} # {}
        BY <1>4 DEF ToManager
    <2> HIDE DEF w
    <2> QED
        BY <2>1, <2>2, BeginMemberManagerInv
<1>5. ASSUME NEW k \in Kinds, SetRole(h, m, k) PROVE ManagerInv'
    <2> DEFINE w == [NoWrite EXCEPT !.kind = [x \in {m} |-> k]]
    <2>1. Touched(w) \subseteq {m}
        BY DEF NoWrite, Nowhere, Touched
    <2>2. Begin(h, w, "none") /\ Admins \ {m} # {}
        BY <1>5 DEF SetRole
    <2> HIDE DEF w
    <2> QED
        BY <2>1, <2>2, BeginMemberManagerInv
<1> QED
    BY <1>1, <1>2, <1>3, <1>4, <1>5

LEMMA AgencyManagerInv ==
    ASSUME ManagerInv, NEW h \in Handlers,
           \/ \E p \in Providers : DeactivateProvider(h, p) \/ ReactivateProvider(h, p)
           \/ ConvertByHand(h) \/ Activate(h) \/ SubscriptionEnds(h) \/ Resume(h)
           \/ \E n \in 0..MaxOffered : OfferSeats(h, n)
           \/ AddSeat(h) \/ RemoveSeat(h) \/ Sweep(h)
    PROVE  ManagerInv'
<1> USE DEF NoWrite, Nowhere, Touched
<1>1. ASSUME NEW p \in Providers, DeactivateProvider(h, p) \/ ReactivateProvider(h, p)
      PROVE  ManagerInv'
    BY <1>1, BeginElsewhereManagerInv, SeatAssumption DEF DeactivateProvider, ReactivateProvider
<1>2. CASE ConvertByHand(h)
    BY <1>2, BeginElsewhereManagerInv DEF ConvertByHand
<1>3. CASE Activate(h)
    BY <1>3, BeginElsewhereManagerInv DEF Activate
<1>4. CASE SubscriptionEnds(h)
    BY <1>4, BeginElsewhereManagerInv DEF SubscriptionEnds
<1>5. CASE Resume(h)
    BY <1>5, BeginElsewhereManagerInv DEF Resume
<1>6. ASSUME NEW n \in 0..MaxOffered, OfferSeats(h, n) PROVE ManagerInv'
    BY <1>6, BeginElsewhereManagerInv DEF OfferSeats
<1>7. CASE AddSeat(h)
    BY <1>7, BeginElsewhereManagerInv DEF AddSeat
<1>8. CASE RemoveSeat(h)
    BY <1>8, BeginElsewhereManagerInv DEF RemoveSeat
<1>9. CASE Sweep(h)
    BY <1>9, BeginElsewhereManagerInv, SeatAssumption DEF Sweep
<1> QED
    BY <1>1, <1>2, <1>3, <1>4, <1>5, <1>6, <1>7, <1>8, <1>9

LEMMA NextManagerInv == ManagerInv /\ ManagersApart /\ [Next]_vars => ManagerInv'
<1> SUFFICES ASSUME ManagerInv, ManagersApart, [Next]_vars PROVE ManagerInv'
    OBVIOUS
<1>1. ASSUME NEW h \in Handlers, NEW s \in Slots,
             \/ \E m \in Members, k \in Kinds : Invite(h, s, m, k)
             \/ \E p \in Providers : InviteProvider(h, s, p)
             \/ Cancel(h, s) \/ CancelProvider(h, s)
             \/ Accept(h, s) \/ AcceptProvider(h, s)
      PROVE  ManagerInv'
    BY <1>1, InvitationManagerInv
<1>2. ASSUME NEW h \in Handlers, NEW m \in Members,
             \/ Deactivate(h, m) \/ Reactivate(h, m)
             \/ ToReader(h, m) \/ ToManager(h, m)
             \/ \E k \in Kinds : SetRole(h, m, k)
      PROVE  ManagerInv'
    BY <1>2, MemberManagerInv
<1>3. ASSUME NEW h \in Handlers, NEW p \in Providers,
             DeactivateProvider(h, p) \/ ReactivateProvider(h, p)
      PROVE  ManagerInv'
    BY <1>3, AgencyManagerInv
<1>4. ASSUME NEW h \in Handlers,
             \/ ConvertByHand(h) \/ Activate(h) \/ SubscriptionEnds(h) \/ Resume(h)
             \/ \E n \in 0..MaxOffered : OfferSeats(h, n)
             \/ AddSeat(h) \/ RemoveSeat(h) \/ Sweep(h)
      PROVE  ManagerInv'
    BY <1>4, AgencyManagerInv
<1>5. ASSUME NEW h \in Handlers,
             \/ Pay(h) \/ PayFails(h) \/ Commit(h)
             \/ Rollback(h) \/ Push(h) \/ PushFails(h)
      PROVE  ManagerInv'
    BY <1>5, PushesManagerInv, CommitManagerInv
<1>6. ASSUME NEW s \in Slots, Expire(s) PROVE ManagerInv'
    BY <1>6, QuietManagerInv DEF Expire, ManagerInv
<1>7. CASE UNCHANGED vars
    BY <1>7, QuietManagerInv DEF vars, ManagerInv
<1> QED
    BY <1>1, <1>2, <1>3, <1>4, <1>5, <1>6, <1>7 DEF Next

(* No sequence of role changes, seat types, deactivations and returns      *)
(* leaves the agency with nobody to manage it, however many sessions       *)
(* overlap, as long as no two of those that touch a manager do             *)
(* (README, section 5, for two that do).                                   *)
THEOREM SeatKeepsManager == Spec /\ []ManagersApart => []KeepsManager
<1>1. Init => ManagerInv
    <2> SUFFICES ASSUME Init PROVE ManagerInv
        OBVIOUS
    <2>1. Manager(Founder)
        BY SeatAssumption DEF Init, Manager, People
    <2>2. \A h \in Handlers : ~Writing(h) /\ JobType(job[h])
        BY IdleIsNotWriting DEF Init, Writing, JobType
    <2> QED
        BY <2>1, <2>2 DEF Init, ManagerInv
<1>2. ManagerInv => KeepsManager
    BY AdminIsManager DEF ManagerInv, KeepsManager
<1> QED
    BY <1>1, <1>2, NextManagerInv, PTL DEF Spec
-----------------------------------------------------------------------------
(* The types of what a session is about to write.                            *)
WriteOK(w) ==
    /\ w.sub \in Subscription \cup {Same} /\ w.pool \in Nat \cup {Keep}
    /\ w.offered \in Nat \cup {Keep}
    /\ w.create \subseteq People /\ w.remove \subseteq Providers /\ w.join \subseteq Providers
    /\ DOMAIN w.account \subseteq People
    /\ \A p \in DOMAIN w.account : w.account[p] \in {"active", "off"}
    /\ DOMAIN w.kind \subseteq Members /\ \A m \in DOMAIN w.kind : w.kind[m] \in Kinds
    /\ DOMAIN w.inv \subseteq Slots
    /\ \A s \in DOMAIN w.inv : w.inv[s] \in Invitation \cup {Free}

Busy(h) == job[h] # Idle

TypeInv ==
    /\ TypeOK /\ Typed
    /\ \A h \in Handlers : Busy(h) => WriteOK(job[h].write)

-----------------------------------------------------------------------------
(* The columns, and the sets counted, once a write is committed.             *)
AccountAfter(w) == Update([p \in w.create |-> "active"],
                   Update([p \in w.remove |-> "none"], Update(w.account, account)))
KindAfter(w) == Update(w.kind, kind)
InvAfter(w) == Update(w.inv, inv)

Managers == {"admin", "staff"}
Readers == {"reader"}

SeatedAfter(w, K) == {m \in Members : AccountAfter(w)[m] = "active" /\ KindAfter(w)[m] \in K}
InternalAfter(w, s) == InvAfter(w)[s].status # "free" /\ InvAfter(w)[s].who \in Members
WaitingAfter(w, K) == {s \in Slots : /\ InternalAfter(w, s) /\ InvAfter(w)[s].status = "pending"
                                     /\ InvAfter(w)[s].kind \in K}
Promised == {s \in Slots : Internal(s) /\ inv[s].kind = "reader"}
PromisedAfter(w) == {s \in Slots : InternalAfter(w, s) /\ InvAfter(w)[s].kind = "reader"}

SeatsAfter(w, K) == Cardinality(SeatedAfter(w, K)) + Cardinality(WaitingAfter(w, K))
OccupiedAfter(w) == Cardinality(SeatedAfter(w, Readers)) + Cardinality(PromisedAfter(w))

-----------------------------------------------------------------------------
(* What a session decides, in the state it reads.                            *)

(* A write that names nobody and no invitation. *)
Bare(w) ==
    /\ w.create = {} /\ w.remove = {} /\ w.join = {}
    /\ DOMAIN w.account = {} /\ DOMAIN w.kind = {} /\ DOMAIN w.inv = {}

Subscribed(x) == x \in {"manual", "paddle"}

(* The pool moves with the readers, but for a purchase and a conversion. *)
Balanced(w, push) ==
    \/ SetTo(w.pool, pool) = AtLeast0(pool + OccupiedAfter(w) - Occupied)
    \/ /\ OccupiedAfter(w) = Occupied
       /\ \/ push \in {"first", "paid"} /\ (w.pool > pool \/ w.pool >= CommittedReaders)
          \/ pool < w.pool /\ w.pool <= Occupied

(* A trial grows up to its cap, or does not grow. *)
Capped(w) ==
    \/ SeatsAfter(w, Kinds) <= TrialSeats
    \/ SeatedAfter(w, Kinds) \subseteq OnRoster(Kinds) /\ WaitingAfter(w, Kinds) \subseteq Waiting(Kinds)

(* Paddle is told of nothing when the quantities do not move. *)
Quiet(w, push) ==
    /\ push \in {"first", "paid"} => Bare(w) /\ w.sub = Same /\ w.offered = Keep /\ w.pool # Keep
    /\ push = "checkout" => Bare(w) /\ w.sub = "paddle" /\ w.offered = Keep
    /\ w.sub # Same => push \in {"none", "checkout"}
    /\ w.sub # Same /\ push = "none" => w.sub \in {"manual", "canceled"}
    /\ w.sub = "manual" => sub # "paddle"
    /\ push = "none" /\ w.sub = Same =>
          /\ w.offered = Keep /\ w.pool = Keep
          /\ fresh => SeatsAfter(w, Managers) = Seats(Managers)

Fits(w, push) ==
    /\ Active /\ Subscribed(Set(w.sub, sub)) => Balanced(w, push)
    /\ ~Active /\ ~Subscribed(Set(w.sub, sub)) => Capped(w)
    /\ Quiet(w, push)

-----------------------------------------------------------------------------
(* Columns and counts.                                                       *)
LEMMA UpdateFacts ==
    ASSUME NEW f, NEW g
    PROVE  /\ DOMAIN Update(g, f) = DOMAIN f
           /\ \A x \in DOMAIN f : Update(g, f)[x] = IF x \in DOMAIN g THEN g[x] ELSE f[x]
           /\ Update(g, f) = [x \in DOMAIN f |-> Update(g, f)[x]]
BY DEF Update

(* A column of accounts once a write is committed over it. *)
LEMMA WrittenOver ==
    ASSUME NEW old, DOMAIN old = People, NEW w
    PROVE  \A p \in People :
               Update([q \in w.create |-> "active"],
               Update([q \in w.remove |-> "none"], Update(w.account, old)))[p] =
               IF p \in w.create THEN "active" ELSE IF p \in w.remove THEN "none"
               ELSE IF p \in DOMAIN w.account THEN w.account[p] ELSE old[p]
<1> DEFINE a == Update(w.account, old)
           b == Update([q \in w.remove |-> "none"], a)
<1>1. DOMAIN a = People /\ \A p \in People :
          a[p] = IF p \in DOMAIN w.account THEN w.account[p] ELSE old[p]
    BY DEF Update
<1> HIDE DEF a
<1>2. DOMAIN b = People /\ \A p \in People :
          b[p] = IF p \in w.remove THEN "none" ELSE a[p]
    BY <1>1 DEF Update
<1> HIDE DEF b
<1>3. \A p \in People : Update([q \in w.create |-> "active"], b)[p]
          = IF p \in w.create THEN "active" ELSE b[p]
    BY <1>2 DEF Update
<1> QED
    BY <1>1, <1>2, <1>3 DEF a, b

LEMMA AccountFacts ==
    ASSUME TypeInv, NEW w
    PROVE  \A p \in People : AccountAfter(w)[p] =
               IF p \in w.create THEN "active" ELSE IF p \in w.remove THEN "none"
               ELSE IF p \in DOMAIN w.account THEN w.account[p] ELSE account[p]
BY WrittenOver DEF AccountAfter, TypeInv, TypeOK

LEMMA AfterFacts ==
    ASSUME TypeInv, NEW w, WriteOK(w)
    PROVE  /\ \A p \in People : AccountAfter(w)[p] = IF p \in w.create THEN "active"
                                ELSE IF p \in w.remove THEN "none"
                                ELSE IF p \in DOMAIN w.account THEN w.account[p] ELSE account[p]
           /\ \A m \in Members : KindAfter(w)[m] = IF m \in DOMAIN w.kind THEN w.kind[m] ELSE kind[m]
           /\ \A s \in Slots : InvAfter(w)[s] = IF s \in DOMAIN w.inv THEN w.inv[s] ELSE inv[s]
           /\ AccountAfter(w) \in [People -> {"none", "active", "off"}]
           /\ KindAfter(w) \in [Members -> Kinds]
           /\ InvAfter(w) \in [Slots -> Invitation \cup {Free}]
<1>1. /\ account \in [People -> {"none", "active", "off"}] /\ kind \in [Members -> Kinds]
      /\ inv \in [Slots -> Invitation \cup {Free}]
    BY DEF TypeInv, TypeOK
<1>2. \A p \in People : AccountAfter(w)[p] = IF p \in w.create THEN "active"
                        ELSE IF p \in w.remove THEN "none"
                        ELSE IF p \in DOMAIN w.account THEN w.account[p] ELSE account[p]
    BY AccountFacts
<1>3. DOMAIN AccountAfter(w) = People /\ AccountAfter(w) = [p \in People |-> AccountAfter(w)[p]]
    BY <1>1, UpdateFacts DEF AccountAfter
<1>4. AccountAfter(w) \in [People -> {"none", "active", "off"}]
    <2>1. \A p \in People : AccountAfter(w)[p] \in {"none", "active", "off"}
        BY <1>1, <1>2 DEF WriteOK
    <2> QED
        BY <1>3, <2>1
<1>5. /\ \A m \in Members : KindAfter(w)[m] = IF m \in DOMAIN w.kind THEN w.kind[m] ELSE kind[m]
      /\ KindAfter(w) \in [Members -> Kinds]
    BY <1>1 DEF KindAfter, Update, WriteOK
<1>6. /\ \A s \in Slots : InvAfter(w)[s] = IF s \in DOMAIN w.inv THEN w.inv[s] ELSE inv[s]
      /\ InvAfter(w) \in [Slots -> Invitation \cup {Free}]
    BY <1>1 DEF InvAfter, Update, WriteOK
<1> QED
    BY <1>2, <1>4, <1>5, <1>6

LEMMA CountFacts ==
    ASSUME NEW K, NEW w
    PROVE  /\ IsFiniteSet(OnRoster(K)) /\ Cardinality(OnRoster(K)) \in Nat
           /\ IsFiniteSet(Waiting(K)) /\ Cardinality(Waiting(K)) \in Nat
           /\ IsFiniteSet(Promised) /\ Cardinality(Promised) \in Nat
           /\ IsFiniteSet(SeatedAfter(w, K)) /\ Cardinality(SeatedAfter(w, K)) \in Nat
           /\ IsFiniteSet(WaitingAfter(w, K)) /\ Cardinality(WaitingAfter(w, K)) \in Nat
           /\ IsFiniteSet(PromisedAfter(w)) /\ Cardinality(PromisedAfter(w)) \in Nat
<1>1. /\ OnRoster(K) \in SUBSET Members /\ SeatedAfter(w, K) \in SUBSET Members
      /\ Waiting(K) \in SUBSET Slots /\ WaitingAfter(w, K) \in SUBSET Slots
      /\ Promised \in SUBSET Slots /\ PromisedAfter(w) \in SUBSET Slots
    BY DEF OnRoster, SeatedAfter, Waiting, WaitingAfter, Promised, PromisedAfter
<1>2. \A S \in SUBSET Members : IsFiniteSet(S)
    BY FS_Subset, SeatAssumption
<1>3. \A S \in SUBSET Slots : IsFiniteSet(S)
    BY FS_Subset, SeatAssumption
<1>4. \A S : IsFiniteSet(S) => Cardinality(S) \in Nat
    BY FS_CardinalityType
<1> QED
    BY <1>1, <1>2, <1>3, <1>4

LEMMA SeatsAreNat ==
    ASSUME TypeInv, NEW K
    PROVE  /\ Seats(K) \in Nat /\ CommittedReaders \in Nat /\ Usage \in Nat
           /\ Billed \in Nat /\ Occupied \in Nat
           /\ CommittedReaders <= Occupied
<1>1. \A X : Seats(X) \in Nat
    BY CountFacts DEF Seats
<1>2. Billed \in Nat
    BY <1>1, SeatAssumption DEF Billed, AtLeast0, TypeInv, TypeOK
<1>3. Occupied = Cardinality(OnRoster({"reader"})) + Cardinality(Promised)
    BY DEF Occupied, Promised
<1>4. Cardinality(Waiting({"reader"})) <= Cardinality(Promised)
    <2>1. Waiting({"reader"}) \in SUBSET Promised
        BY DEF Waiting, Promised
    <2> QED
        BY <2>1, CountFacts, FS_Subset
<1>5. /\ Cardinality(OnRoster({"reader"})) \in Nat /\ Cardinality(Promised) \in Nat
      /\ Cardinality(Waiting({"reader"})) \in Nat
    BY CountFacts
<1>6. CommittedReaders <= Occupied
    BY <1>3, <1>4, <1>5 DEF CommittedReaders, Seats
<1> QED
    BY <1>1, <1>2, <1>3, <1>5, <1>6 DEF CommittedReaders, Usage

LEMMA PoolWrites ==
    ASSUME TypeInv
    PROVE  /\ Bought \in Nat \cup {Keep} /\ Adopted \in Nat \cup {Keep}
           /\ \A n \in Nat : Returned(n) \in Nat \cup {Keep}
BY SeatsAreNat DEF Bought, Adopted, Returned, AtLeast0, TypeInv, TypeOK, Keep

-----------------------------------------------------------------------------
(* What a write does to the sets that are counted.                           *)
LEMMA SeatedStays ==
    ASSUME TypeInv, NEW w, WriteOK(w), NEW K,
           w.create \cap Members = {}, DOMAIN w.account \cap Members = {},
           \A m \in DOMAIN w.kind : account[m] = "active" => (w.kind[m] \in K <=> kind[m] \in K)
    PROVE  SeatedAfter(w, K) = OnRoster(K)
<1>1. \A m \in Members : m \in People /\ m \notin Providers
    BY SeatAssumption DEF People
<1>2. w.remove \subseteq Providers
    BY DEF WriteOK
<1>3. \A m \in Members : AccountAfter(w)[m] = account[m]
    BY <1>1, <1>2, AfterFacts
<1>4. \A m \in Members : account[m] = "active" => (KindAfter(w)[m] \in K <=> kind[m] \in K)
    BY AfterFacts
<1> QED
    BY <1>3, <1>4 DEF SeatedAfter, OnRoster

LEMMA InvitesStay ==
    ASSUME TypeInv, NEW w, WriteOK(w), NEW K,
           \A s \in DOMAIN w.inv : /\ inv[s] = Free \/ inv[s].who \in Providers
                                   /\ w.inv[s] = Free \/ w.inv[s].who \in Providers
    PROVE  WaitingAfter(w, K) = Waiting(K) /\ PromisedAfter(w) = Promised
<1>1. \A x : x \in Providers => x \notin Members
    BY SeatAssumption
<1>2. Free.status = "free"
    BY FreeIsNoInvitation
<1>3. \A s \in Slots : \/ InvAfter(w)[s] = inv[s]
                       \/ ~InternalAfter(w, s) /\ ~Internal(s)
    BY <1>1, <1>2, AfterFacts DEF InternalAfter, Internal, Open
<1> QED
    BY <1>3 DEF WaitingAfter, Waiting, PromisedAfter, Promised, InternalAfter, Internal, Open

LEMMA InvitesDrop ==
    ASSUME TypeInv, NEW w, WriteOK(w), NEW K, \A s \in DOMAIN w.inv : w.inv[s] = Free
    PROVE  /\ WaitingAfter(w, K) = Waiting(K) \ DOMAIN w.inv
           /\ PromisedAfter(w) = Promised \ DOMAIN w.inv
<1>1. \A s \in Slots : IF s \in DOMAIN w.inv THEN ~InternalAfter(w, s)
                       ELSE InvAfter(w)[s] = inv[s]
    BY FreeIsNoInvitation, AfterFacts DEF InternalAfter
<1> QED
    BY <1>1 DEF WaitingAfter, Waiting, PromisedAfter, Promised, InternalAfter, Internal, Open

(* The decision of a session that fits.                                      *)
Pushes == {"none", "own", "reread", "checkout", "first", "paid"}
Chosen(w, push) == WriteOK(w) /\ Fits(w, push) /\ push \in Pushes \ {"paid"}
Begins(h) == \E w, push : Begin(h, w, push) /\ Chosen(w, push)

LEMMA OwnFits ==
    ASSUME TypeInv, NEW w, NEW push \in {"own", "reread"}, WriteOK(w), w.sub = Same,
           Active => Balanced(w, push), ~Active => Capped(w)
    PROVE  Chosen(w, push)
BY DEF Chosen, Fits, Quiet, Pushes, Same, Set, Active, Subscribed

(* Nothing that is counted moves. *)
Aside(w) ==
    /\ \A K \in {Kinds, Managers, Readers} :
          SeatedAfter(w, K) = OnRoster(K) /\ WaitingAfter(w, K) = Waiting(K)
    /\ PromisedAfter(w) = Promised

LEMMA AsideFacts ==
    ASSUME TypeInv, NEW w, Aside(w)
    PROVE  /\ OccupiedAfter(w) = Occupied /\ SeatsAfter(w, Managers) = Seats(Managers)
           /\ Capped(w)
           /\ pool = AtLeast0(pool + OccupiedAfter(w) - Occupied)
<1>1. OccupiedAfter(w) = Occupied
    BY DEF Aside, OccupiedAfter, Occupied, Readers, Promised
<1>2. SeatsAfter(w, Managers) = Seats(Managers)
    BY DEF Aside, SeatsAfter, Seats
<1>3. Capped(w)
    BY DEF Aside, Capped
<1>4. Occupied \in Nat /\ pool \in Nat
    BY SeatsAreNat DEF TypeInv, TypeOK
<1> QED
    BY <1>1, <1>2, <1>3, <1>4 DEF AtLeast0

LEMMA AsideFits ==
    ASSUME TypeInv, NEW w, NEW push \in {"none", "own", "reread"}, WriteOK(w), Aside(w),
           w.sub = Same, w.pool = Keep, push = "none" => w.offered = Keep
    PROVE  Chosen(w, push)
<1>1. Balanced(w, push) /\ Capped(w)
    BY AsideFacts DEF Balanced, SetTo
<1>2. Quiet(w, push)
    BY AsideFacts DEF Quiet, Same
<1> QED
    BY <1>1, <1>2 DEF Chosen, Fits, Pushes

LEMMA BareIsAside ==
    ASSUME TypeInv, NEW w, WriteOK(w), Bare(w)
    PROVE  Aside(w)
<1>1. /\ w.create \cap Members = {} /\ DOMAIN w.account \cap Members = {}
      /\ DOMAIN w.kind = {} /\ DOMAIN w.inv = {}
    BY DEF Bare
<1>2. \A K : SeatedAfter(w, K) = OnRoster(K)
    BY <1>1, SeatedStays
<1>3. \A K : WaitingAfter(w, K) = Waiting(K) /\ PromisedAfter(w) = Promised
    BY <1>1, InvitesStay
<1> QED
    BY <1>2, <1>3 DEF Aside

-----------------------------------------------------------------------------
(* Each session decides what fits.                                           *)

(* The subscription, and what is bought by hand. *)
LEMMA BareChoice ==
    ASSUME TypeInv, NEW w, Bare(w), w.sub \in Subscription \cup {Same},
           w.pool \in Nat \cup {Keep}, w.offered \in Nat \cup {Keep}
    PROVE  WriteOK(w) /\ Aside(w)
<1>1. WriteOK(w)
    BY DEF WriteOK, Bare
<1> QED
    BY <1>1, BareIsAside

LEMMA SubscriptionBegins ==
    ASSUME TypeInv, NEW h \in Handlers,
           \/ ConvertByHand(h) \/ Activate(h) \/ SubscriptionEnds(h) \/ Resume(h)
           \/ \E n \in 0..MaxOffered : OfferSeats(h, n)
           \/ AddSeat(h) \/ RemoveSeat(h)
    PROVE  Begins(h)
<1>1. /\ Adopted \in Nat \cup {Keep} /\ pool \in Nat /\ CommittedReaders \in Nat
      /\ CommittedReaders <= Occupied
    BY PoolWrites, SeatsAreNat DEF TypeInv, TypeOK
<1>2. ASSUME NEW x \in {"manual", "paddle", "canceled"}, NEW n \in {Keep, Adopted},
             NEW push \in {"none", "checkout"},
             push = "checkout" <=> x = "paddle", x = "canceled" => n = Keep,
             x = "manual" => sub # "paddle", x = "paddle" => ~Active,
             NEW w, Begin(h, w, push), Bare(w), w.sub = x, w.pool = n, w.offered = Keep
      PROVE  Begins(h)
    <2>1. WriteOK(w) /\ Aside(w)
        BY <1>1, <1>2, BareChoice DEF Subscription
    <2>2. /\ OccupiedAfter(w) = Occupied /\ Capped(w)
          /\ pool = AtLeast0(pool + OccupiedAfter(w) - Occupied)
        BY <2>1, AsideFacts
    <2>3. Balanced(w, push)
        <3>1. CASE n = Keep
            BY <1>2, <2>2, <3>1 DEF Balanced, SetTo
        <3>2. CASE n = Adopted /\ n # Keep
            <4>1. pool < w.pool /\ w.pool <= Occupied
                BY <1>1, <1>2, <3>2 DEF Adopted
            <4> QED
                BY <2>2, <4>1 DEF Balanced
        <3> QED
            BY <3>1, <3>2
    <2>4. Quiet(w, push)
        BY <1>2 DEF Quiet, Same
    <2> QED
        BY <1>2, <2>1, <2>2, <2>3, <2>4 DEF Begins, Chosen, Fits, Pushes
<1>3. ASSUME NEW o \in Nat \cup {Keep}, NEW push \in {"own", "reread"},
             Begin(h, [NoWrite EXCEPT !.offered = o], push)
      PROVE  Begins(h)
    <2> DEFINE w == [NoWrite EXCEPT !.offered = o]
    <2>1. Bare(w) /\ w.sub = Same /\ w.pool = Keep /\ w.offered = o
        BY DEF Bare, NoWrite, Nowhere
    <2>2. Begin(h, w, push)
        BY <1>3
    <2> HIDE DEF w
    <2>3. /\ WriteOK(w) /\ Bare(w) /\ w.sub = Same /\ w.pool = Keep /\ Aside(w)
        BY <2>1, BareChoice
    <2> QED
        BY <2>2, <2>3, AsideFits DEF Begins
<1>4. ASSUME NEW n \in Nat, n > pool \/ n >= CommittedReaders,
             Begin(h, [NoWrite EXCEPT !.pool = n], "first")
      PROVE  Begins(h)
    <2> DEFINE w == [NoWrite EXCEPT !.pool = n]
    <2>1. Bare(w) /\ w.sub = Same /\ w.pool = n /\ w.offered = Keep
        BY DEF Bare, NoWrite, Nowhere
    <2>2. Begin(h, w, "first")
        BY <1>4
    <2> HIDE DEF w
    <2>3. /\ WriteOK(w) /\ Bare(w) /\ w.sub = Same /\ w.pool = n /\ w.offered = Keep
          /\ Aside(w)
        BY <2>1, BareChoice
    <2>4. Balanced(w, "first") /\ Capped(w)
        BY <1>4, <2>3, AsideFacts DEF Balanced
    <2>5. Quiet(w, "first")
        BY <2>3 DEF Quiet, Same, Keep
    <2> QED
        BY <2>2, <2>3, <2>4, <2>5 DEF Begins, Chosen, Fits, Pushes
<1>5. ConvertByHand(h) \/ Activate(h) \/ SubscriptionEnds(h) => Begins(h)
    <2>1. ASSUME ConvertByHand(h) PROVE Begins(h)
        <3> DEFINE w == [NoWrite EXCEPT !.sub = "manual", !.pool = Adopted]
        <3>1. Bare(w) /\ w.sub = "manual" /\ w.pool = Adopted /\ w.offered = Keep
            BY DEF Bare, NoWrite, Nowhere
        <3>2. Begin(h, w, "none") /\ sub # "paddle"
            BY <2>1 DEF ConvertByHand
        <3> HIDE DEF w
        <3> QED
            BY <1>2, <3>1, <3>2
    <2>2. ASSUME Activate(h) PROVE Begins(h)
        <3> DEFINE w == [NoWrite EXCEPT !.sub = "paddle", !.pool = Adopted]
        <3>1. Bare(w) /\ w.sub = "paddle" /\ w.pool = Adopted /\ w.offered = Keep
            BY DEF Bare, NoWrite, Nowhere
        <3>2. Begin(h, w, "checkout") /\ ~Active
            BY <2>2 DEF Activate, Active
        <3> HIDE DEF w
        <3> QED
            BY <1>2, <3>1, <3>2
    <2>3. ASSUME SubscriptionEnds(h) PROVE Begins(h)
        <3> DEFINE w == [NoWrite EXCEPT !.sub = "canceled"]
        <3>1. Bare(w) /\ w.sub = "canceled" /\ w.pool = Keep /\ w.offered = Keep
            BY DEF Bare, NoWrite, Nowhere
        <3>2. Begin(h, w, "none")
            BY <2>3 DEF SubscriptionEnds
        <3> HIDE DEF w
        <3> QED
            BY <1>2, <3>1, <3>2
    <2> QED
        BY <2>1, <2>2, <2>3
<1>6. Resume(h) => Begins(h)
    <2>1. NoWrite = [NoWrite EXCEPT !.offered = Keep]
        BY DEF NoWrite
    <2> QED
        BY <1>3, <2>1 DEF Resume
<1>7. ASSUME NEW n \in 0..MaxOffered, OfferSeats(h, n) PROVE Begins(h)
    <2>1. n \in Nat
        BY SeatAssumption
    <2> QED
        BY <1>3, <1>7, <2>1 DEF OfferSeats
<1>8. AddSeat(h) \/ RemoveSeat(h) => Begins(h)
    <2>1. ASSUME AddSeat(h) PROVE Begins(h)
        <3>1. pool + 1 \in Nat /\ pool + 1 > pool
            BY <1>1
        <3> QED
            BY <1>4, <2>1, <3>1 DEF AddSeat
    <2>2. ASSUME RemoveSeat(h) PROVE Begins(h)
        <3>1. pool - 1 \in Nat /\ pool - 1 >= CommittedReaders
            BY <1>1, <2>2 DEF RemoveSeat
        <3> QED
            BY <1>4, <2>2, <3>1 DEF RemoveSeat
    <2> QED
        BY <2>1, <2>2
<1> QED
    BY <1>5, <1>6, <1>7, <1>8

(* Providers. *)
LEMMA ProviderBegins ==
    ASSUME TypeInv, NEW h \in Handlers, NEW p \in Providers, NEW s,
           \/ /\ s \in Slots
              /\ InviteProvider(h, s, p) \/ CancelProvider(h, s) \/ AcceptProvider(h, s)
           \/ DeactivateProvider(h, p) \/ ReactivateProvider(h, p)
    PROVE  Begins(h)
<1>1. p \in People /\ p \notin Members
    BY SeatAssumption DEF People
<1>3. ASSUME NEW w, Begin(h, w, "none"), WriteOK(w),
             w.sub = Same, w.pool = Keep, w.offered = Keep,
             w.create \cap Members = {}, DOMAIN w.account \cap Members = {}, DOMAIN w.kind = {},
             \A t \in DOMAIN w.inv : /\ inv[t] = Free \/ inv[t].who \in Providers
                                     /\ w.inv[t] = Free \/ w.inv[t].who \in Providers
      PROVE  Begins(h)
    <2>1. \A K : /\ SeatedAfter(w, K) = OnRoster(K) /\ WaitingAfter(w, K) = Waiting(K)
                 /\ PromisedAfter(w) = Promised
        BY <1>3, SeatedStays, InvitesStay
    <2>2. Aside(w)
        BY <2>1 DEF Aside
    <2> QED
        BY <1>3, <2>2, AsideFits DEF Begins
<1>4. ASSUME s \in Slots, InviteProvider(h, s, p) PROVE Begins(h)
    <2> DEFINE i == [status |-> "pending", who |-> p, kind |-> "staff"]
               w == [NoWrite EXCEPT !.inv = [x \in {s} |-> i], !.create = {p}]
    <2>1. i \in Invitation /\ i.who = p
        BY <1>1 DEF Invitation, Kinds
    <2>2. /\ Begin(h, w, "none") /\ inv[s] = Free
        BY <1>4 DEF InviteProvider
    <2> HIDE DEF i
    <2>3. /\ w.sub = Same /\ w.pool = Keep /\ w.offered = Keep /\ w.create = {p}
          /\ w.remove = {} /\ w.join = {} /\ DOMAIN w.account = {} /\ DOMAIN w.kind = {}
          /\ DOMAIN w.inv = {s} /\ w.inv[s] = i
        BY DEF NoWrite, Nowhere
    <2> HIDE DEF w
    <2>4. WriteOK(w)
        BY <1>1, <1>4, <2>1, <2>3 DEF WriteOK
    <2> QED
        BY <1>1, <1>3, <2>1, <2>2, <2>3, <2>4
<1>5. ASSUME s \in Slots, CancelProvider(h, s) PROVE Begins(h)
    <2> DEFINE w == [NoWrite EXCEPT !.inv = [x \in {s} |-> Free], !.remove = {inv[s].who}]
    <2>1. Begin(h, w, "none") /\ inv[s].who \in Providers
        BY <1>5 DEF CancelProvider
    <2>2. /\ w.sub = Same /\ w.pool = Keep /\ w.offered = Keep /\ w.create = {}
          /\ w.remove = {inv[s].who} /\ w.join = {} /\ DOMAIN w.account = {}
          /\ DOMAIN w.kind = {} /\ DOMAIN w.inv = {s} /\ w.inv[s] = Free
        BY DEF NoWrite, Nowhere
    <2> HIDE DEF w
    <2>3. WriteOK(w)
        BY <1>5, <2>1, <2>2 DEF WriteOK
    <2> QED
        BY <1>3, <2>1, <2>2, <2>3
<1>6. ASSUME s \in Slots, AcceptProvider(h, s) PROVE Begins(h)
    <2> DEFINE w == [NoWrite EXCEPT !.inv = [x \in {s} |-> Free], !.join = {inv[s].who}]
    <2>1. Begin(h, w, "none") /\ inv[s].who \in Providers
        BY <1>6 DEF AcceptProvider
    <2>2. /\ w.sub = Same /\ w.pool = Keep /\ w.offered = Keep /\ w.create = {}
          /\ w.remove = {} /\ w.join = {inv[s].who} /\ DOMAIN w.account = {}
          /\ DOMAIN w.kind = {} /\ DOMAIN w.inv = {s} /\ w.inv[s] = Free
        BY DEF NoWrite, Nowhere
    <2> HIDE DEF w
    <2>3. WriteOK(w)
        BY <1>6, <2>1, <2>2 DEF WriteOK
    <2> QED
        BY <1>3, <2>1, <2>2, <2>3
<1>7. ASSUME NEW x \in {"active", "off"},
             Begin(h, [NoWrite EXCEPT !.account = [y \in {p} |-> x]], "none")
      PROVE  Begins(h)
    <2> DEFINE w == [NoWrite EXCEPT !.account = [y \in {p} |-> x]]
    <2>1. /\ w.sub = Same /\ w.pool = Keep /\ w.offered = Keep /\ w.create = {}
          /\ w.remove = {} /\ w.join = {} /\ DOMAIN w.account = {p} /\ w.account[p] = x
          /\ DOMAIN w.kind = {} /\ DOMAIN w.inv = {}
        BY DEF NoWrite, Nowhere
    <2>2. Begin(h, w, "none")
        BY <1>7
    <2> HIDE DEF w
    <2>3. WriteOK(w)
        BY <1>1, <2>1 DEF WriteOK
    <2> QED
        BY <1>1, <1>3, <2>1, <2>2, <2>3
<1>8. DeactivateProvider(h, p) \/ ReactivateProvider(h, p) => Begins(h)
    BY <1>7 DEF DeactivateProvider, ReactivateProvider
<1> QED
    BY <1>4, <1>5, <1>6, <1>8

(* A write that names one member and one invitation moves each count by what *)
(* becomes of them.                                                          *)
One(b) == IF b THEN 1 ELSE 0

LEMMA CountMove ==
    ASSUME NEW S, NEW T, NEW x, IsFiniteSet(S), IsFiniteSet(T), S \ {x} = T \ {x}
    PROVE  Cardinality(S) = Cardinality(T) + One(x \in S) - One(x \in T)
<1>1. /\ Cardinality(S) \in Nat /\ Cardinality(T) \in Nat
      /\ Cardinality(S \ {x}) = IF x \in S THEN Cardinality(S) - 1 ELSE Cardinality(S)
      /\ Cardinality(T \ {x}) = IF x \in T THEN Cardinality(T) - 1 ELSE Cardinality(T)
    BY FS_CardinalityType, FS_RemoveElement
<1> QED
    BY <1>1 DEF One

LEMMA Moves ==
    ASSUME TypeInv, NEW w, WriteOK(w), NEW m \in Members, NEW s,
           w.create \subseteq {m}, w.remove = {}, DOMAIN w.account \subseteq {m},
           DOMAIN w.kind \subseteq {m}, DOMAIN w.inv \subseteq {s}
    PROVE  /\ OccupiedAfter(w) = Occupied
                  + One(m \in SeatedAfter(w, Readers)) - One(m \in OnRoster(Readers))
                  + One(s \in PromisedAfter(w)) - One(s \in Promised)
           /\ \A K : SeatsAfter(w, K) = Seats(K)
                  + One(m \in SeatedAfter(w, K)) - One(m \in OnRoster(K))
                  + One(s \in WaitingAfter(w, K)) - One(s \in Waiting(K))
           /\ \A K : /\ SeatedAfter(w, K) \ {m} = OnRoster(K) \ {m}
                     /\ WaitingAfter(w, K) \ {s} = Waiting(K) \ {s}
<1>1. m \in People
    BY SeatAssumption DEF People
<1>2. \A K : SeatedAfter(w, K) \ {m} = OnRoster(K) \ {m}
    <2>1. \A a \in Members \ {m} : /\ AccountAfter(w)[a] = account[a]
                                   /\ KindAfter(w)[a] = kind[a]
        BY AfterFacts DEF People
    <2> QED
        BY <2>1 DEF SeatedAfter, OnRoster
<1>3. \A t \in Slots \ {s} : InvAfter(w)[t] = inv[t]
    BY AfterFacts
<1>4. \A K : WaitingAfter(w, K) \ {s} = Waiting(K) \ {s}
    BY <1>3 DEF WaitingAfter, Waiting, InternalAfter, Internal, Open
<1>5. PromisedAfter(w) \ {s} = Promised \ {s}
    BY <1>3 DEF PromisedAfter, Promised, InternalAfter, Internal, Open
<1>6. ASSUME NEW K
      PROVE  Cardinality(SeatedAfter(w, K)) = Cardinality(OnRoster(K))
                 + One(m \in SeatedAfter(w, K)) - One(m \in OnRoster(K))
    BY <1>2, CountMove, CountFacts
<1>7. ASSUME NEW K
      PROVE  Cardinality(WaitingAfter(w, K)) = Cardinality(Waiting(K))
                 + One(s \in WaitingAfter(w, K)) - One(s \in Waiting(K))
    BY <1>4, CountMove, CountFacts
<1>8. Cardinality(PromisedAfter(w)) = Cardinality(Promised)
          + One(s \in PromisedAfter(w)) - One(s \in Promised)
    BY <1>5, CountMove, CountFacts
<1>9. Occupied = Cardinality(OnRoster(Readers)) + Cardinality(Promised)
    BY DEF Occupied, Promised, Readers
<1>10. \A b : One(b) \in {0, 1}
    BY DEF One
<1>11. ASSUME NEW K
       PROVE  SeatsAfter(w, K) = Seats(K)
                  + One(m \in SeatedAfter(w, K)) - One(m \in OnRoster(K))
                  + One(s \in WaitingAfter(w, K)) - One(s \in Waiting(K))
    <2>1. Cardinality(OnRoster(K)) \in Nat /\ Cardinality(Waiting(K)) \in Nat
        BY CountFacts
    <2> QED
        BY <1>6, <1>7, <1>10, <2>1 DEF SeatsAfter, Seats
<1>12. OccupiedAfter(w) = Occupied
           + One(m \in SeatedAfter(w, Readers)) - One(m \in OnRoster(Readers))
           + One(s \in PromisedAfter(w)) - One(s \in Promised)
    <2>1. Cardinality(OnRoster(Readers)) \in Nat /\ Cardinality(Promised) \in Nat
        BY CountFacts
    <2> QED
        BY <1>6, <1>8, <1>9, <1>10, <2>1 DEF OccupiedAfter
<1> QED
    BY <1>2, <1>4, <1>11, <1>12

LEMMA PoolMoves ==
    ASSUME TypeInv
    PROVE  /\ \A n \in Nat : SetTo(Returned(n), pool) = AtLeast0(pool - n)
           /\ Active => SetTo(Bought, pool) = pool + 1
           /\ SetTo(Keep, pool) = pool /\ pool = AtLeast0(pool)
<1>1. pool \in Nat
    BY DEF TypeInv, TypeOK
<1> QED
    BY <1>1 DEF Returned, Bought, SetTo, AtLeast0, Keep

LEMMA MemberFits ==
    ASSUME TypeInv, NEW h \in Handlers, NEW m \in Members, NEW w, Begin(h, w, "own"),
           WriteOK(w), w.sub = Same, w.create = {}, w.remove = {}, DOMAIN w.inv = {},
           DOMAIN w.account \subseteq {m}, DOMAIN w.kind \subseteq {m},
           Active => SetTo(w.pool, pool) =
               AtLeast0(pool + One(m \in SeatedAfter(w, Readers)) - One(m \in OnRoster(Readers))),
           ~Active => m \in OnRoster(Kinds) \/ Usage < TrialSeats
    PROVE  Begins(h)
<1>1. PICK s : s \notin Slots
    <2>1. \E x : x \notin Slots
        BY NoSetContainsEverything
    <2> QED
        BY <2>1
<1>2. \A K : WaitingAfter(w, K) = Waiting(K) /\ PromisedAfter(w) = Promised
    BY InvitesStay
<1>3. /\ OccupiedAfter(w) = Occupied
             + One(m \in SeatedAfter(w, Readers)) - One(m \in OnRoster(Readers))
             + One(s \in PromisedAfter(w)) - One(s \in Promised)
      /\ SeatsAfter(w, Kinds) = Seats(Kinds)
             + One(m \in SeatedAfter(w, Kinds)) - One(m \in OnRoster(Kinds))
             + One(s \in WaitingAfter(w, Kinds)) - One(s \in Waiting(Kinds))
      /\ SeatedAfter(w, Kinds) \ {m} = OnRoster(Kinds) \ {m}
    BY Moves
<1>4. s \notin Promised /\ s \notin Waiting(Kinds)
    BY <1>1 DEF Promised, Waiting
<1>5. /\ \A b : One(b) \in {0, 1}
      /\ pool \in Nat /\ Occupied \in Nat /\ Usage \in Nat /\ TrialSeats \in Nat
    BY SeatsAreNat, SeatAssumption DEF One, TypeInv, TypeOK
<1>6. Active => Balanced(w, "own")
    <2>1. pool + One(m \in SeatedAfter(w, Readers)) - One(m \in OnRoster(Readers))
              = pool + OccupiedAfter(w) - Occupied
        BY <1>3, <1>2, <1>4, <1>5 DEF One
    <2> QED
        BY <2>1 DEF Balanced
<1>7. ~Active => Capped(w)
    <2>1. CASE m \in OnRoster(Kinds)
        BY <1>2, <1>3, <2>1 DEF Capped
    <2>2. CASE Usage < TrialSeats
        <3>1. SeatsAfter(w, Kinds) <= Usage + 1
            BY <1>2, <1>3, <1>4, <1>5 DEF One, Usage
        <3> QED
            BY <1>2, <1>3, <1>4, <1>5, <2>2, <3>1 DEF Capped, One, Usage
    <2> QED
        BY <2>1, <2>2
<1> QED
    BY <1>6, <1>7, OwnFits DEF Begins

(* A write of the role of one member, and of the pool. *)
RoleOnly(w, m, k, n) ==
    /\ w.sub = Same /\ w.pool = n /\ w.offered = Keep
    /\ w.create = {} /\ w.remove = {} /\ w.join = {} /\ DOMAIN w.account = {}
    /\ DOMAIN w.kind = {m} /\ w.kind[m] = k /\ DOMAIN w.inv = {}

LEMMA MemberBegins ==
    ASSUME TypeInv, NEW h \in Handlers, NEW m \in Members,
           \/ Deactivate(h, m) \/ Reactivate(h, m)
           \/ ToReader(h, m) \/ ToManager(h, m)
           \/ \E k \in Kinds : SetRole(h, m, k)
    PROVE  Begins(h)
<1>1. /\ m \in People /\ kind[m] \in Kinds /\ pool \in Nat
      /\ Bought \in Nat \cup {Keep} /\ Returned(1) \in Nat \cup {Keep}
    BY PoolWrites, SeatAssumption DEF TypeInv, TypeOK, People
<1>2. \A K : m \in OnRoster(K) <=> account[m] = "active" /\ kind[m] \in K
    BY DEF OnRoster
<1>3. ASSUME NEW w, NEW x \in {"active", "off"}, WriteOK(w), w.create = {}, w.remove = {},
             DOMAIN w.account = {m}, w.account[m] = x, DOMAIN w.kind = {}
      PROVE  \A K : m \in SeatedAfter(w, K) <=> x = "active" /\ kind[m] \in K
    <2>1. AccountAfter(w)[m] = x /\ KindAfter(w)[m] = kind[m]
        BY <1>1, <1>3, AfterFacts
    <2> QED
        BY <2>1 DEF SeatedAfter
<1>4. ASSUME NEW w, NEW k \in Kinds, WriteOK(w), w.create = {}, w.remove = {},
             DOMAIN w.account = {}, DOMAIN w.kind = {m}, w.kind[m] = k
      PROVE  \A K : m \in SeatedAfter(w, K) <=> account[m] = "active" /\ k \in K
    <2>1. AccountAfter(w)[m] = account[m] /\ KindAfter(w)[m] = k
        BY <1>1, <1>4, AfterFacts
    <2> QED
        BY <2>1 DEF SeatedAfter
<1>5. ASSUME NEW x \in {"active", "off"}, NEW n \in Nat \cup {Keep},
             Begin(h, [NoWrite EXCEPT !.account = [y \in {m} |-> x], !.pool = n], "own"),
             x = "active" <=> account[m] # "active",
             x = "off" => n = IF kind[m] = "reader" THEN Returned(1) ELSE Keep,
             x = "active" => n = (IF kind[m] = "reader" THEN Bought ELSE Keep) /\ UnderCap
      PROVE  Begins(h)
    <2> DEFINE w == [NoWrite EXCEPT !.account = [y \in {m} |-> x], !.pool = n]
    <2>1. /\ w.sub = Same /\ w.pool = n /\ w.offered = Keep /\ w.create = {}
          /\ w.remove = {} /\ w.join = {} /\ DOMAIN w.account = {m} /\ w.account[m] = x
          /\ DOMAIN w.kind = {} /\ DOMAIN w.inv = {}
        BY DEF NoWrite, Nowhere
    <2>2. Begin(h, w, "own")
        BY <1>5
    <2> HIDE DEF w
    <2>3. WriteOK(w)
        BY <1>1, <2>1 DEF WriteOK
    <2>4. \A K : m \in SeatedAfter(w, K) <=> x = "active" /\ kind[m] \in K
        BY <1>3, <2>1, <2>3
    <2>5. Active => SetTo(w.pool, pool) =
              AtLeast0(pool + One(m \in SeatedAfter(w, Readers)) - One(m \in OnRoster(Readers)))
        BY <1>1, <1>2, <1>5, <2>1, <2>4, PoolMoves DEF One, Readers, AtLeast0
    <2>6. ~Active => m \in OnRoster(Kinds) \/ Usage < TrialSeats
        BY <1>1, <1>2, <1>5 DEF UnderCap
    <2> QED
        BY <2>1, <2>2, <2>3, <2>5, <2>6, MemberFits
<1>6. Deactivate(h, m) \/ Reactivate(h, m) => Begins(h)
    <2>1. ASSUME Deactivate(h, m) PROVE Begins(h)
        <3>1. account[m] = "active" /\
              Begin(h, [NoWrite EXCEPT !.account = [y \in {m} |-> "off"],
                  !.pool = IF kind[m] = "reader" THEN Returned(1) ELSE Keep], "own")
            BY <2>1 DEF Deactivate
        <3> QED
            BY <1>1, <1>5, <3>1
    <2>2. ASSUME Reactivate(h, m) PROVE Begins(h)
        <3>1. account[m] = "off" /\ UnderCap /\
              Begin(h, [NoWrite EXCEPT !.account = [y \in {m} |-> "active"],
                  !.pool = IF kind[m] = "reader" THEN Bought ELSE Keep], "own")
            BY <2>2 DEF Reactivate
        <3> QED
            BY <1>1, <1>5, <3>1
    <2> QED
        BY <2>1, <2>2
<1>7. ASSUME NEW k \in Kinds, NEW n \in Nat \cup {Keep}, NEW push \in {"own", "none"},
             NEW w, Begin(h, w, push), RoleOnly(w, m, k, n),
             push = "own" => account[m] = "active",
             push = "none" => /\ n = Keep
                              /\ account[m] = "active" => k \in Managers /\ kind[m] \in Managers,
             Active /\ push = "own" =>
                 SetTo(n, pool) = AtLeast0(pool + One(k = "reader") - One(kind[m] = "reader"))
      PROVE  Begins(h)
    <2>1. /\ w.sub = Same /\ w.pool = n /\ w.offered = Keep /\ w.create = {}
          /\ w.remove = {} /\ w.join = {} /\ DOMAIN w.account = {}
          /\ DOMAIN w.kind = {m} /\ w.kind[m] = k /\ DOMAIN w.inv = {}
        BY <1>7 DEF RoleOnly
    <2>2. Begin(h, w, push)
        BY <1>7
    <2>3. WriteOK(w)
        BY <1>1, <2>1 DEF WriteOK
    <2>4. CASE push = "own"
        <3>1. \A K : m \in SeatedAfter(w, K) <=> account[m] = "active" /\ k \in K
            BY <1>4, <2>1, <2>3
        <3>2. /\ m \in SeatedAfter(w, Readers) <=> k = "reader"
              /\ m \in OnRoster(Readers) <=> kind[m] = "reader"
              /\ m \in OnRoster(Kinds)
            BY <1>1, <1>2, <1>7, <2>4, <3>1 DEF Readers
        <3>3. Active => SetTo(w.pool, pool) =
                AtLeast0(pool + One(m \in SeatedAfter(w, Readers)) - One(m \in OnRoster(Readers)))
            BY <1>7, <2>1, <2>4, <3>2 DEF One
        <3> QED
            BY <2>1, <2>2, <2>3, <2>4, <3>2, <3>3, MemberFits
    <2>5. CASE push = "none"
        <3>1. \A K \in {Kinds, Managers, Readers} : SeatedAfter(w, K) = OnRoster(K)
            <4> SUFFICES ASSUME NEW K \in {Kinds, Managers, Readers}
                         PROVE  account[m] = "active" => (k \in K <=> kind[m] \in K)
                BY <2>1, <2>3, SeatedStays
            <4> QED
                BY <1>7, <2>5 DEF Managers, Kinds, Readers
        <3>2. \A K : WaitingAfter(w, K) = Waiting(K) /\ PromisedAfter(w) = Promised
            BY <2>1, <2>3, InvitesStay
        <3>3. Aside(w)
            BY <3>1, <3>2 DEF Aside
        <3> QED
            BY <1>7, <2>1, <2>2, <2>3, <2>5, <3>3, AsideFits DEF Begins
    <2> QED
        BY <2>4, <2>5
<1>8. ASSUME ToReader(h, m) PROVE Begins(h)
    <2> DEFINE n == IF account[m] = "active" THEN Bought ELSE Keep
               w == [NoWrite EXCEPT !.kind = [x \in {m} |-> "reader"], !.pool = n]
               push == IF account[m] = "active" THEN "own" ELSE "none"
    <2>1. kind[m] # "reader" /\ Begin(h, w, push)
        BY <1>8 DEF ToReader
    <2>2. Active => SetTo(Bought, pool) = AtLeast0(pool + One(TRUE) - One(FALSE))
        BY <1>1, PoolMoves DEF One, AtLeast0
    <2>3. One("reader" = "reader") = One(TRUE) /\ One(kind[m] = "reader") = One(FALSE)
        BY <2>1 DEF One
    <2>4. RoleOnly(w, m, "reader", n) /\ n \in Nat \cup {Keep}
        BY <1>1 DEF RoleOnly, NoWrite, Nowhere
    <2> HIDE DEF w
    <2>5. CASE account[m] = "active"
        BY <1>7, <2>1, <2>2, <2>3, <2>4, <2>5 DEF Kinds
    <2>6. CASE account[m] # "active"
        BY <1>7, <2>1, <2>4, <2>6 DEF Kinds
    <2> QED
        BY <2>5, <2>6
<1>9. ASSUME ToManager(h, m) PROVE Begins(h)
    <2> DEFINE n == IF account[m] = "active" /\ Active THEN Returned(1) ELSE Keep
               w == [NoWrite EXCEPT !.kind = [x \in {m} |-> "staff"], !.pool = n]
               push == IF account[m] = "active" THEN "own" ELSE "none"
    <2>1. kind[m] = "reader" /\ Begin(h, w, push)
        BY <1>9 DEF ToManager
    <2>2. SetTo(Returned(1), pool) = AtLeast0(pool + One(FALSE) - One(TRUE))
        BY <1>1, PoolMoves DEF One, AtLeast0
    <2>3. One("staff" = "reader") = One(FALSE) /\ One(kind[m] = "reader") = One(TRUE)
        BY <2>1 DEF One
    <2>4. RoleOnly(w, m, "staff", n) /\ n \in Nat \cup {Keep}
        BY <1>1 DEF RoleOnly, NoWrite, Nowhere
    <2> HIDE DEF w
    <2>5. CASE account[m] = "active"
        BY <1>7, <2>1, <2>2, <2>3, <2>4, <2>5 DEF Kinds
    <2>6. CASE account[m] # "active"
        BY <1>7, <2>1, <2>4, <2>6 DEF Kinds
    <2> QED
        BY <2>5, <2>6
<1>10. ASSUME NEW k \in Kinds, SetRole(h, m, k) PROVE Begins(h)
    <2>1. /\ k # "reader" /\ kind[m] # "reader"
          /\ Begin(h, [NoWrite EXCEPT !.kind = [x \in {m} |-> k]], "none")
        BY <1>10 DEF SetRole
    <2> DEFINE w == [NoWrite EXCEPT !.kind = [x \in {m} |-> k]]
    <2>2. RoleOnly(w, m, k, Keep) /\ Begin(h, w, "none")
        BY <2>1 DEF RoleOnly, NoWrite, Nowhere
    <2> HIDE DEF w
    <2>3. k \in Managers /\ kind[m] \in Managers
        BY <1>1, <2>1 DEF Kinds, Managers
    <2> QED
        BY <1>7, <2>2, <2>3
<1> QED
    BY <1>6, <1>8, <1>9, <1>10

LEMMA InviteBegins ==
    ASSUME TypeInv, NEW h \in Handlers, NEW s \in Slots, NEW m \in Members, NEW k \in Kinds,
           Invite(h, s, m, k)
    PROVE  Begins(h)
<1> DEFINE i == [status |-> "pending", who |-> m, kind |-> k]
           n == IF k = "reader" THEN Bought ELSE Keep
           w == [NoWrite EXCEPT !.inv = [x \in {s} |-> i], !.pool = n]
<1>1. Begin(h, w, "own") /\ UnderCap /\ inv[s] = Free
    BY DEF Invite
<1>2. i \in Invitation /\ i.who = m /\ i.kind = k /\ i.status = "pending" /\ m \in Members
    BY DEF Invitation, People
<1> HIDE DEF i
<1>3. /\ w.sub = Same /\ w.pool = n /\ w.offered = Keep /\ w.create = {}
      /\ w.remove = {} /\ w.join = {} /\ DOMAIN w.account = {} /\ DOMAIN w.kind = {}
      /\ DOMAIN w.inv = {s} /\ w.inv[s] = i
    BY DEF NoWrite, Nowhere
<1> HIDE DEF w
<1>4. WriteOK(w)
    BY <1>2, <1>3, PoolWrites DEF WriteOK
<1>5. \A K : SeatedAfter(w, K) = OnRoster(K)
    BY <1>3, <1>4, SeatedStays
<1>6. InvAfter(w)[s] = i
    BY <1>3, <1>4, AfterFacts
<1>7. /\ s \in PromisedAfter(w) <=> k = "reader"
      /\ s \notin Promised /\ s \notin Waiting(Kinds)
    BY <1>1, <1>2, <1>6, FreeIsNoInvitation
       DEF PromisedAfter, InternalAfter, Promised, Waiting, Internal, Open
<1>8. /\ OccupiedAfter(w) = Occupied
             + One(m \in SeatedAfter(w, Readers)) - One(m \in OnRoster(Readers))
             + One(s \in PromisedAfter(w)) - One(s \in Promised)
      /\ SeatsAfter(w, Kinds) = Seats(Kinds)
             + One(m \in SeatedAfter(w, Kinds)) - One(m \in OnRoster(Kinds))
             + One(s \in WaitingAfter(w, Kinds)) - One(s \in Waiting(Kinds))
    BY <1>3, <1>4, Moves
<1>9. /\ \A b : One(b) \in {0, 1}
      /\ pool \in Nat /\ Occupied \in Nat /\ Usage \in Nat /\ TrialSeats \in Nat
    BY SeatsAreNat, SeatAssumption DEF One, TypeInv, TypeOK
<1>10. OccupiedAfter(w) = Occupied + One(k = "reader")
    BY <1>5, <1>7, <1>8, <1>9 DEF One
<1>11. Active => Balanced(w, "own")
    <2>1. Active => SetTo(w.pool, pool) = pool + One(k = "reader")
        BY <1>3, <1>9, PoolMoves DEF One
    <2>2. pool + One(k = "reader") = AtLeast0(pool + OccupiedAfter(w) - Occupied)
        BY <1>9, <1>10 DEF AtLeast0
    <2> QED
        BY <2>1, <2>2 DEF Balanced
<1>12. ~Active => Capped(w)
    <2>1. ~Active => Usage < TrialSeats
        BY <1>1 DEF UnderCap
    <2>2. SeatsAfter(w, Kinds) <= Usage + 1
        BY <1>5, <1>7, <1>8, <1>9 DEF One, Usage
    <2>3. SeatsAfter(w, Kinds) \in Int
        BY <1>8, <1>9 DEF Usage
    <2> QED
        BY <1>9, <2>1, <2>2, <2>3 DEF Capped
<1> QED
    BY <1>1, <1>3, <1>4, <1>11, <1>12, OwnFits DEF Begins

LEMMA CancelBegins ==
    ASSUME TypeInv, NEW h \in Handlers, NEW s \in Slots, Cancel(h, s)
    PROVE  Begins(h)
<1> DEFINE n == IF inv[s].kind = "reader" /\ Active THEN Returned(1) ELSE Keep
           w == [NoWrite EXCEPT !.inv = [x \in {s} |-> Free], !.pool = n]
<1>1. Begin(h, w, "own") /\ Internal(s)
    BY DEF Cancel
<1>2. /\ w.sub = Same /\ w.pool = n /\ w.offered = Keep /\ w.create = {}
      /\ w.remove = {} /\ w.join = {} /\ DOMAIN w.account = {} /\ DOMAIN w.kind = {}
      /\ DOMAIN w.inv = {s} /\ w.inv[s] = Free
    BY DEF NoWrite, Nowhere
<1> HIDE DEF w
<1>3. WriteOK(w)
    BY <1>2, PoolWrites DEF WriteOK
<1>4. \A K : SeatedAfter(w, K) = OnRoster(K)
    BY <1>2, <1>3, SeatedStays
<1>5. \A K : WaitingAfter(w, K) = Waiting(K) \ {s} /\ PromisedAfter(w) = Promised \ {s}
    BY <1>2, <1>3, InvitesDrop
<1>6. s \in Promised <=> inv[s].kind = "reader"
    BY <1>1 DEF Promised
<1>7. Capped(w)
    BY <1>4, <1>5 DEF Capped
<1>8. Active => Balanced(w, "own")
    <2>1. PICK m \in Members : TRUE
        BY SeatAssumption
    <2>2. OccupiedAfter(w) = Occupied
             + One(m \in SeatedAfter(w, Readers)) - One(m \in OnRoster(Readers))
             + One(s \in PromisedAfter(w)) - One(s \in Promised)
        BY <1>2, <1>3, Moves
    <2>3. /\ \A b : One(b) \in {0, 1}
          /\ pool \in Nat /\ Occupied \in Nat
        BY SeatsAreNat DEF One, TypeInv, TypeOK
    <2>4. pool + OccupiedAfter(w) - Occupied = pool - One(inv[s].kind = "reader")
        BY <1>4, <1>5, <1>6, <2>2, <2>3 DEF One
    <2>5. Active => SetTo(w.pool, pool) = AtLeast0(pool - One(inv[s].kind = "reader"))
        BY <1>2, <2>3, PoolMoves DEF One
    <2> QED
        BY <2>4, <2>5 DEF Balanced
<1> QED
    BY <1>1, <1>2, <1>3, <1>7, <1>8, OwnFits DEF Begins

LEMMA AcceptBegins ==
    ASSUME TypeInv, NEW h \in Handlers, NEW s \in Slots, Accept(h, s)
    PROVE  Begins(h)
<1> DEFINE m == inv[s].who
           k == inv[s].kind
           w == [NoWrite EXCEPT !.inv = [x \in {s} |-> Free], !.create = {m},
                                !.kind = [x \in {m} |-> k]]
<1>1. /\ Begin(h, w, "none") /\ Internal(s) /\ inv[s].status = "pending"
      /\ Active \/ Usage <= TrialSeats
      /\ account[m] = "none"
    BY DEF Accept
<1>2. inv[s] \in Invitation /\ m \in Members /\ m \in People /\ k \in Kinds
    BY <1>1, FreeIsNoInvitation DEF Internal, Open, TypeInv, TypeOK, Invitation
<1>3. /\ w.sub = Same /\ w.pool = Keep /\ w.offered = Keep /\ w.create = {m}
      /\ w.remove = {} /\ w.join = {} /\ DOMAIN w.account = {} /\ DOMAIN w.kind = {m}
      /\ w.kind[m] = k /\ DOMAIN w.inv = {s} /\ w.inv[s] = Free
    BY DEF NoWrite, Nowhere
<1> HIDE DEF w
<1>4. WriteOK(w)
    BY <1>2, <1>3 DEF WriteOK
<1>5. \A K : WaitingAfter(w, K) = Waiting(K) \ {s} /\ PromisedAfter(w) = Promised \ {s}
    BY <1>3, <1>4, InvitesDrop
<1>6. \A K : /\ m \in SeatedAfter(w, K) <=> k \in K
             /\ m \notin OnRoster(K)
             /\ s \in Waiting(K) <=> k \in K
    <2>1. AccountAfter(w)[m] = "active" /\ KindAfter(w)[m] = k
        BY <1>2, <1>3, <1>4, AfterFacts
    <2> QED
        BY <1>1, <1>2, <2>1 DEF SeatedAfter, OnRoster, Waiting
<1>7. s \in Promised <=> k = "reader"
    BY <1>1 DEF Promised
<1> HIDE DEF m, k
<1>8. /\ OccupiedAfter(w) = Occupied
             + One(m \in SeatedAfter(w, Readers)) - One(m \in OnRoster(Readers))
             + One(s \in PromisedAfter(w)) - One(s \in Promised)
      /\ \A K : SeatsAfter(w, K) = Seats(K)
             + One(m \in SeatedAfter(w, K)) - One(m \in OnRoster(K))
             + One(s \in WaitingAfter(w, K)) - One(s \in Waiting(K))
    BY <1>2, <1>3, <1>4, Moves
<1>9. /\ \A b : One(b) \in {0, 1}
      /\ pool \in Nat /\ Occupied \in Nat /\ \A K : Seats(K) \in Nat
    BY SeatsAreNat DEF One, TypeInv, TypeOK
<1>10. OccupiedAfter(w) = Occupied
    BY <1>5, <1>6, <1>7, <1>8, <1>9 DEF One, Readers
<1>11. \A K : SeatsAfter(w, K) = Seats(K)
    BY <1>5, <1>6, <1>8, <1>9 DEF One
<1>12. Balanced(w, "none")
    BY <1>3, <1>9, <1>10, PoolMoves DEF Balanced
<1>13. ~Active => Capped(w)
    BY <1>1, <1>11 DEF Capped, Usage
<1>14. Quiet(w, "none")
    BY <1>3, <1>11 DEF Quiet, Same
<1> QED
    BY <1>1, <1>3, <1>4, <1>12, <1>13, <1>14 DEF Begins, Chosen, Fits, Pushes, Set, Active,
       Subscribed

LEMMA SweepBegins ==
    ASSUME TypeInv, NEW h \in Handlers, Sweep(h)
    PROVE  Begins(h)
<1> DEFINE late == {s \in Slots : inv[s].status = "late"}
           gone == {s \in late : Internal(s) /\ inv[s].kind = "reader"}
           out == {p \in Providers : \E s \in late : inv[s].who = p}
           push == IF \E s \in late : Internal(s) THEN "reread" ELSE "none"
           w == [NoWrite EXCEPT !.inv = [s \in late |-> Free], !.remove = out,
                                !.pool = Returned(Cardinality(gone))]
<1>1. Begin(h, w, push)
    BY DEF Sweep
<1>2. /\ w.sub = Same /\ w.pool = Returned(Cardinality(gone)) /\ w.offered = Keep
      /\ w.create = {} /\ w.remove = out /\ w.join = {} /\ DOMAIN w.account = {}
      /\ DOMAIN w.kind = {} /\ DOMAIN w.inv = late /\ \A s \in late : w.inv[s] = Free
    BY DEF NoWrite, Nowhere
<1> HIDE DEF w
<1>3. /\ late \subseteq Slots /\ out \subseteq Providers /\ gone = Promised \cap late
      /\ \A K : Waiting(K) \ late = Waiting(K)
      /\ push = "none" => gone = {}
    BY DEF Promised, Waiting
<1>4. push \in {"none", "reread"}
    OBVIOUS
<1> HIDE DEF late, gone, out, push
<1>5. /\ Cardinality(gone) \in Nat
      /\ Cardinality(Promised \ late) = Cardinality(Promised) - Cardinality(gone)
      /\ gone = {} => Cardinality(gone) = 0
    <2>1. IsFiniteSet(Promised)
        BY CountFacts
    <2>2. IsFiniteSet(gone)
        BY <1>3, <2>1, FS_Intersection
    <2> QED
        BY <1>3, <2>1, <2>2, FS_Difference, FS_CardinalityType, FS_EmptySet
<1>6. WriteOK(w)
    BY <1>2, <1>3, <1>5, PoolWrites DEF WriteOK
<1>7. \A K : SeatedAfter(w, K) = OnRoster(K)
    BY <1>2, <1>6, SeatedStays
<1>8. \A K : WaitingAfter(w, K) = Waiting(K) /\ PromisedAfter(w) = Promised \ late
    BY <1>2, <1>3, <1>6, InvitesDrop
<1>9. Capped(w) /\ SeatsAfter(w, Managers) = Seats(Managers)
    BY <1>7, <1>8 DEF Capped, SeatsAfter, Seats
<1>10. Balanced(w, push)
    <2>1. /\ Cardinality(OnRoster(Readers)) \in Nat /\ Cardinality(Promised) \in Nat
          /\ pool \in Nat
        BY CountFacts DEF TypeInv, TypeOK
    <2>2. Occupied = Cardinality(OnRoster(Readers)) + Cardinality(Promised)
        BY DEF Occupied, Promised, Readers
    <2>3. pool + OccupiedAfter(w) - Occupied = pool - Cardinality(gone)
        BY <1>5, <1>7, <1>8, <2>1, <2>2 DEF OccupiedAfter
    <2>4. SetTo(w.pool, pool) = AtLeast0(pool - Cardinality(gone))
        BY <1>2, <1>5, PoolMoves
    <2> QED
        BY <2>3, <2>4 DEF Balanced
<1>11. CASE push = "reread"
    BY <1>1, <1>2, <1>6, <1>9, <1>10, <1>11, OwnFits DEF Begins
<1>12. CASE push = "none"
    <2>1. w.pool = Keep
        BY <1>2, <1>3, <1>5, <1>12 DEF Returned
    <2>2. Quiet(w, push)
        BY <1>2, <1>9, <1>12, <2>1 DEF Quiet, Same
    <2> QED
        BY <1>1, <1>2, <1>6, <1>9, <1>10, <1>12, <2>2 DEF Begins, Chosen, Fits, Pushes
<1> QED
    BY <1>4, <1>11, <1>12
LEMMA NextSteps ==
    ASSUME TypeInv, Next
    PROVE  \/ \E h \in Handlers : \/ Begins(h) \/ Commit(h) \/ Rollback(h) \/ Push(h)
                                  \/ PushFails(h) \/ Pay(h) \/ PayFails(h)
           \/ \E s \in Slots : Expire(s)
<1>1. ASSUME NEW h \in Handlers, NEW s \in Slots,
             \/ \E m \in Members, k \in Kinds : Invite(h, s, m, k)
             \/ Cancel(h, s) \/ Accept(h, s)
      PROVE  Begins(h)
    BY <1>1, InviteBegins, CancelBegins, AcceptBegins
<1>2. ASSUME NEW h \in Handlers, NEW s \in Slots,
             \/ \E p \in Providers : InviteProvider(h, s, p)
             \/ CancelProvider(h, s) \/ AcceptProvider(h, s)
      PROVE  Begins(h)
    <2>1. PICK p \in Providers :
              InviteProvider(h, s, p) \/ CancelProvider(h, s) \/ AcceptProvider(h, s)
        BY <1>2 DEF CancelProvider, AcceptProvider
    <2> QED
        BY <2>1, ProviderBegins
<1>3. ASSUME NEW h \in Handlers, NEW m \in Members,
             \/ Deactivate(h, m) \/ Reactivate(h, m)
             \/ ToReader(h, m) \/ ToManager(h, m)
             \/ \E k \in Kinds : SetRole(h, m, k)
      PROVE  Begins(h)
    BY <1>3, MemberBegins
<1>4. ASSUME NEW h \in Handlers, NEW p \in Providers,
             DeactivateProvider(h, p) \/ ReactivateProvider(h, p)
      PROVE  Begins(h)
    BY <1>4, ProviderBegins
<1>5. ASSUME NEW h \in Handlers,
             \/ ConvertByHand(h) \/ Activate(h) \/ SubscriptionEnds(h) \/ Resume(h)
             \/ \E n \in 0..MaxOffered : OfferSeats(h, n)
             \/ AddSeat(h) \/ RemoveSeat(h) \/ Sweep(h)
      PROVE  Begins(h)
    BY <1>5, SubscriptionBegins, SweepBegins
<1> QED
    BY <1>1, <1>2, <1>3, <1>4, <1>5 DEF Next

-----------------------------------------------------------------------------
(* Types, for every number of sessions.                                      *)
Columns ==
    /\ sub \in Subscription /\ pool \in Nat /\ offered \in Nat
    /\ account \in [People -> {"none", "active", "off"}]
    /\ kind \in [Members -> Kinds]
    /\ joined \subseteq Providers
    /\ inv \in [Slots -> Invitation \cup {Free}]
    /\ echo \in Quantities /\ fresh \in BOOLEAN

JobOK(r) ==
    \/ r = Idle
    \/ /\ DOMAIN r = {"at", "write", "push", "sub", "pool"}
       /\ r.at \in {"writing", "pushing"} /\ r.push \in Pushes
       /\ r.sub \in Subscription /\ r.pool \in Nat /\ WriteOK(r.write)

LEMMA TypedNow ==
    ASSUME TypeInv
    PROVE  Columns /\ DOMAIN job = Handlers /\ \A h \in Handlers : JobOK(job[h])
BY DEF TypeInv, TypeOK, Typed, Columns, JobOK, JobType, Pushes, Busy

LEMMA TypedNext ==
    ASSUME Columns', DOMAIN job' = Handlers, \A h \in Handlers : JobOK(job'[h])
    PROVE  TypeInv'
<1>1. \A h \in Handlers : JobType(job'[h])
    BY DEF JobOK, JobType
<1>2. \A h \in Handlers : job'[h] # Idle =>
          /\ job'[h].at \in {"writing", "pushing"}
          /\ job'[h].push \in {"none", "own", "reread", "checkout", "first", "paid"}
          /\ job'[h].sub \in Subscription /\ job'[h].pool \in Nat
          /\ WriteOK(job'[h].write)
    BY DEF JobOK, Pushes
<1>3. TypeOK'
    BY <1>2 DEF TypeOK, Columns, WriteOK
<1>4. Typed'
    BY <1>1 DEF Typed, Columns, JobType
<1> QED
    BY <1>2, <1>3, <1>4 DEF TypeInv, Busy, WriteOK

(* One session's job changes, to one that is typed. *)
LEMMA TypedStep ==
    ASSUME TypeInv, Columns', NEW h \in Handlers, NEW r, JobOK(r), job' = [job EXCEPT ![h] = r]
    PROVE  TypeInv'
<1>1. DOMAIN job' = Handlers /\ \A g \in Handlers : JobOK(job'[g])
    BY TypedNow
<1> QED
    BY <1>1, TypedNext

LEMMA BeginTypes ==
    ASSUME TypeInv, NEW h \in Handlers, Begins(h)
    PROVE  TypeInv'
<1>1. PICK w, push : Begin(h, w, push) /\ Chosen(w, push)
    BY DEF Begins
<1> DEFINE r == [at |-> "writing", write |-> w, push |-> push, sub |-> sub,
                 pool |-> SetTo(w.pool, pool)]
<1>2. UNCHANGED <<database, paddle>> /\ job' = [job EXCEPT ![h] = r]
    BY <1>1 DEF Begin
<1>3. JobOK(r)
    <2>1. SetTo(w.pool, pool) \in Nat /\ sub \in Subscription
        BY <1>1 DEF Chosen, WriteOK, SetTo, TypeInv, TypeOK
    <2> QED
        BY <1>1, <2>1 DEF Chosen, JobOK
<1> HIDE DEF r
<1>4. Columns'
    BY <1>2, TypedNow DEF Columns, database, paddle
<1> QED
    BY <1>2, <1>3, <1>4, TypedStep

LEMMA PushesTypes ==
    ASSUME TypeInv, NEW h \in Handlers,
           \/ Rollback(h) \/ Push(h) \/ PushFails(h) \/ Pay(h) \/ PayFails(h)
    PROVE  TypeInv'
<1>1. JobOK(job[h]) /\ Columns /\ DOMAIN job = Handlers
    BY TypedNow
<1>2. Billed \in Nat
    BY SeatsAreNat
<1>3. JobOK(Idle) /\ Nothing \in Quantities
    BY DEF JobOK, Nothing, Quantities
<1>4. CASE Rollback(h) \/ PushFails(h) \/ PayFails(h)
    <2>1. UNCHANGED database /\ job' = [job EXCEPT ![h] = Idle]
        BY <1>4 DEF Rollback, PushFails, PayFails
    <2>2. echo' \in {echo, Nothing} /\ fresh' \in BOOLEAN
        BY <1>1, <1>4 DEF Rollback, PushFails, PayFails, Columns
    <2>3. Columns'
        BY <1>1, <1>3, <2>1, <2>2 DEF Columns, database
    <2> QED
        BY <1>3, <2>1, <2>3, TypedStep
<1>5. CASE Push(h)
    <2>1. UNCHANGED database /\ job' = [job EXCEPT ![h] = Idle]
        BY <1>5 DEF Push
    <2>2. Pushed(h).pool \in Nat
        <3>1. job[h].pool \in Nat
            BY <1>1, <1>5 DEF Push, JobOK, Idle
        <3> QED
            BY <1>1, <3>1 DEF Pushed, Columns
    <2>3. echo' \in Quantities /\ fresh' \in BOOLEAN
        <3>1. echo' \in Quantities
            BY <1>1, <1>2, <1>5, <2>2 DEF Push, Columns, Quantities
        <3>2. fresh' = TRUE \/ UNCHANGED fresh
            BY <1>5 DEF Push
        <3> QED
            BY <1>1, <3>1, <3>2 DEF Columns
    <2>4. Columns'
        BY <1>1, <2>1, <2>3 DEF Columns, database
    <2> QED
        BY <1>3, <2>1, <2>4, TypedStep
<1>6. CASE Pay(h)
    <2> DEFINE r == [job[h] EXCEPT !.push = "paid"]
    <2>1. UNCHANGED database /\ job' = [job EXCEPT ![h] = r] /\ job[h].at = "writing"
        BY <1>6 DEF Pay
    <2>2. job[h].pool \in Nat /\ JobOK(r)
        BY <1>1, <2>1, IdleIsNotWriting DEF JobOK, Pushes
    <2> HIDE DEF r
    <2>3. echo' \in Quantities /\ fresh' \in BOOLEAN
        <3>1. echo' \in Quantities
            BY <1>1, <1>2, <1>6, <2>2 DEF Pay, Columns, Quantities
        <3>2. fresh' = TRUE \/ UNCHANGED fresh
            BY <1>6 DEF Pay
        <3> QED
            BY <1>1, <3>1, <3>2 DEF Columns
    <2>4. Columns'
        BY <1>1, <2>1, <2>3 DEF Columns, database
    <2> QED
        BY <2>1, <2>2, <2>4, TypedStep
<1> QED
    BY <1>4, <1>5, <1>6

LEMMA CommitTypes ==
    ASSUME TypeInv, NEW h \in Handlers, Commit(h)
    PROVE  TypeInv'
<1> DEFINE w == job[h].write
           r == IF job[h].push \in {"own", "reread"} THEN [job[h] EXCEPT !.at = "pushing"]
                ELSE Idle
<1>1. /\ sub' = Set(w.sub, sub) /\ pool' = SetTo(w.pool, pool)
      /\ offered' = SetTo(w.offered, offered)
      /\ account' = AccountAfter(w) /\ kind' = KindAfter(w) /\ inv' = InvAfter(w)
      /\ joined' = (joined \ w.remove) \cup w.join
      /\ job' = [job EXCEPT ![h] = r] /\ job[h].at = "writing"
    BY DEF Commit, AccountAfter, KindAfter, InvAfter
<1>2. JobOK(job[h]) /\ Columns /\ job[h] # Idle
    BY <1>1, TypedNow, IdleIsNotWriting
<1>3. WriteOK(w) /\ JobOK(r)
    BY <1>2 DEF JobOK
<1>4. /\ \/ UNCHANGED echo \/ echo' = Nothing
         \/ echo' = [seats |-> Billed, readers |-> pool']
      /\ UNCHANGED fresh \/ fresh' \in BOOLEAN
    <2>1. CASE job[h].push = "checkout"
        BY <2>1 DEF Commit
    <2>2. CASE job[h].push # "checkout" /\ w.sub = "canceled"
        BY <2>2 DEF Commit
    <2>3. CASE job[h].push # "checkout" /\ w.sub # "canceled"
        BY <2>3 DEF Commit
    <2> QED
        BY <2>1, <2>2, <2>3
<1> HIDE DEF w, r
<1>5. sub' \in Subscription /\ pool' \in Nat /\ offered' \in Nat /\ joined' \subseteq Providers
    BY <1>1, <1>2, <1>3 DEF Columns, WriteOK, Set, SetTo
<1>6. echo' \in Quantities /\ fresh' \in BOOLEAN
    <2>1. echo' \in Quantities
        BY <1>2, <1>4, <1>5, SeatsAreNat DEF Columns, Quantities, Nothing
    <2> QED
        BY <1>2, <1>4, <2>1 DEF Columns
<1>7. Columns'
    BY <1>1, <1>3, <1>5, <1>6, AfterFacts DEF Columns
<1> QED
    BY <1>1, <1>3, <1>7, TypedStep

LEMMA ExpireTypes ==
    ASSUME TypeInv, NEW s \in Slots, Expire(s)
    PROVE  TypeInv'
<1>1. /\ inv[s].status = "pending" /\ inv' = [inv EXCEPT ![s].status = "late"]
      /\ UNCHANGED <<sub, pool, offered, account, kind, joined, job>>
    BY DEF Expire
<1>2. Columns /\ DOMAIN job = Handlers /\ \A h \in Handlers : JobOK(job[h])
    BY TypedNow
<1>3. inv[s] \in Invitation
    BY <1>1, <1>2, FreeIsNoInvitation DEF Columns
<1>4. [inv[s] EXCEPT !.status = "late"] \in Invitation
    BY <1>3 DEF Invitation
<1>5. inv' \in [Slots -> Invitation \cup {Free}]
    BY <1>1, <1>2, <1>4 DEF Columns
<1>6. echo' \in Quantities /\ fresh' \in BOOLEAN
    <2>1. echo' = Nothing \/ UNCHANGED echo
        BY DEF Expire
    <2>2. fresh' = FALSE \/ UNCHANGED fresh
        BY DEF Expire
    <2>3. echo' \in Quantities
        BY <1>2, <2>1 DEF Columns, Quantities, Nothing
    <2> QED
        BY <1>2, <2>2, <2>3 DEF Columns
<1>7. Columns'
    BY <1>1, <1>2, <1>5, <1>6 DEF Columns
<1> QED
    BY <1>1, <1>2, <1>7, TypedNext

LEMMA NextTypes == TypeInv /\ [Next]_vars => TypeInv'
<1> SUFFICES ASSUME TypeInv, [Next]_vars PROVE TypeInv'
    OBVIOUS
<1>1. CASE UNCHANGED vars
    <2>1. Columns' /\ job' = job
        BY <1>1, TypedNow DEF Columns, vars
    <2> QED
        BY <2>1, TypedNow, TypedNext
<1>2. CASE Next
    BY <1>2, NextSteps, BeginTypes, PushesTypes, CommitTypes, ExpireTypes
<1> QED
    BY <1>1, <1>2

LEMMA InitTypes == Init => TypeInv
<1> SUFFICES ASSUME Init PROVE TypeInv
    OBVIOUS
<1>1. account \in [People -> {"none", "active", "off"}] /\ kind \in [Members -> Kinds]
    BY DEF Init, Kinds
<1>2. echo \in Quantities /\ fresh \in BOOLEAN /\ sub \in Subscription
    BY DEF Init, Quantities, Nothing, Subscription
<1>3. \A h \in Handlers : job[h] = Idle /\ JobType(job[h])
    BY DEF Init, JobType
<1> QED
    BY <1>1, <1>2, <1>3 DEF Init, TypeInv, TypeOK, Typed, Busy

LEMMA TypesAlways == Spec => []TypeInv
BY InitTypes, NextTypes, PTL DEF Spec

(* Every column, and everything a session is about to write, keeps its       *)
(* type, and the pool is never negative: any number of sessions, members,    *)
(* providers and invitations.                                                *)
THEOREM SeatsAreTyped == Spec => []TypeOK
<1>1. TypeInv => TypeOK
    BY DEF TypeInv
<1> QED
    BY <1>1, TypesAlways, PTL
-----------------------------------------------------------------------------
(* What a step does to what is counted.                                      *)

LEMMA SameCounts ==
    ASSUME UNCHANGED <<account, kind, inv>>, NEW w
    PROVE  /\ \A K : /\ SeatsAfter(w, K)' = SeatsAfter(w, K) /\ Seats(K)' = Seats(K)
           /\ OccupiedAfter(w)' = OccupiedAfter(w) /\ Occupied' = Occupied
           /\ CommittedReaders' = CommittedReaders /\ Usage' = Usage
           /\ Capped(w)' <=> Capped(w)
<1>1. \A K : /\ OnRoster(K)' = OnRoster(K) /\ Waiting(K)' = Waiting(K)
             /\ SeatedAfter(w, K)' = SeatedAfter(w, K) /\ WaitingAfter(w, K)' = WaitingAfter(w, K)
    BY DEF OnRoster, Waiting, Internal, Open, SeatedAfter, AccountAfter, KindAfter,
       WaitingAfter, InternalAfter, InvAfter
<1>2. PromisedAfter(w)' = PromisedAfter(w) /\ Promised' = Promised
    BY DEF PromisedAfter, InternalAfter, InvAfter, Promised, Internal, Open
<1>3. \A K : SeatsAfter(w, K)' = SeatsAfter(w, K) /\ Seats(K)' = Seats(K)
    BY <1>1 DEF SeatsAfter, Seats
<1>4. OccupiedAfter(w)' = OccupiedAfter(w)
    BY <1>1, <1>2 DEF OccupiedAfter
<1>5. Occupied' = Occupied
    BY <1>1, <1>2 DEF Occupied, Promised
<1>6. Capped(w)' <=> Capped(w)
    BY <1>1, <1>3 DEF Capped
<1>7. CommittedReaders' = CommittedReaders /\ Usage' = Usage
    BY <1>3 DEF CommittedReaders, Usage
<1> QED
    BY <1>3, <1>4, <1>5, <1>6, <1>7

LEMMA SameBill ==
    ASSUME UNCHANGED <<pool, offered>>, Seats(Managers)' = Seats(Managers)
    PROVE  Billed' = Billed /\ Derived' = Derived
BY DEF Billed, Derived, Managers

(* The term of an invitation passes: no seat is freed, only its promise ends; *)
(* a session at work opens the slot of nobody, so it is not concerned.        *)
LEMMA ExpireCounts ==
    ASSUME TypeInv, NEW s \in Slots, Expire(s), NEW w, WriteOK(w),
           \A x \in DOMAIN w.inv : w.inv[x] # Free => inv[x] = Free
    PROVE  /\ UNCHANGED <<sub, pool, offered, account, kind, job>>
           /\ OccupiedAfter(w)' = OccupiedAfter(w) /\ Occupied' = Occupied
           /\ CommittedReaders' <= CommittedReaders /\ Usage' <= Usage
           /\ Usage' \in Nat
           /\ Capped(w) => Capped(w)'
           /\ fresh' => /\ fresh /\ echo' = echo /\ Seats(Managers)' = Seats(Managers)
                        /\ SeatsAfter(w, Managers)' = SeatsAfter(w, Managers)
<1>1. /\ inv[s].status = "pending" /\ inv' = [inv EXCEPT ![s].status = "late"]
      /\ UNCHANGED <<sub, pool, offered, account, kind, joined, job>>
    BY DEF Expire
<1>2. inv[s] \in Invitation /\ inv[s] # Free /\ Free.status = "free"
    BY <1>1, FreeIsNoInvitation DEF TypeInv, TypeOK
<1>3. /\ inv'[s].status = "late" /\ inv'[s].who = inv[s].who /\ inv'[s].kind = inv[s].kind
      /\ \A x \in Slots \ {s} : inv'[x] = inv[x]
    BY <1>1, <1>2 DEF TypeInv, TypeOK, Invitation
<1>4. DOMAIN InvAfter(w) = Slots /\ DOMAIN InvAfter(w)' = Slots
    BY <1>1 DEF InvAfter, Update, TypeInv, TypeOK
<1>5. \A x \in Slots : /\ InvAfter(w)[x] = IF x \in DOMAIN w.inv THEN w.inv[x] ELSE inv[x]
                       /\ InvAfter(w)'[x] = IF x \in DOMAIN w.inv THEN w.inv[x] ELSE inv'[x]
    BY <1>1 DEF InvAfter, Update, TypeInv, TypeOK
<1>6. s \in DOMAIN w.inv => w.inv[s] = Free
    BY <1>2
<1>16. \A x \in Slots :
           /\ Internal(x)' <=> Internal(x)
           /\ inv'[x].kind = inv[x].kind
           /\ inv'[x].status = "pending" <=> inv[x].status = "pending" /\ x # s
    BY <1>1, <1>2, <1>3 DEF Internal, Open
<1>17. \A x \in Slots :
           /\ InternalAfter(w, x)' <=> InternalAfter(w, x)
           /\ InvAfter(w)'[x].kind = InvAfter(w)[x].kind
           /\ InvAfter(w)'[x].status = "pending" <=> InvAfter(w)[x].status = "pending" /\ x # s
    <2> SUFFICES ASSUME NEW x \in Slots
                 PROVE  /\ InternalAfter(w, x)' <=> InternalAfter(w, x)
                        /\ InvAfter(w)'[x].kind = InvAfter(w)[x].kind
                        /\ InvAfter(w)'[x].status = "pending"
                           <=> InvAfter(w)[x].status = "pending" /\ x # s
        OBVIOUS
    <2>1. CASE x \in DOMAIN w.inv
        BY <1>2, <1>5, <1>6, <2>1 DEF InternalAfter
    <2>2. CASE x \notin DOMAIN w.inv
        <3>1. InvAfter(w)[x] = inv[x] /\ InvAfter(w)'[x] = inv'[x]
            BY <1>5, <2>2
        <3>2. /\ inv'[x].kind = inv[x].kind /\ inv'[x].who = inv[x].who
              /\ inv'[x].status = "free" <=> inv[x].status = "free"
              /\ inv'[x].status = "pending" <=> inv[x].status = "pending" /\ x # s
            BY <1>1, <1>2, <1>3
        <3> QED
            BY <3>1, <3>2 DEF InternalAfter
    <2> QED
        BY <2>1, <2>2
<1>7. Promised' = Promised /\ PromisedAfter(w)' = PromisedAfter(w)
    BY <1>16, <1>17 DEF Promised, PromisedAfter
<1>8. \A K : OnRoster(K)' = OnRoster(K) /\ SeatedAfter(w, K)' = SeatedAfter(w, K)
    BY <1>1 DEF OnRoster, SeatedAfter, AccountAfter, KindAfter
<1>9. \A K : Waiting(K)' = Waiting(K) \ {s} /\ WaitingAfter(w, K)' = WaitingAfter(w, K) \ {s}
    BY <1>16, <1>17 DEF Waiting, WaitingAfter
<1>10. OccupiedAfter(w)' = OccupiedAfter(w)
    BY <1>7, <1>8 DEF OccupiedAfter
<1>11. Occupied' = Occupied
    BY <1>7, <1>8 DEF Occupied, Promised
<1>12. \A K : /\ Seats(K)' \in Nat /\ SeatsAfter(w, K)' \in Nat
              /\ Seats(K)' <= Seats(K) /\ SeatsAfter(w, K)' <= SeatsAfter(w, K)
              /\ Seats(K) \in Nat /\ SeatsAfter(w, K) \in Nat
    <2>1. \A S : IsFiniteSet(S) =>
              /\ Cardinality(S \ {s}) <= Cardinality(S)
              /\ Cardinality(S \ {s}) \in Nat /\ Cardinality(S) \in Nat
        <3> SUFFICES ASSUME NEW S, IsFiniteSet(S)
                     PROVE  /\ Cardinality(S \ {s}) <= Cardinality(S)
                            /\ Cardinality(S \ {s}) \in Nat /\ Cardinality(S) \in Nat
            OBVIOUS
        <3>1. S \ {s} \in SUBSET S
            OBVIOUS
        <3> QED
            BY <3>1, FS_Subset, FS_CardinalityType
    <2> QED
        BY <1>8, <1>9, <2>1, CountFacts DEF Seats, SeatsAfter
<1>13. /\ CommittedReaders' <= CommittedReaders /\ Usage' <= Usage /\ Usage' \in Nat
    BY <1>12 DEF CommittedReaders, Usage
<1>14. Capped(w) => Capped(w)'
    <2>1. CASE SeatsAfter(w, Kinds) <= TrialSeats
        <3>1. SeatsAfter(w, Kinds)' <= TrialSeats
            BY <1>12, <2>1, SeatAssumption
        <3> QED
            BY <3>1 DEF Capped
    <2>2. CASE SeatedAfter(w, Kinds) \subseteq OnRoster(Kinds)
               /\ WaitingAfter(w, Kinds) \subseteq Waiting(Kinds)
        <3>1. SeatedAfter(w, Kinds)' \subseteq OnRoster(Kinds)'
              /\ WaitingAfter(w, Kinds)' \subseteq Waiting(Kinds)'
            BY <1>8, <1>9, <2>2
        <3> QED
            BY <3>1 DEF Capped
    <2> QED
        BY <2>1, <2>2 DEF Capped
<1>15. ASSUME fresh'
       PROVE  /\ fresh /\ echo' = echo /\ Seats(Managers)' = Seats(Managers)
              /\ SeatsAfter(w, Managers)' = SeatsAfter(w, Managers)
    <2>1. /\ UNCHANGED <<fresh, echo>>
          /\ ~Internal(s) \/ inv[s].kind = "reader" \/ ~fresh
        BY <1>15 DEF Expire
    <2>2. fresh
        BY <1>15, <2>1
    <2>3. s \notin Waiting(Managers) /\ s \notin WaitingAfter(w, Managers)
        BY <1>2, <1>5, <1>6, <2>1, <2>2
           DEF Waiting, WaitingAfter, Internal, Open, InternalAfter, Managers
    <2>4. Waiting(Managers)' = Waiting(Managers) /\ WaitingAfter(w, Managers)' = WaitingAfter(w, Managers)
        BY <1>9, <2>3
    <2> QED
        BY <1>8, <2>1, <2>2, <2>4 DEF Seats, SeatsAfter
<1> QED
    BY <1>1, <1>10, <1>11, <1>13, <1>14, <1>15

LEMMA NothingOK == WriteOK(NoWrite) /\ DOMAIN NoWrite.inv = {}
BY DEF WriteOK, NoWrite, Nowhere

(* A commit brings what was decided.                                          *)
LEMMA CommitCounts ==
    ASSUME TypeInv, NEW h \in Handlers, Commit(h)
    PROVE  LET w == job[h].write IN
           /\ \A K : Seats(K)' = SeatsAfter(w, K)
           /\ Occupied' = OccupiedAfter(w)
           /\ OnRoster(Kinds)' = SeatedAfter(w, Kinds) /\ Waiting(Kinds)' = WaitingAfter(w, Kinds)
<1> DEFINE w == job[h].write
<1>1. account' = AccountAfter(w) /\ kind' = KindAfter(w) /\ inv' = InvAfter(w)
    BY DEF Commit, AccountAfter, KindAfter, InvAfter
<1> HIDE DEF w
<1>2. \A K : OnRoster(K)' = SeatedAfter(w, K)
    BY <1>1 DEF OnRoster, SeatedAfter
<1>3. \A K : Waiting(K)' = WaitingAfter(w, K)
    BY <1>1 DEF Waiting, Internal, Open, WaitingAfter, InternalAfter
<1>4. Promised' = PromisedAfter(w)
    BY <1>1 DEF Promised, Internal, Open, PromisedAfter, InternalAfter
<1>5. \A K : Seats(K)' = SeatsAfter(w, K)
    BY <1>2, <1>3 DEF Seats, SeatsAfter
<1>6. Occupied' = OccupiedAfter(w)
    BY <1>2, <1>4 DEF Occupied, Promised, OccupiedAfter, Readers
<1> QED
    BY <1>2, <1>3, <1>5, <1>6 DEF w

(* The steps that move what is counted are commits. *)
LEMMA QuietCounts ==
    ASSUME TypeInv, Next
    PROVE  \/ UNCHANGED database
           \/ \E h \in Handlers : Commit(h)
           \/ \E s \in Slots : Expire(s)
BY NextSteps DEF Begins, Begin, Rollback, Push, PushFails, Pay, PayFails

-----------------------------------------------------------------------------
(* Sessions about providers, which may overlap those that seat members.      *)

OfNoMember(i) == i = Free \/ i.who \in Providers

(* A write that names no member, no invitation of theirs, and neither the    *)
(* pool nor the subscription.                                                *)
Elsewhere(w) ==
    /\ w.sub = Same /\ w.pool = Keep
    /\ w.create \cap Members = {} /\ DOMAIN w.account \cap Members = {} /\ DOMAIN w.kind = {}
    /\ \A s \in DOMAIN w.inv : OfNoMember(inv[s]) /\ OfNoMember(w.inv[s])

LEMMA ElsewhereIsAside ==
    ASSUME TypeInv, NEW w, WriteOK(w), Elsewhere(w)
    PROVE  Aside(w)
<1>1. \A K : SeatedAfter(w, K) = OnRoster(K)
    BY SeatedStays DEF Elsewhere
<1>2. \A K : WaitingAfter(w, K) = Waiting(K) /\ PromisedAfter(w) = Promised
    BY InvitesStay DEF Elsewhere, OfNoMember
<1> QED
    BY <1>1, <1>2 DEF Aside

LEMMA ElsewhereFits ==
    TypeInv => \A w : WriteOK(w) /\ Elsewhere(w) =>
                   Capped(w) /\ \A push : Balanced(w, push)
<1> SUFFICES ASSUME TypeInv, NEW w, WriteOK(w), Elsewhere(w), NEW push
             PROVE  Capped(w) /\ Balanced(w, push)
    OBVIOUS
<1> QED
    BY ElsewhereIsAside, AsideFacts DEF Balanced, SetTo, Elsewhere

LEMMA ElsewhereFitsNext ==
    TypeInv' => (\A w : WriteOK(w) /\ Elsewhere(w) =>
                    Capped(w) /\ \A push : Balanced(w, push))'
BY ElsewhereFits, PTL

(* Such a session, once it commits, has moved nothing that another counts.   *)
LEMMA ElsewhereCounts ==
    ASSUME TypeInv, TypeInv', NEW h \in Handlers, Commit(h), job[h].at = "writing",
           Elsewhere(job[h].write), NEW w, WriteOK(w)
    PROVE  /\ UNCHANGED <<sub, pool>>
           /\ \A s \in Slots : OfNoMember(inv[s])' <=> OfNoMember(inv[s])
           /\ \A K : /\ SeatsAfter(w, K)' = SeatsAfter(w, K) /\ Seats(K)' = Seats(K)
           /\ OccupiedAfter(w)' = OccupiedAfter(w) /\ Occupied' = Occupied
           /\ CommittedReaders' = CommittedReaders /\ Usage' = Usage
           /\ Capped(w)' <=> Capped(w)
<1> DEFINE v == job[h].write
<1>1. WriteOK(v) /\ Elsewhere(v)
    BY IdleIsNotWriting DEF TypeInv, Busy
<1>2. /\ account' = AccountAfter(v) /\ kind' = KindAfter(v) /\ inv' = InvAfter(v)
      /\ sub' = Set(v.sub, sub) /\ pool' = SetTo(v.pool, pool)
    BY DEF Commit, AccountAfter, KindAfter, InvAfter
<1> HIDE DEF v
<1>3. UNCHANGED <<sub, pool>>
    BY <1>1, <1>2 DEF Elsewhere, Set, SetTo
<1>4. \A m \in Members : m \in People /\ m \notin Providers
    BY SeatAssumption DEF People
<1>5. \A m \in Members : account'[m] = account[m]
    BY <1>1, <1>2, <1>4, AfterFacts DEF Elsewhere, WriteOK
<1>6. \A m \in Members : kind'[m] = kind[m]
    BY <1>1, <1>2, AfterFacts DEF Elsewhere
<1>7. \A s \in Slots : inv'[s] = inv[s] \/ (OfNoMember(inv[s]) /\ OfNoMember(inv'[s]))
    BY <1>1, <1>2, AfterFacts DEF Elsewhere
<1>8. \A i : OfNoMember(i) => ~(i.status # "free" /\ i.who \in Members)
    BY <1>4, FreeIsNoInvitation DEF OfNoMember
<1>9. \A m \in Members : /\ AccountAfter(w)'[m] = AccountAfter(w)[m]
                         /\ KindAfter(w)'[m] = KindAfter(w)[m]
    <2>1. DOMAIN account = People /\ DOMAIN account' = People
        BY DEF TypeInv, TypeOK
    <2>2. \A m \in Members : AccountAfter(w)'[m] = AccountAfter(w)[m]
        BY <1>4, <1>5, <2>1, WrittenOver DEF AccountAfter
    <2>3. DOMAIN kind = Members /\ DOMAIN kind' = Members
        BY DEF TypeInv, TypeOK
    <2> QED
        BY <1>6, <2>2, <2>3 DEF KindAfter, Update
<1>10. \A s \in Slots : /\ InvAfter(w)[s] = IF s \in DOMAIN w.inv THEN w.inv[s] ELSE inv[s]
                        /\ InvAfter(w)'[s] = IF s \in DOMAIN w.inv THEN w.inv[s] ELSE inv'[s]
    BY DEF InvAfter, Update, TypeInv, TypeOK
<1>11. \A s \in Slots : \/ inv'[s] = inv[s]
                        \/ ~Internal(s) /\ ~Internal(s)'
    BY <1>7, <1>8 DEF Internal, Open
<1>12. \A s \in Slots : \/ InvAfter(w)'[s] = InvAfter(w)[s]
                        \/ ~InternalAfter(w, s) /\ ~InternalAfter(w, s)'
    BY <1>7, <1>8, <1>10 DEF InternalAfter
<1>13. \A K : OnRoster(K)' = OnRoster(K) /\ SeatedAfter(w, K)' = SeatedAfter(w, K)
    BY <1>5, <1>6, <1>9 DEF OnRoster, SeatedAfter
<1>14. \A K : Waiting(K)' = Waiting(K) /\ WaitingAfter(w, K)' = WaitingAfter(w, K)
    BY <1>11, <1>12 DEF Waiting, WaitingAfter, Internal, Open, InternalAfter
<1>15. Promised' = Promised /\ PromisedAfter(w)' = PromisedAfter(w)
    BY <1>11, <1>12 DEF Promised, PromisedAfter, Internal, Open, InternalAfter
<1>16. \A K : SeatsAfter(w, K)' = SeatsAfter(w, K) /\ Seats(K)' = Seats(K)
    BY <1>13, <1>14 DEF SeatsAfter, Seats
<1>17. OccupiedAfter(w)' = OccupiedAfter(w) /\ Occupied' = Occupied
    BY <1>13, <1>15 DEF OccupiedAfter, Occupied, Promised
<1>18. Capped(w)' <=> Capped(w)
    BY <1>13, <1>14, <1>16 DEF Capped
<1>19. CommittedReaders' = CommittedReaders /\ Usage' = Usage
    BY <1>16 DEF CommittedReaders, Usage
<1> QED
    BY <1>3, <1>7, <1>16, <1>17, <1>18, <1>19

(* It stays such a session whatever another one commits: what it closes, or  *)
(* is about to open, no other opens.                                         *)
LEMMA ElsewhereStays ==
    ASSUME Inv, TypeInv, NEW g \in Handlers, NEW h \in Handlers, g # h,
           Commit(g), Writing(h), NEW w, w = job[h].write, Elsewhere(w)
    PROVE  Elsewhere(w)'
<1> DEFINE v == job[g].write
<1>1. Writing(g) /\ inv' = InvAfter(v)
    BY DEF Commit, Writing, InvAfter
<1>2. WriteOK(v) /\ WriteOK(w)
    BY <1>1, IdleIsNotWriting DEF TypeInv, Busy, Writing
<1>3. \A s \in DOMAIN w.inv : s \in DOMAIN v.inv => v.inv[s] = Free
    BY <1>1 DEF Inv, Exclusive, Slotted
<1> HIDE DEF v
<1>4. \A s \in DOMAIN w.inv : inv'[s] = inv[s] \/ inv'[s] = Free
    BY <1>1, <1>2, <1>3, AfterFacts DEF WriteOK
<1> QED
    BY <1>4 DEF Elsewhere, OfNoMember

(* Nothing else moves what it is about. *)
LEMMA ExpireKeeps ==
    ASSUME TypeInv, NEW s \in Slots, Expire(s)
    PROVE  \A x \in Slots : OfNoMember(inv[x])' <=> OfNoMember(inv[x])
<1>1. inv[s].status = "pending" /\ inv' = [inv EXCEPT ![s].status = "late"]
    BY DEF Expire
<1>2. inv[s] \in Invitation /\ inv[s] # Free
    BY <1>1, FreeIsNoInvitation DEF TypeInv, TypeOK
<1>3. /\ inv'[s].who = inv[s].who /\ inv'[s].status = "late"
      /\ \A x \in Slots \ {s} : inv'[x] = inv[x]
    BY <1>1, <1>2 DEF TypeInv, TypeOK, Invitation
<1> QED
    BY <1>2, <1>3, FreeIsNoInvitation DEF OfNoMember

-----------------------------------------------------------------------------
(* The pool and the trial: of two sessions that have read and not yet        *)
(* committed, one is about providers only.  What is pushed meanwhile, and    *)
(* how late, does not matter.                                                *)
SeatsApart ==
    \A g, h \in Handlers :
        g # h /\ Writing(g) /\ Writing(h)
        => Elsewhere(job[g].write) \/ Elsewhere(job[h].write)

(* What a session is about to write moves the pool by the readers it seats,  *)
(* and leaves a trial under its cap.                                         *)
Counted(w, push) ==
    /\ Active /\ Subscribed(Set(w.sub, sub)) => Balanced(w, push)
    /\ ~Active /\ ~Subscribed(Set(w.sub, sub)) => Capped(w)
    /\ push = "paid" \/ push = "first" => w.pool # Keep

CountInv == \A h \in Handlers : Writing(h) => Counted(job[h].write, job[h].push)

(* What fits still does, when the counts do not move but for the invitations *)
(* that expire.                                                              *)
LEMMA BalancedKept ==
    ASSUME TypeInv, NEW w, WriteOK(w), NEW push,
           UNCHANGED pool, OccupiedAfter(w)' = OccupiedAfter(w), Occupied' = Occupied,
           CommittedReaders' <= CommittedReaders, Balanced(w, push)
    PROVE  Balanced(w, push)'
<1>1. CommittedReaders \in Int
    BY SeatsAreNat
<1>2. CommittedReaders' \in Int
    <2>1. \A K : Cardinality(OnRoster(K)') \in Nat /\ Cardinality(Waiting(K)') \in Nat
        <3>1. \A K : OnRoster(K)' \in SUBSET Members /\ Waiting(K)' \in SUBSET Slots
            BY DEF OnRoster, Waiting
        <3> QED
            BY <3>1, SeatAssumption, FS_Subset, FS_CardinalityType
    <2> QED
        BY <2>1 DEF CommittedReaders, Seats
<1> QED
    BY <1>1, <1>2 DEF Balanced, WriteOK, Keep, TypeInv, TypeOK

LEMMA CountedKept ==
    ASSUME TypeInv, NEW w, WriteOK(w), NEW push, Counted(w, push), UNCHANGED <<sub, pool>>,
           OccupiedAfter(w)' = OccupiedAfter(w), Occupied' = Occupied,
           CommittedReaders' <= CommittedReaders, Capped(w) => Capped(w)'
    PROVE  Counted(w, push)'
<1>1. Active' <=> Active
    BY DEF Active
<1> QED
    BY <1>1, BalancedKept DEF Counted

LEMMA CountStep ==
    ASSUME Inv, TypeInv, TypeInv', SeatsApart, CountInv, [Next]_vars,
           NEW h \in Handlers, Writing(h)'
    PROVE  Counted(job[h].write, job[h].push)'
<1>1. ASSUME UNCHANGED <<sub, pool, account, kind, inv>>,
             NEW w, NEW push, WriteOK(w), Counted(w, push)
      PROVE  Counted(w, push)'
    <2>1. CommittedReaders \in Int
        BY SeatsAreNat
    <2> QED
        BY <1>1, <2>1, SameCounts, CountedKept
<1>2. Writing(h) => WriteOK(job[h].write) /\ Counted(job[h].write, job[h].push)
    BY IdleIsNotWriting DEF TypeInv, Busy, Writing, CountInv
(* What a session read stands when it is not the one that moves. *)
<1>3. ASSUME Writing(h), job'[h].write = job[h].write, job'[h].push = job[h].push,
             \A w, push : w = job[h].write /\ push = job[h].push => Counted(w, push)'
      PROVE  Counted(job[h].write, job[h].push)'
    BY <1>3
<1>4. ASSUME NEW g \in Handlers, Begins(g)
      PROVE  Counted(job[h].write, job[h].push)'
    <2>1. PICK w, push : Begin(g, w, push) /\ Chosen(w, push)
        BY <1>4 DEF Begins
    <2> DEFINE r == [at |-> "writing", write |-> w, push |-> push, sub |-> sub,
                     pool |-> SetTo(w.pool, pool)]
    <2>2. UNCHANGED <<sub, pool, account, kind, inv>> /\ job' = [job EXCEPT ![g] = r]
        BY <2>1 DEF Begin, database
    <2>3. r.write = w /\ r.push = push
        OBVIOUS
    <2> HIDE DEF r
    <2>4. WriteOK(w) /\ Counted(w, push)
        BY <2>1 DEF Chosen, Fits, Quiet, Counted
    <2>5. Counted(w, push)'
        BY <1>1, <2>2, <2>4
    <2>6. CASE g = h
        <3>1. job'[h] = r
            BY <2>2, <2>6 DEF TypeInv, Typed
        <3> QED
            BY <2>3, <2>5, <3>1
    <2>7. CASE g # h
        <3>1. job'[h] = job[h] /\ Writing(h)
            BY <2>2, <2>7 DEF TypeInv, Typed, Writing
        <3> QED
            BY <1>1, <1>2, <1>3, <2>2, <3>1
    <2> QED
        BY <2>6, <2>7
<1>5. ASSUME NEW g \in Handlers,
             Rollback(g) \/ Push(g) \/ PushFails(g) \/ Pay(g) \/ PayFails(g)
      PROVE  Counted(job[h].write, job[h].push)'
    <2>1. UNCHANGED <<sub, pool, account, kind, inv>>
        BY <1>5 DEF Rollback, Push, PushFails, Pay, PayFails, database
    <2>2. CASE g # h \/ ~Pay(g)
        <3>1. job'[h] = job[h]
            BY <1>5, <2>2, IdleIsNotWriting
               DEF Rollback, Push, PushFails, Pay, PayFails, TypeInv, Typed, Writing
        <3> QED
            BY <1>1, <1>2, <1>3, <2>1, <3>1 DEF Writing
    <2>3. CASE g = h /\ Pay(h)
        <3>1. /\ Writing(h) /\ job[h].push = "first"
              /\ job' = [job EXCEPT ![h].push = "paid"]
            BY <2>3 DEF Pay, Writing
        <3>2. DOMAIN job[h] = {"at", "write", "push", "sub", "pool"}
            BY <3>1, TypedNow, IdleIsNotWriting DEF JobOK, Writing
        <3>3. job'[h].write = job[h].write /\ job'[h].push = "paid"
            BY <3>1, <3>2 DEF TypeInv, Typed
        <3>4. \A w : Counted(w, "first") => Counted(w, "paid")
            BY DEF Counted, Balanced
        <3>5. \A w : w = job[h].write => Counted(w, "paid")'
            BY <1>1, <1>2, <2>1, <3>1, <3>4
        <3> QED
            BY <3>3, <3>5
    <2> QED
        BY <1>5, <2>2, <2>3
<1>6. ASSUME NEW g \in Handlers, Commit(g)
      PROVE  Counted(job[h].write, job[h].push)'
    <2>1. /\ Writing(g) /\ job[g].at = "writing"
          /\ job' = [job EXCEPT ![g] = IF job[g].push \in {"own", "reread"}
                                       THEN [@ EXCEPT !.at = "pushing"] ELSE Idle]
        BY <1>6 DEF Commit, Writing
    <2>2. g # h
        <3>1. DOMAIN job[g] = {"at", "write", "push", "sub", "pool"}
            BY <2>1, TypedNow, IdleIsNotWriting DEF JobOK, Writing
        <3>2. job'[g].at # "writing"
            BY <2>1, <3>1, IdleIsNotWriting DEF TypeInv, Typed
        <3> QED
            BY <3>2 DEF Writing
    <2>3. job'[h] = job[h] /\ Writing(h)
        BY <2>1, <2>2 DEF TypeInv, Typed, Writing
    <2>4. ASSUME NEW w, w = job[h].write, NEW push, push = job[h].push
          PROVE  Counted(w, push)'
        <3>1. WriteOK(w) /\ Counted(w, push)
            BY <1>2, <2>3, <2>4
        <3>2. CASE Elsewhere(job[g].write)
            <4>1. CommittedReaders \in Int
                BY SeatsAreNat
            <4> QED
                BY <1>6, <2>1, <3>1, <3>2, <4>1, ElsewhereCounts, CountedKept
        <3>3. CASE Elsewhere(job[h].write)
            <4>1. Elsewhere(w)'
                BY <1>6, <2>2, <2>3, <2>4, <3>3, ElsewhereStays
            <4>2. Capped(w)' /\ Balanced(w, push)'
                BY <3>1, <4>1, ElsewhereFitsNext DEF WriteOK
            <4> QED
                BY <3>1, <4>2 DEF Counted
        <3> QED
            BY <2>1, <2>2, <2>3, <3>2, <3>3 DEF SeatsApart
    <2> QED
        BY <1>3, <2>3, <2>4
<1>7. ASSUME NEW s \in Slots, Expire(s)
      PROVE  Counted(job[h].write, job[h].push)'
    <2>1. job' = job /\ UNCHANGED <<sub, pool>>
        BY <1>7 DEF Expire
    <2>2. Writing(h)
        BY <2>1 DEF Writing
    <2>3. \A x \in DOMAIN job[h].write.inv : job[h].write.inv[x] # Free => inv[x] = Free
        BY <2>2 DEF Inv, Safe
    <2>4. ASSUME NEW w, w = job[h].write, NEW push, push = job[h].push
          PROVE  Counted(w, push)'
        BY <1>2, <1>7, <2>1, <2>2, <2>3, <2>4, ExpireCounts, CountedKept
    <2> QED
        BY <1>3, <2>1, <2>2, <2>4
<1>8. CASE UNCHANGED vars
    <2>1. UNCHANGED <<sub, pool, account, kind, inv>> /\ job' = job
        BY <1>8 DEF vars
    <2> QED
        BY <1>1, <1>2, <1>3, <2>1 DEF Writing
<1> QED
    BY <1>4, <1>5, <1>6, <1>7, <1>8, NextSteps

LEMMA CountAlways == Spec /\ []SeatsApart => []CountInv
<1>1. Init => CountInv
    BY IdleIsNotWriting DEF Init, CountInv, Writing
<1>2. Inv /\ TypeInv /\ TypeInv' /\ SeatsApart /\ CountInv /\ [Next]_vars => CountInv'
    BY CountStep DEF CountInv
<1> QED
    BY <1>1, <1>2, InvAlways, TypesAlways, PTL DEF Spec

LEMMA PoolStep ==
    ASSUME Inv, TypeInv, TypeInv', CountInv, [Next]_vars, Active, Active'
    PROVE  \/ pool' = AtLeast0(pool + Occupied' - Occupied)
           \/ /\ Occupied' = Occupied
              /\ BoughtByHand \/ (pool < pool' /\ pool' <= Occupied)
<1>1. pool \in Nat /\ pool' \in Nat /\ Occupied \in Nat
    BY SeatsAreNat DEF TypeInv, TypeOK
<1>2. pool = AtLeast0(pool + Occupied - Occupied)
    BY <1>1 DEF AtLeast0
<1>3. CASE UNCHANGED database \/ UNCHANGED vars
    <2>1. UNCHANGED <<pool, account, kind, inv>>
        BY <1>3 DEF database, vars
    <2> QED
        BY <1>2, <2>1, SameCounts
<1>4. ASSUME NEW s \in Slots, Expire(s)
      PROVE  pool' = AtLeast0(pool + Occupied' - Occupied)
    <2>1. \A x \in DOMAIN NoWrite.inv : NoWrite.inv[x] # Free => inv[x] = Free
        BY NothingOK
    <2>2. pool' = pool /\ Occupied' = Occupied
        BY <1>4, <2>1, NothingOK, ExpireCounts
    <2> QED
        BY <1>2, <2>2
<1>5. ASSUME NEW h \in Handlers, Commit(h)
      PROVE  \/ pool' = AtLeast0(pool + Occupied' - Occupied)
             \/ /\ Occupied' = Occupied
                /\ BoughtByHand \/ (pool < pool' /\ pool' <= Occupied)
    <2> DEFINE w == job[h].write
               push == job[h].push
    <2>1. /\ job[h].at = "writing" /\ push # "first"
          /\ sub' = Set(w.sub, sub) /\ pool' = SetTo(w.pool, pool)
        BY <1>5 DEF Commit
    <2>2. job[h] # Idle /\ WriteOK(w) /\ Counted(w, push)
        BY <2>1, IdleIsNotWriting DEF TypeInv, Busy, CountInv, Writing
    <2>3. Balanced(w, push)
        BY <2>1, <2>2 DEF Counted, Active, Subscribed
    <2>4. Occupied' = OccupiedAfter(w)
        BY <1>5, CommitCounts
    <2>5. CASE SetTo(w.pool, pool) = AtLeast0(pool + OccupiedAfter(w) - Occupied)
        BY <2>1, <2>4, <2>5
    <2>6. CASE /\ OccupiedAfter(w) = Occupied
               /\ push = "paid" /\ (w.pool > pool \/ w.pool >= CommittedReaders)
        <3>1. pool' = w.pool
            BY <2>1, <2>2, <2>6 DEF Counted, SetTo
        <3>2. job'[h] = Idle
            BY <1>5, <2>6 DEF Commit, TypeInv, Typed
        <3>3. BoughtByHand
            BY <2>2, <2>6, <3>1, <3>2 DEF BoughtByHand
        <3> QED
            BY <2>4, <2>6, <3>3
    <2>7. CASE OccupiedAfter(w) = Occupied /\ pool < w.pool /\ w.pool <= Occupied
        <3>1. pool' = w.pool
            BY <1>1, <2>1, <2>2, <2>7 DEF SetTo, Keep, WriteOK
        <3> QED
            BY <2>4, <2>7, <3>1
    <2> QED
        BY <2>1, <2>3, <2>5, <2>6, <2>7 DEF Balanced
<1> QED
    BY <1>3, <1>4, <1>5, QuietCounts

(* While the subscription is active, every step that seats or unseats a      *)
(* reader moves the pool by as much; only a purchase by hand and a           *)
(* conversion move it otherwise: any number of sessions, of which no two     *)
(* that read and write the seats of members do so at once.                   *)
THEOREM SeatPoolFollows == Spec /\ []SeatsApart => PoolFollowsOccupancy
<1>1. Inv /\ TypeInv /\ TypeInv' /\ CountInv /\ [Next]_vars =>
        [Active /\ Active' =>
           \/ pool' = AtLeast0(pool + Occupied' - Occupied)
           \/ /\ Occupied' = Occupied
              /\ BoughtByHand \/ (pool < pool' /\ pool' <= Occupied)]_vars
    BY PoolStep
<1> QED
    BY <1>1, InvAlways, TypesAlways, CountAlways, PTL DEF Spec, PoolFollowsOccupancy

LEMMA TrialStep ==
    ASSUME Inv, TypeInv, TypeInv', CountInv, [Next]_vars,
           ~Active, ~Active', Usage' > Usage
    PROVE  Usage' <= TrialSeats
<1>1. Usage \in Nat
    BY SeatsAreNat
<1>2. CASE UNCHANGED database \/ UNCHANGED vars
    <2>1. UNCHANGED <<account, kind, inv>>
        BY <1>2 DEF database, vars
    <2> QED
        BY <1>1, <2>1, SameCounts
<1>3. ASSUME NEW s \in Slots, Expire(s) PROVE FALSE
    <2>1. \A x \in DOMAIN NoWrite.inv : NoWrite.inv[x] # Free => inv[x] = Free
        BY NothingOK
    <2>2. Usage' <= Usage /\ Usage' \in Nat
        BY <1>3, <2>1, NothingOK, ExpireCounts
    <2> QED
        BY <1>1, <2>2
<1>4. ASSUME NEW h \in Handlers, Commit(h) PROVE Usage' <= TrialSeats
    <2> DEFINE w == job[h].write
    <2>1. /\ job[h].at = "writing" /\ sub' = Set(w.sub, sub)
        BY <1>4 DEF Commit
    <2>2. Counted(w, job[h].push)
        BY <2>1 DEF CountInv, Writing
    <2>3. Capped(w)
        BY <2>1, <2>2 DEF Counted, Active, Subscribed
    <2>4. Usage' = SeatsAfter(w, Kinds)
        BY <1>4, CommitCounts DEF Usage
    <2> HIDE DEF w
    <2>5. CASE /\ SeatedAfter(w, Kinds) \subseteq OnRoster(Kinds)
               /\ WaitingAfter(w, Kinds) \subseteq Waiting(Kinds)
        <3>1. /\ Cardinality(SeatedAfter(w, Kinds)) <= Cardinality(OnRoster(Kinds))
              /\ Cardinality(WaitingAfter(w, Kinds)) <= Cardinality(Waiting(Kinds))
            BY <2>5, CountFacts, FS_Subset
        <3>2. SeatsAfter(w, Kinds) <= Usage /\ SeatsAfter(w, Kinds) \in Nat
            BY <3>1, CountFacts DEF SeatsAfter, Usage, Seats
        <3> QED
            BY <1>1, <2>4, <3>2
    <2> QED
        BY <2>3, <2>4, <2>5 DEF Capped
<1> QED
    BY <1>2, <1>3, <1>4, QuietCounts

(* Under the same condition no mixture of invitations, returns and           *)
(* acceptances grows an agency without a subscription past its trial seats.  *)
THEOREM SeatTrialCapHolds == Spec /\ []SeatsApart => TrialCapHolds
<1>1. Inv /\ TypeInv /\ TypeInv' /\ CountInv /\ [Next]_vars =>
        [~Active /\ ~Active' /\ Usage' > Usage => Usage' <= TrialSeats]_vars
    BY TrialStep
<1> QED
    BY <1>1, InvAlways, TypesAlways, CountAlways, PTL DEF Spec, TrialCapHolds

-----------------------------------------------------------------------------
(* What Paddle bills: whoever reads, writes or pushes what is billed does so *)
(* alone, beside any number of sessions about providers.                     *)

Beside(h) ==
    /\ Writing(h) /\ job[h].push = "none"
    /\ Elsewhere(job[h].write) /\ job[h].write.offered = Keep
Bills(h) == Busy(h) /\ ~Beside(h)

BillApart == \A g, h \in Handlers : g # h => ~(Bills(g) /\ Bills(h))

(* What such a session read is still so, and what it will write fits; while  *)
(* there is none, Paddle bills what is derived.                              *)
PoolInv ==
    /\ sub # "paddle" => ~fresh
    /\ (\A h \in Handlers : ~Bills(h)) /\ fresh => echo = Derived
    /\ \A h \in Handlers : Bills(h) /\ job[h].at = "writing" =>
          /\ job[h].sub = sub /\ job[h].pool = SetTo(job[h].write.pool, pool)
          /\ \A w \in {job[h].write}, push \in {job[h].push} : Fits(w, push)
          /\ fresh => echo = IF job[h].push = "paid"
                             THEN [seats |-> Billed, readers |-> job[h].pool] ELSE Derived
    /\ \A h \in Handlers : Bills(h) /\ job[h].at = "pushing" =>
          /\ job[h].push \in {"own", "reread"}
          /\ job[h].pool = pool /\ Set(job[h].write.sub, job[h].sub) = sub

(* What fits still does, when the counts do not move but for the invitations *)
(* that expire.                                                              *)
LEMMA FitsKept ==
    ASSUME TypeInv, NEW w, WriteOK(w), NEW push, Fits(w, push),
           UNCHANGED <<sub, pool>>,
           OccupiedAfter(w)' = OccupiedAfter(w), Occupied' = Occupied,
           CommittedReaders' <= CommittedReaders,
           Capped(w) => Capped(w)',
           fresh' => fresh,
           fresh' /\ SeatsAfter(w, Managers) = Seats(Managers) =>
               SeatsAfter(w, Managers)' = Seats(Managers)'
    PROVE  Fits(w, push)'
<1>1. Active' <=> Active
    BY DEF Active
<1>2. Balanced(w, push) => Balanced(w, push)'
    BY BalancedKept
<1>3. Quiet(w, push) => Quiet(w, push)'
    BY DEF Quiet
<1> QED
    BY <1>1, <1>2, <1>3 DEF Fits

(* No session that bills moves, and what is counted stays as it was, or is   *)
(* no longer what Paddle has.                                                *)
LEMMA Untouched ==
    ASSUME PoolInv, UNCHANGED <<sub, pool>>,
           fresh' => fresh /\ echo' = echo /\ Billed' = Billed /\ Derived' = Derived,
           \A g \in Handlers : /\ Bills(g)' <=> Bills(g)
                               /\ Bills(g) => job'[g] = job[g],
           \A g \in Handlers : \A w, push :
               /\ Bills(g) /\ job[g].at = "writing"
               /\ w = job[g].write /\ push = job[g].push /\ Fits(w, push)
               => Fits(w, push)'
    PROVE  PoolInv'
<1>1. sub' # "paddle" => ~fresh'
    BY DEF PoolInv
<1>2. (\A h \in Handlers : ~Bills(h)') /\ fresh' => echo' = Derived'
    BY DEF PoolInv
<1>3. ASSUME NEW h \in Handlers, Bills(h)', job'[h].at = "writing"
      PROVE  /\ job'[h].sub = sub' /\ job'[h].pool = SetTo(job'[h].write.pool, pool')
             /\ \A w \in {job'[h].write}, push \in {job'[h].push} : Fits(w, push)'
             /\ fresh' => echo' = IF job'[h].push = "paid"
                                 THEN [seats |-> Billed', readers |-> job'[h].pool] ELSE Derived'
    <2>1. Bills(h) /\ job'[h] = job[h]
        BY <1>3
    <2>2. \A w, push : w = job[h].write /\ push = job[h].push => Fits(w, push)
        BY <1>3, <2>1 DEF PoolInv
    <2>3. \A w, push : w = job[h].write /\ push = job[h].push => Fits(w, push)'
        BY <1>3, <2>1, <2>2
    <2> QED
        BY <1>3, <2>1, <2>3 DEF PoolInv, SetTo
<1>4. ASSUME NEW h \in Handlers, Bills(h)', job'[h].at = "pushing"
      PROVE  /\ job'[h].push \in {"own", "reread"}
             /\ job'[h].pool = pool' /\ Set(job'[h].write.sub, job'[h].sub) = sub'
    BY <1>4 DEF PoolInv, Set
<1> QED
    BY <1>1, <1>2, <1>3, <1>4 DEF PoolInv

(* A session stays beside, or not, as long as it is left alone.              *)
LEMMA BesideKept ==
    ASSUME TypeInv, NEW g \in Handlers, job'[g] = job[g],
           \A s \in Slots : OfNoMember(inv[s])' <=> OfNoMember(inv[s])
    PROVE  Bills(g)' <=> Bills(g)
<1>1. Writing(g) => DOMAIN job[g].write.inv \subseteq Slots
    BY IdleIsNotWriting DEF TypeInv, Busy, Writing, WriteOK
<1> QED
    BY <1>1 DEF Bills, Busy, Beside, Elsewhere, Writing

LEMMA IdleNext ==
    ASSUME NEW h \in Handlers, job'[h] = Idle, \A g \in Handlers \ {h} : ~Bills(g)',
           sub' # "paddle" => ~fresh', fresh' => echo' = Derived'
    PROVE  PoolInv'
<1>1. \A g \in Handlers : ~Bills(g)'
    BY DEF Bills, Busy
<1> QED
    BY <1>1 DEF PoolInv

LEMMA WritingNext ==
    ASSUME NEW h \in Handlers, NEW r, job'[h] = r,
           \A g \in Handlers \ {h} : ~Bills(g)',
           NEW w, NEW push, r.at = "writing", r.write = w, r.push = push,
           r.sub = sub', r.pool = SetTo(w.pool, pool'), Fits(w, push)',
           sub' # "paddle" => ~fresh',
           fresh' => echo' = IF push = "paid" THEN [seats |-> Billed', readers |-> r.pool]
                             ELSE Derived'
    PROVE  PoolInv'
<1>1. r # Idle /\ r.at # "pushing"
    BY IdleIsNotWriting
<1>2. \A g \in Handlers : Bills(g)' => g = h
    OBVIOUS
<1>3. (\A g \in Handlers : ~Bills(g)') /\ fresh' => echo' = Derived'
    BY <1>1 DEF Bills, Busy, Beside, Writing
<1> QED
    BY <1>1, <1>2, <1>3 DEF PoolInv, SetTo

(* What the invariant says of a session that bills. *)
LEMMA OneJob ==
    ASSUME PoolInv, TypeInv, NEW h \in Handlers, Bills(h)
    PROVE  /\ sub # "paddle" => ~fresh
           /\ job[h].at = "writing" =>
                 /\ job[h] # Idle /\ WriteOK(job[h].write) /\ job[h].push \in Pushes
                 /\ job[h].sub = sub /\ job[h].pool = SetTo(job[h].write.pool, pool)
                 /\ \A w, push : w = job[h].write /\ push = job[h].push => Fits(w, push)
                 /\ fresh => echo = IF job[h].push = "paid"
                             THEN [seats |-> Billed, readers |-> job[h].pool] ELSE Derived
           /\ job[h].at = "pushing" =>
                 /\ job[h].push \in {"own", "reread"}
                 /\ job[h].pool = pool /\ Set(job[h].write.sub, job[h].sub) = sub
<1>1. Idle.at # "writing" /\ Idle.at # "pushing"
    BY DEF Idle
<1>2. JobOK(job[h])
    BY TypedNow
<1> QED
    BY <1>1, <1>2 DEF PoolInv, Bills, Busy, JobOK

LEMMA BeginPool ==
    ASSUME BillApart', TypeInv, PoolInv, NEW h \in Handlers, Begins(h)
    PROVE  PoolInv'
<1>1. PICK w, push : Begin(h, w, push) /\ Chosen(w, push)
    BY DEF Begins
<1> DEFINE r == [at |-> "writing", write |-> w, push |-> push, sub |-> sub,
                 pool |-> SetTo(w.pool, pool)]
<1>2. /\ UNCHANGED <<sub, pool, offered, account, kind, inv, echo, fresh>>
      /\ job' = [job EXCEPT ![h] = r] /\ job[h] = Idle
    BY <1>1 DEF Begin, database, paddle
<1>3. /\ r.at = "writing" /\ r.write = w /\ r.push = push /\ r.sub = sub'
      /\ r.pool = SetTo(w.pool, pool')
    BY <1>2
<1> HIDE DEF r
<1>4. WriteOK(w) /\ Fits(w, push) /\ push # "paid"
    BY <1>1 DEF Chosen
<1>5. CommittedReaders \in Int
    BY SeatsAreNat
<1>6. \A v, p : WriteOK(v) /\ Fits(v, p) => Fits(v, p)'
    BY <1>2, <1>5, SameCounts, FitsKept
<1>7. Derived' = Derived /\ Billed' = Billed
    BY <1>2, SameCounts, SameBill
<1>8. job'[h] = r /\ \A g \in Handlers \ {h} : job'[g] = job[g]
    BY <1>2 DEF TypeInv, Typed
<1>9. \A g \in Handlers \ {h} : Bills(g)' <=> Bills(g)
    BY <1>2, <1>8, BesideKept
<1>10. ~Bills(h)
    BY <1>2 DEF Bills, Busy
(* Somebody else bills: the session that begins is about a provider. *)
<1>11. ASSUME NEW k \in Handlers \ {h}, Bills(k) PROVE PoolInv'
    <2>1. ~Bills(h)'
        BY <1>9, <1>11 DEF BillApart
    <2>2. \A g \in Handlers : Bills(g) => WriteOK(job[g].write)
        BY DEF TypeInv, Bills
    <2> QED
        BY <1>2, <1>6, <1>7, <1>8, <1>9, <1>10, <2>1, <2>2, Untouched
<1>12. CASE \A g \in Handlers \ {h} : ~Bills(g)
    <2>1. /\ sub' # "paddle" => ~fresh'
          /\ fresh' => echo' = Derived'
        BY <1>2, <1>7, <1>10, <1>12 DEF PoolInv
    <2> QED
        BY <1>3, <1>4, <1>6, <1>8, <1>9, <1>12, <2>1, WritingNext
<1> QED
    BY <1>11, <1>12

LEMMA PaidFits ==
    ASSUME UNCHANGED <<sub, pool, offered, account, kind, inv>>, NEW w, Fits(w, "first")
    PROVE  Fits(w, "paid")'
<1>1. Balanced(w, "first") => Balanced(w, "paid")'
    BY SameCounts DEF Balanced
<1>2. Quiet(w, "first") => Quiet(w, "paid")'
    BY DEF Quiet, Bare
<1>3. (Active' <=> Active) /\ (Capped(w) => Capped(w)')
    BY SameCounts DEF Active
<1> QED
    BY <1>1, <1>2, <1>3 DEF Fits

LEMMA PushesPool ==
    ASSUME BillApart, TypeInv, PoolInv, NEW h \in Handlers,
           \/ Rollback(h) \/ Push(h) \/ PushFails(h) \/ Pay(h) \/ PayFails(h)
    PROVE  PoolInv'
<1>1. UNCHANGED <<sub, pool, offered, account, kind, inv>>
    BY DEF Rollback, Push, PushFails, Pay, PayFails, database
<1>10. \A g \in Handlers \ {h} : job'[g] = job[g]
    BY DEF Rollback, Push, PushFails, Pay, PayFails, TypeInv, Typed
<1>11. \A g \in Handlers \ {h} : Bills(g)' <=> Bills(g)
    BY <1>1, <1>10, BesideKept
<1>12. Bills(h) => \A g \in Handlers \ {h} : ~Bills(g)'
    BY <1>11 DEF BillApart
<1>13. \A r : job' = [job EXCEPT ![h] = r] => job'[h] = r
    BY DEF TypeInv, Typed
<1>14. /\ job[h].at = "pushing" => Bills(h)
       /\ job[h].at = "writing" /\ job[h].push = "first" => Bills(h)
    BY DEF Bills, Busy, Beside, Writing, Idle
<1>2. Derived' = Derived /\ Billed' = Billed
    BY <1>1, SameCounts, SameBill
<1>3. CASE Rollback(h)
    <2>1. job[h].at = "writing" /\ job' = [job EXCEPT ![h] = Idle]
        BY <1>3 DEF Rollback
    <2>2. fresh' => fresh /\ echo' = echo /\ job[h].push # "paid"
        BY <1>3 DEF Rollback
    <2>3. CASE Bills(h)
        BY <1>1, <1>2, <1>12, <1>13, <2>1, <2>2, <2>3, OneJob, IdleNext
    <2>4. CASE ~Bills(h)
        <3>1. ~Bills(h)' /\ UNCHANGED <<echo, fresh>>
            BY <1>3, <1>13, <2>1, <2>4, IdleIsNotWriting
               DEF Rollback, Bills, Busy, Beside, Writing
        <3>2. CommittedReaders \in Int
            BY SeatsAreNat
        <3>3. \A v, p : WriteOK(v) /\ Fits(v, p) => Fits(v, p)'
            BY <1>1, <3>1, <3>2, SameCounts, FitsKept
        <3>4. \A g \in Handlers : Bills(g) => WriteOK(job[g].write)
            BY DEF TypeInv, Bills
        <3> QED
            BY <1>1, <1>2, <1>10, <1>11, <2>4, <3>1, <3>3, <3>4, Untouched
    <2> QED
        BY <2>3, <2>4
<1>4. CASE Push(h)
    <2>1. /\ job[h].at = "pushing" /\ job' = [job EXCEPT ![h] = Idle]
          /\ Pushed(h).sub = sub /\ Pushed(h).pool = pool
        BY <1>4, <1>14, OneJob DEF Push, Pushed
    <2>2. CASE sub # "paddle"
        <3>1. UNCHANGED fresh
            BY <1>4, <2>1, <2>2 DEF Push
        <3> QED
            BY <1>1, <1>12, <1>13, <1>14, <2>1, <2>2, <3>1, OneJob, IdleNext
    <2>3. CASE sub = "paddle"
        <3>1. echo' = Derived
            BY <1>4, <2>1, <2>3 DEF Push, Derived
        <3> QED
            BY <1>1, <1>2, <1>12, <1>13, <1>14, <2>1, <2>3, <3>1, IdleNext
    <2> QED
        BY <2>2, <2>3
<1>5. CASE PushFails(h)
    <2>1. job' = [job EXCEPT ![h] = Idle] /\ ~fresh' /\ job[h].at = "pushing"
        BY <1>5 DEF PushFails
    <2> QED
        BY <1>12, <1>13, <1>14, <2>1, IdleNext
<1>6. CASE Pay(h)
    <2> DEFINE w == job[h].write
               r == [job[h] EXCEPT !.push = "paid"]
    <2>1. job[h].at = "writing" /\ job[h].push = "first" /\ job' = [job EXCEPT ![h] = r]
        BY <1>6 DEF Pay
    <2>2. /\ r.at = "writing" /\ r.write = w /\ r.push = "paid" /\ r.sub = job[h].sub
          /\ r.pool = job[h].pool
        <3>1. DOMAIN job[h] = {"at", "write", "push", "sub", "pool"}
            BY <2>1, TypedNow, IdleIsNotWriting DEF JobOK
        <3> QED
            BY <2>1, <3>1
    <2>3. /\ WriteOK(w) /\ Fits(w, "first") /\ r.sub = sub /\ r.pool = SetTo(w.pool, pool)
        BY <1>14, <2>1, <2>2, OneJob
    <2>4. fresh' => echo' = [seats |-> Billed', readers |-> r.pool] /\ sub = "paddle"
        <3>1. CASE sub # "paddle"
            <4>1. fresh' = fresh
                BY <1>6, <2>2, <2>3, <3>1 DEF Pay
            <4> QED
                BY <1>14, <2>1, <3>1, <4>1, OneJob
        <3>2. CASE sub = "paddle"
            BY <1>2, <1>6, <2>2, <2>3, <3>2 DEF Pay
        <3> QED
            BY <3>1, <3>2
    <2> HIDE DEF r
    <2>5. \A v : v = w => Fits(v, "paid")'
        BY <1>1, <2>3, PaidFits
    <2>6. job'[h] = r /\ \A g \in Handlers \ {h} : ~Bills(g)'
        BY <1>12, <1>13, <1>14, <2>1
    <2> QED
        BY <1>1, <2>1, <2>2, <2>3, <2>4, <2>5, <2>6, WritingNext
<1>7. CASE PayFails(h)
    <2>1. /\ job[h].at = "writing" /\ job[h].push = "first" /\ job' = [job EXCEPT ![h] = Idle]
          /\ UNCHANGED <<echo, fresh>>
        BY <1>7 DEF PayFails
    <2> QED
        BY <1>1, <1>2, <1>12, <1>13, <1>14, <2>1, OneJob, IdleNext
<1> QED
    BY <1>3, <1>4, <1>5, <1>6, <1>7

LEMMA ExpirePool ==
    ASSUME Inv, TypeInv, PoolInv, NEW s \in Slots, Expire(s)
    PROVE  PoolInv'
<1>1. /\ UNCHANGED <<sub, pool, offered, account, kind, job>>
      /\ fresh' => fresh /\ echo' = echo /\ Seats(Managers)' = Seats(Managers)
    <2>1. \A x \in DOMAIN NoWrite.inv : NoWrite.inv[x] # Free => inv[x] = Free
        BY NothingOK
    <2> QED
        BY <2>1, NothingOK, ExpireCounts
<1>2. fresh' => Billed' = Billed /\ Derived' = Derived
    BY <1>1, SameBill
<1>3. \A g \in Handlers : Bills(g)' <=> Bills(g)
    BY <1>1, ExpireKeeps, BesideKept
<1>4. ASSUME NEW g \in Handlers, job[g].at = "writing",
             NEW w, NEW push, w = job[g].write, Fits(w, push)
      PROVE  Fits(w, push)'
    <2>1. /\ WriteOK(w)
          /\ \A x \in DOMAIN w.inv : w.inv[x] # Free => inv[x] = Free
        BY <1>4, IdleIsNotWriting DEF Inv, Writing, Safe, TypeInv, Busy
    <2> QED
        BY <1>1, <1>4, <2>1, ExpireCounts, FitsKept
<1> QED
    BY <1>1, <1>2, <1>3, <1>4, Untouched

LEMMA CommitPool ==
    ASSUME BillApart, Inv, TypeInv, TypeInv', PoolInv, NEW h \in Handlers, Commit(h), Bills(h)
    PROVE  PoolInv'
<1> DEFINE w == job[h].write
           push == job[h].push
<1>1. /\ job[h].at = "writing" /\ push # "first"
      /\ sub' = Set(w.sub, sub) /\ pool' = SetTo(w.pool, pool)
      /\ offered' = SetTo(w.offered, offered)
    BY DEF Commit
<1>2. /\ job[h] # Idle /\ WriteOK(w) /\ push \in Pushes
      /\ job[h].sub = sub /\ job[h].pool = SetTo(w.pool, pool) /\ Quiet(w, push)
      /\ sub # "paddle" => ~fresh
      /\ fresh => echo = IF push = "paid" THEN [seats |-> Billed, readers |-> job[h].pool]
                         ELSE Derived
    BY <1>1, OneJob DEF Fits
(* The others are about providers, and stay so. *)
<1>8. \A g \in Handlers \ {h} : ~Bills(g)'
    <2> SUFFICES ASSUME NEW g \in Handlers \ {h}, Bills(g)' PROVE FALSE
        OBVIOUS
    <2>1. job'[g] = job[g]
        BY DEF Commit, TypeInv, Typed
    <2>2. Beside(g)
        BY <2>1 DEF BillApart, Bills, Busy
    <2>3. \A v : v = job[g].write => Elsewhere(v)'
        BY <2>2, ElsewhereStays DEF Beside
    <2>4. Elsewhere(job[g].write)'
        BY <2>1, <2>3
    <2> QED
        BY <2>1, <2>2, <2>4 DEF Bills, Beside, Writing
<1>9. \A r : job' = [job EXCEPT ![h] = r] => job'[h] = r
    BY DEF TypeInv, Typed
<1>3. \A K : Seats(K)' = SeatsAfter(w, K)
    BY CommitCounts
<1>4. Bare(w) => Seats(Managers)' = Seats(Managers)
    BY <1>2, <1>3, BareIsAside, AsideFacts
<1>5. pool' \in Nat /\ pool \in Nat
    BY DEF TypeInv, TypeOK
(* Pushed after the commit. *)
<1>6. CASE push \in {"own", "reread"}
    <2>1. w.sub = Same /\ sub' = sub
        BY <1>1, <1>2, <1>6 DEF Quiet, Set
    <2>2. UNCHANGED <<echo, fresh>>
        BY <1>6, <2>1 DEF Commit, Same
    <2> DEFINE r == [job[h] EXCEPT !.at = "pushing"]
    <2>3. /\ r # Idle /\ r.at = "pushing" /\ r.push = push /\ r.sub = sub /\ r.pool = pool'
          /\ r.write = w
        <3>1. DOMAIN job[h] = {"at", "write", "push", "sub", "pool"}
            BY <1>2, TypedNow DEF JobOK
        <3>2. r.at # Idle.at
            BY <3>1 DEF Idle
        <3> QED
            BY <1>1, <1>2, <3>1, <3>2
    <2>4. job'[h] = r
        BY <1>6, <1>9 DEF Commit
    <2> HIDE DEF r
    <2>5. Bills(h)' /\ \A g \in Handlers : Bills(g)' => g = h
        BY <1>8, <2>3, <2>4 DEF Bills, Busy, Beside, Writing
    <2> QED
        BY <1>1, <1>2, <1>6, <2>1, <2>2, <2>3, <2>4, <2>5 DEF PoolInv, Set
(* Nothing to push. *)
<1>7. CASE push \notin {"own", "reread"}
    <2>1. job'[h] = Idle /\ push \in {"none", "checkout", "paid"}
        BY <1>1, <1>2, <1>7, <1>9 DEF Commit, Pushes
    <2>2. CASE push = "checkout"
        <3>1. Bare(w) /\ w.sub = "paddle" /\ w.offered = Keep
            BY <1>2, <2>2 DEF Quiet
        <3>2. sub' = "paddle" /\ UNCHANGED offered
            BY <1>1, <3>1 DEF Set, SetTo, Same
        <3>3. Billed' = Billed
            BY <1>4, <3>1, <3>2 DEF Billed, Managers
        <3>4. fresh' => echo' = [seats |-> Billed, readers |-> pool']
            BY <2>2 DEF Commit
        <3>5. fresh' => echo' = Derived'
            BY <3>3, <3>4 DEF Derived
        <3> QED
            BY <1>1, <2>1, <3>2, <3>5, <1>8, IdleNext
    <2>3. CASE push = "paid"
        <3>1. Bare(w) /\ w.sub = Same /\ w.offered = Keep
            BY <1>2, <2>3 DEF Quiet
        <3>2. sub' = sub /\ UNCHANGED offered
            BY <1>1, <3>1 DEF Set, SetTo
        <3>3. UNCHANGED <<echo, fresh>>
            BY <2>3, <3>1 DEF Commit, Same
        <3>4. Billed' = Billed
            BY <1>4, <3>1, <3>2 DEF Billed, Managers
        <3>5. fresh' => echo' = Derived'
            BY <1>1, <1>2, <2>3, <3>3, <3>4 DEF Derived
        <3> QED
            BY <1>1, <1>2, <2>1, <3>2, <3>3, <3>5, <1>8, IdleNext
    <2>4. CASE push = "none" /\ w.sub = Same
        <3>1. /\ w.offered = Keep /\ w.pool = Keep
              /\ fresh => SeatsAfter(w, Managers) = Seats(Managers)
            BY <1>2, <2>4 DEF Quiet
        <3>2. UNCHANGED <<sub, pool, offered, echo, fresh>>
            <4>1. UNCHANGED <<sub, pool, offered>>
                BY <1>1, <2>4, <3>1 DEF Set, SetTo
            <4>2. UNCHANGED <<echo, fresh>>
                BY <2>4 DEF Commit, Same
            <4> QED
                BY <4>1, <4>2
        <3>3. fresh => Derived' = Derived
            BY <1>3, <3>1, <3>2, SameBill
        <3> QED
            BY <1>1, <1>2, <2>1, <2>4, <3>2, <3>3, <1>8, IdleNext
    <2>5. CASE push = "none" /\ w.sub = "manual"
        <3>1. sub # "paddle"
            BY <1>2, <2>5 DEF Quiet
        <3>2. UNCHANGED fresh
            BY <2>5 DEF Commit
        <3> QED
            BY <1>1, <1>2, <2>1, <3>1, <3>2, <1>8, IdleNext
    <2>6. CASE push = "none" /\ w.sub = "canceled"
        <3>1. ~fresh'
            BY <2>6 DEF Commit
        <3> QED
            BY <1>1, <2>1, <3>1, <1>8, IdleNext
    <2> QED
        BY <1>2, <2>1, <2>2, <2>3, <2>4, <2>5, <2>6 DEF Quiet
<1> QED
    BY <1>6, <1>7

(* One about a provider moves nothing. *)
LEMMA AsidePool ==
    ASSUME TypeInv, TypeInv', PoolInv, NEW h \in Handlers, Commit(h), ~Bills(h)
    PROVE  PoolInv'
<1>1. Beside(h) /\ job[h].at = "writing"
    BY IdleIsNotWriting DEF Commit, Bills, Busy
<1>2. /\ job' = [job EXCEPT ![h] = Idle]
      /\ offered' = SetTo(job[h].write.offered, offered)
    BY <1>1 DEF Commit, Beside
<1>3. UNCHANGED <<offered, echo, fresh>>
    <2>1. job[h].write.sub = Same /\ job[h].push = "none" /\ job[h].write.offered = Keep
        BY <1>1 DEF Beside, Elsewhere
    <2> QED
        BY <1>2, <2>1 DEF Commit, SetTo, Same
<1>4. job'[h] = Idle /\ \A g \in Handlers \ {h} : job'[g] = job[g]
    BY <1>2 DEF TypeInv, Typed
<1>5. Elsewhere(job[h].write)
    BY <1>1 DEF Beside
<1>6. /\ UNCHANGED <<sub, pool>> /\ Seats(Managers)' = Seats(Managers)
      /\ \A s \in Slots : OfNoMember(inv[s])' <=> OfNoMember(inv[s])
    BY <1>1, <1>5, NothingOK, ElsewhereCounts
<1>7. Billed' = Billed /\ Derived' = Derived
    BY <1>3, <1>6, SameBill
<1>8. \A g \in Handlers : Bills(g)' <=> Bills(g)
    <2>1. ~Bills(h)'
        BY <1>4 DEF Bills, Busy
    <2> QED
        BY <1>4, <1>6, <2>1, BesideKept
<1>9. \A w, push : WriteOK(w) /\ Fits(w, push) => Fits(w, push)'
    <2>1. CommittedReaders \in Int
        BY SeatsAreNat
    <2> QED
        BY <1>1, <1>3, <1>5, <1>6, <2>1, ElsewhereCounts, FitsKept
<1>10. \A g \in Handlers : Bills(g) => WriteOK(job[g].write)
    BY DEF TypeInv, Bills
<1> QED
    BY <1>3, <1>4, <1>6, <1>7, <1>8, <1>9, <1>10, Untouched

LEMMA NextPool ==
    ASSUME BillApart, BillApart', Inv, TypeInv, TypeInv', PoolInv, [Next]_vars
    PROVE  PoolInv'
<1>1. CASE UNCHANGED vars
    <2>1. /\ UNCHANGED <<sub, pool, offered, account, kind, inv, echo, fresh, job>>
        BY <1>1 DEF vars
    <2>2. Derived' = Derived /\ Billed' = Billed
        BY <2>1, SameCounts, SameBill
    <2>3. CommittedReaders \in Int
        BY SeatsAreNat
    <2>4. \A w, push : WriteOK(w) /\ Fits(w, push) => Fits(w, push)'
        BY <2>1, <2>3, SameCounts, FitsKept
    <2>5. \A g \in Handlers : Bills(g) => WriteOK(job[g].write)
        BY DEF TypeInv, Bills
    <2>6. \A g \in Handlers : Bills(g)' <=> Bills(g)
        BY <2>1, BesideKept
    <2> QED
        BY <2>1, <2>2, <2>4, <2>5, <2>6, Untouched
<1>2. CASE Next
    BY <1>2, NextSteps, BeginPool, PushesPool, CommitPool, AsidePool, ExpirePool
<1> QED
    BY <1>1, <1>2

LEMMA PoolAlways == Spec /\ []BillApart => []PoolInv
<1>1. Init => PoolInv
    BY DEF Init, PoolInv, Bills, Busy
<1>2. BillApart /\ BillApart' /\ Inv /\ TypeInv /\ TypeInv' /\ PoolInv /\ [Next]_vars => PoolInv'
    BY NextPool
<1> QED
    BY <1>1, <1>2, InvAlways, TypesAlways, PTL DEF Spec

(* Whenever no session is at work and no push was lost, Paddle bills the     *)
(* seats that the roster, the invitations and the pool derive: any number of *)
(* members, providers, invitations and sessions, as long as no two that      *)
(* read, write or push what is billed are at work at once.                   *)
THEOREM SeatPaddleIsDerived == Spec /\ []BillApart => []PaddleIsDerived
<1>1. PoolInv => PaddleIsDerived
    BY DEF PoolInv, PaddleIsDerived, Bills, Busy
<1> QED
    BY <1>1, PoolAlways, PTL

-----------------------------------------------------------------------------
(* The providers of a plan, as long as no two sessions that open an access   *)
(* overlap.                                                                  *)
AccessIn(a) == {p \in Providers : a[p] = "active"}
WithinCap(S) == IsFiniteSet(S) /\ Cardinality(S) <= ProviderCap

(* Whether a write opens a provider's access: an invitation, a return. *)
Opens(w) == \E p \in Providers : \/ p \in w.create
                                 \/ p \in DOMAIN w.account /\ w.account[p] = "active"
AccessApart == \A g, h \in Handlers :
    (g # h /\ Writing(g) /\ Writing(h)) => ~(Opens(job[g].write) /\ Opens(job[h].write))

(* Whatever a session is about to write leaves the plan's count alone. *)
CapInv ==
    /\ WithinCap(AccessIn(account))
    /\ \A h \in Handlers : Writing(h) => WithinCap(AccessIn(AccountAfter(job[h].write)))

LEMMA AccessIsCounted == ProvidersWithAccess = Cardinality(AccessIn(account))
BY DEF ProvidersWithAccess, AccessIn

LEMMA BeginCap ==
    ASSUME CapInv, TypeInv, NEW h \in Handlers, NEW w, NEW push, Begin(h, w, push),
           WithinCap(AccessIn(AccountAfter(w)))
    PROVE  CapInv'
<1> DEFINE r == [at |-> "writing", write |-> w, push |-> push, sub |-> sub,
                 pool |-> SetTo(w.pool, pool)]
<1>1. account' = account /\ job' = [job EXCEPT ![h] = r]
    BY DEF Begin, database
<1>2. r.write = w
    OBVIOUS
<1> HIDE DEF r
<1>3. job'[h].write = w /\ \A g \in Handlers \ {h} : job'[g] = job[g]
    BY <1>1, <1>2 DEF TypeInv, Typed
<1>4. \A v : AccountAfter(v)' = AccountAfter(v)
    BY <1>1 DEF AccountAfter
<1>5. ASSUME NEW g \in Handlers, Writing(g)'
      PROVE  WithinCap(AccessIn(AccountAfter(job'[g].write)))
    BY <1>3, <1>5 DEF CapInv, Writing
<1>6. WithinCap(AccessIn(account'))
    BY <1>1 DEF CapInv
<1>7. \A g \in Handlers : AccountAfter(job[g].write)' = AccountAfter(job'[g].write)
    BY <1>1 DEF AccountAfter
<1> QED
    BY <1>5, <1>6, <1>7 DEF CapInv

LEMMA SmallerFits ==
    ASSUME NEW S, NEW T, S \subseteq T, WithinCap(T)
    PROVE  WithinCap(S)
<1>1. IsFiniteSet(T) /\ Cardinality(T) \in Nat /\ Cardinality(T) <= ProviderCap
    BY FS_CardinalityType DEF WithinCap
<1>2. IsFiniteSet(S) /\ Cardinality(S) <= Cardinality(T) /\ Cardinality(S) \in Nat
    BY <1>1, FS_Subset, FS_CardinalityType
<1> QED
    BY <1>1, <1>2, SeatAssumption DEF WithinCap

(* A write that opens no provider's access. *)
LEMMA UnraisedCap ==
    ASSUME CapInv, TypeInv, NEW h \in Handlers, NEW w, NEW push, Begin(h, w, push),
           w.create \cap Providers = {},
           \A p \in DOMAIN w.account : p \in Providers => w.account[p] = "off"
    PROVE  CapInv'
<1>1. \A p \in AccessIn(AccountAfter(w)) : p \in AccessIn(account)
    BY AccountFacts DEF AccessIn, People
<1>2. WithinCap(AccessIn(AccountAfter(w)))
    BY <1>1, SmallerFits DEF CapInv
<1> QED
    BY <1>2, BeginCap

(* ... and one that opens one access, below the cap. *)
LEMMA RaisedCap ==
    ASSUME CapInv, TypeInv, NEW h \in Handlers, NEW w, NEW push, Begin(h, w, push),
           NEW p \in Providers, w.create \cup DOMAIN w.account \subseteq {p},
           ProvidersWithAccess < ProviderCap
    PROVE  CapInv'
<1>1. \A q \in AccessIn(AccountAfter(w)) : q \in AccessIn(account) \cup {p}
    BY AccountFacts DEF AccessIn, People
<1>2. WithinCap(AccessIn(AccountAfter(w)))
    <2>1. /\ IsFiniteSet(AccessIn(account)) /\ Cardinality(AccessIn(account)) \in Nat
          /\ Cardinality(AccessIn(account)) < ProviderCap
        BY FS_CardinalityType, AccessIsCounted DEF CapInv, WithinCap
    <2>2. /\ IsFiniteSet(AccessIn(account) \cup {p})
          /\ Cardinality(AccessIn(account) \cup {p}) \in Nat
          /\ Cardinality(AccessIn(account) \cup {p}) <= Cardinality(AccessIn(account)) + 1
        <3>1. /\ IsFiniteSet(AccessIn(account) \cup {p})
              /\ Cardinality(AccessIn(account) \cup {p}) =
                     IF p \in AccessIn(account) THEN Cardinality(AccessIn(account))
                     ELSE Cardinality(AccessIn(account)) + 1
            BY <2>1, FS_AddElement
        <3> QED
            BY <2>1, <3>1
    <2>3. /\ IsFiniteSet(AccessIn(AccountAfter(w)))
          /\ Cardinality(AccessIn(AccountAfter(w))) <= Cardinality(AccessIn(account) \cup {p})
          /\ Cardinality(AccessIn(AccountAfter(w))) \in Nat
        BY <1>1, <2>2, FS_Subset, FS_CardinalityType
    <2> QED
        BY <2>1, <2>2, <2>3, SeatAssumption DEF WithinCap
<1> QED
    BY <1>2, BeginCap

LEMMA QuietCap ==
    ASSUME CapInv, account' = account,
           \A h \in Handlers : job'[h].at = "writing" =>
               job[h].at = "writing" /\ job'[h].write = job[h].write
    PROVE  CapInv'
BY DEF CapInv, Writing, AccountAfter

LEMMA InvitationCap ==
    ASSUME CapInv, TypeInv, NEW h \in Handlers, NEW s \in Slots,
           \/ \E m \in Members, k \in Kinds : Invite(h, s, m, k)
           \/ \E p \in Providers : InviteProvider(h, s, p)
           \/ Cancel(h, s) \/ CancelProvider(h, s)
           \/ Accept(h, s) \/ AcceptProvider(h, s)
    PROVE  CapInv'
<1> USE DEF NoWrite, Nowhere
<1>1. ASSUME NEW m \in Members, NEW k \in Kinds, Invite(h, s, m, k) PROVE CapInv'
    BY <1>1, UnraisedCap DEF Invite
<1>2. ASSUME NEW p \in Providers, InviteProvider(h, s, p) PROVE CapInv'
    <2> DEFINE w == [NoWrite EXCEPT
                        !.inv = [x \in {s} |-> [status |-> "pending", who |-> p, kind |-> "staff"]],
                        !.create = {p}]
    <2>1. w.create \cup DOMAIN w.account \subseteq {p}
        OBVIOUS
    <2>2. Begin(h, w, "none") /\ ProvidersWithAccess < ProviderCap
        BY <1>2 DEF InviteProvider
    <2> HIDE DEF w
    <2> QED
        BY <2>1, <2>2, RaisedCap
<1>3. CASE Cancel(h, s)
    BY <1>3, UnraisedCap DEF Cancel
<1>4. CASE CancelProvider(h, s)
    BY <1>4, UnraisedCap DEF CancelProvider
<1>5. CASE Accept(h, s)
    BY <1>5, UnraisedCap, SeatAssumption DEF Accept, Internal
<1>6. CASE AcceptProvider(h, s)
    BY <1>6, UnraisedCap DEF AcceptProvider
<1> QED
    BY <1>1, <1>2, <1>3, <1>4, <1>5, <1>6

LEMMA MemberCap ==
    ASSUME CapInv, TypeInv, NEW h \in Handlers, NEW m \in Members,
           \/ Deactivate(h, m) \/ Reactivate(h, m)
           \/ ToReader(h, m) \/ ToManager(h, m)
           \/ \E k \in Kinds : SetRole(h, m, k)
    PROVE  CapInv'
<1> USE DEF NoWrite, Nowhere
<1>1. m \notin Providers
    BY SeatAssumption
<1>2. CASE Deactivate(h, m)
    BY <1>1, <1>2, UnraisedCap DEF Deactivate
<1>3. CASE Reactivate(h, m)
    BY <1>1, <1>3, UnraisedCap DEF Reactivate
<1>4. CASE ToReader(h, m)
    BY <1>4, UnraisedCap DEF ToReader
<1>5. CASE ToManager(h, m)
    BY <1>5, UnraisedCap DEF ToManager
<1>6. ASSUME NEW k \in Kinds, SetRole(h, m, k) PROVE CapInv'
    BY <1>6, UnraisedCap DEF SetRole
<1> QED
    BY <1>2, <1>3, <1>4, <1>5, <1>6

LEMMA AgencyCap ==
    ASSUME CapInv, TypeInv, NEW h \in Handlers,
           \/ \E p \in Providers : DeactivateProvider(h, p) \/ ReactivateProvider(h, p)
           \/ ConvertByHand(h) \/ Activate(h) \/ SubscriptionEnds(h) \/ Resume(h)
           \/ \E n \in 0..MaxOffered : OfferSeats(h, n)
           \/ AddSeat(h) \/ RemoveSeat(h) \/ Sweep(h)
    PROVE  CapInv'
<1> USE DEF NoWrite, Nowhere
<1>1. ASSUME NEW p \in Providers, DeactivateProvider(h, p) PROVE CapInv'
    BY <1>1, UnraisedCap DEF DeactivateProvider
<1>2. ASSUME NEW p \in Providers, ReactivateProvider(h, p) PROVE CapInv'
    <2> DEFINE w == [NoWrite EXCEPT !.account = [x \in {p} |-> "active"]]
    <2>1. w.create \cup DOMAIN w.account \subseteq {p}
        OBVIOUS
    <2>2. Begin(h, w, "none") /\ ProvidersWithAccess < ProviderCap
        BY <1>2 DEF ReactivateProvider
    <2> HIDE DEF w
    <2> QED
        BY <2>1, <2>2, RaisedCap
<1>3. CASE ConvertByHand(h)
    BY <1>3, UnraisedCap DEF ConvertByHand
<1>4. CASE Activate(h)
    BY <1>4, UnraisedCap DEF Activate
<1>5. CASE SubscriptionEnds(h)
    BY <1>5, UnraisedCap DEF SubscriptionEnds
<1>6. CASE Resume(h)
    BY <1>6, UnraisedCap DEF Resume
<1>7. ASSUME NEW n \in 0..MaxOffered, OfferSeats(h, n) PROVE CapInv'
    BY <1>7, UnraisedCap DEF OfferSeats
<1>8. CASE AddSeat(h)
    BY <1>8, UnraisedCap DEF AddSeat
<1>9. CASE RemoveSeat(h)
    BY <1>9, UnraisedCap DEF RemoveSeat
<1>10. CASE Sweep(h)
    BY <1>10, UnraisedCap DEF Sweep
<1> QED
    BY <1>1, <1>2, <1>3, <1>4, <1>5, <1>6, <1>7, <1>8, <1>9, <1>10

(* Two writes in a row open what one of them opens. *)
LEMMA CommitCap ==
    ASSUME CapInv, AccessApart, TypeInv, NEW h \in Handlers, Commit(h)
    PROVE  CapInv'
<1> DEFINE w == job[h].write
<1>1. account' = AccountAfter(w) /\ Writing(h)
    BY DEF Commit, AccountAfter, Writing
<1>2. \A g \in Handlers : Writing(g)' => g # h /\ job'[g] = job[g]
    <2>1. DOMAIN job = Handlers /\ Idle.at # "writing"
        BY IdleIsNotWriting DEF TypeInv, Typed
    <2> DEFINE r == [job[h] EXCEPT !.at = "pushing"]
    <2>2. job' = [job EXCEPT ![h] = job'[h]] /\ (job'[h] = Idle \/ job'[h] = r)
        BY <2>1 DEF Commit
    <2>3. r.at # "writing"
        BY <1>1, <2>1, TypedNow DEF JobOK, Writing
    <2> HIDE DEF r
    <2> QED
        BY <2>1, <2>2, <2>3 DEF Writing
<1>3. WithinCap(AccessIn(account'))
    BY <1>1 DEF CapInv
<1>4. ASSUME NEW g \in Handlers, Writing(g)'
      PROVE  WithinCap(AccessIn(AccountAfter(job[g].write)'))
    <2> DEFINE v == job[g].write
    <2>1. g # h /\ Writing(g) /\ v' = v
        BY <1>2, <1>4 DEF Writing
    <2>2. ~(Opens(w) /\ Opens(v)) /\ WithinCap(AccessIn(AccountAfter(v)))
        BY <1>1, <2>1 DEF AccessApart, CapInv
    <2> HIDE DEF v, w
    <2>3. \A p \in People : AccountAfter(v)'[p] =
              IF p \in v.create THEN "active" ELSE IF p \in v.remove THEN "none"
              ELSE IF p \in DOMAIN v.account THEN v.account[p] ELSE account'[p]
        <3>1. DOMAIN account' = People
            BY <1>1 DEF AccountAfter, Update, TypeInv, TypeOK
        <3>2. AccountAfter(v)' = Update([q \in v.create |-> "active"],
                                 Update([q \in v.remove |-> "none"], Update(v.account, account')))
            BY <2>1 DEF AccountAfter
        <3> QED
            BY <3>1, <3>2, WrittenOver
    <2>4. CASE ~Opens(v)
        <3>1. AccessIn(AccountAfter(v)') \subseteq AccessIn(account')
            BY <2>3, <2>4 DEF AccessIn, People, Opens
        <3> QED
            BY <1>3, <3>1, SmallerFits DEF v
    <2>5. CASE ~Opens(w)
        <3>1. AccessIn(AccountAfter(v)') \subseteq AccessIn(AccountAfter(v))
            BY <1>1, <2>3, <2>5, AccountFacts DEF AccessIn, People, Opens
        <3> QED
            BY <2>2, <3>1, SmallerFits DEF v
    <2> QED
        BY <2>2, <2>4, <2>5
<1> QED
    BY <1>3, <1>4 DEF CapInv

LEMMA PushesCap ==
    ASSUME CapInv, AccessApart, TypeInv, NEW h \in Handlers,
           \/ Pay(h) \/ PayFails(h) \/ Commit(h)
           \/ Rollback(h) \/ Push(h) \/ PushFails(h)
    PROVE  CapInv'
<1>1. DOMAIN job = Handlers /\ Idle.at # "writing"
    BY IdleIsNotWriting DEF TypeInv, Typed
<1>2. ASSUME Commit(h) PROVE CapInv'
    BY <1>2, CommitCap
<1>3. CASE Rollback(h) \/ Push(h) \/ PushFails(h) \/ PayFails(h)
    BY <1>1, <1>3, QuietCap DEF Rollback, Push, PushFails, PayFails, database
<1>4. CASE Pay(h)
    <2>1. account' = account /\ job[h].at = "writing" /\ job' = [job EXCEPT ![h].push = "paid"]
        BY <1>4 DEF Pay, database
    <2>2. \A g \in Handlers : job'[g].write = job[g].write
        BY <1>1, <2>1
    <2>3. \A g \in Handlers \ {h} : job'[g].at = job[g].at
        BY <1>1, <2>1
    <2> QED
        BY <2>1, <2>2, <2>3, QuietCap
<1> QED
    BY <1>2, <1>3, <1>4

LEMMA NextCap ==
    ASSUME CapInv, AccessApart, TypeInv, [Next]_vars
    PROVE  CapInv'
<1>1. ASSUME NEW s \in Slots, Expire(s) PROVE CapInv'
    BY <1>1, QuietCap DEF Expire
<1>2. CASE UNCHANGED vars
    BY <1>2, QuietCap DEF vars
<1> QED
    BY <1>1, <1>2, InvitationCap, MemberCap, AgencyCap, PushesCap DEF Next

(* "N providers per plan" (_providers_with_access against                  *)
(* providers_max_for): as long as the plan's limit stays what it is, those *)
(* who may log in never exceed it, the invited included, through           *)
(* invitations, returns, cancellations and sweeps, however many sessions   *)
(* overlap, but for two that each open an access.                          *)
THEOREM SeatProviderCap == Spec /\ []AccessApart => []ProviderCapHolds
<1>1. Init => CapInv
    <2> SUFFICES ASSUME Init PROVE CapInv
        OBVIOUS
    <2>1. AccessIn(account) = {}
        BY SeatAssumption DEF Init, AccessIn, People
    <2>2. \A h \in Handlers : ~Writing(h)
        BY IdleIsNotWriting DEF Init, Writing
    <2> QED
        BY <2>1, <2>2, FS_EmptySet, SeatAssumption DEF CapInv, WithinCap
<1>2. CapInv => ProviderCapHolds
    BY AccessIsCounted DEF CapInv, WithinCap, ProviderCapHolds
<1>3. TypeInv /\ CapInv /\ AccessApart /\ [Next]_vars => (TypeInv /\ CapInv)'
    BY NextTypes, NextCap
<1> QED
    BY <1>1, <1>2, <1>3, InitTypes, PTL DEF Spec
=================================================================================
