------------------------------ MODULE PaddleProofs ------------------------------
(***************************************************************************)
(* The webhooks of one agency, for any number of sessions, subscriptions,  *)
(* plans and events: the conversion is announced once and is kept unless   *)
(* two sessions that may convert overlap; no stale status is written and   *)
(* the grace period follows the status unless deliveries of two status     *)
(* events do; a manual contract is kept unless a PATCH has company.        *)
(***************************************************************************)
EXTENDS PaddleWebhooks, FiniteSetTheorems, SequenceTheorems,
        WellFoundedInduction, TLAPS

(* A set of events has a newest one: of the sets of those later than one of  *)
(* them, a smallest is empty.                                                *)
LEMMA NewestExists ==
    ASSUME NEW n \in Nat, NEW S \in SUBSET (1..n), S # {}
    PROVE  Max(S) \in S /\ \A i \in S : i <= Max(S)
<1> DEFINE Later(i) == {j \in S : j > i}
           F == {Later(i) : i \in S}
<1>1. \A i \in S : i \in Int
    OBVIOUS
<1>2. IsWellFoundedOn(StrictSubsetOrdering(S), FiniteSubsetsOf(S))
    BY FS_StrictSubsetOrderingWellFounded
<1>3. F \subseteq FiniteSubsetsOf(S)
    <2>1. IsFiniteSet(1..n)
        BY FS_Interval
    <2>2. IsFiniteSet(S)
        BY <2>1, FS_Subset
    <2> QED
        BY <2>2, FS_Subset DEF FiniteSubsetsOf
<1>4. F # {}
    OBVIOUS
<1>5. PICK T \in F : \A U \in F : ~(<<U, T>> \in StrictSubsetOrdering(S))
    <2> HIDE DEF F
    <2> QED
        BY <1>2, <1>3, <1>4, WFMin
<1>6. PICK i \in S : T = Later(i)
    BY <1>5
<1>7. ASSUME NEW j \in S PROVE j <= i
    <2> SUFFICES ASSUME j > i PROVE FALSE
        BY <1>1
    <2>1. j \in T /\ j \notin Later(j) /\ Later(j) \in F
        BY <1>1, <1>6
    <2>2. Later(j) \subseteq T
        <3> SUFFICES ASSUME NEW k \in S, k > j PROVE k > i
            BY <1>6
        <3> QED
            BY <1>1
    <2>3. <<Later(j), T>> \in StrictSubsetOrdering(S)
        BY <1>6, <2>1, <2>2 DEF StrictSubsetOrdering
    <2> QED
        BY <1>5, <2>1, <2>3
<1>8. \E k \in S : \A j \in S : k >= j
    BY <1>1, <1>7
<1>9. Max(S) \in S /\ \A j \in S : Max(S) >= j
    BY <1>8 DEF Max
<1> QED
    BY <1>1, <1>9

-----------------------------------------------------------------------------
(* What is true of Paddle's events, and of a session's event.                *)
StatusFollowsType ==
    \A e \in DOMAIN emitted :
        /\ emitted[e].type \in {"created", "activated"} => emitted[e].status = "active"
        /\ emitted[e].type \in {"past_due", "canceled", "resumed"}
              => emitted[e].status # "paused"

ActivatedOnce ==
    \A d, e \in DOMAIN emitted :
        /\ emitted[d].type = "activated" /\ emitted[e].type = "activated"
        /\ emitted[d].sub = emitted[e].sub
        => d = e

WorksOnAnEvent ==
    \A h \in Handlers : work[h].at # "idle" => work[h].event \in DOMAIN emitted

(* A handler converts on an activation, and links the customer with it; no   *)
(* row that was read has a customer another agency has.                      *)
ConvertsOnActivation ==
    \A h \in Handlers :
        work[h].new.converted # work[h].seen.converted =>
            /\ work[h].at # "idle" /\ Ev(h).type = "activated"
            /\ work[h].new.customer = Ev(h).sub

CustomersAreFree ==
    /\ row.customer \notin Taken
    /\ \A h \in Sessions : work[h].seen.customer \notin Taken
    /\ \A a \in Admins : work[a].new.customer = work[a].seen.customer

SignalsOnFile ==
    \/ signals = 0
    \/ /\ signals = 1
       /\ \E e \in stored : emitted[e].type = "activated" /\ emitted[e].sub \notin Taken

EventsInv == TypeOK /\ StatusFollowsType /\ ActivatedOnce /\ WorksOnAnEvent

ConvertsInv == ConvertsOnActivation /\ CustomersAreFree

-----------------------------------------------------------------------------
(* Paddle emits.                                                             *)
LEMMA Newest ==
    ASSUME TypeOK, NEW S \in SUBSET DOMAIN emitted, S # {}
    PROVE  Max(S) \in S /\ \A e \in S : e <= Max(S)
<1>1. DOMAIN emitted = 1..Len(emitted) /\ Len(emitted) \in Nat
    BY LenProperties DEF TypeOK
<1> QED
    BY <1>1, NewestExists

(* A subscription with events has the status and the plan of one of them.    *)
LEMMA LastEvent ==
    ASSUME TypeOK, NEW s \in Subs, EventsOf(s) # {}
    PROVE  /\ State(s) \in {"active", "past_due", "paused", "canceled"}
           /\ Plan(s) \in OnSale
<1>1. Max(EventsOf(s)) \in DOMAIN emitted
    BY Newest DEF EventsOf
<1>2. emitted[Max(EventsOf(s))] \in Event
    BY <1>1, LenProperties DEF TypeOK
<1> QED
    BY <1>2 DEF State, Plan, Event

(* The events on file stay what they are. *)
Extends ==
    /\ emitted' \in Seq(Event) /\ Len(emitted') <= MaxEvents
    /\ \A e \in DOMAIN emitted : e \in DOMAIN emitted' /\ emitted'[e] = emitted[e]
    /\ UNCHANGED <<row, ledger, work, lock, faults>>

LEMMA EmitExtends ==
    ASSUME TypeOK, NEW s \in Subs, NEW plan \in OnSale,
           NEW status \in {"active", "past_due", "paused", "canceled"},
           NEW types \in Seq(StatusEvents \cup {"created"}), Emit(types, s, status, plan)
    PROVE  /\ Extends
           /\ \A e \in DOMAIN emitted' \ DOMAIN emitted :
                 /\ e - Len(emitted) \in 1..Len(types)
                 /\ emitted'[e] = [type |-> types[e - Len(emitted)], sub |-> s,
                                   status |-> status, plan |-> plan]
<1> DEFINE new == [i \in DOMAIN types |->
                      [type |-> types[i], sub |-> s, status |-> status, plan |-> plan]]
<1>1. /\ DOMAIN types = 1..Len(types) /\ Len(types) \in Nat
      /\ \A i \in 1..Len(types) : types[i] \in StatusEvents \cup {"created"}
    BY LenProperties
<1>2. \A i \in 1..Len(types) : new[i] \in Event
    BY <1>1 DEF Event
<1>3. new \in Seq(Event) /\ Len(new) = Len(types)
    BY <1>1, <1>2
<1>4. \A i \in 1..Len(types) :
          new[i] = [type |-> types[i], sub |-> s, status |-> status, plan |-> plan]
    BY <1>1
<1>5. emitted \in Seq(Event) /\ emitted' = emitted \o new
    BY DEF TypeOK, Emit
<1> HIDE DEF new
<1>6. /\ emitted' \in Seq(Event) /\ Len(emitted') = Len(emitted) + Len(types)
      /\ \A i \in 1..Len(emitted) + Len(types) :
            emitted'[i] = IF i <= Len(emitted) THEN emitted[i] ELSE new[i - Len(emitted)]
    <2>1. /\ emitted \o new \in Seq(Event) /\ Len(emitted \o new) = Len(emitted) + Len(new)
          /\ \A i \in 1..Len(emitted) + Len(new) :
                (emitted \o new)[i] = IF i <= Len(emitted) THEN emitted[i]
                                                        ELSE new[i - Len(emitted)]
        BY <1>3, <1>5, ConcatProperties
    <2> QED
        BY <1>3, <1>5, <2>1
<1>7. /\ DOMAIN emitted = 1..Len(emitted) /\ Len(emitted) \in Nat
      /\ DOMAIN emitted' = 1..Len(emitted) + Len(types)
    BY <1>5, <1>6, LenProperties
<1>8. Extends
    BY <1>1, <1>6, <1>7 DEF Extends, Emit
<1>9. ASSUME NEW e \in DOMAIN emitted' \ DOMAIN emitted
      PROVE  /\ e - Len(emitted) \in 1..Len(types)
             /\ emitted'[e] = [type |-> types[e - Len(emitted)], sub |-> s,
                               status |-> status, plan |-> plan]
    <2>1. e \in Int /\ e > Len(emitted) /\ e <= Len(emitted) + Len(types)
        BY <1>1, <1>7
    <2>2. e - Len(emitted) \in 1..Len(types)
        BY <1>1, <1>7, <2>1
    <2>3. emitted'[e] = new[e - Len(emitted)]
        BY <1>1, <1>6, <1>7, <2>1
    <2> QED
        BY <1>4, <2>2, <2>3
<1> QED
    BY <1>8, <1>9

LEMMA ExtendsEvents ==
    ASSUME EventsInv, Extends
    PROVE  TypeOK' /\ WorksOnAnEvent'
BY DEF EventsInv, TypeOK, WorksOnAnEvent, Extends, ledger

LEMMA PaddleEvents ==
    ASSUME EventsInv, Paddle
    PROVE  EventsInv' /\ Extends
<1>1. TypeOK
    BY DEF EventsInv
<1>2. ASSUME NEW s \in Subs, NEW plan \in OnSale, Subscribe(s, plan)
      PROVE  EventsInv' /\ Extends
    <2> DEFINE types == <<"created", "activated">>
    <2>1. /\ types \in Seq(StatusEvents \cup {"created"}) /\ Len(types) = 2
          /\ types[1] = "created" /\ types[2] = "activated"
        BY DEF StatusEvents
    <2>2. Emit(types, s, "active", plan)
        BY <1>2 DEF Subscribe
    <2> HIDE DEF types
    <2>3. /\ Extends
          /\ \A e \in DOMAIN emitted' \ DOMAIN emitted :
                 /\ e - Len(emitted) \in 1..2
                 /\ emitted'[e] = [type |-> types[e - Len(emitted)],
                                   sub |-> s, status |-> "active", plan |-> plan]
        BY <1>1, <2>1, <2>2, EmitExtends
    <2>4. EventsOf(s) = {}
        BY <1>1, <1>2, LastEvent DEF Subscribe
    <2>5. StatusFollowsType'
        BY <2>3 DEF EventsInv, StatusFollowsType, Extends
    <2>6. ActivatedOnce'
        <3> SUFFICES ASSUME NEW d \in DOMAIN emitted', NEW e \in DOMAIN emitted',
                            emitted'[d].type = "activated", emitted'[e].type = "activated",
                            emitted'[d].sub = emitted'[e].sub
                     PROVE  d = e
            BY DEF ActivatedOnce
        <3>1. \A i \in DOMAIN emitted' \ DOMAIN emitted :
                  emitted'[i].type = "activated" => i = Len(emitted) + 2 /\ emitted'[i].sub = s
            <4> TAKE i \in DOMAIN emitted' \ DOMAIN emitted
            <4>1. i - Len(emitted) \in 1..2 /\ i \in Int /\ Len(emitted) \in Nat
                BY <1>1, <2>3, LenProperties DEF Extends, TypeOK
            <4>2. emitted'[i].type = types[i - Len(emitted)]
                  /\ emitted'[i].sub = s
                BY <2>3
            <4>3. CASE i - Len(emitted) = 1
                BY <2>1, <4>2, <4>3
            <4>4. CASE i - Len(emitted) = 2
                BY <2>1, <4>1, <4>2, <4>4
            <4> QED
                BY <4>1, <4>3, <4>4
        <3>2. \A i \in DOMAIN emitted : emitted'[i].sub # s
            BY <2>3, <2>4 DEF EventsOf, Extends
        <3>3. \A i \in DOMAIN emitted : emitted'[i] = emitted[i]
            BY <2>3 DEF Extends
        <3>4. CASE d \in DOMAIN emitted /\ e \in DOMAIN emitted
            BY <3>3, <3>4 DEF EventsInv, ActivatedOnce
        <3>5. CASE d \notin DOMAIN emitted /\ e \notin DOMAIN emitted
            BY <3>1, <3>5
        <3>6. CASE ~(d \in DOMAIN emitted <=> e \in DOMAIN emitted)
            BY <3>1, <3>2, <3>6
        <3> QED
            BY <3>4, <3>5, <3>6
    <2> QED
        BY <2>3, <2>5, <2>6, ExtendsEvents DEF EventsInv
<1>3. ASSUME NEW s \in Subs, NEW plan \in OnSale, NEW type \in StatusEvents \ {"activated"},
             NEW status \in {"active", "past_due", "paused", "canceled"},
             type # "updated" => status # "paused",
             Emit(<<type>>, s, status, plan)
      PROVE  EventsInv' /\ Extends
    <2> DEFINE types == <<type>>
    <2>1. /\ types \in Seq(StatusEvents \cup {"created"}) /\ Len(types) = 1
          /\ types[1] = type
        OBVIOUS
    <2>0. Emit(types, s, status, plan)
        BY <1>3
    <2> HIDE DEF types
    <2>2. /\ Extends
          /\ \A e \in DOMAIN emitted' \ DOMAIN emitted :
                 /\ e - Len(emitted) \in 1..1
                 /\ emitted'[e] = [type |-> types[e - Len(emitted)],
                                   sub |-> s, status |-> status, plan |-> plan]
        BY <1>1, <1>3, <2>0, <2>1, EmitExtends
    <2>3. \A e \in DOMAIN emitted' \ DOMAIN emitted :
              emitted'[e].type = type /\ emitted'[e].status = status
        <3> TAKE e \in DOMAIN emitted' \ DOMAIN emitted
        <3>1. e - Len(emitted) \in Int
            BY <1>1, <2>2, LenProperties DEF Extends, TypeOK
        <3>2. e - Len(emitted) = 1
            BY <2>2, <3>1
        <3> QED
            BY <2>1, <2>2, <3>2
    <2>4. StatusFollowsType'
        BY <1>3, <2>2, <2>3 DEF EventsInv, StatusFollowsType, Extends, StatusEvents
    <2>5. ActivatedOnce'
        BY <2>2, <2>3 DEF EventsInv, ActivatedOnce, Extends
    <2> QED
        BY <2>2, <2>4, <2>5, ExtendsEvents DEF EventsInv
<1>4. ASSUME NEW s \in Subs, State(s) # "none" PROVE Plan(s) \in OnSale
    BY <1>1, <1>4, LastEvent DEF State
<1>5. ASSUME NEW s \in Subs, NEW plan \in OnSale, ChangePlan(s, plan)
      PROVE  EventsInv' /\ Extends
    BY <1>3, <1>5 DEF ChangePlan, StatusEvents
<1>6. ASSUME NEW s \in Subs, PaymentFails(s) \/ PaymentBack(s) \/ Pause(s) \/ Resume(s)
                             \/ PeriodEnds(s)
      PROVE  EventsInv' /\ Extends
    <2>1. Plan(s) \in OnSale
        BY <1>4, <1>6 DEF PaymentFails, PaymentBack, Pause, Resume, PeriodEnds
    <2> QED
        BY <1>3, <1>6, <2>1
        DEF PaymentFails, PaymentBack, Pause, Resume, PeriodEnds, StatusEvents
<1> QED
    BY <1>2, <1>5, <1>6 DEF Paddle

-----------------------------------------------------------------------------
(* What the shared pieces of the handlers do to a row.                       *)
LEMMA AdoptFacts ==
    ASSUME NEW r \in Row, NEW s \in Subs
    PROVE  /\ Adopt(r, s) \in Row
           /\ Adopt(r, s).sub = s /\ Adopt(r, s).customer = s
           /\ Adopt(r, s).mode = "paddle" /\ Adopt(r, s).converted = r.converted
           /\ Adopt(r, s).status = r.status /\ Adopt(r, s).since = r.since
BY DEF Adopt, Row

LEMMA ConvertFacts ==
    ASSUME NEW r \in Row, NEW plan \in Plans \cup {NoPlan}, NEW at \in Times
    PROVE  /\ Convert(r, plan, at) \in Row
           /\ Convert(r, plan, at).sub = r.sub /\ Convert(r, plan, at).customer = r.customer
           /\ Convert(r, plan, at).mode = r.mode
           /\ Convert(r, plan, at).status = r.status /\ Convert(r, plan, at).since = r.since
           /\ r.converted # 0 => Convert(r, plan, at).converted = r.converted
BY DEF Convert, Row

LEMMA StatusFacts ==
    ASSUME NEW r \in Row, NEW status \in BillingStatus, NEW at \in Times, at # 0
    PROVE  /\ ApplyStatus(r, status, at) \in Row
           /\ ApplyStatus(r, status, at).sub = r.sub
           /\ ApplyStatus(r, status, at).customer = r.customer
           /\ ApplyStatus(r, status, at).mode = r.mode
           /\ ApplyStatus(r, status, at).converted = r.converted
           /\ ApplyStatus(r, status, at).plan = r.plan
           /\ ApplyStatus(r, status, at).status = status
           /\ (ApplyStatus(r, status, at).since # 0) <=> (status = "past_due")
<1> DEFINE since == IF status = "past_due" THEN (IF r.since = 0 THEN at ELSE r.since) ELSE 0
<1>1. since \in Times /\ ((since # 0) <=> (status = "past_due"))
    <2>1. r.since \in Times /\ 0 \in Times
        BY PaddleAssumption DEF Row, Times
    <2> QED
        BY <2>1
<1>2. ApplyStatus(r, status, at) = [r EXCEPT !.status = status, !.since = since]
    BY DEF ApplyStatus
<1> HIDE DEF since
<1> QED
    BY <1>1, <1>2 DEF Row

LEMMA WrittenType ==
    ASSUME TypeOK, NEW h \in Sessions
    PROVE  /\ Written(h) \in Row
           /\ \A c \in DOMAIN row : Written(h)[c] =
                 IF work[h].new[c] # work[h].seen[c] THEN work[h].new[c] ELSE row[c]
<1>1. row \in Row /\ work[h].new \in Row
    BY DEF TypeOK
<1>2. DOMAIN row = {"mode", "converted", "plan", "sub", "customer", "status", "since"}
    BY <1>1 DEF Row
<1>3. \A c \in DOMAIN row : Written(h)[c] =
          IF work[h].new[c] # work[h].seen[c] THEN work[h].new[c] ELSE row[c]
    BY DEF Written, Dirty
<1>4. Written(h) = [mode |-> Written(h).mode, converted |-> Written(h).converted,
                    plan |-> Written(h).plan, sub |-> Written(h).sub,
                    customer |-> Written(h).customer, status |-> Written(h).status,
                    since |-> Written(h).since]
    BY <1>2 DEF Written
<1>5. /\ Written(h).mode \in {"manual", "paddle"} /\ Written(h).converted \in Times
      /\ Written(h).plan \in Plans \cup {NoPlan} /\ Written(h).sub \in Subs \cup {NoSub}
      /\ Written(h).customer \in Subs \cup {NoSub}
      /\ Written(h).status \in BillingStatus /\ Written(h).since \in Times
    BY <1>1, <1>2, <1>3 DEF Row
<1> QED
    BY <1>3, <1>4, <1>5 DEF Row

Work == [at: {"idle", "dispatch", "orphan", "flush", "status", "commit", "store"},
         event: Times, seen: Row, new: Row, ok: BOOLEAN]

LEMMA IdleType == Idle \in Work
BY PaddleAssumption DEF Idle, Work, NewAgency, Row, Times, BillingStatus

(* The event a handler works on. *)
LEMMA EventFacts ==
    ASSUME EventsInv, NEW h \in Handlers, work[h].at # "idle"
    PROVE  /\ work[h] \in Work
           /\ work[h].event \in DOMAIN emitted /\ work[h].event \in Times
           /\ work[h].event # 0
           /\ Ev(h) \in Event /\ Ev(h).plan \in Plans \cup {NoPlan}
           /\ Ev(h).type = "activated" => Ev(h).status = "active"
           /\ Ev(h).type \in {"past_due", "canceled", "resumed"}
                 => Ev(h).status \in BillingStatus
<1>1. work[h] \in Work /\ work[h].event \in DOMAIN emitted
    BY DEF EventsInv, TypeOK, Work, Sessions, WorksOnAnEvent
<1>2. DOMAIN emitted = 1..Len(emitted) /\ Len(emitted) \in Nat /\ Len(emitted) <= MaxEvents
    BY LenProperties DEF EventsInv, TypeOK
<1>3. Ev(h) \in Event
    BY <1>1, LenProperties DEF EventsInv, TypeOK, Ev
<1> QED
    BY <1>1, <1>2, <1>3, PaddleAssumption
    DEF EventsInv, StatusFollowsType, Ev, Event, Times, BillingStatus

(* The work of a session that goes on. *)
LEMMA SameWork ==
    ASSUME NEW u \in Work, NEW v \in Work, u.at = v.at, u.event = v.event,
           u.seen = v.seen, u.new = v.new, u.ok = v.ok
    PROVE  u = v
BY DEF Work

After(h, at, new, ok) ==
    [at |-> at, event |-> work[h].event, seen |-> work[h].seen, new |-> new, ok |-> ok]

Becomes(h, w) == work' = [work EXCEPT ![h] = w]

LEMMA GotoFacts ==
    ASSUME TypeOK, NEW h \in Sessions, NEW new \in Row,
           NEW at \in {"flush", "status", "commit", "store"}
    PROVE  /\ After(h, at, new, TRUE) \in Work
           /\ After(h, at, new, FALSE) \in Work
           /\ Goto(h, at, new, TRUE) => Becomes(h, After(h, at, new, TRUE))
           /\ Goto(h, at, new, FALSE) => Becomes(h, After(h, at, new, FALSE))
<1>1. work \in [Sessions -> Work]
    BY DEF TypeOK, Work
<1>2. PICK v \in Work : v = work[h]
    BY <1>1
<1>3. After(h, at, new, TRUE) \in Work /\ After(h, at, new, FALSE) \in Work
    BY <1>2 DEF After, Work
<1>4. After(h, at, new, TRUE) = [v EXCEPT !.at = at, !.new = new, !.ok = TRUE]
    <2> DEFINE a == After(h, at, new, TRUE)
               b == [v EXCEPT !.at = at, !.new = new, !.ok = TRUE]
    <2>1. /\ a.at = at /\ a.event = v.event /\ a.seen = v.seen
          /\ a.new = new /\ a.ok = TRUE
        BY <1>2 DEF After
    <2>2. /\ b \in Work /\ b.at = at /\ b.event = v.event /\ b.seen = v.seen
          /\ b.new = new /\ b.ok = TRUE
        BY DEF Work
    <2>3. a \in Work
        BY <1>3
    <2> HIDE DEF a, b
    <2>4. a.ok = b.ok
        BY <2>1, <2>2
    <2>5. a = b
        BY <2>1, <2>2, <2>3, <2>4, SameWork
    <2> QED
        BY <2>5 DEF a, b
<1>7. After(h, at, new, FALSE) = [v EXCEPT !.at = at, !.new = new, !.ok = FALSE]
    <2> DEFINE a == After(h, at, new, FALSE)
               b == [v EXCEPT !.at = at, !.new = new, !.ok = FALSE]
    <2>1. /\ a.at = at /\ a.event = v.event /\ a.seen = v.seen
          /\ a.new = new /\ a.ok = FALSE
        BY <1>2 DEF After
    <2>2. /\ b \in Work /\ b.at = at /\ b.event = v.event /\ b.seen = v.seen
          /\ b.new = new /\ b.ok = FALSE
        BY DEF Work
    <2>3. a \in Work
        BY <1>3
    <2> HIDE DEF a, b
    <2>4. a.ok = b.ok
        BY <2>1, <2>2
    <2>5. a = b
        BY <2>1, <2>2, <2>3, <2>4, SameWork
    <2> QED
        BY <2>5 DEF a, b
<1>5. ASSUME Goto(h, at, new, TRUE) PROVE Becomes(h, After(h, at, new, TRUE))
    BY <1>1, <1>2, <1>4, <1>5 DEF Goto, Becomes
<1>6. ASSUME Goto(h, at, new, FALSE) PROVE Becomes(h, After(h, at, new, FALSE))
    BY <1>1, <1>2, <1>7, <1>6 DEF Goto, Becomes
<1> QED
    BY <1>3, <1>5, <1>6

-----------------------------------------------------------------------------
(* A turn of a delivery between its reception and its end: what it has       *)
(* computed, by the handler that computed it.                                *)
Inner(h) ==
    \/ OnManual(h) \/ OnCreated(h) \/ OnActivated(h) \/ OnStatus(h) \/ OnUpdated(h)
    \/ Flush(h) \/ ActivatedStatus(h) \/ LinkConflict(h)

NotProtected(r) == r.mode = "paddle" \/ r.converted = 0

SameStatus(r, q) == r.status = q.status /\ r.since = q.since

Applied(r, status) == r.status = status /\ ((r.since # 0) <=> (status = "past_due"))

KeepsManual(h, w) == w.at = "commit" /\ w.new = w.seen /\ ~w.ok

FillsLink(h, w) ==
    /\ w.at = "commit" /\ Ev(h).type = "created" /\ NotProtected(w.seen)
    /\ w.new.converted = w.seen.converted /\ w.new.mode = w.seen.mode
    /\ SameStatus(w.new, w.seen)

Adopts(h, w) ==
    /\ w.at \in {"flush", "commit"} /\ (w.at = "commit" => ~w.ok)
    /\ Ev(h).type = "activated" /\ NotProtected(w.seen)
    /\ w.new.customer = Ev(h).sub /\ w.new.mode = "paddle" /\ SameStatus(w.new, w.seen)
    /\ w.seen.converted # 0 => w.new.converted = w.seen.converted

Waits(h, w) ==
    /\ w.at \in {"status", "store"} /\ w.new = work[h].new
    /\ w.at = "status" => work[h].at = "flush"

Activates(h, w) ==
    /\ work[h].at = "status" /\ w.at = "commit"
    /\ w.new.converted = work[h].new.converted /\ w.new.customer = work[h].new.customer
    /\ w.new.mode = work[h].new.mode
    /\ \/ Stale(w.event) /\ w.new = work[h].new
       \/ ~Stale(w.event) /\ Applied(w.new, "active")

Updates(h, w) ==
    /\ w.at = "commit" /\ Ev(h).type \in StatusEvents /\ NotProtected(w.seen)
    /\ w.new.converted = w.seen.converted /\ w.new.customer = w.seen.customer
    /\ w.new.mode = w.seen.mode
    /\ \/ (Stale(w.event) \/ ~w.ok \/ Ev(h).status = "paused") /\ SameStatus(w.new, w.seen)
       \/ ~Stale(w.event) /\ Applied(w.new, Ev(h).status)

Turn(h, w) ==
    /\ Becomes(h, w)
    /\ w.event = work[h].event /\ w.seen = work[h].seen
    /\ work[h].at # "idle" /\ w.at # "idle"
    /\ \/ KeepsManual(h, w) \/ FillsLink(h, w) \/ Adopts(h, w)
       \/ Waits(h, w) \/ Activates(h, w) \/ Updates(h, w)

LEMMA InnerTurn ==
    ASSUME EventsInv, NEW h \in Handlers, Inner(h)
    PROVE  /\ UNCHANGED <<emitted, row, ledger, faults>>
           /\ lock' \in Handlers \cup {NoHandler}
           /\ \E w \in Work : Turn(h, w)
<1>1. work[h].at # "idle"
    BY DEF Inner, OnManual, OnCreated, OnActivated, OnStatus, OnUpdated, Dispatching, Flush,
        ActivatedStatus, LinkConflict
<1>2. /\ UNCHANGED <<emitted, row, ledger, faults>>
      /\ lock' \in Handlers \cup {NoHandler}
    BY DEF EventsInv, TypeOK, Inner, OnManual, OnCreated, OnActivated, OnStatus, OnUpdated,
        Dispatching, Flush, ActivatedStatus, LinkConflict
<1>3. TypeOK /\ h \in Sessions
    BY DEF EventsInv, Sessions
<1> DEFINE e == work[h].event  r == work[h].seen  q == work[h].new
<1>4. /\ work[h] \in Work /\ r \in Row /\ q \in Row
      /\ e \in Times /\ e # 0
      /\ Ev(h).sub \in Subs /\ Ev(h).plan \in Plans \cup {NoPlan}
      /\ Ev(h).status \in {"active", "past_due", "paused", "canceled"}
      /\ Ev(h).type \in {"past_due", "canceled", "resumed"} => Ev(h).status \in BillingStatus
    BY <1>1, EventFacts DEF Work, Event
<1>5. ASSUME NEW new \in Row, NEW at \in {"flush", "status", "commit", "store"}
      PROVE  /\ Goto(h, at, new, TRUE) =>
                    \E w \in Work : Becomes(h, w) /\ w = After(h, at, new, TRUE)
             /\ Goto(h, at, new, FALSE) =>
                    \E w \in Work : Becomes(h, w) /\ w = After(h, at, new, FALSE)
    BY <1>3, GotoFacts
<1> HIDE DEF e, r, q
<1>6. ASSUME \E w \in Work : /\ Becomes(h, w)
                             /\ w.event = e /\ w.seen = r /\ w.at # "idle"
                             /\ \/ KeepsManual(h, w) \/ FillsLink(h, w) \/ Adopts(h, w)
                                \/ Waits(h, w) \/ Activates(h, w) \/ Updates(h, w)
      PROVE  \E w \in Work : Turn(h, w)
    BY <1>1, <1>6 DEF Turn, e, r
<1>7. CASE OnManual(h)
    <2>1. Goto(h, "commit", r, FALSE)
        BY <1>7 DEF OnManual, r
    <2>2. PICK w \in Work : Becomes(h, w) /\ w = After(h, "commit", r, FALSE)
        BY <1>4, <1>5, <2>1
    <2>3. KeepsManual(h, w)
        BY <2>2 DEF KeepsManual, After, r
    <2> QED
        BY <1>2, <1>6, <2>2, <2>3 DEF After, e, r
<1>8. CASE OnCreated(h)
    <2> DEFINE new == [r EXCEPT !.sub = Fill(@, Ev(h).sub), !.customer = Fill(@, Ev(h).sub)]
    <2>1. Goto(h, "commit", new, TRUE) /\ Ev(h).type = "created" /\ NotProtected(r)
        <3>1. r.mode \in {"manual", "paddle"}
            BY <1>4 DEF Row
        <3> QED
            BY <1>8, <3>1 DEF OnCreated, Dispatching, ManualGuard, NotProtected, r
    <2>2. new \in Row /\ new.converted = r.converted /\ new.mode = r.mode /\ SameStatus(new, r)
        BY <1>4 DEF Row, Fill, SameStatus
    <2> HIDE DEF new
    <2>3. PICK w \in Work : Becomes(h, w) /\ w = After(h, "commit", new, TRUE)
        BY <1>5, <2>1, <2>2
    <2>4. FillsLink(h, w)
        BY <2>1, <2>2, <2>3 DEF FillsLink, After, r
    <2> QED
        BY <1>2, <1>6, <2>3, <2>4 DEF After, e, r
<1>9. CASE OnActivated(h)
    <2> DEFINE adopted == Adopt(r, Ev(h).sub)
               converted == Convert(adopted, Ev(h).plan, e)
    <2>1. /\ Goto(h, "commit", adopted, FALSE) \/ Goto(h, "flush", converted, TRUE)
          /\ Ev(h).type = "activated" /\ NotProtected(r)
        <3>1. r.mode \in {"manual", "paddle"}
            BY <1>4 DEF Row
        <3> QED
            BY <1>9, <3>1 DEF OnActivated, Dispatching, ManualGuard, NotProtected, r, e
    <2>2. /\ adopted \in Row /\ adopted.customer = Ev(h).sub /\ SameStatus(adopted, r)
          /\ adopted.converted = r.converted /\ adopted.mode = "paddle"
        BY <1>4, AdoptFacts DEF SameStatus
    <2> HIDE DEF adopted
    <2>3. /\ converted \in Row /\ converted.customer = Ev(h).sub /\ SameStatus(converted, r)
          /\ r.converted # 0 => converted.converted = r.converted
          /\ converted.mode = "paddle"
        BY <1>4, <2>2, ConvertFacts DEF SameStatus
    <2> HIDE DEF converted
    <2>4. CASE Goto(h, "commit", adopted, FALSE)
        <3>1. PICK w \in Work : Becomes(h, w) /\ w = After(h, "commit", adopted, FALSE)
            BY <1>5, <2>2, <2>4
        <3>2. Adopts(h, w)
            BY <2>1, <2>2, <3>1 DEF Adopts, After, r
        <3> QED
            BY <1>2, <1>6, <3>1, <3>2 DEF After, e, r
    <2>5. CASE Goto(h, "flush", converted, TRUE)
        <3>1. PICK w \in Work : Becomes(h, w) /\ w = After(h, "flush", converted, TRUE)
            BY <1>5, <2>3, <2>5
        <3>2. Adopts(h, w)
            <4>1. w.at = "flush" /\ w.new = converted /\ w.seen = r
                BY <3>1 DEF After, r
            <4> QED
                BY <2>1, <2>3, <4>1 DEF Adopts
        <3> QED
            BY <1>2, <1>6, <3>1, <3>2 DEF After, e, r
    <2> QED
        BY <1>2, <2>1, <2>4, <2>5
<1>10. CASE OnStatus(h)
    <2> DEFINE applied == ApplyStatus(r, Ev(h).status, e)
               new == IF Stale(e) THEN r ELSE applied
    <2>1. /\ Goto(h, "commit", new, TRUE)
          /\ Ev(h).type \in {"past_due", "canceled", "resumed"} /\ NotProtected(r)
          /\ Ev(h).type \in StatusEvents
        <3>1. r.mode \in {"manual", "paddle"}
            BY <1>4 DEF Row
        <3> QED
            BY <1>10, <3>1
            DEF OnStatus, Dispatching, ManualGuard, NotProtected, StatusEvents, r, e
    <2>2. /\ applied \in Row /\ applied.converted = r.converted
          /\ applied.customer = r.customer /\ applied.mode = r.mode
          /\ Applied(applied, Ev(h).status)
        BY <1>4, <2>1, StatusFacts DEF Applied
    <2> HIDE DEF applied
    <2>3. PICK w \in Work : Becomes(h, w) /\ w = After(h, "commit", new, TRUE)
        BY <1>4, <1>5, <2>1, <2>2
    <2>4. Updates(h, w)
        BY <2>1, <2>2, <2>3 DEF Updates, SameStatus, After, e, r
    <2> QED
        BY <1>2, <1>6, <2>3, <2>4 DEF After, e, r
<1>11. CASE OnUpdated(h)
    <2> DEFINE plan == IF Ev(h).plan = NoPlan THEN r.plan ELSE Ev(h).plan
               refreshed == [r EXCEPT !.plan = plan]
               applied == ApplyStatus(refreshed, Ev(h).status, e)
               new == IF Stale(e) THEN r
                      ELSE IF Ev(h).status \notin BillingStatus THEN refreshed ELSE applied
    <2>1. /\ Goto(h, "commit", r, FALSE) \/ Goto(h, "commit", new, TRUE)
          /\ Ev(h).type \in StatusEvents /\ NotProtected(r)
        <3>1. r.mode \in {"manual", "paddle"}
            BY <1>4 DEF Row
        <3> QED
            BY <1>11, <3>1
            DEF OnUpdated, Dispatching, ManualGuard, NotProtected, StatusEvents, r, e
    <2>2. /\ refreshed \in Row /\ refreshed.converted = r.converted
          /\ refreshed.customer = r.customer /\ refreshed.mode = r.mode
          /\ SameStatus(refreshed, r)
        BY <1>4 DEF Row, SameStatus
    <2> HIDE DEF plan, refreshed
    <2>3. Ev(h).status \in BillingStatus =>
              /\ applied \in Row /\ applied.converted = r.converted
              /\ applied.customer = r.customer /\ applied.mode = r.mode
              /\ Applied(applied, Ev(h).status)
        BY <1>4, <2>2, StatusFacts DEF Applied
    <2> HIDE DEF applied
    <2>4. CASE Goto(h, "commit", r, FALSE)
        <3>1. PICK w \in Work : Becomes(h, w) /\ w = After(h, "commit", r, FALSE)
            BY <1>4, <1>5, <2>4
        <3>2. Updates(h, w)
            BY <2>1, <3>1 DEF Updates, SameStatus, After, r
        <3> QED
            BY <1>2, <1>6, <3>1, <3>2 DEF After, e, r
    <2>5. CASE Goto(h, "commit", new, TRUE)
        <3>1. new \in Row
            BY <1>4, <2>2, <2>3
        <3>2. PICK w \in Work : Becomes(h, w) /\ w = After(h, "commit", new, TRUE)
            BY <1>5, <2>5, <3>1
        <3>3. Ev(h).status \notin BillingStatus => Ev(h).status = "paused"
            BY <1>4 DEF BillingStatus
        <3>4. Updates(h, w)
            BY <2>1, <2>2, <2>3, <3>2, <3>3 DEF Updates, SameStatus, After, e, r
        <3> QED
            BY <1>2, <1>6, <3>2, <3>4 DEF After, e, r
    <2> QED
        BY <1>2, <2>1, <2>4, <2>5
<1>12. CASE Flush(h) \/ LinkConflict(h)
    <2>1. PICK at \in {"status", "store"} :
              /\ work' = [work EXCEPT ![h].at = at]
              /\ at = "status" => work[h].at = "flush"
        BY <1>12 DEF Flush, LinkConflict
    <2>2. PICK v \in Work : v = work[h]
        BY <1>4
    <2> DEFINE w == [v EXCEPT !.at = at]
    <2>3. w \in Work /\ w.at = at /\ w.new = v.new /\ w.event = v.event /\ w.seen = v.seen
        BY DEF Work
    <2>4. Becomes(h, w)
        BY <1>3, <2>1, <2>2 DEF TypeOK, Becomes
    <2> HIDE DEF w
    <2>5. Waits(h, w)
        BY <2>1, <2>2, <2>3 DEF Waits
    <2> QED
        BY <1>2, <1>6, <2>2, <2>3, <2>4, <2>5 DEF e, r
<1>13. CASE ActivatedStatus(h)
    <2> DEFINE applied == ApplyStatus(q, "active", e)
               new == IF Stale(e) THEN q ELSE applied
    <2>1. Goto(h, "commit", new, TRUE) /\ work[h].at = "status"
        BY <1>13 DEF ActivatedStatus, q, e
    <2>2. /\ applied \in Row /\ applied.converted = q.converted
          /\ applied.customer = q.customer /\ applied.mode = q.mode
          /\ Applied(applied, "active")
        BY <1>4, StatusFacts DEF Applied, BillingStatus
    <2> HIDE DEF applied
    <2>3. PICK w \in Work : Becomes(h, w) /\ w = After(h, "commit", new, TRUE)
        BY <1>4, <1>5, <2>1, <2>2
    <2>4. Activates(h, w)
        BY <2>1, <2>2, <2>3 DEF Activates, After, e, q
    <2> QED
        BY <1>2, <1>6, <2>3, <2>4 DEF After, e, r
<1> QED
    BY <1>7, <1>8, <1>9, <1>10, <1>11, <1>12, <1>13 DEF Inner

-----------------------------------------------------------------------------
(* Every variable keeps its type.                                            *)
LEMMA WorkTyped ==
    ASSUME TypeOK, NEW h \in Sessions, NEW w \in Work, Becomes(h, w)
    PROVE  /\ work' \in [Sessions -> Work] /\ work'[h] = w
           /\ \A g \in Sessions : g # h => work'[g] = work[g]
BY DEF TypeOK, Work, Becomes

LEMMA EventsStep ==
    ASSUME EventsInv, NEW h \in Sessions, NEW w \in Work, Becomes(h, w),
           w.at = "idle" \/ w.event \in DOMAIN emitted \/ h \notin Handlers,
           UNCHANGED emitted, row' \in Row,
           stored' \subseteq DOMAIN emitted, orphans' \subseteq DOMAIN emitted,
           processed' \subseteq stored', lock' \in Handlers \cup {NoHandler},
           signals' \in Nat, faults' \in 0..MaxFaults
    PROVE  EventsInv'
<1>1. TypeOK
    BY DEF EventsInv
<1>2. /\ work' \in [Sessions -> Work] /\ work'[h] = w
      /\ \A g \in Sessions : g # h => work'[g] = work[g]
    BY <1>1, WorkTyped
<1>3. TypeOK'
    BY <1>1, <1>2 DEF TypeOK, Work
<1>4. WorksOnAnEvent'
    BY <1>2 DEF EventsInv, WorksOnAnEvent, Sessions
<1> QED
    BY <1>3, <1>4 DEF EventsInv, StatusFollowsType, ActivatedOnce

(* The row of a delivery as it is received, and of a PATCH.                  *)
Received(h, e) ==
    [at |-> IF emitted[e].sub \in Tagged \/ row.sub = emitted[e].sub
            THEN "dispatch" ELSE "orphan",
     event |-> e, seen |-> row, new |-> row, ok |-> FALSE]

Dated(r, date) == IF date = 0 THEN r ELSE [r EXCEPT !.converted = date]

Patched(plan, date) ==
    [Idle EXCEPT !.at = "commit", !.event = date, !.seen = row,
                 !.new = Dated(Convert(row, plan, Len(emitted) + 1), date)]

LEMMA OpenedFacts ==
    ASSUME TypeOK
    PROVE  /\ \A h \in Handlers, e \in DOMAIN emitted :
                 /\ Received(h, e) \in Work
                 /\ Received(h, e).at \in {"dispatch", "orphan"}
                 /\ Received(h, e).event = e
                 /\ Received(h, e).seen = row /\ Received(h, e).new = row
           /\ \A plan \in Plans \cup {NoPlan}, date \in Dates \cup {0} :
                 /\ Patched(plan, date) \in Work
                 /\ Patched(plan, date).at = "commit" /\ Patched(plan, date).event = date
                 /\ Patched(plan, date).seen = row
                 /\ SameStatus(Patched(plan, date).new, row)
                 /\ \A c \in DOMAIN row \ {"plan", "converted"} :
                        Patched(plan, date).new[c] = row[c]
                 /\ row.converted # 0 =>
                        Patched(plan, date).new.converted = IF date = 0 THEN row.converted
                                                                        ELSE date
<1>1. /\ row \in Row /\ Len(emitted) \in Nat /\ Len(emitted) <= MaxEvents
      /\ DOMAIN emitted = 1..Len(emitted)
    BY LenProperties DEF TypeOK
<1>2. Len(emitted) + 1 \in Times
    BY <1>1, PaddleAssumption DEF Times
<1>3. ASSUME NEW h \in Handlers, NEW e \in DOMAIN emitted
      PROVE  /\ Received(h, e) \in Work
             /\ Received(h, e).at \in {"dispatch", "orphan"}
             /\ Received(h, e).event = e
             /\ Received(h, e).seen = row /\ Received(h, e).new = row
    <2>1. e \in Times
        BY <1>1, PaddleAssumption DEF Times
    <2> QED
        BY <1>1, <2>1 DEF Received, Work
<1>4. ASSUME NEW plan \in Plans \cup {NoPlan}, NEW date \in Dates \cup {0}
      PROVE  /\ Patched(plan, date) \in Work
             /\ Patched(plan, date).at = "commit" /\ Patched(plan, date).event = date
             /\ Patched(plan, date).seen = row
             /\ SameStatus(Patched(plan, date).new, row)
             /\ \A c \in DOMAIN row \ {"plan", "converted"} :
                    Patched(plan, date).new[c] = row[c]
             /\ row.converted # 0 =>
                    Patched(plan, date).new.converted = IF date = 0 THEN row.converted
                                                                    ELSE date
    <2> DEFINE posed == Convert(row, plan, Len(emitted) + 1)
               new == Dated(posed, date)
    <2>1. /\ posed \in Row
          /\ \A c \in DOMAIN row \ {"plan", "converted"} : posed[c] = row[c]
          /\ row.converted # 0 => posed.converted = row.converted
        <3>1. posed \in Row /\ (row.converted # 0 => posed.converted = row.converted)
            BY <1>1, <1>2, ConvertFacts
        <3>2. \A c \in DOMAIN row \ {"plan", "converted"} : posed[c] = row[c]
            BY <1>1 DEF Convert, Row
        <3> QED
            BY <3>1, <3>2
    <2>2. date \in Times
        BY PaddleAssumption DEF Times
    <2> HIDE DEF posed
    <2>3. /\ new \in Row
          /\ \A c \in DOMAIN row \ {"plan", "converted"} : new[c] = row[c]
          /\ row.converted # 0 => new.converted = IF date = 0 THEN row.converted ELSE date
        BY <1>1, <2>1, <2>2 DEF Dated, Row
    <2> HIDE DEF new
    <2>4. SameStatus(new, row)
        BY <1>1, <2>3 DEF SameStatus, Row
    <2>5. PICK i \in Work : i = Idle
        BY IdleType
    <2>6. Patched(plan, date) = [i EXCEPT !.at = "commit", !.event = date, !.seen = row,
                                          !.new = new]
        BY <2>5 DEF Patched, new, posed
    <2>7. /\ Patched(plan, date) \in Work
          /\ Patched(plan, date).at = "commit" /\ Patched(plan, date).event = date
          /\ Patched(plan, date).seen = row /\ Patched(plan, date).new = new
        BY <1>1, <2>2, <2>3, <2>6 DEF Work
    <2> QED
        BY <2>3, <2>4, <2>7
<1> QED
    BY <1>3, <1>4

LEMMA InnerAt ==
    ASSUME NEW h \in Handlers, Inner(h)
    PROVE  work[h].at \notin {"idle", "orphan"}
BY DEF Inner, Dispatching, OnManual, OnCreated, OnActivated, OnStatus, OnUpdated, Flush,
       ActivatedStatus, LinkConflict

(* A session that ends.                                                      *)
Ends(h) ==
    \/ /\ h \in Handlers
       /\ Commit(h) \/ Duplicate(h) \/ StoreAlone(h) \/ StoreOrphan(h) \/ Crash(h)
    \/ h \in Admins /\ CommitPatch(h)

LEMMA EndFacts ==
    ASSUME EventsInv, NEW h \in Sessions, Ends(h)
    PROVE  /\ Becomes(h, Idle) /\ work[h].at # "idle" /\ UNCHANGED emitted
           /\ EventsInv'
<1>1. /\ Becomes(h, Idle) /\ work[h].at # "idle" /\ UNCHANGED emitted
      /\ lock' \in Handlers \cup {NoHandler}
    BY DEF Ends, Commit, Duplicate, StoreAlone, StoreOrphan, Crash, CommitPatch, Becomes,
        Unlocked, EventsInv, TypeOK
<1>2. h \in Handlers => work[h].event \in DOMAIN emitted
    BY <1>1 DEF EventsInv, WorksOnAnEvent
<1>3. row' \in Row
    BY WrittenType
    DEF Ends, Commit, Duplicate, StoreAlone, StoreOrphan, Crash, CommitPatch, ledger, EventsInv,
        TypeOK
<1>4. /\ stored' \subseteq DOMAIN emitted /\ orphans' \subseteq DOMAIN emitted
      /\ processed' \subseteq stored'
    BY <1>2
    DEF Ends, Commit, Duplicate, StoreAlone, StoreOrphan, Crash, CommitPatch, ledger, EventsInv,
        TypeOK
<1>5. signals' \in Nat /\ faults' \in 0..MaxFaults
    BY PaddleAssumption
    DEF Ends, Commit, Duplicate, StoreAlone, StoreOrphan, Crash, CommitPatch, ledger, EventsInv,
        TypeOK
<1>6. Idle \in Work /\ Idle.at = "idle"
    BY IdleType DEF Idle
<1>7. EventsInv'
    BY <1>1, <1>3, <1>4, <1>5, <1>6, EventsStep
<1> QED
    BY <1>1, <1>7

(* A session that begins.                                                    *)
Opens(h) ==
    \/ h \in Handlers /\ \E e \in DOMAIN emitted : Receive(h, e)
    \/ h \in Admins /\ \E plan \in Plans \cup {NoPlan}, date \in Dates \cup {0} :
                          ReadPatch(h, plan, date)

LEMMA OpenFacts ==
    ASSUME EventsInv, NEW h \in Sessions, Opens(h)
    PROVE  /\ EventsInv' /\ MayOpen(h)
           /\ UNCHANGED <<emitted, row, ledger, lock, faults>>
           /\ \/ /\ h \in Handlers
                 /\ \E e \in DOMAIN emitted : Becomes(h, Received(h, e))
              \/ /\ h \in Admins /\ row.mode # "paddle"
                 /\ \E plan \in Plans \cup {NoPlan}, date \in Dates \cup {0} :
                        Becomes(h, Patched(plan, date))
<1>1. /\ MayOpen(h) /\ UNCHANGED <<emitted, row, ledger, lock, faults>>
      /\ \/ /\ h \in Handlers
            /\ \E e \in DOMAIN emitted : Becomes(h, Received(h, e))
         \/ /\ h \in Admins /\ row.mode # "paddle"
            /\ \E plan \in Plans \cup {NoPlan}, date \in Dates \cup {0} :
                        Becomes(h, Patched(plan, date))
    <2>1. CASE h \in Handlers /\ \E e \in DOMAIN emitted : Receive(h, e)
        BY <2>1 DEF Receive, Becomes, Received
    <2>2. CASE /\ h \in Admins
               /\ \E plan \in Plans \cup {NoPlan}, date \in Dates \cup {0} :
                      ReadPatch(h, plan, date)
        <3>1. PICK plan \in Plans \cup {NoPlan}, date \in Dates \cup {0} :
                  ReadPatch(h, plan, date)
            BY <2>2
        <3>2. Becomes(h, Patched(plan, date))
            BY <3>1 DEF ReadPatch, Becomes, Patched, Dated
        <3> QED
            BY <2>2, <3>1, <3>2 DEF ReadPatch
    <2> QED
        BY <2>1, <2>2 DEF Opens
<1>2. TypeOK /\ (h \in Admins => h \notin Handlers)
    BY PaddleAssumption DEF EventsInv
<1>3. \E w \in Work : /\ Becomes(h, w)
                      /\ w.event \in DOMAIN emitted \/ h \notin Handlers
    BY <1>1, <1>2, OpenedFacts
<1>4. /\ row' \in Row /\ stored' \subseteq DOMAIN emitted /\ orphans' \subseteq DOMAIN emitted
      /\ processed' \subseteq stored' /\ lock' \in Handlers \cup {NoHandler}
      /\ signals' \in Nat /\ faults' \in 0..MaxFaults /\ UNCHANGED emitted
    BY <1>1, <1>2 DEF TypeOK, ledger
<1>5. EventsInv'
    BY <1>3, <1>4, EventsStep
<1> QED
    BY <1>1, <1>5

LEMMA InnerEvents ==
    ASSUME EventsInv, NEW h \in Handlers, Inner(h)
    PROVE  EventsInv'
<1>1. /\ UNCHANGED <<emitted, row, ledger, faults>>
      /\ lock' \in Handlers \cup {NoHandler}
      /\ \E w \in Work : Turn(h, w)
    BY InnerTurn
<1>2. PICK w \in Work : Turn(h, w)
    BY <1>1
<1>3. Becomes(h, w) /\ w.event \in DOMAIN emitted /\ h \in Sessions
    BY <1>2 DEF Turn, EventsInv, WorksOnAnEvent, Sessions
<1>4. /\ row' \in Row /\ stored' \subseteq DOMAIN emitted /\ orphans' \subseteq DOMAIN emitted
      /\ processed' \subseteq stored' /\ signals' \in Nat /\ faults' \in 0..MaxFaults
    BY <1>1 DEF EventsInv, TypeOK, ledger
<1> QED
    BY <1>1, <1>3, <1>4, EventsStep

(* Every step is one of these.                                               *)
LEMMA NextCases ==
    ASSUME Next
    PROVE  \/ Paddle
           \/ \E h \in Sessions : Opens(h) \/ Ends(h)
           \/ \E h \in Handlers : Inner(h)
BY DEF Next, Proceed, Inner, Opens, Ends, Sessions

LEMMA StutterEvents ==
    ASSUME EventsInv, UNCHANGED vars
    PROVE  EventsInv'
BY DEF EventsInv, TypeOK, StatusFollowsType, ActivatedOnce, WorksOnAnEvent, Ev, vars

LEMMA EventsAlways == Spec => []EventsInv
<1>1. Init => EventsInv
    <2>1. Init => TypeOK
        BY IdleType, PaddleAssumption
        DEF Init, TypeOK, Work, NewAgency, Row, Times, BillingStatus
    <2> QED
        BY <2>1 DEF Init, EventsInv, StatusFollowsType, ActivatedOnce, WorksOnAnEvent, Idle,
            Sessions
<1>2. EventsInv /\ [Next]_vars => EventsInv'
    BY NextCases, PaddleEvents, OpenFacts, EndFacts, InnerEvents, StutterEvents
<1> QED
    BY <1>1, <1>2, PTL DEF Spec

(* Every variable keeps its type, whatever the deliveries do; in particular  *)
(* the billing lock knows every status the row takes.                        *)
THEOREM TypeIsKept == Spec => []TypeOK
<1>1. EventsInv => TypeOK
    BY DEF EventsInv
<1> QED
    BY <1>1, EventsAlways, PTL

-----------------------------------------------------------------------------
(* A delivery converts on an activation, of a customer nobody else has.      *)
LEMMA ConvertsStep ==
    ASSUME TypeOK, NEW h \in Sessions, NEW w \in Work, Becomes(h, w),
           UNCHANGED <<emitted, row>>, ConvertsInv,
           h \in Handlers => (w.new.converted # w.seen.converted =>
               /\ w.at # "idle" /\ emitted[w.event].type = "activated"
               /\ w.new.customer = emitted[w.event].sub),
           w.seen.customer \notin Taken,
           h \in Admins => w.new.customer = w.seen.customer
    PROVE  ConvertsInv'
<1>1. /\ work'[h] = w /\ \A g \in Sessions : g # h => work'[g] = work[g]
    BY WorkTyped
<1>2. ConvertsOnActivation'
    BY <1>1 DEF ConvertsInv, ConvertsOnActivation, Ev, Sessions
<1>3. CustomersAreFree'
    BY <1>1 DEF ConvertsInv, CustomersAreFree, Sessions
<1> QED
    BY <1>2, <1>3 DEF ConvertsInv

LEMMA InnerConverts ==
    ASSUME EventsInv, ConvertsInv, NEW h \in Handlers, Inner(h)
    PROVE  ConvertsInv'
<1>1. /\ UNCHANGED <<emitted, row, ledger, faults>>
      /\ \E w \in Work : Turn(h, w)
    BY InnerTurn
<1>2. PICK w \in Work : Turn(h, w)
    BY <1>1
<1>3. /\ Becomes(h, w) /\ w.event = work[h].event /\ w.seen = work[h].seen
      /\ w.at # "idle" /\ h \in Sessions /\ TypeOK
    BY <1>2 DEF Turn, EventsInv, Sessions
<1>4. work[h].new.converted # work[h].seen.converted =>
          Ev(h).type = "activated" /\ work[h].new.customer = Ev(h).sub
    BY DEF ConvertsInv, ConvertsOnActivation
<1>5. w.new.converted # w.seen.converted =>
          Ev(h).type = "activated" /\ w.new.customer = Ev(h).sub
    BY <1>2, <1>3, <1>4
    DEF Turn, KeepsManual, FillsLink, Adopts, Waits, Activates, Updates
<1>6. w.seen.customer \notin Taken
    BY <1>3 DEF ConvertsInv, CustomersAreFree
<1>7. h \notin Admins
    BY PaddleAssumption
<1> QED
    BY <1>1, <1>3, <1>5, <1>6, <1>7, ConvertsStep DEF Ev

LEMMA OpenConverts ==
    ASSUME EventsInv, ConvertsInv, NEW h \in Sessions, Opens(h)
    PROVE  ConvertsInv'
<1>1. TypeOK /\ row.customer \notin Taken
    BY DEF EventsInv, ConvertsInv, CustomersAreFree
<1>2. UNCHANGED <<emitted, row>>
    BY OpenFacts
<1>3. CASE h \in Handlers
    <2>1. h \notin Admins
        BY <1>3, PaddleAssumption
    <2>2. PICK e \in DOMAIN emitted : Becomes(h, Received(h, e))
        BY <2>1, OpenFacts
    <2>3. PICK w \in Work : w = Received(h, e)
        BY <1>1, <1>3, OpenedFacts
    <2>4. w.seen = row /\ w.new = row
        BY <1>1, <1>3, <2>3, OpenedFacts
    <2>5. Becomes(h, w)
        BY <2>2, <2>3
    <2> QED
        BY <1>1, <1>2, <2>1, <2>4, <2>5, ConvertsStep
<1>4. CASE h \in Admins
    <2>1. h \notin Handlers
        BY <1>4, PaddleAssumption
    <2>2. PICK plan \in Plans \cup {NoPlan}, date \in Dates \cup {0} :
              Becomes(h, Patched(plan, date))
        BY <2>1, OpenFacts
    <2>3. PICK w \in Work : w = Patched(plan, date)
        BY <1>1, OpenedFacts
    <2>4. w.seen = row
        BY <1>1, <2>3, OpenedFacts
    <2>5. w.new.customer = row.customer
        <3>1. "customer" \in DOMAIN row \ {"plan", "converted"}
            BY <1>1 DEF TypeOK, Row
        <3> QED
            BY <1>1, <2>3, <3>1, OpenedFacts
    <2>6. Becomes(h, w)
        BY <2>2, <2>3
    <2> QED
        BY <1>1, <1>2, <2>1, <2>4, <2>5, <2>6, ConvertsStep
<1> QED
    BY <1>3, <1>4 DEF Sessions

LEMMA EndConverts ==
    ASSUME EventsInv, ConvertsInv, NEW h \in Sessions, Ends(h)
    PROVE  ConvertsInv'
<1>1. TypeOK /\ Becomes(h, Idle) /\ UNCHANGED emitted
    BY EndFacts DEF EventsInv
<1>2. /\ work'[h] = Idle /\ \A g \in Sessions : g # h => work'[g] = work[g]
    BY <1>1, IdleType, WorkTyped
<1>3. ConvertsOnActivation'
    BY <1>1, <1>2 DEF ConvertsInv, ConvertsOnActivation, Ev, Sessions, Idle
<1>4. CustomersAreFree'
    <2>1. row'.customer \notin Taken
        <3>1. UNCHANGED row \/ Commit(h) \/ (h \in Admins /\ CommitPatch(h))
            BY DEF Ends, Duplicate, StoreAlone, StoreOrphan, Crash, ledger
        <3>2. /\ row \in Row
              /\ "customer" \in DOMAIN row
            BY <1>1 DEF TypeOK, Row
        <3>3. /\ Written(h).customer = IF work[h].new.customer # work[h].seen.customer
                                       THEN work[h].new.customer ELSE row.customer
              /\ CustomerTaken(h) <=> /\ work[h].new.customer # work[h].seen.customer
                                     /\ work[h].new.customer \in Taken
            BY <1>1, <3>2, WrittenType DEF CustomerTaken, Dirty
        <3>4. row.customer \notin Taken
            BY DEF ConvertsInv, CustomersAreFree
        <3>5. CASE Commit(h)
            BY <3>3, <3>4, <3>5 DEF Commit
        <3>6. CASE h \in Admins /\ CommitPatch(h)
            BY <3>3, <3>4, <3>6 DEF CommitPatch, ConvertsInv, CustomersAreFree
        <3> QED
            BY <3>1, <3>4, <3>5, <3>6
    <2>2. Idle.seen.customer \notin Taken /\ Idle.new.customer = Idle.seen.customer
        BY PaddleAssumption DEF Idle, NewAgency
    <2> QED
        BY <1>2, <2>1, <2>2 DEF ConvertsInv, CustomersAreFree, Sessions
<1> QED
    BY <1>3, <1>4 DEF ConvertsInv

LEMMA ConvertsAlways == Spec => []ConvertsInv
<1>1. Init => ConvertsInv
    BY PaddleAssumption
    DEF Init, ConvertsInv, ConvertsOnActivation, CustomersAreFree, Idle, NewAgency, Sessions
<1>2. ASSUME EventsInv, ConvertsInv, Paddle PROVE ConvertsInv'
    <2>1. Extends
        BY <1>2, PaddleEvents
    <2>2. ConvertsOnActivation'
        BY <1>2, <2>1 DEF EventsInv, WorksOnAnEvent, ConvertsInv, ConvertsOnActivation, Ev, Extends
    <2> QED
        BY <1>2, <2>1, <2>2 DEF ConvertsInv, CustomersAreFree, Extends
<1>3. ASSUME ConvertsInv, UNCHANGED vars PROVE ConvertsInv'
    BY <1>3 DEF ConvertsInv, ConvertsOnActivation, CustomersAreFree, Ev, vars
<1>4. EventsInv /\ ConvertsInv /\ [Next]_vars => ConvertsInv'
    BY <1>2, <1>3, NextCases, OpenConverts, InnerConverts, EndConverts
<1> QED
    BY <1>1, <1>4, EventsAlways, PTL DEF Spec

(* What a commit that converts commits: an activation of a customer of ours. *)
LEMMA CommitsActivation ==
    ASSUME EventsInv, ConvertsInv, NEW h \in Handlers, Commit(h),
           work[h].new.converted # work[h].seen.converted
    PROVE  /\ work[h].event \in DOMAIN emitted
           /\ Ev(h).type = "activated" /\ Ev(h).sub \notin Taken
<1>1. TypeOK /\ ~CustomerTaken(h) /\ work[h].at = "commit" /\ h \in Sessions
    BY DEF Commit, EventsInv, Sessions
<1>2. /\ Ev(h).type = "activated" /\ work[h].new.customer = Ev(h).sub
      /\ work[h].event \in DOMAIN emitted
    BY <1>1 DEF ConvertsInv, ConvertsOnActivation, EventsInv, WorksOnAnEvent
<1>3. row \in Row /\ "customer" \in DOMAIN row
    BY <1>1 DEF TypeOK, Row
<1> QED
    BY <1>1, <1>2, <1>3 DEF CustomerTaken, Dirty, ConvertsInv, CustomersAreFree

-----------------------------------------------------------------------------
(* The webhooks announce the conversion once.                                *)

(* Two activations of subscriptions that no other agency pays are one event. *)
OneSubscription == \A s, t \in Subs \ Taken : s = t

LEMMA OneActivation ==
    ASSUME EventsInv, OneSubscription, NEW d \in DOMAIN emitted, NEW e \in DOMAIN emitted,
           emitted[d].type = "activated", emitted[d].sub \notin Taken,
           emitted[e].type = "activated", emitted[e].sub \notin Taken
    PROVE  d = e
<1>1. emitted[d] \in Event /\ emitted[e] \in Event
    BY LenProperties DEF EventsInv, TypeOK
<1>2. emitted[d].sub = emitted[e].sub
    BY <1>1 DEF OneSubscription, Event
<1> QED
    BY <1>2 DEF EventsInv, ActivatedOnce

LEMMA EndSignal ==
    ASSUME EventsInv, ConvertsInv, SignalsOnFile, OneSubscription,
           NEW h \in Sessions, Ends(h)
    PROVE  SignalsOnFile'
<1>1. TypeOK /\ UNCHANGED emitted /\ stored \subseteq DOMAIN emitted
    BY EndFacts DEF EventsInv, TypeOK
<1>2. stored \subseteq stored' /\ (signals' = signals \/ (h \in Handlers /\ Commit(h)))
    BY DEF Ends, Commit, Duplicate, StoreAlone, StoreOrphan, Crash, CommitPatch, ledger
<1>3. CASE signals' = signals
    BY <1>1, <1>2, <1>3 DEF SignalsOnFile
<1>4. CASE h \in Handlers /\ Commit(h) /\ signals' # signals
    <2> DEFINE e == work[h].event
    <2>1. /\ work[h].new.converted # work[h].seen.converted
          /\ signals' = signals + 1 /\ e \notin stored /\ stored' = stored \cup {e}
        BY <1>1, <1>4 DEF Commit, Dirty, TypeOK
    <2>2. e \in DOMAIN emitted /\ emitted[e].type = "activated" /\ emitted[e].sub \notin Taken
        BY <1>4, <2>1, CommitsActivation DEF Ev
    <2>3. signals = 0
        BY <1>1, <2>1, <2>2, OneActivation DEF SignalsOnFile
    <2> QED
        BY <1>1, <2>1, <2>2, <2>3 DEF SignalsOnFile
<1> QED
    BY <1>2, <1>3, <1>4

(* The webhooks emit agency.converted at most once, however many deliveries, *)
(* of whatever events, overlap, are repeated or die, for an agency that has  *)
(* one subscription of its own.                                              *)
THEOREM ConvertedIsAnnouncedOnce ==
    ASSUME OneSubscription
    PROVE  Spec => []SignalOnce
<1>1. Init => SignalsOnFile
    BY DEF Init, SignalsOnFile
<1>2. ASSUME EventsInv, Paddle \/ UNCHANGED vars, SignalsOnFile PROVE SignalsOnFile'
    <2>1. /\ UNCHANGED <<stored, signals>> /\ stored \subseteq DOMAIN emitted
          /\ \A e \in stored : emitted'[e] = emitted[e]
        BY <1>2, PaddleEvents DEF EventsInv, TypeOK, Extends, vars, ledger
    <2> QED
        BY <1>2, <2>1 DEF SignalsOnFile
<1>3. ASSUME EventsInv, SignalsOnFile, NEW h \in Sessions, Opens(h) PROVE SignalsOnFile'
    BY <1>3, OpenFacts DEF SignalsOnFile, ledger
<1>4. ASSUME EventsInv, SignalsOnFile, NEW h \in Handlers, Inner(h) PROVE SignalsOnFile'
    BY <1>4, InnerTurn DEF SignalsOnFile, ledger
<1>5. EventsInv /\ ConvertsInv /\ SignalsOnFile /\ [Next]_vars => SignalsOnFile'
    BY <1>2, <1>3, <1>4, EndSignal, NextCases
<1>6. SignalsOnFile => SignalOnce
    BY DEF SignalsOnFile, SignalOnce
<1> QED
    BY <1>1, <1>5, <1>6, EventsAlways, ConvertsAlways, PTL DEF Spec

-----------------------------------------------------------------------------
(* What a session is about to write keeps of what it has read.               *)
Protected(r) == r.mode = "manual" /\ r.converted # 0

KeepsSeen(h, w) ==
    /\ w.seen.converted # 0 =>
           \/ w.new.converted = w.seen.converted
           \/ h \in Admins /\ w.event # 0 /\ w.new.converted = w.event
    /\ w.new.mode \in {w.seen.mode, "paddle"}
    /\ h \in Handlers /\ w.new.converted # w.seen.converted => w.new.mode = "paddle"
    /\ Protected(w.seen) => \A c \in DOMAIN row \ {"plan", "converted"} : w.new[c] = w.seen[c]
    /\ h \in Handlers /\ Protected(w.seen) => w.new = w.seen
    /\ w.at \in {"flush", "status"} => NotProtected(w.seen)

SeenInv == \A h \in Sessions : KeepsSeen(h, work[h])

LEMMA IdleKeeps ==
    ASSUME NEW h
    PROVE  KeepsSeen(h, Idle)
BY DEF KeepsSeen, Idle, Protected

(* A session that goes on leaves the row, and keeps what it promised. *)
LEMMA InnerKeeps ==
    ASSUME EventsInv, NEW h \in Handlers, KeepsSeen(h, work[h]), NEW w \in Work, Turn(h, w)
    PROVE  KeepsSeen(h, w)
<1>1. PICK v \in Work : v = work[h]
    BY DEF EventsInv, TypeOK, Work, Sessions
<1>2. w.seen = v.seen /\ KeepsSeen(h, v) /\ h \notin Admins
    BY <1>1, PaddleAssumption DEF Turn
<1>3. CASE KeepsManual(h, w)
    BY <1>3 DEF KeepsManual, KeepsSeen
<1>4. CASE FillsLink(h, w)
    BY <1>4 DEF FillsLink, KeepsSeen, Protected, NotProtected
<1>5. CASE Adopts(h, w)
    BY <1>5 DEF Adopts, KeepsSeen, Protected, NotProtected
<1>6. CASE Waits(h, w)
    BY <1>1, <1>2, <1>6 DEF Waits, KeepsSeen
<1>7. CASE Activates(h, w)
    BY <1>1, <1>2, <1>7 DEF Activates, KeepsSeen, Protected, NotProtected
<1>8. CASE Updates(h, w)
    BY <1>8 DEF Updates, KeepsSeen, Protected, NotProtected
<1> QED
    BY <1>3, <1>4, <1>5, <1>6, <1>7, <1>8 DEF Turn

(* A session begins from the row as it is. *)
LEMMA OpenReads ==
    ASSUME EventsInv, NEW h \in Sessions, Opens(h)
    PROVE  \E w \in Work : /\ Becomes(h, w) /\ w.seen = row /\ KeepsSeen(h, w)
                           /\ SameStatus(w.new, row) /\ w.at \notin {"flush", "status"}
                           /\ (w.at = "commit" => h \notin Handlers)
<1>1. TypeOK /\ row \in Row /\ Len(emitted) + 1 \in Times
    BY LenProperties, PaddleAssumption DEF EventsInv, TypeOK, Times
<1>2. CASE h \in Handlers
    <2>1. h \notin Admins
        BY <1>2, PaddleAssumption
    <2>2. PICK e \in DOMAIN emitted : Becomes(h, Received(h, e))
        BY <2>1, OpenFacts
    <2>3. PICK w \in Work : w = Received(h, e)
        BY <1>1, <1>2, OpenedFacts
    <2>4. w.seen = row /\ w.new = row /\ w.at \in {"dispatch", "orphan"}
        BY <1>1, <1>2, <2>3, OpenedFacts
    <2>5. KeepsSeen(h, w)
        BY <2>4 DEF KeepsSeen
    <2> QED
        BY <2>2, <2>3, <2>4, <2>5 DEF SameStatus
<1>3. CASE h \in Admins
    <2>1. h \notin Handlers
        BY <1>3, PaddleAssumption
    <2>2. PICK plan \in Plans \cup {NoPlan}, date \in Dates \cup {0} :
              Becomes(h, Patched(plan, date))
        BY <2>1, OpenFacts
    <2>3. PICK w \in Work : w = Patched(plan, date)
        BY <1>1, OpenedFacts
    <2>4. /\ w.seen = row /\ w.at = "commit" /\ w.event = date
          /\ SameStatus(w.new, row)
          /\ \A c \in DOMAIN row \ {"plan", "converted"} : w.new[c] = row[c]
          /\ row.converted # 0 => w.new.converted = IF date = 0 THEN row.converted ELSE date
        BY <1>1, <2>3, OpenedFacts
    <2>5. w.new.mode = row.mode
        BY <1>1, <2>4 DEF Row
    <2>7. KeepsSeen(h, w)
        BY <1>3, <2>1, <2>4, <2>5 DEF KeepsSeen, Protected
    <2> QED
        BY <2>1, <2>2, <2>3, <2>4, <2>5, <2>7
<1> QED
    BY <1>2, <1>3 DEF Sessions

LEMMA SeenStep ==
    ASSUME TypeOK, TypeOK', SeenInv, NEW h \in Sessions, NEW w \in Work, Becomes(h, w),
           KeepsSeen(h, w)
    PROVE  SeenInv'
<1>1. work'[h] = w /\ \A g \in Sessions : g # h => work'[g] = work[g]
    BY WorkTyped
<1>2. DOMAIN row' = DOMAIN row
    BY DEF TypeOK, Row
<1>3. \A g \in Sessions : KeepsSeen(g, work'[g])
    BY <1>1 DEF SeenInv
<1> QED
    BY <1>2, <1>3 DEF SeenInv, KeepsSeen

LEMMA SeenAlways == Spec => []SeenInv
<1>1. Init => SeenInv
    <2> SUFFICES ASSUME Init PROVE SeenInv
        OBVIOUS
    <2>1. work = [h \in Sessions |-> Idle]
        BY DEF Init
    <2>2. \A h \in Sessions : work[h] = Idle
        BY <2>1
    <2> QED
        BY <2>2, IdleKeeps DEF SeenInv
<1>2. ASSUME EventsInv, EventsInv', SeenInv, Next PROVE SeenInv'
    <2>1. TypeOK /\ TypeOK'
        BY <1>2 DEF EventsInv
    <2>2. CASE Paddle
        BY <1>2, <2>2, PaddleEvents DEF Extends, SeenInv, KeepsSeen
    <2>3. ASSUME NEW h \in Sessions, Opens(h) PROVE SeenInv'
        BY <1>2, <2>1, <2>3, OpenReads, SeenStep
    <2>4. ASSUME NEW h \in Handlers, Inner(h) PROVE SeenInv'
        <3>1. PICK w \in Work : Turn(h, w)
            BY <1>2, <2>4, InnerTurn
        <3>2. h \in Sessions /\ Becomes(h, w) /\ KeepsSeen(h, w)
            BY <1>2, <3>1, InnerKeeps DEF SeenInv, Turn, Sessions
        <3> QED
            BY <1>2, <2>1, <3>2, SeenStep
    <2>5. ASSUME NEW h \in Sessions, Ends(h) PROVE SeenInv'
        BY <1>2, <2>1, <2>5, EndFacts, IdleType, IdleKeeps, SeenStep
    <2> QED
        BY <1>2, <2>2, <2>3, <2>4, <2>5, NextCases
<1>3. SeenInv /\ UNCHANGED vars => SeenInv'
    BY DEF SeenInv, KeepsSeen, vars
<1> QED
    BY <1>1, <1>2, <1>3, EventsAlways, PTL DEF Spec

-----------------------------------------------------------------------------
(* A conversion is kept, and announced once, unless two sessions that may    *)
(* convert overlap: PATCHes, and deliveries of two activations, that have    *)
(* read an agency which is not converted.                                    *)
MayConvert(h) ==
    /\ work[h].at \notin {"idle", "orphan"} /\ work[h].seen.converted = 0
    /\ h \in Handlers => Ev(h).type = "activated" /\ Ev(h).sub \notin Taken

ConversionsApart ==
    \A g, h \in Sessions :
        MayConvert(g) /\ MayConvert(h) =>
            g = h \/ (g \in Handlers /\ h \in Handlers /\ work[g].event = work[h].event)

(* Once the agency is converted, who could convert it works on an activation *)
(* that is on file, and will find it a duplicate.                            *)
ConvertedInv ==
    /\ row.converted # 0 =>
           \A h \in Sessions : MayConvert(h) => h \in Handlers /\ work[h].event \in stored
    /\ \A h \in Sessions : work[h].seen.converted # 0 => row.converted # 0
    /\ signals \in {0, 1} /\ (signals = 1 => row.converted # 0)

LEMMA CommitMayConvert ==
    ASSUME EventsInv, ConvertsInv, SeenInv, NEW h \in Sessions,
           (h \in Handlers /\ Commit(h)) \/ (h \in Admins /\ CommitPatch(h)),
           work[h].new.converted # work[h].seen.converted,
           work[h].seen.converted = 0 \/ h \in Handlers
    PROVE  MayConvert(h)
<1>1. work[h].seen.converted = 0
    BY PaddleAssumption DEF SeenInv, KeepsSeen
<1>2. work[h].at \notin {"idle", "orphan"}
    BY DEF Commit, CommitPatch
<1>3. h \in Handlers => Ev(h).type = "activated" /\ Ev(h).sub \notin Taken
    <2>1. \A a \in Admins : a \notin Handlers
        BY PaddleAssumption
    <2> QED
        BY <2>1, CommitsActivation
<1> QED
    BY <1>1, <1>2, <1>3 DEF MayConvert

(* How an ending session leaves a conversion. *)
LEMMA EndOfConversion ==
    ASSUME EventsInv, ConvertsInv, SeenInv, ConvertedInv, NEW h \in Sessions, Ends(h)
    PROVE  /\ stored \subseteq stored'
           /\ \/ row'.converted = row.converted /\ signals' = signals
              \/ /\ row.converted = 0 /\ MayConvert(h) /\ row'.converted # 0
                 /\ signals' \in {signals, signals + 1}
                 /\ h \in Handlers => work[h].event \in stored'
              \/ /\ row.converted # 0 /\ h \in Admins /\ CommitPatch(h)
                 /\ row'.converted # 0 /\ row'.converted = work[h].event
                 /\ signals' = signals
<1>1. TypeOK /\ \A a \in Admins : a \notin Handlers
    BY PaddleAssumption DEF EventsInv
<1>2. stored \subseteq stored'
    BY DEF Ends, Commit, Duplicate, StoreAlone, StoreOrphan, Crash, CommitPatch, ledger
<1>3. Written(h).converted = IF work[h].new.converted # work[h].seen.converted
                             THEN work[h].new.converted ELSE row.converted
    <2>1. "converted" \in DOMAIN row
        BY <1>1 DEF TypeOK, Row
    <2> QED
        BY <1>1, <2>1, WrittenType
<1>4. "converted" \in Dirty(h) <=> work[h].new.converted # work[h].seen.converted
    BY <1>1 DEF TypeOK, Row, Dirty
<1>5. CASE /\ (h \in Handlers /\ Commit(h)) \/ (h \in Admins /\ CommitPatch(h))
           /\ work[h].new.converted # work[h].seen.converted
           /\ work[h].seen.converted = 0 \/ h \in Handlers
    <2>1. MayConvert(h)
        BY <1>5, CommitMayConvert
    <2>2. row.converted = 0
        BY <1>1, <1>5, <2>1 DEF ConvertedInv, Commit
    <2>3. row' = Written(h) /\ signals' \in {signals, signals + 1}
          /\ (h \in Handlers => work[h].event \in stored')
        BY <1>1, <1>5 DEF Commit, CommitPatch, ledger, ConvertedInv
    <2>4. work[h].seen.converted = 0
        BY <2>1 DEF MayConvert
    <2>5. row'.converted # 0
        BY <1>3, <1>5, <2>3, <2>4
    <2> QED
        BY <1>2, <2>1, <2>2, <2>3, <2>5
<1>6. CASE /\ (h \in Handlers /\ Commit(h)) \/ (h \in Admins /\ CommitPatch(h))
           /\ work[h].new.converted = work[h].seen.converted
    <2>1. row' = Written(h)
        BY <1>6 DEF Commit, CommitPatch
    <2>2. signals' = signals
        BY <1>4, <1>6 DEF Commit, CommitPatch, ledger, ConvertedInv
    <2> QED
        BY <1>2, <1>3, <1>6, <2>1, <2>2
<1>7. CASE h \in Handlers /\ (Duplicate(h) \/ StoreAlone(h) \/ StoreOrphan(h) \/ Crash(h))
    <2>1. UNCHANGED <<row, signals>>
        BY <1>7 DEF Duplicate, StoreAlone, StoreOrphan, Crash, ledger
    <2> QED
        BY <1>2, <2>1
<1>8. CASE /\ h \in Admins /\ CommitPatch(h) /\ work[h].seen.converted # 0
           /\ work[h].new.converted # work[h].seen.converted
    <2>1. work[h].event # 0 /\ work[h].new.converted = work[h].event
        BY <1>8 DEF SeenInv, KeepsSeen
    <2>2. row' = Written(h) /\ signals' = signals
        BY <1>8 DEF CommitPatch, ledger
    <2> QED
        BY <1>2, <1>3, <1>8, <2>1, <2>2 DEF ConvertedInv
<1> QED
    BY <1>5, <1>6, <1>7, <1>8 DEF Ends

LEMMA EndConverted ==
    ASSUME EventsInv, ConvertsInv, SeenInv, ConversionsApart, ConvertedInv,
           NEW h \in Sessions, Ends(h)
    PROVE  ConvertedInv'
<1>1. TypeOK /\ Becomes(h, Idle) /\ Idle \in Work /\ Idle.at = "idle" /\ UNCHANGED emitted
    BY EndFacts, IdleType DEF EventsInv, Idle
<1>2. work'[h] = Idle /\ (\A g \in Sessions : g # h => work'[g] = work[g])
    BY <1>1, WorkTyped
<1>3. \A g \in Sessions : MayConvert(g)' => g # h /\ MayConvert(g) /\ work'[g] = work[g]
    BY <1>1, <1>2 DEF MayConvert, Ev
<1>4. stored \subseteq stored'
    BY EndOfConversion
<1>9. ASSUME row'.converted # 0 \/ row'.converted = row.converted, NEW g \in Sessions,
             work'[g].seen.converted # 0
      PROVE  row'.converted # 0
    <2>1. g # h /\ work'[g] = work[g]
        BY <1>2, <1>9 DEF Idle, NewAgency
    <2> QED
        BY <1>9, <2>1 DEF ConvertedInv
<1>5. CASE row'.converted = row.converted /\ signals' = signals
    BY <1>3, <1>4, <1>5, <1>9 DEF ConvertedInv
<1>6. CASE /\ row.converted = 0 /\ MayConvert(h) /\ row'.converted # 0
           /\ signals' \in {signals, signals + 1}
           /\ h \in Handlers => work[h].event \in stored'
    <2>1. ASSUME NEW g \in Sessions, MayConvert(g)'
          PROVE  g \in Handlers /\ work'[g].event \in stored'
        <3>1. g # h /\ MayConvert(g) /\ work'[g] = work[g]
            BY <1>3, <2>1
        <3>2. g \in Handlers /\ h \in Handlers /\ work[g].event = work[h].event
            BY <1>6, <3>1 DEF ConversionsApart
        <3> QED
            BY <1>6, <3>1, <3>2
    <2>2. signals' \in {0, 1}
        BY <1>6 DEF ConvertedInv
    <2> QED
        BY <1>6, <1>9, <2>1, <2>2 DEF ConvertedInv
<1>7. CASE /\ row.converted # 0 /\ row'.converted # 0 /\ signals' = signals
    BY <1>3, <1>4, <1>7, <1>9 DEF ConvertedInv
<1> QED
    BY <1>5, <1>6, <1>7, EndOfConversion

LEMMA ConvertedStep ==
    ASSUME TypeOK, ConvertedInv, NEW h \in Sessions, NEW w \in Work, Becomes(h, w),
           UNCHANGED <<row, emitted, stored, signals>>,
           \/ w.seen = row
           \/ /\ work[h].at \notin {"idle", "orphan"} /\ w.event = work[h].event
              /\ w.seen = work[h].seen
    PROVE  ConvertedInv'
<1>1. work'[h] = w /\ \A g \in Sessions : g # h => work'[g] = work[g]
    BY WorkTyped
<1>2. ASSUME row.converted # 0, NEW g \in Sessions, MayConvert(g)'
      PROVE  MayConvert(g) /\ work'[g].event = work[g].event
    <2>1. CASE g # h
        BY <1>1, <1>2, <2>1 DEF MayConvert, Ev
    <2>2. CASE g = h
        BY <1>1, <1>2, <2>2 DEF MayConvert, Ev
    <2> QED
        BY <2>1, <2>2
<1>3. \A g \in Sessions : work'[g].seen.converted # 0 => row.converted # 0
    BY <1>1 DEF ConvertedInv
<1> QED
    BY <1>2, <1>3 DEF ConvertedInv

LEMMA ConvertedAlways ==
    Spec /\ []ConversionsApart => [](EventsInv /\ ConvertsInv /\ SeenInv /\ ConvertedInv)
<1>1. Init => ConvertedInv
    BY DEF Init, ConvertedInv, NewAgency, Idle
<1>2. ASSUME EventsInv, ConvertsInv, SeenInv, ConversionsApart, ConvertedInv, [Next]_vars
      PROVE  ConvertedInv'
    <2>1. TypeOK
        BY <1>2 DEF EventsInv
    <2>2. CASE Paddle \/ UNCHANGED vars
        <3>1. UNCHANGED <<row, work, stored, signals>>
              /\ \A e \in DOMAIN emitted : emitted'[e] = emitted[e]
            BY <1>2, <2>2, PaddleEvents DEF Extends, vars, ledger
        <3>2. \A h \in Sessions : MayConvert(h)' => MayConvert(h)
            BY <1>2, <3>1 DEF MayConvert, Ev, EventsInv, WorksOnAnEvent
        <3> QED
            BY <1>2, <3>1, <3>2 DEF ConvertedInv
    <2>3. ASSUME NEW h \in Sessions, Opens(h) PROVE ConvertedInv'
        <3>1. PICK w \in Work : Becomes(h, w) /\ w.seen = row
            BY <1>2, <2>3, OpenReads
        <3>2. UNCHANGED <<row, emitted, stored, signals>>
            BY <1>2, <2>3, OpenFacts DEF ledger
        <3> QED
            BY <1>2, <2>1, <3>1, <3>2, ConvertedStep
    <2>4. ASSUME NEW h \in Handlers, Inner(h) PROVE ConvertedInv'
        <3>1. UNCHANGED <<row, emitted, stored, signals>> /\ \E w \in Work : Turn(h, w)
            BY <1>2, <2>4, InnerTurn DEF ledger
        <3>2. PICK w \in Work : Turn(h, w)
            BY <3>1
        <3>3. /\ h \in Sessions /\ Becomes(h, w)
              /\ w.event = work[h].event /\ w.seen = work[h].seen
            BY <3>2 DEF Turn, Sessions
        <3>4. work[h].at \notin {"idle", "orphan"}
            BY <2>4, InnerAt
        <3> QED
            BY <1>2, <2>1, <3>1, <3>3, <3>4, ConvertedStep
    <2>5. ASSUME NEW h \in Sessions, Ends(h) PROVE ConvertedInv'
        BY <1>2, <2>5, EndConverted
    <2> QED
        BY <1>2, <2>2, <2>3, <2>4, <2>5, NextCases
<1> QED
    BY <1>1, <1>2, EventsAlways, ConvertsAlways, SeenAlways, PTL DEF Spec

(* For any number of subscriptions, deliveries and PATCHes, as long as no    *)
(* two sessions that have read an unconverted agency and may convert it      *)
(* overlap, copies of one delivery apart: the conversion date, once posed,   *)
(* moves only to the date that a PATCH gives, whatever the PATCHes overlap   *)
(* with once the agency is converted.                                        *)
THEOREM ConversionIsKept == Spec /\ []ConversionsApart => DateMovesByHandOnly
<1>1. EventsInv /\ ConvertsInv /\ SeenInv /\ ConvertedInv /\ [Next]_vars
          => [row.converted # 0 /\ row'.converted # row.converted
                 => \E a \in Admins : CommitPatch(a) /\ row'.converted = work[a].event]_vars
    <2> SUFFICES ASSUME EventsInv, ConvertsInv, SeenInv, ConvertedInv, Next,
                        row.converted # 0, row'.converted # row.converted
                 PROVE  \E a \in Admins : CommitPatch(a) /\ row'.converted = work[a].event
        OBVIOUS
    <2>1. UNCHANGED row \/ \E h \in Sessions : Ends(h)
        BY NextCases, PaddleEvents, OpenFacts, InnerTurn DEF Extends
    <2> QED
        BY <2>1, EndOfConversion
<1> QED
    BY <1>1, ConvertedAlways, PTL DEF Spec, DateMovesByHandOnly

(* Then the webhooks emit agency.converted at most once in the agency's      *)
(* life, over all the subscriptions it has had, whatever PATCHes converted   *)
(* it meanwhile or moved its date (a PATCH with a plan emits its own signal, *)
(* which is not counted).                                                    *)
THEOREM WebhooksAnnounceOnceInALife == Spec /\ []ConversionsApart => []SignalOnce
<1>1. ConvertedInv => SignalOnce
    BY DEF ConvertedInv, SignalOnce
<1> QED
    BY <1>1, ConvertedAlways, PTL

(* No session runs while a superadmin's PATCH does.                          *)
PatchAlone ==
    \A a \in Admins, h \in Sessions :
        (work[a].at # "idle" /\ work[h].at # "idle") => h = a

LEMMA PatchAloneIsEnough ==
    ASSUME EventsInv, OneSubscription, PatchAlone
    PROVE  ConversionsApart
<1> SUFFICES ASSUME NEW g \in Sessions, NEW h \in Sessions,
                    MayConvert(g), MayConvert(h), g # h
             PROVE  g \in Handlers /\ h \in Handlers /\ work[g].event = work[h].event
    BY DEF ConversionsApart
<1>1. work[g].at # "idle" /\ work[h].at # "idle"
    BY DEF MayConvert
<1>2. g \in Handlers /\ h \in Handlers
    BY <1>1 DEF PatchAlone, Sessions
<1>3. work[g].event \in DOMAIN emitted /\ work[h].event \in DOMAIN emitted
    BY <1>1, <1>2 DEF EventsInv, WorksOnAnEvent
<1> QED
    BY <1>2, <1>3, OneActivation DEF MayConvert, Ev

(* For an agency with one subscription of its own it is enough that no       *)
(* session runs while a superadmin's PATCH does: all deliveries may overlap, *)
(* be repeated or die, and none of them moves the conversion date.           *)
THEOREM ConversionIsKeptThroughOverlap ==
    ASSUME OneSubscription
    PROVE  Spec /\ []PatchAlone => DateMovesByHandOnly
<1>1. EventsInv /\ PatchAlone => ConversionsApart
    BY PatchAloneIsEnough
<1> QED
    BY <1>1, EventsAlways, ConversionIsKept, PTL

-----------------------------------------------------------------------------
(* A session never finds the row less converted, or less Paddle's, than it   *)
(* read it, while no PATCH has company.                                      *)
ReadsInv ==
    /\ \A h \in Open : work[h].seen.mode = "paddle" => row.mode = "paddle"
    /\ Protected(row) => \A h \in Open : Protected(work[h].seen)

LEMMA OpenAfter ==
    ASSUME TypeOK, NEW h \in Sessions, NEW w \in Work, Becomes(h, w)
    PROVE  Open' = IF w.at = "idle" THEN Open \ {h} ELSE Open \cup {h}
<1>1. /\ work'[h] = w /\ \A g \in Sessions : g # h => work'[g] = work[g]
    BY WorkTyped
<1> QED
    BY <1>1 DEF Open

LEMMA ReadsStep ==
    ASSUME TypeOK, ReadsInv, NEW h \in Sessions, NEW w \in Work, Becomes(h, w), row' = row,
           w.at = "idle" \/ w.seen = row \/ (h \in Open /\ w.seen = work[h].seen)
    PROVE  ReadsInv'
<1>1. work'[h] = w /\ \A g \in Sessions : g # h => work'[g] = work[g]
    BY WorkTyped
<1>2. Open' = IF w.at = "idle" THEN Open \ {h} ELSE Open \cup {h}
    BY OpenAfter
<1>3. \A g \in Open' : \/ work'[g].seen = row
                       \/ g \in Open /\ work'[g].seen = work[g].seen
    BY <1>1, <1>2 DEF Open
<1>4. /\ \A g \in Open' : work'[g].seen.mode = "paddle" => row.mode = "paddle"
      /\ Protected(row) => \A g \in Open' : Protected(work'[g].seen)
    BY <1>3 DEF ReadsInv
<1> QED
    BY <1>4 DEF ReadsInv, Protected

(* What an ending session leaves of the row. *)
LEMMA EndRow ==
    ASSUME EventsInv, SeenInv, ReadsInv, NEW h \in Sessions, Ends(h)
    PROVE  /\ row' = row \/ (row' = Written(h) /\ (Commit(h) \/ h \in Admins))
           /\ row.mode = "paddle" => row'.mode = "paddle"
           /\ Protected(row) =>
                 \/ row' = row
                 \/ /\ h \in Admins /\ CommitPatch(h)
                    /\ \A c \in DOMAIN row \ {"plan", "converted"} : row'[c] = row[c]
           /\ h \in Handlers /\ Protected(row') => Protected(row)
<1>1. TypeOK /\ KeepsSeen(h, work[h]) /\ h \in Open /\ row \in Row
    BY EndFacts DEF EventsInv, SeenInv, Open, TypeOK
<1>2. row' = row \/ (row' = Written(h) /\ (Commit(h) \/ h \in Admins))
    BY DEF Ends, Commit, Duplicate, StoreAlone, StoreOrphan, Crash, CommitPatch, ledger
<1>3. \A c \in DOMAIN row : Written(h)[c] =
          IF work[h].new[c] # work[h].seen[c] THEN work[h].new[c] ELSE row[c]
    BY <1>1, WrittenType
<1>4. "mode" \in DOMAIN row /\ "converted" \in DOMAIN row /\ row.mode \in {"manual", "paddle"}
    BY <1>1 DEF Row
<1>5. /\ Written(h).mode = IF work[h].new.mode # work[h].seen.mode THEN work[h].new.mode
                                                                     ELSE row.mode
      /\ Written(h).converted = IF work[h].new.converted # work[h].seen.converted
                                THEN work[h].new.converted ELSE row.converted
    BY <1>3, <1>4
<1>6. row.mode = "paddle" => Written(h).mode = "paddle"
    BY <1>1, <1>5 DEF KeepsSeen
<1>7. ASSUME Protected(row)
      PROVE  \/ row' = row
             \/ /\ h \in Admins /\ CommitPatch(h)
                /\ \A c \in DOMAIN row \ {"plan", "converted"} : row'[c] = row[c]
    <2>1. Protected(work[h].seen)
        BY <1>1, <1>7 DEF ReadsInv
    <2>2. CASE h \in Handlers
        <3>1. \A c \in DOMAIN row : Written(h)[c] = row[c]
            BY <1>1, <1>3, <2>1, <2>2 DEF KeepsSeen
        <3>2. Written(h) = row
            BY <1>1, <3>1 DEF Written, Row
        <3> QED
            BY <1>2, <2>2, <3>2, PaddleAssumption
    <2>3. CASE h \in Admins
        <3>1. \A c \in DOMAIN row \ {"plan", "converted"} : Written(h)[c] = row[c]
            BY <1>1, <1>3, <2>1 DEF KeepsSeen
        <3>2. CommitPatch(h)
            BY <2>3, PaddleAssumption DEF Ends
        <3> QED
            BY <1>2, <2>3, <3>1, <3>2
    <2> QED
        BY <2>2, <2>3 DEF Sessions
<1>8. ASSUME h \in Handlers, Protected(Written(h)) PROVE Protected(row)
    <2>1. work[h].new.mode = work[h].seen.mode /\ row.mode = "manual"
        BY <1>1, <1>5, <1>8 DEF KeepsSeen, Protected
    <2>2. work[h].new.converted = work[h].seen.converted
        BY <1>1, <1>4, <1>8, <2>1 DEF KeepsSeen, ReadsInv
    <2> QED
        BY <1>5, <1>8, <2>1, <2>2 DEF Protected
<1> QED
    BY <1>2, <1>6, <1>7, <1>8

LEMMA EndReads ==
    ASSUME EventsInv, SeenInv, ReadsInv, PatchAlone, NEW h \in Sessions, Ends(h)
    PROVE  ReadsInv'
<1>1. TypeOK /\ Becomes(h, Idle) /\ work[h].at # "idle" /\ Idle \in Work /\ Idle.at = "idle"
    BY EndFacts, IdleType DEF EventsInv, Idle
<1>2. work'[h] = Idle /\ (\A g \in Sessions : g # h => work'[g] = work[g])
      /\ Open' = Open \ {h}
    BY <1>1, WorkTyped, OpenAfter
<1>3. \A g \in Open' : g \in Open /\ work'[g] = work[g]
    BY <1>2 DEF Open
<1>4. \A g \in Open' : work'[g].seen.mode = "paddle" => row'.mode = "paddle"
    BY <1>3, EndRow DEF ReadsInv
<1>5. ASSUME Protected(row'), NEW g \in Open' PROVE Protected(work'[g].seen)
    <2>1. CASE h \in Handlers
        BY <1>3, <1>5, <2>1, EndRow DEF ReadsInv
    <2>2. CASE h \in Admins
        BY <1>1, <1>2, <2>2 DEF PatchAlone, Open
    <2> QED
        BY <2>1, <2>2 DEF Sessions
<1> QED
    BY <1>4, <1>5 DEF ReadsInv, Protected

LEMMA NextReads == EventsInv /\ SeenInv /\ PatchAlone /\ ReadsInv /\ [Next]_vars => ReadsInv'
<1> SUFFICES ASSUME EventsInv, SeenInv, PatchAlone, ReadsInv, [Next]_vars PROVE ReadsInv'
    OBVIOUS
<1>1. TypeOK
    BY DEF EventsInv
<1>2. CASE UNCHANGED <<row, work>>
    BY <1>2 DEF ReadsInv, Protected, Open
<1>3. Paddle \/ UNCHANGED vars => UNCHANGED <<row, work>>
    BY PaddleEvents DEF Extends, vars
<1>4. ASSUME NEW h \in Sessions, Opens(h) PROVE ReadsInv'
    <2>1. PICK w \in Work : Becomes(h, w) /\ w.seen = row
        BY <1>4, OpenReads
    <2> QED
        BY <1>1, <1>4, <2>1, OpenFacts, ReadsStep
<1>5. ASSUME NEW h \in Handlers, Inner(h) PROVE ReadsInv'
    <2>1. UNCHANGED row /\ \E w \in Work : Turn(h, w)
        BY <1>5, InnerTurn
    <2>2. PICK w \in Work : Turn(h, w)
        BY <2>1
    <2>3. h \in Sessions /\ h \in Open /\ Becomes(h, w) /\ w.seen = work[h].seen
        BY <2>2 DEF Turn, Open, Sessions
    <2> QED
        BY <1>1, <2>1, <2>3, ReadsStep
<1>6. ASSUME NEW h \in Sessions, Ends(h) PROVE ReadsInv'
    BY <1>6, EndReads
<1> QED
    BY <1>2, <1>3, <1>4, <1>5, <1>6, NextCases

(* The superadmin's contract outlives whatever the webhooks bring: any       *)
(* number of deliveries, of any subscriptions, overlapping and dying, leave  *)
(* a converted manual agency as it is.                                       *)
THEOREM ManualIsKept == Spec /\ []PatchAlone => ManualIsProtected
<1>1. Init => ReadsInv
    BY DEF Init, ReadsInv, Open, Idle
<1>2. EventsInv /\ SeenInv /\ ReadsInv /\ [Next]_vars
          => [row.mode = "manual" /\ row.converted # 0
                => \/ row' = row
                   \/ /\ \E a \in Admins : CommitPatch(a)
                      /\ \A c \in DOMAIN row \ {"plan", "converted"} : row'[c] = row[c]]_vars
    <2> SUFFICES ASSUME EventsInv, SeenInv, ReadsInv, Next, Protected(row)
                 PROVE  \/ row' = row
                        \/ /\ \E a \in Admins : CommitPatch(a)
                           /\ \A c \in DOMAIN row \ {"plan", "converted"} : row'[c] = row[c]
        BY DEF Protected
    <2>1. UNCHANGED row \/ \E h \in Sessions : Ends(h)
        BY NextCases, PaddleEvents, OpenFacts, InnerTurn DEF Extends
    <2> QED
        BY <2>1, EndRow
<1> QED
    BY <1>1, <1>2, NextReads, EventsAlways, SeenAlways, PTL DEF Spec, ManualIsProtected

-----------------------------------------------------------------------------
(* The status follows Paddle unless deliveries of two different status       *)
(* events overlap; copies of one, other deliveries and PATCHes may.          *)
Bears(h) ==
    h \in Handlers /\ work[h].at \notin {"idle", "orphan"} /\ Ev(h).type \in StatusEvents

StatusApart ==
    \A g, h \in Handlers : Bears(g) /\ Bears(h) => work[g].event = work[h].event

(* A session that bears no status writes none; one that does has read the    *)
(* row's, and computes its own from it, until a copy of it has committed.    *)
KeepsStatus(h) ==
    LET w == work[h] IN
    /\ w.at \in {"flush", "status"} => h \in Handlers /\ Ev(h).type = "activated"
    /\ ~Bears(h) => SameStatus(w.new, w.seen)
    /\ Bears(h) /\ w.event \notin stored =>
          /\ SameStatus(w.seen, row)
          /\ (w.new.since # 0) <=> (w.new.status = "past_due")
          /\ w.new.status # w.seen.status => ~Stale(w.event)
          /\ w.at = "commit" /\ w.ok /\ ~Stale(w.event)
                => Ev(h).status \in {w.new.status, "paused"}

NewestWins ==
    LET known == StatusEventsIn(stored) IN
    known # {} /\ Max(known) \in processed
        => emitted[Max(known)].status \in {row.status, "paused"}

StatusInv == AnchorFollowsStatus /\ NewestWins /\ \A h \in Sessions : KeepsStatus(h)

(* A session that does nothing, where nothing moves but another.             *)
LEMMA OthersStatus ==
    ASSUME NEW g \in Sessions, KeepsStatus(g), work'[g] = work[g],
           UNCHANGED <<emitted, row, stored>>
    PROVE  KeepsStatus(g)'
<1>1. /\ Bears(g)' <=> Bears(g)
      /\ Ev(g)' = Ev(g) /\ (Stale(work[g].event)' <=> Stale(work[g].event))
    BY DEF Bears, Ev, Stale
<1> QED
    BY <1>1 DEF KeepsStatus, SameStatus

(* A delivery that goes on. *)
LEMMA InnerStatus ==
    ASSUME EventsInv, StatusInv, NEW h \in Handlers, Inner(h)
    PROVE  StatusInv'
<1>1. /\ UNCHANGED <<emitted, row, ledger, faults>>
      /\ \E w \in Work : Turn(h, w)
    BY InnerTurn
<1>2. PICK w \in Work : Turn(h, w)
    BY <1>1
<1>3. /\ Becomes(h, w) /\ w.event = work[h].event /\ w.seen = work[h].seen
      /\ w.at \notin {"idle", "orphan"} /\ h \in Sessions /\ TypeOK
      /\ work[h].at \notin {"idle", "orphan"}
    BY <1>2, InnerAt DEF Turn, EventsInv, Sessions, KeepsManual, FillsLink, Adopts, Waits,
                         Activates, Updates
<1>4. work'[h] = w /\ \A g \in Sessions : g # h => work'[g] = work[g]
    BY <1>3, WorkTyped
<1>5. PICK v \in Work : v = work[h]
    BY <1>3 DEF TypeOK, Work
<1>6. w.event = v.event /\ w.seen = v.seen /\ KeepsStatus(h) /\ h \in Handlers
    BY <1>3, <1>5 DEF StatusInv
<1>7. Bears(h) <=> Ev(h).type \in StatusEvents
    BY <1>3 DEF Bears
<1>8. \/ KeepsManual(h, w) \/ FillsLink(h, w) \/ Adopts(h, w)
      \/ Waits(h, w) \/ Activates(h, w) \/ Updates(h, w)
    BY <1>2 DEF Turn
<1>9. ASSUME Ev(h).type \notin StatusEvents PROVE SameStatus(w.new, w.seen)
    <2>1. SameStatus(v.new, v.seen)
        BY <1>5, <1>6, <1>7, <1>9 DEF KeepsStatus
    <2>2. CASE KeepsManual(h, w)
        BY <2>2 DEF KeepsManual, SameStatus
    <2>3. CASE FillsLink(h, w) \/ Adopts(h, w)
        BY <2>3 DEF FillsLink, Adopts
    <2>4. CASE Waits(h, w)
        BY <1>5, <1>6, <2>1, <2>4 DEF Waits
    <2>5. CASE Activates(h, w)
        BY <1>5, <1>6, <1>9, <2>5 DEF Activates, KeepsStatus, StatusEvents
    <2>6. CASE Updates(h, w)
        BY <1>9, <2>6 DEF Updates
    <2> QED
        BY <1>8, <2>2, <2>3, <2>4, <2>5, <2>6
<1>10. ASSUME Ev(h).type \in StatusEvents, w.event \notin stored
       PROVE  /\ SameStatus(w.seen, row)
              /\ (w.new.since # 0) <=> (w.new.status = "past_due")
              /\ w.new.status # w.seen.status => ~Stale(w.event)
              /\ w.at = "commit" /\ w.ok /\ ~Stale(w.event)
                    => Ev(h).status \in {w.new.status, "paused"}
    <2>1. /\ SameStatus(v.seen, row)
          /\ (v.new.since # 0) <=> (v.new.status = "past_due")
          /\ v.new.status # v.seen.status => ~Stale(v.event)
        BY <1>5, <1>6, <1>7, <1>10 DEF KeepsStatus
    <2>2. SameStatus(w.seen, row) /\ ((w.seen.since # 0) <=> (w.seen.status = "past_due"))
        BY <1>6, <2>1 DEF SameStatus, StatusInv, AnchorFollowsStatus
    <2>3. CASE KeepsManual(h, w)
        BY <2>2, <2>3 DEF KeepsManual
    <2>4. CASE FillsLink(h, w)
        BY <1>10, <2>4 DEF FillsLink, StatusEvents
    <2>5. CASE Adopts(h, w)
        BY <2>2, <2>5 DEF Adopts, SameStatus
    <2>6. CASE Waits(h, w)
        BY <1>5, <1>6, <2>1, <2>2, <2>6 DEF Waits
    <2>7. CASE Activates(h, w)
        <3>1. Ev(h).status = "active"
            BY <1>3, <1>5, <1>6, <2>7, EventFacts DEF Activates, KeepsStatus
        <3> QED
            BY <1>5, <1>6, <2>1, <2>2, <2>7, <3>1 DEF Activates, Applied
    <2>8. CASE Updates(h, w)
        BY <2>2, <2>8 DEF Updates, SameStatus, Applied
    <2> QED
        BY <1>8, <2>3, <2>4, <2>5, <2>6, <2>7, <2>8
<1>11. /\ UNCHANGED <<emitted, row, stored, processed>>
       /\ Ev(h)' = Ev(h) /\ Stale(w.event)' = Stale(w.event)
       /\ Bears(h)' <=> Ev(h).type \in StatusEvents
    BY <1>1, <1>3, <1>4 DEF Ev, Stale, ledger, Bears
<1>12. KeepsStatus(h)'
    <2>1. w.at \in {"flush", "status"} => Ev(h).type = "activated"
        BY <1>5, <1>6, <1>8
        DEF KeepsManual, FillsLink, Adopts, Waits, Activates, Updates, KeepsStatus
    <2> QED
        BY <1>4, <1>9, <1>10, <1>11, <2>1 DEF KeepsStatus, SameStatus
<1>13. ASSUME NEW g \in Sessions, g # h PROVE KeepsStatus(g)'
    BY <1>4, <1>11, <1>13, OthersStatus DEF StatusInv
<1> QED
    BY <1>11, <1>12, <1>13 DEF StatusInv, AnchorFollowsStatus, NewestWins, StatusEventsIn

LEMMA PaddleStatus ==
    ASSUME EventsInv, StatusInv, Paddle
    PROVE  StatusInv'
<1>1. Extends /\ TypeOK
    BY PaddleEvents DEF EventsInv
<1>2. /\ stored \subseteq DOMAIN emitted
      /\ \A h \in Handlers : work[h].at # "idle" => work[h].event \in DOMAIN emitted
    BY <1>1 DEF TypeOK, EventsInv, WorksOnAnEvent
<1>3. /\ StatusEventsIn(stored)' = StatusEventsIn(stored)
      /\ UNCHANGED <<row, stored, processed, work>>
    BY <1>1, <1>2 DEF StatusEventsIn, Extends, ledger
<1>4. \A e \in StatusEventsIn(stored) : emitted'[e] = emitted[e]
    BY <1>1, <1>2 DEF StatusEventsIn, Extends
<1>5. NewestWins'
    <2>1. StatusEventsIn(stored) # {} => Max(StatusEventsIn(stored)) \in StatusEventsIn(stored)
        BY <1>1, <1>2, Newest DEF StatusEventsIn
    <2> QED
        BY <1>3, <1>4, <2>1 DEF StatusInv, NewestWins
<1>6. ASSUME NEW h \in Sessions PROVE KeepsStatus(h)'
    <2>1. Stale(work[h].event)' = Stale(work[h].event)
        BY <1>1, <1>2, <1>3 DEF Stale, Extends
    <2>2. /\ Bears(h)' <=> Bears(h)
          /\ h \in Handlers /\ work[h].at # "idle" => Ev(h)' = Ev(h)
        BY <1>1, <1>2, <1>3 DEF Ev, Extends, Bears
    <2>3. KeepsStatus(h)
        BY DEF StatusInv
    <2> QED
        BY <1>3, <2>1, <2>2, <2>3 DEF KeepsStatus, SameStatus, Bears
<1> QED
    BY <1>3, <1>5, <1>6 DEF StatusInv, AnchorFollowsStatus

LEMMA OpenStatus ==
    ASSUME EventsInv, StatusInv, NEW h \in Sessions, Opens(h)
    PROVE  StatusInv'
<1>1. TypeOK /\ UNCHANGED <<emitted, row, stored, processed>>
    BY OpenFacts DEF EventsInv, ledger
<1>2. PICK w \in Work : /\ Becomes(h, w) /\ w.seen = row /\ SameStatus(w.new, row)
                        /\ w.at \notin {"flush", "status"}
                        /\ w.at = "commit" => h \notin Handlers
    BY OpenReads
<1>3. work'[h] = w /\ \A g \in Sessions : g # h => work'[g] = work[g]
    BY <1>1, <1>2, WorkTyped
<1>4. /\ (w.new.since # 0) <=> (w.new.status = "past_due")
      /\ SameStatus(w.new, w.seen) /\ SameStatus(w.seen, row)
    BY <1>2 DEF StatusInv, AnchorFollowsStatus, SameStatus
<1>5. Bears(h)' => w.at # "commit"
    BY <1>2 DEF Bears
<1>6. KeepsStatus(h)'
    BY <1>1, <1>2, <1>3, <1>4, <1>5 DEF KeepsStatus, SameStatus
<1>7. ASSUME NEW g \in Sessions, g # h PROVE KeepsStatus(g)'
    BY <1>1, <1>3, <1>7, OthersStatus DEF StatusInv
<1> QED
    BY <1>1, <1>6, <1>7 DEF StatusInv, AnchorFollowsStatus, NewestWins, StatusEventsIn

(* How an ending session leaves the status: as it is, or as the event it has *)
(* just put on file, the newest there, has it.                               *)
LEMMA EndWrites ==
    ASSUME EventsInv, StatusInv, NEW h \in Sessions, Ends(h)
    PROVE  \/ SameStatus(row', row)
           \/ /\ Bears(h) /\ Commit(h) /\ SameStatus(row', work[h].new)
<1>1. TypeOK /\ row \in Row /\ work[h].new \in Row /\ \A a \in Admins : a \notin Handlers
    BY PaddleAssumption DEF EventsInv, TypeOK
<1>2. UNCHANGED row \/ (Commit(h) /\ h \in Handlers) \/ (CommitPatch(h) /\ h \in Admins)
    BY DEF Ends, Duplicate, StoreAlone, StoreOrphan, Crash, ledger
<1>3. ASSUME Commit(h) \/ CommitPatch(h)
      PROVE  /\ row'.status = IF work[h].new.status # work[h].seen.status
                              THEN work[h].new.status ELSE row.status
             /\ row'.since = IF work[h].new.since # work[h].seen.since
                             THEN work[h].new.since ELSE row.since
    <2>1. "status" \in DOMAIN row /\ "since" \in DOMAIN row
        BY <1>1 DEF Row
    <2>2. row' = Written(h)
        BY <1>3 DEF Commit, CommitPatch
    <2> QED
        BY <1>1, <2>1, <2>2, WrittenType
<1>4. CASE Bears(h) /\ Commit(h)
    <2>1. SameStatus(work[h].seen, row)
        BY <1>4 DEF StatusInv, KeepsStatus, Commit
    <2> QED
        BY <1>3, <1>4, <2>1 DEF SameStatus
<1>5. CASE ~Bears(h) /\ (Commit(h) \/ CommitPatch(h))
    <2>1. SameStatus(work[h].new, work[h].seen)
        BY <1>5 DEF StatusInv, KeepsStatus
    <2> QED
        BY <1>3, <1>5, <2>1 DEF SameStatus
<1>6. CASE h \in Admins
    <2>1. ~Bears(h)
        BY <1>1, <1>6 DEF Bears
    <2> QED
        BY <1>1, <1>2, <1>5, <1>6, <2>1 DEF SameStatus
<1> QED
    BY <1>2, <1>4, <1>5, <1>6 DEF SameStatus, Sessions

(* A commit that changes the status commits an event newer than all on file. *)
LEMMA CommitsNewest ==
    ASSUME EventsInv, StatusInv, NEW h \in Handlers, Commit(h), Bears(h),
           work[h].new.status # row.status
    PROVE  \A n \in StatusEventsIn(stored) : n < work[h].event
<1>1. h \in Sessions /\ work[h].event \notin stored /\ work[h].at = "commit"
    BY DEF Sessions, Commit
<1>2. ~Stale(work[h].event)
    BY <1>1 DEF StatusInv, KeepsStatus, SameStatus
<1>3. /\ work[h].event \in DOMAIN emitted /\ stored \subseteq DOMAIN emitted
      /\ DOMAIN emitted = 1..Len(emitted) /\ Len(emitted) \in Nat
    BY <1>1, LenProperties DEF EventsInv, TypeOK, WorksOnAnEvent
<1> QED
    BY <1>1, <1>2, <1>3 DEF Stale, StatusEventsIn

LEMMA EndNewest ==
    ASSUME EventsInv, StatusInv, NEW h \in Sessions, Ends(h)
    PROVE  NewestWins'
<1>1. /\ UNCHANGED emitted
      /\ TypeOK /\ TypeOK' /\ stored \subseteq DOMAIN emitted /\ processed \subseteq stored
      /\ DOMAIN emitted = 1..Len(emitted) /\ Len(emitted) \in Nat
    BY EndFacts, LenProperties DEF EventsInv, TypeOK
<1> DEFINE known == StatusEventsIn(stored)
           e == work[h].event
<1>2. known \subseteq DOMAIN emitted /\ (known # {} => Max(known) \in known
                                                   /\ \A n \in known : n <= Max(known))
    BY <1>1, Newest DEF StatusEventsIn
(* An event that is stored and is not the newest changes nothing; one that is *)
(* the newest, and was processed, has given its status.                      *)
<1>3. ASSUME e \notin stored, known' \subseteq known \cup {e}, known \subseteq known',
             processed' \subseteq processed \cup {e},
             e \in known' /\ e \in processed' /\ (\A n \in known : n < e)
                 => emitted[e].status \in {row'.status, "paused"},
             row'.status # row.status => e \in known' /\ \A n \in known : n < e
      PROVE  NewestWins'
    <2> SUFFICES ASSUME known' # {}, Max(known)' \in processed'
                 PROVE  emitted[Max(known)'].status \in {row'.status, "paused"}
        BY <1>1, <1>3 DEF NewestWins
    <2>1. /\ Max(known)' \in known' /\ \A n \in known' : n <= Max(known)'
          /\ known' \subseteq DOMAIN emitted
        <3>1. known' \subseteq (DOMAIN emitted)'
            BY <1>1 DEF TypeOK, StatusEventsIn
        <3>2. known' # {} => Max(known') \in known' /\ \A n \in known' : n <= Max(known')
            <4>1. (DOMAIN emitted)' = 1..Len(emitted) /\ Len(emitted) \in Nat
                BY <1>1
            <4> HIDE DEF known
            <4> QED
                BY <3>1, <4>1, NewestExists
        <3> QED
            BY <1>1, <3>1, <3>2
    <2>2. CASE Max(known)' = e
        <3>1. \A n \in known : n < e
            <4>1. \A n \in known : n \in Int /\ n <= e /\ n # e
                BY <1>1, <1>2, <1>3, <2>1, <2>2 DEF StatusEventsIn
            <4>2. e \in Int
                BY <1>1, <2>1, <2>2
            <4> QED
                BY <4>1, <4>2
        <3> QED
            BY <1>3, <2>1, <2>2, <3>1
    <2>3. CASE Max(known)' # e
        <3>1. Max(known)' \in known /\ Max(known)' \in processed
            BY <1>3, <2>1, <2>3
        <3>2. Max(known)' = Max(known)
            BY <1>1, <1>2, <1>3, <2>1, <3>1
        <3>3. row'.status = row.status
            BY <1>1, <1>3, <2>1, <3>1
        <3> QED
            BY <3>1, <3>2, <3>3 DEF StatusInv, NewestWins
    <2> QED
        BY <2>2, <2>3
<1> HIDE DEF known, e
<1>4. ASSUME Commit(h), h \in Handlers PROVE NewestWins'
    <2>1. /\ e \notin stored /\ stored' = stored \cup {e}
          /\ processed' = IF work[h].ok THEN processed \cup {e} ELSE processed
          /\ work[h].at = "commit"
        BY <1>4 DEF Commit, e
    <2>2. known \subseteq known' /\ known' \subseteq known \cup {e}
        BY <1>1, <2>1 DEF StatusEventsIn, known, e
    <2>3. e \in known' <=> Bears(h)
        BY <1>1, <1>4, <2>1 DEF StatusEventsIn, known, e, Bears, Ev
    <2>4. row'.status # row.status => e \in known' /\ \A n \in known : n < e
        BY <1>4, <2>3, EndWrites, CommitsNewest DEF known, e, SameStatus
    <2>5. ASSUME e \in known', e \in processed', \A n \in known : n < e
          PROVE  emitted[e].status \in {row'.status, "paused"}
        <3>1. ~Stale(e)
            <4> SUFFICES ASSUME NEW n \in stored, n > e, emitted[n].type \in StatusEvents
                         PROVE  FALSE
                BY DEF Stale
            <4>1. n < e /\ n \in Int /\ e \in Int
                BY <1>1, <2>5 DEF StatusEventsIn, known, e, EventsInv, TypeOK
            <4> QED
                BY <4>1
        <3>2. work[h].ok
            BY <1>1, <2>1, <2>5
        <3>3. Ev(h).status \in {work[h].new.status, "paused"}
            BY <2>1, <2>3, <2>5, <3>1, <3>2 DEF StatusInv, KeepsStatus, e
        <3>4. SameStatus(work[h].seen, row)
            BY <2>1, <2>3, <2>5 DEF StatusInv, KeepsStatus, e
        <3>5. row'.status = work[h].new.status
            <4>1. row \in Row /\ "status" \in DOMAIN row
                BY <1>1 DEF TypeOK, Row
            <4> QED
                BY <1>1, <1>4, <3>4, <4>1, WrittenType DEF Commit, SameStatus
        <3> QED
            BY <3>3, <3>5 DEF Ev, e
    <2>6. processed' \subseteq processed \cup {e}
        BY <2>1
    <2> QED
        BY <1>3, <2>1, <2>2, <2>4, <2>5, <2>6
<1>5. row'.status = row.status \/ (Commit(h) /\ h \in Handlers)
    BY EndWrites DEF SameStatus, Bears
<1>6. ASSUME StoreAlone(h), row'.status = row.status PROVE NewestWins'
    <2>1. /\ e \notin stored /\ stored' = stored \cup {e} /\ processed' = processed
        BY <1>6 DEF StoreAlone, e
    <2>2. known \subseteq known' /\ known' \subseteq known \cup {e} /\ e \notin processed'
        BY <1>1, <2>1 DEF StatusEventsIn, known, e
    <2> QED
        BY <1>3, <1>6, <2>1, <2>2
<1>7. ASSUME UNCHANGED <<stored, processed>>, row'.status = row.status PROVE NewestWins'
    <2>1. StatusEventsIn(stored)' = StatusEventsIn(stored)
        BY <1>1, <1>7 DEF StatusEventsIn
    <2>2. NewestWins /\ UNCHANGED <<emitted, stored, processed>>
        BY <1>1, <1>7 DEF StatusInv
    <2>3. row'.status = row.status
        BY <1>7
    <2> QED
        BY <2>1, <2>2, <2>3 DEF NewestWins
<1>8. (Commit(h) /\ h \in Handlers) \/ StoreAlone(h) \/ UNCHANGED <<stored, processed>>
    BY DEF Ends, Duplicate, StoreOrphan, Crash, CommitPatch, ledger
<1> QED
    BY <1>4, <1>5, <1>6, <1>7, <1>8

LEMMA EndStatus ==
    ASSUME EventsInv, StatusInv, StatusApart, NEW h \in Sessions, Ends(h)
    PROVE  StatusInv'
<1>1. TypeOK /\ Becomes(h, Idle) /\ Idle \in Work /\ Idle.at = "idle" /\ UNCHANGED emitted
    BY EndFacts, IdleType DEF EventsInv, Idle
<1>2. work'[h] = Idle /\ (\A g \in Sessions : g # h => work'[g] = work[g])
    BY <1>1, WorkTyped
<1>3. AnchorFollowsStatus'
    <2>1. CASE SameStatus(row', row)
        BY <2>1 DEF SameStatus, StatusInv, AnchorFollowsStatus
    <2>2. CASE Bears(h) /\ Commit(h) /\ SameStatus(row', work[h].new)
        BY <2>2 DEF SameStatus, StatusInv, AnchorFollowsStatus, KeepsStatus, Commit
    <2> QED
        BY <2>1, <2>2, EndWrites
(* A session left bears an event on file, or nothing has changed for it.     *)
<1>4. /\ stored \subseteq stored' /\ stored' \subseteq stored \cup {work[h].event}
      /\ Bears(h) => \/ work[h].event \in stored'
                     \/ SameStatus(row', row) /\ stored' = stored
    BY EndWrites
    DEF Ends, Commit, Duplicate, StoreAlone, StoreOrphan, Crash, CommitPatch, ledger, SameStatus
<1>5. ~Bears(h) => SameStatus(row', row)
    BY EndWrites
<1>6. ASSUME ~Bears(h), NEW g \in Sessions, g # h
      PROVE  Stale(work[g].event)' <=> Stale(work[g].event)
    <2>1. stored' = stored \/ (h \in Handlers /\ (Commit(h) \/ StoreAlone(h)))
        BY DEF Ends, Duplicate, StoreOrphan, Crash, CommitPatch, ledger
    <2>2. h \in Handlers /\ (Commit(h) \/ StoreAlone(h))
              => emitted[work[h].event].type \notin StatusEvents
        BY <1>6 DEF Bears, Ev, Commit, StoreAlone
    <2> QED
        BY <1>1, <1>2, <1>4, <1>6, <2>1, <2>2 DEF Stale
<1>7. KeepsStatus(h)'
    BY <1>1, <1>2 DEF KeepsStatus, Bears, Idle, SameStatus
<1>8. ASSUME NEW g \in Sessions, g # h PROVE KeepsStatus(g)'
    <2>1. /\ work'[g] = work[g] /\ KeepsStatus(g) /\ Ev(g)' = Ev(g)
          /\ Bears(g)' <=> Bears(g)
        BY <1>1, <1>2, <1>8 DEF StatusInv, Ev, Bears
    <2>2. CASE ~Bears(g)
        BY <2>1, <2>2 DEF KeepsStatus, SameStatus
    <2>3. CASE Bears(g) /\ work[g].event \in stored'
        BY <2>1, <2>3 DEF KeepsStatus
    <2>4. CASE Bears(g) /\ work[g].event \notin stored'
        <3>1. SameStatus(row', row) /\ (Stale(work[g].event)' <=> Stale(work[g].event))
            <4>1. CASE ~Bears(h)
                BY <1>5, <1>6, <1>8, <4>1
            <4>2. CASE Bears(h)
                <5>1. work[g].event = work[h].event
                    BY <2>4, <4>2 DEF StatusApart, Bears
                <5>2. SameStatus(row', row) /\ stored' = stored
                    BY <1>4, <2>4, <4>2, <5>1
                <5> QED
                    BY <1>1, <2>1, <5>2 DEF Stale
            <4> QED
                BY <4>1, <4>2
        <3>2. work[g].event \notin stored
            BY <1>4, <2>4
        <3> QED
            BY <2>1, <2>4, <3>1, <3>2 DEF KeepsStatus, SameStatus
    <2> QED
        BY <2>2, <2>3, <2>4
<1> QED
    BY <1>3, <1>7, <1>8, EndNewest DEF StatusInv

LEMMA StatusAlways == Spec /\ []StatusApart => [](EventsInv /\ StatusInv)
<1>1. Init => StatusInv
    <2> SUFFICES ASSUME Init PROVE StatusInv
        OBVIOUS
    <2>1. /\ \A h \in Sessions : work[h] = Idle
          /\ AnchorFollowsStatus /\ StatusEventsIn(stored) = {}
        BY DEF Init, AnchorFollowsStatus, NewAgency, StatusEventsIn
    <2>2. \A h \in Sessions : KeepsStatus(h)
        BY <2>1 DEF KeepsStatus, Bears, Idle, SameStatus
    <2> QED
        BY <2>1, <2>2 DEF StatusInv, NewestWins
<1>2. ASSUME EventsInv, StatusInv, UNCHANGED vars PROVE StatusInv'
    <2>1. UNCHANGED <<emitted, row, stored, processed, work>>
        BY <1>2 DEF vars
    <2>2. \A g \in Sessions : KeepsStatus(g)'
        BY <1>2, <2>1, OthersStatus DEF StatusInv
    <2> QED
        BY <1>2, <2>1, <2>2 DEF StatusInv, NewestWins, StatusEventsIn, AnchorFollowsStatus
<1>3. EventsInv /\ StatusInv /\ StatusApart /\ [Next]_vars => StatusInv'
    BY <1>2, NextCases, PaddleStatus, OpenStatus, InnerStatus, EndStatus
<1> QED
    BY <1>1, <1>3, EventsAlways, PTL DEF Spec

(* The grace period runs when, and only when, the agency is past due, as     *)
(* long as deliveries of two status events do not overlap.                   *)
THEOREM GraceFollowsStatus == Spec /\ []StatusApart => []AnchorFollowsStatus
<1>1. StatusInv => AnchorFollowsStatus
    BY DEF StatusInv
<1> QED
    BY <1>1, StatusAlways, PTL

(* Under the same condition an agency bears the status of the newest event   *)
(* on file, once that one was processed, in whatever order they came.        *)
THEOREM NewestStatusWins == Spec /\ []StatusApart => []StatusIsNewest
<1>1. StatusInv => StatusIsNewest
    BY DEF StatusInv, NewestWins, StatusIsNewest
<1> QED
    BY <1>1, StatusAlways, PTL

(* Under the same condition an event that changes the status is newer than   *)
(* every status event on file.                                               *)
THEOREM StatusNeverBack == Spec /\ []StatusApart => NeverBack
<1>1. ASSUME EventsInv, StatusInv, [Next]_vars, row'.status # row.status
      PROVE  \A e \in stored' \ stored, n \in StatusEventsIn(stored) : n < e
    <2>1. PICK h \in Sessions : Ends(h)
        BY <1>1, NextCases, OpenFacts, InnerTurn, PaddleEvents DEF Extends, vars
    <2>2. h \in Handlers /\ Bears(h) /\ Commit(h) /\ work[h].new.status # row.status
        BY <1>1, <2>1, EndWrites DEF SameStatus, Bears
    <2>3. \A n \in StatusEventsIn(stored) : n < work[h].event
        BY <1>1, <2>2, CommitsNewest
    <2>4. stored' = stored \cup {work[h].event}
        BY <2>2 DEF Commit
    <2> QED
        BY <2>3, <2>4
<1> QED
    BY <1>1, StatusAlways, PTL DEF Spec, NeverBack
=================================================================================
