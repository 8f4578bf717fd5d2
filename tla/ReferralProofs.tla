----------------------------- MODULE ReferralProofs -----------------------------
(***************************************************************************)
(* No invoice of a referrer carries more than the credits alive on its day *)
(* have earned, for every set of godchildren, life of a credit, billing    *)
(* cycle and number of overlapping recomputes, however many are lost; what *)
(* is posed is what will be earned when no two recomputes overlap.         *)
(***************************************************************************)
EXTENDS ReferralDiscount, FiniteSetTheorems, WellFoundedInduction, TLAPS

(* The discount d was earned by credits that outlive the last invoice it   *)
(* covers.                                                                 *)
Covers(S, d) == \A g \in S : credit[g] > next + (d.left - 1) * cycle

EarnedBy(d) ==
    d.by = "us" =>
        /\ d.left > 0
        /\ ~d.stale => \E S \in SUBSET Godchildren :
                           d.rate = Tier(Cardinality(S)) /\ Covers(S, d)

Inv ==
    /\ TypeOK
    /\ EarnedBy(discount)
    /\ \A h \in Handlers : job[h] # Idle => EarnedBy(job[h].wanted)
    /\ ~Live => discount.by # "us" /\ NoJob

-----------------------------------------------------------------------------
(* The tiers.                                                              *)

LEMMA TierIsNat == \A n \in Nat : Tier(n) \in Nat
BY DEF Tier, FirstRate, Step, RateCap

LEMMA TierMonotonic == \A n, k \in Nat : n <= k => Tier(n) <= Tier(k)
BY DEF Tier, FirstRate, Step, RateCap

LEMMA Multiple == \A a, c \in Int : (a - 1) * c = a * c - c
BY SMT

(* The invoices strictly before a boundary that is ahead.                  *)
LEMMA CoveredInvoices ==
    ASSUME NEW n \in Nat, NEW c \in Nat \ {0}
    PROVE  n \div c \in Nat /\ (n \div c) * c <= n
BY SMT

(* The first expiry of some credits is one of them, and no other is sooner. *)
LEMMA FirstExpiryIsFirst ==
    ASSUME TypeOK, NEW S \in SUBSET Godchildren, S # {}, \A g \in S : credit[g] > 0
    PROVE  /\ FirstExpiry(S) \in 1..Life
           /\ \A g \in S : FirstExpiry(S) <= credit[g]
           /\ \E g \in S : FirstExpiry(S) = credit[g]
<1> DEFINE T == {credit[g] : g \in S}
<1>1. T \subseteq 1..Life /\ T # {}
    BY ReferralAssumption DEF TypeOK, NotGranted
<1>2. T \subseteq Nat
    BY <1>1, ReferralAssumption
<1> HIDE DEF T
<1>3. PICK t \in T : \A u \in T : <<u, t>> \notin OpToRel(<, Nat)
    BY <1>1, <1>2, NatLessThanWellFounded, WFMin
<1>4. \A u \in T : t <= u
    <2> SUFFICES ASSUME NEW u \in T PROVE t <= u
        OBVIOUS
    <2>1. u \in Nat /\ t \in Nat
        BY <1>2
    <2>2. ~(u < t)
        BY <1>3, <2>1 DEF OpToRel
    <2> QED
        BY <2>1, <2>2
<1>5. /\ t \in 1..Life
      /\ \E g \in S : credit[g] = t
      /\ \A g \in S : t <= credit[g]
    BY <1>1, <1>4 DEF T
<1> QED
    BY <1>5 DEF FirstExpiry

-----------------------------------------------------------------------------
LEMMA InitInv == Init => Inv
<1> SUFFICES ASSUME Init PROVE Inv
    OBVIOUS
<1>1. TypeOK
    <2>1. credit \in [Godchildren -> {NotGranted} \cup 0..Life]
        BY DEF Init
    <2>2. job \in [Handlers -> {Idle} \cup [at: {"read"}, wanted: Ours \cup {NoDiscount},
                                           found: Ours \cup {NoDiscount}]]
        BY DEF Init
    <2>3. faults \in 0..MaxFaults /\ next \in Nat
        BY ReferralAssumption DEF Init
    <2> QED
        BY <2>1, <2>2, <2>3 DEF Init, TypeOK
<1>2. EarnedBy(discount) /\ discount.by # "us"
    BY DEF Init, EarnedBy, NoDiscount
<1>3. NoJob /\ \A h \in Handlers : job[h] # Idle => EarnedBy(job[h].wanted)
    BY DEF Init, NoJob
<1> QED
    BY <1>1, <1>2, <1>3 DEF Inv

(* What a recompute wants to pose is earned when it reads. *)
LEMMA WantedIsEarned ==
    ASSUME Inv, Counted # {}
    PROVE  LET d == [by |-> "us", rate |-> Tier(Cardinality(Counted)),
                     boundary |-> FirstExpiry(Counted),
                     left |-> CyclesUntil(FirstExpiry(Counted)), stale |-> FALSE]
           IN  d \in Ours /\ EarnedBy(d)
<1> DEFINE b == FirstExpiry(Counted)
           n == CyclesUntil(b)
           d == [by |-> "us", rate |-> Tier(Cardinality(Counted)),
                 boundary |-> b, left |-> n, stale |-> FALSE]
<1>1. next \in Nat /\ cycle \in Nat \ {0}
    BY ReferralAssumption DEF Inv, TypeOK
<1>2. Counted \in SUBSET Godchildren /\ \A g \in Counted : credit[g] > next /\ credit[g] \in Int
    BY ReferralAssumption DEF Inv, TypeOK, Counted, LiveAt, NotGranted
<1>3. b \in Nat /\ \A g \in Counted : b <= credit[g]
    BY <1>1, <1>2, FirstExpiryIsFirst, ReferralAssumption DEF Inv
<1>4. b > next
    BY <1>1, <1>2, FirstExpiryIsFirst DEF Inv
<1>5. n = (b - next - 1) \div cycle + 1
    BY <1>1, <1>3, <1>4 DEF CyclesUntil
<1>6. b - next - 1 \in Nat
    BY <1>1, <1>3, <1>4
<1>7. n \in Nat /\ n > 0 /\ (n - 1) * cycle <= b - next - 1
    <2> DEFINE q == (b - next - 1) \div cycle
    <2>1. q \in Nat /\ q * cycle <= b - next - 1
        BY <1>1, <1>6, CoveredInvoices
    <2>2. n = q + 1
        BY <1>5
    <2> HIDE DEF q, n
    <2>3. n - 1 = q
        BY <2>1, <2>2
    <2> QED
        BY <2>1, <2>2, <2>3
<1>8. Cardinality(Counted) \in Nat
    BY <1>2, FS_Subset, FS_CardinalityType, ReferralAssumption
<1>9. d \in Ours
    BY <1>3, <1>7, <1>8, TierIsNat DEF Ours
<1>10. Covers(Counted, d)
    <2> HIDE DEF b, n
    <2>1. (n - 1) * cycle \in Int
        BY <1>1, <1>7
    <2> QED
        BY <1>1, <1>2, <1>3, <1>7, <2>1 DEF Covers
<1> HIDE DEF b, n
<1>11. EarnedBy(d)
    BY <1>2, <1>7, <1>10 DEF EarnedBy
<1> QED
    BY <1>9, <1>11 DEF b, n

-----------------------------------------------------------------------------
(* A step that leaves the calendar alone and shortens no live credit keeps *)
(* what is earned.                                                         *)
LEMMA CreditsOnlyGrow ==
    ASSUME Inv, next' = next, cycle' = cycle,
           \A g \in Godchildren : credit[g] >= 0 => credit'[g] = credit[g],
           NEW d \in Ours, EarnedBy(d)
    PROVE  EarnedBy(d)'
<1> USE DEF EarnedBy, Ours
<1> SUFFICES ASSUME d.by = "us", ~d.stale
             PROVE  \E S \in SUBSET Godchildren :
                        d.rate = Tier(Cardinality(S)) /\ Covers(S, d)'
    OBVIOUS
<1>1. PICK S \in SUBSET Godchildren : d.rate = Tier(Cardinality(S)) /\ Covers(S, d)
    OBVIOUS
<1>2. (d.left - 1) * cycle >= 0 /\ next >= 0
    BY ReferralAssumption DEF Inv, TypeOK
<1>3. \A g \in S : credit[g] >= 0
    BY <1>1, <1>2, ReferralAssumption DEF Covers, Inv, TypeOK, NotGranted
<1>4. Covers(S, d)'
    BY <1>1, <1>3 DEF Covers
<1> QED
    BY <1>1, <1>4

LEMMA NotOursIsEarned == \A d \in {NoDiscount, Foreign} : d.by # "us" /\ EarnedBy(d) /\ EarnedBy(d)'
BY DEF EarnedBy, NoDiscount, Foreign

LEMMA StaleIsEarned ==
    ASSUME NEW d \in Ours \cup {NoDiscount, Foreign}, EarnedBy(d)
    PROVE  Stale(d) \in Ours \cup {NoDiscount, Foreign} /\ EarnedBy(Stale(d))'
           /\ (d # Foreign => Stale(d) # Foreign)
<1>1. CASE d.by = "us"
    <2>1. d \in Ours
        BY <1>1, NotOursIsEarned
    <2>2. Stale(d) = [d EXCEPT !.stale = TRUE]
        BY <1>1 DEF Stale
    <2> QED
        BY <1>1, <2>1, <2>2 DEF EarnedBy, Ours, Foreign
<1>2. CASE d.by # "us"
    BY <1>2 DEF EarnedBy, Stale
<1> QED
    BY <1>1, <1>2

-----------------------------------------------------------------------------
(* A step that leaves credits and calendar alone, drops or ends recomputes *)
(* and poses nothing but what one of them wanted.                          *)
LEMMA CalmInv ==
    ASSUME Inv, TypeOK', UNCHANGED <<credit, cycle, next>>,
           \/ discount' \in {discount, NoDiscount, Foreign}
           \/ \E h \in Handlers : job[h] # Idle /\ discount' = job[h].wanted,
           \A h \in Handlers : job'[h] \in {job[h], Idle},
           ~Live' => discount'.by # "us" /\ NoJob'
    PROVE  Inv'
<1>1. \A d : EarnedBy(d) => EarnedBy(d)'
    BY DEF EarnedBy, Covers
<1>2. EarnedBy(discount)'
    <2>1. EarnedBy(discount') => EarnedBy(discount)'
        BY DEF EarnedBy, Covers
    <2>2. CASE discount' \in {discount, NoDiscount, Foreign}
        BY <2>1, <2>2, NotOursIsEarned DEF Inv
    <2>3. CASE \E h \in Handlers : job[h] # Idle /\ discount' = job[h].wanted
        BY <2>1, <2>3 DEF Inv
    <2> QED
        BY <2>2, <2>3
<1>3. ASSUME NEW h \in Handlers, job'[h] # Idle
      PROVE  EarnedBy(job[h].wanted)'
    <2>1. job'[h] = job[h] /\ EarnedBy(job[h].wanted)
        BY <1>3 DEF Inv
    <2> QED
        BY <2>1 DEF EarnedBy, Covers
<1> QED
    BY <1>2, <1>3 DEF Inv

LEMMA NextInv == Inv /\ [Next]_vars => Inv'
<1> SUFFICES ASSUME Inv, [Next]_vars PROVE Inv'
    OBVIOUS
<1> USE ReferralAssumption
<1> USE DEF ledger
<1>1. ASSUME NEW g \in Godchildren, Grant(g) PROVE Inv'
    <2>1. TypeOK'
        BY <1>1 DEF Inv, TypeOK, Grant, NotGranted
    <2>2. \A d \in Ours \cup {NoDiscount, Foreign} : EarnedBy(d) => EarnedBy(d)'
        BY <1>1, CreditsOnlyGrow, NotOursIsEarned DEF Inv, TypeOK, Grant, NotGranted
    <2> QED
        BY <1>1, <2>1, <2>2 DEF Inv, TypeOK, Grant, Live, NoJob, EarnedBy, Covers
<1>2. ASSUME NEW c \in Cycles, Subscribe(c) PROVE Inv'
    <2>1. TypeOK'
        BY <1>2 DEF Inv, TypeOK, Subscribe
    <2>2. NoJob' /\ discount' = NoDiscount /\ sub' = "live"
        BY <1>2 DEF Inv, Subscribe, NoJob
    <2> QED
        BY <2>1, <2>2, NotOursIsEarned DEF Inv, NoJob, Live, EarnedBy, NoDiscount
<1>3. ASSUME NEW c \in Cycles, ChangeCycle(c) PROVE Inv'
    <2> USE DEF ChangeCycle
    <2>1. discount' = Stale(discount) /\ discount \in Ours \cup {NoDiscount, Foreign}
          /\ EarnedBy(discount)
        BY <1>3 DEF Inv, TypeOK
    <2>2. ASSUME NEW h \in Handlers, job[h] # Idle
          PROVE  /\ job'[h] = [job[h] EXCEPT !.wanted = Stale(@)]
                 /\ job[h] \in [at: {"read"}, wanted: Ours \cup {NoDiscount},
                                found: Ours \cup {NoDiscount}]
                 /\ EarnedBy(job[h].wanted)
        BY <1>3, <2>2 DEF Inv, TypeOK
    <2>3. ASSUME NEW h \in Handlers, job'[h] # Idle
          PROVE  /\ job'[h] \in [at: {"read"}, wanted: Ours \cup {NoDiscount},
                                 found: Ours \cup {NoDiscount}]
                 /\ EarnedBy(job[h].wanted)'
        BY <1>3, <2>2, <2>3, StaleIsEarned DEF Foreign, NoDiscount, EarnedBy, Covers
    <2>4. TypeOK'
        BY <1>3, <2>1, <2>3, StaleIsEarned DEF Inv, TypeOK
    <2> QED
        BY <1>3, <2>1, <2>3, <2>4, StaleIsEarned DEF Inv, Live, EarnedBy
<1>4. CASE Bill
    <2> USE DEF Bill
    <2>1. NoJob' /\ next = 0 /\ sub' = "live"
        BY <1>4 DEF NoJob
    <2>2. CASE discount.by # "us"
        <3>1. discount' = discount
            BY <1>4, <2>2 DEF AfterInvoice
        <3>2. TypeOK'
            BY <1>4, <3>1 DEF Inv, TypeOK
        <3> QED
            BY <2>1, <2>2, <3>1, <3>2 DEF Inv, Live, EarnedBy, NoJob
    <2>3. CASE discount.by = "us" /\ discount.left = 1
        <3>1. discount' = NoDiscount
            BY <1>4, <2>3 DEF AfterInvoice
        <3>2. TypeOK'
            BY <1>4, <3>1 DEF Inv, TypeOK
        <3> QED
            BY <2>1, <3>1, <3>2, NotOursIsEarned DEF Inv, Live, EarnedBy, NoJob
    <2>4. CASE discount.by = "us" /\ discount.left # 1
        <3>1. discount \in Ours /\ discount.left > 1
            BY <2>4, NotOursIsEarned DEF Inv, TypeOK, EarnedBy, Ours
        <3>2. discount' = [discount EXCEPT !.left = @ - 1]
            BY <1>4, <2>4 DEF AfterInvoice
        <3>3. discount' \in Ours /\ discount'.left > 0 /\ discount'.left = discount.left - 1
              /\ discount'.rate = discount.rate /\ discount'.stale = discount.stale
            BY <3>1, <3>2 DEF Ours
        <3>4. TypeOK'
            BY <1>4, <3>3 DEF Inv, TypeOK
        <3>5. \A S \in SUBSET Godchildren : Covers(S, discount) => Covers(S, discount)'
            <4>1. (discount'.left - 1) * cycle = (discount.left - 1) * cycle - cycle
                BY <3>1, <3>3, Multiple DEF Inv, TypeOK, Ours
            <4>2. (discount.left - 1) * cycle \in Int /\ cycle \in Int
                BY <3>1 DEF Inv, TypeOK, Ours
            <4> QED
                BY <1>4, <2>1, <4>1, <4>2 DEF Covers, Inv, TypeOK, NotGranted
        <3>6. EarnedBy(discount)'
            BY <2>4, <3>3, <3>5 DEF Inv, EarnedBy
        <3> QED
            BY <2>1, <3>4, <3>6 DEF Inv, Live, NoJob
    <2> QED
        BY <2>2, <2>3, <2>4
<1>5. CASE Pass
    <2> USE DEF Pass
    <2>1. NoJob'
        BY <1>5 DEF NoJob
    <2>2. CASE discount.by # "us"
        <3>1. discount' = discount
            BY <1>5, <2>2
        <3>2. TypeOK'
            BY <1>5, <3>1 DEF Inv, TypeOK, Shorter, Live, NotGranted
        <3> QED
            BY <1>5, <2>1, <2>2, <3>1, <3>2 DEF Inv, Live, EarnedBy, NoJob
    <2>3. CASE discount.by = "us"
        <3>1. discount \in Ours /\ discount.left > 0 /\ Live /\ next > 0 /\ next' = next - 1
            BY <1>5, <2>3, NotOursIsEarned DEF Inv, TypeOK, EarnedBy
        <3>2. discount' \in Ours /\ discount'.left = discount.left
              /\ discount'.rate = discount.rate /\ discount'.stale = discount.stale
            BY <1>5, <2>3, <3>1 DEF Ours, Shorter
        <3>3. TypeOK'
            BY <1>5, <3>1, <3>2 DEF Inv, TypeOK, Shorter, Live, NotGranted
        <3>4. \A S \in SUBSET Godchildren : Covers(S, discount) => Covers(S, discount)'
            <4>1. (discount.left - 1) * cycle \in Nat
                BY <3>1 DEF Inv, TypeOK, Ours
            <4>2. ASSUME NEW g \in Godchildren, credit[g] > next + (discount.left - 1) * cycle
                  PROVE  credit'[g] > next' + (discount.left - 1) * cycle
                BY <1>5, <3>1, <4>1, <4>2 DEF Inv, TypeOK, Shorter, NotGranted
            <4> QED
                BY <1>5, <3>2, <4>2 DEF Covers
        <3>5. EarnedBy(discount)'
            BY <2>3, <3>2, <3>4 DEF Inv, EarnedBy
        <3> QED
            BY <1>5, <2>1, <3>1, <3>3, <3>5 DEF Inv, Live, NoJob
    <2> QED
        BY <2>2, <2>3
<1>6. ASSUME NEW h \in Handlers, Read(h) PROVE Inv'
    <2> USE DEF Read
    <2>1. discount \in Ours \cup {NoDiscount} /\ sub = "live"
        BY <1>6 DEF Inv, TypeOK, Foreign
    <2>2. /\ job'[h] \in [at: {"read"}, wanted: Ours \cup {NoDiscount},
                          found: Ours \cup {NoDiscount}]
          /\ EarnedBy(job'[h].wanted)
        BY <1>6, <2>1, WantedIsEarned, NotOursIsEarned DEF Inv, TypeOK
    <2>3. \A i \in Handlers \ {h} : job'[i] = job[i]
        BY <1>6 DEF Inv, TypeOK
    <2>4. job' \in [Handlers -> {Idle} \cup [at: {"read"}, wanted: Ours \cup {NoDiscount},
                                             found: Ours \cup {NoDiscount}]]
        BY <1>6, <2>2 DEF Inv, TypeOK
    <2>5. TypeOK'
        BY <1>6, <2>4 DEF Inv, TypeOK
    <2>6. EarnedBy(discount)' /\ \A i \in Handlers : job'[i] # Idle => EarnedBy(job[i].wanted)'
        BY <1>6, <2>2, <2>3 DEF Inv, EarnedBy, Covers
    <2> QED
        BY <1>6, <2>1, <2>5, <2>6 DEF Inv, Live
<1>7. ASSUME NEW h \in Handlers, Pose(h) PROVE Inv'
    <2>1. Live' /\ TypeOK' /\ discount' = job[h].wanted /\ job[h] # Idle
        BY <1>7 DEF Inv, TypeOK, Pose, Live, NoJob
    <2>2. \A i \in Handlers : job'[i] \in {job[i], Idle}
        BY <1>7 DEF Inv, TypeOK, Pose
    <2> QED
        BY <1>7, <2>1, <2>2, CalmInv DEF Pose
<1>8. ASSUME NEW h \in Handlers, Keep(h) \/ Fails(h) PROVE Inv'
    <2>1. TypeOK'
        <3>1. job' = [job EXCEPT ![h] = Idle]
            BY <1>8 DEF Keep, Fails
        <3>2. job' \in [Handlers -> {Idle} \cup [at: {"read"}, wanted: Ours \cup {NoDiscount},
                                                 found: Ours \cup {NoDiscount}]]
            BY <3>1 DEF Inv, TypeOK
        <3>3. faults' \in 0..MaxFaults
            BY <1>8 DEF Inv, TypeOK, Keep, Fails
        <3>4. missed' \in BOOLEAN
            BY <1>8, Zenon DEF Inv, TypeOK, Keep, Fails
        <3>5. UNCHANGED <<credit, sub, cycle, next, discount, owed>>
            BY <1>8 DEF Keep, Fails
        <3> QED
            BY <3>2, <3>3, <3>4, <3>5 DEF Inv, TypeOK
    <2>2. /\ discount' = discount /\ UNCHANGED <<credit, cycle, next, sub>>
          /\ \A i \in Handlers : job'[i] \in {job[i], Idle}
        BY <1>8 DEF Inv, TypeOK, Keep, Fails
    <2> QED
        BY <2>1, <2>2, CalmInv DEF Inv, Live, NoJob
<1>9. CASE Purchase \/ ScheduleCancel \/ Resume \/ Skip \/ Lost \/ UNCHANGED vars
    <2>1. /\ UNCHANGED <<discount, job, credit, cycle, next>>
          /\ Live' <=> Live
        BY <1>9 DEF Purchase, ScheduleCancel, Resume, Skip, Lost, vars, Live
    <2>2. TypeOK'
        <3>1. faults' \in 0..MaxFaults
            BY <1>9 DEF Inv, TypeOK, Purchase, ScheduleCancel, Resume, Skip, Lost, vars
        <3>2. owed' \in BOOLEAN /\ missed' \in BOOLEAN
              /\ sub' \in {"none", "live", "ending", "canceled"}
            BY <1>9 DEF Inv, TypeOK, Purchase, ScheduleCancel, Resume, Skip, Lost, vars
        <3> QED
            BY <2>1, <3>1, <3>2 DEF Inv, TypeOK
    <2> QED
        BY <2>1, <2>2, CalmInv DEF Inv, NoJob
<1>10. CASE Ends \/ Promote \/ Unpromote
    <2>1. /\ UNCHANGED <<job, credit, cycle, next>>
          /\ discount' \in {NoDiscount, Foreign}
          /\ ~Live' => NoJob
        BY <1>10 DEF Inv, Ends, Promote, Unpromote, Live
    <2>2. TypeOK'
        BY <1>10 DEF Inv, TypeOK, Ends, Promote, Unpromote
    <2> QED
        BY <2>1, <2>2, CalmInv, NotOursIsEarned DEF Inv, NoJob
<1> QED
    BY <1>1, <1>2, <1>3, <1>4, <1>5, <1>6, <1>7, <1>8, <1>9, <1>10 DEF Next

-----------------------------------------------------------------------------
LEMMA SpecInv == Spec => []Inv
BY InitInv, NextInv, PTL DEF Spec

(* The rows, the calendar, the discount and the recomputes keep their      *)
(* types.                                                                  *)
THEOREM ReferralTypeCorrect == Spec => []TypeOK
BY SpecInv, PTL DEF Inv

(* The credits the discount was counted on are alive when it is billed,    *)
(* and more of them can only earn more.                                    *)
LEMMA EarnedIsEnough == Inv => NeverOverDiscounted
<1> SUFFICES ASSUME Inv, sub = "live", next = 0, discount.by = "us", ~discount.stale
             PROVE  discount.rate <= Earned(0)
    BY DEF NeverOverDiscounted
<1>1. discount \in Ours /\ discount.left > 0
    BY NotOursIsEarned DEF Inv, TypeOK, EarnedBy
<1>2. PICK S \in SUBSET Godchildren : discount.rate = Tier(Cardinality(S)) /\ Covers(S, discount)
    BY DEF Inv, EarnedBy
<1>3. (discount.left - 1) * cycle \in Nat
    BY <1>1, ReferralAssumption DEF Inv, TypeOK, Ours
<1>4. S \subseteq LiveAt(0)
    BY <1>2, <1>3, ReferralAssumption DEF Covers, LiveAt, Inv, TypeOK, NotGranted
<1>5. IsFiniteSet(LiveAt(0)) /\ IsFiniteSet(S)
    BY FS_Subset, ReferralAssumption DEF LiveAt
<1>6. Cardinality(S) <= Cardinality(LiveAt(0))
    BY <1>4, <1>5, FS_Subset
<1> QED
    BY <1>2, <1>5, <1>6, FS_CardinalityType, TierMonotonic DEF Earned

(* "Paddle stops by itself there": whatever recomputes are lost or         *)
(* overlap, an invoice carries at most what the credits alive on its day   *)
(* have earned.                                                            *)
THEOREM ReferralNeverOverDiscounted == Spec => []NeverOverDiscounted
BY SpecInv, EarnedIsEnough, PTL

-----------------------------------------------------------------------------
(* As long as no two recomputes overlap, what is posed is what will be     *)
(* earned.                                                                 *)

RecomputesApart == \A h, i \in Handlers : job[h] # Idle /\ job[i] # Idle => h = i

RateOf(d) == IF d.by = "us" THEN d.rate ELSE 0
Quiet == ~owed /\ ~missed

(* A recompute read what is still true, unless something calls for another *)
(* one.                                                                    *)
PosedInv ==
    /\ Live /\ Quiet /\ NoJob /\ discount.by # "human" => RateOf(discount) = Earned(next)
    /\ \A h \in Handlers : job[h] # Idle /\ Quiet =>
           /\ RateOf(job[h].wanted) = Earned(next)
           /\ discount.by = "human" \/ job[h].found = discount

LEMMA NothingEarned == LiveAt(next) = {} => Earned(next) = 0
BY FS_EmptySet DEF Earned, Tier

LEMMA PosedInit == Init => PosedInv
BY DEF Init, PosedInv, Live

LEMMA PosedNext ==
    ASSUME RecomputesApart, RecomputesApart', Inv, PosedInv, [Next]_vars
    PROVE  PosedInv'
<1> USE ReferralAssumption
<1> USE DEF ledger
<1>1. ASSUME owed' \/ missed' PROVE PosedInv'
    BY <1>1 DEF PosedInv, Quiet
<1>2. ASSUME NEW g \in Godchildren, Grant(g) PROVE PosedInv'
    BY <1>1, <1>2 DEF Grant
<1>3. ASSUME NEW c \in Cycles, Subscribe(c) \/ ChangeCycle(c) PROVE PosedInv'
    BY <1>1, <1>3 DEF Subscribe, ChangeCycle
<1>4. CASE Bill \/ Purchase \/ Unpromote \/ Skip \/ Lost
    BY <1>1, <1>4 DEF Bill, Purchase, Unpromote, Skip, Lost
<1>5. ASSUME NEW h \in Handlers, Fails(h) PROVE PosedInv'
    BY <1>1, <1>5 DEF Fails
<1>6. CASE ScheduleCancel \/ Resume \/ UNCHANGED vars
    <2>1. UNCHANGED <<credit, next, discount, owed, missed, job>> /\ (Live' <=> Live)
        BY <1>6 DEF ScheduleCancel, Resume, vars, Live
    <2> QED
        BY <2>1 DEF PosedInv, Quiet, NoJob, RateOf, Earned, LiveAt
<1>7. CASE Ends
    BY <1>7 DEF Ends, PosedInv, Live, NoJob
<1>8. CASE Promote
    BY <1>8 DEF Promote, PosedInv, Quiet, RateOf, Earned, LiveAt, Foreign
<1>9. CASE Pass
    <2>1. NoJob /\ NoJob'
        BY <1>9 DEF Pass, NoJob
    <2>2. CASE ~Live
        BY <1>9, <2>1, <2>2 DEF Pass, PosedInv, Live, NoJob
    <2>3. CASE Live
        <3>1. LiveAt(next)' = LiveAt(next)
            <4>1. next > 0 /\ next' = next - 1
                  /\ credit' = [g \in Godchildren |-> Shorter(credit[g])]
                BY <1>9, <2>3 DEF Pass
            <4>2. \A g \in Godchildren : credit'[g] > next' <=> credit[g] > next
                BY <4>1 DEF Inv, TypeOK, Shorter, NotGranted
            <4> QED
                BY <4>2 DEF LiveAt
        <3>2. RateOf(discount)' = RateOf(discount) /\ discount'.by = discount.by
            <4>1. CASE discount.by = "us"
                <5>1. discount \in Ours
                    BY <4>1, NotOursIsEarned DEF Inv, TypeOK
                <5>2. discount' = [discount EXCEPT !.boundary = Shorter(@)]
                    BY <1>9, <4>1 DEF Pass
                <5> QED
                    BY <4>1, <5>1, <5>2 DEF RateOf, Ours
            <4>2. CASE discount.by # "us"
                BY <1>9, <4>2 DEF Pass, RateOf
            <4> QED
                BY <4>1, <4>2
        <3>3. Live' /\ (Quiet' <=> Quiet)
            BY <1>9, <2>3 DEF Pass, Live, Quiet
        <3> QED
            BY <2>1, <2>3, <3>1, <3>2, <3>3 DEF PosedInv, Earned, NoJob
    <2> QED
        BY <2>2, <2>3
<1>10. ASSUME NEW h \in Handlers, Read(h) PROVE PosedInv'
    <2>1. job'[h] # Idle /\ job'[h].found = discount
        BY <1>10 DEF Read, Idle, Inv, TypeOK
    <2>2. \A i \in Handlers : job'[i] # Idle => i = h
        BY <2>1 DEF RecomputesApart
    <2>3. RateOf(job'[h].wanted) = Earned(next)
        <3>1. CASE Counted = {}
            BY <1>10, <3>1, NothingEarned DEF Read, Inv, TypeOK, RateOf, NoDiscount, Counted
        <3>2. CASE Counted # {}
            BY <1>10, <3>2 DEF Read, Inv, TypeOK, RateOf, Counted, Earned
        <3> QED
            BY <3>1, <3>2
    <2>4. UNCHANGED <<credit, next, discount>>
        BY <1>10 DEF Read
    <2> QED
        BY <2>1, <2>2, <2>3, <2>4 DEF PosedInv, NoJob, RateOf, Earned, LiveAt
<1>11. ASSUME NEW h \in Handlers, Keep(h) PROVE PosedInv'
    <2>1. NoJob' /\ job[h] # Idle /\ UNCHANGED <<credit, next, discount, owed, missed>>
        BY <1>11 DEF RecomputesApart, Keep, NoJob, Inv, TypeOK
    <2>2. RateOf(job[h].wanted) = RateOf(job[h].found)
        BY <1>11 DEF Keep, SameKey, RateOf
    <2> QED
        BY <2>1, <2>2 DEF PosedInv, Quiet, NoJob, RateOf, Earned, LiveAt
<1>12. ASSUME NEW h \in Handlers, Pose(h) PROVE PosedInv'
    <2>1. NoJob' /\ job[h] # Idle /\ UNCHANGED <<credit, next, owed, missed>>
        BY <1>12 DEF RecomputesApart, Pose, NoJob, Inv, TypeOK
    <2>2. discount' = job[h].wanted
        BY <1>12 DEF Pose
    <2> QED
        BY <2>1, <2>2 DEF PosedInv, Quiet, NoJob, RateOf, Earned, LiveAt
<1> QED
    BY <1>2, <1>3, <1>4, <1>5, <1>6, <1>7, <1>8, <1>9, <1>10, <1>11, <1>12 DEF Next

(* For every number of godchildren, and any number of recomputes that do   *)
(* not overlap: once one has followed the last event, what is posed is     *)
(* exactly what will be earned on the day of the next invoice.             *)
THEOREM ReferralPosedIsEarned == Spec /\ []RecomputesApart => []PosedIsEarned
<1>1. Inv /\ PosedInv /\ RecomputesApart /\ RecomputesApart' /\ [Next]_vars => PosedInv'
    BY PosedNext
<1>2. PosedInv => PosedIsEarned
    BY DEF PosedInv, PosedIsEarned, PosedRate, RateOf, Quiet, Live
<1> QED
    BY <1>1, <1>2, PosedInit, InitInv, NextInv, PTL DEF Spec
=================================================================================
