---------------------------- MODULE ActivationProofs ----------------------------
(***************************************************************************)
(* For every number of sessions, runs, cases, persons and invitations: the *)
(* types; the door that stays open as long as nobody disturbs a correction *)
(* between its reads and no two persons of a case have one address; and    *)
(* the reminders, none of which leaves twice but for the runs that died,   *)
(* as long as no two runs list one row.                                    *)
(***************************************************************************)
EXTENDS ClientActivation, WellFoundedInduction, SequenceTheorems, FiniteSetTheorems, TLAPS

(* What a session has read, before it writes. *)
Correction == [at: {"loaded", "unshared", "free"},
               person: Persons, old: Accounts, email: Accounts]
Rotation == [at: {"asked"}, case: Cases, email: Accounts]

Stages == {0} \cup Schedule
Loaded(r) ==
    /\ r.at \in {"next", "sent"}
    /\ r.todo \subseteq Ids
    /\ r.at = "sent" => r.todo # {}
    /\ \A i \in r.todo : r.stage[i] \in Stages
    /\ DOMAIN r = {"at", "todo", "stage"}
RunsOK == DOMAIN run = Runs /\ \A j \in Runs : run[j] = Idle \/ Loaded(run[j])

LEMMA FirstIsIn ==
    ASSUME NEW S, S \subseteq Ids, S # {}
    PROVE  First(S) \in S
<1>1. S \subseteq Nat
    BY DEF Ids
<1>2. PICK t \in S : \A u \in S : <<u, t>> \notin OpToRel(<, Nat)
    BY <1>1, NatLessThanWellFounded, WFMin
<1>3. \A u \in S : t <= u
    <2> SUFFICES ASSUME NEW u \in S PROVE t <= u
        OBVIOUS
    <2>1. u \in Nat /\ t \in Nat
        BY <1>1
    <2>2. ~(u < t)
        BY <1>2, <2>1 DEF OpToRel
    <2> QED
        BY <2>1, <2>2
<1> QED
    BY <1>3 DEF First

-----------------------------------------------------------------------------
(* The types, for every way of giving addresses.                           *)

WriteOK(w) ==
    /\ DOMAIN w.case \subseteq Cases
    /\ \A c \in DOMAIN w.case : w.case[c] \in {"open", "deleted"}
    /\ DOMAIN w.link \subseteq Persons
    /\ \A p \in DOMAIN w.link : w.link[p] \in Accounts \cup {Gone}
    /\ w.activate \subseteq Accounts
    /\ w.mint \subseteq Cases \X Accounts

ColumnsOK ==
    /\ case \in [Cases -> {"none", "open", "deleted"}]
    /\ link \in [Persons -> Accounts \cup {Nobody, Gone}]
    /\ active \subseteq Accounts
    /\ inv \in Seq(Invitation)

WritesOK ==
    /\ DOMAIN job = Handlers
    /\ \A h \in Handlers :
          \/ job[h] = Idle \/ job[h] \in Correction \cup Rotation
          \/ Writing(h) /\ WriteOK(job[h].write)

TypeInv == ColumnsOK /\ WritesOK /\ RunsOK

(* A row keeps its place, its case, its address and the stage reached. *)
Stays == \A i \in DOMAIN inv : /\ i \in DOMAIN inv'
                               /\ inv'[i].case = inv[i].case
                               /\ inv'[i].email = inv[i].email
                               /\ inv'[i].stage = inv[i].stage

LEMMA RowType ==
    ASSUME ColumnsOK, NEW i \in DOMAIN inv
    PROVE  inv[i] \in Invitation
BY DEF ColumnsOK

LEMMA TypedQuiet ==
    ASSUME TypeInv, UNCHANGED database, job' = job, NEW j \in Runs, NEW r,
           run' = [run EXCEPT ![j] = r], r = Idle \/ Loaded(r)
    PROVE  TypeInv' /\ Stays
BY DEF TypeInv, ColumnsOK, database, WritesOK, WriteOK, Writing, RunsOK, Loaded, Stays

LEMMA RunHeld ==
    ASSUME TypeInv, NEW j \in Runs, run[j] # Idle
    PROVE  /\ Loaded(run[j])
           /\ run[j].todo # {} => First(run[j].todo) \in run[j].todo
           /\ run[j].at = "sent" => First(run[j].todo) \in run[j].todo
BY FirstIsIn DEF TypeInv, RunsOK, Loaded

LEMMA DueTyped ==
    ASSUME TypeInv, NEW i, Due(i)
    PROVE  /\ i \in DOMAIN inv /\ inv[i].stage \in Stages
           /\ DueStage(inv[i].age) \in Schedule /\ inv[i].stage < DueStage(inv[i].age)
<1>1. i \in DOMAIN inv /\ DueStage(inv[i].age) > inv[i].stage
    BY DEF Due, Concerned
<1>2. inv[i].stage \in Stages
    BY <1>1, RowType DEF TypeInv, Invitation, Stages
<1> QED
    BY <1>1, <1>2 DEF DueStage, Stages, Schedule

LEMMA PlanTyped ==
    ASSUME TypeInv, NEW h \in Handlers, NEW w, Plan(h, w), WriteOK(w)
    PROVE  TypeInv' /\ Stays
<1>1. UNCHANGED <<case, link, active, inv, run>>
      /\ job' = [job EXCEPT ![h] = [at |-> "writing", write |-> w]]
    BY DEF Plan, database
<1>2. ColumnsOK' /\ Stays /\ RunsOK'
    BY <1>1 DEF TypeInv, ColumnsOK, Stays, RunsOK, Loaded
<1>3. WritesOK'
    BY <1>1 DEF TypeInv, WritesOK, WriteOK, Writing, Correction, Rotation
<1> QED
    BY <1>2, <1>3 DEF TypeInv

LEMMA ReadsTyped ==
    ASSUME TypeInv, NEW h \in Handlers, NEW r \in Correction \cup Rotation, Reads(h, r)
    PROVE  TypeInv' /\ Stays
<1>1. UNCHANGED <<case, link, active, inv, run>> /\ job' = [job EXCEPT ![h] = r]
    BY DEF Reads, database
<1>2. ColumnsOK' /\ Stays /\ RunsOK'
    BY <1>1 DEF TypeInv, ColumnsOK, Stays, RunsOK, Loaded
<1>3. WritesOK'
    BY <1>1 DEF TypeInv, WritesOK, WriteOK, Writing, Correction, Rotation
<1> QED
    BY <1>2, <1>3 DEF TypeInv

(* A session between two reads, told by where it stands. *)
LEMMA ReadTyped ==
    ASSUME TypeInv, NEW h \in Handlers
    PROVE  /\ job[h].at \in {"loaded", "unshared", "free"} => job[h] \in Correction
           /\ job[h].at = "asked" => job[h] \in Rotation
BY DEF TypeInv, WritesOK, Writing, Correction, Rotation, Idle

LEMMA AskTyped ==
    ASSUME TypeInv, NEW h \in Handlers, NEW c \in Cases, NEW e \in Accounts,
           AskRotation(h, c, e)
    PROVE  TypeInv' /\ Stays
<1>1. [at |-> "asked", case |-> c, email |-> e] \in Rotation
    BY DEF Rotation
<1> QED
    BY <1>1, ReadsTyped DEF AskRotation

LEMMA MoreTyped ==
    ASSUME TypeInv, NEW h \in Handlers, NotShared(h) \/ NotTaken(h) \/ Relink(h) \/ Rotate(h)
    PROVE  TypeInv' /\ Stays
<1>1. CASE NotShared(h)
    <2>1. [job[h] EXCEPT !.at = "unshared"] \in Correction
        BY <1>1, ReadTyped DEF NotShared, Correction
    <2> QED
        BY <1>1, <2>1, ReadsTyped DEF NotShared
<1>2. CASE NotTaken(h)
    <2>1. [job[h] EXCEPT !.at = "free"] \in Correction
        BY <1>2, ReadTyped DEF NotTaken, Correction
    <2> QED
        BY <1>2, <2>1, ReadsTyped DEF NotTaken
<1>3. CASE Relink(h)
    <2> DEFINE r == job[h]
               c == CaseOf[r.person]
               cancelled == Pending(c, r.old)
               w == [NoWrite EXCEPT !.link = [q \in {r.person} |-> r.email],
                                    !.cancel = cancelled,
                                    !.mint = IF cancelled = {} THEN {} ELSE {<<c, r.email>>}]
    <2>1. r.person \in Persons /\ r.email \in Accounts /\ c \in Cases
        BY <1>3, ReadTyped, ActivationAssumption DEF Relink, Correction
    <2>2. WriteOK(w)
        BY <2>1 DEF WriteOK, NoWrite, Nowhere
    <2> QED
        BY <1>3, <2>2, PlanTyped DEF Relink
<1>4. CASE Rotate(h)
    <2> DEFINE c == job[h].case
               e == job[h].email
               w == [NoWrite EXCEPT !.cancel = Pending(c, e), !.mint = {<<c, e>>}]
    <2>1. c \in Cases /\ e \in Accounts
        BY <1>4, ReadTyped DEF Rotate, Rotation
    <2>2. WriteOK(w)
        BY <2>1 DEF WriteOK, NoWrite, Nowhere
    <2> QED
        BY <1>4, <2>2, PlanTyped DEF Rotate
<1> QED
    BY <1>1, <1>2, <1>3, <1>4

LEMMA AddressTyped ==
    ASSUME TypeInv, NEW h \in Handlers, NEW p \in Persons, NEW e \in Accounts,
           CreateCase(h, p, e) \/ GiveAccess(h, p, e) \/ ChangeAddress(h, p, e)
    PROVE  TypeInv' /\ Stays
<1>1. CaseOf[p] \in Cases
    BY ActivationAssumption
<1>2. CASE CreateCase(h, p, e)
    <2> DEFINE w == [NoWrite EXCEPT !.case = [c \in {CaseOf[p]} |-> "open"],
                                    !.link = [q \in {p} |-> e], !.mint = {<<CaseOf[p], e>>}]
    <2>1. WriteOK(w)
        BY <1>1 DEF WriteOK, NoWrite
    <2> QED
        BY <1>2, <2>1, PlanTyped DEF CreateCase, Begin
<1>3. CASE GiveAccess(h, p, e)
    <2> DEFINE w == [NoWrite EXCEPT !.link = [q \in {p} |-> e], !.mint = {<<CaseOf[p], e>>}]
    <2>1. WriteOK(w)
        BY <1>1 DEF WriteOK, NoWrite, Nowhere
    <2> QED
        BY <1>3, <2>1, PlanTyped DEF GiveAccess, Begin
<1>4. CASE ChangeAddress(h, p, e)
    <2> DEFINE r == [at |-> "loaded", person |-> p, old |-> link[p], email |-> e]
    <2>1. r \in Correction
        BY <1>4 DEF ChangeAddress, Correction
    <2> QED
        BY <1>4, <2>1, ReadsTyped DEF ChangeAddress
<1> QED
    BY <1>2, <1>3, <1>4

LEMMA ActivateTyped ==
    ASSUME TypeInv, NEW h \in Handlers, NEW i \in Ids, Activate(h, i)
    PROVE  TypeInv' /\ Stays
<1> DEFINE w == [NoWrite EXCEPT !.accept = {i}, !.activate = {inv[i].email}]
<1>1. i \in DOMAIN inv /\ inv[i].email \in Accounts
    BY RowType DEF Activate, Invitation, TypeInv
<1>2. WriteOK(w)
    BY <1>1 DEF WriteOK, NoWrite, Nowhere
<1> QED
    BY <1>2, PlanTyped DEF Activate, Begin

LEMMA OtherTyped ==
    ASSUME TypeInv, NEW h \in Handlers,
           \/ \E p \in Persons : RemovePerson(h, p) \/ Resend(h, p)
           \/ \E i \in Ids : ResendPublic(h, i) \/ Activate(h, i)
           \/ \E c \in Cases : DeleteCase(h, c)
    PROVE  TypeInv' /\ Stays
<1>1. ASSUME NEW p \in Persons, RemovePerson(h, p) PROVE TypeInv' /\ Stays
    <2> DEFINE w == [NoWrite EXCEPT !.link = [q \in {p} |-> Gone]]
    <2>1. WriteOK(w)
        BY DEF WriteOK, NoWrite, Nowhere
    <2> QED
        BY <1>1, <2>1, PlanTyped DEF RemovePerson, Begin
<1>2. ASSUME NEW p \in Persons, Resend(h, p) PROVE TypeInv' /\ Stays
    BY <1>2, AskTyped, ActivationAssumption DEF Resend
<1>3. ASSUME NEW i \in Ids, ResendPublic(h, i) PROVE TypeInv' /\ Stays
    <2>1. inv[i].case \in Cases /\ inv[i].email \in Accounts
        BY <1>3, RowType DEF ResendPublic, Invitation, TypeInv
    <2> QED
        BY <1>3, <2>1, AskTyped DEF ResendPublic
<1>4. ASSUME NEW i \in Ids, Activate(h, i) PROVE TypeInv' /\ Stays
    BY <1>4, ActivateTyped
<1>5. ASSUME NEW c \in Cases, DeleteCase(h, c) PROVE TypeInv' /\ Stays
    <2> DEFINE w == [NoWrite EXCEPT !.case = [x \in {c} |-> "deleted"]]
    <2>1. WriteOK(w)
        BY DEF WriteOK, NoWrite, Nowhere
    <2> QED
        BY <1>5, <2>1, PlanTyped DEF DeleteCase, Begin
<1> QED
    BY <1>1, <1>2, <1>3, <1>4, <1>5

LEMMA CommitTyped ==
    ASSUME TypeInv, NEW h \in Handlers, Commit(h)
    PROVE  TypeInv' /\ Stays
<1> DEFINE w == job[h].write
           base == [i \in DOMAIN inv |-> [inv[i] EXCEPT !.status = Status(w, i)]]
<1>1. WriteOK(w)
    BY DEF TypeInv, WritesOK, Commit, Writing, Correction, Rotation, Idle
<1>2. /\ case' = Update(w.case, case)
      /\ link' = Update(w.link, link)
      /\ active' = active \cup w.activate
      /\ run' = run
      /\ job' = [job EXCEPT ![h] = Idle]
    BY DEF Commit
<1>3. PICK new \in {<<r>> : r \in New(w)} \cup (IF w.mint = {} THEN {<<>>} ELSE {}) :
          inv' = base \o new
    BY DEF Commit
<1> HIDE DEF w
<1>4. new \in Seq(Invitation)
    <2>1. New(w) \subseteq Invitation
        BY <1>1 DEF New, WriteOK, Invitation, Ages, Schedule
    <2>2. new = <<>> \/ \E r \in Invitation : new = <<r>>
        BY <1>3, <2>1
    <2>3. CASE new = <<>>
        BY <2>3
    <2>4. CASE \E r \in Invitation : new = <<r>>
        BY <2>4
    <2> QED
        BY <2>2, <2>3, <2>4
<1>5. base \in Seq(Invitation) /\ Len(base) = Len(inv) /\ DOMAIN base = DOMAIN inv
      /\ DOMAIN inv = 1..Len(inv) /\ Len(inv) \in Nat
    <2>1. \A i \in DOMAIN inv : base[i] \in Invitation
        BY RowType DEF Invitation, Status, TypeInv
    <2>2. inv \in Seq(Invitation)
        BY DEF TypeInv, ColumnsOK
    <2>3. DOMAIN inv = 1..Len(inv) /\ Len(inv) \in Nat
        BY <2>2
    <2> QED
        BY <2>1, <2>3
<1>6. \A i \in DOMAIN inv : base[i].case = inv[i].case /\ base[i].email = inv[i].email
                            /\ base[i].stage = inv[i].stage
    BY RowType DEF Invitation, TypeInv
<1> HIDE DEF base
<1>7. inv' \in Seq(Invitation)
    BY <1>3, <1>4, <1>5
<1>8. Stays
    <2>1. \A i \in DOMAIN inv : i \in DOMAIN inv' /\ inv'[i] = base[i]
        BY <1>3, <1>4, <1>5
    <2> QED
        BY <1>6, <2>1 DEF Stays
<1>9. ColumnsOK'
    <2>1. case' \in [Cases -> {"none", "open", "deleted"}]
        BY <1>1, <1>2 DEF TypeInv, ColumnsOK, WriteOK, Update
    <2>2. link' \in [Persons -> Accounts \cup {Nobody, Gone}]
        BY <1>1, <1>2 DEF TypeInv, ColumnsOK, WriteOK, Update
    <2>3. active' \subseteq Accounts
        BY <1>1, <1>2 DEF TypeInv, ColumnsOK, WriteOK
    <2> QED
        BY <1>7, <2>1, <2>2, <2>3 DEF ColumnsOK
<1>10. WritesOK' /\ RunsOK'
    BY <1>2 DEF TypeInv, WritesOK, WriteOK, Writing, RunsOK, Loaded
<1> QED
    BY <1>8, <1>9, <1>10 DEF TypeInv

LEMMA AgeTyped ==
    ASSUME TypeInv, NEW i \in Ids, Age(i)
    PROVE  TypeInv' /\ Stays
<1> DEFINE r == [inv[i] EXCEPT !.age = Older(@)]
<1>1. i \in DOMAIN inv /\ inv[i] \in Invitation /\ inv[i].age < 14
    BY RowType DEF Age, TypeInv
<1>2. Older(inv[i].age) \in Ages
    <2>1. inv[i].age \in {0, 1, 3, 7}
        BY <1>1 DEF Invitation, Ages
    <2>2. \A a \in {0, 1, 3, 7} : \E b \in Ages : a < b /\ \A x \in Ages : a < x => b <= x
        BY DEF Ages
    <2> QED
        BY <2>1, <2>2 DEF Older
<1>3. r \in Invitation /\ r.case = inv[i].case /\ r.email = inv[i].email
      /\ r.stage = inv[i].stage
    BY <1>1, <1>2 DEF Invitation
<1>4. /\ inv' = [inv EXCEPT ![i] = r]
      /\ UNCHANGED <<case, link, active, job, run>>
    BY DEF Age
<1> HIDE DEF r
<1>5. inv' \in Seq(Invitation) /\ Stays
    <2>1. inv \in [1..Len(inv) -> Invitation] /\ Len(inv) \in Nat
        BY DEF TypeInv, ColumnsOK
    <2>2. inv' \in [1..Len(inv) -> Invitation]
        BY <1>3, <1>4, <2>1
    <2>3. \A k \in DOMAIN inv : inv'[k] = IF k = i THEN r ELSE inv[k]
        BY <1>4
    <2> QED
        BY <1>3, <2>1, <2>2, <2>3 DEF Stays
<1> QED
    BY <1>4, <1>5 DEF TypeInv, ColumnsOK, WritesOK, WriteOK, Writing, RunsOK, Loaded

LEMMA TickTyped ==
    ASSUME TypeInv, NEW j \in Runs, Tick(j)
    PROVE  TypeInv'
<1> DEFINE r == [at |-> "next", todo |-> {i \in Ids : Due(i)},
                 stage |-> [i \in DOMAIN inv |-> DueStage(inv[i].age)]]
<1>1. \A i \in r.todo : i \in DOMAIN inv /\ r.stage[i] \in Schedule
    BY DueTyped
<1>2. Loaded(r)
    BY <1>1 DEF Loaded, Stages
<1>3. UNCHANGED database /\ job' = job /\ run' = [run EXCEPT ![j] = r]
    BY DEF Tick
<1> HIDE DEF r
<1> QED
    BY <1>2, <1>3, TypedQuiet

(* The stage a run writes is one it has loaded. *)
LEMMA RecordTyped ==
    ASSUME TypeInv, NEW j \in Runs, Record(j)
    PROVE  TypeInv'
<1> DEFINE f == First(run[j].todo)
           t == run[j].stage[f]
           r == [run[j] EXCEPT !.at = "next", !.todo = @ \ {f}]
<1>1. /\ UNCHANGED <<case, link, active, job>>
      /\ run[j] # Idle /\ run[j].at = "sent"
      /\ run' = [run EXCEPT ![j] = r]
      /\ inv' = [inv EXCEPT ![f].stage = t]
    BY DEF Record
<1>2. Loaded(run[j]) /\ f \in run[j].todo /\ t \in Stages
    BY <1>1, RunHeld DEF Loaded
<1>3. Loaded(r)
    BY <1>1, <1>2 DEF Loaded
<1> HIDE DEF r, t, f
<1>4. inv' \in Seq(Invitation)
    <2>1. inv \in [1..Len(inv) -> Invitation] /\ Len(inv) \in Nat
        BY DEF TypeInv, ColumnsOK
    <2>2. CASE f \in DOMAIN inv
        <3>1. [inv[f] EXCEPT !.stage = t] \in Invitation
            BY <1>2, <2>2, RowType DEF TypeInv, Invitation, Stages
        <3>2. inv' = [inv EXCEPT ![f] = [inv[f] EXCEPT !.stage = t]]
            BY <1>1
        <3>3. inv' \in [1..Len(inv) -> Invitation]
            BY <2>1, <3>1, <3>2
        <3> QED
            BY <2>1, <3>3
    <2>3. CASE f \notin DOMAIN inv
        <3>1. inv' = inv
            BY <1>1, <2>1, <2>3
        <3> QED
            BY <3>1 DEF TypeInv, ColumnsOK
    <2> QED
        BY <2>2, <2>3
<1>5. RunsOK'
    BY <1>1, <1>3 DEF TypeInv, RunsOK, Loaded
<1> QED
    BY <1>1, <1>4, <1>5 DEF TypeInv, ColumnsOK, WritesOK, WriteOK, Writing

LEMMA RunTyped ==
    ASSUME TypeInv, NEW j \in Runs,
           Tick(j) \/ Remind(j) \/ Record(j) \/ RemindFails(j) \/ EndRun(j) \/ Crash(j)
    PROVE  TypeInv'
<1>1. CASE Remind(j)
    <2> DEFINE r == [run[j] EXCEPT !.at = "sent"]
    <2>1. UNCHANGED database /\ job' = job /\ run' = [run EXCEPT ![j] = r]
        BY <1>1 DEF Remind
    <2>2. Loaded(r)
        BY <1>1, RunHeld DEF Remind, Loaded
    <2> HIDE DEF r
    <2> QED
        BY <2>1, <2>2, TypedQuiet
<1>2. CASE RemindFails(j)
    <2> DEFINE r == [run[j] EXCEPT !.todo = @ \ {First(run[j].todo)}]
    <2>1. UNCHANGED database /\ job' = job /\ run' = [run EXCEPT ![j] = r]
        BY <1>2 DEF RemindFails
    <2>2. Loaded(r)
        BY <1>2, RunHeld DEF RemindFails, Loaded
    <2> HIDE DEF r
    <2> QED
        BY <2>1, <2>2, TypedQuiet
<1>3. CASE EndRun(j) \/ Crash(j)
    <2>1. UNCHANGED database /\ job' = job /\ run' = [run EXCEPT ![j] = Idle]
        BY <1>3 DEF EndRun, Crash
    <2> QED
        BY <2>1, TypedQuiet
<1> QED
    BY <1>1, <1>2, <1>3, TickTyped, RecordTyped

-----------------------------------------------------------------------------
(* The mails.                                                              *)

(* No two runs have one row on their lists.  The scheduler starts no run   *)
(* beside its own (max_instances = 1), but one triggered by hand meanwhile *)
(* may load what the other is mailing, and breaks the property (README,    *)
(* section 5).                                                             *)
RunsApart ==
    \A j, k \in Runs :
        j # k /\ run[j] # Idle /\ run[k] # Idle => run[j].todo \cap run[k].todo = {}

One(b) == IF b THEN 1 ELSE 0

(* The stage is written down, or is about to be by the run that mailed it. *)
Told(i, s) ==
    \/ i \in DOMAIN inv /\ s <= inv[i].stage
    \/ \E j \in Runs : /\ run[j] # Idle /\ run[j].at = "sent"
                       /\ First(run[j].todo) = i /\ run[j].stage[i] = s

(* What a run has loaded is still ahead of what is written down. *)
Ahead ==
    \A j \in Runs : run[j] # Idle =>
        \A i \in run[j].todo : /\ i \in DOMAIN inv /\ inv[i].stage \in Stages
                              /\ run[j].stage[i] \in Schedule
                              /\ inv[i].stage < run[j].stage[i]

(* The mails that left twice, and those that left once and that nobody     *)
(* will write down: each is the doing of a run that died.                  *)
Slips == {m \in Ids \X Schedule :
             mailed[m[1]][m[2]] > 1 \/ (mailed[m[1]][m[2]] = 1 /\ ~Told(m[1], m[2]))}

MailInv ==
    /\ DOMAIN mailed = Ids /\ \A i \in Ids : DOMAIN mailed[i] = Schedule
    /\ \A i \in Ids, s \in Schedule : mailed[i][s] \in Nat
    /\ crashes \in Nat
    /\ Ahead
    /\ \A i \in Ids, s \in Schedule : mailed[i][s] <= crashes + One(Told(i, s))
    /\ Cardinality(Slips) <= crashes

LEMMA SlipsFinite == IsFiniteSet(Ids \X Schedule)
<1>1. IsFiniteSet(Ids)
    BY FS_Interval, ActivationAssumption DEF Ids
<1>2. IsFiniteSet(Schedule)
    <2>1. IsFiniteSet({3})
        BY FS_Singleton
    <2>2. IsFiniteSet({3} \cup {7})
        BY <2>1, FS_AddElement
    <2> QED
        BY <2>2 DEF Schedule
<1> QED
    BY <1>1, <1>2, FS_Product

LEMMA SlipsShrink ==
    ASSUME MailInv, Slips' \subseteq Slips, crashes' = crashes
    PROVE  Cardinality(Slips') <= crashes'
<1>1. IsFiniteSet(Slips)
    BY SlipsFinite, FS_Subset DEF Slips
<1>2. Cardinality(Slips') <= Cardinality(Slips) /\ IsFiniteSet(Slips')
    BY <1>1, FS_Subset
<1>3. Cardinality(Slips) \in Nat /\ Cardinality(Slips') \in Nat
    BY <1>1, <1>2, FS_CardinalityType
<1> QED
    BY <1>2, <1>3 DEF MailInv

(* A step that sends nothing and forgets nothing. *)
LEMMA SlipsStay ==
    ASSUME MailInv, mailed' = mailed, crashes' = crashes,
           \A i \in Ids, s \in Schedule : Told(i, s) => Told(i, s)'
    PROVE  Cardinality(Slips') <= crashes'
<1>1. Slips' \subseteq Slips
    BY DEF Slips
<1> QED
    BY <1>1, SlipsShrink

(* A step that leaves the runs and the mails alone. *)
LEMMA MailStays ==
    ASSUME MailInv, Stays, UNCHANGED <<mailed, run, crashes>>
    PROVE  MailInv'
<1>1. Ahead'
    BY DEF MailInv, Ahead, Stays
<1>2. \A i \in Ids, s \in Schedule : Told(i, s) => Told(i, s)'
    BY DEF Told, Stays
<1>3. ASSUME NEW i \in Ids, NEW s \in Schedule
      PROVE  mailed'[i][s] <= crashes' + One(Told(i, s)')
    BY <1>2 DEF MailInv, One
<1>20. Cardinality(Slips') <= crashes'
    BY <1>2, SlipsStay
<1> QED
    BY <1>20, <1>1, <1>3 DEF MailInv

LEMMA TickMail ==
    ASSUME TypeInv, MailInv, RunsApart, NEW j \in Runs, Tick(j)
    PROVE  MailInv'
<1> DEFINE r == [at |-> "next", todo |-> {i \in Ids : Due(i)},
                 stage |-> [i \in DOMAIN inv |-> DueStage(inv[i].age)]]
<1>1. /\ UNCHANGED <<case, link, active, inv, mailed, job, crashes>>
      /\ run[j] = Idle /\ run' = [run EXCEPT ![j] = r]
    BY DEF Tick, database
<1>2. \A i \in r.todo : /\ i \in DOMAIN inv /\ inv[i].stage \in Stages
                        /\ r.stage[i] \in Schedule /\ inv[i].stage < r.stage[i]
    BY DueTyped
<1> HIDE DEF r
<1>5. run'[j] = r /\ \A k \in Runs \ {j} : run'[k] = run[k]
    BY <1>1 DEF TypeInv, RunsOK
<1>6. Ahead'
    BY <1>1, <1>2, <1>5 DEF MailInv, Ahead
<1>7. \A i \in Ids, s \in Schedule : Told(i, s) => Told(i, s)'
    BY <1>1, <1>5 DEF Told
<1>8. ASSUME NEW i \in Ids, NEW s \in Schedule
      PROVE  mailed'[i][s] <= crashes' + One(Told(i, s)')
    BY <1>1, <1>7 DEF MailInv, One
<1>20. Cardinality(Slips') <= crashes'
    BY <1>1, <1>7, SlipsStay
<1> QED
    BY <1>20, <1>1, <1>6, <1>8 DEF MailInv

(* A mail leaves: its stage was not told before. *)
LEMMA RemindMail ==
    ASSUME TypeInv, MailInv, RunsApart, NEW j \in Runs, Remind(j)
    PROVE  MailInv'
<1> DEFINE f == First(run[j].todo)
           r == [run[j] EXCEPT !.at = "sent"]
           t == run[j].stage[f]
<1>1. /\ UNCHANGED <<case, link, active, inv, job, crashes>>
      /\ run[j] # Idle /\ run[j].at = "next" /\ run[j].todo # {}
      /\ run' = [run EXCEPT ![j] = r]
      /\ mailed' = [mailed EXCEPT ![f][t] = @ + 1]
    BY DEF Remind, database
<1>2. Loaded(run[j]) /\ f \in run[j].todo /\ f \in Ids
    BY <1>1, RunHeld DEF Loaded
<1>3. /\ r.at = "sent" /\ r.todo = run[j].todo /\ r.stage = run[j].stage /\ Loaded(r)
      /\ r # Idle
    <2>1. r.at = "sent" /\ r.todo = run[j].todo /\ r.stage = run[j].stage /\ Loaded(r)
        BY <1>1, <1>2 DEF Loaded
    <2> QED
        BY <2>1 DEF Idle
<1>4. f \in DOMAIN inv /\ inv[f].stage \in Stages /\ t \in Schedule /\ inv[f].stage < t
    BY <1>1, <1>2 DEF MailInv, Ahead
<1> HIDE DEF r, t
<1>6. run'[j] = r /\ \A k \in Runs \ {j} : run'[k] = run[k]
    BY <1>1 DEF TypeInv, RunsOK
<1>7. Ahead'
    BY <1>1, <1>3, <1>6 DEF MailInv, Ahead
<1>8. \A i \in Ids, s \in Schedule : Told(i, s) => Told(i, s)'
    BY <1>1, <1>6 DEF Told
<1> HIDE DEF f
<1>9. \A i, s : i = f /\ s = t => ~Told(i, s) /\ Told(i, s)'
    <2> SUFFICES ASSUME NEW i, NEW s, i = f, s = t
                 PROVE  ~Told(i, s) /\ Told(i, s)'
        OBVIOUS
    <2>1. \A k \in Runs :
              ~(run[k] # Idle /\ run[k].at = "sent" /\ First(run[k].todo) = f)
        BY <1>1, <1>2, RunHeld DEF RunsApart
    <2>2. ~(t <= inv[f].stage)
        BY <1>4 DEF Stages, Schedule
    <2>3. First(r.todo) = f /\ r.stage[f] = t
        BY <1>3 DEF t, f
    <2>4. ~Told(i, s)
        BY <2>1, <2>2 DEF Told
    <2>5. Told(i, s)'
        BY <1>3, <1>6, <2>3 DEF Told
    <2> QED
        BY <2>4, <2>5
<1>10. \A i \in Ids, s \in Schedule :
           mailed'[i][s] = IF i = f /\ s = t THEN mailed[i][s] + 1 ELSE mailed[i][s]
    BY <1>1, <1>2, <1>4 DEF MailInv
<1>11. ASSUME NEW i \in Ids, NEW s \in Schedule
       PROVE  mailed'[i][s] <= crashes' + One(Told(i, s)')
    <2>1. mailed[i][s] <= crashes + One(Told(i, s)) /\ mailed[i][s] \in Nat /\ crashes \in Nat
        BY DEF MailInv
    <2>2. CASE i = f /\ s = t
        BY <1>1, <1>9, <1>10, <2>1, <2>2 DEF One
    <2>3. CASE ~(i = f /\ s = t)
        BY <1>1, <1>8, <1>10, <2>1, <2>3 DEF One
    <2> QED
        BY <2>2, <2>3
<1>12. /\ DOMAIN mailed' = Ids /\ \A i \in Ids : DOMAIN mailed'[i] = Schedule
       /\ \A i \in Ids, s \in Schedule : mailed'[i][s] \in Nat
    BY <1>1, <1>10 DEF MailInv
<1>13. Slips' \subseteq Slips
    <2> SUFFICES ASSUME NEW i \in Ids, NEW s \in Schedule, <<i, s>> \in Slips'
                 PROVE  <<i, s>> \in Slips
        BY DEF Slips
    <2>1. mailed'[i][s] > 1 \/ (mailed'[i][s] = 1 /\ ~Told(i, s)')
        BY DEF Slips
    <2>2. mailed[i][s] \in Nat
        BY DEF MailInv
    <2>3. CASE i = f /\ s = t
        <3>1. mailed[i][s] > 0 /\ ~Told(i, s)
            BY <1>9, <1>10, <2>1, <2>2, <2>3
        <3> QED
            BY <2>2, <3>1 DEF Slips
    <2>4. CASE ~(i = f /\ s = t)
        BY <1>8, <1>10, <2>1, <2>4 DEF Slips
    <2> QED
        BY <2>3, <2>4
<1>14. Cardinality(Slips') <= crashes'
    BY <1>1, <1>13, SlipsShrink
<1> QED
    BY <1>14, <1>1, <1>7, <1>11, <1>12 DEF MailInv

(* The stage is written down, and the row leaves the list. *)
LEMMA RecordMail ==
    ASSUME TypeInv, MailInv, RunsApart, NEW j \in Runs, Record(j)
    PROVE  MailInv'
<1> DEFINE f == First(run[j].todo)
           t == run[j].stage[f]
           r == [run[j] EXCEPT !.at = "next", !.todo = @ \ {f}]
<1>1. /\ UNCHANGED <<case, link, active, mailed, job, crashes>>
      /\ run[j] # Idle /\ run[j].at = "sent"
      /\ run' = [run EXCEPT ![j] = r]
      /\ inv' = [inv EXCEPT ![f].stage = t]
    BY DEF Record
<1>2. Loaded(run[j]) /\ f \in run[j].todo
    BY <1>1, RunHeld
<1>3. /\ r.at = "next" /\ r.todo = run[j].todo \ {f} /\ r.stage = run[j].stage /\ Loaded(r)
    BY <1>1, <1>2 DEF Loaded
<1>4. f \in DOMAIN inv /\ inv[f].stage \in Stages /\ t \in Schedule /\ inv[f].stage < t
    BY <1>1, <1>2 DEF MailInv, Ahead
<1>5. \A k \in Runs \ {j} : run'[k] = run[k] /\ (run[k] # Idle => f \notin run[k].todo)
    BY <1>1, <1>2 DEF RunsApart
<1> HIDE DEF r, t, f
<1>6. inv[f] \in Invitation /\ [inv[f] EXCEPT !.stage = t] \in Invitation
    BY <1>4, RowType DEF TypeInv, Invitation
<1>7. /\ inv' \in Seq(Invitation) /\ DOMAIN inv' = DOMAIN inv
      /\ inv'[f].stage = t
      /\ \A i \in DOMAIN inv \ {f} : inv'[i] = inv[i]
    <2>1. inv \in [1..Len(inv) -> Invitation] /\ Len(inv) \in Nat
        BY DEF TypeInv, ColumnsOK
    <2>2. inv' = [inv EXCEPT ![f] = [inv[f] EXCEPT !.stage = t]]
        BY <1>1
    <2>3. inv' \in [1..Len(inv) -> Invitation]
        BY <1>6, <2>1, <2>2
    <2>4. inv'[f] = [inv[f] EXCEPT !.stage = t]
        BY <1>4, <2>2
    <2>5. inv'[f].stage = t
        BY <1>6, <2>4 DEF Invitation
    <2> QED
        BY <2>1, <2>2, <2>3, <2>5
<1>8. run'[j] = r
    BY <1>1 DEF TypeInv, RunsOK
<1>10. Ahead'
    BY <1>1, <1>3, <1>5, <1>7, <1>8 DEF MailInv, Ahead
<1>11. \A i \in Ids, s \in Schedule : Told(i, s) => Told(i, s)'
    <2> SUFFICES ASSUME NEW i \in Ids, NEW s \in Schedule, Told(i, s)
                 PROVE  Told(i, s)'
        OBVIOUS
    <2>1. CASE i \in DOMAIN inv /\ s <= inv[i].stage
        <3>1. i \in DOMAIN inv' /\ s <= inv'[i].stage
            BY <1>4, <1>7, <2>1 DEF Stages, Schedule
        <3> QED
            BY <3>1 DEF Told
    <2>2. ASSUME NEW k \in Runs, run[k] # Idle, run[k].at = "sent",
                 First(run[k].todo) = i, run[k].stage[i] = s
          PROVE  Told(i, s)'
        <3>1. CASE k = j
            <4>1. i \in DOMAIN inv' /\ s <= inv'[i].stage
                BY <1>4, <1>7, <2>2, <3>1 DEF f, t, Schedule
            <4> QED
                BY <4>1 DEF Told
        <3>2. CASE k # j
            BY <1>5, <2>2, <3>2 DEF Told
        <3> QED
            BY <3>1, <3>2
    <2> QED
        BY <2>1, <2>2 DEF Told
<1>12. ASSUME NEW i \in Ids, NEW s \in Schedule
       PROVE  mailed'[i][s] <= crashes' + One(Told(i, s)')
    BY <1>1, <1>11 DEF MailInv, One
<1>20. Cardinality(Slips') <= crashes'
    BY <1>1, <1>11, SlipsStay
<1> QED
    BY <1>20, <1>1, <1>10, <1>12 DEF MailInv

(* A refused mail, the end of a run: nothing was told. *)
LEMMA EndsMail ==
    ASSUME TypeInv, MailInv, RunsApart, NEW j \in Runs, RemindFails(j) \/ EndRun(j)
    PROVE  MailInv'
<1>1. /\ UNCHANGED <<case, link, active, inv, mailed, job, crashes>>
      /\ run[j] # Idle /\ run[j].at = "next"
    BY DEF RemindFails, EndRun, database
<1>2. PICK r : /\ run' = [run EXCEPT ![j] = r]
               /\ r = Idle \/ Loaded(r)
               /\ r # Idle => r.todo \subseteq run[j].todo /\ r.stage = run[j].stage
    <2>1. CASE EndRun(j)
        BY <2>1 DEF EndRun
    <2>2. CASE RemindFails(j)
        <3> DEFINE r == [run[j] EXCEPT !.todo = @ \ {First(run[j].todo)}]
        <3>1. Loaded(r) /\ r.todo \subseteq run[j].todo /\ r.stage = run[j].stage
            BY <1>1, RunHeld DEF Loaded
        <3> QED
            BY <2>2, <3>1 DEF RemindFails
    <2> QED
        BY <2>1, <2>2
<1>4. run'[j] = r /\ \A k \in Runs \ {j} : run'[k] = run[k]
    BY <1>2 DEF TypeInv, RunsOK
<1>5. Ahead'
    BY <1>1, <1>2, <1>4 DEF MailInv, Ahead
<1>6. \A i \in Ids, s \in Schedule : Told(i, s) => Told(i, s)'
    BY <1>1, <1>4 DEF Told
<1>7. ASSUME NEW i \in Ids, NEW s \in Schedule
      PROVE  mailed'[i][s] <= crashes' + One(Told(i, s)')
    BY <1>1, <1>6 DEF MailInv, One
<1>20. Cardinality(Slips') <= crashes'
    BY <1>1, <1>6, SlipsStay
<1> QED
    BY <1>20, <1>1, <1>5, <1>7 DEF MailInv

(* A run that dies may have mailed what it had not written down. *)
LEMMA CrashMail ==
    ASSUME TypeInv, MailInv, RunsApart, NEW j \in Runs, Crash(j)
    PROVE  MailInv'
<1>1. /\ UNCHANGED <<case, link, active, inv, mailed, job>>
      /\ crashes' = crashes + 1 /\ run' = [run EXCEPT ![j] = Idle]
    BY DEF Crash, database
<1>3. run'[j] = Idle /\ \A k \in Runs \ {j} : run'[k] = run[k]
    BY <1>1 DEF TypeInv, RunsOK
<1>4. Ahead'
    BY <1>1, <1>3 DEF MailInv, Ahead
<1>5. ASSUME NEW i \in Ids, NEW s \in Schedule
      PROVE  mailed'[i][s] <= crashes' + One(Told(i, s)')
    BY <1>1 DEF MailInv, One
<1>6. \A i \in Ids, s \in Schedule :
          Told(i, s) => Told(i, s)' \/ (i = First(run[j].todo) /\ s = run[j].stage[i])
    BY <1>1, <1>3 DEF Told
<1> DEFINE f == First(run[j].todo)
           m == <<f, run[j].stage[f]>>
<1>7. Slips' \subseteq Slips \cup {m}
    <2> SUFFICES ASSUME NEW i \in Ids, NEW s \in Schedule, <<i, s>> \in Slips'
                 PROVE  <<i, s>> \in Slips \cup {m}
        BY DEF Slips
    <2> QED
        BY <1>1, <1>6 DEF Slips
<1> HIDE DEF m
<1>8. Cardinality(Slips') <= crashes'
    <2>1. IsFiniteSet(Slips)
        BY SlipsFinite, FS_Subset DEF Slips
    <2>2. /\ IsFiniteSet(Slips \cup {m})
          /\ Cardinality(Slips \cup {m}) <= Cardinality(Slips) + 1
          /\ Cardinality(Slips) \in Nat /\ Cardinality(Slips \cup {m}) \in Nat
        BY <2>1, FS_AddElement, FS_CardinalityType
    <2>3. Cardinality(Slips') <= Cardinality(Slips \cup {m}) /\ IsFiniteSet(Slips')
        BY <1>7, <2>2, FS_Subset
    <2>4. Cardinality(Slips') \in Nat
        BY <2>3, FS_CardinalityType
    <2> QED
        BY <1>1, <2>2, <2>3, <2>4 DEF MailInv
<1> QED
    BY <1>1, <1>4, <1>5, <1>8 DEF MailInv

-----------------------------------------------------------------------------
(* A session that reads leaves the mails alone. *)
LEMMA Reading ==
    ASSUME NEW h, NEW p, NEW e, NEW i, NEW c,
           \/ CreateCase(h, p, e) \/ GiveAccess(h, p, e) \/ ChangeAddress(h, p, e)
           \/ RemovePerson(h, p) \/ Resend(h, p) \/ ResendPublic(h, i) \/ Activate(h, i)
           \/ DeleteCase(h, c)
           \/ NotShared(h) \/ NotTaken(h) \/ Relink(h) \/ Rotate(h)
    PROVE  UNCHANGED <<mailed, run, crashes>>
<1>1. \A w : Plan(h, w) => UNCHANGED <<mailed, run, crashes>>
    BY DEF Plan
<1>2. \A r : Reads(h, r) => UNCHANGED <<mailed, run, crashes>>
    BY DEF Reads
<1>3. CASE CreateCase(h, p, e)
    BY <1>1, <1>3 DEF CreateCase, Begin
<1>4. CASE GiveAccess(h, p, e)
    BY <1>1, <1>4 DEF GiveAccess, Begin
<1>5. CASE ChangeAddress(h, p, e)
    BY <1>2, <1>5 DEF ChangeAddress
<1>6. CASE RemovePerson(h, p)
    BY <1>1, <1>6 DEF RemovePerson, Begin
<1>7. CASE Resend(h, p)
    BY <1>2, <1>7 DEF Resend, AskRotation
<1>8. CASE ResendPublic(h, i)
    BY <1>2, <1>8 DEF ResendPublic, AskRotation
<1>9. CASE Activate(h, i)
    BY <1>1, <1>9 DEF Activate, Begin
<1>10. CASE DeleteCase(h, c)
    BY <1>1, <1>10 DEF DeleteCase, Begin
<1>11. CASE NotShared(h) \/ NotTaken(h)
    BY <1>2, <1>11 DEF NotShared, NotTaken
<1>12. CASE Relink(h) \/ Rotate(h)
    BY <1>1, <1>12 DEF Relink, Rotate
<1> QED
    BY <1>3, <1>4, <1>5, <1>6, <1>7, <1>8, <1>9, <1>10, <1>11, <1>12

(* A step is one of a run, or leaves the stages alone. *)
LEMMA NextQuiet ==
    ASSUME TypeInv, [Next]_vars
    PROVE  \/ TypeInv' /\ Stays /\ UNCHANGED <<mailed, run, crashes>>
           \/ \E j \in Runs : \/ Tick(j) \/ Remind(j) \/ Record(j)
                              \/ RemindFails(j) \/ EndRun(j) \/ Crash(j)
<1>1. ASSUME NEW h \in Handlers, NEW p \in Persons, NEW e \in Accounts,
             CreateCase(h, p, e) \/ GiveAccess(h, p, e) \/ ChangeAddress(h, p, e)
      PROVE  TypeInv' /\ Stays /\ UNCHANGED <<mailed, run, crashes>>
    BY <1>1, AddressTyped, Reading
<1>2. ASSUME NEW h \in Handlers,
             \/ \E p \in Persons : RemovePerson(h, p) \/ Resend(h, p)
             \/ \E i \in Ids : ResendPublic(h, i) \/ Activate(h, i)
             \/ \E c \in Cases : DeleteCase(h, c)
      PROVE  TypeInv' /\ Stays /\ UNCHANGED <<mailed, run, crashes>>
    BY <1>2, OtherTyped, Reading
<1>7. ASSUME NEW h \in Handlers, NotShared(h) \/ NotTaken(h) \/ Relink(h) \/ Rotate(h)
      PROVE  TypeInv' /\ Stays /\ UNCHANGED <<mailed, run, crashes>>
    BY <1>7, MoreTyped, Reading
<1>3. ASSUME NEW h \in Handlers, Commit(h)
      PROVE  TypeInv' /\ Stays /\ UNCHANGED <<mailed, run, crashes>>
    BY <1>3, CommitTyped DEF Commit
<1>4. ASSUME NEW h \in Handlers, Rollback(h)
      PROVE  TypeInv' /\ Stays /\ UNCHANGED <<mailed, run, crashes>>
    BY <1>4 DEF Rollback, database, TypeInv, ColumnsOK, WritesOK, WriteOK, Writing, RunsOK, Loaded, Stays
<1>5. ASSUME NEW i \in Ids, Age(i)
      PROVE  TypeInv' /\ Stays /\ UNCHANGED <<mailed, run, crashes>>
    BY <1>5, AgeTyped DEF Age
<1>6. CASE UNCHANGED vars
    BY <1>6 DEF vars, TypeInv, ColumnsOK, WritesOK, WriteOK, Writing, RunsOK, Loaded, Stays
<1> QED
    BY <1>1, <1>2, <1>3, <1>4, <1>5, <1>6, <1>7 DEF Next

LEMMA NextTyped == TypeInv /\ [Next]_vars => TypeInv'
BY NextQuiet, RunTyped

LEMMA NextMail ==
    ASSUME TypeInv, MailInv, RunsApart, [Next]_vars
    PROVE  MailInv'
BY NextQuiet, MailStays, TickMail, RemindMail, RecordMail, EndsMail, CrashMail

LEMMA InitMail == Init => TypeInv /\ MailInv
<1> SUFFICES ASSUME Init PROVE TypeInv /\ MailInv
    OBVIOUS
<1>1. TypeInv
    BY DEF Init, TypeInv, ColumnsOK, WritesOK, RunsOK
<1>2. Slips = {}
    BY DEF Init, Slips
<1>3. Cardinality(Slips) <= crashes
    BY <1>2, FS_EmptySet DEF Init
<1>4. MailInv
    BY <1>3 DEF Init, MailInv, Ahead, One
<1> QED
    BY <1>1, <1>4

-----------------------------------------------------------------------------
(* Every value of every column stays in its type, however many sessions    *)
(* and reminder runs interleave and whatever addresses they give: the      *)
(* stage a run writes is one it has loaded, the address a link carries is  *)
(* one of a person or of a row.                                            *)
THEOREM ActivationTypeCorrect == Spec => []TypeOK
<1>1. TypeInv => TypeOK
    BY DEF TypeInv, ColumnsOK, WritesOK, Writing, Correction, Rotation, Idle, TypeOK
<1>2. Init => TypeInv
    BY InitMail
<1> QED
    BY <1>1, <1>2, NextTyped, PTL DEF Spec

(* As long as no two runs have one row on their lists, each stage of an    *)
(* invitation is mailed once, but for one mail at most by run that died    *)
(* before writing it down: any number of sessions, cases, persons,         *)
(* invitations, runs and crashes, however addresses are given.             *)
THEOREM ActivationRemindedOnce == Spec /\ []RunsApart => []RemindedOnce
<1>1. MailInv => RemindedOnce
    <2> SUFFICES ASSUME MailInv PROVE RemindedOnce
        OBVIOUS
    <2>1. \A i \in Ids, s \in Schedule : mailed[i][s] <= 1 + crashes
        BY DEF MailInv, One
    <2>2. Repeated \subseteq Slips
        BY DEF Repeated, Slips
    <2>3. IsFiniteSet(Slips)
        BY SlipsFinite, FS_Subset DEF Slips
    <2>4. /\ Cardinality(Repeated) <= Cardinality(Slips)
          /\ Cardinality(Repeated) \in Nat /\ Cardinality(Slips) \in Nat
        BY <2>2, <2>3, FS_Subset, FS_CardinalityType
    <2> QED
        BY <2>1, <2>4 DEF MailInv, RemindedOnce
<1>2. TypeInv /\ MailInv /\ RunsApart /\ [Next]_vars => (TypeInv /\ MailInv)'
    BY NextTyped, NextMail
<1> QED
    BY <1>1, <1>2, InitMail, PTL DEF Spec

-----------------------------------------------------------------------------
(* The door.                                                               *)

(* What a session is about to write mints the links of the accounts it     *)
(* gives, and activates the accounts of the links it accepts.              *)
Safe(w) ==
    /\ \A p \in DOMAIN w.link : w.link[p] # Gone => <<CaseOf[p], w.link[p]>> \in w.mint
    /\ w.mint = {} \/ \E m \in Cases \X Accounts : w.mint = {m}
    /\ \A i \in w.accept : i \in DOMAIN inv /\ inv[i].email \in w.activate
    /\ w.cancel \subseteq DOMAIN inv

(* Who waits for a link has one that outlives every session at work: if    *)
(* one of them cancels it, it mints another for the same address, or it    *)
(* moves the person.                                                       *)
Covers(w, p) == p \in DOMAIN w.link \/ <<CaseOf[p], link[p]>> \in w.mint
Lasts(p, i) ==
    /\ i \in Pending(CaseOf[p], link[p])
    /\ \A h \in Handlers :
          Writing(h) /\ i \in job[h].write.cancel => Covers(job[h].write, p)
Held(p) == link[p] \in Accounts \ active => \E i \in DOMAIN inv : Lasts(p, i)

AllSafe == \A h \in Handlers : Writing(h) => Safe(job[h].write)
DoorInv == AllSafe /\ \A p \in Persons : Held(p)

(* No row changes but in its age and its stage. *)
SameLinks == /\ DOMAIN inv' = DOMAIN inv
             /\ \A i \in DOMAIN inv : /\ inv'[i].case = inv[i].case
                                      /\ inv'[i].email = inv[i].email
                                      /\ inv'[i].status = inv[i].status

LEMMA DoorStays ==
    ASSUME DoorInv, SameLinks, UNCHANGED <<link, active, job>>
    PROVE  DoorInv'
<1>1. AllSafe'
    BY DEF DoorInv, AllSafe, Safe, Writing, SameLinks
<1>2. \A p, i : Lasts(p, i) => Lasts(p, i)'
    BY DEF Lasts, Pending, Covers, Writing, SameLinks
<1>3. \A p \in Persons : Held(p)'
    BY <1>2 DEF DoorInv, Held, SameLinks
<1> QED
    BY <1>1, <1>3 DEF DoorInv

(* A session that reads, or gives up. *)
LEMMA DoorReads ==
    ASSUME TypeInv, DoorInv, NEW h \in Handlers, NEW r, r.at # "writing",
           UNCHANGED database, job' = [job EXCEPT ![h] = r]
    PROVE  DoorInv'
<1>1. \A g \in Handlers : Writing(g)' => Writing(g) /\ job'[g] = job[g]
    BY DEF TypeInv, WritesOK, Writing
<1>2. AllSafe'
    BY <1>1 DEF DoorInv, AllSafe, Safe, database
<1>3. \A p, i : Lasts(p, i) => Lasts(p, i)'
    BY <1>1 DEF Lasts, Pending, Covers, database
<1>4. \A p \in Persons : Held(p)'
    BY <1>3 DEF DoorInv, Held, database
<1> QED
    BY <1>2, <1>4 DEF DoorInv

(* A session about to write, whose cancellations are covered. *)
LEMMA DoorPlan ==
    ASSUME TypeInv, DoorInv, NEW h \in Handlers, NEW w, Plan(h, w), Safe(w),
           \A p \in Persons : \A i \in w.cancel :
               link[p] \in Accounts /\ Lasts(p, i) => Covers(w, p)
    PROVE  DoorInv'
<1>1. UNCHANGED <<case, link, active, inv>>
      /\ job' = [job EXCEPT ![h] = [at |-> "writing", write |-> w]]
    BY DEF Plan, database
<1>2. /\ job'[h].write = w
      /\ \A g \in Handlers \ {h} : job'[g] = job[g]
    BY <1>1 DEF TypeInv, WritesOK
<1>3. AllSafe'
    <2> SUFFICES ASSUME NEW g \in Handlers, Writing(g)' PROVE Safe(job[g].write)'
        BY DEF AllSafe
    <2>1. \A v : Safe(v) => Safe(v)'
        BY <1>1 DEF Safe
    <2>2. CASE g = h
        BY <1>2, <2>1, <2>2
    <2>3. CASE g # h
        BY <1>2, <2>1, <2>3 DEF DoorInv, AllSafe, Writing
    <2> QED
        BY <2>2, <2>3
<1>4. ASSUME NEW p \in Persons, link[p] \in Accounts, NEW i, Lasts(p, i)
      PROVE  Lasts(p, i)'
    <2>1. i \in Pending(CaseOf[p], link[p])'
        BY <1>1, <1>4 DEF Lasts, Pending
    <2> SUFFICES ASSUME NEW g \in Handlers, Writing(g)', i \in job'[g].write.cancel
                 PROVE  Covers(job[g].write, p)'
        BY <2>1 DEF Lasts
    <2>2. \A v : Covers(v, p) => Covers(v, p)'
        BY <1>1 DEF Covers
    <2>3. CASE g = h
        BY <1>2, <1>4, <2>2, <2>3
    <2>4. CASE g # h
        BY <1>2, <1>4, <2>2, <2>4 DEF Lasts, Writing
    <2> QED
        BY <2>3, <2>4
<1>5. \A p \in Persons : Held(p)'
    BY <1>1, <1>4 DEF DoorInv, Held
<1> QED
    BY <1>3, <1>5 DEF DoorInv

LEMMA DoorPlanNoCancel ==
    ASSUME TypeInv, DoorInv, NEW h \in Handlers, NEW w, Begin(h, w), Safe(w), w.cancel = {}
    PROVE  DoorInv'
BY DoorPlan DEF Begin

LEMMA DoorGive ==
    ASSUME TypeInv, DoorInv, NEW h \in Handlers, NEW p \in Persons, NEW e \in Accounts,
           CreateCase(h, p, e) \/ GiveAccess(h, p, e)
    PROVE  DoorInv'
<1>1. <<CaseOf[p], e>> \in Cases \X Accounts
    BY ActivationAssumption
<1>2. CASE CreateCase(h, p, e)
    <2> DEFINE w == [NoWrite EXCEPT !.case = [c \in {CaseOf[p]} |-> "open"],
                                    !.link = [q \in {p} |-> e], !.mint = {<<CaseOf[p], e>>}]
    <2>1. Safe(w) /\ w.cancel = {}
        BY <1>1 DEF Safe, NoWrite
    <2>2. Begin(h, w)
        BY <1>2 DEF CreateCase
    <2> HIDE DEF w
    <2> QED
        BY <2>1, <2>2, DoorPlanNoCancel
<1>3. CASE GiveAccess(h, p, e)
    <2> DEFINE w == [NoWrite EXCEPT !.link = [q \in {p} |-> e], !.mint = {<<CaseOf[p], e>>}]
    <2>1. Safe(w) /\ w.cancel = {}
        BY <1>1 DEF Safe, NoWrite
    <2>2. Begin(h, w)
        BY <1>3 DEF GiveAccess
    <2> HIDE DEF w
    <2> QED
        BY <2>1, <2>2, DoorPlanNoCancel
<1> QED
    BY <1>2, <1>3

LEMMA DoorRemove ==
    ASSUME TypeInv, DoorInv, NEW h \in Handlers, NEW p \in Persons, RemovePerson(h, p)
    PROVE  DoorInv'
<1> DEFINE w == [NoWrite EXCEPT !.link = [q \in {p} |-> Gone]]
<1>1. Safe(w) /\ w.cancel = {}
    BY DEF Safe, NoWrite
<1> QED
    BY <1>1, DoorPlanNoCancel DEF RemovePerson

LEMMA DoorActivate ==
    ASSUME TypeInv, DoorInv, NEW h \in Handlers, NEW i, Activate(h, i)
    PROVE  DoorInv'
<1> DEFINE w == [NoWrite EXCEPT !.accept = {i}, !.activate = {inv[i].email}]
<1>1. Safe(w) /\ w.cancel = {}
    BY DEF Activate, Safe, NoWrite, Nowhere
<1> QED
    BY <1>1, DoorPlanNoCancel DEF Activate

LEMMA DoorDelete ==
    ASSUME TypeInv, DoorInv, NEW h \in Handlers, NEW c, DeleteCase(h, c)
    PROVE  DoorInv'
<1> DEFINE w == [NoWrite EXCEPT !.case = [x \in {c} |-> "deleted"]]
<1>1. Safe(w) /\ w.cancel = {}
    BY DEF Safe, NoWrite, Nowhere
<1> QED
    BY <1>1, DoorPlanNoCancel DEF DeleteCase

LEMMA DoorRotate ==
    ASSUME TypeInv, DoorInv, NEW h \in Handlers, Rotate(h)
    PROVE  DoorInv'
<1> DEFINE c == job[h].case
           e == job[h].email
           w == [NoWrite EXCEPT !.cancel = Pending(c, e), !.mint = {<<c, e>>}]
<1>1. c \in Cases /\ e \in Accounts
    BY ReadTyped DEF Rotate, Rotation
<1>2. Plan(h, w)
    BY DEF Rotate
<1>3. /\ w.link = Nowhere /\ w.mint = {<<c, e>>} /\ w.accept = {}
      /\ w.cancel = Pending(c, e)
    BY DEF NoWrite
<1> HIDE DEF w, c, e
<1>4. Safe(w)
    <2>1. <<c, e>> \in Cases \X Accounts
        BY <1>1
    <2> QED
        BY <1>3, <2>1 DEF Safe, Pending, Nowhere
<1>5. ASSUME NEW p \in Persons, NEW i \in w.cancel, Lasts(p, i)
      PROVE  Covers(w, p)
    BY <1>3, <1>5 DEF Lasts, Pending, Covers
<1> QED
    BY <1>2, <1>4, <1>5, DoorPlan

(* The person still has the account that was loaded, which is not active:  *)
(* a link to it is there, and nobody else of the case has this account.    *)
LEMMA DoorRelink ==
    ASSUME TypeInv, DoorInv, Undisturbed, OwnAddress, NEW h \in Handlers, Relink(h)
    PROVE  DoorInv'
<1> DEFINE r == job[h]
           p == r.person
           c == CaseOf[p]
           cancelled == Pending(c, r.old)
           w == [NoWrite EXCEPT !.link = [q \in {p} |-> r.email], !.cancel = cancelled,
                                !.mint = IF cancelled = {} THEN {} ELSE {<<c, r.email>>}]
<1>1. r \in Correction /\ r.at = "free"
    BY ReadTyped DEF Relink
<1>2. p \in Persons /\ r.email \in Accounts /\ r.old \in Accounts /\ c \in Cases
    BY <1>1, ActivationAssumption DEF Correction
<1>3. link[p] = r.old /\ r.old \notin active
    BY <1>1 DEF Undisturbed
<1>4. cancelled # {}
    BY <1>2, <1>3 DEF DoorInv, Held, Lasts
<1>5. Plan(h, w)
    BY DEF Relink
<1>6. /\ DOMAIN w.link = {p} /\ w.link[p] = r.email /\ w.accept = {}
      /\ w.cancel = cancelled /\ w.mint = {<<c, r.email>>}
    BY <1>4 DEF NoWrite
<1> HIDE DEF w, r
<1>7. Safe(w)
    <2>1. <<c, r.email>> \in Cases \X Accounts
        BY <1>2
    <2> QED
        BY <1>6, <2>1 DEF Safe, Pending
<1>8. ASSUME NEW q \in Persons, NEW i \in w.cancel, link[q] \in Accounts, Lasts(q, i)
      PROVE  Covers(w, q)
    <2>1. CaseOf[q] = c /\ link[q] = link[p]
        BY <1>3, <1>6, <1>8 DEF Lasts, Pending
    <2>2. q = p
        BY <1>2, <1>8, <2>1 DEF OwnAddress
    <2> QED
        BY <1>6, <2>2 DEF Covers
<1> QED
    BY <1>5, <1>7, <1>8, DoorPlan

(* What a commit does to the table: the statuses it read, and at most one   *)
(* row more, for the pair it mints.                                        *)
LEMMA CommitWrites ==
    ASSUME TypeInv, DoorInv, NEW h \in Handlers, Commit(h)
    PROVE  /\ inv' \in Seq(Invitation)
           /\ \A i \in DOMAIN inv : /\ i \in DOMAIN inv'
                                   /\ inv'[i].case = inv[i].case
                                   /\ inv'[i].email = inv[i].email
                                   /\ inv'[i].status = Status(job[h].write, i)
           /\ \A c, e : <<c, e>> \in job[h].write.mint =>
                  \E i \in DOMAIN inv' \ DOMAIN inv :
                      inv'[i].case = c /\ inv'[i].email = e /\ inv'[i].status = "pending"
<1> DEFINE w == job[h].write
           base == [i \in DOMAIN inv |-> [inv[i] EXCEPT !.status = Status(w, i)]]
<1>1. Safe(w)
    BY DEF DoorInv, AllSafe, Commit
<1>2. PICK new \in {<<r>> : r \in New(w)} \cup (IF w.mint = {} THEN {<<>>} ELSE {}) :
          inv' = base \o new
    BY DEF Commit
<1> HIDE DEF w
<1>3. w.mint = {} => new = <<>>
    BY <1>2 DEF New
<1>4. ASSUME NEW m \in Cases \X Accounts, w.mint = {m}
      PROVE  new = <<[case |-> m[1], email |-> m[2], status |-> "pending", age |-> 0, stage |-> 0]>>
    BY <1>2, <1>4 DEF New
<1>5. new = <<>> \/ \E r \in Invitation : new = <<r>>
    BY <1>1, <1>3, <1>4 DEF Safe, Invitation, Ages, Schedule
<1>6. new \in Seq(Invitation) /\ Len(new) \in {0, 1}
    <2>1. CASE new = <<>>
        BY <2>1
    <2>2. CASE \E r \in Invitation : new = <<r>>
        BY <2>2
    <2> QED
        BY <1>5, <2>1, <2>2
<1>7. base \in Seq(Invitation) /\ Len(base) = Len(inv) /\ DOMAIN base = DOMAIN inv
    <2>1. \A i \in DOMAIN inv : base[i] \in Invitation
        BY RowType DEF Invitation, Status, TypeInv
    <2>2. inv \in Seq(Invitation)
        BY DEF TypeInv, ColumnsOK
    <2>3. DOMAIN inv = 1..Len(inv) /\ Len(inv) \in Nat
        BY <2>2
    <2> QED
        BY <2>1, <2>3
<1>8. DOMAIN inv = 1..Len(inv) /\ Len(inv) \in Nat
    BY DEF TypeInv, ColumnsOK
<1>9. \A i \in DOMAIN inv : /\ base[i].case = inv[i].case /\ base[i].email = inv[i].email
                            /\ base[i].status = Status(w, i)
    BY RowType DEF Invitation, TypeInv
<1> HIDE DEF base
<1>10. /\ inv' \in Seq(Invitation) /\ DOMAIN inv' = 1..(Len(inv) + Len(new))
       /\ \A i \in DOMAIN inv : i \in DOMAIN inv' /\ inv'[i] = base[i]
       /\ \A i \in DOMAIN inv' \ DOMAIN inv : inv'[i] = new[i - Len(inv)]
    <2>1. /\ inv' \in Seq(Invitation) /\ Len(inv') = Len(inv) + Len(new)
          /\ \A i \in 1..(Len(inv) + Len(new)) :
                inv'[i] = IF i <= Len(inv) THEN base[i] ELSE new[i - Len(inv)]
        BY <1>2, <1>6, <1>7, ConcatProperties
    <2> QED
        BY <1>6, <1>8, <2>1
<1>11. ASSUME NEW m \in Cases \X Accounts, w.mint = {m}
       PROVE  /\ Len(inv) + 1 \in DOMAIN inv' \ DOMAIN inv /\ inv'[Len(inv) + 1].case = m[1]
              /\ inv'[Len(inv) + 1].email = m[2] /\ inv'[Len(inv) + 1].status = "pending"
    <2>1. new[1] = [case |-> m[1], email |-> m[2], status |-> "pending", age |-> 0, stage |-> 0]
          /\ Len(new) = 1
        BY <1>4, <1>11
    <2>2. Len(inv) + 1 \in DOMAIN inv' \ DOMAIN inv /\ (Len(inv) + 1) - Len(inv) = 1
        BY <1>8, <1>10, <2>1
    <2>3. inv'[Len(inv) + 1] = new[1]
        BY <1>10, <2>2
    <2> QED
        BY <2>1, <2>2, <2>3
<1>12. ASSUME NEW c, NEW e, <<c, e>> \in w.mint
       PROVE  \E i \in DOMAIN inv' \ DOMAIN inv :
                  inv'[i].case = c /\ inv'[i].email = e /\ inv'[i].status = "pending"
    <2>1. PICK m \in Cases \X Accounts : w.mint = {m}
        BY <1>1, <1>12 DEF Safe
    <2>2. m = <<c, e>>
        BY <1>12, <2>1
    <2> QED
        BY <1>11, <2>1, <2>2
<1> QED
    BY <1>9, <1>10, <1>12 DEF w

LEMMA DoorCommit ==
    ASSUME TypeInv, DoorInv, NEW h \in Handlers, Commit(h)
    PROVE  DoorInv'
<1> DEFINE w == job[h].write
<1>1. Safe(w) /\ WriteOK(w)
    BY DEF DoorInv, AllSafe, Commit, TypeInv, WritesOK, Writing, Correction, Rotation, Idle
<1>2. /\ link' = Update(w.link, link)
      /\ active' = active \cup w.activate
      /\ job' = [job EXCEPT ![h] = Idle]
    BY DEF Commit
<1>3. /\ inv' \in Seq(Invitation)
      /\ \A i \in DOMAIN inv : /\ i \in DOMAIN inv'
                              /\ inv'[i].case = inv[i].case /\ inv'[i].email = inv[i].email
                              /\ inv'[i].status = Status(w, i)
      /\ \A c, e : <<c, e>> \in w.mint =>
             \E i \in DOMAIN inv' \ DOMAIN inv : /\ inv'[i].case = c /\ inv'[i].email = e
                                                 /\ inv'[i].status = "pending"
    BY CommitWrites
<1> HIDE DEF w
<1>4. \A g \in Handlers : Writing(g)' => Writing(g) /\ job'[g] = job[g]
    BY <1>2 DEF TypeInv, WritesOK, Writing, Idle
<1>5. AllSafe'
    <2> SUFFICES ASSUME NEW g \in Handlers, Writing(g)' PROVE Safe(job[g].write)'
        BY DEF AllSafe
    <2>1. Safe(job[g].write)
        BY <1>4 DEF DoorInv, AllSafe
    <2>2. \A v : Safe(v) => Safe(v)'
        BY <1>3 DEF Safe
    <2> QED
        BY <1>4, <2>1, <2>2
(* A row that was just minted: no session has read it. *)
<1>6. ASSUME NEW p \in Persons, <<CaseOf[p], link'[p]>> \in w.mint
      PROVE  \E i \in DOMAIN inv' : Lasts(p, i)'
    <2>1. PICK i \in DOMAIN inv' \ DOMAIN inv :
              inv'[i].case = CaseOf[p] /\ inv'[i].email = link'[p] /\ inv'[i].status = "pending"
        BY <1>3, <1>6
    <2>2. i \in Pending(CaseOf[p], link[p])'
        BY <2>1 DEF Pending
    <2>3. \A g \in Handlers : Writing(g)' => i \notin job'[g].write.cancel
        BY <1>4, <2>1 DEF DoorInv, AllSafe, Safe
    <2> QED
        BY <2>2, <2>3 DEF Lasts
<1>7. ASSUME NEW p \in Persons, link'[p] \in Accounts \ active'
      PROVE  \E i \in DOMAIN inv' : Lasts(p, i)'
    <2>1. CASE p \in DOMAIN w.link
        <3>1. link'[p] = w.link[p] /\ w.link[p] # Gone
            BY <1>2, <1>7, <2>1, ActivationAssumption DEF Update, TypeInv, ColumnsOK
        <3> QED
            BY <1>1, <1>6, <2>1, <3>1 DEF Safe
    <2>2. CASE p \notin DOMAIN w.link
        <3>1. link'[p] = link[p]
            BY <1>2, <2>2 DEF Update, TypeInv, ColumnsOK
        <3>2. PICK i \in DOMAIN inv : Lasts(p, i)
            BY <1>2, <1>7, <3>1 DEF DoorInv, Held
        <3>3. inv[i].case = CaseOf[p] /\ inv[i].email = link[p] /\ inv[i].status = "pending"
            BY <3>2 DEF Lasts, Pending
        <3>4. i \notin w.accept
            BY <1>1, <1>2, <1>7, <3>1, <3>3 DEF Safe
        <3>5. CASE i \in w.cancel
            <4>1. Covers(w, p)
                BY <3>2, <3>5 DEF Lasts, Commit, w
            <4> QED
                BY <1>6, <2>2, <3>1, <4>1 DEF Covers
        <3>6. CASE i \notin w.cancel
            <4>1. i \in Pending(CaseOf[p], link[p])'
                BY <1>3, <3>1, <3>3, <3>4, <3>6 DEF Status, Pending
            <4>2. \A g \in Handlers :
                      Writing(g)' /\ i \in job'[g].write.cancel => Covers(job[g].write, p)'
                BY <1>4, <3>1, <3>2 DEF Lasts, Covers
            <4> QED
                BY <1>3, <4>1, <4>2 DEF Lasts
        <3> QED
            BY <3>5, <3>6
    <2> QED
        BY <2>1, <2>2
<1> QED
    BY <1>5, <1>7 DEF DoorInv, Held

(* Time and the reminder runs move no invitation to another address. *)
LEMMA DoorOneRow ==
    ASSUME TypeInv, DoorInv, NEW i, NEW r, inv' = [inv EXCEPT ![i] = r],
           i \in DOMAIN inv =>
               r.case = inv[i].case /\ r.email = inv[i].email /\ r.status = inv[i].status,
           UNCHANGED <<link, active, job>>
    PROVE  DoorInv'
<1>1. SameLinks
    BY DEF SameLinks, TypeInv, ColumnsOK
<1> QED
    BY <1>1, DoorStays

LEMMA DoorAge ==
    ASSUME TypeInv, DoorInv, NEW i \in Ids, Age(i)
    PROVE  DoorInv'
<1> DEFINE r == [inv[i] EXCEPT !.age = Older(@)]
<1>1. i \in DOMAIN inv => r.case = inv[i].case /\ r.email = inv[i].email /\ r.status = inv[i].status
    BY RowType DEF Invitation, TypeInv
<1>2. inv' = [inv EXCEPT ![i] = r] /\ UNCHANGED <<link, active, job>>
    BY DEF Age
<1> HIDE DEF r
<1> QED
    BY <1>1, <1>2, DoorOneRow

LEMMA DoorRun ==
    ASSUME TypeInv, DoorInv, NEW j \in Runs,
           Tick(j) \/ Remind(j) \/ Record(j) \/ RemindFails(j) \/ EndRun(j) \/ Crash(j)
    PROVE  DoorInv'
<1>1. CASE Record(j)
    <2> DEFINE i == First(run[j].todo)
               r == [inv[i] EXCEPT !.stage = run[j].stage[i]]
    <2>1. i \in DOMAIN inv =>
              r.case = inv[i].case /\ r.email = inv[i].email /\ r.status = inv[i].status
        BY RowType DEF Invitation, TypeInv
    <2>2. inv' = [inv EXCEPT ![i] = r] /\ UNCHANGED <<link, active, job>>
        BY <1>1 DEF Record
    <2> HIDE DEF r, i
    <2> QED
        BY <2>1, <2>2, DoorOneRow
<1>2. CASE ~Record(j)
    <2>1. UNCHANGED <<inv, link, active, job>>
        BY <1>2 DEF Tick, Remind, RemindFails, EndRun, Crash, database
    <2>2. SameLinks
        BY <2>1 DEF SameLinks
    <2> QED
        BY <2>1, <2>2, DoorStays
<1> QED
    BY <1>1, <1>2

LEMMA NextDoor ==
    ASSUME TypeInv, DoorInv, Undisturbed, OwnAddress, [Next]_vars
    PROVE  DoorInv'
<1>1. ASSUME NEW h \in Handlers, NEW p \in Persons, NEW e \in Accounts,
             CreateCase(h, p, e) \/ GiveAccess(h, p, e) \/ ChangeAddress(h, p, e)
      PROVE  DoorInv'
    <2>1. CASE ChangeAddress(h, p, e)
        BY <2>1, DoorReads DEF ChangeAddress, Reads
    <2> QED
        BY <1>1, <2>1, DoorGive
<1>2. ASSUME NEW h \in Handlers, NEW c, NEW e, AskRotation(h, c, e)
      PROVE  DoorInv'
    BY <1>2, DoorReads DEF AskRotation, Reads
<1>3. ASSUME NEW h \in Handlers,
             \/ \E p \in Persons : RemovePerson(h, p) \/ Resend(h, p)
             \/ \E i \in Ids : ResendPublic(h, i) \/ Activate(h, i)
             \/ \E c \in Cases : DeleteCase(h, c)
      PROVE  DoorInv'
    <2>1. ASSUME NEW p \in Persons, Resend(h, p) PROVE DoorInv'
        BY <1>2, <2>1 DEF Resend
    <2>2. ASSUME NEW i \in Ids, ResendPublic(h, i) PROVE DoorInv'
        BY <1>2, <2>2 DEF ResendPublic
    <2> QED
        BY <1>3, <2>1, <2>2, DoorRemove, DoorActivate, DoorDelete
<1>4. ASSUME NEW h \in Handlers, NotShared(h) \/ NotTaken(h)
      PROVE  DoorInv'
    <2>1. PICK a \in {"unshared", "free"} :
              UNCHANGED database /\ job' = [job EXCEPT ![h] = [job[h] EXCEPT !.at = a]]
        BY <1>4 DEF NotShared, NotTaken, Reads
    <2>2. job[h] \in Correction
        BY <1>4, ReadTyped DEF NotShared, NotTaken
    <2>3. [job[h] EXCEPT !.at = a].at # "writing"
        BY <2>2 DEF Correction
    <2> QED
        BY <2>1, <2>3, DoorReads
<1>5. ASSUME NEW h \in Handlers, Relink(h) \/ Rotate(h) \/ Commit(h)
      PROVE  DoorInv'
    BY <1>5, DoorRelink, DoorRotate, DoorCommit
<1>6. ASSUME NEW h \in Handlers, Rollback(h)
      PROVE  DoorInv'
    BY <1>6, DoorReads DEF Rollback, Idle
<1>7. ASSUME NEW i \in Ids, Age(i)
      PROVE  DoorInv'
    BY <1>7, DoorAge
<1>8. CASE UNCHANGED vars
    BY <1>8, DoorStays DEF vars, SameLinks
<1> QED
    BY <1>1, <1>3, <1>4, <1>5, <1>6, <1>7, <1>8, DoorRun DEF Next

(* Whoever waits on an open case holds a link, through every overlap of    *)
(* corrections, rotations, expiries, removals and activations, for any     *)
(* number of sessions, cases, persons, invitations and reminder runs:      *)
(* unless a commit slips between the reads of a correction, or two persons *)
(* of a case come to have one address.                                     *)
THEOREM ActivationDoorStaysOpen ==
    Spec /\ [](Undisturbed /\ OwnAddress) => []DoorStaysOpen
<1>1. TypeInv /\ DoorInv => DoorStaysOpen
    BY DEF DoorInv, Held, Lasts, DoorStaysOpen
<1>2. Init => DoorInv
    <2> SUFFICES ASSUME Init PROVE DoorInv
        OBVIOUS
    <2>1. AllSafe
        BY DEF Init, AllSafe, Writing, Idle
    <2>2. \A p \in Persons : Held(p)
        BY ActivationAssumption DEF Init, Held
    <2> QED
        BY <2>1, <2>2 DEF DoorInv
<1>3. Init => TypeInv
    BY InitMail
<1>4. TypeInv /\ DoorInv /\ (Undisturbed /\ OwnAddress) /\ [Next]_vars => DoorInv'
    BY NextDoor
<1> QED
    BY <1>1, <1>2, <1>3, <1>4, NextTyped, PTL DEF Spec
=================================================================================
