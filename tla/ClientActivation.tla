---------------------------- MODULE ClientActivation ----------------------------
(***************************************************************************)
(* How a client enters: the invitation links of the persons of a case, the *)
(* account they activate, and the reminders at three and seven days        *)
(* (src/cases/cases_manager.py, src/auth/auth_manager.py,                  *)
(* src/cases/activation_jobs.py).  One account per address, shared by      *)
(* every case that names it: an invitation belongs to a case and an        *)
(* address, the activation to the address alone.                           *)
(*                                                                         *)
(* Agents and clients are sessions that read and write at their commit; a  *)
(* correction of an address and a rotation read in several steps.  The     *)
(* reminder job loads its rows once, and mails and commits row by row.     *)
(***************************************************************************)
EXTENDS Integers, Sequences, FiniteSets

CONSTANTS
    Handlers,        \* sessions of agents and clients
    Runs,            \* runs of the job
    Cases,
    Persons,         \* who may be on a case
    CaseOf,          \* the case of each person
    Principals,      \* the holders, created with their case
    Accounts,        \* addresses: one expat_user each
    MayUse,          \* the addresses an agent may type for a person
    Muted,           \* cases of agencies that cut the reminders
    Refused,         \* addresses the mail provider refuses
    MaxInvitations,  \* bound: invitations written
    MaxCrashes       \* bound: job runs that die

Nobody == "nobody"   \* the person is not on the case, or has no account
Gone == "gone"       \* removed from the case, for good

(* Age of an invitation: younger than the resend cooldown, younger than    *)
(* three days, then the days of SCHEDULE, then past expires_at.            *)
Ages == {0, 1, 3, 7, 14}
Schedule == {3, 7}

ASSUME ActivationAssumption ==
    /\ CaseOf \in [Persons -> Cases]
    /\ Principals \subseteq Persons
    /\ MayUse \in [Persons -> SUBSET Accounts]
    /\ {Nobody, Gone} \cap Accounts = {}
    /\ {MaxInvitations, MaxCrashes} \subseteq Nat

VARIABLES
    case,    \* client_case: "none", "open", "deleted"
    link,    \* case_person.expat_user_id
    active,  \* accounts with activated_at
    inv,     \* case_invitation, in the order of created_at
    mailed,  \* reminders that left, per invitation and stage
    job,     \* what each session has read, then what it is about to write
    run,     \* the reminder runs
    crashes  \* runs that died

vars == <<case, link, active, inv, mailed, job, run, crashes>>
database == <<case, link, active, inv>>

Invitation == [case: Cases, email: Accounts,
               status: {"pending", "accepted", "cancelled"},
               age: Ages, stage: {0} \cup Schedule]
Ids == 1..MaxInvitations

Partial(S, T) == UNION {[D -> T] : D \in SUBSET S}
Update(g, f) == [x \in DOMAIN f |-> IF x \in DOMAIN g THEN g[x] ELSE f[x]]
Nowhere == [x \in {} |-> x]

Write == [case: Partial(Cases, {"open", "deleted"}),
          link: Partial(Persons, Accounts \cup {Gone}),
          activate: SUBSET Accounts, accept: SUBSET Ids, cancel: SUBSET Ids,
          mint: SUBSET (Cases \X Accounts)]
NoWrite == [case |-> Nowhere, link |-> Nowhere, activate |-> {}, accept |-> {},
            cancel |-> {}, mint |-> {}]
Idle == [at |-> "idle"]

Init ==
    /\ case = [c \in Cases |-> "none"]
    /\ link = [p \in Persons |-> Nobody]
    /\ active = {}
    /\ inv = <<>>
    /\ mailed = [i \in Ids |-> [s \in Schedule |-> 0]]
    /\ job = [h \in Handlers |-> Idle]
    /\ run = [j \in Runs |-> Idle]
    /\ crashes = 0

-----------------------------------------------------------------------------
Writing(g) == job[g].at = "writing"

Plan(h, w) ==
    /\ w.mint # {} => Len(inv) + Cardinality({g \in Handlers :
                         Writing(g) /\ job[g].write.mint # {}}) < MaxInvitations
    /\ job' = [job EXCEPT ![h] = [at |-> "writing", write |-> w]]
    /\ UNCHANGED <<database, mailed, run, crashes>>

Begin(h, w) == job[h] = Idle /\ Plan(h, w)

(* A session goes from one read to the next. *)
Reads(h, read) ==
    /\ job' = [job EXCEPT ![h] = read]
    /\ UNCHANGED <<database, mailed, run, crashes>>

(* _cancel_pending_invitations: expired ones too, their status is pending. *)
Pending(c, e) ==
    {i \in DOMAIN inv : inv[i].case = c /\ inv[i].email = e /\ inv[i].status = "pending"}

(* RESEND_COOLDOWN, on the created_at of any invitation of the pair. *)
JustSent(c, e) ==
    \E i \in DOMAIN inv : inv[i].case = c /\ inv[i].email = e /\ inv[i].age = 0

LinkedIn(c, e) == {p \in Persons : CaseOf[p] = c /\ link[p] = e}

(* A row is created once. *)
Untouched(p) == \A g \in Handlers : Writing(g) => p \notin DOMAIN job[g].write.link

(* create_case: the case, its holder and the invitation are one commit. *)
CreateCase(h, p, e) ==
    /\ p \in Principals /\ link[p] = Nobody /\ Untouched(p)
    /\ e \in MayUse[p]
    /\ Begin(h, [NoWrite EXCEPT !.case = [c \in {CaseOf[p]} |-> "open"],
                                !.link = [q \in {p} |-> e], !.mint = {<<CaseOf[p], e>>}])

(* add_person with an address, or an address for one who had none. *)
GiveAccess(h, p, e) ==
    /\ p \notin Principals /\ link[p] = Nobody
    /\ case[CaseOf[p]] = "open"
    /\ e \in MayUse[p]
    /\ Begin(h, [NoWrite EXCEPT !.link = [q \in {p} |-> e], !.mint = {<<CaseOf[p], e>>}])

(* delete_person: the invitation stays. *)
RemovePerson(h, p) ==
    /\ p \notin Principals /\ link[p] \in Accounts /\ case[CaseOf[p]] = "open"
    /\ Begin(h, [NoWrite EXCEPT !.link = [q \in {p} |-> Gone]])

(* update_person with another address loads the person and the account,    *)
(* which must not be active; asks whether another case uses it, whether    *)
(* the case has the new address; then reads the old links.  They die, and  *)
(* if there were any a new one leaves.                                     *)
ChangeAddress(h, p, e) ==
    /\ job[h] = Idle
    /\ link[p] \in Accounts \ {e} /\ case[CaseOf[p]] = "open" /\ e \in MayUse[p]
    /\ link[p] \notin active
    /\ Reads(h, [at |-> "loaded", person |-> p, old |-> link[p], email |-> e])

UsedElsewhere(e, c) ==
    \E q \in Persons : CaseOf[q] # c /\ link[q] = e

NotShared(h) ==
    /\ job[h].at = "loaded"
    /\ ~UsedElsewhere(job[h].old, CaseOf[job[h].person])
    /\ Reads(h, [job[h] EXCEPT !.at = "unshared"])

NotTaken(h) ==
    /\ job[h].at = "unshared"
    /\ LinkedIn(CaseOf[job[h].person], job[h].email) \ {job[h].person} = {}
    /\ Reads(h, [job[h] EXCEPT !.at = "free"])

\* Mutant: only a live link is replaced.
Relink_LiveOnly(h) ==
    LET r == job[h]
        c == CaseOf[r.person]
        cancelled == Pending(c, r.old) IN
    /\ r.at = "free"
    /\ Plan(h, [NoWrite EXCEPT !.link = [q \in {r.person} |-> r.email],
                               !.cancel = cancelled,
                               !.mint = IF \A i \in cancelled : inv[i].age = 14
                                        THEN {} ELSE {<<c, r.email>>}])

Relink(h) ==
    LET r == job[h]
        c == CaseOf[r.person]
        cancelled == Pending(c, r.old) IN
    /\ r.at = "free"
    /\ Plan(h, [NoWrite EXCEPT !.link = [q \in {r.person} |-> r.email],
                               !.cancel = cancelled,
                               !.mint = IF cancelled = {} THEN {} ELSE {<<c, r.email>>}])

(* resend_invitation and resend_activation share the rotation: what they   *)
(* ask first can only refuse, then the live links are read and replaced.   *)
AskRotation(h, c, e) ==
    /\ job[h] = Idle
    /\ case[c] = "open"
    /\ e \notin active
    /\ ~JustSent(c, e)
    /\ Reads(h, [at |-> "asked", case |-> c, email |-> e])

Rotate(h) ==
    LET c == job[h].case
        e == job[h].email IN
    /\ job[h].at = "asked"
    /\ Plan(h, [NoWrite EXCEPT !.cancel = Pending(c, e), !.mint = {<<c, e>>}])

Resend(h, p) ==
    /\ link[p] \in Accounts
    /\ AskRotation(h, CaseOf[p], link[p])

(* Any link but an accepted one asks for its successor, a cancelled one    *)
(* included.                                                               *)
ResendPublic(h, i) ==
    /\ i \in DOMAIN inv /\ inv[i].status # "accepted"
    /\ AskRotation(h, inv[i].case, inv[i].email)

(* activate_expat: an account that is active already keeps its password. *)
Activate(h, i) ==
    /\ i \in DOMAIN inv /\ inv[i].status = "pending" /\ inv[i].age < 14
    /\ Begin(h, [NoWrite EXCEPT !.accept = {i}, !.activate = {inv[i].email}])

(* bulk_delete *)
DeleteCase(h, c) ==
    /\ case[c] = "open"
    /\ Begin(h, [NoWrite EXCEPT !.case = [x \in {c} |-> "deleted"]])

(* The row of a person who was removed cannot be updated; and any session  *)
(* may fail before it commits.                                             *)
Stale(w) == \E p \in DOMAIN w.link : link[p] = Gone

Status(w, i) == IF i \in w.accept THEN "accepted"
                ELSE IF i \in w.cancel THEN "cancelled" ELSE inv[i].status
New(w) == {[case |-> m[1], email |-> m[2], status |-> "pending", age |-> 0, stage |-> 0] :
              m \in w.mint}

Commit(h) ==
    LET w == job[h].write IN
    /\ Writing(h) /\ ~Stale(w)
    /\ case' = Update(w.case, case)
    /\ link' = Update(w.link, link)
    /\ active' = active \cup w.activate
    /\ \E new \in {<<r>> : r \in New(w)} \cup (IF w.mint = {} THEN {<<>>} ELSE {}) :
          inv' = [i \in DOMAIN inv |-> [inv[i] EXCEPT !.status = Status(w, i)]] \o new
    /\ job' = [job EXCEPT ![h] = Idle]
    /\ UNCHANGED <<mailed, run, crashes>>

Rollback(h) ==
    /\ job[h] # Idle
    /\ job' = [job EXCEPT ![h] = Idle]
    /\ UNCHANGED <<database, mailed, run, crashes>>

(* Time passes for all: an older invitation is never the younger one. *)
Older(a) == CHOOSE b \in Ages : a < b /\ \A x \in Ages : a < x => b <= x
Age(i) ==
    /\ i \in DOMAIN inv /\ inv[i].age < 14
    /\ \A k \in 1..(i - 1) : inv[k].age >= Older(inv[i].age)
    /\ inv' = [inv EXCEPT ![i].age = Older(@)]
    /\ UNCHANGED <<case, link, active, mailed, job, run, crashes>>

-----------------------------------------------------------------------------
(* send_activation_reminders: max_instances = 1, a manual run beside it.   *)

Concerned ==
    {i \in DOMAIN inv : /\ inv[i].status = "pending" /\ inv[i].age < 14 /\ inv[i].stage < 7
                        /\ inv[i].email \notin active /\ case[inv[i].case] = "open"}

(* The highest stage reached: never two mails at once. *)
DueStage(age) == IF age \in Schedule THEN age ELSE 0
Due(i) == i \in Concerned /\ DueStage(inv[i].age) > inv[i].stage /\ inv[i].case \notin Muted

Tick(j) ==
    /\ run[j] = Idle
    /\ \E i \in Ids : Due(i)
    /\ run' = [run EXCEPT ![j] = [at |-> "next", todo |-> {i \in Ids : Due(i)},
                                  stage |-> [i \in DOMAIN inv |-> DueStage(inv[i].age)]]]
    /\ UNCHANGED <<database, mailed, job, crashes>>

First(S) == CHOOSE i \in S : \A k \in S : i <= k

(* The mail leaves on what was loaded: nothing is read again. *)
Remind(j) ==
    LET i == First(run[j].todo) IN
    /\ run[j] # Idle /\ run[j].at = "next" /\ run[j].todo # {}
    /\ inv[i].email \notin Refused
    /\ mailed' = [mailed EXCEPT ![i][run[j].stage[i]] = @ + 1]
    /\ run' = [run EXCEPT ![j].at = "sent"]
    /\ UNCHANGED <<database, job, crashes>>

\* Mutant: the run commits its stages when it has sent its last mail.
Record_AtTheEnd(j) ==
    LET i == First(run[j].todo)
        sent == {k \in DOMAIN run[j].stage : \E s \in Schedule :
                    s = run[j].stage[k] /\ s > inv[k].stage /\ mailed[k][s] > 0} IN
    /\ run[j] # Idle /\ run[j].at = "sent"
    /\ inv' = IF run[j].todo # {i} THEN inv
              ELSE [k \in DOMAIN inv |->
                      IF k \in sent THEN [inv[k] EXCEPT !.stage = run[j].stage[k]] ELSE inv[k]]
    /\ run' = [run EXCEPT ![j].at = "next", ![j].todo = @ \ {i}]
    /\ UNCHANGED <<case, link, active, mailed, job, crashes>>

Record(j) ==
    LET i == First(run[j].todo) IN
    /\ run[j] # Idle /\ run[j].at = "sent"
    /\ inv' = [inv EXCEPT ![i].stage = run[j].stage[i]]
    /\ run' = [run EXCEPT ![j].at = "next", ![j].todo = @ \ {i}]
    /\ UNCHANGED <<case, link, active, mailed, job, crashes>>

(* A refused mail is logged and the next one tried. *)
\* Mutant: a refused mail ends the run.
RemindFails_EndsRun(j) ==
    LET i == First(run[j].todo) IN
    /\ run[j] # Idle /\ run[j].at = "next" /\ run[j].todo # {}
    /\ inv[i].email \in Refused
    /\ run' = [run EXCEPT ![j].todo = {}]
    /\ UNCHANGED <<database, mailed, job, crashes>>

RemindFails(j) ==
    LET i == First(run[j].todo) IN
    /\ run[j] # Idle /\ run[j].at = "next" /\ run[j].todo # {}
    /\ inv[i].email \in Refused
    /\ run' = [run EXCEPT ![j].todo = @ \ {i}]
    /\ UNCHANGED <<database, mailed, job, crashes>>

EndRun(j) ==
    /\ run[j] # Idle /\ run[j].at = "next" /\ run[j].todo = {}
    /\ run' = [run EXCEPT ![j] = Idle]
    /\ UNCHANGED <<database, mailed, job, crashes>>

Crash(j) ==
    /\ run[j] # Idle /\ crashes < MaxCrashes
    /\ crashes' = crashes + 1
    /\ run' = [run EXCEPT ![j] = Idle]
    /\ UNCHANGED <<database, mailed, job>>

Next ==
    \/ \E h \in Handlers, p \in Persons :
          \/ \E e \in Accounts : \/ CreateCase(h, p, e) \/ GiveAccess(h, p, e)
                                 \/ ChangeAddress(h, p, e)
          \/ RemovePerson(h, p) \/ Resend(h, p)
    \/ \E h \in Handlers, i \in Ids : ResendPublic(h, i) \/ Activate(h, i)
    \/ \E h \in Handlers, c \in Cases : DeleteCase(h, c)
    \/ \E h \in Handlers : \/ NotShared(h) \/ NotTaken(h) \/ Relink(h)
                           \/ Rotate(h) \/ Commit(h) \/ Rollback(h)
    \/ \E i \in Ids : Age(i)
    \/ \E j \in Runs : \/ Tick(j) \/ Remind(j) \/ Record(j) \/ RemindFails(j)
                       \/ EndRun(j) \/ Crash(j)

Spec == Init /\ [][Next]_vars

(* The scheduler ticks and a run goes on; clocks, people and crashes are   *)
(* owed nothing.                                                           *)
RunStep(j) == Remind(j) \/ Record(j) \/ RemindFails(j) \/ EndRun(j)
Fairness == \A j \in Runs : WF_vars(Tick(j)) /\ WF_vars(RunStep(j))
FairSpec == Spec /\ Fairness

-----------------------------------------------------------------------------
(* Properties.                                                             *)

TypeOK ==
    /\ case \in [Cases -> {"none", "open", "deleted"}]
    /\ link \in [Persons -> Accounts \cup {Nobody, Gone}]
    /\ active \subseteq Accounts
    /\ inv \in Seq(Invitation)
    /\ \A h \in Handlers :
          job[h].at \in {"idle", "loaded", "unshared", "free", "asked", "writing"}

(* Nobody is left before a closed door: whoever is on an open case with an *)
(* account that was never activated holds a link to that case, live or     *)
(* dead but renewable.  It holds through every correction, rotation and    *)
(* activation, however the sessions overlap, as long as the two conditions *)
(* below do; without either it fails (README, section 5).                  *)
DoorStaysOpen ==
    \A p \in Persons :
        link[p] \in Accounts \ active /\ case[CaseOf[p]] = "open"
        => Pending(CaseOf[p], link[p]) # {}

(* update_person acts on what it loaded: until it has read the links, its  *)
(* person keeps that account and nobody activates it.                      *)
Undisturbed ==
    \A h \in Handlers : job[h].at \in {"loaded", "unshared", "free"} =>
        link[job[h].person] = job[h].old /\ job[h].old \notin active

(* Two persons of a case do not hold one account: update_person asks, but  *)
(* add_person does not, and two sessions may both ask first.               *)
OwnAddress ==
    \A p, q \in Persons : p # q /\ CaseOf[p] = CaseOf[q] /\ link[p] \in Accounts
                          => link[q] # link[p]

(* "Never two mails": each stage of an invitation leaves once, and again   *)
(* only when the run that sent it died before writing it down.  The write  *)
(* follows each mail, so that a run repeats one of them at most.           *)
Repeated == {m \in Ids \X Schedule : mailed[m[1]][m[2]] > 1}
RemindedOnce ==
    /\ \A i \in Ids, s \in Schedule : mailed[i][s] <= 1 + crashes
    /\ Cardinality(Repeated) <= crashes

(* A reminder that is due leaves or stops being due, whatever address      *)
(* before it is refused.                                                   *)
DueReminderLeaves ==
    \A i \in Ids : (Due(i) /\ inv[i].email \notin Refused) ~> ~Due(i)

-----------------------------------------------------------------------------
(* What the comments say and the code does not hold (README, section 5).   *)

(* "so a case never carries two live activation tokens" *)
OneLiveLink == \A c \in Cases, e \in Accounts : Cardinality(Pending(c, e)) <= 1

(* update_person: "ACTIVEE : l'email est une identite de COMPTE ... Refus  *)
(* clair".  A person whose account is active keeps it, or leaves the case. *)
ActiveKeepsAddress ==
    [][\A p \in Persons : link[p] \in active => link'[p] \in {link[p], Gone}]_vars

(* "CE QU'ELLE NE FAIT JAMAIS : relancer sur un lien mort, relancer un compte deja actif" *)
RemindsTheWaiting ==
    [][\A i \in Ids : mailed'[i] # mailed[i] => i \in Concerned]_vars
=================================================================================
