------------------------------- MODULE StepEngine -------------------------------
(***************************************************************************)
(* The steps of ONE case (src/progress/progress_manager.py): the step      *)
(* machine and its prerequisite lock, the concrete requirement rows a step *)
(* materializes, the auto-close, and the case status that follows.         *)
(* Agents, clients, providers and the signature webhook all go through it, *)
(* each in one transaction that reads first and writes at its commit, at   *)
(* READ COMMITTED and without a row lock: "Begin" actions compute, from    *)
(* what is committed, the columns a handler will write; Commit writes      *)
(* those columns and no other.                                             *)
(*                                                                         *)
(* A definition is a requirement of the journey template; all of them are  *)
(* documents, the signable ones provided by a signature only.  Which seats *)
(* share a signature request is SignatureRequests' affair: here each seat  *)
(* has a state of its own.                                                 *)
(***************************************************************************)
EXTENDS Integers, FiniteSets, PrerequisiteGraph  \* PrerequisiteGraph: CONSTANT Steps

CONSTANTS
    Handlers,           \* concurrent transactions
    InitialSteps,       \* those the template has when it is assigned
    InitialBefore,      \* their prerequisites
    Definitions,        \* requirement definitions, present and future
    InitialDefinitions, \* those the template has when it is assigned
    StepOf,             \* the step of each definition
    PrincipalOnly,      \* definitions of scope "principal"
    Signable,           \* definitions with signature_required
    Persons, Principal, \* who may be on the case, and its holder
    Validators          \* validator types in use ("Action validee par")

StepStatus == {"absent", "todo", "in_progress", "done"}
CaseStatus == {"prospect", "in_progress", "validated", "closed"}
(* "gone": the signatory left the case, the open request stayed.           *)
SeatStatus == {"free", "sent", "signed", "completed", "gone"}
OpenSeat == {"sent", "signed", "gone"}
Cells == Definitions \X Persons

ASSUME StepAssumption ==
    /\ InitialSteps \subseteq Steps /\ InitialSteps # {}
    /\ InitialBefore \in [Steps -> SUBSET InitialSteps] /\ Acyclic(InitialBefore)
    /\ InitialDefinitions \subseteq Definitions
    /\ StepOf \in [Definitions -> Steps]
    /\ PrincipalOnly \subseteq Definitions
    /\ Signable \subseteq Definitions
    /\ Principal \in Persons
    /\ Validators \subseteq {"none", "expat", "agent", "external"}

VARIABLES
    status,      \* client_case.status
    step,        \* case_step_progress.status ("absent": no row)
    validator,   \* case_step_progress.validated_by_type
    before,      \* step_prerequisite
    definitions, \* step_requirement
    people,      \* case_person
    row,         \* case_step_requirement.status ("none": no row)
    seat,        \* the person's seat on the signature requests of a document
    job          \* what each handler is about to write

vars == <<status, step, validator, before, definitions, people, row, seat, job>>
database == <<status, step, validator, before, definitions, people, row, seat>>

(* Functions on part of a set: the columns a handler writes.               *)
Partial(S, T) == UNION {[D -> T] : D \in SUBSET S}
Update(g, f) == [x \in DOMAIN f |-> IF x \in DOMAIN g THEN g[x] ELSE f[x]]
Nowhere == [x \in {} |-> x]

Write == [status: CaseStatus \cup {"same"},
          step: Partial(Steps, StepStatus),
          validator: Partial(Steps, Validators),
          before: Partial(Steps, SUBSET Steps),
          define: SUBSET Definitions, undefine: SUBSET Definitions,
          join: SUBSET Persons, leave: SUBSET Persons,
          add: SUBSET Cells, provide: SUBSET Cells,
          clear: SUBSET Cells, drop: SUBSET Cells,
          seat: Partial(Cells, SeatStatus)]

NoWrite == [status |-> "same", step |-> Nowhere, validator |-> Nowhere,
            before |-> Nowhere, define |-> {}, undefine |-> {},
            join |-> {}, leave |-> {}, add |-> {}, provide |-> {},
            clear |-> {}, drop |-> {}, seat |-> Nowhere]

Idle == [busy |-> FALSE, write |-> NoWrite]

Init ==
    /\ status = "prospect"
    /\ step = [s \in Steps |-> "absent"]
    /\ validator \in [Steps -> Validators]
    /\ before = InitialBefore
    /\ definitions = InitialDefinitions
    /\ people = {Principal}
    /\ row = [c \in Cells |-> "none"]
    /\ seat = [c \in Cells |-> "free"]
    /\ job = [h \in Handlers |-> Idle]

Begin(h, w) ==
    /\ ~job[h].busy
    /\ job' = [job EXCEPT ![h] = [busy |-> TRUE, write |-> w]]
    /\ UNCHANGED database

-----------------------------------------------------------------------------
(* Pure parts of the engine.                                               *)

Present(st) == {s \in Steps : st[s] # "absent"}
DoneIn(st)  == {s \in Steps : st[s] = "done"}
Assigned    == Present(step) # {}

(* _unfinished_prerequisites is empty. *)
Unlocked(s) == before[s] \subseteq DoneIn(step)

(* _sync_case_status. *)
Synced(st, cs) ==
    IF cs = "closed" \/ Present(st) = {} THEN cs
    ELSE IF Present(st) \subseteq DoneIn(st) THEN "validated"
    ELSE IF cs = "validated" THEN "in_progress"
    ELSE IF cs = "prospect" /\ \E s \in Present(st) : st[s] # "todo" THEN "in_progress"
    ELSE cs

(* Only a column that changes is written. *)
StatusWrite(cs) == IF cs = status THEN "same" ELSE cs

(* step_all_met: at least one row, all of them provided. *)
RowsOf(s, rw) == {c \in Cells : StepOf[c[1]] = s /\ rw[c] # "none"}
Met(s, rw) == RowsOf(s, rw) # {} /\ \A c \in RowsOf(s, rw) : rw[c] = "provided"

(* _progress_ids_with_open_requests. *)
HasOpenRequest(s, st) ==
    \E c \in Cells : StepOf[c[1]] = s /\ st[c] \in OpenSeat

(* recompute_active closes, one after the other, the active steps that     *)
(* close by themselves and whose prerequisites are done by then.  The rows *)
(* come from a query without ORDER BY: a step whose prerequisite closes in *)
(* the same pass closes too, or not, as the order has it.                  *)
SelfClosing(rw, st) ==
    {s \in Steps : /\ step[s] = "in_progress" /\ validator[s] = "none"
                   /\ Met(s, rw) /\ ~HasOpenRequest(s, st)}

\* Mutant: the auto-close forgets the prerequisites.
AutoClosed_NoLock(rw, st) == {SelfClosing(rw, st)}

AutoClosed(rw, st) ==
    {C \in SUBSET SelfClosing(rw, st) :
        /\ \A s \in C : before[s] \subseteq DoneIn(step) \cup C
        /\ \A s \in SelfClosing(rw, st) \ C : ~Unlocked(s)}

(* What recompute_active adds to a write. *)
Closing(w, C, cs) ==
    [w EXCEPT !.step = [s \in C |-> "done"],
              !.status = IF C = {} THEN StatusWrite(cs)
                         ELSE StatusWrite(Synced(Update([s \in C |-> "done"], step), cs))]

(* _sync_missing_requirements: a definition with a row already is frozen.  *)
Targets(d) == IF d \in PrincipalOnly THEN {Principal} ELSE people
MissingRows(s, defs) ==
    {c \in Cells : /\ c[1] \in defs /\ StepOf[c[1]] = s
                   /\ \A p \in Persons : row[<<c[1], p>>] = "none"
                   /\ c[2] \in Targets(c[1])}

(* send_for_progress: the signable rows whose person is on no live request *)
(* (draft, sent, partially signed or completed) of the document.           *)
ToSend(s, added) ==
    {c \in Cells : /\ c[1] \in Signable /\ StepOf[c[1]] = s
                   /\ row[c] # "none" \/ c \in added
                   /\ seat[c] = "free"}
Sending(S) == [c \in S |-> "sent"]

-----------------------------------------------------------------------------
(* The journey.                                                            *)

(* assign_journey turns a prospect into a client; creating the case with   *)
(* its journey (apply_journey alone) does not.                             *)
AssignJourney(h, becomesClient) ==
    LET new == [s \in InitialSteps |-> "todo"]
        cs == Synced(Update(new, step), status) IN
    /\ ~Assigned
    /\ Begin(h, [NoWrite EXCEPT !.step = new,
           !.status = StatusWrite(IF becomesClient /\ cs = "prospect"
                                  THEN "in_progress" ELSE cs)])

(* add_step on an assigned template: backfill_step. *)
\* Mutant: a step is added without the synchronisation of the case.
AddStep_NoSync(h, s) ==
    /\ Assigned
    /\ step[s] = "absent"
    /\ Begin(h, [NoWrite EXCEPT !.step = [q \in {s} |-> "todo"]])

AddStep(h, s) ==
    LET new == [q \in {s} |-> "todo"] IN
    /\ Assigned
    /\ step[s] = "absent"
    /\ Begin(h, [NoWrite EXCEPT !.step = new,
                                !.status = StatusWrite(Synced(Update(new, step), status))])

(* set_prerequisites: the edges of s are replaced, unless _has_cycle finds *)
(* a cycle in the graph as committed with the proposed edges in it.        *)
(* CycleSearch is that search, and it returns what Acyclic says.           *)
SetPrerequisites(h, s, S) ==
    /\ {s} \cup S \subseteq Present(step)
    /\ s \notin S
    /\ Acyclic([before EXCEPT ![s] = S])
    /\ Begin(h, [NoWrite EXCEPT !.before = [q \in {s} |-> S]])

(* add_requirement: an active step gains its rows and sends its signable   *)
(* documents (backfill_requirements).                                      *)
AddRequirement(h, d) ==
    LET s == StepOf[d]
        added == IF step[s] = "in_progress"
                 THEN MissingRows(s, definitions \cup {d}) ELSE {}
        sent == IF d \in Signable /\ added # {} THEN ToSend(s, added) ELSE {} IN
    /\ d \notin definitions
    /\ Begin(h, [NoWrite EXCEPT !.define = {d}, !.add = added, !.seat = Sending(sent)])

(* delete_requirement: its open requests are cancelled and the rows that   *)
(* exist by then deleted.                                                  *)
\* Mutant: the rows survive their definition.
DeleteRequirement_KeepsRows(h, d) ==
    /\ d \in definitions
    /\ Begin(h, [NoWrite EXCEPT !.undefine = {d}])

DeleteRequirement(h, d) ==
    /\ d \in definitions
    /\ Begin(h, [NoWrite EXCEPT !.undefine = {d},
           !.drop = {c \in Cells : c[1] = d /\ row[c] # "none"},
           !.seat = [c \in {c \in Cells : c[1] = d /\ seat[c] \in OpenSeat} |-> "free"]])

-----------------------------------------------------------------------------
(* The agency.                                                             *)

Start(h, s) ==
    LET new == [q \in {s} |-> "in_progress"]
        added == MissingRows(s, definitions) IN
    /\ step[s] = "todo"
    /\ Unlocked(s)
    /\ Begin(h, [NoWrite EXCEPT !.step = new, !.add = added,
                                !.seat = Sending(ToSend(s, added)),
                                !.status = StatusWrite(Synced(Update(new, step), status))])

Close(h, s) ==
    LET new == [q \in {s} |-> "done"] IN
    /\ Unlocked(s)
    /\ Begin(h, [NoWrite EXCEPT !.step = new,
                                !.status = StatusWrite(Synced(Update(new, step), status))])

(* PATCH done: the agency closes any step, started or not. *)
Complete(h, s) ==
    /\ step[s] \in {"todo", "in_progress"}
    /\ Close(h, s)

(* close_step_by_validation: the client or the provider validates. *)
Validate(h, s) ==
    /\ step[s] = "in_progress"
    /\ validator[s] \in {"expat", "external"}
    /\ Close(h, s)

(* A correction, never lock-checked.  Nothing is sent for signature. *)
Reopen(h, s) ==
    LET new == [q \in {s} |-> "in_progress"] IN
    /\ step[s] = "done"
    /\ Begin(h, [NoWrite EXCEPT !.step = new, !.add = MissingRows(s, definitions),
                                !.status = StatusWrite(Synced(Update(new, step), status))])

SetValidator(h, s, v) ==
    /\ step[s] # "absent"
    /\ v # validator[s]
    /\ Begin(h, [NoWrite EXCEPT !.validator = [q \in {s} |-> v]])

(* PATCH of the case, its status included: the active steps are recomputed.*)
UpdateCase(h, cs) ==
    \E C \in AutoClosed(row, seat) :
        /\ cs # status \/ C # {}
        /\ Begin(h, Closing(NoWrite, C, cs))

BulkSetStatus(h, cs) ==
    /\ cs # status
    /\ Begin(h, [NoWrite EXCEPT !.status = cs])

(* add_person and materialize_for_person: the newcomer's rows on the       *)
(* active steps, and a request of their own per signable document.         *)
AddPerson(h, p) ==
    LET added == {c \in Cells : /\ c[2] = p /\ c[1] \in definitions \ PrincipalOnly
                                /\ step[StepOf[c[1]]] = "in_progress"} IN
    /\ p \notin people
    /\ \A d \in Definitions : seat[<<d, p>>] = "free"
    /\ Begin(h, [NoWrite EXCEPT !.join = {p}, !.add = added,
                                !.seat = Sending({c \in added : c[1] \in Signable})])

\* Mutant: the principal may be removed.
RemovePerson_Anybody(h, p) ==
    /\ p \in people
    /\ Begin(h, [NoWrite EXCEPT !.leave = {p}])

RemovePerson(h, p) ==
    /\ p \in people \ {Principal}
    /\ Begin(h, [NoWrite EXCEPT !.leave = {p}])

-----------------------------------------------------------------------------
(* Documents and signatures.                                               *)

(* An upload on a requirement of an active step, by the client, the agency *)
(* or a provider (fulfill_document_requirement).                           *)
\* Mutant: an upload that forgets to recompute the active steps.
Provide_NoRecompute(h, c) ==
    /\ c[1] \notin Signable
    /\ row[c] # "none"
    /\ step[StepOf[c[1]]] = "in_progress"
    /\ Begin(h, [NoWrite EXCEPT !.provide = {c}])

Provide(h, c) ==
    /\ c[1] \notin Signable
    /\ row[c] # "none"
    /\ step[StepOf[c[1]]] = "in_progress"
    /\ \E C \in AutoClosed([row EXCEPT ![c] = "provided"], seat) :
           Begin(h, Closing([NoWrite EXCEPT !.provide = {c}], C, status))

(* The deletion of a file, whatever the status of the step: the rows it    *)
(* backs are pending again (clear_document_requirement).  A signed         *)
(* document backs the rows of all its signers.                             *)
DeleteDocument(h, S) ==
    /\ S # {}
    /\ \/ \E c \in S : S = {c} /\ c[1] \notin Signable
       \/ \E d \in Signable : \A c \in S : c[1] = d /\ seat[c] = "completed"
    /\ \A c \in S : row[c] = "provided"
    /\ \E C \in AutoClosed([c \in Cells |-> IF c \in S THEN "pending" ELSE row[c]], seat) :
           Begin(h, Closing([NoWrite EXCEPT !.clear = S], C, status))

(* _on_form_completed for one client, who may be the last signatory of the *)
(* request, agency included.                                               *)
OnSignature(h, c, last) ==
    LET signed == {x \in Cells : x = c \/ (last /\ x[1] = c[1] /\ seat[x] = "signed")}
        to == [x \in signed |-> IF last THEN "completed" ELSE "signed"]
        provided == IF row[c] = "pending" THEN {c} ELSE {} IN
    /\ seat[c] = "sent"
    /\ \E C \in AutoClosed([row EXCEPT ![c] = IF @ = "pending" THEN "provided" ELSE @],
                           Update(to, seat)) :
           Begin(h, Closing([NoWrite EXCEPT !.provide = provided, !.seat = to], C, status))

(* _on_form_completed for the agency's countersignature. *)
OnCountersignature(h, d) ==
    LET to == [c \in {c \in Cells : c[1] = d /\ seat[c] = "signed"} |-> "completed"] IN
    /\ DOMAIN to # {}
    /\ \E C \in AutoClosed(row, Update(to, seat)) :
           Begin(h, Closing([NoWrite EXCEPT !.seat = to], C, status))

(* An open request is cancelled or expires: its seats are free again.      *)
CancelRequest(h, d) ==
    LET freed == {c \in Cells : c[1] = d /\ seat[c] \in OpenSeat} IN
    /\ freed # {}
    /\ Begin(h, [NoWrite EXCEPT !.seat = [c \in freed |-> "free"]])

(* "Re-demander" on an active step. *)
Resend(h, s) ==
    /\ step[s] = "in_progress"
    /\ ToSend(s, {}) # {}
    /\ Begin(h, [NoWrite EXCEPT !.seat = Sending(ToSend(s, {}))])

-----------------------------------------------------------------------------
(* What the database refuses: a second row under a unique key, a row for a *)
(* person or a definition that is gone, an update of a row that is gone.   *)
Refused(w) ==
    \/ \E s \in DOMAIN w.step : w.step[s] = "todo" /\ step[s] # "absent"
    \/ \E c \in w.add : \/ row[c] # "none"
                        \/ c[2] \notin people \cup w.join
                        \/ c[1] \notin definitions \cup w.define
    \/ \E c \in w.provide \cup w.clear : row[c] = "none"
    \/ \E c \in DOMAIN w.seat : w.seat[c] # "free" /\ c[2] \notin people \cup w.join

Commit(h) ==
    LET w == job[h].write IN
    /\ job[h].busy
    /\ ~Refused(w)
    /\ status' = IF w.status = "same" THEN status ELSE w.status
    /\ step' = Update(w.step, step)
    /\ validator' = Update(w.validator, validator)
    /\ before' = Update(w.before, before)
    /\ definitions' = (definitions \cup w.define) \ w.undefine
    /\ people' = (people \cup w.join) \ w.leave
    /\ row' = [c \in Cells |->
                  IF c[2] \in w.leave \/ c \in w.drop THEN "none"
                  ELSE IF c \in w.add \cup w.clear THEN "pending"
                  ELSE IF c \in w.provide THEN "provided" ELSE row[c]]
    /\ seat' = [c \in Cells |->
                  IF c[2] \in w.leave
                  THEN IF seat[c] \in OpenSeat THEN "gone" ELSE "free"
                  ELSE Update(w.seat, seat)[c]]
    /\ job' = [job EXCEPT ![h] = Idle]

(* The database refuses, the provider fails, a credit is missing, the      *)
(* process dies: nothing of the transaction is written.                    *)
Rollback(h) ==
    /\ job[h].busy
    /\ job' = [job EXCEPT ![h] = Idle]
    /\ UNCHANGED database

Journey(h) ==
    \/ \E b \in BOOLEAN : AssignJourney(h, b)
    \/ \E s \in Steps : AddStep(h, s)
    \/ \E s \in Steps, S \in SUBSET Steps : SetPrerequisites(h, s, S)
    \/ \E d \in Definitions : AddRequirement(h, d) \/ DeleteRequirement(h, d)

Agency(h) ==
    \/ \E s \in Steps : Start(h, s) \/ Complete(h, s) \/ Validate(h, s) \/ Reopen(h, s)
    \/ \E s \in Steps, v \in Validators : SetValidator(h, s, v)
    \/ \E cs \in CaseStatus : UpdateCase(h, cs) \/ BulkSetStatus(h, cs)
    \/ \E p \in Persons : AddPerson(h, p) \/ RemovePerson(h, p)

Pieces(h) ==
    \/ \E c \in Cells : Provide(h, c)
    \/ \E S \in SUBSET Cells : DeleteDocument(h, S)
    \/ \E c \in Cells, last \in BOOLEAN : OnSignature(h, c, last)
    \/ \E d \in Definitions : OnCountersignature(h, d) \/ CancelRequest(h, d)
    \/ \E s \in Steps : Resend(h, s)

Next ==
    \E h \in Handlers :
        Journey(h) \/ Agency(h) \/ Pieces(h) \/ Commit(h) \/ Rollback(h)

Spec == Init /\ [][Next]_vars

-----------------------------------------------------------------------------
(* Properties.                                                             *)

(* Every variable has its type, and the holder of the case stays on it. *)
TypeOK ==
    /\ status \in CaseStatus
    /\ step \in [Steps -> StepStatus]
    /\ validator \in [Steps -> Validators]
    /\ before \in [Steps -> SUBSET Steps]
    /\ definitions \subseteq Definitions
    /\ people \subseteq Persons /\ Principal \in people
    /\ row \in [Cells -> {"none", "pending", "provided"}]
    /\ seat \in [Cells -> SeatStatus]
    /\ job \in [Handlers -> [busy: BOOLEAN, write: Write]]

(* "The lock: starting or completing requires all CURRENT prerequisites    *)
(* DONE": whoever moves a step out of TODO, or to DONE, an agent, a        *)
(* validator or a chain of auto-closes, the prerequisites of the step are  *)
(* done in the state that results.                                         *)
LockHolds ==
    [][\A s \in Steps :
          \/ step[s] = "todo" /\ step'[s] # "todo"
          \/ step[s] # "done" /\ step'[s] = "done"
          => before[s] \subseteq DoneIn(step')]_vars

(* "ALL steps validated -> VALIDATED; a step reopened (or newly            *)
(* instantiated) on a VALIDATED case -> back to IN_PROGRESS": after a step *)
(* event the status of a case that is not closed says whether all is done. *)
StatusFollowsSteps ==
    [][step' # step /\ status' # "closed"
         => (status' = "validated" <=> Present(step') \subseteq DoneIn(step'))]_vars

(* A step validated by "personne" "se clot seule quand tous les requisits  *)
(* sont fournis" (docs/step-validator.md): the document or the signature   *)
(* that completes it leaves it closed, unless a prerequisite of it was     *)
(* itself open until this very write.                                      *)
ProvidedCloses ==
    [][(\E c \in Cells : row[c] = "pending" /\ row'[c] = "provided")
         => \A s \in Steps : s \in SelfClosing(row, seat)' => ~Unlocked(s)]_vars

(* "after this, no row must ever carry a NULL step_requirement_id from a   *)
(* deletion" (delete_requirement_instances_for_definition), and a person   *)
(* who leaves takes her rows: what a step asks is asked by the template of *)
(* somebody on the case.                                                   *)
NoOrphanRow ==
    \A c \in Cells : row[c] # "none" => c[1] \in definitions /\ c[2] \in people

-----------------------------------------------------------------------------
(* Promises of the sources that do not hold; the README has the traces.    *)
(* The first two need two handlers that overlap, the others one.           *)
(* LockHolds, ProvidedCloses and NoOrphanRow above fail too as soon as two *)
(* handlers overlap.                                                       *)

(* "Full-graph validation on EVERY mutation" (set_prerequisites): no cycle *)
(* of prerequisites, which would lock its steps for good.  Two edits at a  *)
(* time each search a graph that lacks the edges of the other.             *)
PrerequisitesAcyclic == Acyclic(before)

(* "ALL steps validated -> VALIDATED": the closure that leaves every step  *)
(* done leaves the case validated, unless it was closed by hand.           *)
LastClosureValidates ==
    [][/\ DoneIn(step') # DoneIn(step)
       /\ Present(step') \subseteq DoneIn(step')
       => status' \in {"validated", "closed"}]_vars

(* ProvidedCloses of any write that leaves a step with nothing to wait     *)
(* for: a person or a requirement removed, a request cancelled.            *)
NewlyMetCloses ==
    [][\A s \in Steps :
          /\ s \in SelfClosing(row, seat)'
          /\ step[s] = "in_progress" /\ validator[s] = "none"
          /\ ~Met(s, row) \/ HasOpenRequest(s, seat)
          => ~Unlocked(s)]_vars

(* A person added to the case "gagne ses lignes each_person" on the active *)
(* steps, and the done steps "rattrapent au reopen"                        *)
(* (materialize_for_person): an active step that asks a document of each   *)
(* person asks it of everybody on the case.                                *)
CoversComposition ==
    \A d \in definitions \ PrincipalOnly, p \in people :
        step[StepOf[d]] = "in_progress" => row[<<d, p>>] # "none"

(* "sans cet envoi, la ligne resterait pendante sans que personne ne       *)
(* puisse signer" (backfill_requirements): a signable row that appears on  *)
(* an active step comes with its signature request.                        *)
SignableRowsAreSent ==
    [][\A c \in Cells :
          c[1] \in Signable /\ row[c] = "none" /\ row'[c] = "pending"
          => seat'[c] # "free"]_vars

(* "renvoie les demandes de signature manquantes d'une etape ACTIVE"       *)
(* (resend_signature_requests): a signature an active step still misses is *)
(* being asked, or can be asked again.                                     *)
MissingSignatureCanBeAsked ==
    \A c \in Cells :
        c[1] \in Signable /\ row[c] = "pending" /\ step[StepOf[c[1]]] = "in_progress"
        => seat[c] \in {"free", "sent"}
=================================================================================
