---------------------------- MODULE StepEngineProofs ----------------------------
(***************************************************************************)
(* The step engine, for any journey, any case and any number of handlers:  *)
(* its types in every interleaving, and each of its rules unless handlers  *)
(* of the two kinds that break that rule together overlap.                 *)
(***************************************************************************)
EXTENDS StepEngine, CycleSearch, TLAPS

(* A write in flight never removes the holder of the case. *)
HolderStays == \A h \in Handlers : Principal \notin job[h].write.leave

TypeInv == TypeOK /\ HolderStays

LEMMA UpdateType ==
    ASSUME NEW S, NEW T, NEW g \in Partial(S, T), NEW f \in [S -> T]
    PROVE  Update(g, f) \in [S -> T]
<1>1. PICK D \in SUBSET S : g \in [D -> T]
    BY DEF Partial
<1> QED BY <1>1 DEF Update

LEMMA PartialConstant ==
    ASSUME NEW S, NEW T, NEW D \in SUBSET S, NEW v \in T
    PROVE  [x \in D |-> v] \in Partial(S, T)
<1>1. [x \in D |-> v] \in [D -> T]
    OBVIOUS
<1> QED BY <1>1 DEF Partial

LEMMA PartialNowhere ==
    ASSUME NEW S, NEW T
    PROVE  Nowhere \in Partial(S, T)
<1>1. Nowhere \in [{} -> T]
    BY DEF Nowhere
<1>2. {} \in SUBSET S
    OBVIOUS
<1> QED BY <1>1, <1>2 DEF Partial

LEMMA SyncedType ==
    ASSUME NEW st, NEW cs \in CaseStatus
    PROVE  Synced(st, cs) \in CaseStatus
BY DEF Synced, CaseStatus

LEMMA StatusWriteType ==
    ASSUME NEW cs \in CaseStatus
    PROVE  StatusWrite(cs) \in CaseStatus \cup {"same"}
BY DEF StatusWrite

LEMMA NoWriteType == NoWrite \in Write /\ NoWrite.leave = {}
BY PartialNowhere DEF Write, NoWrite

-----------------------------------------------------------------------------
(* What a handler writes is a write: the fields it sets have their type, the *)
(* others are those of NoWrite.                                              *)
LEMMA StepsWrite ==
    ASSUME TypeOK, NEW D \in SUBSET Steps, NEW v \in StepStatus,
           NEW cs \in CaseStatus \cup {"same"}
    PROVE  /\ [NoWrite EXCEPT !.step = [s \in D |-> v], !.status = cs] \in Write
           /\ [NoWrite EXCEPT !.step = [s \in D |-> v], !.status = cs].leave = {}
<1>1. [s \in D |-> v] \in Partial(Steps, StepStatus)
    BY PartialConstant
<1> QED BY <1>1, NoWriteType DEF Write, NoWrite

LEMMA SendingType ==
    ASSUME NEW S \in SUBSET Cells
    PROVE  Sending(S) \in Partial(Cells, SeatStatus)
<1>1. "sent" \in SeatStatus
    BY DEF SeatStatus
<1> QED BY <1>1, PartialConstant DEF Sending

LEMMA ClosingType ==
    ASSUME TypeOK, NEW w \in Write, NEW C \in SUBSET Steps, NEW cs \in CaseStatus
    PROVE  Closing(w, C, cs) \in Write /\ Closing(w, C, cs).leave = w.leave
<1> DEFINE d == [s \in C |-> "done"]
           later == StatusWrite(Synced(Update(d, step), cs))
           x == IF C = {} THEN StatusWrite(cs) ELSE later
<1>1. d \in Partial(Steps, StepStatus)
    BY PartialConstant DEF StepStatus
<1>2. StatusWrite(cs) \in CaseStatus \cup {"same"}
    BY StatusWriteType
<1>3. later \in CaseStatus \cup {"same"}
    BY SyncedType, StatusWriteType
<1>4. Closing(w, C, cs) = [w EXCEPT !.step = d, !.status = x]
    BY Zenon DEF Closing
<1> HIDE DEF later
<1>5. x \in CaseStatus \cup {"same"}
    BY <1>2, <1>3
<1> HIDE DEF x, d
<1>6. Closing(w, C, cs).leave = w.leave
    BY <1>4 DEF Write
<1>7. Closing(w, C, cs) \in Write
    BY <1>1, <1>4, <1>5 DEF Write
<1> QED BY <1>6, <1>7

LEMMA BeginType ==
    ASSUME TypeInv, NEW h \in Handlers, NEW w \in Write,
           Principal \notin w.leave, Begin(h, w)
    PROVE  TypeInv'
<1>1. job' \in [Handlers -> [busy: BOOLEAN, write: Write]]
    BY DEF TypeInv, TypeOK, Begin
<1>2. HolderStays'
    BY DEF TypeInv, TypeOK, Begin, HolderStays
<1> QED BY <1>1, <1>2 DEF TypeInv, TypeOK, Begin, database

LEMMA CommitType ==
    ASSUME TypeInv, NEW h \in Handlers, Commit(h)
    PROVE  TypeInv'
<1> DEFINE w == job[h].write
<1>1. w \in Write /\ Principal \notin w.leave
    BY DEF TypeInv, TypeOK, HolderStays
<1>2. /\ w.status \in CaseStatus \cup {"same"}
      /\ w.step \in Partial(Steps, StepStatus)
      /\ w.validator \in Partial(Steps, Validators)
      /\ w.before \in Partial(Steps, SUBSET Steps)
      /\ w.define \subseteq Definitions
      /\ w.join \subseteq Persons
      /\ w.seat \in Partial(Cells, SeatStatus)
    BY <1>1 DEF Write
<1>3. status' \in CaseStatus
    BY <1>2 DEF Commit, TypeInv, TypeOK
<1>4. step' \in [Steps -> StepStatus]
    BY <1>2, UpdateType DEF Commit, TypeInv, TypeOK
<1>5. validator' \in [Steps -> Validators]
    BY <1>2, UpdateType DEF Commit, TypeInv, TypeOK
<1>6. before' \in [Steps -> SUBSET Steps]
    BY <1>2, UpdateType DEF Commit, TypeInv, TypeOK
<1>7. definitions' \subseteq Definitions
    BY <1>2 DEF Commit, TypeInv, TypeOK
<1>8. people' \subseteq Persons /\ Principal \in people'
    BY <1>1, <1>2 DEF Commit, TypeInv, TypeOK
<1>9. row' \in [Cells -> {"none", "pending", "provided"}]
    BY DEF Commit, TypeInv, TypeOK
<1>10. seat' \in [Cells -> SeatStatus]
    <2>1. Update(w.seat, seat) \in [Cells -> SeatStatus]
        BY <1>2, UpdateType DEF TypeInv, TypeOK
    <2> QED BY <2>1 DEF Commit, SeatStatus
<1>11. Idle \in [busy: BOOLEAN, write: Write] /\ Idle.write.leave = {}
    BY NoWriteType DEF Idle
<1>12. /\ job' \in [Handlers -> [busy: BOOLEAN, write: Write]]
       /\ HolderStays'
    BY <1>11 DEF Commit, TypeInv, TypeOK, HolderStays
<1> QED BY <1>3, <1>4, <1>5, <1>6, <1>7, <1>8, <1>9, <1>10, <1>12 DEF TypeInv, TypeOK

-----------------------------------------------------------------------------
(* The handlers.                                                             *)
LEMMA InitType == Init => TypeInv
<1> SUFFICES ASSUME Init
             PROVE  TypeInv
    OBVIOUS
<1>1. Idle \in [busy: BOOLEAN, write: Write] /\ Idle.write.leave = {}
    BY NoWriteType DEF Idle
<1>2. before \in [Steps -> SUBSET Steps]
    BY StepAssumption DEF Init
<1>3. people \subseteq Persons /\ Principal \in people
    BY StepAssumption DEF Init
<1>4. definitions \subseteq Definitions
    BY StepAssumption DEF Init
<1>5. job \in [Handlers -> [busy: BOOLEAN, write: Write]] /\ HolderStays
    BY <1>1 DEF Init, HolderStays
<1> QED BY <1>2, <1>3, <1>4, <1>5
        DEF Init, TypeInv, TypeOK, CaseStatus, StepStatus, SeatStatus

LEMMA TypedStatus ==
    ASSUME TypeOK, NEW st
    PROVE  StatusWrite(Synced(st, status)) \in CaseStatus \cup {"same"}
BY SyncedType, StatusWriteType DEF TypeOK

LEMMA MissingRowsType ==
    ASSUME NEW s, NEW defs
    PROVE  MissingRows(s, defs) \subseteq Cells
BY DEF MissingRows

LEMMA ToSendType ==
    ASSUME NEW s, NEW added
    PROVE  ToSend(s, added) \subseteq Cells
BY DEF ToSend

LEMMA ClosedType ==
    ASSUME NEW rw, NEW st, NEW C \in AutoClosed(rw, st)
    PROVE  C \subseteq Steps
BY DEF AutoClosed, SelfClosing

(* A handler that ends by recomputing the active steps.                      *)
LEMMA RecomputeType ==
    ASSUME TypeInv, NEW h \in Handlers, NEW w \in Write, w.leave = {},
           NEW rw, NEW st, NEW C \in AutoClosed(rw, st), NEW cs \in CaseStatus,
           Begin(h, Closing(w, C, cs))
    PROVE  TypeInv'
<1>1. C \in SUBSET Steps
    BY ClosedType
<1>2. Closing(w, C, cs) \in Write /\ Closing(w, C, cs).leave = {}
    BY <1>1, ClosingType DEF TypeInv
<1> QED BY <1>2, BeginType

LEMMA JourneyType ==
    ASSUME TypeInv, NEW h \in Handlers, Journey(h)
    PROVE  TypeInv'
<1>1. ASSUME NEW b \in BOOLEAN, AssignJourney(h, b)
      PROVE  TypeInv'
    <2> DEFINE new == [s \in InitialSteps |-> "todo"]
               cs == Synced(Update(new, step), status)
               x == StatusWrite(IF b /\ cs = "prospect" THEN "in_progress" ELSE cs)
               w == [NoWrite EXCEPT !.step = new, !.status = x]
    <2>1. InitialSteps \in SUBSET Steps /\ "todo" \in StepStatus
        BY StepAssumption DEF StepStatus
    <2>2. cs \in CaseStatus
        BY SyncedType DEF TypeInv, TypeOK
    <2>3. x \in CaseStatus \cup {"same"}
        <3>1. "in_progress" \in CaseStatus
            BY DEF CaseStatus
        <3> QED BY <2>2, <3>1, StatusWriteType
    <2> HIDE DEF x
    <2>4. w \in Write /\ w.leave = {}
        BY <2>1, <2>3, StepsWrite DEF TypeInv
    <2>5. Begin(h, w)
        BY <1>1 DEF AssignJourney, x
    <2> HIDE DEF w
    <2> QED BY <2>4, <2>5, BeginType
<1>2. ASSUME NEW s \in Steps, AddStep(h, s)
      PROVE  TypeInv'
    <2> DEFINE new == [q \in {s} |-> "todo"]
               x == StatusWrite(Synced(Update(new, step), status))
               w == [NoWrite EXCEPT !.step = new, !.status = x]
    <2>1. {s} \in SUBSET Steps /\ "todo" \in StepStatus
        BY DEF StepStatus
    <2>2. x \in CaseStatus \cup {"same"}
        BY TypedStatus DEF TypeInv
    <2> HIDE DEF x
    <2>3. w \in Write /\ w.leave = {}
        BY <2>1, <2>2, StepsWrite DEF TypeInv
    <2>4. Begin(h, w)
        BY <1>2 DEF AddStep, x
    <2> HIDE DEF w
    <2> QED BY <2>3, <2>4, BeginType
<1>3. ASSUME NEW s \in Steps, NEW S \in SUBSET Steps, SetPrerequisites(h, s, S)
      PROVE  TypeInv'
    <2> DEFINE w == [NoWrite EXCEPT !.before = [q \in {s} |-> S]]
    <2>1. [q \in {s} |-> S] \in Partial(Steps, SUBSET Steps)
        BY PartialConstant
    <2>2. w \in Write /\ w.leave = {}
        BY <2>1, NoWriteType DEF Write, NoWrite
    <2>3. Begin(h, w)
        BY <1>3 DEF SetPrerequisites
    <2> HIDE DEF w
    <2> QED BY <2>2, <2>3, BeginType
<1>4. ASSUME NEW d \in Definitions, AddRequirement(h, d)
      PROVE  TypeInv'
    <2> DEFINE s == StepOf[d]
               added == IF step[s] = "in_progress"
                        THEN MissingRows(s, definitions \cup {d}) ELSE {}
               sent == IF d \in Signable /\ added # {} THEN ToSend(s, added) ELSE {}
               w == [NoWrite EXCEPT !.define = {d}, !.add = added, !.seat = Sending(sent)]
    <2>1. added \in SUBSET Cells /\ sent \in SUBSET Cells
        BY MissingRowsType, ToSendType
    <2>2. Begin(h, w)
        BY <1>4 DEF AddRequirement
    <2> HIDE DEF added, sent
    <2>3. Sending(sent) \in Partial(Cells, SeatStatus)
        BY <2>1, SendingType
    <2>4. w \in Write /\ w.leave = {}
        BY <2>1, <2>3, NoWriteType DEF Write, NoWrite
    <2> HIDE DEF w
    <2> QED BY <2>2, <2>4, BeginType
<1>5. ASSUME NEW d \in Definitions, DeleteRequirement(h, d)
      PROVE  TypeInv'
    <2> DEFINE rows == {c \in Cells : c[1] = d /\ row[c] # "none"}
               open == {c \in Cells : c[1] = d /\ seat[c] \in OpenSeat}
               w == [NoWrite EXCEPT !.undefine = {d}, !.drop = rows,
                                    !.seat = [c \in open |-> "free"]]
    <2>1. rows \in SUBSET Cells /\ open \in SUBSET Cells /\ "free" \in SeatStatus
        BY DEF SeatStatus
    <2>2. Begin(h, w)
        BY <1>5 DEF DeleteRequirement
    <2> HIDE DEF rows, open
    <2>3. [c \in open |-> "free"] \in Partial(Cells, SeatStatus)
        BY <2>1, PartialConstant
    <2>4. w \in Write /\ w.leave = {}
        BY <2>1, <2>3, NoWriteType DEF Write, NoWrite
    <2> HIDE DEF w
    <2> QED BY <2>2, <2>4, BeginType
<1> QED BY <1>1, <1>2, <1>3, <1>4, <1>5 DEF Journey

LEMMA AgencyType ==
    ASSUME TypeInv, NEW h \in Handlers, Agency(h)
    PROVE  TypeInv'
<1>1. ASSUME NEW s \in Steps, Start(h, s)
      PROVE  TypeInv'
    <2> DEFINE new == [q \in {s} |-> "in_progress"]
               added == MissingRows(s, definitions)
               x == StatusWrite(Synced(Update(new, step), status))
               w == [NoWrite EXCEPT !.step = new, !.add = added,
                                    !.seat = Sending(ToSend(s, added)), !.status = x]
    <2>1. added \in SUBSET Cells /\ ToSend(s, added) \in SUBSET Cells
        BY MissingRowsType, ToSendType
    <2>2. new \in Partial(Steps, StepStatus)
        BY PartialConstant DEF StepStatus
    <2>3. x \in CaseStatus \cup {"same"}
        BY TypedStatus DEF TypeInv
    <2>4. Sending(ToSend(s, added)) \in Partial(Cells, SeatStatus)
        BY <2>1, SendingType
    <2>5. Begin(h, w)
        BY <1>1 DEF Start
    <2> HIDE DEF new, added, x
    <2>6. w \in Write /\ w.leave = {}
        BY <2>1, <2>2, <2>3, <2>4, NoWriteType DEF Write, NoWrite
    <2> HIDE DEF w
    <2> QED BY <2>5, <2>6, BeginType
<1>2. ASSUME NEW s \in Steps, Close(h, s)
      PROVE  TypeInv'
    <2> DEFINE new == [q \in {s} |-> "done"]
               x == StatusWrite(Synced(Update(new, step), status))
               w == [NoWrite EXCEPT !.step = new, !.status = x]
    <2>1. {s} \in SUBSET Steps /\ "done" \in StepStatus
        BY DEF StepStatus
    <2>2. x \in CaseStatus \cup {"same"}
        BY TypedStatus DEF TypeInv
    <2> HIDE DEF x
    <2>3. w \in Write /\ w.leave = {}
        BY <2>1, <2>2, StepsWrite DEF TypeInv
    <2>4. Begin(h, w)
        BY <1>2 DEF Close, x
    <2> HIDE DEF w
    <2> QED BY <2>3, <2>4, BeginType
<1>3. ASSUME NEW s \in Steps, Complete(h, s) \/ Validate(h, s)
      PROVE  TypeInv'
    <2>1. Close(h, s)
        BY <1>3 DEF Complete, Validate
    <2> QED BY <2>1, <1>2
<1>4. ASSUME NEW s \in Steps, Reopen(h, s)
      PROVE  TypeInv'
    <2> DEFINE new == [q \in {s} |-> "in_progress"]
               added == MissingRows(s, definitions)
               x == StatusWrite(Synced(Update(new, step), status))
               w == [NoWrite EXCEPT !.step = new, !.add = added, !.status = x]
    <2>1. added \in SUBSET Cells
        BY MissingRowsType
    <2>2. new \in Partial(Steps, StepStatus)
        BY PartialConstant DEF StepStatus
    <2>3. x \in CaseStatus \cup {"same"}
        BY TypedStatus DEF TypeInv
    <2>4. Begin(h, w)
        BY <1>4 DEF Reopen
    <2> HIDE DEF new, added, x
    <2>5. w \in Write /\ w.leave = {}
        BY <2>1, <2>2, <2>3, NoWriteType DEF Write, NoWrite
    <2> HIDE DEF w
    <2> QED BY <2>4, <2>5, BeginType
<1>5. ASSUME NEW s \in Steps, NEW v \in Validators, SetValidator(h, s, v)
      PROVE  TypeInv'
    <2> DEFINE w == [NoWrite EXCEPT !.validator = [q \in {s} |-> v]]
    <2>1. [q \in {s} |-> v] \in Partial(Steps, Validators)
        BY PartialConstant
    <2>2. w \in Write /\ w.leave = {}
        BY <2>1, NoWriteType DEF Write, NoWrite
    <2>3. Begin(h, w)
        BY <1>5 DEF SetValidator
    <2> HIDE DEF w
    <2> QED BY <2>2, <2>3, BeginType
<1>6. ASSUME NEW cs \in CaseStatus, UpdateCase(h, cs)
      PROVE  TypeInv'
    <2>1. PICK C \in AutoClosed(row, seat) : Begin(h, Closing(NoWrite, C, cs))
        BY <1>6 DEF UpdateCase
    <2> QED BY <2>1, RecomputeType, NoWriteType
<1>7. ASSUME NEW cs \in CaseStatus, BulkSetStatus(h, cs)
      PROVE  TypeInv'
    <2> DEFINE w == [NoWrite EXCEPT !.status = cs]
    <2>1. w \in Write /\ w.leave = {}
        BY NoWriteType DEF Write, NoWrite
    <2>2. Begin(h, w)
        BY <1>7 DEF BulkSetStatus
    <2> HIDE DEF w
    <2> QED BY <2>1, <2>2, BeginType
<1>8. ASSUME NEW p \in Persons, AddPerson(h, p)
      PROVE  TypeInv'
    <2> DEFINE added == {c \in Cells : /\ c[2] = p /\ c[1] \in definitions \ PrincipalOnly
                                       /\ step[StepOf[c[1]]] = "in_progress"}
               sent == {c \in added : c[1] \in Signable}
               w == [NoWrite EXCEPT !.join = {p}, !.add = added, !.seat = Sending(sent)]
    <2>1. added \in SUBSET Cells /\ sent \in SUBSET Cells
        OBVIOUS
    <2>2. Begin(h, w)
        BY <1>8 DEF AddPerson
    <2> HIDE DEF added, sent
    <2>3. Sending(sent) \in Partial(Cells, SeatStatus)
        BY <2>1, SendingType
    <2>4. w \in Write /\ w.leave = {}
        BY <2>1, <2>3, NoWriteType DEF Write, NoWrite
    <2> HIDE DEF w
    <2> QED BY <2>2, <2>4, BeginType
<1>9. ASSUME NEW p \in Persons, RemovePerson(h, p)
      PROVE  TypeInv'
    <2> DEFINE w == [NoWrite EXCEPT !.leave = {p}]
    <2>1. w \in Write /\ Principal \notin w.leave
        BY <1>9, NoWriteType DEF RemovePerson, Write, NoWrite
    <2>2. Begin(h, w)
        BY <1>9 DEF RemovePerson
    <2> HIDE DEF w
    <2> QED BY <2>1, <2>2, BeginType
<1> QED BY <1>1, <1>3, <1>4, <1>5, <1>6, <1>7, <1>8, <1>9 DEF Agency

LEMMA PiecesType ==
    ASSUME TypeInv, NEW h \in Handlers, Pieces(h)
    PROVE  TypeInv'
<1> status \in CaseStatus
    BY DEF TypeInv, TypeOK
<1>1. ASSUME NEW c \in Cells, Provide(h, c)
      PROVE  TypeInv'
    <2> DEFINE w == [NoWrite EXCEPT !.provide = {c}]
    <2>1. PICK C \in AutoClosed([row EXCEPT ![c] = "provided"], seat) :
              Begin(h, Closing(w, C, status))
        BY <1>1 DEF Provide
    <2>2. w \in Write /\ w.leave = {}
        BY NoWriteType DEF Write, NoWrite
    <2> HIDE DEF w
    <2> QED BY <2>1, <2>2, RecomputeType
<1>2. ASSUME NEW S \in SUBSET Cells, DeleteDocument(h, S)
      PROVE  TypeInv'
    <2> DEFINE w == [NoWrite EXCEPT !.clear = S]
               rw == [c \in Cells |-> IF c \in S THEN "pending" ELSE row[c]]
    <2>1. PICK C \in AutoClosed(rw, seat) : Begin(h, Closing(w, C, status))
        BY <1>2 DEF DeleteDocument
    <2>2. w \in Write /\ w.leave = {}
        BY NoWriteType DEF Write, NoWrite
    <2> HIDE DEF w, rw
    <2> QED BY <2>1, <2>2, RecomputeType
<1>3. ASSUME NEW c \in Cells, NEW last \in BOOLEAN, OnSignature(h, c, last)
      PROVE  TypeInv'
    <2> DEFINE signed == {x \in Cells : x = c \/ (last /\ x[1] = c[1] /\ seat[x] = "signed")}
               mark == IF last THEN "completed" ELSE "signed"
               to == [x \in signed |-> mark]
               provided == IF row[c] = "pending" THEN {c} ELSE {}
               rw == [row EXCEPT ![c] = IF @ = "pending" THEN "provided" ELSE @]
               w == [NoWrite EXCEPT !.provide = provided, !.seat = to]
    <2>1. PICK C \in AutoClosed(rw, Update(to, seat)) : Begin(h, Closing(w, C, status))
        BY <1>3 DEF OnSignature
    <2>2. signed \in SUBSET Cells /\ mark \in SeatStatus /\ provided \in SUBSET Cells
        BY DEF SeatStatus
    <2> HIDE DEF signed, mark, provided, rw
    <2>3. to \in Partial(Cells, SeatStatus)
        BY <2>2, PartialConstant
    <2> HIDE DEF to
    <2>4. w \in Write /\ w.leave = {}
        BY <2>2, <2>3, NoWriteType DEF Write, NoWrite
    <2> HIDE DEF w
    <2> QED BY <2>1, <2>4, RecomputeType
<1>4. ASSUME NEW d \in Definitions, OnCountersignature(h, d)
      PROVE  TypeInv'
    <2> DEFINE signed == {c \in Cells : c[1] = d /\ seat[c] = "signed"}
               to == [c \in signed |-> "completed"]
               w == [NoWrite EXCEPT !.seat = to]
    <2>1. PICK C \in AutoClosed(row, Update(to, seat)) : Begin(h, Closing(w, C, status))
        BY <1>4 DEF OnCountersignature
    <2>2. signed \in SUBSET Cells /\ "completed" \in SeatStatus
        BY DEF SeatStatus
    <2> HIDE DEF signed
    <2>3. to \in Partial(Cells, SeatStatus)
        BY <2>2, PartialConstant
    <2> HIDE DEF to
    <2>4. w \in Write /\ w.leave = {}
        BY <2>3, NoWriteType DEF Write, NoWrite
    <2> HIDE DEF w
    <2> QED BY <2>1, <2>4, RecomputeType
<1>5. ASSUME NEW d \in Definitions, CancelRequest(h, d)
      PROVE  TypeInv'
    <2> DEFINE freed == {c \in Cells : c[1] = d /\ seat[c] \in OpenSeat}
               w == [NoWrite EXCEPT !.seat = [c \in freed |-> "free"]]
    <2>1. Begin(h, w)
        BY <1>5 DEF CancelRequest
    <2>2. freed \in SUBSET Cells /\ "free" \in SeatStatus
        BY DEF SeatStatus
    <2> HIDE DEF freed
    <2>3. [c \in freed |-> "free"] \in Partial(Cells, SeatStatus)
        BY <2>2, PartialConstant
    <2>4. w \in Write /\ w.leave = {}
        BY <2>3, NoWriteType DEF Write, NoWrite
    <2> HIDE DEF w
    <2> QED BY <2>1, <2>4, BeginType
<1>6. ASSUME NEW s \in Steps, Resend(h, s)
      PROVE  TypeInv'
    <2> DEFINE w == [NoWrite EXCEPT !.seat = Sending(ToSend(s, {}))]
    <2>1. Begin(h, w)
        BY <1>6 DEF Resend
    <2>2. Sending(ToSend(s, {})) \in Partial(Cells, SeatStatus)
        BY ToSendType, SendingType
    <2>3. w \in Write /\ w.leave = {}
        BY <2>2, NoWriteType DEF Write, NoWrite
    <2> HIDE DEF w
    <2> QED BY <2>1, <2>3, BeginType
<1> QED BY <1>1, <1>2, <1>3, <1>4, <1>5, <1>6 DEF Pieces

LEMMA RollbackType ==
    ASSUME TypeInv, NEW h \in Handlers, Rollback(h)
    PROVE  TypeInv'
<1>1. Idle \in [busy: BOOLEAN, write: Write] /\ Idle.write.leave = {}
    BY NoWriteType DEF Idle
<1>2. /\ job' \in [Handlers -> [busy: BOOLEAN, write: Write]]
      /\ HolderStays'
    BY <1>1 DEF Rollback, TypeInv, TypeOK, HolderStays
<1> QED BY <1>2 DEF Rollback, database, TypeInv, TypeOK

LEMMA NextType == TypeInv /\ [Next]_vars => TypeInv'
<1> SUFFICES ASSUME TypeInv, [Next]_vars
             PROVE  TypeInv'
    OBVIOUS
<1>1. CASE UNCHANGED vars
    BY <1>1 DEF vars, TypeInv, TypeOK, HolderStays
<1>2. CASE Next
    <2>1. PICK h \in Handlers :
              Journey(h) \/ Agency(h) \/ Pieces(h) \/ Commit(h) \/ Rollback(h)
        BY <1>2 DEF Next
    <2> QED BY <2>1, JourneyType, AgencyType, PiecesType, CommitType, RollbackType
<1> QED BY <1>1, <1>2

(* Whatever the handlers do, and in whatever order, every variable keeps its *)
(* type, what is about to be written included, and the holder of the case    *)
(* stays on it (delete_person refuses the principal).                        *)
THEOREM StepTypeCorrect == Spec => []TypeOK
<1>1. Spec => []TypeInv
    BY InitType, NextType, PTL DEF Spec
<1>2. TypeInv => TypeOK
    BY DEF TypeInv
<1> QED BY <1>1, <1>2, PTL
-----------------------------------------------------------------------------
(* What a handler is about to write.                                         *)

(* What a write leaves when it is committed on what its handler has read.    *)
StepAfter(w)   == Update(w.step, step)
StatusAfter(w) == IF w.status = "same" THEN status ELSE w.status
RowAfter(w)    == [c \in Cells |->
                      IF c[2] \in w.leave \/ c \in w.drop THEN "none"
                      ELSE IF c \in w.add \cup w.clear THEN "pending"
                      ELSE IF c \in w.provide THEN "provided" ELSE row[c]]
SeatAfter(w)   == [c \in Cells |->
                      IF c[2] \in w.leave
                      THEN IF seat[c] \in OpenSeat THEN "gone" ELSE "free"
                      ELSE Update(w.seat, seat)[c]]

(* A step it moves exists, and has its prerequisites done.                   *)
MovesUnlocked(w) ==
    \A s \in DOMAIN w.step :
        /\ w.step[s] # "absent" /\ (w.step[s] # "todo" => step[s] # "absent")
        /\ \/ w.step[s] = "done"
           \/ step[s] = "todo" /\ w.step[s] # "todo"
           => before[s] \subseteq DoneIn(StepAfter(w))

(* With the last step it validates the case, with no other.                  *)
SyncsCase(w) ==
    StepAfter(w) # step /\ StatusAfter(w) # "closed"
    => (StatusAfter(w) = "validated" <=> Present(StepAfter(w)) \subseteq DoneIn(StepAfter(w)))

(* With a requirement it drops the rows, and adds none of them.              *)
DropsRows(w) ==
    \A c \in Cells : c[1] \in w.undefine => c \notin w.add /\ (row[c] # "none" => c \in w.drop)

(* It closes no cycle of prerequisites.                                      *)
MakesNoCycle(w) == Acyclic(before) => Acyclic(Update(w.before, before))

(* With a document it closes the steps that nothing holds back.              *)
ClosesMet(w) ==
    w.provide # {} =>
        /\ w.validator = Nowhere
        /\ \A s \in Steps :
              /\ StepAfter(w)[s] = "in_progress" /\ validator[s] = "none"
              /\ Met(s, RowAfter(w)) /\ ~HasOpenRequest(s, SeatAfter(w))
              => ~Unlocked(s)

Sound(w) ==
    MovesUnlocked(w) /\ SyncsCase(w) /\ DropsRows(w) /\ MakesNoCycle(w) /\ ClosesMet(w)

(* A handler begins on what is committed: all of it holds of its write.      *)
Begun(h) == \E w : Begin(h, w) /\ Sound(w)

-----------------------------------------------------------------------------
(* Pieces of a write.                                                        *)
LEMMA UpdateNowhere ==
    ASSUME NEW S, NEW T, NEW f \in [S -> T]
    PROVE  Update(Nowhere, f) = f
BY DEF Update, Nowhere

(* A write that moves no step, sets no edge, removes no requirement and      *)
(* provides nothing.                                                         *)
LEMMA StillSteps ==
    ASSUME TypeOK, NEW w, w.step = Nowhere
    PROVE  MovesUnlocked(w) /\ SyncsCase(w)
<1>1. StepAfter(w) = step
    BY UpdateNowhere DEF StepAfter, TypeOK
<1>2. DOMAIN w.step = {}
    BY DEF Nowhere
<1> QED
    BY <1>1, <1>2 DEF MovesUnlocked, SyncsCase

LEMMA StillEdges ==
    ASSUME TypeOK, NEW w, w.before = Nowhere
    PROVE  MakesNoCycle(w)
BY UpdateNowhere DEF MakesNoCycle, TypeOK

LEMMA StillRows ==
    ASSUME NEW w, w.undefine = {}
    PROVE  DropsRows(w)
BY DEF DropsRows

LEMMA StillCells ==
    ASSUME NEW w, w.provide = {}
    PROVE  ClosesMet(w)
BY DEF ClosesMet

(* What touches neither the journey nor what is provided is sound.           *)
LEMMA StillSound ==
    ASSUME TypeOK, NEW w, w.step = Nowhere, w.before = Nowhere,
           w.undefine = {}, w.provide = {}
    PROVE  Sound(w)
BY StillSteps, StillEdges, StillRows, StillCells DEF Sound

(* _sync_case_status says of a case that is not closed whether all its steps *)
(* are done.                                                                 *)
LEMMA SyncedSays ==
    ASSUME NEW st, Present(st) # {}, NEW cs \in CaseStatus, Synced(st, cs) # "closed"
    PROVE  Synced(st, cs) = "validated" <=> Present(st) \subseteq DoneIn(st)
BY DEF Synced, CaseStatus

LEMMA StatusWritten ==
    ASSUME status \in CaseStatus, NEW w, NEW cs \in CaseStatus, w.status = StatusWrite(cs)
    PROVE  StatusAfter(w) = cs
BY DEF StatusAfter, StatusWrite, CaseStatus

(* A write that moves the steps D and synchronises the case.                 *)
LEMMA MovedSteps ==
    ASSUME TypeOK, NEW w, DOMAIN w.step \subseteq Steps, NEW v \in StepStatus \ {"absent"},
           \A s \in DOMAIN w.step : w.step[s] = v
    PROVE  /\ StepAfter(w) \in [Steps -> StepStatus]
           /\ \A s \in Steps :
                  StepAfter(w)[s] = IF s \in DOMAIN w.step THEN v ELSE step[s]
           /\ DOMAIN w.step \subseteq Present(StepAfter(w))
           /\ DOMAIN w.step = {} => StepAfter(w) = step
<1> step \in [Steps -> StepStatus]
    BY DEF TypeOK
<1>1. StepAfter(w) = [s \in Steps |-> IF s \in DOMAIN w.step THEN v ELSE step[s]]
    BY DEF StepAfter, Update
<1> QED
    BY <1>1 DEF Present

LEMMA MovedSyncs ==
    ASSUME TypeOK, NEW w, DOMAIN w.step \subseteq Steps, NEW v \in StepStatus \ {"absent"},
           \A s \in DOMAIN w.step : w.step[s] = v, NEW cs \in CaseStatus,
           w.status = StatusWrite(Synced(StepAfter(w), cs))
    PROVE  SyncsCase(w)
<1>1. StatusAfter(w) = Synced(StepAfter(w), cs)
    BY SyncedType, StatusWritten DEF TypeOK
<1>2. /\ DOMAIN w.step \subseteq Present(StepAfter(w))
      /\ DOMAIN w.step = {} => StepAfter(w) = step
    BY MovedSteps
<1>3. CASE DOMAIN w.step = {}
    BY <1>2, <1>3 DEF SyncsCase
<1>4. CASE DOMAIN w.step # {}
    <2>1. Present(StepAfter(w)) # {}
        BY <1>2, <1>4
    <2>2. Synced(StepAfter(w), cs) # "closed" =>
              (Synced(StepAfter(w), cs) = "validated"
                  <=> Present(StepAfter(w)) \subseteq DoneIn(StepAfter(w)))
        BY <2>1, SyncedSays
    <2> QED
        BY <1>1, <2>2 DEF SyncsCase
<1> QED
    BY <1>3, <1>4

-----------------------------------------------------------------------------
(* What recompute_active adds to a write that moves no step.                 *)
LEMMA ClosingSound ==
    ASSUME TypeOK, NEW w \in Write, w.step = Nowhere,
           w.before = Nowhere, w.validator = Nowhere, w.undefine = {},
           NEW rw, NEW st, NEW C \in AutoClosed(rw, st), NEW cs \in CaseStatus,
           w.provide # {} => rw = RowAfter(w) /\ st = SeatAfter(w)
    PROVE  Sound(Closing(w, C, cs))
<1> DEFINE x == Closing(w, C, cs)
<1>1. C \in SUBSET Steps /\ C \subseteq SelfClosing(rw, st)
    BY DEF AutoClosed, SelfClosing
<1>2. /\ x.step = [s \in C |-> "done"]
      /\ x.status = IF C = {} THEN StatusWrite(cs)
                    ELSE StatusWrite(Synced(Update([s \in C |-> "done"], step), cs))
      /\ x.before = Nowhere /\ x.validator = Nowhere /\ x.undefine = {}
      /\ x.provide = w.provide /\ x.add = w.add /\ x.clear = w.clear
      /\ x.drop = w.drop /\ x.leave = w.leave /\ x.seat = w.seat
    BY DEF Closing, Write
<1> HIDE DEF x
<1>3. /\ "done" \in StepStatus \ {"absent"}
      /\ DOMAIN x.step = C /\ \A s \in C : x.step[s] = "done"
    BY <1>2 DEF StepStatus
<1>4. /\ StepAfter(x) \in [Steps -> StepStatus]
      /\ \A s \in Steps : StepAfter(x)[s] = IF s \in C THEN "done" ELSE step[s]
    BY <1>1, <1>2, <1>3, MovedSteps
<1>5. MovesUnlocked(x)
    <2>1. DoneIn(step) \cup C \subseteq DoneIn(StepAfter(x))
        BY <1>1, <1>4 DEF DoneIn
    <2>2. \A s \in C : before[s] \subseteq DoneIn(step) \cup C
        BY DEF AutoClosed
    <2>3. \A s \in C : step[s] = "in_progress"
        BY <1>1 DEF SelfClosing
    <2> QED
        BY <1>2, <2>1, <2>2, <2>3 DEF MovesUnlocked
<1>6. SyncsCase(x)
    <2>1. CASE C = {}
        <3>1. StepAfter(x) = step
            BY <1>4, <2>1 DEF TypeOK
        <3> QED
            BY <3>1 DEF SyncsCase
    <2>2. CASE C # {}
        <3>1. x.status = StatusWrite(Synced(StepAfter(x), cs))
            BY <1>2, <2>2 DEF StepAfter
        <3> QED
            BY <1>1, <1>2, <1>3, <3>1, MovedSyncs
    <2> QED
        BY <2>1, <2>2
<1>7. DropsRows(x) /\ MakesNoCycle(x)
    BY <1>2, StillRows, StillEdges
<1>8. ClosesMet(x)
    <2> SUFFICES ASSUME w.provide # {}, NEW s \in Steps,
                        StepAfter(x)[s] = "in_progress", validator[s] = "none",
                        Met(s, RowAfter(x)), ~HasOpenRequest(s, SeatAfter(x))
                 PROVE  ~Unlocked(s)
        BY <1>2 DEF ClosesMet
    <2>1. RowAfter(x) = rw /\ SeatAfter(x) = st
        BY <1>2 DEF RowAfter, SeatAfter
    <2>2. s \in SelfClosing(rw, st) \ C
        BY <1>4, <2>1 DEF SelfClosing
    <2> QED
        BY <2>2 DEF AutoClosed
<1> QED
    BY <1>5, <1>6, <1>7, <1>8 DEF Sound, x

-----------------------------------------------------------------------------
(* The handlers.                                                             *)

(* One step to a status v, checked by the lock when v asks for it.           *)
LEMMA MoveSound ==
    ASSUME TypeOK, NEW s \in Steps, NEW v \in StepStatus \ {"absent"},
           NEW w, w.step = [q \in {s} |-> v],
           w.status = StatusWrite(Synced(Update([q \in {s} |-> v], step), status)),
           w.before = Nowhere, w.undefine = {}, w.provide = {},
           v # "todo" => step[s] # "absent",
           v = "done" \/ (step[s] = "todo" /\ v # "todo") => Unlocked(s)
    PROVE  Sound(w)
<1>1. DOMAIN w.step = {s} /\ w.step[s] = v
    OBVIOUS
<1>2. /\ StepAfter(w) \in [Steps -> StepStatus]
      /\ \A q \in Steps : StepAfter(w)[q] = IF q \in DOMAIN w.step THEN v ELSE step[q]
    BY <1>1, MovedSteps
<1>3. MovesUnlocked(w)
    <2> SUFFICES ASSUME v = "done" \/ (step[s] = "todo" /\ v # "todo")
                 PROVE  before[s] \subseteq DoneIn(StepAfter(w))
        BY <1>1 DEF MovesUnlocked
    <2>1. DoneIn(step) \subseteq DoneIn(StepAfter(w))
        BY <1>1, <1>2 DEF DoneIn
    <2> QED
        BY <2>1 DEF Unlocked
<1>4. SyncsCase(w)
    <2>1. w.status = StatusWrite(Synced(StepAfter(w), status)) /\ status \in CaseStatus
        BY DEF StepAfter, TypeOK
    <2> QED
        BY <1>1, <2>1, MovedSyncs
<1> QED
    BY <1>3, <1>4, StillEdges, StillRows, StillCells DEF Sound

LEMMA JourneySound ==
    ASSUME TypeInv, NEW h \in Handlers, Journey(h)
    PROVE  Begun(h)
<1> TypeOK
    BY DEF TypeInv
<1>1. ASSUME NEW b \in BOOLEAN, AssignJourney(h, b)
      PROVE  Begun(h)
    <2> DEFINE new == [s \in InitialSteps |-> "todo"]
               cs == Synced(Update(new, step), status)
               x == IF b /\ cs = "prospect" THEN "in_progress" ELSE cs
               w == [NoWrite EXCEPT !.step = new, !.status = StatusWrite(x)]
    <2>1. Begin(h, w) /\ ~Assigned
        BY <1>1 DEF AssignJourney
    <2>2. /\ w.step = new /\ w.status = StatusWrite(x)
          /\ w.before = Nowhere /\ w.undefine = {} /\ w.provide = {}
        BY DEF NoWrite
    <2> HIDE DEF w
    <2>3. /\ DOMAIN w.step = InitialSteps /\ InitialSteps \subseteq Steps /\ InitialSteps # {}
          /\ \A s \in DOMAIN w.step : w.step[s] = "todo"
        BY <2>2, StepAssumption
    <2>4. /\ StepAfter(w) \in [Steps -> StepStatus]
          /\ \A s \in Steps : StepAfter(w)[s] = IF s \in InitialSteps THEN "todo" ELSE step[s]
          /\ InitialSteps \subseteq Present(StepAfter(w))
        BY <2>3, MovedSteps DEF StepStatus
    <2>5. \A s \in Steps : step[s] = "absent"
        BY <2>1 DEF Assigned, Present
    <2>6. MovesUnlocked(w)
        BY <2>3, <2>5 DEF MovesUnlocked
    <2>7. SyncsCase(w)
        <3>1. cs = Synced(StepAfter(w), status) /\ cs \in CaseStatus
            BY <2>2, SyncedType DEF StepAfter, TypeOK
        <3>2. ~(Present(StepAfter(w)) \subseteq DoneIn(StepAfter(w)))
            BY <2>3, <2>4 DEF DoneIn
        <3>3. cs # "validated" /\ x # "validated" /\ x \in CaseStatus
            BY <2>3, <2>4, <3>1, <3>2 DEF Synced, CaseStatus
        <3>4. StatusAfter(w) = x
            BY <2>2, <3>3, StatusWritten DEF TypeOK
        <3> QED
            BY <3>2, <3>3, <3>4 DEF SyncsCase
    <2>8. Sound(w)
        BY <2>2, <2>6, <2>7, StillEdges, StillRows, StillCells DEF Sound
    <2> QED
        BY <2>1, <2>8 DEF Begun
<1>2. ASSUME NEW s \in Steps, AddStep(h, s)
      PROVE  Begun(h)
    <2> DEFINE new == [q \in {s} |-> "todo"]
               w == [NoWrite EXCEPT !.step = new,
                                    !.status = StatusWrite(Synced(Update(new, step), status))]
    <2>1. Begin(h, w) /\ step[s] = "absent"
        BY <1>2 DEF AddStep
    <2>2. /\ w.step = new /\ w.status = StatusWrite(Synced(Update(new, step), status))
          /\ w.before = Nowhere /\ w.undefine = {} /\ w.provide = {}
        BY DEF NoWrite
    <2> HIDE DEF w
    <2>3. Sound(w)
        BY <2>1, <2>2, MoveSound DEF StepStatus
    <2> QED
        BY <2>1, <2>3 DEF Begun
<1>3. ASSUME NEW s \in Steps, NEW S \in SUBSET Steps, SetPrerequisites(h, s, S)
      PROVE  Begun(h)
    <2> DEFINE w == [NoWrite EXCEPT !.before = [q \in {s} |-> S]]
    <2>1. Begin(h, w) /\ Acyclic([before EXCEPT ![s] = S])
        BY <1>3 DEF SetPrerequisites
    <2>2. /\ w.before = [q \in {s} |-> S] /\ w.step = Nowhere
          /\ w.undefine = {} /\ w.provide = {}
        BY DEF NoWrite
    <2> HIDE DEF w
    <2>3. Update(w.before, before) = [before EXCEPT ![s] = S]
        BY <2>2 DEF Update, TypeOK
    <2>4. Sound(w)
        BY <2>1, <2>2, <2>3, StillSteps, StillRows, StillCells DEF Sound, MakesNoCycle
    <2> QED
        BY <2>1, <2>4 DEF Begun
<1>4. ASSUME NEW d \in Definitions, AddRequirement(h, d)
      PROVE  Begun(h)
    <2> DEFINE s == StepOf[d]
               added == IF step[s] = "in_progress"
                        THEN MissingRows(s, definitions \cup {d}) ELSE {}
               sent == IF d \in Signable /\ added # {} THEN ToSend(s, added) ELSE {}
               w == [NoWrite EXCEPT !.define = {d}, !.add = added, !.seat = Sending(sent)]
    <2>1. Begin(h, w)
        BY <1>4 DEF AddRequirement
    <2>2. w.step = Nowhere /\ w.before = Nowhere /\ w.undefine = {} /\ w.provide = {}
        BY DEF NoWrite
    <2> HIDE DEF w
    <2> QED
        BY <2>1, <2>2, StillSound DEF Begun
<1>5. ASSUME NEW d \in Definitions, DeleteRequirement(h, d)
      PROVE  Begun(h)
    <2> DEFINE rows == {c \in Cells : c[1] = d /\ row[c] # "none"}
               open == {c \in Cells : c[1] = d /\ seat[c] \in OpenSeat}
               w == [NoWrite EXCEPT !.undefine = {d}, !.drop = rows,
                                    !.seat = [c \in open |-> "free"]]
    <2>1. Begin(h, w)
        BY <1>5 DEF DeleteRequirement
    <2>2. /\ w.step = Nowhere /\ w.before = Nowhere /\ w.provide = {}
          /\ w.undefine = {d} /\ w.add = {} /\ w.drop = rows
        BY DEF NoWrite
    <2> HIDE DEF w
    <2>3. DropsRows(w)
        BY <2>2 DEF DropsRows
    <2>4. Sound(w)
        BY <2>2, <2>3, StillSteps, StillEdges, StillCells DEF Sound
    <2> QED
        BY <2>1, <2>4 DEF Begun
<1> QED
    BY <1>1, <1>2, <1>3, <1>4, <1>5 DEF Journey

LEMMA AgencySound ==
    ASSUME TypeInv, NEW h \in Handlers, Agency(h)
    PROVE  Begun(h)
<1> TypeOK
    BY DEF TypeInv
<1>1. ASSUME NEW s \in Steps, Start(h, s)
      PROVE  Begun(h)
    <2> DEFINE new == [q \in {s} |-> "in_progress"]
               added == MissingRows(s, definitions)
               w == [NoWrite EXCEPT !.step = new, !.add = added,
                                    !.seat = Sending(ToSend(s, added)),
                                    !.status = StatusWrite(Synced(Update(new, step), status))]
    <2>1. Begin(h, w) /\ Unlocked(s) /\ step[s] = "todo"
        BY <1>1 DEF Start
    <2>2. /\ w.step = new /\ w.status = StatusWrite(Synced(Update(new, step), status))
          /\ w.before = Nowhere /\ w.undefine = {} /\ w.provide = {}
        BY DEF NoWrite
    <2> HIDE DEF w
    <2>3. Sound(w)
        BY <2>1, <2>2, MoveSound DEF StepStatus
    <2> QED
        BY <2>1, <2>3 DEF Begun
<1>2. ASSUME NEW s \in Steps, Close(h, s), step[s] # "absent"
      PROVE  Begun(h)
    <2> DEFINE new == [q \in {s} |-> "done"]
               w == [NoWrite EXCEPT !.step = new,
                                    !.status = StatusWrite(Synced(Update(new, step), status))]
    <2>1. Begin(h, w) /\ Unlocked(s) /\ step[s] # "absent"
        BY <1>2 DEF Close
    <2>2. /\ w.step = new /\ w.status = StatusWrite(Synced(Update(new, step), status))
          /\ w.before = Nowhere /\ w.undefine = {} /\ w.provide = {}
        BY DEF NoWrite
    <2> HIDE DEF w
    <2>3. Sound(w)
        BY <2>1, <2>2, MoveSound DEF StepStatus
    <2> QED
        BY <2>1, <2>3 DEF Begun
<1>3. ASSUME NEW s \in Steps, Complete(h, s) \/ Validate(h, s)
      PROVE  Begun(h)
    BY <1>2, <1>3 DEF Complete, Validate
<1>4. ASSUME NEW s \in Steps, Reopen(h, s)
      PROVE  Begun(h)
    <2> DEFINE new == [q \in {s} |-> "in_progress"]
               w == [NoWrite EXCEPT !.step = new, !.add = MissingRows(s, definitions),
                                    !.status = StatusWrite(Synced(Update(new, step), status))]
    <2>1. Begin(h, w) /\ step[s] = "done"
        BY <1>4 DEF Reopen
    <2>2. /\ w.step = new /\ w.status = StatusWrite(Synced(Update(new, step), status))
          /\ w.before = Nowhere /\ w.undefine = {} /\ w.provide = {}
        BY DEF NoWrite
    <2> HIDE DEF w
    <2>3. Sound(w)
        BY <2>1, <2>2, MoveSound DEF StepStatus
    <2> QED
        BY <2>1, <2>3 DEF Begun
<1>5. ASSUME NEW s \in Steps, NEW v \in Validators, SetValidator(h, s, v)
      PROVE  Begun(h)
    <2> DEFINE w == [NoWrite EXCEPT !.validator = [q \in {s} |-> v]]
    <2>1. Begin(h, w)
        BY <1>5 DEF SetValidator
    <2>2. w.step = Nowhere /\ w.before = Nowhere /\ w.undefine = {} /\ w.provide = {}
        BY DEF NoWrite
    <2> HIDE DEF w
    <2> QED
        BY <2>1, <2>2, StillSound DEF Begun
<1>6. ASSUME NEW cs \in CaseStatus, UpdateCase(h, cs)
      PROVE  Begun(h)
    <2>1. PICK C \in AutoClosed(row, seat) : Begin(h, Closing(NoWrite, C, cs))
        BY <1>6 DEF UpdateCase
    <2>2. /\ NoWrite \in Write /\ NoWrite.step = Nowhere /\ NoWrite.before = Nowhere
          /\ NoWrite.validator = Nowhere /\ NoWrite.undefine = {} /\ NoWrite.provide = {}
        BY NoWriteType DEF NoWrite
    <2>3. Sound(Closing(NoWrite, C, cs))
        BY <2>2, ClosingSound
    <2> QED
        BY <2>1, <2>3 DEF Begun
<1>7. ASSUME NEW cs \in CaseStatus, BulkSetStatus(h, cs)
      PROVE  Begun(h)
    <2> DEFINE w == [NoWrite EXCEPT !.status = cs]
    <2>1. Begin(h, w)
        BY <1>7 DEF BulkSetStatus
    <2>2. w.step = Nowhere /\ w.before = Nowhere /\ w.undefine = {} /\ w.provide = {}
        BY DEF NoWrite
    <2> HIDE DEF w
    <2> QED
        BY <2>1, <2>2, StillSound DEF Begun
<1>8. ASSUME NEW p \in Persons, AddPerson(h, p)
      PROVE  Begun(h)
    <2> DEFINE added == {c \in Cells : /\ c[2] = p /\ c[1] \in definitions \ PrincipalOnly
                                       /\ step[StepOf[c[1]]] = "in_progress"}
               w == [NoWrite EXCEPT !.join = {p}, !.add = added,
                                    !.seat = Sending({c \in added : c[1] \in Signable})]
    <2>1. Begin(h, w)
        BY <1>8 DEF AddPerson
    <2>2. w.step = Nowhere /\ w.before = Nowhere /\ w.undefine = {} /\ w.provide = {}
        BY DEF NoWrite
    <2> HIDE DEF w
    <2> QED
        BY <2>1, <2>2, StillSound DEF Begun
<1>9. ASSUME NEW p \in Persons, RemovePerson(h, p)
      PROVE  Begun(h)
    <2> DEFINE w == [NoWrite EXCEPT !.leave = {p}]
    <2>1. Begin(h, w)
        BY <1>9 DEF RemovePerson
    <2>2. w.step = Nowhere /\ w.before = Nowhere /\ w.undefine = {} /\ w.provide = {}
        BY DEF NoWrite
    <2> HIDE DEF w
    <2> QED
        BY <2>1, <2>2, StillSound DEF Begun
<1> QED
    BY <1>1, <1>3, <1>4, <1>5, <1>6, <1>7, <1>8, <1>9 DEF Agency

LEMMA PiecesSound ==
    ASSUME TypeInv, NEW h \in Handlers, Pieces(h)
    PROVE  Begun(h)
<1> TypeOK /\ status \in CaseStatus
    BY DEF TypeInv, TypeOK
<1>1. ASSUME NEW c \in Cells, Provide(h, c)
      PROVE  Begun(h)
    <2> DEFINE rw == [row EXCEPT ![c] = "provided"]
               w == [NoWrite EXCEPT !.provide = {c}]
    <2>1. PICK C \in AutoClosed(rw, seat) : Begin(h, Closing(w, C, status))
        BY <1>1 DEF Provide
    <2>2. /\ w \in Write /\ w.step = Nowhere /\ w.before = Nowhere
          /\ w.validator = Nowhere /\ w.undefine = {}
          /\ w.leave = {} /\ w.drop = {} /\ w.add = {} /\ w.clear = {}
          /\ w.provide = {c} /\ w.seat = Nowhere
        BY NoWriteType DEF Write, NoWrite
    <2> HIDE DEF w
    <2>3. rw = RowAfter(w)
        BY <2>2 DEF RowAfter, TypeOK
    <2>4. seat = SeatAfter(w)
        BY <2>2, UpdateNowhere DEF SeatAfter, TypeOK
    <2>5. Sound(Closing(w, C, status))
        BY <2>2, <2>3, <2>4, ClosingSound
    <2> QED
        BY <2>1, <2>5 DEF Begun
<1>2. ASSUME NEW S \in SUBSET Cells, DeleteDocument(h, S)
      PROVE  Begun(h)
    <2> DEFINE rw == [c \in Cells |-> IF c \in S THEN "pending" ELSE row[c]]
               w == [NoWrite EXCEPT !.clear = S]
    <2>1. PICK C \in AutoClosed(rw, seat) : Begin(h, Closing(w, C, status))
        BY <1>2 DEF DeleteDocument
    <2>2. /\ w \in Write /\ w.step = Nowhere /\ w.before = Nowhere
          /\ w.validator = Nowhere /\ w.undefine = {} /\ w.provide = {}
        BY NoWriteType DEF Write, NoWrite
    <2> HIDE DEF w, rw
    <2>3. Sound(Closing(w, C, status))
        BY <2>2, ClosingSound
    <2> QED
        BY <2>1, <2>3 DEF Begun
<1>3. ASSUME NEW c \in Cells, NEW last \in BOOLEAN, OnSignature(h, c, last)
      PROVE  Begun(h)
    <2> DEFINE signed == {x \in Cells : x = c \/ (last /\ x[1] = c[1] /\ seat[x] = "signed")}
               mark == IF last THEN "completed" ELSE "signed"
               to == [x \in signed |-> mark]
               provided == IF row[c] = "pending" THEN {c} ELSE {}
               rw == [row EXCEPT ![c] = IF @ = "pending" THEN "provided" ELSE @]
               w == [NoWrite EXCEPT !.provide = provided, !.seat = to]
    <2>1. PICK C \in AutoClosed(rw, Update(to, seat)) : Begin(h, Closing(w, C, status))
        BY <1>3 DEF OnSignature
    <2>2. signed \in SUBSET Cells /\ mark \in SeatStatus /\ provided \in SUBSET Cells
        BY DEF SeatStatus
    <2>3. \A x \in Cells : rw[x] = IF x \in provided THEN "provided" ELSE row[x]
        BY DEF TypeOK
    <2>4. rw = [x \in Cells |-> IF x \in provided THEN "provided" ELSE row[x]]
        BY <2>3 DEF TypeOK
    <2> HIDE DEF signed, mark, provided, rw
    <2>5. to \in Partial(Cells, SeatStatus)
        BY <2>2, PartialConstant
    <2> HIDE DEF to
    <2>6. /\ w \in Write /\ w.step = Nowhere /\ w.before = Nowhere
          /\ w.validator = Nowhere /\ w.undefine = {}
          /\ w.leave = {} /\ w.drop = {} /\ w.add = {} /\ w.clear = {}
          /\ w.provide = provided /\ w.seat = to
        BY <2>2, <2>5, NoWriteType DEF Write, NoWrite
    <2> HIDE DEF w
    <2>7. rw = RowAfter(w)
        BY <2>4, <2>6 DEF RowAfter
    <2>8. Update(to, seat) = SeatAfter(w)
        <3>1. Update(to, seat) \in [Cells -> SeatStatus]
            BY <2>5, UpdateType DEF TypeOK
        <3> QED
            BY <2>6, <3>1 DEF SeatAfter
    <2>9. Sound(Closing(w, C, status))
        BY <2>6, <2>7, <2>8, ClosingSound
    <2> QED
        BY <2>1, <2>9 DEF Begun
<1>4. ASSUME NEW d \in Definitions, OnCountersignature(h, d)
      PROVE  Begun(h)
    <2> DEFINE signed == {c \in Cells : c[1] = d /\ seat[c] = "signed"}
               to == [c \in signed |-> "completed"]
               w == [NoWrite EXCEPT !.seat = to]
    <2>1. PICK C \in AutoClosed(row, Update(to, seat)) : Begin(h, Closing(w, C, status))
        BY <1>4 DEF OnCountersignature
    <2>2. signed \in SUBSET Cells /\ "completed" \in SeatStatus
        BY DEF SeatStatus
    <2> HIDE DEF signed
    <2>3. to \in Partial(Cells, SeatStatus)
        BY <2>2, PartialConstant
    <2> HIDE DEF to
    <2>4. /\ w \in Write /\ w.step = Nowhere /\ w.before = Nowhere
          /\ w.validator = Nowhere /\ w.undefine = {} /\ w.provide = {}
        BY <2>3, NoWriteType DEF Write, NoWrite
    <2> HIDE DEF w
    <2>5. Sound(Closing(w, C, status))
        BY <2>4, ClosingSound
    <2> QED
        BY <2>1, <2>5 DEF Begun
<1>5. ASSUME NEW d \in Definitions, CancelRequest(h, d)
      PROVE  Begun(h)
    <2> DEFINE freed == {c \in Cells : c[1] = d /\ seat[c] \in OpenSeat}
               w == [NoWrite EXCEPT !.seat = [c \in freed |-> "free"]]
    <2>1. Begin(h, w)
        BY <1>5 DEF CancelRequest
    <2>2. w.step = Nowhere /\ w.before = Nowhere /\ w.undefine = {} /\ w.provide = {}
        BY DEF NoWrite
    <2> HIDE DEF w
    <2> QED
        BY <2>1, <2>2, StillSound DEF Begun
<1>6. ASSUME NEW s \in Steps, Resend(h, s)
      PROVE  Begun(h)
    <2> DEFINE w == [NoWrite EXCEPT !.seat = Sending(ToSend(s, {}))]
    <2>1. Begin(h, w)
        BY <1>6 DEF Resend
    <2>2. w.step = Nowhere /\ w.before = Nowhere /\ w.undefine = {} /\ w.provide = {}
        BY DEF NoWrite
    <2> HIDE DEF w
    <2> QED
        BY <2>1, <2>2, StillSound DEF Begun
<1> QED
    BY <1>1, <1>2, <1>3, <1>4, <1>5, <1>6 DEF Pieces

(* Who writes and who waits.                                                 *)

(* A step that is not a commit writes nothing; what a handler holds after it *)
(* it held before, or has just read what it rests on.                        *)
Reads ==
    /\ UNCHANGED database
    /\ \A h \in Handlers :
           job'[h].busy => \/ job[h].busy /\ job'[h].write = job[h].write
                           \/ Sound(job'[h].write)

(* A commit ends its handler and lets the others be.                         *)
LEMMA ReadsOrCommits ==
    ASSUME TypeInv, [Next]_vars, ~Reads
    PROVE  \E h \in Handlers :
              /\ Commit(h) /\ job[h].write \in Write
              /\ \A g \in Handlers : job'[g].busy => g # h /\ job'[g] = job[g]
<1> job \in [Handlers -> [busy: BOOLEAN, write: Write]]
    BY DEF TypeInv, TypeOK
<1>1. ASSUME NEW h \in Handlers, Begun(h) PROVE Reads
    <2>1. PICK w : Begin(h, w) /\ Sound(w)
        BY <1>1 DEF Begun
    <2>2. job'[h].write = w /\ \A g \in Handlers \ {h} : job'[g] = job[g]
        BY <2>1 DEF Begin
    <2> QED
        BY <2>1, <2>2 DEF Begin, Reads
<1>2. ASSUME NEW h \in Handlers, Rollback(h) PROVE Reads
    <2>1. ~job'[h].busy /\ \A g \in Handlers \ {h} : job'[g] = job[g]
        BY <1>2 DEF Rollback, Idle
    <2> QED
        BY <1>2, <2>1 DEF Rollback, Reads
<1>3. CASE UNCHANGED vars
    BY <1>3 DEF vars, database, Reads
<1>4. PICK h \in Handlers : Commit(h)
    BY <1>1, <1>2, <1>3, JourneySound, AgencySound, PiecesSound DEF Next
<1>5. ~job'[h].busy /\ \A g \in Handlers \ {h} : job'[g] = job[g]
    BY <1>4 DEF Commit, Idle
<1> QED
    BY <1>4, <1>5

LEMMA CommitLeaves ==
    ASSUME NEW h \in Handlers, Commit(h), NEW w, w = job[h].write
    PROVE  /\ step' = StepAfter(w) /\ status' = StatusAfter(w)
           /\ row' = RowAfter(w) /\ seat' = SeatAfter(w)
           /\ before' = Update(w.before, before)
           /\ validator' = Update(w.validator, validator)
BY DEF Commit, StepAfter, StatusAfter, RowAfter, SeatAfter

LEMMA SpecTyped == Spec => []TypeInv
BY InitType, NextType, PTL DEF Spec

LEMMA InitIdle == Init => \A h \in Handlers : ~job[h].busy
BY DEF Init, Idle

(* What a handler holds is read in the state, which a read leaves alone.     *)
LEMMA ReadsKeep ==
    ASSUME Reads, NEW w
    PROVE  /\ MovesUnlocked(w)' = MovesUnlocked(w) /\ SyncsCase(w)' = SyncsCase(w)
           /\ DropsRows(w)' = DropsRows(w) /\ MakesNoCycle(w)' = MakesNoCycle(w)
           /\ ClosesMet(w)' = ClosesMet(w)
<1>1. UNCHANGED database
    BY DEF Reads
<1>2. /\ StepAfter(w)' = StepAfter(w) /\ StatusAfter(w)' = StatusAfter(w)
      /\ RowAfter(w)' = RowAfter(w) /\ SeatAfter(w)' = SeatAfter(w)
    BY <1>1 DEF StepAfter, StatusAfter, RowAfter, SeatAfter, database
<1>3. MovesUnlocked(w)' = MovesUnlocked(w) /\ SyncsCase(w)' = SyncsCase(w)
    BY <1>1, <1>2 DEF MovesUnlocked, SyncsCase, database
<1>4. DropsRows(w)' = DropsRows(w) /\ MakesNoCycle(w)' = MakesNoCycle(w)
    BY <1>1 DEF DropsRows, MakesNoCycle, database
<1>5. ClosesMet(w)' = ClosesMet(w)
    BY <1>1, <1>2 DEF ClosesMet, Met, RowsOf, HasOpenRequest, Unlocked, database
<1> QED
    BY <1>3, <1>4, <1>5

-----------------------------------------------------------------------------
(* The rows of a template.                                                   *)

(* No requirement is deleted while somebody is about to add rows of it.      *)
RowsApart ==
    \A g, h \in Handlers :
        g # h /\ job[g].busy /\ job[h].busy
        => \A c \in job[g].write.add : c[1] \notin job[h].write.undefine

RowsInv == /\ NoOrphanRow
           /\ \A h \in Handlers : job[h].busy => DropsRows(job[h].write)

LEMMA RowsStep == TypeInv /\ RowsInv /\ RowsApart /\ [Next]_vars => RowsInv'
<1> SUFFICES ASSUME TypeInv, RowsInv, RowsApart, [Next]_vars
             PROVE  RowsInv'
    OBVIOUS
<1>1. CASE Reads
    <2>1. NoOrphanRow'
        BY <1>1 DEF Reads, RowsInv, NoOrphanRow, database
    <2>2. ASSUME NEW h \in Handlers, job'[h].busy PROVE DropsRows(job[h].write)'
        <3>1. DropsRows(job'[h].write)
            BY <1>1, <2>2 DEF Reads, RowsInv, Sound
        <3> QED
            BY <1>1, <3>1 DEF DropsRows, Reads, database
    <2> QED
        BY <2>1, <2>2 DEF RowsInv
<1>2. CASE ~Reads
    <2>1. PICK h \in Handlers :
              /\ Commit(h) /\ job[h].write \in Write
              /\ \A g \in Handlers : job'[g].busy => g # h /\ job'[g] = job[g]
        BY <1>2, ReadsOrCommits
    <2> DEFINE w == job[h].write
    <2>2. DropsRows(w)
        BY <2>1 DEF RowsInv, Commit
    <2>3. NoOrphanRow'
        <3> SUFFICES ASSUME NEW c \in Cells, row'[c] # "none"
                     PROVE  c[1] \in definitions' /\ c[2] \in people'
            BY DEF NoOrphanRow
        <3>1. /\ c[2] \notin w.leave /\ c \notin w.drop
              /\ c \in w.add \/ row[c] # "none"
            BY <2>1 DEF Commit, Refused
        <3>2. c[1] \notin w.undefine
            BY <2>2, <3>1 DEF DropsRows
        <3>3. c[1] \in definitions \cup w.define /\ c[2] \in people \cup w.join
            BY <2>1, <3>1 DEF Commit, Refused, RowsInv, NoOrphanRow
        <3> QED
            BY <2>1, <3>1, <3>2, <3>3 DEF Commit
    <2>4. ASSUME NEW g \in Handlers, job'[g].busy PROVE DropsRows(job[g].write)'
        <3>1. g # h /\ job[g].busy /\ job'[g] = job[g] /\ job[h].busy
            BY <2>1, <2>4 DEF Commit
        <3>2. DropsRows(job[g].write) /\ \A c \in w.add : c[1] \notin job[g].write.undefine
            BY <3>1 DEF RowsInv, RowsApart
        <3>3. \A c \in Cells : row'[c] # "none" => c \in w.add \/ row[c] # "none"
            BY <2>1 DEF Commit, Refused
        <3> QED
            BY <3>1, <3>2, <3>3 DEF DropsRows
    <2> QED
        BY <2>3, <2>4 DEF RowsInv
<1> QED
    BY <1>1, <1>2

(* What a step asks is asked by the template of somebody on the case, unless *)
(* a requirement is deleted while somebody materializes it: for any number   *)
(* of handlers that overlap otherwise.                                       *)
THEOREM StepNoOrphanRow == Spec /\ []RowsApart => []NoOrphanRow
<1>1. Init => RowsInv
    BY InitIdle DEF Init, RowsInv, NoOrphanRow
<1>2. RowsInv => NoOrphanRow
    BY DEF RowsInv
<1> QED
    BY <1>1, <1>2, RowsStep, SpecTyped, PTL DEF Spec

-----------------------------------------------------------------------------
(* The prerequisites of a template.                                          *)

(* No two handlers are about to set prerequisites.                           *)
SetsEdges(w) == DOMAIN w.before # {}
EdgesApart ==
    \A g, h \in Handlers :
        g # h /\ job[g].busy /\ job[h].busy
        => ~(SetsEdges(job[g].write) /\ SetsEdges(job[h].write))

EdgesInv == /\ PrerequisitesAcyclic
            /\ \A h \in Handlers : job[h].busy => MakesNoCycle(job[h].write)

LEMMA NoEdgeNoChange ==
    ASSUME TypeOK, NEW w, ~SetsEdges(w)
    PROVE  Update(w.before, before) = before
BY DEF SetsEdges, Update, TypeOK

LEMMA EdgesStep == TypeInv /\ TypeInv' /\ EdgesInv /\ EdgesApart /\ [Next]_vars => EdgesInv'
<1> SUFFICES ASSUME TypeInv, TypeInv', EdgesInv, EdgesApart, [Next]_vars
             PROVE  EdgesInv'
    OBVIOUS
<1> TypeOK /\ TypeOK'
    BY DEF TypeInv
<1>1. CASE Reads
    <2>1. PrerequisitesAcyclic'
        BY <1>1 DEF Reads, EdgesInv, PrerequisitesAcyclic, Acyclic, database
    <2>2. ASSUME NEW h \in Handlers, job'[h].busy PROVE MakesNoCycle(job[h].write)'
        <3>1. MakesNoCycle(job'[h].write)
            BY <1>1, <2>2 DEF Reads, EdgesInv, Sound
        <3> QED
            BY <1>1, <3>1 DEF MakesNoCycle, Reads, database
    <2> QED
        BY <2>1, <2>2 DEF EdgesInv
<1>2. CASE ~Reads
    <2>1. PICK h \in Handlers :
              /\ Commit(h) /\ job[h].write \in Write
              /\ \A g \in Handlers : job'[g].busy => g # h /\ job'[g] = job[g]
        BY <1>2, ReadsOrCommits
    <2>2. MakesNoCycle(job[h].write) /\ before' = Update(job[h].write.before, before)
        BY <2>1 DEF EdgesInv, Commit
    <2>3. PrerequisitesAcyclic'
        BY <2>2 DEF EdgesInv, MakesNoCycle, PrerequisitesAcyclic, Acyclic
    <2>4. ASSUME NEW g \in Handlers, job'[g].busy PROVE MakesNoCycle(job[g].write)'
        <3>1. g # h /\ job[g].busy /\ job'[g] = job[g] /\ job[h].busy
            BY <2>1, <2>4 DEF Commit
        <3>2. CASE SetsEdges(job[h].write)
            <4>1. DOMAIN job[g].write.before = {}
                BY <3>1, <3>2 DEF EdgesApart, SetsEdges
            <4>2. Update(job[g].write.before, before') = before'
                BY <4>1 DEF Update, TypeOK
            <4> QED
                BY <3>1, <4>2 DEF MakesNoCycle
        <3>3. CASE ~SetsEdges(job[h].write)
            <4>1. before' = before
                BY <2>2, <3>3, NoEdgeNoChange
            <4>2. MakesNoCycle(job[g].write)
                BY <3>1 DEF EdgesInv
            <4> QED
                BY <3>1, <4>1, <4>2 DEF MakesNoCycle
        <3> QED
            BY <3>2, <3>3
    <2> QED
        BY <2>3, <2>4 DEF EdgesInv
<1> QED
    BY <1>1, <1>2

(* No edit of the prerequisites closes a cycle, unless two edits overlap:    *)
(* whatever else overlaps them.                                              *)
THEOREM StepPrerequisitesAcyclic == Spec /\ []EdgesApart => []PrerequisitesAcyclic
<1>1. Init => EdgesInv
    BY InitIdle, StepAssumption DEF Init, EdgesInv, PrerequisitesAcyclic
<1>2. EdgesInv => PrerequisitesAcyclic
    BY DEF EdgesInv
<1> QED
    BY <1>1, <1>2, EdgesStep, SpecTyped, PTL DEF Spec

-----------------------------------------------------------------------------
(* The lock.                                                                 *)

(* Nobody reopens a done step or sets prerequisites while somebody else is   *)
(* about to move a step: starts and closures may overlap each other.         *)
Advances(w) == \E s \in DOMAIN w.step : w.step[s] # "todo"
Loosens(w)  == \/ SetsEdges(w)
               \/ \E s \in DOMAIN w.step : step[s] = "done" /\ w.step[s] # "done"
LockApart ==
    \A g, h \in Handlers :
        g # h /\ job[g].busy /\ job[h].busy
        => ~(Loosens(job[g].write) /\ Advances(job[h].write))

LockInv == \A h \in Handlers : job[h].busy => MovesUnlocked(job[h].write)

LEMMA LockStep == TypeInv /\ LockInv /\ LockApart /\ [Next]_vars => LockInv'
<1> SUFFICES ASSUME TypeInv, LockInv, LockApart, [Next]_vars, NEW g \in Handlers, job'[g].busy
             PROVE  MovesUnlocked(job[g].write)'
    BY DEF LockInv
<1> step \in [Steps -> StepStatus] /\ before \in [Steps -> SUBSET Steps]
    BY DEF TypeInv, TypeOK
<1>1. CASE Reads
    <2>1. MovesUnlocked(job'[g].write)
        BY <1>1 DEF Reads, LockInv, Sound
    <2> QED
        BY <1>1, <2>1 DEF MovesUnlocked, StepAfter, Reads, database
<1>2. CASE ~Reads
    <2>1. PICK h \in Handlers :
              /\ Commit(h) /\ job[h].write \in Write
              /\ \A i \in Handlers : job'[i].busy => i # h /\ job'[i] = job[i]
        BY <1>2, ReadsOrCommits
    <2>2. g # h /\ job[g].busy /\ job'[g] = job[g] /\ job[h].busy
        BY <2>1 DEF Commit
    <2> DEFINE w == job[g].write
               x == job[h].write
    <2>3. MovesUnlocked(w) /\ w \in Write
        BY <2>2 DEF LockInv, TypeInv, TypeOK
    <2>4. step' = StepAfter(x) /\ before' = Update(x.before, before)
        BY <2>1, CommitLeaves
    <2>5. \A s \in Steps : step'[s] = IF s \in DOMAIN x.step THEN x.step[s] ELSE step[s]
        BY <2>4 DEF StepAfter, Update
    <2>6. \A s \in DOMAIN x.step : x.step[s] \in StepStatus
        BY <2>1 DEF Write, Partial
    <2>7. CASE ~Advances(w)
        <3>1. \A s \in DOMAIN w.step : w.step[s] = "todo"
            BY <2>7 DEF Advances
        <3> QED
            BY <2>2, <3>1 DEF MovesUnlocked
    <2>8. CASE Advances(w)
        <3>1. ~Loosens(x)
            BY <2>2, <2>8 DEF LockApart
        <3>2. before' = before
            BY <2>4, <3>1, NoEdgeNoChange DEF Loosens, TypeInv
        <3>3. \A s \in Steps : step[s] = "done" => step'[s] = "done"
            BY <2>5, <3>1 DEF Loosens
        <3>4. \A s \in DOMAIN x.step :
                  x.step[s] # "absent" /\ (x.step[s] = "todo" => step[s] = "absent")
            BY <2>1, <2>2 DEF Commit, Refused, LockInv, MovesUnlocked
        <3>5. \A s \in Steps :
                  step[s] # "absent" => /\ step'[s] # "absent"
                                        /\ step'[s] = "todo" => step[s] = "todo"
            BY <2>5, <3>4
        <3>6. DOMAIN w.step \subseteq Steps
            BY <2>3 DEF Write, Partial
        <3>7. DoneIn(StepAfter(w)) \subseteq DoneIn(StepAfter(w)')
            <4>1. w' = w
                BY <2>2
            <4>2. /\ StepAfter(w) = [s \in Steps |-> IF s \in DOMAIN w.step THEN w.step[s]
                                                    ELSE step[s]]
                  /\ StepAfter(w)' = [s \in Steps |-> IF s \in DOMAIN w.step THEN w.step[s]
                                                     ELSE step'[s]]
                BY <2>4, <4>1 DEF StepAfter, Update
            <4> QED
                BY <3>3, <4>2 DEF DoneIn
        <3> HIDE DEF w
        <3>8. ASSUME NEW s \in DOMAIN w.step
              PROVE  /\ w.step[s] # "absent"
                     /\ w.step[s] # "todo" => step'[s] # "absent"
                     /\ (w.step[s] = "done" \/ (step'[s] = "todo" /\ w.step[s] # "todo"))
                        => before'[s] \subseteq DoneIn(StepAfter(w)')
            BY <2>3, <3>2, <3>5, <3>6, <3>7, <3>8 DEF MovesUnlocked
        <3>9. MovesUnlocked(w)'
            BY <2>2, <3>8 DEF MovesUnlocked, w
        <3> QED
            BY <2>2, <3>9 DEF w
    <2> QED
        BY <2>7, <2>8
<1> QED
    BY <1>1, <1>2

(* An agent, a validator or a chain of auto-closes moves a step only when    *)
(* its prerequisites are done, unless one of them is reopened, or they are   *)
(* edited, meanwhile: starts and closures may overlap each other.            *)
THEOREM StepLockHolds == Spec /\ []LockApart => LockHolds
<1> DEFINE A == \A s \in Steps :
                    \/ step[s] = "todo" /\ step'[s] # "todo"
                    \/ step[s] # "done" /\ step'[s] = "done"
                    => before[s] \subseteq DoneIn(step')
<1>1. TypeInv /\ LockInv /\ [Next]_vars => [A]_vars
    <2> SUFFICES ASSUME TypeInv, LockInv, [Next]_vars
                 PROVE  [A]_vars
        OBVIOUS
    <2>1. CASE Reads
        BY <2>1 DEF Reads, database
    <2>2. CASE ~Reads
        <3>1. PICK h \in Handlers : Commit(h)
            BY <2>2, ReadsOrCommits
        <3>2. MovesUnlocked(job[h].write) /\ step' = StepAfter(job[h].write)
            BY <3>1, CommitLeaves DEF LockInv, Commit
        <3>3. ASSUME NEW s \in Steps, step'[s] # step[s]
              PROVE  s \in DOMAIN job[h].write.step /\ step'[s] = job[h].write.step[s]
            BY <3>2, <3>3 DEF StepAfter, Update, TypeInv, TypeOK
        <3> QED
            BY <3>2, <3>3 DEF MovesUnlocked
    <2> QED
        BY <2>1, <2>2
<1>2. Init => LockInv
    BY InitIdle DEF LockInv
<1> QED
    BY <1>1, <1>2, LockStep, SpecTyped, PTL DEF Spec, LockHolds

-----------------------------------------------------------------------------
(* The status of the case.                                                   *)

(* Nobody moves or adds a step, nor writes the status of the case, while      *)
(* somebody else is about to move or add a step.                             *)
MovesSteps(w) == DOMAIN w.step # {}
StatusApart ==
    \A g, h \in Handlers :
        g # h /\ job[g].busy /\ job[h].busy /\ MovesSteps(job[h].write)
        => ~MovesSteps(job[g].write) /\ job[g].write.status = "same"

StatusInv == \A h \in Handlers : job[h].busy => SyncsCase(job[h].write)

LEMMA NoStepNoSync ==
    ASSUME TypeOK, NEW w, ~MovesSteps(w)
    PROVE  StepAfter(w) = step /\ SyncsCase(w)
BY DEF MovesSteps, StepAfter, Update, SyncsCase, TypeOK

LEMMA StatusStep ==
    TypeInv /\ TypeInv' /\ StatusInv /\ StatusApart /\ [Next]_vars => StatusInv'
<1> SUFFICES ASSUME TypeInv, TypeInv', StatusInv, StatusApart, [Next]_vars,
                    NEW g \in Handlers, job'[g].busy
             PROVE  SyncsCase(job[g].write)'
    BY DEF StatusInv
<1> TypeOK /\ step \in [Steps -> StepStatus] /\ step' \in [Steps -> StepStatus]
    BY DEF TypeInv, TypeOK
<1>1. CASE Reads
    <2>1. SyncsCase(job'[g].write)
        BY <1>1 DEF Reads, StatusInv, Sound
    <2> QED
        BY <1>1, <2>1 DEF SyncsCase, StepAfter, StatusAfter, Reads, database
<1>2. CASE ~Reads
    <2>1. PICK h \in Handlers :
              /\ Commit(h) /\ job[h].write \in Write
              /\ \A i \in Handlers : job'[i].busy => i # h /\ job'[i] = job[i]
        BY <1>2, ReadsOrCommits
    <2>2. g # h /\ job[g].busy /\ job'[g] = job[g] /\ job[h].busy
        BY <2>1 DEF Commit
    <2>3. CASE MovesSteps(job[g].write)
        <3>1. ~MovesSteps(job[h].write) /\ job[h].write.status = "same"
            BY <2>2, <2>3 DEF StatusApart
        <3>2. step' = step /\ status' = status
            BY <2>1, <3>1, CommitLeaves, NoStepNoSync DEF StatusAfter
        <3>3. SyncsCase(job[g].write)
            BY <2>2 DEF StatusInv
        <3> QED
            BY <2>2, <3>2, <3>3 DEF SyncsCase, StepAfter, StatusAfter
    <2>4. CASE ~MovesSteps(job[g].write)
        <3>1. StepAfter(job[g].write)' = step'
            BY <2>2, <2>4 DEF MovesSteps, StepAfter, Update
        <3> QED
            BY <3>1 DEF SyncsCase
    <2> QED
        BY <2>3, <2>4
<1> QED
    BY <1>1, <1>2

(* After any event on its steps the case is validated when, and only when,   *)
(* they are all done, unless it is closed, or two events on its steps        *)
(* overlap: whatever documents, persons and requirements change meanwhile.   *)
THEOREM StepStatusFollows == Spec /\ []StatusApart => StatusFollowsSteps
<1> DEFINE A == step' # step /\ status' # "closed"
                => (status' = "validated" <=> Present(step') \subseteq DoneIn(step'))
<1>1. TypeInv /\ StatusInv /\ [Next]_vars => [A]_vars
    <2> SUFFICES ASSUME TypeInv, StatusInv, [Next]_vars
                 PROVE  [A]_vars
        OBVIOUS
    <2>1. CASE Reads
        BY <2>1 DEF Reads, database
    <2>2. CASE ~Reads
        <3>1. PICK h \in Handlers : Commit(h)
            BY <2>2, ReadsOrCommits
        <3> QED
            BY <3>1, CommitLeaves DEF StatusInv, SyncsCase, Commit
    <2> QED
        BY <2>1, <2>2
<1>2. Init => StatusInv
    BY InitIdle DEF StatusInv
<1> QED
    BY <1>1, <1>2, StatusStep, SpecTyped, PTL DEF Spec, StatusFollowsSteps

(* Whatever closes the last open step leaves the case validated, or closed:  *)
(* two closures that overlap each see the other's step open, nothing else    *)
(* forgets the case.                                                         *)
THEOREM StepLastClosureValidates == Spec /\ []StatusApart => LastClosureValidates
<1> DEFINE A == step' # step /\ status' # "closed"
                => (status' = "validated" <=> Present(step') \subseteq DoneIn(step'))
           B == /\ DoneIn(step') # DoneIn(step)
                /\ Present(step') \subseteq DoneIn(step')
                => status' \in {"validated", "closed"}
<1>1. [A]_vars => [B]_vars
    OBVIOUS
<1>2. Spec /\ []StatusApart => [][A]_vars
    BY StepStatusFollows DEF StatusFollowsSteps
<1> QED
    BY <1>1, <1>2, PTL DEF LastClosureValidates

-----------------------------------------------------------------------------
(* The step that closes by itself.                                           *)

(* Nobody is at work beside a handler that brings a piece; the others may    *)
(* overlap each other.                                                       *)
PiecesApart ==
    \A g, h \in Handlers :
        g # h /\ job[g].busy /\ job[h].busy => job[h].write.provide = {}

PiecesInv == \A h \in Handlers : job[h].busy => ClosesMet(job[h].write)

LEMMA PiecesStep == TypeInv /\ PiecesInv /\ PiecesApart /\ [Next]_vars => PiecesInv'
<1> SUFFICES ASSUME TypeInv, PiecesInv, PiecesApart, [Next]_vars,
                    NEW g \in Handlers, job'[g].busy
             PROVE  ClosesMet(job[g].write)'
    BY DEF PiecesInv
<1>1. CASE Reads
    <2>1. ClosesMet(job'[g].write)
        BY <1>1 DEF Reads, PiecesInv, Sound
    <2> QED
        BY <1>1, <2>1 DEF ClosesMet, StepAfter, RowAfter, SeatAfter, Met, RowsOf,
                          HasOpenRequest, Unlocked, Reads, database
<1>2. CASE ~Reads
    <2>1. PICK h \in Handlers :
              /\ Commit(h) /\ job[h].write \in Write
              /\ \A i \in Handlers : job'[i].busy => i # h /\ job'[i] = job[i]
        BY <1>2, ReadsOrCommits
    <2>2. g # h /\ job[g].busy /\ job'[g] = job[g] /\ job[h].busy
        BY <2>1 DEF Commit
    <2> QED
        BY <2>2 DEF PiecesApart, ClosesMet
<1> QED
    BY <1>1, <1>2

(* The document or the signature that completes a step leaves it closed,     *)
(* unless somebody else is at work on the case meanwhile.                    *)
THEOREM StepProvidedCloses == Spec /\ []PiecesApart => ProvidedCloses
<1> DEFINE A == (\E c \in Cells : row[c] = "pending" /\ row'[c] = "provided")
                => \A s \in Steps : s \in SelfClosing(row, seat)' => ~Unlocked(s)
<1>1. TypeInv /\ PiecesInv /\ [Next]_vars => [A]_vars
    <2> SUFFICES ASSUME TypeInv, PiecesInv, [Next]_vars, NEW c \in Cells,
                        row[c] = "pending", row'[c] = "provided",
                        NEW s \in Steps, s \in SelfClosing(row, seat)'
                 PROVE  ~Unlocked(s)
        OBVIOUS
    <2>1. ~Reads
        BY DEF Reads, database
    <2>2. PICK h \in Handlers : Commit(h)
        BY <2>1, ReadsOrCommits
    <2> DEFINE w == job[h].write
    <2>3. ClosesMet(w) /\ w.provide # {}
        BY <2>2 DEF PiecesInv, Commit
    <2>4. /\ step' = StepAfter(w) /\ row' = RowAfter(w) /\ seat' = SeatAfter(w)
          /\ validator' = validator
        BY <2>2, <2>3, CommitLeaves, UpdateNowhere DEF ClosesMet, TypeInv, TypeOK
    <2>5. /\ step'[s] = "in_progress" /\ validator'[s] = "none"
          /\ Met(s, row') /\ ~HasOpenRequest(s, seat')
        BY DEF SelfClosing, Met, RowsOf, HasOpenRequest
    <2> HIDE DEF w
    <2> QED
        BY <2>3, <2>4, <2>5 DEF ClosesMet
<1>2. Init => PiecesInv
    BY InitIdle DEF PiecesInv
<1> QED
    BY <1>1, <1>2, PiecesStep, SpecTyped, PTL DEF Spec, ProvidedCloses

-----------------------------------------------------------------------------
(* The search for a cycle, over a template of any size.                      *)

(* The steps being explored are the gray ones, each a dependency of the one  *)
(* before; none of those that wait above a step was being explored when it   *)
(* was reached.                                                              *)
GrayPath ==
    /\ \A s \in Steps : color[s] = "gray" <=> \E i \in 1..Len(path) : path[i] = s
    /\ \A i, j \in 1..Len(path) : path[i] = path[j] => i = j
    /\ \A i \in 1..(Len(path) - 1) : path[i + 1] \in graph[path[i]]
    /\ \A i, j \in 1..Len(path) : path[j] \in pending[path[i]] => j > i
    /\ \A s \in Steps : pending[s] \subseteq graph[s]

(* F has been explored to its end, cycle-free: what it waits for is in it.   *)
(* The other steps on the path wait for steps of F, for steps stacked above  *)
(* them and for the next step on the path.                                   *)
Explored(F) ==
    /\ \A s \in Steps : color[s] = "black" => s \in F
    /\ \A s \in F : color[s] # "white" /\ graph[s] \subseteq F
    /\ \A S \in (SUBSET F) \ {{}} : \E s \in S : graph[s] \cap S = {}
    /\ \A i \in 1..Len(path) : path[i] \notin F =>
           \A d \in graph[path[i]] :
               \/ d \in F \/ d \in pending[path[i]]
               \/ i < Len(path) /\ d = path[i + 1]
    /\ \A s \in Steps \ starts :
           s \in F \/ (color[s] = "gray" /\ path # <<>> /\ path[1] = s)

SearchTypeOK ==
    /\ graph \in [Steps -> SUBSET Steps]
    /\ color \in [Steps -> Colors]
    /\ path \in Seq(Steps)
    /\ pending \in [Steps -> SUBSET Steps]
    /\ starts \subseteq Steps
    /\ verdict \in {"none", "cycle", "acyclic"}

SearchInv ==
    /\ SearchTypeOK
    /\ \A s \in Steps : s \notin graph[s]
    /\ verdict = "none" => GrayPath /\ \E F \in SUBSET Steps : Explored(F)
    /\ VerdictIsRight

LEMMA InitSearch == SearchInit => SearchInv
<1> SUFFICES ASSUME SearchInit PROVE SearchInv
    OBVIOUS
<1>1. SearchTypeOK
    BY DEF SearchInit, SearchTypeOK, Colors
<1>2. GrayPath
    BY DEF SearchInit, GrayPath
<1>3. Explored({})
    BY DEF SearchInit, Explored
<1> QED
    BY <1>1, <1>2, <1>3 DEF SearchInit, SearchInv, VerdictIsRight

(* A dependency on the path closes a cycle: from it along the path to the    *)
(* step that has just been reached, and back.                                *)
LEMMA PathCycle ==
    ASSUME SearchTypeOK, GrayPath, NEW s \in Steps, NEW d \in graph[s], color[d] = "gray",
           path # <<>>, s \in graph[Deepest]
    PROVE  ~Acyclic(graph)
<1> DEFINE n == Len(path)
<1>1. n \in Nat /\ n > 0 /\ \A i \in 1..n : path[i] \in Steps
    BY DEF SearchTypeOK
<1>2. PICK k \in 1..n : path[k] = d
    BY DEF GrayPath, SearchTypeOK
<1> DEFINE S == {path[j] : j \in k..n} \cup {s}
<1>3. S \in (SUBSET Steps) \ {{}}
    BY <1>1, <1>2
<1>4. ASSUME NEW x \in S PROVE graph[x] \cap S # {}
    <2>1. CASE x = s
        <3>1. d \in S
            BY <1>1, <1>2
        <3> QED
            BY <2>1, <3>1
    <2>2. CASE x # s
        <3>1. PICK j \in k..n : x = path[j]
            BY <2>2
        <3>2. CASE j = n
            BY <3>1, <3>2 DEF Deepest
        <3>3. CASE j < n
            <4>1. path[j + 1] \in graph[path[j]]
                BY <1>1, <3>1, <3>3 DEF GrayPath
            <4>2. path[j + 1] \in S
                BY <1>1, <3>1, <3>3
            <4> QED
                BY <3>1, <4>1, <4>2
        <3> QED
            BY <1>1, <3>1, <3>2, <3>3
    <2> QED
        BY <2>1, <2>2
<1> HIDE DEF S
<1> QED
    BY <1>3, <1>4 DEF Acyclic

(* A step that is reached: "rest" is what waits above the path without it.   *)
LEMMA ReachInv ==
    ASSUME SearchInv, verdict = "none", NEW s \in Steps, color[s] # "gray",
           NEW rest \in [Steps -> SUBSET Steps], Reach(s, rest), graph' = graph,
           \A t \in Steps : rest[t] \subseteq pending[t] /\ pending[t] \subseteq rest[t] \cup {s},
           \/ path = <<>> /\ starts' = starts \ {s}
           \/ /\ path # <<>> /\ starts' = starts
              /\ s \in graph[Deepest]
              /\ \A t \in Steps : t # Deepest => rest[t] = pending[t]
    PROVE  SearchInv'
<1> DEFINE n == Len(path)
<1>1. /\ SearchTypeOK /\ GrayPath
      /\ \A t \in Steps : t \notin graph[t]
      /\ n \in Nat /\ \A i \in 1..n : path[i] \in Steps
    BY DEF SearchInv, SearchTypeOK
<1>2. \A t \in Steps : Painted(s, "gray")[t] = IF t = s THEN "gray" ELSE color[t]
    BY <1>1 DEF Painted, SearchTypeOK
<1>3. color' = Painted(s, "gray")
    BY DEF Reach
<1>4. CASE \E d \in graph[s] : Painted(s, "gray")[d] = "gray"
    <2>1. verdict' = "cycle" /\ UNCHANGED <<path, pending>>
        BY <1>4 DEF Reach
    <2>2. PICK d \in graph[s] : d \in Steps /\ d # s /\ color[d] = "gray"
        BY <1>1, <1>2, <1>4 DEF SearchTypeOK
    <2>3. path # <<>>
        BY <1>1, <2>2 DEF GrayPath
    <2>4. ~Acyclic(graph)
        BY <1>1, <2>2, <2>3, PathCycle
    <2>5. SearchTypeOK'
        BY <1>1, <1>2, <1>3, <2>1 DEF SearchTypeOK, Colors, Painted
    <2> QED
        BY <1>1, <2>1, <2>4, <2>5 DEF SearchInv, VerdictIsRight, Acyclic
<1>5. CASE \A d \in graph[s] : Painted(s, "gray")[d] # "gray"
    <2>1. /\ verdict' = verdict
          /\ path' = Append(path, s)
          /\ pending' = [rest EXCEPT ![s] = {d \in graph[s] : Painted(s, "gray")[d] = "white"}]
        BY <1>5 DEF Reach
    <2>2. /\ Len(path') = n + 1 /\ path' \in Seq(Steps)
          /\ path'[n + 1] = s
          /\ \A i \in 1..n : path'[i] = path[i]
        BY <1>1, <2>1 DEF SearchTypeOK
    <2>3. /\ \A t \in Steps : t # s => pending'[t] = rest[t]
          /\ \A d \in Steps : d \in pending'[s] <=> (d \in graph[s] /\ color[d] = "white")
        <3>1. \A t \in Steps : t # s => pending'[t] = rest[t]
            BY <2>1
        <3>2. pending'[s] = {d \in graph[s] : Painted(s, "gray")[d] = "white"}
            BY <2>1
        <3>3. \A d \in graph[s] : Painted(s, "gray")[d] = color[d]
            BY <1>1, <1>2 DEF SearchTypeOK
        <3> QED
            BY <3>1, <3>2, <3>3
    <2>4. SearchTypeOK'
        <3>1. pending' \in [Steps -> SUBSET Steps]
            BY <1>1, <2>1 DEF SearchTypeOK
        <3>2. color' \in [Steps -> Colors]
            BY <1>1, <1>3 DEF SearchTypeOK, Colors, Painted
        <3>3. starts' \subseteq Steps
            BY <1>1 DEF SearchTypeOK
        <3> QED
            BY <1>1, <2>1, <2>2, <3>1, <3>2, <3>3 DEF SearchTypeOK
    <2>5. \A i \in 1..n : path[i] # s
        BY <1>1 DEF GrayPath
    <2>6. GrayPath'
        <3>1. \A t \in Steps : color'[t] = "gray" <=> \E i \in 1..(n + 1) : path'[i] = t
            <4> TAKE t \in Steps
            <4>1. CASE t = s
                BY <1>1, <1>2, <1>3, <2>2, <4>1
            <4>2. CASE t # s
                <5>1. (\E i \in 1..(n + 1) : path'[i] = t) <=> \E i \in 1..n : path[i] = t
                    BY <1>1, <2>2, <4>2
                <5> QED
                    BY <1>1, <1>2, <1>3, <4>2, <5>1 DEF GrayPath
            <4> QED
                BY <4>1, <4>2
        <3>2. \A i, j \in 1..(n + 1) : path'[i] = path'[j] => i = j
            BY <1>1, <2>2, <2>5 DEF GrayPath
        <3>3. \A i \in 1..n : path'[i + 1] \in graph[path'[i]]
            <4> TAKE i \in 1..n
            <4>1. CASE i = n
                <5>1. path # <<>> /\ path'[i] = Deepest /\ path'[i + 1] = s
                    BY <1>1, <2>2, <4>1 DEF Deepest, SearchTypeOK
                <5> QED
                    BY <5>1
            <4>2. CASE i < n
                BY <1>1, <2>2, <4>2 DEF GrayPath
            <4> QED
                BY <1>1, <4>1, <4>2
        <3>4. \A i, j \in 1..(n + 1) : path'[j] \in pending'[path'[i]] => j > i
            <4> SUFFICES ASSUME NEW i \in 1..(n + 1), NEW j \in 1..(n + 1),
                                path'[j] \in pending'[path'[i]]
                         PROVE  j > i
                OBVIOUS
            <4>1. CASE i = n + 1
                <5>1. color[path'[j]] = "white" /\ path'[j] # s
                    <6>1. path'[i] = s /\ path'[j] \in Steps
                        BY <1>1, <2>2, <4>1
                    <6> QED
                        BY <1>1, <2>3, <6>1
                <5>2. j \in 1..n /\ color[path[j]] = "gray"
                    BY <1>1, <2>2, <5>1 DEF GrayPath
                <5> QED
                    BY <2>2, <5>1, <5>2
            <4>2. CASE i \in 1..n /\ j = n + 1
                BY <1>1, <4>2
            <4>3. CASE i \in 1..n /\ j \in 1..n
                <5>1. path[j] \in rest[path[i]] /\ path[i] \in Steps
                    BY <1>1, <2>2, <2>3, <2>5, <4>3
                <5> QED
                    BY <1>1, <4>3, <5>1 DEF GrayPath
            <4> QED
                BY <1>1, <4>1, <4>2, <4>3
        <3>5. \A t \in Steps : pending'[t] \subseteq graph[t]
            <4> TAKE t \in Steps
            <4>1. CASE t = s
                BY <2>4, <2>3, <4>1 DEF SearchTypeOK
            <4>2. CASE t # s
                BY <1>1, <2>3, <4>2 DEF GrayPath
            <4> QED
                BY <4>1, <4>2
        <3> QED
            BY <1>1, <2>2, <3>1, <3>2, <3>3, <3>4, <3>5 DEF GrayPath
    <2>7. PICK F \in SUBSET Steps : Explored(F)
        BY DEF SearchInv
    <2>8. Explored(F)'
        <3>1. \A t \in Steps : color'[t] = "black" => t \in F
            BY <1>2, <1>3, <2>7 DEF Explored
        <3>2. \A t \in F : color'[t] # "white" /\ graph[t] \subseteq F
            BY <1>2, <1>3, <2>7 DEF Explored
        <3>3. \A S \in (SUBSET F) \ {{}} : \E t \in S : graph[t] \cap S = {}
            BY <2>7 DEF Explored
        <3>4. \A i \in 1..(n + 1) : path'[i] \notin F =>
                  \A d \in graph[path'[i]] :
                      \/ d \in F \/ d \in pending'[path'[i]]
                      \/ i < n + 1 /\ d = path'[i + 1]
            <4> SUFFICES ASSUME NEW i \in 1..(n + 1), path'[i] \notin F,
                                NEW d \in graph[path'[i]], d \notin F
                         PROVE  \/ d \in pending'[path'[i]]
                                \/ i < n + 1 /\ d = path'[i + 1]
                OBVIOUS
            <4>1. CASE i = n + 1
                <5>1. d \in Steps /\ color[d] # "gray" /\ color[d] # "black" /\ d # s
                    BY <1>1, <1>2, <1>5, <2>2, <2>7, <4>1 DEF Explored, SearchTypeOK
                <5>2. color[d] = "white"
                    BY <1>1, <5>1 DEF SearchTypeOK, Colors
                <5>3. path'[i] = s /\ d \in graph[s]
                    BY <1>1, <2>2, <4>1
                <5> QED
                    BY <2>3, <5>1, <5>2, <5>3
            <4>2. CASE i \in 1..n
                <5>1. path'[i] = path[i] /\ path[i] \in Steps /\ path[i] # s
                    BY <1>1, <2>2, <2>5, <4>2
                <5>2. d \in pending[path[i]] \/ (i < n /\ d = path[i + 1])
                    BY <2>7, <4>2, <5>1 DEF Explored
                <5>3. CASE i < n /\ d = path[i + 1]
                    BY <1>1, <2>2, <4>2, <5>3
                <5>4. CASE d \in pending[path[i]] /\ d \in rest[path[i]]
                    BY <2>3, <5>1, <5>4
                <5>5. CASE d \in pending[path[i]] /\ d \notin rest[path[i]]
                    <6>1. d = s /\ path # <<>> /\ path[i] = Deepest
                        BY <1>1, <4>2, <5>1, <5>5
                    <6>2. i = n
                        BY <1>1, <4>2, <6>1 DEF GrayPath, Deepest
                    <6> QED
                        BY <1>1, <2>2, <6>1, <6>2
                <5> QED
                    BY <5>2, <5>3, <5>4, <5>5
            <4> QED
                BY <1>1, <4>1, <4>2
        <3>5. \A t \in Steps \ starts' :
                  t \in F \/ (color'[t] = "gray" /\ path' # <<>> /\ path'[1] = t)
            <4> TAKE t \in Steps \ starts'
            <4>1. path' # <<>>
                BY <1>1, <2>2
            <4>2. CASE path = <<>>
                <5>1. t \in Steps \ starts => t \in F
                    BY <2>7, <4>2 DEF Explored
                <5>2. t = s => color'[t] = "gray" /\ path'[1] = t
                    BY <1>2, <1>3, <2>2, <4>2
                <5> QED
                    BY <4>1, <4>2, <5>1, <5>2
            <4>3. CASE path # <<>>
                <5>1. t \in F \/ (color[t] = "gray" /\ path[1] = t)
                    BY <2>7, <4>3 DEF Explored
                <5>2. 1 \in 1..n
                    BY <1>1, <4>3 DEF SearchTypeOK
                <5> QED
                    BY <1>2, <1>3, <2>2, <4>1, <5>1, <5>2
            <4> QED
                BY <4>2, <4>3
        <3> QED
            BY <2>2, <3>1, <3>2, <3>3, <3>4, <3>5 DEF Explored
    <2> QED
        BY <1>1, <2>1, <2>4, <2>6, <2>7, <2>8 DEF SearchInv, VerdictIsRight
<1> QED
    BY <1>4, <1>5

LEMMA TakeStartInv == ASSUME SearchInv, NEW s \in Steps, TakeStart(s) PROVE SearchInv'
<1>1. verdict = "none" /\ path = <<>> /\ starts' = starts \ {s} /\ graph' = graph
    BY DEF TakeStart
<1>2. CASE color[s] = "white" /\ Reach(s, pending)
    <2>1. pending \in [Steps -> SUBSET Steps]
        BY DEF SearchInv, SearchTypeOK
    <2> QED
        BY <1>1, <1>2, <2>1, ReachInv
<1>3. CASE color[s] # "white" /\ UNCHANGED <<color, path, pending, verdict>>
    <2>1. PICK F \in SUBSET Steps : Explored(F)
        BY <1>1 DEF SearchInv
    <2>2. s \in F
        <3>1. color[s] # "gray"
            BY <1>1 DEF SearchInv, GrayPath
        <3>2. color[s] = "black"
            BY <1>3, <3>1 DEF SearchInv, SearchTypeOK, Colors
        <3> QED
            BY <2>1, <3>2 DEF Explored
    <2>3. Explored(F)'
        BY <1>1, <1>3, <2>1, <2>2 DEF Explored
    <2>4. SearchTypeOK' /\ GrayPath'
        BY <1>1, <1>3 DEF SearchInv, SearchTypeOK, GrayPath
    <2> QED
        BY <1>1, <1>3, <2>3, <2>4 DEF SearchInv, VerdictIsRight
<1> QED
    BY <1>2, <1>3 DEF TakeStart

LEMMA TakeDependencyInv ==
    ASSUME SearchInv, NEW d \in Steps, TakeDependency(d) PROVE SearchInv'
<1> DEFINE rest == [pending EXCEPT ![Deepest] = @ \ {d}]
<1>1. /\ verdict = "none" /\ path # <<>> /\ d \in pending[Deepest]
      /\ graph' = graph /\ starts' = starts
    BY DEF TakeDependency
<1>2. SearchTypeOK /\ GrayPath
    BY <1>1 DEF SearchInv
<1>3. Len(path) \in 1..Len(path) /\ Deepest \in Steps
    BY <1>1, <1>2 DEF SearchTypeOK, Deepest
<1>4. color[d] # "gray"
    BY <1>1, <1>2, <1>3 DEF GrayPath, Deepest
<1>5. Reach(d, rest)
    BY <1>4 DEF TakeDependency
<1>6. /\ rest \in [Steps -> SUBSET Steps]
      /\ \A t \in Steps : rest[t] \subseteq pending[t] /\ pending[t] \subseteq rest[t] \cup {d}
      /\ \A t \in Steps : t # Deepest => rest[t] = pending[t]
    BY <1>2, <1>3 DEF SearchTypeOK
<1>7. d \in graph[Deepest]
    BY <1>1, <1>2, <1>3 DEF GrayPath
<1> HIDE DEF rest
<1> QED
    BY <1>1, <1>4, <1>5, <1>6, <1>7, ReachInv

(* A step is left when all it waits for has been explored: it joins F.       *)
LEMMA LeaveInv == ASSUME SearchInv, Leave PROVE SearchInv'
<1> DEFINE n == Len(path)
<1>1. /\ verdict = "none" /\ path # <<>> /\ pending[Deepest] = {}
      /\ color' = Painted(Deepest, "black")
      /\ path' = SubSeq(path, 1, n - 1)
      /\ UNCHANGED <<graph, pending, starts, verdict>>
    BY DEF Leave
<1>2. /\ SearchTypeOK /\ GrayPath
      /\ \A t \in Steps : t \notin graph[t]
    BY <1>1 DEF SearchInv
<1>3. /\ n \in Nat /\ n > 0 /\ \A i \in 1..n : path[i] \in Steps
      /\ Deepest = path[n] /\ Deepest \in Steps
    BY <1>1, <1>2 DEF SearchTypeOK, Deepest
<1>4. /\ path' \in Seq(Steps) /\ Len(path') = n - 1
      /\ \A i \in 1..(n - 1) : path'[i] = path[i]
    <2>1. n - 1 \in 0..n
        BY <1>3
    <2>2. path \in Seq(Steps)
        BY <1>2 DEF SearchTypeOK
    <2>3. path' = [i \in 1..(n - 1) |-> path[i]]
        BY <1>1, <2>1, <2>2
    <2> QED
        BY <1>3, <2>1, <2>3
<1>5. \A t \in Steps : color'[t] = IF t = Deepest THEN "black" ELSE color[t]
    BY <1>1, <1>2 DEF Painted, SearchTypeOK
<1>6. \A i \in 1..(n - 1) : path[i] # Deepest
    BY <1>2, <1>3 DEF GrayPath
<1>7. SearchTypeOK'
    <2>1. color' \in [Steps -> Colors]
        BY <1>1, <1>2 DEF SearchTypeOK, Colors, Painted
    <2> QED
        BY <1>1, <1>2, <1>4, <2>1 DEF SearchTypeOK
<1>8. GrayPath'
    <2>1. \A t \in Steps : color'[t] = "gray" <=> \E i \in 1..(n - 1) : path'[i] = t
        <3> TAKE t \in Steps
        <3>1. CASE t = Deepest
            BY <1>3, <1>4, <1>5, <1>6, <3>1
        <3>2. CASE t # Deepest
            <4>1. (\E i \in 1..(n - 1) : path'[i] = t) <=> \E i \in 1..n : path[i] = t
                BY <1>3, <1>4, <3>2
            <4> QED
                BY <1>2, <1>5, <3>2, <4>1 DEF GrayPath
        <3> QED
            BY <3>1, <3>2
    <2>2. \A i, j \in 1..(n - 1) : path'[i] = path'[j] => i = j
        BY <1>2, <1>3, <1>4 DEF GrayPath
    <2>3. \A i \in 1..(n - 2) : path'[i + 1] \in graph[path'[i]]
        BY <1>2, <1>3, <1>4 DEF GrayPath
    <2>4. \A i, j \in 1..(n - 1) : path'[j] \in pending[path'[i]] => j > i
        BY <1>2, <1>3, <1>4 DEF GrayPath
    <2> QED
        BY <1>1, <1>2, <1>3, <1>4, <2>1, <2>2, <2>3, <2>4 DEF GrayPath
<1>9. PICK F \in SUBSET Steps : Explored(F)
    BY <1>1 DEF SearchInv
<1> PICK G \in SUBSET Steps : G = F \cup {Deepest}
    BY <1>3
<1>10. graph[Deepest] \subseteq F
    <2>1. CASE Deepest \in F
        BY <1>9, <2>1 DEF Explored
    <2>2. CASE Deepest \notin F
        <3> SUFFICES ASSUME NEW d \in graph[path[n]] PROVE d \in F
            BY <1>3
        <3>1. n \in 1..n /\ ~(n < n) /\ path[n] \notin F /\ pending[path[n]] = {}
            BY <1>1, <1>3, <2>2
        <3> QED
            BY <1>9, <3>1 DEF Explored
    <2> QED
        BY <2>1, <2>2
<1>11. Explored(G)'
    <2>1. \A t \in Steps : color'[t] = "black" => t \in G
        BY <1>5, <1>9 DEF Explored
    <2>2. \A t \in G : color'[t] # "white" /\ graph[t] \subseteq G
        BY <1>3, <1>5, <1>9, <1>10 DEF Explored
    <2>3. \A S \in (SUBSET G) \ {{}} : \E t \in S : graph[t] \cap S = {}
        <3> TAKE S \in (SUBSET G) \ {{}}
        <3>1. CASE S \cap F = {}
            <4>1. S = {Deepest}
                BY <3>1
            <4> QED
                BY <1>2, <1>3, <4>1
        <3>2. CASE S \cap F # {}
            <4>1. PICK t \in S \cap F : graph[t] \cap (S \cap F) = {}
                <5>1. S \cap F \in (SUBSET F) \ {{}}
                    BY <3>2
                <5> QED
                    BY <1>9, <5>1 DEF Explored
            <4>2. graph[t] \subseteq F
                BY <1>9, <4>1 DEF Explored
            <4> QED
                BY <4>1, <4>2
        <3> QED
            BY <3>1, <3>2
    <2>4. \A i \in 1..(n - 1) : path'[i] \notin G =>
              \A d \in graph[path'[i]] :
                  \/ d \in G \/ d \in pending[path'[i]]
                  \/ i < n - 1 /\ d = path'[i + 1]
        <3> SUFFICES ASSUME NEW i \in 1..(n - 1), path'[i] \notin G,
                            NEW d \in graph[path'[i]], d \notin G
                     PROVE  \/ d \in pending[path'[i]]
                            \/ i < n - 1 /\ d = path'[i + 1]
            OBVIOUS
        <3>1. path'[i] = path[i] /\ i \in 1..n /\ path[i] \notin F
            BY <1>3, <1>4
        <3>2. d \in pending[path[i]] \/ (i < n /\ d = path[i + 1])
            BY <1>9, <3>1 DEF Explored
        <3>3. CASE d = path[i + 1]
            <4>1. i # n - 1
                BY <1>3, <3>3
            <4> QED
                BY <1>3, <1>4, <3>3, <4>1
        <3> QED
            BY <3>1, <3>2, <3>3
    <2>5. \A t \in Steps \ starts :
              t \in G \/ (color'[t] = "gray" /\ path' # <<>> /\ path'[1] = t)
        <3> SUFFICES ASSUME NEW t \in Steps \ starts, t \notin G
                     PROVE  color'[t] = "gray" /\ path' # <<>> /\ path'[1] = t
            OBVIOUS
        <3>1. color[t] = "gray" /\ path[1] = t /\ t # Deepest
            BY <1>9 DEF Explored
        <3>2. n # 1
            BY <1>3, <3>1
        <3> QED
            BY <1>3, <1>4, <1>5, <3>1, <3>2
    <2> QED
        BY <1>1, <1>4, <2>1, <2>2, <2>3, <2>4, <2>5 DEF Explored
<1> QED
    BY <1>1, <1>2, <1>7, <1>8, <1>11 DEF SearchInv, VerdictIsRight

(* Every start has been explored when the search gives the graph free.       *)
LEMMA ReturnFalseInv == ASSUME SearchInv, ReturnFalse PROVE SearchInv'
<1>1. /\ verdict = "none" /\ path = <<>> /\ starts = {} /\ verdict' = "acyclic"
      /\ UNCHANGED <<graph, color, path, pending, starts>>
    BY DEF ReturnFalse
<1>2. PICK F \in SUBSET Steps : Explored(F)
    BY <1>1 DEF SearchInv
<1>3. F = Steps
    BY <1>1, <1>2 DEF Explored
<1>4. Acyclic(graph)
    BY <1>2, <1>3 DEF Explored, Acyclic
<1>5. SearchTypeOK'
    BY <1>1 DEF SearchInv, SearchTypeOK
<1> QED
    BY <1>1, <1>4, <1>5 DEF SearchInv, VerdictIsRight

(* The search that set_prerequisites runs refuses every graph with a cycle   *)
(* and no other, whatever the number of steps and the order in which they    *)
(* and their prerequisites are gone through.                                 *)
THEOREM SearchVerdictIsRight == SearchSpec => []VerdictIsRight
<1>1. SearchInv /\ [SearchNext]_searchVars => SearchInv'
    <2> SUFFICES ASSUME SearchInv, [SearchNext]_searchVars PROVE SearchInv'
        OBVIOUS
    <2>1. ASSUME NEW s \in Steps, TakeStart(s) PROVE SearchInv'
        BY <2>1, TakeStartInv
    <2>2. ASSUME NEW s \in Steps, TakeDependency(s) PROVE SearchInv'
        BY <2>2, TakeDependencyInv
    <2>3. CASE Leave
        BY <2>3, LeaveInv
    <2>4. CASE ReturnFalse
        BY <2>4, ReturnFalseInv
    <2>5. CASE UNCHANGED searchVars
        <3>1. ASSUME NEW F \in SUBSET Steps, Explored(F) PROVE Explored(F)'
            BY <2>5, <3>1 DEF Explored, searchVars
        <3>2. SearchTypeOK' /\ VerdictIsRight' /\ (\A s \in Steps : s \notin graph'[s])
            BY <2>5 DEF SearchInv, SearchTypeOK, VerdictIsRight, Acyclic, searchVars
        <3>3. GrayPath => GrayPath'
            BY <2>5 DEF GrayPath, searchVars
        <3> QED
            BY <2>5, <3>1, <3>2, <3>3 DEF SearchInv, searchVars
    <2> QED
        BY <2>1, <2>2, <2>3, <2>4, <2>5 DEF SearchNext
<1>2. SearchInv => VerdictIsRight
    BY DEF SearchInv
<1> QED
    BY <1>1, <1>2, InitSearch, PTL DEF SearchSpec
=================================================================================
