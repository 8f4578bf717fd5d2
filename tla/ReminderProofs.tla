----------------------------- MODULE ReminderProofs -----------------------------
(***************************************************************************)
(* The reminders of one case, for any number of reminders, handlers, runs  *)
(* and edits: when no two handlers hold one reminder, a text that leaves   *)
(* was approved; when no two runs do either, an approval is one mail; and  *)
(* when no handler holds what a run holds, what is sent or cancelled stays.*)
(***************************************************************************)
EXTENDS ReminderDispatch, TLAPS

(* What a run holds in its session.                                          *)
Held(j) == run[j].doomed \cup run[j].queue \cup run[j].sent

(* No two units of work hold one reminder: handlers, runs, a handler and a   *)
(* run.  With one agent, or one run, the first two hold by themselves.       *)
HandsApart == \A a, b \in Agents : a # b => hand[a].on \cap hand[b].on = {}
RunsApart == \A i, j \in Runs : i # j => Held(i) \cap Held(j) = {}
RowsFree == \A a \in Agents, j \in Runs : hand[a].on \cap Held(j) = {}

-----------------------------------------------------------------------------
(* An edit was read below the bound.                                         *)
EditsFit ==
    \A a \in Agents : hand[a].kind = "edit" =>
        \A r \in hand[a].on : hand[a].text[r] < MaxEdits

TypeInv == TypeOK /\ EditsFit

(* A row that does not exist has no approval; a handler writes what it read, *)
(* an edit never leaves a row approved, and only an approval approves.       *)
NoneIsNew ==
    \A r \in Reminders : status[r] = "none" => \A v \in Bodies : grants[r][v] = 0

IsTrue(w) ==
    /\ w.to # "none"
    /\ w.to = "approved" => w.kind = "approve"
    /\ w.kind = "mark" => w.to = "sent"
    /\ w.kind = "edit" => w.to \in {"same", "to_approve"}
    /\ w.kind \in {"approve", "cancel"} => w.to # "same"
    /\ \A r \in w.on :
          /\ status[r] # "none" /\ w.text[r] = body[r]
          /\ w.kind = "edit" /\ w.to = "same" => status[r] # "approved"
          /\ w.kind = "mark" => status[r] = "approved" /\ channel[r] = "whatsapp"

(* What a run holds was approved when it read it, and is not sent by hand.   *)
RunIsTrue(j) ==
    /\ ~run[j].busy => Held(j) = {}
    /\ run[j].queue \cap run[j].sent = {}
    /\ \A r \in Held(j) :
          /\ status[r] # "none" /\ channel[r] # "whatsapp"
          /\ grants[r][run[j].text[r]] > 0

ApprovedInv ==
    /\ NoneIsNew /\ ApprovedOnly
    /\ \A r \in Reminders : status[r] = "approved" => grants[r][body[r]] > 0
    /\ \A a \in Agents : IsTrue(hand[a])
    /\ \A j \in Runs : RunIsTrue(j)

(* A mail is owed for a version that is approved, unless it has just left,   *)
(* and for a version in the queue of a run.                                  *)
JustLeft(r, v) == \E j \in Runs : r \in run[j].sent /\ run[j].text[r] = v
Queued(r, v) == \E j \in Runs : r \in run[j].queue /\ run[j].text[r] = v
Owed(r, v) ==
    \/ status[r] = "approved" /\ body[r] = v /\ ~JustLeft(r, v)
    \/ Queued(r, v)

MailsFit ==
    \A r \in Reminders, v \in Bodies :
        /\ mails[r][v] <= grants[r][v] + faults
        /\ Owed(r, v) => mails[r][v] < grants[r][v] + faults

-----------------------------------------------------------------------------
(* What the model's operators return.                                        *)
LEMMA CountedFacts ==
    ASSUME NEW f \in [Reminders -> [Bodies -> Nat]], NEW S,
           NEW text \in [Reminders -> Bodies]
    PROVE  /\ Counted(f, S, text) \in [Reminders -> [Bodies -> Nat]]
           /\ \A r \in Reminders, v \in Bodies :
                 Counted(f, S, text)[r][v] =
                     IF r \in S /\ v = text[r] THEN f[r][v] + 1 ELSE f[r][v]
<1>1. \A r \in Reminders, v \in Bodies : f[r][v] \in Nat
    OBVIOUS
<1>2. \A r \in Reminders, v \in Bodies :
          Counted(f, S, text)[r][v] = IF r \in S /\ v = text[r] THEN f[r][v] + 1 ELSE f[r][v]
    BY <1>1 DEF Counted
<1> QED
    BY <1>1, <1>2 DEF Counted

LEMMA TextsFacts ==
    ASSUME TypeOK, NEW S
    PROVE  /\ Texts(S) \in [Reminders -> Bodies]
           /\ \A r \in S \cap Reminders : Texts(S)[r] = body[r]
BY ReminderAssumption DEF TypeOK, Texts, Bodies

LEMMA IdleTypes == NoWork \in Work /\ NoHand \in Hand
BY ReminderAssumption DEF NoWork, Work, NoHand, Hand, Bodies

(* The run a step changes, and the others.                                   *)
RunMoves(j, doomed, queue, sent) ==
    /\ run' \in [Runs -> Work] /\ \A i \in Runs \ {j} : run'[i] = run[i]
    /\ run'[j].text = run[j].text /\ (run[j].busy => run'[j].busy)
    /\ run'[j].doomed = doomed /\ run'[j].queue = queue /\ run'[j].sent = sent
    /\ (~run[j].busy => ~run'[j].busy)

LEMMA RunMovesFacts ==
    ASSUME TypeOK, NEW j \in Runs, NEW X \in SUBSET Reminders
    PROVE  /\ run' = [run EXCEPT ![j].doomed = @ \ X]
                 => RunMoves(j, run[j].doomed \ X, run[j].queue, run[j].sent)
           /\ run' = [run EXCEPT ![j].queue = @ \ X]
                 => RunMoves(j, run[j].doomed, run[j].queue \ X, run[j].sent)
           /\ run' = [run EXCEPT ![j].sent = @ \ X]
                 => RunMoves(j, run[j].doomed, run[j].queue, run[j].sent \ X)
           /\ run' = [run EXCEPT ![j].queue = @ \ X, ![j].sent = X]
                 => RunMoves(j, run[j].doomed, run[j].queue \ X, X)
<1>1. run \in [Runs -> Work]
    BY DEF TypeOK
<1>2. PICK v \in Work : v = run[j]
    BY <1>1
<1>3. ASSUME NEW w \in Work, run' = [run EXCEPT ![j] = w], w.text = v.text, w.busy = v.busy
      PROVE  RunMoves(j, w.doomed, w.queue, w.sent)
    BY <1>1, <1>2, <1>3 DEF RunMoves
<1>4. ASSUME run' = [run EXCEPT ![j].doomed = @ \ X]
      PROVE  RunMoves(j, run[j].doomed \ X, run[j].queue, run[j].sent)
    <2> DEFINE w == [v EXCEPT !.doomed = @ \ X]
    <2>1. /\ w \in Work /\ w.text = v.text /\ w.busy = v.busy
          /\ w.doomed = v.doomed \ X /\ w.queue = v.queue /\ w.sent = v.sent
        BY DEF Work
    <2>2. run' = [run EXCEPT ![j] = w]
        BY <1>1, <1>2, <1>4
    <2> HIDE DEF w
    <2> QED
        BY <1>2, <1>3, <2>1, <2>2
<1>5. ASSUME run' = [run EXCEPT ![j].queue = @ \ X]
      PROVE  RunMoves(j, run[j].doomed, run[j].queue \ X, run[j].sent)
    <2> DEFINE w == [v EXCEPT !.queue = @ \ X]
    <2>1. /\ w \in Work /\ w.text = v.text /\ w.busy = v.busy
          /\ w.doomed = v.doomed /\ w.queue = v.queue \ X /\ w.sent = v.sent
        BY DEF Work
    <2>2. run' = [run EXCEPT ![j] = w]
        BY <1>1, <1>2, <1>5
    <2> HIDE DEF w
    <2> QED
        BY <1>2, <1>3, <2>1, <2>2
<1>6. ASSUME run' = [run EXCEPT ![j].sent = @ \ X]
      PROVE  RunMoves(j, run[j].doomed, run[j].queue, run[j].sent \ X)
    <2> DEFINE w == [v EXCEPT !.sent = @ \ X]
    <2>1. /\ w \in Work /\ w.text = v.text /\ w.busy = v.busy
          /\ w.doomed = v.doomed /\ w.queue = v.queue /\ w.sent = v.sent \ X
        BY DEF Work
    <2>2. run' = [run EXCEPT ![j] = w]
        BY <1>1, <1>2, <1>6
    <2> HIDE DEF w
    <2> QED
        BY <1>2, <1>3, <2>1, <2>2
<1>7. ASSUME run' = [run EXCEPT ![j].queue = @ \ X, ![j].sent = X]
      PROVE  RunMoves(j, run[j].doomed, run[j].queue \ X, X)
    <2> DEFINE w == [v EXCEPT !.queue = @ \ X, !.sent = X]
    <2>1. /\ w \in Work /\ w.text = v.text /\ w.busy = v.busy
          /\ w.doomed = v.doomed /\ w.queue = v.queue \ X /\ w.sent = X
        BY DEF Work
    <2>2. run' = [run EXCEPT ![j] = w]
        BY <1>1, <1>2, <1>7
    <2> HIDE DEF w
    <2> QED
        BY <1>2, <1>3, <2>1, <2>2
<1> QED
    BY <1>4, <1>5, <1>6, <1>7

LEMMA Stopped ==
    ASSUME TypeOK, NEW j \in Runs, run' = [run EXCEPT ![j] = NoWork]
    PROVE  /\ run' \in [Runs -> Work] /\ run'[j] = NoWork
           /\ \A i \in Runs \ {j} : run'[i] = run[i]
BY IdleTypes DEF TypeOK

LEMMA UnlockedFacts ==
    ASSUME TypeOK, NEW j \in Runs
    PROVE  /\ Unlocked(j) \in [Reminders -> Runs \cup {NoRun}]
           /\ \A r \in Reminders : Unlocked(j)[r] # NoRun =>
                 lock[r] # j /\ Unlocked(j)[r] = lock[r]
BY DEF TypeOK, Unlocked

-----------------------------------------------------------------------------
(* A handler reads.                                                          *)
Reads(a) ==
    \/ \E S \in SUBSET Reminders : BulkApprove(a, S) \/ BulkCancel(a, S)
    \/ \E r \in Reminders :
           ApproveReminder(a, r) \/ CancelReminder(a, r) \/ UpdateReminder(a, r) \/ MarkSent(a, r)

HasRead(a) ==
    \E w \in Hand :
        /\ hand' = [hand EXCEPT ![a] = w] /\ IsTrue(w)
        /\ w.kind = "edit" => \A r \in w.on : w.text[r] < MaxEdits

LEMMA ReadFacts ==
    ASSUME TypeOK, NEW a \in Agents, Reads(a)
    PROVE  /\ UNCHANGED <<rows, lock, done, run, grants, mails, refused, faults>>
           /\ HasRead(a)
<1>1. UNCHANGED <<rows, lock, done, run, grants, mails, refused, faults>>
    BY DEF Reads, BulkApprove, BulkCancel, ApproveReminder, CancelReminder, UpdateReminder,
        MarkSent, Read
<1>2. ASSUME NEW kind \in {"approve", "edit", "cancel", "mark"}, NEW S \in SUBSET Reminders,
             NEW to \in {"same", "to_approve", "approved", "sent", "cancelled"},
             Read(a, kind, S, to),
             kind = "approve" <=> to = "approved", kind = "cancel" <=> to = "cancelled",
             kind = "mark" <=> to = "sent",
             \A r \in S : status[r] # "none",
             kind = "edit" => \A r \in S :
                                 body[r] < MaxEdits /\ (to = "same" => status[r] # "approved"),
             kind = "mark" => \A r \in S : status[r] = "approved" /\ channel[r] = "whatsapp"
      PROVE  HasRead(a)
    <2>1. PICK w : w = [kind |-> kind, on |-> S, to |-> to, text |-> Texts(S)]
        OBVIOUS
    <2>2. w \in Hand
        BY <2>1, TextsFacts DEF Hand, Status
    <2>3. hand' = [hand EXCEPT ![a] = w]
        BY <1>2, <2>1 DEF Read
    <2>4. w.kind = kind /\ w.on = S /\ w.to = to /\ \A r \in S : w.text[r] = body[r]
        BY <2>1, TextsFacts
    <2>5. IsTrue(w)
        BY <1>2, <2>4 DEF IsTrue
    <2> QED
        BY <1>2, <2>2, <2>3, <2>4, <2>5 DEF HasRead
<1>3. ASSUME NEW S \in SUBSET Reminders, BulkApprove(a, S) PROVE HasRead(a)
    <2> DEFINE T == {r \in S : status[r] = "to_approve" /\ ~TargetsDoneStep(r)}
    <2>1. Read(a, "approve", T, "approved") /\ T \in SUBSET Reminders
          /\ \A r \in T : status[r] # "none"
        BY <1>3 DEF BulkApprove
    <2> HIDE DEF T
    <2> QED
        BY <1>2, <2>1
<1>4. ASSUME NEW S \in SUBSET Reminders, BulkCancel(a, S) PROVE HasRead(a)
    <2> DEFINE T == {r \in S : status[r] \in {"to_approve", "approved"}}
    <2>1. Read(a, "cancel", T, "cancelled") /\ T \in SUBSET Reminders
          /\ \A r \in T : status[r] # "none"
        BY <1>4 DEF BulkCancel
    <2> HIDE DEF T
    <2> QED
        BY <1>2, <2>1
<1>5. ASSUME NEW r \in Reminders, ApproveReminder(a, r) PROVE HasRead(a)
    BY <1>2, <1>5 DEF ApproveReminder
<1>6. ASSUME NEW r \in Reminders, CancelReminder(a, r) PROVE HasRead(a)
    BY <1>2, <1>6 DEF CancelReminder
<1>7. ASSUME NEW r \in Reminders, UpdateReminder(a, r) PROVE HasRead(a)
    <2>1. CASE status[r] = "approved"
        BY <1>2, <1>7, <2>1 DEF UpdateReminder
    <2>2. CASE status[r] = "to_approve"
        BY <1>2, <1>7, <2>2 DEF UpdateReminder
    <2> QED
        BY <1>7, <2>1, <2>2 DEF UpdateReminder
<1>8. ASSUME NEW r \in Reminders, MarkSent(a, r) PROVE HasRead(a)
    BY <1>2, <1>8 DEF MarkSent
<1> QED
    BY <1>1, <1>3, <1>4, <1>5, <1>6, <1>7, <1>8 DEF Reads

(* A handler commits.                                                        *)
LEMMA CommitFacts ==
    ASSUME TypeInv, NEW a \in Agents, CommitHand(a)
    PROVE  LET w == hand[a] IN
           /\ w \in Hand /\ w.kind # "none" /\ hand' = [hand EXCEPT ![a] = NoHand]
           /\ UNCHANGED <<channel, lock, done, run, refused, faults>>
           /\ status' \in [Reminders -> Status] /\ body' \in [Reminders -> Bodies]
           /\ grants' \in [Reminders -> [Bodies -> Nat]]
           /\ mails' \in [Reminders -> [Bodies -> Nat]]
           /\ \A r \in Reminders :
                 /\ status'[r] = IF r \in w.on /\ w.to # "same" THEN w.to ELSE status[r]
                 /\ body'[r] = IF r \in w.on /\ w.kind = "edit" THEN w.text[r] + 1 ELSE body[r]
                 /\ \A v \in Bodies :
                       /\ grants'[r][v] = IF r \in w.on /\ w.kind = "approve" /\ v = w.text[r]
                                          THEN grants[r][v] + 1 ELSE grants[r][v]
                       /\ mails'[r][v] = IF r \in w.on /\ w.kind = "mark" /\ v = w.text[r]
                                         THEN mails[r][v] + 1 ELSE mails[r][v]
<1>1. PICK w \in Hand : w = hand[a]
    BY DEF TypeInv, TypeOK
<1>2. /\ w.kind # "none" /\ hand' = [hand EXCEPT ![a] = NoHand]
      /\ UNCHANGED <<channel, lock, done, run, refused, faults>>
      /\ status' = [r \in Reminders |-> IF r \in w.on /\ w.to # "same" THEN w.to ELSE status[r]]
      /\ body' = [r \in Reminders |-> IF r \in w.on /\ w.kind = "edit"
                                       THEN w.text[r] + 1 ELSE body[r]]
      /\ grants' = Counted(grants, IF w.kind = "approve" THEN w.on ELSE {}, w.text)
      /\ mails' = Counted(mails, IF w.kind = "mark" THEN w.on ELSE {}, w.text)
    BY <1>1 DEF CommitHand
<1>3. w.text \in [Reminders -> Bodies] /\ w.to \in {"same"} \cup Status
    BY DEF Hand
<1>4. \A r \in Reminders : r \in w.on /\ w.kind = "edit" => w.text[r] + 1 \in Bodies
    BY <1>1, <1>3, ReminderAssumption DEF TypeInv, EditsFit, Bodies
<1>5. status' \in [Reminders -> Status] /\ body' \in [Reminders -> Bodies]
    BY <1>2, <1>3, <1>4 DEF TypeInv, TypeOK
<1>6. /\ grants' \in [Reminders -> [Bodies -> Nat]]
      /\ \A r \in Reminders, v \in Bodies :
            grants'[r][v] = IF r \in w.on /\ w.kind = "approve" /\ v = w.text[r]
                            THEN grants[r][v] + 1 ELSE grants[r][v]
    <2> DEFINE S == IF w.kind = "approve" THEN w.on ELSE {}
    <2>1. \A r : r \in S <=> r \in w.on /\ w.kind = "approve"
        OBVIOUS
    <2>2. grants \in [Reminders -> [Bodies -> Nat]] /\ grants' = Counted(grants, S, w.text)
        BY <1>2 DEF TypeInv, TypeOK
    <2> HIDE DEF S
    <2> QED
        BY <1>3, <2>1, <2>2, CountedFacts
<1>7. /\ mails' \in [Reminders -> [Bodies -> Nat]]
      /\ \A r \in Reminders, v \in Bodies :
            mails'[r][v] = IF r \in w.on /\ w.kind = "mark" /\ v = w.text[r]
                           THEN mails[r][v] + 1 ELSE mails[r][v]
    <2> DEFINE S == IF w.kind = "mark" THEN w.on ELSE {}
    <2>1. \A r : r \in S <=> r \in w.on /\ w.kind = "mark"
        OBVIOUS
    <2>2. mails \in [Reminders -> [Bodies -> Nat]] /\ mails' = Counted(mails, S, w.text)
        BY <1>2 DEF TypeInv, TypeOK
    <2> HIDE DEF S
    <2> QED
        BY <1>3, <2>1, <2>2, CountedFacts
<1>8. \A r \in Reminders :
          /\ status'[r] = IF r \in w.on /\ w.to # "same" THEN w.to ELSE status[r]
          /\ body'[r] = IF r \in w.on /\ w.kind = "edit" THEN w.text[r] + 1 ELSE body[r]
    BY <1>2
<1>9. w \in Hand /\ w.kind # "none" /\ hand' = [hand EXCEPT ![a] = NoHand]
      /\ UNCHANGED <<channel, lock, done, run, refused, faults>>
    BY <1>2
<1> QED
    BY <1>1, <1>5, <1>6, <1>7, <1>8, <1>9

-----------------------------------------------------------------------------
(* A run selects.                                                            *)
LEMMA SelectFacts ==
    ASSUME TypeOK, NEW j \in Runs, SelectDue(j)
    PROVE  /\ ~run[j].busy /\ UNCHANGED <<rows, done, hand, grants, mails, refused, faults>>
           /\ run' \in [Runs -> Work] /\ \A i \in Runs \ {j} : run'[i] = run[i]
           /\ run'[j].busy /\ run'[j].sent = {}
           /\ \A r \in run'[j].doomed \cup run'[j].queue :
                 /\ r \in Reminders /\ status[r] = "approved" /\ channel[r] # "whatsapp"
                 /\ run'[j].text[r] = body[r]
           /\ lock' \in [Reminders -> Runs \cup {NoRun}]
           /\ \A r \in Reminders : lock'[r] = j \/ lock'[r] = lock[r]
<1> DEFINE due == {r \in Reminders : /\ status[r] = "approved" /\ channel[r] # "whatsapp"
                                     /\ lock[r] = NoRun}
           doomed == {r \in due : TargetsDoneStep(r) \/ channel[r] = "lost"}
           w == [busy |-> TRUE, doomed |-> doomed, queue |-> due \ doomed,
                 sent |-> {}, text |-> Texts(due)]
<1>1. /\ ~run[j].busy /\ UNCHANGED <<rows, done, hand, grants, mails, refused, faults>>
      /\ run' = [run EXCEPT ![j] = w]
      /\ lock' = [r \in Reminders |-> IF r \in due THEN j ELSE lock[r]]
    BY DEF SelectDue
<1>2. \A r \in due : /\ r \in Reminders /\ status[r] = "approved" /\ channel[r] # "whatsapp"
    OBVIOUS
<1>3. doomed \subseteq due
    OBVIOUS
<1> HIDE DEF due, doomed
<1>4. due \subseteq Reminders
    BY <1>2
<1>5. /\ Texts(due) \in [Reminders -> Bodies] /\ \A r \in due : Texts(due)[r] = body[r]
    BY <1>4, TextsFacts
<1>6. /\ w \in Work /\ w.busy /\ w.sent = {} /\ w.doomed \cup w.queue = due
      /\ w.text = Texts(due)
    BY <1>3, <1>4, <1>5 DEF Work
<1> HIDE DEF w
<1>7. /\ run' \in [Runs -> Work] /\ run'[j] = w /\ \A i \in Runs \ {j} : run'[i] = run[i]
    BY <1>1, <1>6 DEF TypeOK
<1>8. /\ lock' \in [Reminders -> Runs \cup {NoRun}]
      /\ \A r \in Reminders : lock'[r] = j \/ lock'[r] = lock[r]
    BY <1>1 DEF TypeOK
<1> QED
    BY <1>1, <1>2, <1>5, <1>6, <1>7, <1>8

(* What it selects is doomed or queued, not both.                            *)
LEMMA SelectSplits ==
    ASSUME TypeOK, NEW j \in Runs, SelectDue(j)
    PROVE  run'[j].doomed \cap run'[j].queue = {}
<1>1. PICK due, doomed, text :
          run' = [run EXCEPT ![j] = [busy |-> TRUE, doomed |-> doomed, queue |-> due \ doomed,
                                     sent |-> {}, text |-> text]]
    BY DEF SelectDue
<1> QED
    BY <1>1 DEF TypeOK

-----------------------------------------------------------------------------
(* Every variable keeps its type.                                            *)
LEMMA CaseTypes ==
    ASSUME TypeInv, Case
    PROVE  TypeInv'
<1>1. ASSUME NEW r \in Reminders, CorrectAddress(r) PROVE TypeInv'
    BY <1>1 DEF TypeInv, TypeOK, EditsFit, CorrectAddress, rows
<1>2. ASSUME NEW r \in Reminders, NEW k \in Channels \ {"auto"}, CreateReminder(r, k)
      PROVE  TypeInv'
    BY <1>2 DEF TypeInv, TypeOK, EditsFit, CreateReminder, Status
<1>3. ASSUME NEW r \in Reminders, NEW b \in BOOLEAN, CreateAutoReminder(r, b)
      PROVE  TypeInv'
    <2>1. grants' \in [Reminders -> [Bodies -> Nat]]
        BY <1>3 DEF TypeInv, TypeOK, CreateAutoReminder
    <2>2. status' \in [Reminders -> Status] /\ channel' \in [Reminders -> Channels \cup {"none"}]
        BY <1>3 DEF TypeInv, TypeOK, CreateAutoReminder, Status, Channels
    <2> QED
        BY <1>3, <2>1, <2>2 DEF TypeInv, TypeOK, EditsFit, CreateAutoReminder
<1>4. ASSUME NEW s \in Steps, ValidateStep(s) \/ ReopenStep(s) PROVE TypeInv'
    BY <1>4 DEF TypeInv, TypeOK, EditsFit, ValidateStep, ReopenStep, rows
<1> QED
    BY <1>1, <1>2, <1>3, <1>4 DEF Case

LEMMA AgencyTypes ==
    ASSUME TypeInv, NEW a \in Agents, Agency(a)
    PROVE  TypeInv'
<1>1. CASE Reads(a)
    <2>1. UNCHANGED <<rows, lock, done, run, grants, mails, refused, faults>> /\ HasRead(a)
        BY <1>1, ReadFacts DEF TypeInv
    <2>2. PICK w \in Hand : /\ hand' = [hand EXCEPT ![a] = w]
                            /\ w.kind = "edit" => \A r \in w.on : w.text[r] < MaxEdits
        BY <2>1 DEF HasRead
    <2> QED
        BY <2>1, <2>2 DEF TypeInv, TypeOK, EditsFit, rows
<1>2. CASE CommitHand(a)
    <2>1. NoHand \in Hand /\ NoHand.kind = "none"
        BY IdleTypes DEF NoHand
    <2>2. /\ hand' = [hand EXCEPT ![a] = NoHand]
          /\ UNCHANGED <<channel, lock, done, run, refused, faults>>
          /\ status' \in [Reminders -> Status] /\ body' \in [Reminders -> Bodies]
          /\ grants' \in [Reminders -> [Bodies -> Nat]]
          /\ mails' \in [Reminders -> [Bodies -> Nat]]
        BY <1>2, CommitFacts
    <2> QED
        BY <2>1, <2>2 DEF TypeInv, TypeOK, EditsFit
<1> QED
    BY <1>1, <1>2 DEF Agency, Reads

(* What a run does to the rows, once it holds them.                          *)
Works(j) ==
    \E r \in Reminders, m \in SUBSET Reminders :
        Decide(j, r) \/ RecordSent(j, r) \/ RecordSilent(j, r) \/ SendMail(j, m)

Stops(j) == Finish(j) \/ MailRejected(j) \/ Crash(j)

LEMMA WorkMoves ==
    ASSUME TypeOK, NEW j \in Runs, NEW r \in Reminders, NEW m \in SUBSET Reminders
    PROVE  /\ Decide(j, r) => RunMoves(j, run[j].doomed \ {r}, run[j].queue, run[j].sent)
           /\ RecordSent(j, r) => RunMoves(j, run[j].doomed, run[j].queue, run[j].sent \ {r})
           /\ RecordSilent(j, r) => RunMoves(j, run[j].doomed, run[j].queue \ {r}, run[j].sent)
           /\ SendMail(j, m) => RunMoves(j, run[j].doomed, run[j].queue \ m, m)
<1>1. {r} \in SUBSET Reminders
    OBVIOUS
<1>2. /\ Decide(j, r) => run' = [run EXCEPT ![j].doomed = @ \ {r}]
      /\ RecordSent(j, r) => run' = [run EXCEPT ![j].sent = @ \ {r}]
      /\ RecordSilent(j, r) => run' = [run EXCEPT ![j].queue = @ \ {r}]
      /\ SendMail(j, m) => run' = [run EXCEPT ![j].queue = @ \ m, ![j].sent = m]
    BY DEF Decide, RecordSent, RecordSilent, SendMail
<1> QED
    BY <1>1, <1>2, RunMovesFacts

(* A mail takes its members out of the queue of a run that records nothing.  *)
LEMMA SendFacts ==
    ASSUME TypeOK, NEW j \in Runs, NEW m \in SUBSET Reminders, NEW r \in Reminders,
           SendMail(j, m)
    PROVE  /\ RunMoves(j, run[j].doomed, run[j].queue \ m, m) /\ run[j].sent = {}
           /\ mails' = Counted(mails, m, run[j].text) /\ status' = status
           /\ m \subseteq run[j].queue
<1>1. RunMoves(j, run[j].doomed, run[j].queue \ m, m)
    BY WorkMoves
<1>2. mails' = Counted(mails, m, run[j].text) /\ status' = status
    BY DEF SendMail, rows
<1>3. run[j].sent = {}
    BY DEF SendMail, Sending
<1>4. m \in Mail(j)
    BY DEF SendMail
<1>5. m \subseteq run[j].queue
    BY <1>4 DEF Mail
<1> QED
    BY <1>1, <1>2, <1>3, <1>5

LEMMA WorkTypes ==
    ASSUME TypeInv, NEW j \in Runs, Works(j)
    PROVE  TypeInv'
<1>1. TypeOK
    BY DEF TypeInv
<1>2. UNCHANGED <<channel, body, done, hand, grants, refused, faults>>
    BY DEF Works, Decide, RecordSent, RecordSilent, SendMail, rows
<1>3. status' \in [Reminders -> Status]
    BY <1>1 DEF Works, Decide, RecordSent, RecordSilent, SendMail, rows, TypeOK, Status
<1>4. lock' = lock \/ lock' = Unlocked(j)
    BY DEF Works, Decide, RecordSent, RecordSilent, SendMail, rows
<1>5. mails' \in [Reminders -> [Bodies -> Nat]]
    <2>1. run[j].text \in [Reminders -> Bodies] /\ mails \in [Reminders -> [Bodies -> Nat]]
        BY <1>1 DEF TypeOK, Work
    <2>2. \A S : Counted(mails, S, run[j].text) \in [Reminders -> [Bodies -> Nat]]
        BY <2>1, CountedFacts
    <2> QED
        BY <2>1, <2>2 DEF Works, Decide, RecordSent, RecordSilent, SendMail
<1>6. /\ run' \in [Runs -> Work] /\ \A i \in Runs \ {j} : run'[i] = run[i]
      /\ run[j].busy => run'[j].busy
    BY <1>1, WorkMoves DEF Works, RunMoves
<1>7. /\ lock' \in [Reminders -> Runs \cup {NoRun}]
      /\ \A r \in Reminders : lock'[r] # NoRun => lock'[r] = lock[r]
    BY <1>1, <1>4, UnlockedFacts DEF TypeOK
<1>8. ASSUME NEW r \in Reminders, lock'[r] # NoRun PROVE run'[lock'[r]].busy
    <2>1. PICK i \in Runs : i = lock'[r]
        BY <1>7, <1>8
    <2>2. i = lock[r] /\ i # NoRun
        BY <1>7, <1>8, <2>1
    <2>3. run[i].busy
        BY <1>1, <2>2 DEF TypeOK
    <2>4. run'[i].busy
        BY <1>6, <2>3
    <2> QED
        BY <2>1, <2>4
<1>9. TypeOK'
    <2>1. /\ UNCHANGED channel /\ UNCHANGED body /\ UNCHANGED done /\ UNCHANGED hand
          /\ UNCHANGED grants /\ UNCHANGED refused /\ UNCHANGED faults
        BY <1>2
    <2>2. /\ run' \in [Runs -> Work] /\ lock' \in [Reminders -> Runs \cup {NoRun}]
        BY <1>6, <1>7
    <2> QED
        BY <1>1, <1>3, <1>5, <1>8, <2>1, <2>2 DEF TypeOK
<1>10. EditsFit'
    BY <1>2 DEF TypeInv, EditsFit
<1> QED
    BY <1>9, <1>10 DEF TypeInv

LEMMA StopFacts ==
    ASSUME TypeOK, NEW j \in Runs, Stops(j)
    PROVE  /\ run' \in [Runs -> Work] /\ run'[j] = NoWork
           /\ \A i \in Runs \ {j} : run'[i] = run[i]
           /\ UNCHANGED <<rows, done, hand, grants, mails, refused>>
           /\ lock' = Unlocked(j) /\ faults' \in 0..MaxFaults
           /\ \/ faults' = faults /\ run[j].sent = {}
              \/ faults' = faults + 1
<1>1. Stop(j)
    BY DEF Stops, Finish, MailRejected, Crash
<1>2. run' = [run EXCEPT ![j] = NoWork] /\ lock' = Unlocked(j)
      /\ UNCHANGED <<rows, done, hand, grants, mails, refused>>
    BY <1>1 DEF Stop
<1>3. /\ \/ faults' = faults /\ run[j].sent = {}
         \/ faults' = faults + 1
      /\ faults' \in 0..MaxFaults
    BY ReminderAssumption DEF Stops, Finish, MailRejected, Crash, Sending, TypeOK
<1> QED
    BY <1>2, <1>3, Stopped

LEMMA RunTypes ==
    ASSUME TypeInv, NEW j \in Runs, Dispatch(j) \/ Crash(j)
    PROVE  TypeInv' /\ (SelectDue(j) \/ Works(j) \/ Stops(j))
<1>1. TypeOK
    BY DEF TypeInv
<1>2. SelectDue(j) \/ Works(j) \/ Stops(j)
    <2>1. {} \in SUBSET Reminders
        OBVIOUS
    <2>2. ASSUME NEW m \in SUBSET Reminders, SendMail(j, m) PROVE Works(j)
        <3>1. run[j].queue \subseteq Reminders
            BY <1>1 DEF TypeOK, Work
        <3>2. \E r \in Reminders : TRUE
            BY <2>2, <3>1 DEF SendMail, Mail
        <3> QED
            BY <2>2, <3>2 DEF Works
    <2> QED
        BY <2>1, <2>2 DEF Dispatch, Works, Stops
<1>3. CASE SelectDue(j)
    <2>1. /\ UNCHANGED <<rows, done, hand, grants, mails, refused, faults>>
          /\ run' \in [Runs -> Work] /\ \A i \in Runs \ {j} : run'[i] = run[i]
          /\ run'[j].busy /\ lock' \in [Reminders -> Runs \cup {NoRun}]
          /\ \A r \in Reminders : lock'[r] = j \/ lock'[r] = lock[r]
        BY <1>1, <1>3, SelectFacts
    <2>2. ASSUME NEW r \in Reminders, lock'[r] # NoRun PROVE run'[lock'[r]].busy
        <3>1. PICK i \in Runs : i = lock'[r]
            BY <2>1, <2>2
        <3>2. i = j \/ (i = lock[r] /\ i # NoRun)
            BY <2>1, <2>2, <3>1, ReminderAssumption
        <3>3. i = j \/ run[i].busy
            BY <1>1, <3>2 DEF TypeOK
        <3>4. run'[i].busy
            BY <2>1, <3>3
        <3> QED
            BY <3>1, <3>4
    <2>3. UNCHANGED <<status, channel, body, done, hand, grants, mails, refused, faults>>
        BY <2>1 DEF rows
    <2>4. TypeOK'
        BY <1>1, <2>1, <2>2, <2>3 DEF TypeOK
    <2>5. EditsFit'
        BY <2>3 DEF TypeInv, EditsFit
    <2> QED
        BY <1>2, <2>4, <2>5 DEF TypeInv
<1>4. CASE Stops(j)
    <2>1. /\ run' \in [Runs -> Work] /\ \A i \in Runs \ {j} : run'[i] = run[i]
          /\ UNCHANGED <<rows, done, hand, grants, mails, refused>>
          /\ lock' = Unlocked(j) /\ faults' \in 0..MaxFaults
        BY <1>1, <1>4, StopFacts
    <2>2. /\ lock' \in [Reminders -> Runs \cup {NoRun}]
          /\ \A r \in Reminders : lock'[r] # NoRun => run'[lock'[r]].busy
        BY <1>1, <2>1, UnlockedFacts DEF TypeOK
    <2>3. UNCHANGED <<status, channel, body, done, hand, grants, mails, refused>>
        BY <2>1 DEF rows
    <2>4. TypeOK'
        BY <1>1, <2>1, <2>2, <2>3 DEF TypeOK
    <2>5. EditsFit'
        BY <2>3 DEF TypeInv, EditsFit
    <2> QED
        BY <1>2, <2>4, <2>5 DEF TypeInv
<1> QED
    BY <1>2, <1>3, <1>4, WorkTypes

LEMMA StutterTypes == ASSUME TypeInv, UNCHANGED vars PROVE TypeInv'
BY DEF TypeInv, TypeOK, EditsFit, vars

LEMMA TypeAlways == Spec => []TypeInv
<1>1. Init => TypeInv
    <2>1. Init => TypeOK
        BY IdleTypes, ReminderAssumption DEF Init, TypeOK, Bodies, Status
    <2> QED
        BY <2>1 DEF Init, TypeInv, EditsFit, NoHand
<1>2. TypeInv /\ [Next]_vars => TypeInv'
    BY CaseTypes, AgencyTypes, RunTypes, StutterTypes DEF Next
<1> QED
    BY <1>1, <1>2, PTL DEF Spec

(* Every variable keeps its type, and a row is locked by a run at work, with *)
(* any number of runs and of handlers side by side.                          *)
THEOREM RemindersAreTyped == Spec => []TypeOK
<1>1. TypeInv => TypeOK
    BY DEF TypeInv
<1> QED
    BY <1>1, TypeAlways, PTL

-----------------------------------------------------------------------------
(* A text that leaves was approved: what a step of the case or of a run      *)
(* leaves alone.                                                             *)
Frame ==
    \A r \in Reminders :
        /\ status[r] # "none" => status'[r] # "none" /\ channel'[r] = channel[r]
        /\ \A v \in Bodies : grants'[r][v] >= grants[r][v]

LEMMA RunStays ==
    ASSUME TypeOK, TypeOK', Frame, NEW j \in Runs, RunIsTrue(j), run'[j].text = run[j].text,
           Held(j)' \subseteq Held(j), run'[j].queue \cap run'[j].sent = {},
           run[j].busy => run'[j].busy
    PROVE  RunIsTrue(j)'
<1>1. ASSUME NEW r \in Held(j)'
      PROVE  /\ status'[r] # "none" /\ channel'[r] # "whatsapp"
             /\ grants'[r][run'[j].text[r]] > 0
    <2>1. /\ r \in Held(j) /\ r \in Reminders /\ run[j].text[r] \in Bodies
        BY DEF Held, TypeOK, Work
    <2>2. /\ status[r] # "none" /\ channel[r] # "whatsapp"
          /\ grants[r][run[j].text[r]] > 0
        BY <2>1 DEF RunIsTrue
    <2>3. grants[r][run[j].text[r]] \in Nat /\ grants'[r][run[j].text[r]] \in Nat
        BY <2>1 DEF TypeOK
    <2> QED
        BY <2>1, <2>2, <2>3 DEF Frame
<1>2. ~run'[j].busy => Held(j)' = {}
    BY DEF RunIsTrue
<1> QED
    BY <1>1, <1>2 DEF RunIsTrue

(* Rows that a handler reads are left to it by all but a run that cancels    *)
(* them or marks them sent.                                                  *)
LEMMA HandStays ==
    ASSUME TypeOK, Frame, NEW a \in Agents, IsTrue(hand[a]), hand'[a] = hand[a],
           UNCHANGED body,
           \A r \in Reminders : \/ status'[r] = status[r]
                                \/ status[r] = "none"
                                \/ /\ status'[r] \in {"sent", "cancelled"}
                                   /\ channel[r] # "whatsapp"
    PROVE  IsTrue(hand[a])'
<1>1. PICK w \in Hand : w = hand[a]
    BY DEF TypeOK
<1>2. ASSUME NEW r \in w.on
      PROVE  /\ status'[r] # "none" /\ w.text[r] = body'[r]
             /\ w.kind = "edit" /\ w.to = "same" => status'[r] # "approved"
             /\ w.kind = "mark" => status'[r] = "approved" /\ channel'[r] = "whatsapp"
    <2>1. r \in Reminders
        BY DEF Hand
    <2>2. /\ status[r] # "none" /\ w.text[r] = body[r]
          /\ w.kind = "edit" /\ w.to = "same" => status[r] # "approved"
          /\ w.kind = "mark" => status[r] = "approved" /\ channel[r] = "whatsapp"
        BY <1>1 DEF IsTrue
    <2> QED
        BY <2>1, <2>2 DEF Frame
<1>3. /\ w.to # "none"
      /\ w.to = "approved" => w.kind = "approve"
      /\ w.kind = "mark" => w.to = "sent"
      /\ w.kind = "edit" => w.to \in {"same", "to_approve"}
      /\ w.kind \in {"approve", "cancel"} => w.to # "same"
    BY <1>1 DEF IsTrue
<1> QED
    BY <1>1, <1>2, <1>3 DEF IsTrue

ApprovedRows ==
    \A r \in Reminders : status[r] = "approved" => grants[r][body[r]] > 0

LEMMA CaseApproved ==
    ASSUME TypeInv, TypeInv', ApprovedInv, Case
    PROVE  ApprovedInv'
<1>1. TypeOK /\ TypeOK'
    BY DEF TypeInv
<1>2. UNCHANGED <<body, run, hand, mails>>
    BY DEF Case, CorrectAddress, CreateReminder, CreateAutoReminder, ValidateStep, ReopenStep, rows
<1>3. \A r \in Reminders :
          \/ status'[r] = status[r] /\ channel'[r] = channel[r] /\ grants'[r] = grants[r]
          \/ /\ status[r] = "none" /\ status'[r] \in {"to_approve", "approved"}
             /\ \/ status'[r] = "to_approve" /\ grants'[r] = grants[r]
                \/ /\ status'[r] = "approved" => grants'[r][body[r]] > 0
                   /\ \A v \in Bodies : grants'[r][v] >= 0
    <2>1. CASE UNCHANGED <<status, channel, grants>>
        BY <2>1
    <2>2. ASSUME NEW q \in Reminders, NEW k \in Channels, CreateReminder(q, k)
          PROVE  \A r \in Reminders :
                     /\ grants'[r] = grants[r]
                     /\ \/ status'[r] = status[r] /\ channel'[r] = channel[r]
                        \/ status[r] = "none" /\ status'[r] = "to_approve"
        BY <1>1, <2>2 DEF CreateReminder, TypeOK
    <2>3. ASSUME NEW q \in Reminders, NEW b \in BOOLEAN, CreateAutoReminder(q, b)
          PROVE  /\ status[q] = "none" /\ status'[q] \in {"to_approve", "approved"}
                 /\ status'[q] = "approved" => grants'[q][body[q]] > 0
                 /\ \A r \in Reminders \ {q} :
                       status'[r] = status[r] /\ channel'[r] = channel[r] /\ grants'[r] = grants[r]
        BY <1>1, <2>3 DEF CreateAutoReminder, TypeOK
    <2>4. \A r \in Reminders, v \in Bodies : grants'[r][v] >= 0
        BY <1>1 DEF TypeOK
    <2>5. \/ UNCHANGED <<status, channel, grants>>
          \/ \E q \in Reminders, k \in Channels : CreateReminder(q, k)
          \/ \E q \in Reminders, b \in BOOLEAN : CreateAutoReminder(q, b)
        BY DEF Case, CorrectAddress, ValidateStep, ReopenStep, rows
    <2>6. CASE \E q \in Reminders, k \in Channels : CreateReminder(q, k)
        BY <2>2, <2>6
    <2>7. CASE \E q \in Reminders, b \in BOOLEAN : CreateAutoReminder(q, b)
        BY <2>3, <2>4, <2>7
    <2> QED
        BY <2>1, <2>5, <2>6, <2>7
<1>4. Frame
    BY <1>1, <1>3 DEF Frame, ApprovedInv, NoneIsNew, TypeOK
<1>5. ApprovedRows'
    <2> SUFFICES ASSUME NEW r \in Reminders, status'[r] = "approved"
                 PROVE  grants'[r][body[r]] > 0
        BY <1>2 DEF ApprovedRows
    <2>1. CASE status'[r] = status[r] /\ grants'[r] = grants[r]
        BY <2>1 DEF ApprovedInv
    <2> QED
        BY <1>3, <2>1
<1>6. ApprovedOnly'
    <2> SUFFICES ASSUME NEW r \in Reminders, NEW v \in Bodies, mails[r][v] > 0
                 PROVE  grants'[r][v] > 0
        BY <1>2 DEF ApprovedOnly
    <2>1. grants[r][v] > 0 /\ grants'[r][v] >= grants[r][v]
        BY <1>4 DEF ApprovedInv, ApprovedOnly, Frame
    <2>2. grants[r][v] \in Nat /\ grants'[r][v] \in Nat
        BY <1>1 DEF TypeOK
    <2> QED
        BY <2>1, <2>2
<1>7. \A a \in Agents : IsTrue(hand[a])'
    BY <1>1, <1>2, <1>3, <1>4, HandStays DEF ApprovedInv
<1>8. \A j \in Runs : RunIsTrue(j)'
    <2> SUFFICES ASSUME NEW j \in Runs PROVE RunIsTrue(j)'
        OBVIOUS
    <2>1. RunIsTrue(j) /\ Held(j)' = Held(j) /\ run' = run
        BY <1>2 DEF ApprovedInv, Held
    <2> QED
        BY <1>1, <1>4, <2>1, RunStays DEF RunIsTrue
<1>9. NoneIsNew'
    <2> SUFFICES ASSUME NEW r \in Reminders, status'[r] = "none", NEW v \in Bodies
                 PROVE  grants'[r][v] = 0
        BY DEF NoneIsNew
    <2>1. status[r] = "none" /\ grants'[r] = grants[r]
        BY <1>3
    <2> QED
        BY <2>1 DEF ApprovedInv, NoneIsNew
<1> QED
    BY <1>5, <1>6, <1>7, <1>8, <1>9 DEF ApprovedInv, ApprovedRows

LEMMA ReadApproved ==
    ASSUME TypeInv, TypeInv', ApprovedInv, NEW a \in Agents, Reads(a)
    PROVE  ApprovedInv'
<1>1. TypeOK /\ TypeOK'
    BY DEF TypeInv
<1>2. UNCHANGED <<rows, lock, done, run, grants, mails, refused, faults>> /\ HasRead(a)
    BY <1>1, ReadFacts
<1>3. PICK w \in Hand : hand' = [hand EXCEPT ![a] = w] /\ IsTrue(w)
    BY <1>2 DEF HasRead
<1>4. \A b \in Agents : IsTrue(hand'[b])
    BY <1>1, <1>3 DEF ApprovedInv, TypeOK
<1>5. ASSUME NEW b \in Agents PROVE IsTrue(hand[b])'
    BY <1>2, <1>4 DEF IsTrue, rows
<1>6. \A j \in Runs : RunIsTrue(j)'
    BY <1>2 DEF ApprovedInv, RunIsTrue, Held, rows
<1> QED
    BY <1>2, <1>5, <1>6 DEF ApprovedInv, NoneIsNew, ApprovedOnly, rows

LEMMA CommitApproved ==
    ASSUME HandsApart, TypeInv, TypeInv', ApprovedInv, NEW a \in Agents, CommitHand(a)
    PROVE  ApprovedInv'
<1>1. TypeOK /\ TypeOK'
    BY DEF TypeInv
<1>2. PICK w \in Hand : w = hand[a]
    BY <1>1 DEF TypeOK
<1>3. /\ w.kind # "none" /\ hand' = [hand EXCEPT ![a] = NoHand]
      /\ UNCHANGED <<channel, lock, done, run, refused, faults>>
      /\ \A r \in Reminders :
            /\ status'[r] = IF r \in w.on /\ w.to # "same" THEN w.to ELSE status[r]
            /\ body'[r] = IF r \in w.on /\ w.kind = "edit" THEN w.text[r] + 1 ELSE body[r]
            /\ \A v \in Bodies :
                  /\ grants'[r][v] = IF r \in w.on /\ w.kind = "approve" /\ v = w.text[r]
                                     THEN grants[r][v] + 1 ELSE grants[r][v]
                  /\ mails'[r][v] = IF r \in w.on /\ w.kind = "mark" /\ v = w.text[r]
                                    THEN mails[r][v] + 1 ELSE mails[r][v]
    BY <1>2, CommitFacts
<1>4. /\ w.to # "none" /\ (w.to = "approved" => w.kind = "approve")
      /\ (w.kind = "mark" => w.to = "sent")
      /\ (w.kind = "edit" => w.to \in {"same", "to_approve"})
      /\ \A r \in w.on :
            /\ status[r] # "none" /\ w.text[r] = body[r]
            /\ w.kind = "edit" /\ w.to = "same" => status[r] # "approved"
            /\ w.kind = "mark" => status[r] = "approved" /\ channel[r] = "whatsapp"
    BY <1>2 DEF ApprovedInv, IsTrue
<1>5. \A r \in Reminders :
          body[r] \in Bodies /\ \A v \in Bodies : grants[r][v] \in Nat /\ mails[r][v] \in Nat
    BY <1>1 DEF TypeOK
<1>6. Frame
    BY <1>3, <1>4, <1>5 DEF Frame
<1>7. NoneIsNew'
    BY <1>3, <1>4, <1>5 DEF ApprovedInv, NoneIsNew
<1>8. ASSUME NEW r \in Reminders, status'[r] = "approved"
      PROVE  grants'[r][body'[r]] > 0
    <2>1. CASE r \in w.on /\ w.to # "same"
        <3>1. w.kind = "approve" /\ body'[r] = body[r] /\ w.text[r] = body[r]
            BY <1>3, <1>4, <1>8, <2>1
        <3>2. grants'[r][body[r]] = grants[r][body[r]] + 1
            BY <1>3, <1>5, <2>1, <3>1
        <3> QED
            BY <1>5, <3>1, <3>2
    <2>2. CASE ~(r \in w.on /\ w.to # "same")
        <3>1. status[r] = "approved" /\ body'[r] = body[r]
            BY <1>3, <1>4, <1>8, <2>2
        <3>2. grants[r][body[r]] > 0 /\ grants'[r][body[r]] >= grants[r][body[r]]
            BY <1>5, <1>6, <3>1 DEF ApprovedInv, Frame
        <3> QED
            BY <1>1, <1>5, <3>1, <3>2 DEF TypeOK
    <2> QED
        BY <2>1, <2>2
<1>9. ASSUME NEW r \in Reminders, NEW v \in Bodies, mails'[r][v] > 0
      PROVE  grants'[r][v] > 0
    <2>1. grants[r][v] > 0
        <3>1. CASE r \in w.on /\ w.kind = "mark" /\ v = w.text[r]
            BY <1>4, <3>1 DEF ApprovedInv
        <3>2. CASE mails'[r][v] = mails[r][v]
            BY <1>9, <3>2 DEF ApprovedInv, ApprovedOnly
        <3> QED
            BY <1>3, <3>1, <3>2
    <2>2. grants'[r][v] >= grants[r][v] /\ grants'[r][v] \in Nat
        BY <1>1, <1>6 DEF Frame, TypeOK
    <2> QED
        BY <1>5, <2>1, <2>2
<1>10. \A b \in Agents : IsTrue(hand[b])'
    <2> SUFFICES ASSUME NEW b \in Agents PROVE IsTrue(hand[b])'
        OBVIOUS
    <2>1. CASE b = a
        <3>1. hand'[b] = NoHand
            BY <1>1, <1>3, <2>1 DEF TypeOK
        <3> QED
            BY <3>1 DEF IsTrue, NoHand
    <2>2. CASE b # a
        <3>1. PICK x \in Hand : x = hand[b] /\ x = hand'[b]
            BY <1>1, <1>3, <2>2 DEF TypeOK
        <3>2. \A r \in x.on : r \in Reminders /\ r \notin w.on
            BY <1>2, <2>2, <3>1 DEF HandsApart, Hand
        <3>3. \A r \in x.on : /\ status'[r] = status[r] /\ body'[r] = body[r]
                              /\ channel'[r] = channel[r]
            BY <1>3, <3>2
        <3>4. IsTrue(x)
            BY <3>1 DEF ApprovedInv
        <3> QED
            BY <3>1, <3>3, <3>4 DEF IsTrue
    <2> QED
        BY <2>1, <2>2
<1>11. \A j \in Runs : RunIsTrue(j)'
    <2> SUFFICES ASSUME NEW j \in Runs PROVE RunIsTrue(j)'
        OBVIOUS
    <2>1. RunIsTrue(j) /\ Held(j)' = Held(j) /\ run' = run
        BY <1>3 DEF ApprovedInv, Held
    <2> QED
        BY <1>1, <1>6, <2>1, RunStays DEF RunIsTrue
<1> QED
    BY <1>7, <1>8, <1>9, <1>10, <1>11 DEF ApprovedInv, ApprovedOnly

(* What a run at work writes: the end of rows it holds, and the mails of its *)
(* queue.                                                                    *)
LEMMA WorkWrites ==
    ASSUME TypeInv, ApprovedInv, NEW j \in Runs, Works(j)
    PROVE  /\ UNCHANGED <<channel, body, done, hand, grants, refused, faults>>
           /\ \A i \in Runs \ {j} : run'[i] = run[i]
           /\ run'[j].text = run[j].text /\ Held(j)' \subseteq Held(j)
           /\ run'[j].queue \cap run'[j].sent = {}
           /\ run[j].busy => run'[j].busy
           /\ \A r \in Reminders :
                 /\ \/ status'[r] = status[r]
                    \/ r \in Held(j) /\ status'[r] \in {"sent", "cancelled"}
                 /\ \A v \in Bodies :
                       \/ mails'[r][v] = mails[r][v]
                       \/ /\ r \in run[j].queue /\ v = run[j].text[r]
                          /\ mails'[r][v] = mails[r][v] + 1
<1>1. /\ TypeOK /\ run[j].queue \cap run[j].sent = {} /\ run[j].queue \subseteq Reminders
      /\ status \in [Reminders -> Status] /\ mails \in [Reminders -> [Bodies -> Nat]]
      /\ run[j].text \in [Reminders -> Bodies]
    BY DEF TypeInv, TypeOK, Work, ApprovedInv, RunIsTrue
<1>2. UNCHANGED <<channel, body, done, hand, grants, refused, faults>>
    BY DEF Works, Decide, RecordSent, RecordSilent, SendMail, rows
<1>3. PICK r \in Reminders, m \in SUBSET Reminders :
          Decide(j, r) \/ RecordSent(j, r) \/ RecordSilent(j, r) \/ SendMail(j, m)
    BY DEF Works
<1>4. CASE Decide(j, r)
    <2>1. /\ RunMoves(j, run[j].doomed \ {r}, run[j].queue, run[j].sent)
          /\ r \in run[j].doomed /\ mails' = mails
          /\ status' = [status EXCEPT ![r] = IF channel[r] = "lost" THEN @ ELSE "cancelled"]
        BY <1>1, <1>4, WorkMoves DEF Decide
    <2> QED
        BY <1>1, <1>2, <2>1 DEF RunMoves, Held
<1>5. CASE RecordSent(j, r)
    <2>1. /\ RunMoves(j, run[j].doomed, run[j].queue, run[j].sent \ {r})
          /\ r \in run[j].sent /\ mails' = mails
          /\ status' = [status EXCEPT ![r] = "sent"]
        BY <1>1, <1>5, WorkMoves DEF RecordSent
    <2> QED
        BY <1>1, <1>2, <2>1 DEF RunMoves, Held
<1>6. CASE RecordSilent(j, r)
    <2>1. /\ RunMoves(j, run[j].doomed, run[j].queue \ {r}, run[j].sent)
          /\ r \in run[j].queue /\ mails' = Counted(mails, {r}, run[j].text)
          /\ status' = [status EXCEPT ![r] = "sent"]
        BY <1>1, <1>6, WorkMoves DEF RecordSilent
    <2>2. \A q \in Reminders, v \in Bodies :
              mails'[q][v] = IF q \in {r} /\ v = run[j].text[q]
                             THEN mails[q][v] + 1 ELSE mails[q][v]
        BY <1>1, <2>1, CountedFacts
    <2>3. \A q \in Reminders, v \in Bodies :
              \/ mails'[q][v] = mails[q][v]
              \/ /\ q \in run[j].queue /\ v = run[j].text[q]
                 /\ mails'[q][v] = mails[q][v] + 1
        BY <2>1, <2>2
    <2>4. \A q \in Reminders :
              \/ status'[q] = status[q]
              \/ q \in Held(j) /\ status'[q] \in {"sent", "cancelled"}
        BY <1>1, <2>1 DEF Held
    <2>5. /\ \A i \in Runs \ {j} : run'[i] = run[i]
          /\ run'[j].text = run[j].text /\ Held(j)' \subseteq Held(j)
          /\ run'[j].queue \cap run'[j].sent = {}
          /\ run[j].busy => run'[j].busy
        BY <1>1, <2>1 DEF RunMoves, Held
    <2> QED
        BY <1>2, <2>3, <2>4, <2>5
<1>7. CASE SendMail(j, m)
    <2>1. /\ RunMoves(j, run[j].doomed, run[j].queue \ m, m)
          /\ mails' = Counted(mails, m, run[j].text) /\ status' = status
        BY <1>1, <1>7, WorkMoves DEF SendMail, rows
    <2>2. m \subseteq run[j].queue
        BY <1>7 DEF SendMail, Mail
    <2>3. \A q \in Reminders, v \in Bodies :
              mails'[q][v] = IF q \in m /\ v = run[j].text[q]
                             THEN mails[q][v] + 1 ELSE mails[q][v]
        BY <1>1, <2>1, CountedFacts
    <2> QED
        BY <1>1, <1>2, <2>1, <2>2, <2>3 DEF RunMoves, Held
<1> QED
    BY <1>3, <1>4, <1>5, <1>6, <1>7

LEMMA RunApproved ==
    ASSUME TypeInv, TypeInv', ApprovedInv, NEW j \in Runs,
           SelectDue(j) \/ Works(j) \/ Stops(j)
    PROVE  ApprovedInv'
<1>1. TypeOK /\ TypeOK'
    BY DEF TypeInv
<1>2. /\ UNCHANGED <<channel, body, hand, grants>>
      /\ \A i \in Runs \ {j} : run'[i] = run[i]
      /\ \A r \in Reminders :
            \/ status'[r] = status[r]
            \/ r \in Held(j) /\ status'[r] \in {"sent", "cancelled"}
    <2>1. CASE SelectDue(j)
        BY <1>1, <2>1, SelectFacts DEF rows
    <2>2. CASE Works(j)
        BY <2>2, WorkWrites
    <2>3. CASE Stops(j)
        BY <1>1, <2>3, StopFacts DEF rows
    <2> QED
        BY <2>1, <2>2, <2>3
<1>3. \A r \in Held(j) :
          /\ r \in Reminders /\ status[r] # "none" /\ channel[r] # "whatsapp"
          /\ run[j].text[r] \in Bodies /\ grants[r][run[j].text[r]] > 0
    BY <1>1 DEF ApprovedInv, RunIsTrue, Held, TypeOK, Work
<1>4. \A r \in Reminders, v \in Bodies : grants[r][v] \in Nat
    BY <1>1 DEF TypeOK
<1>5. Frame
    BY <1>2, <1>3, <1>4 DEF Frame
<1>6. NoneIsNew' /\ ApprovedRows'
    BY <1>2, <1>3 DEF ApprovedInv, NoneIsNew, ApprovedRows
<1>7. ApprovedOnly'
    <2>1. CASE Works(j)
        <3> SUFFICES ASSUME NEW r \in Reminders, NEW v \in Bodies, mails'[r][v] > 0
                     PROVE  grants[r][v] > 0
            BY <1>2 DEF ApprovedOnly
        <3>1. \/ mails'[r][v] = mails[r][v]
              \/ r \in run[j].queue /\ v = run[j].text[r]
            BY <2>1, WorkWrites
        <3> QED
            BY <1>3, <3>1 DEF ApprovedInv, ApprovedOnly, Held
    <2>2. CASE UNCHANGED mails
        BY <1>2, <2>2 DEF ApprovedInv, ApprovedOnly
    <2> QED
        BY <1>1, <2>1, <2>2, SelectFacts, StopFacts
<1>8. ASSUME NEW a \in Agents PROVE IsTrue(hand[a])'
    <2>1. IsTrue(hand[a]) /\ hand'[a] = hand[a]
        BY <1>2 DEF ApprovedInv
    <2>2. \A r \in Reminders : \/ status'[r] = status[r]
                               \/ status[r] = "none"
                               \/ /\ status'[r] \in {"sent", "cancelled"}
                                  /\ channel[r] # "whatsapp"
        BY <1>2, <1>3
    <2> QED
        BY <1>1, <1>2, <1>5, <2>1, <2>2, HandStays
<1>9. RunIsTrue(j)'
    <2>1. CASE SelectDue(j)
        <3>1. /\ run'[j].busy /\ run'[j].sent = {} /\ UNCHANGED <<rows, grants>>
              /\ \A r \in run'[j].doomed \cup run'[j].queue :
                    /\ r \in Reminders /\ status[r] = "approved" /\ channel[r] # "whatsapp"
                    /\ run'[j].text[r] = body[r]
            BY <1>1, <2>1, SelectFacts
        <3>2. \A r \in Reminders : status[r] = "approved" => grants[r][body[r]] > 0
            BY DEF ApprovedInv
        <3>3. Held(j)' = run'[j].doomed \cup run'[j].queue
            BY <3>1 DEF Held
        <3>4. ASSUME NEW r \in Held(j)'
              PROVE  /\ status'[r] # "none" /\ channel'[r] # "whatsapp"
                     /\ grants'[r][run'[j].text[r]] > 0
            BY <3>1, <3>2, <3>3 DEF rows
        <3> QED
            BY <3>1, <3>4 DEF RunIsTrue
    <2>2. CASE Works(j)
        <3>1. /\ run'[j].text = run[j].text /\ Held(j)' \subseteq Held(j)
              /\ run'[j].queue \cap run'[j].sent = {}
              /\ run[j].busy => run'[j].busy
            BY <2>2, WorkWrites
        <3> QED
            BY <1>1, <1>5, <3>1, RunStays DEF ApprovedInv
    <2>3. CASE Stops(j)
        <3>1. run'[j] = NoWork
            BY <1>1, <2>3, StopFacts
        <3> QED
            BY <3>1 DEF RunIsTrue, Held, NoWork
    <2> QED
        BY <2>1, <2>2, <2>3
<1>10. ASSUME NEW i \in Runs, i # j PROVE RunIsTrue(i)'
    <2>1. RunIsTrue(i) /\ Held(i)' = Held(i) /\ run'[i] = run[i]
        BY <1>2, <1>10 DEF ApprovedInv, Held
    <2> QED
        BY <1>1, <1>5, <2>1, RunStays DEF RunIsTrue
<1> QED
    BY <1>6, <1>7, <1>8, <1>9, <1>10 DEF ApprovedInv, ApprovedRows

LEMMA StutterApproved == ASSUME ApprovedInv, UNCHANGED vars PROVE ApprovedInv'
BY DEF ApprovedInv, NoneIsNew, ApprovedOnly, IsTrue, RunIsTrue, Held, vars

LEMMA ApprovedAlways == Spec /\ []HandsApart => []ApprovedInv
<1>1. Init => ApprovedInv
    <2>1. ASSUME Init
          PROVE  /\ NoneIsNew /\ ApprovedOnly /\ ApprovedRows
                 /\ \A a \in Agents : IsTrue(hand[a])
                 /\ \A j \in Runs : RunIsTrue(j)
        <3>1. NoneIsNew /\ ApprovedOnly /\ ApprovedRows
            BY <2>1 DEF Init, NoneIsNew, ApprovedOnly, ApprovedRows
        <3>2. \A a \in Agents : IsTrue(hand[a])
            BY <2>1 DEF Init, IsTrue, NoHand
        <3>3. \A j \in Runs : RunIsTrue(j)
            BY <2>1 DEF Init, RunIsTrue, Held, NoWork
        <3> QED
            BY <3>1, <3>2, <3>3
    <2> QED
        BY <2>1 DEF ApprovedInv, ApprovedRows
<1>2. HandsApart /\ TypeInv /\ TypeInv' /\ ApprovedInv /\ [Next]_vars => ApprovedInv'
    <2> SUFFICES ASSUME HandsApart, TypeInv, TypeInv', ApprovedInv, [Next]_vars
                 PROVE  ApprovedInv'
        OBVIOUS
    <2>1. CASE Case
        BY <2>1, CaseApproved
    <2>2. ASSUME NEW a \in Agents, Agency(a) PROVE ApprovedInv'
        BY <2>2, ReadApproved, CommitApproved DEF Agency, Reads
    <2>3. ASSUME NEW j \in Runs, Dispatch(j) \/ Crash(j) PROVE ApprovedInv'
        BY <2>3, RunTypes, RunApproved
    <2> QED
        BY <2>1, <2>2, <2>3, StutterApproved DEF Next
<1> QED
    BY <1>1, <1>2, TypeAlways, PTL DEF Spec

(* "Nothing is ever dispatched before APPROVED", and an edit "covered the    *)
(* OLD content" (Reminder, UpdateReminder): as long as no two handlers hold  *)
(* one reminder, with any number of runs that overlap, crash and read again, *)
(* the very version that leaves has been approved.                           *)
THEOREM OnlyApprovedTextLeaves == Spec /\ []HandsApart => []ApprovedOnly
<1>1. ApprovedInv => ApprovedOnly
    BY DEF ApprovedInv
<1> QED
    BY <1>1, ApprovedAlways, PTL

-----------------------------------------------------------------------------
(* One approval, one mail.  Of a version, a step either sends none, and owes *)
(* one more only if an approval or a crash allows it, or sends what it owes. *)
KeepsFit(r, v) ==
    /\ grants'[r][v] >= grants[r][v] /\ faults' >= faults
    /\ \/ /\ mails'[r][v] = mails[r][v]
          /\ Owed(r, v)' => \/ Owed(r, v)
                            \/ grants'[r][v] > grants[r][v]
                            \/ faults' > faults
       \/ /\ mails'[r][v] = mails[r][v] + 1
          /\ Owed(r, v) /\ ~Owed(r, v)'

LEMMA FitIsKept ==
    ASSUME TypeOK, TypeOK', MailsFit, \A r \in Reminders, v \in Bodies : KeepsFit(r, v)
    PROVE  MailsFit'
<1> SUFFICES ASSUME NEW r \in Reminders, NEW v \in Bodies
             PROVE  /\ mails'[r][v] <= grants'[r][v] + faults'
                    /\ Owed(r, v)' => mails'[r][v] < grants'[r][v] + faults'
    BY DEF MailsFit
<1>1. /\ mails[r][v] \in Nat /\ mails'[r][v] \in Nat /\ grants[r][v] \in Nat
      /\ grants'[r][v] \in Nat /\ faults \in Nat /\ faults' \in Nat
    BY ReminderAssumption DEF TypeOK
<1>2. /\ mails[r][v] <= grants[r][v] + faults
      /\ Owed(r, v) => mails[r][v] < grants[r][v] + faults
    BY DEF MailsFit
<1>3. grants'[r][v] >= grants[r][v] /\ faults' >= faults
    BY DEF KeepsFit
<1>4. CASE /\ mails'[r][v] = mails[r][v]
           /\ Owed(r, v)' => \/ Owed(r, v)
                             \/ grants'[r][v] > grants[r][v]
                             \/ faults' > faults
    BY <1>1, <1>2, <1>3, <1>4
<1>5. CASE mails'[r][v] = mails[r][v] + 1 /\ Owed(r, v) /\ ~Owed(r, v)'
    BY <1>1, <1>2, <1>3, <1>5
<1> QED
    BY <1>4, <1>5 DEF KeepsFit

(* A step that no mail and no approval comes with.                           *)
LEMMA NothingOwed ==
    ASSUME TypeOK, NEW r \in Reminders, NEW v \in Bodies,
           UNCHANGED <<grants, faults>>, mails'[r][v] = mails[r][v],
           Owed(r, v)' => Owed(r, v)
    PROVE  KeepsFit(r, v)
<1>1. grants[r][v] \in Nat /\ faults \in Nat
    BY ReminderAssumption DEF TypeOK
<1> QED
    BY <1>1 DEF KeepsFit

(* What is owed to a row does not change when the row and the runs do not.   *)
LEMMA OwedStays ==
    ASSUME NEW r, NEW v, status'[r] = status[r], body'[r] = body[r], run' = run
    PROVE  Owed(r, v)' = Owed(r, v)
<1>1. JustLeft(r, v)' = JustLeft(r, v) /\ Queued(r, v)' = Queued(r, v)
    BY DEF JustLeft, Queued
<1> QED
    BY <1>1 DEF Owed

LEMMA HeldRows ==
    ASSUME ApprovedInv, NEW r, NEW v, Queued(r, v) \/ JustLeft(r, v)
    PROVE  status[r] # "none" /\ channel[r] # "whatsapp"
BY DEF ApprovedInv, RunIsTrue, Held, Queued, JustLeft

LEMMA CaseFits ==
    ASSUME TypeInv, TypeInv', ApprovedInv, Case, NEW r \in Reminders, NEW v \in Bodies
    PROVE  KeepsFit(r, v)
<1>1. TypeOK /\ TypeOK'
    BY DEF TypeInv
<1>2. /\ UNCHANGED <<body, run, mails, faults>>
      /\ grants[r][v] \in Nat /\ grants'[r][v] \in Nat /\ faults \in Nat
    BY <1>1, ReminderAssumption DEF Case, CorrectAddress, CreateReminder, CreateAutoReminder,
        ValidateStep, ReopenStep, rows, TypeOK
<1>3. \/ status'[r] = status[r] /\ grants'[r] = grants[r]
      \/ status[r] = "none" /\ status'[r] = "to_approve"
      \/ status[r] = "none" /\ status'[r] = "approved" /\ grants'[r][body[r]] = 1
    <2>1. CASE UNCHANGED <<status, grants>>
        BY <2>1
    <2>2. ASSUME NEW q \in Reminders, NEW k \in Channels, CreateReminder(q, k)
          PROVE  \/ status'[r] = status[r] /\ grants'[r] = grants[r]
                 \/ status[r] = "none" /\ status'[r] = "to_approve"
        BY <1>1, <2>2 DEF CreateReminder, TypeOK
    <2>3. ASSUME NEW q \in Reminders, NEW b \in BOOLEAN, CreateAutoReminder(q, b)
          PROVE  \/ status'[r] = status[r] /\ grants'[r] = grants[r]
                 \/ status[r] = "none" /\ status'[r] = "to_approve"
                 \/ status[r] = "none" /\ status'[r] = "approved" /\ grants'[r][body[r]] = 1
        <3>1. CASE b = TRUE
            BY <1>1, <2>3, <3>1 DEF CreateAutoReminder, TypeOK
        <3>2. CASE b = FALSE
            BY <1>1, <2>3, <3>2 DEF CreateAutoReminder, TypeOK
        <3> QED
            BY <3>1, <3>2
    <2>4. \/ UNCHANGED <<status, grants>>
          \/ \E q \in Reminders, k \in Channels : CreateReminder(q, k)
          \/ \E q \in Reminders, b \in BOOLEAN : CreateAutoReminder(q, b)
        BY DEF Case, CorrectAddress, ValidateStep, ReopenStep, rows
    <2> QED
        BY <2>1, <2>2, <2>3, <2>4
<1>4. CASE status'[r] = status[r] /\ grants'[r] = grants[r]
    BY <1>2, <1>4, OwedStays DEF KeepsFit
<1>5. CASE status[r] = "none" /\ status'[r] \in {"to_approve", "approved"}
    <2>1. ~Queued(r, v) /\ ~Queued(r, v)' /\ grants[r][v] = 0
        BY <1>2, <1>5, HeldRows DEF Queued, ApprovedInv, NoneIsNew
    <2>2. Owed(r, v)' => status'[r] = "approved" /\ body[r] = v
        BY <1>2, <2>1 DEF Owed
    <2> QED
        BY <1>2, <1>3, <1>5, <2>1, <2>2 DEF KeepsFit
<1> QED
    BY <1>3, <1>4, <1>5

LEMMA ReadFits ==
    ASSUME TypeInv, NEW a \in Agents, Reads(a), NEW r \in Reminders, NEW v \in Bodies
    PROVE  KeepsFit(r, v)
<1>1. UNCHANGED <<rows, run, grants, mails, faults>>
    BY ReadFacts DEF TypeInv
<1> QED
    BY <1>1, OwedStays, NothingOwed DEF TypeInv, rows

LEMMA CommitFits ==
    ASSUME TypeInv, TypeInv', ApprovedInv, NEW a \in Agents, CommitHand(a),
           NEW r \in Reminders, NEW v \in Bodies
    PROVE  KeepsFit(r, v)
<1>1. TypeOK
    BY DEF TypeInv
<1>2. PICK w \in Hand : w = hand[a]
    BY <1>1 DEF TypeOK
<1>3. /\ UNCHANGED <<channel, run, faults>> /\ w.kind # "none"
      /\ status'[r] = IF r \in w.on /\ w.to # "same" THEN w.to ELSE status[r]
      /\ body'[r] = IF r \in w.on /\ w.kind = "edit" THEN w.text[r] + 1 ELSE body[r]
      /\ grants'[r][v] = IF r \in w.on /\ w.kind = "approve" /\ v = w.text[r]
                         THEN grants[r][v] + 1 ELSE grants[r][v]
      /\ mails'[r][v] = IF r \in w.on /\ w.kind = "mark" /\ v = w.text[r]
                        THEN mails[r][v] + 1 ELSE mails[r][v]
    BY <1>2, CommitFacts
<1>4. /\ w.to = "approved" => w.kind = "approve"
      /\ w.kind = "mark" => w.to = "sent"
      /\ w.kind = "edit" => w.to \in {"same", "to_approve"}
      /\ w.kind \in {"approve", "cancel"} => w.to # "same"
      /\ r \in w.on =>
            /\ w.text[r] = body[r]
            /\ w.kind = "edit" /\ w.to = "same" => status[r] # "approved"
            /\ w.kind = "mark" => status[r] = "approved" /\ channel[r] = "whatsapp"
    BY <1>2 DEF ApprovedInv, IsTrue
<1>5. /\ grants[r][v] \in Nat /\ mails[r][v] \in Nat /\ faults \in Nat
      /\ w.kind \in {"approve", "edit", "cancel", "mark"}
    BY <1>1, <1>3, ReminderAssumption DEF TypeOK, Hand
<1>6. Queued(r, v)' = Queued(r, v) /\ JustLeft(r, v)' = JustLeft(r, v)
    BY <1>3 DEF Queued, JustLeft
<1>7. CASE r \notin w.on
    <2>1. /\ status'[r] = status[r] /\ body'[r] = body[r] /\ grants'[r][v] = grants[r][v]
          /\ mails'[r][v] = mails[r][v] /\ run' = run /\ faults' = faults
        BY <1>3, <1>7
    <2> QED
        BY <1>5, <2>1, OwedStays DEF KeepsFit
<1>8. CASE r \in w.on /\ w.kind = "mark"
    <2>1. /\ status'[r] = "sent" /\ body'[r] = body[r] /\ grants'[r][v] = grants[r][v]
          /\ mails'[r][v] = IF v = body[r] THEN mails[r][v] + 1 ELSE mails[r][v]
          /\ status[r] = "approved" /\ ~Queued(r, v) /\ ~JustLeft(r, v)
        BY <1>3, <1>4, <1>8, HeldRows
    <2>2. ~Owed(r, v)' /\ (v = body[r] => Owed(r, v))
        BY <1>6, <2>1 DEF Owed
    <2> QED
        BY <1>3, <1>5, <2>1, <2>2 DEF KeepsFit
<1>9. CASE r \in w.on /\ w.kind # "mark"
    <2>1. mails'[r][v] = mails[r][v] /\ grants'[r][v] >= grants[r][v]
        BY <1>3, <1>5, <1>9
    <2>2. Owed(r, v)' => Owed(r, v) \/ grants'[r][v] > grants[r][v]
        <3> SUFFICES ASSUME Owed(r, v)', ~Queued(r, v)
                     PROVE  grants'[r][v] > grants[r][v]
            BY DEF Owed
        <3>1. status'[r] = "approved" /\ body'[r] = v
            BY <1>6 DEF Owed
        <3>2. w.kind = "approve" /\ w.text[r] = v
            BY <1>3, <1>4, <1>5, <1>9, <3>1
        <3> QED
            BY <1>3, <1>5, <1>9, <3>2
    <2> QED
        BY <1>3, <1>5, <2>1, <2>2 DEF KeepsFit
<1> QED
    BY <1>7, <1>8, <1>9

(* What a run holds is owed through that run alone.                          *)
LEMMA HeldByOne ==
    ASSUME RunsApart, NEW j \in Runs, \A i \in Runs \ {j} : run'[i] = run[i],
           NEW r \in Held(j), NEW v
    PROVE  /\ JustLeft(r, v) => r \in run[j].sent
           /\ r \notin run'[j].queue => ~Queued(r, v)'
BY DEF RunsApart, Held, JustLeft, Queued

(* The other runs stay as they are.                                          *)
LEMMA OthersStay ==
    ASSUME NEW j \in Runs, \A i \in Runs \ {j} : run'[i] = run[i],
           run'[j].text = run[j].text, NEW r, NEW v
    PROVE  /\ (r \in run'[j].sent <=> r \in run[j].sent)
                 => (JustLeft(r, v)' <=> JustLeft(r, v))
           /\ (r \in run'[j].queue => r \in run[j].queue)
                 => (Queued(r, v)' => Queued(r, v))
BY DEF JustLeft, Queued

(* What leaves was in the queue, and what is recorded is no longer due.      *)
LEMMA WorkFits ==
    ASSUME RunsApart, TypeInv, TypeInv', ApprovedInv, NEW j \in Runs, Works(j),
           NEW q \in Reminders, NEW v \in Bodies
    PROVE  KeepsFit(q, v)
<1>1. /\ TypeOK /\ TypeOK' /\ run[j].text \in [Reminders -> Bodies]
      /\ status \in [Reminders -> Status] /\ mails \in [Reminders -> [Bodies -> Nat]]
      /\ grants[q][v] \in Nat /\ faults \in Nat /\ mails[q][v] \in Nat
    BY ReminderAssumption DEF TypeInv, TypeOK, Work
<1>2. UNCHANGED <<channel, body, grants, faults>> /\ run'[j].text = run[j].text
    BY WorkWrites
<1>3. PICK r \in Reminders, m \in SUBSET Reminders :
          Decide(j, r) \/ RecordSent(j, r) \/ RecordSilent(j, r) \/ SendMail(j, m)
    BY DEF Works
<1>4. CASE Decide(j, r)
    <2>1. /\ RunMoves(j, run[j].doomed \ {r}, run[j].queue, run[j].sent) /\ mails' = mails
          /\ status' = [status EXCEPT ![r] = IF channel[r] = "lost" THEN @ ELSE "cancelled"]
        BY <1>1, <1>4, WorkMoves DEF Decide
    <2>2. (JustLeft(q, v)' <=> JustLeft(q, v)) /\ (Queued(q, v)' => Queued(q, v))
        BY <2>1, OthersStay DEF RunMoves
    <2>3. status'[q] = "approved" => status[q] = "approved"
        BY <1>1, <2>1
    <2>4. Owed(q, v)' => Owed(q, v)
        BY <1>2, <2>2, <2>3 DEF Owed
    <2> QED
        BY <1>1, <1>2, <2>1, <2>4, NothingOwed
<1>5. CASE RecordSent(j, r)
    <2>1. /\ RunMoves(j, run[j].doomed, run[j].queue, run[j].sent \ {r}) /\ mails' = mails
          /\ status' = [status EXCEPT ![r] = "sent"]
        BY <1>1, <1>5, WorkMoves DEF RecordSent
    <2>2. (Queued(q, v)' => Queued(q, v)) /\ (q # r => (JustLeft(q, v)' <=> JustLeft(q, v)))
        BY <2>1, OthersStay DEF RunMoves
    <2>3. /\ q = r => status'[q] = "sent"
          /\ q # r => status'[q] = status[q]
        BY <1>1, <2>1
    <2>4. Owed(q, v)' => Owed(q, v)
        BY <1>2, <2>2, <2>3 DEF Owed
    <2> QED
        BY <1>1, <1>2, <2>1, <2>4, NothingOwed
<1>6. CASE RecordSilent(j, r)
    <2>1. /\ RunMoves(j, run[j].doomed, run[j].queue \ {r}, run[j].sent)
          /\ r \in run[j].queue /\ mails' = Counted(mails, {r}, run[j].text)
          /\ status' = [status EXCEPT ![r] = "sent"]
        BY <1>1, <1>6, WorkMoves DEF RecordSilent
    <2>2. mails'[q][v] = IF q = r /\ v = run[j].text[r] THEN mails[q][v] + 1 ELSE mails[q][v]
        <3>1. mails'[q][v] = IF q \in {r} /\ v = run[j].text[q]
                             THEN mails[q][v] + 1 ELSE mails[q][v]
            BY <1>1, <2>1, CountedFacts
        <3> QED
            BY <3>1
    <2>3. CASE q = r
        <3>1. ~Queued(q, v)' /\ status'[q] = "sent"
            <4>1. q \in Held(j) /\ q \notin run'[j].queue
                BY <2>1, <2>3 DEF RunMoves, Held
            <4> QED
                BY <1>1, <2>1, <2>3, <4>1, HeldByOne DEF RunMoves
        <3>2. ~Owed(q, v)'
            BY <3>1 DEF Owed
        <3>3. v = run[j].text[r] => Owed(q, v)
            BY <2>1, <2>3 DEF Owed, Queued
        <3> QED
            BY <1>1, <1>2, <2>2, <2>3, <3>2, <3>3 DEF KeepsFit
    <2>4. CASE q # r
        <3>1. (Queued(q, v)' => Queued(q, v)) /\ (JustLeft(q, v)' <=> JustLeft(q, v))
            BY <2>1, <2>4, OthersStay DEF RunMoves
        <3>2. status'[q] = status[q] /\ mails'[q][v] = mails[q][v]
            BY <1>1, <2>1, <2>2, <2>4
        <3>3. Owed(q, v)' => Owed(q, v)
            BY <1>2, <3>1, <3>2 DEF Owed
        <3> QED
            BY <1>1, <1>2, <3>2, <3>3, NothingOwed
    <2> QED
        BY <2>3, <2>4
<1>7. CASE SendMail(j, m)
    <2>1. /\ RunMoves(j, run[j].doomed, run[j].queue \ m, m) /\ run[j].sent = {}
          /\ mails' = Counted(mails, m, run[j].text) /\ status' = status
          /\ m \subseteq run[j].queue
        BY <1>1, <1>7, SendFacts
    <2>2. mails'[q][v] = IF q \in m /\ v = run[j].text[q] THEN mails[q][v] + 1 ELSE mails[q][v]
        BY <1>1, <2>1, CountedFacts
    <2>3. q \in m => q \in Held(j) /\ ~JustLeft(q, v)
        BY <2>1, HeldByOne DEF RunMoves, Held
    <2>4. CASE q \in m /\ v = run[j].text[q]
        <3>1. JustLeft(q, v)'
            BY <2>1, <2>4 DEF RunMoves, JustLeft
        <3>2. Queued(q, v)
            BY <2>1, <2>4 DEF Queued
        <3>3. ~Queued(q, v)'
            BY <2>1, <2>3, <2>4, HeldByOne DEF RunMoves
        <3> QED
            BY <1>1, <1>2, <2>2, <2>4, <3>1, <3>2, <3>3 DEF KeepsFit, Owed
    <2>5. CASE ~(q \in m /\ v = run[j].text[q])
        <3>1. Queued(q, v)' => Queued(q, v)
            BY <2>1, OthersStay DEF RunMoves
        <3>2. mails'[q][v] = mails[q][v]
            BY <2>2, <2>5
        <3>3. JustLeft(q, v) => JustLeft(q, v)'
            BY <2>1, <2>3, OthersStay DEF RunMoves
        <3>4. Owed(q, v)' => Owed(q, v)
            BY <1>2, <2>1, <3>1, <3>3 DEF Owed
        <3> QED
            BY <1>1, <1>2, <2>1, <3>2, <3>4, NothingOwed
    <2> QED
        BY <2>4, <2>5
<1> QED
    BY <1>3, <1>4, <1>5, <1>6, <1>7

LEMMA RunFits ==
    ASSUME RunsApart, RunsApart', TypeInv, TypeInv', ApprovedInv, NEW j \in Runs,
           SelectDue(j) \/ Works(j) \/ Stops(j), NEW r \in Reminders, NEW v \in Bodies
    PROVE  KeepsFit(r, v)
<1>1. TypeOK /\ grants[r][v] \in Nat /\ faults \in Nat
    BY ReminderAssumption DEF TypeInv, TypeOK
<1>2. CASE SelectDue(j)
    <2>1. /\ ~run[j].busy /\ UNCHANGED <<rows, grants, mails, faults>> /\ run'[j].sent = {}
          /\ \A i \in Runs \ {j} : run'[i] = run[i]
          /\ \A q \in run'[j].queue : status[q] = "approved" /\ run'[j].text[q] = body[q]
        BY <1>1, <1>2, SelectFacts
    <2>2. Held(j) = {}
        BY <2>1 DEF ApprovedInv, RunIsTrue
    <2>3. CASE r \in run'[j].queue
        <3>1. ~JustLeft(r, v)
            BY <2>1, <2>2, <2>3 DEF RunsApart, Held, JustLeft
        <3>2. Queued(r, v)' => Queued(r, v) \/ (status[r] = "approved" /\ body[r] = v)
            <4> SUFFICES ASSUME NEW i \in Runs, r \in run'[i].queue, run'[i].text[r] = v
                         PROVE  Queued(r, v) \/ (status[r] = "approved" /\ body[r] = v)
                BY DEF Queued
            <4>1. CASE i = j
                BY <2>1, <4>1
            <4>2. CASE i # j
                BY <2>1, <4>2 DEF Queued
            <4> QED
                BY <4>1, <4>2
        <3>3. Owed(r, v)' => Owed(r, v)
            BY <2>1, <3>1, <3>2 DEF Owed, rows
        <3> QED
            BY <1>1, <2>1, <3>3, NothingOwed
    <2>4. CASE r \notin run'[j].queue
        <3>1. (JustLeft(r, v) => JustLeft(r, v)') /\ (Queued(r, v)' => Queued(r, v))
            BY <2>1, <2>2, <2>4 DEF Held, JustLeft, Queued
        <3>2. Owed(r, v)' => Owed(r, v)
            BY <2>1, <3>1 DEF Owed, rows
        <3> QED
            BY <1>1, <2>1, <3>2, NothingOwed
    <2> QED
        BY <2>3, <2>4
<1>3. CASE Stops(j)
    <2>1. /\ run'[j] = NoWork /\ UNCHANGED <<rows, grants, mails>>
          /\ \A i \in Runs \ {j} : run'[i] = run[i]
          /\ \/ faults' = faults /\ run[j].sent = {}
             \/ faults' = faults + 1
        BY <1>1, <1>3, StopFacts
    <2>2. Queued(r, v)' => Queued(r, v)
        BY <2>1 DEF NoWork, Queued
    <2>3. CASE faults' = faults /\ run[j].sent = {}
        <3>1. JustLeft(r, v) => JustLeft(r, v)'
            BY <2>1, <2>3 DEF JustLeft
        <3>2. Owed(r, v)' => Owed(r, v)
            BY <2>1, <2>2, <3>1 DEF Owed, rows
        <3> QED
            BY <1>1, <2>1, <2>3, <3>2, NothingOwed
    <2>4. CASE faults' = faults + 1
        BY <1>1, <2>1, <2>4 DEF KeepsFit
    <2> QED
        BY <2>1, <2>3, <2>4
<1> QED
    BY <1>2, <1>3, WorkFits

(* "two overlapping ticks never process the same row twice"                  *)
(* (dispatch_due_reminders): as long as that is so, and no two handlers hold *)
(* one reminder either, a version leaves at most once for each of its        *)
(* approvals, but for the mails that a crash of a run left unrecorded.       *)
THEOREM OneMailForOneApproval ==
    Spec /\ []HandsApart /\ []RunsApart => []OneMailPerApproval
<1>1. Init => MailsFit
    <2>1. ASSUME Init PROVE MailsFit
        <3> SUFFICES ASSUME NEW r \in Reminders, NEW v \in Bodies
                     PROVE  mails[r][v] = 0 /\ grants[r][v] = 0 /\ faults = 0 /\ ~Owed(r, v)
            BY DEF MailsFit
        <3> QED
            BY <2>1 DEF Init, Owed, Queued, NoWork
    <2> QED
        BY <2>1
<1>2. (TypeInv /\ TypeInv' /\ ApprovedInv /\ MailsFit /\ [Next]_vars)
          /\ RunsApart /\ RunsApart' => MailsFit'
    <2> SUFFICES ASSUME TypeInv, TypeInv', ApprovedInv, MailsFit, [Next]_vars,
                        RunsApart, RunsApart'
                 PROVE  MailsFit'
        OBVIOUS
    <2>1. TypeOK /\ TypeOK'
        BY DEF TypeInv
    <2>2. ASSUME NEW r \in Reminders, NEW v \in Bodies PROVE KeepsFit(r, v)
        <3>1. CASE Case
            BY <3>1, CaseFits
        <3>2. ASSUME NEW a \in Agents, Agency(a) PROVE KeepsFit(r, v)
            BY <3>2, ReadFits, CommitFits DEF Agency, Reads
        <3>3. ASSUME NEW j \in Runs, Dispatch(j) \/ Crash(j) PROVE KeepsFit(r, v)
            BY <3>3, RunTypes, RunFits
        <3>4. CASE UNCHANGED vars
            BY <2>1, <3>4, OwedStays, NothingOwed DEF vars
        <3> QED
            BY <3>1, <3>2, <3>3, <3>4 DEF Next
    <2> QED
        BY <2>1, <2>2, FitIsKept
<1>3. MailsFit => OneMailPerApproval
    BY DEF MailsFit, OneMailPerApproval
<1> QED
    BY <1>1, <1>2, <1>3, TypeAlways, ApprovedAlways, PTL DEF Spec

-----------------------------------------------------------------------------
(* What was sent or cancelled stays so, as long as no two units of work hold *)
(* one reminder: what they hold is then open, and only they change a status. *)
RowsApart == HandsApart /\ RunsApart /\ RowsFree

OpenHand(w) == \A r \in w.on : status[r] \in {"to_approve", "approved"}

OpenRun(j) ==
    /\ \A r \in Held(j) : status[r] = "approved"
    /\ run[j].doomed \cap run[j].queue = {}
    /\ run[j].sent \cap (run[j].doomed \cup run[j].queue) = {}

OpenInv ==
    /\ \A a \in Agents : OpenHand(hand[a])
    /\ \A j \in Runs : OpenRun(j)

Final == \A r \in Reminders : status[r] \in {"sent", "cancelled"} => status'[r] = status[r]

LEMMA CaseIsFinal ==
    ASSUME TypeOK, OpenInv, Case
    PROVE  OpenInv' /\ Final
<1>1. UNCHANGED <<run, hand>>
    BY DEF Case, CorrectAddress, CreateReminder, CreateAutoReminder, ValidateStep, ReopenStep
<1>2. \A r \in Reminders : status'[r] = status[r] \/ status[r] = "none"
    <2>1. ASSUME NEW q \in Reminders, NEW k \in Channels, CreateReminder(q, k)
          PROVE  \A r \in Reminders : status'[r] = status[r] \/ status[r] = "none"
        BY <2>1 DEF CreateReminder, TypeOK
    <2>2. ASSUME NEW q \in Reminders, NEW b \in BOOLEAN, CreateAutoReminder(q, b)
          PROVE  \A r \in Reminders : status'[r] = status[r] \/ status[r] = "none"
        BY <2>2 DEF CreateAutoReminder, TypeOK
    <2>3. \/ status' = status
          \/ \E q \in Reminders, k \in Channels : CreateReminder(q, k)
          \/ \E q \in Reminders, b \in BOOLEAN : CreateAutoReminder(q, b)
        BY DEF Case, CorrectAddress, ValidateStep, ReopenStep, rows
    <2> QED
        BY <2>1, <2>2, <2>3
<1>3. ASSUME NEW a \in Agents PROVE OpenHand(hand[a])'
    <2>1. OpenHand(hand[a]) /\ hand[a].on \subseteq Reminders
        BY DEF OpenInv, TypeOK, Hand
    <2> QED
        BY <1>1, <1>2, <2>1 DEF OpenHand
<1>4. ASSUME NEW j \in Runs PROVE OpenRun(j)'
    <2>1. OpenRun(j) /\ Held(j) \subseteq Reminders /\ Held(j)' = Held(j)
        BY <1>1 DEF OpenInv, TypeOK, Work, Held
    <2> QED
        BY <1>1, <1>2, <2>1 DEF OpenRun
<1> QED
    BY <1>2, <1>3, <1>4 DEF OpenInv, Final

(* A handler reads what is still to approve, or to send.                     *)
LEMMA ReadsOpen ==
    ASSUME TypeOK, NEW a \in Agents, Reads(a)
    PROVE  \E w : /\ hand' = [hand EXCEPT ![a] = w] /\ OpenHand(w)
<1>1. ASSUME NEW S, NEW kind, NEW to, Read(a, kind, S, to),
             \A r \in S : status[r] \in {"to_approve", "approved"}
      PROVE  \E w : /\ hand' = [hand EXCEPT ![a] = w] /\ OpenHand(w)
    <2> DEFINE w == [kind |-> kind, on |-> S, to |-> to, text |-> Texts(S)]
    <2>1. hand' = [hand EXCEPT ![a] = w] /\ w.on = S
        BY <1>1 DEF Read
    <2> HIDE DEF w
    <2>2. OpenHand(w)
        BY <1>1, <2>1 DEF OpenHand
    <2> QED
        BY <2>1, <2>2
<1>2. ASSUME NEW S \in SUBSET Reminders, BulkApprove(a, S) \/ BulkCancel(a, S)
      PROVE  \E w : /\ hand' = [hand EXCEPT ![a] = w] /\ OpenHand(w)
    BY <1>1, <1>2 DEF BulkApprove, BulkCancel
<1>3. ASSUME NEW r \in Reminders,
             ApproveReminder(a, r) \/ CancelReminder(a, r) \/ UpdateReminder(a, r) \/ MarkSent(a, r)
      PROVE  \E w : /\ hand' = [hand EXCEPT ![a] = w] /\ OpenHand(w)
    BY <1>1, <1>3 DEF ApproveReminder, CancelReminder, UpdateReminder, MarkSent
<1> QED
    BY <1>2, <1>3 DEF Reads

LEMMA AgencyIsFinal ==
    ASSUME TypeInv, RowsApart, OpenInv, NEW a \in Agents, Agency(a)
    PROVE  OpenInv' /\ Final
<1>1. TypeOK
    BY DEF TypeInv
<1>2. CASE Reads(a)
    <2>1. UNCHANGED <<status, run>>
        BY <1>1, <1>2, ReadFacts DEF rows
    <2>2. PICK w : hand' = [hand EXCEPT ![a] = w] /\ OpenHand(w)
        BY <1>1, <1>2, ReadsOpen
    <2>3. \A b \in Agents : OpenHand(hand'[b])
        BY <1>1, <2>2 DEF OpenInv, TypeOK
    <2>4. ASSUME NEW b \in Agents PROVE OpenHand(hand[b])'
        BY <2>1, <2>3 DEF OpenHand
    <2>5. ASSUME NEW j \in Runs PROVE OpenRun(j)'
        BY <2>1 DEF OpenInv, OpenRun, Held
    <2> QED
        BY <2>1, <2>4, <2>5 DEF OpenInv, Final
<1>3. CASE CommitHand(a)
    <2>1. PICK w \in Hand : w = hand[a]
        BY <1>1 DEF TypeOK
    <2>2. /\ hand' = [hand EXCEPT ![a] = NoHand] /\ run' = run
          /\ \A r \in Reminders :
                status'[r] = IF r \in w.on /\ w.to # "same" THEN w.to ELSE status[r]
        BY <1>3, <2>1, CommitFacts
    <2>3. \A r \in Reminders : r \notin w.on => status'[r] = status[r]
        BY <2>2
    <2>4. OpenHand(w)
        BY <2>1 DEF OpenInv
    <2>5. Final
        BY <2>3, <2>4 DEF Final, OpenHand
    <2>6. ASSUME NEW b \in Agents PROVE OpenHand(hand[b])'
        <3>1. CASE b = a
            BY <1>1, <2>2, <3>1 DEF OpenHand, NoHand, TypeOK
        <3>2. CASE b # a
            <4>1. hand'[b] = hand[b] /\ hand[b].on \subseteq Reminders
                BY <1>1, <2>2, <3>2 DEF TypeOK, Hand
            <4>2. hand[b].on \cap w.on = {} /\ OpenHand(hand[b])
                BY <2>1, <3>2 DEF RowsApart, HandsApart, OpenInv
            <4>3. \A r \in hand[b].on : status'[r] = status[r]
                BY <2>3, <4>1, <4>2
            <4> QED
                BY <4>1, <4>2, <4>3 DEF OpenHand
        <3> QED
            BY <3>1, <3>2
    <2>7. ASSUME NEW j \in Runs PROVE OpenRun(j)'
        <3>1. w.on \cap Held(j) = {} /\ OpenRun(j) /\ Held(j) \subseteq Reminders
            BY <1>1, <2>1 DEF RowsApart, RowsFree, OpenInv, TypeOK, Work, Held
        <3>2. Held(j)' = Held(j) /\ \A r \in Held(j) : status'[r] = status[r]
            BY <2>2, <2>3, <3>1 DEF Held
        <3> QED
            BY <2>2, <3>1, <3>2 DEF OpenRun
    <2> QED
        BY <2>5, <2>6, <2>7 DEF OpenInv
<1> QED
    BY <1>2, <1>3 DEF Agency, Reads

(* A step of a run changes the status of one reminder at most, which it      *)
(* holds and lets go.                                                        *)
LetsGo(j) ==
    /\ UNCHANGED hand /\ \A i \in Runs \ {j} : run'[i] = run[i]
    /\ Held(j)' \subseteq Held(j) /\ OpenRun(j)'
    /\ \A r \in Reminders : \/ status'[r] = status[r]
                            \/ r \in Held(j) /\ r \notin Held(j)'

LEMMA LettingGo ==
    ASSUME TypeOK, RowsApart, OpenInv, NEW j \in Runs, LetsGo(j)
    PROVE  OpenInv' /\ Final
<1>1. \A r \in Held(j) : status[r] = "approved"
    BY DEF OpenInv, OpenRun
<1>2. Final
    BY <1>1 DEF Final, LetsGo
<1>3. ASSUME NEW a \in Agents PROVE OpenHand(hand[a])'
    <2>1. /\ hand[a].on \cap Held(j) = {} /\ OpenHand(hand[a]) /\ hand[a].on \subseteq Reminders
        BY DEF RowsApart, RowsFree, OpenInv, TypeOK, Hand
    <2>2. \A r \in hand[a].on : status'[r] = status[r]
        BY <2>1 DEF LetsGo
    <2> QED
        BY <2>1, <2>2 DEF OpenHand, LetsGo
<1>4. ASSUME NEW i \in Runs, i # j PROVE OpenRun(i)'
    <2>1. /\ Held(i) \cap Held(j) = {} /\ OpenRun(i) /\ Held(i) \subseteq Reminders
        BY <1>4 DEF RowsApart, RunsApart, OpenInv, TypeOK, Work, Held
    <2>2. run'[i] = run[i] /\ Held(i)' = Held(i)
        BY <1>4 DEF LetsGo, Held
    <2>3. \A r \in Held(i) : status'[r] = status[r]
        BY <2>1 DEF LetsGo
    <2> QED
        BY <2>1, <2>2, <2>3 DEF OpenRun
<1>5. OpenRun(j)'
    BY DEF LetsGo
<1> QED
    BY <1>2, <1>3, <1>4, <1>5 DEF OpenInv

LEMMA WorkLetsGo ==
    ASSUME TypeInv, OpenInv, NEW j \in Runs, Works(j)
    PROVE  LetsGo(j)
<1>1. /\ TypeOK /\ OpenRun(j) /\ Held(j) \subseteq Reminders
      /\ status \in [Reminders -> Status]
    BY DEF TypeInv, TypeOK, Work, OpenInv, Held
<1>2. UNCHANGED hand
    BY DEF Works, Decide, RecordSent, RecordSilent, SendMail
<1>3. PICK r \in Reminders, m \in SUBSET Reminders :
          Decide(j, r) \/ RecordSent(j, r) \/ RecordSilent(j, r) \/ SendMail(j, m)
    BY DEF Works
<1>4. ASSUME NEW doomed, NEW queue, NEW sent, RunMoves(j, doomed, queue, sent),
             doomed \subseteq run[j].doomed, queue \subseteq run[j].queue,
             sent \subseteq run[j].sent,
             \A q \in Reminders : \/ status'[q] = status[q]
                                  \/ q \in Held(j) /\ q \notin doomed \cup queue \cup sent
      PROVE  LetsGo(j)
    <2>1. /\ run'[j].doomed = doomed /\ run'[j].queue = queue /\ run'[j].sent = sent
          /\ \A i \in Runs \ {j} : run'[i] = run[i]
        BY <1>4 DEF RunMoves
    <2>2. Held(j)' = doomed \cup queue \cup sent /\ Held(j)' \subseteq Held(j)
        BY <1>4, <2>1 DEF Held
    <2>3. \A q \in Held(j)' : status'[q] = "approved"
        BY <1>1, <1>4, <2>2 DEF OpenRun
    <2>4. /\ run'[j].doomed \cap run'[j].queue = {}
          /\ run'[j].sent \cap (run'[j].doomed \cup run'[j].queue) = {}
        BY <1>1, <1>4, <2>1 DEF OpenRun
    <2>5. OpenRun(j)'
        BY <2>3, <2>4 DEF OpenRun
    <2> QED
        BY <1>2, <1>4, <2>1, <2>2, <2>5 DEF LetsGo
<1>5. CASE Decide(j, r)
    <2>1. /\ RunMoves(j, run[j].doomed \ {r}, run[j].queue, run[j].sent) /\ r \in run[j].doomed
          /\ status' = [status EXCEPT ![r] = IF channel[r] = "lost" THEN @ ELSE "cancelled"]
        BY <1>1, <1>5, WorkMoves DEF Decide
    <2>2. \A q \in Reminders :
              \/ status'[q] = status[q]
              \/ /\ q \in Held(j)
                 /\ q \notin (run[j].doomed \ {r}) \cup run[j].queue \cup run[j].sent
        BY <1>1, <2>1 DEF Held, OpenRun
    <2> QED
        BY <1>4, <2>1, <2>2
<1>6. CASE RecordSent(j, r)
    <2>1. /\ RunMoves(j, run[j].doomed, run[j].queue, run[j].sent \ {r}) /\ r \in run[j].sent
          /\ status' = [status EXCEPT ![r] = "sent"]
        BY <1>1, <1>6, WorkMoves DEF RecordSent
    <2>2. \A q \in Reminders :
              \/ status'[q] = status[q]
              \/ /\ q \in Held(j)
                 /\ q \notin run[j].doomed \cup run[j].queue \cup (run[j].sent \ {r})
        BY <1>1, <2>1 DEF Held, OpenRun
    <2> QED
        BY <1>4, <2>1, <2>2
<1>7. CASE RecordSilent(j, r)
    <2>1. /\ RunMoves(j, run[j].doomed, run[j].queue \ {r}, run[j].sent) /\ r \in run[j].queue
          /\ status' = [status EXCEPT ![r] = "sent"]
        BY <1>1, <1>7, WorkMoves DEF RecordSilent
    <2>2. \A q \in Reminders :
              \/ status'[q] = status[q]
              \/ /\ q \in Held(j)
                 /\ q \notin run[j].doomed \cup (run[j].queue \ {r}) \cup run[j].sent
        BY <1>1, <2>1 DEF Held, OpenRun
    <2> QED
        BY <1>4, <2>1, <2>2
<1>8. CASE SendMail(j, m)
    <2>1. /\ RunMoves(j, run[j].doomed, run[j].queue \ m, m)
          /\ status' = status /\ m \subseteq run[j].queue
        BY <1>1, <1>8, SendFacts
    <2>2. /\ run'[j].doomed = run[j].doomed /\ run'[j].queue = run[j].queue \ m
          /\ run'[j].sent = m /\ \A i \in Runs \ {j} : run'[i] = run[i]
        BY <2>1 DEF RunMoves
    <2>3. Held(j)' \subseteq Held(j)
        BY <2>1, <2>2 DEF Held
    <2>4. OpenRun(j)'
        BY <1>1, <2>1, <2>2, <2>3 DEF OpenRun
    <2> QED
        BY <1>2, <2>1, <2>2, <2>3, <2>4 DEF LetsGo
<1> QED
    BY <1>3, <1>5, <1>6, <1>7, <1>8

LEMMA RunIsFinal ==
    ASSUME TypeInv, RowsApart, OpenInv, NEW j \in Runs, Dispatch(j) \/ Crash(j)
    PROVE  OpenInv' /\ Final
<1>1. TypeOK /\ (SelectDue(j) \/ Works(j) \/ Stops(j))
    BY RunTypes DEF TypeInv
<1>2. CASE Works(j)
    BY <1>1, <1>2, WorkLetsGo, LettingGo
<1>3. CASE Stops(j)
    <2>1. /\ UNCHANGED <<status, hand>> /\ run'[j] = NoWork
          /\ \A i \in Runs \ {j} : run'[i] = run[i]
        BY <1>1, <1>3, StopFacts DEF rows
    <2>2. Held(j)' = {} /\ OpenRun(j)'
        BY <2>1 DEF Held, OpenRun, NoWork
    <2>3. LetsGo(j)
        BY <2>1, <2>2 DEF LetsGo
    <2> QED
        BY <1>1, <2>3, LettingGo
<1>4. CASE SelectDue(j)
    <2>1. /\ UNCHANGED <<status, hand>> /\ run'[j].sent = {}
          /\ \A i \in Runs \ {j} : run'[i] = run[i]
          /\ \A r \in run'[j].doomed \cup run'[j].queue : status[r] = "approved"
        BY <1>1, <1>4, SelectFacts DEF rows
    <2>2. run'[j].doomed \cap run'[j].queue = {}
        BY <1>1, <1>4, SelectSplits
    <2>3. OpenRun(j)'
        BY <2>1, <2>2 DEF OpenRun, Held
    <2>4. ASSUME NEW i \in Runs, i # j PROVE OpenRun(i)'
        BY <2>1, <2>4 DEF OpenInv, OpenRun, Held
    <2>5. ASSUME NEW a \in Agents PROVE OpenHand(hand[a])'
        BY <2>1 DEF OpenInv, OpenHand
    <2> QED
        BY <2>1, <2>3, <2>4, <2>5 DEF OpenInv, Final
<1> QED
    BY <1>1, <1>2, <1>3, <1>4

(* "TO_APPROVE -> APPROVED -> SENT, or CANCELLED" (Reminder): what was sent  *)
(* or cancelled stays so, through any number of runs, handlers and crashes,  *)
(* as long as no two of them hold one reminder at once.                      *)
THEOREM SentStaysSent == Spec /\ []RowsApart => TerminalIsFinal
<1>1. Init => OpenInv
    BY DEF Init, OpenInv, OpenHand, OpenRun, Held, NoHand, NoWork
<1>2. TypeInv /\ RowsApart /\ OpenInv /\ [Next]_vars => OpenInv' /\ Final
    <2> SUFFICES ASSUME TypeInv, RowsApart, OpenInv, [Next]_vars PROVE OpenInv' /\ Final
        OBVIOUS
    <2>1. TypeOK
        BY DEF TypeInv
    <2>2. CASE Case
        BY <2>1, <2>2, CaseIsFinal
    <2>3. ASSUME NEW a \in Agents, Agency(a) PROVE OpenInv' /\ Final
        BY <2>3, AgencyIsFinal
    <2>4. ASSUME NEW j \in Runs, Dispatch(j) \/ Crash(j) PROVE OpenInv' /\ Final
        BY <2>4, RunIsFinal
    <2>5. CASE UNCHANGED vars
        BY <2>5 DEF vars, OpenInv, OpenHand, OpenRun, Held, Final
    <2> QED
        BY <2>2, <2>3, <2>4, <2>5 DEF Next
<1>3. Final => [Final]_vars
    OBVIOUS
<1> QED
    BY <1>1, <1>2, <1>3, TypeAlways, PTL DEF Spec, TerminalIsFinal, Final
=================================================================================
