---------------------------- MODULE ReminderDispatch ----------------------------
(***************************************************************************)
(* The reminders of one case and the job that sends them                   *)
(* (src/reminders/reminders_manager.py, reminders_jobs.py), with the job   *)
(* wrapper it runs in (src/core/job_wrapper.py).  A run (a tick of the     *)
(* scheduler or a manual trigger) is ONE session that selects its rows FOR *)
(* UPDATE SKIP LOCKED, and whose log() COMMITS: the first line it logs     *)
(* releases every row lock while the run keeps working on what it read.    *)
(* An agent's handler reads a row without a lock and writes the columns it *)
(* changes at its commit, which waits for the lock of the row.             *)
(***************************************************************************)
EXTENDS Integers, FiniteSets

CONSTANTS
    Runs, NoRun,  \* overlapping runs of the dispatch job
    Agents,       \* overlapping handlers of the agency
    Reminders,
    Steps, NoStep,
    StepOf,       \* the step a reminder is pinned on
    Rejected,     \* reminders whose address the mail provider refuses at first
    MaxEdits,     \* bound on the edits of a reminder
    MaxFaults     \* bound on crashes of a run

(* How a reminder leaves.  auto: a follow-up, one mail for all those of a case and recipient;      *)
(* hand: a hand-written one, or an escalation, a mail of its own; silent:  *)
(* in the client's space only; whatsapp: sent by hand; lost: no address    *)
(* and no case owner to escalate to.                                       *)
Channels == {"auto", "hand", "silent", "whatsapp", "lost"}

ASSUME ReminderAssumption ==
    /\ NoRun \notin Runs /\ NoStep \notin Steps
    /\ StepOf \in [Reminders -> Steps \cup {NoStep}]
    /\ Rejected \subseteq Reminders
    /\ MaxEdits \in Nat /\ MaxFaults \in Nat

Bodies == 0..MaxEdits

VARIABLES
    status,  \* reminder.status, "none" before the row exists
    channel, \* how it leaves, settled when it is created
    body,    \* version of the text, recipient and date of the reminder
    lock,    \* row lock held by the transaction of a run
    done,    \* steps validated
    run,     \* what each run holds in its session
    hand,    \* what each handler is about to write
    grants,  \* approvals of each version, by an agent or by the agency's regime
    mails,   \* times each version left
    refused, \* addresses nobody has corrected yet
    faults

vars == <<status, channel, body, lock, done, run, hand, grants, mails, refused, faults>>
rows == <<status, channel, body>>

Status == {"none", "to_approve", "approved", "sent", "cancelled"}

(* What a session has read of the rows S. *)
Texts(S) == [r \in Reminders |-> IF r \in S THEN body[r] ELSE 0]

(* doomed: rows still to be cancelled or logged as unreachable; queue: rows *)
(* still to send; sent: members of the mail that just left, still to be     *)
(* recorded; text: the versions the run read.                               *)
NoWork == [busy |-> FALSE, doomed |-> {}, queue |-> {}, sent |-> {},
           text |-> [r \in Reminders |-> 0]]
Work == [busy: BOOLEAN, doomed: SUBSET Reminders, queue: SUBSET Reminders,
         sent: SUBSET Reminders, text: [Reminders -> Bodies]]

(* to: the status it writes ("same" for an edit that leaves it alone).     *)
NoHand == [kind |-> "none", on |-> {}, to |-> "same",
           text |-> [r \in Reminders |-> 0]]
Hand == [kind: {"none", "approve", "edit", "cancel", "mark"}, on: SUBSET Reminders,
         to: {"same"} \cup Status, text: [Reminders -> Bodies]]

Init ==
    /\ status = [r \in Reminders |-> "none"]
    /\ channel = [r \in Reminders |-> "none"]
    /\ body = [r \in Reminders |-> 0]
    /\ lock = [r \in Reminders |-> NoRun]
    /\ done = {}
    /\ run = [j \in Runs |-> NoWork]
    /\ hand = [a \in Agents |-> NoHand]
    /\ grants = [r \in Reminders |-> [v \in Bodies |-> 0]]
    /\ mails = [r \in Reminders |-> [v \in Bodies |-> 0]]
    /\ refused = Rejected
    /\ faults = 0

-----------------------------------------------------------------------------
(* Creation, and the steps of the case.                                    *)

(* A hand-written reminder always waits for its approval.                  *)
CreateReminder(r, k) ==
    /\ status[r] = "none"
    /\ channel' = [channel EXCEPT ![r] = k]
    /\ status' = [status EXCEPT ![r] = "to_approve"]
    /\ UNCHANGED <<body, lock, done, run, hand, grants, mails, refused, faults>>

(* create_auto_reminders, on a step that is not done: the agency's setting *)
(* says whether the follow-up waits for an approval.  The unique index on  *)
(* (step, threshold, recipient) is what makes it one row.                  *)
CreateAutoReminder(r, approved) ==
    /\ status[r] = "none"
    /\ StepOf[r] \in Steps \ done
    /\ channel' = [channel EXCEPT ![r] = "auto"]
    /\ status' = [status EXCEPT ![r] = IF approved THEN "approved" ELSE "to_approve"]
    /\ grants' = [grants EXCEPT ![r][body[r]] = IF approved THEN 1 ELSE 0]
    /\ UNCHANGED <<body, lock, done, run, hand, mails, refused, faults>>

ValidateStep(s) ==
    /\ s \notin done
    /\ done' = done \cup {s}
    /\ UNCHANGED <<rows, lock, run, hand, grants, mails, refused, faults>>

ReopenStep(s) ==
    /\ s \in done
    /\ done' = done \ {s}
    /\ UNCHANGED <<rows, lock, run, hand, grants, mails, refused, faults>>

(* Somebody corrects the address, outside of the reminders. *)
CorrectAddress(r) ==
    /\ r \in refused
    /\ refused' = refused \ {r}
    /\ UNCHANGED <<rows, lock, done, run, hand, grants, mails, faults>>

-----------------------------------------------------------------------------
(* The agency.                                                             *)

TargetsDoneStep(r) == StepOf[r] \in done

Read(a, kind, S, to) ==
    /\ hand[a] = NoHand
    /\ S # {}
    /\ hand' = [hand EXCEPT ![a] = [kind |-> kind, on |-> S, to |-> to, text |-> Texts(S)]]
    /\ UNCHANGED <<rows, lock, done, run, grants, mails, refused, faults>>

(* bulk_approve: what is not approvable, or targets a done step, is        *)
(* ignored.                                                                *)
BulkApprove(a, S) ==
    Read(a, "approve",
         {r \in S : status[r] = "to_approve" /\ ~TargetsDoneStep(r)}, "approved")

ApproveReminder(a, r) ==
    /\ status[r] = "to_approve"
    /\ ~TargetsDoneStep(r)
    /\ Read(a, "approve", {r}, "approved")

BulkCancel(a, S) ==
    Read(a, "cancel", {r \in S : status[r] \in {"to_approve", "approved"}}, "cancelled")

CancelReminder(a, r) ==
    /\ status[r] \in {"to_approve", "approved"}
    /\ Read(a, "cancel", {r}, "cancelled")

(* An edited reminder that was approved has to be approved again. *)
\* Mutant: the approval of the old text is kept.
UpdateReminder_KeepsApproval(a, r) ==
    /\ status[r] \in {"to_approve", "approved"}
    /\ body[r] < MaxEdits
    /\ Read(a, "edit", {r}, "same")

UpdateReminder(a, r) ==
    /\ status[r] \in {"to_approve", "approved"}
    /\ body[r] < MaxEdits
    /\ Read(a, "edit", {r}, IF status[r] = "approved" THEN "to_approve" ELSE "same")

(* WhatsApp: the agent has sent the text, and says so. *)
MarkSent(a, r) ==
    /\ channel[r] = "whatsapp"
    /\ status[r] = "approved"
    /\ Read(a, "mark", {r}, "sent")

Counted(f, S, text) ==
    [r \in Reminders |-> [v \in Bodies |->
        f[r][v] + IF r \in S /\ v = text[r] THEN 1 ELSE 0]]

(* The columns written at the commit, over whatever was committed since:   *)
(* the status, for an edit the text as well.                               *)
CommitHand(a) ==
    LET w == hand[a] IN
    /\ w.kind # "none"
    /\ \A r \in w.on : lock[r] = NoRun
    /\ status' = [r \in Reminders |-> IF r \in w.on /\ w.to # "same" THEN w.to ELSE status[r]]
    /\ body' = [r \in Reminders |-> IF r \in w.on /\ w.kind = "edit" THEN w.text[r] + 1 ELSE body[r]]
    /\ grants' = Counted(grants, IF w.kind = "approve" THEN w.on ELSE {}, w.text)
    /\ mails' = Counted(mails, IF w.kind = "mark" THEN w.on ELSE {}, w.text)
    /\ hand' = [hand EXCEPT ![a] = NoHand]
    /\ UNCHANGED <<channel, lock, done, run, refused, faults>>

-----------------------------------------------------------------------------
(* The dispatch.                                                           *)

Unlocked(j) == [r \in Reminders |-> IF lock[r] = j THEN NoRun ELSE lock[r]]
Mine(j, r) == lock[r] \in {j, NoRun}

(* The SELECT ... FOR UPDATE SKIP LOCKED, and the one query for the steps  *)
(* already done.                                                           *)
SelectDue(j) ==
    LET due == {r \in Reminders : /\ status[r] = "approved" /\ channel[r] # "whatsapp"
                                  /\ lock[r] = NoRun}
        doomed == {r \in due : TargetsDoneStep(r) \/ channel[r] = "lost"} IN
    /\ ~run[j].busy
    /\ due # {}
    /\ run' = [run EXCEPT ![j] = [busy |-> TRUE, doomed |-> doomed, queue |-> due \ doomed,
                                  sent |-> {}, text |-> Texts(due)]]
    /\ lock' = [r \in Reminders |-> IF r \in due THEN j ELSE lock[r]]
    /\ UNCHANGED <<rows, done, hand, grants, mails, refused, faults>>

(* A reminder of a done step is cancelled, a lost one is left approved;    *)
(* both are logged, and log() commits: no row is locked any more.          *)
\* Mutant: a reminder of a done step is skipped, not cancelled.
Decide_Skips(j, r) ==
    /\ r \in run[j].doomed
    /\ lock' = Unlocked(j)
    /\ run' = [run EXCEPT ![j].doomed = @ \ {r}]
    /\ UNCHANGED <<rows, done, hand, grants, mails, refused, faults>>

Decide(j, r) ==
    /\ r \in run[j].doomed
    /\ channel[r] # "lost" => Mine(j, r)
    /\ status' = [status EXCEPT ![r] = IF channel[r] = "lost" THEN @ ELSE "cancelled"]
    /\ lock' = Unlocked(j)
    /\ run' = [run EXCEPT ![j].doomed = @ \ {r}]
    /\ UNCHANGED <<channel, body, done, hand, grants, mails, refused, faults>>

(* The mails in the order of the code: one for the follow-ups together,    *)
(* then one per hand-written reminder.                                     *)
Mail(j) ==
    LET q == run[j].queue
        autos == {r \in q : channel[r] = "auto"} IN
    IF autos # {} THEN {autos} ELSE {{r} : r \in {x \in q : channel[x] = "hand"}}

Sending(j) == run[j].busy /\ run[j].doomed = {} /\ run[j].sent = {}

SendMail(j, m) ==
    /\ Sending(j)
    /\ m \in Mail(j)
    /\ m \cap refused = {}
    /\ mails' = Counted(mails, m, run[j].text)
    /\ run' = [run EXCEPT ![j].queue = @ \ m, ![j].sent = m]
    /\ UNCHANGED <<rows, lock, done, hand, grants, refused, faults>>

(* _record: SENT, and a line of log, which commits. *)
\* Mutant: what has left is not marked sent.
RecordSent_NotMarked(j, r) ==
    /\ r \in run[j].sent
    /\ lock' = Unlocked(j)
    /\ run' = [run EXCEPT ![j].sent = @ \ {r}]
    /\ UNCHANGED <<rows, done, hand, grants, mails, refused, faults>>

RecordSent(j, r) ==
    /\ r \in run[j].sent
    /\ Mine(j, r)
    /\ status' = [status EXCEPT ![r] = "sent"]
    /\ lock' = Unlocked(j)
    /\ run' = [run EXCEPT ![j].sent = @ \ {r}]
    /\ UNCHANGED <<channel, body, done, hand, grants, mails, refused, faults>>

(* No mail, but the client's space shows it. *)
RecordSilent(j, r) ==
    /\ Sending(j) /\ Mail(j) = {}
    /\ r \in run[j].queue
    /\ Mine(j, r)
    /\ status' = [status EXCEPT ![r] = "sent"]
    /\ mails' = Counted(mails, {r}, run[j].text)
    /\ lock' = Unlocked(j)
    /\ run' = [run EXCEPT ![j].queue = @ \ {r}]
    /\ UNCHANGED <<channel, body, done, hand, grants, refused, faults>>

\* Mutant: a run that ends keeps its locks.
Stop_KeepsLocks(j) ==
    /\ run' = [run EXCEPT ![j] = NoWork]
    /\ UNCHANGED <<rows, lock, done, hand, grants, mails, refused>>

Stop(j) ==
    /\ lock' = Unlocked(j)
    /\ run' = [run EXCEPT ![j] = NoWork]
    /\ UNCHANGED <<rows, done, hand, grants, mails, refused>>

Finish(j) ==
    /\ Sending(j) /\ run[j].queue = {}
    /\ Stop(j)
    /\ UNCHANGED faults

(* send_email raises: the run is FAILED and rolled back, whatever was left *)
(* in its queue.                                                           *)
MailRejected(j) ==
    /\ Sending(j)
    /\ \E m \in Mail(j) : m \cap refused # {}
    /\ Stop(j)
    /\ UNCHANGED faults

Crash(j) ==
    /\ run[j].busy
    /\ faults < MaxFaults
    /\ faults' = faults + 1
    /\ Stop(j)

-----------------------------------------------------------------------------
Case ==
    \/ \E r \in Reminders : CorrectAddress(r)
    \/ \E r \in Reminders, k \in Channels \ {"auto"} : CreateReminder(r, k)
    \/ \E r \in Reminders, b \in BOOLEAN : CreateAutoReminder(r, b)
    \/ \E s \in Steps : ValidateStep(s) \/ ReopenStep(s)

Agency(a) ==
    \/ \E S \in SUBSET Reminders : BulkApprove(a, S) \/ BulkCancel(a, S)
    \/ \E r \in Reminders :
           \/ ApproveReminder(a, r)
           \/ CancelReminder(a, r)
           \/ UpdateReminder(a, r)
           \/ MarkSent(a, r)
    \/ CommitHand(a)

Dispatch(j) ==
    \/ SelectDue(j)
    \/ \E r \in Reminders : Decide(j, r) \/ RecordSent(j, r) \/ RecordSilent(j, r)
    \/ \E m \in SUBSET Reminders : SendMail(j, m)
    \/ MailRejected(j)
    \/ Finish(j)

Next ==
    \/ Case
    \/ \E a \in Agents : Agency(a)
    \/ \E j \in Runs : Dispatch(j) \/ Crash(j)

Spec == Init /\ [][Next]_vars

(* The scheduler keeps ticking, a run goes on, a handler ends. *)
FairSpec ==
    /\ Spec
    /\ \A j \in Runs : WF_vars(Dispatch(j))
    /\ \A a \in Agents : WF_vars(CommitHand(a))

-----------------------------------------------------------------------------
(* Properties.                                                             *)

(* Every variable has its type, and a row is locked by a run at work. *)
TypeOK ==
    /\ status \in [Reminders -> Status]
    /\ channel \in [Reminders -> Channels \cup {"none"}]
    /\ body \in [Reminders -> Bodies]
    /\ lock \in [Reminders -> Runs \cup {NoRun}]
    /\ \A r \in Reminders : lock[r] # NoRun => run[lock[r]].busy
    /\ done \subseteq Steps
    /\ run \in [Runs -> Work]
    /\ hand \in [Agents -> Hand]
    /\ grants \in [Reminders -> [Bodies -> Nat]]
    /\ mails \in [Reminders -> [Bodies -> Nat]]
    /\ refused \subseteq Rejected
    /\ faults \in 0..MaxFaults

(* "Nothing is ever dispatched before APPROVED" (Reminder), and an edit    *)
(* "covered the OLD content": the very text that leaves has been approved, *)
(* by somebody or by the agency's regime, however the run, the edits and   *)
(* the approvals interleave.                                               *)
ApprovedOnly ==
    \A r \in Reminders, v \in Bodies : mails[r][v] > 0 => grants[r][v] > 0

(* "two overlapping ticks never process the same row twice"                *)
(* (dispatch_due_reminders): one approval, one mail.  Only a crash between *)
(* a mail and its record repeats it.                                       *)
OneMailPerApproval ==
    \A r \in Reminders, v \in Bodies : mails[r][v] <= grants[r][v] + faults

(* "les relances partent sans qu'on y pense": what is approved and has     *)
(* somebody to read it leaves, or is cancelled; nothing is due for ever,   *)
(* as long as no address is refused: a refusal holds back what is behind.  *)
DueLeaves ==
    \A r \in Reminders :
        status[r] = "approved" /\ channel[r] \notin {"lost", "whatsapp"}
            ~> status[r] # "approved" \/ refused # {}

-----------------------------------------------------------------------------
(* A promise of the sources that does not hold; the README has the trace.  *)
(* OneMailPerApproval above fails too with two runs, and ApprovedOnly with *)
(* two handlers.                                                           *)

(* "TO_APPROVE -> APPROVED -> SENT, or CANCELLED", and "Only to_approve or *)
(* approved reminders can be" edited or cancelled: what was sent or        *)
(* cancelled stays so.                                                     *)
TerminalIsFinal ==
    [][\A r \in Reminders :
          status[r] \in {"sent", "cancelled"} => status'[r] = status[r]]_vars
=================================================================================
