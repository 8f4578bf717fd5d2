------------------------------ MODULE CreditLedger ------------------------------
(***************************************************************************)
(* The signature-credit ledger of ONE agency (src/signatures/ledger.py): a *)
(* balance row, the append-only journal it materialises, and the database  *)
(* transactions that touch them.  A transaction is a web request or a      *)
(* webhook delivery; PostgreSQL runs it at READ COMMITTED, so it reads     *)
(* what the others have committed, and its own writes become visible at    *)
(* its commit.  SELECT ... FOR UPDATE on the balance row is "lock".        *)
(*                                                                         *)
(* The journal is kept as the two aggregates the code asks of it: the sum  *)
(* of the amounts by kind (derived_balance) and the number of entries by   *)
(* request and kind (_live_reserve_exists).                                *)
(***************************************************************************)
EXTENDS Integers, FiniteSets

CONSTANTS
    Txs,        \* concurrent database transactions (one per session)
    NoTx,       \* nobody holds the balance row
    Requests,   \* signature requests of the agency
    Purchases,  \* Paddle transactions carrying a credit pack
    Pack,       \* credits of one pack
    MaxGrants   \* bound on the credits a superadmin offers

ASSUME LedgerAssumption ==
    /\ NoTx \notin Txs
    /\ IsFiniteSet(Requests)
    /\ IsFiniteSet(Purchases)
    /\ Pack \in Nat \ {0}
    /\ MaxGrants \in Nat

VARIABLES
    row,     \* the committed signature_credit_balance row
    total,   \* committed journal: sum of the amounts, by kind
    count,   \* committed journal: number of entries, by request and kind
    bought,  \* committed journal: the paddle_event_id of its purchases
    acked,   \* Paddle transactions whose delivery was answered 200
    lock,    \* the transaction holding the balance row
    pc,      \* where each transaction stands
    op,      \* what each transaction is doing to the ledger
    seen     \* the balance each transaction has loaded

ledgerVars == <<row, total, count, bought, acked, lock, pc, op, seen>>

Kinds == {"purchase", "grant", "reserve", "consume", "release"}
RequestKinds == {"reserve", "consume", "release"}

Op == [kind: Kinds \cup {"none"}, amount: Nat,
       on: SUBSET Requests, txn: SUBSET Purchases]
NoOp == [kind |-> "none", amount |-> 0, on |-> {}, txn |-> {}]

ZeroBalance == [available |-> 0, reserved |-> 0]

-----------------------------------------------------------------------------
(* What one operation does to the balance.                                 *)

(* The change of "available": purchase, grant and release give credits     *)
(* back, a reservation takes them, a consumption leaves them alone.        *)
Credit(o) ==
    IF o.kind \in {"purchase", "grant", "release"} THEN o.amount
    ELSE IF o.kind = "reserve" THEN -o.amount ELSE 0

(* The change of "reserved". *)
Hold(o) ==
    IF o.kind = "reserve" THEN o.amount
    ELSE IF o.kind \in {"consume", "release"} THEN -o.amount ELSE 0

Updated(o, b) == [available |-> b.available + Credit(o),
                  reserved  |-> b.reserved + Hold(o)]

(* The CHECK constraints of the balance row. *)
\* Mutant: a table without its CHECK constraints.
ChecksHold_NoConstraint(b) == TRUE

ChecksHold(b) == b.available >= 0 /\ b.reserved >= 0

(* The unique paddle_event_id of the journal, met by the entry's INSERT.   *)
\* Mutant: a paddle_event_id that is only looked for, not unique.
Belt_NotUnique(o) == TRUE

Belt(o) == o.txn \cap bought = {}

(* _live_reserve_exists: reserve - consume - release of one request, > 0.  *)
LiveReserve(r) ==
    count[r]["reserve"] > count[r]["consume"] + count[r]["release"]

-----------------------------------------------------------------------------
Init ==
    /\ row = [exists |-> FALSE, balance |-> ZeroBalance]
    /\ total = [k \in Kinds |-> 0]
    /\ count = [r \in Requests |-> [k \in RequestKinds |-> 0]]
    /\ bought = {}
    /\ acked = {}
    /\ lock = NoTx
    /\ pc = [t \in Txs |-> "idle"]
    /\ op = [t \in Txs |-> NoOp]
    /\ seen = [t \in Txs |-> ZeroBalance]

(* Requests being reserved or settled by a transaction that has not        *)
(* committed yet.                                                          *)
InFlight == UNION {op[t].on : t \in Txs}

Start(t, o) ==
    /\ pc[t] = "idle"
    /\ pc' = [pc EXCEPT ![t] = "lock"]
    /\ op' = [op EXCEPT ![t] = o]
    /\ UNCHANGED <<row, total, count, bought, acked, lock, seen>>

(* purchase_credits, for a payment that the journal does not show yet: the *)
(* paddle_event_id is looked for without a lock, so that two deliveries of *)
(* one payment may both get past it.  Found, nothing is left to do.  (The  *)
(* event_id of handle_webhook stops sooner some of the deliveries; which   *)
(* ones, PaddleWebhooks says: here all come through.)                      *)
PurchaseCredits(t, p) ==
    /\ p \notin bought
    /\ Start(t, [kind |-> "purchase", amount |-> Pack, on |-> {}, txn |-> {p}])

(* A superadmin's gift.  Each POST credits: there is no belt.              *)
GrantCredits(t, n) ==
    /\ total["grant"] + n <= MaxGrants
    /\ Start(t, [kind |-> "grant", amount |-> n, on |-> {}, txn |-> {}])

(* The activation of a step sends one NEW request per signable reference,  *)
(* each reserving one credit, in one transaction.                          *)
ReserveCredits(t, S) ==
    /\ S # {}
    /\ \A r \in S : r \notin InFlight /\ count[r]["reserve"] = 0
    /\ Start(t, [kind |-> "reserve", amount |-> Cardinality(S), on |-> S, txn |-> {}])

(* consume_credit and release_credit: the idempotence guard is read from   *)
(* the committed journal BEFORE the balance row is locked.                 *)
SettleCredit(t, r, k) ==
    /\ LiveReserve(r)
    /\ Start(t, [kind |-> k, amount |-> 1, on |-> {r}, txn |-> {}])

(* _locked_balance on an existing row: SELECT ... FOR UPDATE, which waits  *)
(* for the holder and then reads what it committed.                        *)
\* Mutant: the SELECT without FOR UPDATE.
RowIsFree_NoForUpdate == TRUE

RowIsFree == lock = NoTx

LockRow(t) ==
    /\ pc[t] = "lock"
    /\ row.exists
    /\ RowIsFree
    /\ op[t].kind = "reserve" => row.balance.available >= op[t].amount
    /\ lock' = t
    /\ seen' = [seen EXCEPT ![t] = row.balance]
    /\ pc' = [pc EXCEPT ![t] = "write"]
    /\ UNCHANGED <<row, total, count, bought, acked, op>>

(* _locked_balance when no row is visible: the transaction goes on to      *)
(* INSERT one at 0/0.                                                      *)
MissRow(t) ==
    /\ pc[t] = "lock"
    /\ ~row.exists
    /\ pc' = [pc EXCEPT ![t] = "insert"]
    /\ UNCHANGED <<row, total, count, bought, acked, lock, op, seen>>

(* The INSERT waits on the unique agency_id for a concurrent inserter.     *)
\* Mutant: a balance row that is not unique per agency; the last one wins.
InsertRow_NotUnique(t) ==
    /\ pc[t] = "insert"
    /\ RowIsFree
    /\ op[t].kind # "reserve"
    /\ lock' = t
    /\ seen' = [seen EXCEPT ![t] = ZeroBalance]
    /\ pc' = [pc EXCEPT ![t] = "write"]
    /\ UNCHANGED <<row, total, count, bought, acked, op>>

InsertRow(t) ==
    /\ pc[t] = "insert"
    /\ ~row.exists
    /\ RowIsFree
    /\ op[t].kind # "reserve"
    /\ lock' = t
    /\ seen' = [seen EXCEPT ![t] = ZeroBalance]
    /\ pc' = [pc EXCEPT ![t] = "write"]
    /\ UNCHANGED <<row, total, count, bought, acked, op>>

(* The end of a transaction: the row lock goes, and "ack" is what Paddle   *)
(* will not deliver again.                                                 *)
Finish(t, ack) ==
    /\ pc' = [pc EXCEPT ![t] = "idle"]
    /\ op' = [op EXCEPT ![t] = NoOp]
    /\ seen' = [seen EXCEPT ![t] = ZeroBalance]
    /\ lock' = IF lock = t THEN NoTx ELSE lock
    /\ acked' = acked \cup ack

Nothing == UNCHANGED <<row, total, count, bought>>

(* SignatureCreditsInsufficientError: nothing is written, the caller's     *)
(* transaction rolls back whole.                                           *)
RefuseReserve(t) ==
    /\ op[t].kind = "reserve"
    /\ RowIsFree
    /\ \/ pc[t] = "lock" /\ row.exists /\ row.balance.available < op[t].amount
       \/ pc[t] = "insert" /\ ~row.exists
    /\ Finish(t, {})
    /\ Nothing

(* The INSERT of the loser fails on the unique agency_id.  handle_webhook  *)
(* catches the IntegrityError, stores the event and answers 200.           *)
InsertConflict(t) ==
    /\ pc[t] = "insert"
    /\ row.exists
    /\ Finish(t, op[t].txn)
    /\ Nothing

(* The commit of the caller's transaction: the balance is written with the *)
(* ABSOLUTE values computed from what was loaded, the entries appended.    *)
Commit(t) ==
    LET o == op[t]  new == Updated(o, seen[t]) IN
    /\ pc[t] = "write"
    /\ ChecksHold(new)
    /\ Belt(o)
    /\ row' = [exists |-> TRUE, balance |-> new]
    /\ total' = [total EXCEPT ![o.kind] = @ + o.amount]
    /\ count' = [r \in Requests |->
                    IF r \in o.on THEN [count[r] EXCEPT ![o.kind] = @ + 1]
                                  ELSE count[r]]
    /\ bought' = bought \cup o.txn
    /\ Finish(t, o.txn)

(* The database refuses a negative balance: IntegrityError, rollback.      *)
CheckViolation(t) ==
    /\ pc[t] = "write"
    /\ ~ChecksHold(Updated(op[t], seen[t]))
    /\ Finish(t, {})
    /\ Nothing

(* The database refuses a second entry for one payment: IntegrityError,    *)
(* rollback, and handle_webhook stores the event and answers 200.          *)
AlreadyCredited(t) ==
    /\ pc[t] = "write"
    /\ ~Belt(op[t])
    /\ Finish(t, op[t].txn)
    /\ Nothing

(* The rest of the transaction fails (the signature provider is down, the  *)
(* template has no zones), or the process dies: PostgreSQL drops it all.   *)
Rollback(t) ==
    /\ pc[t] # "idle"
    /\ Finish(t, {})
    /\ Nothing

Next ==
    \E t \in Txs :
        \/ \E p \in Purchases : PurchaseCredits(t, p)
        \/ \E n \in 1..MaxGrants : GrantCredits(t, n)
        \/ \E S \in SUBSET Requests : ReserveCredits(t, S)
        \/ \E r \in Requests, k \in {"consume", "release"} : SettleCredit(t, r, k)
        \/ LockRow(t)
        \/ MissRow(t)
        \/ InsertRow(t)
        \/ RefuseReserve(t)
        \/ InsertConflict(t)
        \/ Commit(t)
        \/ CheckViolation(t)
        \/ AlreadyCredited(t)
        \/ Rollback(t)

Spec == Init /\ [][Next]_ledgerVars

-----------------------------------------------------------------------------
(* Properties.                                                             *)

(* Every variable has its type. *)
TypeOK ==
    /\ row \in [exists: BOOLEAN, balance: [available: Nat, reserved: Nat]]
    /\ total \in [Kinds -> Nat]
    /\ count \in [Requests -> [RequestKinds -> Nat]]
    /\ bought \subseteq Purchases
    /\ acked \subseteq Purchases
    /\ lock \in Txs \cup {NoTx}
    /\ pc \in [Txs -> {"idle", "lock", "insert", "write"}]
    /\ op \in [Txs -> Op]
    /\ seen \in [Txs -> [available: Nat, reserved: Nat]]

(* derived_balance: the balance as the journal alone gives it. *)
Derived ==
    [available |-> total["purchase"] + total["grant"]
                       - total["reserve"] + total["release"],
     reserved  |-> total["reserve"] - total["consume"] - total["release"]]

(* balance() = derived_balance() in every committed state, whatever the    *)
(* interleaving of purchases, gifts, reservations and settlements: the row *)
(* lock leaves no lost update although each writer stores absolute values. *)
BalanceIsDerived == row.balance = Derived

(* A payment credits its pack once, however often and however concurrently *)
(* it is delivered: two transactions that both looked before either of     *)
(* them wrote meet again at the unique paddle_event_id.                    *)
PurchasedOnce == total["purchase"] = Pack * Cardinality(bought)

(* The ledger implements an atomic account: every commit is one account    *)
(* operation on the balance the previous commit left, every other step is  *)
(* invisible to the balance.                                               *)
Account == INSTANCE CreditAccount
               WITH available <- row.balance.available,
                    reserved  <- row.balance.reserved

ImplementsAccount == Account!Spec

-----------------------------------------------------------------------------
(* Promises of the sources that do not hold; the README has the traces.    *)
(* SettledOnce fails with two transactions that settle two requests.       *)

(* A reservation is settled at most once: "double annulation, course avec  *)
(* l'expiration -> un seul release" (release_credit).                      *)
SettledOnce ==
    \A r \in Requests : count[r]["consume"] + count[r]["release"] <= count[r]["reserve"]

(* A pack whose event was answered 200 is in the journal: Paddle will not  *)
(* send it again ("nothing is lost", handle_webhook; "le perdant relit la  *)
(* ligne du gagnant", _locked_balance).                                    *)
PaidIsCredited == acked \subseteq bought
=================================================================================
