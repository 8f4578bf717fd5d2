--------------------------- MODULE CreditLedgerProofs ---------------------------
(***************************************************************************)
(* The balance row of the ledger equals the derivation of its journal, and *)
(* the ledger implements an atomic account, for every set of transactions, *)
(* requests and packs; a reservation is settled once when no two of them   *)
(* settle it together, and a pack that was answered is credited once the   *)
(* balance row exists.                                                     *)
(***************************************************************************)
EXTENDS CreditLedger, FiniteSetTheorems, TLAPS

(* The row lock: whoever is writing holds it, and has loaded the committed *)
(* balance.                                                                *)
LockInv ==
    /\ \A t \in Txs : pc[t] = "write" <=> lock = t
    /\ \A t \in Txs : pc[t] = "write" => seen[t] = row.balance
    /\ ~row.exists => row.balance = ZeroBalance

(* What a running transaction is doing is well formed. *)
OpInv ==
    /\ \A t \in Txs : pc[t] # "idle" => op[t].kind \in Kinds /\ op[t].amount > 0
    /\ \A t \in Txs : op[t].on # {} => op[t].kind \in RequestKinds
    /\ \A t \in Txs : op[t].kind \in {"consume", "release"} => op[t].amount = 1
    /\ \A t \in Txs : op[t].kind = "purchase" =>
           /\ op[t].amount = Pack
           /\ \E p \in Purchases : op[t].txn = {p}
    /\ \A t \in Txs : op[t].kind # "purchase" => op[t].txn = {}

Inv == TypeOK /\ LockInv /\ OpInv /\ BalanceIsDerived /\ PurchasedOnce

-----------------------------------------------------------------------------
LEMMA InitInv == Init => Inv
<1> SUFFICES ASSUME Init PROVE Inv
    OBVIOUS
<1> USE LedgerAssumption DEF Init
<1>1. TypeOK
    BY DEF TypeOK, Kinds, RequestKinds, Op, NoOp, ZeroBalance
<1>2. LockInv
    BY DEF LockInv, ZeroBalance
<1>3. OpInv
    BY DEF OpInv, NoOp
<1>4. BalanceIsDerived
    BY DEF BalanceIsDerived, Derived, ZeroBalance, Kinds
<1>5. PurchasedOnce
    BY FS_EmptySet DEF PurchasedOnce, Kinds
<1> QED
    BY <1>1, <1>2, <1>3, <1>4, <1>5 DEF Inv

(* Starting an operation leaves the committed state and the row lock alone. *)
LEMMA StartInv ==
    ASSUME Inv, NEW t \in Txs, NEW o \in Op, Start(t, o),
           o.kind \in Kinds, o.amount > 0,
           o.on # {} => o.kind \in RequestKinds,
           o.kind \in {"consume", "release"} => o.amount = 1,
           \/ o.kind # "purchase" /\ o.txn = {}
           \/ /\ o.kind = "purchase" /\ o.amount = Pack
              /\ \E p \in Purchases : o.txn = {p}
    PROVE  Inv'
<1> USE LedgerAssumption DEF Inv, Start
<1>1. TypeOK'
    BY DEF TypeOK
<1>2. LockInv'
    BY DEF LockInv, TypeOK
<1>3. OpInv'
    <2>1. /\ op'[t] = o /\ pc'[t] = "lock"
          /\ \A u \in Txs \ {t} : op'[u] = op[u] /\ pc'[u] = pc[u]
        BY DEF TypeOK
    <2> QED
        BY <2>1 DEF OpInv
<1>4. BalanceIsDerived' /\ PurchasedOnce'
    BY DEF BalanceIsDerived, Derived, PurchasedOnce
<1> QED
    BY <1>1, <1>2, <1>3, <1>4 DEF Inv

(* A transaction that gives up writes nothing and drops its lock. *)
LEMMA GiveUpInv ==
    ASSUME Inv, NEW t \in Txs, NEW ack \in SUBSET Purchases, Finish(t, ack), Nothing
    PROVE  Inv'
<1> USE LedgerAssumption DEF Inv, Finish, Nothing
<1>1. TypeOK'
    BY DEF TypeOK, Op, NoOp, Kinds, ZeroBalance
<1>2. LockInv'
    BY DEF LockInv, TypeOK
<1>3. OpInv'
    BY DEF OpInv, TypeOK, NoOp
<1>4. BalanceIsDerived' /\ PurchasedOnce'
    BY DEF BalanceIsDerived, Derived, PurchasedOnce
<1> QED
    BY <1>1, <1>2, <1>3, <1>4 DEF Inv

(* Taking the row, or creating it, loads the committed balance. *)
LEMMA TakeInv ==
    ASSUME Inv, NEW t \in Txs, LockRow(t) \/ InsertRow(t)
    PROVE  Inv'
<1> USE LedgerAssumption DEF Inv
<1>1. /\ pc[t] \in {"lock", "insert"}
      /\ lock = NoTx /\ lock' = t
      /\ seen' = [seen EXCEPT ![t] = row.balance]
      /\ pc' = [pc EXCEPT ![t] = "write"]
      /\ UNCHANGED <<row, total, count, bought, acked, op>>
    <2>1. CASE LockRow(t)
        BY <2>1 DEF LockRow, RowIsFree
    <2>2. CASE InsertRow(t)
        BY <2>2 DEF InsertRow, RowIsFree, LockInv
    <2> QED
        BY <2>1, <2>2
<1>2. TypeOK'
    BY <1>1 DEF TypeOK
<1>3. LockInv'
    BY <1>1 DEF LockInv, TypeOK
<1>4. OpInv'
    BY <1>1 DEF OpInv, TypeOK
<1>5. BalanceIsDerived' /\ PurchasedOnce'
    BY <1>1 DEF BalanceIsDerived, Derived, PurchasedOnce
<1> QED
    BY <1>2, <1>3, <1>4, <1>5 DEF Inv

LEMMA MissInv ==
    ASSUME Inv, NEW t \in Txs, MissRow(t)
    PROVE  Inv'
<1> USE LedgerAssumption DEF Inv, MissRow
<1>1. TypeOK'
    BY DEF TypeOK
<1>2. LockInv'
    BY DEF LockInv, TypeOK
<1>3. OpInv'
    BY DEF OpInv, TypeOK
<1>4. BalanceIsDerived' /\ PurchasedOnce'
    BY DEF BalanceIsDerived, Derived, PurchasedOnce
<1> QED
    BY <1>1, <1>2, <1>3, <1>4 DEF Inv

(* A commit moves the balance and the journal by the same amount. *)
LEMMA CommitInv ==
    ASSUME Inv, NEW t \in Txs, Commit(t)
    PROVE  Inv'
<1> DEFINE o == op[t]
<1> USE LedgerAssumption DEF Inv
<1>1. /\ o \in Op /\ o.kind \in Kinds /\ o.amount \in Nat
      /\ o.on \subseteq Requests /\ o.txn \subseteq Purchases
    BY DEF TypeOK, Op, OpInv, Commit
<1>2. seen[t] = row.balance /\ lock = t
    BY DEF LockInv, Commit
<1>3. Updated(o, row.balance) \in [available: Nat, reserved: Nat]
    <2>1. row.balance.available \in Nat /\ row.balance.reserved \in Nat
        BY DEF TypeOK
    <2>2. Credit(o) \in Int /\ Hold(o) \in Int
        BY <1>1 DEF Credit, Hold
    <2>3. ChecksHold(Updated(o, row.balance))
        BY <1>2 DEF Commit
    <2> QED
        BY <2>1, <2>2, <2>3 DEF ChecksHold, Updated
<1>4. TypeOK'
    <2>1. row' \in [exists: BOOLEAN, balance: [available: Nat, reserved: Nat]]
        BY <1>2, <1>3 DEF Commit
    <2>2. total' \in [Kinds -> Nat]
        BY <1>1 DEF Commit, TypeOK
    <2>3. count' \in [Requests -> [RequestKinds -> Nat]]
        <3> SUFFICES ASSUME NEW r \in Requests
                     PROVE  count'[r] \in [RequestKinds -> Nat]
            BY DEF Commit
        <3>1. r \in o.on => o.kind \in RequestKinds
            BY DEF OpInv
        <3> QED
            BY <3>1 DEF Commit, TypeOK
    <2>4. /\ bought' \subseteq Purchases
          /\ acked' \subseteq Purchases
          /\ lock' \in Txs \cup {NoTx}
          /\ pc' \in [Txs -> {"idle", "lock", "insert", "write"}]
          /\ op' \in [Txs -> Op]
          /\ seen' \in [Txs -> [available: Nat, reserved: Nat]]
        BY <1>1 DEF Commit, Finish, TypeOK, Op, NoOp, ZeroBalance
    <2> QED
        BY <2>1, <2>2, <2>3, <2>4 DEF TypeOK
<1>5. LockInv'
    BY <1>2 DEF LockInv, TypeOK, Commit, Finish
<1>6. OpInv'
    BY DEF OpInv, TypeOK, Commit, Finish, NoOp
<1>7. BalanceIsDerived'
    <2>1. \A k \in Kinds : total'[k] = IF k = o.kind THEN total[k] + o.amount ELSE total[k]
        BY <1>1 DEF Commit, TypeOK
    <2>2. row'.balance = Updated(o, Derived)
        BY <1>2 DEF Commit, BalanceIsDerived
    <2>3. \A k \in Kinds : total[k] \in Nat
        BY DEF TypeOK
    <2> QED
        BY <1>1, <2>1, <2>2, <2>3
        DEF BalanceIsDerived, Derived, Updated, Credit, Hold, Kinds
<1>8. PurchasedOnce'
    <2>1. IsFiniteSet(bought)
        BY FS_Subset DEF TypeOK
    <2>2. CASE o.kind = "purchase"
        <3>1. PICK p \in Purchases : o.txn = {p}
            BY <2>2 DEF OpInv
        <3>2. p \notin bought
            BY <3>1 DEF Commit, Belt
        <3>3. Cardinality(bought') = Cardinality(bought) + 1
            BY <2>1, <3>1, <3>2, FS_AddElement DEF Commit
        <3>4. total'["purchase"] = total["purchase"] + Pack
            BY <2>2 DEF Commit, OpInv, TypeOK, Kinds
        <3>5. Cardinality(bought) \in Nat
            BY <2>1, FS_CardinalityType
        <3> QED
            BY <3>3, <3>4, <3>5 DEF PurchasedOnce
    <2>3. CASE o.kind # "purchase"
        <3>1. bought' = bought
            BY <2>3 DEF Commit, OpInv
        <3>2. total'["purchase"] = total["purchase"]
            BY <1>1, <2>3 DEF Commit, TypeOK, Kinds
        <3> QED
            BY <3>1, <3>2 DEF PurchasedOnce
    <2> QED
        BY <2>2, <2>3
<1> QED
    BY <1>4, <1>5, <1>6, <1>7, <1>8 DEF Inv

-----------------------------------------------------------------------------
LEMMA NextInv == Inv /\ [Next]_ledgerVars => Inv'
<1> SUFFICES ASSUME Inv, [Next]_ledgerVars PROVE Inv'
    OBVIOUS
<1> USE LedgerAssumption
<1>1. CASE UNCHANGED ledgerVars
    BY <1>1 DEF ledgerVars, Inv, TypeOK, LockInv, OpInv,
                BalanceIsDerived, Derived, PurchasedOnce
<1>2. ASSUME NEW t \in Txs, NEW p \in Purchases, PurchaseCredits(t, p)
      PROVE  Inv'
    BY <1>2, StartInv DEF PurchaseCredits, Op, Kinds
<1>3. ASSUME NEW t \in Txs, NEW n \in 1..MaxGrants, GrantCredits(t, n)
      PROVE  Inv'
    BY <1>3, StartInv DEF GrantCredits, Op, Kinds
<1>4. ASSUME NEW t \in Txs, NEW S \in SUBSET Requests, ReserveCredits(t, S)
      PROVE  Inv'
    <2>1. Cardinality(S) \in Nat /\ Cardinality(S) > 0
        BY <1>4, FS_Subset, FS_CardinalityType, FS_EmptySet DEF ReserveCredits
    <2> QED
        BY <1>4, <2>1, StartInv DEF ReserveCredits, Op, Kinds, RequestKinds
<1>5. ASSUME NEW t \in Txs, NEW r \in Requests, NEW k \in {"consume", "release"},
             SettleCredit(t, r, k)
      PROVE  Inv'
    BY <1>5, StartInv DEF SettleCredit, Op, Kinds, RequestKinds
<1>6. ASSUME NEW t \in Txs, LockRow(t) \/ InsertRow(t)
      PROVE  Inv'
    BY <1>6, TakeInv
<1>7. ASSUME NEW t \in Txs, MissRow(t)
      PROVE  Inv'
    BY <1>7, MissInv
<1>8. ASSUME NEW t \in Txs,
             \/ RefuseReserve(t) \/ InsertConflict(t) \/ CheckViolation(t)
             \/ AlreadyCredited(t) \/ Rollback(t)
      PROVE  Inv'
    <2>1. op[t].txn \subseteq Purchases
        BY DEF Inv, TypeOK, Op
    <2> QED
        BY <1>8, <2>1, GiveUpInv
        DEF RefuseReserve, InsertConflict, CheckViolation, AlreadyCredited, Rollback
<1>9. ASSUME NEW t \in Txs, Commit(t)
      PROVE  Inv'
    BY <1>9, CommitInv
<1> QED
    BY <1>1, <1>2, <1>3, <1>4, <1>5, <1>6, <1>7, <1>8, <1>9 DEF Next

LEMMA SpecInv == Spec => []Inv
    BY InitInv, NextInv, PTL DEF Spec

-----------------------------------------------------------------------------
(* Every variable keeps its type: in particular the two balances never go  *)
(* negative (the CHECK constraints of signature_credit_balance).           *)
THEOREM LedgerTypeCorrect == Spec => []TypeOK
<1>1. Inv => TypeOK
    BY DEF Inv
<1> QED
    BY <1>1, SpecInv, PTL

(* balance() = derived_balance() in every committed state.                 *)
THEOREM LedgerBalanceIsDerived == Spec => []BalanceIsDerived
<1>1. Inv => BalanceIsDerived
    BY DEF Inv
<1> QED
    BY <1>1, SpecInv, PTL

(* No payment is credited twice, for any number of payments and of         *)
(* deliveries, two that overlap included: the second one to write meets    *)
(* the unique paddle_event_id.                                             *)
THEOREM LedgerPurchasedOnce == Spec => []PurchasedOnce
<1>1. Inv => PurchasedOnce
    BY DEF Inv
<1> QED
    BY <1>1, SpecInv, PTL

(* A commit is one atomic operation of the account. *)
LEMMA CommitRefines ==
    ASSUME Inv, NEW t \in Txs, Commit(t)
    PROVE  Account!Next
<1> DEFINE o == op[t]
<1>1. /\ o.kind \in Kinds /\ o.amount \in Nat /\ o.amount > 0
      /\ o.kind \in {"consume", "release"} => o.amount = 1
    BY DEF Inv, TypeOK, Op, OpInv, Commit
<1>2. row'.balance = Updated(o, row.balance) /\ ChecksHold(row'.balance)
    BY DEF Inv, LockInv, Commit
<1>3. row.balance.available \in Nat /\ row.balance.reserved \in Nat
    BY DEF Inv, TypeOK
<1> QED
    BY <1>1, <1>2, <1>3
    DEF Updated, Credit, Hold, ChecksHold, Kinds, Account!Next, Account!Deposit,
        Account!Reserve, Account!Consume, Account!Release

(* The ledger implements the atomic account. *)
THEOREM LedgerImplementsAccount == Spec => ImplementsAccount
<1>1. Init => Account!Init
    BY DEF Init, Account!Init, ZeroBalance
<1>2. Inv /\ [Next]_ledgerVars => [Account!Next]_(Account!accountVars)
    <2> SUFFICES ASSUME Inv, [Next]_ledgerVars
                 PROVE  Account!Next \/ row' = row
        BY DEF Account!accountVars
    <2>1. CASE \E t \in Txs : Commit(t)
        BY <2>1, CommitRefines
    <2>2. CASE UNCHANGED ledgerVars
        BY <2>2 DEF ledgerVars
    <2>3. CASE Next /\ ~\E t \in Txs : Commit(t)
        BY <2>3 DEF Next, PurchaseCredits, GrantCredits, ReserveCredits, SettleCredit,
                    Start, LockRow, MissRow, InsertRow, RefuseReserve, InsertConflict,
                    CheckViolation, AlreadyCredited, Rollback, Nothing
    <2> QED
        BY <2>1, <2>2, <2>3
<1> QED
    BY <1>1, <1>2, SpecInv, PTL DEF Spec, ImplementsAccount, Account!Spec

-----------------------------------------------------------------------------
(* The two promises that fail, and what they fail for: each is proved as   *)
(* soon as the overlap its counterexample needs is kept away.              *)

Settling(t) == op[t].kind \in {"consume", "release"}

(* No two transactions are settling one request at a time: what a lock     *)
(* taken before _live_reserve_exists would give.                           *)
NoRivals ==
    \A t, u \in Txs : (t # u /\ Settling(t) /\ Settling(u)) => op[t].on \cap op[u].on = {}

(* Until the agency has its balance row, its transactions run one by one.  *)
FirstAlone ==
    ~row.exists => \A t, u \in Txs : (pc[t] # "idle" /\ pc[u] # "idle") => t = u

(* A settlement that has begun still finds its reservation live. *)
SettleInv ==
    /\ SettledOnce
    /\ \A t \in Txs : Settling(t) => \A r \in op[t].on : LiveReserve(r)

(* What a transaction started on request r adds to its entry of kind k. *)
LEMMA CommitCounts ==
    ASSUME Inv, NEW t \in Txs, Commit(t), NEW r \in Requests, NEW k \in RequestKinds
    PROVE  count'[r][k] = IF r \in op[t].on /\ k = op[t].kind
                          THEN count[r][k] + 1 ELSE count[r][k]
<1>1. count'[r] = IF r \in op[t].on THEN [count[r] EXCEPT ![op[t].kind] = @ + 1]
                                    ELSE count[r]
    BY DEF Commit
<1>2. r \in op[t].on => op[t].kind \in RequestKinds
    BY DEF Inv, OpInv
<1>3. count[r] \in [RequestKinds -> Nat]
    BY DEF Inv, TypeOK
<1> QED
    BY <1>1, <1>2, <1>3

(* A transaction's settlement, once begun, is left alone by every step but *)
(* its own end and the commit of a rival.                                  *)
LEMMA StartSettles ==
    ASSUME Inv, SettleInv, NEW t \in Txs, NEW o \in Op, Start(t, o),
           o.kind \in {"consume", "release"} => \A r \in o.on : LiveReserve(r)
    PROVE  SettleInv'
<1>1. count' = count /\ op' = [op EXCEPT ![t] = o] /\ op \in [Txs -> Op]
    BY DEF Start, Inv, TypeOK
<1>2. \A u \in Txs : op'[u] = IF u = t THEN o ELSE op[u]
    BY <1>1
<1>3. SettledOnce'
    BY <1>1 DEF SettleInv, SettledOnce
<1>4. \A u \in Txs : Settling(u)' => \A r \in op'[u].on : LiveReserve(r)'
    BY <1>1, <1>2 DEF SettleInv, Settling, LiveReserve
<1> QED
    BY <1>3, <1>4 DEF SettleInv

LEMMA EndSettles ==
    ASSUME Inv, SettleInv, NEW t \in Txs, count' = count,
           op' = op \/ op' = [op EXCEPT ![t] = NoOp]
    PROVE  SettleInv'
<1>1. \A u \in Txs : op'[u] = op[u] \/ op'[u] = NoOp
    BY DEF Inv, TypeOK
<1>2. SettledOnce'
    BY DEF SettleInv, SettledOnce
<1>3. \A u \in Txs : Settling(u)' => \A r \in op'[u].on : LiveReserve(r)'
    BY <1>1 DEF SettleInv, Settling, LiveReserve, NoOp
<1> QED
    BY <1>2, <1>3 DEF SettleInv

LEMMA CommitSettles ==
    ASSUME Inv, SettleInv, NoRivals, NEW t \in Txs, Commit(t)
    PROVE  SettleInv'
<1>1. \A r \in Requests :
          /\ count[r]["reserve"] \in Nat
          /\ count[r]["consume"] \in Nat
          /\ count[r]["release"] \in Nat
    BY DEF Inv, TypeOK, RequestKinds
<1>2. \A r \in Requests : /\ r \notin op[t].on \/ ~Settling(t)
                          => /\ count'[r]["consume"] = count[r]["consume"]
                             /\ count'[r]["release"] = count[r]["release"]
                             /\ count'[r]["reserve"] >= count[r]["reserve"]
    BY <1>1, CommitCounts DEF Settling, RequestKinds
<1>3. \A r \in Requests : (r \in op[t].on /\ Settling(t))
                          => /\ count'[r]["consume"] + count'[r]["release"]
                                 = count[r]["consume"] + count[r]["release"] + 1
                             /\ count'[r]["reserve"] = count[r]["reserve"]
    <2> SUFFICES ASSUME NEW r \in Requests, r \in op[t].on, Settling(t)
                 PROVE  /\ count'[r]["consume"] + count'[r]["release"]
                            = count[r]["consume"] + count[r]["release"] + 1
                        /\ count'[r]["reserve"] = count[r]["reserve"]
        OBVIOUS
    <2>1. CASE op[t].kind = "consume"
        BY <1>1, <2>1, CommitCounts DEF RequestKinds
    <2>2. CASE op[t].kind = "release"
        BY <1>1, <2>2, CommitCounts DEF RequestKinds
    <2> QED
        BY <2>1, <2>2 DEF Settling
<1>4. SettledOnce'
    <2> SUFFICES ASSUME NEW r \in Requests
                 PROVE  count'[r]["consume"] + count'[r]["release"] <= count'[r]["reserve"]
        BY DEF SettledOnce
    <2>1. CASE r \in op[t].on /\ Settling(t)
        BY <1>1, <1>3, <2>1 DEF SettleInv, LiveReserve
    <2>2. CASE r \notin op[t].on \/ ~Settling(t)
        <3>1. count[r]["consume"] + count[r]["release"] <= count[r]["reserve"]
            BY DEF SettleInv, SettledOnce
        <3>2. count'[r]["reserve"] \in Nat
            BY CommitInv DEF Inv, TypeOK, RequestKinds
        <3> QED
            BY <1>1, <1>2, <2>2, <3>1, <3>2
    <2> QED
        BY <2>1, <2>2
<1>5. ASSUME NEW u \in Txs, Settling(u)', NEW r \in op'[u].on
      PROVE  LiveReserve(r)'
    <2>1. u # t /\ op'[u] = op[u]
        BY <1>5 DEF Commit, Finish, Settling, NoOp, Inv, TypeOK
    <2>2. r \in Requests /\ r \in op[u].on /\ Settling(u)
        BY <1>5, <2>1 DEF Inv, TypeOK, Op, Settling
    <2>3. r \notin op[t].on \/ ~Settling(t)
        BY <2>1, <2>2 DEF NoRivals
    <2>4. count[r]["reserve"] > count[r]["consume"] + count[r]["release"]
        BY <2>2 DEF SettleInv, LiveReserve
    <2>5. count'[r]["reserve"] \in Nat
        BY <2>2, CommitInv DEF Inv, TypeOK, RequestKinds
    <2> QED
        BY <1>1, <1>2, <2>2, <2>3, <2>4, <2>5 DEF LiveReserve
<1> QED
    BY <1>4, <1>5 DEF SettleInv

LEMMA NextSettles == Inv /\ SettleInv /\ NoRivals /\ [Next]_ledgerVars => SettleInv'
<1> SUFFICES ASSUME Inv, SettleInv, NoRivals, [Next]_ledgerVars PROVE SettleInv'
    OBVIOUS
<1>1. CASE UNCHANGED ledgerVars
    BY <1>1 DEF ledgerVars, SettleInv, SettledOnce, Settling, LiveReserve
<1>2. ASSUME NEW t \in Txs,
             \/ \E p \in Purchases : PurchaseCredits(t, p)
             \/ \E n \in 1..MaxGrants : GrantCredits(t, n)
             \/ \E S \in SUBSET Requests : ReserveCredits(t, S)
             \/ \E r \in Requests, k \in {"consume", "release"} : SettleCredit(t, r, k)
      PROVE  \E o \in Op : /\ Start(t, o)
                           /\ o.kind \in {"consume", "release"} => \A r \in o.on : LiveReserve(r)
    <2>1. ASSUME NEW p \in Purchases, PurchaseCredits(t, p)
          PROVE  \E o \in Op : Start(t, o) /\ o.kind = "purchase"
        BY <2>1, LedgerAssumption DEF PurchaseCredits, Op, Kinds
    <2>2. ASSUME NEW n \in 1..MaxGrants, GrantCredits(t, n)
          PROVE  \E o \in Op : Start(t, o) /\ o.kind = "grant"
        BY <2>2, LedgerAssumption DEF GrantCredits, Op, Kinds
    <2>3. ASSUME NEW S \in SUBSET Requests, ReserveCredits(t, S)
          PROVE  \E o \in Op : Start(t, o) /\ o.kind = "reserve"
        <3>1. Cardinality(S) \in Nat
            BY FS_Subset, FS_CardinalityType, LedgerAssumption
        <3> QED
            BY <2>3, <3>1 DEF ReserveCredits, Op, Kinds
    <2>4. ASSUME NEW r \in Requests, NEW k \in {"consume", "release"}, SettleCredit(t, r, k)
          PROVE  \E o \in Op : Start(t, o) /\ o.on = {r} /\ LiveReserve(r)
        BY <2>4 DEF SettleCredit, Op, Kinds
    <2> QED
        BY <1>2, <2>1, <2>2, <2>3, <2>4
<1>3. ASSUME NEW t \in Txs,
             \/ LockRow(t) \/ MissRow(t) \/ InsertRow(t) \/ RefuseReserve(t)
             \/ InsertConflict(t) \/ CheckViolation(t) \/ AlreadyCredited(t)
             \/ Rollback(t)
      PROVE  count' = count /\ (op' = op \/ op' = [op EXCEPT ![t] = NoOp])
    BY <1>3 DEF LockRow, MissRow, InsertRow, RefuseReserve, InsertConflict,
                CheckViolation, AlreadyCredited, Rollback, Finish, Nothing
<1> QED
    BY <1>1, <1>2, <1>3, StartSettles, EndSettles, CommitSettles DEF Next

(* A reservation is settled at most once, whatever else runs, as long as   *)
(* no two transactions settle the same request at the same time: the race  *)
(* of a cancellation with an expiry is all that SettledOnce fails for.     *)
THEOREM LedgerSettledOnce == Spec /\ []NoRivals => []SettledOnce
<1>1. Init => SettleInv
    BY LedgerAssumption
    DEF Init, SettleInv, SettledOnce, Settling, NoOp, RequestKinds
<1>2. SettleInv => SettledOnce
    BY DEF SettleInv
<1> QED
    BY <1>1, <1>2, SpecInv, NextSettles, PTL DEF Spec

(* Nobody inserts a row that is there, and what Paddle was told is in the  *)
(* journal.                                                                *)
PaidInv ==
    /\ PaidIsCredited
    /\ row.exists => \A t \in Txs : pc[t] # "insert"

LEMMA NextPaid == Inv /\ PaidInv /\ FirstAlone /\ [Next]_ledgerVars => PaidInv'
<1> SUFFICES ASSUME Inv, PaidInv, FirstAlone, [Next]_ledgerVars PROVE PaidInv'
    OBVIOUS
<1>t. pc \in [Txs -> {"idle", "lock", "insert", "write"}]
    BY DEF Inv, TypeOK
<1>1. CASE UNCHANGED ledgerVars
    BY <1>1 DEF ledgerVars, PaidInv, PaidIsCredited
<1>2. ASSUME NEW t \in Txs,
             \/ \E p \in Purchases : PurchaseCredits(t, p)
             \/ \E n \in 1..MaxGrants : GrantCredits(t, n)
             \/ \E S \in SUBSET Requests : ReserveCredits(t, S)
             \/ \E r \in Requests, k \in {"consume", "release"} : SettleCredit(t, r, k)
      PROVE  /\ UNCHANGED <<row, bought, acked>>
             /\ pc' = [pc EXCEPT ![t] = "lock"]
    BY <1>2 DEF PurchaseCredits, GrantCredits, ReserveCredits, SettleCredit, Start
<1>3. ASSUME NEW t \in Txs, LockRow(t) \/ InsertRow(t)
      PROVE  /\ UNCHANGED <<row, bought, acked>>
             /\ pc' = [pc EXCEPT ![t] = "write"]
    BY <1>3 DEF LockRow, InsertRow
<1>4. ASSUME NEW t \in Txs, MissRow(t)
      PROVE  ~row'.exists /\ bought' = bought /\ acked' = acked
    BY <1>4 DEF MissRow
<1>5. ASSUME NEW t \in Txs,
             \/ RefuseReserve(t) \/ CheckViolation(t) \/ AlreadyCredited(t)
             \/ Rollback(t)
      PROVE  /\ row' = row /\ bought' = bought
             /\ acked' \subseteq acked \cup bought
             /\ pc' = [pc EXCEPT ![t] = "idle"]
    <2>1. CASE RefuseReserve(t) \/ CheckViolation(t) \/ Rollback(t)
        BY <2>1 DEF RefuseReserve, CheckViolation, Rollback, Finish, Nothing
    <2>2. CASE AlreadyCredited(t)
        <3>1. \E p \in Purchases : op[t].txn \subseteq {p}
            BY <2>2, LedgerAssumption DEF AlreadyCredited, Belt, Inv, OpInv
        <3>2. op[t].txn \subseteq bought
            BY <2>2, <3>1 DEF AlreadyCredited, Belt
        <3> QED
            BY <2>2, <3>2 DEF AlreadyCredited, Finish, Nothing
    <2> QED
        BY <1>5, <2>1, <2>2
<1>6. ASSUME NEW t \in Txs, InsertConflict(t)
      PROVE  FALSE
    BY <1>6 DEF InsertConflict, PaidInv
<1>7. ASSUME NEW t \in Txs, Commit(t)
      PROVE  PaidInv'
    <2>1. /\ bought' = bought \cup op[t].txn /\ acked' = acked \cup op[t].txn
          /\ pc' = [pc EXCEPT ![t] = "idle"]
        BY <1>7 DEF Commit, Finish
    <2>2. PaidIsCredited'
        BY <2>1 DEF PaidInv, PaidIsCredited
    <2>3. ASSUME NEW u \in Txs PROVE pc'[u] # "insert"
        <3>1. CASE u = t
            BY <1>t, <2>1, <3>1
        <3>2. CASE u # t /\ row.exists
            BY <1>t, <2>1, <3>2 DEF PaidInv
        <3>3. CASE u # t /\ ~row.exists
            <4>1. pc[t] # "idle"
                BY <1>7 DEF Commit
            <4>2. pc[u] = "idle"
                BY <3>3, <4>1 DEF FirstAlone
            <4> QED
                BY <1>t, <2>1, <3>3, <4>2
        <3> QED
            BY <3>1, <3>2, <3>3
    <2> QED
        BY <2>2, <2>3 DEF PaidInv
<1>8. ASSUME NEW t \in Txs, NEW x \in {"lock", "write", "idle"},
             row' = row, bought' = bought, acked' \subseteq acked \cup bought,
             pc' = [pc EXCEPT ![t] = x]
      PROVE  PaidInv'
    BY <1>t, <1>8 DEF PaidInv, PaidIsCredited
<1>9. ASSUME ~row'.exists, bought' = bought, acked' = acked
      PROVE  PaidInv'
    BY <1>9 DEF PaidInv, PaidIsCredited
<1> QED
    BY <1>1, <1>2, <1>3, <1>4, <1>5, <1>6, <1>7, <1>8, <1>9 DEF Next

(* Every pack whose event was answered 200 is in the journal, for any      *)
(* number of deliveries and whatever rolls back, once the agency's balance *)
(* row exists or while its transactions run one by one: the INSERT that    *)
(* loses the race for the very first row is all that PaidIsCredited fails  *)
(* for.                                                                    *)
THEOREM LedgerPaidIsCredited == Spec /\ []FirstAlone => []PaidIsCredited
<1>1. Init => PaidInv
    BY DEF Init, PaidInv, PaidIsCredited
<1>2. PaidInv => PaidIsCredited
    BY DEF PaidInv
<1> QED
    BY <1>1, <1>2, SpecInv, NextPaid, PTL DEF Spec
=================================================================================
