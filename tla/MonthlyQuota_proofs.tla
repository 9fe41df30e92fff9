------------------------ MODULE MonthlyQuota_proofs ------------------------
(***************************************************************************)
(* Proofs about MonthlyQuota, for any number of accounts, nodes, handlers, *)
(* months and restarts.                                                    *)
(*                                                                         *)
(* OneGrantPerMonth is not inductive: that a commit adds exactly the       *)
(* difference rests on the row still being what the transaction read, which*)
(* rests on the lock.  IInv says so of every transaction that is open.     *)
(* BillsFit adds to the bills what open transactions still have to enter,  *)
(* and RunsOK follows the accounts of a run from its list to their grants. *)
(***************************************************************************)
EXTENDS MonthlyQuota, TLAPS

ActiveStages == {"lookup", "insert", "write", "log"}

\* What an open transaction knows of the books.
TxOK(w) ==
    /\ tx[w].at \in ActiveStages =>
          tx[w].want \in {StudentQuota, TeacherQuota} /\ tx[w].want > 0
    /\ tx[w].at \in {"lookup", "insert"} => tx[w].base = 0
    /\ tx[w].at \in {"write", "log"} => tx[w].base < tx[w].want
    /\ tx[w].at = "write" =>
          tx[w].base = granted[tx[w].user][tx[w].month]
    /\ tx[w].at = "log" => ~SharedLogDb

TxInv == \A w \in Workers : TxOK(w)

IInv == TypeOK /\ OneGrantPerMonth /\ BillsFollowGrants /\ GrantIsExclusive /\ TxInv

----------------------------------------------------------------------------
LEMMA ConstantsType ==
    /\ Nodes \subseteq Workers /\ Handlers \subseteq Workers
    /\ Nodes \cap Handlers = {}
    /\ NoTx \in Transactions /\ NoTx.at = "none"
    /\ NoRow \in Rows
    /\ 1 \in Months
    /\ \A r \in Roles : MonthlyQuotaForRole(r) \in Nat
    /\ \A r \in Roles : MonthlyQuotaForRole(r) > 0
            => MonthlyQuotaForRole(r) \in {StudentQuota, TeacherQuota}
    /\ StudentQuota \in Nat /\ TeacherQuota \in Nat
  <1>1. (CHOOSE u \in Users : TRUE) \in Users
    BY MonthlyAssumption
  <1>2. 1 \in Months
    BY MonthlyAssumption DEF Months
  <1> QED
    BY <1>1, <1>2, MonthlyAssumption
       DEF NoTx, NoRow, Workers, MonthlyQuotaForRole, Roles, Transactions, Rows

LEMMA ClockType ==
    ASSUME TypeOK
    PROVE  /\ monthlyGrantMonth \in Months
           /\ nextMonthlyQuotaGrantTime \in 1 .. MaxMonth + 1
  BY MonthlyAssumption, SMTT(30)
     DEF TypeOK, monthlyGrantMonth, nextMonthlyQuotaGrantTime, Months

LEMMA InitIInv == Init => IInv
  <1> SUFFICES ASSUME Init PROVE IInv
    OBVIOUS
  <1> USE ConstantsType
  <1>1. granted \in Books /\ \A u \in Users, m \in Months : granted[u][m] = 0
    BY DEF Init, Books
  <1>2. TypeOK
    <2>1. clock \in 2 .. 2 * MaxMonth + 1
      BY MonthlyAssumption DEF Init
    <2>2. quota \in [Users -> Nat]
      BY MonthlyAssumption DEF Init
    <2>3. tx \in [Workers -> Transactions]
      BY DEF Init
    <2>4. row \in [Handlers -> Rows]
      BY DEF Init
    <2>5. granted \in Books /\ billed \in Books /\ paid \in Books
      BY <1>1 DEF Init
    <2>6. /\ month \in [Nodes -> Months]
          /\ due \in [Nodes -> 1 .. MaxMonth + 1]
          /\ crashes \in 0 .. MaxCrashes
      BY MonthlyAssumption DEF Init
    <2>7. /\ role \in [Users -> Roles]
          /\ status \in [Users -> {"enabled", "disabled", "absent"}]
          /\ npc \in [Nodes -> {"off", "running", "waiting"}]
          /\ todo \in [Nodes -> SUBSET Users]
          /\ hpc \in [Handlers -> {"idle", "update", "grant"}]
          /\ steady \in [Nodes -> SUBSET Users]
      BY DEF Init
    <2> QED
      BY <2>1, <2>2, <2>3, <2>4, <2>5, <2>6, <2>7 DEF TypeOK
  <1>3. OneGrantPerMonth /\ BillsFollowGrants
    BY <1>1 DEF Init, OneGrantPerMonth, BillsFollowGrants
  <1>4. GrantIsExclusive /\ TxInv
    BY DEF Init, GrantIsExclusive, TxInv, TxOK, ActiveStages
  <1> QED
    BY <1>2, <1>3, <1>4 DEF IInv

----------------------------------------------------------------------------
(* The steps that leave books and transactions alone.                      *)

LEMMA SameBooks ==
    ASSUME IInv, TypeOK', UNCHANGED <<books, tx>>
    PROVE  IInv'
  BY DEF IInv, books, OneGrantPerMonth, BillsFollowGrants, GrantIsExclusive, TxInv, TxOK

\* A transaction that ends, or starts, does not break what others know.
LEMMA TxSettled ==
    ASSUME IInv, TypeOK', UNCHANGED books,
           NEW w \in Workers, \A v \in Workers : v # w => tx'[v] = tx[v],
           TxOK(w)', tx'[w].at # "write"
    PROVE  IInv'
  <1>1. OneGrantPerMonth' /\ BillsFollowGrants'
    BY DEF IInv, books, OneGrantPerMonth, BillsFollowGrants
  <1>2. GrantIsExclusive'
    BY DEF IInv, GrantIsExclusive
  <1>3. TxInv'
    BY DEF IInv, TxInv, TxOK, books
  <1> QED
    BY <1>1, <1>2, <1>3 DEF IInv

\* A transaction that takes the lock.
LEMMA TxLocks ==
    ASSUME IInv, TypeOK', UNCHANGED books,
           NEW w \in Workers, \A v \in Workers : v # w => tx'[v] = tx[v],
           TxOK(w)', Unlocked(tx'[w].user, tx'[w].month)
    PROVE  IInv'
  <1>1. OneGrantPerMonth' /\ BillsFollowGrants'
    BY DEF IInv, books, OneGrantPerMonth, BillsFollowGrants
  <1>2. GrantIsExclusive'
    BY DEF IInv, GrantIsExclusive, Unlocked, Holds
  <1>3. TxInv'
    BY DEF IInv, TxInv, TxOK, books
  <1> QED
    BY <1>1, <1>2, <1>3 DEF IInv

LEMMA EndTxType ==
    ASSUME TypeOK, NEW w \in Workers, NEW ok \in BOOLEAN, EndTx(w, ok)
    PROVE  /\ tx' \in [Workers -> Transactions]
           /\ todo' \in [Nodes -> SUBSET Users]
           /\ hpc' \in [Handlers -> {"idle", "update", "grant"}]
           /\ row' \in [Handlers -> Rows]
           /\ tx'[w] = NoTx
           /\ \A v \in Workers : v # w => tx'[v] = tx[v]
  <1> USE ConstantsType DEF TypeOK, EndTx, Return, web
  <1>0. /\ tx' \in [Workers -> Transactions]
        /\ tx'[w] = NoTx
        /\ \A v \in Workers : v # w => tx'[v] = tx[v]
    OBVIOUS
  <1>1. CASE w \in Nodes
    <2>1. /\ todo' = [todo EXCEPT ![w] = IF ok THEN @ \ {tx[w].user} ELSE {}]
          /\ hpc' = hpc /\ row' = row
      BY <1>1
    <2>2. todo' \in [Nodes -> SUBSET Users]
      BY <1>1, <2>1
    <2> QED
      BY <1>0, <2>1, <2>2
  <1>2. CASE w \notin Nodes
    <2>1. w \in Handlers
      BY <1>2 DEF Workers
    <2>2. /\ hpc' = [hpc EXCEPT ![w] = "idle"]
          /\ row' = [row EXCEPT ![w] = NoRow]
          /\ todo' = todo
      BY <1>2
    <2>4. hpc' \in [Handlers -> {"idle", "update", "grant"}]
      BY <2>2
    <2>5. row' \in [Handlers -> Rows]
      BY <2>2
    <2> QED
      BY <1>0, <2>2, <2>4, <2>5
  <1> QED
    BY <1>1, <1>2

LEMMA NoTxOK ==
    ASSUME NEW w \in Workers, tx'[w] = NoTx
    PROVE  TxOK(w)' /\ tx'[w].at # "write"
  BY DEF NoTx, TxOK, ActiveStages

\* A transaction that ends without having written.
LEMMA EndsQuietly ==
    ASSUME IInv, NEW w \in Workers, NEW ok \in BOOLEAN, EndTx(w, ok), Quiet
    PROVE  IInv'
  <1>1. TypeOK
    BY DEF IInv
  <1>2. TypeOK'
    BY <1>1, EndTxType DEF TypeOK, Quiet, users, books, Books
  <1>3. TxOK(w)' /\ tx'[w].at # "write"
    BY <1>1, EndTxType, NoTxOK
  <1> QED
    BY <1>1, <1>2, <1>3, EndTxType, TxSettled DEF Quiet

----------------------------------------------------------------------------
(* The statements of a transaction.                                        *)

LEMMA SkipInv ==
    ASSUME IInv, NEW w \in Workers, Skip(w)
    PROVE  IInv'
  BY EndsQuietly DEF Skip

LEMMA TargetUnavailableInv ==
    ASSUME IInv, NEW w \in Workers, TargetUnavailable(w)
    PROVE  IInv'
  BY EndsQuietly DEF TargetUnavailable

LEMMA TxFailsInv ==
    ASSUME IInv, NEW w \in Workers, TxFails(w)
    PROVE  IInv'
  BY EndsQuietly DEF TxFails

\* A statement that changes nothing but the transaction's own record.
LEMMA TxStepType ==
    ASSUME TypeOK, NEW w \in Workers, NEW t \in Transactions,
           tx' = [tx EXCEPT ![w] = t],
           UNCHANGED <<clock, users, books, nodes, web, crashes, steady>>
    PROVE  /\ TypeOK'
           /\ UNCHANGED books
           /\ tx'[w] = t
           /\ \A v \in Workers : v # w => tx'[v] = tx[v]
  BY DEF TypeOK, users, books, nodes, web, Books

LEMMA ReadUserInv ==
    ASSUME IInv, NEW w \in Workers, NEW u \in Users, NEW m \in Months,
           ReadUser(w, u, m),
           UNCHANGED <<clock, users, books, nodes, web, crashes, steady>>
    PROVE  IInv'
  <1> DEFINE want == MonthlyQuotaForRole(role[u])
             t == IF status[u] = "enabled" /\ want > 0
                  THEN [at |-> "lookup", user |-> u, month |-> m,
                        want |-> want, base |-> 0]
                  ELSE [NoTx EXCEPT !.at = "skip", !.user = u]
  <1>1. TypeOK
    BY DEF IInv
  <1>2. role[u] \in Roles
    BY <1>1 DEF TypeOK
  <1>3. want \in Nat /\ (want > 0 => want \in {StudentQuota, TeacherQuota})
    BY <1>2, ConstantsType
  <1>4. CASE status[u] = "enabled" /\ want > 0
    <2>1. t = [at |-> "lookup", user |-> u, month |-> m, want |-> want, base |-> 0]
      BY <1>4
    <2> HIDE DEF want
    <2>2. t \in Transactions
      BY <1>3, <2>1 DEF Transactions
    <2>3. tx' = [tx EXCEPT ![w] = t]
      BY DEF ReadUser, want
    <2> HIDE DEF t
    <2>4. TypeOK' /\ UNCHANGED books /\ tx'[w] = t
          /\ \A v \in Workers : v # w => tx'[v] = tx[v]
      BY <1>1, <2>2, <2>3, TxStepType
    <2>5. TxOK(w)' /\ tx'[w].at # "write"
      BY <1>3, <1>4, <2>1, <2>4 DEF TxOK, ActiveStages
    <2> QED
      BY <2>4, <2>5, TxSettled
  <1>5. CASE ~(status[u] = "enabled" /\ want > 0)
    <2>1. t = [NoTx EXCEPT !.at = "skip", !.user = u]
      BY <1>5
    <2> HIDE DEF want
    <2>2. t \in Transactions /\ t.at = "skip"
      BY <2>1, ConstantsType DEF Transactions
    <2>3. tx' = [tx EXCEPT ![w] = t]
      BY DEF ReadUser, want
    <2> HIDE DEF t
    <2>4. TypeOK' /\ UNCHANGED books /\ tx'[w] = t
          /\ \A v \in Workers : v # w => tx'[v] = tx[v]
      BY <1>1, <2>2, <2>3, TxStepType
    <2>5. TxOK(w)' /\ tx'[w].at # "write"
      BY <2>2, <2>4 DEF TxOK, ActiveStages
    <2> QED
      BY <2>4, <2>5, TxSettled
  <1> QED
    BY <1>4, <1>5

LEMMA LookupMissesInv ==
    ASSUME IInv, NEW w \in Workers, LookupMisses(w)
    PROVE  IInv'
  <1> DEFINE t == [tx[w] EXCEPT !.at = "insert"]
  <1>1. TypeOK /\ TxOK(w)
    BY DEF IInv, TxInv
  <1>2. t \in Transactions /\ t.at = "insert" /\ t.base = tx[w].base
        /\ t.want = tx[w].want
    BY <1>1 DEF TypeOK, Transactions
  <1>3. tx' = [tx EXCEPT ![w] = t]
    BY DEF LookupMisses
  <1> HIDE DEF t
  <1>4. TypeOK' /\ UNCHANGED books /\ tx'[w] = t
        /\ \A v \in Workers : v # w => tx'[v] = tx[v]
    BY <1>1, <1>2, <1>3, TxStepType DEF LookupMisses, Quiet, nodes
  <1>5. TxOK(w)' /\ tx'[w].at # "write"
    BY <1>1, <1>2, <1>4 DEF TxOK, ActiveStages, LookupMisses
  <1> QED
    BY <1>4, <1>5, TxSettled

\* Both ways to take the lock: the record says what the row holds.
LEMMA LockInv ==
    ASSUME IInv, NEW w \in Workers, NEW t \in Transactions,
           tx[w].at \in {"lookup", "insert"},
           tx' = [tx EXCEPT ![w] = t],
           t.at = "write", t.user = tx[w].user, t.month = tx[w].month,
           t.want = tx[w].want, t.base = granted[tx[w].user][tx[w].month],
           t.base < t.want,
           Unlocked(tx[w].user, tx[w].month),
           UNCHANGED <<todo, web>>, Quiet
    PROVE  IInv'
  <1>1. TypeOK /\ TxOK(w)
    BY DEF IInv, TxInv
  <1>2. TypeOK' /\ UNCHANGED books /\ tx'[w] = t
        /\ \A v \in Workers : v # w => tx'[v] = tx[v]
    BY <1>1, TxStepType DEF Quiet, nodes
  <1>3. TxOK(w)'
    BY <1>1, <1>2 DEF TxOK, ActiveStages, books
  <1> QED
    BY <1>2, <1>3, TxLocks

LEMMA LookupFindsInv ==
    ASSUME IInv, NEW w \in Workers, LookupFinds(w)
    PROVE  IInv'
  <1> DEFINE base == granted[tx[w].user][tx[w].month]
             t == [tx[w] EXCEPT !.at = "write", !.base = base]
  <1>1. TypeOK /\ tx[w] \in Transactions
    BY DEF IInv, TypeOK
  <1>2. base \in Nat
    BY <1>1 DEF TypeOK, Books, Transactions
  <1>3. CASE base >= tx[w].want
    BY <1>3, EndsQuietly DEF LookupFinds
  <1>4. CASE ~(base >= tx[w].want)
    <2>1. tx' = [tx EXCEPT ![w].at = "write", ![w].base = base]
      BY <1>4 DEF LookupFinds
    <2>2. tx' = [tx EXCEPT ![w] = t]
      BY <1>1, <2>1 DEF TypeOK, Transactions
    <2>3. base < tx[w].want
      BY <1>1, <1>2, <1>4 DEF Transactions
    <2>4. UNCHANGED <<todo, web>> /\ Quiet /\ tx[w].at = "lookup"
          /\ Unlocked(tx[w].user, tx[w].month)
      BY <1>4 DEF LookupFinds
    <2>5. t \in Transactions /\ t.at = "write" /\ t.user = tx[w].user
          /\ t.month = tx[w].month /\ t.want = tx[w].want /\ t.base = base
      BY <1>1, <1>2 DEF Transactions
    <2> HIDE DEF t
    <2> QED
      BY <2>2, <2>3, <2>4, <2>5, LockInv
  <1> QED
    BY <1>3, <1>4

LEMMA InsertInv ==
    ASSUME IInv, NEW w \in Workers, Insert(w)
    PROVE  IInv'
  <1> DEFINE base == granted[tx[w].user][tx[w].month]
             t == [tx[w] EXCEPT !.at = "write"]
  <1>1. TypeOK /\ tx[w] \in Transactions /\ TxOK(w)
    BY DEF IInv, TypeOK, TxInv
  <1>2. base \in Nat
    BY <1>1 DEF TypeOK, Books, Transactions
  <1>3. CASE base > 0
    BY <1>3, EndsQuietly DEF Insert
  <1>4. CASE ~(base > 0)
    <2>1. tx' = [tx EXCEPT ![w].at = "write"]
      BY <1>4 DEF Insert
    <2>2. tx' = [tx EXCEPT ![w] = t]
      BY <1>1, <2>1 DEF TypeOK, Transactions
    <2>3. UNCHANGED <<todo, web>> /\ Quiet /\ tx[w].at = "insert"
          /\ Unlocked(tx[w].user, tx[w].month)
      BY <1>4 DEF Insert
    <2>4. base = 0 /\ tx[w].base = 0 /\ 0 < tx[w].want
      BY <1>1, <1>2, <1>4, <2>3 DEF TxOK, ActiveStages, Transactions
    <2>5. t \in Transactions /\ t.at = "write" /\ t.user = tx[w].user
          /\ t.month = tx[w].month /\ t.want = tx[w].want /\ t.base = tx[w].base
      BY <1>1 DEF Transactions
    <2> HIDE DEF t
    <2> QED
      BY <2>2, <2>3, <2>4, <2>5, LockInv
  <1> QED
    BY <1>3, <1>4

\* One entry of the books moves by an amount.
Moved(c, b, u, m, x) == c = [b EXCEPT ![u][m] = x]

LEMMA BookEntry ==
    ASSUME NEW b \in Books, NEW u \in Users, NEW m \in Months, NEW x \in Nat,
           NEW c, Moved(c, b, u, m, x)
    PROVE  /\ c \in Books
           /\ c[u][m] = x
           /\ \A v \in Users, k \in Months : <<v, k>> # <<u, m>> => c[v][k] = b[v][k]
  BY DEF Books, Moved

LEMMA CommitInv ==
    ASSUME IInv, NEW w \in Workers, Commit(w)
    PROVE  IInv'
  <1> DEFINE u == tx[w].user
             m == tx[w].month
             want == tx[w].want
             base == tx[w].base
             inc == want - base
  <1>1. TypeOK /\ TxOK(w) /\ TxInv /\ tx[w].at = "write"
    BY DEF IInv, TxInv, Commit
  <1>2. u \in Users /\ m \in Months /\ want \in Nat /\ base \in Nat
    BY <1>1 DEF TypeOK, Transactions
  <1>3. base = granted[u][m] /\ base < want /\ want \in {StudentQuota, TeacherQuota}
    BY <1>1 DEF TxOK, ActiveStages
  <1>4. inc \in Nat /\ base + inc = want
    BY <1>2, <1>3
  <1>5. granted \in Books /\ paid \in Books /\ billed \in Books
    BY <1>1 DEF TypeOK
  <1>6. paid[u][m] = base /\ (SharedLogDb => billed[u][m] = base)
        /\ billed[u][m] \in Nat /\ billed[u][m] + inc \in Nat
    <2>1. paid[u][m] = base /\ (SharedLogDb => billed[u][m] = base)
      BY <1>2, <1>3 DEF IInv, OneGrantPerMonth, BillsFollowGrants
    <2>2. billed[u][m] \in Nat
      BY <1>2, <1>5 DEF Books
    <2> QED
      BY <1>4, <2>1, <2>2
  <1>7. /\ granted' = [granted EXCEPT ![u][m] = want]
        /\ paid' = [paid EXCEPT ![u][m] = want]
    <2>1. paid' = [paid EXCEPT ![u][m] = @ + inc]
      BY DEF Commit
    <2>2. paid[u][m] + inc = want
      BY <1>4, <1>6
    <2>3. paid' = [paid EXCEPT ![u][m] = want]
      BY <1>2, <1>5, <2>1, <2>2 DEF Books
    <2> QED
      BY <2>3 DEF Commit
  <1>8. /\ granted' \in Books /\ paid' \in Books
        /\ granted'[u][m] = want /\ paid'[u][m] = want
        /\ \A v \in Users, k \in Months : <<v, k>> # <<u, m>> =>
              granted'[v][k] = granted[v][k] /\ paid'[v][k] = paid[v][k]
    <2>1. /\ granted' \in Books /\ granted'[u][m] = want
          /\ \A v \in Users, k \in Months : <<v, k>> # <<u, m>> =>
                granted'[v][k] = granted[v][k]
      <3>1. Moved(granted', granted, u, m, want)
        BY <1>7 DEF Moved
      <3> HIDE DEF u, m, want
      <3> QED
        BY <1>2, <1>5, <3>1, BookEntry
    <2>2. /\ paid' \in Books /\ paid'[u][m] = want
          /\ \A v \in Users, k \in Months : <<v, k>> # <<u, m>> =>
                paid'[v][k] = paid[v][k]
      <3>1. Moved(paid', paid, u, m, want)
        BY <1>7 DEF Moved
      <3> HIDE DEF u, m, want
      <3> QED
        BY <1>2, <1>5, <3>1, BookEntry
    <2> QED
      BY <2>1, <2>2
  <1>9. OneGrantPerMonth'
    <2> SUFFICES ASSUME NEW v \in Users, NEW k \in Months
                 PROVE  /\ paid'[v][k] = granted'[v][k]
                        /\ granted'[v][k] \in {0, StudentQuota, TeacherQuota}
      BY DEF OneGrantPerMonth
    <2>1. CASE <<v, k>> = <<u, m>>
      BY <1>3, <1>8, <2>1
    <2>2. CASE <<v, k>> # <<u, m>>
      BY <1>8, <2>2 DEF IInv, OneGrantPerMonth
    <2> QED
      BY <2>1, <2>2
  <1>10. /\ billed' \in Books /\ BillsFollowGrants'
         /\ tx' \in [Workers -> Transactions] /\ TxOK(w)' /\ tx'[w].at # "write"
         /\ \A v \in Workers : v # w => tx'[v] = tx[v]
         /\ todo' \in [Nodes -> SUBSET Users]
         /\ hpc' \in [Handlers -> {"idle", "update", "grant"}]
         /\ row' \in [Handlers -> Rows]
    <2>1. CASE SharedLogDb
      <3>1. EndTx(w, TRUE)
        BY <2>1 DEF Commit
      <3>2. billed' = [billed EXCEPT ![u][m] = want]
        <4>1. billed' = [billed EXCEPT ![u][m] = @ + inc]
          BY <2>1 DEF Commit
        <4>2. billed[u][m] + inc = want
          BY <1>4, <1>6, <2>1
        <4> QED
          BY <1>2, <1>5, <4>1, <4>2 DEF Books
      <3>3. /\ billed' \in Books /\ billed'[u][m] = want
            /\ \A v \in Users, k \in Months : <<v, k>> # <<u, m>> =>
                  billed'[v][k] = billed[v][k]
        <4>1. Moved(billed', billed, u, m, want)
          BY <3>2 DEF Moved
        <4> HIDE DEF u, m, want
        <4> QED
          BY <1>2, <1>5, <4>1, BookEntry
      <3>4. BillsFollowGrants'
        <4> SUFFICES ASSUME NEW v \in Users, NEW k \in Months
                     PROVE  billed'[v][k] = granted'[v][k]
          BY DEF BillsFollowGrants
        <4>1. CASE <<v, k>> = <<u, m>>
          BY <1>8, <3>3, <4>1
        <4>2. CASE <<v, k>> # <<u, m>>
          BY <1>8, <2>1, <3>3, <4>2 DEF IInv, BillsFollowGrants
        <4> QED
          BY <4>1, <4>2
      <3> QED
        BY <1>1, <3>1, <3>3, <3>4, EndTxType, NoTxOK
    <2>2. CASE ~SharedLogDb
      <3> DEFINE t == [tx[w] EXCEPT !.at = "log"]
      <3>1. tx' = [tx EXCEPT ![w].at = "log"] /\ UNCHANGED <<billed, todo, web>>
        BY <2>2 DEF Commit
      <3>2. t \in Transactions /\ t.at = "log" /\ t.want = want /\ t.base = base
        BY <1>1 DEF TypeOK, Transactions
      <3>3. tx' = [tx EXCEPT ![w] = t]
        BY <1>1, <3>1 DEF TypeOK, Transactions
      <3> HIDE DEF t
      <3>4. tx' \in [Workers -> Transactions] /\ tx'[w] = t
            /\ \A v \in Workers : v # w => tx'[v] = tx[v]
        BY <1>1, <3>2, <3>3 DEF TypeOK
      <3>5. TxOK(w)'
        BY <1>2, <1>3, <2>2, <3>2, <3>4 DEF TxOK, ActiveStages
      <3>6. BillsFollowGrants'
        BY <2>2 DEF BillsFollowGrants
      <3> QED
        BY <1>1, <3>1, <3>2, <3>4, <3>5, <3>6 DEF TypeOK, web
    <2> QED
      BY <2>1, <2>2
  <1>11. TypeOK'
    <2>1. quota' \in [Users -> Nat]
      <3>1. quota' = [quota EXCEPT ![u] = @ + inc]
        BY DEF Commit
      <3>2. quota[u] + inc \in Nat
        BY <1>1, <1>2, <1>4 DEF TypeOK
      <3> QED
        BY <1>1, <3>1, <3>2 DEF TypeOK
    <2> QED
      BY <1>1, <1>8, <1>10, <2>1 DEF TypeOK, Commit
  <1>12. GrantIsExclusive'
    BY <1>10 DEF IInv, GrantIsExclusive
  <1>13. TxInv'
    <2> SUFFICES ASSUME NEW v \in Workers, v # w
                 PROVE  TxOK(v)'
      BY <1>10 DEF TxInv
    <2>1. tx'[v] = tx[v] /\ TxOK(v)
      BY <1>1, <1>10 DEF TxInv
    <2>2. CASE tx[v].at = "write"
      <3>1. <<tx[v].user, tx[v].month>> # <<u, m>>
        BY <1>1, <2>2 DEF IInv, GrantIsExclusive
      <3>2. tx[v].user \in Users /\ tx[v].month \in Months
        BY <1>1 DEF TypeOK, Transactions
      <3>3. granted'[tx[v].user][tx[v].month] = granted[tx[v].user][tx[v].month]
        BY <1>8, <3>1, <3>2
      <3> QED
        BY <2>1, <3>3 DEF TxOK
    <2>3. CASE tx[v].at # "write"
      BY <2>1, <2>3 DEF TxOK
    <2> QED
      BY <2>2, <2>3
  <1> QED
    BY <1>9, <1>10, <1>11, <1>12, <1>13 DEF IInv

LEMMA WriteLogInv ==
    ASSUME IInv, NEW w \in Workers, WriteLog(w)
    PROVE  IInv'
  <1> DEFINE u == tx[w].user
             m == tx[w].month
             bill == billed[u][m] + tx[w].want - tx[w].base
  <1>1. TypeOK /\ TxOK(w) /\ TxInv /\ tx[w].at = "log"
    BY DEF IInv, TxInv, WriteLog
  <1>2. u \in Users /\ m \in Months /\ bill \in Nat
    <2>1. u \in Users /\ m \in Months /\ tx[w].want \in Nat /\ tx[w].base \in Nat
      BY <1>1 DEF TypeOK, Transactions
    <2>2. billed[u][m] \in Nat
      BY <1>1, <2>1 DEF TypeOK, Books
    <2>3. tx[w].base < tx[w].want
      BY <1>1 DEF TxOK
    <2> QED
      BY <2>1, <2>2, <2>3
  <1>3. ~SharedLogDb
    BY <1>1 DEF TxOK
  <1>4. billed' \in Books
    <2> SUFFICES ASSUME billed' # billed PROVE billed' \in Books
      BY <1>1 DEF TypeOK
    <2>1. Moved(billed', billed, u, m, bill)
      BY <1>1, <1>2 DEF WriteLog, TypeOK, Books, Moved
    <2> HIDE DEF u, m, bill
    <2> QED
      BY <1>1, <1>2, <2>1, BookEntry DEF TypeOK
  <1>5. EndTx(w, TRUE)
    BY DEF WriteLog
  <1>6. TypeOK'
    BY <1>1, <1>4, <1>5, EndTxType DEF TypeOK, WriteLog, users
  <1>7. OneGrantPerMonth' /\ BillsFollowGrants'
    BY <1>3 DEF IInv, OneGrantPerMonth, BillsFollowGrants, WriteLog
  <1>8. TxOK(w)' /\ tx'[w].at # "write" /\ \A v \in Workers : v # w => tx'[v] = tx[v]
    BY <1>1, <1>5, EndTxType, NoTxOK
  <1>9. GrantIsExclusive' /\ TxInv'
    <2>1. granted' = granted
      BY DEF WriteLog
    <2>2. TxInv'
      BY <1>1, <1>8, <2>1 DEF TxInv, TxOK
    <2> QED
      BY <1>8, <2>2 DEF IInv, GrantIsExclusive
  <1> QED
    BY <1>6, <1>7, <1>9 DEF IInv

LEMMA GrantInv ==
    ASSUME IInv, NEW w \in Workers, Grant(w)
    PROVE  IInv'
  BY SkipInv, LookupFindsInv, LookupMissesInv, InsertInv, CommitInv,
     TargetUnavailableInv, TxFailsInv, WriteLogInv DEF Grant

----------------------------------------------------------------------------
(* The scheduler.                                                          *)

LEMMA RunInv ==
    ASSUME IInv, NEW n \in Nodes, NEW m \in Months, Run(n, m)
    PROVE  IInv'
  <1>1. TypeOK'
    BY DEF IInv, TypeOK, Run, users, books, web, Months
  <1> QED
    BY <1>1, SameBooks DEF Run

LEMMA SchedulerInv ==
    ASSUME IInv, NEW n \in Nodes, Scheduler(n)
    PROVE  IInv'
  <1>1. TypeOK
    BY DEF IInv
  <1>2. CASE Start(n)
    BY <1>1, <1>2, ClockType, RunInv DEF Start
  <1>3. CASE VisitUser(n)
    <2>1. PICK u \in todo[n] : ReadUser(n, u, month[n])
      BY <1>3 DEF VisitUser
    <2>2. u \in Users /\ month[n] \in Months
      BY <1>1, <1>3 DEF TypeOK, VisitUser, Months
    <2> QED
      BY <1>3, <2>1, <2>2, ReadUserInv, ConstantsType DEF VisitUser
  <1>4. CASE Wait(n)
    <2>1. TypeOK'
      BY <1>1, <1>4, ClockType DEF TypeOK, Wait, users, books, web
    <2> QED
      BY <1>4, <2>1, SameBooks DEF Wait
  <1>5. CASE Fire(n)
    BY <1>1, <1>5, RunInv DEF Fire, TypeOK, Months
  <1>6. CASE Grant(n)
    BY <1>6, GrantInv, ConstantsType
  <1> QED
    BY <1>2, <1>3, <1>4, <1>5, <1>6 DEF Scheduler

LEMMA CrashInv ==
    ASSUME IInv, NEW n \in Nodes, Crash(n)
    PROVE  IInv'
  <1>1. TypeOK /\ n \in Workers
    BY ConstantsType DEF IInv
  <1>2. /\ tx' \in [Workers -> Transactions] /\ tx'[n] = NoTx
        /\ \A v \in Workers : v # n => tx'[v] = tx[v]
    BY <1>1, ConstantsType DEF Crash, TypeOK
  <1>3. crashes' \in 0 .. MaxCrashes
    BY <1>1, MonthlyAssumption DEF Crash, TypeOK
  <1>4. TypeOK'
    BY <1>1, <1>2, <1>3 DEF TypeOK, Crash, users, books, web
  <1> QED
    BY <1>1, <1>2, <1>4, NoTxOK, TxSettled DEF Crash

----------------------------------------------------------------------------
(* The handlers and the clock.                                             *)

LEMMA RoleChange ==
    ASSUME NEW from \in Roles, NEW to \in Roles, NEW q \in Nat
    PROVE  applyRoleChangeQuota(from, to, q) \in Nat
  BY ConstantsType, MonthlyAssumption DEF applyRoleChangeQuota

LEMMA RegisterInv ==
    ASSUME IInv, NEW h \in Handlers, NEW u \in Users, Register(h, u)
    PROVE  IInv'
  <1>1. TypeOK
    BY DEF IInv
  <1>2. row' \in [Handlers -> Rows]
    <2>1. [NoRow EXCEPT !.user = u] \in Rows
      BY ConstantsType DEF Rows
    <2> QED
      BY <1>1, <2>1 DEF TypeOK, Register
  <1>3. /\ role' \in [Users -> Roles]
        /\ status' \in [Users -> {"enabled", "disabled", "absent"}]
        /\ quota' \in [Users -> Nat]
        /\ hpc' \in [Handlers -> {"idle", "update", "grant"}]
    BY <1>1, MonthlyAssumption DEF TypeOK, Register, Roles
  <1>4. TypeOK'
    BY <1>1, <1>2, <1>3 DEF TypeOK, Register, books, nodes
  <1> QED
    BY <1>4, SameBooks DEF Register

LEMMA ManageReadInv ==
    ASSUME IInv, NEW h \in Handlers, NEW u \in Users, ManageRead(h, u)
    PROVE  IInv'
  <1>1. TypeOK /\ role[u] \in Roles /\ quota[u] \in Nat
        /\ status[u] \in {"enabled", "disabled", "absent"}
    BY DEF IInv, TypeOK
  <1>2. PICK action \in Manageable :
           LET r == NewRole(action, role[u]) IN
           row' = [row EXCEPT ![h] =
                      [user |-> u, role |-> r,
                       status |-> NewStatus(action, status[u]),
                       quota |-> applyRoleChangeQuota(role[u], r, quota[u]),
                       promoted |-> role[u] = "student" /\ r = "teacher"]]
    BY DEF ManageRead
  <1> DEFINE r == NewRole(action, role[u])
             s == NewStatus(action, status[u])
             q == applyRoleChangeQuota(role[u], r, quota[u])
             pr == role[u] = "student" /\ r = "teacher"
             t == [user |-> u, role |-> r, status |-> s, quota |-> q, promoted |-> pr]
  <1>3. r \in Roles
    BY <1>1 DEF NewRole, Promoted, Demoted, Roles
  <1>4. s \in {"enabled", "disabled", "absent"}
    BY <1>1 DEF NewStatus
  <1>5. q \in Nat
    <2> HIDE DEF r
    <2> QED
      BY <1>1, <1>3, RoleChange
  <1>6. row' = [row EXCEPT ![h] = t]
    BY <1>2
  <1>7. pr \in BOOLEAN
    OBVIOUS
  <1>8. t \in Rows
    <2> HIDE DEF r, s, q, pr
    <2> QED
      BY <1>3, <1>4, <1>5, <1>7 DEF Rows
  <1> HIDE DEF t
  <1>9. row' \in [Handlers -> Rows]
    BY <1>1, <1>6, <1>8 DEF TypeOK
  <1>10. TypeOK'
    BY <1>1, <1>9 DEF TypeOK, ManageRead, users, books, nodes
  <1> QED
    BY <1>10, SameBooks DEF ManageRead

LEMMA ManageWriteInv ==
    ASSUME IInv, NEW h \in Handlers, ManageWrite(h)
    PROVE  IInv'
  <1>1. TypeOK /\ row[h] \in Rows
    BY DEF IInv, TypeOK
  <1>2. /\ role' \in [Users -> Roles]
        /\ status' \in [Users -> {"enabled", "disabled", "absent"}]
    BY <1>1 DEF TypeOK, ManageWrite, Rows
  <1>3. quota' \in [Users -> Nat]
    <2>1. quota' = [quota EXCEPT ![row[h].user] =
                       IF row[h].quota = 0 THEN quota[row[h].user] ELSE row[h].quota]
      BY <1>1 DEF ManageWrite, TypeOK, Rows
    <2> QED
      BY <1>1, <2>1 DEF TypeOK, Rows
  <1>4. /\ hpc' \in [Handlers -> {"idle", "update", "grant"}]
        /\ row' \in [Handlers -> Rows]
    BY <1>1, ConstantsType DEF TypeOK, ManageWrite
  <1>5. steady' \in [Nodes -> SUBSET Users]
    BY <1>1 DEF TypeOK, ManageWrite
  <1>6. TypeOK'
    BY <1>1, <1>2, <1>3, <1>4, <1>5 DEF TypeOK, ManageWrite, books, nodes
  <1> QED
    BY <1>6, SameBooks DEF ManageWrite

LEMMA HandlerInv ==
    ASSUME IInv, NEW h \in Handlers, Handler(h)
    PROVE  IInv'
  <1>1. TypeOK /\ row[h] \in Rows /\ h \in Workers
    BY ConstantsType DEF IInv, TypeOK
  <1>2. CASE HandlerGrant(h)
    <2>1. row[h].user \in Users /\ monthlyGrantMonth \in Months
      BY <1>1, ClockType DEF Rows
    <2> QED
      BY <1>1, <1>2, <2>1, ReadUserInv DEF HandlerGrant
  <1>3. CASE ManageWrite(h)
    BY <1>3, ManageWriteInv
  <1>4. CASE Grant(h)
    BY <1>1, <1>4, GrantInv
  <1> QED
    BY <1>2, <1>3, <1>4 DEF Handler

LEMMA TickInv ==
    ASSUME IInv, Tick
    PROVE  IInv'
  <1>1. TypeOK'
    BY MonthlyAssumption DEF IInv, TypeOK, Tick, users, books, nodes, web
  <1> QED
    BY <1>1, SameBooks DEF Tick

LEMMA StutterInv ==
    ASSUME IInv, UNCHANGED vars
    PROVE  IInv'
  <1>1. TypeOK'
    BY DEF IInv, TypeOK, vars, users, books, nodes, web, Books
  <1> QED
    BY <1>1, SameBooks DEF vars

LEMMA NextIInv == IInv /\ [Next]_vars => IInv'
  <1> SUFFICES ASSUME IInv, [Next]_vars PROVE IInv'
    OBVIOUS
  <1>1. ASSUME NEW n \in Nodes, Scheduler(n) \/ Crash(n) PROVE IInv'
    BY <1>1, SchedulerInv, CrashInv
  <1>2. ASSUME NEW h \in Handlers, Handler(h) PROVE IInv'
    BY <1>2, HandlerInv
  <1>3. ASSUME NEW h \in Handlers, NEW u \in Users, Register(h, u) \/ ManageRead(h, u)
        PROVE IInv'
    BY <1>3, RegisterInv, ManageReadInv
  <1>4. CASE Tick
    BY <1>4, TickInv
  <1>5. CASE UNCHANGED vars
    BY <1>5, StutterInv
  <1> QED
    BY <1>1, <1>2, <1>3, <1>4, <1>5 DEF Next

----------------------------------------------------------------------------
LEMMA Invariance == Spec => []IInv
  BY InitIInv, NextIInv, PTL DEF Spec

\* Every variable keeps its type, for every set of accounts, nodes and handlers.
THEOREM TypeCorrect == Spec => []TypeOK
  <1>1. IInv => TypeOK
    BY DEF IInv
  <1> QED
    BY <1>1, Invariance, PTL

\* GrantMonthlyQuotaForUser grants once: whatever transactions of nodes and
\* handlers overlap, and whichever roll back, the balance gained in a month what
\* the row of the grant says, which is the quota of one role.
THEOREM Grants_are_single == Spec => []OneGrantPerMonth
  <1>1. IInv => OneGrantPerMonth
    BY DEF IInv
  <1> QED
    BY <1>1, Invariance, PTL

\* In the default deployment the bills of a month add up to its grant.
THEOREM Bills_follow_grants == Spec => []BillsFollowGrants
  <1>1. IInv => BillsFollowGrants
    BY DEF IInv
  <1> QED
    BY <1>1, Invariance, PTL

\* The unique index and the row lock keep two open grants of one user and month
\* apart.
THEOREM Grants_are_exclusive == Spec => []GrantIsExclusive
  <1>1. IInv => GrantIsExclusive
    BY DEF IInv
  <1> QED
    BY <1>1, Invariance, PTL

----------------------------------------------------------------------------
(* Bills in a database of their own.  A bill is owed from the commit to the *)
(* entry.  That nothing is billed twice rests on what the transactions owe: *)
(* each owes the step from base to want, the steps of one grant do not      *)
(* overlap, and the bills written so far and those owed fit into the grant. *)

Owed(w, u, m) == tx[w].at = "log" /\ tx[w].user = u /\ tx[w].month = m
Step(w) == tx[w].want - tx[w].base

Fits(u, m) ==
    /\ billed[u][m] <= granted[u][m]
    /\ \A w \in Workers : Owed(w, u, m) =>
          /\ tx[w].base \in {0, StudentQuota, TeacherQuota}
          /\ tx[w].want <= granted[u][m]
          /\ billed[u][m] + Step(w) <= granted[u][m]
    /\ \A v, w \in Workers : v # w /\ Owed(v, u, m) /\ Owed(w, u, m) =>
          /\ tx[v].want <= tx[w].base \/ tx[w].want <= tx[v].base
          /\ billed[u][m] + Step(v) + Step(w) <= granted[u][m]

BillsFit == \A u \in Users, m \in Months : Fits(u, m)

LEMMA InitBillsFit == Init => BillsFit
  <1> SUFFICES ASSUME Init PROVE BillsFit
    OBVIOUS
  <1>1. \A w \in Workers : tx[w].at # "log"
    BY ConstantsType DEF Init
  <1>2. \A u \in Users, m \in Months : billed[u][m] = 0 /\ granted[u][m] = 0
    BY DEF Init
  <1> QED
    BY <1>1, <1>2 DEF BillsFit, Fits, Owed

\* A step of a transaction that neither writes books nor comes to owe a bill.
LEMMA SameBillsFit ==
    ASSUME BillsFit, granted' = granted, billed' = billed,
           \A v \in Workers : tx'[v] = tx[v] \/ tx'[v].at # "log"
    PROVE  BillsFit'
  BY DEF BillsFit, Fits, Owed, Step

\* The record of a transaction that goes on, or ends, without owing a bill.
LEMMA RecordsChange ==
    ASSUME TypeOK, NEW w \in Workers, NEW at \in {"lookup", "insert", "write"},
           NEW t \in Transactions, t.at = at,
           tx' = [tx EXCEPT ![w] = t]
    PROVE  \A v \in Workers : tx'[v] = tx[v] \/ tx'[v].at # "log"
  BY DEF TypeOK

LEMMA EndsOweNothing ==
    ASSUME TypeOK, NEW w \in Workers, NEW ok \in BOOLEAN, EndTx(w, ok)
    PROVE  \A v \in Workers : tx'[v] = tx[v] \/ tx'[v].at # "log"
  BY ConstantsType DEF TypeOK, EndTx

LEMMA CommitBillsFit ==
    ASSUME IInv, IInv', BillsFit, NEW w \in Workers, Commit(w)
    PROVE  BillsFit'
  <1> DEFINE U == tx[w].user
             M == tx[w].month
  <1>1. TypeOK /\ TxOK(w) /\ tx[w].at = "write" /\ tx[w] \in Transactions
    BY DEF IInv, TxInv, Commit, TypeOK
  <1>2. U \in Users /\ M \in Months
    BY <1>1 DEF Transactions
  <1>3. CASE SharedLogDb
    <2>1. \A v \in Workers : tx'[v].at # "log"
      BY <1>3 DEF IInv, TxInv, TxOK
    <2>2. \A u \in Users, m \in Months : billed'[u][m] <= granted'[u][m]
      BY <1>3 DEF IInv, BillsFollowGrants, TypeOK, Books
    <2> QED
      BY <2>1, <2>2 DEF BillsFit, Fits, Owed
  <1>4. CASE ~SharedLogDb
    <2>1. /\ billed' = billed
          /\ tx' = [tx EXCEPT ![w].at = "log"]
          /\ granted' = [granted EXCEPT ![U][M] = tx[w].want]
      BY <1>4 DEF Commit
    <2>2. /\ tx'[w].at = "log" /\ tx'[w].user = U /\ tx'[w].month = M
          /\ tx'[w].want = tx[w].want /\ tx'[w].base = tx[w].base
          /\ \A v \in Workers \ {w} : tx'[v] = tx[v]
      BY <1>1, <2>1 DEF TypeOK, Transactions
    <2>3. /\ granted'[U][M] = tx[w].want
          /\ \A u \in Users, m \in Months : <<u, m>> # <<U, M>> => granted'[u][m] = granted[u][m]
      <3>1. granted \in Books /\ tx[w].want \in Nat /\ Moved(granted', granted, U, M, tx[w].want)
        BY <1>1, <2>1 DEF TypeOK, Transactions, Moved
      <3> HIDE DEF U, M
      <3> QED
        BY <1>2, <3>1, BookEntry
    <2>4. /\ tx[w].base = granted[U][M] /\ tx[w].base < tx[w].want
          /\ tx[w].base \in {0, StudentQuota, TeacherQuota}
      BY <1>1, <1>2 DEF TxOK, IInv, OneGrantPerMonth
    <2> SUFFICES ASSUME NEW u \in Users, NEW m \in Months PROVE Fits(u, m)'
      BY DEF BillsFit
    <2>5. CASE <<u, m>> # <<U, M>>
      <3>1. \A v \in Workers : Owed(v, u, m)' => v # w /\ Owed(v, u, m)
        BY <2>2, <2>5 DEF Owed
      <3> QED
        BY <2>1, <2>2, <2>3, <2>5, <3>1 DEF BillsFit, Fits, Step
    <2>6. CASE <<u, m>> = <<U, M>>
      <3>1. /\ u = U /\ m = M /\ Fits(u, m)
            /\ billed[u][m] \in Nat /\ granted[u][m] \in Nat /\ granted'[u][m] = tx[w].want
            /\ \A v \in Workers : tx[v].base \in Nat /\ tx[v].want \in Nat
        BY <1>1, <2>3, <2>6 DEF BillsFit, TypeOK, Books, Transactions
      <3>2. \A v \in Workers \ {w} : Owed(v, u, m)' => Owed(v, u, m)
        BY <2>2 DEF Owed
      <3>3. billed'[u][m] <= granted'[u][m]
        BY <2>1, <2>4, <3>1 DEF Fits
      <3>4. /\ tx'[w].want <= granted'[u][m]
            /\ tx'[w].base \in {0, StudentQuota, TeacherQuota}
            /\ billed'[u][m] + Step(w)' <= granted'[u][m]
        BY <2>1, <2>2, <2>4, <3>1 DEF Fits, Step
      <3>5. ASSUME NEW v \in Workers \ {w}, Owed(v, u, m)'
            PROVE  /\ tx'[v].base \in {0, StudentQuota, TeacherQuota}
                   /\ tx'[v].want <= granted'[u][m]
                   /\ billed'[u][m] + Step(v)' <= granted'[u][m]
                   /\ tx'[v].want <= tx'[w].base
                   /\ billed'[u][m] + Step(v)' + Step(w)' <= granted'[u][m]
        <4>1. /\ tx'[v] = tx[v] /\ Owed(v, u, m)
              /\ tx[v].base \in {0, StudentQuota, TeacherQuota}
              /\ tx[v].want <= granted[u][m]
              /\ billed[u][m] + Step(v) <= granted[u][m]
          BY <2>2, <3>1, <3>2, <3>5 DEF Fits
        <4> QED
          BY <2>1, <2>2, <2>4, <3>1, <4>1 DEF Step
      <3>6. ASSUME NEW v \in Workers \ {w}, NEW x \in Workers \ {w}, v # x,
                   Owed(v, u, m)', Owed(x, u, m)'
            PROVE  /\ tx'[v].want <= tx'[x].base \/ tx'[x].want <= tx'[v].base
                   /\ billed'[u][m] + Step(v)' + Step(x)' <= granted'[u][m]
        <4>1. /\ tx'[v] = tx[v] /\ tx'[x] = tx[x]
              /\ tx[v].want <= tx[x].base \/ tx[x].want <= tx[v].base
              /\ billed[u][m] + Step(v) + Step(x) <= granted[u][m]
          BY <2>2, <3>1, <3>2, <3>6 DEF Fits
        <4> QED
          BY <2>1, <2>4, <3>1, <4>1 DEF Step
      <3>7. \A v, x \in Workers : v # x /\ Owed(v, u, m)' /\ Owed(x, u, m)' =>
               /\ tx'[v].want <= tx'[x].base \/ tx'[x].want <= tx'[v].base
               /\ billed'[u][m] + Step(v)' + Step(x)' <= granted'[u][m]
        <4> SUFFICES ASSUME NEW v \in Workers, NEW x \in Workers,
                            v # x, Owed(v, u, m)', Owed(x, u, m)'
                     PROVE  /\ tx'[v].want <= tx'[x].base \/ tx'[x].want <= tx'[v].base
                            /\ billed'[u][m] + Step(v)' + Step(x)' <= granted'[u][m]
          OBVIOUS
        <4>1. CASE v = w
          <5>1. billed'[u][m] \in Int /\ Step(w)' \in Int /\ Step(x)' \in Int
            BY <2>1, <2>2, <3>1, <4>1 DEF Step
          <5> QED
            BY <3>5, <4>1, <5>1
        <4>2. CASE x = w
          BY <3>5, <4>2
        <4>3. CASE v # w /\ x # w
          BY <3>6, <4>3
        <4> QED
          BY <4>1, <4>2, <4>3
      <3> QED
        BY <3>3, <3>4, <3>5, <3>7 DEF Fits
    <2> QED
      BY <2>5, <2>6
  <1> QED
    BY <1>3, <1>4

\* Three steps that do not overlap do not fit between two quotas and 0.
LEMMA NoThreeSteps ==
    ASSUME NEW S \in Nat, NEW T \in Nat,
           NEW a \in {0, S, T}, NEW b \in {0, S, T}, NEW c \in {0, S, T},
           NEW x \in {S, T}, NEW y \in {S, T}, NEW z \in {S, T},
           a < x, b < y, c < z,
           x <= b \/ y <= a, y <= c \/ z <= b, x <= c \/ z <= a
    PROVE  FALSE
  OBVIOUS

LEMMA WriteLogBillsFit ==
    ASSUME IInv, IInv', BillsFit, NEW w \in Workers, WriteLog(w)
    PROVE  BillsFit'
  <1> DEFINE U == tx[w].user
             M == tx[w].month
             bill == billed[U][M] + tx[w].want - tx[w].base
  <1>1. TypeOK /\ TxOK(w) /\ tx[w].at = "log" /\ tx[w] \in Transactions
    BY DEF IInv, TxInv, WriteLog, TypeOK
  <1>2. U \in Users /\ M \in Months
    BY <1>1 DEF Transactions
  <1>3. granted' = granted /\ EndTx(w, TRUE)
    BY DEF WriteLog
  <1>4. tx'[w].at # "log" /\ \A v \in Workers \ {w} : tx'[v] = tx[v]
    BY <1>1, <1>3, ConstantsType DEF TypeOK, EndTx
  <1>5. CASE billed' = billed
    BY <1>3, <1>4, <1>5, SameBillsFit
  <1>6. CASE billed' # billed
    <2>1. billed'[U][M] = bill
          /\ \A u \in Users, m \in Months : <<u, m>> # <<U, M>> => billed'[u][m] = billed[u][m]
      <3>1. Moved(billed', billed, U, M, bill)
        BY <1>6 DEF WriteLog, Moved
      <3>2. billed \in Books /\ bill \in Nat
        <4>1. /\ billed[U][M] \in Nat /\ tx[w].want \in Nat /\ tx[w].base \in Nat
              /\ tx[w].base < tx[w].want
          BY <1>1, <1>2 DEF TypeOK, Books, Transactions, TxOK
        <4> QED
          BY <1>1, <4>1 DEF TypeOK
      <3> HIDE DEF U, M, bill
      <3> QED
        BY <1>2, <3>1, <3>2, BookEntry
    <2> SUFFICES ASSUME NEW u \in Users, NEW m \in Months PROVE Fits(u, m)'
      BY DEF BillsFit
    <2>2. \A v \in Workers : Owed(v, u, m)' => v # w /\ tx'[v] = tx[v] /\ Owed(v, u, m)
      BY <1>4 DEF Owed
    <2>3. Fits(u, m)
      BY DEF BillsFit
    <2>4. CASE <<u, m>> # <<U, M>>
      BY <1>3, <2>1, <2>2, <2>3, <2>4 DEF Fits, Step
    <2>5. CASE <<u, m>> = <<U, M>>
      <3>1. /\ u = U /\ m = M /\ Owed(w, u, m)
            /\ billed[u][m] \in Nat /\ granted[u][m] \in Nat
            /\ billed'[u][m] = billed[u][m] + Step(w)
            /\ \A v \in Workers : tx[v].base \in Nat /\ tx[v].want \in Nat
        <4>1. u = U /\ m = M
          BY <2>5
        <4>2. /\ billed[u][m] \in Nat /\ granted[u][m] \in Nat
              /\ \A v \in Workers : tx[v].base \in Nat /\ tx[v].want \in Nat
          BY <1>1 DEF TypeOK, Books, Transactions
        <4>3. billed'[u][m] = billed[u][m] + tx[w].want - tx[w].base
          BY <2>1, <4>1
        <4> QED
          BY <1>1, <4>1, <4>2, <4>3 DEF Owed, Step
      <3>2. billed'[u][m] <= granted'[u][m]
        BY <1>3, <2>3, <3>1 DEF Fits
      <3>3. ASSUME NEW v \in Workers, Owed(v, u, m)'
            PROVE  /\ tx'[v].base \in {0, StudentQuota, TeacherQuota}
                   /\ tx'[v].want <= granted'[u][m]
                   /\ billed'[u][m] + Step(v)' <= granted'[u][m]
        <4>1. /\ tx'[v] = tx[v] /\ v # w /\ Owed(v, u, m)
              /\ tx[v].base \in {0, StudentQuota, TeacherQuota}
              /\ tx[v].want <= granted[u][m]
              /\ billed[u][m] + Step(v) + Step(w) <= granted[u][m]
          BY <2>2, <2>3, <3>1, <3>3 DEF Fits
        <4> QED
          BY <1>3, <3>1, <4>1 DEF Step
      <3>4. \A v, x \in Workers : v # x /\ Owed(v, u, m)' /\ Owed(x, u, m)' => FALSE
        <4> SUFFICES ASSUME NEW v \in Workers, NEW x \in Workers,
                            v # x, Owed(v, u, m)', Owed(x, u, m)'
                     PROVE  FALSE
          OBVIOUS
        <4>1. v # w /\ x # w /\ Owed(v, u, m) /\ Owed(x, u, m)
          BY <2>2
        <4>2. /\ tx[v].base \in {0, StudentQuota, TeacherQuota}
              /\ tx[x].base \in {0, StudentQuota, TeacherQuota}
              /\ tx[w].base \in {0, StudentQuota, TeacherQuota}
              /\ tx[v].want <= tx[x].base \/ tx[x].want <= tx[v].base
              /\ tx[x].want <= tx[w].base \/ tx[w].want <= tx[x].base
              /\ tx[v].want <= tx[w].base \/ tx[w].want <= tx[v].base
          BY <2>3, <3>1, <4>1 DEF Fits
        <4>3. \A y \in {v, x, w} :
                 tx[y].base < tx[y].want /\ tx[y].want \in {StudentQuota, TeacherQuota}
          BY <3>1, <4>1 DEF IInv, TxInv, TxOK, Owed, ActiveStages
        <4> QED
          BY <4>2, <4>3, NoThreeSteps, ConstantsType
      <3> QED
        BY <3>2, <3>3, <3>4 DEF Fits
    <2> QED
      BY <2>4, <2>5
  <1> QED
    BY <1>5, <1>6

LEMMA GrantBillsFit ==
    ASSUME IInv, IInv', BillsFit, NEW w \in Workers, Grant(w)
    PROVE  BillsFit'
  <1>1. TypeOK /\ tx[w] \in Transactions
    BY DEF IInv, TypeOK
  <1>2. CASE Commit(w)
    BY <1>2, CommitBillsFit
  <1>3. CASE WriteLog(w)
    BY <1>3, WriteLogBillsFit
  <1>4. CASE \E ok \in BOOLEAN : EndTx(w, ok) /\ Quiet
    BY <1>1, <1>4, EndsOweNothing, SameBillsFit DEF Quiet, books
  <1>5. ASSUME Quiet,
               \/ tx' = [tx EXCEPT ![w].at = "insert"]
               \/ tx' = [tx EXCEPT ![w].at = "write"]
               \/ tx' = [tx EXCEPT ![w].at = "write",
                                   ![w].base = granted[tx[w].user][tx[w].month]]
        PROVE  BillsFit'
    <2>1. \A v \in Workers : tx'[v] = tx[v] \/ tx'[v].at # "log"
      BY <1>1, <1>5 DEF TypeOK, Transactions
    <2> QED
      BY <1>5, <2>1, SameBillsFit DEF Quiet, books
  <1>6. CASE Skip(w) \/ TargetUnavailable(w) \/ TxFails(w)
    BY <1>4, <1>6 DEF Skip, TargetUnavailable, TxFails
  <1>7. CASE LookupFinds(w)
    BY <1>4, <1>5, <1>7 DEF LookupFinds
  <1>8. CASE LookupMisses(w)
    BY <1>5, <1>8 DEF LookupMisses
  <1>9. CASE Insert(w)
    BY <1>4, <1>5, <1>9 DEF Insert
  <1> QED
    BY <1>2, <1>3, <1>6, <1>7, <1>8, <1>9 DEF Grant

\* A transaction that begins owes nothing.
LEMMA ReadUserBillsFit ==
    ASSUME TypeOK, BillsFit, NEW w \in Workers, NEW u \in Users, NEW m \in Months,
           ReadUser(w, u, m), UNCHANGED books
    PROVE  BillsFit'
  <1>1. \A v \in Workers \ {w} : tx'[v] = tx[v]
    BY DEF ReadUser, TypeOK
  <1>2. tx'[w].at # "log"
    BY ConstantsType DEF ReadUser, TypeOK, Transactions
  <1> QED
    BY <1>1, <1>2, SameBillsFit DEF books

LEMMA NextBillsFit == IInv /\ IInv' /\ BillsFit /\ [Next]_vars => BillsFit'
  <1> SUFFICES ASSUME IInv, IInv', BillsFit, [Next]_vars PROVE BillsFit'
    OBVIOUS
  <1>0. TypeOK
    BY DEF IInv
  <1>1. ASSUME NEW n \in Nodes, Scheduler(n) PROVE BillsFit'
    <2>1. CASE VisitUser(n)
      <3>1. PICK u \in todo[n] : ReadUser(n, u, month[n])
        BY <2>1 DEF VisitUser
      <3>2. u \in Users /\ month[n] \in Months /\ UNCHANGED books
        BY <1>0, <2>1 DEF TypeOK, VisitUser
      <3> QED
        BY <1>0, <3>1, <3>2, ReadUserBillsFit, ConstantsType
    <2>2. CASE Start(n) \/ Wait(n) \/ Fire(n)
      BY <2>2, SameBillsFit DEF Start, Wait, Fire, Run, books
    <2>3. CASE Grant(n)
      BY <2>3, GrantBillsFit, ConstantsType
    <2> QED
      BY <1>1, <2>1, <2>2, <2>3 DEF Scheduler
  <1>2. ASSUME NEW n \in Nodes, Crash(n) PROVE BillsFit'
    <2>1. \A v \in Workers : tx'[v] = tx[v] \/ tx'[v].at # "log"
      BY <1>0, <1>2, ConstantsType DEF Crash, TypeOK
    <2> QED
      BY <1>2, <2>1, SameBillsFit DEF Crash, books
  <1>3. ASSUME NEW h \in Handlers, Handler(h) PROVE BillsFit'
    <2>1. CASE ManageWrite(h)
      BY <2>1, SameBillsFit DEF ManageWrite, books
    <2>2. CASE HandlerGrant(h)
      <3>1. row[h].user \in Users /\ monthlyGrantMonth \in Months
        BY <1>0, ClockType DEF TypeOK, Rows
      <3> QED
        BY <1>0, <2>2, <3>1, ReadUserBillsFit, ConstantsType DEF HandlerGrant
    <2>3. CASE Grant(h)
      BY <2>3, GrantBillsFit, ConstantsType
    <2> QED
      BY <1>3, <2>1, <2>2, <2>3 DEF Handler
  <1>4. ASSUME NEW h \in Handlers, NEW u \in Users, Register(h, u) \/ ManageRead(h, u)
        PROVE BillsFit'
    BY <1>4, SameBillsFit DEF Register, ManageRead, books
  <1>5. CASE Tick \/ UNCHANGED vars
    BY <1>5, SameBillsFit DEF Tick, vars, books
  <1> QED
    BY <1>1, <1>2, <1>3, <1>4, <1>5 DEF Next

\* With a log database of its own bills may be missing, but whatever upgrades,
\* restarts and failing entries overlap, the bills of a month never say more than
\* its grant (monthly_quota.go:143).
THEOREM Nothing_else_is_billed == Spec => []NothingElseIsBilled
  <1>1. BillsFit => NothingElseIsBilled
    BY DEF BillsFit, Fits, NothingElseIsBilled
  <1> QED
    BY <1>1, Invariance, InitBillsFit, NextBillsFit, PTL DEF Spec

----------------------------------------------------------------------------
(* The run over all accounts, when no statement fails and nobody disables   *)
(* an account.  What the run has left behind is served: the accounts that   *)
(* are off its list, and the one whose transaction is past its commit.      *)

Served(n, u) == MonthlyQuotaForRole(role[u]) > 0 => granted[u][month[n]] > 0

\* No account is disabled, and no request is about to disable one.
Enabled ==
    /\ \A u \in Users : status[u] # "disabled"
    /\ \A h \in Handlers : hpc[h] # "idle" => row[h].status = "enabled"
    /\ \A w \in Workers : tx[w].at \notin {"none", "skip"} => status[tx[w].user] = "enabled"

RunOK(n) ==
    /\ npc[n] # "running" => tx[n].at = "none" /\ todo[n] = {}
    /\ npc[n] # "off" =>
          \A u \in steady[n] : u \in todo[n] \/ Served(n, u)
    /\ \A u \in steady[n] : status[u] = "enabled"
    /\ tx[n].at # "none" => tx[n].user \in todo[n]
    /\ tx[n].at = "skip" /\ tx[n].user \in steady[n] => Served(n, tx[n].user)
    /\ tx[n].at \notin {"none", "skip"} => tx[n].month = month[n]
    /\ tx[n].at = "log" => granted[tx[n].user][month[n]] > 0

RunsOK == Enabled /\ \A n \in Nodes : RunOK(n)

NothingFails == ~DbMayFail /\ "disable" \notin Manageable

LEMMA InitRunsOK == Init => RunsOK
  <1> SUFFICES ASSUME Init PROVE RunsOK
    OBVIOUS
  <1>1. Enabled
    BY ConstantsType DEF Init, Enabled
  <1>2. ASSUME NEW n \in Nodes PROVE RunOK(n)
    BY ConstantsType DEF Init, RunOK
  <1> QED
    BY <1>1, <1>2 DEF RunsOK

\* No grant is ever taken back.
GrantsStay == \A u \in Users, m \in Months : granted[u][m] > 0 => granted'[u][m] > 0

LEMMA CommitGrants ==
    ASSUME IInv, NEW w \in Workers, Commit(w)
    PROVE  GrantsStay /\ granted'[tx[w].user][tx[w].month] > 0
  <1> DEFINE U == tx[w].user
             M == tx[w].month
  <1>1. /\ granted \in Books /\ U \in Users /\ M \in Months
        /\ tx[w].want \in Nat /\ tx[w].want > 0
    BY DEF IInv, TypeOK, Transactions, TxInv, TxOK, ActiveStages, Commit
  <1>2. Moved(granted', granted, U, M, tx[w].want)
    BY DEF Commit, Moved
  <1>3. /\ granted'[U][M] = tx[w].want
        /\ \A u \in Users, m \in Months : <<u, m>> # <<U, M>> => granted'[u][m] = granted[u][m]
    <2> HIDE DEF U, M
    <2> QED
      BY <1>1, <1>2, BookEntry
  <1> QED
    BY <1>1, <1>3 DEF GrantsStay

LEMMA GrantGrants ==
    ASSUME IInv, NEW w \in Workers, Grant(w)
    PROVE  GrantsStay
  <1>1. CASE Commit(w)
    BY <1>1, CommitGrants
  <1>2. CASE granted' = granted
    BY <1>2 DEF GrantsStay
  <1> QED
    BY <1>1, <1>2
       DEF Grant, Skip, TargetUnavailable, TxFails, LookupFinds, LookupMisses,
           Insert, WriteLog, Quiet, books

\* A run that a step does not touch stays in order, as long as grants stay and
\* its accounts keep role and status.
LEMMA RunKept ==
    ASSUME TypeOK, TypeOK', NEW n \in Nodes, RunOK(n), GrantsStay,
           npc'[n] = npc[n], month'[n] = month[n], todo'[n] = todo[n], tx'[n] = tx[n],
           \A u \in steady'[n] :
              u \in steady[n] /\ role'[u] = role[u] /\ status'[u] = status[u]
    PROVE  RunOK(n)'
  <1>1. /\ month[n] \in Months /\ tx[n].user \in Users
        /\ steady[n] \subseteq Users /\ n \in Workers
    BY ConstantsType DEF TypeOK, Transactions
  <1>2. \A u \in steady'[n] : u \in Users /\ (Served(n, u) => Served(n, u)')
    BY <1>1 DEF Served, GrantsStay
  <1> QED
    BY <1>1, <1>2 DEF RunOK, GrantsStay

\* A transaction of the run ends, and its account is served.
LEMMA RunGoesOn ==
    ASSUME TypeOK, TypeOK', NEW n \in Nodes, RunOK(n), GrantsStay,
           NEW v \in Users, v = tx[n].user, v \in steady[n] => Served(n, v)',
           tx[n].at # "none", EndTx(n, TRUE),
           npc' = npc, month' = month, steady' = steady, role' = role, status' = status
    PROVE  RunOK(n)'
  <1>1. /\ month[n] \in Months /\ n \in Workers /\ steady[n] \subseteq Users
    BY ConstantsType DEF TypeOK
  <1>2. /\ tx'[n].at = "none" /\ todo'[n] = todo[n] \ {v}
        /\ npc[n] = "running"
    BY <1>1, ConstantsType DEF TypeOK, EndTx, Return, RunOK
  <1>3. \A u \in steady[n] : u \in Users /\ (Served(n, u) => Served(n, u)')
    BY <1>1 DEF Served, GrantsStay
  <1>4. \A u \in steady'[n] : u \in todo'[n] \/ Served(n, u)'
    <2> SUFFICES ASSUME NEW u \in steady'[n] PROVE u \in todo'[n] \/ Served(n, u)'
      OBVIOUS
    <2>1. u \in steady[n] /\ (u \in todo[n] \/ Served(n, u))
      BY <1>2 DEF RunOK
    <2>2. CASE u = v
      BY <2>1, <2>2
    <2>3. CASE u # v
      BY <1>2, <1>3, <2>1, <2>3
    <2> QED
      BY <2>2, <2>3
  <1>5. \A u \in steady'[n] : status'[u] = "enabled"
    BY DEF RunOK
  <1> QED
    BY <1>2, <1>4, <1>5 DEF RunOK

LEMMA GrantRuns ==
    ASSUME NothingFails, IInv, IInv', RunsOK, NEW w \in Workers, Grant(w)
    PROVE  RunsOK'
  <1>1. TypeOK /\ TypeOK' /\ GrantsStay /\ tx[w] \in Transactions
    BY GrantGrants DEF IInv, TypeOK
  <1>2. /\ UNCHANGED <<npc, month, steady, role, status>>
        /\ tx[w].at # "none"
        /\ tx'[w].at \notin {"none", "skip"} =>
              /\ tx'[w].user = tx[w].user /\ tx'[w].month = tx[w].month
              /\ tx[w].at \notin {"none", "skip"} /\ UNCHANGED <<todo, hpc, row>>
        /\ tx'[w].at # "skip"
        /\ \A v \in Workers \ {w} : tx'[v] = tx[v]
    <2>1. CASE \E ok \in BOOLEAN : EndTx(w, ok)
      <3>1. /\ tx'[w].at = "none"
            /\ \A v \in Workers \ {w} : tx'[v] = tx[v]
        BY <1>1, <2>1, ConstantsType DEF TypeOK, EndTx
      <3> QED
        BY <3>1 DEF Grant, Skip, TargetUnavailable, TxFails, LookupFinds, LookupMisses,
                    Insert, Commit, WriteLog, Quiet, users
    <2>2. CASE /\ \/ tx' = [tx EXCEPT ![w].at = "insert"]
                  \/ tx' = [tx EXCEPT ![w].at = "write"]
                  \/ tx' = [tx EXCEPT ![w].at = "log"]
                  \/ tx' = [tx EXCEPT ![w].at = "write",
                                      ![w].base = granted[tx[w].user][tx[w].month]]
               /\ tx[w].at \in {"lookup", "insert", "write"}
               /\ UNCHANGED <<todo, web>>
      <3>1. /\ tx'[w].at \in {"insert", "write", "log"}
            /\ tx'[w].user = tx[w].user /\ tx'[w].month = tx[w].month
            /\ \A v \in Workers \ {w} : tx'[v] = tx[v]
        BY <1>1, <2>2 DEF TypeOK, Transactions
      <3> QED
        BY <2>2, <3>1 DEF Grant, Skip, TargetUnavailable, TxFails, LookupFinds, LookupMisses,
                          Insert, Commit, WriteLog, Quiet, users, web
    <2> QED
      BY <2>1, <2>2 DEF Grant, Skip, TargetUnavailable, TxFails, LookupFinds, LookupMisses,
                        Insert, Commit, WriteLog
  <1>3. \A n \in Nodes \ {w} : todo'[n] = todo[n]
    BY <1>1, ConstantsType
       DEF Grant, Skip, TargetUnavailable, TxFails, LookupFinds, LookupMisses, Insert,
           Commit, WriteLog, EndTx, Return, TypeOK
  <1>4. \A h \in Handlers : (hpc'[h] = "idle") \/ (hpc'[h] = hpc[h] /\ row'[h] = row[h])
    BY <1>1, ConstantsType
       DEF Grant, Skip, TargetUnavailable, TxFails, LookupFinds, LookupMisses, Insert,
           Commit, WriteLog, EndTx, Return, TypeOK, web
  <1>5. Enabled'
    <2>1. \A v \in Workers : tx'[v].at \notin {"none", "skip"} =>
             tx[v].at \notin {"none", "skip"} /\ tx'[v].user = tx[v].user
      BY <1>2
    <2> QED
      BY <1>2, <1>4, <2>1 DEF RunsOK, Enabled
  <1>6. ASSUME NEW n \in Nodes, n # w PROVE RunOK(n)'
    <2>1. n \in Workers /\ RunOK(n)
      BY ConstantsType DEF RunsOK
    <2> QED
      BY <1>1, <1>2, <1>3, <1>6, <2>1, RunKept
  <1>7. ASSUME w \in Nodes PROVE RunOK(w)'
    <2>v. PICK v \in Users : v = tx[w].user
      BY <1>1 DEF Transactions
    <2>1. /\ RunOK(w) /\ month[w] \in Months /\ steady[w] \subseteq Users
          /\ tx[w].at \notin {"none", "skip"} => tx[w].month = month[w]
      BY <1>1, <1>7 DEF RunsOK, RunOK, TypeOK, Transactions
    <2>a. npc' = npc /\ month' = month /\ steady' = steady /\ role' = role /\ status' = status
      BY <1>2
    <2>b. tx[w].at # "none"
      BY <1>2
    <2>2. ASSUME EndTx(w, TRUE), granted'[v][month[w]] > 0 PROVE RunOK(w)'
      <3>1. v \in steady[w] => Served(w, v)'
        BY <2>2, <2>a DEF Served
      <3> QED
        BY <1>1, <1>7, <2>1, <2>a, <2>b, <2>2, <3>1, RunGoesOn, <2>v
    <2>3. ASSUME todo' = todo, tx'[w].at \in {"insert", "write", "log"},
                 tx'[w].at = "log" => granted'[v][month[w]] > 0
          PROVE  RunOK(w)'
      <3>1. tx'[w].user = v /\ tx'[w].month = tx[w].month /\ tx[w].at \notin {"none", "skip"}
        BY <1>2, <2>3, <2>v
      <3>2. \A u \in steady[w] : u \in Users /\ (Served(w, u) => Served(w, u)')
        BY <1>1, <2>1, <2>a DEF Served, GrantsStay
      <3>3. v \in todo[w] /\ npc[w] = "running"
        BY <2>1, <2>b, <2>v DEF RunOK
      <3>4. \A u \in steady'[w] : u \in todo'[w] \/ Served(w, u)'
        BY <2>1, <2>3, <2>a, <3>2, <3>3 DEF RunOK
      <3>5. \A u \in steady'[w] : status'[u] = "enabled"
        BY <2>1, <2>a DEF RunOK
      <3>6. tx'[w].month = month'[w]
        BY <2>1, <2>a, <3>1
      <3>7. tx'[w].at = "log" => granted'[tx'[w].user][month'[w]] > 0
        BY <2>3, <2>a, <3>1
      <3> QED
        BY <2>3, <2>a, <3>1, <3>3, <3>4, <3>5, <3>6, <3>7 DEF RunOK
    <2>4. CASE Skip(w)
      <3>1. v \in steady[w] => Served(w, v)'
        BY <1>1, <2>1, <2>4, <2>a, <2>v DEF RunOK, Skip, Served, GrantsStay
      <3> QED
        BY <1>1, <1>7, <2>1, <2>a, <2>b, <2>4, <3>1, RunGoesOn, <2>v DEF Skip
    <2>5. CASE LookupFinds(w)
      <3>1. (tx'[w].at = "write" /\ todo' = todo) \/ EndTx(w, TRUE)
        <4>1. CASE granted[tx[w].user][tx[w].month] >= tx[w].want
          BY <2>5, <4>1 DEF LookupFinds
        <4>2. CASE ~(granted[tx[w].user][tx[w].month] >= tx[w].want)
          <5>1. /\ tx' = [tx EXCEPT ![w].at = "write",
                                    ![w].base = granted[tx[w].user][tx[w].month]]
                /\ todo' = todo
            BY <2>5, <4>2 DEF LookupFinds
          <5> QED
            BY <1>1, <5>1 DEF TypeOK, Transactions
        <4> QED
          BY <4>1, <4>2
      <3>2. granted'[v][month[w]] > 0
        BY <2>1, <2>5, <2>v DEF LookupFinds, Quiet, books
      <3> QED
        BY <2>2, <2>3, <3>1, <3>2
    <2>6. CASE LookupMisses(w)
      <3>1. tx'[w].at = "insert" /\ todo' = todo
        BY <1>1, <2>6 DEF LookupMisses, TypeOK, Transactions
      <3> QED
        BY <2>3, <3>1
    <2>7. CASE Insert(w)
      <3>1. \/ tx'[w].at = "write" /\ todo' = todo
            \/ EndTx(w, TRUE) /\ granted[v][tx[w].month] > 0
        <4>1. CASE granted[tx[w].user][tx[w].month] > 0
          BY <2>7, <2>v, <4>1 DEF Insert
        <4>2. CASE ~(granted[tx[w].user][tx[w].month] > 0)
          <5>1. tx' = [tx EXCEPT ![w].at = "write"] /\ todo' = todo
            BY <2>7, <4>2 DEF Insert
          <5> QED
            BY <1>1, <5>1 DEF TypeOK, Transactions
        <4> QED
          BY <4>1, <4>2
      <3>2. granted' = granted /\ tx[w].month = month[w]
        BY <2>1, <2>7 DEF Insert, Quiet, books
      <3> QED
        BY <2>2, <2>3, <3>1, <3>2
    <2>8. CASE Commit(w)
      <3>1. granted'[v][tx[w].month] > 0 /\ tx[w].month = month[w]
        BY <2>1, <2>8, CommitGrants, <2>v DEF Commit
      <3>2. CASE SharedLogDb
        BY <2>2, <2>8, <3>1, <3>2 DEF Commit
      <3>3. CASE ~SharedLogDb
        <4>1. tx'[w].at = "log" /\ todo' = todo
          BY <1>1, <2>8, <3>3 DEF Commit, TypeOK, Transactions
        <4> QED
          BY <2>3, <3>1, <4>1
      <3> QED
        BY <3>2, <3>3
    <2>9. CASE TargetUnavailable(w)
      BY <2>9 DEF TargetUnavailable, RunsOK, Enabled
    <2>10. CASE TxFails(w)
      BY <2>10 DEF TxFails, NothingFails
    <2>11. CASE WriteLog(w)
      <3>1. EndTx(w, TRUE) /\ granted' = granted /\ granted[v][month[w]] > 0
        BY <2>1, <2>11, <2>v DEF WriteLog, RunOK
      <3> QED
        BY <2>2, <3>1
    <2> QED
      BY <2>4, <2>5, <2>6, <2>7, <2>8, <2>9, <2>10, <2>11 DEF Grant
  <1> QED
    BY <1>5, <1>6, <1>7 DEF RunsOK

\* The steps of a handler and of the clock that leave the runs alone.
LEMMA RunsKept ==
    ASSUME IInv, IInv', RunsOK, Enabled', UNCHANGED <<npc, month, todo, granted>>,
           \A n \in Nodes : tx'[n] = tx[n],
           \A n \in Nodes : \A u \in steady'[n] :
              u \in steady[n] /\ role'[u] = role[u] /\ status'[u] = status[u]
    PROVE  RunsOK'
  <1>1. TypeOK /\ TypeOK' /\ GrantsStay
    BY DEF IInv, GrantsStay
  <1> QED
    BY <1>1, RunKept DEF RunsOK

LEMMA SchedulerRuns ==
    ASSUME NothingFails, IInv, IInv', RunsOK, NEW n \in Nodes, Scheduler(n) \/ Crash(n)
    PROVE  RunsOK'
  <1>1. TypeOK /\ TypeOK' /\ n \in Workers
    BY ConstantsType DEF IInv
  <1>2. ASSUME UNCHANGED <<granted, role, status>>, UNCHANGED <<hpc, row>>,
               \A k \in Nodes \ {n} :
                  /\ npc'[k] = npc[k] /\ month'[k] = month[k] /\ todo'[k] = todo[k]
                  /\ tx'[k] = tx[k] /\ steady'[k] = steady[k],
               \A w \in Workers \ {n} : tx'[w] = tx[w],
               tx'[n].at \notin {"none", "skip"} => status[tx'[n].user] = "enabled",
               RunOK(n)'
        PROVE  RunsOK'
    <2>1. Enabled'
      BY <1>2 DEF RunsOK, Enabled
    <2>2. GrantsStay
      BY <1>2 DEF GrantsStay
    <2>3. ASSUME NEW k \in Nodes \ {n} PROVE RunOK(k)'
      <3>1. RunOK(k)
        BY DEF RunsOK
      <3> QED
        BY <1>1, <1>2, <2>2, <3>1, RunKept
    <2> QED
      BY <1>2, <2>1, <2>3 DEF RunsOK
  <1>3. CASE \E m \in Months : npc[n] # "running" /\ Run(n, m)
    <2>1. PICK m \in Months : npc[n] # "running" /\ Run(n, m)
      BY <1>3
    <2>2. /\ npc'[n] = "running" /\ month'[n] = m /\ todo'[n] = steady'[n]
          /\ todo'[n] = {u \in Users : status[u] = "enabled" /\ role[u] # "admin"}
      BY <1>1, <2>1 DEF Run, TypeOK, NothingFails
    <2>3. tx'[n].at = "none" /\ tx' = tx
      BY <2>1 DEF Run, RunsOK, RunOK
    <2>4. RunOK(n)'
      BY <2>1, <2>2, <2>3 DEF RunOK, Run, users
    <2>5. UNCHANGED <<granted, role, status, hpc, row>>
      BY <2>1 DEF Run, users, books, web
    <2>6. \A k \in Nodes \ {n} :
             /\ npc'[k] = npc[k] /\ month'[k] = month[k] /\ todo'[k] = todo[k]
             /\ tx'[k] = tx[k] /\ steady'[k] = steady[k]
      BY <1>1, <2>1, <2>3 DEF Run, TypeOK
    <2> QED
      BY <1>2, <2>3, <2>4, <2>5, <2>6
  <1>4. CASE Start(n)
    BY <1>1, <1>3, <1>4, ClockType DEF Start
  <1>5. CASE Fire(n)
    BY <1>1, <1>3, <1>5 DEF Fire, TypeOK, Months
  <1>6. CASE VisitUser(n)
    <2>1. PICK u \in todo[n] : ReadUser(n, u, month[n])
      BY <1>6 DEF VisitUser
    <2>2. /\ UNCHANGED <<granted, role, status, hpc, row, npc, month, todo, steady>>
          /\ npc[n] = "running" /\ u \in Users
      BY <1>1, <1>6, <2>1 DEF VisitUser, users, books, nodes, web, TypeOK
    <2>3. \A w \in Workers \ {n} : tx'[w] = tx[w]
      BY <1>1, <2>1 DEF ReadUser, TypeOK
    <2>4. /\ tx'[n].at \in {"lookup", "skip"} /\ tx'[n].user = u
          /\ tx'[n].at = "lookup" => tx'[n].month = month[n] /\ status[u] = "enabled"
          /\ tx'[n].at = "skip" => ~(status[u] = "enabled" /\ MonthlyQuotaForRole(role[u]) > 0)
      BY <1>1, <2>1, ConstantsType DEF ReadUser, TypeOK, Transactions
    <2>5. RunOK(n)'
      BY <2>1, <2>2, <2>4 DEF RunsOK, RunOK, Served
    <2> QED
      BY <1>2, <2>2, <2>3, <2>4, <2>5, ConstantsType
  <1>7. CASE Wait(n)
    <2>1. /\ UNCHANGED <<granted, role, status, hpc, row, month, todo, steady, tx>>
          /\ npc[n] = "running" /\ tx[n].at = "none" /\ todo[n] = {}
          /\ npc'[n] = "waiting" /\ \A k \in Nodes \ {n} : npc'[k] = npc[k]
      BY <1>1, <1>7, ConstantsType DEF Wait, users, books, web, TypeOK
    <2>2. RunOK(n)'
      BY <2>1 DEF RunsOK, RunOK, Served
    <2> QED
      BY <1>2, <2>1, <2>2
  <1>8. CASE Grant(n)
    BY <1>1, <1>8, GrantRuns
  <1>9. CASE Crash(n)
    <2>1. /\ UNCHANGED <<granted, role, status, hpc, row, month, steady>>
          /\ npc'[n] = "off" /\ todo'[n] = {} /\ tx'[n].at = "none"
          /\ \A k \in Nodes \ {n} : npc'[k] = npc[k] /\ todo'[k] = todo[k]
          /\ \A w \in Workers \ {n} : tx'[w] = tx[w]
      BY <1>1, <1>9, ConstantsType DEF Crash, users, books, web, TypeOK
    <2>2. RunOK(n)'
      BY <2>1 DEF RunsOK, RunOK
    <2> QED
      BY <1>2, <2>1, <2>2, ConstantsType
  <1> QED
    BY <1>4, <1>5, <1>6, <1>7, <1>8, <1>9 DEF Scheduler

LEMMA HandlerRuns ==
    ASSUME NothingFails, IInv, IInv', RunsOK, NEW h \in Handlers, Handler(h)
    PROVE  RunsOK'
  <1>1. TypeOK /\ h \in Workers /\ row[h] \in Rows /\ \A n \in Nodes : n \in Workers /\ n # h
    BY ConstantsType DEF IInv, TypeOK
  <1>2. CASE ManageWrite(h)
    <2>1. /\ status' = [status EXCEPT ![row[h].user] = "enabled"]
          /\ role' = [role EXCEPT ![row[h].user] = row[h].role]
          /\ steady' = [n \in Nodes |-> steady[n] \ {row[h].user}]
          /\ UNCHANGED <<npc, month, todo, granted, tx>>
      BY <1>2 DEF ManageWrite, RunsOK, Enabled, books, nodes
    <2>2. \A k \in Handlers : (hpc'[k] = "idle") \/ (hpc[k] # "idle" /\ row'[k] = row[k])
      BY <1>1, <1>2 DEF ManageWrite, TypeOK
    <2>3. Enabled'
      BY <1>1, <2>1, <2>2 DEF RunsOK, Enabled, TypeOK
    <2>4. \A n \in Nodes : \A u \in steady'[n] :
             u \in steady[n] /\ role'[u] = role[u] /\ status'[u] = status[u]
      BY <1>1, <2>1 DEF TypeOK
    <2> QED
      BY <2>1, <2>3, <2>4, RunsKept
  <1>3. CASE HandlerGrant(h)
    <2>1. UNCHANGED <<granted, role, status, hpc, row, npc, month, todo, steady>>
      BY <1>3 DEF HandlerGrant, users, books, nodes, web
    <2>2. \A w \in Workers \ {h} : tx'[w] = tx[w]
      BY <1>1, <1>3 DEF HandlerGrant, ReadUser, TypeOK
    <2>3. tx'[h].at \notin {"none", "skip"} => status[tx'[h].user] = "enabled"
      BY <1>1, <1>3, ConstantsType DEF HandlerGrant, ReadUser, TypeOK, Transactions
    <2>4. Enabled'
      BY <2>1, <2>2, <2>3 DEF RunsOK, Enabled
    <2> QED
      BY <1>1, <2>1, <2>2, <2>4, RunsKept
  <1>4. CASE Grant(h)
    BY <1>1, <1>4, GrantRuns
  <1> QED
    BY <1>2, <1>3, <1>4 DEF Handler

LEMMA RequestRuns ==
    ASSUME NothingFails, IInv, IInv', RunsOK, NEW h \in Handlers, NEW u \in Users,
           Register(h, u) \/ ManageRead(h, u)
    PROVE  RunsOK'
  <1>1. TypeOK
    BY DEF IInv
  <1>2. CASE Register(h, u)
    <2>1. /\ UNCHANGED <<npc, month, todo, granted, steady, tx>>
          /\ status[u] = "absent" /\ status' = [status EXCEPT ![u] = "enabled"]
          /\ role' = [role EXCEPT ![u] = "student"]
      BY <1>2 DEF Register, books, nodes
    <2>2. row'[h].status = "enabled" /\ \A k \in Handlers \ {h} : row'[k] = row[k] /\ hpc'[k] = hpc[k]
      BY <1>1, <1>2, ConstantsType DEF Register, TypeOK, NoRow
    <2>3. Enabled'
      BY <1>1, <2>1, <2>2 DEF RunsOK, Enabled, TypeOK
    <2>4. \A n \in Nodes : \A x \in steady[n] : x # u
      <3> SUFFICES ASSUME NEW n \in Nodes, u \in steady[n] PROVE FALSE
        OBVIOUS
      <3>1. CASE npc[n] = "off"
        BY <2>1, <3>1 DEF RunsOK, RunOK
      <3>2. CASE npc[n] # "off"
        BY <2>1, <3>2 DEF RunsOK, RunOK
      <3> QED
        BY <3>1, <3>2
    <2>5. \A n \in Nodes : \A x \in steady'[n] :
             x \in steady[n] /\ role'[x] = role[x] /\ status'[x] = status[x]
      BY <1>1, <2>1, <2>4 DEF TypeOK
    <2> QED
      BY <2>1, <2>3, <2>5, RunsKept
  <1>3. CASE ManageRead(h, u)
    <2>1. UNCHANGED <<npc, month, todo, granted, steady, tx, role, status>>
      BY <1>3 DEF ManageRead, users, books, nodes
    <2>2. row'[h].status = "enabled" /\ \A k \in Handlers \ {h} : row'[k] = row[k] /\ hpc'[k] = hpc[k]
      <3>1. status[u] = "enabled"
        BY <1>1, <1>3 DEF ManageRead, RunsOK, Enabled, TypeOK
      <3>2. \A action \in Manageable : NewStatus(action, status[u]) = "enabled"
        BY <3>1 DEF NewStatus, NothingFails
      <3> QED
        BY <1>1, <1>3, <3>2 DEF ManageRead, TypeOK
    <2>3. Enabled'
      BY <1>1, <2>1, <2>2 DEF RunsOK, Enabled, TypeOK
    <2> QED
      BY <2>1, <2>3, RunsKept
  <1> QED
    BY <1>2, <1>3

LEMMA NextRunsOK ==
    ASSUME NothingFails
    PROVE  IInv /\ IInv' /\ RunsOK /\ [Next]_vars => RunsOK'
  <1> SUFFICES ASSUME IInv, IInv', RunsOK, [Next]_vars PROVE RunsOK'
    OBVIOUS
  <1>1. CASE Tick \/ UNCHANGED vars
    <2>1. UNCHANGED <<npc, month, todo, granted, steady, tx, role, status, hpc, row>>
      BY <1>1 DEF Tick, vars, users, books, nodes, web
    <2>2. Enabled'
      BY <2>1 DEF RunsOK, Enabled
    <2> QED
      BY <2>1, <2>2, RunsKept
  <1> QED
    BY <1>1, SchedulerRuns, HandlerRuns, RequestRuns DEF Next

\* GrantMonthlyQuotaForAll reaches everyone: when statements do not fail and no
\* administrator disables an account, a run that is over has left no account of
\* its list without the grant, whatever other nodes, registrations and promotions
\* did meanwhile, and whichever process was stopped.
THEOREM Catch_up_reaches_everyone ==
    ASSUME ~DbMayFail, "disable" \notin Manageable
    PROVE  Spec => []CatchUpReachesEveryone
  <1>1. NothingFails
    BY DEF NothingFails
  <1>2. RunsOK => CatchUpReachesEveryone
    BY DEF RunsOK, RunOK, Served, CatchUpReachesEveryone
  <1>3. IInv /\ IInv' /\ RunsOK /\ [Next]_vars => RunsOK'
    BY <1>1, NextRunsOK
  <1> QED
    BY <1>2, <1>3, Invariance, InitRunsOK, PTL DEF Spec
=============================================================================
