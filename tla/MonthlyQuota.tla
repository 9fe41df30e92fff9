---------------------------- MODULE MonthlyQuota ---------------------------
(***************************************************************************)
(* The monthly free quota: GrantMonthlyQuotaForUser/ForAll and the         *)
(* scheduler of src/model/monthly_quota.go, run by every node that is a    *)
(* master, together with the handlers that change the same rows: the       *)
(* registration of a user (User.Insert) and ManageUser, which enables,     *)
(* disables, promotes or demotes an account.                               *)
(*                                                                         *)
(* A grant is one database transaction.  Its statements are steps; the row *)
(* of the grant is locked from the statement that finds or inserts it to   *)
(* the commit, and the writes become visible at the commit.                *)
(*                                                                         *)
(* Time is what the scheduler can tell apart: month m is the instant 2*m   *)
(* from 00:00 to 00:05 of its first day, and the instant 2*m + 1 after.    *)
(***************************************************************************)
EXTENDS Integers

CONSTANTS
    Users,              \* accounts
    Nodes,              \* master nodes, each with a scheduler
    Handlers,           \* HTTP handlers that register or manage users
    StudentQuota,       \* config.MonthlyStudentQuota
    TeacherQuota,       \* config.MonthlyTeacherQuota
    AdministratorQuota, \* config.AdministratorQuota
    QuotaForNewUser,    \* config.QuotaForNewUser
    Manageable,         \* the ManageUser requests that administrators send
    SharedLogDb,        \* LOG_DB == DB
    DbMayFail,          \* TRUE iff a transaction may be refused or deadlock
    MaxMonth,           \* bound: the last month
    MaxCrashes          \* bound: number of restarts of nodes

ASSUME MonthlyAssumption ==
    /\ Users # {}
    /\ StudentQuota \in Nat /\ TeacherQuota \in Nat
    /\ StudentQuota > 0 \/ TeacherQuota > 0    \* monthlyQuotaEnabled()
    /\ AdministratorQuota \in Nat
    /\ QuotaForNewUser \in Nat
    /\ Manageable \subseteq {"enable", "disable", "promote", "demote"}
    /\ SharedLogDb \in BOOLEAN
    /\ DbMayFail \in BOOLEAN
    /\ MaxMonth \in Nat \ {0}
    /\ MaxCrashes \in Nat
    /\ Nodes \cap Handlers = {}

Months  == 1 .. MaxMonth
Workers == Nodes \cup Handlers
Roles   == {"student", "teacher", "admin"}

VARIABLES
    clock,    \* the time, see above
    role,     \* users.role
    status,   \* users.status, or "absent" before the registration
    quota,    \* users.quota
    granted,  \* granted[u][m]: quota of the row in monthly_quota_grants, or 0
    billed,   \* billed[u][m]: quota of the log entries of the grant
    npc,      \* npc[n]: a scheduler is "off", "running" or "waiting"
    todo,     \* todo[n]: user ids still to visit in this run
    month,    \* month[n]: the month of the current or last run
    due,      \* due[n]: the month whose first day the timer waits for
    tx,       \* tx[w]: the transaction of worker w
    hpc,      \* hpc[h]: a handler is "idle", "update" or "grant"
    row,      \* row[h]: the user row that handler h is about to write
    crashes,  \* number of restarts so far
    paid,     \* history: paid[u][m] is what the grants of m added to the balance
    steady    \* history: steady[n] are the users of the run that nobody managed

users == <<role, status, quota>>
books == <<granted, billed, paid>>
nodes == <<npc, todo, month, due>>
web   == <<hpc, row>>
vars  == <<clock, users, books, nodes, tx, web, crashes, steady>>

monthlyGrantMonth == clock \div 2
\* Faulty: a month is added once too often.
NextGrantTwoMonths == clock \div 2 + (IF clock % 2 = 0 THEN 1 ELSE 2)

nextMonthlyQuotaGrantTime ==
    IF clock % 2 = 0 THEN clock \div 2 ELSE clock \div 2 + 1

MonthlyQuotaForRole(r) ==
    CASE r = "student" -> StudentQuota
      [] r = "teacher" -> TeacherQuota
      [] OTHER         -> 0

NoTx  == [at |-> "none", user |-> CHOOSE u \in Users : TRUE,
          month |-> 1, want |-> 0, base |-> 0]
NoRow == [user |-> CHOOSE u \in Users : TRUE, role |-> "student",
          status |-> "enabled", quota |-> 0, promoted |-> FALSE]

Init ==
    /\ clock \in {2, 3}
    /\ role \in [Users -> Roles]
    /\ status \in [Users -> {"enabled", "absent"}]
    /\ \A u \in Users : status[u] = "absent" => role[u] = "student"
    /\ quota = [u \in Users |-> IF role[u] = "admin" THEN AdministratorQuota
                               ELSE QuotaForNewUser]
    /\ granted = [u \in Users |-> [m \in Months |-> 0]]
    /\ billed = granted
    /\ paid = granted
    /\ npc = [n \in Nodes |-> "off"]
    /\ todo = [n \in Nodes |-> {}]
    /\ month = [n \in Nodes |-> 1]
    /\ due = [n \in Nodes |-> 1]
    /\ tx = [w \in Workers |-> NoTx]
    /\ hpc = [h \in Handlers |-> "idle"]
    /\ row = [h \in Handlers |-> NoRow]
    /\ crashes = 0
    /\ steady = [n \in Nodes |-> {}]

----------------------------------------------------------------------------
(* The transaction of GrantMonthlyQuotaForUser.                            *)

\* How the caller goes on: GrantMonthlyQuotaForAll goes to the next user, or
\* returns at the first error; a handler only logs the error.
Return(w, ok) ==
    IF w \in Nodes
    THEN /\ todo' = [todo EXCEPT ![w] = IF ok THEN @ \ {tx[w].user} ELSE {}]
         /\ UNCHANGED web
    ELSE /\ hpc' = [hpc EXCEPT ![w] = "idle"]
         /\ row' = [row EXCEPT ![w] = NoRow]
         /\ UNCHANGED todo

\* Commit or roll back without having written anything.
EndTx(w, ok) ==
    /\ tx' = [tx EXCEPT ![w] = NoTx]
    /\ Return(w, ok)

Quiet == UNCHANGED <<clock, users, books, npc, month, due, crashes, steady>>

\* The first statement: role and status of the user.
ReadUser(w, u, m) ==
    LET want == MonthlyQuotaForRole(role[u]) IN
    tx' = [tx EXCEPT ![w] =
              IF status[u] = "enabled" /\ want > 0
              THEN [at |-> "lookup", user |-> u, month |-> m,
                    want |-> want, base |-> 0]
              ELSE [NoTx EXCEPT !.at = "skip", !.user = u]]

\* Faulty: an account that is not eligible is an error.
SkipIsAnError(w) ==
    /\ tx[w].at = "skip"
    /\ EndTx(w, FALSE)
    /\ Quiet

\* Faulty: an account that is not eligible stays on the list.
SkipTriesAgain(w) ==
    /\ tx[w].at = "skip"
    /\ tx' = [tx EXCEPT ![w] = NoTx]
    /\ UNCHANGED <<todo, web>>
    /\ Quiet

\* The user is not eligible: return nil.
Skip(w) ==
    /\ tx[w].at = "skip"
    /\ EndTx(w, TRUE)
    /\ Quiet

Holds(w, u, m) == tx[w].at = "write" /\ tx[w].user = u /\ tx[w].month = m
Unlocked(u, m) == \A w \in Workers : ~Holds(w, u, m)

\* SELECT ... FOR UPDATE finds the grant of this month, waiting for its lock.
LookupFinds(w) ==
    LET t == tx[w] IN
    /\ t.at = "lookup"
    /\ granted[t.user][t.month] > 0
    /\ Unlocked(t.user, t.month)
    /\ IF granted[t.user][t.month] >= t.want
       THEN EndTx(w, TRUE)
       ELSE /\ tx' = [tx EXCEPT ![w].at = "write",
                                ![w].base = granted[t.user][t.month]]
            /\ UNCHANGED <<todo, web>>
    /\ Quiet

\* There is no committed grant: go on to insert one.
LookupMisses(w) ==
    LET t == tx[w] IN
    /\ t.at = "lookup"
    /\ granted[t.user][t.month] = 0
    /\ tx' = [tx EXCEPT ![w].at = "insert"]
    /\ UNCHANGED <<todo, web>>
    /\ Quiet

\* Faulty: there is no unique index on user and month.
InsertWithoutUniqueIndex(w) ==
    /\ tx[w].at = "insert"
    /\ tx' = [tx EXCEPT ![w].at = "write"]
    /\ UNCHANGED <<todo, web>>
    /\ Quiet

\* INSERT ... ON CONFLICT DO NOTHING waits for whoever inserts the same row;
\* when that one commits, no row is affected and the caller gets nil.
Insert(w) ==
    LET t == tx[w] IN
    /\ t.at = "insert"
    /\ Unlocked(t.user, t.month)
    /\ IF granted[t.user][t.month] > 0
       THEN EndTx(w, TRUE)
       ELSE /\ tx' = [tx EXCEPT ![w].at = "write"]
            /\ UNCHANGED <<todo, web>>
    /\ Quiet

\* Faulty: the bill says the whole quota when only the difference was added.
CommitBillsWholeQuota(w) ==
    LET t == tx[w]
        increase == t.want - t.base
    IN
    /\ t.at = "write"
    /\ status[t.user] = "enabled"
    /\ granted' = [granted EXCEPT ![t.user][t.month] = t.want]
    /\ quota' = [quota EXCEPT ![t.user] = @ + increase]
    /\ paid' = [paid EXCEPT ![t.user][t.month] = @ + increase]
    /\ billed' = [billed EXCEPT ![t.user][t.month] = @ + t.want]
    /\ EndTx(w, TRUE)
    /\ UNCHANGED <<clock, role, status, npc, month, due, crashes, steady>>

\* The balance, the grant and, in the same database, its bill: all at once.
Commit(w) ==
    LET t == tx[w]
        increase == t.want - t.base
    IN
    /\ t.at = "write"
    /\ status[t.user] = "enabled"
    /\ granted' = [granted EXCEPT ![t.user][t.month] = t.want]
    /\ quota' = [quota EXCEPT ![t.user] = @ + increase]
    /\ paid' = [paid EXCEPT ![t.user][t.month] = @ + increase]
    /\ IF SharedLogDb
       THEN /\ billed' = [billed EXCEPT ![t.user][t.month] = @ + increase]
            /\ EndTx(w, TRUE)
       ELSE /\ tx' = [tx EXCEPT ![w].at = "log"]
            /\ UNCHANGED <<billed, todo, web>>
    /\ UNCHANGED <<clock, role, status, npc, month, due, crashes, steady>>

\* The account was disabled meanwhile: no row is affected, the transaction is
\* rolled back and the caller gets an error.
TargetUnavailable(w) ==
    /\ tx[w].at = "write"
    /\ status[tx[w].user] # "enabled"
    /\ EndTx(w, FALSE)
    /\ Quiet

\* A statement fails or the transaction is the victim of a deadlock.
TxFails(w) ==
    /\ DbMayFail
    /\ tx[w].at \in {"skip", "lookup", "insert", "write"}
    /\ EndTx(w, FALSE)
    /\ Quiet

\* Faulty: the same in the log database.
WriteLogOfWholeQuota(w) ==
    LET t == tx[w] IN
    /\ t.at = "log"
    /\ billed' = [billed EXCEPT ![t.user][t.month] = @ + t.want]
    /\ EndTx(w, TRUE)
    /\ UNCHANGED <<clock, users, granted, paid, npc, month, due, crashes, steady>>

\* A log database of its own gets the bill after the commit, if it takes it.
WriteLog(w) ==
    LET t == tx[w] IN
    /\ t.at = "log"
    /\ \/ billed' = [billed EXCEPT ![t.user][t.month] = @ + t.want - t.base]
       \/ DbMayFail /\ UNCHANGED billed
    /\ EndTx(w, TRUE)
    /\ UNCHANGED <<clock, users, granted, paid, npc, month, due, crashes, steady>>

Grant(w) ==
    \/ Skip(w) \/ LookupFinds(w) \/ LookupMisses(w) \/ Insert(w)
    \/ Commit(w) \/ TargetUnavailable(w) \/ TxFails(w) \/ WriteLog(w)

----------------------------------------------------------------------------
(* The scheduler of a node.                                                *)

\* run(now): pluck the ids of the enabled students and teachers; if that fails
\* the run is over.
Run(n, m) ==
    LET eligible == {u \in Users : status[u] = "enabled" /\ role[u] # "admin"} IN
    /\ npc' = [npc EXCEPT ![n] = "running"]
    /\ month' = [month EXCEPT ![n] = m]
    /\ \E ids \in IF DbMayFail THEN {eligible, {}} ELSE {eligible} :
          /\ todo' = [todo EXCEPT ![n] = ids]
          /\ steady' = [steady EXCEPT ![n] = ids]
    /\ UNCHANGED <<clock, users, books, due, tx, web, crashes>>

\* The node starts: an immediate catch-up for the current month.
Start(n) ==
    /\ npc[n] = "off"
    /\ Run(n, monthlyGrantMonth)

VisitUser(n) ==
    /\ npc[n] = "running"
    /\ tx[n] = NoTx
    /\ \E u \in todo[n] : ReadUser(n, u, month[n])
    /\ UNCHANGED <<clock, users, books, nodes, web, crashes, steady>>

\* The run is over; the timer is set for the next first day at 00:05.
Wait(n) ==
    /\ npc[n] = "running"
    /\ tx[n] = NoTx
    /\ todo[n] = {}
    /\ npc' = [npc EXCEPT ![n] = "waiting"]
    /\ due' = [due EXCEPT ![n] = nextMonthlyQuotaGrantTime]
    /\ UNCHANGED <<clock, users, books, todo, month, tx, web, crashes, steady>>

\* The timer fires; the run is for the month it was set for.
Fire(n) ==
    /\ npc[n] = "waiting"
    /\ due[n] <= MaxMonth
    /\ clock >= 2 * due[n] + 1
    /\ Run(n, due[n])

\* The process stops: an open transaction is rolled back, a bill that was to be
\* written to another database is not.
Crash(n) ==
    /\ crashes < MaxCrashes
    /\ npc[n] # "off"
    /\ crashes' = crashes + 1
    /\ npc' = [npc EXCEPT ![n] = "off"]
    /\ todo' = [todo EXCEPT ![n] = {}]
    /\ tx' = [tx EXCEPT ![n] = NoTx]
    /\ UNCHANGED <<clock, users, books, month, due, web, steady>>

Tick ==
    /\ clock < 2 * MaxMonth + 1
    /\ clock' = clock + 1
    /\ UNCHANGED <<users, books, nodes, tx, web, crashes, steady>>

----------------------------------------------------------------------------
(* The handlers.                                                           *)

\* User.Insert: a student account, then the grant of the current month.
Register(h, u) ==
    /\ hpc[h] = "idle"
    /\ status[u] = "absent"
    /\ status' = [status EXCEPT ![u] = "enabled"]
    /\ role' = [role EXCEPT ![u] = "student"]
    /\ quota' = [quota EXCEPT ![u] = QuotaForNewUser]
    /\ hpc' = [hpc EXCEPT ![h] = "grant"]
    /\ row' = [row EXCEPT ![h] = [NoRow EXCEPT !.user = u]]
    /\ UNCHANGED <<clock, books, nodes, tx, crashes, steady>>

Promoted(r) == IF r = "student" THEN "teacher" ELSE "admin"
Demoted(r)  == IF r = "admin" THEN "teacher" ELSE "student"

NewRole(action, r) ==
    CASE action = "promote" -> Promoted(r)
      [] action = "demote"  -> Demoted(r)
      [] OTHER              -> r

NewStatus(action, s) ==
    CASE action = "enable"  -> "enabled"
      [] action = "disable" -> "disabled"
      [] OTHER              -> s

\* applyRoleChangeQuota: an account that crosses the administrator boundary
\* starts over with a configured balance.
applyRoleChangeQuota(from, to, q) ==
    IF from # "admin" /\ to = "admin" THEN AdministratorQuota
    ELSE IF from = "admin" /\ to # "admin" THEN MonthlyQuotaForRole(to)
    ELSE q

\* ManageUser, first half: the whole row is read, and the new one computed.
ManageRead(h, u) ==
    /\ hpc[h] = "idle"
    /\ status[u] # "absent"
    /\ \E action \in Manageable :
          /\ action = "promote" => role[u] # "admin"
          /\ action = "demote" => role[u] # "student"
          /\ LET r == NewRole(action, role[u]) IN
             row' = [row EXCEPT ![h] =
                        [user |-> u, role |-> r,
                         status |-> NewStatus(action, status[u]),
                         quota |-> applyRoleChangeQuota(role[u], r, quota[u]),
                         promoted |-> role[u] = "student" /\ r = "teacher"]]
    /\ hpc' = [hpc EXCEPT ![h] = "update"]
    /\ UNCHANGED <<clock, users, books, nodes, tx, crashes, steady>>

\* ManageUser, second half: user.Update(false) writes every field that is not
\* zero, the balance that was read included.  A student who became a teacher is
\* topped up to the teachers' grant.
ManageWrite(h) ==
    LET r == row[h] IN
    /\ hpc[h] = "update"
    /\ role' = [role EXCEPT ![r.user] = r.role]
    /\ status' = [status EXCEPT ![r.user] = r.status]
    /\ quota' = [quota EXCEPT ![r.user] = IF r.quota = 0 THEN @ ELSE r.quota]
    /\ steady' = [n \in Nodes |-> steady[n] \ {r.user}]
    /\ IF r.promoted
       THEN hpc' = [hpc EXCEPT ![h] = "grant"] /\ UNCHANGED row
       ELSE hpc' = [hpc EXCEPT ![h] = "idle"] /\ row' = [row EXCEPT ![h] = NoRow]
    /\ UNCHANGED <<clock, books, nodes, tx, crashes>>

\* Registration and promotion call GrantMonthlyQuotaForUser(time.Now()).
HandlerGrant(h) ==
    /\ hpc[h] = "grant"
    /\ tx[h] = NoTx
    /\ ReadUser(h, row[h].user, monthlyGrantMonth)
    /\ UNCHANGED <<clock, users, books, nodes, web, crashes, steady>>

----------------------------------------------------------------------------
Scheduler(n) == Start(n) \/ VisitUser(n) \/ Wait(n) \/ Fire(n) \/ Grant(n)
Handler(h)   == ManageWrite(h) \/ HandlerGrant(h) \/ Grant(h)

Next ==
    \/ \E n \in Nodes : Scheduler(n) \/ Crash(n)
    \/ \E h \in Handlers : \/ Handler(h)
                           \/ \E u \in Users : Register(h, u) \/ ManageRead(h, u)
    \/ Tick

\* Nodes are started again, timers fire, and a handler finishes its request.
\* Time passes; nobody has to register or to manage a user.
Fairness ==
    /\ \A n \in Nodes : WF_vars(Scheduler(n))
    /\ \A h \in Handlers : WF_vars(Handler(h))
    /\ WF_vars(Tick)

Spec == Init /\ [][Next]_vars /\ Fairness

----------------------------------------------------------------------------
Books == [Users -> [Months -> Nat]]
Transactions ==
    [at : {"none", "skip", "lookup", "insert", "write", "log"},
     user : Users, month : Months, want : Nat, base : Nat]
Rows ==
    [user : Users, role : Roles, quota : Nat, promoted : BOOLEAN,
     status : {"enabled", "disabled", "absent"}]

TypeOK ==
    /\ clock \in 2 .. 2 * MaxMonth + 1
    /\ role \in [Users -> Roles]
    /\ status \in [Users -> {"enabled", "disabled", "absent"}]
    /\ quota \in [Users -> Nat]
    /\ granted \in Books /\ billed \in Books /\ paid \in Books
    /\ npc \in [Nodes -> {"off", "running", "waiting"}]
    /\ todo \in [Nodes -> SUBSET Users]
    /\ month \in [Nodes -> Months]
    /\ due \in [Nodes -> 1 .. MaxMonth + 1]
    /\ tx \in [Workers -> Transactions]
    /\ hpc \in [Handlers -> {"idle", "update", "grant"}]
    /\ row \in [Handlers -> Rows]
    /\ crashes \in 0 .. MaxCrashes
    /\ steady \in [Nodes -> SUBSET Users]

\* "Each enabled non-root user receives at most one free quota grant in a
\* calendar month" (monthly_quota.go:17): whatever the nodes, handlers and
\* restarts do together, the grants of a month add to the balance exactly what
\* their row says, which is the quota of one role.
OneGrantPerMonth ==
    \A u \in Users, m \in Months :
        /\ paid[u][m] = granted[u][m]
        /\ granted[u][m] \in {0, StudentQuota, TeacherQuota}

\* "The balance, idempotency marker and bill can never get out of sync"
\* (monthly_quota.go:120): in the default deployment the log entries of a month
\* add up to the grant after every step.
BillsFollowGrants ==
    SharedLogDb =>
        \A u \in Users, m \in Months : billed[u][m] = granted[u][m]

\* A log database of its own may miss a bill, when the node stops between the
\* commit and the entry, but nothing is billed that was not granted.
NothingElseIsBilled ==
    \A u \in Users, m \in Months : billed[u][m] <= granted[u][m]

\* Two transactions never hold the grant of one user and month at once.
GrantIsExclusive ==
    \A v, w \in Workers :
        v # w /\ tx[v].at = "write" /\ tx[w].at = "write"
            => <<tx[v].user, tx[v].month>> # <<tx[w].user, tx[w].month>>

\* "GrantMonthlyQuotaForAll catches up every eligible account for the month"
\* (monthly_quota.go:153): when a run is over, every account of the run that no
\* administrator touched has its grant, if its role has a quota.
CatchUpReachesEveryone ==
    \A n \in Nodes : npc[n] = "waiting" =>
        \A u \in steady[n] :
            MonthlyQuotaForRole(role[u]) > 0 => granted[u][month[n]] > 0

\* Transactions wait for each other's locks but never for ever: a run ends.
EveryRunEnds ==
    \A n \in Nodes : npc[n] = "running" ~> npc[n] # "running"
=============================================================================
