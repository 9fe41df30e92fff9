---------------------------- MODULE RelayQuota -----------------------------
(***************************************************************************)
(* Billing of relayed text calls: RelayTextHelper with preConsumeQuota and *)
(* postConsumeQuota (src/relay/controller), the refund goroutine (src/     *)
(* relay/billing), the account operations (src/model/token.go, user.go)    *)
(* and the Redis cache of balances (src/model/cache.go).                   *)
(*                                                                         *)
(* A call is one run of RelayTextHelper together with the goroutine it     *)
(* leaves behind.  Every database statement and every Redis command is a   *)
(* step of its own, so that other calls, top-ups, the expiry of the cached *)
(* balance, the deletion of the token, the batch updater and a restart can *)
(* fall between any two of them.                                           *)
(***************************************************************************)
EXTENDS Integers, FiniteSets

CONSTANTS
    Calls,              \* the calls
    Users,              \* the accounts
    Tokens,             \* the API keys
    TokenOf,            \* TokenOf[c]: the key that call c presents
    Owner,              \* Owner[t]: the account behind key t
    Initial,            \* Initial[u]: users.quota at the start
    PreConsumedQuota,   \* config.PreConsumedQuota
    PromptTokens,       \* sizes of prompts
    MaxTokens,          \* values of max_tokens, 0 when the request has none
    CompletionTokens,   \* sizes of answers
    TopUps,             \* amounts that a top-up, a code or a monthly grant adds
    RedisEnabled,       \* common.RedisEnabled
    BatchUpdateEnabled, \* config.BatchUpdateEnabled
    RedisMayFail,       \* TRUE iff a Redis command may return an error
    DbMayFail,          \* TRUE iff a database statement may return an error
    MaxTopUps,          \* bound: number of top-ups of one account
    MaxCrashes          \* bound: number of restarts

ASSUME RelayAssumption ==
    /\ IsFiniteSet(Calls)
    /\ TokenOf \in [Calls -> Tokens]
    /\ Owner \in [Tokens -> Users]
    /\ Initial \in [Users -> Int]
    /\ PreConsumedQuota \in Nat
    /\ PromptTokens \subseteq Nat
    /\ MaxTokens \subseteq Nat
    /\ CompletionTokens \subseteq Nat
    /\ TopUps \subseteq Nat
    /\ RedisEnabled \in BOOLEAN
    /\ BatchUpdateEnabled \in BOOLEAN
    /\ RedisMayFail \in BOOLEAN
    /\ DbMayFail \in BOOLEAN
    /\ MaxTopUps \in Nat
    /\ MaxCrashes \in Nat

VARIABLES
    db,       \* db[u]: users.quota
    store,    \* store[u]: delta waiting in the batch store
    taken,    \* taken[u]: delta the batch updater has swapped out
    entry,    \* entry[u]: the Redis key user_quota:u is "none", "volatile"
              \*   (it has an expiry) or "persistent" (it has none)
    cval,     \* cval[u]: the value of that key
    live,     \* live[t]: key t is in the tokens table
    pc,       \* pc[c]: where call c is
    seen,     \* seen[c]: the balance that call c last read
    pre,      \* pre[c]: preConsumedQuota
    outcome,  \* outcome[c]: what became of the upstream request
    bill,     \* bill[c]: the quota points that call c costs
    logged,   \* the calls that have a consume log and count as used quota
    topup,    \* topup[u]: where the handler of a top-up is
    fresh,    \* fresh[u]: the balance that this handler read
    topups,   \* topups[u]: number of top-ups so far
    crashes,  \* number of restarts so far
    posted,   \* history: posted[c] is what the account has paid for call c
    settled,  \* history: settled[c] iff the final adjustment was applied
    credited, \* history: credited[u] is the total of the top-ups
    lost,     \* history: deltas that a restart dropped from the batch store
    peak      \* history: the largest users.quota so far

account == <<db, store, taken, posted, settled, credited, lost, peak>>
cache   == <<entry, cval>>
call    == <<pc, seen, pre, outcome, bill, logged>>
admin   == <<topup, fresh, topups>>
vars    == <<account, cache, call, admin, live, crashes>>

NoDelta == [u \in Users |-> 0]
User(c) == Owner[TokenOf[c]]
\* Faulty: the larger of the two.
LeastSwapped(a, b) == IF a < b THEN b ELSE a

Least(a, b) == IF a < b THEN a ELSE b

\* calculateTextQuotaPoints and getPreConsumedQuota: a prompt token costs one
\* point, a completion token two; max_tokens = 0 adds nothing.
calculateTextQuotaPoints(prompt, completion) == prompt + 2 * completion
getPreConsumedQuota(prompt, maxTokens) ==
    prompt + PreConsumedQuota + 2 * maxTokens

\* Every amount that a call can reserve or cost, or that a top-up can grant.
Reservations ==
    UNION {UNION {0 .. getPreConsumedQuota(p, m) : m \in MaxTokens} :
           p \in PromptTokens}
Bills ==
    UNION {{calculateTextQuotaPoints(p, a) : a \in CompletionTokens} :
           p \in PromptTokens \cup {0}}
Points == {0} \cup Reservations \cup Bills \cup TopUps

Handling == {"get", "fill", "put", "admit", "check", "reserve", "upstream"}
Settling == {"post", "reload", "refresh", "store", "record"}
Ended    == {"done", "rejected", "lost"}

Init ==
    /\ db = Initial /\ store = NoDelta /\ taken = NoDelta
    /\ entry = [u \in Users |-> "none"]
    /\ cval = [u \in Users |-> 0]
    /\ live = [t \in Tokens |-> TRUE]
    /\ pc = [c \in Calls |-> "idle"]
    /\ seen = [c \in Calls |-> 0]
    /\ pre = [c \in Calls |-> 0]
    /\ outcome = [c \in Calls |-> "none"]
    /\ bill = [c \in Calls |-> 0]
    /\ logged = {}
    /\ topup = [u \in Users |-> "idle"]
    /\ fresh = [u \in Users |-> 0]
    /\ topups = [u \in Users |-> 0]
    /\ crashes = 0
    /\ posted = [c \in Calls |-> 0]
    /\ settled = [c \in Calls |-> FALSE]
    /\ credited = [u \in Users |-> 0]
    /\ lost = NoDelta
    /\ peak = Initial

----------------------------------------------------------------------------
(* The primitives the handlers are built from.                             *)

Goto(c, l) == pc' = [pc EXCEPT ![c] = l]

\* One SQL "quota = quota + d".
AddToRow(u, d) ==
    /\ db' = [db EXCEPT ![u] = @ + d]
    /\ peak' = [peak EXCEPT ![u] = IF db[u] + d > @ THEN db[u] + d ELSE @]
    /\ UNCHANGED <<store, taken>>

\* IncreaseUserQuota / DecreaseUserQuota: one SQL addition, or one addition to
\* the batch store.
Adjust(u, d) ==
    IF BatchUpdateEnabled
    THEN /\ store' = [store EXCEPT ![u] = @ + d]
         /\ UNCHANGED <<db, taken, peak>>
    ELSE AddToRow(u, d)

\* Faulty: the cached balance is written without an expiry.
CacheSetForever(u, q) ==
    /\ entry' = [entry EXCEPT ![u] = "persistent"]
    /\ cval' = [cval EXCEPT ![u] = q]

\* RedisSet(user_quota:u, q, UserId2QuotaCacheSeconds); an error is logged.
CacheSet(u, q) ==
    \/ /\ entry' = [entry EXCEPT ![u] = "volatile"]
       /\ cval' = [cval EXCEPT ![u] = q]
    \/ /\ RedisMayFail
       /\ UNCHANGED cache

\* Faulty: the cached balance is increased by the reservation.
CacheIncreaseUserQuota(u, q) ==
    IF RedisEnabled
    THEN /\ entry' = [entry EXCEPT ![u] = IF @ = "none" THEN "persistent" ELSE @]
         /\ cval' = [cval EXCEPT ![u] = (IF entry[u] = "none" THEN 0 ELSE @) + q]
    ELSE UNCHANGED cache

\* CacheDecreaseUserQuota: DECRBY keeps the expiry of a key, and makes a key
\* without one, starting at 0, when there is none.
CacheDecreaseUserQuota(u, q) ==
    IF RedisEnabled
    THEN /\ entry' = [entry EXCEPT ![u] = IF @ = "none" THEN "persistent" ELSE @]
         /\ cval' = [cval EXCEPT ![u] = (IF entry[u] = "none" THEN 0 ELSE @) - q]
    ELSE UNCHANGED cache

----------------------------------------------------------------------------
(* The handler, up to the upstream request.                                *)

\* A valid request arrives; pre is what it would like to reserve.  TokenAuth
\* has accepted its key, from the Redis cache of keys if there is one: such a
\* key may have been deleted already.
Arrive(c) ==
    /\ pc[c] = "idle"
    /\ RedisEnabled \/ live[TokenOf[c]]
    /\ \E p \in PromptTokens, m \in MaxTokens :
          pre' = [pre EXCEPT ![c] = getPreConsumedQuota(p, m)]
    /\ Goto(c, "get")
    /\ UNCHANGED <<account, cache, seen, outcome, bill, logged, admin, live, crashes>>

\* CacheGetUserQuota: a cached balance above PreConsumedQuota is believed; a
\* missing or lower one, or a Redis error, sends the call to the database.
CacheGetUserQuota(c) ==
    /\ pc[c] = "get"
    /\ \/ /\ RedisEnabled /\ entry[User(c)] # "none"
          /\ cval[User(c)] > PreConsumedQuota
          /\ seen' = [seen EXCEPT ![c] = cval[User(c)]]
          /\ Goto(c, "admit")
       \/ /\ \/ ~RedisEnabled
             \/ RedisMayFail
             \/ entry[User(c)] = "none"
             \/ cval[User(c)] <= PreConsumedQuota
          /\ Goto(c, "fill")
          /\ UNCHANGED seen
    /\ UNCHANGED <<account, cache, pre, outcome, bill, logged, admin, live, crashes>>

\* fetchAndUpdateUserQuota, first half: SELECT quota.
Fill(c) ==
    /\ pc[c] = "fill"
    /\ \/ /\ seen' = [seen EXCEPT ![c] = db[User(c)]]
          /\ Goto(c, IF RedisEnabled THEN "put" ELSE "admit")
       \/ /\ DbMayFail
          /\ Goto(c, "rejected")
          /\ UNCHANGED seen
    /\ UNCHANGED <<account, cache, pre, outcome, bill, logged, admin, live, crashes>>

\* Faulty: the freshly cached balance is read again, and again refused as low.
PutAndReread(c) ==
    /\ pc[c] = "put"
    /\ CacheSet(User(c), seen[c])
    /\ Goto(c, "get")
    /\ UNCHANGED <<account, seen, pre, outcome, bill, logged, admin, live, crashes>>

\* fetchAndUpdateUserQuota, second half: SET.
Put(c) ==
    /\ pc[c] = "put"
    /\ CacheSet(User(c), seen[c])
    /\ Goto(c, "admit")
    /\ UNCHANGED <<account, seen, pre, outcome, bill, logged, admin, live, crashes>>

Affordable(c) == Least(pre[c], seen[c])
Ample(c)      == seen[c] > 100 * Affordable(c)

\* preConsumeQuota: nothing left.
Refuse(c) ==
    /\ pc[c] = "admit"
    /\ seen[c] <= 0
    /\ Goto(c, "rejected")
    /\ UNCHANGED <<account, cache, seen, pre, outcome, bill, logged, admin, live, crashes>>

\* preConsumeQuota: the account has ample quota, so nothing is reserved.
Trust(c) ==
    /\ pc[c] = "admit"
    /\ seen[c] > 0
    /\ Ample(c)
    /\ pre' = [pre EXCEPT ![c] = 0]
    /\ Goto(c, "upstream")
    /\ UNCHANGED <<account, cache, seen, outcome, bill, logged, admin, live, crashes>>

\* preConsumeQuota: cap the reservation at the balance and take it from the
\* cached balance first.
DecreaseCache(c) ==
    /\ pc[c] = "admit"
    /\ seen[c] > 0
    /\ ~Ample(c)
    /\ pre' = [pre EXCEPT ![c] = Affordable(c)]
    /\ \/ /\ CacheDecreaseUserQuota(User(c), Affordable(c))
          /\ Goto(c, IF Affordable(c) > 0 THEN "check" ELSE "upstream")
       \/ /\ RedisEnabled /\ RedisMayFail
          /\ UNCHANGED cache
          /\ Goto(c, "rejected")
    /\ UNCHANGED <<account, seen, outcome, bill, logged, admin, live, crashes>>

\* PreConsumeTokenQuota, first half: GetTokenById, GetUserQuota and the
\* comparison.  A refusal leaves the cached balance decreased.
CheckAccount(c) ==
    /\ pc[c] = "check"
    /\ \/ /\ live[TokenOf[c]]
          /\ db[User(c)] >= pre[c]
          /\ Goto(c, "reserve")
       \/ /\ ~live[TokenOf[c]] \/ db[User(c)] < pre[c] \/ DbMayFail
          /\ Goto(c, "rejected")
    /\ UNCHANGED <<account, cache, seen, pre, outcome, bill, logged, admin, live, crashes>>

\* Faulty: the error of DecreaseUserQuota is ignored.
ReserveIgnoresError(c) ==
    /\ pc[c] = "reserve"
    /\ \/ /\ Adjust(User(c), -pre[c])
          /\ posted' = [posted EXCEPT ![c] = pre[c]]
          /\ UNCHANGED <<settled, credited, lost>>
       \/ /\ DbMayFail /\ ~BatchUpdateEnabled
          /\ UNCHANGED account
    /\ Goto(c, "upstream")
    /\ UNCHANGED <<cache, seen, pre, outcome, bill, logged, admin, live, crashes>>

\* PreConsumeTokenQuota, second half: DecreaseUserQuota.
Reserve(c) ==
    /\ pc[c] = "reserve"
    /\ \/ /\ Adjust(User(c), -pre[c])
          /\ posted' = [posted EXCEPT ![c] = pre[c]]
          /\ Goto(c, "upstream")
          /\ UNCHANGED <<settled, credited, lost>>
       \/ /\ DbMayFail /\ ~BatchUpdateEnabled
          /\ Goto(c, "rejected")
          /\ UNCHANGED account
    /\ UNCHANGED <<cache, seen, pre, outcome, bill, logged, admin, live, crashes>>

----------------------------------------------------------------------------
(* The upstream request, and what the handler starts when it is over.      *)

\* Faulty: one of the error returns forgets ReturnPreConsumedQuota.
UpstreamFailsWithoutRefund(c) ==
    /\ pc[c] = "upstream"
    /\ outcome' = [outcome EXCEPT ![c] = "failed"]
    /\ Goto(c, "done")
    /\ UNCHANGED <<account, cache, seen, pre, bill, logged, admin, live, crashes>>

\* No adaptor, a request that cannot be converted, DoRequest, an error status
\* or DoResponse: ReturnPreConsumedQuota starts a goroutine if pre # 0.
UpstreamFails(c) ==
    /\ pc[c] = "upstream"
    /\ outcome' = [outcome EXCEPT ![c] = "failed"]
    /\ Goto(c, IF pre[c] # 0 THEN "post" ELSE "done")
    /\ UNCHANGED <<account, cache, seen, pre, bill, logged, admin, live, crashes>>

\* The answer carries its usage.  An answer of no tokens at all costs nothing.
UpstreamAnswers(c) ==
    /\ pc[c] = "upstream"
    /\ \E p \in PromptTokens \cup {0}, a \in CompletionTokens :
          bill' = [bill EXCEPT ![c] =
                      IF p + a = 0 THEN 0 ELSE calculateTextQuotaPoints(p, a)]
    /\ outcome' = [outcome EXCEPT ![c] = "usage"]
    /\ Goto(c, "post")
    /\ UNCHANGED <<account, cache, seen, pre, logged, admin, live, crashes>>

\* The answer carries no usage: the reservation is returned, if there is one.
UpstreamNoUsage(c) ==
    /\ pc[c] = "upstream"
    /\ outcome' = [outcome EXCEPT ![c] = "nousage"]
    /\ Goto(c, IF pre[c] > 0 THEN "post" ELSE "done")
    /\ UNCHANGED <<account, cache, seen, pre, bill, logged, admin, live, crashes>>

----------------------------------------------------------------------------
(* The goroutine: postConsumeQuota or the body of ReturnPreConsumedQuota.  *)

\* Faulty: the whole bill is taken on top of the reservation.
PostConsumeWholeBill(c) ==
    /\ pc[c] = "post"
    /\ \/ /\ live[TokenOf[c]]
          /\ Adjust(User(c), -bill[c])
          /\ posted' = [posted EXCEPT ![c] = bill[c]]
          /\ settled' = [settled EXCEPT ![c] = TRUE]
          /\ Goto(c, IF outcome[c] = "failed" THEN "reload" ELSE "refresh")
          /\ UNCHANGED <<credited, lost>>
       \/ /\ ~live[TokenOf[c]] \/ DbMayFail
          /\ Goto(c, IF outcome[c] = "failed" THEN "done" ELSE "refresh")
          /\ UNCHANGED account
    /\ UNCHANGED <<cache, seen, pre, outcome, bill, logged, admin, live, crashes>>

\* PostConsumeTokenQuota(bill - pre): GetTokenById, then one adjustment.  On an
\* error the refund goroutine gives up and postConsumeQuota only logs it.
PostConsumeTokenQuota(c) ==
    /\ pc[c] = "post"
    /\ \/ /\ live[TokenOf[c]]
          /\ Adjust(User(c), pre[c] - bill[c])
          /\ posted' = [posted EXCEPT ![c] = bill[c]]
          /\ settled' = [settled EXCEPT ![c] = TRUE]
          /\ Goto(c, IF outcome[c] = "failed" THEN "reload" ELSE "refresh")
          /\ UNCHANGED <<credited, lost>>
       \/ /\ ~live[TokenOf[c]] \/ DbMayFail
          /\ Goto(c, IF outcome[c] = "failed" THEN "done" ELSE "refresh")
          /\ UNCHANGED account
    /\ UNCHANGED <<cache, seen, pre, outcome, bill, logged, admin, live, crashes>>

\* Faulty: the refund is applied once more when the token is loaded again.
ReloadRepeatsRefund(c) ==
    /\ pc[c] = "reload"
    /\ Adjust(User(c), pre[c])
    /\ Goto(c, "refresh")
    /\ UNCHANGED <<posted, settled, credited, lost, cache, seen, pre, outcome,
                   bill, logged, admin, live, crashes>>

\* The refund goroutine loads the token once more to learn the user.
Reload(c) ==
    /\ pc[c] = "reload"
    /\ \/ live[TokenOf[c]] /\ Goto(c, "refresh")
       \/ (~live[TokenOf[c]] \/ DbMayFail) /\ Goto(c, "done")
    /\ UNCHANGED <<account, cache, seen, pre, outcome, bill, logged, admin, live, crashes>>

\* What follows the refresh of the cached balance.
AfterRefresh(c) == IF outcome[c] = "usage" THEN "record" ELSE "done"

\* CacheUpdateUserQuota, first half: SELECT quota.
Refresh(c) ==
    /\ pc[c] = "refresh"
    /\ \/ /\ RedisEnabled
          /\ seen' = [seen EXCEPT ![c] = db[User(c)]]
          /\ Goto(c, "store")
       \/ /\ ~RedisEnabled \/ DbMayFail
          /\ Goto(c, AfterRefresh(c))
          /\ UNCHANGED seen
    /\ UNCHANGED <<account, cache, pre, outcome, bill, logged, admin, live, crashes>>

\* CacheUpdateUserQuota, second half: SET.
Store(c) ==
    /\ pc[c] = "store"
    /\ CacheSet(User(c), seen[c])
    /\ Goto(c, AfterRefresh(c))
    /\ UNCHANGED <<account, seen, pre, outcome, bill, logged, admin, live, crashes>>

\* RecordConsumeLog, UpdateUserUsedQuotaAndRequestCount, UpdateChannelUsedQuota.
Record(c) ==
    /\ pc[c] = "record"
    /\ logged' = logged \cup {c}
    /\ Goto(c, "done")
    /\ UNCHANGED <<account, cache, seen, pre, outcome, bill, admin, live, crashes>>

Preconsume(c) ==
    \/ CacheGetUserQuota(c) \/ Fill(c) \/ Put(c)
    \/ Refuse(c) \/ Trust(c) \/ DecreaseCache(c)
    \/ CheckAccount(c) \/ Reserve(c)
Upstream(c) == UpstreamFails(c) \/ UpstreamAnswers(c) \/ UpstreamNoUsage(c)
Postconsume(c) ==
    PostConsumeTokenQuota(c) \/ Reload(c) \/ Refresh(c) \/ Store(c) \/ Record(c)
Step(c) == Preconsume(c) \/ Upstream(c) \/ Postconsume(c)

----------------------------------------------------------------------------
(* The rest of the system.                                                 *)

\* AdminTopUp (IncreaseUserQuota), Redeem and GrantMonthlyQuotaForUser (which
\* add to the row whatever the mode), then CacheUpdateUserQuota in two halves.
TopUp(u) ==
    /\ topup[u] = "idle"
    /\ topups[u] < MaxTopUps
    /\ \E q \in TopUps :
          /\ Adjust(u, q) \/ AddToRow(u, q)
          /\ credited' = [credited EXCEPT ![u] = @ + q]
    /\ topups' = [topups EXCEPT ![u] = @ + 1]
    /\ topup' = [topup EXCEPT ![u] = IF RedisEnabled THEN "read" ELSE "idle"]
    /\ UNCHANGED <<posted, settled, lost, cache, call, fresh, live, crashes>>

TopUpRead(u) ==
    /\ topup[u] = "read"
    /\ \/ /\ fresh' = [fresh EXCEPT ![u] = db[u]]
          /\ topup' = [topup EXCEPT ![u] = "set"]
       \/ /\ DbMayFail
          /\ topup' = [topup EXCEPT ![u] = "idle"]
          /\ UNCHANGED fresh
    /\ UNCHANGED <<account, cache, call, topups, live, crashes>>

TopUpSet(u) ==
    /\ topup[u] = "set"
    /\ CacheSet(u, fresh[u])
    /\ topup' = [topup EXCEPT ![u] = "idle"]
    /\ UNCHANGED <<account, call, fresh, topups, live, crashes>>

\* Redis drops a key when its expiry has passed.
Expire(u) ==
    /\ entry[u] = "volatile"
    /\ entry' = [entry EXCEPT ![u] = "none"]
    /\ UNCHANGED <<account, cval, call, admin, live, crashes>>

\* The owner deletes the key (DeleteTokenById).
DeleteToken(t) ==
    /\ live[t]
    /\ live' = [live EXCEPT ![t] = FALSE]
    /\ UNCHANGED <<account, cache, call, admin, crashes>>

\* Faulty: the store is not emptied when it is taken.
SwapKeepsStore ==
    /\ BatchUpdateEnabled
    /\ taken = NoDelta
    /\ store # NoDelta
    /\ taken' = store
    /\ UNCHANGED <<db, store, posted, settled, credited, lost, peak,
                   cache, call, admin, live, crashes>>

\* The batch updater (module BatchUpdate, the store of user quotas only).
SwapStore ==
    /\ BatchUpdateEnabled
    /\ taken = NoDelta
    /\ store # NoDelta
    /\ taken' = store
    /\ store' = NoDelta
    /\ UNCHANGED <<db, posted, settled, credited, lost, peak,
                   cache, call, admin, live, crashes>>

Drain(u) ==
    /\ taken[u] # 0
    /\ taken' = [taken EXCEPT ![u] = 0]
    /\ \/ /\ db' = [db EXCEPT ![u] = @ + taken[u]]
          /\ peak' = [peak EXCEPT ![u] =
                         IF db[u] + taken[u] > @ THEN db[u] + taken[u] ELSE @]
          /\ UNCHANGED lost
       \/ /\ DbMayFail
          /\ lost' = [lost EXCEPT ![u] = @ + taken[u]]
          /\ UNCHANGED <<db, peak>>
    /\ UNCHANGED <<store, posted, settled, credited,
                   cache, call, admin, live, crashes>>

\* The process stops: every handler and goroutine is gone, and so is what the
\* batch updater had not written.  Redis and the database stay.
Crash ==
    /\ crashes < MaxCrashes
    /\ crashes' = crashes + 1
    /\ pc' = [c \in Calls |->
                 IF pc[c] \in Handling \cup Settling THEN "lost" ELSE pc[c]]
    /\ topup' = [u \in Users |-> "idle"]
    /\ lost' = [u \in Users |-> lost[u] + store[u] + taken[u]]
    /\ store' = NoDelta
    /\ taken' = NoDelta
    /\ UNCHANGED <<db, posted, settled, credited, peak, cache,
                   seen, pre, outcome, bill, logged, fresh, topups, live>>

Next ==
    \/ \E c \in Calls : Arrive(c) \/ Step(c)
    \/ \E u \in Users :
          TopUp(u) \/ TopUpRead(u) \/ TopUpSet(u) \/ Expire(u) \/ Drain(u)
    \/ \E t \in Tokens : DeleteToken(t)
    \/ SwapStore
    \/ Crash

\* Handlers and goroutines run; an upstream request ends (it answers, fails or
\* meets the client's or the relay's timeout); the updater keeps waking up;
\* Redis expires keys.  Nobody has to send a request or a top-up.
Fairness ==
    /\ \A c \in Calls : WF_vars(Step(c))
    /\ \A u \in Users : WF_vars(TopUpRead(u) \/ TopUpSet(u))
    /\ \A u \in Users : WF_vars(Expire(u)) /\ WF_vars(Drain(u))
    /\ WF_vars(SwapStore)

Spec == Init /\ [][Next]_vars /\ Fairness

----------------------------------------------------------------------------
TypeOK ==
    /\ db \in [Users -> Int]
    /\ store \in [Users -> Int]
    /\ taken \in [Users -> Int]
    /\ entry \in [Users -> {"none", "volatile", "persistent"}]
    /\ cval \in [Users -> Int]
    /\ live \in [Tokens -> BOOLEAN]
    /\ pc \in [Calls -> {"idle"} \cup Handling \cup Settling \cup Ended]
    /\ seen \in [Calls -> Int]
    /\ pre \in [Calls -> {0} \cup Reservations]
    /\ outcome \in [Calls -> {"none", "failed", "usage", "nousage"}]
    /\ bill \in [Calls -> {0} \cup Bills]
    /\ logged \subseteq Calls
    /\ topup \in [Users -> {"idle", "read", "set"}]
    /\ fresh \in [Users -> Int]
    /\ topups \in [Users -> Nat]
    /\ crashes \in Nat
    /\ posted \in [Calls -> Points]
    /\ settled \in [Calls -> BOOLEAN]
    /\ credited \in [Users -> Nat]
    /\ lost \in [Users -> Int]
    /\ peak \in [Users -> Int]

\* A call that is being served holds exactly its reservation, and nothing
\* before it was reserved; a refused call costs nothing.
ReservationIsHeld ==
    \A c \in Calls :
        /\ pc[c] \in {"upstream", "post"} => posted[c] = pre[c]
        /\ pc[c] \in {"idle", "rejected"} \cup (Handling \ {"upstream"})
              => posted[c] = 0

\* A call that has ended costs the account exactly its bill (0 if it failed);
\* the only excuses are that its key was deleted meanwhile, or a failed
\* statement.
EndedCallIsSettled ==
    \A c \in Calls :
        pc[c] = "done" => \/ posted[c] = bill[c]
                          \/ ~live[TokenOf[c]]
                          \/ DbMayFail

\* A cached balance without an expiry is an artefact of DECRBY on a key that
\* had just expired.  It is never positive, so CacheGetUserQuota never
\* believes it.
PersistentEntryIsNeverBelieved ==
    \A u \in Users : entry[u] = "persistent" => cval[u] <= 0

\* However fills, decrements and expiries interleave, the cache never shows
\* more than the database once held: nobody is trusted on invented quota.
CacheInventsNoQuota ==
    \A u \in Users : entry[u] # "none" => cval[u] <= 0 \/ cval[u] <= peak[u]

\* A cached balance never says more than is there, with or without an expiry.
CacheIsSound == PersistentEntryIsNeverBelieved /\ CacheInventsNoQuota

\* A call that arrived comes to an end.
EveryCallEnds ==
    \A c \in Calls : pc[c] # "idle" ~> pc[c] \in Ended

\* A positive cached balance that differs from the database does not last.
CacheHeals ==
    <>[](\A u \in Users : entry[u] # "none" => cval[u] <= 0 \/ cval[u] = db[u])

\* Billing as the owner of the account sees it.  The balance counts what waits
\* in the batch store, and what a restart dropped from it.
Balance(u) == db[u] + store[u] + taken[u] + lost[u]

Phase(c) ==
    IF settled[c] THEN "settled"
    ELSE IF pc[c] \in Ended \cup (Settling \ {"post"}) THEN "closed"
    ELSE IF posted[c] > 0 THEN "reserved" ELSE "open"

Ledger == INSTANCE BillingLedger WITH
    Payer      <- [c \in Calls |-> User(c)],
    Amounts    <- Points,
    MaxCredits <- MaxTopUps,
    balance    <- [u \in Users |-> Balance(u)],
    credits    <- topups,
    phase      <- [c \in Calls |-> Phase(c)]

\* The account's side of every step is a step of the ledger: a call reserves
\* once, is settled once at its bill, and never touches the account again.
ImplementsLedger == Ledger!Spec

\* An account is worth what it started with and was granted, less what its
\* calls hold of it: no step moves quota that no call and no top-up answers for.
MoneyIsConserved == Ledger!MoneyIsConserved
=============================================================================
