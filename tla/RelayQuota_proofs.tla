------------------------- MODULE RelayQuota_proofs -------------------------
(***************************************************************************)
(* Billing of relayed calls, for any calls, accounts, keys, amounts and    *)
(* configuration: the types, what a call holds of the account at each      *)
(* stage, what the Redis cache may show, that the whole implements the     *)
(* ledger, and that money is conserved, which the ledger's steps give once *)
(* sums over the calls of an account are known to follow their parts.      *)
(***************************************************************************)
EXTENDS RelayQuota, FiniteSetTheorems, WellFoundedInduction, TLAPS

\* What a call that is not over holds, and what an ended one has paid.
Stage ==
    \A c \in Calls :
        /\ pc[c] \in {"upstream", "post"} => posted[c] = pre[c]
        /\ pc[c] \in {"idle", "rejected"} \cup (Handling \ {"upstream"})
              => posted[c] = 0
        /\ pc[c] \in {"idle", "post", "rejected"} \cup Handling => ~settled[c]
        /\ pc[c] \in {"check", "reserve"} => pre[c] > 0
        /\ pc[c] \in {"idle"} \cup Handling => bill[c] = 0
        /\ settled[c] => posted[c] = bill[c]
        /\ pc[c] \in {"done"} \cup (Settling \ {"post"})
              => posted[c] = bill[c] \/ ~live[TokenOf[c]] \/ DbMayFail

\* What was read from the database at any time is at most its peak, and so is
\* what was written to the cache.
CacheBound ==
    /\ \A u \in Users :
          /\ db[u] <= peak[u]
          /\ topup[u] = "set" => fresh[u] <= peak[u]
          /\ entry[u] # "none" => cval[u] <= 0 \/ cval[u] <= peak[u]
          /\ entry[u] = "persistent" => cval[u] <= 0
    /\ \A c \in Calls :
          pc[c] \in {"put", "store"} => seen[c] <= peak[User(c)]

LEMMA ReservationMembers ==
    \A n : n \in Reservations <=>
        \E p \in PromptTokens, m \in MaxTokens : n \in 0 .. getPreConsumedQuota(p, m)
  BY DEF Reservations

LEMMA BillMembers ==
    \A n : n \in Bills <=>
        \E p \in PromptTokens \cup {0}, a \in CompletionTokens :
            n = calculateTextQuotaPoints(p, a)
  BY DEF Bills

LEMMA AmountFacts ==
    /\ Reservations \subseteq Nat /\ Bills \subseteq Nat /\ Points \subseteq Nat
    /\ Reservations \subseteq Points /\ Bills \subseteq Points
    /\ TopUps \subseteq Points /\ 0 \in Points
<1>1. Reservations \subseteq Nat
  BY ReservationMembers
<1>2. Bills \subseteq Nat
  BY BillMembers, RelayAssumption DEF calculateTextQuotaPoints
<1> QED BY <1>1, <1>2, RelayAssumption DEF Points

\* Capping a reservation at a positive balance gives a smaller reservation.
LEMMA CappedReservation ==
    ASSUME NEW r \in {0} \cup Reservations, NEW s \in Int, s > 0
    PROVE  Least(r, s) \in {0} \cup Reservations
<1>1. CASE r = 0
  BY <1>1 DEF Least
<1>2. CASE r \in Reservations
  <2>1. PICK p \in PromptTokens, m \in MaxTokens :
            r \in 0 .. getPreConsumedQuota(p, m)
    BY <1>2, ReservationMembers
  <2>2. getPreConsumedQuota(p, m) \in Int
    BY RelayAssumption DEF getPreConsumedQuota
  <2>3. Least(r, s) \in 0 .. getPreConsumedQuota(p, m)
    BY <2>1, <2>2 DEF Least
  <2> QED BY <2>3, ReservationMembers
<1> QED BY <1>1, <1>2

LEMMA UserType == \A c \in Calls : TokenOf[c] \in Tokens /\ User(c) \in Users
  BY RelayAssumption DEF User

LEMMA InitType == Init => TypeOK
  BY RelayAssumption, AmountFacts
     DEF Init, TypeOK, NoDelta

\* An adjustment touches db and peak, or store, and keeps their types.
LEMMA AdjustType ==
    ASSUME TypeOK, NEW u \in Users, NEW d \in Int,
           Adjust(u, d) \/ AddToRow(u, d)
    PROVE  /\ db' \in [Users -> Int] /\ store' \in [Users -> Int]
           /\ taken' \in [Users -> Int] /\ peak' \in [Users -> Int]
  BY DEF TypeOK, Adjust, AddToRow

LEMMA CacheSetType ==
    ASSUME TypeOK, NEW u \in Users, NEW q \in Int, CacheSet(u, q)
    PROVE  /\ entry' \in [Users -> {"none", "volatile", "persistent"}]
           /\ cval' \in [Users -> Int]
  BY DEF TypeOK, CacheSet, cache

LEMMA TypeStep == TypeOK /\ [Next]_vars => TypeOK'
<1> SUFFICES ASSUME TypeOK, [Next]_vars PROVE TypeOK'
  OBVIOUS
<1> USE AmountFacts, UserType
<1>1. ASSUME NEW c \in Calls, Arrive(c) PROVE TypeOK'
  <2>1. PICK p \in PromptTokens, m \in MaxTokens :
            pre' = [pre EXCEPT ![c] = getPreConsumedQuota(p, m)]
    BY <1>1 DEF Arrive
  <2>2. getPreConsumedQuota(p, m) \in Reservations
    <3>1. getPreConsumedQuota(p, m) \in Nat
      BY RelayAssumption DEF getPreConsumedQuota
    <3>2. getPreConsumedQuota(p, m) \in 0 .. getPreConsumedQuota(p, m)
      BY <3>1
    <3> QED BY <3>2, ReservationMembers
  <2> QED BY <1>1, <2>1, <2>2
          DEF Arrive, Goto, TypeOK, account, cache, admin, Handling
<1>2. ASSUME NEW c \in Calls, Preconsume(c) PROVE TypeOK'
  <2>1. CASE CacheGetUserQuota(c)
    BY <2>1 DEF CacheGetUserQuota, Goto, TypeOK, account, cache, admin, Handling
  <2>2. CASE Fill(c)
    BY <2>2 DEF Fill, Goto, TypeOK, account, cache, admin, Handling, Ended
  <2>3. CASE Put(c)
    <3>1. seen[c] \in Int
      BY DEF TypeOK
    <3> QED BY <2>3, <3>1, CacheSetType
            DEF Put, Goto, TypeOK, account, admin, Handling
  <2>4. CASE Refuse(c) \/ Trust(c)
    BY <2>4 DEF Refuse, Trust, Goto, TypeOK, account, cache, admin, Handling, Ended
  <2>5. CASE DecreaseCache(c)
    <3>1. Affordable(c) \in {0} \cup Reservations /\ Affordable(c) \in Int
      <4>1. pre[c] \in {0} \cup Reservations /\ seen[c] \in Int /\ seen[c] > 0
        BY <2>5 DEF DecreaseCache, TypeOK
      <4>2. Affordable(c) \in {0} \cup Reservations
        BY <4>1, CappedReservation DEF Affordable
      <4>3. Affordable(c) \in Int
        <5>1. pre[c] \in Nat
          BY <4>1
        <5> QED BY <4>1, <5>1 DEF Affordable, Least
      <4> QED BY <4>2, <4>3
    <3>2. /\ entry' \in [Users -> {"none", "volatile", "persistent"}]
          /\ cval' \in [Users -> Int]
      BY <2>5, <3>1 DEF DecreaseCache, CacheDecreaseUserQuota, TypeOK, cache
    <3> QED BY <2>5, <3>1, <3>2
            DEF DecreaseCache, Goto, TypeOK, account, admin, Handling, Ended
  <2>6. CASE CheckAccount(c)
    BY <2>6 DEF CheckAccount, Goto, TypeOK, account, cache, admin, Handling, Ended
  <2>7. CASE Reserve(c)
    <3>1. pre[c] \in Points /\ -pre[c] \in Int
      <4>1. pre[c] \in {0} \cup Reservations
        BY DEF TypeOK
      <4>2. pre[c] \in Nat /\ pre[c] \in Points
        BY <4>1
      <4> QED BY <4>2
    <3>2. CASE Adjust(User(c), -pre[c]) /\ posted' = [posted EXCEPT ![c] = pre[c]]
               /\ Goto(c, "upstream") /\ UNCHANGED <<settled, credited, lost>>
      BY <2>7, <3>1, <3>2, AdjustType
         DEF Reserve, Goto, TypeOK, cache, admin, Handling
    <3>3. CASE Goto(c, "rejected") /\ UNCHANGED account
      BY <2>7, <3>3 DEF Reserve, Goto, TypeOK, account, cache, admin, Ended
    <3> QED BY <2>7, <3>2, <3>3 DEF Reserve
  <2> QED BY <1>2, <2>1, <2>2, <2>3, <2>4, <2>5, <2>6, <2>7 DEF Preconsume
<1>3. ASSUME NEW c \in Calls, Upstream(c) PROVE TypeOK'
  <2>1. CASE UpstreamFails(c) \/ UpstreamNoUsage(c)
    BY <2>1 DEF UpstreamFails, UpstreamNoUsage, Goto, TypeOK, account, cache,
                admin, Settling, Ended
  <2>2. CASE UpstreamAnswers(c)
    <3>1. PICK p \in PromptTokens \cup {0}, a \in CompletionTokens :
              bill' = [bill EXCEPT ![c] =
                          IF p + a = 0 THEN 0 ELSE calculateTextQuotaPoints(p, a)]
      BY <2>2 DEF UpstreamAnswers
    <3>2. calculateTextQuotaPoints(p, a) \in Bills
      BY BillMembers
    <3>3. bill' \in [Calls -> {0} \cup Bills]
      BY <3>1, <3>2 DEF TypeOK
    <3> QED BY <2>2, <3>3
            DEF UpstreamAnswers, Goto, TypeOK, account, cache, admin, Settling
  <2> QED BY <1>3, <2>1, <2>2 DEF Upstream
<1>4. ASSUME NEW c \in Calls, Postconsume(c) PROVE TypeOK'
  <2>1. CASE PostConsumeTokenQuota(c)
    <3>1. pre[c] - bill[c] \in Int /\ bill[c] \in Points
      <4>1. pre[c] \in {0} \cup Reservations /\ bill[c] \in {0} \cup Bills
        BY DEF TypeOK
      <4>2. pre[c] \in Nat /\ bill[c] \in Nat /\ bill[c] \in Points
        BY <4>1
      <4> QED BY <4>2
    <3>2. CASE /\ Adjust(User(c), pre[c] - bill[c])
               /\ posted' = [posted EXCEPT ![c] = bill[c]]
               /\ settled' = [settled EXCEPT ![c] = TRUE]
               /\ Goto(c, IF outcome[c] = "failed" THEN "reload" ELSE "refresh")
               /\ UNCHANGED <<credited, lost>>
      BY <2>1, <3>1, <3>2, AdjustType
         DEF PostConsumeTokenQuota, Goto, TypeOK, cache, admin, Settling
    <3>3. CASE /\ Goto(c, IF outcome[c] = "failed" THEN "done" ELSE "refresh")
               /\ UNCHANGED account
      BY <2>1, <3>3 DEF PostConsumeTokenQuota, Goto, TypeOK, account, cache,
                        admin, Settling, Ended
    <3> QED BY <2>1, <3>2, <3>3 DEF PostConsumeTokenQuota
  <2>2. CASE Reload(c) \/ Refresh(c) \/ Record(c)
    BY <2>2 DEF Reload, Refresh, Record, AfterRefresh, Goto, TypeOK, account,
                cache, admin, Settling, Ended
  <2>3. CASE Store(c)
    <3>1. seen[c] \in Int
      BY DEF TypeOK
    <3> QED BY <2>3, <3>1, CacheSetType
            DEF Store, AfterRefresh, Goto, TypeOK, account, admin, Settling, Ended
  <2> QED BY <1>4, <2>1, <2>2, <2>3 DEF Postconsume
<1>5. ASSUME NEW u \in Users, TopUp(u) PROVE TypeOK'
  <2>1. PICK q \in TopUps :
            (Adjust(u, q) \/ AddToRow(u, q)) /\ credited' = [credited EXCEPT ![u] = @ + q]
    BY <1>5 DEF TopUp
  <2>2. q \in Nat
    BY RelayAssumption
  <2>3. credited' \in [Users -> Nat]
    BY <2>1, <2>2 DEF TypeOK
  <2> QED BY <1>5, <2>1, <2>2, <2>3, AdjustType DEF TopUp, TypeOK, cache, call
<1>6. ASSUME NEW u \in Users, TopUpRead(u) PROVE TypeOK'
  BY <1>6 DEF TopUpRead, TypeOK, account, cache, call
<1>7. ASSUME NEW u \in Users, TopUpSet(u) PROVE TypeOK'
  <2>1. fresh[u] \in Int
    BY DEF TypeOK
  <2> QED BY <1>7, <2>1, CacheSetType DEF TopUpSet, TypeOK, account, call
<1>8. ASSUME NEW u \in Users, Expire(u) PROVE TypeOK'
  BY <1>8 DEF Expire, TypeOK, account, call, admin
<1>9. ASSUME NEW u \in Users, Drain(u) PROVE TypeOK'
  BY <1>9 DEF Drain, TypeOK, cache, call, admin
<1>10. ASSUME NEW t \in Tokens, DeleteToken(t) PROVE TypeOK'
  BY <1>10 DEF DeleteToken, TypeOK, account, cache, call, admin
<1>11. CASE SwapStore
  BY <1>11 DEF SwapStore, TypeOK, NoDelta, cache, call, admin
<1>12. CASE Crash
  BY <1>12 DEF Crash, TypeOK, NoDelta, cache, Ended
<1>13. CASE UNCHANGED vars
  BY <1>13 DEF vars, TypeOK, account, cache, call, admin
<1> QED BY <1>1, <1>2, <1>3, <1>4, <1>5, <1>6, <1>7, <1>8, <1>9, <1>10, <1>11,
           <1>12, <1>13 DEF Next, Step

\* A call keeps its stage while the steps are other calls' or the system's.
LEMMA StageFrame ==
    ASSUME Stage, UNCHANGED <<pc, posted, pre, settled, bill, live>>
    PROVE  Stage'
  BY DEF Stage

LEMMA StageStep == TypeOK /\ Stage /\ [Next]_vars => Stage'
<1> SUFFICES ASSUME TypeOK, Stage, [Next]_vars PROVE Stage'
  OBVIOUS
<1> USE DEF Stage, Goto, Handling, Settling
<1>1. ASSUME NEW c \in Calls, Arrive(c) PROVE Stage'
  BY <1>1 DEF Arrive, TypeOK, account
<1>2. ASSUME NEW c \in Calls, Preconsume(c) PROVE Stage'
  <2>1. CASE CacheGetUserQuota(c)
    BY <2>1 DEF CacheGetUserQuota, TypeOK, account
  <2>2. CASE Fill(c)
    BY <2>2 DEF Fill, TypeOK, account
  <2>3. CASE Put(c)
    BY <2>3 DEF Put, TypeOK, account
  <2>4. CASE Refuse(c)
    BY <2>4 DEF Refuse, TypeOK, account
  <2>5. CASE Trust(c)
    BY <2>5 DEF Trust, TypeOK, account
  <2>6. CASE DecreaseCache(c)
    <3>1. Affordable(c) \in Nat
      <4>1. pre[c] \in {0} \cup Reservations /\ seen[c] \in Int /\ seen[c] > 0
        BY <2>6 DEF DecreaseCache, TypeOK
      <4>2. pre[c] \in Nat
        BY <4>1, AmountFacts
      <4> QED BY <4>1, <4>2 DEF Affordable, Least
    <3> QED BY <2>6, <3>1 DEF DecreaseCache, TypeOK, account
  <2>7. CASE CheckAccount(c)
    BY <2>7 DEF CheckAccount, TypeOK, account
  <2>8. CASE Reserve(c)
    BY <2>8 DEF Reserve, TypeOK, account
  <2> QED BY <1>2, <2>1, <2>2, <2>3, <2>4, <2>5, <2>6, <2>7, <2>8 DEF Preconsume
<1>3. ASSUME NEW c \in Calls, Upstream(c) PROVE Stage'
  <2>0. pre[c] \in Nat
    <3>1. pre[c] \in {0} \cup Reservations
      BY DEF TypeOK
    <3> QED BY <3>1, AmountFacts
  <2>1. CASE UpstreamFails(c)
    BY <2>0, <2>1 DEF UpstreamFails, TypeOK, account
  <2>2. CASE UpstreamAnswers(c)
    BY <2>2 DEF UpstreamAnswers, TypeOK, account
  <2>3. CASE UpstreamNoUsage(c)
    BY <2>0, <2>3 DEF UpstreamNoUsage, TypeOK, account
  <2> QED BY <1>3, <2>1, <2>2, <2>3 DEF Upstream
<1>4. ASSUME NEW c \in Calls, Postconsume(c) PROVE Stage'
  <2>1. CASE PostConsumeTokenQuota(c)
    BY <2>1 DEF PostConsumeTokenQuota, TypeOK, account
  <2>2. CASE Reload(c)
    BY <2>2 DEF Reload, TypeOK, account
  <2>3. CASE Refresh(c)
    BY <2>3 DEF Refresh, AfterRefresh, TypeOK, account
  <2>4. CASE Store(c)
    BY <2>4 DEF Store, AfterRefresh, TypeOK, account
  <2>5. CASE Record(c)
    BY <2>5 DEF Record, TypeOK, account
  <2> QED BY <1>4, <2>1, <2>2, <2>3, <2>4, <2>5 DEF Postconsume
<1>5. ASSUME NEW u \in Users,
             TopUp(u) \/ TopUpRead(u) \/ TopUpSet(u) \/ Expire(u) \/ Drain(u)
      PROVE  Stage'
  BY <1>5, StageFrame
     DEF TopUp, TopUpRead, TopUpSet, Expire, Drain, account, call
<1>6. ASSUME NEW t \in Tokens, DeleteToken(t) PROVE Stage'
  <2>1. \A c \in Calls : ~live[TokenOf[c]] => ~live'[TokenOf[c]]
    BY <1>6, UserType DEF DeleteToken, TypeOK
  <2>2. UNCHANGED <<pc, posted, pre, settled, bill>>
    BY <1>6 DEF DeleteToken, account, call
  <2> QED BY <2>1, <2>2
<1>7. CASE SwapStore
  BY <1>7, StageFrame DEF SwapStore, call
<1>8. CASE Crash
  BY <1>8 DEF Crash, TypeOK
<1>9. CASE UNCHANGED vars
  BY <1>9, StageFrame DEF vars, account, call
<1> QED BY <1>1, <1>2, <1>3, <1>4, <1>5, <1>6, <1>7, <1>8, <1>9 DEF Next, Step

\* The cache is written with balances that were read, and decremented.
LEMMA CacheSetBound ==
    ASSUME TypeOK, CacheBound, NEW u \in Users, NEW q \in Int, q <= peak[u],
           CacheSet(u, q)
    PROVE  \A v \in Users :
              /\ entry'[v] # "none" => cval'[v] <= 0 \/ cval'[v] <= peak[v]
              /\ entry'[v] = "persistent" => cval'[v] <= 0
  BY DEF CacheSet, CacheBound, TypeOK, cache

\* An adjustment keeps db below its peak, and the peak never falls.
LEMMA AdjustBound ==
    ASSUME TypeOK, CacheBound, NEW u \in Users, NEW d \in Int,
           Adjust(u, d) \/ AddToRow(u, d)
    PROVE  \A v \in Users : db'[v] <= peak'[v] /\ peak[v] <= peak'[v]
  BY DEF Adjust, AddToRow, CacheBound, TypeOK

\* What holds of the cache below a peak holds below a higher one.
LEMMA CacheFrame ==
    ASSUME TypeOK, TypeOK', CacheBound,
           \A v \in Users : db'[v] <= peak'[v] /\ peak[v] <= peak'[v],
           \A v \in Users : topup'[v] = "set" => topup[v] = "set",
           UNCHANGED <<entry, cval, fresh, seen>>,
           \A c \in Calls : pc'[c] \in {"put", "store"} => pc[c] \in {"put", "store"}
    PROVE  CacheBound'
<1>1. ASSUME NEW u \in Users
      PROVE  /\ db'[u] <= peak'[u]
             /\ topup'[u] = "set" => fresh'[u] <= peak'[u]
             /\ entry'[u] # "none" => cval'[u] <= 0 \/ cval'[u] <= peak'[u]
             /\ entry'[u] = "persistent" => cval'[u] <= 0
  BY DEF CacheBound, TypeOK
<1>2. ASSUME NEW c \in Calls, pc'[c] \in {"put", "store"}
      PROVE  seen'[c] <= peak'[User(c)]
  <2>1. User(c) \in Users
    BY UserType
  <2>2. seen[c] <= peak[User(c)]
    BY <1>2 DEF CacheBound
  <2>3. /\ seen[c] \in Int /\ peak[User(c)] \in Int /\ peak'[User(c)] \in Int
        /\ peak[User(c)] <= peak'[User(c)] /\ seen' = seen
    BY <2>1 DEF TypeOK
  <2> QED BY <2>2, <2>3
<1> QED BY <1>1, <1>2 DEF CacheBound, User

LEMMA CacheStep == TypeOK /\ TypeOK' /\ CacheBound /\ [Next]_vars => CacheBound'
<1> SUFFICES ASSUME TypeOK, TypeOK', CacheBound, [Next]_vars PROVE CacheBound'
  OBVIOUS
<1>0. \A v \in Users : db[v] <= peak[v] /\ peak[v] <= peak[v]
  BY DEF CacheBound, TypeOK
<1>1. ASSUME NEW c \in Calls, Arrive(c) PROVE CacheBound'
  BY <1>0, <1>1, CacheFrame DEF Arrive, Goto, TypeOK, account, cache, admin
<1>2. ASSUME NEW c \in Calls, Preconsume(c) PROVE CacheBound'
  <2>1. CASE CacheGetUserQuota(c)
    BY <2>1 DEF CacheGetUserQuota, Goto, CacheBound, TypeOK, account, cache,
                admin, User
  <2>2. CASE Fill(c)
    BY <2>2, UserType DEF Fill, Goto, CacheBound, TypeOK, account, cache, admin,
                          User
  <2>3. CASE Put(c)
    <3>1. seen[c] \in Int /\ seen[c] <= peak[User(c)] /\ User(c) \in Users
      BY <2>3, UserType DEF Put, CacheBound, TypeOK
    <3>2. \A v \in Users :
              /\ entry'[v] # "none" => cval'[v] <= 0 \/ cval'[v] <= peak[v]
              /\ entry'[v] = "persistent" => cval'[v] <= 0
      BY <2>3, <3>1, CacheSetBound DEF Put
    <3> QED BY <2>3, <3>2 DEF Put, Goto, CacheBound, TypeOK, account, admin, User
  <2>4. CASE Refuse(c) \/ Trust(c)
    BY <1>0, <2>4, CacheFrame
       DEF Refuse, Trust, Goto, TypeOK, account, cache, admin
  <2>5. CASE DecreaseCache(c)
    <3>1. Affordable(c) \in Nat
      <4>1. pre[c] \in {0} \cup Reservations /\ seen[c] \in Int /\ seen[c] > 0
        BY <2>5 DEF DecreaseCache, TypeOK
      <4>2. pre[c] \in Nat
        BY <4>1, AmountFacts
      <4> QED BY <4>1, <4>2 DEF Affordable, Least
    <3>2. \A v \in Users :
              /\ entry'[v] # "none" => cval'[v] <= 0 \/ cval'[v] <= peak[v]
              /\ entry'[v] = "persistent" => cval'[v] <= 0
      BY <2>5, <3>1, UserType
         DEF DecreaseCache, CacheDecreaseUserQuota, CacheBound, TypeOK, cache
    <3> QED BY <2>5, <3>2
            DEF DecreaseCache, Goto, CacheBound, TypeOK, account, admin, User
  <2>6. CASE CheckAccount(c)
    BY <1>0, <2>6, CacheFrame
       DEF CheckAccount, Goto, TypeOK, account, cache, admin
  <2>7. CASE Reserve(c)
    <3>1. -pre[c] \in Int
      <4>1. pre[c] \in {0} \cup Reservations
        BY DEF TypeOK
      <4>2. pre[c] \in Nat
        BY <4>1, AmountFacts
      <4> QED BY <4>2
    <3>2. \A v \in Users : db'[v] <= peak'[v] /\ peak[v] <= peak'[v]
      BY <1>0, <2>7, <3>1, UserType, AdjustBound DEF Reserve, account
    <3> QED BY <2>7, <3>2, CacheFrame DEF Reserve, Goto, TypeOK, cache, admin
  <2> QED BY <1>2, <2>1, <2>2, <2>3, <2>4, <2>5, <2>6, <2>7 DEF Preconsume
<1>3. ASSUME NEW c \in Calls, Upstream(c) PROVE CacheBound'
  BY <1>0, <1>3, CacheFrame
     DEF Upstream, UpstreamFails, UpstreamAnswers, UpstreamNoUsage, Goto,
         TypeOK, account, cache, admin
<1>4. ASSUME NEW c \in Calls, Postconsume(c) PROVE CacheBound'
  <2>1. CASE PostConsumeTokenQuota(c)
    <3>1. pre[c] - bill[c] \in Int
      <4>1. pre[c] \in {0} \cup Reservations /\ bill[c] \in {0} \cup Bills
        BY DEF TypeOK
      <4>2. pre[c] \in Nat /\ bill[c] \in Nat
        BY <4>1, AmountFacts
      <4> QED BY <4>2
    <3>2. \A v \in Users : db'[v] <= peak'[v] /\ peak[v] <= peak'[v]
      BY <1>0, <2>1, <3>1, UserType, AdjustBound DEF PostConsumeTokenQuota, account
    <3> QED BY <2>1, <3>2, CacheFrame
            DEF PostConsumeTokenQuota, Goto, TypeOK, cache, admin
  <2>2. CASE Reload(c) \/ Record(c)
    BY <1>0, <2>2, CacheFrame
       DEF Reload, Record, Goto, TypeOK, account, cache, admin
  <2>3. CASE Refresh(c)
    BY <2>3, UserType DEF Refresh, AfterRefresh, Goto, CacheBound, TypeOK,
                          account, cache, admin, User
  <2>4. CASE Store(c)
    <3>1. seen[c] \in Int /\ seen[c] <= peak[User(c)] /\ User(c) \in Users
      BY <2>4, UserType DEF Store, CacheBound, TypeOK
    <3>2. \A v \in Users :
              /\ entry'[v] # "none" => cval'[v] <= 0 \/ cval'[v] <= peak[v]
              /\ entry'[v] = "persistent" => cval'[v] <= 0
      BY <2>4, <3>1, CacheSetBound DEF Store
    <3> QED BY <2>4, <3>2
            DEF Store, AfterRefresh, Goto, CacheBound, TypeOK, account, admin, User
  <2> QED BY <1>4, <2>1, <2>2, <2>3, <2>4 DEF Postconsume
<1>5. ASSUME NEW u \in Users, TopUp(u) PROVE CacheBound'
  <2>1. PICK q \in TopUps : Adjust(u, q) \/ AddToRow(u, q)
    BY <1>5 DEF TopUp
  <2>2. q \in Int
    BY RelayAssumption
  <2>3. \A v \in Users : db'[v] <= peak'[v] /\ peak[v] <= peak'[v]
    BY <2>1, <2>2, AdjustBound
  <2> QED BY <1>5, <2>3, CacheFrame DEF TopUp, TypeOK, cache, call
<1>6. ASSUME NEW u \in Users, TopUpRead(u) PROVE CacheBound'
  BY <1>6 DEF TopUpRead, CacheBound, TypeOK, account, cache, call, User
<1>7. ASSUME NEW u \in Users, TopUpSet(u) PROVE CacheBound'
  <2>1. fresh[u] \in Int /\ fresh[u] <= peak[u]
    BY <1>7 DEF TopUpSet, CacheBound, TypeOK
  <2>2. \A v \in Users :
            /\ entry'[v] # "none" => cval'[v] <= 0 \/ cval'[v] <= peak[v]
            /\ entry'[v] = "persistent" => cval'[v] <= 0
    BY <1>7, <2>1, CacheSetBound DEF TopUpSet
  <2> QED BY <1>7, <2>2 DEF TopUpSet, CacheBound, TypeOK, account, call, User
<1>8. ASSUME NEW u \in Users, Expire(u) PROVE CacheBound'
  BY <1>8 DEF Expire, CacheBound, TypeOK, account, call, admin, User
<1>9. ASSUME NEW u \in Users, Drain(u) PROVE CacheBound'
  <2>1. \A v \in Users : db'[v] <= peak'[v] /\ peak[v] <= peak'[v]
    BY <1>0, <1>9 DEF Drain, TypeOK
  <2> QED BY <1>9, <2>1, CacheFrame DEF Drain, cache, call, admin
<1>10. ASSUME NEW t \in Tokens, DeleteToken(t) PROVE CacheBound'
  BY <1>0, <1>10, CacheFrame DEF DeleteToken, account, cache, call, admin
<1>11. CASE SwapStore
  BY <1>0, <1>11, CacheFrame DEF SwapStore, cache, call, admin
<1>12. CASE Crash
  BY <1>0, <1>12, CacheFrame DEF Crash, cache, Handling, Settling, TypeOK
<1>13. CASE UNCHANGED vars
  BY <1>0, <1>13, CacheFrame DEF vars, account, cache, call, admin
<1> QED BY <1>1, <1>2, <1>3, <1>4, <1>5, <1>6, <1>7, <1>8, <1>9, <1>10, <1>11,
           <1>12, <1>13 DEF Next, Step

IInv == TypeOK /\ Stage /\ CacheBound

LEMMA InitIInv == Init => IInv
<1> SUFFICES ASSUME Init PROVE IInv
  OBVIOUS
<1>1. TypeOK
  BY InitType
<1>2. Stage
  BY DEF Init, Stage, Handling, Settling
<1>3. CacheBound
  BY RelayAssumption DEF Init, CacheBound
<1> QED BY <1>1, <1>2, <1>3 DEF IInv

LEMMA NextIInv == IInv /\ [Next]_vars => IInv'
  BY TypeStep, StageStep, CacheStep DEF IInv

\* Every variable of the relay, its caches and its history has its type.
THEOREM TypeCorrect == Spec => []TypeOK
<1>1. IInv => TypeOK
  BY DEF IInv
<1> QED BY <1>1, InitIInv, NextIInv, PTL DEF Spec

\* While a call is served the account holds exactly its reservation, and a
\* refused call costs nothing (helper.go preConsumeQuota, token.go
\* PreConsumeTokenQuota).
THEOREM Reservations_are_held == Spec => []ReservationIsHeld
<1>1. IInv => ReservationIsHeld
  BY DEF IInv, Stage, ReservationIsHeld
<1> QED BY <1>1, InitIInv, NextIInv, PTL DEF Spec

\* An ended call costs exactly its bill, unless its key was deleted or a
\* statement failed (helper.go postConsumeQuota, billing.go
\* ReturnPreConsumedQuota).
THEOREM Ended_calls_are_settled == Spec => []EndedCallIsSettled
<1>1. IInv => EndedCallIsSettled
  BY DEF IInv, Stage, EndedCallIsSettled
<1> QED BY <1>1, InitIInv, NextIInv, PTL DEF Spec

\* The cache never shows a balance that the database never reached, and a key
\* without an expiry is never positive (cache.go CacheDecreaseUserQuota,
\* fetchAndUpdateUserQuota).
THEOREM Cache_is_sound ==
    Spec => []CacheIsSound
<1>1. IInv => CacheIsSound
  BY DEF IInv, CacheBound, CacheIsSound, CacheInventsNoQuota, PersistentEntryIsNeverBelieved
<1> QED BY <1>1, InitIInv, NextIInv, PTL DEF Spec

----------------------------------------------------------------------------
(* The relay implements the ledger.                                        *)

BalanceFn == [u \in Users |-> Balance(u)]
PhaseFn   == [c \in Calls |-> Phase(c)]
PayerFn   == [c \in Calls |-> User(c)]

LEMMA BalanceType == TypeOK => \A u \in Users : Balance(u) \in Int
  BY DEF TypeOK, Balance

\* An adjustment moves the balance, wherever the delta is put.
LEMMA AdjustBalance ==
    ASSUME TypeOK, NEW u \in Users, NEW d \in Int,
           Adjust(u, d) \/ AddToRow(u, d), lost' = lost
    PROVE  BalanceFn' = [BalanceFn EXCEPT ![u] = @ + d]
<1>1. ASSUME NEW v \in Users
      PROVE  Balance(v)' = Balance(v) + (IF v = u THEN d ELSE 0)
  BY DEF Adjust, AddToRow, TypeOK, Balance
<1>2. \A v \in Users : Balance(v) \in Int
  BY BalanceType
<1>3. \A v \in Users : Balance(v)' = IF v = u THEN Balance(u) + d ELSE Balance(v)
  BY <1>1, <1>2
<1>4. [v \in Users |-> Balance(v)'] =
          [[v \in Users |-> Balance(v)] EXCEPT ![u] = Balance(u) + d]
  BY <1>3
<1> QED BY <1>4 DEF BalanceFn

LEMMA SameBalance ==
    ASSUME UNCHANGED account
    PROVE  BalanceFn' = BalanceFn
  BY DEF account, BalanceFn, Balance

\* A step of call c leaves the phases of the others alone.
LEMMA OtherPhases ==
    ASSUME TypeOK, NEW c \in Calls,
           \A d \in Calls \ {c} : pc'[d] = pc[d] /\ settled'[d] = settled[d]
                                  /\ posted'[d] = posted[d]
    PROVE  PhaseFn' = [PhaseFn EXCEPT ![c] = Phase(c)']
<1>1. \A d \in Calls \ {c} : Phase(d)' = Phase(d)
  BY DEF Phase
<1> QED BY <1>1 DEF PhaseFn

\* A step of call c that moves no quota and keeps its phase is silent.
LEMMA SilentStep ==
    ASSUME TypeOK, NEW c \in Calls, NEW l, Goto(c, l), UNCHANGED <<account, topups>>,
           Phase(c)' = Phase(c)
    PROVE  UNCHANGED Ledger!vars
<1>1. \A d \in Calls \ {c} : pc'[d] = pc[d]
  BY DEF Goto, TypeOK
<1>2. PhaseFn' = [PhaseFn EXCEPT ![c] = Phase(c)]
  BY <1>1, OtherPhases DEF account
<1>3. PhaseFn' = PhaseFn
  BY <1>2 DEF PhaseFn
<1> QED BY <1>3, SameBalance DEF Ledger!vars, account, PhaseFn, BalanceFn

\* A step of call c that moves no quota and ends an open call closes it.
LEMMA ClosingStep ==
    ASSUME TypeOK, NEW c \in Calls, NEW l, Goto(c, l), UNCHANGED <<account, topups>>,
           Phase(c) \in {"open", "reserved"}, Phase(c)' = "closed"
    PROVE  Ledger!Next
<1>1. \A d \in Calls \ {c} : pc'[d] = pc[d]
  BY DEF Goto, TypeOK
<1>2. PhaseFn' = [PhaseFn EXCEPT ![c] = "closed"]
  BY <1>1, OtherPhases DEF account
<1>3. PhaseFn' = [d \in Calls |-> IF d \in {c} THEN "closed" ELSE PhaseFn[d]]
  BY <1>2 DEF PhaseFn
<1>4. \A d \in {c} : PhaseFn[d] \in {"open", "reserved"}
  BY DEF PhaseFn
<1>5. Ledger!Close({c})
  BY <1>3, <1>4, SameBalance DEF Ledger!Close, account, PhaseFn, BalanceFn
<1> QED BY <1>5 DEF Ledger!Next

LEMMA ReserveStep ==
    ASSUME IInv, NEW c \in Calls, Reserve(c)
    PROVE  [Ledger!Next]_Ledger!vars
<1>1. /\ TypeOK /\ pc[c] = "reserve" /\ ~settled[c] /\ posted[c] = 0
      /\ pre[c] > 0 /\ User(c) \in Users
  BY UserType DEF IInv, Stage, Reserve, Handling
<1>2. pre[c] \in Points \ {0} /\ pre[c] \in Nat
  <2>1. pre[c] \in {0} \cup Reservations
    BY <1>1 DEF TypeOK
  <2>2. pre[c] \in Nat
    BY <2>1, AmountFacts
  <2>3. pre[c] \in Points
    BY <2>1, AmountFacts
  <2> QED BY <1>1, <2>2, <2>3
<1>3. Phase(c) = "open"
  BY <1>1 DEF Phase, Ended, Settling
<1>4. CASE /\ Adjust(User(c), -pre[c])
           /\ posted' = [posted EXCEPT ![c] = pre[c]]
           /\ Goto(c, "upstream")
           /\ UNCHANGED <<settled, credited, lost>>
  <2>1. BalanceFn' = [BalanceFn EXCEPT ![User(c)] = @ + (-pre[c])]
    BY <1>1, <1>2, <1>4, AdjustBalance
  <2>2. BalanceFn[User(c)] \in Int
    BY <1>1, BalanceType DEF BalanceFn
  <2>3. BalanceFn' = [BalanceFn EXCEPT ![PayerFn[c]] = @ + posted[c] - pre[c]]
    <3>1. BalanceFn[User(c)] + (-pre[c]) = BalanceFn[User(c)] + posted[c] - pre[c]
      BY <1>1, <1>2, <2>2
    <3> QED BY <2>1, <3>1 DEF PayerFn
  <2>4. \A d \in Calls \ {c} : pc'[d] = pc[d] /\ posted'[d] = posted[d]
    BY <1>1, <1>4 DEF Goto, TypeOK
  <2>5. pc'[c] = "upstream" /\ posted'[c] > 0 /\ ~settled'[c]
    BY <1>1, <1>2, <1>4 DEF Goto, TypeOK
  <2>6. Phase(c)' = "reserved"
    BY <2>5 DEF Phase, Ended, Settling
  <2>7. PhaseFn' = [PhaseFn EXCEPT ![c] = "reserved"]
    BY <1>1, <1>4, <2>4, <2>6, OtherPhases
  <2>8. UNCHANGED <<credited, topups>>
    BY <1>4 DEF Reserve, admin
  <2>9. Ledger!Post(c, pre[c])
    BY <1>4, <2>3, <2>8 DEF Ledger!Post, BalanceFn, PayerFn
  <2>10. PhaseFn[c] = "open"
    BY <1>3 DEF PhaseFn
  <2>11. Ledger!Reserve(c)
    BY <1>2, <2>7, <2>9, <2>10 DEF Ledger!Reserve, PhaseFn
  <2> QED BY <2>11 DEF Ledger!Next
<1>5. CASE Goto(c, "rejected") /\ UNCHANGED account
  <2>1. pc'[c] = "rejected" /\ ~settled'[c]
    BY <1>1, <1>5 DEF Goto, TypeOK, account
  <2>2. Phase(c)' = "closed"
    BY <2>1 DEF Phase, Ended
  <2>3. UNCHANGED topups
    BY DEF Reserve, admin
  <2> QED BY <1>1, <1>3, <1>5, <2>2, <2>3, ClosingStep
<1> QED BY <1>4, <1>5 DEF Reserve

LEMMA PostConsumeStep ==
    ASSUME IInv, NEW c \in Calls, PostConsumeTokenQuota(c)
    PROVE  [Ledger!Next]_Ledger!vars
<1>1. /\ TypeOK /\ pc[c] = "post" /\ ~settled[c] /\ posted[c] = pre[c]
      /\ User(c) \in Users
  BY UserType DEF IInv, Stage, PostConsumeTokenQuota
<1>2. pre[c] \in Nat /\ bill[c] \in Nat /\ bill[c] \in Points
  <2>1. pre[c] \in {0} \cup Reservations /\ bill[c] \in {0} \cup Bills
    BY <1>1 DEF TypeOK
  <2>2. pre[c] \in Nat /\ bill[c] \in Nat
    BY <2>1, AmountFacts
  <2>3. bill[c] \in Points
    BY <2>1, AmountFacts
  <2> QED BY <2>2, <2>3
<1>3. Phase(c) \in {"open", "reserved"}
  BY <1>1 DEF Phase, Ended, Settling
<1>4. CASE /\ Adjust(User(c), pre[c] - bill[c])
           /\ posted' = [posted EXCEPT ![c] = bill[c]]
           /\ settled' = [settled EXCEPT ![c] = TRUE]
           /\ Goto(c, IF outcome[c] = "failed" THEN "reload" ELSE "refresh")
           /\ UNCHANGED <<credited, lost>>
  <2>1. BalanceFn' = [BalanceFn EXCEPT ![User(c)] = @ + (pre[c] - bill[c])]
    BY <1>1, <1>2, <1>4, AdjustBalance
  <2>2. BalanceFn[User(c)] \in Int
    BY <1>1, BalanceType DEF BalanceFn
  <2>3. BalanceFn' = [BalanceFn EXCEPT ![PayerFn[c]] = @ + posted[c] - bill[c]]
    BY <1>1, <1>2, <2>1, <2>2 DEF PayerFn
  <2>4. \A d \in Calls \ {c} :
            pc'[d] = pc[d] /\ posted'[d] = posted[d] /\ settled'[d] = settled[d]
    BY <1>1, <1>4 DEF Goto, TypeOK
  <2>5. settled'[c]
    BY <1>1, <1>4 DEF TypeOK
  <2>6. Phase(c)' = "settled"
    BY <2>5 DEF Phase
  <2>7. PhaseFn' = [PhaseFn EXCEPT ![c] = "settled"]
    BY <1>1, <2>4, <2>6, OtherPhases
  <2>8. UNCHANGED <<credited, topups>>
    BY <1>4 DEF PostConsumeTokenQuota, admin
  <2>9. Ledger!Post(c, bill[c])
    BY <1>4, <2>3, <2>8 DEF Ledger!Post, BalanceFn, PayerFn
  <2>10. PhaseFn[c] \in {"open", "reserved"}
    BY <1>3 DEF PhaseFn
  <2>11. Ledger!Settle(c)
    BY <1>2, <2>7, <2>9, <2>10 DEF Ledger!Settle, PhaseFn
  <2> QED BY <2>11 DEF Ledger!Next
<1>5. CASE /\ Goto(c, IF outcome[c] = "failed" THEN "done" ELSE "refresh")
           /\ UNCHANGED account
  <2>1. pc'[c] \in {"done", "refresh"} /\ ~settled'[c]
    BY <1>1, <1>5 DEF Goto, TypeOK, account
  <2>2. Phase(c)' = "closed"
    BY <2>1 DEF Phase, Ended, Settling
  <2>3. UNCHANGED topups
    BY DEF PostConsumeTokenQuota, admin
  <2> QED BY <1>1, <1>3, <1>5, <2>2, <2>3, ClosingStep
<1> QED BY <1>4, <1>5 DEF PostConsumeTokenQuota

\* Every other step of a call keeps what the account holds of it: it is silent,
\* or it ends a call that was never settled.
LEMMA QuietStep ==
    ASSUME IInv, NEW c \in Calls, NEW l, Goto(c, l), UNCHANGED <<account, topups>>,
           \/ /\ pc[c] \in {"idle"} \cup Handling \cup {"post"}
              /\ l \in Handling \cup {"post", "rejected", "done"}
           \/ pc[c] \in Settling \ {"post"} /\ l \in (Settling \ {"post"}) \cup {"done"}
    PROVE  [Ledger!Next]_Ledger!vars
<1>1. TypeOK /\ pc'[c] = l /\ settled'[c] = settled[c] /\ posted'[c] = posted[c]
  BY DEF IInv, TypeOK, Goto, account
<1>2. CASE pc[c] \in Settling \ {"post"} /\ l \in (Settling \ {"post"}) \cup {"done"}
  <2>1. Phase(c)' = Phase(c)
    BY <1>1, <1>2 DEF Phase, Ended
  <2> QED BY <1>1, <2>1, SilentStep
<1>3. CASE /\ pc[c] \in {"idle"} \cup Handling \cup {"post"}
           /\ l \in Handling \cup {"post", "rejected", "done"}
  <2>1. ~settled[c] /\ Phase(c) \in {"open", "reserved"}
    BY <1>3 DEF IInv, Stage, Phase, Ended, Settling, Handling
  <2>2. CASE l \in Handling \cup {"post"}
    <3>1. Phase(c)' = Phase(c)
      BY <1>1, <1>3, <2>2 DEF Phase, Ended, Settling, Handling
    <3> QED BY <1>1, <3>1, SilentStep
  <2>3. CASE l \in {"rejected", "done"}
    <3>1. Phase(c)' = "closed"
      BY <1>1, <2>1, <2>3 DEF Phase, Ended
    <3> QED BY <1>1, <2>1, <3>1, ClosingStep
  <2> QED BY <1>3, <2>2, <2>3
<1> QED BY <1>2, <1>3

LEMMA TopUpStep ==
    ASSUME IInv, NEW u \in Users, TopUp(u)
    PROVE  Ledger!Next
<1>1. PICK q \in TopUps :
          (Adjust(u, q) \/ AddToRow(u, q)) /\ credited' = [credited EXCEPT ![u] = @ + q]
  BY DEF TopUp
<1>2. TypeOK /\ q \in Int /\ q \in Points
  BY RelayAssumption, AmountFacts DEF IInv
<1>3. UNCHANGED <<posted, settled, lost, pc>>
  BY DEF TopUp, call
<1>4. BalanceFn' = [BalanceFn EXCEPT ![u] = @ + q]
  BY <1>1, <1>2, <1>3, AdjustBalance
<1>5. PhaseFn' = PhaseFn
  BY <1>3 DEF PhaseFn, Phase
<1>6. topups[u] < MaxTopUps /\ topups' = [topups EXCEPT ![u] = @ + 1]
  BY DEF TopUp
<1>7. Ledger!Credit(u)
  BY <1>1, <1>2, <1>3, <1>4, <1>5, <1>6 DEF Ledger!Credit, BalanceFn, PhaseFn
<1> QED BY <1>7 DEF Ledger!Next

\* The batch updater only moves a delta, from the store to the database or to
\* what is lost.
LEMMA UpdaterStep ==
    ASSUME IInv, SwapStore \/ \E u \in Users : Drain(u)
    PROVE  UNCHANGED Ledger!vars
<1>1. ASSUME NEW v \in Users PROVE Balance(v)' = Balance(v)
  BY DEF IInv, TypeOK, SwapStore, Drain, NoDelta, Balance
<1>2. UNCHANGED <<posted, settled, credited, topups, pc>>
  BY DEF SwapStore, Drain, call, admin
<1> QED BY <1>1, <1>2 DEF Ledger!vars, Phase

LEMMA CrashStep ==
    ASSUME IInv, Crash
    PROVE  Ledger!Next
<1> DEFINE C == {c \in Calls : pc[c] \in Handling \cup {"post"}}
<1>1. UNCHANGED <<posted, settled, credited, topups>>
  BY DEF Crash
<1>2. BalanceFn' = BalanceFn
  <2>1. ASSUME NEW v \in Users PROVE Balance(v)' = Balance(v)
    BY DEF IInv, TypeOK, Crash, NoDelta, Balance
  <2> QED BY <2>1 DEF BalanceFn
<1>3. ASSUME NEW c \in C PROVE Phase(c) \in {"open", "reserved"} /\ Phase(c)' = "closed"
  <2>1. ~settled[c]
    BY DEF IInv, Stage
  <2>2. pc'[c] = "lost"
    BY DEF Crash, Settling
  <2> QED BY <1>1, <2>1, <2>2 DEF Phase, Ended, Settling, Handling
<1>4. ASSUME NEW c \in Calls \ C PROVE Phase(c)' = Phase(c)
  <2>1. CASE pc[c] \in Settling \ {"post"}
    <3>1. pc'[c] = "lost"
      BY <2>1 DEF Crash
    <3> QED BY <1>1, <2>1, <3>1 DEF Phase, Ended
  <2>2. CASE pc[c] \notin Settling \ {"post"}
    <3>1. pc'[c] = pc[c]
      BY <2>2 DEF Crash, Settling
    <3> QED BY <1>1, <3>1 DEF Phase
  <2> QED BY <2>1, <2>2
<1>5. C \in SUBSET Calls
  OBVIOUS
<1>6. PhaseFn' = [c \in Calls |-> IF c \in C THEN "closed" ELSE PhaseFn[c]]
  BY <1>3, <1>4 DEF PhaseFn
<1>7. \A c \in C : PhaseFn[c] \in {"open", "reserved"}
  BY <1>3 DEF PhaseFn
<1> HIDE DEF C
<1>8. Ledger!Close(C)
  BY <1>1, <1>2, <1>6, <1>7 DEF Ledger!Close, PhaseFn, BalanceFn
<1> QED BY <1>5, <1>8 DEF Ledger!Next

LEMMA NextImplements == IInv /\ [Next]_vars => [Ledger!Next]_Ledger!vars
<1> SUFFICES ASSUME IInv, [Next]_vars PROVE [Ledger!Next]_Ledger!vars
  OBVIOUS
<1>1. ASSUME NEW c \in Calls, Arrive(c) PROVE [Ledger!Next]_Ledger!vars
  BY <1>1, QuietStep DEF Arrive, admin, Handling
<1>2. ASSUME NEW c \in Calls, Preconsume(c) PROVE [Ledger!Next]_Ledger!vars
  <2>1. CASE CacheGetUserQuota(c)
    BY <2>1, QuietStep DEF CacheGetUserQuota, admin, Handling
  <2>2. CASE Fill(c)
    BY <2>2, QuietStep DEF Fill, admin, Handling
  <2>3. CASE Put(c)
    BY <2>3, QuietStep DEF Put, admin, Handling
  <2>4. CASE Refuse(c)
    BY <2>4, QuietStep DEF Refuse, admin, Handling
  <2>5. CASE Trust(c)
    BY <2>5, QuietStep DEF Trust, admin, Handling
  <2>6. CASE DecreaseCache(c)
    BY <2>6, QuietStep DEF DecreaseCache, admin, Handling
  <2>7. CASE CheckAccount(c)
    BY <2>7, QuietStep DEF CheckAccount, admin, Handling
  <2>8. CASE Reserve(c)
    BY <2>8, ReserveStep
  <2> QED BY <1>2, <2>1, <2>2, <2>3, <2>4, <2>5, <2>6, <2>7, <2>8 DEF Preconsume
<1>3. ASSUME NEW c \in Calls, Upstream(c) PROVE [Ledger!Next]_Ledger!vars
  <2>1. CASE UpstreamFails(c)
    BY <2>1, QuietStep DEF UpstreamFails, admin, Handling
  <2>2. CASE UpstreamAnswers(c)
    BY <2>2, QuietStep DEF UpstreamAnswers, admin, Handling
  <2>3. CASE UpstreamNoUsage(c)
    BY <2>3, QuietStep DEF UpstreamNoUsage, admin, Handling
  <2> QED BY <1>3, <2>1, <2>2, <2>3 DEF Upstream
<1>4. ASSUME NEW c \in Calls, Postconsume(c) PROVE [Ledger!Next]_Ledger!vars
  <2>1. CASE PostConsumeTokenQuota(c)
    BY <2>1, PostConsumeStep
  <2>2. CASE Reload(c)
    BY <2>2, QuietStep DEF Reload, admin, Settling
  <2>3. CASE Refresh(c)
    BY <2>3, QuietStep DEF Refresh, AfterRefresh, admin, Settling
  <2>4. CASE Store(c)
    BY <2>4, QuietStep DEF Store, AfterRefresh, admin, Settling
  <2>5. CASE Record(c)
    BY <2>5, QuietStep DEF Record, admin, Settling
  <2> QED BY <1>4, <2>1, <2>2, <2>3, <2>4, <2>5 DEF Postconsume
<1>5. ASSUME NEW u \in Users, TopUp(u) PROVE [Ledger!Next]_Ledger!vars
  BY <1>5, TopUpStep
<1>6. ASSUME NEW u \in Users, TopUpRead(u) \/ TopUpSet(u) \/ Expire(u)
      PROVE  UNCHANGED Ledger!vars
  <2>1. UNCHANGED <<account, call, topups>>
    BY <1>6 DEF TopUpRead, TopUpSet, Expire, admin
  <2> QED BY <2>1 DEF account, call, Ledger!vars, Balance, Phase
<1>7. ASSUME NEW u \in Users, Drain(u) PROVE UNCHANGED Ledger!vars
  BY <1>7, UpdaterStep
<1>8. ASSUME NEW t \in Tokens, DeleteToken(t) PROVE UNCHANGED Ledger!vars
  BY <1>8 DEF DeleteToken, account, call, admin, Ledger!vars, Balance, Phase
<1>9. CASE SwapStore
  BY <1>9, UpdaterStep
<1>10. CASE Crash
  BY <1>10, CrashStep
<1>11. CASE UNCHANGED vars
  BY <1>11 DEF vars, account, call, admin, Ledger!vars, Balance, Phase
<1> QED BY <1>1, <1>2, <1>3, <1>4, <1>5, <1>6, <1>7, <1>8, <1>9, <1>10, <1>11
        DEF Next, Step

LEMMA InitImplements == Init => Ledger!Init
<1> SUFFICES ASSUME Init PROVE Ledger!Init
  OBVIOUS
<1>1. ASSUME NEW u \in Users PROVE Balance(u) = Initial[u]
  <2>1. db = Initial /\ store[u] = 0 /\ taken[u] = 0 /\ lost[u] = 0
    BY DEF Init, NoDelta
  <2>2. Initial[u] \in Int
    BY RelayAssumption
  <2> QED BY <2>1, <2>2 DEF Balance
<1>2. ASSUME NEW c \in Calls PROVE Phase(c) = "open"
  <2>1. pc[c] = "idle" /\ ~settled[c] /\ posted[c] = 0
    BY DEF Init
  <2> QED BY <2>1 DEF Phase, Ended, Settling
<1>3. [u \in Users |-> Balance(u)] = Initial
  <2>1. Initial = [u \in Users |-> Initial[u]]
    BY RelayAssumption
  <2>2. [u \in Users |-> Balance(u)] = [u \in Users |-> Initial[u]]
    BY <1>1
  <2> QED BY <2>1, <2>2
<1>4. [c \in Calls |-> Phase(c)] = [c \in Calls |-> "open"]
  BY <1>2
<1>5. /\ credited = [u \in Users |-> 0] /\ topups = [u \in Users |-> 0]
      /\ posted = [c \in Calls |-> 0]
  BY DEF Init
<1> QED BY <1>3, <1>4, <1>5 DEF Ledger!Init

\* Caches, goroutines, the batch store, deleted keys and restarts
\* notwithstanding, the relay bills as the ledger says: a call reserves once,
\* is settled once at its bill, and no other step moves its account.
THEOREM Relay_implements_ledger == Spec => ImplementsLedger
  BY InitIInv, NextIInv, InitImplements, NextImplements, PTL
     DEF Spec, ImplementsLedger, Ledger!Spec
----------------------------------------------------------------------------
(* Money is conserved.  What the calls of a set hold is a fold over the    *)
(* set; the fold is a recursive function on its subsets, of which three    *)
(* things are shown by taking a smallest set that would not have them: it  *)
(* exists, it is the same whatever larger set it is defined on, and        *)
(* changing one term changes the sum by the difference.                    *)

SumOver(f, S) == Ledger!MapThenSumSet(LAMBDA c : f[c], S)

Chosen(S) == CHOOSE c \in S : TRUE

\* g is the recursive function of the fold of f over S.
Sums(g, f, S) ==
    g = [s \in SUBSET S |->
            IF s = {} THEN 0 ELSE f[Chosen(s)] + g[s \ {Chosen(s)}]]

\* Among any sets of calls there is one that has no other inside.
LEMMA SmallestSet ==
    ASSUME NEW F, F \subseteq SUBSET Calls, F # {}
    PROVE  \E s \in F : \A t \in F : ~(t \subseteq s /\ t # s)
<1>1. F \subseteq FiniteSubsetsOf(Calls)
  BY RelayAssumption, FS_FiniteSubsetsOfFinite
<1>2. PICK s \in F : \A t \in F : <<t, s>> \notin StrictSubsetOrdering(Calls)
  BY <1>1, WFMin, FS_StrictSubsetOrderingWellFounded
<1>3. \A t \in F : ~(t \subseteq s /\ t # s)
  BY <1>2 DEF StrictSubsetOrdering
<1> QED BY <1>3

LEMMA ChosenMember ==
    ASSUME NEW s, s # {}
    PROVE  Chosen(s) \in s /\ s \ {Chosen(s)} \subseteq s /\ s \ {Chosen(s)} # s
<1>1. Chosen(s) \in s
  BY DEF Chosen
<1> QED BY <1>1

LEMMA SumsAt ==
    ASSUME NEW f, NEW S \in SUBSET Calls, NEW g, Sums(g, f, S)
    PROVE  /\ g[{}] = 0
           /\ \A s \in SUBSET S : s # {} => g[s] = f[Chosen(s)] + g[s \ {Chosen(s)}]
  BY DEF Sums

LEMMA SumsAgree ==
    ASSUME NEW f, NEW S \in SUBSET Calls, NEW T \in SUBSET Calls,
           NEW g, NEW h, Sums(g, f, S), Sums(h, f, T)
    PROVE  \A s \in SUBSET (S \cap T) : g[s] = h[s]
<1> DEFINE F == {s \in SUBSET (S \cap T) : g[s] # h[s]}
<1>1. SUFFICES ASSUME F # {} PROVE FALSE
  OBVIOUS
<1>2. PICK s \in F : \A t \in F : ~(t \subseteq s /\ t # s)
  <2>1. F \subseteq SUBSET Calls
    OBVIOUS
  <2> HIDE DEF F
  <2> QED BY <1>1, <2>1, SmallestSet
<1>3. s # {}
  <2>1. g[{}] = h[{}]
    BY SumsAt
  <2> QED BY <1>2, <2>1
<1>4. s \ {Chosen(s)} \in SUBSET (S \cap T) /\ s \ {Chosen(s)} \notin F
  BY <1>2, <1>3, ChosenMember
<1>5. s \in SUBSET S /\ s \in SUBSET T
  BY <1>2
<1> HIDE DEF F
<1>6. g[s] = f[Chosen(s)] + g[s \ {Chosen(s)}]
  <2>1. \A t \in SUBSET S : t # {} => g[t] = f[Chosen(t)] + g[t \ {Chosen(t)}]
    BY SumsAt
  <2> QED BY <1>3, <1>5, <2>1
<1>7. h[s] = f[Chosen(s)] + h[s \ {Chosen(s)}]
  <2>1. \A t \in SUBSET T : t # {} => h[t] = f[Chosen(t)] + h[t \ {Chosen(t)}]
    BY SumsAt
  <2> QED BY <1>3, <1>5, <2>1
<1> QED BY <1>2, <1>4, <1>6, <1>7 DEF F

LEMMA SumsExist ==
    ASSUME NEW f, NEW S \in SUBSET Calls
    PROVE  \E g : Sums(g, f, S)
<1> DEFINE F == {s \in SUBSET Calls : ~\E g : Sums(g, f, s)}
<1>1. SUFFICES ASSUME F # {} PROVE FALSE
  OBVIOUS
<1>2. PICK s \in F : \A t \in F : ~(t \subseteq s /\ t # s)
  <2>1. F \subseteq SUBSET Calls
    OBVIOUS
  <2> HIDE DEF F
  <2> QED BY <1>1, <2>1, SmallestSet
<1> DEFINE val(t) == (CHOOSE g : Sums(g, f, t))[t]
           g == [t \in SUBSET s |->
                    IF t = {} THEN 0 ELSE f[Chosen(t)] + val(t \ {Chosen(t)})]
<1>3. ASSUME NEW t \in SUBSET s, t # s
      PROVE  Sums(CHOOSE h : Sums(h, f, t), f, t)
  <2>1. t \in SUBSET Calls /\ t \notin F
    BY <1>2, <1>3
  <2>2. \E h : Sums(h, f, t)
    BY <2>1
  <2> QED BY <2>2
<1>4. ASSUME NEW t \in SUBSET s, t # s
      PROVE  val(t) = g[t]
  <2> DEFINE whole == CHOOSE h : Sums(h, f, t)
             r == t \ {Chosen(t)}
             rest == CHOOSE h : Sums(h, f, r)
  <2>1. Sums(whole, f, t) /\ val(t) = whole[t]
    BY <1>3, <1>4
  <2>2. CASE t = {}
    <3>1. whole[t] = 0
      BY <2>1, <2>2, <1>2, SumsAt
    <3>2. g[t] = 0
      BY <2>2
    <3> QED BY <2>1, <3>1, <3>2
  <2>3. CASE t # {}
    <3>1. r \in SUBSET t /\ r # s /\ r \in SUBSET s
      BY <1>4, <2>3, ChosenMember
    <3>2. Sums(rest, f, r) /\ val(r) = rest[r]
      BY <1>3, <3>1
    <3>3. t \in SUBSET Calls /\ r \in SUBSET Calls
      BY <1>2, <3>1
    <3>4. rest[r] = whole[r]
      <4> HIDE DEF whole, rest, r
      <4> QED BY <2>1, <3>1, <3>2, <3>3, SumsAgree
    <3>5. whole[t] = f[Chosen(t)] + whole[r]
      <4> HIDE DEF whole
      <4> QED BY <2>1, <2>3, <3>3, SumsAt
    <3>6. g[t] = f[Chosen(t)] + val(r)
      BY <2>3
    <3> QED BY <2>1, <3>2, <3>4, <3>5, <3>6
  <2> QED BY <2>2, <2>3
<1>5. ASSUME NEW t \in SUBSET s, t # {}
      PROVE  g[t] = f[Chosen(t)] + g[t \ {Chosen(t)}]
  <2>1. t \ {Chosen(t)} \in SUBSET s /\ t \ {Chosen(t)} # s
    BY <1>5, ChosenMember
  <2>2. val(t \ {Chosen(t)}) = g[t \ {Chosen(t)}]
    BY <1>4, <2>1
  <2> QED BY <1>5, <2>2
<1>6. g[{}] = 0
  OBVIOUS
<1>7. g = [t \in SUBSET s |-> g[t]]
  OBVIOUS
<1>8. Sums(g, f, s)
  <2> HIDE DEF g
  <2> QED BY <1>5, <1>6, <1>7 DEF Sums
<1> QED BY <1>2, <1>8

\* The fold takes out the chosen element.
LEMMA SumUnfolds ==
    ASSUME NEW f, NEW S \in SUBSET Calls
    PROVE  SumOver(f, S) = IF S = {} THEN 0
                           ELSE f[Chosen(S)] + SumOver(f, S \ {Chosen(S)})
<1> DEFINE fold(T) == CHOOSE g : Sums(g, f, T)
<1>1. ASSUME NEW T \in SUBSET Calls
      PROVE  SumOver(f, T) = fold(T)[T] /\ Sums(fold(T), f, T)
  <2>1. SumOver(f, T) = fold(T)[T]
    BY DEF SumOver, Sums, Chosen, Ledger!MapThenSumSet, Ledger!MapThenFoldSet
  <2>2. Sums(fold(T), f, T)
    BY SumsExist
  <2> QED BY <2>1, <2>2
<1>2. CASE S = {}
  <2>1. fold(S)[{}] = 0
    BY <1>1, SumsAt
  <2> QED BY <1>1, <1>2, <2>1
<1>3. CASE S # {}
  <2> DEFINE R == S \ {Chosen(S)}
  <2>1. R \in SUBSET Calls /\ R \in SUBSET (S \cap R)
    OBVIOUS
  <2>2. Sums(fold(S), f, S) /\ Sums(fold(R), f, R)
    BY <1>1, <2>1
  <2>3. fold(S)[R] = fold(R)[R]
    <3> HIDE DEF fold, R
    <3> QED BY <2>1, <2>2, SumsAgree
  <2>4. fold(S)[S] = f[Chosen(S)] + fold(S)[R]
    <3> HIDE DEF fold
    <3> QED BY <1>3, <2>2, SumsAt
  <2>5. SumOver(f, S) = fold(S)[S] /\ SumOver(f, R) = fold(R)[R]
    BY <1>1, <2>1
  <2> QED BY <1>3, <2>3, <2>4, <2>5
<1> QED BY <1>2, <1>3

LEMMA SumType ==
    ASSUME NEW f \in [Calls -> Int]
    PROVE  \A S \in SUBSET Calls : SumOver(f, S) \in Int
<1> DEFINE F == {s \in SUBSET Calls : SumOver(f, s) \notin Int}
<1>1. SUFFICES ASSUME F # {} PROVE FALSE
  OBVIOUS
<1>2. PICK s \in F : \A t \in F : ~(t \subseteq s /\ t # s)
  <2>1. F \subseteq SUBSET Calls
    OBVIOUS
  <2> HIDE DEF F
  <2> QED BY <1>1, <2>1, SmallestSet
<1>3. s # {}
  <2>1. SumOver(f, {}) = 0
    BY SumUnfolds
  <2> QED BY <1>2, <2>1
<1>4. s \ {Chosen(s)} \in SUBSET Calls /\ s \ {Chosen(s)} \notin F /\ Chosen(s) \in Calls
  BY <1>2, <1>3, ChosenMember
<1>5. SumOver(f, s) = f[Chosen(s)] + SumOver(f, s \ {Chosen(s)})
  BY <1>3, SumUnfolds
<1> QED BY <1>2, <1>4, <1>5

\* Changing the term of call c changes the sums that c is in, by the difference.
LEMMA SumChanges ==
    ASSUME NEW f \in [Calls -> Int], NEW h \in [Calls -> Int], NEW c \in Calls,
           \A d \in Calls \ {c} : h[d] = f[d]
    PROVE  \A S \in SUBSET Calls :
              SumOver(h, S) = SumOver(f, S) + (IF c \in S THEN h[c] - f[c] ELSE 0)
<1> DEFINE OK(s) == SumOver(h, s) = SumOver(f, s) + (IF c \in s THEN h[c] - f[c] ELSE 0)
           F == {s \in SUBSET Calls : ~OK(s)}
<1>1. SUFFICES ASSUME F # {} PROVE FALSE
  OBVIOUS
<1>2. PICK s \in F : \A t \in F : ~(t \subseteq s /\ t # s)
  <2>1. F \subseteq SUBSET Calls
    OBVIOUS
  <2> HIDE DEF F
  <2> QED BY <1>1, <2>1, SmallestSet
<1>3. s # {}
  <2>1. SumOver(h, {}) = 0 /\ SumOver(f, {}) = 0
    BY SumUnfolds
  <2>2. OK({})
    BY <2>1
  <2>3. ~OK(s)
    BY <1>2
  <2> HIDE DEF OK
  <2> QED BY <2>2, <2>3
<1> DEFINE x == Chosen(s)
           r == s \ {x}
<1>4. r \in SUBSET Calls /\ r \notin F /\ x \in s /\ x \in Calls
  BY <1>2, <1>3, ChosenMember
<1>5. /\ SumOver(f, s) = f[x] + SumOver(f, r)
      /\ SumOver(h, s) = h[x] + SumOver(h, r)
  BY <1>2, <1>3, SumUnfolds
<1>6. SumOver(h, r) = SumOver(f, r) + (IF c \in r THEN h[c] - f[c] ELSE 0)
  BY <1>4
<1>7. SumOver(f, r) \in Int /\ f[x] \in Int /\ f[c] \in Int /\ h[c] \in Int
  BY <1>4, SumType
<1>8. CASE x = c
  <2>1. c \notin r /\ c \in s
    BY <1>4, <1>8
  <2>2. OK(s)
    <3> HIDE DEF x, r
    <3> QED BY <1>5, <1>6, <1>7, <1>8, <2>1
  <2> QED BY <1>2, <2>2
<1>9. CASE x # c
  <2>1. h[x] = f[x] /\ (c \in r <=> c \in s)
    BY <1>4, <1>9
  <2>2. OK(s)
    <3> HIDE DEF x, r
    <3> QED BY <1>5, <1>6, <1>7, <1>9, <2>1
  <2> QED BY <1>2, <2>2
<1> QED BY <1>8, <1>9

\* The calls of an account, and what the books say of it.
CallsOf(u) == {c \in Calls : User(c) = u}

Conserved ==
    \A u \in Users :
        BalanceFn[u] = Initial[u] + credited[u] - SumOver(posted, CallsOf(u))

LEMMA PostedType == TypeOK => posted \in [Calls -> Int]
<1>1. Points \subseteq Int
  BY AmountFacts
<1>2. TypeOK => posted \in [Calls -> Points]
  BY DEF TypeOK
<1> QED BY <1>1, <1>2

LEMMA ConservedMeaning == MoneyIsConserved <=> Conserved
<1>1. \A u \in Users : Ledger!CallsOf(u) = CallsOf(u)
  BY DEF Ledger!CallsOf, CallsOf
<1> QED BY <1>1 DEF MoneyIsConserved, Ledger!MoneyIsConserved, Conserved, BalanceFn, SumOver

LEMMA InitConserved == Init => Conserved
<1> SUFFICES ASSUME Init, NEW u \in Users
             PROVE  BalanceFn[u] = Initial[u] + credited[u] - SumOver(posted, CallsOf(u))
  BY DEF Conserved
<1> DEFINE zero == [c \in Calls |-> 0]
           F == {s \in SUBSET Calls : SumOver(zero, s) # 0}
<1>1. ASSUME F # {} PROVE FALSE
  <2>1. PICK s \in F : \A t \in F : ~(t \subseteq s /\ t # s)
    <3>1. F \subseteq SUBSET Calls
      OBVIOUS
    <3> HIDE DEF F
    <3> QED BY <1>1, <3>1, SmallestSet
  <2>2. s # {}
    <3>1. SumOver(zero, {}) = 0
      BY SumUnfolds
    <3> HIDE DEF zero
    <3> QED BY <2>1, <3>1
  <2>3. s \ {Chosen(s)} \in SUBSET Calls /\ s \ {Chosen(s)} \notin F /\ Chosen(s) \in Calls
    BY <2>1, <2>2, ChosenMember
  <2>4. SumOver(zero, s) = zero[Chosen(s)] + SumOver(zero, s \ {Chosen(s)})
    BY <2>1, <2>2, SumUnfolds
  <2>5. zero[Chosen(s)] = 0
    BY <2>3
  <2> HIDE DEF zero
  <2> QED BY <2>1, <2>3, <2>4, <2>5
<1>2. SumOver(zero, CallsOf(u)) = 0
  BY <1>1 DEF CallsOf
<1>3. posted = zero /\ credited[u] = 0 /\ Initial[u] \in Int
  BY RelayAssumption DEF Init
<1>4. BalanceFn[u] = Initial[u]
  BY InitImplements DEF Ledger!Init, BalanceFn
<1> HIDE DEF zero
<1> QED BY <1>2, <1>3, <1>4

\* The share of call c becomes q: its account changes by the difference, and
\* what the calls of that account hold changes by as much.
LEMMA PostConserves ==
    ASSUME TypeOK, Conserved, NEW c \in Calls, NEW q \in Int, Ledger!Post(c, q)
    PROVE  Conserved'
<1>1. /\ posted' = [posted EXCEPT ![c] = q]
      /\ BalanceFn' = [BalanceFn EXCEPT ![User(c)] = @ + posted[c] - q]
      /\ credited' = credited
  BY DEF Ledger!Post, BalanceFn
<1>2. posted \in [Calls -> Int] /\ User(c) \in Users
  BY UserType, PostedType
<1> SUFFICES ASSUME NEW u \in Users
             PROVE  BalanceFn'[u] = Initial[u] + credited'[u] - SumOver(posted', CallsOf(u))
  BY DEF Conserved
<1>3. /\ SumOver(posted', CallsOf(u))
            = SumOver(posted, CallsOf(u)) + (IF c \in CallsOf(u) THEN q - posted[c] ELSE 0)
      /\ SumOver(posted, CallsOf(u)) \in Int
  <2>1. CallsOf(u) \in SUBSET Calls
    BY DEF CallsOf
  <2>2. \A S \in SUBSET Calls : SumOver(posted', S)
            = SumOver(posted, S) + (IF c \in S THEN q - posted[c] ELSE 0)
    <3>1. /\ posted' \in [Calls -> Int] /\ posted'[c] = q
          /\ \A d \in Calls \ {c} : posted'[d] = posted[d]
      BY <1>1, <1>2
    <3>2. \A S \in SUBSET Calls : SumOver(posted', S)
              = SumOver(posted, S) + (IF c \in S THEN posted'[c] - posted[c] ELSE 0)
      BY <1>2, <3>1, SumChanges
    <3> QED BY <3>1, <3>2
  <2> QED BY <1>2, <2>1, <2>2, SumType
<1>4. BalanceFn'[u] = BalanceFn[u] + (IF u = User(c) THEN posted[c] - q ELSE 0)
  <2>1. BalanceFn \in [Users -> Int] /\ posted[c] \in Int
    BY <1>2, BalanceType DEF BalanceFn
  <2> QED BY <1>1, <1>2, <2>1
<1>5. c \in CallsOf(u) <=> u = User(c)
  BY DEF CallsOf
<1>6. /\ BalanceFn[u] = Initial[u] + credited[u] - SumOver(posted, CallsOf(u))
      /\ Initial[u] \in Int /\ credited[u] \in Int /\ posted[c] \in Int
  BY <1>2, RelayAssumption DEF Conserved, TypeOK
<1> QED BY <1>1, <1>3, <1>4, <1>5, <1>6

LEMMA LedgerConserves ==
    ASSUME TypeOK, Conserved, [Ledger!Next]_Ledger!vars
    PROVE  Conserved'
<1>1. Points \subseteq Int
  BY AmountFacts
<1>2. ASSUME NEW c \in Calls, Ledger!Reserve(c) \/ Ledger!Settle(c) PROVE Conserved'
  <2>1. PICK q \in Points : Ledger!Post(c, q)
    BY <1>2 DEF Ledger!Reserve, Ledger!Settle
  <2> QED BY <1>1, <2>1, PostConserves
<1>3. ASSUME NEW u \in Users, Ledger!Credit(u) PROVE Conserved'
  <2>1. PICK q \in Points : /\ BalanceFn' = [BalanceFn EXCEPT ![u] = @ + q]
                            /\ credited' = [credited EXCEPT ![u] = @ + q]
    BY <1>3 DEF Ledger!Credit, BalanceFn
  <2>2. posted' = posted
    BY <1>3 DEF Ledger!Credit
  <2>3. BalanceFn \in [Users -> Int] /\ credited \in [Users -> Int] /\ q \in Int
    BY <1>1, BalanceType DEF BalanceFn, TypeOK
  <2>4. ASSUME NEW v \in Users
        PROVE  BalanceFn'[v] = Initial[v] + credited'[v] - SumOver(posted', CallsOf(v))
    <3>1. /\ BalanceFn'[v] = BalanceFn[v] + (IF v = u THEN q ELSE 0)
          /\ credited'[v] = credited[v] + (IF v = u THEN q ELSE 0)
      BY <2>1, <2>3
    <3>2. /\ BalanceFn[v] = Initial[v] + credited[v] - SumOver(posted, CallsOf(v))
          /\ SumOver(posted, CallsOf(v)) \in Int
      <4>1. posted \in [Calls -> Int] /\ CallsOf(v) \in SUBSET Calls
        BY PostedType DEF CallsOf
      <4> QED BY <4>1, SumType DEF Conserved
    <3>3. Initial[v] \in Int /\ credited[v] \in Int /\ BalanceFn[v] \in Int
      BY <2>3, RelayAssumption
    <3> QED BY <2>2, <2>3, <3>1, <3>2, <3>3
  <2> QED BY <2>4 DEF Conserved
<1>4. ASSUME UNCHANGED <<BalanceFn, credited, posted>> PROVE Conserved'
  BY <1>4 DEF Conserved
<1>5. ASSUME NEW C \in SUBSET Calls, Ledger!Close(C) PROVE Conserved'
  BY <1>4, <1>5 DEF Ledger!Close, BalanceFn
<1>6. CASE UNCHANGED Ledger!vars
  BY <1>4, <1>6 DEF Ledger!vars, BalanceFn
<1> QED BY <1>2, <1>3, <1>5, <1>6 DEF Ledger!Next

\* Whatever interleaving, retry, cache or restart: an account is worth what it
\* started with plus what it was granted, less what its calls hold of it.
THEOREM Money_is_conserved == Spec => []MoneyIsConserved
<1>1. IInv /\ Conserved /\ [Next]_vars => Conserved'
  BY NextImplements, LedgerConserves DEF IInv
<1>2. Conserved => MoneyIsConserved
  BY ConservedMeaning
<1> QED BY <1>1, <1>2, InitConserved, InitIInv, NextIInv, PTL DEF Spec
=============================================================================
