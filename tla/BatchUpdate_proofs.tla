------------------------ MODULE BatchUpdate_proofs -------------------------
(***************************************************************************)
(* The batch updater neither loses nor doubles a delta, for any set of     *)
(* rows, any initial counters and any bounds.                              *)
(*                                                                         *)
(* NothingLostOrDoubled and DatabaseShowsACut both follow from an          *)
(* inductive invariant that splits the outstanding deltas at the last swap *)
(* of each store: what came before it is in the database, in the updater's *)
(* hands or dropped; what came after it is in the store.                   *)
(***************************************************************************)
EXTENDS BatchUpdate, TLAPS

BeforeTheSwap ==
    \A t \in Types, id \in Rows :
        cut[t][id] = db[t][id] + InHand(t, id) + lost[t][id]

AfterTheSwap ==
    \A t \in Types, id \in Rows : issued[t][id] = cut[t][id] + store[t][id]

IInv == TypeOK /\ BeforeTheSwap /\ AfterTheSwap

\* g is f with d added to counter t of row id.
Added(g, f, t, id, d) ==
    \A s \in Types, j \in Rows :
        g[s][j] = f[s][j] + (IF s = t /\ j = id THEN d ELSE 0)

\* Adding to one counter of a table of counters gives a table of counters.
LEMMA AddToCounter ==
    ASSUME NEW f \in Counters, NEW t \in Types, NEW id \in Rows, NEW d \in Int,
           NEW g, g = [f EXCEPT ![t][id] = f[t][id] + d]
    PROVE  g \in Counters /\ Added(g, f, t, id, d)
  BY DEF Counters, Added

LEMMA TypesFacts ==
    /\ Types \subseteq Int
    /\ Sleeping \notin Types
    /\ BatchUpdateTypeUserQuota \in Types
    /\ BatchUpdateTypeUsedQuota \in Types
    /\ BatchUpdateTypeChannelUsedQuota \in Types
    /\ BatchUpdateTypeRequestCount \in Types
  BY DEF Types, Sleeping, BatchUpdateTypeUserQuota, BatchUpdateTypeUsedQuota,
         BatchUpdateTypeChannelUsedQuota, BatchUpdateTypeRequestCount,
         BatchUpdateTypeCount

LEMMA InitIInv == Init => IInv
  BY BatchAssumption, TypesFacts
     DEF Init, IInv, TypeOK, BeforeTheSwap, AfterTheSwap, InHand, Empty, Counters

\* Any record of any counter only widens what the stores hold.
LEMMA RecordStep ==
    ASSUME IInv, NEW t \in Types, NEW id \in Rows, NEW d \in Int,
           addNewRecord(t, id, d)
    PROVE  IInv'
<1>0. /\ store \in Counters /\ issued \in Counters
      /\ store' = [store EXCEPT ![t][id] = store[t][id] + d]
      /\ issued' = [issued EXCEPT ![t][id] = issued[t][id] + d]
  BY DEF IInv, TypeOK, addNewRecord
<1>1. TypeOK'
  <2>1. store' \in Counters /\ issued' \in Counters
    BY <1>0, AddToCounter
  <2> QED BY <2>1 DEF IInv, TypeOK, addNewRecord
<1>2. BeforeTheSwap'
  BY DEF IInv, BeforeTheSwap, InHand, addNewRecord
<1>3. AfterTheSwap'
  <2> SUFFICES ASSUME NEW s \in Types, NEW j \in Rows
               PROVE  issued'[s][j] = cut'[s][j] + store'[s][j]
    BY DEF AfterTheSwap
  <2>a. Added(issued', issued, t, id, d) /\ Added(store', store, t, id, d)
    BY <1>0, AddToCounter
  <2>1. issued'[s][j] = issued[s][j] + (IF s = t /\ j = id THEN d ELSE 0)
    BY <2>a DEF Added
  <2>2. store'[s][j] = store[s][j] + (IF s = t /\ j = id THEN d ELSE 0)
    BY <2>a DEF Added
  <2>3. issued[s][j] \in Int /\ cut[s][j] \in Int /\ store[s][j] \in Int
    BY DEF IInv, TypeOK, Counters
  <2>4. cut' = cut
    BY DEF addNewRecord
  <2> QED BY <2>1, <2>2, <2>3, <2>4 DEF IInv, AfterTheSwap
<1> QED BY <1>1, <1>2, <1>3 DEF IInv

LEMMA CreditStep ==
    ASSUME IInv, NEW id \in Rows, CreditRow(id)
    PROVE  IInv'
<1> DEFINE t == BatchUpdateTypeUserQuota
<1>1. PICK q \in Amounts :
          /\ records' = records + 1
          /\ db' = [db EXCEPT ![t][id] = @ + q]
          /\ issued' = [issued EXCEPT ![t][id] = @ + q]
          /\ cut' = [cut EXCEPT ![t][id] = @ + q]
          /\ UNCHANGED <<store, taken, cursor, crashes, lost>>
  BY DEF CreditRow
<1>2. t \in Types /\ q \in Int
  BY TypesFacts, BatchAssumption
<1> HIDE DEF t
<1>a. db \in Counters /\ issued \in Counters /\ cut \in Counters
  BY DEF IInv, TypeOK
<1>3. TypeOK'
  <2>1. db' \in Counters /\ issued' \in Counters /\ cut' \in Counters
    BY <1>1, <1>2, <1>a, AddToCounter
  <2> QED BY <1>1, <2>1 DEF IInv, TypeOK
<1>4. ASSUME NEW s \in Types, NEW j \in Rows
      PROVE  /\ cut'[s][j] = db'[s][j] + InHand(s, j)' + lost'[s][j]
             /\ issued'[s][j] = cut'[s][j] + store'[s][j]
  <2> DEFINE d == IF s = t /\ j = id THEN q ELSE 0
  <2>1. /\ db'[s][j] = db[s][j] + d
        /\ cut'[s][j] = cut[s][j] + d
        /\ issued'[s][j] = issued[s][j] + d
    <3>1. /\ Added(db', db, t, id, q) /\ Added(cut', cut, t, id, q)
          /\ Added(issued', issued, t, id, q)
      BY <1>1, <1>2, <1>a, AddToCounter
    <3> QED BY <3>1 DEF Added
  <2>2. /\ db[s][j] \in Int /\ cut[s][j] \in Int /\ issued[s][j] \in Int
        /\ store[s][j] \in Int /\ lost[s][j] \in Int /\ InHand(s, j) \in Int
        /\ d \in Int
    BY <1>2 DEF IInv, TypeOK, Counters, InHand
  <2>3. InHand(s, j)' = InHand(s, j) /\ lost' = lost /\ store' = store
    BY <1>1 DEF InHand
  <2> HIDE DEF d
  <2>4. /\ cut[s][j] = db[s][j] + InHand(s, j) + lost[s][j]
        /\ issued[s][j] = cut[s][j] + store[s][j]
    BY DEF IInv, BeforeTheSwap, AfterTheSwap
  <2> QED BY <2>1, <2>2, <2>3, <2>4
<1> QED BY <1>3, <1>4 DEF IInv, BeforeTheSwap, AfterTheSwap

\* The swap moves the whole store to the updater, and moves the cut with it.
LEMMA SwapStep ==
    ASSUME IInv, NEW t \in Types, Swap(t)
    PROVE  IInv'
<1>1. TypeOK'
  BY DEF IInv, TypeOK, Swap, Counters, Empty
<1>2. ASSUME NEW s \in Types, NEW j \in Rows
      PROVE  /\ cut'[s][j] = db'[s][j] + InHand(s, j)' + lost'[s][j]
             /\ issued'[s][j] = cut'[s][j] + store'[s][j]
  <2>1. InHand(s, j) = 0
    BY DEF Swap, InHand, Empty
  <2>2. /\ db[s][j] \in Int /\ cut[s][j] \in Int /\ issued[s][j] \in Int
        /\ store[s][j] \in Int /\ lost[s][j] \in Int
    BY DEF IInv, TypeOK, Counters
  <2>3. /\ cut[s][j] = db[s][j] + lost[s][j]
        /\ issued[s][j] = cut[s][j] + store[s][j]
    BY <2>1, <2>2 DEF IInv, BeforeTheSwap, AfterTheSwap
  <2>4. CASE s = t
    <3>1. /\ cut'[s][j] = issued[s][j]
          /\ store'[s][j] = 0
          /\ InHand(s, j)' = store[s][j]
      BY <2>4 DEF Swap, IInv, TypeOK, Counters, InHand, Empty
    <3> QED BY <2>2, <2>3, <3>1 DEF Swap
  <2>5. CASE s # t
    <3>1. /\ cut'[s][j] = cut[s][j]
          /\ store'[s][j] = store[s][j]
          /\ InHand(s, j)' = 0
      BY <2>5 DEF Swap, IInv, TypeOK, Counters, InHand
    <3> QED BY <2>2, <2>3, <3>1 DEF Swap
  <2> QED BY <2>4, <2>5
<1> QED BY <1>1, <1>2 DEF IInv, BeforeTheSwap, AfterTheSwap

\* An UPDATE moves one delta out of the updater's hands: to the database, or
\* to the lost ones when it fails.
LEMMA ApplyStep ==
    ASSUME IInv, NEW id \in Rows, Apply(id) \/ ApplyFails(id)
    PROVE  IInv'
<1>1. cursor \in Types /\ taken[id] \in Int /\ taken \in [Rows -> Int]
  BY DEF IInv, TypeOK, Apply, ApplyFails
<1>2. taken' = [taken EXCEPT ![id] = 0] /\ cursor' = cursor
  BY DEF Apply, ApplyFails
<1>3. TypeOK'
  BY <1>1, <1>2, AddToCounter DEF IInv, TypeOK, Apply, ApplyFails
<1>4. AfterTheSwap'
  BY DEF IInv, AfterTheSwap, Apply, ApplyFails
<1>5. ASSUME NEW s \in Types, NEW j \in Rows
      PROVE  cut'[s][j] = db'[s][j] + InHand(s, j)' + lost'[s][j]
  <2> DEFINE d == IF s = cursor /\ j = id THEN taken[id] ELSE 0
  <2>1. db'[s][j] + lost'[s][j] = db[s][j] + lost[s][j] + d
    <3>1. db[s][j] \in Int /\ lost[s][j] \in Int /\ d \in Int
      BY <1>1 DEF IInv, TypeOK, Counters
    <3>2. CASE Apply(id)
      <4>1. /\ db \in Counters
            /\ db' = [db EXCEPT ![cursor][id] = db[cursor][id] + taken[id]]
            /\ lost' = lost
        BY <3>2 DEF IInv, TypeOK, Apply
      <4>a. Added(db', db, cursor, id, taken[id])
        BY <1>1, <4>1, AddToCounter
      <4>2. db'[s][j] = db[s][j] + d
        BY <4>a DEF Added
      <4> HIDE DEF d
      <4> QED BY <3>1, <4>1, <4>2
    <3>3. CASE ApplyFails(id)
      <4>1. /\ lost \in Counters
            /\ lost' = [lost EXCEPT ![cursor][id] = lost[cursor][id] + taken[id]]
            /\ db' = db
        BY <3>3 DEF IInv, TypeOK, ApplyFails
      <4>a. Added(lost', lost, cursor, id, taken[id])
        BY <1>1, <4>1, AddToCounter
      <4>2. lost'[s][j] = lost[s][j] + d
        BY <4>a DEF Added
      <4> HIDE DEF d
      <4> QED BY <3>1, <4>1, <4>2
    <3> QED BY <3>2, <3>3
  <2>2. InHand(s, j)' = InHand(s, j) - d
    BY <1>1, <1>2 DEF InHand
  <2>3. /\ cut[s][j] \in Int /\ db[s][j] \in Int /\ lost[s][j] \in Int
        /\ InHand(s, j) \in Int /\ d \in Int
        /\ db'[s][j] \in Int /\ lost'[s][j] \in Int
    BY <1>1, <1>3 DEF IInv, TypeOK, Counters, InHand
  <2>4. cut' = cut
    BY DEF Apply, ApplyFails
  <2>5. cut[s][j] = db[s][j] + InHand(s, j) + lost[s][j]
    BY DEF IInv, BeforeTheSwap
  <2> HIDE DEF d
  <2> QED BY <2>1, <2>2, <2>3, <2>4, <2>5
<1> QED BY <1>3, <1>4, <1>5 DEF IInv, BeforeTheSwap

LEMMA FinishStep ==
    ASSUME IInv, Finish
    PROVE  IInv'
<1>1. TypeOK'
  BY DEF IInv, TypeOK, Finish
<1>2. \A s \in Types, j \in Rows : InHand(s, j)' = 0 /\ InHand(s, j) = 0
  BY TypesFacts DEF Finish, InHand, Empty
<1>3. BeforeTheSwap' /\ AfterTheSwap'
  BY <1>2 DEF IInv, BeforeTheSwap, AfterTheSwap, Finish
<1> QED BY <1>1, <1>3 DEF IInv

\* A restart turns everything in memory into lost deltas.
LEMMA CrashStep ==
    ASSUME IInv, Crash
    PROVE  IInv'
<1>1. ASSUME NEW s \in Types, NEW j \in Rows
      PROVE  /\ InHand(s, j) \in Int
             /\ db[s][j] \in Int /\ cut[s][j] \in Int /\ issued[s][j] \in Int
             /\ store[s][j] \in Int /\ lost[s][j] \in Int
  BY DEF IInv, TypeOK, Counters, InHand
<1>2. TypeOK'
  BY <1>1 DEF IInv, TypeOK, Crash, Counters, Empty
<1>3. ASSUME NEW s \in Types, NEW j \in Rows
      PROVE  /\ cut'[s][j] = db'[s][j] + InHand(s, j)' + lost'[s][j]
             /\ issued'[s][j] = cut'[s][j] + store'[s][j]
  <2>1. /\ lost'[s][j] = lost[s][j] + store[s][j] + InHand(s, j)
        /\ store'[s][j] = 0
        /\ InHand(s, j)' = 0
        /\ cut' = issued /\ issued' = issued /\ db' = db
    BY TypesFacts DEF Crash, Empty, InHand
  <2>2. /\ cut[s][j] = db[s][j] + InHand(s, j) + lost[s][j]
        /\ issued[s][j] = cut[s][j] + store[s][j]
    BY DEF IInv, BeforeTheSwap, AfterTheSwap
  <2> QED BY <1>1, <2>1, <2>2
<1> QED BY <1>2, <1>3 DEF IInv, BeforeTheSwap, AfterTheSwap

LEMMA NextIInv == IInv /\ [Next]_vars => IInv'
<1> SUFFICES ASSUME IInv, [Next]_vars PROVE IInv'
  OBVIOUS
<1>1. ASSUME NEW id \in Rows, AdjustUserQuota(id) PROVE IInv'
  BY <1>1, RecordStep, TypesFacts, BatchAssumption DEF AdjustUserQuota
<1>2. ASSUME NEW id \in Rows, RecordUsage(id) PROVE IInv'
  <2>1. Amounts \subseteq Int /\ 1 \in Int
    BY BatchAssumption
  <2> QED BY <1>2, <2>1, RecordStep, TypesFacts DEF RecordUsage
<1>3. ASSUME NEW id \in Rows, CreditRow(id) PROVE IInv'
  BY <1>3, CreditStep
<1>4. CASE batchUpdate
  BY <1>4, SwapStep, ApplyStep, FinishStep DEF batchUpdate
<1>5. CASE Crash
  BY <1>5, CrashStep
<1>6. CASE UNCHANGED vars
  BY <1>6 DEF vars, IInv, TypeOK, BeforeTheSwap, AfterTheSwap, InHand
<1> QED BY <1>1, <1>2, <1>3, <1>4, <1>5, <1>6 DEF Next

\* The variables of the updater always have their types.
THEOREM TypeCorrect == Spec => []TypeOK
<1>1. IInv => TypeOK
  BY DEF IInv
<1> QED BY <1>1, InitIInv, NextIInv, PTL DEF Spec

\* Every delta that was issued is in the database, in a store, in the
\* updater's hands, or was dropped by a failed UPDATE or a restart
\* (src/model/utils.go addNewRecord, batchUpdate).
THEOREM Conservation == Spec => []NothingLostOrDoubled
<1>1. IInv => NothingLostOrDoubled
  <2> SUFFICES ASSUME IInv, NEW t \in Types, NEW id \in Rows
               PROVE  issued[t][id] = db[t][id] + store[t][id]
                                      + InHand(t, id) + lost[t][id]
    BY DEF NothingLostOrDoubled
  <2>1. /\ InHand(t, id) \in Int
        /\ db[t][id] \in Int /\ cut[t][id] \in Int
        /\ store[t][id] \in Int /\ lost[t][id] \in Int
    BY DEF IInv, TypeOK, Counters, InHand
  <2> QED BY <2>1 DEF IInv, BeforeTheSwap, AfterTheSwap
<1> QED BY <1>1, InitIInv, NextIInv, PTL DEF Spec

\* Outside its own round a counter shows exactly the total issued up to the
\* last swap of its store, less what was dropped.
THEOREM CutConsistency == Spec => []DatabaseShowsACut
<1>1. IInv => DatabaseShowsACut
  <2> SUFFICES ASSUME IInv, NEW t \in Types, NEW id \in Rows, InHand(t, id) = 0
               PROVE  db[t][id] = cut[t][id] - lost[t][id]
    BY DEF DatabaseShowsACut
  <2>1. db[t][id] \in Int /\ lost[t][id] \in Int /\ cut[t][id] \in Int
    BY DEF IInv, TypeOK, Counters
  <2> QED BY <2>1 DEF IInv, BeforeTheSwap
<1> QED BY <1>1, InitIInv, NextIInv, PTL DEF Spec
=============================================================================
