---------------------------- MODULE BatchUpdate ----------------------------
(***************************************************************************)
(* The batch updater of src/model/utils.go.  With BATCH_UPDATE_ENABLED the *)
(* gateway does not write a quota change to the database at once: it adds  *)
(* it to an in-memory store, one per kind of counter, and a background     *)
(* goroutine wakes up every BatchUpdateInterval, takes each store in turn  *)
(* (swapping in an empty one under the store's lock) and issues one SQL    *)
(* "column = column + value" per entry.                                    *)
(*                                                                         *)
(* A store is a Go map from row to delta.  It is modelled as a total       *)
(* function: a missing entry and an entry of 0 both leave the row alone.   *)
(***************************************************************************)
EXTENDS Integers

CONSTANTS
    Rows,        \* ids of users and channels
    Initial,     \* Initial[t][id]: the counters in the database at the start
    UserDeltas,  \* amounts by which Increase/DecreaseUserQuota move a balance
    Amounts,     \* quotas that a served request adds to the used_quota columns
    SqlMayFail,  \* TRUE iff an UPDATE issued by the updater may fail
    MaxRecords,  \* bound: how many counter changes are issued
    MaxCrashes   \* bound: how many times the process is restarted

\* The counters, in the order the updater visits them.
BatchUpdateTypeUserQuota        == 0
BatchUpdateTypeUsedQuota        == 1
BatchUpdateTypeChannelUsedQuota == 2
BatchUpdateTypeRequestCount     == 3
BatchUpdateTypeCount            == 4

Types    == 0 .. BatchUpdateTypeCount - 1
Sleeping == -1
Counters == [Types -> [Rows -> Int]]
Empty    == [id \in Rows |-> 0]

ASSUME BatchAssumption ==
    /\ Initial \in Counters
    /\ UserDeltas \subseteq Int
    /\ Amounts \subseteq Nat
    /\ SqlMayFail \in BOOLEAN
    /\ MaxRecords \in Nat
    /\ MaxCrashes \in Nat

VARIABLES
    db,       \* the counters as the database holds them
    store,    \* batchUpdateStores
    taken,    \* the local variable "store" of batchUpdate: the swapped-out map
    cursor,   \* the loop variable i of batchUpdate, or Sleeping
    records,  \* how many changes were issued so far
    crashes,  \* how many restarts happened so far
    issued,   \* history: what each counter would be with immediate writes
    cut,      \* history: issued, at the last swap of each store
    lost      \* history: deltas that a failed UPDATE or a restart dropped

vars == <<db, store, taken, cursor, records, crashes, issued, cut, lost>>

Init ==
    /\ db = Initial
    /\ store = [t \in Types |-> Empty]
    /\ taken = Empty
    /\ cursor = Sleeping
    /\ records = 0
    /\ crashes = 0
    /\ issued = Initial
    /\ cut = Initial
    /\ lost = [t \in Types |-> Empty]

----------------------------------------------------------------------------
(* The goroutines that serve requests.                                     *)

\* Faulty: the entry is overwritten instead of added to.
addNewRecordOverwrites(t, id, value) ==
    /\ records < MaxRecords
    /\ records' = records + 1
    /\ store' = [store EXCEPT ![t][id] = value]
    /\ issued' = [issued EXCEPT ![t][id] = @ + value]
    /\ UNCHANGED <<db, taken, cursor, crashes, cut, lost>>

addNewRecord(t, id, value) ==
    /\ records < MaxRecords
    /\ records' = records + 1
    /\ store' = [store EXCEPT ![t][id] = @ + value]
    /\ issued' = [issued EXCEPT ![t][id] = @ + value]
    /\ UNCHANGED <<db, taken, cursor, crashes, cut, lost>>

\* IncreaseUserQuota and DecreaseUserQuota in batch mode.
AdjustUserQuota(id) ==
    \E d \in UserDeltas : addNewRecord(BatchUpdateTypeUserQuota, id, d)

\* UpdateUserUsedQuotaAndRequestCount and UpdateChannelUsedQuota take one lock
\* after the other, so the updater can run between any two of them.
RecordUsage(id) ==
    \/ \E q \in Amounts : addNewRecord(BatchUpdateTypeUsedQuota, id, q)
    \/ addNewRecord(BatchUpdateTypeRequestCount, id, 1)
    \/ \E q \in Amounts : addNewRecord(BatchUpdateTypeChannelUsedQuota, id, q)

\* A monthly grant or a redemption credits the row itself, whatever the mode.
CreditRow(id) ==
    \E q \in Amounts :
        /\ records < MaxRecords
        /\ records' = records + 1
        /\ db' = [db EXCEPT ![BatchUpdateTypeUserQuota][id] = @ + q]
        /\ issued' = [issued EXCEPT ![BatchUpdateTypeUserQuota][id] = @ + q]
        /\ cut' = [cut EXCEPT ![BatchUpdateTypeUserQuota][id] = @ + q]
        /\ UNCHANGED <<store, taken, cursor, crashes, lost>>

----------------------------------------------------------------------------
(* The updater goroutine.                                                  *)

\* Faulty: the map is read but not replaced by an empty one.
SwapKeepsStore(t) ==
    /\ cursor = t - 1
    /\ taken = Empty
    /\ cursor' = t
    /\ taken' = store[t]
    /\ cut' = [cut EXCEPT ![t] = issued[t]]
    /\ UNCHANGED <<db, store, records, crashes, issued, lost>>

\* Lock, take the map, put an empty one in its place, unlock.  The loop comes
\* to store t when it has issued every entry of store t-1 (or wakes up).
Swap(t) ==
    /\ cursor = t - 1
    /\ taken = Empty
    /\ cursor' = t
    /\ taken' = store[t]
    /\ store' = [store EXCEPT ![t] = Empty]
    /\ cut' = [cut EXCEPT ![t] = issued[t]]
    /\ UNCHANGED <<db, records, crashes, issued, lost>>

\* One iteration of "for key, value := range store": the entry's UPDATE.
Apply(id) ==
    /\ cursor # Sleeping
    /\ taken[id] # 0
    /\ taken' = [taken EXCEPT ![id] = 0]
    /\ db' = [db EXCEPT ![cursor][id] = @ + taken[id]]
    /\ UNCHANGED <<store, cursor, records, crashes, issued, cut, lost>>

\* The UPDATE returned an error: it is logged and the loop goes on.
ApplyFails(id) ==
    /\ SqlMayFail
    /\ cursor # Sleeping
    /\ taken[id] # 0
    /\ taken' = [taken EXCEPT ![id] = 0]
    /\ lost' = [lost EXCEPT ![cursor][id] = @ + taken[id]]
    /\ UNCHANGED <<db, store, cursor, records, crashes, issued, cut>>

\* Faulty: the goroutine returns after its first round.
FinishForGood ==
    /\ cursor = BatchUpdateTypeCount - 1
    /\ taken = Empty
    /\ UNCHANGED vars

Finish ==
    /\ cursor = BatchUpdateTypeCount - 1
    /\ taken = Empty
    /\ cursor' = Sleeping
    /\ UNCHANGED <<db, store, taken, records, crashes, issued, cut, lost>>

batchUpdate ==
    \/ \E t \in Types : Swap(t)
    \/ \E id \in Rows : Apply(id) \/ ApplyFails(id)
    \/ Finish

----------------------------------------------------------------------------
\* The delta of counter t, row id, that the updater holds in its hands.
InHand(t, id) == IF t = cursor THEN taken[id] ELSE 0

\* The process stops (there is no flush on shutdown) and starts again with
\* empty stores.
Crash ==
    /\ crashes < MaxCrashes
    /\ crashes' = crashes + 1
    /\ lost' = [t \in Types |-> [id \in Rows |->
                    lost[t][id] + store[t][id] + InHand(t, id)]]
    /\ store' = [t \in Types |-> Empty]
    /\ taken' = Empty
    /\ cursor' = Sleeping
    /\ cut' = issued
    /\ UNCHANGED <<db, records, issued>>

Next ==
    \/ \E id \in Rows : AdjustUserQuota(id) \/ RecordUsage(id) \/ CreditRow(id)
    \/ batchUpdate
    \/ Crash

\* The updater is a goroutine that sleeps a bounded time and never returns.
Fairness == WF_vars(batchUpdate)

Spec == Init /\ [][Next]_vars /\ Fairness

----------------------------------------------------------------------------
TypeOK ==
    /\ db \in Counters
    /\ store \in Counters
    /\ taken \in [Rows -> Int]
    /\ cursor \in Types \cup {Sleeping}
    /\ records \in Nat
    /\ crashes \in Nat
    /\ issued \in Counters
    /\ cut \in Counters
    /\ lost \in Counters

\* No delta is lost or applied twice: what was issued is in the database, in a
\* store, in the updater's hands, or was dropped by a failed UPDATE or a
\* restart (src/model/utils.go addNewRecord and batchUpdate).
NothingLostOrDoubled ==
    \A t \in Types, id \in Rows :
        issued[t][id] = db[t][id] + store[t][id] + InHand(t, id) + lost[t][id]

\* Batch mode delays the database, it never shows a value that no instant had:
\* outside its own round a counter is exactly the total issued up to the last
\* swap of its store, less what was dropped (README.md:392 "delay").
DatabaseShowsACut ==
    \A t \in Types, id \in Rows :
        InHand(t, id) = 0 => db[t][id] = cut[t][id] - lost[t][id]

\* Once no more changes are issued, the database catches up with all of them
\* except the dropped ones, and stays so.
EventuallyCaughtUp ==
    <>[](\A t \in Types, id \in Rows : db[t][id] + lost[t][id] = issued[t][id])
=============================================================================
