-------------------------- MODULE MCWebLists_proofs --------------------------
(***************************************************************************)
(* Proofs about the tables of the three front ends, for any number of      *)
(* rows, of clicks, of requests and of changes by others.                  *)
(*                                                                         *)
(* A table is a list of rows that its handlers load, splice, push, sort,   *)
(* filter and mark, each with the list its closure captured.  What must    *)
(* hold of a list is that its rows are taken from a set (the rows that     *)
(* show something that was so once, or in quiet times the rows that are    *)
(* true), so one lemma for each operator says that it stays in Seq(T), for *)
(* any T.  Then there is one lemma for each kind of step: a handler that   *)
(* only changes the page, sends a request, ends with an answer, pushes a   *)
(* page onto its array, marks a row in every list that holds it, goes on   *)
(* to another request or is lost; and the steps of the service.            *)
(***************************************************************************)
EXTENDS MCWebLists, FiniteSetTheorems, SequenceTheorems, TLAPS

Defaults == {"default.Tokens", "default.Users", "default.Redemptions", "default.Channels", "default.Logs"}
Airs == {"air.Tokens", "air.Redemptions", "air.Users", "air.Channels", "air.Logs"}
Berries == {"berry.Channels", "berry.Tokens", "berry.Users", "berry.Redemptions", "berry.Logs"}

\* The tables that push a later page onto the array of the closure, the ones that
\* splice it in, and the ones that never go back to the list they were called with.
Pushing == {"default.Redemptions", "air.Redemptions", "air.Users"}
Splicing == {"air.Tokens", "air.Channels", "air.Logs"}
Functional == {"default.Users", "default.Channels"}

(***************************************************************************)
(* Rows.  was is what the service remembers: every status a row ever had.  *)
(***************************************************************************)
Row == [id : Ids, st : Statuses, n : Nat, del : BOOLEAN]
Past(was) == {row \in Row : row.st \in was[row.id] /\ (row.del => None \in was[row.id])}
Told(was) == {d \in [id : Ids, st : Statuses] : d.st \in was[d.id]}

Distinct(s) == \A i, j \in DOMAIN s : s[i].id = s[j].id => i = j

(***************************************************************************)
(* The page v, and a request q of the page at.                             *)
(***************************************************************************)
SwitchOK(switch, was) ==
    \A id \in DOMAIN switch : id \in Ids /\ DOMAIN switch[id] = {"st", "inst"} /\ switch[id].st \in was[id]

PageOK(v, was) ==
    /\ {"at", "rows", "page"} \subseteq DOMAIN v
    /\ v.at \in Defaults \cup Airs \cup Berries
    /\ v.rows \in Seq(Past(was))
    /\ v.page \in Nat /\ (v.at \notin Berries => v.page # 0)
    /\ v.at \in Airs => "size" \in DOMAIN v /\ v.size \in Nat \ {0}
    /\ v.at \in Pushing => "era" \in DOMAIN v
    /\ v.at \in Berries => "switch" \in DOMAIN v /\ SwitchOK(v.switch, was)
    /\ v.at = "default.Users" => Distinct(v.rows)

\* What a handler waits for.
Lists == {"loadTokens", "loadUsers", "loadRedemptions", "loadChannels", "loadLogs", "airLoadTokens",
          "airLoadRedemptions", "airLoadUsers", "airLoadChannels", "airLoadLogs", "berryLoad"}
Searching == {"searchTokens", "searchUsers", "searchChannels", "airSearchTokens", "airSearchRedemptions",
              "airSearchUsers", "airSearchChannels", "berrySearch"}
Indexed == {"manageToken", "manageRedemption", "airManageToken", "airManageRedemption", "airManageUser",
            "airManageChannel"}
Numbered == {"manageUser", "updateChannel"}
Purging == {"airDeleteAllDisabledChannels", "berryPurge"}
Telling == {"testChannel", "getLogStat", "getLogSelfStat", "airFetchGroups", "airTestChannel",
            "airUpdateChannelBalance", "airGetLogStat", "airGetLogSelfStat", "airShowUserInfo", "berryTell"}
Changing == {"put", "delete", "touch"}

ForOK(fn, req) ==
    /\ fn \in Lists => req = "list"
    /\ fn \in Searching => req = "search"
    /\ fn \in Indexed \cup Numbered => req \in Changing
    /\ fn \in Purging => req = "purge"
    /\ fn \in Telling => req = "tell"

ListOK(at, arg, was) ==
    /\ arg.p \in Nat
    /\ at \in Defaults => arg.goto \in Nat
    /\ at \in Splicing => arg.size \in Nat
    /\ at \in Berries => arg.goto \in Nat \cup {Stay} /\ (arg.sw.id \in Ids => arg.sw.st \in was[arg.sw.id])

PurgeOK(at, arg) ==
    /\ at \in Airs => arg.p \in Nat /\ arg.size \in Nat
    /\ at \in Berries => arg.page \in Nat

\* The row an Indexed handler works on is found where it was in the closure's list.
IndexOK(q) == q.arg.idx \in DOMAIN q.was /\ q.was[q.arg.idx].id = q.arg.id

AskOK(at, q, was) ==
    /\ DOMAIN q = {"fn", "req", "arg", "was", "st", "data"}
    /\ q.st \in {"sent", "ok", "refused", "failed"}
    /\ q.was \in Seq(Past(was))
    /\ ForOK(q.fn, q.req)
    /\ q.req = "list" => ListOK(at, q.arg, was)
    /\ q.req = "purge" => PurgeOK(at, q.arg)
    /\ q.req \in Changing => q.arg.id \in Ids /\ (q.req = "put" => q.arg.st \in Statuses)
    /\ q.fn = "berryManage" => q.arg.page \in Nat
    /\ q.fn \in Indexed => IndexOK(q)

AnswerOK(q, was) ==
    /\ q.data \in Seq(Told(was))
    /\ q.req \in {"list", "search"} => Distinct(q.data)
    /\ q.req = "tell" => q.data = <<>>
    /\ q.st = "ok" =>
          /\ q.req = "delete" => None \in was[q.arg.id]
          /\ q.req = "put" => q.arg.st \in was[q.arg.id]
          /\ q.req \in {"put", "touch"} => Len(q.data) = 1 /\ q.data[1].id = q.arg.id

RequestsOK == \A n \in DOMAIN net : AskOK(view.at, net[n], server.was) /\ AnswerOK(net[n], server.was)

ServerOK ==
    /\ server \in [rows : [Ids -> Statuses \cup {None}], was : [Ids -> SUBSET (Statuses \cup {None})]]
    /\ \A id \in Ids : server.rows[id] \in server.was[id]

CountOK ==
    /\ calls \in Nat /\ history \in [alone : BOOLEAN, lost : BOOLEAN, faults : Nat] /\ tidy \in BOOLEAN
    /\ DOMAIN net \subseteq 1 .. calls
    /\ Cardinality(DOMAIN net) <= MaxEvents + 1

(***************************************************************************)
(* Closures that hold the same array hold the same rows, and so does the   *)
(* page while it shows that array.                                         *)
(***************************************************************************)
Holds(n, e, rows) == net[n].req # "search" /\ net[n].arg.era = e => net[n].was = rows

EraOK ==
    view.at \in Pushing =>
        \A n \in DOMAIN net :
            /\ Holds(n, view.era, view.rows)
            /\ net[n].req # "search" => \A m \in DOMAIN net : Holds(m, net[n].arg.era, net[n].was)

(***************************************************************************)
(* What holds while a reader waits for each answer: what the service has   *)
(* changed, the one request under way still has to tell.                   *)
(***************************************************************************)
Quiet == ~Berry /\ tidy /\ history.alone /\ history.faults = 0

TrueRow(row) == row.del \/ server.rows[row.id] = row.st
TrueRows(s) == \A i \in DOMAIN s : TrueRow(s[i])

\* The request has changed row id, or will be answered with its new status.
Tells(q, id) == q.req \in {"put", "delete"} /\ q.st = "ok" /\ q.arg.id = id

QuietOK ==
    Quiet =>
        /\ NoRowTwice
        /\ \A n \in DOMAIN net :
              /\ net[n].req # "purge" /\ net[n].st # "failed"
              /\ \A m \in DOMAIN net : n = m \/ net[n].req = "tell" \/ net[m].req = "tell"
              /\ view.at \notin Functional /\ net[n].req \in Changing \cup {"list"} => net[n].was = view.rows
              /\ net[n].st = "ok" =>
                    /\ \A i \in DOMAIN net[n].data : server.rows[net[n].data[i].id] = net[n].data[i].st
                    /\ net[n].req = "delete" => server.rows[net[n].arg.id] = None
        /\ \A i \in DOMAIN view.rows :
              TrueRow(view.rows[i]) \/ \E n \in DOMAIN net : Tells(net[n], view.rows[i].id)

IInv == PageOK(view, server.was) /\ RequestsOK /\ ServerOK /\ CountOK /\ EraOK /\ QuietOK

----------------------------------------------------------------------------
(***************************************************************************)
(* Lists.                                                                  *)
(***************************************************************************)
\* A function on 1 .. n is a list.
LEMMA ListIntro ==
    ASSUME NEW T, NEW n \in Nat, NEW s, s = [i \in 1 .. n |-> s[i]], \A i \in 1 .. n : s[i] \in T
    PROVE  s \in Seq(T) /\ Len(s) = n /\ DOMAIN s = 1 .. n
<1>1. s \in [1 .. n -> T]
  OBVIOUS
<1>2. s \in Seq(T)
  BY <1>1, SeqDef
<1>3. Len(s) \in Nat /\ DOMAIN s = 1 .. Len(s)
  BY <1>2, LenProperties
<1>4. DOMAIN s = 1 .. n
  BY <1>1
<1>. QED
  BY <1>2, <1>3, <1>4

LEMMA ListElim ==
    ASSUME NEW T, NEW s \in Seq(T)
    PROVE  /\ Len(s) \in Nat /\ DOMAIN s = 1 .. Len(s)
           /\ s = [i \in DOMAIN s |-> s[i]]
           /\ \A i \in DOMAIN s : s[i] \in T
  BY LenProperties

\* The places of distinct ranks fill all ranks.
LEMMA RankOnto ==
    ASSUME NEW S, IsFiniteSet(S), NEW rank \in [S -> 1 .. Cardinality(S)],
           \A i, j \in S : rank[i] = rank[j] => i = j
    PROVE  \A k \in 1 .. Cardinality(S) : \E i \in S : rank[i] = k
<1>1. rank \in Injection(S, 1 .. Cardinality(S))
  BY DEF Injection, IsInjective
<1>2. Cardinality(S) \in Nat
  BY FS_CardinalityType
<1>3. IsFiniteSet(1 .. Cardinality(S)) /\ Cardinality(1 .. Cardinality(S)) = Cardinality(S)
  BY <1>2, FS_Interval
<1>4. rank \in Surjection(S, 1 .. Cardinality(S))
  BY <1>1, <1>3, FS_Injection
<1>. QED
  BY <1>4 DEF Surjection

\* Ranks that are sizes of sets, each of which holds its own place and is strictly
\* larger than, or strictly smaller than, that of any other place.
LEMMA SizesRank ==
    ASSUME NEW S, IsFiniteSet(S), NEW upTo \in [S -> SUBSET S],
           \A i \in S : i \in upTo[i],
           \A i, j \in S : i # j =>
              \/ upTo[i] \subseteq upTo[j] /\ j \notin upTo[i]
              \/ upTo[j] \subseteq upTo[i] /\ i \notin upTo[j]
    PROVE  /\ \A k \in 1 .. Cardinality(S) : \E i \in S : Cardinality(upTo[i]) = k
           /\ \A i \in S : Cardinality(upTo[i]) \in 1 .. Cardinality(S)
<1>. DEFINE rank == [i \in S |-> Cardinality(upTo[i])]
<1>1. \A i \in S : IsFiniteSet(upTo[i]) /\ Cardinality(upTo[i]) \in 1 .. Cardinality(S)
  <2>. SUFFICES ASSUME NEW i \in S
                PROVE  IsFiniteSet(upTo[i]) /\ Cardinality(upTo[i]) \in 1 .. Cardinality(S)
    OBVIOUS
  <2>1. IsFiniteSet(upTo[i]) /\ Cardinality(upTo[i]) <= Cardinality(S)
    BY FS_Subset
  <2>2. Cardinality(upTo[i]) \in Nat /\ Cardinality(S) \in Nat /\ Cardinality(upTo[i]) # 0
    BY <2>1, FS_CardinalityType, FS_EmptySet
  <2>. QED
    BY <2>1, <2>2
<1>2. rank \in [S -> 1 .. Cardinality(S)]
  BY <1>1
<1>3. ASSUME NEW i \in S, NEW j \in S, upTo[i] \subseteq upTo[j], j \notin upTo[i]
      PROVE  Cardinality(upTo[i]) # Cardinality(upTo[j])
  <2>1. upTo[i] # upTo[j]
    BY <1>3
  <2>. QED
    BY <1>1, <1>3, <2>1, FS_Subset
<1>4. \A i, j \in S : rank[i] = rank[j] => i = j
  BY <1>3
<1>. HIDE DEF rank
<1>5. \A k \in 1 .. Cardinality(S) : \E i \in S : rank[i] = k
  BY <1>2, <1>4, RankOnto
<1>. QED
  BY <1>1, <1>5 DEF rank

\* Down lists the members of a finite set, each once.
LEMMA DownLists ==
    ASSUME NEW S, S \subseteq Int, IsFiniteSet(S)
    PROVE  /\ Down(S) \in Seq(S) /\ Len(Down(S)) = Cardinality(S)
           /\ \A k, l \in DOMAIN Down(S) : Down(S)[k] = Down(S)[l] => k = l
<1>. DEFINE upTo == [x \in S |-> {y \in S : y >= x}]
<1>1. upTo \in [S -> SUBSET S] /\ (\A x \in S : x \in upTo[x])
  OBVIOUS
<1>2. \A x, z \in S : x # z =>
         \/ upTo[x] \subseteq upTo[z] /\ z \notin upTo[x]
         \/ upTo[z] \subseteq upTo[x] /\ x \notin upTo[z]
  <2>. SUFFICES ASSUME NEW x \in S, NEW z \in S, x < z
                PROVE  upTo[z] \subseteq upTo[x] /\ x \notin upTo[z]
    OBVIOUS
  <2>1. x \in Int /\ z \in Int /\ \A y \in S : y \in Int
    OBVIOUS
  <2>2. (\A y \in S : y >= z => y >= x) /\ ~(x >= z)
    BY <2>1
  <2>. QED
    BY <2>2
<1>3. \A k \in 1 .. Cardinality(S) : \E x \in S : Cardinality(upTo[x]) = k
  <2>. HIDE DEF upTo
  <2>. QED
    BY <1>1, <1>2, SizesRank
<1>4. Cardinality(S) \in Nat
  BY FS_CardinalityType
<1>. DEFINE d == Down(S)
<1>5. /\ d = [k \in 1 .. Cardinality(S) |-> d[k]]
      /\ \A k \in 1 .. Cardinality(S) : d[k] = CHOOSE x \in S : Cardinality({y \in S : y >= x}) = k
  <2>1. d = [k \in 1 .. Cardinality(S) |-> CHOOSE x \in S : Cardinality({y \in S : y >= x}) = k]
    BY DEF Down
  <2>. DEFINE Pick(k) == CHOOSE x \in S : Cardinality({y \in S : y >= x}) = k
  <2>. HIDE DEF d
  <2>2. d = [k \in 1 .. Cardinality(S) |-> Pick(k)]
    BY <2>1
  <2>3. d = [k \in 1 .. Cardinality(S) |-> d[k]] /\ \A k \in 1 .. Cardinality(S) : d[k] = Pick(k)
    <3>. HIDE DEF Pick
    <3>. QED
      BY <2>2
  <2>. QED
    BY <2>3
<1>6. \A k \in 1 .. Cardinality(S) : d[k] \in S /\ Cardinality({y \in S : y >= d[k]}) = k
  <2>. TAKE k \in 1 .. Cardinality(S)
  <2>1. \E x \in S : Cardinality({y \in S : y >= x}) = k
    BY <1>3
  <2>2. d[k] = CHOOSE x \in S : Cardinality({y \in S : y >= x}) = k
    BY <1>5
  <2>. HIDE DEF d
  <2>. QED
    BY <2>1, <2>2
<1>. HIDE DEF d
<1>7. d \in Seq(S) /\ Len(d) = Cardinality(S) /\ DOMAIN d = 1 .. Cardinality(S)
  BY <1>4, <1>5, <1>6, ListIntro
<1>8. ASSUME NEW k \in DOMAIN d, NEW l \in DOMAIN d, d[k] = d[l]
      PROVE  k = l
  <2>1. /\ Cardinality({y \in S : y >= d[k]}) = k
        /\ Cardinality({y \in S : y >= d[l]}) = l
    BY <1>6, <1>7
  <2>. QED
    BY <1>8, <2>1
<1>. QED
  BY <1>7, <1>8 DEF d

LEMMA ReversedLists ==
    ASSUME NEW T, NEW s \in Seq(T)
    PROVE  /\ Reversed(s) \in Seq(T) /\ Len(Reversed(s)) = Len(s)
           /\ \A k \in DOMAIN s : Len(s) + 1 - k \in DOMAIN s /\ Reversed(s)[k] = s[Len(s) + 1 - k]
           /\ DOMAIN Reversed(s) = DOMAIN s
<1>1. Len(s) \in Nat /\ DOMAIN s = 1 .. Len(s)
  BY LenProperties
<1>. DEFINE r == Reversed(s)
<1>2. r = [k \in 1 .. Len(s) |-> r[k]] /\ \A k \in 1 .. Len(s) : r[k] = s[Len(s) + 1 - k]
  BY <1>1 DEF Reversed
<1>3. \A k \in 1 .. Len(s) : Len(s) + 1 - k \in 1 .. Len(s)
  BY <1>1
<1>. HIDE DEF r
<1>4. \A k \in 1 .. Len(s) : r[k] \in T
  BY <1>1, <1>2, <1>3, ListElim
<1>5. r \in Seq(T) /\ Len(r) = Len(s) /\ DOMAIN r = 1 .. Len(s)
  BY <1>1, <1>2, <1>4, ListIntro
<1>. QED
  BY <1>1, <1>2, <1>3, <1>5 DEF r

LEMMA ReversedOnce ==
    ASSUME NEW T, NEW s \in Seq(T), \A k, l \in DOMAIN s : s[k] = s[l] => k = l
    PROVE  \A k, l \in DOMAIN Reversed(s) : Reversed(s)[k] = Reversed(s)[l] => k = l
<1>1. Len(s) \in Nat /\ DOMAIN s = 1 .. Len(s)
  BY LenProperties
<1>2. /\ DOMAIN Reversed(s) = DOMAIN s
      /\ \A k \in DOMAIN s : Len(s) + 1 - k \in DOMAIN s /\ Reversed(s)[k] = s[Len(s) + 1 - k]
  BY ReversedLists
<1>3. ASSUME NEW k \in DOMAIN s, NEW l \in DOMAIN s, Reversed(s)[k] = Reversed(s)[l]
      PROVE  k = l
  <2>1. Len(s) + 1 - k = Len(s) + 1 - l
    BY <1>2, <1>3
  <2>. QED
    BY <1>1, <2>1
<1>. QED
  BY <1>2, <1>3

\* Filtered takes rows of the list, and none twice.
LEMMA FilteredLists ==
    ASSUME NEW T, NEW rows \in Seq(T), NEW S \in SUBSET DOMAIN rows
    PROVE  /\ Filtered(rows, S) \in Seq(T)
           /\ \A k \in DOMAIN Filtered(rows, S) : \E i \in S : Filtered(rows, S)[k] = rows[i]
           /\ Distinct(rows) => Distinct(Filtered(rows, S))
<1>1. Len(rows) \in Nat /\ DOMAIN rows = 1 .. Len(rows) /\ \A i \in DOMAIN rows : rows[i] \in T
  BY ListElim
<1>2. IsFiniteSet(S) /\ S \subseteq Int
  <2>1. IsFiniteSet(1 .. Len(rows))
    BY <1>1, FS_Interval
  <2>. QED
    BY <1>1, <2>1, FS_Subset
<1>. DEFINE at == Reversed(Down(S))
<1>3. at \in Seq(S) /\ \A k, l \in DOMAIN at : at[k] = at[l] => k = l
  BY <1>2, DownLists, ReversedLists, ReversedOnce
<1>. DEFINE f == Filtered(rows, S)
<1>4. f = [k \in DOMAIN at |-> f[k]] /\ \A k \in DOMAIN at : f[k] = rows[at[k]]
  BY DEF Filtered
<1>. HIDE DEF f, at
<1>5. Len(at) \in Nat /\ DOMAIN at = 1 .. Len(at) /\ \A k \in DOMAIN at : at[k] \in S
  BY <1>3, ListElim
<1>6. f \in Seq(T) /\ DOMAIN f = DOMAIN at
  BY <1>1, <1>4, <1>5, ListIntro
<1>7. \A k \in DOMAIN f : \E i \in S : f[k] = rows[i]
  BY <1>4, <1>5, <1>6
<1>8. ASSUME Distinct(rows) PROVE Distinct(f)
  <2>. SUFFICES ASSUME NEW k \in DOMAIN f, NEW l \in DOMAIN f, f[k].id = f[l].id PROVE k = l
    BY DEF Distinct
  <2>1. at[k] \in DOMAIN rows /\ at[l] \in DOMAIN rows /\ rows[at[k]].id = rows[at[l]].id
    BY <1>4, <1>5, <1>6
  <2>2. at[k] = at[l]
    BY <1>8, <2>1 DEF Distinct
  <2>. QED
    BY <1>3, <1>6, <2>2
<1>. QED
  BY <1>6, <1>7, <1>8 DEF f

LEMMA ArrangedLists ==
    ASSUME NEW T, NEW rows \in Seq(T), NEW key \in [DOMAIN rows -> Int]
    PROVE  Arranged(rows, key) \in Seq(T) /\ Len(Arranged(rows, key)) = Len(rows)
<1>. DEFINE S == DOMAIN rows
            upTo == [i \in S |-> {j \in S : key[j] < key[i] \/ (key[j] = key[i] /\ j <= i)}]
<1>1. Len(rows) \in Nat /\ S = 1 .. Len(rows) /\ \A i \in S : rows[i] \in T
  BY ListElim
<1>2. IsFiniteSet(S) /\ Cardinality(S) = Len(rows)
  <2>1. /\ IsFiniteSet(1 .. Len(rows))
        /\ Cardinality(1 .. Len(rows)) = IF 1 > Len(rows) THEN 0 ELSE Len(rows) - 1 + 1
    BY <1>1, FS_Interval
  <2>2. (IF 1 > Len(rows) THEN 0 ELSE Len(rows) - 1 + 1) = Len(rows)
    BY <1>1
  <2>. QED
    BY <1>1, <2>1, <2>2
<1>3. \A i \in S : i \in Int /\ key[i] \in Int
  BY <1>1
<1>. HIDE DEF S
<1>4. upTo \in [S -> SUBSET S] /\ \A i \in S : i \in upTo[i]
  BY <1>3
<1>5. \A i, j \in S : i # j =>
         \/ upTo[i] \subseteq upTo[j] /\ j \notin upTo[i]
         \/ upTo[j] \subseteq upTo[i] /\ i \notin upTo[j]
  <2>. SUFFICES ASSUME NEW i \in S, NEW j \in S, key[i] < key[j] \/ (key[i] = key[j] /\ i < j)
                PROVE  upTo[i] \subseteq upTo[j] /\ j \notin upTo[i]
    BY <1>3
  <2>1. \A m \in S : m \in upTo[i] => m \in upTo[j]
    BY <1>3
  <2>2. j \notin upTo[i]
    BY <1>3
  <2>. QED
    BY <1>4, <2>1, <2>2
<1>6. \A k \in 1 .. Len(rows) : \E i \in S : Cardinality(upTo[i]) = k
  <2>. HIDE DEF upTo
  <2>. QED
    BY <1>2, <1>4, <1>5, SizesRank
<1>. DEFINE a == Arranged(rows, key)
            Place(k) == CHOOSE i \in S :
                Cardinality({j \in S : key[j] < key[i] \/ (key[j] = key[i] /\ j <= i)}) = k
<1>7. a = [k \in 1 .. Len(rows) |-> a[k]] /\ \A k \in 1 .. Len(rows) : a[k] = rows[Place(k)]
  BY <1>1 DEF Arranged, S
<1>8. \A k \in 1 .. Len(rows) : Place(k) \in S
  BY <1>6
<1>. HIDE DEF a, Place
<1>9. \A k \in 1 .. Len(rows) : a[k] \in T
  BY <1>1, <1>7, <1>8
<1>10. a \in Seq(T) /\ Len(a) = Len(rows)
  BY <1>1, <1>7, <1>9, ListIntro
<1>. QED
  BY <1>10 DEF a

\* Sorting keeps the rows.
LEMMA SortedLists ==
    ASSUME NEW T, NEW rows \in Seq(T), \A r \in T : r.id \in Int
    PROVE  Sorted(rows) \in Seq(T) /\ SortedDown(rows) \in Seq(T)
<1>. DEFINE up == [i \in DOMAIN rows |-> rows[i].id]
            down == [i \in DOMAIN rows |-> 0 - rows[i].id]
<1>1. \A i \in DOMAIN rows : rows[i] \in T
  BY ListElim
<1>2. up \in [DOMAIN rows -> Int] /\ down \in [DOMAIN rows -> Int]
  BY <1>1
<1>. HIDE DEF up, down
<1>3. Arranged(rows, up) \in Seq(T) /\ Arranged(rows, down) \in Seq(T)
  BY <1>2, ArrangedLists
<1>4. Reversed(Arranged(rows, up)) \in Seq(T) /\ Reversed(Arranged(rows, down)) \in Seq(T)
  BY <1>3, ReversedLists
<1>. QED
  BY <1>3, <1>4 DEF Sorted, SortedDown, up, down

LEMMA SubLists ==
    ASSUME NEW T, NEW s \in Seq(T), NEW m \in Nat \ {0}, NEW n \in Int, n <= Len(s)
    PROVE  SubSeq(s, m, n) \in Seq(T)
<1>1. \A i \in m .. n : s[i] \in T
  BY ListElim
<1>. QED
  BY <1>1, SubSeqProperties

LEMMA SplicedLists ==
    ASSUME NEW T, NEW rows \in Seq(T), NEW data \in Seq(T), NEW at \in Nat
    PROVE  Spliced(rows, at, data) \in Seq(T)
<1>1. Len(rows) \in Nat /\ Len(data) \in Nat
  BY ListElim
<1>. DEFINE from == IF at > Len(rows) THEN Len(rows) ELSE at
<1>2. from \in Nat /\ from <= Len(rows) /\ from + Len(data) + 1 \in Nat \ {0}
  BY <1>1
<1>. HIDE DEF from
<1>3. SubSeq(rows, 1, from) \in Seq(T) /\ SubSeq(rows, from + Len(data) + 1, Len(rows)) \in Seq(T)
  BY <1>1, <1>2, SubLists
<1>4. SubSeq(rows, 1, from) \o data \in Seq(T)
  BY <1>3, ConcatProperties
<1>5. SubSeq(rows, 1, from) \o data \o SubSeq(rows, from + Len(data) + 1, Len(rows)) \in Seq(T)
  BY <1>3, <1>4, ConcatProperties
<1>. QED
  BY <1>5 DEF Spliced, from

\* The list without the row at i: the others, which stay.
LEMMA RemovedLists ==
    ASSUME NEW T, NEW rows \in Seq(T), NEW i \in DOMAIN rows
    PROVE  /\ Removed(rows, i) \in Seq(T)
           /\ \A k \in DOMAIN Removed(rows, i) :
                 \E j \in DOMAIN rows : j # i /\ Removed(rows, i)[k] = rows[j]
<1>. DEFINE left == SubSeq(rows, 1, i - 1)
            right == SubSeq(rows, i + 1, Len(rows))
            len == Len(rows)
<1>1. len \in Nat /\ DOMAIN rows = 1 .. len /\ i \in 1 .. len
  BY ListElim
<1>2. /\ \A k \in 1 .. i - 1 : rows[k] \in T
      /\ \A k \in i + 1 .. len : rows[k] \in T
  BY <1>1, ListElim
<1>3. /\ left \in Seq(T) /\ Len(left) = i - 1
      /\ \A k \in 1 .. i - 1 : left[k] = rows[k]
  <2>1. /\ left \in Seq(T)
        /\ Len(left) = IF 1 <= i - 1 THEN i - 1 - 1 + 1 ELSE 0
        /\ \A k \in 1 .. i - 1 - 1 + 1 : left[k] = rows[1 + k - 1]
    BY <1>1, <1>2, SubSeqProperties
  <2>. HIDE DEF left
  <2>2. i - 1 - 1 + 1 = i - 1 /\ (IF 1 <= i - 1 THEN i - 1 - 1 + 1 ELSE 0) = i - 1
    BY <1>1
  <2>3. \A k \in 1 .. i - 1 : 1 + k - 1 = k
    BY <1>1
  <2>. QED
    BY <2>1, <2>2, <2>3
<1>4. /\ right \in Seq(T) /\ Len(right) = len - i
      /\ \A k \in 1 .. len - i : right[k] = rows[i + k]
  <2>1. /\ right \in Seq(T)
        /\ Len(right) = IF i + 1 <= len THEN len - (i + 1) + 1 ELSE 0
        /\ \A k \in 1 .. len - (i + 1) + 1 : right[k] = rows[(i + 1) + k - 1]
    BY <1>1, <1>2, SubSeqProperties
  <2>. HIDE DEF right
  <2>2. len - (i + 1) + 1 = len - i /\ (IF i + 1 <= len THEN len - (i + 1) + 1 ELSE 0) = len - i
    BY <1>1
  <2>3. \A k \in 1 .. len - i : (i + 1) + k - 1 = i + k
    BY <1>1
  <2>. QED
    BY <2>1, <2>2, <2>3
<1>. HIDE DEF left, right
<1>5. /\ left \o right \in Seq(T) /\ Len(left \o right) = (i - 1) + (len - i)
      /\ \A k \in 1 .. (i - 1) + (len - i) :
            (left \o right)[k] = IF k <= i - 1 THEN left[k] ELSE right[k - (i - 1)]
  <2>1. /\ left \o right \in Seq(T) /\ Len(left \o right) = Len(left) + Len(right)
        /\ \A k \in 1 .. Len(left) + Len(right) :
              (left \o right)[k] = IF k <= Len(left) THEN left[k] ELSE right[k - Len(left)]
    BY <1>3, <1>4, ConcatProperties
  <2>2. Len(left) = i - 1 /\ Len(right) = len - i
    BY <1>3, <1>4
  <2>. QED
    BY <2>1, <2>2
<1>6. Removed(rows, i) = left \o right
  BY DEF Removed, left, right
<1>7. DOMAIN (left \o right) = 1 .. (i - 1) + (len - i)
  BY <1>5, ListElim
<1>8. ASSUME NEW k \in 1 .. (i - 1) + (len - i)
      PROVE  \E j \in DOMAIN rows : j # i /\ (left \o right)[k] = rows[j]
  <2>1. CASE k <= i - 1
    <3>1. k \in 1 .. i - 1 /\ k \in 1 .. len /\ k # i
      BY <1>1, <2>1
    <3>2. (left \o right)[k] = rows[k]
      BY <1>3, <1>5, <2>1, <3>1
    <3>. QED
      BY <1>1, <3>1, <3>2
  <2>2. CASE ~(k <= i - 1)
    <3>1. k - (i - 1) \in 1 .. len - i /\ i + (k - (i - 1)) = k + 1 /\ k + 1 \in 1 .. len /\ k + 1 # i
      BY <1>1, <2>2
    <3>2. (left \o right)[k] = right[k - (i - 1)]
      BY <1>5, <2>2
    <3>3. (left \o right)[k] = rows[k + 1]
      BY <1>4, <3>1, <3>2
    <3>. QED
      BY <1>1, <3>1, <3>3
  <2>. QED
    BY <2>1, <2>2
<1>. QED
  BY <1>5, <1>6, <1>7, <1>8

----------------------------------------------------------------------------
(***************************************************************************)
(* What grows and what stays.                                              *)
(***************************************************************************)
LEMMA IdsAreNumbers == Ids \subseteq Nat \ {0} /\ IsFiniteSet(Ids) /\ PageSize \in Nat \ {0}
<1>1. Cardinality(Ids) \in Nat
  BY ListAssumption, FS_CardinalityType
<1>. QED
  BY <1>1, ListAssumption

\* The service forgets nothing.
Remembers(was, now) == \A id \in Ids : was[id] \subseteq now[id]

LEMMA PastGrows ==
    ASSUME NEW was, NEW now, Remembers(was, now)
    PROVE  Past(was) \subseteq Past(now) /\ Told(was) \subseteq Told(now)
  BY DEF Remembers, Past, Told, Row

LEMMA SeqGrows ==
    ASSUME NEW S, NEW T, S \subseteq T, NEW s, s \in Seq(S)
    PROVE  s \in Seq(T)
  BY SeqMonotonic

LEMMA PageGrows ==
    ASSUME NEW was, NEW now, Remembers(was, now), NEW v, PageOK(v, was)
    PROVE  PageOK(v, now)
<1>1. v.rows \in Seq(Past(now))
  BY PastGrows, SeqGrows DEF PageOK
<1>2. v.at \in Berries => SwitchOK(v.switch, now)
  BY DEF PageOK, SwitchOK, Remembers
<1>. QED
  BY <1>1, <1>2 DEF PageOK

LEMMA RequestGrows ==
    ASSUME NEW was, NEW now, Remembers(was, now), NEW at, NEW q, AskOK(at, q, was)
    PROVE  AskOK(at, q, now) /\ (AnswerOK(q, was) => AnswerOK(q, now))
<1>1. q.was \in Seq(Past(now))
  BY PastGrows, SeqGrows DEF AskOK
<1>2. q.req = "list" => ListOK(at, q.arg, now)
  BY DEF AskOK, ListOK, Remembers
<1>3. AskOK(at, q, now)
  BY <1>1, <1>2 DEF AskOK
<1>4. ASSUME AnswerOK(q, was) PROVE AnswerOK(q, now)
  <2>1. q.data \in Seq(Told(now))
    BY <1>4, PastGrows, SeqGrows DEF AnswerOK
  <2>2. q.req \in Changing => q.arg.id \in Ids
    BY DEF AskOK
  <2>3. /\ q.st = "ok" /\ q.req = "delete" => None \in now[q.arg.id]
        /\ q.st = "ok" /\ q.req = "put" => q.arg.st \in now[q.arg.id]
    BY <1>4, <2>2 DEF AnswerOK, Remembers, Changing
  <2>. QED
    BY <1>4, <2>1, <2>3 DEF AnswerOK
<1>. QED
  BY <1>3, <1>4

----------------------------------------------------------------------------
(***************************************************************************)
(* What the handlers may put into the list of the page.                    *)
(***************************************************************************)
TruePast == {row \in Past(server.was) : TrueRow(row)}

\* When nothing is under way, and when the handler that waited for n goes on.
Still == IF Quiet /\ DOMAIN net = {} THEN TruePast ELSE Past(server.was)
Good(n) == IF Quiet /\ net[n].req # "tell" THEN TruePast ELSE Past(server.was)

\* The service has changed what n asked for.
Done(n) == net[n].st = "ok" /\ net[n].req \in {"put", "delete"}

LEMMA GoodIsPast ==
    ASSUME NEW n
    PROVE  /\ TruePast \subseteq Past(server.was) /\ Good(n) \subseteq Past(server.was)
           /\ Still \subseteq Past(server.was)
           /\ \A row \in Past(server.was) : row.id \in Ids /\ row.id \in Int
<1>1. TruePast \subseteq Past(server.was)
  BY DEF TruePast
<1>2. \A row \in Past(server.was) : row.id \in Ids
  BY DEF Past, Row
<1>3. ASSUME NEW row \in Past(server.was) PROVE row.id \in Int
  <2>1. row.id \in Nat
    BY <1>2, IdsAreNumbers
  <2>. QED
    BY <2>1
<1>. QED
  BY <1>1, <1>2, <1>3 DEF Good, Still

LEMMA ListOfTrue ==
    ASSUME NEW s \in Seq(Past(server.was)), TrueRows(s)
    PROVE  s \in Seq(TruePast)
<1>1. /\ Len(s) \in Nat /\ DOMAIN s = 1 .. Len(s) /\ s = [i \in DOMAIN s |-> s[i]]
      /\ \A i \in DOMAIN s : s[i] \in Past(server.was)
  BY ListElim
<1>2. \A i \in 1 .. Len(s) : s[i] \in TruePast
  BY <1>1 DEF TrueRows, TruePast
<1>3. s = [i \in 1 .. Len(s) |-> s[i]]
  BY <1>1
<1>. QED
  BY <1>1, <1>2, <1>3, ListIntro

LEMMA StillRows == ASSUME IInv PROVE view.rows \in Seq(Still)
<1>1. view.rows \in Seq(Past(server.was))
  BY DEF IInv, PageOK
<1>2. CASE Quiet /\ DOMAIN net = {}
  <2>1. TrueRows(view.rows)
    BY <1>2 DEF IInv, QuietOK, TrueRows
  <2>. QED
    BY <1>1, <1>2, <2>1, ListOfTrue DEF Still
<1>. QED
  BY <1>1, <1>2 DEF Still

\* In quiet times every row is true, unless n has changed it.
LEMMA QuietRows ==
    ASSUME IInv, Quiet, NEW n \in DOMAIN net, net[n].req # "tell", NEW i \in DOMAIN view.rows
    PROVE  TrueRow(view.rows[i]) \/ Tells(net[n], view.rows[i].id)
<1>1. \A m \in DOMAIN net : n = m \/ net[m].req = "tell"
  BY DEF IInv, QuietOK
<1>2. TrueRow(view.rows[i]) \/ \E m \in DOMAIN net : Tells(net[m], view.rows[i].id)
  BY DEF IInv, QuietOK
<1>3. \A m \in DOMAIN net : Tells(net[m], view.rows[i].id) => net[m].req # "tell"
  BY DEF Tells
<1>. QED
  BY <1>1, <1>2, <1>3

LEMMA ViewRows ==
    ASSUME IInv, NEW n \in DOMAIN net, ~Done(n)
    PROVE  view.rows \in Seq(Good(n))
<1>1. view.rows \in Seq(Past(server.was))
  BY DEF IInv, PageOK
<1>2. CASE Quiet /\ net[n].req # "tell"
  <2>1. TrueRows(view.rows)
    BY <1>2, QuietRows DEF TrueRows, Tells, Done
  <2>. QED
    BY <1>1, <1>2, <2>1, ListOfTrue DEF Good
<1>. QED
  BY <1>1, <1>2 DEF Good

\* Which closures hold the list of the page in quiet times.
UsesWas(n) == view.at \notin Functional /\ net[n].req \in Changing \cup {"list"}

LEMMA WasRows ==
    ASSUME IInv, NEW n \in DOMAIN net, ~Done(n), UsesWas(n) \/ net[n].req \in {"tell", "purge"} \/ Berry
    PROVE  net[n].was \in Seq(Good(n))
<1>1. net[n].was \in Seq(Past(server.was))
  BY DEF IInv, RequestsOK, AskOK
<1>2. CASE Quiet /\ net[n].req # "tell"
  <2>1. net[n].was = view.rows
    BY <1>2 DEF IInv, QuietOK, UsesWas, Quiet
  <2>. QED
    BY <2>1, ViewRows
<1>. QED
  BY <1>1, <1>2 DEF Good

\* The rows of an answer.
LEMMA DataRows ==
    ASSUME IInv, NEW n \in DOMAIN net
    PROVE  /\ Rows(n) \in Seq(Past(server.was))
           /\ net[n].st = "ok" => Rows(n) \in Seq(Good(n))
           /\ net[n].req \in {"list", "search"} => Distinct(Rows(n))
           /\ DOMAIN Rows(n) = DOMAIN net[n].data
           /\ \A i \in DOMAIN net[n].data :
                 Rows(n)[i] = [id |-> net[n].data[i].id, st |-> net[n].data[i].st, n |-> n, del |-> FALSE]
<1>. DEFINE data == net[n].data
            r == Rows(n)
<1>1. AnswerOK(net[n], server.was) /\ n \in Nat
  BY DEF IInv, RequestsOK, CountOK
<1>2. data \in Seq(Told(server.was)) /\ (net[n].req \in {"list", "search"} => Distinct(data))
  BY <1>1 DEF AnswerOK
<1>3. Len(data) \in Nat /\ DOMAIN data = 1 .. Len(data) /\ \A i \in DOMAIN data : data[i] \in Told(server.was)
  BY <1>2, ListElim
<1>4. /\ r = [i \in 1 .. Len(data) |-> r[i]]
      /\ \A i \in DOMAIN data : r[i] = [id |-> data[i].id, st |-> data[i].st, n |-> n, del |-> FALSE]
  BY <1>3 DEF Rows
<1>. HIDE DEF r
<1>a. ASSUME NEW i \in DOMAIN data
      PROVE  r[i].id = data[i].id /\ r[i].st = data[i].st /\ r[i].n = n /\ ~r[i].del
  <2>1. r[i] = [id |-> data[i].id, st |-> data[i].st, n |-> n, del |-> FALSE]
    BY <1>4
  <2>2. r[i].id = data[i].id /\ r[i].st = data[i].st /\ r[i].n = n
    BY <2>1
  <2>3. ~r[i].del
    BY <2>1
  <2>. QED
    BY <2>2, <2>3
<1>5. ASSUME NEW i \in DOMAIN data PROVE r[i] \in Past(server.was)
  <2>1. data[i].id \in Ids /\ data[i].st \in Statuses /\ data[i].st \in server.was[data[i].id]
    BY <1>3 DEF Told
  <2>2. r[i] = [id |-> data[i].id, st |-> data[i].st, n |-> n, del |-> FALSE] /\ n \in Nat
    BY <1>1, <1>4
  <2>3. r[i] \in Row
    BY <2>1, <2>2 DEF Row
  <2>. QED
    BY <1>a, <2>1, <2>3 DEF Past
<1>6. r \in Seq(Past(server.was)) /\ DOMAIN r = DOMAIN data
  BY <1>3, <1>4, <1>5, ListIntro
<1>7. net[n].req \in {"list", "search"} => Distinct(r)
  BY <1>2, <1>6, <1>a DEF Distinct
<1>8. ASSUME net[n].st = "ok" PROVE r \in Seq(Good(n))
  <2>1. CASE Quiet
    <3>1. \A i \in DOMAIN data : server.rows[data[i].id] = data[i].st
      BY <1>8, <2>1 DEF IInv, QuietOK
    <3>2. TrueRows(r)
      BY <1>a, <1>6, <3>1 DEF TrueRows, TrueRow
    <3>. QED
      BY <1>6, <3>2, ListOfTrue DEF Good
  <2>. QED
    BY <1>6, <2>1 DEF Good
<1>. QED
  BY <1>4, <1>6, <1>7, <1>8 DEF r

\* The least number of a finite set.
LEMMA Least ==
    ASSUME NEW S, S \subseteq Int, IsFiniteSet(S), S # {}
    PROVE  \E x \in S : \A y \in S : x <= y
<1>. DEFINE upTo == [x \in S |-> {y \in S : y >= x}]
<1>1. upTo \in [S -> SUBSET S] /\ (\A x \in S : x \in upTo[x])
  OBVIOUS
<1>2. \A x, z \in S : x # z =>
         \/ upTo[x] \subseteq upTo[z] /\ z \notin upTo[x]
         \/ upTo[z] \subseteq upTo[x] /\ x \notin upTo[z]
  <2>. SUFFICES ASSUME NEW x \in S, NEW z \in S, x < z
                PROVE  upTo[z] \subseteq upTo[x] /\ x \notin upTo[z]
    OBVIOUS
  <2>1. x \in Int /\ z \in Int /\ \A y \in S : y \in Int
    OBVIOUS
  <2>2. (\A y \in S : y >= z => y >= x) /\ ~(x >= z)
    BY <2>1
  <2>. QED
    BY <2>2
<1>3. Cardinality(S) \in Nat /\ Cardinality(S) # 0
  BY FS_CardinalityType, FS_EmptySet
<1>4. PICK x \in S : Cardinality(upTo[x]) = Cardinality(S)
  <2>. HIDE DEF upTo
  <2>1. \A k \in 1 .. Cardinality(S) : \E x \in S : Cardinality(upTo[x]) = k
    BY <1>1, <1>2, SizesRank
  <2>. QED
    BY <1>3, <2>1
<1>5. upTo[x] = S
  BY <1>1, <1>4, FS_Subset
<1>6. \A y \in S : y >= x
  BY <1>5
<1>. QED
  BY <1>6

----------------------------------------------------------------------------
(***************************************************************************)
(* A row is removed or marked by the handler that waited for n.            *)
(***************************************************************************)
LEMMA RequestFacts ==
    ASSUME IInv, NEW n \in DOMAIN net
    PROVE  /\ AskOK(view.at, net[n], server.was) /\ AnswerOK(net[n], server.was) /\ n \in Nat
           /\ net[n].was \in Seq(Past(server.was))
           /\ view.rows \in Seq(Past(server.was))
  BY DEF IInv, RequestsOK, CountOK, AskOK, PageOK

\* The rows of all numbers but the one n is about.
LEMMA OtherRows ==
    ASSUME IInv, NEW n \in DOMAIN net, NEW i \in DOMAIN view.rows,
           net[n].arg.id # view.rows[i].id
    PROVE  view.rows[i] \in Good(n)
<1>1. view.rows[i] \in Past(server.was)
  BY RequestFacts, ListElim
<1>2. ASSUME Quiet, net[n].req # "tell" PROVE TrueRow(view.rows[i])
  BY <1>2, QuietRows DEF Tells
<1>. QED
  BY <1>1, <1>2 DEF Good, TruePast

LEMMA RemovedRows ==
    ASSUME IInv, NEW n \in DOMAIN net, UsesWas(n), NEW i \in DOMAIN net[n].was,
           net[n].was[i].id = net[n].arg.id
    PROVE  Removed(net[n].was, i) \in Seq(Good(n))
<1>. DEFINE was == net[n].was
            r == Removed(was, i)
<1>1. r \in Seq(Past(server.was)) /\ \A k \in DOMAIN r : \E j \in DOMAIN was : j # i /\ r[k] = was[j]
  BY RequestFacts, RemovedLists
<1>2. CASE Quiet /\ net[n].req # "tell"
  <2>1. was = view.rows /\ NoRowTwice
    BY <1>2 DEF IInv, QuietOK, UsesWas
  <2>2. \A j \in DOMAIN was : j # i => was[j] \in Good(n)
    BY <2>1, OtherRows DEF NoRowTwice
  <2>3. \A k \in DOMAIN r : r[k] \in Good(n)
    BY <1>1, <2>2
  <2>. HIDE DEF r
  <2>4. Len(r) \in Nat /\ DOMAIN r = 1 .. Len(r) /\ r = [k \in DOMAIN r |-> r[k]]
    BY <1>1, ListElim
  <2>5. r = [k \in 1 .. Len(r) |-> r[k]]
    BY <2>4
  <2>6. r \in Seq(Good(n))
    BY <2>3, <2>4, <2>5, ListIntro
  <2>. QED
    BY <2>6 DEF r
<1>. QED
  BY <1>1, <1>2 DEF Good

LEMMA RecordRemoved ==
    ASSUME IInv, NEW n \in DOMAIN net, UsesWas(n), net[n].fn \in Indexed
    PROVE  RemoveRecord(net[n].was, net[n].arg.id) \in Seq(Good(n))
<1>. DEFINE was == net[n].was
            at == {i \in DOMAIN was : was[i].id = net[n].arg.id}
            first == CHOOSE i \in at : \A j \in at : i <= j
<1>1. net[n].arg.idx \in at
  BY RequestFacts DEF AskOK, IndexOK
<1>2. Len(was) \in Nat /\ DOMAIN was = 1 .. Len(was)
  BY RequestFacts, ListElim
<1>3. IsFiniteSet(1 .. Len(was))
  BY <1>2, FS_Interval
<1>4. IsFiniteSet(at)
  BY <1>2, <1>3, FS_Subset
<1>5. at \subseteq Int
  BY <1>2
<1>6. \E i \in at : \A j \in at : i <= j
  BY <1>1, <1>4, <1>5, Least
<1>7. first \in at
  BY <1>6
<1>8. RemoveRecord(was, net[n].arg.id) = Removed(was, first)
  BY <1>1 DEF RemoveRecord
<1>. HIDE DEF first
<1>9. first \in DOMAIN was /\ was[first].id = net[n].arg.id
  BY <1>7
<1>. QED
  BY <1>8, <1>9, RemovedRows

\* What may be written into the fields of o.
MarkOK(o, st, del) ==
    /\ st \in Statuses /\ st \in server.was[o.id]
    /\ del \in BOOLEAN /\ (del => None \in server.was[o.id])

LEMMA MarkedPast ==
    ASSUME NEW rows \in Seq(Past(server.was)), NEW o, NEW st, NEW del, MarkOK(o, st, del)
    PROVE  /\ Marked(rows, o, st, del) \in Seq(Past(server.was))
           /\ DOMAIN Marked(rows, o, st, del) = DOMAIN rows
           /\ \A i \in DOMAIN rows : Marked(rows, o, st, del)[i].id = rows[i].id
<1>. DEFINE m == Marked(rows, o, st, del)
<1>1. Len(rows) \in Nat /\ DOMAIN rows = 1 .. Len(rows) /\ \A i \in DOMAIN rows : rows[i] \in Past(server.was)
  BY ListElim
<1>2. /\ m = [i \in 1 .. Len(rows) |-> m[i]]
      /\ \A i \in DOMAIN rows :
            m[i] = IF rows[i].id = o.id /\ rows[i].n = o.n THEN [rows[i] EXCEPT !.st = st, !.del = del] ELSE rows[i]
  BY <1>1 DEF Marked
<1>. HIDE DEF m
<1>3. ASSUME NEW i \in DOMAIN rows PROVE m[i] \in Past(server.was) /\ m[i].id = rows[i].id
  <2>1. rows[i] \in Row /\ rows[i] \in Past(server.was)
    BY <1>1 DEF Past
  <2>2. CASE rows[i].id = o.id /\ rows[i].n = o.n
    <3>1. m[i] = [rows[i] EXCEPT !.st = st, !.del = del]
      BY <1>2, <2>2
    <3>2. m[i] \in Row
      BY <2>1, <3>1 DEF Row, MarkOK
    <3>3. m[i].id = rows[i].id /\ m[i].st = st
      BY <2>1, <3>1 DEF Row
    <3>4. m[i].del = del
      BY <2>1, <3>1 DEF Row
    <3>. QED
      BY <2>2, <3>2, <3>3, <3>4 DEF Past, MarkOK
  <2>. QED
    BY <1>2, <2>1, <2>2
<1>4. m \in Seq(Past(server.was)) /\ DOMAIN m = DOMAIN rows
  BY <1>1, <1>2, <1>3, ListIntro
<1>. QED
  BY <1>3, <1>4 DEF m

\* The row that n is about, in the list of its closure.
Marks(n, st, del) ==
    /\ MarkOK(net[n].was[net[n].arg.idx], st, del)
    /\ Quiet => del \/ server.rows[net[n].arg.id] = st

LEMMA MarkedRows ==
    ASSUME IInv, NEW n \in DOMAIN net, UsesWas(n), net[n].fn \in Indexed, NEW st, NEW del, Marks(n, st, del)
    PROVE  Marked(net[n].was, net[n].was[net[n].arg.idx], st, del) \in Seq(Good(n))
<1>. DEFINE was == net[n].was
            o == was[net[n].arg.idx]
            m == Marked(was, o, st, del)
<1>1. /\ m \in Seq(Past(server.was)) /\ DOMAIN m = DOMAIN was
      /\ was \in Seq(Past(server.was)) /\ net[n].arg.idx \in DOMAIN was /\ o.id = net[n].arg.id
  <2>1. /\ was \in Seq(Past(server.was))
        /\ net[n].arg.idx \in DOMAIN was /\ o.id = net[n].arg.id
    BY RequestFacts DEF AskOK, IndexOK
  <2>2. MarkOK(o, st, del)
    BY DEF Marks
  <2>. QED
    BY <2>1, <2>2, MarkedPast
<1>2. CASE Quiet /\ net[n].req # "tell"
  <2>1. was = view.rows /\ NoRowTwice
    BY <1>2 DEF IInv, QuietOK, UsesWas
  <2>2. \A i \in DOMAIN was : m[i] = IF was[i].id = o.id /\ was[i].n = o.n
                                   THEN [was[i] EXCEPT !.st = st, !.del = del] ELSE was[i]
    BY DEF Marked
  <2>3. \A i \in DOMAIN was : was[i] \in Row
    BY <1>1, ListElim DEF Past
  <2>. HIDE DEF m
  <2>4. ASSUME NEW i \in DOMAIN was PROVE TrueRow(m[i])
    <3>1. CASE i = net[n].arg.idx
      <4>1. m[i] = [was[i] EXCEPT !.st = st, !.del = del]
        BY <2>2, <3>1
      <4>2. m[i].id = net[n].arg.id /\ m[i].st = st
        BY <1>1, <2>3, <3>1, <4>1 DEF Row
      <4>3. m[i].del = del
        BY <2>3, <4>1 DEF Row
      <4>. QED
        BY <1>2, <4>2, <4>3 DEF Marks, TrueRow
    <3>2. CASE i # net[n].arg.idx
      <4>1. was[i].id # net[n].arg.id
        BY <1>1, <2>1, <3>2 DEF NoRowTwice
      <4>2. was[i] \in Good(n) /\ m[i] = was[i]
        BY <1>1, <2>1, <2>2, <4>1, OtherRows
      <4>. QED
        BY <1>2, <4>2 DEF Good, TruePast
    <3>. QED
      BY <3>1, <3>2
  <2>5. TrueRows(m)
    BY <1>1, <2>4 DEF TrueRows
  <2>6. m \in Seq(Good(n))
    BY <1>1, <1>2, <2>5, ListOfTrue DEF Good
  <2>. QED
    BY <2>6 DEF m
<1>. QED
  BY <1>1, <1>2 DEF Good

\* What the handlers write: the status of the answer, or that the row was deleted.
LEMMA AnswerMarks ==
    ASSUME IInv, NEW n \in DOMAIN net, net[n].fn \in Indexed, net[n].st = "ok"
    PROVE  LET o == net[n].was[net[n].arg.idx] IN
           /\ o \in Past(server.was)
           /\ net[n].req # "delete" => Marks(n, net[n].data[1].st, FALSE) /\ Marks(n, net[n].data[1].st, o.del)
           /\ net[n].req = "delete" => Marks(n, o.st, TRUE)
<1>. DEFINE o == net[n].was[net[n].arg.idx]
<1>1. o \in Past(server.was) /\ o.id = net[n].arg.id
  BY RequestFacts, ListElim DEF AskOK, IndexOK
<1>2. o \in Row /\ o.st \in server.was[o.id] /\ (o.del => None \in server.was[o.id])
  BY <1>1 DEF Past
<1>3. o.del \in BOOLEAN /\ o.st \in Statuses
  BY <1>2 DEF Row
<1>4. net[n].req \in Changing
  BY RequestFacts DEF AskOK, ForOK
<1>. HIDE DEF o
<1>5. ASSUME net[n].req = "delete" PROVE Marks(n, o.st, TRUE)
  <2>1. None \in server.was[o.id]
    BY <1>1, <1>5, RequestFacts DEF AnswerOK
  <2>. QED
    BY <1>2, <1>3, <2>1 DEF Marks, MarkOK, o
<1>6. ASSUME net[n].req # "delete" PROVE Marks(n, net[n].data[1].st, FALSE) /\ Marks(n, net[n].data[1].st, o.del)
  <2>1. net[n].req \in {"put", "touch"}
    BY <1>4, <1>6 DEF Changing
  <2>2. /\ net[n].data \in Seq(Told(server.was))
        /\ Len(net[n].data) = 1 /\ net[n].data[1].id = o.id
    BY <1>1, <2>1, RequestFacts DEF AnswerOK
  <2>3. 1 \in DOMAIN net[n].data
    BY <2>2, ListElim
  <2>4. net[n].data[1].st \in Statuses /\ net[n].data[1].st \in server.was[o.id]
    BY <2>2, <2>3, ListElim DEF Told
  <2>5. Quiet => server.rows[net[n].arg.id] = net[n].data[1].st
    BY <1>1, <2>2, <2>3 DEF IInv, QuietOK
  <2>. QED
    BY <1>2, <1>3, <2>4, <2>5 DEF Marks, MarkOK, o
<1>. QED
  BY <1>1, <1>5, <1>6 DEF o

\* A list of as many rows, each of a set T.
LEMMA MappedList ==
    ASSUME NEW T, NEW S, NEW rows \in Seq(S), NEW s, s = [i \in DOMAIN rows |-> s[i]],
           \A i \in DOMAIN rows : s[i] \in T
    PROVE  s \in Seq(T) /\ DOMAIN s = DOMAIN rows
<1>1. Len(rows) \in Nat /\ DOMAIN rows = 1 .. Len(rows)
  BY ListElim
<1>2. s = [i \in 1 .. Len(rows) |-> s[i]] /\ \A i \in 1 .. Len(rows) : s[i] \in T
  BY <1>1
<1>. QED
  BY <1>1, <1>2, ListIntro

\* The row that n is about, as an answer changes it in a list without a closure.
LEMMA AnsweredRow ==
    ASSUME IInv, NEW n \in DOMAIN net, net[n].fn \in Numbered, net[n].st = "ok",
           NEW i \in DOMAIN view.rows, view.rows[i].id = net[n].arg.id
    PROVE  /\ net[n].req = "delete" =>
                 /\ [view.rows[i] EXCEPT !.del = TRUE] \in Good(n)
                 /\ [view.rows[i] EXCEPT !.del = TRUE].id = view.rows[i].id
           /\ net[n].req # "delete" =>
                 /\ [view.rows[i] EXCEPT !.st = net[n].data[1].st] \in Good(n)
                 /\ [view.rows[i] EXCEPT !.st = net[n].data[1].st].id = view.rows[i].id
                 /\ Rows(n)[1] \in Good(n)
<1>. DEFINE row == view.rows[i]
<1>1. row \in Past(server.was) /\ row \in Row /\ row.id = net[n].arg.id
  <2>1. row \in Past(server.was)
    BY RequestFacts, ListElim
  <2>. QED
    BY <2>1 DEF Past
<1>2. net[n].req \in Changing /\ AnswerOK(net[n], server.was)
  BY RequestFacts DEF AskOK, ForOK
<1>. HIDE DEF row
<1>3. ASSUME net[n].req = "delete"
      PROVE  [row EXCEPT !.del = TRUE] \in Good(n) /\ [row EXCEPT !.del = TRUE].id = row.id
  <2>. DEFINE new == [row EXCEPT !.del = TRUE]
  <2>1. new \in Row /\ new.id = row.id /\ new.st = row.st
    BY <1>1 DEF Row
  <2>2. new.del
    BY <1>1 DEF Row
  <2>3. None \in server.was[row.id] /\ row.st \in server.was[row.id]
    BY <1>1, <1>2, <1>3 DEF AnswerOK, Past
  <2>. HIDE DEF new
  <2>4. new \in Past(server.was) /\ TrueRow(new)
    BY <2>1, <2>2, <2>3 DEF Past, TrueRow
  <2>5. new \in Good(n)
    BY <2>4 DEF Good, TruePast
  <2>. QED
    BY <2>1, <2>5 DEF new
<1>4. ASSUME net[n].req # "delete"
      PROVE  /\ [row EXCEPT !.st = net[n].data[1].st] \in Good(n)
             /\ [row EXCEPT !.st = net[n].data[1].st].id = row.id
             /\ Rows(n)[1] \in Good(n)
  <2>. DEFINE st == net[n].data[1].st
              new == [row EXCEPT !.st = st]
  <2>1. net[n].req \in {"put", "touch"}
    BY <1>2, <1>4 DEF Changing
  <2>2. /\ net[n].data \in Seq(Told(server.was))
        /\ Len(net[n].data) = 1 /\ net[n].data[1].id = row.id
    BY <1>1, <1>2, <2>1 DEF AnswerOK
  <2>3. 1 \in DOMAIN net[n].data
    BY <2>2, ListElim
  <2>4. st \in Statuses /\ st \in server.was[row.id]
    BY <2>2, <2>3, ListElim DEF Told
  <2>5. Quiet => server.rows[row.id] = st
    BY <2>2, <2>3 DEF IInv, QuietOK
  <2>. HIDE DEF st
  <2>6. new \in Row /\ new.id = row.id /\ new.st = st
    BY <1>1, <2>4 DEF Row
  <2>7. new.del = row.del
    BY <1>1 DEF Row
  <2>8. row.del => None \in server.was[row.id]
    BY <1>1 DEF Past
  <2>. HIDE DEF new
  <2>9. new \in Past(server.was) /\ (Quiet => TrueRow(new))
    BY <2>4, <2>5, <2>6, <2>7, <2>8 DEF Past, TrueRow
  <2>10. new \in Good(n)
    BY <2>9 DEF Good, TruePast
  <2>11. Rows(n)[1] \in Good(n)
    <3>1. Rows(n) \in Seq(Good(n)) /\ DOMAIN Rows(n) = DOMAIN net[n].data
      BY DataRows
    <3>. QED
      BY <2>3, <3>1, ListElim
  <2>. QED
    BY <2>6, <2>10, <2>11 DEF new, st
<1>. QED
  BY <1>3, <1>4 DEF row

----------------------------------------------------------------------------
(***************************************************************************)
(* Steps of the page, which leave the service alone.  v is what the page   *)
(* becomes.                                                                *)
(***************************************************************************)
Histories == [alone : BOOLEAN, lost : BOOLEAN, faults : Nat]
Moved == tidy' = (tidy /\ Tidy')

Fresh(e) == \A m \in DOMAIN net : net[m].arg.era # e

Proper(v) ==
    /\ v.at = view.at
    /\ PageOK(v, server.was)
    /\ v.at \in Pushing => (v.era = view.era /\ v.rows = view.rows) \/ Fresh(v.era)

\* The request q can be under way while the page is v.
NewOK(v, q) ==
    /\ AskOK(v.at, q, server.was) /\ q.st = "sent" /\ q.data = <<>>
    /\ v.at \in Pushing /\ q.req # "search" => q.arg.era = v.era /\ q.was = v.rows
    /\ Quiet /\ v.at \notin Functional /\ q.req \in Changing \cup {"list"} => q.was = v.rows

\* Nobody is alone again.
Calm ==
    /\ history' \in Histories
    /\ history'.alone => history.alone
    /\ history'.faults = history.faults

LEMMA StaysQuiet ==
    ASSUME IInv, Calm, Moved, view'.at = view.at, UNCHANGED server
    PROVE  /\ Quiet' => Quiet /\ NoRowTwice' /\ (\A n \in DOMAIN net' : net'[n].req # "purge")
           /\ \A row : TrueRow(row)' <=> TrueRow(row)
           /\ tidy' \in BOOLEAN /\ ServerOK'
<1>1. Berry' = Berry
  BY DEF Berry
<1>2. tidy' => tidy /\ NoRowTwice' /\ (\A n \in DOMAIN net' : net'[n].req # "purge")
  BY DEF Moved, Tidy
<1>3. tidy' \in BOOLEAN
  BY DEF IInv, CountOK, Moved
<1>4. ServerOK'
  BY DEF IInv, ServerOK
<1>5. \A row : TrueRow(row)' <=> TrueRow(row)
  BY DEF TrueRow
<1>. QED
  BY <1>1, <1>2, <1>3, <1>4, <1>5 DEF Quiet, Calm

\* The requests of kept stay, those of new are new.
Turns(v, kept, new) ==
    /\ view' = v /\ UNCHANGED server /\ Calm /\ Moved
    /\ kept \subseteq DOMAIN net /\ DOMAIN net' = kept \cup new /\ kept \cap new = {}
    /\ \A m \in new : NewOK(v, net'[m])
    /\ CountOK'

\* In quiet times: either all that is shown is true and nothing else is under way that
\* matters, or nothing happened that matters.
Settles(v, kept, new) ==
    Quiet /\ Quiet' =>
        \/ /\ v.rows \in Seq(TruePast)
           /\ \A m \in kept : net[m].req = "tell"
           /\ \A m, l \in new : m = l
        \/ /\ v.rows = view.rows /\ new = {}
           /\ \A m \in DOMAIN net : m \in kept \/ net[m].req = "tell"

LEMMA QuietKept ==
    ASSUME IInv, NEW v, NEW kept, NEW new, Turns(v, kept, new), Settles(v, kept, new), v.at = view.at,
           \A m \in kept : /\ net'[m].req = net[m].req /\ net'[m].arg = net[m].arg
                           /\ net'[m].st = net[m].st /\ net'[m].data = net[m].data
                           /\ net'[m].was = net[m].was \/ net[m].req = "tell" \/ ~Quiet
    PROVE  QuietOK'
<1>. SUFFICES ASSUME Quiet' PROVE QuietOK'
  BY DEF QuietOK
<1>1. /\ Quiet /\ NoRowTwice' /\ (\A n \in DOMAIN net' : net'[n].req # "purge")
      /\ \A row : TrueRow(row)' <=> TrueRow(row)
  BY StaysQuiet DEF Turns
<1>2. view' = v /\ server' = server /\ kept \subseteq DOMAIN net /\ DOMAIN net' = kept \cup new
  BY DEF Turns
<1>3. ASSUME NEW m \in new
      PROVE  /\ net'[m].st = "sent"
             /\ view'.at \notin Functional /\ net'[m].req \in Changing \cup {"list"} => net'[m].was = view'.rows
  BY <1>1, <1>2, <1>3 DEF Turns, NewOK
<1>4. CASE /\ v.rows \in Seq(TruePast)
           /\ \A m \in kept : net[m].req = "tell"
           /\ \A m, l \in new : m = l
  <2>1. \A m \in kept : net'[m].req = "tell" /\ net'[m].st # "failed"
    BY <1>1, <1>2, <1>4 DEF IInv, QuietOK
  <2>2. \A n \in DOMAIN net' : net'[n].st # "failed"
    BY <1>2, <1>3, <2>1
  <2>3. \A n, m \in DOMAIN net' : n = m \/ net'[n].req = "tell" \/ net'[m].req = "tell"
    BY <1>2, <1>4, <2>1
  <2>4. \A n \in DOMAIN net' :
           view'.at \notin Functional /\ net'[n].req \in Changing \cup {"list"} => net'[n].was = view'.rows
    BY <1>2, <1>3, <2>1 DEF Changing
  <2>5. \A n \in DOMAIN net' : net'[n].st = "ok" =>
           /\ \A i \in DOMAIN net'[n].data : server'.rows[net'[n].data[i].id] = net'[n].data[i].st
           /\ net'[n].req = "delete" => server'.rows[net'[n].arg.id] = None
    <3>. SUFFICES ASSUME NEW n \in kept, net'[n].st = "ok"
                  PROVE  /\ \A i \in DOMAIN net'[n].data : server'.rows[net'[n].data[i].id] = net'[n].data[i].st
                         /\ net'[n].req = "delete" => server'.rows[net'[n].arg.id] = None
      BY <1>2, <1>3
    <3>1. net[n].st = "ok" /\ net'[n].data = net[n].data /\ net'[n].req = "tell"
      BY <2>1
    <3>2. \A i \in DOMAIN net[n].data : server.rows[net[n].data[i].id] = net[n].data[i].st
      BY <1>1, <1>2, <3>1 DEF IInv, QuietOK
    <3>. QED
      BY <1>2, <3>1, <3>2
  <2>6. \A i \in DOMAIN v.rows : TrueRow(v.rows[i])
    BY <1>4, ListElim DEF TruePast
  <2>7. (\A i \in DOMAIN view.rows : TrueRow(view.rows[i]))'
    BY <1>2, <2>6 DEF TrueRow
  <2>. QED
    BY <1>1, <2>2, <2>3, <2>4, <2>5, <2>7 DEF QuietOK
<1>5. CASE /\ v.rows = view.rows /\ new = {}
           /\ \A m \in DOMAIN net : m \in kept \/ net[m].req = "tell"
  <2>1. \A n \in DOMAIN net' : n \in DOMAIN net /\ n \in kept
    BY <1>2, <1>5
  <2>2. \A n \in DOMAIN net' : net'[n].st # "failed"
    BY <1>1, <2>1 DEF IInv, QuietOK
  <2>3. \A n, m \in DOMAIN net' : n = m \/ net'[n].req = "tell" \/ net'[m].req = "tell"
    BY <1>1, <2>1 DEF IInv, QuietOK
  <2>4. \A n \in DOMAIN net' :
           view'.at \notin Functional /\ net'[n].req \in Changing \cup {"list"} => net'[n].was = view'.rows
    BY <1>1, <1>2, <1>5, <2>1 DEF IInv, QuietOK, Changing
  <2>5. \A n \in DOMAIN net' : net'[n].st = "ok" =>
           /\ \A i \in DOMAIN net'[n].data : server'.rows[net'[n].data[i].id] = net'[n].data[i].st
           /\ net'[n].req = "delete" => server'.rows[net'[n].arg.id] = None
    BY <1>1, <1>2, <2>1 DEF IInv, QuietOK
  <2>6. \A i \in DOMAIN view.rows :
            TrueRow(view.rows[i]) \/ \E n \in DOMAIN net' : Tells(net'[n], view.rows[i].id)
    <3>. TAKE i \in DOMAIN view.rows
    <3>1. TrueRow(view.rows[i]) \/ \E n \in DOMAIN net : Tells(net[n], view.rows[i].id)
      BY <1>1 DEF IInv, QuietOK
    <3>2. \A n \in DOMAIN net : Tells(net[n], view.rows[i].id) => n \in DOMAIN net' /\ Tells(net'[n], view.rows[i].id)
      BY <1>2, <1>5 DEF Tells
    <3>. QED
      BY <3>1, <3>2
  <2>7. (\A i \in DOMAIN view.rows :
            TrueRow(view.rows[i]) \/ \E n \in DOMAIN net : Tells(net[n], view.rows[i].id))'
    BY <1>2, <1>5, <2>6 DEF TrueRow, Tells
  <2>. QED
    BY <1>1, <2>2, <2>3, <2>4, <2>5, <2>7 DEF QuietOK
<1>. QED
  BY <1>1, <1>4, <1>5 DEF Settles

LEMMA RequestsKept ==
    ASSUME IInv, NEW v, v.at = view.at, view' = v, Remembers(server.was, server'.was),
           NEW kept, NEW new, kept \subseteq DOMAIN net, DOMAIN net' = kept \cup new,
           \A m \in kept : net'[m] = net[m], \A m \in new : NewOK(v, net'[m])
    PROVE  RequestsOK'
<1>1. ASSUME NEW m \in kept
      PROVE  AskOK(view'.at, net'[m], server'.was) /\ AnswerOK(net'[m], server'.was)
  BY RequestFacts, RequestGrows
<1>2. ASSUME NEW m \in new
      PROVE  AskOK(view'.at, net'[m], server'.was) /\ AnswerOK(net'[m], server'.was)
  <2>1. AskOK(view.at, net'[m], server.was) /\ net'[m].st = "sent" /\ net'[m].data = <<>>
    BY <1>2 DEF NewOK
  <2>2. <<>> \in Seq(Told(server.was)) /\ Distinct(<<>>)
    BY EmptySeq DEF Distinct
  <2>3. AnswerOK(net'[m], server.was)
    BY <2>1, <2>2 DEF AnswerOK
  <2>. QED
    BY <2>1, <2>3, RequestGrows
<1>3. \A m \in DOMAIN net' : AskOK(view'.at, net'[m], server'.was) /\ AnswerOK(net'[m], server'.was)
  BY <1>1, <1>2
<1>. QED
  BY <1>3 DEF RequestsOK, AskOK, AnswerOK, ListOK, ForOK, PurgeOK, IndexOK, Past, Told, Row, Distinct

LEMMA EraKept ==
    ASSUME IInv, NEW v, Proper(v), view' = v,
           NEW kept, NEW new, kept \subseteq DOMAIN net, DOMAIN net' = kept \cup new,
           \A m \in kept : net'[m] = net[m], \A m \in new : NewOK(v, net'[m])
    PROVE  EraOK'
<1>. SUFFICES ASSUME view.at \in Pushing
              PROVE  \A n \in DOMAIN net' :
                        /\ net'[n].req # "search" /\ net'[n].arg.era = v.era => net'[n].was = v.rows
                        /\ net'[n].req # "search" =>
                              \A m \in DOMAIN net' :
                                 net'[m].req # "search" /\ net'[m].arg.era = net'[n].arg.era => net'[m].was = net'[n].was
  BY DEF EraOK, Holds, Proper
<1>1. \A m \in new : net'[m].req # "search" => net'[m].arg.era = v.era /\ net'[m].was = v.rows
  BY DEF NewOK, Proper
<1>2. \A m, n \in kept :
         net[m].req # "search" /\ net[n].req # "search" /\ net[m].arg.era = net[n].arg.era => net[m].was = net[n].was
  BY DEF IInv, EraOK, Holds
<1>3. \A m \in kept : net[m].req # "search" /\ net[m].arg.era = v.era => net[m].was = v.rows
  <2>1. CASE v.era = view.era /\ v.rows = view.rows
    BY <2>1 DEF IInv, EraOK, Holds
  <2>2. CASE Fresh(v.era)
    BY <2>2 DEF Fresh
  <2>. QED
    BY <2>1, <2>2 DEF Proper
<1>. QED
  BY <1>1, <1>2, <1>3

LEMMA PageStep ==
    ASSUME IInv, NEW v, Proper(v), NEW kept, NEW new, Turns(v, kept, new), Settles(v, kept, new),
           \A m \in kept : net'[m] = net[m]
    PROVE  IInv'
<1>1. PageOK(view, server.was)'
  BY DEF Turns, Proper, PageOK, SwitchOK, Past, Row, Distinct
<1>2. RequestsOK' /\ EraOK'
  BY RequestsKept, EraKept DEF Turns, Proper, Remembers
<1>3. ServerOK'
  BY DEF IInv, ServerOK, Turns
<1>4. QuietOK'
  BY QuietKept DEF Proper
<1>. QED
  BY <1>1, <1>2, <1>3, <1>4 DEF IInv, Turns

----------------------------------------------------------------------------
(***************************************************************************)
(* The numbers of the requests.                                            *)
(***************************************************************************)
LEMMA Counts ==
    ASSUME IInv, Moved
    PROVE  /\ calls \in Nat /\ history \in Histories /\ tidy' \in BOOLEAN
           /\ IsFiniteSet(DOMAIN net) /\ Cardinality(DOMAIN net) \in Nat
           /\ DOMAIN net \subseteq 1 .. calls /\ calls + 1 \notin DOMAIN net /\ calls + 2 \notin DOMAIN net
           /\ Cardinality(DOMAIN net) <= calls /\ MaxEvents \in Nat \ {0}
           /\ Cardinality(DOMAIN net) <= MaxEvents + 1
<1>1. /\ calls \in Nat /\ history \in Histories /\ tidy \in BOOLEAN /\ DOMAIN net \subseteq 1 .. calls
      /\ Cardinality(DOMAIN net) <= MaxEvents + 1
  BY DEF IInv, CountOK, Histories
<1>2. IsFiniteSet(1 .. calls)
  BY <1>1, FS_Interval
<1>3. Cardinality(1 .. calls) = calls
  <2>1. Cardinality(1 .. calls) = IF 1 > calls THEN 0 ELSE calls - 1 + 1
    BY <1>1, FS_Interval
  <2>. QED
    BY <1>1, <2>1
<1>4. IsFiniteSet(DOMAIN net) /\ Cardinality(DOMAIN net) <= calls
  BY <1>1, <1>2, <1>3, FS_Subset
<1>5. Cardinality(DOMAIN net) \in Nat
  BY <1>4, FS_CardinalityType
<1>6. tidy' \in BOOLEAN
  BY <1>1 DEF Moved
<1>. QED
  BY <1>1, <1>4, <1>5, <1>6, BrowserAssumption

\* No request is sent.
LEMMA CountEnds ==
    ASSUME IInv, Moved, history' \in Histories, UNCHANGED calls, DOMAIN net' \subseteq DOMAIN net
    PROVE  CountOK'
<1>1. Cardinality(DOMAIN net') <= Cardinality(DOMAIN net) /\ Cardinality(DOMAIN net') \in Nat
  BY Counts, FS_Subset, FS_CardinalityType
<1>2. Cardinality(DOMAIN net') <= MaxEvents + 1
  BY <1>1, Counts
<1>. QED
  BY <1>2, Counts DEF CountOK, Histories

\* One is sent within the bound, or in the place of another.
LEMMA CountSends ==
    ASSUME IInv, Moved, history' \in Histories, calls' = calls + 1,
           \/ calls + history.faults < MaxEvents /\ DOMAIN net' = DOMAIN net \cup {calls + 1}
           \/ \E n \in DOMAIN net : DOMAIN net' = (DOMAIN net \ {n}) \cup {calls + 1}
    PROVE  CountOK'
<1>1. Cardinality(DOMAIN net') <= MaxEvents + 1
  <2>1. CASE calls + history.faults < MaxEvents /\ DOMAIN net' = DOMAIN net \cup {calls + 1}
    <3>1. Cardinality(DOMAIN net') = Cardinality(DOMAIN net) + 1
      BY <2>1, Counts, FS_AddElement
    <3>2. history.faults \in Nat
      BY Counts DEF Histories
    <3>. QED
      BY <2>1, <3>1, <3>2, Counts
  <2>2. CASE \E n \in DOMAIN net : DOMAIN net' = (DOMAIN net \ {n}) \cup {calls + 1}
    <3>1. PICK n \in DOMAIN net : DOMAIN net' = (DOMAIN net \ {n}) \cup {calls + 1}
      BY <2>2
    <3>2. IsFiniteSet(DOMAIN net \ {n}) /\ Cardinality(DOMAIN net \ {n}) = Cardinality(DOMAIN net) - 1
      BY Counts, FS_RemoveElement
    <3>3. calls + 1 \notin DOMAIN net \ {n}
      BY Counts
    <3>4. Cardinality(DOMAIN net') = Cardinality(DOMAIN net) - 1 + 1
      BY <3>1, <3>2, <3>3, FS_AddElement
    <3>. QED
      BY <3>4, Counts
  <2>. QED
    BY <2>1, <2>2
<1>2. DOMAIN net' \subseteq 1 .. calls + 1
  <2>1. DOMAIN net' \subseteq DOMAIN net \cup {calls + 1}
    OBVIOUS
  <2>. QED
    BY <2>1, Counts
<1>3. calls' \in Nat /\ tidy' \in BOOLEAN
  BY Counts
<1>. QED
  BY <1>1, <1>2, <1>3 DEF CountOK, Histories

LEMMA CountSendsBoth ==
    ASSUME IInv, Moved, history' \in Histories, calls' = calls + 2, calls + history.faults < MaxEvents,
           DOMAIN net' = DOMAIN net \cup {calls + 1} \cup {calls + 2}
    PROVE  CountOK'
<1>1. IsFiniteSet(DOMAIN net \cup {calls + 1}) /\ Cardinality(DOMAIN net \cup {calls + 1}) = Cardinality(DOMAIN net) + 1
  BY Counts, FS_AddElement
<1>2. calls + 2 \notin DOMAIN net \cup {calls + 1}
  BY Counts
<1>3. Cardinality(DOMAIN net') = Cardinality(DOMAIN net) + 1 + 1
  BY <1>1, <1>2, FS_AddElement
<1>4. history.faults \in Nat
  BY Counts DEF Histories
<1>5. Cardinality(DOMAIN net') <= MaxEvents + 1
  BY <1>3, <1>4, Counts
<1>6. DOMAIN net' \subseteq 1 .. calls + 2
  BY Counts
<1>7. calls' \in Nat /\ tidy' \in BOOLEAN
  BY Counts
<1>. QED
  BY <1>5, <1>6, <1>7 DEF CountOK, Histories

----------------------------------------------------------------------------
(***************************************************************************)
(* The kinds of steps of a page.                                           *)
(***************************************************************************)
LEMMA ProperView == ASSUME IInv PROVE Proper(view)
  BY DEF IInv, Proper

\* Nobody was alone, or nothing was under way.
LEMMA AloneCalm ==
    ASSUME history \in Histories, Alone
    PROVE  Calm /\ (history'.alone => DOMAIN net = {}) /\ history' \in Histories
<1>1. history' = [history EXCEPT !.alone = @ /\ net = <<>>]
  BY DEF Alone
<1>2. history' \in Histories /\ history'.faults = history.faults
  BY <1>1 DEF Histories
<1>3. history'.alone <=> history.alone /\ net = <<>>
  BY <1>1 DEF Histories
<1>4. net = <<>> => DOMAIN net = {}
  OBVIOUS
<1>. QED
  BY <1>2, <1>3, <1>4 DEF Calm

\* A handler that only changes the page.
LEMMA ShowsKeep ==
    ASSUME IInv, Moved, NEW v, Proper(v), v.rows \in Seq(Still), Shows(v)
    PROVE  IInv'
<1>1. view' = v /\ Alone /\ UNCHANGED <<net, server, calls>>
  BY DEF Shows
<1>2. history \in Histories
  BY Counts
<1>3. Calm /\ (history'.alone => DOMAIN net = {})
  BY <1>1, <1>2, AloneCalm
<1>4. CountOK'
  BY <1>1, <1>3, CountEnds DEF Calm
<1>5. Turns(v, DOMAIN net, {})
  BY <1>1, <1>3, <1>4 DEF Turns
<1>6. Settles(v, DOMAIN net, {})
  <2>. SUFFICES ASSUME Quiet, Quiet' PROVE v.rows \in Seq(TruePast) /\ DOMAIN net = {}
    BY DEF Settles
  <2>1. DOMAIN net = {}
    BY <1>3 DEF Quiet
  <2>. QED
    BY <2>1 DEF Still
<1>. QED
  BY <1>1, <1>5, <1>6, PageStep

LEMMA RequestFields ==
    ASSUME NEW fn, NEW req, NEW arg, NEW was
    PROVE  LET q == Request(fn, req, arg, was) IN
           /\ q.fn = fn /\ q.req = req /\ q.arg = arg /\ q.was = was /\ q.st = "sent" /\ q.data = <<>>
           /\ DOMAIN q = {"fn", "req", "arg", "was", "st", "data"}
  BY DEF Request

\* A handler that waits for the answer to a request.
LEMMA SendsKeep ==
    ASSUME IInv, Moved, NEW v, Proper(v), v.rows = view.rows, NEW fn, NEW req, NEW arg, NEW was,
           NewOK(v, Request(fn, req, arg, was)), SendsWith(v, fn, req, arg, was)
    PROVE  IInv'
<1>. DEFINE q == Request(fn, req, arg, was)
<1>1. /\ view' = v /\ Alone /\ UNCHANGED server
      /\ calls' = calls + 1 /\ net' = Joined(net, calls + 1, q) /\ calls + history.faults < MaxEvents
  BY DEF SendsWith
<1>2. history \in Histories /\ calls + 1 \notin DOMAIN net
  BY Counts
<1>3. Calm /\ (history'.alone => DOMAIN net = {})
  BY <1>1, <1>2, AloneCalm
<1>. HIDE DEF q
<1>4. DOMAIN net' = DOMAIN net \cup {calls + 1} /\ net'[calls + 1] = q /\ (\A m \in DOMAIN net : net'[m] = net[m])
  BY <1>1, <1>2 DEF Joined
<1>5. CountOK'
  BY <1>1, <1>3, <1>4, CountSends DEF Calm
<1>6. Turns(v, DOMAIN net, {calls + 1})
  BY <1>1, <1>2, <1>3, <1>4, <1>5 DEF Turns, q
<1>7. Settles(v, DOMAIN net, {calls + 1})
  <2>. SUFFICES ASSUME Quiet, Quiet' PROVE v.rows \in Seq(TruePast) /\ DOMAIN net = {}
    BY DEF Settles
  <2>1. DOMAIN net = {}
    BY <1>3 DEF Quiet
  <2>. QED
    BY <2>1, StillRows DEF Still
<1>. QED
  BY <1>4, <1>6, <1>7, PageStep

\* A handler and an effect: nobody is alone any more.
LEMMA SendsBothKeep ==
    ASSUME IInv, Moved, NEW v, Proper(v), NEW first, NEW second, NewOK(v, first), NewOK(v, second),
           SendsBoth(v, first, second)
    PROVE  IInv'
<1>1. /\ view' = v /\ history' = [history EXCEPT !.alone = FALSE] /\ UNCHANGED server
      /\ calls' = calls + 2 /\ calls + history.faults < MaxEvents
      /\ net' = Joined(Joined(net, calls + 1, first), calls + 2, second)
  BY DEF SendsBoth
<1>2. history \in Histories /\ calls + 1 \notin DOMAIN net /\ calls + 2 \notin DOMAIN net /\ calls \in Nat
  BY Counts
<1>3. Calm /\ ~history'.alone
  BY <1>1, <1>2 DEF Calm, Histories
<1>4. /\ DOMAIN Joined(net, calls + 1, first) = DOMAIN net \cup {calls + 1}
      /\ Joined(net, calls + 1, first)[calls + 1] = first
      /\ \A m \in DOMAIN net : Joined(net, calls + 1, first)[m] = net[m]
  BY <1>2 DEF Joined
<1>5. calls + 2 \notin DOMAIN net \cup {calls + 1}
  BY <1>2
<1>6. /\ DOMAIN net' = DOMAIN net \cup {calls + 1} \cup {calls + 2}
      /\ net'[calls + 2] = second
      /\ \A m \in DOMAIN net \cup {calls + 1} : net'[m] = Joined(net, calls + 1, first)[m]
  BY <1>1, <1>4, <1>5 DEF Joined
<1>7. net'[calls + 1] = first /\ (\A m \in DOMAIN net : net'[m] = net[m])
  BY <1>4, <1>6
<1>8. CountOK'
  BY <1>1, <1>3, <1>6, CountSendsBoth DEF Calm
<1>9. Turns(v, DOMAIN net, {calls + 1, calls + 2})
  BY <1>1, <1>2, <1>3, <1>6, <1>7, <1>8 DEF Turns
<1>10. Settles(v, DOMAIN net, {calls + 1, calls + 2})
  BY <1>3 DEF Settles, Quiet
<1>. QED
  BY <1>7, <1>9, <1>10, PageStep

\* What is left when the handler that waited for n ends.
LEMMA WithoutOne ==
    ASSUME NEW n \in DOMAIN net
    PROVE  /\ DOMAIN Without(n) = DOMAIN net \ {n} /\ \A m \in DOMAIN net \ {n} : Without(n)[m] = net[m]
  BY DEF Without

\* In quiet times the requests besides n are only told something.
LEMMA OthersTell ==
    ASSUME IInv, Quiet, NEW n \in DOMAIN net, net[n].req # "tell", NEW m \in DOMAIN net \ {n}
    PROVE  net[m].req = "tell"
  BY DEF IInv, QuietOK

\* The handler that waited for n ends.
LEMMA EndsKeep ==
    ASSUME IInv, Moved, NEW n \in DOMAIN net, NEW v, Proper(v), v.rows \in Seq(Good(n)),
           net[n].req = "tell" => v.rows = view.rows, Ends(n, v)
    PROVE  IInv'
<1>1. view' = v /\ net' = Without(n) /\ UNCHANGED <<server, calls, history>>
  BY DEF Ends
<1>2. DOMAIN net' = DOMAIN net \ {n} /\ \A m \in DOMAIN net \ {n} : net'[m] = net[m]
  BY <1>1, WithoutOne
<1>3. history \in Histories
  BY Counts
<1>4. Calm
  BY <1>1, <1>3 DEF Calm, Histories
<1>5. CountOK'
  BY <1>1, <1>2, <1>3, CountEnds
<1>6. Turns(v, DOMAIN net \ {n}, {})
  BY <1>1, <1>2, <1>4, <1>5 DEF Turns
<1>7. Settles(v, DOMAIN net \ {n}, {})
  <2>. SUFFICES ASSUME Quiet, Quiet'
                PROVE  \/ v.rows \in Seq(TruePast) /\ \A m \in DOMAIN net \ {n} : net[m].req = "tell"
                       \/ v.rows = view.rows /\ \A m \in DOMAIN net : m \in DOMAIN net \ {n} \/ net[m].req = "tell"
    BY DEF Settles
  <2>1. CASE net[n].req = "tell"
    BY <2>1
  <2>2. CASE net[n].req # "tell"
    BY <2>2, OthersTell DEF Good
  <2>. QED
    BY <2>1, <2>2
<1>. QED
  BY <1>2, <1>6, <1>7, PageStep

\* It goes on to another request.
LEMMA GoesOnKeep ==
    ASSUME IInv, Moved, NEW n \in DOMAIN net, NEW v, Proper(v), v.rows \in Seq(Good(n)),
           net[n].req # "tell" \/ Berry, NEW fn, NEW req, NEW arg, NEW was,
           NewOK(v, Request(fn, req, arg, was)), GoesOn(n, v, fn, req, arg, was)
    PROVE  IInv'
<1>. DEFINE q == Request(fn, req, arg, was)
            kept == DOMAIN net \ {n}
<1>1. /\ view' = v /\ calls' = calls + 1 /\ UNCHANGED <<server, history>>
      /\ net' = Joined(Without(n), calls + 1, q)
  BY DEF GoesOn
<1>2. history \in Histories /\ calls + 1 \notin DOMAIN net
  BY Counts
<1>3. Calm
  BY <1>1, <1>2 DEF Calm, Histories
<1>. HIDE DEF q
<1>4. DOMAIN net' = kept \cup {calls + 1} /\ net'[calls + 1] = q /\ (\A m \in kept : net'[m] = net[m])
  <2>1. DOMAIN Without(n) = kept /\ (\A m \in kept : Without(n)[m] = net[m]) /\ calls + 1 \notin kept
    BY <1>2, WithoutOne
  <2>. QED
    BY <1>1, <2>1 DEF Joined
<1>5. CountOK'
  BY <1>1, <1>2, <1>4, CountSends
<1>6. Turns(v, kept, {calls + 1})
  BY <1>1, <1>2, <1>3, <1>4, <1>5 DEF Turns, q
<1>7. Settles(v, kept, {calls + 1})
  <2>. SUFFICES ASSUME Quiet, Quiet' PROVE v.rows \in Seq(TruePast) /\ \A m \in kept : net[m].req = "tell"
    BY DEF Settles
  <2>1. net[n].req # "tell"
    BY DEF Quiet
  <2>. QED
    BY <2>1, OthersTell DEF Good
<1>. QED
  BY <1>4, <1>6, <1>7, PageStep

\* It is lost with the rejection of n.
LEMMA RejectedKeep ==
    ASSUME IInv, Moved, NEW n \in DOMAIN net, Rejected(n)
    PROVE  IInv'
<1>1. /\ net[n].st = "failed" /\ net' = Without(n) /\ history' = [history EXCEPT !.lost = TRUE]
      /\ UNCHANGED <<view, server, calls>>
  BY DEF Rejected
<1>2. DOMAIN net' = DOMAIN net \ {n} /\ \A m \in DOMAIN net \ {n} : net'[m] = net[m]
  BY <1>1, WithoutOne
<1>3. history \in Histories
  BY Counts
<1>4. Calm
  BY <1>1, <1>3 DEF Calm, Histories
<1>5. CountOK'
  BY <1>1, <1>2, <1>4, CountEnds DEF Calm
<1>6. Turns(view, DOMAIN net \ {n}, {})
  BY <1>1, <1>2, <1>4, <1>5 DEF Turns
<1>7. Settles(view, DOMAIN net \ {n}, {})
  <2>1. ~Quiet
    BY <1>1 DEF IInv, QuietOK
  <2>. QED
    BY <2>1 DEF Settles
<1>. QED
  BY <1>2, <1>6, <1>7, ProperView, PageStep

\* A name that no closure has yet.
LEMMA NewEraFresh == ASSUME IInv, Moved PROVE Fresh(NewEra)
<1>. DEFINE D == DOMAIN net
            g == [m \in D |-> net[m].arg.era]
            T == {g[m] : m \in D}
            names == 0 .. MaxEvents + 2
<1>1. IsFiniteSet(D) /\ Cardinality(D) \in Nat /\ Cardinality(D) <= MaxEvents + 1 /\ MaxEvents \in Nat
  BY Counts
<1>2. IsFiniteSet(T) /\ Cardinality(T) <= Cardinality(D)
  <2>1. g \in Surjection(D, T)
    BY DEF Surjection
  <2>. HIDE DEF g, T
  <2>. QED
    BY <1>1, <2>1, FS_Surjection
<1>. HIDE DEF T
<1>3. /\ IsFiniteSet(T \cup {view.era}) /\ Cardinality(T \cup {view.era}) <= MaxEvents + 2
      /\ Cardinality(T) \in Nat
  <2>1. Cardinality(T) \in Nat
    BY <1>2, FS_CardinalityType
  <2>2. /\ IsFiniteSet(T \cup {view.era})
        /\ Cardinality(T \cup {view.era}) = IF view.era \in T THEN Cardinality(T) ELSE Cardinality(T) + 1
    BY <1>2, FS_AddElement
  <2>. QED
    BY <1>1, <1>2, <2>1, <2>2
<1>4. Cardinality(names) = MaxEvents + 3
  <2>1. Cardinality(names) = IF 0 > MaxEvents + 2 THEN 0 ELSE MaxEvents + 2 - 0 + 1
    BY <1>1, FS_Interval
  <2>. QED
    BY <1>1, <2>1
<1>5. ~(names \subseteq T \cup {view.era})
  <2>. SUFFICES ASSUME names \subseteq T \cup {view.era} PROVE FALSE
    OBVIOUS
  <2>1. Cardinality(names) <= Cardinality(T \cup {view.era}) /\ Cardinality(T \cup {view.era}) \in Nat
    BY <1>3, FS_Subset, FS_CardinalityType
  <2>. QED
    BY <1>1, <1>3, <1>4, <2>1
<1>6. \E e \in names : e # view.era /\ \A m \in D : e # net[m].arg.era
  <2>1. PICK e \in names : e \notin T /\ e # view.era
    BY <1>5
  <2>2. \A m \in D : net[m].arg.era \in T
    BY DEF T
  <2>. QED
    BY <2>1, <2>2
<1>7. NewEra \in names /\ \A m \in D : NewEra # net[m].arg.era
  BY <1>6 DEF NewEra
<1>. QED
  BY <1>7 DEF Fresh

\* The rows of a closure are changed, and stay where they were.
LEMMA ClosureChanges ==
    ASSUME NEW at, NEW q, NEW was, AskOK(at, q, was), AnswerOK(q, was), NEW w \in Seq(Past(was)),
           NEW p, p = [q EXCEPT !.was = w],
           q.fn \in Indexed /\ IndexOK(q) => q.arg.idx \in DOMAIN w /\ w[q.arg.idx].id = q.arg.id
    PROVE  /\ AskOK(at, p, was) /\ AnswerOK(p, was)
           /\ p.fn = q.fn /\ p.req = q.req /\ p.arg = q.arg /\ p.was = w /\ p.st = q.st /\ p.data = q.data
<1>1. /\ p.fn = q.fn /\ p.req = q.req /\ p.arg = q.arg /\ p.was = w /\ p.st = q.st /\ p.data = q.data
      /\ DOMAIN p = DOMAIN q
  BY DEF AskOK
<1>2. AskOK(at, p, was)
  BY <1>1 DEF AskOK, IndexOK
<1>3. AnswerOK(p, was)
  BY <1>1 DEF AnswerOK
<1>. QED
  BY <1>1, <1>2, <1>3

\* The handler that waited for n ends, and the closures of the others may have changed.
LEMMA EndsChanging ==
    ASSUME IInv, Moved, NEW n \in DOMAIN net, net[n].req # "tell", NEW v, v.at = view.at, PageOK(v, server.was),
           v.rows \in Seq(Good(n)), view' = v, UNCHANGED <<server, calls, history>>,
           DOMAIN net' = DOMAIN net \ {n},
           \A m \in DOMAIN net' : AskOK(view.at, net'[m], server.was) /\ AnswerOK(net'[m], server.was),
           \A m \in DOMAIN net' : /\ net'[m].req = net[m].req /\ net'[m].arg = net[m].arg
                                  /\ net'[m].st = net[m].st /\ net'[m].data = net[m].data,
           EraOK'
    PROVE  IInv'
<1>1. history \in Histories
  BY Counts
<1>2. Calm
  BY <1>1 DEF Calm, Histories
<1>3. CountOK'
  BY <1>1, CountEnds
<1>4. Turns(v, DOMAIN net \ {n}, {})
  BY <1>2, <1>3 DEF Turns
<1>5. Settles(v, DOMAIN net \ {n}, {})
  BY OthersTell DEF Settles, Good
<1>6. QuietOK'
  BY <1>4, <1>5, OthersTell, QuietKept
<1>7. PageOK(view, server.was)'
  BY DEF PageOK, SwitchOK, Past, Row, Distinct
<1>8. RequestsOK'
  <2>1. \A m \in DOMAIN net' : AskOK(view'.at, net'[m], server'.was) /\ AnswerOK(net'[m], server'.was)
    OBVIOUS
  <2>. QED
    BY <2>1 DEF RequestsOK, AskOK, AnswerOK, ListOK, ForOK, PurgeOK, IndexOK, Past, Told, Row, Distinct
<1>9. ServerOK'
  BY DEF IInv, ServerOK
<1>. QED
  BY <1>3, <1>6, <1>7, <1>8, <1>9 DEF IInv

\* The handler marks the row o in every list that holds it.
LEMMA EndsMarkingKeep ==
    ASSUME IInv, Moved, NEW n \in DOMAIN net, net[n].req # "tell", NEW v, v.at = view.at, PageOK(v, server.was),
           v.rows \in Seq(Good(n)), v.at \in Pushing => Fresh(v.era),
           NEW o, NEW st, NEW del, MarkOK(o, st, del), EndsMarking(n, v, o, st, del)
    PROVE  IInv'
<1>1. /\ view' = v /\ UNCHANGED <<server, calls, history>>
      /\ DOMAIN net' = DOMAIN net \ {n}
      /\ \A m \in DOMAIN net \ {n} : net'[m] = [net[m] EXCEPT !.was = Marked(@, o, st, del)]
  BY DEF EndsMarking
<1>2. ASSUME NEW m \in DOMAIN net \ {n}
      PROVE  /\ AskOK(view.at, net'[m], server.was) /\ AnswerOK(net'[m], server.was)
             /\ net'[m].req = net[m].req /\ net'[m].arg = net[m].arg
             /\ net'[m].st = net[m].st /\ net'[m].data = net[m].data
             /\ net'[m].was = Marked(net[m].was, o, st, del)
  <2>. DEFINE w == Marked(net[m].was, o, st, del)
  <2>1. AskOK(view.at, net[m], server.was) /\ AnswerOK(net[m], server.was) /\ net[m].was \in Seq(Past(server.was))
    BY RequestFacts
  <2>2. /\ w \in Seq(Past(server.was)) /\ DOMAIN w = DOMAIN net[m].was
        /\ \A i \in DOMAIN net[m].was : w[i].id = net[m].was[i].id
    BY <2>1, MarkedPast
  <2>3. net'[m] = [net[m] EXCEPT !.was = w]
    BY <1>1
  <2>. HIDE DEF w
  <2>4. /\ AskOK(view.at, net'[m], server.was) /\ AnswerOK(net'[m], server.was)
        /\ net'[m].fn = net[m].fn /\ net'[m].req = net[m].req /\ net'[m].arg = net[m].arg
        /\ net'[m].was = w /\ net'[m].st = net[m].st /\ net'[m].data = net[m].data
    BY <2>1, <2>2, <2>3, ClosureChanges DEF IndexOK
  <2>. QED
    BY <2>4 DEF w
<1>3. EraOK'
  <2>. SUFFICES ASSUME view.at \in Pushing
                PROVE  \A k \in DOMAIN net' :
                          /\ net'[k].req # "search" /\ net'[k].arg.era = v.era => net'[k].was = v.rows
                          /\ net'[k].req # "search" =>
                                \A m \in DOMAIN net' :
                                   net'[m].req # "search" /\ net'[m].arg.era = net'[k].arg.era => net'[m].was = net'[k].was
    BY <1>1 DEF EraOK, Holds
  <2>1. \A k, m \in DOMAIN net :
           net[m].req # "search" /\ net[k].req # "search" /\ net[m].arg.era = net[k].arg.era => net[m].was = net[k].was
    BY DEF IInv, EraOK, Holds
  <2>2. \A k \in DOMAIN net' : net'[k].arg.era # v.era
    BY <1>1, <1>2 DEF Fresh
  <2>. QED
    BY <1>1, <1>2, <2>1, <2>2
<1>. QED
  BY <1>1, <1>2, <1>3, EndsChanging

\* It pushes the rows of an answer onto the array of its closure; w is what the page becomes.
LEMMA EndsPushingKeep ==
    ASSUME IInv, Moved, NEW n \in DOMAIN net, net[n].req = "list", net[n].st = "ok", view.at \in Pushing,
           NEW v, NEW w, w = [v EXCEPT !.rows = net[n].was \o Rows(n), !.era = net[n].arg.era],
           w.rows = net[n].was \o Rows(n), w.era = net[n].arg.era, w.at = view.at,
           w.rows \in Seq(Past(server.was)) => PageOK(w, server.was),
           EndsPushing(n, v, Rows(n))
    PROVE  IInv'
<1>. DEFINE was == net[n].was
            longer == was \o Rows(n)
            e == net[n].arg.era
<1>1. /\ view' = w /\ UNCHANGED <<server, calls, history>>
      /\ DOMAIN net' = DOMAIN net \ {n}
      /\ \A m \in DOMAIN net \ {n} :
            net'[m] = IF net[m].arg.era = e THEN [net[m] EXCEPT !.was = longer] ELSE net[m]
  BY DEF EndsPushing
<1>2. /\ was \in Seq(Past(server.was)) /\ Rows(n) \in Seq(Past(server.was))
      /\ was \in Seq(Good(n)) /\ Rows(n) \in Seq(Good(n))
  <2>1. UsesWas(n) /\ ~Done(n)
    BY DEF UsesWas, Done, Pushing, Functional
  <2>. QED
    BY <2>1, RequestFacts, WasRows, DataRows
<1>3. /\ longer \in Seq(Past(server.was)) /\ longer \in Seq(Good(n))
      /\ \A i \in DOMAIN was : i \in DOMAIN longer /\ longer[i] = was[i]
  <2>. DEFINE r == Rows(n)
  <2>1. Len(was) \in Nat /\ DOMAIN was = 1 .. Len(was) /\ Len(r) \in Nat
    BY <1>2, ListElim
  <2>. HIDE DEF r
  <2>2. was \o r \in Seq(Past(server.was)) /\ was \o r \in Seq(Good(n))
    BY <1>2, ConcatProperties DEF r
  <2>3. Len(was \o r) = Len(was) + Len(r) /\ \A i \in 1 .. Len(was) + Len(r) : (was \o r)[i] = IF i <= Len(was) THEN was[i] ELSE r[i - Len(was)]
    BY <1>2, ConcatProperties DEF r
  <2>4. DOMAIN (was \o r) = 1 .. Len(was) + Len(r)
    BY <2>2, <2>3, ListElim
  <2>5. \A i \in DOMAIN was : i \in DOMAIN (was \o r) /\ (was \o r)[i] = was[i]
    BY <2>1, <2>3, <2>4
  <2>. QED
    BY <2>2, <2>5 DEF r
<1>. HIDE DEF longer
<1>4. \A k, m \in DOMAIN net :
         net[m].req # "search" /\ net[k].req # "search" /\ net[m].arg.era = net[k].arg.era => net[m].was = net[k].was
  BY DEF IInv, EraOK, Holds
<1>5. ASSUME NEW m \in DOMAIN net \ {n}
      PROVE  /\ AskOK(view.at, net'[m], server.was) /\ AnswerOK(net'[m], server.was)
             /\ net'[m].req = net[m].req /\ net'[m].arg = net[m].arg
             /\ net'[m].st = net[m].st /\ net'[m].data = net[m].data
             /\ net'[m].was = IF net[m].arg.era = e THEN longer ELSE net[m].was
  <2>1. AskOK(view.at, net[m], server.was) /\ AnswerOK(net[m], server.was)
    BY RequestFacts
  <2>2. CASE net[m].arg.era = e
    <3>1. net'[m] = [net[m] EXCEPT !.was = longer]
      BY <1>1, <2>2
    <3>2. ASSUME net[m].fn \in Indexed, IndexOK(net[m])
          PROVE  net[m].arg.idx \in DOMAIN longer /\ longer[net[m].arg.idx].id = net[m].arg.id
      <4>1. net[m].req # "search"
        BY <2>1, <3>2 DEF AskOK, ForOK, Changing
      <4>2. net[m].was = was
        BY <1>4, <2>2, <4>1
      <4>. QED
        BY <1>3, <3>2, <4>2 DEF IndexOK
    <3>3. /\ AskOK(view.at, net'[m], server.was) /\ AnswerOK(net'[m], server.was)
          /\ net'[m].fn = net[m].fn /\ net'[m].req = net[m].req /\ net'[m].arg = net[m].arg
          /\ net'[m].was = longer /\ net'[m].st = net[m].st /\ net'[m].data = net[m].data
      BY <1>3, <2>1, <3>1, <3>2, ClosureChanges
    <3>. QED
      BY <2>2, <3>3
  <2>3. CASE net[m].arg.era # e
    BY <1>1, <2>1, <2>3
  <2>. QED
    BY <2>2, <2>3
<1>6. w.rows = longer
  BY DEF longer
<1>7. EraOK'
  <2>. SUFFICES \A k \in DOMAIN net' :
                   /\ net'[k].req # "search" /\ net'[k].arg.era = e => net'[k].was = longer
                   /\ net'[k].req # "search" =>
                         \A m \in DOMAIN net' :
                            net'[m].req # "search" /\ net'[m].arg.era = net'[k].arg.era => net'[m].was = net'[k].was
    BY <1>1, <1>6 DEF EraOK, Holds
  <2>. QED
    BY <1>1, <1>4, <1>5
<1>8. PageOK(w, server.was) /\ w.rows \in Seq(Good(n))
  BY <1>3, <1>6
<1>. QED
  BY <1>1, <1>5, <1>7, <1>8, EndsChanging

----------------------------------------------------------------------------
(***************************************************************************)
(* Steps of the service.                                                   *)
(***************************************************************************)
LEMMA ChangedKeeps ==
    ASSUME ServerOK, NEW id \in Ids, NEW st \in Statuses \cup {None}, server' = Changed(id, st)
    PROVE  /\ ServerOK' /\ Remembers(server.was, server'.was)
           /\ server'.rows[id] = st /\ st \in server'.was[id]
           /\ \A x \in Ids : x # id => server'.rows[x] = server.rows[x]
<1>. DEFINE rows == [server.rows EXCEPT ![id] = st]
            was == [server.was EXCEPT ![id] = @ \cup {st}]
<1>1. /\ server \in [rows : [Ids -> Statuses \cup {None}], was : [Ids -> SUBSET (Statuses \cup {None})]]
      /\ \A x \in Ids : server.rows[x] \in server.was[x]
  BY DEF ServerOK
<1>2. server' = [server EXCEPT !.rows = rows, !.was = was]
  BY <1>1 DEF Changed
<1>3. server'.rows = rows /\ server'.was = was
  BY <1>1, <1>2
<1>4. rows \in [Ids -> Statuses \cup {None}] /\ rows[id] = st /\ (\A x \in Ids : x # id => rows[x] = server.rows[x])
  BY <1>1
<1>5. /\ was \in [Ids -> SUBSET (Statuses \cup {None})] /\ was[id] = server.was[id] \cup {st}
      /\ \A x \in Ids : x # id => was[x] = server.was[x]
  BY <1>1
<1>6. server' \in [rows : [Ids -> Statuses \cup {None}], was : [Ids -> SUBSET (Statuses \cup {None})]]
  BY <1>1, <1>2, <1>4, <1>5
<1>. HIDE DEF rows, was
<1>7. \A x \in Ids : server'.rows[x] \in server'.was[x]
  BY <1>1, <1>3, <1>4, <1>5
<1>8. Remembers(server.was, server'.was)
  BY <1>3, <1>5 DEF Remembers
<1>. QED
  BY <1>3, <1>4, <1>5, <1>6, <1>7, <1>8 DEF ServerOK

\* The page never showed a row that was never there.
LEMMA UnbornRows ==
    ASSUME NEW id \in Ids, Unborn(id), NEW row \in Past(server.was)
    PROVE  row.id # id /\ row.id \in Ids
<1>1. id >= id
  BY IdsAreNumbers
<1>2. server.was[id] = {None}
  BY <1>1 DEF Unborn
<1>. QED
  BY <1>2 DEF Past, Row, Statuses, None, Enabled, Disabled, Used

\* A drawer saved a row, and the list is loaded again.
LEMMA SavedKeep ==
    ASSUME IInv, Moved, NEW v, Proper(v), v.rows = view.rows, NEW fn, NEW req, NEW arg, NEW was,
           NewOK(v, Request(fn, req, arg, was)), SavedThen(v, fn, req, arg, was)
    PROVE  IInv'
<1>. DEFINE q == Request(fn, req, arg, was)
<1>1. CASE UNCHANGED server
  <2>1. SendsWith(v, fn, req, arg, was)
    BY <1>1 DEF SavedThen, SendsWith
  <2>. QED
    BY <2>1, SendsKeep
<1>2. CASE \E id \in Ids : Unborn(id) /\ server' = Changed(id, Enabled)
  <2>1. PICK id \in Ids : Unborn(id) /\ server' = Changed(id, Enabled)
    BY <1>2
  <2>2. /\ view' = v /\ Alone /\ calls' = calls + 1
        /\ net' = Joined(net, calls + 1, q) /\ calls + history.faults < MaxEvents
    BY DEF SavedThen
  <2>3. history \in Histories /\ calls + 1 \notin DOMAIN net
    BY Counts
  <2>4. Calm /\ (history'.alone => DOMAIN net = {}) /\ history' \in Histories
    BY <2>2, <2>3, AloneCalm
  <2>. HIDE DEF q
  <2>5. DOMAIN net' = DOMAIN net \cup {calls + 1} /\ net'[calls + 1] = q /\ (\A m \in DOMAIN net : net'[m] = net[m])
    BY <2>2, <2>3 DEF Joined
  <2>6. CountOK'
    BY <2>2, <2>4, <2>5, CountSends
  <2>7. /\ ServerOK' /\ Remembers(server.was, server'.was)
        /\ \A x \in Ids : x # id => server'.rows[x] = server.rows[x]
    <3>1. ServerOK /\ Enabled \in Statuses \cup {None}
      BY DEF IInv, Statuses
    <3>. QED
      BY <2>1, <3>1, ChangedKeeps
  <2>8. PageOK(view, server.was)'
    <3>1. PageOK(v, server'.was)
      BY <2>7, PageGrows DEF Proper
    <3>. QED
      BY <2>2, <3>1 DEF PageOK, SwitchOK, Past, Row, Distinct
  <2>9. NewOK(v, q) /\ \A m \in {calls + 1} : NewOK(v, net'[m])
    BY <2>5 DEF q
  <2>. DEFINE kept == DOMAIN net
              new == {calls + 1}
  <2>a. /\ kept \subseteq DOMAIN net /\ DOMAIN net' = kept \cup new
        /\ (\A m \in kept : net'[m] = net[m]) /\ (\A m \in new : NewOK(v, net'[m]))
    BY <2>5, <2>9
  <2>. HIDE DEF kept, new
  <2>10. v.at = view.at
    BY DEF Proper
  <2>11. RequestsOK'
    BY <2>2, <2>a, <2>7, <2>10, RequestsKept
  <2>12. EraOK'
    BY <2>2, <2>a, EraKept
  <2>13. QuietOK'
    <3>. SUFFICES ASSUME Quiet' PROVE QuietOK'
      BY DEF QuietOK
    <3>1. tidy' => tidy /\ NoRowTwice' /\ (\A n \in DOMAIN net' : net'[n].req # "purge")
      BY DEF Moved, Tidy
    <3>2. Berry' = Berry
      BY <2>2, <2>10 DEF Berry
    <3>3. Quiet /\ DOMAIN net = {} /\ NoRowTwice' /\ (\A n \in DOMAIN net' : net'[n].req # "purge")
      BY <2>4, <3>1, <3>2 DEF Quiet, Calm
    <3>4. \A n \in DOMAIN net' : n = calls + 1 /\ net'[n].st = "sent"
      BY <2>5, <2>9, <3>3 DEF NewOK
    <3>5. \A n \in DOMAIN net' :
             view'.at \notin Functional /\ net'[n].req \in Changing \cup {"list"} => net'[n].was = view'.rows
      BY <2>2, <2>5, <2>9, <3>3, <3>4 DEF NewOK
    <3>6. \A i \in DOMAIN v.rows : TrueRow(v.rows[i])'
      <4>. TAKE i \in DOMAIN v.rows
      <4>1. view.rows[i] \in TruePast
        BY <3>3, StillRows, ListElim DEF Still
      <4>2. view.rows[i].id # id /\ view.rows[i].id \in Ids
        BY <2>1, <4>1, UnbornRows DEF TruePast
      <4>3. TrueRow(view.rows[i])
        BY <4>1 DEF TruePast
      <4>. QED
        BY <2>7, <4>2, <4>3 DEF TrueRow
    <3>7. (\A i \in DOMAIN view.rows : TrueRow(view.rows[i]))'
      BY <2>2, <3>6 DEF TrueRow
    <3>. QED
      BY <3>3, <3>4, <3>5, <3>7 DEF QuietOK
  <2>. QED
    BY <2>6, <2>7, <2>8, <2>11, <2>12, <2>13 DEF IInv
<1>. QED
  BY <1>1, <1>2 DEF SavedThen

\* The request n gets an answer or none; everything else about it stays.
Served(n, st) ==
    /\ UNCHANGED <<view, calls>>
    /\ DOMAIN net' = DOMAIN net
    /\ \A m \in DOMAIN net \ {n} : net'[m] = net[m]
    /\ net'[n].fn = net[n].fn /\ net'[n].req = net[n].req /\ net'[n].arg = net[n].arg /\ net'[n].was = net[n].was
    /\ DOMAIN net'[n] = DOMAIN net[n]
    /\ net'[n].st = st

LEMMA AnswerFields ==
    ASSUME IInv, NEW n \in DOMAIN net
    PROVE  /\ \A data : Answered(n, data) => Served(n, "ok") /\ net'[n].data = data /\ UNCHANGED history
           /\ Refused(n) => Served(n, "refused") /\ net'[n].data = net[n].data /\ UNCHANGED <<server, history>>
           /\ Failed(n) => /\ Served(n, "failed") /\ net'[n].data = net[n].data
                           /\ history' = [history EXCEPT !.faults = @ + 1]
<1>1. DOMAIN net[n] = {"fn", "req", "arg", "was", "st", "data"}
  BY RequestFacts DEF AskOK
<1>2. ASSUME NEW data, Answered(n, data)
      PROVE  Served(n, "ok") /\ net'[n].data = data /\ UNCHANGED history
  <2>1. net' = [net EXCEPT ![n] = [net[n] EXCEPT !.st = "ok", !.data = data]] /\ UNCHANGED <<view, calls, history>>
    BY <1>2 DEF Answered
  <2>. QED
    BY <1>1, <2>1 DEF Served
<1>3. ASSUME Refused(n)
      PROVE  Served(n, "refused") /\ net'[n].data = net[n].data /\ UNCHANGED <<server, history>>
  <2>1. /\ net' = [net EXCEPT ![n] = [net[n] EXCEPT !.st = "refused"]]
        /\ UNCHANGED <<view, server, calls, history>>
    BY <1>3 DEF Refused
  <2>. QED
    BY <1>1, <2>1 DEF Served
<1>4. ASSUME Failed(n)
      PROVE  /\ Served(n, "failed") /\ net'[n].data = net[n].data
             /\ history' = [history EXCEPT !.faults = @ + 1]
  <2>1. /\ net' = [net EXCEPT ![n] = [net[n] EXCEPT !.st = "failed"]]
        /\ UNCHANGED <<view, calls>> /\ history' = [history EXCEPT !.faults = @ + 1]
    BY <1>4 DEF Failed
  <2>. QED
    BY <1>1, <2>1 DEF Served
<1>. QED
  BY <1>2, <1>3, <1>4

\* What every step of the service keeps, but for the quiet times.
LEMMA ServedKeeps ==
    ASSUME IInv, Moved, NEW n \in DOMAIN net, NEW st \in {"ok", "refused", "failed"}, Served(n, st),
           ServerOK', Remembers(server.was, server'.was), history' \in Histories,
           AnswerOK(net'[n], server'.was), QuietOK'
    PROVE  IInv'
<1>1. PageOK(view, server.was)'
  <2>1. PageOK(view, server'.was)
    BY PageGrows DEF IInv
  <2>. QED
    BY <2>1 DEF Served, PageOK, SwitchOK, Past, Row, Distinct
<1>2. \A m \in DOMAIN net' : AskOK(view'.at, net'[m], server'.was) /\ AnswerOK(net'[m], server'.was)
  <2>1. ASSUME NEW m \in DOMAIN net \ {n} PROVE AskOK(view'.at, net'[m], server'.was) /\ AnswerOK(net'[m], server'.was)
    BY RequestFacts, RequestGrows DEF Served
  <2>2. AskOK(view'.at, net'[n], server'.was)
    <3>1. AskOK(view.at, net[n], server'.was)
      BY RequestFacts, RequestGrows
    <3>. QED
      BY <3>1 DEF AskOK, IndexOK, Served
  <2>. QED
    BY <2>1, <2>2 DEF Served
<1>3. RequestsOK'
  BY <1>2 DEF RequestsOK, AskOK, AnswerOK, ListOK, ForOK, PurgeOK, IndexOK, Past, Told, Row, Distinct
<1>4. CountOK'
  BY CountEnds DEF Served
<1>5. EraOK'
  <2>1. \A m \in DOMAIN net : net'[m].req = net[m].req /\ net'[m].arg = net[m].arg /\ net'[m].was = net[m].was
    BY DEF Served
  <2>. QED
    BY <2>1 DEF IInv, EraOK, Holds, Served
<1>. QED
  BY <1>1, <1>3, <1>4, <1>5 DEF IInv

\* In quiet times: the answer is true, and no row changed but the one n asked to change.
LEMMA ServedQuiet ==
    ASSUME IInv, Moved, NEW n \in DOMAIN net, net[n].st = "sent", NEW st \in {"ok", "refused"}, Served(n, st),
           UNCHANGED history,
           st = "ok" => \A i \in DOMAIN net'[n].data : server'.rows[net'[n].data[i].id] = net'[n].data[i].st,
           st = "ok" /\ net[n].req = "delete" => server'.rows[net[n].arg.id] = None,
           \A x \in Ids : \/ server'.rows[x] = server.rows[x]
                          \/ st = "ok" /\ net[n].req \in {"put", "delete"} /\ x = net[n].arg.id
    PROVE  QuietOK'
<1>. SUFFICES ASSUME Quiet' PROVE QuietOK'
  BY DEF QuietOK
<1>1. tidy' => tidy /\ NoRowTwice' /\ (\A m \in DOMAIN net' : net'[m].req # "purge")
  BY DEF Moved, Tidy
<1>2. Quiet /\ NoRowTwice' /\ (\A m \in DOMAIN net' : net'[m].req # "purge")
  BY <1>1 DEF Quiet, Berry, Served
<1>3. /\ DOMAIN net' = DOMAIN net /\ view' = view
      /\ \A m \in DOMAIN net : net'[m].req = net[m].req /\ net'[m].arg = net[m].arg /\ net'[m].was = net[m].was
      /\ \A m \in DOMAIN net \ {n} : net'[m] = net[m]
      /\ net'[n].st = st
  BY DEF Served
<1>4. \A m \in DOMAIN net' : net'[m].st # "failed"
  BY <1>2, <1>3 DEF IInv, QuietOK
<1>5. \A l, m \in DOMAIN net' : l = m \/ net'[l].req = "tell" \/ net'[m].req = "tell"
  BY <1>2, <1>3 DEF IInv, QuietOK
<1>6. \A m \in DOMAIN net' :
         view'.at \notin Functional /\ net'[m].req \in Changing \cup {"list"} => net'[m].was = view'.rows
  BY <1>2, <1>3 DEF IInv, QuietOK
<1>7. ASSUME NEW m \in DOMAIN net', net'[m].st = "ok"
      PROVE  /\ \A i \in DOMAIN net'[m].data : server'.rows[net'[m].data[i].id] = net'[m].data[i].st
             /\ net'[m].req = "delete" => server'.rows[net'[m].arg.id] = None
  <2>1. CASE m = n
    BY <1>3, <1>7, <2>1
  <2>2. CASE m # n
    <3>1. m \in DOMAIN net /\ net'[m] = net[m] /\ net[m].st = "ok"
      BY <1>3, <1>7, <2>2
    <3>2. /\ \A i \in DOMAIN net[m].data : server.rows[net[m].data[i].id] = net[m].data[i].st
          /\ net[m].req = "delete" => server.rows[net[m].arg.id] = None
      BY <1>2, <3>1 DEF IInv, QuietOK
    <3>3. CASE net[m].req = "tell"
      <4>1. net[m].data = <<>>
        BY <3>1, <3>3, RequestFacts DEF AnswerOK
      <4>. QED
        BY <3>1, <3>3, <4>1
    <3>4. CASE net[m].req # "tell"
      <4>1. net[n].req = "tell"
        BY <1>2, <2>2, <3>1, <3>4 DEF IInv, QuietOK
      <4>2. \A x \in Ids : server'.rows[x] = server.rows[x]
        BY <4>1
      <4>3. net[m].data \in Seq(Told(server.was)) /\ (net[m].req = "delete" => net[m].arg.id \in Ids)
        BY <3>1, RequestFacts DEF AnswerOK, AskOK, Changing
      <4>4. \A i \in DOMAIN net[m].data : net[m].data[i].id \in Ids
        BY <4>3, ListElim DEF Told
      <4>. QED
        BY <3>1, <3>2, <4>2, <4>3, <4>4
    <3>. QED
      BY <3>3, <3>4
  <2>. QED
    BY <2>1, <2>2
<1>8. ASSUME NEW i \in DOMAIN view.rows
      PROVE  TrueRow(view.rows[i])' \/ \E m \in DOMAIN net' : Tells(net'[m], view.rows[i].id)
  <2>1. TrueRow(view.rows[i]) \/ \E m \in DOMAIN net : Tells(net[m], view.rows[i].id)
    BY <1>2 DEF IInv, QuietOK
  <2>2. view.rows[i].id \in Ids
    BY RequestFacts, ListElim, GoodIsPast DEF IInv, PageOK
  <2>3. CASE \E m \in DOMAIN net : Tells(net[m], view.rows[i].id)
    <3>1. PICK m \in DOMAIN net : Tells(net[m], view.rows[i].id)
      BY <2>3
    <3>2. m # n
      BY <3>1 DEF Tells
    <3>. QED
      BY <1>3, <3>1, <3>2
  <2>4. CASE TrueRow(view.rows[i])
    <3>1. CASE server'.rows[view.rows[i].id] = server.rows[view.rows[i].id]
      BY <1>3, <2>4, <3>1 DEF TrueRow
    <3>2. CASE st = "ok" /\ net[n].req \in {"put", "delete"} /\ view.rows[i].id = net[n].arg.id
      BY <1>3, <3>2 DEF Tells
    <3>. QED
      BY <2>2, <3>1, <3>2
  <2>. QED
    BY <2>1, <2>3, <2>4
<1>9. (\A i \in DOMAIN view.rows : TrueRow(view.rows[i]) \/ \E m \in DOMAIN net : Tells(net[m], view.rows[i].id))'
  BY <1>3, <1>8 DEF TrueRow, Tells
<1>. QED
  BY <1>2, <1>4, <1>5, <1>6, <1>7, <1>9 DEF QuietOK

----------------------------------------------------------------------------
(***************************************************************************)
(* The answers.                                                            *)
(***************************************************************************)
LEMMA SubOnce ==
    ASSUME NEW T, NEW s \in Seq(T), NEW m \in Nat \ {0}, NEW n \in Int, n <= Len(s),
           \A k, l \in DOMAIN s : s[k] = s[l] => k = l
    PROVE  /\ SubSeq(s, m, n) \in Seq(T)
           /\ \A k, l \in DOMAIN SubSeq(s, m, n) : SubSeq(s, m, n)[k] = SubSeq(s, m, n)[l] => k = l
<1>. DEFINE sub == SubSeq(s, m, n)
<1>1. Len(s) \in Nat /\ DOMAIN s = 1 .. Len(s) /\ \A i \in DOMAIN s : s[i] \in T
  BY ListElim
<1>2. \A i \in m .. n : s[i] \in T
  BY <1>1
<1>3. /\ sub \in Seq(T) /\ Len(sub) = IF m <= n THEN n - m + 1 ELSE 0
      /\ \A i \in 1 .. n - m + 1 : sub[i] = s[m + i - 1]
  BY <1>2, SubSeqProperties
<1>. HIDE DEF sub
<1>4. DOMAIN sub = 1 .. n - m + 1
  BY <1>3, ListElim
<1>5. ASSUME NEW k \in DOMAIN sub, NEW l \in DOMAIN sub, sub[k] = sub[l] PROVE k = l
  <2>1. k \in 1 .. n - m + 1 /\ l \in 1 .. n - m + 1
    BY <1>4
  <2>2. m + k - 1 \in DOMAIN s /\ m + l - 1 \in DOMAIN s /\ (m + k - 1 = m + l - 1 => k = l)
    BY <1>1, <2>1
  <2>3. s[m + k - 1] = s[m + l - 1]
    BY <1>3, <1>5, <2>1
  <2>. QED
    BY <2>2, <2>3
<1>. QED
  BY <1>3, <1>5 DEF sub

\* The rows of these numbers, as they are.
LEMMA RowsAsked ==
    ASSUME ServerOK, NEW s \in Seq(Exist), \A k, l \in DOMAIN s : s[k] = s[l] => k = l
    PROVE  /\ AsRows(s) \in Seq(Told(server.was)) /\ Distinct(AsRows(s))
           /\ \A i \in DOMAIN AsRows(s) : server.rows[AsRows(s)[i].id] = AsRows(s)[i].st
<1>. DEFINE r == AsRows(s)
<1>1. Len(s) \in Nat /\ DOMAIN s = 1 .. Len(s) /\ \A i \in DOMAIN s : s[i] \in Exist
  BY ListElim
<1>2. r = [i \in 1 .. Len(s) |-> r[i]] /\ \A i \in 1 .. Len(s) : r[i] = [id |-> s[i], st |-> server.rows[s[i]]]
  BY <1>1 DEF AsRows
<1>. HIDE DEF r
<1>3. ASSUME NEW i \in 1 .. Len(s)
      PROVE  r[i] \in Told(server.was) /\ r[i].id = s[i] /\ server.rows[r[i].id] = r[i].st
  <2>1. s[i] \in Ids /\ server.rows[s[i]] # None
    BY <1>1 DEF Exist
  <2>2. server.rows[s[i]] \in Statuses /\ server.rows[s[i]] \in server.was[s[i]]
    BY <2>1 DEF ServerOK
  <2>3. r[i].id = s[i] /\ r[i].st = server.rows[s[i]]
    BY <1>2
  <2>4. r[i] \in [id : Ids, st : Statuses]
    BY <1>2, <2>1, <2>2
  <2>. QED
    BY <2>2, <2>3, <2>4 DEF Told
<1>4. r \in Seq(Told(server.was)) /\ DOMAIN r = 1 .. Len(s)
  BY <1>1, <1>2, <1>3, ListIntro
<1>5. Distinct(r)
  BY <1>1, <1>3, <1>4 DEF Distinct
<1>. QED
  BY <1>3, <1>4, <1>5 DEF r

LEMMA ListedRows ==
    ASSUME ServerOK, NEW q, q.p \in Nat
    PROVE  /\ Listed(q) \in Seq(Told(server.was)) /\ Distinct(Listed(q))
           /\ \A i \in DOMAIN Listed(q) : server.rows[Listed(q)[i].id] = Listed(q)[i].st
<1>. DEFINE keep == {id \in Exist : (q.type = 0 \/ server.rows[id] = q.type) /\ (q.some => id \in Matching)}
            all == IF q.order = "" THEN Down(keep) ELSE Reversed(Down(keep))
            first == q.p * PageSize + 1
            last == IF first + PageSize - 1 > Len(all) THEN Len(all) ELSE first + PageSize - 1
<1>1. keep \subseteq Exist /\ keep \subseteq Int /\ IsFiniteSet(keep)
  <2>1. keep \subseteq Exist /\ keep \subseteq Ids
    BY DEF Exist
  <2>. HIDE DEF keep
  <2>2. IsFiniteSet(keep) /\ Ids \subseteq Nat
    BY <2>1, IdsAreNumbers, FS_Subset
  <2>3. \A x \in keep : x \in Int
    BY <2>1, <2>2
  <2>. QED
    BY <2>1, <2>2, <2>3
<1>2. all \in Seq(keep) /\ \A k, l \in DOMAIN all : all[k] = all[l] => k = l
  <2>. HIDE DEF keep
  <2>1. Down(keep) \in Seq(keep) /\ \A k, l \in DOMAIN Down(keep) : Down(keep)[k] = Down(keep)[l] => k = l
    BY <1>1, DownLists
  <2>2. /\ Reversed(Down(keep)) \in Seq(keep)
        /\ \A k, l \in DOMAIN Reversed(Down(keep)) : Reversed(Down(keep))[k] = Reversed(Down(keep))[l] => k = l
    BY <2>1, ReversedLists, ReversedOnce
  <2>. QED
    BY <2>1, <2>2
<1>3. all \in Seq(Exist)
  BY <1>1, <1>2, SeqGrows
<1>. HIDE DEF keep, all
<1>4. first \in Nat \ {0} /\ PageSize \in Nat
  <2>1. PageSize \in Nat
    BY IdsAreNumbers
  <2>2. q.p * PageSize \in Nat
    BY <2>1
  <2>. QED
    BY <2>1, <2>2
<1>. HIDE DEF first
<1>5. Len(all) \in Nat
  BY <1>3, ListElim
<1>6. last \in Int /\ last <= Len(all)
  BY <1>4, <1>5
<1>. HIDE DEF last
<1>. DEFINE page == SubSeq(all, first, last)
<1>7. page \in Seq(Exist) /\ \A k, l \in DOMAIN page : page[k] = page[l] => k = l
  BY <1>2, <1>3, <1>4, <1>6, SubOnce
<1>8. Listed(q) = AsRows(page)
  BY DEF Listed, page, last, first, all, keep
<1>. HIDE DEF page
<1>. QED
  BY <1>7, <1>8, RowsAsked

LEMMA FoundRows ==
    ASSUME ServerOK
    PROVE  /\ Found \in Seq(Told(server.was)) /\ Distinct(Found)
           /\ \A i \in DOMAIN Found : server.rows[Found[i].id] = Found[i].st
<1>. DEFINE keep == Exist \cap Matching
<1>1. keep \subseteq Exist /\ keep \subseteq Int /\ IsFiniteSet(keep)
  <2>1. keep \subseteq Exist /\ keep \subseteq Ids
    BY DEF Exist
  <2>. HIDE DEF keep
  <2>2. IsFiniteSet(keep) /\ Ids \subseteq Nat
    BY <2>1, IdsAreNumbers, FS_Subset
  <2>3. \A x \in keep : x \in Int
    BY <2>1, <2>2
  <2>. QED
    BY <2>1, <2>2, <2>3
<1>. HIDE DEF keep
<1>2. Down(keep) \in Seq(keep) /\ \A k, l \in DOMAIN Down(keep) : Down(keep)[k] = Down(keep)[l] => k = l
  BY <1>1, DownLists
<1>3. Down(keep) \in Seq(Exist)
  BY <1>1, <1>2, SeqGrows
<1>4. Found = AsRows(Down(keep))
  BY DEF Found, keep
<1>. QED
  BY <1>2, <1>3, <1>4, RowsAsked

\* The service leaves its rows as they are.
LEMMA AnswersOnly ==
    ASSUME IInv, Moved, NEW n \in DOMAIN net, net[n].st = "sent", NEW st \in {"ok", "refused"}, Served(n, st),
           UNCHANGED <<server, history>>, AnswerOK(net'[n], server.was),
           st = "ok" => /\ net[n].req # "delete"
                        /\ \A i \in DOMAIN net'[n].data : server.rows[net'[n].data[i].id] = net'[n].data[i].st
    PROVE  IInv'
<1>1. ServerOK' /\ Remembers(server.was, server'.was) /\ history' \in Histories
  BY Counts DEF IInv, ServerOK, Remembers
<1>2. QuietOK'
  BY ServedQuiet
<1>. QED
  BY <1>1, <1>2, ServedKeeps

LEMMA ListKeeps ==
    ASSUME IInv, Moved, NEW n \in DOMAIN net, net[n].st = "sent", List(n) \/ Search(n)
    PROVE  IInv'
<1>. DEFINE rows == IF net[n].req = "list" THEN Listed(net[n].arg) ELSE Found
<1>1. net[n].req \in {"list", "search"} /\ Answered(n, rows) /\ UNCHANGED server
  BY DEF List, Search
<1>2. /\ rows \in Seq(Told(server.was)) /\ Distinct(rows)
      /\ \A i \in DOMAIN rows : server.rows[rows[i].id] = rows[i].st
  <2>1. ServerOK
    BY DEF IInv
  <2>2. CASE net[n].req = "list"
    <3>1. net[n].arg.p \in Nat
      BY <2>2, RequestFacts DEF AskOK, ListOK
    <3>. QED
      BY <2>1, <2>2, <3>1, ListedRows
  <2>. QED
    BY <2>1, <2>2, FoundRows
<1>. HIDE DEF rows
<1>3. Served(n, "ok") /\ net'[n].data = rows /\ UNCHANGED history
  BY <1>1, AnswerFields
<1>4. net'[n].req = net[n].req
  BY <1>3 DEF Served
<1>5. AnswerOK(net'[n], server.was)
  BY <1>1, <1>2, <1>3, <1>4 DEF AnswerOK
<1>. QED
  BY <1>1, <1>2, <1>3, <1>5, AnswersOnly

LEMMA TouchKeeps ==
    ASSUME IInv, Moved, NEW n \in DOMAIN net, net[n].st = "sent", Touch(n)
    PROVE  IInv'
<1>. DEFINE id == net[n].arg.id
            data == <<[id |-> id, st |-> server.rows[id]]>>
<1>1. net[n].req = "touch" /\ server.rows[id] # None /\ Answered(n, data) /\ UNCHANGED server
  BY DEF Touch
<1>2. id \in Ids
  BY <1>1, RequestFacts DEF AskOK, Changing
<1>3. server.rows[id] \in Statuses /\ server.rows[id] \in server.was[id]
  BY <1>1, <1>2 DEF IInv, ServerOK
<1>4. data \in Seq(Told(server.was)) /\ Len(data) = 1 /\ data[1].id = id /\ data[1].st = server.rows[id]
  BY <1>2, <1>3 DEF Told
<1>. HIDE DEF data
<1>5. Served(n, "ok") /\ net'[n].data = data /\ UNCHANGED history
  BY <1>1, AnswerFields
<1>6. net'[n].req = net[n].req /\ net'[n].arg = net[n].arg
  BY <1>5 DEF Served
<1>7. AnswerOK(net'[n], server.was)
  BY <1>1, <1>4, <1>5, <1>6 DEF AnswerOK
<1>8. \A i \in DOMAIN data : server.rows[data[i].id] = data[i].st
  <2>1. DOMAIN data = 1 .. 1
    BY <1>4, ListElim
  <2>. QED
    BY <1>4, <2>1
<1>. QED
  BY <1>1, <1>5, <1>7, <1>8, AnswersOnly

LEMMA TellKeeps ==
    ASSUME IInv, Moved, NEW n \in DOMAIN net, net[n].st = "sent", Tell(n) \/ Refused(n)
    PROVE  IInv'
<1>1. CASE Tell(n)
  <2>1. net[n].req = "tell" /\ Answered(n, <<>>) /\ UNCHANGED server
    BY <1>1 DEF Tell
  <2>2. Served(n, "ok") /\ net'[n].data = <<>> /\ UNCHANGED history
    BY <2>1, AnswerFields
  <2>3. net'[n].req = net[n].req
    BY <2>2 DEF Served
  <2>4. <<>> \in Seq(Told(server.was))
    BY EmptySeq
  <2>5. AnswerOK(net'[n], server.was)
    BY <2>1, <2>2, <2>3, <2>4 DEF AnswerOK
  <2>. QED
    BY <2>1, <2>2, <2>5, AnswersOnly
<1>2. CASE Refused(n)
  <2>1. Served(n, "refused") /\ net'[n].data = net[n].data /\ UNCHANGED <<server, history>>
    BY <1>2, AnswerFields
  <2>2. net'[n].req = net[n].req /\ net'[n].st = "refused"
    BY <2>1 DEF Served
  <2>3. AnswerOK(net'[n], server.was)
    BY <2>1, <2>2, RequestFacts DEF AnswerOK
  <2>. QED
    BY <2>1, <2>3, AnswersOnly
<1>. QED
  BY <1>1, <1>2

LEMMA UpdateKeeps ==
    ASSUME IInv, Moved, NEW n \in DOMAIN net, net[n].st = "sent", Update(n)
    PROVE  IInv'
<1>. DEFINE id == net[n].arg.id
            st == net[n].arg.st
            data == <<[id |-> id, st |-> st]>>
<1>1. net[n].req = "put" /\ server' = Changed(id, st) /\ Answered(n, data)
  BY DEF Update
<1>2. id \in Ids /\ st \in Statuses
  BY <1>1, RequestFacts DEF AskOK, Changing
<1>3. ServerOK /\ st \in Statuses \cup {None}
  BY <1>2 DEF IInv
<1>. HIDE DEF st, id
<1>4. /\ ServerOK' /\ Remembers(server.was, server'.was) /\ server'.rows[id] = st /\ st \in server'.was[id]
      /\ \A x \in Ids : x # id => server'.rows[x] = server.rows[x]
  BY <1>1, <1>2, <1>3, ChangedKeeps
<1>5. /\ data \in Seq(Told(server'.was)) /\ Len(data) = 1 /\ data[1].id = id /\ data[1].st = st
      /\ DOMAIN data = 1 .. 1
  BY <1>2, <1>4 DEF Told
<1>. HIDE DEF data
<1>6. Served(n, "ok") /\ net'[n].data = data /\ UNCHANGED history
  BY <1>1, AnswerFields
<1>7. net'[n].req = net[n].req /\ net'[n].arg.id = id /\ net'[n].arg.st = st
  BY <1>6 DEF Served, id, st
<1>8. AnswerOK(net'[n], server'.was)
  BY <1>1, <1>4, <1>5, <1>6, <1>7 DEF AnswerOK
<1>9. \A i \in DOMAIN data : server'.rows[data[i].id] = data[i].st
  BY <1>4, <1>5
<1>10. QuietOK'
  BY <1>1, <1>4, <1>6, <1>9, ServedQuiet DEF id
<1>11. history' \in Histories
  BY <1>6, Counts
<1>. QED
  BY <1>4, <1>6, <1>8, <1>10, <1>11, ServedKeeps

LEMMA DeleteKeeps ==
    ASSUME IInv, Moved, NEW n \in DOMAIN net, net[n].st = "sent", Delete(n)
    PROVE  IInv'
<1>. DEFINE id == net[n].arg.id
<1>1. net[n].req = "delete" /\ server' = Changed(id, None) /\ Answered(n, <<>>)
  BY DEF Delete
<1>2. id \in Ids /\ ServerOK /\ None \in Statuses \cup {None}
  BY <1>1, RequestFacts DEF AskOK, Changing, IInv
<1>. HIDE DEF id
<1>3. /\ ServerOK' /\ Remembers(server.was, server'.was) /\ server'.rows[id] = None /\ None \in server'.was[id]
      /\ \A x \in Ids : x # id => server'.rows[x] = server.rows[x]
  BY <1>1, <1>2, ChangedKeeps
<1>4. Served(n, "ok") /\ net'[n].data = <<>> /\ UNCHANGED history
  BY <1>1, AnswerFields
<1>5. net'[n].req = net[n].req /\ net'[n].arg.id = id
  BY <1>4 DEF Served, id
<1>6. <<>> \in Seq(Told(server'.was))
  BY EmptySeq
<1>7. AnswerOK(net'[n], server'.was)
  BY <1>1, <1>3, <1>4, <1>5, <1>6 DEF AnswerOK
<1>8. QuietOK'
  BY <1>1, <1>3, <1>4, ServedQuiet DEF id
<1>9. history' \in Histories
  BY <1>4, Counts
<1>. QED
  BY <1>3, <1>4, <1>7, <1>8, <1>9, ServedKeeps

LEMMA PurgeKeeps ==
    ASSUME IInv, Moved, NEW n \in DOMAIN net, net[n].st = "sent", Purge(n)
    PROVE  IInv'
<1>. DEFINE gone == {id \in Ids : server.rows[id] \in {Disabled, Used}}
            rows == [id \in Ids |-> IF id \in gone THEN None ELSE server.rows[id]]
            was == [id \in Ids |-> server.was[id] \cup IF id \in gone THEN {None} ELSE {}]
<1>1. net[n].req = "purge" /\ server' = [rows |-> rows, was |-> was] /\ Answered(n, <<>>)
  BY DEF Purge
<1>. HIDE DEF gone
<1>2. /\ server \in [rows : [Ids -> Statuses \cup {None}], was : [Ids -> SUBSET (Statuses \cup {None})]]
      /\ \A id \in Ids : server.rows[id] \in server.was[id]
  BY DEF IInv, ServerOK
<1>3. server'.rows = rows /\ server'.was = was
  BY <1>1
<1>4. rows \in [Ids -> Statuses \cup {None}] /\ was \in [Ids -> SUBSET (Statuses \cup {None})]
  BY <1>2
<1>5. \A id \in Ids : rows[id] \in was[id] /\ server.was[id] \subseteq was[id]
  BY <1>2
<1>. HIDE DEF rows, was
<1>6. ServerOK' /\ Remembers(server.was, server'.was)
  BY <1>1, <1>3, <1>4, <1>5 DEF ServerOK, Remembers
<1>7. Served(n, "ok") /\ net'[n].data = <<>> /\ UNCHANGED history
  BY <1>1, AnswerFields
<1>8. net'[n].req = "purge" /\ DOMAIN net' = DOMAIN net
  BY <1>1, <1>7 DEF Served
<1>9. <<>> \in Seq(Told(server'.was))
  BY EmptySeq
<1>10. AnswerOK(net'[n], server'.was)
  BY <1>7, <1>8, <1>9 DEF AnswerOK
<1>11. QuietOK'
  <2>1. ~tidy'
    BY <1>8 DEF Moved, Tidy
  <2>. QED
    BY <2>1 DEF QuietOK, Quiet
<1>12. history' \in Histories
  BY <1>7, Counts
<1>. QED
  BY <1>6, <1>7, <1>10, <1>11, <1>12, ServedKeeps

LEMMA BreakKeeps ==
    ASSUME IInv, Moved, NEW n \in DOMAIN net, net[n].st = "sent", Break(n)
    PROVE  IInv'
<1>1. Served(n, "failed") /\ net'[n].data = net[n].data /\ history' = [history EXCEPT !.faults = @ + 1]
  BY AnswerFields DEF Break
<1>2. history' \in Histories /\ history'.faults # 0
  BY <1>1, Counts DEF Histories
<1>3. ServerOK' /\ Remembers(server.was, server'.was)
  <2>1. CASE UNCHANGED server
    BY <2>1 DEF IInv, ServerOK, Remembers
  <2>2. CASE \/ net[n].req = "delete" /\ server' = Changed(net[n].arg.id, None)
             \/ net[n].req = "put" /\ server' = Changed(net[n].arg.id, net[n].arg.st)
    <3>1. ServerOK /\ net[n].arg.id \in Ids
      BY <2>2, RequestFacts DEF IInv, AskOK, Changing
    <3>2. CASE server' = Changed(net[n].arg.id, None)
      <4>1. None \in Statuses \cup {None}
        OBVIOUS
      <4>. QED
        BY <3>1, <3>2, <4>1, ChangedKeeps
    <3>3. CASE net[n].req = "put" /\ server' = Changed(net[n].arg.id, net[n].arg.st)
      <4>1. net[n].arg.st \in Statuses \cup {None}
        BY <3>3, RequestFacts DEF AskOK, Changing
      <4>. QED
        BY <3>1, <3>3, <4>1, ChangedKeeps
    <3>. QED
      BY <2>2, <3>2, <3>3
  <2>. QED
    BY <2>1, <2>2 DEF Break
<1>4. net'[n].req = net[n].req /\ net'[n].st = "failed"
  BY <1>1 DEF Served
<1>5. AnswerOK(net'[n], server'.was)
  <2>1. AnswerOK(net[n], server'.was)
    BY <1>3, RequestFacts, RequestGrows
  <2>. QED
    BY <1>1, <1>4, <2>1 DEF AnswerOK
<1>6. QuietOK'
  BY <1>2 DEF QuietOK, Quiet
<1>. QED
  BY <1>1, <1>2, <1>3, <1>5, <1>6, ServedKeeps

LEMMA ServeKeeps == ASSUME IInv, Moved, Serve PROVE IInv'
<1>1. PICK n \in DOMAIN net :
         /\ net[n].st = "sent"
         /\ List(n) \/ Search(n) \/ Update(n) \/ Delete(n) \/ Touch(n) \/ Purge(n) \/ Tell(n) \/ Refused(n) \/ Break(n)
  BY DEF Serve
<1>. QED
  BY <1>1, ListKeeps, UpdateKeeps, DeleteKeeps, TouchKeeps, PurgeKeeps, TellKeeps, BreakKeeps

\* Somebody else changes the rows: these are no quiet times.
LEMMA ElsewhereKeeps == ASSUME IInv, Moved, Elsewhere PROVE IInv'
<1>1. /\ history' = [history EXCEPT !.alone = FALSE, !.faults = @ + 1] /\ UNCHANGED <<view, net, calls>>
  BY DEF Elsewhere, Disturbed
<1>2. history' \in Histories /\ history'.faults # 0
  <2>1. history \in [alone : BOOLEAN, lost : BOOLEAN, faults : Nat]
    BY Counts DEF Histories
  <2>2. history.faults \in Nat /\ history'.faults = history.faults + 1
    BY <1>1, <2>1
  <2>. DEFINE more == history.faults + 1
  <2>a. more \in Nat /\ history' = [history EXCEPT !.alone = FALSE, !.faults = more]
    BY <1>1, <2>2
  <2>. HIDE DEF more
  <2>3. history' \in [alone : BOOLEAN, lost : BOOLEAN, faults : Nat]
    BY <2>1, <2>a
  <2>. QED
    BY <2>2, <2>3 DEF Histories
<1>3. ServerOK' /\ Remembers(server.was, server'.was)
  <2>1. PICK id \in Ids : \E st \in Statuses \cup {None} : server' = Changed(id, st)
    BY DEF Elsewhere, Statuses
  <2>. QED
    BY <2>1, ChangedKeeps DEF IInv
<1>4. PageOK(view, server.was)'
  <2>1. PageOK(view, server'.was)
    BY <1>3, PageGrows DEF IInv
  <2>. QED
    BY <1>1, <2>1 DEF PageOK, SwitchOK, Past, Row, Distinct
<1>5. RequestsOK'
  <2>1. \A m \in DOMAIN net' : AskOK(view'.at, net'[m], server'.was) /\ AnswerOK(net'[m], server'.was)
    BY <1>1, <1>3, RequestFacts, RequestGrows
  <2>. QED
    BY <2>1 DEF RequestsOK, AskOK, AnswerOK, ListOK, ForOK, PurgeOK, IndexOK, Past, Told, Row, Distinct
<1>6. CountOK'
  BY <1>1, <1>2, CountEnds
<1>7. EraOK'
  BY <1>1 DEF IInv, EraOK, Holds
<1>8. QuietOK'
  BY <1>2 DEF QuietOK, Quiet
<1>. QED
  BY <1>3, <1>4, <1>5, <1>6, <1>7, <1>8 DEF IInv

----------------------------------------------------------------------------
(***************************************************************************)
(* What the handlers of all tables have in common.                         *)
(***************************************************************************)
LEMMA Kinds ==
    /\ \A at \in Defaults : at \notin Airs /\ at \notin Berries /\ at \notin Splicing
    /\ \A at \in Airs : at \notin Defaults /\ at \notin Berries /\ at \notin Functional
    /\ \A at \in Berries : at \notin Defaults /\ at \notin Airs /\ at \notin Functional
                           /\ at \notin Pushing /\ at \notin Splicing
    /\ Berry <=> view.at \in Berries
  BY DEF Defaults, Airs, Berries, Splicing, Pushing, Functional, Berry

LEMMA ViewFacts ==
    ASSUME IInv
    PROVE  /\ "at" \in DOMAIN view /\ "rows" \in DOMAIN view /\ "page" \in DOMAIN view
           /\ view.rows \in Seq(Past(server.was))
           /\ view.page \in Nat /\ (view.at \notin Berries => view.page # 0)
           /\ view.at \in Airs => "size" \in DOMAIN view /\ view.size \in Nat \ {0}
           /\ view.at \in Pushing => "era" \in DOMAIN view
           /\ view.at \in Berries => "switch" \in DOMAIN view /\ SwitchOK(view.switch, server.was)
           /\ view.at = "default.Users" => Distinct(view.rows)
  BY DEF IInv, PageOK

LEMMA ViewRow ==
    ASSUME IInv, NEW i \in DOMAIN view.rows
    PROVE  /\ view.rows[i] \in Past(server.was) /\ view.rows[i].id \in Ids /\ view.rows[i].st \in Statuses
           /\ Enabled \in Statuses /\ Disabled \in Statuses
<1>1. view.rows[i] \in Past(server.was)
  BY ViewFacts, ListElim
<1>. QED
  BY <1>1 DEF Past, Row, Statuses

\* The rows on a page are rows of the list.
LEMMA ShownRows ==
    ASSUME NEW T, NEW rows \in Seq(T), NEW page \in Nat \ {0}, NEW size \in Nat
    PROVE  Shown(rows, page, size) \subseteq DOMAIN rows
<1>1. Len(rows) \in Nat /\ DOMAIN rows = 1 .. Len(rows)
  BY ListElim
<1>2. (page - 1) * size \in Nat /\ page * size \in Nat
  <2>1. page - 1 \in Nat
    OBVIOUS
  <2>. QED
    BY <2>1
<1>. DEFINE last == IF page * size > Len(rows) THEN Len(rows) ELSE page * size
            first == (page - 1) * size
<1>3. last \in Int /\ last <= Len(rows) /\ first \in Nat
  BY <1>1, <1>2
<1>4. Shown(rows, page, size) = first + 1 .. last
  BY DEF Shown
<1>. HIDE DEF first, last
<1>. QED
  BY <1>1, <1>3, <1>4

\* v shows the rows of the page as they are.
Kept(v) ==
    /\ DOMAIN v = DOMAIN view /\ v.at = view.at /\ v.rows = view.rows
    /\ v.page \in Nat /\ (v.at \notin Berries => v.page # 0)
    /\ v.at \in Airs => v.size \in Nat \ {0}
    /\ v.at \in Pushing => v.era = view.era
    /\ v.at \in Berries => v.switch = view.switch

LEMMA KeptProper ==
    ASSUME IInv, NEW v, Kept(v)
    PROVE  Proper(v) /\ v.rows = view.rows /\ v.rows \in Seq(Still)
<1>1. PageOK(v, server.was)
  BY DEF IInv, PageOK, Kept
<1>. QED
  BY <1>1, StillRows DEF Proper, Kept

\* v shows other rows.
Listing(v) ==
    /\ DOMAIN v = DOMAIN view /\ v.at = view.at
    /\ v.rows \in Seq(Past(server.was))
    /\ v.page \in Nat /\ (v.at \notin Berries => v.page # 0)
    /\ v.at \in Airs => v.size \in Nat \ {0}
    /\ v.at \in Pushing => Fresh(v.era)
    /\ v.at \in Berries => SwitchOK(v.switch, server.was)
    /\ v.at = "default.Users" => Distinct(v.rows)

LEMMA ListingProper ==
    ASSUME IInv, NEW v, Listing(v)
    PROVE  Proper(v) /\ PageOK(v, server.was) /\ v.at = view.at
  BY DEF IInv, PageOK, Listing, Proper

LEMMA KeptShows == ASSUME IInv, Moved, NEW v, Kept(v), Shows(v) PROVE IInv'
  BY KeptProper, ShowsKeep

\* The handler that n belongs to goes on.
LEMMA BackFacts ==
    ASSUME IInv, NEW at, NEW fn, NEW n \in Back(at, fn)
    PROVE  /\ n \in DOMAIN net /\ view.at = at /\ net[n].fn = fn
           /\ net[n].st \in {"ok", "refused", "failed"}
           /\ ForOK(fn, net[n].req)
           /\ net[n].req = "list" => ListOK(at, net[n].arg, server.was)
           /\ net[n].req = "purge" => PurgeOK(at, net[n].arg)
           /\ net[n].req \in Changing => net[n].arg.id \in Ids /\ (net[n].req = "put" => net[n].arg.st \in Statuses)
           /\ fn = "berryManage" => net[n].arg.page \in Nat
           /\ fn \in Indexed => IndexOK(net[n])
<1>1. n \in DOMAIN net /\ view.at = at /\ net[n].fn = fn /\ net[n].st \in {"ok", "refused", "failed"}
  BY DEF Back
<1>. QED
  BY <1>1, RequestFacts DEF AskOK

LEMMA KeptEnds ==
    ASSUME IInv, Moved, NEW n \in DOMAIN net, NEW v, Kept(v), ~Done(n), Ends(n, v)
    PROVE  IInv'
<1>1. Proper(v) /\ v.rows = view.rows
  BY KeptProper
<1>2. v.rows \in Seq(Good(n))
  BY <1>1, ViewRows
<1>. QED
  BY <1>1, <1>2, EndsKeep

LEMMA ListingEnds ==
    ASSUME IInv, Moved, NEW n \in DOMAIN net, net[n].req # "tell", NEW v, Listing(v),
           v.rows \in Seq(Good(n)), Ends(n, v)
    PROVE  IInv'
  BY ListingProper, EndsKeep

LEMMA KeptIsListed == ASSUME IInv PROVE Kept(view)
  BY ViewFacts DEF Kept

LEMMA SameEnds ==
    ASSUME IInv, Moved, NEW n \in DOMAIN net, ~Done(n), Ends(n, view)
    PROVE  IInv'
  BY KeptIsListed, KeptEnds

\* The lists a load may show.
LEMMA LoadedRows ==
    ASSUME IInv, NEW n \in DOMAIN net, net[n].req = "list", net[n].st = "ok"
    PROVE  /\ Rows(n) \in Seq(Good(n)) /\ Rows(n) \in Seq(Past(server.was))
           /\ Distinct(Rows(n))
           /\ view.at \notin Functional =>
                 \A at \in Nat : /\ Spliced(net[n].was, at, Rows(n)) \in Seq(Good(n))
                                 /\ Spliced(net[n].was, at, Rows(n)) \in Seq(Past(server.was))
<1>1. ~Done(n)
  BY DEF Done
<1>2. Rows(n) \in Seq(Good(n)) /\ Rows(n) \in Seq(Past(server.was)) /\ Distinct(Rows(n))
  BY DataRows
<1>3. ASSUME view.at \notin Functional, NEW at \in Nat
      PROVE  /\ Spliced(net[n].was, at, Rows(n)) \in Seq(Good(n))
             /\ Spliced(net[n].was, at, Rows(n)) \in Seq(Past(server.was))
  <2>1. UsesWas(n)
    BY <1>3 DEF UsesWas
  <2>2. net[n].was \in Seq(Good(n)) /\ net[n].was \in Seq(Past(server.was))
    BY <1>1, <2>1, WasRows, RequestFacts
  <2>. QED
    BY <1>2, <2>2, SplicedLists
<1>. QED
  BY <1>2, <1>3

LEMMA FoundShown ==
    ASSUME IInv, NEW n \in DOMAIN net, net[n].req = "search", net[n].st = "ok"
    PROVE  Rows(n) \in Seq(Good(n)) /\ Rows(n) \in Seq(Past(server.was)) /\ Distinct(Rows(n))
  BY DataRows

(***************************************************************************)
(* Requests that are sent while the page shows v.                          *)
(***************************************************************************)
LEMMA LoadNew ==
    ASSUME IInv, NEW v, Proper(v), NEW fn \in Lists, NEW arg, ListOK(view.at, arg, server.was),
           view.at \in Pushing => arg.era = v.era,
           NEW was \in Seq(Past(server.was)),
           \/ was = v.rows \/ view.at \in Functional \cup Berries
           \/ ~Quiet /\ view.at \notin Pushing
    PROVE  NewOK(v, Request(fn, "list", arg, was))
<1>. DEFINE q == Request(fn, "list", arg, was)
<1>1. /\ q.fn = fn /\ q.req = "list" /\ q.arg = arg /\ q.was = was /\ q.st = "sent" /\ q.data = <<>>
      /\ DOMAIN q = {"fn", "req", "arg", "was", "st", "data"}
  BY RequestFields
<1>. HIDE DEF q
<1>2. ForOK(q.fn, q.req) /\ q.req \notin Changing /\ q.fn \notin Indexed /\ q.fn # "berryManage"
  BY <1>1 DEF ForOK, Lists, Searching, Indexed, Numbered, Purging, Telling, Changing
<1>3. AskOK(v.at, q, server.was)
  BY <1>1, <1>2 DEF AskOK, Proper
<1>4. view.at \in Pushing => view.at \notin Functional /\ view.at \notin Berries
  BY DEF Pushing, Functional, Berries
<1>. QED
  BY <1>1, <1>3, <1>4, Kinds DEF NewOK, q, Proper, Quiet

LEMMA SearchNew ==
    ASSUME IInv, NEW v, Proper(v), NEW fn \in Searching, NEW arg
    PROVE  NewOK(v, Request(fn, "search", arg, <<>>))
<1>. DEFINE q == Request(fn, "search", arg, <<>>)
<1>1. /\ q.fn = fn /\ q.req = "search" /\ q.arg = arg /\ q.was = <<>> /\ q.st = "sent" /\ q.data = <<>>
      /\ DOMAIN q = {"fn", "req", "arg", "was", "st", "data"}
  BY RequestFields
<1>. HIDE DEF q
<1>2. ForOK(q.fn, q.req) /\ q.req \notin Changing /\ q.fn \notin Indexed /\ q.fn # "berryManage"
  BY <1>1 DEF ForOK, Lists, Searching, Indexed, Numbered, Purging, Telling, Changing
<1>3. q.was \in Seq(Past(server.was))
  BY <1>1, EmptySeq
<1>4. AskOK(v.at, q, server.was)
  BY <1>1, <1>2, <1>3 DEF AskOK
<1>. QED
  BY <1>1, <1>2, <1>4 DEF NewOK, q

LEMMA TellNew ==
    ASSUME IInv, NEW v, Proper(v), NEW fn \in Telling, NEW arg, view.at \notin Pushing,
           NEW was \in Seq(Past(server.was))
    PROVE  NewOK(v, Request(fn, "tell", arg, was))
<1>. DEFINE q == Request(fn, "tell", arg, was)
<1>1. /\ q.fn = fn /\ q.req = "tell" /\ q.arg = arg /\ q.was = was /\ q.st = "sent" /\ q.data = <<>>
      /\ DOMAIN q = {"fn", "req", "arg", "was", "st", "data"}
  BY RequestFields
<1>. HIDE DEF q
<1>2. ForOK(q.fn, q.req) /\ q.req \notin Changing /\ q.fn \notin Indexed /\ q.fn # "berryManage"
  BY <1>1 DEF ForOK, Lists, Searching, Indexed, Numbered, Purging, Telling, Changing
<1>3. AskOK(v.at, q, server.was)
  BY <1>1, <1>2 DEF AskOK
<1>. QED
  BY <1>1, <1>2, <1>3 DEF NewOK, q, Proper

LEMMA PurgeNew ==
    ASSUME IInv, NEW v, Proper(v), NEW fn \in Purging, NEW arg, PurgeOK(view.at, arg), view.at \notin Pushing,
           NEW was \in Seq(Past(server.was))
    PROVE  NewOK(v, Request(fn, "purge", arg, was))
<1>. DEFINE q == Request(fn, "purge", arg, was)
<1>1. /\ q.fn = fn /\ q.req = "purge" /\ q.arg = arg /\ q.was = was /\ q.st = "sent" /\ q.data = <<>>
      /\ DOMAIN q = {"fn", "req", "arg", "was", "st", "data"}
  BY RequestFields
<1>. HIDE DEF q
<1>2. ForOK(q.fn, q.req) /\ q.req \notin Changing /\ q.fn \notin Indexed /\ q.fn # "berryManage"
  BY <1>1 DEF ForOK, Lists, Searching, Indexed, Numbered, Purging, Telling, Changing
<1>3. AskOK(v.at, q, server.was)
  BY <1>1, <1>2 DEF AskOK, Proper
<1>. QED
  BY <1>1, <1>2, <1>3 DEF NewOK, q, Proper

\* A button of the row at idx.
LEMMA ManageNew ==
    ASSUME IInv, NEW v, Kept(v), NEW fn \in Indexed, NEW req \in Changing, NEW arg,
           arg.idx \in DOMAIN view.rows, arg.id = view.rows[arg.idx].id,
           req = "put" => arg.st \in Statuses, view.at \in Pushing => arg.era = view.era
    PROVE  NewOK(v, Request(fn, req, arg, view.rows))
<1>. DEFINE q == Request(fn, req, arg, view.rows)
<1>1. /\ q.fn = fn /\ q.req = req /\ q.arg = arg /\ q.was = view.rows /\ q.st = "sent" /\ q.data = <<>>
      /\ DOMAIN q = {"fn", "req", "arg", "was", "st", "data"}
  BY RequestFields
<1>. HIDE DEF q
<1>2. ForOK(q.fn, q.req) /\ q.req # "list" /\ q.req # "purge" /\ q.fn # "berryManage"
  BY <1>1 DEF ForOK, Lists, Searching, Indexed, Numbered, Purging, Telling, Changing
<1>3. q.arg.id \in Ids /\ q.was \in Seq(Past(server.was)) /\ IndexOK(q)
  BY <1>1, ViewRow, ViewFacts DEF IndexOK
<1>4. AskOK(v.at, q, server.was)
  BY <1>1, <1>2, <1>3 DEF AskOK
<1>. QED
  BY <1>1, <1>4 DEF NewOK, q, Kept

\* A change of a row whose answer is applied to the list shown then.
LEMMA NumberedNew ==
    ASSUME IInv, NEW v, Proper(v), view.at \in Functional, NEW fn \in Numbered, NEW req \in Changing, NEW arg,
           arg.id \in Ids, req = "put" => arg.st \in Statuses
    PROVE  NewOK(v, Request(fn, req, arg, <<>>))
<1>. DEFINE q == Request(fn, req, arg, <<>>)
<1>1. /\ q.fn = fn /\ q.req = req /\ q.arg = arg /\ q.was = <<>> /\ q.st = "sent" /\ q.data = <<>>
      /\ DOMAIN q = {"fn", "req", "arg", "was", "st", "data"}
  BY RequestFields
<1>. HIDE DEF q
<1>2. /\ ForOK(q.fn, q.req) /\ q.req # "list" /\ q.req # "purge" /\ q.fn # "berryManage" /\ q.fn \notin Indexed
      /\ view.at \notin Pushing
  BY <1>1 DEF ForOK, Lists, Searching, Indexed, Numbered, Purging, Telling, Changing, Functional, Pushing
<1>3. q.was \in Seq(Past(server.was))
  BY <1>1, EmptySeq
<1>4. AskOK(v.at, q, server.was)
  BY <1>1, <1>2, <1>3 DEF AskOK
<1>. QED
  BY <1>1, <1>2, <1>4 DEF NewOK, q, Proper

----------------------------------------------------------------------------
(***************************************************************************)
(* The tables of default.                                                  *)
(***************************************************************************)
LEMMA LoadSends ==
    ASSUME IInv, Moved, NEW v, Kept(v), NEW fn \in Lists, NEW arg, ListOK(view.at, arg, server.was),
           view.at \in Pushing => arg.era = view.era,
           NEW was \in Seq(Past(server.was)), was = view.rows \/ view.at \in Functional,
           SendsWith(v, fn, "list", arg, was) \/ SavedThen(v, fn, "list", arg, was)
    PROVE  IInv'
<1>1. Proper(v) /\ v.rows = view.rows /\ (view.at \in Pushing => arg.era = v.era)
  BY KeptProper DEF Kept
<1>2. NewOK(v, Request(fn, "list", arg, was))
  BY <1>1, LoadNew
<1>. QED
  BY <1>1, <1>2, SendsKeep, SavedKeep

LEMMA SearchSends ==
    ASSUME IInv, Moved, NEW v, Kept(v), NEW fn \in Searching, NEW arg,
           Sends(v, fn, "search", arg) \/ SavedThen(v, fn, "search", arg, <<>>)
    PROVE  IInv'
<1>1. Proper(v) /\ v.rows = view.rows
  BY KeptProper
<1>2. NewOK(v, Request(fn, "search", arg, <<>>))
  BY <1>1, SearchNew
<1>. QED
  BY <1>1, <1>2, SendsKeep, SavedKeep DEF Sends

LEMMA TellSends ==
    ASSUME IInv, Moved, NEW v, Kept(v), NEW fn \in Telling, NEW arg, view.at \notin Pushing,
           NEW was \in Seq(Past(server.was)), SendsWith(v, fn, "tell", arg, was)
    PROVE  IInv'
<1>1. Proper(v) /\ v.rows = view.rows
  BY KeptProper
<1>2. NewOK(v, Request(fn, "tell", arg, was))
  BY <1>1, TellNew
<1>. QED
  BY <1>1, <1>2, SendsKeep

LEMMA ManageSends ==
    ASSUME IInv, Moved, NEW v, Kept(v), NEW fn \in Indexed, NEW req \in Changing, NEW arg,
           arg.idx \in DOMAIN view.rows, arg.id = view.rows[arg.idx].id,
           req = "put" => arg.st \in Statuses, view.at \in Pushing => arg.era = view.era,
           SendsWith(v, fn, req, arg, view.rows)
    PROVE  IInv'
<1>1. Proper(v) /\ v.rows = view.rows
  BY KeptProper
<1>2. NewOK(v, Request(fn, req, arg, view.rows))
  BY ManageNew
<1>. QED
  BY <1>1, <1>2, SendsKeep

\* The page of a default table turns, its other fields may change.
LEMMA DefaultKept ==
    ASSUME IInv, view.at \in Defaults, NEW v, DOMAIN v = DOMAIN view, v.at = view.at, v.rows = view.rows,
           v.page \in Nat \ {0}, view.at \in Pushing => v.era = view.era
    PROVE  Kept(v)
  BY Kinds DEF Kept

LEMMA PageFields ==
    ASSUME NEW p, NEW goto
    PROVE  /\ [Page(p) EXCEPT !.goto = goto].p = p /\ [Page(p) EXCEPT !.goto = goto].goto = goto
           /\ Page(p).p = p /\ Page(p).goto = 0
  BY DEF Page

LEMMA DefaultLoaded ==
    ASSUME IInv, view.at \in Defaults, view.at \notin Functional, NEW fn \in Lists, NEW n \in Back(view.at, fn),
           net[n].st # "failed"
    PROVE  /\ net[n].req = "list" /\ ~Done(n) /\ net[n].arg.goto \in Nat
           /\ Loaded(n, view.rows) \in Seq(Good(n)) /\ Loaded(n, view.rows) \in Seq(Past(server.was))
           /\ Turned(n, view.page) \in Nat \ {0}
<1>1. /\ n \in DOMAIN net /\ net[n].st \in {"ok", "refused"} /\ net[n].req = "list"
      /\ ListOK(view.at, net[n].arg, server.was)
  BY BackFacts DEF ForOK
<1>2. net[n].arg.p \in Nat /\ net[n].arg.goto \in Nat
  BY <1>1 DEF ListOK
<1>3. ~Done(n)
  BY <1>1 DEF Done
<1>4. view.rows \in Seq(Good(n)) /\ view.rows \in Seq(Past(server.was))
  BY <1>1, <1>3, ViewRows, ViewFacts
<1>5. Loaded(n, view.rows) \in Seq(Good(n)) /\ Loaded(n, view.rows) \in Seq(Past(server.was))
  <2>1. CASE net[n].st = "refused"
    BY <1>4, <2>1 DEF Loaded
  <2>2. CASE net[n].st = "ok"
    <3>. DEFINE at == net[n].arg.p * PageSize
    <3>1. at \in Nat
      BY <1>2, IdsAreNumbers
    <3>. HIDE DEF at
    <3>2. /\ Rows(n) \in Seq(Good(n)) /\ Rows(n) \in Seq(Past(server.was))
          /\ Spliced(net[n].was, at, Rows(n)) \in Seq(Good(n))
          /\ Spliced(net[n].was, at, Rows(n)) \in Seq(Past(server.was))
      BY <1>1, <2>2, <3>1, LoadedRows
    <3>. QED
      BY <2>2, <3>2 DEF Loaded, at
  <2>. QED
    BY <1>1, <2>1, <2>2
<1>6. view.page \in Nat \ {0}
  BY ViewFacts, Kinds
<1>. QED
  BY <1>1, <1>2, <1>3, <1>5, <1>6 DEF Turned

LEMMA SortedShown ==
    ASSUME IInv
    PROVE  /\ Sorted(view.rows) \in Seq(Still) /\ SortedDown(view.rows) \in Seq(Still)
           /\ Sorted(view.rows) \in Seq(Past(server.was)) /\ SortedDown(view.rows) \in Seq(Past(server.was))
<1>1. view.rows \in Seq(Still) /\ view.rows \in Seq(Past(server.was))
  BY StillRows, ViewFacts
<1>2. (\A r \in Still : r.id \in Int) /\ (\A r \in Past(server.was) : r.id \in Int)
  BY GoodIsPast
<1>. QED
  BY <1>1, <1>2, SortedLists

\* The handler marks its row in a copy of the list of its closure.
LEMMA MarkingEnds ==
    ASSUME IInv, Moved, NEW n \in DOMAIN net, net[n].fn \in Indexed, net[n].req \in Changing, net[n].st = "ok",
           view.at \notin Functional, view.at \notin Berries, NEW st, NEW del, Marks(n, st, del),
           NEW v, DOMAIN v = DOMAIN view, v.at = view.at, v.page \in Nat \ {0},
           v.rows = Marked(net[n].was, net[n].was[net[n].arg.idx], st, del),
           view.at \in Airs => v.size \in Nat \ {0}, view.at \in Pushing => Fresh(v.era),
           EndsMarking(n, v, net[n].was[net[n].arg.idx], st, del)
    PROVE  IInv'
<1>. DEFINE o == net[n].was[net[n].arg.idx]
            m == Marked(net[n].was, o, st, del)
<1>1. UsesWas(n) /\ net[n].req # "tell" /\ view.at # "default.Users"
  BY DEF UsesWas, Changing, Functional
<1>2. MarkOK(o, st, del)
  BY DEF Marks
<1>3. m \in Seq(Good(n)) /\ m \in Seq(Past(server.was))
  <2>1. net[n].was \in Seq(Past(server.was))
    BY RequestFacts
  <2>. QED
    BY <1>1, <1>2, <2>1, MarkedRows, MarkedPast
<1>. HIDE DEF o, m
<1>4. v.rows = m
  BY DEF m, o
<1>5. Listing(v)
  BY <1>1, <1>3, <1>4 DEF Listing
<1>6. EndsMarking(n, v, o, st, del)
  BY DEF o
<1>. QED
  BY <1>1, <1>2, <1>3, <1>4, <1>5, <1>6, ListingProper, EndsMarkingKeep

LEMMA TokensKeep == ASSUME IInv, Moved, TokensNext PROVE IInv'
<1>1. view.at = "default.Tokens"
  BY DEF TokensNext, loadTokensReturns, onPaginationChangeTokens, refreshTokens, onCopy, manageToken,
     manageTokenReturns, searchTokens, searchTokensReturns, handleKeywordChangeTokens, sortToken, At, Back
<1>2. view.at \in Defaults /\ view.at \notin Functional /\ view.at \notin Pushing
  BY <1>1 DEF Defaults, Functional, Pushing
<1>3. view.at \notin Airs /\ view.at \notin Berries /\ view.at \notin Splicing /\ view.at # "default.Users"
  BY <1>1, <1>2, Kinds
<1>4. /\ "at" \in DOMAIN view /\ "rows" \in DOMAIN view /\ "page" \in DOMAIN view /\ view.page \in Nat \ {0}
      /\ view.rows \in Seq(Past(server.was))
  BY <1>3, ViewFacts
<1>5. ASSUME NEW v, Kept(v), NEW p \in Nat, NEW goto \in Nat, loadTokens(v, p, goto) PROVE IInv'
  <2>. DEFINE arg == [Page(p) EXCEPT !.goto = goto]
  <2>1. arg.p = p /\ arg.goto = goto
    BY PageFields
  <2>2. SendsWith(v, "loadTokens", "list", arg, view.rows)
    BY <1>5 DEF loadTokens
  <2>. HIDE DEF arg
  <2>3. ListOK(view.at, arg, server.was)
    BY <1>2, <1>3, <2>1 DEF ListOK
  <2>4. "loadTokens" \in Lists
    BY DEF Lists
  <2>. QED
    BY <1>2, <1>4, <1>5, <2>2, <2>3, <2>4, LoadSends
<1>6. CASE loadTokensReturns
  <2>1. PICK n \in Back("default.Tokens", "loadTokens") :
           \/ Rejected(n)
           \/ /\ net[n].st # "failed"
              /\ Ends(n, [view EXCEPT !.rows = Loaded(n, @), !.loading = FALSE, !.page = Turned(n, @)])
    BY <1>6 DEF loadTokensReturns
  <2>2. n \in DOMAIN net
    BY BackFacts
  <2>3. CASE net[n].st # "failed" /\ Ends(n, [view EXCEPT !.rows = Loaded(n, @), !.loading = FALSE, !.page = Turned(n, @)])
    <3>. DEFINE v == [view EXCEPT !.rows = Loaded(n, @), !.loading = FALSE, !.page = Turned(n, @)]
    <3>1. "loadTokens" \in Lists
      BY DEF Lists
    <3>2. /\ net[n].req = "list" /\ Turned(n, view.page) \in Nat \ {0}
          /\ Loaded(n, view.rows) \in Seq(Good(n)) /\ Loaded(n, view.rows) \in Seq(Past(server.was))
      BY <1>1, <1>2, <2>3, <3>1, DefaultLoaded
    <3>3. /\ DOMAIN v = DOMAIN view /\ v.at = view.at /\ v.rows = Loaded(n, view.rows)
          /\ v.page = Turned(n, view.page)
      BY <1>4
    <3>. HIDE DEF v
    <3>4. Listing(v)
      BY <1>2, <1>3, <3>2, <3>3 DEF Listing
    <3>5. Ends(n, v)
      BY <2>3 DEF v
    <3>. QED
      BY <2>2, <3>2, <3>3, <3>4, <3>5, ListingEnds
  <2>. QED
    BY <2>1, <2>2, <2>3, RejectedKeep
<1>7. CASE onPaginationChangeTokens
  <2>1. PICK p \in TokensPages :
           IF p = Pages(view.rows) + 1 THEN loadTokens(view, p - 1, p) ELSE Shows([view EXCEPT !.page = p])
    BY <1>7 DEF onPaginationChangeTokens
  <2>2. p \in Nat \ {0} /\ p - 1 \in Nat
    BY DEF TokensPages
  <2>3. Kept(view) /\ Kept([view EXCEPT !.page = p])
    BY <1>2, <1>4, <2>2, DefaultKept
  <2>4. CASE loadTokens(view, p - 1, p)
    BY <1>5, <2>2, <2>3, <2>4
  <2>. QED
    BY <2>1, <2>3, <2>4, KeptShows
<1>8. CASE refreshTokens
  <2>1. Kept([view EXCEPT !.loading = TRUE]) /\ view.page - 1 \in Nat
    BY <1>2, <1>4, DefaultKept
  <2>2. loadTokens([view EXCEPT !.loading = TRUE], view.page - 1, 0) /\ 0 \in Nat
    BY <1>8 DEF refreshTokens
  <2>. QED
    BY <1>5, <2>1, <2>2
<1>9. CASE onCopy \/ handleKeywordChangeTokens
  <2>1. PICK k : Shows([view EXCEPT !.keyword = k])
    BY <1>9 DEF onCopy, handleKeywordChangeTokens
  <2>2. Kept([view EXCEPT !.keyword = k])
    BY <1>2, <1>4, DefaultKept
  <2>. QED
    BY <2>1, <2>2, KeptShows
<1>10. CASE manageToken
  <2>1. PICK i \in Shown(view.rows, view.page, PageSize) :
           \E b \in TokenButtons(i) : SendsWith(view, "manageToken", b[1], b[2], view.rows)
    BY <1>10 DEF manageToken
  <2>a. PICK b \in TokenButtons(i) : SendsWith(view, "manageToken", b[1], b[2], view.rows)
    BY <2>1
  <2>2. i \in DOMAIN view.rows
    BY <1>4, IdsAreNumbers, ShownRows
  <2>3. /\ b[1] \in Changing /\ b[2].idx = i /\ b[2].id = view.rows[i].id
        /\ b[1] = "put" => b[2].st \in Statuses
    BY <2>2, ViewRow DEF TokenButtons, Changing
  <2>4. "manageToken" \in Indexed
    BY DEF Indexed
  <2>. QED
    BY <1>2, <2>a, <2>2, <2>3, <2>4, KeptIsListed, ManageSends
<1>11. CASE manageTokenReturns
  <2>1. PICK n \in Back("default.Tokens", "manageToken") :
           LET was == net[n].was
               o == was[net[n].arg.idx]
               del == net[n].req = "delete" \/ o.del
               st == IF net[n].req = "delete" THEN o.st ELSE net[n].data[1].st
           IN
           \/ Rejected(n)
           \/ net[n].st = "refused" /\ Ends(n, view)
           \/ net[n].st = "ok" /\ EndsMarking(n, [view EXCEPT !.rows = Marked(was, o, st, del)], o, st, del)
    BY <1>11 DEF manageTokenReturns
  <2>. DEFINE o == net[n].was[net[n].arg.idx]
              del == net[n].req = "delete" \/ o.del
              st == IF net[n].req = "delete" THEN o.st ELSE net[n].data[1].st
              v == [view EXCEPT !.rows = Marked(net[n].was, o, st, del)]
  <2>2. "manageToken" \in Indexed /\ n \in DOMAIN net /\ net[n].fn \in Indexed
    BY BackFacts DEF Indexed
  <2>3. net[n].req \in Changing /\ net[n].req # "tell"
    BY <2>2, BackFacts DEF ForOK, Changing
  <2>4. CASE net[n].st = "refused" /\ Ends(n, view)
    BY <2>2, <2>4, SameEnds DEF Done
  <2>5. CASE net[n].st = "ok" /\ EndsMarking(n, v, o, st, del)
    <3>1. Marks(n, st, del)
      <4>1. /\ o \in Past(server.was)
            /\ net[n].req # "delete" => Marks(n, net[n].data[1].st, o.del)
            /\ net[n].req = "delete" => Marks(n, o.st, TRUE)
        BY <2>2, <2>5, AnswerMarks
      <4>2. CASE net[n].req = "delete"
        <5>1. del = TRUE /\ st = o.st
          BY <4>2
        <5>. QED
          BY <4>1, <4>2, <5>1
      <4>3. CASE net[n].req # "delete"
        <5>1. o.del \in BOOLEAN
          BY <4>1 DEF Past, Row
        <5>2. del = o.del /\ st = net[n].data[1].st
          BY <4>3, <5>1
        <5>. QED
          BY <4>1, <4>3, <5>2
      <4>. QED
        BY <4>2, <4>3
    <3>. HIDE DEF st, del
    <3>2. /\ DOMAIN v = DOMAIN view /\ v.at = view.at /\ v.rows = Marked(net[n].was, o, st, del)
          /\ v.page = view.page
      BY <1>4
    <3>. HIDE DEF v
    <3>. QED
      BY <1>2, <1>3, <1>4, <2>2, <2>3, <2>5, <3>1, <3>2, MarkingEnds
  <2>. QED
    BY <2>1, <2>2, <2>4, <2>5, RejectedKeep
<1>12. CASE searchTokens
  <2>1. CASE loadTokens(view, 0, 1)
    <3>1. 0 \in Nat /\ 1 \in Nat
      OBVIOUS
    <3>. QED
      BY <1>5, <2>1, <3>1, KeptIsListed
  <2>2. CASE Sends([view EXCEPT !.searching = TRUE], "searchTokens", "search", <<>>)
    <3>1. Kept([view EXCEPT !.searching = TRUE]) /\ "searchTokens" \in Searching
      BY <1>2, <1>4, DefaultKept DEF Searching
    <3>. QED
      BY <2>2, <3>1, SearchSends
  <2>. QED
    BY <1>12, <2>1, <2>2 DEF searchTokens
<1>13. CASE searchTokensReturns
  <2>1. PICK n \in Back("default.Tokens", "searchTokens") :
           \/ Rejected(n)
           \/ net[n].st = "refused" /\ Ends(n, [view EXCEPT !.searching = FALSE])
           \/ net[n].st = "ok" /\ Ends(n, [view EXCEPT !.searching = FALSE, !.rows = Rows(n), !.page = 1])
    BY <1>13 DEF searchTokensReturns
  <2>2. n \in DOMAIN net /\ net[n].req = "search"
    BY BackFacts DEF ForOK, Searching
  <2>3. CASE net[n].st = "refused" /\ Ends(n, [view EXCEPT !.searching = FALSE])
    <3>1. Kept([view EXCEPT !.searching = FALSE]) /\ ~Done(n)
      BY <1>2, <1>4, <2>2, DefaultKept DEF Done
    <3>. QED
      BY <2>2, <2>3, <3>1, KeptEnds
  <2>4. CASE net[n].st = "ok" /\ Ends(n, [view EXCEPT !.searching = FALSE, !.rows = Rows(n), !.page = 1])
    <3>. DEFINE v == [view EXCEPT !.searching = FALSE, !.rows = Rows(n), !.page = 1]
    <3>1. DOMAIN v = DOMAIN view /\ v.at = view.at /\ v.rows = Rows(n) /\ v.page = 1
      BY <1>4
    <3>. HIDE DEF v
    <3>2. Rows(n) \in Seq(Good(n)) /\ Rows(n) \in Seq(Past(server.was))
      BY <2>2, <2>4, FoundShown
    <3>3. Listing(v)
      BY <1>2, <1>3, <3>1, <3>2 DEF Listing
    <3>4. Ends(n, v)
      BY <2>4 DEF v
    <3>. QED
      BY <2>2, <3>1, <3>2, <3>3, <3>4, ListingEnds
  <2>. QED
    BY <2>1, <2>2, <2>3, <2>4, RejectedKeep
<1>14. CASE sortToken
  <2>. DEFINE v == [view EXCEPT !.rows = Sorted(@), !.loading = FALSE]
  <2>1. DOMAIN v = DOMAIN view /\ v.at = view.at /\ v.rows = Sorted(view.rows) /\ v.page = view.page
    BY <1>4
  <2>2. Shows(v)
    BY <1>14 DEF sortToken
  <2>. HIDE DEF v
  <2>3. Listing(v)
    BY <1>2, <1>3, <1>4, <2>1, SortedShown DEF Listing
  <2>. QED
    BY <2>1, <2>2, <2>3, ListingProper, SortedShown, ShowsKeep
<1>. QED
  BY <1>6, <1>7, <1>8, <1>9, <1>10, <1>11, <1>12, <1>13, <1>14 DEF TokensNext

LEMMA AppendedLists ==
    ASSUME NEW T, NEW rows \in Seq(T), NEW new \in Seq(T), Distinct(rows), Distinct(new)
    PROVE  Appended(rows, new) \in Seq(T) /\ Distinct(Appended(rows, new))
<1>. DEFINE S == {k \in DOMAIN new : \A i \in DOMAIN rows : rows[i].id # new[k].id}
            more == Filtered(new, S)
            all == rows \o more
<1>a. S \in SUBSET DOMAIN new /\ \A k \in S, i \in DOMAIN rows : rows[i].id # new[k].id
  OBVIOUS
<1>. HIDE DEF S
<1>1. more \in Seq(T) /\ (\A k \in DOMAIN more : \E i \in S : more[k] = new[i]) /\ Distinct(more)
  BY <1>a, FilteredLists
<1>. HIDE DEF more
<1>2. \A k \in DOMAIN more, i \in DOMAIN rows : rows[i].id # more[k].id
  BY <1>a, <1>1
<1>3. Len(rows) \in Nat /\ DOMAIN rows = 1 .. Len(rows) /\ Len(more) \in Nat /\ DOMAIN more = 1 .. Len(more)
  BY <1>1, ListElim
<1>4. /\ all \in Seq(T) /\ Len(all) = Len(rows) + Len(more)
      /\ \A k \in 1 .. Len(rows) + Len(more) : all[k] = IF k <= Len(rows) THEN rows[k] ELSE more[k - Len(rows)]
  BY <1>1, ConcatProperties
<1>. HIDE DEF all
<1>5. DOMAIN all = 1 .. Len(rows) + Len(more)
  BY <1>4, ListElim
<1>6. \A k \in DOMAIN all : \/ k \in DOMAIN rows /\ all[k] = rows[k]
                            \/ k > Len(rows) /\ k - Len(rows) \in DOMAIN more /\ all[k] = more[k - Len(rows)]
  BY <1>3, <1>4, <1>5
<1>7. Distinct(all)
  <2>. SUFFICES ASSUME NEW k \in DOMAIN all, NEW l \in DOMAIN all, all[k].id = all[l].id PROVE k = l
    BY DEF Distinct
  <2>1. CASE k \in DOMAIN rows /\ all[k] = rows[k]
    <3>1. l \in DOMAIN rows /\ all[l] = rows[l]
      BY <1>2, <1>6, <2>1
    <3>. QED
      BY <2>1, <3>1 DEF Distinct
  <2>2. CASE k > Len(rows) /\ k - Len(rows) \in DOMAIN more /\ all[k] = more[k - Len(rows)]
    <3>1. l > Len(rows) /\ l - Len(rows) \in DOMAIN more /\ all[l] = more[l - Len(rows)]
      BY <1>2, <1>6, <2>2
    <3>2. k - Len(rows) = l - Len(rows)
      BY <1>1, <2>2, <3>1 DEF Distinct
    <3>3. k \in Int /\ l \in Int
      BY <1>5
    <3>. QED
      BY <1>3, <3>2, <3>3
  <2>. QED
    BY <1>6, <2>1, <2>2
<1>. QED
  BY <1>4, <1>7 DEF Appended, all, more, S

LEMMA UsersFields ==
    ASSUME NEW p, NEW order, NEW goto
    PROVE  UsersPage(p, order, goto).p = p /\ UsersPage(p, order, goto).goto = goto
  BY DEF UsersPage, Page

LEMMA UsersKeep == ASSUME IInv, Moved, UsersNext PROVE IInv'
<1>1. view.at = "default.Users"
  BY DEF UsersNext, loadUsersReturns, onPaginationChangeUsers, setOrderBy, manageUser, manageUserReturns,
     searchUsers, searchUsersReturns, setSearchKeywordUsers, At, Back
<1>2. view.at \in Defaults /\ view.at \in Functional /\ view.at \notin Pushing
  BY <1>1 DEF Defaults, Functional, Pushing
<1>3. view.at \notin Airs /\ view.at \notin Berries /\ view.at \notin Splicing
  BY <1>1, <1>2, Kinds
<1>4. /\ "at" \in DOMAIN view /\ "rows" \in DOMAIN view /\ "page" \in DOMAIN view /\ view.page \in Nat \ {0}
      /\ view.rows \in Seq(Past(server.was)) /\ Distinct(view.rows)
  BY <1>1, <1>3, ViewFacts
<1>5. <<>> \in Seq(Past(server.was)) /\ "loadUsers" \in Lists
  BY EmptySeq DEF Lists
<1>6. \A p, goto \in Nat : \A order : ListOK(view.at, UsersPage(p, order, goto), server.was)
  BY <1>2, <1>3, UsersFields DEF ListOK
<1>7. ASSUME NEW v, Kept(v), NEW p \in Nat, NEW goto \in Nat, NEW order,
             Sends(v, "loadUsers", "list", UsersPage(p, order, goto))
      PROVE  IInv'
  <2>. DEFINE arg == UsersPage(p, order, goto)
  <2>1. SendsWith(v, "loadUsers", "list", arg, <<>>)
    BY <1>7 DEF Sends
  <2>2. ListOK(view.at, arg, server.was)
    BY <1>6
  <2>. HIDE DEF arg
  <2>. QED
    BY <1>2, <1>5, <1>7, <2>1, <2>2, LoadSends
<1>8. ASSUME NEW n \in DOMAIN net, net[n].req \in {"list", "search"}, net[n].st = "ok", NEW v,
             DOMAIN v = DOMAIN view, v.at = view.at, v.page \in Nat \ {0},
             v.rows = Rows(n) \/ v.rows = Appended(view.rows, Rows(n)), Ends(n, v)
      PROVE  IInv'
  <2>1. Rows(n) \in Seq(Good(n)) /\ Rows(n) \in Seq(Past(server.was)) /\ Distinct(Rows(n))
    BY <1>8, LoadedRows, FoundShown
  <2>2. view.rows \in Seq(Good(n))
    <3>1. ~Done(n)
      BY <1>8 DEF Done
    <3>. QED
      BY <3>1, ViewRows
  <2>3. v.rows \in Seq(Good(n)) /\ v.rows \in Seq(Past(server.was)) /\ Distinct(v.rows)
    BY <1>4, <1>8, <2>1, <2>2, AppendedLists
  <2>4. Listing(v)
    BY <1>2, <1>3, <1>8, <2>3 DEF Listing
  <2>. QED
    BY <1>8, <2>3, <2>4, ListingEnds
<1>9. CASE loadUsersReturns
  <2>1. PICK n \in Back("default.Users", "loadUsers") :
           LET data == Rows(n)
               more == Len(data) > 0 /\ net[n].arg.goto # 0
           IN Ends(n, IF net[n].st # "ok" THEN [view EXCEPT !.loading = FALSE]
                      ELSE [view EXCEPT !.loading = FALSE, !.hasMore = Len(data) = PageSize,
                               !.rows = IF net[n].arg.p = 0 THEN data ELSE Appended(@, data),
                               !.page = IF more THEN net[n].arg.goto ELSE @])
    BY <1>9 DEF loadUsersReturns
  <2>2. n \in DOMAIN net /\ net[n].req = "list" /\ ListOK(view.at, net[n].arg, server.was)
    BY <1>1, <1>5, BackFacts DEF ForOK
  <2>3. CASE net[n].st # "ok"
    <3>1. Kept([view EXCEPT !.loading = FALSE]) /\ ~Done(n)
      BY <1>2, <1>4, <2>2, DefaultKept DEF Done
    <3>2. Ends(n, [view EXCEPT !.loading = FALSE])
      BY <2>1, <2>3
    <3>. QED
      BY <2>2, <3>1, <3>2, KeptEnds
  <2>4. CASE net[n].st = "ok"
    <3>. DEFINE rows == IF net[n].arg.p = 0 THEN Rows(n) ELSE Appended(view.rows, Rows(n))
                page == IF Len(Rows(n)) > 0 /\ net[n].arg.goto # 0 THEN net[n].arg.goto ELSE view.page
                v == [view EXCEPT !.loading = FALSE, !.hasMore = Len(Rows(n)) = PageSize, !.rows = rows, !.page = page]
    <3>1. Ends(n, v)
      BY <2>1, <2>4
    <3>2. page \in Nat \ {0}
      BY <1>2, <1>4, <2>2 DEF ListOK
    <3>3. rows = Rows(n) \/ rows = Appended(view.rows, Rows(n))
      OBVIOUS
    <3>. HIDE DEF rows, page
    <3>4. DOMAIN v = DOMAIN view /\ v.at = view.at /\ v.page = page /\ v.rows = rows
      BY <1>4
    <3>. HIDE DEF v
    <3>. QED
      BY <1>8, <2>2, <2>4, <3>1, <3>2, <3>3, <3>4
  <2>. QED
    BY <2>3, <2>4
<1>10. CASE onPaginationChangeUsers
  <2>1. PICK p \in 1 .. LoadedPageCount + (IF view.hasMore THEN 1 ELSE 0) :
           IF p > LoadedPageCount THEN loadUsers(view, p - 1, p) ELSE Shows([view EXCEPT !.page = p])
    BY <1>10 DEF onPaginationChangeUsers
  <2>2. p \in Nat \ {0} /\ p - 1 \in Nat
    OBVIOUS
  <2>3. Kept([view EXCEPT !.loading = TRUE]) /\ Kept([view EXCEPT !.page = p])
    BY <1>2, <1>4, <2>2, DefaultKept
  <2>4. CASE loadUsers(view, p - 1, p)
    <3>1. Sends([view EXCEPT !.loading = TRUE], "loadUsers", "list", UsersPage(p - 1, view.orderBy, p))
      BY <2>4 DEF loadUsers
    <3>. QED
      BY <1>7, <2>2, <2>3, <3>1
  <2>. QED
    BY <2>1, <2>3, <2>4, KeptShows
<1>11. CASE setOrderBy
  <2>1. PICK order : Sends([view EXCEPT !.orderBy = order, !.page = 1, !.loading = TRUE],
                           "loadUsers", "list", UsersPage(0, order, 0))
    BY <1>11 DEF setOrderBy
  <2>. DEFINE v == [view EXCEPT !.orderBy = order, !.page = 1, !.loading = TRUE]
  <2>a. DOMAIN v = DOMAIN view /\ v.at = view.at /\ v.rows = view.rows /\ v.page = 1
    BY <1>4
  <2>. HIDE DEF v
  <2>b. Kept(v)
    BY <1>2, <2>a, DefaultKept
  <2>2. Kept([view EXCEPT !.orderBy = order, !.page = 1, !.loading = TRUE]) /\ 0 \in Nat
    BY <2>b DEF v
  <2>. QED
    BY <1>7, <2>1, <2>2
<1>12. CASE manageUser
  <2>1. PICK i \in Shown(Visible, view.page, PageSize) :
           \E b \in UserButtons(Visible[i]) : Sends(view, "manageUser", b[1], b[2])
    BY <1>12 DEF manageUser
  <2>2. PICK b \in UserButtons(Visible[i]) : Sends(view, "manageUser", b[1], b[2])
    BY <2>1
  <2>3. Visible \in Seq(Past(server.was))
    BY <1>4, FilteredLists DEF Visible
  <2>4. i \in DOMAIN Visible
    BY <1>4, <2>3, IdsAreNumbers, ShownRows
  <2>5. Visible[i].id \in Ids
    BY <2>3, <2>4, ListElim, GoodIsPast
  <2>6. b[1] \in Changing /\ b[2].id \in Ids /\ (b[1] = "put" => b[2].st \in Statuses)
    BY <2>5 DEF UserButtons, Changing, Statuses
  <2>7. "manageUser" \in Numbered /\ Proper(view)
    BY ProperView DEF Numbered
  <2>8. NewOK(view, Request("manageUser", b[1], b[2], <<>>))
    BY <1>2, <2>6, <2>7, NumberedNew
  <2>9. SendsWith(view, "manageUser", b[1], b[2], <<>>)
    BY <2>2 DEF Sends
  <2>. QED
    BY <2>7, <2>8, <2>9, SendsKeep
<1>13. CASE manageUserReturns
  <2>1. PICK n \in Back("default.Users", "manageUser") :
           LET Changes(user) ==
                   IF user.id # net[n].arg.id THEN user
                   ELSE IF net[n].req = "delete" THEN [user EXCEPT !.del = TRUE]
                   ELSE [user EXCEPT !.st = net[n].data[1].st]
           IN Ends(n, IF net[n].st # "ok" THEN view
                      ELSE [view EXCEPT !.rows = [i \in DOMAIN @ |-> Changes(@[i])]])
    BY <1>13 DEF manageUserReturns
  <2>2. n \in DOMAIN net /\ net[n].fn \in Numbered
    BY BackFacts DEF Numbered
  <2>3. net[n].req # "tell"
    BY <2>2, BackFacts DEF ForOK, Changing
  <2>4. CASE net[n].st # "ok"
    <3>1. Ends(n, view) /\ ~Done(n)
      BY <2>1, <2>4 DEF Done
    <3>. QED
      BY <2>2, <3>1, SameEnds
  <2>5. CASE net[n].st = "ok"
    <3>. DEFINE Changes(user) == IF user.id # net[n].arg.id THEN user
                                 ELSE IF net[n].req = "delete" THEN [user EXCEPT !.del = TRUE]
                                 ELSE [user EXCEPT !.st = net[n].data[1].st]
                rows == [i \in DOMAIN view.rows |-> Changes(view.rows[i])]
                v == [view EXCEPT !.rows = rows]
    <3>1. Ends(n, v)
      BY <2>1, <2>5
    <3>2. ASSUME NEW i \in DOMAIN view.rows
          PROVE  Changes(view.rows[i]) \in Good(n) /\ Changes(view.rows[i]).id = view.rows[i].id
      <4>1. CASE view.rows[i].id # net[n].arg.id
        BY <2>2, <4>1, OtherRows
      <4>2. CASE view.rows[i].id = net[n].arg.id
        BY <2>2, <2>5, <4>2, AnsweredRow
      <4>. QED
        BY <4>1, <4>2
    <3>3. \A i \in DOMAIN view.rows : rows[i] = Changes(view.rows[i])
      OBVIOUS
    <3>4. rows = [i \in DOMAIN view.rows |-> rows[i]]
      OBVIOUS
    <3>5. DOMAIN v = DOMAIN view /\ v.at = view.at /\ v.rows = rows /\ v.page = view.page
      BY <1>4
    <3>. HIDE DEF rows, v
    <3>6. \A i \in DOMAIN view.rows : rows[i] \in Good(n) /\ rows[i].id = view.rows[i].id
      BY <3>2, <3>3
    <3>. HIDE DEF Changes
    <3>7. rows \in Seq(Good(n)) /\ DOMAIN rows = DOMAIN view.rows
      BY <1>4, <3>4, <3>6, MappedList
    <3>8. rows \in Seq(Past(server.was))
      BY <3>7, GoodIsPast, SeqGrows
    <3>9. Distinct(rows)
      BY <1>4, <3>6, <3>7 DEF Distinct
    <3>10. Listing(v)
      BY <1>2, <1>3, <1>4, <3>5, <3>8, <3>9 DEF Listing
    <3>. QED
      BY <2>2, <2>3, <3>1, <3>5, <3>7, <3>10, ListingEnds
  <2>. QED
    BY <2>4, <2>5
<1>14. CASE searchUsers
  <2>. DEFINE v == [view EXCEPT !.orderBy = "", !.page = 1, !.loading = TRUE]
              first == Request("loadUsers", "list", UsersPage(0, view.orderBy, 0), <<>>)
              second == Request("loadUsers", "list", UsersPage(0, "", 0), <<>>)
  <2>1. \/ Sends([view EXCEPT !.searching = TRUE], "searchUsers", "search", <<>>)
        \/ loadUsers(v, 0, 0) \/ SendsBoth(v, first, second)
    BY <1>14 DEF searchUsers
  <2>a. DOMAIN v = DOMAIN view /\ v.at = view.at /\ v.rows = view.rows /\ v.page = 1
    BY <1>4
  <2>. HIDE DEF v
  <2>c. Kept(v)
    BY <1>2, <2>a, DefaultKept
  <2>2. Kept(v) /\ Kept([v EXCEPT !.loading = TRUE]) /\ Kept([view EXCEPT !.searching = TRUE]) /\ 0 \in Nat
    <3>1. Kept([v EXCEPT !.loading = TRUE])
      BY <1>2, <1>4, <2>a, DefaultKept
    <3>2. Kept([view EXCEPT !.searching = TRUE])
      BY <1>2, <1>4, DefaultKept
    <3>. QED
      BY <2>c, <3>1, <3>2
  <2>3. "searchUsers" \in Searching
    BY DEF Searching
  <2>4. CASE loadUsers(v, 0, 0)
    <3>1. Sends([v EXCEPT !.loading = TRUE], "loadUsers", "list", UsersPage(0, view.orderBy, 0))
      BY <2>4 DEF loadUsers
    <3>. QED
      BY <1>7, <2>2, <3>1
  <2>5. CASE SendsBoth(v, first, second)
    <3>. HIDE DEF v
    <3>1. Proper(v)
      BY <2>2, KeptProper
    <3>2. \A order : ListOK(view.at, UsersPage(0, order, 0), server.was)
      BY <1>6, <2>2
    <3>3. NewOK(v, first) /\ NewOK(v, second)
      BY <1>2, <1>5, <3>1, <3>2, LoadNew
    <3>. HIDE DEF first, second
    <3>. QED
      BY <2>5, <3>1, <3>3, SendsBothKeep
  <2>. QED
    BY <2>1, <2>2, <2>3, <2>4, <2>5, SearchSends
<1>15. CASE searchUsersReturns
  <2>1. PICK n \in Back("default.Users", "searchUsers") :
           Ends(n, IF net[n].st # "ok" THEN [view EXCEPT !.searching = FALSE]
                   ELSE [view EXCEPT !.searching = FALSE, !.rows = Rows(n), !.hasMore = FALSE, !.page = 1])
    BY <1>15 DEF searchUsersReturns
  <2>2. n \in DOMAIN net /\ net[n].req = "search"
    BY BackFacts DEF ForOK, Searching
  <2>3. CASE net[n].st # "ok"
    <3>1. Kept([view EXCEPT !.searching = FALSE]) /\ ~Done(n)
      BY <1>2, <1>4, <2>2, DefaultKept DEF Done
    <3>2. Ends(n, [view EXCEPT !.searching = FALSE])
      BY <2>1, <2>3
    <3>. QED
      BY <2>2, <3>1, <3>2, KeptEnds
  <2>4. CASE net[n].st = "ok"
    <3>. DEFINE v == [view EXCEPT !.searching = FALSE, !.rows = Rows(n), !.hasMore = FALSE, !.page = 1]
    <3>1. Ends(n, v)
      BY <2>1, <2>4
    <3>2. DOMAIN v = DOMAIN view /\ v.at = view.at /\ v.page = 1 /\ v.rows = Rows(n)
      BY <1>4
    <3>. HIDE DEF v
    <3>. QED
      BY <1>8, <2>2, <2>4, <3>1, <3>2
  <2>. QED
    BY <2>3, <2>4
<1>16. CASE setSearchKeywordUsers
  <2>1. PICK k : Shows([view EXCEPT !.keyword = k])
    BY <1>16 DEF setSearchKeywordUsers
  <2>2. Kept([view EXCEPT !.keyword = k])
    BY <1>2, <1>4, DefaultKept
  <2>. QED
    BY <2>1, <2>2, KeptShows
<1>. QED
  BY <1>9, <1>10, <1>11, <1>12, <1>13, <1>14, <1>15, <1>16 DEF UsersNext

\* A record with the fields of another one.
LEMMA WithOld == ASSUME NEW r, NEW s, NEW x \in DOMAIN r PROVE With(r, s)[x] = r[x]
  BY DEF With

LEMMA WithNew ==
    ASSUME NEW r, NEW s, NEW x \in DOMAIN s, x \notin DOMAIN r
    PROVE  With(r, s)[x] = s[x]
  BY DEF With

LEMMA WithBoth == ASSUME NEW r, NEW s PROVE DOMAIN With(r, s) = DOMAIN r \cup DOMAIN s
  BY DEF With

\* A page is pushed by the handler of a default table or one of air.
LEMMA PushedEnds ==
    ASSUME IInv, Moved, NEW n \in DOMAIN net, net[n].req = "list", net[n].st = "ok", view.at \in Pushing,
           NEW v, DOMAIN v = DOMAIN view, v.at = view.at, v.page \in Nat \ {0}, view.at \in Airs => v.size \in Nat \ {0},
           EndsPushing(n, v, Rows(n))
    PROVE  IInv'
<1>. DEFINE longer == net[n].was \o Rows(n)
            w == [v EXCEPT !.rows = longer, !.era = net[n].arg.era]
<1>1. "at" \in DOMAIN v /\ "rows" \in DOMAIN v /\ "page" \in DOMAIN v /\ "era" \in DOMAIN v
  BY ViewFacts
<1>2. view.at \in Airs => "size" \in DOMAIN v
  BY ViewFacts
<1>3. view.at \notin Berries /\ view.at # "default.Users" /\ view.at \in Defaults \cup Airs \cup Berries
  BY DEF Pushing, Berries, Defaults, Airs
<1>. HIDE DEF longer
<1>4. DOMAIN w = DOMAIN v /\ w.at = v.at /\ w.rows = longer /\ w.page = v.page /\ w.era = net[n].arg.era
  BY <1>1
<1>5. view.at \in Airs => w.size = v.size
  BY <1>2
<1>. HIDE DEF w
<1>6. w.rows \in Seq(Past(server.was)) => PageOK(w, server.was)
  BY <1>1, <1>2, <1>3, <1>4, <1>5 DEF PageOK
<1>7. w = [v EXCEPT !.rows = net[n].was \o Rows(n), !.era = net[n].arg.era] /\ w.rows = net[n].was \o Rows(n)
  BY <1>4 DEF w, longer
<1>. QED
  BY <1>4, <1>6, <1>7, EndsPushingKeep

LEMMA RedemptionsKeep == ASSUME IInv, Moved, RedemptionsNext PROVE IInv'
<1>1. view.at = "default.Redemptions"
  BY DEF RedemptionsNext, loadRedemptionsReturns, onPaginationChangeRedemptions, manageRedemption,
     manageRedemptionReturns, sortRedemption, refreshRedemptions, At, Back
<1>2. view.at \in Defaults /\ view.at \notin Functional /\ view.at \in Pushing
  BY <1>1 DEF Defaults, Functional, Pushing
<1>3. view.at \notin Airs /\ view.at \notin Berries /\ view.at \notin Splicing /\ view.at # "default.Users"
  BY <1>1, <1>2, Kinds
<1>4. /\ "at" \in DOMAIN view /\ "rows" \in DOMAIN view /\ "page" \in DOMAIN view /\ "era" \in DOMAIN view
      /\ view.page \in Nat \ {0} /\ view.rows \in Seq(Past(server.was))
  BY <1>2, <1>3, ViewFacts
<1>5. Fresh(NewEra)
  BY NewEraFresh
<1>6. ASSUME NEW v, Kept(v), NEW p \in Nat, NEW goto \in Nat, loadRedemptions(v, p, goto) PROVE IInv'
  <2>. DEFINE short == [Page(p) EXCEPT !.goto = goto]
              more == [era |-> view.era]
              arg == With(short, more)
  <2>1. short.p = p /\ short.goto = goto /\ DOMAIN short = {"p", "order", "type", "some", "goto"}
    BY DEF Page
  <2>0. more.era = view.era /\ DOMAIN more = {"era"}
    OBVIOUS
  <2>. HIDE DEF short, more
  <2>2. arg.p = p /\ arg.goto = goto /\ arg.era = view.era
    <3>1. /\ "p" \in DOMAIN short /\ "goto" \in DOMAIN short /\ "era" \in DOMAIN more
          /\ "era" \notin DOMAIN short
      BY <2>0, <2>1
    <3>. QED
      BY <2>0, <2>1, <3>1, WithOld, WithNew
  <2>3. SendsWith(v, "loadRedemptions", "list", arg, view.rows)
    BY <1>6 DEF loadRedemptions, short, more
  <2>. HIDE DEF arg
  <2>4. ListOK(view.at, arg, server.was)
    BY <1>2, <1>3, <2>2 DEF ListOK
  <2>5. "loadRedemptions" \in Lists
    BY DEF Lists
  <2>. QED
    BY <1>4, <1>6, <2>2, <2>3, <2>4, <2>5, LoadSends
<1>7. ASSUME NEW n \in DOMAIN net, net[n].req # "tell", NEW rows \in Seq(Good(n)), NEW v, DOMAIN v = DOMAIN view,
             v.at = view.at, v.page \in Nat \ {0}, v.rows = rows, v.era = NewEra, Ends(n, v)
      PROVE  IInv'
  <2>1. rows \in Seq(Past(server.was))
    BY GoodIsPast, SeqGrows
  <2>2. Listing(v)
    BY <1>3, <1>5, <1>7, <2>1 DEF Listing
  <2>. QED
    BY <1>7, <2>2, ListingEnds
<1>8. CASE loadRedemptionsReturns
  <2>1. PICK n \in Back("default.Redemptions", "loadRedemptions") :
           LET c == net[n]
               v == [view EXCEPT !.loading = FALSE, !.page = Turned(n, @)]
           IN
           \/ Rejected(n)
           \/ c.st = "refused" /\ Ends(n, v)
           \/ c.st = "ok" /\ c.arg.p = 0 /\ Ends(n, [v EXCEPT !.rows = Rows(n), !.era = NewEra])
           \/ c.st = "ok" /\ c.arg.p # 0 /\ EndsPushing(n, v, Rows(n))
    BY <1>8 DEF loadRedemptionsReturns
  <2>. DEFINE v == [view EXCEPT !.loading = FALSE, !.page = Turned(n, @)]
              w == [v EXCEPT !.rows = Rows(n), !.era = NewEra]
  <2>2. n \in DOMAIN net
    BY BackFacts
  <2>3. CASE Rejected(n)
    BY <2>2, <2>3, RejectedKeep
  <2>4. CASE net[n].st # "failed"
    <3>1. "loadRedemptions" \in Lists
      BY DEF Lists
    <3>2. net[n].req = "list" /\ ~Done(n) /\ Turned(n, view.page) \in Nat \ {0}
      BY <1>1, <1>2, <2>4, <3>1, DefaultLoaded
    <3>3. /\ DOMAIN v = DOMAIN view /\ v.at = view.at /\ v.rows = view.rows /\ v.era = view.era
          /\ v.page = Turned(n, view.page)
      BY <1>4
    <3>4. Ends(n, v) \/ (net[n].st = "ok" /\ Ends(n, w)) \/ (net[n].st = "ok" /\ EndsPushing(n, v, Rows(n)))
      BY <2>1, <2>4 DEF Rejected
    <3>. HIDE DEF v
    <3>5. Kept(v)
      BY <1>2, <3>2, <3>3, DefaultKept
    <3>6. CASE net[n].st = "ok" /\ Ends(n, w)
      <4>1. Rows(n) \in Seq(Good(n))
        BY <2>2, <3>2, <3>6, LoadedRows
      <4>2. DOMAIN w = DOMAIN view /\ w.at = view.at /\ w.page = v.page /\ w.rows = Rows(n) /\ w.era = NewEra
        BY <1>4, <3>3
      <4>. HIDE DEF w
      <4>. QED
        BY <1>7, <2>2, <3>2, <3>3, <3>6, <4>1, <4>2
    <3>7. CASE net[n].st = "ok" /\ EndsPushing(n, v, Rows(n))
      BY <1>2, <1>3, <2>2, <3>2, <3>3, <3>7, PushedEnds
    <3>. QED
      BY <2>2, <3>2, <3>4, <3>5, <3>6, <3>7, KeptEnds
  <2>. QED
    BY <2>1, <2>3, <2>4
<1>9. CASE onPaginationChangeRedemptions
  <2>1. PICK p \in RedemptionsPages :
           IF p = Pages(view.rows) + 1 THEN loadRedemptions(view, p - 1, p) ELSE Shows([view EXCEPT !.page = p])
    BY <1>9 DEF onPaginationChangeRedemptions
  <2>2. p \in Nat \ {0} /\ p - 1 \in Nat
    BY DEF RedemptionsPages
  <2>3. Kept(view) /\ Kept([view EXCEPT !.page = p])
    BY <1>2, <1>4, <2>2, DefaultKept
  <2>4. CASE loadRedemptions(view, p - 1, p)
    BY <1>6, <2>2, <2>3, <2>4
  <2>. QED
    BY <2>1, <2>3, <2>4, KeptShows
<1>10. CASE refreshRedemptions
  <2>1. Kept([view EXCEPT !.loading = TRUE]) /\ 0 \in Nat /\ 1 \in Nat
    BY <1>2, <1>4, DefaultKept
  <2>2. loadRedemptions([view EXCEPT !.loading = TRUE], 0, 1)
    BY <1>10 DEF refreshRedemptions
  <2>. QED
    BY <1>6, <2>1, <2>2
<1>11. CASE manageRedemption
  <2>1. PICK i \in Shown(view.rows, view.page, PageSize) :
           \E b \in RedemptionButtons(i) : SendsWith(view, "manageRedemption", b[1], b[2], view.rows)
    BY <1>11 DEF manageRedemption
  <2>2. PICK b \in RedemptionButtons(i) : SendsWith(view, "manageRedemption", b[1], b[2], view.rows)
    BY <2>1
  <2>3. i \in DOMAIN view.rows
    BY <1>4, IdsAreNumbers, ShownRows
  <2>. DEFINE q == [id |-> view.rows[i].id, idx |-> i, era |-> view.era]
              st == IF view.rows[i].st = Enabled THEN Disabled ELSE Enabled
              more == [st |-> st]
  <2>4. b = <<"delete", q>> \/ b = <<"put", With(q, more)>>
    BY DEF RedemptionButtons
  <2>5. q.idx = i /\ q.id = view.rows[i].id /\ q.era = view.era /\ DOMAIN q = {"id", "idx", "era"}
    OBVIOUS
  <2>6. st \in Statuses
    BY DEF Statuses
  <2>0. more.st = st /\ DOMAIN more = {"st"}
    OBVIOUS
  <2>. HIDE DEF q, st, more
  <2>7. /\ With(q, more).idx = i /\ With(q, more).id = view.rows[i].id
        /\ With(q, more).era = view.era /\ With(q, more).st = st
    <3>1. /\ "idx" \in DOMAIN q /\ "id" \in DOMAIN q /\ "era" \in DOMAIN q /\ "st" \in DOMAIN more
          /\ "st" \notin DOMAIN q
      BY <2>0, <2>5
    <3>. QED
      BY <2>0, <2>5, <3>1, WithOld, WithNew
  <2>8. /\ b[1] \in Changing /\ b[2].idx = i /\ b[2].id = view.rows[i].id /\ b[2].era = view.era
        /\ b[1] = "put" => b[2].st \in Statuses
    BY <2>4, <2>5, <2>6, <2>7 DEF Changing
  <2>9. "manageRedemption" \in Indexed
    BY DEF Indexed
  <2>. QED
    BY <2>2, <2>3, <2>8, <2>9, KeptIsListed, ManageSends
<1>12. CASE manageRedemptionReturns
  <2>1. PICK n \in Back("default.Redemptions", "manageRedemption") :
           LET was == net[n].was
               i == net[n].arg.idx
           IN
           \/ Rejected(n)
           \/ net[n].st = "refused" /\ Ends(n, view)
           \/ net[n].st = "ok" /\ net[n].req = "delete"
               /\ Ends(n, [view EXCEPT !.rows = Removed(was, i), !.era = NewEra])
           \/ net[n].st = "ok" /\ net[n].req = "put"
               /\ LET st == net[n].data[1].st IN
                  EndsMarking(n, [view EXCEPT !.rows = Marked(was, was[i], st, FALSE), !.era = NewEra],
                              was[i], st, FALSE)
    BY <1>12 DEF manageRedemptionReturns
  <2>2. "manageRedemption" \in Indexed /\ n \in DOMAIN net /\ net[n].fn \in Indexed
    BY BackFacts DEF Indexed
  <2>3. net[n].req \in Changing /\ net[n].req # "tell" /\ IndexOK(net[n]) /\ UsesWas(n)
    BY <1>2, <2>2, BackFacts DEF ForOK, Changing, UsesWas
  <2>4. CASE net[n].st = "refused" /\ Ends(n, view)
    BY <2>2, <2>4, SameEnds DEF Done
  <2>5. CASE /\ net[n].st = "ok" /\ net[n].req = "delete"
             /\ Ends(n, [view EXCEPT !.rows = Removed(net[n].was, net[n].arg.idx), !.era = NewEra])
    <3>. DEFINE rows == Removed(net[n].was, net[n].arg.idx)
                v == [view EXCEPT !.rows = rows, !.era = NewEra]
    <3>1. rows \in Seq(Good(n))
      BY <2>2, <2>3, RemovedRows DEF IndexOK
    <3>. HIDE DEF rows
    <3>2. DOMAIN v = DOMAIN view /\ v.at = view.at /\ v.page = view.page /\ v.rows = rows /\ v.era = NewEra
      BY <1>4
    <3>3. Ends(n, v)
      BY <2>5 DEF rows
    <3>. HIDE DEF v
    <3>. QED
      BY <1>4, <1>7, <2>2, <2>3, <3>1, <3>2, <3>3
  <2>6. CASE /\ net[n].st = "ok" /\ net[n].req = "put"
             /\ LET was == net[n].was
                    i == net[n].arg.idx
                    st == net[n].data[1].st
                IN  EndsMarking(n, [view EXCEPT !.rows = Marked(was, was[i], st, FALSE), !.era = NewEra],
                                was[i], st, FALSE)
    <3>. DEFINE o == net[n].was[net[n].arg.idx]
                st == net[n].data[1].st
                rows == Marked(net[n].was, o, st, FALSE)
                v == [view EXCEPT !.rows = rows, !.era = NewEra]
    <3>1. Marks(n, st, FALSE)
      BY <2>2, <2>6, AnswerMarks
    <3>2. DOMAIN v = DOMAIN view /\ v.at = view.at /\ v.page = view.page /\ v.rows = rows /\ v.era = NewEra
      BY <1>4
    <3>3. EndsMarking(n, v, o, st, FALSE)
      BY <2>6
    <3>. HIDE DEF v, st
    <3>. QED
      BY <1>2, <1>3, <1>4, <1>5, <2>2, <2>3, <2>6, <3>1, <3>2, <3>3, MarkingEnds
  <2>. QED
    BY <2>1, <2>2, <2>4, <2>5, <2>6, RejectedKeep
<1>13. CASE sortRedemption
  <2>. DEFINE v == [view EXCEPT !.rows = Sorted(@), !.loading = FALSE, !.era = NewEra]
  <2>1. DOMAIN v = DOMAIN view /\ v.at = view.at /\ v.rows = Sorted(view.rows) /\ v.page = view.page /\ v.era = NewEra
    BY <1>4
  <2>2. Shows(v)
    BY <1>13 DEF sortRedemption
  <2>. HIDE DEF v
  <2>3. Listing(v)
    BY <1>3, <1>4, <1>5, <2>1, SortedShown DEF Listing
  <2>. QED
    BY <2>1, <2>2, <2>3, ListingProper, SortedShown, ShowsKeep
<1>. QED
  BY <1>8, <1>9, <1>10, <1>11, <1>12, <1>13 DEF RedemptionsNext

(***************************************************************************)
(* The tables of channels and of logs in default.                          *)
(***************************************************************************)
LEMMA ChannelsKeep == ASSUME IInv, Moved, ChannelsNext PROVE IInv'
<1>1. view.at = "default.Channels"
  BY DEF ChannelsNext, loadChannelsReturns, refreshChannels, searchChannels, setSearchKeywordChannels,
     pressChannelButton, updateChannelReturns, testChannelReturns, At, Back
<1>2. view.at \in Defaults /\ view.at \in Functional /\ view.at \notin Pushing
  BY <1>1 DEF Defaults, Functional, Pushing
<1>3. view.at \notin Airs /\ view.at \notin Berries /\ view.at \notin Splicing /\ view.at # "default.Users"
  BY <1>1, <1>2, Kinds
<1>4. /\ "at" \in DOMAIN view /\ "rows" \in DOMAIN view /\ "page" \in DOMAIN view /\ view.page \in Nat \ {0}
      /\ view.rows \in Seq(Past(server.was))
  BY <1>3, ViewFacts
<1>5. <<>> \in Seq(Past(server.was))
  BY EmptySeq
<1>6. Kept([view EXCEPT !.loading = TRUE]) /\ Kept([view EXCEPT !.loading = FALSE])
  BY <1>2, <1>4, DefaultKept
<1>7. ASSUME loadChannels PROVE IInv'
  <2>. DEFINE v == [view EXCEPT !.loading = TRUE]
              arg == Page(0)
  <2>1. arg.p = 0 /\ arg.goto = 0
    BY PageFields
  <2>2. SendsWith(v, "loadChannels", "list", arg, <<>>)
    BY <1>7 DEF loadChannels, Sends
  <2>. HIDE DEF v, arg
  <2>3. ListOK(view.at, arg, server.was)
    BY <1>2, <1>3, <2>1 DEF ListOK
  <2>4. "loadChannels" \in Lists /\ Kept(v)
    BY <1>6 DEF Lists, v
  <2>. QED
    BY <1>2, <1>5, <2>2, <2>3, <2>4, LoadSends
<1>8. ASSUME NEW n \in DOMAIN net, net[n].req # "tell", NEW rows \in Seq(Good(n)), NEW v, DOMAIN v = DOMAIN view,
             v.at = view.at, v.page = view.page, v.rows = rows, Ends(n, v)
      PROVE  IInv'
  <2>1. rows \in Seq(Past(server.was))
    BY GoodIsPast, SeqGrows
  <2>2. Listing(v)
    BY <1>2, <1>3, <1>4, <1>8, <2>1 DEF Listing
  <2>. QED
    BY <1>8, <2>2, ListingEnds
<1>9. CASE loadChannelsReturns
  <2>1. PICK n \in Back("default.Channels", "loadChannels") \cup Back("default.Channels", "searchChannels") :
           \/ Rejected(n)
           \/ net[n].st = "refused" /\ Ends(n, [view EXCEPT !.loading = FALSE])
           \/ net[n].st = "ok" /\ Ends(n, [view EXCEPT !.loading = FALSE, !.rows = Rows(n)])
    BY <1>9 DEF loadChannelsReturns
  <2>2. n \in DOMAIN net /\ net[n].req \in {"list", "search"}
    BY BackFacts DEF ForOK, Lists, Searching
  <2>3. CASE net[n].st = "refused" /\ Ends(n, [view EXCEPT !.loading = FALSE])
    BY <1>6, <2>2, <2>3, KeptEnds DEF Done
  <2>4. CASE net[n].st = "ok" /\ Ends(n, [view EXCEPT !.loading = FALSE, !.rows = Rows(n)])
    <3>. DEFINE v == [view EXCEPT !.loading = FALSE, !.rows = Rows(n)]
    <3>1. DOMAIN v = DOMAIN view /\ v.at = view.at /\ v.rows = Rows(n) /\ v.page = view.page
      BY <1>4
    <3>2. Ends(n, v)
      BY <2>4
    <3>. HIDE DEF v
    <3>3. Rows(n) \in Seq(Good(n))
      BY <2>2, <2>4, LoadedRows, FoundShown
    <3>. QED
      BY <1>8, <2>2, <3>1, <3>2, <3>3
  <2>. QED
    BY <2>1, <2>2, <2>3, <2>4, RejectedKeep
<1>10. CASE refreshChannels \/ searchChannels
  <2>1. CASE Sends([view EXCEPT !.loading = TRUE], "searchChannels", "search", <<>>)
    <3>1. "searchChannels" \in Searching
      BY DEF Searching
    <3>. QED
      BY <1>6, <2>1, <3>1, SearchSends
  <2>. QED
    BY <1>7, <1>10, <2>1 DEF refreshChannels, searchChannels
<1>11. CASE setSearchKeywordChannels
  <2>1. PICK k : Shows([view EXCEPT !.keyword = k])
    BY <1>11 DEF setSearchKeywordChannels
  <2>2. Kept([view EXCEPT !.keyword = k])
    BY <1>2, <1>4, DefaultKept
  <2>. QED
    BY <2>1, <2>2, KeptShows
<1>12. CASE pressChannelButton
  <2>1. PICK i \in DOMAIN view.rows : \E b \in ChannelButtons(view.rows[i]) : Sends(view, b[1], b[2], b[3])
    BY <1>12 DEF pressChannelButton
  <2>2. PICK b \in ChannelButtons(view.rows[i]) : Sends(view, b[1], b[2], b[3])
    BY <2>1
  <2>. DEFINE q == [id |-> view.rows[i].id]
              st == IF view.rows[i].st = Enabled THEN Disabled ELSE Enabled
              more == [st |-> st]
  <2>3. \/ b = <<"updateChannel", "delete", q>> \/ b = <<"updateChannel", "put", With(q, more)>>
        \/ b = <<"testChannel", "tell", q>>
    BY <2>2 DEF ChannelButtons
  <2>4. q.id = view.rows[i].id /\ DOMAIN q = {"id"} /\ more.st = st /\ DOMAIN more = {"st"}
    OBVIOUS
  <2>5. st \in Statuses /\ view.rows[i].id \in Ids
    BY ViewRow
  <2>. HIDE DEF q, st, more
  <2>6. With(q, more).id = view.rows[i].id /\ With(q, more).st = st
    <3>1. "id" \in DOMAIN q /\ "st" \in DOMAIN more /\ "st" \notin DOMAIN q
      BY <2>4
    <3>. QED
      BY <2>4, <3>1, WithOld, WithNew
  <2>7. SendsWith(view, b[1], b[2], b[3], <<>>)
    BY <2>2 DEF Sends
  <2>8. CASE b[1] = "testChannel" /\ b[2] = "tell"
    <3>1. "testChannel" \in Telling
      BY DEF Telling
    <3>. QED
      BY <1>2, <1>5, <2>7, <2>8, <3>1, KeptIsListed, TellSends
  <2>9. CASE b[1] = "updateChannel" /\ b[2] \in Changing /\ b[3].id \in Ids /\ (b[2] = "put" => b[3].st \in Statuses)
    <3>1. "updateChannel" \in Numbered /\ Proper(view)
      BY ProperView DEF Numbered
    <3>2. NewOK(view, Request("updateChannel", b[2], b[3], <<>>))
      BY <1>2, <2>9, <3>1, NumberedNew
    <3>. QED
      BY <2>7, <2>9, <3>1, <3>2, SendsKeep
  <2>. QED
    BY <2>3, <2>4, <2>5, <2>6, <2>8, <2>9 DEF Changing
<1>13. CASE updateChannelReturns
  <2>1. PICK n \in Back("default.Channels", "updateChannel") :
           LET id == net[n].arg.id IN
           \/ Rejected(n)
           \/ net[n].st = "refused" /\ Ends(n, view)
           \/ /\ net[n].st = "ok" /\ net[n].req = "delete"
              /\ Ends(n, [view EXCEPT !.rows = Filtered(@, {i \in DOMAIN @ : @[i].id # id})])
           \/ /\ net[n].st = "ok" /\ net[n].req = "put"
              /\ Ends(n, [view EXCEPT !.rows =
                   [i \in DOMAIN @ |-> IF @[i].id = id THEN Rows(n)[1] ELSE @[i]]])
    BY <1>13 DEF updateChannelReturns
  <2>2. n \in DOMAIN net /\ net[n].fn \in Numbered
    BY BackFacts DEF Numbered
  <2>3. net[n].req # "tell"
    BY <2>2, BackFacts DEF ForOK, Changing
  <2>. DEFINE id == net[n].arg.id
  <2>4. CASE net[n].st = "refused" /\ Ends(n, view)
    BY <2>2, <2>4, SameEnds DEF Done
  <2>5. ASSUME NEW rows \in Seq(Good(n)), Ends(n, [view EXCEPT !.rows = rows]) PROVE IInv'
    <3>. DEFINE v == [view EXCEPT !.rows = rows]
    <3>1. DOMAIN v = DOMAIN view /\ v.at = view.at /\ v.rows = rows /\ v.page = view.page
      BY <1>4
    <3>2. Ends(n, v)
      BY <2>5
    <3>. HIDE DEF v
    <3>. QED
      BY <1>8, <2>2, <2>3, <3>1, <3>2
  <2>6. CASE /\ net[n].st = "ok" /\ net[n].req = "delete"
             /\ Ends(n, [view EXCEPT !.rows = Filtered(@, {i \in DOMAIN @ : @[i].id # id})])
    <3>. DEFINE S == {i \in DOMAIN view.rows : view.rows[i].id # id}
                rows == Filtered(view.rows, S)
    <3>1. S \subseteq DOMAIN view.rows /\ \A i \in S : view.rows[i] \in Good(n)
      BY <2>2, OtherRows
    <3>2. Ends(n, [view EXCEPT !.rows = rows])
      BY <2>6
    <3>. HIDE DEF S
    <3>3. rows \in Seq(Past(server.was)) /\ \A k \in DOMAIN rows : \E i \in S : rows[k] = view.rows[i]
      BY <1>4, <3>1, FilteredLists
    <3>. HIDE DEF rows
    <3>4. rows = [k \in DOMAIN rows |-> rows[k]] /\ \A k \in DOMAIN rows : rows[k] \in Good(n)
      BY <3>1, <3>3, ListElim
    <3>5. rows \in Seq(Good(n))
      BY <3>3, <3>4, MappedList
    <3>. QED
      BY <2>5, <3>2, <3>5
  <2>7. CASE /\ net[n].st = "ok" /\ net[n].req = "put"
             /\ Ends(n, [view EXCEPT !.rows =
                  [i \in DOMAIN @ |-> IF @[i].id = id THEN Rows(n)[1] ELSE @[i]]])
    <3>. DEFINE rows == [i \in DOMAIN view.rows |-> IF view.rows[i].id = id THEN Rows(n)[1] ELSE view.rows[i]]
    <3>1. Ends(n, [view EXCEPT !.rows = rows])
      BY <2>7
    <3>2. ASSUME NEW i \in DOMAIN view.rows
          PROVE  rows[i] \in Good(n)
      <4>1. CASE view.rows[i].id # id
        BY <2>2, <4>1, OtherRows
      <4>2. CASE view.rows[i].id = id
        BY <2>2, <2>7, <4>2, AnsweredRow
      <4>. QED
        BY <4>1, <4>2
    <3>3. rows = [i \in DOMAIN view.rows |-> rows[i]]
      OBVIOUS
    <3>. HIDE DEF rows
    <3>4. rows \in Seq(Good(n))
      BY <1>4, <3>2, <3>3, MappedList
    <3>. QED
      BY <2>5, <3>1, <3>4
  <2>. QED
    BY <2>1, <2>2, <2>4, <2>6, <2>7, RejectedKeep
<1>14. CASE testChannelReturns
  <2>1. PICK n \in Back("default.Channels", "testChannel") :
           Rejected(n) \/ (net[n].st # "failed" /\ Ends(n, view))
    BY <1>14 DEF testChannelReturns
  <2>2. n \in DOMAIN net /\ ~Done(n)
    BY BackFacts DEF ForOK, Telling, Done
  <2>. QED
    BY <2>1, <2>2, RejectedKeep, SameEnds
<1>. QED
  BY <1>9, <1>10, <1>11, <1>12, <1>13, <1>14 DEF ChannelsNext

LEMMA LogsFields ==
    ASSUME NEW p, NEW type, NEW goto
    PROVE  LogsPage(p, type, goto).p = p /\ LogsPage(p, type, goto).goto = goto
  BY DEF LogsPage, Page

LEMMA LogsKeep == ASSUME IInv, Moved, LogsNext PROVE IInv'
<1>1. view.at = "default.Logs"
  BY DEF LogsNext, loadLogsReturns, onPaginationChangeLogs, refreshLogs, setLogType, handleInputChangeLogs,
     handleEyeClick, getLogStatReturns, getLogSelfStatReturns, sortLog, At, Back
<1>2. view.at \in Defaults /\ view.at \notin Functional /\ view.at \notin Pushing
  BY <1>1 DEF Defaults, Functional, Pushing
<1>3. view.at \notin Airs /\ view.at \notin Berries /\ view.at \notin Splicing /\ view.at # "default.Users"
  BY <1>1, <1>2, Kinds
<1>4. /\ "at" \in DOMAIN view /\ "rows" \in DOMAIN view /\ "page" \in DOMAIN view /\ view.page \in Nat \ {0}
      /\ view.rows \in Seq(Past(server.was))
  BY <1>3, ViewFacts
<1>5. <<>> \in Seq(Past(server.was))
  BY EmptySeq
<1>6. ASSUME NEW v, Kept(v), NEW p \in Nat, NEW goto \in Nat, loadLogs(v, p, goto) PROVE IInv'
  <2>. DEFINE arg == LogsPage(p, v.logType, goto)
  <2>1. arg.p = p /\ arg.goto = goto
    BY LogsFields
  <2>2. SendsWith(v, "loadLogs", "list", arg, view.rows)
    BY <1>6 DEF loadLogs
  <2>. HIDE DEF arg
  <2>3. ListOK(view.at, arg, server.was)
    BY <1>2, <1>3, <2>1 DEF ListOK
  <2>4. "loadLogs" \in Lists
    BY DEF Lists
  <2>. QED
    BY <1>2, <1>4, <1>6, <2>2, <2>3, <2>4, LoadSends
<1>7. CASE loadLogsReturns
  <2>1. PICK n \in Back("default.Logs", "loadLogs") :
           \/ Rejected(n)
           \/ /\ net[n].st # "failed"
              /\ Ends(n, [view EXCEPT !.rows = Loaded(n, @), !.loading = FALSE, !.page = Turned(n, @)])
    BY <1>7 DEF loadLogsReturns
  <2>2. n \in DOMAIN net
    BY BackFacts
  <2>3. CASE /\ net[n].st # "failed"
             /\ Ends(n, [view EXCEPT !.rows = Loaded(n, @), !.loading = FALSE, !.page = Turned(n, @)])
    <3>. DEFINE v == [view EXCEPT !.rows = Loaded(n, @), !.loading = FALSE, !.page = Turned(n, @)]
    <3>1. "loadLogs" \in Lists
      BY DEF Lists
    <3>2. /\ net[n].req = "list" /\ Turned(n, view.page) \in Nat \ {0}
          /\ Loaded(n, view.rows) \in Seq(Good(n)) /\ Loaded(n, view.rows) \in Seq(Past(server.was))
      BY <1>1, <1>2, <2>3, <3>1, DefaultLoaded
    <3>3. /\ DOMAIN v = DOMAIN view /\ v.at = view.at /\ v.rows = Loaded(n, view.rows)
          /\ v.page = Turned(n, view.page)
      BY <1>4
    <3>. HIDE DEF v
    <3>4. Listing(v)
      BY <1>2, <1>3, <3>2, <3>3 DEF Listing
    <3>5. Ends(n, v)
      BY <2>3 DEF v
    <3>. QED
      BY <2>2, <3>2, <3>3, <3>4, <3>5, ListingEnds
  <2>. QED
    BY <2>1, <2>2, <2>3, RejectedKeep
<1>8. CASE onPaginationChangeLogs
  <2>1. PICK p \in LogsPages :
           IF p = Pages(view.rows) + 1 THEN loadLogs(view, p - 1, p) ELSE Shows([view EXCEPT !.page = p])
    BY <1>8 DEF onPaginationChangeLogs
  <2>2. p \in Nat \ {0} /\ p - 1 \in Nat
    BY DEF LogsPages
  <2>3. Kept(view) /\ Kept([view EXCEPT !.page = p])
    BY <1>2, <1>4, <2>2, DefaultKept
  <2>4. CASE loadLogs(view, p - 1, p)
    BY <1>6, <2>2, <2>3, <2>4
  <2>. QED
    BY <2>1, <2>3, <2>4, KeptShows
<1>9. CASE refreshLogs
  <2>. DEFINE v == [view EXCEPT !.loading = TRUE, !.page = 1]
  <2>1. DOMAIN v = DOMAIN view /\ v.at = view.at /\ v.rows = view.rows /\ v.page = 1 /\ 0 \in Nat
    BY <1>4
  <2>2. loadLogs(v, 0, 0)
    BY <1>9 DEF refreshLogs
  <2>. HIDE DEF v
  <2>3. Kept(v)
    BY <1>2, <2>1, DefaultKept
  <2>. QED
    BY <1>6, <2>1, <2>2, <2>3
<1>10. CASE setLogType
  <2>1. PICK type : loadLogs([view EXCEPT !.logType = type, !.loading = TRUE, !.page = 1], 0, 0)
    BY <1>10 DEF setLogType
  <2>. DEFINE v == [view EXCEPT !.logType = type, !.loading = TRUE, !.page = 1]
  <2>2. DOMAIN v = DOMAIN view /\ v.at = view.at /\ v.rows = view.rows /\ v.page = 1 /\ 0 \in Nat
    BY <1>4
  <2>3. loadLogs(v, 0, 0)
    BY <2>1
  <2>. HIDE DEF v
  <2>4. Kept(v)
    BY <1>2, <2>2, DefaultKept
  <2>. QED
    BY <1>6, <2>2, <2>3, <2>4
<1>11. CASE handleInputChangeLogs
  <2>1. Kept([view EXCEPT !.some = ~@])
    BY <1>2, <1>4, DefaultKept
  <2>. QED
    BY <1>11, <2>1, KeptShows DEF handleInputChangeLogs
<1>12. CASE handleEyeClick
  <2>1. PICK fn \in {"getLogStat", "getLogSelfStat"} :
           Shows([view EXCEPT !.showStat = FALSE]) \/ Sends(view, fn, "tell", <<>>)
    BY <1>12 DEF handleEyeClick
  <2>2. Kept([view EXCEPT !.showStat = FALSE]) /\ fn \in Telling
    BY <1>2, <1>4, DefaultKept DEF Telling
  <2>3. CASE Sends(view, fn, "tell", <<>>)
    <3>1. SendsWith(view, fn, "tell", <<>>, <<>>)
      BY <2>3 DEF Sends
    <3>. QED
      BY <1>2, <1>5, <2>2, <3>1, KeptIsListed, TellSends
  <2>. QED
    BY <2>1, <2>2, <2>3, KeptShows
<1>13. CASE getLogStatReturns \/ getLogSelfStatReturns
  <2>1. PICK n \in Back("default.Logs", "getLogStat") \cup Back("default.Logs", "getLogSelfStat") :
           Rejected(n) \/ (net[n].st # "failed" /\ Ends(n, [view EXCEPT !.showStat = TRUE]))
    BY <1>13 DEF getLogStatReturns, getLogSelfStatReturns
  <2>2. n \in DOMAIN net /\ ~Done(n)
    BY BackFacts DEF ForOK, Telling, Done
  <2>3. Kept([view EXCEPT !.showStat = TRUE])
    BY <1>2, <1>4, DefaultKept
  <2>. QED
    BY <2>1, <2>2, <2>3, RejectedKeep, KeptEnds
<1>14. CASE sortLog
  <2>. DEFINE v == [view EXCEPT !.rows = SortedDown(@), !.loading = FALSE]
  <2>1. DOMAIN v = DOMAIN view /\ v.at = view.at /\ v.rows = SortedDown(view.rows) /\ v.page = view.page
    BY <1>4
  <2>2. Shows(v)
    BY <1>14 DEF sortLog
  <2>. HIDE DEF v
  <2>3. Listing(v)
    BY <1>2, <1>3, <1>4, <2>1, SortedShown DEF Listing
  <2>. QED
    BY <2>1, <2>2, <2>3, ListingProper, SortedShown, ShowsKeep
<1>. QED
  BY <1>7, <1>8, <1>9, <1>10, <1>11, <1>12, <1>13, <1>14 DEF LogsNext

(***************************************************************************)
(* The tables of air: a request says how many rows a page has.             *)
(***************************************************************************)
LEMMA AirFields ==
    ASSUME NEW p, NEW order, NEW type
    PROVE  /\ AirPage(p, order, type).p = p
           /\ DOMAIN AirPage(p, order, type) = {"p", "order", "type", "some"}
  BY DEF AirPage

LEMMA TokensFields ==
    ASSUME NEW p, NEW order, NEW size, NEW blank
    PROVE  TokensRequest(p, order, size, blank).p = p /\ TokensRequest(p, order, size, blank).size = size
<1>. DEFINE r == AirPage(p, order, 0)
            s == [size |-> size, blank |-> blank]
<1>1. r.p = p /\ DOMAIN r = {"p", "order", "type", "some"}
  BY AirFields
<1>2. s.size = size /\ DOMAIN s = {"size", "blank"}
  OBVIOUS
<1>3. TokensRequest(p, order, size, blank) = With(r, s)
  BY DEF TokensRequest
<1>. HIDE DEF r, s
<1>4. "p" \in DOMAIN r /\ "size" \notin DOMAIN r /\ "size" \in DOMAIN s
  BY <1>1, <1>2
<1>. QED
  BY <1>1, <1>2, <1>3, <1>4, WithOld, WithNew

LEMMA AirKept ==
    ASSUME IInv, view.at \in Airs, NEW v, DOMAIN v = DOMAIN view, v.at = view.at, v.rows = view.rows,
           v.page \in Nat \ {0}, v.size \in Nat \ {0}, view.at \in Pushing => v.era = view.era
    PROVE  Kept(v)
  BY Kinds DEF Kept

LEMMA AirListing ==
    ASSUME IInv, view.at \in Airs, NEW v, DOMAIN v = DOMAIN view, v.at = view.at,
           v.page \in Nat \ {0}, v.size \in Nat \ {0}, view.at \in Pushing => Fresh(v.era),
           v.rows \in Seq(Past(server.was))
    PROVE  Listing(v)
<1>1. view.at # "default.Users"
  BY DEF Airs
<1>. QED
  BY <1>1, Kinds DEF Listing

LEMMA AirView ==
    ASSUME IInv, view.at \in Airs
    PROVE  /\ "at" \in DOMAIN view /\ "rows" \in DOMAIN view /\ "page" \in DOMAIN view /\ "size" \in DOMAIN view
           /\ view.page \in Nat \ {0} /\ view.page - 1 \in Nat /\ view.size \in Nat \ {0}
           /\ view.rows \in Seq(Past(server.was)) /\ view.at \notin Functional /\ view.at \notin Berries
           /\ \A i \in AirShown : i \in DOMAIN view.rows
           /\ \A p \in AirPages : p \in Nat \ {0} /\ p - 1 \in Nat
<1>1. /\ "at" \in DOMAIN view /\ "rows" \in DOMAIN view /\ "page" \in DOMAIN view /\ "size" \in DOMAIN view
      /\ view.page \in Nat \ {0} /\ view.size \in Nat \ {0}
      /\ view.rows \in Seq(Past(server.was)) /\ view.at \notin Functional /\ view.at \notin Berries
  BY ViewFacts, Kinds
<1>2. \A i \in AirShown : i \in DOMAIN view.rows
  BY <1>1, ShownRows DEF AirShown
<1>3. \A p \in AirPages : p \in Nat \ {0} /\ p - 1 \in Nat
  BY DEF AirPages
<1>. QED
  BY <1>1, <1>2, <1>3

\* The answer to a load: the rows it shows, in a table that splices.
LEMMA AirLoaded ==
    ASSUME IInv, view.at \in Airs, NEW fn \in Lists, NEW n \in Back(view.at, fn), net[n].st # "failed"
    PROVE  /\ n \in DOMAIN net /\ net[n].req = "list" /\ ~Done(n) /\ net[n].arg.p \in Nat
           /\ view.rows \in Seq(Good(n))
           /\ net[n].st = "ok" =>
                 /\ Rows(n) \in Seq(Good(n)) /\ Rows(n) \in Seq(Past(server.was))
                 /\ view.at \in Splicing =>
                       LET rows == IF net[n].arg.p = 0 THEN Rows(n)
                                   ELSE Spliced(net[n].was, net[n].arg.p * net[n].arg.size, Rows(n))
                       IN  rows \in Seq(Good(n)) /\ rows \in Seq(Past(server.was))
<1>1. n \in DOMAIN net /\ net[n].req = "list" /\ ListOK(view.at, net[n].arg, server.was)
  BY BackFacts DEF ForOK
<1>2. net[n].arg.p \in Nat /\ (view.at \in Splicing => net[n].arg.size \in Nat)
  BY <1>1 DEF ListOK
<1>3. ~Done(n)
  BY <1>1 DEF Done
<1>4. view.at \in Splicing => net[n].arg.p * net[n].arg.size \in Nat
  BY <1>2
<1>5. ASSUME net[n].st = "ok", view.at \in Splicing
      PROVE  /\ Spliced(net[n].was, net[n].arg.p * net[n].arg.size, Rows(n)) \in Seq(Good(n))
             /\ Spliced(net[n].was, net[n].arg.p * net[n].arg.size, Rows(n)) \in Seq(Past(server.was))
  BY <1>1, <1>4, <1>5, LoadedRows, AirView
<1>. QED
  BY <1>1, <1>2, <1>3, <1>5, LoadedRows, ViewRows

\* The keyword changes in the four tables that have one.
LEMMA AirKeywordKeeps == ASSUME IInv, Moved, airHandleKeywordChange PROVE IInv'
<1>1. view.at \in Airs
  BY DEF airHandleKeywordChange, Airs
<1>2. PICK k : Shows([view EXCEPT !.keyword = k])
  BY DEF airHandleKeywordChange
<1>. DEFINE v == [view EXCEPT !.keyword = k]
<1>3. /\ DOMAIN v = DOMAIN view /\ v.at = view.at /\ v.rows = view.rows /\ v.page = view.page
      /\ v.size = view.size /\ (view.at \in Pushing => v.era = view.era)
  BY <1>1, AirView, ViewFacts
<1>4. view.page \in Nat \ {0} /\ view.size \in Nat \ {0}
  BY <1>1, AirView
<1>. HIDE DEF v
<1>5. Kept(v)
  BY <1>1, <1>3, <1>4, AirKept
<1>. QED
  BY <1>2, <1>5, KeptShows DEF v

\* The tables take other rows, and count their pages anew.
LEMMA FormatFields ==
    ASSUME NEW v, "rows" \in DOMAIN v, "at" \in DOMAIN v, "page" \in DOMAIN v, "size" \in DOMAIN v,
           NEW rows, NEW size
    PROVE  LET w == setTokensFormat(v, rows, size)
               x == setRedemptionFormat(v, rows, size)
               y == setChannelFormat(v, rows, size)
           IN /\ DOMAIN w = DOMAIN v /\ w.at = v.at /\ w.page = v.page /\ w.size = v.size /\ w.rows = rows
              /\ DOMAIN x = DOMAIN v /\ x.at = v.at /\ x.page = v.page /\ x.size = v.size /\ x.rows = rows
              /\ DOMAIN y = DOMAIN v /\ y.at = v.at /\ y.page = v.page /\ y.size = v.size /\ y.rows = rows
  BY DEF setTokensFormat, setRedemptionFormat, setChannelFormat

\* A request for a change of the row i of the list.
LEMMA AirManages ==
    ASSUME IInv, Moved, view.at \in Airs, NEW v, Kept(v), NEW i \in AirShown, NEW fn \in Indexed, NEW req \in Changing,
           NEW arg, arg.idx = i, arg.id = view.rows[i].id, req = "put" => arg.st \in Statuses,
           view.at \in Pushing => arg.era = view.era, SendsWith(v, fn, req, arg, view.rows)
    PROVE  IInv'
<1>1. i \in DOMAIN view.rows
  BY AirView
<1>. QED
  BY <1>1, ManageSends

LEMMA AirOpposite == ASSUME NEW row PROVE Opposite(row) \in Statuses
  BY DEF Opposite, Statuses

\* A handler sets a flag or turns the page.
LEMMA AirFlags ==
    ASSUME IInv, view.at \in Airs, NEW b
    PROVE  /\ Kept([view EXCEPT !.loading = b]) /\ Kept([view EXCEPT !.searching = b])
           /\ [view EXCEPT !.loading = b].at = view.at /\ [view EXCEPT !.loading = b].size = view.size
<1>. DEFINE v == [view EXCEPT !.loading = b]
            w == [view EXCEPT !.searching = b]
<1>1. /\ DOMAIN v = DOMAIN view /\ v.at = view.at /\ v.rows = view.rows /\ v.page = view.page
      /\ v.size = view.size /\ (view.at \in Pushing => v.era = view.era)
  BY AirView, ViewFacts
<1>2. /\ DOMAIN w = DOMAIN view /\ w.at = view.at /\ w.rows = view.rows /\ w.page = view.page
      /\ w.size = view.size /\ (view.at \in Pushing => w.era = view.era)
  BY AirView, ViewFacts
<1>. HIDE DEF v, w
<1>3. view.page \in Nat \ {0} /\ view.size \in Nat \ {0}
  BY AirView
<1>4. Kept(v) /\ Kept(w)
  BY <1>1, <1>2, <1>3, AirKept
<1>. QED
  BY <1>1, <1>4 DEF v, w

LEMMA AirTurned ==
    ASSUME IInv, view.at \in Airs, NEW p \in Nat \ {0}
    PROVE  /\ Kept([view EXCEPT !.page = p])
           /\ DOMAIN [view EXCEPT !.page = p] = DOMAIN view /\ [view EXCEPT !.page = p].at = view.at
           /\ [view EXCEPT !.page = p].rows = view.rows /\ [view EXCEPT !.page = p].page = p
           /\ [view EXCEPT !.page = p].size = view.size
           /\ view.at \in Pushing => [view EXCEPT !.page = p].era = view.era
<1>. DEFINE v == [view EXCEPT !.page = p]
<1>1. /\ DOMAIN v = DOMAIN view /\ v.at = view.at /\ v.rows = view.rows /\ v.page = p
      /\ v.size = view.size /\ (view.at \in Pushing => v.era = view.era)
  BY AirView, ViewFacts
<1>. HIDE DEF v
<1>2. view.size \in Nat \ {0}
  BY AirView
<1>3. Kept(v)
  BY <1>1, <1>2, AirKept
<1>. QED
  BY <1>1, <1>3 DEF v

\* The same of a page that was changed before: only the spinner turns on.
LEMMA AirSpins ==
    ASSUME IInv, view.at \in Airs, NEW v, DOMAIN v = DOMAIN view, v.at = view.at, v.rows = view.rows,
           v.page \in Nat \ {0}, v.size \in Nat \ {0}, view.at \in Pushing => v.era = view.era
    PROVE  Kept([v EXCEPT !.loading = TRUE])
<1>. DEFINE w == [v EXCEPT !.loading = TRUE]
<1>1. /\ DOMAIN w = DOMAIN view /\ w.at = view.at /\ w.rows = view.rows /\ w.page = v.page
      /\ w.size = v.size /\ (view.at \in Pushing => w.era = view.era)
  BY AirView, ViewFacts
<1>. HIDE DEF w
<1>2. Kept(w)
  BY <1>1, AirKept
<1>. QED
  BY <1>2 DEF w

LEMMA airTokensKeep == ASSUME IInv, Moved, airTokensNext PROVE IInv'
<1>0. CASE airHandleKeywordChange
  BY <1>0, AirKeywordKeeps
<1>. SUFFICES ASSUME ~airHandleKeywordChange PROVE IInv'
  BY <1>0
<1>1. view.at = "air.Tokens"
  BY DEF airTokensNext, airLoadTokensReturns, airHandlePageChangeTokens, airRefreshTokens, airSetPageSize,
     airHandleOrderByChangeTokens, airManageToken, airManageTokenReturns, airSearchTokens,
     airSearchTokensReturns, At, Back
<1>2. view.at \in Airs /\ view.at \in Splicing /\ view.at \notin Pushing
  BY <1>1 DEF Airs, Splicing, Pushing
<1>3. view.at \notin Defaults /\ view.at \notin Berries /\ view.at \notin Functional
  BY <1>2, Kinds
<1>4. /\ "at" \in DOMAIN view /\ "rows" \in DOMAIN view /\ "page" \in DOMAIN view /\ "size" \in DOMAIN view
      /\ view.page \in Nat \ {0} /\ view.size \in Nat \ {0} /\ view.rows \in Seq(Past(server.was))
  BY <1>2, AirView
<1>5. "airLoadTokens" \in Lists /\ "airManageToken" \in Indexed /\ "airSearchTokens" \in Searching
  BY DEF Lists, Indexed, Searching
<1>6. ASSUME NEW p \in Nat, NEW order, NEW size \in Nat, NEW blank
      PROVE  ListOK(view.at, TokensRequest(p, order, size, blank), server.was)
  BY <1>3, TokensFields DEF ListOK
<1>7. ASSUME NEW v, DOMAIN v = DOMAIN view, v.at = view.at, v.rows = view.rows, v.page \in Nat \ {0},
             v.size \in Nat \ {0}, NEW p \in Nat, NEW blank, airLoadTokens(v, p, blank)
      PROVE  IInv'
  <2>. DEFINE w == [v EXCEPT !.loading = TRUE]
              arg == TokensRequest(p, v.orderBy, v.size, blank)
  <2>1. SendsWith(w, "airLoadTokens", "list", arg, view.rows)
    BY <1>7 DEF airLoadTokens
  <2>2. Kept(w)
    BY <1>2, <1>7, AirSpins
  <2>3. ListOK(view.at, arg, server.was)
    BY <1>6, <1>7
  <2>. HIDE DEF w, arg
  <2>. QED
    BY <1>2, <1>4, <1>5, <2>1, <2>2, <2>3, LoadSends
<1>8. ASSUME NEW n \in DOMAIN net, net[n].req # "tell", NEW rows \in Seq(Good(n)), NEW v,
             DOMAIN v = DOMAIN view, v.at = view.at, v.page \in Nat \ {0}, v.size = view.size, v.rows = rows,
             Ends(n, v)
      PROVE  IInv'
  <2>1. rows \in Seq(Past(server.was))
    BY GoodIsPast, SeqGrows
  <2>2. Listing(v)
    BY <1>2, <1>4, <1>8, <2>1, AirListing
  <2>. QED
    BY <1>8, <2>2, ListingEnds
<1>9. CASE airLoadTokensReturns
  <2>1. PICK n \in Back("air.Tokens", "airLoadTokens") :
           LET q == net[n].arg
               rows == IF q.p = 0 THEN Rows(n) ELSE Spliced(net[n].was, q.p * q.size, Rows(n))
               loaded == IF net[n].st = "ok" THEN setTokensFormat(view, rows, q.size) ELSE view
               v == [loaded EXCEPT !.loading = FALSE, !.page = IF q.blank THEN 1 ELSE @,
                                   !.orderBy = IF q.blank THEN "" ELSE @]
           IN
           \/ Rejected(n)
           \/ /\ net[n].st # "failed"
              /\ IF v.orderBy = view.orderBy THEN Ends(n, v)
                 ELSE GoesOn(n, [v EXCEPT !.loading = TRUE], "airLoadTokens", "list",
                             TokensRequest(0, "", v.size, FALSE), v.rows)
    BY <1>9 DEF airLoadTokensReturns
  <2>2. n \in DOMAIN net
    BY BackFacts
  <2>3. CASE Rejected(n)
    BY <2>2, <2>3, RejectedKeep
  <2>4. CASE net[n].st # "failed"
    <3>. DEFINE q == net[n].arg
                rows == IF q.p = 0 THEN Rows(n) ELSE Spliced(net[n].was, q.p * q.size, Rows(n))
                loaded == IF net[n].st = "ok" THEN setTokensFormat(view, rows, q.size) ELSE view
                v == [loaded EXCEPT !.loading = FALSE, !.page = IF q.blank THEN 1 ELSE @,
                                    !.orderBy = IF q.blank THEN "" ELSE @]
                w == [v EXCEPT !.loading = TRUE]
    <3>1. n \in Back(view.at, "airLoadTokens")
      BY <1>1
    <3>2. /\ net[n].req = "list" /\ view.rows \in Seq(Good(n))
          /\ net[n].st = "ok" => rows \in Seq(Good(n)) /\ rows \in Seq(Past(server.was))
      BY <1>2, <1>5, <2>4, <3>1, AirLoaded
    <3>3. \/ Rejected(n) \/ Ends(n, v)
          \/ GoesOn(n, w, "airLoadTokens", "list", TokensRequest(0, "", v.size, FALSE), v.rows)
      BY <2>1
    <3>. HIDE DEF rows
    <3>4. /\ DOMAIN loaded = DOMAIN view /\ loaded.at = view.at /\ loaded.page = view.page
          /\ loaded.size = view.size /\ loaded.rows = IF net[n].st = "ok" THEN rows ELSE view.rows
      BY <1>4, FormatFields
    <3>. HIDE DEF loaded
    <3>5. /\ DOMAIN v = DOMAIN view /\ v.at = view.at /\ v.page \in Nat \ {0}
          /\ v.size = view.size /\ v.rows = loaded.rows
      BY <1>4, <3>4
    <3>6. loaded.rows \in Seq(Good(n)) /\ loaded.rows \in Seq(Past(server.was))
      BY <1>4, <3>2, <3>4
    <3>. HIDE DEF v
    <3>7. CASE Ends(n, v)
      BY <1>8, <2>2, <3>2, <3>5, <3>6, <3>7
    <3>8. CASE GoesOn(n, w, "airLoadTokens", "list", TokensRequest(0, "", v.size, FALSE), v.rows)
      <4>1. DOMAIN w = DOMAIN view /\ w.at = view.at /\ w.page = v.page /\ w.size = v.size /\ w.rows = v.rows
        BY <1>4, <3>5
      <4>. HIDE DEF w
      <4>2. Listing(w)
        BY <1>2, <1>4, <3>5, <3>6, <4>1, AirListing
      <4>3. Proper(w)
        BY <4>2, ListingProper
      <4>. DEFINE arg == TokensRequest(0, "", v.size, FALSE)
      <4>4. 0 \in Nat /\ v.size \in Nat
        BY <1>4, <3>5
      <4>5. ListOK(view.at, arg, server.was)
        BY <1>6, <4>4
      <4>6. GoesOn(n, w, "airLoadTokens", "list", arg, v.rows)
        BY <3>8
      <4>. HIDE DEF arg
      <4>7. NewOK(w, Request("airLoadTokens", "list", arg, v.rows))
        BY <1>2, <1>5, <3>5, <3>6, <4>1, <4>3, <4>5, LoadNew
      <4>. QED
        BY <2>2, <3>2, <3>5, <3>6, <4>1, <4>3, <4>6, <4>7, GoesOnKeep
    <3>. QED
      BY <2>3, <3>3, <3>7, <3>8
  <2>. QED
    BY <2>1, <2>3, <2>4
<1>10. CASE airHandlePageChangeTokens
  <2>1. PICK p \in AirPages :
           LET v == [view EXCEPT !.page = p] IN IF Beyond(p) THEN airLoadTokens(v, p - 1, FALSE) ELSE Shows(v)
    BY <1>10 DEF airHandlePageChangeTokens
  <2>2. p \in Nat \ {0} /\ p - 1 \in Nat
    BY <1>2, AirView
  <2>. DEFINE v == [view EXCEPT !.page = p]
  <2>3. airLoadTokens(v, p - 1, FALSE) \/ Shows(v)
    BY <2>1
  <2>4. /\ Kept(v) /\ DOMAIN v = DOMAIN view /\ v.at = view.at /\ v.rows = view.rows /\ v.page = p
        /\ v.size = view.size
    BY <1>2, <2>2, AirTurned
  <2>. HIDE DEF v
  <2>. QED
    BY <1>4, <1>7, <2>2, <2>3, <2>4, KeptShows
<1>11. CASE airRefreshTokens
  <2>. DEFINE v == [view EXCEPT !.loading = TRUE]
              arg == TokensRequest(view.page - 1, view.orderBy, view.size, FALSE)
  <2>1. SavedThen(v, "airLoadTokens", "list", arg, view.rows)
    BY <1>11 DEF airRefreshTokens
  <2>2. Kept(v)
    BY <1>2, AirFlags
  <2>3. view.page - 1 \in Nat /\ view.size \in Nat
    BY <1>4
  <2>4. ListOK(view.at, arg, server.was)
    BY <1>6, <2>3
  <2>. HIDE DEF v, arg
  <2>. QED
    BY <1>2, <1>4, <1>5, <2>1, <2>2, <2>4, LoadSends
<1>12. CASE airSetPageSize
  <2>1. PICK size \in {PageSize, 2 * PageSize} :
           airLoadTokens([view EXCEPT !.size = size, !.page = 1], 0, FALSE)
    BY <1>12 DEF airSetPageSize
  <2>. DEFINE v == [view EXCEPT !.size = size, !.page = 1]
  <2>2. DOMAIN v = DOMAIN view /\ v.at = view.at /\ v.rows = view.rows /\ v.page = 1 /\ v.size = size
    BY <1>4
  <2>3. size \in Nat \ {0} /\ 1 \in Nat \ {0} /\ 0 \in Nat
    BY IdsAreNumbers
  <2>4. airLoadTokens(v, 0, FALSE)
    BY <2>1
  <2>. HIDE DEF v
  <2>. QED
    BY <1>7, <2>2, <2>3, <2>4
<1>13. CASE airHandleOrderByChangeTokens
  <2>1. PICK order : airLoadTokens([view EXCEPT !.orderBy = order, !.page = 1], 0, FALSE)
    BY <1>13 DEF airHandleOrderByChangeTokens
  <2>. DEFINE v == [view EXCEPT !.orderBy = order, !.page = 1]
  <2>2. DOMAIN v = DOMAIN view /\ v.at = view.at /\ v.rows = view.rows /\ v.page = 1 /\ v.size = view.size
    BY <1>4
  <2>3. 1 \in Nat \ {0} /\ 0 \in Nat
    OBVIOUS
  <2>4. airLoadTokens(v, 0, FALSE)
    BY <2>1
  <2>. HIDE DEF v
  <2>. QED
    BY <1>4, <1>7, <2>2, <2>3, <2>4
<1>14. CASE airManageToken
  <2>. DEFINE v == [view EXCEPT !.loading = TRUE]
  <2>1. PICK i \in AirShown : \E b \in airTokenButtons(i) : SendsWith(v, "airManageToken", b[1], b[2], view.rows)
    BY <1>14 DEF airManageToken
  <2>2. PICK b \in airTokenButtons(i) : SendsWith(v, "airManageToken", b[1], b[2], view.rows)
    BY <2>1
  <2>. DEFINE q == [id |-> view.rows[i].id, idx |-> i, size |-> view.size]
              st == Opposite(view.rows[i])
              more == [st |-> st]
  <2>3. b = <<"delete", q>> \/ b = <<"put", With(q, more)>>
    BY <2>2 DEF airTokenButtons
  <2>4. /\ q.idx = i /\ q.id = view.rows[i].id /\ DOMAIN q = {"id", "idx", "size"}
        /\ more.st = st /\ DOMAIN more = {"st"}
    OBVIOUS
  <2>5. st \in Statuses
    BY AirOpposite
  <2>6. Kept(v)
    BY <1>2, AirFlags
  <2>. HIDE DEF q, st, more, v
  <2>7. With(q, more).idx = i /\ With(q, more).id = view.rows[i].id /\ With(q, more).st = st
    <3>1. "idx" \in DOMAIN q /\ "id" \in DOMAIN q /\ "st" \in DOMAIN more /\ "st" \notin DOMAIN q
      BY <2>4
    <3>. QED
      BY <2>4, <3>1, WithOld, WithNew
  <2>8. b[1] \in Changing /\ b[2].idx = i /\ b[2].id = view.rows[i].id /\ (b[1] = "put" => b[2].st \in Statuses)
    BY <2>3, <2>4, <2>5, <2>7 DEF Changing
  <2>. QED
    BY <1>2, <1>5, <2>2, <2>6, <2>8, AirManages
<1>15. CASE airManageTokenReturns
  <2>1. PICK n \in Back("air.Tokens", "airManageToken") :
           LET was == net[n].was
               q == net[n].arg
               o == was[q.idx]
               v == [view EXCEPT !.loading = FALSE]
           IN
           \/ Rejected(n)
           \/ /\ net[n].st # "failed" /\ net[n].req = "delete"
              /\ Ends(n, setTokensFormat(v, RemoveRecord(was, q.id), q.size))
           \/ net[n].st = "refused" /\ net[n].req = "put" /\ Ends(n, v)
           \/ /\ net[n].st = "ok" /\ net[n].req = "put"
              /\ LET st == net[n].data[1].st IN
                 EndsMarking(n, setTokensFormat(v, Marked(was, o, st, FALSE), q.size), o, st, FALSE)
    BY <1>15 DEF airManageTokenReturns
  <2>2. n \in DOMAIN net /\ net[n].fn \in Indexed
    BY <1>5, BackFacts
  <2>3. net[n].req \in Changing /\ net[n].req # "tell" /\ UsesWas(n)
    BY <1>3, <1>5, <2>2, BackFacts DEF ForOK, Changing, UsesWas
  <2>. DEFINE v == [view EXCEPT !.loading = FALSE]
              q == net[n].arg
              o == net[n].was[q.idx]
              st == net[n].data[1].st
              removed == RemoveRecord(net[n].was, q.id)
              marked == Marked(net[n].was, o, st, FALSE)
  <2>4. \/ Rejected(n)
        \/ Ends(n, setTokensFormat(v, removed, q.size))
        \/ net[n].st = "refused" /\ Ends(n, v)
        \/ /\ net[n].st = "ok" /\ net[n].req = "put"
           /\ EndsMarking(n, setTokensFormat(v, marked, q.size), o, st, FALSE)
    BY <2>1
  <2>5. Kept(v)
    BY <1>2, AirFlags
  <2>6. /\ DOMAIN v = DOMAIN view /\ v.at = view.at /\ v.page = view.page /\ v.size = view.size
        /\ "at" \in DOMAIN v /\ "rows" \in DOMAIN v /\ "page" \in DOMAIN v /\ "size" \in DOMAIN v
    BY <1>4
  <2>7. removed \in Seq(Good(n))
    BY <2>2, <2>3, RecordRemoved
  <2>. HIDE DEF v
  <2>8. CASE Ends(n, setTokensFormat(v, removed, q.size))
    <3>. HIDE DEF removed
    <3>. DEFINE w == setTokensFormat(v, removed, q.size)
    <3>1. DOMAIN w = DOMAIN view /\ w.at = view.at /\ w.page = view.page /\ w.size = view.size /\ w.rows = removed
      BY <2>6, FormatFields
    <3>. HIDE DEF w
    <3>2. Ends(n, w)
      BY <2>8 DEF w
    <3>. QED
      BY <1>4, <1>8, <2>2, <2>3, <2>7, <3>1, <3>2
  <2>9. CASE net[n].st = "refused" /\ Ends(n, v)
    BY <2>2, <2>5, <2>9, KeptEnds DEF Done
  <2>10. CASE /\ net[n].st = "ok" /\ net[n].req = "put"
              /\ EndsMarking(n, setTokensFormat(v, marked, q.size), o, st, FALSE)
    <3>. DEFINE w == setTokensFormat(v, marked, q.size)
    <3>1. Marks(n, st, FALSE)
      BY <2>2, <2>10, AnswerMarks
    <3>. HIDE DEF st, marked
    <3>2. DOMAIN w = DOMAIN view /\ w.at = view.at /\ w.page = view.page /\ w.size = view.size /\ w.rows = marked
      BY <2>6, FormatFields
    <3>3. EndsMarking(n, w, o, st, FALSE)
      BY <2>10
    <3>. HIDE DEF w
    <3>4. w.rows = Marked(net[n].was, net[n].was[net[n].arg.idx], st, FALSE)
      BY <3>2 DEF marked
    <3>. QED
      BY <1>2, <1>3, <1>4, <2>2, <2>3, <2>10, <3>1, <3>2, <3>3, <3>4, MarkingEnds
  <2>. QED
    BY <2>2, <2>4, <2>8, <2>9, <2>10, RejectedKeep
<1>16. CASE airSearchTokens
  <2>1. CASE airLoadTokens(view, 0, TRUE)
    <3>1. 0 \in Nat
      OBVIOUS
    <3>. QED
      BY <1>4, <1>7, <2>1, <3>1
  <2>2. CASE Sends([view EXCEPT !.searching = TRUE], "airSearchTokens", "search", [size |-> view.size])
    <3>1. Kept([view EXCEPT !.searching = TRUE])
      BY <1>2, AirFlags
    <3>. QED
      BY <1>5, <2>2, <3>1, SearchSends
  <2>. QED
    BY <1>16, <2>1, <2>2 DEF airSearchTokens
<1>17. CASE airSearchTokensReturns
  <2>1. PICK n \in Back("air.Tokens", "airSearchTokens") :
           LET v == [view EXCEPT !.searching = FALSE] IN
           \/ Rejected(n)
           \/ net[n].st = "refused" /\ Ends(n, v)
           \/ net[n].st = "ok" /\ Ends(n, setTokensFormat([v EXCEPT !.page = 1], Rows(n), net[n].arg.size))
    BY <1>17 DEF airSearchTokensReturns
  <2>2. n \in DOMAIN net /\ net[n].req = "search"
    BY <1>5, BackFacts DEF ForOK
  <2>. DEFINE v == [view EXCEPT !.searching = FALSE]
              u == [v EXCEPT !.page = 1]
              w == setTokensFormat(u, Rows(n), net[n].arg.size)
  <2>3. Rejected(n) \/ (net[n].st = "refused" /\ Ends(n, v)) \/ (net[n].st = "ok" /\ Ends(n, w))
    BY <2>1
  <2>4. /\ DOMAIN u = DOMAIN view /\ u.at = view.at /\ u.page = 1 /\ u.size = view.size
        /\ "at" \in DOMAIN u /\ "rows" \in DOMAIN u /\ "page" \in DOMAIN u /\ "size" \in DOMAIN u
    BY <1>4
  <2>5. Kept(v) /\ (net[n].st # "ok" => ~Done(n))
    BY <1>2, AirFlags DEF Done
  <2>. HIDE DEF v, u
  <2>6. CASE net[n].st = "ok" /\ Ends(n, w)
    <3>1. DOMAIN w = DOMAIN view /\ w.at = view.at /\ w.page = 1 /\ w.size = view.size /\ w.rows = Rows(n)
      BY <2>4, FormatFields
    <3>. HIDE DEF w
    <3>2. Rows(n) \in Seq(Good(n)) /\ 1 \in Nat \ {0}
      BY <2>2, <2>6, FoundShown
    <3>. QED
      BY <1>8, <2>2, <2>6, <3>1, <3>2
  <2>. QED
    BY <2>2, <2>3, <2>5, <2>6, RejectedKeep, KeptEnds
<1>. QED
  BY <1>9, <1>10, <1>11, <1>12, <1>13, <1>14, <1>15, <1>16, <1>17 DEF airTokensNext

(***************************************************************************)
(* The two tables of air that push a later page onto their array.          *)
(***************************************************************************)
LEMMA PushedFields ==
    ASSUME NEW p, NEW order, NEW blank
    PROVE  PushedRequest(p, order, blank).p = p /\ PushedRequest(p, order, blank).era = view.era
<1>. DEFINE r == AirPage(p, order, 0)
            s == [era |-> view.era, page |-> view.page, blank |-> blank]
<1>1. r.p = p /\ DOMAIN r = {"p", "order", "type", "some"}
  BY AirFields
<1>2. s.era = view.era /\ DOMAIN s = {"era", "page", "blank"}
  OBVIOUS
<1>3. PushedRequest(p, order, blank) = With(r, s)
  BY DEF PushedRequest
<1>. HIDE DEF r, s
<1>4. "p" \in DOMAIN r /\ "era" \notin DOMAIN r /\ "era" \in DOMAIN s
  BY <1>1, <1>2
<1>. QED
  BY <1>1, <1>2, <1>3, <1>4, WithOld, WithNew

\* What the two tables have in common.
LEMMA PushingView ==
    ASSUME IInv, view.at \in {"air.Redemptions", "air.Users"}
    PROVE  /\ view.at \in Airs /\ view.at \in Pushing /\ view.at \notin Splicing
           /\ view.at \notin Defaults /\ view.at \notin Berries /\ view.at \notin Functional
           /\ "at" \in DOMAIN view /\ "rows" \in DOMAIN view /\ "page" \in DOMAIN view /\ "size" \in DOMAIN view
           /\ "era" \in DOMAIN view
           /\ view.page \in Nat \ {0} /\ view.size \in Nat \ {0} /\ view.rows \in Seq(Past(server.was))
           /\ \A arg : arg.p \in Nat => ListOK(view.at, arg, server.was)
<1>1. view.at \in Airs /\ view.at \in Pushing /\ view.at \notin Splicing
  BY DEF Airs, Pushing, Splicing
<1>2. view.at \notin Defaults /\ view.at \notin Berries /\ view.at \notin Functional
  BY <1>1, Kinds
<1>3. \A arg : arg.p \in Nat => ListOK(view.at, arg, server.was)
  BY <1>1, <1>2 DEF ListOK
<1>. QED
  BY <1>1, <1>2, <1>3, AirView, ViewFacts

\* A load of a page onto the array that is shown.
LEMMA PushingLoads ==
    ASSUME IInv, Moved, view.at \in {"air.Redemptions", "air.Users"}, NEW fn \in Lists, NEW v, Kept(v),
           NEW p \in Nat, NEW order, NEW blank,
           \/ SendsWith(v, fn, "list", PushedRequest(p, order, blank), view.rows)
           \/ SavedThen(v, fn, "list", PushedRequest(p, order, blank), view.rows)
    PROVE  IInv'
<1>. DEFINE arg == PushedRequest(p, order, blank)
<1>1. arg.p = p /\ arg.era = view.era
  BY PushedFields
<1>2. SendsWith(v, fn, "list", arg, view.rows) \/ SavedThen(v, fn, "list", arg, view.rows)
  OBVIOUS
<1>. HIDE DEF arg
<1>3. ListOK(view.at, arg, server.was) /\ view.rows \in Seq(Past(server.was))
  BY <1>1, PushingView
<1>. QED
  BY <1>1, <1>2, <1>3, LoadSends

\* The list is another array.
LEMMA PushingEnds ==
    ASSUME IInv, Moved, view.at \in {"air.Redemptions", "air.Users"}, NEW n \in DOMAIN net, net[n].req # "tell",
           NEW rows \in Seq(Good(n)), NEW v, DOMAIN v = DOMAIN view, v.at = view.at, v.page \in Nat \ {0},
           v.size = view.size, v.rows = rows, v.era = NewEra
    PROVE  Listing(v) /\ (Ends(n, v) => IInv')
<1>1. rows \in Seq(Past(server.was))
  BY GoodIsPast, SeqGrows
<1>2. Listing(v)
  BY <1>1, PushingView, AirListing, NewEraFresh
<1>3. Ends(n, v) => IInv'
  BY <1>2, ListingEnds
<1>. QED
  BY <1>2, <1>3

LEMMA ManagedKeeps ==
    ASSUME IInv, Moved, view.at \in {"air.Redemptions", "air.Users"}, NEW fn \in Indexed,
           NEW n \in Back(view.at, fn), Managed(n)
    PROVE  IInv'
<1>1. n \in DOMAIN net /\ net[n].fn \in Indexed
  BY BackFacts
<1>2. net[n].req \in Changing /\ net[n].req # "tell" /\ UsesWas(n)
  BY <1>1, BackFacts, PushingView DEF ForOK, Changing, UsesWas
<1>. DEFINE o == net[n].was[net[n].arg.idx]
            st == net[n].data[1].st
            removed == RemoveRecord(net[n].was, net[n].arg.id)
            marked == Marked(net[n].was, o, st, FALSE)
<1>3. \/ Rejected(n)
      \/ Ends(n, [view EXCEPT !.rows = removed, !.era = NewEra])
      \/ net[n].st = "refused" /\ Ends(n, view)
      \/ /\ net[n].st = "ok" /\ net[n].req # "delete"
         /\ EndsMarking(n, [view EXCEPT !.rows = marked, !.era = NewEra], o, st, FALSE)
  BY DEF Managed
<1>4. removed \in Seq(Good(n))
  BY <1>1, <1>2, RecordRemoved
<1>5. ASSUME NEW rows
      PROVE  LET v == [view EXCEPT !.rows = rows, !.era = NewEra] IN
             /\ DOMAIN v = DOMAIN view /\ v.at = view.at /\ v.page = view.page /\ v.size = view.size
             /\ v.rows = rows /\ v.era = NewEra
  BY PushingView
<1>6. CASE Ends(n, [view EXCEPT !.rows = removed, !.era = NewEra])
  <2>. HIDE DEF removed
  <2>. DEFINE v == [view EXCEPT !.rows = removed, !.era = NewEra]
  <2>1. /\ DOMAIN v = DOMAIN view /\ v.at = view.at /\ v.page = view.page /\ v.size = view.size
        /\ v.rows = removed /\ v.era = NewEra
    BY <1>5
  <2>2. Ends(n, v)
    BY <1>6
  <2>. HIDE DEF v
  <2>3. v.page \in Nat \ {0}
    BY <2>1, PushingView
  <2>. QED
    BY <1>1, <1>2, <1>4, <2>1, <2>2, <2>3, PushingEnds
<1>7. CASE net[n].st = "refused" /\ Ends(n, view)
  BY <1>1, <1>7, SameEnds DEF Done
<1>8. CASE /\ net[n].st = "ok" /\ net[n].req # "delete"
           /\ EndsMarking(n, [view EXCEPT !.rows = marked, !.era = NewEra], o, st, FALSE)
  <2>. DEFINE v == [view EXCEPT !.rows = marked, !.era = NewEra]
  <2>1. Marks(n, st, FALSE)
    BY <1>1, <1>8, AnswerMarks
  <2>. HIDE DEF st, marked
  <2>2. /\ DOMAIN v = DOMAIN view /\ v.at = view.at /\ v.page = view.page /\ v.size = view.size
        /\ v.rows = marked /\ v.era = NewEra
    BY <1>5
  <2>3. EndsMarking(n, v, o, st, FALSE)
    BY <1>8
  <2>. HIDE DEF v
  <2>4. v.rows = Marked(net[n].was, net[n].was[net[n].arg.idx], st, FALSE)
    BY <2>2 DEF marked
  <2>5. v.page \in Nat \ {0} /\ v.size \in Nat \ {0} /\ Fresh(v.era)
    BY <2>2, PushingView, NewEraFresh
  <2>. QED
    BY <1>1, <1>2, <1>8, <2>1, <2>2, <2>3, <2>4, <2>5, PushingView, MarkingEnds
<1>. QED
  BY <1>1, <1>3, <1>6, <1>7, <1>8, RejectedKeep

\* A search of either table.
LEMMA PushingSearched ==
    ASSUME IInv, Moved, view.at \in {"air.Redemptions", "air.Users"}, NEW fn \in Searching, NEW n \in Back(view.at, fn),
           LET v == [view EXCEPT !.searching = FALSE] IN
           \/ Rejected(n)
           \/ net[n].st = "refused" /\ Ends(n, v)
           \/ net[n].st = "ok" /\ Ends(n, [v EXCEPT !.rows = Rows(n), !.page = 1, !.era = NewEra])
    PROVE  IInv'
<1>1. n \in DOMAIN net /\ net[n].req = "search"
  BY BackFacts DEF ForOK
<1>. DEFINE v == [view EXCEPT !.searching = FALSE]
            w == [v EXCEPT !.rows = Rows(n), !.page = 1, !.era = NewEra]
<1>2. Kept(v) /\ (net[n].st # "ok" => ~Done(n))
  BY PushingView, AirFlags DEF Done
<1>3. CASE net[n].st = "ok" /\ Ends(n, w)
  <2>1. DOMAIN v = DOMAIN view /\ v.at = view.at /\ v.size = view.size
    BY PushingView
  <2>. HIDE DEF v
  <2>2. /\ DOMAIN w = DOMAIN view /\ w.at = view.at /\ w.page = 1 /\ w.size = view.size
        /\ w.rows = Rows(n) /\ w.era = NewEra
    BY <2>1, PushingView
  <2>. HIDE DEF w
  <2>3. Rows(n) \in Seq(Good(n)) /\ 1 \in Nat \ {0}
    BY <1>1, <1>3, FoundShown
  <2>. QED
    BY <1>1, <1>3, <2>2, <2>3, PushingEnds
<1>. QED
  BY <1>1, <1>2, <1>3, RejectedKeep, KeptEnds

\* A page of the answer is pushed onto the array of the closure.
LEMMA PushingPushed ==
    ASSUME IInv, Moved, view.at \in {"air.Redemptions", "air.Users"}, NEW n \in DOMAIN net, net[n].req = "list",
           net[n].st = "ok", NEW v, DOMAIN v = DOMAIN view, v.at = view.at, v.page \in Nat \ {0}, v.size = view.size,
           EndsPushing(n, v, Rows(n))
    PROVE  IInv'
<1>1. view.at \in Pushing /\ v.size \in Nat \ {0}
  BY PushingView
<1>. QED
  BY <1>1, PushedEnds

LEMMA airRedemptionsKeep == ASSUME IInv, Moved, airRedemptionsNext PROVE IInv'
<1>1. view.at = "air.Redemptions" /\ view.at \in {"air.Redemptions", "air.Users"}
  BY DEF airRedemptionsNext, airLoadRedemptionsReturns, airHandlePageChangeRedemptions, airRefreshRedemptions,
     airManageRedemption, airManageRedemptionReturns, airSearchRedemptions, airSearchRedemptionsReturns, At, Back
<1>2. view.at \in Airs /\ view.at \in Pushing /\ view.at \notin Functional
  BY <1>1, PushingView
<1>3. /\ "at" \in DOMAIN view /\ "rows" \in DOMAIN view /\ "page" \in DOMAIN view /\ "size" \in DOMAIN view
      /\ "era" \in DOMAIN view
      /\ view.page \in Nat \ {0} /\ view.size \in Nat \ {0} /\ view.rows \in Seq(Past(server.was))
  BY <1>1, PushingView
<1>4. "airLoadRedemptions" \in Lists /\ "airManageRedemption" \in Indexed /\ "airSearchRedemptions" \in Searching
  BY DEF Lists, Indexed, Searching
<1>5. ASSUME NEW v, Kept(v), NEW p \in Nat, NEW blank, airLoadRedemptions(v, p, blank) PROVE IInv'
  <2>1. SendsWith(v, "airLoadRedemptions", "list", PushedRequest(p, "", blank), view.rows)
    BY <1>5 DEF airLoadRedemptions
  <2>. QED
    BY <1>1, <1>4, <1>5, <2>1, PushingLoads
<1>6. CASE airLoadRedemptionsReturns
  <2>1. PICK n \in Back("air.Redemptions", "airLoadRedemptions") :
           LET q == net[n].arg
               v == [view EXCEPT !.loading = FALSE, !.page = IF q.blank THEN 1 ELSE @]
           IN
           \/ Rejected(n)
           \/ net[n].st = "refused" /\ Ends(n, v)
           \/ net[n].st = "ok" /\ q.p = 0 /\ Ends(n, [setRedemptionFormat(v, Rows(n), q.page) EXCEPT !.era = NewEra])
           \/ net[n].st = "ok" /\ q.p # 0
               /\ EndsPushing(n, setRedemptionFormat(v, net[n].was \o Rows(n), q.page), Rows(n))
    BY <1>6 DEF airLoadRedemptionsReturns
  <2>. DEFINE q == net[n].arg
              v == [view EXCEPT !.loading = FALSE, !.page = IF q.blank THEN 1 ELSE @]
              longer == net[n].was \o Rows(n)
              u == setRedemptionFormat(v, Rows(n), q.page)
              w == [u EXCEPT !.era = NewEra]
              x == setRedemptionFormat(v, longer, q.page)
  <2>2. n \in DOMAIN net /\ n \in Back(view.at, "airLoadRedemptions")
    BY <1>1, BackFacts
  <2>3. \/ Rejected(n)
        \/ net[n].st = "refused" /\ Ends(n, v)
        \/ net[n].st = "ok" /\ Ends(n, w)
        \/ net[n].st = "ok" /\ EndsPushing(n, x, Rows(n))
    BY <2>1
  <2>4. /\ DOMAIN v = DOMAIN view /\ v.at = view.at /\ v.page \in Nat \ {0} /\ v.size = view.size
        /\ v.rows = view.rows /\ v.era = view.era
        /\ "at" \in DOMAIN v /\ "rows" \in DOMAIN v /\ "page" \in DOMAIN v /\ "size" \in DOMAIN v
    BY <1>3
  <2>. HIDE DEF v, longer
  <2>5. CASE net[n].st = "refused" /\ Ends(n, v)
    <3>1. Kept(v) /\ ~Done(n)
      BY <1>2, <1>3, <2>4, <2>5, AirKept DEF Done
    <3>. QED
      BY <2>2, <2>5, <3>1, KeptEnds
  <2>6. ASSUME net[n].st = "ok"
        PROVE  net[n].req = "list" /\ Rows(n) \in Seq(Good(n))
    BY <1>2, <1>4, <2>2, <2>6, AirLoaded
  <2>7. CASE net[n].st = "ok" /\ Ends(n, w)
    <3>1. DOMAIN u = DOMAIN v /\ u.at = v.at /\ u.page = v.page /\ u.size = v.size /\ u.rows = Rows(n)
      BY <2>4, FormatFields
    <3>. HIDE DEF u
    <3>2. /\ DOMAIN w = DOMAIN view /\ w.at = view.at /\ w.page \in Nat \ {0} /\ w.size = view.size
          /\ w.rows = Rows(n) /\ w.era = NewEra
      BY <1>3, <2>4, <3>1
    <3>. HIDE DEF w
    <3>. QED
      BY <1>1, <2>2, <2>6, <2>7, <3>2, PushingEnds
  <2>8. CASE net[n].st = "ok" /\ EndsPushing(n, x, Rows(n))
    <3>1. DOMAIN x = DOMAIN v /\ x.at = v.at /\ x.page = v.page /\ x.size = v.size
      BY <2>4, FormatFields
    <3>. HIDE DEF x
    <3>. QED
      BY <1>1, <2>2, <2>4, <2>6, <2>8, <3>1, PushingPushed
  <2>. QED
    BY <2>2, <2>3, <2>5, <2>7, <2>8, RejectedKeep
<1>7. CASE airHandlePageChangeRedemptions
  <2>1. PICK p \in AirPages :
           LET v == [view EXCEPT !.page = p] IN IF Beyond(p) THEN airLoadRedemptions(v, p - 1, FALSE) ELSE Shows(v)
    BY <1>7 DEF airHandlePageChangeRedemptions
  <2>2. p \in Nat \ {0} /\ p - 1 \in Nat
    BY <1>2, AirView
  <2>. DEFINE v == [view EXCEPT !.page = p]
  <2>3. airLoadRedemptions(v, p - 1, FALSE) \/ Shows(v)
    BY <2>1
  <2>4. Kept(v)
    BY <1>2, <2>2, AirTurned
  <2>. HIDE DEF v
  <2>. QED
    BY <1>5, <2>2, <2>3, <2>4, KeptShows
<1>8. CASE airRefreshRedemptions
  <2>1. SavedThen(view, "airLoadRedemptions", "list", PushedRequest(view.page - 1, "", FALSE), view.rows)
    BY <1>8 DEF airRefreshRedemptions
  <2>2. view.page - 1 \in Nat
    BY <1>3
  <2>. QED
    BY <1>1, <1>4, <2>1, <2>2, KeptIsListed, PushingLoads
<1>9. CASE airManageRedemption
  <2>1. PICK i \in AirShown :
           \E b \in airRedemptionButtons(i) : SendsWith(view, "airManageRedemption", b[1], b[2], view.rows)
    BY <1>9 DEF airManageRedemption
  <2>2. PICK b \in airRedemptionButtons(i) : SendsWith(view, "airManageRedemption", b[1], b[2], view.rows)
    BY <2>1
  <2>. DEFINE q == [id |-> view.rows[i].id, idx |-> i, era |-> view.era]
              st == Opposite(view.rows[i])
              more == [st |-> st]
  <2>3. b = <<"delete", q>> \/ b = <<"put", With(q, more)>>
    BY <2>2 DEF airRedemptionButtons
  <2>4. /\ q.idx = i /\ q.id = view.rows[i].id /\ q.era = view.era /\ DOMAIN q = {"id", "idx", "era"}
        /\ more.st = st /\ DOMAIN more = {"st"}
    OBVIOUS
  <2>5. st \in Statuses
    BY AirOpposite
  <2>. HIDE DEF q, st, more
  <2>6. /\ With(q, more).idx = i /\ With(q, more).id = view.rows[i].id /\ With(q, more).era = view.era
        /\ With(q, more).st = st
    <3>1. "idx" \in DOMAIN q /\ "id" \in DOMAIN q /\ "era" \in DOMAIN q /\ "st" \in DOMAIN more /\ "st" \notin DOMAIN q
      BY <2>4
    <3>. QED
      BY <2>4, <3>1, WithOld, WithNew
  <2>7. /\ b[1] \in Changing /\ b[2].idx = i /\ b[2].id = view.rows[i].id /\ b[2].era = view.era
        /\ b[1] = "put" => b[2].st \in Statuses
    BY <2>3, <2>4, <2>5, <2>6 DEF Changing
  <2>. QED
    BY <1>2, <1>4, <2>2, <2>7, KeptIsListed, AirManages
<1>10. CASE airManageRedemptionReturns
  <2>1. PICK n \in Back(view.at, "airManageRedemption") : Managed(n)
    BY <1>1, <1>10 DEF airManageRedemptionReturns
  <2>. QED
    BY <1>1, <1>4, <2>1, ManagedKeeps
<1>11. CASE airSearchRedemptions
  <2>1. CASE airLoadRedemptions(view, 0, TRUE)
    <3>1. 0 \in Nat
      OBVIOUS
    <3>. QED
      BY <1>5, <2>1, <3>1, KeptIsListed
  <2>2. CASE Sends([view EXCEPT !.searching = TRUE], "airSearchRedemptions", "search", [era |-> -1])
    <3>1. Kept([view EXCEPT !.searching = TRUE])
      BY <1>2, AirFlags
    <3>. QED
      BY <1>4, <2>2, <3>1, SearchSends
  <2>. QED
    BY <1>11, <2>1, <2>2 DEF airSearchRedemptions
<1>12. CASE airSearchRedemptionsReturns
  <2>1. PICK n \in Back(view.at, "airSearchRedemptions") :
           LET v == [view EXCEPT !.searching = FALSE] IN
           \/ Rejected(n)
           \/ net[n].st = "refused" /\ Ends(n, v)
           \/ net[n].st = "ok" /\ Ends(n, [v EXCEPT !.rows = Rows(n), !.page = 1, !.era = NewEra])
    BY <1>1, <1>12 DEF airSearchRedemptionsReturns
  <2>. QED
    BY <1>1, <1>4, <2>1, PushingSearched
<1>. QED
  BY <1>6, <1>7, <1>8, <1>9, <1>10, <1>11, <1>12 DEF airRedemptionsNext

LEMMA airUsersKeep == ASSUME IInv, Moved, airUsersNext PROVE IInv'
<1>1. view.at = "air.Users" /\ view.at \in {"air.Redemptions", "air.Users"}
  BY DEF airUsersNext, airLoadUsersReturns, airHandlePageChangeUsers, airHandleOrderByChangeUsers, airRefreshUsers,
     airManageUser, airManageUserReturns, airSearchUsers, airSearchUsersReturns, At, Back
<1>2. view.at \in Airs /\ view.at \in Pushing /\ view.at \notin Functional
  BY <1>1, PushingView
<1>3. /\ "at" \in DOMAIN view /\ "rows" \in DOMAIN view /\ "page" \in DOMAIN view /\ "size" \in DOMAIN view
      /\ "era" \in DOMAIN view
      /\ view.page \in Nat \ {0} /\ view.size \in Nat \ {0} /\ view.rows \in Seq(Past(server.was))
  BY <1>1, PushingView
<1>4. "airLoadUsers" \in Lists /\ "airManageUser" \in Indexed /\ "airSearchUsers" \in Searching
  BY DEF Lists, Indexed, Searching
<1>5. ASSUME NEW v, Kept(v), NEW p \in Nat, NEW blank, airLoadUsers(v, p, blank) PROVE IInv'
  <2>1. SendsWith(v, "airLoadUsers", "list", PushedRequest(p, v.orderBy, blank), view.rows)
    BY <1>5 DEF airLoadUsers
  <2>. QED
    BY <1>1, <1>4, <1>5, <2>1, PushingLoads
<1>6. CASE airLoadUsersReturns
  <2>1. PICK n \in Back("air.Users", "airLoadUsers") :
           LET q == net[n].arg
               v == [view EXCEPT !.loading = FALSE, !.page = IF q.blank THEN 1 ELSE @,
                                 !.orderBy = IF q.blank THEN "" ELSE @]
               first == [setCount([v EXCEPT !.rows = Rows(n)], q.page) EXCEPT !.era = NewEra]
           IN
           \/ Rejected(n)
           \/ net[n].st = "refused" /\ v.orderBy = view.orderBy /\ Ends(n, v)
           \/ /\ net[n].st = "ok" /\ q.p = 0 /\ v.orderBy = view.orderBy
              /\ Ends(n, first)
           \/ /\ net[n].st # "failed" /\ v.orderBy # view.orderBy
              /\ LET w == IF net[n].st = "ok" THEN first ELSE v IN
                 GoesOn(n, w, "airLoadUsers", "list",
                        With(AirPage(0, "", 0), [era |-> w.era, page |-> 1, blank |-> FALSE]), w.rows)
           \/ net[n].st = "ok" /\ q.p # 0
               /\ EndsPushing(n, setCount([v EXCEPT !.rows = net[n].was \o Rows(n)], q.page), Rows(n))
    BY <1>6 DEF airLoadUsersReturns
  <2>. DEFINE q == net[n].arg
              v == [view EXCEPT !.loading = FALSE, !.page = IF q.blank THEN 1 ELSE @,
                                !.orderBy = IF q.blank THEN "" ELSE @]
              longer == net[n].was \o Rows(n)
              t == [v EXCEPT !.rows = Rows(n)]
              u == setCount(t, q.page)
              first == [u EXCEPT !.era = NewEra]
              w == IF net[n].st = "ok" THEN first ELSE v
              arg == With(AirPage(0, "", 0), [era |-> w.era, page |-> 1, blank |-> FALSE])
              s == [v EXCEPT !.rows = longer]
              x == setCount(s, q.page)
  <2>2. n \in DOMAIN net /\ n \in Back(view.at, "airLoadUsers")
    BY <1>1, BackFacts
  <2>3. \/ Rejected(n)
        \/ net[n].st = "refused" /\ Ends(n, v)
        \/ net[n].st = "ok" /\ Ends(n, first)
        \/ net[n].st # "failed" /\ GoesOn(n, w, "airLoadUsers", "list", arg, w.rows)
        \/ net[n].st = "ok" /\ EndsPushing(n, x, Rows(n))
    BY <2>1
  <2>4. /\ DOMAIN v = DOMAIN view /\ v.at = view.at /\ v.page \in Nat \ {0} /\ v.size = view.size
        /\ v.rows = view.rows /\ v.era = view.era
    BY <1>3
  <2>. HIDE DEF v, longer
  <2>5. DOMAIN t = DOMAIN view /\ t.at = view.at /\ t.page = v.page /\ t.size = view.size /\ t.rows = Rows(n)
    BY <1>3, <2>4
  <2>6. DOMAIN s = DOMAIN view /\ s.at = view.at /\ s.page = v.page /\ s.size = view.size
    BY <1>3, <2>4
  <2>. HIDE DEF t, s
  <2>7. DOMAIN u = DOMAIN view /\ u.at = view.at /\ u.page = v.page /\ u.size = view.size /\ u.rows = Rows(n)
    BY <1>3, <2>5 DEF setCount
  <2>8. DOMAIN x = DOMAIN view /\ x.at = view.at /\ x.page = v.page /\ x.size = view.size
    BY <1>3, <2>6 DEF setCount
  <2>. HIDE DEF u, x
  <2>9. /\ DOMAIN first = DOMAIN view /\ first.at = view.at /\ first.page \in Nat \ {0} /\ first.size = view.size
        /\ first.rows = Rows(n) /\ first.era = NewEra
    BY <1>3, <2>4, <2>7
  <2>. HIDE DEF first
  <2>10. ASSUME net[n].st # "failed"
         PROVE  /\ net[n].req = "list" /\ net[n].req # "tell" /\ ~Done(n) /\ view.rows \in Seq(Good(n))
                /\ net[n].st = "ok" => Rows(n) \in Seq(Good(n))
    BY <1>2, <1>4, <2>2, <2>10, AirLoaded
  <2>11. Kept(v)
    BY <1>2, <1>3, <2>4, AirKept
  <2>12. CASE net[n].st = "refused" /\ Ends(n, v)
    BY <2>2, <2>10, <2>11, <2>12, KeptEnds
  <2>13. CASE net[n].st = "ok" /\ Ends(n, first)
    BY <1>1, <2>2, <2>9, <2>10, <2>13, PushingEnds
  <2>14. CASE net[n].st # "failed" /\ GoesOn(n, w, "airLoadUsers", "list", arg, w.rows)
    <3>1. Proper(w) /\ w.rows \in Seq(Good(n))
      <4>1. CASE net[n].st = "ok"
        <5>1. Listing(first)
          BY <1>1, <2>2, <2>9, <2>10, <4>1, PushingEnds
        <5>. QED
          BY <2>9, <2>10, <4>1, <5>1, ListingProper
      <4>2. CASE net[n].st # "ok"
        BY <2>4, <2>10, <2>11, <2>14, <4>2, KeptProper
      <4>. QED
        BY <4>1, <4>2
    <3>. HIDE DEF w
    <3>2. w.rows \in Seq(Past(server.was))
      BY <3>1, GoodIsPast, SeqGrows
    <3>3. arg.p = 0 /\ arg.era = w.era
      <4>. DEFINE r == AirPage(0, "", 0)
                  more == [era |-> w.era, page |-> 1, blank |-> FALSE]
      <4>1. r.p = 0 /\ DOMAIN r = {"p", "order", "type", "some"}
        BY AirFields
      <4>2. more.era = w.era /\ DOMAIN more = {"era", "page", "blank"} /\ arg = With(r, more)
        OBVIOUS
      <4>. HIDE DEF r, more, arg
      <4>3. "p" \in DOMAIN r /\ "era" \notin DOMAIN r /\ "era" \in DOMAIN more
        BY <4>1, <4>2
      <4>. QED
        BY <4>1, <4>2, <4>3, WithOld, WithNew
    <3>. HIDE DEF arg
    <3>4. ListOK(view.at, arg, server.was)
      BY <1>1, <3>3, PushingView
    <3>5. NewOK(w, Request("airLoadUsers", "list", arg, w.rows))
      BY <1>4, <3>1, <3>2, <3>3, <3>4, LoadNew
    <3>. QED
      BY <2>2, <2>10, <2>14, <3>1, <3>5, GoesOnKeep
  <2>15. CASE net[n].st = "ok" /\ EndsPushing(n, x, Rows(n))
    BY <1>1, <2>2, <2>4, <2>8, <2>10, <2>15, PushingPushed
  <2>. QED
    BY <2>2, <2>3, <2>12, <2>13, <2>14, <2>15, RejectedKeep
<1>7. CASE airHandlePageChangeUsers
  <2>1. PICK p \in AirPages :
           LET v == [view EXCEPT !.page = p] IN IF Beyond(p) THEN airLoadUsers(v, p - 1, FALSE) ELSE Shows(v)
    BY <1>7 DEF airHandlePageChangeUsers
  <2>2. p \in Nat \ {0} /\ p - 1 \in Nat
    BY <1>2, AirView
  <2>. DEFINE v == [view EXCEPT !.page = p]
  <2>3. airLoadUsers(v, p - 1, FALSE) \/ Shows(v)
    BY <2>1
  <2>4. Kept(v)
    BY <1>2, <2>2, AirTurned
  <2>. HIDE DEF v
  <2>. QED
    BY <1>5, <2>2, <2>3, <2>4, KeptShows
<1>8. CASE airHandleOrderByChangeUsers
  <2>1. PICK order : airLoadUsers([view EXCEPT !.orderBy = order, !.page = 1], 0, FALSE)
    BY <1>8 DEF airHandleOrderByChangeUsers
  <2>. DEFINE v == [view EXCEPT !.orderBy = order, !.page = 1]
  <2>2. /\ DOMAIN v = DOMAIN view /\ v.at = view.at /\ v.rows = view.rows /\ v.page = 1 /\ v.size = view.size
        /\ v.era = view.era
    BY <1>3
  <2>3. airLoadUsers(v, 0, FALSE)
    BY <2>1
  <2>a. 0 \in Nat /\ 1 \in Nat \ {0}
    OBVIOUS
  <2>. HIDE DEF v
  <2>4. Kept(v)
    BY <1>2, <1>3, <2>2, <2>a, AirKept
  <2>. QED
    BY <1>5, <2>3, <2>a, <2>4
<1>9. CASE airRefreshUsers
  <2>1. \/ SavedThen(view, "airLoadUsers", "list", PushedRequest(view.page - 1, view.orderBy, FALSE), view.rows)
        \/ SavedThen([view EXCEPT !.searching = TRUE], "airSearchUsers", "search", [era |-> -1], <<>>)
    BY <1>9 DEF airRefreshUsers
  <2>a. view.page - 1 \in Nat
    BY <1>3
  <2>b. Kept([view EXCEPT !.searching = TRUE])
    BY <1>2, AirFlags
  <2>2. view.page - 1 \in Nat /\ Kept([view EXCEPT !.searching = TRUE]) /\ Kept(view)
    BY <2>a, <2>b, KeptIsListed
  <2>3. CASE SavedThen(view, "airLoadUsers", "list", PushedRequest(view.page - 1, view.orderBy, FALSE), view.rows)
    BY <1>1, <1>4, <2>2, <2>3, PushingLoads
  <2>4. CASE SavedThen([view EXCEPT !.searching = TRUE], "airSearchUsers", "search", [era |-> -1], <<>>)
    BY <1>4, <2>2, <2>4, SearchSends
  <2>. QED
    BY <2>1, <2>3, <2>4
<1>10. CASE airManageUser
  <2>1. PICK i \in AirShown :
           \E b \in airUserButtons(i) : SendsWith(view, "airManageUser", b[1], b[2], view.rows)
    BY <1>10 DEF airManageUser
  <2>2. PICK b \in airUserButtons(i) : SendsWith(view, "airManageUser", b[1], b[2], view.rows)
    BY <2>1
  <2>. DEFINE q == [id |-> view.rows[i].id, idx |-> i, era |-> view.era]
              st == Opposite(view.rows[i])
              more == [st |-> st]
  <2>3. b = <<"delete", q>> \/ b = <<"touch", q>> \/ b = <<"put", With(q, more)>>
    BY <2>2 DEF airUserButtons
  <2>4. /\ q.idx = i /\ q.id = view.rows[i].id /\ q.era = view.era /\ DOMAIN q = {"id", "idx", "era"}
        /\ more.st = st /\ DOMAIN more = {"st"}
    OBVIOUS
  <2>5. st \in Statuses
    BY AirOpposite
  <2>. HIDE DEF q, st, more
  <2>6. /\ With(q, more).idx = i /\ With(q, more).id = view.rows[i].id /\ With(q, more).era = view.era
        /\ With(q, more).st = st
    <3>1. "idx" \in DOMAIN q /\ "id" \in DOMAIN q /\ "era" \in DOMAIN q /\ "st" \in DOMAIN more /\ "st" \notin DOMAIN q
      BY <2>4
    <3>. QED
      BY <2>4, <3>1, WithOld, WithNew
  <2>7. /\ b[1] \in Changing /\ b[2].idx = i /\ b[2].id = view.rows[i].id /\ b[2].era = view.era
        /\ b[1] = "put" => b[2].st \in Statuses
    BY <2>3, <2>4, <2>5, <2>6 DEF Changing
  <2>. QED
    BY <1>2, <1>4, <2>2, <2>7, KeptIsListed, AirManages
<1>11. CASE airManageUserReturns
  <2>1. PICK n \in Back(view.at, "airManageUser") : Managed(n)
    BY <1>1, <1>11 DEF airManageUserReturns
  <2>. QED
    BY <1>1, <1>4, <2>1, ManagedKeeps
<1>12. CASE airSearchUsers
  <2>1. CASE airLoadUsers(view, 0, TRUE)
    <3>1. 0 \in Nat
      OBVIOUS
    <3>. QED
      BY <1>5, <2>1, <3>1, KeptIsListed
  <2>2. CASE Sends([view EXCEPT !.searching = TRUE], "airSearchUsers", "search", [era |-> -1])
    <3>1. Kept([view EXCEPT !.searching = TRUE])
      BY <1>2, AirFlags
    <3>. QED
      BY <1>4, <2>2, <3>1, SearchSends
  <2>. QED
    BY <1>12, <2>1, <2>2 DEF airSearchUsers
<1>13. CASE airSearchUsersReturns
  <2>1. PICK n \in Back(view.at, "airSearchUsers") :
           LET v == [view EXCEPT !.searching = FALSE] IN
           \/ Rejected(n)
           \/ net[n].st = "refused" /\ Ends(n, v)
           \/ net[n].st = "ok" /\ Ends(n, [v EXCEPT !.rows = Rows(n), !.page = 1, !.era = NewEra])
    BY <1>1, <1>13 DEF airSearchUsersReturns
  <2>. QED
    BY <1>1, <1>4, <2>1, PushingSearched
<1>. QED
  BY <1>6, <1>7, <1>8, <1>9, <1>10, <1>11, <1>12, <1>13 DEF airUsersNext

(***************************************************************************)
(* The tables of channels and of logs in air, which splice a later page in. *)
(***************************************************************************)
LEMMA ChannelsFields ==
    ASSUME NEW p, NEW size
    PROVE  /\ ChannelsRequest(p, size).p = p /\ ChannelsRequest(p, size).size = size
           /\ "p" \in DOMAIN ChannelsRequest(p, size) /\ "size" \in DOMAIN ChannelsRequest(p, size)
<1>. DEFINE r == AirPage(p, "", 0)
            s == [size |-> size]
<1>1. r.p = p /\ DOMAIN r = {"p", "order", "type", "some"}
  BY AirFields
<1>2. s.size = size /\ DOMAIN s = {"size"}
  OBVIOUS
<1>3. ChannelsRequest(p, size) = With(r, s)
  BY DEF ChannelsRequest
<1>. HIDE DEF r, s
<1>4. "p" \in DOMAIN r /\ "size" \notin DOMAIN r /\ "size" \in DOMAIN s
  BY <1>1, <1>2
<1>5. DOMAIN With(r, s) = DOMAIN r \cup DOMAIN s
  BY WithBoth
<1>6. With(r, s)["p"] = p /\ With(r, s)["size"] = size
  BY <1>1, <1>2, <1>4, WithOld, WithNew
<1>. QED
  BY <1>3, <1>4, <1>5, <1>6

LEMMA CountedFields ==
    ASSUME NEW p, NEW size, NEW more
    PROVE  With(ChannelsRequest(p, size), more).p = p /\ With(ChannelsRequest(p, size), more).size = size
<1>. DEFINE r == ChannelsRequest(p, size)
<1>1. r.p = p /\ r.size = size /\ "p" \in DOMAIN r /\ "size" \in DOMAIN r
  BY ChannelsFields
<1>. HIDE DEF r
<1>2. With(r, more).p = p /\ With(r, more).size = size
  BY <1>1, WithOld
<1>. QED
  BY <1>2 DEF r

LEMMA SizedFields ==
    ASSUME NEW p, NEW size, NEW r, "p" \in DOMAIN r, r.p = p, "size" \notin DOMAIN r,
           NEW s, "size" \in DOMAIN s, s.size = size
    PROVE  With(r, s).p = p /\ With(r, s).size = size
  BY WithOld, WithNew

\* What the two tables have in common.
LEMMA SplicingView ==
    ASSUME IInv, view.at \in {"air.Channels", "air.Logs"}
    PROVE  /\ view.at \in Airs /\ view.at \notin Pushing /\ view.at \in Splicing
           /\ view.at \notin Defaults /\ view.at \notin Berries /\ view.at \notin Functional
           /\ "at" \in DOMAIN view /\ "rows" \in DOMAIN view /\ "page" \in DOMAIN view /\ "size" \in DOMAIN view
           /\ view.page \in Nat \ {0} /\ view.size \in Nat \ {0} /\ view.rows \in Seq(Past(server.was))
           /\ \A arg : arg.p \in Nat /\ arg.size \in Nat => ListOK(view.at, arg, server.was)
<1>1. view.at \in Airs /\ view.at \notin Pushing /\ view.at \in Splicing
  BY DEF Airs, Pushing, Splicing
<1>2. view.at \notin Defaults /\ view.at \notin Berries /\ view.at \notin Functional
  BY <1>1, Kinds
<1>3. \A arg : arg.p \in Nat /\ arg.size \in Nat => ListOK(view.at, arg, server.was)
  BY <1>1, <1>2 DEF ListOK
<1>. QED
  BY <1>1, <1>2, <1>3, AirView

LEMMA SplicingLoads ==
    ASSUME IInv, Moved, view.at \in {"air.Channels", "air.Logs"}, NEW fn \in Lists, NEW v, Kept(v),
           NEW arg, arg.p \in Nat, arg.size \in Nat,
           SendsWith(v, fn, "list", arg, view.rows) \/ SavedThen(v, fn, "list", arg, view.rows)
    PROVE  IInv'
<1>1. ListOK(view.at, arg, server.was) /\ view.rows \in Seq(Past(server.was)) /\ view.at \notin Pushing
  BY SplicingView
<1>. QED
  BY <1>1, LoadSends

LEMMA SplicingEnds ==
    ASSUME IInv, Moved, view.at \in {"air.Channels", "air.Logs"}, NEW n \in DOMAIN net, net[n].req # "tell",
           NEW rows \in Seq(Good(n)), NEW v, DOMAIN v = DOMAIN view, v.at = view.at, v.page \in Nat \ {0},
           v.size = view.size, v.rows = rows, Ends(n, v)
    PROVE  IInv'
<1>1. rows \in Seq(Past(server.was))
  BY GoodIsPast, SeqGrows
<1>2. Listing(v)
  BY <1>1, SplicingView, AirListing
<1>. QED
  BY <1>2, ListingEnds

LEMMA airChannelsKeep == ASSUME IInv, Moved, airChannelsNext PROVE IInv'
<1>1. view.at = "air.Channels" /\ view.at \in {"air.Channels", "air.Logs"}
  BY DEF airChannelsNext, airLoadChannelsReturns, airFetchGroupsReturns, airRefreshChannels, airManageChannel,
     airManageChannelReturns, airTestChannelReturns, airUpdateChannelBalanceReturns, airTestChannels,
     airDeleteAllDisabledChannels, airDeleteAllDisabledChannelsReturns, airSearchChannels,
     airSearchChannelsReturns, airHandlePageChangeChannels, airHandlePageSizeChangeChannels, At, Back
<1>2. view.at \in Airs /\ view.at \notin Pushing /\ view.at \notin Functional /\ view.at \notin Berries
  BY <1>1, SplicingView
<1>3. /\ "at" \in DOMAIN view /\ "rows" \in DOMAIN view /\ "page" \in DOMAIN view /\ "size" \in DOMAIN view
      /\ view.page \in Nat \ {0} /\ view.size \in Nat \ {0} /\ view.rows \in Seq(Past(server.was))
  BY <1>1, SplicingView
<1>4. /\ "airLoadChannels" \in Lists /\ "airManageChannel" \in Indexed /\ "airSearchChannels" \in Searching
      /\ "airTestChannel" \in Telling /\ "airUpdateChannelBalance" \in Telling /\ "airFetchGroups" \in Telling
      /\ "airDeleteAllDisabledChannels" \in Purging
  BY DEF Lists, Indexed, Searching, Telling, Purging
<1>5. <<>> \in Seq(Past(server.was))
  BY EmptySeq
<1>6. ASSUME NEW v, Kept(v), NEW p \in Nat, NEW size \in Nat, NEW more,
             LET arg == With(ChannelsRequest(p, size), more) IN
             \/ SendsWith(v, "airLoadChannels", "list", arg, view.rows)
             \/ SavedThen(v, "airLoadChannels", "list", arg, view.rows)
      PROVE  IInv'
  <2>. DEFINE arg == With(ChannelsRequest(p, size), more)
  <2>1. arg.p = p /\ arg.size = size
    BY CountedFields
  <2>2. \/ SendsWith(v, "airLoadChannels", "list", arg, view.rows)
        \/ SavedThen(v, "airLoadChannels", "list", arg, view.rows)
    BY <1>6
  <2>. HIDE DEF arg
  <2>. QED
    BY <1>1, <1>4, <1>6, <2>1, <2>2, SplicingLoads
<1>7. ASSUME NEW v, DOMAIN v = DOMAIN view, v.at = view.at, v.rows = view.rows, v.page \in Nat \ {0},
             v.size \in Nat \ {0}, NEW p \in Nat, airLoadChannels(v, p)
      PROVE  IInv'
  <2>. DEFINE w == [v EXCEPT !.loading = TRUE]
              more == [count |-> view.size, blank |-> FALSE]
  <2>1. SendsWith(w, "airLoadChannels", "list", With(ChannelsRequest(p, v.size), more), view.rows)
    BY <1>7 DEF airLoadChannels
  <2>2. Kept(w) /\ v.size \in Nat
    BY <1>2, <1>7, AirSpins
  <2>. HIDE DEF w, more
  <2>. QED
    BY <1>6, <1>7, <2>1, <2>2
<1>8. CASE airLoadChannelsReturns
  <2>1. PICK n \in Back("air.Channels", "airLoadChannels") :
           LET q == net[n].arg
               v == [view EXCEPT !.loading = FALSE, !.page = IF q.blank THEN 1 ELSE @]
               rows == IF q.p = 0 THEN Rows(n) ELSE Spliced(net[n].was, q.p * q.size, Rows(n))
           IN
           \/ Rejected(n)
           \/ net[n].st = "refused" /\ Ends(n, v)
           \/ net[n].st = "ok" /\ Ends(n, setChannelFormat(v, rows, q.count))
    BY <1>8 DEF airLoadChannelsReturns
  <2>. DEFINE q == net[n].arg
              v == [view EXCEPT !.loading = FALSE, !.page = IF q.blank THEN 1 ELSE @]
              rows == IF q.p = 0 THEN Rows(n) ELSE Spliced(net[n].was, q.p * q.size, Rows(n))
              w == setChannelFormat(v, rows, q.count)
  <2>2. n \in DOMAIN net /\ n \in Back(view.at, "airLoadChannels")
    BY <1>1, BackFacts
  <2>3. Rejected(n) \/ (net[n].st = "refused" /\ Ends(n, v)) \/ (net[n].st = "ok" /\ Ends(n, w))
    BY <2>1
  <2>4. /\ DOMAIN v = DOMAIN view /\ v.at = view.at /\ v.page \in Nat \ {0} /\ v.size = view.size
        /\ v.rows = view.rows
        /\ "at" \in DOMAIN v /\ "rows" \in DOMAIN v /\ "page" \in DOMAIN v /\ "size" \in DOMAIN v
    BY <1>3
  <2>. HIDE DEF v
  <2>5. CASE net[n].st = "refused" /\ Ends(n, v)
    <3>1. Kept(v) /\ ~Done(n)
      BY <1>2, <1>3, <2>4, <2>5, AirKept DEF Done
    <3>. QED
      BY <2>2, <2>5, <3>1, KeptEnds
  <2>6. CASE net[n].st = "ok" /\ Ends(n, w)
    <3>1. net[n].req = "list" /\ rows \in Seq(Good(n))
      BY <1>1, <1>4, <2>2, <2>6, AirLoaded, SplicingView
    <3>. HIDE DEF rows
    <3>2. DOMAIN w = DOMAIN v /\ w.at = v.at /\ w.page = v.page /\ w.size = v.size /\ w.rows = rows
      BY <2>4, FormatFields
    <3>. HIDE DEF w
    <3>. QED
      BY <1>1, <2>2, <2>4, <2>6, <3>1, <3>2, SplicingEnds
  <2>. QED
    BY <2>2, <2>3, <2>5, <2>6, RejectedKeep
<1>9. CASE airFetchGroupsReturns
  <2>1. PICK n \in Back("air.Channels", "airFetchGroups") : Ends(n, view)
    BY <1>9 DEF airFetchGroupsReturns
  <2>2. n \in DOMAIN net /\ ~Done(n)
    BY <1>4, BackFacts DEF ForOK, Done
  <2>. QED
    BY <2>1, <2>2, SameEnds
<1>10. CASE airRefreshChannels
  <2>. DEFINE v == [view EXCEPT !.loading = TRUE]
              more == [count |-> view.size, blank |-> FALSE]
  <2>1. SavedThen(v, "airLoadChannels", "list", With(ChannelsRequest(view.page - 1, view.size), more), view.rows)
    BY <1>10 DEF airRefreshChannels
  <2>2. Kept(v)
    BY <1>2, AirFlags
  <2>3. view.page - 1 \in Nat /\ view.size \in Nat
    BY <1>3
  <2>. HIDE DEF v, more
  <2>. QED
    BY <1>6, <2>1, <2>2, <2>3
<1>11. CASE airManageChannel
  <2>1. PICK i \in AirShown : \E b \in airChannelButtons(i) : SendsWith(view, b[1], b[2], b[3], view.rows)
    BY <1>11 DEF airManageChannel
  <2>2. PICK b \in airChannelButtons(i) : SendsWith(view, b[1], b[2], b[3], view.rows)
    BY <2>1
  <2>. DEFINE q == [id |-> view.rows[i].id, idx |-> i]
              st == Opposite(view.rows[i])
              more == [st |-> st]
  <2>3. \/ b = <<"airManageChannel", "delete", q>> \/ b = <<"airManageChannel", "touch", q>>
        \/ b = <<"airManageChannel", "put", With(q, more)>>
        \/ b = <<"airTestChannel", "tell", q>> \/ b = <<"airUpdateChannelBalance", "tell", q>>
    BY <2>2 DEF airChannelButtons
  <2>4. /\ q.idx = i /\ q.id = view.rows[i].id /\ DOMAIN q = {"id", "idx"}
        /\ more.st = st /\ DOMAIN more = {"st"}
    OBVIOUS
  <2>5. st \in Statuses
    BY AirOpposite
  <2>. HIDE DEF q, st, more
  <2>6. With(q, more).idx = i /\ With(q, more).id = view.rows[i].id /\ With(q, more).st = st
    <3>1. "idx" \in DOMAIN q /\ "id" \in DOMAIN q /\ "st" \in DOMAIN more /\ "st" \notin DOMAIN q
      BY <2>4
    <3>. QED
      BY <2>4, <3>1, WithOld, WithNew
  <2>7. \/ b[1] \in Telling /\ b[2] = "tell"
        \/ /\ b[1] \in Indexed /\ b[2] \in Changing /\ b[3].idx = i /\ b[3].id = view.rows[i].id
           /\ b[2] = "put" => b[3].st \in Statuses
    BY <1>4, <2>3, <2>4, <2>5, <2>6 DEF Changing
  <2>. QED
    BY <1>2, <1>3, <2>2, <2>7, KeptIsListed, AirManages, TellSends
<1>12. CASE airManageChannelReturns
  <2>1. PICK n \in Back("air.Channels", "airManageChannel") :
           LET was == net[n].was
               o == was[net[n].arg.idx]
           IN
           \/ Rejected(n)
           \/ /\ net[n].st # "failed" /\ net[n].req = "delete"
              /\ Ends(n, [view EXCEPT !.rows = RemoveRecord(was, net[n].arg.id)])
           \/ net[n].st = "refused" /\ net[n].req # "delete" /\ Ends(n, view)
           \/ /\ net[n].st = "ok" /\ net[n].req # "delete"
              /\ LET st == net[n].data[1].st IN
                 EndsMarking(n, [view EXCEPT !.rows = Marked(was, o, st, FALSE)], o, st, FALSE)
    BY <1>12 DEF airManageChannelReturns
  <2>2. n \in DOMAIN net /\ net[n].fn \in Indexed
    BY <1>4, BackFacts
  <2>3. net[n].req \in Changing /\ net[n].req # "tell" /\ UsesWas(n)
    BY <1>2, <1>4, <2>2, BackFacts DEF ForOK, Changing, UsesWas
  <2>. DEFINE o == net[n].was[net[n].arg.idx]
              st == net[n].data[1].st
              removed == RemoveRecord(net[n].was, net[n].arg.id)
              marked == Marked(net[n].was, o, st, FALSE)
  <2>4. \/ Rejected(n)
        \/ Ends(n, [view EXCEPT !.rows = removed])
        \/ net[n].st = "refused" /\ Ends(n, view)
        \/ /\ net[n].st = "ok" /\ net[n].req # "delete"
           /\ EndsMarking(n, [view EXCEPT !.rows = marked], o, st, FALSE)
    BY <2>1
  <2>5. removed \in Seq(Good(n))
    BY <2>2, <2>3, RecordRemoved
  <2>6. CASE Ends(n, [view EXCEPT !.rows = removed])
    <3>. HIDE DEF removed
    <3>. DEFINE v == [view EXCEPT !.rows = removed]
    <3>1. DOMAIN v = DOMAIN view /\ v.at = view.at /\ v.page = view.page /\ v.size = view.size /\ v.rows = removed
      BY <1>3
    <3>2. Ends(n, v)
      BY <2>6
    <3>. HIDE DEF v
    <3>. QED
      BY <1>1, <1>3, <2>2, <2>3, <2>5, <3>1, <3>2, SplicingEnds
  <2>7. CASE net[n].st = "refused" /\ Ends(n, view)
    BY <2>2, <2>7, SameEnds DEF Done
  <2>8. CASE /\ net[n].st = "ok" /\ net[n].req # "delete"
             /\ EndsMarking(n, [view EXCEPT !.rows = marked], o, st, FALSE)
    <3>. DEFINE v == [view EXCEPT !.rows = marked]
    <3>1. Marks(n, st, FALSE)
      BY <2>2, <2>8, AnswerMarks
    <3>. HIDE DEF st, marked
    <3>2. DOMAIN v = DOMAIN view /\ v.at = view.at /\ v.page = view.page /\ v.size = view.size /\ v.rows = marked
      BY <1>3
    <3>3. EndsMarking(n, v, o, st, FALSE)
      BY <2>8
    <3>. HIDE DEF v
    <3>4. v.rows = Marked(net[n].was, net[n].was[net[n].arg.idx], st, FALSE)
      BY <3>2 DEF marked
    <3>. QED
      BY <1>2, <1>3, <2>2, <2>3, <2>8, <3>1, <3>2, <3>3, <3>4, MarkingEnds
  <2>. QED
    BY <2>2, <2>4, <2>6, <2>7, <2>8, RejectedKeep
<1>13. CASE airTestChannelReturns \/ airUpdateChannelBalanceReturns
  <2>1. PICK n \in Back("air.Channels", "airTestChannel") \cup Back("air.Channels", "airUpdateChannelBalance") :
           Rejected(n) \/ (net[n].st # "failed" /\ Ends(n, view))
    BY <1>13 DEF airTestChannelReturns, airUpdateChannelBalanceReturns
  <2>2. n \in DOMAIN net /\ ~Done(n)
    BY <1>4, BackFacts DEF ForOK, Done
  <2>. QED
    BY <2>1, <2>2, RejectedKeep, SameEnds
<1>14. CASE airTestChannels
  <2>1. SendsWith(view, "airTestChannel", "tell", <<>>, <<>>)
    BY <1>14 DEF airTestChannels, Sends
  <2>. QED
    BY <1>2, <1>4, <1>5, <2>1, KeptIsListed, TellSends
<1>15. CASE airDeleteAllDisabledChannels
  <2>. DEFINE arg == [p |-> view.page - 1, size |-> view.size]
  <2>1. SendsWith(view, "airDeleteAllDisabledChannels", "purge", arg, view.rows)
    BY <1>15 DEF airDeleteAllDisabledChannels
  <2>2. arg.p = view.page - 1 /\ arg.size = view.size
    OBVIOUS
  <2>. HIDE DEF arg
  <2>3. PurgeOK(view.at, arg)
    BY <1>2, <1>3, <2>2 DEF PurgeOK
  <2>4. Proper(view)
    BY ProperView
  <2>5. NewOK(view, Request("airDeleteAllDisabledChannels", "purge", arg, view.rows))
    BY <1>2, <1>3, <1>4, <2>3, <2>4, PurgeNew
  <2>. QED
    BY <2>1, <2>4, <2>5, SendsKeep
<1>16. CASE airDeleteAllDisabledChannelsReturns
  <2>. DEFINE v == [view EXCEPT !.loading = TRUE]
  <2>1. PICK n \in Back("air.Channels", "airDeleteAllDisabledChannels") :
           LET q == net[n].arg IN
           \/ Rejected(n)
           \/ net[n].st = "refused" /\ Ends(n, view)
           \/ /\ net[n].st = "ok"
              /\ GoesOn(n, v, "airLoadChannels", "list",
                        With(ChannelsRequest(q.p, q.size), [count |-> q.size, blank |-> FALSE]), net[n].was)
    BY <1>16 DEF airDeleteAllDisabledChannelsReturns
  <2>2. n \in DOMAIN net /\ net[n].req = "purge" /\ PurgeOK(view.at, net[n].arg)
    BY <1>1, <1>4, BackFacts DEF ForOK
  <2>3. net[n].arg.p \in Nat /\ net[n].arg.size \in Nat /\ ~Done(n)
    BY <1>2, <2>2 DEF PurgeOK, Done
  <2>4. Kept(v)
    BY <1>2, AirFlags
  <2>. HIDE DEF v
  <2>. DEFINE arg == With(ChannelsRequest(net[n].arg.p, net[n].arg.size), [count |-> net[n].arg.size, blank |-> FALSE])
  <2>5. arg.p = net[n].arg.p /\ arg.size = net[n].arg.size
    BY CountedFields
  <2>6. CASE GoesOn(n, v, "airLoadChannels", "list", arg, net[n].was)
    <3>. HIDE DEF arg
    <3>1. ListOK(view.at, arg, server.was)
      BY <1>1, <2>3, <2>5, SplicingView
    <3>2. Proper(v) /\ v.rows = view.rows /\ view.rows \in Seq(Good(n))
      BY <2>2, <2>3, <2>4, KeptProper, ViewRows
    <3>3. net[n].was \in Seq(Past(server.was))
      BY <2>2, RequestFacts
    <3>4. ~Quiet
      BY <2>2 DEF IInv, QuietOK
    <3>5. NewOK(v, Request("airLoadChannels", "list", arg, net[n].was))
      BY <1>2, <1>4, <3>1, <3>2, <3>3, <3>4, LoadNew
    <3>. QED
      BY <2>2, <2>6, <3>2, <3>5, GoesOnKeep
  <2>. QED
    BY <2>1, <2>2, <2>3, <2>6, RejectedKeep, SameEnds
<1>17. CASE airSearchChannels
  <2>. DEFINE v == [view EXCEPT !.loading = TRUE]
              more == [count |-> view.size, blank |-> TRUE]
  <2>1. \/ SendsWith(v, "airLoadChannels", "list", With(ChannelsRequest(0, view.size), more), view.rows)
        \/ Sends([view EXCEPT !.searching = TRUE], "airSearchChannels", "search", <<>>)
    BY <1>17 DEF airSearchChannels
  <2>2. Kept(v) /\ Kept([view EXCEPT !.searching = TRUE])
    BY <1>2, AirFlags
  <2>3. 0 \in Nat /\ view.size \in Nat
    BY <1>3
  <2>. HIDE DEF v, more
  <2>. QED
    BY <1>4, <1>6, <2>1, <2>2, <2>3, SearchSends
<1>18. CASE airSearchChannelsReturns
  <2>1. PICK n \in Back("air.Channels", "airSearchChannels") :
           LET v == [view EXCEPT !.searching = FALSE] IN
           \/ Rejected(n)
           \/ net[n].st = "refused" /\ Ends(n, v)
           \/ net[n].st = "ok" /\ Ends(n, [v EXCEPT !.rows = Rows(n), !.page = 1])
    BY <1>18 DEF airSearchChannelsReturns
  <2>2. n \in DOMAIN net /\ net[n].req = "search"
    BY <1>4, BackFacts DEF ForOK
  <2>. DEFINE v == [view EXCEPT !.searching = FALSE]
              w == [v EXCEPT !.rows = Rows(n), !.page = 1]
  <2>3. Rejected(n) \/ (net[n].st = "refused" /\ Ends(n, v)) \/ (net[n].st = "ok" /\ Ends(n, w))
    BY <2>1
  <2>4. Kept(v) /\ (net[n].st # "ok" => ~Done(n))
    BY <1>2, AirFlags DEF Done
  <2>5. DOMAIN v = DOMAIN view /\ v.at = view.at /\ v.size = view.size
    BY <1>3
  <2>. HIDE DEF v
  <2>6. CASE net[n].st = "ok" /\ Ends(n, w)
    <3>1. DOMAIN w = DOMAIN view /\ w.at = view.at /\ w.page = 1 /\ w.size = view.size /\ w.rows = Rows(n)
      BY <1>3, <2>5
    <3>. HIDE DEF w
    <3>2. Rows(n) \in Seq(Good(n)) /\ 1 \in Nat \ {0}
      BY <2>2, <2>6, FoundShown
    <3>. QED
      BY <1>1, <2>2, <2>6, <3>1, <3>2, SplicingEnds
  <2>. QED
    BY <2>2, <2>3, <2>4, <2>6, RejectedKeep, KeptEnds
<1>19. CASE airHandlePageChangeChannels
  <2>1. PICK p \in AirPages :
           LET v == [view EXCEPT !.page = p] IN IF Beyond(p) THEN airLoadChannels(v, p - 1) ELSE Shows(v)
    BY <1>19 DEF airHandlePageChangeChannels
  <2>2. p \in Nat \ {0} /\ p - 1 \in Nat
    BY <1>2, AirView
  <2>. DEFINE v == [view EXCEPT !.page = p]
  <2>3. airLoadChannels(v, p - 1) \/ Shows(v)
    BY <2>1
  <2>4. /\ Kept(v) /\ DOMAIN v = DOMAIN view /\ v.at = view.at /\ v.rows = view.rows /\ v.page = p
        /\ v.size = view.size
    BY <1>2, <2>2, AirTurned
  <2>. HIDE DEF v
  <2>. QED
    BY <1>3, <1>7, <2>2, <2>3, <2>4, KeptShows
<1>20. CASE airHandlePageSizeChangeChannels
  <2>1. PICK size \in {PageSize, 2 * PageSize} : airLoadChannels([view EXCEPT !.size = size, !.page = 1], 0)
    BY <1>20 DEF airHandlePageSizeChangeChannels
  <2>. DEFINE v == [view EXCEPT !.size = size, !.page = 1]
  <2>2. DOMAIN v = DOMAIN view /\ v.at = view.at /\ v.rows = view.rows /\ v.page = 1 /\ v.size = size
    BY <1>3
  <2>3. size \in Nat \ {0} /\ 1 \in Nat \ {0} /\ 0 \in Nat
    BY IdsAreNumbers
  <2>4. airLoadChannels(v, 0)
    BY <2>1
  <2>. HIDE DEF v
  <2>. QED
    BY <1>7, <2>2, <2>3, <2>4
<1>. QED
  BY <1>8, <1>9, <1>10, <1>11, <1>12, <1>13, <1>14, <1>15, <1>16, <1>17, <1>18, <1>19, <1>20 DEF airChannelsNext

LEMMA airLogsKeep == ASSUME IInv, Moved, airLogsNext PROVE IInv'
<1>1. view.at = "air.Logs" /\ view.at \in {"air.Channels", "air.Logs"}
  BY DEF airLogsNext, airLoadLogsReturns, airHandlePageChangeLogs, airHandlePageSizeChangeLogs, airRefreshLogs,
     airSetLogType, airHandleInputChangeLogs, airHandleEyeClick, airGetLogStatReturns, airGetLogSelfStatReturns,
     airShowUserInfo, airShowUserInfoReturns, At, Back
<1>2. view.at \in Airs /\ view.at \notin Pushing /\ view.at \notin Functional /\ view.at \notin Berries
  BY <1>1, SplicingView
<1>3. /\ "at" \in DOMAIN view /\ "rows" \in DOMAIN view /\ "page" \in DOMAIN view /\ "size" \in DOMAIN view
      /\ view.page \in Nat \ {0} /\ view.size \in Nat \ {0} /\ view.rows \in Seq(Past(server.was))
  BY <1>1, SplicingView
<1>4. /\ "airLoadLogs" \in Lists /\ "airGetLogStat" \in Telling /\ "airGetLogSelfStat" \in Telling
      /\ "airShowUserInfo" \in Telling
  BY DEF Lists, Telling
<1>5. <<>> \in Seq(Past(server.was))
  BY EmptySeq
<1>6. ASSUME NEW v, DOMAIN v = DOMAIN view, v.at = view.at, v.rows = view.rows, v.page \in Nat \ {0},
             v.size \in Nat \ {0}, NEW p \in Nat, NEW type, airLoadLogs(v, p, type)
      PROVE  IInv'
  <2>. DEFINE w == [v EXCEPT !.loading = TRUE]
              r == [AirPage(p, "", type) EXCEPT !.some = view.some]
              s == [size |-> v.size]
              arg == With(r, s)
  <2>1. SendsWith(w, "airLoadLogs", "list", arg, view.rows)
    BY <1>6 DEF airLoadLogs
  <2>2. Kept(w) /\ v.size \in Nat
    BY <1>2, <1>6, AirSpins
  <2>3. arg.p = p /\ arg.size = v.size
    <3>1. r.p = p /\ DOMAIN r = {"p", "order", "type", "some"}
      BY DEF AirPage
    <3>2. s.size = v.size /\ DOMAIN s = {"size"}
      OBVIOUS
    <3>. HIDE DEF r, s
    <3>3. "p" \in DOMAIN r /\ "size" \notin DOMAIN r /\ "size" \in DOMAIN s
      BY <3>1, <3>2
    <3>. QED
      BY <3>1, <3>2, <3>3, SizedFields
  <2>. HIDE DEF w, arg
  <2>. QED
    BY <1>1, <1>4, <2>1, <2>2, <2>3, SplicingLoads
<1>7. CASE airLoadLogsReturns
  <2>1. PICK n \in Back("air.Logs", "airLoadLogs") :
           LET q == net[n].arg
               rows == IF q.p = 0 THEN Rows(n) ELSE Spliced(net[n].was, q.p * q.size, Rows(n))
               v == [view EXCEPT !.loading = FALSE]
           IN
           \/ Rejected(n)
           \/ net[n].st = "refused" /\ Ends(n, v)
           \/ net[n].st = "ok" /\ Ends(n, [v EXCEPT !.rows = rows, !.count = Len(rows) + PageSize])
    BY <1>7 DEF airLoadLogsReturns
  <2>. DEFINE q == net[n].arg
              rows == IF q.p = 0 THEN Rows(n) ELSE Spliced(net[n].was, q.p * q.size, Rows(n))
              v == [view EXCEPT !.loading = FALSE]
              count == Len(rows) + PageSize
              w == [v EXCEPT !.rows = rows, !.count = count]
  <2>2. n \in DOMAIN net /\ n \in Back(view.at, "airLoadLogs")
    BY <1>1, BackFacts
  <2>3. Rejected(n) \/ (net[n].st = "refused" /\ Ends(n, v)) \/ (net[n].st = "ok" /\ Ends(n, w))
    BY <2>1
  <2>4. Kept(v)
    BY <1>2, AirFlags
  <2>5. DOMAIN v = DOMAIN view /\ v.at = view.at /\ v.page = view.page /\ v.size = view.size
    BY <1>3
  <2>. HIDE DEF v
  <2>6. CASE net[n].st = "refused" /\ Ends(n, v)
    BY <2>2, <2>4, <2>6, KeptEnds DEF Done
  <2>7. CASE net[n].st = "ok" /\ Ends(n, w)
    <3>1. net[n].req = "list" /\ rows \in Seq(Good(n))
      BY <1>1, <1>4, <2>2, <2>7, AirLoaded, SplicingView
    <3>. HIDE DEF rows, count
    <3>2. DOMAIN w = DOMAIN view /\ w.at = view.at /\ w.page = view.page /\ w.size = view.size /\ w.rows = rows
      BY <1>3, <2>5
    <3>. HIDE DEF w
    <3>. QED
      BY <1>1, <1>3, <2>2, <2>7, <3>1, <3>2, SplicingEnds
  <2>. QED
    BY <2>2, <2>3, <2>6, <2>7, RejectedKeep
<1>8. CASE airHandlePageChangeLogs
  <2>1. PICK p \in AirPages :
           LET v == [view EXCEPT !.page = p] IN IF Beyond(p) THEN airLoadLogs(v, p - 1, 0) ELSE Shows(v)
    BY <1>8 DEF airHandlePageChangeLogs
  <2>2. p \in Nat \ {0} /\ p - 1 \in Nat
    BY <1>2, AirView
  <2>. DEFINE v == [view EXCEPT !.page = p]
  <2>3. airLoadLogs(v, p - 1, 0) \/ Shows(v)
    BY <2>1
  <2>4. /\ Kept(v) /\ DOMAIN v = DOMAIN view /\ v.at = view.at /\ v.rows = view.rows /\ v.page = p
        /\ v.size = view.size
    BY <1>2, <2>2, AirTurned
  <2>. HIDE DEF v
  <2>. QED
    BY <1>3, <1>6, <2>2, <2>3, <2>4, KeptShows
<1>9. CASE airHandlePageSizeChangeLogs
  <2>1. PICK size \in {PageSize, 2 * PageSize} : airLoadLogs([view EXCEPT !.size = size, !.page = 1], 0, 0)
    BY <1>9 DEF airHandlePageSizeChangeLogs
  <2>. DEFINE v == [view EXCEPT !.size = size, !.page = 1]
  <2>2. DOMAIN v = DOMAIN view /\ v.at = view.at /\ v.rows = view.rows /\ v.page = 1 /\ v.size = size
    BY <1>3
  <2>3. size \in Nat \ {0} /\ 1 \in Nat \ {0} /\ 0 \in Nat
    BY IdsAreNumbers
  <2>4. airLoadLogs(v, 0, 0)
    BY <2>1
  <2>. HIDE DEF v
  <2>. QED
    BY <1>6, <2>2, <2>3, <2>4
<1>10. CASE airRefreshLogs
  <2>. DEFINE v == [view EXCEPT !.page = 1]
  <2>1. airLoadLogs(v, 0, 0)
    BY <1>10 DEF airRefreshLogs
  <2>2. 1 \in Nat \ {0} /\ 0 \in Nat
    OBVIOUS
  <2>3. DOMAIN v = DOMAIN view /\ v.at = view.at /\ v.rows = view.rows /\ v.page = 1 /\ v.size = view.size
    BY <1>3
  <2>. HIDE DEF v
  <2>. QED
    BY <1>3, <1>6, <2>1, <2>2, <2>3
<1>11. CASE airSetLogType
  <2>1. PICK type \in {0, Enabled, Disabled} : airLoadLogs([view EXCEPT !.logType = type, !.page = 1], 0, type)
    BY <1>11 DEF airSetLogType
  <2>. DEFINE v == [view EXCEPT !.logType = type, !.page = 1]
  <2>2. 1 \in Nat \ {0} /\ 0 \in Nat
    OBVIOUS
  <2>3. DOMAIN v = DOMAIN view /\ v.at = view.at /\ v.rows = view.rows /\ v.page = 1 /\ v.size = view.size
    BY <1>3
  <2>4. airLoadLogs(v, 0, type)
    BY <2>1
  <2>. HIDE DEF v
  <2>. QED
    BY <1>3, <1>6, <2>2, <2>3, <2>4
<1>12. CASE airHandleInputChangeLogs
  <2>. DEFINE some == ~view.some
              v == [view EXCEPT !.some = some]
  <2>1. Shows(v)
    BY <1>12 DEF airHandleInputChangeLogs
  <2>. HIDE DEF some
  <2>2. DOMAIN v = DOMAIN view /\ v.at = view.at /\ v.rows = view.rows /\ v.page = view.page /\ v.size = view.size
    BY <1>3
  <2>. HIDE DEF v
  <2>3. Kept(v)
    BY <1>2, <1>3, <2>2, AirKept
  <2>. QED
    BY <2>1, <2>3, KeptShows
<1>13. CASE airHandleEyeClick
  <2>. DEFINE v == [view EXCEPT !.searching = TRUE]
              fn == IF view.admin THEN "airGetLogStat" ELSE "airGetLogSelfStat"
  <2>1. SendsWith(v, fn, "tell", <<>>, <<>>)
    BY <1>13 DEF airHandleEyeClick, Sends
  <2>2. fn \in Telling
    BY <1>4
  <2>3. Kept(v)
    BY <1>2, AirFlags
  <2>. HIDE DEF v, fn
  <2>. QED
    BY <1>2, <1>5, <2>1, <2>2, <2>3, TellSends
<1>14. CASE airGetLogStatReturns \/ airGetLogSelfStatReturns
  <2>. DEFINE v == [view EXCEPT !.showStat = TRUE, !.searching = FALSE]
  <2>1. PICK n \in Back("air.Logs", "airGetLogStat") \cup Back("air.Logs", "airGetLogSelfStat") :
           Rejected(n) \/ Ends(n, v)
    BY <1>14 DEF airGetLogStatReturns, airGetLogSelfStatReturns
  <2>2. n \in DOMAIN net /\ ~Done(n)
    BY <1>4, BackFacts DEF ForOK, Done
  <2>3. DOMAIN v = DOMAIN view /\ v.at = view.at /\ v.rows = view.rows /\ v.page = view.page /\ v.size = view.size
    BY <1>3
  <2>. HIDE DEF v
  <2>4. Kept(v)
    BY <1>2, <1>3, <2>3, AirKept
  <2>. QED
    BY <2>1, <2>2, <2>4, RejectedKeep, KeptEnds
<1>15. CASE airShowUserInfo
  <2>1. SendsWith(view, "airShowUserInfo", "tell", <<>>, <<>>)
    BY <1>15 DEF airShowUserInfo, Sends
  <2>. QED
    BY <1>2, <1>4, <1>5, <2>1, KeptIsListed, TellSends
<1>16. CASE airShowUserInfoReturns
  <2>1. PICK n \in Back("air.Logs", "airShowUserInfo") : Rejected(n) \/ Ends(n, view)
    BY <1>16 DEF airShowUserInfoReturns
  <2>2. n \in DOMAIN net /\ ~Done(n)
    BY <1>4, BackFacts DEF ForOK, Done
  <2>. QED
    BY <2>1, <2>2, RejectedKeep, SameEnds
<1>. QED
  BY <1>7, <1>8, <1>9, <1>10, <1>11, <1>12, <1>13, <1>14, <1>15, <1>16 DEF airLogsNext

(***************************************************************************)
(* The tables of berry, whose rows keep a switch of their own.             *)
(***************************************************************************)
LEMMA BerryView ==
    ASSUME IInv, view.at \in Berries
    PROVE  /\ Berry /\ ~Quiet /\ view.at \notin Defaults /\ view.at \notin Airs /\ view.at \notin Functional
           /\ view.at \notin Pushing /\ view.at \notin Splicing /\ view.at # "default.Users"
           /\ "at" \in DOMAIN view /\ "rows" \in DOMAIN view /\ "page" \in DOMAIN view /\ "switch" \in DOMAIN view
           /\ view.page \in Nat /\ view.rows \in Seq(Past(server.was)) /\ SwitchOK(view.switch, server.was)
           /\ Still = Past(server.was) /\ \A n : Good(n) = Past(server.was)
<1>1. /\ Berry /\ view.at \notin Defaults /\ view.at \notin Airs /\ view.at \notin Functional
      /\ view.at \notin Pushing /\ view.at \notin Splicing
  BY Kinds
<1>2. ~Quiet
  BY <1>1 DEF Quiet
<1>3. view.at # "default.Users"
  BY <1>1 DEF Defaults
<1>4. Still = Past(server.was) /\ \A n : Good(n) = Past(server.was)
  BY <1>2 DEF Still, Good
<1>. QED
  BY <1>1, <1>2, <1>3, <1>4, ViewFacts

\* What a page of berry may become.
Stands(v) ==
    /\ DOMAIN v = DOMAIN view /\ v.at = view.at /\ v.page \in Nat
    /\ v.rows \in Seq(Past(server.was)) /\ SwitchOK(v.switch, server.was)

LEMMA StandsListed == ASSUME IInv, view.at \in Berries, NEW v, Stands(v) PROVE Listing(v)
<1>1. v.at \in Berries /\ v.at \notin Airs /\ v.at \notin Pushing /\ v.at # "default.Users"
  BY BerryView DEF Stands
<1>. QED
  BY <1>1 DEF Stands, Listing

LEMMA StandsView == ASSUME IInv, view.at \in Berries PROVE Stands(view)
  BY BerryView DEF Stands

\* A switch that can be told: a status the row had.
SwitchSays(sw) == sw.id \in Ids => sw.st \in server.was[sw.id]

\* A row that is on the screen is there at a first place.
LEMMA FirstPlace ==
    ASSUME NEW rows \in Seq(Past(server.was)), NEW S \in SUBSET DOMAIN rows, NEW id \in {rows[i].id : i \in S}
    PROVE  \E i \in S : rows[i].id = id /\ \A j \in S : rows[j].id = id => i <= j
<1>. DEFINE P == {i \in S : rows[i].id = id}
<1>1. Len(rows) \in Nat /\ DOMAIN rows = 1 .. Len(rows) /\ \A i \in DOMAIN rows : rows[i] \in Past(server.was)
  BY ListElim
<1>2. IsFiniteSet(P)
  <2>1. 1 \in Int /\ Len(rows) \in Int
    BY <1>1
  <2>2. IsFiniteSet(1 .. Len(rows))
    BY <2>1, FS_Interval
  <2>3. P \subseteq 1 .. Len(rows)
    BY <1>1
  <2>. QED
    BY <2>2, <2>3, FS_Subset
<1>3. P \subseteq Int /\ P # {}
  BY <1>1
<1>4. \E x \in P : \A y \in P : x <= y
  <2>. HIDE DEF P
  <2>. QED
    BY <1>2, <1>3, Least
<1>. QED
  BY <1>4

LEMMA MountedStands == ASSUME IInv, view.at \in Berries, NEW v, Stands(v) PROVE Stands(Mounted(v))
<1>. DEFINE S == OnScreen(v)
            ids == {v.rows[i].id : i \in S}
            Lowest(id) == CHOOSE i \in S : v.rows[i].id = id /\ \A j \in S : v.rows[j].id = id => i <= j
            switch == [id \in ids |-> IF id \in DOMAIN v.switch THEN v.switch[id]
                                      ELSE [st |-> v.rows[Lowest(id)].st, inst |-> NewInstance(id)]]
            w == [v EXCEPT !.switch = switch]
<1>1. /\ "at" \in DOMAIN v /\ "rows" \in DOMAIN v /\ "page" \in DOMAIN v /\ "switch" \in DOMAIN v
      /\ v.page \in Nat /\ v.rows \in Seq(Past(server.was)) /\ SwitchOK(v.switch, server.was)
  BY BerryView DEF Stands
<1>2. Mounted(v) = w
  BY <1>1 DEF Mounted
<1>3. S \subseteq DOMAIN v.rows
  <2>1. v.page + 1 \in Nat \ {0} /\ PageSize \in Nat
    BY <1>1, IdsAreNumbers
  <2>. QED
    BY <1>1, <2>1, ShownRows DEF OnScreen
<1>. HIDE DEF S
<1>4. ASSUME NEW id \in ids
      PROVE  id \in Ids /\ DOMAIN switch[id] = {"st", "inst"} /\ switch[id].st \in server.was[id]
  <2>. DEFINE row == v.rows[Lowest(id)]
  <2>1. \E i \in S : v.rows[i].id = id /\ \A j \in S : v.rows[j].id = id => i <= j
    BY <1>1, <1>3, FirstPlace
  <2>a. Lowest(id) \in S /\ v.rows[Lowest(id)].id = id
    BY <2>1
  <2>. HIDE DEF Lowest
  <2>b. row.id = id /\ row \in Past(server.was)
    BY <1>1, <1>3, <2>a, ListElim
  <2>c. id \in Ids
    BY <2>b, GoodIsPast
  <2>2. row.st \in server.was[id]
    BY <2>b DEF Past
  <2>3. CASE id \in DOMAIN v.switch
    BY <1>1, <2>c, <2>3 DEF SwitchOK
  <2>4. CASE id \notin DOMAIN v.switch
    <3>1. switch[id] = [st |-> row.st, inst |-> NewInstance(id)]
      BY <2>4
    <3>. QED
      BY <2>2, <2>c, <3>1
  <2>. QED
    BY <2>3, <2>4
<1>5. DOMAIN switch = ids
  OBVIOUS
<1>. HIDE DEF switch, ids
<1>6. SwitchOK(switch, server.was)
  BY <1>4, <1>5 DEF SwitchOK
<1>7. /\ DOMAIN w = DOMAIN v /\ w.at = v.at /\ w.page = v.page /\ w.rows = v.rows /\ w.switch = switch
  BY <1>1
<1>. HIDE DEF w
<1>. QED
  BY <1>2, <1>6, <1>7 DEF Stands

LEMMA SwitchedStands ==
    ASSUME IInv, view.at \in Berries, NEW v, Stands(v), NEW sw, SwitchSays(sw)
    PROVE  Stands(Switched(v, sw)) /\ Switched(v, sw).rows = v.rows
<1>1. CASE Switched(v, sw) = v
  BY <1>1
<1>2. CASE sw.id \in DOMAIN v.switch /\ Switched(v, sw) = [v EXCEPT !.switch[sw.id].st = sw.st]
  <2>. DEFINE id == sw.id
              st == sw.st
              one == [v.switch[id] EXCEPT !.st = st]
              switch == [v.switch EXCEPT ![id] = one]
              w == [v EXCEPT !.switch = switch]
  <2>1. /\ "at" \in DOMAIN v /\ "rows" \in DOMAIN v /\ "page" \in DOMAIN v /\ "switch" \in DOMAIN v
        /\ SwitchOK(v.switch, server.was)
    BY BerryView DEF Stands
  <2>2. Switched(v, sw) = w
    BY <1>2
  <2>3. id \in Ids /\ st \in server.was[id] /\ DOMAIN v.switch[id] = {"st", "inst"}
    BY <1>2, <2>1 DEF SwitchOK, SwitchSays
  <2>4. id \in DOMAIN v.switch
    BY <1>2
  <2>. HIDE DEF id, st
  <2>5. DOMAIN one = {"st", "inst"} /\ one.st = st
    BY <2>3
  <2>. HIDE DEF one
  <2>6. DOMAIN switch = DOMAIN v.switch /\ switch[id] = one
        /\ \A x \in DOMAIN v.switch : x # id => switch[x] = v.switch[x]
    BY <2>4
  <2>. HIDE DEF switch
  <2>7. SwitchOK(switch, server.was)
    BY <2>1, <2>3, <2>5, <2>6 DEF SwitchOK
  <2>8. DOMAIN w = DOMAIN v /\ w.at = v.at /\ w.page = v.page /\ w.rows = v.rows /\ w.switch = switch
    BY <2>1
  <2>. HIDE DEF w
  <2>. QED
    BY <2>2, <2>7, <2>8 DEF Stands
<1>. QED
  BY <1>1, <1>2 DEF Switched

\* A flag of the page is set, nothing else.
LEMMA BerryFlags ==
    ASSUME IInv, view.at \in Berries, NEW b
    PROVE  Kept([view EXCEPT !.searching = b]) /\ Kept([view EXCEPT !.keyword = b])
<1>. DEFINE v == [view EXCEPT !.searching = b]
            w == [view EXCEPT !.keyword = b]
<1>1. /\ DOMAIN v = DOMAIN view /\ v.at = view.at /\ v.rows = view.rows /\ v.page = view.page
      /\ v.switch = view.switch
  BY BerryView
<1>2. /\ DOMAIN w = DOMAIN view /\ w.at = view.at /\ w.rows = view.rows /\ w.page = view.page
      /\ w.switch = view.switch
  BY BerryView
<1>. HIDE DEF v, w
<1>3. view.page \in Nat /\ view.at \notin Airs /\ view.at \notin Pushing
  BY BerryView
<1>4. Kept(v) /\ Kept(w)
  BY <1>1, <1>2, <1>3 DEF Kept
<1>. QED
  BY <1>4 DEF v, w

(***************************************************************************)
(* The handlers the tables of berry have in common.                        *)
(***************************************************************************)
LEMMA LoadFields ==
    ASSUME NEW p, NEW goto, NEW clear, NEW sw
    PROVE  /\ LoadOf(p, goto, clear, sw).p = p /\ LoadOf(p, goto, clear, sw).goto = goto
           /\ LoadOf(p, goto, clear, sw).sw = sw
           /\ DOMAIN LoadOf(p, goto, clear, sw) = {"p", "order", "type", "some", "goto", "clear", "sw"}
<1>. DEFINE r == BerryPage(p)
            s == [goto |-> goto, clear |-> clear, sw |-> sw]
<1>1. r.p = p /\ DOMAIN r = {"p", "order", "type", "some"}
  BY DEF BerryPage
<1>2. s.goto = goto /\ s.sw = sw /\ DOMAIN s = {"goto", "clear", "sw"}
  OBVIOUS
<1>3. LoadOf(p, goto, clear, sw) = With(r, s)
  BY DEF LoadOf
<1>. HIDE DEF r, s
<1>4. "p" \in DOMAIN r /\ "goto" \in DOMAIN s /\ "goto" \notin DOMAIN r /\ "sw" \in DOMAIN s /\ "sw" \notin DOMAIN r
  BY <1>1, <1>2
<1>5. With(r, s).p = p /\ With(r, s).goto = goto /\ With(r, s).sw = sw
  BY <1>1, <1>2, <1>4, WithOld, WithNew
<1>6. DOMAIN With(r, s) = {"p", "order", "type", "some"} \cup {"goto", "clear", "sw"}
  BY <1>1, <1>2, WithBoth
<1>. QED
  BY <1>3, <1>5, <1>6

LEMMA BerryListOK ==
    ASSUME IInv, view.at \in Berries, NEW arg, arg.p \in Nat, arg.goto \in Nat \cup {Stay}, SwitchSays(arg.sw)
    PROVE  ListOK(view.at, arg, server.was)
  BY BerryView DEF ListOK, SwitchSays

LEMMA NoSwitchSays == SwitchSays(NoSwitch)
<1>1. NoSwitch.id = 0
  BY DEF NoSwitch
<1>2. 0 \notin Ids
  BY IdsAreNumbers
<1>. QED
  BY <1>1, <1>2 DEF SwitchSays

LEMMA LoadIsOK ==
    ASSUME IInv, view.at \in Berries, NEW p \in Nat, NEW goto \in Nat \cup {Stay}, NEW clear
    PROVE  /\ ListOK(view.at, LoadOf(p, goto, clear, NoSwitch), server.was)
           /\ ListOK(view.at, Load(p), server.was)
<1>1. ASSUME NEW g \in Nat \cup {Stay}, NEW c
      PROVE  ListOK(view.at, LoadOf(p, g, c, NoSwitch), server.was)
  <2>. DEFINE arg == LoadOf(p, g, c, NoSwitch)
  <2>1. arg.p = p /\ arg.goto = g /\ arg.sw = NoSwitch
    BY LoadFields
  <2>. HIDE DEF arg
  <2>2. SwitchSays(arg.sw)
    BY <2>1, NoSwitchSays
  <2>3. arg.p \in Nat /\ arg.goto \in Nat \cup {Stay}
    BY <2>1
  <2>4. ListOK(view.at, arg, server.was)
    BY <2>2, <2>3, BerryListOK
  <2>. QED
    BY <2>4 DEF arg
<1>. QED
  BY <1>1 DEF Load

LEMMA BerryLoadsKeep ==
    ASSUME IInv, Moved, view.at \in Berries, NEW arg, ListOK(view.at, arg, server.was),
           \/ Loads(view, arg)
           \/ SavedThen([view EXCEPT !.searching = TRUE], "berryLoad", "list", arg, view.rows)
    PROVE  IInv'
<1>. DEFINE v == [view EXCEPT !.searching = TRUE]
<1>1. SendsWith(v, "berryLoad", "list", arg, view.rows) \/ SavedThen(v, "berryLoad", "list", arg, view.rows)
  BY DEF Loads
<1>2. Kept(v)
  BY BerryFlags
<1>3. "berryLoad" \in Lists
  BY DEF Lists
<1>4. view.at \notin Pushing /\ view.rows \in Seq(Past(server.was))
  BY BerryView
<1>. HIDE DEF v
<1>. QED
  BY <1>1, <1>2, <1>3, <1>4, LoadSends

LEMMA StandsShows == ASSUME IInv, Moved, view.at \in Berries, NEW v, Stands(v), Shows(v) PROVE IInv'
<1>1. Proper(v)
  BY StandsListed, ListingProper
<1>2. v.rows \in Seq(Still)
  BY BerryView DEF Stands
<1>. QED
  BY <1>1, <1>2, ShowsKeep

LEMMA StandsEnds ==
    ASSUME IInv, Moved, view.at \in Berries, NEW n \in DOMAIN net, NEW v, Stands(v),
           net[n].req # "tell" \/ v.rows = view.rows, Ends(n, v)
    PROVE  IInv'
<1>1. Proper(v)
  BY StandsListed, ListingProper
<1>2. v.rows \in Seq(Good(n))
  BY BerryView DEF Stands
<1>. QED
  BY <1>1, <1>2, EndsKeep

\* A handler goes on to a load, with the list of its closure.
LEMMA BerryGoesOn ==
    ASSUME IInv, Moved, view.at \in Berries, NEW n \in DOMAIN net, NEW arg, ListOK(view.at, arg, server.was),
           GoesOn(n, [view EXCEPT !.searching = TRUE], "berryLoad", "list", arg, net[n].was)
    PROVE  IInv'
<1>. DEFINE v == [view EXCEPT !.searching = TRUE]
<1>1. GoesOn(n, v, "berryLoad", "list", arg, net[n].was)
  OBVIOUS
<1>2. Kept(v)
  BY BerryFlags
<1>. HIDE DEF v
<1>3. Proper(v) /\ v.rows = view.rows
  BY <1>2, KeptProper
<1>4. v.rows \in Seq(Good(n)) /\ Berry /\ view.at \notin Pushing
  BY <1>3, BerryView
<1>5. "berryLoad" \in Lists
  BY DEF Lists
<1>6. net[n].was \in Seq(Past(server.was))
  BY RequestFacts
<1>7. NewOK(v, Request("berryLoad", "list", arg, net[n].was))
  BY <1>3, <1>4, <1>5, <1>6, LoadNew
<1>. QED
  BY <1>1, <1>3, <1>4, <1>7, GoesOnKeep

LEMMA LoadReturnsKeeps == ASSUME IInv, Moved, NEW at \in Berries, LoadReturns(at) PROVE IInv'
<1>1. PICK n \in Back(at, "berryLoad") :
         LET q == net[n].arg
             rows == IF net[n].st = "refused" THEN view.rows
                     ELSE IF q.p = 0 THEN Rows(n) ELSE Spliced(net[n].was, q.p * PageSize, Rows(n))
             v == [view EXCEPT !.rows = rows, !.searching = FALSE,
                               !.page = IF q.goto = Stay THEN @ ELSE q.goto,
                               !.keyword = IF q.clear THEN "" ELSE @]
         IN
         \/ Rejected(n)
         \/ net[n].st # "failed" /\ Ends(n, Switched(Mounted(v), q.sw))
  BY DEF LoadReturns
<1>. DEFINE q == net[n].arg
            rows == IF net[n].st = "refused" THEN view.rows
                    ELSE IF q.p = 0 THEN Rows(n) ELSE Spliced(net[n].was, q.p * PageSize, Rows(n))
            page == IF q.goto = Stay THEN view.page ELSE q.goto
            keyword == IF q.clear THEN "" ELSE view.keyword
            v == [view EXCEPT !.rows = rows, !.searching = FALSE, !.page = page, !.keyword = keyword]
<1>2. Rejected(n) \/ (net[n].st # "failed" /\ Ends(n, Switched(Mounted(v), q.sw)))
  BY <1>1
<1>3. "berryLoad" \in Lists
  BY DEF Lists
<1>4. /\ n \in DOMAIN net /\ view.at = at /\ net[n].st \in {"ok", "refused", "failed"} /\ net[n].req = "list"
      /\ ListOK(at, q, server.was)
  BY <1>3, BackFacts DEF ForOK
<1>5. view.at \in Berries
  BY <1>4
<1>6. q.p \in Nat /\ q.goto \in Nat \cup {Stay} /\ SwitchSays(q.sw)
  BY <1>4 DEF ListOK, SwitchSays
<1>7. CASE net[n].st # "failed" /\ Ends(n, Switched(Mounted(v), q.sw))
  <2>1. rows \in Seq(Past(server.was))
    <3>1. q.p * PageSize \in Nat
      BY <1>6, IdsAreNumbers
    <3>2. CASE net[n].st = "refused"
      BY <1>5, <3>2, BerryView
    <3>3. CASE net[n].st = "ok"
      BY <1>4, <1>5, <3>1, <3>3, LoadedRows, BerryView
    <3>. QED
      BY <1>4, <1>7, <3>2, <3>3
  <2>2. page \in Nat
    BY <1>5, <1>6, BerryView
  <2>. HIDE DEF rows, page, keyword
  <2>3. /\ DOMAIN v = DOMAIN view /\ v.at = view.at /\ v.page = page /\ v.rows = rows /\ v.switch = view.switch
    BY <1>5, BerryView
  <2>. HIDE DEF v
  <2>4. Stands(v)
    BY <1>5, <2>1, <2>2, <2>3, BerryView DEF Stands
  <2>5. Stands(Switched(Mounted(v), q.sw))
    BY <1>5, <1>6, <2>4, MountedStands, SwitchedStands
  <2>. QED
    BY <1>4, <1>5, <1>7, <2>5, StandsEnds
<1>. QED
  BY <1>2, <1>4, <1>7, RejectedKeep

\* The pages of the footer are counted from 0, and so is one that is turned to.
LEMMA TurnedStands ==
    ASSUME IInv, view.at \in Berries, NEW p \in BerryPages
    PROVE  p \in Nat /\ Stands(Mounted([view EXCEPT !.page = p]))
<1>1. p \in Nat
  BY DEF BerryPages
<1>. DEFINE v == [view EXCEPT !.page = p]
<1>2. DOMAIN v = DOMAIN view /\ v.at = view.at /\ v.page = p /\ v.rows = view.rows /\ v.switch = view.switch
  BY BerryView
<1>. HIDE DEF v
<1>3. Stands(v)
  BY <1>1, <1>2, BerryView DEF Stands
<1>. QED
  BY <1>1, <1>3, MountedStands DEF v

LEMMA PageChangeKeeps == ASSUME IInv, Moved, NEW at \in Berries, PageChange(at) PROVE IInv'
<1>1. view.at = at
  BY DEF PageChange, At
<1>2. PICK p \in BerryPages : Loads(view, LoadOf(p, p, FALSE, NoSwitch)) \/ Shows(Mounted([view EXCEPT !.page = p]))
  BY DEF PageChange
<1>3. p \in Nat /\ Stands(Mounted([view EXCEPT !.page = p]))
  BY <1>1, TurnedStands
<1>4. ListOK(view.at, LoadOf(p, p, FALSE, NoSwitch), server.was)
  BY <1>1, <1>3, LoadIsOK
<1>. QED
  BY <1>1, <1>2, <1>3, <1>4, BerryLoadsKeep, StandsShows

LEMMA SearchesKeeps == ASSUME IInv, Moved, NEW at \in Berries, Searches(at) PROVE IInv'
<1>1. view.at = at
  BY DEF Searches, At
<1>2. \/ Loads(view, LoadOf(0, 0, FALSE, NoSwitch))
      \/ Sends([view EXCEPT !.searching = TRUE], "berrySearch", "search", <<>>)
  BY DEF Searches
<1>3. 0 \in Nat
  OBVIOUS
<1>4. ListOK(view.at, LoadOf(0, 0, FALSE, NoSwitch), server.was)
  BY <1>1, <1>3, LoadIsOK
<1>5. "berrySearch" \in Searching /\ Kept([view EXCEPT !.searching = TRUE])
  BY <1>1, BerryFlags DEF Searching
<1>. QED
  BY <1>1, <1>2, <1>4, <1>5, BerryLoadsKeep, SearchSends

LEMMA SearchReturnsKeeps == ASSUME IInv, Moved, NEW at \in Berries, SearchReturns(at) PROVE IInv'
<1>1. PICK n \in Back(at, "berrySearch") :
         LET v == [view EXCEPT !.searching = FALSE] IN
         \/ Rejected(n)
         \/ net[n].st = "refused" /\ Ends(n, v)
         \/ net[n].st = "ok" /\ Ends(n, Mounted([v EXCEPT !.rows = Rows(n), !.page = 0]))
  BY DEF SearchReturns
<1>. DEFINE v == [view EXCEPT !.searching = FALSE]
            w == [v EXCEPT !.rows = Rows(n), !.page = 0]
<1>2. \/ Rejected(n)
      \/ net[n].st = "refused" /\ Ends(n, v)
      \/ net[n].st = "ok" /\ Ends(n, Mounted(w))
  BY <1>1
<1>3. "berrySearch" \in Searching
  BY DEF Searching
<1>4. n \in DOMAIN net /\ view.at = at /\ net[n].req = "search"
  BY <1>3, BackFacts DEF ForOK
<1>5. Kept(v)
  BY <1>4, BerryFlags
<1>6. DOMAIN v = DOMAIN view /\ v.at = view.at /\ v.page = view.page /\ v.rows = view.rows /\ v.switch = view.switch
  BY <1>4, BerryView
<1>. HIDE DEF v
<1>7. CASE net[n].st = "refused" /\ Ends(n, v)
  BY <1>4, <1>5, <1>7, KeptEnds DEF Done
<1>8. CASE net[n].st = "ok" /\ Ends(n, Mounted(w))
  <2>1. Rows(n) \in Seq(Past(server.was))
    BY <1>4, <1>8, FoundShown
  <2>2. DOMAIN w = DOMAIN view /\ w.at = view.at /\ w.page = 0 /\ w.rows = Rows(n) /\ w.switch = view.switch
    BY <1>4, <1>6, BerryView
  <2>. HIDE DEF w
  <2>3. 0 \in Nat
    OBVIOUS
  <2>4. Stands(w)
    BY <1>4, <2>1, <2>2, <2>3, BerryView DEF Stands
  <2>. QED
    BY <1>4, <1>8, <2>4, MountedStands, StandsEnds
<1>. QED
  BY <1>2, <1>4, <1>7, <1>8, RejectedKeep

\* A control of a row on the screen asks for something.
LEMMA AsksKeep ==
    ASSUME IInv, Moved, view.at \in Berries, NEW i \in OnScreen(view),
           NEW a \in {Toggle(view.rows[i]), Drop, <<"touch", None>>, <<"tell", None>>},
           Asks(view.rows[i], a[1], a[2])
    PROVE  IInv'
<1>. DEFINE id == view.rows[i].id
            req == a[1]
            st == a[2]
            inst == view.switch[id].inst
            arg == [id |-> id, st |-> st, inst |-> inst, page |-> view.page]
            q == Request("berryManage", req, arg, view.rows)
<1>1. SendsWith(view, "berryManage", req, arg, view.rows)
  BY DEF Asks
<1>2. id \in Ids
  <2>1. view.page + 1 \in Nat \ {0} /\ PageSize \in Nat
    BY BerryView, IdsAreNumbers
  <2>2. i \in DOMAIN view.rows
    BY <2>1, BerryView, ShownRows DEF OnScreen
  <2>. QED
    BY <2>2, ViewRow
<1>3. req \in {"put", "delete", "touch", "tell"} /\ (req = "put" => st \in Statuses)
  BY DEF Toggle, Drop, Statuses
<1>. HIDE DEF id, req, st, inst
<1>4. arg.id = id /\ arg.st = st /\ arg.page = view.page
  OBVIOUS
<1>. HIDE DEF arg
<1>5. /\ q.fn = "berryManage" /\ q.req = req /\ q.arg = arg /\ q.was = view.rows /\ q.st = "sent" /\ q.data = <<>>
      /\ DOMAIN q = {"fn", "req", "arg", "was", "st", "data"}
  BY RequestFields
<1>. HIDE DEF q
<1>6. ForOK(q.fn, q.req) /\ q.req # "list" /\ q.req # "purge" /\ q.fn \notin Indexed
  BY <1>3, <1>5 DEF ForOK, Lists, Searching, Indexed, Numbered, Purging, Telling
<1>7. q.arg.id \in Ids /\ (q.req = "put" => q.arg.st \in Statuses) /\ q.arg.page \in Nat
  BY <1>2, <1>3, <1>4, <1>5, BerryView
<1>8. q.was \in Seq(Past(server.was)) /\ q.st \in {"sent", "ok", "refused", "failed"}
  BY <1>5, BerryView
<1>9. AskOK(view.at, q, server.was)
  BY <1>5, <1>6, <1>7, <1>8 DEF AskOK
<1>10. NewOK(view, q)
  BY <1>5, <1>9, BerryView DEF NewOK
<1>. QED
  BY <1>1, <1>10, ProperView, SendsKeep DEF q

\* The answer to a control of a row; p is the page a deletion has loaded.
LEMMA ManagedRow ==
    ASSUME IInv, Moved, NEW at \in Berries, NEW n \in Back(at, "berryManage"), NEW p, p \in Nat,
           \/ Rejected(n)
           \/ net[n].st # "failed" /\ net[n].req = "put" /\ StatusReturns(n)
           \/ net[n].st # "failed" /\ net[n].req \in {"touch", "tell"} /\ Ends(n, view)
           \/ net[n].st = "refused" /\ net[n].req = "delete" /\ Ends(n, view)
           \/ /\ net[n].st = "ok" /\ net[n].req = "delete"
              /\ GoesOn(n, [view EXCEPT !.searching = TRUE], "berryLoad", "list", Load(p), net[n].was)
    PROVE  IInv'
<1>1. n \in DOMAIN net /\ view.at = at
  BY BackFacts
<1>2. view.at \in Berries
  BY <1>1
<1>3. CASE net[n].req = "put" /\ StatusReturns(n)
  <2>1. CASE net[n].st = "ok" /\ Ends(n, Switched(view, SwitchOf(net[n].arg)))
    <3>. DEFINE sw == SwitchOf(net[n].arg)
    <3>1. sw.id = net[n].arg.id /\ sw.st = net[n].arg.st
      BY DEF SwitchOf
    <3>2. net[n].arg.st \in server.was[net[n].arg.id]
      BY <1>1, <1>3, <2>1, RequestFacts DEF AnswerOK
    <3>. HIDE DEF sw
    <3>3. SwitchSays(sw)
      BY <3>1, <3>2 DEF SwitchSays
    <3>4. Stands(Switched(view, sw))
      BY <1>2, <3>3, StandsView, SwitchedStands
    <3>5. Ends(n, Switched(view, sw))
      BY <2>1 DEF sw
    <3>. QED
      BY <1>1, <1>2, <1>3, <3>4, <3>5, StandsEnds
  <2>2. CASE net[n].st # "ok" /\ Ends(n, view)
    BY <1>1, <2>2, SameEnds DEF Done
  <2>. QED
    BY <1>3, <2>1, <2>2 DEF StatusReturns
<1>4. CASE net[n].req \in {"touch", "tell"} /\ Ends(n, view)
  BY <1>1, <1>4, SameEnds DEF Done
<1>5. CASE net[n].st = "refused" /\ Ends(n, view)
  BY <1>1, <1>5, SameEnds DEF Done
<1>6. CASE GoesOn(n, [view EXCEPT !.searching = TRUE], "berryLoad", "list", Load(p), net[n].was)
  <2>1. Stay \in Nat \cup {Stay}
    OBVIOUS
  <2>2. ListOK(view.at, Load(p), server.was)
    BY <1>2, <2>1, LoadIsOK
  <2>. QED
    BY <1>1, <1>2, <1>6, <2>2, BerryGoesOn
<1>. QED
  BY <1>1, <1>3, <1>4, <1>5, <1>6, RejectedKeep

LEMMA ManagedPage ==
    ASSUME IInv, Moved, NEW at \in Berries, ManageReturns(at, PageOf) \/ ManageReturns(at, FirstPage)
    PROVE  IInv'
<1>1. PICK n \in Back(at, "berryManage") : \E p \in {PageOf(net[n].arg), FirstPage(net[n].arg)} :
         \/ Rejected(n)
         \/ net[n].st # "failed" /\ net[n].req = "put" /\ StatusReturns(n)
         \/ net[n].st # "failed" /\ net[n].req \in {"touch", "tell"} /\ Ends(n, view)
         \/ net[n].st = "refused" /\ net[n].req = "delete" /\ Ends(n, view)
         \/ /\ net[n].st = "ok" /\ net[n].req = "delete"
            /\ GoesOn(n, [view EXCEPT !.searching = TRUE], "berryLoad", "list", Load(p), net[n].was)
  BY DEF ManageReturns
<1>2. PICK p \in {PageOf(net[n].arg), FirstPage(net[n].arg)} :
         \/ Rejected(n)
         \/ net[n].st # "failed" /\ net[n].req = "put" /\ StatusReturns(n)
         \/ net[n].st # "failed" /\ net[n].req \in {"touch", "tell"} /\ Ends(n, view)
         \/ net[n].st = "refused" /\ net[n].req = "delete" /\ Ends(n, view)
         \/ /\ net[n].st = "ok" /\ net[n].req = "delete"
            /\ GoesOn(n, [view EXCEPT !.searching = TRUE], "berryLoad", "list", Load(p), net[n].was)
  BY <1>1
<1>3. net[n].arg.page \in Nat
  BY BackFacts
<1>4. p \in Nat
  <2>1. p \in {PageOf(net[n].arg), FirstPage(net[n].arg)}
    BY <1>2
  <2>2. p = net[n].arg.page \/ p = 0
    BY <2>1 DEF PageOf, FirstPage
  <2>. QED
    BY <1>3, <2>2
<1>. QED
  BY <1>2, <1>4, ManagedRow

\* The list is refreshed after a save.
LEMMA SavesKeeps ==
    ASSUME IInv, Moved, NEW at \in Berries, NEW arg,
           arg \in {Load(view.page), LoadOf(0, 0, TRUE, NoSwitch)}, Saves(at, arg)
    PROVE  IInv'
<1>1. view.at = at
  BY DEF Saves, At
<1>2. 0 \in Nat /\ Stay \in Nat \cup {Stay}
  OBVIOUS
<1>3. view.page \in Nat
  BY <1>1, BerryView
<1>4. ListOK(view.at, Load(view.page), server.was) /\ ListOK(view.at, LoadOf(0, 0, TRUE, NoSwitch), server.was)
  BY <1>1, <1>2, <1>3, LoadIsOK
<1>5. SavedThen([view EXCEPT !.searching = TRUE], "berryLoad", "list", arg, view.rows)
  BY DEF Saves
<1>6. ListOK(view.at, arg, server.was)
  BY <1>4
<1>. QED
  BY <1>1, <1>5, <1>6, BerryLoadsKeep

LEMMA BerryKeywordKeeps == ASSUME IInv, Moved, berryHandleSearchKeyword PROVE IInv'
<1>1. view.at \in Berries
  BY DEF berryHandleSearchKeyword, Berries
<1>2. PICK k \in {"", "some"} : Shows([view EXCEPT !.keyword = k])
  BY DEF berryHandleSearchKeyword
<1>3. Kept([view EXCEPT !.keyword = k])
  BY <1>1, BerryFlags
<1>. QED
  BY <1>2, <1>3, KeptShows

LEMMA berryTokensKeep == ASSUME IInv, Moved, berryTokensNext PROVE IInv'
<1>1. "berry.Tokens" \in Berries
  BY DEF Berries
<1>2. CASE berryTokenRow
  <2>1. view.at = "berry.Tokens"
    BY <1>2 DEF berryTokenRow, RowAsks, At
  <2>2. PICK i \in OnScreen(view) : \E a \in TokenAsks(view.rows[i]) : Asks(view.rows[i], a[1], a[2])
    BY <1>2 DEF berryTokenRow, RowAsks
  <2>. QED
    BY <1>1, <2>1, <2>2, AsksKeep DEF TokenAsks
<1>3. CASE berryManageTokenReturns
  BY <1>1, <1>3, ManagedPage DEF berryManageTokenReturns
<1>. QED
  BY <1>1, <1>2, <1>3, LoadReturnsKeeps, PageChangeKeeps, SearchesKeeps, SearchReturnsKeeps, SavesKeeps
     DEF berryTokensNext, berryLoadTokensReturns, berryOnPaginationChangeTokens, berrySearchTokens,
     berrySearchTokensReturns, berryHandleRefreshTokens

LEMMA berryRedemptionsKeep == ASSUME IInv, Moved, berryRedemptionsNext PROVE IInv'
<1>1. "berry.Redemptions" \in Berries
  BY DEF Berries
<1>2. CASE berryRedemptionRow
  <2>1. view.at = "berry.Redemptions"
    BY <1>2 DEF berryRedemptionRow, RowAsks, At
  <2>2. PICK i \in OnScreen(view) : \E a \in CodeAsks(view.rows[i]) : Asks(view.rows[i], a[1], a[2])
    BY <1>2 DEF berryRedemptionRow, RowAsks
  <2>. QED
    BY <1>1, <2>1, <2>2, AsksKeep DEF CodeAsks
<1>3. CASE berryManageRedemptionsReturns
  BY <1>1, <1>3, ManagedPage DEF berryManageRedemptionsReturns
<1>. QED
  BY <1>1, <1>2, <1>3, LoadReturnsKeeps, PageChangeKeeps, SearchesKeeps, SearchReturnsKeeps, SavesKeeps
     DEF berryRedemptionsNext, berryLoadRedemptionsReturns, berryOnPaginationChangeRedemptions,
     berrySearchRedemptions, berrySearchRedemptionsReturns, berryHandleRefreshRedemptions

LEMMA berryChannelsKeep == ASSUME IInv, Moved, berryChannelsNext PROVE IInv'
<1>1. "berry.Channels" \in Berries
  BY DEF Berries
<1>2. CASE berryChannelRow
  <2>1. view.at = "berry.Channels"
    BY <1>2 DEF berryChannelRow, RowAsks, At
  <2>2. PICK i \in OnScreen(view) : \E a \in ChannelAsks(view.rows[i]) : Asks(view.rows[i], a[1], a[2])
    BY <1>2 DEF berryChannelRow, RowAsks
  <2>. QED
    BY <1>1, <2>1, <2>2, AsksKeep DEF ChannelAsks
<1>3. CASE berryManageChannelReturns
  BY <1>1, <1>3, ManagedPage DEF berryManageChannelReturns
<1>4. CASE berryTestAllChannels \/ berryUpdateAllChannelsBalance
  <2>1. view.at \in Berries
    BY <1>1, <1>4 DEF berryTestAllChannels, berryUpdateAllChannelsBalance, At
  <2>2. PICK v \in {view, [view EXCEPT !.searching = TRUE]} :
           \E arg \in {[spin |-> FALSE], [spin |-> TRUE]} : SendsWith(v, "berryTell", "tell", arg, <<>>)
    BY <1>4 DEF berryTestAllChannels, berryUpdateAllChannelsBalance, Sends
  <2>3. Kept(view) /\ Kept([view EXCEPT !.searching = TRUE])
    BY <2>1, KeptIsListed, BerryFlags
  <2>4. Kept(v)
    BY <2>2, <2>3
  <2>5. "berryTell" \in Telling /\ view.at \notin Pushing /\ <<>> \in Seq(Past(server.was))
    BY <2>1, BerryView, EmptySeq DEF Telling
  <2>6. PICK arg \in {[spin |-> FALSE], [spin |-> TRUE]} : SendsWith(v, "berryTell", "tell", arg, <<>>)
    BY <2>2
  <2>. QED
    BY <2>4, <2>5, <2>6, TellSends
<1>5. CASE berryTellReturns
  <2>1. PICK n \in Back("berry.Channels", "berryTell") :
           Rejected(n) \/ Ends(n, [view EXCEPT !.searching = @ /\ ~net[n].arg.spin])
    BY <1>5 DEF berryTellReturns
  <2>2. "berryTell" \in Telling
    BY DEF Telling
  <2>3. n \in DOMAIN net /\ view.at \in Berries /\ ~Done(n)
    BY <1>1, <2>2, BackFacts DEF ForOK, Done
  <2>. DEFINE b == view.searching /\ ~net[n].arg.spin
  <2>4. Rejected(n) \/ Ends(n, [view EXCEPT !.searching = b])
    <3>1. [view EXCEPT !.searching = b] = [view EXCEPT !.searching = @ /\ ~net[n].arg.spin]
      BY Zenon
    <3>. QED
      BY <2>1, <3>1
  <2>. HIDE DEF b
  <2>5. Kept([view EXCEPT !.searching = b])
    BY <2>3, BerryFlags
  <2>. QED
    BY <2>3, <2>4, <2>5, RejectedKeep, KeptEnds
<1>6. CASE berryDeleteAllDisabledChannels
  <2>. DEFINE arg == [page |-> view.page]
  <2>1. view.at \in Berries
    BY <1>1, <1>6 DEF berryDeleteAllDisabledChannels, At
  <2>2. SendsWith(view, "berryPurge", "purge", arg, view.rows)
    BY <1>6 DEF berryDeleteAllDisabledChannels
  <2>3. arg.page = view.page
    OBVIOUS
  <2>. HIDE DEF arg
  <2>4. PurgeOK(view.at, arg) /\ view.at \notin Pushing /\ view.rows \in Seq(Past(server.was))
    BY <2>1, <2>3, BerryView DEF PurgeOK
  <2>5. "berryPurge" \in Purging /\ Proper(view)
    BY ProperView DEF Purging
  <2>6. NewOK(view, Request("berryPurge", "purge", arg, view.rows))
    BY <2>4, <2>5, PurgeNew
  <2>. QED
    BY <2>2, <2>5, <2>6, SendsKeep
<1>7. CASE berryDeleteAllDisabledChannelsReturns
  <2>1. PICK n \in Back("berry.Channels", "berryPurge") :
           \/ Rejected(n)
           \/ Ends(n, view)
           \/ GoesOn(n, [view EXCEPT !.searching = TRUE], "berryLoad", "list", Load(net[n].arg.page), net[n].was)
    BY <1>7 DEF berryDeleteAllDisabledChannelsReturns
  <2>2. "berryPurge" \in Purging
    BY DEF Purging
  <2>3. /\ n \in DOMAIN net /\ view.at \in Berries /\ net[n].req = "purge" /\ ~Done(n)
        /\ PurgeOK(view.at, net[n].arg)
    BY <1>1, <2>2, BackFacts DEF ForOK, Done
  <2>4. net[n].arg.page \in Nat /\ Stay \in Nat \cup {Stay}
    BY <2>3 DEF PurgeOK
  <2>5. ListOK(view.at, Load(net[n].arg.page), server.was)
    BY <2>3, <2>4, LoadIsOK
  <2>. QED
    BY <2>1, <2>3, <2>5, RejectedKeep, SameEnds, BerryGoesOn
<1>. QED
  BY <1>1, <1>2, <1>3, <1>4, <1>5, <1>6, <1>7, LoadReturnsKeeps, PageChangeKeeps, SearchesKeeps,
     SearchReturnsKeeps, SavesKeeps, BerryKeywordKeeps
     DEF berryChannelsNext, berryLoadChannelsReturns, berryOnPaginationChangeChannels, berrySearchChannels,
     berrySearchChannelsReturns, berryHandleRefreshChannels

LEMMA berryUsersKeep == ASSUME IInv, Moved, berryUsersNext PROVE IInv'
<1>1. "berry.Users" \in Berries
  BY DEF Berries
<1>2. CASE berryUserRow
  <2>1. view.at = "berry.Users"
    BY <1>2 DEF berryUserRow, RowAsks, At
  <2>2. PICK i \in OnScreen(view) : \E a \in UserAsks(view.rows[i]) : Asks(view.rows[i], a[1], a[2])
    BY <1>2 DEF berryUserRow, RowAsks
  <2>. QED
    BY <1>1, <2>1, <2>2, AsksKeep DEF UserAsks
<1>3. CASE berryManageUserReturns
  <2>1. PICK n \in Back("berry.Users", "berryManage") :
           LET q == net[n].arg
               sw == IF net[n].req = "put" THEN SwitchOf(q) ELSE NoSwitch
           IN
           \/ Rejected(n)
           \/ net[n].st = "refused" /\ Ends(n, view)
           \/ /\ net[n].st = "ok"
              /\ GoesOn(n, [view EXCEPT !.searching = TRUE], "berryLoad", "list",
                        With(LoadOf(q.page, Stay, FALSE, sw), [id |-> q.id, inst |-> q.inst]), net[n].was)
    BY <1>3 DEF berryManageUserReturns
  <2>. DEFINE q == net[n].arg
              sw == IF net[n].req = "put" THEN SwitchOf(q) ELSE NoSwitch
              clear == FALSE
              load == LoadOf(q.page, Stay, clear, sw)
              more == [id |-> q.id, inst |-> q.inst]
              arg == With(load, more)
  <2>2. \/ Rejected(n)
        \/ net[n].st = "refused" /\ Ends(n, view)
        \/ /\ net[n].st = "ok"
           /\ GoesOn(n, [view EXCEPT !.searching = TRUE], "berryLoad", "list", arg, net[n].was)
    BY <2>1
  <2>3. n \in DOMAIN net /\ view.at \in Berries /\ q.page \in Nat
    BY <1>1, BackFacts
  <2>4. CASE net[n].st = "refused" /\ Ends(n, view)
    BY <2>3, <2>4, SameEnds DEF Done
  <2>5. CASE /\ net[n].st = "ok"
             /\ GoesOn(n, [view EXCEPT !.searching = TRUE], "berryLoad", "list", arg, net[n].was)
    <3>1. SwitchSays(sw)
      <4>1. CASE net[n].req = "put"
        <5>1. net[n].arg.st \in server.was[net[n].arg.id]
          BY <2>3, <2>5, <4>1, RequestFacts DEF AnswerOK
        <5>2. sw = SwitchOf(net[n].arg)
          BY <4>1
        <5>3. sw.id = net[n].arg.id /\ sw.st = net[n].arg.st
          BY <5>2 DEF SwitchOf
        <5>. HIDE DEF sw
        <5>. QED
          BY <5>1, <5>3 DEF SwitchSays
      <4>2. CASE net[n].req # "put"
        <5>1. sw = NoSwitch
          BY <4>2
        <5>. HIDE DEF sw
        <5>. QED
          BY <5>1, NoSwitchSays
      <4>. QED
        BY <4>1, <4>2
    <3>. HIDE DEF sw
    <3>. HIDE DEF clear
    <3>2. load.p = q.page /\ load.goto = Stay /\ load.sw = sw
      BY LoadFields
    <3>a. DOMAIN load = {"p", "order", "type", "some", "goto", "clear", "sw"}
      BY LoadFields
    <3>. HIDE DEF load, more
    <3>3. "p" \in DOMAIN load /\ "goto" \in DOMAIN load /\ "sw" \in DOMAIN load
      BY <3>a
    <3>4. arg.p = q.page /\ arg.goto = Stay /\ arg.sw = sw
      BY <3>2, <3>3, WithOld
    <3>5. GoesOn(n, [view EXCEPT !.searching = TRUE], "berryLoad", "list", arg, net[n].was)
      BY <2>5
    <3>. HIDE DEF arg
    <3>6. SwitchSays(arg.sw)
      BY <3>1, <3>4
    <3>7. arg.p \in Nat /\ arg.goto \in Nat \cup {Stay}
      BY <2>3, <3>4
    <3>8. ListOK(view.at, arg, server.was)
      BY <2>3, <3>6, <3>7, BerryListOK
    <3>. QED
      BY <2>3, <3>5, <3>8, BerryGoesOn
  <2>. QED
    BY <2>2, <2>3, <2>4, <2>5, RejectedKeep
<1>. QED
  BY <1>1, <1>2, <1>3, LoadReturnsKeeps, PageChangeKeeps, SearchesKeeps, SearchReturnsKeeps, SavesKeeps
     DEF berryUsersNext, berryLoadUsersReturns, berryOnPaginationChangeUsers, berrySearchUsers,
     berrySearchUsersReturns, berryHandleRefreshUsers

LEMMA LogLoadOK ==
    ASSUME IInv, view.at \in Berries, NEW type, NEW some, NEW p \in Nat, NEW goto \in Nat \cup {Stay}
    PROVE  ListOK(view.at, LogLoad(type, some, p, goto), server.was)
<1>. DEFINE clear == FALSE
            load == LoadOf(p, goto, clear, NoSwitch)
            arg == [load EXCEPT !.type = type, !.some = some]
<1>2. LogLoad(type, some, p, goto) = arg
  BY DEF LogLoad
<1>. HIDE DEF clear
<1>1. load.p = p /\ load.goto = goto /\ load.sw = NoSwitch
  BY LoadFields
<1>a. DOMAIN load = {"p", "order", "type", "some", "goto", "clear", "sw"}
  BY LoadFields
<1>. HIDE DEF load
<1>3. arg.p = p /\ arg.goto = goto /\ arg.sw = NoSwitch
  BY <1>1, <1>a
<1>. HIDE DEF arg
<1>4. SwitchSays(arg.sw)
  BY <1>3, NoSwitchSays
<1>5. arg.p \in Nat /\ arg.goto \in Nat \cup {Stay}
  BY <1>3
<1>. QED
  BY <1>2, <1>4, <1>5, BerryListOK

LEMMA berryLogsKeep == ASSUME IInv, Moved, berryLogsNext PROVE IInv'
<1>1. "berry.Logs" \in Berries
  BY DEF Berries
<1>2. view.at \in Berries
  BY <1>1 DEF berryLogsNext, berryLoadLogsReturns, berryOnPaginationChangeLogs, berrySearchLogs,
     berryHandleSearchKeywordLogs, berryHandleRefreshLogs, LoadReturns, Back, At
<1>3. 0 \in Nat /\ Stay \in Nat \cup {Stay}
  OBVIOUS
<1>4. CASE berryOnPaginationChangeLogs
  <2>1. PICK p \in BerryPages :
           Loads(view, LogLoad(view.type, view.some, p, p)) \/ Shows(Mounted([view EXCEPT !.page = p]))
    BY <1>4 DEF berryOnPaginationChangeLogs
  <2>2. p \in Nat /\ Stands(Mounted([view EXCEPT !.page = p]))
    BY <1>2, TurnedStands
  <2>3. ListOK(view.at, LogLoad(view.type, view.some, p, p), server.was)
    BY <1>2, <2>2, LogLoadOK
  <2>. QED
    BY <1>2, <2>1, <2>2, <2>3, BerryLoadsKeep, StandsShows
<1>5. CASE berrySearchLogs
  <2>1. Loads(view, LogLoad(view.type, view.some, 0, 0))
    BY <1>5 DEF berrySearchLogs
  <2>2. ListOK(view.at, LogLoad(view.type, view.some, 0, 0), server.was)
    BY <1>2, <1>3, LogLoadOK
  <2>. QED
    BY <1>2, <2>1, <2>2, BerryLoadsKeep
<1>6. CASE berryHandleSearchKeywordLogs
  <2>. DEFINE some == ~view.some
              w == [view EXCEPT !.some = some]
  <2>1. (\E type \in {0, Enabled, Disabled} : Shows([view EXCEPT !.type = type])) \/ Shows(w)
    BY <1>6 DEF berryHandleSearchKeywordLogs
  <2>. HIDE DEF some
  <2>2. CASE \E type \in {0, Enabled, Disabled} : Shows([view EXCEPT !.type = type])
    <3>1. PICK type \in {0, Enabled, Disabled} : Shows([view EXCEPT !.type = type])
      BY <2>2
    <3>. DEFINE v == [view EXCEPT !.type = type]
    <3>2. /\ DOMAIN v = DOMAIN view /\ v.at = view.at /\ v.rows = view.rows /\ v.page = view.page
          /\ v.switch = view.switch
      BY <1>2, BerryView
    <3>3. Shows(v)
      BY <3>1
    <3>. HIDE DEF v
    <3>4. Stands(v)
      BY <1>2, <3>2, BerryView DEF Stands
    <3>. QED
      BY <1>2, <3>3, <3>4, StandsShows
  <2>3. CASE Shows(w)
    <3>1. /\ DOMAIN w = DOMAIN view /\ w.at = view.at /\ w.rows = view.rows /\ w.page = view.page
          /\ w.switch = view.switch
      BY <1>2, BerryView
    <3>. HIDE DEF w
    <3>2. Stands(w)
      BY <1>2, <3>1, BerryView DEF Stands
    <3>. QED
      BY <1>2, <2>3, <3>2, StandsShows
  <2>. QED
    BY <2>1, <2>2, <2>3
<1>7. CASE berryHandleRefreshLogs
  <2>. DEFINE v == [view EXCEPT !.type = 0, !.some = FALSE, !.page = 0, !.searching = TRUE]
              w == Mounted(v)
              one == LogLoad(view.type, view.some, 0, Stay)
              two == LogLoad(0, FALSE, 0, Stay)
  <2>1. SendsBoth(w, Request("berryLoad", "list", one, view.rows), Request("berryLoad", "list", two, view.rows))
    BY <1>7 DEF berryHandleRefreshLogs
  <2>2. ListOK(view.at, one, server.was) /\ ListOK(view.at, two, server.was)
    BY <1>2, <1>3, LogLoadOK
  <2>3. DOMAIN v = DOMAIN view /\ v.at = view.at /\ v.page = 0 /\ v.rows = view.rows /\ v.switch = view.switch
    BY <1>2, BerryView
  <2>. HIDE DEF v, one, two
  <2>4. Stands(v)
    BY <1>2, <1>3, <2>3, BerryView DEF Stands
  <2>5. Stands(w)
    BY <1>2, <2>4, MountedStands
  <2>. HIDE DEF w
  <2>6. Proper(w)
    BY <1>2, <2>5, StandsListed, ListingProper
  <2>7. "berryLoad" \in Lists /\ view.at \notin Pushing /\ view.rows \in Seq(Past(server.was))
    BY <1>2, BerryView DEF Lists
  <2>8. /\ NewOK(w, Request("berryLoad", "list", one, view.rows))
        /\ NewOK(w, Request("berryLoad", "list", two, view.rows))
    BY <1>2, <2>2, <2>6, <2>7, LoadNew
  <2>. QED
    BY <2>1, <2>6, <2>8, SendsBothKeep
<1>. QED
  BY <1>1, <1>4, <1>5, <1>6, <1>7, LoadReturnsKeeps DEF berryLogsNext, berryLoadLogsReturns

----------------------------------------------------------------------------
(***************************************************************************)
(* The page is opened, with the requests of its effects under way.         *)
(***************************************************************************)
StartOK(v) ==
    /\ "at" \in DOMAIN v /\ "rows" \in DOMAIN v /\ "page" \in DOMAIN v
    /\ v.at \in Defaults \cup Airs \cup Berries /\ v.rows = <<>>
    /\ v.page \in Nat /\ (v.at \notin Berries => v.page # 0)
    /\ v.at \in Airs => "size" \in DOMAIN v /\ v.size \in Nat \ {0}
    /\ v.at \in Pushing => "era" \in DOMAIN v
    /\ v.at \in Berries => "switch" \in DOMAIN v /\ v.switch = <<>>

FirstOK(v, q) ==
    /\ AskOK(v.at, q, server.was) /\ AnswerOK(q, server.was)
    /\ q.st = "sent" /\ q.data = <<>> /\ q.was = <<>> /\ q.req \in {"list", "tell"}
    /\ v.at \in Pushing => q.arg.era = v.era

LEMMA SentNothing ==
    ASSUME NEW q, q.st = "sent", q.data = <<>>
    PROVE  AnswerOK(q, server.was)
<1>1. <<>> \in Seq(Told(server.was))
  OBVIOUS
<1>2. Distinct(<<>>)
  BY DEF Distinct
<1>. QED
  BY <1>1, <1>2 DEF AnswerOK

LEMMA FirstList ==
    ASSUME NEW v, NEW fn \in Lists, NEW arg, ListOK(v.at, arg, server.was), v.at \in Pushing => arg.era = v.era
    PROVE  FirstOK(v, Request(fn, "list", arg, <<>>))
<1>. DEFINE q == Request(fn, "list", arg, <<>>)
<1>1. /\ q.fn = fn /\ q.req = "list" /\ q.arg = arg /\ q.was = <<>> /\ q.st = "sent" /\ q.data = <<>>
      /\ DOMAIN q = {"fn", "req", "arg", "was", "st", "data"}
  BY RequestFields
<1>. HIDE DEF q
<1>2. ForOK(q.fn, q.req) /\ q.req \notin Changing /\ q.fn \notin Indexed /\ q.fn # "berryManage"
  BY <1>1 DEF ForOK, Lists, Searching, Indexed, Numbered, Purging, Telling, Changing
<1>3. <<>> \in Seq(Past(server.was))
  OBVIOUS
<1>4. AskOK(v.at, q, server.was)
  BY <1>1, <1>2, <1>3 DEF AskOK
<1>. QED
  BY <1>1, <1>4, SentNothing DEF FirstOK, q

LEMMA FirstTell ==
    ASSUME NEW v, NEW fn \in Telling, NEW arg, v.at \notin Pushing
    PROVE  FirstOK(v, Request(fn, "tell", arg, <<>>))
<1>. DEFINE q == Request(fn, "tell", arg, <<>>)
<1>1. /\ q.fn = fn /\ q.req = "tell" /\ q.arg = arg /\ q.was = <<>> /\ q.st = "sent" /\ q.data = <<>>
      /\ DOMAIN q = {"fn", "req", "arg", "was", "st", "data"}
  BY RequestFields
<1>. HIDE DEF q
<1>2. ForOK(q.fn, q.req) /\ q.req \notin Changing /\ q.fn \notin Indexed /\ q.fn # "berryManage"
  BY <1>1 DEF ForOK, Lists, Searching, Indexed, Numbered, Purging, Telling, Changing
<1>3. <<>> \in Seq(Past(server.was))
  OBVIOUS
<1>4. AskOK(v.at, q, server.was)
  BY <1>1, <1>2, <1>3 DEF AskOK
<1>. QED
  BY <1>1, <1>4, SentNothing DEF FirstOK, q

LEMMA ServerStarts == ASSUME ServerInit PROVE ServerOK
<1>. DEFINE rows == [id \in Ids |-> IF id \in Initial THEN Enabled ELSE None]
            was == [id \in Ids |-> IF id \in Initial THEN {Enabled} ELSE {None}]
<1>1. server = [rows |-> rows, was |-> was]
  BY DEF ServerInit
<1>2. /\ rows \in [Ids -> Statuses \cup {None}] /\ was \in [Ids -> SUBSET (Statuses \cup {None})]
      /\ \A id \in Ids : rows[id] \in was[id]
  BY DEF Statuses
<1>. HIDE DEF rows, was
<1>. QED
  BY <1>1, <1>2 DEF ServerOK

LEMMA OpensInv ==
    ASSUME ServerInit, tidy = TRUE, NEW v, StartOK(v), NEW a, FirstOK(v, a), NEW b, FirstOK(v, b), NEW first,
           Opens(v, first),
           first = <<a>> \/ (first = <<a, b>> /\ (b.req = "tell" \/ v.at \in Berries))
    PROVE  IInv
<1>1. view = v /\ net = first /\ calls = Len(first)
  BY DEF Opens
<1>2. history = [alone |-> TRUE, lost |-> FALSE, faults |-> 0]
  BY DEF Opens
<1>3. ServerOK
  BY ServerStarts
<1>4. /\ DOMAIN net = 1 .. calls /\ calls \in {1, 2}
      /\ \A n \in DOMAIN net : FirstOK(v, net[n])
      /\ \A n, m \in DOMAIN net : n = m \/ net[n].req = "tell" \/ net[m].req = "tell" \/ v.at \in Berries
  <2>1. CASE first = <<a>>
    <3>1. DOMAIN first = {1} /\ first[1] = a /\ Len(first) = 1 /\ 1 .. 1 = {1}
      BY <2>1
    <3>. QED
      BY <1>1, <3>1
  <2>2. CASE first = <<a, b>> /\ (b.req = "tell" \/ v.at \in Berries)
    <3>1. /\ DOMAIN first = {1, 2} /\ first[1] = a /\ first[2] = b /\ Len(first) = 2 /\ 1 .. 2 = {1, 2}
      BY <2>2
    <3>. QED
      BY <1>1, <2>2, <3>1
  <2>. QED
    BY <2>1, <2>2
<1>5. view.rows = <<>> /\ DOMAIN view.rows = {} /\ view.rows \in Seq(Past(server.was))
  <2>1. view.rows = <<>>
    BY <1>1 DEF StartOK
  <2>2. DOMAIN <<>> = {} /\ <<>> \in Seq(Past(server.was))
    OBVIOUS
  <2>. QED
    BY <2>1, <2>2
<1>6. PageOK(view, server.was)
  <2>1. view.at \in Berries => SwitchOK(view.switch, server.was)
    BY <1>1 DEF StartOK, SwitchOK
  <2>2. Distinct(view.rows)
    BY <1>5 DEF Distinct
  <2>. QED
    BY <1>1, <1>5, <2>1, <2>2 DEF PageOK, StartOK
<1>7. RequestsOK
  BY <1>1, <1>4 DEF RequestsOK, FirstOK
<1>8. CountOK
  <2>1. Cardinality(DOMAIN net) = calls /\ calls \in Nat
    <3>1. CASE calls = 1
      <4>1. DOMAIN net = {1}
        BY <1>4, <3>1
      <4>. QED
        BY <3>1, <4>1, FS_Singleton
    <3>2. CASE calls = 2
      <4>1. DOMAIN net = {1} \cup {2} /\ 2 \notin {1}
        BY <1>4, <3>2
      <4>2. IsFiniteSet({1}) /\ Cardinality({1}) = 1
        BY FS_Singleton
      <4>3. Cardinality({1} \cup {2}) = 2
        BY <4>1, <4>2, FS_AddElement
      <4>. QED
        BY <3>2, <4>1, <4>3
    <3>. QED
      BY <1>4, <3>1, <3>2
  <2>2. calls <= MaxEvents + 1
    BY <1>4, BrowserAssumption
  <2>3. history \in [alone : BOOLEAN, lost : BOOLEAN, faults : Nat]
    BY <1>2
  <2>. QED
    BY <1>4, <2>1, <2>2, <2>3 DEF CountOK
<1>9. EraOK
  BY <1>1, <1>4, <1>5 DEF EraOK, Holds, FirstOK
<1>10. QuietOK
  <2>. SUFFICES ASSUME Quiet PROVE QuietOK
    BY DEF QuietOK
  <2>1. v.at \notin Berries
    BY <1>1, Kinds DEF Quiet
  <2>2. NoRowTwice
    BY <1>5 DEF NoRowTwice
  <2>3. ASSUME NEW n \in DOMAIN net
        PROVE  net[n].req \in {"list", "tell"} /\ net[n].st = "sent" /\ net[n].was = view.rows
    BY <1>4, <1>5 DEF FirstOK
  <2>. QED
    BY <1>4, <1>5, <2>1, <2>2, <2>3 DEF QuietOK
<1>. QED
  BY <1>3, <1>6, <1>7, <1>8, <1>9, <1>10 DEF IInv

\* Most pages ask for their first page only.
LEMMA OpensOne ==
    ASSUME ServerInit, tidy = TRUE, NEW v, StartOK(v), NEW fn \in Lists, NEW arg, ListOK(v.at, arg, server.was),
           v.at \in Pushing => arg.era = v.era, Opens(v, <<Request(fn, "list", arg, <<>>)>>)
    PROVE  IInv
<1>1. FirstOK(v, Request(fn, "list", arg, <<>>))
  BY FirstList
<1>. QED
  BY <1>1, OpensInv

LEMMA DefaultOK ==
    ASSUME NEW at \in Defaults, NEW arg, arg.p \in Nat, arg.goto \in Nat
    PROVE  ListOK(at, arg, server.was)
  BY Kinds DEF ListOK

LEMMA AirOK ==
    ASSUME NEW at \in Airs, NEW arg, arg.p \in Nat, at \in Splicing => arg.size \in Nat
    PROVE  ListOK(at, arg, server.was)
  BY Kinds DEF ListOK

LEMMA PlainFields ==
    ASSUME NEW at
    PROVE  /\ Plain(at).at = at /\ Plain(at).rows = <<>> /\ Plain(at).page = 1
           /\ DOMAIN Plain(at) = {"at", "rows", "loading", "page", "keyword", "searching"}
           /\ AirPlain(at).at = at /\ AirPlain(at).rows = <<>> /\ AirPlain(at).page = 1
           /\ AirPlain(at).size = PageSize
           /\ DOMAIN AirPlain(at) = {"at", "rows", "loading", "page", "keyword", "searching", "size", "count"}
           /\ BerryPlain(at).at = at /\ BerryPlain(at).rows = <<>> /\ BerryPlain(at).page = 0
           /\ BerryPlain(at).switch = <<>>
           /\ DOMAIN BerryPlain(at) = {"at", "rows", "loading", "page", "keyword", "searching", "switch"}
  BY DEF Plain, AirPlain, BerryPlain

\* A page with other fields besides.
LEMMA WithStart ==
    ASSUME NEW v, NEW s, "at" \in DOMAIN v, "rows" \in DOMAIN v, "page" \in DOMAIN v
    PROVE  /\ With(v, s).at = v.at /\ With(v, s).rows = v.rows /\ With(v, s).page = v.page
           /\ "at" \in DOMAIN With(v, s) /\ "rows" \in DOMAIN With(v, s) /\ "page" \in DOMAIN With(v, s)
           /\ "size" \in DOMAIN v => "size" \in DOMAIN With(v, s) /\ With(v, s).size = v.size
           /\ "switch" \in DOMAIN v => "switch" \in DOMAIN With(v, s) /\ With(v, s).switch = v.switch
           /\ "era" \in DOMAIN s /\ "era" \notin DOMAIN v => "era" \in DOMAIN With(v, s) /\ With(v, s).era = s.era
<1>1. DOMAIN With(v, s) = DOMAIN v \cup DOMAIN s
  BY WithBoth
<1>2. \A x \in DOMAIN v : With(v, s)[x] = v[x]
  BY WithOld
<1>3. \A x \in DOMAIN s : x \notin DOMAIN v => With(v, s)[x] = s[x]
  BY WithNew
<1>. QED
  BY <1>1, <1>2, <1>3

LEMMA DefaultStart ==
    ASSUME NEW at \in Defaults, NEW v, "at" \in DOMAIN v, "rows" \in DOMAIN v, "page" \in DOMAIN v,
           v.at = at, v.rows = <<>>, v.page = 1, at \in Pushing => "era" \in DOMAIN v
    PROVE  StartOK(v)
<1>1. at \notin Airs /\ at \notin Berries
  BY Kinds
<1>2. v.page \in Nat /\ v.page # 0
  OBVIOUS
<1>. QED
  BY <1>1, <1>2 DEF StartOK

LEMMA AirStart ==
    ASSUME NEW at \in Airs, NEW v, "at" \in DOMAIN v, "rows" \in DOMAIN v, "page" \in DOMAIN v, "size" \in DOMAIN v,
           v.at = at, v.rows = <<>>, v.page = 1, v.size \in {PageSize, 2 * PageSize},
           at \in Pushing => "era" \in DOMAIN v
    PROVE  StartOK(v)
<1>1. at \notin Defaults /\ at \notin Berries
  BY Kinds
<1>2. v.page \in Nat /\ v.page # 0
  OBVIOUS
<1>3. v.size \in Nat \ {0}
  BY IdsAreNumbers
<1>. QED
  BY <1>1, <1>2, <1>3 DEF StartOK

LEMMA BerryStart ==
    ASSUME NEW at \in Berries, NEW v, "at" \in DOMAIN v, "rows" \in DOMAIN v, "page" \in DOMAIN v,
           "switch" \in DOMAIN v, v.at = at, v.rows = <<>>, v.page = 0, v.switch = <<>>
    PROVE  StartOK(v)
<1>1. at \notin Defaults /\ at \notin Airs /\ at \notin Pushing
  BY Kinds
<1>2. v.page \in Nat
  OBVIOUS
<1>. QED
  BY <1>1, <1>2 DEF StartOK

\* The first request of a table of default.
LEMMA DefaultOpens ==
    ASSUME ServerInit, tidy = TRUE, NEW v, StartOK(v), v.at \in Defaults, v.at \notin Pushing, NEW fn \in Lists,
           Opens(v, First(fn))
    PROVE  IInv
<1>1. Page(0).p = 0 /\ Page(0).goto = 0 /\ 0 \in Nat
  BY PageFields
<1>2. ListOK(v.at, Page(0), server.was)
  BY <1>1, DefaultOK
<1>3. Opens(v, <<Request(fn, "list", Page(0), <<>>)>>)
  BY DEF First
<1>. QED
  BY <1>2, <1>3, OpensOne

LEMMA TokensOpens == ASSUME ServerInit, tidy = TRUE, TokensInit PROVE IInv
<1>. DEFINE v == Plain("default.Tokens")
<1>1. "default.Tokens" \in Defaults /\ "default.Tokens" \notin Pushing /\ "loadTokens" \in Lists
  BY DEF Defaults, Pushing, Lists
<1>2. /\ v.at = "default.Tokens" /\ v.rows = <<>> /\ v.page = 1
      /\ "at" \in DOMAIN v /\ "rows" \in DOMAIN v /\ "page" \in DOMAIN v
  BY PlainFields
<1>3. Opens(v, First("loadTokens"))
  BY DEF TokensInit
<1>. HIDE DEF v
<1>4. StartOK(v)
  BY <1>1, <1>2, DefaultStart
<1>. QED
  BY <1>1, <1>2, <1>3, <1>4, DefaultOpens

LEMMA ChannelsOpens == ASSUME ServerInit, tidy = TRUE, ChannelsInit PROVE IInv
<1>. DEFINE v == Plain("default.Channels")
<1>1. "default.Channels" \in Defaults /\ "default.Channels" \notin Pushing /\ "loadChannels" \in Lists
  BY DEF Defaults, Pushing, Lists
<1>2. /\ v.at = "default.Channels" /\ v.rows = <<>> /\ v.page = 1
      /\ "at" \in DOMAIN v /\ "rows" \in DOMAIN v /\ "page" \in DOMAIN v
  BY PlainFields
<1>3. Opens(v, First("loadChannels"))
  BY DEF ChannelsInit
<1>. HIDE DEF v
<1>4. StartOK(v)
  BY <1>1, <1>2, DefaultStart
<1>. QED
  BY <1>1, <1>2, <1>3, <1>4, DefaultOpens

LEMMA UsersOpens == ASSUME ServerInit, tidy = TRUE, UsersInit PROVE IInv
<1>. DEFINE u == Plain("default.Users")
            s == [orderBy |-> ""]
            t == [hasMore |-> FALSE]
            w == With(u, s)
            v == With(w, t)
<1>1. "default.Users" \in Defaults /\ "default.Users" \notin Pushing /\ "loadUsers" \in Lists
  BY DEF Defaults, Pushing, Lists
<1>2. /\ u.at = "default.Users" /\ u.rows = <<>> /\ u.page = 1
      /\ "at" \in DOMAIN u /\ "rows" \in DOMAIN u /\ "page" \in DOMAIN u
  BY PlainFields
<1>3. Opens(v, First("loadUsers"))
  BY DEF UsersInit
<1>. HIDE DEF u, s, t
<1>4. /\ w.at = "default.Users" /\ w.rows = <<>> /\ w.page = 1
      /\ "at" \in DOMAIN w /\ "rows" \in DOMAIN w /\ "page" \in DOMAIN w
  BY <1>2, WithStart
<1>. HIDE DEF w
<1>5. /\ v.at = "default.Users" /\ v.rows = <<>> /\ v.page = 1
      /\ "at" \in DOMAIN v /\ "rows" \in DOMAIN v /\ "page" \in DOMAIN v
  BY <1>4, WithStart
<1>. HIDE DEF v
<1>6. StartOK(v)
  BY <1>1, <1>5, DefaultStart
<1>. QED
  BY <1>1, <1>3, <1>5, <1>6, DefaultOpens

LEMMA LogsOpens == ASSUME ServerInit, tidy = TRUE, LogsInit PROVE IInv
<1>1. PICK admin \in BOOLEAN :
         Opens(With(Plain("default.Logs"), [showStat |-> FALSE, logType |-> 0, some |-> FALSE, admin |-> admin]),
               First("loadLogs"))
  BY DEF LogsInit
<1>. DEFINE u == Plain("default.Logs")
            s == [showStat |-> FALSE, logType |-> 0, some |-> FALSE, admin |-> admin]
            v == With(u, s)
<1>2. "default.Logs" \in Defaults /\ "default.Logs" \notin Pushing /\ "loadLogs" \in Lists
  BY DEF Defaults, Pushing, Lists
<1>3. /\ u.at = "default.Logs" /\ u.rows = <<>> /\ u.page = 1
      /\ "at" \in DOMAIN u /\ "rows" \in DOMAIN u /\ "page" \in DOMAIN u
  BY PlainFields
<1>4. Opens(v, First("loadLogs"))
  BY <1>1
<1>. HIDE DEF u, s
<1>5. /\ v.at = "default.Logs" /\ v.rows = <<>> /\ v.page = 1
      /\ "at" \in DOMAIN v /\ "rows" \in DOMAIN v /\ "page" \in DOMAIN v
  BY <1>3, WithStart
<1>. HIDE DEF v
<1>6. StartOK(v)
  BY <1>2, <1>5, DefaultStart
<1>. QED
  BY <1>2, <1>4, <1>5, <1>6, DefaultOpens

LEMMA RedemptionsOpens == ASSUME ServerInit, tidy = TRUE, RedemptionsInit PROVE IInv
<1>. DEFINE u == Plain("default.Redemptions")
            s == [era |-> 0]
            v == With(u, s)
            r == Page(0)
            arg == With(r, s)
<1>1. "default.Redemptions" \in Defaults /\ "loadRedemptions" \in Lists
  BY DEF Defaults, Lists
<1>2. /\ u.at = "default.Redemptions" /\ u.rows = <<>> /\ u.page = 1
      /\ "at" \in DOMAIN u /\ "rows" \in DOMAIN u /\ "page" \in DOMAIN u
  BY PlainFields
<1>3. "era" \notin DOMAIN u
  BY PlainFields
<1>4. "era" \in DOMAIN s /\ s.era = 0
  OBVIOUS
<1>5. /\ r.p = 0 /\ r.goto = 0 /\ 0 \in Nat
      /\ "p" \in DOMAIN r /\ "goto" \in DOMAIN r /\ "era" \notin DOMAIN r
  BY DEF Page
<1>6. Opens(v, <<Request("loadRedemptions", "list", arg, <<>>)>>)
  BY DEF RedemptionsInit
<1>. HIDE DEF u, s, r
<1>7. /\ v.at = "default.Redemptions" /\ v.rows = <<>> /\ v.page = 1
      /\ "at" \in DOMAIN v /\ "rows" \in DOMAIN v /\ "page" \in DOMAIN v
  BY <1>2, WithStart
<1>8. "era" \in DOMAIN v /\ v.era = 0
  BY <1>2, <1>3, <1>4, WithStart
<1>9. arg.p = 0 /\ arg.goto = 0 /\ arg.era = 0
  BY <1>4, <1>5, WithOld, WithNew
<1>. HIDE DEF v, arg
<1>10. StartOK(v)
  BY <1>1, <1>7, <1>8, DefaultStart
<1>11. ListOK(v.at, arg, server.was)
  BY <1>1, <1>5, <1>7, <1>9, DefaultOK
<1>. QED
  BY <1>1, <1>6, <1>8, <1>9, <1>10, <1>11, OpensOne

LEMMA airTokensOpens == ASSUME ServerInit, tidy = TRUE, airTokensInit PROVE IInv
<1>. DEFINE u == AirPlain("air.Tokens")
            s == [orderBy |-> ""]
            v == With(u, s)
            r == AirPage(0, "", 0)
            t == [size |-> PageSize, blank |-> FALSE]
            arg == With(r, t)
<1>1. "air.Tokens" \in Airs /\ "air.Tokens" \notin Pushing /\ "airLoadTokens" \in Lists
  BY DEF Airs, Pushing, Lists
<1>2. /\ u.at = "air.Tokens" /\ u.rows = <<>> /\ u.page = 1 /\ u.size = PageSize
      /\ "at" \in DOMAIN u /\ "rows" \in DOMAIN u /\ "page" \in DOMAIN u /\ "size" \in DOMAIN u
  BY PlainFields
<1>3. Opens(v, <<Request("airLoadTokens", "list", arg, <<>>)>>)
  BY DEF airTokensInit
<1>4. r.p = 0 /\ "p" \in DOMAIN r /\ "size" \notin DOMAIN r
  BY DEF AirPage
<1>5. "size" \in DOMAIN t /\ t.size = PageSize
  OBVIOUS
<1>. HIDE DEF u, s, r, t
<1>6. /\ v.at = "air.Tokens" /\ v.rows = <<>> /\ v.page = 1 /\ v.size = PageSize
      /\ "at" \in DOMAIN v /\ "rows" \in DOMAIN v /\ "page" \in DOMAIN v /\ "size" \in DOMAIN v
  BY <1>2, WithStart
<1>7. arg.p = 0 /\ arg.size = PageSize
  BY <1>4, <1>5, SizedFields
<1>. HIDE DEF v, arg
<1>8. StartOK(v)
  BY <1>1, <1>6, AirStart
<1>9. 0 \in Nat /\ PageSize \in Nat
  BY IdsAreNumbers
<1>10. ListOK(v.at, arg, server.was)
  BY <1>1, <1>6, <1>7, <1>9, AirOK
<1>. QED
  BY <1>1, <1>3, <1>6, <1>8, <1>10, OpensOne

\* The tables of redemption codes and of accounts in air.
LEMMA PushingOpens ==
    ASSUME ServerInit, tidy = TRUE, NEW at \in {"air.Redemptions", "air.Users"}, NEW fn \in Lists,
           NEW s, "era" \in DOMAIN s, s.era = 0, NEW t, "era" \in DOMAIN t, t.era = 0,
           Opens(With(AirPlain(at), s), <<Request(fn, "list", With(AirPage(0, "", 0), t), <<>>)>>)
    PROVE  IInv
<1>. DEFINE u == AirPlain(at)
            v == With(u, s)
            r == AirPage(0, "", 0)
            arg == With(r, t)
<1>1. at \in Airs /\ at \in Pushing /\ at \notin Splicing
  BY DEF Airs, Pushing, Splicing
<1>2. /\ u.at = at /\ u.rows = <<>> /\ u.page = 1 /\ u.size = PageSize
      /\ "at" \in DOMAIN u /\ "rows" \in DOMAIN u /\ "page" \in DOMAIN u /\ "size" \in DOMAIN u
  BY PlainFields
<1>3. "era" \notin DOMAIN u
  BY DEF AirPlain
<1>4. r.p = 0 /\ "p" \in DOMAIN r /\ "era" \notin DOMAIN r
  BY DEF AirPage
<1>5. Opens(v, <<Request(fn, "list", arg, <<>>)>>)
  OBVIOUS
<1>. HIDE DEF u, r
<1>6. /\ v.at = at /\ v.rows = <<>> /\ v.page = 1 /\ v.size = PageSize
      /\ "at" \in DOMAIN v /\ "rows" \in DOMAIN v /\ "page" \in DOMAIN v /\ "size" \in DOMAIN v
  BY <1>2, WithStart
<1>7. "era" \in DOMAIN v /\ v.era = 0
  BY <1>2, <1>3, WithStart
<1>8. arg.p = 0 /\ arg.era = 0
  <2>1. arg.p = r.p
    BY <1>4, WithOld
  <2>a. "era" \in DOMAIN t /\ "era" \notin DOMAIN r
    BY <1>4
  <2>2. With(r, t)["era"] = t["era"]
    BY <2>a, WithNew
  <2>. QED
    BY <1>4, <2>1, <2>2
<1>. HIDE DEF v, arg
<1>9. StartOK(v)
  BY <1>1, <1>6, <1>7, AirStart
<1>10. 0 \in Nat
  OBVIOUS
<1>11. ListOK(v.at, arg, server.was)
  BY <1>1, <1>6, <1>8, <1>10, AirOK
<1>. QED
  BY <1>5, <1>7, <1>8, <1>9, <1>11, OpensOne

LEMMA airRedemptionsOpens == ASSUME ServerInit, tidy = TRUE, airRedemptionsInit PROVE IInv
<1>. DEFINE s == [era |-> 0]
            t == [era |-> 0, page |-> 1, blank |-> FALSE]
<1>1. "era" \in DOMAIN s /\ s.era = 0 /\ "era" \in DOMAIN t /\ t.era = 0
  OBVIOUS
<1>2. "airLoadRedemptions" \in Lists
  BY DEF Lists
<1>3. Opens(With(AirPlain("air.Redemptions"), s),
            <<Request("airLoadRedemptions", "list", With(AirPage(0, "", 0), t), <<>>)>>)
  BY DEF airRedemptionsInit
<1>. HIDE DEF s, t
<1>. QED
  BY <1>1, <1>2, <1>3, PushingOpens

LEMMA airUsersOpens == ASSUME ServerInit, tidy = TRUE, airUsersInit PROVE IInv
<1>. DEFINE s == [era |-> 0, orderBy |-> ""]
            t == [era |-> 0, page |-> 1, blank |-> FALSE]
<1>1. "era" \in DOMAIN s /\ s.era = 0 /\ "era" \in DOMAIN t /\ t.era = 0
  OBVIOUS
<1>2. "airLoadUsers" \in Lists
  BY DEF Lists
<1>3. Opens(With(AirPlain("air.Users"), s), <<Request("airLoadUsers", "list", With(AirPage(0, "", 0), t), <<>>)>>)
  BY DEF airUsersInit
<1>. HIDE DEF s, t
<1>. QED
  BY <1>1, <1>2, <1>3, PushingOpens

LEMMA airChannelsOpens == ASSUME ServerInit, tidy = TRUE, airChannelsInit PROVE IInv
<1>1. PICK size \in {PageSize, 2 * PageSize} :
         Opens([AirPlain("air.Channels") EXCEPT !.size = size],
               <<Request("airLoadChannels", "list",
                         With(ChannelsRequest(0, size), [count |-> PageSize, blank |-> FALSE]), <<>>),
                 Request("airFetchGroups", "tell", <<>>, <<>>)>>)
  BY DEF airChannelsInit
<1>. DEFINE u == AirPlain("air.Channels")
            v == [u EXCEPT !.size = size]
            more == [count |-> PageSize, blank |-> FALSE]
            arg == With(ChannelsRequest(0, size), more)
            a == Request("airLoadChannels", "list", arg, <<>>)
            b == Request("airFetchGroups", "tell", <<>>, <<>>)
<1>2. /\ "air.Channels" \in Airs /\ "air.Channels" \notin Pushing /\ "airLoadChannels" \in Lists
      /\ "airFetchGroups" \in Telling
  BY DEF Airs, Pushing, Lists, Telling
<1>3. /\ u.at = "air.Channels" /\ u.rows = <<>> /\ u.page = 1
      /\ "at" \in DOMAIN u /\ "rows" \in DOMAIN u /\ "page" \in DOMAIN u /\ "size" \in DOMAIN u
  BY PlainFields
<1>4. Opens(v, <<a, b>>)
  BY <1>1
<1>. HIDE DEF u, more
<1>5. /\ v.at = "air.Channels" /\ v.rows = <<>> /\ v.page = 1 /\ v.size = size
      /\ "at" \in DOMAIN v /\ "rows" \in DOMAIN v /\ "page" \in DOMAIN v /\ "size" \in DOMAIN v
  BY <1>3
<1>6. arg.p = 0 /\ arg.size = size
  BY CountedFields
<1>. HIDE DEF v, arg
<1>7. StartOK(v)
  BY <1>2, <1>5, AirStart
<1>8. 0 \in Nat /\ size \in Nat
  BY IdsAreNumbers
<1>9. ListOK(v.at, arg, server.was)
  BY <1>2, <1>5, <1>6, <1>8, AirOK
<1>10. FirstOK(v, a)
  BY <1>2, <1>5, <1>9, FirstList
<1>11. FirstOK(v, b) /\ b.req = "tell"
  BY <1>2, <1>5, FirstTell, RequestFields
<1>. HIDE DEF a, b
<1>. QED
  BY <1>4, <1>7, <1>10, <1>11, OpensInv

LEMMA airLogsOpens == ASSUME ServerInit, tidy = TRUE, airLogsInit PROVE IInv
<1>1. PICK size \in {PageSize, 2 * PageSize} : \E admin \in BOOLEAN :
         Opens(With([AirPlain("air.Logs") EXCEPT !.size = size],
                    [showStat |-> FALSE, logType |-> 0, some |-> FALSE, admin |-> admin]),
               <<Request("airLoadLogs", "list", ChannelsRequest(0, size), <<>>)>>)
  BY DEF airLogsInit
<1>2. PICK admin \in BOOLEAN :
         Opens(With([AirPlain("air.Logs") EXCEPT !.size = size],
                    [showStat |-> FALSE, logType |-> 0, some |-> FALSE, admin |-> admin]),
               <<Request("airLoadLogs", "list", ChannelsRequest(0, size), <<>>)>>)
  BY <1>1
<1>. DEFINE u == AirPlain("air.Logs")
            w == [u EXCEPT !.size = size]
            s == [showStat |-> FALSE, logType |-> 0, some |-> FALSE, admin |-> admin]
            v == With(w, s)
            arg == ChannelsRequest(0, size)
<1>3. "air.Logs" \in Airs /\ "air.Logs" \notin Pushing /\ "airLoadLogs" \in Lists
  BY DEF Airs, Pushing, Lists
<1>4. /\ u.at = "air.Logs" /\ u.rows = <<>> /\ u.page = 1
      /\ "at" \in DOMAIN u /\ "rows" \in DOMAIN u /\ "page" \in DOMAIN u /\ "size" \in DOMAIN u
  BY PlainFields
<1>5. Opens(v, <<Request("airLoadLogs", "list", arg, <<>>)>>)
  BY <1>2
<1>6. arg.p = 0 /\ arg.size = size
  BY ChannelsFields
<1>. HIDE DEF u, s, arg
<1>7. /\ w.at = "air.Logs" /\ w.rows = <<>> /\ w.page = 1 /\ w.size = size
      /\ "at" \in DOMAIN w /\ "rows" \in DOMAIN w /\ "page" \in DOMAIN w /\ "size" \in DOMAIN w
  BY <1>4
<1>. HIDE DEF w
<1>8. /\ v.at = "air.Logs" /\ v.rows = <<>> /\ v.page = 1 /\ v.size = size
      /\ "at" \in DOMAIN v /\ "rows" \in DOMAIN v /\ "page" \in DOMAIN v /\ "size" \in DOMAIN v
  BY <1>7, WithStart
<1>. HIDE DEF v
<1>9. StartOK(v)
  BY <1>3, <1>8, AirStart
<1>10. 0 \in Nat /\ size \in Nat
  BY IdsAreNumbers
<1>11. ListOK(v.at, arg, server.was)
  BY <1>3, <1>6, <1>8, <1>10, AirOK
<1>. QED
  BY <1>3, <1>5, <1>8, <1>9, <1>11, OpensOne

\* The first request of every table of berry.
LEMMA BerryFirstOK ==
    ASSUME NEW v, v.at \in Berries
    PROVE  FirstOK(v, BerryFirst)
<1>. DEFINE clear == FALSE
            arg == LoadOf(0, Stay, clear, NoSwitch)
<1>1. BerryFirst = Request("berryLoad", "list", arg, <<>>)
  BY DEF BerryFirst, Load
<1>. HIDE DEF clear
<1>2. arg.p = 0 /\ arg.goto = Stay /\ arg.sw = NoSwitch
  BY LoadFields
<1>. HIDE DEF arg
<1>3. arg.p \in Nat /\ arg.goto \in Nat \cup {Stay} /\ SwitchSays(arg.sw)
  <2>1. SwitchSays(arg.sw)
    BY <1>2, NoSwitchSays
  <2>. QED
    BY <1>2, <2>1
<1>4. v.at \notin Defaults /\ v.at \notin Splicing /\ v.at \notin Pushing
  BY Kinds
<1>5. ListOK(v.at, arg, server.was)
  BY <1>3, <1>4 DEF ListOK, SwitchSays
<1>6. "berryLoad" \in Lists
  BY DEF Lists
<1>. QED
  BY <1>1, <1>4, <1>5, <1>6, FirstList

LEMMA BerryOpens ==
    ASSUME ServerInit, tidy = TRUE, NEW at \in Berries, NEW first, Opens(BerryPlain(at), first),
           first = <<BerryFirst>>
    PROVE  IInv
<1>. DEFINE v == BerryPlain(at)
<1>1. Opens(v, first)
  OBVIOUS
<1>2. /\ v.at = at /\ v.rows = <<>> /\ v.page = 0 /\ v.switch = <<>>
      /\ "at" \in DOMAIN v /\ "rows" \in DOMAIN v /\ "page" \in DOMAIN v /\ "switch" \in DOMAIN v
  BY PlainFields
<1>. HIDE DEF v
<1>3. StartOK(v) /\ FirstOK(v, BerryFirst)
  BY <1>2, BerryStart, BerryFirstOK
<1>. QED
  BY <1>1, <1>3, OpensInv

LEMMA berryLogsOpens == ASSUME ServerInit, tidy = TRUE, berryLogsInit PROVE IInv
<1>. DEFINE u == BerryPlain("berry.Logs")
            s == [type |-> 0, some |-> FALSE]
            v == With(u, s)
<1>1. "berry.Logs" \in Berries
  BY DEF Berries
<1>2. /\ u.at = "berry.Logs" /\ u.rows = <<>> /\ u.page = 0 /\ u.switch = <<>>
      /\ "at" \in DOMAIN u /\ "rows" \in DOMAIN u /\ "page" \in DOMAIN u /\ "switch" \in DOMAIN u
  BY PlainFields
<1>3. Opens(v, <<BerryFirst, BerryFirst>>)
  BY DEF berryLogsInit
<1>. HIDE DEF u, s
<1>4. /\ v.at = "berry.Logs" /\ v.rows = <<>> /\ v.page = 0 /\ v.switch = <<>>
      /\ "at" \in DOMAIN v /\ "rows" \in DOMAIN v /\ "page" \in DOMAIN v /\ "switch" \in DOMAIN v
  BY <1>2, WithStart
<1>. HIDE DEF v
<1>5. StartOK(v) /\ FirstOK(v, BerryFirst)
  BY <1>1, <1>4, BerryStart, BerryFirstOK
<1>. QED
  BY <1>1, <1>3, <1>4, <1>5, OpensInv

LEMMA InitInv == Init => IInv
<1>. SUFFICES ASSUME Init PROVE IInv
  OBVIOUS
<1>1. ServerInit /\ tidy = TRUE
  BY DEF Init
<1>2. CASE berryChannelsInit \/ berryTokensInit \/ berryUsersInit \/ berryRedemptionsInit
  <2>1. PICK at \in {"berry.Channels", "berry.Tokens", "berry.Users", "berry.Redemptions"} :
           Opens(BerryPlain(at), <<BerryFirst>>)
    BY <1>2 DEF berryChannelsInit, berryTokensInit, berryUsersInit, berryRedemptionsInit
  <2>2. at \in Berries
    BY DEF Berries
  <2>. QED
    BY <1>1, <2>1, <2>2, BerryOpens
<1>. QED
  BY <1>1, <1>2, TokensOpens, UsersOpens, RedemptionsOpens, ChannelsOpens, LogsOpens, airTokensOpens,
     airRedemptionsOpens, airUsersOpens, airChannelsOpens, airLogsOpens, berryLogsOpens DEF Init

----------------------------------------------------------------------------
(***************************************************************************)
(* Every step keeps the invariant, and what the invariant says of the page. *)
(***************************************************************************)
LEMMA NextInv == IInv /\ [Next]_allVars => IInv'
<1>. SUFFICES ASSUME IInv, [Next]_allVars PROVE IInv'
  OBVIOUS
<1>1. CASE Next
  <2>1. Moved /\ Moves
    BY <1>1 DEF Next, Moved
  <2>. QED
    BY <2>1, ServeKeeps, ElsewhereKeeps, TokensKeep, UsersKeep, RedemptionsKeep, ChannelsKeep, LogsKeep,
       airTokensKeep, airRedemptionsKeep, airUsersKeep, airChannelsKeep, airLogsKeep, berryChannelsKeep,
       berryTokensKeep, berryUsersKeep, berryRedemptionsKeep, berryLogsKeep DEF Moves
<1>2. CASE UNCHANGED allVars
  <2>1. UNCHANGED <<view, net, server, calls, history, tidy>>
    BY <1>2 DEF allVars, vars
  <2>2. PageOK(view, server.was)' /\ ServerOK' /\ CountOK'
    BY <2>1 DEF IInv, PageOK, SwitchOK, Past, Row, Distinct, ServerOK, CountOK
  <2>3. RequestsOK'
    <3>1. SUFFICES ASSUME NEW n \in DOMAIN net'
                   PROVE  AskOK(view'.at, net'[n], server'.was) /\ AnswerOK(net'[n], server'.was)
      BY DEF RequestsOK
    <3>2. n \in DOMAIN net
      BY <2>1
    <3>3. AskOK(view.at, net[n], server.was) /\ AnswerOK(net[n], server.was)
      BY <3>2, RequestFacts
    <3>. QED
      BY <2>1, <3>3
  <2>4. EraOK'
    BY <2>1 DEF IInv, EraOK, Holds
  <2>5. QuietOK'
    BY <2>1 DEF IInv, QuietOK, Quiet, Berry, NoRowTwice, TrueRow, Tells
  <2>. QED
    BY <2>2, <2>3, <2>4, <2>5 DEF IInv
<1>. QED
  BY <1>1, <1>2

LEMMA ShownIsPast == IInv => RowsShowThePast
<1>. SUFFICES ASSUME IInv PROVE RowsShowThePast
  OBVIOUS
<1>1. ASSUME NEW i \in DOMAIN view.rows
      PROVE  /\ view.rows[i].st \in server.was[view.rows[i].id]
             /\ view.rows[i].del => None \in server.was[view.rows[i].id]
  BY ViewRow DEF Past
<1>2. ASSUME Berry, NEW id \in DOMAIN view.switch PROVE view.switch[id].st \in server.was[id]
  BY <1>2, Kinds, BerryView DEF SwitchOK
<1>. QED
  BY <1>1, <1>2 DEF RowsShowThePast

LEMMA ShownIsTrue == IInv => WhatIsShownIsTrue
<1>. SUFFICES ASSUME IInv, ~Berry, tidy, history.alone, history.faults = 0, net = <<>>,
                     NEW i \in DOMAIN view.rows
              PROVE  view.rows[i].del \/ server.rows[view.rows[i].id] = view.rows[i].st
  BY DEF WhatIsShownIsTrue
<1>1. Quiet /\ DOMAIN net = {}
  BY DEF Quiet
<1>2. TrueRow(view.rows[i])
  BY <1>1 DEF IInv, QuietOK
<1>. QED
  BY <1>2 DEF TrueRow

LEMMA ShownOnce == IInv => NoUserTwice
  BY ViewFacts DEF NoUserTwice, NoRowTwice, Distinct

\* The strengthening that every step of every table keeps: what the lists of the
\* page and of the closures hold, what each request was sent and answered with,
\* which closures share an array, and what is still to be told in quiet times.
THEOREM Lists_are_sound == Spec => []IInv
  BY InitInv, NextInv, PTL DEF Spec

\* Whatever loads, searches, sorts, deletions and changes by others came in
\* between, in whatever number: a table shows of a row, and a switch of berry of
\* its row, a status that this very row once had (loadTokens, manageToken and
\* their like in the fifteen tables).
THEOREM Rows_show_the_past == Spec => []RowsShowThePast
  BY Lists_are_sound, ShownIsPast, PTL

\* A reader of default or air who waits for every answer, whom nobody disturbs,
\* and whose list never held a row twice nor was purged, sees the truth at rest,
\* however many rows, pages and clicks there were.
THEOREM What_is_shown_is_true == Spec => []WhatIsShownIsTrue
  BY Lists_are_sound, ShownIsTrue, PTL

\* The accounts table of default never shows an account twice, however many
\* pages are appended while others add and delete accounts (loadUsers).
THEOREM No_user_twice == Spec => []NoUserTwice
  BY Lists_are_sound, ShownOnce, PTL
=============================================================================
