-------------------------- MODULE RelayRetry_proofs --------------------------
(***************************************************************************)
(* Proofs about the routing of requests: for any number of channels,       *)
(* requests, administrators, changes and faults, the abilities follow the  *)
(* channels, the copy is of its synchronisation, retries move on, and a    *)
(* channel is disabled for errors of its own.                              *)
(***************************************************************************)
EXTENDS RelayRetry, FiniteSetTheorems, TLAPS

(***************************************************************************)
(* The invariant of the routing part.                                      *)
(***************************************************************************)
On(status) == IF status = "enabled" THEN "on" ELSE "off"
Follows(r, a) == r.status \in Gone \/ a = [state |-> On(r.status), prio |-> r.prio]

\* What holds of channel c while worker w is at it: r is the row, a the ability and t
\* whether the changes of c are tangled.
Phase(j, r, a, t) ==
    /\ ~t /\ j.at \in FirstStatements \cup {"idle", "mark"} => Follows(r, a)
    /\ j.alone /\ j.at \in {"clear", "add"} => r.status \in Gone \/ (j.to = r.status /\ j.prio = r.prio)
    /\ ~t /\ j.at = "status" => r.status \in Gone \/ a = [state |-> On(j.to), prio |-> r.prio]
    /\ ~t /\ j.at = "unlist" => r.status \in Gone

JobOK(j) ==
    /\ j.at = "idle" => j = NoJob
    /\ j.at # "idle" => j.ch \in Channels
    /\ j.at \in {"mark", "status"} => j.to \in {"enabled", "auto"}
    /\ j.at = "insert" => j.to = "enabled" /\ j.prio \in Prios

Jobs_are_ok == \A w \in Workers : JobOK(job[w])
\* A worker that believes to be alone at a channel is.
Alone_is_alone == \A v, w \in Workers : job[w].alone /\ job[v].ch = job[w].ch => v = w
\* The changes of a channel that are not tangled are undisturbed.
Untangled == \A w \in Workers : job[w].ch \in Channels /\ ~tangled[job[w].ch] => job[w].alone
Rest == \A c \in Channels : ~Busy(c) /\ ~tangled[c] => Follows(row[c], ability[c])
Phases == \A w \in Workers : job[w].ch \in Channels =>
              Phase(job[w], row[job[w].ch], ability[job[w].ch], tangled[job[w].ch])

Routes == Jobs_are_ok /\ Alone_is_alone /\ Untangled /\ Rest /\ Phases

(***************************************************************************)
(* The invariant of the requests, of the workers they leave behind, and of *)
(* the copy.                                                               *)
(***************************************************************************)
CallOK(v) ==
    /\ v.at \in {"idle", "load"} => v.tried = <<>> /\ v.want = None /\ v.left = 0
    /\ v.at \in {"load", "relay", "reload"} => v.ch \in Channels
    /\ v.at \in {"relay", "loop", "reload"} => Len(v.tried) >= 1
    /\ v.at = "relay" => v.ch = v.tried[Len(v.tried)]
    /\ v.at \in {"loop", "reload"} => v.lastFailedChannelId = v.tried[Len(v.tried)]
    /\ v.at = "reload" => v.left > 0
    /\ Len(v.tried) + v.left <= RetryTimes + 1
    /\ \A i \in 1..Len(v.tried) - 1 : v.tried[i] # v.tried[i + 1]
    /\ v.want # None => v.left = 0 /\ Len(v.tried) <= 1 /\ \A i \in 1..Len(v.tried) : v.tried[i] = v.want

Requests == \A k \in Calls : CallOK(call[k])

Copies ==
    /\ \A c \in Channels : cached => copy[c] \in was[c]
    /\ \A c \in Channels : sync.step = "read" => sync.seen[c] \in sync.was[c]

IInv == TypeOK /\ Routes /\ Requests /\ Copies /\ DisabledForItsOwnErrors

(***************************************************************************)
(* What changes the routing part.                                          *)
(***************************************************************************)
\* A worker without a job is alone nowhere, and one with a job is at a channel.
LEMMA Job_facts ==
  ASSUME RoutingTypeOK, Routes, NEW w \in Workers
  PROVE  /\ job[w].alone => job[w].ch \in Channels
         /\ job[w].ch = None => job[w] = NoJob
         /\ job[w].ch # None => job[w].ch \in Channels /\ job[w].at # "idle"
<1>1. job[w] \in Jobs /\ JobOK(job[w])
  BY DEF RoutingTypeOK, Routes, Jobs_are_ok
<1>2. NoJob.ch = None /\ NoJob.alone = FALSE
  BY DEF NoJob
<1>3. job[w].alone \in BOOLEAN /\ None \notin Channels
  BY <1>1, RoutingAssumption DEF Jobs
<1>4. CASE job[w].at = "idle"
  BY <1>1, <1>2, <1>4 DEF JobOK
<1>5. CASE job[w].at # "idle"
  BY <1>1, <1>3, <1>5 DEF JobOK
<1>. QED
  BY <1>4, <1>5

\* A statement of worker w on its channel c leaves w with job j, the channel with row r and
\* ability a, and its changes tangled or not (t).
Leaves(w, c, j, r, a, t) ==
    /\ job' = [job EXCEPT ![w] = j] /\ row' = [row EXCEPT ![c] = r]
    /\ ability' = [ability EXCEPT ![c] = a] /\ tangled' = [tangled EXCEPT ![c] = t]
Fits(w, c, j, t) ==
    /\ job[w].ch = c
    /\ j = NoJob \/ (j.ch = c /\ j.at # "idle")
    /\ JobOK(j) /\ j.alone \in BOOLEAN
    /\ j.alone => job[w].alone
    /\ ~t => job[w].alone
    /\ ~t /\ j # NoJob => j.alone

LEMMA Statement_keeps ==
  ASSUME RoutingTypeOK, Routes, NEW w \in Workers, NEW c \in Channels,
         NEW j, NEW r, NEW a, NEW t \in BOOLEAN,
         Leaves(w, c, j, r, a, t), Fits(w, c, j, t), Phase(j, r, a, t)
  PROVE  Routes'
<1>. USE DEF Fits
<1>a. /\ DOMAIN job = Workers /\ DOMAIN row = Channels
      /\ DOMAIN ability = Channels /\ DOMAIN tangled = Channels
      /\ \A v \in Workers : job[v].alone \in BOOLEAN
  BY DEF RoutingTypeOK, Jobs
<1>b. /\ job'[w] = j /\ \A v \in Workers \ {w} : job'[v] = job[v]
      /\ row'[c] = r /\ ability'[c] = a /\ tangled'[c] = t
      /\ \A d \in Channels \ {c} : row'[d] = row[d] /\ ability'[d] = ability[d] /\ tangled'[d] = tangled[d]
  BY <1>a DEF Leaves
<1>c. NoJob.ch = None /\ NoJob.alone = FALSE /\ NoJob.at = "idle" /\ None \notin Channels
  BY RoutingAssumption DEF NoJob
<1>d. \A v \in Workers \ {w} : job[v].ch = c => ~job[v].alone /\ ~job[w].alone
  BY DEF Routes, Alone_is_alone
<1>e. \A v \in Workers : job[v].alone => job[v].ch \in Channels
  BY Job_facts
<1>1. Jobs_are_ok'
  BY <1>b DEF Routes, Jobs_are_ok, JobOK
<1>2. Alone_is_alone'
  <2>. SUFFICES ASSUME NEW v \in Workers, NEW u \in Workers, job'[u].alone, job'[v].ch = job'[u].ch
                PROVE  v = u
    BY DEF Alone_is_alone
  <2>1. CASE u = w
    BY <2>1, <1>b, <1>c, <1>d
  <2>2. CASE u # w /\ v = w
    BY <2>2, <1>b, <1>c, <1>d, <1>e
  <2>3. CASE u # w /\ v # w
    BY <2>3, <1>b DEF Routes, Alone_is_alone
  <2>. QED
    BY <2>1, <2>2, <2>3
<1>3. Untangled'
  <2>. SUFFICES ASSUME NEW v \in Workers, job'[v].ch \in Channels, ~tangled'[job'[v].ch]
                PROVE  job'[v].alone
    BY DEF Untangled
  <2>1. CASE v = w
    BY <2>1, <1>b, <1>c
  <2>2. CASE v # w /\ job[v].ch = c
    BY <2>2, <1>b, <1>d
  <2>3. CASE v # w /\ job[v].ch # c
    BY <2>3, <1>b DEF Routes, Untangled
  <2>. QED
    BY <2>1, <2>2, <2>3
<1>4. Rest'
  <2>. SUFFICES ASSUME NEW d \in Channels, ~(\E v \in Workers : job'[v].ch = d), ~tangled'[d]
                PROVE  Follows(row'[d], ability'[d])
    BY DEF Rest, Busy
  <2>1. CASE d = c
    <3>1. j = NoJob
      BY <2>1, <1>b
    <3>. QED
      BY <2>1, <3>1, <1>b, <1>c DEF Phase
  <2>2. CASE d # c
    <3>1. ~Busy(d)
      BY <2>2, <1>b DEF Busy
    <3>. QED
      BY <2>2, <3>1, <1>b DEF Routes, Rest
  <2>. QED
    BY <2>1, <2>2
<1>5. Phases'
  <2>. SUFFICES ASSUME NEW v \in Workers, job'[v].ch \in Channels
                PROVE  Phase(job'[v], row'[job'[v].ch], ability'[job'[v].ch], tangled'[job'[v].ch])
    BY DEF Phases
  <2>1. CASE v = w
    BY <2>1, <1>b, <1>c
  <2>2. CASE v # w /\ job[v].ch = c
    <3>1. ~job[v].alone /\ tangled'[c]
      BY <2>2, <1>b, <1>d
    <3>. QED
      BY <2>2, <3>1, <1>b DEF Phase
  <2>3. CASE v # w /\ job[v].ch # c
    BY <2>3, <1>b DEF Routes, Phases
  <2>. QED
    BY <2>1, <2>2, <2>3
<1>. QED
  BY <1>1, <1>2, <1>3, <1>4, <1>5 DEF Routes

\* Worker w begins to change channel c.
LEMMA Begins_keeps ==
  ASSUME RoutingTypeOK, Routes, NEW w \in Workers, NEW c \in Channels, NEW at, NEW to, NEW prio,
         Begins(w, c, at, to, prio), UNCHANGED <<row, ability>>,
         at \in {"write", "delete", "mark", "insert"}, to \in {"", "enabled", "manual", "auto"},
         prio \in Prios \cup {None},
         at = "mark" => to \in {"enabled", "auto"}, at = "insert" => to = "enabled" /\ prio \in Prios
  PROVE  Routes' /\ job' \in [Workers -> Jobs] /\ tangled' \in [Channels -> BOOLEAN]
<1> DEFINE j == [at |-> at, ch |-> c, to |-> to, prio |-> prio, alone |-> ~Busy(c)]
<1>a. /\ DOMAIN job = Workers /\ DOMAIN tangled = Channels /\ job[w] = NoJob
      /\ \A v \in Workers : job[v] \in Jobs
      /\ \A d \in Channels : tangled[d] \in BOOLEAN
  BY DEF RoutingTypeOK, Routes, Jobs_are_ok, JobOK, Begins
<1>b. /\ job'[w] = j
      /\ \A v \in Workers \ {w} : job[v].ch # c => job'[v] = job[v]
      /\ \A v \in Workers \ {w} : job[v].ch = c => job'[v] = [job[v] EXCEPT !.alone = FALSE]
      /\ tangled'[c] = (tangled[c] \/ Busy(c))
      /\ \A d \in Channels \ {c} : tangled'[d] = tangled[d]
      /\ row' = row /\ ability' = ability
  BY <1>a DEF Begins
<1>c. NoJob.ch = None /\ NoJob.alone = FALSE /\ NoJob.at = "idle" /\ None \notin Channels
  BY RoutingAssumption DEF NoJob
<1>d. \A v \in Workers \ {w} : job[v].ch = c => Busy(c) /\ tangled'[c] /\ ~job'[v].alone /\ job'[v].ch = c
                                                 /\ job'[v].at = job[v].at /\ job'[v].to = job[v].to
                                                 /\ job'[v].prio = job[v].prio
  <2>. SUFFICES ASSUME NEW v \in Workers \ {w}, job[v].ch = c
                PROVE  /\ Busy(c) /\ tangled'[c] /\ ~job'[v].alone /\ job'[v].ch = c
                       /\ job'[v].at = job[v].at /\ job'[v].to = job[v].to
                       /\ job'[v].prio = job[v].prio
    OBVIOUS
  <2>1. Busy(c)
    BY DEF Busy
  <2>2. tangled'[c]
    BY <2>1, <1>b
  <2>3. job[v] \in Jobs /\ job'[v] = [job[v] EXCEPT !.alone = FALSE]
    BY <1>a, <1>b
  <2>. QED
    BY <2>1, <2>2, <2>3 DEF Jobs
<1>e. j \in Jobs /\ j.ch = c /\ j.at = at /\ j.to = to /\ j.prio = prio /\ (j.alone <=> ~Busy(c))
  BY DEF Jobs, Busy
<1>f. \A v \in Workers : job[v].alone => job[v].ch \in Channels
  BY Job_facts
<1>. HIDE DEF j
<1>1. Jobs_are_ok'
  <2>. SUFFICES ASSUME NEW v \in Workers PROVE JobOK(job'[v])
    BY DEF Jobs_are_ok
  <2>0. JobOK(job[v])
    BY DEF Routes, Jobs_are_ok
  <2>1. CASE v = w
    BY <2>1, <1>b, <1>e DEF JobOK
  <2>2. CASE v # w /\ job[v].ch = c
    BY <2>0, <2>2, <1>c, <1>d DEF JobOK
  <2>3. CASE v # w /\ job[v].ch # c
    BY <2>0, <2>3, <1>b
  <2>. QED
    BY <2>1, <2>2, <2>3
<1>2. Alone_is_alone'
  <2>. SUFFICES ASSUME NEW v \in Workers, NEW u \in Workers, job'[u].alone, job'[v].ch = job'[u].ch
                PROVE  v = u
    BY DEF Alone_is_alone
  <2>1. CASE u = w
    BY <2>1, <1>b, <1>d, <1>e DEF Busy
  <2>2. CASE u # w
    <3>1. job[u].ch # c /\ job'[u] = job[u]
      BY <2>2, <1>b, <1>d
    <3>2. v # w
      BY <3>1, <1>b, <1>e
    <3>3. job'[v].ch = job[v].ch
      BY <3>2, <1>b, <1>d
    <3>. QED
      BY <3>1, <3>3 DEF Routes, Alone_is_alone
  <2>. QED
    BY <2>1, <2>2
<1>3. Untangled'
  <2>. SUFFICES ASSUME NEW v \in Workers, job'[v].ch \in Channels, ~tangled'[job'[v].ch]
                PROVE  job'[v].alone
    BY DEF Untangled
  <2>1. CASE v = w
    BY <2>1, <1>a, <1>b, <1>e
  <2>2. CASE v # w
    <3>1. job[v].ch # c
      BY <2>2, <1>d
    <3>. QED
      BY <2>2, <3>1, <1>b DEF Routes, Untangled
  <2>. QED
    BY <2>1, <2>2
<1>4. Rest'
  <2>. SUFFICES ASSUME NEW d \in Channels, ~(\E v \in Workers : job'[v].ch = d), ~tangled'[d]
                PROVE  Follows(row'[d], ability'[d])
    BY DEF Rest, Busy
  <2>1. d # c
    BY <1>b, <1>e
  <2>2. ~Busy(d)
    <3>. SUFFICES ASSUME NEW v \in Workers, job[v].ch = d PROVE FALSE
      BY DEF Busy
    <3>. QED
      BY <2>1, <1>a, <1>b, <1>c
  <2>. QED
    BY <2>1, <2>2, <1>b DEF Routes, Rest
<1>5. Phases'
  <2>. SUFFICES ASSUME NEW v \in Workers, job'[v].ch \in Channels
                PROVE  Phase(job'[v], row[job'[v].ch], ability[job'[v].ch], tangled'[job'[v].ch])
    BY <1>b DEF Phases
  <2>1. CASE v = w
    <3>1. ~tangled'[c] => ~Busy(c) /\ ~tangled[c]
      BY <1>a, <1>b
    <3>2. ~tangled'[c] => Follows(row[c], ability[c])
      BY <3>1 DEF Routes, Rest
    <3>. QED
      BY <2>1, <3>2, <1>b, <1>e DEF Phase
  <2>2. CASE v # w /\ job[v].ch = c
    BY <2>2, <1>d DEF Phase
  <2>3. CASE v # w /\ job[v].ch # c
    BY <2>3, <1>b DEF Routes, Phases
  <2>. QED
    BY <2>1, <2>2, <2>3
<1>6. job' \in [Workers -> Jobs] /\ tangled' \in [Channels -> BOOLEAN]
  <2>1. ASSUME NEW v \in Workers PROVE job'[v] \in Jobs
    <3>1. CASE v = w
      BY <3>1, <1>b, <1>e
    <3>2. CASE v # w /\ job[v].ch = c
      <4>1. job[v] \in Jobs /\ job'[v] = [job[v] EXCEPT !.alone = FALSE]
        BY <3>2, <1>a, <1>b
      <4>. QED
        BY <4>1 DEF Jobs
    <3>3. CASE v # w /\ job[v].ch # c
      BY <3>3, <1>a, <1>b
    <3>. QED
      BY <3>1, <3>2, <3>3
  <2>2. DOMAIN job' = Workers /\ job' = [v \in Workers |-> job'[v]]
    BY DEF Begins
  <2>3. tangled' \in [Channels -> BOOLEAN]
    BY <1>a DEF Begins, RoutingTypeOK, Busy
  <2>. QED
    BY <2>1, <2>2, <2>3
<1>. QED
  BY <1>1, <1>2, <1>3, <1>4, <1>5, <1>6 DEF Routes

(***************************************************************************)
(* The statements of the workers.                                          *)
(***************************************************************************)
RowType == [status : Statuses, prio : Prios]
AbilityType == [state : {"none", "on", "off"}, prio : Prios \cup {None}]

LEMMA NoJob_facts ==
  NoJob \in Jobs /\ JobOK(NoJob) /\ NoJob.at = "idle" /\ NoJob.ch = None /\ NoJob.alone = FALSE
BY DEF NoJob, Jobs, JobOK

LEMMA At_facts ==
  ASSUME RoutingTypeOK, Routes, NEW w \in Workers, job[w].at # "idle"
  PROVE  /\ job[w].ch \in Channels /\ job[w] \in Jobs /\ JobOK(job[w])
         /\ Phase(job[w], row[job[w].ch], ability[job[w].ch], tangled[job[w].ch])
         /\ ~tangled[job[w].ch] => job[w].alone
         /\ row[job[w].ch] \in RowType /\ ability[job[w].ch] \in AbilityType
         /\ tangled[job[w].ch] \in BOOLEAN
<1>1. job[w].ch \in Channels /\ job[w] \in Jobs /\ JobOK(job[w])
  BY DEF RoutingTypeOK, Routes, Jobs_are_ok, JobOK
<1>2. Phase(job[w], row[job[w].ch], ability[job[w].ch], tangled[job[w].ch])
  BY <1>1 DEF Routes, Phases
<1>3. ~tangled[job[w].ch] => job[w].alone
  BY <1>1 DEF Routes, Untangled
<1>. QED
  BY <1>1, <1>2, <1>3 DEF RoutingTypeOK, RowType, AbilityType

LEMMA WritesRow_facts ==
  ASSUME RoutingTypeOK, NEW c \in Channels, NEW r \in RowType, WritesRow(c, r)
  PROVE  /\ row' \in [Channels -> RowType] /\ ability' \in [Channels -> AbilityType]
         /\ sync' \in [step : {"sleep", "read"}, seen : Offers, was : Histories]
         /\ was' \in Histories
         /\ row' = [row EXCEPT ![c] = r] /\ ability' = [ability EXCEPT ![c] = ability[c]]
<1>1. Seen(r) \subseteq Prios \cup {None}
  BY DEF Seen, Offer, RowType
<1>2. was' \in Histories
  BY <1>1 DEF WritesRow, RoutingTypeOK, Histories
<1>3. sync' \in [step : {"sleep", "read"}, seen : Offers, was : Histories]
  <2>1. [sync.was EXCEPT ![c] = @ \cup Seen(r)] \in Histories
    BY <1>1 DEF RoutingTypeOK, Histories
  <2>2. sync' = [sync EXCEPT !.was = [sync.was EXCEPT ![c] = @ \cup Seen(r)]]
    BY DEF WritesRow
  <2>. QED
    BY <2>1, <2>2 DEF RoutingTypeOK
<1>. QED
  BY <1>2, <1>3 DEF WritesRow, RoutingTypeOK, RowType, AbilityType

LEMMA WritesAbility_facts ==
  ASSUME RoutingTypeOK, NEW c \in Channels, NEW a \in AbilityType, WritesAbility(c, a)
  PROVE  /\ row' \in [Channels -> RowType] /\ ability' \in [Channels -> AbilityType]
         /\ sync' \in [step : {"sleep", "read"}, seen : Offers, was : Histories]
         /\ was' \in Histories
         /\ row' = [row EXCEPT ![c] = row[c]] /\ ability' = [ability EXCEPT ![c] = a]
BY DEF WritesAbility, RoutingTypeOK, RowType, AbilityType

LEMMA WritesNothing_facts ==
  ASSUME RoutingTypeOK, NEW c \in Channels, WritesNothing
  PROVE  /\ row' \in [Channels -> RowType] /\ ability' \in [Channels -> AbilityType]
         /\ sync' \in [step : {"sleep", "read"}, seen : Offers, was : Histories]
         /\ was' \in Histories
         /\ row' = [row EXCEPT ![c] = row[c]] /\ ability' = [ability EXCEPT ![c] = ability[c]]
BY DEF WritesNothing, RoutingTypeOK, RowType, AbilityType

OthersOK ==
    /\ sync' \in [step : {"sleep", "read"}, seen : Offers, was : Histories] /\ was' \in Histories
    /\ faults' \in 0..MaxFaults /\ UNCHANGED <<cached, node, copy, ops>>

\* Statement_keeps with the types, for a statement that changes nothing else.
LEMMA Statement_is_ok ==
  ASSUME RoutingTypeOK, Routes, NEW w \in Workers, NEW c \in Channels,
         NEW j \in Jobs, NEW r \in RowType, NEW a \in AbilityType, NEW t \in BOOLEAN,
         Leaves(w, c, j, r, a, t), Fits(w, c, j, t), Phase(j, r, a, t), OthersOK
  PROVE  RoutingTypeOK' /\ Routes'
<1>1. Routes'
  BY Statement_keeps
<1>2. job' \in [Workers -> Jobs] /\ tangled' \in [Channels -> BOOLEAN]
  BY DEF RoutingTypeOK, Leaves
<1>3. row' \in [Channels -> RowType] /\ ability' \in [Channels -> AbilityType]
  BY DEF RoutingTypeOK, RowType, AbilityType, Leaves
<1>. QED
  BY <1>1, <1>2, <1>3 DEF RoutingTypeOK, RowType, AbilityType, OthersOK

\* A statement that fails.
LEMMA Breaks_keeps ==
  ASSUME RoutingTypeOK, Routes, NEW w \in Workers, job[w].at # "idle", NEW at, Breaks(w, at),
         UNCHANGED <<cached, node, copy, ops>>,
         at = "idle" \/ (at = "clear" /\ job[w].at = "reload") \/ (at = "status" /\ job[w].at = "mark")
  PROVE  RoutingTypeOK' /\ Routes'
<1> DEFINE c == job[w].ch
           j == IF at = "idle" THEN NoJob ELSE [job[w] EXCEPT !.at = at, !.alone = FALSE]
           t == tangled[c] \/ job[w].at \notin FirstStatements
<1>1. /\ c \in Channels /\ job[w] \in Jobs /\ JobOK(job[w]) /\ Phase(job[w], row[c], ability[c], tangled[c])
      /\ ~tangled[c] => job[w].alone
      /\ row[c] \in RowType /\ ability[c] \in AbilityType /\ tangled[c] \in BOOLEAN
  BY At_facts
<1>2. j \in Jobs /\ JobOK(j) /\ (j = NoJob \/ (j.ch = c /\ j.at # "idle")) /\ j.alone = FALSE
  <2>1. CASE at = "idle"
    BY <2>1, NoJob_facts
  <2>2. CASE at # "idle"
    <3>1. job[w].to \in {"enabled", "auto"} \/ at = "clear"
      BY <1>1, <2>2 DEF JobOK
    <3>. QED
      BY <1>1, <2>2, <3>1 DEF Jobs, JobOK
  <2>. QED
    BY <2>1, <2>2
<1>3. t \in BOOLEAN /\ (~t => job[w].alone) /\ (~t => at = "idle")
  BY <1>1 DEF FirstStatements
<1>4. Phase(j, row[c], ability[c], t)
  <2>1. CASE at = "idle"
    BY <1>1, <2>1, NoJob_facts DEF Phase
  <2>2. CASE at # "idle"
    BY <1>2, <1>3, <2>2 DEF Phase
  <2>. QED
    BY <2>1, <2>2
<1>5. /\ job' = [job EXCEPT ![w] = j] /\ tangled' = [tangled EXCEPT ![c] = t]
      /\ faults' \in 0..MaxFaults /\ WritesNothing
  BY RoutingAssumption DEF Breaks, RoutingTypeOK
<1>6. Fits(w, c, j, t)
  BY <1>1, <1>2, <1>3 DEF Fits
<1>. HIDE DEF j, t, c
<1>7. Leaves(w, c, j, row[c], ability[c], t) /\ OthersOK
  BY <1>1, <1>5, WritesNothing_facts DEF Leaves, OthersOK
<1>. QED
  BY <1>1, <1>2, <1>3, <1>4, <1>6, <1>7, Statement_is_ok

\* The worker goes on to its next statement.
LEMMA Goes_fits ==
  ASSUME RoutingTypeOK, Routes, NEW w \in Workers, job[w].at # "idle", NEW at, Goes(w, at),
         at \in {"reload", "clear", "add", "status", "unlist"}, at = "status" => job[w].at = "mark"
  PROVE  LET c == job[w].ch
             j == [job[w] EXCEPT !.at = at]
         IN  /\ j \in Jobs /\ Fits(w, c, j, tangled[c])
             /\ job' = [job EXCEPT ![w] = j] /\ tangled' = [tangled EXCEPT ![c] = tangled[c]]
             /\ faults' \in 0..MaxFaults
<1> DEFINE c == job[w].ch
           j == [job[w] EXCEPT !.at = at]
<1>1. /\ c \in Channels /\ job[w] \in Jobs /\ JobOK(job[w]) /\ (~tangled[c] => job[w].alone)
      /\ tangled[c] \in BOOLEAN
  BY At_facts
<1>2. j \in Jobs /\ j.ch = c /\ j.at = at /\ j.to = job[w].to /\ j.alone = job[w].alone
  BY <1>1 DEF Jobs
<1>3. JobOK(j)
  BY <1>1, <1>2 DEF JobOK
<1>. HIDE DEF j
<1>5. Fits(w, c, j, tangled[c])
  BY <1>1, <1>2, <1>3 DEF Fits, Jobs
<1>. USE DEF j
<1>4. /\ job' = [job EXCEPT ![w] = j] /\ tangled' = [tangled EXCEPT ![c] = tangled[c]]
      /\ faults' \in 0..MaxFaults
  BY DEF Goes, RoutingTypeOK
<1>. QED
  BY <1>2, <1>5, <1>4

\* The worker is done.
LEMMA Ends_fits ==
  ASSUME RoutingTypeOK, Routes, NEW w \in Workers, job[w].at # "idle", Ends(w)
  PROVE  LET c == job[w].ch IN
             /\ Fits(w, c, NoJob, tangled[c])
             /\ job' = [job EXCEPT ![w] = NoJob] /\ tangled' = [tangled EXCEPT ![c] = tangled[c]]
             /\ faults' \in 0..MaxFaults
<1> DEFINE c == job[w].ch
<1>1. c \in Channels /\ (~tangled[c] => job[w].alone) /\ tangled[c] \in BOOLEAN
  BY At_facts
<1>2. Fits(w, c, NoJob, tangled[c])
  BY <1>1, NoJob_facts DEF Fits
<1>. QED
  BY <1>2 DEF Ends, RoutingTypeOK

LEMMA UpdateWrite_ok ==
  ASSUME RoutingTypeOK, Routes, NEW w \in Workers, UpdateWrite(w)
  PROVE  RoutingTypeOK' /\ Routes'
<1> DEFINE c == job[w].ch
           status == IF job[w].to = "" THEN row[c].status ELSE job[w].to
           prio == IF job[w].prio = None THEN row[c].prio ELSE job[w].prio
           j == [job[w] EXCEPT !.at = "reload"]
<1>1. job[w].at = "write" /\ UNCHANGED <<cached, node, copy, ops>>
  BY DEF UpdateWrite, At
<1>2. /\ c \in Channels /\ job[w] \in Jobs /\ row[c] \in RowType /\ ability[c] \in AbilityType
      /\ tangled[c] \in BOOLEAN
  BY <1>1, At_facts
<1>3. CASE Breaks(w, "idle")
  BY <1>1, <1>3, Breaks_keeps
<1>4. CASE Goes(w, "reload")
           /\ IF row[c].status \in Gone THEN WritesNothing
              ELSE WritesRow(c, [status |-> status, prio |-> prio])
  <2>1. PICK r \in RowType : row' = [row EXCEPT ![c] = r]
                             /\ ability' = [ability EXCEPT ![c] = ability[c]]
                             /\ sync' \in [step : {"sleep", "read"}, seen : Offers, was : Histories]
                             /\ was' \in Histories
    <3>1. CASE row[c].status \in Gone
      BY <1>2, <1>4, <3>1, WritesNothing_facts
    <3>2. CASE row[c].status \notin Gone
      <4>1. [status |-> status, prio |-> prio] \in RowType
        BY <1>2 DEF RowType, Jobs, Statuses
      <4>. QED
        BY <1>2, <1>4, <3>2, <4>1, WritesRow_facts
    <3>. QED
      BY <3>1, <3>2
  <2>2. /\ j \in Jobs /\ Fits(w, c, j, tangled[c])
        /\ job' = [job EXCEPT ![w] = j] /\ tangled' = [tangled EXCEPT ![c] = tangled[c]]
        /\ faults' \in 0..MaxFaults
    BY <1>1, <1>4, Goes_fits
  <2>3. Phase(j, r, ability[c], tangled[c])
    BY <1>2 DEF Phase, Jobs, FirstStatements
  <2>. HIDE DEF j
  <2>4. Leaves(w, c, j, r, ability[c], tangled[c]) /\ OthersOK
    BY <1>1, <2>1, <2>2 DEF Leaves, OthersOK
  <2>. QED
    BY <1>2, <2>2, <2>3, <2>4, Statement_is_ok
<1>. QED
  BY <1>3, <1>4 DEF UpdateWrite

LEMMA UpdateReload_ok ==
  ASSUME RoutingTypeOK, Routes, NEW w \in Workers, UpdateReload(w)
  PROVE  RoutingTypeOK' /\ Routes'
<1> DEFINE c == job[w].ch
           r == row[c]
           j == IF r.status \in Gone THEN [job[w] EXCEPT !.at = "clear"]
                ELSE [job[w] EXCEPT !.at = "clear", !.to = r.status, !.prio = r.prio]
<1>1. job[w].at = "reload" /\ UNCHANGED <<cached, node, copy, ops>>
  BY DEF UpdateReload, At
<1>2. /\ c \in Channels /\ job[w] \in Jobs /\ JobOK(job[w]) /\ r \in RowType /\ ability[c] \in AbilityType
      /\ tangled[c] \in BOOLEAN /\ (~tangled[c] => job[w].alone)
  BY <1>1, At_facts
<1>3. CASE Breaks(w, "clear")
  BY <1>1, <1>3, Breaks_keeps
<1>4. CASE job' = [job EXCEPT ![w] = j] /\ WritesNothing /\ UNCHANGED <<tangled, faults>>
  <2>1. j \in Jobs /\ j.at = "clear" /\ j.ch = c /\ j.alone = job[w].alone
        /\ (r.status \in Gone \/ (j.to = r.status /\ j.prio = r.prio))
    <3>1. CASE r.status \in Gone
      BY <1>2, <3>1 DEF Jobs
    <3>2. CASE r.status \notin Gone
      BY <1>2, <3>2 DEF Jobs, RowType, Statuses
    <3>. QED
      BY <3>1, <3>2
  <2>2. Fits(w, c, j, tangled[c])
    BY <1>2, <2>1 DEF Fits, JobOK, Jobs
  <2>3. Phase(j, r, ability[c], tangled[c])
    BY <2>1 DEF Phase, FirstStatements
  <2>. HIDE DEF j
  <2>4. Leaves(w, c, j, r, ability[c], tangled[c]) /\ OthersOK
    BY <1>1, <1>2, <1>4, WritesNothing_facts DEF Leaves, OthersOK, RoutingTypeOK
  <2>. QED
    BY <1>2, <2>1, <2>2, <2>3, <2>4, Statement_is_ok
<1>. QED
  BY <1>3, <1>4 DEF UpdateReload

LEMMA DeleteAbilities_ok ==
  ASSUME RoutingTypeOK, Routes, NEW w \in Workers, DeleteAbilities(w)
  PROVE  RoutingTypeOK' /\ Routes'
<1> DEFINE c == job[w].ch
           j == [job[w] EXCEPT !.at = "add"]
<1>1. job[w].at = "clear" /\ UNCHANGED <<cached, node, copy, ops>>
  BY DEF DeleteAbilities, At
<1>2. /\ c \in Channels /\ job[w] \in Jobs /\ row[c] \in RowType /\ tangled[c] \in BOOLEAN
      /\ Phase(job[w], row[c], ability[c], tangled[c])
  BY <1>1, At_facts
<1>3. CASE Breaks(w, "idle")
  BY <1>1, <1>3, Breaks_keeps
<1>4. CASE WritesAbility(c, NoAbility) /\ Goes(w, "add")
  <2>1. NoAbility \in AbilityType
    BY DEF NoAbility, AbilityType
  <2>2. /\ j \in Jobs /\ Fits(w, c, j, tangled[c])
        /\ job' = [job EXCEPT ![w] = j] /\ tangled' = [tangled EXCEPT ![c] = tangled[c]]
        /\ faults' \in 0..MaxFaults
    BY <1>1, <1>4, Goes_fits
  <2>3. Phase(j, row[c], NoAbility, tangled[c])
    BY <1>1, <1>2 DEF Phase, Jobs, FirstStatements
  <2>. HIDE DEF j
  <2>4. Leaves(w, c, j, row[c], NoAbility, tangled[c]) /\ OthersOK
    BY <1>1, <1>2, <1>4, <2>1, <2>2, WritesAbility_facts DEF Leaves, OthersOK
  <2>. QED
    BY <1>2, <2>1, <2>2, <2>3, <2>4, Statement_is_ok
<1>. QED
  BY <1>3, <1>4 DEF DeleteAbilities

LEMMA AddAbilities_ok ==
  ASSUME RoutingTypeOK, Routes, NEW w \in Workers, AddAbilities(w)
  PROVE  RoutingTypeOK' /\ Routes'
<1> DEFINE c == job[w].ch
           on == IF job[w].to = "enabled" THEN "on" ELSE "off"
           prio == IF job[w].prio = None THEN 0 ELSE job[w].prio
           a == [state |-> on, prio |-> prio]
<1>1. job[w].at = "add" /\ UNCHANGED <<cached, node, copy, ops>>
  BY DEF AddAbilities, At
<1>2. /\ c \in Channels /\ job[w] \in Jobs /\ row[c] \in RowType /\ ability[c] \in AbilityType
      /\ tangled[c] \in BOOLEAN /\ job[w].alone \in BOOLEAN /\ (~tangled[c] => job[w].alone)
      /\ Phase(job[w], row[c], ability[c], tangled[c])
  BY <1>1, At_facts DEF Jobs
<1>3. CASE Breaks(w, "idle")
  BY <1>1, <1>3, Breaks_keeps
<1>4. CASE /\ ability[c].state = "none" /\ WritesAbility(c, a)
           /\ tangled' = [tangled EXCEPT ![c] = @ /\ ~job[w].alone]
           /\ job' = [job EXCEPT ![w] = NoJob] /\ UNCHANGED faults
  <2> DEFINE t == tangled[c] /\ ~job[w].alone
  <2>1. a \in AbilityType
    BY <1>2, RoutingAssumption DEF AbilityType, Jobs
  <2>2. t \in BOOLEAN /\ (~t => job[w].alone)
    BY <1>2
  <2>3. Fits(w, c, NoJob, t)
    BY <2>2, NoJob_facts DEF Fits
  <2>4. Phase(NoJob, row[c], a, t)
    <3>1. ~t => row[c].status \in Gone \/ (job[w].to = row[c].status /\ job[w].prio = row[c].prio)
      BY <1>1, <1>2, <2>2 DEF Phase
    <3>2. row[c].prio # None
      BY <1>2, RoutingAssumption DEF RowType
    <3>3. ~t => Follows(row[c], a)
      BY <3>1, <3>2 DEF Follows, On
    <3>. QED
      BY <3>3, NoJob_facts DEF Phase
  <2>5. Leaves(w, c, NoJob, row[c], a, t) /\ OthersOK
    BY <1>1, <1>2, <1>4, <2>1, WritesAbility_facts DEF Leaves, OthersOK, RoutingTypeOK
  <2>. HIDE DEF t, a, c
  <2>. QED
    BY <1>2, <2>1, <2>2, <2>3, <2>4, <2>5, NoJob_facts, Statement_is_ok
<1>5. CASE /\ WritesNothing /\ tangled' = [tangled EXCEPT ![c] = TRUE]
           /\ job' = [job EXCEPT ![w] = NoJob] /\ UNCHANGED faults
  <2>1. Fits(w, c, NoJob, TRUE) /\ Phase(NoJob, row[c], ability[c], TRUE)
    BY NoJob_facts DEF Fits, Phase
  <2>2. Leaves(w, c, NoJob, row[c], ability[c], TRUE) /\ OthersOK
    BY <1>1, <1>2, <1>5, WritesNothing_facts DEF Leaves, OthersOK, RoutingTypeOK
  <2>. QED
    BY <1>2, <2>1, <2>2, NoJob_facts, Statement_is_ok
<1>. QED
  BY <1>3, <1>4, <1>5 DEF AddAbilities

LEMMA UpdateAbilityStatus_ok ==
  ASSUME RoutingTypeOK, Routes, NEW w \in Workers, UpdateAbilityStatus(w)
  PROVE  RoutingTypeOK' /\ Routes'
<1> DEFINE c == job[w].ch
           on == IF job[w].to = "enabled" THEN "on" ELSE "off"
           j == [job[w] EXCEPT !.at = "status"]
<1>1. job[w].at = "mark" /\ UNCHANGED <<cached, node, copy, ops>>
  BY DEF UpdateAbilityStatus, At
<1>2. /\ c \in Channels /\ job[w] \in Jobs /\ row[c] \in RowType /\ ability[c] \in AbilityType
      /\ tangled[c] \in BOOLEAN /\ Phase(job[w], row[c], ability[c], tangled[c])
  BY <1>1, At_facts
<1>3. CASE Breaks(w, "status")
  BY <1>1, <1>3, Breaks_keeps
<1>4. CASE /\ IF ability[c].state = "none" THEN WritesNothing
              ELSE WritesAbility(c, [ability[c] EXCEPT !.state = on])
           /\ Goes(w, "status")
  <2> DEFINE a == IF ability[c].state = "none" THEN ability[c] ELSE [ability[c] EXCEPT !.state = on]
  <2>1. a \in AbilityType
    BY <1>2 DEF AbilityType
  <2>2. /\ row' = [row EXCEPT ![c] = row[c]] /\ ability' = [ability EXCEPT ![c] = a]
        /\ sync' \in [step : {"sleep", "read"}, seen : Offers, was : Histories] /\ was' \in Histories
    <3>1. CASE ability[c].state = "none"
      BY <1>2, <1>4, <3>1, WritesNothing_facts
    <3>2. CASE ability[c].state # "none"
      <4>1. WritesAbility(c, a)
        BY <1>4, <3>2
      <4>. HIDE DEF a
      <4>. QED
        BY <1>2, <2>1, <4>1, WritesAbility_facts
    <3>. QED
      BY <3>1, <3>2
  <2>3. /\ j \in Jobs /\ Fits(w, c, j, tangled[c])
        /\ job' = [job EXCEPT ![w] = j] /\ tangled' = [tangled EXCEPT ![c] = tangled[c]]
        /\ faults' \in 0..MaxFaults
    BY <1>1, <1>4, Goes_fits
  <2>4. Phase(j, row[c], a, tangled[c])
    <3>1. j.at = "status" /\ j.to = job[w].to
      BY <1>2 DEF Jobs
    <3>2. ~tangled[c] => Follows(row[c], ability[c])
      BY <1>1, <1>2 DEF Phase
    <3>3. ~tangled[c] => row[c].status \in Gone \/ a = [state |-> On(j.to), prio |-> row[c].prio]
      <4>1. CASE Follows(row[c], ability[c]) /\ row[c].status \notin Gone
        <5>1. ability[c] = [state |-> On(row[c].status), prio |-> row[c].prio]
          BY <4>1 DEF Follows
        <5>2. ability[c].state # "none" /\ ability[c].prio = row[c].prio
          BY <5>1 DEF On
        <5>. QED
          BY <1>2, <3>1, <5>2 DEF AbilityType, On
      <4>. QED
        BY <3>2, <4>1
    <3>. HIDE DEF j
    <3>. QED
      BY <3>1, <3>3 DEF Phase, FirstStatements
  <2>. HIDE DEF j, a, c
  <2>5. Leaves(w, c, j, row[c], a, tangled[c]) /\ OthersOK
    BY <1>1, <2>2, <2>3 DEF Leaves, OthersOK
  <2>. QED
    BY <1>2, <2>1, <2>3, <2>4, <2>5, Statement_is_ok
<1>. QED
  BY <1>3, <1>4 DEF UpdateAbilityStatus

LEMMA UpdateStatus_ok ==
  ASSUME RoutingTypeOK, Routes, NEW w \in Workers, UpdateStatus(w)
  PROVE  RoutingTypeOK' /\ Routes'
<1> DEFINE c == job[w].ch
<1>1. job[w].at = "status" /\ UNCHANGED <<cached, node, copy, ops>>
  BY DEF UpdateStatus, At
<1>2. /\ c \in Channels /\ job[w] \in Jobs /\ JobOK(job[w]) /\ row[c] \in RowType
      /\ ability[c] \in AbilityType
      /\ tangled[c] \in BOOLEAN /\ Phase(job[w], row[c], ability[c], tangled[c])
  BY <1>1, At_facts
<1>3. CASE Breaks(w, "idle")
  BY <1>1, <1>3, Breaks_keeps
<1>4. CASE /\ IF row[c].status \in Gone THEN WritesNothing
              ELSE WritesRow(c, [row[c] EXCEPT !.status = job[w].to])
           /\ Ends(w)
  <2> DEFINE r == IF row[c].status \in Gone THEN row[c] ELSE [row[c] EXCEPT !.status = job[w].to]
  <2>1. r \in RowType
    BY <1>1, <1>2 DEF RowType, Statuses, JobOK
  <2>2. /\ row' = [row EXCEPT ![c] = r] /\ ability' = [ability EXCEPT ![c] = ability[c]]
        /\ sync' \in [step : {"sleep", "read"}, seen : Offers, was : Histories] /\ was' \in Histories
    <3>1. CASE row[c].status \in Gone
      BY <1>2, <1>4, <3>1, WritesNothing_facts
    <3>2. CASE row[c].status \notin Gone
      <4>1. WritesRow(c, r)
        BY <1>4, <3>2
      <4>. HIDE DEF r
      <4>. QED
        BY <1>2, <2>1, <4>1, WritesRow_facts
    <3>. QED
      BY <3>1, <3>2
  <2>3. /\ Fits(w, c, NoJob, tangled[c])
        /\ job' = [job EXCEPT ![w] = NoJob] /\ tangled' = [tangled EXCEPT ![c] = tangled[c]]
        /\ faults' \in 0..MaxFaults
    BY <1>1, <1>4, Ends_fits
  <2>4. Phase(NoJob, r, ability[c], tangled[c])
    <3>1. ~tangled[c] => row[c].status \in Gone
                         \/ ability[c] = [state |-> On(job[w].to), prio |-> row[c].prio]
      BY <1>1, <1>2 DEF Phase
    <3>2. ~tangled[c] => Follows(r, ability[c])
      BY <1>2, <3>1 DEF Follows, RowType
    <3>. QED
      BY <3>2, NoJob_facts DEF Phase
  <2>. HIDE DEF r, c
  <2>5. Leaves(w, c, NoJob, r, ability[c], tangled[c]) /\ OthersOK
    BY <1>1, <2>2, <2>3 DEF Leaves, OthersOK
  <2>. QED
    BY <1>2, <2>1, <2>3, <2>4, <2>5, NoJob_facts, Statement_is_ok
<1>. QED
  BY <1>3, <1>4 DEF UpdateStatus

LEMMA DeleteRow_ok ==
  ASSUME RoutingTypeOK, Routes, NEW w \in Workers, DeleteRow(w)
  PROVE  RoutingTypeOK' /\ Routes'
<1> DEFINE c == job[w].ch
           r == [NoRow EXCEPT !.status = "deleted"]
           j == [job[w] EXCEPT !.at = "unlist"]
<1>1. job[w].at = "delete" /\ UNCHANGED <<cached, node, copy, ops>>
  BY DEF DeleteRow, At
<1>2. /\ c \in Channels /\ job[w] \in Jobs /\ ability[c] \in AbilityType /\ tangled[c] \in BOOLEAN
  BY <1>1, At_facts
<1>3. CASE Breaks(w, "idle")
  BY <1>1, <1>3, Breaks_keeps
<1>4. CASE WritesRow(c, r) /\ Goes(w, "unlist")
  <2>1. r \in RowType /\ r.status \in Gone
    BY RoutingAssumption DEF NoRow, RowType, Statuses, Gone
  <2>2. /\ j \in Jobs /\ Fits(w, c, j, tangled[c])
        /\ job' = [job EXCEPT ![w] = j] /\ tangled' = [tangled EXCEPT ![c] = tangled[c]]
        /\ faults' \in 0..MaxFaults
    BY <1>1, <1>4, Goes_fits
  <2>3. j.at = "unlist"
    BY <1>2 DEF Jobs
  <2>. HIDE DEF j, r, c
  <2>4. Phase(j, r, ability[c], tangled[c])
    BY <2>1, <2>3 DEF Phase, FirstStatements
  <2>5. Leaves(w, c, j, r, ability[c], tangled[c]) /\ OthersOK
    BY <1>1, <1>2, <1>4, <2>1, <2>2, WritesRow_facts DEF Leaves, OthersOK
  <2>. QED
    BY <1>2, <2>1, <2>2, <2>4, <2>5, Statement_is_ok
<1>. QED
  BY <1>3, <1>4 DEF DeleteRow

LEMMA DeleteRowAbilities_ok ==
  ASSUME RoutingTypeOK, Routes, NEW w \in Workers, DeleteRowAbilities(w)
  PROVE  RoutingTypeOK' /\ Routes'
<1> DEFINE c == job[w].ch
<1>1. job[w].at = "unlist" /\ UNCHANGED <<cached, node, copy, ops>>
  BY DEF DeleteRowAbilities, At
<1>2. /\ c \in Channels /\ row[c] \in RowType /\ tangled[c] \in BOOLEAN
      /\ Phase(job[w], row[c], ability[c], tangled[c])
  BY <1>1, At_facts
<1>3. CASE Breaks(w, "idle")
  BY <1>1, <1>3, Breaks_keeps
<1>4. CASE WritesAbility(c, NoAbility) /\ Ends(w)
  <2>1. NoAbility \in AbilityType
    BY DEF NoAbility, AbilityType
  <2>2. /\ Fits(w, c, NoJob, tangled[c])
        /\ job' = [job EXCEPT ![w] = NoJob] /\ tangled' = [tangled EXCEPT ![c] = tangled[c]]
        /\ faults' \in 0..MaxFaults
    BY <1>1, <1>4, Ends_fits
  <2>3. Phase(NoJob, row[c], NoAbility, tangled[c])
    BY <1>1, <1>2, NoJob_facts DEF Phase, Follows
  <2>. HIDE DEF c
  <2>4. Leaves(w, c, NoJob, row[c], NoAbility, tangled[c]) /\ OthersOK
    BY <1>1, <1>2, <1>4, <2>1, <2>2, WritesAbility_facts DEF Leaves, OthersOK
  <2>. QED
    BY <1>2, <2>1, <2>2, <2>3, <2>4, NoJob_facts, Statement_is_ok
<1>. QED
  BY <1>3, <1>4 DEF DeleteRowAbilities

LEMMA InsertRow_ok ==
  ASSUME RoutingTypeOK, Routes, NEW w \in Workers, InsertRow(w)
  PROVE  RoutingTypeOK' /\ Routes'
<1> DEFINE c == job[w].ch
           r == [status |-> "enabled", prio |-> job[w].prio]
           j == [job[w] EXCEPT !.at = "add"]
<1>1. job[w].at = "insert" /\ UNCHANGED <<cached, node, copy, ops>>
  BY DEF InsertRow, At
<1>2. /\ c \in Channels /\ job[w] \in Jobs /\ JobOK(job[w]) /\ ability[c] \in AbilityType
      /\ tangled[c] \in BOOLEAN
  BY <1>1, At_facts
<1>3. CASE Breaks(w, "idle")
  BY <1>1, <1>3, Breaks_keeps
<1>4. CASE WritesRow(c, r) /\ Goes(w, "add")
  <2>1. r \in RowType /\ job[w].to = "enabled"
    BY <1>1, <1>2 DEF RowType, Statuses, JobOK
  <2>2. /\ j \in Jobs /\ Fits(w, c, j, tangled[c])
        /\ job' = [job EXCEPT ![w] = j] /\ tangled' = [tangled EXCEPT ![c] = tangled[c]]
        /\ faults' \in 0..MaxFaults
    BY <1>1, <1>4, Goes_fits
  <2>3. Phase(j, r, ability[c], tangled[c])
    BY <1>2, <2>1 DEF Phase, FirstStatements, Jobs
  <2>. HIDE DEF j, r, c
  <2>4. Leaves(w, c, j, r, ability[c], tangled[c]) /\ OthersOK
    BY <1>1, <1>2, <1>4, <2>1, <2>2, WritesRow_facts DEF Leaves, OthersOK
  <2>. QED
    BY <1>2, <2>1, <2>2, <2>3, <2>4, Statement_is_ok
<1>. QED
  BY <1>3, <1>4 DEF InsertRow

LEMMA Statement_ok ==
  ASSUME RoutingTypeOK, Routes, NEW w \in Workers, Statement(w)
  PROVE  RoutingTypeOK' /\ Routes'
BY UpdateWrite_ok, UpdateReload_ok, DeleteAbilities_ok, AddAbilities_ok, UpdateAbilityStatus_ok,
   UpdateStatus_ok, DeleteRow_ok, DeleteRowAbilities_ok, InsertRow_ok DEF Statement

(***************************************************************************)
(* The other steps of the routing part.                                    *)
(***************************************************************************)
LEMMA Routes_unchanged ==
  ASSUME Routes, UNCHANGED <<row, ability, job, tangled>>
  PROVE  Routes'
BY DEF Routes, Jobs_are_ok, Alone_is_alone, Untangled, Rest, Phases, Busy

SyncType == [step : {"sleep", "read"}, seen : Offers, was : Histories]

LEMMA Offer_type ==
  ASSUME NEW r \in RowType
  PROVE  Offer(r) \in Prios \cup {None}
BY DEF Offer, RowType

LEMMA Dies_ok ==
  ASSUME RoutingTypeOK, Routes, Dies, faults' \in 0..MaxFaults
  PROVE  RoutingTypeOK' /\ Routes' /\ copy' = Nothing /\ was' = [c \in Channels |-> {None}]
         /\ sync'.step = "sleep"
<1>1. /\ job' = [w \in Workers |-> NoJob]
      /\ tangled' = [c \in Channels |-> tangled[c] \/ Busy(c)]
      /\ UNCHANGED <<row, ability>>
  BY DEF Dies
<1>2. None \notin Channels
  BY RoutingAssumption
<1>3. Jobs_are_ok' /\ Alone_is_alone' /\ Untangled' /\ Phases'
  BY <1>1, <1>2, NoJob_facts DEF Jobs_are_ok, Alone_is_alone, Untangled, Phases
<1>4. Rest'
  BY <1>1 DEF Rest, Routes
<1>5. Nothing \in Offers /\ [c \in Channels |-> {None}] \in Histories /\ [c \in Channels |-> {}] \in Histories
  BY DEF Nothing, Offers, Histories
<1>6. sync' \in SyncType /\ sync'.step = "sleep"
  BY <1>5 DEF Dies, SyncType
<1>7. tangled' \in [Channels -> BOOLEAN]
  BY <1>1 DEF RoutingTypeOK, Busy
<1>8. RoutingTypeOK'
  BY <1>1, <1>5, <1>6, <1>7, NoJob_facts DEF Dies, RoutingTypeOK, SyncType
<1>. QED
  BY <1>3, <1>4, <1>6, <1>8 DEF Dies, Routes

LEMMA DeleteDisabledChannel_ok ==
  ASSUME RoutingTypeOK, Routes, DeleteDisabledChannel
  PROVE  RoutingTypeOK' /\ Routes'
<1>1. /\ UNCHANGED <<ability, job, cached, node, copy, faults, tangled>>
      /\ ops' \in 0..MaxOps
  BY RoutingAssumption DEF DeleteDisabledChannel, Asks, RoutingTypeOK
<1>2. row' \in [Channels -> RowType]
  BY RoutingAssumption DEF DeleteDisabledChannel, RoutingTypeOK, RowType, NoRow, Statuses, Gone
<1>3. \A c \in Channels : row'[c] = row[c] \/ row'[c].status \in Gone
  BY DEF DeleteDisabledChannel, NoRow, Gone
<1>4. \A c \in Channels : Seen(row'[c]) \subseteq Prios \cup {None}
  BY <1>2, Offer_type DEF Seen
<1>5. was' \in Histories
  BY <1>4 DEF DeleteDisabledChannel, RoutingTypeOK, Histories
<1>6. sync' \in SyncType
  <2>1. [c \in Channels |-> sync.was[c] \cup Seen(row'[c])] \in Histories
    BY <1>4 DEF RoutingTypeOK, Histories
  <2>2. sync' = [sync EXCEPT !.was = [c \in Channels |-> sync.was[c] \cup Seen(row'[c])]]
    BY DEF DeleteDisabledChannel
  <2>. QED
    BY <2>1, <2>2 DEF SyncType, RoutingTypeOK
<1>7. Rest'
  BY <1>1, <1>3 DEF Routes, Rest, Busy, Follows
<1>8. Phases'
  BY <1>1, <1>3 DEF Routes, Phases, Phase, Follows
<1>. QED
  BY <1>1, <1>2, <1>5, <1>6, <1>7, <1>8
     DEF Routes, Jobs_are_ok, Alone_is_alone, Untangled, RoutingTypeOK, RowType, SyncType

\* What a synchronisation changes, and that it keeps what the copy is taken from.
LEMMA ReadChannels_ok ==
  ASSUME RoutingTypeOK, Routes, ReadChannels
  PROVE  RoutingTypeOK' /\ Routes' /\ UNCHANGED <<row, ability, job, cached, node, copy, ops, tangled, was>>
         /\ \A c \in Channels : sync'.seen[c] \in sync'.was[c]
<1>1. UNCHANGED <<row, ability, job, cached, node, copy, ops, tangled, was>>
  BY DEF ReadChannels
<1>2. \A c \in Channels : Offer(row[c]) \in Prios \cup {None}
  BY Offer_type DEF RoutingTypeOK, RowType
<1>3. [c \in Channels |-> Offer(row[c])] \in Offers /\ Nothing \in Offers
      /\ [c \in Channels |-> {Offer(row[c])}] \in Histories /\ [c \in Channels |-> {Offer(row[c]), None}] \in Histories
  BY <1>2 DEF Offers, Histories, Nothing
<1>4. sync' \in SyncType /\ \A c \in Channels : sync'.seen[c] \in sync'.was[c]
  <2>1. PICK seen \in Offers, history \in Histories :
          /\ sync' = [step |-> "read", seen |-> seen, was |-> history]
          /\ \A c \in Channels : seen[c] \in history[c]
    <3>1. \A c \in Channels : Nothing[c] = None
      BY DEF Nothing
    <3>2. CASE sync' = [step |-> "read", seen |-> [c \in Channels |-> Offer(row[c])],
                        was |-> [c \in Channels |-> {Offer(row[c])}]]
      BY <1>3, <3>2
    <3>3. CASE sync' = [step |-> "read", seen |-> Nothing,
                        was |-> [c \in Channels |-> {Offer(row[c]), None}]]
      BY <1>3, <3>1, <3>3
    <3>. QED
      BY <3>2, <3>3 DEF ReadChannels
  <2>. QED
    BY <2>1 DEF SyncType
<1>5. faults' \in 0..MaxFaults
  BY RoutingAssumption DEF ReadChannels, RoutingTypeOK
<1>. QED
  BY <1>1, <1>4, <1>5, Routes_unchanged DEF RoutingTypeOK, SyncType

LEMMA BuildCopy_ok ==
  ASSUME RoutingTypeOK, Routes, BuildCopy
  PROVE  /\ RoutingTypeOK' /\ Routes' /\ sync'.step = "sleep"
         /\ \/ Dies
            \/ copy' = sync.seen /\ was' = sync.was /\ sync.step = "read" /\ node' = "up"
               /\ UNCHANGED <<row, ability, job, cached, ops, faults, tangled>>
<1>1. CASE Dies
  <2>1. faults' \in 0..MaxFaults
    BY RoutingAssumption DEF BuildCopy, RoutingTypeOK
  <2>. QED
    BY <1>1, <2>1, Dies_ok
<1>2. CASE /\ copy' = sync.seen /\ was' = sync.was /\ sync.step = "read" /\ node' = "up"
           /\ sync' = [sync EXCEPT !.step = "sleep"]
           /\ UNCHANGED <<row, ability, job, cached, ops, faults, tangled>>
  <2>1. Routes'
    BY <1>2, Routes_unchanged
  <2>2. sync' \in SyncType /\ sync'.step = "sleep" /\ copy' \in Offers /\ was' \in Histories
    BY <1>2 DEF RoutingTypeOK, SyncType
  <2>3. RoutingTypeOK'
    BY <1>2, <2>2 DEF RoutingTypeOK, SyncType
  <2>. QED
    BY <1>2, <2>1, <2>2, <2>3
<1>. QED
  BY <1>1, <1>2 DEF BuildCopy

LEMMA Stop_ok ==
  ASSUME RoutingTypeOK, Routes, Stop
  PROVE  RoutingTypeOK' /\ Routes'
<1>1. faults' \in 0..MaxFaults
  BY RoutingAssumption DEF Stop, RoutingTypeOK
<1>. QED
  BY <1>1, Dies_ok DEF Stop

LEMMA Restart_ok ==
  ASSUME RoutingTypeOK, Routes, Restart
  PROVE  RoutingTypeOK' /\ Routes'
BY Routes_unchanged DEF Restart, RoutingTypeOK, routing, database, cache, bounds

\* A change that is asked for, or a test.
LEMMA Begins_ok ==
  ASSUME RoutingTypeOK, Routes, NEW w \in Workers, NEW c \in Channels, NEW at, NEW to, NEW prio,
         Begins(w, c, at, to, prio), WritesNothing, UNCHANGED <<cached, node, copy, faults>>,
         ops' \in 0..MaxOps,
         at \in {"write", "delete", "mark", "insert"}, to \in {"", "enabled", "manual", "auto"},
         prio \in Prios \cup {None},
         at = "mark" => to \in {"enabled", "auto"}, at = "insert" => to = "enabled" /\ prio \in Prios
  PROVE  RoutingTypeOK' /\ Routes'
<1>1. UNCHANGED <<row, ability, was, sync>>
  BY DEF WritesNothing
<1>2. Routes' /\ job' \in [Workers -> Jobs] /\ tangled' \in [Channels -> BOOLEAN]
  BY <1>1, Begins_keeps
<1>. QED
  BY <1>1, <1>2 DEF RoutingTypeOK

LEMMA Administer_ok ==
  ASSUME RoutingTypeOK, Routes, NEW a \in Admins, Administer(a)
  PROVE  RoutingTypeOK' /\ Routes'
<1>0. a \in Workers /\ None \in Prios \cup {None} /\ Prios \subseteq Prios \cup {None}
  BY RetryAssumption
<1>1. PICK c \in Channels :
        \/ \E to \in {"", "enabled", "manual"}, prio \in Prios \cup {None} : UpdateChannel(a, c, to, prio)
        \/ DeleteChannel(a, c)
        \/ \E prio \in Prios : AddChannel(a, c, prio)
  BY DEF Administer
<1>2. AsksToChange => WritesNothing /\ UNCHANGED <<cached, node, copy, faults>> /\ ops' \in 0..MaxOps
  BY RoutingAssumption DEF AsksToChange, Asks, RoutingTypeOK
<1>3. CASE \E to \in {"", "enabled", "manual"}, prio \in Prios \cup {None} : UpdateChannel(a, c, to, prio)
  <2>1. PICK to \in {"", "enabled", "manual"}, prio \in Prios \cup {None} : UpdateChannel(a, c, to, prio)
    BY <1>3
  <2>. QED
    BY <1>0, <1>2, <2>1, Begins_ok DEF UpdateChannel
<1>4. CASE DeleteChannel(a, c)
  BY <1>0, <1>2, <1>4, Begins_ok DEF DeleteChannel
<1>5. CASE \E prio \in Prios : AddChannel(a, c, prio)
  <2>1. PICK prio \in Prios : AddChannel(a, c, prio)
    BY <1>5
  <2>. QED
    BY <1>0, <1>2, <2>1, Begins_ok DEF AddChannel
<1>. QED
  BY <1>1, <1>3, <1>4, <1>5

(***************************************************************************)
(* The requests.                                                           *)
(***************************************************************************)
CallType == [at : Answered \cup {"idle", "load", "relay", "loop", "reload"},
             want : Channels \cup {None}, ch : Channels \cup {None},
             lastFailedChannelId : Channels \cup {None}, left : 0..RetryTimes, tried : Seq(Channels)]
TestsType == [running : BOOLEAN, looping : BOOLEAN, list : [Channels -> {"none", "on", "off", "both"}]]

\* What a request was tried with stays, when it is tried with one channel more.
Longer(s, t) == t = s \/ \E c \in Channels : t = Append(s, c)

LEMMA Longer_keeps ==
  ASSUME NEW s \in Seq(Channels), NEW t \in Seq(Channels), Longer(s, t), NEW i \in Nat \ {0}, i <= Len(s)
  PROVE  i <= Len(t) /\ t[i] = s[i]
<1>1. CASE t = s
  BY <1>1
<1>2. CASE \E c \in Channels : t = Append(s, c)
  BY <1>2
<1>. QED
  BY <1>1, <1>2 DEF Longer

LEMMA Moves_ok ==
  ASSUME IInv, NEW k \in Calls, NEW v \in CallType, CallOK(v), Moves(k, v)
  PROVE  call' \in [Calls -> CallType] /\ tests' \in TestsType /\ Requests'
         /\ call' = [call EXCEPT ![k] = v]
BY DEF IInv, TypeOK, Moves, CallType, TestsType, Requests

LEMMA Errors_follow ==
  ASSUME IInv, NEW k \in Calls, NEW v \in CallType, call' = [call EXCEPT ![k] = v],
         Longer(call[k].tried, v.tried), UNCHANGED job
  PROVE  DisabledForItsOwnErrors'
<1>. SUFFICES ASSUME NEW q \in Calls, NEW i \in 1..RetryTimes + 1, job[<<q, i>>].at # "idle"
              PROVE  i <= Len(call'[q].tried) /\ job[<<q, i>>].ch = call'[q].tried[i]
  BY DEF DisabledForItsOwnErrors
<1>1. i <= Len(call[q].tried) /\ job[<<q, i>>].ch = call[q].tried[i]
  BY DEF IInv, DisabledForItsOwnErrors
<1>2. call \in [Calls -> CallType]
  BY DEF IInv, TypeOK, CallType
<1>3. CASE q # k
  BY <1>1, <1>2, <1>3
<1>4. CASE q = k
  <2>1. call'[q] = v /\ v.tried \in Seq(Channels) /\ call[k].tried \in Seq(Channels)
    BY <1>2, <1>4 DEF CallType
  <2>2. i \in Nat \ {0}
    BY RetryAssumption
  <2>. QED
    BY <1>1, <1>4, <2>1, <2>2, Longer_keeps
<1>. QED
  BY <1>3, <1>4

\* A step of a request that changes nothing else, except that a fault may be spent.
OnlyFaults ==
    UNCHANGED <<database, job, node, cache, ops, tangled, was>> /\ faults' \in 0..MaxFaults

LEMMA Call_step ==
  ASSUME IInv, NEW k \in Calls, NEW v \in CallType, CallOK(v), Moves(k, v),
         Longer(call[k].tried, v.tried), OnlyFaults
  PROVE  IInv'
<1>1. /\ call' \in [Calls -> CallType] /\ tests' \in TestsType /\ Requests'
      /\ call' = [call EXCEPT ![k] = v]
  BY Moves_ok
<1>2. RoutingTypeOK' /\ Routes'
  BY Routes_unchanged DEF IInv, TypeOK, RoutingTypeOK, OnlyFaults, database, cache
<1>3. Copies'
  BY DEF IInv, Copies, OnlyFaults, cache
<1>4. DisabledForItsOwnErrors'
  BY <1>1, Errors_follow DEF OnlyFaults
<1>. QED
  BY <1>1, <1>2, <1>3, <1>4 DEF IInv, TypeOK, CallType, TestsType

LEMMA Reads_facts ==
  ASSUME IInv, Reads
  PROVE  OnlyFaults
BY DEF IInv, TypeOK, RoutingTypeOK, Reads, OnlyFaults, routing, bounds, database, cache

LEMMA Call_facts ==
  ASSUME IInv, NEW k \in Calls
  PROVE  call[k] \in CallType /\ CallOK(call[k])
BY DEF IInv, TypeOK, CallType, Requests

LEMMA Answers_ok ==
  ASSUME IInv, NEW k \in Calls, NEW at \in Answered, Answers(k, at), OnlyFaults
  PROVE  IInv'
<1> DEFINE v == [NoCall EXCEPT !.at = at, !.want = call[k].want, !.tried = call[k].tried]
<1>1. call[k] \in CallType /\ CallOK(call[k])
  BY Call_facts
<1>2. NoCall \in CallType /\ NoCall.left = 0
  BY RetryAssumption DEF NoCall, CallType, Answered
<1>3. v \in CallType /\ v.at = at /\ v.want = call[k].want /\ v.left = 0 /\ v.tried = call[k].tried
  <2>1. call[k].want \in Channels \cup {None} /\ call[k].tried \in Seq(Channels)
    BY <1>1 DEF CallType
  <2>. QED
    BY <1>2, <2>1 DEF CallType
<1>4. CallOK(v)
  <2>1. at \notin {"idle", "load", "relay", "loop", "reload"}
    BY DEF Answered
  <2>2. /\ v.at = at /\ v.want = call[k].want /\ v.left = 0 /\ v.tried = call[k].tried
        /\ call[k].left \in 0..RetryTimes /\ Len(call[k].tried) \in Nat
    BY <1>1, <1>3 DEF CallType
  <2>. HIDE DEF v
  <2>. QED
    BY <1>1, <2>1, <2>2, RetryAssumption DEF CallOK
<1>5. Longer(call[k].tried, v.tried)
  BY <1>3 DEF Longer
<1>6. Moves(k, v)
  BY DEF Answers
<1>. HIDE DEF v
<1>. QED
  BY <1>3, <1>4, <1>5, <1>6, Call_step

LEMMA Missed_ok ==
  ASSUME IInv, NEW k \in Calls, NEW at \in Answered, Missed(k, at)
  PROVE  IInv'
<1>1. OnlyFaults
  BY RoutingAssumption DEF IInv, TypeOK, RoutingTypeOK, Missed, OnlyFaults
<1>. QED
  BY <1>1, Answers_ok DEF Missed

\* The request goes to channel c.
LEMMA Tries_ok ==
  ASSUME IInv, NEW k \in Calls, NEW c \in Channels, NEW v \in CallType, Tries(k, v, c),
         v.tried = call[k].tried,
         Len(v.tried) + 1 + v.left <= RetryTimes + 1,
         v.tried # <<>> => v.tried[Len(v.tried)] # c,
         v.want # None => v.left = 0 /\ v.tried = <<>> /\ c = v.want
  PROVE  IInv'
<1> DEFINE u == [v EXCEPT !.at = "relay", !.ch = c, !.tried = Append(@, c)]
           n == Len(v.tried)
<1>1. call[k] \in CallType /\ CallOK(call[k])
  BY Call_facts
<1>2. /\ u.at = "relay" /\ u.ch = c /\ u.tried = Append(v.tried, c) /\ u.want = v.want /\ u.left = v.left
      /\ u.lastFailedChannelId = v.lastFailedChannelId
  BY DEF CallType
<1>3. v.tried \in Seq(Channels) /\ n \in Nat /\ v.left \in 0..RetryTimes
  BY DEF CallType
<1>4. u \in CallType
  <2>1. Append(v.tried, c) \in Seq(Channels) /\ "relay" \in Answered \cup {"idle", "load", "relay", "loop", "reload"}
    BY <1>3
  <2>2. u = [[[v EXCEPT !.at = "relay"] EXCEPT !.ch = c] EXCEPT !.tried = Append(v.tried, c)]
    BY DEF CallType
  <2>. QED
    BY <2>1, <2>2 DEF CallType
<1>5. /\ Append(v.tried, c) \in Seq(Channels) /\ Len(Append(v.tried, c)) = n + 1
      /\ Append(v.tried, c)[n + 1] = c
      /\ \A i \in 1..n : Append(v.tried, c)[i] = v.tried[i]
  BY <1>3
<1>6. CallOK(u)
  <2>. HIDE DEF u
  <2>1. \A i \in 1..n : Append(v.tried, c)[i] # Append(v.tried, c)[i + 1]
    <3>. SUFFICES ASSUME NEW i \in 1..n PROVE Append(v.tried, c)[i] # Append(v.tried, c)[i + 1]
      OBVIOUS
    <3>1. CASE i = n
      <4>1. v.tried # <<>>
        BY <1>3, <3>1
      <4>. QED
        BY <1>3, <1>5, <3>1, <4>1
    <3>2. CASE i # n
      <4>1. i \in 1..Len(call[k].tried) - 1 /\ i + 1 \in 1..n
        BY <1>3, <3>2
      <4>2. v.tried[i] # v.tried[i + 1]
        BY <1>1, <4>1 DEF CallOK
      <4>. QED
        BY <1>5, <4>1, <4>2
    <3>. QED
      BY <3>1, <3>2
  <2>2. n + 1 - 1 = n /\ n + 1 >= 1
    BY <1>3
  <2>3. u.want # None => Len(u.tried) <= 1 /\ \A i \in 1..Len(u.tried) : u.tried[i] = u.want
    <3>. SUFFICES ASSUME u.want # None
                  PROVE  Len(u.tried) <= 1 /\ \A i \in 1..Len(u.tried) : u.tried[i] = u.want
      OBVIOUS
    <3>1. n = 0 /\ c = u.want
      BY <1>2, <1>3
    <3>. QED
      BY <1>2, <1>5, <3>1
  <2>. QED
    BY <1>2, <1>3, <1>5, <2>1, <2>2, <2>3 DEF CallOK
<1>7. Longer(call[k].tried, u.tried)
  BY <1>2 DEF Longer
<1>8. Moves(k, u) /\ OnlyFaults
  BY Reads_facts DEF Tries
<1>. HIDE DEF u
<1>. QED
  BY <1>4, <1>6, <1>7, <1>8, Call_step

\* What is drawn is a channel.
LEMMA Draws ==
  ASSUME IInv, NEW b \in BOOLEAN
  PROVE  CacheGetRandomSatisfiedChannel(b) \subseteq Channels /\ GetRandomSatisfiedChannel(b) \subseteq Channels
<1>1. Top(Abilities) \subseteq Channels
  BY DEF Top, Abilities
<1>2. Top(copy) \subseteq Channels
  BY DEF IInv, TypeOK, RoutingTypeOK, Offers, Top
<1>. QED
  BY <1>1, <1>2 DEF CacheGetRandomSatisfiedChannel, GetRandomSatisfiedChannel

LEMMA Specific_ok ==
  ASSUME IInv, NEW k \in Calls, NEW c \in Channels, Specific(k, c)
  PROVE  IInv'
<1> DEFINE v == [call[k] EXCEPT !.want = c]
           u == [v EXCEPT !.at = "refused"]
<1>1. call[k] \in CallType /\ CallOK(call[k]) /\ call[k].at = "idle"
  BY Call_facts DEF Specific, In
<1>2. call[k].tried = <<>> /\ call[k].left = 0
  BY <1>1 DEF CallOK
<1>3. v \in CallType /\ v.tried = <<>> /\ v.want = c /\ v.left = 0
  BY <1>1, <1>2 DEF CallType
<1>4. u \in CallType /\ u.at = "refused" /\ u.tried = <<>> /\ u.want = c /\ u.left = 0
  BY <1>3 DEF CallType, Answered
<1>. HIDE DEF v
<1>5. CASE Tries(k, v, c)
  BY <1>2, <1>3, <1>5, RetryAssumption, Tries_ok
<1>. HIDE DEF u
<1>6. CASE Moves(k, u) /\ Reads
  <2>1. CallOK(u)
    BY <1>4, RetryAssumption DEF CallOK
  <2>. QED
    BY <1>2, <1>4, <1>6, <2>1, Reads_facts, Call_step DEF Longer
<1>7. CASE Missed(k, "refused")
  BY <1>7, Missed_ok DEF Answered
<1>. QED
  BY <1>5, <1>6, <1>7 DEF Specific, v, u

LEMMA Fresh_tries_ok ==
  ASSUME IInv, NEW k \in Calls, call[k].at \in {"idle", "load"}, NEW c \in Channels, Tries(k, call[k], c)
  PROVE  IInv'
<1>1. call[k] \in CallType /\ call[k].tried = <<>> /\ call[k].want = None /\ call[k].left = 0
  BY Call_facts DEF CallOK
<1>. QED
  BY <1>1, RetryAssumption, Tries_ok

LEMMA Moves_to_a_draw ==
  ASSUME IInv, NEW k \in Calls, NEW c \in Channels, NEW at, Reads,
         Moves(k, [call[k] EXCEPT !.at = at, !.ch = c]),
         (at = "load" /\ call[k].at = "idle") \/ (at = "reload" /\ call[k].at = "loop" /\ call[k].left > 0)
  PROVE  IInv'
<1> DEFINE v == [call[k] EXCEPT !.at = at, !.ch = c]
<1>1. call[k] \in CallType /\ CallOK(call[k])
  BY Call_facts
<1>2. /\ v \in CallType /\ v.at = at /\ v.ch = c /\ v.want = call[k].want /\ v.left = call[k].left
      /\ v.tried = call[k].tried /\ v.lastFailedChannelId = call[k].lastFailedChannelId
  BY <1>1 DEF CallType
<1>. HIDE DEF v
<1>3. CallOK(v)
  BY <1>1, <1>2 DEF CallOK
<1>4. Longer(call[k].tried, v.tried) /\ OnlyFaults
  BY <1>2, Reads_facts DEF Longer
<1>. QED
  BY <1>2, <1>3, <1>4, Call_step DEF v

LEMMA Arrives_ok ==
  ASSUME IInv, NEW k \in Calls, Arrives(k)
  PROVE  IInv'
<1>1. ASSUME NEW c \in Channels, Specific(k, c) PROVE IInv'
  BY <1>1, Specific_ok
<1>2. CASE DrawCached(k)
  <2>1. call[k].at = "idle"
    BY <1>2 DEF DrawCached, In
  <2>2. ASSUME NEW c \in CacheGetRandomSatisfiedChannel(FALSE), Tries(k, call[k], c) PROVE IInv'
    BY <2>1, <2>2, Draws, Fresh_tries_ok
  <2>3. CASE Answers(k, "none") /\ Reads
    BY <2>3, Reads_facts, Answers_ok DEF Answered
  <2>. QED
    BY <1>2, <2>2, <2>3 DEF DrawCached
<1>3. CASE DrawAbility(k)
  <2>1. call[k].at = "idle"
    BY <1>3 DEF DrawAbility, In
  <2>2. ASSUME NEW c \in GetRandomSatisfiedChannel(FALSE), Reads,
               Moves(k, [call[k] EXCEPT !.at = "load", !.ch = c])
        PROVE  IInv'
    <3>1. c \in Channels
      BY Draws
    <3>. QED
      BY <2>1, <2>2, <3>1, Moves_to_a_draw
  <2>3. CASE Answers(k, "none") /\ Reads
    BY <2>3, Reads_facts, Answers_ok DEF Answered
  <2>4. CASE Missed(k, "refused")
    BY <2>4, Missed_ok DEF Answered
  <2>. QED
    BY <1>3, <2>2, <2>3, <2>4 DEF DrawAbility
<1>. QED
  BY <1>1, <1>2, <1>3 DEF Arrives

\* A turn of the loop.
LEMMA Turn_ok ==
  ASSUME IInv, NEW k \in Calls, call[k].at \in {"loop", "reload"}, call[k].left > 0,
         NEW c \in Channels, Turn(k, c)
  PROVE  IInv'
<1> DEFINE v == [call[k] EXCEPT !.left = @ - 1]
           u == [v EXCEPT !.at = "loop"]
<1>1. call[k] \in CallType /\ CallOK(call[k])
  BY Call_facts
<1>2. /\ call[k].left \in 0..RetryTimes /\ call[k].left - 1 \in 0..RetryTimes
      /\ call[k].tried \in Seq(Channels) /\ Len(call[k].tried) \in Nat
  BY <1>1, RetryAssumption DEF CallType
<1>3. /\ v \in CallType /\ v.want = call[k].want /\ v.left = call[k].left - 1
      /\ v.tried = call[k].tried /\ v.lastFailedChannelId = call[k].lastFailedChannelId
  BY <1>1, <1>2 DEF CallType
<1>4. /\ u \in CallType /\ u.at = "loop" /\ u.want = v.want /\ u.left = v.left
      /\ u.tried = v.tried /\ u.lastFailedChannelId = v.lastFailedChannelId
  BY <1>3 DEF CallType
<1>5. call[k].want = None /\ call[k].lastFailedChannelId = call[k].tried[Len(call[k].tried)]
  BY <1>1, <1>2 DEF CallOK
<1>. HIDE DEF v
<1>6. CASE c = call[k].lastFailedChannelId /\ Moves(k, u) /\ Reads
  <2>. HIDE DEF u
  <2>1. /\ u.want = None /\ u.tried = call[k].tried /\ u.left = call[k].left - 1 /\ u.at = "loop"
        /\ u.lastFailedChannelId = call[k].tried[Len(call[k].tried)]
    BY <1>3, <1>4, <1>5
  <2>2. /\ Len(call[k].tried) >= 1 /\ Len(call[k].tried) + call[k].left <= RetryTimes + 1
        /\ \A i \in 1..Len(call[k].tried) - 1 : call[k].tried[i] # call[k].tried[i + 1]
    BY <1>1 DEF CallOK
  <2>3. Len(call[k].tried) + (call[k].left - 1) <= RetryTimes + 1
    BY <1>2, <2>2, RetryAssumption
  <2>4. CallOK(u)
    BY <2>1, <2>2, <2>3 DEF CallOK
  <2>. QED
    BY <1>3, <1>4, <1>6, <2>4, Reads_facts, Call_step DEF Longer
<1>7. CASE c # call[k].lastFailedChannelId /\ Tries(k, v, c)
  <2>1. Len(v.tried) + 1 + v.left <= RetryTimes + 1
    BY <1>1, <1>2, <1>3, RetryAssumption DEF CallOK
  <2>. QED
    BY <1>3, <1>5, <1>7, <2>1, Tries_ok
<1>. QED
  BY <1>6, <1>7 DEF Turn, v, u

\* A worker that a request leaves behind, or that another change or a test needs, only ever
\* begins at a channel of its own; the others keep theirs.
LEMMA Begins_facts ==
  ASSUME RoutingTypeOK, NEW w \in Workers, NEW c \in Channels, NEW at, NEW to, NEW prio,
         Begins(w, c, at, to, prio)
  PROVE  /\ job[w].at = "idle" /\ job'[w].ch = c
         /\ \A v \in Workers \ {w} : job'[v].ch = job[v].ch /\ job'[v].at = job[v].at
<1>1. /\ job[w].at = "idle"
      /\ job'[w] = [at |-> at, ch |-> c, to |-> to, prio |-> prio, alone |-> ~Busy(c)]
      /\ \A v \in Workers \ {w} : job'[v] = IF job[v].ch = c THEN [job[v] EXCEPT !.alone = FALSE] ELSE job[v]
  BY DEF Begins
<1>2. \A v \in Workers : job[v] \in Jobs
  BY DEF RoutingTypeOK
<1>3. ASSUME NEW v \in Workers \ {w} PROVE job'[v].ch = job[v].ch /\ job'[v].at = job[v].at
  <2>1. job[v] \in Jobs /\ job'[v] = IF job[v].ch = c THEN [job[v] EXCEPT !.alone = FALSE] ELSE job[v]
    BY <1>1, <1>2
  <2>. QED
    BY <2>1 DEF Jobs
<1>. QED
  BY <1>1, <1>3

\* An attempt has a worker of its own.
LEMMA Attempt_workers ==
  ASSUME NEW k \in Calls, NEW i \in 1..RetryTimes + 1
  PROVE  /\ <<k, i>> \in Workers /\ <<k, i>> # Tester /\ <<k, i>> \notin Admins
         /\ \A q \in Calls, j \in 1..RetryTimes + 1 : <<q, j>> = <<k, i>> => q = k /\ j = i
BY RetryAssumption DEF Attempts

LEMMA RelayFails_ok ==
  ASSUME IInv, NEW k \in Calls, NEW worthwhile \in BOOLEAN, NEW disables \in BOOLEAN,
         RelayFails(k, worthwhile, disables)
  PROVE  IInv'
<1> DEFINE first == Len(call[k].tried) = 1
           left == IF ~first THEN call[k].left ELSE IF shouldRetry(k, worthwhile) THEN RetryTimes ELSE 0
           v == [call[k] EXCEPT !.at = "loop", !.left = left, !.lastFailedChannelId = call[k].ch]
           n == Len(call[k].tried)
<1>1. /\ call[k] \in CallType /\ CallOK(call[k]) /\ call[k].at = "relay" /\ Moves(k, v)
      /\ WritesNothing /\ UNCHANGED <<node, cached, copy, faults>>
  BY Call_facts DEF RelayFails, In
<1>2. /\ call[k].ch \in Channels /\ call[k].tried \in Seq(Channels) /\ n \in 1..RetryTimes + 1
      /\ call[k].ch = call[k].tried[n] /\ call[k].left \in 0..RetryTimes
      /\ n + call[k].left <= RetryTimes + 1
      /\ \A i \in 1..n - 1 : call[k].tried[i] # call[k].tried[i + 1]
      /\ call[k].want # None => call[k].left = 0 /\ n <= 1 /\ \A i \in 1..n : call[k].tried[i] = call[k].want
  BY <1>1, RetryAssumption DEF CallOK, CallType
<1>3. left \in 0..RetryTimes /\ n + left <= RetryTimes + 1 /\ (call[k].want # None => left = 0)
  BY <1>2, RetryAssumption DEF shouldRetry
<1>. HIDE DEF left
<1>4. /\ v \in CallType /\ v.at = "loop" /\ v.want = call[k].want /\ v.left = left
      /\ v.tried = call[k].tried /\ v.lastFailedChannelId = call[k].ch
  BY <1>1, <1>2, <1>3 DEF CallType
<1>. HIDE DEF v
<1>5. CallOK(v)
  BY <1>2, <1>3, <1>4 DEF CallOK
<1>6. /\ call' \in [Calls -> CallType] /\ tests' \in TestsType /\ Requests'
      /\ call' = [call EXCEPT ![k] = v]
  BY <1>1, <1>4, <1>5, Moves_ok
<1>7. Copies'
  BY <1>1 DEF WritesNothing, IInv, Copies
<1>8. CASE disables
  <2>1. Begins(<<k, n>>, call[k].ch, "mark", "auto", None) /\ Asks
    BY <1>8 DEF RelayFails, processChannelRelayError
  <2>2. <<k, n>> \in Workers
    BY <1>2, Attempt_workers
  <2>3. ops' \in 0..MaxOps
    BY <2>1, RoutingAssumption DEF Asks, IInv, TypeOK, RoutingTypeOK
  <2>4. RoutingTypeOK' /\ Routes'
    BY <1>1, <1>2, <2>1, <2>2, <2>3, Begins_ok DEF IInv, TypeOK
  <2>5. DisabledForItsOwnErrors'
    <3>. SUFFICES ASSUME NEW q \in Calls, NEW i \in 1..RetryTimes + 1, job'[<<q, i>>].at # "idle"
                  PROVE  i <= Len(call'[q].tried) /\ job'[<<q, i>>].ch = call'[q].tried[i]
      BY DEF DisabledForItsOwnErrors
    <3>0. /\ job'[<<k, n>>].ch = call[k].ch
          /\ \A u \in Workers \ {<<k, n>>} : job'[u].ch = job[u].ch /\ job'[u].at = job[u].at
      BY <1>2, <2>1, <2>2, Begins_facts DEF IInv, TypeOK
    <3>1. call'[q].tried = call[q].tried
      BY <1>4, <1>6 DEF IInv, TypeOK
    <3>2. CASE <<q, i>> = <<k, n>>
      BY <1>2, <3>0, <3>1, <3>2
    <3>3. CASE <<q, i>> # <<k, n>>
      <4>1. job[<<q, i>>].at # "idle" /\ job'[<<q, i>>].ch = job[<<q, i>>].ch
        BY <3>0, <3>3, Attempt_workers
      <4>. QED
        BY <3>1, <4>1 DEF IInv, DisabledForItsOwnErrors
    <3>. QED
      BY <3>2, <3>3
  <2>. QED
    BY <1>6, <1>7, <2>4, <2>5 DEF IInv, TypeOK, CallType, TestsType
<1>9. CASE ~disables
  <2>1. UNCHANGED <<job, ops, tangled>>
    BY <1>9 DEF RelayFails
  <2>2. RoutingTypeOK' /\ Routes'
    BY <1>1, <2>1, Routes_unchanged DEF WritesNothing, IInv, TypeOK, RoutingTypeOK
  <2>3. DisabledForItsOwnErrors'
    BY <1>4, <1>6, <2>1, Errors_follow DEF Longer
  <2>. QED
    BY <1>6, <1>7, <2>2, <2>3 DEF IInv, TypeOK, CallType, TestsType
<1>. QED
  BY <1>8, <1>9

LEMMA Relay_ok ==
  ASSUME IInv, NEW k \in Calls, Relay(k)
  PROVE  IInv'
<1>0. {"ok", "none", "refused", "error"} \subseteq Answered /\ IgnoreFirst(k) \in BOOLEAN
  BY DEF Answered, IgnoreFirst
<1>1. CASE LoadChannel(k)
  <2>1. call[k].at = "load" /\ call[k].ch \in Channels
    BY <1>1, Call_facts DEF LoadChannel, In, CallOK
  <2>. QED
    BY <1>0, <1>1, <2>1, Fresh_tries_ok, Reads_facts, Answers_ok, Missed_ok DEF LoadChannel
<1>2. CASE RelaySucceeds(k)
  BY <1>0, <1>2, Reads_facts, Answers_ok DEF RelaySucceeds
<1>3. ASSUME NEW worthwhile \in BOOLEAN, NEW disables \in BOOLEAN, RelayFails(k, worthwhile, disables)
      PROVE  IInv'
  BY <1>3, RelayFails_ok
<1>4. GivesUp(k) => IInv'
  BY <1>0, Reads_facts, Answers_ok DEF GivesUp
<1>5. CASE LoopEnds(k)
  BY <1>4, <1>5 DEF LoopEnds
<1>6. CASE RedrawCached(k)
  <2>1. call[k].at = "loop" /\ call[k].left > 0
    BY <1>6 DEF RedrawCached, In
  <2>2. ASSUME NEW c \in CacheGetRandomSatisfiedChannel(IgnoreFirst(k)), Turn(k, c) PROVE IInv'
    <3>1. c \in Channels
      BY <1>0, Draws
    <3>. QED
      BY <2>1, <2>2, <3>1, Turn_ok
  <2>. QED
    BY <1>4, <1>6, <2>2 DEF RedrawCached
<1>7. CASE RedrawAbility(k)
  <2>1. call[k].at = "loop" /\ call[k].left > 0
    BY <1>7 DEF RedrawAbility, In
  <2>2. ASSUME NEW c \in GetRandomSatisfiedChannel(IgnoreFirst(k)), Reads,
               Moves(k, [call[k] EXCEPT !.at = "reload", !.ch = c])
        PROVE  IInv'
    <3>1. c \in Channels
      BY <1>0, Draws
    <3>. QED
      BY <2>1, <2>2, <3>1, Moves_to_a_draw
  <2>. QED
    BY <1>0, <1>4, <1>7, <2>2, Missed_ok DEF RedrawAbility
<1>8. CASE ReloadChannel(k)
  <2>1. call[k].at = "reload" /\ call[k].ch \in Channels /\ call[k].left > 0
    BY <1>8, Call_facts DEF ReloadChannel, In, CallOK
  <2>. QED
    BY <1>0, <1>4, <1>8, <2>1, Turn_ok, Missed_ok DEF ReloadChannel
<1>. QED
  BY <1>1, <1>2, <1>3, <1>5, <1>6, <1>7, <1>8 DEF Relay

(***************************************************************************)
(* What the other steps do to the copy and to the workers of the attempts. *)
(***************************************************************************)
\* The histories only grow.
Grows ==
    /\ UNCHANGED <<cached, copy>> /\ sync'.step = sync.step /\ sync'.seen = sync.seen
    /\ \A c \in Channels : was[c] \subseteq was'[c] /\ sync.was[c] \subseteq sync'.was[c]

LEMMA Copies_grow ==
  ASSUME Copies, Grows
  PROVE  Copies'
BY DEF Copies, Grows

LEMMA Writes_grow ==
  ASSUME RoutingTypeOK, UNCHANGED <<cached, copy>>, NEW c \in Channels, NEW r, NEW a,
         WritesRow(c, r) \/ WritesAbility(c, a) \/ WritesNothing
  PROVE  Grows
<1>1. CASE WritesRow(c, r)
  <2>1. was' = [was EXCEPT ![c] = @ \cup Seen(r)] /\ sync' = [sync EXCEPT !.was = [sync.was EXCEPT ![c] = @ \cup Seen(r)]]
    BY <1>1 DEF WritesRow
  <2>2. sync'.step = sync.step /\ sync'.seen = sync.seen /\ sync'.was = [sync.was EXCEPT ![c] = @ \cup Seen(r)]
    BY <2>1 DEF RoutingTypeOK
  <2>3. was \in [Channels -> SUBSET (Prios \cup {None})] /\ sync.was \in [Channels -> SUBSET (Prios \cup {None})]
    BY DEF RoutingTypeOK, Histories
  <2>. QED
    BY <2>1, <2>2, <2>3 DEF Grows
<1>2. CASE WritesAbility(c, a) \/ WritesNothing
  BY <1>2 DEF WritesAbility, WritesNothing, Grows
<1>. QED
  BY <1>1, <1>2

\* A worker stays at its channel until it is done.
Stays == \A v \in Workers : job'[v].at # "idle" => job[v].at # "idle" /\ job'[v].ch = job[v].ch

LEMMA Worker_stays ==
  ASSUME RoutingTypeOK, NEW w \in Workers, job[w].at # "idle", NEW j, job' = [job EXCEPT ![w] = j],
         j = NoJob \/ j.ch = job[w].ch
  PROVE  Stays
BY NoJob_facts DEF Stays, RoutingTypeOK

LEMMA Statement_stays ==
  ASSUME RoutingTypeOK, Routes, NEW w \in Workers, Statement(w)
  PROVE  Grows /\ Stays
<1> DEFINE c == job[w].ch
<1>0. job[w].at # "idle" /\ UNCHANGED <<cached, copy>>
  BY DEF Statement, UpdateWrite, UpdateReload, DeleteAbilities, AddAbilities, UpdateAbilityStatus,
         UpdateStatus, DeleteRow, DeleteRowAbilities, InsertRow, At
<1>1. c \in Channels /\ job[w] \in Jobs
  BY <1>0, At_facts
<1>2. \E r, a : WritesRow(c, r) \/ WritesAbility(c, a) \/ WritesNothing
  BY DEF Statement, UpdateWrite, UpdateReload, DeleteAbilities, AddAbilities, UpdateAbilityStatus,
         UpdateStatus, DeleteRow, DeleteRowAbilities, InsertRow, Breaks
<1>3. Grows
  BY <1>0, <1>1, <1>2, Writes_grow
<1>4. ASSUME NEW at, Goes(w, at) PROVE Stays
  <2>1. [job[w] EXCEPT !.at = at].ch = c
    BY <1>1 DEF Jobs
  <2>. QED
    BY <1>0, <1>4, <2>1, Worker_stays DEF Goes
<1>5. Ends(w) => Stays
  BY <1>0, Worker_stays DEF Ends
<1>6. ASSUME NEW at, Breaks(w, at) PROVE Stays
  <2>1. [job[w] EXCEPT !.at = at, !.alone = FALSE].ch = c
    BY <1>1 DEF Jobs
  <2>. QED
    BY <1>0, <1>6, <2>1, Worker_stays DEF Breaks
<1>7. UpdateReload(w) => Stays
  <2>. SUFFICES ASSUME UpdateReload(w) PROVE Stays
    OBVIOUS
  <2> DEFINE r == row[c]
             j == IF r.status \in Gone THEN [job[w] EXCEPT !.at = "clear"]
                  ELSE [job[w] EXCEPT !.at = "clear", !.to = r.status, !.prio = r.prio]
  <2>1. j.ch = c
    BY <1>1 DEF Jobs
  <2>2. job' = [job EXCEPT ![w] = j] => Stays
    <3>. HIDE DEF j
    <3>. QED
      BY <1>0, <2>1, Worker_stays
  <2>. QED
    BY <1>6, <2>2 DEF UpdateReload
<1>8. AddAbilities(w) => Stays
  BY <1>0, <1>6, Worker_stays DEF AddAbilities
<1>9. Stays
  BY <1>4, <1>5, <1>6, <1>7, <1>8
     DEF Statement, UpdateWrite, DeleteAbilities, UpdateAbilityStatus,
         UpdateStatus, DeleteRow, DeleteRowAbilities, InsertRow
<1>. QED
  BY <1>3, <1>9

LEMMA Stays_for_its_errors ==
  ASSUME DisabledForItsOwnErrors, Stays, UNCHANGED call
  PROVE  DisabledForItsOwnErrors'
BY Attempt_workers DEF DisabledForItsOwnErrors, Stays

\* Somebody who is not an attempt begins to change a channel.
LEMMA Begins_for_its_errors ==
  ASSUME RoutingTypeOK, DisabledForItsOwnErrors, UNCHANGED call, NEW w \in Admins \cup {Tester},
         NEW c \in Channels, NEW at, NEW to, NEW prio, Begins(w, c, at, to, prio)
  PROVE  DisabledForItsOwnErrors'
<1>1. w \in Workers
  BY RetryAssumption
<1>2. \A v \in Workers \ {w} : job'[v].ch = job[v].ch /\ job'[v].at = job[v].at
  BY <1>1, Begins_facts
<1>3. ASSUME NEW k \in Calls, NEW i \in 1..RetryTimes + 1
      PROVE  <<k, i>> \in Workers \ {w}
  <2>1. /\ <<k, i>> \in Workers /\ <<k, i>> # Tester /\ <<k, i>> \notin Admins
    BY Attempt_workers
  <2>. QED
    BY <2>1
<1>. QED
  BY <1>2, <1>3 DEF DisabledForItsOwnErrors

\* The invariant, for a step that leaves the requests where they are.
LEMMA Others_ok ==
  ASSUME IInv, UNCHANGED call, tests' \in TestsType, RoutingTypeOK' /\ Routes', Copies',
         DisabledForItsOwnErrors'
  PROVE  IInv'
BY DEF IInv, TypeOK, TestsType, Requests

LEMMA Workers_ok ==
  ASSUME IInv, NEW w \in Workers, Statement(w), UNCHANGED <<call, tests>>
  PROVE  IInv'
<1>1. RoutingTypeOK' /\ Routes' /\ Grows /\ Stays
  BY Statement_ok, Statement_stays DEF IInv, TypeOK
<1>2. Copies' /\ DisabledForItsOwnErrors'
  BY <1>1, Copies_grow, Stays_for_its_errors DEF IInv
<1>3. tests' \in TestsType
  BY DEF IInv, TypeOK, TestsType
<1>. QED
  BY <1>1, <1>2, <1>3, Others_ok

LEMMA Admins_ok ==
  ASSUME IInv, NEW a \in Admins, Administer(a), UNCHANGED <<call, tests>>
  PROVE  IInv'
<1>1. RoutingTypeOK' /\ Routes'
  BY Administer_ok DEF IInv, TypeOK
<1>2. PICK c, at, to, prio : c \in Channels /\
        Begins(a, c, at, to, prio) /\ WritesNothing /\ UNCHANGED <<cached, copy>>
  BY DEF Administer, UpdateChannel, DeleteChannel, AddChannel, AsksToChange
<1>3. Copies'
  BY <1>2, Writes_grow, Copies_grow DEF IInv, TypeOK
<1>4. DisabledForItsOwnErrors'
  BY <1>2, Begins_for_its_errors DEF IInv, TypeOK
<1>5. tests' \in TestsType
  BY DEF IInv, TypeOK, TestsType
<1>. QED
  BY <1>1, <1>3, <1>4, <1>5, Others_ok

LEMMA DeleteDisabled_ok ==
  ASSUME IInv, DeleteDisabledChannel, UNCHANGED <<call, tests>>
  PROVE  IInv'
<1>1. RoutingTypeOK' /\ Routes'
  BY DeleteDisabledChannel_ok DEF IInv, TypeOK
<1>2. Grows
  <2>1. sync' = [sync EXCEPT !.was = [c \in Channels |-> sync.was[c] \cup Seen(row'[c])]]
    BY DEF DeleteDisabledChannel
  <2>2. /\ sync'.step = sync.step /\ sync'.seen = sync.seen
        /\ sync'.was = [c \in Channels |-> sync.was[c] \cup Seen(row'[c])]
    BY <2>1 DEF IInv, TypeOK, RoutingTypeOK
  <2>. QED
    BY <2>2 DEF DeleteDisabledChannel, Grows
<1>3. Copies' /\ DisabledForItsOwnErrors'
  BY <1>2, Copies_grow DEF IInv, DeleteDisabledChannel, DisabledForItsOwnErrors
<1>4. tests' \in TestsType
  BY DEF IInv, TypeOK, TestsType
<1>. QED
  BY <1>1, <1>3, <1>4, Others_ok

\* The process is over.
LEMMA Dies_with_its_requests ==
  ASSUME IInv, Dies, faults' \in 0..MaxFaults, Survives, node # "down"
  PROVE  IInv'
<1>1. RoutingTypeOK' /\ Routes' /\ copy' = Nothing /\ was' = [c \in Channels |-> {None}]
      /\ sync'.step = "sleep"
  BY Dies_ok DEF IInv, TypeOK
<1>2. Copies'
  BY <1>1 DEF Copies, Nothing
<1>3. \A w \in Workers : job'[w].at = "idle"
  BY NoJob_facts DEF Dies
<1>4. DisabledForItsOwnErrors'
  BY <1>3, Attempt_workers DEF DisabledForItsOwnErrors
<1>5. /\ call' = [k \in Calls |-> IF call[k].at \in Answered \cup {"idle"} THEN call[k]
                                  ELSE [NoCall EXCEPT !.at = "dropped"]]
      /\ tests' = [running |-> FALSE, looping |-> FALSE, list |-> Untested]
  BY DEF Survives, Dies
<1>6. tests' \in TestsType
  BY <1>5 DEF TestsType, Untested
<1> DEFINE v == [NoCall EXCEPT !.at = "dropped"]
<1>7. v \in CallType /\ v.at = "dropped" /\ v.want = None /\ v.left = 0 /\ v.tried = <<>>
  <2>1. NoCall \in CallType /\ NoCall.want = None /\ NoCall.left = 0 /\ NoCall.tried = <<>>
    BY RetryAssumption DEF NoCall, CallType
  <2>. QED
    BY <2>1 DEF CallType, Answered
<1>. HIDE DEF v
<1>8. CallOK(v)
  BY <1>7, RetryAssumption DEF CallOK
<1>9. \A k \in Calls : call[k] \in CallType /\ CallOK(call[k])
  BY Call_facts
<1>10. call' \in [Calls -> CallType] /\ Requests'
  BY <1>5, <1>7, <1>8, <1>9 DEF Requests, v
<1>. QED
  BY <1>1, <1>2, <1>4, <1>6, <1>10 DEF IInv, TypeOK, CallType, TestsType

LEMMA Process_ok ==
  ASSUME IInv, Sync \/ Stop \/ Restart, Survives
  PROVE  IInv'
<1>0. RoutingTypeOK /\ Routes /\ Copies /\ tests \in TestsType
  BY DEF IInv, TypeOK, TestsType
<1>1. CASE ReadChannels
  <2>1. RoutingTypeOK' /\ Routes' /\ UNCHANGED <<row, ability, job, cached, node, copy, ops, tangled, was>>
        /\ \A c \in Channels : sync'.seen[c] \in sync'.was[c]
    BY <1>0, <1>1, ReadChannels_ok
  <2>2. UNCHANGED <<call, tests>>
    BY <2>1 DEF Survives
  <2>3. Copies' /\ DisabledForItsOwnErrors'
    BY <2>1, <2>2 DEF IInv, Copies, DisabledForItsOwnErrors
  <2>. QED
    BY <1>0, <2>1, <2>2, <2>3, Others_ok
<1>2. CASE BuildCopy
  <2>1. CASE Dies
    <3>1. faults' \in 0..MaxFaults
      BY <1>0, <1>2, BuildCopy_ok DEF RoutingTypeOK
    <3>2. CASE node # "down"
      BY <2>1, <3>1, <3>2, Dies_with_its_requests
    <3>3. CASE node = "down"
      <4>1. RoutingTypeOK' /\ Routes' /\ copy' = Nothing /\ was' = [c \in Channels |-> {None}]
            /\ sync'.step = "sleep"
        BY <1>0, <2>1, <3>1, Dies_ok
      <4>2. Copies'
        BY <4>1 DEF Copies, Nothing
      <4>3. \A w \in Workers : job'[w].at = "idle"
        BY <2>1, NoJob_facts DEF Dies
      <4>4. DisabledForItsOwnErrors'
        BY <4>3, Attempt_workers DEF DisabledForItsOwnErrors
      <4>5. UNCHANGED <<call, tests>>
        BY <3>3 DEF Survives
      <4>. QED
        BY <1>0, <4>1, <4>2, <4>4, <4>5, Others_ok
    <3>. QED
      BY <3>2, <3>3
  <2>2. CASE copy' = sync.seen /\ was' = sync.was /\ sync.step = "read" /\ node' = "up"
             /\ UNCHANGED <<row, ability, job, cached, ops, faults, tangled>>
    <3>1. RoutingTypeOK' /\ Routes' /\ sync'.step = "sleep"
      BY <1>0, <1>2, BuildCopy_ok
    <3>2. UNCHANGED <<call, tests>>
      BY <2>2 DEF Survives
    <3>3. Copies' /\ DisabledForItsOwnErrors'
      BY <1>0, <2>2, <3>1, <3>2 DEF IInv, Copies, DisabledForItsOwnErrors
    <3>. QED
      BY <1>0, <3>1, <3>2, <3>3, Others_ok
  <2>. QED
    BY <1>0, <1>2, <2>1, <2>2, BuildCopy_ok
<1>3. CASE Stop
  <2>1. faults' \in 0..MaxFaults /\ Dies /\ node # "down"
    BY <1>0, <1>3, RoutingAssumption DEF Stop, RoutingTypeOK
  <2>. QED
    BY <2>1, Dies_with_its_requests
<1>4. CASE Restart
  <2>1. RoutingTypeOK' /\ Routes'
    BY <1>0, <1>4, Restart_ok
  <2>2. UNCHANGED <<job, call, tests, cached, copy, was, sync>>
    BY <1>4 DEF Restart, Survives, cache
  <2>3. Copies' /\ DisabledForItsOwnErrors'
    BY <1>0, <2>2 DEF IInv, Copies, DisabledForItsOwnErrors
  <2>. QED
    BY <1>0, <2>1, <2>2, <2>3, Others_ok
<1>. QED
  BY <1>1, <1>2, <1>3, <1>4 DEF Sync

\* The tests of the channels.
LEMMA Tests_ok ==
  ASSUME IInv, TestsStart \/ TestsDoNotStart \/ TestsEnd
  PROVE  IInv'
<1>1. UNCHANGED <<row, ability, job, tangled, cached, copy, node, sync, was, call>>
  BY DEF TestsStart, TestsDoNotStart, TestsEnd, database, cache, routing
<1>2. ops' \in 0..MaxOps /\ faults' \in 0..MaxFaults
  BY RoutingAssumption DEF TestsStart, TestsDoNotStart, TestsEnd, Asks, IInv, TypeOK, RoutingTypeOK, routing, bounds
<1>3. tests' \in TestsType
  <2>1. CASE TestsStart
    <3> DEFINE list == [c \in Channels |-> CASE row[c].status \in Gone -> "none"
                                            [] row[c].status = "enabled" -> "on" [] OTHER -> "off"]
    <3>1. \A c \in Channels : list[c] \in {"none", "on", "off", "both"}
      BY DEF Gone
    <3>2. list \in [Channels -> {"none", "on", "off", "both"}]
      BY <3>1
    <3>3. tests' = [running |-> TRUE, looping |-> TRUE, list |-> list]
      BY <2>1 DEF TestsStart
    <3>. HIDE DEF list
    <3>. QED
      BY <3>2, <3>3 DEF TestsType
  <2>2. CASE TestsDoNotStart \/ TestsEnd
    BY <2>2 DEF TestsDoNotStart, TestsEnd, TestsType, IInv, TypeOK
  <2>. QED
    BY <2>1, <2>2
<1>4. RoutingTypeOK' /\ Routes'
  BY <1>1, <1>2, Routes_unchanged DEF IInv, TypeOK, RoutingTypeOK
<1>5. Copies' /\ DisabledForItsOwnErrors'
  BY <1>1 DEF IInv, Copies, DisabledForItsOwnErrors
<1>. QED
  BY <1>1, <1>3, <1>4, <1>5, Others_ok

LEMMA Test_ok ==
  ASSUME IInv, NEW c \in Channels, Test(c)
  PROVE  IInv'
<1>1. WritesNothing /\ UNCHANGED <<node, cached, copy, bounds, call>>
  BY DEF Test, TestChangesNothing, TestDisables, TestEnables, Tested, Tests
<1>2. PICK left \in {"none", "both"} : tests' = [tests EXCEPT !.list[c] = left]
  BY DEF Test, TestChangesNothing, TestDisables, TestEnables, Tested, Tests
<1>3. tests' \in TestsType
  BY <1>2 DEF TestsType, IInv, TypeOK
<1>4. ops' \in 0..MaxOps /\ UNCHANGED faults
  BY <1>1 DEF bounds, IInv, TypeOK, RoutingTypeOK
<1>5. Copies'
  BY <1>1, Writes_grow, Copies_grow DEF IInv, TypeOK
<1>6. CASE UNCHANGED <<job, tangled>>
  <2>1. RoutingTypeOK' /\ Routes'
    BY <1>1, <1>4, <1>6, Routes_unchanged DEF WritesNothing, IInv, TypeOK, RoutingTypeOK
  <2>2. DisabledForItsOwnErrors'
    BY <1>1, <1>6 DEF IInv, DisabledForItsOwnErrors
  <2>. QED
    BY <1>1, <1>3, <1>5, <2>1, <2>2, Others_ok
<1>7. ASSUME NEW to \in {"enabled", "auto"}, Begins(Tester, c, "mark", to, None)
      PROVE  IInv'
  <2>0. Tester \in Workers
    BY RetryAssumption
  <2>1. RoutingTypeOK' /\ Routes'
    BY <1>1, <1>4, <1>7, <2>0, Begins_ok DEF IInv, TypeOK
  <2>2. DisabledForItsOwnErrors'
    BY <1>1, <1>7, Begins_for_its_errors DEF IInv, TypeOK
  <2>. QED
    BY <1>1, <1>3, <1>5, <2>1, <2>2, Others_ok
<1>. QED
  BY <1>6, <1>7 DEF Test, TestChangesNothing, TestDisables, TestEnables

(***************************************************************************)
(* The invariant is inductive.                                             *)
(***************************************************************************)
LEMMA Init_ok ==
  ASSUME Init
  PROVE  IInv
<1>1. row \in [Channels -> RowType] /\ \A c \in Channels : row[c].status \in {"never", "enabled", "manual"}
  <2>1. [status : {"enabled", "manual"}, prio : Prios] \cup {NoRow} \subseteq RowType
    BY RoutingAssumption DEF NoRow, RowType, Statuses, Gone
  <2>2. \A r \in [status : {"enabled", "manual"}, prio : Prios] \cup {NoRow} : r.status \in {"never", "enabled", "manual"}
    BY DEF NoRow
  <2>. QED
    BY <2>1, <2>2 DEF Init, RoutingInit
<1>2. ASSUME NEW c \in Channels
      PROVE  ability[c] \in AbilityType /\ Follows(row[c], ability[c])
  <2>1. ability[c] = CASE row[c].status = "never" -> NoAbility
                       [] row[c].status = "enabled" -> [state |-> "on", prio |-> row[c].prio]
                       [] OTHER -> [state |-> "off", prio |-> row[c].prio]
    BY DEF Init, RoutingInit
  <2>2. row[c] \in RowType /\ row[c].status \in {"never", "enabled", "manual"}
    BY <1>1
  <2>3. CASE row[c].status = "never"
    BY <2>1, <2>3 DEF NoAbility, AbilityType, Follows, Gone
  <2>4. CASE row[c].status = "enabled"
    BY <2>1, <2>2, <2>4 DEF AbilityType, RowType, Follows, On
  <2>5. CASE row[c].status = "manual"
    BY <2>1, <2>2, <2>5 DEF AbilityType, RowType, Follows, On
  <2>. QED
    BY <2>2, <2>3, <2>4, <2>5
<1>3. ability \in [Channels -> AbilityType]
  BY <1>2 DEF Init, RoutingInit
<1>4. job = [w \in Workers |-> NoJob] /\ tangled = [c \in Channels |-> FALSE]
  BY DEF Init, RoutingInit
<1>5. Routes
  <2>0. None \notin Channels
    BY RoutingAssumption
  <2>1. Jobs_are_ok /\ Alone_is_alone /\ Untangled /\ Phases
    BY <1>4, <2>0, NoJob_facts DEF Jobs_are_ok, Alone_is_alone, Untangled, Phases
  <2>2. Rest
    BY <1>2 DEF Rest
  <2>. QED
    BY <2>1, <2>2 DEF Routes
<1>6. Nothing \in Offers /\ [c \in Channels |-> Offer(row[c])] \in Offers
  BY <1>1, Offer_type DEF Nothing, Offers
<1>7. copy \in Offers /\ was \in Histories /\ \A c \in Channels : copy[c] \in was[c]
  <2>1. copy \in Offers
    BY <1>6 DEF Init, RoutingInit
  <2>. QED
    BY <2>1 DEF Init, RoutingInit, Offers, Histories
<1>8. sync \in SyncType /\ sync.step = "sleep"
  BY <1>6 DEF Init, RoutingInit, SyncType, Histories
<1>9. RoutingTypeOK
  BY <1>1, <1>3, <1>4, <1>7, <1>8, NoJob_facts, RoutingAssumption
     DEF Init, RoutingInit, RoutingTypeOK, RowType, AbilityType, SyncType
<1>10. NoCall \in CallType /\ CallOK(NoCall)
  <2>1. NoCall \in CallType
    BY RetryAssumption DEF NoCall, CallType
  <2>. QED
    BY <2>1, RetryAssumption DEF NoCall, CallOK
<1>11. call \in [Calls -> CallType] /\ Requests /\ tests \in TestsType
  BY <1>10 DEF Init, Requests, TestsType, Untested
<1>12. Copies /\ DisabledForItsOwnErrors
  BY <1>4, <1>7, <1>8, NoJob_facts, Attempt_workers DEF Copies, DisabledForItsOwnErrors
<1>. QED
  BY <1>5, <1>9, <1>11, <1>12 DEF IInv, TypeOK, CallType, TestsType

LEMMA Next_ok ==
  ASSUME IInv, [Next]_vars
  PROVE  IInv'
<1>1. ASSUME NEW k \in Calls, Arrives(k) \/ Relay(k) PROVE IInv'
  BY <1>1, Arrives_ok, Relay_ok
<1>2. ASSUME NEW w \in Workers, Statement(w), UNCHANGED <<call, tests>> PROVE IInv'
  BY <1>2, Workers_ok
<1>3. ASSUME NEW a \in Admins, Administer(a), UNCHANGED <<call, tests>> PROVE IInv'
  BY <1>3, Admins_ok
<1>4. CASE DeleteDisabledChannel /\ UNCHANGED <<call, tests>>
  BY <1>4, DeleteDisabled_ok
<1>5. CASE (Sync \/ Stop \/ Restart) /\ Survives
  BY <1>5, Process_ok
<1>6. CASE TestsStart \/ TestsDoNotStart \/ TestsEnd
  BY <1>6, Tests_ok
<1>7. ASSUME NEW c \in Channels, Test(c) PROVE IInv'
  BY <1>7, Test_ok
<1>8. CASE UNCHANGED vars
  <2>1. UNCHANGED <<row, ability, job, cached, node, sync, copy, ops, faults, tangled, was, call, tests>>
    BY <1>8 DEF vars, routing, database, cache, bounds
  <2>2. RoutingTypeOK' /\ Routes' /\ Copies' /\ DisabledForItsOwnErrors' /\ tests' \in TestsType
    BY <2>1, Routes_unchanged
       DEF IInv, TypeOK, RoutingTypeOK, Copies, DisabledForItsOwnErrors, TestsType
  <2>. QED
    BY <2>1, <2>2, Others_ok
<1>. QED
  BY <1>1, <1>2, <1>3, <1>4, <1>5, <1>6, <1>7, <1>8 DEF Next

LEMMA Invariance == Spec => []IInv
<1>1. Init => IInv
  BY Init_ok
<1>2. IInv /\ [Next]_vars => IInv'
  BY Next_ok
<1>. QED
  BY <1>1, <1>2, PTL DEF Spec

(***************************************************************************)
(* Nothing to draw, and synchronisations that end the process.             *)
(***************************************************************************)
\* Among finitely many offers one is the highest.
LEMMA Top_exists ==
  ASSUME NEW offers \in Offers, NEW c \in Channels, offers[c] # None
  PROVE  Top(offers) # {}
<1> DEFINE All == {d \in Channels : offers[d] # None}
           Above(d) == {e \in All : offers[d] <= offers[e]}
           Family == {Above(d) : d \in All}
<1>1. \A d \in All : offers[d] \in Int /\ d \in Channels
  BY RoutingAssumption DEF Offers
<1>2. Family \subseteq FiniteSubsetsOf(Channels)
  <2>. SUFFICES ASSUME NEW d \in All PROVE Above(d) \in FiniteSubsetsOf(Channels)
    OBVIOUS
  <2>1. Above(d) \subseteq Channels /\ IsFiniteSet(Channels)
    BY RoutingAssumption
  <2>2. IsFiniteSet(Above(d))
    BY <2>1, FS_Subset
  <2>. QED
    BY <2>1, <2>2 DEF FiniteSubsetsOf
<1>3. Family # {}
  BY DEF All
<1>4. PICK x \in Family : \A y \in Family : <<y, x>> \notin StrictSubsetOrdering(Channels)
  BY <1>2, <1>3, WFMin, FS_StrictSubsetOrderingWellFounded
<1>5. PICK m \in All : x = Above(m)
  BY <1>4
<1>6. ASSUME NEW e \in All, ~(offers[e] <= offers[m]) PROVE FALSE
  <2>1. Above(e) \subseteq Above(m)
    BY <1>1, <1>6
  <2>2. m \in Above(m) /\ m \notin Above(e)
    BY <1>1, <1>6
  <2>3. Above(e) \in SUBSET Channels /\ Above(m) \in SUBSET Channels /\ Above(e) \in Family
    BY <1>1
  <2>. HIDE DEF Above, Family
  <2>4. <<Above(e), Above(m)>> \in StrictSubsetOrdering(Channels)
    BY <2>1, <2>2, <2>3 DEF StrictSubsetOrdering
  <2>. QED
    BY <1>4, <1>5, <2>3, <2>4
<1>7. DOMAIN offers = Channels
  BY DEF Offers
<1>8. m \in Top(offers)
  BY <1>6, <1>7 DEF Top
<1>. QED
  BY <1>8

\* A draw only fails when there is nothing to draw.
LEMMA Empty_draws ==
  ASSUME IInv, NEW c \in Channels
  PROVE  /\ copy[c] # None => CacheGetRandomSatisfiedChannel(FALSE) # {}
         /\ ability[c].state = "on" /\ ability[c].prio # None => GetRandomSatisfiedChannel(FALSE) # {}
<1>1. ASSUME copy[c] # None PROVE CacheGetRandomSatisfiedChannel(FALSE) # {}
  <2>1. Top(copy) # {}
    BY <1>1, Top_exists DEF IInv, TypeOK, RoutingTypeOK
  <2>. QED
    BY <1>1, <2>1 DEF CacheGetRandomSatisfiedChannel
<1>2. ASSUME ability[c].state = "on", ability[c].prio # None PROVE GetRandomSatisfiedChannel(FALSE) # {}
  <2>1. Abilities \in Offers
    BY DEF Abilities, Offers, IInv, TypeOK, RoutingTypeOK
  <2>2. Abilities[c] # None
    BY <1>2 DEF Abilities
  <2>3. Top(Abilities) # {}
    BY <2>1, <2>2, Top_exists
  <2>. QED
    BY <2>3 DEF GetRandomSatisfiedChannel
<1>. QED
  BY <1>1, <1>2

LEMMA None_step ==
  ASSUME IInv, NEW k \in Calls, Next, call[k].at = "idle", call'[k].at = "none"
  PROVE  UNCHANGED routing /\ IF cached THEN CacheGetRandomSatisfiedChannel(FALSE) = {}
                              ELSE GetRandomSatisfiedChannel(FALSE) = {}
<1>0. call[k].at # call'[k].at /\ call \in [Calls -> CallType]
  BY DEF IInv, TypeOK, CallType
<1>1. ~UNCHANGED call
  BY <1>0
<1>2. ASSUME NEW q \in Calls, NEW v, Moves(q, v)
      PROVE  q = k /\ v.at = "none"
  BY <1>0, <1>2 DEF Moves
<1>3. ASSUME NEW q \in Calls, NEW at, Answers(q, at)
      PROVE  q = k /\ at = "none"
  <2>1. [NoCall EXCEPT !.at = at, !.want = call[q].want, !.tried = call[q].tried].at = at
    BY DEF NoCall
  <2>. QED
    BY <1>2, <1>3, <2>1 DEF Answers
<1>4. ASSUME NEW q \in Calls, NEW v \in CallType, NEW c, Tries(q, v, c) PROVE FALSE
  <2>1. [v EXCEPT !.at = "relay", !.ch = c, !.tried = Append(@, c)].at = "relay"
    BY DEF CallType
  <2>. QED
    BY <1>2, <1>4, <2>1 DEF Tries
<1>5. ASSUME NEW q \in Calls, Relay(q) PROVE FALSE
  <2>1. call[q].at # "idle"
    BY <1>5 DEF Relay, LoadChannel, RelaySucceeds, RelayFails, LoopEnds, RedrawCached, RedrawAbility,
                ReloadChannel, In
  <2>2. \E v : Moves(q, v)
    BY <1>5 DEF Relay, LoadChannel, RelaySucceeds, RelayFails, LoopEnds, RedrawCached, RedrawAbility,
                ReloadChannel, Turn, Tries, GivesUp, Answers, Missed
  <2>. QED
    BY <1>2, <2>1, <2>2
<1>6. ASSUME NEW q \in Calls, Arrives(q)
      PROVE  UNCHANGED routing /\ IF cached THEN CacheGetRandomSatisfiedChannel(FALSE) = {}
                                  ELSE GetRandomSatisfiedChannel(FALSE) = {}
  <2>1. call[q] \in CallType
    BY Call_facts
  <2>2. ~Missed(q, "refused")
    BY <1>3 DEF Missed
  <2>3. ASSUME NEW c \in Channels, Specific(q, c) PROVE FALSE
    <3> DEFINE v == [call[q] EXCEPT !.want = c]
    <3>1. v \in CallType
      BY <2>1 DEF CallType
    <3>2. [v EXCEPT !.at = "refused"].at = "refused"
      BY <3>1 DEF CallType
    <3>3. ~Moves(q, [v EXCEPT !.at = "refused"])
      BY <1>2, <3>2
    <3>4. ~Tries(q, v, c)
      BY <1>4, <3>1
    <3>. QED
      BY <2>2, <2>3, <3>3, <3>4 DEF Specific
  <2>4. ASSUME NEW c PROVE ~Tries(q, call[q], c)
    BY <1>4, <2>1
  <2>5. ASSUME NEW c PROVE ~Moves(q, [call[q] EXCEPT !.at = "load", !.ch = c])
    <3>1. [call[q] EXCEPT !.at = "load", !.ch = c].at = "load"
      BY <2>1 DEF CallType
    <3>. QED
      BY <1>2, <3>1
  <2>. QED
    BY <1>6, <2>2, <2>3, <2>4, <2>5 DEF Arrives, DrawCached, DrawAbility, Reads
<1>7. (Sync \/ Stop \/ Restart) /\ Survives => FALSE
  <2>. SUFFICES ASSUME Survives PROVE FALSE
    OBVIOUS
  <2>1. call'[k] = call[k]
    BY <1>0, <1>1 DEF Survives
  <2>. QED
    BY <1>0, <2>1
<1>8. TestsStart \/ TestsDoNotStart \/ TestsEnd \/ (\E c \in Channels : Test(c)) => UNCHANGED call
  BY DEF TestsStart, TestsDoNotStart, TestsEnd, Test, TestChangesNothing, TestDisables, TestEnables, Tested, Tests
<1>. QED
  BY <1>1, <1>5, <1>6, <1>7, <1>8 DEF Next

\* What a synchronisation has read of a channel, and whatever the channel has offered
\* since, is remembered.
Fresh == sync.step = "read" => cached /\ \A c \in Channels : Offer(row[c]) \in sync.was[c]

LEMMA Fresh_grows ==
  ASSUME Fresh, Grows, UNCHANGED row
  PROVE  Fresh'
BY DEF Fresh, Grows

LEMMA Fresh_writes ==
  ASSUME RoutingTypeOK, Fresh, UNCHANGED <<cached, copy>>, NEW c \in Channels, NEW r, NEW a,
         WritesRow(c, r) \/ WritesAbility(c, a) \/ WritesNothing
  PROVE  Fresh'
<1>1. CASE WritesRow(c, r)
  <2>1. row' = [row EXCEPT ![c] = r] /\ sync' = [sync EXCEPT !.was = [sync.was EXCEPT ![c] = @ \cup Seen(r)]]
    BY <1>1 DEF WritesRow
  <2>2. sync'.step = sync.step /\ sync'.was = [sync.was EXCEPT ![c] = @ \cup Seen(r)]
    BY <2>1 DEF RoutingTypeOK
  <2>3. sync.was \in [Channels -> SUBSET (Prios \cup {None})] /\ DOMAIN row = Channels
    BY DEF RoutingTypeOK, Histories
  <2>. QED
    BY <2>1, <2>2, <2>3 DEF Fresh, Seen
<1>2. CASE WritesAbility(c, a) \/ WritesNothing
  BY <1>2, Writes_grow, Fresh_grows DEF WritesAbility, WritesNothing
<1>. QED
  BY <1>1, <1>2

LEMMA Fresh_step ==
  ASSUME IInv, Fresh, [Next]_vars
  PROVE  Fresh'
<1>0. RoutingTypeOK /\ Routes
  BY DEF IInv, TypeOK
<1>1. ASSUME UNCHANGED <<row, sync, cached>> PROVE Fresh'
  BY <1>1 DEF Fresh
<1>2. ASSUME NEW w \in Workers, Statement(w) PROVE Fresh'
  <2>1. job[w].at # "idle" /\ UNCHANGED <<cached, copy>>
    BY <1>2 DEF Statement, UpdateWrite, UpdateReload, DeleteAbilities, AddAbilities, UpdateAbilityStatus,
                UpdateStatus, DeleteRow, DeleteRowAbilities, InsertRow, At
  <2>2. job[w].ch \in Channels
    BY <1>0, <2>1, At_facts
  <2>3. \E r, a : WritesRow(job[w].ch, r) \/ WritesAbility(job[w].ch, a) \/ WritesNothing
    BY <1>2 DEF Statement, UpdateWrite, UpdateReload, DeleteAbilities, AddAbilities, UpdateAbilityStatus,
                UpdateStatus, DeleteRow, DeleteRowAbilities, InsertRow, Breaks
  <2>. QED
    BY <1>0, <2>1, <2>2, <2>3, Fresh_writes
<1>3. ASSUME NEW a \in Admins, Administer(a) PROVE Fresh'
  BY <1>1, <1>3 DEF Administer, UpdateChannel, DeleteChannel, AddChannel, AsksToChange, WritesNothing
<1>4. CASE DeleteDisabledChannel
  <2>1. sync' = [sync EXCEPT !.was = [c \in Channels |-> sync.was[c] \cup Seen(row'[c])]] /\ cached' = cached
    BY <1>4 DEF DeleteDisabledChannel
  <2>2. sync'.step = sync.step /\ sync'.was = [c \in Channels |-> sync.was[c] \cup Seen(row'[c])]
    BY <1>0, <2>1 DEF RoutingTypeOK
  <2>. QED
    BY <2>1, <2>2 DEF Fresh, Seen
<1>5. CASE Sync \/ Stop \/ Restart
  <2>1. CASE ReadChannels
    <3>1. \A c \in Channels : Offer(row[c]) \in sync'.was[c]
      BY <2>1 DEF ReadChannels
    <3>. QED
      BY <2>1, <3>1 DEF ReadChannels, Fresh
  <2>2. CASE BuildCopy
    BY <1>0, <2>2, BuildCopy_ok DEF Fresh
  <2>3. CASE Stop
    BY <2>3 DEF Stop, Dies, Fresh
  <2>4. CASE Restart
    BY <1>1, <2>4 DEF Restart, database, cache
  <2>. QED
    BY <1>5, <2>1, <2>2, <2>3, <2>4 DEF Sync
<1>6. ASSUME NEW k \in Calls, Arrives(k) \/ Relay(k) PROVE Fresh'
  <2>1. CASE \E worthwhile, disables \in BOOLEAN : RelayFails(k, worthwhile, disables)
    BY <1>1, <2>1 DEF RelayFails, WritesNothing
  <2>2. CASE ~\E worthwhile, disables \in BOOLEAN : RelayFails(k, worthwhile, disables)
    <3>1. Reads \/ UNCHANGED <<database, cache>>
      BY <1>6, <2>2 DEF Arrives, Specific, DrawCached, DrawAbility, Relay, LoadChannel, RelaySucceeds, LoopEnds,
                  RedrawCached, RedrawAbility, ReloadChannel, Turn, Tries, GivesUp, Missed
    <3>. QED
      BY <1>1, <3>1 DEF Reads, routing, database, cache
  <2>. QED
    BY <2>1, <2>2
<1>7. CASE TestsStart \/ TestsDoNotStart \/ TestsEnd \/ \E c \in Channels : Test(c)
  BY <1>1, <1>7 DEF TestsStart, TestsDoNotStart, TestsEnd, Test, TestChangesNothing, TestDisables, TestEnables,
                   Tested, Tests, WritesNothing, routing, database, cache
<1>8. CASE UNCHANGED vars
  BY <1>1, <1>8 DEF vars, routing, database, cache
<1>. QED
  BY <1>2, <1>3, <1>4, <1>5, <1>6, <1>7, <1>8 DEF Next

LEMMA Invariance_with_history == Spec => [](IInv /\ Fresh)
<1>1. Init => IInv /\ Fresh
  <2>1. Init => Fresh
    BY DEF Init, RoutingInit, Fresh
  <2>. QED
    BY <2>1, Init_ok
<1>2. IInv /\ Fresh /\ [Next]_vars => IInv' /\ Fresh'
  BY Next_ok, Fresh_step
<1>. QED
  BY <1>1, <1>2, PTL DEF Spec

(***************************************************************************)
(* The theorems.                                                           *)
(***************************************************************************)
\* Whatever happens to the channels, the requests and the process, the state has its types.
THEOREM Types == Spec => []TypeOK
<1>1. IInv => TypeOK
  BY DEF IInv
<1>. QED
  BY <1>1, Invariance, PTL

\* Between changes an ability says what its channel says, unless changes of the channel
\* overlapped or broke off (channel.go, ability.go).
THEOREM Abilities_follow == Spec => []AbilitiesFollowChannels
<1>1. IInv => AbilitiesFollowChannels
  BY DEF IInv, Routes, Rest, Follows, On, AbilitiesFollowChannels
<1>. QED
  BY <1>1, Invariance, PTL

\* What the copy says of a channel was true since the copy was read (cache.go).
THEOREM Copy_is_of_its_sync == Spec => []CopyIsOfItsSync
<1>1. IInv => CopyIsOfItsSync
  BY DEF IInv, Copies, CopyIsOfItsSync
<1>. QED
  BY <1>1, Invariance, PTL

\* A request moves on to another channel, at most RetryTimes times, and not at all when its
\* key names a channel (relay.go).
THEOREM Retries_move_on == Spec => []RetriesMoveOn
<1>1. ASSUME IInv, NEW k \in Calls
      PROVE  LET tried == call[k].tried IN
             /\ Len(tried) <= RetryTimes + 1
             /\ \A i \in 1..Len(tried) - 1 : tried[i] # tried[i + 1]
             /\ call[k].want # None => \A i \in 1..Len(tried) : i = 1 /\ tried[i] = call[k].want
  <2>1. CallOK(call[k]) /\ call[k].left \in Nat /\ Len(call[k].tried) \in Nat /\ RetryTimes \in Nat
    BY <1>1, Call_facts, RetryAssumption DEF CallType
  <2>2. Len(call[k].tried) <= RetryTimes + 1
    BY <2>1 DEF CallOK
  <2>3. ASSUME call[k].want # None, NEW i \in 1..Len(call[k].tried)
        PROVE  i = 1 /\ call[k].tried[i] = call[k].want
    BY <2>1, <2>3 DEF CallOK
  <2>. QED
    BY <2>1, <2>2, <2>3 DEF CallOK
<1>2. IInv => RetriesMoveOn
  BY <1>1 DEF RetriesMoveOn
<1>. QED
  BY <1>2, Invariance, PTL

\* A channel is disabled for the errors of the attempt that used it (monitor/channel.go).
THEOREM Disabled_for_its_own_errors == Spec => []DisabledForItsOwnErrors
<1>1. IInv => DisabledForItsOwnErrors
  BY DEF IInv
<1>. QED
  BY <1>1, Invariance, PTL

\* "No channel" is only answered when there was none, or the channels were being changed
\* (distributor.go).
THEOREM None_means_none == Spec => NoneMeansNone
<1>1. ASSUME IInv, [Next]_vars, NEW k \in Calls, call[k].at = "idle", call'[k].at = "none", NEW c \in Channels
      PROVE  IF cached THEN None \in was[c]
             ELSE row[c].status = "enabled" => Busy(c) \/ tangled[c]
  <2>1. Next
    <3>. SUFFICES ASSUME UNCHANGED vars PROVE FALSE
      BY <1>1
    <3>1. UNCHANGED call
      BY DEF vars
    <3>. QED
      BY <1>1, <3>1
  <2>2. IF cached THEN CacheGetRandomSatisfiedChannel(FALSE) = {} ELSE GetRandomSatisfiedChannel(FALSE) = {}
    BY <1>1, <2>1, None_step
  <2>3. CASE cached
    <3>1. copy[c] = None
      BY <1>1, <2>2, <2>3, Empty_draws
    <3>. QED
      BY <1>1, <2>3, <3>1 DEF IInv, Copies
  <2>4. CASE ~cached
    <3>. SUFFICES ASSUME row[c].status = "enabled", ~Busy(c), ~tangled[c] PROVE FALSE
      BY <2>4
    <3>1. Follows(row[c], ability[c])
      BY <1>1 DEF IInv, Routes, Rest
    <3>2. ability[c] = [state |-> "on", prio |-> row[c].prio]
      BY <3>1 DEF Follows, On, Gone
    <3>3. row[c].prio # None
      BY <1>1, RoutingAssumption DEF IInv, TypeOK, RoutingTypeOK
    <3>4. ability[c].state = "on" /\ ability[c].prio # None
      BY <3>2, <3>3
    <3>5. GetRandomSatisfiedChannel(FALSE) # {}
      BY <1>1, <3>4, Empty_draws
    <3>. QED
      BY <2>2, <2>4, <3>5
  <2>. QED
    BY <2>3, <2>4
<1>2. IInv /\ [Next]_vars =>
        [\A k \in Calls :
           call[k].at = "idle" /\ call'[k].at = "none" =>
             \A c \in Channels :
                 IF cached THEN None \in was[c]
                 ELSE row[c].status = "enabled" => Busy(c) \/ tangled[c]]_vars
  BY <1>1
<1>. QED
  BY <1>2, Invariance, PTL DEF Spec, NoneMeansNone

\* A synchronisation that ends the process has read channels that were being changed, have
\* been changed since, or were left in disorder (cache.go).
THEOREM Only_changes_end_the_process == Spec => OnlyChangesEndTheProcess
<1>1. ASSUME IInv, Fresh, [Next]_vars, node # "down", node' = "down", sync.step = "read", faults' = faults,
             NEW c \in Channels, sync.seen[c] # None
      PROVE  Busy(c) \/ tangled[c] \/ sync.was[c] # {sync.seen[c]}
  <2>0. RoutingTypeOK
    BY <1>1 DEF IInv, TypeOK
  <2>1. BuildCopy /\ Dies
    <3>1. ~UNCHANGED node
      BY <1>1
    <3>2. ASSUME NEW w \in Workers, Statement(w) PROVE UNCHANGED node
      BY <3>2 DEF Statement, UpdateWrite, UpdateReload, DeleteAbilities, AddAbilities, UpdateAbilityStatus,
                  UpdateStatus, DeleteRow, DeleteRowAbilities, InsertRow, At
    <3>3. ASSUME NEW a \in Admins, Administer(a) PROVE UNCHANGED node
      BY <3>3 DEF Administer, UpdateChannel, DeleteChannel, AddChannel, AsksToChange
    <3>4. ASSUME NEW k \in Calls, Arrives(k) \/ Relay(k) PROVE UNCHANGED node
      <4>1. CASE \E worthwhile, disables \in BOOLEAN : RelayFails(k, worthwhile, disables)
        BY <4>1 DEF RelayFails
      <4>2. CASE ~\E worthwhile, disables \in BOOLEAN : RelayFails(k, worthwhile, disables)
        <5>1. Reads \/ UNCHANGED node
          BY <3>4, <4>2 DEF Arrives, Specific, DrawCached, DrawAbility, Relay, LoadChannel, RelaySucceeds, LoopEnds,
                      RedrawCached, RedrawAbility, ReloadChannel, Turn, Tries, GivesUp, Missed
        <5>. QED
          BY <5>1 DEF Reads, routing
      <4>. QED
        BY <4>1, <4>2
    <3>5. TestsStart \/ TestsDoNotStart \/ TestsEnd \/ (\E d \in Channels : Test(d)) => UNCHANGED node
      BY DEF TestsStart, TestsDoNotStart, TestsEnd, Test, TestChangesNothing, TestDisables, TestEnables,
             Tested, Tests, routing
    <3>6. ReadChannels \/ DeleteDisabledChannel => UNCHANGED node
      BY DEF ReadChannels, DeleteDisabledChannel
    <3>7. ~Stop
      <4>1. faults \in Nat
        BY <2>0, RoutingAssumption DEF RoutingTypeOK
      <4>. QED
        BY <1>1, <4>1 DEF Stop
    <3>8. ~Restart
      BY <1>1 DEF Restart
    <3>9. UNCHANGED vars => UNCHANGED node
      BY DEF vars, routing
    <3>10. BuildCopy
      BY <1>1, <3>1, <3>2, <3>3, <3>4, <3>5, <3>6, <3>7, <3>8, <3>9 DEF Next, Sync
    <3>. QED
      BY <1>1, <3>10 DEF BuildCopy
  <2>2. ability[c].state = "none"
    <3>1. faults \in Nat
      BY <2>0, RoutingAssumption DEF RoutingTypeOK
    <3>. QED
      BY <1>1, <2>1, <3>1 DEF BuildCopy
  <2>. SUFFICES ASSUME ~Busy(c), ~tangled[c], sync.was[c] = {sync.seen[c]} PROVE FALSE
    OBVIOUS
  <2>3. Follows(row[c], ability[c])
    BY <1>1 DEF IInv, Routes, Rest
  <2>4. row[c].status \in Gone
    BY <2>2, <2>3 DEF Follows, On
  <2>5. Offer(row[c]) = None
    BY <2>4 DEF Offer, Gone
  <2>. QED
    BY <1>1, <2>5 DEF Fresh
<1>2. IInv /\ Fresh /\ [Next]_vars =>
        [node # "down" /\ node' = "down" /\ sync.step = "read" /\ faults' = faults =>
           \A c \in Channels :
               sync.seen[c] # None => Busy(c) \/ tangled[c] \/ sync.was[c] # {sync.seen[c]}]_vars
  BY <1>1
<1>. QED
  BY <1>2, Invariance_with_history, PTL DEF Spec, OnlyChangesEndTheProcess
=============================================================================
