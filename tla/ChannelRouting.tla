--------------------------- MODULE ChannelRouting ---------------------------
(***************************************************************************)
(* Channels, their abilities and the copy that requests are routed by:     *)
(* src/model/channel.go, src/model/ability.go and the channel part of      *)
(* src/model/cache.go.                                                     *)
(*                                                                         *)
(* A channel is a row of channels, and its ability the row of abilities    *)
(* that offers its model: every channel of this service has one model      *)
(* (prepareDeepSeekV4FlashChannel), and requests are routed in one group.  *)
(* A change of a channel is several statements without a transaction, each *)
(* a step of the goroutine (worker) that executes it.  With the memory     *)
(* cache on, requests are routed by a copy of the rows that a goroutine    *)
(* builds from two SELECTs every SyncFrequency seconds.                    *)
(***************************************************************************)
EXTENDS Integers, FiniteSets

CONSTANTS
    Channels,     \* ids of channels
    Prios,        \* priorities; 0 is what the database puts when none is given
    Workers,      \* goroutines that change channels
    None,         \* no channel, no priority
    MaxOps,       \* bound on the changes and runs of tests that are asked for
    MaxFaults     \* bound on failing statements and on stops of the process

ASSUME RoutingAssumption ==
    /\ IsFiniteSet(Channels) /\ Prios \subseteq Int /\ 0 \in Prios
    /\ None \notin Prios \cup Channels
    /\ MaxOps \in Nat /\ MaxFaults \in Nat

VARIABLES
    row,       \* row[c]: status and priority in channels
    ability,   \* ability[c]: the row of abilities: "none", "on" or "off", and its priority
    job,       \* job[w]: the statement that worker w executes next, of which change
    cached,    \* MemoryCacheEnabled
    node,      \* the process is "up", "starting" or "down"
    sync,      \* InitChannelCache: step, and the channels that it read
    copy,      \* group2model2channels: the priority of each channel in it
    ops, faults,
    tangled,   \* history: changes of c overlapped or broke off since the last whole Update
    was        \* history: was[c], what c offered since the copy was read

database == <<row, ability>>
cache    == <<cached, sync, copy>>
bounds   == <<ops, faults>>
routing  == <<database, job, node, cache, bounds, tangled, was>>

Gone == {"never", "deleted"}
Statuses == Gone \cup {"enabled", "manual", "auto"}
NoRow == [status |-> "never", prio |-> 0]
NoAbility == [state |-> "none", prio |-> None]
NoJob == [at |-> "idle", ch |-> None, to |-> "", prio |-> None, alone |-> FALSE]

\* What a channel offers to a reader of its row: its priority, if it is enabled.
Offer(r) == IF r.status = "enabled" THEN r.prio ELSE None
Nothing == [c \in Channels |-> None]

Jobs == [at : {"idle", "write", "reload", "clear", "add", "mark", "status", "delete", "unlist", "insert"},
         ch : Channels \cup {None}, to : {"", "enabled", "manual", "auto"},
         prio : Prios \cup {None}, alone : BOOLEAN]
Offers == [Channels -> Prios \cup {None}]
Histories == [Channels -> SUBSET (Prios \cup {None})]

RoutingInit ==
    /\ row \in [Channels -> [status : {"enabled", "manual"}, prio : Prios] \cup {NoRow}]
    /\ ability = [c \in Channels |->
                    CASE row[c].status = "never" -> NoAbility
                      [] row[c].status = "enabled" -> [state |-> "on", prio |-> row[c].prio]
                      [] OTHER -> [state |-> "off", prio |-> row[c].prio]]
    /\ job = [w \in Workers |-> NoJob]
    /\ cached \in BOOLEAN /\ node = "up"
    /\ copy = IF cached THEN [c \in Channels |-> Offer(row[c])] ELSE Nothing
    /\ was = [c \in Channels |-> {copy[c]}]
    /\ sync = [step |-> "sleep", seen |-> Nothing, was |-> [c \in Channels |-> {}]]
    /\ ops = 0 /\ faults = 0
    /\ tangled = [c \in Channels |-> FALSE]

(***************************************************************************)
(* What every statement has in common.                                     *)
(***************************************************************************)
Busy(c) == \E w \in Workers : job[w].ch = c

\* A statement on channels; the histories see what c offers now.
Seen(r) == IF cached THEN {Offer(r)} ELSE {}
WritesRow(c, r) ==
    /\ row' = [row EXCEPT ![c] = r]
    /\ was' = [was EXCEPT ![c] = @ \cup Seen(r)]
    /\ sync' = [sync EXCEPT !.was[c] = @ \cup Seen(r)]
    /\ UNCHANGED ability
WritesAbility(c, a) == ability' = [ability EXCEPT ![c] = a] /\ UNCHANGED <<row, was, sync>>
WritesNothing == UNCHANGED <<row, ability, was, sync>>

Goes(w, at) == job' = [job EXCEPT ![w].at = at] /\ UNCHANGED <<tangled, faults>>
Ends(w) == job' = [job EXCEPT ![w] = NoJob] /\ UNCHANGED <<tangled, faults>>

At(w, at) == node = "up" /\ job[w].at = at /\ UNCHANGED <<cached, node, copy, ops>>

\* A goroutine begins to change c; whoever is at it already is not alone any more.
Begins(w, c, at, to, prio) ==
    /\ node = "up" /\ job[w].at = "idle"
    /\ job' = [v \in Workers |->
                 IF v = w THEN [at |-> at, ch |-> c, to |-> to, prio |-> prio, alone |-> ~Busy(c)]
                 ELSE IF job[v].ch = c THEN [job[v] EXCEPT !.alone = FALSE] ELSE job[v]]
    /\ tangled' = [tangled EXCEPT ![c] = @ \/ Busy(c)]

\* The statement fails: what the change has done so far stays, and it stops or goes on.
FirstStatements == {"write", "delete", "insert"}
Breaks(w, at) ==
    /\ faults < MaxFaults /\ faults' = faults + 1
    /\ job' = [job EXCEPT ![w] = IF at = "idle" THEN NoJob ELSE [@ EXCEPT !.at = at, !.alone = FALSE]]
    /\ tangled' = [tangled EXCEPT ![job[w].ch] = @ \/ job[w].at \notin FirstStatements]
    /\ WritesNothing

(***************************************************************************)
(* Update: write the row, read it again, delete the abilities, add them.   *)
(* A row that is missing is no error of the UPDATE, and one that cannot be *)
(* read leaves the values of the request.                                  *)
(***************************************************************************)
UpdateWrite(w) ==
    LET c == job[w].ch
        status == IF job[w].to = "" THEN row[c].status ELSE job[w].to
        prio == IF job[w].prio = None THEN row[c].prio ELSE job[w].prio
    IN
    /\ At(w, "write")
    /\ \/ /\ IF row[c].status \in Gone THEN WritesNothing
             ELSE WritesRow(c, [status |-> status, prio |-> prio])
          /\ Goes(w, "reload")
       \/ Breaks(w, "idle")

\* Faulty: the abilities are made of the request.
UpdateReloadMissing(w) == At(w, "reload") /\ WritesNothing /\ Goes(w, "clear")

UpdateReload(w) ==
    LET r == row[job[w].ch] IN
    /\ At(w, "reload")
    /\ \/ /\ job' = [job EXCEPT ![w] = IF r.status \in Gone THEN [@ EXCEPT !.at = "clear"]
                                       ELSE [@ EXCEPT !.at = "clear", !.to = r.status, !.prio = r.prio]]
          /\ WritesNothing /\ UNCHANGED <<tangled, faults>>
       \/ Breaks(w, "clear")

\* Faulty: the abilities of every channel are deleted.
DeleteAllAbilities(w) ==
    /\ At(w, "clear")
    /\ ability' = [c \in Channels |-> NoAbility] /\ UNCHANGED <<row, was, sync>> /\ Goes(w, "add")

DeleteAbilities(w) ==
    /\ At(w, "clear")
    /\ \/ WritesAbility(job[w].ch, NoAbility) /\ Goes(w, "add")
       \/ Breaks(w, "idle")

\* The key of abilities is unique.  A change that nobody disturbed ends here with the
\* abilities in step, whatever they were before.
AddAbilities(w) ==
    LET c == job[w].ch
        on == IF job[w].to = "enabled" THEN "on" ELSE "off"
        prio == IF job[w].prio = None THEN 0 ELSE job[w].prio
    IN
    /\ At(w, "add")
    /\ \/ /\ IF ability[c].state = "none"
             THEN /\ WritesAbility(c, [state |-> on, prio |-> prio])
                  /\ tangled' = [tangled EXCEPT ![c] = @ /\ ~job[w].alone]
             ELSE WritesNothing /\ tangled' = [tangled EXCEPT ![c] = TRUE]
          /\ job' = [job EXCEPT ![w] = NoJob] /\ UNCHANGED faults
       \/ Breaks(w, "idle")

(***************************************************************************)
(* UpdateChannelStatusById: abilities first, then the row; errors are only *)
(* logged.                                                                 *)
(***************************************************************************)
UpdateAbilityStatus(w) ==
    LET c == job[w].ch
        on == IF job[w].to = "enabled" THEN "on" ELSE "off"
    IN
    /\ At(w, "mark")
    /\ \/ /\ IF ability[c].state = "none" THEN WritesNothing
             ELSE WritesAbility(c, [ability[c] EXCEPT !.state = on])
          /\ Goes(w, "status")
       \/ Breaks(w, "status")

UpdateStatus(w) ==
    LET c == job[w].ch IN
    /\ At(w, "status")
    /\ \/ /\ IF row[c].status \in Gone THEN WritesNothing
             ELSE WritesRow(c, [row[c] EXCEPT !.status = job[w].to])
          /\ Ends(w)
       \/ Breaks(w, "idle")

\* Delete: the row, then the abilities.
DeleteRow(w) ==
    LET c == job[w].ch IN
    /\ At(w, "delete")
    /\ \/ /\ WritesRow(c, [NoRow EXCEPT !.status = "deleted"]) /\ Goes(w, "unlist")
       \/ Breaks(w, "idle")

DeleteRowAbilities(w) ==
    /\ At(w, "unlist")
    /\ \/ WritesAbility(job[w].ch, NoAbility) /\ Ends(w)
       \/ Breaks(w, "idle")

\* BatchInsertChannels: the row, then its abilities.
InsertRow(w) ==
    LET c == job[w].ch IN
    /\ At(w, "insert")
    /\ \/ /\ row[c].status = "never"
          /\ WritesRow(c, [status |-> "enabled", prio |-> job[w].prio]) /\ Goes(w, "add")
       \/ Breaks(w, "idle")

Statement(w) ==
    \/ UpdateWrite(w) \/ UpdateReload(w) \/ DeleteAbilities(w) \/ AddAbilities(w)
    \/ UpdateAbilityStatus(w) \/ UpdateStatus(w) \/ DeleteRow(w) \/ DeleteRowAbilities(w)
    \/ InsertRow(w)

(***************************************************************************)
(* What administrators ask for.  A page may show a channel that is deleted.*)
(***************************************************************************)
Asks == node = "up" /\ ops < MaxOps /\ ops' = ops + 1
AsksToChange == Asks /\ WritesNothing /\ UNCHANGED <<cached, node, copy, faults>>

UpdateChannel(w, c, to, prio) ==
    /\ AsksToChange /\ row[c].status # "never" /\ (to = "" \/ prio = None)
    /\ Begins(w, c, "write", to, prio)
DeleteChannel(w, c) ==
    AsksToChange /\ row[c].status # "never" /\ Begins(w, c, "delete", "", None)
\* The database gives the new channel an id of its own.
AddChannel(w, c, prio) ==
    /\ AsksToChange /\ row[c].status = "never" /\ ~Busy(c) /\ prio \in Prios
    /\ Begins(w, c, "insert", "enabled", prio)

\* DeleteDisabledChannel is one statement, and leaves the abilities behind.
DeleteDisabledChannel ==
    /\ Asks
    /\ row' = [c \in Channels |-> IF row[c].status \in {"manual", "auto"}
                                  THEN [NoRow EXCEPT !.status = "deleted"] ELSE row[c]]
    /\ was' = [c \in Channels |-> was[c] \cup Seen(row'[c])]
    /\ sync' = [sync EXCEPT !.was = [c \in Channels |-> @[c] \cup Seen(row'[c])]]
    /\ UNCHANGED <<ability, job, cached, node, copy, faults, tangled>>

(***************************************************************************)
(* InitChannelCache, at the start and then by SyncChannelCache: read the   *)
(* enabled channels, then the abilities, from which it only takes the      *)
(* groups; build the copy and publish it.  Errors of the SELECTs are not   *)
(* looked at.  A channel of a group without abilities is written into a    *)
(* map that does not exist: the goroutine panics and the process is over.  *)
(***************************************************************************)
Dies ==
    /\ node' = "down"
    /\ job' = [w \in Workers |-> NoJob]
    /\ tangled' = [c \in Channels |-> tangled[c] \/ Busy(c)]
    /\ copy' = Nothing
    /\ was' = [c \in Channels |-> {None}]
    /\ sync' = [step |-> "sleep", seen |-> Nothing, was |-> [c \in Channels |-> {}]]
    /\ UNCHANGED <<row, ability, cached, ops>>

\* Faulty: the channels are read whatever their status.
ReadChannelsOfAnyStatus ==
    /\ cached /\ node # "down" /\ sync.step = "sleep"
    /\ sync' = [step |-> "read",
                seen |-> [c \in Channels |-> IF row[c].status \in Gone THEN None ELSE row[c].prio],
                was |-> [c \in Channels |-> {Offer(row[c])}]]
    /\ UNCHANGED <<row, ability, job, cached, node, copy, ops, faults, tangled, was>>

ReadChannels ==
    /\ cached /\ node # "down" /\ sync.step = "sleep"
    /\ \/ /\ sync' = [step |-> "read",
                      seen |-> [c \in Channels |-> Offer(row[c])],
                      was |-> [c \in Channels |-> {Offer(row[c])}]]
          /\ UNCHANGED faults
       \/ /\ faults < MaxFaults /\ faults' = faults + 1
          /\ sync' = [step |-> "read", seen |-> Nothing,
                      was |-> [c \in Channels |-> {Offer(row[c]), None}]]
    /\ UNCHANGED <<row, ability, job, cached, node, copy, ops, tangled, was>>

\* Faulty: a copy without channels is not published.
BuildCopyOfSome ==
    /\ sync.step = "read"
    /\ IF sync.seen = Nothing THEN UNCHANGED copy ELSE copy' = sync.seen
    /\ was' = sync.was /\ node' = "up"
    /\ sync' = [sync EXCEPT !.step = "sleep"]
    /\ UNCHANGED <<row, ability, job, cached, ops, faults, tangled>>

BuildCopy ==
    /\ sync.step = "read"
    /\ \/ /\ sync.seen = Nothing \/ \E c \in Channels : ability[c].state # "none"
          /\ copy' = sync.seen /\ was' = sync.was /\ node' = "up"
          /\ sync' = [sync EXCEPT !.step = "sleep"]
          /\ UNCHANGED <<row, ability, job, cached, ops, faults, tangled>>
       \/ /\ sync.seen # Nothing /\ \A c \in Channels : ability[c].state = "none"
          /\ Dies /\ UNCHANGED faults
       \/ /\ sync.seen # Nothing /\ faults < MaxFaults /\ faults' = faults + 1
          /\ Dies

\* The process is stopped, and started again by its supervisor.
Stop == node = "up" /\ faults < MaxFaults /\ faults' = faults + 1 /\ Dies
Restart ==
    /\ node = "down"
    /\ node' = IF cached THEN "starting" ELSE "up"
    /\ UNCHANGED <<database, job, cache, bounds, tangled, was>>

Sync == ReadChannels \/ BuildCopy

(***************************************************************************)
(* Which channels a request may be given.                                  *)
(***************************************************************************)
Top(offers) == {c \in DOMAIN offers : offers[c] # None /\
                  \A d \in DOMAIN offers : offers[d] # None => offers[d] <= offers[c]}

\* CacheGetRandomSatisfiedChannel: the first priority only counts when it is positive.
CacheGetRandomSatisfiedChannel(ignoreFirstPriority) ==
    LET all == {c \in Channels : copy[c] # None}
        first == IF \E c \in Top(copy) : copy[c] > 0 THEN Top(copy) ELSE all
    IN  IF ignoreFirstPriority /\ first # all THEN all \ first ELSE first

Abilities == [c \in Channels |-> IF ability[c].state = "on" THEN ability[c].prio ELSE None]

\* Faulty: the highest priority is looked for among all abilities.
AbilityOfHighestPriority(ignoreFirstPriority) ==
    LET all == {c \in Channels : ability[c].state = "on"}
    IN  IF ignoreFirstPriority THEN all
        ELSE {c \in all : \A d \in Channels : ability[d].state # "none" => ability[d].prio <= ability[c].prio}

\* GetRandomSatisfiedChannel draws among the abilities, and reads the row after that.
GetRandomSatisfiedChannel(ignoreFirstPriority) ==
    IF ignoreFirstPriority THEN {c \in Channels : ability[c].state = "on"} ELSE Top(Abilities)

RoutingTypeOK ==
    /\ row \in [Channels -> [status : Statuses, prio : Prios]]
    /\ ability \in [Channels -> [state : {"none", "on", "off"}, prio : Prios \cup {None}]]
    /\ job \in [Workers -> Jobs]
    /\ cached \in BOOLEAN /\ node \in {"up", "starting", "down"}
    /\ sync \in [step : {"sleep", "read"}, seen : Offers, was : Histories]
    /\ copy \in Offers /\ was \in Histories
    /\ ops \in 0..MaxOps /\ faults \in 0..MaxFaults
    /\ tangled \in [Channels -> BOOLEAN]
=============================================================================
