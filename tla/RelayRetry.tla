----------------------------- MODULE RelayRetry -----------------------------
(***************************************************************************)
(* A relayed request among the channels: Distribute of                     *)
(* src/middleware/distributor.go, the retry loop of src/controller/relay.go*)
(* with the goroutines that disable a channel for its errors               *)
(* (src/monitor), and the tests of channels of                             *)
(* src/controller/channel-test.go, over ChannelRouting.                    *)
(*                                                                         *)
(* An attempt is one call of relayHelper, which RelayQuota models; here it *)
(* succeeds or fails, with an error that shouldRetry and                   *)
(* ShouldDisableChannel judge.                                             *)
(***************************************************************************)
EXTENDS ChannelRouting, Sequences

CONSTANTS
    Calls,        \* requests
    RetryTimes,   \* config.RetryTimes
    Admins,       \* requests that change channels
    Tester        \* the goroutine of testChannels

Attempts == Calls \X (1..RetryTimes + 1)

ASSUME RetryAssumption ==
    /\ RetryTimes \in Nat
    /\ Workers = Admins \cup Attempts \cup {Tester}
    /\ Tester \notin Admins \cup Attempts /\ Admins \cap Attempts = {}

VARIABLES
    call,     \* call[k]: where request k is
    tests     \* testAllChannelsRunning, and what the goroutine has left to test

vars == <<routing, call, tests>>

Untested == [c \in Channels |-> "none"]
Answered == {"ok", "error", "none", "refused", "dropped"}

NoCall == [at |-> "idle", want |-> None, ch |-> None, lastFailedChannelId |-> None,
           left |-> 0, tried |-> <<>>]

Init ==
    /\ RoutingInit
    /\ call = [k \in Calls |-> NoCall]
    /\ tests = [running |-> FALSE, looping |-> FALSE, list |-> Untested]

(***************************************************************************)
(* Distribute.                                                             *)
(***************************************************************************)
In(k, at) == node = "up" /\ call[k].at = at
Moves(k, v) == call' = [call EXCEPT ![k] = v] /\ UNCHANGED tests
Reads == UNCHANGED routing
\* The answer; of the request only what it asked for and where it was sent is kept.
Answers(k, at) ==
    Moves(k, [NoCall EXCEPT !.at = at, !.want = call[k].want, !.tried = call[k].tried])
\* A SELECT fails.
Missed(k, at) ==
    /\ faults < MaxFaults /\ faults' = faults + 1 /\ Answers(k, at)
    /\ UNCHANGED <<database, job, node, cache, ops, tangled, was>>

\* relayHelper is called with channel c.
Tries(k, v, c) ==
    Moves(k, [v EXCEPT !.at = "relay", !.ch = c, !.tried = Append(@, c)]) /\ Reads

\* The key names channel c.
Specific(k, c) ==
    LET v == [call[k] EXCEPT !.want = c] IN
    /\ In(k, "idle")
    /\ \/ row[c].status = "enabled" /\ Tries(k, v, c)
       \/ row[c].status # "enabled" /\ Moves(k, [v EXCEPT !.at = "refused"]) /\ Reads
       \/ Missed(k, "refused")

DrawCached(k) ==
    /\ In(k, "idle") /\ cached
    /\ \/ \E c \in CacheGetRandomSatisfiedChannel(FALSE) : Tries(k, call[k], c)
       \/ CacheGetRandomSatisfiedChannel(FALSE) = {} /\ Answers(k, "none") /\ Reads

DrawAbility(k) ==
    /\ In(k, "idle") /\ ~cached
    /\ \/ /\ \E c \in GetRandomSatisfiedChannel(FALSE) : Moves(k, [call[k] EXCEPT !.at = "load", !.ch = c])
          /\ Reads
       \/ GetRandomSatisfiedChannel(FALSE) = {} /\ Answers(k, "none") /\ Reads
       \/ Missed(k, "refused")

\* The row of the ability that was drawn; without it the answer speaks of a broken database.
LoadChannel(k) ==
    LET c == call[k].ch IN
    /\ In(k, "load")
    /\ \/ row[c].status \notin Gone /\ Tries(k, call[k], c)
       \/ row[c].status \in Gone /\ Answers(k, "refused") /\ Reads
       \/ Missed(k, "refused")

(***************************************************************************)
(* Relay.                                                                  *)
(***************************************************************************)
RelaySucceeds(k) == In(k, "relay") /\ Answers(k, "ok") /\ Reads

\* Only the first error is asked whether to retry; each may disable its channel.
shouldRetry(k, worthwhile) == call[k].want = None /\ worthwhile

\* Faulty: the channel that is disabled is the one the request started with.
processFirstChannelRelayError(k) ==
    Asks /\ Begins(<<k, Len(call[k].tried)>>, call[k].tried[1], "mark", "auto", None)

processChannelRelayError(k) ==
    Asks /\ Begins(<<k, Len(call[k].tried)>>, call[k].ch, "mark", "auto", None)

\* Faulty: a retry that fails is not remembered.
RelayFailsForgotten(k, worthwhile, disables) ==
    LET first == Len(call[k].tried) = 1
        left == IF ~first THEN call[k].left ELSE IF shouldRetry(k, worthwhile) THEN RetryTimes ELSE 0
    IN
    /\ In(k, "relay")
    /\ Moves(k, [call[k] EXCEPT !.at = "loop", !.left = left,
                                !.lastFailedChannelId = IF first THEN call[k].ch ELSE @])
    /\ WritesNothing /\ UNCHANGED <<node, cached, copy, faults>>
    /\ IF disables THEN processChannelRelayError(k) ELSE UNCHANGED <<job, ops, tangled>>

RelayFails(k, worthwhile, disables) ==
    LET first == Len(call[k].tried) = 1
        left == IF ~first THEN call[k].left ELSE IF shouldRetry(k, worthwhile) THEN RetryTimes ELSE 0
    IN
    /\ In(k, "relay")
    /\ Moves(k, [call[k] EXCEPT !.at = "loop", !.left = left, !.lastFailedChannelId = call[k].ch])
    /\ WritesNothing /\ UNCHANGED <<node, cached, copy, faults>>
    /\ IF disables THEN processChannelRelayError(k) ELSE UNCHANGED <<job, ops, tangled>>

\* One turn of the loop with the channel that was drawn.
Turn(k, c) ==
    LET v == [call[k] EXCEPT !.left = @ - 1] IN
    IF c = call[k].lastFailedChannelId THEN Moves(k, [v EXCEPT !.at = "loop"]) /\ Reads ELSE Tries(k, v, c)

GivesUp(k) == Answers(k, "error") /\ Reads
IgnoreFirst(k) == call[k].left # RetryTimes

LoopEnds(k) == In(k, "loop") /\ call[k].left = 0 /\ GivesUp(k)

\* Faulty: the loop takes one turn too many.
RedrawCachedOnceMore(k) ==
    /\ In(k, "loop") /\ cached
    /\ \/ \E c \in CacheGetRandomSatisfiedChannel(IgnoreFirst(k)) : Turn(k, c)
       \/ CacheGetRandomSatisfiedChannel(IgnoreFirst(k)) = {} /\ GivesUp(k)

RedrawCached(k) ==
    /\ In(k, "loop") /\ call[k].left > 0 /\ cached
    /\ \/ \E c \in CacheGetRandomSatisfiedChannel(IgnoreFirst(k)) : Turn(k, c)
       \/ CacheGetRandomSatisfiedChannel(IgnoreFirst(k)) = {} /\ GivesUp(k)

RedrawAbility(k) ==
    /\ In(k, "loop") /\ call[k].left > 0 /\ ~cached
    /\ \/ \E c \in GetRandomSatisfiedChannel(IgnoreFirst(k)) :
              Moves(k, [call[k] EXCEPT !.at = "reload", !.ch = c]) /\ Reads
       \/ GetRandomSatisfiedChannel(IgnoreFirst(k)) = {} /\ GivesUp(k)
       \/ Missed(k, "error")

ReloadChannel(k) ==
    LET c == call[k].ch IN
    /\ In(k, "reload")
    /\ \/ row[c].status \notin Gone /\ Turn(k, c)
       \/ row[c].status \in Gone /\ GivesUp(k)
       \/ Missed(k, "error")

Arrives(k) == (\E c \in Channels : Specific(k, c)) \/ DrawCached(k) \/ DrawAbility(k)

Relay(k) ==
    \/ LoadChannel(k) \/ RelaySucceeds(k) \/ \E worthwhile, disables \in BOOLEAN : RelayFails(k, worthwhile, disables)
    \/ LoopEnds(k) \/ RedrawCached(k) \/ RedrawAbility(k) \/ ReloadChannel(k)

(***************************************************************************)
(* testChannels: one run at a time, over the channels as they were when it *)
(* started.  A run whose SELECT fails returns without taking back that it  *)
(* is running.                                                             *)
(***************************************************************************)
TestsStart ==
    /\ Asks /\ ~tests.running
    /\ UNCHANGED <<database, job, cache, node, faults, tangled, was, call>>
    /\ tests' = [running |-> TRUE, looping |-> TRUE,
                 list |-> [c \in Channels |-> CASE row[c].status \in Gone -> "none"
                                                [] row[c].status = "enabled" -> "on" [] OTHER -> "off"]]
TestsDoNotStart ==
    /\ node = "up" /\ ~tests.running
    /\ faults < MaxFaults /\ faults' = faults + 1
    /\ tests' = [tests EXCEPT !.running = TRUE]
    /\ UNCHANGED <<database, job, node, cache, ops, tangled, was, call>>

Testing(c, state) == node = "up" /\ tests.looping /\ job[Tester].at = "idle" /\ tests.list[c] = state
Tests(c, left) ==
    /\ tests' = [tests EXCEPT !.list[c] = left]
    /\ WritesNothing /\ UNCHANGED <<node, cached, copy, bounds, call>>
Tested(c) == Tests(c, "none")

\* The answer is what is expected of the channel, or that is not asked for.
TestChangesNothing(c) ==
    /\ Testing(c, "on") \/ Testing(c, "off")
    /\ Tested(c) /\ UNCHANGED <<job, tangled>>
\* It is too slow, or an error to be disabled for; it is disabled twice when it is both.
TestDisables(c) ==
    /\ \/ Testing(c, "both") /\ Tested(c)
       \/ Testing(c, "on") /\ \E left \in {"none", "both"} : Tests(c, left)
    /\ Begins(Tester, c, "mark", "auto", None)
\* Whoever disabled the channel.
TestEnables(c) ==
    Testing(c, "off") /\ Tested(c) /\ Begins(Tester, c, "mark", "enabled", None)
TestsEnd ==
    /\ node = "up" /\ tests.looping /\ tests.list = Untested /\ job[Tester].at = "idle"
    /\ tests' = [tests EXCEPT !.running = FALSE, !.looping = FALSE]
    /\ UNCHANGED <<routing, call>>

Test(c) == TestChangesNothing(c) \/ TestDisables(c) \/ TestEnables(c)

----------------------------------------------------------------------------
\* With the process its requests and its goroutines are gone.
Survives ==
    IF node' # "down" \/ node = "down" THEN UNCHANGED <<call, tests>>
    ELSE /\ call' = [k \in Calls |-> IF call[k].at \in Answered \cup {"idle"} THEN call[k]
                                     ELSE [NoCall EXCEPT !.at = "dropped"]]
         /\ tests' = [running |-> FALSE, looping |-> FALSE, list |-> Untested]

Administer(a) ==
    \E c \in Channels :
        \/ \E to \in {"", "enabled", "manual"}, prio \in Prios \cup {None} : UpdateChannel(a, c, to, prio)
        \/ DeleteChannel(a, c)
        \/ \E prio \in Prios : AddChannel(a, c, prio)

Next ==
    \/ \E k \in Calls : Arrives(k) \/ Relay(k)
    \/ \E w \in Workers : Statement(w) /\ UNCHANGED <<call, tests>>
    \/ (\E a \in Admins : Administer(a)) /\ UNCHANGED <<call, tests>>
    \/ DeleteDisabledChannel /\ UNCHANGED <<call, tests>>
    \/ (Sync \/ Stop \/ Restart) /\ Survives
    \/ TestsStart \/ TestsDoNotStart \/ TestsEnd \/ \E c \in Channels : Test(c)

\* Goroutines are scheduled, a test ends, and the process is started again.
Fairness ==
    /\ WF_vars((\E w \in Workers : Statement(w)) /\ UNCHANGED <<call, tests>>)
    /\ WF_vars(Sync /\ Survives) /\ WF_vars(Restart /\ Survives)
    /\ WF_vars(TestsEnd \/ \E c \in Channels : Test(c))

Spec == Init /\ [][Next]_vars /\ Fairness

(***************************************************************************)
(* Properties.                                                             *)
(***************************************************************************)
TypeOK ==
    /\ RoutingTypeOK
    /\ call \in [Calls -> [at : Answered \cup {"idle", "load", "relay", "loop", "reload"},
                           want : Channels \cup {None}, ch : Channels \cup {None},
                           lastFailedChannelId : Channels \cup {None}, left : 0..RetryTimes,
                           tried : Seq(Channels)]]
    /\ tests \in [running : BOOLEAN, looping : BOOLEAN, list : [Channels -> {"none", "on", "off", "both"}]]

\* When no change of a channel is under way, its ability is on exactly if the channel is
\* enabled, with the channel's priority, unless changes overlapped or broke off and nobody
\* has updated the channel undisturbed since (channel.go, ability.go).
AbilitiesFollowChannels ==
    \A c \in Channels :
        row[c].status \notin Gone /\ ~Busy(c) /\ ~tangled[c] =>
            ability[c] = [state |-> IF row[c].status = "enabled" THEN "on" ELSE "off", prio |-> row[c].prio]

\* What the copy says of a channel was true at some time since the copy was read, so a
\* channel that was disabled before the last synchronisation is not used (cache.go).
CopyIsOfItsSync == cached => \A c \in Channels : copy[c] \in was[c]

\* A request is never sent to the channel that has just failed it, nor tried more than
\* RetryTimes + 1 times, and one for a specific channel stays there (relay.go).
RetriesMoveOn ==
    \A k \in Calls :
        LET tried == call[k].tried IN
        /\ Len(tried) <= RetryTimes + 1
        /\ \A i \in 1..Len(tried) - 1 : tried[i] # tried[i + 1]
        /\ call[k].want # None => \A i \in 1..Len(tried) : i = 1 /\ tried[i] = call[k].want

\* The goroutine that an attempt leaves behind disables the channel of that attempt, however
\* far the request has gone on to other channels since (monitor/channel.go).
DisabledForItsOwnErrors ==
    \A k \in Calls, i \in 1..RetryTimes + 1 :
        job[<<k, i>>].at # "idle" => i <= Len(call[k].tried) /\ job[<<k, i>>].ch = call[k].tried[i]

\* "No channel for this model" is only said when every channel was not enabled at some time
\* since the copy was read, or without a copy when each enabled channel is being changed, or
\* was left in disorder (Distribute).
NoneMeansNone ==
    [][\A k \in Calls :
         call[k].at = "idle" /\ call'[k].at = "none" =>
             \A c \in Channels :
                 IF cached THEN None \in was[c]
                 ELSE row[c].status = "enabled" => Busy(c) \/ tangled[c]]_vars

\* When the changes are over, the copy comes to say what the rows say and stays so, whatever
\* was missed before, unless the process cannot start any more (cache.go).
CopyConverges ==
    cached => <>[](node = "up" => \A c \in Channels : copy[c] = Offer(row[c]))

\* A synchronisation ends the process (a write into a map that does not exist) only when
\* every enabled channel that it read has been changed since, is being changed, or was left
\* in disorder; channels at rest are never the reason (cache.go:172).
OnlyChangesEndTheProcess ==
    [][node # "down" /\ node' = "down" /\ sync.step = "read" /\ faults' = faults =>
         \A c \in Channels :
             sync.seen[c] # None => Busy(c) \/ tangled[c] \/ sync.was[c] # {sync.seen[c]}]_vars
=============================================================================
