------------------------------- MODULE Browser -------------------------------
(***************************************************************************)
(* One tab of a browser that shows one page of a front end (src/web).  The *)
(* pages are React components: a handler runs without interruption up to   *)
(* an await, other handlers run while its request is under way, and it     *)
(* goes on with the values its closure captured when it started.           *)
(*                                                                         *)
(* A page contributes one action for the start of each handler and one,    *)
(* named ...Returns, for what follows each await.  view holds what the     *)
(* page keeps with useState; view.at names the page.                       *)
(***************************************************************************)
EXTENDS Integers, Sequences, FiniteSets

CONSTANTS
    MaxEvents       \* bound: handlers that send a request, requests that break
                    \* and changes made by others, together

ASSUME BrowserAssumption == MaxEvents \in Nat \ {0}

VARIABLES
    view,       \* the state of the page that is shown
    net,        \* the requests under way, by number
    server,     \* what the service keeps of the data the page is about
    calls,      \* the number of handlers that sent a request so far
    history     \* alone: no handler ever started while another was waiting,
                \* and nobody else changed the data;
                \* lost: some handler ended with an uncaught rejection;
                \* faults: how often a request broke or others changed the data

vars == <<view, net, server, calls, history>>

(***************************************************************************)
(* A request: the handler fn that waits for it, what it asks (req, arg),   *)
(* the list its closure holds (was), and how far it is (st).               *)
(***************************************************************************)
Request(fn, req, arg, was) ==
    [fn |-> fn, req |-> req, arg |-> arg, was |-> was, st |-> "sent", data |-> <<>>]

\* The function f, which also has y at x.
Joined(f, x, y) == [z \in DOMAIN f \cup {x} |-> IF z = x THEN y ELSE f[z]]

\* The record r, which also has the fields of s.
With(r, s) == [x \in DOMAIN r \cup DOMAIN s |-> IF x \in DOMAIN r THEN r[x] ELSE s[x]]

\* The page is opened; its effects have run and sent the requests first.
Opens(v, first) ==
    /\ view = v
    /\ net = first
    /\ calls = Len(first)
    /\ history = [alone |-> TRUE, lost |-> FALSE, faults |-> 0]

Alone == history' = [history EXCEPT !.alone = @ /\ net = <<>>]

\* A handler that only changes the page.
Shows(v) == view' = v /\ Alone /\ UNCHANGED <<net, server, calls>>

\* A handler that changes the page and waits for the answer to a request.
SendsWith(v, fn, req, arg, was) ==
    /\ calls + history.faults < MaxEvents
    /\ calls' = calls + 1
    /\ net' = Joined(net, calls + 1, Request(fn, req, arg, was))
    /\ view' = v
    /\ Alone
    /\ UNCHANGED server

Sends(v, fn, req, arg) == SendsWith(v, fn, req, arg, <<>>)

\* A handler and an effect it triggers send a request each, in this order.
SendsBoth(v, first, second) ==
    /\ calls + history.faults < MaxEvents
    /\ calls' = calls + 2
    /\ net' = Joined(Joined(net, calls + 1, first), calls + 2, second)
    /\ view' = v
    /\ history' = [history EXCEPT !.alone = FALSE]
    /\ UNCHANGED server

\* The page is on the screen.
At(page) == view.at = page

\* The requests of page at that the handler fn may go on from.
Back(at, fn) ==
    {n \in DOMAIN net : view.at = at /\ net[n].fn = fn /\ net[n].st \in {"ok", "refused", "failed"}}

Without(n) == [m \in DOMAIN net \ {n} |-> net[m]]

\* The handler that waited for request n ends.
Ends(n, v) == view' = v /\ net' = Without(n) /\ UNCHANGED <<server, calls, history>>

\* It goes on to another request; the bound does not stop it halfway.
GoesOn(n, v, fn, req, arg, was) ==
    /\ view' = v
    /\ calls' = calls + 1
    /\ net' = Joined(Without(n), calls + 1, Request(fn, req, arg, was))
    /\ UNCHANGED <<server, history>>

\* The rejection of a request that no one catches ends the handler where it waits.
Rejected(n) ==
    /\ net[n].st = "failed"
    /\ net' = Without(n)
    /\ history' = [history EXCEPT !.lost = TRUE]
    /\ UNCHANGED <<view, server, calls>>

\* The service answers request n, or refuses it with success = false and a message.
Answered(n, data) ==
    net' = [net EXCEPT ![n].st = "ok", ![n].data = data] /\ UNCHANGED <<view, calls, history>>
Refused(n) ==
    net' = [net EXCEPT ![n].st = "refused"] /\ UNCHANGED <<view, server, calls, history>>
Failed(n) ==
    /\ calls + history.faults < MaxEvents
    /\ history' = [history EXCEPT !.faults = @ + 1]
    /\ net' = [net EXCEPT ![n].st = "failed"]
    /\ UNCHANGED <<view, calls>>

\* Somebody else changes the data.
Disturbed ==
    /\ calls + history.faults < MaxEvents
    /\ history' = [history EXCEPT !.alone = FALSE, !.faults = @ + 1]
    /\ UNCHANGED <<view, net, calls>>
=============================================================================
