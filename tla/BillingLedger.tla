--------------------------- MODULE BillingLedger ---------------------------
(***************************************************************************)
(* What billing promises the owner of an account, whatever the caches,     *)
(* goroutines and batch writes in between: a relayed call reserves quota   *)
(* at most once, is settled at most once, and from then on its share of    *)
(* the account is exactly the charge it was settled at.  A call that is    *)
(* refused, cut off by a restart, or whose token is gone when it is to be  *)
(* settled, is closed with whatever it holds.                              *)
(***************************************************************************)
EXTENDS Integers, FiniteSetsExt

CONSTANTS
    Calls,      \* the relayed calls
    Users,      \* the accounts
    Payer,      \* Payer[c]: the account that pays for call c
    Initial,    \* Initial[u]: the balance at the start
    Amounts,    \* the amounts that an operation may be about
    MaxCredits  \* bound: how often one account is credited

VARIABLES
    balance,  \* balance[u]: what account u is worth
    credited, \* credited[u]: what was added to account u
    credits,  \* credits[u]: how often
    phase,    \* phase[c]: "open", "reserved", "settled" or "closed"
    posted    \* posted[c]: what account Payer[c] has paid for call c

vars == <<balance, credited, credits, phase, posted>>

Init ==
    /\ balance = Initial
    /\ credited = [u \in Users |-> 0]
    /\ credits = [u \in Users |-> 0]
    /\ phase = [c \in Calls |-> "open"]
    /\ posted = [c \in Calls |-> 0]

\* The account's share of call c becomes q.
Post(c, q) ==
    /\ posted' = [posted EXCEPT ![c] = q]
    /\ balance' = [balance EXCEPT ![Payer[c]] = @ + posted[c] - q]
    /\ UNCHANGED <<credited, credits>>

Reserve(c) ==
    /\ phase[c] = "open"
    /\ phase' = [phase EXCEPT ![c] = "reserved"]
    /\ \E q \in Amounts \ {0} : Post(c, q)

Settle(c) ==
    /\ phase[c] \in {"open", "reserved"}
    /\ phase' = [phase EXCEPT ![c] = "settled"]
    /\ \E q \in Amounts : Post(c, q)

\* A refusal closes one call, a restart every call that was being served.
Close(C) ==
    /\ \A c \in C : phase[c] \in {"open", "reserved"}
    /\ phase' = [c \in Calls |-> IF c \in C THEN "closed" ELSE phase[c]]
    /\ UNCHANGED <<balance, credited, credits, posted>>

Credit(u) ==
    /\ credits[u] < MaxCredits
    /\ credits' = [credits EXCEPT ![u] = @ + 1]
    /\ \E q \in Amounts :
          /\ balance' = [balance EXCEPT ![u] = @ + q]
          /\ credited' = [credited EXCEPT ![u] = @ + q]
    /\ UNCHANGED <<phase, posted>>

Next ==
    \/ \E c \in Calls : Reserve(c) \/ Settle(c)
    \/ \E C \in SUBSET Calls : Close(C)
    \/ \E u \in Users : Credit(u)

Spec == Init /\ [][Next]_vars

----------------------------------------------------------------------------
TypeOK ==
    /\ balance \in [Users -> Int]
    /\ credited \in [Users -> Nat]
    /\ credits \in [Users -> 0 .. MaxCredits]
    /\ phase \in [Calls -> {"open", "reserved", "settled", "closed"}]
    /\ posted \in [Calls -> Nat]

CallsOf(u) == {c \in Calls : Payer[c] = u}

\* Money is conserved: an account is worth what it started with plus its
\* credits less what the calls it pays for hold of it (relay/controller/
\* helper.go preConsumeQuota and postConsumeQuota as seen by the account).
MoneyIsConserved ==
    \A u \in Users :
        balance[u] = Initial[u] + credited[u]
                     - MapThenSumSet(LAMBDA c : posted[c], CallsOf(u))
=============================================================================
