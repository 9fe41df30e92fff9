----------------------------- MODULE Redemption ----------------------------
(***************************************************************************)
(* Redemption codes: Redeem of src/model/redemption.go, which pays the     *)
(* quota of a code to the balance of a user, and the administrator's       *)
(* UpdateRedemption and DeleteRedemption of src/controller/redemption.go.  *)
(*                                                                         *)
(* Redeem is one transaction that holds the row of the code from its       *)
(* SELECT ... FOR UPDATE to the commit.  UpdateRedemption reads the row    *)
(* and writes status, quota and redeemed_time back in a statement of its   *)
(* own, which waits for the row's lock but reads nothing again.            *)
(***************************************************************************)
EXTENDS Integers

CONSTANTS
    Codes,        \* rows of redemptions
    Users,        \* accounts
    Redeemers,    \* requests of users that redeem a code
    Editors,      \* requests of administrators
    Quotas,       \* the quotas a code may be given
    Edits,        \* what administrators ask: "enable", "disable", "quota", "delete"
    DbMayFail     \* TRUE iff a statement may fail

ASSUME RedemptionAssumption ==
    /\ Quotas \subseteq Nat \ {0}
    /\ Edits \subseteq {"enable", "disable", "quota", "delete"}
    /\ DbMayFail \in BOOLEAN
    /\ Users # {} /\ Codes # {} /\ Quotas # {}

Statuses == {"enabled", "disabled", "used", "deleted"}

VARIABLES
    status,   \* status[c]: redemptions.status, or "deleted"
    quota,    \* quota[c]: redemptions.quota
    balance,  \* balance[u]: users.quota
    active,   \* active[u]: users.status is enabled
    req,      \* req[r]: the Redeem call of request r
    edit,     \* edit[e]: the row that editor e read and will write
    opening,  \* history: how often an edit took the "used" off code c
    payments  \* history: the committed <<request, code, user, quota, opening>>

table == <<status, quota>>
past  == <<opening, payments>>
vars  == <<table, balance, active, req, edit, past>>

NoEdit == [at |-> "idle", code |-> CHOOSE c \in Codes : TRUE,
           status |-> "enabled", quota |-> CHOOSE q \in Quotas : TRUE]
NoReq  == [at |-> "idle", code |-> CHOOSE c \in Codes : TRUE,
           user |-> CHOOSE u \in Users : TRUE, quota |-> 0]

Init ==
    /\ status = [c \in Codes |-> "enabled"]
    /\ quota \in [Codes -> Quotas]
    /\ balance = [u \in Users |-> 0]
    /\ active = [u \in Users |-> TRUE]
    /\ req = [r \in Redeemers |-> NoReq]
    /\ edit = [e \in Editors |-> NoEdit]
    /\ opening = [c \in Codes |-> 0]
    /\ payments = {}

Unlocked(c) == \A r \in Redeemers : ~(req[r].at = "locked" /\ req[r].code = c)

----------------------------------------------------------------------------
(* Redeem.                                                                 *)

Request(r, c, u) ==
    /\ req[r].at = "idle"
    /\ req' = [req EXCEPT ![r] = [at |-> "asked", code |-> c, user |-> u, quota |-> 0]]
    /\ UNCHANGED <<table, balance, active, edit, past>>

\* Faulty: the row is read without FOR UPDATE.
LockRowNotLocked(r) ==
    LET c == req[r].code IN
    /\ req[r].at = "asked"
    /\ req' = [req EXCEPT ![r] =
                  IF status[c] = "enabled"
                  THEN [@ EXCEPT !.at = "locked", !.quota = quota[c]]
                  ELSE [@ EXCEPT !.at = "refused"]]
    /\ UNCHANGED <<table, balance, active, edit, past>>

\* Faulty: a code that cannot be used now is asked for again.
LockRowPolls(r) ==
    LET c == req[r].code IN
    /\ req[r].at = "asked"
    /\ Unlocked(c)
    /\ status[c] = "enabled"
    /\ req' = [req EXCEPT ![r].at = "locked", ![r].quota = quota[c]]
    /\ UNCHANGED <<table, balance, active, edit, past>>

\* SELECT ... FOR UPDATE, and the check of the status.
LockRow(r) ==
    LET c == req[r].code IN
    /\ req[r].at = "asked"
    /\ Unlocked(c)
    /\ req' = [req EXCEPT ![r] =
                  IF status[c] = "enabled"
                  THEN [@ EXCEPT !.at = "locked", !.quota = quota[c]]
                  ELSE [@ EXCEPT !.at = "refused"]]
    /\ UNCHANGED <<table, balance, active, edit, past>>

\* The balance is credited, tx.Save writes the whole row, and the commit shows
\* both.
Pay(r) ==
    LET q == req[r] IN
    /\ q.at = "locked"
    /\ active[q.user]
    /\ balance' = [balance EXCEPT ![q.user] = @ + q.quota]
    /\ status' = [status EXCEPT ![q.code] = "used"]
    /\ quota' = [quota EXCEPT ![q.code] = q.quota]
    /\ payments' = payments \cup {<<r, q.code, q.user, q.quota, opening[q.code]>>}
    /\ req' = [req EXCEPT ![r].at = "paid"]
    /\ UNCHANGED <<active, edit, opening>>

\* The user is disabled, or a statement fails: everything is rolled back.
RollBack(r) ==
    /\ req[r].at = "locked"
    /\ DbMayFail \/ ~active[req[r].user]
    /\ req' = [req EXCEPT ![r].at = "refused"]
    /\ UNCHANGED <<table, balance, active, edit, past>>

----------------------------------------------------------------------------
(* The administrators.                                                     *)

\* UpdateRedemption, first half: GetRedemptionById, and the fields asked for.
ReadRow(e, c) ==
    /\ edit[e].at = "idle"
    /\ status[c] # "deleted"
    /\ \/ /\ "enable" \in Edits
          /\ edit' = [edit EXCEPT ![e] = [at |-> "update", code |-> c,
                                          status |-> "enabled", quota |-> quota[c]]]
       \/ /\ "disable" \in Edits
          /\ edit' = [edit EXCEPT ![e] = [at |-> "update", code |-> c,
                                          status |-> "disabled", quota |-> quota[c]]]
       \/ /\ "quota" \in Edits
          /\ \E q \in Quotas :
                edit' = [edit EXCEPT ![e] = [at |-> "update", code |-> c,
                                             status |-> status[c], quota |-> q]]
    /\ UNCHANGED <<table, balance, active, req, past>>

\* The history of a write: a used code is given another status.
Reopened(w) ==
    [opening EXCEPT ![w.code] =
        IF status[w.code] = "used" /\ w.status # "used" THEN @ + 1 ELSE @]

\* UpdateRedemption, second half: redemption.Update() waits for the lock and
\* writes both fields; a row deleted meanwhile stays deleted.
WriteRow(e) ==
    LET w == edit[e] IN
    /\ w.at = "update"
    /\ Unlocked(w.code)
    /\ IF status[w.code] = "deleted"
       THEN UNCHANGED table
       ELSE /\ status' = [status EXCEPT ![w.code] = w.status]
            /\ quota' = [quota EXCEPT ![w.code] = w.quota]
    /\ edit' = [edit EXCEPT ![e] = NoEdit]
    /\ opening' = Reopened(w)
    /\ UNCHANGED <<balance, active, req, payments>>

\* DeleteRedemption.
DeleteRow(c) ==
    /\ "delete" \in Edits
    /\ status[c] # "deleted"
    /\ Unlocked(c)
    /\ status' = [status EXCEPT ![c] = "deleted"]
    /\ UNCHANGED <<quota, balance, active, req, edit, past>>

\* ManageUser disables or enables the account.
SwitchUser(u) ==
    /\ active' = [active EXCEPT ![u] = ~@]
    /\ UNCHANGED <<table, balance, req, edit, past>>

----------------------------------------------------------------------------
Serve(r) == LockRow(r) \/ Pay(r) \/ RollBack(r)

Next ==
    \/ \E r \in Redeemers : \/ Serve(r)
                            \/ \E c \in Codes, u \in Users : Request(r, c, u)
    \/ \E e \in Editors : WriteRow(e) \/ \E c \in Codes : ReadRow(e, c)
    \/ \E c \in Codes : DeleteRow(c)
    \/ \E u \in Users : SwitchUser(u)

\* Requests that arrived are served; whoever holds a row lets go of it in the
\* end, and there are finitely many requests.
Fairness == \A r \in Redeemers : WF_vars(Serve(r))

Spec == Init /\ [][Next]_vars /\ Fairness

----------------------------------------------------------------------------
Requests == [at : {"idle", "asked", "locked", "paid", "refused"},
             code : Codes, user : Users, quota : Quotas \cup {0}]
EditedRows == [at : {"idle", "update"}, code : Codes,
               status : Statuses, quota : Quotas]

TypeOK ==
    /\ status \in [Codes -> Statuses]
    /\ quota \in [Codes -> Quotas]
    /\ balance \in [Users -> Nat]
    /\ active \in [Users -> BOOLEAN]
    /\ req \in [Redeemers -> Requests]
    /\ edit \in [Editors -> EditedRows]
    /\ opening \in [Codes -> Nat]
    /\ payments \subseteq Redeemers \X Codes \X Users \X Quotas \X Nat

\* A code is paid again only if an administrator's write took its "used" off in
\* between, and then once: requests that race for it, edits that were started
\* earlier and failing statements never make two payments of one opening
\* (redemption.go:80-98).
PaidOncePerOpening ==
    \A p, q \in payments : p[2] = q[2] /\ p[5] = q[5] => p = q

\* Redeem pays what the row says at the commit, not only when it was read: no
\* edit or deletion slips in between, because the row is held (redemption.go:80).
PaymentMatchesTheRow ==
    [][\A p \in payments' \ payments :
          status[p[2]] = "enabled" /\ quota[p[2]] = p[4]]_vars

\* Every request for a code is answered, whoever holds the row.
EveryRequestIsAnswered ==
    \A r \in Redeemers : req[r].at = "asked" ~> req[r].at \in {"paid", "refused"}
=============================================================================
