------------------------- MODULE Redemption_proofs -------------------------
(***************************************************************************)
(* Proofs about Redemption, for any number of codes, users and requests.   *)
(*                                                                         *)
(* That Redeem pays what the row says rests on the lock: while a request   *)
(* holds a code, the row stays what the request read.  That a code is paid *)
(* once per opening rests on it as well: the row of a code that was paid   *)
(* says so until an administrator writes another status.                   *)
(***************************************************************************)
EXTENDS Redemption, TLAPS

\* The row of a code that a request holds is what the request read.
RowIsHeld ==
    \A r \in Redeemers : req[r].at = "locked" =>
        status[req[r].code] = "enabled" /\ quota[req[r].code] = req[r].quota

LockIsExclusive ==
    \A r, s \in Redeemers :
        r # s /\ req[r].at = "locked" /\ req[s].at = "locked"
            => req[r].code # req[s].code

LInv == TypeOK /\ RowIsHeld /\ LockIsExclusive

\* The row of a code that was paid since it was last opened is spent.
PaidCodesAreSpent ==
    \A p \in payments :
        /\ p[5] <= opening[p[2]]
        /\ p[5] = opening[p[2]] => status[p[2]] \in {"used", "deleted"}

OnceInv == LInv /\ PaidCodesAreSpent /\ PaidOncePerOpening

----------------------------------------------------------------------------
LEMMA NoRowTypes ==
    /\ NoReq \in Requests
    /\ NoEdit \in EditedRows /\ NoEdit.status = "enabled"
    /\ NoReq.at = "idle" /\ NoEdit.at = "idle"
  <1>1. /\ (CHOOSE c \in Codes : TRUE) \in Codes
        /\ (CHOOSE u \in Users : TRUE) \in Users
        /\ (CHOOSE q \in Quotas : TRUE) \in Quotas
    BY RedemptionAssumption
  <1> QED
    BY <1>1 DEF NoReq, NoEdit, Requests, EditedRows, Statuses

LEMMA InitLInv == Init => LInv
  <1> SUFFICES ASSUME Init PROVE LInv
    OBVIOUS
  <1>1. /\ status \in [Codes -> Statuses] /\ quota \in [Codes -> Quotas]
        /\ balance \in [Users -> Nat] /\ active \in [Users -> BOOLEAN]
        /\ opening \in [Codes -> Nat]
        /\ payments \subseteq Redeemers \X Codes \X Users \X Quotas \X Nat
    BY DEF Init, Statuses
  <1>2. /\ req \in [Redeemers -> Requests]
        /\ \A r \in Redeemers : req[r].at = "idle"
    <2>1. NoReq \in Requests
      BY NoRowTypes
    <2>2. req = [r \in Redeemers |-> NoReq]
      BY DEF Init
    <2> QED
      BY <2>1, <2>2, NoRowTypes
  <1>3. edit \in [Editors -> EditedRows]
    <2>1. NoEdit \in EditedRows
      BY NoRowTypes DEF Statuses
    <2>2. edit = [e \in Editors |-> NoEdit]
      BY DEF Init
    <2> QED
      BY <2>1, <2>2
  <1> QED
    BY <1>1, <1>2, <1>3 DEF LInv, TypeOK, Requests, EditedRows, RowIsHeld, LockIsExclusive

LEMMA RequestInv ==
    ASSUME LInv, NEW r \in Redeemers, NEW c \in Codes, NEW u \in Users, Request(r, c, u)
    PROVE  LInv'
  BY DEF LInv, TypeOK, Requests, EditedRows, RowIsHeld, LockIsExclusive, Request, table, past

LEMMA LockRowInv ==
    ASSUME LInv, NEW r \in Redeemers, LockRow(r)
    PROVE  LInv'
  <1>1. req[r].code \in Codes /\ quota[req[r].code] \in Quotas
    BY DEF LInv, TypeOK, Requests, EditedRows
  <1>2. TypeOK'
    <2>1. CASE status[req[r].code] = "enabled"
      <3>1. req' = [req EXCEPT ![r] = [req[r] EXCEPT !.at = "locked", !.quota = quota[req[r].code]]]
        BY <2>1 DEF LInv, TypeOK, LockRow
      <3>2. [req[r] EXCEPT !.at = "locked", !.quota = quota[req[r].code]] \in Requests
        BY <1>1 DEF LInv, TypeOK, Requests
      <3> QED
        BY <3>1, <3>2 DEF LInv, TypeOK, LockRow, table, past
    <2>2. CASE status[req[r].code] # "enabled"
      <3>1. req' = [req EXCEPT ![r] = [req[r] EXCEPT !.at = "refused"]]
        BY <2>2 DEF LInv, TypeOK, LockRow
      <3>2. [req[r] EXCEPT !.at = "refused"] \in Requests
        BY <1>1 DEF LInv, TypeOK, Requests
      <3> QED
        BY <3>1, <3>2 DEF LInv, TypeOK, LockRow, table, past
    <2> QED
      BY <2>1, <2>2
  <1>3. RowIsHeld'
    BY <1>1 DEF LInv, TypeOK, Requests, EditedRows, RowIsHeld, LockRow, table, past
  <1>4. LockIsExclusive'
    BY <1>1 DEF LInv, TypeOK, Requests, EditedRows, LockIsExclusive, LockRow, Unlocked
  <1> QED
    BY <1>2, <1>3, <1>4 DEF LInv

LEMMA PayInv ==
    ASSUME LInv, NEW r \in Redeemers, Pay(r)
    PROVE  LInv'
  <1>1. /\ req[r].code \in Codes /\ req[r].user \in Users
        /\ req[r].quota \in Quotas /\ req[r].quota \in Nat
        /\ req[r].at = "locked"
    BY RedemptionAssumption DEF LInv, TypeOK, Requests, EditedRows, RowIsHeld, Pay
  <1>2. balance' \in [Users -> Nat]
    <2>1. balance[req[r].user] + req[r].quota \in Nat
      BY <1>1 DEF LInv, TypeOK, Requests, EditedRows
    <2> QED
      BY <2>1 DEF LInv, TypeOK, Requests, EditedRows, Pay
  <1>3. payments' \subseteq Redeemers \X Codes \X Users \X Quotas \X Nat
    BY <1>1 DEF LInv, TypeOK, Requests, EditedRows, Pay
  <1>4. TypeOK'
    BY <1>1, <1>2, <1>3 DEF LInv, TypeOK, Requests, EditedRows, Pay, Statuses
  <1>5. RowIsHeld'
    <2> SUFFICES ASSUME NEW s \in Redeemers, req'[s].at = "locked"
                 PROVE  /\ status'[req'[s].code] = "enabled"
                        /\ quota'[req'[s].code] = req'[s].quota
      BY DEF RowIsHeld
    <2>1. s # r /\ req'[s] = req[s]
      BY DEF LInv, TypeOK, Requests, EditedRows, Pay
    <2>2. req[s].code # req[r].code /\ req[s].code \in Codes
      BY <1>1, <2>1 DEF LInv, LockIsExclusive, TypeOK, Requests
    <2> QED
      BY <1>1, <2>1, <2>2 DEF LInv, TypeOK, Requests, EditedRows, RowIsHeld, Pay
  <1>6. LockIsExclusive'
    BY DEF LInv, TypeOK, Requests, EditedRows, LockIsExclusive, Pay
  <1> QED
    BY <1>4, <1>5, <1>6 DEF LInv

LEMMA RollBackInv ==
    ASSUME LInv, NEW r \in Redeemers, RollBack(r)
    PROVE  LInv'
  BY DEF LInv, TypeOK, Requests, EditedRows, RowIsHeld, LockIsExclusive, RollBack, table, past

LEMMA ReadRowInv ==
    ASSUME LInv, NEW e \in Editors, NEW c \in Codes, ReadRow(e, c)
    PROVE  LInv'
  <1>1. status[c] \in Statuses /\ quota[c] \in Nat /\ \A q \in Quotas : q \in Nat
    BY RedemptionAssumption DEF LInv, TypeOK, Requests, EditedRows
  <1>2. TypeOK'
    BY <1>1 DEF LInv, TypeOK, Requests, EditedRows, ReadRow, table, past, Statuses
  <1> QED
    BY <1>2 DEF LInv, RowIsHeld, LockIsExclusive, ReadRow, table, past

LEMMA DeleteRowInv ==
    ASSUME LInv, NEW c \in Codes, DeleteRow(c)
    PROVE  LInv'
  BY DEF LInv, TypeOK, Requests, EditedRows, RowIsHeld, LockIsExclusive, DeleteRow, Unlocked, Statuses, past

LEMMA SwitchUserInv ==
    ASSUME LInv, NEW u \in Users, SwitchUser(u)
    PROVE  LInv'
  BY DEF LInv, TypeOK, Requests, EditedRows, RowIsHeld, LockIsExclusive, SwitchUser, table, past

LEMMA WriteRowInv ==
    ASSUME LInv, NEW e \in Editors, WriteRow(e)
    PROVE  LInv'
  <1>1. edit[e].code \in Codes /\ edit[e].status \in Statuses /\ edit[e].quota \in Quotas
    BY DEF LInv, TypeOK, Requests, EditedRows
  <1>2. status' \in [Codes -> Statuses] /\ quota' \in [Codes -> Quotas]
    BY <1>1 DEF LInv, TypeOK, Requests, EditedRows, WriteRow, table, past
  <1>3. edit' \in [Editors -> EditedRows]
    BY NoRowTypes DEF LInv, TypeOK, Requests, EditedRows, WriteRow, Statuses
  <1>6. opening' \in [Codes -> Nat]
    BY <1>1 DEF LInv, TypeOK, WriteRow, Reopened
  <1>4. TypeOK'
    BY <1>2, <1>3, <1>6 DEF LInv, TypeOK, Requests, EditedRows, WriteRow
  <1>5. RowIsHeld'
    <2> SUFFICES ASSUME NEW r \in Redeemers, req[r].at = "locked"
                 PROVE  /\ status'[req[r].code] = status[req[r].code]
                        /\ quota'[req[r].code] = quota[req[r].code]
      BY DEF LInv, RowIsHeld, WriteRow
    <2>1. req[r].code # edit[e].code
      BY DEF WriteRow, Unlocked
    <2> QED
      BY <2>1 DEF LInv, TypeOK, Requests, EditedRows, WriteRow, table, past
  <1> QED
    BY <1>4, <1>5 DEF LInv, LockIsExclusive, WriteRow

LEMMA NextLInv == LInv /\ [Next]_vars => LInv'
  <1> SUFFICES ASSUME LInv, [Next]_vars PROVE LInv'
    OBVIOUS
  <1>1. CASE \E r \in Redeemers : \/ Serve(r)
                                  \/ \E c \in Codes, u \in Users : Request(r, c, u)
    BY <1>1, LockRowInv, PayInv, RollBackInv, RequestInv DEF Serve
  <1>2. CASE \E e \in Editors : WriteRow(e) \/ \E c \in Codes : ReadRow(e, c)
    BY <1>2, WriteRowInv, ReadRowInv
  <1>3. CASE \E c \in Codes : DeleteRow(c)
    BY <1>3, DeleteRowInv
  <1>4. CASE \E u \in Users : SwitchUser(u)
    BY <1>4, SwitchUserInv
  <1>5. CASE UNCHANGED vars
    BY <1>5 DEF vars, LInv, TypeOK, RowIsHeld, LockIsExclusive, table, past
  <1> QED
    BY <1>1, <1>2, <1>3, <1>4, <1>5 DEF Next

LEMMA LockInvariance == Spec => []LInv
  BY InitLInv, NextLInv, PTL DEF Spec

\* Every variable keeps its type.
THEOREM TypeCorrect == Spec => []TypeOK
  <1>1. LInv => TypeOK
    BY DEF LInv
  <1> QED
    BY <1>1, LockInvariance, PTL

\* Whatever edits race with it, Redeem pays for a code that is enabled at the
\* commit, and pays the quota that the row has at the commit.
THEOREM Payment_matches_row == Spec => PaymentMatchesTheRow
  <1> DEFINE A == \A p \in payments' \ payments :
                     status[p[2]] = "enabled" /\ quota[p[2]] = p[4]
  <1>1. LInv /\ [Next]_vars => [A]_vars
    <2> SUFFICES ASSUME LInv, Next PROVE A
      OBVIOUS
    <2> SUFFICES ASSUME NEW p \in payments' \ payments
                 PROVE  status[p[2]] = "enabled" /\ quota[p[2]] = p[4]
      OBVIOUS
    <2>1. PICK r \in Redeemers : Pay(r)
      BY DEF Next, Serve, Request, LockRow, RollBack, ReadRow, WriteRow, DeleteRow, SwitchUser, past
    <2>2. /\ p = <<r, req[r].code, req[r].user, req[r].quota, opening[req[r].code]>>
          /\ req[r].at = "locked"
      BY <2>1 DEF Pay
    <2> QED
      BY <2>2 DEF LInv, RowIsHeld
  <1> QED
    BY <1>1, LockInvariance, PTL DEF Spec, PaymentMatchesTheRow

----------------------------------------------------------------------------
LEMMA InitOnce == Init => OnceInv
  BY InitLInv DEF Init, OnceInv, PaidCodesAreSpent, PaidOncePerOpening

LEMMA NextOnce == OnceInv /\ [Next]_vars => OnceInv'
  <1> SUFFICES ASSUME OnceInv, [Next]_vars PROVE OnceInv'
    OBVIOUS
  <1>1. LInv'
    BY NextLInv DEF OnceInv
  <1>0. /\ status \in [Codes -> Statuses] /\ opening \in [Codes -> Nat]
        /\ \A p \in payments : p[2] \in Codes /\ p[5] \in Nat
    BY DEF OnceInv, LInv, TypeOK
  <1>2. CASE UNCHANGED <<status, opening, payments>>
    <2>1. PaidCodesAreSpent'
      BY <1>2 DEF OnceInv, PaidCodesAreSpent
    <2>2. PaidOncePerOpening'
      BY <1>2 DEF OnceInv, PaidOncePerOpening
    <2> QED
      BY <1>1, <2>1, <2>2 DEF OnceInv
  <1>3. ASSUME NEW r \in Redeemers, Pay(r) PROVE OnceInv'
    <2> DEFINE c == req[r].code
               new == <<r, c, req[r].user, req[r].quota, opening[c]>>
    <2>1. /\ payments' = payments \cup {new}
          /\ status' = [status EXCEPT ![c] = "used"]
          /\ opening' = opening
      BY <1>3 DEF Pay
    <2>2. c \in Codes /\ status[c] = "enabled" /\ new[2] = c /\ new[5] = opening[c]
      BY <1>3 DEF Pay, OnceInv, LInv, RowIsHeld, TypeOK, Requests
    <2>3. \A p \in payments : ~(p[2] = new[2] /\ p[5] = new[5])
      BY <2>2 DEF OnceInv, PaidCodesAreSpent
    <2> HIDE DEF new
    <2>4. PaidCodesAreSpent'
      BY <1>0, <2>1, <2>2 DEF OnceInv, PaidCodesAreSpent
    <2>5. PaidOncePerOpening'
      BY <2>1, <2>3 DEF OnceInv, PaidOncePerOpening
    <2> QED
      BY <1>1, <2>4, <2>5 DEF OnceInv
  <1>4. ASSUME NEW e \in Editors, WriteRow(e) PROVE OnceInv'
    <2> DEFINE w == edit[e]
    <2>1. w.code \in Codes /\ payments' = payments
      BY <1>4 DEF WriteRow, OnceInv, LInv, TypeOK, EditedRows
    <2>2. CASE status[w.code] = "deleted"
      <3>1. status' = status /\ opening' = opening
        BY <1>0, <1>4, <2>2 DEF WriteRow, table, Reopened
      <3> QED
        BY <1>2, <2>1, <3>1
    <2>3. CASE status[w.code] = "used" /\ w.status # "used"
      <3>1. /\ status' = [status EXCEPT ![w.code] = w.status]
            /\ opening' = [opening EXCEPT ![w.code] = @ + 1]
        BY <1>4, <2>3 DEF WriteRow, Reopened
      <3>2. PaidCodesAreSpent'
        BY <1>0, <2>1, <3>1 DEF OnceInv, PaidCodesAreSpent
      <3> QED
        BY <1>1, <2>1, <3>2 DEF OnceInv, PaidOncePerOpening
    <2>4. CASE /\ status[w.code] # "deleted"
               /\ status[w.code] # "used" \/ w.status = "used"
      <3>1. /\ status' = [status EXCEPT ![w.code] = w.status]
            /\ opening' = opening
        BY <1>0, <1>4, <2>4 DEF WriteRow, Reopened
      <3>2. PaidCodesAreSpent'
        BY <1>0, <2>1, <2>4, <3>1 DEF OnceInv, PaidCodesAreSpent
      <3> QED
        BY <1>1, <2>1, <3>2 DEF OnceInv, PaidOncePerOpening
    <2> QED
      BY <2>2, <2>3, <2>4
  <1>5. ASSUME NEW c \in Codes, DeleteRow(c) PROVE OnceInv'
    <2>1. /\ status' = [status EXCEPT ![c] = "deleted"]
          /\ payments' = payments /\ opening' = opening
      BY <1>5 DEF DeleteRow, past
    <2>2. PaidCodesAreSpent'
      BY <1>0, <2>1 DEF OnceInv, PaidCodesAreSpent
    <2> QED
      BY <1>1, <2>1, <2>2 DEF OnceInv, PaidOncePerOpening
  <1>6. \/ \E r \in Redeemers : Pay(r)
        \/ \E e \in Editors : WriteRow(e)
        \/ \E c \in Codes : DeleteRow(c)
        \/ UNCHANGED <<status, opening, payments>>
    BY DEF Next, vars, Serve, Request, LockRow, RollBack, ReadRow, SwitchUser, table, past
  <1> QED
    BY <1>2, <1>3, <1>4, <1>5, <1>6

\* However many requests race for it and whatever edits are on their way, a
\* code is paid once, and once more for each time an administrator's write takes
\* its "used" off.
THEOREM Paid_once_per_opening == Spec => []PaidOncePerOpening
  <1>1. OnceInv => PaidOncePerOpening
    BY DEF OnceInv
  <1> QED
    BY InitOnce, NextOnce, <1>1, PTL DEF Spec
=============================================================================
