----------------------------- MODULE MCWebLists -----------------------------
(***************************************************************************)
(* Every table of the three front ends, one at a time: the initial state   *)
(* picks the page that is open.                                            *)
(***************************************************************************)
EXTENDS DefaultLists, AirLists, BerryLists

VARIABLE
    tidy        \* the list never held a row twice, and the deletion of all
                \* disabled channels was never asked for

allVars == <<vars, tidy>>

NoRowTwice == \A i, j \in DOMAIN view.rows : view.rows[i].id = view.rows[j].id => i = j
Tidy == NoRowTwice /\ \A n \in DOMAIN net : net[n].req # "purge"

Init ==
    /\ ServerInit
    /\ tidy = TRUE
    /\ \/ TokensInit \/ UsersInit \/ RedemptionsInit \/ ChannelsInit \/ LogsInit
       \/ airTokensInit \/ airRedemptionsInit \/ airUsersInit \/ airChannelsInit \/ airLogsInit
       \/ berryChannelsInit \/ berryTokensInit \/ berryUsersInit \/ berryRedemptionsInit \/ berryLogsInit

Moves ==
    \/ Serve \/ Elsewhere
    \/ TokensNext \/ UsersNext \/ RedemptionsNext \/ ChannelsNext \/ LogsNext
    \/ airTokensNext \/ airRedemptionsNext \/ airUsersNext \/ airChannelsNext \/ airLogsNext
    \/ berryChannelsNext \/ berryTokensNext \/ berryUsersNext \/ berryRedemptionsNext \/ berryLogsNext

Next == Moves /\ tidy' = (tidy /\ Tidy')

Spec == Init /\ [][Next]_allVars

Berry == view.at \in {"berry.Channels", "berry.Tokens", "berry.Users", "berry.Redemptions", "berry.Logs"}

\* Every status a table shows, in a row or in a switch, is one that this very row
\* had at some time, and a row shown as deleted was deleted: an answer never
\* reaches another row than the one it is about, whatever loads, searches, sorts
\* and deletions happened in between (manageToken and its like of the tables).
RowsShowThePast ==
    /\ \A i \in DOMAIN view.rows :
        LET row == view.rows[i] IN
        row.st \in server.was[row.id] /\ (row.del => None \in server.was[row.id])
    /\ Berry => \A id \in DOMAIN view.switch : view.switch[id].st \in server.was[id]

\* In the front ends default and air: when nobody else changes the data, no
\* request breaks, and the reader waits for each answer before the next click,
\* the table at rest shows every row it still shows with its true status (the
\* Returns handlers of the tables).  Not so once a page was loaded over a list that
\* had its rows elsewhere: the copies go apart, and the stale one can remain.  Nor
\* when all disabled channels were deleted from a later page: only that page is
\* loaded again.
WhatIsShownIsTrue ==
    ~Berry /\ tidy /\ history.alone /\ history.faults = 0 /\ net = <<>>
    => \A i \in DOMAIN view.rows :
        view.rows[i].del \/ server.rows[view.rows[i].id] = view.rows[i].st

\* The accounts table of default, which appends later pages to what it shows,
\* never shows an account twice, even when accounts are added meanwhile and the
\* pages of the service shift (loadUsers).
NoUserTwice == view.at = "default.Users" => NoRowTwice
=============================================================================
