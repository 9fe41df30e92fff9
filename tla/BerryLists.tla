----------------------------- MODULE BerryLists -----------------------------
(***************************************************************************)
(* The tables of the front end "berry": channels, keys, accounts,          *)
(* redemption codes and logs (src/web/berry/src/views).  Pages count from  *)
(* 0.  A row is a component: it copies the status it is mounted with into  *)
(* a switch of its own, which outlives every reload of the list while the  *)
(* row stays on the screen, and is lost when it leaves it.  A failed       *)
(* request is reported and resolves to nothing, which the handler trips    *)
(* over.  Names carry the prefix berry, the rest is the source's.          *)
(***************************************************************************)
EXTENDS ListServer

Stay == 0 - 1                               \* the page does not turn
NoSwitch == [id |-> 0, st |-> 0, inst |-> 0]

BerryPage(p) == [p |-> p, order |-> "", type |-> 0, some |-> FALSE]
LoadOf(p, goto, clear, sw) == With(BerryPage(p), [goto |-> goto, clear |-> clear, sw |-> sw])
Load(p) == LoadOf(p, Stay, FALSE, NoSwitch)

BerryPlain(at) == [at |-> at, rows |-> <<>>, loading |-> FALSE, page |-> 0, keyword |-> "",
                   searching |-> TRUE, switch |-> <<>>]
BerryFirst == Request("berryLoad", "list", Load(0), <<>>)

\* The rows on the screen, and the pages the footer offers: one beyond the
\* list when its last page is full.
OnScreen(v) == Shown(v.rows, v.page + 1, PageSize)
BerryPages ==
    LET len == Len(view.rows)
        count == len + (IF len % PageSize = 0 THEN 1 ELSE 0)
    IN 0 .. (count + PageSize - 1) \div PageSize - 1

\* A name for the next component of row id, not that of one a handler belongs to.
NewInstance(id) ==
    CHOOSE e \in 0 .. MaxEvents + 2 :
        \A n \in DOMAIN net : "inst" \in DOMAIN net[n].arg /\ net[n].arg.id = id => net[n].arg.inst # e

\* What the screen shows of v: rows that were there keep their switch, new ones copy theirs.
Mounted(v) ==
    LET ids == {v.rows[i].id : i \in OnScreen(v)}
        First(id) == CHOOSE i \in OnScreen(v) : v.rows[i].id = id /\ \A j \in OnScreen(v) : v.rows[j].id = id => i <= j
    IN [v EXCEPT !.switch = [id \in ids |-> IF id \in DOMAIN @ THEN @[id]
                                            ELSE [st |-> v.rows[First(id)].st, inst |-> NewInstance(id)]]]

\* setStatusSwitch of the component that asked, if it is still there.
Switched(v, sw) ==
    IF sw.id \in DOMAIN v.switch /\ v.switch[sw.id].inst = sw.inst
    THEN [v EXCEPT !.switch[sw.id].st = sw.st] ELSE v

-----------------------------------------------------------------------------
(* What the five tables have in common *)

\* The load of a page, by the handler fn or after it.
Loads(v, q) == SendsWith([v EXCEPT !.searching = TRUE], "berryLoad", "list", q, view.rows)

LoadReturns(at) ==
    \E n \in Back(at, "berryLoad") :
        LET q == net[n].arg
            rows == IF net[n].st = "refused" THEN view.rows
                    ELSE IF q.p = 0 THEN Rows(n) ELSE Spliced(net[n].was, q.p * PageSize, Rows(n))
            v == [view EXCEPT !.rows = rows, !.searching = FALSE,
                              !.page = IF q.goto = Stay THEN @ ELSE q.goto,
                              !.keyword = IF q.clear THEN "" ELSE @]
        IN
        \/ Rejected(n)
        \/ net[n].st # "failed" /\ Ends(n, Switched(Mounted(v), q.sw))

\* A page beyond the list is loaded before it is turned to.
PageChange(at) ==
    /\ At(at)
    /\ \E p \in BerryPages :
        IF p = Pages(view.rows) THEN Loads(view, LoadOf(p, p, FALSE, NoSwitch))
        ELSE Shows(Mounted([view EXCEPT !.page = p]))

Searches(at) ==
    /\ At(at)
    /\ IF view.keyword = "" THEN Loads(view, LoadOf(0, 0, FALSE, NoSwitch))
       ELSE Sends([view EXCEPT !.searching = TRUE], "berrySearch", "search", <<>>)

SearchReturns(at) ==
    \E n \in Back(at, "berrySearch") :
        LET v == [view EXCEPT !.searching = FALSE] IN
        \/ Rejected(n)
        \/ net[n].st = "refused" /\ Ends(n, v)
        \/ net[n].st = "ok" /\ Ends(n, Mounted([v EXCEPT !.rows = Rows(n), !.page = 0]))

\* A request of a row's component, with the page its closure shows.
Asks(row, req, st) ==
    SendsWith(view, "berryManage", req,
              [id |-> row.id, st |-> st, inst |-> view.switch[row.id].inst, page |-> view.page], view.rows)

\* handleStatus asks for the opposite of its switch, handleDelete has the row deleted.
Toggle(row) == <<"put", IF view.switch[row.id].st = Enabled THEN Disabled ELSE Enabled>>
Drop == <<"delete", None>>

\* The row's menu, dialog and controls, with what each asks the service for.
RowAsks(at, asks(_)) ==
    /\ At(at)
    /\ \E i \in OnScreen(view) : \E a \in asks(view.rows[i]) : Asks(view.rows[i], a[1], a[2])

SwitchOf(q) == [id |-> q.id, st |-> q.st, inst |-> q.inst]

\* Faulty: the switch moves whatever the service said.
StatusReturnsUnasked(n) == Ends(n, Switched(view, SwitchOf(net[n].arg)))

StatusReturns(n) == Ends(n, IF net[n].st = "ok" THEN Switched(view, SwitchOf(net[n].arg)) ELSE view)

\* What follows the answer to a row's request; a deletion has page p loaded.
ManageReturns(at, p(_)) ==
    \E n \in Back(at, "berryManage") :
        \/ Rejected(n)
        \/ net[n].st # "failed" /\ net[n].req = "put" /\ StatusReturns(n)
        \/ net[n].st # "failed" /\ net[n].req \in {"touch", "tell"} /\ Ends(n, view)
        \/ net[n].st = "refused" /\ net[n].req = "delete" /\ Ends(n, view)
        \/ /\ net[n].st = "ok" /\ net[n].req = "delete"
           /\ GoesOn(n, [view EXCEPT !.searching = TRUE], "berryLoad", "list", Load(p(net[n].arg)), net[n].was)

\* The drawer saved a row; it is closed and the list refreshed.
Saves(at, q) == At(at) /\ SavedThen([view EXCEPT !.searching = TRUE], "berryLoad", "list", q, view.rows)

PageOf(q) == q.page
FirstPage(q) == 0

berryHandleSearchKeyword ==
    /\ view.at \in {"berry.Channels", "berry.Tokens", "berry.Users", "berry.Redemptions"}
    /\ \E k \in {"", "some"} : Shows([view EXCEPT !.keyword = k])

-----------------------------------------------------------------------------
(* Channel *)

\* The effect also loads the names of the models, which no row shows.
berryChannelsInit == Opens(BerryPlain("berry.Channels"), <<BerryFirst>>)

berryLoadChannelsReturns == LoadReturns("berry.Channels")
berryOnPaginationChangeChannels == PageChange("berry.Channels")
berrySearchChannels == Searches("berry.Channels")
berrySearchChannelsReturns == SearchReturns("berry.Channels")

\* The switch, the deletion, the priority, and a test or the balance.
ChannelAsks(row) == {Toggle(row), Drop, <<"touch", None>>, <<"tell", None>>}
berryChannelRow == RowAsks("berry.Channels", ChannelAsks)

berryManageChannelReturns == ManageReturns("berry.Channels", PageOf)

berryHandleRefreshChannels == Saves("berry.Channels", Load(view.page))

\* Tests and the balances show nothing but a message.
berryTestAllChannels == At("berry.Channels") /\ Sends(view, "berryTell", "tell", [spin |-> FALSE])
berryUpdateAllChannelsBalance ==
    At("berry.Channels") /\ Sends([view EXCEPT !.searching = TRUE], "berryTell", "tell", [spin |-> TRUE])
berryTellReturns ==
    \E n \in Back("berry.Channels", "berryTell") :
        \/ Rejected(n)
        \/ net[n].st # "failed" /\ Ends(n, [view EXCEPT !.searching = @ /\ ~net[n].arg.spin])

berryDeleteAllDisabledChannels ==
    At("berry.Channels") /\ SendsWith(view, "berryPurge", "purge", [page |-> view.page], view.rows)
berryDeleteAllDisabledChannelsReturns ==
    \E n \in Back("berry.Channels", "berryPurge") :
        \/ Rejected(n)
        \/ net[n].st = "refused" /\ Ends(n, view)
        \/ net[n].st = "ok" /\ GoesOn(n, [view EXCEPT !.searching = TRUE], "berryLoad", "list",
                                      Load(net[n].arg.page), net[n].was)

berryChannelsNext ==
    \/ berryLoadChannelsReturns \/ berryOnPaginationChangeChannels \/ berrySearchChannels
    \/ berrySearchChannelsReturns \/ berryHandleSearchKeyword \/ berryChannelRow \/ berryManageChannelReturns
    \/ berryHandleRefreshChannels \/ berryTestAllChannels \/ berryUpdateAllChannelsBalance
    \/ berryTellReturns \/ berryDeleteAllDisabledChannels \/ berryDeleteAllDisabledChannelsReturns

-----------------------------------------------------------------------------
(* Token *)

berryTokensInit == Opens(BerryPlain("berry.Tokens"), <<BerryFirst>>)

berryLoadTokensReturns == LoadReturns("berry.Tokens")
berryOnPaginationChangeTokens == PageChange("berry.Tokens")
berrySearchTokens == Searches("berry.Tokens")
berrySearchTokensReturns == SearchReturns("berry.Tokens")

\* Copies and chat links of a key change nothing the page keeps.
TokenAsks(row) == {Toggle(row), Drop}
berryTokenRow == RowAsks("berry.Tokens", TokenAsks)

berryManageTokenReturns == ManageReturns("berry.Tokens", PageOf)
berryHandleRefreshTokens == Saves("berry.Tokens", Load(view.page))

berryTokensNext ==
    \/ berryLoadTokensReturns \/ berryOnPaginationChangeTokens \/ berrySearchTokens
    \/ berrySearchTokensReturns \/ berryTokenRow \/ berryManageTokenReturns \/ berryHandleRefreshTokens

-----------------------------------------------------------------------------
(* User: every change is followed by a load, and the switch moves after it *)

berryUsersInit == Opens(BerryPlain("berry.Users"), <<BerryFirst>>)

berryLoadUsersReturns == LoadReturns("berry.Users")
berryOnPaginationChangeUsers == PageChange("berry.Users")
berrySearchUsers == Searches("berry.Users")
berrySearchUsersReturns == SearchReturns("berry.Users")

\* The status, the role and the deletion; an account may have a role that cannot change.
UserAsks(row) == {Toggle(row), Drop} \cup IF row.id \in Manageable THEN {<<"touch", None>>} ELSE {}
berryUserRow == RowAsks("berry.Users", UserAsks)

berryManageUserReturns ==
    \E n \in Back("berry.Users", "berryManage") :
        LET q == net[n].arg
            sw == IF net[n].req = "put" THEN SwitchOf(q) ELSE NoSwitch
        IN
        \/ Rejected(n)
        \/ net[n].st = "refused" /\ Ends(n, view)
        \/ /\ net[n].st = "ok"
           /\ GoesOn(n, [view EXCEPT !.searching = TRUE], "berryLoad", "list",
                     With(LoadOf(q.page, Stay, FALSE, sw), [id |-> q.id, inst |-> q.inst]), net[n].was)

berryHandleRefreshUsers == Saves("berry.Users", Load(view.page))

berryUsersNext ==
    \/ berryLoadUsersReturns \/ berryOnPaginationChangeUsers \/ berrySearchUsers
    \/ berrySearchUsersReturns \/ berryUserRow \/ berryManageUserReturns \/ berryHandleRefreshUsers

-----------------------------------------------------------------------------
(* Redemption: a deletion reloads the first page, wherever the table is *)

berryRedemptionsInit == Opens(BerryPlain("berry.Redemptions"), <<BerryFirst>>)

berryLoadRedemptionsReturns == LoadReturns("berry.Redemptions")
berryOnPaginationChangeRedemptions == PageChange("berry.Redemptions")
berrySearchRedemptions == Searches("berry.Redemptions")
berrySearchRedemptionsReturns == SearchReturns("berry.Redemptions")

\* A code that was used shows a label instead of the switch.
CodeAsks(row) == {Drop} \cup IF row.st = Used THEN {} ELSE {Toggle(row)}
berryRedemptionRow == RowAsks("berry.Redemptions", CodeAsks)

berryManageRedemptionsReturns == ManageReturns("berry.Redemptions", FirstPage)

\* The refresh turns to the first page and clears the keyword.
berryHandleRefreshRedemptions == Saves("berry.Redemptions", LoadOf(0, 0, TRUE, NoSwitch))

berryRedemptionsNext ==
    \/ berryLoadRedemptionsReturns \/ berryOnPaginationChangeRedemptions \/ berrySearchRedemptions
    \/ berrySearchRedemptionsReturns \/ berryRedemptionRow \/ berryManageRedemptionsReturns
    \/ berryHandleRefreshRedemptions

-----------------------------------------------------------------------------
(* Log: rows have no switch; the filters are kept with the page *)

LogLoad(type, some, p, goto) == [LoadOf(p, goto, FALSE, NoSwitch) EXCEPT !.type = type, !.some = some]

\* The effect runs for initPage TRUE and again for FALSE.
berryLogsInit ==
    Opens(With(BerryPlain("berry.Logs"), [type |-> 0, some |-> FALSE]), <<BerryFirst, BerryFirst>>)

berryLoadLogsReturns == LoadReturns("berry.Logs")

berryOnPaginationChangeLogs ==
    /\ At("berry.Logs")
    /\ \E p \in BerryPages :
        IF p = Pages(view.rows) THEN Loads(view, LogLoad(view.type, view.some, p, p))
        ELSE Shows(Mounted([view EXCEPT !.page = p]))

berrySearchLogs == At("berry.Logs") /\ Loads(view, LogLoad(view.type, view.some, 0, 0))

\* A filter applies from the next load on.
berryHandleSearchKeywordLogs ==
    /\ At("berry.Logs")
    /\ \/ \E type \in {0, Enabled, Disabled} : Shows([view EXCEPT !.type = type])
       \/ Shows([view EXCEPT !.some = ~@])

\* The effect loads twice: with the filters its closure holds, then without.
berryHandleRefreshLogs ==
    /\ At("berry.Logs")
    /\ SendsBoth(Mounted([view EXCEPT !.type = 0, !.some = FALSE, !.page = 0, !.searching = TRUE]),
                 Request("berryLoad", "list", LogLoad(view.type, view.some, 0, Stay), view.rows),
                 Request("berryLoad", "list", LogLoad(0, FALSE, 0, Stay), view.rows))

berryLogsNext ==
    \/ berryLoadLogsReturns \/ berryOnPaginationChangeLogs \/ berrySearchLogs
    \/ berryHandleSearchKeywordLogs \/ berryHandleRefreshLogs
=============================================================================
