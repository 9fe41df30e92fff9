------------------------------- MODULE AirLists -------------------------------
(***************************************************************************)
(* The tables of the front end "air": keys, redemption codes, accounts,    *)
(* channels and logs (src/web/air/src/components).  A failed request is    *)
(* reported and resolves to nothing, which the handler trips over.  After  *)
(* a deletion the row is removed from the list whether or not the service  *)
(* agreed.  Names carry the prefix air, the rest is the source's.          *)
(***************************************************************************)
EXTENDS ListServer

AirPage(p, order, type) == [p |-> p, order |-> order, type |-> type, some |-> FALSE]
AirPlain(at) == [at |-> at, rows |-> <<>>, loading |-> TRUE, page |-> 1, keyword |-> "",
                 searching |-> FALSE, size |-> PageSize, count |-> PageSize]

\* The pages a table offers: the total it was told, by the size it shows.
AirPages == 1 .. (view.count + view.size - 1) \div view.size

\* The page after the last one of the list is loaded when it is turned to.
Beyond(p) == p = (Len(view.rows) + view.size - 1) \div view.size + 1

AirShown == Shown(view.rows, view.page, view.size)

\* The list without the first row of this number.
RemoveRecord(rows, id) ==
    LET at == {i \in DOMAIN rows : rows[i].id = id}
    IN  IF at = {} THEN rows ELSE Removed(rows, CHOOSE i \in at : \A j \in at : i <= j)

\* The button for the opposite of the status a row shows.
Opposite(row) == IF row.st = Enabled THEN Disabled ELSE Enabled

-----------------------------------------------------------------------------
(* TokensTable *)

airTokensInit ==
    Opens(With(AirPlain("air.Tokens"), [orderBy |-> ""]),
          <<Request("airLoadTokens", "list", With(AirPage(0, "", 0), [size |-> PageSize, blank |-> FALSE]), <<>>)>>)

\* The list, and one more page than it fills when it fills one.
setTokensFormat(v, rows, size) ==
    [v EXCEPT !.rows = rows, !.count = IF Len(rows) >= size THEN Len(rows) + size ELSE Len(rows)]

TokensRequest(p, order, size, blank) == With(AirPage(p, order, 0), [size |-> size, blank |-> blank])

airLoadTokens(v, p, blank) ==
    SendsWith([v EXCEPT !.loading = TRUE], "airLoadTokens", "list",
              TokensRequest(p, v.orderBy, v.size, blank), view.rows)

\* After a search for nothing the order is reset, which loads again if there was one.
airLoadTokensReturns ==
    \E n \in Back("air.Tokens", "airLoadTokens") :
        LET q == net[n].arg
            rows == IF q.p = 0 THEN Rows(n) ELSE Spliced(net[n].was, q.p * q.size, Rows(n))
            loaded == IF net[n].st = "ok" THEN setTokensFormat(view, rows, q.size) ELSE view
            v == [loaded EXCEPT !.loading = FALSE, !.page = IF q.blank THEN 1 ELSE @,
                                !.orderBy = IF q.blank THEN "" ELSE @]
        IN
        \/ Rejected(n)
        \/ /\ net[n].st # "failed"
           /\ IF v.orderBy = view.orderBy THEN Ends(n, v)
              ELSE GoesOn(n, [v EXCEPT !.loading = TRUE], "airLoadTokens", "list",
                          TokensRequest(0, "", v.size, FALSE), v.rows)

airHandlePageChangeTokens ==
    /\ At("air.Tokens")
    /\ \E p \in AirPages :
        LET v == [view EXCEPT !.page = p] IN IF Beyond(p) THEN airLoadTokens(v, p - 1, FALSE) ELSE Shows(v)

\* The drawer calls this once it saved a key.
airRefreshTokens ==
    /\ At("air.Tokens")
    /\ SavedThen([view EXCEPT !.loading = TRUE], "airLoadTokens", "list",
                 TokensRequest(view.page - 1, view.orderBy, view.size, FALSE), view.rows)

\* The effect of another size or order loads the first page.
airSetPageSize ==
    /\ At("air.Tokens")
    /\ \E size \in {PageSize, 2 * PageSize} \ {view.size} :
        airLoadTokens([view EXCEPT !.size = size, !.page = 1], 0, FALSE)

airHandleOrderByChangeTokens ==
    /\ At("air.Tokens")
    /\ \E order \in {"", "quota"} \ {view.orderBy} :
        airLoadTokens([view EXCEPT !.orderBy = order, !.page = 1], 0, FALSE)

\* Deletion after a confirmation, and the change of the status.
airTokenButtons(i) ==
    LET q == [id |-> view.rows[i].id, idx |-> i, size |-> view.size] IN
    {<<"delete", q>>, <<"put", With(q, [st |-> Opposite(view.rows[i])])>>}

airManageToken ==
    /\ At("air.Tokens")
    /\ \E i \in AirShown : \E b \in airTokenButtons(i) :
        SendsWith([view EXCEPT !.loading = TRUE], "airManageToken", b[1], b[2], view.rows)

airManageTokenReturns ==
    \E n \in Back("air.Tokens", "airManageToken") :
        LET was == net[n].was
            q == net[n].arg
            o == was[q.idx]
            v == [view EXCEPT !.loading = FALSE]
        IN
        \/ Rejected(n)
        \/ /\ net[n].st # "failed" /\ net[n].req = "delete"
           /\ Ends(n, setTokensFormat(v, RemoveRecord(was, q.id), q.size))
        \/ net[n].st = "refused" /\ net[n].req = "put" /\ Ends(n, v)
        \/ /\ net[n].st = "ok" /\ net[n].req = "put"
           /\ LET st == net[n].data[1].st IN
              EndsMarking(n, setTokensFormat(v, Marked(was, o, st, FALSE), q.size), o, st, FALSE)

airSearchTokens ==
    /\ At("air.Tokens")
    /\ IF view.keyword = "" THEN airLoadTokens(view, 0, TRUE)
       ELSE Sends([view EXCEPT !.searching = TRUE], "airSearchTokens", "search", [size |-> view.size])

airSearchTokensReturns ==
    \E n \in Back("air.Tokens", "airSearchTokens") :
        LET v == [view EXCEPT !.searching = FALSE] IN
        \/ Rejected(n)
        \/ net[n].st = "refused" /\ Ends(n, v)
        \/ net[n].st = "ok" /\ Ends(n, setTokensFormat([v EXCEPT !.page = 1], Rows(n), net[n].arg.size))

airHandleKeywordChange ==
    /\ view.at \in {"air.Tokens", "air.Redemptions", "air.Users", "air.Channels"}
    /\ \E k \in {"", "some"} : Shows([view EXCEPT !.keyword = k])

airTokensNext ==
    \/ airLoadTokensReturns \/ airHandlePageChangeTokens \/ airRefreshTokens \/ airSetPageSize
    \/ airHandleOrderByChangeTokens \/ airManageToken \/ airManageTokenReturns \/ airSearchTokens
    \/ airSearchTokensReturns \/ airHandleKeywordChange

-----------------------------------------------------------------------------
(* RedemptionsTable and UsersTable: a later page is pushed onto the array of *)
(* the closure.                                                              *)

PushedRequest(p, order, blank) ==
    With(AirPage(p, order, 0), [era |-> view.era, page |-> view.page, blank |-> blank])

\* setRedemptionFormat: one more row than there are when the page of the closure is full.
setRedemptionFormat(v, rows, page) ==
    [v EXCEPT !.rows = rows, !.count = IF Len(rows) >= page * PageSize THEN Len(rows) + 1 ELSE Len(rows)]

airRedemptionsInit ==
    Opens(With(AirPlain("air.Redemptions"), [era |-> 0]),
          <<Request("airLoadRedemptions", "list",
                    With(AirPage(0, "", 0), [era |-> 0, page |-> 1, blank |-> FALSE]), <<>>)>>)

airLoadRedemptions(v, p, blank) ==
    SendsWith(v, "airLoadRedemptions", "list", PushedRequest(p, "", blank), view.rows)

airLoadRedemptionsReturns ==
    \E n \in Back("air.Redemptions", "airLoadRedemptions") :
        LET q == net[n].arg
            v == [view EXCEPT !.loading = FALSE, !.page = IF q.blank THEN 1 ELSE @]
        IN
        \/ Rejected(n)
        \/ net[n].st = "refused" /\ Ends(n, v)
        \/ net[n].st = "ok" /\ q.p = 0 /\ Ends(n, [setRedemptionFormat(v, Rows(n), q.page) EXCEPT !.era = NewEra])
        \/ net[n].st = "ok" /\ q.p # 0
            /\ EndsPushing(n, setRedemptionFormat(v, net[n].was \o Rows(n), q.page), Rows(n))

airHandlePageChangeRedemptions ==
    /\ At("air.Redemptions")
    /\ \E p \in AirPages :
        LET v == [view EXCEPT !.page = p] IN IF Beyond(p) THEN airLoadRedemptions(v, p - 1, FALSE) ELSE Shows(v)

airRefreshRedemptions ==
    /\ At("air.Redemptions")
    /\ SavedThen(view, "airLoadRedemptions", "list", PushedRequest(view.page - 1, "", FALSE), view.rows)

\* A used code can be deleted but not enabled.
airRedemptionButtons(i) ==
    LET row == view.rows[i]
        q == [id |-> row.id, idx |-> i, era |-> view.era]
    IN {<<"delete", q>>} \cup IF row.st = Used THEN {} ELSE {<<"put", With(q, [st |-> Opposite(row)])>>}

airManageRedemption ==
    /\ At("air.Redemptions")
    /\ \E i \in AirShown : \E b \in airRedemptionButtons(i) :
        SendsWith(view, "airManageRedemption", b[1], b[2], view.rows)

\* What follows a change of a row: the array of the closure is copied, the record changed.
Managed(n) ==
    LET was == net[n].was
        o == was[net[n].arg.idx]
    IN
    \/ Rejected(n)
    \/ /\ net[n].st # "failed" /\ net[n].req = "delete"
       /\ Ends(n, [view EXCEPT !.rows = RemoveRecord(was, net[n].arg.id), !.era = NewEra])
    \/ net[n].st = "refused" /\ net[n].req # "delete" /\ Ends(n, view)
    \/ /\ net[n].st = "ok" /\ net[n].req # "delete"
       /\ LET st == net[n].data[1].st IN
          EndsMarking(n, [view EXCEPT !.rows = Marked(was, o, st, FALSE), !.era = NewEra], o, st, FALSE)

airManageRedemptionReturns == \E n \in Back("air.Redemptions", "airManageRedemption") : Managed(n)

airSearchRedemptions ==
    /\ At("air.Redemptions")
    /\ IF view.keyword = "" THEN airLoadRedemptions(view, 0, TRUE)
       ELSE Sends([view EXCEPT !.searching = TRUE], "airSearchRedemptions", "search", [era |-> -1])

airSearchRedemptionsReturns ==
    \E n \in Back("air.Redemptions", "airSearchRedemptions") :
        LET v == [view EXCEPT !.searching = FALSE] IN
        \/ Rejected(n)
        \/ net[n].st = "refused" /\ Ends(n, v)
        \/ net[n].st = "ok" /\ Ends(n, [v EXCEPT !.rows = Rows(n), !.page = 1, !.era = NewEra])

airRedemptionsNext ==
    \/ airLoadRedemptionsReturns \/ airHandlePageChangeRedemptions \/ airRefreshRedemptions
    \/ airManageRedemption \/ airManageRedemptionReturns \/ airSearchRedemptions
    \/ airSearchRedemptionsReturns

-----------------------------------------------------------------------------
(* UsersTable *)

airUsersInit ==
    Opens(With(AirPlain("air.Users"), [era |-> 0, orderBy |-> ""]),
          <<Request("airLoadUsers", "list",
                    With(AirPage(0, "", 0), [era |-> 0, page |-> 1, blank |-> FALSE]), <<>>)>>)

\* setCount, of the page the closure holds.
setCount(v, page) ==
    [v EXCEPT !.count = IF Len(v.rows) >= page * PageSize THEN Len(v.rows) + 1 ELSE Len(v.rows)]

airLoadUsers(v, p, blank) ==
    SendsWith(v, "airLoadUsers", "list", PushedRequest(p, v.orderBy, blank), view.rows)

airLoadUsersReturns ==
    \E n \in Back("air.Users", "airLoadUsers") :
        LET q == net[n].arg
            v == [view EXCEPT !.loading = FALSE, !.page = IF q.blank THEN 1 ELSE @,
                              !.orderBy = IF q.blank THEN "" ELSE @]
            first == [setCount([v EXCEPT !.rows = Rows(n)], q.page) EXCEPT !.era = NewEra]
        IN
        \/ Rejected(n)
        \/ net[n].st = "refused" /\ v.orderBy = view.orderBy /\ Ends(n, v)
        \/ /\ net[n].st = "ok" /\ q.p = 0 /\ v.orderBy = view.orderBy
           /\ Ends(n, first)
        \/ /\ net[n].st # "failed" /\ v.orderBy # view.orderBy
           /\ LET w == IF net[n].st = "ok" THEN first ELSE v IN
              GoesOn(n, w, "airLoadUsers", "list",
                     With(AirPage(0, "", 0), [era |-> w.era, page |-> 1, blank |-> FALSE]), w.rows)
        \/ net[n].st = "ok" /\ q.p # 0
            /\ EndsPushing(n, setCount([v EXCEPT !.rows = net[n].was \o Rows(n)], q.page), Rows(n))

airHandlePageChangeUsers ==
    /\ At("air.Users")
    /\ \E p \in AirPages :
        LET v == [view EXCEPT !.page = p] IN IF Beyond(p) THEN airLoadUsers(v, p - 1, FALSE) ELSE Shows(v)

airHandleOrderByChangeUsers ==
    /\ At("air.Users")
    /\ \E order \in {"", "quota"} \ {view.orderBy} :
        airLoadUsers([view EXCEPT !.orderBy = order, !.page = 1], 0, FALSE)

\* After a save: the shown page again, or the search.
airRefreshUsers ==
    /\ At("air.Users")
    /\ IF view.keyword = ""
       THEN SavedThen(view, "airLoadUsers", "list", PushedRequest(view.page - 1, view.orderBy, FALSE), view.rows)
       ELSE SavedThen([view EXCEPT !.searching = TRUE], "airSearchUsers", "search", [era |-> -1], <<>>)

\* Promotion and demotion change the role only; the row they answer is taken over.
airUserButtons(i) ==
    LET row == view.rows[i]
        q == [id |-> row.id, idx |-> i, era |-> view.era]
    IN {<<"delete", q>>, <<"touch", q>>} \cup
       IF row.st = Used THEN {} ELSE {<<"put", With(q, [st |-> Opposite(row)])>>}

airManageUser ==
    /\ At("air.Users")
    /\ \E i \in AirShown : \E b \in airUserButtons(i) : SendsWith(view, "airManageUser", b[1], b[2], view.rows)

airManageUserReturns == \E n \in Back("air.Users", "airManageUser") : Managed(n)

airSearchUsers ==
    /\ At("air.Users")
    /\ IF view.keyword = "" THEN airLoadUsers(view, 0, TRUE)
       ELSE Sends([view EXCEPT !.searching = TRUE], "airSearchUsers", "search", [era |-> -1])

airSearchUsersReturns ==
    \E n \in Back("air.Users", "airSearchUsers") :
        LET v == [view EXCEPT !.searching = FALSE] IN
        \/ Rejected(n)
        \/ net[n].st = "refused" /\ Ends(n, v)
        \/ net[n].st = "ok" /\ Ends(n, [v EXCEPT !.rows = Rows(n), !.page = 1, !.era = NewEra])

airUsersNext ==
    \/ airLoadUsersReturns \/ airHandlePageChangeUsers \/ airHandleOrderByChangeUsers \/ airRefreshUsers
    \/ airManageUser \/ airManageUserReturns \/ airSearchUsers \/ airSearchUsersReturns

-----------------------------------------------------------------------------
(* ChannelsTable: the size of the page is kept by the browser *)

ChannelsRequest(p, size) == With(AirPage(p, "", 0), [size |-> size])

\* The effect of the mount asks for the first page and for the groups.
airChannelsInit ==
    \E size \in {PageSize, 2 * PageSize} :
        Opens([AirPlain("air.Channels") EXCEPT !.size = size],
              <<Request("airLoadChannels", "list",
                        With(ChannelsRequest(0, size), [count |-> PageSize, blank |-> FALSE]), <<>>),
                Request("airFetchGroups", "tell", <<>>, <<>>)>>)

\* setChannelFormat, with the size the closure holds.
setChannelFormat(v, rows, size) ==
    [v EXCEPT !.rows = rows, !.count = IF Len(rows) >= size THEN Len(rows) + size ELSE Len(rows)]

\* count is the size the closure holds, size the one it was called with.
airLoadChannels(v, p) ==
    SendsWith([v EXCEPT !.loading = TRUE], "airLoadChannels", "list",
              With(ChannelsRequest(p, v.size), [count |-> view.size, blank |-> FALSE]), view.rows)

airLoadChannelsReturns ==
    \E n \in Back("air.Channels", "airLoadChannels") :
        LET q == net[n].arg
            v == [view EXCEPT !.loading = FALSE, !.page = IF q.blank THEN 1 ELSE @]
            rows == IF q.p = 0 THEN Rows(n) ELSE Spliced(net[n].was, q.p * q.size, Rows(n))
        IN
        \/ Rejected(n)
        \/ net[n].st = "refused" /\ Ends(n, v)
        \/ net[n].st = "ok" /\ Ends(n, setChannelFormat(v, rows, q.count))

\* Its rejection is caught.
airFetchGroupsReturns == \E n \in Back("air.Channels", "airFetchGroups") : Ends(n, view)

\* The button, and the drawer once it saved a channel.
airRefreshChannels ==
    /\ At("air.Channels")
    /\ SavedThen([view EXCEPT !.loading = TRUE], "airLoadChannels", "list",
                 With(ChannelsRequest(view.page - 1, view.size), [count |-> view.size, blank |-> FALSE]), view.rows)

\* Deletion, the two states, a priority or weight, a test, the balance.
airChannelButtons(i) ==
    LET row == view.rows[i]
        q == [id |-> row.id, idx |-> i]
    IN {<<"airManageChannel", "delete", q>>, <<"airManageChannel", "touch", q>>,
        <<"airManageChannel", "put", With(q, [st |-> Opposite(row)])>>,
        <<"airTestChannel", "tell", q>>, <<"airUpdateChannelBalance", "tell", q>>}

airManageChannel ==
    /\ At("air.Channels")
    /\ \E i \in AirShown : \E b \in airChannelButtons(i) : SendsWith(view, b[1], b[2], b[3], view.rows)

airManageChannelReturns ==
    \E n \in Back("air.Channels", "airManageChannel") :
        LET was == net[n].was
            o == was[net[n].arg.idx]
        IN
        \/ Rejected(n)
        \/ /\ net[n].st # "failed" /\ net[n].req = "delete"
           /\ Ends(n, [view EXCEPT !.rows = RemoveRecord(was, net[n].arg.id)])
        \/ net[n].st = "refused" /\ net[n].req # "delete" /\ Ends(n, view)
        \/ /\ net[n].st = "ok" /\ net[n].req # "delete"
           /\ LET st == net[n].data[1].st IN
              EndsMarking(n, [view EXCEPT !.rows = Marked(was, o, st, FALSE)], o, st, FALSE)

\* Times and balances of a row are not modelled, and neither are the messages.
airTestChannelReturns ==
    \E n \in Back("air.Channels", "airTestChannel") : Rejected(n) \/ (net[n].st # "failed" /\ Ends(n, view))
airUpdateChannelBalanceReturns ==
    \E n \in Back("air.Channels", "airUpdateChannelBalance") :
        Rejected(n) \/ (net[n].st # "failed" /\ Ends(n, view))

airTestChannels == At("air.Channels") /\ Sends(view, "airTestChannel", "tell", <<>>)

\* The closure that refreshes is the one of the click.
airDeleteAllDisabledChannels ==
    /\ At("air.Channels")
    /\ SendsWith(view, "airDeleteAllDisabledChannels", "purge", [p |-> view.page - 1, size |-> view.size], view.rows)

airDeleteAllDisabledChannelsReturns ==
    \E n \in Back("air.Channels", "airDeleteAllDisabledChannels") :
        LET q == net[n].arg IN
        \/ Rejected(n)
        \/ net[n].st = "refused" /\ Ends(n, view)
        \/ /\ net[n].st = "ok"
           /\ GoesOn(n, [view EXCEPT !.loading = TRUE], "airLoadChannels", "list",
                     With(ChannelsRequest(q.p, q.size), [count |-> q.size, blank |-> FALSE]), net[n].was)

\* The number of pages stays what it was before the search.
airSearchChannels ==
    /\ At("air.Channels")
    /\ IF view.keyword = ""
       THEN SendsWith([view EXCEPT !.loading = TRUE], "airLoadChannels", "list",
                      With(ChannelsRequest(0, view.size), [count |-> view.size, blank |-> TRUE]), view.rows)
       ELSE Sends([view EXCEPT !.searching = TRUE], "airSearchChannels", "search", <<>>)

airSearchChannelsReturns ==
    \E n \in Back("air.Channels", "airSearchChannels") :
        LET v == [view EXCEPT !.searching = FALSE] IN
        \/ Rejected(n)
        \/ net[n].st = "refused" /\ Ends(n, v)
        \/ net[n].st = "ok" /\ Ends(n, [v EXCEPT !.rows = Rows(n), !.page = 1])

airHandlePageChangeChannels ==
    /\ At("air.Channels")
    /\ \E p \in AirPages :
        LET v == [view EXCEPT !.page = p] IN IF Beyond(p) THEN airLoadChannels(v, p - 1) ELSE Shows(v)

airHandlePageSizeChangeChannels ==
    /\ At("air.Channels")
    /\ \E size \in {PageSize, 2 * PageSize} \ {view.size} :
        airLoadChannels([view EXCEPT !.size = size, !.page = 1], 0)

airChannelsNext ==
    \/ airLoadChannelsReturns \/ airFetchGroupsReturns \/ airRefreshChannels \/ airManageChannel
    \/ airManageChannelReturns \/ airTestChannelReturns \/ airUpdateChannelBalanceReturns
    \/ airTestChannels \/ airDeleteAllDisabledChannels \/ airDeleteAllDisabledChannelsReturns
    \/ airSearchChannels \/ airSearchChannelsReturns \/ airHandlePageChangeChannels
    \/ airHandlePageSizeChangeChannels

-----------------------------------------------------------------------------
(* LogsTable: the type of the logs is not kept when a page is turned *)

airLogsInit ==
    \E size \in {PageSize, 2 * PageSize}, admin \in BOOLEAN :
        Opens(With([AirPlain("air.Logs") EXCEPT !.size = size],
                   [showStat |-> FALSE, logType |-> 0, some |-> FALSE, admin |-> admin]),
              <<Request("airLoadLogs", "list", ChannelsRequest(0, size), <<>>)>>)

airLoadLogs(v, p, type) ==
    SendsWith([v EXCEPT !.loading = TRUE], "airLoadLogs", "list",
              With([AirPage(p, "", type) EXCEPT !.some = view.some], [size |-> v.size]), view.rows)

\* setLogsFormat always counts one page more than there is.
airLoadLogsReturns ==
    \E n \in Back("air.Logs", "airLoadLogs") :
        LET q == net[n].arg
            rows == IF q.p = 0 THEN Rows(n) ELSE Spliced(net[n].was, q.p * q.size, Rows(n))
            v == [view EXCEPT !.loading = FALSE]
        IN
        \/ Rejected(n)
        \/ net[n].st = "refused" /\ Ends(n, v)
        \/ net[n].st = "ok" /\ Ends(n, [v EXCEPT !.rows = rows, !.count = Len(rows) + PageSize])

airHandlePageChangeLogs ==
    /\ At("air.Logs")
    /\ \E p \in AirPages :
        LET v == [view EXCEPT !.page = p] IN IF Beyond(p) THEN airLoadLogs(v, p - 1, 0) ELSE Shows(v)

airHandlePageSizeChangeLogs ==
    /\ At("air.Logs")
    /\ \E size \in {PageSize, 2 * PageSize} \ {view.size} :
        airLoadLogs([view EXCEPT !.size = size, !.page = 1], 0, 0)

\* The button hands its event on as the type, which the service reads as 0; a
\* button that is loading cannot be pressed.
airRefreshLogs ==
    At("air.Logs") /\ ~view.loading /\ airLoadLogs([view EXCEPT !.page = 1], 0, 0)

airSetLogType ==
    /\ At("air.Logs")
    /\ \E type \in {0, Enabled, Disabled} \ {view.logType} :
        airLoadLogs([view EXCEPT !.logType = type, !.page = 1], 0, type)

airHandleInputChangeLogs == At("air.Logs") /\ Shows([view EXCEPT !.some = ~@])

\* Every click asks again; the spinner over the sum lets no second click through.
airHandleEyeClick ==
    /\ At("air.Logs")
    /\ ~view.searching
    /\ Sends([view EXCEPT !.searching = TRUE], IF view.admin THEN "airGetLogStat" ELSE "airGetLogSelfStat", "tell", <<>>)

airGetLogStatReturns ==
    \E n \in Back("air.Logs", "airGetLogStat") :
        Rejected(n) \/ (net[n].st # "failed" /\ Ends(n, [view EXCEPT !.showStat = TRUE, !.searching = FALSE]))
airGetLogSelfStatReturns ==
    \E n \in Back("air.Logs", "airGetLogSelfStat") :
        Rejected(n) \/ (net[n].st # "failed" /\ Ends(n, [view EXCEPT !.showStat = TRUE, !.searching = FALSE]))

\* The account behind a row, for an administrator.
airShowUserInfo ==
    At("air.Logs") /\ view.admin /\ AirShown # {} /\ Sends(view, "airShowUserInfo", "tell", <<>>)
airShowUserInfoReturns ==
    \E n \in Back("air.Logs", "airShowUserInfo") : Rejected(n) \/ (net[n].st # "failed" /\ Ends(n, view))

airLogsNext ==
    \/ airLoadLogsReturns \/ airHandlePageChangeLogs \/ airHandlePageSizeChangeLogs \/ airRefreshLogs
    \/ airSetLogType \/ airHandleInputChangeLogs \/ airHandleEyeClick \/ airGetLogStatReturns
    \/ airGetLogSelfStatReturns \/ airShowUserInfo \/ airShowUserInfoReturns
=============================================================================
