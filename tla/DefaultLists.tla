---------------------------- MODULE DefaultLists ----------------------------
(***************************************************************************)
(* The tables of the front end "default": keys, accounts, redemption       *)
(* codes, channels and logs (src/web/default/src/components).  A failed    *)
(* request rejects; only UsersTable catches it.                            *)
(***************************************************************************)
EXTENDS ListServer

\* The first request every table sends when it is mounted.
Page(p) == [p |-> p, order |-> "", type |-> 0, some |-> FALSE, goto |-> 0]
First(fn) == <<Request(fn, "list", Page(0), <<>>)>>
Plain(at) == [at |-> at, rows |-> <<>>, loading |-> TRUE, page |-> 1, keyword |-> "", searching |-> FALSE]

\* setRows for the answer to a request for page p: the first page replaces the
\* list, a later one is spliced into the list the closure holds.
Loaded(n, rows) ==
    IF net[n].st = "refused" THEN rows
    ELSE IF net[n].arg.p = 0 THEN Rows(n)
    ELSE Spliced(net[n].was, net[n].arg.p * PageSize, Rows(n))

\* The page the table turns to after the load; 0 when it stays.
Turned(n, page) == IF net[n].arg.goto = 0 THEN page ELSE net[n].arg.goto
Typed == {"", "some"}

-----------------------------------------------------------------------------
(* TokensTable *)

TokensInit == Opens(Plain("default.Tokens"), First("loadTokens"))

loadTokens(v, p, goto) ==
    SendsWith(v, "loadTokens", "list", [Page(p) EXCEPT !.goto = goto], view.rows)

loadTokensReturns ==
    \E n \in Back("default.Tokens", "loadTokens") :
        \/ Rejected(n)
        \/ /\ net[n].st # "failed"
           /\ Ends(n, [view EXCEPT !.rows = Loaded(n, @), !.loading = FALSE, !.page = Turned(n, @)])

\* The pages the footer offers: one beyond the list when its last page is full.
TokensPages == 1 .. Pages(view.rows) + (IF Len(view.rows) % PageSize = 0 THEN 1 ELSE 0)

onPaginationChangeTokens ==
    /\ At("default.Tokens")
    /\ \E p \in TokensPages :
        IF p = Pages(view.rows) + 1 THEN loadTokens(view, p - 1, p)
        ELSE Shows([view EXCEPT !.page = p])

refreshTokens ==
    At("default.Tokens") /\ loadTokens([view EXCEPT !.loading = TRUE], view.page - 1, 0)

\* The clipboard may refuse: the link then goes to the search field.
onCopy ==
    /\ At("default.Tokens")
    /\ \E i \in Shown(view.rows, view.page, PageSize) : ~view.rows[i].del
    /\ Shows([view EXCEPT !.keyword = "some"])

\* A row offers its deletion, and the opposite of the status it shows.
TokenButtons(i) ==
    LET row == view.rows[i] IN
    {<<"delete", [id |-> row.id, idx |-> i]>>,
     <<"put", [id |-> row.id, idx |-> i, st |-> IF row.st = Enabled THEN Disabled ELSE Enabled]>>}

manageToken ==
    /\ At("default.Tokens")
    /\ \E i \in Shown(view.rows, view.page, PageSize) : \E b \in TokenButtons(i) :
        ~view.rows[i].del /\ SendsWith(view, "manageToken", b[1], b[2], view.rows)

\* Faulty: the position is looked up in the list shown now.
manageTokenReturnsMisplaced ==
    \E n \in Back("default.Tokens", "manageToken") :
        LET i == net[n].arg.idx IN
        \/ Rejected(n)
        \/ net[n].st = "refused" /\ Ends(n, view)
        \/ /\ net[n].st = "ok" /\ i \in DOMAIN view.rows
           /\ LET del == net[n].req = "delete"
                  st == IF del THEN view.rows[i].st ELSE net[n].data[1].st
              IN EndsMarking(n, [view EXCEPT !.rows = Marked(@, view.rows[i], st, del)], view.rows[i], st, del)

\* Faulty: the row changes whatever the service said.
manageTokenReturnsUnasked ==
    \E n \in Back("default.Tokens", "manageToken") :
        LET o == net[n].was[net[n].arg.idx]
            del == net[n].req = "delete" \/ o.del
            st == IF net[n].req = "delete" THEN o.st ELSE net[n].arg.st
        IN
        \/ Rejected(n)
        \/ net[n].st # "failed" /\ EndsMarking(n, [view EXCEPT !.rows = Marked(net[n].was, o, st, del)], o, st, del)

manageTokenReturns ==
    \E n \in Back("default.Tokens", "manageToken") :
        LET was == net[n].was
            o == was[net[n].arg.idx]
            del == net[n].req = "delete" \/ o.del
            st == IF net[n].req = "delete" THEN o.st ELSE net[n].data[1].st
        IN
        \/ Rejected(n)
        \/ net[n].st = "refused" /\ Ends(n, view)
        \/ net[n].st = "ok" /\ EndsMarking(n, [view EXCEPT !.rows = Marked(was, o, st, del)], o, st, del)

searchTokens ==
    /\ At("default.Tokens")
    /\ IF view.keyword = "" THEN loadTokens(view, 0, 1)
       ELSE Sends([view EXCEPT !.searching = TRUE], "searchTokens", "search", <<>>)

searchTokensReturns ==
    \E n \in Back("default.Tokens", "searchTokens") :
        \/ Rejected(n)
        \/ net[n].st = "refused" /\ Ends(n, [view EXCEPT !.searching = FALSE])
        \/ net[n].st = "ok" /\ Ends(n, [view EXCEPT !.searching = FALSE, !.rows = Rows(n), !.page = 1])

handleKeywordChangeTokens ==
    At("default.Tokens") /\ \E k \in Typed : Shows([view EXCEPT !.keyword = k])

sortToken ==
    At("default.Tokens") /\ view.rows # <<>> /\ Shows([view EXCEPT !.rows = Sorted(@), !.loading = FALSE])

TokensNext ==
    \/ loadTokensReturns \/ onPaginationChangeTokens \/ refreshTokens \/ onCopy
    \/ manageToken \/ manageTokenReturns \/ searchTokens \/ searchTokensReturns
    \/ handleKeywordChangeTokens \/ sortToken

-----------------------------------------------------------------------------
(* UsersTable: updates are functions of the list shown when they apply *)

UsersInit ==
    Opens(With(With(Plain("default.Users"), [orderBy |-> ""]), [hasMore |-> FALSE]), First("loadUsers"))

Visible == Filtered(view.rows, {i \in DOMAIN view.rows : ~view.rows[i].del})
LoadedPageCount == IF Visible = <<>> THEN 1 ELSE Pages(Visible)

UsersPage(p, order, goto) == [Page(p) EXCEPT !.order = order, !.goto = goto]
loadUsers(v, p, goto) ==
    Sends([v EXCEPT !.loading = TRUE], "loadUsers", "list", UsersPage(p, view.orderBy, goto))

\* Faulty: a user the list already shows is appended again.
AppendedTwice(rows, new) == rows \o new

Appended(rows, new) ==
    rows \o Filtered(new, {k \in DOMAIN new : \A i \in DOMAIN rows : rows[i].id # new[k].id})

loadUsersReturns ==
    \E n \in Back("default.Users", "loadUsers") :
        LET data == Rows(n)
            more == Len(data) > 0 /\ net[n].arg.goto # 0
        IN Ends(n, IF net[n].st # "ok" THEN [view EXCEPT !.loading = FALSE]
                   ELSE [view EXCEPT !.loading = FALSE, !.hasMore = Len(data) = PageSize,
                            !.rows = IF net[n].arg.p = 0 THEN data ELSE Appended(@, data),
                            !.page = IF more THEN net[n].arg.goto ELSE @])

onPaginationChangeUsers ==
    /\ At("default.Users")
    /\ \E p \in 1 .. LoadedPageCount + (IF view.hasMore THEN 1 ELSE 0) :
        IF p > LoadedPageCount THEN loadUsers(view, p - 1, p) ELSE Shows([view EXCEPT !.page = p])

\* The choice of an order triggers the effect that loads the first page again.
setOrderBy ==
    /\ At("default.Users")
    /\ \E order \in {"", "quota"} \ {view.orderBy} :
        Sends([view EXCEPT !.orderBy = order, !.page = 1, !.loading = TRUE],
              "loadUsers", "list", UsersPage(0, order, 0))

\* Only accounts of a lower role can be managed.
UserButtons(user) ==
    IF user.id \notin Manageable THEN {}
    ELSE {<<"delete", [id |-> user.id]>>,
          <<"put", [id |-> user.id, st |-> IF user.st = Enabled THEN Disabled ELSE Enabled]>>}

manageUser ==
    /\ At("default.Users")
    /\ \E i \in Shown(Visible, view.page, PageSize) : \E b \in UserButtons(Visible[i]) :
        Sends(view, "manageUser", b[1], b[2])

manageUserReturns ==
    \E n \in Back("default.Users", "manageUser") :
        LET Changes(user) ==
                IF user.id # net[n].arg.id THEN user
                ELSE IF net[n].req = "delete" THEN [user EXCEPT !.del = TRUE]
                ELSE [user EXCEPT !.st = net[n].data[1].st]
        IN Ends(n, IF net[n].st # "ok" THEN view
                   ELSE [view EXCEPT !.rows = [i \in DOMAIN @ |-> Changes(@[i])]])

\* A blank keyword clears the order and loads with the old one; where there was
\* one, the effect of its change loads again.
searchUsers ==
    /\ At("default.Users")
    /\ LET v == [view EXCEPT !.orderBy = "", !.page = 1, !.loading = TRUE] IN
       IF view.keyword # "" THEN Sends([view EXCEPT !.searching = TRUE], "searchUsers", "search", <<>>)
       ELSE IF view.orderBy = "" THEN loadUsers(v, 0, 0)
       ELSE SendsBoth(v, Request("loadUsers", "list", UsersPage(0, view.orderBy, 0), <<>>),
                         Request("loadUsers", "list", UsersPage(0, "", 0), <<>>))

searchUsersReturns ==
    \E n \in Back("default.Users", "searchUsers") :
        Ends(n, IF net[n].st # "ok" THEN [view EXCEPT !.searching = FALSE]
                ELSE [view EXCEPT !.searching = FALSE, !.rows = Rows(n), !.hasMore = FALSE, !.page = 1])

setSearchKeywordUsers ==
    At("default.Users") /\ \E k \in Typed : Shows([view EXCEPT !.keyword = k])

UsersNext ==
    \/ loadUsersReturns \/ onPaginationChangeUsers \/ setOrderBy \/ manageUser \/ manageUserReturns
    \/ searchUsers \/ searchUsersReturns \/ setSearchKeywordUsers

-----------------------------------------------------------------------------
(* RedemptionsTable: a later page is pushed onto the array of the closure *)

RedemptionsInit ==
    Opens(With(Plain("default.Redemptions"), [era |-> 0]),
          <<Request("loadRedemptions", "list", With(Page(0), [era |-> 0]), <<>>)>>)

loadRedemptions(v, p, goto) ==
    SendsWith(v, "loadRedemptions", "list", With([Page(p) EXCEPT !.goto = goto], [era |-> view.era]), view.rows)

loadRedemptionsReturns ==
    \E n \in Back("default.Redemptions", "loadRedemptions") :
        LET c == net[n]
            v == [view EXCEPT !.loading = FALSE, !.page = Turned(n, @)]
        IN
        \/ Rejected(n)
        \/ c.st = "refused" /\ Ends(n, v)
        \/ c.st = "ok" /\ c.arg.p = 0 /\ Ends(n, [v EXCEPT !.rows = Rows(n), !.era = NewEra])
        \/ c.st = "ok" /\ c.arg.p # 0 /\ EndsPushing(n, v, Rows(n))

RedemptionsPages == 1 .. Pages(view.rows) + (IF Len(view.rows) % PageSize = 0 THEN 1 ELSE 0)

onPaginationChangeRedemptions ==
    /\ At("default.Redemptions")
    /\ \E p \in RedemptionsPages :
        IF p = Pages(view.rows) + 1 THEN loadRedemptions(view, p - 1, p)
        ELSE Shows([view EXCEPT !.page = p])

\* A used code can be deleted but not toggled.
RedemptionButtons(i) ==
    LET row == view.rows[i]
        q == [id |-> row.id, idx |-> i, era |-> view.era]
    IN {<<"delete", q>>} \cup
       IF row.st = Used THEN {}
       ELSE {<<"put", With(q, [st |-> IF row.st = Enabled THEN Disabled ELSE Enabled])>>}

manageRedemption ==
    /\ At("default.Redemptions")
    /\ \E i \in Shown(view.rows, view.page, PageSize) : \E b \in RedemptionButtons(i) :
        SendsWith(view, "manageRedemption", b[1], b[2], view.rows)

manageRedemptionReturns ==
    \E n \in Back("default.Redemptions", "manageRedemption") :
        LET was == net[n].was
            i == net[n].arg.idx
        IN
        \/ Rejected(n)
        \/ net[n].st = "refused" /\ Ends(n, view)
        \/ net[n].st = "ok" /\ net[n].req = "delete"
            /\ Ends(n, [view EXCEPT !.rows = Removed(was, i), !.era = NewEra])
        \/ net[n].st = "ok" /\ net[n].req = "put"
            /\ LET st == net[n].data[1].st IN
               EndsMarking(n, [view EXCEPT !.rows = Marked(was, was[i], st, FALSE), !.era = NewEra], was[i], st, FALSE)

sortRedemption ==
    /\ At("default.Redemptions")
    /\ view.rows # <<>>
    /\ Shows([view EXCEPT !.rows = Sorted(@), !.loading = FALSE, !.era = NewEra])

refreshRedemptions ==
    At("default.Redemptions") /\ loadRedemptions([view EXCEPT !.loading = TRUE], 0, 1)

RedemptionsNext ==
    \/ loadRedemptionsReturns \/ onPaginationChangeRedemptions \/ manageRedemption
    \/ manageRedemptionReturns \/ sortRedemption \/ refreshRedemptions

-----------------------------------------------------------------------------
(* ChannelsTable: one list without pages *)

ChannelsInit == Opens(Plain("default.Channels"), First("loadChannels"))

loadChannels == Sends([view EXCEPT !.loading = TRUE], "loadChannels", "list", Page(0))

\* The answers to loadChannels and searchChannels replace the list.
loadChannelsReturns ==
    \E n \in Back("default.Channels", "loadChannels") \cup Back("default.Channels", "searchChannels") :
        \/ Rejected(n)
        \/ net[n].st = "refused" /\ Ends(n, [view EXCEPT !.loading = FALSE])
        \/ net[n].st = "ok" /\ Ends(n, [view EXCEPT !.loading = FALSE, !.rows = Rows(n)])

refreshChannels == At("default.Channels") /\ loadChannels

searchChannels ==
    /\ At("default.Channels")
    /\ IF view.keyword = "" THEN loadChannels
       ELSE Sends([view EXCEPT !.loading = TRUE], "searchChannels", "search", <<>>)

setSearchKeywordChannels ==
    At("default.Channels") /\ \E k \in Typed : Shows([view EXCEPT !.keyword = k])

\* Only an enabled channel can be tested.
ChannelButtons(channel) ==
    LET q == [id |-> channel.id] IN
    {<<"updateChannel", "delete", q>>,
     <<"updateChannel", "put", With(q, [st |-> IF channel.st = Enabled THEN Disabled ELSE Enabled])>>}
    \cup IF channel.st = Enabled THEN {<<"testChannel", "tell", q>>} ELSE {}

pressChannelButton ==
    /\ At("default.Channels")
    /\ \E i \in DOMAIN view.rows : \E b \in ChannelButtons(view.rows[i]) : Sends(view, b[1], b[2], b[3])

updateChannelReturns ==
    \E n \in Back("default.Channels", "updateChannel") :
        LET id == net[n].arg.id IN
        \/ Rejected(n)
        \/ net[n].st = "refused" /\ Ends(n, view)
        \/ /\ net[n].st = "ok" /\ net[n].req = "delete"
           /\ Ends(n, [view EXCEPT !.rows = Filtered(@, {i \in DOMAIN @ : @[i].id # id})])
        \/ /\ net[n].st = "ok" /\ net[n].req = "put"
           /\ Ends(n, [view EXCEPT !.rows =
                [i \in DOMAIN @ |-> IF @[i].id = id THEN Rows(n)[1] ELSE @[i]]])

\* Only the response time of the row changes.
testChannelReturns ==
    \E n \in Back("default.Channels", "testChannel") :
        Rejected(n) \/ (net[n].st # "failed" /\ Ends(n, view))

ChannelsNext ==
    \/ loadChannelsReturns \/ refreshChannels \/ searchChannels \/ setSearchKeywordChannels
    \/ pressChannelButton \/ updateChannelReturns \/ testChannelReturns

-----------------------------------------------------------------------------
(* LogsTable: rows are never changed; a row's status stands for its type *)

LogsInit ==
    \E admin \in BOOLEAN :
        Opens(With(Plain("default.Logs"), [showStat |-> FALSE, logType |-> 0, some |-> FALSE, admin |-> admin]),
              First("loadLogs"))

LogsPage(p, type, goto) == [Page(p) EXCEPT !.type = type, !.some = view.some, !.goto = goto]
loadLogs(v, p, goto) == SendsWith(v, "loadLogs", "list", LogsPage(p, v.logType, goto), view.rows)

loadLogsReturns ==
    \E n \in Back("default.Logs", "loadLogs") :
        \/ Rejected(n)
        \/ /\ net[n].st # "failed"
           /\ Ends(n, [view EXCEPT !.rows = Loaded(n, @), !.loading = FALSE, !.page = Turned(n, @)])

LogsPages == 1 .. Pages(view.rows) + (IF Len(view.rows) % PageSize = 0 THEN 1 ELSE 0)

onPaginationChangeLogs ==
    /\ At("default.Logs")
    /\ \E p \in LogsPages :
        IF p = Pages(view.rows) + 1 THEN loadLogs(view, p - 1, p)
        ELSE Shows([view EXCEPT !.page = p])

refreshLogs == At("default.Logs") /\ loadLogs([view EXCEPT !.loading = TRUE, !.page = 1], 0, 0)

\* The effect of a new type is a refresh.
setLogType ==
    /\ At("default.Logs")
    /\ \E type \in {0, Enabled, Disabled} \ {view.logType} :
        loadLogs([view EXCEPT !.logType = type, !.loading = TRUE, !.page = 1], 0, 0)

\* Any other filter applies from the next load on.
handleInputChangeLogs == At("default.Logs") /\ Shows([view EXCEPT !.some = ~@])

\* The sum is asked for when it is about to be shown, in one of two ways.
handleEyeClick ==
    /\ At("default.Logs")
    /\ IF view.showStat THEN Shows([view EXCEPT !.showStat = FALSE])
       ELSE Sends(view, IF view.admin THEN "getLogStat" ELSE "getLogSelfStat", "tell", <<>>)

getLogStatReturns ==
    \E n \in Back("default.Logs", "getLogStat") :
        Rejected(n) \/ (net[n].st # "failed" /\ Ends(n, [view EXCEPT !.showStat = TRUE]))
getLogSelfStatReturns ==
    \E n \in Back("default.Logs", "getLogSelfStat") :
        Rejected(n) \/ (net[n].st # "failed" /\ Ends(n, [view EXCEPT !.showStat = TRUE]))

sortLog ==
    At("default.Logs") /\ view.rows # <<>> /\ Shows([view EXCEPT !.rows = SortedDown(@), !.loading = FALSE])

LogsNext ==
    \/ loadLogsReturns \/ onPaginationChangeLogs \/ refreshLogs \/ setLogType \/ handleInputChangeLogs
    \/ handleEyeClick \/ getLogStatReturns \/ getLogSelfStatReturns \/ sortLog
=============================================================================
