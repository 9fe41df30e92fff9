----------------------------- MODULE ListServer -----------------------------
(***************************************************************************)
(* The service as a page with a table sees it: rows with a status, listed  *)
(* by pages and searched, changed and deleted one at a time; and somebody  *)
(* else who changes them too.                                              *)
(***************************************************************************)
EXTENDS Browser

CONSTANTS
    Ids,            \* the rows, numbered from 1; a later row has a larger number
    Initial,        \* the rows that exist at first
    Matching,       \* the rows a search for the keyword "some" finds
    Manageable,     \* the accounts whose role is below the one of the reader
    PageSize        \* ITEMS_PER_PAGE, the same number in the pages and the service

ASSUME ListAssumption ==
    /\ IsFiniteSet(Ids) /\ Ids = 1 .. Cardinality(Ids)
    /\ Initial \cup Matching \cup Manageable \subseteq Ids
    /\ PageSize \in Nat \ {0}

None == 0               \* the status of a row that does not exist
Enabled == 1
Disabled == 2
Used == 3               \* a redeemed code, an automatically disabled channel
Statuses == {Enabled, Disabled, Used}

ServerInit ==
    server = [rows |-> [id \in Ids |-> IF id \in Initial THEN Enabled ELSE None],
              was |-> [id \in Ids |-> IF id \in Initial THEN {Enabled} ELSE {None}]]

\* The row id gets the status st; was remembers every status it ever had.
Changed(id, st) ==
    [server EXCEPT !.rows[id] = st, !.was[id] = @ \cup {st}]

\* The members of S, the largest first.
Down(S) == [i \in 1 .. Cardinality(S) |-> CHOOSE x \in S : Cardinality({y \in S : y >= x}) = i]

Exist == {id \in Ids : server.rows[id] # None}
AsRows(s) == [i \in DOMAIN s |-> [id |-> s[i], st |-> server.rows[s[i]]]]
Reversed(s) == [i \in DOMAIN s |-> s[Len(s) + 1 - i]]

\* The answer to a list request: the page q.p, counted from 0, in the order asked for;
\* of logs only those of a type, or those some other filter keeps.  The size of a page
\* is the service's own, whatever the page asks for.
Listed(q) ==
    LET keep == {id \in Exist : (q.type = 0 \/ server.rows[id] = q.type) /\ (q.some => id \in Matching)}
        all == IF q.order = "" THEN Down(keep) ELSE Reversed(Down(keep))
        first == q.p * PageSize + 1
    IN  AsRows(SubSeq(all, first, IF first + PageSize - 1 > Len(all) THEN Len(all) ELSE first + PageSize - 1))

Found == AsRows(Down(Exist \cap Matching))

(***************************************************************************)
(* The answers.  Any request may also be refused: the reader lacks the     *)
(* right, the row is gone or the database fails.                           *)
(***************************************************************************)
List(n) ==
    /\ net[n].req = "list"
    /\ Answered(n, Listed(net[n].arg))
    /\ UNCHANGED server

Search(n) == net[n].req = "search" /\ Answered(n, Found) /\ UNCHANGED server

Update(n) ==
    LET id == net[n].arg.id IN
    /\ net[n].req = "put"
    /\ server.rows[id] # None
    /\ server' = Changed(id, net[n].arg.st)
    /\ Answered(n, <<[id |-> id, st |-> net[n].arg.st]>>)

Delete(n) ==
    /\ net[n].req = "delete"
    /\ server' = Changed(net[n].arg.id, None)
    /\ Answered(n, <<>>)

\* A change of something else in the row, answered with the row.
Touch(n) ==
    LET id == net[n].arg.id IN
    /\ net[n].req = "touch"
    /\ server.rows[id] # None
    /\ Answered(n, <<[id |-> id, st |-> server.rows[id]]>>)
    /\ UNCHANGED server

\* The deletion of every channel that is disabled, by hand or automatically.
Purge(n) ==
    /\ net[n].req = "purge"
    /\ LET gone == {id \in Ids : server.rows[id] \in {Disabled, Used}} IN
       server' = [rows |-> [id \in Ids |-> IF id \in gone THEN None ELSE server.rows[id]],
                  was |-> [id \in Ids |-> server.was[id] \cup IF id \in gone THEN {None} ELSE {}]]
    /\ Answered(n, <<>>)

\* A question whose answer is about none of the rows: a statistic, a test, a count.
Tell(n) == net[n].req = "tell" /\ Answered(n, <<>>) /\ UNCHANGED server

\* The connection breaks before the request was handled, or after.
Break(n) ==
    /\ Failed(n)
    /\ \/ UNCHANGED server
       \/ net[n].req = "delete" /\ server' = Changed(net[n].arg.id, None)
       \/ net[n].req = "put" /\ server.rows[net[n].arg.id] # None
            /\ server' = Changed(net[n].arg.id, net[n].arg.st)

Serve ==
    \E n \in DOMAIN net :
        /\ net[n].st = "sent"
        /\ List(n) \/ Search(n) \/ Update(n) \/ Delete(n) \/ Touch(n) \/ Purge(n) \/ Tell(n)
           \/ Refused(n) \/ Break(n)

\* The rows from id on were never there: id may be the next that is added.
Unborn(id) == \A later \in Ids : later >= id => server.was[later] = {None}

\* Another session disables, enables or deletes a row, or adds the next one.
Elsewhere ==
    /\ Disturbed
    /\ \E id \in Ids :
        \/ server.rows[id] # None /\ server' = Changed(id, None)
        \/ server.rows[id] # None /\ server' = Changed(id, IF server.rows[id] = Enabled THEN Disabled ELSE Enabled)
        \/ Unborn(id) /\ server' = Changed(id, Enabled)

(***************************************************************************)
(* Rows as a page holds them: objects, told apart by the request n that    *)
(* fetched them.  A handler that assigns to a field of an object changes   *)
(* it in every array that holds it, in the page and in closures.           *)
(***************************************************************************)
Rows(n) == [i \in DOMAIN net[n].data |-> [id |-> net[n].data[i].id, st |-> net[n].data[i].st, n |-> n, del |-> FALSE]]

Pages(rows) == (Len(rows) + PageSize - 1) \div PageSize
Shown(rows, page, size) ==
    LET last == IF page * size > Len(rows) THEN Len(rows) ELSE page * size
    IN  ((page - 1) * size + 1) .. last

\* rows.splice(at, data.length, ...data): an index beyond the end appends.
Spliced(rows, at, data) ==
    LET from == IF at > Len(rows) THEN Len(rows) ELSE at
    IN  SubSeq(rows, 1, from) \o data \o SubSeq(rows, from + Len(data) + 1, Len(rows))

\* The rows at the places S, in their order.
Filtered(rows, S) == LET at == Reversed(Down(S)) IN [k \in DOMAIN at |-> rows[at[k]]]

\* rows.sort, by the number key[i] of the row at i: rows of the same number keep their order.
Arranged(rows, key) ==
    LET Before(i) == {j \in DOMAIN rows : key[j] < key[i] \/ (key[j] = key[i] /\ j <= i)}
    IN  [k \in DOMAIN rows |-> rows[CHOOSE i \in DOMAIN rows : Cardinality(Before(i)) = k]]

\* Sorted by a column that grows with the row number, reversed when the first
\* row stays the first.
Sorted(rows) ==
    LET up == Arranged(rows, [i \in DOMAIN rows |-> rows[i].id])
    IN  IF up[1].id = rows[1].id THEN Reversed(up) ELSE up

\* The same by a column that falls.
SortedDown(rows) ==
    LET down == Arranged(rows, [i \in DOMAIN rows |-> 0 - rows[i].id])
    IN  IF down[1].id = rows[1].id THEN Reversed(down) ELSE down

Marked(rows, o, st, del) ==
    [i \in DOMAIN rows |-> IF rows[i].id = o.id /\ rows[i].n = o.n
                           THEN [rows[i] EXCEPT !.st = st, !.del = del] ELSE rows[i]]

(***************************************************************************)
(* Some tables push a later page onto the array their closure holds, in    *)
(* the page and in every closure that holds the same array (era).          *)
(***************************************************************************)
\* The name of a new array.
NewEra ==
    CHOOSE e \in 0 .. MaxEvents + 2 :
        e # view.era /\ \A n \in DOMAIN net : e # net[n].arg.era

\* The handler that waited for n ends with data pushed onto its array.
EndsPushing(n, v, data) ==
    LET longer == net[n].was \o data IN
    /\ view' = [v EXCEPT !.rows = longer, !.era = net[n].arg.era]
    /\ net' = [m \in DOMAIN net \ {n} |->
                 IF net[m].arg.era = net[n].arg.era THEN [net[m] EXCEPT !.was = longer] ELSE net[m]]
    /\ UNCHANGED <<server, calls, history>>

Removed(rows, i) == SubSeq(rows, 1, i - 1) \o SubSeq(rows, i + 1, Len(rows))

\* The handler that waited for n ends after it assigned to the fields of o.
EndsMarking(n, v, o, st, del) ==
    /\ view' = v
    /\ net' = [m \in DOMAIN net \ {n} |-> [net[m] EXCEPT !.was = Marked(@, o, st, del)]]
    /\ UNCHANGED <<server, calls, history>>

\* A drawer of the page saved a row it edited or added, and has the list loaded again.
SavedThen(v, fn, req, arg, was) ==
    /\ calls + history.faults < MaxEvents
    /\ calls' = calls + 1
    /\ net' = Joined(net, calls + 1, Request(fn, req, arg, was))
    /\ view' = v
    /\ Alone
    /\ UNCHANGED server \/ \E id \in Ids : Unborn(id) /\ server' = Changed(id, Enabled)
=============================================================================
