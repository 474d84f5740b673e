---------------------------- MODULE AdminConsole ----------------------------
(***************************************************************************)
(* The admin console's lists of purchase codes, licenses and log rows      *)
(* (apps/license-admin/src/pages), cached by the query library, against    *)
(* the endpoints that read them page by page and the revocations that      *)
(* change them (the admin controllers of apps/license-server).             *)
(*                                                                         *)
(* Rows are numbered in the order in which they were made, and a list      *)
(* shows the newest first; no row is ever deleted.  License i belongs to   *)
(* code i, whose one slot it takes.  A page is read by two statements that *)
(* run in parallel.  How long data stay fresh is left open: what is not    *)
(* marked invalid may or may not be fetched again when it is shown.        *)
(***************************************************************************)
EXTENDS Naturals, FiniteSets, Functions

CONSTANTS
    Filters,    \* status filters the administrator uses on each list
    Rows,       \* rows each list has at first
    PageSize,
    MaxInserts, \* bound: rows inserted
    MaxSent,    \* bound: revocations and issues sent
    MaxCached   \* bound: queries with an entry in the cache

Lists == {"codes", "licenses", "logs"}
Revocable == {"codes", "licenses"}
FilterNames == {"all", "ACTIVE", "UNUSED", "EXHAUSTED", "REVOKED"}

ASSUME ConsoleAssumption ==
    /\ Filters \in [Lists -> SUBSET FilterNames]
    /\ \A l \in Lists : "all" \in Filters[l]
    /\ Rows \in [Lists -> Nat] /\ Rows["licenses"] <= Rows["codes"]
    /\ PageSize \in Nat \ {0} /\ MaxCached \in Nat \ {0}
    /\ MaxInserts \in Nat /\ MaxSent \in Nat

VARIABLES
    size,       \* rows of each list in the database
    revoked,    \* revoked rows of each list
    taken,      \* codes whose slot is taken
    view,       \* the query of the page on the screen
    entry,      \* the cache: a function of the queries that have an entry
    mut,        \* the revocations and issues sent, in their order; any number of
                \* them is under way
    sent,       \* those sent so far
    byNext,     \* history: the page on the screen was reached by Next
    told        \* history: those reported while this page was on the screen
                \* with data

dbVars == <<size, revoked, taken>>
vars == <<dbVars, view, entry, mut, sent, byNext, told>>

MaxRow(l) == Rows[l] + MaxInserts
Ids == UNION {1 .. MaxRow(l) : l \in Lists}

\* There is a first page of no rows.
Queries == {q \in [list : Lists, filter : FilterNames, page : Nat \ {0}] :
              q.filter \in Filters[q.list] /\ (q.page = 1 \/ q.page <= MaxRow(q.list))}

\* What a fetch has of a page: the rows, those of them that were revoked, and
\* the count of all; match is history: the rows the filter's name stands for
\* when the page was read.
NoData == [rows |-> {}, revoked |-> {}, total |-> 0, match |-> {}, has |-> FALSE]
Data == [rows : SUBSET Ids, revoked : SUBSET Ids, total : Nat, match : SUBSET Ids,
         has : BOOLEAN]

\* A fetch: which of its statements have not been run, and what it has got.
Statements == {"items", "total"}
NoFetch == [on |-> FALSE, due |-> {}, got |-> NoData]
NewFetch == [on |-> TRUE, due |-> Statements, got |-> NoData]
Fetch == [on : BOOLEAN, due : SUBSET Statements, got : Data]

NoEntry == [data |-> NoData, invalid |-> FALSE, fetch |-> NoFetch]
Entry == [data : Data, invalid : BOOLEAN, fetch : Fetch]

\* The queries that have an entry.
Cached == DOMAIN entry

Issue(at, i) == [at |-> at, op |-> "issue", list |-> "codes", id |-> i]
NoMutation == [at |-> "none", op |-> "revoke", list |-> "codes", id |-> 0]
Mutation == [at : {"none", "sent", "answered"}, op : {"revoke", "issue"},
             list : Revocable, id : Ids \cup {0}]
Mutations == 1 .. MaxSent
Reported == [op : {"revoke", "issue"}, id : Ids]

ConsoleTypeOK ==
    /\ \A l \in Lists : size[l] \in Rows[l] .. MaxRow(l) /\ revoked[l] \subseteq 1 .. size[l]
    /\ taken \subseteq 1 .. size["codes"]
    /\ Cached \subseteq Queries /\ view \in Cached
    /\ \A q \in Cached : entry[q] \in Entry /\ entry[q].data.rows \subseteq 1 .. size[q.list]
    /\ mut \in [Mutations -> Mutation]
    /\ sent \in 0 .. MaxSent
    /\ byNext \in BOOLEAN
    /\ told \subseteq Reported

Start(l) == [list |-> l, filter |-> "all", page |-> 1]

Init ==
    /\ size = Rows
    /\ revoked = [l \in Lists |-> {}]
    /\ taken = 1 .. Rows["licenses"]
    /\ view = Start("logs")
    /\ entry = [q \in {view} |-> [NoEntry EXCEPT !.fetch = NewFetch]]
    /\ mut = [k \in Mutations |-> NoMutation]
    /\ sent = 0
    /\ byNext = FALSE
    /\ told = {}

-----------------------------------------------------------------------------
(* The endpoints                                                           *)

All(l) == 1 .. size[l]

\* What the name of a status filter stands for.
CodesMeant(f) ==
    {i \in All("codes") :
       /\ f \in {"ACTIVE", "UNUSED"} => i \notin revoked["codes"]
       /\ f = "UNUSED" => i \notin taken
       /\ f = "EXHAUSTED" => i \in taken
       /\ f = "REVOKED" => i \in revoked["codes"]}

\* The where clause of the list of codes: EXHAUSTED is no part of it.
CodesWhere(f) == IF f = "EXHAUSTED" THEN All("codes") ELSE CodesMeant(f)

LicensesWhere(f) ==
    {i \in All("licenses") :
       /\ f = "ACTIVE" => i \notin revoked["licenses"]
       /\ f = "REVOKED" => i \in revoked["licenses"]}

LogsWhere == All("logs")

Where(q) ==
    CASE q.list = "codes" -> CodesWhere(q.filter)
      [] q.list = "licenses" -> LicensesWhere(q.filter)
      [] q.list = "logs" -> LogsWhere

Meant(q) == IF q.list = "codes" THEN CodesMeant(q.filter) ELSE Where(q)

\* orderBy newest first, skip, take.
PageOf(S, p) == {i \in S : LET newer == Cardinality({j \in S : j > i})
                           IN  newer >= (p - 1) * PageSize /\ newer < p * PageSize}

\* Codes that are not exhausted are taken out of the page that was read.
Selected(q) == IF q.filter = "EXHAUSTED" THEN PageOf(Where(q), q.page) \cap taken
               ELSE PageOf(Where(q), q.page)

\* count.  Mutant: of the whole table.
CountAll(q) == size[q.list]
Count(q) == Cardinality(Where(q))

PutFetch(q, f) == entry' = [entry EXCEPT ![q].fetch = f]

ReadItems(q) ==
    LET f == entry[q].fetch IN
    /\ f.on /\ "items" \in f.due
    /\ PutFetch(q, [on |-> TRUE, due |-> f.due \ {"items"},
                    got |-> [f.got EXCEPT !.rows = Selected(q),
                                          !.revoked = Selected(q) \cap revoked[q.list],
                                          !.match = Meant(q)]])
    /\ UNCHANGED <<dbVars, view, mut, sent, byNext, told>>

ReadTotal(q) ==
    LET f == entry[q].fetch IN
    /\ f.on /\ "total" \in f.due
    /\ PutFetch(q, [on |-> TRUE, due |-> f.due \ {"total"},
                    got |-> [f.got EXCEPT !.total = Count(q)]])
    /\ UNCHANGED <<dbVars, view, mut, sent, byNext, told>>

AllRows(s) == s["codes"] + s["licenses"] + s["logs"]
MayInsert == AllRows(size) < AllRows(Rows) + MaxInserts

\* A code is imported or minted; a code is activated; a row is logged.
Insert(l) ==
    /\ MayInsert
    /\ l = "licenses" => size[l] < size["codes"]
    /\ size' = [size EXCEPT ![l] = @ + 1]
    /\ taken' = IF l = "licenses" THEN taken \cup {size[l] + 1} ELSE taken
    /\ UNCHANGED <<revoked, view, entry, mut, sent, byNext, told>>

\* revoke of a code keeps its licenses; revoke of a license, unless it has been
\* revoked before, gives the slot back.
CommitRevoke(k) ==
    LET m == mut[k] IN
    /\ m.at = "sent" /\ m.op = "revoke"
    /\ revoked' = [revoked EXCEPT ![m.list] = @ \cup {m.id}]
    /\ taken' = IF m.list = "licenses" /\ m.id \notin revoked["licenses"]
                THEN taken \ {m.id} ELSE taken
    /\ mut' = [mut EXCEPT ![k].at = "answered"]
    /\ UNCHANGED <<size, view, entry, sent, byNext, told>>

CommitIssue(k) ==
    /\ mut[k].at = "sent" /\ mut[k].op = "issue" /\ MayInsert
    /\ size' = [size EXCEPT !["codes"] = @ + 1]
    /\ mut' = [mut EXCEPT ![k] = Issue("answered", size["codes"] + 1)]
    /\ UNCHANGED <<revoked, taken, view, entry, sent, byNext, told>>

-----------------------------------------------------------------------------
(* The pages                                                               *)

\* A query comes on the screen: it is fetched if there are no data, if they are
\* invalid or, perhaps, if they are not fresh; a fetch under way is joined.
Shown(q) ==
    LET e == IF q \in Cached THEN entry[q] ELSE NoEntry IN
    IF e.fetch.on THEN {e}
    ELSE IF e.invalid \/ ~e.data.has THEN {[e EXCEPT !.fetch = NewFetch]}
    ELSE {e, [e EXCEPT !.fetch = NewFetch]}

Go(q, next) ==
    /\ Cardinality(Cached \cup {q}) <= MaxCached
    /\ view' = q
    /\ \E e \in Shown(q) : entry' = [c \in Cached \cup {q} |-> IF c = q THEN e ELSE entry[c]]
    /\ byNext' = next
    /\ told' = {}
    /\ UNCHANGED <<dbVars, mut, sent>>

\* A page that is opened starts without a filter; a filter starts at page 1.
OpenList(l) == l # view.list /\ Go(Start(l), FALSE)
SetFilter(f) == f # view.filter /\ Go([Start(view.list) EXCEPT !.filter = f], FALSE)

Screen == entry[view].data

\* The buttons are drawn below the rows, so not when there are none.
Pager == Screen.has /\ Screen.rows # {}
NextEnabled == view.page * PageSize < Screen.total

\* Mutant: the button is never disabled.
PrevAlways == TRUE
PrevEnabled == view.page > 1

NextPage == Pager /\ NextEnabled /\ Go([view EXCEPT !.page = @ + 1], TRUE)
PrevPage == Pager /\ PrevEnabled /\ Go([view EXCEPT !.page = @ - 1], FALSE)

\* The window gets the focus with data that are not fresh, or the timer of the
\* page of the log ends.
Refresh ==
    /\ ~entry[view].fetch.on
    /\ PutFetch(view, NewFetch)
    /\ UNCHANGED <<dbVars, view, mut, sent, byNext, told>>

\* The answer of a fetch: its data are fresh.
FetchDone(q) ==
    LET e == entry[q] IN
    /\ e.fetch.on /\ e.fetch.due = {}
    /\ entry' = [entry EXCEPT ![q] = [data |-> [e.fetch.got EXCEPT !.has = TRUE],
                                      invalid |-> FALSE, fetch |-> NoFetch]]
    /\ UNCHANGED <<dbVars, view, mut, sent, byNext, told>>

\* A fetch has failed twice, or is repeated after it has failed once.
FetchFails(q) ==
    /\ entry[q].fetch.on
    /\ \E f \in {NoFetch} \cup (IF q = view THEN {NewFetch} ELSE {}) : PutFetch(q, f)
    /\ UNCHANGED <<dbVars, view, mut, sent, byNext, told>>

\* An entry that has not been on the screen for five minutes is dropped.
Collect(q) ==
    /\ q # view /\ ~entry[q].fetch.on
    /\ entry' = Restrict(entry, Cached \ {q})
    /\ UNCHANGED <<dbVars, view, mut, sent, byNext, told>>

\* Others may be under way: no button is disabled meanwhile.
Send(m) ==
    /\ sent < MaxSent
    /\ mut' = [mut EXCEPT ![sent + 1] = m]
    /\ sent' = sent + 1
    /\ UNCHANGED <<dbVars, view, entry, byNext, told>>

\* The button of a row that is shown as not revoked, and the issue dialog.
ClickRevoke(i) ==
    /\ view.list \in Revocable /\ i \in Screen.rows \ Screen.revoked
    /\ Send([at |-> "sent", op |-> "revoke", list |-> view.list, id |-> i])

\* The dialog can be closed and opened again while an issue is under way.
SubmitIssue ==
    /\ view.list = "codes"
    /\ Send(Issue("sent", 0))

\* The request or its answer is lost, or the code is taken.
MutationFails(k) ==
    /\ mut[k].at # "none"
    /\ mut' = [mut EXCEPT ![k] = NoMutation]
    /\ UNCHANGED <<dbVars, view, entry, sent, byNext, told>>

\* What onSuccess invalidates: all queries of the list.  Mutant: those that are
\* not on the screen.
InvalidatesOthers(m, q) == q.list = m.list /\ q # view
Invalidates(m, q) == q.list = m.list

\* An invalid query on the screen is fetched anew, and a fetch under way is
\* dropped if there are data already.
KeepsFetch(e) == e.fetch.on /\ ~e.data.has

Invalid(q) ==
    LET e == entry[q] IN
    IF q # view \/ KeepsFetch(e) THEN [e EXCEPT !.invalid = TRUE]
    ELSE [e EXCEPT !.invalid = TRUE, !.fetch = NewFetch]

MutationDone(k) ==
    LET m == mut[k] IN
    /\ m.at = "answered"
    /\ entry' = [q \in Cached |-> IF Invalidates(m, q) THEN Invalid(q) ELSE entry[q]]
    /\ told' = IF view.list = m.list /\ Screen.has
               THEN told \cup {[op |-> m.op, id |-> m.id]} ELSE told
    /\ mut' = [mut EXCEPT ![k] = NoMutation]
    /\ UNCHANGED <<dbVars, view, sent, byNext>>

Next ==
    \/ \E l \in Lists : Insert(l) \/ OpenList(l)
    \/ \E f \in Filters[view.list] : SetFilter(f)
    \/ NextPage \/ PrevPage \/ Refresh
    \/ \E q \in Cached : ReadItems(q) \/ ReadTotal(q) \/ FetchDone(q) \/ FetchFails(q) \/ Collect(q)
    \/ \E i \in Screen.rows : ClickRevoke(i)
    \/ SubmitIssue
    \/ \E k \in Mutations : CommitRevoke(k) \/ CommitIssue(k) \/ MutationDone(k) \/ MutationFails(k)

Spec == Init /\ [][Next]_vars

-----------------------------------------------------------------------------
(* Properties                                                              *)

\* What the console has reported as done is seen on the page on which it was
\* reported: unless its data are being fetched or marked as invalid, no row
\* that was revoked is offered for revocation, and an issued code was there
\* when they were read.  A fetch that was under way brings no older state back.
ReportedIsShown ==
    LET e == entry[view] IN
    e.data.has /\ ~e.invalid /\ ~e.fetch.on =>
      \A m \in told : IF m.op = "revoke" THEN m.id \notin Screen.rows \ Screen.revoked
                       ELSE view.filter = "all" => m.id \in Screen.match

\* Next leads to a page with rows, though rows and total are read apart and rows
\* come meanwhile, for the filters that no row leaves.
Stays(q) == q.filter \in {"all", "REVOKED"}
NextShowsRows == byNext /\ Screen.has /\ Stays(view) => Screen.rows # {}
=============================================================================
