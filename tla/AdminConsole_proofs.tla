------------------------ MODULE AdminConsole_proofs ------------------------
(***************************************************************************)
(* Proofs about AdminConsole for any filters, rows, page size and bounds.  *)
(***************************************************************************)
EXTENDS AdminConsole, FiniteSetTheorems, TLAPS

\* The database: no list shrinks, and a license is a license of a code.
DbOK ==
    /\ size \in [Lists -> Nat] /\ revoked \in [Lists -> SUBSET Ids]
    /\ size["licenses"] <= size["codes"]

\* What was read of a page was true of the database then, and of what no row
\* leaves it still is.
Fits(d, q) ==
    /\ d.rows \subseteq All(q.list) /\ d.match \subseteq All(q.list)
    /\ d.total <= size[q.list]
    /\ Stays(q) => d.total <= Cardinality(Where(q))

EntryFits(q, e) == e \in Entry /\ Fits(e.data, q) /\ Fits(e.fetch.got, q)

\* Every entry is a query's whole entry, and fits.
EntriesFit ==
    /\ entry \in [Cached -> Entry]
    /\ \A q \in Cached : EntryFits(q, entry[q])

\* A revocation under way is of a row that was shown, and one that has been
\* answered has been committed; an issue is of a code.
Committed(op, l, i) == IF op = "revoke" THEN i \in revoked[l] ELSE l = "codes" /\ i \in All("codes")

OneOK(m) ==
    /\ m.at = "sent" => IF m.op = "revoke" THEN m.id \in All(m.list) ELSE m.list = "codes"
    /\ m.at = "answered" => Committed(m.op, m.list, m.id)

MutationOK == \A k \in Mutations : OneOK(mut[k])

BaseInv == ConsoleTypeOK /\ DbOK /\ EntriesFit /\ MutationOK

\* What was reported has been committed, and is in what was read later.
ReportOK == \A m \in told : Committed(m.op, view.list, m.id)

Shows(d) == \A m \in told : IF m.op = "revoke" THEN m.id \notin d.rows \ d.revoked
                            ELSE view.filter = "all" => m.id \in d.match

EntryShows(e) ==
    /\ e.data.has /\ ~e.invalid => Shows(e.data)
    /\ e.fetch.on /\ "items" \notin e.fetch.due => Shows(e.fetch.got)

ReportInv == ReportOK /\ EntryShows(entry[view])

\* A later page in the cache, of a list that no row leaves, has rows, and so has
\* what was read of it.
Later(q) == Stays(q) /\ q.page # 1
Within(q) == Later(q) => (q.page - 1) * PageSize < Cardinality(Where(q))
EntryRows(q, e) ==
    Later(q) => /\ e.data.has => e.data.rows # {}
                /\ e.fetch.on /\ "items" \notin e.fetch.due => e.fetch.got.rows # {}

PageInv ==
    /\ byNext => view.page # 1
    /\ \A q \in Cached : Within(q) /\ EntryRows(q, entry[q])

ConsoleInv == BaseInv /\ ReportInv /\ PageInv

-----------------------------------------------------------------------------
(* Counting rows                                                           *)

\* A set of rows has an oldest one.
LEMMA Oldest ==
    ASSUME NEW S \in SUBSET Nat, IsFiniteSet(S), S # {}
    PROVE  \E m \in S : \A i \in S : m <= i
  <1> DEFINE Below(j) == {i \in S : i < j}
             T == {Below(j) : j \in S}
             R == StrictSubsetOrdering(S)
  <1>1. IsWellFoundedOn(R, FiniteSubsetsOf(S))
    BY FS_StrictSubsetOrderingWellFounded
  <1>2. T \subseteq FiniteSubsetsOf(S) /\ T # {}
    <2>1. FiniteSubsetsOf(S) = SUBSET S
      BY FS_FiniteSubsetsOfFinite
    <2>2. T \subseteq SUBSET S
      OBVIOUS
    <2>3. \A j \in S : Below(j) \in T
      OBVIOUS
    <2> QED
      BY <2>1, <2>2, <2>3, Zenon
  <1> HIDE DEF R
  <1>3. PICK U \in T : \A V \in T : <<V, U>> \notin R
    <2> HIDE DEF T
    <2> QED
      BY <1>1, <1>2, WFMin
  <1>4. PICK m \in S : U = Below(m)
    BY <1>3
  <1>5. ASSUME NEW i \in S, i < m PROVE FALSE
    <2>n. i \in Nat /\ m \in Nat
      OBVIOUS
    <2>1. Below(i) \subseteq Below(m) /\ i \in Below(m) /\ i \notin Below(i)
      <3>1. \A j \in S : j < i => j < m
        BY <2>n, <1>5
      <3>2. Below(i) \subseteq Below(m)
        BY <3>1
      <3>3. i \in Below(m)
        BY <1>5
      <3>4. ~ (i < i)
        BY <2>n
      <3> QED
        BY <3>2, <3>3, <3>4
    <2>2. Below(i) \in T /\ Below(i) \subseteq S /\ U \subseteq S
      BY <1>4
    <2>3. <<Below(i), U>> \in R
      BY <2>1, <2>2, <1>4 DEF R, StrictSubsetOrdering
    <2> QED
      BY <1>3, <2>2, <2>3
  <1> QED
    BY <1>5

\* Of more than k rows one has exactly k newer ones.
LEMMA HasNewer ==
    ASSUME NEW S \in SUBSET Nat, IsFiniteSet(S), NEW k \in Nat, k < Cardinality(S)
    PROVE  \E i \in S : Cardinality({j \in S : j > i}) = k
  <1> DEFINE Newer(i) == {j \in S : j > i}
             N(i) == Cardinality(Newer(i))
             C == {N(i) : i \in {j \in S : N(j) >= k}}
  <1>1. ASSUME NEW i \in S PROVE IsFiniteSet(Newer(i)) /\ N(i) \in Nat
    <2>1. Newer(i) \in SUBSET S
      OBVIOUS
    <2> QED
      BY <2>1, FS_Subset, FS_CardinalityType
  \* removing the oldest of a set leaves the rows newer than it
  <1>2. ASSUME NEW T \in SUBSET S, NEW m \in T, \A i \in T : m <= i,
               T = S \/ \E i \in S : T = Newer(i)
        PROVE  N(m) = Cardinality(T) - 1
    <2>n. m \in Nat /\ \A j \in S : j \in Nat
      BY <1>2
    <2>1. Newer(m) = T \ {m}
      <3>1. \A j \in T \ {m} : j > m
        BY <2>n, <1>2
      <3>2. \A j \in S : j > m => j \in T
        <4>1. CASE T = S
          BY <4>1
        <4>2. CASE \E i \in S : T = Newer(i)
          BY <2>n, <4>2, <1>2
        <4> QED
          BY <4>1, <4>2, <1>2
      <3>3. m \notin Newer(m) /\ T \subseteq S
        BY <2>n
      <3> QED
        BY <3>1, <3>2, <3>3
    <2>2. IsFiniteSet(T)
      BY FS_Subset
    <2> QED
      BY <2>1, <2>2, FS_RemoveElement
  <1>3. C # {} /\ C \in SUBSET Nat
    <2>1. S # {} /\ Cardinality(S) \in Nat
      BY FS_EmptySet, FS_CardinalityType
    <2>2. PICK m \in S : \A i \in S : m <= i
      BY <2>1, Oldest
    <2>3. N(m) = Cardinality(S) - 1
      <3> HIDE DEF N
      <3> QED
        BY <2>2, <1>2
    <2>4. N(m) >= k
      <3> HIDE DEF N
      <3> QED
        BY <2>1, <2>3
    <2> HIDE DEF N
    <2> QED
      BY <2>4, <1>1
  <1>4. IsFiniteSet(C)
    <2>1. \A i \in S : Newer(i) \in SUBSET S
      OBVIOUS
    <2>2. \A i \in S : N(i) <= Cardinality(S)
      <3> HIDE DEF Newer
      <3> QED
        BY <2>1, FS_Subset
    <2>3. Cardinality(S) \in Nat
      BY FS_CardinalityType
    <2>4. \A c \in C : c <= Cardinality(S)
      <3> HIDE DEF N
      <3> QED
        BY <2>2
    <2> HIDE DEF C
    <2> QED
      BY <2>3, <2>4, <1>3, FS_BoundedSetOfNaturals
  <1>5. PICK c \in C : \A d \in C : c <= d
    <2> HIDE DEF C
    <2> QED
      BY <1>3, <1>4, Oldest
  <1>6. PICK m \in S : N(m) = c /\ c >= k
    <2> HIDE DEF N
    <2> QED
      BY <1>5
  <1>7. ASSUME c # k PROVE FALSE
    <2>1. IsFiniteSet(Newer(m)) /\ N(m) \in Nat /\ N(m) > k
      <3> HIDE DEF N, Newer
      <3> QED
        BY <1>1, <1>6, <1>7
    <2>2. Newer(m) # {} /\ Newer(m) \in SUBSET S /\ Newer(m) \in SUBSET Nat
      <3>1. Newer(m) \in SUBSET S
        OBVIOUS
      <3> HIDE DEF Newer
      <3>2. Newer(m) # {}
        BY <2>1, FS_EmptySet
      <3> QED
        BY <3>1, <3>2
    <2>3. PICK j \in Newer(m) : \A i \in Newer(m) : j <= i
      <3> HIDE DEF Newer
      <3> QED
        BY <2>1, <2>2, Oldest
    <2>4. N(j) = N(m) - 1 /\ j \in S
      <3> HIDE DEF Newer
      <3>1. N(j) = Cardinality(Newer(m)) - 1
        <4> HIDE DEF N
        <4> QED
          BY <2>2, <2>3, <1>2
      <3> QED
        BY <2>2, <2>3, <3>1
    <2>5. N(j) >= k /\ N(j) < c
      <3> HIDE DEF N
      <3> QED
        BY <2>1, <2>4, <1>6
    <2>6. N(j) \in C
      <3> HIDE DEF N
      <3> QED
        BY <2>4, <2>5
    <2> HIDE DEF N, C
    <2> QED
      BY <2>1, <2>4, <2>5, <2>6, <1>5, <1>6
  <1> QED
    BY <1>6, <1>7

\* A page that starts within the rows has rows.
LEMMA PageHasRows ==
    ASSUME NEW S \in SUBSET Nat, IsFiniteSet(S), NEW p \in Nat \ {0},
           (p - 1) * PageSize < Cardinality(S)
    PROVE  PageOf(S, p) # {}
  <1> DEFINE k == (p - 1) * PageSize
  <1>1. PageSize \in Nat \ {0}
    BY ConsoleAssumption
  <1>2. k \in Nat /\ k < p * PageSize
    <2>1. p - 1 \in Nat /\ p * PageSize = (p - 1) * PageSize + PageSize
      BY <1>1
    <2> QED
      BY <1>1, <2>1
  <1>3. PICK i \in S : Cardinality({j \in S : j > i}) = k
    <2> HIDE DEF k
    <2> QED
      BY <1>2, HasNewer DEF k
  <1>4. i \in PageOf(S, p)
    <2> HIDE DEF k
    <2> QED
      BY <1>2, <1>3 DEF PageOf, k
  <1> QED
    BY <1>4

-----------------------------------------------------------------------------
(* The database                                                            *)

\* Queries are records, of lists and filters that are known.
LEMMA QueryFacts ==
    ASSUME NEW q \in Queries
    PROVE  /\ q.list \in Lists /\ q.filter \in FilterNames /\ q.filter \in Filters[q.list]
           /\ q.page \in Nat \ {0} /\ (q.page = 1 \/ q.page <= MaxRow(q.list))
           /\ q = [list |-> q.list, filter |-> q.filter, page |-> q.page]
  BY DEF Queries

\* The numbers of a reachable database.
LEMMA DbFacts ==
    ASSUME ConsoleTypeOK, DbOK, NEW l \in Lists
    PROVE  /\ size[l] \in Nat /\ Rows[l] \in Nat /\ MaxInserts \in Nat /\ MaxRow(l) \in Nat
           /\ Rows[l] <= size[l] /\ size[l] <= MaxRow(l)
           /\ All(l) \subseteq Ids /\ All(l) \in SUBSET Nat /\ revoked[l] \subseteq All(l)
  <1>1. Rows[l] \in Nat /\ MaxInserts \in Nat
    BY ConsoleAssumption
  <1>2. MaxRow(l) \in Nat
    BY <1>1 DEF MaxRow
  <1>3. size[l] \in Rows[l] .. MaxRow(l) /\ revoked[l] \subseteq 1 .. size[l]
    BY DEF ConsoleTypeOK
  <1>4. size[l] \in Nat /\ Rows[l] <= size[l] /\ size[l] <= MaxRow(l)
    BY <1>1, <1>2, <1>3
  <1>5. 1 .. size[l] \subseteq 1 .. MaxRow(l)
    BY <1>2, <1>4
  <1>6. 1 .. MaxRow(l) \subseteq Ids
    BY DEF Ids
  <1> QED
    BY <1>1, <1>2, <1>3, <1>4, <1>5, <1>6 DEF All

\* Identifiers are numbers.
LEMMA IdsAreNumbers == Ids \subseteq Nat \ {0}
  <1>1. \A l \in Lists : MaxRow(l) \in Nat
    BY ConsoleAssumption DEF MaxRow
  <1> QED
    BY <1>1 DEF Ids

\* What a filter without leavers selects.
LEMMA StaysWhere ==
    ASSUME NEW q \in Queries, Stays(q)
    PROVE  /\ q.list = "logs" \/ q.filter = "all" => Where(q) = All(q.list)
           /\ q.list # "logs" /\ q.filter = "REVOKED" => Where(q) = All(q.list) \cap revoked[q.list]
           /\ q.filter = "all" => Meant(q) = All(q.list)
           /\ Selected(q) = PageOf(Where(q), q.page)
  <1>1. q.list \in {"codes", "licenses", "logs"}
    BY QueryFacts DEF Lists
  <1>2. q.filter \in {"all", "REVOKED"}
    BY DEF Stays
  <1>3. Selected(q) = PageOf(Where(q), q.page)
    BY <1>2 DEF Selected
  <1>4. CASE q.list = "codes"
    <2>1. Where(q) = CodesMeant(q.filter) /\ Meant(q) = CodesMeant(q.filter)
      BY <1>2, <1>4 DEF Where, Meant, CodesWhere
    <2>2. q.filter = "all" => CodesMeant(q.filter) = All("codes")
      BY DEF CodesMeant
    <2>3. q.filter = "REVOKED" => CodesMeant(q.filter) = All("codes") \cap revoked["codes"]
      BY DEF CodesMeant
    <2> QED
      BY <1>2, <1>3, <1>4, <2>1, <2>2, <2>3
  <1>5. CASE q.list = "licenses"
    <2>1. Where(q) = LicensesWhere(q.filter) /\ Meant(q) = Where(q)
      BY <1>5 DEF Where, Meant
    <2>2. q.filter = "all" => LicensesWhere(q.filter) = All("licenses")
      BY DEF LicensesWhere
    <2>3. q.filter = "REVOKED" => LicensesWhere(q.filter) = All("licenses") \cap revoked["licenses"]
      BY DEF LicensesWhere
    <2> QED
      BY <1>2, <1>3, <1>5, <2>1, <2>2, <2>3
  <1>6. CASE q.list = "logs"
    <2>1. Where(q) = All("logs") /\ Meant(q) = Where(q)
      BY <1>6 DEF Where, Meant, LogsWhere
    <2> QED
      BY <1>2, <1>3, <1>6, <2>1
  <1> QED
    BY <1>1, <1>4, <1>5, <1>6

\* Rows that are selected, or meant, are rows of the list; there are finitely many.
LEMMA WhereFacts ==
    ASSUME ConsoleTypeOK, DbOK, NEW q \in Queries
    PROVE  /\ Where(q) \subseteq All(q.list) /\ Meant(q) \subseteq All(q.list)
           /\ Selected(q) \subseteq All(q.list)
           /\ Where(q) \in SUBSET Nat /\ IsFiniteSet(Where(q))
           /\ Cardinality(Where(q)) \in Nat /\ Cardinality(Where(q)) <= size[q.list]
  <1>1. q.list \in {"codes", "licenses", "logs"}
    BY QueryFacts DEF Lists
  <1>2. Where(q) \subseteq All(q.list) /\ Meant(q) \subseteq All(q.list)
    <2>1. \A f : CodesMeant(f) \subseteq All("codes") /\ CodesWhere(f) \subseteq All("codes")
      BY DEF CodesMeant, CodesWhere
    <2>2. \A f : LicensesWhere(f) \subseteq All("licenses")
      BY DEF LicensesWhere
    <2>3. CASE q.list = "codes"
      BY <2>1, <2>3 DEF Where, Meant
    <2>4. CASE q.list = "licenses"
      BY <2>2, <2>4 DEF Where, Meant
    <2>5. CASE q.list = "logs"
      BY <2>5 DEF Where, Meant, LogsWhere
    <2> QED
      BY <1>1, <2>3, <2>4, <2>5
  <1>3. Selected(q) \subseteq Where(q)
    BY DEF Selected, PageOf
  <1>4. size[q.list] \in Nat /\ All(q.list) \in SUBSET Nat
    BY <1>1, DbFacts DEF Lists
  <1>5. IsFiniteSet(All(q.list)) /\ Cardinality(All(q.list)) = size[q.list]
    <2>1. \A n \in Nat : IsFiniteSet(1 .. n) /\ Cardinality(1 .. n) = n
      <3> TAKE n \in Nat
      <3>1. IsFiniteSet(1 .. n) /\ Cardinality(1 .. n) = IF 1 > n THEN 0 ELSE n - 1 + 1
        BY FS_Interval
      <3> QED
        BY <3>1
    <2> QED
      BY <1>4, <2>1 DEF All
  <1>6. IsFiniteSet(Where(q)) /\ Cardinality(Where(q)) <= Cardinality(All(q.list))
    BY <1>2, <1>5, FS_Subset
  <1>7. Cardinality(Where(q)) \in Nat
    BY <1>6, FS_CardinalityType
  <1> QED
    BY <1>2, <1>3, <1>4, <1>5, <1>6, <1>7

\* The same of a state, to be used of the next one.
SelectsOK ==
    \A q \in Queries :
      /\ IsFiniteSet(Where(q)) /\ Cardinality(Where(q)) \in Nat
      /\ Stays(q) => /\ q.list = "logs" \/ q.filter = "all" => Where(q) = All(q.list)
                     /\ q.list # "logs" /\ q.filter = "REVOKED" =>
                          Where(q) = All(q.list) \cap revoked[q.list]

\* It holds in every state of the right types.
LEMMA Selects == ConsoleTypeOK /\ DbOK => SelectsOK
  <1> SUFFICES ASSUME ConsoleTypeOK, DbOK PROVE SelectsOK
    OBVIOUS
  <1> QED
    BY WhereFacts, StaysWhere DEF SelectsOK

\* Rows come and are revoked, and that is all.
DbGrows == \A l \in Lists : size[l] <= size'[l] /\ revoked[l] \subseteq revoked'[l]

\* A list without leavers only grows, and what was read fits on.
LEMMA Growth ==
    ASSUME ConsoleTypeOK, DbOK, ConsoleTypeOK', DbOK', DbGrows, NEW q \in Queries
    PROVE  /\ All(q.list) \subseteq All(q.list)'
           /\ Stays(q) => Cardinality(Where(q)) <= Cardinality(Where(q)')
           /\ \A d \in Data : Fits(d, q) => Fits(d, q)'
  <1>0. q.list \in Lists
    BY QueryFacts
  <1>s. SelectsOK /\ SelectsOK'
    <2>1. ConsoleTypeOK' /\ DbOK' => SelectsOK'
      BY Selects, PTL
    <2> QED
      BY <2>1, Selects
  <1>1. size[q.list] \in Nat /\ size'[q.list] \in Nat /\ size[q.list] <= size'[q.list]
    <2>1. size[q.list] \in Nat
      BY <1>0, DbFacts
    <2>2. size'[q.list] \in Nat
      BY <1>0 DEF DbOK
    <2> QED
      BY <1>0, <2>1, <2>2 DEF DbGrows
  <1>2. All(q.list) \subseteq All(q.list)'
    BY <1>1 DEF All
  <1>3. ASSUME Stays(q)
        PROVE  /\ Cardinality(Where(q)) \in Nat /\ Cardinality(Where(q)') \in Nat
               /\ Cardinality(Where(q)) <= Cardinality(Where(q)')
    <2>1. Where(q) \subseteq Where(q)'
      <3>1. q.filter \in {"all", "REVOKED"}
        BY <1>3 DEF Stays
      <3>2. /\ q.list = "logs" \/ q.filter = "all" => Where(q) = All(q.list)
            /\ q.list # "logs" /\ q.filter = "REVOKED" => Where(q) = All(q.list) \cap revoked[q.list]
        BY <1>3, StaysWhere
      <3>3. /\ q.list = "logs" \/ q.filter = "all" => Where(q)' = All(q.list)'
            /\ q.list # "logs" /\ q.filter = "REVOKED" => Where(q)' = All(q.list)' \cap revoked'[q.list]
        BY <1>s, <1>3 DEF SelectsOK, Stays
      <3>4. revoked[q.list] \subseteq revoked'[q.list]
        BY <1>0 DEF DbGrows
      <3> QED
        BY <1>2, <3>1, <3>2, <3>3, <3>4
    <2>2. IsFiniteSet(Where(q)') /\ Cardinality(Where(q)') \in Nat
      BY <1>s DEF SelectsOK
    <2>3. Cardinality(Where(q)) \in Nat
      BY WhereFacts
    <2> QED
      BY <2>1, <2>2, <2>3, FS_Subset
  <1>4. ASSUME NEW d \in Data, Fits(d, q) PROVE Fits(d, q)'
    <2>1. d.total \in Nat
      BY DEF Data
    <2>2. d.rows \subseteq All(q.list)' /\ d.match \subseteq All(q.list)'
      BY <1>2, <1>4 DEF Fits
    <2>3. d.total <= size'[q.list]
      BY <1>1, <1>4, <2>1 DEF Fits
    <2>4. Stays(q) => d.total <= Cardinality(Where(q)')
      BY <1>3, <1>4, <2>1 DEF Fits
    <2> QED
      BY <2>2, <2>3, <2>4 DEF Fits
  <1> QED
    BY <1>2, <1>3, <1>4

-----------------------------------------------------------------------------
(* The cache                                                               *)

\* While the database stays as it is, so does what a query selects.
LEMMA Frozen ==
    ASSUME UNCHANGED dbVars, NEW q \in Queries
    PROVE  /\ All(q.list)' = All(q.list) /\ Where(q)' = Where(q)
           /\ Within(q) => Within(q)'
           /\ \A d : Fits(d, q) => Fits(d, q)'
  <1>1. size' = size /\ revoked' = revoked /\ taken' = taken
    BY DEF dbVars
  <1>2. \A l : All(l)' = All(l)
    BY <1>1 DEF All
  <1>3. \A f : CodesMeant(f)' = CodesMeant(f) /\ LicensesWhere(f)' = LicensesWhere(f)
    BY <1>1, <1>2 DEF CodesMeant, LicensesWhere
  <1>4. Where(q)' = Where(q)
    BY <1>2, <1>3 DEF Where, CodesWhere, LogsWhere
  <1>5. \A d : Fits(d, q) => Fits(d, q)'
    BY <1>1, <1>2, <1>4 DEF Fits, Stays
  <1> QED
    BY <1>2, <1>4, <1>5 DEF Within, Later, Stays

\* An entry has data, a mark and a fetch.
LEMMA EntryFacts ==
    ASSUME NEW e \in Entry
    PROVE  /\ e.data \in Data /\ e.invalid \in BOOLEAN /\ e.fetch \in Fetch
           /\ e.fetch.on \in BOOLEAN /\ e.fetch.due \subseteq Statements /\ e.fetch.got \in Data
           /\ e.data.has \in BOOLEAN
  BY DEF Entry, Fetch, Data

\* No data, and a fetch that starts.
LEMMA NoDataFacts ==
    ASSUME ConsoleTypeOK, DbOK, NEW q \in Queries
    PROVE  /\ NoData \in Data /\ NoFetch \in Fetch /\ NewFetch \in Fetch /\ NoEntry \in Entry
           /\ Fits(NoData, q) /\ EntryFits(q, NoEntry)
           /\ NewFetch.on /\ NewFetch.due = Statements /\ NewFetch.got = NoData
           /\ ~NoFetch.on /\ NoFetch.got = NoData
           /\ ~NoEntry.data.has /\ NoEntry.data = NoData /\ ~NoEntry.fetch.on
  <1>1. NoData \in Data
    BY DEF NoData, Data
  <1>2. NoFetch \in Fetch /\ NewFetch \in Fetch
    BY <1>1 DEF NoFetch, NewFetch, Fetch
  <1>3. NoEntry \in Entry /\ NoEntry.data = NoData /\ NoEntry.fetch = NoFetch
    BY <1>1, <1>2 DEF NoEntry, Entry
  <1>4. /\ NewFetch.on /\ NewFetch.due = Statements /\ NewFetch.got = NoData
        /\ ~NoFetch.on /\ NoFetch.got = NoData /\ ~NoData.has
    BY DEF NewFetch, NoFetch, NoData
  <1>5. Fits(NoData, q)
    <2>1. size[q.list] \in Nat /\ Cardinality(Where(q)) \in Nat
      BY QueryFacts, DbFacts, WhereFacts
    <2> QED
      BY <2>1 DEF Fits, NoData
  <1> QED
    BY <1>1, <1>2, <1>3, <1>4, <1>5 DEF EntryFits

\* A fetch that is put takes the place of the one there was.
LEMMA PutFetchIs ==
    ASSUME EntriesFit, NEW q \in Cached, NEW f \in Fetch, PutFetch(q, f)
    PROVE  \E e \in Entry : /\ entry' = [entry EXCEPT ![q] = e]
                            /\ e.data = entry[q].data /\ e.invalid = entry[q].invalid
                            /\ e.fetch = f
  <1>1. entry[q] \in Entry
    BY DEF EntriesFit
  <1> DEFINE e == [entry[q] EXCEPT !.fetch = f]
  <1>2. e \in Entry /\ e.data = entry[q].data /\ e.invalid = entry[q].invalid /\ e.fetch = f
    BY <1>1 DEF Entry
  <1>3. entry' = [entry EXCEPT ![q] = e]
    BY DEF PutFetch
  <1> QED
    BY <1>2, <1>3

\* Queries in the cache are known.
LEMMA CachedFacts ==
    ASSUME ConsoleTypeOK, EntriesFit, NEW q \in Cached
    PROVE  /\ q \in Queries /\ view \in Cached /\ view \in Queries
           /\ entry[q] \in Entry /\ EntryFits(q, entry[q])
  BY DEF ConsoleTypeOK, EntriesFit

\* The steps that put one entry keep the invariant if the entry does.
LEMMA PutKeeps ==
    ASSUME ConsoleInv, NEW q \in Cached, NEW e \in Entry,
           entry' = [entry EXCEPT ![q] = e],
           UNCHANGED <<dbVars, view, mut, sent, byNext, told>>,
           EntryFits(q, e), EntryRows(q, e), q = view => EntryShows(e)
    PROVE  ConsoleInv'
  <1> USE DEF ConsoleInv, BaseInv
  <1>1. /\ size' = size /\ revoked' = revoked /\ taken' = taken
        /\ view' = view /\ mut' = mut /\ sent' = sent /\ byNext' = byNext /\ told' = told
    BY DEF dbVars
  <1>2. /\ Cached' = Cached /\ entry' \in [Cached -> Entry] /\ entry'[q] = e
        /\ \A c \in Cached : c # q => entry'[c] = entry[c]
    BY DEF EntriesFit, Cached
  <1>3. \A c \in Cached : EntryFits(c, entry'[c]) /\ entry'[c] \in Entry
    BY <1>2, CachedFacts
  <1>4. \A c \in Cached : entry'[c].data.rows \subseteq 1 .. size[c.list]
    BY <1>3 DEF EntryFits, Fits, All
  <1>5. ConsoleTypeOK'
    BY <1>1, <1>2, <1>3, <1>4 DEF ConsoleTypeOK
  <1>6. DbOK'
    BY <1>1 DEF DbOK
  <1>7. EntriesFit'
    <2>1. \A c \in Cached : EntryFits(c, entry[c])'
      BY <1>3, CachedFacts, Frozen DEF EntryFits
    <2> QED
      BY <1>2, <2>1 DEF EntriesFit
  <1>8. MutationOK'
    BY <1>1 DEF MutationOK, OneOK, Committed, All
  <1>9. ReportInv'
    <2>1. EntryShows(entry'[view])
      <3>1. view \in Cached
        BY CachedFacts
      <3> QED
        BY <1>2, <3>1 DEF ReportInv
    <2>2. EntryShows(entry[view])'
      BY <1>1, <2>1 DEF EntryShows, Shows
    <2>3. ReportOK'
      BY <1>1 DEF ReportInv, ReportOK, Committed, All
    <2> QED
      BY <2>2, <2>3 DEF ReportInv
  <1>10. PageInv'
    <2>1. \A c \in Cached : Within(c)'
      BY CachedFacts, Frozen DEF PageInv
    <2>2. \A c \in Cached : EntryRows(c, entry'[c])
      BY <1>2 DEF PageInv
    <2>3. \A c \in Cached : EntryRows(c, entry[c])'
      BY <2>2 DEF EntryRows, Later, Stays
    <2> QED
      BY <1>1, <1>2, <2>1, <2>3 DEF PageInv
  <1> QED
    BY <1>5, <1>6, <1>7, <1>8, <1>9, <1>10

\* Pages that are read are rows of the list, of which what was reported is so.
LEMMA ReadItemsKeeps ==
    ASSUME ConsoleInv, NEW q \in Cached, ReadItems(q)
    PROVE  ConsoleInv'
  <1> DEFINE f == entry[q].fetch
             got == [f.got EXCEPT !.rows = Selected(q),
                                  !.revoked = Selected(q) \cap revoked[q.list],
                                  !.match = Meant(q)]
             g == [on |-> TRUE, due |-> f.due \ {"items"}, got |-> got]
  <1>0. ConsoleTypeOK /\ DbOK /\ EntriesFit /\ ReportInv /\ PageInv
    BY DEF ConsoleInv, BaseInv
  <1>1. /\ q \in Queries /\ q.list \in Lists /\ entry[q] \in Entry /\ EntryFits(q, entry[q])
        /\ view \in Queries /\ view.list \in Lists
    BY <1>0, CachedFacts, QueryFacts
  <1>2. f.due \subseteq Statements /\ f.got \in Data
    BY <1>1, EntryFacts
  <1>3. /\ Selected(q) \subseteq All(q.list) /\ Meant(q) \subseteq All(q.list)
        /\ All(q.list) \subseteq Ids
    BY <1>0, <1>1, WhereFacts, DbFacts
  <1>4. /\ got \in Data /\ got.rows = Selected(q) /\ got.match = Meant(q)
        /\ got.revoked = Selected(q) \cap revoked[q.list] /\ got.total = f.got.total
    BY <1>2, <1>3 DEF Data
  <1>5. Fits(got, q)
    BY <1>1, <1>3, <1>4 DEF EntryFits, Fits
  <1>6. Later(q) => got.rows # {}
    <2> SUFFICES ASSUME Later(q) PROVE Selected(q) # {}
      BY <1>4
    <2>1. (q.page - 1) * PageSize < Cardinality(Where(q)) /\ Stays(q)
      BY <1>0 DEF PageInv, Within, Later
    <2>2. Where(q) \in SUBSET Nat /\ IsFiniteSet(Where(q)) /\ q.page \in Nat \ {0}
      BY <1>0, <1>1, WhereFacts, QueryFacts
    <2>3. PageOf(Where(q), q.page) # {}
      BY <2>1, <2>2, PageHasRows
    <2> QED
      BY <1>1, <2>1, <2>3, StaysWhere
  <1>7. q = view => Shows(got)
    <2> SUFFICES ASSUME q = view, NEW m \in told
                 PROVE  IF m.op = "revoke" THEN m.id \notin got.rows \ got.revoked
                        ELSE view.filter = "all" => m.id \in got.match
      BY DEF Shows
    <2>1. Committed(m.op, view.list, m.id)
      BY <1>0 DEF ReportInv, ReportOK
    <2>2. CASE m.op = "revoke"
      BY <1>4, <2>1, <2>2 DEF Committed
    <2>3. CASE m.op # "revoke"
      <3>1. view.list = "codes" /\ m.id \in All("codes")
        BY <2>1, <2>3 DEF Committed
      <3>2. view.filter = "all" => Meant(view) = All(view.list)
        BY <1>1, StaysWhere DEF Stays
      <3> QED
        BY <1>4, <2>3, <3>1, <3>2
    <2> QED
      BY <2>2, <2>3
  <1> HIDE DEF got
  <1>8. g \in Fetch /\ g.got = got
    BY <1>2, <1>4 DEF Fetch
  <1>9. PutFetch(q, g) /\ UNCHANGED <<dbVars, view, mut, sent, byNext, told>>
    BY DEF ReadItems, got
  <1> HIDE DEF g
  <1>10. PICK e \in Entry : /\ entry' = [entry EXCEPT ![q] = e]
                            /\ e.data = entry[q].data /\ e.invalid = entry[q].invalid
                            /\ e.fetch = g
    BY <1>0, <1>8, <1>9, PutFetchIs
  <1>11. EntryFits(q, e)
    BY <1>1, <1>5, <1>8, <1>10 DEF EntryFits
  <1>12. EntryRows(q, e)
    BY <1>0, <1>6, <1>8, <1>10 DEF EntryRows, PageInv
  <1>13. q = view => EntryShows(e)
    BY <1>0, <1>7, <1>8, <1>10 DEF EntryShows, ReportInv
  <1> QED
    BY <1>9, <1>10, <1>11, <1>12, <1>13, PutKeeps

\* A count is of rows that a filter without leavers still selects.
LEMMA ReadTotalKeeps ==
    ASSUME ConsoleInv, NEW q \in Cached, ReadTotal(q)
    PROVE  ConsoleInv'
  <1> DEFINE f == entry[q].fetch
             got == [f.got EXCEPT !.total = Count(q)]
             g == [on |-> TRUE, due |-> f.due \ {"total"}, got |-> got]
  <1>0. ConsoleTypeOK /\ DbOK /\ EntriesFit /\ ReportInv /\ PageInv
    BY DEF ConsoleInv, BaseInv
  <1>1. q \in Queries /\ entry[q] \in Entry /\ EntryFits(q, entry[q]) /\ f.on
    BY <1>0, CachedFacts DEF ReadTotal
  <1>2. f.due \subseteq Statements /\ f.got \in Data
    BY <1>1, EntryFacts
  <1>3. Count(q) \in Nat /\ Count(q) <= size[q.list] /\ Count(q) = Cardinality(Where(q))
    BY <1>0, <1>1, WhereFacts DEF Count
  <1>4. /\ got \in Data /\ got.rows = f.got.rows /\ got.match = f.got.match
        /\ got.revoked = f.got.revoked /\ got.total = Count(q)
    BY <1>2, <1>3 DEF Data
  <1>5. Fits(got, q)
    BY <1>1, <1>3, <1>4 DEF EntryFits, Fits
  <1> HIDE DEF got
  <1>8. g \in Fetch /\ g.got = got /\ ("items" \notin g.due => "items" \notin f.due)
    BY <1>2, <1>4 DEF Fetch
  <1>9. PutFetch(q, g) /\ UNCHANGED <<dbVars, view, mut, sent, byNext, told>>
    BY DEF ReadTotal, got
  <1> HIDE DEF g
  <1>10. PICK e \in Entry : /\ entry' = [entry EXCEPT ![q] = e]
                            /\ e.data = entry[q].data /\ e.invalid = entry[q].invalid
                            /\ e.fetch = g
    BY <1>0, <1>8, <1>9, PutFetchIs
  <1>11. EntryFits(q, e)
    BY <1>1, <1>5, <1>8, <1>10 DEF EntryFits
  <1>12. EntryRows(q, e)
    BY <1>0, <1>1, <1>4, <1>8, <1>10 DEF EntryRows, PageInv
  <1>13. q = view => EntryShows(e)
    BY <1>0, <1>1, <1>4, <1>8, <1>10 DEF EntryShows, ReportInv, Shows
  <1> QED
    BY <1>9, <1>10, <1>11, <1>12, <1>13, PutKeeps

\* The data of a fetch that has ended are those it got.
LEMMA FetchDoneKeeps ==
    ASSUME ConsoleInv, NEW q \in Cached, FetchDone(q)
    PROVE  ConsoleInv'
  <1> DEFINE f == entry[q].fetch
             d == [f.got EXCEPT !.has = TRUE]
             e == [data |-> d, invalid |-> FALSE, fetch |-> NoFetch]
  <1>0. ConsoleTypeOK /\ DbOK /\ EntriesFit /\ ReportInv /\ PageInv
    BY DEF ConsoleInv, BaseInv
  <1>1. q \in Queries /\ entry[q] \in Entry /\ EntryFits(q, entry[q]) /\ f.on /\ f.due = {}
    BY <1>0, CachedFacts DEF FetchDone
  <1>2. f.got \in Data
    BY <1>1, EntryFacts
  <1>3. /\ d \in Data /\ d.rows = f.got.rows /\ d.match = f.got.match
        /\ d.revoked = f.got.revoked /\ d.total = f.got.total
    BY <1>2 DEF Data
  <1>4. Fits(d, q)
    BY <1>1, <1>3 DEF EntryFits, Fits
  <1>5. /\ NoFetch \in Fetch /\ ~NoFetch.on /\ Fits(NoFetch.got, q)
    BY <1>0, <1>1, NoDataFacts
  <1>6. entry' = [entry EXCEPT ![q] = e] /\ UNCHANGED <<dbVars, view, mut, sent, byNext, told>>
    BY DEF FetchDone
  <1> HIDE DEF d
  <1>7. e \in Entry /\ e.data = d /\ e.fetch = NoFetch
    BY <1>3, <1>5 DEF Entry
  <1> HIDE DEF e
  <1>8. EntryFits(q, e)
    BY <1>4, <1>5, <1>7 DEF EntryFits
  <1>9. EntryRows(q, e)
    BY <1>0, <1>1, <1>3, <1>5, <1>7 DEF EntryRows, PageInv
  <1>10. q = view => EntryShows(e)
    BY <1>0, <1>1, <1>3, <1>5, <1>7 DEF EntryShows, ReportInv, Shows
  <1> QED
    BY <1>6, <1>7, <1>8, <1>9, <1>10, PutKeeps

\* A fetch that starts anew, or is given up, changes no data.
LEMMA RestartKeeps ==
    ASSUME ConsoleInv, NEW q \in Cached, NEW f \in {NoFetch, NewFetch}, PutFetch(q, f),
           UNCHANGED <<dbVars, view, mut, sent, byNext, told>>
    PROVE  ConsoleInv'
  <1>0. ConsoleTypeOK /\ DbOK /\ EntriesFit /\ ReportInv /\ PageInv
    BY DEF ConsoleInv, BaseInv
  <1>1. q \in Queries /\ entry[q] \in Entry /\ EntryFits(q, entry[q])
    BY <1>0, CachedFacts
  <1>2. f \in Fetch /\ Fits(f.got, q) /\ ~(f.on /\ "items" \notin f.due)
    BY <1>0, <1>1, NoDataFacts DEF Statements
  <1>3. PICK e \in Entry : /\ entry' = [entry EXCEPT ![q] = e]
                           /\ e.data = entry[q].data /\ e.invalid = entry[q].invalid
                           /\ e.fetch = f
    BY <1>0, <1>2, PutFetchIs
  <1>4. EntryFits(q, e)
    BY <1>1, <1>2, <1>3 DEF EntryFits
  <1>5. EntryRows(q, e)
    BY <1>0, <1>2, <1>3 DEF EntryRows, PageInv
  <1>6. q = view => EntryShows(e)
    BY <1>0, <1>2, <1>3 DEF EntryShows, ReportInv
  <1> QED
    BY <1>3, <1>4, <1>5, <1>6, PutKeeps

-----------------------------------------------------------------------------
(* The pages                                                               *)

\* What is shown of a query: its entry, or a new one, and perhaps a new fetch.
LEMMA ShownFacts ==
    ASSUME ConsoleInv, NEW q \in Queries, NEW e \in Shown(q)
    PROVE  e \in Entry /\ EntryFits(q, e) /\ EntryRows(q, e)
  <1> DEFINE o == IF q \in Cached THEN entry[q] ELSE NoEntry
  <1>0. ConsoleTypeOK /\ DbOK /\ EntriesFit /\ PageInv
    BY DEF ConsoleInv, BaseInv
  <1>n. /\ NewFetch \in Fetch /\ Fits(NewFetch.got, q) /\ "items" \in NewFetch.due
        /\ NoEntry \in Entry /\ EntryFits(q, NoEntry) /\ ~NoEntry.data.has /\ ~NoEntry.fetch.on
    BY <1>0, NoDataFacts DEF Statements
  <1>1. o \in Entry /\ EntryFits(q, o) /\ EntryRows(q, o)
    <2>1. CASE q \in Cached
      BY <1>0, <2>1, CachedFacts DEF PageInv
    <2>2. CASE q \notin Cached
      BY <1>n, <2>2 DEF EntryRows
    <2> QED
      BY <2>1, <2>2
  <1> DEFINE n == [o EXCEPT !.fetch = NewFetch]
  <1>2. e = o \/ e = n
    BY DEF Shown
  <1> HIDE DEF o
  <1>3. n \in Entry /\ n.data = o.data /\ n.fetch = NewFetch
    BY <1>n, <1>1 DEF Entry
  <1> HIDE DEF n
  <1>4. EntryFits(q, n) /\ EntryRows(q, n)
    BY <1>n, <1>1, <1>3 DEF EntryFits, EntryRows
  <1> QED
    BY <1>1, <1>2, <1>3, <1>4

\* A page that comes on the screen has nothing reported on it.
LEMMA GoKeeps ==
    ASSUME ConsoleInv, NEW q \in Queries, NEW next \in BOOLEAN, Go(q, next),
           next => q.page # 1, Within(q)
    PROVE  ConsoleInv'
  <1>0. ConsoleTypeOK /\ DbOK /\ EntriesFit /\ MutationOK /\ PageInv
    BY DEF ConsoleInv, BaseInv
  <1>1. /\ size' = size /\ revoked' = revoked /\ taken' = taken /\ UNCHANGED dbVars
        /\ view' = q /\ mut' = mut /\ sent' = sent /\ byNext' = next /\ told' = {}
    BY DEF Go, dbVars
  <1>2. PICK e \in Shown(q) : entry' = [c \in Cached \cup {q} |-> IF c = q THEN e ELSE entry[c]]
    BY DEF Go
  <1>3. e \in Entry /\ EntryFits(q, e) /\ EntryRows(q, e)
    BY ShownFacts
  <1>4. /\ Cached' = Cached \cup {q} /\ entry'[q] = e
        /\ \A c \in Cached : c # q => entry'[c] = entry[c]
    BY <1>2 DEF Cached
  <1>5. \A c \in Cached' : /\ c \in Queries /\ entry'[c] \in Entry
                           /\ EntryFits(c, entry'[c]) /\ EntryRows(c, entry'[c]) /\ Within(c)
    BY <1>0, <1>3, <1>4, CachedFacts DEF PageInv
  <1>6. entry' \in [Cached' -> Entry]
    <2>1. entry' = [c \in Cached' |-> entry'[c]]
      BY <1>2, <1>4
    <2> QED
      BY <1>5, <2>1
  <1>7. \A c \in Cached' : entry'[c].data.rows \subseteq 1 .. size[c.list]
    BY <1>5 DEF EntryFits, Fits, All
  <1>8. ConsoleTypeOK'
    <2>1. view' \in Cached' /\ Cached' \subseteq Queries
      BY <1>1, <1>4, <1>5
    <2> QED
      BY <1>0, <1>1, <1>5, <1>7, <2>1 DEF ConsoleTypeOK, Reported
  <1>9. DbOK'
    BY <1>0, <1>1 DEF DbOK
  <1>10. EntriesFit'
    <2>1. \A c \in Cached' : EntryFits(c, entry[c])'
      BY <1>1, <1>5, Frozen DEF EntryFits
    <2> QED
      BY <1>6, <2>1 DEF EntriesFit
  <1>11. MutationOK'
    BY <1>0, <1>1 DEF MutationOK, OneOK, Committed, All
  <1>12. ReportInv'
    BY <1>1 DEF ReportInv, ReportOK, EntryShows, Shows
  <1>13. PageInv'
    <2>1. \A c \in Cached' : Within(c)'
      BY <1>1, <1>5, Frozen
    <2>2. \A c \in Cached' : EntryRows(c, entry[c])'
      BY <1>5 DEF EntryRows, Later, Stays
    <2> QED
      BY <1>1, <2>1, <2>2 DEF PageInv
  <1> QED
    BY <1>8, <1>9, <1>10, <1>11, <1>12, <1>13 DEF ConsoleInv, BaseInv

\* A list is opened, and a filter starts, at page 1.
LEMMA OpenKeeps ==
    ASSUME ConsoleInv,
           \/ \E l \in Lists : OpenList(l)
           \/ \E f \in Filters[view.list] : SetFilter(f)
    PROVE  ConsoleInv'
  <1>0. view \in Queries /\ view.list \in Lists
    <2>1. view \in Queries
      BY DEF ConsoleInv, BaseInv, ConsoleTypeOK
    <2> QED
      BY <2>1, QueryFacts
  <1>1. ASSUME NEW l \in Lists, OpenList(l) PROVE ConsoleInv'
    <2>1. Start(l) \in Queries /\ Start(l).page = 1
      BY ConsoleAssumption DEF Start, Queries, FilterNames
    <2>2. Within(Start(l))
      BY <2>1 DEF Within, Later
    <2> QED
      BY <1>1, <2>1, <2>2, GoKeeps DEF OpenList
  <1>2. ASSUME NEW f \in Filters[view.list], SetFilter(f) PROVE ConsoleInv'
    <2> DEFINE q == [Start(view.list) EXCEPT !.filter = f]
    <2>1. f \in FilterNames
      BY <1>0, ConsoleAssumption
    <2>2. q = [list |-> view.list, filter |-> f, page |-> 1]
      BY DEF Start
    <2>3. q \in Queries /\ q.page = 1
      BY <1>0, <2>1, <2>2 DEF Queries
    <2>4. Within(q)
      BY <2>3 DEF Within, Later
    <2>5. Go(q, FALSE)
      BY <1>2 DEF SetFilter
    <2> HIDE DEF q
    <2> QED
      BY <2>3, <2>4, <2>5, GoKeeps
  <1> QED
    BY <1>1, <1>2

\* Pages of one list and filter select from the same rows.
LEMMA SameWhere ==
    ASSUME NEW q, NEW r, q.list = r.list, q.filter = r.filter
    PROVE  Where(q) = Where(r)
  BY DEF Where

\* A total that was read is the list's, so that the next page is among its rows.
LEMMA NextPageKeeps ==
    ASSUME ConsoleInv, NextPage
    PROVE  ConsoleInv'
  <1> DEFINE q == [view EXCEPT !.page = @ + 1]
             p == view.page
             t == Screen.total
  <1>0. ConsoleTypeOK /\ DbOK /\ EntriesFit /\ PageInv
    BY DEF ConsoleInv, BaseInv
  <1>1. /\ view \in Queries /\ view \in Cached /\ entry[view] \in Entry
        /\ EntryFits(view, entry[view])
    BY <1>0, CachedFacts DEF ConsoleTypeOK
  <1>2. view.list \in Lists /\ p \in Nat \ {0}
    BY <1>1, QueryFacts
  <1>3. t \in Nat /\ t <= size[view.list] /\ (Stays(view) => t <= Cardinality(Where(view)))
    BY <1>1, EntryFacts DEF Screen, EntryFits, Fits, Data
  <1>4. p * PageSize < t
    BY DEF NextPage, NextEnabled
  <1>5. p + 1 <= MaxRow(view.list)
    <2>1. PageSize \in Nat \ {0} /\ MaxRow(view.list) \in Nat
          /\ size[view.list] \in Nat /\ size[view.list] <= MaxRow(view.list)
      BY <1>0, <1>2, ConsoleAssumption, DbFacts
    <2>2. p <= p * PageSize
      <3> HIDE DEF p
      <3> QED
        BY <1>2, <2>1
    <2>3. p * PageSize \in Nat
      BY <1>2, <2>1
    <2> QED
      BY <1>2, <1>3, <1>4, <2>1, <2>2, <2>3
  <1>6. /\ q = [list |-> view.list, filter |-> view.filter, page |-> p + 1]
        /\ q.list = view.list /\ q.filter = view.filter /\ q.page = p + 1
    BY <1>1, QueryFacts
  <1>7. q \in Queries /\ q.page # 1 /\ q.page - 1 = p
    BY <1>1, <1>2, <1>5, <1>6 DEF Queries
  <1>8. Go(q, TRUE)
    BY DEF NextPage
  <1>9. Within(q)
    <2> HIDE DEF q, p, t
    <2>1. Where(q) = Where(view) /\ (Later(q) => Stays(view))
      BY <1>6, SameWhere DEF Later, Stays
    <2>2. Cardinality(Where(view)) \in Nat /\ PageSize \in Nat
      BY <1>0, <1>1, WhereFacts, ConsoleAssumption
    <2>3. p * PageSize \in Nat
      BY <1>2, <2>2
    <2> QED
      BY <1>3, <1>4, <1>7, <2>1, <2>2, <2>3 DEF Within
  <1> HIDE DEF q
  <1> QED
    BY <1>7, <1>8, <1>9, GoKeeps

\* The page before a page within the rows is within them.
LEMMA PrevPageKeeps ==
    ASSUME ConsoleInv, PrevPage
    PROVE  ConsoleInv'
  <1> DEFINE q == [view EXCEPT !.page = @ - 1]
             p == view.page
  <1>0. ConsoleTypeOK /\ DbOK /\ EntriesFit /\ PageInv
    BY DEF ConsoleInv, BaseInv
  <1>1. view \in Queries /\ view \in Cached
    BY <1>0 DEF ConsoleTypeOK
  <1>2. /\ view.list \in Lists /\ p \in Nat \ {0} /\ p > 1
        /\ (p = 1 \/ p <= MaxRow(view.list)) /\ MaxRow(view.list) \in Nat
    <2>1. p > 1
      BY DEF PrevPage, PrevEnabled
    <2> QED
      BY <1>0, <1>1, <2>1, QueryFacts, DbFacts
  <1>3. /\ q = [list |-> view.list, filter |-> view.filter, page |-> p - 1]
        /\ q.list = view.list /\ q.filter = view.filter /\ q.page = p - 1
    BY <1>1, QueryFacts
  <1>4. q \in Queries
    BY <1>1, <1>2, <1>3 DEF Queries
  <1>5. Go(q, FALSE)
    BY DEF PrevPage
  <1>6. Within(q)
    <2>1. Within(view)
      BY <1>0, <1>1 DEF PageInv
    <2> HIDE DEF q, p
    <2>2. Where(q) = Where(view) /\ (Later(q) => Stays(view))
      BY <1>3, SameWhere DEF Later, Stays
    <2>3. Cardinality(Where(view)) \in Nat /\ PageSize \in Nat
      BY <1>0, <1>1, WhereFacts, ConsoleAssumption
    <2>4. /\ (p - 1) * PageSize = (p - 2) * PageSize + PageSize
          /\ (p - 1) * PageSize \in Int /\ (p - 2) * PageSize \in Int
      BY <1>2, <2>3
    <2>5. Later(q) => (p - 1) * PageSize < Cardinality(Where(view))
      BY <1>2, <2>1, <2>2 DEF Within, Later, p
    <2>6. q.page - 1 = p - 2
      BY <1>2, <1>3
    <2> QED
      BY <2>2, <2>3, <2>4, <2>5, <2>6 DEF Within
  <1> HIDE DEF q
  <1> QED
    BY <1>4, <1>5, <1>6, GoKeeps

\* An entry that is dropped is not the one on the screen.
LEMMA CollectKeeps ==
    ASSUME ConsoleInv, NEW q \in Cached, Collect(q)
    PROVE  ConsoleInv'
  <1>0. ConsoleTypeOK /\ DbOK /\ EntriesFit /\ MutationOK /\ ReportInv /\ PageInv
    BY DEF ConsoleInv, BaseInv
  <1>1. /\ size' = size /\ revoked' = revoked /\ taken' = taken /\ UNCHANGED dbVars
        /\ view' = view /\ mut' = mut /\ sent' = sent /\ byNext' = byNext /\ told' = told
    BY DEF Collect, dbVars
  <1>2. /\ entry' = [c \in Cached \ {q} |-> entry[c]] /\ q # view
    BY DEF Collect, Restrict
  <1>3. /\ Cached' = Cached \ {q} /\ \A c \in Cached' : entry'[c] = entry[c]
        /\ view \in Cached'
    BY <1>0, <1>2 DEF Cached, ConsoleTypeOK
  <1>4. \A c \in Cached' : /\ c \in Cached /\ c \in Queries /\ entry'[c] \in Entry
                           /\ EntryFits(c, entry'[c])
                           /\ EntryRows(c, entry'[c]) /\ Within(c)
    BY <1>0, <1>3, CachedFacts DEF PageInv
  <1>5. entry' \in [Cached' -> Entry]
    BY <1>2, <1>3, <1>4
  <1>6. ConsoleTypeOK'
    BY <1>0, <1>1, <1>3, <1>4 DEF ConsoleTypeOK
  <1>7. DbOK' /\ MutationOK'
    BY <1>0, <1>1 DEF DbOK, MutationOK, OneOK, Committed, All
  <1>8. EntriesFit'
    <2>1. \A c \in Cached' : EntryFits(c, entry[c])'
      BY <1>1, <1>4, Frozen DEF EntryFits
    <2> QED
      BY <1>5, <2>1 DEF EntriesFit
  <1>9. ReportInv'
    <2>1. ReportOK'
      BY <1>0, <1>1 DEF ReportInv, ReportOK, Committed, All
    <2>2. EntryShows(entry[view])'
      BY <1>0, <1>1, <1>3 DEF ReportInv, EntryShows, Shows
    <2> QED
      BY <2>1, <2>2 DEF ReportInv
  <1>10. PageInv'
    <2>1. \A c \in Cached' : Within(c)'
      BY <1>1, <1>4, Frozen
    <2>2. \A c \in Cached' : EntryRows(c, entry[c])'
      BY <1>4 DEF EntryRows, Later, Stays
    <2> QED
      BY <1>0, <1>1, <2>1, <2>2 DEF PageInv
  <1> QED
    BY <1>6, <1>7, <1>8, <1>9, <1>10 DEF ConsoleInv, BaseInv

-----------------------------------------------------------------------------
(* Revocations and issues                                                  *)

\* What is sent, or given up, changes neither the database nor the cache.
LEMMA MutationKeeps ==
    ASSUME ConsoleInv, UNCHANGED <<dbVars, view, entry, byNext, told>>,
           sent' \in 0 .. MaxSent, MutationOK', mut' \in [Mutations -> Mutation]
    PROVE  ConsoleInv'
  <1>0. ConsoleTypeOK /\ DbOK /\ EntriesFit /\ ReportInv /\ PageInv
    BY DEF ConsoleInv, BaseInv
  <1>1. /\ size' = size /\ revoked' = revoked /\ taken' = taken
        /\ view' = view /\ entry' = entry /\ byNext' = byNext /\ told' = told
        /\ Cached' = Cached
    BY DEF dbVars, Cached
  <1>2. ConsoleTypeOK'
    BY <1>0, <1>1 DEF ConsoleTypeOK
  <1>3. DbOK'
    BY <1>0, <1>1 DEF DbOK
  <1>4. \A q \in Cached : (Within(q) => Within(q)') /\ EntryFits(q, entry[q])'
    BY <1>0, <1>1, CachedFacts, Frozen DEF EntryFits
  <1>5. EntriesFit'
    BY <1>0, <1>1, <1>4 DEF EntriesFit
  <1>6. ReportInv'
    BY <1>0, <1>1 DEF ReportInv, ReportOK, Committed, All, EntryShows, Shows
  <1>7. PageInv'
    <2>1. \A q \in Cached : EntryRows(q, entry[q])'
      BY <1>0, <1>1 DEF PageInv, EntryRows, Later, Stays
    <2> QED
      BY <1>0, <1>1, <1>4, <2>1 DEF PageInv
  <1> QED
    BY <1>2, <1>3, <1>5, <1>6, <1>7 DEF ConsoleInv, BaseInv

\* One mutation gets another state.
LEMMA OneMutation ==
    ASSUME ConsoleTypeOK, NEW k \in Mutations, NEW m \in Mutation, mut' = [mut EXCEPT ![k] = m]
    PROVE  /\ mut' \in [Mutations -> Mutation] /\ mut'[k] = m
           /\ \A j \in Mutations : j # k => mut'[j] = mut[j]
  BY DEF ConsoleTypeOK

\* The others stay right while the database is left alone.
LEMMA OthersRight ==
    ASSUME ConsoleTypeOK, MutationOK, UNCHANGED dbVars, NEW k \in Mutations, NEW m \in Mutation,
           mut' = [mut EXCEPT ![k] = m], OneOK(m)
    PROVE  MutationOK'
  <1>1. mut'[k] = m /\ \A j \in Mutations : j # k => mut'[j] = mut[j]
    BY OneMutation
  <1> QED
    BY <1>1 DEF MutationOK, OneOK, Committed, All, dbVars

\* None is a mutation of no state to keep.
LEMMA NoneOK == NoMutation \in Mutation /\ OneOK(NoMutation)
  BY DEF NoMutation, Mutation, Revocable, OneOK

\* What is sent is the next of the mutations.
LEMMA SendPuts ==
    ASSUME ConsoleInv, NEW m \in Mutation, OneOK(m), Send(m)
    PROVE  ConsoleInv'
  <1>0. ConsoleTypeOK /\ MutationOK
    BY DEF ConsoleInv, BaseInv
  <1>1. /\ UNCHANGED <<dbVars, view, entry, byNext, told>>
        /\ sent' = sent + 1 /\ mut' = [mut EXCEPT ![sent + 1] = m] /\ sent < MaxSent
    BY DEF Send
  <1>2. sent' \in 0 .. MaxSent /\ sent + 1 \in Mutations
    BY <1>0, <1>1, ConsoleAssumption DEF ConsoleTypeOK, Mutations
  <1>3. mut' \in [Mutations -> Mutation] /\ MutationOK'
    BY <1>0, <1>1, <1>2, OneMutation, OthersRight
  <1> QED
    BY <1>1, <1>2, <1>3, MutationKeeps

\* A revocation is of a row on the screen, so of one of the list.
LEMMA SendKeeps ==
    ASSUME ConsoleInv, (\E i \in Screen.rows : ClickRevoke(i)) \/ SubmitIssue
    PROVE  ConsoleInv'
  <1>0. ConsoleTypeOK /\ DbOK /\ EntriesFit
    BY DEF ConsoleInv, BaseInv
  <1>1. ASSUME NEW i \in Screen.rows, ClickRevoke(i) PROVE ConsoleInv'
    <2> DEFINE m == [at |-> "sent", op |-> "revoke", list |-> view.list, id |-> i]
    <2>1. view.list \in Revocable /\ view.list \in Lists /\ view \in Cached
      BY <1>0, <1>1 DEF ClickRevoke, Revocable, Lists, ConsoleTypeOK
    <2>2. i \in All(view.list) /\ i \in Ids
      <3>1. Screen.rows \subseteq All(view.list)
        BY <1>0, <2>1, CachedFacts DEF Screen, EntryFits, Fits
      <3>2. All(view.list) \subseteq Ids
        BY <1>0, <2>1, DbFacts
      <3> QED
        BY <3>1, <3>2
    <2>3. m \in Mutation /\ OneOK(m)
      BY <2>1, <2>2 DEF Mutation, OneOK
    <2>4. Send(m)
      BY <1>1 DEF ClickRevoke
    <2> HIDE DEF m
    <2> QED
      BY <2>3, <2>4, SendPuts
  <1>2. ASSUME SubmitIssue PROVE ConsoleInv'
    <2> DEFINE m == Issue("sent", 0)
    <2>1. m \in Mutation /\ OneOK(m)
      BY DEF Issue, Mutation, Revocable, OneOK
    <2>2. Send(m)
      BY <1>2 DEF SubmitIssue
    <2> HIDE DEF m
    <2> QED
      BY <2>1, <2>2, SendPuts
  <1> QED
    BY <1>1, <1>2

\* A request or an answer is lost.
LEMMA MutationFailsKeeps ==
    ASSUME ConsoleInv, NEW k \in Mutations, MutationFails(k)
    PROVE  ConsoleInv'
  <1>0. ConsoleTypeOK /\ MutationOK
    BY DEF ConsoleInv, BaseInv
  <1>1. /\ UNCHANGED <<dbVars, view, entry, byNext, told>> /\ sent' = sent
        /\ mut' = [mut EXCEPT ![k] = NoMutation]
    BY DEF MutationFails
  <1>2. sent' \in 0 .. MaxSent
    BY <1>0, <1>1 DEF ConsoleTypeOK
  <1>3. mut' \in [Mutations -> Mutation] /\ MutationOK'
    BY <1>0, <1>1, NoneOK, OneMutation, OthersRight
  <1> QED
    BY <1>1, <1>2, <1>3, MutationKeeps

\* What is invalidated keeps its data, and its fetch or a new one.
LEMMA InvalidFacts ==
    ASSUME ConsoleInv, NEW q \in Cached
    PROVE  /\ Invalid(q) \in Entry /\ EntryFits(q, Invalid(q)) /\ EntryRows(q, Invalid(q))
           /\ Invalid(q).invalid = TRUE /\ Invalid(q).data = entry[q].data
           /\ Invalid(q).fetch = NewFetch \/ (Invalid(q).fetch = entry[q].fetch
                                              /\ (q # view \/ ~entry[q].data.has))
  <1> DEFINE e == entry[q]
             k == [e EXCEPT !.invalid = TRUE]
             n == [e EXCEPT !.invalid = TRUE, !.fetch = NewFetch]
  <1>0. ConsoleTypeOK /\ DbOK /\ EntriesFit /\ PageInv
    BY DEF ConsoleInv, BaseInv
  <1>1. q \in Queries /\ e \in Entry /\ EntryFits(q, e) /\ EntryRows(q, e)
    BY <1>0, CachedFacts DEF PageInv
  <1>2. NewFetch \in Fetch /\ Fits(NewFetch.got, q) /\ "items" \in NewFetch.due
    BY <1>0, <1>1, NoDataFacts DEF Statements
  <1>3. Invalid(q) = IF q # view \/ (e.fetch.on /\ ~e.data.has) THEN k ELSE n
    BY DEF Invalid, KeepsFetch
  <1> HIDE DEF e
  <1>4. k \in Entry /\ k.invalid = TRUE /\ k.data = e.data /\ k.fetch = e.fetch
    BY <1>1 DEF Entry
  <1>5. n \in Entry /\ n.invalid = TRUE /\ n.data = e.data /\ n.fetch = NewFetch
    BY <1>1, <1>2 DEF Entry
  <1> HIDE DEF k, n
  <1>6. EntryFits(q, k) /\ EntryRows(q, k) /\ EntryFits(q, n) /\ EntryRows(q, n)
    BY <1>1, <1>2, <1>4, <1>5 DEF EntryFits, EntryRows
  <1>7. CASE q # view \/ (e.fetch.on /\ ~e.data.has)
    BY <1>3, <1>4, <1>6, <1>7 DEF e
  <1>8. CASE ~(q # view \/ (e.fetch.on /\ ~e.data.has))
    BY <1>3, <1>5, <1>6, <1>8 DEF e
  <1> QED
    BY <1>7, <1>8

\* What is reported has been committed, and the page it is reported on is read
\* anew.
LEMMA MutationDoneKeeps ==
    ASSUME ConsoleInv, NEW k \in Mutations, MutationDone(k)
    PROVE  ConsoleInv'
  <1> DEFINE list == mut[k].list
             m == [op |-> mut[k].op, id |-> mut[k].id]
  <1>0. ConsoleTypeOK /\ DbOK /\ EntriesFit /\ MutationOK /\ ReportInv /\ PageInv
    BY DEF ConsoleInv, BaseInv
  <1>1. /\ size' = size /\ revoked' = revoked /\ taken' = taken /\ UNCHANGED dbVars
        /\ view' = view /\ sent' = sent /\ byNext' = byNext
    BY DEF MutationDone, dbVars
  <1>2. /\ entry' = [q \in Cached |-> IF q.list = list THEN Invalid(q) ELSE entry[q]]
        /\ told' = IF view.list = list /\ Screen.has THEN told \cup {m} ELSE told
        /\ mut[k].at = "answered"
    BY DEF MutationDone, Invalidates
  <1>3. /\ Cached' = Cached /\ view \in Cached
        /\ \A q \in Cached : entry'[q] = IF q.list = list THEN Invalid(q) ELSE entry[q]
    BY <1>0, <1>2 DEF Cached, ConsoleTypeOK
  <1>4. \A q \in Cached : /\ q \in Queries /\ entry'[q] \in Entry /\ EntryFits(q, entry'[q])
                          /\ EntryRows(q, entry'[q]) /\ Within(q)
    BY <1>0, <1>3, InvalidFacts, CachedFacts DEF PageInv
  <1>5. entry' \in [Cached -> Entry]
    <2>1. entry' = [q \in Cached |-> entry'[q]]
      BY <1>2, <1>3
    <2> QED
      BY <1>4, <2>1
  <1>6. \A q \in Cached : entry'[q].data.rows \subseteq 1 .. size[q.list]
    BY <1>4 DEF EntryFits, Fits, All
  <1>7. Committed(m.op, list, m.id) /\ m.op \in {"revoke", "issue"} /\ list \in Lists
    BY <1>0, <1>2 DEF MutationOK, OneOK, ConsoleTypeOK, Mutation, Revocable, Lists
  <1>8. m \in Reported
    <2>1. m.id \in All(list) /\ All(list) \subseteq Ids
      BY <1>0, <1>7, DbFacts DEF Committed
    <2> QED
      BY <1>7, <2>1 DEF Reported
  <1>9. mut' = [mut EXCEPT ![k] = NoMutation]
    BY DEF MutationDone
  <1>10. told' \subseteq Reported
    BY <1>0, <1>2, <1>8 DEF ConsoleTypeOK
  <1>11. ConsoleTypeOK'
    <2>1. mut' \in [Mutations -> Mutation]
      BY <1>0, <1>9, NoneOK, OneMutation
    <2> QED
      BY <1>0, <1>1, <1>3, <1>4, <1>6, <1>10, <2>1 DEF ConsoleTypeOK
  <1>12. DbOK'
    BY <1>0, <1>1 DEF DbOK
  <1>13. MutationOK'
    BY <1>0, <1>1, <1>9, NoneOK, OthersRight
  <1>14. EntriesFit'
    <2>1. \A q \in Cached : EntryFits(q, entry[q])'
      BY <1>1, <1>4, Frozen DEF EntryFits
    <2> QED
      BY <1>3, <1>5, <2>1 DEF EntriesFit
  <1>15. ReportInv'
    <2>1. \A n \in told' : Committed(n.op, view.list, n.id)
      BY <1>0, <1>2, <1>7 DEF ReportInv, ReportOK
    <2>2. ReportOK'
      BY <1>1, <2>1 DEF ReportOK, Committed, All
    <2>3. EntryShows(entry[view])'
      <3> DEFINE e == entry[view]
                 n == entry'[view]
      <3>1. NewFetch.due = Statements
        BY DEF NewFetch
      <3>2. CASE view.list = list
        <4>1. /\ n.invalid = TRUE
              /\ n.fetch = NewFetch \/ (n.fetch = e.fetch /\ ~e.data.has)
          BY <1>3, <3>2, InvalidFacts
        <4>2. CASE n.fetch = NewFetch
          BY <1>1, <3>1, <4>1, <4>2 DEF EntryShows, Statements
        <4>3. CASE n.fetch = e.fetch /\ ~e.data.has
          <5>1. told' = told
            BY <1>2, <4>3 DEF Screen
          <5> QED
            BY <1>0, <1>1, <4>1, <4>3, <5>1 DEF ReportInv, EntryShows, Shows
        <4> QED
          BY <4>1, <4>2, <4>3
      <3>3. CASE view.list # list
        <4>1. told' = told /\ n = e
          BY <1>2, <1>3, <3>3
        <4> QED
          BY <1>0, <1>1, <4>1 DEF ReportInv, EntryShows, Shows
      <3> QED
        BY <3>2, <3>3
    <2> QED
      BY <2>2, <2>3 DEF ReportInv
  <1>16. PageInv'
    <2>1. \A q \in Cached : Within(q)'
      BY <1>1, <1>4, Frozen
    <2>2. \A q \in Cached : EntryRows(q, entry[q])'
      BY <1>4 DEF EntryRows, Later, Stays
    <2> QED
      BY <1>0, <1>1, <1>3, <2>1, <2>2 DEF PageInv
  <1> QED
    BY <1>11, <1>12, <1>13, <1>14, <1>15, <1>16 DEF ConsoleInv, BaseInv

-----------------------------------------------------------------------------
(* Rows that come and are revoked                                          *)

\* A database that grows takes nothing back of what was read and reported.
LEMMA GrowthKeeps ==
    ASSUME ConsoleInv, DbOK', DbGrows, MutationOK',
           \A l \in Lists : size'[l] \in Rows[l] .. MaxRow(l) /\ revoked'[l] \subseteq 1 .. size'[l],
           taken' \subseteq 1 .. size'["codes"],
           UNCHANGED <<view, entry, sent, byNext, told>>, mut' \in [Mutations -> Mutation]
    PROVE  ConsoleInv'
  <1>0. ConsoleTypeOK /\ DbOK /\ EntriesFit /\ ReportInv /\ PageInv
    BY DEF ConsoleInv, BaseInv
  <1>1. /\ view' = view /\ entry' = entry /\ sent' = sent /\ byNext' = byNext /\ told' = told
        /\ Cached' = Cached
    BY DEF Cached
  <1>2. \A q \in Cached : /\ q \in Queries /\ q.list \in Lists /\ EntryFits(q, entry[q])
                          /\ entry[q].data \in Data /\ entry[q].fetch.got \in Data
    BY <1>0, CachedFacts, QueryFacts, EntryFacts
  <1>3. \A l \in Lists : /\ size[l] \in Nat /\ size'[l] \in Nat /\ size[l] <= size'[l]
                         /\ All(l) \subseteq All(l)' /\ revoked[l] \subseteq revoked'[l]
    <2> TAKE l \in Lists
    <2>1. size[l] \in Nat /\ size'[l] \in Nat /\ size[l] <= size'[l]
      BY <1>0, DbFacts DEF DbGrows, DbOK
    <2> QED
      BY <2>1 DEF All, DbGrows
  <1>4. ConsoleTypeOK'
    <2>1. \A q \in Cached : entry'[q] \in Entry /\ entry'[q].data.rows \subseteq 1 .. size'[q.list]
      <3> TAKE q \in Cached
      <3>1. entry[q].data.rows \subseteq All(q.list) /\ entry[q] \in Entry
        BY <1>2 DEF EntryFits, Fits
      <3>2. All(q.list) \subseteq All(q.list)'
        BY <1>2, <1>3
      <3> QED
        BY <1>1, <3>1, <3>2 DEF All
    <2> QED
      BY <1>0, <1>1, <2>1 DEF ConsoleTypeOK
  <1>5. \A q \in Cached : EntryFits(q, entry[q])'
    <2> TAKE q \in Cached
    <2>1. q \in Queries /\ Fits(entry[q].data, q) /\ Fits(entry[q].fetch.got, q) /\ entry[q] \in Entry
      BY <1>2 DEF EntryFits
    <2>2. \A d \in Data : Fits(d, q) => Fits(d, q)'
      BY <1>0, <1>4, <2>1, Growth
    <2> QED
      BY <1>1, <1>2, <2>1, <2>2 DEF EntryFits
  <1>6. EntriesFit'
    BY <1>0, <1>1, <1>5 DEF EntriesFit
  <1>7. ReportInv'
    <2>1. view.list \in Lists
      BY <1>0, <1>2 DEF ConsoleTypeOK
    <2>2. \A op, i : Committed(op, view.list, i) => Committed(op, view.list, i)'
      BY <1>3, <2>1 DEF Committed
    <2>3. ReportOK'
      BY <1>0, <1>1, <2>2 DEF ReportInv, ReportOK
    <2> QED
      BY <1>0, <1>1, <2>3 DEF ReportInv, EntryShows, Shows
  <1>8. PageInv'
    <2>1. \A q \in Cached : Within(q)'
      <3> SUFFICES ASSUME NEW q \in Cached, Later(q)
                   PROVE  (q.page - 1) * PageSize < Cardinality(Where(q)')
        BY DEF Within, Later, Stays
      <3>1. q \in Queries /\ Stays(q) /\ (q.page - 1) * PageSize < Cardinality(Where(q))
        BY <1>0, <1>2 DEF PageInv, Within, Later
      <3>2. Cardinality(Where(q)) <= Cardinality(Where(q)')
        BY <1>0, <1>4, <3>1, Growth
      <3>3. Cardinality(Where(q)) \in Nat
        BY <1>0, <3>1, WhereFacts
      <3>4. Cardinality(Where(q)') \in Nat
        <4>1. ConsoleTypeOK' /\ DbOK' => SelectsOK'
          BY Selects, PTL
        <4> QED
          BY <1>4, <3>1, <4>1 DEF SelectsOK
      <3>5. (q.page - 1) * PageSize \in Int
        BY <3>1, QueryFacts, ConsoleAssumption
      <3> QED
        BY <3>1, <3>2, <3>3, <3>4, <3>5
    <2>2. \A q \in Cached : EntryRows(q, entry[q])'
      BY <1>0, <1>1 DEF PageInv, EntryRows, Later, Stays
    <2> QED
      BY <1>0, <1>1, <2>1, <2>2 DEF PageInv
  <1> QED
    BY <1>4, <1>6, <1>7, <1>8 DEF ConsoleInv, BaseInv

\* A row that may come is within the bound of its list.
LEMMA RoomForOne ==
    ASSUME ConsoleTypeOK, DbOK, MayInsert, NEW l \in Lists
    PROVE  size[l] + 1 \in Rows[l] .. MaxRow(l)
  <1>1. \A k \in {"codes", "licenses", "logs"} :
          size[k] \in Nat /\ Rows[k] \in Nat /\ Rows[k] <= size[k]
    BY DbFacts DEF Lists
  <1>2. MaxInserts \in Nat
    BY ConsoleAssumption
  <1>3. l \in {"codes", "licenses", "logs"}
    BY DEF Lists
  <1>4. /\ size["codes"] + size["licenses"] + size["logs"]
             < Rows["codes"] + Rows["licenses"] + Rows["logs"] + MaxInserts
    BY DEF MayInsert, AllRows
  <1>5. size[l] + 1 <= Rows[l] + MaxInserts
    BY <1>1, <1>2, <1>3, <1>4
  <1> QED
    BY <1>1, <1>2, <1>3, <1>5 DEF MaxRow

\* A row more.
LEMMA OneRowMore ==
    ASSUME ConsoleTypeOK, DbOK, MayInsert, NEW l \in Lists,
           l = "licenses" => size[l] < size["codes"],
           size' = [size EXCEPT ![l] = @ + 1], UNCHANGED revoked
    PROVE  /\ DbOK' /\ DbGrows
           /\ \A k \in Lists : size'[k] \in Rows[k] .. MaxRow(k) /\ revoked'[k] \subseteq 1 .. size'[k]
           /\ size'[l] = size[l] + 1
  <1>0. size \in [Lists -> Nat] /\ revoked \in [Lists -> SUBSET Ids] /\ size["licenses"] <= size["codes"]
    BY DEF DbOK
  <1>1. /\ \A k \in Lists : size[k] \in Nat /\ size'[k] \in Nat
        /\ size'[l] = size[l] + 1 /\ \A k \in Lists : k # l => size'[k] = size[k]
    BY <1>0
  <1>2. "licenses" \in Lists /\ "codes" \in Lists
    BY DEF Lists
  <1>3. size' \in [Lists -> Nat] /\ revoked' \in [Lists -> SUBSET Ids]
    BY <1>0
  <1>4. size'["licenses"] <= size'["codes"]
    <2>1. CASE l = "licenses"
      BY <1>0, <1>1, <1>2, <2>1
    <2>2. CASE l # "licenses"
      BY <1>0, <1>1, <1>2, <2>2
    <2> QED
      BY <2>1, <2>2
  <1>5. \A k \in Lists : size[k] <= size'[k]
    BY <1>1
  <1>6. ASSUME NEW k \in Lists
        PROVE  size'[k] \in Rows[k] .. MaxRow(k) /\ revoked'[k] \subseteq 1 .. size'[k]
    <2>1. size'[k] \in Rows[k] .. MaxRow(k)
      BY <1>1, RoomForOne DEF ConsoleTypeOK
    <2>2. revoked[k] \subseteq 1 .. size[k]
      BY DEF ConsoleTypeOK
    <2>3. 1 .. size[k] \subseteq 1 .. size'[k]
      BY <1>1, <1>5
    <2> QED
      BY <2>1, <2>2, <2>3
  <1> QED
    BY <1>1, <1>3, <1>4, <1>5, <1>6 DEF DbOK, DbGrows

\* What the mutations under way are of stays so in a database that grows.
LEMMA MutationOKGrows ==
    ASSUME ConsoleInv, DbOK', DbGrows,
           \A k \in Mutations : mut'[k] = mut[k] \/ OneOK(mut[k])'
    PROVE  MutationOK'
  <1>0. ConsoleTypeOK /\ DbOK /\ MutationOK
    BY DEF ConsoleInv, BaseInv
  <1>1. \A l \in Lists : All(l) \subseteq All(l)' /\ revoked[l] \subseteq revoked'[l]
    <2> TAKE l \in Lists
    <2>1. size[l] \in Nat /\ size'[l] \in Nat /\ size[l] <= size'[l]
      BY <1>0, DbFacts DEF DbGrows, DbOK
    <2> QED
      BY <2>1 DEF All, DbGrows
  <1>2. ASSUME NEW k \in Mutations, mut'[k] = mut[k] PROVE OneOK(mut[k])'
    <2>1. mut[k].list \in Lists /\ "codes" \in Lists
      BY <1>0 DEF ConsoleTypeOK, Mutation, Revocable, Lists
    <2>2. OneOK(mut[k])
      BY <1>0 DEF MutationOK
    <2> QED
      BY <1>1, <1>2, <2>1, <2>2 DEF OneOK, Committed
  <1> QED
    BY <1>2 DEF MutationOK

\* A row comes, and takes a slot if it is a license.
LEMMA InsertKeeps ==
    ASSUME ConsoleInv, NEW l \in Lists, Insert(l)
    PROVE  ConsoleInv'
  <1>0. ConsoleTypeOK /\ DbOK
    BY DEF ConsoleInv, BaseInv
  <1>1. /\ MayInsert /\ size' = [size EXCEPT ![l] = @ + 1] /\ revoked' = revoked /\ mut' = mut
        /\ l = "licenses" => size[l] < size["codes"]
        /\ taken' = IF l = "licenses" THEN taken \cup {size[l] + 1} ELSE taken
        /\ UNCHANGED <<view, entry, sent, byNext, told>>
    BY DEF Insert
  <1>2. /\ DbOK' /\ DbGrows
        /\ \A k \in Lists : size'[k] \in Rows[k] .. MaxRow(k) /\ revoked'[k] \subseteq 1 .. size'[k]
    BY <1>0, <1>1, OneRowMore
  <1>3. taken' \subseteq 1 .. size'["codes"]
    <2>1. "licenses" \in Lists /\ "codes" \in Lists
      BY DEF Lists
    <2>2. size["codes"] \in Nat /\ size'["codes"] \in Nat /\ size["codes"] <= size'["codes"]
          /\ size["licenses"] \in Nat
      BY <1>0, <1>2, <2>1 DEF DbOK, DbGrows
    <2>3. taken \subseteq 1 .. size["codes"]
      BY <1>0 DEF ConsoleTypeOK
    <2>4. l = "licenses" => size[l] + 1 \in 1 .. size["codes"]
      BY <1>1, <2>2
    <2>5. 1 .. size["codes"] \subseteq 1 .. size'["codes"]
      BY <2>2
    <2> QED
      BY <1>1, <2>3, <2>4, <2>5
  <1>4. MutationOK'
    BY <1>1, <1>2, MutationOKGrows
  <1>5. mut' \in [Mutations -> Mutation]
    BY <1>0, <1>1 DEF ConsoleTypeOK
  <1> QED
    BY <1>1, <1>2, <1>3, <1>4, <1>5, GrowthKeeps

\* An issued code is the newest.
LEMMA CommitIssueKeeps ==
    ASSUME ConsoleInv, NEW k \in Mutations, CommitIssue(k)
    PROVE  ConsoleInv'
  <1>0. ConsoleTypeOK /\ DbOK /\ MutationOK
    BY DEF ConsoleInv, BaseInv
  <1> DEFINE m == Issue("answered", size["codes"] + 1)
  <1>1. /\ MayInsert /\ size' = [size EXCEPT !["codes"] = @ + 1] /\ revoked' = revoked
        /\ mut[k].at = "sent" /\ mut[k].op = "issue" /\ taken' = taken
        /\ mut' = [mut EXCEPT ![k] = m]
        /\ UNCHANGED <<view, entry, sent, byNext, told>>
    BY DEF CommitIssue
  <1>2. "codes" \in Lists /\ "codes" # "licenses"
    BY DEF Lists
  <1>3. /\ DbOK' /\ DbGrows /\ size'["codes"] = size["codes"] + 1
        /\ \A l \in Lists : size'[l] \in Rows[l] .. MaxRow(l) /\ revoked'[l] \subseteq 1 .. size'[l]
    BY <1>0, <1>1, <1>2, OneRowMore
  <1>4. size["codes"] \in Nat /\ size'["codes"] \in Nat
    BY <1>2, <1>3, <1>0 DEF DbOK
  <1>5. taken' \subseteq 1 .. size'["codes"]
    <2>1. taken \subseteq 1 .. size["codes"]
      BY <1>0 DEF ConsoleTypeOK
    <2>2. 1 .. size["codes"] \subseteq 1 .. size'["codes"]
      BY <1>3, <1>4
    <2> QED
      BY <1>1, <2>1, <2>2
  <1>6. size["codes"] + 1 \in Ids
    <2>1. size["codes"] + 1 \in Rows["codes"] .. MaxRow("codes") /\ Rows["codes"] \in Nat
          /\ MaxRow("codes") \in Nat
      BY <1>0, <1>1, <1>2, RoomForOne, DbFacts
    <2>2. size["codes"] + 1 \in 1 .. MaxRow("codes")
      BY <1>4, <2>1
    <2> QED
      BY <1>2, <2>2 DEF Ids
  <1>7. m \in Mutation
    BY <1>6 DEF Issue, Mutation, Revocable
  <1>8. mut' \in [Mutations -> Mutation] /\ mut'[k] = m /\ \A j \in Mutations : j # k => mut'[j] = mut[j]
    BY <1>0, <1>1, <1>7, OneMutation
  <1>9. OneOK(mut[k])'
    BY <1>3, <1>4, <1>8 DEF Issue, OneOK, Committed, All
  <1>10. MutationOK'
    BY <1>3, <1>8, <1>9, MutationOKGrows
  <1> QED
    BY <1>1, <1>3, <1>5, <1>8, <1>10, GrowthKeeps

\* A revocation marks a row.
LEMMA CommitRevokeKeeps ==
    ASSUME ConsoleInv, NEW k \in Mutations, CommitRevoke(k)
    PROVE  ConsoleInv'
  <1>0. ConsoleTypeOK /\ DbOK /\ MutationOK
    BY DEF ConsoleInv, BaseInv
  <1> DEFINE m == mut[k]
             n == [m EXCEPT !.at = "answered"]
  <1>1. /\ m.at = "sent" /\ m.op = "revoke" /\ size' = size
        /\ revoked' = [revoked EXCEPT ![m.list] = @ \cup {m.id}]
        /\ mut' = [mut EXCEPT ![k].at = "answered"]
        /\ taken' \subseteq taken
        /\ UNCHANGED <<view, entry, sent, byNext, told>>
    BY DEF CommitRevoke
  <1>2. m \in Mutation /\ m.list \in Lists /\ m.id \in All(m.list)
    BY <1>0, <1>1 DEF ConsoleTypeOK, MutationOK, OneOK, Mutation, Revocable, Lists
  <1>3. /\ revoked'[m.list] = revoked[m.list] \cup {m.id}
        /\ \A l \in Lists : l # m.list => revoked'[l] = revoked[l]
        /\ \A l \in Lists : revoked'[l] \subseteq 1 .. size[l]
    BY <1>0, <1>1, <1>2 DEF DbOK, ConsoleTypeOK, All
  <1>4. \A l \in Lists : size[l] \in Nat /\ All(l) \subseteq Ids
    BY <1>0, DbFacts
  <1>5. DbOK'
    <2>1. revoked' \in [Lists -> SUBSET Ids]
      BY <1>0, <1>1, <1>3, <1>4 DEF DbOK, All
    <2> QED
      BY <1>0, <1>1, <2>1 DEF DbOK
  <1>6. DbGrows
    BY <1>1, <1>3, <1>4 DEF DbGrows
  <1>7. \A l \in Lists : size'[l] \in Rows[l] .. MaxRow(l) /\ revoked'[l] \subseteq 1 .. size'[l]
    BY <1>0, <1>1, <1>3 DEF ConsoleTypeOK
  <1>8. taken' \subseteq 1 .. size'["codes"]
    BY <1>0, <1>1 DEF ConsoleTypeOK
  <1>9. /\ n \in Mutation /\ mut' = [mut EXCEPT ![k] = n]
        /\ n.at = "answered" /\ n.op = "revoke" /\ n.list = m.list /\ n.id = m.id
    BY <1>0, <1>1, <1>2 DEF Mutation, ConsoleTypeOK
  <1> HIDE DEF n
  <1>10. mut' \in [Mutations -> Mutation] /\ mut'[k] = n /\ \A j \in Mutations : j # k => mut'[j] = mut[j]
    BY <1>0, <1>9, OneMutation
  <1>11. OneOK(mut[k])'
    BY <1>3, <1>9, <1>10 DEF OneOK, Committed
  <1>12. MutationOK'
    BY <1>5, <1>6, <1>10, <1>11, MutationOKGrows
  <1> QED
    BY <1>1, <1>5, <1>6, <1>7, <1>8, <1>10, <1>12, GrowthKeeps

-----------------------------------------------------------------------------
(* Every step                                                              *)

\* At first the log is on the screen and is fetched.
LEMMA InitConsole == Init => ConsoleInv
  <1> SUFFICES ASSUME Init PROVE ConsoleInv
    OBVIOUS
  <1> DEFINE v == Start("logs")
             e == [NoEntry EXCEPT !.fetch = NewFetch]
  <1>0. /\ size = Rows /\ revoked = [l \in Lists |-> {}] /\ taken = 1 .. Rows["licenses"]
        /\ view = v /\ entry = [q \in {v} |-> e] /\ sent = 0
        /\ mut = [k \in Mutations |-> NoMutation]
        /\ byNext = FALSE /\ told = {}
    BY DEF Init
  <1>1. /\ Rows \in [Lists -> Nat] /\ Rows["licenses"] <= Rows["codes"] /\ MaxInserts \in Nat
        /\ MaxSent \in Nat
    BY ConsoleAssumption
  <1>2. v \in Queries /\ v.page = 1
    BY ConsoleAssumption DEF Start, Queries, FilterNames, Lists
  <1>3. Cached = {v} /\ entry[v] = e /\ view = v
    BY <1>0 DEF Cached
  <1>5. NoData \in Data /\ ~NoData.has /\ NoData.rows = {} /\ NoData.match = {} /\ NoData.total = 0
    BY DEF NoData, Data
  <1>6. NewFetch \in Fetch /\ NewFetch.got = NoData /\ "items" \in NewFetch.due
    BY <1>5 DEF NewFetch, Fetch, Statements
  <1>4. NoEntry \in Entry /\ NoEntry.data = NoData
    <2>1. NoFetch \in Fetch
      BY <1>5 DEF NoFetch, Fetch
    <2> QED
      BY <1>5, <2>1 DEF NoEntry, Entry
  <1>7. e \in Entry /\ e.data = NoData /\ e.fetch = NewFetch
    BY <1>4, <1>6 DEF Entry
  <1> HIDE DEF e, v
  <1>8. DbOK
    BY <1>0, <1>1 DEF DbOK
  <1>9. ConsoleTypeOK
    <2>1. \A l \in Lists : size[l] \in Rows[l] .. MaxRow(l) /\ revoked[l] \subseteq 1 .. size[l]
      BY <1>0, <1>1 DEF MaxRow
    <2>2. taken \subseteq 1 .. size["codes"]
      BY <1>0, <1>1 DEF Lists
    <2>3. mut \in [Mutations -> Mutation]
      BY <1>0, NoneOK
    <2>4. Cached \subseteq Queries /\ view \in Cached
      BY <1>2, <1>3
    <2>5. \A q \in Cached : entry[q] \in Entry /\ entry[q].data.rows \subseteq 1 .. size[q.list]
      BY <1>3, <1>5, <1>7
    <2> QED
      <3>1. sent \in 0 .. MaxSent /\ told \subseteq Reported
        BY <1>0, <1>1
      <3>2. byNext \in BOOLEAN
        BY <1>0, Zenon
      <3> QED
        BY <2>1, <2>2, <2>3, <2>4, <2>5, <3>1, <3>2 DEF ConsoleTypeOK
  <1>10. EntriesFit
    <2>1. Fits(NoData, v)
      BY <1>2, <1>8, <1>9, NoDataFacts
    <2>2. EntryFits(v, e)
      BY <1>6, <1>7, <2>1 DEF EntryFits
    <2>3. entry \in [Cached -> Entry]
      BY <1>0, <1>3, <1>7
    <2> QED
      BY <1>3, <2>2, <2>3 DEF EntriesFit
  <1>11. MutationOK
    BY <1>0, NoneOK DEF MutationOK
  <1>12. ReportInv
    BY <1>0 DEF ReportInv, ReportOK, EntryShows, Shows
  <1>13. PageInv
    <2>1. ~Later(v)
      BY <1>2 DEF Later
    <2> QED
      BY <1>0, <1>3, <2>1 DEF PageInv, Within, EntryRows
  <1> QED
    BY <1>8, <1>9, <1>10, <1>11, <1>12, <1>13 DEF ConsoleInv, BaseInv

\* Every step keeps the invariant.
LEMMA NextConsole == ConsoleInv /\ [Next]_vars => ConsoleInv'
  <1> SUFFICES ASSUME ConsoleInv, [Next]_vars PROVE ConsoleInv'
    OBVIOUS
  <1>1. CASE \E l \in Lists : Insert(l)
    BY <1>1, InsertKeeps
  <1>2. CASE (\E l \in Lists : OpenList(l)) \/ \E f \in Filters[view.list] : SetFilter(f)
    BY <1>2, OpenKeeps
  <1>3. CASE NextPage
    BY <1>3, NextPageKeeps
  <1>4. CASE PrevPage
    BY <1>4, PrevPageKeeps
  <1>5. CASE Refresh
    <2>1. view \in Cached
      BY DEF ConsoleInv, BaseInv, ConsoleTypeOK
    <2> QED
      BY <1>5, <2>1, RestartKeeps DEF Refresh
  <1>6. ASSUME NEW q \in Cached,
               ReadItems(q) \/ ReadTotal(q) \/ FetchDone(q) \/ FetchFails(q) \/ Collect(q)
        PROVE  ConsoleInv'
    <2>1. CASE ReadItems(q)
      BY <2>1, ReadItemsKeeps
    <2>2. CASE ReadTotal(q)
      BY <2>2, ReadTotalKeeps
    <2>3. CASE FetchDone(q)
      BY <2>3, FetchDoneKeeps
    <2>4. CASE FetchFails(q)
      <3>1. PICK f \in {NoFetch, NewFetch} : PutFetch(q, f)
        BY <2>4 DEF FetchFails
      <3> QED
        BY <2>4, <3>1, RestartKeeps DEF FetchFails
    <2>5. CASE Collect(q)
      BY <2>5, CollectKeeps
    <2> QED
      BY <1>6, <2>1, <2>2, <2>3, <2>4, <2>5
  <1>7. CASE (\E i \in Screen.rows : ClickRevoke(i)) \/ SubmitIssue
    BY <1>7, SendKeeps
  <1>8. ASSUME NEW k \in Mutations,
               CommitRevoke(k) \/ CommitIssue(k) \/ MutationDone(k) \/ MutationFails(k)
        PROVE  ConsoleInv'
    BY <1>8, CommitRevokeKeeps, CommitIssueKeeps, MutationDoneKeeps, MutationFailsKeeps
  <1>9. CASE UNCHANGED vars
    <2>1. ConsoleTypeOK /\ MutationOK
      BY DEF ConsoleInv, BaseInv
    <2>2. UNCHANGED <<dbVars, view, entry, byNext, told>> /\ mut' = mut /\ sent' = sent
      BY <1>9 DEF vars
    <2>3. MutationOK'
      BY <2>1, <2>2 DEF MutationOK, OneOK, Committed, All, dbVars
    <2> QED
      BY <2>1, <2>2, <2>3, MutationKeeps DEF ConsoleTypeOK
  <1> QED
    BY <1>1, <1>2, <1>3, <1>4, <1>5, <1>6, <1>7, <1>8, <1>9 DEF Next

\* The invariant of the console.
THEOREM ConsoleInvariant == Spec => []ConsoleInv
  BY InitConsole, NextConsole, PTL DEF Spec

\* Whatever the filters, the rows and the page size: the page on the screen is
\* one that exists, entries hold rows of their lists, and identifiers are of
\* rows.
THEOREM ConsoleTyped == Spec => []ConsoleTypeOK
  <1>1. ConsoleInv => ConsoleTypeOK
    BY DEF ConsoleInv, BaseInv
  <1> QED
    BY <1>1, ConsoleInvariant, PTL

\* What is reported as done is seen on the page it is reported on, though a
\* fetch was under way when it was done (revoke and issue of the pages).
THEOREM ReportsAreShown == Spec => []ReportedIsShown
  <1>1. ConsoleInv => ReportedIsShown
    BY DEF ConsoleInv, ReportInv, EntryShows, Shows, ReportedIsShown, Screen
  <1> QED
    BY <1>1, ConsoleInvariant, PTL

\* Next leads to rows of a list that no row leaves (the pager of the pages).
THEOREM NextLeadsToRows == Spec => []NextShowsRows
  <1>1. ConsoleInv => NextShowsRows
    <2> SUFFICES ASSUME ConsoleInv, byNext, Screen.has, Stays(view) PROVE Screen.rows # {}
      BY DEF NextShowsRows
    <2>1. view \in Cached /\ view.page # 1
      BY DEF ConsoleInv, BaseInv, ConsoleTypeOK, PageInv
    <2> QED
      BY <2>1 DEF ConsoleInv, PageInv, EntryRows, Later, Screen
  <1> QED
    BY <1>1, ConsoleInvariant, PTL
=============================================================================
