------------------------------- MODULE Paging -------------------------------
(***************************************************************************)
(* FindingRecords of the in-memory repository, schemaless/schema.go, and   *)
(* of the typed repository over it, typedful/with_aggregator.go: lists in  *)
(* pages.  A page comes with the queries for the next page and for the one *)
(* before it, which name a record to go on from.  Each call reads the      *)
(* whole store under a lock; between two calls records are saved and       *)
(* deleted.                                                                *)
(***************************************************************************)
EXTENDS Integers, Sequences, FiniteSets, Functions

CONSTANTS
    Keys,        \* the IDs and types of records
    Values,      \* of the field of Data that lists are filtered and sorted by
    Readers,     \* goroutines that list records
    Queries,     \* the queries that lists begin with
    MaxUpdates   \* bound on the calls of UpdateRecords

NoId == 0
AnyType == ""
Absent == -1      \* not in the store

\* IDs are compared as strings: numbers stand for their order.
ASSUME KeysAssumption ==
    IsFiniteSet(Keys) /\ \A k \in Keys : k.id \in Nat \ {NoId} /\ k.type # AnyType
ASSUME ValuesAssumption == Values \subseteq Nat
ASSUME MaxUpdatesAssumption == MaxUpdates \in Nat

Ids == {k.id : k \in Keys}
Types == {k.type : k \in Keys}

\* typed: whether the typed repository is asked. sort: the field of the record.
\* wrapped: whether its name is the one that the typed repository makes for
\* the schemaless one. limit: 0 for none.
Query == [typed : BOOLEAN, type : Types \cup {AnyType}, where : SUBSET Values,
          sort : {"none", "ID", "Data"}, descending : BOOLEAN, wrapped : BOOLEAN,
          limit : Nat, after : Ids \cup {NoId}, before : Ids \cup {NoId}]
NoQuery == [limit |-> -1]

ASSUME QueriesAssumption ==
    \A q \in Queries : q \in Query /\ ~q.wrapped /\ q.after = NoId /\ q.before = NoId

VARIABLES
    store,     \* the value of each record, or Absent
    updates,   \* number of calls of UpdateRecords
    next,      \* per reader, PageResult.Next of its last page
    prev,      \* and PageResult.Prev
    items,     \* and the records of that page
    asked,     \* auxiliary, the query its list began with
    read,      \* auxiliary, how often it was given each record
    stayed,    \* auxiliary, the records that have kept their place since
    sound,     \* auxiliary, whether it only went forward, each time from a
               \* record that had kept its place, in an order without ties
    trail      \* auxiliary, its last two pages, while no record changes

vars == <<store, updates, next, prev, items, asked, read, stayed, sound, trail>>

TypeOK ==
    /\ store \in [Keys -> Values \cup {Absent}]
    /\ updates \in 0 .. MaxUpdates
    /\ next \in [Readers -> Query \cup {NoQuery}]
    /\ prev \in [Readers -> Query \cup {NoQuery}]
    /\ items \in [Readers -> SUBSET Keys]
    /\ asked \in [Readers -> Queries \cup {NoQuery}]
    /\ read \in [Readers -> [Keys -> Nat]]
    /\ stayed \in [Readers -> SUBSET Keys]
    /\ sound \in [Readers -> BOOLEAN]
    /\ trail \in [Readers -> Seq(SUBSET Keys)]

Init ==
    /\ store \in [Keys -> Values \cup {Absent}]
    /\ updates = 0
    /\ next = [c \in Readers |-> NoQuery]
    /\ prev = [c \in Readers |-> NoQuery]
    /\ items = [c \in Readers |-> {}]
    /\ asked = [c \in Readers |-> NoQuery]
    /\ read = [c \in Readers |-> [k \in Keys |-> 0]]
    /\ stayed = [c \in Readers |-> {}]
    /\ sound = [c \in Readers |-> FALSE]
    /\ trail = [c \in Readers |-> <<>>]

-----------------------------------------------------------------------------
(* Listing *)

\* The records of the store s that a query selects.
Matching(s, q) ==
    {k \in Keys : s[k] # Absent /\ s[k] \in q.where /\ q.type \in {AnyType, k.type}}

\* What records are sorted by: nothing, unless the query says so.
Field(s, q, k) == CASE q.sort = "none" -> 0 [] q.sort = "ID" -> k.id [] q.sort = "Data" -> s[k]
Rank(s, q, k) == IF q.descending THEN -Field(s, q, k) ELSE Field(s, q, k)

\* A map is ranged over in any order, and the sort is not stable.
Listings(q) ==
    LET found == Matching(store, q)
    IN  {l \in Bijection(1 .. Cardinality(found), found) :
            \A i, j \in DOMAIN l : i < j => Rank(store, q, l[i]) <= Rank(store, q, l[j])}

\* After is looked at first.
Backwards(q) == q.after = NoId /\ q.before # NoId

\* Mutation: a page begins with the record that it goes on from.
PlacesFromCursor(q, l) ==
    IF q.after # NoId
    THEN {p \in DOMAIN l : \E m \in 1 .. p : l[m].id = q.after}
    ELSE {p \in DOMAIN l : Backwards(q) => \A m \in 1 .. p - 1 : l[m].id # q.before}

\* The places of the list l behind the record of After, none when it is gone;
\* or up to and with the record of Before, all when that one is gone.
Places(q, l) ==
    IF q.after # NoId
    THEN {p \in DOMAIN l : l[p].id # q.after /\ \E m \in 1 .. p : l[m].id = q.after}
    ELSE {p \in DOMAIN l : Backwards(q) => \A m \in 1 .. p - 1 : l[m].id # q.before}

IsLimited(q, l) == q.limit > 0 /\ Cardinality(Places(q, l)) > q.limit

\* The first of these places, or the last ones when the query goes back.
Page(q, l) ==
    LET places == Places(q, l)
        beyond(p) == {m \in places : IF Backwards(q) THEN m > p ELSE m < p}
    IN  IF IsLimited(q, l) THEN {p \in places : Cardinality(beyond(p)) < q.limit} ELSE places

\* The query of a link. It loses the type, which the typed repository puts in
\* again; and there it has the field names that were wrapped in place.
Link(q, after, before) ==
    [typed |-> q.typed, type |-> IF q.typed THEN q.type ELSE AnyType, where |-> q.where,
     sort |-> q.sort, descending |-> q.descending, wrapped |-> q.typed,
     limit |-> q.limit, after |-> after, before |-> before]

Last(places) == {p \in places : \A m \in places : m <= p}
First(places) == {p \in places : \A m \in places : p <= m}

\* What PageResult.Next and PageResult.Prev may be.
NextLinks(q, l) ==
    IF Backwards(q) THEN {Link(q, q.before, NoId)}
    ELSE IF IsLimited(q, l) THEN {Link(q, l[p].id, NoId) : p \in Last(Page(q, l))}
    ELSE {NoQuery}

\* Mutation: Prev names the first record of the page also when it goes forward,
\* and not the record in front of the page.
PrevFromPage(q, l) ==
    IF Page(q, l) # {} /\ (q.after # NoId \/ (Backwards(q) /\ IsLimited(q, l)))
    THEN {Link(q, NoId, l[p].id) : p \in First(Page(q, l))}
    ELSE {NoQuery}

PrevLinks(q, l) ==
    IF q.after # NoId THEN {Link(q, NoId, q.after)}
    ELSE IF Backwards(q) /\ IsLimited(q, l)
    THEN {Link(q, NoId, l[p].id) : p \in First(Page(q, l))}
    ELSE {NoQuery}

\* Reader c is given a page of q.
FindingRecords(c, q) ==
    \E l \in Listings(q) :
        /\ items' = [items EXCEPT ![c] = {l[p] : p \in Page(q, l)}]
        /\ \E link \in NextLinks(q, l) : next' = [next EXCEPT ![c] = link]
        /\ \E link \in PrevLinks(q, l) : prev' = [prev EXCEPT ![c] = link]

-----------------------------------------------------------------------------
(* Steps *)

\* Another goroutine saves and deletes any records; versions are left out.
UpdateRecords(changed) ==
    /\ updates < MaxUpdates
    /\ changed # store
    /\ updates' = updates + 1
    /\ store' = changed
    /\ stayed' = [c \in Readers |->
          {k \in stayed[c] : /\ store'[k] # Absent /\ store'[k] \in asked[c].where
                             /\ asked[c].sort = "Data" => store'[k] = store[k]}]
    /\ trail' = [c \in Readers |-> <<>>]
    /\ UNCHANGED <<next, prev, items, asked, read, sound>>

\* No two of the records that q selects have the same ID or the same rank.
IsTotal(q) ==
    \A j, k \in Matching(store, q) :
        j # k => j.id # k.id /\ Rank(store, q, j) # Rank(store, q, k)

Count(c) ==
    read' = [read EXCEPT ![c] = [k \in Keys |-> IF k \in items'[c] THEN @[k] + 1 ELSE @[k]]]
Trail(c) ==
    trail' = [trail EXCEPT ![c] =
        IF @ = <<>> THEN <<items'[c]>> ELSE <<@[Len(@)], items'[c]>>]

\* A list begins.
List(c, q) ==
    /\ asked[c] = NoQuery
    /\ FindingRecords(c, q)
    /\ asked' = [asked EXCEPT ![c] = q]
    /\ stayed' = [stayed EXCEPT ![c] = Matching(store, Link(q, NoId, NoId))]
    /\ sound' = [sound EXCEPT ![c] = IsTotal(Link(q, NoId, NoId))]
    /\ Count(c)
    /\ Trail(c)
    /\ UNCHANGED <<store, updates>>

\* Wrapping a name that is wrapped panics: it is no field of the record's type.
\* The names of ID and Type stay as they are.
WrapPanics(q) == q.typed /\ q.wrapped /\ q.sort = "Data"

\* The reader follows Next.
GoOn(c) ==
    /\ next[c] # NoQuery
    /\ ~WrapPanics(next[c])
    /\ FindingRecords(c, next[c])
    /\ sound' = [sound EXCEPT ![c] = /\ @
                                     /\ IsTotal(next[c])
                                     /\ \E k \in stayed[c] : k.id = next[c].after]
    /\ IF sound'[c] THEN Count(c) ELSE UNCHANGED read
    /\ Trail(c)
    /\ UNCHANGED <<store, updates, asked, stayed>>

\* The reader follows Prev.
GoBack(c) ==
    /\ prev[c] # NoQuery
    /\ ~WrapPanics(prev[c])
    /\ FindingRecords(c, prev[c])
    /\ sound' = [sound EXCEPT ![c] = FALSE]
    /\ trail' = [trail EXCEPT ![c] = <<>>]
    /\ UNCHANGED <<store, updates, asked, read, stayed>>

Panic(c) ==
    /\ \E q \in {next[c], prev[c]} : q # NoQuery /\ WrapPanics(q)
    /\ next' = [next EXCEPT ![c] = NoQuery]
    /\ prev' = [prev EXCEPT ![c] = NoQuery]
    /\ sound' = [sound EXCEPT ![c] = FALSE]
    /\ UNCHANGED <<store, updates, items, asked, read, stayed, trail>>

Next ==
    \/ \E changed \in [Keys -> Values \cup {Absent}] : UpdateRecords(changed)
    \/ \E c \in Readers :
          \/ \E q \in Queries : List(c, q)
          \/ GoOn(c) \/ GoBack(c) \/ Panic(c)

Spec == Init /\ [][Next]_vars

-----------------------------------------------------------------------------
(* Properties *)

\* A list that was followed to its end has each record that was there all the
\* time, in its place, exactly once, whatever was saved and deleted between
\* the pages. It needs an order without ties, and that the records the pages
\* ended with keep their places too.
PagesCoverWhatStays ==
    \A c \in Readers :
        sound[c] /\ next[c] = NoQuery =>
            \A k \in stayed[c] :
                asked[c].type \in {AnyType, k.type} => read[c][k] = 1

\* Prev takes a reader back to the page that it left by Next, if no record
\* has changed since it had that page.
PrevUndoesNext ==
    [][\A c \in Readers :
          /\ Len(trail[c]) = 2
          /\ IsTotal(asked[c])
          /\ asked[c].typed \/ asked[c].type = AnyType
          /\ GoBack(c)
          => items'[c] = trail[c][1]]_vars

\* The comment in FindingRecords: "find limit=4 before=4" gives "1,2,3". So a
\* page before a record does not have it. The code takes that record along.
BeforeIsLeftOut ==
    [][\A c \in Readers :
          GoBack(c) /\ IsTotal(prev[c]) => \A k \in items'[c] : k.id # prev[c].before]_vars
=============================================================================
