---------------------------- MODULE PagingProofs ----------------------------
(***************************************************************************)
(* Theorems of Paging, for any records, values, readers and queries: the   *)
(* types of its state hold; a list that was followed to its end has every  *)
(* record that stayed in it exactly once; and Prev is the way back.        *)
(***************************************************************************)
EXTENDS Paging, FiniteSetTheorems, TLAPS

USE DEF NoId, AnyType, Absent

(***************************************************************************)
(* Queries and lists.                                                      *)
(***************************************************************************)

\* A link is a query, of the same list, and no query is not one.
LEMMA Links ==
    ASSUME NEW q \in Query, NEW after \in Ids \cup {NoId}, NEW before \in Ids \cup {NoId}
    PROVE  /\ Link(q, after, before) \in Query
           /\ Link(q, after, before) # NoQuery
           /\ Link(q, after, before).typed = q.typed
           /\ Link(q, after, before).type = IF q.typed THEN q.type ELSE AnyType
           /\ Link(q, after, before).where = q.where
           /\ Link(q, after, before).sort = q.sort
           /\ Link(q, after, before).descending = q.descending
           /\ Link(q, after, before).after = after
           /\ Link(q, after, before).before = before
<1>1. Link(q, after, before) \in Query
    BY DEF Link, Query
<1>2. Link(q, after, before).limit \in Nat /\ NoQuery.limit = -1
    BY DEF Link, Query, NoQuery
<1>3. Link(q, after, before) # NoQuery
    BY <1>2
<1> QED  BY <1>1, <1>3 DEF Link

LEMMA QueriesAreSome ==
    ASSUME NEW q \in Query  PROVE q # NoQuery
<1>1. q.limit \in Nat /\ NoQuery.limit = -1
    BY DEF Query, NoQuery
<1> QED  BY <1>1

\* A link of a link is one of the query itself.
LEMMA LinksOfLinks ==
    ASSUME NEW q \in Query, NEW a \in Ids \cup {NoId}, NEW b \in Ids \cup {NoId},
           NEW after \in Ids \cup {NoId}, NEW before \in Ids \cup {NoId}
    PROVE  Link(Link(q, a, b), after, before) = Link(q, after, before)
<1> QED  BY DEF Link

LEMMA IdsAreNumbers == Ids \subseteq Nat \ {NoId}
<1> QED  BY KeysAssumption DEF Ids

LEMMA RanksAreNumbers ==
    ASSUME NEW s \in [Keys -> Values \cup {Absent}], NEW q \in Query, NEW k \in Matching(s, q)
    PROVE  Rank(s, q, k) \in Int
<1>1. k \in Keys /\ s[k] \in Nat /\ k.id \in Nat
    BY KeysAssumption, ValuesAssumption DEF Matching
<1>2. q.sort \in {"none", "ID", "Data"}
    BY DEF Query
<1>3. Field(s, q, k) \in Nat
    BY <1>1, <1>2 DEF Field
<1> QED  BY <1>3 DEF Rank

\* A list has each of its records in one place, in order.
LEMMA ListingFacts ==
    ASSUME NEW q \in Query, NEW l \in Listings(q)
    PROVE  /\ DOMAIN l \subseteq Nat
           /\ DOMAIN l = 1 .. Cardinality(Matching(store, q))
           /\ Cardinality(Matching(store, q)) \in Nat
           /\ \A p \in DOMAIN l : l[p] \in Matching(store, q)
           /\ \A i, j \in DOMAIN l : l[i] = l[j] => i = j
           /\ \A k \in Matching(store, q) : \E p \in DOMAIN l : l[p] = k
           /\ \A i, j \in DOMAIN l : i < j => Rank(store, q, l[i]) <= Rank(store, q, l[j])
<1> DEFINE M == Matching(store, q)
<1>1. IsFiniteSet(M)
    BY KeysAssumption, FS_Subset DEF Matching
<1>2. Cardinality(M) \in Nat
    BY <1>1, FS_CardinalityType
<1>3. l \in Bijection(1 .. Cardinality(M), M)
    BY DEF Listings
<1>4. /\ l \in [1 .. Cardinality(M) -> M]
      /\ \A i, j \in DOMAIN l : l[i] = l[j] => i = j
      /\ \A k \in M : \E p \in 1 .. Cardinality(M) : l[p] = k
    BY <1>3 DEF Bijection, Injection, IsInjective, Surjection
<1>5. \A i, j \in DOMAIN l : i < j => Rank(store, q, l[i]) <= Rank(store, q, l[j])
    BY DEF Listings
<1> QED  BY <1>2, <1>4, <1>5

\* Every page is a part of the list.
LEMMA PagesAreParts ==
    ASSUME NEW q, NEW l
    PROVE  Page(q, l) \subseteq Places(q, l) /\ Places(q, l) \subseteq DOMAIN l
<1> QED  BY DEF Page, Places

LEMMA LinksAreQueries ==
    ASSUME NEW q \in Query, NEW l \in Listings(q)
    PROVE  NextLinks(q, l) \cup PrevLinks(q, l) \subseteq Query \cup {NoQuery}
<1>1. \A p \in Page(q, l) : l[p].id \in Ids
    BY ListingFacts, PagesAreParts DEF Matching, Ids
<1>2. q.after \in Ids \cup {NoId} /\ q.before \in Ids \cup {NoId}
    BY DEF Query
<1>3. \A p \in Page(q, l) : /\ Link(q, l[p].id, NoId) \in Query
                              /\ Link(q, NoId, l[p].id) \in Query
    BY <1>1, Links
<1>4. Link(q, q.before, NoId) \in Query /\ Link(q, NoId, q.after) \in Query
    BY <1>2, Links
<1>5. NextLinks(q, l) \subseteq Query \cup {NoQuery}
    BY <1>3, <1>4 DEF NextLinks, Last
<1>6. PrevLinks(q, l) \subseteq Query \cup {NoQuery}
    BY <1>3, <1>4 DEF PrevLinks, First
<1> QED  BY <1>5, <1>6

(***************************************************************************)
(* Types.                                                                  *)
(***************************************************************************)

LEMMA FindingTypes ==
    ASSUME TypeOK, NEW c \in Readers, NEW q \in Query, FindingRecords(c, q)
    PROVE  /\ next' \in [Readers -> Query \cup {NoQuery}]
           /\ prev' \in [Readers -> Query \cup {NoQuery}]
           /\ items' \in [Readers -> SUBSET Keys]
           /\ items'[c] \subseteq Matching(store, q)
<1>1. PICK l \in Listings(q) :
        /\ items' = [items EXCEPT ![c] = {l[p] : p \in Page(q, l)}]
        /\ \E link \in NextLinks(q, l) : next' = [next EXCEPT ![c] = link]
        /\ \E link \in PrevLinks(q, l) : prev' = [prev EXCEPT ![c] = link]
    BY DEF FindingRecords
<1>2. NextLinks(q, l) \cup PrevLinks(q, l) \subseteq Query \cup {NoQuery}
    BY LinksAreQueries
<1>3. {l[p] : p \in Page(q, l)} \subseteq Matching(store, q)
    BY ListingFacts, PagesAreParts
<1>4. Matching(store, q) \subseteq Keys
    BY DEF Matching
<1> QED  BY <1>1, <1>2, <1>3, <1>4 DEF TypeOK

LEMMA CountTypes ==
    ASSUME TypeOK, NEW c \in Readers, Count(c)
    PROVE  read' \in [Readers -> [Keys -> Nat]]
<1>1. read[c] \in [Keys -> Nat]
    BY DEF TypeOK
<1>2. [k \in Keys |-> IF k \in items'[c] THEN read[c][k] + 1 ELSE read[c][k]] \in [Keys -> Nat]
    BY <1>1
<1> QED  BY <1>2 DEF Count, TypeOK

LEMMA TrailTypes ==
    ASSUME TypeOK, NEW c \in Readers, Trail(c), items' \in [Readers -> SUBSET Keys]
    PROVE  trail' \in [Readers -> Seq(SUBSET Keys)]
<1>1. trail[c] \in Seq(SUBSET Keys) /\ items'[c] \in SUBSET Keys
    BY DEF TypeOK
<1>2. CASE trail[c] = <<>>
    BY <1>1, <1>2 DEF Trail, TypeOK
<1>3. CASE trail[c] # <<>>
    <2>1. trail[c][Len(trail[c])] \in SUBSET Keys
        BY <1>1, <1>3
    <2>2. <<trail[c][Len(trail[c])], items'[c]>> \in Seq(SUBSET Keys)
        BY <1>1, <2>1
    <2> QED  BY <1>3, <2>2 DEF Trail, TypeOK
<1> QED  BY <1>2, <1>3

\* The types of Paging hold: every link is a query, and what a reader was
\* given are records.
LEMMA TypeInductive ==
    /\ Init => TypeOK
    /\ TypeOK /\ [Next]_vars => TypeOK'
<1>1. Init => TypeOK
    BY MaxUpdatesAssumption DEF Init, TypeOK
<1>2. ASSUME TypeOK, [Next]_vars  PROVE TypeOK'
    <2>1. ASSUME NEW changed \in [Keys -> Values \cup {Absent}], UpdateRecords(changed)
          PROVE  TypeOK'
        <3>1. stayed' \in [Readers -> SUBSET Keys]
            BY <1>2, <2>1 DEF UpdateRecords, TypeOK
        <3>2. updates' \in 0 .. MaxUpdates
            BY <1>2, <2>1, MaxUpdatesAssumption DEF UpdateRecords, TypeOK
        <3>3. trail' \in [Readers -> Seq(SUBSET Keys)]
            BY <2>1 DEF UpdateRecords
        <3> QED  BY <1>2, <2>1, <3>1, <3>2, <3>3 DEF UpdateRecords, TypeOK
    <2>2. ASSUME NEW c \in Readers, NEW q \in Queries, List(c, q)  PROVE TypeOK'
        <3>1. q \in Query /\ FindingRecords(c, q)
            BY <2>2, QueriesAssumption DEF List
        <3>2. stayed' \in [Readers -> SUBSET Keys]
            BY <1>2, <2>2 DEF List, TypeOK, Matching
        <3>3. sound' \in [Readers -> BOOLEAN]
            BY <1>2, <2>2 DEF List, TypeOK, IsTotal
        <3>4. read' \in [Readers -> [Keys -> Nat]]
            BY <1>2, <2>2, CountTypes DEF List
        <3>5. items' \in [Readers -> SUBSET Keys] /\ trail' \in [Readers -> Seq(SUBSET Keys)]
            BY <1>2, <2>2, <3>1, FindingTypes, TrailTypes DEF List
        <3> QED  BY <1>2, <2>2, <3>1, <3>2, <3>3, <3>4, <3>5, FindingTypes DEF List, TypeOK
    <2>3. ASSUME NEW c \in Readers, GoOn(c)  PROVE TypeOK'
        <3>1. next[c] \in Query /\ FindingRecords(c, next[c])
            BY <1>2, <2>3 DEF GoOn, TypeOK
        <3>2. sound' \in [Readers -> BOOLEAN]
            BY <1>2, <2>3 DEF GoOn, TypeOK, IsTotal
        <3>3. read' \in [Readers -> [Keys -> Nat]]
            BY <1>2, <2>3, CountTypes DEF GoOn, TypeOK
        <3>4. items' \in [Readers -> SUBSET Keys] /\ trail' \in [Readers -> Seq(SUBSET Keys)]
            BY <1>2, <2>3, <3>1, FindingTypes, TrailTypes DEF GoOn
        <3> QED  BY <1>2, <2>3, <3>1, <3>2, <3>3, <3>4, FindingTypes DEF GoOn, TypeOK
    <2>4. ASSUME NEW c \in Readers, GoBack(c)  PROVE TypeOK'
        <3>1. prev[c] \in Query /\ FindingRecords(c, prev[c])
            BY <1>2, <2>4 DEF GoBack, TypeOK
        <3> QED  BY <1>2, <2>4, <3>1, FindingTypes DEF GoBack, TypeOK
    <2>5. ASSUME NEW c \in Readers, Panic(c)  PROVE TypeOK'
        BY <1>2, <2>5 DEF Panic, TypeOK
    <2>6. CASE UNCHANGED vars
        BY <1>2, <2>6 DEF vars, TypeOK
    <2> QED  BY <1>2, <2>1, <2>2, <2>3, <2>4, <2>5, <2>6 DEF Next
<1> QED  BY <1>1, <1>2

\* The links that a reader holds are queries, whatever it was given.
THEOREM TypeCorrect == Spec => []TypeOK
<1> QED  BY TypeInductive, PTL DEF Spec

(***************************************************************************)
(* A page of a list without ties.                                          *)
(***************************************************************************)

\* k comes after the record that q goes on from.
Behind(q, k) ==
    q.after # NoId =>
        \E cur \in Matching(store, q) :
            cur.id = q.after /\ Rank(store, q, cur) < Rank(store, q, k)

\* Where the page of q that came with a link to the next one ends.
UpTo(q, link, k) ==
    link # NoQuery =>
        \E last \in Matching(store, q) :
            last.id = link.after /\ Rank(store, q, k) <= Rank(store, q, last)

\* In an order without ties the places of a list are those of its ranks.
LEMMA PlacesByRank ==
    ASSUME TypeOK, NEW q \in Query, IsTotal(q), NEW l \in Listings(q),
           NEW i \in DOMAIN l, NEW j \in DOMAIN l
    PROVE  /\ i < j <=> Rank(store, q, l[i]) < Rank(store, q, l[j])
           /\ l[i].id = l[j].id => i = j
<1> DEFINE rank(p) == Rank(store, q, l[p])
<1>1. i \in Nat /\ j \in Nat /\ l[i] \in Matching(store, q) /\ l[j] \in Matching(store, q)
    BY ListingFacts
<1>2. rank(i) \in Int /\ rank(j) \in Int
    BY <1>1, RanksAreNumbers DEF TypeOK
<1>3. i # j => l[i].id # l[j].id /\ rank(i) # rank(j)
    BY <1>1, ListingFacts DEF IsTotal
<1>4. (i < j => rank(i) <= rank(j)) /\ (j < i => rank(j) <= rank(i))
    BY ListingFacts
<1> HIDE DEF rank
<1>5. i < j <=> rank(i) < rank(j)
    BY <1>1, <1>2, <1>3, <1>4
<1> QED  BY <1>3, <1>5 DEF rank

LEMMA PlacesBehind ==
    ASSUME TypeOK, NEW q \in Query, IsTotal(q), ~Backwards(q), NEW l \in Listings(q),
           q.after # NoId => \E cur \in Matching(store, q) : cur.id = q.after,
           NEW p \in DOMAIN l
    PROVE  p \in Places(q, l) <=> Behind(q, l[p])
<1>1. CASE q.after = NoId
    BY <1>1 DEF Places, Behind
<1>2. CASE q.after # NoId
    <2>1. PICK m \in DOMAIN l : l[m].id = q.after
        BY <1>2, ListingFacts
    <2>2. \A i \in DOMAIN l : l[i].id = q.after => i = m
        BY <2>1, PlacesByRank
    <2>3. DOMAIN l = 1 .. Cardinality(Matching(store, q)) /\ Cardinality(Matching(store, q)) \in Nat
        BY ListingFacts
    <2>4. 1 .. p \subseteq DOMAIN l
        BY <2>3
    <2>5. p \in Places(q, l) <=> m < p
        BY <1>2, <2>1, <2>2, <2>3, <2>4 DEF Places
    <2>6. m < p <=> Rank(store, q, l[m]) < Rank(store, q, l[p])
        BY PlacesByRank
    <2>7. \A cur \in Matching(store, q) : cur.id = q.after => cur = l[m]
        BY <2>2, ListingFacts
    <2>8. l[m] \in Matching(store, q)
        BY ListingFacts
    <2> QED  BY <1>2, <2>1, <2>5, <2>6, <2>7, <2>8 DEF Behind
<1> QED  BY <1>1, <1>2

\* A limited page goes up to its last place, and is not empty.
LEMMA LimitedPages ==
    ASSUME TypeOK, NEW q \in Query, ~Backwards(q), NEW l \in Listings(q), IsLimited(q, l),
           NEW last \in Last(Page(q, l)), NEW p \in DOMAIN l
    PROVE  p \in Page(q, l) <=> p \in Places(q, l) /\ p <= last
<1> DEFINE before(x) == {m \in Places(q, l) : m < x}
<1>1. Page(q, l) = {x \in Places(q, l) : Cardinality(before(x)) < q.limit}
    BY DEF Page
<1>2. /\ Cardinality(Matching(store, q)) \in Nat
      /\ DOMAIN l = 1 .. Cardinality(Matching(store, q))
    BY ListingFacts
<1>3. IsFiniteSet(DOMAIN l)
    BY <1>2, FS_Interval
<1>4. last \in Page(q, l) /\ \A x \in Page(q, l) : x <= last
    BY DEF Last
<1>5. last \in DOMAIN l /\ Places(q, l) \subseteq DOMAIN l
    BY <1>4, PagesAreParts
<1>6. ASSUME p \in Places(q, l), p <= last  PROVE p \in Page(q, l)
    <2>1. before(p) \subseteq before(last)
        BY <1>2, <1>5, <1>6
    <2>2. IsFiniteSet(before(last))
        BY <1>3, <1>5, FS_Subset
    <2>3. /\ Cardinality(before(p)) <= Cardinality(before(last))
          /\ Cardinality(before(p)) \in Nat /\ Cardinality(before(last)) \in Nat
        BY <2>1, <2>2, FS_Subset, FS_CardinalityType
    <2>4. Cardinality(before(last)) < q.limit /\ q.limit \in Nat
        BY <1>1, <1>4 DEF Query
    <2> HIDE DEF before
    <2>5. Cardinality(before(p)) < q.limit
        BY <2>3, <2>4
    <2> QED  BY <1>1, <1>6, <2>5
<1> QED  BY <1>4, <1>6, PagesAreParts

\* What a reader is given: the records behind the cursor, up to the cursor of
\* the link it gets.
LEMMA PageOfTotal ==
    ASSUME TypeOK, NEW q \in Query, IsTotal(q), ~Backwards(q), NEW l \in Listings(q),
           q.after # NoId => \E cur \in Matching(store, q) : cur.id = q.after,
           NEW link \in NextLinks(q, l)
    PROVE  /\ \A k \in Matching(store, q) :
                 k \in {l[p] : p \in Page(q, l)} <=> Behind(q, k) /\ UpTo(q, link, k)
           /\ link # NoQuery =>
                 /\ link.after \in Ids
                 /\ link = Link(q, link.after, NoId)
                 /\ \E last \in Matching(store, q) : last.id = link.after /\ Behind(q, last)
<1>1. SUFFICES /\ \A p \in DOMAIN l : p \in Page(q, l) <=> Behind(q, l[p]) /\ UpTo(q, link, l[p])
               /\ link # NoQuery =>
                     /\ link.after \in Ids
                     /\ link = Link(q, link.after, NoId)
                     /\ \E last \in Matching(store, q) : last.id = link.after /\ Behind(q, last)
    BY ListingFacts, PagesAreParts
<1>2. CASE ~IsLimited(q, l)
    <2>1. link = NoQuery /\ Page(q, l) = Places(q, l)
        BY <1>2 DEF NextLinks, Page
    <2> QED  BY <2>1, PlacesBehind DEF UpTo
<1>3. CASE IsLimited(q, l)
    <2>1. PICK last \in Last(Page(q, l)) : link = Link(q, l[last].id, NoId)
        BY <1>3 DEF NextLinks
    <2>2. last \in Page(q, l) /\ last \in DOMAIN l /\ last \in Places(q, l)
        BY PagesAreParts DEF Last
    <2>3. l[last] \in Matching(store, q) /\ l[last].id \in Ids
        BY <2>2, ListingFacts DEF Matching, Ids
    <2>4. link # NoQuery /\ link.after = l[last].id
        <3>1. l[last].id \in Ids \cup {NoId} /\ NoId \in Ids \cup {NoId}
            BY <2>3
        <3>2. /\ Link(q, l[last].id, NoId) # NoQuery
              /\ Link(q, l[last].id, NoId).after = l[last].id
            BY <3>1, Links
        <3> QED  BY <2>1, <3>2
    <2>5. Behind(q, l[last])
        BY <2>2, PlacesBehind
    <2>6. \A other \in Matching(store, q) : other.id = link.after => other = l[last]
        BY <2>2, <2>4, ListingFacts, PlacesByRank
    <2>7. ASSUME NEW p \in DOMAIN l
          PROVE  p \in Page(q, l) <=> Behind(q, l[p]) /\ UpTo(q, link, l[p])
        <3>1. p \in Page(q, l) <=> Behind(q, l[p]) /\ p <= last
            <4>1. p \in Page(q, l) <=> p \in Places(q, l) /\ p <= last
                BY <1>3, LimitedPages
            <4>2. p \in Places(q, l) <=> Behind(q, l[p])
                BY PlacesBehind
            <4> QED  BY <4>1, <4>2
        <3>2. last < p <=> Rank(store, q, l[last]) < Rank(store, q, l[p])
            BY <2>2, PlacesByRank
        <3>3. Rank(store, q, l[last]) \in Int /\ Rank(store, q, l[p]) \in Int
            BY <2>3, ListingFacts, RanksAreNumbers DEF TypeOK
        <3>4. p \in Nat /\ last \in Nat
            BY <2>2, ListingFacts
        <3>5. p <= last <=> Rank(store, q, l[p]) <= Rank(store, q, l[last])
            BY <3>2, <3>3, <3>4
        <3>6. UpTo(q, link, l[p]) <=> Rank(store, q, l[p]) <= Rank(store, q, l[last])
            BY <2>3, <2>4, <2>6 DEF UpTo
        <3> QED  BY <3>1, <3>5, <3>6
    <2> QED  BY <2>1, <2>3, <2>4, <2>5, <2>7
<1> QED  BY <1>2, <1>3

(***************************************************************************)
(* Lists that are followed forwards.                                       *)
(***************************************************************************)

\* What has been read when a reader is about to go on from a record that
\* stayed: everything up to it, once. When there is no next page, everything.
Covers(c) ==
    /\ asked[c] \in Queries
    /\ stayed[c] \subseteq Matching(store, Link(asked[c], NoId, NoId))
    /\ next[c] # NoQuery =>
          next[c].after \in Ids /\ next[c] = Link(asked[c], next[c].after, NoId)
    /\ \A k \in stayed[c] : asked[c].type \in {AnyType, k.type} =>
          IF next[c] = NoQuery THEN read[c][k] = 1
          ELSE \A cur \in stayed[c] : cur.id = next[c].after =>
                  read[c][k] = IF Rank(store, asked[c], k) <= Rank(store, asked[c], cur)
                               THEN 1 ELSE 0

SoundReadersCover ==
    \A c \in Readers :
        /\ sound[c] => Covers(c)
        /\ asked[c] = NoQuery => ~sound[c] /\ \A k \in Keys : read[c][k] = 0

LEMMA RanksOfLinks ==
    ASSUME NEW s, NEW q \in Query, NEW k, NEW a \in Ids \cup {NoId}, NEW b \in Ids \cup {NoId}
    PROVE  Rank(s, Link(q, a, b), k) = Rank(s, q, k)
<1>1. Link(q, a, b).sort = q.sort /\ Link(q, a, b).descending = q.descending
    BY DEF Link
<1> QED  BY <1>1 DEF Rank, Field

LEMMA MatchesOfLinks ==
    ASSUME NEW s, NEW q \in Query, NEW a \in Ids \cup {NoId}, NEW b \in Ids \cup {NoId}
    PROVE  Matching(s, Link(q, a, b)) = Matching(s, Link(q, NoId, NoId))
<1>1. /\ Link(q, a, b).type = Link(q, NoId, NoId).type
      /\ Link(q, a, b).where = Link(q, NoId, NoId).where
    BY DEF Link
<1> QED  BY <1>1 DEF Matching

\* The first page is of the type that was asked for.
LEMMA MatchesOfType ==
    ASSUME NEW s, NEW q \in Query
    PROVE  \A k : k \in Matching(s, q) <=>
                     k \in Matching(s, Link(q, NoId, NoId)) /\ q.type \in {AnyType, k.type}
<1>1. /\ Link(q, NoId, NoId).type = IF q.typed THEN q.type ELSE AnyType
      /\ Link(q, NoId, NoId).where = q.where
    BY DEF Link
<1> QED  BY <1>1 DEF Matching

LEMMA FindingPage ==
    ASSUME TypeOK, NEW c \in Readers, NEW q \in Query, IsTotal(q), ~Backwards(q),
           q.after # NoId => \E cur \in Matching(store, q) : cur.id = q.after,
           FindingRecords(c, q)
    PROVE  /\ \A k \in Matching(store, q) :
                 k \in items'[c] <=> Behind(q, k) /\ UpTo(q, next'[c], k)
           /\ next'[c] # NoQuery =>
                 /\ next'[c].after \in Ids
                 /\ next'[c] = Link(q, next'[c].after, NoId)
                 /\ \E last \in Matching(store, q) : last.id = next'[c].after /\ Behind(q, last)
<1>1. PICK l \in Listings(q) :
        /\ items' = [items EXCEPT ![c] = {l[p] : p \in Page(q, l)}]
        /\ \E link \in NextLinks(q, l) : next' = [next EXCEPT ![c] = link]
    BY DEF FindingRecords
<1>2. items'[c] = {l[p] : p \in Page(q, l)} /\ next'[c] \in NextLinks(q, l)
    BY <1>1 DEF TypeOK
<1> QED  BY <1>2, PageOfTotal

\* The first page.
LEMMA ListCovers ==
    ASSUME TypeOK, SoundReadersCover, NEW c \in Readers, NEW q \in Queries, List(c, q), sound'[c]
    PROVE  Covers(c)'
<1> DEFINE any == Link(q, NoId, NoId)
<1>1. q \in Query /\ q.after = NoId /\ ~Backwards(q)
    BY QueriesAssumption DEF Backwards
<1>2. /\ asked'[c] = q /\ stayed'[c] = Matching(store, any) /\ IsTotal(any)
      /\ store' = store
    BY DEF List, TypeOK
<1>3. \A k : k \in Matching(store, q) <=>
                 k \in Matching(store, any) /\ q.type \in {AnyType, k.type}
    BY <1>1, MatchesOfType
<1>4. \A k : Rank(store, any, k) = Rank(store, q, k)
    BY <1>1, RanksOfLinks
<1> HIDE DEF any
<1>5. IsTotal(q)
    <2>1. \A j, k \in Matching(store, any) :
              j # k => j.id # k.id /\ Rank(store, any, j) # Rank(store, any, k)
        BY <1>2 DEF IsTotal
    <2> QED  BY <1>3, <1>4, <2>1 DEF IsTotal
<1>6. /\ \A k \in Matching(store, q) : k \in items'[c] <=> UpTo(q, next'[c], k)
      /\ next'[c] # NoQuery =>
            /\ next'[c].after \in Ids
            /\ next'[c] = Link(q, next'[c].after, NoId)
    <2>1. FindingRecords(c, q)
        BY DEF List
    <2>2. \A k : Behind(q, k)
        BY <1>1 DEF Behind
    <2> QED  BY <1>1, <1>5, <2>1, <2>2, FindingPage
<1>7. \A k \in Keys : read'[c][k] = IF k \in items'[c] THEN 1 ELSE 0
    BY DEF List, Count, SoundReadersCover, TypeOK
<1>8. ASSUME NEW k \in Matching(store, any), q.type \in {AnyType, k.type}
      PROVE  /\ k \in Keys /\ k \in Matching(store, q)
             /\ k \in items'[c] <=> UpTo(q, next'[c], k)
    BY <1>3, <1>6, <1>8 DEF Matching
<1>9. ASSUME NEW k \in Matching(store, any), q.type \in {AnyType, k.type},
             next'[c] # NoQuery, NEW cur \in Matching(store, any), cur.id = next'[c].after
      PROVE  read'[c][k] = IF Rank(store, q, k) <= Rank(store, q, cur) THEN 1 ELSE 0
    <2>1. PICK last \in Matching(store, q) : last.id = next'[c].after
        <3>1. FindingRecords(c, q)
            BY DEF List
        <3> QED  BY <1>1, <1>5, <1>9, <3>1, FindingPage
    <2>2. \A other \in Matching(store, q) : other.id = next'[c].after => other = cur
        BY <1>2, <1>3, <1>9 DEF IsTotal
    <2>3. UpTo(q, next'[c], k) <=> Rank(store, q, k) <= Rank(store, q, cur)
        BY <1>9, <2>1, <2>2 DEF UpTo
    <2> QED  BY <1>7, <1>8, <1>9, <2>3
<1>10. ASSUME NEW k \in Matching(store, any), q.type \in {AnyType, k.type}, next'[c] = NoQuery
       PROVE  read'[c][k] = 1
    BY <1>7, <1>8, <1>10 DEF UpTo
<1> QED  BY <1>2, <1>6, <1>9, <1>10 DEF Covers, any

\* The pages after it, each from a record that stayed.
LEMMA GoOnCovers ==
    ASSUME TypeOK, SoundReadersCover, NEW c \in Readers, GoOn(c), sound'[c]
    PROVE  Covers(c)'
<1> DEFINE q == asked[c]
           n == next[c]
           rank(k) == Rank(store, q, k)
<1>1. /\ Covers(c) /\ n # NoQuery /\ IsTotal(n)
      /\ \E k \in stayed[c] : k.id = n.after
    BY DEF GoOn, SoundReadersCover, TypeOK
<1>2. /\ asked'[c] = q /\ stayed'[c] = stayed[c] /\ store' = store
      /\ FindingRecords(c, n) /\ Count(c)
    BY DEF GoOn
<1>3. PICK cur \in stayed[c] : cur.id = n.after
    BY <1>1
<1>4. /\ q \in Query /\ n \in Query /\ n.after \in Ids
      /\ n = Link(q, n.after, NoId) /\ NoId \in Ids \cup {NoId}
    BY <1>1, QueriesAssumption DEF Covers, TypeOK
<1>5. n.after # NoId /\ ~Backwards(n)
    BY <1>4, IdsAreNumbers DEF Backwards
<1>6. Matching(store, n) = Matching(store, Link(q, NoId, NoId)) /\ stayed[c] \subseteq Matching(store, n)
    <2>1. Matching(store, Link(q, n.after, NoId)) = Matching(store, Link(q, NoId, NoId))
        BY <1>4, MatchesOfLinks
    <2> QED  BY <1>1, <1>4, <2>1 DEF Covers
<1>7. \A k : Rank(store, n, k) = rank(k)
    BY <1>4, RanksOfLinks
<1>8. \A k \in Matching(store, n) : rank(k) \in Int
    BY <1>4, <1>7, RanksAreNumbers DEF TypeOK
<1>9. \A j, k \in Matching(store, n) : j.id = k.id => j = k
    BY <1>1 DEF IsTotal
<1>10. /\ \A k \in Matching(store, n) :
             k \in items'[c] <=> Behind(n, k) /\ UpTo(n, next'[c], k)
       /\ next'[c] # NoQuery =>
             /\ next'[c].after \in Ids
             /\ next'[c] = Link(n, next'[c].after, NoId)
             /\ \E last \in Matching(store, n) : last.id = next'[c].after /\ Behind(n, last)
    BY <1>1, <1>2, <1>3, <1>4, <1>5, <1>6, FindingPage
<1>11. \A k \in Matching(store, n) : Behind(n, k) <=> rank(cur) < rank(k)
    BY <1>3, <1>5, <1>6, <1>7, <1>9 DEF Behind
<1> HIDE DEF rank
<1>12. \A k \in Keys : read'[c][k] = IF k \in items'[c] THEN read[c][k] + 1 ELSE read[c][k]
    BY <1>2 DEF Count, TypeOK
<1>13. ASSUME NEW k \in stayed[c], q.type \in {AnyType, k.type}
       PROVE  /\ k \in Keys /\ k \in Matching(store, n) /\ rank(k) \in Int /\ rank(cur) \in Int
              /\ read[c][k] = IF rank(k) <= rank(cur) THEN 1 ELSE 0
    BY <1>1, <1>3, <1>6, <1>8, <1>13 DEF Covers, TypeOK, rank
<1>14. ASSUME NEW k \in stayed[c], q.type \in {AnyType, k.type}, next'[c] = NoQuery
       PROVE  read'[c][k] = 1
    <2>1. /\ k \in Keys /\ k \in Matching(store, n) /\ rank(k) \in Int /\ rank(cur) \in Int
          /\ read[c][k] = IF rank(k) <= rank(cur) THEN 1 ELSE 0
        BY <1>13, <1>14
    <2>2. UpTo(n, next'[c], k)
        BY <1>14 DEF UpTo
    <2>3. k \in items'[c] <=> rank(cur) < rank(k)
        BY <1>10, <1>11, <2>1, <2>2
    <2>4. read'[c][k] = IF k \in items'[c] THEN read[c][k] + 1 ELSE read[c][k]
        BY <1>12, <2>1
    <2> QED  BY <2>1, <2>3, <2>4
<1>15. ASSUME NEW k \in stayed[c], q.type \in {AnyType, k.type}, next'[c] # NoQuery,
              NEW last \in stayed[c], last.id = next'[c].after
       PROVE  read'[c][k] = IF rank(k) <= rank(last) THEN 1 ELSE 0
    <2>1. /\ k \in Keys /\ k \in Matching(store, n) /\ rank(k) \in Int /\ rank(cur) \in Int
          /\ read[c][k] = IF rank(k) <= rank(cur) THEN 1 ELSE 0
        BY <1>13, <1>15
    <2>2. last \in Matching(store, n) /\ rank(last) \in Int
        BY <1>6, <1>8, <1>15
    <2>3. \A other \in Matching(store, n) : other.id = next'[c].after => other = last
        BY <1>9, <1>15, <2>2
    <2>4. rank(cur) < rank(last)
        BY <1>10, <1>11, <1>15, <2>3
    <2>5. UpTo(n, next'[c], k) <=> rank(k) <= rank(last)
        BY <1>7, <1>15, <2>2, <2>3 DEF UpTo
    <2>6. k \in items'[c] <=> rank(cur) < rank(k) /\ rank(k) <= rank(last)
        BY <1>10, <1>11, <2>1, <2>5
    <2>7. read'[c][k] = IF k \in items'[c] THEN read[c][k] + 1 ELSE read[c][k]
        BY <1>12, <2>1
    <2> QED  BY <2>1, <2>2, <2>4, <2>6, <2>7
<1>16. next'[c] # NoQuery =>
          next'[c].after \in Ids /\ next'[c] = Link(q, next'[c].after, NoId)
    BY <1>4, <1>10, LinksOfLinks
<1>17. q \in Queries /\ stayed[c] \subseteq Matching(store, Link(q, NoId, NoId))
    BY <1>1 DEF Covers
<1> QED  BY <1>2, <1>14, <1>15, <1>16, <1>17 DEF Covers, rank

\* Between the pages, whatever is saved and deleted.
LEMMA UpdateCovers ==
    ASSUME TypeOK, SoundReadersCover, NEW changed \in [Keys -> Values \cup {Absent}],
           UpdateRecords(changed), NEW c \in Readers, Covers(c)
    PROVE  Covers(c)'
<1> DEFINE q == asked[c]
           any == Link(q, NoId, NoId)
<1>1. q \in Query /\ any.where = q.where /\ NoId \in Ids \cup {NoId}
    BY QueriesAssumption DEF Covers, Link
<1>2. /\ asked'[c] = q /\ next'[c] = next[c] /\ read'[c] = read[c]
      /\ stayed'[c] = {k \in stayed[c] : /\ store'[k] # Absent /\ store'[k] \in q.where
                                         /\ q.sort = "Data" => store'[k] = store[k]}
    BY DEF UpdateRecords
<1>3. \A k \in stayed'[c] : Rank(store', q, k) = Rank(store, q, k)
    BY <1>1, <1>2 DEF Rank, Field
<1>4. stayed'[c] \subseteq Matching(store', any)
    BY <1>1, <1>2 DEF Covers, Matching
<1>5. stayed'[c] \subseteq stayed[c]
    BY <1>2
<1> HIDE DEF any
<1>6. q \in Queries /\ (next[c] # NoQuery =>
          next[c].after \in Ids /\ next[c] = Link(q, next[c].after, NoId))
    BY DEF Covers
<1>7. \A k \in stayed'[c] : q.type \in {AnyType, k.type} =>
          IF next[c] = NoQuery THEN read[c][k] = 1
          ELSE \A cur \in stayed'[c] : cur.id = next[c].after =>
                  read[c][k] = IF Rank(store', q, k) <= Rank(store', q, cur) THEN 1 ELSE 0
    BY <1>3, <1>5 DEF Covers
<1> QED  BY <1>2, <1>4, <1>6, <1>7 DEF Covers, any

LEMMA CoversInductive ==
    ASSUME TypeOK, SoundReadersCover, [Next]_vars
    PROVE  SoundReadersCover'
<1> SUFFICES ASSUME NEW d \in Readers
             PROVE  /\ sound'[d] => Covers(d)'
                    /\ asked'[d] = NoQuery => ~sound'[d] /\ \A k \in Keys : read'[d][k] = 0
    BY DEF SoundReadersCover
<1>1. ASSUME UNCHANGED <<store, asked[d], stayed[d], next[d], read[d], sound[d]>>
      PROVE  /\ sound'[d] => Covers(d)'
             /\ asked'[d] = NoQuery => ~sound'[d] /\ \A k \in Keys : read'[d][k] = 0
    <2>1. /\ store' = store /\ asked'[d] = asked[d] /\ stayed'[d] = stayed[d]
          /\ next'[d] = next[d] /\ read'[d] = read[d] /\ sound'[d] = sound[d]
        BY <1>1
    <2>2. Covers(d) => Covers(d)'
        BY <2>1 DEF Covers
    <2> QED  BY <2>1, <2>2 DEF SoundReadersCover
<1>2. ASSUME NEW changed \in [Keys -> Values \cup {Absent}], UpdateRecords(changed)
      PROVE  /\ sound'[d] => Covers(d)'
             /\ asked'[d] = NoQuery => ~sound'[d] /\ \A k \in Keys : read'[d][k] = 0
    <2>1. sound'[d] = sound[d] /\ asked'[d] = asked[d] /\ read'[d] = read[d]
        BY <1>2 DEF UpdateRecords
    <2> QED  BY <1>2, <2>1, UpdateCovers DEF SoundReadersCover
<1>3. ASSUME NEW c \in Readers, NEW q \in Queries, List(c, q)
      PROVE  /\ sound'[d] => Covers(d)'
             /\ asked'[d] = NoQuery => ~sound'[d] /\ \A k \in Keys : read'[d][k] = 0
    <2>1. CASE d = c
        <3>1. asked'[c] = q /\ q # NoQuery
            BY <1>3, QueriesAssumption, QueriesAreSome DEF List, TypeOK
        <3> QED  BY <1>3, <2>1, <3>1, ListCovers
    <2>2. CASE d # c
        BY <1>1, <1>3, <2>2 DEF List, FindingRecords, Count, TypeOK
    <2> QED  BY <2>1, <2>2
<1>4. ASSUME NEW c \in Readers, GoOn(c)
      PROVE  /\ sound'[d] => Covers(d)'
             /\ asked'[d] = NoQuery => ~sound'[d] /\ \A k \in Keys : read'[d][k] = 0
    <2>1. CASE d = c
        <3>1. asked' = asked /\ (sound'[c] => sound[c]) /\ (~sound'[c] => read' = read)
            BY <1>4 DEF GoOn, TypeOK
        <3> QED  BY <1>4, <2>1, <3>1, GoOnCovers DEF SoundReadersCover
    <2>2. CASE d # c
        BY <1>1, <1>4, <2>2 DEF GoOn, FindingRecords, Count, TypeOK
    <2> QED  BY <2>1, <2>2
<1>5. ASSUME NEW c \in Readers, GoBack(c) \/ Panic(c)
      PROVE  /\ sound'[d] => Covers(d)'
             /\ asked'[d] = NoQuery => ~sound'[d] /\ \A k \in Keys : read'[d][k] = 0
    <2>1. CASE d = c
        BY <1>5, <2>1 DEF GoBack, Panic, TypeOK, SoundReadersCover
    <2>2. CASE d # c
        BY <1>1, <1>5, <2>2 DEF GoBack, Panic, FindingRecords, TypeOK
    <2> QED  BY <2>1, <2>2
<1>6. CASE UNCHANGED vars
    BY <1>1, <1>6 DEF vars
<1> QED  BY <1>2, <1>3, <1>4, <1>5, <1>6 DEF Next

\* A list that was followed to its end has every record that stayed in it
\* exactly once, for any store, any changes, any query and any limit.
THEOREM StayingIsListed == Spec => []PagesCoverWhatStays
<1>1. Init => SoundReadersCover
    BY DEF Init, SoundReadersCover
<1>2. SoundReadersCover => PagesCoverWhatStays
    BY DEF SoundReadersCover, Covers, PagesCoverWhatStays
<1> QED  BY <1>1, <1>2, CoversInductive, TypeCorrect, PTL DEF Spec

(***************************************************************************)
(* Going back.                                                             *)
(***************************************************************************)

\* In an order without ties the place of a record is the number of records
\* up to it.
LEMMA PlaceIsCount ==
    ASSUME TypeOK, NEW q \in Query, IsTotal(q), NEW l \in Listings(q), NEW p \in DOMAIN l
    PROVE  Cardinality({k \in Matching(store, q) :
                            Rank(store, q, k) <= Rank(store, q, l[p])}) = p
<1> DEFINE M == Matching(store, q)
           rank(k) == Rank(store, q, k)
           upTo == {k \in M : rank(k) <= rank(l[p])}
           f == [i \in 1 .. p |-> l[i]]
<1>1. /\ Cardinality(M) \in Nat /\ DOMAIN l = 1 .. Cardinality(M) /\ p \in DOMAIN l
      /\ \A i \in DOMAIN l : l[i] \in M
      /\ \A i, j \in DOMAIN l : l[i] = l[j] => i = j
      /\ \A k \in M : \E i \in DOMAIN l : l[i] = k
    BY ListingFacts
<1>2. p \in Nat /\ p >= 1 /\ 1 .. p \subseteq DOMAIN l
    BY <1>1
<1>3. \A i \in DOMAIN l : rank(l[i]) <= rank(l[p]) <=> i <= p
    <2>1. ASSUME NEW i \in DOMAIN l  PROVE rank(l[i]) <= rank(l[p]) <=> i <= p
        <3>1. rank(l[i]) \in Int /\ rank(l[p]) \in Int /\ i \in Nat
            <4>1. store \in [Keys -> Values \cup {Absent}]
                BY DEF TypeOK
            <4>2. l[i] \in M /\ l[p] \in M /\ i \in Nat
                BY <1>1
            <4> QED  BY <4>1, <4>2, RanksAreNumbers
        <3>2. p < i <=> rank(l[p]) < rank(l[i])
            BY PlacesByRank
        <3> HIDE DEF rank
        <3> QED  BY <1>2, <3>1, <3>2
    <2> QED  BY <2>1
<1>4. \A i \in 1 .. p : l[i] \in upTo
    BY <1>1, <1>2, <1>3
<1>5. \A k \in upTo : \E i \in 1 .. p : l[i] = k
    <2>1. ASSUME NEW k \in upTo  PROVE \E i \in 1 .. p : l[i] = k
        <3>1. PICK i \in DOMAIN l : l[i] = k
            BY <1>1
        <3>2. i <= p
            BY <1>3, <3>1
        <3>3. i \in 1 .. p
            BY <1>1, <1>2, <3>2
        <3> QED  BY <3>1, <3>3
    <2> QED  BY <2>1
<1> HIDE DEF upTo
<1>6. f \in Bijection(1 .. p, upTo)
    <2>1. f \in [1 .. p -> upTo]
        BY <1>4
    <2>2. \A i, j \in 1 .. p : f[i] = f[j] => i = j
        BY <1>1, <1>2
    <2>3. \A k \in upTo : \E i \in 1 .. p : f[i] = k
        BY <1>5
    <2> QED  BY <2>1, <2>2, <2>3 DEF Bijection, Injection, IsInjective, Surjection
<1>7. IsFiniteSet(1 .. p) /\ Cardinality(1 .. p) = p
    BY <1>2, FS_Interval
<1>8. Cardinality(upTo) = p
    BY <1>6, <1>7, FS_Bijection DEF ExistsBijection
<1> QED  BY <1>8 DEF upTo

\* So there is one list.
LEMMA ListIsUnique ==
    ASSUME TypeOK, NEW q \in Query, IsTotal(q),
           NEW l \in Listings(q), NEW m \in Listings(q), NEW p \in DOMAIN l
    PROVE  p \in DOMAIN m /\ m[p] = l[p]
<1>1. l[p] \in Matching(store, q)
    BY ListingFacts
<1>2. PICK i \in DOMAIN m : m[i] = l[p]
    BY <1>1, ListingFacts
<1>3. i = p
    BY <1>2, PlaceIsCount
<1> QED  BY <1>2, <1>3

\* A link is of the same list, when the type is not lost.
LEMMA ListsOfLinks ==
    ASSUME NEW q \in Query, NEW a \in Ids \cup {NoId}, NEW b \in Ids \cup {NoId},
           q.typed \/ q.type = AnyType
    PROVE  /\ Listings(Link(q, a, b)) = Listings(q)
           /\ IsTotal(q) => IsTotal(Link(q, a, b))
           /\ Link(q, a, b).limit = q.limit
<1>1. \A s : Matching(s, Link(q, a, b)) = Matching(s, q)
    BY DEF Matching, Link
<1>2. \A s, k : Rank(s, Link(q, a, b), k) = Rank(s, q, k)
    BY RanksOfLinks
<1>3. Listings(Link(q, a, b)) = Listings(q)
    <2> DEFINE n == Link(q, a, b)
    <2>1. Matching(store, n) = Matching(store, q)
        BY <1>1
    <2>2. \A k : Rank(store, n, k) = Rank(store, q, k)
        BY <1>2
    <2> HIDE DEF n
    <2>3. \A l : l \in Listings(n) <=> l \in Listings(q)
        BY <2>1, <2>2 DEF Listings
    <2> QED  BY <2>3 DEF n, Listings
<1>4. IsTotal(q) => IsTotal(Link(q, a, b))
    BY <1>1, <1>2 DEF IsTotal
<1> QED  BY <1>3, <1>4 DEF Link

\* The places behind a record, and those up to one, are intervals.
LEMMA PlacesForwards ==
    ASSUME TypeOK, NEW q \in Query, IsTotal(q), ~Backwards(q), NEW l \in Listings(q),
           Places(q, l) # {}
    PROVE  \E m \in Nat : Places(q, l) = m + 1 .. Cardinality(Matching(store, q))
<1>1. DOMAIN l = 1 .. Cardinality(Matching(store, q)) /\ Cardinality(Matching(store, q)) \in Nat
    BY ListingFacts
<1>2. CASE q.after = NoId
    <2>1. Places(q, l) = 0 + 1 .. Cardinality(Matching(store, q))
        BY <1>1, <1>2 DEF Places
    <2> QED  BY <2>1
<1>3. CASE q.after # NoId
    <2>1. PICK p \in DOMAIN l : \E m \in 1 .. p : l[m].id = q.after
        BY <1>3 DEF Places
    <2>2. PICK m \in 1 .. p : l[m].id = q.after
        BY <2>1
    <2>3. m \in DOMAIN l /\ m \in Nat
        BY <1>1, <2>1, <2>2
    <2>4. \A i \in DOMAIN l : l[i].id = q.after => i = m
        BY <2>2, <2>3, PlacesByRank
    <2>5. ASSUME NEW i \in DOMAIN l  PROVE i \in Places(q, l) <=> m < i
        <3>1. 1 .. i \subseteq DOMAIN l
            BY <1>1
        <3> QED  BY <1>1, <1>3, <2>2, <2>3, <2>4, <3>1 DEF Places
    <2>6. Places(q, l) \subseteq DOMAIN l
        BY PagesAreParts
    <2>7. \A i : i \in DOMAIN l /\ m < i <=> i \in m + 1 .. Cardinality(Matching(store, q))
        BY <1>1, <2>3
    <2>8. Places(q, l) = m + 1 .. Cardinality(Matching(store, q))
        BY <2>5, <2>6, <2>7
    <2> QED  BY <2>3, <2>8
<1> QED  BY <1>2, <1>3

LEMMA PlacesBackwards ==
    ASSUME TypeOK, NEW q \in Query, IsTotal(q), Backwards(q), NEW l \in Listings(q),
           NEW last \in DOMAIN l, l[last].id = q.before
    PROVE  Places(q, l) = 1 .. last
<1>1. DOMAIN l = 1 .. Cardinality(Matching(store, q)) /\ Cardinality(Matching(store, q)) \in Nat
    BY ListingFacts
<1>2. \A i \in DOMAIN l : l[i].id = q.before => i = last
    BY PlacesByRank
<1>3. ASSUME NEW i \in DOMAIN l  PROVE i \in Places(q, l) <=> i <= last
    <2>1. 1 .. i - 1 \subseteq DOMAIN l
        BY <1>1
    <2>2. i \in Places(q, l) <=> \A m \in 1 .. i - 1 : l[m].id # q.before
        BY DEF Places, Backwards
    <2>3. (\A m \in 1 .. i - 1 : l[m].id # q.before) <=> last \notin 1 .. i - 1
        BY <1>2, <2>1
    <2>4. last \notin 1 .. i - 1 <=> i <= last
        BY <1>1
    <2> QED  BY <2>2, <2>3, <2>4
<1>4. Places(q, l) \subseteq DOMAIN l
    BY PagesAreParts
<1>5. \A i : i \in DOMAIN l /\ i <= last <=> i \in 1 .. last
    BY <1>1
<1> QED  BY <1>3, <1>4, <1>5

\* A page that has a link to the next one is full, and ends with the cursor of
\* the link; a page that goes back from there is the same.
LEMMA PageForwards ==
    ASSUME TypeOK, NEW q \in Query, IsTotal(q), ~Backwards(q), NEW l \in Listings(q),
           IsLimited(q, l), NEW last \in Last(Page(q, l))
    PROVE  /\ last \in DOMAIN l /\ q.limit \in 1 .. last
           /\ Page(q, l) = last - q.limit + 1 .. last
<1> DEFINE N == Cardinality(Matching(store, q))
<1>1. N \in Nat /\ q.limit \in Nat /\ q.limit > 0
    BY ListingFacts DEF IsLimited, Query
<1>2. last \in Page(q, l) /\ \A x \in Page(q, l) : x <= last
    BY DEF Last
<1>3. PICK m \in Nat : Places(q, l) = m + 1 .. N
    BY <1>2, PlacesForwards, PagesAreParts
<1> HIDE DEF N
<1>4. Cardinality(m + 1 .. N) = IF m + 1 > N THEN 0 ELSE N - m
    <2>1. m + 1 \in Int /\ N \in Int
        BY <1>1
    <2> QED  BY <1>1, <2>1, FS_Interval
<1>5. m + q.limit < N
    <2>1. Cardinality(m + 1 .. N) > q.limit
        BY <1>3 DEF IsLimited
    <2> QED  BY <1>1, <1>4, <2>1
<1>6. ASSUME NEW x \in m + 1 .. N
      PROVE  x \in Page(q, l) <=> x <= m + q.limit
    <2>1. {y \in Places(q, l) : y < x} = m + 1 .. x - 1
        BY <1>1, <1>3
    <2>2. Cardinality(m + 1 .. x - 1) = x - 1 - m
        <3>1. m + 1 \in Int /\ x - 1 \in Int
            BY <1>1
        <3>2. Cardinality(m + 1 .. x - 1) = IF m + 1 > x - 1 THEN 0 ELSE x - 1 - (m + 1) + 1
            BY <3>1, FS_Interval
        <3> QED  BY <1>1, <3>2
    <2>3. x \in Page(q, l) <=> Cardinality({y \in Places(q, l) : y < x}) < q.limit
        BY <1>3 DEF Page
    <2>4. x \in Page(q, l) <=> x - 1 - m < q.limit
        BY <2>1, <2>2, <2>3
    <2> QED  BY <1>1, <2>4
<1>7. Page(q, l) = m + 1 .. m + q.limit
    <2>1. Page(q, l) \subseteq m + 1 .. N
        BY <1>3, PagesAreParts
    <2>2. \A x : x \in m + 1 .. N /\ x <= m + q.limit <=> x \in m + 1 .. m + q.limit
        BY <1>1, <1>5
    <2> QED  BY <1>6, <2>1, <2>2
<1>8. last = m + q.limit
    <2>1. m + q.limit \in m + 1 .. m + q.limit
        BY <1>1
    <2>2. last \in m + 1 .. m + q.limit /\ m + q.limit <= last
        BY <1>2, <1>7, <2>1
    <2> QED  BY <1>1, <2>2
<1>9. last \in DOMAIN l
    BY <1>2, PagesAreParts
<1> QED  BY <1>1, <1>7, <1>8, <1>9

LEMMA PageBackwards ==
    ASSUME TypeOK, NEW q \in Query, IsTotal(q), Backwards(q), NEW l \in Listings(q),
           NEW last \in DOMAIN l, l[last].id = q.before, q.limit \in 1 .. last
    PROVE  Page(q, l) = last - q.limit + 1 .. last
<1>1. Places(q, l) = 1 .. last
    BY PlacesBackwards
<1>2. last \in Nat /\ q.limit \in Nat /\ q.limit >= 1 /\ q.limit <= last
    BY ListingFacts
<1>3. Cardinality(1 .. last) = last
    BY <1>2, FS_Interval
<1>4. CASE ~IsLimited(q, l)
    <2>1. q.limit = last
        BY <1>1, <1>2, <1>3, <1>4 DEF IsLimited
    <2>2. Page(q, l) = 1 .. last
        BY <1>1, <1>4 DEF Page
    <2> QED  BY <1>2, <2>1, <2>2
<1>5. CASE IsLimited(q, l)
    <2>1. ASSUME NEW x \in 1 .. last
          PROVE  x \in Page(q, l) <=> last - q.limit + 1 <= x
        <3>1. {y \in Places(q, l) : y > x} = x + 1 .. last
            BY <1>1, <1>2
        <3>2. Cardinality(x + 1 .. last) = last - x
            <4>1. x + 1 \in Int /\ last \in Int
                BY <1>2
            <4>2. Cardinality(x + 1 .. last) = IF x + 1 > last THEN 0 ELSE last - (x + 1) + 1
                BY <4>1, FS_Interval
            <4> QED  BY <1>2, <4>2
        <3>3. x \in Page(q, l) <=> Cardinality({y \in Places(q, l) : y > x}) < q.limit
            BY <1>1, <1>5 DEF Page
        <3>4. x \in Page(q, l) <=> last - x < q.limit
            BY <3>1, <3>2, <3>3
        <3> QED  BY <1>2, <3>4
    <2>2. Page(q, l) \subseteq 1 .. last
        BY <1>1, PagesAreParts
    <2>3. \A x : x \in 1 .. last /\ last - q.limit + 1 <= x
                    <=> x \in last - q.limit + 1 .. last
        BY <1>2
    <2> QED  BY <2>1, <2>2, <2>3
<1> QED  BY <1>4, <1>5

LEMMA Cursors == \A q, a, b : Link(q, a, b).after = a /\ Link(q, a, b).before = b
BY DEF Link

\* A query whose links are of the same list, without ties.
Orderly(q) == q \in Query /\ IsTotal(q) /\ (q.typed \/ q.type = AnyType)

\* The page is full and ends with the record id.
EndsWith(q, page, id) ==
    \E l \in Listings(q) : \E last \in DOMAIN l :
        /\ l[last].id = id
        /\ q.limit \in 1 .. last
        /\ page = {l[p] : p \in last - q.limit + 1 .. last}

\* The links of reader c begin where the pages of its trail end.
TrailTells(c) ==
    /\ asked[c] = NoQuery => next[c] = NoQuery /\ prev[c] = NoQuery /\ trail[c] = <<>>
    /\ next[c] # NoQuery =>
          next[c].after \in Ids /\ next[c] = Link(asked[c], next[c].after, NoId)
    /\ prev[c] # NoQuery =>
          prev[c].before \in Ids /\ prev[c] = Link(asked[c], NoId, prev[c].before)
    /\ Orderly(asked[c]) /\ next[c] # NoQuery /\ trail[c] # <<>> =>
          EndsWith(asked[c], trail[c][Len(trail[c])], next[c].after)
    /\ Orderly(asked[c]) /\ prev[c] # NoQuery /\ Len(trail[c]) = 2 =>
          EndsWith(asked[c], trail[c][1], prev[c].before)

TrailsTell == \A c \in Readers : TrailTells(c)

LEMMA FoundPage ==
    ASSUME TypeOK, NEW c \in Readers, NEW q \in Query, FindingRecords(c, q)
    PROVE  /\ \E l \in Listings(q) :
                 /\ items'[c] = {l[p] : p \in Page(q, l)}
                 /\ next'[c] \in NextLinks(q, l) /\ prev'[c] \in PrevLinks(q, l)
           /\ \A d \in Readers : d # c => next'[d] = next[d] /\ prev'[d] = prev[d]
<1>1. PICK l \in Listings(q) :
        /\ items' = [items EXCEPT ![c] = {l[p] : p \in Page(q, l)}]
        /\ \E link \in NextLinks(q, l) : next' = [next EXCEPT ![c] = link]
        /\ \E link \in PrevLinks(q, l) : prev' = [prev EXCEPT ![c] = link]
    BY DEF FindingRecords
<1>2. items'[c] = {l[p] : p \in Page(q, l)}
    BY <1>1 DEF TypeOK
<1>3. next'[c] \in NextLinks(q, l) /\ \A d \in Readers : d # c => next'[d] = next[d]
    BY <1>1 DEF TypeOK
<1>4. prev'[c] \in PrevLinks(q, l) /\ \A d \in Readers : d # c => prev'[d] = prev[d]
    BY <1>1 DEF TypeOK
<1> QED  BY <1>2, <1>3, <1>4

\* A page that begins a list, or is reached by going on, of the list that was
\* asked for with r.
LEMMA ForwardLinks ==
    ASSUME TypeOK, NEW c \in Readers, NEW r \in Query, NEW q \in Query,
           q = r \/ \E a \in Ids : q = Link(r, a, NoId),
           ~Backwards(q), FindingRecords(c, q)
    PROVE  /\ next'[c] # NoQuery =>
                 next'[c].after \in Ids /\ next'[c] = Link(r, next'[c].after, NoId)
           /\ Orderly(r) /\ next'[c] # NoQuery =>
                 EndsWith(r, items'[c], next'[c].after)
           /\ prev'[c] = IF q.after # NoId THEN Link(r, NoId, q.after) ELSE NoQuery
<1>1. PICK l \in Listings(q) :
        /\ items'[c] = {l[p] : p \in Page(q, l)}
        /\ next'[c] \in NextLinks(q, l) /\ prev'[c] \in PrevLinks(q, l)
    BY FoundPage
<1>2. ASSUME NEW after \in Ids \cup {NoId}, NEW before \in Ids \cup {NoId}
      PROVE  Link(q, after, before) = Link(r, after, before)
    BY LinksOfLinks
<1>3. q.after \in Ids \cup {NoId}
    BY DEF Query
<1>4. prev'[c] = IF q.after # NoId THEN Link(r, NoId, q.after) ELSE NoQuery
    BY <1>1, <1>2, <1>3 DEF PrevLinks
<1>5. ASSUME next'[c] # NoQuery
      PROVE  \E last \in Last(Page(q, l)) :
                 IsLimited(q, l) /\ next'[c] = Link(q, l[last].id, NoId)
    BY <1>1, <1>5 DEF NextLinks
<1>6. ASSUME next'[c] # NoQuery, NEW last \in Last(Page(q, l)), IsLimited(q, l),
             next'[c] = Link(q, l[last].id, NoId)
      PROVE  /\ next'[c].after \in Ids /\ next'[c] = Link(r, next'[c].after, NoId)
             /\ Orderly(r) => EndsWith(r, items'[c], next'[c].after)
    <2>1. last \in DOMAIN l
        BY PagesAreParts DEF Last
    <2>2. l[last].id \in Ids
        BY <2>1, ListingFacts DEF Matching, Ids
    <2>3. next'[c].after = l[last].id
        BY <1>6, Cursors
    <2>4. ASSUME Orderly(r)  PROVE EndsWith(r, items'[c], l[last].id)
        <3>1. Listings(q) = Listings(r) /\ IsTotal(q) /\ q.limit = r.limit
            <4>1. CASE q = r
                BY <2>4, <4>1 DEF Orderly
            <4>2. ASSUME NEW a \in Ids, q = Link(r, a, NoId)
                  PROVE  Listings(q) = Listings(r) /\ IsTotal(q) /\ q.limit = r.limit
                <5>1. /\ Listings(Link(r, a, NoId)) = Listings(r)
                      /\ IsTotal(Link(r, a, NoId)) /\ Link(r, a, NoId).limit = r.limit
                    BY <2>4, ListsOfLinks DEF Orderly
                <5> QED  BY <4>2, <5>1
            <4> QED  BY <4>1, <4>2
        <3>2. q.limit \in 1 .. last /\ Page(q, l) = last - q.limit + 1 .. last
            BY <1>6, <3>1, PageForwards
        <3> QED  BY <1>1, <2>1, <3>1, <3>2 DEF EndsWith
    <2> QED  BY <1>2, <1>6, <2>2, <2>3, <2>4
<1> QED  BY <1>4, <1>5, <1>6

\* A step of another reader, or one that panics, leaves a trail true.
LEMMA TrailStays ==
    ASSUME NEW c \in Readers, TrailTells(c), store' = store, asked'[c] = asked[c],
           \/ next'[c] = next[c] /\ prev'[c] = prev[c] /\ trail'[c] = trail[c]
           \/ next'[c] = NoQuery /\ prev'[c] = NoQuery /\ trail'[c] = trail[c]
    PROVE  TrailTells(c)'
<1>1. \A q : Orderly(q)' <=> Orderly(q)
    BY DEF Orderly, IsTotal, Matching, Rank, Field
<1>2. \A q, page, id : EndsWith(q, page, id)' <=> EndsWith(q, page, id)
    BY DEF EndsWith, Listings, Matching, Rank, Field
<1> QED  BY <1>1, <1>2 DEF TrailTells

LEMMA ListTells ==
    ASSUME TypeOK, NEW c \in Readers, TrailTells(c), NEW q \in Queries, List(c, q)
    PROVE  TrailTells(c)'
<1>1. /\ asked[c] = NoQuery /\ trail[c] = <<>> /\ store' = store
      /\ FindingRecords(c, q) /\ Trail(c)
    BY DEF List, TrailTells
<1>2. asked'[c] = q
    BY DEF List, TypeOK
<1>3. q \in Query /\ q.after = NoId /\ ~Backwards(q) /\ q # NoQuery
    BY QueriesAssumption, QueriesAreSome DEF Backwards
<1>4. trail'[c] = <<items'[c]>>
    BY <1>1 DEF Trail, TypeOK
<1>5. /\ next'[c] # NoQuery =>
            next'[c].after \in Ids /\ next'[c] = Link(q, next'[c].after, NoId)
      /\ Orderly(q) /\ next'[c] # NoQuery => EndsWith(q, items'[c], next'[c].after)
      /\ prev'[c] = NoQuery
    BY <1>1, <1>3, ForwardLinks
<1>6. trail'[c][Len(trail'[c])] = items'[c]
    BY <1>4
<1>7. \A r : Orderly(r)' <=> Orderly(r)
    BY <1>1 DEF Orderly, IsTotal, Matching, Rank, Field
<1>8. \A r, page, id : EndsWith(r, page, id)' <=> EndsWith(r, page, id)
    BY <1>1 DEF EndsWith, Listings, Matching, Rank, Field
<1> QED  BY <1>2, <1>3, <1>5, <1>6, <1>7, <1>8 DEF TrailTells

LEMMA GoOnTells ==
    ASSUME TypeOK, NEW c \in Readers, TrailTells(c), GoOn(c)
    PROVE  TrailTells(c)'
<1> DEFINE r == asked[c]
           n == next[c]
<1>1. /\ n # NoQuery /\ r # NoQuery /\ FindingRecords(c, n) /\ Trail(c)
      /\ n.after \in Ids /\ n = Link(r, n.after, NoId)
      /\ store' = store /\ asked'[c] = asked[c]
    BY DEF GoOn, TrailTells
<1>2. r \in Query /\ n \in Query
    BY <1>1, QueriesAssumption DEF TypeOK
<1>3. n.after # NoId /\ ~Backwards(n)
    BY <1>1, IdsAreNumbers DEF Backwards
<1>4. /\ next'[c] # NoQuery =>
            next'[c].after \in Ids /\ next'[c] = Link(r, next'[c].after, NoId)
      /\ Orderly(r) /\ next'[c] # NoQuery => EndsWith(r, items'[c], next'[c].after)
      /\ prev'[c] = Link(r, NoId, n.after)
    BY <1>1, <1>2, <1>3, ForwardLinks
<1>5. prev'[c].before = n.after
    BY <1>4, Cursors
<1>6. trail[c] \in Seq(SUBSET Keys)
    BY DEF TypeOK
<1>7. trail'[c] = IF trail[c] = <<>> THEN <<items'[c]>>
                  ELSE <<trail[c][Len(trail[c])], items'[c]>>
    BY <1>1 DEF Trail, TypeOK
<1>8. trail'[c][Len(trail'[c])] = items'[c] /\ trail'[c] # <<>>
    BY <1>7
<1>9. Len(trail'[c]) = 2 => trail[c] # <<>> /\ trail'[c][1] = trail[c][Len(trail[c])]
    BY <1>7
<1>10. Orderly(r) /\ Len(trail'[c]) = 2 => EndsWith(r, trail'[c][1], prev'[c].before)
    BY <1>1, <1>5, <1>9 DEF TrailTells
<1>11. \A q : Orderly(q)' <=> Orderly(q)
    BY <1>1 DEF Orderly, IsTotal, Matching, Rank, Field
<1>12. \A q, page, id : EndsWith(q, page, id)' <=> EndsWith(q, page, id)
    BY <1>1 DEF EndsWith, Listings, Matching, Rank, Field
<1> QED  BY <1>1, <1>4, <1>5, <1>8, <1>10, <1>11, <1>12 DEF TrailTells

LEMMA GoBackTells ==
    ASSUME TypeOK, NEW c \in Readers, TrailTells(c), GoBack(c)
    PROVE  TrailTells(c)'
<1> DEFINE r == asked[c]
           v == prev[c]
<1>1. /\ v # NoQuery /\ r # NoQuery /\ FindingRecords(c, v)
      /\ v.before \in Ids /\ v = Link(r, NoId, v.before)
      /\ asked'[c] = asked[c]
    BY DEF GoBack, TrailTells
<1>2. trail'[c] = <<>>
    BY DEF GoBack, TypeOK
<1>3. r \in Query /\ v \in Query
    BY <1>1, QueriesAssumption DEF TypeOK
<1>4. v.after = NoId
    <2>1. Link(r, NoId, v.before).after = NoId
        BY DEF Link
    <2> QED  BY <1>1, <2>1
<1>5. Backwards(v)
    BY <1>1, <1>4, IdsAreNumbers DEF Backwards
<1>6. PICK l \in Listings(v) : next'[c] \in NextLinks(v, l) /\ prev'[c] \in PrevLinks(v, l)
    BY <1>1, <1>3, FoundPage
<1>7. ASSUME NEW after \in Ids \cup {NoId}, NEW before \in Ids \cup {NoId}
      PROVE  /\ Link(v, after, before) = Link(r, after, before)
             /\ Link(v, after, before).after = after
             /\ Link(v, after, before).before = before
    <2>1. PICK b \in Ids : v = Link(r, NoId, b)
        BY <1>1
    <2>2. Link(Link(r, NoId, b), after, before) = Link(r, after, before)
        BY DEF Link
    <2> QED  BY <2>1, <2>2, Cursors
<1>8. next'[c].after \in Ids /\ next'[c] = Link(r, next'[c].after, NoId)
    <2>1. next'[c] = Link(v, v.before, NoId)
        BY <1>5, <1>6 DEF NextLinks
    <2> QED  BY <1>1, <1>7, <2>1
<1>9. prev'[c] # NoQuery =>
          prev'[c].before \in Ids /\ prev'[c] = Link(r, NoId, prev'[c].before)
    <2>1. \A p \in Page(v, l) : l[p].id \in Ids
        BY <1>3, ListingFacts, PagesAreParts DEF Matching, Ids
    <2>2. prev'[c] # NoQuery => \E p \in Page(v, l) : prev'[c] = Link(v, NoId, l[p].id)
        BY <1>4, <1>6 DEF PrevLinks, First
    <2> QED  BY <1>7, <2>1, <2>2
<1>10. Len(trail'[c]) # 2
    BY <1>2
<1> QED  BY <1>1, <1>2, <1>8, <1>9, <1>10 DEF TrailTells

LEMMA TrailsInductive ==
    ASSUME TypeOK, TrailsTell, [Next]_vars
    PROVE  TrailsTell'
<1> SUFFICES ASSUME NEW d \in Readers
             PROVE  TrailTells(d)'
    BY DEF TrailsTell
<1>1. TrailTells(d)
    BY DEF TrailsTell
<1>2. ASSUME NEW changed \in [Keys -> Values \cup {Absent}], UpdateRecords(changed)
      PROVE  TrailTells(d)'
    <2>1. /\ asked'[d] = asked[d] /\ next'[d] = next[d] /\ prev'[d] = prev[d]
          /\ trail'[d] = <<>>
        BY <1>2 DEF UpdateRecords
    <2>2. Len(trail'[d]) # 2
        BY <2>1
    <2> QED  BY <1>1, <2>1, <2>2 DEF TrailTells
<1>3. ASSUME NEW c \in Readers, NEW q \in Queries, List(c, q)
      PROVE  TrailTells(d)'
    <2>1. CASE d # c
        <3>1. next'[d] = next[d] /\ prev'[d] = prev[d]
            BY <1>3, <2>1, FoundPage, QueriesAssumption DEF List
        <3>2. store' = store /\ asked'[d] = asked[d] /\ trail'[d] = trail[d]
            BY <1>3, <2>1 DEF List, Trail, TypeOK
        <3> QED  BY <1>1, <3>1, <3>2, TrailStays
    <2> QED  BY <1>1, <1>3, <2>1, ListTells
<1>4. ASSUME NEW c \in Readers, GoOn(c)
      PROVE  TrailTells(d)'
    <2>1. CASE d # c
        <3>1. next[c] \in Query
            BY <1>4 DEF GoOn, TypeOK
        <3>2. next'[d] = next[d] /\ prev'[d] = prev[d]
            BY <1>4, <2>1, <3>1, FoundPage DEF GoOn
        <3>3. store' = store /\ asked'[d] = asked[d] /\ trail'[d] = trail[d]
            BY <1>4, <2>1 DEF GoOn, Trail, TypeOK
        <3> QED  BY <1>1, <3>2, <3>3, TrailStays
    <2> QED  BY <1>1, <1>4, <2>1, GoOnTells
<1>5. ASSUME NEW c \in Readers, GoBack(c)
      PROVE  TrailTells(d)'
    <2>1. CASE d # c
        <3>1. prev[c] \in Query
            BY <1>5 DEF GoBack, TypeOK
        <3>2. next'[d] = next[d] /\ prev'[d] = prev[d]
            BY <1>5, <2>1, <3>1, FoundPage DEF GoBack
        <3>3. store' = store /\ asked'[d] = asked[d] /\ trail'[d] = trail[d]
            BY <1>5, <2>1 DEF GoBack, TypeOK
        <3> QED  BY <1>1, <3>2, <3>3, TrailStays
    <2> QED  BY <1>1, <1>5, <2>1, GoBackTells
<1>6. ASSUME NEW c \in Readers, Panic(c)
      PROVE  TrailTells(d)'
    <2>1. store' = store /\ asked'[d] = asked[d] /\ trail'[d] = trail[d]
        BY <1>6 DEF Panic
    <2>2. \/ next'[d] = next[d] /\ prev'[d] = prev[d]
          \/ next'[d] = NoQuery /\ prev'[d] = NoQuery
        BY <1>6 DEF Panic, TypeOK
    <2> QED  BY <1>1, <2>1, <2>2, TrailStays
<1>7. CASE UNCHANGED vars
    BY <1>1, <1>7, TrailStays DEF vars
<1> QED  BY <1>2, <1>3, <1>4, <1>5, <1>6, <1>7 DEF Next

\* Prev is the way back, to the very records of the page before, for any store,
\* query and limit, in an order without ties.
THEOREM BackIsBack == Spec => PrevUndoesNext
<1>1. Init => TrailsTell
    BY DEF Init, TrailsTell, TrailTells
<1>2. ASSUME TypeOK, TrailsTell, NEW c \in Readers, Len(trail[c]) = 2, IsTotal(asked[c]),
             asked[c].typed \/ asked[c].type = AnyType, GoBack(c)
      PROVE  items'[c] = trail[c][1]
    <2> DEFINE r == asked[c]
               v == prev[c]
    <2>1. /\ v # NoQuery /\ r # NoQuery /\ FindingRecords(c, v) /\ TrailTells(c)
          /\ v.before \in Ids /\ v = Link(r, NoId, v.before)
        BY <1>2 DEF GoBack, TrailsTell, TrailTells
    <2>2. r \in Query /\ v \in Query
        BY <1>2, <2>1, QueriesAssumption DEF TypeOK
    <2>3. Orderly(r)
        BY <1>2, <2>2 DEF Orderly
    <2>4. EndsWith(r, trail[c][1], v.before)
        BY <1>2, <2>1, <2>3 DEF TrailTells
    <2>5. PICK l \in Listings(r) : \E last \in DOMAIN l :
              /\ l[last].id = v.before
              /\ r.limit \in 1 .. last
              /\ trail[c][1] = {l[p] : p \in last - r.limit + 1 .. last}
        BY <2>4 DEF EndsWith
    <2>6. PICK last \in DOMAIN l :
              /\ l[last].id = v.before
              /\ r.limit \in 1 .. last
              /\ trail[c][1] = {l[p] : p \in last - r.limit + 1 .. last}
        BY <2>5
    <2>7. Listings(v) = Listings(r) /\ IsTotal(v) /\ v.limit = r.limit
        <3>1. PICK b \in Ids : v = Link(r, NoId, b)
            BY <2>1
        <3>2. /\ Listings(Link(r, NoId, b)) = Listings(r)
              /\ IsTotal(Link(r, NoId, b)) /\ Link(r, NoId, b).limit = r.limit
            BY <2>2, <2>3, ListsOfLinks DEF Orderly
        <3> QED  BY <3>1, <3>2
    <2>8. Backwards(v)
        <3>1. Link(r, NoId, v.before).after = NoId
            BY DEF Link
        <3> QED  BY <2>1, <3>1, IdsAreNumbers DEF Backwards
    <2>9. PICK m \in Listings(v) : items'[c] = {m[p] : p \in Page(v, m)}
        BY <1>2, <2>1, <2>2, FoundPage
    <2>10. ASSUME NEW p \in DOMAIN l  PROVE p \in DOMAIN m /\ m[p] = l[p]
        <3>1. l \in Listings(v) /\ m \in Listings(v) /\ IsTotal(v)
            BY <2>7, <2>9
        <3> HIDE DEF v
        <3> QED  BY <1>2, <2>2, <3>1, ListIsUnique
    <2>11. Page(v, m) = last - r.limit + 1 .. last
        <3>1. last \in DOMAIN m /\ m[last].id = v.before
            BY <2>6, <2>10
        <3>2. v \in Query /\ IsTotal(v) /\ Backwards(v) /\ m \in Listings(v)
              /\ v.limit \in 1 .. last
            BY <2>2, <2>6, <2>7, <2>8, <2>9
        <3> HIDE DEF v
        <3>3. Page(v, m) = last - v.limit + 1 .. last
            BY <1>2, <3>1, <3>2, PageBackwards
        <3> QED  BY <2>7, <3>3
    <2>12. last - r.limit + 1 .. last \subseteq DOMAIN l
        BY <2>2, <2>6, ListingFacts
    <2> QED  BY <2>6, <2>9, <2>10, <2>11, <2>12
<1>3. TypeOK /\ TrailsTell /\ [Next]_vars =>
        [\A c \in Readers :
            /\ Len(trail[c]) = 2
            /\ IsTotal(asked[c])
            /\ asked[c].typed \/ asked[c].type = AnyType
            /\ GoBack(c)
            => items'[c] = trail[c][1]]_vars
    BY <1>2
<1> QED  BY <1>1, <1>3, TrailsInductive, TypeCorrect, PTL DEF Spec, PrevUndoesNext
=============================================================================
