-------------------------- MODULE RepositoryProofs --------------------------
(***************************************************************************)
(* Theorems about Repository for every set of keys, payloads and clients,  *)
(* every width of the version counter and every bound on the log; and      *)
(* about TypedRepository, which uses it as any client may, so that all     *)
(* that is shown of Spec holds below it: its indices count every save      *)
(* once, for any clients, records, groups and batches.                     *)
(*                                                                         *)
(* The argument for the indices is HeldBoundsStore, applied to an index: a *)
(* batch that is accepted was combined with the index that is stored,      *)
(* since a version that is still the same means that nothing was saved in  *)
(* between.                                                                *)
(***************************************************************************)
EXTENDS TypedRepository, FiniteSetTheorems, SequenceTheorems, TLAPS

-----------------------------------------------------------------------------
(* Lemmas about the operators *)

\* The values that stand for "not in the store" and "never read" are told
\* apart from every record.
LEMMA AbsentIsNoRecord ==
    /\ Absent \notin Record
    /\ NotRead \notin Record
    /\ Absent # NotRead
BY DEF Absent, NotRead, Record, Versions

\* Ranging over a map visits every one of its keys, and each of them once.
LEMMA OrderVisitsEachKeyOnce ==
    ASSUME NEW S \in SUBSET Keys, NEW o \in Orders(S)
    PROVE  /\ Cardinality(S) \in Nat
           /\ o \in [1 .. Cardinality(S) -> S]
           /\ \A k \in S : \E i \in 1 .. Cardinality(S) : o[i] = k
           /\ \A i, j \in 1 .. Cardinality(S) : o[i] = o[j] => i = j
<1>1. IsFiniteSet(S)
  BY KeysAssumption, FS_Subset
<1>2. Cardinality(S) \in Nat
  BY <1>1, FS_CardinalityType
<1>3. QED
  BY <1>2 DEF Orders, Bijection, Injection, Surjection, IsInjective

\* What a save writes is a record, one version after the record it replaces.
LEMMA WrittenType ==
    ASSUME TypeOK, NEW c \in Clients, NEW policy \in Policies,
           NEW k \in Keys, NEW d \in Payloads, held[c][k] # NotRead
    PROVE  Written(c, policy, k, d) \in Record
<1>1. SentVersion(c, k) \in Int
  BY AbsentIsNoRecord DEF TypeOK, SentVersion, Record, Versions
<1>2. store[k] # Absent => store[k].version \in Int
  BY DEF TypeOK, Record, Versions
<1>3. \A n \in Int : (n + 1) % VersionLimit \in Versions
  BY VersionLimitAssumption DEF Versions
<1>4. QED
  BY <1>1, <1>2, <1>3 DEF Written, Record

\* The log l2 is the log l and one change per key of S, in the order o, with
\* the key's record before and after; and the same for the origins.
AppendsChanges(l, l2, S, o, s, t) ==
    /\ l2 \in Seq(Change)
    /\ Len(l2) = Len(l) + Cardinality(S)
    /\ \A i \in 1 .. Len(l) : l2[i] = l[i]
    /\ \A i \in 1 .. Cardinality(S) :
          l2[Len(l) + i] = [key |-> o[i], before |-> s[o[i]], after |-> t[o[i]]]

AppendsOrigins(l, l2, S, o, p, c) ==
    /\ l2 \in Seq(Origin)
    /\ Len(l2) = Len(l) + Cardinality(S)
    /\ \A i \in 1 .. Len(l) : l2[i] = l[i]
    /\ \A i \in 1 .. Cardinality(S) :
          l2[Len(l) + i] = [policy |-> p, since |-> readAt[c][o[i]]]

\* What the body of a loop over a map appends.
LEMMA LoopAppends ==
    ASSUME NEW S \in SUBSET Keys, NEW o \in Orders(S),
           NEW s \in [Keys -> Record \cup {Absent}],
           NEW t \in [Keys -> Record \cup {Absent}],
           NEW l \in Seq(Change)
    PROVE  AppendsChanges(l, l \o ChangesOf(o, s, t), S, o, s, t)
<1> DEFINE n == Cardinality(S)
           b == ChangesOf(o, s, t)
<1>1. /\ n \in Nat
      /\ o \in [1 .. n -> S]
  BY OrderVisitsEachKeyOnce
<1>2. b = [i \in 1 .. n |-> [key |-> o[i], before |-> s[o[i]], after |-> t[o[i]]]]
  BY <1>1 DEF ChangesOf
<1>3. \A i \in 1 .. n :
         [key |-> o[i], before |-> s[o[i]], after |-> t[o[i]]] \in Change
  BY <1>1 DEF Change
<1>4. b \in Seq(Change)
  BY <1>1, <1>2, <1>3, IsASeq
<1>5. Len(b) = n
  BY <1>1, <1>2, <1>4, LenProperties
<1> HIDE DEF b, n
<1>6. /\ l \o b \in Seq(Change)
      /\ Len(l \o b) = Len(l) + n
      /\ \A i \in 1 .. Len(l) + n :
            (l \o b)[i] = IF i <= Len(l) THEN l[i] ELSE b[i - Len(l)]
  BY <1>4, <1>5, ConcatProperties
<1>7. Len(l) \in Nat
  BY LenProperties
<1>8. \A i \in 1 .. n : (l \o b)[Len(l) + i] = b[i]
  BY <1>1, <1>6, <1>7
<1>9. \A i \in 1 .. Len(l) : (l \o b)[i] = l[i]
  BY <1>1, <1>6, <1>7
<1>10. QED
  BY <1>1, <1>2, <1>6, <1>8, <1>9 DEF b, n, AppendsChanges

LEMMA LoopOrigins ==
    ASSUME TypeOK, NEW S \in SUBSET Keys, NEW o \in Orders(S),
           NEW c \in Clients, NEW p \in Policies \cup {"delete"},
           NEW l \in Seq(Origin)
    PROVE  AppendsOrigins(l, l \o OriginsOf(o, p, c), S, o, p, c)
<1> DEFINE n == Cardinality(S)
           b == OriginsOf(o, p, c)
<1>1. /\ n \in Nat
      /\ o \in [1 .. n -> S]
  BY OrderVisitsEachKeyOnce
<1>2. b = [i \in 1 .. n |-> [policy |-> p, since |-> readAt[c][o[i]]]]
  BY <1>1 DEF OriginsOf
<1>3. \A i \in 1 .. n : [policy |-> p, since |-> readAt[c][o[i]]] \in Origin
  BY <1>1 DEF Origin, TypeOK
<1>4. b \in Seq(Origin)
  BY <1>1, <1>2, <1>3, IsASeq
<1>5. Len(b) = n
  BY <1>1, <1>2, <1>4, LenProperties
<1> HIDE DEF b, n, AppendsOrigins
<1>6. /\ l \o b \in Seq(Origin)
      /\ Len(l \o b) = Len(l) + n
      /\ \A i \in 1 .. Len(l) + n :
            (l \o b)[i] = IF i <= Len(l) THEN l[i] ELSE b[i - Len(l)]
  BY <1>4, <1>5, ConcatProperties
<1>7. Len(l) \in Nat
  BY LenProperties
<1>8. \A i \in 1 .. n : (l \o b)[Len(l) + i] = b[i]
  BY <1>1, <1>6, <1>7
<1>9. \A i \in 1 .. Len(l) : (l \o b)[i] = l[i]
  BY <1>1, <1>6, <1>7
<1>10. QED
  BY <1>1, <1>2, <1>6, <1>8, <1>9 DEF b, n, AppendsOrigins

\* The entries that a step adds to the log.
NewEntries == (Len(log) + 1) .. Len(log')

\* What an accepted call of UpdateRecords does, entry by entry: the earlier
\* entries stay, each new one is the save of a key that no earlier new entry
\* changed, or the deletion of one that no later new entry changes, and each
\* key of the batch has its entry.
Accepts(c, policy, saving, deleting, data) ==
    LET saved == AfterSaves(c, policy, saving, data)
        gone == {k \in deleting : saved[k] # Absent}
    IN  /\ saved \in [Keys -> Record \cup {Absent}]
        /\ store' = AfterDeletes(saved, deleting)
        /\ log' \in Seq(Change)
        /\ origin' \in Seq(Origin)
        /\ Len(origin') = Len(log')
        /\ Len(log') = Len(log) + Cardinality(saving) + Cardinality(gone)
        /\ Len(log) <= Len(log')
        /\ \A i \in 1 .. Len(log) :
              log'[i] = log[i] /\ origin'[i] = origin[i]
        /\ \A i \in NewEntries :
              LET k == log'[i].key
              IN  \/ /\ k \in saving
                     /\ log'[i] = [key |-> k, before |-> store[k],
                                   after |-> saved[k]]
                     /\ origin'[i] = [policy |-> policy,
                                      since |-> readAt[c][k]]
                     /\ \A j \in NewEntries : j < i => log'[j].key # k
                  \/ /\ k \in gone
                     /\ log'[i] = [key |-> k, before |-> saved[k],
                                   after |-> Absent]
                     /\ origin'[i].policy = "delete"
                     /\ \A j \in NewEntries : i < j => log'[j].key # k
        /\ \A k \in saving :
              \E i \in NewEntries : log'[i].key = k /\ log'[i].after = saved[k]
        /\ \A k \in gone :
              \E i \in NewEntries : log'[i].key = k /\ log'[i].after = Absent

LEMMA AcceptedBatch ==
    ASSUME TypeOK, NEW c \in Clients, NEW policy \in Policies,
           NEW saving \in SUBSET Keys, NEW deleting \in SUBSET Keys,
           NEW data \in [saving -> Payloads],
           UpdateRecords(c, policy, saving, deleting, data),
           ~Conflicts(c, policy, saving)
    PROVE  Accepts(c, policy, saving, deleting, data)
<1> DEFINE saved == AfterSaves(c, policy, saving, data)
           gone == {k \in deleting : saved[k] # Absent}
           after == AfterDeletes(saved, deleting)
           n == Cardinality(saving)
           m == Cardinality(gone)
<1>1. saved \in [Keys -> Record \cup {Absent}]
  BY WrittenType DEF AfterSaves, TypeOK, UpdateRecords
<1>2. after \in [Keys -> Record \cup {Absent}]
  BY <1>1 DEF AfterDeletes
<1>3. gone \in SUBSET Keys
  OBVIOUS
<1>4. store' = after
  BY DEF UpdateRecords
<1>a. gone \subseteq deleting /\ \A k \in gone : after[k] = Absent /\ k \in Keys
  BY DEF AfterDeletes
<1>b. /\ store \in [Keys -> Record \cup {Absent}]
      /\ log \in Seq(Change) /\ origin \in Seq(Origin)
      /\ Len(origin) = Len(log) /\ Len(log) \in Nat
  BY LenProperties DEF TypeOK
<1> HIDE DEF saved, gone, after
<1>5. PICK so \in Orders(saving), do \in Orders(gone) :
         /\ log' = (log \o ChangesOf(so, store, saved)) \o ChangesOf(do, saved, after)
         /\ origin' = (origin \o OriginsOf(so, policy, c)) \o OriginsOf(do, "delete", c)
  BY <1>4 DEF UpdateRecords, saved, gone
<1> DEFINE l1 == log \o ChangesOf(so, store, saved)
           o1 == origin \o OriginsOf(so, policy, c)
<1>6. /\ n \in Nat /\ so \in [1 .. n -> saving]
      /\ \A k \in saving : \E i \in 1 .. n : so[i] = k
      /\ \A i, j \in 1 .. n : so[i] = so[j] => i = j
  BY OrderVisitsEachKeyOnce
<1>7. /\ m \in Nat /\ do \in [1 .. m -> gone]
      /\ \A k \in gone : \E i \in 1 .. m : do[i] = k
      /\ \A i, j \in 1 .. m : do[i] = do[j] => i = j
  BY <1>3, OrderVisitsEachKeyOnce
<1>8. /\ l1 \in Seq(Change) /\ Len(l1) = Len(log) + n
      /\ \A i \in 1 .. Len(log) : l1[i] = log[i]
      /\ \A i \in 1 .. n : l1[Len(log) + i] =
            [key |-> so[i], before |-> store[so[i]], after |-> saved[so[i]]]
  <2>1. AppendsChanges(log, l1, saving, so, store, saved)
    BY <1>1, <1>b, LoopAppends
  <2>2. QED
    BY <2>1 DEF AppendsChanges
<1>9. /\ o1 \in Seq(Origin) /\ Len(o1) = Len(origin) + n
      /\ \A i \in 1 .. Len(origin) : o1[i] = origin[i]
      /\ \A i \in 1 .. n : o1[Len(origin) + i] =
            [policy |-> policy, since |-> readAt[c][so[i]]]
  <2>1. AppendsOrigins(origin, o1, saving, so, policy, c)
    BY <1>b, LoopOrigins
  <2>2. QED
    BY <2>1 DEF AppendsOrigins
<1> HIDE DEF n, m, l1, o1
<1>10. /\ log' \in Seq(Change) /\ Len(log') = Len(l1) + m
       /\ \A i \in 1 .. Len(l1) : log'[i] = l1[i]
       /\ \A i \in 1 .. m : log'[Len(l1) + i] =
             [key |-> do[i], before |-> saved[do[i]], after |-> after[do[i]]]
  <2>1. AppendsChanges(l1, log', gone, do, saved, after)
    BY <1>1, <1>2, <1>3, <1>5, <1>8, LoopAppends DEF l1
  <2>2. QED
    BY <2>1 DEF AppendsChanges, m
<1>11. /\ origin' \in Seq(Origin) /\ Len(origin') = Len(o1) + m
       /\ \A i \in 1 .. Len(o1) : origin'[i] = o1[i]
       /\ \A i \in 1 .. m : origin'[Len(o1) + i] =
             [policy |-> "delete", since |-> readAt[c][do[i]]]
  <2>1. AppendsOrigins(o1, origin', gone, do, "delete", c)
    BY <1>3, <1>5, <1>9, LoopOrigins DEF o1
  <2>2. QED
    BY <2>1 DEF AppendsOrigins, m
<1>12. Len(log) \in Nat /\ Len(origin) = Len(log)
  BY <1>b
<1>13. \A k \in gone : after[k] = Absent /\ k \in Keys
  BY <1>a
<1>14. \A i \in 1 .. Len(log) : log'[i] = log[i] /\ origin'[i] = origin[i]
  BY <1>6, <1>8, <1>9, <1>10, <1>11, <1>12
<1>15. \A i \in 1 .. n :
          /\ log'[Len(log) + i] = [key |-> so[i], before |-> store[so[i]],
                                   after |-> saved[so[i]]]
          /\ origin'[Len(log) + i] = [policy |-> policy,
                                      since |-> readAt[c][so[i]]]
  <2>1. SUFFICES ASSUME NEW i \in 1 .. n
                 PROVE  /\ log'[Len(log) + i] = l1[Len(log) + i]
                        /\ origin'[Len(log) + i] = o1[Len(origin) + i]
    BY <1>8, <1>9, <1>12
  <2>2. /\ Len(log) + i \in 1 .. Len(l1)
        /\ Len(origin) + i \in 1 .. Len(o1)
    BY <1>6, <1>8, <1>9, <1>12
  <2>3. QED
    BY <2>2, <1>10, <1>11, <1>12
<1>16. \A i \in 1 .. m :
          /\ log'[Len(log) + n + i] = [key |-> do[i], before |-> saved[do[i]],
                                       after |-> Absent]
          /\ origin'[Len(log) + n + i].policy = "delete"
  <2>1. Len(l1) = Len(log) + n /\ Len(o1) = Len(log) + n
    BY <1>8, <1>9, <1>12
  <2>2. \A i \in 1 .. m : after[do[i]] = Absent
    BY <1>7, <1>13
  <2>3. SUFFICES ASSUME NEW i \in 1 .. m
                 PROVE  /\ log'[Len(l1) + i] = [key |-> do[i], before |-> saved[do[i]],
                                                after |-> Absent]
                        /\ origin'[Len(o1) + i].policy = "delete"
    BY <2>1
  <2>4. log'[Len(l1) + i] = [key |-> do[i], before |-> saved[do[i]], after |-> after[do[i]]]
    BY <1>10
  <2>5. origin'[Len(o1) + i] = [policy |-> "delete", since |-> readAt[c][do[i]]]
    BY <1>11
  <2>6. QED
    BY <2>2, <2>4, <2>5
<1>17. Len(log') = Len(log) + n + m /\ Len(origin') = Len(log')
  BY <1>6, <1>7, <1>8, <1>9, <1>10, <1>11, <1>12
<1>18. \A i \in NewEntries : \/ \E x \in 1 .. n : i = Len(log) + x
                             \/ \E x \in 1 .. m : i = Len(log) + n + x
  <2>1. SUFFICES ASSUME NEW i \in NewEntries
                 PROVE  \/ i - Len(log) \in 1 .. n /\ i = Len(log) + (i - Len(log))
                        \/ /\ i - Len(log) - n \in 1 .. m
                           /\ i = Len(log) + n + (i - Len(log) - n)
    OBVIOUS
  <2>2. QED
    BY <1>6, <1>7, <1>12, <1>17 DEF NewEntries
<1>19. \A x \in 1 .. n : Len(log) + x \in NewEntries
  BY <1>6, <1>7, <1>12, <1>17 DEF NewEntries
<1>20. \A x \in 1 .. m : Len(log) + n + x \in NewEntries
  BY <1>6, <1>7, <1>12, <1>17 DEF NewEntries
<1>21. ASSUME NEW i \in NewEntries
       PROVE  LET k == log'[i].key
              IN  \/ /\ k \in saving
                     /\ log'[i] = [key |-> k, before |-> store[k],
                                   after |-> saved[k]]
                     /\ origin'[i] = [policy |-> policy, since |-> readAt[c][k]]
                     /\ \A j \in NewEntries : j < i => log'[j].key # k
                  \/ /\ k \in gone
                     /\ log'[i] = [key |-> k, before |-> saved[k],
                                   after |-> Absent]
                     /\ origin'[i].policy = "delete"
                     /\ \A j \in NewEntries : i < j => log'[j].key # k
  <2>1. CASE \E x \in 1 .. n : i = Len(log) + x
    <3>1. PICK x \in 1 .. n : i = Len(log) + x
      BY <2>1
    <3>2. /\ log'[i] = [key |-> so[x], before |-> store[so[x]],
                         after |-> saved[so[x]]]
          /\ origin'[i] = [policy |-> policy, since |-> readAt[c][so[x]]]
      <4>1. /\ log'[Len(log) + x] = [key |-> so[x], before |-> store[so[x]],
                                     after |-> saved[so[x]]]
            /\ origin'[Len(log) + x] = [policy |-> policy,
                                        since |-> readAt[c][so[x]]]
        BY <1>15
      <4>2. QED
        BY <3>1, <4>1
    <3>3. ASSUME NEW j \in NewEntries, j < i
          PROVE  log'[j].key # so[x]
      <4>1. PICK y \in 1 .. n : j = Len(log) + y
        <5>1. j \in Nat /\ j <= Len(log) + n
          BY <3>1, <3>3, <1>6, <1>7, <1>12, <1>17 DEF NewEntries
        <5>2. ~ \E y \in 1 .. m : j = Len(log) + n + y
          BY <5>1, <1>6, <1>7, <1>12
        <5>3. QED
          BY <1>18, <5>2
      <4>2. log'[j].key = so[y]
        <5>1. log'[Len(log) + y] = [key |-> so[y], before |-> store[so[y]],
                                   after |-> saved[so[y]]]
          BY <1>15
        <5>2. QED
          BY <4>1, <5>1
      <4>3. x # y
        BY <3>1, <3>3, <4>1, <1>6, <1>12
      <4>4. QED
        BY <4>2, <4>3, <1>6
    <3>4. QED
      BY <3>2, <3>3, <1>6
  <2>2. CASE \E x \in 1 .. m : i = Len(log) + n + x
    <3>1. PICK x \in 1 .. m : i = Len(log) + n + x
      BY <2>2
    <3>2. /\ log'[i] = [key |-> do[x], before |-> saved[do[x]], after |-> Absent]
          /\ origin'[i].policy = "delete"
      BY <3>1, <1>16
    <3>3. do[x] \in gone
      BY <1>7
    <3>4. ASSUME NEW j \in NewEntries, i < j
          PROVE  log'[j].key # do[x]
      <4>1. PICK y \in 1 .. m : j = Len(log) + n + y
        <5>1. j \in Nat /\ j > Len(log) + n
          BY <3>1, <3>4, <1>6, <1>7, <1>12, <1>17 DEF NewEntries
        <5>2. ~ \E y \in 1 .. n : j = Len(log) + y
          BY <5>1, <1>6, <1>7, <1>12
        <5>3. QED
          BY <1>18, <5>2
      <4>2. log'[j].key = do[y]
        <5>1. log'[Len(log) + n + y] = [key |-> do[y], before |-> saved[do[y]],
                                       after |-> Absent]
          BY <1>16
        <5>2. QED
          BY <4>1, <5>1
      <4>3. x # y
        BY <3>1, <3>4, <4>1, <1>6, <1>7, <1>12
      <4>4. QED
        BY <4>2, <4>3, <1>7
    <3>5. QED
      BY <3>2, <3>3, <3>4
  <2>3. QED
    BY <2>1, <2>2, <1>18
<1>22. ASSUME NEW k \in saving
       PROVE  \E i \in NewEntries : log'[i].key = k /\ log'[i].after = saved[k]
  <2>1. PICK x \in 1 .. n : so[x] = k
    BY <1>6
  <2>2. /\ Len(log) + x \in NewEntries
        /\ log'[Len(log) + x] = [key |-> k, before |-> store[k], after |-> saved[k]]
    BY <2>1, <1>15, <1>19
  <2>3. QED
    BY <2>2
<1>23. ASSUME NEW k \in gone
       PROVE  \E i \in NewEntries : log'[i].key = k /\ log'[i].after = Absent
  <2>1. PICK x \in 1 .. m : do[x] = k
    BY <1>7
  <2>2. /\ Len(log) + n + x \in NewEntries
        /\ log'[Len(log) + n + x] = [key |-> k, before |-> saved[k], after |-> Absent]
    BY <2>1, <1>16, <1>20
  <2>3. QED
    BY <2>2
<1>24. Len(log) <= Len(log')
  BY <1>6, <1>7, <1>12, <1>17
<1>25. QED
  BY <1>1, <1>4, <1>10, <1>11, <1>14, <1>17, <1>21, <1>22, <1>23, <1>24
     DEF saved, gone, after, n, m, Accepts

\* A save that passes the version check takes the next version of the record.
LEMMA SavedVersion ==
    ASSUME TypeOK, NEW c \in Clients, NEW policy \in Policies,
           NEW saving \in SUBSET Keys, NEW k \in saving, NEW d \in Payloads,
           ~Conflicts(c, policy, saving), store[k] # Absent
    PROVE  /\ store[k].version \in Versions
           /\ Written(c, policy, k, d).version
                  = (store[k].version + 1) % VersionLimit
<1>1. policy = IfServerNotChanged \/ policy = OverwriteServerChanges
  BY PoliciesAssumption
<1>2. policy # OverwriteServerChanges => SentVersion(c, k) = store[k].version
  BY <1>1 DEF Conflicts
<1>3. store[k].version \in Versions
  BY DEF TypeOK, Record
<1>4. QED
  BY <1>2, <1>3 DEF Written

\* Next, one call at a time.
LEMMA StepCases ==
    ASSUME [Next]_vars
    PROVE  \/ \E c \in Clients, k \in Keys : Get(c, k)
           \/ \E c \in Clients, policy \in Policies, saving \in SUBSET Keys,
                 deleting \in SUBSET Keys :
                 \E data \in [saving -> Payloads] :
                     UpdateRecords(c, policy, saving, deleting, data)
           \/ UNCHANGED vars
BY DeletionsAssumption DEF Next

-----------------------------------------------------------------------------
(* Type correctness *)

LEMMA TypeInit == Init => TypeOK
BY EmptySeq DEF Init, TypeOK

LEMMA TypeStep == TypeOK /\ [Next]_vars => TypeOK'
<1> SUFFICES ASSUME TypeOK, [Next]_vars PROVE TypeOK'
  OBVIOUS
<1>1. CASE \E c \in Clients, k \in Keys : Get(c, k)
  <2>1. PICK c \in Clients, k \in Keys : Get(c, k)
    BY <1>1
  <2>2. Len(log) \in Nat
    BY LenProperties DEF TypeOK
  <2>3. QED
    BY <2>1, <2>2 DEF Get, TypeOK
<1>2. ASSUME NEW c \in Clients, NEW policy \in Policies,
             NEW saving \in SUBSET Keys, NEW deleting \in SUBSET Keys,
             NEW data \in [saving -> Payloads],
             UpdateRecords(c, policy, saving, deleting, data)
      PROVE  TypeOK'
  <2>1. CASE Conflicts(c, policy, saving)
    BY <1>2, <2>1 DEF UpdateRecords, TypeOK
  <2>2. CASE ~Conflicts(c, policy, saving)
    <3>1. /\ store' \in [Keys -> Record \cup {Absent}]
          /\ log' \in Seq(Change)
          /\ origin' \in Seq(Origin)
          /\ Len(origin') = Len(log')
      <4>1. Accepts(c, policy, saving, deleting, data)
        BY <1>2, <2>2, AcceptedBatch
      <4>2. QED
        BY <4>1 DEF Accepts, AfterDeletes
    <3>2. /\ outcome' \in [Clients -> {"none", "saved", "conflict"}]
          /\ UNCHANGED <<held, readAt>>
      BY <1>2, <2>2 DEF UpdateRecords, TypeOK
    <3>3. QED
      BY <3>1, <3>2 DEF TypeOK
  <2>3. QED
    BY <2>1, <2>2
<1>3. CASE UNCHANGED vars
  BY <1>3 DEF vars, TypeOK, Change, Record, Versions, Origin
<1>4. QED
  BY <1>1, <1>2, <1>3, StepCases

\* Every state of the repository has the types that TypeOK gives it.
THEOREM TypeCorrect == Spec => []TypeOK
<1>1. QED
  BY TypeInit, TypeStep, PTL DEF Spec

-----------------------------------------------------------------------------
(* What a held record says about the store *)

\* The changes of a key that were unseen stay so, as they were, and an
\* accepted batch adds one exactly when it changes the key.
LEMMA UnseenGrows ==
    ASSUME TypeOK, NEW c \in Clients, NEW policy \in Policies,
           NEW saving \in SUBSET Keys, NEW deleting \in SUBSET Keys,
           NEW data \in [saving -> Payloads],
           Accepts(c, policy, saving, deleting, data),
           readAt' = readAt,
           NEW c0 \in Clients, NEW k0 \in Keys, readAt[c0][k0] <= Len(log)
    PROVE  /\ \A j \in Unseen(c0, k0) : j \in Unseen(c0, k0)' /\ log'[j] = log[j]
           /\ \A i \in NewEntries : log'[i].key = k0 => i \in Unseen(c0, k0)'
           /\ \A j \in Unseen(c0, k0)' : j \in Unseen(c0, k0) \/ j \in NewEntries
<1>1. /\ Len(log) \in Nat /\ DOMAIN log = 1 .. Len(log)
      /\ Len(log') \in Nat /\ DOMAIN log' = 1 .. Len(log')
      /\ Len(log) <= Len(log')
      /\ \A i \in 1 .. Len(log) : log'[i] = log[i]
  BY LenProperties DEF TypeOK, Accepts
<1>2. readAt[c0][k0] \in Nat
  BY DEF TypeOK
<1>3. QED
  BY <1>1, <1>2 DEF Unseen, ChangesBetween, NewEntries

\* A step leaves key k alone.
Untouched(k) ==
    /\ store'[k] = store[k]
    /\ \A i \in NewEntries : log'[i].key # k

\* An accepted batch that does not name a key leaves it alone.
LEMMA UntouchedKey ==
    ASSUME TypeOK, NEW c \in Clients, NEW policy \in Policies,
           NEW saving \in SUBSET Keys, NEW deleting \in SUBSET Keys,
           NEW data \in [saving -> Payloads],
           Accepts(c, policy, saving, deleting, data),
           NEW k0 \in Keys, k0 \notin saving,
           k0 \notin deleting \/ store[k0] = Absent
    PROVE  Untouched(k0)
<1>1. AfterSaves(c, policy, saving, data)[k0] = store[k0]
  BY DEF AfterSaves
<1>2. store'[k0] = store[k0]
  BY <1>1 DEF Accepts, AfterDeletes
<1>3. \A i \in NewEntries :
         \/ log'[i].key \in saving
         \/ /\ log'[i].key \in deleting
            /\ AfterSaves(c, policy, saving, data)[log'[i].key] # Absent
  BY DEF Accepts
<1>4. QED
  BY <1>1, <1>2, <1>3 DEF Untouched

LEMMA HeldInit == Init => HeldBoundsStore
BY DEF Init, HeldBoundsStore

LEMMA HeldStep == TypeOK /\ HeldBoundsStore /\ [Next]_vars => HeldBoundsStore'
<1> SUFFICES ASSUME TypeOK, HeldBoundsStore, [Next]_vars PROVE HeldBoundsStore'
  OBVIOUS
<1> DEFINE Bounds(c, k) ==
        held[c][k] # NotRead
            => /\ readAt[c][k] <= Len(log)
               /\ Unseen(c, k) = {} => store[k] = held[c][k]
               /\ /\ Unseen(c, k) # {}
                  /\ \A j \in Unseen(c, k) :
                        log[j].after # Absent /\ log[j].after.version # 0
                  => store[k] # Absent /\ store[k].version > SentVersion(c, k)
<1>0. Len(log) \in Nat /\ DOMAIN log = 1 .. Len(log)
  BY LenProperties DEF TypeOK
<1>1. CASE \E c \in Clients, k \in Keys : Get(c, k)
  <2>1. PICK c \in Clients, k \in Keys : Get(c, k)
    BY <1>1
  <2>2. SUFFICES ASSUME NEW c0 \in Clients, NEW k0 \in Keys PROVE Bounds(c0, k0)'
    BY DEF HeldBoundsStore
  <2>3. CASE c0 = c /\ k0 = k
    <3>1. /\ readAt'[c0][k0] = Len(log)
          /\ held'[c0][k0] = store[k0]
          /\ UNCHANGED <<store, log>>
      BY <2>1, <2>3 DEF Get, TypeOK
    <3>2. Unseen(c0, k0)' = {}
      BY <1>0, <3>1 DEF Unseen, ChangesBetween
    <3>3. QED
      BY <1>0, <3>1, <3>2
  <2>4. CASE ~(c0 = c /\ k0 = k)
    <3>1. /\ readAt'[c0][k0] = readAt[c0][k0]
          /\ held'[c0][k0] = held[c0][k0]
          /\ UNCHANGED <<store, log>>
      BY <2>1, <2>4 DEF Get, TypeOK
    <3>2. /\ Unseen(c0, k0)' = Unseen(c0, k0)
          /\ SentVersion(c0, k0)' = SentVersion(c0, k0)
      BY <3>1 DEF Unseen, ChangesBetween, SentVersion
    <3>3. Bounds(c0, k0)
      BY DEF HeldBoundsStore
    <3>4. QED
      BY <3>1, <3>2, <3>3
  <2>5. QED
    BY <2>3, <2>4
<1>2. ASSUME NEW c \in Clients, NEW policy \in Policies,
             NEW saving \in SUBSET Keys, NEW deleting \in SUBSET Keys,
             NEW data \in [saving -> Payloads],
             UpdateRecords(c, policy, saving, deleting, data)
      PROVE  HeldBoundsStore'
  <2>1. CASE Conflicts(c, policy, saving)
    BY <1>2, <2>1
       DEF UpdateRecords, HeldBoundsStore, Unseen, ChangesBetween, SentVersion
  <2>2. CASE ~Conflicts(c, policy, saving)
    <3>1. Accepts(c, policy, saving, deleting, data)
      BY <1>2, <2>2, AcceptedBatch
    <3>2. UNCHANGED <<held, readAt>>
      BY <1>2 DEF UpdateRecords
    <3>3. \A k \in saving : Written(c, policy, k, data[k]) \in Record
      BY <1>2, WrittenType DEF UpdateRecords
    <3>4. SUFFICES ASSUME NEW c0 \in Clients, NEW k0 \in Keys,
                          held[c0][k0] # NotRead
                   PROVE  Bounds(c0, k0)'
      BY <3>2 DEF HeldBoundsStore
    <3>5. Bounds(c0, k0) /\ readAt[c0][k0] <= Len(log)
      BY <3>4 DEF HeldBoundsStore
    <3>6. /\ \A j \in Unseen(c0, k0) : j \in Unseen(c0, k0)' /\ log'[j] = log[j]
          /\ \A i \in NewEntries : log'[i].key = k0 => i \in Unseen(c0, k0)'
          /\ \A j \in Unseen(c0, k0)' : j \in Unseen(c0, k0) \/ j \in NewEntries
      BY <3>1, <3>2, <3>5, UnseenGrows
    <3>7. readAt'[c0][k0] <= Len(log')
      <4>1. Len(log) <= Len(log') /\ Len(log') \in Nat
        BY <3>1, LenProperties DEF Accepts
      <4>2. readAt[c0][k0] \in Nat
        BY DEF TypeOK
      <4>3. QED
        BY <1>0, <3>2, <3>5, <4>1, <4>2
    <3>8. SentVersion(c0, k0)' = SentVersion(c0, k0)
      BY <3>2 DEF SentVersion
    <3>9. CASE k0 \notin saving /\ (k0 \notin deleting \/ store[k0] = Absent)
      <4>1. /\ store'[k0] = store[k0]
            /\ \A i \in NewEntries : log'[i].key # k0
        <5>1. Untouched(k0)
          BY <3>1, <3>9, UntouchedKey
        <5>2. QED
          BY <5>1 DEF Untouched
      <4>2. \A j \in Unseen(c0, k0)' : log'[j].key = k0
        BY DEF Unseen, ChangesBetween
      <4>3. Unseen(c0, k0)' = Unseen(c0, k0)
        BY <3>6, <4>1, <4>2
      <4>4. QED
        BY <3>2, <3>5, <3>6, <3>7, <3>8, <4>1, <4>3
    <3>10. CASE k0 \in deleting /\ (k0 \in saving \/ store[k0] # Absent)
      <4>1. AfterSaves(c, policy, saving, data)[k0] # Absent
        BY <3>3, <3>10, AbsentIsNoRecord DEF AfterSaves
      <4>2. PICK i \in NewEntries : log'[i].key = k0 /\ log'[i].after = Absent
        BY <3>1, <3>10, <4>1 DEF Accepts
      <4>3. i \in Unseen(c0, k0)'
        BY <3>6, <4>2
      <4>4. QED
        BY <3>7, <4>2, <4>3
    <3>11. CASE k0 \in saving /\ k0 \notin deleting
      <4>1. /\ store'[k0] = Written(c, policy, k0, data[k0])
            /\ \E i \in NewEntries : /\ log'[i].key = k0
                                     /\ log'[i].after = store'[k0]
        BY <3>1, <3>11 DEF Accepts, AfterSaves, AfterDeletes
      <4>2. PICK i \in NewEntries : log'[i].key = k0 /\ log'[i].after = store'[k0]
        BY <4>1
      <4>3. i \in Unseen(c0, k0)'
        BY <3>6, <4>2
      <4>4. SUFFICES ASSUME \A j \in Unseen(c0, k0)' :
                               log'[j].after # Absent /\ log'[j].after.version # 0
                     PROVE  store'[k0] # Absent /\ store'[k0].version > SentVersion(c0, k0)
        BY <3>7, <3>8, <4>3
      <4>5. /\ \A j \in Unseen(c0, k0) :
                  log[j].after # Absent /\ log[j].after.version # 0
            /\ store'[k0] # Absent /\ store'[k0].version # 0
        BY <3>6, <4>2, <4>3, <4>4
      <4>6. store'[k0] \in Record /\ store'[k0].version \in Versions
        BY <3>3, <3>11, <4>1 DEF Record
      <4>7. CASE store[k0] = Absent
        <5>1. held[c0][k0] = Absent
          BY <3>4, <3>5, <4>5, <4>7
        <5>2. QED
          BY <4>5, <4>6, <5>1 DEF SentVersion, Versions
      <4>8. CASE store[k0] # Absent
        <5>1. /\ store[k0].version \in Versions
              /\ store'[k0].version = (store[k0].version + 1) % VersionLimit
          BY <2>2, <3>11, <4>1, <4>8, SavedVersion
        <5>2. store'[k0].version = store[k0].version + 1
          BY <4>5, <5>1, VersionLimitAssumption DEF Versions
        <5>3. CASE Unseen(c0, k0) = {}
          <6>1. SentVersion(c0, k0) = store[k0].version
            BY <3>4, <3>5, <4>8, <5>3 DEF SentVersion
          <6>2. QED
            BY <4>5, <5>1, <5>2, <6>1 DEF Versions
        <5>4. CASE Unseen(c0, k0) # {}
          <6>1. store[k0].version > SentVersion(c0, k0)
            BY <3>4, <3>5, <4>5, <5>4
          <6>2. SentVersion(c0, k0) \in Int
            BY <3>4 DEF SentVersion, TypeOK, Record, Versions
          <6>3. QED
            BY <4>5, <5>1, <5>2, <6>1, <6>2 DEF Versions
        <5>5. QED
          BY <5>3, <5>4
      <4>9. QED
        BY <4>7, <4>8
    <3>12. QED
      BY <3>9, <3>10, <3>11
  <2>3. QED
    BY <2>1, <2>2
<1>3. CASE UNCHANGED vars
  BY <1>3 DEF vars, HeldBoundsStore, Unseen, ChangesBetween, SentVersion
<1>4. QED
  BY <1>1, <1>2, <1>3, StepCases

\* At every moment a held record tells its client what HeldBoundsStore says.
THEOREM HeldRecordsBoundStore == Spec => []HeldBoundsStore
<1>1. QED
  BY TypeInit, TypeStep, HeldInit, HeldStep, PTL DEF Spec

-----------------------------------------------------------------------------
(* The version check *)

LEMMA LostUpdateStep ==
    TypeOK /\ HeldBoundsStore /\ NoLostUpdate /\ [Next]_vars => NoLostUpdate'
<1> SUFFICES ASSUME TypeOK, HeldBoundsStore, NoLostUpdate, [Next]_vars
             PROVE  NoLostUpdate'
  OBVIOUS
<1>0. Len(log) \in Nat /\ DOMAIN log = 1 .. Len(log)
  BY LenProperties DEF TypeOK
<1>1. CASE UNCHANGED <<log, origin>>
  BY <1>1 DEF NoLostUpdate, ChangesBetween
<1>2. ASSUME NEW c \in Clients, NEW policy \in Policies,
             NEW saving \in SUBSET Keys, NEW deleting \in SUBSET Keys,
             NEW data \in [saving -> Payloads],
             UpdateRecords(c, policy, saving, deleting, data),
             ~Conflicts(c, policy, saving)
      PROVE  NoLostUpdate'
  <2>1. Accepts(c, policy, saving, deleting, data)
    BY <1>2, AcceptedBatch
  <2>2. /\ Len(log') \in Nat /\ DOMAIN log' = 1 .. Len(log')
        /\ Len(log) <= Len(log')
        /\ \A i \in 1 .. Len(log) : log'[i] = log[i] /\ origin'[i] = origin[i]
    BY <2>1, LenProperties DEF Accepts
  <2>3. SUFFICES ASSUME NEW i \in DOMAIN log',
                        origin'[i].policy = IfServerNotChanged,
                        log'[i].before # Absent
                 PROVE  LET unseen == ChangesBetween(log[i].key, origin[i].since, i)'
                        IN  \/ unseen = {}
                            \/ \E j \in unseen : log'[j].after = Absent
                            \/ \E j \in unseen : log'[j].after.version = 0
    BY DEF NoLostUpdate
  <2>4. CASE i \in 1 .. Len(log)
    <3>1. ChangesBetween(log[i].key, origin[i].since, i)'
            = ChangesBetween(log[i].key, origin[i].since, i)
      BY <1>0, <2>2, <2>4 DEF ChangesBetween
    <3>2. \A j \in ChangesBetween(log[i].key, origin[i].since, i) : log'[j] = log[j]
      BY <1>0, <2>2 DEF ChangesBetween
    <3>3. LET unseen == ChangesBetween(log[i].key, origin[i].since, i)
          IN  \/ unseen = {}
              \/ \E j \in unseen : log[j].after = Absent
              \/ \E j \in unseen : log[j].after.version = 0
      <4>1. origin[i].policy = IfServerNotChanged /\ log[i].before # Absent
        BY <2>2, <2>3, <2>4
      <4>2. i \in DOMAIN log
        BY <1>0, <2>4
      <4>3. QED
        BY <4>1, <4>2 DEF NoLostUpdate
    <3>4. QED
      BY <3>1, <3>2, <3>3
  <2>5. CASE i \in NewEntries
    <3> DEFINE k == log'[i].key
    <3>1. /\ k \in saving
          /\ store[k] # Absent
          /\ origin'[i] = [policy |-> policy, since |-> readAt[c][k]]
          /\ \A j \in NewEntries : j < i => log'[j].key # k
      <4>1. \/ /\ k \in saving
               /\ log'[i] = [key |-> k, before |-> store[k],
                             after |-> AfterSaves(c, policy, saving, data)[k]]
               /\ origin'[i] = [policy |-> policy, since |-> readAt[c][k]]
               /\ \A j \in NewEntries : j < i => log'[j].key # k
            \/ origin'[i].policy = "delete"
        BY <2>1, <2>5 DEF Accepts
      <4>2. origin'[i].policy # "delete"
        BY <2>3 DEF IfServerNotChanged
      <4>3. QED
        BY <2>3, <4>1, <4>2
    <3>2. policy = IfServerNotChanged
      BY <2>3, <3>1
    <3>3. held[c][k] # NotRead /\ store[k].version = SentVersion(c, k)
      BY <1>2, <3>1, <3>2 DEF UpdateRecords, Conflicts
    <3>4. /\ readAt[c][k] <= Len(log)
          /\ /\ Unseen(c, k) # {}
             /\ \A j \in Unseen(c, k) :
                   log[j].after # Absent /\ log[j].after.version # 0
             => store[k].version > SentVersion(c, k)
      BY <3>1, <3>3 DEF HeldBoundsStore
    <3>5. store[k].version \in Int
      BY <3>1 DEF TypeOK, Record, Versions
    <3>6. \/ Unseen(c, k) = {}
          \/ \E j \in Unseen(c, k) :
                 log[j].after = Absent \/ log[j].after.version = 0
      BY <3>3, <3>4, <3>5
    <3>7. readAt[c][k] \in Nat
      BY <3>1 DEF TypeOK
    <3>8. ChangesBetween(log[i].key, origin[i].since, i)' = Unseen(c, k)
      <4>1. ChangesBetween(log[i].key, origin[i].since, i)'
              = {j \in 1 .. Len(log') :
                    readAt[c][k] < j /\ j < i /\ log'[j].key = k}
        BY <2>2, <3>1 DEF ChangesBetween
      <4>2. Unseen(c, k) = {j \in 1 .. Len(log) :
                              readAt[c][k] < j /\ j < Len(log) + 1 /\ log[j].key = k}
        BY <1>0 DEF Unseen, ChangesBetween
      <4>3. Len(log) < i /\ i <= Len(log') /\ i \in Nat
        BY <1>0, <2>2, <2>5 DEF NewEntries
      <4>4. ASSUME NEW j \in 1 .. Len(log'), j < i, log'[j].key = k
            PROVE  j \in 1 .. Len(log)
        BY <1>0, <2>2, <3>1, <4>3, <4>4 DEF NewEntries
      <4>5. QED
        BY <1>0, <2>2, <4>1, <4>2, <4>3, <4>4
    <3>9. \A j \in Unseen(c, k) : log'[j] = log[j]
      BY <1>0, <2>2 DEF Unseen, ChangesBetween
    <3>10. QED
      BY <3>6, <3>8, <3>9
  <2>6. QED
    BY <1>0, <2>2, <2>4, <2>5 DEF NewEntries
<1>3. ASSUME NEW c \in Clients, NEW policy \in Policies,
             NEW saving \in SUBSET Keys, NEW deleting \in SUBSET Keys,
             NEW data \in [saving -> Payloads],
             UpdateRecords(c, policy, saving, deleting, data),
             Conflicts(c, policy, saving)
      PROVE  UNCHANGED <<log, origin>>
  BY <1>3 DEF UpdateRecords
<1>4. QED
  BY <1>1, <1>2, <1>3, StepCases DEF Get, vars

\* No accepted save under PolicyIfServerNotChanged overwrites a change that
\* its client had not read, but for deletions and a version that went round.
THEOREM NoUpdateIsLost == Spec => []NoLostUpdate
<1>1. Init => NoLostUpdate
  BY DEF Init, NoLostUpdate
<1>2. QED
  BY <1>1, TypeInit, TypeStep, HeldInit, HeldStep, LostUpdateStep, PTL DEF Spec

LEMMA ConflictStep ==
    TypeOK /\ HeldBoundsStore /\ ConflictIsGenuine /\ [Next]_vars
        => ConflictIsGenuine'
<1> SUFFICES ASSUME TypeOK, HeldBoundsStore, ConflictIsGenuine, [Next]_vars
             PROVE  ConflictIsGenuine'
  OBVIOUS
<1>1. CASE \E c \in Clients, k \in Keys : Get(c, k)
  <2>1. PICK c \in Clients, k \in Keys : Get(c, k)
    BY <1>1
  <2>2. ASSUME NEW c0 \in Clients, outcome'[c0] = "conflict"
        PROVE  /\ outcome[c0] = "conflict"
               /\ \A k0 \in Keys : /\ held'[c0][k0] = held[c0][k0]
                                   /\ Unseen(c0, k0)' = Unseen(c0, k0)
    <3>1. c0 # c
      BY <2>1, <2>2 DEF Get, TypeOK
    <3>2. QED
      BY <2>1, <2>2, <3>1 DEF Get, TypeOK, Unseen, ChangesBetween
  <2>3. QED
    BY <2>2 DEF ConflictIsGenuine
<1>2. ASSUME NEW c \in Clients, NEW policy \in Policies,
             NEW saving \in SUBSET Keys, NEW deleting \in SUBSET Keys,
             NEW data \in [saving -> Payloads],
             UpdateRecords(c, policy, saving, deleting, data)
      PROVE  ConflictIsGenuine'
  <2>1. CASE Conflicts(c, policy, saving)
    <3>1. PICK k \in saving : store[k] # Absent /\ store[k].version # SentVersion(c, k)
      BY <2>1 DEF Conflicts
    <3>2. k \in Keys /\ held[c][k] # NotRead
      BY <1>2, <3>1 DEF UpdateRecords
    <3>3. Unseen(c, k) # {}
      BY <3>1, <3>2 DEF HeldBoundsStore, SentVersion
    <3>4. /\ UNCHANGED <<log, held, readAt>>
          /\ outcome' = [outcome EXCEPT ![c] = "conflict"]
      BY <1>2, <2>1 DEF UpdateRecords
    <3>5. \A c0 \in Clients, k0 \in Keys : Unseen(c0, k0)' = Unseen(c0, k0)
      BY <3>4 DEF Unseen, ChangesBetween
    <3>6. QED
      BY <3>2, <3>3, <3>4, <3>5 DEF ConflictIsGenuine, TypeOK
  <2>2. CASE ~Conflicts(c, policy, saving)
    <3>1. Accepts(c, policy, saving, deleting, data)
      BY <1>2, <2>2, AcceptedBatch
    <3>2. /\ UNCHANGED <<held, readAt>>
          /\ outcome' = [outcome EXCEPT ![c] = "saved"]
      BY <1>2, <2>2 DEF UpdateRecords
    <3>3. ASSUME NEW c0 \in Clients, outcome'[c0] = "conflict"
          PROVE  \E k0 \in Keys : held'[c0][k0] # NotRead /\ Unseen(c0, k0)' # {}
      <4>1. outcome[c0] = "conflict"
        BY <3>2, <3>3 DEF TypeOK
      <4>2. PICK k0 \in Keys : held[c0][k0] # NotRead /\ Unseen(c0, k0) # {}
        BY <4>1 DEF ConflictIsGenuine
      <4>3. readAt[c0][k0] <= Len(log)
        BY <4>2 DEF HeldBoundsStore
      <4>4. \A j \in Unseen(c0, k0) : j \in Unseen(c0, k0)'
        BY <3>1, <3>2, <4>3, UnseenGrows
      <4>5. QED
        BY <3>2, <4>2, <4>4
    <3>4. QED
      BY <3>3 DEF ConflictIsGenuine
  <2>3. QED
    BY <2>1, <2>2
<1>3. CASE UNCHANGED vars
  BY <1>3 DEF vars, ConflictIsGenuine, Unseen, ChangesBetween
<1>4. QED
  BY <1>1, <1>2, <1>3, StepCases

\* A client that got ErrVersionConflict holds a record that was changed since.
THEOREM NoSpuriousConflict == Spec => []ConflictIsGenuine
<1>1. Init => ConflictIsGenuine
  BY DEF Init, ConflictIsGenuine
<1>2. QED
  BY <1>1, TypeInit, TypeStep, HeldInit, HeldStep, ConflictStep, PTL DEF Spec

LEMMA ContiguousStep ==
    TypeOK /\ VersionsAreContiguous /\ [Next]_vars => VersionsAreContiguous'
<1> SUFFICES ASSUME TypeOK, VersionsAreContiguous, [Next]_vars
             PROVE  VersionsAreContiguous'
  OBVIOUS
<1>1. CASE UNCHANGED log
  BY <1>1 DEF VersionsAreContiguous
<1>2. ASSUME NEW c \in Clients, NEW policy \in Policies,
             NEW saving \in SUBSET Keys, NEW deleting \in SUBSET Keys,
             NEW data \in [saving -> Payloads],
             UpdateRecords(c, policy, saving, deleting, data),
             ~Conflicts(c, policy, saving)
      PROVE  VersionsAreContiguous'
  <2>1. Accepts(c, policy, saving, deleting, data)
    BY <1>2, AcceptedBatch
  <2>2. /\ DOMAIN log = 1 .. Len(log) /\ Len(log) \in Nat
        /\ DOMAIN log' = 1 .. Len(log') /\ Len(log') \in Nat
        /\ \A i \in 1 .. Len(log) : log'[i] = log[i]
    BY <2>1, LenProperties DEF Accepts, TypeOK
  <2>3. SUFFICES ASSUME NEW i \in DOMAIN log',
                        log'[i].before # Absent, log'[i].after # Absent
                 PROVE  log'[i].after.version
                           = (log'[i].before.version + 1) % VersionLimit
    BY DEF VersionsAreContiguous
  <2>4. CASE i \in 1 .. Len(log)
    BY <2>2, <2>3, <2>4 DEF VersionsAreContiguous
  <2>5. CASE i \in NewEntries
    <3> DEFINE k == log'[i].key
    <3>1. \/ /\ k \in saving
             /\ log'[i] = [key |-> k, before |-> store[k],
                           after |-> AfterSaves(c, policy, saving, data)[k]]
          \/ log'[i] = [key |-> k, after |-> Absent,
                        before |-> AfterSaves(c, policy, saving, data)[k]]
      BY <2>1, <2>5 DEF Accepts
    <3>2. /\ k \in saving /\ log'[i].before = store[k]
          /\ log'[i].after = AfterSaves(c, policy, saving, data)[k]
      BY <2>3, <3>1
    <3>3. log'[i].after = Written(c, policy, k, data[k])
      BY <3>2 DEF AfterSaves
    <3>4. Written(c, policy, k, data[k]).version = (store[k].version + 1) % VersionLimit
      BY <1>2, <2>3, <3>2, SavedVersion
    <3>5. QED
      BY <3>2, <3>3, <3>4
  <2>6. QED
    BY <2>2, <2>4, <2>5 DEF NewEntries
<1>3. ASSUME NEW c \in Clients, NEW policy \in Policies,
             NEW saving \in SUBSET Keys, NEW deleting \in SUBSET Keys,
             NEW data \in [saving -> Payloads],
             UpdateRecords(c, policy, saving, deleting, data),
             Conflicts(c, policy, saving)
      PROVE  UNCHANGED log
  BY <1>3 DEF UpdateRecords
<1>4. QED
  BY <1>1, <1>2, <1>3, StepCases DEF Get, vars

\* Under both policies an update takes the next version of the record.
THEOREM VersionsContiguous == Spec => []VersionsAreContiguous
<1>1. Init => VersionsAreContiguous
  BY DEF Init, VersionsAreContiguous
<1>2. QED
  BY <1>1, TypeInit, TypeStep, ContiguousStep, PTL DEF Spec

-----------------------------------------------------------------------------
(* The log as an audit trail *)

\* The new entries of k are i and then j, which may be one entry, and they
\* lead from the record that the store held to the one that it holds.
Leads(k, i, j) ==
    /\ i \in NewEntries /\ j \in NewEntries /\ i <= j
    /\ log'[i].key = k /\ log'[j].key = k
    /\ \A x \in NewEntries : log'[x].key = k => x = i \/ x = j
    /\ log'[i].before = store[k]
    /\ log'[j].after = store'[k]
    /\ i # j => log'[j].before = log'[i].after

\* An accepted batch leaves a key and its changes alone, or logs one way from
\* its old record to its new one.
LEMMA EachKeyIsLogged ==
    ASSUME TypeOK, NEW c \in Clients, NEW policy \in Policies,
           NEW saving \in SUBSET Keys, NEW deleting \in SUBSET Keys,
           NEW data \in [saving -> Payloads],
           UpdateRecords(c, policy, saving, deleting, data),
           ~Conflicts(c, policy, saving),
           NEW k \in Keys
    PROVE  Untouched(k) \/ \E i, j \in NewEntries : Leads(k, i, j)
<1> DEFINE saved == AfterSaves(c, policy, saving, data)
           gone == {x \in deleting : saved[x] # Absent}
<1>1. Accepts(c, policy, saving, deleting, data)
  BY AcceptedBatch
<1>2. k \in saving => saved[k] # Absent
  BY WrittenType, AbsentIsNoRecord DEF UpdateRecords, AfterSaves
<1>3. k \notin saving => saved[k] = store[k]
  BY DEF AfterSaves
<1>4. store'[k] = IF k \in deleting THEN Absent ELSE saved[k]
  BY <1>1 DEF Accepts, AfterDeletes
<1>5. NewEntries \subseteq Nat
  BY LenProperties DEF TypeOK, NewEntries
<1>6. \A x \in NewEntries : log'[x].key = k =>
         \/ /\ k \in saving
            /\ log'[x].before = store[k] /\ log'[x].after = saved[k]
            /\ \A y \in NewEntries : y < x => log'[y].key # k
         \/ /\ k \in gone
            /\ log'[x].before = saved[k] /\ log'[x].after = Absent
            /\ \A y \in NewEntries : x < y => log'[y].key # k
  <2>1. ASSUME NEW x \in NewEntries
        PROVE  \/ /\ log'[x].key \in saving
                  /\ log'[x] = [key |-> log'[x].key, before |-> store[log'[x].key],
                                after |-> saved[log'[x].key]]
                  /\ \A y \in NewEntries : y < x => log'[y].key # log'[x].key
               \/ /\ log'[x].key \in gone
                  /\ log'[x] = [key |-> log'[x].key, before |-> saved[log'[x].key],
                                after |-> Absent]
                  /\ \A y \in NewEntries : x < y => log'[y].key # log'[x].key
    BY <1>1, <2>1 DEF Accepts
  <2> HIDE DEF saved, gone
  <2>2. ASSUME NEW x \in NewEntries, log'[x].key = k
        PROVE  \/ /\ k \in saving
                  /\ log'[x] = [key |-> k, before |-> store[k], after |-> saved[k]]
                  /\ \A y \in NewEntries : y < x => log'[y].key # k
               \/ /\ k \in gone
                  /\ log'[x] = [key |-> k, before |-> saved[k], after |-> Absent]
                  /\ \A y \in NewEntries : x < y => log'[y].key # k
    BY <2>1, <2>2, Zenon
  <2>3. SUFFICES ASSUME NEW x \in NewEntries, log'[x].key = k
                 PROVE  \/ /\ k \in saving
                           /\ log'[x].before = store[k] /\ log'[x].after = saved[k]
                           /\ \A y \in NewEntries : y < x => log'[y].key # k
                        \/ /\ k \in gone
                           /\ log'[x].before = saved[k] /\ log'[x].after = Absent
                           /\ \A y \in NewEntries : x < y => log'[y].key # k
    OBVIOUS
  <2>4. /\ log'[x] = [key |-> k, before |-> store[k], after |-> saved[k]]
              => log'[x].before = store[k] /\ log'[x].after = saved[k]
        /\ log'[x] = [key |-> k, before |-> saved[k], after |-> Absent]
              => log'[x].before = saved[k] /\ log'[x].after = Absent
    OBVIOUS
  <2>5. QED
    BY <2>2, <2>4, <2>3, Zenon
<1>7. k \in saving =>
         \E i \in NewEntries : log'[i].key = k /\ log'[i].after = saved[k]
  BY <1>1 DEF Accepts
<1>8. k \in gone =>
         \E i \in NewEntries : log'[i].key = k /\ log'[i].after = Absent
  BY <1>1 DEF Accepts
<1>9. k \in deleting => (k \in gone <=> saved[k] # Absent)
  OBVIOUS
<1>10. k \in gone => k \in deleting
  OBVIOUS
<1> HIDE DEF saved, gone
<1>11. CASE k \notin saving /\ k \notin gone
  <2>1. k \notin deleting \/ store[k] = Absent
    BY <1>3, <1>9, <1>11
  <2>2. QED
    BY <1>1, <1>11, <2>1, UntouchedKey
<1>12. CASE k \in saving /\ k \notin gone
  <2>1. PICK i \in NewEntries : log'[i].key = k
    BY <1>7, <1>12
  <2>2. \A x \in NewEntries : log'[x].key = k => x = i
    BY <1>5, <1>6, <1>12, <2>1
  <2>3. store'[k] = saved[k]
    BY <1>2, <1>4, <1>9, <1>12
  <2>4. Leads(k, i, i)
    BY <1>5, <1>6, <1>12, <2>1, <2>2, <2>3 DEF Leads
  <2>5. QED
    BY <2>4
<1>13. CASE k \notin saving /\ k \in gone
  <2>1. PICK i \in NewEntries : log'[i].key = k
    BY <1>8, <1>13
  <2>2. \A x \in NewEntries : log'[x].key = k => x = i
    BY <1>5, <1>6, <1>13, <2>1
  <2>3. Leads(k, i, i)
    BY <1>3, <1>4, <1>5, <1>6, <1>10, <1>13, <2>1, <2>2 DEF Leads
  <2>4. QED
    BY <2>3
<1>14. CASE k \in saving /\ k \in gone
  <2>1. PICK i \in NewEntries : log'[i].key = k /\ log'[i].after = saved[k]
    BY <1>7, <1>14
  <2>2. PICK j \in NewEntries : log'[j].key = k /\ log'[j].after = Absent
    BY <1>8, <1>14
  <2>3. /\ log'[i].before = store[k]
        /\ \A y \in NewEntries : y < i => log'[y].key # k
    BY <1>2, <1>6, <1>14, <2>1
  <2>4. /\ log'[j].before = saved[k]
        /\ \A y \in NewEntries : j < y => log'[y].key # k
    BY <1>2, <1>6, <1>14, <2>2
  <2>5. \A x \in NewEntries : log'[x].key = k => x = i \/ x = j
    BY <1>5, <1>6, <2>1, <2>2, <2>3, <2>4
  <2>6. i <= j
    BY <1>5, <2>2, <2>3
  <2>7. Leads(k, i, j)
    BY <1>4, <1>10, <1>14, <2>1, <2>2, <2>3, <2>4, <2>5, <2>6 DEF Leads
  <2>8. QED
    BY <2>7
<1>15. QED
  BY <1>11, <1>12, <1>13, <1>14

\* What the log looks like before and after an accepted batch.
LEMMA LogGrows ==
    ASSUME TypeOK, NEW c \in Clients, NEW policy \in Policies,
           NEW saving \in SUBSET Keys, NEW deleting \in SUBSET Keys,
           NEW data \in [saving -> Payloads],
           Accepts(c, policy, saving, deleting, data)
    PROVE  /\ Len(log) \in Nat /\ DOMAIN log = 1 .. Len(log)
           /\ Len(log') \in Nat /\ DOMAIN log' = 1 .. Len(log')
           /\ \A i \in 1 .. Len(log) :
                 i \in 1 .. Len(log') /\ log'[i] = log[i]
           /\ \A i \in 1 .. Len(log) : log'[i].key \in Keys
           /\ \A i \in NewEntries : i \in 1 .. Len(log') /\ log'[i].key \in Keys
           /\ \A i \in 1 .. Len(log') : i \in 1 .. Len(log) \/ i \in NewEntries
           /\ \A i \in 1 .. Len(log), j \in NewEntries : i < j
<1>1. /\ Len(log) \in Nat /\ DOMAIN log = 1 .. Len(log)
      /\ Len(log') \in Nat /\ DOMAIN log' = 1 .. Len(log')
      /\ Len(log) <= Len(log')
      /\ \A i \in 1 .. Len(log) : log'[i] = log[i]
  BY LenProperties DEF TypeOK, Accepts
<1>2. \A i \in 1 .. Len(log') : log'[i] \in Change
  BY <1>1, ElementOfSeq DEF Accepts
<1>3. \A i \in 1 .. Len(log') : log'[i].key \in Keys
  BY <1>2 DEF Change
<1>4. QED
  BY <1>1, <1>3 DEF NewEntries

LEMMA ReplayStep ==
    TypeOK /\ LogReplaysToStore /\ [Next]_vars => LogReplaysToStore'
<1> SUFFICES ASSUME TypeOK, LogReplaysToStore, [Next]_vars
             PROVE  LogReplaysToStore'
  OBVIOUS
<1>1. CASE UNCHANGED <<log, store>>
  BY <1>1 DEF LogReplaysToStore, ReplaysTo, IsLatest
<1>2. ASSUME NEW c \in Clients, NEW policy \in Policies,
             NEW saving \in SUBSET Keys, NEW deleting \in SUBSET Keys,
             NEW data \in [saving -> Payloads],
             UpdateRecords(c, policy, saving, deleting, data),
             ~Conflicts(c, policy, saving)
      PROVE  LogReplaysToStore'
  <2>1. Accepts(c, policy, saving, deleting, data)
    BY <1>2, AcceptedBatch
  <2>2. /\ Len(log) \in Nat /\ DOMAIN log = 1 .. Len(log)
        /\ Len(log') \in Nat /\ DOMAIN log' = 1 .. Len(log')
        /\ \A i \in 1 .. Len(log) : i \in 1 .. Len(log') /\ log'[i] = log[i]
        /\ \A i \in NewEntries : i \in 1 .. Len(log')
        /\ \A i \in 1 .. Len(log') : i \in 1 .. Len(log) \/ i \in NewEntries
        /\ \A i \in 1 .. Len(log), j \in NewEntries : i < j
    BY <2>1, LogGrows
  <2>3. SUFFICES ASSUME NEW k \in Keys
                 PROVE  /\ \A i \in DOMAIN log' :
                              IsLatest(log', k, i) => store'[k] = log'[i].after
                        /\ (\A i \in DOMAIN log' : log'[i].key # k)
                              => store'[k] = Absent
    BY DEF LogReplaysToStore, ReplaysTo
  <2>4. CASE Untouched(k)
    <3>1. store'[k] = store[k] /\ \A i \in NewEntries : log'[i].key # k
      BY <2>4 DEF Untouched
    <3>2. ASSUME NEW i \in DOMAIN log', IsLatest(log', k, i)
          PROVE  IsLatest(log, k, i) /\ log'[i] = log[i]
      BY <2>2, <3>1, <3>2 DEF IsLatest
    <3>3. (\A i \in DOMAIN log' : log'[i].key # k)
             => \A i \in DOMAIN log : log[i].key # k
      BY <2>2
    <3>4. QED
      BY <2>2, <3>1, <3>2, <3>3 DEF LogReplaysToStore, ReplaysTo, IsLatest
  <2>5. CASE \E i, j \in NewEntries : Leads(k, i, j)
    <3>1. PICK i \in NewEntries, j \in NewEntries : Leads(k, i, j)
      BY <2>5
    <3>2. /\ j \in DOMAIN log' /\ log'[j].key = k /\ log'[j].after = store'[k]
          /\ i <= j
          /\ \A x \in NewEntries : log'[x].key = k => x = i \/ x = j
      BY <2>2, <3>1 DEF Leads
    <3>3. ASSUME NEW x \in DOMAIN log', IsLatest(log', k, x)
          PROVE  x = j
      BY <2>2, <3>2, <3>3 DEF IsLatest
    <3>4. QED
      BY <3>2, <3>3
  <2>6. QED
    BY <1>2, <2>4, <2>5, EachKeyIsLogged
<1>3. ASSUME NEW c \in Clients, NEW policy \in Policies,
             NEW saving \in SUBSET Keys, NEW deleting \in SUBSET Keys,
             NEW data \in [saving -> Payloads],
             UpdateRecords(c, policy, saving, deleting, data),
             Conflicts(c, policy, saving)
      PROVE  UNCHANGED <<log, store>>
  BY <1>3 DEF UpdateRecords
<1>4. QED
  BY <1>1, <1>2, <1>3, StepCases DEF Get, vars

LEMMA ChainStep ==
    TypeOK /\ LogReplaysToStore /\ ChangesAreChained /\ [Next]_vars
        => ChangesAreChained'
<1> SUFFICES ASSUME TypeOK, LogReplaysToStore, ChangesAreChained, [Next]_vars
             PROVE  ChangesAreChained'
  OBVIOUS
<1>1. CASE UNCHANGED log
  BY <1>1 DEF ChangesAreChained, Chained, Precedes
<1>2. ASSUME NEW c \in Clients, NEW policy \in Policies,
             NEW saving \in SUBSET Keys, NEW deleting \in SUBSET Keys,
             NEW data \in [saving -> Payloads],
             UpdateRecords(c, policy, saving, deleting, data),
             ~Conflicts(c, policy, saving)
      PROVE  ChangesAreChained'
  <2>1. Accepts(c, policy, saving, deleting, data)
    BY <1>2, AcceptedBatch
  <2>2. /\ Len(log) \in Nat /\ DOMAIN log = 1 .. Len(log)
        /\ Len(log') \in Nat /\ DOMAIN log' = 1 .. Len(log')
        /\ \A i \in 1 .. Len(log) : i \in 1 .. Len(log') /\ log'[i] = log[i]
        /\ \A i \in NewEntries : i \in 1 .. Len(log') /\ log'[i].key \in Keys
        /\ \A i \in 1 .. Len(log') : i \in 1 .. Len(log) \/ i \in NewEntries
        /\ \A i \in 1 .. Len(log), j \in NewEntries : i < j
    BY <2>1, LogGrows
  <2>3. SUFFICES ASSUME NEW y \in DOMAIN log'
                 PROVE  /\ \A x \in DOMAIN log' : Precedes(log', x, y)
                              => log'[y].before = log'[x].after
                        /\ (\A x \in DOMAIN log' :
                               x < y => log'[x].key # log'[y].key)
                              => log'[y].before = Absent
    BY DEF ChangesAreChained, Chained
  <2>4. CASE y \in 1 .. Len(log)
    <3>1. /\ \A x \in DOMAIN log : Precedes(log, x, y)
                              => log[y].before = log[x].after
          /\ (\A x \in DOMAIN log : x < y => log[x].key # log[y].key)
                => log[y].before = Absent
      BY <2>2, <2>4 DEF ChangesAreChained, Chained
    <3>2. \A x \in DOMAIN log' : x < y => x \in 1 .. Len(log)
      BY <2>2, <2>4
    <3>3. \A x \in DOMAIN log' :
             Precedes(log', x, y) => x \in DOMAIN log /\ Precedes(log, x, y)
      BY <2>2, <2>4, <3>2 DEF Precedes
    <3>4. QED
      BY <2>2, <2>4, <3>1, <3>2, <3>3
  <2>5. CASE y \in NewEntries
    <3> DEFINE k == log'[y].key
    <3>1. k \in Keys
      BY <2>2, <2>5
    <3>2. ~Untouched(k)
      BY <2>5 DEF Untouched
    <3>3. PICK i \in NewEntries, j \in NewEntries : Leads(k, i, j)
      BY <1>2, <3>1, <3>2, EachKeyIsLogged
    <3>4. /\ i <= j /\ log'[i].key = k
          /\ y = i \/ y = j
          /\ \A x \in NewEntries : log'[x].key = k => x = i \/ x = j
          /\ log'[i].before = store[k]
          /\ i # j => log'[j].before = log'[i].after
      BY <2>5, <3>3 DEF Leads
    <3>5. i \in Nat /\ j \in Nat
      BY <2>2
    <3>6. CASE y = i
      <4>1. ASSUME NEW x \in DOMAIN log', Precedes(log', x, y)
            PROVE  log'[y].before = log'[x].after
        <5>1. x < y /\ log'[x].key = k
              /\ \A m \in DOMAIN log' : x < m /\ m < y => log'[m].key # k
          BY <4>1 DEF Precedes
        <5>2. x \in 1 .. Len(log)
          BY <2>2, <3>4, <3>5, <3>6, <5>1
        <5>3. IsLatest(log, k, x)
          BY <2>2, <2>5, <5>1, <5>2 DEF IsLatest
        <5>4. store[k] = log[x].after
          BY <2>2, <3>1, <5>2, <5>3 DEF LogReplaysToStore, ReplaysTo
        <5>5. QED
          BY <2>2, <3>4, <3>6, <5>2, <5>4
      <4>2. ASSUME \A x \in DOMAIN log' : x < y => log'[x].key # k
            PROVE  log'[y].before = Absent
        <5>1. \A x \in DOMAIN log : log[x].key # k
          BY <2>2, <2>5, <4>2
        <5>2. store[k] = Absent
          BY <3>1, <5>1 DEF LogReplaysToStore, ReplaysTo
        <5>3. QED
          BY <3>4, <3>6, <5>2
      <4>3. QED
        BY <4>1, <4>2
    <3>7. CASE y = j /\ i # j
      <4>1. i < y /\ i \in DOMAIN log'
        BY <2>2, <3>4, <3>5, <3>7
      <4>2. ASSUME NEW x \in DOMAIN log', Precedes(log', x, y)
            PROVE  x = i
        <5>1. x < y /\ log'[x].key = k
              /\ \A m \in DOMAIN log' : x < m /\ m < y => log'[m].key # k
          BY <4>2 DEF Precedes
        <5>2. ~(x < i)
          BY <3>4, <4>1, <5>1
        <5>3. x \in NewEntries
          BY <2>2, <5>2
        <5>4. QED
          BY <3>4, <3>5, <3>7, <5>1, <5>3
      <4>3. QED
        BY <3>4, <3>7, <4>1, <4>2
    <3>8. QED
      BY <3>4, <3>6, <3>7
  <2>6. QED
    BY <2>2, <2>4, <2>5
<1>3. ASSUME NEW c \in Clients, NEW policy \in Policies,
             NEW saving \in SUBSET Keys, NEW deleting \in SUBSET Keys,
             NEW data \in [saving -> Payloads],
             UpdateRecords(c, policy, saving, deleting, data),
             Conflicts(c, policy, saving)
      PROVE  UNCHANGED log
  BY <1>3 DEF UpdateRecords
<1>4. QED
  BY <1>1, <1>2, <1>3, StepCases DEF Get, vars

LEMMA AuditInit == Init => LogReplaysToStore /\ ChangesAreChained
BY DEF Init, LogReplaysToStore, ReplaysTo, IsLatest, ChangesAreChained, Chained

\* Whoever replays the log has the store, with all its deletions and revivals.
THEOREM LogIsTheStore == Spec => []LogReplaysToStore
<1>1. QED
  BY AuditInit, TypeInit, TypeStep, ReplayStep, PTL DEF Spec

\* Each change starts from the record that the change before it left. It needs
\* LogReplaysToStore: what the code copies into Before is the store's record.
THEOREM ChangesChained == Spec => []ChangesAreChained
<1>1. QED
  BY AuditInit, TypeInit, TypeStep, ReplayStep, ChainStep, PTL DEF Spec

-----------------------------------------------------------------------------
(* The typed repository *)

\* Neither a stored index nor one that a client has loaded counts more than
\* was saved.
CountsNoMore(record, g) ==
    Count(record) \in Nat /\ Count(record) <= Cardinality(Counted(g))

NoneCountsMore ==
    \A g \in Groups :
        /\ CountsNoMore(store[g], g)
        /\ \A c \in Clients : held[c][g] # NotRead => CountsNoMore(held[c][g], g)

\* Indices are not deleted.
IndicesStay == \A i \in DOMAIN log : log[i].key \in Groups => log[i].after # Absent

Inv ==
    /\ TypedTypeOK
    /\ HeldBoundsStore
    /\ Len(log) <= MaxChanges
    /\ NoneCountsMore
    /\ IndicesStay
    /\ IndexIsTotal

-----------------------------------------------------------------------------
(* Lemmas about the operators *)

LEMMA CountedIsFinite ==
    ASSUME TypeOK, NEW g \in Groups
    PROVE  /\ Counted(g) \subseteq 1 .. Len(log)
           /\ IsFiniteSet(Counted(g))
           /\ Cardinality(Counted(g)) \in Nat
           /\ Cardinality(Counted(g)) <= Len(log)
<1>1. Len(log) \in Nat /\ DOMAIN log = 1 .. Len(log)
  BY LenProperties DEF TypeOK
<1>2. Counted(g) \in SUBSET (1 .. Len(log))
  BY <1>1 DEF Counted
<1>3. /\ IsFiniteSet(1 .. Len(log))
      /\ Cardinality(1 .. Len(log)) = Len(log)
  <2>1. 1 \in Int /\ Len(log) \in Int
    BY <1>1
  <2>2. /\ IsFiniteSet(1 .. Len(log))
        /\ Cardinality(1 .. Len(log)) = IF 1 > Len(log) THEN 0 ELSE Len(log) - 1 + 1
    BY <2>1, FS_Interval
  <2>3. QED
    BY <1>1, <2>2
<1>4. /\ IsFiniteSet(Counted(g))
      /\ Cardinality(Counted(g)) <= Len(log)
  BY <1>2, <1>3, FS_Subset
<1>5. QED
  BY <1>2, <1>4, FS_CardinalityType

\* The batch of a call, as the repository gets it.
BatchOK(c) ==
    /\ call[c] # NoCall /\ loaded[c] = GroupsOf(call[c])
    /\ call[c].policy \in Policies
    /\ call[c].saving \in SUBSET RecordKeys
    /\ call[c].deleting \in Removals
    /\ call[c].data \in [call[c].saving -> Groups]
    /\ SavedKeys(c) \in SUBSET Keys
    /\ SavedData(c) \in [SavedKeys(c) -> Payloads]

LEMMA ContributionsAreFinite ==
    ASSUME NEW batch, NEW g
    PROVE  /\ Contributions(batch, g) \subseteq Aggregated
           /\ IsFiniteSet(Contributions(batch, g))
           /\ Cardinality(Contributions(batch, g)) \in Nat
           /\ Cardinality(Contributions(batch, g)) <= Cardinality(Keys)
<1>1. /\ Contributions(batch, g) \in SUBSET Aggregated
      /\ Contributions(batch, g) \in SUBSET Keys
  BY AggregatedAssumption DEF Contributions, RecordKeys
<1>2. QED
  BY <1>1, KeysAssumption, FS_Subset, FS_CardinalityType

LEMMA CommittedBatch ==
    ASSUME Inv, NEW c \in Clients, call[c] # NoCall, loaded[c] = GroupsOf(call[c])
    PROVE  BatchOK(c)
<1>1. /\ call[c] \in Batches
      /\ call[c].data \in [call[c].saving -> Groups]
      /\ \A g \in GroupsOf(call[c]) : held[c][g] # NotRead
  BY DEF Inv, TypedTypeOK
<1>2. SavedKeys(c) \in SUBSET Keys
  BY <1>1, GroupsAssumption DEF SavedKeys, GroupsOf, Batches, RecordKeys
<1>3. ASSUME NEW g \in GroupsOf(call[c])
      PROVE  Combined(c, g) \in Payloads
  <2>1. g \in Groups
    BY DEF GroupsOf
  <2>2. /\ Count(held[c][g]) \in Nat
        /\ Count(held[c][g]) <= Cardinality(Counted(g))
    BY <1>1, <2>1 DEF Inv, NoneCountsMore, CountsNoMore
  <2>3. Cardinality(Counted(g)) \in Nat /\ Cardinality(Counted(g)) <= Len(log)
    BY <2>1, CountedIsFinite DEF Inv, TypedTypeOK
  <2>4. Len(log) \in Nat /\ Len(log) <= MaxChanges
    BY LenProperties DEF Inv, TypedTypeOK, TypeOK
  <2>5. /\ Cardinality(Contributions(call[c], g)) \in Nat
        /\ Cardinality(Contributions(call[c], g)) <= Cardinality(Keys)
    BY ContributionsAreFinite
  <2>6. Cardinality(Keys) \in Nat
    BY KeysAssumption, FS_CardinalityType
  <2>7. Combined(c, g) \in 0 .. (MaxChanges + Cardinality(Keys))
    BY <2>2, <2>3, <2>4, <2>5, <2>6, MaxChangesAssumption DEF Combined
  <2>8. QED
    BY <2>7, PayloadsAssumption
<1>4. ASSUME NEW k \in SavedKeys(c)
      PROVE  SavedData(c)[k] \in Payloads
  <2>1. CASE k \in Groups
    <3>1. k \in GroupsOf(call[c])
      BY <1>1, <2>1 DEF SavedKeys, Batches, RecordKeys
    <3>2. QED
      BY <1>3, <2>1, <3>1 DEF SavedData
  <2>2. CASE k \notin Groups
    <3>1. k \in call[c].saving
      BY <2>2 DEF SavedKeys, GroupsOf
    <3>2. QED
      BY <1>1, <2>2, <3>1, PayloadsAssumption DEF SavedData
  <2>3. QED
    BY <2>1, <2>2
<1>5. SavedData(c) \in [SavedKeys(c) -> Payloads]
  BY <1>4 DEF SavedData
<1>6. QED
  BY <1>1, <1>2, <1>5 DEF BatchOK, Batches

-----------------------------------------------------------------------------
(* The typed repository is a client of the schemaless one *)

LEMMA StepMaps == Inv /\ [TypedNext]_typedVars => [Next]_vars
<1> SUFFICES ASSUME Inv, [TypedNext]_typedVars PROVE [Next]_vars
  OBVIOUS
<1>1. ASSUME NEW c \in Clients, NEW k \in RecordKeys, TypedGet(c, k)
      PROVE  Next
  BY <1>1 DEF TypedGet, Next, RecordKeys
<1>2. ASSUME NEW c \in Clients, NEW g \in Groups, LoadIndex(c, g)
      PROVE  Next
  BY <1>2, GroupsAssumption DEF LoadIndex, Next
<1>3. ASSUME NEW c \in Clients, NEW batch, Begin(c, batch)
      PROVE  UNCHANGED vars
  BY <1>3 DEF Begin
<1>4. ASSUME NEW c \in Clients, CombineFails(c)
      PROVE  UNCHANGED vars
  BY <1>4 DEF CombineFails
<1>5. ASSUME NEW c \in Clients, Commit(c)
      PROVE  Next
  <2>1. UpdateRecords(c, call[c].policy, SavedKeys(c), call[c].deleting, SavedData(c))
    BY <1>5 DEF Commit
  <2>2. BatchOK(c)
    BY <1>5, CommittedBatch DEF Commit
  <2>3. call[c].deleting \in IF Deletions THEN SUBSET Keys ELSE {{}}
    BY <2>2 DEF BatchOK, Removals, RecordKeys
  <2>4. QED
    BY <2>1, <2>2, <2>3 DEF Next, BatchOK
<1>6. CASE UNCHANGED typedVars
  BY <1>6 DEF typedVars
<1>7. QED
  BY <1>1, <1>2, <1>3, <1>4, <1>5, <1>6 DEF TypedNext

\* An accepted call, in the words of RepositoryProofs.
Accepted(c) ==
    Accepts(c, call[c].policy, SavedKeys(c), call[c].deleting, SavedData(c))

LEMMA CommitAccepted ==
    ASSUME Inv, NEW c \in Clients, Commit(c),
           ~Conflicts(c, call[c].policy, SavedKeys(c))
    PROVE  Accepted(c) /\ UNCHANGED <<held, readAt>>
<1>1. UpdateRecords(c, call[c].policy, SavedKeys(c), call[c].deleting, SavedData(c))
  BY DEF Commit
<1>2. BatchOK(c)
  BY CommittedBatch DEF Commit
<1>3. call[c].deleting \in SUBSET Keys
  BY <1>2 DEF BatchOK, Removals, RecordKeys
<1>4. Accepted(c)
  BY <1>1, <1>2, <1>3, AcceptedBatch DEF Accepted, BatchOK, Inv, TypedTypeOK
<1>5. QED
  BY <1>1, <1>4 DEF UpdateRecords

LEMMA CommitRefused ==
    ASSUME NEW c \in Clients, Commit(c),
           Conflicts(c, call[c].policy, SavedKeys(c))
    PROVE  UNCHANGED <<store, log, origin, held, readAt>>
BY DEF Commit, UpdateRecords

\* The entries that an accepted call adds for group g.
NewlyCounted(c, g) ==
    {i \in NewEntries : log'[i].key \in Contributions(call[c], g) /\ log'[i].after # Absent}

\* Each record of the batch that is in group g is counted by one new entry,
\* and no other new entry counts for g.
LEMMA BatchIsCounted ==
    ASSUME Inv, NEW c \in Clients, NEW g \in Groups, BatchOK(c), Accepted(c)
    PROVE  /\ Counted(g)' = Counted(g) \cup NewlyCounted(c, g)
           /\ IsFiniteSet(Counted(g)')
           /\ Cardinality(Counted(g)') = Cardinality(Counted(g))
                                           + Cardinality(Contributions(call[c], g))
<1> DEFINE S == SavedKeys(c)
           saved == AfterSaves(c, call[c].policy, S, SavedData(c))
           new == NewlyCounted(c, g)
           contributions == Contributions(call[c], g)
           f == [i \in new |-> log'[i].key]
<1>1. /\ log \in Seq(Change) /\ Len(log) \in Nat /\ DOMAIN log = 1 .. Len(log)
      /\ log' \in Seq(Change) /\ Len(log') \in Nat /\ DOMAIN log' = 1 .. Len(log')
      /\ Len(log) <= Len(log')
      /\ \A i \in 1 .. Len(log) : log'[i] = log[i]
  BY LenProperties DEF Inv, TypedTypeOK, TypeOK, Accepted, Accepts
<1>2. /\ contributions \subseteq S
      /\ \A k \in contributions : /\ k \in Aggregated /\ k \in call[c].saving
                                  /\ call[c].data[k] = g
  BY DEF Contributions, SavedKeys
<1>3. ASSUME NEW k \in S, k \in Aggregated
      PROVE  /\ saved[k] # Absent
             /\ k \in call[c].saving
             /\ saved[k].data = call[c].data[k]
  <2>1. k \in Keys /\ k \notin Groups
    BY <1>3, AggregatedAssumption DEF RecordKeys
  <2>2. k \in call[c].saving
    BY <1>3, <2>1 DEF SavedKeys, GroupsOf
  <2>3. SavedData(c)[k] = call[c].data[k]
    BY <1>3, <2>1 DEF SavedData
  <2>4. saved[k] = Written(c, call[c].policy, k, SavedData(c)[k])
    BY <1>3, <2>1 DEF AfterSaves
  <2>5. saved[k].data = SavedData(c)[k] /\ saved[k].version \in Int /\ saved[k].version >= 0
    <3>1. /\ SavedData(c)[k] \in Payloads
          /\ call[c].policy \in Policies
      BY <1>3 DEF BatchOK
    <3>2. held[c][k] # NotRead
      <4>1. call[c] # NoCall
        BY DEF BatchOK
      <4>2. QED
        BY <2>2, <4>1 DEF Inv, TypedTypeOK
    <3>3. saved[k] \in Record
      BY <2>1, <2>4, <3>1, <3>2, WrittenType DEF Inv, TypedTypeOK
    <3>4. QED
      BY <2>4, <3>3 DEF Written, Record, Versions
  <2>6. QED
    BY <2>2, <2>3, <2>5 DEF Absent
<1>4. ASSUME NEW i \in NewEntries, log'[i].after # Absent
      PROVE  /\ log'[i].key \in S
             /\ log'[i].after = saved[log'[i].key]
             /\ \A j \in NewEntries : j < i => log'[j].key # log'[i].key
  <2> DEFINE k == log'[i].key
  <2>1. \/ /\ k \in S
           /\ log'[i] = [key |-> k, before |-> store[k], after |-> saved[k]]
           /\ \A j \in NewEntries : j < i => log'[j].key # k
        \/ log'[i] = [key |-> k, before |-> saved[k], after |-> Absent]
    BY DEF Accepted, Accepts
  <2>2. \A r, x, y, z : r = [key |-> x, before |-> y, after |-> z] => r.after = z
    OBVIOUS
  <2>3. QED
    BY <1>4, <2>1, <2>2
<1>5. ASSUME NEW k \in contributions
      PROVE  \E i \in new : log'[i].key = k
  <2>1. PICK i \in NewEntries : log'[i].key = k /\ log'[i].after = saved[k]
    BY <1>2 DEF Accepted, Accepts
  <2>2. saved[k] # Absent
    BY <1>2, <1>3
  <2>3. QED
    BY <2>1, <2>2 DEF NewlyCounted
<1>6. new \subseteq NewEntries /\ \A i \in new : log'[i].key \in contributions
  BY DEF NewlyCounted
<1>7. \A i, j \in new : log'[i].key = log'[j].key => i = j
  <2>1. SUFFICES ASSUME NEW i \in new, NEW j \in new, i < j
                 PROVE  log'[i].key # log'[j].key
    BY <1>1, <1>6 DEF NewEntries
  <2>2. QED
    BY <1>4, <2>1 DEF NewlyCounted
<1>8. f \in Bijection(new, contributions)
  <2>1. f \in [new -> contributions]
    BY <1>6
  <2>2. \A i, j \in new : f[i] = f[j] => i = j
    BY <1>7
  <2>3. \A k \in contributions : \E i \in new : f[i] = k
    BY <1>5
  <2>4. QED
    BY <2>1, <2>2, <2>3 DEF Bijection, Injection, Surjection, IsInjective
<1>9. Counted(g)' = Counted(g) \cup new
  <2>1. Counted(g)' = {i \in 1 .. Len(log') : /\ log'[i].key \in Aggregated
                                             /\ log'[i].after # Absent
                                             /\ log'[i].after.data = g}
    BY <1>1 DEF Counted
  <2>2. Counted(g) = {i \in 1 .. Len(log) : /\ log[i].key \in Aggregated
                                           /\ log[i].after # Absent
                                           /\ log[i].after.data = g}
    BY <1>1 DEF Counted
  <2>3. ASSUME NEW i \in NewEntries
        PROVE  i \in Counted(g)' <=> i \in new
    <3>1. i \in 1 .. Len(log')
      BY <1>1 DEF NewEntries
    <3>2. CASE log'[i].after # Absent /\ log'[i].key \in Aggregated
      <4>1. /\ log'[i].key \in S
            /\ log'[i].after = saved[log'[i].key]
        BY <1>4, <3>2
      <4>2. /\ log'[i].key \in call[c].saving
            /\ log'[i].after.data = call[c].data[log'[i].key]
        BY <1>3, <3>2, <4>1
      <4>3. log'[i].after.data = g <=> log'[i].key \in contributions
        BY <3>2, <4>2 DEF Contributions
      <4>4. QED
        BY <2>1, <3>1, <3>2, <4>3 DEF NewlyCounted
    <3>3. CASE ~(log'[i].after # Absent /\ log'[i].key \in Aggregated)
      BY <1>2, <2>1, <3>3 DEF NewlyCounted
    <3>4. QED
      BY <3>2, <3>3
  <2>4. ASSUME NEW i \in 1 .. Len(log)
        PROVE  i \in Counted(g)' <=> i \in Counted(g)
    BY <1>1, <2>1, <2>2
  <2>5. \A i \in 1 .. Len(log') : i \in 1 .. Len(log) \/ i \in NewEntries
    BY <1>1 DEF NewEntries
  <2>6. ASSUME NEW i
        PROVE  i \in Counted(g)' <=> i \in Counted(g) \/ i \in new
    <3>1. i \in Counted(g)' => i \in 1 .. Len(log')
      BY <2>1
    <3>2. i \in Counted(g) => i \in 1 .. Len(log)
      BY <2>2
    <3>3. \A x \in 1 .. Len(log) : x \notin NewEntries
      BY <1>1 DEF NewEntries
    <3>4. QED
      BY <1>6, <2>3, <2>4, <2>5, <3>1, <3>2, <3>3
  <2>7. QED
    BY <2>6
<1>10. /\ IsFiniteSet(contributions) /\ Cardinality(contributions) \in Nat
       /\ IsFiniteSet(Counted(g)) /\ Cardinality(Counted(g)) \in Nat
       /\ Counted(g) \subseteq 1 .. Len(log)
  BY ContributionsAreFinite, CountedIsFinite DEF Inv, TypedTypeOK
<1>11. IsFiniteSet(new) /\ Cardinality(new) = Cardinality(contributions)
  <2>1. new \in SUBSET (1 .. Len(log'))
    BY <1>1, <1>6 DEF NewEntries
  <2>2. IsFiniteSet(new)
    <3>1. IsFiniteSet(1 .. Len(log'))
      BY <1>1, FS_Interval
    <3>2. QED
      BY <2>1, <3>1, FS_Subset
  <2>3. ExistsBijection(new, contributions)
    BY <1>8 DEF ExistsBijection
  <2>4. QED
    BY <2>2, <2>3, FS_Bijection
<1>12. Counted(g) \cap new = {}
  BY <1>1, <1>6, <1>10 DEF NewEntries
<1>13. /\ IsFiniteSet(Counted(g) \cup new)
       /\ Cardinality(Counted(g) \cup new)
             = Cardinality(Counted(g)) + Cardinality(new) - Cardinality(Counted(g) \cap new)
  BY <1>10, <1>11, FS_Union
<1>14. Cardinality(Counted(g) \cap new) = 0
  BY <1>12, FS_EmptySet
<1>15. QED
  BY <1>9, <1>10, <1>11, <1>13, <1>14

-----------------------------------------------------------------------------
(* An index in an accepted call *)

\* What the call writes for an index is the number it combined, or nothing.
LEMMA IndexIsSaved ==
    ASSUME Inv, NEW c \in Clients, NEW g \in Groups, BatchOK(c), Accepted(c)
    PROVE  /\ g \in GroupsOf(call[c]) =>
                 /\ store'[g] \in Record
                 /\ store'[g] = AfterSaves(c, call[c].policy, SavedKeys(c), SavedData(c))[g]
                 /\ Count(store'[g]) = Combined(c, g)
           /\ g \notin GroupsOf(call[c]) =>
                 /\ store'[g] = store[g]
                 /\ Cardinality(Contributions(call[c], g)) = 0
<1> DEFINE S == SavedKeys(c)
           saved == AfterSaves(c, call[c].policy, S, SavedData(c))
<1>1. g \in Keys
  BY GroupsAssumption
<1>2. store'[g] = saved[g]
  <2>1. g \notin call[c].deleting
    BY DEF BatchOK, Removals, RecordKeys
  <2>2. store' = AfterDeletes(saved, call[c].deleting)
    BY DEF Accepted, Accepts
  <2>3. QED
    BY <1>1, <2>1, <2>2 DEF AfterDeletes
<1>3. g \in S <=> g \in GroupsOf(call[c])
  BY DEF SavedKeys, BatchOK, RecordKeys
<1>4. CASE g \in GroupsOf(call[c])
  <2>1. /\ saved[g] = Written(c, call[c].policy, g, SavedData(c)[g])
        /\ SavedData(c)[g] = Combined(c, g)
        /\ SavedData(c)[g] \in Payloads
    BY <1>1, <1>3, <1>4 DEF AfterSaves, SavedData, BatchOK
  <2>2. held[c][g] # NotRead
    BY <1>4 DEF Inv, TypedTypeOK, BatchOK
  <2>3. saved[g] \in Record
    BY <1>1, <2>1, <2>2, WrittenType DEF Inv, TypedTypeOK, BatchOK
  <2>4. saved[g].data = Combined(c, g)
    BY <2>1 DEF Written
  <2>5. QED
    BY <1>2, <1>4, <2>3, <2>4, AbsentIsNoRecord DEF Count
<1>5. CASE g \notin GroupsOf(call[c])
  <2>1. Contributions(call[c], g) = {}
    BY <1>5 DEF GroupsOf
  <2>2. saved[g] = store[g]
    BY <1>1, <1>3, <1>5 DEF AfterSaves
  <2>3. QED
    BY <1>2, <1>5, <2>1, <2>2, FS_EmptySet
<1>6. QED
  BY <1>4, <1>5

\* What is found wrong in the log stays in it.
LEMMA LogKeepsItsPast ==
    ASSUME Inv, NEW c \in Clients, NEW g \in Groups, Accepted(c)
    PROVE  /\ \A x, i \in 1 .. Len(log) :
                 ChangesBetween(g, x, i)' = ChangesBetween(g, x, i)
           /\ WasOverwritten(g) => WasOverwritten(g)'
           /\ WentRound(g) => WentRound(g)'
<1>1. /\ Len(log) \in Nat /\ DOMAIN log = 1 .. Len(log)
      /\ Len(log') \in Nat /\ DOMAIN log' = 1 .. Len(log')
      /\ Len(log) <= Len(log')
      /\ \A i \in 1 .. Len(log) : log'[i] = log[i] /\ origin'[i] = origin[i]
  BY LenProperties DEF Inv, TypedTypeOK, TypeOK, Accepted, Accepts
<1>2. ASSUME NEW x, NEW i \in 1 .. Len(log)
      PROVE  ChangesBetween(g, x, i)' = ChangesBetween(g, x, i)
  BY <1>1 DEF ChangesBetween
<1>3. ASSUME NEW i \in DOMAIN log
      PROVE  /\ i \in DOMAIN log' /\ log'[i] = log[i] /\ origin'[i] = origin[i]
             /\ ChangesBetween(g, origin[i].since, i)'
                   = ChangesBetween(g, origin[i].since, i)
  BY <1>1, <1>2 DEF ChangesBetween
<1>4. WasOverwritten(g) => WasOverwritten(g)'
  <2>1. SUFFICES ASSUME NEW i \in DOMAIN log, log[i].key = g,
                        origin[i].policy = OverwriteServerChanges,
                        ChangesBetween(g, origin[i].since, i) # {}
                 PROVE  WasOverwritten(g)'
    BY DEF WasOverwritten
  <2>2. /\ i \in DOMAIN log' /\ log'[i].key = g
        /\ origin'[i].policy = OverwriteServerChanges
        /\ ChangesBetween(g, origin[i].since, i)' # {}
    BY <1>3, <2>1
  <2>3. QED
    BY <2>2 DEF WasOverwritten
<1>5. WentRound(g) => WentRound(g)'
  BY <1>3 DEF WentRound
<1>6. QED
  BY <1>2, <1>4, <1>5

\* An index that was never overwritten unseen, and whose version never went
\* round, is saved by calls only that have combined the one that is stored.
LEMMA IndexIsFresh ==
    ASSUME Inv, NEW c \in Clients, NEW g \in Groups, BatchOK(c), Accepted(c),
           ~Conflicts(c, call[c].policy, SavedKeys(c)),
           g \in GroupsOf(call[c]), ~WasOverwritten(g)', ~WentRound(g)
    PROVE  store[g] = held[c][g]
<1> DEFINE S == SavedKeys(c)
           saved == AfterSaves(c, call[c].policy, S, SavedData(c))
<1>1. /\ Len(log) \in Nat /\ DOMAIN log = 1 .. Len(log)
      /\ Len(log') \in Nat /\ DOMAIN log' = 1 .. Len(log')
      /\ \A i \in 1 .. Len(log) : log'[i] = log[i]
  BY LenProperties DEF Inv, TypedTypeOK, TypeOK, Accepted, Accepts
<1>2. /\ g \in Keys /\ g \in S
      /\ held[c][g] # NotRead
  BY GroupsAssumption DEF SavedKeys, Inv, TypedTypeOK, BatchOK
<1>3. /\ Unseen(c, g) = {} => store[g] = held[c][g]
      /\ /\ Unseen(c, g) # {}
         /\ \A j \in Unseen(c, g) : log[j].after # Absent /\ log[j].after.version # 0
         => store[g] # Absent /\ store[g].version > SentVersion(c, g)
  BY <1>2 DEF Inv, HeldBoundsStore
<1>4. Unseen(c, g) = {j \in 1 .. Len(log) :
                         readAt[c][g] < j /\ j < Len(log) + 1 /\ log[j].key = g}
  BY <1>1 DEF Unseen, ChangesBetween
<1>5. CASE call[c].policy = IfServerNotChanged
  <2>1. \A j \in Unseen(c, g) : log[j].after # Absent /\ log[j].after.version # 0
    BY <1>1, <1>4 DEF Inv, IndicesStay, WentRound
  <2>2. store[g] # Absent => store[g].version = SentVersion(c, g)
    BY <1>2, <1>5 DEF Conflicts
  <2>3. store[g] # Absent => store[g].version \in Int
    BY <1>2 DEF Inv, TypedTypeOK, TypeOK, Record, Versions
  <2>4. Unseen(c, g) = {}
    BY <1>3, <2>1, <2>2, <2>3
  <2>5. QED
    BY <1>3, <2>4
<1>6. CASE call[c].policy = OverwriteServerChanges
  <2>1. PICK i \in NewEntries : log'[i].key = g /\ log'[i].after = saved[g]
    BY <1>2 DEF Accepted, Accepts
  <2>2. saved[g] # Absent
    BY IndexIsSaved, AbsentIsNoRecord
  <2>3. origin'[i] = [policy |-> call[c].policy, since |-> readAt[c][g]]
    <3> DEFINE k == log'[i].key
    <3>1. \/ origin'[i] = [policy |-> call[c].policy, since |-> readAt[c][k]]
          \/ log'[i] = [key |-> k, before |-> saved[k], after |-> Absent]
      BY DEF Accepted, Accepts
    <3>2. \A r, x, y, z : r = [key |-> x, before |-> y, after |-> z] => r.after = z
      OBVIOUS
    <3>3. QED
      BY <2>1, <2>2, <3>1, <3>2
  <2>4. {j \in DOMAIN log' : readAt[c][g] < j /\ j < i /\ log'[j].key = g} = {}
    <3>1. i \in DOMAIN log'
      BY <1>1 DEF NewEntries
    <3>2. ChangesBetween(g, origin[i].since, i)' = {}
      BY <1>6, <2>1, <2>3, <3>1 DEF WasOverwritten
    <3>3. ChangesBetween(g, origin[i].since, i)'
            = {j \in DOMAIN log' : origin'[i].since < j /\ j < i /\ log'[j].key = g}
      BY DEF ChangesBetween
    <3>4. QED
      BY <2>3, <3>2, <3>3
  <2>5. ASSUME NEW j \in Unseen(c, g)
        PROVE  FALSE
    <3>1. /\ j \in 1 .. Len(log') /\ log'[j].key = g
          /\ readAt[c][g] < j /\ j < i
      BY <1>1, <1>4, <2>1 DEF NewEntries, Accepted, Accepts
    <3>2. QED
      BY <1>1, <2>4, <3>1
  <2>6. QED
    BY <1>3, <2>5
<1>7. QED
  BY <1>5, <1>6, PoliciesAssumption DEF BatchOK

-----------------------------------------------------------------------------
(* The invariant *)

LEMMA InitInv == TypedInit => Inv
<1> SUFFICES ASSUME TypedInit PROVE Inv
  OBVIOUS
<1>1. TypeOK /\ HeldBoundsStore
  BY TypeInit, HeldInit DEF TypedInit
<1>2. log = <<>> /\ Len(log) = 0 /\ DOMAIN log = {}
  BY DEF TypedInit, Init
<1>3. TypedTypeOK
  BY <1>1 DEF TypedTypeOK, TypedInit
<1>4. \A g \in Groups : Counted(g) = {}
  BY <1>2 DEF Counted
<1>5. Cardinality({}) = 0
  BY FS_EmptySet
<1>6. \A g \in Groups : Count(store[g]) = 0
  BY GroupsAssumption DEF TypedInit, Init, Count
<1>7. \A g \in Groups, c \in Clients : held[c][g] = NotRead
  BY GroupsAssumption DEF TypedInit, Init
<1>8. NoneCountsMore
  BY <1>4, <1>5, <1>6, <1>7 DEF NoneCountsMore, CountsNoMore
<1>9. IndexIsTotal
  BY <1>4, <1>5, <1>6 DEF IndexIsTotal
<1>10. QED
  BY <1>1, <1>2, <1>3, <1>8, <1>9, MaxChangesAssumption DEF Inv, IndicesStay

\* Reading: the client holds what is stored, and nothing else changes.
LEMMA GetKeepsCounts ==
    ASSUME Inv, NEW c \in Clients, NEW k \in Keys, Get(c, k)
    PROVE  NoneCountsMore' /\ IndicesStay' /\ IndexIsTotal' /\ Len(log') <= MaxChanges
<1>1. UNCHANGED <<store, log, origin>>
  BY DEF Get
<1>2. \A g \in Groups : Counted(g)' = Counted(g)
  BY <1>1 DEF Counted
<1>3. \A g \in Groups, d \in Clients :
         held'[d][g] = held[d][g] \/ held'[d][g] = store[g]
  BY GroupsAssumption DEF Get, Inv, TypedTypeOK, TypeOK
<1>4. NoneCountsMore'
  BY <1>1, <1>2, <1>3 DEF Inv, NoneCountsMore, CountsNoMore
<1>5. IndexIsTotal'
  BY <1>1, <1>2 DEF Inv, IndexIsTotal, WasOverwritten, WentRound, ChangesBetween
<1>6. QED
  BY <1>1, <1>4, <1>5 DEF Inv, IndicesStay

LEMMA StillKeepsCounts ==
    ASSUME Inv, UNCHANGED <<store, log, origin, held>>
    PROVE  NoneCountsMore' /\ IndicesStay' /\ IndexIsTotal' /\ Len(log') <= MaxChanges
<1>1. \A g \in Groups : Counted(g)' = Counted(g)
  BY DEF Counted
<1>2. QED
  BY <1>1 DEF Inv, NoneCountsMore, CountsNoMore, IndicesStay, IndexIsTotal,
              WasOverwritten, WentRound, ChangesBetween

\* Saving: an index counts as many records more as its group gained.
LEMMA CommitKeepsCounts ==
    ASSUME Inv, NEW c \in Clients, Commit(c),
           ~Conflicts(c, call[c].policy, SavedKeys(c))
    PROVE  NoneCountsMore' /\ IndicesStay' /\ IndexIsTotal' /\ Len(log') <= MaxChanges
<1> DEFINE S == SavedKeys(c)
           saved == AfterSaves(c, call[c].policy, S, SavedData(c))
           gained(g) == Cardinality(Contributions(call[c], g))
<1>1. BatchOK(c) /\ Accepted(c) /\ UNCHANGED <<held, readAt>>
  BY CommittedBatch, CommitAccepted DEF Commit
<1>2. \A g \in Groups :
         /\ Cardinality(Counted(g)) \in Nat /\ gained(g) \in Nat
         /\ Cardinality(Counted(g)') = Cardinality(Counted(g)) + gained(g)
  BY <1>1, BatchIsCounted, CountedIsFinite, ContributionsAreFinite DEF Inv, TypedTypeOK
<1>3. ASSUME NEW g \in Groups
      PROVE  CountsNoMore(store[g], g)'
  <2>1. CASE g \in GroupsOf(call[c])
    <3>1. Count(store'[g]) = Count(held[c][g]) + gained(g)
      BY <1>1, <2>1, IndexIsSaved DEF Combined
    <3>2. CountsNoMore(held[c][g], g)
      BY <1>1, <2>1 DEF Inv, NoneCountsMore, TypedTypeOK, BatchOK
    <3>3. QED
      BY <1>2, <3>1, <3>2 DEF CountsNoMore
  <2>2. CASE g \notin GroupsOf(call[c])
    <3>1. store'[g] = store[g] /\ CountsNoMore(store[g], g)
      BY <1>1, <2>2, IndexIsSaved DEF Inv, NoneCountsMore
    <3>2. QED
      BY <1>2, <3>1 DEF CountsNoMore
  <2>3. QED
    BY <2>1, <2>2
<1>4. ASSUME NEW g \in Groups, NEW d \in Clients, held'[d][g] # NotRead
      PROVE  CountsNoMore(held[d][g], g)'
  <2>1. held'[d][g] = held[d][g] /\ CountsNoMore(held[d][g], g)
    BY <1>1, <1>4 DEF Inv, NoneCountsMore
  <2>2. QED
    BY <1>2, <2>1 DEF CountsNoMore
<1>5. NoneCountsMore'
  BY <1>3, <1>4 DEF NoneCountsMore
<1>6. /\ DOMAIN log = 1 .. Len(log) /\ DOMAIN log' = 1 .. Len(log')
      /\ Len(log) \in Nat /\ Len(log') \in Nat
      /\ \A i \in 1 .. Len(log) : log'[i] = log[i]
  BY <1>1, LenProperties DEF Inv, TypedTypeOK, TypeOK, Accepted, Accepts
<1>7. IndicesStay'
  <2>1. SUFFICES ASSUME NEW i \in NewEntries, log'[i].key \in Groups
                 PROVE  log'[i].after # Absent
    BY <1>6 DEF Inv, IndicesStay, NewEntries
  <2> DEFINE k == log'[i].key
  <2>2. \/ k \in S /\ log'[i] = [key |-> k, before |-> store[k], after |-> saved[k]]
        \/ k \in call[c].deleting
    BY <1>1 DEF Accepted, Accepts
  <2>3. k \notin call[c].deleting
    BY <1>1, <2>1 DEF BatchOK, Removals, RecordKeys
  <2>4. k \in GroupsOf(call[c])
    BY <1>1, <2>1, <2>2, <2>3 DEF SavedKeys, BatchOK, RecordKeys
  <2>5. saved[k] \in Record
    BY <1>1, <2>1, <2>4, IndexIsSaved
  <2>6. log'[i].after = saved[k]
    <3>1. \A r, x, y, z : r = [key |-> x, before |-> y, after |-> z] => r.after = z
      OBVIOUS
    <3>2. QED
      BY <2>2, <2>3, <3>1
  <2>7. QED
    BY <2>5, <2>6, AbsentIsNoRecord
<1>8. IndexIsTotal'
  <2>1. \A g \in Groups : Count(store'[g]) <= Cardinality(Counted(g)')
    BY <1>3 DEF CountsNoMore
  <2>2. ASSUME NEW g \in Groups, ~WasOverwritten(g)', ~WentRound(g)'
        PROVE  Count(store'[g]) = Cardinality(Counted(g)')
    <3>1. ~WasOverwritten(g) /\ ~WentRound(g)
      BY <1>1, <2>2, LogKeepsItsPast
    <3>2. Count(store[g]) = Cardinality(Counted(g))
      BY <3>1 DEF Inv, IndexIsTotal
    <3>3. CASE g \in GroupsOf(call[c])
      <4>1. store[g] = held[c][g]
        BY <1>1, <2>2, <3>1, <3>3, IndexIsFresh
      <4>2. Count(store'[g]) = Count(held[c][g]) + gained(g)
        BY <1>1, <3>3, IndexIsSaved DEF Combined
      <4>3. QED
        BY <1>2, <3>2, <4>1, <4>2
    <3>4. CASE g \notin GroupsOf(call[c])
      <4>1. store'[g] = store[g] /\ gained(g) = 0
        BY <1>1, <3>4, IndexIsSaved
      <4>2. QED
        BY <1>2, <3>2, <4>1
    <3>5. QED
      BY <3>3, <3>4
  <2>3. QED
    BY <2>1, <2>2 DEF IndexIsTotal
<1>9. Len(log') <= MaxChanges
  BY <1>1 DEF Accepted, Accepts, Commit, UpdateRecords
<1>10. QED
  BY <1>5, <1>7, <1>8, <1>9

\* What TypedTypeOK says of one client.
CallOK(c) ==
    IF call[c] = NoCall THEN loaded[c] = {}
    ELSE /\ call[c].data \in [call[c].saving -> Groups]
         /\ loaded[c] \subseteq GroupsOf(call[c])
         /\ \A k \in call[c].saving \cup call[c].deleting \cup loaded[c] :
               held[c][k] # NotRead

LEMMA CallsAreTyped ==
    ASSUME TypedTypeOK, TypeOK',
           call' \in [Clients -> Batches \cup {NoCall}],
           loaded' \in [Clients -> SUBSET Groups],
           \A c \in Clients : CallOK(c)'
    PROVE  TypedTypeOK'
BY DEF TypedTypeOK, CallOK

\* A call that ends, and one that is not touched.
LEMMA ReturnIsTyped ==
    ASSUME TypedTypeOK, NEW c \in Clients, Return(c), UNCHANGED held, TypeOK'
    PROVE  TypedTypeOK'
<1>1. /\ call' \in [Clients -> Batches \cup {NoCall}]
      /\ loaded' \in [Clients -> SUBSET Groups]
  BY DEF TypedTypeOK, Return
<1>2. CallOK(c)'
  BY DEF TypedTypeOK, Return, CallOK
<1>3. ASSUME NEW d \in Clients, d # c
      PROVE  CallOK(d)'
  <2>1. call'[d] = call[d] /\ loaded'[d] = loaded[d] /\ held'[d] = held[d]
    BY <1>3 DEF TypedTypeOK, Return
  <2>2. CallOK(d)
    BY DEF TypedTypeOK, CallOK
  <2>3. QED
    BY <2>1, <2>2 DEF CallOK
<1>4. QED
  BY <1>1, <1>2, <1>3, CallsAreTyped

\* Records that have been read stay read.
LEMMA GetReads ==
    ASSUME TypeOK, NEW c \in Clients, NEW k \in Keys, Get(c, k)
    PROVE  /\ held'[c][k] # NotRead
           /\ \A d \in Clients, x \in Keys :
                 held[d][x] # NotRead => held'[d][x] # NotRead
<1>1. store[k] # NotRead
  BY AbsentIsNoRecord DEF TypeOK
<1>2. QED
  BY <1>1 DEF Get, TypeOK

LEMMA TypedTypeStep == Inv /\ [TypedNext]_typedVars => TypedTypeOK'
<1> SUFFICES ASSUME Inv, [TypedNext]_typedVars PROVE TypedTypeOK'
  OBVIOUS
<1>1. TypeOK'
  BY StepMaps, TypeStep DEF Inv, TypedTypeOK
<1>2. \A d \in Clients : CallOK(d)
  BY DEF Inv, TypedTypeOK, CallOK
<1>3. /\ call \in [Clients -> Batches \cup {NoCall}]
      /\ loaded \in [Clients -> SUBSET Groups]
      /\ TypeOK
  BY DEF Inv, TypedTypeOK
<1>4. \A d \in Clients : call[d] # NoCall =>
         call[d].saving \cup call[d].deleting \cup loaded[d] \subseteq Keys
  BY <1>3, GroupsAssumption DEF Batches, Removals, RecordKeys
<1>5. ASSUME NEW c \in Clients, NEW k \in RecordKeys, TypedGet(c, k)
      PROVE  TypedTypeOK'
  <2>1. /\ call' = call /\ loaded' = loaded
        /\ \A d \in Clients, x \in Keys :
              held[d][x] # NotRead => held'[d][x] # NotRead
    BY <1>3, <1>5, GetReads DEF TypedGet, RecordKeys
  <2>2. \A d \in Clients : CallOK(d)'
    BY <1>2, <1>4, <2>1 DEF CallOK
  <2>3. QED
    BY <1>1, <1>3, <2>1, <2>2, CallsAreTyped DEF Inv
<1>6. ASSUME NEW c \in Clients, NEW policy \in Policies,
             NEW saving \in SUBSET RecordKeys, NEW deleting \in Removals,
             NEW data \in [saving -> Groups],
             Begin(c, [policy |-> policy, saving |-> saving, deleting |-> deleting,
                       data |-> data])
      PROVE  TypedTypeOK'
  <2> DEFINE batch == [policy |-> policy, saving |-> saving, deleting |-> deleting,
                       data |-> data]
  <2>1. batch \in Batches /\ batch # NoCall
    <3>1. data \in UNION {[s -> Groups] : s \in SUBSET RecordKeys}
      OBVIOUS
    <3>2. batch \in Batches
      BY <3>1 DEF Batches
    <3>3. batch.policy # "none"
      BY PoliciesAssumption DEF IfServerNotChanged, OverwriteServerChanges
    <3>4. QED
      BY <3>2, <3>3 DEF NoCall
  <2>2. /\ call' = [call EXCEPT ![c] = batch] /\ loaded' = loaded /\ held' = held
        /\ call[c] = NoCall
        /\ \A k \in saving \cup deleting : held[c][k] # NotRead
    BY <1>6 DEF Begin, vars
  <2>3. call' \in [Clients -> Batches \cup {NoCall}]
    BY <1>3, <2>1, <2>2
  <2>4. CallOK(c)'
    <3>1. call'[c] = batch /\ loaded'[c] = {}
      BY <1>2, <1>3, <2>2 DEF CallOK
    <3>2. QED
      BY <2>1, <2>2, <3>1 DEF CallOK
  <2>5. ASSUME NEW d \in Clients, d # c
        PROVE  CallOK(d)'
    BY <1>2, <1>3, <2>2, <2>5 DEF CallOK
  <2>6. QED
    BY <1>1, <1>3, <2>2, <2>3, <2>4, <2>5, CallsAreTyped DEF Inv
<1>7. ASSUME NEW c \in Clients, NEW g \in Groups, LoadIndex(c, g)
      PROVE  TypedTypeOK'
  <2>1. /\ call' = call
        /\ loaded' = [loaded EXCEPT ![c] = @ \cup {g}]
        /\ call[c] # NoCall /\ g \in GroupsOf(call[c])
        /\ held'[c][g] # NotRead
        /\ \A d \in Clients, x \in Keys :
              held[d][x] # NotRead => held'[d][x] # NotRead
    BY <1>3, <1>7, GroupsAssumption, GetReads DEF LoadIndex
  <2>2. loaded' \in [Clients -> SUBSET Groups]
    BY <1>3, <2>1
  <2>3. CallOK(c)'
    <3>1. loaded'[c] = loaded[c] \cup {g}
      BY <1>3, <2>1
    <3>2. QED
      BY <1>2, <1>4, <2>1, <3>1 DEF CallOK
  <2>4. ASSUME NEW d \in Clients, d # c
        PROVE  CallOK(d)'
    <3>1. loaded'[d] = loaded[d]
      BY <1>3, <2>1, <2>4
    <3>2. QED
      BY <1>2, <1>4, <2>1, <3>1 DEF CallOK
  <2>5. QED
    BY <1>1, <1>3, <2>1, <2>2, <2>3, <2>4, CallsAreTyped DEF Inv
<1>8. ASSUME NEW c \in Clients, CombineFails(c) \/ Commit(c)
      PROVE  TypedTypeOK'
  <2>1. Return(c) /\ UNCHANGED held
    BY <1>8 DEF CombineFails, Commit, vars, UpdateRecords
  <2>2. QED
    BY <1>1, <2>1, ReturnIsTyped DEF Inv
<1>9. CASE UNCHANGED typedVars
  <2>1. call' = call /\ loaded' = loaded /\ held' = held
    BY <1>9 DEF typedVars, vars
  <2>2. \A d \in Clients : CallOK(d)'
    BY <1>2, <2>1 DEF CallOK
  <2>3. QED
    BY <1>1, <1>3, <2>1, <2>2, CallsAreTyped DEF Inv
<1>10. QED
  BY <1>5, <1>6, <1>7, <1>8, <1>9 DEF TypedNext

LEMMA StepInv == Inv /\ [TypedNext]_typedVars => Inv'
<1> SUFFICES ASSUME Inv, [TypedNext]_typedVars PROVE Inv'
  OBVIOUS
<1>1. TypedTypeOK'
  BY TypedTypeStep
<1>2. HeldBoundsStore'
  BY StepMaps, HeldStep DEF Inv, TypedTypeOK
<1> DEFINE Rest == NoneCountsMore' /\ IndicesStay' /\ IndexIsTotal' /\ Len(log') <= MaxChanges
<1>3. ASSUME NEW c \in Clients, NEW k \in RecordKeys, TypedGet(c, k)
      PROVE  Rest
  BY <1>3, GetKeepsCounts DEF TypedGet, RecordKeys
<1>4. ASSUME NEW c \in Clients, NEW g \in Groups, LoadIndex(c, g)
      PROVE  Rest
  BY <1>4, GroupsAssumption, GetKeepsCounts DEF LoadIndex
<1>5. ASSUME NEW c \in Clients, NEW batch, Begin(c, batch)
      PROVE  Rest
  BY <1>5, StillKeepsCounts DEF Begin, vars
<1>6. ASSUME NEW c \in Clients, CombineFails(c)
      PROVE  Rest
  BY <1>6, StillKeepsCounts DEF CombineFails, vars
<1>7. ASSUME NEW c \in Clients, Commit(c)
      PROVE  Rest
  <2>1. CASE Conflicts(c, call[c].policy, SavedKeys(c))
    BY <1>7, <2>1, CommitRefused, StillKeepsCounts
  <2>2. CASE ~Conflicts(c, call[c].policy, SavedKeys(c))
    BY <1>7, <2>2, CommitKeepsCounts
  <2>3. QED
    BY <2>1, <2>2
<1>8. ASSUME UNCHANGED typedVars
      PROVE  Rest
  <2>1. UNCHANGED <<store, log, origin, held>>
    BY <1>8 DEF typedVars, vars
  <2>2. QED
    BY <2>1, StillKeepsCounts
<1>9. Rest
  <2> HIDE DEF Rest
  <2>1. QED
    BY <1>3, <1>4, <1>5, <1>6, <1>7, <1>8 DEF TypedNext
<1>10. QED
  BY <1>1, <1>2, <1>9 DEF Inv

-----------------------------------------------------------------------------
(* The theorems *)

\* The variables keep their types; a call holds what it has read, and has
\* loaded indices of its own groups only.
THEOREM TypedTypeCorrect == TypedSpec => []TypedTypeOK
<1>1. Inv => TypedTypeOK
  BY DEF Inv
<1>2. QED
  BY <1>1, InitInv, StepInv, PTL DEF TypedSpec

\* Under every interleaving of typed calls, an index is the number of records
\* saved in its group, unless a call overwrote it or its version went round;
\* and never more.
THEOREM IndicesAreTotal == TypedSpec => []IndexIsTotal
<1>1. Inv => IndexIsTotal
  BY DEF Inv
<1>2. QED
  BY <1>1, InitInv, StepInv, PTL DEF TypedSpec

\* The typed repository is one more client of the schemaless repository: what
\* it does, Repository allows, so its theorems hold of the records and of the
\* indices.
THEOREM ImplementsRepository == TypedSpec => Spec
<1>1. TypedInit => Init
  BY DEF TypedInit
<1>2. QED
  BY <1>1, InitInv, StepInv, StepMaps, PTL DEF TypedSpec, Spec
=============================================================================
