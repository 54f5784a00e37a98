----------------------------- MODULE Repository -----------------------------
(***************************************************************************)
(* The in-memory schemaless repository, x/storage/schemaless/schema.go:    *)
(* records with a version, written in batches under optimistic concurrency *)
(* control, every write also appended to a change log that subscribers     *)
(* (AppendLog) and task queues consume.                                    *)
(*                                                                         *)
(* UpdateRecords holds the repository's mutex from its first read of the   *)
(* store to the append to the log, so one step of the model is one call.   *)
(* What interleaves is the clients' read-modify-write: a client reads a    *)
(* record in one step and saves it, or deletes it, in a later one.         *)
(***************************************************************************)
EXTENDS Integers, Sequences, FiniteSets, Functions

CONSTANTS
    Keys,          \* what toKey makes of a record: its ID and type
    Payloads,      \* values of Record.Data
    Clients,       \* goroutines that use the repository
    VersionLimit,  \* 2^16 in the code: Record.Version is a uint16
    Policies,      \* the updating policies the clients use
    Deletions,     \* TRUE when clients also delete records
    MaxChanges     \* bound on the length of the change log

IfServerNotChanged == "if-server-not-changed"
OverwriteServerChanges == "overwrite-server-changes"

ASSUME VersionLimitAssumption == VersionLimit \in Nat /\ VersionLimit > 1
ASSUME PoliciesAssumption ==
    Policies \subseteq {IfServerNotChanged, OverwriteServerChanges}
ASSUME DeletionsAssumption == Deletions \in BOOLEAN
ASSUME MaxChangesAssumption == MaxChanges \in Nat
ASSUME KeysAssumption == IsFiniteSet(Keys)

VARIABLES
    store,    \* InMemoryRepository.store
    log,      \* InMemoryRepository.appendLog
    held,     \* per client and key, the result of the last Get
    origin,   \* auxiliary, parallel to log: how each change was made
    readAt,   \* auxiliary: length of the log when held was read
    outcome   \* per client, what its last UpdateRecords returned

vars == <<store, log, held, origin, readAt, outcome>>

-----------------------------------------------------------------------------
Versions == 0 .. (VersionLimit - 1)
Record == [version : Versions, data : Payloads]
Absent == [version |-> -1]                 \* not in the map, ErrNotFound
NotRead == [version |-> -2]                \* the client never asked

\* A Change of the log. Deleted is TRUE exactly when After is nil.
Change == [key : Keys, before : Record \cup {Absent},
           after : Record \cup {Absent}]

Origin == [policy : Policies \cup {"delete"}, since : Nat]

TypeOK ==
    /\ store \in [Keys -> Record \cup {Absent}]
    /\ log \in Seq(Change)
    /\ held \in [Clients -> [Keys -> Record \cup {Absent, NotRead}]]
    /\ origin \in Seq(Origin) /\ Len(origin) = Len(log)
    /\ readAt \in [Clients -> [Keys -> Nat]]
    /\ outcome \in [Clients -> {"none", "saved", "conflict"}]

Init ==
    /\ store = [k \in Keys |-> Absent]
    /\ log = <<>>
    /\ held = [c \in Clients |-> [k \in Keys |-> NotRead]]
    /\ origin = <<>>
    /\ readAt = [c \in Clients |-> [k \in Keys |-> 0]]
    /\ outcome = [c \in Clients |-> "none"]

-----------------------------------------------------------------------------
\* The record a client got for k, or ErrNotFound.
Get(c, k) ==
    /\ held' = [held EXCEPT ![c][k] = store[k]]
    /\ readAt' = [readAt EXCEPT ![c][k] = Len(log)]
    /\ outcome' = [outcome EXCEPT ![c] = "none"]
    /\ UNCHANGED <<store, log, origin>>

\* The version a client sends: that of the record it holds, 0 for a record
\* it builds after ErrNotFound.
SentVersion(c, k) == IF held[c][k] = Absent THEN 0 ELSE held[c][k].version

\* Mutations of the check: a conflict only when every record is stale, and
\* also when a record is missing.
ConflictsIfAllStale(c, policy, saving) ==
    /\ policy = IfServerNotChanged /\ saving # {}
    /\ \A k \in saving : store[k] # Absent /\ store[k].version # SentVersion(c, k)
ConflictsIfMissing(c, policy, saving) ==
    /\ policy = IfServerNotChanged
    /\ \E k \in saving : store[k].version # SentVersion(c, k)

\* The check of the validation loop. Only records that are in the store are
\* compared; the version of a missing one is set to 0 in the loop's copy of
\* the record, which the code then drops, so it is not seen below.
Conflicts(c, policy, saving) ==
    /\ policy = IfServerNotChanged
    /\ \E k \in saving : store[k] # Absent
                         /\ store[k].version # SentVersion(c, k)

\* Mutation: an overwritten record keeps its version.
WrittenOver(c, policy, k, d) ==
    IF store[k] # Absent /\ policy = OverwriteServerChanges
    THEN [version |-> store[k].version, data |-> d]
    ELSE [version |-> (SentVersion(c, k) + 1) % VersionLimit, data |-> d]

\* The record the save loop writes for k.
Written(c, policy, k, d) ==
    LET base == IF store[k] # Absent /\ policy = OverwriteServerChanges
                THEN store[k].version
                ELSE SentVersion(c, k)
    IN  [version |-> (base + 1) % VersionLimit, data |-> d]

\* The orders in which a Go map with the given keys is ranged over.
Orders(S) == Bijection(1 .. Cardinality(S), S)

\* The store after the save loop and after the delete loop.
AfterSaves(c, policy, saving, data) ==
    [k \in Keys |-> IF k \in saving THEN Written(c, policy, k, data[k]) ELSE store[k]]
\* Mutation: a deleted record leaves an empty entry behind.
EmptyAfterDeletes(s, deleting) ==
    [k \in Keys |-> IF k \in deleting THEN [version |-> 0] ELSE s[k]]
AfterDeletes(s, deleting) ==
    [k \in Keys |-> IF k \in deleting THEN Absent ELSE s[k]]

\* Mutations: Before and After exchanged, and Before read after the write.
ChangesReversed(order, s, t) ==
    [i \in DOMAIN order |->
        [key |-> order[i], before |-> t[order[i]], after |-> s[order[i]]]]
ChangesReadLate(order, s, t) ==
    [i \in DOMAIN order |->
        [key |-> order[i], before |-> t[order[i]], after |-> t[order[i]]]]

\* The changes of a loop that takes the store from s to t, key by key.
ChangesOf(order, s, t) ==
    [i \in DOMAIN order |->
        [key |-> order[i], before |-> s[order[i]], after |-> t[order[i]]]]
OriginsOf(order, policy, c) ==
    [i \in DOMAIN order |->
        [policy |-> policy, since |-> readAt[c][order[i]]]]

\* UpdateRecords with the Data of each record to save: nothing on a conflict,
\* otherwise all the saves, then all the deletions, with one change each; a
\* deletion checks no version and leaves no change when nothing is deleted.
UpdateRecords(c, policy, saving, deleting, data) ==
    /\ saving \cup deleting # {}
    /\ \A k \in saving \cup deleting : held[c][k] # NotRead
    /\ IF Conflicts(c, policy, saving)
       THEN /\ outcome' = [outcome EXCEPT ![c] = "conflict"]
            /\ UNCHANGED <<store, log, origin>>
       ELSE LET saved == AfterSaves(c, policy, saving, data)
                gone == {k \in deleting : saved[k] # Absent}
            IN  /\ Len(log) + Cardinality(saving) + Cardinality(gone) <= MaxChanges
                /\ store' = AfterDeletes(saved, deleting)
                /\ \E so \in Orders(saving), do \in Orders(gone) :
                      /\ log' = (log \o ChangesOf(so, store, saved))
                                     \o ChangesOf(do, saved, store')
                      /\ origin' = (origin \o OriginsOf(so, policy, c))
                                           \o OriginsOf(do, "delete", c)
                /\ outcome' = [outcome EXCEPT ![c] = "saved"]
    /\ UNCHANGED <<held, readAt>>

Next ==
    \E c \in Clients :
        \/ \E k \in Keys : Get(c, k)
        \/ \E policy \in Policies, saving \in SUBSET Keys,
              deleting \in IF Deletions THEN SUBSET Keys ELSE {{}} :
              \E data \in [saving -> Payloads] :
                  UpdateRecords(c, policy, saving, deleting, data)

Spec == Init /\ [][Next]_vars

-----------------------------------------------------------------------------
(* Properties *)

\* k is changed by entry i of the log l and by none of the later ones.
IsLatest(l, k, i) ==
    /\ i \in DOMAIN l
    /\ l[i].key = k
    /\ \A j \in DOMAIN l : l[j].key = k => j <= i

\* Reading the log l to its end leaves exactly the records of s.
ReplaysTo(l, s) ==
    \A k \in Keys :
        /\ \A i \in DOMAIN l : IsLatest(l, k, i) => s[k] = l[i].after
        /\ (\A i \in DOMAIN l : l[i].key # k) => s[k] = Absent

\* The log is a complete audit trail: replaying it gives the store, whatever
\* the batches and the order in which their maps were ranged over.
LogReplaysToStore == ReplaysTo(log, store)

\* i is the last change of its key before entry j of l, which is of that key.
Precedes(l, i, j) ==
    /\ i < j
    /\ l[i].key = l[j].key
    /\ \A m \in DOMAIN l : i < m /\ m < j => l[m].key # l[j].key

Chained(l) ==
    \A j \in DOMAIN l :
        /\ \A i \in DOMAIN l : Precedes(l, i, j) => l[j].before = l[i].after
        /\ (\A i \in DOMAIN l : i < j => l[i].key # l[j].key)
              => l[j].before = Absent

\* Subscribers that diff Before and After miss nothing: a change starts from
\* the record that the previous change of the same key left.
ChangesAreChained == Chained(log)

\* Under both policies an update of an existing record takes its next
\* version, modulo the width of the counter.
VersionsAreContiguous ==
    \A i \in DOMAIN log :
        log[i].before # Absent /\ log[i].after # Absent
            => log[i].after.version = (log[i].before.version + 1) % VersionLimit

\* The changes of k that the log received between two of its positions.
ChangesBetween(k, from, to) ==
    {j \in DOMAIN log : from < j /\ j < to /\ log[j].key = k}

\* The point of the version check: a save that updates an existing record
\* overwrites nothing that its client had not read. There are two exceptions,
\* and no third: since the read the record was deleted (and created again),
\* or its version counter went round to 0.
NoLostUpdate ==
    \A i \in DOMAIN log :
        origin[i].policy = IfServerNotChanged /\ log[i].before # Absent
            => LET unseen == ChangesBetween(log[i].key, origin[i].since, i)
               IN  \/ unseen = {}
                   \/ \E j \in unseen : log[j].after = Absent
                   \/ \E j \in unseen : log[j].after.version = 0

\* The changes of k since client c read it.
Unseen(c, k) == ChangesBetween(k, readAt[c][k], Len(log) + 1)

\* What a held record still says about the store: all, while nothing changed;
\* afterwards a lower bound on the version, as long as no change deleted the
\* record or took its version round. It is what makes comparing versions a
\* check for changes, and the two properties that follow rest on it.
HeldBoundsStore ==
    \A c \in Clients, k \in Keys :
        held[c][k] # NotRead
            => /\ readAt[c][k] <= Len(log)
               /\ Unseen(c, k) = {} => store[k] = held[c][k]
               /\ /\ Unseen(c, k) # {}
                  /\ \A j \in Unseen(c, k) :
                        log[j].after # Absent /\ log[j].after.version # 0
                  => store[k] # Absent /\ store[k].version > SentVersion(c, k)

\* ErrVersionConflict is never spurious: a client that gets it finds, when it
\* reads again, that another call changed one of the records it holds. So a
\* retry loop can only be kept busy by the success of others.
ConflictIsGenuine ==
    \A c \in Clients :
        outcome[c] = "conflict"
            => \E k \in Keys :
                  /\ held[c][k] # NotRead
                  /\ Unseen(c, k) # {}
=============================================================================
