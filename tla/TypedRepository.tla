--------------------------- MODULE TypedRepository ---------------------------
(***************************************************************************)
(* The typed repository that keeps an aggregate, typedful/with_aggregator  *)
(* .go and aggregate_keyed.go, over the schemaless Repository.  A call of  *)
(* its UpdateRecords makes an aggregator, which puts each record to save   *)
(* in a group, reads the group's index record from the same store, and     *)
(* combines it with the record's contribution; then records and indices    *)
(* are saved in one batch.  Between the reads and the batch other calls    *)
(* may be saved.                                                           *)
(*                                                                         *)
(* The aggregate counts, as the one of the repository's test does: groups  *)
(* are what the records hold, each contributes 1, and combining adds.      *)
(* Deletions take nothing out of it (a TODO of the code), and a record     *)
(* that is saved again is counted again.                                   *)
(***************************************************************************)
EXTENDS Repository

CONSTANTS
    Groups,      \* what groupByKey returns, and the keys of the index records
    Aggregated   \* the keys of records of supportedRecordTypes

RecordKeys == Keys \ Groups

ASSUME GroupsAssumption == Groups \subseteq Keys
ASSUME AggregatedAssumption == Aggregated \subseteq RecordKeys
\* Records hold groups, indices hold numbers.
ASSUME PayloadsAssumption ==
    /\ Groups \subseteq Payloads
    /\ 0 .. (MaxChanges + Cardinality(Keys)) \subseteq Payloads

VARIABLES
    call,     \* per client, the batch of the call that is under way
    loaded    \* per client, the keys of KayedAggregate.dataByKey

typedVars == <<vars, call, loaded>>

\* The deletions that a batch may hold.
Removals == IF Deletions THEN SUBSET RecordKeys ELSE {{}}

Batches == [policy : Policies, saving : SUBSET RecordKeys, deleting : Removals,
            data : UNION {[saving -> Groups] : saving \in SUBSET RecordKeys}]
NoCall == [policy |-> "none"]

\* The records of a batch that the aggregate puts in group g.
Contributions(batch, g) == {k \in batch.saving \cap Aggregated : batch.data[k] = g}
GroupsOf(batch) == {g \in Groups : Contributions(batch, g) # {}}

TypedTypeOK ==
    /\ TypeOK
    /\ call \in [Clients -> Batches \cup {NoCall}]
    /\ loaded \in [Clients -> SUBSET Groups]
    /\ \A c \in Clients :
          IF call[c] = NoCall THEN loaded[c] = {}
          ELSE /\ call[c].data \in [call[c].saving -> Groups]
               /\ loaded[c] \subseteq GroupsOf(call[c])
               /\ \A k \in call[c].saving \cup call[c].deleting \cup loaded[c] :
                     held[c][k] # NotRead

TypedInit ==
    /\ Init
    /\ call = [c \in Clients |-> NoCall]
    /\ loaded = [c \in Clients |-> {}]

-----------------------------------------------------------------------------
\* The number an index record holds; a missing one counts nothing.
Count(record) == IF record = Absent THEN 0 ELSE record.data

\* What Append makes of an index over all records of the batch.
Combined(c, g) == Count(held[c][g]) + Cardinality(Contributions(call[c], g))

TypedGet(c, k) ==
    /\ call[c] = NoCall
    /\ k \in RecordKeys
    /\ Get(c, k)
    /\ UNCHANGED <<call, loaded>>

\* UpdateRecords of the typed repository begins, with an empty aggregator. An
\* empty batch is refused; one that the bounded log cannot take is left out.
Begin(c, batch) ==
    /\ call[c] = NoCall
    /\ batch.saving \cup batch.deleting # {}
    /\ Len(log) + Cardinality(batch.saving) + Cardinality(GroupsOf(batch)) <= MaxChanges
    /\ \A k \in batch.saving \cup batch.deleting : held[c][k] # NotRead
    /\ call' = [call EXCEPT ![c] = batch]
    /\ UNCHANGED <<vars, loaded>>

\* loadIndex: once per group, when its first record is appended.
LoadIndex(c, g) ==
    /\ call[c] # NoCall
    /\ g \in GroupsOf(call[c]) \ loaded[c]
    /\ Get(c, g)
    /\ loaded' = [loaded EXCEPT ![c] = @ \cup {g}]
    /\ UNCHANGED call

\* The aggregator is dropped: the next call makes another one.
Return(c) ==
    /\ call' = [call EXCEPT ![c] = NoCall]
    /\ loaded' = [loaded EXCEPT ![c] = {}]

\* combineByKey returns an error: nothing was written.
CombineFails(c) ==
    /\ call[c] # NoCall
    /\ \E g \in loaded[c] : held[c][g] # Absent \/ Cardinality(Contributions(call[c], g)) > 1
    /\ Return(c)
    /\ UNCHANGED vars

\* The records and GetVersionedIndices in one batch.
SavedKeys(c) == call[c].saving \cup GroupsOf(call[c])
SavedData(c) ==
    [k \in SavedKeys(c) |-> IF k \in Groups THEN Combined(c, k) ELSE call[c].data[k]]

\* It is saved under the policy of the call, an index with the version that it
\* was loaded with.
Commit(c) ==
    /\ call[c] # NoCall
    /\ loaded[c] = GroupsOf(call[c])
    /\ UpdateRecords(c, call[c].policy, SavedKeys(c), call[c].deleting, SavedData(c))
    /\ Return(c)

TypedNext ==
    \E c \in Clients :
        \/ \E k \in RecordKeys : TypedGet(c, k)
        \/ \E policy \in Policies, saving \in SUBSET RecordKeys, deleting \in Removals :
              \E data \in [saving -> Groups] :
                  Begin(c, [policy |-> policy, saving |-> saving, deleting |-> deleting,
                            data |-> data])
        \/ \E g \in Groups : LoadIndex(c, g)
        \/ CombineFails(c)
        \/ Commit(c)

TypedSpec == TypedInit /\ [][TypedNext]_typedVars

-----------------------------------------------------------------------------
(* Properties *)

\* The saves that put a record in group g, over the whole log.
Counted(g) ==
    {i \in DOMAIN log : /\ log[i].key \in Aggregated
                        /\ log[i].after # Absent
                        /\ log[i].after.data = g}

\* The index of g was saved by a call that may overwrite, over changes that
\* came after it was loaded.
WasOverwritten(g) ==
    \E i \in DOMAIN log :
        /\ log[i].key = g
        /\ origin[i].policy = OverwriteServerChanges
        /\ ChangesBetween(g, origin[i].since, i) # {}

\* Its version counter went round to 0.
WentRound(g) == \E i \in DOMAIN log : log[i].key = g /\ log[i].after.version = 0

\* The index of a group is the number of records saved in it, whatever calls
\* read it, combine it and fail in between: saving it with the version it was
\* loaded with makes a call that counted on an older one conflict as a whole.
\* The policy that overwrites gives that up, and the count is then too low,
\* never too high; so does a version that goes round.
IndexIsTotal ==
    \A g \in Groups :
        LET saves == Cardinality(Counted(g))
        IN  /\ Count(store[g]) <= saves
            /\ ~WasOverwritten(g) /\ ~WentRound(g) => Count(store[g]) = saves
=============================================================================
