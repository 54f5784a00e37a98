---------------------------- MODULE MCRepository ----------------------------
(* TLC instances of Repository and of TypedRepository over it. *)
EXTENDS TypedRepository, TLC

CONSTANTS r1, r2, g

Group == {g}
Users == {r1, r2}
AllKeys == Users \cup Group
Data == Group \cup 0 .. (MaxChanges + Cardinality(AllKeys))
BothPolicies == {IfServerNotChanged, OverwriteServerChanges}

\* No definition tells two clients apart, or two records of the same type.
Symmetric == Permutations(Clients) \cup Permutations(Users)

MaxPlainChanges == 3

Fits(saving, deleting) ==
    LET gone == {k \in deleting : k \in saving \/ store[k] # Absent}
    IN  Len(log) + Cardinality(saving) + Cardinality(gone) <= MaxPlainChanges

\* Repository's Next for clients of the schemaless repository, which save records
\* of no group, and delete them.
PlainNext ==
    /\ \E c \in Clients :
          \/ \E k \in Users : Get(c, k)
          \/ \E policy \in Policies, saving \in SUBSET Users, deleting \in SUBSET Users :
                /\ Conflicts(c, policy, saving) \/ Fits(saving, deleting)
                /\ UpdateRecords(c, policy, saving, deleting, [k \in saving |-> 0])
    /\ UNCHANGED <<call, loaded>>

IndexRead == \E c \in Clients : held[c][g] # NotRead

\* Clients save either all through the schemaless repository, and there is no
\* index, or all through the typed one, which reads the index before it saves.
EitherNext ==
    \/ ~IndexRead /\ (\A c \in Clients : call[c] = NoCall) /\ PlainNext
    \/ (IndexRead \/ log = <<>>) /\ TypedNext

EitherSpec == TypedInit /\ [][EitherNext]_typedVars
=============================================================================
