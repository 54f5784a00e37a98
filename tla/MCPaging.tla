------------------------------ MODULE MCPaging ------------------------------
(* TLC instances of Paging. *)
EXTENDS Paging

\* Three records of one type, and one of another type with an ID of theirs.
AllKeys == [id : 1 .. 3, type : {"user"}] \cup {[id |-> 2, type |-> "index"]}

Ask(typed, type, where, sort, descending, limit) ==
    [typed |-> typed, type |-> type, where |-> where, sort |-> sort,
     descending |-> descending, wrapped |-> FALSE, limit |-> limit,
     after |-> NoId, before |-> NoId]

\* Through both repositories, with and without a type, a filter, an order and
\* a limit.
AllQueries ==
    {Ask(FALSE, AnyType, Values, "ID", FALSE, 2),
     Ask(FALSE, "user", Values, "ID", FALSE, 1),
     Ask(FALSE, "user", Values, "Data", TRUE, 1),
     Ask(TRUE, "user", Values, "Data", FALSE, 1),
     Ask(TRUE, "user", Values, "ID", TRUE, 1),
     Ask(TRUE, "user", {1}, "ID", FALSE, 1),
     Ask(TRUE, "user", Values, "none", FALSE, 2),
     Ask(TRUE, "user", Values, "ID", FALSE, 0)}
=============================================================================
