---------------------------- MODULE MCLibraryStore ----------------------------
(* Small libraries for TLC: two parts of two rows, two readers. *)
EXTENDS LibraryStore

CONSTANTS r1, r2

Of(a, b) == <<a, b>>

\* A library before its migration: two generations; one row of part 1 is of another one and its entry was never kept; an
\* entry of part 2 is kept under both keys.
Base == [old |-> Of("a", "b"), new |-> Of("A", "B"), stamp |-> Of(Of("a", "x"), Of("b", "b")),
         entries |-> Of(Of({"old"}, {}), Of({"old"}, {"old", "new"})), skipped |-> Of({}, {}), pins |-> Of("a", "b"),
         locks |-> TRUE, requests |-> {<<1>>}, migrations |-> 4, reads |-> 1, kills |-> 2]

\* Both parts of one generation; some rows are stamped anew already, and a point of part 1 is skipped.
Shared == [Base EXCEPT !.old = Of("a", "a"), !.new = Of("A", "A"), !.stamp = Of(Of("a", "A"), Of("a", "a")),
                       !.skipped = Of({1}, {}), !.pins = Of("a", "a"), !.migrations = 3, !.kills = 1]

\* Two readers whose requests overlap while a migration changes what they select ...
Reading == [Base EXCEPT !.requests = {<<1, 2>>, <<2>>}, !.migrations = 1, !.reads = 2, !.kills = 1]

\* ... in either order, three times, one of them cut off ...
Crowded == [Base EXCEPT !.requests = {<<1, 2>>, <<2, 1>>, <<2>>}, !.migrations = 0, !.reads = 3, !.kills = 1]

\* ... and where the file system takes no locks.
Unlocked == [Crowded EXCEPT !.locks = FALSE]

MCScenarios == {Base, Shared, Reading, Crowded, Unlocked}
=============================================================================
