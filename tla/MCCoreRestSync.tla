---- MODULE MCCoreRestSync ----
(* CoreRestSync for TLC: a table (1) and its column (2), related.  An asset  *)
(* of another client may come before the managed table in the listing, or   *)
(* bear the name of the column; room for two more assets.                    *)
EXTENDS CoreRestSync

MCAssets == {1, 2}
MCEdges == {<<1, 2>>}
MCCreateRank == [a \in MCAssets |-> a]
MCUpdateRank == [a \in MCAssets |-> 3 - a]
MCTypeOf == [a \in MCAssets |-> a]
MCRemotes == 1..5

Tables == [id : {1}, as : {1}, name : {"old", "new"}, desc : {"none", "old", "new"}]
Column == [id |-> 2, as |-> 2, name |-> "new", desc |-> "new"]
Slots(first, second, third) ==
    [r \in MCRemotes |-> CASE r = 1 -> first [] r = 2 -> second [] r = 3 -> third [] OTHER -> Absent]
MCInitial ==
    {Slots(Absent, table, column) :
        table \in Tables \cup {Absent}, column \in {Absent, Column, Unmanaged(2)}}
    \cup {Slots(Unmanaged(1), [Column EXCEPT !.id = 1, !.as = 1], Column)}
====
