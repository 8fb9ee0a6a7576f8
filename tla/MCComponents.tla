---------------------------- MODULE MCComponents ----------------------------
(* Instances of Components for TLC.                                        *)
EXTENDS Components

MCPlainMethods == <<"look">>
MCSpellMethods == <<"735">>

\* "again" has the result of "search"; "read" needs a handle it issues.
MCRequests == {"search", "again", "read", "long", "huge"}
MCPriority == [r \in MCRequests |-> IF r \in {"search", "again"} THEN 0 ELSE 3]
MCSize == [r \in MCRequests |-> IF r = "huge" THEN 7 ELSE 6]
MCIdentity == [r \in MCRequests |-> IF r = "again" THEN "search" ELSE r]
MCNeeds == [r \in MCRequests |-> IF r = "read" THEN {"search"} ELSE {}]

MCLimits == <<5, 5>>
MCRecords == {<<>>, <<1, 4>>}

\* Both pages are more than one call may encode.
MCPieces == [p \in Pages |-> 2]
=============================================================================
