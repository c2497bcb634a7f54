--------------------------- MODULE MC_ServiceStores ---------------------------
(* An instance of ServiceStores for TLC: a quota per user, and one per user *)
(* and tool, in windows of one, two and four seconds.                       *)
EXTENDS ServiceStores

PairScopes == [User |-> {"user"}, UserTool |-> {"user", "tool"}]
PairCaps == [User |-> [minute |-> 1, day |-> 2, input |-> 2, concurrent |-> 2],
             UserTool |-> [hour |-> 1, concurrent |-> 1]]

Spend(n) == [input |-> n, output |-> 0]
UserAndTool ==
    {[ids |-> [user |-> "u"], tokens |-> Spend(1)],
     [ids |-> [user |-> "u", tool |-> "x"], tokens |-> Spend(2)]}

ShortWindows == [minute |-> 1, hour |-> 2, day |-> 4]
=============================================================================
