---------------------------- MODULE MC_McpManager ----------------------------
(* An instance of McpManager for TLC: two servers with names like "x.y" and *)
(* "x_y", whose tools of one name therefore share their qualified name.     *)
EXTENDS McpManager

TwoServers == <<"a", "b">>
Shared == [r \in Routes |-> r[2]]
=============================================================================
