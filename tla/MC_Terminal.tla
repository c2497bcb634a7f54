------------------------------ MODULE MC_Terminal ------------------------------
(* An instance of Terminal for TLC: answers with no block, one, two or     *)
(* three; settings files that disagree at each depth, or cannot be loaded. *)
EXTENDS Terminal, TLC

EitherProgram == Permutations(Programs)

SomeResponses ==
    {<< >>, <<"text">>, <<"thinking">>, <<"text", "tool">>, <<"tool", "tool">>,
     <<"thinking", "text", "tool">>}

SomeNames ==
    {"hooks", "PreToolUse", "PostToolUse", "oauth", "clientId", "authorizeUrl", "tokenUrl",
     "mcpServers", "command", "url", "env", "permissionMode", "permissions", "defaultMode",
     "sandbox", "plugins", "enabled", "model", "a", "b", "v", "x", "y", "z"}

\* A JSON value with these objects, and these leaves of each kind.
Value(objects, right, wrong, other) ==
    LET Kind(p) == IF p \in right THEN "right" ELSE IF p \in wrong THEN "wrong" ELSE "other"
    IN  [p \in {<< >>} \cup objects \cup right \cup wrong \cup other |->
            IF p \in right \cup wrong \cup other THEN [kind |-> Kind(p), file |-> 0]
            ELSE [kind |-> "object", file |-> 0]]

SomeTexts ==
    {Value({}, {}, {}, {<< >>}),
     Value({}, {}, {}, {<<"hooks">>}),
     Value({<<"hooks">>, <<"mcpServers">>, <<"mcpServers", "a">>, <<"permissions">>},
           {<<"hooks", "PreToolUse">>, <<"mcpServers", "a", "url">>, <<"permissionMode">>},
           {<<"permissions", "defaultMode">>}, {}),
     Value({<<"hooks">>, <<"mcpServers">>, <<"mcpServers", "a">>,
            <<"mcpServers", "a", "env">>, <<"mcpServers", "b">>, <<"permissions">>},
           {<<"hooks", "PostToolUse">>, <<"mcpServers", "a", "command">>,
            <<"mcpServers", "a", "env", "v">>, <<"mcpServers", "b", "url">>,
            <<"permissions", "defaultMode">>}, {}, {}),
     Value({<<"mcpServers">>, <<"mcpServers", "b">>},
           {<<"model">>, <<"mcpServers", "b", "env">>}, {}, {}),
     Value({<<"oauth">>},
           {<<"model">>, <<"oauth", "clientId">>}, {}, {<<"sandbox">>}),
     Value({<<"model">>, <<"model", "x">>, <<"oauth">>, <<"sandbox">>},
           {<<"model", "x", "y">>, <<"model", "z">>, <<"oauth", "tokenUrl">>,
            <<"oauth", "authorizeUrl">>}, {}, {}),
     Value({<<"plugins">>, <<"plugins", "enabled">>},
           {<<"plugins", "enabled", "a">>}, {}, {<<"permissionMode">>})}
=============================================================================
