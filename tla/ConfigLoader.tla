------------------------------ MODULE ConfigLoader ------------------------------
(***************************************************************************)
(* ConfigLoader::load of rust/crates/runtime/src/config.rs: five settings  *)
(* files, the user's before the project's before the local one, are merged *)
(* object by object into one, while the MCP servers they define are        *)
(* collected whole, by name.  A JSON value is a function on the paths of   *)
(* keys that lead somewhere in it: to an object, or to a leaf.  Of a leaf  *)
(* two things are known: whether it is what its key asks for, and the      *)
(* number of the file it comes from.                                       *)
(***************************************************************************)
EXTENDS Naturals, Sequences

CONSTANTS
    Names,      \* the keys of objects
    Texts       \* what a settings file may be: Malformed, or an object

VARIABLES
    texts,      \* the text of each file there is, in the order of discover
    next,       \* the next file to be read
    merged,     \* the object merged so far
    servers,    \* the MCP servers so far: which file defined each, and how
    outcome     \* "loading", "loaded" or "error"

configVars == <<texts, next, merged, servers, outcome>>

\* discover.
Sources == <<"user", "user", "project", "project", "local">>
Files == 1..5
Legacy == {1, 3}

\* A value at a path.  A leaf is of the "right" kind if the key it is at can be
\* parsed with it, a "wrong" string names nothing that the key may have (a mode
\* there is not), and "other" is any other leaf, null too.  In a file that is not
\* yet merged the number is 0.
Obj == [kind |-> "object", file |-> 0]
Leaves == [kind : {"right", "wrong", "other"}, file : {0}]

\* Where one has to pass to get to a path.
Above(path) == {SubSeq(path, 1, n) : n \in 0..(Len(path) - 1)}

IsValue(v) ==
    /\ << >> \in DOMAIN v
    /\ \A p \in DOMAIN v :
         /\ p \in Seq(Names)
         /\ \A q \in Above(p) : q \in DOMAIN v /\ v[q] = Obj

\* A file without text reads as an object without fields.
IsObject(v) == v[<< >>] = Obj
NoFields == [p \in {<< >>} |-> Obj]

\* A file holds no JSON, or a JSON value that is no object.
Malformed == [p \in {<< >>} |-> [kind |-> "other", file |-> 0]]

Nothing == [i \in {} |-> 0]

\* The paths that have to lead to an object, if anywhere, in settings that parse.
Sections ==
    {<<"oauth">>, <<"enabledPlugins">>, <<"plugins">>, <<"plugins", "enabled">>,
     <<"sandbox">>}

\* The fields an oauth section needs.
Required == {<<"oauth", "clientId">>, <<"oauth", "authorizeUrl">>, <<"oauth", "tokenUrl">>}

\* The paths that have to lead to what their key asks for, if anywhere.  A
\* "permissions" that is no object is read as if it were not there.
HookFields == {<<"hooks", k>> : k \in {"PreToolUse", "PostToolUse", "PostToolUseFailure"}}
Fields ==
    Required
      \cup {<<"oauth", k>> : k \in {"callbackPort", "manualRedirectUrl", "scopes"}}
      \cup {<<"enabledPlugins", k>> : k \in Names}
      \cup {<<"plugins", "enabled", k>> : k \in Names}
      \cup {<<"plugins", k>> :
                k \in {"externalDirectories", "installRoot", "registryPath", "bundledRoot"}}
      \cup {<<"permissions", k>> : k \in {"allow", "deny", "ask"}}
      \cup {<<"sandbox", k>> :
                k \in {"enabled", "namespaceRestrictions", "networkIsolation",
                       "filesystemMode", "allowedMounts"}}

ConfigLoaderAssumption ==
    /\ "mcpServers" \in Names
    /\ \A t \in Texts : IsValue(t) /\ \A p \in DOMAIN t : t[p] \in Leaves \cup {Obj}

LoadInit ==
    /\ texts \in UNION {[present -> Texts] : present \in SUBSET Files}
    /\ next = 1 /\ outcome = "loading"
    /\ merged = NoFields /\ servers = Nothing

-----------------------------------------------------------------------------
Has(v, path) == path \in DOMAIN v

\* The keys of the object at a path, and what is under a path.
Keys(v, path) ==
    LET fields == {p \in DOMAIN v : Len(p) = Len(path) + 1 /\ p = Append(path, p[Len(p)])}
    IN  {p[Len(p)] : p \in fields}
Under(v, path) ==
    LET within == {p \in DOMAIN v : path \in Above(p) \cup {p}}
    IN  [rest \in {SubSeq(p, Len(path) + 1, Len(p)) : p \in within} |-> v[path \o rest]]

\* The value in file i, with its leaves known to be from there.
Stamped(v, i) ==
    [p \in DOMAIN v |-> IF v[p] = Obj THEN Obj ELSE [kind |-> v[p].kind, file |-> i]]

DeepMerge_Shallow(target, source) ==                           \* mutated
    LET kept == {p \in DOMAIN target : p = << >> \/ ~Has(source, SubSeq(p, 1, 1))}
    IN  [p \in kept \cup DOMAIN source |->
            IF Has(source, p) THEN source[p] ELSE target[p]]

\* deep_merge_objects: objects are merged, anything else is replaced, and what was
\* below it is gone.
DeepMerge(target, source) ==
    LET kept == {p \in DOMAIN target :
                    \A q \in Above(p) : Has(source, q) => source[q] = Obj}
    IN  [p \in kept \cup DOMAIN source |->
            IF Has(source, p) THEN source[p] ELSE target[p]]

Is(v, path, kinds) == Has(v, path) /\ v[path].kind \in kinds
ObjectIfAny(v, path) == Has(v, path) => v[path] = Obj
RightIfAny(v, path) == Has(v, path) => v[path].kind = "right"

\* parse_optional_hooks_config: an object of lists of commands.
HooksParse(v) ==
    /\ ObjectIfAny(v, <<"hooks">>)
    /\ \A path \in HookFields : RightIfAny(v, path)

\* parse_optional_permission_mode: the permissions' default is looked at only if
\* there is no string at "permissionMode".
ModeNamed(v) == Is(v, <<"permissionMode">>, {"right", "wrong"})
ModeParse(v) ==
    IF ModeNamed(v)
    THEN Is(v, <<"permissionMode">>, {"right"})
    ELSE ~Is(v, <<"permissions", "defaultMode">>, {"wrong"})

\* parse_optional_plugin_config, .._oauth_config, .._permission_rules and
\* .._sandbox_config.  Only the merged object's sections are parsed.
SectionsParse(v) ==
    /\ \A path \in Sections : ObjectIfAny(v, path)
    /\ \A path \in Fields : RightIfAny(v, path)
    /\ Has(v, <<"oauth">>) => \A path \in Required : Has(v, path)
    /\ ModeParse(v)

ServersOf(v) == Keys(v, <<"mcpServers">>)

\* parse_mcp_server_config: an object with the field its type requires, where the
\* type is what infer_mcp_server_type takes it for.
ServersParse(v) ==
    /\ ObjectIfAny(v, <<"mcpServers">>)
    /\ \A s \in ServersOf(v) :
         LET At(k) == <<"mcpServers", s, k>>
         IN  /\ v[<<"mcpServers", s>>] = Obj
             /\ Is(v, IF Has(v, At("url")) THEN At("url") ELSE At("command"), {"right"})

\* merge_mcp_servers: a definition replaces an earlier one as a whole.
Defined(i, v, s) == [scope |-> Sources[i], config |-> Under(v, <<"mcpServers", s>>)]
MergeServers(i, v) ==
    [s \in DOMAIN servers \cup ServersOf(v) |->
        IF s \in ServersOf(v) THEN Defined(i, v, s) ELSE servers[s]]

\* read_optional_json_object finds no object: there is no file, or the old file
\* name is used for something else.
Skip ==
    /\ outcome = "loading" /\ next \in Files
    /\ next \in DOMAIN texts => next \in Legacy /\ ~IsObject(texts[next])
    /\ next' = next + 1
    /\ UNCHANGED <<texts, merged, servers, outcome>>

Merge ==
    /\ outcome = "loading" /\ next \in DOMAIN texts /\ IsObject(texts[next])
    /\ LET value == Stamped(texts[next], next)
       IN  /\ HooksParse(value) /\ ServersParse(value)
           /\ servers' = MergeServers(next, value)
           /\ merged' = DeepMerge(merged, value)
    /\ next' = next + 1
    /\ UNCHANGED <<texts, outcome>>

\* A file that cannot be parsed, or whose hooks or servers cannot, is the end,
\* even if a later one would have replaced them.
Fail ==
    /\ outcome = "loading" /\ next \in DOMAIN texts
    /\ IF IsObject(texts[next])
         THEN ~(HooksParse(texts[next]) /\ ServersParse(texts[next]))
         ELSE next \notin Legacy
    /\ outcome' = "error"
    /\ UNCHANGED <<texts, next, merged, servers>>

\* The settings that are used are parsed from the merged object.
Finish ==
    /\ outcome = "loading" /\ next \notin Files
    /\ outcome' = IF HooksParse(merged) /\ SectionsParse(merged) THEN "loaded" ELSE "error"
    /\ UNCHANGED <<texts, next, merged, servers>>

LoadNext == Skip \/ Merge \/ Fail \/ Finish

LoadSpec == LoadInit /\ [][LoadNext]_configVars
-----------------------------------------------------------------------------
\* The files loaded before file n, and the paths in them.
Loaded(n) == {i \in DOMAIN texts : i < n /\ IsObject(texts[i])}
Paths(n) == UNION {DOMAIN texts[i] : i \in Loaded(n)}

\* The files that say anything of a path: have something there, or a leaf on the
\* way to it.  And the last of them, with what it says there.
Says(i, path) ==
    \/ Has(texts[i], path)
    \/ \E q \in Above(path) : Has(texts[i], q) /\ texts[i][q] # Obj
LastOf(S) == CHOOSE i \in S : \A j \in S : j <= i
LastSayer(n, path) == LastOf({i \in Loaded(n) : Says(i, path)})
LastDefiner(n, s) == LastOf({i \in Loaded(n) : s \in ServersOf(texts[i])})

\* The settings and the servers that the files before n amount to.
MergedBefore(n) ==
    LET said == {p \in Paths(n) : Has(texts[LastSayer(n, p)], p)}
        Value(p) == LET i == LastSayer(n, p) IN Stamped(texts[i], i)[p]
    IN  [p \in {<< >>} \cup said |-> IF p = << >> THEN Obj ELSE Value(p)]
ServersBefore(n) ==
    [s \in UNION {ServersOf(texts[i]) : i \in Loaded(n)} |->
        LET i == LastDefiner(n, s) IN Defined(i, Stamped(texts[i], i), s)]

\* A file that could not be loaded on its own, and one that can because the mode it
\* names keeps the loader from its default mode, which there is not.
Faulty(i) ==
    IF IsObject(texts[i])
    THEN ~(HooksParse(texts[i]) /\ ServersParse(texts[i]) /\ SectionsParse(texts[i]))
    ELSE i \notin Legacy
Hides(i) ==
    /\ Is(texts[i], <<"permissionMode">>, {"right"})
    /\ Is(texts[i], <<"permissions", "defaultMode">>, {"wrong"})
Unhides(i) == Has(texts[i], <<"permissionMode">>) /\ ~ModeNamed(texts[i])

\* Why the files cannot be loaded together.
Hopeless ==
    \/ \E i \in DOMAIN texts : Faulty(i)
    \/ \E i, j \in Loaded(6) : i < j /\ Hides(i) /\ Unhides(j)

(***************************************************************************)
(* The settings in use are, path by path, those of the last file that says *)
(* anything of the path, where a value also speaks for all that would be   *)
(* below it; an MCP server is that of the last file that defines it, whole *)
(* and in the scope of that file; and files that load one by one load      *)
(* together, but for one way to fail: a file whose permissionMode hides    *)
(* the bad default mode of its own permissions, and a later one that puts  *)
(* something at permissionMode that is no string.                          *)
(***************************************************************************)
SettingsByPrecedence ==
    /\ outcome = "loaded" => merged = MergedBefore(6) /\ servers = ServersBefore(6)
    /\ outcome = "error" => Hopeless

(***************************************************************************)
(* Why it holds: at every file, the settings so far are those of the files *)
(* before it, none of which had hooks or servers that do not parse.        *)
(***************************************************************************)
ConfigTypes ==
    /\ DOMAIN texts \subseteq Files
    /\ \A i \in DOMAIN texts : texts[i] \in Texts
    /\ next \in 1..6
    /\ outcome \in {"loading", "loaded", "error"}

ConfigInv ==
    /\ ConfigTypes
    /\ merged = MergedBefore(next) /\ servers = ServersBefore(next)
    /\ \A i \in Loaded(next) : HooksParse(texts[i]) /\ ServersParse(texts[i])
    /\ outcome = "loaded" => next = 6
    /\ outcome = "error" => Hopeless
=============================================================================
