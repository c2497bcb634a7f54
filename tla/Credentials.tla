------------------------------ MODULE Credentials ------------------------------
(***************************************************************************)
(* The OAuth login of a user: rust/crates/runtime/src/oauth.rs keeps it in *)
(* credentials.json beside other entries; `login` and `logout` of the      *)
(* terminal program, and the start of a session that finds its access      *)
(* token expired (rust/crates/api/src/providers/anthropic.rs), each read   *)
(* the file, write a staging file and rename it.  Programs share both      *)
(* names without a lock, may be cut off anywhere, and are not alone with   *)
(* the server: a refresh token that was exchanged for another is spent.    *)
(***************************************************************************)
EXTENDS Naturals, FiniteSets

CONSTANTS
    Programs,
    MaxTokens       \* bound: answers of the server

CredentialsAssumption ==
    MaxTokens \in Nat \ {0} /\ IsFiniteSet(Programs)

VARIABLES
    saved,      \* what credentials.json holds
    staged,     \* what credentials.json.tmp holds, or Absent
    issued,     \* answers the server has given; each is known by its number
    live,       \* the refresh tokens it honours
    pc,         \* where each program is
    command,    \* what it does
    tokens,     \* the token set it read or was given; it saves this one
    others,     \* the other entries that it read before it writes
    opened,     \* which name the file has that it has open
    met,        \* history: programs at work that another one came across
    crossed     \* history: a program wrote while another one did

credentialVars ==
    <<saved, staged, issued, live, pc, command, tokens, others, opened,
      met, crossed>>
diskVars   == <<saved, staged>>
serverVars == <<issued, live>>

\* A token set: its access token, and its refresh token or 0.
NoTokens == [access |-> 0, refresh |-> 0]
Root(o, t) == [others |-> o, oauth |-> t]

\* A file without text reads as an object without entries; a torn one does not
\* parse.
Empty == Root(FALSE, NoTokens)
Torn   == Root(FALSE, [access |-> 0, refresh |-> MaxTokens + 1])
Absent == Root(FALSE, [access |-> 0, refresh |-> MaxTokens + 2])

Init ==
    /\ saved = Root(TRUE, NoTokens) /\ staged = Absent
    /\ issued = 0 /\ live = {}
    /\ pc = [p \in Programs |-> "idle"]
    /\ command = [p \in Programs |-> "start"]
    /\ tokens = [p \in Programs |-> NoTokens]
    /\ others = [p \in Programs |-> FALSE]
    /\ opened = [p \in Programs |-> "none"]
    /\ met = {} /\ crossed = FALSE

-----------------------------------------------------------------------------
Busy == {p \in Programs : pc[p] # "idle"}
Goto(p, next) == pc' = [pc EXCEPT ![p] = next]

\* p changes what the others at work have read, or rely on.
Changes(p) == met' = met \cup (Busy \ {p})

Ends(p) ==
    /\ Goto(p, "idle")
    /\ command' = [command EXCEPT ![p] = "start"]
    /\ tokens' = [tokens EXCEPT ![p] = NoTokens]
    /\ others' = [others EXCEPT ![p] = FALSE]
    /\ opened' = [opened EXCEPT ![p] = "none"]

\* resolve_startup_auth_source, where it does not end at once: the saved access
\* token has expired by now, as any may, and there are a refresh token and a
\* configuration.
Start(p) ==
    LET old == saved.oauth
    IN  /\ pc[p] = "idle" /\ saved # Torn
        /\ old.access # 0 /\ old.refresh # 0
        /\ Goto(p, "refresh")
        /\ tokens' = [tokens EXCEPT ![p] = old]
        /\ met' = met \ {p}
        /\ UNCHANGED <<diskVars, serverVars, command, others, opened, crossed>>

Kept_Answer(p, answer) == answer                               \* mutated

\* `refreshed.refresh_token.or(token_set.refresh_token)`
Kept(p, answer) ==
    IF answer.refresh = 0 THEN [answer EXCEPT !.refresh = tokens[p].refresh] ELSE answer

\* refresh_oauth_token: the server gives an access token, and keeps the refresh
\* token or replaces it.
Refresh(p) ==
    /\ pc[p] = "refresh" /\ tokens[p].refresh \in live /\ issued < MaxTokens
    /\ issued' = issued + 1
    /\ \E rotates \in BOOLEAN :
         /\ live' = IF rotates THEN (live \ {tokens[p].refresh}) \cup {issued'} ELSE live
         /\ tokens' = [tokens EXCEPT ![p] =
                         Kept(p, [access |-> issued', refresh |-> IF rotates THEN issued' ELSE 0])]
    /\ Goto(p, "load")
    /\ Changes(p)
    /\ UNCHANGED <<diskVars, command, others, opened, crossed>>

\* run_login, up to save_oauth_credentials: a callback that carries a code and
\* the state sent out is exchanged for a token set; without it nothing is saved.
Login(p) ==
    /\ pc[p] = "idle" /\ issued < MaxTokens
    /\ issued' = issued + 1
    /\ \E refresh \in {0, issued'} :
         /\ live' = live \cup ({refresh} \ {0})
         /\ tokens' = [tokens EXCEPT ![p] = [access |-> issued', refresh |-> refresh]]
    /\ command' = [command EXCEPT ![p] = "login"]
    /\ Goto(p, "load") /\ met' = met \ {p}
    /\ UNCHANGED <<diskVars, others, opened, crossed>>

\* run_logout.
Logout(p) ==
    /\ pc[p] = "idle"
    /\ command' = [command EXCEPT ![p] = "logout"]
    /\ Goto(p, "load") /\ met' = met \ {p}
    /\ UNCHANGED <<diskVars, serverVars, tokens, others, opened, crossed>>

-----------------------------------------------------------------------------
\* save_ and clear_oauth_credentials: read_credentials_root, which must parse.
Load(p) ==
    /\ pc[p] = "load" /\ saved # Torn
    /\ others' = [others EXCEPT ![p] = saved.others]
    /\ Goto(p, "open")
    /\ UNCHANGED <<diskVars, serverVars, command, tokens, opened, met, crossed>>

\* The file by `name` is emptied and open.
Truncates(p, name) ==
    /\ pc[p] = "open" /\ Goto(p, "write")
    /\ opened' = [opened EXCEPT ![p] = name]
    /\ crossed' = (crossed \/ \E q \in Programs \ {p} : pc[q] \in {"write", "rename"})
    /\ Changes(p)
    /\ UNCHANGED <<serverVars, command, tokens, others>>

Open_InPlace(p) == Truncates(p, "saved") /\ saved' = Empty /\ UNCHANGED staged   \* mutated

\* write_credentials_root, fs::write: a staging file that is there is emptied ...
Open(p) == Truncates(p, "staged") /\ staged' = Empty /\ UNCHANGED saved

Opened(p) == IF opened[p] = "saved" THEN saved ELSE staged

\* The file p has open gets a text; it may by now have another name, or none.
Puts(p, text) ==
    /\ saved' = IF opened[p] = "saved" THEN text ELSE saved
    /\ staged' = IF opened[p] = "staged" THEN text ELSE staged

\* ... and filled, on top of what another program wrote there meanwhile.
Write(p) ==
    /\ pc[p] = "write" /\ Goto(p, "rename")
    /\ \/ Puts(p, Root(others[p], tokens[p]))
       \/ Opened(p) # Empty /\ Puts(p, Torn)
    /\ opened' = [opened EXCEPT ![p] = "none"]
    /\ Changes(p)
    /\ UNCHANGED <<serverVars, command, tokens, others, crossed>>

\* fs::rename, if the staging file is still there, under who has either open.
Rename(p) ==
    /\ pc[p] = "rename" /\ staged # Absent
    /\ saved' = staged /\ staged' = Absent
    /\ opened' = [q \in Programs |->
                    CASE opened[q] = "staged" -> "saved"
                      [] opened[q] = "saved"  -> "none"
                      [] OTHER -> opened[q]]
    /\ Goto(p, "done")
    /\ Changes(p)
    /\ UNCHANGED <<serverVars, command, tokens, others, crossed>>

\* The session starts, or success is reported.
Return(p) ==
    /\ pc[p] = "done" /\ Ends(p) /\ met' = met \ {p}
    /\ UNCHANGED <<diskVars, serverVars, crossed>>

\* A request is refused, a step fails, or the program is cut off, as may be
\* half way through the text.
Stop(p) ==
    /\ pc[p] \in {"refresh", "load", "open", "write", "rename"} /\ Ends(p)
    /\ \/ UNCHANGED diskVars
       \/ pc[p] = "write" /\ Puts(p, Torn)
    /\ met' = (met \cup Busy) \ {p}
    /\ UNCHANGED <<serverVars, crossed>>

Next ==
    \E p \in Programs :
        \/ Start(p) \/ Refresh(p) \/ Login(p) \/ Logout(p)
        \/ Load(p) \/ Open(p) \/ Write(p) \/ Rename(p) \/ Return(p) \/ Stop(p)

Spec == Init /\ [][Next]_credentialVars

-----------------------------------------------------------------------------
(***************************************************************************)
(* Wherever a save is cut off, credentials.json stays whole and keeps the  *)
(* entries that are not the login's, unless two programs used the staging  *)
(* file at once; and a program that no other one came across leaves        *)
(* behind what it reports: no login after a logout, and after a login or a *)
(* refresh the tokens it goes on with, their refresh token not spent (and  *)
(* still there, after a refresh whose answer had none).                    *)
(***************************************************************************)
CredentialsKept ==
    /\ ~crossed => saved # Torn /\ saved.others
    /\ \A p \in Programs : pc[p] = "done" /\ p \notin met =>
         /\ saved.oauth = tokens[p]
         /\ command[p] = "logout" => tokens[p] = NoTokens
         /\ command[p] = "start" => tokens[p].refresh \in live
         /\ command[p] = "login" => tokens[p].refresh \in live \cup {0}

-----------------------------------------------------------------------------
\* Why it holds.  Types:
TokenSets == [access : Nat, refresh : Nat]
FileTexts == [others : BOOLEAN, oauth : TokenSets]

CredentialTypes ==
    /\ saved \in FileTexts /\ staged \in FileTexts /\ issued \in Nat
    /\ live \subseteq Nat
    /\ pc \in [Programs -> {"idle", "refresh", "load", "open", "write", "rename", "done"}]
    /\ command \in [Programs -> {"start", "login", "logout"}]
    /\ tokens \in [Programs -> TokenSets]
    /\ others \in [Programs -> BOOLEAN]
    /\ opened \in [Programs -> {"none", "staged", "saved"}]
    /\ met \subseteq Programs /\ crossed \in BOOLEAN
    /\ \A p \in Programs :
         /\ pc[p] \in {"idle", "refresh"} => command[p] = "start"
         /\ pc[p] = "idle" => tokens[p] = NoTokens

\* Until two programs write at once there is one that does, its staging file is
\* its own, and whole once it is to be renamed.
OneWriter ==
    ~crossed =>
        /\ saved # Torn /\ saved.others
        /\ \A p, q \in Programs :
             pc[p] \in {"write", "rename"} /\ pc[q] \in {"write", "rename"} => p = q
        /\ \A p \in Programs :
             /\ pc[p] \in {"open", "write", "rename"} => others[p]
             /\ pc[p] = "write" => opened[p] = "staged" /\ staged = Empty
             /\ pc[p] = "rename" => staged = Root(others[p], tokens[p])

\* A program that no other one came across finds the file as it left it, ...
Undisturbed(p) ==
    /\ pc[p] = "write" => opened[p] = "staged" /\ staged = Empty
    /\ pc[p] = "rename" => staged = Root(others[p], tokens[p])
    /\ pc[p] = "done" => saved.oauth = tokens[p]

\* ... and the server honours the refresh token that it saves.
TokensHonoured(p) ==
    pc[p] \in {"load", "open", "write", "rename", "done"} =>
        /\ command[p] = "logout" => tokens[p] = NoTokens
        /\ command[p] = "start" => tokens[p].refresh \in live
        /\ command[p] = "login" => tokens[p].refresh \in live \cup {0}

CredentialInv ==
    /\ CredentialTypes /\ OneWriter
    /\ \A p \in Programs :
         pc[p] # "idle" /\ p \notin met => Undisturbed(p) /\ TokensHonoured(p)
=============================================================================
