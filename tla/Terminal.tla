-------------------------------- MODULE Terminal --------------------------------
(***************************************************************************)
(* The terminal program and what it keeps: the runtimes and session files  *)
(* of LiveCli, the installed plugins of PluginManager, which all its       *)
(* sessions share, the answers of the model that ModelStream receives, the *)
(* login of Credentials and the settings that ConfigLoader loads.  LiveCli *)
(* takes no more of the others than whether plugins were loaded and an     *)
(* answer came, so that they are checked side by side: a behaviour is one  *)
(* of one `family`.                                                        *)
(***************************************************************************)

CONSTANTS
    NPlugins, MaxSessions, MaxMessages, MaxStarts,          \* LiveCli
    Sessions, Users, MaxVersion,                            \* PluginManager
    Responses, Parts, MaxRetries,                           \* ModelStream
    Programs, MaxTokens,                                    \* Credentials
    Names, Texts                                            \* ConfigLoader

VARIABLES
    family,     \* bound: the part that this behaviour exercises
    pc, held, fresh, handle, goal, files, begun, said, gone, starts,
    shipped, dirs, records, enabled, torn, at_, op, loaded, met,
    provider, stage, attempts, response, arrived, ended, pending, events, stop,
    printed, unshown,
    saved, staged, issued, live, at, command, tokens, others, opened,
    crossing, crossed,
    texts, next, merged, servers, outcome

Cli    == INSTANCE LiveCli
Plugin == INSTANCE PluginManager
Stream == INSTANCE ModelStream
Login  == INSTANCE Credentials WITH pc <- at, met <- crossing
Settings == INSTANCE ConfigLoader

ASSUME TerminalAssumption ==
    /\ Cli!LiveCliAssumption /\ Plugin!PluginManagerAssumption
    /\ Stream!ModelStreamAssumption /\ Login!CredentialsAssumption
    /\ Settings!ConfigLoaderAssumption

cliVars    == <<pc, held, fresh, handle, goal, files, begun, said, gone, starts>>
pluginVars == <<shipped, dirs, records, enabled, torn, at_, op, loaded, met>>
streamVars == <<provider, stage, attempts, response, arrived, ended, pending,
                events, stop, printed, unshown>>
loginVars  == <<saved, staged, issued, live, at, command, tokens, others,
                opened, crossing, crossed>>
configVars == <<texts, next, merged, servers, outcome>>
vars       == <<family, cliVars, pluginVars, streamVars, loginVars, configVars>>

PartsInit ==
    Cli!Init /\ Plugin!Init /\ Stream!Init /\ Login!Init /\ Settings!LoadInit

Init ==
    /\ family \in {"cli", "plugins", "stream", "login", "config"}
    /\ PartsInit
    /\ family # "stream" => provider = "anthropic"
    /\ family # "config" => texts = Settings!Nothing

OnlyCli     == Cli!Next    /\ UNCHANGED <<pluginVars, streamVars, loginVars, configVars>>
OnlyPlugins == Plugin!Next /\ UNCHANGED <<cliVars, streamVars, loginVars, configVars>>
OnlyStream  == Stream!Next /\ UNCHANGED <<cliVars, pluginVars, loginVars, configVars>>
OnlyLogin   == Login!Next  /\ UNCHANGED <<cliVars, pluginVars, streamVars, configVars>>
OnlyConfig  ==
    Settings!LoadNext /\ UNCHANGED <<cliVars, pluginVars, streamVars, loginVars>>

Next ==
    /\ UNCHANGED family
    /\ \/ family = "cli"     /\ OnlyCli
       \/ family = "plugins" /\ OnlyPlugins
       \/ family = "stream"  /\ OnlyStream
       \/ family = "login"   /\ OnlyLogin
       \/ family = "config"  /\ OnlyConfig

Spec == Init /\ [][Next]_vars

-----------------------------------------------------------------------------
\* Every runtime that is dropped was closed once, servers and plugins.
RuntimesClosed == Cli!RuntimesClosed

\* A session's file holds that session, and all of it.
SessionFileOwned == Cli!SessionFileOwned

\* The next sync repairs a bundled plugin, whatever was cut off before.
SyncRepairs == Plugin!SyncRepairs

\* A plugin command that reports success has done all of it.
SuccessTrue == Plugin!SuccessTrue

\* The answer that a turn goes on with is of one response, and the user has seen
\* all of its text but the end of a block that was never ended.
AnswerHonest == Stream!AnswerHonest

\* The credentials stay whole, and are those that a command reports.
CredentialsKept == Login!CredentialsKept

\* The settings in use are, path by path, those of the last file that says
\* anything of the path.
SettingsByPrecedence == Settings!SettingsByPrecedence
=============================================================================
