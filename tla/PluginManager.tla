----------------------------- MODULE PluginManager -----------------------------
(***************************************************************************)
(* Installed plugins in rust/crates/plugins/src/lib.rs: directories below  *)
(* the install root, the registry file that lists them and the settings    *)
(* file that enables them, which are changed one after another.  Sessions  *)
(* share them without a lock, and any step may fail or be the last of its  *)
(* process.  There are one bundled plugin, which every look at the plugins *)
(* first brings to the version that ships with the program, and one        *)
(* external one, which the user installs, updates and uninstalls.          *)
(***************************************************************************)
EXTENDS Naturals

CONSTANTS
    Sessions,
    Users,          \* bound: the sessions with a command; the others only start
    MaxVersion      \* bound: releases of the bundled plugin

PluginManagerAssumption == MaxVersion \in Nat \ {0}

Plugins == {"bundled", "external"}
Operations == {"report", "install", "update", "uninstall", "enable", "disable"}

\* How much of a directory there is: none of it, no manifest, a manifest that
\* cannot be loaded, or all that its manifest names.
Absent == 0
Bare == 1
Broken == 2
Loads == 3

VARIABLES
    shipped,    \* version of the bundled plugin that the program ships
    dirs,       \* each plugin's directory: level and version
    records,    \* the registry file: each plugin's version, 0 for no record
    enabled,    \* what the settings file says of the external plugin
    torn,       \* which of the two files end in the middle of their JSON
    at_,        \* where each session is
    op,         \* its operation
    loaded,     \* the records it has loaded, and changed
    met         \* history: sessions at work whose files another one has changed

pluginVars == <<shipped, dirs, records, enabled, torn, at_, op, loaded, met>>
fileVars   == <<dirs, records, enabled, torn>>

NoRecords == [p \in Plugins |-> 0]

Init ==
    /\ shipped = 1
    /\ dirs = [p \in Plugins |-> [level |-> Absent, version |-> 0]]
    /\ records = NoRecords /\ enabled = "unset" /\ torn = {}
    /\ at_ = [s \in Sessions |-> "idle"]
    /\ op = [s \in Sessions |-> "report"]
    /\ loaded = [s \in Sessions |-> NoRecords]
    /\ met = {}

-----------------------------------------------------------------------------
Busy == {s \in Sessions : at_[s] # "idle"}
Goes(s, next) == at_' = [at_ EXCEPT ![s] = next]

\* s changes a file under the others that are at work.
Changes(s) == met' = met \cup (Busy \ {s})

\* The operation is over.
Ends(s) ==
    /\ Goes(s, "idle")
    /\ op' = [op EXCEPT ![s] = "report"]
    /\ loaded' = [loaded EXCEPT ![s] = NoRecords]
    /\ UNCHANGED <<shipped, dirs, records, enabled>>

Release ==
    /\ Busy = {} /\ shipped < MaxVersion /\ shipped' = shipped + 1
    /\ UNCHANGED <<fileVars, at_, op, loaded, met>>

\* /plugin, and the start of a session.  The source of an external plugin has
\* been loaded before anything is changed.
Begin(s, o) ==
    /\ at_[s] = "idle" /\ (o = "report" \/ s \in Users)
    /\ op' = [op EXCEPT ![s] = o]
    /\ Goes(s, CASE o = "install" -> "remove"
                 [] o \in {"update", "uninstall"} -> "find"
                 [] OTHER -> "sync")
    /\ UNCHANGED <<shipped, fileVars, loaded, met>>

-----------------------------------------------------------------------------
NeedsSync_Record ==                                            \* mutated
    records["bundled"] # shipped

\* needs_sync: no record, another version, or a copy that does not load.
NeedsSync ==
    \/ records["bundled"] # shipped
    \/ dirs["bundled"].level < Loads

Sync_Fresh(s) ==                                               \* mutated
    /\ at_[s] = "sync" /\ "registry" \notin torn
    /\ IF NeedsSync
         THEN /\ Goes(s, "remove_bundled")
              /\ loaded' = [loaded EXCEPT ![s] = [NoRecords EXCEPT !["bundled"] = shipped]]
         ELSE Goes(s, "discover") /\ UNCHANGED loaded
    /\ UNCHANGED <<shipped, fileVars, op, met>>

\* sync_bundled_plugins, up to its first change.
Sync(s) ==
    /\ at_[s] = "sync" /\ "registry" \notin torn
    /\ IF NeedsSync
         THEN /\ Goes(s, "remove_bundled")
              /\ loaded' = [loaded EXCEPT ![s] = [records EXCEPT !["bundled"] = shipped]]
         ELSE Goes(s, "discover") /\ UNCHANGED loaded
    /\ UNCHANGED <<shipped, fileVars, op, met>>

\* update and uninstall look the plugin up in the registry.
Find(s) ==
    /\ at_[s] = "find" /\ "registry" \notin torn /\ records["external"] # 0
    /\ Goes(s, "remove")
    /\ loaded' = [loaded EXCEPT ![s] =
                    IF op[s] = "uninstall" THEN [records EXCEPT !["external"] = 0] ELSE records]
    /\ UNCHANGED <<shipped, fileVars, op, met>>

\* remove_dir_all of plugin p, some of it at a time.
Remove(s, p) ==
    /\ at_[s] = IF p = "bundled" THEN "remove_bundled" ELSE "remove"
    /\ IF dirs[p].level = Absent
         THEN /\ Goes(s, IF p = "bundled" THEN "copy_bundled"
                         ELSE IF op[s] = "uninstall" THEN "store" ELSE "copy")
              /\ UNCHANGED <<dirs, met>>
         ELSE /\ \E level \in 0..(dirs[p].level - 1) :
                    dirs' = [dirs EXCEPT ![p].level = level]
              /\ Changes(s)
              /\ UNCHANGED at_
    /\ UNCHANGED <<shipped, records, enabled, torn, op, loaded>>

VersionOf(p) == IF p = "bundled" THEN shipped ELSE 1

\* copy_dir_all of plugin p: some of it ...
Copy(s, p) ==
    /\ at_[s] = IF p = "bundled" THEN "copy_bundled" ELSE "copy"
    /\ Goes(s, IF p = "bundled" THEN "copying_bundled" ELSE "copying")
    /\ \E level \in {Bare, Broken, Loads} :
         /\ level >= dirs[p].level
         /\ dirs' = [dirs EXCEPT ![p] = [level |-> level, version |-> VersionOf(p)]]
    /\ Changes(s)
    /\ UNCHANGED <<shipped, records, enabled, torn, op, loaded>>

\* ... and the rest, which may by now go into a directory that another session
\* has taken files from.
Copied(s, p) ==
    /\ at_[s] = IF p = "bundled" THEN "copying_bundled" ELSE "copying"
    /\ Goes(s, IF p = "bundled" THEN "store_bundled"
               ELSE IF op[s] = "install" THEN "record" ELSE "store")
    /\ \E level \in (IF s \in met THEN dirs[p].level..Loads ELSE {Loads}) :
         dirs' = [dirs EXCEPT ![p] = [level |-> level, version |-> VersionOf(p)]]
    /\ Changes(s)
    /\ UNCHANGED <<shipped, records, enabled, torn, op, loaded>>

-----------------------------------------------------------------------------
\* install loads the registry only now.
Record(s) ==
    /\ at_[s] = "record" /\ "registry" \notin torn
    /\ Goes(s, "store")
    /\ loaded' = [loaded EXCEPT ![s] = [records EXCEPT !["external"] = 1]]
    /\ UNCHANGED <<shipped, fileVars, op, met>>

Storing == [store_bundled |-> "fill_bundled", store |-> "fill", store_pruned |-> "fill_pruned"]

\* store_registry empties the file, which then reads as a registry without a
\* record, ...
Store(s) ==
    /\ at_[s] \in DOMAIN Storing
    /\ Goes(s, Storing[at_[s]])
    /\ records' = NoRecords /\ torn' = torn \ {"registry"}
    /\ Changes(s)
    /\ UNCHANGED <<shipped, dirs, enabled, op, loaded>>

\* ... and fills it.  Where two sessions write at once, the tail of the longer
\* text may be left after the other.
Fill(s) ==
    /\ at_[s] \in {"fill_bundled", "fill", "fill_pruned"}
    /\ Goes(s, IF at_[s] = "fill_bundled" THEN "discover"
               ELSE IF at_[s] = "fill_pruned" THEN "known"
               ELSE IF op[s] = "update" THEN "sync" ELSE "settings")
    /\ records' = loaded[s]
    /\ loaded' = [loaded EXCEPT ![s] = NoRecords]
    /\ torn' \in {torn \ {"registry"}} \cup
                  (IF s \in met THEN {torn \cup {"registry"}} ELSE {})
    /\ Changes(s)
    /\ UNCHANGED <<shipped, dirs, enabled, op>>

-----------------------------------------------------------------------------
\* stale_registry_ids: records whose directory has no manifest.
Stale(p) == records[p] # 0 /\ dirs[p].level <= Bare

\* discover_installed_plugins_with_failures loads the registry again, and
\* takes out of it what is stale.
Discover(s) ==
    LET pruned == [p \in Plugins |-> IF Stale(p) THEN 0 ELSE records[p]]
    IN  /\ at_[s] = "discover" /\ "registry" \notin torn
        /\ IF pruned # records
             THEN Goes(s, "store_pruned") /\ loaded' = [loaded EXCEPT ![s] = pruned]
             ELSE Goes(s, "known") /\ UNCHANGED loaded
        /\ UNCHANGED <<shipped, fileVars, op, met>>

\* into_registry: no plugin that is there fails to load; install and update
\* report the plugin, enable and disable need it.
Known(s) ==
    /\ at_[s] = "known"
    /\ \A p \in Plugins : dirs[p].level # Broken
    /\ op[s] \in {"enable", "disable"} => dirs["external"].level = Loads
    /\ Goes(s, IF op[s] \in {"enable", "disable"} THEN "settings" ELSE "done")
    /\ UNCHANGED <<shipped, fileVars, op, loaded, met>>

\* write_enabled_state empties the settings file ...
Settings(s) ==
    /\ at_[s] = "settings" /\ "settings" \notin torn
    /\ Goes(s, "write")
    /\ enabled' = "unset"
    /\ Changes(s)
    /\ UNCHANGED <<shipped, dirs, records, torn, op, loaded>>

\* ... and fills it; after an install the plugins are listed.
Write(s) ==
    /\ at_[s] = "write"
    /\ enabled' = CASE op[s] \in {"install", "enable"} -> "on"
                    [] op[s] = "disable" -> "off"
                    [] OTHER -> "unset"
    /\ Changes(s)
    /\ Goes(s, IF op[s] = "install" THEN "sync" ELSE "done")
    /\ UNCHANGED <<shipped, dirs, records, torn, op, loaded>>

\* Success is reported.
Return(s) == at_[s] = "done" /\ Ends(s) /\ met' = met \ {s} /\ UNCHANGED torn

\* Any step may fail, and be the last of its session; so may the whole program.
\* A file that is being filled may be left empty, or torn.
Stop(s) ==
    /\ at_[s] \notin {"idle", "done"}
    /\ torn' = CASE at_[s] = "write" -> torn \cup {"settings"}
                 [] at_[s] \in {"fill_bundled", "fill", "fill_pruned"} -> torn \cup {"registry"}
                 [] OTHER -> torn
    /\ Ends(s) /\ met' = (met \cup Busy) \ {s}

StopEmpty(s) ==
    /\ at_[s] \in {"write", "fill_bundled", "fill", "fill_pruned"}
    /\ Ends(s) /\ met' = met \ {s} /\ UNCHANGED torn

\* A torn file is mended by hand: its plugins have to be installed again.
Mend ==
    /\ Busy = {} /\ torn # {}
    /\ torn' = {}
    /\ UNCHANGED <<shipped, dirs, records, enabled, at_, op, loaded, met>>

Next ==
    \/ Release
    \/ Mend
    \/ \E s \in Sessions :
         \/ \E o \in Operations : Begin(s, o)
         \/ \E p \in Plugins : Remove(s, p) \/ Copy(s, p) \/ Copied(s, p)
         \/ Sync(s) \/ Find(s) \/ Record(s) \/ Store(s) \/ Fill(s)
         \/ Discover(s) \/ Known(s)
         \/ Settings(s) \/ Write(s) \/ Return(s)
         \/ Stop(s) \/ StopEmpty(s)

Spec == Init /\ [][Next]_pluginVars

-----------------------------------------------------------------------------
(***************************************************************************)
(* Whatever was left by a sync or an operation that was cut off, the next  *)
(* sync, if no other session comes between, leaves a bundled plugin that   *)
(* loads, in the version that ships with the program, and a record that    *)
(* says so.                                                                *)
(***************************************************************************)
SyncRepairs ==
    \A s \in Sessions :
        at_[s] = "discover" /\ s \notin met =>
            /\ dirs["bundled"] = [level |-> Loads, version |-> shipped]
            /\ records["bundled"] = shipped

(***************************************************************************)
(* An operation that reports success, and was not crossed by another       *)
(* session, has brought directory, registry and settings to agree on what  *)
(* it reports, and has not lost the bundled plugin's record on the way.    *)
(***************************************************************************)
SuccessTrue ==
    \A s \in Sessions :
        at_[s] = "done" /\ s \notin met =>
            /\ op[s] \in {"install", "update"} =>
                 dirs["external"].level = Loads /\ records["external"] = 1
            /\ op[s] = "uninstall" =>
                 dirs["external"].level = Absent /\ records["external"] = 0
            /\ op[s] # "uninstall" => records["bundled"] = shipped
            /\ op[s] \in {"install", "enable"} => enabled = "on"
            /\ op[s] = "disable" => enabled = "off"
            /\ op[s] = "uninstall" => enabled = "unset"

-----------------------------------------------------------------------------
\* Why the two hold in every step.  Types, and which operations come where:
Stages ==
    [idle |-> {"report"}, find |-> {"update", "uninstall"},
     remove |-> {"install", "update", "uninstall"},
     copy |-> {"install", "update"}, copying |-> {"install", "update"},
     record |-> {"install"},
     store |-> {"install", "update", "uninstall"},
     fill |-> {"install", "update", "uninstall"},
     settings |-> {"install", "uninstall", "enable", "disable"},
     write |-> {"install", "uninstall", "enable", "disable"},
     done |-> Operations]

Syncing == {"sync", "remove_bundled", "copy_bundled", "copying_bundled", "store_bundled",
            "fill_bundled", "discover", "store_pruned", "fill_pruned", "known"}

PluginTypes ==
    /\ shipped \in Nat \ {0}
    /\ dirs \in [Plugins -> [level : 0..Loads, version : Nat]]
    /\ records \in [Plugins -> Nat] /\ records["external"] \in {0, 1}
    /\ enabled \in {"unset", "on", "off"}
    /\ torn \subseteq {"registry", "settings"} /\ met \subseteq Sessions
    /\ at_ \in [Sessions -> DOMAIN Stages \cup Syncing]
    /\ op \in [Sessions -> Operations]
    /\ loaded \in [Sessions -> [Plugins -> Nat]]
    /\ \A s \in Sessions :
         /\ loaded[s]["external"] \in {0, 1}
         /\ op[s] \in IF at_[s] \in Syncing THEN Operations \ {"uninstall"} ELSE Stages[at_[s]]

\* No version is ahead of the one that ships; a record, or one about to be
\* stored, that names it is of a directory that has been copied from it.
VersionsRise ==
    /\ dirs["bundled"].version <= shipped /\ records["bundled"] <= shipped
    /\ records["bundled"] = shipped => dirs["bundled"].version = shipped
    /\ \A s \in Sessions :
         /\ loaded[s]["bundled"] <= shipped
         /\ at_[s] = "idle" => loaded[s] = NoRecords
         /\ at_[s] \in {"copying_bundled", "store_bundled"} => dirs["bundled"].version = shipped
         /\ loaded[s]["bundled"] = shipped =>
              \/ dirs["bundled"].version = shipped
              \/ at_[s] \in {"remove_bundled", "copy_bundled"}

\* What a session that no other one has crossed has brought about by now: of
\* the external plugin's directory, ...
DirectoryReady(s) ==
    /\ op[s] = "install" /\ at_[s] \notin {"remove", "copy", "copying"}
         => dirs["external"].level = Loads
    /\ op[s] = "update" /\ at_[s] \notin {"find", "remove", "copy", "copying"}
         => dirs["external"].level = Loads
    /\ op[s] = "uninstall" /\ at_[s] \notin {"find", "remove"}
         => dirs["external"].level = Absent

\* ... its record, in the file or about to be stored there, ...
RecordOf(s) ==
    IF at_[s] \in {"remove_bundled", "copy_bundled", "copying_bundled", "store_bundled",
                   "fill_bundled", "store", "fill", "store_pruned", "fill_pruned"}
      THEN loaded[s] ELSE records

RecordReady(s) ==
    /\ op[s] = "install" /\ at_[s] \notin {"remove", "copy", "copying", "record"}
         => RecordOf(s)["external"] = 1
    /\ op[s] = "update" /\ at_[s] \in {"remove", "copy", "copying"} => loaded[s]["external"] = 1
    /\ op[s] = "update" /\ at_[s] \notin {"find", "remove", "copy", "copying"}
         => RecordOf(s)["external"] = 1
    /\ op[s] = "uninstall" /\ at_[s] = "remove" => loaded[s]["external"] = 0
    /\ op[s] = "uninstall" /\ at_[s] \notin {"find", "remove"} => RecordOf(s)["external"] = 0

\* ... its setting, ...
SettingReady(s) ==
    /\ op[s] = "install" /\ at_[s] \in Syncing \cup {"done"} => enabled = "on"
    /\ op[s] = "enable" /\ at_[s] = "done" => enabled = "on"
    /\ op[s] = "disable" /\ at_[s] = "done" => enabled = "off"
    /\ op[s] = "uninstall" /\ at_[s] = "done" => enabled = "unset"

\* ... and of the bundled plugin.
BundledReady(s) ==
    /\ at_[s] \in {"store_bundled", "fill_bundled", "discover", "store_pruned", "fill_pruned"}
         => dirs["bundled"] = [level |-> Loads, version |-> shipped]
    /\ at_[s] \in Syncing \ {"sync"} => RecordOf(s)["bundled"] = shipped
    /\ at_[s] \in {"settings", "write"} /\ op[s] \in {"enable", "disable"}
         => records["bundled"] = shipped
    /\ at_[s] = "done" /\ op[s] # "uninstall" => records["bundled"] = shipped

Ready(s) == DirectoryReady(s) /\ RecordReady(s) /\ SettingReady(s) /\ BundledReady(s)

PluginInv ==
    /\ PluginTypes /\ VersionsRise
    /\ \A s \in Sessions : at_[s] # "idle" /\ s \notin met => Ready(s)
=============================================================================
