----------------------------- MODULE Installer -----------------------------
(***************************************************************************)
(* install.sh and the agent it installs the plugin under.  The script runs *)
(* under set -e: a step that fails ends it, and it may be killed at any    *)
(* step; then it may be run again.  Meanwhile a new release may appear and *)
(* the agent may end and be started again by the system.                   *)
(***************************************************************************)
EXTENDS Integers, Sequences

CONSTANTS Versions,       \* the releases
          Works,          \* which pairs of a plugin and a dnf.conf work together
          AgentVersions,  \* what the third word of zabbix_agent2 --version may be
          Majors,         \* the major versions of the operating system
          MaxRuns         \* bound: how often the script is run

ASSUME VersionsAssumption == Versions \subseteq Nat \ {0}
ASSUME MajorsAssumption == Majors \subseteq Nat

\* A release works with its own configuration.
ASSUME WorksAssumption == \A v \in Versions : <<v, v>> \in Works

VARIABLES
  host,       \* os_major, agent_version (split at the dots) and zabbix_home
  published,  \* the latest release
  step,       \* where the script is; "idle", "ok", "failed", "killed" without one
  skip,       \* SKIP_SERVICE_RESTART is 1
  tmp,        \* what has been downloaded, in order, to tmp_dir; <<>> without one
  plugin,     \* plugin_path: Absent, Partial or the file that it holds
  config,     \* config_path: likewise
  agent,      \* the plugin and the configuration the agent started with, or Down
  runs,       \* how often the script was started
  fault,      \* something outside the script went wrong in this run (history)
  before,     \* the files when this run began (history)
  verified,   \* this run has come past the checksum (history)
  torn        \* a run ended while it copied the plugin, no later copy did (history)

history == <<runs, fault, before, verified, torn>>
files == <<plugin, config>>
vars == <<host, published, step, skip, tmp, files, agent, history>>

\* A downloaded file: its release, and whether it arrived as published.
File(version, intact) == [version |-> version, intact |-> intact]
Files == [version : Versions, intact : BOOLEAN]
Absent == File(0, TRUE)
Partial == File(0, FALSE)
Down == <<>>

Ended == {"idle", "ok", "failed", "killed"}

Following ==
  [checks |-> "home", home |-> "version", version |-> "access", access |-> "download",
   download |-> "verify", verify |-> "dirs", dirs |-> "plugin", plugin |-> "copyPlugin",
   copyPlugin |-> "config", config |-> "copyConfig", copyConfig |-> "label",
   label |-> "validate", validate |-> "restart", restart |-> "active", active |-> "test"]

Downloads == <<"zabbix-dnf-plugin", "zabbix-dnf-plugin.sha256", "dnf.conf">>

-----------------------------------------------------------------------------
\* A plugin of an earlier release is installed and loaded, or there is none.
Init == /\ host \in [major : Majors, version : AgentVersions,
                     home : {"directory", "missing", "file"}]
        /\ published \in Versions
        /\ \/ plugin = Absent /\ config = Absent
           \/ \E v \in Versions : plugin = File(v, TRUE) /\ config = File(v, TRUE)
        /\ agent = <<plugin, config>>
        /\ step = "idle" /\ skip = FALSE /\ tmp = <<>>
        /\ runs = 0 /\ fault = FALSE /\ before = files /\ verified = FALSE /\ torn = FALSE

(***************************************************************************)
(* Around the script                                                       *)
(***************************************************************************)
Publish == /\ \E v \in Versions \ {published} : published' = v
           /\ fault' = TRUE
           /\ UNCHANGED <<host, step, skip, tmp, files, agent, runs, before, verified, torn>>

\* The network, a disk, the package manager, DNF or the agent fails.
Breaks == /\ step \notin Ended /\ ~fault
          /\ fault' = TRUE
          /\ \/ agent' = Down
             \/ UNCHANGED agent
          /\ UNCHANGED <<host, published, step, skip, tmp, files, runs, before, verified,
                         torn>>

\* Without its configuration the plugin is not loaded at all.
Usable(p, c) == \/ c = Absent
                \/ p \in Files /\ c \in Files /\ <<p.version, c.version>> \in Works

\* The agent starts with the files it finds, and ends if they do not work.
AgentStarts == agent' = <<plugin, config>>

SystemStartsAgent == /\ AgentStarts
                     /\ UNCHANGED <<host, published, step, skip, tmp, files, history>>

AgentGivesUp == /\ agent # Down /\ ~Usable(agent[1], agent[2])
                /\ agent' = Down
                /\ UNCHANGED <<host, published, step, skip, tmp, files, history>>

-----------------------------------------------------------------------------
(***************************************************************************)
(* The script                                                              *)
(***************************************************************************)
Run == /\ step \in Ended /\ runs < MaxRuns
       /\ step' = "checks"
       /\ skip' \in BOOLEAN
       /\ tmp' = <<>>
       /\ runs' = runs + 1 /\ fault' = FALSE /\ before' = files /\ verified' = FALSE
       /\ UNCHANGED <<host, published, files, agent, torn>>

Quits(how) == /\ step' = how /\ tmp' = <<>>
              /\ torn' = (torn \/ step = "copyPlugin")
              /\ UNCHANGED <<host, published, skip, files, agent, runs, fault, before, verified>>

\* A command of any step fails, because something is broken.
StepFails == step \notin Ended /\ fault /\ Quits("failed")

\* Killed: the trap does not run, but nothing uses the directory again.
Killed == step \notin Ended /\ Quits("killed")

\* fail: the condition of this step does not hold.
Requires(stage, condition) == step = stage /\ ~condition /\ Quits("failed")

\* The step is done, and the next one follows.
Advance(stage) == step = stage /\ step' = Following[stage]

Passes(stage, condition) ==
  /\ Advance(stage) /\ condition
  /\ UNCHANGED <<host, published, skip, tmp, files, agent, history>>

\* Bug: the installer insists on an agent that runs.
ReadyForPluginActive == host.major >= 8 /\ agent # Down

\* Root, x86_64, the operating system, the commands and the account.
ReadyForPlugin == host.major >= 8

\* check_agent_version (a word that is not a number is -1): three numbers, the first two of a supported release.
SupportedAgent ==
  /\ Len(host.version) = 3
  /\ \A i \in 1 .. 3 : host.version[i] \in Nat
  /\ <<host.version[1], host.version[2]>> \in {<<7, 0>>, <<7, 2>>, <<7, 4>>}

Home == /\ Advance("home") /\ host.home # "file"
        /\ host' = [host EXCEPT !.home = "directory"]
        /\ UNCHANGED <<published, skip, tmp, files, agent, history>>

\* Bug: the plugin is downloaded to its place.
DownloadInPlace ==
  /\ step = "download"
  /\ tmp' = Append(tmp, File(published, TRUE))
  /\ plugin' = tmp'[1]
  /\ step' = IF Len(tmp') = Len(Downloads) THEN "verify" ELSE step
  /\ UNCHANGED <<host, published, skip, config, agent, history>>

\* curl: each file is of the release that is the latest at that moment, and
\* arrives damaged only if something is broken.
Download ==
  /\ step = "download"
  /\ \E intact \in {TRUE, ~fault} : tmp' = Append(tmp, File(published, intact))
  /\ step' = IF Len(tmp') = Len(Downloads) THEN "verify" ELSE step
  /\ UNCHANGED <<host, published, skip, files, agent, history>>

\* Bug: the result of sha256sum is not looked at.
ChecksumAny == TRUE

\* sha256sum --check of the plugin; dnf.conf has no checksum.
ChecksumMatches == /\ tmp[1].version = tmp[2].version
                   /\ tmp[1].intact /\ tmp[2].intact

Verify == /\ Advance("verify") /\ ChecksumMatches
          /\ verified' = TRUE
          /\ UNCHANGED <<host, published, skip, tmp, files, agent, runs, fault, before, torn>>

\* install removes the old file, then copies the new one in its place.
InstallPlugin == /\ \/ Advance("plugin") /\ plugin' = Partial /\ UNCHANGED torn
                    \/ Advance("copyPlugin") /\ plugin' = tmp[1] /\ torn' = FALSE
                 /\ UNCHANGED <<host, published, skip, tmp, config, agent, runs, fault, before,
                                verified>>

InstallConfig == /\ \/ Advance("config") /\ config' = Partial
                    \/ Advance("copyConfig") /\ config' = tmp[3]
                 /\ UNCHANGED <<host, published, skip, tmp, plugin, agent, history>>

\* Bug: the agent that runs is left running.
RestartForgotten == Passes("restart", TRUE)

Restart == /\ Advance("restart")
           /\ IF skip THEN UNCHANGED agent ELSE AgentStarts
           /\ UNCHANGED <<host, published, skip, tmp, files, history>>

\* Bug: the output of the test is not looked at.
CompleteCollectionAny == TRUE

\* zabbix_agent2 -t dnf.get starts the installed plugin for itself.
CompleteCollection == config # Absent /\ Usable(plugin, config)

Succeed == /\ step = "test" /\ CompleteCollection
           /\ Quits("ok")

-----------------------------------------------------------------------------
ScriptStep ==
  \/ Passes("checks", ReadyForPlugin) \/ Requires("checks", ReadyForPlugin)
  \/ Home                             \/ Requires("home", host.home # "file")
  \/ Passes("version", SupportedAgent) \/ Requires("version", SupportedAgent)
  \/ Passes("access", TRUE)
  \/ Download
  \/ Verify                           \/ Requires("verify", ChecksumMatches)
  \/ Passes("dirs", TRUE)
  \/ InstallPlugin \/ InstallConfig
  \/ Passes("label", TRUE) \/ Passes("validate", TRUE)
  \/ Restart
  \/ Passes("active", skip \/ agent # Down)
  \/ Requires("active", skip \/ agent # Down)
  \/ Succeed                          \/ Requires("test", CompleteCollection)

Next == Publish \/ Breaks \/ SystemStartsAgent \/ AgentGivesUp
        \/ Run \/ StepFails \/ Killed \/ ScriptStep

Spec == Init /\ [][Next]_vars

-----------------------------------------------------------------------------
\* A whole plugin that is installed matches its checksum, whatever release
\* appears between two downloads and wherever a run ends.  Only a part of one is
\* in its place while the script copies it there, and, because it is not moved
\* there when it is whole (install.sh:140), after a run that has ended right then
\* until another one copies it.
OnlyVerifiedPlugins ==
  \/ plugin = Absent
  \/ plugin \in Files /\ plugin.intact
  \/ plugin = Partial /\ (step = "copyPlugin" \/ torn)

\* Up to the checksum a run leaves the plugin and its configuration as they were.
ChecksComeFirst == ~verified => files = before

\* "Installation completed successfully": a plugin and a configuration that
\* work together are in their places, the host is one they are meant for,
\* and no agent is left that runs with older files.
SuccessIsWhole ==
  step = "ok" =>
    /\ plugin \in Files /\ config \in Files
    /\ <<plugin.version, config.version>> \in Works
    /\ host.major >= 8 /\ SupportedAgent
    /\ skip \/ agent \in {Down, <<plugin, config>>}

\* The script can always be run again: wherever an earlier run has ended, and
\* whatever it has left under a running or a broken agent, the next one fails
\* only for a cause of its own time, or on a host it is not meant for.
RerunRepairs ==
  step = "failed" => fault \/ host.major < 8 \/ ~SupportedAgent \/ host.home = "file"
=============================================================================
