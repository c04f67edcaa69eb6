-------------------------- MODULE InstallerProofs --------------------------
(***************************************************************************)
(* Proofs about Installer, for any releases and any number of runs, of     *)
(* which each may fail or be killed at any stage.                          *)
(***************************************************************************)
EXTENDS Installer, SequenceTheorems, TLAPS

\* The stages after the downloads, and after each of the two installations.
Configured == {"label", "validate", "restart", "active", "test"}
Installed  == {"config", "copyConfig"} \cup Configured
Installing == {"dirs", "plugin", "copyPlugin"} \cup Installed
Fetched    == {"verify"} \cup Installing
Stages     == {"checks", "home", "version", "access", "download"} \cup Fetched

TypeInv ==
  /\ host \in [major : Majors, version : AgentVersions, home : {"directory", "missing", "file"}]
  /\ published \in Versions /\ step \in Ended \cup Stages
  /\ skip \in BOOLEAN /\ fault \in BOOLEAN /\ verified \in BOOLEAN /\ torn \in BOOLEAN
  /\ tmp \in Seq(Files)

\* What has been downloaded: three files at last, all of the latest release
\* if nothing has gone wrong.
DownloadInv ==
  /\ step \in {"checks", "home", "version", "access"} => tmp = <<>>
  /\ step = "download" => Len(tmp) < 3
  /\ step \in Fetched => Len(tmp) = 3
  /\ ~fault => \A i \in DOMAIN tmp : tmp[i] = File(published, TRUE)

\* What the stages before have made sure of.
ChecksInv ==
  /\ step \in (Stages \ {"checks"}) \cup {"ok"} => ReadyForPlugin
  /\ step \in (Stages \ {"checks", "home", "version"}) \cup {"ok"} => SupportedAgent
  /\ step \in Installing => ChecksumMatches /\ verified

\* What the stages before have installed and restarted.
FilesInv ==
  /\ step \in Installed => plugin = tmp[1]
  /\ step \in Configured => config = tmp[3]
  /\ step \in {"active", "test"} => skip \/ agent \in {Down, <<plugin, config>>}
  /\ step \in {"active", "test"} /\ ~fault => skip \/ agent = <<plugin, config>>

Inv == /\ TypeInv /\ DownloadInv /\ ChecksInv /\ FilesInv
       /\ OnlyVerifiedPlugins /\ ChecksComeFirst /\ SuccessIsWhole /\ RerunRepairs

-----------------------------------------------------------------------------
LEMMA Follows ==
  /\ Following["checks"] = "home" /\ Following["home"] = "version"
  /\ Following["version"] = "access" /\ Following["access"] = "download"
  /\ Following["verify"] = "dirs" /\ Following["dirs"] = "plugin"
  /\ Following["plugin"] = "copyPlugin" /\ Following["copyPlugin"] = "config"
  /\ Following["config"] = "copyConfig" /\ Following["copyConfig"] = "label"
  /\ Following["label"] = "validate" /\ Following["validate"] = "restart"
  /\ Following["restart"] = "active" /\ Following["active"] = "test"
BY DEF Following

\* Without a fault the files that are installed are of one release, and work.
LEMMA WholeWithoutFault ==
  ASSUME TypeInv, DownloadInv, FilesInv, ~fault, step \in Configured
  PROVE  /\ plugin = File(published, TRUE) /\ config = File(published, TRUE)
         /\ CompleteCollection
<1>1. tmp[1] = File(published, TRUE) /\ tmp[3] = File(published, TRUE)
  <2>1. Len(tmp) = 3
    BY DEF DownloadInv, Fetched, Installing, Installed
  <2>2. 1 \in DOMAIN tmp /\ 3 \in DOMAIN tmp
    BY <2>1 DEF TypeInv
  <2> QED BY <2>2 DEF DownloadInv
<1>2. plugin = File(published, TRUE) /\ config = File(published, TRUE)
  BY <1>1 DEF FilesInv, Installed
<1>3. File(published, TRUE) \in Files
  BY DEF TypeInv, File, Files
<1>4. <<published, published>> \in Works /\ published # 0
  BY WorksAssumption, VersionsAssumption DEF TypeInv
<1>5. config # Absent
  BY <1>2, <1>4 DEF File, Absent
<1>6. Usable(plugin, config)
  BY <1>2, <1>3, <1>4 DEF Usable, File
<1> QED BY <1>2, <1>5, <1>6 DEF CompleteCollection

-----------------------------------------------------------------------------
LEMMA InitInv == Init => Inv
<1> SUFFICES ASSUME Init PROVE Inv
  OBVIOUS
<1>1. TypeInv
  <2>1. tmp \in Seq(Files)
    BY DEF Init
  <2> QED BY <2>1 DEF Init, TypeInv, Ended
<1>2. DownloadInv
  BY DEF Init, DownloadInv, Fetched, Installing, Installed, Configured
<1>3. ChecksInv /\ FilesInv
  BY DEF Init, ChecksInv, FilesInv, Stages, Fetched, Installing, Installed, Configured
<1>4. OnlyVerifiedPlugins
  <2>1. CASE plugin = Absent
    BY <2>1 DEF OnlyVerifiedPlugins
  <2>2. CASE \E v \in Versions : plugin = File(v, TRUE)
    BY <2>2 DEF OnlyVerifiedPlugins, File, Files
  <2> QED BY <2>1, <2>2 DEF Init
<1>5. ChecksComeFirst /\ SuccessIsWhole /\ RerunRepairs
  BY DEF Init, ChecksComeFirst, SuccessIsWhole, RerunRepairs
<1> QED BY <1>1, <1>2, <1>3, <1>4, <1>5 DEF Inv

(***************************************************************************)
(* Around the script                                                       *)
(***************************************************************************)
\* A release that appears is a fault of the run, whose downloads may differ.
LEMMA PublishInv == ASSUME Inv, Publish PROVE Inv'
<1> USE DEF Inv, Publish, files
<1>1. TypeInv' /\ DownloadInv'
  BY DEF TypeInv, DownloadInv
<1>2. ChecksInv' /\ FilesInv'
  BY DEF ChecksInv, ChecksumMatches, ReadyForPlugin, SupportedAgent, FilesInv
<1>3. OnlyVerifiedPlugins' /\ ChecksComeFirst' /\ RerunRepairs'
  BY DEF OnlyVerifiedPlugins, ChecksComeFirst, RerunRepairs, SupportedAgent
<1>4. SuccessIsWhole'
  BY DEF SuccessIsWhole, SupportedAgent
<1> QED BY <1>1, <1>2, <1>3, <1>4

\* The agent alone is touched: it is down, or has started with the files.
LEMMA AgentInv ==
  ASSUME Inv, UNCHANGED <<host, published, step, skip, tmp, files, runs, before, verified, torn>>,
         fault' = fault \/ fault' = TRUE,
         agent' \in {agent, Down, <<plugin, config>>},
         ~fault' => agent' = agent \/ agent' = <<plugin, config>>
                      \/ (agent # Down /\ ~Usable(agent[1], agent[2]))
  PROVE  Inv'
<1> USE DEF Inv, files
<1>1. TypeInv' /\ DownloadInv'
  BY DEF TypeInv, DownloadInv
<1>2. ChecksInv'
  BY DEF ChecksInv, ChecksumMatches, ReadyForPlugin, SupportedAgent
<1>3. FilesInv'
  <2>1. ASSUME step \in {"active", "test"}, ~fault'
        PROVE  skip \/ agent' = <<plugin, config>>
    <3>1. ~fault /\ step \in Configured
      BY <2>1 DEF Configured
    <3>2. Usable(plugin, config)
      BY <3>1, WholeWithoutFault DEF CompleteCollection
    <3>3. skip \/ agent = <<plugin, config>>
      BY <2>1, <3>1 DEF FilesInv
    <3>4. agent = <<plugin, config>> => Usable(agent[1], agent[2])
      BY <3>2
    <3> QED BY <2>1, <3>3, <3>4
  <2> QED BY <2>1 DEF FilesInv
<1>4. OnlyVerifiedPlugins' /\ ChecksComeFirst' /\ RerunRepairs'
  BY DEF OnlyVerifiedPlugins, ChecksComeFirst, RerunRepairs, SupportedAgent
<1>5. SuccessIsWhole'
  BY DEF SuccessIsWhole, SupportedAgent
<1> QED BY <1>1, <1>2, <1>3, <1>4, <1>5

LEMMA AroundInv ==
  ASSUME Inv, Breaks \/ SystemStartsAgent \/ AgentGivesUp
  PROVE  Inv'
<1>1. CASE Breaks
  BY <1>1, AgentInv DEF Breaks, files
<1>2. CASE SystemStartsAgent
  BY <1>2, AgentInv DEF SystemStartsAgent, AgentStarts, files, history
<1>3. CASE AgentGivesUp
  BY <1>3, AgentInv DEF AgentGivesUp, files, history
<1> QED BY <1>1, <1>2, <1>3

-----------------------------------------------------------------------------
(***************************************************************************)
(* The script                                                              *)
(***************************************************************************)
LEMMA RunInv == ASSUME Inv, Run PROVE Inv'
<1> USE DEF Inv, Run, files
<1>1. TypeInv'
  <2>1. tmp' \in Seq(Files)
    OBVIOUS
  <2> QED BY <2>1 DEF TypeInv, Stages
<1>2. DownloadInv' /\ ChecksInv' /\ FilesInv'
  BY DEF DownloadInv, ChecksInv, FilesInv, Stages, Fetched, Installing, Installed, Configured
<1>3. OnlyVerifiedPlugins'
  BY DEF OnlyVerifiedPlugins, Ended
<1>4. ChecksComeFirst' /\ RerunRepairs' /\ SuccessIsWhole'
  BY DEF ChecksComeFirst, RerunRepairs, SuccessIsWhole
<1> QED BY <1>1, <1>2, <1>3, <1>4

\* The run ends: what was made sure of stays.
LEMMA QuitsInv ==
  ASSUME Inv, NEW how \in {"failed", "killed"}, Quits(how),
         how = "failed" => fault \/ host.major < 8 \/ ~SupportedAgent \/ host.home = "file"
  PROVE  Inv'
<1> USE DEF Inv, Quits, files, history
<1>1. TypeInv' /\ DownloadInv'
  BY DEF TypeInv, DownloadInv, Ended, Fetched, Installing, Installed, Configured
<1>2. ChecksInv' /\ FilesInv'
  BY DEF ChecksInv, FilesInv, Stages, Fetched, Installing, Installed, Configured
<1>3. OnlyVerifiedPlugins' /\ ChecksComeFirst' /\ SuccessIsWhole'
  BY DEF OnlyVerifiedPlugins, ChecksComeFirst, SuccessIsWhole
<1>4. RerunRepairs'
  BY DEF RerunRepairs, SupportedAgent
<1> QED BY <1>1, <1>2, <1>3, <1>4

\* The files a run without a fault has downloaded have the right checksum.
LEMMA ChecksumWithoutFault ==
  ASSUME TypeInv, DownloadInv, ~fault, step = "verify"
  PROVE  ChecksumMatches
<1>1. 1 \in DOMAIN tmp /\ 2 \in DOMAIN tmp
  BY DEF TypeInv, DownloadInv, Fetched
<1>2. tmp[1] = File(published, TRUE) /\ tmp[2] = File(published, TRUE)
  BY <1>1 DEF DownloadInv
<1> QED BY <1>2 DEF ChecksumMatches, File

LEMMA RequiresInv ==
  ASSUME Inv,
         \/ Requires("checks", ReadyForPlugin)  \/ Requires("home", host.home # "file")
         \/ Requires("version", SupportedAgent) \/ Requires("verify", ChecksumMatches)
         \/ Requires("active", skip \/ agent # Down)
         \/ Requires("test", CompleteCollection)
  PROVE  Inv'
<1>1. Quits("failed")
  BY DEF Requires
<1>2. fault \/ host.major < 8 \/ ~SupportedAgent \/ host.home = "file"
  <2>1. CASE Requires("checks", ReadyForPlugin)
    <3>1. ~ReadyForPlugin
      BY <2>1 DEF Requires
    <3>2. host.major \in Nat
      BY MajorsAssumption DEF Inv, TypeInv
    <3> QED BY <3>1, <3>2 DEF ReadyForPlugin
  <2>2. CASE Requires("home", host.home # "file") \/ Requires("version", SupportedAgent)
    BY <2>2 DEF Requires
  <2>3. CASE Requires("verify", ChecksumMatches)
    BY <2>3, ChecksumWithoutFault DEF Requires, Inv
  <2>4. CASE Requires("active", skip \/ agent # Down)
    BY <2>4 DEF Requires, Inv, FilesInv, Down
  <2>5. CASE Requires("test", CompleteCollection)
    BY <2>5, WholeWithoutFault DEF Requires, Inv, Configured
  <2> QED BY <2>1, <2>2, <2>3, <2>4, <2>5
<1> QED BY <1>1, <1>2, QuitsInv

\* The stages that only look, or leave alone what the model has.
LEMMA PassesInv ==
  ASSUME Inv,
         \/ Passes("checks", ReadyForPlugin) \/ Passes("version", SupportedAgent)
         \/ Passes("access", TRUE)           \/ Passes("dirs", TRUE)
         \/ Passes("label", TRUE)            \/ Passes("validate", TRUE)
         \/ Passes("active", skip \/ agent # Down)
  PROVE  Inv'
<1>1. UNCHANGED <<host, published, skip, tmp, plugin, config, agent, runs, fault, before, verified, torn>>
  BY DEF Passes, files, history
<1>2. \/ step = "checks" /\ step' = "home" /\ ReadyForPlugin
      \/ step = "version" /\ step' = "access" /\ SupportedAgent
      \/ step = "access" /\ step' = "download"
      \/ step = "dirs" /\ step' = "plugin"
      \/ step = "label" /\ step' = "validate"
      \/ step = "validate" /\ step' = "restart"
      \/ step = "active" /\ step' = "test"
  BY Follows DEF Passes, Advance
<1>3. TypeInv'
  BY <1>1, <1>2 DEF Inv, TypeInv, Stages, Fetched, Installing, Installed, Configured
<1>4. DownloadInv'
  <2>1. ~fault' => \A i \in DOMAIN tmp' : tmp'[i] = File(published', TRUE)
    BY <1>1 DEF Inv, DownloadInv
  <2>2. /\ step' \in {"checks", "home", "version", "access"} => tmp' = <<>>
        /\ step' = "download" => Len(tmp') < 3
    <3>1. step = "access" => tmp = <<>> /\ Len(<<>>) < 3
      BY DEF Inv, DownloadInv
    <3>2. step \in {"checks", "version"} => tmp = <<>>
      BY DEF Inv, DownloadInv
    <3> QED BY <1>1, <1>2, <3>1, <3>2
  <2>3. step' \in Fetched => Len(tmp') = 3
    <3>1. step' \in Fetched => step \in Fetched
      BY <1>2 DEF Fetched, Installing, Installed, Configured
    <3> QED BY <1>1, <3>1 DEF Inv, DownloadInv
  <2> QED BY <2>1, <2>2, <2>3 DEF DownloadInv
<1>5. ChecksInv'
  <2>1. ReadyForPlugin' = ReadyForPlugin /\ SupportedAgent' = SupportedAgent
        /\ ChecksumMatches' = ChecksumMatches
    BY <1>1 DEF ReadyForPlugin, SupportedAgent, ChecksumMatches
  <2> QED BY <1>1, <1>2, <2>1
          DEF Inv, ChecksInv, Stages, Fetched, Installing, Installed, Configured
<1>6. FilesInv'
  BY <1>1, <1>2 DEF Inv, FilesInv, Installed, Configured
<1>7. OnlyVerifiedPlugins' /\ ChecksComeFirst' /\ SuccessIsWhole' /\ RerunRepairs'
  BY <1>1, <1>2
     DEF Inv, OnlyVerifiedPlugins, ChecksComeFirst, SuccessIsWhole, RerunRepairs, files
<1> QED BY <1>3, <1>4, <1>5, <1>6, <1>7 DEF Inv

LEMMA HomeInv == ASSUME Inv, Home PROVE Inv'
<1>1. UNCHANGED <<published, skip, tmp, plugin, config, agent, runs, fault, before, verified, torn>>
  BY DEF Home, files, history
<1>2. step = "home" /\ step' = "version"
  BY Follows DEF Home, Advance
<1>3. /\ host' \in [major : Majors, version : AgentVersions, home : {"directory", "missing", "file"}]
      /\ host'.major = host.major
  BY DEF Home, Inv, TypeInv
<1>4. TypeInv' /\ DownloadInv'
  BY <1>1, <1>2, <1>3
     DEF Inv, TypeInv, DownloadInv, Stages, Fetched, Installing, Installed, Configured
<1>5. ChecksInv' /\ FilesInv'
  BY <1>1, <1>2, <1>3
     DEF Inv, ChecksInv, FilesInv, ReadyForPlugin, Stages, Fetched, Installing, Installed, Configured
<1>6. OnlyVerifiedPlugins' /\ ChecksComeFirst' /\ SuccessIsWhole' /\ RerunRepairs'
  BY <1>1, <1>2
     DEF Inv, OnlyVerifiedPlugins, ChecksComeFirst, SuccessIsWhole, RerunRepairs, files
<1> QED BY <1>4, <1>5, <1>6 DEF Inv

\* A file more: of the latest release and whole, unless something is broken.
LEMMA DownloadStepInv == ASSUME Inv, Download PROVE Inv'
<1>1. UNCHANGED <<host, published, skip, plugin, config, agent, runs, fault, before, verified, torn>>
  BY DEF Download, files, history
<1>2. PICK intact \in {TRUE, ~fault} : tmp' = Append(tmp, File(published, intact))
  BY DEF Download
<1>3. File(published, intact) \in Files
  BY DEF Inv, TypeInv, File, Files
<1>4. tmp \in Seq(Files)
  BY DEF Inv, TypeInv
<1>5. /\ tmp' \in Seq(Files) /\ Len(tmp') = Len(tmp) + 1
      /\ \A i \in 1 .. Len(tmp) : tmp'[i] = tmp[i]
      /\ tmp'[Len(tmp) + 1] = File(published, intact)
  BY <1>2, <1>3, <1>4, AppendProperties
<1>6. Len(tmp) \in Nat /\ Len(tmp) < 3 /\ step = "download"
  BY <1>4, LenProperties DEF Download, Inv, DownloadInv
<1>7. \/ Len(tmp') = 3 /\ step' = "verify"
      \/ Len(tmp') < 3 /\ step' = "download"
  <2>1. Len(Downloads) = 3
    BY DEF Downloads
  <2> QED BY <1>5, <1>6, <2>1 DEF Download
<1>8. TypeInv'
  BY <1>1, <1>5, <1>7 DEF Inv, TypeInv, Stages, Fetched
<1>9. DownloadInv'
  <2>1. ASSUME ~fault PROVE \A i \in DOMAIN tmp' : tmp'[i] = File(published, TRUE)
    <3>1. DOMAIN tmp = 1 .. Len(tmp) /\ DOMAIN tmp' = 1 .. Len(tmp')
      BY <1>4, <1>5, LenProperties
    <3>2. \A i \in 1 .. Len(tmp) : tmp[i] = File(published, TRUE)
      BY <2>1, <3>1 DEF Inv, DownloadInv
    <3>3. intact = TRUE
      BY <2>1
    <3>4. 1 .. Len(tmp') = (1 .. Len(tmp)) \cup {Len(tmp) + 1}
      BY <1>5, <1>6
    <3>5. tmp'[Len(tmp) + 1] = File(published, TRUE)
      BY <1>5, <3>3
    <3> QED BY <1>5, <3>1, <3>2, <3>4, <3>5
  <2>2. /\ step' \in {"checks", "home", "version", "access"} => tmp' = <<>>
        /\ step' = "download" => Len(tmp') < 3
        /\ step' \in Fetched => Len(tmp') = 3
    BY <1>7 DEF Fetched, Installing, Installed, Configured
  <2> QED BY <1>1, <2>1, <2>2 DEF DownloadInv
<1>10. ChecksInv' /\ FilesInv'
  <2>1. ReadyForPlugin' = ReadyForPlugin /\ SupportedAgent' = SupportedAgent
    BY <1>1 DEF ReadyForPlugin, SupportedAgent
  <2> QED BY <1>1, <1>6, <1>7, <2>1
          DEF Inv, ChecksInv, FilesInv, Stages, Fetched, Installing, Installed, Configured
<1>11. OnlyVerifiedPlugins' /\ ChecksComeFirst' /\ SuccessIsWhole' /\ RerunRepairs'
  BY <1>1, <1>6, <1>7
     DEF Inv, OnlyVerifiedPlugins, ChecksComeFirst, SuccessIsWhole, RerunRepairs, files
<1> QED BY <1>8, <1>9, <1>10, <1>11 DEF Inv

LEMMA VerifyInv == ASSUME Inv, Verify PROVE Inv'
<1>1. UNCHANGED <<host, published, skip, tmp, plugin, config, agent, runs, fault, before, torn>>
      /\ verified' = TRUE
  BY DEF Verify, files, history
<1>2. step = "verify" /\ step' = "dirs" /\ ChecksumMatches
  BY Follows DEF Verify, Advance
<1>3. TypeInv' /\ DownloadInv'
  BY <1>1, <1>2 DEF Inv, TypeInv, DownloadInv, Stages, Fetched, Installing, Installed, Configured
<1>4. ChecksInv'
  <2>1. ReadyForPlugin' = ReadyForPlugin /\ SupportedAgent' = SupportedAgent
        /\ ChecksumMatches' = ChecksumMatches
    BY <1>1 DEF ReadyForPlugin, SupportedAgent, ChecksumMatches
  <2> QED BY <1>1, <1>2, <2>1
          DEF Inv, ChecksInv, Stages, Fetched, Installing, Installed, Configured
<1>5. FilesInv'
  BY <1>1, <1>2 DEF Inv, FilesInv, Installed, Configured
<1>6. OnlyVerifiedPlugins' /\ ChecksComeFirst' /\ SuccessIsWhole' /\ RerunRepairs'
  BY <1>1, <1>2
     DEF Inv, OnlyVerifiedPlugins, ChecksComeFirst, SuccessIsWhole, RerunRepairs, files
<1> QED BY <1>3, <1>4, <1>5, <1>6 DEF Inv

\* Either installation: the file has been removed, or is the one that came
\* with a checksum that was compared before.
LEMMA InstallInv ==
  ASSUME Inv, InstallPlugin \/ InstallConfig
  PROVE  Inv'
<1>1. UNCHANGED <<host, published, skip, tmp, agent, runs, fault, before, verified>>
      /\ torn' \in {torn, FALSE}
  BY DEF InstallPlugin, InstallConfig, history
<1>2. \/ step = "plugin" /\ step' = "copyPlugin" /\ plugin' = Partial /\ config' = config
      \/ step = "copyPlugin" /\ step' = "config" /\ plugin' = tmp[1] /\ config' = config
      \/ /\ step = "config" /\ step' = "copyConfig" /\ config' = Partial
         /\ plugin' = plugin /\ torn' = torn
      \/ /\ step = "copyConfig" /\ step' = "label" /\ config' = tmp[3]
         /\ plugin' = plugin /\ torn' = torn
  BY Follows DEF InstallPlugin, InstallConfig, Advance, history
<1>3. TypeInv' /\ DownloadInv'
  BY <1>1, <1>2 DEF Inv, TypeInv, DownloadInv, Stages, Fetched, Installing, Installed, Configured
<1>4. ChecksInv'
  <2>1. ReadyForPlugin' = ReadyForPlugin /\ SupportedAgent' = SupportedAgent
        /\ ChecksumMatches' = ChecksumMatches
    BY <1>1 DEF ReadyForPlugin, SupportedAgent, ChecksumMatches
  <2> QED BY <1>1, <1>2, <2>1
          DEF Inv, ChecksInv, Stages, Fetched, Installing, Installed, Configured
<1>5. FilesInv'
  BY <1>1, <1>2 DEF Inv, FilesInv, Installed, Configured
<1>6. OnlyVerifiedPlugins' /\ verified
  <2>1. ChecksumMatches /\ verified /\ Len(tmp) = 3
    BY <1>2 DEF Inv, ChecksInv, DownloadInv, Fetched, Installing, Installed, Configured
  <2>2. tmp[1] \in Files
    <3>1. tmp \in Seq(Files)
      BY DEF Inv, TypeInv
    <3> QED BY <2>1, <3>1
  <2>3. tmp[1].intact
    BY <2>1, Zenon DEF ChecksumMatches
  <2>4. OnlyVerifiedPlugins
    BY DEF Inv
  <2>5. \/ plugin' = Partial /\ step' = "copyPlugin"
        \/ plugin' = tmp[1]
        \/ plugin' = plugin /\ torn' = torn /\ step # "copyPlugin"
    BY <1>2
  <2> QED BY <2>1, <2>2, <2>3, <2>4, <2>5, Zenon DEF OnlyVerifiedPlugins
<1>7. ChecksComeFirst' /\ SuccessIsWhole' /\ RerunRepairs'
  BY <1>1, <1>2, <1>6 DEF ChecksComeFirst, SuccessIsWhole, RerunRepairs
<1> QED BY <1>3, <1>4, <1>5, <1>6, <1>7 DEF Inv

LEMMA RestartInv == ASSUME Inv, Restart PROVE Inv'
<1>1. UNCHANGED <<host, published, skip, tmp, plugin, config, runs, fault, before, verified, torn>>
  BY DEF Restart, files, history
<1>2. step = "restart" /\ step' = "active" /\ (skip \/ agent' = <<plugin, config>>)
  BY Follows DEF Restart, Advance, AgentStarts
<1>3. TypeInv' /\ DownloadInv'
  BY <1>1, <1>2 DEF Inv, TypeInv, DownloadInv, Stages, Fetched, Installing, Installed, Configured
<1>4. ChecksInv'
  <2>1. ReadyForPlugin' = ReadyForPlugin /\ SupportedAgent' = SupportedAgent
        /\ ChecksumMatches' = ChecksumMatches
    BY <1>1 DEF ReadyForPlugin, SupportedAgent, ChecksumMatches
  <2> QED BY <1>1, <1>2, <2>1
          DEF Inv, ChecksInv, Stages, Fetched, Installing, Installed, Configured
<1>5. FilesInv'
  BY <1>1, <1>2 DEF Inv, FilesInv, Installed, Configured
<1>6. OnlyVerifiedPlugins' /\ ChecksComeFirst' /\ SuccessIsWhole' /\ RerunRepairs'
  BY <1>1, <1>2
     DEF Inv, OnlyVerifiedPlugins, ChecksComeFirst, SuccessIsWhole, RerunRepairs, files
<1> QED BY <1>3, <1>4, <1>5, <1>6 DEF Inv

LEMMA SucceedInv == ASSUME Inv, Succeed PROVE Inv'
<1>1. /\ UNCHANGED <<host, published, skip, plugin, config, agent, runs, fault, before,
                      verified>>
      /\ torn' = (torn \/ step = "copyPlugin")
      /\ step' = "ok" /\ tmp' = <<>>
  BY DEF Succeed, Quits, files
<1>2. step = "test" /\ config # Absent /\ Usable(plugin, config)
  BY DEF Succeed, CompleteCollection
<1>3. ReadyForPlugin' /\ SupportedAgent'
  BY <1>1, <1>2
     DEF Inv, ChecksInv, ReadyForPlugin, SupportedAgent, Stages, Fetched, Installing, Installed,
         Configured
<1>4. TypeInv'
  <2>1. tmp' \in Seq(Files)
    BY <1>1
  <2>2. torn' = torn
    BY <1>1, <1>2 DEF Inv, TypeInv
  <2> QED BY <1>1, <2>1, <2>2 DEF Inv, TypeInv, Ended
<1>5. DownloadInv'
  BY <1>1 DEF DownloadInv, Fetched, Installing, Installed, Configured
<1>6. ChecksInv' /\ FilesInv'
  BY <1>1, <1>3 DEF ChecksInv, FilesInv, Stages, Fetched, Installing, Installed, Configured
<1>7. SuccessIsWhole'
  <2>1. host'.major >= 8
    BY <1>3 DEF ReadyForPlugin
  <2>2. /\ plugin \in Files /\ config \in Files
        /\ <<plugin.version, config.version>> \in Works
    BY <1>2 DEF Usable
  <2>3. skip \/ agent \in {Down, <<plugin, config>>}
    BY <1>2 DEF Inv, FilesInv
  <2> QED BY <1>1, <1>3, <2>1, <2>2, <2>3 DEF SuccessIsWhole
<1>8. OnlyVerifiedPlugins' /\ ChecksComeFirst' /\ RerunRepairs'
  BY <1>1, <1>2 DEF Inv, OnlyVerifiedPlugins, ChecksComeFirst, RerunRepairs, files
<1> QED BY <1>4, <1>5, <1>6, <1>7, <1>8 DEF Inv

LEMMA StutterInv == ASSUME Inv, UNCHANGED vars PROVE Inv'
<1> USE DEF vars, files, history
<1>1. TypeInv' /\ DownloadInv' /\ FilesInv'
  <2>1. TypeInv'
    BY DEF Inv, TypeInv
  <2>2. DownloadInv' /\ FilesInv'
    BY DEF Inv, DownloadInv, FilesInv
  <2> QED BY <2>1, <2>2
<1>2. ChecksInv' /\ RerunRepairs' /\ SuccessIsWhole'
  BY DEF Inv, ChecksInv, ChecksumMatches, ReadyForPlugin, SupportedAgent, RerunRepairs,
         SuccessIsWhole
<1>3. OnlyVerifiedPlugins' /\ ChecksComeFirst'
  BY DEF Inv, OnlyVerifiedPlugins, ChecksComeFirst
<1> QED BY <1>1, <1>2, <1>3 DEF Inv

LEMMA NextInv == ASSUME Inv, [Next]_vars PROVE Inv'
<1>1. CASE Publish
  BY <1>1, PublishInv
<1>2. CASE Breaks \/ SystemStartsAgent \/ AgentGivesUp
  BY <1>2, AroundInv
<1>3. CASE Run
  BY <1>3, RunInv
<1>4. CASE StepFails
  BY <1>4, QuitsInv DEF StepFails
<1>5. CASE Killed
  BY <1>5, QuitsInv DEF Killed
<1>6. CASE ScriptStep
  BY <1>6, PassesInv, RequiresInv, HomeInv, DownloadStepInv, VerifyInv, InstallInv, RestartInv,
     SucceedInv
     DEF ScriptStep
<1>7. CASE UNCHANGED vars
  BY <1>7, StutterInv
<1> QED BY <1>1, <1>2, <1>3, <1>4, <1>5, <1>6, <1>7 DEF Next

-----------------------------------------------------------------------------
\* The stages of install.sh keep what each of them relies on.
THEOREM Invariance == Spec => []Inv
BY InitInv, NextInv, PTL DEF Spec

\* install.sh compares the checksum before it removes the old plugin: the file
\* is absent, or one that has arrived as it was published, or a part of one that
\* is being copied or whose copy a run did not survive.
THEOREM PluginIsVerified == Spec => []OnlyVerifiedPlugins
BY Invariance, PTL DEF Inv

\* Whatever install.sh meets before the checksum, the installed files are
\* those that this run has found.
THEOREM NothingTouchedBefore == Spec => []ChecksComeFirst
BY Invariance, PTL DEF Inv

\* When install.sh reports success, the files work together, on a host they
\* are for, and an agent that runs was started with them.
THEOREM SuccessHolds == Spec => []SuccessIsWhole
BY Invariance, PTL DEF Inv

\* However many runs have failed or were killed, wherever: the next run of
\* install.sh fails only for a cause of its own time.
THEOREM RunsAgain == Spec => []RerunRepairs
BY Invariance, PTL DEF Inv
=============================================================================
