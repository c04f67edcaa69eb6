---------------------------- MODULE RebootCheck ----------------------------
(***************************************************************************)
(* RebootChecker.Pending of internal/dnf/reboot.go and reboot_kernel.go on *)
(* a host that installs and removes packages and boots.                    *)
(*                                                                         *)
(* The check reads the boot time and the install times of the packages     *)
(* that need a reboot; when none is newer than the boot it reads the       *)
(* release of the running kernel and then the installed kernel packages.   *)
(* Times are whole seconds, a release is one of module KernelRelease.      *)
(***************************************************************************)
EXTENDS KernelRelease

CONSTANTS Sensitive,        \* the packages of isRebootSensitivePackage
          KernelPackages,   \* the packages kernel* there are
          Suffix,           \* what uname adds to a release, by package name
          Releases,         \* the releases that are compared with each other
          MaxTime           \* bound: the last second

ASSUME RebootAssumption ==
  /\ KernelPackages \subseteq [name : STRING, release : Seq(Nat)]
  /\ Sensitive \cap KernelPackages = {}
  /\ \A k \in KernelPackages : Suffix[k.name] \in Seq(Nat)
  /\ Releases \subseteq Seq(Nat)
  /\ MaxTime \in Nat

\* What uname adds to a release is in the release of no package.
ASSUME SuffixAssumption ==
  \A k, p \in KernelPackages : Suffix[k.name] # <<>> => p.release # k.release \o Suffix[k.name]

VARIABLES
  now,          \* the clock
  boot,         \* btime of /proc/stat
  running,      \* the release of the package of the running kernel
  uname,        \* what the running kernel says is its release
  flavor,       \* the names of the packages of its flavor
  kernels,      \* the installed kernel packages
  installedAt,  \* per sensitive package: when it was installed last
  dirty,        \* the sensitive packages installed since the boot
  stage,        \* the check: idle, boot, packages, uname, kernels, done
  bootRead,     \* the boot time it has read
  release,      \* the running release it has read
  answer,       \* none, pending, clear or error
  reasons,      \* the reasons for a reboot at any moment of the check
  lasting,      \* the reasons at every moment of the check
  present,      \* the names whose package of the running kernel's release stayed
  foreign       \* those of other flavors that had it at any moment

hostVars  == <<now, boot, running, uname, flavor, kernels, installedAt, dirty>>
checkVars == <<stage, bootRead, release, answer>>
seenVars  == <<reasons, lasting, present, foreign>>
vars == <<hostVars, checkVars, seenVars>>

\* The packages that are one kernel have one release.
Flavors == {{"kernel", "kernel-core"}, {"kernel-rt", "kernel-rt-core"}, {"kernel-debug-core"}}

\* isKernelPackage: the others, like kernel-tools, are not booted.
IsKernel(k) == k.name \in UNION Flavors

Kernels(installed) == {k \in installed : IsKernel(k)}

NamesOf(r, installed) == {k.name : k \in {p \in Kernels(installed) : p.release = r}}

\* The order of the releases there are, as pairs.
Later == LET releases == {k.release : k \in KernelPackages}
         IN {p \in releases \X releases : Reference(p[1], p[2]) = "greater"}

\* Why this host should be rebooted: what was installed since it was booted,
\* and newer kernels of the flavor that runs.
Reasons ==
  dirty \cup {k \in kernels : k.name \in flavor /\ <<k.release, running>> \in Later}

\* The names of other flavors that an installed package of the running release has.
Foreign == NamesOf(uname, kernels) \ flavor

-----------------------------------------------------------------------------
Init == /\ now = 0 /\ boot = 0
        /\ kernels \in SUBSET KernelPackages
        /\ flavor \in Flavors
        /\ \E k \in Kernels(kernels) :
             k.name \in flavor /\ running = k.release /\ uname = k.release \o Suffix[k.name]
        /\ installedAt = [p \in Sensitive |-> 0]
        /\ dirty = {}
        /\ stage = "idle" /\ bootRead = 0 /\ release = <<>> /\ answer = "none"
        /\ reasons = {} /\ lasting = {} /\ present = {} /\ foreign = {}

\* A check that is under way sees the host change.
Observe == IF stage \in {"idle", "done"}
             THEN UNCHANGED seenVars
             ELSE /\ reasons' = reasons \cup Reasons'
                  /\ lasting' = lasting \cap Reasons'
                  /\ present' = present \cap NamesOf(running, kernels')
                  /\ foreign' = foreign \cup Foreign'

Tick == /\ now < MaxTime
        /\ now' = now + 1
        /\ UNCHANGED <<boot, running, uname, flavor, kernels, installedAt, dirty, checkVars,
                       seenVars>>

\* A booted host takes a second, at least, until it can install anything.
Install(p) == /\ now > boot
              /\ installedAt' = [installedAt EXCEPT ![p] = now]
              /\ dirty' = dirty \cup {p}
              /\ UNCHANGED <<now, boot, running, uname, flavor, kernels, checkVars>>
              /\ Observe

InstallKernel(k) == /\ now > boot /\ k \notin kernels
                    /\ kernels' = kernels \cup {k}
                    /\ UNCHANGED <<now, boot, running, uname, flavor, installedAt, dirty,
                                   checkVars>>
                    /\ Observe

RemoveKernel(k) == /\ now > boot /\ k \in kernels
                   /\ kernels' = kernels \ {k}
                   /\ UNCHANGED <<now, boot, running, uname, flavor, installedAt, dirty,
                                  checkVars>>
                   /\ Observe

\* The host boots any kernel it has, in this second or the next; the check
\* ends with the process.
Reboot == /\ now > boot
          /\ now' \in {now, now + 1} /\ now' <= MaxTime
          /\ boot' = now'
          /\ flavor' \in Flavors
          /\ \E k \in Kernels(kernels) :
               k.name \in flavor' /\ running' = k.release /\ uname' = k.release \o Suffix[k.name]
          /\ dirty' = {}
          /\ stage' = "idle" /\ bootRead' = 0 /\ release' = <<>> /\ answer' = "none"
          /\ reasons' = {} /\ lasting' = {} /\ present' = {} /\ foreign' = {}
          /\ UNCHANGED <<kernels, installedAt>>

-----------------------------------------------------------------------------
(***************************************************************************)
(* The check.                                                              *)
(***************************************************************************)
Begin == /\ stage \in {"idle", "done"}
         /\ stage' = "boot"
         /\ bootRead' = 0 /\ release' = <<>> /\ answer' = "none"
         /\ reasons' = Reasons /\ lasting' = Reasons
         /\ present' = NamesOf(running, kernels) /\ foreign' = Foreign
         /\ UNCHANGED hostVars

Answer(a) == stage' = "done" /\ answer' = a

\* Bug: a boot time that cannot be read is -1.
ReadBootTimeAnyway == /\ stage = "boot"
                      /\ bootRead' \in {boot, -1}
                      /\ stage' = "packages"
                      /\ UNCHANGED <<hostVars, release, answer, seenVars>>

ReadBootTime == /\ stage = "boot"
                /\ bootRead' = boot
                /\ stage' = "packages"
                /\ UNCHANGED <<hostVars, release, answer, seenVars>>

\* Bug: the second of the boot counts as after the boot.
NewerThanBootInclusive(time) == time >= bootRead

NewerThanBoot(time) == time > bootRead

SensitiveInstalled == \E p \in Sensitive : NewerThanBoot(installedAt[p])

\* Bug: the kernels are not looked at.
ReadPackagesOnly == /\ stage = "packages"
                    /\ Answer(IF SensitiveInstalled THEN "pending" ELSE "clear")
                    /\ UNCHANGED <<hostVars, bootRead, release, seenVars>>

ReadPackages == /\ stage = "packages"
                /\ IF SensitiveInstalled
                     THEN Answer("pending")
                     ELSE stage' = "uname" /\ UNCHANGED answer
                /\ UNCHANGED <<hostVars, bootRead, release, seenVars>>

ReadRunning == /\ stage = "uname"
               /\ release' = uname
               /\ stage' = "kernels"
               /\ UNCHANGED <<hostVars, bootRead, answer, seenVars>>

Newer(k) == compareKernelRelease(k.release, release) = "greater"

\* Bug: a newer kernel of any flavor counts.
NewerInstalledAnyFlavor == \E k \in Kernels(kernels) : Newer(k)

\* newerKernelInstalled: the flavor is that of the installed packages with
\* the running release; when there is none, nothing is newer.
NewerInstalled ==
  \E k \in Kernels(kernels) : k.name \in NamesOf(release, kernels) /\ Newer(k)

ReadKernels == /\ stage = "kernels"
               /\ Answer(IF NewerInstalled THEN "pending" ELSE "clear")
               /\ UNCHANGED <<hostVars, bootRead, release, seenVars>>

\* A file, a command or a parser fails.
Fails == /\ stage \in {"boot", "packages", "uname", "kernels"}
         /\ Answer("error")
         /\ UNCHANGED <<hostVars, bootRead, release, seenVars>>

Next == \/ Tick \/ Reboot
        \/ \E p \in Sensitive : Install(p)
        \/ \E k \in KernelPackages : InstallKernel(k) \/ RemoveKernel(k)
        \/ Begin \/ ReadBootTime \/ ReadPackages \/ ReadRunning \/ ReadKernels
        \/ Fails

Spec == Init /\ [][Next]_vars

-----------------------------------------------------------------------------
\* The comparison is the lexicographic order of the segments, which makes it
\* a total preorder: equal exactly for the same segments, with leading zeros
\* and separators ignored, and one segment more is newer
\* (TestCompareKernelRelease).  It is looked at once: before the host does
\* anything, with one of the kernels.
ComparesSegments ==
  now = 0 /\ stage = "idle" /\ kernels = {CHOOSE k \in KernelPackages : IsKernel(k)} =>
    \A a, b \in Releases : compareKernelRelease(a, b) = Reference(a, b)

\* The types of the variables.
TypeOK ==
  /\ now \in 0..MaxTime /\ boot \in 0..now
  /\ kernels \subseteq KernelPackages
  /\ running \in {k.release : k \in KernelPackages}
  /\ flavor \in Flavors
  /\ installedAt \in [Sensitive -> 0..now] /\ dirty \subseteq Sensitive
  /\ stage \in {"idle", "boot", "packages", "uname", "kernels", "done"}
  /\ bootRead \in Nat /\ release \in Seq(Nat)
  /\ answer \in {"none", "pending", "clear", "error"}
  /\ reasons \subseteq Sensitive \cup KernelPackages /\ lasting \subseteq reasons
  /\ present \cup foreign \subseteq UNION Flavors

\* A pending reboot is never reported without a reason: at some moment of the
\* check something installed since the boot, or a newer kernel of the flavor
\* that runs, was there.  In particular a reboot clears the report, even one
\* in the second of the last installation, and a newer kernel of another
\* flavor is ignored (reboot_test.go:495), unless packages of that flavor are
\* installed that have the very release of the running kernel.  And kernels
\* are never the reason on a host whose uname is not the release of a package:
\* a newer debug kernel is not reported, as reboot_test.go:481 would have it.
PendingIsReal ==
  answer = "pending" =>
    \/ reasons \cap Sensitive # {}
    \/ uname = running /\ (reasons # {} \/ foreign # {})

\* A package installed since the boot that was there from the beginning of a
\* check to its end is never missed, in whatever way the host changes between
\* the commands.  A newer kernel is, in two cases: uname adds a suffix to the
\* release of the package that runs, as it does for a debug kernel, even if that
\* package stays installed; or the package of the running release that has the
\* newer one's name did not stay installed.
LastingIsPending ==
  answer = "clear" =>
    \A reason \in lasting :
      /\ reason \notin Sensitive
      /\ uname = running => reason.name \notin present

\* "Indicates whether installed reboot-sensitive packages or a newer
\* installed kernel require the host to be rebooted" (README.md:123).
NewerKernelIsPending == answer = "clear" => lasting = {}
=============================================================================
