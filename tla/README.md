# A verification development of zabbix-dnf-plugin

TLA+ modules that model the Zabbix DNF plugin (`cmd/agent`, `internal/`), TLC
configurations that check them on small instances, and TLAPS proofs of the
main results for every value of the constants. Paths such as `plugin.go:149`
are relative to the file's directory in the repository; all are spelled out in
`PROJECT.json`.

## 1. The system

The plugin is a process that Zabbix Agent 2 starts and talks to through the
agent's SDK. On a `dnf.get` request it runs a series of `dnf`, `rpm` and
`uname` commands and answers with one JSON document.

| Part | Code | State | Operations |
|---|---|---|---|
| Plugin object | `cmd/agent/plugin.go` | `lifecycleMu`, `stop`, `stopping`, `exports`, `timeout` | `Configure`, `Start`, `Stop`, `Export` |
| Process | `cmd/agent/main.go` | the signal context, the SDK's handler, the result channel | `runAgent`, `executeAgentHandler` |
| Test mode | `cmd/agent/main.go` | a context with a deadline and the signals, stdout | `main`, `run`, `runCollection`, `collectAndWrite` |
| Command runner | `internal/command` | per Run: process, pipes, two capped buffers, context | `Run`, `cappedBuffer.Write`, `mergeEnv`, the Cancel function |
| Collection, updates | `plugin.go` `collect`, `internal/dnf/updates.go`, `repositories.go`, the parsers | the answers read so far | four update queries, the repository list |
| History | `internal/dnf/history*.go` | the row being inspected | `LastUpdate` |
| Reboot detection | `internal/dnf/reboot*.go` | none | `RebootPending` |
| Payload | `internal/results` | none | `Build` |
| Log handler | `internal/logging` | slices of attributes and groups | `Handle`, `WithAttrs`, `WithGroup` |
| Installer | `install.sh` | the downloaded files, the installed files, the agent | the steps of the script |
| Template, CI, development environment | the YAML files, `.dev`, `.github` | | |

How they interact. The SDK calls the methods of the plugin from goroutines of
its own, several `Export` calls at once. `Export` registers itself under
`lifecycleMu`, makes a context with a deadline and a goroutine that cancels it
when the stop channel closes, and calls `collect`. `collect` asks its questions
one after the other; each is one `command.Runner.Run` under that context.
`Stop` closes the channel and waits for all exports; it is called by the SDK,
by the signal path and by a `defer`. Beside all of this the host goes on: DNF
refreshes its metadata, repositories are switched, transactions are run. With
`--test` the program makes one collection without an agent and writes it to
stdout. What a collection logs goes through the log handler to the agent, from
several goroutines and through handlers derived from one another. The installer
puts the plugin under an agent that may be running it.

What is hard: the order of `Export` and `Stop` (admission, a wait group raised
while somebody waits, a channel that must be one and be closed once); contexts
that end while commands run; commands that fork, hang, hold pipes open or write
too much; a host that changes between two commands of one collection; outputs that
cannot be read to their end; slices that share memory; an installation that is
interrupted. The list of hazards, each at its line and with the properties that watch it, is in
`PROJECT.json`.

What makes each part correct:

* **Plugin object**: nothing runs after `Stop`; `Stop` always comes back; nothing panics; every export has a live, bounded context.
* **Process**: it ends when it should, and never under a running collection.
* **Test mode**: its exit status can be believed (success means the whole payload, an error that it is not there); it ends by a signal or its deadline, and SIGINT and SIGTERM leave no command behind.
* **Command runner**: success means all of the output; a cancelled command is reported as such; `Run` comes back.
* **Collection and payload**: all or nothing; counts that add up; exact for what did not change.
* **History**: the newest *completed* upgrade, whatever DNF does meanwhile.
* **Reboot detection**: true from the installation of something that needs a reboot until the reboot, for newer kernels as far as the code can tell the one that runs; a total order of kernel releases.
* **Log handler**: a record carries what was attached to its handler and nothing else.
* **Installer**: only a verified plugin is installed, success means an installation that works, and it can be run again after any failure.

## 2. Modules

| Module | Models | Checked by | Proofs |
|---|---|---|---|
| `ExportGate` | abstract: what the plugin promises about `Export` and `Stop` | refined by `PluginLifecycle` | |
| `PluginLifecycle` | `plugin.go` | `MCPluginLifecycle` | `PluginProofs` |
| `RunContract` | abstract: what `Run` promises its callers | refined by `CommandRunner` | |
| `CommandRunner` | `runner.go`, `runner_linux.go` and the part of os/exec they rely on | `MCCommandRunner` | `CommandRunnerProofs` |
| `Environment` | `mergeEnv` | `MCCommandRunner` | `CommandRunnerProofs` |
| `ExportRun` | the plugin with its collections as calls of `RunContract` (EXTENDS `PluginLifecycle`) | `MCExportRun`; refines `PluginLifecycle` | `PluginProofs` |
| `AgentProcess` | `runAgent`, `executeAgentHandler` around the plugin (EXTENDS `PluginLifecycle`) | `MCMain` | `PluginProofs` |
| `Main` | `main`, `run` and the test mode (EXTENDS `AgentProcess`, uses `RunContract`) | `MCMain` | `PluginProofs` |
| `DnfOutput` | `repository_parser.go`, `update_parser.go` | `MCCollector` | `CollectorProofs` |
| `Collector` | `collect`, `updates.go`, `results.Build` (EXTENDS `DnfOutput`) | `MCCollector` | `CollectorProofs` |
| `LastUpdateScan` | `history*.go` | `MCLastUpdateScan` | `LastUpdateScanProofs` |
| `KernelRelease` | `compareKernelRelease` | `MCRebootCheck` | `RebootCheckProofs` |
| `RebootCheck` | `reboot.go`, `newerKernelInstalled` (EXTENDS `KernelRelease`) | `MCRebootCheck` | `RebootCheckProofs` |
| `LogHandler` | `zabbix.go` | `MCLogHandler` | `LogHandlerProofs` |
| `Installer` | `install.sh` | `MCInstaller` | `InstallerProofs` |

`Induction` models nothing: it holds the lemmas on induction and recursion over
numbers that `LogHandlerProofs`, `CommandRunnerProofs` and `RebootCheckProofs`
rest on.

In the modules, an operator under a comment that begins with `Bug:` is a
plausible wrong version of the definition that follows it. Nothing in the
specification uses it: put in the place of the original, it makes the property
that `PROJECT.json` pairs it with fail, which shows that the property has
something to say about the code.

### PluginLifecycle

Every call of `Export`, `Stop`, `Start` and `Configure` is an element of a
constant set, and `pc` says where its goroutine is. A critical section is one
step that ends with the unlock: `stopping`, `stop` and `timeout` are only ever
touched under `lifecycleMu`, so nothing can be seen in between. The steps
outside are separate: `exports.Wait`, making the context and its goroutine, the
collection, the encoding, and in `finish` first `cancel`, then `exports.Done`.
A channel is a number, so that two of them, or one closed twice, can be told
apart. `wg` is the counter of the wait group, not a set of members. The
watching goroutine of an export takes either branch of its `select` when both
are ready. A collection is one step that needs its context active to succeed
and may fail at any time; `ExportRun` shows it as a sequence of commands, and
`Collector` what it computes.

The abstract specification `ExportGate` is a gate with the phases open,
draining and closed: exports enter while it is open, each leaves with an
answer, and it is closed only when nobody is inside. The refinement mapping
takes `stopping` and the returned `Stop` calls to the phase and the exports
between `Add` and `Done` to those inside.

### RunContract and ExportRun

`RunContract` is what a caller of `Run` may count on, without processes and
pipes: a call is ready, running or returned, its command is alive or dead, and
it has an outcome. It does not return before its command is gone; the error of
a context that is done comes before every other; and it comes back once the
context is done or the command has ended (`Prompt`). Its steps are operators
that give the records a call may become, so that the same steps serve several
callers.

`ExportRun` puts such calls into the collection of `PluginLifecycle`, one after
the other under the export's context, up to `MaxCommands`. Each error ends the
collection, as does the last answer. `ImplementsPlugin` says that the result is
the plugin with its one-step collection, with the fairness that
`PluginLifecycle` assumes for it: "a collection whose context is done returns"
follows there from the promptness of `Run`, which `CommandRunner` shows.

### AgentProcess and Main

`AgentProcess` adds `runAgent`: setup, the `select` of `executeAgentHandler`,
shutdown, the deferred `Stop`, the exit, after which nothing moves. The SDK's
handler makes the plugin's calls while it runs, may call `Stop` itself, and may
return at any time without waiting for its calls (its source is not in the
repository, so nothing better is assumed).

`Main` adds the way into it and the other one: the arguments, the exit status,
and the test mode with its context (done by a signal or after
`collectionTimeout`), its calls of `RunContract` and the writing of the payload,
of which the reader of stdout may take a part, or which may fail. What the mode
returns (`verdict`) and how the process ends (`status`) are two variables: the
deferred calls, the stop of the signals among them, and the return to `main` are
between the two, for the agent as for the test. SIGINT and SIGTERM are caught in
between `signal.NotifyContext` and its stop; before and after they terminate the
process (`Terminated`), the second with whatever the test has written. Signals
that the program does not ask for end it at any point (`Killed`), and may leave a
command of the test behind.

### CommandRunner

One `Run`. The command (`leader`) may fork a descendant that stays in its
process group and one that leaves it; all may write, close their output, exit
or hang. The pipes hold up to `Capacity`; two goroutines copy them, in chunks
of any size, into the capped buffers. What os/exec does for `CommandContext`
with a `Cancel` function and a `WaitDelay` is modelled from what the code uses:
start, the goroutine that watches the context, reaping, their handshake, and
the bounded wait for the pipes. `Verdict` is the order of the checks at
`runner.go:80-112`. Bytes are counted, their content is not modelled.
`ImplementsContract` shows it to be a `RunContract`; a descendant does not count
as the command there, and section 5 says what becomes of it.

`Environment` is `mergeEnv` on entries that are a key and a value, or malformed:
the loop over the entries is a recursive function, and the entries, the
environments and the overrides there are, are constants. `MergedRight` says
what a child finds in the result, and `CommandRunner` asks it of every
environment that a run may start in (`EnvironmentIsMerged`).

### Collector

A host is a record of what the commands would answer now, and may be replaced
by another between any two commands. The questions are asked in the order of
`collect`; each may fail, and then nothing is published. `Mark` is
`markUpdateType` with its key, `Inconsistent` the validation of `Build`, and
`payload` what is published.

The outputs go through `DnfOutput`, where a line is the sequence of its fields.
What DNF may print is in `Collector`: its table or list, with or without the
status column, with blank lines, with notices of its plugins, with a line that
is longer than a `bufio.Scanner` takes, with no known header, or nothing. It is
assumed that DNF prints its notices before the header of a repolist: after it,
a line of two words would be a repository for the code, too; and that the row of
no repository reads like a header (`RowsAssumption`). DNF prints its rows in any
order, and a parser's result is a function from the numbers of the lines to the
rows it took from them, so that a repository that were listed twice would be
counted twice in the payload.

### LastUpdateScan

The history is a sequence of transactions, of which DNF runs at most one at a
time and may complete it or die in it. The search chooses a format by the
version, reads the list once, and inspects rows from the newest on, each by a
command that sees the history as it is *then*. `Reading` is what the parsers
make of one transaction. A transaction has a command line, which is a part of
its row: in DNF4's list a `|` in it moves the column that `ListedUpgrade` takes
for the actions, and one that is too long makes a text list unreadable from
there on. `moments` collects what the newest completed upgrade was since the
list was read.

### RebootCheck

The host has a clock of whole seconds, installs packages that need a reboot,
installs and removes kernels, and boots one of those it has. A check reads the
boot time, the packages, the running release and the kernels, each by a step of
its own that sees the host as it is then, and answers; `Fails` is any error. A
kernel release is a sequence of ASCII codes, compared by `KernelRelease`, and
`uname` may add a suffix to it, as the debug kernels do. `dirty` and
`flavor` are what the code cannot see: what was installed since the boot, and
the names of the packages the running kernel came from (a kernel is several
packages with one release); so is `running`, the release of those packages,
where it is not what `uname` prints. `reasons` and `lasting` collect what was
true at some moment, and at every moment, of the check; `present` the names
whose package of the release `running` stayed installed; `foreign` the names of
other flavors that had the release that `uname` prints at some moment, which the
code takes for the flavor that runs. It is assumed that a host installs nothing in the second
in which it boots, though it may boot in the second of its last installation;
that no package is both a sensitive and a kernel package (the code tells them
apart by name); and that what `uname` adds to a release is in the release of no
package (`SuffixAssumption`).

### KernelRelease

`compareKernelRelease` and its helpers on sequences of ASCII codes. A round of
the loop takes a part off both releases or decides, and `compareKernelRelease`
is as many rounds as can be needed; the verdict "equal" is that of a loop that
has not decided. The reference shares none of that: a release is read one
character at a time into a sequence of segments, each a kind with a number or a
word, in lexicographic order. `ComparesSegments` in `RebootCheck` compares the two
for all pairs of a set of releases.

### LogHandler

A handler is a Go slice of operations, and slices share arrays: the heap is
modelled, an array is a sequence of cells, and `append` writes in place when the
array has room and else allocates, with room to spare or not. `WithAttrs` and
`WithGroup` derive handlers from any handler there is; the caller has a slice of
`MaxAttrs` attributes, passes it in whole or in part, and writes to it, in any
order. `built` is the history of each handler in values, which its memory must
agree with: the operations, the groups that are open, and the fields that were
attached, each under the groups that were open then. `Handle` is the replay of
the operations, the dropping of the built-in fields at the top, and the level.

### Installer

The script as a sequence of stages, each of which passes or ends the run, under
`set -e`; `Following` says what a stage that has passed leads to. It may be killed at any stage; something outside it may break
(`Breaks`), after which any stage may fail and a download may be damaged; a
release may be published between two downloads; systemd may start the agent at
any time, and an agent with files that do not work together ends. `install`
removes a file before it writes the new one, so a killed run leaves it in part;
`torn` is the history of that for the plugin. Which plugin works with which
configuration is a constant. A configuration that has arrived damaged counts as
one of its version, as nothing in the script looks at it but the agent.

## 3. What the runs show

| Run | Shows | Instance |
|---|---|---|
| `plugin_safety` | the safety of the plugin, and that it implements `ExportGate` | two exports, two Stops, Start, Configure, timeouts -1, 0 and 5 |
| `export_run` | the plugin with its commands is the plugin; `Stop` comes back without a deadline and outlives every command; exports and their goroutines end | two exports, a Stop that may never be called, two commands each |
| `main` | the process does not exit under a collection, and a signal or the end of the handler ends it; a test's exit status can be believed and it ends | two exports, three Stops; up to two arguments, any number of commands |
| `runner` | exact buffers, complete success, kills reported as context errors, pipes drained, the environment, `RunContract` | limits 2 and 1, pipes of 2, 3 bytes a stream, two descendants; environments of up to four entries |
| `runner_group` | *violation*: see section 5 | 1 byte a stream |
| `collector_payload` | the payload against a changing host and what DNF prints | two repositories, two updates, two changes of the host |
| `collector_refresh` | *violation*: see section 5 | one refresh |
| `history_scan` | the result was right at some moment of the search | three transactions, DNF4 and DNF5 5.3, 5.4, 6.0, four command lines |
| `reboot_answer` | a reported reboot has a reason, what lasts is reported but for newer kernels in two cases, releases are compared as segments | a sensitive package, seven kernel packages, seconds 0 to 2; all pairs of releases of up to three of six characters |
| `reboot_removed` | *violation*: see section 5 | one flavor with two kernels |
| `log_handler` | derived handlers are independent, lines are faithful | four handlers, two keys, a group, five levels |
| `installer` | a verified plugin, whole success, a rerun repairs | two releases, two runs |

The properties:

* `PluginLifecycle`: `NoPanic`, `StopIsQuiescent`, `BudgetPositive` (invariants), `WaitGroupRule` (what a step may never do), `GateSpec` (refinement), and, checked in `export_run`, `StopCompletes` and `WatchersExit` (liveness).
* `ExportRun`: `StopLeavesNoCommand`, `ImplementsPlugin` (refinement with fairness), `ExportsReturnInTime` (liveness, if deadlines fire).
* `AgentProcess`: `ExitOnlyWhenDrained`.
* `Main`: `SignalEndsProcess`, `HandlerEndsProcess`, `TestIsHonest`, `TestEnds`.
* `CommandRunner`: `CappedBufferExact`, `SuccessIsComplete`, `KilledIsContextError`, `PipesAreDrained`, `ImplementsContract` (refinement and liveness); `EnvironmentIsMerged` for `Environment`.
* `Collector`: `AllOrNothing`, `CountsAddUp`, `StableUpdatesAreExact`, `QuietHostIsExact`.
* `LastUpdateScan`: `ResultIsReal`, `AnswerWasTrue`, and the inductive `ScanInv` behind it.
* `RebootCheck`: `PendingIsReal`, `LastingIsPending`; `ComparesSegments` for `KernelRelease`.
* `LogHandler`: `HandlersAreIndependent`, `LinesAreFaithful`.
* `Installer`: `OnlyVerifiedPlugins`, `ChecksComeFirst`, `SuccessIsWhole`, `RerunRepairs`.

**Bounds, and why they are enough.** Calls are symmetric, and a hazard of the
plugin needs at most two exports (one in, one at the lock) and two Stops (one
that closes, one that finds it done); the process has exactly three Stops. Each
call is made once: a second one of the same kind is another element of the set.
A capped buffer is below, at and over a limit of 1 or 2 with three bytes, cut
into chunks in every way. Two descendants cover both kinds. Two changes of the
host allow it to change and to change back. Three transactions allow a completed
upgrade to lie behind a running one and a dead one, or behind one that the list
does not show. Two commands of a collection have a step between them; a third
would repeat it. In two seconds a host can boot, install, and boot in that same
second or the next; the releases of the flavors lie between each other, so that
a newer kernel of the wrong flavor is there to be taken, and a newer debug kernel
to be missed. Three characters give
releases with up to three segments, a leading zero before a digit, and a
separator between two segments. Four handlers allow two to be derived from one
that is derived itself, the shortest way to two appends to one array with room; with a slice of two attributes, one can be passed and
the other written.
Two runs of the installer are one that ends anywhere and one after it. Safety
does not rest on these bounds: every safety property that a run checks is proved
without them (section 4). They bound what only TLC says, which is liveness.

**Fairness, and why the code justifies it.** Goroutines that can run are run,
and a free mutex is given to a waiter (weak fairness for each call). A
collection whose context is done returns, because each call of `Run` does
(`Prompt`, shown by `ImplementsContract`, used by `ImplementsPlugin`); a
collection whose context is active owes nothing. `PromptSpec`, `RunSpec` and
`AgentScheduling` leave out the timer of the deadline, so that what they show
does not depend on it; only `ExportsReturnInTime` assumes it, for exports that
nobody stops. In `MainSpec` the program exits once its mode has returned, and
somebody reads stdout: `collectAndWrite` looks at no
context while it writes, so without a reader no signal ends a test. The SDK, the
agent, signals, the command and its descendants owe nothing. In `CommandRunner`
copying goroutines run and the WaitDelay timer fires. Safety is stated without
fairness.

Deadlock is checked in every run. The states in which the system has nothing
left to do are explicit stuttering steps (`Quiet`, `Exited`,
`Finished`, `Returned`, `Ended`, `Done`; a host of `RebootCheck` can always begin
a check, the caller of `LogHandler` can always write, and systemd can always
start the agent of `Installer`), so everything else that stops is an error.

## 4. What is proved

TLAPS checks, for any number of calls, any timeouts, any descendants, limits
and pipe capacities, any environments, any history of transactions, any
repositories, updates and hosts, any packages and kernels, releases of any
length, any attributes, groups and levels, any number of handlers, any releases
of the plugin, and without the bounds that TLC needs, every safety property
that a passing run checks, under the ASSUMEs of the modules:

* disjoint sets of calls, a finite set of exports, a positive default timeout, three Stops that the process owns, positive limits;
* command lines of at least one piece (`ScanAssumption`);
* finite sets of repositories and updates, and no repository whose row reads like a header (`RowsAssumption`);
* overrides whose entries are well-formed (`EnvironmentAssumption`);
* releases of kernels that are sequences of numbers, sensitive packages that are not kernel packages (`RebootAssumption`), and a suffix of `uname` that no package's release has (`SuffixAssumption`);
* names of groups that are not empty, levels that are integers, a slice of at least one attribute (`LogAssumption`);
* releases of the plugin that are positive numbers, major versions that are numbers, a release that works with its own configuration (`WorksAssumption`).

TLC evaluates each of them in a run. No theorem has a hypothesis beside them.

* **PluginProofs**, the plugin. `Invariance` proves the inductive invariant `IInv`; from it follow `TypeCorrect`, `NeverPanics`, `StopDrains`, `StopIsHeard`, `BudgetsArePositive`, the two action properties `WaitGroupIsUsedWell` and `StopIsFinal`, and `ImplementsGate`. The properties are not inductive. That a returned `Stop` leaves nothing behind needs `CountInv` (the wait group *is* the number of exports between `Add` and `Done`), which needs `MutexInv` (nobody is let in while a `Stop` changes `stopping`) and `StopInv` (a waiting `Stop` has set `stopping`); that the channel is closed once and heard by all needs `ChannelInv` (there is at most one, open until stopping) and `ExportInv` (what an export holds at each place).
* **PluginProofs**, the plugin with its commands. `RunInvariance` proves `RInv`, that is `IInv` and `CallsInv`: a command lives only under a call that runs, and a call runs only while its export collects. Then an export that `Stop` has waited for has no command (`NoCommandSurvives`). `IsThePlugin` is the step simulation: a call that begins or a command that ends is no step of the plugin, one that returns an error is a failed collection, and the last that succeeds is a successful one, which needs that `RunContract` lets a call succeed only under a live context. `RunImplementsGate` follows.
* **PluginProofs**, the process and the program. `AgentInvariance` proves `AgentInv`, that is `IInv` and how far the Stops of `runAgent` are; `ProcessEndsDrained` follows with `StopInv`: after the deferred `Stop` nothing is in flight, and before the handler ran nothing ever was. `AgentRunsThePlugin` and `MainRunsTheAgent` are the simulations that carry the plugin's and the process's results up to the program, so `MainEndsDrained` and `MainKeepsTheGate` hold of it. `MainInvariance` proves what the test mode keeps: a call runs only while the test collects, and nothing is written before (`CommandInv`); the test returns success with the whole payload and an error without it (`TestInv`), and the process exits with that only after the deferred stop, while SIGTERM and a closed stdout end it where no command is alive (`EndInv`). `TestStatusIsHonest` follows.
* **CommandRunnerProofs.** `Invariance` proves `IInv`, with `BuffersAreExact` and `SuccessMeansComplete` as results. A copier that ended while the pipes were open saw the end of file, so everything was read (`CopierInv`); pipes closed early mean an error or a context that is done (`ClosedInv`); so a `Run` without an error read all that was written. `CommandInvariance` adds where the command is at each place of `Run` (`CommandInv`: it was reaped before `Run` returns, and one that was killed was killed because the context is done), from which follow `KilledMeansContext` and `KeepsContract`: every step of `Run`, of its goroutines and of its command is a step of `RunContract` or none. `EnvironmentMerges` is about `mergeEnv`, by induction over the entries: after each of them the merged environment has no key twice and holds for every key the last well-formed entry so far (`MergedHoldsLast`, from `PutIsSequence` and `PutHoldsLast`), which is what a child finds (`LookupIsLast`); an entry of the overrides comes after all of the base, so it wins (`MergeIsRight`).
* **CollectorProofs.** First what the parsers make of every output that a host may print: `RepositoriesAreRead` and `UpdatesAreRead` say that they give all that was printed or an error, never a part of it. They rest on `TableIsRead`: in an output that holds a table and is read without an error, the rows after the first header are the repositories of the table, in its order. Then the invariant of a collection, over the hosts it has seen: an update that was there all the time is in `updates` once they were asked for and has the gravest category asked for so far (`StableInv`, with `MarkIsGravest`: a graver mark is never replaced), and of a host that has not changed everything read is exact (`QuietInv`). At the end the counts are sums over disjoint sets (`TypesAreCounted`, `PairsAreCounted`). `CompleteOrNothing`, `CountsAgree`, `StableUpdatesHold` and `QuietHostHolds` follow from `Invariance`.
* **LastUpdateScanProofs.** For any answers to `dnf --version`, any command lines and any length of the history. `Invariance` proves that `TypeOK`, `ScanInv`, `ResultIsReal` and `AnswerWasTrue` are inductive together. While rows are inspected, the newest upgrade that was complete when the list was read has not been passed, or the list misreads it; what completes after that was the newest at that moment, as IDs grow (`moments` has it). So whatever a step finds was right at some moment. It needs that DNF runs one transaction at a time (the last of the history), that the maximum of a set of positions exists (`LastPosition`, by well-foundedness), and that a row which DNF4's list does not show as the upgrade it is has a `|` in its command line (`UnlistedIsMisread`), for which a command line must have at least one piece.
* **RebootCheckProofs.** `Invariance` proves that install times tell what was installed since the boot (`HostInv`), and that during a check the reasons there are now are among `reasons`, and `lasting` among those (`CheckInv`). Then an answer that reads the host as it is at one step is right about the whole check: `PendingHasReason` and `OnlyKernelsAreMissed`. That the code takes the packages with the running release for the flavor that runs needs `NamesAreOfRunning`: with a suffix no package has that release, without one the running package's release is it. So a kernel is a reported reason only where `uname` prints the release of a package, and missed only where it does not, or where the package that the code would know it by is gone.
* **RebootCheckProofs**, the comparison. Its loop and its reference read a release in different ways, so they first have to be brought together. `NextPart` says what a round takes off: separators, then the longest run of digits or of letters. By induction over the characters, the segments of a release are what this first part says and then the segments of the rest (`SegmentsSplit`, from `FirstSegment` and `ReadBehind`). Two parts compare as their segments: of two numbers without leading zeros the one with more digits is greater (`MoreDigits`), of two of the same length the one with the greater first digit that differs, whatever follows (`Lead`, `SameDigits`), and words compare as words (`PartsCompare`). So a round decides what the reference says of the first segments, or there are none, or they are equal and the rest decides (`RoundOutcome`); by induction over the rounds, a loop that has not decided has taken equal segments off both releases (`AfterRound`), and one that has taken as many rounds as a release has characters has decided or has nothing left (`LastRound`). `ComparisonIsReference` follows for all releases, and with it `ReleasesAreCompared`. `ComparisonIsOrder` shows that it is a total order up to what no segment shows: equal exactly for the same segments, antisymmetric, transitive.
* **LogHandlerProofs.** `Invariance` rests on who writes where: array 1 is the caller's, every handler has its operations, and every operation its attributes, in an array behind it (`MemoryInv`), and a step writes either to array 1 or to arrays that it has allocated itself, because `WithAttrs` and `WithGroup` copy before they append (`CopiedIsNew`, `AppendedIsNew`). So nothing that a handler sees ever changes (`HandlersAreKept`), whether the copy has room or not. What the memory of a handler says is its history, in operations, open groups and fields (`BuiltInv` with `Told`), and an operation more in memory is an operation more in the history (`OneMoreIsTold`, with `PathGrows` for the groups). `HandlersStayIndependent` follows, and so does `LinesStayFaithful`, with `MethodIsSeverity` for the level.
* **Induction.** The library states induction with an operator as parameter, which the provers cannot instantiate. Here a property is the *set* of the numbers that have it: a set that has 0, and i if it has i - 1, has all numbers up to n (`InductionUpTo`, `InductionOnNat`), because otherwise there would be a least number outside it (`LeastNumber`, from the well-foundedness of `<`). A recursion is likewise a *function* of steps: there is a function that follows it, and it is the one that its definition chooses (`Recursion`). With these the recursive functions of `Environment`, `KernelRelease` and `LogHandler` can be reasoned about for every input.
* **InstallerProofs.** `Invariance` proves what each stage can rely on: what was downloaded and that it is of one release unless something went wrong (`DownloadInv`), what has been checked (`ChecksInv`), what has been installed and restarted (`FilesInv`); with these, `PluginIsVerified`, `NothingTouchedBefore`, `SuccessHolds` and `RunsAgain`.

Together the safety of the composition is one chain of proved steps: what a
command does is a `RunContract` (`KeepsContract`), the plugin whose collections
are such calls is the plugin (`IsThePlugin`), the program runs that plugin
(`MainRunsTheAgent`, `AgentRunsThePlugin`), and the plugin is an `ExportGate`.

Only model-checked is liveness: under fairness it is out of the prover's reach, as
is ENABLED. These are

* `StopCompletes`, `WatchersExit`, `ExportsReturnInTime`, `SignalEndsProcess`, `HandlerEndsProcess` and `TestEnds`;
* `PipesAreDrained`;
* the liveness halves of `ImplementsContract` (`Prompt`) and `ImplementsPlugin` (its fairness), whose safety halves are `KeepsContract` and `IsThePlugin`.

The three runs that expect a violation show what does not hold, so there is nothing to prove.

## 5. Where the code and its documentation disagree

* `runner.go:80` says that cancellation kills the process tree when the platform supports it. `runner_group` shows a state in which it does not, on Linux and within the process group: the command exits by itself, a descendant keeps the pipe open, then the context ends. os/exec is no longer watching the context, `Cancel` is never called, and `Run` returns the context's error with the descendant alive.
* The README's item "Updates pending security" is the number of available security updates. `collector_refresh` shows a published, complete payload with zero although there was one at every moment: the metadata is refreshed between the query of all updates and that of the security updates, and the version in one is not in the other. `StableUpdatesAreExact` says what does hold.
* The README's item for a pending reboot names a newer installed kernel. `reboot_removed` shows one that is not reported: the package of the running kernel was removed, no installed package has the running release, and `reboot_kernel.go:57` answers that nothing is newer. `LastingIsPending` says what does hold.
* The test "newer debug kernel-core installed" (`reboot_test.go:481`) wants a newer `kernel-debug-core` pending, and takes for it a `uname` that prints the release of the package. A debug kernel prints it with a suffix (`+debug`) that no package has, and then `reboot_kernel.go:57` answers that nothing is newer, with the package of the running kernel installed and staying so. No run of its own shows it: `reboot_answer` has two releases of `kernel-debug-core` with that suffix, and `PendingIsReal`, which is checked there and proved (`PendingHasReason`), says that a host whose `uname` is not the release of its package reports no kernel at all. It is the first of the two cases that `LastingIsPending` excepts.

One more behaviour is no disagreement, as no text or test of the repository is
about it, but the properties have to say it: `newerKernelInstalled` goes by the
release alone, so that when packages of two flavors are installed in the very release
that runs, a newer kernel of either counts, also of the flavor that does not run.
`PendingIsReal` excepts that case (`foreign`); the attempt to prove it without
the exception is what showed it.

## 6. Not modelled, and the plan

Not modelled:

* The layouts of a transaction's details, of `/proc/stat` and of the output of `rpm`, the time formats (so neither the hour that a change of the clock repeats) and the JSON encoding: their errors are actions (`CommandFails`, `Fails`), what they say when they succeed is taken as said.
* Time that runs backward (a clock that is set): the boot time of `/proc/stat` follows the clock, the recorded install times do not.
* Process IDs: os/exec may call `Cancel` (`runner_linux.go:14`) after the command was reaped and before `Wait` has taken the result of its watcher, which `WatchCancels` allows; that the ID is used again in that window is left out.
* Signals other than SIGINT and SIGTERM in agent mode: they end the process at any point, with its exports unanswered and their commands perhaps left, and nothing is promised about them. Nor the moment between the return of `runAgent` and the exit, in which goroutines of the SDK may still run: the plugin rejects what they ask.
* Timeouts of so many seconds that the product with `time.Second` overflows (`plugin.go:58`, `plugin.go:183`): a timeout is a number of seconds that is not converted.
* What the installer does to the home of the `zabbix` account beside making it (`restorecon`, `install.sh:99`), which it does before the checksum; `ChecksComeFirst` is about the plugin and its configuration.
* How long anything takes: the search of the history has no limit but the deadline of its collection, and whether the SDK has written an answer to the agent when the process exits is the SDK's.
* Accepted exit codes other than zero hide an `ErrWaitDelay` of the same wait (`runner.go:105`); no caller in the repository accepts any, and `SuccessIsComplete` is stated for that.
* Platforms other than Linux (`runner_other.go`), which the plugin does not support; sorting, which a payload of sets does not show; the wording of errors and logs.
* The Zabbix template, which is declarative and evaluated by the server; CI and the development environment, which are no part of the program.

The plan, all of which is done.

1. `ExportGate`, `PluginLifecycle`, their run and proofs.
2. `AgentProcess`, composed with the plugin, and its proofs.
3. `CommandRunner`, its runs and proofs.
4. `Collector` and its runs.
5. `LastUpdateScan` and its run.
6. `RebootCheck`, `KernelRelease` and their runs.
7. `RunContract` and `ExportRun`: collections as sequences of commands, with the refinements on both sides.
8. `Main`: the test mode, composed with `AgentProcess`.
9. `DnfOutput`, the rows of `LastUpdateScan`, `Environment`: what the parsers make of lines, and what the commands are given.
10. `LogHandler`, `Installer`.
11. `LastUpdateScanProofs`.
12. `CollectorProofs`, `RebootCheckProofs`, `InstallerProofs`, the rest of `PluginProofs` (commands, process, program), the refinement in `CommandRunnerProofs`.
13. `Induction`, and with it what needs induction over data: `LogHandlerProofs`, the environment in `CommandRunnerProofs`, the comparison of releases in `RebootCheckProofs`.
