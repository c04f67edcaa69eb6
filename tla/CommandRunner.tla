--------------------------- MODULE CommandRunner ---------------------------
(***************************************************************************)
(* One Run of internal/command/runner.go on Linux: the command, what it    *)
(* forks, the pipes, the goroutines of os/exec that copy them into the     *)
(* capped buffers, the goroutine that watches the context, and Run itself. *)
(*                                                                         *)
(* What is os/exec's or the kernel's (Start, Wait, pipes, signals) is      *)
(* modelled from how the code uses it: CommandContext with a Cancel        *)
(* function and a WaitDelay.  Output is counted in bytes of no content.    *)
(***************************************************************************)
EXTENDS Environment, FiniteSets

CONSTANTS InGroup,      \* descendants that stay in the command's process group
          Detached,     \* descendants that leave it (setsid)
          Limit,        \* maxStdoutBytes and maxStderrBytes, by stream
          ExitCodes,    \* the exit codes of the command
          Accepted,     \* Request.AcceptedExitCodes
          Capacity,     \* what a pipe holds
          MaxWritten    \* bound: what is written to one stream

Streams == {"stdout", "stderr"}
Leader == "leader"
Descendants == InGroup \cup Detached
Processes == {Leader} \cup Descendants
Killed == -1            \* ExitCode() of a process that a signal ended

ASSUME RunnerAssumption ==
  /\ InGroup \cap Detached = {} /\ Leader \notin Descendants
  /\ Limit \in [Streams -> Nat \ {0}]
  /\ ExitCodes \subseteq Nat /\ Accepted \subseteq Nat
  /\ Capacity \in Nat \ {0} /\ MaxWritten \in Nat

VARIABLES
  run,      \* Run: start, wait, handshake, await, closing, inspect, returned
  err,      \* what cmd.Run returns so far: none, start, exit, context, delay
  result,   \* what Run returns: none, ok, context, stdout, stderr, failed
  ctx,      \* the caller's context, "active" or "done"
  leader,   \* the command: none, running, zombie, reaped
  code,     \* its exit code
  alive,    \* the descendants that run
  born,     \* the descendants that were ever forked
  holding,  \* the processes that have the write ends of the pipes open
  wrote,    \* per stream: the bytes written so far
  pipe,     \* per stream: those still in the pipe
  kept,     \* per stream: cappedBuffer.buffer.Len()
  over,     \* per stream: cappedBuffer.overflow
  copier,   \* per stream: the copying goroutine, none, copying, done
  closed,   \* the parent has closed the read ends
  watch,    \* the watching goroutine: none, select, timing, closing, handing, ended
  watchErr  \* its error: none, context, delay

procVars == <<leader, code, alive, born, holding>>
pipeVars == <<wrote, pipe, kept, over, copier>>
vars == <<run, err, result, ctx, procVars, pipeVars, closed, watch, watchErr>>

-----------------------------------------------------------------------------
Init == /\ run = "start" /\ err = "none" /\ result = "none"
        /\ ctx \in {"active", "done"}
        /\ leader = "none" /\ code = 0
        /\ alive = {} /\ born = {} /\ holding = {}
        /\ wrote = [s \in Streams |-> 0] /\ pipe = [s \in Streams |-> 0]
        /\ kept = [s \in Streams |-> 0] /\ over = [s \in Streams |-> FALSE]
        /\ copier = [s \in Streams |-> "none"] /\ closed = FALSE
        /\ watch = "none" /\ watchErr = "none"

ContextEnds == /\ ctx = "active" /\ run # "returned"
               /\ ctx' = "done"
               /\ UNCHANGED <<run, err, result, procVars, pipeVars, closed, watch,
                              watchErr>>

-----------------------------------------------------------------------------
(***************************************************************************)
(* The processes.  A write to a pipe whose read end is closed fails.       *)
(***************************************************************************)
Write(p, s) == /\ p \in holding /\ ~closed
               /\ pipe[s] < Capacity /\ wrote[s] < MaxWritten
               /\ wrote' = [wrote EXCEPT ![s] = @ + 1]
               /\ pipe' = [pipe EXCEPT ![s] = @ + 1]
               /\ UNCHANGED <<run, err, result, ctx, procVars, kept, over, copier,
                              closed, watch, watchErr>>

Fork(d) == /\ leader = "running" /\ Leader \in holding /\ d \notin born
           /\ born' = born \cup {d} /\ alive' = alive \cup {d}
           /\ holding' = holding \cup {d}
           /\ UNCHANGED <<run, err, result, ctx, leader, code, pipeVars, closed,
                          watch, watchErr>>

CloseOutput(p) == /\ p \in holding
                  /\ holding' = holding \ {p}
                  /\ UNCHANGED <<run, err, result, ctx, leader, code, alive, born,
                                 pipeVars, closed, watch, watchErr>>

LeaderExits(c) == /\ leader = "running"
                  /\ leader' = "zombie" /\ code' = c
                  /\ holding' = holding \ {Leader}
                  /\ UNCHANGED <<run, err, result, ctx, alive, born, pipeVars, closed,
                                 watch, watchErr>>

DescendantExits(d) == /\ d \in alive
                      /\ alive' = alive \ {d} /\ holding' = holding \ {d}
                      /\ UNCHANGED <<run, err, result, ctx, leader, code, born,
                                     pipeVars, closed, watch, watchErr>>

\* SIGKILL for the processes of set.
KillAll(set) ==
  /\ alive' = alive \ set /\ holding' = holding \ set
  /\ IF Leader \in set /\ leader = "running"
       THEN leader' = "zombie" /\ code' = Killed
       ELSE UNCHANGED <<leader, code>>
  /\ UNCHANGED born

\* A process group exists until its last member is gone; a zombie counts.
GroupExists == leader \in {"running", "zombie"} \/ alive \cap InGroup # {}

-----------------------------------------------------------------------------
(***************************************************************************)
(* The copying goroutines and cappedBuffer.Write, which claims to have     *)
(* written everything whatever it keeps.                                   *)
(***************************************************************************)
Least(a, b) == IF a < b THEN a ELSE b

\* Bug: what reaches the limit exactly is reported as an overflow.
CappedWriteEager(s, n) ==
  LET remaining == Limit[s] - kept[s]
  IN /\ kept' = [kept EXCEPT ![s] = @ + Least(n, remaining)]
     /\ over' = [over EXCEPT ![s] = @ \/ n >= remaining]

CappedWrite(s, n) ==
  LET remaining == Limit[s] - kept[s]
  IN /\ kept' = [kept EXCEPT ![s] = @ + Least(n, remaining)]
     /\ over' = [over EXCEPT ![s] = @ \/ n > remaining]

\* Bug: a full buffer reports a short write, and the copy ends there.
CopyUntilFull(s) ==
  /\ copier[s] = "copying" /\ ~closed /\ kept[s] < Limit[s]
  /\ \E n \in 1..pipe[s] : /\ CappedWrite(s, n)
                           /\ pipe' = [pipe EXCEPT ![s] = @ - n]
  /\ UNCHANGED <<run, err, result, ctx, procVars, wrote, copier, closed, watch,
                 watchErr>>

Copy(s) == /\ copier[s] = "copying" /\ ~closed
           /\ \E n \in 1..pipe[s] : /\ CappedWrite(s, n)
                                    /\ pipe' = [pipe EXCEPT ![s] = @ - n]
           /\ UNCHANGED <<run, err, result, ctx, procVars, wrote, copier, closed,
                          watch, watchErr>>

CopyEnds(s) == /\ copier[s] = "copying"
               /\ closed \/ (pipe[s] = 0 /\ holding = {})
               /\ copier' = [copier EXCEPT ![s] = "done"]
               /\ UNCHANGED <<run, err, result, ctx, procVars, wrote, pipe, kept, over,
                              closed, watch, watchErr>>

CopiersDone == \A s \in Streams : copier[s] # "copying"

-----------------------------------------------------------------------------
(***************************************************************************)
(* The goroutine that watches the context, and the Cancel function of      *)
(* runner_linux.go: SIGKILL to the group, and when there is no group any   *)
(* more, to the process, which reports that it is done.                    *)
(***************************************************************************)
WatchCancels ==
  /\ watch = "select" /\ ctx = "done"
  /\ watch' = "timing"
  /\ watchErr' = IF GroupExists THEN "context" ELSE "none"
  /\ KillAll({Leader} \cup InGroup)
  /\ UNCHANGED <<run, err, result, ctx, pipeVars, closed>>

\* WaitDelay is over and the command has not been waited for: it is killed
\* once more, and the pipes are closed if they are still in use.
WatchTimeout ==
  /\ watch = "timing"
  /\ KillAll({Leader})
  /\ closed' = (closed \/ ~CopiersDone)
  /\ watch' = "closing"
  /\ watchErr' = IF watchErr = "none" /\ leader = "reaped" /\ ~CopiersDone
                   THEN "delay" ELSE watchErr
  /\ UNCHANGED <<run, err, result, ctx, pipeVars>>

WatchClosed ==
  /\ watch = "closing" /\ CopiersDone
  /\ watch' = "handing"
  /\ UNCHANGED <<run, err, result, ctx, procVars, pipeVars, closed, watchErr>>

-----------------------------------------------------------------------------
(***************************************************************************)
(* Run                                                                     *)
(***************************************************************************)
\* No name, so no command: errCommandNameRequired.
NameMissing ==
  /\ run = "start"
  /\ run' = "returned" /\ result' = "failed"
  /\ UNCHANGED <<err, ctx, procVars, pipeVars, closed, watch, watchErr>>

\* The context is done already, or the program cannot be executed.
StartFails ==
  /\ run = "start"
  /\ run' = "inspect" /\ err' = "start"
  /\ UNCHANGED <<result, ctx, procVars, pipeVars, closed, watch, watchErr>>

Started ==
  /\ run = "start" /\ ctx = "active"
  /\ run' = "wait"
  /\ leader' = "running" /\ holding' = {Leader}
  /\ copier' = [s \in Streams |-> "copying"]
  /\ watch' = "select"
  /\ UNCHANGED <<err, result, ctx, code, alive, born, wrote, pipe, kept, over, closed,
                 watchErr>>

Reap ==
  /\ run = "wait" /\ leader = "zombie"
  /\ leader' = "reaped"
  /\ run' = "handshake"
  /\ err' = IF code = 0 THEN "none" ELSE "exit"
  /\ UNCHANGED <<result, ctx, code, alive, born, holding, pipeVars, closed, watch,
                 watchErr>>

\* Wait meets the watching goroutine: one that saw nothing, one that has
\* cancelled and hands its timer over, or one that has closed the pipes.
Handshake ==
  /\ run = "handshake" /\ watch \in {"select", "timing", "handing"}
  /\ watch' = "ended"
  /\ err' = IF err = "none" THEN watchErr ELSE err
  /\ run' = IF watch = "handing" THEN "inspect" ELSE "await"
  /\ UNCHANGED <<result, ctx, procVars, pipeVars, closed, watchErr>>

AwaitCopiers ==
  /\ run \in {"await", "closing"} /\ CopiersDone
  /\ run' = "inspect"
  /\ UNCHANGED <<err, result, ctx, procVars, pipeVars, closed, watch, watchErr>>

\* Bug: no WaitDelay, so nothing bounds the wait for the pipes.
AwaitForever == FALSE

\* WaitDelay is over and a pipe is still open: ErrWaitDelay.
AwaitTimeout ==
  /\ run = "await"
  /\ closed' = TRUE
  /\ err' = IF err = "none" THEN "delay" ELSE err
  /\ run' = "closing"
  /\ UNCHANGED <<result, ctx, procVars, pipeVars, watch, watchErr>>

\* Bug: the error of the command is looked at before the context's.
VerdictErrorFirst ==
  IF err # "none" /\ ~(err = "exit" /\ code \in Accepted) THEN "failed"
  ELSE IF ctx = "done" THEN "context"
  ELSE IF over["stdout"] THEN "stdout"
  ELSE IF over["stderr"] THEN "stderr"
  ELSE "ok"

\* Bug: the error of a wait that gave up is taken for success.
VerdictIgnoresDelay ==
  IF ctx = "done" THEN "context"
  ELSE IF over["stdout"] THEN "stdout"
  ELSE IF over["stderr"] THEN "stderr"
  ELSE IF err \in {"none", "delay"} THEN "ok" ELSE "failed"

\* The checks after cmd.Run, in their order.
Verdict ==
  IF ctx = "done" THEN "context"
  ELSE IF over["stdout"] THEN "stdout"
  ELSE IF over["stderr"] THEN "stderr"
  ELSE IF err = "none" \/ (err = "exit" /\ code \in Accepted) THEN "ok"
  ELSE "failed"

Inspect ==
  /\ run = "inspect"
  /\ result' = Verdict
  /\ run' = "returned"
  /\ UNCHANGED <<err, ctx, procVars, pipeVars, closed, watch, watchErr>>

-----------------------------------------------------------------------------
ProcessStep ==
  \/ \E p \in Processes, s \in Streams : Write(p, s)
  \/ \E p \in Processes : CloseOutput(p)
  \/ \E d \in Descendants : Fork(d) \/ DescendantExits(d)
  \/ \E c \in ExitCodes : LeaderExits(c)

GoStep ==
  \/ NameMissing \/ StartFails \/ Started \/ Reap \/ Handshake
  \/ AwaitCopiers \/ AwaitTimeout \/ Inspect
  \/ WatchCancels \/ WatchTimeout \/ WatchClosed
  \/ \E s \in Streams : Copy(s) \/ CopyEnds(s)

\* Run has returned; what is left of the processes may go on.
Returned == run = "returned" /\ UNCHANGED vars

Next == ProcessStep \/ GoStep \/ ContextEnds \/ Returned

Spec == Init /\ [][Next]_vars

(***************************************************************************)
(* Fairness: goroutines run and timers fire.  The command and what it      *)
(* forked owe nothing: they may hang, and hold the pipes, for ever.        *)
(***************************************************************************)
FairSpec ==
  /\ Spec
  /\ WF_vars(NameMissing \/ StartFails \/ Started) /\ WF_vars(Reap)
  /\ WF_vars(Handshake) /\ WF_vars(AwaitCopiers) /\ WF_vars(AwaitTimeout)
  /\ WF_vars(Inspect)
  /\ WF_vars(WatchCancels) /\ WF_vars(WatchTimeout) /\ WF_vars(WatchClosed)
  /\ \A s \in Streams : WF_vars(Copy(s)) /\ WF_vars(CopyEnds(s))

-----------------------------------------------------------------------------
\* The types of the variables.
TypeOK ==
  /\ run \in {"start", "wait", "handshake", "await", "closing", "inspect", "returned"}
  /\ err \in {"none", "start", "exit", "context", "delay"}
  /\ result \in {"none", "ok", "context", "stdout", "stderr", "failed"}
  /\ ctx \in {"active", "done"}
  /\ leader \in {"none", "running", "zombie", "reaped"}
  /\ code \in Nat \cup {Killed}
  /\ alive \subseteq Descendants /\ born \subseteq Descendants
  /\ holding \subseteq Processes
  /\ wrote \in [Streams -> Nat] /\ pipe \in [Streams -> Nat]
  /\ kept \in [Streams -> Nat] /\ over \in [Streams -> BOOLEAN]
  /\ copier \in [Streams -> {"none", "copying", "done"}]
  /\ closed \in BOOLEAN
  /\ watch \in {"none", "select", "timing", "closing", "handing", "ended"}
  /\ watchErr \in {"none", "context", "delay"}

\* However the bytes are cut into chunks, a capped buffer has kept the first
\* Limit of the bytes that were read, and says that it overflowed exactly
\* when there were more.
CappedBufferExact ==
  \A s \in Streams : LET read == wrote[s] - pipe[s]
                     IN /\ kept[s] = Least(read, Limit[s])
                        /\ over[s] <=> read > Limit[s]

\* With no accepted exit codes, as all callers have it, a Run that succeeds
\* returns every byte the command and its descendants wrote, of a command
\* that exited with zero: no output that was cut off by a limit, by
\* WaitDelay or by a kill is ever passed on as complete.
SuccessIsComplete ==
  result = "ok" /\ Accepted = {} =>
    code = 0 /\ \A s \in Streams : kept[s] = wrote[s]

\* A command that Run has killed is reported as the error of its context and
\* not as one that failed by itself (runner.go:80-81).
KilledIsContextError == run = "returned" /\ code = Killed => result = "context"

\* A command is never stopped by a buffer that is full: its pipe is drained
\* until Run ends.
PipesAreDrained ==
  \A s \in Streams : pipe[s] = Capacity ~> (pipe[s] < Capacity \/ run = "returned")

-----------------------------------------------------------------------------
(***************************************************************************)
(* The Run implements RunContract.                                         *)
(***************************************************************************)
Phase == IF run = "start" \/ (run = "inspect" /\ err = "start") THEN "ready"
         ELSE IF run = "returned" THEN "returned" ELSE "running"

CommandNow == CASE leader = "none" -> "none"
                [] leader = "running" -> "alive"
                [] OTHER -> "dead"

Outcome == IF result \in Streams THEN "limit" ELSE result

Contract == INSTANCE RunContract WITH
  call <- [phase |-> Phase, command |-> CommandNow, outcome |-> Outcome],
  done <- ctx = "done"

\* Run keeps what its callers build on: it never returns before its command
\* is gone, the error of a context that is done comes before every other,
\* success means that the context was live to the end, and it comes back once
\* the context is done or the command has exited, whoever still holds the
\* pipes (TestRunnerBoundsWaitForDetachedDescendant).
ImplementsContract == Contract!Spec /\ Contract!Prompt

\* "Command cancellation kills the process tree when the platform supports
\* it" (runner.go:80), read for the process group that the runner makes: when
\* Run has given up waiting for the command's output and reports the end of
\* the context, nothing of the group is left.
CancellationKillsGroup == result = "context" /\ closed => alive \cap InGroup = {}

\* Whatever environment the agent has given the plugin, with variables that are
\* set twice or malformed entries, its commands run in the C locale and find
\* every other variable as the plugin would (command.go:21-24).
EnvironmentIsMerged ==
  run = "start" =>
    \A base \in Environments, overrides \in Overrides : MergedRight(base, overrides)

-----------------------------------------------------------------------------
(***************************************************************************)
(* The inductive invariant behind CappedBufferExact and SuccessIsComplete. *)
(***************************************************************************)
\* A copier that ended while the pipes were open has seen the end of file: all
\* holders are gone, and what was written was read.
CopierInv ==
  \A s \in Streams :
    /\ pipe[s] <= wrote[s]
    /\ copier[s] = "done" /\ ~closed => pipe[s] = 0 /\ holding = {}

\* The pipes are closed early only after the context's end or with an error.
ClosedInv ==
  /\ closed => ctx = "done" \/ err # "none"
  /\ watch \in {"timing", "closing", "handing"} => ctx = "done"
  /\ watch = "handing" => CopiersDone

\* Where Run is, and what has ended by then.
RunInv ==
  /\ run \in {"start", "wait"} => err = "none"
  /\ run \in {"wait", "handshake", "await", "closing"}
       => \A s \in Streams : copier[s] # "none"
  /\ run \in {"handshake", "await", "closing"} => leader = "reaped"
  /\ run \in {"await", "closing"} => watch = "ended"
  /\ run = "closing" => err # "none"
  /\ run = "inspect" /\ err # "start" =>
       /\ leader = "reaped" /\ watch = "ended"
       /\ \A s \in Streams : copier[s] = "done"
  /\ run \in {"handshake", "await", "closing", "inspect"} /\ err = "none" => code = 0
  /\ run \in {"start", "wait", "handshake", "await", "closing", "inspect"}
       => result = "none"

\* The state in which Run has returned without an error, where exit codes
\* other than zero are not accepted.
SuccessInv ==
  result = "ok" /\ Accepted = {} =>
    /\ run = "returned" /\ err = "none" /\ code = 0
    /\ leader = "reaped" /\ watch = "ended" /\ ~closed
    /\ \A s \in Streams : copier[s] = "done" /\ ~over[s]

IInv == TypeOK /\ CappedBufferExact /\ CopierInv /\ ClosedInv /\ RunInv /\ SuccessInv
=============================================================================
