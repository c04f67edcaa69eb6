----------------------------- MODULE ExportRun -----------------------------
(***************************************************************************)
(* The plugin of PluginLifecycle together with the commands it runs: what  *)
(* an export does between BeginContext and Encode, which PluginLifecycle   *)
(* has as one step, is here a sequence of calls of command.Runner under    *)
(* the export's context (Plugin.collect and the queries of internal/dnf),  *)
(* each of them as RunContract promises it.                                *)
(*                                                                         *)
(* An export that is refused, or has not got that far, has run no command. *)
(***************************************************************************)
EXTENDS PluginLifecycle

CONSTANT MaxCommands    \* bound: the commands of one collection

ASSUME CommandsAssumption == MaxCommands \in Nat \ {0}

VARIABLES calls,    \* per Export: its current or last call of Run
          asked     \* per Export: how many calls it has finished

runVars == <<calls, asked>>
systemVars == <<vars, runVars>>

Run(e) == INSTANCE RunContract WITH call <- calls[e], done <- ctx[e] # "active"

RunInit == /\ Init
           /\ calls = [e \in Exports |-> Run(e)!Ready]
           /\ asked = [e \in Exports |-> 0]

-----------------------------------------------------------------------------
Collecting(e) == pc[e] = "collect"

\* The program cannot be found (dnf.New), or, between two commands, the
\* output of the last one cannot be parsed.
CollectionBreaks(e) == /\ calls[e].phase \in {"ready", "returned"}
                       /\ CollectFails(e)
                       /\ UNCHANGED runVars

BeginRun(e) ==
  /\ Collecting(e)
  /\ \E c \in Run(e)!Begun(calls[e], ctx[e] # "active") :
       calls' = [calls EXCEPT ![e] = c]
  /\ UNCHANGED <<vars, asked>>

\* Bug: a command that cannot be started is tried again.
RunNotBegunRetried(e) ==
  /\ Collecting(e)
  /\ \E c \in Run(e)!NotBegun(calls[e], ctx[e] # "active") :
       calls' = [calls EXCEPT ![e] = c]
  /\ UNCHANGED <<vars, asked>>

\* exec cannot start it; collect returns the error.
RunNotBegun(e) ==
  /\ Collecting(e)
  /\ \E c \in Run(e)!NotBegun(calls[e], ctx[e] # "active") :
       calls' = [calls EXCEPT ![e] = c]
  /\ CollectFails(e)
  /\ UNCHANGED asked

CommandEnds(e) == /\ \E c \in Run(e)!Ended(calls[e]) :
                       calls' = [calls EXCEPT ![e] = c]
                  /\ UNCHANGED <<vars, asked>>

\* The last question is answered.
CollectionEnds(e) == /\ Goto(e, "encode")
                     /\ UNCHANGED <<mu, lockVars, wg, exportVars, panicked>>

\* Run returns: an error ends the collection, as does the last question's
\* answer; otherwise another command follows.
RunReturns(e) ==
  /\ Collecting(e)
  /\ \E c \in Run(e)!Returned(calls[e], ctx[e] # "active") :
       /\ calls' = [calls EXCEPT ![e] = c]
       /\ \/ c.outcome # "ok" /\ CollectFails(e)
          \/ c.outcome = "ok" /\ CollectionEnds(e)
          \/ c.outcome = "ok" /\ asked[e] + 1 < MaxCommands /\ UNCHANGED vars
  /\ asked' = [asked EXCEPT ![e] = @ + 1]

NextCommand(e) == /\ Collecting(e) /\ calls[e].phase = "returned"
                  /\ calls' = [calls EXCEPT ![e] = Run(e)!Ready]
                  /\ UNCHANGED <<vars, asked>>

-----------------------------------------------------------------------------
\* A step of the plugin that runs no command.
Plain(A) == A /\ UNCHANGED runVars

CollectStep(e) == \/ CollectionBreaks(e) \/ BeginRun(e) \/ RunNotBegun(e)
                  \/ CommandEnds(e) \/ RunReturns(e) \/ NextCommand(e)

PlainStep(e) == \/ Refuse(e) \/ Admit(e) \/ BeginContext(e)
                \/ Encode(e) \/ Cancel(e) \/ Done(e)
                \/ WatcherStep(e) \/ DeadlineExpires(e)

RunNext ==
  \/ \E c \in Calls : Plain(Call(c)) \/ Plain(Lock(c))
  \/ \E c \in Configures : Plain(ConfigureBody(c))
  \/ \E c \in Starts : Plain(StartBody(c))
  \/ \E c \in Stops : Plain(StopBody(c)) \/ Plain(StopReturns(c))
  \/ \E e \in Exports : Plain(RejectExport(e)) \/ Plain(PlainStep(e)) \/ CollectStep(e)
  \/ Plain(Quiet)

(***************************************************************************)
(* Fairness: goroutines run; a call of Run makes the progress that         *)
(* RunContract!Prompt promises, so a command ends once its context is done *)
(* and owes nothing before.  No deadline is counted on.                    *)
(***************************************************************************)
RunGoes(e) == \/ BeginRun(e) \/ RunNotBegun(e) \/ RunReturns(e) \/ NextCommand(e)
              \/ (ctx[e] # "active" /\ CommandEnds(e))

ExportGoes(e) == \/ Lock(e) \/ Refuse(e) \/ Admit(e) \/ BeginContext(e)
                 \/ Encode(e) \/ Cancel(e) \/ Done(e)

RunSpec ==
  /\ RunInit /\ [][RunNext]_systemVars
  /\ \A c \in Stops : WF_systemVars(Plain(StopRuns(c)))
  /\ \A c \in Starts : WF_systemVars(Plain(StartRuns(c)))
  /\ \A c \in Configures : WF_systemVars(Plain(ConfigureRuns(c)))
  /\ \A e \in Exports : /\ WF_systemVars(Plain(ExportGoes(e)))
                        /\ WF_systemVars(RunGoes(e))
                        /\ WF_systemVars(Plain(WatcherStep(e)))

-----------------------------------------------------------------------------
\* When any Stop has returned no command of the plugin is alive any more, not
\* only no export: neither a dnf nor an rpm survives the plugin that ran it.
StopLeavesNoCommand ==
  (\E s \in Stops : pc[s] = "returned") =>
    \A e \in Exports : calls[e].command # "alive"

\* Bounded by the contract of Run, the exports behave like the ones of
\* PluginLifecycle, whose collection is a single step that succeeds only
\* under a live context and fails in time once the context is done.
ImplementsPlugin == PromptSpec

\* An export whose deadline fires comes back, and so does one that is stopped.
ExportsReturnInTime ==
  (\A e \in Exports : WF_systemVars(Plain(DeadlineExpires(e)))) => ExportsReturn
=============================================================================
