---------------------------- MODULE AgentProcess ----------------------------
(***************************************************************************)
(* The plugin process in agent mode (cmd/agent/main.go: runAgent and       *)
(* executeAgentHandler) around the plugin object of PluginLifecycle.       *)
(*                                                                         *)
(* Three goroutines may call Stop on the same plugin: the SDK's handler    *)
(* when the agent asks the plugin to terminate, executeAgentHandler when a *)
(* signal arrives, and the deferred call of runAgent, which is made on     *)
(* every way out once the handler exists.  When runAgent has returned, the  *)
(* process exits (Main) and every goroutine ends with it.                  *)
(***************************************************************************)
EXTENDS PluginLifecycle

CONSTANTS Terminate,    \* Stop called by the SDK's handler
          Shutdown,     \* Stop called by executeAgentHandler
          Deferred      \* Stop called by the defer of runAgent

ASSUME StopsAssumption ==
  /\ Stops = {Terminate, Shutdown, Deferred}
  /\ Terminate # Shutdown /\ Terminate # Deferred /\ Shutdown # Deferred

VARIABLES main,       \* runAgent: "setup", "select", "shutdown", "deferred", "exited"
          handler,    \* execute(): "none", "running", "terminating", "done"
          signaled    \* the context of signal.NotifyContext is done

agentVars == <<main, handler, signaled>>
allVars == <<vars, agentVars>>

AgentInit == /\ Init
             /\ main = "setup" /\ handler = "none" /\ signaled = FALSE

-----------------------------------------------------------------------------
(***************************************************************************)
(* The SDK's handler.  It makes its calls, each in a goroutine of its own, *)
(* while it runs; it returns because the connection to the agent failed,   *)
(* or after a request to terminate, and is not trusted to wait for its     *)
(* own Stop before that.                                                   *)
(***************************************************************************)
Living == main # "exited"

HandlerCalls == /\ Living /\ handler = "running"
                /\ \/ \E c \in Calls \ Stops : Call(c)
                   \/ \E e \in Exports : RejectExport(e)
                /\ UNCHANGED agentVars

HandlerTerminates == /\ Living /\ handler = "running"
                     /\ Call(Terminate)
                     /\ handler' = "terminating"
                     /\ UNCHANGED <<main, signaled>>

\* The send of the result cannot block, the channel has room for it.
HandlerReturns == /\ Living /\ handler \in {"running", "terminating"}
                  /\ handler' = "done"
                  /\ UNCHANGED <<vars, main, signaled>>

-----------------------------------------------------------------------------
(***************************************************************************)
(* runAgent                                                                *)
(***************************************************************************)
\* RegisterMetrics or NewHandler fails, before Stop is deferred.
SetupFails == /\ main = "setup"
              /\ main' = "exited"
              /\ UNCHANGED <<vars, handler, signaled>>

Serve == /\ main = "setup"
         /\ main' = "select"
         /\ handler' = "running"
         /\ UNCHANGED <<vars, signaled>>

\* SIGINT or SIGTERM.
Signal == /\ Living /\ ~signaled
          /\ signaled' = TRUE
          /\ UNCHANGED <<vars, main, handler>>

\* The two branches of the select; either may be taken when both are ready.
SelectSignal == /\ main = "select" /\ signaled
                /\ Call(Shutdown)
                /\ main' = "shutdown"
                /\ UNCHANGED <<handler, signaled>>

\* Bug: executeAgentHandler does not look at the result channel.
SelectResultIgnored == FALSE

SelectResult == /\ main = "select" /\ handler = "done"
                /\ Call(Deferred)
                /\ main' = "deferred"
                /\ UNCHANGED <<handler, signaled>>

ShutdownReturns == /\ main = "shutdown" /\ pc[Shutdown] = "returned"
                   /\ Call(Deferred)
                   /\ main' = "deferred"
                   /\ UNCHANGED <<handler, signaled>>

\* Bug: runAgent returns without waiting for the deferred Stop.
ExitAtOnce == /\ main = "deferred"
              /\ main' = "exited"
              /\ UNCHANGED <<vars, handler, signaled>>

Exit == /\ main = "deferred" /\ pc[Deferred] = "returned"
        /\ main' = "exited"
        /\ UNCHANGED <<vars, handler, signaled>>

\* A step of a goroutine of the plugin.
While(A) == Living /\ A /\ UNCHANGED agentVars

Exited == main = "exited" /\ UNCHANGED allVars

AgentNext == \/ HandlerCalls \/ HandlerTerminates \/ HandlerReturns
             \/ SetupFails \/ Serve \/ Signal
             \/ SelectSignal \/ SelectResult \/ ShutdownReturns \/ Exit
             \/ While(Step) \/ Exited

AgentSpec == AgentInit /\ [][AgentNext]_allVars

(***************************************************************************)
(* Fairness: runAgent goes on when it can, and the scheduling of the       *)
(* plugin's goroutines is that of PluginLifecycle without the deadline's   *)
(* timer.  Neither the agent nor the handler owes anything.                *)
(***************************************************************************)
AgentScheduling ==
  /\ WF_allVars(SelectSignal \/ SelectResult \/ ShutdownReturns \/ Exit)
  /\ \A c \in Configures : WF_allVars(While(ConfigureRuns(c)))
  /\ \A c \in Starts : WF_allVars(While(StartRuns(c)))
  /\ \A c \in Stops : WF_allVars(While(StopRuns(c)))
  /\ \A e \in Exports : WF_allVars(While(ExportRuns(e))) /\ WF_allVars(While(WatcherStep(e)))

-----------------------------------------------------------------------------
\* The types of the process's own variables and of the plugin's.
AgentTypeOK ==
  /\ TypeOK
  /\ main \in {"setup", "select", "shutdown", "deferred", "exited"}
  /\ handler \in {"none", "running", "terminating", "done"}
  /\ signaled \in BOOLEAN

\* Whichever way runAgent returns, by a signal, by a request to terminate, by
\* a failed connection or by several at once, the process does not end under
\* a running collection.
ExitOnlyWhenDrained ==
  main = "exited" => InFlight = {} /\ \A e \in Exports : ctx[e] # "active"

(***************************************************************************)
(* What makes ExitOnlyWhenDrained inductive: the invariant of the plugin,  *)
(* and how far the Stop calls of runAgent are at each place of it.         *)
(***************************************************************************)
AgentInv ==
  /\ IInv
  /\ AgentTypeOK
  /\ main = "setup" => handler = "none"
  /\ handler = "none" => main \in {"setup", "exited"}
  /\ handler = "none" => \A c \in Calls : pc[c] = "idle"
  /\ main = "exited" => handler = "none" \/ pc[Deferred] = "returned"
=============================================================================
