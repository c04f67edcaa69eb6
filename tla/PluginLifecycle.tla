-------------------------- MODULE PluginLifecycle --------------------------
(***************************************************************************)
(* The life of the plugin object of cmd/agent/plugin.go: what Configure,   *)
(* Start, Stop and Export do to the fields of Plugin when the agent SDK    *)
(* calls them from goroutines of its own, in any order and at once.        *)
(*                                                                         *)
(* A call is one element of Exports, Stops, Starts or Configures and pc    *)
(* says where its goroutine is:                                            *)
(*   Starts, Configures  idle, lock, locked, returned                      *)
(*   Stops               idle, lock, locked, wait, returned                *)
(*   Exports             idle, lock, locked, begin, collect, encode,       *)
(*                       cancel, release, returned                         *)
(* "lock" waits for lifecycleMu and "locked" holds it.  Everything a call  *)
(* does while it holds the mutex is one step together with the unlock:     *)
(* every access to stopping, stop and timeout is made under the mutex, so  *)
(* nothing can be seen in between.                                         *)
(***************************************************************************)
EXTENDS Integers, FiniteSets

CONSTANTS Exports, Stops, Starts, Configures,  \* the calls the SDK makes
          Timeouts,         \* the timeouts an agent may give, in seconds
          DefaultTimeout,   \* defaultTimeout
          Free              \* no call: nobody holds lifecycleMu

Calls == Exports \cup Stops \cup Starts \cup Configures

ASSUME CallsAssumption ==
  /\ Exports \cap (Stops \cup Starts \cup Configures) = {}
  /\ Stops \cap (Starts \cup Configures) = {}
  /\ Starts \cap Configures = {}
  /\ Free \notin Calls
  /\ IsFiniteSet(Exports)

ASSUME TimeoutAssumption ==
  /\ Timeouts \subseteq Int
  /\ DefaultTimeout \in Int /\ DefaultTimeout > 0

VARIABLES
  pc,         \* where each call is
  mu,         \* Plugin.lifecycleMu: the call that holds it, or Free
  stopping,   \* Plugin.stopping
  stop,       \* Plugin.stop: the number of a channel, 0 for nil
  made,       \* how many channels make(chan struct{}) has returned
  closed,     \* the channels that are closed
  timeout,    \* Plugin.timeout
  wg,         \* the counter of Plugin.exports
  held,       \* per Export: its local variable stop, 0 before it is set
  budget,     \* per Export: the timeout of its context, 0 before it is set
  ctx,        \* per Export: "none", "active", "canceled" or "expired"
  watcher,    \* per Export: its goroutine, "none", "waiting" or "exited"
  answer,     \* per Export: what it returns, "none" until it is decided
  panicked    \* the Go runtime has panicked

lockVars   == <<stopping, stop, made, closed, timeout>>
exportVars == <<held, budget, ctx, watcher, answer>>
vars == <<pc, mu, lockVars, wg, exportVars, panicked>>

InFlightPcs == {"begin", "collect", "encode", "cancel", "release"}

\* The exports that were let in and have not called exports.Done().
InFlight == {e \in Exports : pc[e] \in InFlightPcs}

-----------------------------------------------------------------------------
Init == /\ pc = [c \in Calls |-> "idle"]
        /\ mu = Free
        /\ stopping = FALSE
        /\ stop = 0 /\ made = 0 /\ closed = {}
        /\ timeout = 0
        /\ wg = 0
        /\ held = [e \in Exports |-> 0]
        /\ budget = [e \in Exports |-> 0]
        /\ ctx = [e \in Exports |-> "none"]
        /\ watcher = [e \in Exports |-> "none"]
        /\ answer = [e \in Exports |-> "none"]
        /\ panicked = FALSE

Goto(c, place) == pc' = [pc EXCEPT ![c] = place]

\* Leaving the critical section for place.
Unlock(c, place) == mu' = Free /\ Goto(c, place)

(***************************************************************************)
(* The SDK calls a method; an Export of another key, or with parameters,   *)
(* is answered with an error before it touches the plugin.                 *)
(***************************************************************************)
Call(c) == /\ pc[c] = "idle"
           /\ Goto(c, "lock")
           /\ UNCHANGED <<mu, lockVars, wg, exportVars, panicked>>

RejectExport(e) == /\ pc[e] = "idle"
                   /\ Goto(e, "returned")
                   /\ answer' = [answer EXCEPT ![e] = "rejected"]
                   /\ UNCHANGED <<mu, lockVars, wg, held, budget, ctx, watcher,
                                  panicked>>

Lock(c) == /\ pc[c] = "lock" /\ mu = Free
           /\ mu' = c
           /\ Goto(c, "locked")
           /\ UNCHANGED <<lockVars, wg, exportVars, panicked>>

\* p.stop = make(chan struct{}), unless there is a channel already.
EnsureStop == IF stop = 0 THEN made' = made + 1 /\ stop' = made + 1
                          ELSE UNCHANGED <<made, stop>>

-----------------------------------------------------------------------------
(***************************************************************************)
(* Configure, Start and Stop                                               *)
(***************************************************************************)
\* global is nil, which counts as 0, or has one of the timeouts.
ConfigureBody(c) ==
  /\ pc[c] = "locked"
  /\ \E t \in Timeouts \cup {0} :
       timeout' = IF t <= 0 THEN DefaultTimeout ELSE t
  /\ Unlock(c, "returned")
  /\ UNCHANGED <<stopping, stop, made, closed, wg, exportVars, panicked>>

StartBody(c) ==
  /\ pc[c] = "locked"
  /\ EnsureStop
  /\ Unlock(c, "returned")
  /\ UNCHANGED <<stopping, closed, timeout, wg, exportVars, panicked>>

\* close(p.stop): closing a channel twice panics.
CloseStop == /\ closed' = closed \cup {stop'}
             /\ panicked' = (panicked \/ stop' \in closed)

\* Bug: the channel is closed by every Stop.
StopBodyTwice(c) ==
  /\ pc[c] = "locked"
  /\ stopping' = TRUE /\ EnsureStop /\ CloseStop
  /\ Unlock(c, "wait")
  /\ UNCHANGED <<timeout, wg, exportVars>>

StopBody(c) ==
  /\ pc[c] = "locked"
  /\ IF ~stopping THEN stopping' = TRUE /\ EnsureStop /\ CloseStop
                  ELSE UNCHANGED <<stopping, stop, made, closed, panicked>>
  /\ Unlock(c, "wait")
  /\ UNCHANGED <<timeout, wg, exportVars>>

\* Bug: Stop does not wait.
StopReturnsAtOnce(c) ==
  /\ pc[c] = "wait"
  /\ Goto(c, "returned")
  /\ UNCHANGED <<mu, lockVars, wg, exportVars, panicked>>

\* exports.Wait() returns.
StopReturns(c) ==
  /\ pc[c] = "wait" /\ wg = 0
  /\ Goto(c, "returned")
  /\ UNCHANGED <<mu, lockVars, wg, exportVars, panicked>>

-----------------------------------------------------------------------------
(***************************************************************************)
(* Export                                                                  *)
(***************************************************************************)
\* Bug: the timeout of a plugin that was never configured is used as it is.
RequestTimeoutAsConfigured(configured, requested) ==
  IF requested > 0 THEN requested ELSE configured

\* requestTimeout; a provider that is nil counts as 0.
RequestTimeout(configured, requested) ==
  IF requested > 0 THEN requested
  ELSE IF configured > 0 THEN configured ELSE DefaultTimeout

Refuse(e) == /\ pc[e] = "locked" /\ stopping
             /\ Unlock(e, "returned")
             /\ answer' = [answer EXCEPT ![e] = "stopping"]
             /\ UNCHANGED <<lockVars, wg, held, budget, ctx, watcher, panicked>>

AdmitWhen(e, allowed) ==
  /\ pc[e] = "locked" /\ allowed
  /\ EnsureStop
  /\ held' = [held EXCEPT ![e] = stop']
  /\ \E t \in Timeouts \cup {0} :
       budget' = [budget EXCEPT ![e] = RequestTimeout(timeout, t)]
  /\ wg' = wg + 1
  /\ Unlock(e, "begin")
  /\ UNCHANGED <<stopping, closed, timeout, ctx, watcher, answer, panicked>>

\* Bug: beginExport does not look at stopping.
AdmitAlways(e) == AdmitWhen(e, TRUE)

Admit(e) == AdmitWhen(e, ~stopping)

\* context.WithTimeout, which is born expired when its timeout is not
\* positive, and go func() { select ... }.
BeginContext(e) ==
  /\ pc[e] = "begin"
  /\ ctx' = [ctx EXCEPT ![e] = IF budget[e] <= 0 THEN "expired" ELSE "active"]
  /\ watcher' = [watcher EXCEPT ![e] = "waiting"]
  /\ Goto(e, "collect")
  /\ UNCHANGED <<mu, lockVars, wg, held, budget, answer, panicked>>

\* Cancelling a context that is already done changes nothing.
CancelContext(e) ==
  ctx' = [ctx EXCEPT ![e] = IF @ = "active" THEN "canceled" ELSE @]

DeadlineExpires(e) == /\ ctx[e] = "active"
                      /\ ctx' = [ctx EXCEPT ![e] = "expired"]
                      /\ UNCHANGED <<pc, mu, lockVars, wg, held, budget, watcher,
                                     answer, panicked>>

\* The last look any command of the collection takes at its context.
CollectSucceeds(e) ==
  /\ pc[e] = "collect" /\ ctx[e] = "active"
  /\ Goto(e, "encode")
  /\ UNCHANGED <<mu, lockVars, wg, exportVars, panicked>>

\* Any command of the collection fails, or finds its context done.
CollectFails(e) ==
  /\ pc[e] = "collect"
  /\ answer' = [answer EXCEPT ![e] = "failed"]
  /\ Goto(e, "cancel")
  /\ UNCHANGED <<mu, lockVars, wg, held, budget, ctx, watcher, panicked>>

\* json.Marshal and the size limit.
Encode(e) ==
  /\ pc[e] = "encode"
  /\ \E a \in {"ok", "failed"} : answer' = [answer EXCEPT ![e] = a]
  /\ Goto(e, "cancel")
  /\ UNCHANGED <<mu, lockVars, wg, held, budget, ctx, watcher, panicked>>

\* Bug: finish does not cancel the context.
CancelForgotten(e) ==
  /\ pc[e] = "cancel"
  /\ Goto(e, "release")
  /\ UNCHANGED <<mu, lockVars, wg, exportVars, panicked>>

\* The deferred finish: first cancel(), ...
Cancel(e) == /\ pc[e] = "cancel"
             /\ CancelContext(e)
             /\ Goto(e, "release")
             /\ UNCHANGED <<mu, lockVars, wg, held, budget, watcher, answer, panicked>>

\* ... then p.exports.Done(), which panics below zero.
Done(e) == /\ pc[e] = "release"
           /\ wg' = wg - 1
           /\ panicked' = (panicked \/ wg' < 0)
           /\ Goto(e, "returned")
           /\ UNCHANGED <<mu, lockVars, exportVars>>

-----------------------------------------------------------------------------
(***************************************************************************)
(* The goroutine of an export: it waits for the stop channel or the end of *)
(* the context, and Go picks either branch when both are ready.            *)
(***************************************************************************)
\* Bug: the goroutine sees the stop channel and does not cancel.
WatcherStopOnly(e) == /\ watcher[e] = "waiting" /\ held[e] \in closed
                      /\ watcher' = [watcher EXCEPT ![e] = "exited"]
                      /\ UNCHANGED <<pc, mu, lockVars, wg, held, budget, ctx,
                                     answer, panicked>>

\* Bug: the goroutine waits for the stop channel alone.
WatcherDoneIgnored(e) == FALSE

WatcherStop(e) == /\ watcher[e] = "waiting" /\ held[e] \in closed
                  /\ CancelContext(e)
                  /\ watcher' = [watcher EXCEPT ![e] = "exited"]
                  /\ UNCHANGED <<pc, mu, lockVars, wg, held, budget, answer, panicked>>

WatcherDone(e) == /\ watcher[e] = "waiting" /\ ctx[e] # "active"
                  /\ watcher' = [watcher EXCEPT ![e] = "exited"]
                  /\ UNCHANGED <<pc, mu, lockVars, wg, held, budget, ctx, answer,
                                 panicked>>

-----------------------------------------------------------------------------
ExportStep(e) == \/ Refuse(e) \/ Admit(e) \/ BeginContext(e)
                 \/ CollectSucceeds(e) \/ CollectFails(e)
                 \/ Encode(e) \/ Cancel(e) \/ Done(e)

WatcherStep(e) == WatcherStop(e) \/ WatcherDone(e)

Step == \/ \E c \in Calls : Lock(c)
        \/ \E c \in Configures : ConfigureBody(c)
        \/ \E c \in Starts : StartBody(c)
        \/ \E c \in Stops : StopBody(c) \/ StopReturns(c)
        \/ \E e \in Exports : ExportStep(e) \/ WatcherStep(e) \/ DeadlineExpires(e)

\* Every call has returned and no goroutine is left: nothing more to do.
Quiet == /\ \A c \in Calls : pc[c] = "returned"
         /\ \A e \in Exports : watcher[e] # "waiting"
         /\ UNCHANGED vars

Next == \/ \E c \in Calls : Call(c)
        \/ \E e \in Exports : RejectExport(e)
        \/ Step
        \/ Quiet

Spec == Init /\ [][Next]_vars

(***************************************************************************)
(* Fairness.  The scheduler runs every goroutine that can run, and a free  *)
(* mutex is given to a waiter.  A collection whose context is done returns *)
(* (command.Runner bounds how long that takes); one whose context is       *)
(* active owes nothing.  The SDK owes no call, and the deadline's timer is *)
(* not counted on.                                                         *)
(***************************************************************************)
Interrupted(e) == ctx[e] # "active" /\ CollectFails(e)

\* The goroutine of a call goes on.
ExportRuns(e) == \/ Lock(e) \/ Refuse(e) \/ Admit(e) \/ BeginContext(e)
                 \/ Interrupted(e) \/ Encode(e) \/ Cancel(e) \/ Done(e)
StopRuns(c) == Lock(c) \/ StopBody(c) \/ StopReturns(c)
StartRuns(c) == Lock(c) \/ StartBody(c)
ConfigureRuns(c) == Lock(c) \/ ConfigureBody(c)

Scheduling ==
  /\ \A c \in Configures : WF_vars(ConfigureRuns(c))
  /\ \A c \in Starts : WF_vars(StartRuns(c))
  /\ \A c \in Stops : WF_vars(StopRuns(c))
  /\ \A e \in Exports : WF_vars(ExportRuns(e)) /\ WF_vars(WatcherStep(e))

PromptSpec == Spec /\ Scheduling

-----------------------------------------------------------------------------
(***************************************************************************)
(* Properties                                                              *)
(***************************************************************************)
ExportPcs == {"idle", "lock", "locked", "returned"} \cup InFlightPcs

\* Every variable has its type.
TypeOK ==
  /\ pc \in [Calls -> ExportPcs \cup {"wait"}]
  /\ mu \in Calls \cup {Free}
  /\ stopping \in BOOLEAN /\ panicked \in BOOLEAN
  /\ stop \in Nat /\ made \in Nat /\ closed \subseteq Nat
  /\ timeout \in Int
  /\ wg \in Nat
  /\ held \in [Exports -> Nat]
  /\ budget \in [Exports -> Int]
  /\ ctx \in [Exports -> {"none", "active", "canceled", "expired"}]
  /\ watcher \in [Exports -> {"none", "waiting", "exited"}]
  /\ answer \in [Exports -> {"none", "ok", "failed", "stopping", "rejected"}]

\* However often Stop is called, by the SDK's Terminate, by the signal path
\* and by the deferred call of runAgent at once, the channel is closed once
\* and the wait group never goes below zero.
NoPanic == ~panicked

\* When any Stop has returned, no collection is running and none of their
\* contexts is live: the caller may tear the process down
\* (TestPluginStopCancelsAndWaitsForActiveExports).
StopIsQuiescent ==
  \A s \in Stops : pc[s] = "returned" =>
    /\ InFlight = {}
    /\ \A e \in Exports : ctx[e] # "active"

\* Stop closes the one channel that every export in flight listens to, also
\* when exports and Stop race to create it before Start was ever called.
StopReachesEveryExport ==
  /\ \A e \in InFlight : held[e] = stop /\ stop # 0
  /\ stopping => stop \in closed

\* The context of a collection is never born expired: whatever zero,
\* negative or missing timeouts the agent gives to Configure and to the
\* request, and even when Configure has not run yet, the budget is positive.
BudgetPositive == \A e \in InFlight : budget[e] > 0

\* sync.WaitGroup must not be raised from zero while a Wait may be running:
\* no step raises the counter once a Stop has come to Wait.
WaitGroupRule ==
  [][(\E s \in Stops : pc[s] \in {"wait", "returned"}) => wg' <= wg]_vars

\* Nobody re-opens a plugin: no call made after a Stop took effect, not even
\* Start, gets an export in again, and no channel replaces the closed one.
StoppingIsForever ==
  [][stopping => stopping' /\ stop' = stop /\ InFlight' \subseteq InFlight]_vars

\* A Stop comes back without the help of any deadline: closing the channel is
\* enough to end the collections it waits for.
StopCompletes == \A s \in Stops : pc[s] = "lock" ~> pc[s] = "returned"

\* An export comes back, at the latest after its deadline.
ExportsReturn == \A e \in Exports : pc[e] = "lock" ~> pc[e] = "returned"

\* The goroutine of an export ends with it: neither a Stop nor the deadline,
\* which may be far off, is needed to free it (plugin.go:159-165).
WatchersExit ==
  \A e \in Exports :
    (watcher[e] = "waiting" /\ pc[e] = "returned") ~> watcher[e] = "exited"

-----------------------------------------------------------------------------
(***************************************************************************)
(* The plugin implements ExportGate.                                       *)
(***************************************************************************)
Phase == IF ~stopping THEN "open"
         ELSE IF \E s \in Stops : pc[s] = "returned" THEN "closed"
         ELSE "draining"

Answered == [e \in Exports |-> IF pc[e] = "returned" THEN answer[e] ELSE "none"]

Gate == INSTANCE ExportGate WITH Requests <- Exports, phase <- Phase,
                                 active <- InFlight, answer <- Answered

\* Export, Start and Stop behave like the gate of ExportGate: exports enter
\* while the plugin is open, are refused from the moment a Stop took effect,
\* and a Stop returns only when the last of them has left.
GateSpec == Gate!Spec

-----------------------------------------------------------------------------
(***************************************************************************)
(* The inductive invariant behind the safety properties.                   *)
(***************************************************************************)
\* The mutex is held by exactly the call that is in its critical section.
MutexInv == \A c \in Calls : pc[c] = "locked" <=> mu = c

\* The wait group counts the exports in flight.
CountInv == wg = Cardinality(InFlight)

\* There is at most one stop channel, open until a Stop closes it.
ChannelInv ==
  /\ made = stop /\ stop \in {0, 1}
  /\ closed = IF stopping THEN {1} ELSE {}
  /\ stopping => stop = 1

\* What a Stop has done when it waits, and what it knows when it returns.
StopInv ==
  /\ \A s \in Stops : pc[s] \in {"wait", "returned"} => stopping
  /\ \A s \in Stops : pc[s] = "returned" => InFlight = {}

\* What each export owns at each place.
ExportInv ==
  \A e \in Exports :
    /\ pc[e] # "wait"
    /\ pc[e] \in InFlightPcs => held[e] = 1 /\ stop = 1 /\ budget[e] > 0
    /\ ctx[e] = "active" => pc[e] \in {"collect", "encode", "cancel"}
    /\ pc[e] \in {"idle", "lock", "locked", "begin", "collect", "encode"}
         => answer[e] = "none"
    /\ pc[e] \in {"cancel", "release"} => answer[e] \in {"ok", "failed"}

\* The conjunction is preserved by every step of the plugin and implies the
\* state properties above.
IInv == TypeOK /\ MutexInv /\ CountInv /\ ChannelInv /\ StopInv /\ ExportInv
          /\ ~panicked
=============================================================================
