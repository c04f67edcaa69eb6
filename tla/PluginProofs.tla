---------------------------- MODULE PluginProofs ----------------------------
(***************************************************************************)
(* Proofs about the plugin: PluginLifecycle alone, with its commands       *)
(* (ExportRun), and in the process that it ends with (AgentProcess, Main), *)
(* for any sets of calls, any timeouts and any number of commands.         *)
(*                                                                         *)
(* IInv is inductive: one lemma per action of PluginLifecycle shows that   *)
(* it is preserved, and says what the action does to the set of exports in *)
(* flight.  The invariants, the action properties and the refinement of    *)
(* ExportGate follow from these lemmas; the systems that the plugin is     *)
(* part of take its steps, and keep it.                                    *)
(***************************************************************************)
EXTENDS Main, ExportRun, FiniteSetTheorems, TLAPS

\* The exports in flight are a finite set, because the exports are.
LEMMA InFlightFinite == IsFiniteSet(InFlight)
BY CallsAssumption, FS_Subset DEF InFlight

\* A call queues for the mutex.
LEMMA CallInv ==
  ASSUME IInv, NEW c \in Calls, Call(c)
  PROVE  IInv' /\ InFlight' = InFlight
<1> USE CallsAssumption, TimeoutAssumption
    DEF IInv, Calls, InFlightPcs, lockVars, exportVars
<1>1. TypeOK' /\ ~panicked'
  BY DEF TypeOK, ExportPcs, Call, Goto
<1>2. MutexInv'
  BY DEF TypeOK, MutexInv, Call, Goto
<1>3. InFlight' = InFlight
  BY DEF TypeOK, InFlight, Call, Goto
<1>4. CountInv'
  BY <1>3 DEF CountInv, Call, Goto
<1>5. ChannelInv'
  BY DEF ChannelInv, Call, Goto
<1>6. StopInv'
  BY <1>3 DEF TypeOK, StopInv, Call, Goto
<1>7. ExportInv'
  BY DEF TypeOK, ExportInv, Call, Goto
<1> QED BY <1>1, <1>2, <1>3, <1>4, <1>5, <1>6, <1>7

\* An invalid export never meets the lifecycle.
LEMMA RejectExportInv ==
  ASSUME IInv, NEW e \in Exports, RejectExport(e)
  PROVE  IInv' /\ InFlight' = InFlight
<1> USE CallsAssumption, TimeoutAssumption
    DEF IInv, Calls, InFlightPcs, lockVars, exportVars
<1>1. TypeOK' /\ ~panicked'
  BY DEF TypeOK, ExportPcs, RejectExport, Goto
<1>2. MutexInv'
  BY DEF TypeOK, MutexInv, RejectExport, Goto
<1>3. InFlight' = InFlight
  BY DEF TypeOK, InFlight, RejectExport, Goto
<1>4. CountInv'
  BY <1>3 DEF CountInv, RejectExport, Goto
<1>5. ChannelInv'
  BY DEF ChannelInv, RejectExport, Goto
<1>6. StopInv'
  BY <1>3 DEF TypeOK, StopInv, RejectExport, Goto
<1>7. ExportInv'
  BY DEF TypeOK, ExportInv, RejectExport, Goto
<1> QED BY <1>1, <1>2, <1>3, <1>4, <1>5, <1>6, <1>7

\* Taking the free mutex.
LEMMA LockInv ==
  ASSUME IInv, NEW c \in Calls, Lock(c)
  PROVE  IInv' /\ InFlight' = InFlight
<1> USE CallsAssumption, TimeoutAssumption
    DEF IInv, Calls, InFlightPcs, lockVars, exportVars
<1>1. TypeOK' /\ ~panicked'
  BY DEF TypeOK, ExportPcs, Lock, Goto
<1>2. MutexInv'
  BY DEF TypeOK, MutexInv, Lock, Goto
<1>3. InFlight' = InFlight
  BY DEF TypeOK, InFlight, Lock, Goto
<1>4. CountInv'
  BY <1>3 DEF CountInv, Lock, Goto
<1>5. ChannelInv'
  BY DEF ChannelInv, Lock, Goto
<1>6. StopInv'
  BY <1>3 DEF TypeOK, StopInv, Lock, Goto
<1>7. ExportInv'
  BY DEF TypeOK, ExportInv, Lock, Goto
<1> QED BY <1>1, <1>2, <1>3, <1>4, <1>5, <1>6, <1>7

\* Configure only writes timeout.
LEMMA ConfigureBodyInv ==
  ASSUME IInv, NEW c \in Configures, ConfigureBody(c)
  PROVE  IInv' /\ InFlight' = InFlight
<1> USE CallsAssumption, TimeoutAssumption
    DEF IInv, Calls, InFlightPcs, lockVars, exportVars
<1>1. TypeOK' /\ ~panicked'
  BY DEF TypeOK, ExportPcs, ConfigureBody, Unlock, Goto
<1>2. MutexInv'
  BY DEF TypeOK, MutexInv, ConfigureBody, Unlock, Goto
<1>3. InFlight' = InFlight
  BY DEF TypeOK, InFlight, ConfigureBody, Unlock, Goto
<1>4. CountInv'
  BY <1>3 DEF CountInv, ConfigureBody, Unlock, Goto
<1>5. ChannelInv'
  BY DEF ChannelInv, ConfigureBody, Unlock, Goto
<1>6. StopInv'
  BY <1>3 DEF TypeOK, StopInv, ConfigureBody, Unlock, Goto
<1>7. ExportInv'
  BY DEF TypeOK, ExportInv, ConfigureBody, Unlock, Goto
<1> QED BY <1>1, <1>2, <1>3, <1>4, <1>5, <1>6, <1>7

\* Start makes the channel when there is none, so stopping is FALSE then.
LEMMA StartBodyInv ==
  ASSUME IInv, NEW c \in Starts, StartBody(c)
  PROVE  IInv' /\ InFlight' = InFlight
<1> USE CallsAssumption, TimeoutAssumption
    DEF IInv, Calls, InFlightPcs, lockVars, exportVars
<1>1. TypeOK' /\ ~panicked'
  BY DEF TypeOK, ExportPcs, StartBody, EnsureStop, Unlock, Goto
<1>2. MutexInv'
  BY DEF TypeOK, MutexInv, StartBody, EnsureStop, Unlock, Goto
<1>3. InFlight' = InFlight
  BY DEF TypeOK, InFlight, StartBody, EnsureStop, Unlock, Goto
<1>4. CountInv'
  BY <1>3 DEF CountInv, StartBody, EnsureStop, Unlock, Goto
<1>5. ChannelInv'
  BY DEF ChannelInv, StartBody, EnsureStop, Unlock, Goto
<1>6. StopInv'
  BY <1>3 DEF TypeOK, StopInv, StartBody, EnsureStop, Unlock, Goto
<1>7. ExportInv'
  BY DEF TypeOK, ExportInv, ChannelInv, StartBody, EnsureStop, Unlock,
      Goto
<1> QED BY <1>1, <1>2, <1>3, <1>4, <1>5, <1>6, <1>7

\* The first Stop closes a channel that is open, the others close nothing.
LEMMA StopBodyInv ==
  ASSUME IInv, NEW s \in Stops, StopBody(s)
  PROVE  IInv' /\ InFlight' = InFlight
<1> USE CallsAssumption, TimeoutAssumption
    DEF IInv, Calls, InFlightPcs, lockVars, exportVars
<1>1. TypeOK' /\ ~panicked'
  <2>1. stop' \in Nat /\ made' \in Nat
    BY DEF TypeOK, StopBody, EnsureStop
  <2>2. closed' \subseteq Nat
    BY <2>1 DEF TypeOK, StopBody, CloseStop
  <2>3. stopping' \in BOOLEAN /\ panicked' \in BOOLEAN /\ ~panicked'
    BY DEF TypeOK, ChannelInv, StopBody, EnsureStop, CloseStop
  <2> QED BY <2>1, <2>2, <2>3 DEF TypeOK, ExportPcs, StopBody, Unlock, Goto
<1>2. MutexInv'
  BY DEF TypeOK, MutexInv, StopBody, EnsureStop, CloseStop, Unlock, Goto
<1>3. InFlight' = InFlight
  BY DEF TypeOK, InFlight, StopBody, EnsureStop, CloseStop, Unlock, Goto
<1>4. CountInv'
  BY <1>3 DEF CountInv, StopBody, EnsureStop, CloseStop, Unlock, Goto
<1>5. ChannelInv'
  BY DEF ChannelInv, StopBody, EnsureStop, CloseStop, Unlock, Goto
<1>6. StopInv'
  BY <1>3 DEF TypeOK, StopInv, StopBody, EnsureStop, CloseStop, Unlock,
      Goto
<1>7. ExportInv'
  BY DEF TypeOK, ExportInv, ChannelInv, StopBody, EnsureStop, CloseStop,
      Unlock, Goto
<1> QED BY <1>1, <1>2, <1>3, <1>4, <1>5, <1>6, <1>7

\* A wait group at zero means that no export is in flight.
LEMMA StopReturnsInv ==
  ASSUME IInv, NEW s \in Stops, StopReturns(s)
  PROVE  IInv' /\ InFlight' = InFlight
<1> USE CallsAssumption, TimeoutAssumption
    DEF IInv, Calls, InFlightPcs, lockVars, exportVars
<1>1. TypeOK' /\ ~panicked'
  BY DEF TypeOK, ExportPcs, StopReturns, Goto
<1>2. MutexInv'
  BY DEF TypeOK, MutexInv, StopReturns, Goto
<1>3. InFlight' = InFlight
  BY DEF TypeOK, InFlight, StopReturns, Goto
<1>4. CountInv'
  BY <1>3 DEF CountInv, StopReturns, Goto
<1>5. ChannelInv'
  BY DEF ChannelInv, StopReturns, Goto
<1>6. InFlight = {}
  BY InFlightFinite, FS_EmptySet DEF CountInv, StopReturns, Goto
<1>7. StopInv'
  BY <1>3, <1>6 DEF TypeOK, StopInv, StopReturns, Goto
<1>8. ExportInv'
  BY DEF TypeOK, ExportInv, StopReturns, Goto
<1> QED BY <1>1, <1>2, <1>3, <1>4, <1>5, <1>7, <1>8

\* A refused export is not counted.
LEMMA RefuseInv ==
  ASSUME IInv, NEW e \in Exports, Refuse(e)
  PROVE  IInv' /\ InFlight' = InFlight
<1> USE CallsAssumption, TimeoutAssumption
    DEF IInv, Calls, InFlightPcs, lockVars, exportVars
<1>1. TypeOK' /\ ~panicked'
  BY DEF TypeOK, ExportPcs, Refuse, Unlock, Goto
<1>2. MutexInv'
  BY DEF TypeOK, MutexInv, Refuse, Unlock, Goto
<1>3. InFlight' = InFlight
  BY DEF TypeOK, InFlight, Refuse, Unlock, Goto
<1>4. CountInv'
  BY <1>3 DEF CountInv, Refuse, Unlock, Goto
<1>5. ChannelInv'
  BY DEF ChannelInv, Refuse, Unlock, Goto
<1>6. StopInv'
  BY <1>3 DEF TypeOK, StopInv, Refuse, Unlock, Goto
<1>7. ExportInv'
  BY DEF TypeOK, ExportInv, MutexInv, Refuse, Unlock, Goto
<1> QED BY <1>1, <1>2, <1>3, <1>4, <1>5, <1>6, <1>7

\* An admitted export is counted under the mutex, while no Stop has taken
\* effect and so none waits.
LEMMA AdmitInv ==
  ASSUME IInv, NEW e \in Exports, Admit(e)
  PROVE  IInv' /\ InFlight' = InFlight \cup {e}
<1> USE CallsAssumption, TimeoutAssumption
    DEF IInv, Calls, InFlightPcs, lockVars, exportVars
<1>1. \A t \in Timeouts \cup {0} : /\ RequestTimeout(timeout, t) \in Int
                                    /\ RequestTimeout(timeout, t) > 0
  BY DEF TypeOK, RequestTimeout
<1>2. stop' = 1 /\ made' = 1
  BY DEF ChannelInv, Admit, AdmitWhen, EnsureStop, Unlock, Goto
<1>3. \E b \in Int : b > 0 /\ budget' = [budget EXCEPT ![e] = b]
  BY <1>1 DEF Admit, AdmitWhen, EnsureStop, Unlock, Goto
<1>4. TypeOK' /\ ~panicked'
  BY <1>2, <1>3 DEF TypeOK, ExportPcs, Admit, AdmitWhen, EnsureStop,
      Unlock, Goto
<1>5. MutexInv'
  BY DEF TypeOK, MutexInv, Admit, AdmitWhen, EnsureStop, Unlock, Goto
<1>6. e \notin InFlight /\ InFlight' = InFlight \cup {e}
  BY DEF TypeOK, InFlight, Admit, AdmitWhen, EnsureStop, Unlock, Goto
<1>7. CountInv'
  BY <1>6, InFlightFinite, FS_AddElement DEF CountInv, Admit, AdmitWhen,
      EnsureStop, Unlock, Goto
<1>8. ChannelInv'
  BY <1>2 DEF ChannelInv, Admit, AdmitWhen, EnsureStop, Unlock, Goto
<1>9. StopInv'
  BY DEF TypeOK, StopInv, Admit, AdmitWhen, EnsureStop, Unlock, Goto
<1>10. ExportInv'
  BY <1>2, <1>3 DEF TypeOK, ExportInv, Admit, AdmitWhen, EnsureStop,
      Unlock, Goto
<1> QED BY <1>4, <1>5, <1>6, <1>7, <1>8, <1>9, <1>10

\* The context begins active, because the budget is positive.
LEMMA BeginContextInv ==
  ASSUME IInv, NEW e \in Exports, BeginContext(e)
  PROVE  IInv' /\ InFlight' = InFlight
<1> USE CallsAssumption, TimeoutAssumption
    DEF IInv, Calls, InFlightPcs, lockVars, exportVars
<1>1. TypeOK' /\ ~panicked'
  BY DEF TypeOK, ExportPcs, BeginContext, Goto
<1>2. MutexInv'
  BY DEF TypeOK, MutexInv, BeginContext, Goto
<1>3. InFlight' = InFlight
  BY DEF TypeOK, InFlight, BeginContext, Goto
<1>4. CountInv'
  BY <1>3 DEF CountInv, BeginContext, Goto
<1>5. ChannelInv'
  BY DEF ChannelInv, BeginContext, Goto
<1>6. StopInv'
  BY <1>3 DEF TypeOK, StopInv, BeginContext, Goto
<1>7. ExportInv'
  BY DEF TypeOK, ExportInv, BeginContext, Goto
<1> QED BY <1>1, <1>2, <1>3, <1>4, <1>5, <1>6, <1>7

\* A complete collection goes on to the encoding.
LEMMA CollectSucceedsInv ==
  ASSUME IInv, NEW e \in Exports, CollectSucceeds(e)
  PROVE  IInv' /\ InFlight' = InFlight
<1> USE CallsAssumption, TimeoutAssumption
    DEF IInv, Calls, InFlightPcs, lockVars, exportVars
<1>1. TypeOK' /\ ~panicked'
  BY DEF TypeOK, ExportPcs, CollectSucceeds, Goto
<1>2. MutexInv'
  BY DEF TypeOK, MutexInv, CollectSucceeds, Goto
<1>3. InFlight' = InFlight
  BY DEF TypeOK, InFlight, CollectSucceeds, Goto
<1>4. CountInv'
  BY <1>3 DEF CountInv, CollectSucceeds, Goto
<1>5. ChannelInv'
  BY DEF ChannelInv, CollectSucceeds, Goto
<1>6. StopInv'
  BY <1>3 DEF TypeOK, StopInv, CollectSucceeds, Goto
<1>7. ExportInv'
  BY DEF TypeOK, ExportInv, CollectSucceeds, Goto
<1> QED BY <1>1, <1>2, <1>3, <1>4, <1>5, <1>6, <1>7

\* A failed collection decides the answer.
LEMMA CollectFailsInv ==
  ASSUME IInv, NEW e \in Exports, CollectFails(e)
  PROVE  IInv' /\ InFlight' = InFlight
<1> USE CallsAssumption, TimeoutAssumption
    DEF IInv, Calls, InFlightPcs, lockVars, exportVars
<1>1. TypeOK' /\ ~panicked'
  BY DEF TypeOK, ExportPcs, CollectFails, Goto
<1>2. MutexInv'
  BY DEF TypeOK, MutexInv, CollectFails, Goto
<1>3. InFlight' = InFlight
  BY DEF TypeOK, InFlight, CollectFails, Goto
<1>4. CountInv'
  BY <1>3 DEF CountInv, CollectFails, Goto
<1>5. ChannelInv'
  BY DEF ChannelInv, CollectFails, Goto
<1>6. StopInv'
  BY <1>3 DEF TypeOK, StopInv, CollectFails, Goto
<1>7. ExportInv'
  BY DEF TypeOK, ExportInv, CollectFails, Goto
<1> QED BY <1>1, <1>2, <1>3, <1>4, <1>5, <1>6, <1>7

\* The encoding decides the answer.
LEMMA EncodeInv ==
  ASSUME IInv, NEW e \in Exports, Encode(e)
  PROVE  IInv' /\ InFlight' = InFlight
<1> USE CallsAssumption, TimeoutAssumption
    DEF IInv, Calls, InFlightPcs, lockVars, exportVars
<1>1. TypeOK' /\ ~panicked'
  BY DEF TypeOK, ExportPcs, Encode, Goto
<1>2. MutexInv'
  BY DEF TypeOK, MutexInv, Encode, Goto
<1>3. InFlight' = InFlight
  BY DEF TypeOK, InFlight, Encode, Goto
<1>4. CountInv'
  BY <1>3 DEF CountInv, Encode, Goto
<1>5. ChannelInv'
  BY DEF ChannelInv, Encode, Goto
<1>6. StopInv'
  BY <1>3 DEF TypeOK, StopInv, Encode, Goto
<1>7. ExportInv'
  BY DEF TypeOK, ExportInv, Encode, Goto
<1> QED BY <1>1, <1>2, <1>3, <1>4, <1>5, <1>6, <1>7

\* After finish has cancelled it the context is not active.
LEMMA CancelInv ==
  ASSUME IInv, NEW e \in Exports, Cancel(e)
  PROVE  IInv' /\ InFlight' = InFlight
<1> USE CallsAssumption, TimeoutAssumption
    DEF IInv, Calls, InFlightPcs, lockVars, exportVars
<1>1. TypeOK' /\ ~panicked'
  BY DEF TypeOK, ExportPcs, Cancel, CancelContext, Goto
<1>2. MutexInv'
  BY DEF TypeOK, MutexInv, Cancel, CancelContext, Goto
<1>3. InFlight' = InFlight
  BY DEF TypeOK, InFlight, Cancel, CancelContext, Goto
<1>4. CountInv'
  BY <1>3 DEF CountInv, Cancel, CancelContext, Goto
<1>5. ChannelInv'
  BY DEF ChannelInv, Cancel, CancelContext, Goto
<1>6. StopInv'
  BY <1>3 DEF TypeOK, StopInv, Cancel, CancelContext, Goto
<1>7. ExportInv'
  BY DEF TypeOK, ExportInv, Cancel, CancelContext, Goto
<1> QED BY <1>1, <1>2, <1>3, <1>4, <1>5, <1>6, <1>7

\* An export leaves and is no longer counted.
LEMMA DoneInv ==
  ASSUME IInv, NEW e \in Exports, Done(e)
  PROVE  IInv' /\ InFlight' = InFlight \ {e}
<1> USE CallsAssumption, TimeoutAssumption
    DEF IInv, Calls, InFlightPcs, lockVars, exportVars
<1>1. e \in InFlight
  BY DEF InFlight, Done, Goto
<1>2. wg > 0
  BY <1>1, InFlightFinite, FS_EmptySet, FS_CardinalityType DEF CountInv,
      TypeOK
<1>3. TypeOK' /\ ~panicked'
  BY <1>2 DEF TypeOK, ExportPcs, Done, Goto
<1>4. MutexInv'
  BY DEF TypeOK, MutexInv, Done, Goto
<1>5. InFlight' = InFlight \ {e}
  BY DEF TypeOK, InFlight, Done, Goto
<1>6. CountInv'
  BY <1>1, <1>5, InFlightFinite, FS_RemoveElement DEF CountInv, Done, Goto
<1>7. ChannelInv'
  BY DEF ChannelInv, Done, Goto
<1>8. StopInv'
  BY <1>5 DEF TypeOK, StopInv, Done, Goto
<1>9. ExportInv'
  BY DEF TypeOK, ExportInv, Done, Goto
<1> QED BY <1>3, <1>4, <1>5, <1>6, <1>7, <1>8, <1>9

\* The goroutine may end the context, nothing else.
LEMMA WatcherStopInv ==
  ASSUME IInv, NEW e \in Exports, WatcherStop(e)
  PROVE  IInv' /\ InFlight' = InFlight
<1> USE CallsAssumption, TimeoutAssumption
    DEF IInv, Calls, InFlightPcs, lockVars, exportVars
<1>1. TypeOK' /\ ~panicked'
  BY DEF TypeOK, ExportPcs, WatcherStop, CancelContext
<1>2. MutexInv'
  BY DEF TypeOK, MutexInv, WatcherStop, CancelContext
<1>3. InFlight' = InFlight
  BY DEF TypeOK, InFlight, WatcherStop, CancelContext
<1>4. CountInv'
  BY <1>3 DEF CountInv, WatcherStop, CancelContext
<1>5. ChannelInv'
  BY DEF ChannelInv, WatcherStop, CancelContext
<1>6. StopInv'
  BY <1>3 DEF TypeOK, StopInv, WatcherStop, CancelContext
<1>7. ExportInv'
  BY DEF TypeOK, ExportInv, WatcherStop, CancelContext
<1> QED BY <1>1, <1>2, <1>3, <1>4, <1>5, <1>6, <1>7

\* The goroutine ends with the context.
LEMMA WatcherDoneInv ==
  ASSUME IInv, NEW e \in Exports, WatcherDone(e)
  PROVE  IInv' /\ InFlight' = InFlight
<1> USE CallsAssumption, TimeoutAssumption
    DEF IInv, Calls, InFlightPcs, lockVars, exportVars
<1>1. TypeOK' /\ ~panicked'
  BY DEF TypeOK, ExportPcs, WatcherDone
<1>2. MutexInv'
  BY DEF TypeOK, MutexInv, WatcherDone
<1>3. InFlight' = InFlight
  BY DEF TypeOK, InFlight, WatcherDone
<1>4. CountInv'
  BY <1>3 DEF CountInv, WatcherDone
<1>5. ChannelInv'
  BY DEF ChannelInv, WatcherDone
<1>6. StopInv'
  BY <1>3 DEF TypeOK, StopInv, WatcherDone
<1>7. ExportInv'
  BY DEF TypeOK, ExportInv, WatcherDone
<1> QED BY <1>1, <1>2, <1>3, <1>4, <1>5, <1>6, <1>7

\* The deadline may end the context, nothing else.
LEMMA DeadlineExpiresInv ==
  ASSUME IInv, NEW e \in Exports, DeadlineExpires(e)
  PROVE  IInv' /\ InFlight' = InFlight
<1> USE CallsAssumption, TimeoutAssumption
    DEF IInv, Calls, InFlightPcs, lockVars, exportVars
<1>1. TypeOK' /\ ~panicked'
  BY DEF TypeOK, ExportPcs, DeadlineExpires
<1>2. MutexInv'
  BY DEF TypeOK, MutexInv, DeadlineExpires
<1>3. InFlight' = InFlight
  BY DEF TypeOK, InFlight, DeadlineExpires
<1>4. CountInv'
  BY <1>3 DEF CountInv, DeadlineExpires
<1>5. ChannelInv'
  BY DEF ChannelInv, DeadlineExpires
<1>6. StopInv'
  BY <1>3 DEF TypeOK, StopInv, DeadlineExpires
<1>7. ExportInv'
  BY DEF TypeOK, ExportInv, DeadlineExpires
<1> QED BY <1>1, <1>2, <1>3, <1>4, <1>5, <1>6, <1>7

-----------------------------------------------------------------------------
\* The initial states satisfy the inductive invariant.
LEMMA InitInv == Init => IInv
<1> SUFFICES ASSUME Init PROVE IInv
  OBVIOUS
<1> USE CallsAssumption DEF Init, Calls
<1>1. TypeOK /\ ~panicked
  <2>1. pc \in [Calls -> ExportPcs \cup {"wait"}] BY DEF ExportPcs
  <2>2. /\ held \in [Exports -> Nat] /\ budget \in [Exports -> Int]
        /\ ctx \in [Exports -> {"none", "active", "canceled", "expired"}]
        /\ watcher \in [Exports -> {"none", "waiting", "exited"}]
        /\ answer \in [Exports -> {"none", "ok", "failed", "stopping", "rejected"}]
    OBVIOUS
  <2>3. stopping \in BOOLEAN /\ panicked \in BOOLEAN /\ ~panicked
    OBVIOUS
  <2>4. /\ mu \in Calls \cup {Free}
        /\ stop \in Nat /\ made \in Nat /\ closed \subseteq Nat
        /\ timeout \in Int /\ wg \in Nat
    OBVIOUS
  <2> QED BY <2>1, <2>2, <2>3, <2>4 DEF TypeOK
<1>2. MutexInv BY DEF MutexInv
<1>3. InFlight = {} BY DEF InFlight, InFlightPcs
<1>4. CountInv BY <1>3, FS_EmptySet DEF CountInv
<1>5. ChannelInv BY DEF ChannelInv
<1>6. StopInv BY DEF StopInv
<1>7. ExportInv BY DEF ExportInv, InFlightPcs
<1> QED BY <1>1, <1>2, <1>4, <1>5, <1>6, <1>7 DEF IInv

\* A step that changes no variable preserves it.
LEMMA StutterInv == ASSUME IInv, UNCHANGED vars PROVE IInv' /\ InFlight' = InFlight
BY DEF vars, lockVars, exportVars, IInv, TypeOK, MutexInv, CountInv, ChannelInv,
       StopInv, ExportInv, InFlight

\* Every step of the plugin preserves the inductive invariant.
LEMMA NextInv == ASSUME IInv, [Next]_vars PROVE IInv'
BY CallInv, RejectExportInv, LockInv, ConfigureBodyInv, StartBodyInv,
   StopBodyInv, StopReturnsInv, RefuseInv, AdmitInv, BeginContextInv,
   CollectSucceedsInv, CollectFailsInv, EncodeInv, CancelInv, DoneInv,
   WatcherStopInv, WatcherDoneInv, DeadlineExpiresInv, StutterInv DEF Next,
   Step, ExportStep, WatcherStep, Quiet

\* The inductive invariant holds in every state of every behaviour.
THEOREM Invariance == Spec => []IInv
<1>1. Init => IInv BY InitInv
<1>2. IInv /\ [Next]_vars => IInv' BY NextInv
<1> QED BY <1>1, <1>2, PTL DEF Spec

\* The types of the variables, for any number of calls.
THEOREM TypeCorrect == Spec => []TypeOK
BY Invariance, PTL DEF IInv

\* The stop channel is closed once and the wait group never goes below zero.
THEOREM NeverPanics == Spec => []NoPanic
<1>1. IInv => NoPanic BY DEF IInv, NoPanic
<1> QED BY <1>1, Invariance, PTL

\* No collection and no live context is left once a Stop has returned.
THEOREM StopDrains == Spec => []StopIsQuiescent
<1>1. IInv => StopIsQuiescent
  BY DEF IInv, StopInv, ExportInv, StopIsQuiescent, InFlight, InFlightPcs
<1> QED BY <1>1, Invariance, PTL

\* Every export in flight listens to the channel that Stop closes.
THEOREM StopIsHeard == Spec => []StopReachesEveryExport
<1>1. IInv => StopReachesEveryExport
  BY DEF IInv, ChannelInv, ExportInv, StopReachesEveryExport, InFlight
<1> QED BY <1>1, Invariance, PTL

\* Every export in flight has a positive budget.
THEOREM BudgetsArePositive == Spec => []BudgetPositive
<1>1. IInv => BudgetPositive BY DEF IInv, ExportInv, BudgetPositive, InFlight
<1> QED BY <1>1, Invariance, PTL

-----------------------------------------------------------------------------
\* Once a Stop took effect no step undoes it, replaces the channel or raises
\* the wait group.
LEMMA AfterStop ==
  ASSUME IInv, [Next]_vars, stopping
  PROVE  stopping' /\ stop' = stop /\ wg' <= wg
<1> USE DEF lockVars, exportVars
<1>0. stopping = TRUE /\ stop = 1 /\ wg \in Nat BY DEF IInv, TypeOK, ChannelInv
<1>1. ASSUME NEW c \in Calls, Call(c)
      PROVE  stopping' /\ stop' = stop /\ wg' <= wg
  BY <1>0, <1>1 DEF Call
<1>2. ASSUME NEW e \in Exports, RejectExport(e)
      PROVE  stopping' /\ stop' = stop /\ wg' <= wg
  BY <1>0, <1>2 DEF RejectExport
<1>3. ASSUME NEW c \in Calls, Lock(c)
      PROVE  stopping' /\ stop' = stop /\ wg' <= wg
  BY <1>0, <1>3 DEF Lock
<1>4. ASSUME NEW c \in Configures, ConfigureBody(c)
      PROVE  stopping' /\ stop' = stop /\ wg' <= wg
  BY <1>0, <1>4 DEF ConfigureBody
<1>5. ASSUME NEW c \in Starts, StartBody(c)
      PROVE  stopping' /\ stop' = stop /\ wg' <= wg
  BY <1>0, <1>5 DEF StartBody, EnsureStop
<1>6. ASSUME NEW s \in Stops, StopBody(s)
      PROVE  stopping' /\ stop' = stop /\ wg' <= wg
  BY <1>0, <1>6 DEF StopBody
<1>7. ASSUME NEW s \in Stops, StopReturns(s)
      PROVE  stopping' /\ stop' = stop /\ wg' <= wg
  BY <1>0, <1>7 DEF StopReturns
<1>8. ASSUME NEW e \in Exports, Refuse(e)
      PROVE  stopping' /\ stop' = stop /\ wg' <= wg
  BY <1>0, <1>8 DEF Refuse
<1>9. ASSUME NEW e \in Exports, Admit(e)
      PROVE  stopping' /\ stop' = stop /\ wg' <= wg
  BY <1>0, <1>9 DEF Admit, AdmitWhen
<1>10. ASSUME NEW e \in Exports, BeginContext(e)
       PROVE  stopping' /\ stop' = stop /\ wg' <= wg
  BY <1>0, <1>10 DEF BeginContext
<1>11. ASSUME NEW e \in Exports, CollectSucceeds(e)
       PROVE  stopping' /\ stop' = stop /\ wg' <= wg
  BY <1>0, <1>11 DEF CollectSucceeds
<1>12. ASSUME NEW e \in Exports, CollectFails(e)
       PROVE  stopping' /\ stop' = stop /\ wg' <= wg
  BY <1>0, <1>12 DEF CollectFails
<1>13. ASSUME NEW e \in Exports, Encode(e)
       PROVE  stopping' /\ stop' = stop /\ wg' <= wg
  BY <1>0, <1>13 DEF Encode
<1>14. ASSUME NEW e \in Exports, Cancel(e)
       PROVE  stopping' /\ stop' = stop /\ wg' <= wg
  BY <1>0, <1>14 DEF Cancel
<1>15. ASSUME NEW e \in Exports, Done(e)
       PROVE  stopping' /\ stop' = stop /\ wg' <= wg
  BY <1>0, <1>15 DEF Done
<1>16. ASSUME NEW e \in Exports, WatcherStop(e)
       PROVE  stopping' /\ stop' = stop /\ wg' <= wg
  BY <1>0, <1>16 DEF WatcherStop
<1>17. ASSUME NEW e \in Exports, WatcherDone(e)
       PROVE  stopping' /\ stop' = stop /\ wg' <= wg
  BY <1>0, <1>17 DEF WatcherDone
<1>18. ASSUME NEW e \in Exports, DeadlineExpires(e)
       PROVE  stopping' /\ stop' = stop /\ wg' <= wg
  BY <1>0, <1>18 DEF DeadlineExpires
<1>19. CASE UNCHANGED vars
  BY <1>0, <1>19 DEF vars
<1> QED
  BY <1>1, <1>2, <1>3, <1>4, <1>5, <1>6, <1>7, <1>8, <1>9, <1>10, <1>11,
     <1>12, <1>13, <1>14, <1>15, <1>16, <1>17, <1>18, <1>19 DEF Next, Step,
     ExportStep, WatcherStep, Quiet

\* The wait group is not raised while a Stop waits or after it returned.
THEOREM WaitGroupIsUsedWell == Spec => WaitGroupRule
<1>1. ASSUME IInv, [Next]_vars, NEW s \in Stops, pc[s] \in {"wait", "returned"}
      PROVE  wg' <= wg
  BY <1>1, AfterStop DEF IInv, StopInv
<1>2. IInv /\ [Next]_vars
        => [(\E s \in Stops : pc[s] \in {"wait", "returned"}) => wg' <= wg]_vars
  BY <1>1
<1> QED BY <1>2, Invariance, PTL DEF Spec, WaitGroupRule

\* After a Stop took effect nothing re-opens the plugin.
THEOREM StopIsFinal == Spec => StoppingIsForever
<1>1. ASSUME IInv, [Next]_vars, stopping
      PROVE  stopping' /\ stop' = stop
  BY <1>1, AfterStop
<1>2. ASSUME IInv, [Next]_vars, stopping
      PROVE  InFlight' \subseteq InFlight
  <2>1. ASSUME NEW e \in Exports, Admit(e) PROVE FALSE
    BY <1>2, <2>1 DEF Admit, AdmitWhen
  <2> QED
    BY <1>2, <2>1, CallInv, RejectExportInv, LockInv, ConfigureBodyInv, StartBodyInv,
       StopBodyInv, StopReturnsInv, RefuseInv, BeginContextInv,
       CollectSucceedsInv, CollectFailsInv, EncodeInv, CancelInv, DoneInv,
       WatcherStopInv, WatcherDoneInv, DeadlineExpiresInv, StutterInv
    DEF Next, Step, ExportStep, WatcherStep, Quiet
<1>3. IInv /\ [Next]_vars
        => [stopping => /\ stopping' /\ stop' = stop
                        /\ InFlight' \subseteq InFlight]_vars
  BY <1>1, <1>2
<1> QED BY <1>3, Invariance, PTL DEF Spec, StoppingIsForever

-----------------------------------------------------------------------------
(***************************************************************************)
(* The refinement of ExportGate.  Six actions move the gate, each under    *)
(* the name it has there; the others leave its three variables alone.      *)
(***************************************************************************)
\* The plugin starts as an open gate that nobody has come to.
LEMMA GateInit == Init => Gate!Init
<1> SUFFICES ASSUME Init PROVE Gate!Init
  OBVIOUS
<1>1. Phase = "open" BY DEF Init, Phase
<1>2. InFlight = {} BY DEF Init, InFlight, InFlightPcs, Calls
<1>3. Answered = [e \in Exports |-> "none"] BY DEF Init, Answered, Calls
<1> QED BY <1>1, <1>2, <1>3 DEF Gate!Init

\* A Stop that returns is past the point where stopping was set.
LEMMA PhaseFacts ==
  ASSUME IInv
  PROVE  /\ ~stopping <=> Phase = "open"
         /\ (\E s \in Stops : pc[s] = "returned") <=> Phase = "closed"
BY DEF IInv, StopInv, Phase

\* The gate's view of a step that changes neither stopping nor who is in
\* flight, nor who has returned with which answer.
LEMMA SameView ==
  ASSUME IInv, stopping' = stopping, InFlight' = InFlight,
         \A c \in Stops \cup Exports : pc'[c] = "returned" <=> pc[c] = "returned",
         \A e \in Exports : pc[e] = "returned" => answer'[e] = answer[e]
  PROVE  UNCHANGED Gate!vars
<1>1. Phase' = Phase BY DEF Phase, Calls
<1>2. Answered' = Answered BY DEF Answered, Calls
<1> QED BY <1>1, <1>2 DEF Gate!vars

\* A step of the plugin is a step of the gate, or leaves the gate as it is.
LEMMA GateStep == ASSUME IInv, [Next]_vars PROVE [Gate!Next]_Gate!vars
<1>1. ASSUME NEW c \in Calls, Call(c)
      PROVE  UNCHANGED Gate!vars
  BY <1>1, CallInv, SameView, CallsAssumption DEF IInv, TypeOK, Calls,
     lockVars, exportVars, Call, Goto
<1>2. ASSUME NEW e \in Exports, RejectExport(e)
      PROVE  Gate!Reject(e)
  <2>1. /\ Phase' = Phase /\ InFlight' = InFlight
        /\ e \notin InFlight /\ Answered[e] = "none"
    BY <1>2, RejectExportInv, CallsAssumption DEF IInv, TypeOK, Calls,
       lockVars, exportVars, Phase, InFlight, InFlightPcs, Answered,
       RejectExport, Goto
  <2>2. Answered' = [Answered EXCEPT ![e] = "rejected"]
    BY <1>2 DEF IInv, TypeOK, Calls, Answered, RejectExport, Goto
  <2> QED BY <2>1, <2>2 DEF Gate!Reject
<1>3. ASSUME NEW c \in Calls, Lock(c)
      PROVE  UNCHANGED Gate!vars
  BY <1>3, LockInv, SameView, CallsAssumption DEF IInv, TypeOK, Calls,
     lockVars, exportVars, Lock, Goto
<1>4. ASSUME NEW c \in Configures, ConfigureBody(c)
      PROVE  UNCHANGED Gate!vars
  <2>1. \A x \in Stops \cup Exports : pc'[x] = "returned" <=> pc[x] = "returned"
    BY <1>4, CallsAssumption DEF IInv, TypeOK, Calls, ConfigureBody, Unlock, Goto
  <2>2. stopping' = stopping /\ answer' = answer
    BY <1>4 DEF ConfigureBody, exportVars
  <2> QED BY <1>4, <2>1, <2>2, ConfigureBodyInv, SameView
<1>5. ASSUME NEW c \in Starts, StartBody(c)
      PROVE  UNCHANGED Gate!vars
  <2>1. \A x \in Stops \cup Exports : pc'[x] = "returned" <=> pc[x] = "returned"
    BY <1>5, CallsAssumption DEF IInv, TypeOK, Calls, StartBody, Unlock, Goto
  <2>2. stopping' = stopping /\ answer' = answer
    BY <1>5 DEF StartBody, EnsureStop, exportVars
  <2> QED BY <1>5, <2>1, <2>2, StartBodyInv, SameView
<1>6. ASSUME NEW s \in Stops, StopBody(s)
      PROVE  Gate!Close \/ UNCHANGED Gate!vars
  <2>1. InFlight' = InFlight /\ Answered' = Answered
    BY <1>6, StopBodyInv, CallsAssumption DEF IInv, TypeOK, Calls,
       exportVars, Answered, StopBody, Unlock, Goto
  <2>2. \A t \in Stops : pc'[t] = "returned" <=> pc[t] = "returned"
    BY <1>6 DEF IInv, TypeOK, Calls, StopBody, Unlock, Goto
  <2>3. CASE stopping
    BY <1>6, <2>1, <2>2, <2>3 DEF StopBody, Phase, Gate!vars
  <2>4. CASE ~stopping
    <3>1. Phase = "open" BY <2>4, PhaseFacts
    <3>2. Phase' = "draining"
      BY <1>6, <2>2, <2>4 DEF IInv, StopInv, StopBody, Phase
    <3> QED BY <2>1, <3>1, <3>2 DEF Gate!Close
  <2> QED BY <2>3, <2>4
<1>7. ASSUME NEW s \in Stops, StopReturns(s)
      PROVE  Gate!Drained \/ UNCHANGED Gate!vars
  <2>1. InFlight' = InFlight /\ InFlight = {}
    BY <1>7, StopReturnsInv, InFlightFinite, FS_EmptySet DEF IInv,
       CountInv, StopReturns
  <2>2. Answered' = Answered
    BY <1>7, CallsAssumption DEF IInv, TypeOK, Calls, exportVars, Answered,
       StopReturns, Goto
  <2>3. Phase' = "closed" /\ Phase # "open"
    BY <1>7 DEF IInv, TypeOK, StopInv, Calls, lockVars, Phase, StopReturns,
       Goto
  <2>4. CASE Phase = "draining"
    BY <2>1, <2>2, <2>3, <2>4 DEF Gate!Drained
  <2>5. CASE Phase = "closed"
    BY <2>1, <2>2, <2>3, <2>5 DEF Gate!vars
  <2> QED BY <2>3, <2>4, <2>5 DEF Phase
<1>8. ASSUME NEW e \in Exports, Refuse(e)
      PROVE  Gate!Refuse(e)
  <2>1. /\ Phase' = Phase /\ InFlight' = InFlight
        /\ e \notin InFlight /\ Answered[e] = "none"
    BY <1>8, RefuseInv, CallsAssumption DEF IInv, TypeOK, Calls, lockVars,
       exportVars, Phase, InFlight, InFlightPcs, Answered, Refuse, Unlock,
       Goto
  <2>2. Answered' = [Answered EXCEPT ![e] = "stopping"]
    BY <1>8 DEF IInv, TypeOK, Calls, Answered, Refuse, Unlock, Goto
  <2> QED BY <1>8, <2>1, <2>2, PhaseFacts DEF Gate!Refuse, Refuse
<1>9. ASSUME NEW e \in Exports, Admit(e)
      PROVE  Gate!Enter(e)
  <2>1. /\ Phase' = Phase /\ Phase = "open"
        /\ InFlight' = InFlight \cup {e} /\ e \notin InFlight
    BY <1>9, AdmitInv, CallsAssumption DEF IInv, TypeOK, Calls, Phase,
       InFlight, InFlightPcs, Admit, AdmitWhen, Unlock, Goto
  <2>2. Answered' = Answered /\ Answered[e] = "none"
    BY <1>9, CallsAssumption DEF IInv, TypeOK, Calls, Answered, Admit,
       AdmitWhen, Unlock, Goto
  <2> QED BY <2>1, <2>2 DEF Gate!Enter
<1>10. ASSUME NEW e \in Exports, BeginContext(e)
       PROVE  UNCHANGED Gate!vars
  BY <1>10, BeginContextInv, SameView, CallsAssumption DEF IInv, TypeOK,
     Calls, lockVars, exportVars, BeginContext, Goto
<1>11. ASSUME NEW e \in Exports, CollectSucceeds(e)
       PROVE  UNCHANGED Gate!vars
  BY <1>11, CollectSucceedsInv, SameView, CallsAssumption DEF IInv, TypeOK,
     Calls, lockVars, exportVars, CollectSucceeds, Goto
<1>12. ASSUME NEW e \in Exports, CollectFails(e)
       PROVE  UNCHANGED Gate!vars
  <2>1. \A c \in Stops \cup Exports : pc'[c] = "returned" <=> pc[c] = "returned"
    BY <1>12, CallsAssumption DEF IInv, TypeOK, Calls, CollectFails, Goto
  <2>2. \A x \in Exports : pc[x] = "returned" => answer'[x] = answer[x]
    BY <1>12 DEF IInv, TypeOK, CollectFails
  <2>3. stopping' = stopping
    BY <1>12 DEF CollectFails, lockVars
  <2> QED BY <1>12, <2>1, <2>2, <2>3, CollectFailsInv, SameView
<1>13. ASSUME NEW e \in Exports, Encode(e)
       PROVE  UNCHANGED Gate!vars
  BY <1>13, EncodeInv, SameView, CallsAssumption DEF IInv, TypeOK, Calls,
     lockVars, exportVars, Encode, Goto
<1>14. ASSUME NEW e \in Exports, Cancel(e)
       PROVE  UNCHANGED Gate!vars
  BY <1>14, CancelInv, SameView, CallsAssumption DEF IInv, TypeOK, Calls,
     lockVars, exportVars, Cancel, CancelContext, Goto
<1>15. ASSUME NEW e \in Exports, Done(e)
       PROVE  Gate!Leave(e)
  <2>1. /\ Phase' = Phase
        /\ InFlight' = InFlight \ {e} /\ e \in InFlight
    BY <1>15, DoneInv, CallsAssumption DEF IInv, TypeOK, Calls, lockVars,
       Phase, InFlight, InFlightPcs, Done, Goto
  <2>2. answer[e] \in {"ok", "failed"}
    BY <1>15 DEF IInv, ExportInv, Done
  <2>3. Answered' = [Answered EXCEPT ![e] = answer[e]]
    BY <1>15 DEF IInv, TypeOK, Calls, exportVars, Answered, Done, Goto
  <2> QED BY <2>1, <2>2, <2>3 DEF Gate!Leave
<1>16. ASSUME NEW e \in Exports, WatcherStop(e)
       PROVE  UNCHANGED Gate!vars
  BY <1>16, WatcherStopInv, SameView, CallsAssumption DEF IInv, TypeOK,
     Calls, lockVars, exportVars, WatcherStop, CancelContext
<1>17. ASSUME NEW e \in Exports, WatcherDone(e)
       PROVE  UNCHANGED Gate!vars
  BY <1>17, WatcherDoneInv, SameView, CallsAssumption DEF IInv, TypeOK,
     Calls, lockVars, exportVars, WatcherDone
<1>18. ASSUME NEW e \in Exports, DeadlineExpires(e)
       PROVE  UNCHANGED Gate!vars
  BY <1>18, DeadlineExpiresInv, SameView, CallsAssumption DEF IInv, TypeOK,
     Calls, lockVars, exportVars, DeadlineExpires
<1>19. CASE UNCHANGED vars
  BY <1>19, StutterInv, SameView DEF vars, lockVars, exportVars
<1> QED
  BY <1>1, <1>2, <1>3, <1>4, <1>5, <1>6, <1>7, <1>8, <1>9, <1>10, <1>11,
     <1>12, <1>13, <1>14, <1>15, <1>16, <1>17, <1>18, <1>19 DEF Next, Step,
     ExportStep, WatcherStep, Quiet, Gate!Next

\* The plugin implements the gate.
THEOREM ImplementsGate == Spec => GateSpec
<1>1. Init => Gate!Init BY GateInit
<1>2. IInv /\ [Next]_vars => [Gate!Next]_Gate!vars BY GateStep
<1> QED BY <1>1, <1>2, Invariance, PTL DEF Spec, GateSpec, Gate!Spec

-----------------------------------------------------------------------------
(***************************************************************************)
(* The plugin with its commands, for any number of exports and commands:   *)
(* it makes the steps of PluginLifecycle, and no command survives a Stop.  *)
(***************************************************************************)
\* The records that RunContract is about.
CallRecords == [phase : {"ready", "running", "returned"},
                command : {"none", "alive", "dead"},
                outcome : {"none", "ok", "context", "limit", "failed"}]

\* The call that a command begins with.
LEMMA ReadyCall ==
  \A e : /\ Run(e)!Ready \in CallRecords
         /\ Run(e)!Ready.phase = "ready" /\ Run(e)!Ready.command = "none"
BY DEF Run!Ready, CallRecords

\* A call whose command is begun.
LEMMA BegunCall ==
  ASSUME NEW e, NEW c \in CallRecords, NEW d, NEW x \in Run(e)!Begun(c, d)
  PROVE  /\ x \in CallRecords
         /\ x.phase = "running" /\ x.command = "alive"
<1>1. x = [[c EXCEPT !.phase = "running"] EXCEPT !.command = "alive"]
  BY DEF Run!Begun
<1>2. [c EXCEPT !.phase = "running"] \in CallRecords
  BY DEF CallRecords
<1> QED BY <1>1, <1>2 DEF CallRecords

\* A call whose command ends.
LEMMA EndedCall ==
  ASSUME NEW e, NEW c \in CallRecords, NEW x \in Run(e)!Ended(c)
  PROVE  /\ x \in CallRecords
         /\ x.phase = c.phase /\ x.command = "dead"
BY DEF Run!Ended, CallRecords

\* A call that returns, with a command or without one.
LEMMA ReturnedCall ==
  ASSUME NEW e, NEW c \in CallRecords, NEW S,
         S \subseteq {"none", "ok", "context", "limit", "failed"},
         NEW x \in Run(e)!ReturnedWith(c, S)
  PROVE  /\ x \in CallRecords
         /\ x.phase = "returned" /\ x.command = c.command /\ x.outcome \in S
<1>1. PICK o \in S : x = [[c EXCEPT !.phase = "returned"] EXCEPT !.outcome = o]
  BY DEF Run!ReturnedWith
<1>2. [c EXCEPT !.phase = "returned"] \in CallRecords
  BY DEF CallRecords
<1> QED BY <1>1, <1>2 DEF CallRecords

-----------------------------------------------------------------------------
\* Every call is a record, a command lives only under a call that is running,
\* and a call runs only while its export collects.
CallsInv ==
  /\ calls \in [Exports -> CallRecords]
  /\ \A e \in Exports : /\ calls[e].phase = "running" => pc[e] = "collect"
                        /\ calls[e].command = "alive" => calls[e].phase = "running"

\* The invariant of the composition.
RInv == IInv /\ CallsInv

\* A Run that returns is a step of the plugin or none: with an error the
\* collection fails, and it succeeds only under a context that is live.
LEMMA RunReturnsStep ==
  ASSUME RInv, NEW e \in Exports, RunReturns(e)
  PROVE  /\ CollectSucceeds(e) \/ CollectFails(e) \/ UNCHANGED vars
         /\ \E c \in CallRecords : /\ calls' = [calls EXCEPT ![e] = c]
                                  /\ c.phase = "returned" /\ c.command = "dead"
<1> DEFINE isDone == ctx[e] # "active"
           S == IF isDone THEN {"context"} ELSE {"ok", "limit", "failed"}
<1>0. calls[e] \in CallRecords
  BY DEF RInv, CallsInv
<1>1. PICK c \in Run(e)!Returned(calls[e], isDone) :
        /\ calls' = [calls EXCEPT ![e] = c]
        /\ \/ c.outcome # "ok" /\ CollectFails(e)
           \/ c.outcome = "ok" /\ CollectionEnds(e)
           \/ c.outcome = "ok" /\ asked[e] + 1 < MaxCommands /\ UNCHANGED vars
  BY DEF RunReturns
<1>2. calls[e].command = "dead" /\ c \in Run(e)!ReturnedWith(calls[e], S)
  BY <1>1 DEF Run!Returned
<1>3. c \in CallRecords /\ c.phase = "returned" /\ c.command = "dead" /\ c.outcome \in S
  <2>1. S \subseteq {"none", "ok", "context", "limit", "failed"}
    OBVIOUS
  <2> HIDE DEF S
  <2>2. /\ c \in CallRecords
        /\ c.phase = "returned" /\ c.command = calls[e].command /\ c.outcome \in S
    BY <1>0, <1>2, <2>1, ReturnedCall, Zenon
  <2> QED BY <1>2, <2>2
<1>4. c.outcome = "ok" => ctx[e] = "active"
  BY <1>3
<1>5. pc[e] = "collect"
  BY DEF RunReturns, Collecting
<1>6. CollectSucceeds(e) \/ CollectFails(e) \/ UNCHANGED vars
  BY <1>1, <1>4, <1>5 DEF CollectionEnds, CollectSucceeds
<1> QED BY <1>1, <1>3, <1>6

\* Every step of the composition is a step of the plugin, or leaves it as it is.
LEMMA PluginStep == ASSUME RInv, [RunNext]_systemVars PROVE [Next]_vars
<1>1. ASSUME NEW e \in Exports, CollectStep(e)
      PROVE  CollectSucceeds(e) \/ CollectFails(e) \/ UNCHANGED vars
  BY <1>1, RunReturnsStep DEF CollectStep, CollectionBreaks, BeginRun, RunNotBegun,
     CommandEnds, NextCommand
<1>2. ASSUME NEW e \in Exports, PlainStep(e)
      PROVE  ExportStep(e) \/ WatcherStep(e) \/ DeadlineExpires(e)
  BY <1>2 DEF PlainStep, ExportStep
<1>3. CASE UNCHANGED systemVars
  BY <1>3 DEF systemVars
<1>4. CASE RunNext
  <2>1. CASE \E c \in Calls : Plain(Call(c)) \/ Plain(Lock(c))
    BY <2>1 DEF Plain, Next, Step
  <2>2. CASE \E c \in Configures : Plain(ConfigureBody(c))
    BY <2>2 DEF Plain, Next, Step
  <2>3. CASE \E c \in Starts : Plain(StartBody(c))
    BY <2>3 DEF Plain, Next, Step
  <2>4. CASE \E c \in Stops : Plain(StopBody(c)) \/ Plain(StopReturns(c))
    BY <2>4 DEF Plain, Next, Step
  <2>5. CASE \E e \in Exports : Plain(RejectExport(e)) \/ Plain(PlainStep(e)) \/ CollectStep(e)
    BY <2>5, <1>1, <1>2 DEF Plain, Next, Step, ExportStep
  <2>6. CASE Plain(Quiet)
    BY <2>6 DEF Plain, Next
  <2> QED BY <1>4, <2>1, <2>2, <2>3, <2>4, <2>5, <2>6 DEF RunNext
<1> QED BY <1>3, <1>4

\* A step of the plugin that runs no command ends no collection.
LEMMA PlainStepKeeps ==
  ASSUME RInv, UNCHANGED calls,
         \A e \in Exports : pc[e] = "collect" => pc'[e] = "collect"
  PROVE  CallsInv'
BY DEF RInv, CallsInv

\* The collection of an export goes on or ends with its call.
LEMMA CollectKeeps ==
  ASSUME RInv, NEW e \in Exports, CollectStep(e)
  PROVE  CallsInv'
<1> USE DEF RInv, CallsInv
<1>0. calls[e] \in CallRecords
  OBVIOUS
<1>a. ASSUME NEW c \in CallRecords, calls' = [calls EXCEPT ![e] = c],
             c.phase = "running" => pc'[e] = "collect", c.command = "alive" => c.phase = "running",
             \A f \in Exports \ {e} : pc'[f] = pc[f]
      PROVE  CallsInv'
  BY <1>a
<1>b. ASSUME CollectFails(e) \/ CollectSucceeds(e) \/ UNCHANGED vars
      PROVE  \A f \in Exports \ {e} : pc'[f] = pc[f]
  BY <1>b DEF CollectFails, CollectSucceeds, Goto, vars, IInv, TypeOK, Calls
<1>1. CASE CollectionBreaks(e)
  BY <1>1, <1>b DEF CollectionBreaks, runVars
<1>2. CASE BeginRun(e)
  <2>1. PICK c \in Run(e)!Begun(calls[e], ctx[e] # "active") : calls' = [calls EXCEPT ![e] = c]
    BY <1>2 DEF BeginRun
  <2>2. c \in CallRecords /\ c.phase = "running" /\ c.command = "alive"
    BY <1>0, <2>1, BegunCall, Zenon
  <2>3. pc' = pc /\ pc[e] = "collect"
    BY <1>2 DEF BeginRun, Collecting, vars
  <2> QED BY <1>a, <2>1, <2>2, <2>3
<1>3. CASE RunNotBegun(e)
  <2>1. PICK c \in Run(e)!NotBegun(calls[e], ctx[e] # "active") : calls' = [calls EXCEPT ![e] = c]
    BY <1>3 DEF RunNotBegun
  <2> DEFINE S == IF ctx[e] # "active" THEN {"context", "failed"} ELSE {"failed"}
  <2>2. calls[e].phase = "ready" /\ c \in Run(e)!ReturnedWith(calls[e], S)
    BY <2>1 DEF Run!NotBegun
  <2>3. S \subseteq {"none", "ok", "context", "limit", "failed"}
    OBVIOUS
  <2> HIDE DEF S
  <2>4. /\ c \in CallRecords
        /\ c.phase = "returned" /\ c.command = calls[e].command /\ c.outcome \in S
    BY <1>0, <2>2, <2>3, ReturnedCall, Zenon
  <2>5. calls[e].command # "alive"
    BY <2>2
  <2> QED BY <1>3, <1>a, <1>b, <2>1, <2>4, <2>5 DEF RunNotBegun
<1>4. CASE CommandEnds(e)
  <2>1. PICK c \in Run(e)!Ended(calls[e]) : calls' = [calls EXCEPT ![e] = c]
    BY <1>4 DEF CommandEnds
  <2>2. c \in CallRecords /\ c.phase = calls[e].phase /\ c.command = "dead"
    BY <1>0, <2>1, EndedCall
  <2>3. pc' = pc
    BY <1>4 DEF CommandEnds, vars
  <2> QED BY <1>a, <2>1, <2>2, <2>3
<1>5. CASE RunReturns(e)
  BY <1>5, <1>a, <1>b, RunReturnsStep
<1>6. CASE NextCommand(e)
  <2>1. calls' = [calls EXCEPT ![e] = Run(e)!Ready] /\ pc' = pc
    BY <1>6 DEF NextCommand, vars
  <2> QED BY <1>a, <2>1, ReadyCall
<1> QED BY <1>1, <1>2, <1>3, <1>4, <1>5, <1>6 DEF CollectStep

\* Every step of the composition preserves what is known of the calls.
LEMMA NextCalls == ASSUME RInv, [RunNext]_systemVars PROVE CallsInv'
<1> DEFINE Kept == \A e \in Exports : pc[e] = "collect" => pc'[e] = "collect"
<1> USE CallsAssumption DEF RInv, IInv, TypeOK, ExportInv, Calls, Goto, Unlock
<1>1. ASSUME NEW c \in Calls, Call(c) PROVE Kept
  BY <1>1 DEF Call
<1>2. ASSUME NEW c \in Calls, Lock(c) PROVE Kept
  BY <1>2 DEF Lock
<1>3. ASSUME NEW c \in Configures, ConfigureBody(c) PROVE Kept
  BY <1>3 DEF ConfigureBody
<1>4. ASSUME NEW c \in Starts, StartBody(c) PROVE Kept
  BY <1>4 DEF StartBody
<1>5. ASSUME NEW c \in Stops, StopBody(c) PROVE Kept
  BY <1>5 DEF StopBody
<1>6. ASSUME NEW c \in Stops, StopReturns(c) PROVE Kept
  BY <1>6 DEF StopReturns
<1>7. ASSUME NEW e \in Exports, RejectExport(e) PROVE Kept
  BY <1>7 DEF RejectExport
<1>8. ASSUME NEW e \in Exports, Refuse(e) PROVE Kept
  BY <1>8 DEF Refuse
<1>9. ASSUME NEW e \in Exports, Admit(e) PROVE Kept
  BY <1>9 DEF Admit, AdmitWhen
<1>10. ASSUME NEW e \in Exports, BeginContext(e) PROVE Kept
  BY <1>10 DEF BeginContext
<1>11. ASSUME NEW e \in Exports, Encode(e) PROVE Kept
  BY <1>11 DEF Encode
<1>12. ASSUME NEW e \in Exports, Cancel(e) PROVE Kept
  BY <1>12 DEF Cancel
<1>13. ASSUME NEW e \in Exports, Done(e) PROVE Kept
  BY <1>13 DEF Done
<1>14. ASSUME NEW e \in Exports, WatcherStep(e) PROVE Kept
  BY <1>14 DEF WatcherStep, WatcherStop, WatcherDone
<1>15. ASSUME NEW e \in Exports, DeadlineExpires(e) PROVE Kept
  BY <1>15 DEF DeadlineExpires
<1> HIDE DEF RInv, IInv, TypeOK, ExportInv, Calls, Kept
<1>16. ASSUME Kept, UNCHANGED runVars PROVE CallsInv'
  BY <1>16, PlainStepKeeps DEF runVars, Kept
<1>17. ASSUME UNCHANGED vars PROVE Kept
  BY <1>17 DEF vars, Kept
<1>18. CASE UNCHANGED systemVars
  BY <1>18, <1>16, <1>17 DEF systemVars
<1>19. CASE RunNext
  <2>1. ASSUME NEW e \in Exports, PlainStep(e) PROVE Kept
    BY <2>1, <1>8, <1>9, <1>10, <1>11, <1>12, <1>13, <1>14, <1>15 DEF PlainStep
  <2>2. Quiet => Kept
    BY <1>17 DEF Quiet
  <2>3. ASSUME NEW e \in Exports, CollectStep(e) PROVE CallsInv'
    BY <2>3, CollectKeeps
  <2> QED
    BY <1>1, <1>2, <1>3, <1>4, <1>5, <1>6, <1>7, <1>16, <1>19, <2>1, <2>2, <2>3
       DEF RunNext, Plain
<1> QED BY <1>18, <1>19

-----------------------------------------------------------------------------
\* What the plugin's own invariant and the calls keep, whatever the order in
\* which calls, stops and commands come.
THEOREM RunInvariance == RunSpec => []RInv
<1>1. RunInit => RInv
  <2> SUFFICES ASSUME RunInit PROVE RInv
    OBVIOUS
  <2>1. IInv
    BY InitInv DEF RunInit
  <2>2. CallsInv
    BY ReadyCall DEF RunInit, CallsInv
  <2> QED BY <2>1, <2>2 DEF RInv
<1>2. RInv /\ [RunNext]_systemVars => RInv'
  <2> SUFFICES ASSUME RInv, [RunNext]_systemVars PROVE RInv'
    OBVIOUS
  <2>1. IInv'
    BY PluginStep, NextInv DEF RInv
  <2> QED BY <2>1, NextCalls DEF RInv
<1> QED BY <1>1, <1>2, PTL DEF RunSpec

\* When a Stop has returned, none of the plugin's commands is alive: there is no
\* export in flight, hence none that collects, and a command lives only under a
\* collection.
THEOREM NoCommandSurvives == RunSpec => []StopLeavesNoCommand
<1>1. RInv => StopLeavesNoCommand
  BY DEF RInv, CallsInv, IInv, StopInv, InFlight, InFlightPcs, StopLeavesNoCommand
<1> QED BY <1>1, RunInvariance, PTL

\* The plugin that runs commands is the plugin of PluginLifecycle: every step of
\* a collection is one of its steps or none, so all that is proved of Spec holds
\* of RunSpec too.
THEOREM IsThePlugin == RunSpec => Spec
<1>1. RunInit => Init
  BY DEF RunInit
<1>2. RInv /\ [RunNext]_systemVars => [Next]_vars
  BY PluginStep
<1> QED BY <1>1, <1>2, RunInvariance, PTL DEF RunSpec, Spec

\* In particular it implements the gate of ExportGate.
THEOREM RunImplementsGate == RunSpec => GateSpec
BY IsThePlugin, ImplementsGate, PTL

-----------------------------------------------------------------------------
(***************************************************************************)
(* The process and the program: whichever way runAgent ends, the process   *)
(* does not end under a collection, the whole program runs the agent's     *)
(* part as AgentProcess says, and the exit status of the test mode is      *)
(* honest.                                                                 *)
(***************************************************************************)
\* A goroutine of the plugin moves neither a call that has not been made nor
\* one that has returned.
LEMMA StepKeeps ==
  ASSUME IInv, Step, NEW x \in Calls
  PROVE  /\ pc[x] = "idle" => pc'[x] = "idle"
         /\ pc[x] = "returned" => pc'[x] = "returned"
<1> DEFINE Kept == /\ pc[x] = "idle" => pc'[x] = "idle"
                   /\ pc[x] = "returned" => pc'[x] = "returned"
<1> USE DEF IInv, TypeOK, Calls
<1>1. ASSUME NEW c \in Calls, Lock(c) PROVE Kept
  BY <1>1 DEF Lock, Goto
<1>2. ASSUME NEW c \in Configures, ConfigureBody(c) PROVE Kept
  BY <1>2 DEF ConfigureBody, Unlock, Goto
<1>3. ASSUME NEW c \in Starts, StartBody(c) PROVE Kept
  BY <1>3 DEF StartBody, Unlock, Goto
<1>4. ASSUME NEW s \in Stops, StopBody(s) PROVE Kept
  BY <1>4 DEF StopBody, Unlock, Goto
<1>5. ASSUME NEW s \in Stops, StopReturns(s) PROVE Kept
  BY <1>5 DEF StopReturns, Goto
<1>6. ASSUME NEW e \in Exports, Refuse(e) PROVE Kept
  BY <1>6 DEF Refuse, Unlock, Goto
<1>7. ASSUME NEW e \in Exports, Admit(e) PROVE Kept
  BY <1>7 DEF Admit, AdmitWhen, Unlock, Goto
<1>8. ASSUME NEW e \in Exports, BeginContext(e) PROVE Kept
  BY <1>8 DEF BeginContext, Goto
<1>9. ASSUME NEW e \in Exports, CollectSucceeds(e) PROVE Kept
  BY <1>9 DEF CollectSucceeds, Goto
<1>10. ASSUME NEW e \in Exports, CollectFails(e) PROVE Kept
  BY <1>10 DEF CollectFails, Goto
<1>11. ASSUME NEW e \in Exports, Encode(e) PROVE Kept
  BY <1>11 DEF Encode, Goto
<1>12. ASSUME NEW e \in Exports, Cancel(e) PROVE Kept
  BY <1>12 DEF Cancel, Goto
<1>13. ASSUME NEW e \in Exports, Done(e) PROVE Kept
  BY <1>13 DEF Done, Goto
<1>14. ASSUME NEW e \in Exports, WatcherStop(e) PROVE Kept
  BY <1>14 DEF WatcherStop
<1>15. ASSUME NEW e \in Exports, WatcherDone(e) PROVE Kept
  BY <1>15 DEF WatcherDone
<1>16. ASSUME NEW e \in Exports, DeadlineExpires(e) PROVE Kept
  BY <1>16 DEF DeadlineExpires
<1> QED
  BY <1>1, <1>2, <1>3, <1>4, <1>5, <1>6, <1>7, <1>8, <1>9, <1>10, <1>11,
     <1>12, <1>13, <1>14, <1>15, <1>16 DEF Step, ExportStep, WatcherStep

\* At the start no call has been made.
LEMMA AgentInitInv == AgentInit => AgentInv
BY InitInv DEF AgentInit, AgentInv, AgentTypeOK, IInv, Init

\* Every step of the process preserves the invariant of the plugin, because
\* each is one of its steps or leaves it alone.
LEMMA PluginInvKept == ASSUME IInv, [AgentNext]_allVars PROVE IInv'
<1>1. ASSUME NEW c \in Calls, Call(c) PROVE IInv'
  BY <1>1, CallInv
<1>2. Terminate \in Calls /\ Shutdown \in Calls /\ Deferred \in Calls
  BY StopsAssumption DEF Calls
<1>3. CASE HandlerCalls
  BY <1>1, <1>3, RejectExportInv DEF HandlerCalls
<1>4. CASE HandlerTerminates \/ SelectSignal \/ SelectResult \/ ShutdownReturns
  BY <1>1, <1>2, <1>4
  DEF HandlerTerminates, SelectSignal, SelectResult, ShutdownReturns
<1>5. CASE While(Step)
  BY <1>5, NextInv DEF While, Next
<1>6. CASE HandlerReturns \/ SetupFails \/ Serve \/ Signal \/ Exit \/ Exited
  BY <1>6, StutterInv
  DEF HandlerReturns, SetupFails, Serve, Signal, Exit, Exited, allVars
<1>7. CASE UNCHANGED allVars
  BY <1>7, StutterInv DEF allVars
<1> QED BY <1>3, <1>4, <1>5, <1>6, <1>7 DEF AgentNext

\* Every step of the process preserves AgentInv.
LEMMA AgentNextInv == ASSUME AgentInv, [AgentNext]_allVars PROVE AgentInv'
<1> USE DEF AgentInv, AgentTypeOK, Living
<1>0. IInv' /\ TypeOK'
  BY PluginInvKept DEF IInv
<1>1. Deferred \in Calls
  BY StopsAssumption DEF Calls
<1>2. CASE HandlerCalls
  BY <1>0, <1>1, <1>2 DEF HandlerCalls, agentVars
<1>3. CASE HandlerTerminates
  BY <1>0, <1>3 DEF HandlerTerminates
<1>4. CASE HandlerReturns
  BY <1>0, <1>4 DEF HandlerReturns
<1>5. CASE SetupFails
  BY <1>0, <1>5 DEF SetupFails, vars
<1>6. CASE Serve
  BY <1>0, <1>6 DEF Serve
<1>7. CASE Signal
  BY <1>0, <1>7 DEF Signal, vars
<1>8. CASE SelectSignal
  <2>1. handler # "none" BY <1>8 DEF SelectSignal
  <2> QED BY <1>0, <1>8, <2>1 DEF SelectSignal
<1>9. CASE SelectResult
  BY <1>0, <1>9 DEF SelectResult
<1>10. CASE ShutdownReturns
  <2>1. pc[Shutdown] = "returned" /\ Shutdown \in Calls
    BY <1>10, StopsAssumption DEF ShutdownReturns, Calls
  <2>2. handler # "none" BY <2>1
  <2> QED BY <1>0, <1>10, <2>2 DEF ShutdownReturns
<1>11. CASE Exit
  <2>1. handler # "none" BY <1>1, <1>11 DEF Exit
  <2> QED BY <1>0, <1>11, <2>1 DEF Exit, vars
<1>12. CASE While(Step)
  BY <1>0, <1>1, <1>12, StepKeeps DEF While, agentVars
<1>13. CASE Exited \/ UNCHANGED allVars
  BY <1>0, <1>13 DEF Exited, allVars, agentVars, vars
<1> QED
  BY <1>2, <1>3, <1>4, <1>5, <1>6, <1>7, <1>8, <1>9, <1>10, <1>11, <1>12, <1>13
  DEF AgentNext

\* AgentInv holds throughout.
THEOREM AgentInvariance == AgentSpec => []AgentInv
<1>1. AgentInit => AgentInv BY AgentInitInv
<1>2. AgentInv /\ [AgentNext]_allVars => AgentInv' BY AgentNextInv
<1> QED BY <1>1, <1>2, PTL DEF AgentSpec

\* The process does not end under a running collection: before the handler
\* existed there was none, and after that the deferred Stop has returned.
THEOREM ProcessEndsDrained == AgentSpec => []ExitOnlyWhenDrained
<1>1. AgentInv => ExitOnlyWhenDrained
  <2> SUFFICES ASSUME AgentInv, main = "exited"
               PROVE  InFlight = {} /\ \A e \in Exports : ctx[e] # "active"
    BY DEF ExitOnlyWhenDrained
  <2>1. CASE handler = "none"
    <3>1. \A e \in Exports : pc[e] = "idle" BY <2>1 DEF AgentInv, Calls
    <3> QED BY <3>1 DEF AgentInv, IInv, ExportInv, InFlight, InFlightPcs
  <2>2. CASE pc[Deferred] = "returned"
    <3>1. InFlight = {}
      BY <2>2, StopsAssumption DEF AgentInv, IInv, StopInv
    <3> QED BY <3>1 DEF AgentInv, IInv, ExportInv, InFlight, InFlightPcs
  <2> QED BY <2>1, <2>2 DEF AgentInv
<1> QED BY <1>1, AgentInvariance, PTL

\* The process makes only the plugin's steps, so all that is proved of Spec
\* holds of AgentSpec too.
THEOREM AgentRunsThePlugin == AgentSpec => Spec
<1>1. AgentInit => Init
  BY DEF AgentInit
<1>2. [AgentNext]_allVars => [Next]_vars
  <2> SUFFICES ASSUME [AgentNext]_allVars PROVE [Next]_vars
    OBVIOUS
  <2>1. Terminate \in Calls /\ Shutdown \in Calls /\ Deferred \in Calls
    BY StopsAssumption DEF Calls
  <2>2. CASE HandlerCalls
    BY <2>2 DEF HandlerCalls, Next
  <2>3. CASE HandlerTerminates \/ SelectSignal \/ SelectResult \/ ShutdownReturns
    BY <2>1, <2>3
    DEF HandlerTerminates, SelectSignal, SelectResult, ShutdownReturns, Next
  <2>4. CASE While(Step)
    BY <2>4 DEF While, Next
  <2>5. CASE HandlerReturns \/ SetupFails \/ Serve \/ Signal \/ Exit \/ Exited
              \/ UNCHANGED allVars
    BY <2>5 DEF HandlerReturns, SetupFails, Serve, Signal, Exit, Exited, allVars
  <2> QED BY <2>2, <2>3, <2>4, <2>5 DEF AgentNext
<1> QED BY <1>1, <1>2, PTL DEF AgentSpec, Spec

-----------------------------------------------------------------------------
(***************************************************************************)
(* The whole program.                                                      *)
(***************************************************************************)
\* In agent mode the program makes the steps of AgentProcess, and in the others
\* none but its signal.
LEMMA MainStep == [MainNext]_mainVars => [AgentNext]_allVars
<1> SUFFICES ASSUME [MainNext]_mainVars PROVE [AgentNext]_allVars
  OBVIOUS
<1>1. CASE InAgent(AgentReturns) \/ InAgent(AgentGoesOn)
  BY <1>1 DEF InAgent, AgentReturns, AgentGoesOn, AgentNext
<1>2. CASE TestSignal
  BY <1>2 DEF TestSignal, AgentNext
<1>3. CASE \/ BadArguments \/ MainExits \/ Terminated \/ Killed
           \/ \E args \in Arguments : ChooseMode(args)
  BY <1>3 DEF BadArguments, MainExits, Terminated, Killed, ChooseMode
<1>4. CASE TestBeginRun \/ TestCommandEnds \/ TestRunReturns \/ TestNextCommand
  BY <1>4 DEF TestBeginRun, TestCommandEnds, TestRunReturns, TestNextCommand, TestCollects
<1>5. CASE TestExpires \/ TestCollectionEnds \/ WritePart \/ WriteWhole \/ WriteFails
             \/ WritePipeCloses \/ TestStops
  BY <1>5 DEF TestExpires, TestCollectionEnds, WritePart, WriteWhole, WriteFails,
              Write, WritePipeCloses, TestStops
<1>6. CASE Finished \/ UNCHANGED mainVars
  BY <1>6 DEF Finished, mainVars
<1> QED BY <1>1, <1>2, <1>3, <1>4, <1>5, <1>6 DEF MainNext

\* The program, whatever its arguments, runs the agent's part as AgentProcess
\* says or not at all.
THEOREM MainRunsTheAgent == MainSpec => AgentSpec
<1>1. MainInit => AgentInit
  BY DEF MainInit
<1> QED BY <1>1, MainStep, PTL DEF MainSpec, AgentSpec

\* So runAgent never ends the program under a collection of its plugin.
THEOREM MainEndsDrained == MainSpec => []ExitOnlyWhenDrained
BY MainRunsTheAgent, ProcessEndsDrained, PTL

\* And what the agent sees of the program's exports is the gate of ExportGate.
THEOREM MainKeepsTheGate == MainSpec => GateSpec
BY MainRunsTheAgent, AgentRunsThePlugin, ImplementsGate, PTL

-----------------------------------------------------------------------------
(***************************************************************************)
(* The test mode.                                                          *)
(***************************************************************************)
\* The call that a test begins with, and starts again from.
LEMMA ReadyTest ==
  /\ TestRun!Ready \in CallRecords
  /\ TestRun!Ready.phase = "ready" /\ TestRun!Ready.command = "none"
BY DEF TestRun!Ready, CallRecords

\* A call whose command is begun.
LEMMA BegunTest ==
  ASSUME NEW c \in CallRecords, NEW d, NEW x \in TestRun!Begun(c, d)
  PROVE  x \in CallRecords /\ x.phase = "running" /\ x.command = "alive"
<1>1. x = [[c EXCEPT !.phase = "running"] EXCEPT !.command = "alive"]
  BY DEF TestRun!Begun
<1>2. [c EXCEPT !.phase = "running"] \in CallRecords
  BY DEF CallRecords
<1> QED BY <1>1, <1>2 DEF CallRecords

\* A call whose command ends.
LEMMA EndedTest ==
  ASSUME NEW c \in CallRecords, NEW x \in TestRun!Ended(c)
  PROVE  x \in CallRecords /\ x.phase = c.phase /\ x.command = "dead"
BY DEF TestRun!Ended, CallRecords

\* A call that returns.
LEMMA ReturnedTest ==
  ASSUME NEW c \in CallRecords, NEW S,
         S \subseteq {"none", "ok", "context", "limit", "failed"},
         NEW x \in TestRun!ReturnedWith(c, S)
  PROVE  x \in CallRecords /\ x.phase = "returned" /\ x.command = c.command
<1>1. PICK o \in S : x = [[c EXCEPT !.phase = "returned"] EXCEPT !.outcome = o]
  BY DEF TestRun!ReturnedWith
<1>2. [c EXCEPT !.phase = "returned"] \in CallRecords
  BY DEF CallRecords
<1> QED BY <1>1, <1>2 DEF CallRecords

\* Without a command the call comes back with none.
LEMMA NotBegunTest ==
  ASSUME NEW c \in CallRecords, NEW d, NEW x \in TestRun!NotBegun(c, d)
  PROVE  /\ c.phase = "ready"
         /\ x \in CallRecords /\ x.phase = "returned" /\ x.command = c.command
<1> DEFINE S == IF d THEN {"context", "failed"} ELSE {"failed"}
<1>1. c.phase = "ready" /\ x \in TestRun!ReturnedWith(c, S)
  BY DEF TestRun!NotBegun
<1>2. S \subseteq {"none", "ok", "context", "limit", "failed"}
  OBVIOUS
<1> HIDE DEF S
<1>3. x \in CallRecords /\ x.phase = "returned" /\ x.command = c.command
  BY <1>1, <1>2, ReturnedTest
<1> QED BY <1>1, <1>3

\* With a command, only when that is gone.
LEMMA RunReturnedTest ==
  ASSUME NEW c \in CallRecords, NEW d, NEW x \in TestRun!Returned(c, d)
  PROVE  x \in CallRecords /\ x.phase = "returned" /\ x.command = "dead"
<1> DEFINE S == IF d THEN {"context"} ELSE {"ok", "limit", "failed"}
<1>1. c.command = "dead" /\ x \in TestRun!ReturnedWith(c, S)
  BY DEF TestRun!Returned
<1>2. S \subseteq {"none", "ok", "context", "limit", "failed"}
  OBVIOUS
<1> HIDE DEF S
<1>3. x \in CallRecords /\ x.phase = "returned" /\ x.command = c.command
  BY <1>1, <1>2, ReturnedTest
<1> QED BY <1>1, <1>3

\* A command lives only under a call that is running, and a call runs only while
\* the test collects.
CommandInv ==
  /\ call \in CallRecords
  /\ call.command = "alive" => call.phase = "running"
  /\ call.phase = "running" => test = "collect"

\* Where the test is, what it returns and what it has written go together:
\* nothing is written before the collection is over, the payload is not whole
\* before the test has returned, and then it is whole or the test returns an
\* error.
TestInv ==
  /\ written \in {"none", "part", "whole"}
  /\ test \in {"idle", "collect", "write", "returned", "stopped"}
  /\ mode = "test" <=> test # "idle"
  /\ test \in {"idle", "collect"} => written = "none"
  /\ mode # "agent" /\ test \in {"idle", "collect", "write"} =>
       verdict = "none" /\ written # "whole"
  /\ test \in {"returned", "stopped"} =>
       \/ verdict = "ok" /\ written = "whole"
       \/ verdict = "failed" /\ written # "whole"

\* How the test can have ended: with what it returned once its signals are
\* let go of, by SIGINT or SIGTERM from then on, by a closed stdout while it
\* writes, and anywhere only by another signal.
EndInv ==
  /\ mode # "agent" => main = "setup"
  /\ mode = "test" =>
       \/ status \in {"none", "killed"}
       \/ status = "terminated" /\ test \in {"write", "stopped"}
       \/ status = verdict /\ test = "stopped"

\* The invariant of the test mode.
MainInv == CommandInv /\ TestInv /\ EndInv

\* Every step of the program preserves what is known of its test.
LEMMA MainNextInv == ASSUME MainInv, [MainNext]_mainVars PROVE MainInv'
<1> USE DEF MainInv, CommandInv, TestInv, EndInv, InTest, Running, allVars, agentVars
<1>1. CASE BadArguments \/ MainExits \/ Terminated \/ Killed
  BY <1>1 DEF BadArguments, MainExits, Terminated, Killed, Returned, testVars
<1>2. ASSUME NEW args \in Arguments, ChooseMode(args) PROVE MainInv'
  BY <1>2 DEF ChooseMode
<1>3. CASE InAgent(AgentReturns) \/ InAgent(AgentGoesOn)
  BY <1>3 DEF InAgent, testVars
<1>4. CASE TestSignal
  BY <1>4 DEF TestSignal, Signal, testVars
<1>5. CASE TestExpires
  BY <1>5 DEF TestExpires
<1>6. CASE TestBeginRun
  <2>1. CASE call' \in TestRun!Begun(call, TestDone)
    <3>1. call' \in CallRecords /\ call'.phase = "running" /\ call'.command = "alive"
      BY <2>1, BegunTest
    <3>2. call' \notin TestRun!NotBegun(call, TestDone)
      BY <3>1, NotBegunTest
    <3> QED BY <1>6, <3>1, <3>2 DEF TestBeginRun, TestCollects
  <2>2. CASE call' \in TestRun!NotBegun(call, TestDone)
    <3>1. /\ call.phase = "ready" /\ call' \in CallRecords
          /\ call'.phase = "returned" /\ call'.command = call.command
      BY <2>2, NotBegunTest
    <3> QED BY <1>6, <2>2, <3>1 DEF TestBeginRun, TestCollects
  <2> QED BY <1>6, <2>1, <2>2 DEF TestBeginRun, TestCollects
<1>7. CASE TestCommandEnds
  <2>1. call' \in TestRun!Ended(call)
    BY <1>7 DEF TestCommandEnds, TestCollects
  <2>2. call' \in CallRecords /\ call'.phase = call.phase /\ call'.command = "dead"
    BY <2>1, EndedTest
  <2> QED BY <1>7, <2>2 DEF TestCommandEnds, TestCollects
<1>8. CASE TestRunReturns
  <2>1. call' \in TestRun!Returned(call, TestDone)
    BY <1>8 DEF TestRunReturns, TestCollects
  <2>2. call' \in CallRecords /\ call'.phase = "returned" /\ call'.command = "dead"
    BY <2>1, RunReturnedTest
  <2> QED BY <1>8, <2>2 DEF TestRunReturns, TestCollects
<1>9. CASE TestNextCommand
  <2>1. call' = TestRun!Ready
    BY <1>9 DEF TestNextCommand, TestCollects
  <2> QED BY <1>9, <2>1, ReadyTest DEF TestNextCommand, TestCollects
<1>10. CASE TestCollectionEnds
  BY <1>10 DEF TestCollectionEnds
<1>11. CASE WritePart \/ WriteWhole \/ WriteFails \/ WritePipeCloses \/ TestStops
  BY <1>11 DEF WritePart, WriteWhole, WriteFails, Write, WritePipeCloses, TestStops,
               testVars
<1>12. CASE Finished \/ UNCHANGED mainVars
  BY <1>12 DEF Finished, mainVars, testVars
<1> HIDE DEF MainInv
<1> QED
  BY <1>1, <1>2, <1>3, <1>4, <1>5, <1>6, <1>7, <1>8, <1>9, <1>10, <1>11, <1>12
     DEF MainNext

\* What is known of the test holds throughout.
THEOREM MainInvariance == MainSpec => []MainInv
<1>1. MainInit => MainInv
  BY ReadyTest DEF MainInit, AgentInit, MainInv, CommandInv, TestInv, EndInv
<1>2. MainInv /\ [MainNext]_mainVars => MainInv' BY MainNextInv
<1> QED BY <1>1, <1>2, PTL DEF MainSpec

\* The exit status of the test can be believed, wherever a signal ends it, and
\* unless one that the test does not catch has, no command is left alive.
THEOREM TestStatusIsHonest == MainSpec => []TestIsHonest
<1>1. MainInv => TestIsHonest
  BY DEF MainInv, CommandInv, TestInv, EndInv, TestIsHonest
<1> QED BY <1>1, MainInvariance, PTL
=============================================================================
