------------------------- MODULE CommandRunnerProofs -------------------------
(***************************************************************************)
(* Proofs about CommandRunner, for any descendants, limits, exit codes and *)
(* pipes: what a capped buffer holds, that a Run that succeeds returns     *)
(* everything that was written, that a command it killed is reported as    *)
(* the error of the context, and that it keeps RunContract.  And, for any  *)
(* environments and overrides, what a command finds in its environment.    *)
(***************************************************************************)
EXTENDS CommandRunner, Induction, SequenceTheorems

\* The end of the context.
LEMMA ContextEndsInv == ASSUME IInv, ContextEnds PROVE IInv'
<1> USE RunnerAssumption DEF IInv, procVars, pipeVars, Streams, Processes, Descendants
<1>1. TypeOK'
  BY DEF TypeOK, Killed, Leader, ContextEnds
<1>2. CappedBufferExact'
  BY DEF TypeOK, CopierInv, CappedBufferExact, Least, ContextEnds
<1>3. CopierInv'
  BY DEF TypeOK, CopierInv, Leader, ContextEnds
<1>4. ClosedInv'
  BY DEF TypeOK, ClosedInv, RunInv, CopiersDone, ContextEnds
<1>5. RunInv'
  BY DEF TypeOK, RunInv, ClosedInv, CopiersDone, ContextEnds
<1>6. SuccessInv'
  BY DEF TypeOK, SuccessInv, RunInv, ClosedInv, ContextEnds
<1> QED BY <1>1, <1>2, <1>3, <1>4, <1>5, <1>6

\* A byte goes into a pipe that is open and has a holder, so no copier of an
\* open pipe has ended.
LEMMA WriteInv == ASSUME IInv, NEW p \in Processes, NEW s \in Streams, Write(p, s) PROVE IInv'
<1> USE RunnerAssumption DEF IInv, procVars, pipeVars, Streams, Processes, Descendants
<1>1. TypeOK'
  BY DEF TypeOK, Killed, Leader, Write
<1>2. CappedBufferExact'
  BY DEF TypeOK, CopierInv, CappedBufferExact, Least, Write
<1>3. CopierInv'
  BY DEF TypeOK, CopierInv, Leader, Write
<1>4. ClosedInv'
  BY DEF TypeOK, ClosedInv, RunInv, CopiersDone, Write
<1>5. RunInv'
  BY DEF TypeOK, RunInv, ClosedInv, CopiersDone, Write
<1>6. SuccessInv'
  BY DEF TypeOK, SuccessInv, RunInv, ClosedInv, Write
<1> QED BY <1>1, <1>2, <1>3, <1>4, <1>5, <1>6

\* Only a holder forks, so no copier of an open pipe has ended.
LEMMA ForkInv == ASSUME IInv, NEW d \in Descendants, Fork(d) PROVE IInv'
<1> USE RunnerAssumption DEF IInv, procVars, pipeVars, Streams, Processes, Descendants
<1>1. TypeOK'
  <2>1. born' \subseteq Descendants /\ alive' \subseteq Descendants /\ holding' \subseteq Processes
    BY DEF TypeOK, Fork
  <2> QED BY <2>1 DEF TypeOK, Fork
<1>2. CappedBufferExact'
  BY DEF TypeOK, CopierInv, CappedBufferExact, Least, Fork
<1>3. CopierInv'
  BY DEF TypeOK, CopierInv, Leader, Fork
<1>4. ClosedInv'
  BY DEF TypeOK, ClosedInv, RunInv, CopiersDone, Fork
<1>5. RunInv'
  BY DEF TypeOK, RunInv, ClosedInv, CopiersDone, Fork
<1>6. SuccessInv'
  BY DEF TypeOK, SuccessInv, RunInv, ClosedInv, Fork
<1> QED BY <1>1, <1>2, <1>3, <1>4, <1>5, <1>6

\* There is one holder less.
LEMMA CloseOutputInv == ASSUME IInv, NEW p \in Processes, CloseOutput(p) PROVE IInv'
<1> USE RunnerAssumption DEF IInv, procVars, pipeVars, Streams, Processes, Descendants
<1>1. TypeOK'
  BY DEF TypeOK, Killed, Leader, CloseOutput
<1>2. CappedBufferExact'
  BY DEF TypeOK, CopierInv, CappedBufferExact, Least, CloseOutput
<1>3. CopierInv'
  BY DEF TypeOK, CopierInv, Leader, CloseOutput
<1>4. ClosedInv'
  BY DEF TypeOK, ClosedInv, RunInv, CopiersDone, CloseOutput
<1>5. RunInv'
  BY DEF TypeOK, RunInv, ClosedInv, CopiersDone, CloseOutput
<1>6. SuccessInv'
  BY DEF TypeOK, SuccessInv, RunInv, ClosedInv, CloseOutput
<1> QED BY <1>1, <1>2, <1>3, <1>4, <1>5, <1>6

\* The command exits before it is reaped.
LEMMA LeaderExitsInv == ASSUME IInv, NEW c \in ExitCodes, LeaderExits(c) PROVE IInv'
<1> USE RunnerAssumption DEF IInv, procVars, pipeVars, Streams, Processes, Descendants
<1>1. TypeOK'
  BY DEF TypeOK, Killed, Leader, LeaderExits
<1>2. CappedBufferExact'
  BY DEF TypeOK, CopierInv, CappedBufferExact, Least, LeaderExits
<1>3. CopierInv'
  BY DEF TypeOK, CopierInv, Leader, LeaderExits
<1>4. ClosedInv'
  BY DEF TypeOK, ClosedInv, RunInv, CopiersDone, LeaderExits
<1>5. RunInv'
  BY DEF TypeOK, RunInv, ClosedInv, CopiersDone, LeaderExits
<1>6. SuccessInv'
  BY DEF TypeOK, SuccessInv, RunInv, ClosedInv, LeaderExits
<1> QED BY <1>1, <1>2, <1>3, <1>4, <1>5, <1>6

\* A descendant ends.
LEMMA DescendantExitsInv == ASSUME IInv, NEW d \in Descendants, DescendantExits(d) PROVE IInv'
<1> USE RunnerAssumption DEF IInv, procVars, pipeVars, Streams, Processes, Descendants
<1>1. TypeOK'
  <2>1. alive' \subseteq Descendants /\ holding' \subseteq Processes
    BY DEF TypeOK, DescendantExits
  <2> QED BY <2>1 DEF TypeOK, DescendantExits
<1>2. CappedBufferExact'
  BY DEF TypeOK, CopierInv, CappedBufferExact, Least, DescendantExits
<1>3. CopierInv'
  BY DEF TypeOK, CopierInv, Leader, DescendantExits
<1>4. ClosedInv'
  BY DEF TypeOK, ClosedInv, RunInv, CopiersDone, DescendantExits
<1>5. RunInv'
  BY DEF TypeOK, RunInv, ClosedInv, CopiersDone, DescendantExits
<1>6. SuccessInv'
  BY DEF TypeOK, SuccessInv, RunInv, ClosedInv, DescendantExits
<1> QED BY <1>1, <1>2, <1>3, <1>4, <1>5, <1>6

\* Run returns at once with an error.
LEMMA NameMissingInv == ASSUME IInv, NameMissing PROVE IInv'
<1> USE RunnerAssumption DEF IInv, procVars, pipeVars, Streams, Processes, Descendants
<1>1. TypeOK'
  BY DEF TypeOK, Killed, Leader, NameMissing
<1>2. CappedBufferExact'
  BY DEF TypeOK, CopierInv, CappedBufferExact, Least, NameMissing
<1>3. CopierInv'
  BY DEF TypeOK, CopierInv, Leader, NameMissing
<1>4. ClosedInv'
  BY DEF TypeOK, ClosedInv, RunInv, CopiersDone, NameMissing
<1>5. RunInv'
  BY DEF TypeOK, RunInv, ClosedInv, CopiersDone, NameMissing
<1>6. SuccessInv'
  BY DEF TypeOK, SuccessInv, RunInv, ClosedInv, NameMissing
<1> QED BY <1>1, <1>2, <1>3, <1>4, <1>5, <1>6

\* There is no process and no goroutine.
LEMMA StartFailsInv == ASSUME IInv, StartFails PROVE IInv'
<1> USE RunnerAssumption DEF IInv, procVars, pipeVars, Streams, Processes, Descendants
<1>1. TypeOK'
  BY DEF TypeOK, Killed, Leader, StartFails
<1>2. CappedBufferExact'
  BY DEF TypeOK, CopierInv, CappedBufferExact, Least, StartFails
<1>3. CopierInv'
  BY DEF TypeOK, CopierInv, Leader, StartFails
<1>4. ClosedInv'
  BY DEF TypeOK, ClosedInv, RunInv, CopiersDone, StartFails
<1>5. RunInv'
  BY DEF TypeOK, RunInv, ClosedInv, CopiersDone, StartFails
<1>6. SuccessInv'
  BY DEF TypeOK, SuccessInv, RunInv, ClosedInv, StartFails
<1> QED BY <1>1, <1>2, <1>3, <1>4, <1>5, <1>6

\* The process and the goroutines begin.
LEMMA StartedInv == ASSUME IInv, Started PROVE IInv'
<1> USE RunnerAssumption DEF IInv, procVars, pipeVars, Streams, Processes, Descendants
<1>1. TypeOK'
  BY DEF TypeOK, Killed, Leader, Started
<1>2. CappedBufferExact'
  BY DEF TypeOK, CopierInv, CappedBufferExact, Least, Started
<1>3. CopierInv'
  BY DEF TypeOK, CopierInv, Leader, Started
<1>4. ClosedInv'
  BY DEF TypeOK, ClosedInv, RunInv, CopiersDone, Started
<1>5. RunInv'
  BY DEF TypeOK, RunInv, ClosedInv, CopiersDone, Started
<1>6. SuccessInv'
  BY DEF TypeOK, SuccessInv, RunInv, ClosedInv, Started
<1> QED BY <1>1, <1>2, <1>3, <1>4, <1>5, <1>6

\* The exit code is final from here on.
LEMMA ReapInv == ASSUME IInv, Reap PROVE IInv'
<1> USE RunnerAssumption DEF IInv, procVars, pipeVars, Streams, Processes, Descendants
<1>1. TypeOK'
  BY DEF TypeOK, Killed, Leader, Reap
<1>2. CappedBufferExact'
  BY DEF TypeOK, CopierInv, CappedBufferExact, Least, Reap
<1>3. CopierInv'
  BY DEF TypeOK, CopierInv, Leader, Reap
<1>4. ClosedInv'
  BY DEF TypeOK, ClosedInv, RunInv, CopiersDone, Reap
<1>5. RunInv'
  BY DEF TypeOK, RunInv, ClosedInv, CopiersDone, Reap
<1>6. SuccessInv'
  BY DEF TypeOK, SuccessInv, RunInv, ClosedInv, Reap
<1> QED BY <1>1, <1>2, <1>3, <1>4, <1>5, <1>6

\* The watching goroutine ends.
LEMMA HandshakeInv == ASSUME IInv, Handshake PROVE IInv'
<1> USE RunnerAssumption DEF IInv, procVars, pipeVars, Streams, Processes, Descendants
<1>1. TypeOK'
  BY DEF TypeOK, Killed, Leader, Handshake
<1>2. CappedBufferExact'
  BY DEF TypeOK, CopierInv, CappedBufferExact, Least, Handshake
<1>3. CopierInv'
  BY DEF TypeOK, CopierInv, Leader, Handshake
<1>4. ClosedInv'
  BY DEF TypeOK, ClosedInv, RunInv, CopiersDone, Handshake
<1>5. RunInv'
  BY DEF TypeOK, RunInv, ClosedInv, CopiersDone, Handshake
<1>6. SuccessInv'
  BY DEF TypeOK, SuccessInv, RunInv, ClosedInv, Handshake
<1> QED BY <1>1, <1>2, <1>3, <1>4, <1>5, <1>6

\* The copiers have ended.
LEMMA AwaitCopiersInv == ASSUME IInv, AwaitCopiers PROVE IInv'
<1> USE RunnerAssumption DEF IInv, procVars, pipeVars, Streams, Processes, Descendants
<1>1. TypeOK'
  BY DEF TypeOK, Killed, Leader, AwaitCopiers
<1>2. CappedBufferExact'
  BY DEF TypeOK, CopierInv, CappedBufferExact, Least, AwaitCopiers
<1>3. CopierInv'
  BY DEF TypeOK, CopierInv, Leader, AwaitCopiers
<1>4. ClosedInv'
  BY DEF TypeOK, ClosedInv, RunInv, CopiersDone, AwaitCopiers
<1>5. RunInv'
  BY DEF TypeOK, RunInv, ClosedInv, CopiersDone, AwaitCopiers
<1>6. SuccessInv'
  BY DEF TypeOK, SuccessInv, RunInv, ClosedInv, AwaitCopiers
<1> QED BY <1>1, <1>2, <1>3, <1>4, <1>5, <1>6

\* The pipes are closed with an error.
LEMMA AwaitTimeoutInv == ASSUME IInv, AwaitTimeout PROVE IInv'
<1> USE RunnerAssumption DEF IInv, procVars, pipeVars, Streams, Processes, Descendants
<1>1. TypeOK'
  BY DEF TypeOK, Killed, Leader, AwaitTimeout
<1>2. CappedBufferExact'
  BY DEF TypeOK, CopierInv, CappedBufferExact, Least, AwaitTimeout
<1>3. CopierInv'
  BY DEF TypeOK, CopierInv, Leader, AwaitTimeout
<1>4. ClosedInv'
  BY DEF TypeOK, ClosedInv, RunInv, CopiersDone, AwaitTimeout
<1>5. RunInv'
  BY DEF TypeOK, RunInv, ClosedInv, CopiersDone, AwaitTimeout
<1>6. SuccessInv'
  BY DEF TypeOK, SuccessInv, RunInv, ClosedInv, AwaitTimeout
<1> QED BY <1>1, <1>2, <1>3, <1>4, <1>5, <1>6

\* The only step that decides the result.
LEMMA InspectInv == ASSUME IInv, Inspect PROVE IInv'
<1> USE RunnerAssumption DEF IInv, procVars, pipeVars, Streams, Processes, Descendants
<1>1. TypeOK'
  BY DEF TypeOK, Killed, Leader, Inspect, Verdict
<1>2. CappedBufferExact'
  BY DEF TypeOK, CopierInv, CappedBufferExact, Least, Inspect, Verdict
<1>3. CopierInv'
  BY DEF TypeOK, CopierInv, Leader, Inspect, Verdict
<1>4. ClosedInv'
  BY DEF TypeOK, ClosedInv, RunInv, CopiersDone, Inspect, Verdict
<1>5. RunInv'
  BY DEF TypeOK, RunInv, ClosedInv, CopiersDone, Inspect, Verdict
<1>6. SuccessInv'
  BY DEF TypeOK, SuccessInv, RunInv, ClosedInv, Inspect, Verdict
<1> QED BY <1>1, <1>2, <1>3, <1>4, <1>5, <1>6

\* The context is done before anything is killed.
LEMMA WatchCancelsInv == ASSUME IInv, WatchCancels PROVE IInv'
<1> USE RunnerAssumption DEF IInv, procVars, pipeVars, Streams, Processes, Descendants
<1>1. TypeOK'
  <2>1. alive' \subseteq Descendants /\ holding' \subseteq Processes
    BY DEF TypeOK, WatchCancels, KillAll
  <2>2. leader' \in {"none", "running", "zombie", "reaped"}
    BY DEF TypeOK, WatchCancels, KillAll
  <2>3. code' \in Nat \cup {Killed}
    BY DEF TypeOK, Killed, WatchCancels, KillAll
  <2>4. /\ watch' \in {"none", "select", "timing", "closing", "handing", "ended"}
        /\ watchErr' \in {"none", "context", "delay"}
    BY DEF TypeOK, WatchCancels
  <2>5. closed' \in BOOLEAN
    BY DEF TypeOK, WatchCancels
  <2>6. UNCHANGED <<run, err, result, ctx, born, pipeVars>>
    BY DEF WatchCancels, KillAll
  <2> QED BY <2>1, <2>2, <2>3, <2>4, <2>5, <2>6 DEF TypeOK
<1>2. CappedBufferExact'
  BY DEF TypeOK, CopierInv, CappedBufferExact, Least, WatchCancels,
     GroupExists, KillAll
<1>3. CopierInv'
  BY DEF TypeOK, CopierInv, Leader, WatchCancels, GroupExists, KillAll
<1>4. ClosedInv'
  BY DEF TypeOK, ClosedInv, RunInv, CopiersDone, WatchCancels, GroupExists,
     KillAll
<1>5. RunInv'
  BY DEF TypeOK, RunInv, ClosedInv, CopiersDone, WatchCancels, GroupExists,
     KillAll
<1>6. SuccessInv'
  BY DEF TypeOK, SuccessInv, RunInv, ClosedInv, WatchCancels, GroupExists,
     KillAll
<1> QED BY <1>1, <1>2, <1>3, <1>4, <1>5, <1>6

\* The context is done before the pipes are closed.
LEMMA WatchTimeoutInv == ASSUME IInv, WatchTimeout PROVE IInv'
<1> USE RunnerAssumption DEF IInv, procVars, pipeVars, Streams, Processes, Descendants
<1>1. TypeOK'
  <2>1. alive' \subseteq Descendants /\ holding' \subseteq Processes
    BY DEF TypeOK, WatchTimeout, KillAll
  <2>2. leader' \in {"none", "running", "zombie", "reaped"}
    BY DEF TypeOK, WatchTimeout, KillAll
  <2>3. code' \in Nat \cup {Killed}
    BY DEF TypeOK, Killed, WatchTimeout, KillAll
  <2>4. /\ watch' \in {"none", "select", "timing", "closing", "handing", "ended"}
        /\ watchErr' \in {"none", "context", "delay"}
    BY DEF TypeOK, WatchTimeout
  <2>5. closed' \in BOOLEAN
    BY DEF TypeOK, WatchTimeout, CopiersDone
  <2>6. UNCHANGED <<run, err, result, ctx, born, pipeVars>>
    BY DEF WatchTimeout, KillAll
  <2> QED BY <2>1, <2>2, <2>3, <2>4, <2>5, <2>6 DEF TypeOK
<1>2. CappedBufferExact'
  BY DEF TypeOK, CopierInv, CappedBufferExact, Least, WatchTimeout, KillAll
<1>3. CopierInv'
  BY DEF TypeOK, CopierInv, Leader, WatchTimeout, KillAll
<1>4. ClosedInv'
  BY DEF TypeOK, ClosedInv, RunInv, CopiersDone, WatchTimeout, KillAll
<1>5. RunInv'
  BY DEF TypeOK, RunInv, ClosedInv, CopiersDone, WatchTimeout, KillAll
<1>6. SuccessInv'
  BY DEF TypeOK, SuccessInv, RunInv, ClosedInv, WatchTimeout, KillAll
<1> QED BY <1>1, <1>2, <1>3, <1>4, <1>5, <1>6

\* The copiers have ended before the result is handed over.
LEMMA WatchClosedInv == ASSUME IInv, WatchClosed PROVE IInv'
<1> USE RunnerAssumption DEF IInv, procVars, pipeVars, Streams, Processes, Descendants
<1>1. TypeOK'
  BY DEF TypeOK, Killed, Leader, WatchClosed
<1>2. CappedBufferExact'
  BY DEF TypeOK, CopierInv, CappedBufferExact, Least, WatchClosed
<1>3. CopierInv'
  BY DEF TypeOK, CopierInv, Leader, WatchClosed
<1>4. ClosedInv'
  BY DEF TypeOK, ClosedInv, RunInv, CopiersDone, WatchClosed
<1>5. RunInv'
  BY DEF TypeOK, RunInv, ClosedInv, CopiersDone, WatchClosed
<1>6. SuccessInv'
  BY DEF TypeOK, SuccessInv, RunInv, ClosedInv, WatchClosed
<1> QED BY <1>1, <1>2, <1>3, <1>4, <1>5, <1>6

\* The buffer keeps the first bytes and counts no byte twice.
LEMMA CopyInv == ASSUME IInv, NEW s \in Streams, Copy(s) PROVE IInv'
<1> USE RunnerAssumption DEF IInv, procVars, pipeVars, Streams, Processes, Descendants
<1>0. PICK n \in 1..pipe[s] : CappedWrite(s, n) /\ pipe' = [pipe EXCEPT ![s] = @ - n]
  BY DEF Copy
<1>a. /\ s \in Streams /\ n \in Nat /\ pipe[s] \in Nat /\ pipe[s] - n \in Nat
      /\ kept[s] \in Nat /\ Limit[s] \in Nat /\ wrote[s] \in Nat
      /\ kept[s] <= Limit[s]
  BY <1>0 DEF TypeOK, CappedBufferExact, CopierInv, Least
<1> DEFINE room == Limit[s] - kept[s]
<1>c. room \in Nat /\ kept[s] + Least(n, room) \in Nat
  BY <1>a DEF Least
<1>d. /\ kept' = [kept EXCEPT ![s] = kept[s] + Least(n, room)]
      /\ over' = [over EXCEPT ![s] = over[s] \/ n > room]
  BY <1>0 DEF CappedWrite
<1>1. TypeOK'
  BY <1>0, <1>a, <1>c, <1>d DEF TypeOK, Copy
<1>2. CappedBufferExact'
  <2>1. /\ kept'[s] = kept[s] + Least(n, room)
        /\ over'[s] = (over[s] \/ n > room)
        /\ pipe'[s] = pipe[s] - n /\ wrote'[s] = wrote[s]
    BY <1>0, <1>d DEF TypeOK, Copy
  <2>2. /\ kept[s] = Least(wrote[s] - pipe[s], Limit[s])
        /\ over[s] <=> wrote[s] - pipe[s] > Limit[s]
    BY DEF CappedBufferExact
  <2>3. kept'[s] = Least(wrote'[s] - pipe'[s], Limit[s])
    BY <1>a, <2>1, <2>2 DEF Least
  <2>4. over'[s] <=> over[s] \/ n > room
    BY <2>1 DEF TypeOK
  <2>5. over'[s] <=> wrote'[s] - pipe'[s] > Limit[s]
    BY <1>a, <2>1, <2>2, <2>4 DEF Least
  <2>6. ASSUME NEW t \in Streams, t # s
        PROVE  /\ kept'[t] = Least(wrote'[t] - pipe'[t], Limit[t])
               /\ over'[t] <=> wrote'[t] - pipe'[t] > Limit[t]
    <3>1. /\ kept'[t] = kept[t] /\ over'[t] = over[t]
          /\ pipe'[t] = pipe[t] /\ wrote'[t] = wrote[t]
      BY <1>0, <1>d, <2>6 DEF TypeOK, Copy
    <3> QED BY <3>1 DEF CappedBufferExact
  <2> QED BY <2>3, <2>5, <2>6 DEF CappedBufferExact
<1>3. CopierInv'
  BY <1>0, <1>a, <1>d DEF TypeOK, CopierInv, Leader, Copy
<1>4. ClosedInv'
  BY <1>0, <1>a, <1>d DEF TypeOK, ClosedInv, RunInv, CopiersDone, Copy
<1>5. RunInv'
  BY <1>0, <1>a, <1>d DEF TypeOK, RunInv, ClosedInv, CopiersDone, Copy
<1>6. SuccessInv'
  BY <1>0, <1>a, <1>d DEF TypeOK, SuccessInv, RunInv, ClosedInv, Copy
<1> QED BY <1>1, <1>2, <1>3, <1>4, <1>5, <1>6

\* A copier ends at the end of file or because the pipes are closed.
LEMMA CopyEndsInv == ASSUME IInv, NEW s \in Streams, CopyEnds(s) PROVE IInv'
<1> USE RunnerAssumption DEF IInv, procVars, pipeVars, Streams, Processes, Descendants
<1>1. TypeOK'
  BY DEF TypeOK, Killed, Leader, CopyEnds
<1>2. CappedBufferExact'
  BY DEF TypeOK, CopierInv, CappedBufferExact, Least, CopyEnds
<1>3. CopierInv'
  BY DEF TypeOK, CopierInv, Leader, CopyEnds
<1>4. ClosedInv'
  BY DEF TypeOK, ClosedInv, RunInv, CopiersDone, CopyEnds
<1>5. RunInv'
  BY DEF TypeOK, RunInv, ClosedInv, CopiersDone, CopyEnds
<1>6. SuccessInv'
  BY DEF TypeOK, SuccessInv, RunInv, ClosedInv, CopyEnds
<1> QED BY <1>1, <1>2, <1>3, <1>4, <1>5, <1>6

-----------------------------------------------------------------------------
\* Before the command is started nothing has been written.
LEMMA InitInv == Init => IInv
<1> SUFFICES ASSUME Init PROVE IInv
  OBVIOUS
<1> USE RunnerAssumption DEF Init, Streams, Processes, Descendants
<1>1. TypeOK BY DEF TypeOK
<1>2. CappedBufferExact BY DEF CappedBufferExact, Least
<1>3. CopierInv /\ ClosedInv /\ RunInv /\ SuccessInv
  BY DEF CopierInv, ClosedInv, RunInv, SuccessInv
<1> QED BY <1>1, <1>2, <1>3 DEF IInv

\* A step that changes no variable preserves the invariant.
LEMMA StutterInv == ASSUME IInv, UNCHANGED vars PROVE IInv'
BY DEF vars, procVars, pipeVars, IInv, TypeOK, CappedBufferExact, CopierInv,
       ClosedInv, RunInv, SuccessInv, CopiersDone

\* Every step of the command, of the goroutines and of Run preserves it.
LEMMA NextInv == ASSUME IInv, [Next]_vars PROVE IInv'
BY ContextEndsInv, WriteInv, ForkInv, CloseOutputInv, LeaderExitsInv,
   DescendantExitsInv, NameMissingInv, StartFailsInv, StartedInv, ReapInv,
   HandshakeInv, AwaitCopiersInv, AwaitTimeoutInv, InspectInv,
   WatchCancelsInv, WatchTimeoutInv, WatchClosedInv, CopyInv, CopyEndsInv,
   StutterInv DEF Next, ProcessStep, GoStep, Returned

\* The inductive invariant holds throughout.
THEOREM Invariance == Spec => []IInv
<1>1. Init => IInv BY InitInv
<1>2. IInv /\ [Next]_vars => IInv' BY NextInv
<1> QED BY <1>1, <1>2, PTL DEF Spec

\* The types of the variables.
THEOREM TypeCorrect == Spec => []TypeOK
BY Invariance, PTL DEF IInv

\* A capped buffer is exact for every limit and every way to cut the output
\* into chunks.
THEOREM BuffersAreExact == Spec => []CappedBufferExact
BY Invariance, PTL DEF IInv

\* A Run that succeeds returns every byte that was written.
THEOREM SuccessMeansComplete == Spec => []SuccessIsComplete
<1>1. IInv => SuccessIsComplete
  <2> SUFFICES ASSUME IInv, result = "ok", Accepted = {}
               PROVE  code = 0 /\ \A s \in Streams : kept[s] = wrote[s]
    BY DEF SuccessIsComplete
  <2>1. code = 0 BY DEF IInv, SuccessInv
  <2>2. ASSUME NEW s \in Streams PROVE kept[s] = wrote[s]
    <3>1. pipe[s] = 0 /\ ~over[s] BY DEF IInv, SuccessInv, CopierInv
    <3>2. wrote[s] \in Nat /\ kept[s] \in Nat /\ Limit[s] \in Nat
      BY RunnerAssumption DEF IInv, TypeOK
    <3>3. wrote[s] <= Limit[s]
      BY <3>1, <3>2 DEF IInv, CappedBufferExact
    <3> QED BY <3>1, <3>2, <3>3 DEF IInv, CappedBufferExact, Least
  <2> QED BY <2>1, <2>2
<1> QED BY <1>1, Invariance, PTL

-----------------------------------------------------------------------------
(***************************************************************************)
(* The command that Run has started, followed to its end: what            *)
(* KilledIsContextError and RunContract need of it.                        *)
(***************************************************************************)
\* Where Run is and where the command is go together.  Without a command no
\* byte was written, and nobody watches; a command that was killed was killed
\* because the context is done, and Run saw that when it looked.
CommandInv ==
  /\ run = "start" \/ (run = "inspect" /\ err = "start") => leader = "none"
  /\ run = "wait" => leader \in {"running", "zombie"}
  /\ run = "returned" => leader \in {"none", "reaped"} /\ result # "none"
  /\ leader = "none" =>
       /\ code = 0 /\ watch = "none" /\ holding = {}
       /\ \A s \in Streams : wrote[s] = 0 /\ pipe[s] = 0 /\ ~over[s]
  /\ leader = "none" => run \in {"start", "inspect", "returned"}
  /\ run = "inspect" /\ leader = "none" => err = "start"
  /\ err = "start" => run \in {"inspect", "returned"}
  /\ code = Killed => ctx = "done"
  /\ KilledIsContextError

\* What is known of a Run and of its command.
JInv == IInv /\ CommandInv

\* The command's invariant holds before Run begins.
LEMMA InitCommand == Init => CommandInv
BY DEF Init, CommandInv, KilledIsContextError, Killed, Streams

\* Every step of the command, of the goroutines and of Run preserves it.
LEMMA NextCommand == ASSUME JInv, [Next]_vars PROVE CommandInv'
<1> USE RunnerAssumption DEF JInv, IInv, TypeOK, RunInv, ClosedInv, CommandInv,
        KilledIsContextError, Killed, procVars, pipeVars
<1>1. ASSUME ContextEnds PROVE CommandInv'
  BY <1>1 DEF ContextEnds
<1>2. ASSUME NEW p \in Processes, NEW s \in Streams, Write(p, s) PROVE CommandInv'
  BY <1>2 DEF Write
<1>3. ASSUME NEW d \in Descendants, Fork(d) PROVE CommandInv'
  BY <1>3 DEF Fork
<1>4. ASSUME NEW p \in Processes, CloseOutput(p) PROVE CommandInv'
  BY <1>4 DEF CloseOutput
<1>5. ASSUME NEW c \in ExitCodes, LeaderExits(c) PROVE CommandInv'
  BY <1>5 DEF LeaderExits
<1>6. ASSUME NEW d \in Descendants, DescendantExits(d) PROVE CommandInv'
  BY <1>6 DEF DescendantExits
<1>7. ASSUME NameMissing PROVE CommandInv'
  BY <1>7 DEF NameMissing
<1>8. ASSUME StartFails PROVE CommandInv'
  BY <1>8 DEF StartFails
<1>9. ASSUME Started PROVE CommandInv'
  BY <1>9 DEF Started
<1>10. ASSUME Reap PROVE CommandInv'
  BY <1>10 DEF Reap
<1>11. ASSUME Handshake PROVE CommandInv'
  BY <1>11 DEF Handshake
<1>12. ASSUME AwaitCopiers PROVE CommandInv'
  BY <1>12 DEF AwaitCopiers
<1>13. ASSUME AwaitTimeout PROVE CommandInv'
  BY <1>13 DEF AwaitTimeout
<1>14. ASSUME Inspect PROVE CommandInv'
  BY <1>14 DEF Inspect, Verdict
<1>15. ASSUME WatchCancels PROVE CommandInv'
  BY <1>15 DEF WatchCancels, KillAll
<1>16. ASSUME WatchTimeout PROVE CommandInv'
  BY <1>16 DEF WatchTimeout, KillAll
<1>17. ASSUME WatchClosed PROVE CommandInv'
  BY <1>17 DEF WatchClosed
<1>18. ASSUME NEW s \in Streams, Copy(s) PROVE CommandInv'
  BY <1>18 DEF Copy, CappedWrite
<1>19. ASSUME NEW s \in Streams, CopyEnds(s) PROVE CommandInv'
  BY <1>19 DEF CopyEnds
<1>20. CASE UNCHANGED vars
  BY <1>20 DEF vars
<1> HIDE DEF JInv, CommandInv
<1> QED
  BY <1>1, <1>2, <1>3, <1>4, <1>5, <1>6, <1>7, <1>8, <1>9, <1>10, <1>11, <1>12, <1>13, <1>14,
     <1>15, <1>16, <1>17, <1>18, <1>19, <1>20
     DEF Next, ProcessStep, GoStep, Returned

\* The command can be followed in every behaviour.
THEOREM CommandInvariance == Spec => []JInv
<1>1. Init => CommandInv BY InitCommand
<1>2. JInv /\ [Next]_vars => CommandInv' BY NextCommand
<1> QED BY <1>1, <1>2, Invariance, PTL DEF Spec, JInv

\* A command that Run has killed is reported as its context's error.
THEOREM KilledMeansContext == Spec => []KilledIsContextError
BY CommandInvariance, PTL DEF JInv, CommandInv

-----------------------------------------------------------------------------
(***************************************************************************)
(* The refinement of RunContract.  Six actions move the contract's call or *)
(* its context; every other step leaves both as they are.                  *)
(***************************************************************************)
\* A Run begins as the contract's call does.
LEMMA ContractInit == Init => Contract!Init
BY DEF Init, Contract!Init, Contract!Ready, Phase, CommandNow, Outcome, Streams

\* A step that changes neither the phase, nor the command, nor the outcome.
LEMMA SameCall ==
  ASSUME Phase' = Phase, CommandNow' = CommandNow, Outcome' = Outcome, ctx' = ctx
  PROVE  UNCHANGED Contract!vars
BY DEF Contract!vars

\* What a call looks like whose command is begun.
LEMMA BegunCall ==
  ASSUME NEW c, NEW o
  PROVE  [phase |-> "running", command |-> "alive", outcome |-> o]
           \in Contract!Begun([phase |-> "ready", command |-> c, outcome |-> o], FALSE)
<1> DEFINE x == [phase |-> "ready", command |-> c, outcome |-> o]
           y == [phase |-> "running", command |-> c, outcome |-> o]
           z == [phase |-> "running", command |-> "alive", outcome |-> o]
<1>1. [x EXCEPT !.phase = "running"] = y /\ [y EXCEPT !.command = "alive"] = z
  OBVIOUS
<1>2. [x EXCEPT !.phase = "running", !.command = "alive"]
        = [[x EXCEPT !.phase = "running"] EXCEPT !.command = "alive"]
  OBVIOUS
<1>3. x.phase = "ready"
  OBVIOUS
<1> HIDE DEF x, y, z
<1>4. [x EXCEPT !.phase = "running", !.command = "alive"] = z
  BY <1>1, <1>2
<1>5. z \in Contract!Begun(x, FALSE)
  BY <1>3, <1>4 DEF Contract!Begun
<1> QED BY <1>5 DEF x, z

\* The command is begun under a context that is live.
LEMMA BegunStep ==
  ASSUME Phase = "ready", Phase' = "running", CommandNow' = "alive", Outcome' = Outcome,
         ctx = "active", ctx' = ctx
  PROVE  Contract!Step
<1> DEFINE now == [phase |-> Phase, command |-> CommandNow, outcome |-> Outcome]
<1>1. now' = [phase |-> "running", command |-> "alive", outcome |-> Outcome]
  OBVIOUS
<1>2. now = [phase |-> "ready", command |-> CommandNow, outcome |-> Outcome]
  OBVIOUS
<1>3. now' \in Contract!Begun(now, FALSE)
  BY <1>1, <1>2, BegunCall
<1> QED BY <1>3 DEF Contract!Step

\* The command ends while the call goes on.
LEMMA EndedStep ==
  ASSUME Phase' = Phase, CommandNow = "alive", CommandNow' = "dead", Outcome' = Outcome,
         ctx' = ctx
  PROVE  Contract!Step
<1> DEFINE now == [phase |-> Phase, command |-> CommandNow, outcome |-> Outcome]
<1>1. now' = [now EXCEPT !.command = "dead"]
  OBVIOUS
<1>2. now' \in Contract!Ended(now)
  BY <1>1 DEF Contract!Ended
<1> QED BY <1>2 DEF Contract!Step

\* What a call looks like that returns.
LEMMA ReturnedCall ==
  ASSUME NEW S, NEW c, NEW p, NEW o, NEW r \in S
  PROVE  [phase |-> "returned", command |-> c, outcome |-> r]
           \in Contract!ReturnedWith([phase |-> p, command |-> c, outcome |-> o], S)
<1> DEFINE x == [phase |-> p, command |-> c, outcome |-> o]
           y == [phase |-> "returned", command |-> c, outcome |-> o]
           z == [phase |-> "returned", command |-> c, outcome |-> r]
<1>1. [x EXCEPT !.phase = "returned"] = y /\ [y EXCEPT !.outcome = r] = z
  OBVIOUS
<1>2. [x EXCEPT !.phase = "returned", !.outcome = r]
        = [[x EXCEPT !.phase = "returned"] EXCEPT !.outcome = r]
  OBVIOUS
<1> HIDE DEF x, y, z
<1>3. [x EXCEPT !.phase = "returned", !.outcome = r] = z
  BY <1>1, <1>2
<1>4. z \in Contract!ReturnedWith(x, S)
  BY <1>3 DEF Contract!ReturnedWith
<1> QED BY <1>4 DEF x, z

\* The call returns without a command, and so with an error.
LEMMA NotBegunStep ==
  ASSUME Phase = "ready", Phase' = "returned", CommandNow' = CommandNow, ctx' = ctx,
         Outcome' = "failed" \/ (ctx = "done" /\ Outcome' = "context")
  PROVE  Contract!Step
<1> DEFINE now == [phase |-> Phase, command |-> CommandNow, outcome |-> Outcome]
           S == IF ctx = "done" THEN {"context", "failed"} ELSE {"failed"}
<1>1. Outcome' \in S
  OBVIOUS
<1>2. now' = [phase |-> "returned", command |-> CommandNow, outcome |-> Outcome']
  OBVIOUS
<1>3. Contract!NotBegun(now, ctx = "done") = Contract!ReturnedWith(now, S)
  BY DEF Contract!NotBegun
<1>4. now' \in Contract!ReturnedWith(now, S)
  <2> HIDE DEF S
  <2>1. [phase |-> "returned", command |-> CommandNow, outcome |-> Outcome']
          \in Contract!ReturnedWith(now, S)
    BY <1>1, ReturnedCall, Zenon
  <2> QED BY <1>2, <2>1
<1> QED BY <1>3, <1>4 DEF Contract!Step

\* The call returns when the command is gone: with the context's error exactly
\* when the context is done.
LEMMA ReturnedStep ==
  ASSUME Phase = "running", Phase' = "returned", CommandNow = "dead",
         CommandNow' = CommandNow, ctx' = ctx,
         IF ctx = "done" THEN Outcome' = "context" ELSE Outcome' \in {"ok", "limit", "failed"}
  PROVE  Contract!Step
<1> DEFINE now == [phase |-> Phase, command |-> CommandNow, outcome |-> Outcome]
           S == IF ctx = "done" THEN {"context"} ELSE {"ok", "limit", "failed"}
<1>1. Outcome' \in S
  OBVIOUS
<1>2. now' = [phase |-> "returned", command |-> CommandNow, outcome |-> Outcome']
  OBVIOUS
<1>3. Contract!Returned(now, ctx = "done") = Contract!ReturnedWith(now, S)
  BY DEF Contract!Returned
<1>4. now' \in Contract!ReturnedWith(now, S)
  <2> HIDE DEF S
  <2>1. [phase |-> "returned", command |-> CommandNow, outcome |-> Outcome']
          \in Contract!ReturnedWith(now, S)
    BY <1>1, ReturnedCall, Zenon
  <2> QED BY <1>2, <2>1
<1> QED BY <1>3, <1>4 DEF Contract!Step

\* Every step of Run is a step of the contract or leaves it as it is.
LEMMA ContractStep ==
  ASSUME JInv, [Next]_vars
  PROVE  [Contract!ContextEnds \/ Contract!Step]_Contract!vars
<1> USE RunnerAssumption DEF JInv, IInv, TypeOK, RunInv, CommandInv, Streams, Killed,
        procVars, pipeVars
<1>1. ASSUME ContextEnds PROVE Contract!ContextEnds
  BY <1>1 DEF ContextEnds, Contract!ContextEnds, Phase, CommandNow, Outcome
<1>2. ASSUME NEW p \in Processes, NEW s \in Streams, Write(p, s) PROVE UNCHANGED Contract!vars
  BY <1>2, SameCall DEF Write, Phase, CommandNow, Outcome
<1>3. ASSUME NEW d \in Descendants, Fork(d) PROVE UNCHANGED Contract!vars
  BY <1>3, SameCall DEF Fork, Phase, CommandNow, Outcome
<1>4. ASSUME NEW p \in Processes, CloseOutput(p) PROVE UNCHANGED Contract!vars
  BY <1>4, SameCall DEF CloseOutput, Phase, CommandNow, Outcome
<1>5. ASSUME NEW c \in ExitCodes, LeaderExits(c) PROVE Contract!Step
  BY <1>5, EndedStep DEF LeaderExits, Phase, CommandNow, Outcome
<1>6. ASSUME NEW d \in Descendants, DescendantExits(d) PROVE UNCHANGED Contract!vars
  BY <1>6, SameCall DEF DescendantExits, Phase, CommandNow, Outcome
<1>7. ASSUME NameMissing PROVE Contract!Step
  BY <1>7, NotBegunStep DEF NameMissing, Phase, CommandNow, Outcome
<1>8. ASSUME StartFails PROVE UNCHANGED Contract!vars
  BY <1>8, SameCall DEF StartFails, Phase, CommandNow, Outcome
<1>9. ASSUME Started PROVE Contract!Step
  BY <1>9, BegunStep DEF Started, Phase, CommandNow, Outcome
<1>10. ASSUME Reap PROVE UNCHANGED Contract!vars
  BY <1>10, SameCall DEF Reap, Phase, CommandNow, Outcome
<1>11. ASSUME Handshake PROVE UNCHANGED Contract!vars
  BY <1>11, SameCall DEF Handshake, Phase, CommandNow, Outcome
<1>12. ASSUME AwaitCopiers PROVE UNCHANGED Contract!vars
  BY <1>12, SameCall DEF AwaitCopiers, Phase, CommandNow, Outcome
<1>13. ASSUME AwaitTimeout PROVE UNCHANGED Contract!vars
  BY <1>13, SameCall DEF AwaitTimeout, Phase, CommandNow, Outcome
<1>14. ASSUME Inspect PROVE Contract!Step
  <2>1. CASE err = "start"
    BY <1>14, <2>1, NotBegunStep DEF Inspect, Verdict, Phase, CommandNow, Outcome
  <2>2. CASE err # "start"
    BY <1>14, <2>2, ReturnedStep DEF Inspect, Verdict, Phase, CommandNow, Outcome
  <2> QED BY <2>1, <2>2
<1>15. ASSUME WatchCancels PROVE Contract!Step \/ UNCHANGED Contract!vars
  <2>1. CASE leader = "running"
    BY <1>15, <2>1, EndedStep DEF WatchCancels, KillAll, Phase, CommandNow, Outcome
  <2>2. CASE leader # "running"
    BY <1>15, <2>2, SameCall DEF WatchCancels, KillAll, Phase, CommandNow, Outcome
  <2> QED BY <2>1, <2>2
<1>16. ASSUME WatchTimeout PROVE Contract!Step \/ UNCHANGED Contract!vars
  <2>1. CASE leader = "running"
    BY <1>16, <2>1, EndedStep DEF WatchTimeout, KillAll, Phase, CommandNow, Outcome
  <2>2. CASE leader # "running"
    BY <1>16, <2>2, SameCall DEF WatchTimeout, KillAll, Phase, CommandNow, Outcome
  <2> QED BY <2>1, <2>2
<1>17. ASSUME WatchClosed PROVE UNCHANGED Contract!vars
  BY <1>17, SameCall DEF WatchClosed, Phase, CommandNow, Outcome
<1>18. ASSUME NEW s \in Streams, Copy(s) PROVE UNCHANGED Contract!vars
  BY <1>18, SameCall DEF Copy, Phase, CommandNow, Outcome
<1>19. ASSUME NEW s \in Streams, CopyEnds(s) PROVE UNCHANGED Contract!vars
  BY <1>19, SameCall DEF CopyEnds, Phase, CommandNow, Outcome
<1>20. CASE UNCHANGED vars
  BY <1>20, SameCall DEF vars, Phase, CommandNow, Outcome
<1> HIDE DEF JInv
<1> QED
  BY <1>1, <1>2, <1>3, <1>4, <1>5, <1>6, <1>7, <1>8, <1>9, <1>10, <1>11, <1>12, <1>13, <1>14,
     <1>15, <1>16, <1>17, <1>18, <1>19, <1>20
     DEF Next, ProcessStep, GoStep, Returned

\* Every behaviour of Run is one of the contract: Run never returns while its
\* command is alive, the context has the first word about the outcome, and
\* success means a context that was live.
THEOREM KeepsContract == Spec => Contract!Spec
<1>1. Init => Contract!Init BY ContractInit
<1>2. JInv /\ [Next]_vars => [Contract!ContextEnds \/ Contract!Step]_Contract!vars
  BY ContractStep
<1> QED BY <1>1, <1>2, CommandInvariance, PTL DEF Spec, Contract!Spec

-----------------------------------------------------------------------------
(***************************************************************************)
(* The environment.  Position p is that of a last entry among the first n  *)
(* when no later one of them has its key.                                  *)
(***************************************************************************)
IsLast(entries, n, p) ==
  /\ p \in 1..n /\ Wellformed(entries[p])
  /\ \A q \in 1..n : Wellformed(entries[q]) /\ Key(entries[q]) = Key(entries[p]) => q <= p

\* The recursion of Merged.
MergedTo(entries) ==
  CHOOSE merged : merged = [i \in 0 .. Len(entries) |->
    IF i = 0 THEN <<>>
    ELSE IF Wellformed(entries[i]) THEN Put(merged[i - 1], entries[i]) ELSE merged[i - 1]]

\* A merged environment of the first n entries: their last ones, each once.
HoldsLast(env, entries, n) ==
  /\ env \in Seq({e \in Entries : Wellformed(e)})
  /\ \A i, j \in DOMAIN env : Key(env[i]) = Key(env[j]) => i = j
  /\ \A i \in DOMAIN env : \E p : IsLast(entries, n, p) /\ entries[p] = env[i]
  /\ \A p : IsLast(entries, n, p) => \E i \in DOMAIN env : env[i] = entries[p]

\* Putting an entry makes a sequence of entries.
LEMMA PutIsSequence ==
  ASSUME NEW E, NEW env \in Seq(E), NEW entry \in E
  PROVE  /\ Put(env, entry) \in Seq(E)
         /\ DOMAIN env \subseteq DOMAIN Put(env, entry)
         /\ \A i \in DOMAIN env : Put(env, entry)[i] = IF Key(env[i]) = Key(entry) THEN entry ELSE env[i]
         /\ \A i \in DOMAIN Put(env, entry) \ DOMAIN env : Put(env, entry)[i] = entry
         /\ \E i \in DOMAIN Put(env, entry) : Put(env, entry)[i] = entry
         /\ \A i, j \in DOMAIN Put(env, entry) \ DOMAIN env : i = j
         /\ DOMAIN Put(env, entry) # DOMAIN env => \A i \in DOMAIN env : Key(env[i]) # Key(entry)
<1> DEFINE n == Len(env)
<1>1. n \in Nat /\ DOMAIN env = 1..n /\ \A i \in 1..n : env[i] \in E
  OBVIOUS
<1>2. CASE \E i \in DOMAIN env : Key(env[i]) = Key(entry)
  <2>1. Put(env, entry) = [i \in 1..n |-> IF Key(env[i]) = Key(entry) THEN entry ELSE env[i]]
    BY <1>1, <1>2 DEF Put
  <2>2. \A i \in 1..n : (IF Key(env[i]) = Key(entry) THEN entry ELSE env[i]) \in E
    BY <1>1
  <2> DEFINE put == Put(env, entry)
  <2> HIDE DEF put, n
  <2>3. put \in Seq(E) /\ DOMAIN put = 1..n
    BY <1>1, <2>1, <2>2 DEF put
  <2>4. \A i \in 1..n : put[i] = IF Key(env[i]) = Key(entry) THEN entry ELSE env[i]
    BY <2>1 DEF put
  <2>5. \E i \in 1..n : put[i] = entry
    BY <1>1, <1>2, <2>4
  <2> QED BY <1>1, <2>3, <2>4, <2>5 DEF put
<1>3. CASE ~ \E i \in DOMAIN env : Key(env[i]) = Key(entry)
  <2>1. Put(env, entry) = Append(env, entry)
    BY <1>3 DEF Put
  <2>2. /\ Append(env, entry) \in Seq(E) /\ DOMAIN Append(env, entry) = 1..(n + 1)
        /\ Append(env, entry)[n + 1] = entry /\ \A i \in 1..n : Append(env, entry)[i] = env[i]
    BY <1>1, AppendProperties
  <2> DEFINE put == Put(env, entry)
  <2>3. put \in Seq(E) /\ DOMAIN put = 1..(n + 1) /\ put[n + 1] = entry
        /\ \A i \in 1..n : put[i] = env[i]
    BY <2>1, <2>2
  <2> HIDE DEF put, n
  <2>4. \A i : i \in (1..(n + 1)) \ (1..n) <=> i = n + 1
    BY <1>1
  <2>5. n + 1 \in 1..(n + 1) /\ 1..n \subseteq 1..(n + 1)
    BY <1>1
  <2> QED BY <1>1, <1>3, <2>3, <2>4, <2>5 DEF put
<1> QED BY <1>2, <1>3

\* A loop step: the entry is last now, and those of its key are no longer.
LEMMA PutHoldsLast ==
  ASSUME NEW entries \in Seq(Entries), NEW n \in 1..Len(entries), NEW env,
         HoldsLast(env, entries, n - 1), Wellformed(entries[n])
  PROVE  HoldsLast(Put(env, entries[n]), entries, n)
<1> DEFINE W == {e \in Entries : Wellformed(e)}
           entry == entries[n]
           put == Put(env, entry)
<1>0. n \in Nat /\ n - 1 \in Nat /\ \A p : p \in 1..n <=> p \in 1..(n - 1) \/ p = n
  OBVIOUS
<1>1. /\ env \in Seq(W)
      /\ \A i, j \in DOMAIN env : Key(env[i]) = Key(env[j]) => i = j
      /\ \A i \in DOMAIN env : \E p : IsLast(entries, n - 1, p) /\ entries[p] = env[i]
      /\ \A p : IsLast(entries, n - 1, p) => \E i \in DOMAIN env : env[i] = entries[p]
  BY DEF HoldsLast
<1>2. entry \in W
  BY ElementOfSeq
<1> HIDE DEF W
<1>3. /\ put \in Seq(W)
      /\ DOMAIN env \subseteq DOMAIN put
      /\ \A i \in DOMAIN env : put[i] = IF Key(env[i]) = Key(entry) THEN entry ELSE env[i]
      /\ \A i \in DOMAIN put \ DOMAIN env : put[i] = entry
      /\ \E i \in DOMAIN put : put[i] = entry
      /\ \A i, j \in DOMAIN put \ DOMAIN env : i = j
      /\ DOMAIN put # DOMAIN env => \A i \in DOMAIN env : Key(env[i]) # Key(entry)
  BY <1>1, <1>2, PutIsSequence
<1> HIDE DEF put
<1>4. ASSUME NEW i \in DOMAIN put, NEW j \in DOMAIN put, Key(put[i]) = Key(put[j])
      PROVE  i = j
  <2>1. CASE i \in DOMAIN env /\ j \in DOMAIN env
    <3>1. Key(env[i]) = Key(env[j])
      BY <1>3, <1>4, <2>1
    <3> QED BY <1>1, <2>1, <3>1
  <2>2. CASE i \in DOMAIN env /\ j \notin DOMAIN env
    BY <1>3, <1>4, <2>2
  <2>3. CASE i \notin DOMAIN env /\ j \in DOMAIN env
    BY <1>3, <1>4, <2>3
  <2>4. CASE i \notin DOMAIN env /\ j \notin DOMAIN env
    BY <1>3, <2>4
  <2> QED BY <2>1, <2>2, <2>3, <2>4
<1>5. IsLast(entries, n, n)
  BY <1>0 DEF IsLast
<1>6. \A p : p # n => (IsLast(entries, n, p)
               <=> IsLast(entries, n - 1, p) /\ Key(entries[p]) # Key(entry))
  <2> TAKE p
  <2>1. ASSUME p # n, IsLast(entries, n, p)
        PROVE  IsLast(entries, n - 1, p) /\ Key(entries[p]) # Key(entry)
    BY <1>0, <2>1 DEF IsLast
  <2>2. ASSUME IsLast(entries, n - 1, p), Key(entries[p]) # Key(entry)
        PROVE  IsLast(entries, n, p)
    BY <1>0, <2>2 DEF IsLast
  <2> QED BY <2>1, <2>2
<1>7. ASSUME NEW i \in DOMAIN put
      PROVE  \E p : IsLast(entries, n, p) /\ entries[p] = put[i]
  <2>1. CASE put[i] = entry
    BY <1>5, <2>1
  <2>2. CASE put[i] # entry
    <3>1. i \in DOMAIN env /\ put[i] = env[i] /\ Key(env[i]) # Key(entry)
      BY <1>3, <2>2
    <3>2. PICK p : IsLast(entries, n - 1, p) /\ entries[p] = env[i]
      BY <1>1, <3>1
    <3>3. p # n
      BY <3>1, <3>2
    <3> QED BY <1>6, <3>1, <3>2, <3>3
  <2> QED BY <2>1, <2>2
<1>8. ASSUME NEW p, IsLast(entries, n, p)
      PROVE  \E i \in DOMAIN put : put[i] = entries[p]
  <2>1. CASE p = n
    BY <1>3, <2>1
  <2>2. CASE p # n
    <3>1. IsLast(entries, n - 1, p) /\ Key(entries[p]) # Key(entry)
      BY <1>6, <1>8, <2>2
    <3>2. PICK i \in DOMAIN env : env[i] = entries[p]
      BY <1>1, <3>1
    <3> QED BY <1>3, <3>1, <3>2
  <2> QED BY <2>1, <2>2
<1> QED BY <1>3, <1>4, <1>7, <1>8 DEF HoldsLast, W, put

\* A loop step that leaves a malformed entry out.
LEMMA SkipHoldsLast ==
  ASSUME NEW entries, NEW n \in Nat \ {0}, NEW env,
         HoldsLast(env, entries, n - 1), ~Wellformed(entries[n])
  PROVE  HoldsLast(env, entries, n)
<1>1. \A p : IsLast(entries, n, p) <=> IsLast(entries, n - 1, p)
  <2>1. \A p : p \in 1..n <=> p \in 1..(n - 1) \/ p = n
    OBVIOUS
  <2> QED BY <2>1 DEF IsLast
<1> QED BY <1>1 DEF HoldsLast

\* The loop: what is merged are the last entries.
LEMMA MergedHoldsLast ==
  ASSUME NEW entries \in Seq(Entries)
  PROVE  HoldsLast(Merged(entries), entries, Len(entries))
<1> DEFINE n == Len(entries)
           A == Seq(Entries)
           next(i, env) == IF Wellformed(entries[i]) THEN Put(env, entries[i]) ELSE env
           step == [i \in 1..n |-> [env \in A |-> next(i, env)]]
           Solves(f) == f = [i \in 0..n |->
                               IF i = 0 THEN <<>>
                               ELSE IF Wellformed(entries[i]) THEN Put(f[i - 1], entries[i]) ELSE f[i - 1]]
<1>1. n \in Nat /\ <<>> \in A
  OBVIOUS
<1>2. ASSUME NEW i \in 1..n, NEW env \in A PROVE next(i, env) \in A
  <2>1. entries[i] \in Entries
    BY ElementOfSeq
  <2> QED BY <2>1, PutIsSequence
<1>3. IsRecursion(n, A, <<>>, step)
  BY <1>1, <1>2 DEF IsRecursion
<1>4. PICK f : Follows(f, n, A, <<>>, step)
  <2> HIDE DEF n, A, step
  <2> QED BY <1>3, Recursion
<1>5. Solves(f)
  <2>1. f \in [0..n -> A] /\ f[0] = <<>> /\ \A i \in 1..n : f[i] = step[i][f[i - 1]]
    <3> HIDE DEF n, A, step
    <3> QED BY <1>4 DEF Follows
  <2>2. \A i \in 1..n, env \in A : step[i][env] = next(i, env)
    OBVIOUS
  <2> HIDE DEF step, A
  <2>3. \A i \in 1..n : f[i - 1] \in A /\ f[i] = next(i, f[i - 1])
    <3>1. \A i \in 1..n : i - 1 \in 0..n
      BY <1>1
    <3> QED BY <2>1, <2>2, <3>1
  <2>4. \A i \in 0..n : i = 0 \/ i \in 1..n
    BY <1>1
  <2> HIDE DEF n
  <2> QED BY <2>1, <2>3, <2>4
<1>6. MergedTo(entries) = CHOOSE g : Solves(g)
  BY DEF MergedTo
<1>7. Solves(MergedTo(entries))
  <2> HIDE DEF Solves
  <2> QED BY <1>5, <1>6
<1> DEFINE F == MergedTo(entries)
<1>8. F = [i \in 0..n |->
              IF i = 0 THEN <<>>
              ELSE IF Wellformed(entries[i]) THEN Put(F[i - 1], entries[i]) ELSE F[i - 1]]
  BY <1>7
<1> HIDE DEF F, A
<1>9. F[0] = <<>> /\ \A i \in 1..n : F[i] = next(i, F[i - 1])
  <2>1. F[0] = <<>>
    BY <1>1, <1>8
  <2>2. ASSUME NEW i \in 1..n PROVE F[i] = next(i, F[i - 1])
    <3>1. i \in 0..n /\ i # 0
      BY <1>1
    <3> HIDE DEF n
    <3> QED BY <1>8, <3>1
  <2> QED BY <2>1, <2>2
<1> DEFINE S == {i \in 0..n : HoldsLast(F[i], entries, i)}
<1>10. 0 \in S
  <2>1. HoldsLast(<<>>, entries, 0)
    BY DEF HoldsLast, IsLast
  <2> QED BY <1>1, <1>9, <2>1
<1>11. ASSUME NEW i \in 1..n, i - 1 \in S PROVE i \in S
  <2>1. HoldsLast(F[i - 1], entries, i - 1) /\ i \in Nat \ {0} /\ i \in 0..n
    BY <1>1, <1>11
  <2>2. HoldsLast(F[i], entries, i)
    BY <1>9, <2>1, PutHoldsLast, SkipHoldsLast
  <2> QED BY <2>1, <2>2
<1>12. n \in S
  <2> HIDE DEF S
  <2>1. 0..n \subseteq S
    BY <1>1, <1>10, <1>11, InductionUpTo
  <2> QED BY <1>1, <2>1
<1>13. Merged(entries) = F[n]
  BY DEF Merged, MergedTo, F
<1> QED BY <1>12, <1>13

\* What a child finds is the last entry of the name, if there is one.
LEMMA LookupIsLast ==
  ASSUME NEW E, NEW env \in Seq(E), NEW k
  PROVE  \/ /\ Lookup(env, k) = <<>>
            /\ \A i \in 1..Len(env) : ~(Wellformed(env[i]) /\ Key(env[i]) = k)
         \/ \E p : /\ IsLast(env, Len(env), p) /\ Key(env[p]) = k
                   /\ Lookup(env, k) = <<env[p][2]>>
<1> DEFINE n == Len(env)
           at == {i \in DOMAIN env : Wellformed(env[i]) /\ Key(env[i]) = k}
<1>1. n \in Nat /\ DOMAIN env = 1..n
  OBVIOUS
<1>2. CASE at = {}
  BY <1>1, <1>2 DEF Lookup
<1>3. CASE at # {}
  <2> DEFINE T == {n - i : i \in at}
  <2>1. T \subseteq Nat /\ T # {}
    BY <1>1, <1>3
  <2>2. PICK t \in T : \A u \in T : t <= u
    <3> HIDE DEF T
    <3> QED BY <2>1, LeastNumber
  <2>3. PICK i \in at : t = n - i
    BY <2>2
  <2>4. \A j \in at : j <= i
    <3> TAKE j \in at
    <3>1. n - i <= n - j /\ i \in Nat /\ j \in Nat
      BY <1>1, <2>2, <2>3
    <3> QED BY <1>1, <3>1
  <2> DEFINE p == CHOOSE q \in at : \A j \in at : j <= q
  <2>5. p \in at /\ \A j \in at : j <= p
    <3> HIDE DEF at
    <3> QED BY <2>3, <2>4
  <2>6. Lookup(env, k) = <<env[p][2]>>
    BY <1>3 DEF Lookup
  <2> HIDE DEF p
  <2>7. IsLast(env, n, p) /\ Key(env[p]) = k
    BY <1>1, <2>5 DEF IsLast
  <2> QED BY <2>6, <2>7
<1> QED BY <1>2, <1>3

\* What a child finds in a merged environment.
LEMMA LookupInMerged ==
  ASSUME NEW entries \in Seq(Entries), NEW n, NEW env, HoldsLast(env, entries, n), NEW k
  PROVE  /\ \A p : IsLast(entries, n, p) /\ Key(entries[p]) = k => Lookup(env, k) = <<entries[p][2]>>
         /\ (\A p \in 1..n : ~(Wellformed(entries[p]) /\ Key(entries[p]) = k)) => Lookup(env, k) = <<>>
<1> DEFINE W == {e \in Entries : Wellformed(e)}
           m == Len(env)
<1>1. /\ env \in Seq(W)
      /\ \A i, j \in DOMAIN env : Key(env[i]) = Key(env[j]) => i = j
      /\ \A i \in DOMAIN env : \E p : IsLast(entries, n, p) /\ entries[p] = env[i]
      /\ \A p : IsLast(entries, n, p) => \E i \in DOMAIN env : env[i] = entries[p]
  BY DEF HoldsLast
<1> HIDE DEF W
<1>2. DOMAIN env = 1..m
  BY <1>1
<1>3. \/ /\ Lookup(env, k) = <<>>
         /\ \A i \in 1..m : ~(Wellformed(env[i]) /\ Key(env[i]) = k)
      \/ \E i : IsLast(env, m, i) /\ Key(env[i]) = k /\ Lookup(env, k) = <<env[i][2]>>
  BY <1>1, LookupIsLast
<1> HIDE DEF m
<1>4. ASSUME NEW p, IsLast(entries, n, p), Key(entries[p]) = k
      PROVE  Lookup(env, k) = <<entries[p][2]>>
  <2>1. PICK i \in 1..m : env[i] = entries[p]
    BY <1>1, <1>2, <1>4
  <2>2. Wellformed(env[i]) /\ Key(env[i]) = k
    BY <1>4, <2>1 DEF IsLast
  <2>3. PICK j : IsLast(env, m, j) /\ Key(env[j]) = k /\ Lookup(env, k) = <<env[j][2]>>
    BY <1>3, <2>2
  <2>4. j = i
    BY <1>1, <1>2, <2>2, <2>3 DEF IsLast
  <2> QED BY <2>1, <2>3, <2>4
<1>5. ASSUME \A p \in 1..n : ~(Wellformed(entries[p]) /\ Key(entries[p]) = k)
      PROVE  Lookup(env, k) = <<>>
  <2>1. ASSUME NEW i, IsLast(env, m, i), Key(env[i]) = k PROVE FALSE
    <3>1. PICK p : IsLast(entries, n, p) /\ entries[p] = env[i]
      BY <1>1, <1>2, <2>1 DEF IsLast
    <3> QED BY <1>5, <2>1, <3>1 DEF IsLast
  <2> QED BY <1>3, <2>1
<1> QED BY <1>4, <1>5

\* Whatever the environment of the plugin and the overrides of a request are,
\* the command finds the overrides and otherwise what the plugin would.
LEMMA MergeIsRight ==
  ASSUME NEW base \in Seq(Entries), NEW overrides \in Seq(Entries),
         \A i \in DOMAIN overrides : Wellformed(overrides[i])
  PROVE  MergedRight(base, overrides)
<1> DEFINE b == Len(base)
           o == Len(overrides)
           all == base \o overrides
           env == MergeEnv(base, overrides)
<1>1. b \in Nat /\ o \in Nat /\ DOMAIN overrides = 1..o
  OBVIOUS
<1>2. CASE overrides = <<>>
  <2>1. env = base
    BY <1>2 DEF MergeEnv
  <2>2. \A k : Lookup(overrides, k) = <<>>
    BY <1>2 DEF Lookup
  <2> QED BY <1>2, <2>1, <2>2 DEF MergedRight
<1>3. CASE overrides # <<>>
  <2>1. /\ all \in Seq(Entries) /\ Len(all) = b + o
        /\ \A i \in 1..b : all[i] = base[i]
        /\ \A i \in 1..o : all[b + i] = overrides[i]
    BY ConcatProperties
  <2> HIDE DEF all, b, o
  <2>2. env = Merged(all)
    BY <1>3 DEF MergeEnv, all
  <2>3. HoldsLast(env, all, b + o)
    BY <2>1, <2>2, MergedHoldsLast
  <2> HIDE DEF env
  <2>4. \A i \in Int : i \in 1..(b + o) <=> i \in 1..b \/ i - b \in 1..o
    BY <1>1
  <2>5. ASSUME NEW i \in 1..(b + o), ~(i \in 1..b) PROVE all[i] = overrides[i - b] /\ i - b \in 1..o
    <3>1. i - b \in 1..o /\ b + (i - b) = i
      BY <1>1, <2>4, <2>5
    <3> QED BY <2>1, <3>1
  <2>6. ASSUME NEW k
        PROVE  Lookup(env, k) = IF Lookup(overrides, k) # <<>>
                                THEN Lookup(overrides, k) ELSE Lookup(base, k)
    <3>1. \/ /\ Lookup(overrides, k) = <<>>
             /\ \A i \in 1..o : ~(Wellformed(overrides[i]) /\ Key(overrides[i]) = k)
          \/ \E p : /\ IsLast(overrides, o, p) /\ Key(overrides[p]) = k
                    /\ Lookup(overrides, k) = <<overrides[p][2]>>
      BY LookupIsLast DEF o
    <3>2. \/ /\ Lookup(base, k) = <<>>
             /\ \A i \in 1..b : ~(Wellformed(base[i]) /\ Key(base[i]) = k)
          \/ \E p : /\ IsLast(base, b, p) /\ Key(base[p]) = k
                    /\ Lookup(base, k) = <<base[p][2]>>
      BY LookupIsLast DEF b
    <3>3. ASSUME NEW p, IsLast(overrides, o, p), Key(overrides[p]) = k,
                 Lookup(overrides, k) = <<overrides[p][2]>>
          PROVE  Lookup(env, k) = Lookup(overrides, k) /\ Lookup(overrides, k) # <<>>
      <4>1. b + p \in 1..(b + o) /\ all[b + p] = overrides[p]
        BY <1>1, <2>1, <3>3 DEF IsLast
      <4>2. IsLast(all, b + o, b + p)
        <5>1. ASSUME NEW q \in 1..(b + o), Wellformed(all[q]), Key(all[q]) = Key(all[b + p])
              PROVE  q <= b + p
          <6>1. CASE q \in 1..b
            BY <1>1, <3>3, <6>1 DEF IsLast
          <6>2. CASE ~(q \in 1..b)
            <7>1. all[q] = overrides[q - b] /\ q - b \in 1..o
              BY <2>5, <6>2
            <7>2. q - b <= p
              BY <3>3, <4>1, <5>1, <7>1 DEF IsLast
            <7> QED BY <1>1, <3>3, <7>2 DEF IsLast
          <6> QED BY <6>1, <6>2
        <5> QED BY <3>3, <4>1, <5>1 DEF IsLast
      <4>3. Lookup(env, k) = <<all[b + p][2]>>
        BY <2>1, <2>3, <3>3, <4>1, <4>2, LookupInMerged
      <4> QED BY <3>3, <4>1, <4>3
    <3>4. ASSUME NEW p, IsLast(base, b, p), Key(base[p]) = k, Lookup(base, k) = <<base[p][2]>>,
                 \A i \in 1..o : ~(Wellformed(overrides[i]) /\ Key(overrides[i]) = k)
          PROVE  Lookup(env, k) = Lookup(base, k)
      <4>1. p \in 1..(b + o) /\ all[p] = base[p]
        BY <1>1, <2>1, <3>4 DEF IsLast
      <4>2. IsLast(all, b + o, p)
        <5>1. ASSUME NEW q \in 1..(b + o), Wellformed(all[q]), Key(all[q]) = Key(all[p])
              PROVE  q <= p
          <6>1. q \in 1..b
            BY <2>5, <3>4, <4>1, <5>1
          <6> QED BY <2>1, <3>4, <4>1, <5>1, <6>1 DEF IsLast
        <5> QED BY <3>4, <4>1, <5>1 DEF IsLast
      <4> QED BY <2>1, <2>3, <3>4, <4>1, <4>2, LookupInMerged
    <3>5. ASSUME \A i \in 1..b : ~(Wellformed(base[i]) /\ Key(base[i]) = k),
                 \A i \in 1..o : ~(Wellformed(overrides[i]) /\ Key(overrides[i]) = k)
          PROVE  Lookup(env, k) = <<>>
      <4>1. \A p \in 1..(b + o) : ~(Wellformed(all[p]) /\ Key(all[p]) = k)
        BY <2>1, <2>5, <3>5
      <4> QED BY <2>1, <2>3, <4>1, LookupInMerged
    <3> QED BY <3>1, <3>2, <3>3, <3>4, <3>5
  <2> QED BY <2>3, <2>6 DEF MergedRight, HoldsLast, env
<1> QED BY <1>2, <1>3

\* Every Run starts its command in the right environment.
THEOREM EnvironmentMerges == Spec => []EnvironmentIsMerged
<1>1. EnvironmentIsMerged
  <2> SUFFICES ASSUME NEW base \in Environments, NEW overrides \in Overrides
               PROVE  MergedRight(base, overrides)
    BY DEF EnvironmentIsMerged
  <2>1. /\ base \in Seq(Entries) /\ overrides \in Seq(Entries)
        /\ \A i \in DOMAIN overrides : Wellformed(overrides[i])
    BY EnvironmentAssumption DEF EnvironmentAssumption
  <2> QED BY <2>1, MergeIsRight
<1> QED BY <1>1, PTL
=============================================================================
