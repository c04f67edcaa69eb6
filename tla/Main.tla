-------------------------------- MODULE Main --------------------------------
(***************************************************************************)
(* The program of cmd/agent/main.go from its arguments to its exit status: *)
(* run chooses between the agent's plugin (AgentProcess) and the test mode *)
(* of runCollection and collectAndWrite, which collects once, under the    *)
(* signals and a deadline, and writes the payload to stdout.  The commands *)
(* of the test's collection are calls of RunContract.                      *)
(***************************************************************************)
EXTENDS AgentProcess, Sequences

VARIABLES mode,      \* "start", "agent" or "test"
          verdict,   \* the error that the mode returns: "none", "ok" or "failed"
          status,    \* the process's end: "none", a verdict, "terminated" or "killed"
          test,      \* runCollection: "idle", "collect", "write", "returned", "stopped"
          expired,   \* collectionTimeout has passed since collectAndWrite began
          call,      \* the test's current or last call of Run
          written    \* what is in stdout of the payload: "none", "part", "whole"

testVars == <<test, expired, call, written>>
mainVars == <<allVars, mode, verdict, status, testVars>>

TestArg == "--test"

\* Bug: the collection is made under context.Background().
TestDoneNever == FALSE

\* The context of the test's collection is done.
TestDone == signaled \/ expired

TestRun == INSTANCE RunContract WITH done <- TestDone

MainInit == /\ AgentInit
            /\ mode = "start" /\ verdict = "none" /\ status = "none"
            /\ test = "idle" /\ expired = FALSE
            /\ call = TestRun!Ready /\ written = "none"

Running == status = "none"

\* The mode has returned to main, its deferred calls made: the signals that it
\* has asked for are no longer caught.
Returned == main = "exited" \/ test = "stopped"

-----------------------------------------------------------------------------
(***************************************************************************)
(* run, the exit status, and the signals that nobody has asked for.        *)
(***************************************************************************)
\* os.Args[1:]: with and without the test's argument, and one too many.
Arguments == UNION {[1 .. n -> {TestArg, "other"}] : n \in 0 .. 2}

WantsTest(args) == args # <<>> /\ Head(args) = TestArg

BadArguments == /\ Running /\ mode = "start"
                /\ \E args \in Arguments : WantsTest(args) /\ Len(args) # 1
                /\ status' = "failed"
                /\ UNCHANGED <<allVars, mode, verdict, testVars>>

ChooseMode(args) ==
  /\ Running /\ mode = "start" /\ (WantsTest(args) => Len(args) = 1)
  /\ mode' = IF WantsTest(args) THEN "test" ELSE "agent"
  /\ test' = IF WantsTest(args) THEN "collect" ELSE test
  /\ UNCHANGED <<allVars, verdict, status, expired, call, written>>

\* main exits with what its mode has returned.
MainExits == /\ Running /\ Returned
             /\ status' = verdict
             /\ UNCHANGED <<allVars, mode, verdict, testVars>>

\* SIGINT or SIGTERM before signal.NotifyContext and after its stop.
Terminated == /\ Running /\ (mode = "start" \/ Returned)
              /\ status' = "terminated"
              /\ UNCHANGED <<allVars, mode, verdict, testVars>>

\* Any other signal ends the program wherever it is, and none of its commands.
Killed == /\ Running /\ mode # "agent"
          /\ status' = "killed"
          /\ UNCHANGED <<allVars, mode, verdict, testVars>>

-----------------------------------------------------------------------------
(***************************************************************************)
(* Agent mode.  A signal makes executeAgentHandler return nil; otherwise   *)
(* it returns what the handler returned.                                   *)
(***************************************************************************)
InAgent(A) == Running /\ mode = "agent" /\ A /\ UNCHANGED <<mode, testVars>>

AgentReturns ==
  /\ \/ SetupFails /\ verdict' = "failed"
     \/ SelectSignal /\ verdict' = "ok"
     \/ SelectResult /\ verdict' \in {"ok", "failed"}
     \/ Exit /\ UNCHANGED verdict
  /\ UNCHANGED status

AgentGoesOn == /\ \/ HandlerCalls \/ HandlerTerminates \/ HandlerReturns
                  \/ Serve \/ Signal \/ ShutdownReturns \/ While(Step)
               /\ UNCHANGED <<verdict, status>>

-----------------------------------------------------------------------------
(***************************************************************************)
(* Test mode                                                               *)
(***************************************************************************)
InTest == Running /\ mode = "test"

\* A first signal, until the deferred stop.
TestSignal == /\ InTest /\ test # "stopped" /\ Signal
              /\ UNCHANGED <<mode, verdict, status, testVars>>

TestExpires == /\ InTest /\ test = "collect" /\ ~expired
               /\ expired' = TRUE
               /\ UNCHANGED <<allVars, mode, verdict, status, test, call, written>>

\* A step of the collection: the next command, or its end.
TestCollects(goes, ends) ==
  /\ InTest /\ test = "collect"
  /\ call' \in goes \cup ends
  /\ test' = IF call' \in ends THEN "returned" ELSE test
  /\ verdict' = IF call' \in ends THEN "failed" ELSE verdict
  /\ UNCHANGED <<allVars, mode, status, expired, written>>

TestBeginRun == TestCollects(TestRun!Begun(call, TestDone),
                             TestRun!NotBegun(call, TestDone))

TestCommandEnds == TestCollects(TestRun!Ended(call), {})

\* The command that has returned is followed by another one, ...
TestRunReturns ==
  LET results == TestRun!Returned(call, TestDone)
  IN  TestCollects({c \in results : c.outcome = "ok"},
                   {c \in results : c.outcome # "ok"})

TestNextCommand == /\ call.phase = "returned"
                   /\ TestCollects({TestRun!Ready}, {})

\* ... by an error that no command has made, or by the payload.
TestCollectionEnds ==
  /\ InTest /\ test = "collect" /\ call.phase \in {"ready", "returned"}
  /\ \/ test' = "returned" /\ verdict' = "failed"
     \/ call.phase = "returned" /\ test' = "write" /\ UNCHANGED verdict
  /\ UNCHANGED <<allVars, mode, status, expired, call, written>>

\* encoder.Encode writes the payload, which takes as long as the reader of
\* stdout takes: no context is looked at any more.
Write(w, place, error) ==
  /\ InTest /\ test = "write"
  /\ written' = w /\ test' = place /\ verdict' = error
  /\ UNCHANGED <<allVars, mode, status, expired, call>>

WritePart == written = "none" /\ Write("part", "write", "none")
WriteWhole == Write("whole", "returned", "ok")

\* Bug: the error of Encode is dropped.
WriteFailsQuietly == Write(written, "returned", "ok")

\* A full disk is an error ...
WriteFails == Write(written, "returned", "failed")

\* ... and a closed pipe on stdout kills a Go program.
WritePipeCloses == /\ InTest /\ test = "write"
                   /\ status' = "terminated"
                   /\ UNCHANGED <<allVars, mode, verdict, testVars>>

\* The deferred cancel and stop; main has still to exit after them.
TestStops == /\ InTest /\ test = "returned"
             /\ test' = "stopped"
             /\ UNCHANGED <<allVars, mode, verdict, status, expired, call, written>>

-----------------------------------------------------------------------------
Finished == ~Running /\ UNCHANGED mainVars

MainNext == \/ BadArguments \/ MainExits \/ Terminated \/ Killed
            \/ \E args \in Arguments : ChooseMode(args)
            \/ InAgent(AgentReturns) \/ InAgent(AgentGoesOn)
            \/ TestSignal \/ TestExpires
            \/ TestBeginRun \/ TestCommandEnds \/ TestRunReturns
            \/ TestNextCommand \/ TestCollectionEnds
            \/ WritePart \/ WriteWhole \/ WriteFails \/ WritePipeCloses
            \/ TestStops \/ Finished

(***************************************************************************)
(* Fairness: the one of the agent process; main and the test run; a        *)
(* command ends once its context is done, as RunContract!Prompt promises,  *)
(* and owes nothing before; and somebody reads stdout.                     *)
(***************************************************************************)
TestGoes == \/ TestBeginRun \/ TestRunReturns \/ TestNextCommand
            \/ (TestDone /\ TestCommandEnds)
            \/ WritePart \/ WriteWhole \/ TestStops

MainSpec == /\ MainInit /\ [][MainNext]_mainVars
            /\ AgentScheduling
            /\ WF_mainVars(TestGoes)
            /\ WF_mainVars(MainExits)

-----------------------------------------------------------------------------
\* The test's exit status can be believed.  Success means that the whole payload
\* is in stdout and an error that it is not, whatever command or write fails and
\* whenever the deadline or a signal comes; a program that a signal has ended may
\* have written any part of it, all of it if the signal came after the deferred
\* stop.  No dnf or rpm is left behind either, by an exit, a SIGINT or a SIGTERM,
\* or a closed stdout; any other signal may leave one.
TestIsHonest ==
  mode = "test" /\ status # "none" =>
    /\ status = "ok" => written = "whole"
    /\ status = "failed" => written # "whole"
    /\ status # "killed" => call.command # "alive"

\* A signal or the deadline ends the test, at any point of it, provided that
\* somebody reads stdout.
TestEnds == (mode = "test" /\ (signaled \/ expired)) ~> status # "none"

\* In agent mode a signal ends the process, and no deadline is needed for that:
\* shutdown interrupts the collections it waits for (main.go:152-156).
SignalEndsProcess == (signaled /\ main = "select") ~> status # "none"

\* So does the end of the handler, by a request to terminate or by a failed
\* connection: the deferred Stop interrupts what still runs (main.go:132).
HandlerEndsProcess == handler = "done" ~> status # "none"
=============================================================================
