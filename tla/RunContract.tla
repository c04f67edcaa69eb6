---------------------------- MODULE RunContract ----------------------------
(***************************************************************************)
(* What Run of internal/command promises its callers, without processes,   *)
(* pipes and goroutines: a record of where the call is, whether a command  *)
(* lives under it, and how it ended.                                       *)
(*                                                                         *)
(*   phase     "ready", "running" or "returned"                            *)
(*   command   "none", "alive" or "dead"                                   *)
(*   outcome   "none", "ok", "context", "limit" or "failed"                *)
(*                                                                         *)
(* Each step is an operator that gives the set of the records it may lead  *)
(* to, so that the callers of Run can be composed from the same steps.     *)
(***************************************************************************)
VARIABLES call,   \* the record of one call
          done    \* its context is done

vars == <<call, done>>

Ready == [phase |-> "ready", command |-> "none", outcome |-> "none"]

ReturnedWith(c, outcomes) ==
  {[c EXCEPT !.phase = "returned", !.outcome = o] : o \in outcomes}

\* A command is started under a context that is not done yet.
Begun(c, isDone) ==
  IF c.phase = "ready" /\ ~isDone
    THEN {[c EXCEPT !.phase = "running", !.command = "alive"]} ELSE {}

\* Or it cannot be.
NotBegun(c, isDone) ==
  IF c.phase # "ready" THEN {}
  ELSE ReturnedWith(c, IF isDone THEN {"context", "failed"} ELSE {"failed"})

\* The command ends by itself, or is killed.
Ended(c) == IF c.command = "alive" THEN {[c EXCEPT !.command = "dead"]} ELSE {}

\* Bug: Run does not wait for the command that it has killed.
ReturnedAtOnce(c, isDone) ==
  IF c.phase # "running" THEN {}
  ELSE ReturnedWith(c, IF isDone THEN {"context"} ELSE {"ok", "limit", "failed"})

\* Bug: a command that was through before the context's end is a success.
ReturnedAnyway(c, isDone) ==
  IF c.phase # "running" \/ c.command # "dead" THEN {}
  ELSE ReturnedWith(c, {"ok", "context", "limit", "failed"})

\* Run returns when its command is gone, and the context has the first word.
Returned(c, isDone) ==
  IF c.phase # "running" \/ c.command # "dead" THEN {}
  ELSE ReturnedWith(c, IF isDone THEN {"context"} ELSE {"ok", "limit", "failed"})

-----------------------------------------------------------------------------
Init == call = Ready /\ done \in BOOLEAN

ContextEnds == ~done /\ done' = TRUE /\ UNCHANGED call

Step == /\ call' \in Begun(call, done) \cup NotBegun(call, done) \cup Ended(call)
                       \cup Returned(call, done)
        /\ UNCHANGED done

Spec == Init /\ [][ContextEnds \/ Step]_vars

\* Run comes back once its context is done, and once its command has ended.
Prompt == (done \/ call.command = "dead") ~> call.phase = "returned"
=============================================================================
