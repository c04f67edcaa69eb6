----------------------------- MODULE ExportGate -----------------------------
(***************************************************************************)
(* What the plugin promises the Zabbix agent about the life of its export  *)
(* requests (cmd/agent/plugin.go), without mutex, channel, wait group or   *)
(* goroutine: a gate that lets requests in until it is told to close, and  *)
(* that is closed only when every request it let in has left.              *)
(***************************************************************************)

CONSTANT Requests     \* the Export calls the agent makes

VARIABLES phase,      \* "open", "draining" or "closed"
          active,     \* the requests that were let in and have not left
          answer      \* what each request was answered: "none" until it is

vars == <<phase, active, answer>>

-----------------------------------------------------------------------------
Init == /\ phase = "open"
        /\ active = {}
        /\ answer = [r \in Requests |-> "none"]

\* An invalid request is turned away whatever the phase.
Reject(r) == /\ answer[r] = "none" /\ r \notin active
             /\ answer' = [answer EXCEPT ![r] = "rejected"]
             /\ UNCHANGED <<phase, active>>

Enter(r) == /\ phase = "open"
            /\ answer[r] = "none" /\ r \notin active
            /\ active' = active \cup {r}
            /\ UNCHANGED <<phase, answer>>

Refuse(r) == /\ phase # "open"
             /\ answer[r] = "none" /\ r \notin active
             /\ answer' = [answer EXCEPT ![r] = "stopping"]
             /\ UNCHANGED <<phase, active>>

Leave(r) == /\ r \in active
            /\ active' = active \ {r}
            /\ \E a \in {"ok", "failed"} : answer' = [answer EXCEPT ![r] = a]
            /\ UNCHANGED phase

Close == /\ phase = "open"
         /\ phase' = "draining"
         /\ UNCHANGED <<active, answer>>

Drained == /\ phase = "draining"
           /\ active = {}
           /\ phase' = "closed"
           /\ UNCHANGED <<active, answer>>

Next == \/ \E r \in Requests : Reject(r) \/ Enter(r) \/ Refuse(r) \/ Leave(r)
        \/ Close \/ Drained

Spec == Init /\ [][Next]_vars
=============================================================================
