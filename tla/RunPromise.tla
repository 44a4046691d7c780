----------------------------- MODULE RunPromise -----------------------------
(***************************************************************************)
(* What a connection promises about the queries it accepts, without saying *)
(* how it keeps links alive: the server executes an accepted query at most *)
(* once, and what is reported as the end of a run is what happened to it,  *)
(* then and later.  The comments of linkLostMidQuery() and outcomeUnknown()*)
(* (pgconnection.cpp, dbconnection.h) state it in words.                   *)
(***************************************************************************)
EXTENDS Naturals

CONSTANT Run

VARIABLES
    accepted,    \* the runs executeAsync() has accepted
    executed,    \* how many times the server has executed each
    verdict      \* what was reported as the end of each

vars == <<accepted, executed, verdict>>

Init ==
    /\ accepted = {}
    /\ executed = [r \in Run |-> 0]
    /\ verdict = [r \in Run |-> "none"]

Accept(r) ==
    /\ r \notin accepted
    /\ accepted' = accepted \cup {r}
    /\ UNCHANGED <<executed, verdict>>

(* The effect happens once, and never behind a report that rules it out;    *)
(* after "unknown", and after the user closed the link, it still may.       *)
Execute(r) ==
    /\ r \in accepted /\ executed[r] = 0
    /\ verdict[r] \in {"none", "unknown", "closed"}
    /\ executed' = [executed EXCEPT ![r] = 1]
    /\ UNCHANGED <<accepted, verdict>>

Report(r, v) ==
    /\ r \in accepted /\ verdict[r] = "none"
    /\ v = "answered" => executed[r] = 1
    /\ v = "notsent" => executed[r] = 0
    /\ verdict' = [verdict EXCEPT ![r] = v]
    /\ UNCHANGED <<accepted, executed>>

Next ==
    \E r \in Run :
       \/ Accept(r) \/ Execute(r)
       \/ \E v \in {"answered", "notsent", "unknown", "closed"} : Report(r, v)

Spec == Init /\ [][Next]_vars

=============================================================================
