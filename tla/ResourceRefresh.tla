--------------------------- MODULE ResourceRefresh ---------------------------
(* The resource table of one session (ResourceCache): the periodic task and    *)
(* manual refreshes fetch at the same time, and their answers are applied in   *)
(* any order, or fail, or say that the gateway ended the session.              *)
EXTENDS Naturals

CONSTANTS Manuals,        \* callers of refresh_resources
          MaxVersion,     \* bound: changes of the table at the gateway
          MaxGeneration,  \* the largest generation; the counter saturates there
          MaxFailures,    \* bound: transient failures
          Revoked,        \* the gateway no longer knows the session
          Failed          \* no answer, or any other error

Periodic   == "periodic"
Refreshers == Manuals \cup {Periodic}

VARIABLES server,        \* what the gateway would answer
          table,         \* the resources of the current snapshot
          generation,
          failures,      \* consecutive_failures
          failuresLeft,
          invalidated,
          sessionStop,
          refresh        \* refresher -> [pc, got]

refreshVars == <<server, table, generation, failures, failuresLeft, invalidated,
                 sessionStop, refresh>>

Versions == 0..MaxVersion

RefreshTypeOK ==
    /\ server \in Versions \cup {Revoked} /\ table \in Versions
    /\ generation \in 1..MaxGeneration
    /\ failures \in 0..MaxFailures /\ failuresLeft \in 0..MaxFailures
    /\ invalidated \in BOOLEAN /\ sessionStop \in BOOLEAN
    /\ refresh \in [Refreshers -> [pc  : {"load", "idle", "fetch", "apply", "ended"},
                                   got : Versions \cup {Revoked, Failed}]]

RefreshInit ==
    /\ server = 0 /\ table = 0 /\ generation = 1
    /\ failures = 0 /\ failuresLeft = MaxFailures
    /\ invalidated = FALSE /\ sessionStop = FALSE
    /\ refresh = [x \in Refreshers |-> [pc |-> IF x = Periodic THEN "load" ELSE "idle",
                                        got |-> Failed]]

At(x, pc, got) == refresh' = [refresh EXCEPT ![x] = [pc |-> pc, got |-> got]]

(* ResourceCache::load: the first generation is fetched before anything runs. *)
Load ==
    /\ refresh[Periodic].pc = "load" /\ server \in Versions
    /\ table' = server
    /\ At(Periodic, "idle", Failed)
    /\ UNCHANGED <<server, generation, failures, failuresLeft, invalidated, sessionStop>>

(* The gateway's table changes, or the gateway ends the session. *)
ServerChanges ==
    /\ server \in Versions
    /\ \/ server < MaxVersion /\ server' = server + 1
       \/ server' = Revoked
    /\ UNCHANGED <<table, generation, failures, failuresLeft, invalidated, sessionStop, refresh>>

(* ClientSession::run lets a manual refresh in. *)
Admitted == refresh[Periodic].pc # "load" /\ ~sessionStop /\ ~invalidated

ManualBegin(x) ==
    /\ x \in Manuals /\ refresh[x].pc = "idle" /\ Admitted
    /\ At(x, "fetch", Failed)
    /\ UNCHANGED <<server, table, generation, failures, failuresLeft, invalidated, sessionStop>>

(* the periodic task's timer *)
PeriodicBegin ==
    /\ refresh[Periodic].pc = "idle"
    /\ At(Periodic, "fetch", Failed)
    /\ UNCHANGED <<server, table, generation, failures, failuresLeft, invalidated, sessionStop>>

(* The gateway answers with its state at this moment, or the request fails. *)
GatewayAnswers(x) ==
    /\ refresh[x].pc = "fetch"
    /\ \/ At(x, "apply", server) /\ UNCHANGED failuresLeft
       \/ /\ failuresLeft > 0 /\ failuresLeft' = failuresLeft - 1
          /\ At(x, "apply", Failed)
    /\ UNCHANGED <<server, table, generation, failures, invalidated, sessionStop>>

AfterAnyError(x) == IF x = Periodic /\ refresh[x].got \in {Revoked, Failed} THEN "ended" ELSE "idle"
(* Only an invalid session ends the periodic task. *)
After(x) == IF x = Periodic /\ refresh[x].got = Revoked THEN "ended" ELSE "idle"

Saturated == IF generation < MaxGeneration THEN generation + 1 ELSE generation

(* refresh: the new generation is published under the write lock *)
Publish(x) ==
    /\ refresh[x].pc = "apply" /\ refresh[x].got \in Versions
    /\ table' = refresh[x].got
    /\ generation' = Saturated
    /\ failures' = 0
    /\ At(x, After(x), Failed)
    /\ UNCHANGED <<server, failuresLeft, invalidated, sessionStop>>

(* report_failure: an invalid session is escalated and not counted *)
ReportFailure(x) ==
    /\ refresh[x].pc = "apply" /\ refresh[x].got \notin Versions
    /\ invalidated' = (invalidated \/ refresh[x].got = Revoked)
    /\ failures' = IF refresh[x].got = Failed THEN failures + 1 ELSE failures
    /\ At(x, After(x), Failed)
    /\ UNCHANGED <<server, table, generation, failuresLeft, sessionStop>>

(* The session is shut down or replaced. *)
SessionStops ==
    /\ refresh[Periodic].pc # "load" /\ ~sessionStop /\ sessionStop' = TRUE
    /\ UNCHANGED <<server, table, generation, failures, failuresLeft, invalidated, refresh>>

(* run's select, or the periodic task's: the refresh is dropped at its await *)
RefreshStops(x) ==
    /\ sessionStop
    /\ refresh[x].pc # "ended" /\ (x = Periodic \/ refresh[x].pc # "idle")
    /\ At(x, IF x = Periodic THEN "ended" ELSE "idle", Failed)
    /\ UNCHANGED <<server, table, generation, failures, failuresLeft, invalidated, sessionStop>>

RefreshNext ==
    \/ Load \/ ServerChanges \/ PeriodicBegin \/ SessionStops
    \/ \E x \in Refreshers : \/ ManualBegin(x) \/ GatewayAnswers(x) \/ Publish(x)
                             \/ ReportFailure(x) \/ RefreshStops(x)

RefreshSpec == RefreshInit /\ [][RefreshNext]_refreshVars

(* Timers fire, requests end (the transport has a timeout), answers are used. *)
RefreshFairness ==
    /\ WF_refreshVars(PeriodicBegin)
    /\ \A x \in Refreshers : /\ WF_refreshVars(GatewayAnswers(x))
                             /\ WF_refreshVars(Publish(x) \/ ReportFailure(x))
                             /\ WF_refreshVars(RefreshStops(x))

----------------------------------------------------------------------------
(* Refreshes may overtake each other, so the table may go back to an older   *)
(* answer under a higher generation. Once the gateway's table stops changing,*)
(* though, the client ends with that table, or knows that its session is     *)
(* over: no lost answer or transient failure stops the periodic task.        *)
TableConverges ==
    <>[](refresh[Periodic].pc = "load" \/ sessionStop \/ invalidated \/ table = server)
=============================================================================
