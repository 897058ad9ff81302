----------------------------- MODULE HealthProbe -----------------------------
(***************************************************************************)
(* health.rs: healthcheck_with_contributors asks every contributor at once, *)
(* each under HEALTH_CHECK_TIMEOUT, waits for all, and folds what they say  *)
(* into one status.                                                         *)
(***************************************************************************)
EXTENDS Options, Naturals

CONSTANT ContributorCount   \* the contributors, in order, are 1..ContributorCount

ASSUME ContributorsAssumption == ContributorCount \in Nat

Contributors == 1..ContributorCount

VARIABLES
    probe,      \* "idle" or "asking"
    check,      \* what each contributor has answered, "pending" before
    folded,     \* how many of the answers are folded
    overall,    \* the status they fold to
    health      \* the response to the last probe, None while there is none

probeVars == <<probe, check, folded, overall, health>>

Statuses == {"Healthy", "Degraded", "Error"}

ProbeInit ==
    /\ probe = "idle" /\ health = None
    /\ check = [c \in Contributors |-> "pending"]
    /\ folded = 0 /\ overall = "Healthy"

Probe ==
    /\ probe = "idle"
    /\ probe' = "asking" /\ health' = None
    /\ check' = [c \in Contributors |-> "pending"]
    /\ folded' = 0 /\ overall' = "Healthy"

Contribute(c) ==
    /\ probe = "asking" /\ check[c] = "pending"
    /\ check' \in {[check EXCEPT ![c] = status] : status \in Statuses}
    /\ UNCHANGED <<probe, folded, overall, health>>

(* HEALTH_CHECK_TIMEOUT: a later answer is never heard.                     *)
CheckTimesOut(c) ==
    /\ probe = "asking" /\ check[c] = "pending"
    /\ check' = [check EXCEPT ![c] = "Error"]
    /\ UNCHANGED <<probe, folded, overall, health>>

(* Mutant: the last status that is not Healthy is the overall one.          *)
WorseByOrder(status) == IF status = "Healthy" THEN overall ELSE status

Worse(status) ==
    CASE status = "Error" -> "Error"
      [] status = "Degraded" /\ overall # "Error" -> "Degraded"
      [] OTHER -> overall

Joined == probe = "asking" /\ \A c \in Contributors : check[c] # "pending"

FoldNext ==
    /\ Joined /\ folded < ContributorCount
    /\ overall' = Worse(check[folded + 1]) /\ folded' = folded + 1
    /\ UNCHANGED <<probe, check, health>>

AnswerProbe ==
    /\ Joined /\ folded = ContributorCount
    /\ probe' = "idle"
    /\ health' = [components |-> check, status |-> overall,
                  http |-> IF overall = "Error" THEN 503 ELSE 200]
    /\ UNCHANGED <<check, folded, overall>>

Answering == FoldNext \/ AnswerProbe

ProbeNext ==
    \/ Probe \/ Answering
    \/ \E c \in Contributors : Contribute(c) \/ CheckTimesOut(c)

ProbeSpec == ProbeInit /\ [][ProbeNext]_probeVars

-----------------------------------------------------------------------------
(* Properties.                                                              *)

(* Worst status of all contributors, whatever the order, and 503 exactly if *)
(* one is in error or did not answer (healthcheck_with_contributors).       *)
HealthIsWorst ==
    health # None =>
        LET Given(status) == \E c \in Contributors : health.components[c] = status
        IN  /\ health.status = IF Given("Error") THEN "Error"
                               ELSE IF Given("Degraded") THEN "Degraded" ELSE "Healthy"
            /\ health.http = IF Given("Error") THEN 503 ELSE 200
=============================================================================
