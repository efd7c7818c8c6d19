------------------------------ MODULE MCAlerts ------------------------------
(* Small instances of Alerts: a project with one rule at a time, of each of *)
(* the four sources; one fingerprint for check and PromQL rules, two for    *)
(* log and Kubernetes events rules.                                         *)
EXTENDS Alerts, TLC

CONSTANTS check, promql, log, k8s,                       \* rules
          checkFp, promqlFp, log1, log2, k8s1, k8s2,     \* fingerprints
          app

MCRules == {check, promql, log, k8s}
MCFingerprints == {checkFp, promqlFp, log1, log2, k8s1, k8s2}

MCRuleType == check :> "check" @@ promql :> "promql" @@ log :> "log" @@ k8s :> "k8s"
MCRuleOf == checkFp :> check @@ promqlFp :> promql
            @@ log1 :> log @@ log2 :> log @@ k8s1 :> k8s @@ k8s2 :> k8s

\* An alert of a PromQL rule has no application.
MCAppOf == [fp \in MCFingerprints |-> IF fp = promqlFp THEN NoApp ELSE app]

MCSelected == [r \in MCRules |-> {app, NoApp}]

\* The two log patterns are weakly equal.
MCSimilar == [fp \in MCFingerprints |->
                CASE fp = log1 -> {log2} [] fp = log2 -> {log1} [] OTHER -> {}]

\* Only check and PromQL rules look at For.
MCFor  == check :> 2 @@ promql :> 2 @@ log :> 0 @@ k8s :> 0
MCKeep == check :> 1 @@ promql :> 1 @@ log :> 0 @@ k8s :> 1

CappedRules == {{log}, {k8s}}
OnlyPromQL  == {{promql}}
OnlyEvents  == {{k8s}}
OnlyCheck   == {{check}}
TimedRules  == {{check}, {promql}}
AnyRule     == TimedRules \cup CappedRules

\* Above PendingTTL where there is a For, else at least KeepFiringFor; and two
\* requests where the state space allows.
MCMaxAge == check :> 3 @@ promql :> 3 @@ log :> 1 @@ k8s :> 1
LongMaxAge == [r \in MCRules |-> 4]
MCMaxRequests == check :> 2 @@ promql :> 1 @@ log :> 1 @@ k8s :> 1
OneRequest == [r \in MCRules |-> 1]
NoRequests == [r \in MCRules |-> 0]

\* The two patterns, and the two reasons, are interchangeable.
Symmetry == {p @@ q : p \in Permutations({log1, log2}), q \in Permutations({k8s1, k8s2})}
=============================================================================
