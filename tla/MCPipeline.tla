----------------------------- MODULE MCPipeline -----------------------------
(***************************************************************************)
(* The start of a replica and the components of the way from a span to a   *)
(* notification, each with the model of its neighbours it needs, checked   *)
(* one beside the other: a behaviour picks one of them, and the others     *)
(* stay where they begin.  They share no variable, so a behaviour of the   *)
(* sum is one of a component, and each property is checked for the         *)
(* behaviours of its own.                                                  *)
(***************************************************************************)
EXTENDS SchemaMigration, Collector, Traces, WorldEvaluator, WatcherDispatch, Incidents, Deployments, Startup

CONSTANTS r1, r2, m1, m2, d1, s1, s2, q1, t1, c1

VARIABLE part

Parts == {"migration", "collector", "traces", "evaluator", "dispatch", "incidents", "deployments",
          "startup"}

pipelineVars == <<part, migrationVars, collectorVars, tracesVars, evaluatorVars, dispatchVars,
                  incidentVars, deployVars, startupVars>>

\* Two migrators, each of its replica, and one ClickHouse.
MCReplicaOf == (m1 :> r1) @@ (m2 :> r2)
MCTargetOf == c1 :> t1
MCQueryOf == [s \in Series |-> q1]

\* The parts that stay begin in one state, in which nothing of theirs is due.
PipelineInit ==
    /\ part \in Parts
    /\ MigrationInit /\ (part = "migration" \/ release = [r \in Replicas |-> 1])
    /\ CollectorInit /\ config = (IF part = "collector" THEN d1 ELSE None)
    /\ TracesInit /\ (part = "traces" \/ recorders = {})
    /\ EvaluatorInit
    /\ DispatchInit
    /\ IncidentsInit
    /\ DeploymentsInit
    /\ StartupInit

Stay(vs) == UNCHANGED <<part, vs>>

PipelineNext ==
    \/ /\ part = "migration" /\ MigrationNext
       /\ Stay(<<collectorVars, tracesVars, evaluatorVars, dispatchVars, incidentVars, deployVars, startupVars>>)
    \/ /\ part = "collector" /\ CollectorNext
       /\ Stay(<<migrationVars, tracesVars, evaluatorVars, dispatchVars, incidentVars, deployVars, startupVars>>)
    \/ /\ part = "traces" /\ TracesNext
       /\ Stay(<<migrationVars, collectorVars, evaluatorVars, dispatchVars, incidentVars, deployVars, startupVars>>)
    \/ /\ part = "evaluator" /\ EvaluatorNext
       /\ Stay(<<migrationVars, collectorVars, tracesVars, dispatchVars, incidentVars, deployVars, startupVars>>)
    \/ /\ part = "dispatch" /\ DispatchNext
       /\ Stay(<<migrationVars, collectorVars, tracesVars, evaluatorVars, incidentVars, deployVars, startupVars>>)
    \/ /\ part = "incidents" /\ IncidentsNext
       /\ Stay(<<migrationVars, collectorVars, tracesVars, evaluatorVars, dispatchVars, deployVars, startupVars>>)
    \/ /\ part = "deployments" /\ DeploymentsNext
       /\ Stay(<<migrationVars, collectorVars, tracesVars, evaluatorVars, dispatchVars, incidentVars, startupVars>>)
    \/ /\ part = "startup" /\ StartupNext
       /\ Stay(<<migrationVars, collectorVars, tracesVars, evaluatorVars, dispatchVars, incidentVars,
                deployVars>>)

PipelineSpec == PipelineInit /\ [][PipelineNext]_pipelineVars

\* The start of replicas alone.
StartSpec == PipelineInit /\ part = "startup" /\ [][PipelineNext]_pipelineVars

LiveInit == PipelineInit /\ part \in {"collector", "dispatch", "startup"}

\* The parts with promises about what must happen, under their fairness: that of
\* the collector and the start while it is the one that runs; nothing of the
\* dispatch is ever enabled while it stays where it begins.
PipelineLive ==
    /\ LiveInit
    /\ [][PipelineNext]_pipelineVars
    /\ \A u \in Updaters : WF_collectorVars(part = "collector" /\ UpdaterStep(u))
    /\ \A m \in Loops : WF_collectorVars(part = "collector" /\ LoopStep(m))
    /\ DispatchFairness
    /\ \A r \in Replicas : WF_startupVars(part = "startup" /\ StartStep(r))
=============================================================================
