-------------------------- MODULE MCManagerMetrics --------------------------
(* Values for the constants of ManagerMetrics that a cfg cannot write.     *)
EXTENDS MCWorkflowManager, ManagerMetrics

\* What each metric of AllRules is of.
RuleSeries ==
    [k \in Metrics |->
        CASE k = "mean.first" -> "custom"
          [] k = "count.last" -> "success"
          [] OTHER -> "duration"]
=============================================================================
