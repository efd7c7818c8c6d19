-------------------------- MODULE MCAlertNotifier --------------------------
(* AlertNotifier on a small instance: one alert, told to Slack or PagerDuty.*)
EXTENDS AlertNotifier, TLC

CONSTANTS slack, pager

MCRoutes == {<<slack>>, <<pager>>}

Symmetry == Permutations(Replicas) \cup Permutations(Severities)
=============================================================================
