--------------------------- MODULE MCDashboardDrafts ---------------------------
(***************************************************************************)
(* Instances of DashboardDrafts for TLC: two names, two kinds of widgets   *)
(* and steps that make widgets collide and leave the grid.                 *)
(***************************************************************************)
EXTENDS DashboardDrafts

MCNames == {"ops", "untitled"}
MCFirstKinds == <<"metric_timeseries", "alert_evidence">>
MCKinds == {"metric_timeseries", "alert_evidence"}
MCDeltas == {<<-6, 1>>, <<4, 0>>}
================================================================================
