------------------------------- MODULE WebLists -------------------------------
(***************************************************************************)
(* The pages that list what goes on: the queries and the runs.             *)
(***************************************************************************)
EXTENDS WebClient

Monitor == INSTANCE QueryMonitorPage WITH MaxClicks <- MonitorClicks, MaxChanges <- 1
Runs == INSTANCE RunPolling

InitLists == /\ open = "monitor" => Monitor!Init
             /\ open = "runs" => Runs!Init

NextLists == \/ on("monitor") /\ Monitor!Next
             \/ on("runs") /\ Runs!Next
=============================================================================
