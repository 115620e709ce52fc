----------------------------- MODULE WebHistories -----------------------------
(***************************************************************************)
(* The pages that list the past: the queries that have ended and the       *)
(* events of the audit log.                                                *)
(***************************************************************************)
EXTENDS WebClient

History == INSTANCE QueryHistoryPage WITH MaxClicks <- HistoryClicks,
              MaxChanges <- HistoryChanges, MaxRequests <- HistoryRequests
AuditLog == INSTANCE AuditLogPage

InitHistories == /\ open = "history" => History!Init
                 /\ open = "audit" => AuditLog!Init

NextHistories == \/ on("history") /\ History!Next
                 \/ on("audit") /\ AuditLog!Next
=============================================================================
