---------------------------- MODULE RefreshSeries ----------------------------
(***************************************************************************)
(* What a page of the web UI that refreshes itself promises: one series of *)
(* requests, each sent by the timer that the answer to the one before has  *)
(* armed.  The series ends with the answer that brings the final state,    *)
(* and with no other.  The pages state the intent in comments ("to stop    *)
(* multiple series of refreshLoop from going on simultaneously", "stop     *)
(* refreshing when query finishes or fails"); this is their specification. *)
(***************************************************************************)
VARIABLES phase,    \* "waiting" for an answer, "armed" or "stopped"
          ended     \* the page has been told that nothing will change any more

Init == phase = "waiting" /\ ended = FALSE

Answer == /\ phase = "waiting"
          /\ ended' \in BOOLEAN
          /\ phase' = IF ended' THEN "stopped" ELSE "armed"

Fire == phase = "armed" /\ phase' = "waiting" /\ UNCHANGED ended

Next == Answer \/ Fire

Spec == Init /\ [][Next]_<<phase, ended>>
=============================================================================
