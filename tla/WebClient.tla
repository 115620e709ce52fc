------------------------------ MODULE WebClient ------------------------------
(***************************************************************************)
(* What the pages of the web UI that live on polling have in common: the   *)
(* component of the page, what it talks to, and what the menus offer.      *)
(***************************************************************************)
EXTENDS Integers, Sequences, FiniteSets

CONSTANTS FilterType, ErrorType, SortType, SearchString, PageSize, Field,
          Stage, ThreadGroup, UserName, DateRange, Menu, Chart,
          MaxHistory, Window, Fast, Slow, Limit, Attempts,
          MaxRows, MaxPage, MaxThreads, MaxPolls, MaxFailures, MaxAnswers,
          MonitorClicks, HistoryClicks, HistoryRequests, HistoryChanges,
          MaxRequests, MaxChanges, MaxClicks

ASSUME MenusAssumption ==
    /\ "failed" \in FilterType /\ "creation" \in SortType
    /\ ErrorType # {} /\ "all" \notin FilterType \cup ErrorType
    /\ "" \in SearchString /\ 1 \in PageSize /\ "Date" \in Field
ASSUME FiniteMenusAssumption == IsFiniteSet(FilterType) /\ IsFiniteSet(ErrorType)
ASSUME StagesAssumption == 0 \in Stage /\ Stage \subseteq Nat
ASSUME DelaysAssumption == Limit \in Nat /\ Slow \in 1..Limit /\ Fast \in 1..Slow
ASSUME ChartsAssumption == MaxHistory \in Nat /\ Window \in Nat \ {0}

VARIABLES open,     \* the page that is open
          ui,       \* its component
          server    \* what the coordinator knows, as far as the page shows it

vars == <<open, ui, server>>

on(page) == open = page /\ UNCHANGED open
=============================================================================
