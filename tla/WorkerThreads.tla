---------------------------- MODULE WorkerThreads ----------------------------
(***************************************************************************)
(* The thread snapshots of a worker (components/WorkerThreadList.jsx).     *)
(* The user asks for a snapshot, picks a group of threads and a state.     *)
(* A snapshot is the set of its threads [name, group, state], where a      *)
(* thread of a query has a name of its own form.                           *)
(***************************************************************************)
EXTENDS Integers, FiniteSetsExt

CONSTANTS ThreadGroup,      \* names of thread pools
          MaxThreads,       \* bound: threads of the worker
          MaxClicks         \* bound: actions of the user

VARIABLES ui,       \* the React component
          server    \* the threads that the worker has at the moment

ALL_THREADS == "All Threads"
ALL_THREAD_STATE == "ALL"
Unknown == {}
ThreadState == {"RUNNABLE", "WAITING"}
Thread == [group : ThreadGroup, state : ThreadState, isQuery : BOOLEAN]
Threads == UNION {kSubset(n, Thread) : n \in 0..MaxThreads}

-----------------------------------------------------------------------------

\* The list QUERY_THREADS is never created, so the first thread of a query throws.
processThreads_Throws(threads) == \E thread \in threads : thread.isQuery
processThreads_FirstOfGroup(threads) ==
    [group \in {ALL_THREADS} \cup {thread.group : thread \in threads} |->
        IF group = ALL_THREADS THEN threads
        ELSE {CHOOSE thread \in threads : thread.group = group}]
processThreads(threads) ==
    [group \in {ALL_THREADS} \cup {thread.group : thread \in threads} |->
        {thread \in threads : group \in {ALL_THREADS, thread.group}}]

filterThreads(u, group, state) ==
    {thread \in UNION {groups[group] : groups \in u.threads} :
        state \in {thread.state, ALL_THREAD_STATE}}

\* render: a group that the snapshot does not have throws, and React drops the page.
groupsOffered(u) == UNION {DOMAIN groups : groups \in u.threads}
rendered(u) ==
    [u EXCEPT !.mounted = @ /\ (u.threads = Unknown \/ u.selectedGroup \in groupsOffered(u))]
offersSnapshot(u) == u.mounted /\ (u.threads # Unknown \/ ~u.initialized)

constructor == [initialized |-> FALSE, threads |-> Unknown, selectedGroup |-> ALL_THREADS,
                selectedThreadState |-> ALL_THREAD_STATE, mounted |-> TRUE, requests |-> 0,
                clicks |-> 0, taken |-> {}]

Init == ui = constructor /\ server \in Threads

-----------------------------------------------------------------------------

mayClick == ui.mounted /\ ui.clicks < MaxClicks

handleNewSnapshotClick ==
    /\ mayClick /\ offersSnapshot(ui)
    /\ ui' = [ui EXCEPT !.initialized = FALSE, !.requests = @ + 1, !.clicks = @ + 1]
    /\ UNCHANGED server

handleGroupClick(group) ==
    /\ mayClick /\ group \in groupsOffered(ui)
    /\ ui' = [ui EXCEPT !.selectedGroup = group, !.clicks = @ + 1]
    /\ UNCHANGED server

handleThreadStateClick(state) ==
    /\ mayClick /\ ui.threads # Unknown
    /\ ui' = [ui EXCEPT !.selectedThreadState = state, !.clicks = @ + 1]
    /\ UNCHANGED server

\* captureSnapshot's answer.  An exception in it leaves the state as it was.
SnapshotArrives ==
    /\ ui.requests > 0
    /\ ui' = IF processThreads_Throws(server) THEN [ui EXCEPT !.requests = @ - 1]
             ELSE rendered([ui EXCEPT !.threads = {processThreads(server)}, !.taken = server,
                                      !.initialized = TRUE, !.requests = @ - 1])
    /\ UNCHANGED server

RequestFails ==
    /\ ui.requests > 0
    /\ ui' = rendered([ui EXCEPT !.initialized = TRUE, !.requests = @ - 1])
    /\ UNCHANGED server

ThreadsChange == \E threads \in Threads : server' = threads /\ UNCHANGED ui

User == \/ handleNewSnapshotClick
        \/ \E group \in ThreadGroup \cup {ALL_THREADS} : handleGroupClick(group)
        \/ \E state \in ThreadState \cup {ALL_THREAD_STATE} : handleThreadStateClick(state)
Next == User \/ SnapshotArrives \/ RequestFails \/ ThreadsChange

-----------------------------------------------------------------------------

\* The snapshot on the screen is one that the worker sent, whole: every thread is in
\* exactly the group of its pool and in the list of all threads, and the numbers that
\* the two menus show add up.
SnapshotComplete ==
    \A groups \in ui.threads :
        /\ groups[ALL_THREADS] = ui.taken
        /\ \A thread \in ui.taken :
              {group \in DOMAIN groups : thread \in groups[group]} = {ALL_THREADS, thread.group}
        /\ ui.selectedGroup \in DOMAIN groups =>
              UNION {filterThreads(ui, ui.selectedGroup, state) : state \in ThreadState}
                  = filterThreads(ui, ui.selectedGroup, ALL_THREAD_STATE)
=============================================================================
