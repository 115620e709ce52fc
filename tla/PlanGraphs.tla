----------------------------- MODULE PlanGraphs -----------------------------
(***************************************************************************)
(* What the web UI computes from the tree of stages and the plan of a      *)
(* query: the lists of stages and tasks of the query page, the operator    *)
(* graph of the stage page, and the graph that the live plan page draws    *)
(* again at every refresh.                                                 *)
(*                                                                         *)
(* A stage is [id, subStages, tasks, plan, operators, cte, feeder, stats]; *)
(* subStages and tasks are sequences, cte is the set of the shared         *)
(* expression the stage computes (at most one), and feeder says that it is *)
(* the one stage that really computes it.  A plan node is [id, type,       *)
(* inputs, remoteSources], an operator [planNodeId, pipelineId,            *)
(* operatorId].  stats is the answer of the coordinator that the           *)
(* statistics of the stage come from.                                      *)
(***************************************************************************)
EXTENDS Integers, Sequences, FiniteSets, SequencesExt

-----------------------------------------------------------------------------
(* The tree of stages.                                                     *)

RECURSIVE getStages(_)
getStages(stage) ==
    <<stage>> \o FlattenSeq([i \in DOMAIN stage.subStages |-> getStages(stage.subStages[i])])

RECURSIVE getTasksFromStage(_)
getTasksFromStage(stage) ==
    stage.tasks \o FlattenSeq([i \in DOMAIN stage.subStages |-> getTasksFromStage(stage.subStages[i])])

RECURSIVE getAllStageIds(_)
getAllStageIds(stage) ==
    <<stage.id>> \o FlattenSeq([i \in DOMAIN stage.subStages |-> getAllStageIds(stage.subStages[i])])

\* The stage of that number, {} when there is none.
RECURSIVE findStage(_, _)
findStage(id, stage) ==
    IF stage.id = id THEN {stage}
    ELSE LET found == SelectSeq([i \in DOMAIN stage.subStages |-> findStage(id, stage.subStages[i])],
                                LAMBDA f : f # {})
         IN  IF found = <<>> THEN {} ELSE found[1]

-----------------------------------------------------------------------------
(* The operators of a stage.                                               *)

OneSource == {"OutputNode", "ExplainAnalyzeNode", "ProjectNode", "FilterNode", "AggregationNode", "SortNode",
              "MarkDistinctNode", "WindowNode", "RowNumberNode", "TopNRowNumberNode", "LimitNode",
              "DistinctLimitNode", "TopNNode", "SampleNode", "TableWriterNode", "DeleteNode", "TableDeleteNode",
              "TableFinishNode", "GroupIdNode", "CTEScanNode", "UnnestNode", "EnforceSingleRowNode"}
TwoSources == {"JoinNode", "SemiJoinNode", "SpatialJoinNode", "IndexJoinNode"}
ManySources == {"UnionNode", "ExchangeNode"}
Leaves == {"RemoteSourceNode", "TableScanNode", "ValuesNode", "IndexSourceNode"}

\* A node of any other type is drawn as if nothing fed it.
getChildren(node) ==
    IF node.type \in OneSource \cup TwoSources \cup ManySources THEN node.inputs ELSE <<>>

\* The operators of each plan node.
computeOperatorMap(stage) ==
    [n \in {o.planNodeId : o \in stage.operators} |-> {o \in stage.operators : o.planNodeId = n}]

\* The chain of each pipeline, source first: the operators of the node follow those of the
\* source that shares the pipeline.  When two sources share one, the first one is kept.
RECURSIVE computeOperatorGraphs(_, _)
computeOperatorGraphs_OwnOnly(node, operatorMap) ==
    LET own == IF node.id \in DOMAIN operatorMap THEN operatorMap[node.id] ELSE {}
    IN  [p \in {o.pipelineId : o \in own} |->
           SetToSortSeq({o \in own : o.pipelineId = p}, LAMBDA a, b : a.operatorId < b.operatorId)]
computeOperatorGraphs(node, operatorMap) ==
    LET sources == [i \in DOMAIN getChildren(node) |->
                      computeOperatorGraphs(getChildren(node)[i], operatorMap)]
        sourceResults == FoldLeft(LAMBDA seen, result : seen @@ result, <<>>, sources)
        own == IF node.id \in DOMAIN operatorMap THEN operatorMap[node.id] ELSE {}
        linked(p) == SetToSortSeq({o \in own : o.pipelineId = p},
                                  LAMBDA a, b : a.operatorId < b.operatorId)
    IN  [p \in DOMAIN sourceResults \cup {o.pipelineId : o \in own} |->
           (IF p \in DOMAIN sourceResults THEN sourceResults[p] ELSE <<>>) \o linked(p)]

\* The boxes of the chain of a pipeline, in the box of the pipeline, each with an edge to its sink.
computeD3StageOperatorGraph(chain) ==
    [boxes |-> Range(chain),
     edges |-> {<<chain[i], chain[i + 1]>> : i \in 1 .. Len(chain) - 1}]

\* All pipelines; the canvas is hidden when there are none.
updateD3Graph(stage) ==
    LET graphs == computeOperatorGraphs(stage.plan, computeOperatorMap(stage))
    IN  [p \in DOMAIN graphs |-> computeD3StageOperatorGraph(graphs[p])]

\* A click on a box looks the operator up by the numbers in the name of the box, and lists it
\* for every task that runs it, by task number.
handleOperatorClick(stage, box) ==
    {o \in stage.operators : o.pipelineId = box.pipelineId /\ o.operatorId = box.operatorId}
getOperatorTasks(stage, operator) ==
    SelectSeq(SortSeq(stage.tasks, LAMBDA a, b : a.number < b.number),
              LAMBDA t : <<operator.pipelineId, operator.operatorId>> \in t.operators)

-----------------------------------------------------------------------------
(* The live plan.  The graph is kept from one refresh to the next:         *)
(*   boxes    what is drawn: plan nodes, and a statistics box per stage    *)
(*            with the statistics it shows;                                *)
(*   edges    with the statistics on their label;                          *)
(*   frames   which stage a box is drawn in.                               *)

planNode(n) == <<"node", n>>
root(s) == <<"stage", s>>
Nowhere == -1    \* a feeder that is not known (undefined)

NoDrawing == [boxes |-> <<>>, edges |-> <<>>, frames |-> {}, feederInfo |-> <<>>, consumerFeederMap |-> <<>>]

RECURSIVE flattenNode(_)
flattenNode(node) ==
    {[id |-> node.id, remoteSources |-> node.remoteSources,
      sources |-> {node.inputs[i].id : i \in DOMAIN node.inputs}]}
    \cup UNION {flattenNode(node.inputs[i]) : i \in DOMAIN node.inputs}

\* The stages as the page keeps them, children before their parents.
RECURSIVE flattenStage(_)
flattenStage(stage) ==
    Append(FlattenSeq([i \in DOMAIN stage.subStages |-> flattenStage(stage.subStages[i])]),
           [id |-> stage.id, root |-> stage.plan.id, nodes |-> flattenNode(stage.plan),
            cte |-> stage.cte, feeder |-> stage.feeder, stats |-> stage.stats])

isConsumer(stage) == stage.cte # {} /\ ~stage.feeder

\* The edges from other stages, each with the statistics of the stage that it stands for; of
\* the edges between the same boxes the last one that is set remains.
labelled(remote, allStages) ==
    LET edgesOf(s) == {r.edge : r \in {r \in remote : r.source = s.id}}
    IN  FoldLeft(LAMBDA edges, s : [e \in edgesOf(s) |-> s.stats] @@ edges, <<>>, allStages)

\* A stage that only consumes a shared expression has no frame of its own: the edges that would
\* leave it leave the stage that feeds it.  A plan node is drawn, with its edges, only once.
updateD3Stage_Unmapped(drawing, stage, allStages) ==
    LET fresh == {n \in stage.nodes : planNode(n.id) \notin DOMAIN drawing.boxes}
        remote == UNION {{[source |-> r, edge |-> <<root(r), planNode(n.id)>>] : r \in n.remoteSources} : n \in fresh}
    IN  [drawing EXCEPT
           !.boxes = (IF isConsumer(stage) THEN <<>> ELSE root(stage.id) :> stage.stats)
                       @@ [b \in {planNode(n.id) : n \in fresh} |-> 0] @@ @,
           !.frames = @ \cup {<<planNode(n.id), stage.id>> : n \in fresh},
           !.edges = labelled(remote, allStages) @@ @]
updateD3Stage(drawing, stage, allStages) ==
    LET fed == IF stage.feeder
               THEN [c \in stage.cte |-> stage.id] @@ drawing.feederInfo ELSE drawing.feederInfo
        feederOf(c) == IF c \in DOMAIN fed THEN fed[c] ELSE Nowhere
        consumers == IF isConsumer(stage)
                     THEN [s \in {stage.id} |-> feederOf(CHOOSE c \in stage.cte : TRUE)]
                            @@ drawing.consumerFeederMap
                     ELSE drawing.consumerFeederMap
        fresh == {n \in stage.nodes : planNode(n.id) \notin DOMAIN drawing.boxes}
        from(r) == IF r \in DOMAIN consumers THEN consumers[r] ELSE r
        edge(r, n) == [source |-> r, edge |-> <<root(from(r)), planNode(n.id)>>]
        remote == UNION {{edge(r, n) : r \in n.remoteSources} : n \in fresh}
        local == UNION {{<<planNode(s), planNode(n.id)>> : s \in n.sources} : n \in fresh}
    IN  [boxes |-> (IF isConsumer(stage) THEN <<>> ELSE root(stage.id) :> stage.stats)
                     @@ [b \in {planNode(n.id) : n \in fresh} |-> 0] @@ drawing.boxes,
         frames |-> drawing.frames \cup {<<planNode(n.id), stage.id>> : n \in fresh}
                      \cup (IF isConsumer(stage) THEN {} ELSE {<<root(stage.id), stage.id>>}),
         edges |-> labelled(remote, allStages)
                     @@ [e \in local |-> 0]
                     @@ (IF isConsumer(stage) THEN <<>> ELSE <<planNode(stage.root), root(stage.id)>> :> 0)
                     @@ drawing.edges,
         feederInfo |-> fed, consumerFeederMap |-> consumers]

updateD3Plan(drawing, outputStage) ==
    LET stages == flattenStage(outputStage)
    IN  FoldLeft(LAMBDA d, stage : updateD3Stage(d, stage, stages), drawing, stages)
=============================================================================
