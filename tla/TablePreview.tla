----------------------------- MODULE TablePreview -----------------------------
(***************************************************************************)
(* The table whose columns and rows the query editor shows                 *)
(* (queryeditor/stores/TableStore.js, TabStore.js, actions/                *)
(* TableActions.js, utils/TableApiUtils.js and the views ColumnsPreview,   *)
(* DataPreview, and the menus of SchemaTree and RunsTable that ask for a   *)
(* table).  A table is shown by name; its data are the pair of its name    *)
(* and the version that the server had.  The handlers of the store that no *)
(* component calls (partitions, removal) are left out.                     *)
(***************************************************************************)
EXTENDS EditorClient

\* ui is the stores, the selection in the tree and the requests; server is the version of
\* the tables.

noTable == {}
Tab == {"ALL_QUERIES", "DATA_PREVIEW"}
LeftTab == {"LEFT_PANEL_TREE", "LEFT_PANEL_COLUMNS"}

getByName(u, name) == {i \in DOMAIN u.tables : u.tables[i].name = name}

unmarkActiveTables(u) ==
    [u EXCEPT !.tables = [i \in DOMAIN @ |-> [@[i] EXCEPT !.active = FALSE]], !.activeTable = noTable]

markActive(u, name) ==
    LET unmarked == unmarkActiveTables(u)
    IN [unmarked EXCEPT
          !.tables = [i \in DOMAIN @ |->
                         IF i \in getByName(unmarked, name) THEN [@[i] EXCEPT !.active = TRUE] ELSE @[i]],
          !.activeTable = getByName(unmarked, name)]

\* "for now clear everything else and keep only this", and fetch it.
onAddTable(u, name) ==
    LET unmarked == unmarkActiveTables(u)
    IN [unmarked EXCEPT
          !.tables = <<[name |-> name, active |-> TRUE, data |-> noTable, resized |-> FALSE]>>,
          !.requests = Append(@, name)]

onReceivedTableData_First(u, name, data) ==
    IF u.tables = <<>> THEN u
    ELSE [u EXCEPT !.tables[1].data = {data}, !.tables[1].resized = FALSE]
onReceivedTableData(u, name, data) ==
    [u EXCEPT !.tables = [i \in DOMAIN @ |->
        IF i \in getByName(u, name) THEN [@[i] EXCEPT !.data = {data}, !.resized = FALSE] ELSE @[i]]]

\* SchemaTree's selectTable: the name in the tree that is coloured as selected.
selectTable(u, name) == [u EXCEPT !.selectedTableName = name]

columnsShown(u) == UNION {u.tables[i].data : i \in u.activeTable}

-----------------------------------------------------------------------------

constructorTable == [tables |-> <<>>, activeTable |-> noTable, requests |-> <<>>, selectedTab |-> "ALL_QUERIES",
                     selectedLeftPanelTab |-> "LEFT_PANEL_TREE", selectedTableName |-> "",
                     chosen |-> [name |-> "", fromTree |-> FALSE], clicks |-> 0]

InitTable == ui = constructorTable /\ server = 0

chooses(u, name, fromTree) ==
    [markActive(onAddTable(u, name), name) EXCEPT !.chosen = [name |-> name, fromTree |-> fromTree]]

\* The menu of a table in the tree.
showColumns(name) ==
    /\ ui.selectedLeftPanelTab = "LEFT_PANEL_TREE"
    /\ does([chooses(selectTable(ui, name), name, TRUE) EXCEPT
               !.selectedLeftPanelTab = "LEFT_PANEL_COLUMNS"])
previewData(name) ==
    /\ ui.selectedLeftPanelTab = "LEFT_PANEL_TREE"
    /\ does([chooses(selectTable(ui, name), name, TRUE) EXCEPT !.selectedTab = "DATA_PREVIEW"])

\* RunsTable: the output of a run is a table.
selectOutput(name) ==
    /\ ui.selectedTab = "ALL_QUERIES"
    /\ does([chooses(ui, name, FALSE) EXCEPT !.selectedTab = "DATA_PREVIEW"])

onSelectTab(tab) == ui.selectedTab # tab /\ does([ui EXCEPT !.selectedTab = tab])
onSelectLeftPanelTab(tab) ==
    ui.selectedLeftPanelTab # tab /\ does([ui EXCEPT !.selectedLeftPanelTab = tab])

onSetTableColumnWidth ==
    /\ ui.selectedTab = "DATA_PREVIEW" /\ columnsShown(ui) # {}
    /\ does([ui EXCEPT !.tables = [i \in DOMAIN @ |->
                IF i \in ui.activeTable THEN [@[i] EXCEPT !.resized = TRUE] ELSE @[i]]])

\* The answers come in any order; fetchTable drops the failed ones.
TableArrives(i) ==
    /\ ui' = [onReceivedTableData(ui, ui.requests[i], <<ui.requests[i], server>>) EXCEPT
                !.requests = RemoveAt(@, i)]
    /\ UNCHANGED server
TableRequestFails(i) == ui' = [ui EXCEPT !.requests = RemoveAt(@, i)] /\ UNCHANGED server

TablesChange == server < MaxVersions /\ server' = server + 1 /\ UNCHANGED ui

NextTable == \/ \E name \in Table : showColumns(name) \/ previewData(name) \/ selectOutput(name)
             \/ \E tab \in Tab : onSelectTab(tab)
             \/ \E tab \in LeftTab : onSelectLeftPanelTab(tab)
             \/ onSetTableColumnWidth
             \/ \E i \in DOMAIN ui.requests : TableArrives(i) \/ TableRequestFails(i)
             \/ TablesChange

-----------------------------------------------------------------------------

\* Whatever order the answers come in, the columns and the rows on the screen are those
\* of the table that the user asked for last, which is also the one that is coloured in
\* the tree if it was asked for there.
ShowsChosenTable ==
    /\ \A i \in ui.activeTable :
          ui.tables[i].active /\ ui.tables[i].name = ui.chosen.name
    /\ \A data \in columnsShown(ui) : data[1] = ui.chosen.name
    /\ ui.chosen.fromTree => ui.selectedTableName = ui.chosen.name
    /\ Cardinality(ui.activeTable) = Cardinality({i \in DOMAIN ui.tables : ui.tables[i].active})
=============================================================================
