------------------------------ MODULE WebEditor ------------------------------
(***************************************************************************)
(* The parts of the query editor.  Each part keeps its own state and its   *)
(* own store, so a behaviour follows one of them.                          *)
(***************************************************************************)
EXTENDS SchemaTree, TablePreview, AddCatalogForm, QueryText, ResultsPreview, CollectionPage

Init == /\ part \in Part
        /\ part = "tree" => InitTree
        /\ part = "table" => InitTable
        /\ part = "form" => InitForm
        /\ part = "text" => InitText
        /\ part = "results" => InitResults
        /\ part = "collection" => InitCollection

in(p) == part = p /\ UNCHANGED part

Next == \/ in("tree") /\ NextTree
        \/ in("table") /\ NextTable
        \/ in("form") /\ NextForm
        \/ in("text") /\ NextText
        \/ in("results") /\ NextResults
        \/ in("collection") /\ NextCollection

Spec == Init /\ [][Next]_vars

-----------------------------------------------------------------------------
(* Properties.                                                             *)

\* A list holds an item once: the favourites (SchemaTree.addToFavorites), and the sample
\* queries however often they are fetched (Collection.add).
ListedOnce ==
    /\ part = "tree" => FavouriteOnce
    /\ part = "text" => SamplesOnce

\* A component agrees with the store behind it: the tree once its timers ran, which bring back
\* the tree that a refresh blanks to draw it afresh (SchemaTree.reloadItem), the text of the
\* editor with the query that a click runs, and the schema with the catalog it is in.
ViewAgreesWithStore ==
    /\ part = "tree" => TreeReturns /\ TreeAgreesWithStore
    /\ part = "text" => RunsWhatIsShown /\ ContextNotMixed

\* What is shown is what was asked for last: the columns of the chosen table, the rows of the
\* chosen page, and no row beyond those that there are.
ShowsWhatWasAsked ==
    /\ part = "table" => ShowsChosenTable
    /\ part = "results" => RowsOfShownPage
    /\ part = "collection" => DrawsOnlyRowsThereAre

\* A catalog is sent only when its form is complete, its errors are those of the rows on the
\* screen, and a refusal is explained (AddCatalog.handleValidation, handleSubmit).
FormSound ==
    part = "form" => ErrorsMatchRows /\ PostedIsComplete /\ RefusalExplained
=============================================================================
