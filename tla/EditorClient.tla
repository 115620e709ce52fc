----------------------------- MODULE EditorClient -----------------------------
(***************************************************************************)
(* What the parts of the query editor and the date range picker have in    *)
(* common: the sets they are about, the bounds, the state of the part that *)
(* is followed, and what a click of the user does besides its effect.      *)
(***************************************************************************)
EXTENDS Collections

CONSTANTS Part,                     \* the parts of the editor that are followed
          Catalog, Schema, Table,   \* names
          Query,                    \* texts of queries, "" for none
          Collected,                \* queries of the runs, which may be collected
          Uuid,                     \* of the sample queries
          Connector, File,          \* names
          Kind,                     \* the two lists of configuration files
          PageSize,                 \* sizes of a page, the first is 1
          MaxTrees,                 \* bound: trees that the coordinator sent
          MaxVersions,              \* bound: changes of the tables on the server
          MaxRows, MaxForms,        \* bounds: rows of a list, times that the form is opened
          MaxRequests, MaxSamples,  \* bounds: requests for the samples, samples there are
          MaxPage, MaxCollected,    \* bounds: pages, queries in the collection at first
          TreeClicks, TableClicks, FormClicks, TextClicks, ResultClicks, CollectionClicks,
          PickerClicks              \* bounds: actions of the user

ASSUME PartAssumption ==
    Part \subseteq {"tree", "table", "form", "text", "results", "collection"}
ASSUME NamesAssumption ==
    /\ {"", "tables"} \subseteq Query /\ "" \notin Catalog \cup Schema
    /\ Kind = {"catalog", "global"} /\ 1 \in PageSize
    /\ Cardinality(Catalog) <= Cardinality(Schema)
ASSUME PageSizeAssumption == PageSize \subseteq Nat \ {0}

VARIABLES part,     \* the part of the editor that is followed, or "picker"
          ui,       \* its component, store, timers and requests
          server    \* what the coordinator knows, as far as the part shows it

vars == <<part, ui, server>>

MaxClicks == [tree |-> TreeClicks, table |-> TableClicks, form |-> FormClicks, text |-> TextClicks,
              results |-> ResultClicks, collection |-> CollectionClicks, picker |-> PickerClicks]

\* An action of the user that leaves the part in the state u.
does(u) == ui.clicks < MaxClicks[part] /\ ui' = [u EXCEPT !.clicks = @ + 1] /\ UNCHANGED server
=============================================================================
