------------------------------ MODULE SchemaTree ------------------------------
(***************************************************************************)
(* The tree of catalogs of the query editor (queryeditor/components/       *)
(* SchemaTree.jsx, actions/SchemaActions.js, stores/SchemaStore.js).       *)
(*                                                                         *)
(* A tree is an object that the component, the store, requests on their    *)
(* way and timers share by reference: trees is the heap, a reference is an *)
(* index into it, and 0 is the empty model.  A tree maps a catalog to its  *)
(* schemas; an item of it is its path: <<catalog>>, <<catalog, schema>> or *)
(* <<catalog, schema, table>>.                                             *)
(***************************************************************************)
EXTENDS EditorClient

\* ui is the component, SchemaStore, the requests and the timers; server is the catalogs and
\* schemas that there are.

Blank == 0
noFavourites == <<<<>>, <<>>, <<>>>>     \* of catalogs, of schemas, of tables

shown(u) == IF u.model = Blank THEN << >> ELSE u.trees[u.model]
itemsShown(u) ==
    LET tree == shown(u)
        paths == {<<c, s>> : c \in DOMAIN tree, s \in Schema}
        schemas == {path \in paths : path[2] \in tree[path[1]]}
    IN {<<c>> : c \in DOMAIN tree} \cup schemas
         \cup {Append(path, t) : path \in schemas, t \in Table}

-----------------------------------------------------------------------------
(* Favourites: an item has a star if it or something below it is one. *)

isFavorite(u, item) ==
    [found |-> \E level \in 1..3 : \E f \in Range(u.favourites[level]) :
                  Len(f) >= Len(item) /\ SubSeq(f, 1, Len(item)) = item,
     self |-> Contains(u.favourites[Len(item)], item)]

\* renderItem: an item that has no children, a table for one, is offered for adding again and
\* not for removal.  The tables of a schema are not in the tree: there may be none.
offersRemoval(u, item) ==
    /\ isFavorite(u, item).self
    /\ Len(item) = 2 \/ (Len(item) = 1 /\ shown(u)[item[1]] # {})
offersAdding(u, item) == Len(item) = 2 \/ ~offersRemoval(u, item)

reloadItem_ClearsFirst(u) == [u EXCEPT !.model = Blank, !.timers = Append(@, Blank)]
reloadItem(u) ==
    [u EXCEPT !.model = Blank, !.timers = Append(@, u.model), !.overtaken = @ \/ u.timers # <<>>]

addToFavorites_Unchecked(u, item) ==
    reloadItem([u EXCEPT !.favourites[Len(item)] = Append(@, item)])
addToFavorites(u, item) ==
    IF isFavorite(u, item).self THEN u
    ELSE reloadItem([u EXCEPT !.favourites[Len(item)] = Append(@, item)])

removeFromFavorites(u, item) ==
    reloadItem([u EXCEPT !.favourites[Len(item)] = Remove(@, item)])

-----------------------------------------------------------------------------

constructorTree == [trees |-> <<>>, model |-> Blank, store |-> Blank, favourites |-> noFavourites,
                    updates |-> 0, refreshes |-> {}, deletes |-> {}, timers |-> <<>>,
                    show |-> FALSE, catalog_name |-> "", showObj |-> "", asked |-> {},
                    overtaken |-> FALSE, clicks |-> 0]

updateTree(u) == [u EXCEPT !.updates = @ + 1]

InitTree == ui = updateTree(constructorTree) /\ server \in [Catalog -> SUBSET Schema]

clickRefreshButton == does(updateTree(ui))

clickAddToFavorites(item) ==
    offersAdding(ui, item) /\ does(addToFavorites(ui, item))

clickRemoveFromFavorites(item) ==
    offersRemoval(ui, item) /\ does(removeFromFavorites(ui, item))

\* The request keeps the tree that was shown, and puts its answer into it.
refreshItem(item) ==
    /\ Len(item) \in 1..2
    /\ does([ui EXCEPT !.refreshes = @ \cup {[tree |-> ui.model, item |-> item]}])

deleteCatalog(item) ==
    Len(item) = 1 /\ does([ui EXCEPT !.deletes = @ \cup {item[1]}])

\* showCatalog toggles the dialog; SchemaTree's showModal closes it.
showCatalog(item) ==
    /\ Len(item) = 1 /\ ~ui.show
    /\ does([ui EXCEPT !.catalog_name = item[1], !.asked = @ \cup {item[1]}, !.show = TRUE])

treeShowModal == ui.show /\ shown(ui) # << >> /\ does([ui EXCEPT !.show = FALSE])

\* fetchSchemas: a new tree, given to the store first and then to the component.
UpdateArrives_NotStored ==
    /\ ui.updates > 0 /\ Len(ui.trees) < MaxTrees
    /\ ui' = [ui EXCEPT !.trees = Append(@, server), !.model = Len(ui.trees) + 1,
                        !.overtaken = ui.timers # <<>>, !.updates = @ - 1]
    /\ UNCHANGED server
UpdateArrives ==
    /\ ui.updates > 0 /\ Len(ui.trees) < MaxTrees
    /\ ui' = [ui EXCEPT !.trees = Append(@, server), !.store = Len(ui.trees) + 1,
                        !.model = Len(ui.trees) + 1, !.overtaken = ui.timers # <<>>,
                        !.updates = @ - 1]
    /\ UNCHANGED server

\* fetchChildren: for a catalog its schemas are replaced, for a schema its tables, which
\* the tree does not hold.  The component takes the tree over a tenth of a second later.
RefreshArrives(request) ==
    /\ request \in ui.refreshes /\ request.item[1] \in DOMAIN server
    /\ ui' = [ui EXCEPT !.trees[request.tree][request.item[1]] =
                           IF Len(request.item) = 1 THEN server[request.item[1]] ELSE @,
                        !.store = request.tree, !.timers = Append(@, request.tree),
                        !.refreshes = @ \ {request}]
    /\ UNCHANGED server

\* The timers of reloadItem and refreshItem have the same delay, so they fire in order.
TimerFires ==
    /\ ui.timers # <<>>
    /\ ui' = [ui EXCEPT !.model = Head(ui.timers), !.timers = Tail(@)]
    /\ UNCHANGED server

CatalogDeleted(catalog) ==
    /\ catalog \in ui.deletes
    /\ server' = [c \in DOMAIN server \ {catalog} |-> server[c]]
    /\ ui' = updateTree([ui EXCEPT !.deletes = @ \ {catalog}])

\* An answer to showCatalog goes into the dialog whatever catalog that shows by now.
CatalogShown(catalog) ==
    /\ catalog \in ui.asked
    /\ ui' = [ui EXCEPT !.asked = @ \ {catalog}, !.showObj = catalog]
    /\ UNCHANGED server

TreeRequestFails ==
    /\ \/ ui.updates > 0 /\ ui' = [ui EXCEPT !.updates = @ - 1]
       \/ \E request \in ui.refreshes : ui' = [ui EXCEPT !.refreshes = @ \ {request}]
       \/ \E catalog \in ui.deletes : ui' = [ui EXCEPT !.deletes = @ \ {catalog}]
       \/ \E catalog \in ui.asked : ui' = [ui EXCEPT !.asked = @ \ {catalog}]
    /\ UNCHANGED server

UserTree == \/ clickRefreshButton \/ treeShowModal
            \/ \E item \in itemsShown(ui) :
                  \/ clickAddToFavorites(item) \/ clickRemoveFromFavorites(item)
                  \/ refreshItem(item) \/ deleteCatalog(item) \/ showCatalog(item)
NextTree == \/ UserTree \/ UpdateArrives \/ TimerFires \/ TreeRequestFails
            \/ \E request \in ui.refreshes : RefreshArrives(request)
            \/ \E catalog \in Catalog : CatalogDeleted(catalog) \/ CatalogShown(catalog)

-----------------------------------------------------------------------------

\* The tree that a click on a favourite takes away comes back: the component shows no
\* tree only before the first one or while a timer is to bring one.
TreeReturns == ui.model = Blank => ui.timers # <<>> \/ ui.trees = <<>>

\* An item is in the list of favourites once, so removing it from there takes its star
\* away, although "Add to Favorites" is offered for tables that are in it.
FavouriteOnce == \A level \in 1..3 : IsInjective(ui.favourites[level])

\* The tree and the menus of catalogs and schemas (SchemaStore) show the same catalogs,
\* unless a timer is to run or an answer came while one was.
TreeAgreesWithStore == ui.timers = <<>> /\ ~ui.overtaken => ui.model = ui.store
=============================================================================
