------------------------------- MODULE QueryText -------------------------------
(***************************************************************************)
(* The text and the session context of the query editor (queryeditor/      *)
(* components/QueryEditor.jsx, MySavedQueries.jsx, stores/QueryStore.js,   *)
(* actions/QueryActions.js).  The editor rereads QueryStore at every       *)
(* change of it, whatever the change was about.  A text is a query with or *)
(* without the final semicolon.  QueryStore's context may be the very      *)
(* object that is the current context of the editor (aliased).             *)
(***************************************************************************)
EXTENDS EditorClient

-----------------------------------------------------------------------------
(* utils/FluxCollection.js: the list of models, records with a field uuid, in which the    *)
(* stores of the query editor keep what the server sent.  all(sort) sorts by a key that    *)
(* lodash 4 computes alike for every model, so it returns the list as it is.               *)

positions(collection, uuid) == {i \in DOMAIN collection : collection[i].uuid = uuid}

contains(collection, uuid) == positions(collection, uuid) # {}

\* Fields of the new model override those of the old one; the model moves to the end.
update(collection, uuid, model) ==
    LET merged(old) == [field \in DOMAIN model \cup DOMAIN old |->
                           IF field \in DOMAIN model THEN model[field] ELSE old[field]]
        first == Min(positions(collection, uuid))
    IN Append(SelectSeq(collection, LAMBDA m : m.uuid # uuid),
              IF contains(collection, uuid) THEN merged(collection[first]) ELSE model)

\* A model that is there already is updated or left alone.
add_Appends(collection, models, updates) == collection \o models
add(collection, models, updates) ==
    LET added[n \in 0..Len(models)] ==
            IF n = 0 THEN collection
            ELSE LET rest == added[n - 1]
                     model == models[n]
                 IN IF ~contains(rest, model.uuid) THEN Append(rest, model)
                    ELSE IF updates THEN update(rest, model.uuid, model) ELSE rest
    IN added[Len(models)]

remove(collection, uuid) ==
    IF contains(collection, uuid) THEN RemoveAt(collection, Min(positions(collection, uuid)))
    ELSE collection

uuids(collection) == [i \in DOMAIN collection |-> collection[i].uuid]

-----------------------------------------------------------------------------
\* ui is the editor, QueryStore and the requests; server is the sample queries.

\* Every catalog has a schema, and different catalogs have different ones.
owner == CHOOSE f \in [Schema -> Catalog] : \A c \in Catalog : \E s \in Schema : f[s] = c
schemasOf == [c \in Catalog |-> {s \in Schema : owner[s] = c}]    \* all that a catalog may have

NoContext == [catalog |-> "", schema |-> ""]
Text == [query : Query, ended : BOOLEAN]
Context == {context \in [catalog : Catalog, schema : Schema] :
               context.schema \in schemasOf[context.catalog]}
Model == [Catalog -> SUBSET Schema]
Samples == UNION {[1..n -> [uuid : Uuid, query : Query \ {""}]] : n \in 1..MaxSamples}

terminated(text) == [text EXCEPT !.ended = @ \/ text.query # ""]
firstSchema(model, catalog) ==
    IF model[catalog] = {} THEN "" ELSE CHOOSE s \in model[catalog] : TRUE

-----------------------------------------------------------------------------
(* What follows a change of QueryStore *)

\* The editor's own text and the field that handleRun reads are two.
_selectQuery_EditorOnly(u) ==
    [u EXCEPT !.text = IF u.selectedQuery = {} THEN @
                       ELSE terminated(CHOOSE text \in u.selectedQuery : TRUE),
              !.currentContext = IF u.sessionContext = NoContext THEN @ ELSE u.sessionContext]
_selectQuery(u) ==
    LET text == IF u.selectedQuery = {} THEN u.text
                ELSE terminated(CHOOSE t \in u.selectedQuery : TRUE)
    IN [u EXCEPT !.text = text, !.query = IF u.selectedQuery = {} THEN @ ELSE text,
                 !.currentContext = IF u.sessionContext = NoContext THEN @ ELSE u.sessionContext]

onSelectQuery(u, text, context, aliased) ==
    _selectQuery([u EXCEPT !.selectedQuery = {text}, !.sessionContext = context, !.aliased = aliased])
onSetSessionContext(u, context) ==
    _selectQuery([u EXCEPT !.sessionContext = context, !.aliased = FALSE])
onReceivedQueries(u, queries) ==
    _selectQuery([u EXCEPT !.collection = add(@, queries, FALSE)])
onDestroyQuery(u, uuid) == _selectQuery([u EXCEPT !.collection = remove(@, uuid)])

-----------------------------------------------------------------------------

constructorText == [text |-> [query |-> "tables", ended |-> TRUE], query |-> [query |-> "tables", ended |-> TRUE],
                    currentContext |-> [catalog |-> "system", schema |-> "runtime"],
                    selectedQuery |-> {}, sessionContext |-> NoContext, aliased |-> FALSE,
                    collection |-> <<>>, fetches |-> 0, destroys |-> {}, model |-> {}, runs |-> {},
                    clicks |-> 0]

InitText == ui = constructorText /\ server \in Samples

executes(u, query, context) == [u EXCEPT !.runs = @ \cup {[query |-> query, context |-> context]}]

\* onChange
types(text) == text # ui.text /\ does([ui EXCEPT !.text = text, !.query = text])

\* The current context goes to QueryStore as the object it is.  The button, which is off
\* for a second after that, is part of RunPolling.
handleRun ==
    /\ ui.query.query # ""
    /\ does(executes(onSelectQuery(ui, ui.query, ui.currentContext, TRUE), ui.query, ui.currentContext))

\* A new catalog makes a new object of the context, a new schema changes the one there is.
handleCatalogChange_KeepsSchema(catalog) ==
    \E model \in ui.model :
        /\ model[catalog] # {}
        /\ does([ui EXCEPT !.currentContext.catalog = catalog, !.aliased = FALSE])
handleCatalogChange(catalog) ==
    \E model \in ui.model :
        /\ model[catalog] # {}
        /\ does([ui EXCEPT !.currentContext = [catalog |-> catalog, schema |-> firstSchema(model, catalog)],
                           !.aliased = FALSE])
handleSchemaChange(schema) ==
    \E model \in ui.model :
        /\ ui.currentContext.catalog \in Catalog
        /\ schema \in model[ui.currentContext.catalog]
        /\ does([ui EXCEPT !.currentContext.schema = schema,
                           !.sessionContext.schema = IF ui.aliased THEN schema ELSE @])

\* "Use as default" in the tree; a query of the runs, the results or the collection.
useAsDefault(context) == does(onSetSessionContext(ui, context))
selectRun(query, context) ==
    does(onSelectQuery(ui, [query |-> query, ended |-> FALSE], context, FALSE))

\* MySavedQueries: mounted when its tab is opened; its queries come without a context.
openSamples == ui.fetches < MaxRequests /\ does([ui EXCEPT !.fetches = @ + 1])
sample(i) == [query |-> ui.collection[i].query, ended |-> FALSE]
selectSample(i) == does(onSelectQuery(ui, sample(i), NoContext, FALSE))
_runQuery(i) == does(executes(onSelectQuery(ui, sample(i), NoContext, FALSE), sample(i), NoContext))
_deleteQuery(i) == does([ui EXCEPT !.destroys = @ \cup {ui.collection[i].uuid}])

SamplesArrive ==
    /\ ui.fetches > 0
    /\ ui' = [onReceivedQueries(ui, server) EXCEPT !.fetches = @ - 1]
    /\ UNCHANGED server
SampleDestroyed(uuid) ==
    /\ uuid \in ui.destroys
    /\ ui' = [onDestroyQuery(ui, uuid) EXCEPT !.destroys = @ \ {uuid}]
    /\ server' = remove(server, uuid)
TextRequestFails ==
    /\ \/ ui.fetches > 0 /\ ui' = [ui EXCEPT !.fetches = @ - 1]
       \/ \E uuid \in ui.destroys : ui' = [ui EXCEPT !.destroys = @ \ {uuid}]
    /\ UNCHANGED server

\* schemaContextHandler: SchemaStore has a new tree, at any time.
schemaContextHandler ==
    /\ \E model \in {m \in Model : \A c \in Catalog : m[c] \subseteq schemasOf[c]} :
          ui' = [ui EXCEPT !.model = {model}]
    /\ UNCHANGED server

NextText == \/ \E text \in Text : types(text)
            \/ handleRun
            \/ \E catalog \in Catalog : handleCatalogChange(catalog)
            \/ \E schema \in Schema : handleSchemaChange(schema)
            \/ \E context \in Context :
                  useAsDefault(context) \/ \E query \in Query \ {""} : selectRun(query, context)
            \/ openSamples
            \/ \E i \in DOMAIN ui.collection : selectSample(i) \/ _runQuery(i) \/ _deleteQuery(i)
            \/ SamplesArrive \/ TextRequestFails \/ schemaContextHandler
            \/ \E uuid \in Uuid : SampleDestroyed(uuid)

-----------------------------------------------------------------------------

\* What Run sends is the text in the editor: the two copies of it never part.
RunsWhatIsShown == ui.query = ui.text

\* The context is never the catalog of one choice with the schema of another, although
\* it is changed field by field in an object that QueryStore may share.
ContextNotMixed ==
    \A context \in {ui.currentContext} \cup {run.context : run \in ui.runs} :
        context \in Context \cup {NoContext, constructorText.currentContext}

\* A sample query is listed once, however often the samples are fetched.
SamplesOnce == IsInjective(uuids(ui.collection))
=============================================================================
