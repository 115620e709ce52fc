---------------------------- MODULE AddCatalogForm ----------------------------
(***************************************************************************)
(* The form that adds a catalog (queryeditor/components/AddCatalog.jsx, in *)
(* the dialog of addcatalog.jsx; ConnectorStore, ConnectorActions,         *)
(* CatalogActions).  The text of a property is empty or the name of a      *)
(* file; a property of type "files" asks for an upload of that file.  A    *)
(* connector with properties has one, whose text lives in an object of the *)
(* store that the form shares (templates).                                 *)
(***************************************************************************)
EXTENDS EditorClient

\* ui is the dialog, the form, ConnectorStore and the requests; server is what the
\* connectors ask for: [properties, files, uploads].

None == ""
Name == {"", "1st", "name"}     \* empty, not allowed, allowed
noErrors == [catalogName |-> FALSE, connectorName |-> FALSE, submissionError |-> FALSE,
             catalogProperties |-> <<>>, uploads |-> [kind \in Kind |-> <<>>]]

\* getInitialState of a form that is mounted; componentDidMount fetches the connectors.
form == [catalogName |-> "", connectorName |-> None, catalogProperties |-> <<>>,
         uploads |-> [kind \in Kind |-> <<>>], errors |-> noErrors, refused |-> FALSE]
mountForm(u) == [u EXCEPT !.form = form, !.forms = @ + 1, !.fetches = @ + 1]
\* AddCatalogContainer: the dialog is toggled, whoever asks for it.
showModal(u) == IF u.show THEN [u EXCEPT !.show = FALSE] ELSE [mountForm(u) EXCEPT !.show = TRUE]

missing(f, row) ==
    row.files /\ ~\E kind \in Kind : row.text \in Range(f.uploads[kind])

\* handleValidation: a new set of errors, one entry per row.
handleValidation_ChecksTextOnly(f) ==
    [f.errors EXCEPT
       !.catalogName = f.catalogName # "name", !.connectorName = f.connectorName = None,
       !.submissionError = FALSE,
       !.catalogProperties = [i \in DOMAIN f.catalogProperties |-> f.catalogProperties[i].text = ""],
       !.uploads = [kind \in Kind |-> [i \in DOMAIN f.uploads[kind] |-> f.uploads[kind][i] = None]]]
handleValidation(f) ==
    [f.errors EXCEPT
       !.catalogName = f.catalogName # "name", !.connectorName = f.connectorName = None,
       !.submissionError = FALSE,
       !.catalogProperties = [i \in DOMAIN f.catalogProperties |->
            f.catalogProperties[i].text = "" \/ missing(f, f.catalogProperties[i])],
       !.uploads = [kind \in Kind |-> [i \in DOMAIN f.uploads[kind] |-> f.uploads[kind][i] = None]]]

invalid(errors) == \/ errors.catalogName \/ errors.connectorName
                   \/ TRUE \in Range(errors.catalogProperties)
                   \/ \E kind \in Kind : TRUE \in Range(errors.uploads[kind])

\* render: only the lists that the connector asks for are on the screen.
enabled(kind) == ui.form.connectorName # None /\ kind \in server[ui.form.connectorName].uploads
visibleErrors(f) ==
    \/ f.errors.catalogName \/ f.errors.connectorName
    \/ f.connectorName # None /\ \E i \in DOMAIN f.catalogProperties : f.errors.catalogProperties[i]
    \/ \E kind \in Kind : enabled(kind) /\
          \E i \in DOMAIN f.uploads[kind] : i \in DOMAIN f.errors.uploads[kind] /\ f.errors.uploads[kind][i]

-----------------------------------------------------------------------------

InitForm == /\ ui = [show |-> FALSE, form |-> form, forms |-> 0, fetches |-> 0, known |-> FALSE,
                     templates |-> [connector \in Connector |-> ""], requests |-> <<>>,
                     updates |-> 0, clicks |-> 0]
            /\ server \in [Connector -> {demand \in [properties : BOOLEAN, files : BOOLEAN, uploads : SUBSET Kind] :
                                            demand.files => demand.properties}]

edits(f) == ui.show /\ does([ui EXCEPT !.form = [f EXCEPT !.refused = FALSE]])

openDialog == ~ui.show /\ ui.forms < MaxForms /\ does(showModal(ui))
handleClose == ui.show /\ does(showModal(ui))

changeCatalogName(name) ==
    edits([ui.form EXCEPT !.catalogName = name, !.errors.catalogName = @ /\ name = ""])

rows(connector) ==
    IF server[connector].properties
    THEN <<[text |-> ui.templates[connector], files |-> server[connector].files, shared |-> TRUE]>>
    ELSE <<>>

\* The rows of the last connector go, its lists of files stay.
changeConnectorName_KeepsErrors(connector) ==
    /\ ui.known
    /\ edits([ui.form EXCEPT
         !.connectorName = connector, !.errors.connectorName = FALSE,
         !.catalogProperties = rows(connector)])
changeConnectorName(connector) ==
    /\ ui.known
    /\ edits([ui.form EXCEPT
         !.connectorName = connector, !.errors.connectorName = FALSE,
         !.catalogProperties = rows(connector),
         !.errors.catalogProperties = [i \in DOMAIN rows(connector) |-> FALSE]])

addProperty ==
    /\ ui.form.connectorName # None /\ server[ui.form.connectorName].properties
    /\ Len(ui.form.catalogProperties) < MaxRows
    /\ edits([ui.form EXCEPT
         !.catalogProperties = Append(@, [text |-> "", files |-> FALSE, shared |-> FALSE]),
         !.errors.catalogProperties = Append(@, FALSE)])

handlePropertyChange(i, text) ==
    /\ ui.show /\ i \in DOMAIN ui.form.catalogProperties
    /\ does([ui EXCEPT
         !.form = [ui.form EXCEPT !.catalogProperties[i].text = text,
                                  !.errors.catalogProperties[i] = @ /\ text = "", !.refused = FALSE],
         !.templates = IF ui.form.catalogProperties[i].shared
                       THEN [@ EXCEPT ![ui.form.connectorName] = text] ELSE @])

removeProperty(i) ==
    /\ i \in DOMAIN ui.form.catalogProperties
    /\ edits([ui.form EXCEPT !.catalogProperties = RemoveAt(@, i),
                             !.errors.catalogProperties = RemoveAt(@, i)])

addConfiguration(kind) ==
    /\ enabled(kind) /\ Len(ui.form.uploads[kind]) < MaxRows
    /\ edits([ui.form EXCEPT !.uploads[kind] = Append(@, None), !.errors.uploads[kind] = Append(@, FALSE)])

\* A click on the icon in the button carries no number, and splice takes the first row.
\* The errors stay.
removeConfiguration(kind, i) ==
    /\ enabled(kind) /\ i \in DOMAIN ui.form.uploads[kind]
    /\ \E row \in {1, i} : edits([ui.form EXCEPT !.uploads[kind] = RemoveAt(@, row)])

handleConfigFileChange(kind, i, file) ==
    /\ enabled(kind) /\ i \in DOMAIN ui.form.uploads[kind]
    /\ edits([ui.form EXCEPT !.uploads[kind][i] = file, !.errors.uploads[kind][i] = FALSE])

\* Submit is offered as long as the form is open, also while an answer is due.
handleSubmit ==
    /\ ui.show
    /\ LET errors == handleValidation(ui.form)
           validated == [ui.form EXCEPT !.errors = errors, !.refused = invalid(errors)]
       IN does([ui EXCEPT
                  !.form = validated,
                  !.requests = IF invalid(errors) THEN @
                               ELSE Append(@, [form |-> ui.forms, posted |-> validated])])

CatalogAdded(i) ==
    /\ ui.forms < MaxForms
    /\ ui' = showModal([ui EXCEPT !.requests = RemoveAt(@, i), !.updates = @ + 1])
    /\ UNCHANGED server

CatalogRefused(i) ==
    /\ ui' = [ui EXCEPT !.requests = RemoveAt(@, i),
                        !.form.errors.submissionError = @ \/ ui.requests[i].form = ui.forms]
    /\ UNCHANGED server

\* The connectors arrive: new objects for the store, the form keeps the ones it has.
ConnectorsArrive ==
    /\ ui.fetches > 0
    /\ ui' = [ui EXCEPT !.fetches = @ - 1, !.known = TRUE,
                        !.templates = [connector \in Connector |-> ""],
                        !.form.catalogProperties = [i \in DOMAIN @ |-> [@[i] EXCEPT !.shared = FALSE]]]
    /\ UNCHANGED server
FetchFails == ui.fetches > 0 /\ ui' = [ui EXCEPT !.fetches = @ - 1] /\ UNCHANGED server

UserForm == \/ openDialog \/ handleClose \/ handleSubmit \/ addProperty
            \/ \E name \in Name : changeCatalogName(name)
            \/ \E connector \in Connector : changeConnectorName(connector)
            \/ \E i \in DOMAIN ui.form.catalogProperties :
                  removeProperty(i) \/ \E text \in File \cup {""} : handlePropertyChange(i, text)
            \/ \E kind \in Kind : \/ addConfiguration(kind)
                                  \/ \E i \in DOMAIN ui.form.uploads[kind] :
                                        \/ removeConfiguration(kind, i)
                                        \/ \E file \in File \cup {None} : handleConfigFileChange(kind, i, file)
NextForm == \/ UserForm \/ ConnectorsArrive \/ FetchFails
            \/ \E i \in DOMAIN ui.requests : CatalogAdded(i) \/ CatalogRefused(i)

-----------------------------------------------------------------------------

\* The messages at the properties stand at the properties they are about: the two lists
\* grow and shrink together, whatever the user adds, removes or selects.
ErrorsMatchRows == Len(ui.form.errors.catalogProperties) = Len(ui.form.catalogProperties)

\* A form is sent only with a name, a connector, no empty property, no upload without a
\* file, and all the files that its properties ask for.
PostedIsComplete ==
    \A i \in DOMAIN ui.requests : LET f == ui.requests[i].posted IN
        /\ f.catalogName = "name" /\ f.connectorName # None
        /\ \A kind \in Kind : None \notin Range(f.uploads[kind])
        /\ \A j \in DOMAIN f.catalogProperties :
              /\ f.catalogProperties[j].text # ""
              /\ f.catalogProperties[j].files =>
                    \E kind \in Kind : f.catalogProperties[j].text \in Range(f.uploads[kind])

\* A form that is not sent says why, unless the cause is in a list of files that the
\* connector selected since does not show.
RefusalExplained ==
    ui.show /\ ui.form.refused =>
        visibleErrors(ui.form) \/ \E kind \in Kind : ~enabled(kind) /\ ui.form.uploads[kind] # <<>>
=============================================================================
