----------------------------- MODULE AuditLogPage -----------------------------
(***************************************************************************)
(* The audit log page (components/AuditLog.jsx).  A change of one of the   *)
(* search fields is searched for after a second of rest; the timer of the  *)
(* page (refreshLoop) searches too, but refreshData only sends a request   *)
(* when a field differs from the last search, which it notes in flag       *)
(* without waiting for the answer.  A search that fails is not repeated.   *)
(*                                                                         *)
(* The search is abstracted to three fields: the user, the range of dates  *)
(* (begin and end) and one of the menus (level and type work alike).  The  *)
(* page installs its handlers of the date picker again whenever the field  *)
(* gets the focus; that the same handler then runs twice makes no          *)
(* difference, since a debounced call that waits is only put off.          *)
(***************************************************************************)
EXTENDS Collections

CONSTANTS UserName, DateRange, Menu,   \* what the fields may hold; "" is an empty field
          MaxPage,              \* bound: pages of the log
          MaxClicks             \* bound: actions of the user

VARIABLES ui,       \* the React component
          server    \* not looked at: the log of the past does not change

Nothing == {}
search(u) == [user |-> u.searchStringUser, range |-> u.searchStringRange, menu |-> u.searchStringMenu]

resetTimer(u) == [u EXCEPT !.timer = TRUE]

refreshData_IgnoresRange(u) ==
    [u EXCEPT !.requests = IF \E last \in u.flag : /\ last.user = u.searchStringUser
                                                   /\ last.menu = u.searchStringMenu
                           THEN @ ELSE Append(@, search(u)),
              !.flag = {search(u)}]
refreshData(u) ==
    [u EXCEPT !.requests = IF u.flag = {search(u)} THEN @ ELSE Append(@, search(u)),
              !.flag = {search(u)}]

refreshLoop(u) == refreshData([u EXCEPT !.timer = FALSE])

\* The initial flag differs from the initial fields: the first search is always sent.
constructor ==
    [searchStringUser |-> "", searchStringRange |-> "", searchStringMenu |-> "INFO",
     searchStringDate |-> "", flag |-> Nothing, auditlog |-> Nothing, currentPage |-> 1,
     pattern |-> "", user |-> "", setup |-> {"pattern", "isAdmin"},
     timer |-> FALSE, debounce |-> FALSE, zero |-> 0, deferred |-> 0,
     requests |-> <<>>, clicks |-> 0, failed |-> FALSE, overtaken |-> FALSE]

\* componentDidMount asks for the pattern of dates and for the user's role as well.
Init == ui = refreshLoop(constructor) /\ server = 0

-----------------------------------------------------------------------------
(* Answers *)

\* Either answer arms the timer, and so does its failure.
SetupAnswered(which) ==
    /\ which \in ui.setup
    /\ \E value \in {"", "admin"} :
          ui' = resetTimer([ui EXCEPT !.setup = @ \ {which},
                                      !.pattern = IF which = "pattern" THEN value ELSE @,
                                      !.user = IF which = "isAdmin" THEN value ELSE @])
    /\ UNCHANGED server

AnswerArrives(i) ==
    /\ i \in DOMAIN ui.requests
    /\ ui' = resetTimer([ui EXCEPT !.auditlog = {ui.requests[i]}, !.requests = RemoveAt(@, i),
                                   !.overtaken = @ \/ i # 1])
    /\ UNCHANGED server

\* Nobody handles the rejected promise: no timer, and flag says it has been searched for.
RequestFails(i) ==
    /\ i \in DOMAIN ui.requests
    /\ ui' = [ui EXCEPT !.requests = RemoveAt(@, i), !.failed = TRUE]
    /\ UNCHANGED server

TimerFires == ui.timer /\ ui' = refreshLoop(ui) /\ UNCHANGED server

DebounceFires == /\ ui.debounce
                 /\ ui' = [ui EXCEPT !.debounce = FALSE, !.deferred = @ + 1]
                 /\ UNCHANGED server

\* setTimeout(that.debounceSearch, 0)
ZeroTimerFires == /\ ui.zero > 0
                  /\ ui' = [ui EXCEPT !.zero = @ - 1, !.debounce = TRUE]
                  /\ UNCHANGED server

DeferredRefresh == /\ ui.deferred > 0
                   /\ ui' = refreshData([ui EXCEPT !.deferred = @ - 1])
                   /\ UNCHANGED server

-----------------------------------------------------------------------------
(* The user *)

click(u) == ui.clicks < MaxClicks /\ ui' = [u EXCEPT !.clicks = @ + 1] /\ UNCHANGED server

\* Only the administrator may type a user.  The text of the date field is not what is searched for.
handleSearchStringChange ==
    \/ ui.user = "admin" /\ \E user \in UserName : click([ui EXCEPT !.searchStringUser = user, !.currentPage = 1, !.debounce = TRUE])
    \/ \E menu \in Menu : click([ui EXCEPT !.searchStringMenu = menu, !.currentPage = 1, !.debounce = TRUE])
    \/ \E date \in DateRange : click([ui EXCEPT !.searchStringDate = date, !.currentPage = 1, !.debounce = TRUE])

\* The picker closes (hide) and then says whether it was applied or cleared.  Its handlers
\* assign to the state directly and leave the page number alone.
hidden(u, range) ==
    [u EXCEPT !.searchStringRange = IF u.searchStringDate = "" THEN "" ELSE range, !.zero = @ + 1]
datePickerHides == \E range \in DateRange \ {""} : click(hidden(ui, range))
datePickerApplies == \E range \in DateRange \ {""} :
    click([hidden(ui, range) EXCEPT !.searchStringDate = range, !.searchStringRange = range,
                                    !.zero = @ + 1])
datePickerCancels == \E range \in DateRange \ {""} :
    click([hidden(ui, range) EXCEPT !.searchStringDate = "", !.searchStringRange = "",
                                    !.zero = @ + 1])

onPageChange == \E page \in 1..MaxPage :
    click([ui EXCEPT !.currentPage = page, !.deferred = @ + 1])
onPageSizeChange == click([ui EXCEPT !.deferred = @ + 1])

Users == \/ handleSearchStringChange \/ datePickerHides \/ datePickerApplies
         \/ datePickerCancels \/ onPageChange \/ onPageSizeChange
AnyAnswer == \E i \in DOMAIN ui.requests : AnswerArrives(i) \/ RequestFails(i)
Browser == \/ \E which \in {"pattern", "isAdmin"} : SetupAnswered(which)
           \/ AnyAnswer \/ TimerFires \/ DebounceFires \/ ZeroTimerFires \/ DeferredRefresh

\* Once everything is answered the page rests until the user does something.
quiet(u) == /\ u.requests = <<>> /\ u.setup = {} /\ u.zero = 0 /\ u.deferred = 0
            /\ ~u.timer /\ ~u.debounce
Rests == quiet(ui) /\ UNCHANGED <<ui, server>>

Next == Users \/ Browser \/ Rests

-----------------------------------------------------------------------------

\* A page at rest shows the log of what is in its search fields, if no request failed
\* and no answer overtook another: refreshData notes what it sends, so neither the timer
\* nor a change of the page can make it forget a search.
QuietMeansFresh ==
    quiet(ui) /\ ~ui.failed /\ ~ui.overtaken => ui.auditlog = {search(ui)}
=============================================================================
