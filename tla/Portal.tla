------------------------------- MODULE Portal -------------------------------
(***************************************************************************)
(* One browser tab of the web client (app/static/js) and what the server   *)
(* answers it (app/api): signing in, the list of requests, notifications,  *)
(* the choice of a type with its form, and the page of a request.          *)
(*                                                                         *)
(* A page is a script with handlers.  What it awaits is a call, which the  *)
(* server handles and the page hears later, in any order, or never: a call *)
(* or an answer that is lost is ERR_NETWORK.  Setting window.location      *)
(* starts to leave the page; until the next one has loaded, handlers and   *)
(* answers still run.  Loading a page abandons the calls of the one        *)
(* before; the server may handle them all the same.                        *)
(*                                                                         *)
(* Meanwhile tokens expire, the user's role and active flag change, types  *)
(* are switched off and on, and others act on the request.  EngineCalls    *)
(* looks into the execution of an action; here it is one step.             *)
(***************************************************************************)
EXTENDS Naturals, FiniteSets, Sequences, SequencesExt, TLC

CONSTANTS
    Types,      \* request types
    Roles,      \* the roles the user may be given
    Filters,    \* what the chips of the list select, "" for all
    MaxClicks,  \* bound: what the user does in all
    MaxLoads,   \* bound: loads of a detail page after which no action is executed
    MaxEvents   \* bound: calls lost and changes on the server

ASSUME FiltersAssumption == "" \in Filters
ASSUME RolesAssumption == Roles \subseteq {"employee", "approver", "admin"}
ASSUME BoundsAssumption == MaxClicks \in Nat /\ MaxLoads \in Nat /\ MaxEvents \in Nat

VARIABLES
    page,     \* the page loaded
    leaving,  \* what window.location was set to, "" if nothing
    token,    \* sessionStorage: the number of the token kept, 0 if none
    ui,       \* the variables and the visible parts of the page's script
    calls,    \* the calls in flight, in the order they were made
    server,   \* the rows that matter here
    clicks, events

vars == <<page, leaving, token, ui, calls, server, clicks, events>>

RoleCodes == {"employee", "approver", "admin"}
Parts == {"card", "history", "actions"}      \* what loadDetail asks for
NoType == "none"

\* require_roles of the route each call goes to; "login" needs no token.
MayCall ==
    [p \in Parts |-> {"employee", "approver"}]
    @@ [list  |-> {"employee"},              notes  |-> RoleCodes,
        types |-> {"employee", "admin"},     schema |-> {"employee", "admin"},
        names |-> {"employee", "admin"},     create |-> {"employee"},
        execute |-> RoleCodes]

-----------------------------------------------------------------------------
(* The server: expired and issued, token numbers; active and role of the   *)
(* user; types, the active ones; version of the user's own request that    *)
(* the tab shows, counting what was done to it; drafts, how many created.  *)

\* Arguments and bodies are records of what they carry.
Nothing == <<>>
Answer(status, body) == [status |-> status, body |-> body]
Ok(answer) == answer.status \in {200, 201}

\* get_current_user: the token, and the user's row as it is now.
Authenticated(c) == c.token > server.expired /\ server.active

\* auth_service.login: a wrong password, an inactive user or a new token.
LogIn ==
    {<<server, Answer(401, Nothing)>>,
     IF server.active
     THEN <<[server EXCEPT !.issued = @ + 1], Answer(200, [token |-> server.issued + 1])>>
     ELSE <<server, Answer(403, Nothing)>>}

CreateDraft(c) ==
    IF c.arg.type \in server.types
    THEN {<<server, Answer(201, Nothing)>>}
    ELSE {<<server, Answer(409, Nothing)>>}

\* The engine executes the action, or refuses it.
ExecuteAction ==
    {<<[server EXCEPT !.version = @ + 1], Answer(200, [version |-> server.version + 1])>>,
     <<server, Answer(409, Nothing)>>}

\* What the calls that change nothing are answered.  Only its initiator sees
\* the request: an approver has no task of it.
Read(c) ==
    CASE c.kind = "types"    -> Answer(200, [types |-> server.types])
      [] c.kind = "schema" /\ c.arg.type \notin server.types -> Answer(404, Nothing)
      [] c.kind \in Parts /\ server.role = "employee" -> Answer(200, [version |-> server.version])
      [] c.kind \in Parts /\ server.role # "employee" -> Answer(404, Nothing)
      [] OTHER               -> Answer(200, c.arg)

\* The rows as handling c leaves them, with its answer.
Outcomes(c) ==
    IF c.kind = "login" THEN LogIn
    ELSE IF ~Authenticated(c) THEN {<<server, Answer(401, Nothing)>>}
    ELSE IF server.role \notin MayCall[c.kind] THEN {<<server, Answer(403, Nothing)>>}
    ELSE IF c.kind = "create" THEN CreateDraft(c)
    ELSE IF c.kind = "execute" THEN ExecuteAction
    ELSE {<<server, Read(c)>>}

-----------------------------------------------------------------------------
(* Calls and pages.                                                        *)

\* nth: the load or the selection of the page that the call belongs to.
Call(kind, arg, nth) ==
    [kind |-> kind, arg |-> arg, nth |-> nth, token |-> token,
     phase |-> "sent", answer |-> Answer(0, Nothing)]

DetailCalls(nth) == <<Call("card", Nothing, nth), Call("history", Nothing, nth), Call("actions", Nothing, nth)>>

\* view and form are what is visible.  nth counts the loads or selections of a
\* page; late: the form was rendered by an answer to an earlier selection;
\* got, shown, acted: versions loaded, rendered, and made by the last action;
\* panel: the comment panel is open; stale: a load after an action failed, and
\* none has been rendered since.
Script(p) ==
    CASE p = "login" -> [view |-> "form", busy |-> FALSE]
      [] p = "list" -> [view |-> "loading", filter |-> "", loading |-> TRUE, shown |-> ""]
      [] p = "notifications" -> [view |-> "loading"]
      [] p = "create" -> [view |-> "loading", catalog |-> {}, step |-> "select", nth |-> 0,
                          selected |-> NoType, form |-> "hidden", fields |-> NoType,
                          late |-> FALSE, submitting |-> FALSE]
      [] p = "detail" -> [view |-> "loading", nth |-> 1, busy |-> FALSE, error |-> FALSE,
                          panel |-> FALSE, stale |-> FALSE,
                          got |-> <<>>, shown |-> <<>>, acted |-> 0]

FirstCalls(p) ==
    CASE p = "login" -> <<>>
      [] p = "list" -> <<Call("list", [filter |-> ""], 0)>>
      [] p = "notifications" -> <<Call("notes", Nothing, 0)>>
      [] p = "create" -> <<Call("types", Nothing, 0)>>
      [] p = "detail" -> DetailCalls(1)

\* Page p loads.  Without a token, or on the login page with one, its script
\* only leaves again.
Load(p) ==
    /\ page' = p
    /\ IF (p = "login") = (token # 0)
       THEN /\ leaving' = IF token = 0 THEN "login" ELSE "list"
            /\ ui' = [view |-> "redirecting"]
            /\ calls' = <<>>
       ELSE /\ leaving' = ""
            /\ ui' = Script(p)
            /\ calls' = FirstCalls(p)
    /\ UNCHANGED token

Arrive == leaving # "" /\ Load(leaving) /\ UNCHANGED <<server, clicks, events>>

Handle(i) ==
    /\ calls[i].phase = "sent"
    /\ \E o \in Outcomes(calls[i]) :
         /\ server' = o[1]
         /\ calls' = [calls EXCEPT ![i].phase = "answered", ![i].answer = o[2]]
    /\ UNCHANGED <<page, leaving, token, ui, clicks, events>>

-----------------------------------------------------------------------------
(* What a page does with an answer: its ui, the calls it makes and, unless *)
(* "", where it goes.                                                      *)

Then(script, made, target) == [ui |-> script, made |-> made, target |-> target]
Show(script) == Then(script, <<>>, "")

HearLogin(c, answer) ==
    IF Ok(answer) THEN Then(ui, <<>>, "list")
    ELSE Show([ui EXCEPT !.view = "error", !.busy = FALSE])

HearList(c, answer) ==
    Show(IF Ok(answer)
         THEN [ui EXCEPT !.view = "rows", !.shown = answer.body.filter, !.loading = FALSE]
         ELSE [ui EXCEPT !.view = "error", !.loading = FALSE])

HearNotes(c, answer) == Show([ui EXCEPT !.view = IF Ok(answer) THEN "rows" ELSE "error"])

HearTypes(c, answer) ==
    Show(IF ~Ok(answer) THEN [ui EXCEPT !.view = "error"]
         ELSE IF answer.body.types = {} THEN [ui EXCEPT !.view = "empty"]
         ELSE [ui EXCEPT !.view = "catalog", !.catalog = answer.body.types])

\* Rendered whatever the selection is by now.
HearSchema(c, answer) ==
    Show(IF Ok(answer)
         THEN [ui EXCEPT !.form = "content", !.fields = c.arg.type, !.late = c.nth # ui.nth]
         ELSE [ui EXCEPT !.form = IF @ = "content" THEN @ ELSE "error"])

HearCreate(c, answer) ==
    IF Ok(answer) THEN Then(ui, <<>>, "detail") ELSE Show([ui EXCEPT !.submitting = FALSE])

Rendered(script) ==
    [script EXCEPT !.view = "shown", !.shown = script.got, !.error = FALSE, !.busy = FALSE,
                   !.panel = FALSE, !.stale = FALSE]

\* The first refusal of Promise.all ends the load; what comes later of it is
\* ignored.  The first load of the page asks for the names of the fields too.
HearPart(c, answer) ==
    LET new == [ui EXCEPT !.got =
                  [p \in DOMAIN ui.got \cup {c.kind} |->
                     IF p = c.kind THEN answer.body.version ELSE ui.got[p]]]
    IN  IF c.nth # ui.nth THEN Show(ui)
        ELSE IF ~Ok(answer)
        THEN Show([ui EXCEPT !.nth = @ + 1, !.busy = FALSE, !.error = ui.view = "shown",
                             !.stale = ui.view = "shown",
                             !.view = IF ui.view = "shown" THEN @ ELSE "error"])
        ELSE IF DOMAIN new.got # Parts THEN Show(new)
        ELSE IF ui.view = "shown" THEN Show(Rendered(new))
        ELSE Then(new, <<Call("names", Nothing, ui.nth)>>, "")

\* Optional: without them the field codes are shown.
HearNames(c, answer) == Show(Rendered(ui))

\* Mutation: the actions loaded before are kept.
HearExecuteKeeping(c, answer) ==
    IF Ok(answer)
    THEN Then([ui EXCEPT !.nth = @ + 1, !.got = [p \in {"actions"} |-> ui.shown[p]],
                         !.acted = answer.body.version, !.panel = FALSE],
              Front(DetailCalls(ui.nth + 1)), "")
    ELSE Show([ui EXCEPT !.busy = FALSE, !.error = TRUE])

\* An executed action is followed by a soft load of the page.
HearExecute(c, answer) ==
    IF Ok(answer)
    THEN Then([ui EXCEPT !.nth = @ + 1, !.got = <<>>, !.acted = answer.body.version,
                         !.panel = FALSE],
              DetailCalls(ui.nth + 1), "")
    ELSE Show([ui EXCEPT !.busy = FALSE, !.error = TRUE])

Heard(c, answer) ==
    CASE c.kind = "login"   -> HearLogin(c, answer)
      [] c.kind = "list"    -> HearList(c, answer)
      [] c.kind = "notes"   -> HearNotes(c, answer)
      [] c.kind = "types"   -> HearTypes(c, answer)
      [] c.kind = "schema"  -> HearSchema(c, answer)
      [] c.kind = "create"  -> HearCreate(c, answer)
      [] c.kind \in Parts   -> HearPart(c, answer)
      [] c.kind = "names"   -> HearNames(c, answer)
      [] c.kind = "execute" -> HearExecute(c, answer)

\* apiFetch: a 401 to a call with a token clears the session.
SignedOut(c, answer) == answer.status = 401 /\ c.kind # "login"

\* Mutation: the refused token is kept.
TokenKept(c, answer) == IF c.kind = "login" /\ Ok(answer) THEN answer.body.token ELSE token

TokenAfter(c, answer) ==
    IF SignedOut(c, answer) THEN 0
    ELSE IF c.kind = "login" /\ Ok(answer) THEN answer.body.token
    ELSE token

React(i, answer, rest) ==
    LET c    == calls[i]
        then == Heard(c, answer)
    IN  /\ token' = TokenAfter(c, answer)
        /\ leaving' = IF SignedOut(c, answer) THEN "login"
                      ELSE IF then.target # "" THEN then.target ELSE leaving
        /\ ui' = then.ui
        /\ calls' = rest \o then.made
        /\ UNCHANGED <<page, server, clicks>>

Hear(i) ==
    /\ calls[i].phase = "answered"
    /\ React(i, calls[i].answer, RemoveAt(calls, i))
    /\ UNCHANGED events

\* The call or its answer is lost: ERR_NETWORK.  What the server does with
\* a call nobody hears of any more is one of the events below.
Lose(i) ==
    /\ events < MaxEvents /\ events' = events + 1
    /\ React(i, Answer(0, Nothing), RemoveAt(calls, i))

-----------------------------------------------------------------------------
(* The user.                                                               *)

On(p) == page = p /\ ui.view # "redirecting"

\* A handler that sets the ui and makes at most one call.
Handler(script, made) ==
    /\ ui' = script
    /\ calls' = calls \o made
    /\ UNCHANGED <<page, leaving, token>>

SubmitLogin ==
    /\ On("login") /\ ~ui.busy
    /\ Handler([ui EXCEPT !.view = "form", !.busy = TRUE], <<Call("login", Nothing, 0)>>)

LoadList(f) ==
    Handler([ui EXCEPT !.view = "loading", !.loading = TRUE, !.filter = f], <<Call("list", [filter |-> f], 0)>>)

\* Mutation: a chip may be chosen while rows are loading.
ChooseAnyTime(f) == On("list") /\ LoadList(f)

ChooseFilter(f) == On("list") /\ ~ui.loading /\ LoadList(f)

\* The retry buttons, visible with the error only.
Retry ==
    /\ ui.view = "error"
    /\ \/ On("list") /\ LoadList(ui.filter)
       \/ On("notifications") /\ Handler([ui EXCEPT !.view = "loading"], <<Call("notes", Nothing, 0)>>)
       \/ On("create") /\ ui.step = "select"
          /\ Handler([ui EXCEPT !.view = "loading"], <<Call("types", Nothing, 0)>>)

\* Mutation: what the form showed before stays visible.
OpenOverOldForm(t) ==
    /\ On("create") /\ ui.step = "select" /\ ui.view = "catalog" /\ t \in ui.catalog
    /\ Handler([ui EXCEPT !.step = "form", !.nth = @ + 1, !.selected = t, !.late = FALSE,
                          !.submitting = FALSE],
               <<Call("schema", [type |-> t], ui.nth + 1)>>)

OpenFormForType(t) ==
    /\ On("create") /\ ui.step = "select" /\ ui.view = "catalog" /\ t \in ui.catalog
    /\ Handler([ui EXCEPT !.step = "form", !.nth = @ + 1, !.selected = t, !.form = "loading",
                          !.late = FALSE, !.submitting = FALSE],
               <<Call("schema", [type |-> t], ui.nth + 1)>>)

ShowSelectStep ==
    /\ On("create") /\ ui.step = "form"
    /\ Handler([ui EXCEPT !.step = "select", !.selected = NoType, !.form = "hidden",
                          !.submitting = FALSE], <<>>)

\* Mutation: the flag is not looked at.
SubmitAgain ==
    /\ On("create") /\ ui.step = "form" /\ ui.form = "content"
    /\ Handler([ui EXCEPT !.submitting = TRUE], <<Call("create", [type |-> ui.selected], ui.nth)>>)

SubmitForm ==
    /\ On("create") /\ ui.step = "form" /\ ui.form = "content" /\ ~ui.submitting
    /\ Handler([ui EXCEPT !.submitting = TRUE], <<Call("create", [type |-> ui.selected], ui.nth)>>)

Idle == On("detail") /\ ui.view = "shown" /\ ~ui.busy

Execute ==
    /\ ui.nth < MaxLoads
    /\ Handler([ui EXCEPT !.busy = TRUE, !.error = FALSE], <<Call("execute", Nothing, ui.nth)>>)

\* The chip of an action: it is executed, or a comment is asked for first.
ClickAction ==
    /\ Idle
    /\ \/ Execute
       \/ Handler([ui EXCEPT !.error = FALSE, !.panel = TRUE], <<>>)

\* The comment panel: a blank comment is refused on the page.
ConfirmComment ==
    /\ Idle /\ ui.panel
    /\ \/ Execute
       \/ Handler([ui EXCEPT !.error = TRUE], <<>>)

CancelComment ==
    /\ Idle /\ ui.panel
    /\ Handler([ui EXCEPT !.panel = FALSE, !.error = FALSE], <<>>)

LogOut ==
    /\ page # "login" /\ On(page)
    /\ token' = 0
    /\ leaving' = "login"
    /\ UNCHANGED <<page, ui, calls>>

\* A link, the address bar or a reload.
Visit(p) == leaving = "" /\ Load(p)

Pages == {"login", "list", "notifications", "create", "detail"}

Click ==
    /\ clicks < MaxClicks
    /\ clicks' = clicks + 1
    /\ \/ SubmitLogin \/ Retry \/ ShowSelectStep \/ SubmitForm \/ LogOut
       \/ ClickAction \/ ConfirmComment \/ CancelComment
       \/ \E f \in Filters : ChooseFilter(f)
       \/ \E t \in Types : OpenFormForType(t)
       \/ \E p \in Pages : Visit(p)
    /\ UNCHANGED <<server, events>>

\* jwt_ttl_hours pass, an administrator changes rows, others act.
Event ==
    /\ events < MaxEvents
    /\ events' = events + 1
    /\ server' \in
         {[server EXCEPT !.expired = server.issued],
          [server EXCEPT !.active = ~@],
          [server EXCEPT !.version = @ + 1]}
         \cup {[server EXCEPT !.role = r] : r \in Roles}
         \cup {[server EXCEPT !.types = (@ \cup {t}) \ (@ \cap {t})] : t \in Types}
    /\ UNCHANGED <<page, leaving, token, ui, calls, clicks>>

\* A tab opened at any address by an employee, with a session or none.
Init ==
    /\ page = "none" /\ leaving \in Pages /\ token \in {0, 1}
    /\ ui = [view |-> "redirecting"]
    /\ calls = <<>>
    /\ server = [expired |-> 0, issued |-> 1, active |-> TRUE, role |-> "employee",
                 types |-> Types, version |-> 1]
    /\ clicks = 0 /\ events = 0

Serve == \E i \in DOMAIN calls : Handle(i)
Listen == \E i \in DOMAIN calls : Hear(i)

Next ==
    \/ Arrive \/ Serve \/ Listen
    \/ \E i \in DOMAIN calls : Lose(i)
    \/ Click \/ Event

\* Pages load, the server answers and the browser runs its handlers; what the
\* user does and what is lost is bound to nothing.
Spec == Init /\ [][Next]_vars /\ WF_vars(Arrive) /\ WF_vars(Serve) /\ WF_vars(Listen)

-----------------------------------------------------------------------------
(* Properties.                                                             *)

\* The rows of the list are those of the chip that is on, whatever answers
\* came late, failed or were retried (requests.js:46 keeps one load at a time).
ListMatchesFilter == On("list") /\ ui.view = "rows" => ui.shown = ui.filter

\* The form shows the fields of the selected type, unless an answer to an
\* earlier selection, given up before it had loaded, came in after this one:
\* request-create-select.js:209 renders it all the same.
FormFollowsSelection ==
    On("create") /\ ui.step = "form" /\ ui.form = "content" /\ ~ui.late
        => ui.fields = ui.selected

\* However often the form is submitted, given up and opened again, no more POSTs
\* are in flight than selections were made: a late failure of an earlier
\* submission switches the button on again, but only in exchange for itself.
SubmissionsBounded ==
    On("create") => Cardinality({i \in DOMAIN calls : calls[i].kind = "create"}) <= ui.nth

\* After an action was executed and its page has loaded again, card, history
\* and actions are all as new as that action, although each is read in a
\* transaction of its own and answers of an older load may still come in.
ReadYourWrites ==
    On("detail") /\ ui.view = "shown" /\ ~ui.busy /\ ~ui.stale
        => \A p \in Parts : ui.shown[p] >= ui.acted

Waiting ==
    CASE page = "login"         -> ui.busy
      [] page = "list"          -> ui.view = "loading" \/ ui.loading
      [] page = "notifications" -> ui.view = "loading"
      [] page = "create"        -> ui.view = "loading" \/ ui.form = "loading" \/ ui.submitting
      [] page = "detail"        -> ui.view = "loading" \/ ui.busy

\* A page with its rows, its form or its error, nothing switched off, that is
\* not about to leave.
Settled == leaving = "" /\ page # "none" /\ ~Waiting

\* Whatever is lost or refused and in whatever order answers come in, the tab
\* settles: no flag stays set, and an expired session or an inactive user ends
\* on the login page, which never sends them round again.
TabSettles == ~Settled ~> Settled
=============================================================================
