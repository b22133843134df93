# Employee Service: TLA+ models and proofs

This directory specifies the Employee Service of this repository: a FastAPI application in which
employees file requests, and approvers decide them along a route of stages configured in the
database. It holds TLA+ modules, TLC configurations and TLAPS proofs. All source paths below are
relative to `src/`.

## 1. The system

### Components

| Component | Code | State | Operations |
|---|---|---|---|
| Action Engine | `app/services/action_engine.py`, `submit_service.py` | `requests.status_id`, `requests.current_stage_id`, `approval_tasks` | `execute_action`: effects `status_only` (submit, reject, return, cancel, generic) and `approve_advance` |
| Requests | `app/services/request_service.py`, `app/domain/request.py` | `requests`, `request_field_values` | `create_draft`, `update_working_values`, list, card, visibility |
| Field validation | `app/services/field_validation.py` | none | canonical form of a value, completeness at submission |
| Notifications | `app/services/notification_service.py` | `notifications` | rows for each executed action, list |
| History and comments | `app/services/history_service.py`, `app/domain/audit.py` | `history_events`, `comments` | appended by every operation, list |
| Configuration | `app/domain/process.py`, `routing.py`, `catalog.py`, `identity.py` | `process_transitions`, `approval_stages`, `stage_assignments`, `request_types`, field definitions, users and roles | written by the seed and by hand; read live by every operation |
| Available actions | `app/services/available_actions_service.py` | none | what a user is offered |
| Authentication | `app/api/deps.py`, `app/services/auth_service.py`, `app/core/security.py` | JWT held by the client | login, `get_current_user` at the start of each call |
| Request page | `app/static/js/request-detail.js`, `api.js` | the loaded card and actions, `actionBusy` | load, click, reload after success |
| Other pages | `app/static/js/login.js`, `requests.js`, `request-create-select.js`, `notifications.js`, `session.js` | the stored token; filter, selected type, flags and visible parts of each page | sign in and out, load, retry, filter, choose a type, create |
| Seed | `app/db/seed.py` | the configuration | one transaction of upserts |
| Schema migrations | `alembic/env.py`, `alembic/versions/` | the schema, `alembic_version`, rows moved between shapes | `upgrade` and `downgrade` of ten revisions |
| Shell | `app/main.py`, `app/db/session.py`, `app/core/` | | page or JSON, a session per call, error codes |
| Stubs, documentation scripts | `approval_service.py`, `scripts/` | none | |

### How they interact

The server serves each call in a thread of its own, with a database session of its own. PostgreSQL,
at READ COMMITTED, is the only shared state. `execute_action` begins with `SELECT ... FOR UPDATE` on
the request's row and ends with one commit that holds the new status, the stage, the tasks, the
history event, the decision comment and the notifications. `update_working_values` takes no such
lock: its first write, `UPDATE requests`, is where it first meets one. The configuration is read
live: nothing of the route is copied into the request but the tasks and the current stage. The page
calls `GET` for the card and the available actions, and `POST` with the id of an action. That call
names no task.

The client is a set of pages, each a script that starts when the page loads, keeps its variables while
it is open and shares nothing with the next but the token in `sessionStorage`. Two programs work on the
database beside the server: `alembic`, one transaction per command, and the seed, one transaction per
run.

### What is hard

* Two approvers of one stage race for one row.
* A PATCH checks the status, then something else happens, then it commits.
* The route, the assignments, roles and active flags change while requests are in approval, and
  between the authentication of a call and its commit.
* Returns and resubmissions pile up rounds of tasks, all of which stay in the table.
* The process dies before a commit, or the answer is lost after it, and the page clicks again.
* Answers reach a page in any order, after the user has moved on, or never; tokens expire between them.
* A migration moves rows through shapes that only exist half way, after commands that may have failed.
* Two seeding runs overlap, and write what they overwrite long after they looked it up.

### What makes it correct

* **Engine**: open tasks belong to the current stage of a request in approval; a request in approval
  has one; the stage column agrees with the status; each decision closes its whole batch of tasks; a
  closed task is final; nobody decides their own request; an approved request was approved at every
  stage; somebody can always decide; whatever changes is recorded in history with it.
* **Notifications, comments**: each task is announced once, each outcome reported; each rejection and
  return has its comment, on the task it closed.
* **Requests**: a partial update leaves other fields alone; edits happen only in draft or returned.
* **Calls**: transactions behave as if atomic; every call ends; a repeated decision is refused; the
  approver who came second learns it.
* **Validation**: the canonical form is a fixed point, a stored value is accepted again at submission
  and still names the catalog item that was chosen, and a stored text is never blank.
* **Pages, authentication**: what is shown belongs to what is selected, and is as new as the action just
  executed; nothing stays switched off; a session that ended leads to the login page and stays there.
* **Seed**: what is committed is what the script says; running it twice changes nothing; nothing is there
  twice; overlapping runs end.
* **Migrations**: the schema depends on the revision alone and ends in the ORM models; no data that the
  next revision needs is lost; the head can be reached whenever the data allows it.

## 2. The modules

### ApprovalEngine

Requests, working values, the Action Engine and what it writes. The variables are tables: `status`,
`stage`, `initiator` are columns of `requests`; `values` is `request_field_values`; `tasks` is
`approval_tasks`; `history`, `comments` and `notes` are `history_events`, decision `comments` and
`notifications`; `config` is the configuration a call would read now; `patch` holds, per worker
thread, what a PATCH has read and not yet committed. `batch` counts the commits that created tasks; a
task is named by its batch and its assignee (the code creates at most one task per assignee in a
batch, because it collects the assignees in a set).

| Action | Code |
|---|---|
| `Create` | `create_draft`: active type, acceptable values, history event |
| `PatchRead` | `update_working_values` up to its first write: ownership, status, validation, loaded rows |
| `PatchCommit` | its flush and commit: rows that differ from what was loaded, unique key, history event |
| `PatchRollback` | `get_db` rolling back after a duplicate key or a crash |
| `Submit` | `_apply_status_only` to `in_approval`: active type, completeness, first stage, its tasks |
| `ApproveNext`, `ApproveFinal` | `_apply_approve_advance` with and without a next stage |
| `Decide` | `_apply_status_only` to `rejected` or `returned`: own open task, comment, task and siblings closed, stage kept |
| `Leave` | `_apply_status_only` to `cancelled`, and its generic branch: the stage is cleared, tasks are not touched |
| `Reconfigure` | an administrator changing the tables; outside the code, except that foreign keys keep referenced stages |

The execution of an action takes the caller's role as a parameter: `ApprovalEngine` passes the current
one. A refused execution rolls back and so is no step here; `EngineCalls` says which error it gives.

Abstractions:

* One request type, hence one route and one process. Requests are independent of each other in
  the code (every query is by request id), so the instances have one request.
* A stage is named by its id and placed by `config.number`, its `sequence_no`, unique on a route and read
  live: an administrator may renumber the stages under a request that waits at one of them (`Precedes`).
  The bound: once a request has `MaxEvents` events the numbers stay.
* A field value is a member of `Vals`, SQL NULL (`Null`) or no row (`NoRow`); `config.accepts[f]`
  are the values that validation lets through.
* A role is a value of `RoleCode`. `execute_action` compares role ids, one per code.
* `PatchRead` reads the status and the rows in one step; the code reads them in consecutive queries
  without a lock. An interleaving between those queries has the effect of one before or after
  both, except that the two reads may differ in age; the violations shown need no such difference.
* Timestamps, texts, names and the read flag are left out.

Assumptions on the constants: the configurations are well-typed, and their matrices
(`WellFormedMatrix`) leave `in_approval` only by an effect that closes tasks, and do not end an
approval in a status that keeps its stage. The code does not check either; the seeded matrix
satisfies both, and without the first, `_apply_status_only` at line 225 leaves open tasks on a
request that is no longer in approval. `update_values` is not an action code, as in `ACTION_SPECS`.

* An inactive row of `process_transitions` or `roles` is taken as absent.

### RequestLifecycle

The abstract promise of one request, without stages, tasks or configuration: `pending` is the set of
users who are asked to decide, `decided` those who have. A request is filed, asked of a nonempty set of
users, and then either passed on to another set or concluded, each by a single decision of one of those
asked other than the initiator; outside an approval the status may move by itself. `ApprovalEngine`
implements it (`KeepsLifecycle`) with

| Abstract variable | Detailed state |
|---|---|
| `status`, `initiator` | the columns of those names |
| `pending` | assignees of the request's open tasks (`Pending`) |
| `decided` | actors of the decision events in history (`Decided`) |

so that the tasks table and the history table, written by different code, must agree at every step. The
steps of a PATCH and of an administrator stutter, except that a PATCH event never counts as a decision.

### FieldValidation

One field: what a save stores for a text that the user gave, what `validate_submit` makes of the stored
text later, and the dictionary in between. A text is a sequence of characters, over one representative
of each class the code tells apart: blank, sign, decimal digit, a digit `str.isdigit` accepts and `int`
does not (superscript two), a letter in either case.

| Definition | Code |
|---|---|
| `IsBlank`, `Strip` | `_is_missing` and the same test of `_validate_and_normalize_values`; `str.strip` |
| `IsIntegerString`, `IntAccepts` | `_is_integer_string`, and what `int` does with such a string |
| `ValidateCatalog`, `Find` | `_validate_catalog_value`: lookup by id among active items, then by code |
| `Validate` | `validate_field_value`, its branch per data type |
| `Save` | the value as `create_draft` and `update_working_values` write it |
| `Submit` | `validate_submit` on the stored value |
| `Administer` | outside the code: an item is renamed, deactivated or activated; codes are unique |

Items of other dictionaries are like inactive ones (the lookup filters by both). A catalog field
without a dictionary is a configuration error and left out. The word "true" is one character here.
`StoredIsPresent` and `SavedIsCanonical` are why `ApprovalEngine` may have a value as an atom that is
either accepted or not, and count a value as missing exactly when its row is missing or `Null`. A
`number` field accepts superscripts as well, and stores them; a `catalog` field fails on them (section
3, deviation 5).

### EngineCalls

Extends `ApprovalEngine`: the same tables, with pages and sessions on top. `call` holds one record per
open page: its phase, its user and request, the action of the clicked button, the tasks its user had
open when it was loaded (`about`), the tasks its calls completed (`took`), the role the session
captured, the transaction it has prepared (`plan`) and the error it got. `lock` is the row lock.

| Action | Code |
|---|---|
| `Open` | `loadDetail` (its three GETs as one step), `list_available_actions` and `can_view_request` |
| `Click` | `executeAction` up to its `fetch`; `actionBusy` lets a page have one call at a time |
| `Authenticate` | `get_current_user`: the role and the active flag are read here and used to the end; a 401 sends the page to the login |
| `Prepare` | from `_lock_request` to the last read: the effect's decisions, kept in `plan` |
| `Commit` | the flush and the commit of exactly that plan, and the release of the lock |
| `Refuse` | an error and the rollback; `Refusals` are the error codes it may give, in the order of the checks |
| `Crash` | the process or connection dying before the commit; the database rolls back |
| `Answer`, `LoseAnswer` | the page reloads, or the answer or the reload fails and the old buttons stay |
| `Close` | the user leaves |
| `Edit` | `Create` and the PATCH steps of `ApprovalEngine`, the commit of a PATCH waiting for the row |
| `ReconfigureBesides` | configuration changes between any two of these steps |

All reads of one execution are one step, `Prepare`: under READ COMMITTED a configuration change may
also fall between two of them. The lock covers all reads of the request and its tasks, so only
configuration rows could be torn, and each of the engine's effects reads the route and its
assignments by separate queries anyway, as changed rows of the same stage.

The page sends a comment with `reject` and `return` and with nothing else (`SentWithComment`): an
administrator who lets another action reject or return gets `COMMENT_REQUIRED`. Whether an action that no
live row names is still an active one is left open: `ACTION_NOT_FOUND` is one more refusal of it.

### SchemaChanges, DomainModels, Migrations

`SchemaChanges` is external: what PostgreSQL does with the statements of `op.*`, over a database of tables
(typed columns, foreign keys, checks, named indexes) and enums. `Accepts` is what it refuses: a table
that others refer to, a key of another type, a type in use, a name that is taken. An index carries the
name it was created with, which a renamed table keeps. A statement after a failed one does nothing.

`DomainModels` is the ORM classes of `app/domain` in that vocabulary, one definition per class.

`Migrations` translates the ten revisions, `Up1` to `Up10` and `Down10` to `Down1`, each a sequence of
statements around the rows it moves. Of the rows it keeps what revisions decide on: the roles of each
user, the request types with their routes, stages and assignments, the codes of processes and statuses,
which runtime tables hold rows, and the event types of notifications.

| Action | Code |
|---|---|
| `Upgrade(to)`, `Downgrade(to)` | an `alembic` command to any revision; `env.py` opens one transaction, so `Commit` takes all revisions of the command or none |
| `LegacyUse` | external: the first application fills the database it was written for |
| `Serve` | today's application files a request and notifies about it |
| `Remap` | the way out that the refusal of 0010's downgrade names |

What reading the revisions side by side shows, and the model keeps:

* 0005 refuses a database with a user without roles, and forgets which role an assignment named; 0006
  then refuses such an assignment by its check. A route assigned by role cannot be migrated.
* 0006 makes the code of a type from its name, and refuses two types of one code; a route without stages
  is not read back. Dictionaries, items and fields are read and written back too and are not kept in the
  model: old and new tables have the same keys and checks, so those inserts never fail, and no revision
  decides anything by them. 0006's and 0007's downgrades restore empty tables, as their docstrings say.
* The `boolean` of `FieldDataType` is in no revision: a field of that type cannot be stored, which
  `HeadMatchesModels` excepts by name.
* 0003 truncates with CASCADE, which also empties the snapshot tables it is about to drop.
* Revision 5 has one shape when reached from below and another from above (`Shape`): the checks on
  assignments went with the dropped column and come back with the recreated table.
* No downgrade crosses 0005 (section 3, violation 3).

Left out: column defaults, nullability and delete rules, and the people's names, departments and
employees that 0005 makes of profile columns.

### Seed

Runs of `python -m app.db.seed`, each a session that walks through `Script`. An item of the script is a
lookup by a key and parents, then either an insert with a flush, or an overwrite in the session.

| Action | Code |
|---|---|
| `Start`, `Commit`, `Refused` | `main`: a session, its commit, its rollback on IntegrityError |
| `Reuse` | the `else` branch of an `_ensure_*`: fields set on the loaded row, not yet flushed |
| `Miss`, `Flush` | its `if` branch: `session.add`, `session.flush`, which also writes what is pending |
| `Die` | external: the process or connection dies |
| `Edit`, `Assign` | external: an operator's SQL on the live configuration, between runs or during one |

The factory sets `autoflush=False`, so a lookup does not write what is pending; the model would be another
if it did. PostgreSQL's part is `Visible` (committed rows and one's own), `Waits` and `SameKey`: a flush
waits for a row or key another run has written and fails on one that was committed. `Unique` reads the
keys from `DomainModels`, where `Department` has none.

`Over` and `Put` are the overriding of one function by another, which the provers know under no name
of the library's. The lookup of a stage's assignment (line 442) names the stage alone: if an operator has assigned a
second user, the run may overwrite either row (`Matches` is a set). Values are `"demo"` or not;
password hashes are left out. README.md of the repository says that only they change for existing
users when `DEMO_PASSWORD` is set; the code also resets role, employee and the active flag.

### Portal

One browser tab: `page` and `leaving` (what `window.location` was set to), `token` in `sessionStorage`,
`ui` the variables and visible parts of the page's script, `calls` what it has in flight; `server` holds
the rows that matter. EngineCalls looks into an execution; here it is one step.

| Action | Code |
|---|---|
| `Arrive`, `Visit` | a page loads: `HtmlPageGateMiddleware` serves it, its script runs to its first `await` or leaves again (without a token; on the login page, with one) |
| `Serve` | a call is handled: `get_current_user`, `require_roles`, the route (`Outcomes`) |
| `Listen` | the page hears an answer: `apiFetch`, then the `then` or `catch` of the handler (`Heard`) |
| `Lose` | ERR_NETWORK instead of an answer |
| `Click` | submit the login, choose a filter or a type, go back, create, retry, act, comment, log out, go elsewhere |
| `Event` | tokens expire; user, role, types or the request change |

Texts, lists and fields are their identity: the filter or the type they were asked for, the version of
the request they were read at. The edit controls, which the page keeps hidden, are left out. The comment
panel is there with its chip, its confirmation (a blank comment is refused on the page) and its
cancellation, which like the chip clears a shown error and loads nothing; so whether the page is behind
its last action is not what the error says but a history variable, `stale`: a load after an action has
failed, and none has been rendered since. The page shows a form that was asked for earlier when that answer comes late
(`request-create-select.js:209`, flag `late`): `FormFollowsSelection` says that this is the only way to
a wrong form. Likewise a failed POST of a form given up switches the button of the next one on again;
`SubmissionsBounded` says what remains true.

### The proof modules

| Module | Extends | Proves |
|---|---|---|
| `EngineStepProofs` | `ApprovalEngine` | what a committed execution does to the rows of its request, wherever it read its stage and assignees from (`StepSpec`), and the engine's invariant for it |
| `ApprovalEngineProofs` | `EngineStepProofs` | `Spec` takes those steps; what needs the live configuration: `Decidable`, `ApprovedByEveryStage`, `ExecutedWasVisible`; the refinement of `RequestLifecycle` |
| `HistoryProofs` | `ApprovalEngineProofs` | history against tasks and batches |
| `OutcomeProofs` | `HistoryProofs` | comments and notifications |
| `EngineCallsProofs` | `EngineCalls`, the above | the transactions of `EngineCalls` take those steps too; under a configuration that stays, they implement `ApprovalEngine`, and on a route of one stage the second approver learns that the task is done |
| `FieldProofs` | `FieldValidation` | stored and chosen values |
| `PortalProofs` | `Portal` | list, form, request page, submissions |
| `SeedProofs` | `Seed` | what a run installs, what a rerun changes, what overlapping runs add twice |

See section 5.

### MC modules

Instances: an employee `emp` and two approvers `a1`, `a2`, the matrix `SeedMatrix` of
`TRANSITION_SPECS` in `app/db/seed.py` and a variant with rework, and sets of configurations; a dictionary of two items
whose codes may be letters or look like the id of either. `MCMigrations` holds contents the first
application may have left, one for each way a revision stumbles. `MCSeed` holds a fresh database, a
migrated one and a seeded one that has lost catalog entries, and a cut of the script to one item of every kind with all that it refers to.

## 3. The runs

| Run | Asks | Bounds |
|---|---|---|
| `engine_stable` | Under each of six configurations that stay: types, comments, notifications, approval by every stage, somebody can decide | 1 request, history up to 9 events: two full rounds of two stages with a return and a rework |
| `engine_live` | The same lives while stages, their order, assignments, roles and the type change at any time: tasks, stage, decisions, self-approval, history, finality of tasks, visibility; the abstract lifecycle | 6 events: a return and a second round, with configuration changes between all steps |
| `engine_patch` | Two PATCH calls, each on one or both of two fields, against each other and the engine | 3 events besides those in flight: both calls overlap each other and a submission |
| `patch_window` | (violated) edits only in draft and returned | as above, one field |
| `calls_stable` | Locked transactions, crashes, lost answers and a PATCH implement `ApprovalEngine!StableSpec`; every call ends; the approver who came second gets `TASK_DONE` on a one-stage route | 2 pages, 1 PATCH worker, 4 events, 1 click per load |
| `calls_live` | Configuration changes inside a call | 2 pages, 4 events, 2 clicks |
| `calls_repeat` | (violated) a repeated decision is refused | 2 pages, 5 events |
| `fields` | What is saved is canonical, accepted again and of the item that was chosen; a stored text is not blank | texts of up to 2 characters out of 9, 2 items, every data type |
| `migrations` | Every sequence of commands between any two revisions: schema by revision, head as the models, head reachable exactly from sound data, configuration survives | 3 databases of users by 6 of types, all 11 targets; nothing else is bounded |
| `migrations_downgrade` | (violated) a downgrade refuses nothing but the documented event types | as above |
| `seed` | What a run installs, what a rerun changes, no duplicates but departments, overlapping runs end | 2 runs, 18 items, 1 edit, a fresh, a migrated and a seeded database |
| `portal` | Rows of the filter, form of the type, bounded submissions, reads as new as the last action, the tab settles | 6 clicks, 3 loads of a detail page, 1 lost call or change on the server, 2 types, 2 filters, 2 roles |

`MaxEvents` bounds the history of a request: beyond it initiators stop acting (in `EngineCalls` no
page clicks). `MaxClicks` bounds the clicks on one loaded page. Two pages are enough for every race of
two sessions; a third would wait for the same lock. `CHECK_DEADLOCK FALSE` is set because the bounded
system stops, and a request may really end: approved and cancelled have no transition.

Two characters are enough for a sign or a blank before a digit, for a leading zero and for a digit
that `int` refuses. One PATCH worker is enough for a row that waits for the lock of an execution, and
`engine_patch` has two: besides that the fields it omits stay, a value a PATCH was given is lost only
where another PATCH updated the same row after this one had loaded it (`OnlyStaleWritesLost`); one that
comes second with the insert of a row ends without leaving a value or an event behind.

In `seed`, two runs are what it takes to wait for each other; the cut keeps an item of every table and
reference, and the rest of the script repeats them. On a migrated database the first flush locks the
roles, so the second run waits early and then finds everything; only on the seeded one, where nothing is
overwritten, do two runs miss the same dictionary item and the second is refused. A database that has lost
an assignment, a transition or a dictionary and nothing before it is left out: none of them has a unique
key, and two overlapping runs would insert each twice, as they do departments. `Led` says exactly which
contents are meant; it is the hypothesis of `OnlyDepartmentsDouble`, and TLC evaluates it on the three
databases. In `portal`, six clicks reach a second selection, a
second load and a return to a page after each kind of refusal; one loss or change is enough to end a
session or to separate two reads, and `CHECK_DEADLOCK FALSE` is set because the tab may rest. `migrations`
and `seed` are checked for deadlock.

The three violations are disagreements of the code with its documents:

1. `patch_window`: `update_working_values` promises "draft|returned only" (BR-19), but commits to a
   request that was submitted after its check. The new values were never validated as complete and the
   history shows `draft -> draft` after the submission.
2. `calls_repeat`: NFR-REL-02 promises that a repeated decision changes nothing; a repetition after a
   lost answer decides the next stage if the same approver is assigned there.
3. `migrations_downgrade`: the downgrade of 0005 documents a "Best-effort restore" of the first roles, but
   creates `roles` while the renamed table still owns `pk_roles` and `uq_roles_code`: it always fails.

Three more follow from the modules and have no run of their own:

4. A PATCH whose value equals the one its session loaded writes nothing over a newer value and still
   answers 200: the case that `OnlyStaleWritesLost` excepts.
5. `validate_field_value` documents "Return canonical string value or raise VALIDATION"; a catalog field
   given a superscript digit passes `isdigit` and then fails in `int` with a ValueError, which the service
   answers as INTERNAL (`Failed` in `FieldValidation`).
6. AC-APP-09 promises the second approver `TASK_DONE` also when the next stage was created; the code looks
   on the current stage only, and answers `FORBIDDEN_APPROVAL`. On a route of one stage the promise
   holds: `LoserGetsTaskDone` is checked there, and proved (`LosersAreTold`).

What some of the properties do not say:

* `Decidable` is about a stage to which an active approver is assigned, by name or by role, whoever else
  is: that approver is asked and may decide. A stage assigned only to people who cannot act waits for
  ever in the code, since assignments by user look at no role and no active flag.
* `OpenTasksAtCurrentStage` holds of matrices that are `WellFormedMatrix`; with another row the code
  leaves tasks open (section 2).
* In `engine_live` an execution is one step, so `ChangesAreRecorded` is about what one commit holds. That
  nothing is left of a transaction that dies before it is what `CallsRefineEngine` adds. Likewise the role
  in `ExecutedWasVisible` is the present one; sessions that work with an older one are in `calls_live`,
  for self-approval, decisions and prepared reads.
* `FormFollowsSelection` and `SubmissionsBounded` except what the code does wrong: the late form, and one
  more POST for every selection that was given up.
* `ChosenItemKept` excepts an item that was deactivated while its id is the code of another one, which the
  lookup then finds.

## 4. Fairness

`CallsSettle` (in `calls_stable`): the server keeps working on a call it has received, weak fairness of
`Authenticate`, `Commit` and `Answer`. PostgreSQL grants a row lock in queue order: strong fairness of
`Prepare \/ Refuse`, which other sessions disable again and again. It is checked under a configuration
that stays, since it does not depend on it.

`RunsEnd` (in `seed`): weak fairness of each run's steps. A started script keeps running, and a flush that
waits for a row goes on once the other run has ended; weak fairness is enough because with two runs
nobody else can take the row then. Nothing makes a run start or die.

`TabSettles` (in `portal`): weak fairness of `Arrive` (a navigation the browser has begun ends), `Serve`
and `Listen` (the server answers, handlers run). A call that is lost is heard as an error, as `fetch`
rejects; a server that never answered and a connection that never broke would leave a page waiting, as
the code sets no timeout.

Nothing is assumed of users: clicks, closing, administration, losses and crashes may never happen.

## 5. The proofs

Every theorem is for all values of the constants: any users, requests, fields, configurations (finitely
many stages each, `WellFormedMatrix`), workers, pages, bounds, texts of any length, items, types, filters
and any version of the request.

| Theorem | Statement | Run |
|---|---|---|
| `TypeCorrect` | `Spec => []TypeOK` | `engine_stable` |
| `StepInvariant`, `EngineInvariant` | `[]EngineInv` of `StepSpec`, of `Spec` | |
| `OpenTasksConsistent`, `ApprovalHasTask`, `StageConsistent`, `SelfApprovalExcluded` | the conjuncts of `EngineInv`: `OpenTasksAtCurrentStage`, `InApprovalHasOpenTask`, `StagePresence`, `NoSelfApproval` | `engine_live` |
| `ClosedTasksImmutable`, `AuditComplete` | `Spec => ClosedTasksStay`, `ChangesAreRecorded` | `engine_live` |
| `OmittedUntouched`, `WritesLostOnlyIfStale` | `Spec => OmittedFieldsStay`, `OnlyStaleWritesLost` | `engine_patch` |
| `StepHistories`, `HistoryComplete`, `OneDecisionPerBatch` | `[]HistoryInv`; `HistoryExplainsStatus`, `DecisionsCloseBatches` | `engine_live` |
| `AlwaysDecidable` | `StableSpec => []Decidable` | `engine_stable` |
| `RouteCompleted` | `OnlyAdvanceApproves` gives `StableSpec => []ApprovedByEveryStage` | `engine_stable` |
| `RefusalsCommented`, `NotificationsComplete` | `NamedActions` gives `Spec => []DecisionsCommented`, `[]EveryoneNotified` | `engine_stable` |
| `ExecutorsCouldSee` | `ApproversDecide` gives `Spec => ExecutedWasVisible` | `engine_live` |
| `StepsImplementLifecycle`, `EngineImplementsLifecycle`, `CallsImplementLifecycle` | `StepSpec`, `Spec` and `CallsSpec` implement `RequestLifecycle` (`KeepsLifecycle`) | `engine_live` |
| `EngineTakesSteps`, `CallsTakeSteps` | `Spec => StepSpec`, `CallsSpec => StepSpec` | |
| `CallsInvariant`, `PreparedReadsStay` | `CallsSpec => []CallsInv`, `[]PreparedReadsHold` | `calls_live` |
| `CallsKeepTasks`, `CallsExcludeSelfApproval`, `CallsDecideOnce` | the engine's invariants with sessions, crashes and configuration changes inside a call | `calls_live` |
| `CallsStayUpToDate`, `CallsImplementEngine` | `StableCallsSpec => []StableInv`, `StableCallsSpec => CallsRefineEngine` | `calls_stable` |
| `RefusalsAreExplained`, `LosersAreTold` | `DecidedInOneRound` gives `StableCallsSpec => []LoserInv`, `[]LoserGetsTaskDone` | `calls_stable` |
| `FieldInvariant`, `PresentIsSolid`, `ChoiceKept`, `SavesAreCanonical` | `[]FieldInv`; `StoredIsPresent`, `ChosenItemKept`, `SavedIsCanonical` | `fields` |
| `TabInvariant`, `ListInvariant`, `RowsOfTheChip` | what runs on a page; `ListMatchesFilter` | `portal` |
| `CreateInvariant`, `FormOfTheType` | `FormFollowsSelection` | `portal` |
| `DetailInvariant`, `ReadsOwnWrites` | `ReadYourWrites` | `portal` |
| `PostsInvariant`, `PostsOfSelections` | `SubmissionsBounded` | `portal` |
| `SeedInvariant`, `RunsInstall` | `Spec => []SeedInv`, `SeedInstalls` | `seed` |
| `RerunInvariant`, `RerunsChangeNothing` | `Tidy` contents give `Spec => []RerunInv`, `RerunChangesNothing` | `seed` |
| `OnceInvariant`, `OnlyDepartmentsDouble` | `Tidy` and `Led` contents, `FirmParents`, give `Spec => []OnceInv`, `[]OnlyDepartmentsTwice` | `seed` |

### Assumptions

The constants have the named assumptions of the modules. `ConfigsAssumption` says that every configuration
is well-typed, has finitely many stages (what a table can hold) and a `WellFormedMatrix`.
`LocksAssumption` says that a free lock is nobody's; `MarkersAssumption` that the outcomes of a validation
are not values; `FiniteAssumption` that pages and workers are finitely many, which `InFlight` needs to
count; `ScriptAssumption` that the items of the seed that a check keeps come once and after those they
refer to; `InitialAssumption` that what a run finds is rows, none of them by a run. TLC evaluates all of
them.

Some theorems have a hypothesis about the rows of `process_transitions`, because the code keys on
names and roles that an administrator may write:

* `NamedActions`: rows that approve are called `approve`, rows to `in_approval` `submit`, rows that refuse
  with a comment `reject` or `return`. The code decides by the action's code whether there is a comment and
  who is notified, and by the effect what happens.
* `OnlyAdvanceApproves`: only an `approve_advance` row leads to `approved`. A `status_only` row would go
  there by the generic branch, asking nobody.
* `ApproversDecide`: what an approver may execute takes a task, and no row is for the administrator, who
  sees no request.

* `DecidedInOneRound`: the route has at most one stage, and an action called `approve` is the approvers'
  and advances. With a second stage the theorem is false (section 3, deviation 6).

`TRANSITION_SPECS` of the seed is such a matrix. `NamedConfigs` and `SeedLikeConfigs` in
`MCApprovalEngine`, which TLC evaluates, say so of every configuration the engine's runs use, and `OneRoundConfigs` in
`MCEngineCalls` of those of `calls_stable`.

The theorems about reruns and doubles of the seed have one about what the first run finds:

* `Tidy`: an item is there once, with the parents the script looks it up by. Otherwise a rerun may
  choose, as it does between two departments, and move what hangs on them.
* `Led`: the first item that is missing has a unique key, or is a department before which the script has
  overwritten some row. A new database, a migrated one and a seeded one that lost catalog entries are like
  that; one that has lost only a transition is not, and two runs would each insert it.
* `FirmParents`, of the script: no item is looked up by a department or an assignment.

`WholeScriptInOrder` and `InitialIsLed` in `MCSeed` say so of the whole script, not only of the cut, and of
the three databases.

### The engine

The theorems about the engine are layered. `EngineStep` keeps of an execution only what it does to the
rows: which rows of the matrix it follows, that it closes an open task of its actor and the other open tasks
of that stage, that it asks a nonempty set of users at some stage. `StepSpec` is the engine made of these
steps. An execution of `ApprovalEngine` is one of them under whatever configuration is live
(`EngineTakesSteps`); so is a commit of `EngineCalls`, though the configuration may have changed since it
was prepared (`CallsTakeSteps`). What is proved of `StepSpec` therefore holds of both.

`EngineInv` is the types, that open tasks belong to the current stage and the latest batch, that a request
in approval has an open task, that the stage is set exactly in three statuses, that nobody decides their own
request, and that requests not yet created have no tasks. None of these is inductive alone: that a
submission finds no open task needs the first for a request that is not in approval; that a decision
closes *all* open tasks, hence may leave `in_approval`, needs that they are all on the current stage,
which is where siblings are looked for; that a rejection keeps the stage needs `StagePresence` before it;
and `NoSelfApproval` needs the check at the moment of the decision and that a closed task is never touched
again. Batches are bounded by the counter, so new tasks are distinct from all old ones: this is what makes
`ClosedTasksStay` hold when a round is repeated.

`PatchesSeen` says that a PATCH in flight read its status in draft or returned, on a request that is there:
the event it appends is no decision. For the PATCH properties the types are enough, since what a worker has
loaded is compared with the table at the commit.

`HistoryInv` adds that a batch is undecided exactly while it is the latest of a request in approval, and
then all its tasks are open; that the last event led to the present status; and that the n-th decision in
history decided the n-th batch, so there are as many decisions as decided batches. The counting is what
makes it inductive: a decision appends one event and closes one batch, and an event of a PATCH is no
decision. `CommentsInv` and `NotesInv` add that comments and notifications belong to events of the history
(`NotesExplained`), so a new one is distinct from all there are.

Under a configuration that stays, `StaffingInv` says that the users asked to decide are assigned to their
stage and that initiators have the role of an employee, which an approver does not have: so whoever is
asked may decide, and everyone assigned to that stage has been asked (`ExecuteAsksAll`), whoever the
others are. A stage that has later ones has a next one, the one of the least number above
(`LeastNumber`, from the well-founded order of the numbers). `RouteInv` says that the stages before the current
one were approved in order, the stage x in the batch that is as many before the latest as there are stages
between; it is why `ApprovedByEveryStage` counts batches. That number grows by one with each advance,
because there is no stage between one and the next; this is where stages must be finitely many.

`ExecutedWasVisible` is about executed actions (`ActionCodes`); the visibility of a PATCH is its check of
ownership.

The refinement of `RequestLifecycle` has one lemma on what a decision does to the set of pending users
(`PendingAfterDecision`: its closed batch leaves exactly the new one), one on what an appended event does to
the set of deciders (`DecidedAfter`), and one for each step that names the abstract step it takes.

`CallsInv` adds to `HistoryInv` that a prepared transaction has the lock of its request and that its plan
still follows from the rows of that request: the status it leaves, an open task of its actor as the one
it completes, all other open tasks of that stage as siblings. It is kept because everyone who writes these
rows first needs the lock, a PATCH included, and a request that is being created has none. The
configuration is not part of it.

`StableInv` is what it takes to show that, under a configuration that stays, the commits also meet the
guards of `StableSpec`: that the plan is not merely harmless but what `execute_action` would decide at the
moment of the commit. A session that has authenticated works with the role its user has, and a prepared plan
is still in `Executable` (`UpToDate`). It is kept because `Executable` depends on the rows of one request
and the configuration only (`SameReads`, `SameExecutable`), and whoever writes these rows needs the lock:
the values too, which the submission has validated, are written by `PatchUpdate`, which waits for it.
`PlanExecutes` then goes through the kinds of plans and names the action of the engine each commit is.
The bound of the model needs an argument of its own: `Execute` is guarded by `Fresh`, `Commit` is not,
because a click asks for `Room`. `WithinBound` says that the events of a history and what is in flight for
it are together within `MaxEvents`, and the proof counts sets (`BoundLasts`, `BoundTakes`).

`LoserInv` is what an approver's page and the tables know of each other on a route of one stage: while a
page with the approve action is open, its user keeps the role (the configuration stays), there is a
row of the matrix by which an approver may approve, and the task the page showed is still in the table,
open or closed. So when the call is refused, it is not for the transition and not for want of a task:
had the user an open one on the current stage, `Executable` would not be empty. What remains is a task that
is closed, and it is found because `MissingTask` looks at the current stage and there is no other
(`StagesExist`: the stage of a task and of a request is one of the route).

### Fields

`FieldInv` says that a stored text is not blank, and that a catalog choice is one item, whose name is what
is stored. A save keeps it because each branch of the validation returns a text that begins and ends with
a solid character, stripping which is the identity, and for integers because reading its own decimal form
is; deactivation and renaming keep it because they touch no id. The lookup by id comes first, so an active
chosen item is found whatever the codes are, and an inactive one leaves only a code that equals its id. Texts are of any length up to the constant `MaxLen`.

### Pages

`TabInv` says which variables a page's script has and which kinds of calls it can have in flight, and that
a page that is being left has none. The other invariants need it to know who may answer.

`ListInv`: a load is the only call in flight and asks for the filter that is on, because a chip is dead
while one runs. `CreateInv`: a schema asked for the selection that is open (by its number) is of the type
that is selected; older ones may be in flight too, and only set `late`.

`DetailInv` is about the number of the load, which the handlers compare. Each part of the current load is
asked once and, while it is under way, not yet got; what is got, and what was read by an answer that is on
its way, is no older than the last action the page executed, which is no newer than the server; an execution
is alone with a page that shows all, is busy and loads nothing; names are in flight only when all parts
are there and nothing is shown; and a page at rest has no load that is current. The last two are what makes
an execution find no reads from before it that could count. What is shown is up to date, unless `stale`,
not only at rest but also while an execution is under way (`UpToDate`): a refused one brings the page back
to rest as it was.

`PostsInv` counts: the POSTs in flight, plus one if the form may still be submitted, are at most the
selections. An answer takes its call out of the sequence, so the positions move; `Old(i, j)` is the
injection from the new positions to the old, and the counts are cardinalities.

### Seed

`SeedInv` says that what a run has looked up stays visible to it; that what it wrote and has not committed
is the script's or what is there, in rows no other run has written; and that, while nobody edits, each
item it has passed is as scripted in what it sees, or will be when it flushes what is pending
(`SeesScripted`). Only the last is what `SeedInstalls` needs, and it is not inductive alone: another run's
commit overwrites committed rows under the one that looked them up, and does no harm because it writes what
the script says (`Faithful`) and not into a row that is locked; and a flush writes fields over the rows as
they are now, not as they were loaded. Most of the module is one lemma per step on what it leaves alone in
the other runs (`StepLeaves`).

`RerunInv` is about histories in which no two runs have overlapped and nobody has edited (`Serial`). Items
are there once, so links that name the right items are the right links (`SameRows`); after the first
commit all items are installed, so a later run misses none and finds nothing to overwrite. `Flags` says
that `alone` records what it should: two runs at work are both marked.

`OnceInv` is about overlapping runs, and has two phases. Before the first commit, let the k-th item be the
first that is missing. At most one run has flushed anything: a flush adds the k-th item before any other,
and a second run that misses it waits for its unique key or, if it is a department, for the j-th row, which
it has overwritten like everybody and must write in the same flush (`Ahead`). All that hangs on `Led`.
After the first commit every item is there, and a run that misses one nevertheless has missed it before: it
is the k-th, so it is refused by its key or is a department (`Behind`). That the parents of an item have one
row (`Kempt`, `FirmParents`) makes a lookup by them find the item that is there.

### Only model-checked

* Liveness: `CallsSettle`, `RunsEnd`, `TabSettles` (fairness and ENABLED are beyond the prover).
* `Migrations`: `HeadMatchesModels`, `SchemaByRevision` and `HeadReachable` compute with a fixed sequence of
  statements, which TLC runs completely; `ConfigurationSurvives` speaks of the rows alone, but of what folds
  over statements and revisions leave of them, which takes induction over data.
* `EditedOnlyWhileEditable`, `RepeatIsRefused` and `DowngradeRefusesOnlyEvents` do not hold (section 3).

## 6. Plan

1. *(done)* `ApprovalEngine`, its instances, runs and first theorems.
2. *(done)* `EngineCalls` with refinement and liveness.
3. *(done)* `RequestLifecycle`, refined by `ApprovalEngine`: checked and proved.
4. *(done)* `FieldValidation`: canonical forms, catalog lookup, completeness at submission.
5. *(done)* `Migrations` with `SchemaChanges` and `DomainModels`; `Seed`; `Portal`.
6. *(done)* Proofs: the history in the invariant; the PATCH properties; comments, notifications, routes and
   visibility; `EngineCalls` by the steps of the engine and as a refinement; `FieldValidation`; `Portal`.
7. *(done)* Proofs: the second approver on any route of one stage; the runs of `Seed`.

## 7. Not modelled

* The routes of approval tasks (`approval_service.py`) and `add_free_comment`: they refuse every call and
  change nothing. `health.py` and `me.py` only read.
* Rendering, response shapes, texts and configuration loading: no state.
* The order of the history list: it sorts by the time a worker took before its flush, so a PATCH that
  waited for the row is listed before an action that committed first. The models have no clock.
* The documentation scripts: no part of the running system.
* `Migrations` and `Seed` run beside a serving application in no model: the repository describes them as
  steps of an installation.
