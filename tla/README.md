# SchemaSprint: formal models, model checks and proofs

SchemaSprint is a training site for database design.  A member reads a daily
problem, draws a schema, and submits it; the server grades the submission with
static rules and an external judge, and sells or gives textual feedback on it.
Administrators write, validate, approve and publish problem versions.  The
program is a FastAPI service over PostgreSQL (`src/backend`, `src/db`), a Rust
core for validation and scoring (`src/rust/core`), a React application with an
IndexedDB store (`src/frontend`) and a Cloudflare gateway (`src/infra`).

This directory holds TLA+ models of the parts of that program that have
behaviour over time, the TLC configurations that check them, and TLAPS proofs
of their safety for instances of any size.  Paths below are relative to the repository.

## 1. Inventory

| Component | State it keeps | Operations | What is hard | What makes it correct |
|---|---|---|---|---|
| Idempotency envelope (`learner_routes.py:_idempotent`) | `private.idempotency_records` | claim, replay, refuse, undo around an action | claim and undo are separate transactions; crashes and lost commits between them | one execution per key, replay equals the stored result, no claim outlives its request |
| Submissions (`learner.py: create_submission, get_submission`) | `public.submissions` and result rows | find, read under row security, insert, replay | seven transactions; access changes between them | a key is bound to one submission for good; refusals are truthful |
| Assessment (`learner.py`, `jev.py`, Rust `assess`, triggers) | none until commit | static rules, external judge with retries, scoring, database re-check | retries, timeouts and errors the loop does not catch; two computations of one verdict | a pass is earned; full marks exact; nothing is rolled back at commit; grading ends |
| Drafts (`put_draft`, `delete_draft`, `WorkspacePage` load and save, `SchemaEditor`, `cache.ts`) | `public.workspaces`; browser stores `drafts`, `conflicts`; the page's draft and the editor's text | load, save under compare-and-swap, conflict copy, delete | several tabs that share a store; loads under an open editor; lost and late requests; revisions that restart | no stored text is lost; no save between a page's copy and its request is lost; no unseen text is overwritten |
| Feedback (`request_feedback`) | `feedback_requests`, `jobs`, `feedback_versions` | quota, reserve, generate, settle | check and reservation are two transactions; failures at each step | quota once; job, request and answer agree; every failure settles its reservation |
| Publication (`admin.py`, `problems.py`, triggers, policies) | `problem_versions`, `admin_approvals`, `publication_calendar`; the pages members have open | create, replace, validate, approve, publish; show a problem, submit from it | approvals read without a lock; members read in several transactions, from pages of any age | only sound, approved content is published; what is submitted is what was shown; a refusal has a cause; corrections take nothing away |
| Library and dashboard (`learner.py: list_problems, dashboard`, `ProblemsPage`) | the list on the page, its signed cursor, the requests under way | list by filter, load more, count | the calendar moves under the list; answers overlap | a list neither skips a problem nor, without a double request, repeats one |
| Offline queue (`cache.ts`, `WorkspacePage submit/flushQueue`) | IndexedDB `queue` | queue, claim under a lease, acknowledge, fail | several tabs; expired leases; read-then-write of a failure | queued work is kept until stored; the queue settles |
| Sessions, OAuth, onboarding (`database.py`, `app.py`, `oauth.py`, `learner.py`) | sessions, attempts, allowlist, acknowledgements, ages; cookie and CSRF token of each tab | start and finish sign-in, log out, list policies, acknowledge | attempts consumed once; tabs that share a cookie; policies that become required between list, check and commit | one attempt, one session; nothing acknowledged unseen; a complete form is heard |
| HTTP limits (`http_security.py`, `app.py`) | two LRU caches of token buckets | charge a request, evict | eviction at the bound; lazy refill; two limiters for one request | a bucket never gives more than its rate; waiting as told is enough |
| Community and moderation (`create_post`, `list_posts`, `decide_post`, `protect_post`) | `public.posts`, `moderation_decisions`; the list on the panel, the requests under way | post, decide, page through the panel, report | decisions that wait for a lock; corrections; pages read between them, answers that overlap | rulings are final; a list neither skips a visible post nor, without a double request, repeats one |
| Notices (`learner.py`, `admin.py`) | `notices`, `notice_versions`, `notice_reads` | create, approve, publish, list, mark as read | version numbers under concurrency; publishing twice | what is published was approved |
| Entitlements, profile, translation | single rows | reads and one-row updates | little | row-level |
| Gateway, web pages, configuration | none | forwarding, rendering | the upstream timeout | - |

How they interact: the browser calls the API through the gateway, whose 15
second timeout makes an answer unknown while the handler goes on.  Handlers talk
to each other only through PostgreSQL; each `privileged()` or `as_user()` block
of `database.py` is a transaction at READ COMMITTED, and between two of them
anything may happen.  The offline queue and the direct submit of every tab rely
on the idempotency envelope, which relies on `public.submissions` as the
authoritative row; grading runs between two transactions of the handler;
publication decides what a page shows and what a submission may read and insert;
the middleware's limiters and the session's gates stand before every handler.

## 2. Modules

| Module | Models | Composes / refines |
|---|---|---|
| `SubmissionRegister` | what POST /v1/submissions promises: a write-once register per key with truthful answers | abstract |
| `SubmissionService` | the envelope and `create_submission`, one action per transaction, with faults and crashes | implements `SubmissionRegister` (property `ImplementsRegister`) |
| `SubmissionServiceProofs` | proofs about `SubmissionService` and `Assessment` | extends both |
| `Assessment` | the grading between the rubric read and the insert | the content of the `Assess` step of `SubmissionService` |
| `Drafts` | the tabs' loads and `save`, their browsers' stores, `put_draft`, `delete_draft`, workspace triggers | - |
| `DraftsProofs` | proofs about `Drafts` | extends it |
| `Feedback` | `request_feedback` inside the (reduced) envelope | - |
| `FeedbackProofs` | proofs about `Feedback` | extends it |
| `Publication` | the editorial path, the pages members open, and their submissions | - |
| `Library` | the pages of the problem library | extends `Publication`, whose steps interleave with it |
| `PublicationProofs` | proofs about `Publication` and `Library` | extends `Library` |
| `OfflineQueue` | the browser's durable queue against the (reduced) envelope | - |
| `OfflineQueueProofs` | proofs about `OfflineQueue` | extends it |
| `Community` | posts, moderation, corrections and the pages of the panel | - |
| `CommunityProofs` | proofs about `Community` | extends it |
| `RateLimiter` | `InProcessRateLimiter.check`, as operators on a cache | - |
| `HttpLimits` | the middleware with its two limiters, and clients that wait | extends `RateLimiter`, used for both |
| `HttpLimitsProofs` | proofs about both | extends `HttpLimits` |
| `Sessions` | sign-in, sessions, sign-out and onboarding of one member in several tabs | - |
| `SessionsProofs` | proofs about `Sessions` | extends it |

`MC...` modules give the small instances.

### SubmissionService

A request moves through `pc`: `received`, `lookup`, `claim` (the envelope),
`find`, `rubric`, `assess`, `insert`, `replay` (the action), `store` or `undo`
(the envelope again), then `replied` or `gone`.  Each control point names the
next transaction; the Jev call (`assess`) holds none.  The SELECT and the INSERT
of the envelope's first transaction are two actions, since under READ COMMITTED
the row that was not found may exist by the time of the INSERT: the unique
violation is an HTTP 500.  `held` is what the handler carries, a result or the
exception that is being raised.  `canLearn` is the row-level gate
`public.can_learn()`, changed by the environment.

Faults: a transaction raises with or without its effect (`TransactionFails`,
`CommitUnacknowledged`), and the process dies or the handler is cancelled
(`Abandon`), which `except Exception` does not see.

Abstractions: the rubric and the problem read are one action (`Publication`
separates them); the HTTP status of a replay (200 or 202) and the order of
requirements in an answer are left out; the duplicate branch after the INSERT
(`row # None`) is kept although the envelope makes it unreachable in one
operation.

`InsertBinds` says whether the INSERT of a submission has a placeholder for each
parameter.  As it stands (`learner.py:1114-1140`) it names 14 columns, passes 14
parameters and has 13 placeholders; psycopg refuses it and every first execution
is an HTTP 500.  With `InsertBinds = FALSE` the model says so; with `TRUE`, as in
the run, it says what the rest of the code does once the statement is completed.
The theorems hold for both.

### Assessment

A rubric is a sequence of items with weight, flags and the kind of its evaluator
specification; `holds` is what the schema says of each rule, chosen once.  The retry
loop of `JevClient._post` has one action per way an attempt ends: timeout or network
error, retryable status, refusal, protocol answer, and `PostEscapes`, what `httpx`
raises besides (`RemoteProtocolError`, `ProxyError`, `DecodingError`). `_post`
catches only `TimeoutException` and `NetworkError` (`jev.py:211`) and
`create_submission` only `JevError` (`learner.py:1009`), so such an error ends the
request with HTTP 500 and nothing stored (phase `raised`).  `CoreAssess` is the Rust
core; it is compared at `Commit` with `ValidResult` and `ConfidenceCheck`, the
deferred trigger and the CHECK of the database.  In `SubmissionService`, the escape
is `TransactionFails` at the control point `assess`.  Left out: the core's input
validation, question texts, request size limits, back-off durations.  Its behaviours
are `AssessmentSpec`, and `Null` is the answer that has not come.

### Drafts

`row` is the member's row of `public.workspaces`; `local` and `conflict` are the
stores of each browser, one draft per account and problem, which its tabs share
(`home`).  `draft` is the React state and `editor` the text in the editor: they are
two things, since `SchemaEditor` takes its initial text once (`useState(initialSchema)`)
while the load effect runs again whenever the session or the language changes.  A
load reads (`ReadDraft`) and shows later what it read (`ShowDraft`); on a page that
is open it replaces the draft, and with it the revision of the next save, and not
the text.

`save` is split where it awaits: the local write and the sending (`BeginSave`), the
server (`PutDraft`), the answer (`Acknowledge`, `SaveFails`, `PreserveConflict`).
`SaveNowhere` is its early end, without an account or when `cache.putDraft` rejects.
A request is a message: it may arrive after its page has given it up or was closed.
`life` numbers the incarnations of the row, `base` is the text a draft's revision stood
for, `basis` has the texts each text was edited from, `writer` the tab that wrote a
store last: none of them is in the code, all exist for the properties.

Stages are merged where the code behaves alike: `kept` is any end of a save that has
stored the draft (`local`, `server`, `conflict` and `error`), `open` one that has
not.  Left out: the purge at sign-out, the layout, which travels with the text.

### Feedback

`ticket` is `private.feedback_requests` by operation key; `job` is `private.jobs`.
`CheckQuota` is the transaction that holds the advisory lock, `Reserve` the next one:
the lock is gone between them.  `LockSubmission` and `Finalize` are the two halves of
the transaction that reads `max(version)` under the row lock and inserts.  `Settle`
marks job and request; its UPDATEs (`learner.py:1802`, `1874`, `1887`, `1902`) name
the request by `operation_key` without the user, although the key is unique per user
only: with two members who chose one UUID, one would settle the other's request.  The
model has one member.  Merged or dropped: the first read as the user is part of
`CheckQuota`; the 404 of a foreign submission is dropped.  In mode `groq` the job
stays pending: the repository has no worker.

### Publication and Library

A content stands for everything a version's digest covers; `Sound` contents are
those whose official solution passes the core.  Handlers that lock the version
row from their first statement are one action; an approval is two, because it
reads the digest without a lock.  `DayComes` is 04:00 JST of the next date.

The member's side starts from a page: `shown` is the version and content that
`detail` or `today` returned, for as long as the page stays open, or the
submission waits in the browser.  A submission reads its rubric (`ReadRubric`),
then its problem (`ReadProblem`), under `Readable`, the row-level policies, and
is inserted under `Eligible`, the trigger, each in a transaction of its own;
`answer` is how it ended.  Nothing sets `retired`, so a superseded version becomes
unreadable and a page of it is refused.  `Dashboard` is the set of problems the
dashboard counts.

`Library` adds the list of problems: `walk` is what a member's page holds, with
its filter and the cursor of the next page, and `asked` the requests under way.
Asking (`OpenLibrary`, `LoadMore`), the query (`ServePage`) and the answer
(`ShowPage`, `LoadFails`) are steps of their own, because nothing on `ProblemsPage`
waits: "Load more" stays enabled while a page is loading, a filter can be changed at
any time, no request is cancelled, and each answer replaces or prolongs the list that
is there when it comes.  A filter is a set of contents.  The cursor is the last date
shown, since a date has one problem, with its filter; another filter's is refused.
`out`, the versions a whole list would have held when it was asked for, and `overlap`,
which of the requests since then were under way together, exist for the property.

Left out: version numbers, validation jobs, audit rows, batch generation, learning
access (`SubmissionService` has it), translations, the library's filters by status
and date.  Two dead ends of the code appear as disabled actions: repeating the
publication of a published version raises in the trigger although
`publish_version` lets it through, and a version that was approved while a draft
cannot be approved again once validated.

### OfflineQueue

A sender is one run of `submit` or `flushQueue`.  `claimQueued` is one IndexedDB
transaction; `failQueued` is a read (`ReadFailed`) and a write (`WriteFailed`).
`claim` and `stored` are the envelope reduced to who holds the key and whether the
row exists.  `Lose` is a failing connection or the gateway's timeout; the handler
goes on.  `WebLocks = FALSE` (the lease in IndexedDB lapses) allows more
behaviours than `TRUE`, so the safety results cover both.  Account purge, back-off
timing and the detail cache are left out.

### Community

`post` is `public.posts`, indexed by submission (`UNIQUE (submission_id)`); the
submissions are those that are passed and exact, since `create_post` refuses all
others without effect.  `now()` is the time a transaction began, so a decision is
two steps: `BeginDecision` takes the time, `Decide` is everything from
`SELECT ... FOR UPDATE` to the commit, and `Refuse` is the exception of
`protect_post`.  `Allows` is that trigger, `Ruled` the UPDATE.  `Correct` is a
correction: `current`, the version the calendar points at, moves on.

The panel of a reader is `walk`, what it shows, and `asked`, the requests under way:
the first page (`OpenPanel`), again when the session or the language changes, and
further ones (`LoadMore`), each with its query (`ListPosts`) and the arrival of its
answer (`ShowPosts`, `LoadFails`).  Nothing waits here either: list and button stay
while anything is loading.  The cursor is `(published_at, id)` with the extra row of the
limit; the query's `now()` is some time since it was asked for.  `shown` is the length
of the panel's list, `seen` its posts; `due`, the posts approved when the list was
asked for, and `overlap` exist for the property.

`Visible` follows the row-level policies.  `list_posts` runs as the member and joins
`submissions` and `users`, of which a member sees only the own rows, and
`problem_versions`, of which a member sees only the one the calendar points at, since
nothing is ever retired.  So the panel shows nobody else's posts, although
`docs/db/decisions.md:25` calls posts "published members-only", and of the own ones
only those on the present version: after a correction the older ones vanish, although
"Community posts retain old-version tags after problem corrections"
(`docs/design/experience/editor-and-community.md:46`) and `old_version` is computed for
them.  The properties speak of what is visible.  Left out: reports
(unguarded single-row updates), audit rows, the texts, the envelope around both
mutations, other problems.

### RateLimiter and HttpLimits

A cache is an order of keys and a bucket for each cached key; `Checked` is one call
of `check`.  Time is in ticks and tokens are scaled by the window, so that the
refill is an integer where the code adds floats.  `Limited` is the middleware: it
asks both limiters whatever the first says, and the first refusal gives the
Retry-After (`Wait`).  `turned` is the last 429 of a client, while nobody else
spends from its buckets; `past` records uses and tokens for the properties.  Nothing
awaits between the two checks, so a request is one step.

### Sessions

A callback carries the state of an attempt; several may carry one.
`ConsumeAttempt` is the UPDATE, then comes the exchange with the provider, then
`CreateSession` or `RefuseIdentity`; `AnswerCallback` sets the cookie, which all
tabs share, or is lost.  A tab holds the CSRF token of the session it was opened
under.  `ListPolicies` is the onboarding page's list of what is not acknowledged;
`complete_onboarding` is `SubmitForm`, `CheckForm` (the SELECT of the latest
versions) and `StoreForm`, between which policies become required and other tabs
acknowledge.  `seen` exists for a property.  Left out: token digests and rotation,
profile edits, the browser's stores.

`AttemptInsertParses` says whether the INSERT of an attempt is valid SQL.  As it
stands (`database.py:141`) its column list ends in a comma, and nobody can sign in;
the run uses `TRUE`, the theorems hold for both.

## 3. Runs

Passing runs check all listed properties; a run marked *violated* checks one
statement that a document, a comment or the code makes and the code does not keep.

| Run | Question | Bounds | States |
|---|---|---|---|
| `submission_faults` | do the envelope and `create_submission` implement the register, and is a claim released? | 3 requests, 1 key, 2 payloads, all faults | 51,694 |
| `assessment` | are verdicts earned and exact, accepted by the database, and does grading end? | rubrics of 1-2 items, weights 1 and 2000, 1 retry, every schema and answer | 230,256 |
| `drafts` | does the store keep what a save put there, and does a save replace only the text its revision stood for? | 2 tabs of 1 or 2 browsers, 3 texts, 2 lives of the row, 1 late load or request | 2,609,978 |
| `drafts_lost_update` *violated* | is no text replaced that the new one was not edited from? | as above, nothing late | - |
| `feedback` | do job, request, version and answer agree, and is a reservation settled? | 3 requests (one a retry), 1 submission, all faults | 106,720 |
| `feedback_quota` *violated* | is only one feedback free? | 3 requests, 2 submissions (one not assessed), no fault | - |
| `publication` | is published content sound, is what is submitted what was shown, has a refusal a cause, is the list exact, do corrections take nothing away? | 2 versions, 2 problems, 3 contents, 2 days, 1 administrator, 1 member, pages of 1, 3 filters, 2 requests; a list or a page at a time | 621,663 |
| `publication_approval` *violated* | is published content approved content? | as above, without the library, 2 administrators | - |
| `offline_queue` | is queued work kept, and does the queue settle? | 2 senders, 1 operation, 8 attempts, 1 closed tab, unlimited losses | 218,310 |
| `community` | are rulings final, and do pages add up to the list? | 3 posts of the reader (2 on a version, 1 on its correction), 2 moderators, pages of 1, 2 times, 2 requests | 1,984,591 |
| `http_limits` | do evictions, refills and the two limiters keep to the rate, and is waiting as told enough? | 3 clients at 2 addresses, caches of 2, 2 requests per 3 ticks, 4 ticks | 526,466 |
| `sessions` | does an attempt make one session, is nothing acknowledged unseen, is a complete form heard? | 2 attempts, 2 callbacks, 2 tabs, 3 policy versions of 2 kinds | 1,051,984 |

What the passing runs show:

- `TypeOK` of each module also bounds the counters the code bounds (attempts,
  revisions, version numbers) and ties answers to control points.
- `OneExecutorPerKey`, `RecordMatchesSubmission`, `SuccessesAgree`,
  `RefusalsAreTruthful`, `ImplementsRegister`: the unconditional UPDATE and DELETE
  of the envelope never hit another request's record, a cached answer never
  contradicts the table, and a 4xx, on which the browser parks a submission, is
  never sent for a submission that the same request stored.
- `ClaimIsReleased`: without a crash or a lost transaction, a claim ends.  The
  exception is real: the DELETE that undoes a claim runs under `except Exception`,
  so after a crash or a cancellation the record stays unanswered for ever and
  every retry gets 409 IDEMPOTENCY_IN_PROGRESS, against the comment at
  `learner_routes.py:117`.
- `PassIsEarned`, `FullMarksAreExact`, `CommitIsAccepted`: see section 1.  The
  weights 1 and 2000 make the score that displays 100.0 with an item missed.
  `GradingEnds`: a grading ends stored or, if an attempt raised what the loop does
  not catch, raised; it does not say that every grading is stored.
- `UnsavedWorkIsStored`: once a save has written to the browser's store, the store has
  the tab's last text until another tab of that browser writes there, whatever becomes
  of the request and whatever a load brings.  It says nothing of a save that
  stored nothing (`SaveNowhere`).
- `SavesReplaceWhatTheyName`: a request under a revision of the present row replaces
  the text this revision stood for, however late it is and wherever its draft was kept.
  It does not say that the member saw that text; that is `NoLostUpdate`, which the code
  does not keep.
- `JobMatchesRequest`, `AnswersAreTruthful`, `VersionsNeverCollide`: also after a
  final commit whose acknowledgement is lost.
- `ReservationIsSettled`: every reservation of a handler that goes on is settled.  It
  covers the handler's own branches only.  A handler that dies, or whose settling
  transaction is lost, or that leaves the job to the external worker, keeps its
  reservation for good, against `docs/db/decisions.md:47`: "Failure releases
  reservation; retry reuses operation ID. A lease/reconciliation path repairs process
  death".  There is no such path in the code, and a retry under the operation's ID
  meets the unique key and is an HTTP 500.
- `ValidatedContentIsSound`, `SubmissionsKeepTheirVersion`: the row locks and
  triggers that guard editing suffice, and page, rubric and problem, read with any
  time between them, are one content.
- `HonestRefusals`, `CorrectionsTakeNothingAway`, `ListIsExact`: a correction turns
  away the pages of the version it supersedes, and nothing else does; it replaces a
  problem in one step, in lists, pages and the dashboard alike.  The list is complete
  also when "Load more" was pressed twice and in whatever order the answers came; it
  shows no problem twice as long as the button was pressed for an answer that was
  there.  Of a list asked for while another was under way nothing is promised.
- `QueuedWorkIsKept`, `QueueSettles`: the resurrecting write of `failQueued` can
  repeat work but cannot lose it, and the counter ends the repetition.
- `RulingsAreFinal`, `WalkIsExact`: the trigger decides on the row
  as it is when the lock is granted, so a post has one time of publication in its
  life; this is what makes the cursor sound although decisions commit out of the
  order of their times.  A panel is complete, as far as the query goes (`Visible`), and
  repeats nothing, under the same conditions as the library's list.
- `CacheKeepsTheMostRecent`, `AdmissionsAreBounded`, `PoliteRetrySucceeds`: an
  eviction costs the idlest key its bucket; refused requests gain no tokens; a
  client that waits as the 429 says is admitted, if a token comes every second.
- `OneSessionPerAttempt`, `NoBlindConsent`, `NewcomersAreHeard`: the single UPDATE
  and the comparison of sets suffice at READ COMMITTED, because policies are never
  withdrawn.

What the violated runs show (`findings` of PROJECT.json quotes the statements): a
tab without a server draft sends revision 1 and revisions restart after a deletion,
so a save can overwrite a text it never saw (nor did the member when a load under an
open editor has given the page the server's revision and left the editor its text);
the advisory lock of the quota ends before the reservation is inserted; an approval
can promote content it never read.

### Seen while modelling

Behaviour the models contain, or that keeps them from being about the code as it
stands, and that no run is spent on:

- The INSERT of a submission has 13 placeholders for 14 parameters
  (`learner.py:1119`), and that of an OAuth attempt a trailing comma
  (`database.py:141`): neither can be executed.
- The answer to the consistency question is merged (`learner.py:1026`) with the
  polarity opposite to the one it is asked with (`learner.py:853`, `jev.py:186`).
- `docs/db/decisions.md:33` asks to keep old published versions accessible for
  queued submissions; nothing retires a version, and the policies admit no other
  superseded one, so a queued submission of it is refused.
- A returning member, to whom the page lists one newly required version, is refused
  as POLICY_VERSION_OUTDATED for ever, since `learner.py:1396` compares with every
  latest version; with no policy required, the empty list is refused.
- Below one token a second, the Retry-After names the first refusing limiter only,
  and a refused request still spends from the other.
- The answer to a sign-out deletes the cookie of a session that was made meanwhile
  (`app.py:358`); if it is lost, the retry is answered 401 and the browser's stores
  are not purged (`SettingsPage.tsx:11`).
- The backend's session has no `profile`, so the workspace page's account id is
  undefined: the offline queue is never flushed and every save of a draft ends as
  `SaveNowhere`.  The models take a session with a profile, as the frontend's type
  declares it.  (`SettingsPage` loads the profile itself, so the purge at sign-out
  has its account id.)
- `httpx` errors that are neither timeouts nor network errors leave `_post`
  (`jev.py:211`) and the handler (`learner.py:1009`): HTTP 500, and the submission is
  not stored.
- A save of a draft that stored nothing, because there is no account or the store
  rejects, is an error too, of which the page says "Save failed; local copy preserved"
  (`WorkspacePage.tsx:23`).  If the store of the conflict copy rejects after a 409,
  `save` rejects and the page says "Saving..." for good.
- The tabs of a browser share one draft per problem: the later save replaces the
  other tab's copy.  A load prefers the server's draft to a newer local one.
- The UPDATEs of `request_feedback` name the request by `operation_key` without the
  user (`learner.py:1802`, `1874`, `1887`, `1902`).
- GitHub's numeric `id` is refused as a subject (`oauth.py:123`).
- `list_notices` joins `public.notices`, on which members have no SELECT.
- Both lists' "Load more" stay enabled while a page is loading (`WorkspacePage.tsx:28`,
  `ProblemsPage.tsx:16`): a double click appends a page twice.  A late answer for an
  old filter overwrites the library's list (`ProblemsPage.tsx:13`).
- The reader's own posts on a version vanish from the panel when it is corrected, against
  `docs/design/experience/editor-and-community.md:46` (see `Community`).

### Bounds

One key suffices for the submission service: rows, records and control points of
different keys share nothing (`canLearn` is only read).  Three requests are a first
attempt, a retry and a reuse with another payload: the shortest run in which a claim
is taken, undone and taken again while a third looks on.  The theorems remove these
bounds.  Two items show every interaction of critical, implicit and contradicting
items with the retry loop; the aggregate is a sum.  Two tabs, of one browser or of
two, and three texts suffice for a stale tab to come back to a restarted revision,
and for a late request to meet the row another tab made.  Two versions of one problem
or of two problems are a correction and a competition for a date; three contents are
two sound ones and an unsound one.  One administrator suffices for all but
`PublishedIsApproved`, since only approvals span transactions; `publication_approval`
has two, and the theorems any number.  A filter is everything or one content, which a
correction leaves or enters.  Two clients of one address and one of another, with
caches of two, make evictions and refusals by either limiter.  Two callbacks for one
attempt or two, and two tabs, are every race of `Sessions`; three policy versions are
two of one kind, so that the latest changes, and one of another, so that there is
more than one latest.  The operations of the queue interact only by being claimed
together. Two posts and two times give every tie and every inversion of time and
commit at the boundary of a page of one; a third post is on the correction.  Other
members' posts, which the query does not find, are in the theorems only.  Two
requests (`Slots`) are a double click, or an answer that is late.

Four runs also bound interleavings, by a CONSTRAINT.  `OneStraggler` (`drafts`): one
load under way or one request whose page is gone; a page waits for one request
besides.  `NoStraggler` (`drafts_lost_update`): none, since its counterexample needs
none.  `OneThingAtATime` (`publication`): a member's list or page, since neither
reads the other, and no list that overlaps another, of which nothing is promised.
`OneListOneRace` (`community`): no such list either, and not two decisions under way
while a request is.  The theorems hold without them.  The VIEW of `drafts` leaves out
what the texts were edited from, which `NoLostUpdate` alone reads.

`MaxTexts`, `MaxLives`, `MaxItems`, `MaxDeaths`, `MaxTime`, `LastVersion`, `LastDay`,
`Slots` are bounds of the models;
`MaxAttempts`, `MaxRetries`, `MaxQuestions` are the code's limits, the last two
smaller in the runs.

### Fairness and deadlock

`SubmissionService`: weak fairness of each running handler, which the event loop and
the database's timeouts give; none for faults or the environment. `Assessment`: weak
fairness of the next step, since the HTTP client has a timeout. `Feedback`: strong
fairness per handler, because it may wait for a row lock that others hold again and
again, and PostgreSQL grants locks in turn. `OfflineQueue`: weak fairness of the 30
second timer, of lease expiry and of what has started; nobody has to submit and
nothing has to fail.  `CHECK_DEADLOCK FALSE` is given where everything may have
ended: all feedback handlers answered, or the queue empty.  In `SubmissionService`
and `Drafts` the environment can always move; in `Assessment`, `Done` marks the end;
in `Publication` and `Library`, pages can be opened again; in `Community`, a
moderator can always begin a decision; in `HttpLimits`, a request can always come; in
`Sessions`, the owner can always change the allowlist.  `Drafts` and these last four
have safety properties only and assume no fairness: what they promise is what an
answer means, and whether members, clients or editors go on is up to them.

## 4. Proofs

`SubmissionServiceProofs` proves, for all sets of requests, keys, payloads and
verdicts, all faults and both forms of the INSERT:

| Theorem | States |
|---|---|
| `Invariance` | `Spec => []IInv` |
| `TypeCorrectness` | `Spec => []TypeOK` |
| `MutualExclusion` | `Spec => []OneExecutorPerKey` |
| `CacheCoherence` | `Spec => []RecordMatchesSubmission` |
| `Agreement` | `Spec => []SuccessesAgree` |
| `Truthfulness` | `Spec => []RefusalsAreTruthful` |
| `Refinement` | `Spec => ImplementsRegister` |
| `ClaimsAreHeld` | `Spec => []ClaimsHaveHolders`: an unanswered record belongs to a request that runs, died, or was told of an internal error |
| `HandlersMoveOn` | every step but a change of access brings one handler nearer its end, at most ten transactions away |

Assumptions: `ServiceAssumption` (types of the constants) and `NoneAssumption`
(`None` is not a row, an answer or a record).

The inductive invariant `IInv` is `TypeOK`, `OneExecutorPerKey`,
`RecordMatchesSubmission`, `DigestsWereSent` and `ControlPoints`.  None of the
properties is inductive alone.  That the UPDATE and DELETE at the end of the
envelope hit the handler's own record needs `OneExecutorPerKey`; that what is
stored is the row's content needs to know what the handler holds at each control
point (`ControlPoints`: no row before the insert, the held outcome confirmed by
the row at `store`, justified at `undo`, and every sent answer one of both); that
a reuse is refused only if the key really was used with another payload needs
that stored digests were sent (`DigestsWereSent`).  The proof has one lemma per
action (`LookupRecord`, `ClaimRecord`, ...), which share lemmas on the types of
outcomes, on the sole owner of a record and on steps that touch one request only;
`Refinement` maps each step to a step of the register or a stutter.

`ClaimsAreHeld` and `HandlersMoveOn` are what `ClaimIsReleased` rests on besides
fairness: who may be behind a record that refuses every retry, and that it stops
running.  A claim finds its holder when it is inserted (`RecordOrigin`), and the
holder stays one until the record is answered or deleted (`HolderStays`), which
needs that the UPDATE and the DELETE hit the handler's own record.

The same module proves of `AssessmentSpec`, for all rubrics, weights, schemas,
answers and failures of the judge, and every number of retries the settings allow
(`AssessmentAssumption`):

| Theorem | States |
|---|---|
| `GradingInvariance` | `AssessmentSpec => []GradingInv` |
| `GradingTypeCorrect` | `AssessmentSpec => []AssessmentTypeOK` |
| `CoreAndDatabaseAgree` | `AssessmentSpec => []CommitIsAccepted` |
| `PassesAreEarned` | `AssessmentSpec => []PassIsEarned` |
| `FullMarksAreFull` | `AssessmentSpec => []FullMarksAreExact` |
| `GradingIsBounded` | every step of a grading, the one that raises included, uses up one of at most `MaxRetries + 4` |

`GradingInv` says that from the static rules on, every decision is that of the item's
own judge and the confidences are those of the items the judge answered, that the
judge is asked in mode `external` only, and that a result is the core's on these
decisions.  What is left is arithmetic: the core adds weights item by item, the
database adds them up over sets, and both must be one number.  A statement about a
fold for sums of any length is an induction; here it is made on finite sets.  Of two
functions that agree on the empty set, and on a set as soon as they do without one of
its elements, a smallest set of disagreement cannot exist (`SubsetInduction`, from
the well-foundedness of strict inclusion).  With it every fold of the model is shown
to be `Weighed`, the number of units of the items, one unit for each point of weight.
That a set of items weighs as much as all only if it is all of them (`FullWeight`) is
then a fact about finite sets: weights are positive.

`CommunityProofs` proves, for any number of moderators, readers, posts and ids, any
page size and any times:

| Theorem | States |
|---|---|
| `Invariance` | `Spec => []IInv` |
| `Finality` | `Spec => []RulingsAreFinal` |
| `WalkInvariance` | `Spec => []WInv` |
| `PagesAreExact` | `Spec => []WalkIsExact` |
| `CommunityTypeCorrect` | `Spec => []TypeOK` |

`RulingsAreFinal` is not inductive: a decision under way may be about to hit any
row.  Its `IInv` says in addition that a submission without a post has no rulings and
that every decision under way is about a post that exists, with a state a decision
can set; `DecideIsExplained` is then a case split on the trigger. `WalkIsExact` needs
more, because decisions commit with older times while a walk goes on, corrections
hide posts, and answers come in any order.  `WInv` says that a post has a time
exactly while it is approved, that everything a walk saw or is owed was ruled on, and
that what it is owed is seen, or is on an answer under way, or is behind the cursor,
or is not found any more.  While the button is pressed only for an answer that is
there, one request is under way, and what was seen is at the cursor or newer.
`PostsKeep` is why that survives: an approved post keeps its key, one that was ruled
on is never approved again, and none comes into sight.  That the last row of a page
is the oldest on it (`PageIsNewest`) rests on `Extremes`: in a finite set with keys
of their own, the number of newer rows is a numbering from 0, so there is a newest
and an oldest row; this replaces an induction.  The assumption is
`CommunityAssumption` (finitely many submissions, ids are numbers, `None` is not a
post or a cursor).

`PublicationProofs` proves, for any problems, versions, contents, days,
administrators and members (assumption `PublicationAssumption`):

| Theorem | States |
|---|---|
| `Invariance` | `Spec => []IInv` |
| `PublicationTypeCorrect` | `Spec => []TypeOK` |
| `Soundness` | `Spec => []ValidatedContentIsSound` |
| `OneContent` | `Spec => []SubmissionsKeepTheirVersion` |
| `RefusalsAreDue` | `Spec => []HonestRefusals` |
| `NothingIsTakenAway` | `Spec => CorrectionsTakeNothingAway` |

`IInv` has an editorial half (`EditorialIsSound`: the calendar holds published
versions and one date per problem; approvals under way are of versions that exist)
and a member's half (`MemberIsSound`: pages, readings, answers and rows are of
published content).  The halves meet in `Steady`, which every editorial step
satisfies: a published version stays as it is, a date keeps its problem, what was
superseded stays superseded.  The member's half follows from `Steady` alone,
whatever the editors do.

The module also proves of `LibrarySpec`, for any page size, filters and members
(`LibraryAssumption` in addition):

| Theorem | States |
|---|---|
| `LibraryInvariance` | `LibrarySpec => [](IInv /\ WalksInv)` |
| `ListsAreExact` | `LibrarySpec => []ListIsExact` |
| `LibraryOnlyReads` | `LibrarySpec => Spec` |

`LibraryOnlyReads` carries everything above over to the composition, pages being
stutters of `Publication`.  `WalksInv` says of a list, and of every answer on its way
to it, that what was out when the list was asked for is shown, or out before the
cursor, or was corrected out of the filter; of two answers for one cursor each keeps
this, so completeness survives a double click.  That nothing is repeated needs one
request at a time: then what is shown has a date at or after the cursor, and what is
asked for one before it.  A correction takes over a date and never moves a problem to
another, so an editorial step keeps all of it (`WalkSurvivesEditing`, again from
`Steady`); a page has the newest dates before its cursor (`PageAdvances`), and makes
the list or prolongs it (`FirstPageMakesTheList`, `FurtherPageProlongsTheList`).
That a set of dates has a newest first listing, and one only (`DatesCanBeSorted`,
`NewestFirstProperties`), is shown by giving each date its rank, the number of dates
that are not older.

`FeedbackProofs` proves, for any requests, keys and submissions, and all faults
(assumption `FeedbackAssumption`, finitely many requests):

| Theorem | States |
|---|---|
| `Invariance` | `Spec => []IInv` |
| `FeedbackTypeCorrect` | `Spec => []TypeOK` |
| `JobsMatchRequests` | `Spec => []JobMatchesRequest` |
| `AnswersTellTheTruth` | `Spec => []AnswersAreTruthful` |
| `NumbersAreFree` | `Spec => []VersionsNeverCollide` |
| `ReservationsHaveHandlers` | `Spec => []BlockersAreKnown`: a pending reservation has a handler that is at work, died, lost a transaction or left the job to the external worker |
| `HandlersMoveOn` | every step but a change of the entitlement brings one handler nearer its end, at most nine transactions away |

Its `IInv` says that a version comes from one request, the one that holds its key's
ticket for good; so a key whose ticket ended without a version never gets one, which
is what makes the answer "failed" true for every later replay.  It also says that
the numbers of a submission's versions are `1..n` (`VersionsAreDense`), since they
are read and used under one row lock; so `max + 1` is free, and is at most the number
of requests.  The last two theorems are the part of `ReservationIsSettled` that needs
no fairness; their invariant `HoldersInv` says in addition that every ticket has a job,
and that a row lock is held by a handler that is storing a version.

`DraftsProofs` proves, for any tabs, texts and lives of the row (assumption
`DraftsAssumption`):

| Theorem | States |
|---|---|
| `Invariance` | `Spec => []IInv` |
| `DraftsTypeCorrect` | `Spec => []TypeOK` |
| `WorkIsStored` | `Spec => []UnsavedWorkIsStored` |
| `SavesLoseNothingBetween` | `Spec => SavesReplaceWhatTheyName` |

The compare-and-swap compares revisions, the property texts.  What connects them is
`IsCopy`: a copy of the row of the present life, in a store, in a load under way, on a
page or in a request, has a revision no later than the row's and, if it has the row's,
a base that is the row's text.  For a copy of an earlier life this fails, which is what
`drafts_lost_update` shows.  A text is sent in one request (`RequestsAreSound`), so the
answer a page waits for is that of its own.

`OfflineQueueProofs` proves, for any senders, operations and limit of attempts
(assumption `QueueAssumption`):

| Theorem | States |
|---|---|
| `Invariance` | `Spec => []IInv` |
| `QueueTypeCorrect` | `Spec => []TypeOK` |
| `QueuedWorkIsNeverLost` | `Spec => []QueuedWorkIsKept` |

`IInv` adds that a success on its way to a sender is of a stored submission and that
a sender a handler remembers still waits for it: without the latter, an answer could
reach an attempt that was made later.

`SessionsProofs` proves, for any attempts, callbacks, tabs and policies
(assumptions `PoliciesAssumption`, `NoneAssumption`):

| Theorem | States |
|---|---|
| `SessionsTypeCorrect` | `Spec => []TypeOK` |
| `AttemptsAreSpentOnce` | `Spec => []OneSessionPerAttempt` |
| `ConsentIsInformed` | `Spec => []NoBlindConsent` |
| `NewcomersAreNotMisled` | `Spec => []NewcomersAreHeard` |

`IInv` is `TypeOK` with what a callback and a form hold on to (`SignInInv`,
`FormInv`).  A form refused as outdated really is, because the latest versions never
return to a set they have left (`LatestMovesOn`).

`HttpLimitsProofs` proves, for any capacity, window, caches, clients and addresses
(assumptions `LimiterAssumption`, `NoBucketAssumption`, `LimitsAssumption`):

| Theorem | States |
|---|---|
| `BucketsBoundAdmissions` | `Spec => []AdmissionsAreBounded` |
| `WaitingAsToldIsEnough` | `Spec => []PoliteRetrySucceeds` |
| `RetryAfterIsEnough` | after the wait of a refusal, the bucket that refused holds a token, up to the millisecond lost in rounding |
| `CacheIsLRU` | `Spec => []CacheKeepsTheMostRecent` |
| `TypeCorrect` | `Spec => []TypeOK` |

The accounting behind the first (`Accounted`) is kept for every suffix of the uses
of a bucket: the tokens taken since a use, and what is left, fit in the capacity and
the refill since then.  An eviction forgets both sides.

`CacheIsLRU` compares two sequences: the order of a cache, which is cut at its bound,
and all keys ever used, which is not; both have no repetitions, and a request moves its
key to the end of both.  The order is a suffix of the other, and stays one, because what
happens to a position depends only on whether it is before or after that of the key
(`Moved`, `Extends`); there is one lemma for a hit, one for a new key and one for a key
that was evicted and returns.

### Only model-checked

Every invariant and every action property of the passing runs is the subject of a
theorem.  What TLC alone shows is liveness: `ClaimIsReleased`, `GradingEnds`,
`ReservationIsSettled` and `QueueSettles`.  The proofs have the safety half of the
first three, that what must end is in somebody's hands and that these hands have
boundedly many steps left; that they are taken follows from fairness and ENABLED,
which the prover does not handle.  The fourth has no such half: a lease that expires
may let work be repeated, and only the counter of attempts, through the fairness of
several steps, ends it.

No proved module uses a RECURSIVE operator.

## 5. Not modelled, and the plan

- Notices: every operation locks its one row and is one transaction; two creations
  that compute the same number collide on a unique constraint.  `list_notices` joins
  a table members cannot read, so it cannot execute.
- Entitlements and profile: single-row statements with no state between them.
  Premium is a changing flag in `Drafts` and `Feedback`.
- Translation and the LLM client: translations are read from cached rows, and no
  request reaches the provider; whether its output is valid is a choice in
  `Feedback`.
- Canonical schema validation (Rust `validate`, `core.py`): a pure function of a
  bounded document.  The models take its verdict as a choice.
- The gateway beyond its timeout, the web pages and the editor's text formats,
  configuration and deployment: forwarding, rendering and settings, with no
  behaviour over time.
- In parts: reports, audit rows, batch generation and validation jobs; the library's
  filters by status and date; back-off timing; the purge of the browser's stores at
  sign-out.

What is left to do: compose `OfflineQueue` with the whole of `SubmissionService`
instead of its reduced envelope; compare a model of the schema validator with a
reference definition over bounded documents.
