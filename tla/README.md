# Formal models of the Kinoservice

TLA+ models of the parts of this repository in which concurrency, failures and
time decide whether the system is right, TLC configurations that check them on
small instances, and TLAPS proofs of all their safety properties for every
size. The models follow the code under `src/`, not its documents; where the
code and a document disagree, a run shows the disagreement.

```
cd tla
tlc -workers 4 -config notification_safety.cfg MCNotification
tlc -workers 4 -config services.cfg MCServices
tlapm NotificationService_proofs.tla
tlapm MassNotification_proofs.tla
tlapm WebSocketSender_proofs.tla
tlapm AuthSessions_proofs.tla
tlapm Auth_proofs.tla
tlapm ContentActions_proofs.tla
tlapm Catalogue_proofs.tla
tlapm Services_proofs.tla
```

`PROJECT.json` lists the components, the runs, the lines every definition
models, the hazards of the code and the properties that cover them, the mutants
that show that each property can fail, the findings and the theorems.

## 1. Inventory of the system

All services are FastAPI, aiohttp, Flask or plain asyncio programs with one
gunicorn worker each (`workers = 1`), so concurrency within a service comes from
coroutines that interleave at every `await`, and between services from
PostgreSQL, Redis, RabbitMQ, Kafka and HTTP. A gunicorn worker is recycled after
some number of requests, so restarts are routine.

| Component | State | Operations | Hard behaviour |
|---|---|---|---|
| notification-service, single notifications | table `notification`: status, target time, actual time | insert, claim (`FOR UPDATE SKIP LOCKED`), enrich, sort by priority, publish, write back, report | claims of several tasks; publish before write back; blind write back; lost commits and confirms; restarts in between; tasks that end for ever; hours of the user |
| notification-service, mass mailings | table `mass_notification`, page number in Redis | insert, start, put off, create the rows of a page, complete | rows committed before the page number; Redis that fails in silence; an unordered list of profiles; sibling jobs under `gather` |
| ws_notification-service | dict of connections, Redis keys `send_event`, `fail_event`, `not_send_event` | consume, connect, show what waited, disconnect, report | background tasks without order; the dict shared by all handlers; redelivery |
| email-sender | Redis key per mail, SMTP, templates | consume, deduplicate, send, report, ack | mail sent and crash before the key; redelivery reported as failure; SMTP errors that end a consumer |
| content-actions-service | MongoDB: ratings, reviews, likes, bookmarks; cached answers in Redis | upsert, delete, list, average | fill and invalidation of the cache in background tasks; upserts in two steps; a store that fails after half of a request; lists that are not invalidated |
| auth-service | users, sessions and their history, roles; revoked sessions, profiles and roles in Redis | register, login, refresh, logout, logout everywhere, change of roles, names and passwords, confirmation of an e-mail | deletion in PostgreSQL and revocation in Redis are two steps; refresh against logout; rows read in one transaction and saved in another, with retries after a rollback |
| auth_utils, rate_limite_utils | Redis | check of a token; counter per minute, leaky bucket | read and append of the bucket in two calls; Redis that does not answer |
| event-generator | templates in MongoDB, Celery beat | weekly mailing, mailing of a manager | POST repeated after a timeout; answer `None` after eight attempts |
| short-link-service | table of links | shorten, redirect | look up and insert; use count and expiry; `SKIP LOCKED` redirects |
| recs-profile | table `user_recs`, Kafka offsets | consume a bookmark or a rating, keep the newest recommendations | automatic commits; one session shared by concurrent handlers |
| metric-service | Kafka offsets, ClickHouse | accept a metric; extract, transform, load, commit | a failed batch and the next commit |
| embedding-etl | watermark in Redis, Elasticsearch | extract, embed, bulk update | a search that finds changes late; errors that are logged only; the watermark |
| async-api | answers in Redis with a lifetime | films, lists, persons, recommendations, trends | one cache for all users, whose permissions differ; a film that is withdrawn while it is cached |
| nl-consumer | rows of answers | genres, model, embedding, films, row | a chain of calls, any of which may fail |
| statistic-service, embedding-service | none | a query, a computation | none of their own |
| admin-panel, tracer_utils, infrastructure | Django, spans, configuration | forms, export | no logic of their own |

How they interact: content-actions-service and auth-service POST single
notifications (a like, a registration), event-generator POSTs mass mailings;
notification-service asks auth-service for profiles and async-api for films,
and publishes to one RabbitMQ queue per kind of event; email-sender and
ws_notification-service consume these queues and POST the outcome to
`/update-sending-status`. Ratings and bookmarks go through Kafka to
recs-profile, metrics through Kafka to ClickHouse and on to statistic-service.
embedding-etl updates the index that async-api searches; nl-consumer turns a
question into a search.

What makes each of them correct: a notification is claimed by one task, sent at
most once, only with permission and only at the hours of the user, and its
status tells what happened to it; a mass mailing reaches everybody and ends; a
sender loses nothing, repeats only after failures and reports the truth; a cache
does not outlive a change; a revoked session is refused; an ETL loses no record;
a limiter admits no more than its limit.

## 2. Modules

| Module | Role |
|---|---|
| `NotificationLifecycle` | what the service promises about one row, without processes, batches or memory |
| `NotificationService` | single notifications, their properties and the inductive invariant |
| `NotificationService_proofs` | theorems and proofs |
| `MCNotification` | requests, profiles and hours for TLC |
| `MassNotification`, `MCMass` | mass mailings |
| `MassNotification_proofs` | theorems and proofs |
| `WebSocketSender`, `MCWebSocket` | ws_notification-service |
| `WebSocketSender_proofs` | theorems and proofs |
| `AuthSessions` | sessions and tokens of auth-service, the check of a token in auth_utils |
| `AuthSessions_proofs` | theorems and proofs |
| `AuthRoles` | roles, permissions and accounts at OAuth providers |
| `AuthAccounts` | the columns of a user and the permissions of a role under overlapping requests, and the answers about them |
| `MCAuth` | the three of them in one state |
| `Auth_proofs` | theorems and proofs about `MCAuth` |
| `ContentActions`, `MCContent` | content-actions-service |
| `ContentActions_proofs` | theorems and proofs |
| `EmailSender` | email-sender |
| `RecsProfile` | recs-profile, and the events of content-actions-service that it reads |
| `ShortLinks` | short-link-service |
| `EventGenerator` | event-generator |
| `MetricEtl` | metric-service, the API and the ETL |
| `EmbeddingEtl` | embedding-etl, with embedding-service behind it |
| `RateLimiter` | rate_limite_utils |
| `Catalogue` | async-api and nl-consumer, with statistic-service behind the trends |
| `Catalogue_proofs` | theorems and proofs |
| `MCServices` | the eight modules from `EmailSender` on in one state |
| `Services_proofs` | theorems and proofs about `MCServices` |

`NotificationService` is the middle of a chain: `MassNotification` produces its
`NEW` rows (there: a count per user; here: `CreateNotification`), `EventGenerator`
the mailings (there: `written`; `CreateMailing` in `MassNotification`), and
`WebSocketSender` and `EmailSender` consume what it publishes (there: `Enqueue`
and `waiting`; here: `Publish`) and report to it (there: `Post` and `Report`;
here: `ReportStatus`). `ContentActions` leaves the events that `RecsProfile`
reads. The modules are checked one by one; each takes the others as an
environment that may do anything the other module does.

`MCAuth` and `MCServices` hold several modules in one state, by `INSTANCE`
(`MCServices` extends `Catalogue`, whose definitions its theorems are about).
They share no state in the code either (those of `MCAuth` share tables, whose
columns each module sees for itself), so
interleaving their steps would only multiply the states: `focus` is the one that
moves in a behaviour, the others rest where they start, and each property is
asked of the behaviours that have its module in focus. The constants are those of
the modules, with one assumption for each (`MailConstants`, `RecConstants`,
`RoleConstants`, ...), which TLC evaluates in the run.

### NotificationService

The columns `status` and `target_sent_at` are `status` and `target`; what the
caller filled in is `request`, what auth-service answered is `profile`. A
`Worker` is one of the two background tasks of a process, `pc` is where it is in
its loop, `held` the rows its SQLAlchemy session holds, and `memory` and `due`
are the status and the time of these objects in memory, which reach the row only
with the write back.

| Action | Code |
|---|---|
| `CreateNotification` | `send_single_notification`, and the rows of a mass mailing |
| `FetchNew`, `FetchDelayed` | the two fetches, which set PROCESSING and commit |
| `FetchCommitLost`, `FetchGivesUp` | the retry decorator when the answer to the commit is lost, and when five attempts fail |
| `EnrichAndSort`, `EnrichRaises` | `enrich_notifications` and `sort_by_priority`; a like without its film ends the task |
| `Publish`, `PublishFails` | one turn of the loop of `push_to_queue`; the confirm may be lost |
| `UpdateNotifications`, `UpdateFails` | the first `update_notifications`, whose flush writes all changed objects of the session |
| `Restart` | a process stops and comes up again |
| `ReportStatus` | `/update-sending-status` |
| `Tick` | the next hour that matters |

Some choices that are not obvious:

- `update_notifications` is called for one list after the other, but the first
  call flushes every changed object of the session. So the model writes the
  whole batch back in one step, and blindly: no condition on what the row holds.
- After a failed attempt the decorator rolls back, which expires the objects;
  the next attempt reads an expired attribute and fails as well. One failure of
  the write back therefore ends the task (`pc = "dead"`), and `monitor_tasks`
  only logs it. The commit may have been done.
- Nothing looks for rows that are PROCESSING. A row whose task is gone stays so.
  This is described here and not stated as a property.
- The senders are only assumed to report on what was published. They may report
  at any time after it, repeatedly, and differently.
- "Published" includes TEST notifications, which are written to the log.
- A time zone is an offset in whole hours; `NoZone` is an empty or unknown one,
  with which the code sends at once.
- Requests and profiles are chosen so that each rule of the sort decides one:
  urgent or not, e-mail or web socket, permitted or not, and a like, whose
  enrichment does not copy the permission.

### NotificationLifecycle

For each row a `status`, whether a task has claimed it (`claimed`) and whether it
was handed over (`handed`). `Claim` takes a row that is NEW or DELAYED, and no
other claim can follow until `Settle` writes a status back that agrees with what
was handed over, or the claim is given up (`Abandon`), after which nothing takes
the row again; `Hand` happens once in the life of a row; `Report` may change the
status of what was handed over, before the claim is settled or after it.
`NotificationService` implements it under the mapping at the end of that module,
which forgets processes, batches and what is in memory. `Settle` may overwrite a
report: the code does it, and `ReportSticks` shows it.

### MassNotification

`status` and `startAt` are columns, `nextPage` the number in Redis, `rows` how
many notifications of a mailing each user has, `order` the order in which
auth-service lists the profiles now, `job` what `_process_one_mass_notify` is at.
`LoadPage`, `CreateNotifications`, `MarkSent`/`DropPageNumber` and `Advance` are
its awaits; each has its failures (`LoadPageFails`, `CreateFails`, ...), which
end the ETL through `gather` while the other jobs of the batch go on.
`AdvanceRaises` is the string from Redis to which 1 is added. `MoveToEnd` is the
missing ORDER BY of the query for the profiles: PostgreSQL may list an updated
row last. Users who register during a mailing are left out. A second process,
which would work on the same mailing (the fetch does not change its status), is
left out because one is deployed.

### WebSocketSender

`queue` is the message in RabbitMQ, `consumer` the one callback that runs,
`session` the handler of each connection, `connections` the dict of
`utils/ws_connections.py`, `keys` what is in Redis, `pending` the tasks
`background_set` and `background_destroy` have started, `supplier` the report
loop with the keys it has read, `shown` what was written to which connection and
`report` what notification-service was told last.

- A background task runs at any time after its start and in any order: each
  takes a connection of the pool of its own.
- A connection is `open` or not; its handler learns of the end later. In between
  a write raises (`HandleBroken`, `WriteRaises`): the message is refused and
  nothing is put into Redis. That is counted as a failure.
- `ack` and `nack(requeue=False)` both take the message out of the queue: the
  dead letter queue is bound to `dead.*`, which does not match the keys
  `dead.user-review.liked...` of several words.
- `x-delivery-limit` (5) is above the number of restarts in the runs.
- The two kinds of keys are read separately, as `asyncio.gather` does. A scan that
  Redis does not answer counts as an empty one (`ReadFails`), but its `None` makes
  the deletion raise after the POST, so that the round is reported and repeated; a
  `mget` without an answer ends the round before it.

### AuthSessions

`rows` is the table of sessions, `hist` that of their history, `users` how many
users have a name, `tokens` the tokens of clients that have not expired, `denied`
until when Redis has the key of a dropped session, `pending` and `clearing` the
tasks of `background_set`, which deletes the key and then sets it. A request is
in `req` with what it has read so far; between two of its steps others run.

| Action | Code |
|---|---|
| `BeginRegister`, `SaveUser`, `SaveUserRefused`, `NotifyRegistered` | registration: the name is looked up, the user is inserted with the session, the confirmation is requested |
| `BeginLogin`, `MakeTokens`, `SaveSession` | login: the tokens are made before the session is written |
| `BeginRefresh`, `ReadSession`, `NoSession`, `UpdateSession`, `UpdateRaises` | refresh: the row is looked up, and again when it is updated |
| `BeginLogout`, `DropSession`, `DropOthers` | logout, and logout of all others |
| `ClearKey`, `SetKey`, `ClearKeyFails`, `SetKeyFails` | the background task on Redis |
| `SaveLost`, `SaveUserLost`, `DropOthersLost`, `RequestFails`, `Restart` | lost commits, failures and restarts |
| `Accepts` | `auth_utils`: the signature, the life, the key in Redis |

A session id and a name are drawn from small sets, so a session that was not
drawn yet is one that nobody holds. Passwords are right or the request ends.
The unit of the clock is the life of an access token, and a request takes less.

### AuthRoles

`roles`, `grants`, `role` and `links` are the four tables. Tokens carry the role
and the permissions of the moment they were made; `held` and `granted` say when a
user had a role, and a role a permission, for the last time. A token takes two
queries, an assignment, an update and a connection a look-up and a write.
`MayLink` is the pair of unique indexes, `DestroyRole` the foreign key of the
users. `UpdateRole` saves the difference between what was asked for and what was
read, if the rows are still there (`Fits`); a conflict repeats it from the look-up
on (`UpdateAgain`). The login with an account that is not linked ends in an error
in the code and is left out.

### AuthAccounts

`row` has the columns of a user and the permissions of a role. A request
(`handler`) finds the row in one transaction and saves it in a later one:
`ChangeUsername`, `ChangePassword`, `AssignRole`, `ConfirmEmail`, `BeginUpdate`,
then `Save`, or one of `SaveFails`, `SaveLost`, `SaveRefused` and `GiveUp`.

- What is saved is what differs from what was read (`Saved`): the ORM writes the
  changed attributes only, so that two requests for two columns do not undo each
  other, and two updates of one role may leave some of both.
- A failed attempt rolls back, which expires the objects (`Repeated`): a column
  that the attempt sets is set again, but `confirm_email_user` sets
  `is_verified_email` before `make_commit`, whose second attempt finds nothing to
  write and reports success.
- `shown` is Redis with the answers of `get_role`, `get_roles` and
  `fetch_user_profile`, `sets` the background tasks. No write of a user drops the
  profile, and `create_role` leaves the list of roles.
- `meant` holds what a column may be after the requests so far, `past` what an
  answer might have said of late, `told` and `unsaved` who was told that the
  address is confirmed, and for whom an attempt to save it had failed.

### ContentActions

A behaviour follows one of the four collections for one film or one review.
`doc` is the document of each user and `id` its `_id`, `cache` the answers in
Redis, `tasks` the background tasks, each of which clears its key and, for a set,
writes it in a second step. Every write is in two steps, `Find` and `Save` or
`Delete`, as in `BaseRepository`: in between the document may be deleted or
inserted by another request, and the unique index refuses the second insert.

Which keys a write drops is `Keys`: the code drops the pages of the film and of
the author for a new or changed review, those of the author alone when it is
deleted, and none for likes. A score drops nothing either: the request computes
the average anew and starts a task that sets it.

| Action | Code |
|---|---|
| `GetAverageRating`, `GetReviews`, `GetUserReviews`, `FetchWatchlist`, then `Fetch` | a read that misses Redis asks MongoDB and starts a task that sets the answer |
| `SetUserScore`, `UpdateReview`, `AddBookmark`, `RateReview`, ..., then `Save` or `Delete` | a write: the document is found, then saved or deleted, and the tasks for the keys are started |
| `SaveRefused`, `DeleteNothing` | the unique index, or no document |
| `SaveUnseen`, `DeleteUnseen`, `AppendUnseen` | the write is done and its answer lost. `backoff` repeats it: an update is saved once more, a deletion looks for the document anew, an insert under another `_id` meets the unique index and ends as a 400 that drops no key |
| `Average`, `AverageFails` | `calculate_average_rating`, which nobody retries and nobody handles: when it raises, the score is saved and the old average stays in Redis |
| `Clear`, `Write`, `TaskFails` | the background tasks. A failing `destroy` inside `set` is logged, and `set` goes on |
| `RequestFails` | MongoDB refuses, or the process stops. A stop is the end of every request and task, each by its own failing action |

Two properties say what is left of the cache's promise.

- `AnswersAgeOut` has no exceptions: `since` is when a document was last written, and
  nobody is shown what this write replaced for longer than `CacheLife` after it.
- `WritesAreShown` says when the answers are right before that: once the averages and
  tasks are done, every answer in Redis shows the writes, unless its key is in
  `excused`. A key gets there by a task that puts an answer into Redis which a later
  write changed (`overtaken`), and by a failure that keeps what is in Redis (`Kept`: a
  lost task, a lost answer, an average that raises). It leaves with the answer.

"Shows the writes" is `Good`: the answer of the film may show a review that is gone,
but never an old text of one that is there, and the average is that of all scores
as long as there is one.

### EmailSender

`waiting` is the queue, `current` the message the consumer holds, `mailStep`
where it is (the key in Redis, the template, SMTP, the report), `noting` the
background tasks that write the key and `noted` the keys. `ConsumerEnds` is an
exception that is not caught, after which the process lives on without a
consumer until it is restarted. `lapses` counts the notes that were not made, not
read or have expired, and is the budget of `MailedBounded`.

### RecsProfile

`topic`, `position` and `committed` are the log and the two offsets, `handling`
the step of each event of a batch, `recs` the table and `view` the same with what
the open transaction of the one session has written. A commit of one handler
commits what all have flushed; its `Close` rolls back what others have flushed
since. `SessionFails` is a call that SQLAlchemy refuses because another one is under
way in the session, or one that fails in PostgreSQL: the handler rolls back and tries
again, or gives up.
The selection of the surplus rows sees what the neighbours have flushed, and may
delete a row that nobody has committed yet: this happens when a batch is longer
than `count_rec_for_user`, as with the 100 and 3 of the code. `dropped` and
`undone` keep what all this may have cost.

### ShortLinks

`link`, `uses`, `archived` and `expired` are the table, `writing` and `visit` the
requests. `CheckPath` and `Insert` are two transactions and the unique index is
between them. The redirect locks its row with `SKIP LOCKED`, so that a visitor who
meets another one is told that there is no such link (`NotFound`).

### EventGenerator

An `Order` is a run of the weekly job, a form of a manager or a template. Each
ends in a write that is repeated up to `MaxTries` times, also when only its answer
was lost (`PostLate`), so that a mailing may exist several times; `late` counts
these.

### MetricEtl

A metric is a valid row, one that is not valid, or no JSON. `reading` is the
position of the consumer and `consumed` the offset committed by hand: `Commit`
commits the position, with the batches that were left before. One row that is
not valid leaves a hole in its batch, which ClickHouse refuses as a whole.

### EmbeddingEtl

A text is the number of its version, an embedding the version it was made of.
`mark` is `last_run` in Redis with its end, `etlRun` the run with its window, its
cursor and the page it works on. The pages are ordered by the time of the change,
which the bulk update sets to the start of the run and others to the present, so
that the order moves under the cursor.

A search is near-real-time: it finds the index as of its last refresh, which the
settings of the index ask for once a second, while the bulk update writes by `_id`
and at once. `found` is the index as a search finds it, `Refresh` brings it up to
date at any time, and `Wanted`, `Page`, `BuildTexts` and the cursor are made from
`found`. So a film changed just before a run is missed by the search and passed by
the mark, and a page read just after a change carries the old text, over whose
change the bulk update writes the start of the run.

`forgiven` keeps the films whose last change a gap of the protocol may lose: a
change while the page is embedded or in the millisecond of the start; one that no
search finds yet (`Unseen`) when its film is on a page, when the cursor passes it, or
when the run ends (`Passed`); an item that the bulk update refused; a mark that
has gone. A later change takes the film out again. `NotForgotten` says that
nothing else is lost: not by paging over an order that the run itself changes, not
by failed runs, and not by changes elsewhere during a run.

### RateLimiter

`counter` is the count of a minute with the end of its key, `bucket` the list of
the leaky bucket, `call` where a call is and what it has read. The counter is one
transaction of Redis; the bucket is read and appended to in two calls. `raced`
and `outrun` keep which calls met in between. When Redis gives no answer a call
passes, and the counter may have been raised, or the time appended, all the same
(`CountFails`, `AppendFails`).

### Catalogue

`filmType` is the index, `answers` the cache of all users, `puts` the background
tasks that fill it. `Categories` and `MayView` are the two places that decide who
may see what: the filter of a list and the check of a single film. A key of the
model stands for all pages and orders of a list; which of the questions is part
of the key, and which is not, is the code's. `query` is the request of
nl-consumer, which asks async-api for films by a vector. `lastAs` keeps when a
film had a type last.

`Allowed` is what each endpoint means to show: a film alone and the lists what the
permissions let pass, the recommendations all but archived films to everybody who
has logged in, the trends and the films of a person all films to everybody.

## 3. Runs

| Run | Bounds | Shows |
|---|---|---|
| `notification_safety` | 2 processes with 2 tasks each, 2 notifications of 5 kinds, 2 profiles, hours 2, 15 and 36, 2 failures | `TypeOK`, `ExclusiveClaim`, `PublishedAtMostOnce`, `ConsentRespected`, `DeferredUntilOpening`, `StatusMatchesQueue`, `IndInv`, refinement `LifecycleHolds` |
| `notification_liveness` | the same with batches of one, well-formed requests, no failures | `EventuallyProcessed` |
| `notification_report_lost` | violation of `ReportSticks` | a report is overwritten by SENDING |
| `notification_poison` | violation of `EventuallyProcessed` | one malformed like ends the processing |
| `mass_mailing` | 2 mailings, 1 to 4 users, pages of 2, 2 failures, 1 move | `TypeOK`, `DuplicatesBounded`, `SentMeansEveryone`, `SentIsFinal`, `SmallMailingSent` |
| `mass_pages` | violation of `MailingSent` | a second full page ends the ETL |
| `ws_delivery` | 1 notification, 2 connections, 2 users, 2 failures | `TypeOK`, `SentMeansShown`, `ShownToOwnerOnce`, `NothingVanishes` |
| `ws_reports` | 2 notifications, 1 connection, no failures | `EventuallyReported` |
| `ws_second_session` | violation of `ActiveSessionIsKnown` | closing one tab makes the other unreachable |
| `auth` | sessions: 1 user, 2 sessions, 2 requests, access tokens of 1 unit and refresh tokens of 2, clock to 3, 1 failure; roles: 2 users, 2 roles, 2 permissions, 1 account, 1 token at a time, 3 changes; accounts: 1 user or 1 role, 2 requests, 2 background tasks, answers of 1 unit, clock to 3, 1 failure | `TypesOK`, `RevokedIsRefused`, `NoTokenAfterLogout`, `OneUserPerName`, `GrantsAgeOut`, `RowsAgree`, `AccountsAgree` |
| `content_actions` | 2 users, 2 requests, 2 background tasks, 2 writes, answers of 1 unit, clock to 3, any number of failures | `TypeOK`, `AnswersAgeOut`, `WritesAreShown` |
| `services` | per module, see below | `MailedBounded`, `MailReported`, `RecsBounded`, `EventsKept`, `LinksAgree`, `OneOrderOneMailing`, `MetricsLoaded`, `NotForgotten`, `LimitsHold`, `ShownIsAllowed`, `RestrictionTakesHold` |

Why the bounds are enough. Two notifications and two processes are the smallest
instance in which tasks of different processes, and the two tasks of one, compete
for a row while one of them holds another; the proofs remove the bound for the
safety properties. The hours 2, 15 and 36 are, in the two zones 0 and 21, before
the window, in it and after it, and the next day at noon and exactly at 9. Two
failures allow a second one while the effects of the first last (a crash after a
lost commit, a restart after a raised ETL). A page of two makes three users a
full page and a short one, and four users two full ones, which is where the code
breaks. One notification suffices for the web sockets because the handling of
different notifications shares only the dict of connections and the consumer,
which is sequential; two connections are what it takes for one to disturb the
other.

In `auth` two sessions of one user are what a logout of all others takes, and two
requests what a refresh needs to meet it; the clock reaches the end of a refresh
token that was made first. Two roles and two users let an assignment meet the
deletion of its role, and two permissions let two updates of a role merge. One
user or one role is enough for `AuthAccounts`, whose properties are about one row
and one answer. In `content_actions` two writes replace a document, or
delete it and insert it again, while a read and a background task hold the old
one; the clock reaches the end of an answer that was put into Redis a unit after the
first write. Both runs use the symmetry of the sessions, requests, users and tasks that no
property names and that all start alike.

What the bounds of `services` allow: two mails, of which one is delivered again
while another waits, and three failures (a lost note, a restart, a report); four
events of one user in batches of two with one row to keep, so that the surplus
is deleted while a neighbour of the batch commits, and the row of a neighbour is
part of it; two authors for two paths, and
two visitors who meet on one in three visits; two orders of every kind with three
attempts; four metrics in batches of two, so that a batch that was left is behind
one that is committed; two films in pages of one, edited twice around runs whose
mark lives for two units, with a refresh of the index at any time and the clock to
three; three calls around the limit of one, with a minute of
three units; two films of any type, of which one changes, and an answer at a time
that lives for two units. An answer is enough because the properties are about
one key; the theorems have no such bound.

Every run says `CHECK_DEADLOCK FALSE`: when everything is processed an idle
system may stop, and the clock and the failures are bounded.

### Fairness

`NotificationService`: weak fairness of `Tick` and of the steps of each task;
asyncio runs every ready coroutine, `sleep` returns, and every call to a store
ends (timeouts), by an answer or by an exception. `MassNotification`: the same
for the three tasks and the job of each mailing. `WebSocketSender`: for the
consumer, each handler, each background task and the report loop. No fairness is
assumed of clients, callers, failures or reports. The liveness properties ask
nothing after a failure (`MaxFaults = 0`, or `\/ faults > 0`): the code has no
recovery for a task that has ended, so nothing could be promised. The other
modules state safety only: their requests end with an error after the last
attempt, their background tasks may fail in silence, and their consumers end with
an exception, so that nothing happens there for certain.

## 4. Findings

Shown by a run:

1. A report that arrives before the batch is written back is overwritten by
   SENDING, for ever: the senders report once (`notification_report_lost`).
2. A like without `film_id` or `liked_by_user_id`, which the API accepts, raises
   in the enrichment and ends the only task for new notifications
   (`notification_poison`).
3. With two full pages of profiles (100 users) the ETL adds 1 to a string and
   ends; the mailing is never completed (`mass_pages`).
4. The end of one web socket of a user removes the entry of the other
   (`ws_second_session`).

Seen while reading, and part of the models, where a property states what is left
of the promise (its name in brackets):

- The hour is looked at when a notification is sorted, not when it is sent: a
  backlog of deferred ones goes out at night (`DeferredUntilOpening`).
- A failure to show a notification that is noted late overrides the reported
  success (`SentMeansShown`).
- A redelivered message whose mail was sent counts as a failure, and is reported
  as one over the success; an SMTP connection that is refused ends the consumer
  (`MailReported`).
- `calculate_average_rating` has neither a retry nor a handler: when it raises, the
  request fails, although its score is saved, and the old average stays in Redis. An
  insert whose answer was lost is repeated under another `_id`; the unique index
  refuses it, and the caller is told 400 of a document that is there (`WritesAreShown`
  names both, `AnswersAgeOut` bounds them).
- The search of embedding-etl does not find what was changed within the refresh
  interval before it, and the mark passes it, for ever (`NotForgotten` names it).
- Deleting a review leaves the list of the film stale, the last score that is
  withdrawn stays the average, and likes drop no list (`WritesAreShown`).
- A score that is not high leaves a recommendation as a high one does, although
  the log says otherwise. Of the vectors of a film the supplier keeps the last.
- The session that the handlers of a batch share lets one roll back what another
  has flushed (`EventsKept`, `RecsBounded`).
- A batch of metrics with one row that is not valid is refused as a whole, and
  left (`MetricsLoaded`).
- A mailing whose answer is late is created again by each attempt
  (`OneOrderOneMailing`); a form without `template_id` is refused although the
  schema makes it optional.
- A visitor who meets another one on a link is told that there is none
  (`LinksAgree` counts the others).
- The key of the leaky bucket is that of the caller, whatever the endpoint; its
  list is never shortened, and `bucket_size` is not reached: it lets a call pass
  when the last one is older than the interval (`LimitsHold`).
- A logout of all other sessions whose commit was done and its answer lost finds
  nothing to delete in the next attempt, and revokes no token (`RevokedIsRefused`
  asks for no failure).
- An update of a role that meets another one leaves the permissions of both and
  answers with its own (`AccountsAgree`). The confirmation of an e-mail whose
  commit failed once is reported as done, and not saved (`ConfirmedIsSaved`, a
  part of it, asks for no failure).
- The suppliers of nl-consumer wrap exceptions, so the retries around them never
  see the ones they wait for.
- Recommendations, trends and the films of a person do not depend on the
  permissions of the caller (`Allowed`); the search of persons lists a person who
  has films twice.

## 5. Proofs

`NotificationService_proofs` proves, for any sets of notifications, processes,
requests, profiles and hours and any bound on failures:

| Theorem | Statement |
|---|---|
| `TypeCorrect` | `Spec => []TypeOK` |
| `ClaimsAreExclusive` | no two tasks hold the same row |
| `NeverPublishedTwice` | a notification is published at most once |
| `StatusAlwaysMatchesQueue` | the status claims no more and no less than the queue got |
| `ConsentIsRespected` | no e-mail of ordinary priority without permission |
| `DeferredWaitForOpening` | what was put off is not published before the window opens |
| `IndInvIsInvariant` | the inductive invariant |
| `ImplementsLifecycle` | the service implements `NotificationLifecycle` |
| `NextSendTimeIsOpening` | the computed time is the first opening, at most 24 hours ahead |

The only assumption is `ConstantsAssumption`, which TLC evaluates in every run.

The properties are not inductive by themselves. That a row is published at most
once needs to know that a row in the hands of a task was not published yet
unless it has left `todo`, that held rows are PROCESSING in the table or were
moved on by a report, and that nobody else holds them; `TaskInv` states what a
task may hold at each place of its loop. Consent needs `ConsentInv`: the
permission was found before a row was queued or put off, and `profile` is set
once. Deferral needs `DeferInv`, which follows the computed opening from the
memory of the task into the row and back into the `todo` of the delayed task.
`IndInv` is their conjunction. Each part has a lemma per action that can disturb
it, and one step per action joins them; the theorems are `PTL` consequences.
The refinement is proved step by step under `IndInv`: every action maps to a
step of the abstract module or to a stutter.

`MassNotification_proofs` proves, for any mailings, users and orders of the list of
profiles, any size of a page and any number of failures and moves:

| Theorem | Statement |
|---|---|
| `MailTypeCorrect` | `Spec => []TypeOK` |
| `MailDuplicatesBounded` | a user gets no more rows than one, and one for each failure and each profile that has moved |
| `MailSentMeansEveryone` | a mailing that is SENT has reached everybody, as long as no profile has moved |
| `MailSentIsFinal` | a mailing that is SENT keeps its status and its rows |

They assume `MailingAssumption`: a roster lists a user once, and a page has at
least one place. `MailInv` follows the pages. While no profile has moved,
everybody before the page whose number is in Redis has a row, and so has
everybody before the page a job is at (`ReachedInv`); a page that is not full is
the last one, which `LastPage` derives from the fact that a roster lists a user
once, so that a full page has as many users as places. For the bound on
repetitions (`FreshInv`), who is on the page of a job or behind it has one row
less than the bound: `CreateNotifications` uses up this one, and a failure, which
may send the job back to an earlier page, or a move, which may put a user behind
the page again, gives everybody one more. Only a mailing that is SENDING has a
job that adds rows (`JobInv`), which is why SENT is final.

`WebSocketSender_proofs` proves, for any notifications, users and connections and
any number of failures:

| Theorem | Statement |
|---|---|
| `SenderTypeCorrect` | `Spec => []TypeOK` |
| `SenderSentMeansShown` | what is reported as sent was written to a connection |
| `SenderShownToOwnerOnce` | it is written to connections of its owner only, and to each once, or once more for each failure |
| `SenderNothingVanishes` | without failures, what has left the queue was shown or waits in Redis |

They assume `SenderAssumption`: every notification has an owner, and `None` is not
a connection, a notification or a user. `EvidenceInv` names everything that says
a notification was sent, or that lets its key be deleted: the report, the keys
the report loop has read, the key, both background tasks and the consumer that
has just written; none of them exists before the notification was shown, and a
notification that was shown stays so. `SessionInv` says that the dict holds
connections of the user it is asked for whose handler has not left, which is also
why a restart takes the connections with it. On this rests `TwiceInv`: a
connection can be given a notification by the consumer, which needs the message
in the queue, and by its own handler, which needs the key among those it has
found, and each of these ways is used up by being used. So two is the most that a
connection sees, and two take a failure: without one the consumer handles a
message once (`OnceInv`), and what it puts into Redis (`Kept`) it has not shown.
`KeptInv` is `NothingVanishes` for a consumer that has not acknowledged yet.

`AuthSessions_proofs` proves, for any users, sessions and requests at a time, any
lives of the tokens and any number of failures:

| Theorem | Statement |
|---|---|
| `AuthTypeCorrect` | `Spec => []TypeOK` |
| `AuthRevokedIsRefused` | without failures no service accepts a token of an ended session once the background task has run |
| `AuthNoTokenAfterLogout` | no request gives a token that was made after its session ended, whatever fails |
| `AuthOneUserPerName` | registrations that meet leave one user with a name, whatever fails |

They assume `AuthAssumption`: an access token lives no longer than a refresh token
and longer than a request, and `None` is no user and no session. An id that was
drawn is known to the request that has drawn it alone, until the session is saved
(`FreshInv`), and an id that was not drawn is known to nobody (`UnusedInv`). So a
session that has ended is not saved again (`LeftInv`), and a refresh, which looks
the row up before it answers, gives tokens of sessions only that have not ended.
A registration answers after it has saved the session, which may have ended by
then: its tokens were made before (`HeldInv`). When a row is deleted, every token
of its session was made by then (`TokenInv`), so none lives longer from then on than
its kind does. The key in Redis is set later than that, and for the life of a refresh
token; `DeniedInv` says that without failures it outlives them all, or that a task is
under way that will set it, although each task deletes the key first.

`Catalogue_proofs` proves, for any films, any life of an answer and any number of
changes, requests and background tasks at a time:

| Theorem | Statement |
|---|---|
| `CatalogueAllowed` | whoever has filled the cache, nobody is shown a film of a type that is hidden from them |
| `CatalogueRestriction` | a film is shown, or missing in a list, for no longer than the life of an answer and a unit of the clock after its type has changed |

They assume `CatAssumption`: the life is a natural number, and the mark of a
missing film is no type. That the lists and the check of a single film agree for
every set of permissions is a lemma of its own (`CategoriesAgree`). The rest is
an invariant of the entries: `Entry` says of an answer, in Redis or in the hands
of a background task, that each film in it had its type at the time of the look
at the index, and that this type is one that the key may carry; and of the films
missing in a list that they had another type. An entry keeps saying so while the
index changes, because the history of types only grows (`EntryStays`), every
query makes one that is true of the present (`EntryMade`), and a task passes its
entry on with the rest of its life (`PutKeeps`). `CatInv` adds how far the clock
may be ahead of tasks and requests.

`Auth_proofs` and `Services_proofs` are about the compositions `MCAuth` and
`MCServices` as TLC runs them, for every value of their constants. A step of a
composition is a step of the module in focus while the others rest, so that
`MCSpec` implies the specification of each module in the behaviours that have it
in focus (`MailOnly`, `RecsOnly`, ...), or its inductive invariant is carried
along (`FollowedInv`).

`Auth_proofs` proves, for any users, roles, permissions, accounts and requests at
a time, any lives of tokens and answers, and any number of failures:

| Theorem | Statement |
|---|---|
| `TypesAlways` | `MCSpec => []TypesOK` |
| `GrantsAgeOutAlways` | a role or a permission that was taken away is good for the life of an access token and a unit, no longer |
| `RowsAgreeAlways` | racing changes leave users roles that exist, and every account one user |
| `AccountsAgreeAlways` | a column holds what was asked for, a confirmation that was reported was saved, and an answer in Redis is or was true |

They assume `RoleConstants` (the first and the admin's role are roles, a token lives
for a unit at least), `AccConstants` (a user is no role, and neither is the key of
the list of roles) and `AuthAssumption`. `RoleInv` follows a role from the row into
the token: a request has read it less than a unit ago, so it was had at that time
(`RoleReqInv`), what is had now is had until now (`NowInv`), and a token ends a life
after its permissions, and a life and a unit after its role, were had last
(`RoleTokenInv`). In `AccInv` a column that a request asks to keep as it has read it
still holds that, or a value of somebody whom the request has met (`Followed`);
this is why saving the differences brings nothing back. A confirmation writes the
mark in its first attempt, and in a later one is already in doubt or saved
(`Confirms`). An answer is true or was true at a time that is not longer ago than
it has lived (`Recent`), which holds of background tasks and of Redis alike; a
write moves what was true to `past`, and the clock drops from `past` what no
answer can say any more.

`ContentActions_proofs` proves, for any users, requests and background tasks at a
time, any life of an answer and any number of writes:

| Theorem | Statement |
|---|---|
| `ContentTypes` | `Spec => []TypeOK` |
| `AnswersAgeOutAlways` | nobody is shown what a write replaced for longer than the life of an answer after it, whatever overlaps or fails |
| `WritesAreShownAlways` | once averages and tasks are done, an answer shows the writes, unless a later write overtook it or a failure kept it |

They assume `ContentAssumption`: lives and the clock are positive, and the key of the
film is no user. Both properties rest on `ContentInv`. For the first, an answer that
was read at some time lacks only what was written since (`Reflects`): that is so when
it is read, a write moves `since` on with the document, and a task takes less than a
unit, so that an answer ends its life and a unit after it was read at the latest
(`LifeInv`). The second speaks of quiet states only and says nothing of how they are
reached. `CacheInv` says of every state that the answer of a key that is not excused
is `Good`, or that somebody is under way who replaces or drops it (`Pending`: a task
for the key, or a request that is going to compute the average). What a task will put
into Redis is good unless a write has overtaken it (`TaskInv`), which excuses the key
once it is there. A write makes an answer bad only where a task is started that drops
it or the average is due, or where the answer is lost and the key excused.
`TasksMove` and `DocMoves` say once what a step can do to the tasks and the documents,
and `CacheStep` takes the ways in which an answer can get into Redis, stay or go.

`Services_proofs` proves, for every number of mails, events, paths, authors, visitors,
orders, metrics, films and calls, any size of batches and pages and any number of
failures:

| Theorem | Statement |
|---|---|
| `MailIsBounded` | nobody gets a mail twice unless the note of the first was lost: `MailedBounded` |
| `MailReportIsTrue` | SENT is reported of mails that went out, FAILED without a failure only of others, and no message is lost: `MailReported` |
| `RecsAreBounded` | a user sees less than a batch of rows more than the limit, and one for each deletion that was rolled back: `RecsBounded` |
| `EventsAreKept` | an event is to be read, in the batch, has left its row, or has met a failure or a neighbour: `EventsKept` |
| `LinksAgreeAlways` | a path leads to the URL of the author it was told to, and every visit is counted: `LinksAgree` |
| `OrderIsMailedOnce` | an order exists once, and once for each late answer, up to the number of attempts: `OneOrderOneMailing` |
| `MetricsLoadedAlways` | what is behind the committed offset is in ClickHouse unless its batch was left, and how often: `MetricsLoaded` |
| `NothingIsForgotten` | a stale embedding is one that the next run takes, but for the named gaps: `NotForgotten` |
| `LimitsAlwaysHold` | how many calls pass the counter in a minute, and which the bucket: `LimitsHold` |

The assumptions are those of `MCServices`: the bounds are natural numbers, a batch, a
page and a number of attempts are not zero, and `None` is no mail, path or author. The
minute of the limiter has three units at least: a call reaches Redis a unit after it
was made at the latest, and the key of a minute lives for one unit less. The 60
seconds of the code are far above.

- `EmailSender`: `PlaceInv` says that a message is in the queue, in hand or settled,
  and only one of these. A mail whose note is being made or was made is not about
  to be sent, and who is about to send has used up less than the bound allows
  (`MailCountInv`): the lapses count each note that was lost. Without failures a
  message is looked at once (`FirstInv`), so what is reported is what the one delivery
  did.
- `RecsProfile`: `RoomInv` counts, with the rows that the session sees, those that
  handlers are about to add (`Adders`): a selection makes room for one, and a
  rollback brings back what others have deleted, one more for each of them
  (`undone`). The batch bounds the adders, and so the rows. In `KeptInv` a handler that
  is about to commit has its row in the session, or the row was taken away, which
  `dropped` names.
- `ShortLinks`: who has counted a visit in memory holds the row, alone, with a count
  that is one more than the one in the table (`LockInv`). So nobody writes back a
  stale count, and the table always has the sum of the visits that were sent on and
  of those that were not (`LinkCountInv`). A row is not written again by an insert
  (`LinkToldInv`).
- `EventGenerator`: an order that is being written has no more late answers than
  attempts behind it, and none before (`LateInv`).
- `MetricEtl`: a commit moves the offset to the position of the consumer, wherever
  it came from. `BehindInv` says that whatever is behind the position is loaded, left,
  no JSON, or in the batch that is still to be loaded, and a commit follows a load;
  `CommittedInv` says the same without a batch for what is behind the committed
  offset, which is where a restart goes back to. What may be loaded again has been
  loaded once less than the bound (`OnceInv`), and a restart raises the bound. A row
  of a batch and the one that spoils it are less than a batch apart
  (`MetricBatchInv`, `LeftInv`).
- `EmbeddingEtl`: during a run, too, a stale film is one that the old mark would find
  (`MarkInv`). Besides it is in the page, behind the cursor, or was changed after the
  start of the run (`RunInv`); at the end nothing is left behind the cursor, and the
  start becomes the mark. The pages are made from what a search finds, and the
  argument is about the films as they are: a stale film whose last change a search
  does find is found at the time of that change (`FoundInv`), so it has its place in
  the order, and one whose change no search finds yet is either ahead of the cursor
  still, and may be found by the next page, or forgiven when the cursor passes it.
  That a page holds the first films, so that the cursor
  passes none that it has not taken, needs an order on the keys of the pages
  (`PageKey`) and the well-foundedness of the numbers.
- `RateLimiter`: a key of the counter that ends so early that it is the first of its
  minute has counted every call, and one that ends later may have replaced one that
  let `Limit` of them through (`CountInv`); a counter that was raised for a call whose
  answer is lost only has less room (`RaiseStep`); a third key would begin after the minute
  and the delay of a call. A call that passed the bucket is in the list with no older
  one behind it, unless it was overtaken (`BucketInv`), and in what a later call has
  read, unless they met.

Two of these properties hold for a reason that small bounds hide. `EventsKept`
depends, for batches longer than the number of rows to keep, on `Select` noting that
it deletes what a neighbour has flushed; the run has such a batch for this. `LimitsHold`
is false for minutes of less than three units, in which a third key begins.

Every safety property that a run expects to hold is a theorem. Model-checked only:
the liveness properties `EventuallyProcessed`, `SmallMailingSent` and
`EventuallyReported`, whose proofs need fairness and ENABLED, which are out of reach of the
installed provers; and that the violations of section 4 happen, which takes an
example and no proof.


## 6. Not modelled

Wording and layout of messages, templates and logs; HTTP status codes; tracing;
the schema migrations; passwords and hashes. Of auth-service: the list of
logins, and the link and the notification that carry the token with which an
e-mail is confirmed. Of async-api: genres, which nothing
restricts, and the order and the pages of lists. Of content-actions-service: the
check in async-api that the film exists, which only refuses. Loss of messages
inside RabbitMQ (quorum queues with confirms) and of committed rows in PostgreSQL
is not assumed. admin-panel, tracer_utils and the infrastructure have no logic of
their own; `PROJECT.json` has the reason for each.

Of content-actions-service: a background task is taken to end within a unit of the
clock after its answer was read, so an outage of MongoDB between the two queries of a
watchlist is left out; the second review that a repeated insert leaves is not
followed, and neither are the likes and scores inside the list of reviews. Of
embedding-etl: the index has one shard, and a refresh shows all of it at once. Of
metric-service: the ETL drops a whole batch when a message fails to decode otherwise
than as JSON (`extract.py:33-36`), which metric-api, the only producer, cannot cause.
Of recs-profile: a commit of the session that is done while its answer is lost.

## 7. Plan

Done: the modules above, and the proofs of all their safety properties. What is
left, in this order:

1. The way of the token that confirms an e-mail, which joins `AuthSessions`,
   `EventGenerator` and `ShortLinks`.
2. An abstract specification of a sender, which `EmailSender` and `WebSocketSender`
   both implement, with the refinements proved as `ImplementsLifecycle` is.
3. The whole chain from an order to a report in one state, with the modules as
   processes that share the queues.
