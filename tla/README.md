# A verification of gitorc

TLA+ models of the parts of gitorc that keep state and serve several things at
once, TLC configurations that check them on small instances, and TLAPS proofs of
the most important properties for every instance. `PROJECT.json` maps each
definition to the lines it models; paths below are relative to the repository's
`src/`, and `gatewayapi/`, `gitapi/`, `platform/` stand for `gitorcapi/internal/gatewayapi/`,
`gitorcapi/internal/gitapi/`, `gitorcapi/internal/platform/`.

## The system

| Component | State it keeps | Operations | Interacts with |
| --- | --- | --- | --- |
| Signup and review (`gatewayapi/api.go`, `signup_requests.go`, `local_auth.go`) | tables `local_auth_accounts`, `signup_requests` | sign up, review, insert the default administrator | login (reads the accounts), the Ruby app (writes the same requests table) |
| Session store (`gatewayapi/api.go`) | map from token to user and expiry, behind a read-write lock | open, look up, expire, log out | login opens; every guarded handler looks up |
| Login (`api.go`, `local_auth.go`, `auth_ldap.go`) | none of its own | find or insert the administrator, check local account, ask LDAP, open a session | accounts table, LDAP, session store |
| Repository store (`gatewayapi/projects.go`) | a directory, its git config and a metadata file per name | create, import, list | git processes, the file system |
| Cloud overview (`gatewayapi/cloud_live.go`) | none; marks layers of the overview | ask Rancher, ask Keystone | Rancher, OpenStack; runs inside every page of the gateway |
| Service harness (`platform/app`, `platform/security`) | HTTP and gRPC servers, readiness | enrol in the directory, serve, stop | LDAP directory, signals, orchestrator |
| Git access (`gitapi`, `services/ruby-app`, `infra/git/ssh`) | none; tokens carry their claims | issue, authorise a command, verify, run | the login script, the Ruby app and the git service in a row |
| Notifiers (`platform/slack`, `platform/discord`) | configuration and a lazily made manager | send with retries, handle events and commands | Slack, Discord, the context of the sender |
| Ruby application (`services/ruby-app`) | tables, one kept connection per process, a Redis counter and queue | projects, webhooks, wiki, billing, tokens | PostgreSQL, Redis, Sidekiq |
| Billing SDK for Python (`sdk/python`) | queue, stop event, unfinished count | emit, emit_batch, flush, close | the application's threads, the billing API |
| Billing SDK for Node (`sdk/nodejs`) | queue, pending count, timer | emit, emitBatch, flush, close | the billing API |
| Web application (`gitorcweb`) | React state per tab, a token in local storage shared by tabs | restore, sign in, sign out, load the dashboard | gateway, over several base URLs |
| Runtime policy (`infra/policy/opa`) | none | one decision | nothing in `src/` evaluates it |
| Static services, launchers, infrastructure | none | — | — |

What is hard about them:

* **Two writes without a transaction.** A signup writes the account, then the
  request; a review writes the request, then the account; a project and its
  repository; a webhook and its job. Other requests, a lost answer, a deadline or
  a stalled database come between.
* **Check, then act.** `os.Stat` before `git init`, an LDAP search before an add,
  a lookup of the administrator before its insertion, a comparison with the clock
  between two locks, a token verified before the command that runs later.
* **Failure half way.** A repository directory without metadata, a truncated
  metadata file, a start that registered one identity of three, a batch of
  events given up, a project without its repository.
* **Waiting.** Login statements, `git clone` and `GracefulStop` have no deadline;
  signup and review have one; `Queue.join` waits for a counter, Node's `drain` for
  callbacks; a job, a batch and a message are retried a number of times.
* **State kept too long.** A database connection that is never opened again, a
  session that outlives a decision, a context that ends before the work it was
  given to, a flag of a form that nothing resets.
* **Late answers.** A dashboard, a session check or a sign-out that returns when the
  tab has another user, or another tab has.
* **Two parties that must read one thing alike**: letter case in accounts, a
  command parsed by two services, rows of one table written by two programs.

`PROJECT.json` lists each hazard at its line with the properties that cover it.

## Modules

| Module | Models | Checked by | Proved in |
| --- | --- | --- | --- |
| `AccountTables` | the rows and unique indexes of the two tables | extended by the next four | — |
| `SignupReview` | signup, review, bootstrap and the Ruby signup, statement by statement | `MCSignupReview` | `SignupReviewProofs` |
| `ApprovalLedger` | abstract: how a standing and a verdict may move | implemented by `SignupReview` | `SignupReviewProofs` |
| `AccountDirectory` | abstract: how the accounts table may move | implemented by `SignupReview`, used by `GatewayLogin` | `SignupReviewProofs` |
| `GatewayLogin` | logins, over `SessionStore` and `AccountDirectory` | `MCGatewayLogin` | `GatewayLoginProofs` |
| `SessionStore` | the session map and lookups under the lock | instantiated by `GatewayLogin` | `GatewayLoginProofs` |
| `RepositoryStore` | create, import, and the view every page starts with, cloud calls included | `MCRepositoryStore` | `RepositoryStoreProofs` |
| `ServiceRun` | the life of replicas of one service | `MCPlatform` | `PlatformProofs` |
| `EventQueue` | abstract: events are put, leave once, and a wait ends when what it waits for has left | implemented by the next two | `BillingWorkerProofs`, `NodeWorkerProofs` |
| `BillingWorker` | the Python SDK | `MCBillingWorker` | `BillingWorkerProofs` |
| `NodeWorker` | the Node SDK in asynchronous mode | `MCNodeWorker` | `NodeWorkerProofs` |
| `RubyStore` | the Ruby application's web and Sidekiq processes over one database | `MCRubyStore` | `AccessProofs` |
| `GitAccess` | tokens for git: script, application and git service, with two clocks | `MCGitAccess` | `AccessProofs` |
| `Notifier` | the send loop of both notifiers and the work that sends | `MCPlatform` | `PlatformProofs` |
| `WebSession` | the sign-in state of the tabs of one browser | `MCWebSession` | `WebSessionProofs` |

`GatewayLogin` composes: it takes `SessionStore` by INSTANCE with its users bound
to accounts, and lets the accounts table move as `AccountDirectory` allows, which
`SignupReview` is shown to implement. So the login is checked against what the
signup and review handlers promise and not against their steps. A review needs a
worker whose visit is being served under an administrator's session. The other way
round, every step of `GatewayLogin` is shown to be a step of the store or none
(`Spec => Sessions!Spec`), so the theorems about the store hold there too. `WebSession`
takes of the store the set of sessions the gateway accepts, and `GitAccess` takes the
application's authorisation as one step, whose statements are in `RubyStore`.

`GitAccess` and `RubyStore` answer one question, who gets at which repository, and
`ServiceRun` and `Notifier` are both `platform/`: each pair is proved about in one module.
`ServiceRun` and `Notifier` share no state, so one run checks both: each behaviour of
`MCPlatform` shows one of them at work, beside an initial state of the other.
`RubyStore` and `Notifier` therefore put a prefix before the names every module has
(`StoreSpec`, `StoreTypeOK`, `NotifierSpec`, `NotifierTypeOK`).

Definitions whose names start with `Slip` are small mistakes one could make in
the definition that follows them. Nothing uses them: they are there to show,
by putting one in place of the definition, that a property would notice it.

### How the models correspond to the code

One worker is one goroutine (or thread); its record names the step at which it
stands and holds its local variables. One action is one statement on the
database, one operation under a lock, one git command, one LDAP operation or one
network attempt, with the code around it that touches nothing shared.
Branches on errors are disjuncts or actions of their own (`StatementFails`,
`BuildFails`, `DirectoryFails`, `NoAnswer`).

* **`SignupReview`.** `job` is the handler's progress, `accounts` and `requests` are
  the tables. `StartSignup`, `InsertAccount`, `InsertRequest` are `handleSignup`;
  `StartReview`, `UpdateRequest`, `SyncAccount` are `handleSignupRequestReview`. A
  committed statement may be *unheard*: its context ended first and the handler
  answers 500 for work that was done. The time out of the signup's and review's
  five second contexts is `StatementFails`, or `Abandon` where the statement goes on at
  the server and may commit after the 500 was read; whether the database answers is `db`.
  Passwords and validation texts are left out; a payload that is refused is
  `RefusePayload`.
* **`SessionStore`.** `store` is the map; a lookup is `Present` (read lock),
  `CheckExpiry` (no lock), `Purge` (write lock). Tokens are never issued twice.
* **`GatewayLogin`.** `FindAdmin` and `InsertAdmin` are
  `ensureDefaultLocalAdminAccount`, `LoadAccount` is `authenticateLocalUser`, `AskLdap`
  is the fall-back, `OpenSession` stores the session. `Lower` is SQL's `lower`: it
  lets `admin` and `Admin` be two rows and one login name. A stalled database only
  makes a login wait, so it is left out where only safety is claimed.
* **`RepositoryStore`.** `dir`, `head`, `http` and `meta` are what stands on disk.
  `os.WriteFile` is `Truncate` and `Write`, because a reader may come between; two
  writers may leave a mix (`Garbled`). `git clone` is `CloneBegins` and `CloneEnds`;
  failing, it removes its directory with what others wrote there. `Crash` is the
  end of the process with all its workers. A view is `overviewData`: it reads the
  metadata entry by entry, then asks Rancher and Keystone where they are set up.
  `doCloudJSONRequest` gives `http.NewRequest` a nil `*strings.Reader` as an
  `io.Reader`, which is not nil, so the call panics as soon as the URL has parsed; net/http
  catches that and drops the connection (`Drop`). So what the code does with an
  answer of Rancher (`applyRancherSnapshot`, `mergeClusters` and their helpers) is never
  reached, nor is Keystone's identity endpoint; the token request to Keystone itself is
  made without that function and can succeed.
* **`ServiceRun`.** `at` is where `Run` is, from the first LDAP search to
  `Shutdown`; each `ensureDirectoryIdentity` is a search and an add. Requests and RPCs
  are one flag each per replica: there is one in flight or none. Signing of the
  attestation is part of `Start`. Losing the LDAP connection is `DirectoryFails`. An
  identity may be in the directory twice, under the name the harness gives it and under
  one an administrator gave it (`Entries`): the search, whose size limit is one, then
  fails (`Doubled`).
* **`BillingWorker`.** `queue` and `unfinished` are `queue.Queue`; `worker` is the
  thread's place, batch and failed attempts. `Attempt` is one HTTP attempt: accepted,
  refused (4xx), failed with a status, or failed without one; a failure does not
  say whether the API recorded the events.
* **`NodeWorker`.** There is one thread, so an action is what runs from one `await` or
  event to the next, and `Timer`, `Answer`, `CutShort` and `Exit` wait until no function
  can go on. `flying` holds the batches being posted, `hung` the events of a post
  whose promise stays pending. `Answer` is one attempt, its failure followed by
  another attempt as `withRetry` does; `Land` is the `finally` of `_flush`. `Exit` is the
  end of the process when nothing keeps the event loop alive: the worker's timer,
  being unref'd, and pending promises do not. The synchronous calls keep no state
  and are left out.
* **`RubyStore`.** `boot` is where a process stands in `Store.bootstrap!`, each statement
  being an action and a search that an insert depends on another one; `at` is the same for
  the requests of `create_project`, `authorize_ssh` and `queue_webhook`; `job` is a
  webhook's Sidekiq job. `stale` are the processes whose kept connection has been
  cut: `Database.connection` returns it for ever. The web threads share one connection
  and nothing keeps them apart (`Database.query`), so a statement of theirs is two actions:
  `Send` puts its result on the wire (`unread`, with the thread it belongs to), unless
  another result lies there, which is thrown away first (`Discard`); `Fetch` takes what is
  found, be it another thread's result, or none. That a result may be another's is what
  `own` records. Two jobs of the Sidekiq process that meet like that fail or wait
  (`PerformCrossed`, `crossed`). Faults (a statement that fails, with or without having been
  done, a Redis failure, a restart of the database, a kill) are counted in `faults` and
  bounded by `MaxFaults`; a mix-up of results is not a fault, it needs none. Sidekiq is
  taken to be installed, as the Gemfile says, so a job is queued and not run inline.
* **`GitAccess`.** `client` is where an SSH session's script stands, or an API user who
  holds a token. `Authorize` is `authorize_ssh` with the token it issues, `Verify` is
  `handleVerifyToken`, `Run` the script's `exec`. A service starts with the secret its
  environment has then, so the two may differ; each has a clock that only moves on,
  and neither knows the other's. A token is what it claims and the secret it was signed
  with; one signed elsewhere with that secret may lack a claim, name an unknown action, or
  be bound to any text. A command is a text: a verb, a path, and how it is written
  (quoted, bare, spaced otherwise, with more words behind). `Canonical` is what the
  application makes of it (leading slashes go, quotes are put). `Objection` is what the git
  service holds against a token, in its order: signature, expiry, missing claims, a command
  it does not know, another action, another command than the token is bound to.
* **`Notifier`.** `work` is the code that sends: a handler, the goroutine `HandleEvents`
  starts, or a service by itself; `open` says that the context it was given has not
  ended; `send` is the loop of one message. `Queue` stands for the managers' methods
  of both platforms, `Attempt` for one POST with its answer. Nothing in the repository
  calls the managers yet: who does, and with which context, is taken from
  `integration_examples.go`.
* **`WebSession`.** `tab` is a tab's React state with the requests it has under way.
  `Effects` is what React does after a render: the effects on the token and on the
  session run, abort what they started before, and run again on what they set. It is
  assumed that no request started by an effect is answered before React has rendered
  what that effect set: a microtask against a network exchange. The loop over the base
  URLs is a step per base for the sign-in, because each POST may open a session; for
  the other requests, which may be repeated harmlessly, it is one answer or none. An
  answer of good status whose body does not parse ends the loop, since `response.json()`
  is returned and not awaited (`AttemptFails`).

Variables marked *auxiliary* record what happened for the properties to read; no action is
guarded by `unsettled`, `marred`, `lost`, `put`, `settled`, `late`, `replies`,
`signedOut`, by a client's `when`, a message's `posts` and `heard`, a tab's `restored`, a
request's `own` and `due`, a job's `crossed`, nor by `acked` in `RubyStore`. `usedIds`,
`issued` and `unused` make uuids, tokens and events fresh, which in the code they are by
construction. `calm` in `ServiceRun` bounds interference: it says that nothing fails any
more, and only then is anything promised to come up.

## Runs

Every run is exhaustive.

| Run | Question | Instance | Distinct states |
| --- | --- | --- | --- |
| `signup_review` | Do the two tables stay linked, agree after an undisturbed review, and move as the two abstract specifications allow; are replies true; is every request answered although the database may stall for ever? | 2 workers, 2 uuids, 2 names (one the administrator's), 1 e-mail (the administrator's), fairness | 555,952 |
| `gateway_login` | Does the owner of an approved account get in, and nobody undecided; is a session served only while it lives, and over once? | 2 workers, 2 uuids, 2 names equal up to case, 2 e-mails, 1 token, clock 0..1, LDAP configured | 1,614,198 |
| `repository_builds` | Is a repository what its 201 said, does a view hold what was answered before it began, is a create answered, is a view? | 2 workers, 1 name, 2 branches, 4 cloud environments, fairness | 253,231 |
| `platform` | Is what serves enrolled, does stopping end, do replicas come up? Has a lost message a cause, does one stand twice only in doubt, does sending end? | 2 replicas, auto-registration, identities there already or not, once or twice; or 1 message, both platforms, 3 attempts; fairness | 101,644 |
| `billing_worker` | Are events conserved, is the abstract queue implemented, does an accepted call mean what it says, do `flush` and `close` return? | 2 threads, 3 events of which one invalid, batches of 1, 1 retry, fairness | 322,188 |
| `node_worker` | Is `_pending` exact, is the abstract queue implemented, do `flush` and `close` return? | 2 functions, 4 events of which one invalid, batches of 2, 1 retry, fairness | 80,390 |
| `ruby_store` | Is an answered project found, whatever the threads do to each other's results; do both processes come up, is a queued webhook delivered? | 1 request thread, 1 slug (the seeded one), 1 webhook, 1 retry, 1 fault, and a second thread, webhook or fault; fairness | 452,564 |
| `git_access` | Does a command run only as it was authorised, is every session decided? | 1 client, 3 user names (two equal up to case), 2 keys (one unknown), 2 spellings of a path, 4 ways to write a command, 2 slugs, 2 secrets, two clocks 0..1, fairness | 643,264 |
| `web_session` | Does a workspace show only its own dashboard, does a signed-out token stay out, is a form stuck only for the known cause? | 2 tabs, 2 tokens, 2 base URLs, 2 sign-outs at once | 280,118 |
| `billing_flush` | *violation*: has every event put before a `flush` that returns been delivered, refused, or tried as often as promised? | as `billing_worker` | — |
| `node_flush` | *violation*: does `flush` return whatever the application and its network do? | as `node_worker` | — |
| `service_unregistered` | *violation*: does a registered service come up without auto-registration? | 2 replicas, no auto-registration | — |

Why the bounds are enough: every race in this code is between two requests on one name, id
or e-mail, or between one request and a failure, so two workers reach all of them. Two
uuids are a signup and the administrator, or a gateway's and a Ruby request for one
e-mail, or two signups for one. One token is opened, presented by two workers, expired,
purged and logged out; what two sessions could do to each other is excluded for any number
of them by `ServedAlive` and `EndOnce`. Two events and a batch of one make the worker go
round its loop while the queue is filled again; the drain takes any number. One retry has
a first, a last and no further attempt. Node's batches are of two, so that one leaves full
and one leaves with the timer or with `stop`, and both may fly at once. In `ruby_store`
the project a thread creates has the seeded slug, so that threads, both seeding processes
and each other's leftovers meet on one row; a second slug meets nobody. A third thread can
do to a second one's result only what the first can do. A second thread, a second webhook
and a second fault are each there beside one of the others, and not together (`Small` in
`MCRubyStore`): the second thread comes while no job is in Redis, because a request
meets a job only in the webhook's row, and the second webhook without a fault,
because two jobs meet on the connection without one. Two faults are enough for a statement
whose result is lost followed by a restart. The cloud environments are one of each way a call
can go, and the two calls do not look at each other. Clients of `GitAccess` share only the
table of repositories, which only grows, and messages of `Notifier` only the webhook's
URL: one of each stands for all, and the proofs are for any number. Two tabs are the least
that share storage; two tokens make a newer session in one of them meet an older one's
answers. Counters never grow past the constants: clocks stop at `MaxTime`, and uuids,
tokens and events run out.

`billing_worker` and `billing_flush` do not check for deadlock: an event
put after the worker's last look at the queue leaves `flush` and `close` waiting with
nobody to end the wait, and when every thread waits like that the program really stands
still. `FlushReturns` says exactly when that cannot happen. The Node runs do not either:
there the process ends when nothing keeps it; nor does `platform`, where every message
may have been sent.

### What the runs show

The nine runs that are not marked *violation* find no error. Their properties are stated with
the exceptions the code has, and the exceptions are worth knowing:

* A signup whose second statement fails leaves an account without a request; the
  same person is then answered 409 for ever and no review can reach the account
  (`SettledRowsAgree` excludes `unsettled`).
* Two overlapping reviews can leave account and request with different decisions;
  a further review repairs it.
* A request the Ruby application files has no account; approving it answers 200
  and lets nobody in.
* Somebody who signs up with the administrator's e-mail before the first login
  stops every login and with them every review (`OwnerGetsIn` excludes `AdminEmailTaken`).
* A login waits as long as the database stalls; a signup does not.
* Two creates of one name can both be answered 201; a failing import removes what
  another request made; one unreadable metadata file fails the listing of all
  (`marred`), and so every page.
* Where Rancher (URL and token) or Keystone is set up, a view may be dropped without an answer
  (`ViewAnswered`): always for Rancher, for Keystone once its catalogue has an identity
  endpoint. The repositories were read before that and are lost with the page.
* `StopsWhenTold` assumes that RPCs end: a health `Watch` keeps the process, and its
  HTTP server, up until it is killed.
* A failed role search, a taken port or a lost add ends the start; the orchestrator
  starts it again, and the identities already added stay.
* An identity that an administrator enters by hand under another name, beside the
  harness's own entry or between its search and its add, is in the directory twice. From
  then on every start fails, until one of the two is removed: `RegisteredServiceComesUp`
  has that as its premise (`Doubled`). No document says that the two may be mixed.
* What `flush` of either SDK waits for is that events leave, and a batch that was given up
  leaves as well: `EventQueue` says no more than that, and Node's `drain` callbacks are
  released by it although billing_sdk.js:328 says "sent". For Python
  `FlushedMeansDelivered` states what the comments promise, and is violated.
* A project whose second insert failed keeps its slug and has no repository, and no
  later request or start adds it (`AnsweredProjectsAreFound` is about projects that were
  answered).
* Two threads of the web process that run statements at the same time can be given each
  other's results, or none. A push to a project that was answered 201 may then be told
  "repository not found", a refused insert pass for a done one, a request answer 500 for
  what was done, and a push be allowed on the row another thread's search for a key
  returned; a thread may also wait for ever for a result that was taken. So
  `AnsweredProjectsAreFound` speaks of requests that got their own results, and
  `DeliveredAtLast` excepts jobs that met another's update. No document or test of the
  repository claims otherwise.
* A webhook whose row is there and whose job could not be queued says `queued` for ever;
  one whose connection was cut is dropped after the last retry. A webhook is only marked
  delivered: no code of the repository posts to its `target_url`.
* The two Ruby processes, starting on an empty database, can stop one of them: the
  second insert of the wiki's home page violates its key and nothing rescues it. The
  compose file has no restart policy, so a restart is a premise of `BothComeUp`. (No
  code calls `Server.start`: the model takes the process to do what `server.rb`
  defines.) After the database restarts neither process recovers without being
  restarted.
* `FlushReturns` of Node has as premises that the application keeps the process alive and
  that every response ends. `FlushWaitsForAll` does without them, and is violated.
* A git command runs some time after its token was verified, and nothing looks at the
  token again: `RunsAsAuthorised` says the token was alive at the git service's clock when
  it said yes. The git service compares a bound command with blanks made alike and looks
  at nothing of the token's subject and repository but that they are there. With clocks
  apart, tokens are refused early or live longer; a service restarted with another secret
  refuses what was issued before.
* A notification from a handler or an event is cut off when that handler returns, in the
  middle of its attempts, as it is when the message is handed over under `r.Context()`,
  which is how the guide's handlers do it (Documents/integrations/IMPLEMENTATION.md:93):
  `LostForCause` counts the end of the context as a cause. So the guide's "Automatic
  retries on failure" (9) is not what such a handler gets. A Slack answer with ok=false
  and no error text counts as sent. A message whose answer was lost may be
  posted again.
* A tab that finds a token in storage which the gateway refuses shows the sign-in form
  with its button disabled until the page is reloaded: `loading` starts true, only a
  dashboard load or a sign-in resets it, and AccessPanel.tsx:62 disables the button
  while it is true. `FormStuckForCause` shows that there is no other way into that state.
* A slow sign-out, or another tab's session check that fails, removes the token of a
  newer sign-in from storage; a check that fails in transport signs the tab out; a POST
  whose answer was lost is made again on the next base and leaves a session nobody
  holds. None of these contradicts a document, and the model has them all.

The three violations are findings, each against sentences of the repository:

* `billing_flush`: `flush` and `close` of the Python SDK return with events that never reached
  the API, although billing_sdk.py:315 says "Block until all async-queued events have been
  delivered". The property excuses an event the API refused, or of which every attempt
  failed, and the trace breaks it all the same: nothing that fails without an HTTP status is
  tried again, although billing_sdk.py:235 promises retries on transient failures.
* `node_flush`: a function waits in `flush` for ever, although billing_sdk.js:328 says "Block
  until all async-queued events have been sent". There are two ways. Nothing listens to the
  error of a response that is cut short, so its post stays pending (`CutShort`); and the
  timer that would send the rest of the queue is unref'd, so a process that keeps nothing
  else alive ends in the middle of `await flush()` (`Exit`). `FlushReturns`, which passes,
  has the absence of exactly these two among its premises, and either one alone breaks it.
* `service_unregistered`: with directory enforcement but without auto-registration, which the
  Security Directive calls optional, no service ever starts, because the process identity
  is new at each start.

### Fairness

* `SignupReview`: weak fairness of each worker's handler step, where a step includes
  the end of the context: the Go runtime runs a goroutine whose statement returned
  or whose context ended. A statement that goes on after its handler answered is the
  database's, of which nothing is assumed, as of clients.
* `GatewayLogin`, `WebSession`: none; their properties are about safety. A login's
  statements have no deadline, and a browser's requests need not be answered.
* `RepositoryStore`: weak fairness of the prompt steps; the end of a clone is not
  one of them. The cloud client has a timeout of ten seconds.
* `ServiceRun`: weak fairness of a start (the orchestrator restarts a container), of a
  process's own steps, and of the main goroutine's steps apart from the servers'.
  Requests and RPCs need not end.
* `BillingWorker`: weak fairness of the worker thread (timeouts bound an attempt) and
  of each thread inside a call.
* `NodeWorker`: weak fairness of running functions, of the timer and of the end of some
  attempt: the event loop runs what is ready, and `httpPost` has a timeout. Nothing is
  assumed of calls or of the application's handles.
* `RubyStore`: weak fairness of a process's boot and of taking and running jobs (Sidekiq's
  threads). Starts, requests and faults are not promised, nor is the result a stuck job or
  thread waits for.
* `GitAccess`: weak fairness of each script's next step or its failure: `Net::HTTP`
  gives up after sixty seconds. The services need never answer.
* `Notifier`: weak fairness of each loop's step: timers fire, and the HTTP client gives
  an attempt ten seconds. Contexts need not end.

## Proofs

All theorems are for any values of the constants, under the assumptions the modules
name and TLC evaluates. Every safety property and every refinement a passing run checks
is one of them. Where a run does not check a type invariant the theorem `TypeCorrect` (for
`Notifier` `NotifierTypeCorrect`) of its component does, for every instance. No property
proved here is inductive as it stands; each module adds to it what makes it so (`IInv`,
unless another name is given), has a lemma for the initial states and one for a step with
one case per action, and ends in theorems that combine them. TLC finds each of these
invariants to hold on the instance of the component's run.

* **`SignupReviewProofs`**: `RequestAccountLinked` (`RequestHasItsAccount`),
  `SettledAgreement` (`SettledRowsAgree`), `RepliesStayTrue` (`RepliesAreTrue`),
  `DirectoryImplemented` and `LedgerImplemented` (the refinements of `AccountDirectory`
  and `ApprovalLedger`). Both row properties depend on where the handlers are: `IInv` adds
  that a signup between its statements owns its uuid and has written exactly its account
  (`SignupOwnsItsId`, `SignupWroteItsAccount`), that rows only exist under uuids handed
  out (`RowsUseTheirIds`), that a review past its first statement has its request
  (`ReviewHasItsRequest`), that an id outside `unsettled` has one undelivered decision at
  most and it is the request's (`SettledIds`), and that only the bootstrap makes an
  administrator's row (`AccountsAreLocal`). The refinements need besides that an
  administrator's uuid is never a request's (`AdminIsNoSignup`), so that no review can
  move its row; for the ledger each kind of step has a lemma (`EnrolStep`, `FileStep`,
  `DecideStep`, `DeliverStep`, and `UnseenStep` for what the ledger does not see), and a
  verdict is under way while a review stands between its statements. A reply is read some
  time after the statement it speaks of, so `Replies` says what no later step can take
  from it: rows stay, a decided request is only decided again, and nobody is about to
  insert under an id whose insert was refused (`RowsMove`). A statement its handler has
  abandoned is one more step of the same kinds.
* **`GatewayLoginProofs`**: `DecisionsComeFirst` (`NobodyEntersUndecided`), from the
  sessions stored and those about to be stored being decided accounts'
  (`StoredAdmitted`, `ComingAdmitted`) and the directory only moving forward. `ServedAlive`
  and `EndOnce` are the session store's: a lookup goes on with a copy, and `SessionsInv`
  says that what it copied is what was stored under the token or the token is gone
  (`CopyIsStored`), that it compared with a clock that had reached the time it came
  (`CameBefore`, `AliveWhenItCame`), and that what it is about to purge is over
  (`PurgesExpired`), which needs that tokens are never stored before they are issued
  (`StoredIsIssued`); every step of the login is shown to be one of the store or none
  (`SessionsRefined`). `OwnersGetIn` (`OwnerGetsIn`) speaks of a login whose
  account was approved all the while: `OInv` adds that while that is so the
  administrator's row is there when the account is looked up, and that a login that has
  been turned away met rows that exclude the promise, for good, because rows are never
  renamed or removed (`LoginsOnCourse`, with `Table` for the unique names).
* **`RepositoryStoreProofs`**: `BuiltMeansHosted` (`HostedAsAnswered`). Of a name that is not
  `marred` the invariant says that one request at a time builds it and has done what it
  has passed (`BuiltAlone`), with the branch it asked for or the clone's (`KnowsBranch`,
  `HasHead`). `ListingsAreCurrent` (`ListingIsCurrent`) is about a view that reads the directory
  entry by entry while others write: `LInv` adds that a repository answered
  before the view began has its entry in what was found or is still to be read
  (`Views`), and that a metadata file which parses is what some reply told (`FileTold`).
* **`BillingWorkerProofs`**: `TypeCorrect`, `NothingLost` (`EventsConserved`), `AcceptedIsRecorded`
  (`AcceptedMeansReceived`), `KeepsEventQueue` (the refinement of `EventQueue`). What was
  put is a sequence without repetitions, and calls own what they have still to
  put (`Apart`): so an event the worker settles is in its batch alone, which is not
  empty (`BatchInHand`). Concatenation is handled under a name of its own (`Chain`), with
  lemmas on what it contains.
* **`NodeWorkerProofs`**: `PendingIsExact` (`CountIsExact`), `KeepsEventQueue` (the refinement
  of `EventQueue`), for any finite set of events. An event is in one place: once in the
  queue, in one flying batch, or outside (`Clean`, `Apart`); then `pending` is a
  cardinality (`Counts`), and every action is a step of the abstract queue or none.
* **`PlatformProofs`**, of `ServiceRun`: `TypeCorrect`, `ServedWhenEnrolled`
  (`ServingIsEnrolled`). Each step of a start has behind it what the steps before it
  registered (`EnrolledSoFar`), and no identity is ever removed. Of `Notifier`:
  `LossesHaveACause` (`LostForCause`), `RepeatsAreInDoubt` (`PostedTwiceInDoubt`), with
  `NotifierInv`: a loop that goes on has an attempt left (`AttemptLeft`), every post
  answers an attempt (`PostsAreAttempts`), and a message that stands in its channel
  without counting as sent is in doubt (`UnknownPost`).
* **`AccessProofs`**, of `GitAccess`: `CommandsAreAuthorised` (`RunsAsAuthorised`). From
  the application's answer on, the session holds a command that is what it asked for made
  canonical, and a token for it (`Granted`), and from the git service's on one that was
  alive (`AdmittedAlive`). Of `RubyStore`: `StoreTypeCorrect`, `AnsweredAreFound`
  (`AnsweredProjectsAreFound`), with `StoreInv`: rows are only added, what was answered
  201 has both its rows (`AckedIsThere`), the result on the wire of the thread whose
  statement it was tells what that statement found (`SentStand`, `Telling`), a request
  that got its own results so far has done what it has passed, and a push to a project
  that was answered which got its own results cannot be on its way to "not found"
  (`Right`). Whatever else is on the wire may be anything.
* **`WebSessionProofs`**: `SignedOutForGood` (`SignedOutStaysOut`). A token on its way to a
  tab is nowhere else (`Fresh`), what a tab holds has been issued (`Known`), and a check
  under way has a token (`CheckHasToken`): so a token that was signed out has no way back
  to storage. `DashboardsAreOwn` (`DashboardIsOwn`) and `StuckFormsHaveACause`
  (`FormStuckForCause`) need more, `DInv`: the token, the session, the dashboard and the load
  under way of a tab are all those of the token its effect ran on last (`Own`), which
  is what aborting in the effects' clean-up achieves; and a flag that disables a button waits
  for something under way, or the tab has only been restored (`Unstuck`). Both have to hold
  after every answer, whichever of a tab's requests it belongs to.

Only model-checked: liveness (`EveryRequestAnswered`, `CreateAnswered`, `ViewAnswered`,
`StopsWhenTold`, `RegisteredServiceComesUp`, `FlushReturns` of both SDKs, `BothComeUp`,
`DeliveredAtLast`, `SessionDecided`, `SendingEnds`). Its proofs need ENABLED of the fair
actions, which the provers do not evaluate. The violations have nothing to
prove: TLC's traces show them.

## Not modelled

* Texts, hashes, permission lists, the seeded contents of the overview, the pages of the
  web application and its signup and review forms, which keep no state across requests.
* `serveGitHTTP`: it hands a request to `git http-backend`, an outside program that locks
  its own files; the models do not look into a repository.
* The texts of notifications (`events.go`): among them a deployment's "start" that gets the
  type "start" although there is an `EventDeploymentStart`. Slack's OAuth installation, whose
  token is not kept. `GetManager` tests and sets its singleton without a lock, which two first callers
  may do at once; both managers are then the same but for a `SetWebhookURL` that one of
  them misses. `HandleEvents` does not recognise an event Slack delivers twice.
* What follows an answer of Rancher, which is never reached (see `RepositoryStore`).
* The Rego policy: a table of one input, evaluated by nothing in the repository.
* The services that answer fixed lists, Terraform, Ansible, Kubernetes and CI files,
  the launchers.
* Cryptography (bcrypt, Ed25519, HMAC) is taken to work. The Go memory model plays no part
  in what is modelled: shared state there is behind locks, in the database, on disk
  or in the directory.

## Plan

Left, in this order:

1. Proofs of what the properties do not say yet: that a step of `SignupReview` under a
   session of `GatewayLogin` keeps both, so that the two could be composed by theorem
   and not through `AccountDirectory` alone; that `SignupReview` never deletes a
   decision (`[][...]` of a single row, from `RowsMove`).
2. The signup and review forms of the web application, composed with `SignupReview`.
