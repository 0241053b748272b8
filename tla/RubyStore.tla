----------------------------- MODULE RubyStore -----------------------------
(***************************************************************************)
(* The Ruby application's store (services/ruby-app/config/application.rb): *)
(* what the web process and the Sidekiq process do to the projects, the    *)
(* repositories, the seeded rows and the outbound webhooks they share.     *)
(* Each process opens its database connection once and keeps it            *)
(* (Database.connection); both run Store.bootstrap! when they start        *)
(* (server.rb:50, worker_boot.rb:4).  Every statement commits by itself.   *)
(* The threads of a process run their statements on its one connection and *)
(* nothing keeps them apart (Database.query): a thread about to send a     *)
(* statement throws away what the connection has not been read of yet, and *)
(* a thread that waits takes what it finds there, which may be another's   *)
(* result, or none.                                                        *)
(***************************************************************************)
EXTENDS Naturals, FiniteSets

CONSTANTS
    Threads,     \* request threads of the web process
    ProjectSlugs,  \* slugs a project may have
    Platform,    \* the slug seed_projects! inserts, 'gitorc-platform'
    Hooks,       \* ids of outbound webhooks, one per call of queue_webhook
    Retries,     \* sidekiq_options retry, 5 in the code
    MaxFaults    \* bound: how many faults of the surroundings a behaviour has

ASSUME StoreAssumption ==
    /\ Platform \in ProjectSlugs
    /\ Retries \in Nat
    /\ MaxFaults \in Nat

VARIABLES
    boot,          \* where each process stands in Store.bootstrap!
    saw,           \* whether the row or table a boot step looked for was there
    stale,         \* processes whose kept connection has been cut
    schema,        \* ensure_schema! has created its tables
    projects,      \* slugs of table projects
    repositories,  \* slugs of projects with a row in table repositories
    home,          \* the wiki's home page is there
    keyed,         \* the seeded SSH key is there
    hooks,         \* outbound_webhooks: status of each row
    job,           \* the Sidekiq job of each webhook and how often it failed
    at,            \* the request each web thread handles and where it stands
    sent,          \* threads whose statement was sent and has not returned
    unread,        \* the result that lies on the web process's connection
    acked,         \* slugs answered 201, each result being the request's own
    faults         \* faults so far

tables == <<schema, projects, repositories, home, keyed>>
boots  == <<boot, saw>>
queue  == <<hooks, job>>
wire   == <<sent, unread>>
storeVars == <<boots, stale, tables, queue, at, wire, acked, faults>>

Processes == {"web", "sidekiq"}

Booting == {"schema", "lookProject", "addProject", "addRepository",
            "settings", "lookHome", "addHome", "addKey"}

NoRequest == [step |-> "idle"]

\* What a statement returns: an insert or an update "done", an insert whose
\* row's uniqueness or reference is violated "refused", a select a row of a
\* "key" or of a "repository", or "none".
NoResult == [is |-> "nothing"]
Results == [of : Threads, is : {"done", "refused", "key", "repository", "none"}]

\* filed: this request has inserted the project; due: the push is for a slug
\* that was answered when it came; own: every result it got was its own.
Requests ==
    {NoRequest}
        \cup [step : {"project", "repository"}, slug : ProjectSlugs,
              filed : BOOLEAN, own : BOOLEAN]
        \cup [step : {"key", "join"}, slug : ProjectSlugs,
              due : BOOLEAN, own : BOOLEAN]
        \cup [step : {"answered"}, due : BOOLEAN, own : BOOLEAN,
              reply : {"allowed", "missing", "failed"}]
        \cup [step : {"insert", "enqueue"}, hook : Hooks]

\* Type invariant.  A job that failed more than Retries times is not kept.
StoreTypeOK ==
    /\ boot \in [Processes -> {"off", "exited", "up"} \cup Booting]
    /\ saw \in [Processes -> BOOLEAN]
    /\ stale \subseteq Processes
    /\ schema \in BOOLEAN /\ home \in BOOLEAN /\ keyed \in BOOLEAN
    /\ projects \subseteq ProjectSlugs
    /\ repositories \subseteq ProjectSlugs
    /\ hooks \in [Hooks -> {"none", "queued", "delivered"}]
    /\ job \in [Hooks -> [at : {"none", "waiting", "taken", "stuck", "done", "gone"},
                          tries : 0..Retries, crossed : BOOLEAN]]
    /\ at \in [Threads -> Requests]
    /\ sent \subseteq Threads
    /\ unread \in Results \cup {NoResult}
    /\ acked \subseteq ProjectSlugs
    /\ faults \in 0..MaxFaults

StoreInit ==
    /\ boot = [p \in Processes |-> "off"]
    /\ saw = [p \in Processes |-> FALSE]
    /\ stale = {}
    /\ schema = FALSE /\ home = FALSE /\ keyed = FALSE
    /\ projects = {}
    /\ repositories = {}
    /\ hooks = [h \in Hooks |-> "none"]
    /\ job = [h \in Hooks |-> [at |-> "none", tries |-> 0, crossed |-> FALSE]]
    /\ at = [t \in Threads |-> NoRequest]
    /\ sent = {} /\ unread = NoResult
    /\ acked = {}
    /\ faults = 0

Connected(p) == p \notin stale

\* A fault of the surroundings: the database, Redis or the process itself.
Fault ==
    /\ faults < MaxFaults
    /\ faults' = faults + 1

---------------------------------------------------------------------------
(* Store.bootstrap!: ensure_schema!, then seed_projects!, seed_preferences! *)
(* with seed_billing!, seed_wiki! and seed_ssh_key!.                        *)

BootStep(p, from, to) ==
    /\ boot[p] = from
    /\ Connected(p)
    /\ boot' = [boot EXCEPT ![p] = to]

\* A process starts and is about to run its first statement.
StartProcess(p) ==
    /\ boot[p] \in {"off", "exited"}
    /\ boot' = [boot EXCEPT ![p] = "schema"]
    /\ saw' = [saw EXCEPT ![p] = schema]
    /\ stale' = stale \ {p}
    /\ UNCHANGED <<tables, queue, at, wire, acked, faults>>

EnsureSchema(p) ==
    /\ BootStep(p, "schema", "lookProject")
    /\ schema' = TRUE
    /\ UNCHANGED <<saw, stale, projects, repositories, home, keyed, queue, at, wire, acked, faults>>

\* `create table if not exists` fails when another session has created the
\* table since it looked.
SchemaTaken(p) ==
    /\ BootStep(p, "schema", "exited")
    /\ schema /\ ~saw[p]
    /\ UNCHANGED <<saw, stale, tables, queue, at, wire, acked, faults>>

LookForProject(p) ==
    /\ BootStep(p, "lookProject",
                IF projects = {} THEN "addProject" ELSE "settings")
    /\ UNCHANGED <<saw, stale, tables, queue, at, wire, acked, faults>>

SeedProject(p) ==
    /\ Platform \notin projects
    /\ BootStep(p, "addProject", "addRepository")
    /\ projects' = projects \cup {Platform}
    /\ UNCHANGED <<saw, stale, schema, repositories, home, keyed, queue, at, wire, acked, faults>>

SeedRepository(p) ==
    /\ BootStep(p, "addRepository", "settings")
    /\ repositories' = repositories \cup {Platform}
    /\ UNCHANGED <<saw, stale, schema, projects, home, keyed, queue, at, wire, acked, faults>>

\* Somebody else has inserted the slug: the unique violation is rescued, and
\* with it goes the insert into repositories.
SeedTaken(p) ==
    /\ Platform \in projects
    /\ BootStep(p, "addProject", "settings")
    /\ UNCHANGED <<saw, stale, tables, queue, at, wire, acked, faults>>

\* seed_preferences! and seed_billing! insert `on conflict do nothing`.
SeedSettings(p) ==
    /\ BootStep(p, "settings", "lookHome")
    /\ UNCHANGED <<saw, stale, tables, queue, at, wire, acked, faults>>

\* Slip: the page is inserted without looking for it.
SlipLookForHome(p) ==
    /\ BootStep(p, "lookHome", "addHome")
    /\ UNCHANGED <<saw, stale, tables, queue, at, wire, acked, faults>>

LookForHome(p) ==
    /\ BootStep(p, "lookHome", IF home THEN "addKey" ELSE "addHome")
    /\ UNCHANGED <<saw, stale, tables, queue, at, wire, acked, faults>>

SeedHome(p) ==
    /\ ~home
    /\ BootStep(p, "addHome", "addKey")
    /\ home' = TRUE
    /\ UNCHANGED <<saw, stale, schema, projects, repositories, keyed, queue, at, wire, acked, faults>>

\* unique(project_slug, slug) is violated and nothing rescues it: the process
\* ends before it serves.
HomeTaken(p) ==
    /\ home
    /\ BootStep(p, "addHome", "exited")
    /\ UNCHANGED <<saw, stale, tables, queue, at, wire, acked, faults>>

SeedKey(p) ==
    /\ BootStep(p, "addKey", "up")
    /\ keyed' = TRUE
    /\ UNCHANGED <<saw, stale, schema, projects, repositories, home, queue, at, wire, acked, faults>>

\* A statement of the boot fails, or its connection is cut: rescued while the
\* project is seeded, the end of the process elsewhere.
AfterFailure(step) ==
    IF step \in {"lookProject", "addProject", "addRepository"}
    THEN "settings" ELSE "exited"

BootFails(p) ==
    /\ boot[p] \in Booting
    /\ boot' = [boot EXCEPT ![p] = AfterFailure(boot[p])]
    /\ IF Connected(p) THEN Fault ELSE UNCHANGED faults
    /\ UNCHANGED <<saw, stale, tables, queue, at, wire, acked>>

\* The insert was done, its result did not arrive.
BootResultLost(p) ==
    /\ Fault
    /\ boot[p] \in {"addProject", "addRepository", "addHome"}
    /\ Connected(p)
    /\ boot[p] = "addProject" => Platform \notin projects
    /\ projects' = IF boot[p] = "addProject"
                   THEN projects \cup {Platform} ELSE projects
    /\ repositories' = IF boot[p] = "addRepository"
                       THEN repositories \cup {Platform} ELSE repositories
    /\ home' = (home \/ boot[p] = "addHome")
    /\ boot' = [boot EXCEPT ![p] = AfterFailure(boot[p])]
    /\ UNCHANGED <<saw, stale, schema, keyed, queue, at, wire, acked>>

Boot(p) ==
    \/ EnsureSchema(p) \/ SchemaTaken(p)
    \/ LookForProject(p) \/ SeedProject(p) \/ SeedRepository(p) \/ SeedTaken(p)
    \/ SeedSettings(p)
    \/ LookForHome(p) \/ SeedHome(p) \/ HomeTaken(p)
    \/ SeedKey(p)

---------------------------------------------------------------------------
(* Requests of the web process.  Server.call turns an exception into 500.  *)

Accept(t, request) ==
    /\ boot["web"] = "up"
    /\ at[t] = NoRequest
    /\ at' = [at EXCEPT ![t] = request]
    /\ UNCHANGED <<boots, stale, tables, queue, wire, acked, faults>>

Go(t, request) == at' = [at EXCEPT ![t] = request]

\* The steps at which a thread runs a statement.
Statements == {"project", "repository", "key", "join", "insert"}

\* A thread about to send finds a result on the connection and throws it away.
Discard(t) ==
    /\ at[t].step \in Statements /\ t \notin sent
    /\ Connected("web")
    /\ unread # NoResult
    /\ unread' = NoResult
    /\ UNCHANGED <<boots, stale, tables, queue, at, sent, acked, faults>>

\* The statement is sent over an idle connection and the database runs it.
Send(t, step, result) ==
    /\ at[t].step = step /\ t \notin sent
    /\ Connected("web")
    /\ unread = NoResult
    /\ sent' = sent \cup {t}
    /\ unread' = [of |-> t, is |-> result]
    /\ UNCHANGED <<boots, stale, schema, home, keyed, job, acked, faults>>

Own(t, result) == result # NoResult /\ result.of = t

\* The thread takes the result it finds: its own, or that of the thread that
\* threw its own away.  It finds none when its own is no longer there.
Fetch(t, step, result) ==
    /\ at[t].step = step /\ t \in sent
    /\ Connected("web")
    /\ \/ result = unread
       \/ result = NoResult /\ ~Own(t, unread)
    /\ unread' = IF result = NoResult THEN unread ELSE NoResult
    /\ sent' = sent \ {t}
    /\ UNCHANGED <<boots, stale, tables, queue, faults>>

Fetched == {unread, NoResult}

\* create_project: both inserts' results are thrown away, an exception is not.
StartCreate(t) ==
    \E s \in ProjectSlugs :
        Accept(t, [step |-> "project", slug |-> s, filed |-> FALSE, own |-> TRUE])

AddProject(t) ==
    /\ Send(t, "project", IF at[t].slug \in projects THEN "refused" ELSE "done")
    /\ projects' = projects \cup {at[t].slug}
    /\ Go(t, [at[t] EXCEPT !.filed = at[t].slug \notin projects])
    /\ UNCHANGED <<repositories, hooks>>

\* Slip: answered 201 without the repository.
SlipProjectAdded(t) ==
    \E result \in Fetched :
        /\ Fetch(t, "project", result)
        /\ acked' = IF Own(t, result) /\ result.is # "refused"
                    THEN acked \cup {at[t].slug} ELSE acked
        /\ Go(t, NoRequest)

ProjectAdded(t) ==
    \E result \in Fetched :
        /\ Fetch(t, "project", result)
        /\ Go(t, IF result.is = "refused" THEN NoRequest
                 ELSE [at[t] EXCEPT !.step = "repository", !.own = Own(t, result)])
        /\ UNCHANGED acked

\* The row refers to the project's: without it the insert is refused.
AddRepository(t) ==
    /\ Send(t, "repository", IF at[t].filed THEN "done" ELSE "refused")
    /\ repositories' = repositories \cup (IF at[t].filed THEN {at[t].slug} ELSE {})
    /\ UNCHANGED <<projects, hooks, at>>

RepositoryAdded(t) ==
    \E result \in Fetched :
        /\ Fetch(t, "repository", result)
        /\ acked' = IF at[t].own /\ Own(t, result) /\ result.is # "refused"
                    THEN acked \cup {at[t].slug} ELSE acked
        /\ Go(t, NoRequest)

\* authorize_ssh, called with the seeded key.
StartAuthorize(t) ==
    \E s \in ProjectSlugs :
        Accept(t, [step |-> "key", slug |-> s, due |-> s \in acked, own |-> TRUE])

Answer(t, own, reply) ==
    Go(t, [step |-> "answered", due |-> at[t].due, own |-> own, reply |-> reply])

FindKey(t) ==
    /\ Send(t, "key", IF keyed THEN "key" ELSE "none")
    /\ UNCHANGED <<projects, repositories, hooks, at>>

\* Anything but a key's row raises: nil has no ntuples, and no username that
\* is a repository's.
KeyFound(t) ==
    \E result \in Fetched :
        /\ Fetch(t, "key", result)
        /\ IF result.is = "key"
           THEN Go(t, [at[t] EXCEPT !.step = "join", !.own = Own(t, result)])
           ELSE Answer(t, Own(t, result), "failed")
        /\ UNCHANGED acked

\* Projects joined with repositories.
FindRepository(t) ==
    /\ Send(t, "join", IF at[t].slug \in projects \cap repositories
                       THEN "repository" ELSE "none")
    /\ UNCHANGED <<projects, repositories, hooks, at>>

\* Any row will do; a result without rows is a repository that is not there.
RepositoryFound(t) ==
    \E result \in Fetched :
        /\ Fetch(t, "join", result)
        /\ Answer(t, at[t].own /\ Own(t, result),
                  CASE result.is \in {"key", "repository"} -> "allowed"
                    [] result.is \in {"done", "none"} -> "missing"
                    [] OTHER -> "failed")
        /\ UNCHANGED acked

Leave(t) ==
    /\ at[t].step = "answered"
    /\ Go(t, NoRequest)
    /\ UNCHANGED <<boots, stale, tables, queue, wire, acked, faults>>

\* queue_webhook: a row with status queued, then a Sidekiq job.
StartWebhook(t) ==
    \E h \in Hooks :
        /\ hooks[h] = "none" /\ job[h].at = "none"
        /\ \A u \in Threads : at[u].step \in {"insert", "enqueue"} => at[u].hook # h
        /\ Accept(t, [step |-> "insert", hook |-> h])

InsertHook(t) ==
    /\ Send(t, "insert", "done")
    /\ hooks' = [hooks EXCEPT ![at[t].hook] = "queued"]
    /\ UNCHANGED <<projects, repositories, at>>

HookInserted(t) ==
    \E result \in Fetched :
        /\ Fetch(t, "insert", result)
        /\ Go(t, IF result.is = "refused" THEN NoRequest
                 ELSE [at[t] EXCEPT !.step = "enqueue"])
        /\ UNCHANGED acked

Enqueue(t) ==
    /\ at[t].step = "enqueue"
    /\ job' = [job EXCEPT ![at[t].hook].at = "waiting"]
    /\ Go(t, NoRequest)
    /\ UNCHANGED <<boots, stale, tables, hooks, wire, acked, faults>>

\* Redis fails: enqueue_webhook_delivery rescues it, the answer is 202.
EnqueueFails(t) ==
    /\ Fault
    /\ at[t].step = "enqueue"
    /\ Go(t, NoRequest)
    /\ UNCHANGED <<boots, stale, tables, queue, wire, acked>>

\* Slip: the rescue of the job's insertion covers the row's as well.
SlipRaise(t) ==
    IF at[t].step \in {"key", "join"} THEN Answer(t, at[t].own, "failed")
    ELSE IF at[t].step = "insert" THEN Go(t, [at[t] EXCEPT !.step = "enqueue"])
    ELSE Go(t, NoRequest)

\* The request's exception: 403 for authorize_ssh, 500 for the others.
Raise(t) ==
    IF at[t].step \in {"key", "join"} THEN Answer(t, at[t].own, "failed")
    ELSE Go(t, NoRequest)

\* A statement raises, with or without having been done: its connection is cut,
\* or another thread's statement came first on the connection it found idle.
StatementFails(t) ==
    /\ at[t].step \in Statements
    /\ Raise(t)
    /\ sent' = sent \ {t}
    /\ IF Connected("web") /\ (t \in sent \/ unread = NoResult)
       THEN Fault ELSE UNCHANGED faults
    /\ UNCHANGED <<boots, stale, tables, queue, unread, acked>>

Handle(t) ==
    \/ Discard(t)
    \/ AddProject(t) \/ ProjectAdded(t) \/ AddRepository(t) \/ RepositoryAdded(t)
    \/ FindKey(t) \/ KeyFound(t) \/ FindRepository(t) \/ RepositoryFound(t)
    \/ Leave(t)
    \/ InsertHook(t) \/ HookInserted(t) \/ Enqueue(t)

---------------------------------------------------------------------------
(* The Sidekiq process: WebhookDeliveryJob marks the row delivered.        *)

Take(h) ==
    /\ boot["sidekiq"] = "up"
    /\ job[h].at = "waiting"
    /\ job' = [job EXCEPT ![h].at = "taken"]
    /\ UNCHANGED <<boots, stale, tables, hooks, at, wire, acked, faults>>

\* The update names the row by its id and changes nothing without it.
MarkDelivered(h) ==
    hooks' = [hooks EXCEPT ![h] = IF @ = "none" THEN @ ELSE "delivered"]

Perform(h) ==
    /\ job[h].at = "taken"
    /\ Connected("sidekiq")
    /\ MarkDelivered(h)
    /\ job' = [job EXCEPT ![h].at = "done"]
    /\ UNCHANGED <<boots, stale, tables, at, wire, acked, faults>>

\* Slip: one retry more than sidekiq_options allow.
SlipOneMoreRetry(h) ==
    IF job[h].tries <= Retries
    THEN [job[h] EXCEPT !.at = "waiting", !.tries = @ + 1]
    ELSE [job[h] EXCEPT !.at = "gone"]

\* Sidekiq takes the job up again until it has failed 1 + Retries times.
Retry(h) ==
    IF job[h].tries < Retries
    THEN [job[h] EXCEPT !.at = "waiting", !.tries = @ + 1]
    ELSE [job[h] EXCEPT !.at = "gone"]

\* The update raises, with or without having been done.
PerformFails(h) ==
    /\ job[h].at = "taken"
    /\ IF Connected("sidekiq")
       THEN Fault /\ (UNCHANGED hooks \/ MarkDelivered(h))
       ELSE UNCHANGED <<faults, hooks>>
    /\ job' = [job EXCEPT ![h] = Retry(h)]
    /\ UNCHANGED <<boots, stale, tables, at, wire, acked>>

\* Another job's update is under way on the connection: this one raises without
\* having been sent, or waits for a result that the other has taken.
PerformCrossed(h) ==
    /\ job[h].at = "taken"
    /\ Connected("sidekiq")
    /\ \E k \in Hooks \ {h} : job[k].at \in {"taken", "stuck"}
    /\ \E left \in {Retry(h), [job[h] EXCEPT !.at = "stuck"]} :
           job' = [job EXCEPT ![h] = [left EXCEPT !.crossed = TRUE]]
    /\ UNCHANGED <<boots, stale, tables, hooks, at, wire, acked, faults>>

\* The connection has a next result, if it ever has.
Resume(h) ==
    /\ job[h].at = "stuck"
    /\ job' = [job EXCEPT ![h].at = "taken"]
    /\ UNCHANGED <<boots, stale, tables, hooks, at, wire, acked, faults>>

Work(h) == Take(h) \/ Perform(h) \/ PerformCrossed(h) \/ Resume(h)

---------------------------------------------------------------------------
(* What happens to the processes and the database.                         *)

\* The database restarts: every connection opened so far is cut, and no
\* process opens another (Database.connection returns the one it has).
DatabaseRestarts ==
    /\ Fault
    /\ stale' = {p \in Processes : boot[p] \notin {"off", "exited", "schema"}}
    /\ UNCHANGED <<boots, tables, queue, at, wire, acked>>

\* The web process ends with its threads: a webhook between its row and its
\* job gets no job.
KillWeb ==
    /\ Fault
    /\ boot["web"] \notin {"off", "exited"}
    /\ boot' = [boot EXCEPT !["web"] = "off"]
    /\ at' = [t \in Threads |-> NoRequest]
    /\ sent' = {} /\ unread' = NoResult
    /\ UNCHANGED <<saw, stale, tables, queue, acked>>

\* Sidekiq's basic fetch has removed the jobs it works on from Redis.
KillSidekiq ==
    /\ Fault
    /\ boot["sidekiq"] \notin {"off", "exited"}
    /\ boot' = [boot EXCEPT !["sidekiq"] = "off"]
    /\ job' = [h \in Hooks |-> IF job[h].at \in {"taken", "stuck"}
                               THEN [job[h] EXCEPT !.at = "gone"] ELSE job[h]]
    /\ UNCHANGED <<saw, stale, tables, hooks, at, wire, acked>>

StoreNext ==
    \/ \E p \in Processes : StartProcess(p) \/ Boot(p) \/ BootFails(p) \/ BootResultLost(p)
    \/ \E t \in Threads :
        \/ StartCreate(t) \/ StartAuthorize(t) \/ StartWebhook(t)
        \/ Handle(t)
        \/ StatementFails(t) \/ EnqueueFails(t)
    \/ \E h \in Hooks : Work(h) \/ PerformFails(h)
    \/ DatabaseRestarts \/ KillWeb \/ KillSidekiq

\* Sidekiq's threads go on taking jobs and end each of them, with success or
\* with an exception.  Nothing is assumed of requests, starts and faults.
Fairness ==
    /\ \A p \in Processes : WF_storeVars(Boot(p) \/ BootFails(p))
    /\ \A h \in Hooks : WF_storeVars(Take(h)) /\ WF_storeVars(Perform(h) \/ PerformFails(h))

StoreSpec == StoreInit /\ [][StoreNext]_storeVars /\ Fairness

---------------------------------------------------------------------------
(* Properties.                                                             *)

\* Both processes seed one database at the same time and may find the other's
\* rows in their way; seed_wiki! and ensure_schema! rescue nothing, so one of
\* the two may end.  Without a fault that happens a few times at most: both are
\* up for good if neither is left down.
BothComeUp ==
    [](faults = 0) /\ (\A p \in Processes : []<>(boot[p] \notin {"off", "exited"}))
        => <>[](\A p \in Processes : boot[p] = "up")

\* A push to a project that had been answered 201 when the push came is never
\* told "repository not found" by authorize_ssh, whatever restarts and failures
\* came between, unless one of the two requests was handed another request's
\* result, or none, over the connection they share.
AnsweredProjectsAreFound ==
    \A t \in Threads :
        at[t].step = "answered" /\ at[t].due /\ at[t].own => at[t].reply # "missing"

\* A webhook whose job reached Redis is marked delivered once Sidekiq stays up,
\* or its job was dropped after a fault or met another job's update on the
\* connection they share: the row is there before the job can run, and it is not
\* retried for ever, also when the process's connection has been cut.
DeliveredAtLast ==
    <>[](boot["sidekiq"] = "up") =>
        \A h \in Hooks :
            job[h].at = "waiting" ~>
                \/ hooks[h] = "delivered"
                \/ job[h].at = "gone" /\ faults > 0
                \/ job[h].crossed

=============================================================================
