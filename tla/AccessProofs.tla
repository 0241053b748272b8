---------------------------- MODULE AccessProofs ----------------------------
(***************************************************************************)
(* What TLAPS proves of who gets at a repository: of GitAccess, for any    *)
(* sessions, users, keys, paths, slugs and secrets, any lifetime of a      *)
(* token and any bound on the clocks; and of the tables the answer comes   *)
(* from, RubyStore, for any threads, slugs, webhooks, retries and faults.  *)
(***************************************************************************)
EXTENDS GitAccess, RubyStore, TLAPS

(* GitAccess.                                                              *)

Asking     == [at : {"asking"}, asked : Asked]
Authorized == [at : {"authorized"}, asked : Asked, token : Tokens, command : Commands]
Admitted   == [at : {"verified", "running"}, asked : Asked, token : Tokens,
               command : Commands, when : Nat]
Aborted    == [at : {"aborted"}, why : Reasons]
Holding    == [at : {"holding"}, token : Tokens, reply : {"none", "allowed", "refused"}]

\* What the application has granted: a key its owner uses, on a repository
\* there is, and one git command as it was asked.
Granted ==
  \A c \in Clients : client[c].at \in {"authorized", "verified", "running"} =>
    LET asked   == client[c].asked
        command == client[c].command
    IN  /\ Owner[asked.key] \in Users
        /\ asked.user # Nothing => Fold[asked.user] = Fold[Owner[asked.key]]
        /\ SlugOf[command.path] \in repos
        /\ Parses(asked.text) /\ command = Canonical(asked.text)

\* The git service admitted a token that was alive.
AdmittedAlive ==
  \A c \in Clients : client[c].at \in {"verified", "running"} =>
    client[c].when < client[c].token.exp

IInv ==
  /\ TypeOK
  /\ Granted
  /\ AdmittedAlive

-----------------------------------------------------------------------------

\* Where a client stands tells which fields it has.
LEMMA ClientKind ==
  ASSUME TypeOK, NEW c \in Clients
  PROVE  /\ client[c] \in Client
         /\ client[c].at = "asking" => client[c] \in Asking
         /\ client[c].at = "authorized" => client[c] \in Authorized
         /\ client[c].at \in {"verified", "running"} => client[c] \in Admitted
         /\ client[c].at = "holding" => client[c] \in Holding
<1>1. client[c] \in Client
  BY DEF TypeOK
<1> HIDE DEF TypeOK
<1> QED BY <1>1 DEF Client, Asking, Authorized, Admitted, Holding

\* Nobody is connected.
LEMMA InvInit == Init => IInv
<1> SUFFICES ASSUME Init PROVE IInv
  OBVIOUS
<1>1. TypeOK
  BY GitAccessAssumption DEF Init, TypeOK, Client, Idle
<1>2. \A c \in Clients : client[c].at = "idle"
  BY DEF Init, Idle
<1> QED BY <1>1, <1>2 DEF IInv, Granted, AdmittedAlive

\* A client that becomes something of the right type, while nothing else that
\* the invariant looks at changes.
LEMMA ClientStep ==
  ASSUME IInv, NEW c \in Clients, NEW state \in Client, Become(c, state),
         UNCHANGED <<repos, services, clock>>,
         state.at \in {"authorized", "verified", "running"} =>
           /\ Owner[state.asked.key] \in Users
           /\ state.asked.user # Nothing => Fold[state.asked.user] = Fold[Owner[state.asked.key]]
           /\ SlugOf[state.command.path] \in repos
           /\ Parses(state.asked.text) /\ state.command = Canonical(state.asked.text),
         state.at \in {"verified", "running"} => state.when < state.token.exp
  PROVE  IInv'
<1>1. client \in [Clients -> Client] /\ client' = [client EXCEPT ![c] = state]
  BY DEF IInv, TypeOK, Become
<1> HIDE DEF Client
<1>2. client'[c] = state /\ \A d \in Clients \ {c} : client'[d] = client[d]
  BY <1>1
<1>3. TypeOK'
  BY <1>1 DEF IInv, TypeOK, services
<1>4. Granted'
  <2> SUFFICES ASSUME NEW d \in Clients,
                      client'[d].at \in {"authorized", "verified", "running"}
               PROVE  /\ Owner[client'[d].asked.key] \in Users
                      /\ client'[d].asked.user # Nothing =>
                           Fold[client'[d].asked.user] = Fold[Owner[client'[d].asked.key]]
                      /\ SlugOf[client'[d].command.path] \in repos
                      /\ Parses(client'[d].asked.text)
                      /\ client'[d].command = Canonical(client'[d].asked.text)
    BY DEF Granted, Canonical, Parses
  <2>1. CASE d = c
    BY <1>2, <2>1
  <2>2. CASE d # c
    BY <1>2, <2>2 DEF IInv, Granted
  <2> QED BY <2>1, <2>2
<1>5. AdmittedAlive'
  BY <1>2 DEF IInv, AdmittedAlive
<1> QED BY <1>3, <1>4, <1>5 DEF IInv

\* A client that ends its session.
LEMMA AbortStep ==
  ASSUME IInv, NEW c \in Clients, NEW reason \in Reasons,
         Abort(c, reason), UNCHANGED <<repos, services, clock>>
  PROVE  IInv'
<1> DEFINE state == [at |-> "aborted", why |-> reason]
<1>1. state \in Client /\ state.at = "aborted"
  BY DEF Client
<1>2. Become(c, state)
  BY DEF Abort
<1> HIDE DEF state
<1> QED BY <1>1, <1>2, ClientStep

\* The application's answer: every objection, then the token.
LEMMA AuthorizeStep ==
  ASSUME IInv, NEW c \in Clients, Authorize(c)
  PROVE  IInv'
<1> DEFINE asked   == client[c].asked
           command == Canonical(asked.text)
           slug    == SlugOf[command.path]
           token   == Token(TRUE, ActionOf(command.verb), command)
           state   == [at |-> "authorized", asked |-> asked, command |-> command,
                       token |-> token]
<1>1. UNCHANGED <<repos, services, clock>>
  BY DEF Authorize
<1>2. asked \in Asked
  BY ClientKind DEF IInv, Authorize, At, Asking
<1>3. CASE \E reason \in {"command", "key", "user", "repository"} : Abort(c, reason)
  BY <1>1, <1>3, AbortStep DEF Reasons
<1>4. CASE /\ Parses(asked.text) /\ Knows(asked) /\ IsOwner(asked)
           /\ slug \in repos
           /\ Become(c, state)
  <2>1. /\ asked.text.path \in Paths /\ asked.key \in Keys
        /\ asked.user \in Users \cup {Nothing}
    BY <1>2 DEF Asked, Texts
  <2>2. command \in Commands /\ command \in Texts
    BY <1>4, <2>1, GitAccessAssumption DEF Canonical, Commands, Texts, Forms, Parses
  <2>3. Owner[asked.key] \in Users
    BY <1>4, <2>1, GitAccessAssumption DEF Knows
  <2>4. ActionOf(command.verb) \in Actions
    BY <2>2 DEF Commands, Verbs, Actions, ActionOf
  <2>5. token \in Tokens
    <3>1. clock["ruby"] + Lifetime \in Nat /\ secret["ruby"] \in Secrets
      BY GitAccessAssumption DEF IInv, TypeOK, Services
    <3> HIDE DEF command
    <3> QED BY <2>2, <2>4, <3>1 DEF Token, Tokens
  <2>6. asked.user # Nothing => Fold[asked.user] = Fold[Owner[asked.key]]
    BY <1>4 DEF IsOwner, Actor
  <2> HIDE DEF asked, command, slug, token
  <2>7. /\ state \in Client /\ state.at = "authorized" /\ state.asked = asked
        /\ state.command = command /\ state.token = token
    BY <1>2, <2>2, <2>5 DEF Client
  <2>8. slug = SlugOf[command.path] /\ command = Canonical(asked.text)
    BY DEF slug, command
  <2> HIDE DEF state
  <2> QED BY <1>1, <1>4, <2>3, <2>6, <2>7, <2>8, ClientStep
<1> QED BY <1>3, <1>4 DEF Authorize

\* The git service's answer to what the application has granted.
LEMMA VerifyStep ==
  ASSUME IInv, NEW c \in Clients, Verify(c)
  PROVE  IInv'
<1> DEFINE objection == Objection(client[c].token, client[c].command)
           state     == [at |-> "verified", asked |-> client[c].asked,
                         token |-> client[c].token, command |-> client[c].command,
                         when |-> clock["git"]]
<1>1. UNCHANGED <<repos, services, clock>>
  BY DEF Verify
<1>2. client[c] \in Authorized /\ client[c].at = "authorized"
  BY ClientKind DEF IInv, Verify, At
<1>3. CASE objection = "none"
  <2>1. ~Expired(client[c].token)
    BY <1>3 DEF Objection
  <2>2. clock["git"] \in Nat /\ client[c].token.exp \in Nat
    BY <1>2, GitAccessAssumption DEF IInv, TypeOK, Services, Authorized, Tokens
  <2>3. clock["git"] < client[c].token.exp
    BY <2>1, <2>2 DEF Expired
  <2>4. Become(c, state)
    BY <1>3 DEF Verify
  <2>5. /\ state \in Client /\ state.at = "verified" /\ state.asked = client[c].asked
        /\ state.token = client[c].token /\ state.command = client[c].command
        /\ state.when = clock["git"]
    BY <1>2, <2>2 DEF Client, Authorized
  <2> HIDE DEF state
  <2> QED BY <1>1, <1>2, <2>3, <2>4, <2>5, ClientStep DEF IInv, Granted
<1>4. CASE objection # "none"
  <2>1. Abort(c, objection)
    BY <1>4 DEF Verify
  <2>2. objection \in Reasons
    BY <1>4 DEF Objection, Reasons
  <2> QED BY <1>1, <2>1, <2>2, AbortStep
<1> QED BY <1>3, <1>4

\* The command runs.
LEMMA RunStep ==
  ASSUME IInv, NEW c \in Clients, Run(c)
  PROVE  IInv'
<1>1. client[c] \in Admitted /\ client[c].at = "verified"
  BY ClientKind DEF IInv, Run, At
<1> DEFINE state == [client[c] EXCEPT !.at = "running"]
<1>2. /\ state.at = "running" /\ state.asked = client[c].asked
      /\ state.token = client[c].token /\ state.command = client[c].command
      /\ state.when = client[c].when /\ state \in Admitted
  BY <1>1 DEF Admitted
<1>3. state \in Client
  BY <1>2 DEF Client, Admitted
<1>4. Become(c, state) /\ UNCHANGED <<repos, services, clock>>
  BY DEF Run
<1> HIDE DEF state
<1> QED BY <1>1, <1>2, <1>3, <1>4, ClientStep DEF IInv, Granted, AdmittedAlive

\* The steps that grant nothing.
LEMMA OtherStep ==
  ASSUME IInv, NEW c \in Clients,
         Connect(c) \/ Disconnect(c) \/ AskToken(c) \/ Present(c) \/ LetGo(c)
  PROVE  IInv'
<1>1. PICK state \in Client :
        Become(c, state) /\ state.at \in {"idle", "asking", "holding"}
  <2>1. CASE Connect(c)
    BY <2>1 DEF Connect, Client
  <2>2. CASE Disconnect(c) \/ LetGo(c)
    BY <2>2 DEF Disconnect, LetGo, Client, Idle
  <2>3. CASE AskToken(c)
    <3>1. PICK whole \in BOOLEAN, action \in Actions \cup {"other"},
               command \in Texts \cup {Nothing} :
             Become(c, [at |-> "holding", reply |-> "none",
                        token |-> Token(whole, action, command)])
      BY <2>3 DEF AskToken
    <3>2. clock["ruby"] + Lifetime \in Nat /\ secret["ruby"] \in Secrets
      BY GitAccessAssumption DEF IInv, TypeOK, Services
    <3>3. Token(whole, action, command) \in Tokens
      BY <3>2 DEF Token, Tokens
    <3> QED BY <3>1, <3>3 DEF Client
  <2>4. CASE Present(c)
    <3>1. client[c] \in Holding
      BY <2>4, ClientKind DEF Present, IInv, At
    <3>2. PICK reply \in {"allowed", "refused"} :
             Become(c, [client[c] EXCEPT !.reply = reply])
      BY <2>4 DEF Present
    <3>3. [client[c] EXCEPT !.reply = reply] \in Holding
      BY <3>1, <3>2 DEF Holding
    <3> QED BY <3>2, <3>3 DEF Client, Holding
  <2> QED BY <2>1, <2>2, <2>3, <2>4
<1>2. UNCHANGED <<repos, services, clock>>
  BY DEF Connect, Disconnect, AskToken, Present, LetGo
<1> QED BY <1>1, <1>2, ClientStep

\* Every step keeps the invariant.
LEMMA InvStep == IInv /\ [Next]_vars => IInv'
<1> SUFFICES ASSUME IInv, [Next]_vars PROVE IInv'
  OBVIOUS
<1>1. ASSUME NEW c \in Clients, NoAnswer(c) PROVE IInv'
  <2>1. Abort(c, "no answer") /\ UNCHANGED <<repos, services, clock>>
    BY <1>1 DEF NoAnswer
  <2> QED BY <2>1, AbortStep DEF Reasons
<1>2. CASE CreateRepository
  BY <1>2 DEF CreateRepository, IInv, TypeOK, services, Granted, AdmittedAlive
<1>3. ASSUME NEW s \in Services, Start(s) \/ Stop(s) \/ Tick(s) PROVE IInv'
  <2>1. TypeOK'
    BY <1>3, GitAccessAssumption DEF Start, Stop, Tick, IInv, TypeOK, services
  <2>2. repos' = repos /\ client' = client
    BY <1>3 DEF Start, Stop, Tick
  <2> QED BY <2>1, <2>2 DEF IInv, Granted, AdmittedAlive
<1>4. CASE UNCHANGED vars
  BY <1>4 DEF vars, services, IInv, TypeOK, Granted, AdmittedAlive
<1> QED BY <1>1, <1>2, <1>3, <1>4, AuthorizeStep, VerifyStep, RunStep, OtherStep
        DEF Next, ScriptStep

-----------------------------------------------------------------------------

\* Sessions, tokens and clocks stay of their types.
THEOREM TypeCorrect == Spec => []TypeOK
<1>1. IInv => TypeOK
  BY DEF IInv
<1> QED BY <1>1, InvInit, InvStep, PTL DEF Spec

\* A git command runs only for a key somebody registered, under a name its
\* owner goes by, on a repository there is, as it was asked, under a token the
\* git service found alive: whatever the services' clocks and secrets are.
THEOREM CommandsAreAuthorised == Spec => []RunsAsAuthorised
<1>1. IInv => RunsAsAuthorised
  BY DEF IInv, RunsAsAuthorised, Granted, AdmittedAlive, At
<1> QED BY <1>1, InvInit, InvStep, PTL DEF Spec

-----------------------------------------------------------------------------
(* RubyStore.                                                              *)

\* A request that may still answer a push, one that creates, and so on.
Pushing  == [step : {"key", "join"}, slug : ProjectSlugs, due : BOOLEAN, own : BOOLEAN]
Creating == [step : {"project", "repository"}, slug : ProjectSlugs,
             filed : BOOLEAN, own : BOOLEAN]
Answered == [step : {"answered"}, due : BOOLEAN, own : BOOLEAN,
             reply : {"allowed", "missing", "failed"}]
Queueing == [step : {"insert", "enqueue"}, hook : Hooks]

Job == [at : {"none", "waiting", "taken", "stuck", "done", "gone"},
        tries : 0..Retries, crossed : BOOLEAN]

\* What was answered 201 has its project and its repository.
AckedIsThere == acked \subseteq projects \cap repositories

\* A request to a project that was answered knows so; one that has filed the
\* project finds it.
Right(r) ==
  /\ r.step \in {"key", "join"} /\ r.due => r.slug \in acked
  /\ r.step = "answered" /\ r.due /\ r.own => r.reply # "missing"
  /\ r.step \in {"project", "repository"} /\ r.filed => r.slug \in projects

\* What the request's own result says is so.
Tells(r, is) ==
  /\ r.step = "repository" => is = "refused" \/ r.slug \in projects \cap repositories
  /\ r.step = "join" /\ r.due => is = "repository"

SentStand == \A t \in sent : at[t].step \in Statements

Telling == \A t \in sent : Own(t, unread) => Tells(at[t], unread.is)

\* Nobody is handed more than lies on the connection, so each result that is a
\* request's own tells it the truth.
StoreInv ==
  /\ StoreTypeOK
  /\ AckedIsThere
  /\ \A t \in Threads : Right(at[t])
  /\ SentStand
  /\ Telling

\* Rows are only added.
RowsStay ==
  /\ projects \subseteq projects' /\ repositories \subseteq repositories'
  /\ projects' \subseteq ProjectSlugs /\ repositories' \subseteq ProjectSlugs

-----------------------------------------------------------------------------

\* Which step a request stands at tells which fields it has.
LEMMA RequestIs ==
  ASSUME StoreTypeOK, NEW t \in Threads
  PROVE  /\ at \in [Threads -> Requests] /\ at[t] \in Requests
         /\ at[t].step \in {"key", "join"} => at[t] \in Pushing
         /\ at[t].step \in {"project", "repository"} => at[t] \in Creating
         /\ at[t].step \in {"insert", "enqueue"} => at[t] \in Queueing
<1>1. at \in [Threads -> Requests] /\ at[t] \in Requests
  BY DEF StoreTypeOK
<1> HIDE DEF StoreTypeOK
<1> QED BY <1>1 DEF Requests, NoRequest, Pushing, Creating, Queueing

\* What a request may go on to.
LEMMA RequestsAre ==
  /\ NoRequest \in Requests /\ NoRequest.step = "idle"
  /\ Pushing \subseteq Requests /\ Creating \subseteq Requests
  /\ Answered \subseteq Requests /\ Queueing \subseteq Requests
BY DEF Requests, NoRequest, Pushing, Creating, Answered, Queueing

\* A step of one request that has no statement under way after it, or of none.
LEMMA RequestStep ==
  ASSUME StoreInv, StoreTypeOK', RowsStay, NEW t \in Threads, NEW r, Go(t, r),
         acked \subseteq acked', AckedIsThere', Right(r)',
         sent' \subseteq sent \ {t}, unread' \in {unread, NoResult}
  PROVE  StoreInv'
<1>1. at' = [at EXCEPT ![t] = r] /\ at \in [Threads -> Requests]
  BY DEF Go, StoreInv, StoreTypeOK
<1>2. at'[t] = r /\ \A u \in Threads \ {t} : at'[u] = at[u]
  BY <1>1
<1>3. \A u \in Threads : Right(at[u])'
  BY <1>2 DEF StoreInv, RowsStay, Right
<1>4. \A u \in sent' : u \in sent /\ at'[u] = at[u]
  BY <1>2 DEF StoreInv, StoreTypeOK
<1>5. SentStand'
  BY <1>4 DEF StoreInv, SentStand
<1>6. Telling'
  BY <1>4 DEF StoreInv, Telling, Tells, Own, RowsStay
<1> QED BY <1>3, <1>5, <1>6 DEF StoreInv

\* A request sends a statement whose result tells the truth.
LEMMA SendStep ==
  ASSUME StoreInv, StoreTypeOK', RowsStay, NEW t \in Threads, NEW r, NEW is, Go(t, r),
         UNCHANGED acked, Right(r)', Tells(r, is)', r.step \in Statements,
         sent' = sent \cup {t}, unread' = [of |-> t, is |-> is]
  PROVE  StoreInv'
<1>1. at' = [at EXCEPT ![t] = r] /\ at \in [Threads -> Requests]
  BY DEF Go, StoreInv, StoreTypeOK
<1>2. at'[t] = r /\ \A u \in Threads \ {t} : at'[u] = at[u]
  BY <1>1
<1>3. \A u \in Threads : Right(at[u])'
  BY <1>2 DEF StoreInv, RowsStay, Right
<1>4. AckedIsThere'
  BY DEF StoreInv, AckedIsThere, RowsStay
<1>5. SentStand'
  BY <1>2 DEF StoreInv, SentStand, StoreTypeOK
<1>6. Telling'
  BY <1>2 DEF Telling, Tells, Own
<1> QED BY <1>3, <1>4, <1>5, <1>6 DEF StoreInv

\* A step that leaves the requests alone.
LEMMA BesideStep ==
  ASSUME StoreInv, StoreTypeOK', RowsStay, UNCHANGED <<at, acked, sent>>,
         unread' \in {unread, NoResult}
  PROVE  StoreInv'
<1>1. \A u \in Threads : Right(at[u])'
  BY DEF StoreInv, RowsStay, Right
<1>2. AckedIsThere' /\ SentStand'
  BY DEF StoreInv, AckedIsThere, RowsStay, SentStand
<1>3. Telling'
  BY DEF StoreInv, Telling, Tells, Own, RowsStay
<1> QED BY <1>1, <1>2, <1>3 DEF StoreInv

\* A process boots, or fails to.
LEMMA ProcessKeeps ==
  ASSUME StoreInv, NEW p \in Processes,
         StartProcess(p) \/ Boot(p) \/ BootFails(p) \/ BootResultLost(p)
  PROVE  StoreInv'
<1>1. StoreTypeOK /\ Platform \in ProjectSlugs /\ MaxFaults \in Nat
  BY StoreAssumption DEF StoreInv
<1>2. UNCHANGED <<queue, at, wire, acked>>
  BY DEF StartProcess, Boot, BootFails, BootResultLost, EnsureSchema, SchemaTaken, LookForProject,
         SeedProject, SeedRepository, SeedTaken, SeedSettings, LookForHome, SeedHome, HomeTaken,
         SeedKey
<1>3. PICK step \in {"off", "exited", "up"} \cup Booting : boot' = [boot EXCEPT ![p] = step]
  <2> USE DEF Booting
  <2>1. CASE StartProcess(p)
    BY <2>1 DEF StartProcess
  <2>2. CASE Boot(p)
    BY <2>2 DEF Boot, BootStep, EnsureSchema, SchemaTaken, LookForProject,
         SeedProject, SeedRepository, SeedTaken, SeedSettings, LookForHome, SeedHome, HomeTaken,
         SeedKey
  <2>3. CASE BootFails(p) \/ BootResultLost(p)
    BY <2>3 DEF BootFails, BootResultLost, AfterFailure
  <2> QED BY <2>1, <2>2, <2>3
<1>4. /\ UNCHANGED saw \/ saw' = [saw EXCEPT ![p] = schema]
      /\ stale' \subseteq stale
      /\ faults' \in 0..MaxFaults
  BY <1>1 DEF StartProcess, Boot, BootFails, BootResultLost, EnsureSchema, SchemaTaken,
         LookForProject, SeedProject, SeedRepository, SeedTaken, SeedSettings, LookForHome,
         SeedHome, HomeTaken, SeedKey, tables, boots, Fault, StoreTypeOK
<1>5. /\ projects' \in {projects, projects \cup {Platform}}
      /\ repositories' \in {repositories, repositories \cup {Platform}}
      /\ schema' \in {schema, TRUE} /\ keyed' \in {keyed, TRUE}
      /\ home' \in {home, TRUE, home \/ boot[p] = "addHome"}
  BY DEF StartProcess, Boot, BootFails, BootResultLost, EnsureSchema, SchemaTaken,
         LookForProject, SeedProject, SeedRepository, SeedTaken, SeedSettings, LookForHome,
         SeedHome, HomeTaken, SeedKey, tables
<1>6. RowsStay
  BY <1>1, <1>5 DEF RowsStay, StoreTypeOK
<1>7. StoreTypeOK'
  BY <1>1, <1>2, <1>3, <1>4, <1>5 DEF StoreTypeOK, queue, wire
<1> QED BY <1>2, <1>6, <1>7, BesideStep DEF wire

\* NoResult of a boot, nor of the schema, changes with a request.
SameBoot == UNCHANGED <<boot, saw, stale, schema, home, keyed>>

\* The type of what a request changes.
LEMMA RequestType ==
  ASSUME StoreInv, SameBoot, RowsStay, NEW t \in Threads, NEW r \in Requests, Go(t, r),
         hooks' \in [Hooks -> {"none", "queued", "delivered"}],
         job' \in [Hooks -> Job], acked' \subseteq ProjectSlugs, faults' \in 0..MaxFaults,
         sent' \subseteq Threads, unread' \in Results \cup {NoResult}
  PROVE  StoreTypeOK'
<1>1. at' \in [Threads -> Requests]
  BY DEF Go, StoreInv, StoreTypeOK
<1> QED BY <1>1 DEF StoreInv, StoreTypeOK, SameBoot, RowsStay, Job

\* What holds before any step of a request.
LEMMA QueueIs ==
  ASSUME StoreInv
  PROVE  /\ hooks \in [Hooks -> {"none", "queued", "delivered"}]
         /\ job \in [Hooks -> Job] /\ acked \subseteq ProjectSlugs
         /\ faults \in 0..MaxFaults /\ MaxFaults \in Nat
         /\ Fault => faults' \in 0..MaxFaults
         /\ projects \subseteq ProjectSlugs /\ repositories \subseteq ProjectSlugs
         /\ sent \subseteq Threads /\ unread \in Results \cup {NoResult}
BY StoreAssumption DEF StoreInv, StoreTypeOK, Job, Fault

\* A request that stands at none of its statements has none under way.
LEMMA NoneUnderWay ==
  ASSUME StoreInv, NEW t \in Threads, at[t].step \notin Statements
  PROVE  t \notin sent
BY DEF StoreInv, SentStand

\* A request that changes no table but for the webhooks'.
LEMMA PlainStep ==
  ASSUME StoreInv, NEW t \in Threads, NEW r \in Requests, Go(t, r), Right(r),
         UNCHANGED <<boots, stale, tables, acked>>,
         hooks' \in [Hooks -> {"none", "queued", "delivered"}],
         job' \in [Hooks -> Job], faults' \in 0..MaxFaults,
         sent' \subseteq sent \ {t}, unread' \in {unread, NoResult}
  PROVE  StoreInv'
<1>1. RowsStay /\ SameBoot
  BY QueueIs DEF RowsStay, SameBoot, boots, tables
<1>2. StoreTypeOK'
  BY <1>1, QueueIs, RequestType
<1>3. Right(r)' /\ AckedIsThere'
  BY DEF Right, AckedIsThere, StoreInv, tables
<1> QED BY <1>1, <1>2, <1>3, RequestStep

\* The web process takes a request; one for a key notes whether it is due.
LEMMA AcceptKeeps ==
  ASSUME StoreInv, NEW t \in Threads, StartCreate(t) \/ StartAuthorize(t) \/ StartWebhook(t)
  PROVE  StoreInv'
<1>1. PICK r \in Requests : Accept(t, r) /\ Right(r)
  <2>1. CASE StartCreate(t)
    <3>1. PICK s \in ProjectSlugs :
            Accept(t, [step |-> "project", slug |-> s, filed |-> FALSE, own |-> TRUE])
      BY <2>1 DEF StartCreate
    <3>2. PICK r : r = [step |-> "project", slug |-> s, filed |-> FALSE, own |-> TRUE]
      OBVIOUS
    <3>3. r \in Creating /\ r.step = "project" /\ r.filed = FALSE
      BY <3>2 DEF Creating
    <3>4. Accept(t, r) /\ Right(r)
      BY <3>1, <3>2, <3>3 DEF Right
    <3> QED BY <3>3, <3>4, RequestsAre
  <2>2. CASE StartAuthorize(t)
    <3>1. PICK s \in ProjectSlugs, due \in BOOLEAN :
            /\ Accept(t, [step |-> "key", slug |-> s, due |-> due, own |-> TRUE])
            /\ due => s \in acked
      <4>1. PICK s \in ProjectSlugs :
              Accept(t, [step |-> "key", slug |-> s, due |-> s \in acked, own |-> TRUE])
        BY <2>2 DEF StartAuthorize
      <4>2. CASE s \in acked
        <5>1. (s \in acked) = TRUE
          BY <4>2
        <5> QED BY <4>1, <4>2, <5>1
      <4>3. CASE s \notin acked
        <5>1. (s \in acked) = FALSE
          BY <4>3
        <5>2. Accept(t, [step |-> "key", slug |-> s, due |-> FALSE, own |-> TRUE])
          BY <4>1, <5>1
        <5> QED BY <5>2
      <4> QED BY <4>2, <4>3
    <3>2. PICK r : r = [step |-> "key", slug |-> s, due |-> due, own |-> TRUE]
      OBVIOUS
    <3>3. r \in Pushing /\ r.step = "key" /\ r.due = due /\ r.slug = s
      BY <3>2 DEF Pushing
    <3>4. Accept(t, r) /\ Right(r)
      BY <3>1, <3>2, <3>3 DEF Right
    <3> QED BY <3>3, <3>4, RequestsAre
  <2>3. CASE StartWebhook(t)
    <3>1. PICK h \in Hooks : Accept(t, [step |-> "insert", hook |-> h])
      BY <2>3 DEF StartWebhook
    <3>2. [step |-> "insert", hook |-> h] \in Queueing
      BY DEF Queueing
    <3>3. Right([step |-> "insert", hook |-> h])
      BY DEF Right
    <3> QED BY <3>1, <3>2, <3>3, RequestsAre
  <2> QED BY <2>1, <2>2, <2>3
<1>2. Go(t, r) /\ UNCHANGED <<boots, stale, tables, queue, sent, unread, acked, faults>>
  BY <1>1 DEF Accept, Go, wire
<1>3. t \notin sent
  BY <1>1, RequestsAre, NoneUnderWay DEF Accept, Statements
<1> QED BY <1>1, <1>2, <1>3, QueueIs, PlainStep DEF queue

\* A result is fetched: the request's own is what lies on the connection.
LEMMA FetchIs ==
  ASSUME StoreInv, NEW t \in Threads, NEW step, NEW result \in Fetched, Fetch(t, step, result)
  PROVE  /\ at[t].step = step /\ sent' = sent \ {t} /\ unread' \in {unread, NoResult}
         /\ Own(t, result) => result = unread /\ Tells(at[t], result.is)
         /\ Own(t, result) \in BOOLEAN
         /\ UNCHANGED <<boots, stale, tables, queue, hooks, job, faults>>
<1>1. at[t].step = step /\ sent' = sent \ {t} /\ unread' \in {unread, NoResult} /\ t \in sent
  BY DEF Fetch
<1>2. Own(t, result) => result = unread
  BY DEF Own, Fetched
<1>3. Own(t, result) => Tells(at[t], result.is)
  BY <1>1, <1>2 DEF StoreInv, Telling
<1> QED BY <1>1, <1>2, <1>3 DEF Fetch, Own, queue

\* A request that fetched a result and goes on.
LEMMA FetchStep ==
  ASSUME StoreInv, NEW t \in Threads, NEW step, NEW result \in Fetched, Fetch(t, step, result),
         NEW r \in Requests, Go(t, r), Right(r), UNCHANGED acked
  PROVE  StoreInv'
<1>1. /\ sent' \subseteq sent \ {t} /\ unread' \in {unread, NoResult}
      /\ UNCHANGED <<boots, stale, tables, hooks, job, faults>>
  BY FetchIs
<1> QED BY <1>1, QueueIs, PlainStep

\* A thread throws away what lies on the connection.
LEMMA DiscardKeeps ==
  ASSUME StoreInv, NEW t \in Threads, Discard(t)
  PROVE  StoreInv'
<1>1. /\ UNCHANGED <<boots, stale, tables, queue, at, sent, acked, faults>>
      /\ unread' = NoResult
  BY DEF Discard
<1>2. StoreTypeOK' /\ RowsStay
  BY <1>1, QueueIs DEF StoreInv, StoreTypeOK, RowsStay, boots, tables, queue
<1> QED BY <1>1, <1>2, BesideStep

\* What a statement sent leaves alone, and the type of its result.
LEMMA SendIs ==
  ASSUME StoreInv, NEW t \in Threads, NEW step,
         NEW is \in {"done", "refused", "key", "repository", "none"}, Send(t, step, is)
  PROVE  /\ at[t].step = step /\ sent' = sent \cup {t} /\ sent' \subseteq Threads
         /\ unread' = [of |-> t, is |-> is] /\ unread' \in Results \cup {NoResult}
         /\ SameBoot /\ UNCHANGED <<job, acked, faults>>
BY QueueIs DEF Send, SameBoot, boots, Results

\* POST /api/projects, its two statements sent.
LEMMA InsertKeeps ==
  ASSUME StoreInv, NEW t \in Threads, AddProject(t) \/ AddRepository(t)
  PROVE  StoreInv'
<1>1. StoreTypeOK /\ at[t] \in Creating /\ at[t].slug \in ProjectSlugs /\ Right(at[t])
      /\ at[t].filed \in BOOLEAN
  <2>1. at[t].step \in {"project", "repository"}
    BY DEF AddProject, AddRepository, Send
  <2> QED BY <2>1, RequestIs DEF StoreInv, Creating
<1>2. CASE AddProject(t)
  <2>1. PICK filed \in BOOLEAN : filed = (at[t].slug \notin projects)
    OBVIOUS
  <2>2. PICK is \in {"done", "refused", "key", "repository", "none"} : Send(t, "project", is)
    BY <1>2 DEF AddProject
  <2>3. PICK r : r = [at[t] EXCEPT !.filed = filed]
    OBVIOUS
  <2>4. r \in Creating /\ r.step = at[t].step /\ r.slug = at[t].slug
    BY <1>1, <2>3 DEF Creating
  <2>5. /\ Go(t, r) /\ projects' = projects \cup {r.slug}
        /\ UNCHANGED <<repositories, hooks>>
    <3>1. [at[t] EXCEPT !.filed = at[t].slug \notin projects] = r
      BY <2>1, <2>3
    <3> QED BY <1>2, <2>4, <3>1 DEF AddProject
  <2>6. r.step = "project"
    BY <2>2, <2>4, SendIs
  <2>7. RowsStay /\ Right(r)' /\ Tells(r, is)' /\ r.step \in Statements
    BY <1>1, <2>4, <2>5, <2>6, QueueIs DEF RowsStay, Right, Tells, Statements
  <2>8. StoreTypeOK'
    BY <2>2, <2>4, <2>5, <2>7, SendIs, QueueIs, RequestsAre, RequestType
  <2> QED BY <2>2, <2>5, <2>7, <2>8, SendIs, SendStep
<1>3. CASE AddRepository(t)
  <2>1. PICK is \in {"done", "refused", "key", "repository", "none"} :
           Send(t, "repository", is) /\ (~at[t].filed => is = "refused")
    BY <1>3 DEF AddRepository
  <2>2. /\ repositories' = repositories \cup (IF at[t].filed THEN {at[t].slug} ELSE {})
        /\ UNCHANGED <<projects, hooks, at>> /\ at[t].step = "repository"
    BY <1>3 DEF AddRepository, Send
  <2>3. Go(t, at[t])
    BY <2>2 DEF Go, StoreInv, StoreTypeOK
  <2>4. RowsStay /\ Right(at[t]) /\ at[t].step \in Statements
    BY <1>1, <2>2, QueueIs DEF RowsStay, Statements
  <2>5. PICK r \in Requests : r = at[t]
    BY <1>1, RequestsAre
  <2>6. Go(t, r) /\ Right(r)' /\ r.step \in Statements
    BY <2>1, <2>2, <2>3, <2>4, <2>5, SendIs DEF Right
  <2>7. Tells(r, is)'
    BY <1>1, <2>1, <2>2, <2>5 DEF Tells, Right
  <2>8. StoreTypeOK'
    BY <2>1, <2>2, <2>4, <2>6, SendIs, QueueIs, RequestType
  <2> QED BY <2>1, <2>4, <2>6, <2>7, <2>8, SendIs, SendStep
<1> QED BY <1>2, <1>3

\* POST /api/projects, the results of its statements.
LEMMA CreateKeeps ==
  ASSUME StoreInv, NEW t \in Threads, ProjectAdded(t) \/ RepositoryAdded(t)
  PROVE  StoreInv'
<1>1. StoreTypeOK /\ at[t] \in Creating /\ at[t].slug \in ProjectSlugs /\ Right(at[t])
  <2>1. at[t].step \in {"project", "repository"}
    BY DEF ProjectAdded, RepositoryAdded, Fetch
  <2> QED BY <2>1, RequestIs DEF StoreInv, Creating
<1>2. NoRequest \in Requests /\ Right(NoRequest) /\ Right(NoRequest)'
  BY RequestsAre DEF Right
<1>3. CASE ProjectAdded(t)
  <2>1. PICK result \in Fetched :
          /\ Fetch(t, "project", result) /\ UNCHANGED acked
          /\ Go(t, IF result.is = "refused" THEN NoRequest
                   ELSE [at[t] EXCEPT !.step = "repository", !.own = Own(t, result)])
    BY <1>3 DEF ProjectAdded
  <2>2. PICK r : r = [at[t] EXCEPT !.step = "repository", !.own = Own(t, result)]
    OBVIOUS
  <2>3. r \in Creating /\ r.step = "repository" /\ r.slug = at[t].slug /\ r.filed = at[t].filed
    BY <1>1, <2>1, <2>2, FetchIs DEF Creating
  <2>4. r \in Requests /\ Right(r)
    BY <1>1, <2>1, <2>3, FetchIs, RequestsAre DEF Right
  <2>5. Go(t, NoRequest) \/ Go(t, r)
    BY <2>1, <2>2
  <2> QED BY <1>2, <2>1, <2>4, <2>5, FetchStep
<1>4. CASE RepositoryAdded(t)
  <2>1. PICK result \in Fetched :
          /\ Fetch(t, "repository", result) /\ Go(t, NoRequest)
          /\ acked' = IF at[t].own /\ Own(t, result) /\ result.is # "refused"
                      THEN acked \cup {at[t].slug} ELSE acked
    BY <1>4 DEF RepositoryAdded
  <2>2. /\ sent' \subseteq sent \ {t} /\ unread' \in {unread, NoResult}
        /\ UNCHANGED <<boots, stale, tables, hooks, job, faults>>
    BY <2>1, FetchIs
  <2>3. acked' # acked => at[t].slug \in projects \cap repositories
    BY <2>1, FetchIs DEF Tells
  <2>4. RowsStay /\ SameBoot /\ acked \subseteq acked' /\ AckedIsThere'
        /\ acked' \subseteq ProjectSlugs
    BY <1>1, <2>1, <2>2, <2>3, QueueIs
       DEF RowsStay, SameBoot, boots, tables, AckedIsThere, StoreInv
  <2>5. StoreTypeOK'
    BY <1>2, <2>1, <2>2, <2>4, QueueIs, RequestType
  <2> QED BY <1>2, <2>1, <2>2, <2>4, <2>5, RequestStep
<1> QED BY <1>3, <1>4

\* A statement that changes neither projects nor repositories is sent.
LEMMA AskStep ==
  ASSUME StoreInv, NEW t \in Threads, NEW step \in Statements,
         NEW is \in {"done", "refused", "key", "repository", "none"}, Send(t, step, is),
         UNCHANGED <<projects, repositories, at>>, Tells(at[t], is),
         hooks' \in [Hooks -> {"none", "queued", "delivered"}]
  PROVE  StoreInv'
<1>1. PICK r \in Requests : r = at[t]
  BY DEF StoreInv, StoreTypeOK
<1>2. Go(t, r)
  BY <1>1 DEF Go, StoreInv, StoreTypeOK
<1>3. RowsStay /\ r.step \in Statements /\ Right(r)' /\ Tells(r, is)'
  BY <1>1, SendIs, QueueIs DEF RowsStay, StoreInv, Right, Tells
<1>4. StoreTypeOK'
  BY <1>2, <1>3, SendIs, QueueIs, RequestType
<1> QED BY <1>2, <1>3, <1>4, SendIs, SendStep

\* The selects of authorize_ssh and the insert of queue_webhook are sent.
LEMMA AskKeeps ==
  ASSUME StoreInv, NEW t \in Threads, FindKey(t) \/ FindRepository(t) \/ InsertHook(t)
  PROVE  StoreInv'
<1>1. UNCHANGED <<projects, repositories, at>> /\ StoreTypeOK
  BY DEF FindKey, FindRepository, InsertHook, StoreInv
<1>2. CASE FindKey(t)
  <2>1. PICK is \in {"done", "refused", "key", "repository", "none"} :
          Send(t, "key", is) /\ at[t].step = "key" /\ UNCHANGED hooks
    BY <1>2 DEF FindKey, Send
  <2>2. Tells(at[t], is) /\ "key" \in Statements
    BY <2>1 DEF Tells, Statements
  <2> QED BY <1>1, <2>1, <2>2, QueueIs, AskStep
<1>3. CASE FindRepository(t)
  <2>1. PICK is \in {"done", "refused", "key", "repository", "none"} :
          /\ Send(t, "join", is) /\ at[t].step = "join" /\ UNCHANGED hooks
          /\ at[t].slug \in projects \cap repositories => is = "repository"
    BY <1>3 DEF FindRepository, Send
  <2>2. at[t].due => at[t].slug \in projects \cap repositories
    BY <1>1, <2>1, RequestIs DEF StoreInv, Right, AckedIsThere
  <2>3. Tells(at[t], is) /\ "join" \in Statements
    BY <2>1, <2>2 DEF Tells, Statements
  <2> QED BY <1>1, <2>1, <2>3, QueueIs, AskStep
<1>4. CASE InsertHook(t)
  <2>1. Send(t, "insert", "done") /\ at[t].step = "insert"
    BY <1>4 DEF InsertHook, Send
  <2>2. Tells(at[t], "done") /\ "insert" \in Statements
    BY <2>1 DEF Tells, Statements
  <2>3. hooks' \in [Hooks -> {"none", "queued", "delivered"}]
    BY <1>4, QueueIs DEF InsertHook
  <2> QED BY <1>1, <2>1, <2>2, <2>3, AskStep
<1> QED BY <1>2, <1>3, <1>4

\* An answer to a push.
LEMMA AnswerIs ==
  ASSUME NEW t \in Threads, at[t] \in Pushing, NEW reply \in {"allowed", "missing", "failed"},
         NEW own \in BOOLEAN, Answer(t, own, reply), at[t].due /\ own => reply # "missing"
  PROVE  \E r \in Requests : Go(t, r) /\ Right(r)
<1>1. PICK r : r = [step |-> "answered", due |-> at[t].due, own |-> own, reply |-> reply]
  OBVIOUS
<1>2. r \in Answered
  BY <1>1 DEF Pushing, Answered
<1>3. Go(t, r) /\ r.step = "answered" /\ r.due = at[t].due /\ r.own = own /\ r.reply = reply
  BY <1>1 DEF Answer
<1>4. Right(r)
  BY <1>3 DEF Right
<1> QED BY <1>2, <1>3, <1>4, RequestsAre

\* authorize_ssh
LEMMA AuthorizeKeeps ==
  ASSUME StoreInv, NEW t \in Threads, KeyFound(t) \/ RepositoryFound(t) \/ Leave(t)
  PROVE  StoreInv'
<1>1. StoreTypeOK /\ Right(at[t])
  BY DEF StoreInv
<1>2. CASE KeyFound(t)
  <2>1. PICK result \in Fetched :
          /\ Fetch(t, "key", result) /\ UNCHANGED acked
          /\ \/ Go(t, [at[t] EXCEPT !.step = "join", !.own = Own(t, result)])
             \/ Answer(t, Own(t, result), "failed")
    BY <1>2 DEF KeyFound
  <2>2. at[t] \in Pushing /\ at[t].step = "key"
    BY <1>1, <2>1, FetchIs, RequestIs
  <2>3. CASE Answer(t, Own(t, result), "failed")
    BY <2>1, <2>2, <2>3, FetchIs, AnswerIs, FetchStep
  <2>4. CASE Go(t, [at[t] EXCEPT !.step = "join", !.own = Own(t, result)])
    <3>1. PICK r : r = [at[t] EXCEPT !.step = "join", !.own = Own(t, result)]
      OBVIOUS
    <3>2. r \in Pushing /\ r.step = "join" /\ r.due = at[t].due /\ r.slug = at[t].slug
      BY <2>1, <2>2, <3>1, FetchIs DEF Pushing
    <3>3. Go(t, r) /\ Right(r)
      BY <1>1, <2>2, <2>4, <3>1, <3>2 DEF Right
    <3> QED BY <2>1, <3>2, <3>3, RequestsAre, FetchStep
  <2> QED BY <2>1, <2>3, <2>4
<1>3. CASE RepositoryFound(t)
  <2>1. PICK result \in Fetched, reply \in {"allowed", "missing", "failed"} :
          /\ Fetch(t, "join", result) /\ UNCHANGED acked
          /\ Answer(t, at[t].own /\ Own(t, result), reply)
          /\ result.is = "repository" => reply = "allowed"
    BY <1>3 DEF RepositoryFound
  <2>2. at[t] \in Pushing /\ at[t].step = "join"
    BY <1>1, <2>1, FetchIs, RequestIs
  <2>3. PICK own \in BOOLEAN : own = (at[t].own /\ Own(t, result))
    BY <2>1, <2>2, FetchIs DEF Pushing
  <2>4. Answer(t, own, reply)
    BY <2>1, <2>3
  <2>5. at[t].due /\ own => reply # "missing"
    BY <2>1, <2>2, <2>3, FetchIs DEF Tells
  <2>6. PICK r \in Requests : Go(t, r) /\ Right(r)
    BY <2>2, <2>4, <2>5, AnswerIs
  <2> QED BY <2>1, <2>6, FetchStep
<1>4. CASE Leave(t)
  <2>1. NoRequest \in Requests /\ Right(NoRequest)
    BY RequestsAre DEF Right
  <2>2. t \notin sent
    BY <1>4, NoneUnderWay DEF Leave, Statements
  <2> QED BY <1>4, <2>1, <2>2, QueueIs, PlainStep DEF Leave, queue, wire
<1> QED BY <1>2, <1>3, <1>4

\* queue_webhook, after its insert was sent.
LEMMA WebhookKeeps ==
  ASSUME StoreInv, NEW t \in Threads, HookInserted(t) \/ Enqueue(t) \/ EnqueueFails(t)
  PROVE  StoreInv'
<1>1. StoreTypeOK /\ at[t] \in Queueing /\ at[t].hook \in Hooks
  <2>1. at[t].step \in {"insert", "enqueue"}
    BY DEF HookInserted, Fetch, Enqueue, EnqueueFails
  <2> QED BY <2>1, RequestIs DEF StoreInv, Queueing
<1>2. NoRequest \in Requests /\ Right(NoRequest)
  BY RequestsAre DEF Right
<1>3. CASE HookInserted(t)
  <2>1. PICK result \in Fetched :
          /\ Fetch(t, "insert", result) /\ UNCHANGED acked
          /\ Go(t, NoRequest) \/ Go(t, [at[t] EXCEPT !.step = "enqueue"])
    BY <1>3 DEF HookInserted
  <2>2. PICK r : r = [at[t] EXCEPT !.step = "enqueue"]
    OBVIOUS
  <2>3. r \in Queueing /\ r.step = "enqueue"
    BY <1>1, <2>2 DEF Queueing
  <2>4. r \in Requests /\ Right(r)
    BY <2>3, RequestsAre DEF Right
  <2>5. Go(t, NoRequest) \/ Go(t, r)
    BY <2>1, <2>2
  <2> QED BY <1>2, <2>1, <2>4, <2>5, FetchStep
<1>4. CASE Enqueue(t) \/ EnqueueFails(t)
  <2>1. Go(t, NoRequest) /\ at[t].step = "enqueue" /\ faults' \in 0..MaxFaults
        /\ UNCHANGED <<boots, stale, tables, hooks, sent, unread, acked>>
    BY <1>4, QueueIs DEF Enqueue, EnqueueFails, queue, wire
  <2>2. job' \in [Hooks -> Job]
    BY <1>1, <1>4, QueueIs DEF Enqueue, EnqueueFails, queue, Job
  <2>3. t \notin sent
    BY <2>1, NoneUnderWay DEF Statements
  <2> QED BY <1>2, <2>1, <2>2, <2>3, QueueIs, PlainStep
<1> QED BY <1>3, <1>4

\* A statement raises.
LEMMA RaiseKeeps ==
  ASSUME StoreInv, NEW t \in Threads, StatementFails(t)
  PROVE  StoreInv'
<1>1. /\ StoreTypeOK /\ faults' \in 0..MaxFaults
      /\ UNCHANGED <<boots, stale, tables, queue, unread, acked>> /\ sent' = sent \ {t}
  BY QueueIs DEF StoreInv, StatementFails
<1>2. ASSUME NEW r \in Requests, Go(t, r), Right(r) PROVE StoreInv'
  BY <1>1, <1>2, QueueIs, PlainStep DEF queue
<1>3. CASE at[t].step \in {"key", "join"}
  <2>1. at[t] \in Pushing /\ Answer(t, at[t].own, "failed")
    BY <1>1, <1>3, RequestIs DEF StatementFails, Raise
  <2>2. at[t].own \in BOOLEAN
    BY <2>1 DEF Pushing
  <2> QED BY <1>2, <2>1, <2>2, AnswerIs
<1>4. CASE at[t].step \notin {"key", "join"}
  <2>1. NoRequest \in Requests /\ Right(NoRequest)
    BY RequestsAre DEF Right
  <2> QED BY <1>2, <1>4, <2>1 DEF StatementFails, Raise
<1> QED BY <1>3, <1>4

\* Sidekiq's jobs.
LEMMA JobKeeps ==
  ASSUME StoreInv, NEW h \in Hooks, Work(h) \/ PerformFails(h)
  PROVE  StoreInv'
<1>1. StoreTypeOK /\ RowsStay /\ UNCHANGED <<boots, stale, tables, at, wire, acked>>
  BY QueueIs DEF StoreInv, RowsStay, Work, Take, Perform, PerformCrossed, Resume, PerformFails,
                 tables
<1>2. hooks' \in [Hooks -> {"none", "queued", "delivered"}]
  BY QueueIs DEF Work, Take, Perform, PerformCrossed, Resume, PerformFails, MarkDelivered
<1>3. job' \in [Hooks -> Job]
  <2>1. Retries \in Nat /\ job[h] \in Job
    BY StoreAssumption, QueueIs
  <2>2. Retry(h) \in Job
    <3>1. CASE job[h].tries < Retries
      <4>1. PICK more \in 0..Retries : more = job[h].tries + 1
        BY <2>1, <3>1 DEF Job
      <4>2. [job[h] EXCEPT !.at = "waiting", !.tries = more] \in Job
        BY <2>1 DEF Job
      <4> QED BY <3>1, <4>1, <4>2 DEF Retry
    <3>2. CASE ~(job[h].tries < Retries)
      BY <2>1, <3>2 DEF Retry, Job
    <3> QED BY <3>1, <3>2
  <2>3. CASE Take(h) \/ Perform(h) \/ Resume(h)
    BY <2>1, <2>3, QueueIs DEF Take, Perform, Resume, Job
  <2>4. CASE PerformCrossed(h)
    <3>1. [job[h] EXCEPT !.at = "stuck"] \in Job
      BY <2>1 DEF Job
    <3>2. PICK left \in Job : job' = [job EXCEPT ![h] = [left EXCEPT !.crossed = TRUE]]
      BY <2>2, <2>4, <3>1 DEF PerformCrossed
    <3>3. [left EXCEPT !.crossed = TRUE] \in Job
      BY DEF Job
    <3> QED BY <3>2, <3>3, QueueIs
  <2>5. CASE PerformFails(h)
    BY <2>2, <2>5, QueueIs DEF PerformFails
  <2> QED BY <2>3, <2>4, <2>5 DEF Work
<1>4. faults' \in 0..MaxFaults
  BY QueueIs DEF Work, Take, Perform, PerformCrossed, Resume, PerformFails
<1>5. StoreTypeOK'
  BY <1>1, <1>2, <1>3, <1>4 DEF StoreTypeOK, boots, tables, wire, Job
<1> QED BY <1>1, <1>5, BesideStep DEF wire

\* The database restarts, a process is killed.
LEMMA KillKeeps ==
  ASSUME StoreInv, DatabaseRestarts \/ KillWeb \/ KillSidekiq
  PROVE  StoreInv'
<1>1. /\ StoreTypeOK /\ RowsStay /\ faults' \in 0..MaxFaults
      /\ UNCHANGED <<saw, tables, hooks, acked>>
  BY QueueIs DEF StoreInv, RowsStay, DatabaseRestarts, KillWeb, KillSidekiq, tables, boots, queue
<1>2. boot' \in [Processes -> {"off", "exited", "up"} \cup Booting] /\ stale' \subseteq Processes
  BY <1>1 DEF StoreTypeOK, DatabaseRestarts, KillWeb, KillSidekiq, boots
<1>3. job' \in [Hooks -> Job]
  <2>1. \A h \in Hooks : [job[h] EXCEPT !.at = "gone"] \in Job
    BY QueueIs DEF Job
  <2>2. CASE DatabaseRestarts \/ KillWeb
    BY <2>2, QueueIs DEF DatabaseRestarts, KillWeb, queue
  <2>3. CASE KillSidekiq
    BY <2>1, <2>3, QueueIs DEF KillSidekiq
  <2> QED BY <2>2, <2>3
<1>4. CASE UNCHANGED <<at, wire>>
  <2>1. StoreTypeOK'
    BY <1>1, <1>2, <1>3, <1>4 DEF StoreTypeOK, tables, wire, Job
  <2> QED BY <1>1, <1>4, <2>1, BesideStep DEF wire
<1>5. CASE at' = [t \in Threads |-> NoRequest] /\ sent' = {} /\ unread' = NoResult
  <2>1. StoreTypeOK'
    BY <1>1, <1>2, <1>3, <1>5, RequestsAre DEF StoreTypeOK, tables, Job
  <2>2. \A t \in Threads : Right(at[t])'
    BY <1>5, RequestsAre DEF Right
  <2>3. AckedIsThere' /\ SentStand' /\ Telling'
    BY <1>1, <1>5 DEF StoreInv, AckedIsThere, tables, SentStand, Telling
  <2> QED BY <2>1, <2>2, <2>3 DEF StoreInv
<1> QED BY <1>4, <1>5 DEF DatabaseRestarts, KillWeb, KillSidekiq

\* Every step keeps the invariant.
LEMMA StoreInvStep == StoreInv /\ [StoreNext]_storeVars => StoreInv'
<1> SUFFICES ASSUME StoreInv, [StoreNext]_storeVars PROVE StoreInv'
  OBVIOUS
<1>1. CASE UNCHANGED storeVars
  <2>1. StoreTypeOK' /\ RowsStay
    BY <1>1, QueueIs DEF StoreInv, StoreTypeOK, RowsStay, storeVars, boots, tables, queue, wire
  <2> QED BY <1>1, <2>1, BesideStep DEF storeVars, wire
<1>2. ASSUME NEW t \in Threads, Handle(t) PROVE StoreInv'
  BY <1>2, DiscardKeeps, InsertKeeps, CreateKeeps, AskKeeps, AuthorizeKeeps, WebhookKeeps DEF Handle
<1>3. CASE StoreNext
  BY <1>2, <1>3, ProcessKeeps, AcceptKeeps, WebhookKeeps, RaiseKeeps, JobKeeps, KillKeeps
     DEF StoreNext
<1> QED BY <1>1, <1>3

\* NoResult is there, nobody serves.
LEMMA StoreInvInit == StoreInit => StoreInv
<1> SUFFICES ASSUME StoreInit PROVE StoreInv
  OBVIOUS
<1>1. StoreTypeOK
  <2>1. [at |-> "none", tries |-> 0, crossed |-> FALSE] \in Job
    BY StoreAssumption DEF Job
  <2>2. /\ job \in [Hooks -> Job] /\ at \in [Threads -> Requests]
        /\ hooks \in [Hooks -> {"none", "queued", "delivered"}]
    BY <2>1, RequestsAre DEF StoreInit
  <2>3. /\ boot \in [Processes -> {"off", "exited", "up"} \cup Booting]
        /\ saw \in [Processes -> BOOLEAN] /\ faults \in 0..MaxFaults
    BY StoreAssumption DEF StoreInit
  <2>4. schema \in BOOLEAN /\ home \in BOOLEAN /\ keyed \in BOOLEAN
    BY DEF StoreInit
  <2>5. /\ stale \subseteq Processes /\ acked \subseteq ProjectSlugs
        /\ projects \subseteq ProjectSlugs /\ repositories \subseteq ProjectSlugs
    BY DEF StoreInit
  <2>6. sent \subseteq Threads /\ unread \in Results \cup {NoResult}
    BY DEF StoreInit
  <2> QED BY <2>2, <2>3, <2>4, <2>5, <2>6 DEF StoreTypeOK, Job
<1>2. \A t \in Threads : Right(at[t])
  BY RequestsAre DEF StoreInit, Right
<1>3. AckedIsThere /\ SentStand /\ Telling
  BY DEF StoreInit, AckedIsThere, SentStand, Telling
<1> QED BY <1>1, <1>2, <1>3 DEF StoreInv

\* Tables, requests and jobs are of their types: in particular no job is kept
\* that failed more often than sidekiq_options allow.
THEOREM StoreTypeCorrect == StoreSpec => []StoreTypeOK
<1>1. StoreInv => StoreTypeOK
  BY DEF StoreInv
<1> QED BY <1>1, StoreInvInit, StoreInvStep, PTL DEF StoreSpec

\* A push to a project that had been answered 201 is never told that there is
\* no such repository, whatever restarts and failures come between, as long as
\* the results that push and that creation got were their own.
THEOREM AnsweredAreFound == StoreSpec => []AnsweredProjectsAreFound
<1>1. StoreInv => AnsweredProjectsAreFound
  BY DEF StoreInv, Right, AnsweredProjectsAreFound
<1> QED BY <1>1, StoreInvInit, StoreInvStep, PTL DEF StoreSpec

=============================================================================
