--------------------------- MODULE RepositoryStore ---------------------------
(***************************************************************************)
(* Hosted repositories (gatewayapi/projects.go): a directory NAME.git per  *)
(* repository under one root, each with a metadata file in it.  Creating   *)
(* and importing check that the directory is not there, run git in it a    *)
(* few times, and write the metadata file last; listing reads every file.  *)
(* There is no lock, no temporary file and no clean-up: two requests may   *)
(* both find the name free, a step may fail, the process may die, and      *)
(* os.WriteFile empties the file before it fills it.  A clone that fails   *)
(* removes the directory it made, with whatever others put in it.          *)
(* A listing is a part of the overview, whatever part the client asked     *)
(* for: the gateway reads the repositories first and then asks Rancher and *)
(* Keystone, when it is set up for them (cloud_live.go).                   *)
(***************************************************************************)
EXTENDS Naturals, FiniteSets

CONSTANTS
  Workers,    \* goroutines creating, importing or listing at one time
  Names,      \* repository names as sanitizeRepositoryName leaves them
  Branches,   \* branch names a client may ask for
  Main,       \* the default branch, "main"
  Sources,    \* URLs to import from; all of them have Main as their HEAD
  Local,      \* no source: created here
  Nothing,    \* no branch, no HEAD
  Environments,   \* what the process may find in its environment of the clouds
  NoFile, Empty, Garbled   \* what a metadata file is when it does not parse:
              \* not there, emptied and not yet filled, a mix of two texts

ASSUME RepositoryConstants ==
  /\ Main \in Branches
  /\ Local \notin Sources
  /\ Nothing \notin Branches
  /\ {NoFile, Empty, Garbled} \cap
       [branch : Branches, source : Sources \cup {Local}] = {}
  /\ NoFile # Empty /\ NoFile # Garbled
  /\ Environments # {}
  /\ Environments \subseteq
       [rancher : {"unset", "noURL", "set"},
        openstack : {"unset", "noCredentials", "set"}]

VARIABLES
  dir,      \* what stands under each name: "none", a "partial" or a "bare" repository
  head,     \* its HEAD
  http,     \* http.receivepack and http.uploadpack are set in its config
  meta,     \* its metadata file
  cloud,    \* the environment the process is started with, every time
  job,      \* the request each worker is serving, and how far it is
  replies,  \* the metadata 201 replies told of (auxiliary: only properties read it)
  marred    \* names two requests built at once, or one left unfinished (auxiliary)

files == <<dir, head, http, meta>>
vars  == <<dir, head, http, meta, cloud, job, replies, marred>>

-----------------------------------------------------------------------------

Metadata == [branch : Branches, source : Sources \cup {Local}]

\* What readRepositoryMetadata makes up for a directory without the file.
DefaultMetadata == [branch |-> Main, source |-> Local]

NotJSON == {Empty, Garbled}

\* What the overview says of the layers "Cluster management" and "Private IaaS".
Layers == [rancher : {"online", "degraded"}, openstack : {"ready", "degraded", "online"}]

\* They start as a table in the code has them.
SeededLayers == [rancher |-> "online", openstack |-> "ready"]

BuildSteps ==
  {"stat", "init", "clone", "cloning", "configure", "truncate", "write", "writeAway"}

IdleJob  == [at : {"idle"}]
BuildJob == [at : BuildSteps, name : Names, branch : Branches \cup {Nothing},
             source : Sources \cup {Local}]
Found    == SUBSET [name : Names, meta : Metadata]
ListJob  == [at : {"listing"}, todo : SUBSET Names, found : Found,
             known : SUBSET Names]   \* already answered 201 then; properties only
ViewJob  == [at : {"rancher", "openstack", "listed"}, found : Found,
             known : SUBSET Names, layers : Layers]
DoneJob  == [at : {"answered"}, code : {201, 400, 409, 500}]
            \cup [at : {"dropped"}, by : {"rancher", "openstack"}]
Job      == IdleJob \cup BuildJob \cup ListJob \cup ViewJob \cup DoneJob

TypeOK ==
  /\ dir \in [Names -> {"none", "partial", "bare"}]
  /\ head \in [Names -> Branches \cup {Nothing}]
  /\ http \in [Names -> BOOLEAN]
  /\ meta \in [Names -> Metadata \cup {NoFile, Empty, Garbled}]
  /\ cloud \in Environments
  /\ job \in [Workers -> Job]
  /\ replies \in [Names -> SUBSET Metadata]
  /\ marred \in SUBSET Names

Idle == [at |-> "idle"]

Init ==
  /\ dir = [n \in Names |-> "none"]
  /\ head = [n \in Names |-> Nothing]
  /\ http = [n \in Names |-> FALSE]
  /\ meta = [n \in Names |-> NoFile]
  /\ cloud \in Environments
  /\ job = [w \in Workers |-> Idle]
  /\ replies = [n \in Names |-> {}]
  /\ marred = {}

At(w, step) == job[w].at = step

Proceed(w, step) == job' = [job EXCEPT ![w].at = step]

Answer(w, code) == job' = [job EXCEPT ![w] = [at |-> "answered", code |-> code]]

\* Requests that found the name free and have not answered yet.
Builders(n) ==
  {w \in Workers : job[w].at \in BuildSteps \ {"stat"} /\ job[w].name = n}

Mar(n) == marred' = marred \cup {n}

\* rm -r
Remove(n) ==
  /\ dir' = [dir EXCEPT ![n] = "none"]
  /\ head' = [head EXCEPT ![n] = Nothing]
  /\ http' = [http EXCEPT ![n] = FALSE]
  /\ meta' = [meta EXCEPT ![n] = NoFile]

-----------------------------------------------------------------------------
(* POST /api/repositories and /api/repositories/import *)

\* A create asks for a branch or gets Main; an import may leave it open.
StartBuild(w) ==
  /\ At(w, "idle")
  /\ \E n \in Names, s \in Sources \cup {Local}, b \in Branches \cup {Nothing} :
       /\ s = Local => b # Nothing
       /\ job' = [job EXCEPT ![w] =
                    [at |-> "stat", name |-> n, branch |-> b, source |-> s]]
  /\ UNCHANGED <<files, cloud, replies, marred>>

\* No source URL, or nothing left of the name.
RefusePayload(w) ==
  /\ At(w, "idle")
  /\ Answer(w, 400)
  /\ UNCHANGED <<files, cloud, replies, marred>>

\* Slip: the name is not looked up.
SlipNeverTaken(n) == FALSE

Taken(n) == dir[n] # "none"

\* os.Stat: the only guard against a second repository of the name.
CheckFree(w) ==
  LET n == job[w].name IN
  /\ At(w, "stat")
  /\ IF Taken(n)
     THEN Answer(w, 409) /\ UNCHANGED marred
     ELSE /\ Proceed(w, IF job[w].source = Local THEN "init" ELSE "clone")
          /\ IF Builders(n) = {} THEN UNCHANGED marred ELSE Mar(n)
  /\ UNCHANGED <<files, cloud, replies>>

\* git init --bare --initial-branch: on a directory somebody else has made
\* meanwhile it succeeds and leaves HEAD as it is.
GitInit(w) ==
  LET n == job[w].name IN
  /\ At(w, "init")
  /\ IF dir[n] = "none"
     THEN dir' = [dir EXCEPT ![n] = "bare"] /\ head' = [head EXCEPT ![n] = job[w].branch]
     ELSE UNCHANGED <<dir, head>>
  /\ Proceed(w, "configure")
  /\ UNCHANGED <<http, meta, cloud, replies, marred>>

\* git clone --mirror makes the directory, or says it already exists.
CloneBegins(w) ==
  LET n == job[w].name IN
  /\ At(w, "clone")
  /\ IF dir[n] = "none"
     THEN /\ dir' = [dir EXCEPT ![n] = "partial"]
          /\ head' = [head EXCEPT ![n] = Main]
          /\ Proceed(w, "cloning")
     ELSE Answer(w, 409) /\ UNCHANGED <<dir, head>>
  /\ UNCHANGED <<http, meta, cloud, replies, marred>>

\* The transfer ends, well or not.
CloneEnds(w) ==
  LET n == job[w].name IN
  /\ At(w, "cloning")
  /\ \/ /\ dir' = [dir EXCEPT ![n] = "bare"]
        /\ head' = [head EXCEPT ![n] = Main]
        /\ Proceed(w, "configure")
        /\ UNCHANGED <<http, meta>>
     \/ /\ Remove(n)
        /\ job' = [v \in Workers |->
                     IF v = w THEN [at |-> "answered", code |-> 500]
                     ELSE IF At(v, "write") /\ job[v].name = n
                          THEN [job[v] EXCEPT !.at = "writeAway"]
                          ELSE job[v]]
  /\ UNCHANGED <<cloud, replies, marred>>

\* inspectRepository fills in what an import left open.
BranchRecorded(w) ==
  IF job[w].branch = Nothing THEN head[job[w].name] ELSE job[w].branch

\* enableRepositoryHTTPAccess: two git config commands; then the metadata is
\* made up.
Configure(w) ==
  LET n == job[w].name IN
  /\ At(w, "configure")
  /\ dir[n] # "none"
  /\ http' = [http EXCEPT ![n] = TRUE]
  /\ job' = [job EXCEPT ![w].at = "truncate", ![w].branch = BranchRecorded(w)]
  /\ UNCHANGED <<dir, head, meta, cloud, replies, marred>>

AnswerCreated(w, m) ==
  /\ Answer(w, 201)
  /\ replies' = [replies EXCEPT ![job[w].name] = @ \cup {m}]

Told(w) == [branch |-> job[w].branch, source |-> job[w].source]

AfterTruncate(w) == Proceed(w, "write") /\ UNCHANGED replies

\* os.WriteFile opens with O_TRUNC ...
Truncate(w) ==
  LET n == job[w].name IN
  /\ At(w, "truncate")
  /\ dir[n] # "none"
  /\ meta' = [meta EXCEPT ![n] = Empty]
  /\ AfterTruncate(w)
  /\ UNCHANGED <<dir, head, http, cloud, marred>>

\* Slip: the source is left out of the file.
SlipNoSource(w) == [branch |-> job[w].branch, source |-> Local]

Text(w) == Told(w)

\* ... then writes from offset 0: over another writer's text, if that one
\* wrote since, whose tail stays when it was longer.
Write(w) ==
  LET n == job[w].name IN
  /\ At(w, "write")
  /\ \E text \in {Text(w)} \cup (IF meta[n] = Empty THEN {} ELSE {Garbled}) :
       meta' = [meta EXCEPT ![n] = text]
  /\ AnswerCreated(w, Told(w))
  /\ UNCHANGED <<dir, head, http, cloud, marred>>

\* A clone that failed removed the file after it was opened: the text goes
\* nowhere and the reply is the same.
WriteAway(w) ==
  /\ At(w, "writeAway")
  /\ AnswerCreated(w, Told(w))
  /\ UNCHANGED <<files, cloud, marred>>

\* Slip: a request that failed starts again.
SlipTryAgain(w) == Proceed(w, "stat")

Fail(w) == Answer(w, 500)

\* git or the file system fails: 500, and whatever was made is left there.
BuildFails(w) ==
  LET n == job[w].name IN
  /\ job[w].at \in BuildSteps \ {"stat", "cloning"}
  /\ Fail(w)
  /\ IF dir[n] = "none" THEN UNCHANGED marred ELSE Mar(n)
  /\ UNCHANGED <<files, cloud, replies>>

-----------------------------------------------------------------------------
(* GET /api/repositories, /api/overview and the other views built on it *)

StartList(w) ==
  /\ At(w, "idle")
  /\ job' = [job EXCEPT ![w] =
               [at |-> "listing", todo |-> {n \in Names : dir[n] # "none"}, found |-> {},
                known |-> {n \in Names : replies[n] # {}}]]
  /\ UNCHANGED <<files, cloud, replies, marred>>

\* readRepositoryMetadata of one entry: a file that is not there is made up
\* for, also when its directory has gone; one that does not parse is an error
\* for the whole listing.
ReadEntry(w) ==
  /\ At(w, "listing")
  /\ \E n \in job[w].todo :
       IF meta[n] \in NotJSON
       THEN Answer(w, 500)
       ELSE LET m == IF meta[n] = NoFile THEN DefaultMetadata ELSE meta[n] IN
            job' = [job EXCEPT ![w].todo = @ \ {n},
                               ![w].found = @ \cup {[name |-> n, meta |-> m]}]
  /\ UNCHANGED <<files, cloud, replies, marred>>

EndList(w) ==
  /\ At(w, "listing") /\ job[w].todo = {}
  /\ job' = [job EXCEPT ![w] = [at |-> "rancher", found |-> job[w].found,
                                known |-> job[w].known, layers |-> SeededLayers]]
  /\ UNCHANGED <<files, cloud, replies, marred>>

\* doCloudJSONRequest hands http.NewRequest a body that is a nil pointer in
\* an interface, whatever is asked: it panics once the URL has parsed, and
\* net/http drops the connection.
Drop(w, api) == job' = [job EXCEPT ![w] = [at |-> "dropped", by |-> api]]

\* Slip: a call that failed is made again.
SlipShow(w, step, api, status) ==
  job' = [job EXCEPT ![w].layers[api] = status,
                     ![w].at = IF status = "degraded" THEN @ ELSE step]

Show(w, step, api, status) ==
  job' = [job EXCEPT ![w].at = step, ![w].layers[api] = status]

\* loadRancherSnapshot, and the mark an error leaves: all its requests go
\* through doCloudJSONRequest.
AskRancher(w) ==
  /\ At(w, "rancher")
  /\ \/ cloud.rancher = "unset" /\ Proceed(w, "openstack")
     \/ cloud.rancher = "noURL" /\ Show(w, "openstack", "rancher", "degraded")
     \/ cloud.rancher = "set" /\ Drop(w, "rancher")
  /\ UNCHANGED <<files, cloud, replies, marred>>

\* What a token request to Keystone comes to within the client's ten seconds.
\* "failed" is also a URL that does not parse, another status, no token or no
\* JSON; the catalogue may have a usable identity endpoint or not.
KeystoneAnswers == {"failed", "catalogue", "catalogue with identity"}

\* buildOpenStackAuthBody: an application credential, or a password and a
\* project.
HasCredentials == cloud.openstack = "set"

\* applyOpenStackSnapshot
ApplyKeystone(w) == Show(w, "listed", "openstack", "online")

\* loadOpenStackSnapshot, which asks the identity endpoint through
\* doCloudJSONRequest, and what becomes of the answer or of an error.
AskKeystone(w) ==
  /\ At(w, "openstack")
  /\ \/ cloud.openstack = "unset" /\ Proceed(w, "listed")
     \/ /\ cloud.openstack # "unset" /\ ~HasCredentials
        /\ Show(w, "listed", "openstack", "degraded")
     \/ /\ HasCredentials
        /\ \E answer \in KeystoneAnswers :
             \/ answer = "failed" /\ Show(w, "listed", "openstack", "degraded")
             \/ answer = "catalogue" /\ ApplyKeystone(w)
             \/ answer = "catalogue with identity" /\ Drop(w, "openstack")
  /\ UNCHANGED <<files, cloud, replies, marred>>

NextRequest(w) ==
  /\ job[w].at \in {"answered", "listed", "dropped"}
  /\ job' = [job EXCEPT ![w] = Idle]
  /\ UNCHANGED <<files, cloud, replies, marred>>

-----------------------------------------------------------------------------

\* The gateway and the git processes it runs are killed and started again.
Crash ==
  /\ \E w \in Workers : ~At(w, "idle")
  /\ job' = [w \in Workers |-> Idle]
  /\ marred' = marred \cup {n \in Names : Builders(n) # {} /\ dir[n] # "none"}
  /\ UNCHANGED <<files, cloud, replies>>

\* Everything but waiting for the source of a clone, which has no deadline,
\* and failures that need not happen.
PromptStep(w) ==
  \/ CheckFree(w)
  \/ GitInit(w)
  \/ CloneBegins(w)
  \/ Configure(w)
  \/ Truncate(w)
  \/ Write(w)
  \/ WriteAway(w)
  \/ BuildFails(w) /\ dir[job[w].name] = "none"
  \/ ReadEntry(w)
  \/ EndList(w)
  \/ AskRancher(w)
  \/ AskKeystone(w)

Next ==
  \/ \E w \in Workers :
       StartBuild(w) \/ RefusePayload(w) \/ StartList(w) \/ NextRequest(w)
       \/ PromptStep(w) \/ CloneEnds(w) \/ BuildFails(w)
  \/ Crash

Spec == Init /\ [][Next]_vars

FairSpec == Spec /\ \A w \in Workers : WF_vars(PromptStep(w))

-----------------------------------------------------------------------------
(* Properties *)

\* A repository one request built alone and to the end stays what its 201
\* reply said: complete, reachable over HTTP, its metadata and its HEAD
\* those of the one request that was told so.
HostedAsAnswered ==
  \A n \in Names \ marred : \A m \in replies[n] :
    /\ replies[n] = {m}
    /\ dir[n] = "bare" /\ http[n] /\ meta[n] = m
    /\ m.source = Local => head[n] = m.branch

\* A listing holds every repository that was answered 201 before it began,
\* with its own metadata; and what it says of others is what their reply will
\* say, or what is made up for a repository without the file.
ListingIsCurrent ==
  \A w \in Workers : At(w, "listed") =>
    /\ \A n \in job[w].known \ marred :
         \E e \in job[w].found : e.name = n /\ e.meta \in replies[n]
    /\ \A e \in job[w].found :
         \/ e.name \in marred
         \/ e.meta = DefaultMetadata
         \/ e.meta \in replies[e.name]

\* A create is answered, unless the gateway goes down, also when a clone from
\* a source that never answers has made the directory meanwhile.
CreateAnswered ==
  \A w \in Workers :
    (job[w].at \in BuildSteps /\ job[w].source = Local)
      ~> (job[w].at \in {"answered", "idle"})

\* A view is answered, unless the gateway goes down or a live call loses it,
\* which happens only where Rancher or Keystone is set up: neither a metadata
\* file left unreadable for good nor a cloud that never answers holds it up.
ViewAnswered ==
  \A w \in Workers :
    (job[w].at \in {"listing", "rancher", "openstack"})
      ~> \/ job[w].at \in {"answered", "listed", "idle"}
         \/ At(w, "dropped") /\ cloud[job[w].by] = "set"

============================================================================
