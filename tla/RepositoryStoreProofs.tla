------------------------ MODULE RepositoryStoreProofs ------------------------
(***************************************************************************)
(* What TLAPS proves of RepositoryStore, for any requests at one time, any *)
(* names, branches, sources and environments.                              *)
(***************************************************************************)
EXTENDS RepositoryStore, TLAPS

\* A request that found its name free and has not been answered.
Building(w) == job[w].at \in BuildSteps \ {"stat"}

\* A directory that is there has a HEAD.
HasHead == \A n \in Names : dir[n] # "none" => head[n] # Nothing

\* A request knows its branch, but for an import before it was inspected.
Sound(j) ==
  /\ j.at \in BuildSteps /\ j.source = Local => j.branch # Nothing
  /\ j.at = "init" => j.source = Local
  /\ j.at \in {"clone", "cloning"} => j.source # Local
  /\ j.at \in {"truncate", "write", "writeAway"} => j.branch # Nothing

KnowsBranch == \A w \in Workers : Sound(job[w])

\* What a request that builds the name alone has made so far.
Solo(n, j) ==
  j.at \in BuildSteps \ {"stat"} =>
    /\ replies[n] = {}
    /\ j.at \in {"init", "clone"} => dir[n] = "none"
    /\ j.at = "cloning" => dir[n] = "partial"
    /\ j.at \in {"configure", "truncate", "write"} =>
         dir[n] = "bare" /\ (j.source = Local => head[n] = j.branch)
    /\ j.at \in {"truncate", "write"} => http[n]
    /\ j.at = "write" => meta[n] = Empty
    /\ j.at # "writeAway"

OnlyBuilder(w, n) == \A v \in Workers \ {w} : ~(Building(v) /\ job[v].name = n)

BuiltAlone ==
  \A w \in Workers : Building(w) /\ job[w].name \notin marred =>
    Solo(job[w].name, job[w]) /\ OnlyBuilder(w, job[w].name)

\* A repository is as every reply of a 201 said.
Hosted(n) ==
  \A m \in replies[n] :
    /\ replies[n] = {m}
    /\ dir[n] = "bare" /\ http[n] /\ meta[n] = m
    /\ m.source = Local => head[n] = m.branch

\* The state but for the requests is of its type.
StoreOK ==
  /\ dir \in [Names -> {"none", "partial", "bare"}]
  /\ head \in [Names -> Branches \cup {Nothing}]
  /\ http \in [Names -> BOOLEAN]
  /\ meta \in [Names -> Metadata \cup {NoFile, Empty, Garbled}]
  /\ cloud \in Environments
  /\ replies \in [Names -> SUBSET Metadata]

\* A step that touches one name.
Elsewhere(n) ==
  /\ marred \subseteq marred' /\ marred' \subseteq marred \cup {n}
  /\ \A k \in Names \ {n} :
       /\ dir'[k] = dir[k] /\ head'[k] = head[k] /\ http'[k] = http[k]
       /\ meta'[k] = meta[k] /\ replies'[k] = replies[k]

IInv ==
  /\ TypeOK
  /\ HasHead
  /\ KnowsBranch
  /\ BuiltAlone
  /\ HostedAsAnswered

-----------------------------------------------------------------------------

\* Which step a worker stands at tells which kind of job it has.
LEMMA JobKind ==
  ASSUME TypeOK, NEW w \in Workers
  PROVE  /\ job \in [Workers -> Job] /\ job[w] \in Job
         /\ job[w].at \in BuildSteps => job[w] \in BuildJob
         /\ job[w].at = "listing" => job[w] \in ListJob
         /\ job[w].at \in {"rancher", "openstack", "listed"} => job[w] \in ViewJob
<1>1. job \in [Workers -> Job]
  BY DEF TypeOK
<1>2. job[w] \in Job
  BY <1>1
<1> HIDE DEF TypeOK
<1> QED BY <1>1, <1>2 DEF Job, IdleJob, BuildJob, ListJob, ViewJob, DoneJob, BuildSteps

\* No repository and no request.
LEMMA InvInit == Init => IInv
<1> SUFFICES ASSUME Init PROVE IInv
  OBVIOUS
<1>1. Idle \in Job /\ Idle.at = "idle"
  BY DEF Idle, Job, IdleJob
<1>2. TypeOK
  BY <1>1, RepositoryConstants DEF Init, TypeOK
<1>3. \A w \in Workers : job[w].at = "idle"
  BY <1>1 DEF Init
<1>4. HasHead /\ HostedAsAnswered
  BY DEF Init, HasHead, HostedAsAnswered, Hosted
<1>5. KnowsBranch /\ BuiltAlone
  BY <1>3 DEF KnowsBranch, Sound, BuiltAlone, Building, BuildSteps
<1> QED BY <1>2, <1>4, <1>5 DEF IInv

-----------------------------------------------------------------------------
(* Requests that build nothing.                                            *)

\* A step from a job that builds nothing to another one.
LEMMA QuietStep ==
  ASSUME IInv, NEW w \in Workers, NEW new \in Job, job' = [job EXCEPT ![w] = new],
         ~Building(w), new.at \notin BuildSteps \ {"stat"},
         Sound(new),
         UNCHANGED <<files, cloud, replies, marred>>
  PROVE  IInv'
<1>1. job \in [Workers -> Job]
  BY DEF IInv, TypeOK
<1> HIDE DEF Job
<1>2. job'[w] = new /\ \A v \in Workers \ {w} : job'[v] = job[v]
  BY <1>1
<1>3. TypeOK'
  BY <1>1 DEF IInv, TypeOK, files
<1>4. HasHead' /\ HostedAsAnswered'
  BY DEF IInv, HasHead, HostedAsAnswered, files
<1>5. KnowsBranch'
  BY <1>2 DEF IInv, KnowsBranch, Sound
<1>6. \A v \in Workers : Building(v)' => Building(v) /\ v # w /\ job'[v] = job[v]
  BY <1>2 DEF Building
<1>7. BuiltAlone'
  BY <1>6 DEF IInv, BuiltAlone, Solo, OnlyBuilder, files
<1> QED BY <1>3, <1>4, <1>5, <1>7 DEF IInv

\* A request that is answered and not yet gone.
Answered(code) == [at |-> "answered", code |-> code]

\* A reply of a build is a job that builds no more.
LEMMA AnswerIsJob ==
  ASSUME NEW code \in {201, 400, 409, 500}
  PROVE  Answered(code) \in Job /\ Answered(code).at = "answered"
BY DEF Answered, Job, DoneJob

\* Requests begin and end, names are looked up in vain, views are put together.
LEMMA ViewStep ==
  ASSUME IInv, NEW w \in Workers,
         \/ StartBuild(w) \/ RefusePayload(w) \/ StartList(w) \/ ReadEntry(w) \/ EndList(w)
         \/ AskRancher(w) \/ AskKeystone(w) \/ NextRequest(w)
  PROVE  IInv'
<1> USE RepositoryConstants
<1>1. UNCHANGED <<files, cloud, replies, marred>> /\ ~Building(w)
  BY DEF StartBuild, RefusePayload, StartList, ReadEntry, EndList, AskRancher, AskKeystone,
         NextRequest, At, Building, BuildSteps
<1>2. /\ job \in [Workers -> Job]
      /\ job[w].at = "listing" => job[w] \in ListJob
      /\ job[w].at \in {"rancher", "openstack", "listed"} => job[w] \in ViewJob
  BY JobKind DEF IInv
<1>3. PICK new \in Job :
        /\ job' = [job EXCEPT ![w] = new]
        /\ new.at \notin BuildSteps \ {"stat"}
        /\ Sound(new)
  <2>1. CASE StartBuild(w)
    <3>1. PICK n \in Names, s \in Sources \cup {Local}, b \in Branches \cup {Nothing} :
             /\ s = Local => b # Nothing
             /\ job' = [job EXCEPT ![w] =
                          [at |-> "stat", name |-> n, branch |-> b, source |-> s]]
      BY <2>1 DEF StartBuild
    <3> DEFINE new == [at |-> "stat", name |-> n, branch |-> b, source |-> s]
    <3>2. new \in Job /\ new.at = "stat" /\ new.branch = b /\ new.source = s
      BY DEF Job, BuildJob, BuildSteps
    <3> HIDE DEF new
    <3>3. job' = [job EXCEPT ![w] = new]
      BY <3>1 DEF new
    <3> HIDE DEF Job
    <3> QED BY <3>1, <3>2, <3>3 DEF Sound, BuildSteps
  <2>2. CASE RefusePayload(w)
    <3> DEFINE new == Answered(400)
    <3>1. new \in Job /\ new.at = "answered"
      BY AnswerIsJob
    <3>2. job' = [job EXCEPT ![w] = new]
      BY <2>2 DEF RefusePayload, Answer, Answered
    <3> HIDE DEF new, Job
    <3> QED BY <3>1, <3>2 DEF Sound, BuildSteps
  <2>3. CASE StartList(w)
    <3> DEFINE new == [at |-> "listing", todo |-> {n \in Names : dir[n] # "none"}, found |-> {},
                       known |-> {n \in Names : replies[n] # {}}]
    <3>1. new \in Job /\ new.at = "listing"
      BY DEF Job, ListJob, Found
    <3>2. job' = [job EXCEPT ![w] = new]
      BY <2>3 DEF StartList
    <3> HIDE DEF new
    <3> QED BY <3>1, <3>2 DEF Sound, BuildSteps
  <2>4. CASE ReadEntry(w)
    <3>1. job[w] \in ListJob /\ job[w].at = "listing"
      BY <1>2, <2>4 DEF ReadEntry, At
    <3>2. PICK n \in job[w].todo :
             IF meta[n] \in NotJSON
             THEN Answer(w, 500)
             ELSE LET m == IF meta[n] = NoFile THEN DefaultMetadata ELSE meta[n] IN
                  job' = [job EXCEPT ![w].todo = @ \ {n},
                                     ![w].found = @ \cup {[name |-> n, meta |-> m]}]
      BY <2>4 DEF ReadEntry
    <3>3. CASE meta[n] \in NotJSON
      <4> DEFINE new == Answered(500)
      <4>1. new \in Job /\ new.at = "answered"
        BY AnswerIsJob
      <4>2. job' = [job EXCEPT ![w] = new]
        BY <3>2, <3>3 DEF Answer, Answered
      <4> HIDE DEF new, Job
      <4> QED BY <4>1, <4>2 DEF Sound, BuildSteps
    <3>4. CASE meta[n] \notin NotJSON
      <4> DEFINE m == IF meta[n] = NoFile THEN DefaultMetadata ELSE meta[n]
                 e == [name |-> n, meta |-> m]
                 new == [job[w] EXCEPT !.todo = job[w].todo \ {n}, !.found = job[w].found \cup {e}]
      <4>1. n \in Names /\ DefaultMetadata \in Metadata
        BY <3>1 DEF ListJob, DefaultMetadata, Metadata
      <4>2. m \in Metadata
        BY <3>4, <4>1 DEF IInv, TypeOK, NotJSON
      <4>3. job' = [job EXCEPT ![w] = new]
        BY <1>2, <3>2, <3>4
      <4> HIDE DEF m
      <4>4. e \in [name : Names, meta : Metadata]
        BY <4>1, <4>2
      <4> HIDE DEF e
      <4>5. job[w].found \cup {e} \in Found /\ job[w].todo \ {n} \in SUBSET Names
        BY <3>1, <4>4 DEF ListJob, Found
      <4>6. new \in ListJob /\ new.at = "listing"
        BY <3>1, <4>5 DEF ListJob
      <4> HIDE DEF new
      <4> QED BY <4>3, <4>6 DEF Sound, Job, BuildSteps
    <3> QED BY <3>3, <3>4
  <2>5. CASE EndList(w)
    <3>1. job[w] \in ListJob
      BY <1>2, <2>5 DEF EndList, At
    <3> DEFINE new == [at |-> "rancher", found |-> job[w].found,
                       known |-> job[w].known, layers |-> SeededLayers]
    <3>2. SeededLayers \in Layers
      BY DEF SeededLayers, Layers
    <3>3. new \in ViewJob /\ new.at = "rancher"
      BY <3>1, <3>2 DEF ListJob, ViewJob
    <3>4. job' = [job EXCEPT ![w] = new]
      BY <2>5 DEF EndList
    <3> HIDE DEF new
    <3> QED BY <3>3, <3>4 DEF Sound, Job, BuildSteps
  <2>6. CASE AskRancher(w) \/ AskKeystone(w)
    <3>1. job[w] \in ViewJob
      BY <1>2, <2>6 DEF AskRancher, AskKeystone, At
    <3>2. CASE \E api \in {"rancher", "openstack"} : Drop(w, api)
      <4>1. PICK api \in {"rancher", "openstack"} : Drop(w, api)
        BY <3>2
      <4>2. [at |-> "dropped", by |-> api] \in Job
        BY DEF Job, DoneJob
      <4> DEFINE new == [at |-> "dropped", by |-> api]
      <4>3. new \in Job /\ new.at = "dropped"
        BY <4>2
      <4>4. job' = [job EXCEPT ![w] = new]
        BY <4>1 DEF Drop
      <4> HIDE DEF new, Job
      <4> QED BY <4>3, <4>4 DEF Sound, BuildSteps
    <3>3. CASE \E step \in {"openstack", "listed"} : Proceed(w, step)
      <4>1. PICK step \in {"openstack", "listed"} : Proceed(w, step)
        BY <3>3
      <4> DEFINE new == [job[w] EXCEPT !.at = step]
      <4>2. new \in ViewJob /\ new.at = step
        BY <3>1 DEF ViewJob
      <4>3. job' = [job EXCEPT ![w] = new]
        BY <1>2, <4>1 DEF Proceed
      <4> HIDE DEF new
      <4> QED BY <4>2, <4>3 DEF Sound, Job, BuildSteps
    <3>4. CASE \/ Show(w, "openstack", "rancher", "degraded")
               \/ \E status \in {"degraded", "online"} : Show(w, "listed", "openstack", status)
      <4>1. PICK step \in {"openstack", "listed"}, api \in {"rancher", "openstack"},
                 status \in {"degraded", "online"} :
                   Show(w, step, api, status) /\ (api = "rancher" => status = "degraded")
        BY <3>4
      <4> DEFINE layers == [job[w].layers EXCEPT ![api] = status]
                 new == [job[w] EXCEPT !.at = step, !.layers = layers]
      <4>2. layers \in Layers
        BY <3>1, <4>1 DEF ViewJob, Layers
      <4>3. job' = [job EXCEPT ![w] = new]
        BY <1>2, <4>1 DEF Show
      <4> HIDE DEF layers
      <4>4. new \in ViewJob /\ new.at = step
        BY <3>1, <4>2 DEF ViewJob
      <4> HIDE DEF new
      <4> QED BY <4>3, <4>4 DEF Sound, Job, BuildSteps
    <3> QED BY <2>6, <3>2, <3>3, <3>4 DEF AskRancher, AskKeystone, ApplyKeystone
  <2>7. CASE NextRequest(w)
    <3>1. Idle \in Job /\ Idle.at = "idle"
      BY DEF Idle, Job, IdleJob
    <3>2. job' = [job EXCEPT ![w] = Idle]
      BY <2>7 DEF NextRequest
    <3> HIDE DEF Job
    <3> QED BY <3>1, <3>2 DEF Sound, BuildSteps
  <2> QED BY <2>1, <2>2, <2>3, <2>4, <2>5, <2>6, <2>7
<1> HIDE DEF Job
<1> QED BY <1>1, <1>3, QuietStep

-----------------------------------------------------------------------------
(* Requests that build.                                                    *)

\* A step of a request on the name it builds.  What it needs to show is about
\* that name, and only while no two requests have built it at once.
LEMMA BuildStep ==
  ASSUME IInv, NEW w \in Workers, NEW n \in Names, NEW new \in Job,
         job' \in [Workers -> Job], job'[w] = new,
         \A v \in Workers \ {w} :
           \/ job'[v] = job[v]
           \/ /\ n \in marred' /\ Building(v) /\ job[v].name = n
              /\ job'[v].name = n /\ job'[v].at = "writeAway" /\ job[v].at = "write"
              /\ job'[v].branch = job[v].branch /\ job'[v].source = job[v].source,
         Building(w)' => new.name = n,
         Sound(new),
         StoreOK', Elsewhere(n),
         dir'[n] # "none" => head'[n] # Nothing,
         n \notin marred' => OnlyBuilder(w, n) /\ Solo(n, new)' /\ Hosted(n)'
  PROVE  IInv'
<1> HIDE DEF Job
<1>1. TypeOK'
  BY DEF IInv, TypeOK, StoreOK, Elsewhere
<1>2. HasHead'
  BY DEF IInv, HasHead, Elsewhere
<1>3. KnowsBranch'
  BY DEF IInv, KnowsBranch, Sound, BuildSteps
<1>4. HostedAsAnswered'
  <2> SUFFICES ASSUME NEW k \in Names, k \notin marred'
               PROVE  Hosted(k)'
    BY DEF HostedAsAnswered, Hosted
  <2> QED BY DEF IInv, HostedAsAnswered, Hosted, Elsewhere
<1>5. \A v \in Workers \ {w} : /\ Building(v)' <=> Building(v)
                               /\ Building(v) => job'[v].name = job[v].name
  BY DEF Building, BuildSteps
<1>6. BuiltAlone'
  <2> SUFFICES ASSUME NEW v \in Workers, NEW k, NEW j, k = job'[v].name, j = job'[v],
                      Building(v)', k \notin marred'
               PROVE  Solo(k, j)' /\ OnlyBuilder(v, k)'
    BY DEF BuiltAlone, Solo, OnlyBuilder
  <2>1. CASE v = w
    <3>1. k = n /\ j = new /\ OnlyBuilder(w, n) /\ Solo(n, new)'
      BY <2>1
    <3>2. OnlyBuilder(w, n)'
      BY <1>5, <3>1 DEF OnlyBuilder
    <3> QED BY <2>1, <3>1, <3>2
  <2>2. CASE v # w
    <3>1. /\ Building(v) /\ k # n /\ k = job[v].name /\ j = job[v] /\ k \notin marred
      BY <1>5, <2>2 DEF Elsewhere, OnlyBuilder
    <3>2. k \in Names
      BY <3>1, JobKind DEF IInv, Building, BuildJob
    <3>3. Solo(k, j) /\ OnlyBuilder(v, k)
      BY <3>1 DEF IInv, BuiltAlone
    <3>4. \A u \in Workers : Building(u)' /\ job'[u].name = k => Building(u) /\ job[u].name = k
      BY <1>5, <3>1
    <3>5. OnlyBuilder(v, k)'
      BY <3>3, <3>4 DEF OnlyBuilder
    <3>6. Solo(k, j)'
      BY <3>1, <3>2, <3>3 DEF Solo, Elsewhere
    <3> QED BY <3>5, <3>6
  <2> QED BY <2>1, <2>2
<1> QED BY <1>1, <1>2, <1>3, <1>4, <1>6 DEF IInv

\* What the invariant says of a request that builds.
LEMMA AtWork ==
  ASSUME IInv, NEW w \in Workers, Building(w)
  PROVE  /\ job \in [Workers -> Job] /\ job[w] \in BuildJob /\ job[w].name \in Names
         /\ job[w].source \in Sources \cup {Local}
         /\ job[w].branch \in Branches \cup {Nothing}
         /\ Sound(job[w]) /\ StoreOK
         /\ dir[job[w].name] # "none" => head[job[w].name] # Nothing
         /\ job[w].name \notin marred =>
              /\ Solo(job[w].name, job[w]) /\ OnlyBuilder(w, job[w].name)
              /\ replies[job[w].name] = {}
<1>1. job \in [Workers -> Job] /\ job[w] \in BuildJob
  BY JobKind DEF IInv, Building
<1>2. /\ job[w].name \in Names /\ job[w].source \in Sources \cup {Local}
      /\ job[w].branch \in Branches \cup {Nothing}
  BY <1>1 DEF BuildJob
<1>3. Sound(job[w]) /\ StoreOK
  BY DEF IInv, KnowsBranch, TypeOK, StoreOK
<1>4. job[w].name \notin marred =>
        /\ Solo(job[w].name, job[w]) /\ OnlyBuilder(w, job[w].name)
        /\ replies[job[w].name] = {}
  BY DEF IInv, BuiltAlone, Building, Solo
<1>5. dir[job[w].name] # "none" => head[job[w].name] # Nothing
  BY <1>2 DEF IInv, HasHead
<1> HIDE DEF Job, BuildJob
<1> QED BY <1>1, <1>2, <1>3, <1>4, <1>5

\* A job that goes on to another step.
Moved(old, step) == [old EXCEPT !.at = step]

\* A build that goes on to another step keeps its name, branch and source.
LEMMA NextJob ==
  ASSUME NEW old \in BuildJob, NEW step \in BuildSteps
  PROVE  /\ Moved(old, step) \in BuildJob /\ Moved(old, step) \in Job
         /\ Moved(old, step).at = step /\ Moved(old, step).name = old.name
         /\ Moved(old, step).branch = old.branch /\ Moved(old, step).source = old.source
BY DEF BuildJob, Job, Moved

\* A name found free is built by whoever found it so; a second one mars it.
LEMMA CheckFreeStep ==
  ASSUME IInv, NEW w \in Workers, CheckFree(w)
  PROVE  IInv'
<1>0. PICK n : n = job[w].name
  OBVIOUS
<1>1. /\ job \in [Workers -> Job] /\ job[w] \in BuildJob /\ job[w].at = "stat"
      /\ UNCHANGED <<files, cloud, replies>> /\ Sound(job[w])
  BY JobKind DEF IInv, CheckFree, At, BuildSteps, KnowsBranch
<1>2. ~Building(w) /\ n \in Names
  BY <1>0, <1>1 DEF Building, BuildJob
<1>3. CASE Taken(n)
  <2> DEFINE new == Answered(409)
  <2>1. new \in Job /\ new.at = "answered"
    BY AnswerIsJob
  <2>2. job' = [job EXCEPT ![w] = new] /\ marred' = marred
    BY <1>0, <1>3 DEF CheckFree, Answer, Answered
  <2> HIDE DEF new, Job
  <2> QED BY <1>1, <1>2, <2>1, <2>2, QuietStep DEF Sound, BuildSteps
<1>4. CASE ~Taken(n)
  <2>1. PICK step \in {"init", "clone"} :
          step = IF job[w].source = Local THEN "init" ELSE "clone"
    OBVIOUS
  <2>2. step \in BuildSteps
    BY DEF BuildSteps
  <2> HIDE DEF Job, BuildJob
  <2>3. PICK new \in Job :
          /\ new = Moved(job[w], step) /\ new.at = step /\ new.name = n
          /\ new.branch = job[w].branch /\ new.source = job[w].source
    BY <1>0, <1>1, <2>2, NextJob
  <2>4. job' = [job EXCEPT ![w] = new]
    BY <1>0, <1>1, <1>4, <2>1, <2>3 DEF CheckFree, Proceed, Moved
  <2>5. job' \in [Workers -> Job] /\ job'[w] = new /\ \A v \in Workers \ {w} : job'[v] = job[v]
    BY <1>1, <2>3, <2>4
  <2>6. Sound(new)
    BY <1>1, <2>1, <2>3 DEF Sound, BuildSteps
  <2>7. marred' \in {marred, marred \cup {n}}
    BY <1>0, <1>4 DEF CheckFree, Mar
  <2>8. Elsewhere(n)
    BY <1>1, <2>7 DEF Elsewhere, files
  <2>9. StoreOK'
    BY <1>1 DEF IInv, TypeOK, StoreOK, files
  <2>10. n \notin marred' => n \notin marred /\ OnlyBuilder(w, n)
    BY <1>0, <1>4 DEF CheckFree, Mar, Builders, Building, OnlyBuilder
  <2>11. dir'[n] = "none" /\ (n \notin marred => replies'[n] = {})
    BY <1>1, <1>2, <1>4 DEF Taken, IInv, HostedAsAnswered, TypeOK, files
  <2>12. n \notin marred' => Solo(n, new)' /\ Hosted(n)'
    BY <2>1, <2>3, <2>10, <2>11 DEF Solo, Hosted
  <2> QED BY <1>2, <2>3, <2>5, <2>6, <2>8, <2>9, <2>10, <2>11, <2>12, BuildStep
<1> QED BY <1>3, <1>4

\* git init makes the directory or meets the one that is there.
LEMMA GitInitStep ==
  ASSUME IInv, NEW w \in Workers, GitInit(w)
  PROVE  IInv'
<1>0. PICK n : n = job[w].name
  OBVIOUS
<1>1. /\ Building(w) /\ job[w].at = "init"
      /\ UNCHANGED <<http, meta, cloud, replies, marred>>
  BY DEF GitInit, At, Building, BuildSteps
<1>2. /\ job \in [Workers -> Job] /\ job[w] \in BuildJob /\ n \in Names
      /\ job[w].branch \in Branches \cup {Nothing} /\ Sound(job[w]) /\ StoreOK
      /\ dir[n] # "none" => head[n] # Nothing
      /\ n \notin marred => Solo(n, job[w]) /\ OnlyBuilder(w, n) /\ replies[n] = {}
  BY <1>0, <1>1, AtWork
<1> HIDE DEF Job, BuildJob
<1>3. job[w].source = Local /\ job[w].branch \in Branches /\ Nothing \notin Branches
      /\ job[w].branch # Nothing
  BY <1>1, <1>2, RepositoryConstants DEF Sound, BuildSteps
<1>4. n \notin marred => dir[n] = "none"
  BY <1>1, <1>2 DEF Solo, BuildSteps
<1>5. PICK new \in Job :
        /\ new = Moved(job[w], "configure") /\ new.at = "configure" /\ new.name = n
        /\ new.branch = job[w].branch /\ new.source = Local
  <2>1. "configure" \in BuildSteps
    BY DEF BuildSteps
  <2> QED BY <1>0, <1>2, <1>3, <2>1, NextJob
<1>6. job' = [job EXCEPT ![w] = new]
  BY <1>2, <1>5 DEF GitInit, Proceed, Moved
<1>7. /\ dir' \in [Names -> {"none", "partial", "bare"}]
      /\ head' \in [Names -> Branches \cup {Nothing}]
      /\ \A k \in Names \ {n} : dir'[k] = dir[k] /\ head'[k] = head[k]
      /\ dir[n] = "none" => dir'[n] = "bare" /\ head'[n] = job[w].branch
      /\ dir[n] # "none" => dir'[n] = dir[n] /\ head'[n] = head[n]
  BY <1>0, <1>2 DEF GitInit, StoreOK
<1>8. dir'[n] # "none" => head'[n] # Nothing
  BY <1>2, <1>3, <1>7
<1>9. StoreOK' /\ Elsewhere(n)
  BY <1>1, <1>2, <1>7 DEF StoreOK, Elsewhere
<1>10. Sound(new)
  BY <1>3, <1>5 DEF Sound
<1>11. n \notin marred' => OnlyBuilder(w, n) /\ Solo(n, new)' /\ Hosted(n)'
  BY <1>1, <1>2, <1>4, <1>5, <1>7 DEF Solo, Hosted
<1>12. job' \in [Workers -> Job] /\ job'[w] = new /\ \A v \in Workers \ {w} : job'[v] = job[v]
  BY <1>2, <1>5, <1>6
<1> QED BY <1>2, <1>5, <1>8, <1>9, <1>10, <1>11, <1>12, BuildStep

\* A request that builds and is answered: nothing is under way for the name,
\* unless others build it too.
LEMMA AnswerStep ==
  ASSUME IInv, NEW w \in Workers, NEW n \in Names, n = job[w].name, Building(w),
         NEW code \in {201, 400, 409, 500}, Answer(w, code),
         StoreOK', Elsewhere(n), dir'[n] # "none" => head'[n] # Nothing,
         n \notin marred' => Hosted(n)'
  PROVE  IInv'
<1>1. job \in [Workers -> Job] /\ (n \notin marred => OnlyBuilder(w, n))
  BY AtWork
<1> HIDE DEF Job
<1>2. PICK new \in Job : new = Answered(code) /\ new.at = "answered"
  BY AnswerIsJob
<1>3. job' = [job EXCEPT ![w] = new]
  BY <1>2 DEF Answer, Answered
<1>4. job' \in [Workers -> Job] /\ job'[w] = new /\ \A v \in Workers \ {w} : job'[v] = job[v]
  BY <1>1, <1>2, <1>3
<1>5. Sound(new) /\ ~Building(w)' /\ Solo(n, new)'
  BY <1>2, <1>4 DEF Sound, Building, Solo, BuildSteps
<1>6. n \notin marred' => n \notin marred
  BY DEF Elsewhere
<1> QED BY <1>1, <1>2, <1>4, <1>5, <1>6, BuildStep

\* git clone makes its directory, or refuses one that is there.
LEMMA CloneBeginsStep ==
  ASSUME IInv, NEW w \in Workers, CloneBegins(w)
  PROVE  IInv'
<1>0. PICK n : n = job[w].name
  OBVIOUS
<1>1. /\ Building(w) /\ job[w].at = "clone"
      /\ UNCHANGED <<http, meta, cloud, replies, marred>>
  BY DEF CloneBegins, At, Building, BuildSteps
<1>2. /\ job \in [Workers -> Job] /\ job[w] \in BuildJob /\ n \in Names
      /\ Sound(job[w]) /\ StoreOK
      /\ dir[n] # "none" => head[n] # Nothing
      /\ n \notin marred => OnlyBuilder(w, n) /\ replies[n] = {}
  BY <1>0, <1>1, AtWork
<1> HIDE DEF Job, BuildJob
<1>3. CASE dir[n] = "none"
  <2>1. PICK new \in Job :
          /\ new = Moved(job[w], "cloning") /\ new.at = "cloning" /\ new.name = n
          /\ new.branch = job[w].branch /\ new.source = job[w].source
    <3>1. "cloning" \in BuildSteps
      BY DEF BuildSteps
    <3> QED BY <1>0, <1>2, <3>1, NextJob
  <2>2. job' = [job EXCEPT ![w] = new]
    BY <1>0, <1>2, <1>3, <2>1 DEF CloneBegins, Proceed, Moved
  <2>3. job' \in [Workers -> Job] /\ job'[w] = new /\ \A v \in Workers \ {w} : job'[v] = job[v]
    BY <1>2, <2>1, <2>2
  <2>4. Sound(new)
    BY <1>1, <1>2, <2>1 DEF Sound, BuildSteps
  <2>5. /\ dir' = [dir EXCEPT ![n] = "partial"] /\ head' = [head EXCEPT ![n] = Main]
        /\ Main \in Branches /\ Main # Nothing
    BY <1>0, <1>3, RepositoryConstants DEF CloneBegins
  <2>6. StoreOK' /\ Elsewhere(n)
    BY <1>1, <1>2, <2>5 DEF StoreOK, Elsewhere
  <2>7. dir'[n] = "partial" /\ head'[n] # Nothing
    BY <1>2, <2>5 DEF StoreOK
  <2>8. n \notin marred' => OnlyBuilder(w, n) /\ Solo(n, new)' /\ Hosted(n)'
    BY <1>1, <1>2, <2>1, <2>7 DEF Solo, Hosted
  <2> QED BY <1>2, <2>1, <2>3, <2>4, <2>6, <2>7, <2>8, BuildStep
<1>4. CASE dir[n] # "none"
  <2>1. Answer(w, 409) /\ UNCHANGED <<dir, head>>
    BY <1>0, <1>4 DEF CloneBegins
  <2>2. StoreOK' /\ Elsewhere(n)
    BY <1>1, <1>2, <2>1 DEF StoreOK, Elsewhere
  <2>3. n \notin marred' => Hosted(n)'
    BY <1>1, <1>2 DEF Hosted
  <2> QED BY <1>0, <1>1, <1>2, <2>1, <2>2, <2>3, AnswerStep
<1> QED BY <1>3, <1>4

\* A clone that fails takes the directory away from whoever else builds it.
LEMMA CloneEndsStep ==
  ASSUME IInv, NEW w \in Workers, CloneEnds(w)
  PROVE  IInv'
<1>0. PICK n : n = job[w].name
  OBVIOUS
<1>1. /\ Building(w) /\ job[w].at = "cloning" /\ UNCHANGED <<cloud, replies, marred>>
  BY DEF CloneEnds, At, Building, BuildSteps
<1>2. /\ job \in [Workers -> Job] /\ job[w] \in BuildJob /\ n \in Names
      /\ Sound(job[w]) /\ StoreOK
      /\ n \notin marred => OnlyBuilder(w, n) /\ replies[n] = {}
  BY <1>0, <1>1, AtWork
<1> HIDE DEF Job, BuildJob
<1>3. CASE /\ dir' = [dir EXCEPT ![n] = "bare"]
           /\ head' = [head EXCEPT ![n] = Main]
           /\ Proceed(w, "configure")
           /\ UNCHANGED <<http, meta>>
  <2>1. PICK new \in Job :
          /\ new = Moved(job[w], "configure") /\ new.at = "configure" /\ new.name = n
          /\ new.branch = job[w].branch /\ new.source = job[w].source
    <3>1. "configure" \in BuildSteps
      BY DEF BuildSteps
    <3> QED BY <1>0, <1>2, <3>1, NextJob
  <2>2. job' = [job EXCEPT ![w] = new]
    BY <1>2, <1>3, <2>1 DEF Proceed, Moved
  <2>3. job' \in [Workers -> Job] /\ job'[w] = new /\ \A v \in Workers \ {w} : job'[v] = job[v]
    BY <1>2, <2>1, <2>2
  <2>4. Sound(new) /\ new.source # Local
    BY <1>1, <1>2, <2>1 DEF Sound, BuildSteps
  <2>5. Main \in Branches /\ Main # Nothing
    BY RepositoryConstants
  <2>6. StoreOK' /\ Elsewhere(n)
    BY <1>1, <1>2, <1>3, <2>5 DEF StoreOK, Elsewhere
  <2>7. dir'[n] = "bare" /\ head'[n] # Nothing
    BY <1>2, <1>3, <2>5 DEF StoreOK
  <2>8. n \notin marred' => OnlyBuilder(w, n) /\ Solo(n, new)' /\ Hosted(n)'
    BY <1>1, <1>2, <2>1, <2>4, <2>7 DEF Solo, Hosted
  <2> QED BY <1>2, <2>1, <2>3, <2>4, <2>6, <2>7, <2>8, BuildStep
<1>4. CASE /\ Remove(n)
           /\ job' = [v \in Workers |->
                        IF v = w THEN [at |-> "answered", code |-> 500]
                        ELSE IF At(v, "write") /\ job[v].name = n
                             THEN [job[v] EXCEPT !.at = "writeAway"]
                             ELSE job[v]]
  <2>1. PICK new \in Job : new = Answered(500) /\ new.at = "answered"
    BY AnswerIsJob
  <2>2. job'[w] = new
    BY <1>4, <2>1 DEF Answered
  <2>3. \A v \in Workers \ {w} :
           /\ job'[v] \in Job
           /\ \/ job'[v] = job[v]
              \/ /\ Building(v) /\ job[v].name = n
                 /\ job'[v].name = n /\ job'[v].at = "writeAway" /\ job[v].at = "write"
                 /\ job'[v].branch = job[v].branch /\ job'[v].source = job[v].source
    <3> SUFFICES ASSUME NEW v \in Workers \ {w}
                 PROVE  /\ job'[v] \in Job
                        /\ \/ job'[v] = job[v]
                           \/ /\ Building(v) /\ job[v].name = n
                              /\ job'[v].name = n /\ job'[v].at = "writeAway"
                              /\ job[v].at = "write"
                              /\ job'[v].branch = job[v].branch /\ job'[v].source = job[v].source
      OBVIOUS
    <3>1. CASE job[v].at = "write" /\ job[v].name = n
      <4>1. job'[v] = Moved(job[v], "writeAway")
        BY <1>4, <3>1 DEF At, Moved
      <4>2. job[v] \in BuildJob /\ Building(v) /\ "writeAway" \in BuildSteps
        BY <3>1, JobKind DEF IInv, Building, BuildSteps
      <4> QED BY <3>1, <4>1, <4>2, NextJob
    <3>2. CASE ~(job[v].at = "write" /\ job[v].name = n)
      BY <1>2, <1>4, <3>2 DEF At
    <3> QED BY <3>1, <3>2
  <2>4. job' \in [Workers -> Job]
    BY <1>4, <2>1, <2>2, <2>3
  <2>5. n \notin marred' => OnlyBuilder(w, n) /\ n \notin marred
    BY <1>1, <1>2
  <2>6. \A v \in Workers \ {w} :
           \/ job'[v] = job[v]
           \/ /\ n \in marred' /\ Building(v) /\ job[v].name = n
              /\ job'[v].name = n /\ job'[v].at = "writeAway" /\ job[v].at = "write"
              /\ job'[v].branch = job[v].branch /\ job'[v].source = job[v].source
    BY <2>3, <2>5 DEF OnlyBuilder
  <2>7. StoreOK' /\ Elsewhere(n) /\ dir'[n] = "none"
    BY <1>1, <1>2, <1>4 DEF Remove, StoreOK, Elsewhere
  <2>8. Sound(new) /\ ~Building(w)' /\ Solo(n, new)'
    BY <2>1, <2>2 DEF Sound, Building, Solo, BuildSteps
  <2>9. n \notin marred' => Hosted(n)'
    BY <1>1, <1>2 DEF Hosted
  <2> QED BY <1>2, <2>1, <2>2, <2>4, <2>5, <2>6, <2>7, <2>8, <2>9, BuildStep
<1> QED BY <1>0, <1>3, <1>4 DEF CloneEnds

\* git config is set in the directory the request has made.
LEMMA ConfigureStep ==
  ASSUME IInv, NEW w \in Workers, Configure(w)
  PROVE  IInv'
<1>0. PICK n : n = job[w].name
  OBVIOUS
<1>1. /\ Building(w) /\ job[w].at = "configure" /\ dir[n] # "none"
      /\ UNCHANGED <<dir, head, meta, cloud, replies, marred>>
      /\ http' = [http EXCEPT ![n] = TRUE]
  BY <1>0 DEF Configure, At, Building, BuildSteps
<1>2. /\ job \in [Workers -> Job] /\ job[w] \in BuildJob /\ n \in Names
      /\ job[w].branch \in Branches \cup {Nothing} /\ Sound(job[w]) /\ StoreOK
      /\ dir[n] # "none" => head[n] # Nothing
      /\ n \notin marred => Solo(n, job[w]) /\ OnlyBuilder(w, n) /\ replies[n] = {}
  BY <1>0, <1>1, AtWork
<1>3. PICK branch : branch = BranchRecorded(w)
  OBVIOUS
<1>4. /\ branch \in Branches \cup {Nothing} /\ branch # Nothing
      /\ job[w].branch # Nothing => branch = job[w].branch
  BY <1>0, <1>1, <1>2, <1>3 DEF BranchRecorded, StoreOK
<1>5. PICK new : new = [job[w] EXCEPT !.at = "truncate", !.branch = branch]
  OBVIOUS
<1>6. /\ new.at = "truncate" /\ new.name = n /\ new.branch = branch
      /\ new.source = job[w].source /\ new \in BuildJob
  BY <1>0, <1>2, <1>4, <1>5 DEF BuildJob, BuildSteps
<1>7. new \in Job
  BY <1>6 DEF Job
<1> HIDE DEF Job, BuildJob
<1>8. job' = [job EXCEPT ![w] = new]
  BY <1>2, <1>3, <1>5 DEF Configure
<1>9. job' \in [Workers -> Job] /\ job'[w] = new /\ \A v \in Workers \ {w} : job'[v] = job[v]
  BY <1>2, <1>7, <1>8
<1>10. Sound(new)
  BY <1>4, <1>6 DEF Sound
<1>11. StoreOK' /\ Elsewhere(n) /\ http'[n]
  BY <1>1, <1>2 DEF StoreOK, Elsewhere
<1>12. n \notin marred => dir[n] = "bare" /\ (new.source = Local => head[n] = new.branch)
  BY <1>1, <1>2, <1>4, <1>6 DEF Solo, Sound, BuildSteps
<1>13. n \notin marred' => OnlyBuilder(w, n) /\ Solo(n, new)' /\ Hosted(n)'
  BY <1>1, <1>2, <1>6, <1>11, <1>12 DEF Solo, Hosted
<1> QED BY <1>1, <1>2, <1>6, <1>7, <1>9, <1>10, <1>11, <1>13, BuildStep

\* os.WriteFile empties the metadata file before it writes it.
LEMMA TruncateStep ==
  ASSUME IInv, NEW w \in Workers, Truncate(w)
  PROVE  IInv'
<1>0. PICK n : n = job[w].name
  OBVIOUS
<1>1. /\ Building(w) /\ job[w].at = "truncate" /\ dir[n] # "none"
      /\ UNCHANGED <<dir, head, http, cloud, replies, marred>>
      /\ meta' = [meta EXCEPT ![n] = Empty]
  BY <1>0 DEF Truncate, AfterTruncate, At, Building, BuildSteps
<1>2. /\ job \in [Workers -> Job] /\ job[w] \in BuildJob /\ n \in Names
      /\ Sound(job[w]) /\ StoreOK
      /\ dir[n] # "none" => head[n] # Nothing
      /\ n \notin marred => Solo(n, job[w]) /\ OnlyBuilder(w, n) /\ replies[n] = {}
  BY <1>0, <1>1, AtWork
<1> HIDE DEF Job, BuildJob
<1>3. PICK new \in Job :
        /\ new = Moved(job[w], "write") /\ new.at = "write" /\ new.name = n
        /\ new.branch = job[w].branch /\ new.source = job[w].source
  <2>1. "write" \in BuildSteps
    BY DEF BuildSteps
  <2> QED BY <1>0, <1>2, <2>1, NextJob
<1>4. job' = [job EXCEPT ![w] = new]
  BY <1>2, <1>3 DEF Truncate, AfterTruncate, Proceed, Moved
<1>5. job' \in [Workers -> Job] /\ job'[w] = new /\ \A v \in Workers \ {w} : job'[v] = job[v]
  BY <1>2, <1>3, <1>4
<1>6. Sound(new)
  BY <1>1, <1>2, <1>3 DEF Sound, BuildSteps
<1>7. StoreOK' /\ Elsewhere(n) /\ meta'[n] = Empty
  BY <1>1, <1>2 DEF StoreOK, Elsewhere
<1>8. n \notin marred => Solo(n, job[w]) /\ OnlyBuilder(w, n) /\ replies[n] = {}
  BY <1>2
<1>9. n \notin marred' =>
        /\ OnlyBuilder(w, n) /\ replies'[n] = {}
        /\ dir'[n] = "bare" /\ http'[n]
        /\ (new.source = Local => head'[n] = new.branch)
  BY <1>1, <1>3, <1>8 DEF Solo, BuildSteps
<1>10. n \notin marred' => Solo(n, new)'
  <2>1. new.at = "write"
    BY <1>3
  <2> QED BY <2>1, <1>7, <1>9 DEF Solo
<1>11. n \notin marred' => Hosted(n)'
  BY <1>9 DEF Hosted
<1> QED BY <1>1, <1>2, <1>3, <1>5, <1>6, <1>7, <1>9, <1>10, <1>11, BuildStep

\* The text reaches the file, or a file that is gone; the reply tells of it.
LEMMA WriteStep ==
  ASSUME IInv, NEW w \in Workers, Write(w) \/ WriteAway(w)
  PROVE  IInv'
<1>0. PICK n, m : n = job[w].name /\ m = Told(w)
  OBVIOUS
<1>1. /\ Building(w) /\ job[w].at \in {"write", "writeAway"} /\ Answer(w, 201)
      /\ UNCHANGED <<dir, head, http, cloud, marred>>
      /\ replies' = [replies EXCEPT ![n] = replies[n] \cup {m}]
      /\ job[w].at = "writeAway" => meta' = meta
      /\ \/ meta' = meta
         \/ \E text \in {m} \cup (IF meta[n] = Empty THEN {} ELSE {Garbled}) :
              meta' = [meta EXCEPT ![n] = text]
      /\ job[w].at = "write" =>
           \E text \in {m} \cup (IF meta[n] = Empty THEN {} ELSE {Garbled}) :
              meta' = [meta EXCEPT ![n] = text]
  BY <1>0 DEF Write, WriteAway, AnswerCreated, Text, At, Building, BuildSteps, files
<1>2. /\ n \in Names /\ job[w].source \in Sources \cup {Local}
      /\ job[w].branch \in Branches \cup {Nothing} /\ Sound(job[w]) /\ StoreOK
      /\ dir[n] # "none" => head[n] # Nothing
      /\ n \notin marred => Solo(n, job[w]) /\ OnlyBuilder(w, n) /\ replies[n] = {}
  BY <1>0, <1>1, AtWork
<1>3. /\ m \in Metadata /\ m.branch = job[w].branch /\ m.source = job[w].source
  BY <1>0, <1>1, <1>2 DEF Told, Metadata, Sound
<1>4. StoreOK' /\ Elsewhere(n)
  <2>1. /\ meta' \in [Names -> Metadata \cup {NoFile, Empty, Garbled}]
        /\ \A k \in Names \ {n} : meta'[k] = meta[k]
    BY <1>1, <1>2, <1>3 DEF StoreOK
  <2>2. /\ replies' \in [Names -> SUBSET Metadata]
        /\ \A k \in Names \ {n} : replies'[k] = replies[k]
    BY <1>1, <1>2, <1>3 DEF StoreOK
  <2> QED BY <1>1, <1>2, <2>1, <2>2 DEF StoreOK, Elsewhere
<1>5. n \notin marred' => Hosted(n)'
  <2> SUFFICES ASSUME n \notin marred PROVE Hosted(n)'
    BY <1>1
  <2>1. /\ job[w].at = "write" /\ dir[n] = "bare" /\ http[n] /\ meta[n] = Empty
        /\ job[w].source = Local => head[n] = job[w].branch
    BY <1>1, <1>2 DEF Solo, BuildSteps
  <2>2. meta' = [meta EXCEPT ![n] = m] /\ meta'[n] = m
    BY <1>1, <1>2, <2>1 DEF StoreOK
  <2>3. replies'[n] = {m}
    BY <1>1, <1>2 DEF StoreOK
  <2> QED BY <1>1, <1>3, <2>1, <2>2, <2>3 DEF Hosted
<1> QED BY <1>0, <1>1, <1>2, <1>4, <1>5, AnswerStep

\* A build that fails leaves what stands, and marks its name.
LEMMA FailStep ==
  ASSUME IInv, NEW w \in Workers, BuildFails(w)
  PROVE  IInv'
<1>0. PICK n : n = job[w].name
  OBVIOUS
<1>1. /\ Building(w) /\ Answer(w, 500) /\ UNCHANGED <<files, cloud, replies>>
      /\ marred' \in {marred, marred \cup {n}}
  BY <1>0 DEF BuildFails, Fail, Mar, Building
<1>2. /\ n \in Names /\ StoreOK
      /\ dir[n] # "none" => head[n] # Nothing
      /\ n \notin marred => replies[n] = {}
  BY <1>0, <1>1, AtWork
<1>3. StoreOK' /\ Elsewhere(n)
  BY <1>1, <1>2 DEF StoreOK, Elsewhere, files
<1>4. n \notin marred' => Hosted(n)'
  BY <1>1, <1>2 DEF Hosted
<1>5. dir'[n] # "none" => head'[n] # Nothing
  BY <1>1, <1>2 DEF files
<1> QED BY <1>0, <1>1, <1>2, <1>3, <1>4, <1>5, AnswerStep

\* A crash ends every request and marks the names they were building.
LEMMA CrashStep == IInv /\ Crash => IInv'
<1> SUFFICES ASSUME IInv, Crash PROVE IInv'
  OBVIOUS
<1>1. Idle \in Job /\ Idle.at = "idle"
  BY DEF Idle, Job, IdleJob
<1>2. /\ job' = [v \in Workers |-> Idle] /\ UNCHANGED <<files, cloud, replies>>
      /\ marred \subseteq marred' /\ marred' \in SUBSET Names
  BY DEF Crash, IInv, TypeOK
<1> HIDE DEF Job
<1>3. TypeOK'
  BY <1>1, <1>2 DEF IInv, TypeOK, files
<1>4. HasHead'
  BY <1>2 DEF IInv, HasHead, files
<1>5. KnowsBranch' /\ BuiltAlone'
  BY <1>1, <1>2 DEF KnowsBranch, Sound, BuiltAlone, Building, BuildSteps
<1>6. HostedAsAnswered'
  BY <1>2 DEF IInv, HostedAsAnswered, files
<1> QED BY <1>3, <1>4, <1>5, <1>6 DEF IInv

\* Every step keeps the invariant.
LEMMA InvStep == IInv /\ [Next]_vars => IInv'
<1> SUFFICES ASSUME IInv, [Next]_vars PROVE IInv'
  OBVIOUS
<1>1. CASE UNCHANGED vars
  BY <1>1 DEF vars, files, IInv, TypeOK, HasHead, KnowsBranch, Sound, BuiltAlone, Solo,
              OnlyBuilder, Building, HostedAsAnswered
<1> QED BY <1>1, ViewStep, CheckFreeStep, GitInitStep, CloneBeginsStep, CloneEndsStep,
           ConfigureStep, TruncateStep, WriteStep, FailStep, CrashStep
        DEF Next, PromptStep

-----------------------------------------------------------------------------

\* Directories, files and requests are of their types: in particular every
\* reply of a 201 names a branch.
THEOREM TypeCorrect == Spec => []TypeOK
<1>1. IInv => TypeOK
  BY DEF IInv
<1> QED BY <1>1, InvInit, InvStep, PTL DEF Spec

\* A repository one request built alone and to the end is and stays what its
\* reply said, whatever other requests, failures and crashes there are.
THEOREM BuiltMeansHosted == Spec => []HostedAsAnswered
<1>1. IInv => HostedAsAnswered
  BY DEF IInv
<1> QED BY <1>1, InvInit, InvStep, PTL DEF Spec

-----------------------------------------------------------------------------
(* What the views say.                                                     *)

ViewSteps == {"listing", "rancher", "openstack", "listed"}

\* A metadata file that parses is what some reply told.
FileTold == \A n \in Names : meta[n] \in Metadata => meta[n] \in replies[n]

\* A view knows of every repository answered before it began, or has its entry
\* before it; and says of none what no reply told.
Current(j) ==
  j.at \in ViewSteps =>
    /\ \A n \in j.known : replies[n] # {}
    /\ \A n \in j.known \ marred :
         \/ j.at = "listing" /\ n \in j.todo
         \/ \E e \in j.found : e.name = n /\ e.meta \in replies[n]
    /\ \A e \in j.found : e.meta = DefaultMetadata \/ e.meta \in replies[e.name]

Views == \A w \in Workers : Current(job[w])

LInv == IInv /\ FileTold /\ Views

\* What was told and what was marred stays so.
OnlyMore ==
  /\ marred \subseteq marred'
  /\ \A n \in Names : replies[n] \subseteq replies'[n]

\* What a view holds is about the names there are.
LEMMA ViewIs ==
  ASSUME TypeOK, NEW w \in Workers, job[w].at \in ViewSteps
  PROVE  /\ job[w].known \subseteq Names
         /\ \A e \in job[w].found : e.name \in Names
         /\ job[w].at = "listing" => job[w].todo \subseteq Names
<1>1. job[w] \in ListJob \/ job[w] \in ViewJob
  BY JobKind DEF ViewSteps
<1>2. CASE job[w] \in ListJob
  BY <1>2 DEF ListJob, Found
<1>3. CASE job[w] \in ViewJob
  BY <1>3 DEF ViewJob, Found
<1> QED BY <1>1, <1>2, <1>3

\* A view that was right stays right.
LEMMA StaysCurrent ==
  ASSUME LInv, OnlyMore, NEW w \in Workers, job'[w] = job[w]
  PROVE  Current(job[w])'
<1> SUFFICES ASSUME job[w].at \in ViewSteps PROVE Current(job[w])'
  BY DEF Current
<1>1. /\ job[w].known \subseteq Names
      /\ \A e \in job[w].found : e.name \in Names
  BY ViewIs DEF LInv, IInv
<1>2. Current(job[w])
  BY DEF LInv, Views
<1> QED BY <1>1, <1>2 DEF Current, OnlyMore

\* A step that leaves every view as it is, or ends it.
LEMMA ViewsStay ==
  ASSUME LInv, OnlyMore,
         \A w \in Workers : job'[w] = job[w] \/ job'[w].at \notin ViewSteps
  PROVE  Views'
<1> SUFFICES ASSUME NEW w \in Workers PROVE Current(job[w])'
  BY DEF Views
<1>1. CASE job'[w] = job[w]
  BY <1>1, StaysCurrent
<1>2. CASE job'[w].at \notin ViewSteps
  BY <1>2 DEF Current
<1> QED BY <1>1, <1>2

\* A step of a view, which changes no file and no reply.
LEMMA ViewMoves ==
  ASSUME LInv, UNCHANGED <<files, replies, marred>>, NEW w \in Workers, NEW new,
         job' = [job EXCEPT ![w] = new], Current(new)
  PROVE  FileTold' /\ Views'
<1>1. FileTold'
  BY DEF LInv, FileTold, files
<1>2. job \in [Workers -> Job]
  BY JobKind DEF LInv, IInv
<1>3. job'[w] = new /\ \A v \in Workers \ {w} : job'[v] = job[v]
  BY <1>2
<1>4. OnlyMore
  BY DEF OnlyMore
<1>5. \A v \in Workers \ {w} : Current(job[v])'
  BY <1>3, <1>4, StaysCurrent
<1>6. Current(job[w])'
  BY <1>3 DEF Current
<1> QED BY <1>1, <1>5, <1>6 DEF Views

\* A repository that was answered has its directory, and its file is what the
\* answer told, unless its name is marred.
LEMMA ListedRight ==
  ASSUME LInv, NEW n \in Names, replies[n] # {}, n \notin marred
  PROVE  dir[n] # "none" /\ meta[n] \in replies[n]
BY DEF LInv, IInv, HostedAsAnswered

\* A view begins with every directory before it.
LEMMA StartListViews ==
  ASSUME LInv, NEW w \in Workers, StartList(w)
  PROVE  FileTold' /\ Views'
<1>1. PICK new : new = [at |-> "listing", todo |-> {n \in Names : dir[n] # "none"},
                        found |-> {}, known |-> {n \in Names : replies[n] # {}}]
  OBVIOUS
<1>2. job' = [job EXCEPT ![w] = new]
  BY <1>1 DEF StartList
<1>3. /\ new.at = "listing" /\ new.found = {}
      /\ \A n : n \in new.todo <=> n \in Names /\ dir[n] # "none"
      /\ \A n : n \in new.known <=> n \in Names /\ replies[n] # {}
  BY <1>1
<1>4. Current(new)
  BY <1>3, ListedRight DEF Current
<1> QED BY <1>2, <1>4, ViewMoves DEF StartList

\* An entry is read as a reply told it, or as made up.
LEMMA ReadEntryViews ==
  ASSUME LInv, NEW w \in Workers, ReadEntry(w)
  PROVE  FileTold' /\ Views'
<1>1. /\ job \in [Workers -> Job] /\ job[w] \in ListJob /\ job[w].at = "listing"
      /\ Current(job[w])
  BY JobKind DEF ReadEntry, At, LInv, IInv, Views
<1>2. PICK n \in job[w].todo :
        IF meta[n] \in NotJSON
        THEN Answer(w, 500)
        ELSE LET m == IF meta[n] = NoFile THEN DefaultMetadata ELSE meta[n] IN
             job' = [job EXCEPT ![w].todo = @ \ {n},
                                ![w].found = @ \cup {[name |-> n, meta |-> m]}]
  BY DEF ReadEntry
<1>3. n \in Names
  BY <1>1 DEF ListJob
<1>4. CASE meta[n] \in NotJSON
  <2>1. PICK new \in Job : new = Answered(500) /\ new.at = "answered"
    BY AnswerIsJob
  <2>2. job' = [job EXCEPT ![w] = new]
    BY <1>2, <1>4, <2>1 DEF Answer, Answered
  <2>3. Current(new)
    BY <2>1 DEF Current, ViewSteps
  <2> QED BY <2>2, <2>3, ViewMoves DEF ReadEntry
<1>5. CASE meta[n] \notin NotJSON
  <2>1. PICK m : m = IF meta[n] = NoFile THEN DefaultMetadata ELSE meta[n]
    OBVIOUS
  <2>2. PICK e : e = [name |-> n, meta |-> m]
    OBVIOUS
  <2>3. PICK new : new = [job[w] EXCEPT !.todo = job[w].todo \ {n},
                                        !.found = job[w].found \cup {e}]
    OBVIOUS
  <2>4. job' = [job EXCEPT ![w] = new]
    BY <1>1, <1>2, <1>5, <2>1, <2>2, <2>3
  <2>5. e.name = n /\ e.meta = m
    BY <2>2
  <2>6. /\ new.at = "listing" /\ new.known = job[w].known
        /\ new.todo = job[w].todo \ {n} /\ new.found = job[w].found \cup {e}
    BY <1>1, <2>3 DEF ListJob
  <2>7. meta[n] = NoFile \/ meta[n] \in Metadata
    BY <1>3, <1>5 DEF LInv, IInv, TypeOK, NotJSON
  <2>8. m = DefaultMetadata \/ m \in replies[n]
    BY <1>3, <2>1, <2>7 DEF LInv, FileTold
  <2>9. n \in job[w].known \ marred => m \in replies[n]
    <3> SUFFICES ASSUME n \in job[w].known, n \notin marred PROVE m \in replies[n]
      OBVIOUS
    <3>1. replies[n] # {}
      BY <1>1 DEF Current, ViewSteps
    <3>2. meta[n] \in replies[n]
      BY <1>3, <3>1, ListedRight
    <3>3. meta[n] # NoFile
      BY <1>3, <3>2, RepositoryConstants DEF LInv, IInv, TypeOK, Metadata
    <3> QED BY <2>1, <3>2, <3>3
  <2>10. Current(new)
    BY <1>1, <2>5, <2>6, <2>8, <2>9 DEF Current, ViewSteps
  <2> QED BY <2>4, <2>10, ViewMoves DEF ReadEntry
<1> QED BY <1>4, <1>5

\* A listing that is through, and what the clouds add to it.
LEMMA AskViews ==
  ASSUME LInv, NEW w \in Workers, EndList(w) \/ AskRancher(w) \/ AskKeystone(w)
  PROVE  FileTold' /\ Views'
<1>1. /\ job \in [Workers -> Job] /\ Current(job[w])
      /\ EndList(w) => job[w] \in ListJob
      /\ AskRancher(w) \/ AskKeystone(w) => job[w] \in ViewJob
  BY JobKind DEF EndList, AskRancher, AskKeystone, At, LInv, IInv, Views
<1>2. UNCHANGED <<files, replies, marred>> /\ job[w].at \in ViewSteps
  BY DEF EndList, AskRancher, AskKeystone, At, ViewSteps
<1>3. ASSUME NEW new, job' = [job EXCEPT ![w] = new],
             /\ new.at \in {"rancher", "openstack", "listed"}
             /\ new.found = job[w].found /\ new.known = job[w].known
             /\ job[w].at = "listing" => job[w].todo = {}
      PROVE  FileTold' /\ Views'
  <2>1. Current(new)
    BY <1>1, <1>2, <1>3 DEF Current, ViewSteps
  <2> QED BY <1>2, <1>3, <2>1, ViewMoves
<1>4. CASE EndList(w)
  <2>1. PICK new : new = [at |-> "rancher", found |-> job[w].found,
                          known |-> job[w].known, layers |-> SeededLayers]
    OBVIOUS
  <2>2. /\ new.at = "rancher" /\ new.found = job[w].found /\ new.known = job[w].known
        /\ job' = [job EXCEPT ![w] = new] /\ job[w].todo = {}
    BY <1>4, <2>1 DEF EndList
  <2> QED BY <1>3, <2>2
<1>5. CASE AskRancher(w) \/ AskKeystone(w)
  <2>1. job[w] \in ViewJob /\ job[w].at # "listing"
    BY <1>1, <1>5 DEF ViewJob
  <2>2. ASSUME NEW api, Drop(w, api) PROVE FileTold' /\ Views'
    <3>1. PICK new : new = [at |-> "dropped", by |-> api]
      OBVIOUS
    <3>2. new.at = "dropped" /\ job' = [job EXCEPT ![w] = new]
      BY <2>2, <3>1 DEF Drop
    <3>3. Current(new)
      BY <3>2 DEF Current, ViewSteps
    <3> QED BY <1>2, <3>2, <3>3, ViewMoves
  <2>3. ASSUME NEW step \in {"openstack", "listed"}, Proceed(w, step)
        PROVE  FileTold' /\ Views'
    <3>1. PICK new : new = [job[w] EXCEPT !.at = step]
      OBVIOUS
    <3>2. new.at = step /\ new.found = job[w].found /\ new.known = job[w].known
      BY <2>1, <3>1 DEF ViewJob
    <3>3. job' = [job EXCEPT ![w] = new]
      BY <1>1, <2>3, <3>1 DEF Proceed
    <3> QED BY <1>3, <2>1, <3>2, <3>3
  <2>4. ASSUME NEW step \in {"openstack", "listed"}, NEW api, NEW status,
               Show(w, step, api, status)
        PROVE  FileTold' /\ Views'
    <3>1. PICK layers : layers = [job[w].layers EXCEPT ![api] = status]
      OBVIOUS
    <3>2. PICK new : new = [job[w] EXCEPT !.at = step, !.layers = layers]
      OBVIOUS
    <3>3. new.at = step /\ new.found = job[w].found /\ new.known = job[w].known
      BY <2>1, <3>2 DEF ViewJob
    <3>4. job' = [job EXCEPT ![w] = new]
      BY <1>1, <2>4, <3>1, <3>2 DEF Show
    <3> QED BY <1>3, <2>1, <3>3, <3>4
  <2>5. \/ \E api : Drop(w, api)
        \/ \E step \in {"openstack", "listed"} :
             Proceed(w, step) \/ \E api, status : Show(w, step, api, status)
    BY <1>5 DEF AskRancher, AskKeystone, ApplyKeystone
  <2> QED BY <2>2, <2>3, <2>4, <2>5
<1> QED BY <1>4, <1>5

\* A request that begins, refuses or ends, and one that builds, is no view.
LEMMA OtherViews ==
  ASSUME LInv, NEW w \in Workers,
         \/ StartBuild(w) \/ RefusePayload(w) \/ NextRequest(w) \/ CheckFree(w)
         \/ GitInit(w) \/ CloneBegins(w) \/ Configure(w) \/ Truncate(w)
         \/ Write(w) \/ WriteAway(w) \/ BuildFails(w)
  PROVE  \A v \in Workers : job'[v] = job[v] \/ job'[v].at \notin ViewSteps
<1>1. /\ job \in [Workers -> Job]
      /\ job[w].at \in BuildSteps => job[w] \in BuildJob
  BY JobKind DEF LInv, IInv
<1>2. ASSUME NEW new, job' = [job EXCEPT ![w] = new], new.at \notin ViewSteps
      PROVE  \A v \in Workers : job'[v] = job[v] \/ job'[v].at \notin ViewSteps
  BY <1>1, <1>2
<1>3. ASSUME NEW code, Answer(w, code)
      PROVE  \A v \in Workers : job'[v] = job[v] \/ job'[v].at \notin ViewSteps
  <2>1. Answered(code).at = "answered"
    BY DEF Answered
  <2> QED BY <1>2, <1>3, <2>1 DEF Answer, Answered, ViewSteps
<1>4. ASSUME NEW step \in {"init", "clone", "cloning", "configure", "write"},
             Proceed(w, step), job[w].at \in BuildSteps
      PROVE  \A v \in Workers : job'[v] = job[v] \/ job'[v].at \notin ViewSteps
  <2>1. PICK new : new = [job[w] EXCEPT !.at = step]
    OBVIOUS
  <2>2. new.at = step
    BY <1>1, <1>4, <2>1 DEF BuildJob
  <2>3. job' = [job EXCEPT ![w] = new]
    BY <1>1, <1>4, <2>1 DEF Proceed
  <2> QED BY <1>2, <2>2, <2>3 DEF ViewSteps
<1>5. CASE StartBuild(w)
  <2>1. PICK n, s, b : job' = [job EXCEPT ![w] =
                                [at |-> "stat", name |-> n, branch |-> b, source |-> s]]
    BY <1>5 DEF StartBuild
  <2>2. PICK new : new = [at |-> "stat", name |-> n, branch |-> b, source |-> s]
    OBVIOUS
  <2>3. new.at = "stat" /\ job' = [job EXCEPT ![w] = new]
    BY <2>1, <2>2
  <2> QED BY <1>2, <2>3 DEF ViewSteps
<1>6. CASE NextRequest(w)
  <2>1. Idle.at = "idle" /\ job' = [job EXCEPT ![w] = Idle]
    BY <1>6 DEF Idle, NextRequest
  <2> QED BY <1>2, <2>1 DEF ViewSteps
<1>7. CASE RefusePayload(w) \/ Write(w) \/ WriteAway(w) \/ BuildFails(w)
  BY <1>3, <1>7 DEF RefusePayload, Write, WriteAway, BuildFails, AnswerCreated, Fail
<1>8. CASE CheckFree(w) \/ GitInit(w) \/ CloneBegins(w) \/ Truncate(w)
  <2>1. job[w].at \in BuildSteps
    BY <1>8 DEF CheckFree, GitInit, CloneBegins, Truncate, At, BuildSteps
  <2>2. \/ \E code : Answer(w, code)
        \/ \E step \in {"init", "clone", "cloning", "configure", "write"} : Proceed(w, step)
    BY <1>8 DEF CheckFree, GitInit, CloneBegins, Truncate, AfterTruncate
  <2> QED BY <1>3, <1>4, <2>1, <2>2
<1>9. CASE Configure(w)
  <2>1. PICK new : new = [job[w] EXCEPT !.at = "truncate", !.branch = BranchRecorded(w)]
    OBVIOUS
  <2>2. job[w].at \in BuildSteps
    BY <1>9 DEF Configure, At, BuildSteps
  <2>3. new.at = "truncate"
    BY <1>1, <2>1, <2>2 DEF BuildJob
  <2>4. job' = [job EXCEPT ![w] = new]
    BY <1>1, <1>9, <2>1 DEF Configure
  <2> QED BY <1>2, <2>3, <2>4 DEF ViewSteps
<1> QED BY <1>5, <1>6, <1>7, <1>8, <1>9

\* Replies and marks are only added; a file that parses is in a reply.
LEMMA FilesTold ==
  ASSUME LInv, NEW w \in Workers,
         \/ StartBuild(w) \/ RefusePayload(w) \/ NextRequest(w) \/ CheckFree(w)
         \/ GitInit(w) \/ CloneBegins(w) \/ Configure(w) \/ Truncate(w)
         \/ Write(w) \/ WriteAway(w) \/ BuildFails(w) \/ CloneEnds(w)
  PROVE  FileTold' /\ OnlyMore
<1>1. /\ replies \in [Names -> SUBSET Metadata] /\ FileTold
      /\ meta \in [Names -> Metadata \cup {NoFile, Empty, Garbled}]
      /\ {NoFile, Empty, Garbled} \cap Metadata = {}
  BY RepositoryConstants DEF LInv, IInv, TypeOK, Metadata
<1>2. CASE \/ StartBuild(w) \/ RefusePayload(w) \/ NextRequest(w) \/ CheckFree(w)
           \/ GitInit(w) \/ CloneBegins(w) \/ Configure(w) \/ BuildFails(w)
  <2>1. UNCHANGED <<meta, replies>> /\ marred \subseteq marred'
    BY <1>2 DEF StartBuild, RefusePayload, NextRequest, CheckFree, GitInit, CloneBegins,
                Configure, BuildFails, files, Mar
  <2> QED BY <1>1, <2>1 DEF FileTold, OnlyMore
<1>3. CASE Truncate(w)
  <2>1. UNCHANGED <<replies, marred>> /\ meta' = [meta EXCEPT ![job[w].name] = Empty]
    BY <1>3 DEF Truncate, AfterTruncate
  <2> QED BY <1>1, <2>1 DEF FileTold, OnlyMore
<1>4. CASE CloneEnds(w)
  <2>1. /\ UNCHANGED <<replies, marred>>
        /\ UNCHANGED meta \/ meta' = [meta EXCEPT ![job[w].name] = NoFile]
    BY <1>4 DEF CloneEnds, Remove
  <2> QED BY <1>1, <2>1 DEF FileTold, OnlyMore
<1>5. CASE WriteAway(w)
  <2>1. /\ UNCHANGED <<meta, marred>>
        /\ replies' = [replies EXCEPT ![job[w].name] = @ \cup {Told(w)}]
    BY <1>5 DEF WriteAway, AnswerCreated, files
  <2> QED BY <1>1, <2>1 DEF FileTold, OnlyMore
<1>6. CASE Write(w)
  <2>1. PICK m, text : /\ m = Told(w) /\ text \in {m, Garbled}
                       /\ meta' = [meta EXCEPT ![job[w].name] = text]
                       /\ replies' = [replies EXCEPT ![job[w].name] = @ \cup {m}]
                       /\ UNCHANGED marred
    BY <1>6 DEF Write, AnswerCreated, Text
  <2> QED BY <1>1, <2>1 DEF FileTold, OnlyMore
<1> QED BY <1>2, <1>3, <1>4, <1>5, <1>6

\* A clone that fails sends the writers of its file nowhere, who are no views.
LEMMA CloneViews ==
  ASSUME LInv, NEW w \in Workers, CloneEnds(w)
  PROVE  \A v \in Workers : job'[v] = job[v] \/ job'[v].at \notin ViewSteps
<1> SUFFICES ASSUME NEW v \in Workers
             PROVE  job'[v] = job[v] \/ job'[v].at \notin ViewSteps
  OBVIOUS
<1>1. /\ job \in [Workers -> Job] /\ job[w] \in BuildJob
      /\ At(v, "write") => job[v] \in BuildJob
  BY JobKind DEF LInv, IInv, CloneEnds, At, BuildSteps
<1>2. CASE Proceed(w, "configure")
  <2>1. PICK new : new = [job[w] EXCEPT !.at = "configure"]
    OBVIOUS
  <2>2. new.at = "configure" /\ job' = [job EXCEPT ![w] = new]
    BY <1>1, <1>2, <2>1 DEF Proceed, BuildJob
  <2> QED BY <1>1, <2>2 DEF ViewSteps
<1>3. CASE job' = [u \in Workers |->
                     IF u = w THEN [at |-> "answered", code |-> 500]
                     ELSE IF At(u, "write") /\ job[u].name = job[w].name
                          THEN [job[u] EXCEPT !.at = "writeAway"]
                          ELSE job[u]]
  <2>1. CASE v = w
    <3>1. job'[v] = Answered(500)
      BY <1>3, <2>1 DEF Answered
    <3>2. Answered(500).at = "answered"
      BY DEF Answered
    <3> QED BY <3>1, <3>2 DEF ViewSteps
  <2>2. CASE v # w /\ At(v, "write") /\ job[v].name = job[w].name
    <3>1. PICK new : new = [job[v] EXCEPT !.at = "writeAway"]
      OBVIOUS
    <3>2. new.at = "writeAway" /\ job'[v] = new
      BY <1>1, <1>3, <2>2, <3>1 DEF BuildJob
    <3> QED BY <3>2 DEF ViewSteps
  <2>3. CASE v # w /\ ~(At(v, "write") /\ job[v].name = job[w].name)
    BY <1>3, <2>3
  <2> QED BY <2>1, <2>2, <2>3
<1> QED BY <1>2, <1>3 DEF CloneEnds

\* The restarted gateway has no requests.
LEMMA CrashViews ==
  ASSUME LInv, Crash
  PROVE  FileTold' /\ Views'
<1>1. UNCHANGED <<meta, replies>> /\ OnlyMore
  BY DEF Crash, files, OnlyMore
<1>2. \A w \in Workers : job'[w].at \notin ViewSteps
  BY DEF Crash, Idle, ViewSteps
<1> QED BY <1>1, <1>2, ViewsStay DEF LInv, FileTold

\* Every step keeps the invariant.
LEMMA LInvStep == LInv /\ [Next]_vars => LInv'
<1> SUFFICES ASSUME LInv, [Next]_vars PROVE FileTold' /\ Views'
  BY InvStep DEF LInv
<1>1. ASSUME NEW w \in Workers,
             \/ StartBuild(w) \/ RefusePayload(w) \/ NextRequest(w) \/ CheckFree(w)
             \/ GitInit(w) \/ CloneBegins(w) \/ Configure(w) \/ Truncate(w)
             \/ Write(w) \/ WriteAway(w) \/ BuildFails(w) \/ CloneEnds(w)
      PROVE  FileTold' /\ Views'
  BY <1>1, FilesTold, OtherViews, CloneViews, ViewsStay
<1>2. CASE UNCHANGED vars
  <2>1. OnlyMore /\ FileTold'
    BY <1>2 DEF vars, OnlyMore, LInv, FileTold
  <2> QED BY <1>2, <2>1, ViewsStay DEF vars
<1> QED BY <1>1, <1>2, StartListViews, ReadEntryViews, AskViews, CrashViews DEF Next, PromptStep

\* No repository and no view.
LEMMA LInvInit == Init => LInv
<1> SUFFICES ASSUME Init PROVE FileTold /\ Views
  BY InvInit DEF LInv
<1>1. FileTold
  BY RepositoryConstants DEF Init, FileTold, Metadata
<1>2. \A w \in Workers : job[w].at = "idle"
  BY DEF Init, Idle
<1> QED BY <1>1, <1>2 DEF Views, Current, ViewSteps

\* A listing has every repository that was answered before it began, as that
\* answer told it, and says of others what was told or what is made up for a
\* directory without the file, whoever builds, fails or writes meanwhile.
THEOREM ListingsAreCurrent == Spec => []ListingIsCurrent
<1>1. LInv => ListingIsCurrent
  BY DEF LInv, Views, Current, ListingIsCurrent, At, ViewSteps
<1> QED BY <1>1, LInvInit, LInvStep, PTL DEF Spec

=============================================================================
