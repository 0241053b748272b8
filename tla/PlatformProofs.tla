---------------------------- MODULE PlatformProofs ----------------------------
(***************************************************************************)
(* What TLAPS proves of internal/platform: of ServiceRun for any number of *)
(* replicas and either way the directory may be configured, and of         *)
(* Notifier for any number of messages, any bound on the attempts and any  *)
(* choice of platforms.                                                    *)
(***************************************************************************)
EXTENDS ServiceRun, Notifier, TLAPS

(* ServiceRun.                                                             *)

\* What a replica has behind it where it stands, when the directory is enforced.
EnrolledSoFar ==
  EnforceDirectory =>
    \A r \in Replicas :
      /\ at[r] \in {"findComponent", "addComponent"} => registered["repository"] # {}
      /\ at[r] \in {"findProcess", "addProcess", "findRole"} \cup Running => Enrolled
      /\ at[r] \in {"findRole"} \cup Running => audited[r]

IInv == TypeOK /\ EnrolledSoFar

\* No entry leaves the directory.
Grows == \A i \in Shared : registered[i] \subseteq registered'[i]

-----------------------------------------------------------------------------

\* A process that ends owes nothing.
LEMMA EndStep ==
  ASSUME IInv, NEW r \in Replicas, End(r), UNCHANGED <<registered, calm>>
  PROVE  IInv'
<1>1. TypeOK'
  BY DEF End, Proceed, IInv, TypeOK
<1>2. at'[r] = "down" /\ \A q \in Replicas \ {r} : at'[q] = at[q] /\ audited'[q] = audited[q]
  BY DEF End, Proceed, IInv, TypeOK
<1>3. "down" \notin {"findComponent", "addComponent"}
      /\ "down" \notin {"findProcess", "addProcess", "findRole"} \cup Running
      /\ "down" \notin {"findRole"} \cup Running
  BY DEF Running
<1>4. Enrolled' = Enrolled
  BY DEF Enrolled
<1> QED BY <1>1, <1>2, <1>3, <1>4 DEF IInv, EnrolledSoFar

\* What is registered stays registered.
LEMMA GrowsKeeps ==
  ASSUME Grows
  PROVE  /\ registered["repository"] # {} => registered'["repository"] # {}
         /\ Enrolled => Enrolled'
BY DEF Grows, Enrolled, Shared

\* A replica goes on to another step, with all behind it that this step needs.
LEMMA MoveStep ==
  ASSUME IInv, NEW r \in Replicas, NEW step \in {"down"} \cup Enrolling \cup Running,
         Proceed(r, step), TypeOK', Grows,
         UNCHANGED audited \/ audited' = [audited EXCEPT ![r] = TRUE],
         EnforceDirectory =>
           /\ step \in {"findComponent", "addComponent"} => registered'["repository"] # {}
           /\ step \in {"findProcess", "addProcess", "findRole"} \cup Running => Enrolled'
           /\ step \in {"findRole"} \cup Running => audited'[r]
  PROVE  IInv'
<1>1. at'[r] = step /\ \A q \in Replicas \ {r} : at'[q] = at[q] /\ audited'[q] = audited[q]
  BY DEF IInv, TypeOK, Proceed
<1>2. EnrolledSoFar'
  BY <1>1, GrowsKeeps DEF IInv, EnrolledSoFar
<1> QED BY <1>2 DEF IInv

\* Nothing that enrolling depends on changes.
LEMMA OtherStep ==
  ASSUME IInv, TypeOK', UNCHANGED <<at, audited>>, Grows
  PROVE  IInv'
<1>1. EnrolledSoFar'
  BY GrowsKeeps DEF IInv, EnrolledSoFar
<1> QED BY <1>1 DEF IInv

\* A search that finds the identity, or does not and is followed by an add.
LEMMA FindMoves ==
  ASSUME IInv, NEW r \in Replicas, NEW entries, NEW add \in Enrolling, NEW next \in Enrolling,
         Find(r, entries, add, next), ~FailToStart(r)
  PROVE  /\ IF entries = {} THEN Proceed(r, add) ELSE Proceed(r, next)
         /\ UNCHANGED <<server, asked, audited, registered, calm>> /\ TypeOK' /\ Grows
<1>1. /\ IF entries = {} THEN Proceed(r, add) ELSE Proceed(r, next)
      /\ UNCHANGED <<server, asked, audited, registered, calm>>
  BY DEF Find
<1>2. PICK step \in Enrolling : Proceed(r, step)
  BY <1>1
<1>3. TypeOK'
  BY <1>1, <1>2 DEF IInv, TypeOK, Proceed, server
<1> QED BY <1>1, <1>3 DEF Grows

\* A search moves on only past an identity it has found.
LEMMA FindStep ==
  ASSUME IInv, NEW r \in Replicas, FindShared(r) \/ FindProcess(r)
  PROVE  IInv'
<1>1. CASE FailToStart(r)
  BY <1>1, EndStep DEF FailToStart, FindShared, FindProcess, Find
<1>2. CASE ~FailToStart(r)
  <2> USE DEF Enrolling
  <2>1. CASE In(r, "findRepository") /\ FindShared(r)
    <3>1. Find(r, registered["repository"], "addRepository", "findComponent")
      BY <2>1 DEF FindShared, In
    <3>2. PICK step \in {"addRepository", "findComponent"} :
            /\ Proceed(r, step) /\ (step = "findComponent" => registered["repository"] # {})
            /\ UNCHANGED <<audited, registered>> /\ TypeOK' /\ Grows
      BY <1>2, <3>1, FindMoves
    <3> QED BY <3>2, MoveStep DEF Running
  <2>2. CASE In(r, "findComponent") /\ FindShared(r)
    <3>1. Find(r, registered["component"], "addComponent", "findProcess")
      BY <2>2 DEF FindShared, In
    <3>2. PICK step \in {"addComponent", "findProcess"} :
            /\ Proceed(r, step) /\ (step = "findProcess" => registered["component"] # {})
            /\ UNCHANGED <<audited, registered>> /\ TypeOK' /\ Grows
      BY <1>2, <3>1, FindMoves
    <3>3. EnforceDirectory => registered["repository"] # {}
      BY <2>2 DEF In, IInv, EnrolledSoFar
    <3>4. EnforceDirectory /\ step = "findProcess" => Enrolled'
      BY <3>2, <3>3 DEF Enrolled, Shared
    <3> QED BY <3>2, <3>3, <3>4, MoveStep DEF Running
  <2>3. CASE FindProcess(r)
    <3>1. Proceed(r, "addProcess") /\ TypeOK' /\ Grows /\ UNCHANGED <<audited, registered>>
      BY <1>2, <2>3, FindMoves DEF FindProcess
    <3>2. EnforceDirectory => Enrolled'
      BY <2>3, <3>1, GrowsKeeps DEF FindProcess, In, IInv, EnrolledSoFar
    <3> QED BY <3>1, <3>2, MoveStep DEF Running
  <2> QED BY <2>1, <2>2, <2>3 DEF FindShared
<1> QED BY <1>1, <1>2

\* An add moves on with the identity in the directory.
LEMMA AddStep ==
  ASSUME IInv, NEW r \in Replicas, AddShared(r)
  PROVE  IInv'
<1> USE DEF Enrolling, Shared
<1>1. ASSUME NEW i \in Shared, NEW next \in {"findComponent", "findProcess"}, Add(r, i, next),
             next = "findProcess" /\ EnforceDirectory => registered["repository"] # {},
             next = "findProcess" => i = "component",
             next = "findComponent" => i = "repository"
      PROVE  IInv'
  <2>1. CASE "made" \in registered[i]
    BY <1>1, <2>1, EndStep DEF Add, AlreadyExists, FailToStart
  <2>2. CASE "made" \notin registered[i]
    <3>1. /\ Proceed(r, next) /\ UNCHANGED <<server, asked, audited, calm>>
          /\ registered' = [registered EXCEPT ![i] = @ \cup {"made"}]
          /\ registered \in [Shared -> SUBSET Entries]
      BY <1>1, <2>2 DEF Add, IInv, TypeOK
    <3>2. TypeOK'
      BY <3>1 DEF IInv, TypeOK, Proceed, server, Entries
    <3>3. Grows /\ registered'[i] # {}
      BY <3>1 DEF Grows
    <3>4. EnforceDirectory /\ next = "findProcess" => Enrolled'
      BY <1>1, <3>3 DEF Enrolled, Grows
    <3> QED BY <1>1, <3>1, <3>2, <3>3, <3>4, MoveStep DEF Running
  <2> QED BY <2>1, <2>2
<1>2. CASE In(r, "addRepository") /\ Add(r, "repository", "findComponent")
  BY <1>1, <1>2
<1>3. CASE In(r, "addComponent") /\ Add(r, "component", "findProcess")
  <2>1. EnforceDirectory => registered["repository"] # {}
    BY <1>3 DEF In, IInv, EnrolledSoFar
  <2> QED BY <1>1, <1>3, <2>1
<1> QED BY <1>2, <1>3 DEF AddShared

\* Up to the end of enrolling, and into Run.
LEMMA StartStep ==
  ASSUME IInv, NEW r \in Replicas, Start(r)
  PROVE  IInv'
<1>1. PICK step \in {"findRepository", "listen"} :
        Proceed(r, step) /\ (EnforceDirectory => step = "findRepository")
  BY DEF Start
<1>2. TypeOK' /\ Grows
  BY <1>1 DEF Start, Proceed, IInv, TypeOK, server, Enrolling, Running, Grows
<1> QED BY <1>1, <1>2, MoveStep DEF Start, Enrolling, Running

\* The process identity is recorded before the role is looked up.
LEMMA AddProcessStep ==
  ASSUME IInv, NEW r \in Replicas, AddProcess(r)
  PROVE  IInv'
<1>1. Grows
  BY DEF AddProcess, Grows
<1>2. EnforceDirectory => Enrolled'
  BY <1>1, GrowsKeeps DEF AddProcess, In, IInv, EnrolledSoFar
<1>3. TypeOK' /\ audited' = [audited EXCEPT ![r] = TRUE] /\ audited'[r]
  BY DEF AddProcess, RecordProcess, Proceed, IInv, TypeOK, server, Enrolling
<1> QED BY <1>1, <1>2, <1>3, MoveStep DEF AddProcess, Enrolling, Running

\* The role is the last thing checked before the port is bound.
LEMMA FindRoleStep ==
  ASSUME IInv, NEW r \in Replicas, FindRole(r)
  PROVE  IInv'
<1>1. EnforceDirectory => Enrolled /\ audited[r]
  BY DEF FindRole, In, IInv, EnrolledSoFar
<1>2. CASE NotAuthorised(r)
  BY <1>2, EndStep DEF FindRole, NotAuthorised, FailToStart
<1>3. CASE Proceed(r, "listen") /\ UNCHANGED <<server, asked, audited>>
  <2>1. TypeOK' /\ Grows
    BY <1>3 DEF FindRole, Proceed, IInv, TypeOK, server, Running, Grows
  <2> QED BY <1>1, <1>3, <2>1, GrowsKeeps, MoveStep DEF FindRole, Running
<1> QED BY <1>2, <1>3 DEF FindRole

\* From binding the port to the deadline.
LEMMA RunStep ==
  ASSUME IInv, NEW r \in Replicas, Listen(r) \/ Select(r) \/ GracefulStop(r)
  PROVE  IInv'
<1>1. EnforceDirectory => Enrolled /\ audited[r]
  BY DEF Listen, Select, GracefulStop, In, IInv, EnrolledSoFar, Running
<1>2. TypeOK'
  <2> USE DEF IInv, TypeOK, Proceed, server, Running
  <2>1. CASE Listen(r)
    BY <2>1 DEF Listen
  <2>2. CASE Select(r)
    BY <2>2 DEF Select
  <2>3. CASE GracefulStop(r)
    BY <2>3 DEF GracefulStop
  <2> QED BY <2>1, <2>2, <2>3
<1>3. PICK step \in Running : Proceed(r, step)
  BY DEF Listen, Select, GracefulStop, Running
<1>4. Grows /\ UNCHANGED audited
  BY DEF Listen, Select, GracefulStop, Grows
<1> QED BY <1>1, <1>2, <1>3, <1>4, GrowsKeeps, MoveStep DEF Running

\* Serving, and what others do to a process that serves.
LEMMA ServingStep ==
  ASSUME IInv, NEW r \in Replicas,
         \/ ServeHTTP(r) \/ ServeGRPC(r) \/ ServerFails(r) \/ TakeRequest(r)
         \/ FinishRequest(r) \/ TakeRPC(r) \/ FinishRPC(r) \/ Ask(r)
  PROVE  IInv'
<1> USE DEF ServeHTTP, ServeGRPC, ServerFails, TakeRequest, FinishRequest, TakeRPC, FinishRPC, Ask
<1>1. TypeOK'
  BY DEF IInv, TypeOK, server
<1>2. UNCHANGED <<at, audited>> /\ Grows
  BY DEF Grows
<1> QED BY <1>1, <1>2, OtherStep

\* Whatever goes wrong ends the process.
LEMMA FailingStep ==
  ASSUME IInv, NEW r \in Replicas,
         StartFails(r) \/ DirectoryFails(r) \/ ListenFails(r) \/ Kill(r) \/ Shutdown(r)
  PROVE  IInv'
<1>1. End(r) /\ UNCHANGED <<registered, calm>>
  BY DEF StartFails, DirectoryFails, ListenFails, Kill, Shutdown, FailToStart
<1> QED BY <1>1, EndStep

\* Every step keeps the invariant.
LEMMA InvStep == IInv /\ [Next]_vars => IInv'
<1> SUFFICES ASSUME IInv, [Next]_vars PROVE IInv'
  OBVIOUS
<1>1. ASSUME NEW r \in Replicas, ProcessStep(r) PROVE IInv'
  BY <1>1, FindStep, AddStep, AddProcessStep, FindRoleStep, RunStep, ServingStep, FailingStep
     DEF ProcessStep
<1>2. ASSUME NEW r \in Replicas,
             \/ Start(r) \/ StartFails(r) \/ DirectoryFails(r) \/ ListenFails(r)
             \/ ServerFails(r) \/ TakeRequest(r) \/ FinishRequest(r) \/ TakeRPC(r)
             \/ FinishRPC(r) \/ Ask(r) \/ Kill(r)
      PROVE  IInv'
  BY <1>2, StartStep, FailingStep, ServingStep
<1>3. CASE Register \/ CalmDown \/ UNCHANGED vars
  <2>1. UNCHANGED <<at, http, grpc, requests, rpcs, asked, audited>> /\ calm' \in BOOLEAN
    BY <1>3 DEF Register, CalmDown, vars, IInv, TypeOK, server
  <2>2. registered' \in [Shared -> SUBSET Entries] /\ Grows
    BY <1>3 DEF Register, CalmDown, vars, IInv, TypeOK, Grows
  <2>3. TypeOK'
    BY <2>1, <2>2 DEF IInv, TypeOK
  <2> QED BY <2>1, <2>2, <2>3, OtherStep
<1> QED BY <1>1, <1>2, <1>3 DEF Next

\* Nobody has started.
LEMMA InvInit == Init => IInv
<1> SUFFICES ASSUME Init PROVE IInv
  OBVIOUS
<1>1. TypeOK
  BY DEF Init, TypeOK
<1>2. \A r \in Replicas : at[r] = "down"
  BY DEF Init
<1> QED BY <1>1, <1>2 DEF IInv, EnrolledSoFar, Running

\* Every reachable state of the replicas and the directory is well typed.
THEOREM TypeCorrect == Spec => []TypeOK
<1>1. IInv => TypeOK
  BY DEF IInv
<1> QED BY <1>1, InvInit, InvStep, PTL DEF Spec

\* No replica takes requests before the service and the process are in the
\* directory, when it is enforced, however many replicas enrol at once.
THEOREM ServedWhenEnrolled == Spec => []ServingIsEnrolled
<1>1. IInv => ServingIsEnrolled
  BY DEF IInv, EnrolledSoFar, ServingIsEnrolled
<1> QED BY <1>1, InvInit, InvStep, PTL DEF Spec


-----------------------------------------------------------------------------
(* Notifier.                                                               *)

InDoubt(m) ==
  \E answer \in send[m].heard : Doubtful(answer) \/ answer = "unreadable"

\* A loop that has not ended has an attempt left, and no result.
AttemptLeft ==
  \A m \in Messages : ~Sending(m, "ended") =>
    /\ send[m].outcome = "none"
    /\ send[m].at # "gone" => send[m].attempt < maxRetries

\* Every post answers an attempt.
PostsAreAttempts == \A m \in Messages : send[m].posts <= send[m].attempt

\* A message that was posted and does not count as sent is in doubt.
UnknownPost ==
  \A m \in Messages : send[m].posts > 0 /\ send[m].outcome # "sent" => InDoubt(m)

NotifierInv ==
  /\ NotifierTypeOK
  /\ AttemptLeft
  /\ PostsAreAttempts
  /\ UnknownPost
  /\ LostForCause
  /\ PostedTwiceInDoubt

-----------------------------------------------------------------------------

\* No message has been sent.
LEMMA NotifierInvInit == NotifierInit => NotifierInv
<1> SUFFICES ASSUME NotifierInit PROVE NotifierInv
  OBVIOUS
<1>1. Unsent \in Loops
  BY NotifierAssumption DEF Unsent, Loops, Platforms
<1>2. NotifierTypeOK
  BY <1>1 DEF NotifierInit, NotifierTypeOK, Works
<1>3. Unsent.at = "none" /\ Unsent.attempt = 0 /\ Unsent.posts = 0 /\ Unsent.outcome = "none"
  BY DEF Unsent
<1>4. \A m \in Messages : send[m].at = "none" /\ send[m].attempt = 0 /\ send[m].posts = 0
                          /\ send[m].outcome = "none"
  BY <1>3 DEF NotifierInit
<1>5. AttemptLeft /\ PostsAreAttempts
  BY <1>4, NotifierAssumption DEF AttemptLeft, PostsAreAttempts, Sending
<1>6. UnknownPost /\ PostedTwiceInDoubt
  BY <1>4 DEF UnknownPost, PostedTwiceInDoubt
<1>7. LostForCause
  <2>1. \A m \in Messages : ~Sending(m, "ended")
    BY <1>4 DEF Sending
  <2> QED BY <2>1 DEF LostForCause
<1> QED BY <1>2, <1>5, <1>6, <1>7 DEF NotifierInv

\* A context that has ended stays so, whatever the work does next.
LEMMA EndIsFinal ==
  ASSUME NotifierTypeOK, [NotifierNext]_notifierVars, NEW m \in Messages, ~Live(m)
  PROVE  ~Live(m)'
<1> USE DEF NotifierTypeOK, Works, Live, Working
<1>1. ASSUME NEW n \in Messages,
             Begin(n) \/ TurnAway(n) \/ Acknowledge(n) \/ ProcessEvent(n)
             \/ NotifyAndWait(n) \/ StopWaiting(n) \/ Finish(n)
      PROVE  ~Live(m)'
  BY <1>1 DEF Begin, TurnAway, Acknowledge, ProcessEvent, NotifyAndWait, StopWaiting, Finish
<1>2. ASSUME NEW n \in Messages, HandlerReturns(n) \/ ContextEnds(n) PROVE ~Live(m)'
  BY <1>2 DEF HandlerReturns, ContextEnds
<1>3. ASSUME NEW n \in Messages, NotifyAsync(n) \/ SendStep(n) PROVE ~Live(m)'
  BY <1>3 DEF NotifyAsync, SendStep, Load, StartAttempt, Attempt, PauseEnds
<1>4. CASE SetWebhookURL
  BY <1>4 DEF SetWebhookURL
<1>5. CASE Exit
  BY <1>5 DEF Exit
<1>6. CASE UNCHANGED notifierVars
  BY <1>6 DEF notifierVars
<1> QED BY <1>1, <1>2, <1>3, <1>4, <1>5, <1>6 DEF NotifierNext

\* The steps of the work, which touch no loop but to start it.
LEMMA WorkStep ==
  ASSUME NotifierInv, NEW m \in Messages,
         Begin(m) \/ TurnAway(m) \/ Acknowledge(m) \/ ProcessEvent(m)
         \/ StopWaiting(m) \/ Finish(m) \/ HandlerReturns(m) \/ ContextEnds(m)
  PROVE  NotifierInv'
<1>1. NotifierTypeOK'
  <2>1. /\ work \in [Messages -> Works] /\ open \in [Messages -> BOOLEAN]
        /\ send \in [Messages -> Loops] /\ hooked \in BOOLEAN
    BY DEF NotifierInv, NotifierTypeOK
  <2>2. work' \in [Messages -> Works]
    BY <2>1 DEF Works, Begin, TurnAway, Acknowledge, ProcessEvent,
                StopWaiting, Finish, HandlerReturns, ContextEnds
  <2>3. open' \in [Messages -> BOOLEAN]
    BY <2>1 DEF Begin, TurnAway, Acknowledge, ProcessEvent,
                StopWaiting, Finish, HandlerReturns, ContextEnds
  <2>4. send' = send /\ hooked' = hooked
    BY DEF Begin, TurnAway, Acknowledge, ProcessEvent,
           StopWaiting, Finish, HandlerReturns, ContextEnds
  <2> QED BY <2>1, <2>2, <2>3, <2>4 DEF NotifierTypeOK
<1>2. send' = send
  BY DEF Begin, TurnAway, Acknowledge, ProcessEvent, StopWaiting, Finish,
         HandlerReturns, ContextEnds
<1>3. LostForCause'
  <2>1. [NotifierNext]_notifierVars
    BY DEF NotifierNext
  <2> QED BY <1>2, <2>1, EndIsFinal DEF NotifierInv, LostForCause, Sending
<1> QED BY <1>1, <1>2, <1>3 DEF NotifierInv, AttemptLeft, PostsAreAttempts, UnknownPost,
                                InDoubt, Sending, PostedTwiceInDoubt

\* A message handed to a notifier.
LEMMA QueueStep ==
  ASSUME NotifierInv, NEW m \in Messages, NotifyAsync(m) \/ NotifyAndWait(m)
  PROVE  NotifierInv'
<1>1. PICK platform \in Platforms : Queue(m, platform)
  BY DEF NotifyAsync, NotifyAndWait
<1>2. Sending(m, "none")
  BY DEF NotifyAsync, NotifyAndWait
<1>3. NotifierTypeOK'
  <2>1. /\ work \in [Messages -> Works] /\ open \in [Messages -> BOOLEAN]
        /\ send \in [Messages -> Loops] /\ hooked \in BOOLEAN
    BY DEF NotifierInv, NotifierTypeOK
  <2>2. work' \in [Messages -> Works]
    BY <2>1 DEF Works, NotifyAsync, NotifyAndWait
  <2>3. send' \in [Messages -> Loops]
    <3>1. [send[m] EXCEPT !.at = "starting", !.to = platform] \in Loops
      BY <2>1 DEF Loops
    <3>2. send' = [send EXCEPT ![m] = [send[m] EXCEPT !.at = "starting", !.to = platform]]
      BY <1>1, <2>1 DEF Queue
    <3> QED BY <2>1, <3>1, <3>2
  <2>4. open' = open /\ hooked' = hooked
    BY DEF NotifyAsync, NotifyAndWait
  <2> QED BY <2>1, <2>2, <2>3, <2>4 DEF NotifierTypeOK
<1>4. LostForCause'
  <2>1. [NotifierNext]_notifierVars
    BY DEF NotifierNext
  <2>2. \A n \in Messages : Sending(n, "ended")' => send'[n] = send[n] /\ Sending(n, "ended")
    BY <1>1, <1>2 DEF NotifierInv, NotifierTypeOK, Loops, Queue, Sending
  <2> QED BY <2>1, <2>2, EndIsFinal DEF NotifierInv, LostForCause
<1> QED BY <1>1, <1>2, <1>3, <1>4
        DEF NotifierInv, NotifierTypeOK, Loops, Queue, AttemptLeft, PostsAreAttempts, UnknownPost,
            InDoubt, Sending, PostedTwiceInDoubt

\* An attempt: accepted, to be repeated, or the last to fail.
LEMMA AttemptStep ==
  ASSUME NotifierInv, NEW m \in Messages, Attempt(m)
  PROVE  NotifierInv'
<1>1. PICK answer \in Answers(send[m].to), posts \in {0, 1} :
           /\ posts = 1 => Posted(answer) \/ Doubtful(answer)
           /\ posts = 0 => ~Posted(answer)
           /\ LET loop == Tried(m, answer, posts) IN
              Become(m, IF answer \in Accepted(send[m].to)
                        THEN [loop EXCEPT !.at = "ended", !.outcome = "sent"]
                        ELSE AfterFailure(m, loop))
  BY DEF Attempt
<1>2. /\ send[m] \in Loops /\ send[m].at = "posting" /\ send[m].outcome = "none"
      /\ send[m].attempt < maxRetries /\ send[m].posts <= send[m].attempt
      /\ maxRetries \in Nat
  BY NotifierAssumption DEF NotifierInv, NotifierTypeOK, AttemptLeft, PostsAreAttempts, Attempt, Sending
<1>3. /\ send[m].attempt \in 0..maxRetries /\ send[m].posts \in 0..maxRetries
      /\ send[m].to \in Platforms
      /\ send[m].heard \in SUBSET (Answers("slack") \cup Answers("discord"))
      /\ send[m].addressed \in BOOLEAN
  BY <1>2 DEF Loops
<1>4. \A n \in Messages \ {m} : send'[n] = send[n]
  BY <1>1 DEF Become, NotifierInv, NotifierTypeOK
<1>h. /\ send'[m].attempt = send[m].attempt + 1
      /\ send'[m].posts = send[m].posts + posts
      /\ send'[m].heard = send[m].heard \cup {answer}
      /\ IF answer \in Accepted(send[m].to)
         THEN send'[m].at = "ended" /\ send'[m].outcome = "sent"
         ELSE IF send[m].attempt + 1 < maxRetries
         THEN send'[m].at = "pausing" /\ send'[m].outcome = "none"
         ELSE send'[m].at = "ended" /\ send'[m].outcome = "failed"
      /\ send'[m] \in Loops
  <2> DEFINE loop == Tried(m, answer, posts)
  <2>1. /\ loop.attempt = send[m].attempt + 1 /\ loop.posts = send[m].posts + posts
        /\ loop.heard = send[m].heard \cup {answer}
    BY <1>2 DEF Tried, Loops
  <2>2. loop.outcome = "none" /\ loop \in Loops
    <3>1. answer \in Answers("slack") \cup Answers("discord")
      BY <1>3 DEF Platforms
    <3>2. send[m].attempt + 1 \in 0..maxRetries /\ send[m].posts + posts \in 0..maxRetries
      BY <1>2, <1>3
    <3> QED BY <1>2, <1>3, <3>1, <3>2 DEF Tried, Loops
  <2>3. send'[m] = IF answer \in Accepted(send[m].to)
                   THEN [loop EXCEPT !.at = "ended", !.outcome = "sent"]
                   ELSE AfterFailure(m, loop)
    BY <1>1 DEF Become, NotifierInv, NotifierTypeOK
  <2> HIDE DEF loop
  <2>4. CASE answer \in Accepted(send[m].to)
    BY <2>1, <2>2, <2>3, <2>4 DEF Loops
  <2>5. CASE answer \notin Accepted(send[m].to) /\ loop.attempt < maxRetries
    <3>1. send'[m] = [loop EXCEPT !.at = "pausing"]
      BY <2>3, <2>5 DEF AfterFailure
    <3> QED BY <2>1, <2>2, <2>5, <3>1 DEF Loops
  <2>6. CASE answer \notin Accepted(send[m].to) /\ ~(loop.attempt < maxRetries)
    <3>1. send'[m] = [loop EXCEPT !.at = "ended", !.outcome = "failed"]
      BY <2>3, <2>6 DEF AfterFailure
    <3> QED BY <2>1, <2>2, <2>6, <3>1 DEF Loops
  <2> QED BY <2>4, <2>5, <2>6
<1>5. work' = work /\ open' = open /\ hooked' = hooked
  BY DEF Attempt
<1>7. NotifierTypeOK'
  <2>1. send' \in [Messages -> Loops]
    <3> DEFINE new == IF answer \in Accepted(send[m].to)
                      THEN [Tried(m, answer, posts) EXCEPT !.at = "ended", !.outcome = "sent"]
                      ELSE AfterFailure(m, Tried(m, answer, posts))
    <3>1. send \in [Messages -> Loops] /\ send' = [send EXCEPT ![m] = new]
      BY <1>1 DEF Become, NotifierInv, NotifierTypeOK
    <3> HIDE DEF new
    <3>2. send'[m] = new
      BY <3>1
    <3>4. send'[m] \in Loops
      BY <1>h
    <3>3. new \in Loops
      BY <3>4, <3>2
    <3> QED BY <3>1, <3>3
  <2> QED BY <1>5, <2>1 DEF NotifierInv, NotifierTypeOK
<1>8. AttemptLeft' /\ PostsAreAttempts'
  BY <1>1, <1>h, <1>2, <1>3, <1>4 DEF NotifierInv, AttemptLeft, PostsAreAttempts, Sending
<1>9. InDoubt(m) => InDoubt(m)'
  BY <1>1, <1>h DEF InDoubt
<1>10. posts = 1 /\ answer \notin Accepted(send[m].to) => InDoubt(m)'
  <2> SUFFICES ASSUME posts = 1, answer \notin Accepted(send[m].to)
               PROVE  Doubtful(answer) \/ answer = "unreadable"
    BY <1>1, <1>h DEF InDoubt
  <2> QED BY <1>1, <1>h, <1>3 DEF Platforms, Answers, Accepted, Posted, Doubtful
<1>11. UnknownPost'
  BY <1>1, <1>h, <1>2, <1>3, <1>4, <1>9, <1>10 DEF NotifierInv, UnknownPost, InDoubt
<1>12. PostedTwiceInDoubt'
  <2>1. send'[m].posts > 1 => InDoubt(m)'
    BY <1>1, <1>h, <1>2, <1>3, <1>9 DEF NotifierInv, UnknownPost
  <2> QED BY <1>4, <2>1 DEF NotifierInv, PostedTwiceInDoubt, InDoubt
<1>13. LostForCause'
  <2>1. answer \in Accepted(send[m].to) => posts = 1 \/ answer = "refused silently"
    BY <1>1, <1>h, <1>3 DEF Platforms, Accepted, Posted
  <2>2. send'[m].outcome = "failed" => send'[m].attempt = maxRetries
    BY <1>1, <1>h, <1>2, <1>3
  <2>3. send'[m].outcome = "sent" =>
            send'[m].posts > 0 \/ "refused silently" \in send'[m].heard
    <3> SUFFICES ASSUME send'[m].outcome = "sent"
                 PROVE  send'[m].posts > 0 \/ "refused silently" \in send'[m].heard
      OBVIOUS
    <3>1. answer \in Accepted(send[m].to)
      BY <1>h
    <3>2. CASE posts = 1
      <4>1. send[m].posts \in Nat /\ send'[m].posts = send[m].posts + 1
        BY <1>h, <1>2, <1>3, <3>2
      <4>2. \A p \in Nat : p + 1 > 0
        OBVIOUS
      <4>3. send'[m].posts > 0
        BY <4>1, <4>2
      <4> QED BY <4>3
    <3>3. CASE answer = "refused silently"
      BY <1>h, <3>3
    <3> QED BY <2>1, <3>1, <3>2, <3>3
  <2>4. send'[m].outcome # "cancelled"
    BY <1>1, <1>h
  <2> QED BY <1>4, <1>5, <2>2, <2>3, <2>4 DEF NotifierInv, LostForCause, Sending, Live, Working
<1> QED BY <1>7, <1>8, <1>11, <1>12, <1>13 DEF NotifierInv

\* The other steps of a loop.
LEMMA LoopStep ==
  ASSUME NotifierInv, NEW m \in Messages, Load(m) \/ StartAttempt(m) \/ PauseEnds(m)
  PROVE  NotifierInv'
<1>1. work' = work /\ open' = open /\ hooked' = hooked /\ hooked \in BOOLEAN
  BY DEF Load, StartAttempt, PauseEnds, NotifierInv, NotifierTypeOK
<1>2. send[m] \in Loops /\ send \in [Messages -> Loops]
  BY DEF NotifierInv, NotifierTypeOK
<1>3. \/ \E a \in BOOLEAN : send' = [send EXCEPT ![m] = [send[m] EXCEPT !.at = "ready",
                                                                       !.addressed = a]]
      \/ \E step \in {"ready", "posting"} : send' = [send EXCEPT ![m] = [send[m] EXCEPT !.at = step]]
      \/ ~Live(m) /\ send' = [send EXCEPT ![m] = EndLoop(m, "cancelled")]
  <2>1. CASE Load(m)
    <3>1. (send[m].to = "discord" => hooked) \in BOOLEAN
      BY <1>1
    <3> QED BY <2>1, <3>1 DEF Load, Become
  <2>2. CASE StartAttempt(m)
    BY <2>2 DEF StartAttempt, Become
  <2>3. CASE PauseEnds(m)
    BY <2>3 DEF PauseEnds, Become
  <2> QED BY <2>1, <2>2, <2>3
<1>4. ~Sending(m, "ended") /\ ~Sending(m, "gone")
  BY DEF Load, StartAttempt, PauseEnds, Sending
<1>5. \A n \in Messages \ {m} : send'[n] = send[n]
  BY <1>2, <1>3
<1>6. /\ send'[m] \in Loops
      /\ send'[m].attempt = send[m].attempt /\ send'[m].posts = send[m].posts
      /\ send'[m].heard = send[m].heard
      /\ \/ send'[m].at \in {"ready", "posting"} /\ send'[m].outcome = send[m].outcome
         \/ send'[m].at = "ended" /\ send'[m].outcome = "cancelled" /\ ~Live(m)
  <2>1. ASSUME NEW a \in BOOLEAN,
               send' = [send EXCEPT ![m] = [send[m] EXCEPT !.at = "ready", !.addressed = a]]
        PROVE  <1>6
    BY <1>2, <2>1 DEF Loops
  <2>2. ASSUME NEW step \in {"ready", "posting"},
               send' = [send EXCEPT ![m] = [send[m] EXCEPT !.at = step]]
        PROVE  <1>6
    BY <1>2, <2>2 DEF Loops
  <2>3. ASSUME ~Live(m), send' = [send EXCEPT ![m] = EndLoop(m, "cancelled")]
        PROVE  <1>6
    BY <1>2, <2>3 DEF Loops, EndLoop
  <2> QED BY <1>3, <2>1, <2>2, <2>3
<1>7. NotifierTypeOK'
  <2>1. send' \in [Messages -> Loops]
    BY <1>2, <1>3, <1>6, <1>5 
  <2> QED BY <1>1, <2>1 DEF NotifierInv, NotifierTypeOK
<1>8. AttemptLeft' /\ PostsAreAttempts'
  BY <1>4, <1>5, <1>6 DEF NotifierInv, AttemptLeft, PostsAreAttempts, Sending
<1>9. UnknownPost' /\ PostedTwiceInDoubt'
  BY <1>4, <1>5, <1>6 DEF NotifierInv, AttemptLeft, UnknownPost, PostedTwiceInDoubt, InDoubt, Sending
<1>10. LostForCause'
  BY <1>1, <1>5, <1>6 DEF NotifierInv, LostForCause, Sending, Live, Working
<1> QED BY <1>7, <1>8, <1>9, <1>10 DEF NotifierInv

\* The exit of the process ends no loop: what had not ended is gone.
LEMMA ExitStep == NotifierInv /\ Exit => NotifierInv'
<1> SUFFICES ASSUME NotifierInv, Exit PROVE NotifierInv'
  OBVIOUS
<1>1. \A m \in Messages : send[m] \in Loops
  BY DEF NotifierInv, NotifierTypeOK
<1>2. \A m \in Messages : /\ Sending(m, "ended") => send'[m] = send[m]
                          /\ ~Sending(m, "ended") => send'[m] = [send[m] EXCEPT !.at = "gone"]
  BY DEF Exit
<1>3. \A m \in Messages :
        /\ send'[m] \in Loops /\ send'[m].attempt = send[m].attempt
        /\ send'[m].posts = send[m].posts /\ send'[m].heard = send[m].heard
        /\ send'[m].outcome = send[m].outcome
        /\ Sending(m, "ended")' <=> Sending(m, "ended")
        /\ ~Sending(m, "ended") => send'[m].at = "gone"
  <2> SUFFICES ASSUME NEW m \in Messages
               PROVE  /\ send'[m] \in Loops /\ send'[m].attempt = send[m].attempt
                      /\ send'[m].posts = send[m].posts /\ send'[m].heard = send[m].heard
                      /\ send'[m].outcome = send[m].outcome
                      /\ Sending(m, "ended")' <=> Sending(m, "ended")
                      /\ ~Sending(m, "ended") => send'[m].at = "gone"
    OBVIOUS
  <2>1. CASE Sending(m, "ended")
    BY <1>1, <1>2, <2>1 DEF Sending
  <2>2. CASE ~Sending(m, "ended")
    <3>1. send'[m] = [send[m] EXCEPT !.at = "gone"] /\ send[m] \in Loops
      BY <1>1, <1>2, <2>2
    <3>2. send'[m] \in Loops
      BY <3>1 DEF Loops
    <3> QED BY <2>2, <3>1, <3>2 DEF Sending, Loops
  <2> QED BY <2>1, <2>2
<1>4. NotifierTypeOK'
  <2>1. send' \in [Messages -> Loops]
    BY <1>3 DEF Exit
  <2>2. work' \in [Messages -> Works]
    BY DEF Exit, NotifierInv, NotifierTypeOK, Works
  <2> QED BY <2>1, <2>2 DEF Exit, NotifierInv, NotifierTypeOK
<1>5. \A m \in Messages : ~Live(m)'
  BY DEF Exit, Live
<1> QED BY <1>3, <1>4, <1>5 DEF NotifierInv, AttemptLeft, PostsAreAttempts, UnknownPost,
                                 InDoubt, LostForCause, PostedTwiceInDoubt

\* Every step keeps the invariant.
LEMMA NotifierInvStep == NotifierInv /\ [NotifierNext]_notifierVars => NotifierInv'
<1> SUFFICES ASSUME NotifierInv, [NotifierNext]_notifierVars PROVE NotifierInv'
  OBVIOUS
<1>1. CASE SetWebhookURL
  BY <1>1 DEF SetWebhookURL, NotifierInv, NotifierTypeOK, AttemptLeft, PostsAreAttempts, UnknownPost,
              InDoubt, LostForCause, PostedTwiceInDoubt, Sending, Live, Working
<1>2. CASE UNCHANGED notifierVars
  BY <1>2 DEF notifierVars, NotifierInv, NotifierTypeOK, AttemptLeft, PostsAreAttempts, UnknownPost,
              InDoubt, LostForCause, PostedTwiceInDoubt, Sending, Live, Working
<1> QED BY <1>1, <1>2, WorkStep, QueueStep, AttemptStep, LoopStep, ExitStep
        DEF NotifierNext, SendStep

-----------------------------------------------------------------------------

\* Every message, whoever sends it, stays of its type: no message is tried
\* more than maxRetries times.
THEOREM NotifierTypeCorrect == NotifierSpec => []NotifierTypeOK
<1>1. NotifierInv => NotifierTypeOK
  BY DEF NotifierInv
<1> QED BY <1>1, NotifierInvInit, NotifierInvStep, PTL DEF NotifierSpec

\* A message accepted for sending and not sent failed maxRetries times, or its
\* context had ended, or the process has; a message that counts as sent was
\* posted, or refused by Slack without a reason.
THEOREM LossesHaveACause == NotifierSpec => []LostForCause
<1>1. NotifierInv => LostForCause
  BY DEF NotifierInv
<1> QED BY <1>1, NotifierInvInit, NotifierInvStep, PTL DEF NotifierSpec

\* A message is posted a second time only after an answer that leaves it open
\* whether the first post was made.
THEOREM RepeatsAreInDoubt == NotifierSpec => []PostedTwiceInDoubt
<1>1. NotifierInv => PostedTwiceInDoubt
  BY DEF NotifierInv
<1> QED BY <1>1, NotifierInvInit, NotifierInvStep, PTL DEF NotifierSpec


=============================================================================
