------------------------------ MODULE MCPlatform ------------------------------
(***************************************************************************)
(* A small instance of internal/platform: the harness, ServiceRun, and the *)
(* notifiers, Notifier.  They share no state and neither calls the other,  *)
(* so a behaviour shows one of the two at work and the other in one of its *)
(* initial states: what holds in those behaviours holds of both at work.   *)
(***************************************************************************)
EXTENDS ServiceRun, Notifier

VARIABLE part   \* the one that is shown

platformVars == <<part, vars, notifierVars>>

PlatformInit ==
  /\ Init /\ NotifierInit
  /\ \/ part = "harness" /\ hooked
     \/ part = "notifiers" /\ ~Enrolled /\ registered["repository"] = registered["component"]

Harness   == part = "harness" /\ UNCHANGED <<part, notifierVars>>
Notifiers == part = "notifiers" /\ UNCHANGED <<part, vars>>

\* ServiceRun's Next and Notifier's, action by action.
PlatformNext ==
  \/ \E r \in Replicas :
       \/ Harness /\ Start(r)
       \/ Harness /\ FindShared(r)
       \/ Harness /\ AddShared(r)
       \/ Harness /\ FindProcess(r)
       \/ Harness /\ AddProcess(r)
       \/ Harness /\ FindRole(r)
       \/ Harness /\ Listen(r)
       \/ Harness /\ ServeHTTP(r)
       \/ Harness /\ ServeGRPC(r)
       \/ Harness /\ Select(r)
       \/ Harness /\ GracefulStop(r)
       \/ Harness /\ Shutdown(r)
       \/ Harness /\ StartFails(r)
       \/ Harness /\ DirectoryFails(r)
       \/ Harness /\ ListenFails(r)
       \/ Harness /\ ServerFails(r)
       \/ Harness /\ TakeRequest(r)
       \/ Harness /\ FinishRequest(r)
       \/ Harness /\ TakeRPC(r)
       \/ Harness /\ FinishRPC(r)
       \/ Harness /\ Ask(r)
       \/ Harness /\ Kill(r)
  \/ Harness /\ Register
  \/ Harness /\ CalmDown
  \/ \E m \in Messages :
       \/ Notifiers /\ Begin(m)
       \/ Notifiers /\ TurnAway(m)
       \/ Notifiers /\ Acknowledge(m)
       \/ Notifiers /\ ProcessEvent(m)
       \/ Notifiers /\ NotifyAsync(m)
       \/ Notifiers /\ NotifyAndWait(m)
       \/ Notifiers /\ StopWaiting(m)
       \/ Notifiers /\ Finish(m)
       \/ Notifiers /\ HandlerReturns(m)
       \/ Notifiers /\ ContextEnds(m)
       \/ Notifiers /\ Load(m)
       \/ Notifiers /\ StartAttempt(m)
       \/ Notifiers /\ Attempt(m)
       \/ Notifiers /\ PauseEnds(m)
  \/ Notifiers /\ SetWebhookURL
  \/ Notifiers /\ Exit

\* The fairness of FairSpec and of NotifierFairSpec, of the part that is shown.
PlatformSpec ==
  /\ PlatformInit /\ [][PlatformNext]_platformVars
  /\ \A r \in Replicas :
       /\ WF_platformVars(Harness /\ Start(r))
       /\ WF_platformVars(Harness /\ ProcessStep(r))
       /\ WF_platformVars(Harness /\ (Select(r) \/ GracefulStop(r) \/ Shutdown(r)))
  /\ \A m \in Messages : WF_platformVars(Notifiers /\ SendStep(m))

============================================================================
