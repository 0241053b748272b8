----------------------------- MODULE ServiceRun -----------------------------
(***************************************************************************)
(* The life of a Go service under the shared harness (platform/app and     *)
(* platform/security): enrol in the LDAP directory, check the role, bind   *)
(* the gRPC port, serve HTTP and gRPC, and stop when told to or when one   *)
(* of the two servers fails.  Kubernetes runs several replicas of a        *)
(* service and starts each again when it ends.  They share the repository  *)
(* and the component identity; each start makes a process identity.        *)
(*                                                                         *)
(* Enrolling searches for an entry and then adds it, so two replicas may   *)
(* both find it missing: the second add is refused and that start fails.   *)
(* An administrator who enters the identity between the two, under a name  *)
(* of the administrator's choice, leaves it there twice, and no start gets *)
(* past a search whose size limit is one.                                  *)
(* Stopping waits for every RPC, without a deadline, while HTTP still      *)
(* takes requests; then it waits five seconds for those.                   *)
(***************************************************************************)
EXTENDS Naturals, FiniteSets

CONSTANTS
  Replicas,          \* containers of one service
  EnforceDirectory,  \* GITORC_ENFORCE_DIRECTORY
  AutoRegister       \* GITORC_LDAP_AUTO_REGISTER

ASSUME HarnessConfig == EnforceDirectory \in BOOLEAN /\ AutoRegister \in BOOLEAN

VARIABLES
  at,        \* where each replica's Run is
  http,      \* its HTTP server
  grpc,      \* its gRPC server
  asked,     \* it got SIGINT or SIGTERM and has not looked yet
  requests,  \* it has an HTTP request in flight
  rpcs,      \* it has an RPC in flight; health Watch is one that stays
  audited,   \* its process identity is in the directory
  registered,\* the entries of each shared identity in the directory
  calm       \* operators and failures leave the service alone (auxiliary)

server == <<http, grpc, requests, rpcs>>
vars == <<at, server, asked, audited, registered, calm>>

-----------------------------------------------------------------------------

Shared == {"repository", "component"}

\* The entry the harness adds, named by the identity's UUID, and one that an
\* administrator named otherwise.
Entries == {"made", "entered"}

Enrolling == {"findRepository", "addRepository", "findComponent", "addComponent",
              "findProcess", "addProcess", "findRole"}
Running   == {"listen", "serving", "stopping", "shutdown"}

TypeOK ==
  /\ at \in [Replicas -> {"down"} \cup Enrolling \cup Running]
  /\ http \in [Replicas -> {"off", "up", "failed", "closed"}]
  /\ grpc \in [Replicas -> {"off", "up", "failed", "closed"}]
  /\ asked \in [Replicas -> BOOLEAN]
  /\ requests \in [Replicas -> BOOLEAN]
  /\ rpcs \in [Replicas -> BOOLEAN]
  /\ audited \in [Replicas -> BOOLEAN]
  /\ registered \in [Shared -> SUBSET Entries]
  /\ calm \in BOOLEAN

Init ==
  /\ at = [r \in Replicas |-> "down"]
  /\ http = [r \in Replicas |-> "off"]
  /\ grpc = [r \in Replicas |-> "off"]
  /\ asked = [r \in Replicas |-> FALSE]
  /\ requests = [r \in Replicas |-> FALSE]
  /\ rpcs = [r \in Replicas |-> FALSE]
  /\ audited = [r \in Replicas |-> FALSE]
  /\ registered \in [Shared -> SUBSET Entries]
  /\ calm = FALSE

In(r, step) == at[r] = step

\* The service is in the directory.
Enrolled == \A i \in Shared : registered[i] # {}

Proceed(r, step) == at' = [at EXCEPT ![r] = step]

\* The process ends: everything it had open is gone.
End(r) ==
  /\ Proceed(r, "down")
  /\ http' = [http EXCEPT ![r] = "off"]
  /\ grpc' = [grpc EXCEPT ![r] = "off"]
  /\ requests' = [requests EXCEPT ![r] = FALSE]
  /\ rpcs' = [rpcs EXCEPT ![r] = FALSE]
  /\ asked' = [asked EXCEPT ![r] = FALSE]
  /\ audited' = [audited EXCEPT ![r] = FALSE]

\* Run returns an error before it serves anything.
FailToStart(r) == End(r)

-----------------------------------------------------------------------------
(* BuildRuntimePolicy, EnforceDirectoryPolicy *)

\* Up to the directory: identities are parsed and made, keys loaded, and
\* ValidateDirectoryRequirements finds what it asks for.
Start(r) ==
  /\ In(r, "down")
  /\ Proceed(r, IF EnforceDirectory THEN "findRepository" ELSE "listen")
  /\ UNCHANGED <<server, asked, audited, registered, calm>>

\* A setting is missing or wrong, or a key or the binary cannot be read.
StartFails(r) ==
  /\ In(r, "down") /\ ~calm
  /\ FailToStart(r)
  /\ UNCHANGED <<registered, calm>>

\* ensureDirectoryIdentity, up to the end of the search, whose size limit is
\* one: an identity that is there twice is an error.
Find(r, entries, add, next) ==
  /\ IF Cardinality(entries) = 1 \/ (entries = {} /\ AutoRegister)
     THEN /\ Proceed(r, IF entries = {} THEN add ELSE next)
          /\ UNCHANGED <<server, asked, audited>>
     ELSE FailToStart(r)
  /\ UNCHANGED <<registered, calm>>

FindShared(r) ==
  \/ In(r, "findRepository")
     /\ Find(r, registered["repository"], "addRepository", "findComponent")
  \/ In(r, "findComponent")
     /\ Find(r, registered["component"], "addComponent", "findProcess")

\* The process identity was made up a moment ago.
FindProcess(r) ==
  In(r, "findProcess") /\ Find(r, {}, "addProcess", "findRole")

\* Slip: the replica looks for nothing again, and waits.
SlipWaitForOther(r) == UNCHANGED <<at, server, asked, audited>>

\* The add of an entry that another replica has added since: the directory
\* refuses it, and the start fails.
AlreadyExists(r) == FailToStart(r)

\* ensureDirectoryIdentity: the add.  An entry an administrator has made since
\* has another name and does not stand in its way.
Add(r, identity, next) ==
  /\ IF "made" \in registered[identity]
     THEN AlreadyExists(r) /\ UNCHANGED registered
     ELSE /\ registered' = [registered EXCEPT ![identity] = @ \cup {"made"}]
          /\ Proceed(r, next)
          /\ UNCHANGED <<server, asked, audited>>
  /\ UNCHANGED calm

AddShared(r) ==
  \/ In(r, "addRepository") /\ Add(r, "repository", "findComponent")
  \/ In(r, "addComponent")  /\ Add(r, "component", "findProcess")

\* Slip: the audit entry is not written.
SlipNoAudit(r) == UNCHANGED audited

RecordProcess(r) == audited' = [audited EXCEPT ![r] = TRUE]

AddProcess(r) ==
  /\ In(r, "addProcess")
  /\ RecordProcess(r)
  /\ Proceed(r, "findRole")
  /\ UNCHANGED <<server, asked, registered, calm>>

\* Role entries that match the search: administrators grant and revoke.
RoleEntries == IF calm THEN {1} ELSE 0..2

\* Slip: the harness makes the role it did not find.
SlipAddRole(r) == Proceed(r, "addRole") /\ UNCHANGED <<server, asked, audited>>

NotAuthorised(r) == FailToStart(r)

\* enforceRBACMembership: the size limit of the search is one, so that two
\* role entries that match are an error like none.
FindRole(r) ==
  /\ In(r, "findRole")
  /\ \E n \in RoleEntries :
       IF n = 1
       THEN Proceed(r, "listen") /\ UNCHANGED <<server, asked, audited>>
       ELSE NotAuthorised(r)
  /\ UNCHANGED <<registered, calm>>

\* The directory cannot be reached, refuses the bind or fails an operation.
DirectoryFails(r) ==
  /\ at[r] \in Enrolling /\ ~calm
  /\ FailToStart(r)
  /\ UNCHANGED <<registered, calm>>

-----------------------------------------------------------------------------
(* Run: serving *)

Listen(r) ==
  /\ In(r, "listen")
  /\ Proceed(r, "serving")
  /\ UNCHANGED <<server, asked, audited, registered, calm>>

\* net.Listen: the gRPC port is taken.
ListenFails(r) ==
  /\ In(r, "listen") /\ ~calm
  /\ FailToStart(r)
  /\ UNCHANGED <<registered, calm>>

\* The two goroutines; ListenAndServe also binds the HTTP port.  Either may
\* be late: HTTP still comes up while the main goroutine waits for RPCs.
ServeHTTP(r) ==
  /\ at[r] \in {"serving", "stopping"} /\ http[r] = "off"
  /\ http' = [http EXCEPT ![r] = "up"]
  /\ UNCHANGED <<at, grpc, requests, rpcs, asked, audited, registered, calm>>

ServeGRPC(r) ==
  /\ In(r, "serving") /\ grpc[r] = "off"
  /\ grpc' = [grpc EXCEPT ![r] = "up"]
  /\ UNCHANGED <<at, http, requests, rpcs, asked, audited, registered, calm>>

\* A server returns an error, to errCh: it takes nothing new.
ServerFails(r) ==
  /\ In(r, "serving") /\ ~calm
  /\ \/ http[r] \in {"off", "up"} /\ http' = [http EXCEPT ![r] = "failed"]
        /\ UNCHANGED grpc
     \/ grpc[r] \in {"off", "up"} /\ grpc' = [grpc EXCEPT ![r] = "failed"]
        /\ UNCHANGED http
  /\ UNCHANGED <<at, requests, rpcs, asked, audited, registered, calm>>

TakeRequest(r) ==
  /\ http[r] = "up" /\ ~requests[r]
  /\ requests' = [requests EXCEPT ![r] = TRUE]
  /\ UNCHANGED <<at, http, grpc, rpcs, asked, audited, registered, calm>>

FinishRequest(r) ==
  /\ requests[r]
  /\ requests' = [requests EXCEPT ![r] = FALSE]
  /\ UNCHANGED <<at, http, grpc, rpcs, asked, audited, registered, calm>>

TakeRPC(r) ==
  /\ grpc[r] = "up" /\ ~rpcs[r]
  /\ rpcs' = [rpcs EXCEPT ![r] = TRUE]
  /\ UNCHANGED <<at, http, grpc, requests, asked, audited, registered, calm>>

FinishRPC(r) ==
  /\ rpcs[r]
  /\ rpcs' = [rpcs EXCEPT ![r] = FALSE]
  /\ UNCHANGED <<at, http, grpc, requests, asked, audited, registered, calm>>

-----------------------------------------------------------------------------
(* Run: stopping *)

\* The select on shutdownCtx.Done and errCh; GracefulStop closes the port.
Select(r) ==
  /\ In(r, "serving")
  /\ asked[r] \/ "failed" \in {http[r], grpc[r]}
  /\ Proceed(r, "stopping")
  /\ grpc' = [grpc EXCEPT ![r] = "closed"]
  /\ asked' = [asked EXCEPT ![r] = FALSE]
  /\ UNCHANGED <<http, requests, rpcs, audited, registered, calm>>

\* Slip: it waits for the HTTP requests too, and for them without a deadline.
SlipWaitForRequests(r) == ~rpcs[r] /\ ~requests[r]

RPCsDone(r) == ~rpcs[r]

\* GracefulStop returns when the last RPC has; Shutdown closes the HTTP port.
GracefulStop(r) ==
  /\ In(r, "stopping")
  /\ RPCsDone(r)
  /\ Proceed(r, "shutdown")
  /\ http' = [http EXCEPT ![r] = "closed"]
  /\ UNCHANGED <<grpc, requests, rpcs, asked, audited, registered, calm>>

\* Shutdown returns when the last request has, or after five seconds, which cuts
\* off those that are left.
Shutdown(r) ==
  /\ In(r, "shutdown")
  /\ End(r)
  /\ UNCHANGED <<registered, calm>>

-----------------------------------------------------------------------------
(* Outside *)

\* SIGTERM, while signals are being listened for; before that it kills.
Ask(r) ==
  /\ In(r, "serving") /\ ~calm
  /\ asked' = [asked EXCEPT ![r] = TRUE]
  /\ UNCHANGED <<at, server, audited, registered, calm>>

Kill(r) ==
  /\ ~In(r, "down") /\ ~calm
  /\ End(r)
  /\ UNCHANGED <<registered, calm>>

\* An administrator enters an identity, under the harness's name or another.
Register ==
  /\ ~calm
  /\ \E i \in Shared, e \in Entries :
       registered' = [registered EXCEPT ![i] = @ \cup {e}]
  /\ UNCHANGED <<at, server, asked, audited, calm>>

\* From now on nothing fails and nobody interferes; the role is granted once,
\* and what is not registered by itself has been registered.
CalmDown ==
  /\ ~calm
  /\ AutoRegister \/ Enrolled
  /\ calm' = TRUE
  /\ UNCHANGED <<at, server, asked, audited, registered>>

\* What a process does by itself.
ProcessStep(r) ==
  \/ FindShared(r) \/ AddShared(r) \/ FindProcess(r) \/ AddProcess(r) \/ FindRole(r)
  \/ Listen(r) \/ ServeHTTP(r) \/ ServeGRPC(r)
  \/ Select(r) \/ GracefulStop(r) \/ Shutdown(r)

Next ==
  \/ \E r \in Replicas :
       \/ Start(r) \/ ProcessStep(r)
       \/ StartFails(r) \/ DirectoryFails(r) \/ ListenFails(r) \/ ServerFails(r)
       \/ TakeRequest(r) \/ FinishRequest(r) \/ TakeRPC(r) \/ FinishRPC(r)
       \/ Ask(r) \/ Kill(r)
  \/ Register \/ CalmDown

Spec == Init /\ [][Next]_vars

\* Kubernetes starts a container that ended; a process takes its own steps,
\* each of the two servers in a goroutine of its own.
Fairness ==
  \A r \in Replicas : /\ WF_vars(Start(r)) /\ WF_vars(ProcessStep(r))
                      /\ WF_vars(Select(r) \/ GracefulStop(r) \/ Shutdown(r))

FairSpec == Spec /\ Fairness

-----------------------------------------------------------------------------
(* Properties *)

\* Where the directory is enforced, a process that serves is in the audit
\* tree, and its repository and its component are registered, whoever of the
\* replicas registered them and whichever starts failed half way.
ServingIsEnrolled ==
  EnforceDirectory =>
    \A r \in Replicas :
      at[r] \in Running => audited[r] /\ Enrolled

\* A service that was told to stop, or whose HTTP or gRPC server failed, ends,
\* as long as no RPC goes on for ever: GracefulStop has no deadline.  HTTP
\* requests, which are taken until GracefulStop returns and may go on for ever,
\* hold the end up by five seconds at most.
StopsWhenTold ==
  \A r \in Replicas :
    []<>(~rpcs[r]) =>
      ((In(r, "serving") /\ (asked[r] \/ "failed" \in {http[r], grpc[r]})) ~> In(r, "down"))

\* An identity that is in the directory twice stops every start.
Doubled == \E i \in Shared : registered[i] = Entries

\* A registered service that holds its role comes up once nothing fails any
\* more, whatever replicas add at the same time and whatever was left half
\* done before: "live LDAP bind, identity registration lookup, optional
\* auto-registration, and RBAC membership search before startup".  The one
\* thing in its way is an identity that an administrator entered beside the
\* harness's own entry.
RegisteredServiceComesUp ==
  \A r \in Replicas :
    ([]<>(~rpcs[r]) /\ <>[]~Doubled) =>
      (calm ~> (In(r, "serving") /\ http[r] = "up" /\ grpc[r] = "up"))

============================================================================
