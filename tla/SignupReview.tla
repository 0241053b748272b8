---------------------------- MODULE SignupReview ----------------------------
(***************************************************************************)
(* Signing up and reviewing, as the gateway's HTTP handlers do it          *)
(* (gatewayapi/api.go, local_auth.go, signup_requests.go).                 *)
(*                                                                         *)
(* Each request runs in a goroutine of its own, a worker here.  Both       *)
(* handlers write the two tables with two statements and no transaction:   *)
(*                                                                         *)
(*   signup  insert the account,  then insert the request                  *)
(*   review  update the request,  then copy the decision to the account    *)
(*                                                                         *)
(* so another request may run, the database may stall, or the five second  *)
(* context may end, between the two.  A statement whose context ends may   *)
(* have been committed, may be given up, or may still be with the database *)
(* and be committed after the client was answered: the handler sees the    *)
(* same error.                                                             *)
(***************************************************************************)
EXTENDS AccountTables

CONSTANTS
  Workers,       \* goroutines that may be serving a request at one time
  LocalEnabled,  \* GITORC_AUTH_LOCAL_ENABLED
  AutoApprove    \* GITORC_AUTH_LOCAL_AUTO_APPROVE

ASSUME ConfigIsBoolean == LocalEnabled \in BOOLEAN /\ AutoApprove \in BOOLEAN

VARIABLES
  accounts,   \* local_auth_accounts
  requests,   \* signup_requests
  job,        \* the request each worker is serving, and how far it is
  abandoned,  \* workers that answered 500 while their statement goes on
  db,         \* whether statements complete at the moment
  usedIds,    \* uuids handed out (auxiliary: makes them unique)
  unsettled   \* ids whose two rows a handler left half written, or whose
              \* reviews overlapped (auxiliary: only properties read it)

vars == <<accounts, requests, job, abandoned, db, usedIds, unsettled>>

-----------------------------------------------------------------------------

Codes == {200, 202, 400, 404, 409, 500}

IdleJob   == [at : {"idle"}]
SignupJob == [at : {"insertAccount", "insertRequest"},
              id : Ids, name : Names, email : Emails]
ReviewJob == [at : {"updateRequest", "syncAccount"},
              id : Ids, decision : Decisions]
DoneJob   == [at : {"answered"}, id : Ids \cup {Absent}, code : Codes]
Job       == IdleJob \cup SignupJob \cup ReviewJob \cup DoneJob

Idle == [at |-> "idle"]

TypeOK ==
  /\ accounts \in AccountTable
  /\ requests \in RequestTable
  /\ job \in [Workers -> Job]
  /\ abandoned \in SUBSET Workers
  /\ db \in {"up", "stalled"}
  /\ usedIds \in SUBSET Ids
  /\ unsettled \in SUBSET Ids

Init ==
  /\ accounts = EmptyTable
  /\ requests = EmptyTable
  /\ job = [w \in Workers |-> Idle]
  /\ abandoned = {}
  /\ db = "up"
  /\ usedIds = {}
  /\ unsettled = {}

\* The status createLocalAuthAccount gives an account.
InitialStatus ==
  IF LocalEnabled /\ AutoApprove THEN "approved" ELSE "pending_review"

\* Slip: handleSignup files a fixed status.
SlipFiledApproved == "approved"

\* The status handleSignup files the request under: the account's, where
\* there are local accounts.
FiledStatus == InitialStatus

At(w, step) == job[w].at = step

\* The worker goes on to its next statement.
Proceed(w, step) == job' = [job EXCEPT ![w].at = step]

\* The worker writes its reply and the handler returns.  One that gave its
\* statement up has answered before the statement ended.
Answer(w, code) ==
  job' = [job EXCEPT ![w] = [at |-> "answered", id |-> job[w].id,
                             code |-> IF w \in abandoned THEN 500 ELSE code]]

\* The statement has ended.
Over(w) == abandoned' = abandoned \ {w}

\* A statement that was committed: the handler either hears so and goes on,
\* or its context ends first and it answers 500 for work that was done.
Heard(w, step) == w \notin abandoned /\ Proceed(w, step)
Unheard(w)     == Answer(w, 500)

\* Slips: a conflict is taken for success.
SlipAccountExists(w) == Proceed(w, "insertRequest")
SlipRequestExists(w) == Answer(w, 202)

\* isConflictError: the statement broke a unique constraint.
AccountRefused(w) == Answer(w, 409)
RequestRefused(w) == Answer(w, 409)

Settle(i)   == unsettled' = unsettled \ {i}
Unsettle(i) == unsettled' = unsettled \cup {i}

\* Reviews of i that have decided but not yet copied the decision.
Undelivered(i) == {w \in Workers : At(w, "syncAccount") /\ job[w].id = i}

\* Slip: no unique constraint on the e-mail.
SlipNameOnly(n, e) == NameFree(accounts, n)

AccountIsFree(n, e) == NameFree(accounts, n) /\ EmailFree(accounts, e)

-----------------------------------------------------------------------------
(* POST /api/auth/signup *)

StartSignup(w) ==
  /\ At(w, "idle")
  /\ \E i \in Ids \ usedIds, n \in Names, e \in Emails :
       /\ job' = [job EXCEPT ![w] =
                    [at |-> IF LocalEnabled THEN "insertAccount" ELSE "insertRequest",
                     id |-> i, name |-> n, email |-> e]]
       /\ usedIds' = usedIds \cup {i}
  /\ UNCHANGED <<accounts, requests, db, unsettled, abandoned>>

\* A payload of either handler that fails validation touches no table.
RefusePayload(w) ==
  /\ At(w, "idle")
  /\ job' = [job EXCEPT ![w] = [at |-> "answered", id |-> Absent, code |-> 400]]
  /\ UNCHANGED <<accounts, requests, db, usedIds, unsettled, abandoned>>

\* createLocalAuthAccount
InsertAccount(w) ==
  LET i == job[w].id  IN
  LET n == job[w].name
      e == job[w].email
  IN
  /\ At(w, "insertAccount")
  /\ db = "up"
  /\ IF AccountIsFree(n, e)
     THEN /\ accounts' = [accounts EXCEPT ![i] =
                            [name |-> n, email |-> e, role |-> "platform-operator",
                             status |-> InitialStatus]]
          /\ \/ Heard(w, "insertRequest") /\ UNCHANGED unsettled
             \/ Unheard(w) /\ Unsettle(i)
     ELSE AccountRefused(w) /\ UNCHANGED <<accounts, unsettled>>
  /\ Over(w)
  /\ UNCHANGED <<requests, db, usedIds>>

\* createSignupRequestRecord
InsertRequest(w) ==
  LET i == job[w].id  IN
  LET n == job[w].name
      e == job[w].email
  IN
  /\ At(w, "insertRequest")
  /\ db = "up"
  /\ IF IndexAdmits(requests, e, FiledStatus)
     THEN /\ requests' = [requests EXCEPT ![i] =
                            [name |-> n, email |-> e, status |-> FiledStatus,
                             by |-> "gateway"]]
          /\ Answer(w, 202) \/ Unheard(w)
          /\ UNCHANGED unsettled
     ELSE /\ RequestRefused(w)
          /\ IF LocalEnabled THEN Unsettle(i) ELSE UNCHANGED unsettled
          /\ UNCHANGED requests
  /\ Over(w)
  /\ UNCHANGED <<accounts, db, usedIds>>

\* The Ruby service's own signup endpoint writes the same table: one
\* statement, always pending, and never an account.
RubySignup ==
  /\ db = "up"
  /\ \E i \in Ids \ usedIds, n \in Names, e \in Emails :
       /\ IndexAdmits(requests, e, "pending_review")
       /\ requests' = [requests EXCEPT ![i] =
                         [name |-> n, email |-> e, status |-> "pending_review",
                          by |-> "rubyApp"]]
       /\ usedIds' = usedIds \cup {i}
  /\ UNCHANGED <<accounts, job, db, unsettled, abandoned>>

\* The first login finds no default administrator and inserts one: a single
\* statement, on conflict (username) do nothing.  A conflict on the e-mail is
\* an error instead; neither changes the table.
BootstrapAdmin ==
  /\ LocalEnabled
  /\ db = "up"
  /\ AccountIsFree(AdminName, AdminEmail)
  /\ \E i \in Ids \ usedIds :
       /\ accounts' = [accounts EXCEPT ![i] = AdminRow]
       /\ usedIds' = usedIds \cup {i}
  /\ UNCHANGED <<requests, job, db, unsettled, abandoned>>

-----------------------------------------------------------------------------
(* POST /api/auth/signup-requests/{id}/review *)

StartReview(w) ==
  /\ At(w, "idle")
  /\ \E i \in Ids, d \in Decisions :
       job' = [job EXCEPT ![w] = [at |-> "updateRequest", id |-> i, decision |-> d]]
  /\ UNCHANGED <<accounts, requests, db, usedIds, unsettled, abandoned>>

\* reviewSignupRequestRecord: no condition on the status the row has, so a
\* request may be decided again, and by two reviewers at once.
UpdateRequest(w) ==
  LET i == job[w].id IN
  /\ At(w, "updateRequest")
  /\ db = "up"
  /\ IF requests[i] = Absent
     THEN Answer(w, 404) /\ UNCHANGED <<requests, unsettled>>
     ELSE /\ requests' = [requests EXCEPT ![i].status = job[w].decision]
          /\ \/ /\ Heard(w, "syncAccount")
                /\ IF Undelivered(i) = {} THEN Settle(i) ELSE Unsettle(i)
             \/ Unheard(w) /\ Unsettle(i)
  /\ Over(w)
  /\ UNCHANGED <<accounts, db, usedIds>>

\* Slip: every review lets the account in.
SlipAlwaysApprove(w) == "approved"

\* What syncLocalAuthAccountReview is told to write.
SyncedStatus(w) == job[w].decision

\* syncLocalAuthAccountReview: an update that matches no row is no error.
SyncAccount(w) ==
  LET i == job[w].id IN
  /\ At(w, "syncAccount")
  /\ IF LocalEnabled
     THEN /\ db = "up"
          /\ accounts' = IF accounts[i] = Absent THEN accounts
                         ELSE [accounts EXCEPT ![i].status = SyncedStatus(w)]
          /\ Answer(w, 200) \/ Unheard(w)
     ELSE Answer(w, 200) /\ UNCHANGED accounts
  /\ Over(w)
  /\ UNCHANGED <<requests, db, usedIds, unsettled>>

-----------------------------------------------------------------------------

InStatement(w) ==
  \/ job[w].at \in {"insertAccount", "insertRequest", "updateRequest"}
  \/ At(w, "syncAccount") /\ LocalEnabled

\* Slip: no deadline, so that only a database that answers ends a statement.
SlipNoDeadline(w) == InStatement(w) /\ db = "up"

\* context.WithTimeout ends a statement whatever the database does.
MayFail(w) == InStatement(w)

\* The five second context ends, or the database refuses the statement,
\* before it was committed.
StatementFails(w) ==
  /\ MayFail(w)
  /\ Answer(w, 500)
  /\ IF At(w, "syncAccount") \/ (At(w, "insertRequest") /\ LocalEnabled)
     THEN Unsettle(job[w].id)
     ELSE UNCHANGED unsettled
  /\ Over(w)
  /\ UNCHANGED <<accounts, requests, db, usedIds>>

\* The context ends and the client is answered 500 while the statement is still
\* with the database: pgx cancels it, which may come too late.
Abandon(w) ==
  /\ MayFail(w)
  /\ w \notin abandoned
  /\ abandoned' = abandoned \cup {w}
  /\ UNCHANGED <<accounts, requests, job, db, usedIds, unsettled>>

\* The connection takes its next request.
NextRequest(w) ==
  /\ At(w, "answered")
  /\ job' = [job EXCEPT ![w] = Idle]
  /\ UNCHANGED <<accounts, requests, db, usedIds, unsettled, abandoned>>

DbStalls ==
  /\ db = "up"
  /\ db' = "stalled"
  /\ UNCHANGED <<accounts, requests, job, usedIds, unsettled, abandoned>>

DbRecovers ==
  /\ db = "stalled"
  /\ db' = "up"
  /\ UNCHANGED <<accounts, requests, job, usedIds, unsettled, abandoned>>

\* What a worker does by itself once a request has come in.
HandlerStep(w) ==
  \/ InsertAccount(w)
  \/ InsertRequest(w)
  \/ UpdateRequest(w)
  \/ SyncAccount(w)
  \/ StatementFails(w)
  \/ Abandon(w)

ClientStep(w) ==
  \/ StartSignup(w)
  \/ StartReview(w)
  \/ RefusePayload(w)
  \/ NextRequest(w)

Next ==
  \/ \E w \in Workers : HandlerStep(w) \/ ClientStep(w)
  \/ RubySignup
  \/ BootstrapAdmin
  \/ DbStalls
  \/ DbRecovers

\* The Go runtime keeps running a goroutine whose statement returned or whose
\* context ended.  Clients and the database owe nothing: it may stall for ever,
\* and keep for ever a statement that was given up.
Fairness == \A w \in Workers : WF_vars(w \notin abandoned /\ HandlerStep(w))

Spec == Init /\ [][Next]_vars

FairSpec == Spec /\ Fairness

-----------------------------------------------------------------------------
(* Properties *)

\* A request the gateway filed stands for an account with the same id, name
\* and e-mail, whatever failed or overlapped since: handleSignup writes the
\* account first and stops when that fails, and reviews never delete a row.
RequestHasItsAccount ==
  LocalEnabled =>
    \A i \in Ids :
      requests[i] # Absent /\ requests[i].by = "gateway" =>
        /\ accounts[i] # Absent
        /\ accounts[i].name = requests[i].name
        /\ accounts[i].email = requests[i].email

\* When a review finds no other review of the id between its statements and
\* both its statements go through, account and request agree from then on,
\* until the next review; so a repeated review repairs what an overlap or a
\* failure left.  And a signup no statement of which failed leaves both rows
\* or neither.
SettledRowsAgree ==
  \A i \in Ids \ unsettled :
    accounts[i] # Absent /\ accounts[i].role # "platform-admin" =>
      \/ \E w \in Workers : At(w, "insertRequest") /\ job[w].id = i
      \/ /\ requests[i] # Absent
         /\ Undelivered(i) = {} => accounts[i].status = requests[i].status

\* What a reply says is true of the tables, and stays true: 202, the request
\* is on file, and the account the client will sign in with (where there are
\* local accounts); 409, nothing can be reviewed under the refused id; 200,
\* somebody has decided the request.
RepliesAreTrue ==
  \A w \in Workers : At(w, "answered") =>
    LET i == job[w].id IN
    /\ job[w].code = 202 => /\ requests[i] # Absent
                            /\ LocalEnabled => accounts[i] # Absent
    /\ job[w].code = 409 => requests[i] = Absent
    /\ job[w].code = 200 => requests[i].status \in Decisions

\* Every request is answered, even if the database stalls for ever: the
\* handlers bound both of their statements by a context of five seconds, and
\* answer 500 when it ends, whatever becomes of the statement.
EveryRequestAnswered ==
  \A w \in Workers : InStatement(w) ~> (At(w, "answered") \/ w \in abandoned)

-----------------------------------------------------------------------------
(* What the handlers implement *)

\* The ledger knows people who sign up: the default administrator is not one.
Standing ==
  [i \in Ids |-> IF accounts[i] = Absent \/ accounts[i] = AdminRow THEN "none"
                 ELSE accounts[i].status]

Verdict == [i \in Ids |-> IF requests[i] = Absent THEN "none" ELSE requests[i].status]

Ledger == INSTANCE ApprovalLedger WITH
  Start    <- InitialStatus,
  standing <- Standing,
  verdict  <- Verdict,
  underway <- [i \in Ids |-> {job[w].decision : w \in Undelivered(i)}]

Directory == INSTANCE AccountDirectory WITH Start <- InitialStatus

\* Seen from the accounts table alone, the handlers are the directory: in
\* particular no review, of whatever request, moves an administrator's row.
ImplementsDirectory == Directory!Spec

\* The two tables, whatever handlers, failures and overlaps do, move only as
\* the ledger allows.
ImplementsLedger == Ledger!Spec

============================================================================
