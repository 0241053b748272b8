------------------------- MODULE SignupReviewProofs -------------------------
(***************************************************************************)
(* What TLAPS proves of SignupReview, for any number of workers, uuids,    *)
(* names and e-mails and for every configuration.                          *)
(***************************************************************************)
EXTENDS SignupReview, TLAPS

\* Which step a worker stands at tells which kind of job it has.
LEMMA JobKind ==
  ASSUME TypeOK, NEW w \in Workers
  PROVE  /\ At(w, "insertAccount") \/ At(w, "insertRequest") => job[w] \in SignupJob
         /\ At(w, "updateRequest") \/ At(w, "syncAccount") => job[w] \in ReviewJob
         /\ At(w, "answered") => job[w] \in DoneJob
BY DEF TypeOK, Job, IdleJob, SignupJob, ReviewJob, DoneJob, At

\* Every step keeps every row, job and flag of its type.
LEMMA TypeStep == TypeOK /\ [Next]_vars => TypeOK'
<1> SUFFICES ASSUME TypeOK, [Next]_vars
             PROVE  TypeOK'
  OBVIOUS
<1> USE DEF At, Proceed, Answer, Heard, Unheard, Settle, Unsettle
<1> USE DEF AccountRefused, RequestRefused, FiledStatus, SyncedStatus, MayFail, Over
<1>1. ASSUME NEW w \in Workers, StartSignup(w) PROVE TypeOK'
  BY <1>1 DEF StartSignup, TypeOK, Job, SignupJob
<1>2. ASSUME NEW w \in Workers, StartReview(w) PROVE TypeOK'
  BY <1>2 DEF StartReview, TypeOK, Job, ReviewJob
<1>3. ASSUME NEW w \in Workers, RefusePayload(w) PROVE TypeOK'
  BY <1>3 DEF RefusePayload, TypeOK, Job, DoneJob, Codes
<1>4. ASSUME NEW w \in Workers, NextRequest(w) PROVE TypeOK'
  BY <1>4 DEF NextRequest, TypeOK, Job, IdleJob, Idle
<1>5. ASSUME NEW w \in Workers, InsertAccount(w) PROVE TypeOK'
  <2>1. job[w] \in SignupJob
    BY <1>5, JobKind DEF InsertAccount
  <2>2. accounts' \in AccountTable
    BY <1>5, <2>1 DEF InsertAccount, TypeOK, AccountTable, AccountRow, SignupJob,
          Roles, Statuses, InitialStatus
  <2>3. job' \in [Workers -> Job]
    BY <1>5, <2>1 DEF InsertAccount, TypeOK, Job, SignupJob, DoneJob, Codes
  <2>4. unsettled' \in SUBSET Ids
    BY <1>5, <2>1 DEF InsertAccount, TypeOK, SignupJob
  <2> QED BY <1>5, <2>2, <2>3, <2>4 DEF InsertAccount, TypeOK
<1>6. ASSUME NEW w \in Workers, InsertRequest(w) PROVE TypeOK'
  <2>1. job[w] \in SignupJob
    BY <1>6, JobKind DEF InsertRequest
  <2>2. requests' \in RequestTable
    BY <1>6, <2>1 DEF InsertRequest, TypeOK, RequestTable, RequestRow, SignupJob,
          Filers, Statuses, InitialStatus
  <2>3. job' \in [Workers -> Job]
    BY <1>6, <2>1 DEF InsertRequest, TypeOK, Job, SignupJob, DoneJob, Codes
  <2>4. unsettled' \in SUBSET Ids
    BY <1>6, <2>1 DEF InsertRequest, TypeOK, SignupJob
  <2> QED BY <1>6, <2>2, <2>3, <2>4 DEF InsertRequest, TypeOK
<1>7. ASSUME NEW w \in Workers, UpdateRequest(w) PROVE TypeOK'
  <2>1. job[w] \in ReviewJob
    BY <1>7, JobKind DEF UpdateRequest
  <2>2. requests' \in RequestTable
    BY <1>7, <2>1 DEF UpdateRequest, TypeOK, RequestTable, RequestRow, ReviewJob,
          Decisions, Statuses
  <2>3. job' \in [Workers -> Job]
    BY <1>7, <2>1 DEF UpdateRequest, TypeOK, Job, ReviewJob, DoneJob, Codes
  <2>4. unsettled' \in SUBSET Ids
    BY <1>7, <2>1 DEF UpdateRequest, TypeOK, ReviewJob
  <2> QED BY <1>7, <2>2, <2>3, <2>4 DEF UpdateRequest, TypeOK
<1>8. ASSUME NEW w \in Workers, SyncAccount(w) PROVE TypeOK'
  <2>1. job[w] \in ReviewJob
    BY <1>8, JobKind DEF SyncAccount
  <2>2. accounts' \in AccountTable
    BY <1>8, <2>1 DEF SyncAccount, TypeOK, AccountTable, AccountRow, ReviewJob,
          Decisions, Statuses
  <2>3. job' \in [Workers -> Job]
    BY <1>8, <2>1 DEF SyncAccount, TypeOK, Job, ReviewJob, DoneJob, Codes
  <2> QED BY <1>8, <2>2, <2>3 DEF SyncAccount, TypeOK
<1>9. ASSUME NEW w \in Workers, StatementFails(w) PROVE TypeOK'
  <2>1. job[w].id \in Ids
    BY <1>9, JobKind DEF StatementFails, InStatement, SignupJob, ReviewJob
  <2> QED BY <1>9, <2>1 DEF StatementFails, TypeOK, Job, DoneJob, Codes
<1>10. ASSUME RubySignup PROVE TypeOK'
  BY <1>10 DEF RubySignup, TypeOK, RequestTable, RequestRow, Statuses, Filers
<1>11. ASSUME BootstrapAdmin PROVE TypeOK'
  BY <1>11, AdminIsNameable DEF BootstrapAdmin, TypeOK, AccountTable, AccountRow,
        AdminRow, Roles, Statuses
<1>12. ASSUME DbStalls \/ DbRecovers PROVE TypeOK'
  BY <1>12 DEF DbStalls, DbRecovers, TypeOK
<1>13. ASSUME NEW w \in Workers, Abandon(w) PROVE TypeOK'
  BY <1>13 DEF Abandon, TypeOK
<1>14. CASE UNCHANGED vars
  BY <1>14 DEF vars, TypeOK
<1> QED
  BY <1>1, <1>2, <1>3, <1>4, <1>5, <1>6, <1>7, <1>8, <1>9, <1>10, <1>11, <1>12, <1>13, <1>14
     DEF Next, HandlerStep, ClientStep

\* Every row, job and flag has its type, whatever the handlers do.
THEOREM TypeCorrect == Spec => []TypeOK
<1>1. Init => TypeOK
  BY DEF Init, TypeOK, EmptyTable, AccountTable, RequestTable, Idle, Job, IdleJob
<1> QED BY <1>1, TypeStep, PTL DEF Spec


-----------------------------------------------------------------------------
(***************************************************************************)
(* The inductive invariant.  RequestHasItsAccount and SettledRowsAgree     *)
(* hold because of where the handlers stand: a signup that has not written *)
(* a row yet owns its id alone, one between its statements has just        *)
(* written the account, and a review between its statements holds the      *)
(* decision the request shows, unless the id is marked unsettled.          *)
(***************************************************************************)

Signup(w) == At(w, "insertAccount") \/ At(w, "insertRequest")

SignupOwnsItsId ==
  \A w \in Workers : Signup(w) =>
    /\ job[w].id \in usedIds
    /\ requests[job[w].id] = Absent
    /\ At(w, "insertAccount") => accounts[job[w].id] = Absent
    /\ \A v \in Workers : Signup(v) /\ job[v].id = job[w].id => v = w

SignupWroteItsAccount ==
  \A w \in Workers : At(w, "insertRequest") /\ LocalEnabled =>
    accounts[job[w].id] = [name |-> job[w].name, email |-> job[w].email,
                           role |-> "platform-operator", status |-> InitialStatus]

RowsUseTheirIds ==
  \A i \in Ids : accounts[i] # Absent \/ requests[i] # Absent => i \in usedIds

ReviewHasItsRequest ==
  \A w \in Workers : At(w, "syncAccount") => requests[job[w].id] # Absent

\* Apart from the claim itself: one review under way at most, and it carries
\* the status the request has.
SettledIds ==
  \A i \in Ids \ unsettled :
    /\ \A w, v \in Undelivered(i) : w = v
    /\ \A w \in Undelivered(i) : job[w].decision = requests[i].status
    /\ accounts[i] # Absent /\ accounts[i].role # "platform-admin" =>
         \/ \E w \in Workers : At(w, "insertRequest") /\ job[w].id = i
         \/ /\ requests[i] # Absent
            /\ Undelivered(i) = {} => accounts[i].status = requests[i].status

AccountsAreLocal ==
  ~LocalEnabled => /\ \A i \in Ids : accounts[i] = Absent
                   /\ \A w \in Workers : ~At(w, "insertAccount")

IInv ==
  /\ TypeOK
  /\ SignupOwnsItsId
  /\ SignupWroteItsAccount
  /\ RowsUseTheirIds
  /\ ReviewHasItsRequest
  /\ RequestHasItsAccount
  /\ SettledIds
  /\ AccountsAreLocal

-----------------------------------------------------------------------------
(* One lemma per action that writes a table, one for all that do not.      *)

\* The account is written under a uuid that only this signup has.
LEMMA InsertAccountKeepsIInv ==
  ASSUME IInv, TypeOK', NEW w \in Workers, InsertAccount(w)
  PROVE  IInv'
<1> DEFINE i == job[w].id
<1> USE DEF At, Proceed, Answer, Heard, Unheard, AccountRefused, Unsettle, Signup
<1>1. /\ job[w] \in SignupJob /\ i \in Ids
      /\ accounts[i] = Absent /\ requests[i] = Absent
      /\ \A v \in Workers : Signup(v) /\ job[v].id = i => v = w
  BY JobKind DEF InsertAccount, IInv, SignupOwnsItsId, SignupJob
<1>2. /\ requests' = requests /\ usedIds' = usedIds
      /\ \A j \in Ids : j # i => accounts'[j] = accounts[j]
      /\ \A v \in Workers : v # w => job'[v] = job[v]
      /\ job'[w].at \in {"insertRequest", "answered"}
  BY <1>1 DEF InsertAccount, IInv, TypeOK, AccountTable, SignupJob
<1>3. job'[w].at = "insertRequest" =>
        /\ job'[w].id = i
        /\ accounts'[i] = [name |-> job'[w].name, email |-> job'[w].email,
                           role |-> "platform-operator", status |-> InitialStatus]
  BY <1>1 DEF InsertAccount, IInv, TypeOK, AccountTable, SignupJob
<1>4. SignupOwnsItsId'
  <2>1. \A v \in Workers : Signup(v) => job[v].id \in Ids
    BY JobKind DEF IInv, SignupJob
  <2>2. \A v \in Workers : Signup(v)' => Signup(v) /\ job'[v].id = job[v].id
    BY <1>2, <1>3 DEF InsertAccount
  <2> QED BY <1>1, <1>2, <1>3, <2>1, <2>2 DEF IInv, SignupOwnsItsId
<1>5. SignupWroteItsAccount'
  BY <1>1, <1>2, <1>3 DEF IInv, SignupOwnsItsId, SignupWroteItsAccount, TypeOK
<1>6. RowsUseTheirIds'
  BY <1>1, <1>2 DEF InsertAccount, IInv, SignupOwnsItsId, RowsUseTheirIds
<1>7. ReviewHasItsRequest'
  BY <1>2 DEF IInv, ReviewHasItsRequest
<1>8. RequestHasItsAccount'
  BY <1>1, <1>2 DEF IInv, RequestHasItsAccount
<1>9. SettledIds'
  <2>1. \A j \in Ids : Undelivered(j)' = Undelivered(j)
    BY <1>2 DEF InsertAccount, Undelivered
  <2>2. SUFFICES ASSUME NEW j \in Ids \ unsettled'
                 PROVE  /\ \A u, v \in Undelivered(j) : u = v
                        /\ \A u \in Undelivered(j) : job'[u].decision = requests[j].status
                        /\ accounts'[j] # Absent /\ accounts'[j].role # "platform-admin" =>
                             \/ \E v \in Workers : At(v, "insertRequest")' /\ job'[v].id = j
                             \/ /\ requests[j] # Absent
                                /\ Undelivered(j) = {} => accounts'[j].status = requests[j].status
    BY <1>2, <2>1 DEF SettledIds
  <2>3. j \notin unsettled
    BY <1>1 DEF InsertAccount
  <2>4. \A u \in Undelivered(j) : u \in Workers /\ job'[u] = job[u]
    BY <1>2 DEF InsertAccount, Undelivered
  <2>5. CASE j = i
    <3>1. Undelivered(j) = {}
      BY <1>1, <2>5 DEF IInv, ReviewHasItsRequest, Undelivered
    <3>2. accounts'[i] = Absent \/ (At(w, "insertRequest")' /\ job'[w].id = i)
      BY <1>1, <1>3, <2>2, <2>5 DEF InsertAccount, IInv, TypeOK, SignupJob
    <3> QED BY <2>5, <3>1, <3>2
  <2>6. CASE j # i
    <3>1. \A v \in Workers : At(v, "insertRequest") /\ job[v].id = j => job'[v] = job[v]
      BY <1>2 DEF InsertAccount
    <3> QED BY <1>2, <2>3, <2>4, <2>6, <3>1 DEF IInv, SettledIds
  <2> QED BY <2>5, <2>6
<1>10. AccountsAreLocal'
  BY <1>1, <1>2 DEF InsertAccount, IInv, AccountsAreLocal
<1> QED BY <1>4, <1>5, <1>6, <1>7, <1>8, <1>9, <1>10 DEF IInv

\* The request is written beside its account, or the id is unsettled.
LEMMA InsertRequestKeepsIInv ==
  ASSUME IInv, TypeOK', NEW w \in Workers, InsertRequest(w)
  PROVE  IInv'
<1> DEFINE i == job[w].id
<1> USE DEF At, Proceed, Answer, Heard, Unheard, RequestRefused, FiledStatus, Unsettle, Signup
<1>1. /\ job[w] \in SignupJob /\ i \in Ids /\ i \in usedIds
      /\ requests[i] = Absent
      /\ \A v \in Workers : Signup(v) /\ job[v].id = i => v = w
  BY JobKind DEF InsertRequest, IInv, SignupOwnsItsId, SignupJob
<1>2. /\ accounts' = accounts /\ usedIds' = usedIds
      /\ \A j \in Ids : j # i => requests'[j] = requests[j]
      /\ \A v \in Workers : v # w => job'[v] = job[v]
      /\ job'[w].at = "answered"
      /\ unsettled \subseteq unsettled'
  BY <1>1 DEF InsertRequest, IInv, TypeOK, RequestTable
<1>3. \/ /\ requests'[i] = [name |-> job[w].name, email |-> job[w].email,
                           status |-> InitialStatus, by |-> "gateway"]
         /\ requests'[i] # Absent
      \/ /\ requests' = requests
         /\ LocalEnabled => i \in unsettled'
  <2>1. [name |-> job[w].name, email |-> job[w].email,
         status |-> InitialStatus, by |-> "gateway"] \in RequestRow
    BY <1>1 DEF SignupJob, RequestRow, InitialStatus, Statuses, Filers
  <2> QED BY <1>1, <2>1, AbsentIsNoRow DEF InsertRequest, IInv, TypeOK, RequestTable
<1>4. LocalEnabled =>
        accounts[i] = [name |-> job[w].name, email |-> job[w].email,
                       role |-> "platform-operator", status |-> InitialStatus]
  BY DEF InsertRequest, IInv, SignupWroteItsAccount
<1>5. SignupOwnsItsId'
  BY <1>1, <1>2 DEF IInv, SignupOwnsItsId, TypeOK, Job, SignupJob
<1>6. SignupWroteItsAccount'
  BY <1>2 DEF IInv, SignupWroteItsAccount
<1>7. RowsUseTheirIds'
  BY <1>1, <1>2 DEF IInv, RowsUseTheirIds
<1>8. ReviewHasItsRequest'
  <2> SUFFICES ASSUME NEW v \in Workers, At(v, "syncAccount")'
               PROVE  requests'[job'[v].id] # Absent
    BY DEF ReviewHasItsRequest
  <2>1. v # w /\ job'[v] = job[v] /\ job[v].id \in Ids /\ requests[job[v].id] # Absent
    BY <1>2, JobKind DEF IInv, ReviewHasItsRequest, ReviewJob
  <2> QED BY <1>1, <1>2, <2>1
<1>9. RequestHasItsAccount'
  <2>1. LocalEnabled => accounts[i] # Absent
    BY <1>1, <1>4, AbsentIsNoRow DEF SignupJob, AccountRow, InitialStatus, Roles, Statuses
  <2> QED BY <1>1, <1>2, <1>3, <1>4, <2>1 DEF IInv, RequestHasItsAccount
<1>10. SettledIds'
  <2>1. \A j \in Ids : Undelivered(j)' = Undelivered(j)
    BY <1>2 DEF InsertRequest, Undelivered
  <2>2. SUFFICES ASSUME NEW j \in Ids \ unsettled'
                 PROVE  /\ \A u, v \in Undelivered(j) : u = v
                        /\ \A u \in Undelivered(j) : job'[u].decision = requests'[j].status
                        /\ accounts[j] # Absent /\ accounts[j].role # "platform-admin" =>
                             \/ \E v \in Workers : At(v, "insertRequest")' /\ job'[v].id = j
                             \/ /\ requests'[j] # Absent
                                /\ Undelivered(j) = {} => accounts[j].status = requests'[j].status
    BY <1>2, <2>1 DEF SettledIds
  <2>3. j \notin unsettled
    BY <1>2
  <2>4. \A u \in Undelivered(j) : u \in Workers /\ job'[u] = job[u]
    BY <1>2 DEF InsertRequest, Undelivered
  <2>5. CASE j = i
    <3>1. Undelivered(j) = {}
      BY <1>1, <2>5 DEF IInv, ReviewHasItsRequest, Undelivered
    <3>2. ~LocalEnabled => accounts[j] = Absent
      BY DEF IInv, AccountsAreLocal
    <3> QED BY <1>3, <1>4, <2>2, <2>5, <3>1, <3>2
  <2>6. CASE j # i
    <3>1. \A v \in Workers : At(v, "insertRequest") /\ job[v].id = j => job'[v] = job[v]
      BY <1>2, <2>6
    <3> QED BY <1>2, <2>3, <2>4, <2>6, <3>1 DEF IInv, SettledIds
  <2> QED BY <2>5, <2>6
<1>11. AccountsAreLocal'
  BY <1>2 DEF IInv, AccountsAreLocal
<1> QED BY <1>5, <1>6, <1>7, <1>8, <1>9, <1>10, <1>11 DEF IInv

\* A review decides, alone with the id or marking it unsettled.
LEMMA UpdateRequestKeepsIInv ==
  ASSUME IInv, TypeOK', NEW w \in Workers, UpdateRequest(w)
  PROVE  IInv'
<1> DEFINE i == job[w].id
<1> USE DEF At, Proceed, Answer, Heard, Unheard, Settle, Unsettle, Signup
<1>1. job[w] \in ReviewJob /\ i \in Ids
  BY JobKind DEF UpdateRequest, IInv, ReviewJob
<1>2. /\ accounts' = accounts /\ usedIds' = usedIds
      /\ \A j \in Ids : j # i => requests'[j] = requests[j]
      /\ \A v \in Workers : v # w => job'[v] = job[v]
      /\ job'[w].at \in {"syncAccount", "answered"}
      /\ \A j \in Ids : j # i => (j \in unsettled' <=> j \in unsettled)
  BY <1>1 DEF UpdateRequest, IInv, TypeOK, RequestTable, ReviewJob
<1>3. \/ /\ requests[i] = Absent /\ requests' = requests
         /\ job'[w].at = "answered" /\ unsettled' = unsettled
      \/ /\ requests[i] \in RequestRow
         /\ requests'[i] = [requests[i] EXCEPT !.status = job[w].decision]
         /\ \/ job'[w].at = "answered" /\ i \in unsettled'
            \/ /\ job'[w].at = "syncAccount" /\ job'[w].id = i
               /\ job'[w].decision = job[w].decision
               /\ Undelivered(i) # {} => i \in unsettled'
  BY <1>1 DEF UpdateRequest, IInv, TypeOK, RequestTable, ReviewJob
<1>4. requests[i] # Absent =>
        /\ requests'[i] # Absent
        /\ requests'[i].name = requests[i].name
        /\ requests'[i].email = requests[i].email
        /\ requests'[i].by = requests[i].by
        /\ requests'[i].status = job[w].decision
  <2>1. requests'[i] \in RequestRow \cup {Absent}
    BY <1>1 DEF TypeOK, RequestTable
  <2>2. requests[i] # Absent => [requests[i] EXCEPT !.status = job[w].decision] \in RequestRow
    BY <1>1, <1>3 DEF RequestRow, ReviewJob, Decisions, Statuses
  <2> QED BY <1>3, <2>1, <2>2, AbsentIsNoRow DEF RequestRow
<1>5. SignupOwnsItsId'
  <2>1. \A v \in Workers : Signup(v)' => v # w /\ job'[v] = job[v]
    BY <1>2
  <2>2. \A v \in Workers : Signup(v) => job[v].id \in Ids
    BY JobKind DEF IInv, SignupJob
  <2>3. \A j \in Ids : requests[j] = Absent => requests'[j] = Absent
    BY <1>2, <1>3, AbsentIsNoRow
  <2> QED BY <1>2, <2>1, <2>2, <2>3 DEF IInv, SignupOwnsItsId
<1>6. SignupWroteItsAccount'
  BY <1>2 DEF IInv, SignupWroteItsAccount
<1>7. RowsUseTheirIds'
  BY <1>1, <1>2, <1>3, AbsentIsNoRow DEF IInv, RowsUseTheirIds
<1>8. ReviewHasItsRequest'
  <2> SUFFICES ASSUME NEW v \in Workers, At(v, "syncAccount")'
               PROVE  requests'[job'[v].id] # Absent
    BY DEF ReviewHasItsRequest
  <2>1. CASE v = w
    BY <1>3, <1>4, <2>1, AbsentIsNoRow
  <2>2. CASE v # w
    <3>1. job'[v] = job[v] /\ job[v].id \in Ids /\ requests[job[v].id] # Absent
      BY <1>2, <2>2, JobKind DEF IInv, ReviewHasItsRequest, ReviewJob
    <3> QED BY <1>2, <1>4, <3>1
  <2> QED BY <2>1, <2>2
<1>9. RequestHasItsAccount'
  <2> SUFFICES ASSUME LocalEnabled, NEW j \in Ids,
                      requests'[j] # Absent, requests'[j].by = "gateway"
               PROVE  /\ accounts[j] # Absent
                      /\ accounts[j].name = requests'[j].name
                      /\ accounts[j].email = requests'[j].email
    BY <1>2 DEF RequestHasItsAccount
  <2>1. /\ requests[j] # Absent
        /\ requests'[j].by = requests[j].by
        /\ requests'[j].name = requests[j].name
        /\ requests'[j].email = requests[j].email
    BY <1>2, <1>3, <1>4, AbsentIsNoRow
  <2> QED BY <2>1 DEF IInv, RequestHasItsAccount
<1>10. SettledIds'
  <2> SUFFICES ASSUME NEW j \in Ids \ unsettled'
               PROVE  /\ \A u, v \in Undelivered(j)' : u = v
                      /\ \A u \in Undelivered(j)' : job'[u].decision = requests'[j].status
                      /\ accounts[j] # Absent /\ accounts[j].role # "platform-admin" =>
                           \/ \E v \in Workers : At(v, "insertRequest")' /\ job'[v].id = j
                           \/ /\ requests'[j] # Absent
                              /\ Undelivered(j)' = {} => accounts[j].status = requests'[j].status
    BY <1>2 DEF SettledIds
  <2>1. \A v \in Workers : At(v, "insertRequest") => job'[v] = job[v]
    BY <1>2 DEF UpdateRequest
  <2>2. ~At(w, "syncAccount")
    BY DEF UpdateRequest
  <2>3. CASE j = i /\ job'[w].at = "syncAccount"
    <3>1. Undelivered(j) = {} /\ requests[j] # Absent
      BY <1>3, <2>3, AbsentIsNoRow
    <3>2. Undelivered(j)' = {w}
      BY <1>2, <1>3, <2>3, <3>1 DEF Undelivered
    <3> QED BY <1>3, <1>4, <2>3, <3>1, <3>2
  <2>4. CASE j # i \/ job'[w].at = "answered"
    <3>1. requests'[j] = requests[j] /\ j \notin unsettled
      BY <1>2, <1>3, <2>4
    <3>2. Undelivered(j)' = Undelivered(j)
      BY <1>2, <1>3, <2>2, <2>4 DEF Undelivered
    <3>3. \A u \in Undelivered(j) : u \in Workers /\ job'[u] = job[u]
      BY <1>2, <2>2 DEF Undelivered
    <3> QED BY <2>1, <3>1, <3>2, <3>3 DEF IInv, SettledIds
  <2> QED BY <1>2, <2>3, <2>4
<1>11. AccountsAreLocal'
  BY <1>2 DEF IInv, AccountsAreLocal
<1> QED BY <1>5, <1>6, <1>7, <1>8, <1>9, <1>10, <1>11 DEF IInv

\* A review copies its decision to the account, and the two agree.
LEMMA SyncAccountKeepsIInv ==
  ASSUME IInv, TypeOK', NEW w \in Workers, SyncAccount(w)
  PROVE  IInv'
<1> DEFINE i == job[w].id
<1> USE DEF At, Proceed, Answer, Heard, Unheard, SyncedStatus, Signup
<1>1. job[w] \in ReviewJob /\ i \in Ids /\ requests[i] # Absent
  BY JobKind DEF SyncAccount, IInv, ReviewJob, ReviewHasItsRequest
<1>2. /\ requests' = requests /\ usedIds' = usedIds /\ unsettled' = unsettled
      /\ \A j \in Ids : j # i => accounts'[j] = accounts[j]
      /\ \A v \in Workers : v # w => job'[v] = job[v]
      /\ job'[w].at = "answered"
  BY <1>1 DEF SyncAccount, IInv, TypeOK, AccountTable
<1>3. /\ accounts[i] = Absent => accounts'[i] = Absent
      /\ accounts[i] # Absent =>
           /\ accounts'[i] # Absent
           /\ accounts'[i].name = accounts[i].name
           /\ accounts'[i].email = accounts[i].email
           /\ accounts'[i].role = accounts[i].role
           /\ accounts'[i].status = job[w].decision
  <2>1. accounts[i] # Absent => accounts[i] \in AccountRow /\ LocalEnabled
    BY <1>1 DEF IInv, TypeOK, AccountTable, AccountsAreLocal
  <2>2. accounts[i] # Absent =>
          /\ accounts'[i] = [accounts[i] EXCEPT !.status = job[w].decision]
          /\ accounts'[i] \in AccountRow
    BY <1>1, <2>1 DEF SyncAccount, IInv, TypeOK, AccountTable, AccountRow,
          ReviewJob, Decisions, Statuses
  <2> QED BY <1>1, <2>1, <2>2, AbsentIsNoRow DEF SyncAccount, AccountRow
<1>4. \A v \in Workers : Signup(v)' => v # w /\ job'[v] = job[v]
  BY <1>2
<1>5. \A v \in Workers : Signup(v) => job[v].id \in Ids /\ job[v].id # i
  <2>1. \A v \in Workers : Signup(v) => requests[job[v].id] = Absent
    BY DEF IInv, SignupOwnsItsId
  <2> QED BY <1>1, <2>1, JobKind DEF IInv, SignupJob
<1>6. SignupOwnsItsId'
  BY <1>2, <1>4, <1>5 DEF IInv, SignupOwnsItsId
<1>7. SignupWroteItsAccount'
  BY <1>2, <1>4, <1>5 DEF IInv, SignupWroteItsAccount
<1>8. RowsUseTheirIds'
  BY <1>1, <1>2, <1>3 DEF IInv, RowsUseTheirIds
<1>9. ReviewHasItsRequest'
  BY <1>2 DEF IInv, ReviewHasItsRequest
<1>10. RequestHasItsAccount'
  BY <1>1, <1>2, <1>3 DEF IInv, RequestHasItsAccount
<1>11. SettledIds'
  <2> SUFFICES ASSUME NEW j \in Ids \ unsettled
               PROVE  /\ \A u, v \in Undelivered(j)' : u = v
                      /\ \A u \in Undelivered(j)' : job'[u].decision = requests[j].status
                      /\ accounts'[j] # Absent /\ accounts'[j].role # "platform-admin" =>
                           \/ \E v \in Workers : At(v, "insertRequest")' /\ job'[v].id = j
                           \/ /\ requests[j] # Absent
                              /\ Undelivered(j)' = {} => accounts'[j].status = requests[j].status
    BY <1>2 DEF SettledIds
  <2>1. Undelivered(j)' = Undelivered(j) \ {w}
    BY <1>2 DEF Undelivered
  <2>2. \A u \in Undelivered(j)' : job'[u] = job[u]
    BY <1>2, <2>1 DEF Undelivered
  <2>3. /\ \A u, v \in Undelivered(j) : u = v
        /\ \A u \in Undelivered(j) : job[u].decision = requests[j].status
    BY DEF IInv, SettledIds
  <2>4. CASE j = i
    <3>1. w \in Undelivered(j)
      BY <2>4 DEF SyncAccount, Undelivered
    <3> QED BY <1>1, <1>3, <2>1, <2>2, <2>3, <2>4, <3>1
  <2>5. CASE j # i
    <3>1. Undelivered(j)' = Undelivered(j) /\ accounts'[j] = accounts[j]
      BY <1>2, <2>1, <2>5 DEF Undelivered
    <3>2. \A v \in Workers : At(v, "insertRequest") => job'[v] = job[v]
      BY <1>2 DEF SyncAccount
    <3> QED BY <2>2, <3>1, <3>2 DEF IInv, SettledIds
  <2> QED BY <2>4, <2>5
<1>12. AccountsAreLocal'
  BY <1>1, <1>2, <1>3 DEF IInv, AccountsAreLocal
<1> QED BY <1>6, <1>7, <1>8, <1>9, <1>10, <1>11, <1>12 DEF IInv

\* A step that changes no row and starts no signup: it may begin a review,
\* or end a handler, if it marks what the handler leaves half written.
LEMMA QuietStepKeepsIInv ==
  ASSUME IInv, TypeOK', UNCHANGED <<accounts, requests, usedIds>>,
         unsettled \subseteq unsettled',
         \A v \in Workers : Signup(v)' \/ At(v, "syncAccount")' => job'[v] = job[v],
         \A v \in Workers :
           (LocalEnabled /\ At(v, "insertRequest")) \/ At(v, "syncAccount") =>
             job'[v] = job[v] \/ job[v].id \in unsettled'
  PROVE  IInv'
<1> USE DEF At, Signup
<1>1. SignupOwnsItsId'
  BY DEF IInv, SignupOwnsItsId
<1>2. SignupWroteItsAccount'
  BY DEF IInv, SignupWroteItsAccount
<1>3. RowsUseTheirIds'
  BY DEF IInv, RowsUseTheirIds
<1>4. ReviewHasItsRequest'
  BY DEF IInv, ReviewHasItsRequest
<1>5. RequestHasItsAccount'
  BY DEF IInv, RequestHasItsAccount
<1>6. SettledIds'
  <2> SUFFICES ASSUME NEW j \in Ids \ unsettled'
               PROVE  /\ \A u, v \in Undelivered(j)' : u = v
                      /\ \A u \in Undelivered(j)' : job'[u].decision = requests[j].status
                      /\ accounts[j] # Absent /\ accounts[j].role # "platform-admin" =>
                           \/ \E v \in Workers : At(v, "insertRequest")' /\ job'[v].id = j
                           \/ /\ requests[j] # Absent
                              /\ Undelivered(j)' = {} => accounts[j].status = requests[j].status
    BY DEF SettledIds
  <2>1. /\ Undelivered(j)' = Undelivered(j)
        /\ \A u \in Undelivered(j) : job'[u] = job[u]
    BY DEF Undelivered
  <2>2. accounts[j] # Absent => LocalEnabled
    BY DEF IInv, AccountsAreLocal
  <2> QED BY <2>1, <2>2 DEF IInv, SettledIds
<1>7. AccountsAreLocal'
  BY DEF IInv, AccountsAreLocal
<1> QED BY <1>1, <1>2, <1>3, <1>4, <1>5, <1>6, <1>7 DEF IInv

\* A signup begins with a uuid of its own.
LEMMA StartSignupKeepsIInv ==
  ASSUME IInv, TypeOK', NEW w \in Workers, StartSignup(w)
  PROVE  IInv'
<1> USE DEF At, Signup
<1>1. PICK i \in Ids \ usedIds : usedIds' = usedIds \cup {i} /\ job'[w].id = i
  BY DEF StartSignup, IInv, TypeOK
<1>2. /\ UNCHANGED <<accounts, requests, unsettled>>
      /\ \A v \in Workers : v # w => job'[v] = job[v]
      /\ job'[w].at = IF LocalEnabled THEN "insertAccount" ELSE "insertRequest"
      /\ ~Signup(w) /\ ~At(w, "syncAccount")
  BY DEF StartSignup, IInv, TypeOK
<1>3. accounts[i] = Absent /\ requests[i] = Absent
  BY <1>1 DEF IInv, RowsUseTheirIds
<1>4. SignupOwnsItsId'
  BY <1>1, <1>2, <1>3 DEF IInv, SignupOwnsItsId
<1>5. SignupWroteItsAccount'
  BY <1>2 DEF IInv, SignupWroteItsAccount
<1>6. RowsUseTheirIds'
  BY <1>1, <1>2 DEF IInv, RowsUseTheirIds
<1>7. ReviewHasItsRequest'
  BY <1>2 DEF IInv, ReviewHasItsRequest
<1>8. RequestHasItsAccount'
  BY <1>2 DEF IInv, RequestHasItsAccount
<1>9. SettledIds'
  <2>1. \A j \in Ids : Undelivered(j)' = Undelivered(j)
    BY <1>2 DEF Undelivered
  <2>2. \A j \in Ids : \A u \in Undelivered(j) : job'[u] = job[u]
    BY <1>2 DEF Undelivered
  <2> QED BY <1>2, <2>1, <2>2 DEF IInv, SettledIds
<1>10. AccountsAreLocal'
  BY <1>2 DEF IInv, AccountsAreLocal
<1> QED BY <1>4, <1>5, <1>6, <1>7, <1>8, <1>9, <1>10 DEF IInv

\* A statement of another program under a fresh id: the Ruby service's
\* signup, or the default administrator's row.
LEMMA OtherRowKeepsIInv ==
  ASSUME IInv, TypeOK', RubySignup \/ BootstrapAdmin
  PROVE  IInv'
<1> USE DEF At, Signup
<1>1. PICK i \in Ids \ usedIds :
        /\ usedIds' = usedIds \cup {i}
        /\ \A j \in Ids : j # i => accounts'[j] = accounts[j] /\ requests'[j] = requests[j]
        /\ accounts'[i] = accounts[i] \/ (LocalEnabled /\ accounts'[i] = AdminRow)
        /\ requests'[i] = Absent \/ requests'[i].by = "rubyApp"
  BY DEF RubySignup, BootstrapAdmin, IInv, TypeOK, AccountTable, RequestTable,
         RowsUseTheirIds
<1>2. UNCHANGED <<job, unsettled>>
  BY DEF RubySignup, BootstrapAdmin
<1>3. accounts[i] = Absent /\ requests[i] = Absent
  BY <1>1 DEF IInv, RowsUseTheirIds
<1>4. \A v \in Workers : Signup(v) \/ At(v, "syncAccount") => job[v].id \in Ids /\ job[v].id # i
  BY <1>1, <1>3, JobKind
     DEF IInv, SignupOwnsItsId, ReviewHasItsRequest, SignupJob, ReviewJob
<1>5. SignupOwnsItsId'
  BY <1>1, <1>2, <1>4 DEF IInv, SignupOwnsItsId
<1>6. SignupWroteItsAccount'
  BY <1>1, <1>2, <1>4 DEF IInv, SignupWroteItsAccount
<1>7. RowsUseTheirIds'
  BY <1>1, <1>3 DEF IInv, RowsUseTheirIds
<1>8. ReviewHasItsRequest'
  BY <1>1, <1>2, <1>4 DEF IInv, ReviewHasItsRequest
<1>9. RequestHasItsAccount'
  BY <1>1 DEF IInv, RequestHasItsAccount
<1>10. SettledIds'
  <2>1. \A j \in Ids : Undelivered(j)' = Undelivered(j)
    BY <1>2 DEF Undelivered
  <2>2. Undelivered(i) = {}
    BY <1>4 DEF Undelivered
  <2>3. accounts'[i] = Absent \/ accounts'[i].role = "platform-admin"
    BY <1>1, <1>3 DEF AdminRow
  <2>4. ASSUME NEW j \in Ids, j # i
        PROVE  accounts'[j] = accounts[j] /\ requests'[j] = requests[j]
    BY <1>1, <2>4
  <2> QED BY <1>2, <2>1, <2>2, <2>3, <2>4 DEF IInv, SettledIds
<1>11. AccountsAreLocal'
  BY <1>1, <1>2, <1>3 DEF IInv, AccountsAreLocal
<1> QED BY <1>5, <1>6, <1>7, <1>8, <1>9, <1>10, <1>11 DEF IInv

\* Every step keeps the invariant.
LEMMA IInvInductive == IInv /\ [Next]_vars => IInv'
<1> SUFFICES ASSUME IInv, [Next]_vars
             PROVE  IInv'
  OBVIOUS
<1>0. TypeOK'
  BY TypeStep DEF IInv
<1>1. ASSUME NEW w \in Workers, StartSignup(w) PROVE IInv'
  BY <1>0, <1>1, StartSignupKeepsIInv
<1>2. ASSUME NEW w \in Workers, InsertAccount(w) PROVE IInv'
  BY <1>0, <1>2, InsertAccountKeepsIInv
<1>3. ASSUME NEW w \in Workers, InsertRequest(w) PROVE IInv'
  BY <1>0, <1>3, InsertRequestKeepsIInv
<1>4. ASSUME NEW w \in Workers, UpdateRequest(w) PROVE IInv'
  BY <1>0, <1>4, UpdateRequestKeepsIInv
<1>5. ASSUME NEW w \in Workers, SyncAccount(w) PROVE IInv'
  BY <1>0, <1>5, SyncAccountKeepsIInv
<1>6. CASE RubySignup \/ BootstrapAdmin
  BY <1>0, <1>6, OtherRowKeepsIInv
<1>7. ASSUME NEW w \in Workers, StartReview(w) \/ RefusePayload(w) \/ NextRequest(w)
      PROVE  IInv'
  <2>1. /\ UNCHANGED <<accounts, requests, usedIds, unsettled>>
        /\ \A v \in Workers : v # w => job'[v] = job[v]
        /\ ~Signup(w)' /\ ~At(w, "syncAccount")'
        /\ ~Signup(w) /\ ~At(w, "syncAccount")
    BY <1>7 DEF StartReview, RefusePayload, NextRequest, Idle, At, Signup, IInv, TypeOK
  <2>2. \A v \in Workers : Signup(v)' \/ At(v, "syncAccount")' => job'[v] = job[v]
    BY <2>1
  <2>3. \A v \in Workers : Signup(v) \/ At(v, "syncAccount") => job'[v] = job[v]
    BY <2>1
  <2> QED BY <1>0, <2>1, <2>2, <2>3, QuietStepKeepsIInv DEF Signup
<1>8. ASSUME NEW w \in Workers, StatementFails(w) PROVE IInv'
  <2>1. /\ UNCHANGED <<accounts, requests, usedIds>>
        /\ unsettled \subseteq unsettled'
        /\ \A v \in Workers : v # w => job'[v] = job[v]
        /\ job'[w].at = "answered"
        /\ (LocalEnabled /\ At(w, "insertRequest")) \/ At(w, "syncAccount")
             => job[w].id \in unsettled'
    BY <1>8 DEF StatementFails, Answer, Unsettle, IInv, TypeOK
  <2>2. \A v \in Workers : Signup(v)' \/ At(v, "syncAccount")' => job'[v] = job[v]
    BY <2>1 DEF At, Signup
  <2>3. \A v \in Workers :
          (LocalEnabled /\ At(v, "insertRequest")) \/ At(v, "syncAccount") =>
            job'[v] = job[v] \/ job[v].id \in unsettled'
    BY <2>1
  <2> QED BY <1>0, <2>1, <2>2, <2>3, QuietStepKeepsIInv
<1>9. CASE DbStalls \/ DbRecovers \/ (\E w \in Workers : Abandon(w)) \/ UNCHANGED vars
  <2>1. UNCHANGED <<accounts, requests, usedIds, job, unsettled>>
    BY <1>9 DEF DbStalls, DbRecovers, Abandon, vars
  <2> QED BY <1>0, <2>1, QuietStepKeepsIInv DEF At, Signup
<1> QED
  BY <1>1, <1>2, <1>3, <1>4, <1>5, <1>6, <1>7, <1>8, <1>9
     DEF Next, HandlerStep, ClientStep

\* Empty tables and idle workers satisfy the invariant.
LEMMA IInvInitially == Init => IInv
BY AbsentIsNoRow
   DEF Init, IInv, TypeOK, EmptyTable, AccountTable, RequestTable, Idle, Job, IdleJob,
       At, Signup, Undelivered, SignupOwnsItsId, SignupWroteItsAccount, RowsUseTheirIds,
       ReviewHasItsRequest, RequestHasItsAccount, SettledIds, AccountsAreLocal

\* The invariant holds in every reachable state.
LEMMA AlwaysIInv == Spec => []IInv
BY IInvInitially, IInvInductive, PTL DEF Spec

\* A request the gateway filed always has its account, for any number of
\* handlers, failures and overlaps: no order of handleSignup's two inserts
\* and the reviews' updates leaves a request nobody can sign in with.
THEOREM RequestAccountLinked == Spec => []RequestHasItsAccount
<1>1. IInv => RequestHasItsAccount
  BY DEF IInv
<1> QED BY <1>1, AlwaysIInv, PTL

\* Where no handler failed half way and no reviews overlapped, account and
\* request agree: the two statements of a review suffice without a
\* transaction as long as reviews of one id come one after the other.
THEOREM SettledAgreement == Spec => []SettledRowsAgree
<1>1. IInv => SettledRowsAgree
  BY DEF IInv, SettledIds, SettledRowsAgree
<1> QED BY <1>1, AlwaysIInv, PTL

-----------------------------------------------------------------------------
(***************************************************************************)
(* Refinement: seen from the accounts table the handlers are               *)
(* AccountDirectory.  The step that needs an invariant is SyncAccount,     *)
(* which updates whatever row has the reviewed id: it is never the         *)
(* administrator's, because nobody files a request under that id.          *)
(***************************************************************************)

AdminIsNoSignup ==
  \A i \in Ids :
    accounts[i] # Absent /\ accounts[i].role = "platform-admin" => requests[i] = Absent

\* No step files a request under an administrator's id.
LEMMA AdminStep == IInv /\ AdminIsNoSignup /\ [Next]_vars => AdminIsNoSignup'
<1> SUFFICES ASSUME IInv, AdminIsNoSignup, [Next]_vars
             PROVE  AdminIsNoSignup'
  OBVIOUS
<1>1. ASSUME NEW w \in Workers, InsertAccount(w) PROVE AdminIsNoSignup'
  <2>1. UNCHANGED requests /\ requests[job[w].id] = Absent
    BY <1>1 DEF InsertAccount, IInv, SignupOwnsItsId, Signup
  <2>2. \A j \in Ids : j # job[w].id => accounts'[j] = accounts[j]
    BY <1>1 DEF InsertAccount, IInv, TypeOK, AccountTable
  <2> QED BY <2>1, <2>2 DEF AdminIsNoSignup
<1>2. ASSUME NEW w \in Workers, InsertRequest(w) PROVE AdminIsNoSignup'
  <2>1. UNCHANGED accounts
    BY <1>2 DEF InsertRequest
  <2>2. accounts[job[w].id] # Absent => accounts[job[w].id].role # "platform-admin"
    <3>1. At(w, "insertRequest") /\ job[w].id \in Ids
      BY <1>2, JobKind DEF InsertRequest, IInv, SignupJob
    <3>2. CASE LocalEnabled
      <4>1. accounts[job[w].id] = [name |-> job[w].name, email |-> job[w].email,
                                   role |-> "platform-operator",
                                   status |-> InitialStatus]
        BY <3>1, <3>2 DEF IInv, SignupWroteItsAccount
      <4> QED BY <4>1
    <3>3. CASE ~LocalEnabled
      BY <3>1, <3>3 DEF IInv, AccountsAreLocal
    <3> QED BY <3>2, <3>3
  <2>3. \A j \in Ids : j # job[w].id => requests'[j] = requests[j]
    BY <1>2 DEF InsertRequest, IInv, TypeOK, RequestTable
  <2> QED BY <2>1, <2>2, <2>3 DEF AdminIsNoSignup
<1>3. ASSUME NEW w \in Workers, UpdateRequest(w) PROVE AdminIsNoSignup'
  <2>1. UNCHANGED accounts
    BY <1>3 DEF UpdateRequest
  <2>2. \A j \in Ids : requests[j] = Absent => requests'[j] = Absent
    BY <1>3 DEF UpdateRequest, IInv, TypeOK, RequestTable
  <2> QED BY <2>1, <2>2 DEF AdminIsNoSignup
<1>4. ASSUME NEW w \in Workers, SyncAccount(w) PROVE AdminIsNoSignup'
  <2>1. UNCHANGED requests
    BY <1>4 DEF SyncAccount
  <2>2. requests[job[w].id] # Absent
    BY <1>4 DEF SyncAccount, IInv, ReviewHasItsRequest
  <2>3. \A j \in Ids : j # job[w].id => accounts'[j] = accounts[j]
    BY <1>4 DEF SyncAccount, IInv, TypeOK, AccountTable
  <2>4. accounts[job[w].id] # Absent =>
          accounts[job[w].id].role # "platform-admin"
    BY <1>4, <2>2, JobKind DEF SyncAccount, IInv, ReviewJob, AdminIsNoSignup
  <2>5. accounts'[job[w].id] # Absent =>
          accounts'[job[w].id].role # "platform-admin"
    BY <1>4, <2>4, JobKind
       DEF SyncAccount, IInv, TypeOK, AccountTable, AccountRow, ReviewJob
  <2> QED BY <2>1, <2>3, <2>5 DEF AdminIsNoSignup
<1>5. CASE RubySignup \/ BootstrapAdmin
  <2>1. PICK i \in Ids :
          /\ requests[i] = Absent /\ accounts[i] = Absent
          /\ \A j \in Ids : j # i => accounts'[j] = accounts[j] /\ requests'[j] = requests[j]
          /\ accounts'[i] = Absent \/ requests'[i] = Absent
    BY <1>5 DEF RubySignup, BootstrapAdmin, IInv, TypeOK, AccountTable, RequestTable,
                RowsUseTheirIds
  <2> QED BY <2>1 DEF AdminIsNoSignup
<1>6. CASE UNCHANGED <<accounts, requests>>
  BY <1>6 DEF AdminIsNoSignup
<1> QED
  BY <1>1, <1>2, <1>3, <1>4, <1>5, <1>6
     DEF Next, HandlerStep, ClientStep, StartSignup, StartReview, RefusePayload,
         NextRequest, StatementFails, Abandon, DbStalls, DbRecovers, vars

\* Every step of the handlers is a step of the directory or none.
LEMMA DirectoryStep == IInv /\ AdminIsNoSignup /\ [Next]_vars => [Directory!Next]_accounts
<1> SUFFICES ASSUME IInv, AdminIsNoSignup, [Next]_vars
             PROVE  [Directory!Next]_accounts
  OBVIOUS
<1>1. ASSUME NEW w \in Workers, InsertAccount(w), accounts' # accounts
      PROVE  Directory!Next
  <2>1. job[w] \in SignupJob /\ accounts[job[w].id] = Absent
    BY <1>1, JobKind DEF InsertAccount, IInv, SignupOwnsItsId, Signup
  <2>2. Directory!Enrol(job[w].id)
    BY <1>1, <2>1 DEF InsertAccount, AccountIsFree, Directory!Enrol, SignupJob, NameFree, EmailFree,
                      Directory!NameFree, Directory!EmailFree
  <2> QED BY <2>1, <2>2 DEF Directory!Next, SignupJob
<1>2. ASSUME NEW w \in Workers, SyncAccount(w), accounts' # accounts
      PROVE  Directory!Next
  <2>1. job[w] \in ReviewJob /\ job[w].id \in Ids
    BY <1>2, JobKind DEF SyncAccount, IInv, ReviewJob
  <2>2. /\ accounts[job[w].id] # Absent
        /\ accounts' = [accounts EXCEPT ![job[w].id].status = job[w].decision]
    <3>1. accounts[job[w].id] = Absent => accounts' = accounts
      BY <1>2 DEF SyncAccount
    <3> QED BY <1>2, <3>1 DEF SyncAccount, SyncedStatus
  <2>3. accounts[job[w].id].role = "platform-operator"
    BY <1>2, <2>1, <2>2 DEF SyncAccount, IInv, ReviewHasItsRequest, AdminIsNoSignup,
                            TypeOK, AccountTable, AccountRow, Roles
  <2>4. Directory!Judge(job[w].id)
    BY <2>1, <2>2, <2>3 DEF Directory!Judge, ReviewJob, Decisions, Directory!Decisions
  <2> QED BY <2>1, <2>4 DEF Directory!Next
<1>3. ASSUME BootstrapAdmin PROVE Directory!Next
  <2>1. PICK i \in Ids \ usedIds : accounts' = [accounts EXCEPT ![i] = AdminRow]
    BY <1>3 DEF BootstrapAdmin
  <2>2. accounts[i] = Absent
    BY <2>1 DEF IInv, RowsUseTheirIds
  <2>3. Directory!Bootstrap(i)
    BY <1>3, <2>1, <2>2 DEF BootstrapAdmin, AccountIsFree, Directory!Bootstrap, NameFree, EmailFree,
       AdminRow, Directory!NameFree, Directory!EmailFree, Directory!AdminRow
  <2> QED BY <2>3 DEF Directory!Next
<1> QED
  BY <1>1, <1>2, <1>3
     DEF Next, HandlerStep, ClientStep, InsertRequest, UpdateRequest, RubySignup,
         StartSignup, StartReview, RefusePayload, NextRequest, StatementFails,
         Abandon, DbStalls, DbRecovers, vars

\* The handlers implement the directory: rows are only added, unique names
\* and e-mails stay, and a review, however late or repeated, moves nothing
\* but the status of an account that somebody signed up for.
THEOREM DirectoryImplemented == Spec => ImplementsDirectory
<1>1. Init => Directory!Init
  BY DEF Init, Directory!Init, EmptyTable, Directory!EmptyTable
<1>2. Init => AdminIsNoSignup
  BY DEF Init, AdminIsNoSignup, EmptyTable
<1> QED
  BY <1>1, <1>2, AlwaysIInv, AdminStep, DirectoryStep, PTL
     DEF Spec, ImplementsDirectory, Directory!Spec

-----------------------------------------------------------------------------
(***************************************************************************)
(* Replies.  A reply is read some time after the statement it speaks of,   *)
(* so it must hold of tables that other handlers have moved since: rows    *)
(* stay, a decided request is only decided again, and an id whose insert   *)
(* was refused is nobody else's to insert under.                           *)
(***************************************************************************)

ReplyHolds(w) ==
  LET i == job[w].id IN
  /\ job[w].code = 202 => /\ i \in Ids /\ requests[i] # Absent
                          /\ LocalEnabled => accounts[i] # Absent
  /\ job[w].code = 409 => /\ i \in usedIds /\ requests[i] = Absent
                          /\ \A v \in Workers : Signup(v) => job[v].id # i
  /\ job[w].code = 200 => /\ i \in Ids /\ requests[i] # Absent
                          /\ requests[i].status \in Decisions

Replies ==
  \A w \in Workers :
    /\ At(w, "answered") => ReplyHolds(w)
    /\ At(w, "syncAccount") => requests[job[w].id].status \in Decisions

\* What any step does to the rows and ids other requests rely on.
RowsMove ==
  /\ \A i \in Ids : accounts[i] # Absent => accounts'[i] # Absent
  /\ \A i \in Ids : requests[i] # Absent =>
       /\ requests'[i] # Absent
       /\ requests[i].status \in Decisions => requests'[i].status \in Decisions
  /\ \A i \in usedIds : requests[i] = Absent /\ requests'[i] # Absent =>
       \E w \in Workers : Signup(w) /\ job[w].id = i
  /\ usedIds \subseteq usedIds'
  /\ \A v \in Workers : Signup(v)' =>
       (Signup(v) /\ job'[v].id = job[v].id) \/ job'[v].id \notin usedIds

\* The worker's job is the only one that changes, and its reply holds.
NewReply(w) ==
  /\ \A v \in Workers : v # w => job'[v] = job[v]
  /\ At(w, "answered")' => ReplyHolds(w)'
  /\ At(w, "syncAccount")' => requests'[job'[w].id].status \in Decisions

\* An account is added under an id that no reply speaks of; a refused one frees it.
LEMMA AccountRowsMove ==
  ASSUME IInv, IInv', NEW w \in Workers, InsertAccount(w)
  PROVE  RowsMove /\ NewReply(w)
<1> DEFINE i == job[w].id
<1> USE DEF At, Proceed, Answer, Heard, Unheard, AccountRefused, Unsettle, Signup
<1>1. /\ job[w] \in SignupJob /\ i \in Ids /\ i \in usedIds /\ requests[i] = Absent
      /\ accounts[i] = Absent
      /\ \A v \in Workers : Signup(v) /\ job[v].id = i => v = w
  BY JobKind DEF InsertAccount, IInv, SignupOwnsItsId, SignupJob
<1>2. /\ requests' = requests /\ usedIds' = usedIds
      /\ \A j \in Ids : j # i => accounts'[j] = accounts[j]
      /\ \A v \in Workers : v # w => job'[v] = job[v]
  BY <1>1 DEF InsertAccount, IInv, TypeOK, AccountTable
<1>3. \/ job'[w].at = "insertRequest" /\ job'[w].id = i
      \/ job'[w] = [at |-> "answered", id |-> i, code |-> 500]
      \/ job'[w] = [at |-> "answered", id |-> i, code |-> 409]
  BY <1>1 DEF InsertAccount, IInv, TypeOK, SignupJob
<1>4. RowsMove
  <2>1. \A j \in Ids : requests[j] # Absent /\ requests[j].status \in Decisions =>
          requests'[j].status \in Decisions
    BY <1>1, <1>2, <1>3
  <2>2. \A j \in usedIds : requests[j] = Absent /\ requests'[j] # Absent =>
          \E v \in Workers : Signup(v) /\ job[v].id = j
    BY <1>1, <1>2, <1>3 DEF IInv, TypeOK
  <2>3. \A v \in Workers : Signup(v)' =>
          (Signup(v) /\ job'[v].id = job[v].id) \/ job'[v].id \notin usedIds
    BY <1>1, <1>2, <1>3 DEF InsertAccount
  <2>4. \A j \in Ids : requests[j] # Absent => requests'[j] # Absent
    BY <1>1, <1>2, <1>3
  <2> QED BY <1>1, <1>2, <2>1, <2>2, <2>3, <2>4 DEF RowsMove
<1>5. NewReply(w)
  BY <1>1, <1>2, <1>3 DEF NewReply, ReplyHolds
<1> QED BY <1>4, <1>5

\* A request is added by the signup that owns the id, and its 202 holds.
LEMMA RequestRowsMove ==
  ASSUME IInv, IInv', NEW w \in Workers, InsertRequest(w)
  PROVE  RowsMove /\ NewReply(w)
<1> DEFINE i == job[w].id
<1> USE DEF At, Proceed, Answer, Heard, Unheard, RequestRefused, FiledStatus, Unsettle, Signup
<1>1. /\ job[w] \in SignupJob /\ i \in Ids /\ i \in usedIds /\ requests[i] = Absent
      /\ \A v \in Workers : Signup(v) /\ job[v].id = i => v = w
  BY JobKind DEF InsertRequest, IInv, SignupOwnsItsId, SignupJob
<1>2. /\ accounts' = accounts /\ usedIds' = usedIds
      /\ \A j \in Ids : j # i => requests'[j] = requests[j]
      /\ \A v \in Workers : v # w => job'[v] = job[v]
  BY <1>1 DEF InsertRequest, IInv, TypeOK, RequestTable
<1>3. \/ /\ requests'[i] = [name |-> job[w].name, email |-> job[w].email,
                           status |-> InitialStatus, by |-> "gateway"]
         /\ \/ job'[w] = [at |-> "answered", id |-> i, code |-> 202]
            \/ job'[w] = [at |-> "answered", id |-> i, code |-> 500]
      \/ /\ requests' = requests
         /\ \/ job'[w] = [at |-> "answered", id |-> i, code |-> 409]
            \/ job'[w] = [at |-> "answered", id |-> i, code |-> 500]
  BY <1>1 DEF InsertRequest, IInv, TypeOK, RequestTable, SignupJob
<1>4. [name |-> job[w].name, email |-> job[w].email,
       status |-> InitialStatus, by |-> "gateway"] # Absent
  BY <1>1, AbsentIsNoRow DEF SignupJob, RequestRow, InitialStatus, Statuses, Filers
<1>5. LocalEnabled => accounts[i] # Absent
  <2>1. LocalEnabled =>
          accounts[i] = [name |-> job[w].name, email |-> job[w].email,
                         role |-> "platform-operator", status |-> InitialStatus]
    BY DEF InsertRequest, IInv, SignupWroteItsAccount
  <2> QED BY <1>1, <2>1, AbsentIsNoRow
          DEF SignupJob, AccountRow, InitialStatus, Roles, Statuses
<1>6. job'[w].at = "answered"
  BY <1>3
<1>7. RowsMove
  <2>1. \A j \in Ids : requests[j] # Absent /\ requests[j].status \in Decisions =>
          requests'[j].status \in Decisions
    BY <1>1, <1>2, <1>6
  <2>2. \A j \in usedIds : requests[j] = Absent /\ requests'[j] # Absent =>
          \E v \in Workers : Signup(v) /\ job[v].id = j
    BY <1>1, <1>2 DEF IInv, TypeOK, InsertRequest
  <2>3. \A v \in Workers : Signup(v)' =>
          (Signup(v) /\ job'[v].id = job[v].id) \/ job'[v].id \notin usedIds
    BY <1>1, <1>2, <1>6
  <2>4. \A j \in Ids : requests[j] # Absent => requests'[j] # Absent
    BY <1>1, <1>2, <1>6
  <2> QED BY <1>2, <2>1, <2>2, <2>3, <2>4 DEF RowsMove
<1>8. NewReply(w)
  BY <1>1, <1>2, <1>3, <1>4, <1>5, <1>6 DEF NewReply, ReplyHolds
<1> QED BY <1>7, <1>8

\* A review changes the status of a request that is there, to a decision.
LEMMA DecisionRowsMove ==
  ASSUME IInv, IInv', NEW w \in Workers, UpdateRequest(w)
  PROVE  RowsMove /\ NewReply(w)
<1> DEFINE i == job[w].id
<1> USE DEF At, Proceed, Answer, Heard, Unheard, Settle, Unsettle, Signup
<1>1. job[w] \in ReviewJob /\ i \in Ids /\ job[w].decision \in Decisions
  BY JobKind DEF UpdateRequest, IInv, ReviewJob
<1>2. /\ accounts' = accounts /\ usedIds' = usedIds
      /\ \A j \in Ids : j # i => requests'[j] = requests[j]
      /\ \A v \in Workers : v # w => job'[v] = job[v]
  BY <1>1 DEF UpdateRequest, IInv, TypeOK, RequestTable
<1>3. \/ /\ requests[i] = Absent /\ requests' = requests
         /\ \/ job'[w] = [at |-> "answered", id |-> i, code |-> 404]
            \/ job'[w] = [at |-> "answered", id |-> i, code |-> 500]
      \/ /\ requests[i] \in RequestRow
         /\ requests'[i] = [requests[i] EXCEPT !.status = job[w].decision]
         /\ \/ job'[w] = [at |-> "answered", id |-> i, code |-> 500]
            \/ job'[w].at = "syncAccount" /\ job'[w].id = i
  BY <1>1 DEF UpdateRequest, IInv, TypeOK, RequestTable, ReviewJob
<1>4. requests[i] # Absent =>
        requests'[i] # Absent /\ requests'[i].status \in Decisions
  <2>1. requests[i] # Absent => [requests[i] EXCEPT !.status = job[w].decision] \in RequestRow
    BY <1>1, <1>3 DEF RequestRow, Decisions, Statuses
  <2> QED BY <1>1, <1>3, <2>1, AbsentIsNoRow DEF RequestRow
<1>5. job'[w].at \in {"answered", "syncAccount"}
  BY <1>3
<1>6. RowsMove
  <2>0. requests[i] = Absent => requests' = requests
    BY <1>3, AbsentIsNoRow
  <2>1. \A j \in Ids : requests[j] # Absent /\ requests[j].status \in Decisions =>
          requests'[j].status \in Decisions
    BY <1>1, <1>2, <1>3, <1>4, <1>5
  <2>2. \A j \in usedIds : requests[j] = Absent /\ requests'[j] # Absent =>
          \E v \in Workers : Signup(v) /\ job[v].id = j
    BY <1>1, <1>2, <2>0 DEF IInv, TypeOK
  <2>3. \A v \in Workers : Signup(v)' =>
          (Signup(v) /\ job'[v].id = job[v].id) \/ job'[v].id \notin usedIds
    BY <1>1, <1>2, <1>3, <1>4, <1>5
  <2>4. \A j \in Ids : requests[j] # Absent => requests'[j] # Absent
    BY <1>1, <1>2, <1>3, <1>4, <1>5
  <2> QED BY <1>2, <2>1, <2>2, <2>3, <2>4 DEF RowsMove
<1>7. NewReply(w)
  BY <1>1, <1>2, <1>3, <1>4, AbsentIsNoRow DEF NewReply, ReplyHolds
<1> QED BY <1>6, <1>7

\* A decision is copied to an account, and the 200 tells of a decided request.
LEMMA SyncRowsMove ==
  ASSUME IInv, IInv', Replies, NEW w \in Workers, SyncAccount(w)
  PROVE  RowsMove /\ NewReply(w)
<1> DEFINE i == job[w].id
<1> USE DEF At, Proceed, Answer, Heard, Unheard, SyncedStatus, Signup
<1>1. /\ job[w] \in ReviewJob /\ i \in Ids /\ job[w].decision \in Decisions
      /\ requests[i] # Absent /\ requests[i].status \in Decisions
  BY JobKind DEF SyncAccount, IInv, ReviewJob, ReviewHasItsRequest, Replies
<1>2. /\ requests' = requests /\ usedIds' = usedIds
      /\ \A j \in Ids : j # i => accounts'[j] = accounts[j]
      /\ \A v \in Workers : v # w => job'[v] = job[v]
      /\ \/ job'[w] = [at |-> "answered", id |-> i, code |-> 200]
         \/ job'[w] = [at |-> "answered", id |-> i, code |-> 500]
  BY <1>1 DEF SyncAccount, IInv, TypeOK, AccountTable
<1>3. accounts[i] # Absent => accounts'[i] # Absent
  <2>1. accounts[i] # Absent => accounts[i] \in AccountRow
    BY <1>1 DEF IInv, TypeOK, AccountTable
  <2>2. accounts[i] \in AccountRow => [accounts[i] EXCEPT !.status = job[w].decision] \in AccountRow
    BY <1>1 DEF AccountRow, Decisions, Statuses
  <2> QED BY <1>1, <2>1, <2>2, AbsentIsNoRow DEF SyncAccount, IInv, TypeOK, AccountTable
<1>4. job'[w].at = "answered"
  BY <1>2
<1>5. RowsMove
  BY <1>1, <1>2, <1>3, <1>4 DEF RowsMove
<1>6. NewReply(w)
  BY <1>1, <1>2, <1>4 DEF NewReply, ReplyHolds
<1> QED BY <1>5, <1>6

\* A request that comes in, a statement that fails, a worker that is free.
LEMMA OtherJobsMove ==
  ASSUME IInv, NEW w \in Workers,
         StartSignup(w) \/ StartReview(w) \/ RefusePayload(w) \/ NextRequest(w)
         \/ StatementFails(w)
  PROVE  RowsMove /\ NewReply(w)
<1> USE DEF At, Answer, Unsettle, Signup
<1>1. /\ accounts' = accounts /\ requests' = requests /\ usedIds \subseteq usedIds'
      /\ \A v \in Workers : v # w => job'[v] = job[v]
  BY DEF StartSignup, StartReview, RefusePayload, NextRequest, StatementFails, IInv, TypeOK
<1>2. CASE StartSignup(w)
  <2>1. PICK i \in Ids \ usedIds : job'[w].id = i
    BY <1>2 DEF StartSignup, IInv, TypeOK
  <2>2. job'[w].at \in {"insertAccount", "insertRequest"}
    BY <1>2 DEF StartSignup, IInv, TypeOK
  <2> QED BY <1>1, <2>1, <2>2 DEF RowsMove, NewReply
<1>3. CASE ~StartSignup(w)
  <2>1. \/ job'[w].at \in {"updateRequest", "idle"}
        \/ job'[w].at = "answered" /\ job'[w].code \in {400, 500}
    BY <1>3 DEF StartReview, RefusePayload, NextRequest, StatementFails, Idle, IInv, TypeOK
  <2> QED BY <1>1, <2>1 DEF RowsMove, NewReply, ReplyHolds
<1> QED BY <1>2, <1>3

\* The Ruby service and the bootstrap write under ids nobody has.
LEMMA OtherRowsMove ==
  ASSUME IInv, RubySignup \/ BootstrapAdmin
  PROVE  RowsMove /\ UNCHANGED job
<1>1. PICK i \in Ids \ usedIds :
        /\ usedIds' = usedIds \cup {i}
        /\ \A j \in Ids : j # i => accounts'[j] = accounts[j] /\ requests'[j] = requests[j]
  BY DEF RubySignup, BootstrapAdmin, IInv, TypeOK, AccountTable, RequestTable
<1>2. accounts[i] = Absent /\ requests[i] = Absent
  BY <1>1 DEF IInv, RowsUseTheirIds
<1>3. UNCHANGED job
  BY DEF RubySignup, BootstrapAdmin
<1> QED BY <1>1, <1>2, <1>3 DEF RowsMove, Signup, At, IInv, TypeOK

\* A reply that holds goes on to hold.
LEMMA OldReply ==
  ASSUME IInv, RowsMove, NEW w \in Workers, job'[w] = job[w],
         At(w, "answered") => ReplyHolds(w),
         At(w, "syncAccount") => requests[job[w].id].status \in Decisions
  PROVE  /\ At(w, "answered")' => ReplyHolds(w)'
         /\ At(w, "syncAccount")' => requests'[job'[w].id].status \in Decisions
<1>1. At(w, "syncAccount") => job[w].id \in Ids /\ requests[job[w].id] # Absent
  BY JobKind DEF IInv, ReviewHasItsRequest, ReviewJob
<1>2. At(w, "syncAccount")' => requests'[job'[w].id].status \in Decisions
  BY <1>1 DEF RowsMove, At
<1>3. ASSUME At(w, "answered")  PROVE ReplyHolds(w)'
  <2> DEFINE i == job[w].id
  <2>1. job[w].code = 202 => /\ i \in Ids /\ requests'[i] # Absent
                             /\ LocalEnabled => accounts'[i] # Absent
    BY <1>3 DEF ReplyHolds, RowsMove
  <2>2. job[w].code = 409 => /\ i \in usedIds' /\ requests'[i] = Absent
                             /\ \A v \in Workers : Signup(v)' => job'[v].id # i
    BY <1>3 DEF ReplyHolds, RowsMove
  <2>3. job[w].code = 200 => /\ i \in Ids /\ requests'[i] # Absent
                             /\ requests'[i].status \in Decisions
    BY <1>3 DEF ReplyHolds, RowsMove
  <2> QED BY <2>1, <2>2, <2>3 DEF ReplyHolds
<1> QED BY <1>2, <1>3 DEF At

\* Every step keeps the replies given before it true, and gives true ones.
LEMMA RepliesStep == IInv /\ IInv' /\ Replies /\ [Next]_vars => Replies'
<1> SUFFICES ASSUME IInv, IInv', Replies, [Next]_vars
             PROVE  Replies'
  OBVIOUS
<1>1. ASSUME NEW w \in Workers, RowsMove, NewReply(w)  PROVE Replies'
  <2> SUFFICES ASSUME NEW v \in Workers
               PROVE  /\ At(v, "answered")' => ReplyHolds(v)'
                      /\ At(v, "syncAccount")' => requests'[job'[v].id].status \in Decisions
    BY DEF Replies
  <2>1. CASE v = w
    BY <1>1, <2>1 DEF NewReply
  <2>2. CASE v # w
    <3>1. job'[v] = job[v]
      BY <1>1, <2>2 DEF NewReply
    <3> QED BY <1>1, <3>1, OldReply DEF Replies
  <2> QED BY <2>1, <2>2
<1>2. ASSUME RowsMove, UNCHANGED job  PROVE Replies'
  BY <1>2, OldReply DEF Replies
<1>3. CASE DbStalls \/ DbRecovers \/ (\E w \in Workers : Abandon(w)) \/ UNCHANGED vars
  <2>1. UNCHANGED <<accounts, requests, usedIds, job>>
    BY <1>3 DEF DbStalls, DbRecovers, Abandon, vars
  <2>2. RowsMove
    BY <2>1 DEF RowsMove, Signup, At
  <2> QED BY <1>2, <2>1, <2>2
<1> QED
  BY <1>1, <1>2, <1>3, AccountRowsMove, RequestRowsMove, DecisionRowsMove, SyncRowsMove,
     OtherJobsMove, OtherRowsMove
     DEF Next, HandlerStep, ClientStep

\* What a reply said of the tables stays true of them, however many requests
\* run beside and after it: a client told 202 has a request on file and the
\* account to sign in with, one told 409 has left nothing to review, and a
\* reviewer told 200 finds the request decided.
THEOREM RepliesStayTrue == Spec => []RepliesAreTrue
<1>1. Init => Replies
  BY DEF Init, Replies, Idle, At
<1>2. Replies => RepliesAreTrue
  BY DEF Replies, ReplyHolds, RepliesAreTrue
<1> QED BY <1>1, <1>2, AlwaysIInv, RepliesStep, PTL DEF Spec

-----------------------------------------------------------------------------
(***************************************************************************)
(* Refinement: the two tables together are ApprovalLedger, where a verdict *)
(* under way is the decision of a review between its two statements.       *)
(***************************************************************************)

Underway == [i \in Ids |-> {job[w].decision : w \in Undelivered(i)}]

Moves == Ledger!Next \/ UNCHANGED <<Standing, Verdict, Underway>>

\* Verdicts under way change only where a review comes to its second
\* statement or leaves it.
LEMMA UnderwayKept ==
  ASSUME \A v \in Workers : At(v, "syncAccount") \/ At(v, "syncAccount")' => job'[v] = job[v]
  PROVE  UNCHANGED Underway
<1>1. ASSUME NEW i \in Ids
      PROVE  /\ Undelivered(i)' = Undelivered(i)
             /\ \A w \in Undelivered(i) : job'[w] = job[w]
  BY DEF Undelivered, At
<1> QED BY <1>1 DEF Underway

\* An account that is inserted is somebody enrolled in the ledger.
LEMMA EnrolStep ==
  ASSUME IInv, IInv', NEW w \in Workers, InsertAccount(w)
  PROVE  Moves
<1> DEFINE i == job[w].id
<1> USE DEF At, Proceed, Answer, Heard, Unheard, AccountRefused, Unsettle, Signup
<1>1. job[w] \in SignupJob /\ i \in Ids /\ accounts[i] = Absent /\ requests[i] = Absent
  BY JobKind DEF InsertAccount, IInv, SignupOwnsItsId, SignupJob
<1>2. UNCHANGED <<Verdict, Underway>>
  <2>1. requests' = requests
    BY DEF InsertAccount
  <2>2. /\ \A v \in Workers : v # w => job'[v] = job[v]
        /\ job[w].at # "syncAccount" /\ job'[w].at # "syncAccount"
    BY <1>1 DEF InsertAccount, IInv, TypeOK, SignupJob
  <2> QED BY <2>1, <2>2, UnderwayKept DEF Verdict
<1>3. CASE accounts' = accounts
  BY <1>2, <1>3 DEF Moves, Standing
<1>4. CASE accounts' # accounts
  <2> DEFINE row == [name |-> job[w].name, email |-> job[w].email,
                     role |-> "platform-operator", status |-> InitialStatus]
  <2>1. accounts' = [accounts EXCEPT ![i] = row] /\ accounts \in [Ids -> AccountRow \cup {Absent}]
    BY <1>4 DEF InsertAccount, IInv, TypeOK, AccountTable
  <2>2. row \in AccountRow /\ row # AdminRow /\ row.status = InitialStatus
    BY <1>1 DEF SignupJob, AccountRow, InitialStatus, Roles, Statuses, AdminRow
  <2>3. row # Absent
    BY <2>2, AbsentIsNoRow
  <2> HIDE DEF row
  <2>4. Standing' = [Standing EXCEPT ![i] = InitialStatus]
    <3>1. \A j \in Ids : accounts'[j] = IF j = i THEN row ELSE accounts[j]
      BY <2>1
    <3> QED BY <1>1, <2>2, <2>3, <3>1 DEF Standing
  <2>5. Standing[i] = "none" /\ Verdict[i] = "none"
    BY <1>1 DEF Standing, Verdict
  <2>6. Ledger!Enrol(i)
    BY <1>2, <2>4, <2>5 DEF Ledger!Enrol, Underway
  <2> QED BY <1>1, <2>6 DEF Moves, Ledger!Next
<1> QED BY <1>3, <1>4

\* A request is filed, by the gateway or by the Ruby service.
LEMMA FileStep ==
  ASSUME IInv, IInv', (\E w \in Workers : InsertRequest(w)) \/ RubySignup
  PROVE  Moves
<1> USE DEF At, Proceed, Answer, Heard, Unheard, RequestRefused, FiledStatus, Unsettle, Signup
<1>1. accounts' = accounts
  BY DEF InsertRequest, RubySignup
<1>2. UNCHANGED <<Standing, Underway>>
  <2>1. ASSUME NEW w \in Workers, InsertRequest(w), NEW v \in Workers,
               At(v, "syncAccount") \/ At(v, "syncAccount")'
        PROVE  job'[v] = job[v]
    <3>1. /\ v # w => job'[v] = job[v]
          /\ job[w].at # "syncAccount" /\ job'[w].at # "syncAccount"
      BY <2>1 DEF InsertRequest, IInv, TypeOK
    <3> QED BY <2>1, <3>1
  <2> QED BY <1>1, <2>1, UnderwayKept DEF Standing, RubySignup
<1>3. CASE requests' = requests
  BY <1>2, <1>3 DEF Moves, Verdict
<1>4. ASSUME NEW i \in Ids, NEW row \in RequestRow, requests[i] = Absent,
             requests' = [requests EXCEPT ![i] = row],
             row.status \in {InitialStatus, "pending_review"},
             Standing[i] \in {"none", InitialStatus},
             Standing[i] # "none" => row.status = Standing[i]
      PROVE  Moves
  <2>1. row # Absent /\ requests \in [Ids -> RequestRow \cup {Absent}]
    BY AbsentIsNoRow DEF IInv, TypeOK, RequestTable
  <2>2. Verdict' = [Verdict EXCEPT ![i] = row.status]
    <3>1. \A j \in Ids : requests'[j] = IF j = i THEN row ELSE requests[j]
      BY <1>4, <2>1
    <3> QED BY <2>1, <3>1 DEF Verdict
  <2>3. Verdict[i] = "none"
    BY <1>4 DEF Verdict
  <2>4. Ledger!File(i)
    BY <1>2, <1>4, <2>2, <2>3 DEF Ledger!File, Underway
  <2> QED BY <2>4 DEF Moves, Ledger!Next
<1>5. ASSUME NEW w \in Workers, InsertRequest(w), requests' # requests  PROVE Moves
  <2> DEFINE i   == job[w].id
             row == [name |-> job[w].name, email |-> job[w].email,
                     status |-> InitialStatus, by |-> "gateway"]
  <2>1. job[w] \in SignupJob /\ i \in Ids /\ requests[i] = Absent
    BY <1>5, JobKind DEF InsertRequest, IInv, SignupOwnsItsId, SignupJob
  <2>2. requests' = [requests EXCEPT ![i] = row]
    BY <1>5 DEF InsertRequest
  <2>3. row \in RequestRow /\ row.status = InitialStatus
    BY <2>1 DEF SignupJob, RequestRow, InitialStatus, Statuses, Filers
  <2>4. Standing[i] \in {"none", InitialStatus}
    <3>1. CASE LocalEnabled
      <4>1. accounts[i] = [name |-> job[w].name, email |-> job[w].email,
                           role |-> "platform-operator", status |-> InitialStatus]
        BY <1>5, <3>1 DEF InsertRequest, IInv, SignupWroteItsAccount
      <4> QED BY <2>1, <4>1 DEF Standing
    <3>2. CASE ~LocalEnabled
      BY <2>1, <3>2 DEF IInv, AccountsAreLocal, Standing
    <3> QED BY <3>1, <3>2
  <2> HIDE DEF row
  <2> QED BY <1>4, <2>1, <2>2, <2>3, <2>4
<1>6. ASSUME RubySignup  PROVE Moves
  <2>1. PICK i \in Ids \ usedIds, n \in Names, e \in Emails :
          requests' = [requests EXCEPT ![i] =
                         [name |-> n, email |-> e, status |-> "pending_review",
                          by |-> "rubyApp"]]
    BY <1>6 DEF RubySignup
  <2> DEFINE row == [name |-> n, email |-> e, status |-> "pending_review", by |-> "rubyApp"]
  <2>2. requests[i] = Absent /\ accounts[i] = Absent
    BY <2>1 DEF IInv, RowsUseTheirIds
  <2>3. Standing[i] = "none"
    BY <2>1, <2>2 DEF Standing
  <2>4. row \in RequestRow /\ row.status = "pending_review"
    BY <2>1 DEF RequestRow, Statuses, Filers
  <2>5. requests' = [requests EXCEPT ![i] = row]
    BY <2>1
  <2> HIDE DEF row
  <2> QED BY <1>4, <2>1, <2>2, <2>3, <2>4, <2>5
<1> QED BY <1>3, <1>5, <1>6

\* A request that is updated is a verdict given, under way or lost at once.
LEMMA DecideStep ==
  ASSUME IInv, IInv', NEW w \in Workers, UpdateRequest(w)
  PROVE  Moves
<1> DEFINE i == job[w].id
           d == job[w].decision
<1> USE DEF At, Proceed, Answer, Heard, Unheard, Settle, Unsettle, Signup
<1>1. job[w] \in ReviewJob /\ i \in Ids /\ d \in Decisions
  BY JobKind DEF UpdateRequest, IInv, ReviewJob
<1>2. UNCHANGED Standing
  BY DEF UpdateRequest, Standing
<1>3. /\ \A v \in Workers : v # w => job'[v] = job[v]
      /\ job[w].at = "updateRequest"
  BY DEF UpdateRequest, IInv, TypeOK
<1>4. CASE requests[i] = Absent
  <2>1. requests' = requests /\ job'[w].at = "answered"
    BY <1>4 DEF UpdateRequest, IInv, TypeOK
  <2>2. UNCHANGED Underway
    BY <1>3, <2>1, UnderwayKept
  <2> QED BY <1>2, <2>1, <2>2 DEF Moves, Verdict
<1>5. CASE requests[i] # Absent
  <2>1. /\ requests \in [Ids -> RequestRow \cup {Absent}] /\ requests[i] \in RequestRow
        /\ requests' = [requests EXCEPT ![i].status = d]
    BY <1>1, <1>5 DEF UpdateRequest, IInv, TypeOK, RequestTable
  <2>2. [requests[i] EXCEPT !.status = d] \in RequestRow
    BY <1>1, <2>1 DEF RequestRow, Decisions, Statuses
  <2>3. PICK row \in RequestRow : row = [requests[i] EXCEPT !.status = d]
    BY <2>2
  <2>4. row.status = d /\ row # Absent
    BY <2>1, <2>3, AbsentIsNoRow DEF RequestRow
  <2>5. \A j \in Ids : requests'[j] = IF j = i THEN row ELSE requests[j]
    BY <2>1, <2>3
  <2>6. Verdict' = [Verdict EXCEPT ![i] = d]
    BY <1>1, <2>4, <2>5 DEF Verdict
  <2>7. Verdict[i] # "none"
    BY <1>1, <1>5, <2>1 DEF Verdict, RequestRow, Statuses
  <2>8. \/ UNCHANGED Underway
        \/ Underway' = [Underway EXCEPT ![i] = @ \cup {d}]
    <3>1. \/ job'[w].at = "answered"
          \/ job'[w].at = "syncAccount" /\ job'[w].id = i /\ job'[w].decision = d
      BY <1>1, <1>5 DEF UpdateRequest, IInv, TypeOK, ReviewJob
    <3>2. CASE job'[w].at = "answered"
      BY <1>3, <3>2, UnderwayKept
    <3>3. CASE job'[w].at = "syncAccount" /\ job'[w].id = i /\ job'[w].decision = d
      <4>1. \A j \in Ids :
              Undelivered(j)' = IF j = i THEN Undelivered(j) \cup {w} ELSE Undelivered(j)
        BY <1>3, <3>3 DEF Undelivered
      <4>2. \A j \in Ids : \A v \in Undelivered(j) : job'[v] = job[v]
        BY <1>3 DEF Undelivered
      <4>3. Underway'[i] = Underway[i] \cup {d}
        BY <1>1, <3>3, <4>1, <4>2 DEF Underway
      <4>4. \A j \in Ids : j # i => Underway'[j] = Underway[j]
        BY <4>1, <4>2 DEF Underway
      <4> HIDE DEF i, d
      <4> QED BY <1>1, <4>3, <4>4 DEF Underway
    <3> QED BY <3>1, <3>2, <3>3
  <2>9. PICK j \in Ids : j = i
    BY <1>1
  <2>10. Ledger!Decide(j)
    <3> HIDE DEF i, d
    <3> QED BY <1>1, <1>2, <2>6, <2>7, <2>8, <2>9 DEF Ledger!Decide, Underway
  <2> QED BY <2>10 DEF Moves, Ledger!Next
<1> QED BY <1>4, <1>5

\* A review leaves its second statement, whether or not it went through.
LEMMA DeliverStep ==
  ASSUME IInv, IInv', AdminIsNoSignup, NEW w \in Workers,
         SyncAccount(w) \/ (StatementFails(w) /\ At(w, "syncAccount"))
  PROVE  Moves
<1> DEFINE i == job[w].id
           d == job[w].decision
<1> USE DEF At, Proceed, Answer, Heard, Unheard, SyncedStatus, Unsettle, Signup
<1>1. /\ job[w] \in ReviewJob /\ i \in Ids /\ d \in Decisions /\ requests[i] # Absent
      /\ job[w].at = "syncAccount"
  BY JobKind DEF SyncAccount, IInv, ReviewJob, ReviewHasItsRequest
<1>2. /\ requests' = requests
      /\ \A v \in Workers : v # w => job'[v] = job[v]
      /\ job'[w].at = "answered"
  BY DEF SyncAccount, StatementFails, IInv, TypeOK
<1>3. UNCHANGED Verdict
  BY <1>2 DEF Verdict
<1>4. /\ d \in Underway[i]
      /\ UNCHANGED Underway \/ Underway' = [Underway EXCEPT ![i] = @ \ {d}]
  <2>1. w \in Undelivered(i) /\ \A j \in Ids : Undelivered(j)' = Undelivered(j) \ {w}
    BY <1>1, <1>2 DEF Undelivered
  <2>2. \A j \in Ids : \A v \in Undelivered(j) \ {w} : job'[v] = job[v]
    BY <1>2 DEF Undelivered
  <2>3. \A j \in Ids : j # i => Undelivered(j)' = Undelivered(j) /\ w \notin Undelivered(j)
    BY <2>1 DEF Undelivered
  <2>4. \A j \in Ids : j # i => Underway'[j] = Underway[j]
    BY <2>2, <2>3 DEF Underway
  <2>5. Underway'[i] = {job[v].decision : v \in Undelivered(i) \ {w}}
    BY <1>1, <2>1, <2>2 DEF Underway
  <2>6. Underway[i] = {job[v].decision : v \in Undelivered(i)}
    BY <1>1 DEF Underway
  <2>7. d \in Underway[i]
    BY <2>1, <2>6
  <2>8. Underway'[i] = Underway[i] \/ Underway'[i] = Underway[i] \ {d}
    <3>1. CASE \E v \in Undelivered(i) \ {w} : job[v].decision = d
      BY <2>5, <2>6, <3>1
    <3>2. CASE ~\E v \in Undelivered(i) \ {w} : job[v].decision = d
      BY <2>5, <2>6, <3>2
    <3> QED BY <3>1, <3>2
  <2> HIDE DEF i, d
  <2> QED BY <1>1, <2>4, <2>7, <2>8 DEF Underway
<1>5. UNCHANGED Standing \/ (Standing[i] # "none" /\ Standing' = [Standing EXCEPT ![i] = d])
  <2>1. CASE accounts' = accounts
    BY <2>1 DEF Standing
  <2>2. CASE accounts' # accounts
    <3>1. /\ accounts' = [accounts EXCEPT ![i].status = d] /\ accounts[i] # Absent
          /\ accounts \in [Ids -> AccountRow \cup {Absent}]
      BY <2>2 DEF SyncAccount, StatementFails, IInv, TypeOK, AccountTable
    <3>2. accounts[i] \in AccountRow /\ accounts[i].role = "platform-operator"
      BY <1>1, <3>1 DEF AdminIsNoSignup, AccountRow, Roles
    <3>3. [accounts[i] EXCEPT !.status = d] \in AccountRow
      BY <1>1, <3>2 DEF AccountRow, Decisions, Statuses
    <3>4. PICK row \in AccountRow : row = [accounts[i] EXCEPT !.status = d]
      BY <3>3
    <3>5. row.status = d /\ row.role = "platform-operator" /\ row # Absent
      BY <3>2, <3>4, AbsentIsNoRow DEF AccountRow
    <3>6. \A j \in Ids : accounts'[j] = IF j = i THEN row ELSE accounts[j]
      BY <3>1, <3>4
    <3>7. row # AdminRow /\ accounts[i] # AdminRow
      BY <3>2, <3>5 DEF AdminRow
    <3>8. Standing' = [Standing EXCEPT ![i] = d]
      BY <1>1, <3>5, <3>6, <3>7 DEF Standing
    <3>9. Standing[i] # "none"
      BY <1>1, <3>1, <3>2, <3>7 DEF Standing, AccountRow, Statuses
    <3> QED BY <3>8, <3>9
  <2> QED BY <2>1, <2>2
<1>6. PICK j \in Ids : j = i
  BY <1>1
<1>7. Ledger!Deliver(j)
  <2> HIDE DEF i, d
  <2> QED BY <1>3, <1>4, <1>5, <1>6 DEF Ledger!Deliver, Underway
<1> QED BY <1>7 DEF Moves, Ledger!Next

\* What the ledger does not see: the administrator's row, and a handler that
\* starts, fails before its second statement, or is over.
LEMMA UnseenStep ==
  ASSUME IInv,
         \/ BootstrapAdmin \/ DbStalls \/ DbRecovers \/ UNCHANGED vars
         \/ \E w \in Workers : \/ StartSignup(w) \/ StartReview(w)
                               \/ RefusePayload(w) \/ NextRequest(w)
                               \/ StatementFails(w) /\ ~At(w, "syncAccount")
                               \/ Abandon(w)
  PROVE  Moves
<1>1. requests' = requests
  BY DEF BootstrapAdmin, DbStalls, DbRecovers, vars, StartSignup, StartReview, RefusePayload,
         NextRequest, StatementFails, Abandon
<1>2. \A v \in Workers : At(v, "syncAccount") \/ At(v, "syncAccount")' => job'[v] = job[v]
  BY DEF BootstrapAdmin, DbStalls, DbRecovers, vars, StartSignup, StartReview, RefusePayload,
         NextRequest, StatementFails, Abandon, Answer, Idle, At, IInv, TypeOK
<1>3. UNCHANGED <<Verdict, Underway>>
  BY <1>1, <1>2, UnderwayKept DEF Verdict
<1>4. UNCHANGED Standing
  <2>1. CASE BootstrapAdmin
    <3>1. PICK i \in Ids \ usedIds : accounts' = [accounts EXCEPT ![i] = AdminRow]
      BY <2>1 DEF BootstrapAdmin
    <3>2. accounts[i] = Absent
      BY <3>1 DEF IInv, RowsUseTheirIds
    <3>3. \A j \in Ids : accounts'[j] = IF j = i THEN AdminRow ELSE accounts[j]
      BY <3>1 DEF IInv, TypeOK, AccountTable
    <3> QED BY <3>2, <3>3 DEF Standing
  <2>2. CASE accounts' = accounts
    BY <2>2 DEF Standing
  <2> QED BY <2>1, <2>2 DEF DbStalls, DbRecovers, vars, StartSignup, StartReview,
                            RefusePayload, NextRequest, StatementFails, Abandon
<1> QED BY <1>3, <1>4 DEF Moves

\* Every step of the handlers is a step of the ledger or none.
LEMMA LedgerStep ==
  IInv /\ IInv' /\ AdminIsNoSignup /\ [Next]_vars => [Ledger!Next]_(Ledger!ledger)
<1> SUFFICES ASSUME IInv, IInv', AdminIsNoSignup, [Next]_vars
             PROVE  [Ledger!Next]_(Ledger!ledger)
  OBVIOUS
<1>1. Moves
  BY EnrolStep, FileStep, DecideStep, DeliverStep, UnseenStep
     DEF Next, HandlerStep, ClientStep
<1> QED BY <1>1 DEF Moves, Ledger!ledger, Underway

\* The two tables are the ledger: nothing is carried out on an account that no
\* reviewer decided, whichever statements fail, are repeated or overtake each
\* other, and nobody becomes pending again.
THEOREM LedgerImplemented == Spec => ImplementsLedger
<1>1. Init => Ledger!Init
  BY DEF Init, Ledger!Init, EmptyTable, Standing, Verdict, Undelivered, Idle, At
<1>2. Init => AdminIsNoSignup
  BY DEF Init, AdminIsNoSignup, EmptyTable
<1> QED
  BY <1>1, <1>2, AlwaysIInv, AdminStep, LedgerStep, PTL
     DEF Spec, ImplementsLedger, Ledger!Spec

============================================================================
