--------------------------- MODULE AccountTables ---------------------------
(***************************************************************************)
(* The two PostgreSQL tables behind the gateway's accounts, as relations   *)
(* from a uuid to a row, and the constraints the database enforces on      *)
(* them:                                                                   *)
(*                                                                         *)
(*   local_auth_accounts  unique (username), unique (email)                *)
(*   signup_requests      unique (email) where status = 'pending_review'   *)
(*                                                                         *)
(* One id joins them: the gateway inserts an account and its signup        *)
(* request under the same uuid.  Columns no property reads (display name,  *)
(* password hash, identity, reviewer, note, timestamps) are left out.      *)
(***************************************************************************)
EXTENDS Naturals

CONSTANTS
  Ids,      \* uuids; uuid.NewString never returns one twice
  Names,    \* what a client may give as user name (trimmed, not empty)
  Emails,   \* what a client may give as e-mail (trimmed, holds an "@")
  AdminName, AdminEmail,  \* GITORC_AUTH_LOCAL_ADMIN_USERNAME and _EMAIL
  Absent    \* no row under this id

Statuses  == {"pending_review", "approved", "rejected"}
Decisions == {"approved", "rejected"}
Roles     == {"platform-operator", "platform-admin"}

\* Which program inserted a signup request.  No column says so: the
\* properties need it, the actions never read it.
Filers == {"gateway", "rubyApp"}

AccountRow == [name : Names, email : Emails, role : Roles, status : Statuses]
RequestRow == [name : Names, email : Emails, status : Statuses, by : Filers]

ASSUME AdminIsNameable == AdminName \in Names /\ AdminEmail \in Emails

ASSUME AbsentIsNoRow ==
  /\ Absent \notin AccountRow
  /\ Absent \notin RequestRow
  /\ Absent \notin Ids

AccountTable == [Ids -> AccountRow \cup {Absent}]
RequestTable == [Ids -> RequestRow \cup {Absent}]

EmptyTable == [i \in Ids |-> Absent]

\* The two unique constraints of local_auth_accounts.  They compare exactly,
\* although a login looks names up with lower().
NameFree(accounts, n) ==
  \A i \in Ids : accounts[i] # Absent => accounts[i].name # n

EmailFree(accounts, e) ==
  \A i \in Ids : accounts[i] # Absent => accounts[i].email # e

\* The row ensureDefaultLocalAdminAccount inserts.
AdminRow == [name |-> AdminName, email |-> AdminEmail,
             role |-> "platform-admin", status |-> "approved"]

\* The partial unique index of signup_requests: of the rows still pending,
\* no two have one e-mail.  A row inserted with another status is not in it.
IndexAdmits(requests, e, status) ==
  status = "pending_review" =>
    \A i \in Ids : requests[i] # Absent /\ requests[i].status = "pending_review"
                     => requests[i].email # e

============================================================================
