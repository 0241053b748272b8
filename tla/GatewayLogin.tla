---------------------------- MODULE GatewayLogin ----------------------------
(***************************************************************************)
(* POST /api/auth/login, and what it joins: the accounts table on one      *)
(* side, the session map on the other (handleLogin in gatewayapi/api.go,   *)
(* local_auth.go).  The table moves as AccountDirectory allows, which is   *)
(* all SignupReview does to it, except that here a review needs a request  *)
(* served under an administrator's session, and the default administrator  *)
(* is inserted by the login handler itself.                                *)
(*                                                                         *)
(* A login is up to five steps on shared state: find the administrator,    *)
(* insert it, load the account, ask LDAP, store the session.  None of its  *)
(* statements has a deadline: a login may stay at any of them for ever.    *)
(***************************************************************************)
EXTENDS AccountTables

CONSTANTS
  Workers, Tokens, TTL, MaxTime, NoSession,   \* as in SessionStore
  Lower,           \* lower() on names and e-mails
  AutoApprove,     \* GITORC_AUTH_LOCAL_AUTO_APPROVE; local accounts are enabled
  LdapConfigured,  \* an LDAP directory is configured too
  LdapUser         \* any user LDAP vouches for

Typed   == Names \cup Emails   \* what a client may type as user name
Secrets == Names               \* an account's password is known by its name

SessionUser == [who : Ids \cup {LdapUser}, role : Roles]

ASSUME LoginConstants ==
  /\ TTL \in Nat /\ MaxTime \in Nat
  /\ NoSession \notin Tokens
  /\ NoSession \notin [user : SessionUser, expires : Nat]
  /\ LdapUser \notin Ids
  /\ AutoApprove \in BOOLEAN /\ LdapConfigured \in BOOLEAN

VARIABLES
  accounts,   \* local_auth_accounts
  login,      \* the login each worker is serving
  store, visit, now, issued   \* SessionStore

sessionVars == <<store, visit, now, issued>>
vars == <<accounts, login, store, visit, now, issued>>

Sessions  == INSTANCE SessionStore WITH Users <- SessionUser

Start == IF AutoApprove THEN "approved" ELSE "pending_review"

Directory == INSTANCE AccountDirectory

-----------------------------------------------------------------------------

Codes == {200, 401, 500, 503}

Idle == [at |-> "idle"]

\* steady: the account with this password has been approved since the login
\* began.  failed: a statement or LDAP failed.  Only properties read them.
Login ==
  [at : {"idle"}]
  \cup [at : {"findAdmin", "insertAdmin", "loadAccount", "askLdap"},
        name : Typed, secret : Secrets \cup {Absent}, steady : BOOLEAN]
  \cup [at : {"openSession"}, name : Typed, secret : Secrets \cup {Absent},
        steady : BOOLEAN, user : SessionUser]
  \cup [at : {"answered"}, name : Typed, secret : Secrets \cup {Absent},
        steady : BOOLEAN, failed : BOOLEAN, code : Codes]

TypeOK ==
  /\ accounts \in AccountTable
  /\ login \in [Workers -> Login]
  /\ Sessions!TypeOK

Init ==
  /\ accounts = EmptyTable
  /\ login = [w \in Workers |-> Idle]
  /\ Sessions!Init

At(w, step) == login[w].at = step

Proceed(w, step) == login' = [login EXCEPT ![w].at = step]

Reply(w, code, failed) ==
  login' = [login EXCEPT ![w] =
              [at |-> "answered", name |-> login[w].name, secret |-> login[w].secret,
               steady |-> login[w].steady, failed |-> failed, code |-> code]]

Answer(w, code) == Reply(w, code, FALSE)

\* where lower(username) = lower($1) or lower(email) = lower($1): more than
\* one row may match, and the first one the database returns is taken.
Matching(x) ==
  {i \in Ids : /\ accounts[i] # Absent
               /\ Lower[x] \in {Lower[accounts[i].name], Lower[accounts[i].email]}}

\* The row whose password this is.
Owner(s) == {i \in Ids : accounts[i] # Absent /\ accounts[i].name = s}

\* Slip: only rejected accounts are kept out.
SlipNotRejected(i) == accounts[i].status # "rejected"

Approved(i) == accounts[i].status = "approved"

\* Slip: a conflict on the user name is an error like any other.
SlipConflictFails(w) == Answer(w, 503)

\* on conflict (username) do nothing
UsernameConflict(w) == Proceed(w, "loadAccount")

\* authenticateUser passes every other error on.
GiveUp(w) == Reply(w, 503, TRUE)

-----------------------------------------------------------------------------

\* The client types a name and a password; Absent is a password of nobody's.
StartLogin(w) ==
  /\ At(w, "idle") /\ visit[w] = Sessions!Idle
  /\ \E x \in Typed, s \in Secrets \cup {Absent} :
       login' = [login EXCEPT ![w] =
                   [at |-> "findAdmin", name |-> x, secret |-> s,
                    steady |-> \/ \E i \in Owner(s) : Approved(i)
                               \/ s = AdminName /\ Owner(s) = {}]]
  /\ UNCHANGED <<accounts, sessionVars>>

\* ensureDefaultLocalAdminAccount: the lookup.
FindAdmin(w) ==
  /\ At(w, "findAdmin")
  /\ Proceed(w, IF Matching(AdminName) = {} THEN "insertAdmin" ELSE "loadAccount")
  /\ UNCHANGED <<accounts, sessionVars>>

\* ensureDefaultLocalAdminAccount: the insert.  on conflict (username) do
\* nothing; a conflict on the e-mail alone is an error.
InsertAdmin(w) ==
  /\ At(w, "insertAdmin")
  /\ \/ /\ ~NameFree(accounts, AdminName)
        /\ UsernameConflict(w)
        /\ UNCHANGED accounts
     \/ /\ NameFree(accounts, AdminName)
        /\ ~EmailFree(accounts, AdminEmail)
        /\ Answer(w, 503)
        /\ UNCHANGED accounts
     \/ /\ \E i \in Ids : Directory!Bootstrap(i)
        /\ Proceed(w, "loadAccount")
  /\ UNCHANGED sessionVars

\* authenticateLocalUser: the status is looked at before the password.  No
\* such account and a wrong password both send the login on to LDAP.
LoadAccount(w) ==
  /\ At(w, "loadAccount")
  /\ \/ Matching(login[w].name) = {} /\ Proceed(w, "askLdap")
     \/ \E i \in Matching(login[w].name) :
          \/ ~Approved(i) /\ Answer(w, 503)
          \/ Approved(i) /\ accounts[i].name # login[w].secret /\ Proceed(w, "askLdap")
          \/ /\ Approved(i) /\ accounts[i].name = login[w].secret
             /\ login' = [login EXCEPT ![w] =
                            [at |-> "openSession", name |-> login[w].name,
                             secret |-> login[w].secret, steady |-> login[w].steady,
                             user |-> [who |-> i, role |-> accounts[i].role]]]
  /\ UNCHANGED <<accounts, sessionVars>>

\* authenticateLDAPUser: the directory answers yes, no, or not at all.
AskLdap(w) ==
  /\ At(w, "askLdap")
  /\ \/ Answer(w, 401)
     \/ LdapConfigured /\ Reply(w, 503, TRUE)
     \/ /\ LdapConfigured
        /\ \E r \in Roles :
             login' = [login EXCEPT ![w] =
                         [at |-> "openSession", name |-> login[w].name,
                          secret |-> login[w].secret, steady |-> login[w].steady,
                          user |-> [who |-> LdapUser, role |-> r]]]
  /\ UNCHANGED <<accounts, sessionVars>>

\* generateToken may find no randomness, and then no session is stored.
OpenSession(w) ==
  /\ At(w, "openSession")
  /\ \/ Sessions!Open(login[w].user) /\ Answer(w, 200)
     \/ Reply(w, 500, TRUE) /\ UNCHANGED sessionVars
  /\ UNCHANGED accounts

\* A statement fails; the insert may have been committed all the same.
StatementFails(w) ==
  /\ login[w].at \in {"findAdmin", "insertAdmin", "loadAccount"}
  /\ GiveUp(w)
  /\ \/ UNCHANGED accounts
     \/ At(w, "insertAdmin") /\ \E i \in Ids : Directory!Bootstrap(i)
  /\ UNCHANGED sessionVars

NextRequest(w) ==
  /\ At(w, "answered")
  /\ login' = [login EXCEPT ![w] = Idle]
  /\ UNCHANGED <<accounts, sessionVars>>

LoginStep(w) ==
  \/ FindAdmin(w)
  \/ InsertAdmin(w)
  \/ LoadAccount(w)
  \/ AskLdap(w)
  \/ OpenSession(w)

-----------------------------------------------------------------------------

\* Logins whose password is account n's, when n stops being (or only now
\* becomes) an approved account.
NoLongerSteady(n) ==
  login' = [w \in Workers |->
              IF ~At(w, "idle") /\ login[w].secret = n
              THEN [login[w] EXCEPT !.steady = FALSE] ELSE login[w]]

\* Somebody signs up (SignupReview, InsertAccount).
Enrol(i) ==
  /\ Directory!Enrol(i)
  /\ NoLongerSteady(accounts'[i].name)
  /\ UNCHANGED sessionVars

\* requireAuth, isAdminSession
MayReview(w) ==
  Sessions!Visiting(w, "serving") /\ visit[w].session.user.role = "platform-admin"

\* A review under way in worker w reaches the account (SignupReview,
\* SyncAccount): requireAuth and isAdminSession let it get that far.
Judge(w, i) ==
  /\ MayReview(w)
  /\ Directory!Judge(i)
  /\ IF accounts'[i].status = "approved" THEN UNCHANGED login
     ELSE NoLongerSteady(accounts[i].name)
  /\ UNCHANGED sessionVars

\* Any other authenticated request, or the clock.
Visit(w) ==
  /\ At(w, "idle")
  /\ Sessions!VisitStep(w)
  /\ UNCHANGED <<accounts, login>>

Tick == Sessions!Tick /\ UNCHANGED <<accounts, login>>

Next ==
  \/ \E w \in Workers : StartLogin(w) \/ LoginStep(w) \/ StatementFails(w)
                        \/ NextRequest(w) \/ Visit(w)
  \/ \E i \in Ids : Enrol(i) \/ \E w \in Workers : Judge(w, i)
  \/ Tick

Spec == Init /\ [][Next]_vars

-----------------------------------------------------------------------------
(* Properties *)

\* The e-mail the administrator is to have belongs to somebody who signed up.
AdminEmailTaken ==
  \E i \in Ids : /\ accounts[i] # Absent
                 /\ accounts[i].email = AdminEmail
                 /\ accounts[i].role # "platform-admin"

\* No two accounts answer to one name or e-mail up to case.
Unambiguous == \A x \in Typed : \A i, j \in Matching(x) : i = j

\* Whoever gives the name and the password of an account that stays approved
\* gets in, the administrator's first login before its account exists
\* included, and however many first logins race to insert it; provided no
\* two accounts answer to one name up to case, nothing fails, and nobody
\* signed up with the administrator's e-mail before the administrator's row
\* was there: that one stops every login.
OwnerGetsIn ==
  \A w \in Workers :
    /\ At(w, "answered")
    /\ login[w].steady /\ ~login[w].failed
    /\ Owner(login[w].secret) # {}
    /\ Matching(login[w].name) = Owner(login[w].secret)
    /\ Unambiguous
    /\ ~AdminEmailTaken
    => login[w].code = 200

\* Where accounts start pending, nobody holds a session, or is about to, for
\* an account no administrator has decided on.
NobodyEntersUndecided ==
  ~AutoApprove =>
    \A i \in Ids :
      /\ \/ \E t \in Tokens : store[t] # NoSession /\ store[t].user.who = i
         \/ \E w \in Workers : At(w, "openSession") /\ login[w].user.who = i
      => accounts[i].status \in Decisions

\* A request is served under a session that had not expired when it came in
\* and under no other user's, whatever lookups, logouts and logins ran between
\* the steps of its lookup.
ServedWhileAlive == Sessions!ServedWhileAlive

\* A session ends once, by its logout or by a lookup after it expired, and
\* neither a lookup under way nor a later login brings it back.
SessionsEndOnce == Sessions!SessionsEndOnce

============================================================================
