-------------------------- MODULE GatewayLoginProofs --------------------------
(***************************************************************************)
(* What TLAPS proves of GatewayLogin, for any number of workers, accounts, *)
(* names and tokens, whatever lower() does to names, with and without LDAP *)
(* and automatic approval.                                                 *)
(***************************************************************************)
EXTENDS GatewayLogin, TLAPS

\* A session's user, and the user of a login about to open one, is LDAP's or
\* an account somebody decided on.
Admitted(u) ==
  u.who \in Ids =>
    accounts[u.who] # Absent /\ (~AutoApprove => accounts[u.who].status \in Decisions)

StoredAdmitted == \A t \in Tokens : store[t] # NoSession => Admitted(store[t].user)

ComingAdmitted == \A w \in Workers : At(w, "openSession") => Admitted(login[w].user)

IInv ==
  /\ TypeOK
  /\ StoredAdmitted
  /\ ComingAdmitted

\* No account goes, and no decision is taken back to none.
Forward ==
  \A i \in Ids : accounts[i] # Absent =>
    /\ accounts'[i] # Absent
    /\ accounts[i].status \in Decisions => accounts'[i].status \in Decisions

-----------------------------------------------------------------------------

\* Which step a login stands at tells which fields it has.
LEMMA LoginKind ==
  ASSUME TypeOK, NEW w \in Workers
  PROVE  /\ login \in [Workers -> Login] /\ login[w] \in Login
         /\ login[w].at \in {"idle", "findAdmin", "insertAdmin", "loadAccount",
                             "askLdap", "openSession", "answered"}
         /\ login[w].at # "idle" =>
              /\ login[w].name \in Typed /\ login[w].secret \in Secrets \cup {Absent}
              /\ login[w].steady \in BOOLEAN
         /\ login[w].at = "openSession" => login[w].user \in SessionUser
BY DEF TypeOK, Login

\* A login between two of its statements.
LEMMA MiddleIsLogin ==
  ASSUME NEW n \in Typed, NEW s \in Secrets \cup {Absent}, NEW b \in BOOLEAN,
         NEW step \in {"findAdmin", "insertAdmin", "loadAccount", "askLdap"}
  PROVE  [at |-> step, name |-> n, secret |-> s, steady |-> b] \in Login
BY DEF Login

\* A login that is about to get a session.
LEMMA OpeningIsLogin ==
  ASSUME NEW n \in Typed, NEW s \in Secrets \cup {Absent}, NEW b \in BOOLEAN,
         NEW u \in SessionUser
  PROVE  [at |-> "openSession", name |-> n, secret |-> s, steady |-> b, user |-> u] \in Login
BY DEF Login

\* A login that was answered.
LEMMA AnswerIsLogin ==
  ASSUME NEW n \in Typed, NEW s \in Secrets \cup {Absent}, NEW b \in BOOLEAN,
         NEW f \in BOOLEAN, NEW code \in Codes
  PROVE  [at |-> "answered", name |-> n, secret |-> s, steady |-> b, failed |-> f,
          code |-> code] \in Login
BY DEF Login

\* A reply keeps logins of their type, and opens no session.
LEMMA ReplyType ==
  ASSUME TypeOK, NEW w \in Workers, ~At(w, "idle"), NEW code \in Codes,
         NEW failed \in BOOLEAN, Reply(w, code, failed)
  PROVE  /\ login' \in [Workers -> Login] /\ login'[w].at = "answered"
         /\ \A v \in Workers \ {w} : login'[v] = login[v]
<1>1. /\ login \in [Workers -> Login] /\ login[w].name \in Typed
      /\ login[w].secret \in Secrets \cup {Absent} /\ login[w].steady \in BOOLEAN
  BY LoginKind DEF At
<1>2. PICK new : new = [at |-> "answered", name |-> login[w].name, secret |-> login[w].secret,
                        steady |-> login[w].steady, failed |-> failed, code |-> code]
  OBVIOUS
<1>3. new \in Login
  BY <1>1, <1>2, AnswerIsLogin
<1>4. new.at = "answered"
  BY <1>2
<1>5. login' = [login EXCEPT ![w] = new]
  BY <1>2 DEF Reply
<1> HIDE DEF Login
<1> QED BY <1>1, <1>3, <1>4, <1>5

\* So does going on to a step that needs no more than the login came with.
LEMMA ProceedType ==
  ASSUME TypeOK, NEW w \in Workers,
         login[w].at \in {"findAdmin", "insertAdmin", "loadAccount"},
         NEW step \in {"insertAdmin", "loadAccount", "askLdap"}, Proceed(w, step)
  PROVE  /\ login' \in [Workers -> Login] /\ login'[w].at = step
         /\ \A v \in Workers \ {w} : login'[v] = login[v]
<1>1. /\ login \in [Workers -> Login]
      /\ login[w] \in [at : {"findAdmin", "insertAdmin", "loadAccount", "askLdap"},
                       name : Typed, secret : Secrets \cup {Absent}, steady : BOOLEAN]
  BY DEF TypeOK, Login
<1>2. PICK new : new = [login[w] EXCEPT !.at = step]
  OBVIOUS
<1>3. new.at = step /\ new \in Login
  BY <1>1, <1>2 DEF Login
<1>4. login' = [login EXCEPT ![w] = new]
  BY <1>1, <1>2 DEF Proceed
<1> HIDE DEF Login
<1> QED BY <1>1, <1>3, <1>4

-----------------------------------------------------------------------------

\* The table moves forward only.
LEMMA AccountsStep ==
  ASSUME TypeOK, NEW i \in Ids,
         Directory!Enrol(i) \/ Directory!Judge(i) \/ Directory!Bootstrap(i)
  PROVE  accounts' \in AccountTable /\ Forward
<1>1. accounts \in [Ids -> AccountRow \cup {Absent}] /\ Absent \notin AccountRow
  BY AbsentIsNoRow DEF TypeOK, AccountTable
<1>2. CASE Directory!Enrol(i)
  <2>1. PICK n \in Names, e \in Emails :
          /\ accounts[i] = Absent
          /\ accounts' = [accounts EXCEPT ![i] =
                            [name |-> n, email |-> e, role |-> "platform-operator",
                             status |-> Start]]
    BY <1>2 DEF Directory!Enrol
  <2>2. PICK row : row = [name |-> n, email |-> e, role |-> "platform-operator",
                          status |-> Start]
    OBVIOUS
  <2>3. row \in AccountRow
    BY <2>2 DEF AccountRow, Roles, Statuses, Start
  <2>4. accounts' = [accounts EXCEPT ![i] = row]
    BY <2>1, <2>2
  <2> HIDE DEF AccountRow
  <2> QED BY <1>1, <2>1, <2>3, <2>4 DEF AccountTable, Forward
<1>3. CASE Directory!Judge(i)
  <2>1. PICK d \in Decisions :
          accounts[i] # Absent /\ accounts' = [accounts EXCEPT ![i].status = d]
    BY <1>3 DEF Directory!Judge, Directory!Decisions, Decisions
  <2>2. PICK row : row = [accounts[i] EXCEPT !.status = d]
    OBVIOUS
  <2>3. accounts[i] \in AccountRow
    BY <1>1, <2>1
  <2>4. row \in AccountRow /\ row.status = d
    BY <2>2, <2>3 DEF AccountRow, Statuses, Decisions
  <2>5. accounts' = [accounts EXCEPT ![i] = row]
    BY <1>1, <2>1, <2>2
  <2> HIDE DEF AccountRow, Decisions
  <2> QED BY <1>1, <2>4, <2>5 DEF AccountTable, Forward
<1>4. CASE Directory!Bootstrap(i)
  <2>1. accounts[i] = Absent /\ accounts' = [accounts EXCEPT ![i] = AdminRow]
    BY <1>4 DEF Directory!Bootstrap, Directory!AdminRow, AdminRow
  <2>2. AdminRow \in AccountRow
    BY AdminIsNameable DEF AdminRow, AccountRow, Roles, Statuses
  <2> HIDE DEF AccountRow, AdminRow
  <2> QED BY <1>1, <2>1, <2>2 DEF AccountTable, Forward
<1> QED BY <1>2, <1>3, <1>4

\* Who was admitted stays so: nobody is admitted for an id without a row, and
\* the decision on an account may change but not be undone.
LEMMA StaysAdmitted ==
  ASSUME Forward \/ UNCHANGED accounts, NEW u, Admitted(u)
  PROVE  Admitted(u)'
BY DEF Forward, Admitted

\* A step of a login that leaves the sessions alone, keeps the other logins
\* and opens none for itself.
LEMMA QuietStep ==
  ASSUME IInv, NEW w \in Workers,
         accounts' \in AccountTable, Forward \/ UNCHANGED accounts,
         UNCHANGED sessionVars,
         login' \in [Workers -> Login],
         At(w, "openSession")' => Admitted(login'[w].user),
         \A v \in Workers \ {w} : login'[v] = login[v]
  PROVE  IInv'
<1>1. Sessions!TypeOK'
  BY DEF IInv, TypeOK, sessionVars, Sessions!TypeOK
<1>2. TypeOK'
  BY <1>1 DEF TypeOK
<1>3. StoredAdmitted'
  BY StaysAdmitted DEF IInv, StoredAdmitted, sessionVars
<1>4. ComingAdmitted'
  BY StaysAdmitted DEF IInv, ComingAdmitted, At
<1> QED BY <1>2, <1>3, <1>4 DEF IInv

-----------------------------------------------------------------------------
(* Sessions: what holds of the store whoever uses it.                      *)

\* What the session store needs of its constants.
LEMMA SessionConstants ==
  TTL \in Nat /\ MaxTime \in Nat /\ NoSession \notin Sessions!Session /\ NoSession \notin Tokens
BY LoginConstants DEF Sessions!Session

\* A session that is stored was handed out.
StoredIsIssued == \A t \in Tokens : store[t] # NoSession => t \in issued

\* What a lookup took from the map was in the map when the request came: the
\* map still has it, or has nothing under that token for good, because no
\* token is handed out twice.
CopyIsStored ==
  \A w \in Workers : visit[w].at \in {"check", "serving"} =>
    /\ visit[w].token \in issued
    /\ store[visit[w].token] \in {visit[w].session, NoSession}

\* The comparison came after the request did.
CameBefore ==
  \A w \in Workers : visit[w].at \in {"check", "serving"} => visit[w].came <= now

AliveWhenItCame ==
  \A w \in Workers : Sessions!Visiting(w, "serving") =>
    visit[w].came <= visit[w].session.expires

\* A token about to be purged has nothing under it, or an entry that is over.
PurgesExpired ==
  \A w \in Workers : Sessions!Visiting(w, "purge") =>
    /\ visit[w].token \in issued
    /\ store[visit[w].token] # NoSession => now > store[visit[w].token].expires

SessionsInv ==
  /\ Sessions!TypeOK
  /\ StoredIsIssued
  /\ CopyIsStored
  /\ CameBefore
  /\ AliveWhenItCame
  /\ PurgesExpired

\* Which step a visit stands at tells which fields it has.
LEMMA VisitKind ==
  ASSUME Sessions!TypeOK, NEW w \in Workers
  PROVE  /\ visit[w].at \in {"check", "serving"} => visit[w] \in Sessions!HoldingVisit
         /\ visit[w].at = "purge" => visit[w] \in Sessions!EndingVisit
BY DEF Sessions!TypeOK, Sessions!Visit, Sessions!IdleVisit, Sessions!HoldingVisit,
   Sessions!EndingVisit, Sessions!RefusedVisit

\* Every step keeps sessions, visits and the clock of their types.
LEMMA SessionsTypeStep == Sessions!TypeOK /\ [Sessions!Next]_sessionVars => Sessions!TypeOK'
<1> SUFFICES ASSUME Sessions!TypeOK, [Sessions!Next]_sessionVars
             PROVE  Sessions!TypeOK'
  OBVIOUS
<1> USE SessionConstants DEF Sessions!Visiting, Sessions!Refuse, Sessions!Delete
<1>1. ASSUME NEW u \in SessionUser, Sessions!Open(u) PROVE Sessions!TypeOK'
  BY <1>1 DEF Sessions!Open, Sessions!TypeOK, Sessions!Session
<1>2. ASSUME NEW w \in Workers, Sessions!PresentNothing(w) PROVE Sessions!TypeOK'
  BY <1>2 DEF Sessions!PresentNothing, Sessions!TypeOK, Sessions!Visit,
     Sessions!RefusedVisit
<1>3. ASSUME NEW w \in Workers, Sessions!Present(w) PROVE Sessions!TypeOK'
  BY <1>3 DEF Sessions!Present, Sessions!TypeOK, Sessions!Visit,
     Sessions!RefusedVisit, Sessions!HoldingVisit
<1>4. ASSUME NEW w \in Workers, Sessions!CheckExpiry(w) PROVE Sessions!TypeOK'
  BY <1>4, VisitKind DEF Sessions!CheckExpiry, Sessions!LetGo, Sessions!TypeOK,
     Sessions!Visit, Sessions!HoldingVisit, Sessions!EndingVisit
<1>5. ASSUME NEW w \in Workers, Sessions!Purge(w) PROVE Sessions!TypeOK'
  BY <1>5, VisitKind DEF Sessions!Purge, Sessions!TypeOK, Sessions!Visit,
     Sessions!EndingVisit, Sessions!RefusedVisit
<1>6. ASSUME NEW w \in Workers, Sessions!Logout(w) PROVE Sessions!TypeOK'
  BY <1>6 DEF Sessions!Logout, Sessions!TypeOK, Sessions!Visit, Sessions!EndingVisit
<1>7. ASSUME NEW w \in Workers, Sessions!Finish(w) PROVE Sessions!TypeOK'
  BY <1>7 DEF Sessions!Finish, Sessions!TypeOK, Sessions!Visit, Sessions!IdleVisit,
     Sessions!Idle
<1>8. CASE Sessions!Tick
  BY <1>8 DEF Sessions!Tick, Sessions!TypeOK
<1>9. CASE UNCHANGED sessionVars
  BY <1>9 DEF sessionVars, Sessions!TypeOK
<1> QED BY <1>1, <1>2, <1>3, <1>4, <1>5, <1>6, <1>7, <1>8, <1>9 DEF Sessions!Next,
Sessions!VisitStep

\* The invariant is inductive: what protects a lookup that holds no lock is
\* that an entry never changes but to nothing.
LEMMA SessionsInvStep == SessionsInv /\ [Sessions!Next]_sessionVars => SessionsInv'
<1> SUFFICES ASSUME SessionsInv, [Sessions!Next]_sessionVars
             PROVE  SessionsInv'
  OBVIOUS
<1> Sessions!TypeOK'
  BY SessionsTypeStep DEF SessionsInv
<1> USE SessionConstants DEF SessionsInv, Sessions!Visiting, Sessions!Refuse, Sessions!Delete, StoredIsIssued,
            CopyIsStored, CameBefore, AliveWhenItCame, PurgesExpired
<1>1. ASSUME NEW u \in SessionUser, Sessions!Open(u) PROVE SessionsInv'
  BY <1>1, VisitKind DEF Sessions!Open, Sessions!TypeOK, Sessions!Session,
     Sessions!HoldingVisit, Sessions!EndingVisit
<1>2. ASSUME NEW w \in Workers, Sessions!PresentNothing(w) PROVE SessionsInv'
  BY <1>2 DEF Sessions!PresentNothing, Sessions!TypeOK
<1>3. ASSUME NEW w \in Workers, Sessions!Present(w) PROVE SessionsInv'
  BY <1>3 DEF Sessions!Present, Sessions!TypeOK
<1>4. ASSUME NEW w \in Workers, Sessions!CheckExpiry(w) PROVE SessionsInv'
  <2>1. visit[w] \in Sessions!HoldingVisit
    BY <1>4, VisitKind DEF Sessions!CheckExpiry
  <2>2. CASE Sessions!Expired(visit[w].session)
    BY <1>4, <2>1, <2>2 DEF Sessions!CheckExpiry, Sessions!LetGo, Sessions!Expired,
       Sessions!TypeOK, Sessions!HoldingVisit, Sessions!Session
  <2>3. CASE ~Sessions!Expired(visit[w].session)
    BY <1>4, <2>1, <2>3 DEF Sessions!CheckExpiry, Sessions!Expired, Sessions!TypeOK,
       Sessions!HoldingVisit, Sessions!Session
  <2> QED BY <2>2, <2>3
<1>5. ASSUME NEW w \in Workers, Sessions!Purge(w) PROVE SessionsInv'
  BY <1>5, VisitKind DEF Sessions!Purge, Sessions!TypeOK, Sessions!EndingVisit,
     Sessions!HoldingVisit
<1>6. ASSUME NEW w \in Workers, Sessions!Logout(w) PROVE SessionsInv'
  BY <1>6, VisitKind DEF Sessions!Logout, Sessions!TypeOK, Sessions!EndingVisit,
     Sessions!HoldingVisit
<1>7. ASSUME NEW w \in Workers, Sessions!Finish(w) PROVE SessionsInv'
  BY <1>7 DEF Sessions!Finish, Sessions!TypeOK, Sessions!Idle
<1>8. CASE Sessions!Tick
  BY <1>8, VisitKind DEF Sessions!Tick, Sessions!TypeOK, Sessions!EndingVisit,
     Sessions!HoldingVisit, Sessions!Session
<1>9. CASE UNCHANGED sessionVars
  BY <1>9 DEF sessionVars, Sessions!TypeOK
<1> QED BY <1>1, <1>2, <1>3, <1>4, <1>5, <1>6, <1>7, <1>8, <1>9 DEF Sessions!Next,
Sessions!VisitStep

\* An empty store, and nobody looking anything up.
LEMMA SessionsInvInit == Sessions!Init => SessionsInv
BY SessionConstants DEF Sessions!Init, SessionsInv, Sessions!TypeOK, Sessions!Visit,
   Sessions!IdleVisit, Sessions!Idle, Sessions!Visiting, StoredIsIssued,
       CopyIsStored, CameBefore, AliveWhenItCame, PurgesExpired

-----------------------------------------------------------------------------
(* The steps of a login.                                                   *)

\* authLogin reads the body.
LEMMA StartLoginStep ==
  ASSUME IInv, NEW w \in Workers, StartLogin(w)
  PROVE  IInv'
<1>1. PICK x \in Typed, s \in Secrets \cup {Absent}, b \in BOOLEAN :
        login' = [login EXCEPT ![w] =
                    [at |-> "findAdmin", name |-> x, secret |-> s, steady |-> b]]
  BY DEF StartLogin
<1>2. PICK new : new = [at |-> "findAdmin", name |-> x, secret |-> s, steady |-> b]
  OBVIOUS
<1>3. new \in Login /\ new.at = "findAdmin"
  BY <1>2, MiddleIsLogin
<1>4. login' = [login EXCEPT ![w] = new]
  BY <1>1, <1>2
<1>5. /\ login \in [Workers -> Login] /\ accounts' \in AccountTable
      /\ UNCHANGED <<accounts, sessionVars>>
  BY DEF IInv, TypeOK, StartLogin
<1> HIDE DEF Login
<1> QED BY <1>3, <1>4, <1>5, QuietStep DEF At

Replied(w) == \E code \in Codes, failed \in BOOLEAN : Reply(w, code, failed)

\* An answer of one of the codes is a reply.
LEMMA AnswerReplies ==
  ASSUME NEW w, NEW code \in Codes, Answer(w, code)
  PROVE  Replied(w)
BY DEF Answer, Replied

\* So is one given up at a failed statement.
LEMMA GivingUpReplies ==
  ASSUME NEW w, Reply(w, 500, TRUE) \/ Reply(w, 503, TRUE)
  PROVE  Replied(w)
<1>1. 500 \in Codes /\ 503 \in Codes
  BY DEF Codes
<1>2. TRUE \in BOOLEAN
  OBVIOUS
<1> QED BY <1>1, <1>2, Zenon DEF Replied

\* A login that is answered.
LEMMA ReplyStep ==
  ASSUME IInv, NEW w \in Workers, ~At(w, "idle"), Replied(w),
         accounts' \in AccountTable, Forward \/ UNCHANGED accounts, UNCHANGED
         sessionVars
  PROVE  IInv'
<1>1. /\ login' \in [Workers -> Login] /\ login'[w].at = "answered"
      /\ \A v \in Workers \ {w} : login'[v] = login[v]
  BY ReplyType DEF IInv, Replied
<1> QED BY <1>1, QuietStep DEF At

\* A login that goes on to another statement.
LEMMA ProceedStep ==
  ASSUME IInv, NEW w \in Workers,
         login[w].at \in {"findAdmin", "insertAdmin", "loadAccount"},
         NEW step \in {"insertAdmin", "loadAccount", "askLdap"}, Proceed(w, step),
         accounts' \in AccountTable, Forward \/ UNCHANGED accounts, UNCHANGED
         sessionVars
  PROVE  IInv'
<1>1. /\ login' \in [Workers -> Login] /\ login'[w].at = step
      /\ \A v \in Workers \ {w} : login'[v] = login[v]
  BY ProceedType DEF IInv
<1> QED BY <1>1, QuietStep DEF At

\* ensureBootstrapAdmin looks for the administrator.
LEMMA FindAdminStep ==
  ASSUME IInv, NEW w \in Workers, FindAdmin(w)
  PROVE  IInv'
<1>1. accounts' \in AccountTable /\ UNCHANGED accounts /\ UNCHANGED sessionVars
  BY DEF FindAdmin, IInv, TypeOK
<1>2. PICK step \in {"insertAdmin", "loadAccount", "askLdap"} : Proceed(w, step)
  BY DEF FindAdmin
<1> QED BY <1>1, <1>2, ProceedStep DEF FindAdmin, At

\* ensureBootstrapAdmin inserts him.
LEMMA InsertAdminStep ==
  ASSUME IInv, NEW w \in Workers, InsertAdmin(w)
  PROVE  IInv'
<1>1. /\ At(w, "insertAdmin") /\ UNCHANGED sessionVars /\ accounts \in AccountTable
      /\ login[w].at \in {"findAdmin", "insertAdmin", "loadAccount"} /\ ~At(w, "idle")
  BY DEF InsertAdmin, IInv, TypeOK, At
<1>2. CASE Proceed(w, "loadAccount") /\ UNCHANGED accounts
  BY <1>1, <1>2, ProceedStep
<1>3. CASE Answer(w, 503) /\ UNCHANGED accounts
  <2>1. Replied(w)
    BY <1>3, AnswerReplies DEF Codes
  <2> QED BY <1>1, <1>3, <2>1, ReplyStep
<1>4. CASE Proceed(w, "loadAccount") /\ \E i \in Ids : Directory!Bootstrap(i)
  <2>1. accounts' \in AccountTable /\ Forward
    BY <1>4, AccountsStep DEF IInv
  <2> QED BY <1>1, <1>4, <2>1, ProceedStep
<1> QED BY <1>2, <1>3, <1>4 DEF InsertAdmin, UsernameConflict

\* A login that is about to open a session for somebody admitted.
LEMMA OpeningStep ==
  ASSUME IInv, NEW w \in Workers, login[w].at \in {"loadAccount", "askLdap"},
         NEW u \in SessionUser, Admitted(u),
         login' = [login EXCEPT ![w] =
                     [at |-> "openSession", name |-> login[w].name,
                      secret |-> login[w].secret, steady |-> login[w].steady,
                      user |-> u]],
         UNCHANGED <<accounts, sessionVars>>
  PROVE  IInv'
<1>1. /\ login \in [Workers -> Login] /\ login[w].name \in Typed
      /\ login[w].secret \in Secrets \cup {Absent} /\ login[w].steady \in BOOLEAN
      /\ accounts' \in AccountTable
  BY LoginKind DEF IInv, TypeOK
<1>2. PICK new : new = [at |-> "openSession", name |-> login[w].name,
                        secret |-> login[w].secret, steady |-> login[w].steady, user
                        |-> u]
  OBVIOUS
<1>3. new \in Login
  BY <1>1, <1>2, OpeningIsLogin
<1>4. new.at = "openSession" /\ new.user = u
  BY <1>2
<1>5. login' = [login EXCEPT ![w] = new]
  BY <1>2
<1> HIDE DEF Login
<1>6. /\ login' \in [Workers -> Login] /\ login'[w].user = u
      /\ \A v \in Workers \ {w} : login'[v] = login[v]
  BY <1>1, <1>3, <1>4, <1>5
<1> QED BY <1>1, <1>6, QuietStep

\* The select of the account.
LEMMA LoadAccountStep ==
  ASSUME IInv, NEW w \in Workers, LoadAccount(w)
  PROVE  IInv'
<1>1. /\ At(w, "loadAccount") /\ UNCHANGED accounts /\ UNCHANGED sessionVars
      /\ login[w].at \in {"findAdmin", "insertAdmin", "loadAccount"} /\ ~At(w, "idle")
      /\ accounts \in AccountTable /\ accounts' \in AccountTable
  BY DEF LoadAccount, IInv, TypeOK, At
<1>2. CASE Proceed(w, "askLdap")
  BY <1>1, <1>2, ProceedStep
<1>3. CASE Answer(w, 503)
  <2>1. Replied(w)
    BY <1>3, AnswerReplies DEF Codes
  <2> QED BY <1>1, <1>3, <2>1, ReplyStep
<1>4. ASSUME NEW i \in Matching(login[w].name), Approved(i),
             login' = [login EXCEPT ![w] =
                         [at |-> "openSession", name |-> login[w].name,
                          secret |-> login[w].secret, steady |-> login[w].steady,
                          user |-> [who |-> i, role |-> accounts[i].role]]]
      PROVE  IInv'
  <2>1. i \in Ids /\ accounts[i] # Absent
    BY <1>4 DEF Matching
  <2>2. PICK u : u = [who |-> i, role |-> accounts[i].role]
    OBVIOUS
  <2>3. accounts[i] \in AccountRow
    BY <1>1, <2>1 DEF AccountTable
  <2>4. u \in SessionUser /\ u.who = i
    BY <2>1, <2>2, <2>3 DEF SessionUser, AccountRow
  <2>5. Admitted(u)
    BY <1>4, <2>1, <2>4 DEF Admitted, Approved, Decisions
  <2>6. login' = [login EXCEPT ![w] =
                    [at |-> "openSession", name |-> login[w].name,
                     secret |-> login[w].secret, steady |-> login[w].steady,
                     user |-> u]]
    BY <1>4, <2>2
  <2>7. login[w].at \in {"loadAccount", "askLdap"} /\ UNCHANGED <<accounts, sessionVars>>
    BY <1>1 DEF At
  <2> QED BY <2>4, <2>5, <2>6, <2>7, OpeningStep
<1> QED BY <1>2, <1>3, <1>4 DEF LoadAccount

\* The bind to the directory.
LEMMA AskLdapStep ==
  ASSUME IInv, NEW w \in Workers, AskLdap(w)
  PROVE  IInv'
<1>1. /\ At(w, "askLdap") /\ UNCHANGED accounts /\ UNCHANGED sessionVars
      /\ ~At(w, "idle") /\ accounts' \in AccountTable
  BY DEF AskLdap, IInv, TypeOK, At
<1>2. CASE Answer(w, 401)
  <2>1. Replied(w)
    BY <1>2, AnswerReplies DEF Codes
  <2> QED BY <1>1, <2>1, ReplyStep
<1>4. CASE Reply(w, 503, TRUE)
  <2>1. Replied(w)
    BY <1>4, GivingUpReplies
  <2> QED BY <1>1, <2>1, ReplyStep
<1>3. ASSUME NEW r \in Roles,
             login' = [login EXCEPT ![w] =
                         [at |-> "openSession", name |-> login[w].name,
                          secret |-> login[w].secret, steady |-> login[w].steady,
                          user |-> [who |-> LdapUser, role |-> r]]]
      PROVE  IInv'
  <2>1. PICK u : u = [who |-> LdapUser, role |-> r]
    OBVIOUS
  <2>2. u \in SessionUser /\ Admitted(u)
    BY <2>1, LoginConstants DEF SessionUser, Admitted
  <2>3. login' = [login EXCEPT ![w] =
                    [at |-> "openSession", name |-> login[w].name,
                     secret |-> login[w].secret, steady |-> login[w].steady,
                     user |-> u]]
    BY <1>3, <2>1
  <2>4. login[w].at \in {"loadAccount", "askLdap"} /\ UNCHANGED <<accounts, sessionVars>>
    BY <1>1 DEF At
  <2> QED BY <2>2, <2>3, <2>4, OpeningStep
<1> QED BY <1>2, <1>3, <1>4 DEF AskLdap

\* The session that is stored is the admitted user's.
LEMMA OpenSessionStep ==
  ASSUME IInv, NEW w \in Workers, OpenSession(w)
  PROVE  IInv'
<1>1. /\ At(w, "openSession") /\ ~At(w, "idle") /\ UNCHANGED accounts
      /\ accounts' \in AccountTable
  BY DEF OpenSession, IInv, TypeOK, At
<1>2. CASE Reply(w, 500, TRUE) /\ UNCHANGED sessionVars
  <2>0. Reply(w, 500, TRUE)
    BY <1>2
  <2>1. Replied(w)
    BY <2>0, GivingUpReplies
  <2> QED BY <1>1, <1>2, <2>1, ReplyStep
<1>3. CASE Sessions!Open(login[w].user) /\ Answer(w, 200)
  <2>1. login[w].user \in SessionUser /\ Admitted(login[w].user)
    BY <1>1, LoginKind DEF IInv, ComingAdmitted, At
  <2>2. Sessions!TypeOK'
    BY <1>3, <2>1, SessionsTypeStep DEF Sessions!Next, IInv, TypeOK
  <2>3. /\ login' \in [Workers -> Login] /\ login'[w].at = "answered"
        /\ \A v \in Workers \ {w} : login'[v] = login[v]
    <3>1. Replied(w)
      BY <1>3, AnswerReplies DEF Codes
    <3> QED BY <1>1, <3>1, ReplyType DEF IInv, Replied
  <2>4. TypeOK'
    BY <1>1, <2>2, <2>3 DEF TypeOK
  <2>5. \A t \in Tokens : store'[t] = store[t] \/ store'[t].user = login[w].user
    BY <1>3 DEF Sessions!Open, IInv, TypeOK, Sessions!TypeOK
  <2>6. StoredAdmitted'
    BY <1>1, <2>1, <2>5 DEF IInv, StoredAdmitted, Admitted
  <2>7. ComingAdmitted'
    BY <1>1, <2>3 DEF IInv, ComingAdmitted, Admitted, At
  <2> QED BY <2>4, <2>6, <2>7 DEF IInv
<1> QED BY <1>2, <1>3 DEF OpenSession

\* A statement fails.
LEMMA StatementFailsStep ==
  ASSUME IInv, NEW w \in Workers, StatementFails(w)
  PROVE  IInv'
<1>1. /\ ~At(w, "idle") /\ UNCHANGED sessionVars /\ Reply(w, 503, TRUE)
  BY DEF StatementFails, GiveUp, At
<1>2. accounts' \in AccountTable /\ (Forward \/ UNCHANGED accounts)
  BY AccountsStep DEF StatementFails, IInv, TypeOK
<1>3. Replied(w)
  BY <1>1, GivingUpReplies
<1> QED BY <1>1, <1>2, <1>3, ReplyStep

\* The worker turns to another request.
LEMMA NextRequestStep ==
  ASSUME IInv, NEW w \in Workers, NextRequest(w)
  PROVE  IInv'
<1>1. /\ login \in [Workers -> Login] /\ accounts' \in AccountTable
      /\ UNCHANGED <<accounts, sessionVars>> /\ login' = [login EXCEPT ![w] = Idle]
  BY DEF IInv, TypeOK, NextRequest
<1>2. Idle \in Login /\ Idle.at = "idle"
  BY DEF Idle, Login
<1> HIDE DEF Login, Idle
<1> QED BY <1>1, <1>2, QuietStep DEF At

-----------------------------------------------------------------------------
(* Everything else, and the theorems.                                      *)

\* Which logins are steady is all that a change of an account does to them.
LEMMA SteadyStep ==
  ASSUME IInv, accounts' \in AccountTable, Forward, UNCHANGED sessionVars,
         (\E n : NoLongerSteady(n)) \/ UNCHANGED login
  PROVE  IInv'
<1>1. /\ login' \in [Workers -> Login]
      /\ \A w \in Workers : At(w, "openSession")' =>
           At(w, "openSession") /\ login'[w].user = login[w].user
  <2>1. CASE UNCHANGED login
    BY <2>1 DEF IInv, TypeOK, At
  <2>2. ASSUME NEW n, NoLongerSteady(n)
        PROVE  /\ login' \in [Workers -> Login]
               /\ \A w \in Workers : At(w, "openSession")' =>
                    At(w, "openSession") /\ login'[w].user = login[w].user
    <3>1. \A w \in Workers :
            login'[w] = IF ~At(w, "idle") /\ login[w].secret = n
                        THEN [login[w] EXCEPT !.steady = FALSE] ELSE login[w]
      BY <2>2 DEF NoLongerSteady
    <3>2. \A w \in Workers : [login[w] EXCEPT !.steady = FALSE] \in Login \/ At(w, "idle")
      <4> SUFFICES ASSUME NEW w \in Workers, ~At(w, "idle")
                   PROVE  [login[w] EXCEPT !.steady = FALSE] \in Login
        OBVIOUS
      <4>1. CASE login[w] \in
                   [at : {"findAdmin", "insertAdmin", "loadAccount", "askLdap"},
                    name : Typed, secret : Secrets \cup {Absent}, steady : BOOLEAN]
        BY <4>1 DEF Login
      <4>2. CASE login[w] \in
                   [at : {"openSession"}, name : Typed, secret : Secrets \cup {Absent},
                    steady : BOOLEAN, user : SessionUser]
        BY <4>2 DEF Login
      <4>3. CASE login[w] \in
                   [at : {"answered"}, name : Typed, secret : Secrets \cup {Absent},
                    steady : BOOLEAN, failed : BOOLEAN, code : Codes]
        BY <4>3 DEF Login
      <4> QED BY <4>1, <4>2, <4>3 DEF IInv, TypeOK, Login, At
    <3>3. \A w \in Workers : ~At(w, "idle") =>
            LET l == [login[w] EXCEPT !.steady = FALSE]
            IN  l.at = login[w].at /\ (At(w, "openSession") => l.user = login[w].user)
      <4> SUFFICES ASSUME NEW w \in Workers, ~At(w, "idle")
                   PROVE  LET l == [login[w] EXCEPT !.steady = FALSE]
                          IN  l.at = login[w].at
                              /\ (At(w, "openSession") => l.user = login[w].user)
        OBVIOUS
      <4>1. login[w] \in Login
        BY DEF IInv, TypeOK
      <4>2. [login[w] EXCEPT !.steady = FALSE].at = login[w].at
        BY <4>1 DEF Login, At
      <4>3. ASSUME At(w, "openSession")
            PROVE  [login[w] EXCEPT !.steady = FALSE].user = login[w].user
        <5>1. login[w] \in [at : {"openSession"}, name : Typed, secret : Secrets \cup
        {Absent},
                            steady : BOOLEAN, user : SessionUser]
          BY <4>1, <4>3 DEF Login, At
        <5> QED BY <5>1
      <4> QED BY <4>2, <4>3
    <3>4. login \in [Workers -> Login]
      BY DEF IInv, TypeOK
    <3>5. \A w \in Workers : login'[w] \in Login
      BY <3>1, <3>2, <3>4
    <3>6. login' \in [Workers -> Login]
      BY <2>2, <3>5 DEF NoLongerSteady
    <3> QED BY <3>1, <3>3, <3>6 DEF At
  <2> QED BY <2>1, <2>2
<1>2. Sessions!TypeOK'
  BY DEF IInv, TypeOK, sessionVars, Sessions!TypeOK
<1>3. TypeOK'
  BY <1>1, <1>2 DEF TypeOK
<1>4. StoredAdmitted'
  BY StaysAdmitted DEF IInv, StoredAdmitted, sessionVars
<1>5. ComingAdmitted'
  BY <1>1, StaysAdmitted DEF IInv, ComingAdmitted
<1> QED BY <1>3, <1>4, <1>5 DEF IInv

\* A sign-up or a review while logins run.
LEMMA AccountStep ==
  ASSUME IInv, NEW i \in Ids, Enrol(i) \/ \E w \in Workers : Judge(w, i)
  PROVE  IInv'
<1>1. accounts' \in AccountTable /\ Forward /\ UNCHANGED sessionVars
  BY AccountsStep DEF Enrol, Judge, IInv
<1>2. (\E n : NoLongerSteady(n)) \/ UNCHANGED login
  BY DEF Enrol, Judge
<1> QED BY <1>1, <1>2, SteadyStep

\* No request but a login stores a session.
LEMMA SessionStep ==
  ASSUME IInv, (\E w \in Workers : Sessions!VisitStep(w)) \/ Sessions!Tick,
         UNCHANGED <<accounts, login>>
  PROVE  IInv'
<1>1. Sessions!TypeOK'
  BY SessionsTypeStep DEF Sessions!Next, IInv, TypeOK
<1>2. \A t \in Tokens : store'[t] \in {store[t], NoSession}
  BY DEF Sessions!VisitStep, Sessions!PresentNothing, Sessions!Present,
         Sessions!CheckExpiry, Sessions!Purge, Sessions!Logout, Sessions!Finish,
         Sessions!Delete, Sessions!Tick, IInv, TypeOK, Sessions!TypeOK
<1>3. TypeOK'
  BY <1>1 DEF IInv, TypeOK
<1>4. StoredAdmitted' /\ ComingAdmitted'
  BY <1>2 DEF IInv, StoredAdmitted, ComingAdmitted, Admitted, At
<1> QED BY <1>3, <1>4 DEF IInv

\* No accounts and no logins.
LEMMA InvInit == Init => IInv
<1> SUFFICES ASSUME Init PROVE IInv
  OBVIOUS
<1>1. Sessions!TypeOK /\ (\A t \in Tokens : store[t] = NoSession)
  BY LoginConstants DEF Init, Sessions!Init, Sessions!TypeOK, Sessions!Visit,
     Sessions!IdleVisit, Sessions!Idle
<1>2. TypeOK
  BY <1>1 DEF Init, TypeOK, EmptyTable, AccountTable, Login, Idle
<1> QED BY <1>1, <1>2 DEF IInv, StoredAdmitted, ComingAdmitted, Init, At, Idle

\* Every step keeps the invariant.
LEMMA InvStep == IInv /\ [Next]_vars => IInv'
<1> SUFFICES ASSUME IInv, [Next]_vars PROVE IInv'
  OBVIOUS
<1>1. ASSUME NEW w \in Workers, LoginStep(w) PROVE IInv'
  BY <1>1, FindAdminStep, InsertAdminStep, LoadAccountStep, AskLdapStep,
     OpenSessionStep DEF LoginStep
<1>2. ASSUME NEW w \in Workers, Visit(w) PROVE IInv'
  BY <1>2, SessionStep DEF Visit
<1>3. CASE Tick
  BY <1>3, SessionStep DEF Tick
<1>4. CASE UNCHANGED vars
  BY <1>4 DEF vars, IInv, TypeOK, StoredAdmitted, ComingAdmitted, Admitted, At,
     Sessions!TypeOK
<1> QED BY <1>1, <1>2, <1>3, <1>4, StartLoginStep, StatementFailsStep, NextRequestStep,
           AccountStep DEF Next

\* Accounts, logins and sessions are of their types.
THEOREM TypeCorrect == Spec => []TypeOK
<1>1. IInv => TypeOK
  BY DEF IInv
<1> QED BY <1>1, InvInit, InvStep, PTL DEF Spec

\* Where accounts start pending, no session and no login about to open one is
\* for an account without a decision, however logins, sign-ups, reviews and
\* failing statements interleave.
THEOREM DecisionsComeFirst == Spec => []NobodyEntersUndecided
<1>1. IInv => NobodyEntersUndecided
  BY LoginKind DEF IInv, NobodyEntersUndecided, StoredAdmitted, ComingAdmitted, Admitted
<1> QED BY <1>1, InvInit, InvStep, PTL DEF Spec

-----------------------------------------------------------------------------

\* The login handler uses the session store as SessionStore promises to be
\* used: what is proved of the store holds in the gateway as a whole.
LEMMA SessionsRefined == Spec => Sessions!Spec
<1>1. IInv /\ [Next]_vars => [Sessions!Next]_sessionVars
  <2> SUFFICES ASSUME IInv, [Next]_vars PROVE [Sessions!Next]_sessionVars
    OBVIOUS
  <2>1. ASSUME NEW w \in Workers, OpenSession(w) PROVE [Sessions!Next]_sessionVars
    <3>1. login[w].user \in SessionUser
      BY <2>1, LoginKind DEF OpenSession, At, IInv
    <3> QED BY <2>1, <3>1 DEF OpenSession, Sessions!Next
  <2>2. ASSUME NEW w \in Workers,
               FindAdmin(w) \/ InsertAdmin(w) \/ LoadAccount(w) \/ AskLdap(w)
        PROVE  UNCHANGED sessionVars
    BY <2>2 DEF FindAdmin, InsertAdmin, LoadAccount, AskLdap
  <2>3. ASSUME NEW w \in Workers, StartLogin(w) \/ StatementFails(w) \/ NextRequest(w)
        PROVE  UNCHANGED sessionVars
    BY <2>3 DEF StartLogin, StatementFails, NextRequest
  <2>4. ASSUME NEW i \in Ids, Enrol(i) \/ \E w \in Workers : Judge(w, i)
        PROVE  UNCHANGED sessionVars
    BY <2>4 DEF Enrol, Judge
  <2>5. ASSUME NEW w \in Workers, Visit(w) PROVE [Sessions!Next]_sessionVars
    BY <2>5 DEF Visit, Sessions!Next
  <2>6. CASE Tick
    BY <2>6 DEF Tick, Sessions!Next
  <2>7. CASE UNCHANGED vars
    BY <2>7 DEF vars, sessionVars
  <2> QED BY <2>1, <2>2, <2>3, <2>4, <2>5, <2>6, <2>7 DEF Next, LoginStep
<1>2. Init => Sessions!Init
  BY DEF Init
<1> QED BY <1>1, <1>2, InvInit, InvStep, PTL DEF Spec, Sessions!Spec, sessionVars,
           Sessions!sessionVars

\* A request is served under a session that had not expired when it came in
\* and is the one a login stored under its token, however many lookups, logouts
\* and logins run at once.
THEOREM ServedAlive == Spec => []ServedWhileAlive
<1>1. SessionsInv => ServedWhileAlive
  BY DEF SessionsInv, ServedWhileAlive, Sessions!ServedWhileAlive, AliveWhenItCame,
     CopyIsStored, Sessions!Visiting
<1> QED BY <1>1, SessionsInvInit, SessionsInvStep, SessionsRefined, PTL
        DEF Sessions!Spec, sessionVars, Sessions!sessionVars

\* A session ends by its logout or after it expired, and never comes back.
THEOREM EndOnce == Spec => SessionsEndOnce
<1> DEFINE Ends(t) ==
      \/ store'[t] = store[t]
      \/ /\ store'[t] = NoSession
         /\ \/ now > store[t].expires
            \/ \E w \in Workers : Sessions!Visiting(w, "idle")
                                  /\ visit'[w] = [at |-> "loggedOut", token |-> t]
<1>1. SessionsInv /\ [Sessions!Next]_sessionVars => [\A t \in issued : Ends(t)]_sessionVars
  <2> SUFFICES ASSUME SessionsInv, Sessions!Next, NEW t \in issued
               PROVE  Ends(t)
    OBVIOUS
  <2> USE DEF SessionsInv, Sessions!TypeOK
  <2>1. ASSUME NEW u \in SessionUser, Sessions!Open(u) PROVE store'[t] = store[t]
    BY <2>1 DEF Sessions!Open
  <2>2. ASSUME NEW w \in Workers, Sessions!Purge(w) PROVE Ends(t)
    BY <2>2, VisitKind DEF Sessions!Purge, Sessions!Delete, Sessions!Visiting,
       PurgesExpired, Sessions!EndingVisit
  <2>3. ASSUME NEW w \in Workers, Sessions!Logout(w) PROVE Ends(t)
    BY <2>3 DEF Sessions!Logout, Sessions!Delete, Sessions!Visiting
  <2>4. ASSUME NEW w \in Workers,
               Sessions!PresentNothing(w) \/ Sessions!Present(w) \/
               Sessions!CheckExpiry(w) \/ Sessions!Finish(w) \/ Sessions!Tick
        PROVE  store'[t] = store[t]
    BY <2>4 DEF Sessions!PresentNothing, Sessions!Present, Sessions!CheckExpiry,
       Sessions!Finish, Sessions!Tick
  <2> QED BY <2>1, <2>2, <2>3, <2>4 DEF Sessions!Next, Sessions!VisitStep, Sessions!Tick
<1> QED BY <1>1, SessionsInvInit, SessionsInvStep, SessionsRefined, PTL
        DEF Sessions!Spec, SessionsEndOnce, Sessions!SessionsEndOnce, sessionVars,
        Sessions!sessionVars

-----------------------------------------------------------------------------
(* OwnerGetsIn.  A login that is turned away although its account was       *)
(* approved all the while is one the property does not promise anything:    *)
(* the accounts it met exclude, for good, the case it speaks of.            *)

\* Rows are never renamed: what names they answer to and whose they are stays.
Kept ==
  \A j \in Ids : accounts[j] # Absent =>
    /\ accounts'[j] # Absent
    /\ accounts'[j].name = accounts[j].name /\ accounts'[j].email = accounts[j].email
    /\ accounts'[j].role = accounts[j].role

\* User names are unique, and administrator is who has the name.
Table ==
  /\ \A i, j \in Ids : /\ accounts[i] # Absent /\ accounts[j] # Absent
                       /\ accounts[i].name = accounts[j].name
                       => i = j
  /\ \A i \in Ids : /\ accounts[i] # Absent /\ accounts[i].role = "platform-admin"
                    => accounts[i].name = AdminName

\* An account that answers to x and is not s's, or is s's and does not.
Misfit(x, s) ==
  \E i \in Ids : accounts[i] # Absent /\ (i \in Matching(x) <=> i \notin Owner(s))

Hopeless(x, s) ==
  \/ AdminEmailTaken
  \/ ~Unambiguous
  \/ Misfit(x, s)
  \/ s = AdminName /\ Misfit(AdminName, AdminName)

\* s is the password of an approved account, or of the administrator to be.
SteadyFor(s) ==
  /\ \A i \in Owner(s) : Approved(i)
  /\ Owner(s) = {} => s = AdminName

\* Worker w serves a login of name x and password s that is still steady.
Serving(w, x, s) ==
  /\ ~At(w, "idle") /\ login[w].steady
  /\ login[w].name = x /\ login[w].secret = s

\* The account was not let in, or will not be.
TurnedAway(w) ==
  \/ At(w, "askLdap")
  \/ At(w, "answered") /\ ~login[w].failed /\ login[w].code # 200

AdminThere == Matching(AdminName) # {}

OnCourse(w, x, s) ==
  /\ SteadyFor(s)
  /\ At(w, "loadAccount") => AdminThere
  /\ TurnedAway(w) => Hopeless(x, s)

LoginsOnCourse ==
  \A w \in Workers, x \in Typed, s \in Secrets \cup {Absent} :
    Serving(w, x, s) => OnCourse(w, x, s)

OInv == IInv /\ Table /\ LoginsOnCourse

-----------------------------------------------------------------------------
(* The accounts.                                                           *)

\* What is in the table, where something is.
LEMMA RowIs ==
  ASSUME TypeOK, NEW i \in Ids, accounts[i] # Absent
  PROVE  accounts[i] \in AccountRow
BY DEF TypeOK, AccountTable

\* A sign-up, a review or the administrator's insert renames nobody.
LEMMA DirectoryStep ==
  ASSUME TypeOK, Table, NEW i \in Ids,
         Directory!Enrol(i) \/ Directory!Judge(i) \/ Directory!Bootstrap(i)
  PROVE  Kept /\ Table'
<1>1. accounts \in [Ids -> AccountRow \cup {Absent}] /\ Absent \notin AccountRow
  BY AbsentIsNoRow DEF TypeOK, AccountTable
<1>2. ASSUME NEW row \in AccountRow, accounts[i] = Absent, NameFree(accounts, row.name),
             row.role = "platform-admin" => row.name = AdminName,
             accounts' = [accounts EXCEPT ![i] = row]
      PROVE  Kept /\ Table'
  <2>1. accounts'[i] = row /\ \A j \in Ids : j # i => accounts'[j] = accounts[j]
    BY <1>1, <1>2
  <2>2. Kept
    BY <1>2, <2>1 DEF Kept
  <2>3. \A j \in Ids : j # i /\ accounts'[j] # Absent => accounts'[j].name # row.name
    BY <1>2, <2>1 DEF NameFree
  <2>4. Table'
    BY <1>2, <2>1, <2>3 DEF Table
  <2> QED BY <2>2, <2>4
<1>3. CASE Directory!Enrol(i)
  <2>1. PICK n \in Names, e \in Emails :
          /\ accounts[i] = Absent /\ NameFree(accounts, n)
          /\ accounts' = [accounts EXCEPT ![i] =
                            [name |-> n, email |-> e, role |-> "platform-operator",
                             status |-> Start]]
    BY <1>3 DEF Directory!Enrol, Directory!NameFree, NameFree
  <2>2. PICK row : row = [name |-> n, email |-> e, role |-> "platform-operator",
                          status |-> Start]
    OBVIOUS
  <2>3. row \in AccountRow /\ row.name = n /\ row.role # "platform-admin"
    BY <2>2 DEF AccountRow, Roles, Statuses, Start
  <2>4. accounts' = [accounts EXCEPT ![i] = row]
    BY <2>1, <2>2
  <2> QED BY <1>2, <2>1, <2>3, <2>4
<1>4. CASE Directory!Bootstrap(i)
  <2>1. accounts[i] = Absent /\ NameFree(accounts, AdminName)
        /\ accounts' = [accounts EXCEPT ![i] = AdminRow]
    BY <1>4 DEF Directory!Bootstrap, Directory!AdminRow, AdminRow, Directory!NameFree, NameFree
  <2>2. AdminRow \in AccountRow /\ AdminRow.name = AdminName
    BY AdminIsNameable DEF AdminRow, AccountRow, Roles, Statuses
  <2> HIDE DEF AdminRow
  <2> QED BY <1>2, <2>1, <2>2
<1>5. CASE Directory!Judge(i)
  <2>1. PICK d \in Decisions :
          accounts[i] # Absent /\ accounts' = [accounts EXCEPT ![i].status = d]
    BY <1>5 DEF Directory!Judge, Directory!Decisions, Decisions
  <2>2. PICK row : row = [accounts[i] EXCEPT !.status = d]
    OBVIOUS
  <2>3. accounts[i] \in AccountRow
    BY <1>1, <2>1
  <2>4. row # Absent /\ row.name = accounts[i].name /\ row.email = accounts[i].email
        /\ row.role = accounts[i].role
    <3>1. row \in AccountRow
      BY <2>2, <2>3 DEF AccountRow, Statuses, Decisions
    <3> QED BY <1>1, <2>2, <2>3, <3>1 DEF AccountRow
  <2>5. accounts' = [accounts EXCEPT ![i] = row]
    BY <1>1, <2>1, <2>2
  <2>6. \A j \in Ids : /\ accounts'[j] # Absent <=> accounts[j] # Absent
                       /\ accounts[j] # Absent => /\ accounts'[j].name = accounts[j].name
                                                  /\ accounts'[j].email = accounts[j].email
                                                  /\ accounts'[j].role = accounts[j].role
    BY <1>1, <2>1, <2>4, <2>5
  <2> QED BY <2>6 DEF Kept, Table
<1> QED BY <1>3, <1>4, <1>5

\* Names an account answers to, it answers to for good.
LEMMA Persists ==
  ASSUME Kept \/ UNCHANGED accounts, NEW x, NEW s
  PROVE  /\ Matching(x) \subseteq Matching(x)' /\ Owner(s) \subseteq Owner(s)'
         /\ Misfit(x, s) => Misfit(x, s)'
<1>1. \A i \in Ids : accounts[i] # Absent =>
        /\ accounts'[i] # Absent
        /\ accounts'[i].name = accounts[i].name /\ accounts'[i].email = accounts[i].email
  BY DEF Kept
<1>2. \A i \in Ids : accounts[i] # Absent =>
        (i \in Matching(x) <=> i \in Matching(x)') /\ (i \in Owner(s) <=> i \in Owner(s)')
  BY <1>1 DEF Matching, Owner
<1>3. Matching(x) \subseteq Matching(x)' /\ Owner(s) \subseteq Owner(s)'
  BY <1>1 DEF Matching, Owner
<1>4. Misfit(x, s) => Misfit(x, s)'
  BY <1>1, <1>2 DEF Misfit
<1> QED BY <1>3, <1>4

\* Accounts are never renamed or deleted: what cannot match never will.
LEMMA HopelessForGood ==
  ASSUME Kept \/ UNCHANGED accounts, NEW x, NEW s, Hopeless(x, s)
  PROVE  Hopeless(x, s)'
<1>1. AdminEmailTaken => AdminEmailTaken'
  BY DEF AdminEmailTaken, Kept
<1>2. ASSUME ~Unambiguous PROVE ~Unambiguous'
  <2>1. PICK y \in Typed : \E i, j \in Matching(y) : i # j
    BY <1>2 DEF Unambiguous
  <2>2. Matching(y) \subseteq Matching(y)'
    BY Persists
  <2> QED BY <2>1, <2>2 DEF Unambiguous
<1>3. Misfit(x, s) => Misfit(x, s)'
  BY Persists
<1>4. Misfit(AdminName, AdminName) => Misfit(AdminName, AdminName)'
  BY Persists
<1> QED BY <1>1, <1>2, <1>3, <1>4 DEF Hopeless

\* The administrator's row changes nothing for who has approved accounts.
LEMMA BootstrapSteady ==
  ASSUME TypeOK, NEW i \in Ids, Directory!Bootstrap(i), NEW s, SteadyFor(s)
  PROVE  SteadyFor(s)' /\ AdminThere'
<1>1. /\ accounts[i] = Absent /\ accounts' = [accounts EXCEPT ![i] = AdminRow]
      /\ accounts \in [Ids -> AccountRow \cup {Absent}]
  BY DEF Directory!Bootstrap, Directory!AdminRow, AdminRow, TypeOK, AccountTable
<1>2. /\ AdminRow \in AccountRow /\ AdminRow.name = AdminName /\ AdminRow.status = "approved"
      /\ AdminRow # Absent
  BY AdminIsNameable, AbsentIsNoRow DEF AdminRow, AccountRow, Roles, Statuses
<1> HIDE DEF AdminRow, AccountRow
<1>3. accounts'[i] = AdminRow /\ \A j \in Ids : j # i => accounts'[j] = accounts[j]
  BY <1>1
<1>4. AdminThere'
  <2>1. i \in Matching(AdminName)'
    BY <1>2, <1>3 DEF Matching
  <2> QED BY <2>1 DEF AdminThere
<1>5. \A j \in Owner(s)' : Approved(j)'
  BY <1>2, <1>3 DEF Owner, SteadyFor, Approved
<1>6. Owner(s) \subseteq Owner(s)'
  BY <1>1, <1>3 DEF Owner
<1> QED BY <1>4, <1>5, <1>6 DEF SteadyFor

-----------------------------------------------------------------------------
(* One login at a time.                                                    *)

\* Every other login is where it was.
LEMMA CourseStep ==
  ASSUME OInv, IInv', Table', Kept \/ UNCHANGED accounts, NEW w \in Workers,
         \A v \in Workers \ {w} : login'[v] = login[v],
         \A s \in Secrets \cup {Absent} : SteadyFor(s) => SteadyFor(s)',
         \A x \in Typed, s \in Secrets \cup {Absent} :
           Serving(w, x, s)' => OnCourse(w, x, s)'
  PROVE  OInv'
<1> SUFFICES ASSUME NEW v \in Workers, NEW x \in Typed, NEW s \in Secrets \cup {Absent},
                    v # w, Serving(v, x, s)'
             PROVE  OnCourse(v, x, s)'
  BY DEF OInv, LoginsOnCourse
<1>1. login'[v] = login[v]
  OBVIOUS
<1>2. OnCourse(v, x, s)
  BY <1>1 DEF OInv, LoginsOnCourse, Serving, At
<1>3. SteadyFor(s)'
  BY <1>2 DEF OnCourse
<1>4. At(v, "loadAccount")' => AdminThere'
  BY <1>1, <1>2, Persists DEF OnCourse, AdminThere, At
<1>5. TurnedAway(v)' => Hopeless(x, s)'
  BY <1>1, <1>2, HopelessForGood DEF OnCourse, TurnedAway, At
<1> QED BY <1>3, <1>4, <1>5 DEF OnCourse

\* The login goes on, or is answered, as what it was.
SameClient(w) ==
  /\ login'[w].name = login[w].name /\ login'[w].secret = login[w].secret
  /\ login'[w].steady = login[w].steady

\* A step of one login, whoever else has moved accounts meanwhile.
LEMMA GoesOn ==
  ASSUME OInv, IInv', Table', Kept \/ UNCHANGED accounts, NEW w \in Workers,
         ~At(w, "idle"), SameClient(w),
         \A v \in Workers \ {w} : login'[v] = login[v],
         \A s \in Secrets \cup {Absent} : SteadyFor(s) => SteadyFor(s)',
         At(w, "loadAccount")' => AdminThere',
         \A x \in Typed, s \in Secrets \cup {Absent} :
           Serving(w, x, s) /\ SteadyFor(s) /\ TurnedAway(w)' => Hopeless(x, s)'
  PROVE  OInv'
<1>1. ASSUME NEW x \in Typed, NEW s \in Secrets \cup {Absent}, Serving(w, x, s)'
      PROVE  OnCourse(w, x, s)'
  <2>1. Serving(w, x, s)
    BY <1>1 DEF Serving, SameClient
  <2>2. SteadyFor(s)
    BY <2>1 DEF OInv, LoginsOnCourse, OnCourse
  <2> QED BY <2>1, <2>2 DEF OnCourse
<1> QED BY <1>1, CourseStep

\* A login that goes on is still the same client's.
LEMMA Proceeds ==
  ASSUME TypeOK, NEW w \in Workers,
         login[w].at \in {"findAdmin", "insertAdmin", "loadAccount"},
         NEW step \in {"insertAdmin", "loadAccount", "askLdap"}, Proceed(w, step)
  PROVE  /\ SameClient(w) /\ login'[w].at = step
         /\ \A v \in Workers \ {w} : login'[v] = login[v]
<1>1. /\ login \in [Workers -> Login]
      /\ login[w] \in [at : {"findAdmin", "insertAdmin", "loadAccount", "askLdap"},
                       name : Typed, secret : Secrets \cup {Absent}, steady : BOOLEAN]
  BY DEF TypeOK, Login
<1>2. PICK new : new = [login[w] EXCEPT !.at = step]
  OBVIOUS
<1>3. new.at = step /\ new.name = login[w].name /\ new.secret = login[w].secret
      /\ new.steady = login[w].steady
  BY <1>1, <1>2
<1>4. login' = [login EXCEPT ![w] = new]
  BY <1>1, <1>2 DEF Proceed
<1> HIDE DEF Login
<1> QED BY <1>1, <1>3, <1>4 DEF SameClient

\* So is one that is answered.
LEMMA Replies ==
  ASSUME TypeOK, NEW w \in Workers, NEW code, NEW failed,
         login' = [login EXCEPT ![w] =
           [at |-> "answered", name |-> login[w].name, secret |-> login[w].secret,
            steady |-> login[w].steady, failed |-> failed, code |-> code]]
  PROVE  /\ SameClient(w) /\ login'[w].at = "answered"
         /\ login'[w].failed = failed /\ login'[w].code = code
         /\ \A v \in Workers \ {w} : login'[v] = login[v]
<1>1. login \in [Workers -> Login]
  BY DEF TypeOK
<1>2. PICK new : new = [at |-> "answered", name |-> login[w].name, secret |-> login[w].secret,
                        steady |-> login[w].steady, failed |-> failed, code |-> code]
  OBVIOUS
<1>3. /\ new.at = "answered" /\ new.name = login[w].name /\ new.secret = login[w].secret
      /\ new.steady = login[w].steady /\ new.failed = failed /\ new.code = code
  BY <1>2
<1>4. login' = [login EXCEPT ![w] = new]
  BY <1>2
<1> HIDE DEF Login
<1> QED BY <1>1, <1>3, <1>4 DEF SameClient

\* An answer that is the login's fault, or an error's.
LEMMA Answered ==
  ASSUME TypeOK, NEW w \in Workers, NEW code, Answer(w, code)
  PROVE  /\ SameClient(w) /\ login'[w].at = "answered" /\ login'[w].code = code
         /\ \A v \in Workers \ {w} : login'[v] = login[v]
BY Replies DEF Answer, Reply

\* An answer because a statement or the directory failed.
LEMMA Failed ==
  ASSUME TypeOK, NEW w \in Workers, NEW code, Reply(w, code, TRUE)
  PROVE  /\ SameClient(w) /\ login'[w].at = "answered" /\ login'[w].failed = TRUE
         /\ \A v \in Workers \ {w} : login'[v] = login[v]
BY Replies DEF Reply

\* A login that goes on to open a session.
LEMMA Opens ==
  ASSUME TypeOK, NEW w \in Workers, NEW u,
         login' = [login EXCEPT ![w] =
           [at |-> "openSession", name |-> login[w].name, secret |-> login[w].secret,
            steady |-> login[w].steady, user |-> u]]
  PROVE  /\ SameClient(w) /\ login'[w].at = "openSession"
         /\ \A v \in Workers \ {w} : login'[v] = login[v]
<1>1. login \in [Workers -> Login]
  BY DEF TypeOK
<1>2. PICK new : new = [at |-> "openSession", name |-> login[w].name,
                        secret |-> login[w].secret, steady |-> login[w].steady, user |-> u]
  OBVIOUS
<1>3. /\ new.at = "openSession" /\ new.name = login[w].name
      /\ new.secret = login[w].secret /\ new.steady = login[w].steady
  BY <1>2
<1>4. login' = [login EXCEPT ![w] = new]
  BY <1>2
<1> HIDE DEF Login
<1> QED BY <1>1, <1>3, <1>4 DEF SameClient

-----------------------------------------------------------------------------

\* A step of a login that leaves the accounts alone changes nothing for them.
LEMMA SameAccounts ==
  ASSUME UNCHANGED accounts
  PROVE  /\ Table => Table'
         /\ AdminThere => AdminThere'
         /\ \A s \in Secrets \cup {Absent} : SteadyFor(s) => SteadyFor(s)'
BY DEF Table, AdminThere, Matching, SteadyFor, Owner, Approved

\* A login begins steady only if its account is approved.
LEMMA StartsOnCourse ==
  ASSUME OInv, NEW w \in Workers, StartLogin(w)
  PROVE  OInv'
<1>1. PICK x \in Typed, s \in Secrets \cup {Absent} :
        login' = [login EXCEPT ![w] =
                    [at |-> "findAdmin", name |-> x, secret |-> s,
                     steady |-> \/ \E i \in Owner(s) : Approved(i)
                                \/ s = AdminName /\ Owner(s) = {}]]
  BY DEF StartLogin
<1>2. PICK b : b = (\/ \E i \in Owner(s) : Approved(i)
                    \/ s = AdminName /\ Owner(s) = {})
  OBVIOUS
<1>3. PICK new : new = [at |-> "findAdmin", name |-> x, secret |-> s, steady |-> b]
  OBVIOUS
<1>4. /\ login \in [Workers -> Login] /\ UNCHANGED accounts
      /\ login' = [login EXCEPT ![w] = new]
  BY <1>1, <1>2, <1>3 DEF OInv, IInv, TypeOK, StartLogin
<1>5. /\ new.at = "findAdmin" /\ new.name = x /\ new.secret = s /\ new.steady = b
      /\ login'[w] = new /\ \A v \in Workers \ {w} : login'[v] = login[v]
  BY <1>3, <1>4
<1>6. IInv'
  BY StartLoginStep DEF OInv
<1>7. ASSUME NEW y \in Typed, NEW t \in Secrets \cup {Absent}, Serving(w, y, t)'
      PROVE  OnCourse(w, y, t)'
  <2>1. t = s /\ b
    BY <1>5, <1>7 DEF Serving
  <2>2. SteadyFor(s)
    <3>1. CASE \E i \in Owner(s) : Approved(i)
      <4>1. PICK i \in Owner(s) : Approved(i)
        BY <3>1
      <4>2. \A j \in Owner(s) : j = i
        BY DEF OInv, Table, Owner
      <4> QED BY <4>1, <4>2 DEF SteadyFor
    <3>2. CASE s = AdminName /\ Owner(s) = {}
      BY <3>2 DEF SteadyFor
    <3> QED BY <1>2, <2>1, <3>1, <3>2
  <2>3. SteadyFor(t)'
    BY <1>4, <2>1, <2>2, SameAccounts
  <2> QED BY <1>5, <2>3 DEF OnCourse, TurnedAway, At
<1>8. Table' /\ \A t \in Secrets \cup {Absent} : SteadyFor(t) => SteadyFor(t)'
  BY <1>4, SameAccounts DEF OInv
<1> QED BY <1>4, <1>5, <1>6, <1>7, <1>8, CourseStep

\* Past ensureBootstrapAdmin somebody answers to the administrator's name.
LEMMA FindsAdminOnCourse ==
  ASSUME OInv, NEW w \in Workers, FindAdmin(w)
  PROVE  OInv'
<1>1. At(w, "findAdmin") /\ UNCHANGED accounts /\ IInv' /\ TypeOK
  BY FindAdminStep DEF FindAdmin, OInv, IInv
<1>2. PICK step \in {"insertAdmin", "loadAccount"} :
        Proceed(w, step) /\ (step = "loadAccount" => AdminThere)
  BY DEF FindAdmin, AdminThere
<1>3. /\ SameClient(w) /\ login'[w].at = step
      /\ \A v \in Workers \ {w} : login'[v] = login[v]
  BY <1>1, <1>2, Proceeds DEF At
<1>4. /\ Table' /\ (AdminThere => AdminThere')
      /\ \A s \in Secrets \cup {Absent} : SteadyFor(s) => SteadyFor(s)'
  BY <1>1, SameAccounts DEF OInv
<1>5. ~TurnedAway(w)' /\ ~At(w, "idle") /\ (At(w, "loadAccount")' => AdminThere')
  BY <1>1, <1>2, <1>3, <1>4 DEF TurnedAway, At
<1> QED BY <1>1, <1>3, <1>4, <1>5, GoesOn

\* The conflict on the e-mail is with somebody who is no administrator.
LEMMA InsertsAdminOnCourse ==
  ASSUME OInv, NEW w \in Workers, InsertAdmin(w)
  PROVE  OInv'
<1>1. At(w, "insertAdmin") /\ IInv' /\ TypeOK /\ ~At(w, "idle")
  BY InsertAdminStep DEF InsertAdmin, OInv, IInv, At
<1>2. CASE ~NameFree(accounts, AdminName) /\ Proceed(w, "loadAccount") /\ UNCHANGED accounts
  <2>1. /\ SameClient(w) /\ login'[w].at = "loadAccount"
        /\ \A v \in Workers \ {w} : login'[v] = login[v]
    BY <1>1, <1>2, Proceeds DEF At
  <2>2. AdminThere
    BY <1>2 DEF NameFree, AdminThere, Matching
  <2>3. /\ Table' /\ AdminThere'
        /\ \A s \in Secrets \cup {Absent} : SteadyFor(s) => SteadyFor(s)'
    BY <1>2, <2>2, SameAccounts DEF OInv
  <2>4. ~TurnedAway(w)'
    BY <2>1 DEF TurnedAway, At
  <2> QED BY <1>1, <1>2, <2>1, <2>3, <2>4, GoesOn
<1>3. CASE /\ NameFree(accounts, AdminName) /\ ~EmailFree(accounts, AdminEmail)
           /\ Answer(w, 503) /\ UNCHANGED accounts
  <2>1. /\ SameClient(w) /\ login'[w].at = "answered"
        /\ \A v \in Workers \ {w} : login'[v] = login[v]
    BY <1>1, <1>3, Answered
  <2>2. AdminEmailTaken
    BY <1>3 DEF NameFree, EmailFree, AdminEmailTaken, OInv, Table
  <2>3. \A x, s : Hopeless(x, s)'
    BY <1>3, <2>2 DEF Hopeless, AdminEmailTaken
  <2>4. /\ Table' /\ \A s \in Secrets \cup {Absent} : SteadyFor(s) => SteadyFor(s)'
    BY <1>3, SameAccounts DEF OInv
  <2>5. ~At(w, "loadAccount")'
    BY <2>1 DEF At
  <2> QED BY <1>1, <1>3, <2>1, <2>3, <2>4, <2>5, GoesOn
<1>4. ASSUME NEW i \in Ids, Directory!Bootstrap(i), Proceed(w, "loadAccount")
      PROVE  OInv'
  <2>1. /\ SameClient(w) /\ login'[w].at = "loadAccount"
        /\ \A v \in Workers \ {w} : login'[v] = login[v]
    BY <1>1, <1>4, Proceeds DEF At
  <2>2. Kept /\ Table'
    BY <1>1, <1>4, DirectoryStep DEF OInv
  <2>3. \A s \in Secrets \cup {Absent} : SteadyFor(s) => SteadyFor(s)'
    BY <1>1, <1>4, BootstrapSteady
  <2>4. ASSUME NEW x \in Typed, NEW s \in Secrets \cup {Absent}, Serving(w, x, s)
        PROVE  AdminThere'
    <3>1. SteadyFor(s)
      BY <2>4 DEF OInv, LoginsOnCourse, OnCourse
    <3> QED BY <1>1, <1>4, <3>1, BootstrapSteady
  <2>5. ~TurnedAway(w)'
    BY <2>1 DEF TurnedAway, At
  <2>6. ASSUME NEW x \in Typed, NEW s \in Secrets \cup {Absent}, Serving(w, x, s)'
        PROVE  OnCourse(w, x, s)'
    <3>1. Serving(w, x, s)
      BY <1>1, <2>1, <2>6 DEF Serving, SameClient
    <3>2. SteadyFor(s)
      BY <3>1 DEF OInv, LoginsOnCourse, OnCourse
    <3> QED BY <2>3, <2>4, <2>5, <3>1, <3>2 DEF OnCourse
  <2> QED BY <1>1, <2>1, <2>2, <2>3, <2>6, CourseStep
<1> QED BY <1>2, <1>3, <1>4 DEF InsertAdmin, UsernameConflict

\* An account that is not found, not approved or not this password's.
LEMMA LoadsOnCourse ==
  ASSUME OInv, NEW w \in Workers, LoadAccount(w)
  PROVE  OInv'
<1>1. At(w, "loadAccount") /\ UNCHANGED accounts /\ IInv' /\ TypeOK /\ ~At(w, "idle")
  BY LoadAccountStep DEF LoadAccount, OInv, IInv, At
<1>2. /\ Table' /\ \A s \in Secrets \cup {Absent} : SteadyFor(s) => SteadyFor(s)'
  BY <1>1, SameAccounts DEF OInv
<1>3. ASSUME NEW x \in Typed, NEW s \in Secrets \cup {Absent}, Serving(w, x, s), SteadyFor(s),
             \/ Matching(x) = {}
             \/ \E i \in Matching(x) : ~Approved(i) \/ accounts[i].name # s
      PROVE  Hopeless(x, s)'
  <2>1. AdminThere
    BY <1>1, <1>3 DEF OInv, LoginsOnCourse, OnCourse
  <2>2. CASE Matching(x) = {} /\ Owner(s) = {}
    <3>1. s = AdminName
      BY <1>3, <2>2 DEF SteadyFor
    <3>2. PICK j \in Matching(AdminName) : TRUE
      BY <2>1 DEF AdminThere
    <3>3. j \in Ids /\ accounts[j] # Absent /\ j \notin Owner(s)
      BY <2>2 DEF Matching
    <3> QED BY <1>1, <3>1, <3>2, <3>3, HopelessForGood DEF Hopeless, Misfit
  <2>3. CASE Matching(x) = {} /\ Owner(s) # {}
    <3>1. PICK o \in Owner(s) : TRUE
      BY <2>3
    <3>2. o \in Ids /\ accounts[o] # Absent /\ o \notin Matching(x)
      BY <2>3 DEF Owner
    <3> QED BY <1>1, <3>1, <3>2, HopelessForGood DEF Hopeless, Misfit
  <2>4. CASE \E i \in Matching(x) : ~Approved(i) \/ accounts[i].name # s
    <3>1. PICK i \in Matching(x) : ~Approved(i) \/ accounts[i].name # s
      BY <2>4
    <3>2. i \in Ids /\ accounts[i] # Absent
      BY DEF Matching
    <3>3. i \notin Owner(s)
      BY <1>3, <3>1 DEF Owner, SteadyFor
    <3> QED BY <1>1, <3>1, <3>2, <3>3, HopelessForGood DEF Hopeless, Misfit
  <2> QED BY <1>3, <2>2, <2>3, <2>4
<1>4. CASE \/ Matching(login[w].name) = {} /\ Proceed(w, "askLdap")
           \/ \E i \in Matching(login[w].name) :
                accounts[i].name # login[w].secret /\ Proceed(w, "askLdap")
  <2>1. /\ SameClient(w) /\ login'[w].at = "askLdap"
        /\ \A v \in Workers \ {w} : login'[v] = login[v]
    BY <1>1, <1>4, Proceeds DEF At
  <2>2. \A x \in Typed, s \in Secrets \cup {Absent} :
          Serving(w, x, s) /\ SteadyFor(s) => Hopeless(x, s)'
    BY <1>3, <1>4 DEF Serving
  <2>3. ~At(w, "loadAccount")'
    BY <2>1 DEF At
  <2> QED BY <1>1, <1>2, <2>1, <2>2, <2>3, GoesOn
<1>5. CASE \E i \in Matching(login[w].name) : ~Approved(i) /\ Answer(w, 503)
  <2>1. /\ SameClient(w) /\ login'[w].at = "answered"
        /\ \A v \in Workers \ {w} : login'[v] = login[v]
    BY <1>1, <1>5, Answered
  <2>2. \A x \in Typed, s \in Secrets \cup {Absent} :
          Serving(w, x, s) /\ SteadyFor(s) => Hopeless(x, s)'
    BY <1>3, <1>5 DEF Serving
  <2>3. ~At(w, "loadAccount")'
    BY <2>1 DEF At
  <2> QED BY <1>1, <1>2, <2>1, <2>2, <2>3, GoesOn
<1>6. ASSUME NEW u, login' = [login EXCEPT ![w] =
                         [at |-> "openSession", name |-> login[w].name,
                          secret |-> login[w].secret, steady |-> login[w].steady,
                          user |-> u]]
      PROVE  OInv'
  <2>1. /\ SameClient(w) /\ login'[w].at = "openSession"
        /\ \A v \in Workers \ {w} : login'[v] = login[v]
    BY <1>1, <1>6, Opens
  <2>2. ~TurnedAway(w)' /\ ~At(w, "loadAccount")'
    BY <2>1 DEF TurnedAway, At
  <2> QED BY <1>1, <1>2, <2>1, <2>2, GoesOn
<1> QED BY <1>4, <1>5, <1>6 DEF LoadAccount

\* Who is sent to LDAP had no chance before, and has none now.
LEMMA AsksLdapOnCourse ==
  ASSUME OInv, NEW w \in Workers, AskLdap(w)
  PROVE  OInv'
<1>1. At(w, "askLdap") /\ UNCHANGED accounts /\ IInv' /\ TypeOK /\ ~At(w, "idle")
  BY AskLdapStep DEF AskLdap, OInv, IInv, At
<1>2. /\ Table' /\ \A s \in Secrets \cup {Absent} : SteadyFor(s) => SteadyFor(s)'
  BY <1>1, SameAccounts DEF OInv
<1>3. ASSUME NEW x \in Typed, NEW s \in Secrets \cup {Absent}, Serving(w, x, s)
      PROVE  Hopeless(x, s)'
  <2>1. Hopeless(x, s)
    BY <1>1, <1>3 DEF OInv, LoginsOnCourse, OnCourse, TurnedAway
  <2> QED BY <1>1, <2>1, HopelessForGood
<1>4. ASSUME NEW step \in {"answered", "openSession"}, SameClient(w), login'[w].at = step,
             \A v \in Workers \ {w} : login'[v] = login[v]
      PROVE  OInv'
  <2>1. ~At(w, "loadAccount")'
    BY <1>4 DEF At
  <2> QED BY <1>1, <1>2, <1>3, <1>4, <2>1, GoesOn
<1>5. CASE Answer(w, 401)
  BY <1>1, <1>4, <1>5, Answered
<1>6. CASE Reply(w, 503, TRUE)
  BY <1>1, <1>4, <1>6, Failed
<1>7. ASSUME NEW u, login' = [login EXCEPT ![w] =
                         [at |-> "openSession", name |-> login[w].name,
                          secret |-> login[w].secret, steady |-> login[w].steady,
                          user |-> u]]
      PROVE  OInv'
  BY <1>1, <1>4, <1>7, Opens
<1> QED BY <1>5, <1>6, <1>7 DEF AskLdap

\* Who is let in is not turned away.
LEMMA OpensOnCourse ==
  ASSUME OInv, NEW w \in Workers, OpenSession(w)
  PROVE  OInv'
<1>1. At(w, "openSession") /\ UNCHANGED accounts /\ IInv' /\ TypeOK /\ ~At(w, "idle")
  BY OpenSessionStep DEF OpenSession, OInv, IInv, At
<1>2. /\ Table' /\ \A s \in Secrets \cup {Absent} : SteadyFor(s) => SteadyFor(s)'
  BY <1>1, SameAccounts DEF OInv
<1>3. /\ SameClient(w) /\ login'[w].at = "answered"
      /\ login'[w].code = 200 \/ login'[w].failed = TRUE
      /\ \A v \in Workers \ {w} : login'[v] = login[v]
  <2>1. CASE Answer(w, 200)
    BY <1>1, <2>1, Answered
  <2>2. CASE Reply(w, 500, TRUE)
    BY <1>1, <2>2, Failed
  <2> QED BY <2>1, <2>2 DEF OpenSession
<1>4. ~TurnedAway(w)' /\ ~At(w, "loadAccount")'
  BY <1>3 DEF TurnedAway, At
<1> QED BY <1>1, <1>2, <1>3, <1>4, GoesOn

\* A failed statement may have inserted the administrator all the same.
LEMMA FailsOnCourse ==
  ASSUME OInv, NEW w \in Workers, StatementFails(w)
  PROVE  OInv'
<1>1. IInv' /\ TypeOK /\ ~At(w, "idle") /\ Reply(w, 503, TRUE)
  BY StatementFailsStep DEF StatementFails, GiveUp, OInv, IInv, At
<1>2. /\ SameClient(w) /\ login'[w].at = "answered" /\ login'[w].failed = TRUE
      /\ \A v \in Workers \ {w} : login'[v] = login[v]
  BY <1>1, Failed
<1>3. ~TurnedAway(w)' /\ ~At(w, "loadAccount")'
  BY <1>2 DEF TurnedAway, At
<1>4. CASE UNCHANGED accounts
  <2>1. /\ Table' /\ \A s \in Secrets \cup {Absent} : SteadyFor(s) => SteadyFor(s)'
    BY <1>4, SameAccounts DEF OInv
  <2> QED BY <1>1, <1>2, <1>3, <1>4, <2>1, GoesOn
<1>5. ASSUME NEW i \in Ids, Directory!Bootstrap(i) PROVE OInv'
  <2>1. Kept /\ Table'
    BY <1>1, <1>5, DirectoryStep DEF OInv
  <2>2. \A s \in Secrets \cup {Absent} : SteadyFor(s) => SteadyFor(s)'
    BY <1>1, <1>5, BootstrapSteady
  <2> QED BY <1>1, <1>2, <1>3, <2>1, <2>2, GoesOn
<1> QED BY <1>4, <1>5 DEF StatementFails

\* A worker between two requests serves no login.
LEMMA NextOnCourse ==
  ASSUME OInv, NEW w \in Workers, NextRequest(w)
  PROVE  OInv'
<1>1. /\ login \in [Workers -> Login] /\ UNCHANGED accounts
      /\ login' = [login EXCEPT ![w] = Idle] /\ IInv'
  BY NextRequestStep DEF OInv, IInv, TypeOK, NextRequest
<1>2. /\ login'[w] = Idle /\ Idle.at = "idle"
      /\ \A v \in Workers \ {w} : login'[v] = login[v]
  BY <1>1 DEF Idle
<1>3. \A x \in Typed, s \in Secrets \cup {Absent} : ~Serving(w, x, s)'
  BY <1>2 DEF Serving, At
<1>4. /\ Table' /\ \A s \in Secrets \cup {Absent} : SteadyFor(s) => SteadyFor(s)'
  BY <1>1, SameAccounts DEF OInv
<1> QED BY <1>1, <1>2, <1>3, <1>4, CourseStep

-----------------------------------------------------------------------------
(* The accounts move under the logins.                                     *)

\* Whose account stops being approved, or only now begins, is no steady login.
LEMMA AccountsOnCourse ==
  ASSUME OInv, NEW i \in Ids, Enrol(i) \/ \E w \in Workers : Judge(w, i)
  PROVE  OInv'
<1>1. IInv' /\ TypeOK /\ accounts \in [Ids -> AccountRow \cup {Absent}]
  BY AccountStep DEF OInv, IInv, TypeOK, AccountTable
<1>2. Kept /\ Table'
  BY <1>1, DirectoryStep DEF Enrol, Judge, OInv
<1>3. PICK n, d : /\ \/ n # d /\ UNCHANGED login
                     \/ n = d /\ NoLongerSteady(n)
                  /\ \A s : SteadyFor(s) /\ (n = d => s # n) => SteadyFor(s)'
  <2>1. CASE Enrol(i)
    <3>1. PICK m \in Names, e \in Emails :
            /\ accounts[i] = Absent
            /\ accounts' = [accounts EXCEPT ![i] =
                              [name |-> m, email |-> e, role |-> "platform-operator",
                               status |-> Start]]
      BY <2>1 DEF Enrol, Directory!Enrol
    <3>2. PICK row : row = [name |-> m, email |-> e, role |-> "platform-operator",
                            status |-> Start]
      OBVIOUS
    <3>3. row \in AccountRow /\ row.name = m
      BY <3>2 DEF AccountRow, Roles, Statuses, Start
    <3>4. /\ accounts'[i] = row
          /\ \A j \in Ids : j # i => accounts'[j] = accounts[j]
      BY <1>1, <3>1, <3>2
    <3>5. NoLongerSteady(m)
      BY <2>1, <3>3, <3>4 DEF Enrol
    <3>6. ASSUME NEW s, SteadyFor(s), s # m PROVE SteadyFor(s)'
      <4>1. Owner(s)' = Owner(s) /\ i \notin Owner(s)
        BY <3>1, <3>3, <3>4, <3>6 DEF Owner
      <4>2. \A j \in Owner(s) : Approved(j)'
        BY <3>4, <3>6, <4>1 DEF SteadyFor, Approved, Owner
      <4> QED BY <3>6, <4>1, <4>2 DEF SteadyFor
    <3> QED BY <3>5, <3>6
  <2>2. CASE \E w \in Workers : Judge(w, i)
    <3>1. PICK d \in Decisions :
            accounts[i] # Absent /\ accounts' = [accounts EXCEPT ![i].status = d]
      BY <2>2 DEF Judge, Directory!Judge, Directory!Decisions, Decisions
    <3>2. PICK row : row = [accounts[i] EXCEPT !.status = d]
      OBVIOUS
    <3>3. accounts[i] \in AccountRow /\ accounts' = [accounts EXCEPT ![i] = row]
      BY <1>1, <3>1, <3>2
    <3>4. row.name = accounts[i].name /\ row.status = d /\ row \in AccountRow
      BY <3>2, <3>3 DEF AccountRow, Statuses, Decisions
    <3>5. accounts'[i] = row /\ \A j \in Ids : j # i => accounts'[j] = accounts[j]
      BY <1>1, <3>3
    <3>6. row # Absent
      BY <3>4, AbsentIsNoRow
    <3>7. \A s : Owner(s)' = Owner(s)
      BY <3>1, <3>4, <3>5, <3>6 DEF Owner
    <3>8. CASE d = "approved"
      <4>1. UNCHANGED login
        BY <2>2, <3>4, <3>5, <3>8 DEF Judge
      <4>2. ASSUME NEW s, SteadyFor(s) PROVE SteadyFor(s)'
        <5>1. ASSUME NEW j \in Ids, Approved(j) PROVE Approved(j)'
          BY <3>4, <3>5, <3>8, <5>1 DEF Approved
        <5>2. Owner(s)' = Owner(s) /\ Owner(s) \subseteq Ids
          BY <3>7 DEF Owner
        <5> QED BY <4>2, <5>1, <5>2 DEF SteadyFor
      <4>3. PICK n, m : n # m
        <5>1. TRUE # FALSE
          OBVIOUS
        <5> QED BY <5>1
      <4> QED BY <4>1, <4>2, <4>3
    <3>9. CASE d # "approved"
      <4>1. NoLongerSteady(accounts[i].name)
        BY <2>2, <3>4, <3>5, <3>9 DEF Judge
      <4>2. ASSUME NEW s, SteadyFor(s), s # accounts[i].name PROVE SteadyFor(s)'
        <5>1. i \notin Owner(s)
          BY <4>2 DEF Owner
        <5>2. \A j \in Owner(s) : Approved(j)'
          BY <3>5, <4>2, <5>1 DEF SteadyFor, Approved, Owner
        <5> QED BY <3>7, <4>2, <5>2 DEF SteadyFor
      <4> QED BY <4>1, <4>2
    <3> QED BY <3>8, <3>9
  <2> QED BY <2>1, <2>2
<1>4. ASSUME NEW w \in Workers, NEW x \in Typed, NEW s \in Secrets \cup {Absent},
             Serving(w, x, s)'
      PROVE  OnCourse(w, x, s)'
  <2>1. login'[w] = login[w] /\ (n = d => s # n)
    <3>1. CASE n # d /\ UNCHANGED login
      BY <3>1
    <3>2. CASE n = d /\ NoLongerSteady(n)
      <4>1. login'[w] = IF ~At(w, "idle") /\ login[w].secret = n
                        THEN [login[w] EXCEPT !.steady = FALSE] ELSE login[w]
        BY <3>2 DEF NoLongerSteady
      <4>2. ASSUME ~At(w, "idle"), login[w].secret = n PROVE FALSE
        <5>1. login[w] \in Login /\ login'[w] = [login[w] EXCEPT !.steady = FALSE]
          BY <1>1, <4>1, <4>2 DEF TypeOK
        <5>2. login'[w].steady = FALSE
          <6>1. "steady" \in DOMAIN login[w]
            BY <4>2, <5>1 DEF Login, At
          <6> QED BY <5>1, <6>1
        <5> QED BY <1>4, <5>2 DEF Serving
      <4>3. login'[w] = login[w]
        BY <4>1, <4>2
      <4> QED BY <1>4, <4>2, <4>3 DEF Serving, At
    <3> QED BY <1>3, <3>1, <3>2
  <2>2. OnCourse(w, x, s)
    BY <1>4, <2>1 DEF OInv, LoginsOnCourse, Serving, At
  <2>3. SteadyFor(s)'
    BY <1>3, <2>1, <2>2 DEF OnCourse
  <2>4. At(w, "loadAccount")' => AdminThere'
    BY <1>2, <2>1, <2>2, Persists DEF OnCourse, AdminThere, At
  <2>5. TurnedAway(w)' => Hopeless(x, s)'
    BY <1>2, <2>1, <2>2, HopelessForGood DEF OnCourse, TurnedAway, At
  <2> QED BY <2>3, <2>4, <2>5 DEF OnCourse
<1> QED BY <1>1, <1>2, <1>4 DEF OInv, LoginsOnCourse

\* Lookups and the clock move neither accounts nor logins.
LEMMA AsideOnCourse ==
  ASSUME OInv, IInv', UNCHANGED <<accounts, login>>
  PROVE  OInv'
<1>1. Table' /\ (AdminThere => AdminThere')
      /\ \A s \in Secrets \cup {Absent} : SteadyFor(s) => SteadyFor(s)'
  BY SameAccounts DEF OInv
<1>2. \A x, s : Hopeless(x, s) => Hopeless(x, s)'
  BY HopelessForGood
<1>3. LoginsOnCourse'
  BY <1>1, <1>2 DEF OInv, LoginsOnCourse, Serving, OnCourse, TurnedAway, At
<1> QED BY <1>1, <1>3 DEF OInv

\* Every step keeps the invariant.
LEMMA OInvStep == OInv /\ [Next]_vars => OInv'
<1> SUFFICES ASSUME OInv, [Next]_vars PROVE OInv'
  OBVIOUS
<1>1. ASSUME NEW w \in Workers, LoginStep(w) PROVE OInv'
  BY <1>1, FindsAdminOnCourse, InsertsAdminOnCourse, LoadsOnCourse, AsksLdapOnCourse,
     OpensOnCourse DEF LoginStep
<1>2. IInv'
  BY InvStep DEF OInv
<1>3. ASSUME NEW w \in Workers, Visit(w) PROVE OInv'
  BY <1>2, <1>3, AsideOnCourse DEF Visit
<1>4. CASE Tick
  BY <1>2, <1>4, AsideOnCourse DEF Tick
<1>5. CASE UNCHANGED vars
  BY <1>2, <1>5, AsideOnCourse DEF vars
<1> QED BY <1>1, <1>3, <1>4, <1>5, StartsOnCourse, FailsOnCourse, NextOnCourse,
           AccountsOnCourse DEF Next

\* No accounts and no logins.
LEMMA OInvInit == Init => OInv
<1> SUFFICES ASSUME Init PROVE OInv
  OBVIOUS
<1>1. \A i \in Ids : accounts[i] = Absent
  BY DEF Init, EmptyTable
<1>2. Table
  BY <1>1 DEF Table
<1>3. \A w \in Workers : At(w, "idle")
  BY DEF Init, At, Idle
<1>4. LoginsOnCourse
  BY <1>3 DEF LoginsOnCourse, Serving
<1> QED BY <1>2, <1>4, InvInit DEF OInv

\* Whoever gives the name and the password of an account that stays approved
\* gets in, however many first logins race to insert the administrator and
\* whoever signs up or is reviewed meanwhile.
THEOREM OwnersGetIn == Spec => []OwnerGetsIn
<1>1. OInv => OwnerGetsIn
  <2> SUFFICES ASSUME OInv, NEW w \in Workers, At(w, "answered"),
                      login[w].steady, ~login[w].failed,
                      Owner(login[w].secret) # {},
                      Matching(login[w].name) = Owner(login[w].secret),
                      Unambiguous, ~AdminEmailTaken, login[w].code # 200
               PROVE  FALSE
    BY DEF OwnerGetsIn
  <2>1. PICK x \in Typed, s \in Secrets \cup {Absent} : x = login[w].name /\ s = login[w].secret
    BY LoginKind DEF OInv, IInv, At
  <2>2. Hopeless(x, s)
    <3>1. Serving(w, x, s) /\ TurnedAway(w)
      BY <2>1 DEF Serving, TurnedAway, At
    <3> QED BY <3>1 DEF OInv, LoginsOnCourse, OnCourse
  <2>3. Matching(x) = Owner(s) /\ Owner(s) # {}
    BY <2>1
  <2>4. ~Misfit(x, s)
    BY <2>3 DEF Misfit
  <2>5. s = AdminName /\ Misfit(AdminName, AdminName)
    BY <2>2, <2>4 DEF Hopeless
  <2>6. PICK i \in Ids : accounts[i] # Absent
                         /\ (i \in Matching(AdminName) <=> i \notin Owner(AdminName))
    BY <2>5 DEF Misfit
  <2>7. \A j \in Owner(AdminName) : j \in Matching(AdminName)
    BY DEF Owner, Matching
  <2>8. i \in Matching(AdminName) /\ i \notin Owner(AdminName)
    BY <2>6, <2>7
  <2>9. PICK j \in Owner(AdminName) : TRUE
    BY <2>3, <2>5
  <2>10. AdminName \in Typed
    BY AdminIsNameable DEF Typed
  <2>11. i = j
    BY <2>7, <2>8, <2>9, <2>10 DEF Unambiguous
  <2> QED BY <2>8, <2>9, <2>11
<1> QED BY <1>1, OInvInit, OInvStep, PTL DEF Spec

=============================================================================
