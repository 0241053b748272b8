---------------------------- MODULE SessionStore ----------------------------
(***************************************************************************)
(* The gateway's sessions (authSessions in gatewayapi/api.go): a map from  *)
(* bearer token to a snapshot of the user and an expiry, behind a          *)
(* read-write lock, and the requests that look a token up.  The lock is    *)
(* held for one map operation at a time, so a lookup is three steps:       *)
(* read under the read lock, compare with the clock holding no lock,       *)
(* delete under the write lock.  Other requests run between them.          *)
(* No sweeper runs: an expired session nobody presents stays in the map.   *)
(***************************************************************************)
EXTENDS Naturals

CONSTANTS
  Workers,    \* goroutines that may be serving a request at one time
  Tokens,     \* what generateToken returns, never one twice
  Users,      \* the user snapshots a login may store
  TTL,        \* authSessionTTL
  MaxTime,    \* bound: the clock stops here
  NoSession   \* no entry under this token

Session == [user : Users, expires : Nat]

VARIABLES
  store,    \* authSessions.store
  visit,    \* the authenticated request each worker is serving
  now,      \* time.Now()
  issued    \* tokens handed out (auxiliary: makes them unique)

sessionVars == <<store, visit, now, issued>>

IdleVisit    == [at : {"idle"}]
HoldingVisit == [at : {"check", "serving"}, token : Tokens, session : Session,
                 came : Nat]   \* when the request came in; properties only
EndingVisit  == [at : {"purge", "loggedOut"}, token : Tokens]
RefusedVisit == [at : {"refused"}, token : Tokens \cup {NoSession}]
Visit        == IdleVisit \cup HoldingVisit \cup EndingVisit \cup RefusedVisit

TypeOK ==
  /\ store \in [Tokens -> Session \cup {NoSession}]
  /\ visit \in [Workers -> Visit]
  /\ now \in 0..MaxTime
  /\ issued \in SUBSET Tokens

Idle == [at |-> "idle"]

Init ==
  /\ store = [t \in Tokens |-> NoSession]
  /\ visit = [w \in Workers |-> Idle]
  /\ now = 0
  /\ issued = {}

Visiting(w, step) == visit[w].at = step

Refuse(w, t) == visit' = [visit EXCEPT ![w] = [at |-> "refused", token |-> t]]

\* Slip: a session is good for one instant too long.
SlipLateExpiry(s) == now > s.expires + 1

\* time.Now().After(ExpiresAt)
Expired(s) == now > s.expires

\* Removing a token that is not there is no error.
Delete(t) == store' = [store EXCEPT ![t] = NoSession]

-----------------------------------------------------------------------------

\* The last step of a login that authenticated u.
Open(u) ==
  /\ \E t \in Tokens \ issued :
       /\ store' = [store EXCEPT ![t] = [user |-> u, expires |-> now + TTL]]
       /\ issued' = issued \cup {t}
  /\ UNCHANGED <<visit, now>>

\* requireAuth: no bearer token in the request.
PresentNothing(w) ==
  /\ Visiting(w, "idle")
  /\ Refuse(w, NoSession)
  /\ UNCHANGED <<store, now, issued>>

\* lookupSession up to RUnlock.  Clients present tokens they were given.
Present(w) ==
  /\ Visiting(w, "idle")
  /\ \E t \in issued :
       IF store[t] = NoSession
       THEN Refuse(w, t)
       ELSE visit' = [visit EXCEPT ![w] =
                        [at |-> "check", token |-> t, session |-> store[t],
                         came |-> now]]
  /\ UNCHANGED <<store, now, issued>>

\* The lookup lets go of the copy it took.
LetGo(w) == [at |-> "purge", token |-> visit[w].token]

\* lookupSession: the comparison, on the copy it took.
CheckExpiry(w) ==
  /\ Visiting(w, "check")
  /\ visit' = [visit EXCEPT ![w] =
                 IF Expired(visit[w].session) THEN LetGo(w)
                 ELSE [visit[w] EXCEPT !.at = "serving"]]
  /\ UNCHANGED <<store, now, issued>>

\* lookupSession: the deletion of an expired entry.
Purge(w) ==
  /\ Visiting(w, "purge")
  /\ Delete(visit[w].token)
  /\ Refuse(w, visit[w].token)
  /\ UNCHANGED <<now, issued>>

\* handleLogout asks for no session: it deletes whatever token it is given.
Logout(w) ==
  /\ Visiting(w, "idle")
  /\ \E t \in issued :
       /\ Delete(t)
       /\ visit' = [visit EXCEPT ![w] = [at |-> "loggedOut", token |-> t]]
  /\ UNCHANGED <<now, issued>>

\* Slip: the handler stores the session it was given, renewed.
SlipRenew(w) ==
  /\ visit[w].at \in {"serving", "refused", "loggedOut"}
  /\ visit' = [visit EXCEPT ![w] = Idle]
  /\ store' = IF Visiting(w, "serving")
              THEN [store EXCEPT ![visit[w].token] = visit[w].session] ELSE store
  /\ UNCHANGED <<now, issued>>

\* The handler behind requireAuth has answered, with the session it was given.
Finish(w) ==
  /\ visit[w].at \in {"serving", "refused", "loggedOut"}
  /\ visit' = [visit EXCEPT ![w] = Idle]
  /\ UNCHANGED <<store, now, issued>>

Tick ==
  /\ now < MaxTime
  /\ now' = now + 1
  /\ UNCHANGED <<store, visit, issued>>

VisitStep(w) ==
  \/ PresentNothing(w)
  \/ Present(w)
  \/ CheckExpiry(w)
  \/ Purge(w)
  \/ Logout(w)
  \/ Finish(w)

Next ==
  \/ \E u \in Users : Open(u)
  \/ \E w \in Workers : VisitStep(w)
  \/ Tick

Spec == Init /\ [][Next]_sessionVars

-----------------------------------------------------------------------------
(* Properties *)

\* A session ends once: by its logout, or by a lookup after it expired, and
\* neither a lookup under way nor a later one brings it back.
SessionsEndOnce ==
  [][\A t \in issued :
       \/ store'[t] = store[t]
       \/ /\ store'[t] = NoSession
          /\ \/ now > store[t].expires
             \/ \E w \in Workers : Visiting(w, "idle")
                                   /\ visit'[w] = [at |-> "loggedOut", token |-> t]]_sessionVars

\* A request is served under a session that had not expired when the request
\* came in, and under no other user's: what a lookup returns is what the login
\* stored under that token, however long ago the entry was deleted.
ServedWhileAlive ==
  \A w \in Workers : Visiting(w, "serving") =>
    /\ visit[w].came <= visit[w].session.expires
    /\ visit[w].token \in issued
    /\ store[visit[w].token] \in {visit[w].session, NoSession}

============================================================================
