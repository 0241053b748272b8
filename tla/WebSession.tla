----------------------------- MODULE WebSession -----------------------------
(***************************************************************************)
(* The sign-in state of the web application (gitorcweb/src/App.tsx,        *)
(* api/client.ts).  Each tab keeps the token, the session and the          *)
(* dashboard in React state; all tabs of a browser share the token in      *)
(* localStorage, which a tab reads when it opens.  Two effects, one on the *)
(* token and one on the session, start requests and abort the requests of  *)
(* the run before; they run some time after the state was set, and answers *)
(* may arrive between.  A request is tried on one base URL after the other *)
(* until one answers with a good status; sign-in and sign-out are never    *)
(* aborted.                                                                *)
(* The gateway is here the set of sessions it would accept (SessionStore). *)
(***************************************************************************)
EXTENDS Naturals

CONSTANTS
    Tabs,
    Tokens,     \* session tokens; the gateway gives none twice
    Bases,      \* candidate base URLs of the gateway, 1 or 3 in the code
    Clicks,     \* bound: sign-outs a tab may have under way
    None        \* null

ASSUME WebSessionAssumption ==
    /\ Bases \in Nat \ {0}
    /\ None \notin Tokens /\ "mount" \notin Tokens \cup {None}

VARIABLES
    alive,      \* sessions the gateway accepts
    issued,     \* tokens it has given
    stored,     \* localStorage
    tab,        \* each tab's state
    signedOut   \* tokens some tab has signed out (auxiliary)

vars == <<alive, issued, stored, tab, signedOut>>

Requests == {"none", "asked", "good"}

Closed == [at |-> "closed"]

Tab ==
    [at : {"closed"}]
      \cup
    [at : {"open"},
     token : Tokens \cup {None}, session : Tokens \cup {None},
     dash : Tokens \cup {None},           \* the token the dashboard was loaded with
     loading : BOOLEAN, checking : BOOLEAN,
     tokenRan : Tokens \cup {None, "mount"},   \* authToken when its effect ran last
     renewed : BOOLEAN,                   \* authSession changed since its effect ran
     check : Requests,                    \* the session check of that token
     load : Requests, loadToken : Tokens \cup {None},
     login : 0..Bases, got : Tokens \cup {None},   \* bases left, token on its way
     logout : [Clicks -> Tokens \cup {None}],
     restored : BOOLEAN]   \* opened with a token, no session yet (auxiliary)

TypeOK ==
    /\ alive \subseteq issued /\ issued \subseteq Tokens
    /\ stored \in Tokens \cup {None}
    /\ tab \in [Tabs -> Tab]
    /\ signedOut \subseteq Tokens

Init ==
    /\ alive = {} /\ issued = {}
    /\ stored = None
    /\ tab = [t \in Tabs |-> Closed]
    /\ signedOut = {}

Open(t) == tab[t].at = "open"

\* The effects have run on the state there is.
Settled(t) == tab[t].tokenRan = tab[t].token /\ ~tab[t].renewed

\* Which page App renders.
Restoring(t) == Open(t) /\ tab[t].token # None /\ tab[t].checking /\ tab[t].session = None
Workspace(t) == Open(t) /\ tab[t].token # None /\ tab[t].session # None
SignInForm(t) == Open(t) /\ ~Restoring(t) /\ ~Workspace(t)

Become(t, state) == tab' = [tab EXCEPT ![t] = state]

---------------------------------------------------------------------------
(* What handlers and effects do to the state.                              *)

\* setAuthToken, setAuthSession and setDashboard of nothing.
Cleared(s) ==
    [s EXCEPT !.token = None, !.session = None, !.dash = None,
              !.renewed = @ \/ s.session # None]

\* The effect on authToken, with what the abort of its last request does: the
\* rejection is handled like any failure, and at once.
RunTokenEffect(s) ==
    IF s.tokenRan = s.token THEN s ELSE
    LET next == IF s.token = None
                THEN [Cleared(s) EXCEPT !.checking = FALSE, !.check = "none"]
                ELSE [s EXCEPT !.checking = TRUE, !.check = "asked"]
    IN  [IF s.check = "none" THEN next ELSE [Cleared(next) EXCEPT !.checking = FALSE]
            EXCEPT !.tokenRan = s.token]

\* Slip: the cleanup does not abort the requests of the run before.
SlipRunSessionEffect(s) ==
    IF ~s.renewed THEN s
    ELSE IF s.session = None THEN [s EXCEPT !.renewed = FALSE]
    ELSE [s EXCEPT !.renewed = FALSE, !.loadToken = s.session,
                   !.load = "asked", !.loading = TRUE]

\* The effect on authSession; the request it aborts ends after it ran.
RunSessionEffect(s) ==
    IF ~s.renewed THEN s
    ELSE [s EXCEPT !.renewed = FALSE,
                   !.loadToken = s.session,
                   !.load = IF s.session = None THEN "none" ELSE "asked",
                   !.loading = s.load = "none" /\ (@ \/ s.session # None)]

\* Both effects see the state that was rendered: what the first one sets comes
\* after the second one has run.
Run(s) == RunTokenEffect(RunSessionEffect(s))

AbortsCheck(s) == s.tokenRan # s.token /\ s.check # "none"

\* React renders what the effects have set and runs them again, before any
\* request they have started is answered.
Effects(t) ==
    /\ Open(t) /\ ~Settled(t)
    /\ LET once == Run(tab[t]) IN
       /\ Become(t, Run(once))
       /\ stored' = IF AbortsCheck(tab[t]) \/ AbortsCheck(once) THEN None ELSE stored
    /\ UNCHANGED <<alive, issued, signedOut>>

---------------------------------------------------------------------------
(* Opening, closing, signing in and out.                                   *)

\* The page is loaded: in a new tab, or again.
OpenTab(t) ==
    /\ ~Open(t)
    /\ Become(t,
         [at |-> "open", token |-> stored, session |-> None, dash |-> None,
          loading |-> stored # None, checking |-> stored # None,
          tokenRan |-> "mount", renewed |-> FALSE,
          check |-> "none", load |-> "none", loadToken |-> None,
          login |-> 0, got |-> None, logout |-> [k \in Clicks |-> None],
          restored |-> stored # None])
    /\ UNCHANGED <<alive, issued, stored, signedOut>>

\* The tab is closed or reloaded, whatever it was waiting for.
CloseTab(t) ==
    /\ Open(t)
    /\ Become(t, Closed)
    /\ UNCHANGED <<alive, issued, stored, signedOut>>

\* handleLogin; the button is disabled while something is loading.
SubmitLogin(t) ==
    /\ SignInForm(t) /\ Settled(t)
    /\ ~tab[t].loading /\ ~tab[t].checking
    /\ Become(t, [tab[t] EXCEPT !.loading = TRUE, !.login = Bases])
    /\ UNCHANGED <<alive, issued, stored, signedOut>>

\* Slip: a sign-in that failed leaves the form loading.
SlipLoginFailed(s) == [s EXCEPT !.login = 0]

LoginFailed(s) == [s EXCEPT !.login = 0, !.loading = FALSE]

\* requestJSON goes to the next base after an answer whose status is not good,
\* and after none.
TryNextBase(s) == IF s.login = 1 THEN LoginFailed(s) ELSE [s EXCEPT !.login = @ - 1]

\* An answer of good status whose body does not parse rejects outside the loop,
\* which returns response.json() without awaiting it: no other base is tried.
AttemptFails(t) == \E s \in {TryNextBase(tab[t]), LoginFailed(tab[t])} : Become(t, s)

\* One POST of a sign-in, refused, or answered by something else than the
\* gateway, or never there; or the gateway made a session, and its answer is on
\* its way, or lost or unreadable.
LoginAttempt(t) ==
    /\ Open(t) /\ tab[t].login > 0 /\ tab[t].got = None
    /\ \/ /\ AttemptFails(t)
          /\ UNCHANGED <<alive, issued>>
       \/ \E new \in Tokens \ issued :
             /\ issued' = issued \cup {new}
             /\ alive' = alive \cup {new}
             /\ \/ Become(t, [tab[t] EXCEPT !.got = new])
                \/ AttemptFails(t)
    /\ UNCHANGED <<stored, signedOut>>

\* The rest of handleLogin.
LoginReturns(t) ==
    /\ Open(t) /\ tab[t].got # None
    /\ stored' = tab[t].got
    /\ Become(t, [tab[t] EXCEPT !.token = tab[t].got, !.session = tab[t].got,
                                !.renewed = TRUE, !.loading = FALSE,
                                !.login = 0, !.got = None, !.restored = FALSE])
    /\ UNCHANGED <<alive, issued, signedOut>>

\* handleLogout: the button stays, and may be clicked again.
ClickLogout(t) ==
    /\ Workspace(t) /\ Settled(t)
    /\ \E k \in Clicks :
          /\ tab[t].logout[k] = None
          /\ Become(t, [tab[t] EXCEPT !.logout[k] = tab[t].session])
    /\ UNCHANGED <<alive, issued, stored, signedOut>>

\* The gateway gets one POST of a sign-out.
LogoutServed(t, k) ==
    /\ Open(t) /\ tab[t].logout[k] \in alive
    /\ alive' = alive \ {tab[t].logout[k]}
    /\ UNCHANGED <<issued, stored, tab, signedOut>>

\* Slip: when the request failed, the token is kept for another try.
SlipAfterLogout(t, k) ==
    /\ stored' = IF tab[t].logout[k] \in alive THEN stored ELSE None
    /\ Become(t, [Cleared(tab[t]) EXCEPT !.logout[k] = None])

\* The rest of handleLogout, whatever became of the request, and whatever the
\* tab holds by now.
AfterLogout(t, k) ==
    /\ stored' = None
    /\ Become(t, [Cleared(tab[t]) EXCEPT !.logout[k] = None])

LogoutReturns(t, k) ==
    /\ Open(t) /\ tab[t].logout[k] # None
    /\ AfterLogout(t, k)
    /\ signedOut' = signedOut \cup {tab[t].logout[k]}
    /\ UNCHANGED <<alive, issued>>

---------------------------------------------------------------------------
(* The requests of the effects.                                            *)

\* The gateway finds the session; or the request is bound to fail.
CheckServed(t) ==
    /\ Open(t) /\ tab[t].check = "asked"
    /\ tab[t].tokenRan \in alive
    /\ Become(t, [tab[t] EXCEPT !.check = "good"])
    /\ UNCHANGED <<alive, issued, stored, signedOut>>

\* fetchSession's then, or its catch, also when no base has answered.
CheckReturns(t) ==
    /\ Open(t)
    /\ \/ /\ tab[t].check = "good"
          /\ Become(t, [tab[t] EXCEPT !.check = "none", !.checking = FALSE,
                                      !.session = tab[t].tokenRan, !.renewed = TRUE,
                                      !.restored = FALSE])
          /\ UNCHANGED stored
       \/ /\ tab[t].check # "none"
          /\ Become(t, [Cleared(tab[t]) EXCEPT !.check = "none", !.checking = FALSE])
          /\ stored' = None
    /\ UNCHANGED <<alive, issued, signedOut>>

\* The gateway and the other services serve the dashboard's six requests.
LoadServed(t) ==
    /\ Open(t) /\ tab[t].load = "asked"
    /\ tab[t].loadToken \in alive
    /\ Become(t, [tab[t] EXCEPT !.load = "good"])
    /\ UNCHANGED <<alive, issued, stored, signedOut>>

\* All of them had good answers, or one had not.
LoadReturns(t) ==
    /\ Open(t) /\ tab[t].load # "none"
    /\ \E dash \in {tab[t].dash} \cup (IF tab[t].load = "good" THEN {tab[t].loadToken} ELSE {}) :
          Become(t, [tab[t] EXCEPT !.load = "none", !.loadToken = None,
                                   !.loading = FALSE, !.dash = dash])
    /\ UNCHANGED <<alive, issued, stored, signedOut>>

\* Twelve hours are over, or the gateway restarts and knows no session.
SessionsEnd ==
    /\ \E token \in alive : alive' \in {{}, alive \ {token}}
    /\ UNCHANGED <<issued, stored, tab, signedOut>>

Next ==
    \/ \E t \in Tabs :
           \/ OpenTab(t) \/ CloseTab(t) \/ Effects(t)
           \/ SubmitLogin(t) \/ LoginAttempt(t) \/ LoginReturns(t)
           \/ ClickLogout(t)
           \/ \E k \in Clicks : LogoutServed(t, k) \/ LogoutReturns(t, k)
           \/ CheckServed(t) \/ CheckReturns(t)
           \/ LoadServed(t) \/ LoadReturns(t)
    \/ SessionsEnd

Spec == Init /\ [][Next]_vars

---------------------------------------------------------------------------
(* Properties                                                              *)

\* A workspace never shows a dashboard that was loaded under another session,
\* however late the answers come and however quickly one user follows another.
DashboardIsOwn ==
    \A t \in Tabs : Workspace(t) => tab[t].dash \in {None, tab[t].session}

\* A token a tab has signed out is not in storage, even when the sign-out
\* never reached the gateway: no reload brings the workspace back.
SignedOutStaysOut == stored \notin signedOut

\* Where the form's button is disabled for ever, because nothing is under way
\* that could enable it, the tab found a token when it opened and lost it
\* before it had a session.
FormStuckForCause ==
    \A t \in Tabs :
        /\ SignInForm(t) /\ Settled(t)
        /\ tab[t].loading \/ tab[t].checking
        /\ tab[t].check = "none" /\ tab[t].load = "none" /\ tab[t].login = 0
        => tab[t].restored

===========================================================================
