--------------------------- MODULE WebSessionProofs ---------------------------
(***************************************************************************)
(* What TLAPS proves of WebSession, for any tabs, tokens, number of base   *)
(* URLs and number of sign-outs under way.                                 *)
(***************************************************************************)
EXTENDS WebSession, TLAPS

OpenTabs ==
    [at : {"open"},
     token : Tokens \cup {None}, session : Tokens \cup {None},
     dash : Tokens \cup {None},
     loading : BOOLEAN, checking : BOOLEAN,
     tokenRan : Tokens \cup {None, "mount"},
     renewed : BOOLEAN,
     check : Requests,
     load : Requests, loadToken : Tokens \cup {None},
     login : 0..Bases, got : Tokens \cup {None},
     logout : [Clicks -> Tokens \cup {None}],
     restored : BOOLEAN]

\* A tab's state has a token where it can get to storage, or be signed out.
Holds(s, x) ==
  \/ x = s.token \/ x = s.session \/ x = s.tokenRan
  \/ \E k \in Clicks : x = s.logout[k]

\* A session check is about a token.
CheckHasToken ==
  \A t \in Tabs : Open(t) /\ tab[t].check # "none" => tab[t].tokenRan \in Tokens

\* No token is in use that the gateway has not given.
Known ==
  /\ signedOut \subseteq issued
  /\ stored \in issued \cup {None}
  /\ \A t \in Tabs, x \in Tokens : Open(t) /\ Holds(tab[t], x) => x \in issued

\* A token on its way to a tab is nowhere else.
Fresh ==
  \A t \in Tabs : Open(t) /\ tab[t].got # None =>
    /\ tab[t].got \in issued
    /\ tab[t].got \notin signedOut
    /\ tab[t].got # stored
    /\ \A u \in Tabs : Open(u) => ~Holds(tab[u], tab[t].got)
    /\ \A u \in Tabs \ {t} : Open(u) => tab[u].got # tab[t].got

IInv ==
  /\ TypeOK
  /\ CheckHasToken
  /\ Known
  /\ Fresh
  /\ SignedOutStaysOut

-----------------------------------------------------------------------------
(* What handlers and effects do to a tab's state.                          *)

\* A state that keeps what may come to storage, or forgets it.
Keeps(s, new) ==
  /\ new \in OpenTabs
  /\ new.token \in {s.token, s.session, None}
  /\ new.session \in {s.session, s.token, None}
  /\ new.got = s.got
  /\ new.logout = s.logout

\* Clearing a tab takes its token and session and leaves its requests.
LEMMA ClearedKeeps ==
  ASSUME NEW s \in OpenTabs
  PROVE  /\ Cleared(s) \in OpenTabs
         /\ Cleared(s).token = None /\ Cleared(s).session = None
         /\ Cleared(s).got = s.got /\ Cleared(s).logout = s.logout
         /\ Cleared(s).tokenRan = s.tokenRan /\ Cleared(s).check = s.check
<1>1. (s.renewed \/ s.session # None) \in BOOLEAN
  OBVIOUS
<1> QED BY <1>1 DEF Cleared, OpenTabs

\* The effect on the token brings no new token.
LEMMA TokenEffectKeeps ==
  ASSUME NEW s \in OpenTabs
  PROVE  LET new == RunTokenEffect(s) IN
         /\ new \in OpenTabs
         /\ new.token \in {s.token, None} /\ new.session \in {s.session, None}
         /\ new.got = s.got /\ new.logout = s.logout
         /\ new.tokenRan = s.token
         /\ new = s \/ (new.check # "none" => new.tokenRan \in Tokens)
<1> DEFINE next == IF s.token = None
                   THEN [Cleared(s) EXCEPT !.checking = FALSE, !.check = "none"]
                   ELSE [s EXCEPT !.checking = TRUE, !.check = "asked"]
           last == IF s.check = "none" THEN next
                   ELSE [Cleared(next) EXCEPT !.checking = FALSE]
<1>1. CASE s.tokenRan = s.token
  BY <1>1 DEF RunTokenEffect
<1>2. CASE s.tokenRan # s.token
  <2>1. /\ next \in OpenTabs
        /\ next.token \in {s.token, None} /\ next.session \in {s.session, None}
        /\ next.got = s.got /\ next.logout = s.logout
        /\ s.token = None => next.check = "none"
    <3>1. CASE s.token = None
      <4> DEFINE c == Cleared(s)
      <4>1. /\ c \in OpenTabs /\ c.token = None /\ c.session = None
            /\ c.got = s.got /\ c.logout = s.logout
        BY ClearedKeeps
      <4>2. next = [c EXCEPT !.checking = FALSE, !.check = "none"]
        BY <3>1
      <4> HIDE DEF c, next
      <4>3. next \in OpenTabs
        BY <4>1, <4>2 DEF OpenTabs, Requests
      <4> QED BY <4>1, <4>2, <4>3 DEF OpenTabs
    <3>2. CASE s.token # None
      BY <3>2 DEF OpenTabs, Requests
    <3> QED BY <3>1, <3>2
  <2> HIDE DEF next
  <2>2. /\ last \in OpenTabs
        /\ last.token \in {s.token, None} /\ last.session \in {s.session, None}
        /\ last.got = s.got /\ last.logout = s.logout
        /\ s.token = None => last.check = "none"
    <3>1. CASE s.check = "none"
      BY <2>1, <3>1
    <3>2. CASE s.check # "none"
      <4> DEFINE c == Cleared(next)
      <4>1. last = [c EXCEPT !.checking = FALSE]
        BY <3>2
      <4>2. /\ c \in OpenTabs /\ c.token = None /\ c.session = None
            /\ c.got = s.got /\ c.logout = s.logout /\ c.check = next.check
        BY <2>1, ClearedKeeps
      <4> HIDE DEF c, last
      <4>3. last \in OpenTabs
        BY <4>1, <4>2 DEF OpenTabs
      <4> QED BY <2>1, <4>1, <4>2, <4>3 DEF OpenTabs
    <3> QED BY <3>1, <3>2
  <2>3. RunTokenEffect(s) = [last EXCEPT !.tokenRan = s.token]
    BY <1>2 DEF RunTokenEffect, next
  <2>4. s.token \in Tokens \cup {None}
    BY DEF OpenTabs
  <2> HIDE DEF last
  <2> QED BY <2>2, <2>3, <2>4 DEF OpenTabs
<1> QED BY <1>1, <1>2

\* The effect on the session brings no new token.
LEMMA SessionEffectKeeps ==
  ASSUME NEW s \in OpenTabs
  PROVE  LET new == RunSessionEffect(s) IN
         /\ new \in OpenTabs
         /\ new.token = s.token /\ new.session = s.session
         /\ new.got = s.got /\ new.logout = s.logout
         /\ new.tokenRan = s.tokenRan /\ new.check = s.check
<1>1. CASE ~s.renewed
  BY <1>1 DEF RunSessionEffect
<1>2. CASE s.renewed
  <2> DEFINE load == IF s.session = None THEN "none" ELSE "asked"
             loading == s.load = "none" /\ (s.loading \/ s.session # None)
  <2>1. load \in Requests /\ loading \in BOOLEAN
    BY DEF Requests
  <2>2. RunSessionEffect(s) = [s EXCEPT !.renewed = FALSE, !.loadToken = s.session,
                                        !.load = load, !.loading = loading]
    BY <1>2 DEF RunSessionEffect
  <2> HIDE DEF load, loading
  <2> QED BY <2>1, <2>2 DEF OpenTabs
<1> QED BY <1>1, <1>2

\* Both effects together bring no new token.
LEMMA RunKeeps ==
  ASSUME NEW s \in OpenTabs
  PROVE  LET new == Run(s) IN
         /\ new \in OpenTabs
         /\ new.token \in {s.token, None} /\ new.session \in {s.session, None}
         /\ new.got = s.got /\ new.logout = s.logout
         /\ new.tokenRan = s.token
         /\ (s.check # "none" => s.tokenRan \in Tokens) =>
                (new.check # "none" => new.tokenRan \in Tokens)
<1> DEFINE mid == RunSessionEffect(s)
<1>1. /\ mid \in OpenTabs
      /\ mid.token = s.token /\ mid.session = s.session
      /\ mid.got = s.got /\ mid.logout = s.logout
      /\ mid.tokenRan = s.tokenRan /\ mid.check = s.check
  BY SessionEffectKeeps
<1> HIDE DEF mid
<1>2. Run(s) = RunTokenEffect(mid)
  BY DEF Run, mid
<1> QED BY <1>1, <1>2, TokenEffectKeeps

-----------------------------------------------------------------------------
(* The steps.                                                              *)

\* An open tab has every field of an open tab.
LEMMA OpenKind ==
  ASSUME TypeOK, NEW t \in Tabs
  PROVE  /\ Open(t) => tab[t] \in OpenTabs
         /\ tab \in [Tabs -> Tab] /\ OpenTabs \subseteq Tab /\ Closed \in Tab
BY DEF TypeOK, Open, Tab, OpenTabs, Closed

\* A tab that comes to hold no new token.
LEMMA KeepStep ==
  ASSUME IInv, NEW t \in Tabs, Open(t), NEW new \in OpenTabs, Become(t, new),
         \A x \in Tokens : Holds(new, x) => Holds(tab[t], x),
         new.got \in {tab[t].got, None},
         new.check # "none" => new.tokenRan \in Tokens,
         issued \subseteq issued', issued' \subseteq Tokens, alive' \subseteq issued',
         stored' \in {stored, None}, signedOut' = signedOut
  PROVE  IInv'
<1> USE WebSessionAssumption
<1>1. /\ tab \in [Tabs -> Tab] /\ new \in Tab /\ tab' = [tab EXCEPT ![t] = new]
      /\ new.at = "open"
  BY OpenKind DEF IInv, Become, OpenTabs
<1>2. tab'[t] = new /\ \A u \in Tabs \ {t} : tab'[u] = tab[u]
  BY <1>1
<1>3. TypeOK'
  <2> HIDE DEF Tab
  <2> QED BY <1>1 DEF IInv, TypeOK
<1>4. CheckHasToken'
  BY <1>2 DEF IInv, CheckHasToken, Open
<1>5. \A u \in Tabs, x \in Tokens : Open(u)' /\ Holds(tab'[u], x) => Open(u) /\ Holds(tab[u], x)
  BY <1>2 DEF Open
<1>6. Known'
  <2>1. \A u \in Tabs, x \in Tokens : Open(u)' /\ Holds(tab'[u], x) => x \in issued'
    BY <1>5 DEF IInv, Known
  <2> HIDE DEF Holds
  <2> QED BY <2>1 DEF IInv, Known, Holds
<1>7. \A u \in Tabs : Open(u)' => Open(u) /\ tab'[u].got \in {tab[u].got, None}
  BY <1>2 DEF Open
<1>8. \A u \in Tabs : Open(u) => tab[u].got \in Tokens \cup {None}
  BY OpenKind DEF IInv, OpenTabs
<1>9. Fresh'
  <2> SUFFICES ASSUME NEW u \in Tabs, Open(u)', tab'[u].got # None
               PROVE  /\ tab'[u].got \in issued' /\ tab'[u].got \notin signedOut'
                      /\ tab'[u].got # stored'
                      /\ \A v \in Tabs : Open(v)' => ~Holds(tab'[v], tab'[u].got)
                      /\ \A v \in Tabs \ {u} : Open(v)' => tab'[v].got # tab'[u].got
    BY DEF Fresh, Holds
  <2>1. Open(u) /\ tab'[u].got = tab[u].got /\ tab[u].got \in Tokens
    BY <1>7, <1>8
  <2>2. /\ tab[u].got \in issued /\ tab[u].got \notin signedOut /\ tab[u].got # stored
        /\ \A v \in Tabs : Open(v) => ~Holds(tab[v], tab[u].got)
        /\ \A v \in Tabs \ {u} : Open(v) => tab[v].got # tab[u].got
    BY <2>1 DEF IInv, Fresh
  <2> HIDE DEF Holds
  <2> QED BY <1>5, <1>7, <2>1, <2>2
<1>10. SignedOutStaysOut'
  BY DEF IInv, SignedOutStaysOut, Known, TypeOK
<1> QED BY <1>3, <1>4, <1>6, <1>9, <1>10 DEF IInv

\* At first no tab is open and no token is given.
LEMMA InvInit == Init => IInv
BY WebSessionAssumption
   DEF Init, IInv, TypeOK, Tab, Closed, CheckHasToken, Known, Fresh, SignedOutStaysOut, Open

\* The effects of a tab: nothing they set is new.
LEMMA EffectsStep ==
  ASSUME IInv, NEW t \in Tabs, Effects(t)
  PROVE  IInv'
<1> DEFINE once == Run(tab[t])
           new  == Run(once)
<1>1. tab[t] \in OpenTabs /\ (tab[t].check # "none" => tab[t].tokenRan \in Tokens)
  BY OpenKind DEF Effects, IInv, CheckHasToken
<1>2. /\ once \in OpenTabs
      /\ once.token \in {tab[t].token, None} /\ once.session \in {tab[t].session, None}
      /\ once.got = tab[t].got /\ once.logout = tab[t].logout
      /\ once.check # "none" => once.tokenRan \in Tokens
  BY <1>1, RunKeeps
<1> HIDE DEF once
<1>3. /\ new \in OpenTabs
      /\ new.token \in {tab[t].token, None} /\ new.session \in {tab[t].session, None}
      /\ new.got = tab[t].got /\ new.logout = tab[t].logout
      /\ new.tokenRan \in {tab[t].token, None}
      /\ new.check # "none" => new.tokenRan \in Tokens
  BY <1>2, RunKeeps
<1> HIDE DEF new
<1>4. Become(t, new) /\ stored' \in {stored, None} /\ UNCHANGED <<alive, issued, signedOut>>
  BY DEF Effects, new, once
<1>5. \A x \in Tokens : Holds(new, x) => Holds(tab[t], x)
  BY <1>3, WebSessionAssumption DEF Holds
<1> QED BY <1>3, <1>4, <1>5, KeepStep DEF Effects, IInv, TypeOK

\* A handler or an answer that brings no token.
LEMMA HandlerStep ==
  ASSUME IInv, NEW t \in Tabs,
         SubmitLogin(t) \/ ClickLogout(t) \/ CheckServed(t) \/ CheckReturns(t)
         \/ LoadServed(t) \/ LoadReturns(t)
  PROVE  IInv'
<1> USE WebSessionAssumption
<1>1. Open(t) /\ tab[t] \in OpenTabs /\ (tab[t].check # "none" => tab[t].tokenRan \in Tokens)
  BY OpenKind DEF IInv, CheckHasToken, SubmitLogin, SignInForm, ClickLogout, Workspace,
                  CheckServed, CheckReturns, LoadServed, LoadReturns
<1>2. PICK new \in OpenTabs :
        /\ Become(t, new)
        /\ \A x \in Tokens : Holds(new, x) => Holds(tab[t], x)
        /\ new.got = tab[t].got
        /\ new.check # "none" => new.tokenRan \in Tokens
  <2>1. CASE SubmitLogin(t)
    <3> DEFINE new == [tab[t] EXCEPT !.loading = TRUE, !.login = Bases]
    <3>1. new.got = tab[t].got /\ new.check = tab[t].check
          /\ new.tokenRan = tab[t].tokenRan /\ new.token = tab[t].token
          /\ new.session = tab[t].session /\ new.logout = tab[t].logout
      BY <1>1 DEF OpenTabs
    <3>2. Become(t, new)
      BY <2>1 DEF SubmitLogin
    <3>3. new \in OpenTabs
      <4>1. tab[t] \in OpenTabs /\ Bases \in 0..Bases
        BY <1>1
      <4> QED BY <4>1 DEF OpenTabs
    <3> HIDE DEF new
    <3> QED BY <1>1, <3>1, <3>2, <3>3 DEF Holds
  <2>2. CASE ClickLogout(t)
    <3>1. PICK k \in Clicks : Become(t, [tab[t] EXCEPT !.logout[k] = tab[t].session])
      BY <2>2 DEF ClickLogout
    <3> DEFINE log == [tab[t].logout EXCEPT ![k] = tab[t].session]
               new == [tab[t] EXCEPT !.logout = log]
    <3>6. log \in [Clicks -> Tokens \cup {None}]
      BY <1>1 DEF OpenTabs
    <3>7. Become(t, new)
      BY <3>1
    <3> HIDE DEF log
    <3>5. new \in OpenTabs
      BY <1>1, <3>6 DEF OpenTabs
    <3>2. new.got = tab[t].got /\ new.check = tab[t].check
          /\ new.tokenRan = tab[t].tokenRan /\ new.token = tab[t].token
          /\ new.session = tab[t].session
          /\ new.logout = log
      BY <1>1 DEF OpenTabs
    <3>4. tab[t].logout \in [Clicks -> Tokens \cup {None}]
      BY <1>1 DEF OpenTabs
    <3> HIDE DEF new
    <3> QED BY <1>1, <3>2, <3>4, <3>5, <3>7 DEF Holds, log
  <2>3. CASE CheckServed(t)
    <3> DEFINE new == [tab[t] EXCEPT !.check = "good"]
    <3>1. new \in OpenTabs /\ new.got = tab[t].got
          /\ new.tokenRan = tab[t].tokenRan /\ new.token = tab[t].token
          /\ new.session = tab[t].session /\ new.logout = tab[t].logout
      BY <1>1 DEF OpenTabs, Requests
    <3>2. Become(t, new) /\ tab[t].tokenRan \in Tokens
      BY <2>3, <1>1 DEF CheckServed
    <3> HIDE DEF new
    <3> QED BY <1>1, <3>1, <3>2 DEF Holds
  <2>4. CASE /\ tab[t].check = "good"
             /\ Become(t, [tab[t] EXCEPT !.check = "none", !.checking = FALSE,
                                         !.session = tab[t].tokenRan, !.renewed = TRUE,
                                         !.restored = FALSE])
    <3> DEFINE new == [tab[t] EXCEPT !.check = "none", !.checking = FALSE,
                                     !.session = tab[t].tokenRan, !.renewed = TRUE,
                                     !.restored = FALSE]
    <3>1. new \in OpenTabs /\ new.got = tab[t].got /\ new.check = "none"
          /\ new.tokenRan = tab[t].tokenRan /\ new.token = tab[t].token
          /\ new.session = tab[t].tokenRan /\ new.logout = tab[t].logout
      BY <1>1, <2>4 DEF OpenTabs, Requests
    <3>2. Become(t, new)
      BY <2>4
    <3> HIDE DEF new
    <3> QED BY <1>1, <3>1, <3>2 DEF Holds
  <2>5. CASE Become(t, [Cleared(tab[t]) EXCEPT !.check = "none", !.checking = FALSE])
    <3> DEFINE new == [Cleared(tab[t]) EXCEPT !.check = "none", !.checking = FALSE]
    <3>1. new \in OpenTabs /\ new.got = tab[t].got /\ new.check = "none"
          /\ new.tokenRan = tab[t].tokenRan /\ new.token = None
          /\ new.session = None /\ new.logout = tab[t].logout
      <4> DEFINE c == Cleared(tab[t])
      <4>1. /\ c \in OpenTabs /\ c.token = None /\ c.session = None
            /\ c.got = tab[t].got /\ c.logout = tab[t].logout /\ c.tokenRan = tab[t].tokenRan
        BY <1>1, ClearedKeeps
      <4>2. new = [c EXCEPT !.check = "none", !.checking = FALSE]
        OBVIOUS
      <4> HIDE DEF c, new
      <4>3. new \in OpenTabs
        BY <4>1, <4>2 DEF OpenTabs, Requests
      <4> QED BY <4>1, <4>2, <4>3 DEF OpenTabs
    <3> HIDE DEF new
    <3>2. Become(t, new)
      BY <2>5 DEF new
    <3> QED BY <1>1, <3>1, <3>2 DEF Holds
  <2>6. CASE LoadServed(t)
    <3> DEFINE new == [tab[t] EXCEPT !.load = "good"]
    <3>1. new \in OpenTabs /\ new.got = tab[t].got /\ new.check = tab[t].check
          /\ new.tokenRan = tab[t].tokenRan /\ new.token = tab[t].token
          /\ new.session = tab[t].session /\ new.logout = tab[t].logout
      BY <1>1 DEF OpenTabs, Requests
    <3>2. Become(t, new)
      BY <2>6 DEF LoadServed
    <3> HIDE DEF new
    <3> QED BY <1>1, <3>1, <3>2 DEF Holds
  <2>7. CASE LoadReturns(t)
    <3>1. PICK d \in {tab[t].dash} \cup
                       (IF tab[t].load = "good" THEN {tab[t].loadToken} ELSE {}) :
             Become(t, [tab[t] EXCEPT !.load = "none", !.loadToken = None,
                                      !.loading = FALSE, !.dash = d])
      BY <2>7 DEF LoadReturns
    <3>2. d \in Tokens \cup {None}
      BY <1>1, <3>1 DEF OpenTabs
    <3> DEFINE new == [tab[t] EXCEPT !.load = "none", !.loadToken = None,
                                     !.loading = FALSE, !.dash = d]
    <3>5. new \in OpenTabs
      BY <1>1, <3>2 DEF OpenTabs, Requests
    <3>3. new.got = tab[t].got /\ new.check = tab[t].check
          /\ new.tokenRan = tab[t].tokenRan /\ new.token = tab[t].token
          /\ new.session = tab[t].session /\ new.logout = tab[t].logout
      BY <1>1 DEF OpenTabs
    <3>4. Become(t, new)
      BY <3>1
    <3> HIDE DEF new
    <3> QED BY <1>1, <3>3, <3>4, <3>5 DEF Holds
  <2> QED BY <2>1, <2>2, <2>3, <2>4, <2>5, <2>6, <2>7 DEF CheckReturns
<1>3. stored' \in {stored, None} /\ UNCHANGED <<alive, issued, signedOut>>
  BY DEF SubmitLogin, ClickLogout, CheckServed, CheckReturns, LoadServed, LoadReturns
<1> QED BY <1>1, <1>2, <1>3, KeepStep DEF IInv, TypeOK

\* Signing in: the token on its way is one the gateway has given nobody yet.
LEMMA LoginStep ==
  ASSUME IInv, NEW t \in Tabs, LoginAttempt(t)
  PROVE  IInv'
<1> USE WebSessionAssumption
<1>1. /\ Open(t) /\ tab[t] \in OpenTabs /\ tab[t].got = None /\ tab[t].login \in 1..Bases
      /\ tab[t].check # "none" => tab[t].tokenRan \in Tokens
  <2>1. Open(t) /\ tab[t] \in OpenTabs
    BY OpenKind DEF IInv, LoginAttempt
  <2> QED BY <2>1 DEF IInv, CheckHasToken, LoginAttempt, OpenTabs
<1>2. ASSUME NEW next \in {TryNextBase(tab[t]), LoginFailed(tab[t])}
      PROVE  /\ next \in OpenTabs /\ next.got = tab[t].got /\ next.check = tab[t].check
             /\ next.tokenRan = tab[t].tokenRan /\ next.token = tab[t].token
             /\ next.session = tab[t].session /\ next.logout = tab[t].logout
  <2>1. CASE next = LoginFailed(tab[t])
    <3>1. next = [tab[t] EXCEPT !.login = 0, !.loading = FALSE]
      BY <2>1 DEF LoginFailed
    <3>2. next \in OpenTabs
      <4>1. tab[t] \in OpenTabs /\ 0 \in 0..Bases
        BY <1>1
      <4> QED BY <3>1, <4>1 DEF OpenTabs
    <3> QED BY <1>1, <3>1, <3>2 DEF OpenTabs
  <2>2. CASE next # LoginFailed(tab[t])
    <3>1. next = [tab[t] EXCEPT !.login = tab[t].login - 1]
      BY <2>2 DEF TryNextBase
    <3>2. tab[t].login - 1 \in 0..Bases
      BY <1>1, <2>2 DEF TryNextBase
    <3> QED BY <1>1, <3>1, <3>2 DEF OpenTabs
  <2> QED BY <2>1, <2>2
<1>3. /\ issued \subseteq issued' /\ issued' \subseteq Tokens /\ alive' \subseteq issued'
      /\ stored' = stored /\ signedOut' = signedOut
  BY DEF LoginAttempt, IInv, TypeOK
<1>4. CASE AttemptFails(t)
  <2>1. PICK next \in {TryNextBase(tab[t]), LoginFailed(tab[t])} : Become(t, next)
    BY <1>4 DEF AttemptFails
  <2>2. \A x \in Tokens : Holds(next, x) => Holds(tab[t], x)
    BY <1>2 DEF Holds
  <2> QED BY <1>1, <1>2, <1>3, <2>1, <2>2, KeepStep
<1>5. ASSUME NEW fresh \in Tokens \ issued, issued' = issued \cup {fresh},
             Become(t, [tab[t] EXCEPT !.got = fresh])
      PROVE  IInv'
  <2> DEFINE new == [tab[t] EXCEPT !.got = fresh]
  <2>1. /\ new.got = fresh /\ new.check = tab[t].check
        /\ new.tokenRan = tab[t].tokenRan /\ new.token = tab[t].token
        /\ new.session = tab[t].session /\ new.logout = tab[t].logout
        /\ new.at = "open"
    BY <1>1 DEF OpenTabs
  <2>2. new \in OpenTabs
    BY <1>1 DEF OpenTabs
  <2>3. tab \in [Tabs -> Tab] /\ new \in Tab /\ tab' = [tab EXCEPT ![t] = new]
    BY <1>5, <2>2, OpenKind DEF IInv, Become
  <2> HIDE DEF new
  <2>4. tab'[t] = new /\ \A u \in Tabs \ {t} : tab'[u] = tab[u]
    BY <2>3
  <2>5. TypeOK'
    <3> HIDE DEF Tab
    <3> QED BY <1>3, <2>3 DEF IInv, TypeOK
  <2>6. CheckHasToken'
    BY <1>1, <2>1, <2>4 DEF IInv, CheckHasToken, Open
  <2>7. \A u \in Tabs : /\ Open(u)' <=> Open(u)
                        /\ \A x \in Tokens : Holds(tab'[u], x) <=> Holds(tab[u], x)
    BY <1>1, <2>1, <2>4 DEF Open, Holds
  <2>8. Known'
    <3>1. \A u \in Tabs, x \in Tokens : Open(u)' /\ Holds(tab'[u], x) => x \in issued'
      BY <1>3, <2>7 DEF IInv, Known
    <3> QED BY <1>3, <3>1 DEF IInv, Known, Holds
  <2>9. \A u \in Tabs, x \in Tokens : Open(u) /\ Holds(tab[u], x) => x # fresh
    BY DEF IInv, Known
  <2>10. \A u \in Tabs \ {t} : Open(u) => tab[u].got \in (Tokens \cup {None}) \ {fresh}
    <3>1. \A u \in Tabs \ {t} : Open(u) => tab[u].got \in Tokens \cup {None}
      BY OpenKind DEF IInv, OpenTabs
    <3> QED BY <3>1 DEF IInv, Fresh
  <2>11. Fresh'
    <3> SUFFICES ASSUME NEW u \in Tabs, Open(u)', tab'[u].got # None
                 PROVE  /\ tab'[u].got \in issued' /\ tab'[u].got \notin signedOut'
                        /\ tab'[u].got # stored'
                        /\ \A v \in Tabs : Open(v)' => ~Holds(tab'[v], tab'[u].got)
                        /\ \A v \in Tabs \ {u} : Open(v)' => tab'[v].got # tab'[u].got
      BY DEF Fresh, Holds
    <3> HIDE DEF Holds
    <3>1. CASE u = t
      <4>1. tab'[u].got = fresh /\ fresh \in issued' /\ fresh \notin issued
        BY <1>5, <2>1, <2>4, <3>1
      <4>2. fresh \notin signedOut' /\ fresh # stored'
        BY <1>3 DEF IInv, Known
      <4>3. \A v \in Tabs : Open(v)' => ~Holds(tab'[v], fresh)
        BY <2>7, <2>9
      <4>4. \A v \in Tabs \ {u} : Open(v)' => tab'[v].got # fresh
        BY <2>4, <2>7, <2>10, <3>1
      <4> QED BY <4>1, <4>2, <4>3, <4>4
    <3>2. CASE u # t
      <4>1. /\ tab'[u].got = tab[u].got /\ Open(u) /\ tab[u].got \in Tokens
            /\ tab[u].got # fresh
        BY <2>4, <2>7, <2>10, <3>2
      <4>2. /\ tab[u].got \in issued /\ tab[u].got \notin signedOut /\ tab[u].got # stored
            /\ \A v \in Tabs : Open(v) => ~Holds(tab[v], tab[u].got)
            /\ \A v \in Tabs \ {u} : Open(v) => tab[v].got # tab[u].got
        BY <4>1 DEF IInv, Fresh
      <4>3. \A v \in Tabs : Open(v)' => ~Holds(tab'[v], tab[u].got)
        BY <2>7, <4>1, <4>2
      <4>4. \A v \in Tabs \ {u} : Open(v)' => tab'[v].got # tab[u].got
        BY <2>1, <2>4, <2>7, <4>1, <4>2
      <4> QED BY <1>3, <4>1, <4>2, <4>3, <4>4
    <3> QED BY <3>1, <3>2
  <2>12. SignedOutStaysOut'
    BY <1>3 DEF IInv, SignedOutStaysOut
  <2> QED BY <2>5, <2>6, <2>8, <2>11, <2>12 DEF IInv
<1> QED BY <1>4, <1>5 DEF LoginAttempt

\* The token of a sign-in comes to the tab and to storage.
LEMMA LoginReturnStep ==
  ASSUME IInv, NEW t \in Tabs, LoginReturns(t)
  PROVE  IInv'
<1> USE WebSessionAssumption
<1> DEFINE got == tab[t].got
           new == [tab[t] EXCEPT !.token = got, !.session = got, !.renewed = TRUE,
                                 !.loading = FALSE, !.login = 0, !.got = None,
                                 !.restored = FALSE]
<1>1. /\ Open(t) /\ tab[t] \in OpenTabs /\ got \in Tokens
      /\ tab[t].check # "none" => tab[t].tokenRan \in Tokens
      /\ UNCHANGED <<alive, issued, signedOut>> /\ stored' = got /\ Become(t, new)
  <2>1. Open(t) /\ tab[t] \in OpenTabs /\ got # None
    BY OpenKind DEF IInv, LoginReturns
  <2>2. Become(t, new)
    BY DEF LoginReturns
  <2> HIDE DEF new
  <2> QED BY <2>1, <2>2 DEF IInv, CheckHasToken, LoginReturns, OpenTabs
<1>2. new \in OpenTabs
  BY <1>1, 0 \in 0..Bases DEF OpenTabs
<1>3. /\ new.token = got /\ new.session = got /\ new.got = None /\ new.at = "open"
      /\ new.tokenRan = tab[t].tokenRan /\ new.logout = tab[t].logout
      /\ new.check = tab[t].check
  BY <1>1 DEF OpenTabs
<1>4. tab \in [Tabs -> Tab] /\ new \in Tab /\ tab' = [tab EXCEPT ![t] = new]
  BY <1>1, <1>2, OpenKind DEF IInv, Become
<1> HIDE DEF new
<1>5. tab'[t] = new /\ \A u \in Tabs \ {t} : tab'[u] = tab[u]
  BY <1>4
<1>6. /\ got \in issued /\ got \notin signedOut
      /\ \A u \in Tabs \ {t} : Open(u) => tab[u].got # got
  BY <1>1 DEF IInv, Fresh
<1>7. TypeOK'
  <2> HIDE DEF Tab
  <2> QED BY <1>1, <1>4 DEF IInv, TypeOK
<1>8. CheckHasToken'
  BY <1>1, <1>3, <1>5 DEF IInv, CheckHasToken, Open
<1>9. \A u \in Tabs : /\ Open(u)' <=> Open(u)
                      /\ \A x \in Tokens : Holds(tab'[u], x) => Holds(tab[u], x) \/ x = got
  BY <1>1, <1>3, <1>5 DEF Open, Holds
<1>10. Known'
  <2>1. \A u \in Tabs, x \in Tokens : Open(u)' /\ Holds(tab'[u], x) => x \in issued'
    BY <1>1, <1>6, <1>9 DEF IInv, Known
  <2> HIDE DEF got
  <2> QED BY <1>1, <1>6, <2>1 DEF IInv, Known, Holds
<1>11. Fresh'
  <2> SUFFICES ASSUME NEW u \in Tabs, Open(u)', tab'[u].got # None
               PROVE  /\ tab'[u].got \in issued' /\ tab'[u].got \notin signedOut'
                      /\ tab'[u].got # stored'
                      /\ \A v \in Tabs : Open(v)' => ~Holds(tab'[v], tab'[u].got)
                      /\ \A v \in Tabs \ {u} : Open(v)' => tab'[v].got # tab'[u].got
    BY DEF Fresh, Holds
  <2> HIDE DEF Holds
  <2>1. u # t /\ tab'[u] = tab[u] /\ Open(u)
    BY <1>3, <1>5, <1>9
  <2>2. tab[u].got \in Tokens
    BY <2>1, OpenKind DEF IInv, OpenTabs
  <2>3. /\ tab[u].got \in issued /\ tab[u].got \notin signedOut /\ tab[u].got # got
        /\ \A v \in Tabs : Open(v) => ~Holds(tab[v], tab[u].got)
        /\ \A v \in Tabs \ {u} : Open(v) => tab[v].got # tab[u].got
    BY <1>6, <2>1 DEF IInv, Fresh
  <2>4. \A v \in Tabs : Open(v)' => ~Holds(tab'[v], tab[u].got)
    BY <1>9, <2>2, <2>3
  <2>5. \A v \in Tabs \ {u} : Open(v)' => tab'[v].got # tab[u].got
    BY <1>3, <1>5, <1>9, <2>2, <2>3
  <2> HIDE DEF got
  <2> QED BY <1>1, <2>1, <2>3, <2>4, <2>5
<1>12. SignedOutStaysOut'
  BY <1>1, <1>6 DEF SignedOutStaysOut
<1> QED BY <1>7, <1>8, <1>10, <1>11, <1>12 DEF IInv

\* A sign-out is over: its token is signed out, and nothing is in storage.
LEMMA LogoutReturnStep ==
  ASSUME IInv, NEW t \in Tabs, NEW k \in Clicks, LogoutReturns(t, k)
  PROVE  IInv'
<1> USE WebSessionAssumption
<1> DEFINE c   == Cleared(tab[t])
           log == [tab[t].logout EXCEPT ![k] = None]
           new == [c EXCEPT !.logout = log]
           out == tab[t].logout[k]
<1>1. /\ Open(t) /\ tab[t] \in OpenTabs
      /\ tab[t].check # "none" => tab[t].tokenRan \in Tokens
      /\ tab[t].logout \in [Clicks -> Tokens \cup {None}] /\ out \in Tokens
  <2>1. Open(t) /\ tab[t] \in OpenTabs /\ out # None
    BY OpenKind DEF IInv, LogoutReturns
  <2>2. tab[t].logout \in [Clicks -> Tokens \cup {None}]
    BY <2>1 DEF OpenTabs
  <2> QED BY <2>1, <2>2 DEF IInv, CheckHasToken
<1>2. /\ c \in OpenTabs /\ c.token = None /\ c.session = None /\ c.got = tab[t].got
      /\ c.logout = tab[t].logout /\ c.tokenRan = tab[t].tokenRan /\ c.check = tab[t].check
  BY <1>1, ClearedKeeps
<1>3. Become(t, new)
  <2>1. new = [c EXCEPT !.logout[k] = None]
    BY <1>2
  <2> QED BY <2>1 DEF LogoutReturns, AfterLogout
<1>4. log \in [Clicks -> Tokens \cup {None}]
  BY <1>1
<1> HIDE DEF c, log
<1>5. new \in OpenTabs
  BY <1>2, <1>4 DEF OpenTabs
<1>6. /\ new.token = None /\ new.session = None /\ new.got = tab[t].got
      /\ new.logout = log /\ new.tokenRan = tab[t].tokenRan /\ new.check = tab[t].check
  BY <1>2 DEF OpenTabs
<1> HIDE DEF new
<1>7. \A x \in Tokens : Holds(new, x) => Holds(tab[t], x)
  BY <1>1, <1>6 DEF Holds, log
<1>8. stored' = None /\ signedOut' = signedOut \cup {out} /\ UNCHANGED <<alive, issued>>
  BY DEF LogoutReturns, AfterLogout
<1>9. Holds(tab[t], out)
  BY DEF Holds
<1>10. tab'[t] = new /\ \A u \in Tabs \ {t} : tab'[u] = tab[u]
  BY <1>3 DEF IInv, TypeOK, Become
<1>11. TypeOK'
  <2>1. tab \in [Tabs -> Tab] /\ new \in Tab /\ tab' = [tab EXCEPT ![t] = new]
    BY <1>3, <1>5, OpenKind DEF IInv, Become
  <2> HIDE DEF Tab, out
  <2> QED BY <1>1, <1>8, <2>1 DEF IInv, TypeOK
<1>12. CheckHasToken'
  BY <1>1, <1>5, <1>6, <1>10 DEF IInv, CheckHasToken, Open
<1>13. \A u \in Tabs : /\ Open(u)' => Open(u) /\ tab'[u].got = tab[u].got
                       /\ \A x \in Tokens : Holds(tab'[u], x) => Holds(tab[u], x)
  BY <1>1, <1>6, <1>7, <1>10 DEF Open
<1>14. Known'
  <2>1. \A u \in Tabs, x \in Tokens : Open(u)' /\ Holds(tab'[u], x) => x \in issued'
    BY <1>8, <1>13 DEF IInv, Known
  <2>2. out \in issued
    BY <1>1, <1>9 DEF IInv, Known
  <2> HIDE DEF out
  <2> QED BY <1>8, <2>1, <2>2 DEF IInv, Known, Holds
<1>15. Fresh'
  <2> SUFFICES ASSUME NEW u \in Tabs, Open(u)', tab'[u].got # None
               PROVE  /\ tab'[u].got \in issued' /\ tab'[u].got \notin signedOut'
                      /\ tab'[u].got # stored'
                      /\ \A v \in Tabs : Open(v)' => ~Holds(tab'[v], tab'[u].got)
                      /\ \A v \in Tabs \ {u} : Open(v)' => tab'[v].got # tab'[u].got
    BY DEF Fresh, Holds
  <2> HIDE DEF Holds
  <2>1. tab'[u].got = tab[u].got /\ Open(u)
    BY <1>13
  <2>2. tab[u].got \in Tokens
    BY <2>1, OpenKind DEF IInv, OpenTabs
  <2>3. /\ tab[u].got \in issued /\ tab[u].got \notin signedOut
        /\ \A v \in Tabs : Open(v) => ~Holds(tab[v], tab[u].got)
        /\ \A v \in Tabs \ {u} : Open(v) => tab[v].got # tab[u].got
    BY <2>1 DEF IInv, Fresh
  <2>4. tab[u].got # out
    BY <1>1, <1>9, <2>3
  <2> HIDE DEF out
  <2> QED BY <1>8, <1>13, <2>1, <2>2, <2>3, <2>4
<1>16. SignedOutStaysOut'
  <2>1. None \notin signedOut /\ out # None
    BY <1>1 DEF IInv, TypeOK
  <2> HIDE DEF out
  <2> QED BY <1>8, <2>1 DEF SignedOutStaysOut
<1> QED BY <1>11, <1>12, <1>14, <1>15, <1>16 DEF IInv

\* A page that is loaded has the token in storage and no other.
LEMMA OpenStep ==
  ASSUME IInv, NEW t \in Tabs, OpenTab(t)
  PROVE  IInv'
<1> USE WebSessionAssumption
<1> DEFINE log == [k \in Clicks |-> None]
           new == [at |-> "open", token |-> stored, session |-> None, dash |-> None,
                   loading |-> stored # None, checking |-> stored # None,
                   tokenRan |-> "mount", renewed |-> FALSE,
                   check |-> "none", load |-> "none", loadToken |-> None,
                   login |-> 0, got |-> None, logout |-> log,
                   restored |-> stored # None]
<1>1. /\ ~Open(t) /\ UNCHANGED <<alive, issued, stored, signedOut>> /\ Become(t, new)
      /\ tab \in [Tabs -> Tab]
  BY DEF OpenTab, IInv, TypeOK
<1>2. /\ new.token = stored /\ new.session = None /\ new.got = None
      /\ new.logout = log /\ new.tokenRan = "mount" /\ new.check = "none"
  OBVIOUS
<1>3. log \in [Clicks -> Tokens \cup {None}] /\ \A k \in Clicks : log[k] = None
  OBVIOUS
<1>4. new \in OpenTabs
  <2>1. stored \in Tokens \cup {None} /\ (stored # None) \in BOOLEAN
    BY DEF IInv, TypeOK
  <2> HIDE DEF log
  <2> QED BY <1>3, <2>1, 0 \in 0..Bases DEF OpenTabs, Requests
<1> HIDE DEF new, log
<1>5. tab'[t] = new /\ \A u \in Tabs \ {t} : tab'[u] = tab[u]
  BY <1>1 DEF Become
<1>6. TypeOK'
  <2>1. new \in Tab /\ tab' = [tab EXCEPT ![t] = new]
    BY <1>1, <1>4, OpenKind DEF IInv, Become
  <2> HIDE DEF Tab
  <2> QED BY <1>1, <2>1 DEF IInv, TypeOK
<1>7. CheckHasToken'
  BY <1>2, <1>5 DEF IInv, CheckHasToken, Open
<1>8. \A x \in Tokens : Holds(new, x) => x = stored
  BY <1>2, <1>3 DEF Holds
<1>9. Known'
  <2>1. \A u \in Tabs, x \in Tokens : Open(u)' /\ Holds(tab'[u], x) => x \in issued'
    <3>1. CASE stored = None
      BY <1>1, <1>5, <1>8, <3>1 DEF IInv, Known, Open
    <3>2. CASE stored # None
      BY <1>1, <1>5, <1>8, <3>2 DEF IInv, Known, Open
    <3> QED BY <3>1, <3>2
  <2> QED BY <1>1, <2>1 DEF IInv, Known, Holds
<1>10. Fresh'
  <2> SUFFICES ASSUME NEW u \in Tabs, Open(u)', tab'[u].got # None
               PROVE  /\ tab'[u].got \in issued' /\ tab'[u].got \notin signedOut'
                      /\ tab'[u].got # stored'
                      /\ \A v \in Tabs : Open(v)' => ~Holds(tab'[v], tab'[u].got)
                      /\ \A v \in Tabs \ {u} : Open(v)' => tab'[v].got # tab'[u].got
    BY DEF Fresh, Holds
  <2> HIDE DEF Holds
  <2>1. u # t /\ tab'[u] = tab[u] /\ Open(u)
    BY <1>2, <1>5 DEF Open
  <2>2. tab[u].got \in Tokens
    BY <2>1, OpenKind DEF IInv, OpenTabs
  <2>3. /\ tab[u].got \in issued /\ tab[u].got \notin signedOut /\ tab[u].got # stored
        /\ \A v \in Tabs : Open(v) => ~Holds(tab[v], tab[u].got)
        /\ \A v \in Tabs \ {u} : Open(v) => tab[v].got # tab[u].got
    BY <2>1 DEF IInv, Fresh
  <2>4. \A v \in Tabs : Open(v)' => ~Holds(tab'[v], tab[u].got)
    BY <1>5, <1>8, <2>2, <2>3 DEF Open
  <2>5. \A v \in Tabs \ {u} : Open(v)' => tab'[v].got # tab[u].got
    BY <1>2, <1>5, <2>2, <2>3 DEF Open
  <2> QED BY <1>1, <2>1, <2>3, <2>4, <2>5
<1>11. SignedOutStaysOut'
  BY <1>1 DEF IInv, SignedOutStaysOut
<1> QED BY <1>6, <1>7, <1>9, <1>10, <1>11 DEF IInv

\* The rest: a tab that closes, and what the gateway does.
LEMMA QuietStep ==
  ASSUME IInv, \/ \E t \in Tabs : CloseTab(t)
               \/ \E t \in Tabs, k \in Clicks : LogoutServed(t, k)
               \/ SessionsEnd
               \/ UNCHANGED vars
  PROVE  IInv'
<1>1. /\ issued' = issued /\ stored' = stored /\ signedOut' = signedOut
      /\ alive' \subseteq issued
  BY DEF CloseTab, LogoutServed, SessionsEnd, vars, IInv, TypeOK
<1>2. \A t \in Tabs : /\ tab'[t] \in Tab
                      /\ Open(t)' => Open(t) /\ tab'[t] = tab[t]
  <2>1. ASSUME NEW t \in Tabs, CloseTab(t) PROVE <1>2
    <3>1. /\ tab \in [Tabs -> Tab] /\ tab' = [tab EXCEPT ![t] = Closed]
          /\ Closed \in Tab /\ Closed.at = "closed"
      BY <2>1, OpenKind DEF IInv, CloseTab, Become, Closed
    <3> HIDE DEF Tab
    <3> QED BY <3>1 DEF Open
  <2>2. CASE tab' = tab
    <3> HIDE DEF Tab
    <3> QED BY <2>2 DEF IInv, TypeOK, Open
  <2> QED BY <2>1, <2>2 DEF LogoutServed, SessionsEnd, vars
<1>3. tab' \in [Tabs -> Tab]
  <2> HIDE DEF Tab
  <2> QED BY <1>2 DEF CloseTab, Become, LogoutServed, SessionsEnd, vars, IInv, TypeOK
<1>4. TypeOK'
  BY <1>1, <1>3 DEF IInv, TypeOK
<1>5. CheckHasToken'
  BY <1>2 DEF IInv, CheckHasToken
<1>6. Known'
  BY <1>1, <1>2 DEF IInv, Known, Holds
<1>7. Fresh'
  BY <1>1, <1>2 DEF IInv, Fresh, Holds
<1>8. SignedOutStaysOut'
  BY <1>1 DEF IInv, SignedOutStaysOut
<1> QED BY <1>4, <1>5, <1>6, <1>7, <1>8 DEF IInv

\* Every step keeps the invariant.
LEMMA InvStep == IInv /\ [Next]_vars => IInv'
BY EffectsStep, HandlerStep, LoginStep, LoginReturnStep, LogoutReturnStep, OpenStep, QuietStep
   DEF Next

-----------------------------------------------------------------------------
(* Whose dashboard a tab shows, and what a disabled button waits for: what  *)
(* is under way in a tab is about the token its effect ran on last.         *)

\* The token, the session, the dashboard and the load of a tab are one user's.
Own(s) ==
  /\ s.tokenRan \in Tokens => s.token \in {None, s.tokenRan} /\ s.session \in {None, s.tokenRan}
  /\ s.tokenRan \notin Tokens => s.session \in {None, s.token}
  /\ s.dash \in {None, s.tokenRan}
  /\ s.load # "none" =>
       s.tokenRan \in Tokens /\ s.loadToken = s.tokenRan /\ (s.session # None \/ s.renewed)
  /\ s.login > 0 \/ s.got # None => s.token = None /\ s.tokenRan = None
  /\ s.token # None /\ s.tokenRan = s.token /\ s.session = None => s.checking

NoLogout(s) == \A k \in Clicks : s.logout[k] = None

\* The first session of a tab that opened with a token, before its effect runs.
ToLoad(s) == s.renewed /\ s.session # None /\ s.loading /\ s.load = "none"

\* Something is under way that enables the button, or the tab has had no session.
Unstuck(s) ==
  /\ s.checking => s.check # "none" \/ s.tokenRan = "mount"
  /\ s.loading => s.load # "none" \/ s.login > 0 \/ s.restored \/ ToLoad(s)
  /\ s.restored => /\ s.session = None /\ NoLogout(s)
                   /\ s.check = "none" \/ s.token = s.tokenRan
  /\ ToLoad(s) => NoLogout(s) /\ s.check = "none" /\ s.token = s.tokenRan

\* What the steps of a tab keep.
Sound(s) ==
  /\ s \in OpenTabs
  /\ s.check # "none" => s.tokenRan \in Tokens
  /\ Own(s)
  /\ Unstuck(s)

OneUser == \A t \in Tabs : Open(t) => Own(tab[t]) /\ Unstuck(tab[t])

DInv == IInv /\ OneUser

\* What the invariant says of an open tab.
LEMMA SoundTabs ==
  ASSUME DInv, NEW t \in Tabs, Open(t)
  PROVE  Sound(tab[t])
BY OpenKind DEF DInv, IInv, OneUser, Sound, CheckHasToken

\* The effect on the session, field by field.
LEMMA SessionEffectFields ==
  ASSUME NEW s \in OpenTabs, NEW m, m = RunSessionEffect(s)
  PROVE  /\ m.token = s.token /\ m.session = s.session /\ m.dash = s.dash
         /\ m.checking = s.checking /\ m.tokenRan = s.tokenRan /\ m.check = s.check
         /\ m.login = s.login /\ m.got = s.got /\ m.logout = s.logout
         /\ m.restored = s.restored
         /\ ~m.renewed
         /\ ~s.renewed => m = s
         /\ s.renewed /\ s.session = None =>
              m.load = "none" /\ (m.loading => s.load = "none" /\ s.loading)
         /\ s.renewed /\ s.session # None => m.load = "asked" /\ m.loadToken = s.session
<1>1. CASE ~s.renewed
  BY <1>1 DEF RunSessionEffect
<1>2. CASE s.renewed
  <2> DEFINE load == IF s.session = None THEN "none" ELSE "asked"
             loading == s.load = "none" /\ (s.loading \/ s.session # None)
  <2>1. loading \in BOOLEAN /\ (s.session = None /\ loading => s.load = "none" /\ s.loading)
    OBVIOUS
  <2>2. m = [s EXCEPT !.renewed = FALSE, !.loadToken = s.session,
                      !.load = load, !.loading = loading]
    BY <1>2 DEF RunSessionEffect
  <2>3. s.session = None => load = "none"
    OBVIOUS
  <2>4. s.session # None => load = "asked"
    OBVIOUS
  <2> HIDE DEF load, loading
  <2> QED BY <1>2, <2>1, <2>2, <2>3, <2>4 DEF OpenTabs
<1> QED BY <1>1, <1>2

\* Clearing a tab, field by field.
LEMMA ClearedFields ==
  ASSUME NEW s \in OpenTabs, NEW c, c = Cleared(s)
  PROVE  /\ c \in OpenTabs
         /\ c.token = None /\ c.session = None /\ c.dash = None
         /\ c.renewed <=> s.renewed \/ s.session # None
         /\ c.loading = s.loading /\ c.checking = s.checking
         /\ c.tokenRan = s.tokenRan /\ c.check = s.check
         /\ c.load = s.load /\ c.loadToken = s.loadToken
         /\ c.login = s.login /\ c.got = s.got /\ c.logout = s.logout
         /\ c.restored = s.restored
<1> DEFINE renewed == s.renewed \/ s.session # None
<1>1. c = [s EXCEPT !.token = None, !.session = None, !.dash = None, !.renewed = renewed]
  BY DEF Cleared
<1>2. renewed \in BOOLEAN
  OBVIOUS
<1> HIDE DEF renewed
<1>3. c.renewed = renewed
  BY <1>1 DEF OpenTabs
<1>4. c \in OpenTabs
  BY ClearedKeeps
<1>5. c.renewed <=> s.renewed \/ s.session # None
  BY <1>3 DEF renewed
<1> QED BY <1>1, <1>4, <1>5 DEF OpenTabs

\* The effect on a token that is gone.
LEMMA TokenGone ==
  ASSUME NEW m \in OpenTabs, ~m.renewed, m.token = None, m.tokenRan # None,
         NEW new, new = RunTokenEffect(m)
  PROVE  /\ new.token = None /\ new.session = None /\ new.dash = None
         /\ new.tokenRan = None /\ new.check = "none" /\ ~new.checking
         /\ new.renewed <=> m.session # None
         /\ new.load = m.load /\ new.loadToken = m.loadToken
         /\ new.loading = m.loading
         /\ new.login = m.login /\ new.got = m.got /\ new.logout = m.logout
         /\ new.restored = m.restored
<1> DEFINE c    == Cleared(m)
           next == [c EXCEPT !.checking = FALSE, !.check = "none"]
           d    == Cleared(next)
           last == [d EXCEPT !.checking = FALSE]
<1>1. /\ c \in OpenTabs
      /\ c.token = None /\ c.session = None /\ c.dash = None
      /\ c.renewed <=> m.session # None
      /\ c.load = m.load /\ c.loadToken = m.loadToken /\ c.loading = m.loading
      /\ c.login = m.login /\ c.got = m.got /\ c.logout = m.logout
      /\ c.restored = m.restored
  BY ClearedFields
<1>2. new = [(IF m.check = "none" THEN next ELSE last) EXCEPT !.tokenRan = None]
  BY DEF RunTokenEffect
<1> HIDE DEF c
<1>3. /\ next \in OpenTabs
      /\ next.token = None /\ next.session = None /\ next.dash = None
      /\ next.check = "none" /\ ~next.checking
      /\ next.renewed = c.renewed
      /\ next.load = m.load /\ next.loadToken = m.loadToken /\ next.loading = m.loading
      /\ next.login = m.login /\ next.got = m.got /\ next.logout = m.logout
      /\ next.restored = m.restored
  BY <1>1 DEF OpenTabs, Requests
<1> HIDE DEF next
<1>4. /\ d \in OpenTabs
      /\ d.token = None /\ d.session = None /\ d.dash = None
      /\ d.check = "none"
      /\ d.renewed <=> next.renewed
      /\ d.load = m.load /\ d.loadToken = m.loadToken /\ d.loading = m.loading
      /\ d.login = m.login /\ d.got = m.got /\ d.logout = m.logout
      /\ d.restored = m.restored
  BY <1>3, ClearedFields
<1> HIDE DEF d
<1>5. CASE m.check = "none"
  <2>1. new = [next EXCEPT !.tokenRan = None]
    BY <1>2, <1>5
  <2>2. new.renewed = next.renewed
    BY <1>3, <2>1 DEF OpenTabs
  <2>3. new.renewed <=> m.session # None
    BY <1>1, <1>3, <2>2
  <2> QED BY <1>3, <2>1, <2>3 DEF OpenTabs
<1>6. CASE m.check # "none"
  <2>1. new = [d EXCEPT !.checking = FALSE, !.tokenRan = None]
    BY <1>2, <1>4, <1>6 DEF OpenTabs
  <2>2. new.renewed = d.renewed
    BY <1>4, <2>1 DEF OpenTabs
  <2>3. new.renewed <=> m.session # None
    BY <1>1, <1>3, <1>4, <2>2
  <2> QED BY <1>4, <2>1, <2>3 DEF OpenTabs
<1> QED BY <1>5, <1>6

\* Once the effects of a tab have run, and run again, its state is sound.
LEMMA EffectsSound ==
  ASSUME NEW s, Sound(s), NEW new, new = Run(Run(s))
  PROVE  Own(new) /\ Unstuck(new)
<1> USE WebSessionAssumption
<1> DEFINE m == RunSessionEffect(s)
           once == Run(s)
<1>1. /\ s \in OpenTabs /\ (s.check # "none" => s.tokenRan \in Tokens)
      /\ Own(s) /\ Unstuck(s)
      /\ s.token \in Tokens \cup {None} /\ s.session \in Tokens \cup {None}
      /\ s.dash \in Tokens \cup {None} /\ s.tokenRan \in Tokens \cup {None, "mount"}
  BY DEF Sound, OpenTabs
<1>2. /\ m \in OpenTabs
      /\ m.token = s.token /\ m.session = s.session /\ m.dash = s.dash
      /\ m.checking = s.checking /\ m.tokenRan = s.tokenRan /\ m.check = s.check
      /\ m.login = s.login /\ m.got = s.got /\ m.logout = s.logout
      /\ m.restored = s.restored
      /\ ~m.renewed
      /\ ~s.renewed => m = s
      /\ s.renewed /\ s.session = None =>
           m.load = "none" /\ (m.loading => s.load = "none" /\ s.loading)
      /\ s.renewed /\ s.session # None => m.load = "asked" /\ m.loadToken = s.session
  BY <1>1, SessionEffectFields, SessionEffectKeeps
<1>3. once = RunTokenEffect(m) /\ once \in OpenTabs
      /\ new = RunTokenEffect(RunSessionEffect(once))
  BY <1>1, RunKeeps DEF Run
<1> HIDE DEF m, once
\* The token is the one the effect ran on: only the session's effect runs.
<1>4. CASE s.tokenRan = s.token
  <2>1. once = m
    BY <1>2, <1>3, <1>4 DEF RunTokenEffect
  <2>2. new = m
    BY <1>2, <1>3, <1>4, <2>1 DEF RunTokenEffect, RunSessionEffect
  <2>3. Own(m)
    BY <1>1, <1>2, <1>4 DEF Own
  <2>4. Unstuck(m)
    BY <1>1, <1>2, <1>4 DEF Own, Unstuck, ToLoad, NoLogout
  <2> QED BY <2>2, <2>3, <2>4
\* The token is gone: all goes with it, and the load is aborted.
<1>5. CASE s.tokenRan # s.token /\ s.token = None
  <2> DEFINE last == RunSessionEffect(once)
  <2>1. /\ once.token = None /\ once.session = None /\ once.dash = None
        /\ once.tokenRan = None /\ once.check = "none" /\ ~once.checking
        /\ once.renewed <=> s.session # None
        /\ once.load = m.load /\ once.loading = m.loading
        /\ once.login = s.login /\ once.got = s.got /\ once.logout = s.logout
        /\ once.restored = s.restored
    BY <1>2, <1>3, <1>5, TokenGone
  <2>2. /\ last.token = None /\ last.session = None /\ last.dash = None
        /\ last.tokenRan = None /\ last.check = "none" /\ ~last.checking
        /\ last.login = s.login /\ last.got = s.got /\ last.logout = s.logout
        /\ last.restored = s.restored
        /\ ~last.renewed
        /\ ~once.renewed => last = once
        /\ once.renewed => last.load = "none" /\ (last.loading => m.load = "none" /\ m.loading)
    BY <1>3, <2>1, SessionEffectFields
  <2>3. new = last
    BY <1>3, <2>2 DEF RunTokenEffect
  <2> HIDE DEF last
  <2>4. last.load = "none"
    BY <1>1, <1>2, <2>1, <2>2 DEF Own
  <2>5. last.loading => s.restored
    BY <1>1, <1>2, <1>5, <2>1, <2>2, <2>4 DEF Own, Unstuck, ToLoad
  <2>6. s.login > 0 \/ s.got # None => FALSE
    BY <1>1, <1>5 DEF Own
  <2>7. Own(last)
    BY <2>2, <2>4, <2>6 DEF Own
  <2>8. Unstuck(last)
    BY <1>1, <2>2, <2>4, <2>5 DEF Unstuck, ToLoad, NoLogout
  <2> QED BY <2>3, <2>7, <2>8
\* The token is new: it is checked, and a session it came with is loaded.
<1>6. CASE s.tokenRan # s.token /\ s.token # None
  <2>1. s.tokenRan \notin Tokens /\ s.dash = None /\ s.load = "none" /\ s.check = "none"
        /\ s.login <= 0 /\ s.got = None
    <3>1. s.login \in 0..Bases
      BY <1>1 DEF OpenTabs
    <3> QED BY <1>1, <1>6, <3>1 DEF Own
  <2>2. once = [m EXCEPT !.checking = TRUE, !.check = "asked", !.tokenRan = s.token]
    BY <1>2, <1>3, <1>6, <2>1 DEF RunTokenEffect, OpenTabs
  <2>3. /\ once.token = s.token /\ once.session = s.session /\ once.dash = None
        /\ once.checking /\ once.tokenRan = s.token /\ once.check = "asked"
        /\ once.login = s.login /\ once.got = s.got /\ once.logout = s.logout
        /\ once.restored = s.restored /\ once.renewed = m.renewed
        /\ once.load = m.load /\ once.loadToken = m.loadToken /\ once.loading = m.loading
    BY <1>2, <2>1, <2>2 DEF OpenTabs
  <2>4. ~once.renewed
    BY <1>2, <2>3
  <2>5. new = once
    BY <1>3, <2>3, <2>4 DEF RunTokenEffect, RunSessionEffect
  <2>6. Own(once)
    BY <1>1, <1>2, <1>6, <2>1, <2>3, <2>4 DEF Own
  <2>7. Unstuck(once)
    BY <1>1, <1>2, <1>6, <2>1, <2>3, <2>4 DEF Unstuck, ToLoad, NoLogout
  <2> QED BY <2>5, <2>6, <2>7
<1> QED BY <1>4, <1>5, <1>6

\* A step of one tab to a state that is sound leaves all tabs sound.
LEMMA OneUserStep ==
  ASSUME DInv, NEW t \in Tabs, NEW new, Become(t, new), Own(new), Unstuck(new)
  PROVE  OneUser'
<1>1. tab'[t] = new /\ \A u \in Tabs \ {t} : tab'[u] = tab[u]
  BY DEF DInv, IInv, TypeOK, Become
<1>2. ASSUME NEW u \in Tabs, Open(u)'  PROVE Own(tab'[u]) /\ Unstuck(tab'[u])
  <2>1. CASE u = t
    BY <1>1, <2>1
  <2>2. CASE u # t
    BY <1>1, <1>2, <2>2 DEF Open, DInv, OneUser
  <2> QED BY <2>1, <2>2
<1> QED BY <1>2 DEF OneUser, Own, Unstuck, ToLoad, NoLogout

\* The form is filled in and sent: no session is left of an earlier user.
LEMMA SubmitSound ==
  ASSUME DInv, NEW t \in Tabs, SubmitLogin(t)
  PROVE  OneUser'
<1> USE WebSessionAssumption
<1> DEFINE s   == tab[t]
           new == [s EXCEPT !.loading = TRUE, !.login = Bases]
<1>1. /\ Sound(s) /\ Become(t, new)
      /\ s.tokenRan = s.token /\ ~s.renewed /\ ~s.checking
      /\ s.token = None \/ s.session = None
  BY SoundTabs DEF SubmitLogin, SignInForm, Settled, Workspace
<1>2. s \in OpenTabs
  BY <1>1 DEF Sound
<1> HIDE DEF s
<1>3. /\ new.token = s.token /\ new.session = s.session /\ new.dash = s.dash
      /\ new.loading /\ new.checking = s.checking /\ new.tokenRan = s.tokenRan
      /\ new.renewed = s.renewed /\ new.check = s.check /\ new.load = s.load
      /\ new.loadToken = s.loadToken /\ new.login > 0 /\ new.logout = s.logout
      /\ new.restored = s.restored
  BY <1>2 DEF OpenTabs
<1>4. s.token = None
  BY <1>1 DEF Sound, Own
<1> HIDE DEF new
<1>5. Own(new)
  BY <1>1, <1>3, <1>4 DEF Sound, Own
<1>6. Unstuck(new)
  BY <1>1, <1>3 DEF Sound, Unstuck, ToLoad, NoLogout
<1> QED BY <1>1, <1>5, <1>6, OneUserStep

\* While a sign-in is under way nothing else is.
LEMMA LoginSound ==
  ASSUME DInv, NEW t \in Tabs, LoginAttempt(t) \/ LoginReturns(t)
  PROVE  OneUser'
<1> USE WebSessionAssumption
<1> DEFINE s == tab[t]
<1>1. Open(t) /\ Sound(s)
  BY SoundTabs DEF LoginAttempt, LoginReturns
<1>2. /\ s \in OpenTabs /\ Own(s) /\ Unstuck(s) /\ s.login \in 0..Bases
      /\ s.got \in Tokens \cup {None} /\ s.session \in Tokens \cup {None}
      /\ s.dash \in Tokens \cup {None}
  BY <1>1 DEF Sound, OpenTabs
<1>3. s.login > 0 \/ s.got # None
  BY DEF LoginAttempt, LoginReturns
<1>4. /\ s.token = None /\ s.session = None /\ s.tokenRan = None /\ s.dash = None
      /\ s.load = "none" /\ s.check = "none"
  BY <1>1, <1>2, <1>3 DEF Own, Sound
<1>5. CASE AttemptFails(t) /\ s.login > 0
  <2>1. PICK new \in {TryNextBase(s), LoginFailed(s)} : Become(t, new)
    BY <1>5 DEF AttemptFails
  <2>2. /\ new.token = None /\ new.session = None /\ new.dash = None
        /\ new.checking = s.checking /\ new.tokenRan = None /\ new.check = "none"
        /\ new.load = "none" /\ new.logout = s.logout /\ new.restored = s.restored
        /\ new.login > 0 \/ ~new.loading
    <3>1. CASE new = LoginFailed(s)
      <4>1. new = [s EXCEPT !.login = 0, !.loading = FALSE]
        BY <3>1 DEF LoginFailed
      <4> HIDE DEF s
      <4> QED BY <1>2, <1>4, <4>1 DEF OpenTabs
    <3>2. CASE new # LoginFailed(s)
      <4>1. new = [s EXCEPT !.login = @ - 1] /\ s.login - 1 > 0
        BY <1>2, <1>5, <3>2 DEF TryNextBase
      <4> HIDE DEF s
      <4> QED BY <1>2, <1>4, <4>1 DEF OpenTabs
    <3> QED BY <3>1, <3>2
  <2> HIDE DEF s
  <2>3. Own(new)
    BY <2>2 DEF Own
  <2>4. Unstuck(new)
    BY <1>2, <1>4, <2>2 DEF Unstuck, ToLoad, NoLogout
  <2> QED BY <2>1, <2>3, <2>4, OneUserStep
<1>6. CASE s.login > 0 /\ \E fresh \in Tokens : Become(t, [s EXCEPT !.got = fresh])
  <2>1. PICK fresh \in Tokens : Become(t, [s EXCEPT !.got = fresh])
    BY <1>6
  <2> DEFINE new == [s EXCEPT !.got = fresh]
  <2> HIDE DEF s
  <2>2. /\ new.token = None /\ new.session = None /\ new.dash = None
        /\ new.checking = s.checking /\ new.tokenRan = None /\ new.check = "none"
        /\ new.load = "none" /\ new.logout = s.logout /\ new.restored = s.restored
        /\ new.login > 0
    BY <1>2, <1>4, <1>6 DEF OpenTabs
  <2> HIDE DEF new
  <2>3. Own(new)
    BY <2>2 DEF Own
  <2>4. Unstuck(new)
    BY <1>2, <1>4, <2>2 DEF Unstuck, ToLoad, NoLogout
  <2>5. Become(t, new)
    BY <2>1 DEF new
  <2> QED BY <2>3, <2>4, <2>5, OneUserStep
<1>7. CASE LoginReturns(t)
  <2> DEFINE new == [s EXCEPT !.token = s.got, !.session = s.got, !.renewed = TRUE,
                              !.loading = FALSE, !.login = 0, !.got = None,
                              !.restored = FALSE]
  <2>1. Become(t, new) /\ s.got # None
    BY <1>7 DEF LoginReturns
  <2> HIDE DEF s
  <2>2. /\ new.token = s.got /\ new.session = s.got /\ new.dash = None
        /\ ~new.loading /\ new.checking = s.checking /\ new.tokenRan = None
        /\ new.check = "none" /\ new.load = "none" /\ new.login = 0 /\ new.got = None
        /\ ~new.restored
    BY <1>2, <1>4 DEF OpenTabs
  <2> HIDE DEF new
  <2>3. Own(new)
    BY <1>2, <2>1, <2>2 DEF Own
  <2>4. Unstuck(new)
    BY <1>2, <1>4, <2>2 DEF Unstuck, ToLoad
  <2> QED BY <2>1, <2>3, <2>4, OneUserStep
<1>8. \/ AttemptFails(t) /\ s.login > 0
      \/ s.login > 0 /\ \E fresh \in Tokens : Become(t, [s EXCEPT !.got = fresh])
      \/ LoginReturns(t)
  BY DEF LoginAttempt
<1> QED BY <1>5, <1>6, <1>7, <1>8

\* A sign-out is clicked, or over: whoever clicked had a session.
LEMMA LogoutSound ==
  ASSUME DInv, NEW t \in Tabs, ClickLogout(t) \/ \E k \in Clicks : LogoutReturns(t, k)
  PROVE  OneUser'
<1> USE WebSessionAssumption
<1> DEFINE s == tab[t]
<1>1. Open(t) /\ Sound(s)
  BY SoundTabs DEF ClickLogout, Workspace, LogoutReturns
<1>2. /\ s \in OpenTabs /\ Own(s) /\ Unstuck(s)
      /\ s.logout \in [Clicks -> Tokens \cup {None}] /\ s.login \in 0..Bases
  BY <1>1 DEF Sound, OpenTabs
<1>3. CASE ClickLogout(t)
  <2>1. PICK k \in Clicks : Become(t, [s EXCEPT !.logout[k] = s.session])
    BY <1>3 DEF ClickLogout
  <2> DEFINE log == [s.logout EXCEPT ![k] = s.session]
             new == [s EXCEPT !.logout = log]
  <2>2. s.session # None /\ ~s.renewed
    BY <1>3 DEF ClickLogout, Workspace, Settled
  <2>3. Become(t, new)
    BY <2>1
  <2> HIDE DEF s, log
  <2>4. /\ new.token = s.token /\ new.session = s.session /\ new.dash = s.dash
        /\ new.loading = s.loading /\ new.checking = s.checking
        /\ new.tokenRan = s.tokenRan /\ new.renewed = s.renewed /\ new.check = s.check
        /\ new.load = s.load /\ new.loadToken = s.loadToken /\ new.login = s.login
        /\ new.got = s.got /\ new.restored = s.restored
    BY <1>2 DEF OpenTabs
  <2> HIDE DEF new
  <2>5. Own(new)
    BY <1>2, <2>4 DEF Own
  <2>6. Unstuck(new)
    BY <1>2, <2>2, <2>4 DEF Unstuck, ToLoad
  <2> QED BY <2>3, <2>5, <2>6, OneUserStep
<1>4. ASSUME NEW k \in Clicks, LogoutReturns(t, k)  PROVE OneUser'
  <2> DEFINE c   == Cleared(s)
             log == [s.logout EXCEPT ![k] = None]
             new == [c EXCEPT !.logout = log]
  <2>1. ~NoLogout(s)
    BY <1>4 DEF LogoutReturns, NoLogout
  <2>2. Become(t, [c EXCEPT !.logout[k] = None])
    BY <1>4 DEF LogoutReturns, AfterLogout
  <2> HIDE DEF s
  <2>3. /\ c \in OpenTabs
        /\ c.token = None /\ c.session = None /\ c.dash = None
        /\ c.renewed <=> s.renewed \/ s.session # None
        /\ c.loading = s.loading /\ c.checking = s.checking
        /\ c.tokenRan = s.tokenRan /\ c.check = s.check
        /\ c.load = s.load /\ c.loadToken = s.loadToken
        /\ c.login = s.login /\ c.got = s.got /\ c.logout = s.logout
        /\ c.restored = s.restored
    BY <1>2, ClearedFields
  <2>4. Become(t, new)
    BY <2>2, <2>3
  <2> HIDE DEF c, log
  <2>5. /\ new.token = None /\ new.session = None /\ new.dash = None
        /\ new.renewed = c.renewed
        /\ new.loading = s.loading /\ new.checking = s.checking
        /\ new.tokenRan = s.tokenRan /\ new.check = s.check
        /\ new.load = s.load /\ new.loadToken = s.loadToken
        /\ new.login = s.login /\ new.got = s.got
        /\ new.restored = s.restored
    BY <2>3 DEF OpenTabs
  <2> HIDE DEF new
  <2>6. Own(new)
    BY <1>2, <2>3, <2>5 DEF Own
  <2>7. Unstuck(new)
    BY <1>2, <2>1, <2>5 DEF Unstuck, ToLoad
  <2> QED BY <2>4, <2>6, <2>7, OneUserStep
<1> QED BY <1>3, <1>4

\* The check of the token is answered.
LEMMA CheckSound ==
  ASSUME DInv, NEW t \in Tabs, CheckServed(t) \/ CheckReturns(t)
  PROVE  OneUser'
<1> USE WebSessionAssumption
<1> DEFINE s == tab[t]
<1>1. Open(t) /\ Sound(s) /\ s.check # "none"
  BY SoundTabs DEF CheckServed, CheckReturns
<1>2. /\ s \in OpenTabs /\ Own(s) /\ Unstuck(s) /\ s.tokenRan \in Tokens
      /\ s.login \in 0..Bases
  BY <1>1 DEF Sound, OpenTabs
<1>3. s.login <= 0 /\ s.got = None
  BY <1>2 DEF Own
<1>4. CASE Become(t, [s EXCEPT !.check = "good"])
  <2> DEFINE new == [s EXCEPT !.check = "good"]
  <2> HIDE DEF s
  <2>1. /\ new.token = s.token /\ new.session = s.session /\ new.dash = s.dash
        /\ new.loading = s.loading /\ new.checking = s.checking
        /\ new.tokenRan = s.tokenRan /\ new.renewed = s.renewed /\ new.check = "good"
        /\ new.load = s.load /\ new.loadToken = s.loadToken /\ new.login = s.login
        /\ new.got = s.got /\ new.logout = s.logout /\ new.restored = s.restored
    BY <1>2 DEF OpenTabs
  <2> HIDE DEF new
  <2>2. Own(new)
    BY <1>2, <2>1 DEF Own
  <2>3. Unstuck(new)
    BY <1>1, <1>2, <2>1 DEF Unstuck, ToLoad, NoLogout
  <2>4. Become(t, new)
    BY <1>4 DEF new
  <2> QED BY <2>2, <2>3, <2>4, OneUserStep
<1>5. CASE Become(t, [s EXCEPT !.check = "none", !.checking = FALSE,
                               !.session = s.tokenRan, !.renewed = TRUE,
                               !.restored = FALSE])
  <2> DEFINE new == [s EXCEPT !.check = "none", !.checking = FALSE,
                              !.session = s.tokenRan, !.renewed = TRUE,
                              !.restored = FALSE]
  <2> HIDE DEF s
  <2>1. /\ new.token = s.token /\ new.session = s.tokenRan /\ new.dash = s.dash
        /\ new.loading = s.loading /\ ~new.checking
        /\ new.tokenRan = s.tokenRan /\ new.renewed /\ new.check = "none"
        /\ new.load = s.load /\ new.loadToken = s.loadToken /\ new.login = s.login
        /\ new.got = s.got /\ new.logout = s.logout /\ ~new.restored
    BY <1>2 DEF OpenTabs
  <2> HIDE DEF new
  <2>2. Own(new)
    BY <1>2, <1>3, <2>1 DEF Own
  <2>3. Unstuck(new)
    BY <1>1, <1>2, <1>3, <2>1 DEF Unstuck, ToLoad, NoLogout
  <2>4. Become(t, new)
    BY <1>5 DEF new
  <2> QED BY <2>2, <2>3, <2>4, OneUserStep
<1>6. CASE Become(t, [Cleared(s) EXCEPT !.check = "none", !.checking = FALSE])
  <2> DEFINE c   == Cleared(s)
             new == [c EXCEPT !.check = "none", !.checking = FALSE]
  <2> HIDE DEF s
  <2>1. /\ c \in OpenTabs
        /\ c.token = None /\ c.session = None /\ c.dash = None
        /\ c.renewed <=> s.renewed \/ s.session # None
        /\ c.loading = s.loading /\ c.tokenRan = s.tokenRan
        /\ c.load = s.load /\ c.loadToken = s.loadToken
        /\ c.login = s.login /\ c.got = s.got /\ c.logout = s.logout
        /\ c.restored = s.restored
    BY <1>2, ClearedFields
  <2>2. Become(t, new)
    BY <1>6
  <2> HIDE DEF c
  <2>3. /\ new.token = None /\ new.session = None /\ new.dash = None
        /\ new.renewed = c.renewed
        /\ new.loading = s.loading /\ ~new.checking
        /\ new.tokenRan = s.tokenRan /\ new.check = "none"
        /\ new.load = s.load /\ new.loadToken = s.loadToken
        /\ new.login = s.login /\ new.got = s.got /\ new.logout = s.logout
        /\ new.restored = s.restored
    BY <2>1 DEF OpenTabs
  <2> HIDE DEF new
  <2>4. Own(new)
    BY <1>2, <1>3, <2>1, <2>3 DEF Own
  <2>5. Unstuck(new)
    BY <1>1, <1>2, <1>3, <2>3 DEF Unstuck, ToLoad, NoLogout
  <2> QED BY <2>2, <2>4, <2>5, OneUserStep
<1> QED BY <1>4, <1>5, <1>6 DEF CheckServed, CheckReturns

\* The dashboard is served, or its load is over: it is the token's.
LEMMA LoadSound ==
  ASSUME DInv, NEW t \in Tabs, LoadServed(t) \/ LoadReturns(t)
  PROVE  OneUser'
<1> USE WebSessionAssumption
<1> DEFINE s == tab[t]
<1>1. Open(t) /\ Sound(s) /\ s.load # "none"
  BY SoundTabs DEF LoadServed, LoadReturns
<1>2. s \in OpenTabs /\ Own(s) /\ Unstuck(s) /\ s.loadToken = s.tokenRan
  BY <1>1 DEF Sound, Own
<1>3. CASE LoadServed(t)
  <2> DEFINE new == [s EXCEPT !.load = "good"]
  <2>1. Become(t, new)
    BY <1>3 DEF LoadServed
  <2> HIDE DEF s
  <2>2. /\ new.token = s.token /\ new.session = s.session /\ new.dash = s.dash
        /\ new.loading = s.loading /\ new.checking = s.checking
        /\ new.tokenRan = s.tokenRan /\ new.renewed = s.renewed /\ new.check = s.check
        /\ new.load = "good" /\ new.loadToken = s.loadToken /\ new.login = s.login
        /\ new.got = s.got /\ new.logout = s.logout /\ new.restored = s.restored
    BY <1>2 DEF OpenTabs
  <2> HIDE DEF new
  <2>3. Own(new)
    BY <1>1, <1>2, <2>2 DEF Own
  <2>4. Unstuck(new)
    BY <1>2, <2>2 DEF Unstuck, ToLoad, NoLogout
  <2> QED BY <2>1, <2>3, <2>4, OneUserStep
<1>4. CASE LoadReturns(t)
  <2>1. PICK dash \in {s.dash, s.tokenRan} :
          Become(t, [s EXCEPT !.load = "none", !.loadToken = None,
                              !.loading = FALSE, !.dash = dash])
    BY <1>2, <1>4 DEF LoadReturns
  <2> DEFINE new == [s EXCEPT !.load = "none", !.loadToken = None,
                              !.loading = FALSE, !.dash = dash]
  <2>2. Become(t, new)
    BY <2>1
  <2> HIDE DEF s
  <2>3. /\ new.token = s.token /\ new.session = s.session /\ new.dash = dash
        /\ ~new.loading /\ new.checking = s.checking
        /\ new.tokenRan = s.tokenRan /\ new.renewed = s.renewed /\ new.check = s.check
        /\ new.load = "none" /\ new.login = s.login
        /\ new.got = s.got /\ new.logout = s.logout /\ new.restored = s.restored
    BY <1>2 DEF OpenTabs
  <2> HIDE DEF new
  <2>4. Own(new)
    BY <1>2, <2>3 DEF Own
  <2>5. Unstuck(new)
    BY <1>2, <2>3 DEF Unstuck, ToLoad, NoLogout
  <2> QED BY <2>2, <2>4, <2>5, OneUserStep
<1> QED BY <1>3, <1>4

\* A page that is loaded; and the steps that leave every open tab as it is.
LEMMA OpenSound ==
  ASSUME DInv, NEW t \in Tabs, OpenTab(t)
  PROVE  OneUser'
<1> USE WebSessionAssumption
<1> DEFINE log == [k \in Clicks |-> None]
           new == [at |-> "open", token |-> stored, session |-> None, dash |-> None,
                   loading |-> stored # None, checking |-> stored # None,
                   tokenRan |-> "mount", renewed |-> FALSE,
                   check |-> "none", load |-> "none", loadToken |-> None,
                   login |-> 0, got |-> None, logout |-> log,
                   restored |-> stored # None]
<1>1. Become(t, new) /\ stored \in Tokens \cup {None}
  BY DEF OpenTab, DInv, IInv, TypeOK
<1>2. NoLogout(new)
  BY DEF NoLogout
<1>3. Own(new)
  BY <1>1 DEF Own
<1>4. Unstuck(new)
  <2> HIDE DEF log
  <2> QED BY <1>2 DEF Unstuck, ToLoad, NoLogout
<1> HIDE DEF new
<1> QED BY <1>1, <1>3, <1>4, OneUserStep

\* No tab is open at first.
LEMMA DashInit == Init => DInv
BY InvInit DEF DInv, OneUser, Init, Open, Closed

\* Every step keeps every tab to one user and unstuck.
LEMMA DashStep == DInv /\ [Next]_vars => DInv'
<1> SUFFICES ASSUME DInv, [Next]_vars PROVE DInv'
  OBVIOUS
<1>1. IInv'
  BY InvStep DEF DInv
<1>2. ASSUME NEW t \in Tabs, Effects(t)  PROVE OneUser'
  <2> DEFINE new == Run(Run(tab[t]))
  <2>1. Become(t, new) /\ Sound(tab[t])
    BY <1>2, SoundTabs DEF Effects
  <2>2. Own(new) /\ Unstuck(new)
    BY <2>1, EffectsSound
  <2> HIDE DEF new
  <2> QED BY <2>1, <2>2, OneUserStep
<1>3. ASSUME \/ \E t \in Tabs : CloseTab(t)
             \/ \E t \in Tabs, k \in Clicks : LogoutServed(t, k)
             \/ SessionsEnd
             \/ UNCHANGED vars
      PROVE  OneUser'
  <2>1. ASSUME NEW t \in Tabs, CloseTab(t)  PROVE OneUser'
    <3>1. tab'[t] = Closed /\ \A u \in Tabs \ {t} : tab'[u] = tab[u]
      BY <2>1 DEF CloseTab, Become, DInv, IInv, TypeOK
    <3> QED BY <3>1 DEF OneUser, DInv, Open, Closed
  <2>2. CASE tab' = tab
    BY <2>2 DEF OneUser, DInv, Open
  <2> QED BY <1>3, <2>1, <2>2 DEF LogoutServed, SessionsEnd, vars
<1>4. OneUser'
  BY <1>2, <1>3, SubmitSound, LoginSound, LogoutSound, CheckSound, LoadSound, OpenSound DEF Next
<1> QED BY <1>1, <1>4 DEF DInv

-----------------------------------------------------------------------------

\* Every tab's state, whatever the order of its effects and answers, is of its
\* type.
THEOREM TypeCorrect == Spec => []TypeOK
<1>1. IInv => TypeOK
  BY DEF IInv
<1> QED BY <1>1, InvInit, InvStep, PTL DEF Spec

\* A token that was signed out in one tab comes back to storage in none,
\* however many tabs there are and whether or not the gateway heard of it.
THEOREM SignedOutForGood == Spec => []SignedOutStaysOut
<1>1. IInv => SignedOutStaysOut
  BY DEF IInv
<1> QED BY <1>1, InvInit, InvStep, PTL DEF Spec

\* A workspace never shows a dashboard loaded under another session than its
\* own: whatever is under way in a tab is about the token its effect ran on last.
THEOREM DashboardsAreOwn == Spec => []DashboardIsOwn
<1>1. ASSUME DInv  PROVE DashboardIsOwn
  <2>1. ASSUME NEW t \in Tabs, Workspace(t)
        PROVE  tab[t].dash \in {None, tab[t].session}
    <3> DEFINE s == tab[t]
    <3>1. /\ Own(s) /\ s.token # None /\ s.session # None
          /\ s.session \in Tokens \cup {None} /\ s.dash \in Tokens \cup {None}
          /\ s.tokenRan \in Tokens \cup {None, "mount"}
      BY <1>1, <2>1, SoundTabs DEF Workspace, Sound, OpenTabs
    <3> HIDE DEF s
    <3> QED BY <3>1, WebSessionAssumption DEF Own, s
  <2> QED BY <2>1 DEF DashboardIsOwn
<1> QED BY <1>1, DashInit, DashStep, PTL DEF Spec

\* A form whose button nothing under way will enable belongs to a tab that
\* opened with a token and lost it before it had a session, and to no other.
THEOREM StuckFormsHaveACause == Spec => []FormStuckForCause
<1>1. ASSUME DInv  PROVE FormStuckForCause
  <2>1. ASSUME NEW t \in Tabs, SignInForm(t), Settled(t),
               tab[t].loading \/ tab[t].checking,
               tab[t].check = "none", tab[t].load = "none", tab[t].login = 0
        PROVE  tab[t].restored
    <3> DEFINE s == tab[t]
    <3>1. /\ Unstuck(s) /\ s.tokenRan = s.token /\ ~s.renewed
          /\ s.token \in Tokens \cup {None}
      BY <1>1, <2>1, SoundTabs DEF SignInForm, Settled, Sound, OpenTabs
    <3> HIDE DEF s
    <3> QED BY <2>1, <3>1, WebSessionAssumption DEF Unstuck, ToLoad, s
  <2> QED BY <2>1 DEF FormStuckForCause
<1> QED BY <1>1, DashInit, DashStep, PTL DEF Spec

=============================================================================
