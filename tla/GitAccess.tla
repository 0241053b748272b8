----------------------------- MODULE GitAccess -----------------------------
(***************************************************************************)
(* Git over SSH: the login script (infra/git/ssh/gitorc-ssh-authorize.rb)  *)
(* asks the Ruby application whether the key may run the command, takes    *)
(* the token it gets to the git service (gitapi/api.go), and runs the      *)
(* command when both agree.  Tokens may also be had over the application's *)
(* API, bound to no command.  The two services share nothing but a secret, *)
(* which each reads from its own environment, and each has a clock.        *)
(* RubyStore models the statements behind the application's answer one by  *)
(* one, on the connection they share; here the answer is one step, and     *)
(* each statement has its own result.                                      *)
(***************************************************************************)
EXTENDS Naturals

CONSTANTS
    Clients,     \* SSH sessions and users of the API
    Users, Keys, \* user names as typed, key fingerprints
    Paths,       \* repository paths as they stand in a command
    Slugs,       \* project slugs
    Secrets,     \* values of GITORC_GIT_TOKEN_SECRET
    Fold,        \* user names up to case, casecmp?
    Owner,       \* the user each key belongs to in table ssh_keys, or Nothing
    Stripped,    \* a path without its leading slashes
    SlugOf,      \* repo_slug_from_command
    Lifetime,    \* seconds a token lives, 300 in the code
    MaxTime,     \* bound: the clocks stop here
    Nothing      \* no user name, nobody's key, no command

Services == {"ruby", "git"}
Verbs    == {"git-upload-pack", "git-upload-archive", "git-receive-pack"}
Actions  == {"read", "archive", "write"}

\* How a command is written: its path quoted or not, quoted among other white
\* space than one blank, or followed by more words.
Forms    == {"quoted", "bare", "spaced", "extra"}
Texts    == [verb : Verbs \cup {"other"}, path : Paths, form : Forms]
Commands == [verb : Verbs, path : Paths, form : {"quoted"}]

ASSUME GitAccessAssumption ==
    /\ Lifetime \in Nat /\ MaxTime \in Nat
    /\ Fold \in [Users -> Users]
    /\ Owner \in [Keys -> Users \cup {Nothing}]
    /\ Stripped \in [Paths -> Paths]
    /\ \A p \in Paths : Stripped[Stripped[p]] = Stripped[p]
    /\ SlugOf \in [Paths -> Slugs]
    /\ Nothing \notin Users /\ Nothing \notin Keys /\ Nothing \notin Texts

VARIABLES
    repos,     \* slugs of projects with a row in table repositories
    secret,    \* the secret each service was started with
    up,        \* services that answer
    clock,     \* the clock of each service's host
    client     \* where each client stands

services == <<secret, up>>
vars     == <<repos, services, clock, client>>

\* whole: repo, action and subject are not empty.  The git service reports the
\* subject and the repo, and does nothing else with them.
Tokens ==
    [whole : BOOLEAN, action : Actions \cup {"other"}, exp : Nat,
     command : Texts \cup {Nothing}, signed : Secrets]

Asked == [user : Users \cup {Nothing}, key : Keys, text : Texts]

Reasons == {"command", "key", "user", "repository", "signature", "expired",
            "claims", "unsupported", "action", "other command", "no answer"}

\* when: the git service's clock when it said yes, for the properties.
Client ==
    [at : {"idle"}]
        \cup [at : {"asking"}, asked : Asked]
        \cup [at : {"authorized"}, asked : Asked, token : Tokens, command : Commands]
        \cup [at : {"verified", "running"}, asked : Asked, token : Tokens,
              command : Commands, when : Nat]
        \cup [at : {"aborted"}, why : Reasons]
        \cup [at : {"holding"}, token : Tokens, reply : {"none", "allowed", "refused"}]

TypeOK ==
    /\ repos \subseteq Slugs
    /\ secret \in [Services -> Secrets]
    /\ up \subseteq Services
    /\ clock \in [Services -> 0..MaxTime]
    /\ client \in [Clients -> Client]

Idle == [at |-> "idle"]

Init ==
    /\ repos = {}
    /\ secret \in [Services -> Secrets]
    /\ up = {}
    /\ clock = [s \in Services |-> 0]
    /\ client = [c \in Clients |-> Idle]

At(c, step) == client[c].at = step

Become(c, state) == client' = [client EXCEPT ![c] = state]

Abort(c, reason) == Become(c, [at |-> "aborted", why |-> reason])

---------------------------------------------------------------------------
(* What each service makes of a command.                                   *)

ActionOf(verb) ==
    CASE verb = "git-upload-pack"    -> "read"
      [] verb = "git-upload-archive" -> "archive"
      [] verb = "git-receive-pack"   -> "write"

\* parse_git_command takes one of the verbs and one path.
Parses(text) == text.verb \in Verbs /\ text.form # "extra"

\* It writes the command anew: one blank, quotes, no leading slashes.
Canonical(text) ==
    [verb |-> text.verb, path |-> Stripped[text.path], form |-> "quoted"]

\* normalizeCommand takes white space together and leaves quotes and slashes.
Normalize(text) ==
    [text EXCEPT !.form = IF @ = "spaced" THEN "quoted" ELSE @]

\* issue_git_access_token
Token(whole, action, command) ==
    [whole |-> whole, action |-> action, command |-> command,
     exp |-> clock["ruby"] + Lifetime, signed |-> secret["ruby"]]

\* Slip: a token is good in the second it expires.
SlipExpired(token) == token.exp < clock["git"]

\* verifyToken: claims.ExpiresAt <= now
Expired(token) == token.exp <= clock["git"]

---------------------------------------------------------------------------
(* The script.                                                             *)

\* sshd starts the script for a key, with a command and maybe a user name.
Connect(c) ==
    /\ At(c, "idle")
    /\ \E asked \in Asked : Become(c, [at |-> "asking", asked |-> asked])
    /\ UNCHANGED <<repos, services, clock>>

Actor(asked) == IF asked.user = Nothing THEN Owner[asked.key] ELSE asked.user

\* Table ssh_keys has the key.
Knows(asked) == Owner[asked.key] # Nothing

\* casecmp? of the user name and the key's.
IsOwner(asked) == Fold[Actor(asked)] = Fold[Owner[asked.key]]

\* authorize_ssh
Authorize(c) ==
    /\ At(c, "asking") /\ "ruby" \in up
    /\ LET asked   == client[c].asked
           command == Canonical(asked.text)
           slug    == SlugOf[command.path]
       IN  \/ ~Parses(asked.text) /\ Abort(c, "command")
           \/ Parses(asked.text) /\ ~Knows(asked) /\ Abort(c, "key")
           \/ /\ Parses(asked.text) /\ Knows(asked)
              /\ ~IsOwner(asked)
              /\ Abort(c, "user")
           \/ /\ Parses(asked.text) /\ Knows(asked) /\ IsOwner(asked)
              /\ slug \notin repos
              /\ Abort(c, "repository")
           \/ /\ Parses(asked.text) /\ Knows(asked) /\ IsOwner(asked)
              /\ slug \in repos
              /\ Become(c, [at |-> "authorized", asked |-> asked, command |-> command,
                            token |-> Token(TRUE, ActionOf(command.verb), command)])
    /\ UNCHANGED <<repos, services, clock>>

\* What handleVerifyToken objects to, in its order.  A command may be left out,
\* and what follows the verb and the blank after it is read only to compare it.
Objection(token, command) ==
    IF token.signed # secret["git"] THEN "signature"
    ELSE IF Expired(token) THEN "expired"
    ELSE IF ~token.whole THEN "claims"
    ELSE IF command = Nothing THEN "none"
    ELSE IF command.verb = "other" THEN "unsupported"
    ELSE IF ActionOf(command.verb) # token.action THEN "action"
    ELSE IF token.command # Nothing /\ Normalize(command) # Normalize(token.command)
    THEN "other command"
    ELSE "none"

\* The script takes the token and the command to the git service.
Verify(c) ==
    /\ At(c, "authorized") /\ "git" \in up
    /\ LET objection == Objection(client[c].token, client[c].command)
       IN  IF objection = "none"
           THEN Become(c, [at |-> "verified", asked |-> client[c].asked,
                           token |-> client[c].token, command |-> client[c].command,
                           when |-> clock["git"]])
           ELSE Abort(c, objection)
    /\ UNCHANGED <<repos, services, clock>>

\* exec: nothing is looked at any more.
Run(c) ==
    /\ At(c, "verified")
    /\ Become(c, [client[c] EXCEPT !.at = "running"])
    /\ UNCHANGED <<repos, services, clock>>

\* Slip: the second exchange may take for ever.
SlipNoAnswer(c) ==
    /\ At(c, "asking")
    /\ Abort(c, "no answer")
    /\ UNCHANGED <<repos, services, clock>>

\* An exchange fails or takes longer than Net::HTTP waits, or the answer is
\* not one: the script ends, whatever the service did.  It never asks twice.
NoAnswer(c) ==
    /\ client[c].at \in {"asking", "authorized"}
    /\ Abort(c, "no answer")
    /\ UNCHANGED <<repos, services, clock>>

Disconnect(c) ==
    /\ client[c].at \in {"running", "aborted"}
    /\ Become(c, Idle)
    /\ UNCHANGED <<repos, services, clock>>

ScriptStep(c) == Authorize(c) \/ Verify(c) \/ Run(c)

---------------------------------------------------------------------------
(* The API.                                                                *)

\* access_token: what the caller asks for is signed as it stands.
AskToken(c) ==
    /\ At(c, "idle") /\ "ruby" \in up
    /\ \E whole \in BOOLEAN, action \in Actions \cup {"other"},
          command \in Texts \cup {Nothing} :
           Become(c, [at |-> "holding", reply |-> "none",
                      token |-> Token(whole, action, command)])
    /\ UNCHANGED <<repos, services, clock>>

\* POST /auth/verify by whoever holds a token, as often as he likes.
Present(c) ==
    /\ At(c, "holding") /\ "git" \in up
    /\ \E command \in Texts \cup {Nothing} :
           Become(c, [client[c] EXCEPT !.reply =
                        IF Objection(client[c].token, command) = "none"
                        THEN "allowed" ELSE "refused"])
    /\ UNCHANGED <<repos, services, clock>>

LetGo(c) ==
    /\ At(c, "holding")
    /\ Become(c, Idle)
    /\ UNCHANGED <<repos, services, clock>>

---------------------------------------------------------------------------
(* The surroundings.                                                       *)

\* A project and its repository are created (RubyStore).
CreateRepository ==
    /\ \E slug \in Slugs \ repos : repos' = repos \cup {slug}
    /\ UNCHANGED <<services, clock, client>>

\* A service starts with the secret its environment holds now.
Start(s) ==
    /\ s \notin up
    /\ up' = up \cup {s}
    /\ \E new \in Secrets : secret' = [secret EXCEPT ![s] = new]
    /\ UNCHANGED <<repos, clock, client>>

\* A service ends, or hangs.
Stop(s) ==
    /\ s \in up
    /\ up' = up \ {s}
    /\ UNCHANGED <<repos, secret, clock, client>>

Tick(s) ==
    /\ clock[s] < MaxTime
    /\ clock' = [clock EXCEPT ![s] = @ + 1]
    /\ UNCHANGED <<repos, services, client>>

Next ==
    \/ \E c \in Clients :
           Connect(c) \/ ScriptStep(c) \/ NoAnswer(c) \/ Disconnect(c)
           \/ AskToken(c) \/ Present(c) \/ LetGo(c)
    \/ CreateRepository
    \/ \E s \in Services : Start(s) \/ Stop(s) \/ Tick(s)

Spec == Init /\ [][Next]_vars

\* A script that was answered, or has waited as long as Net::HTTP does, goes
\* on: the timeouts are the library's, sixty seconds to connect and to read.
FairSpec == Spec /\ \A c \in Clients : WF_vars(ScriptStep(c) \/ NoAnswer(c))

---------------------------------------------------------------------------
(* Properties                                                              *)

\* A command runs only for a key somebody registered, under a name its owner
\* goes by, on a repository that exists, if it is one git command and nothing
\* more, as it was asked up to quotes, blanks and leading slashes, and after the
\* git service found the token alive: that was some time ago, but the token did
\* not end before it.
RunsAsAuthorised ==
    \A c \in Clients : At(c, "running") =>
        LET asked == client[c].asked IN
        /\ Owner[asked.key] \in Users
        /\ asked.user # Nothing => Fold[asked.user] = Fold[Owner[asked.key]]
        /\ SlugOf[client[c].command.path] \in repos
        /\ Parses(asked.text) /\ client[c].command = Canonical(asked.text)
        /\ client[c].when < client[c].token.exp

\* Every session ends in a command that runs or in a refusal, also when a
\* service never answers.
SessionDecided ==
    \A c \in Clients :
        (client[c].at \in {"asking", "authorized", "verified"})
            ~> (client[c].at \in {"running", "aborted"})

===========================================================================
