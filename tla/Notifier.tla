------------------------------ MODULE Notifier ------------------------------
(***************************************************************************)
(* The Slack and Discord notifiers (internal/platform/slack, discord) and  *)
(* the code that sends through them.  SendAsync leaves a message to a      *)
(* goroutine and returns, Send waits for it; either way one loop posts it, *)
(* up to maxRetries times with pauses between, under the caller's context. *)
(* That context is where the two halves meet.  A handler's ends when the   *)
(* handler returns.  HandleEvents answers first and runs onEvent in a      *)
(* goroutine, under a context made of the request's, which net/http ends   *)
(* at that moment, and cancelled again when onEvent returns.               *)
(* Nothing in the repository calls the managers yet: who calls them, and   *)
(* with which context, is as integration_examples.go shows it.             *)
(***************************************************************************)
EXTENDS Naturals

CONSTANTS
    Messages,     \* notifications, each with the work that sends it
    Enabled,      \* platforms switched on; Slack also needs its token
    maxRetries    \* attempts for a message, 3 in the code

Platforms == {"slack", "discord"}

ASSUME NotifierAssumption ==
    /\ Enabled \subseteq Platforms
    /\ maxRetries \in Nat \ {0}

VARIABLES
    work,      \* the code that sends each message
    open,      \* its request, or whatever its context came from, is not over
    send,      \* the message's loop
    hooked     \* Discord's webhook URL is not empty

notifierVars == <<work, open, send, hooked>>

\* Answers to a POST.  Slack refuses with status 200 and ok = false, and may
\* leave out the error text; "unreadable" is a 200 whose body is no JSON,
\* "status" any other status, "lost" a failure of the transport, the client's
\* timeout of ten seconds, or an end of the context.
Answers(platform) ==
    IF platform = "slack"
    THEN {"ok", "refused", "refused silently", "unreadable", "status", "lost"}
    ELSE {"ok", "no content", "status", "lost"}

\* Slip: Discord's usual answer, 204, counts as a failure.
SlipAccepted(platform) ==
    IF platform = "slack" THEN {"ok", "refused silently"} ELSE {"ok"}

\* sendRequest returns nil.
Accepted(platform) ==
    IF platform = "slack" THEN {"ok", "refused silently"} ELSE {"ok", "no content"}

\* The platform has posted the message when it answers so, or may have.
Posted(answer)   == answer \in {"ok", "no content", "unreadable"}
Doubtful(answer) == answer \in {"lost", "status"}

Works == [kind : {"none", "handler", "event", "service"},
          at : {"idle", "due", "running", "waiting", "ended"}]

Loops == [at : {"none", "starting", "ready", "posting", "pausing", "ended", "gone"},
          to : Platforms, addressed : BOOLEAN, attempt : 0..maxRetries,
          outcome : {"none", "sent", "failed", "cancelled"},
          posts : 0..maxRetries,            \* for the properties, as is heard
          heard : SUBSET (Answers("slack") \cup Answers("discord"))]

\* Type invariant: in particular no message is tried more than maxRetries times.
NotifierTypeOK ==
    /\ work \in [Messages -> Works]
    /\ open \in [Messages -> BOOLEAN]
    /\ send \in [Messages -> Loops]
    /\ hooked \in BOOLEAN

Unsent == [at |-> "none", to |-> "slack", addressed |-> FALSE, attempt |-> 0,
           outcome |-> "none", posts |-> 0, heard |-> {}]

NotifierInit ==
    /\ work = [m \in Messages |-> [kind |-> "none", at |-> "idle"]]
    /\ open = [m \in Messages |-> TRUE]
    /\ send = [m \in Messages |-> Unsent]
    /\ hooked \in BOOLEAN

Working(m, step) == work[m].at = step
Sending(m, step) == send[m].at = step

\* ctx.Done is not closed; for an event the context is cancelled once more.
Live(m) == open[m] /\ (work[m].kind = "event" => ~Working(m, "ended"))

---------------------------------------------------------------------------
(* The work that sends.                                                    *)

\* A handler begins, or something a service does by itself.
Begin(m) ==
    /\ Working(m, "idle")
    /\ \E kind \in {"handler", "service"} :
           work' = [work EXCEPT ![m] = [kind |-> kind, at |-> "running"]]
    /\ UNCHANGED <<open, send, hooked>>

\* HandleEvents and HandleCommand, and VerifyRequest: another method, no
\* signature or a wrong one, a timestamp that is no number or more than 300
\* seconds old, a body that does not parse; or a challenge, which is echoed.
TurnAway(m) ==
    /\ Working(m, "idle")
    /\ work' = [work EXCEPT ![m] = [kind |-> "handler", at |-> "ended"]]
    /\ UNCHANGED <<open, send, hooked>>

\* HandleEvents: 200 is written and the goroutine started.
Acknowledge(m) ==
    /\ Working(m, "idle")
    /\ work' = [work EXCEPT ![m] = [kind |-> "event", at |-> "due"]]
    /\ UNCHANGED <<open, send, hooked>>

\* The goroutine is scheduled, maybe after its request has ended.
ProcessEvent(m) ==
    /\ Working(m, "due")
    /\ work' = [work EXCEPT ![m].at = "running"]
    /\ UNCHANGED <<open, send, hooked>>

\* IsEnabled
IsEnabled(platform) ==
    platform \in Enabled /\ (platform = "discord" => hooked)

Queue(m, platform) ==
    send' = [send EXCEPT ![m].at = "starting", ![m].to = platform]

\* SendAsync
NotifyAsync(m) ==
    /\ Working(m, "running") /\ Sending(m, "none")
    /\ \E platform \in Platforms : IsEnabled(platform) /\ Queue(m, platform)
    /\ UNCHANGED <<work, open, hooked>>

\* Send
NotifyAndWait(m) ==
    /\ Working(m, "running") /\ Sending(m, "none")
    /\ \E platform \in Platforms : IsEnabled(platform) /\ Queue(m, platform)
    /\ work' = [work EXCEPT ![m].at = "waiting"]
    /\ UNCHANGED <<open, hooked>>

\* The work goes on when Send has returned.
StopWaiting(m) ==
    /\ Working(m, "waiting") /\ Sending(m, "ended")
    /\ work' = [work EXCEPT ![m].at = "running"]
    /\ UNCHANGED <<open, send, hooked>>

\* The work is done, notifications that are not enabled left out.
Finish(m) ==
    /\ Working(m, "running")
    /\ work' = [work EXCEPT ![m].at = "ended"]
    /\ UNCHANGED <<open, send, hooked>>

\* net/http ends the request's context when the handler has returned: for an
\* event that may be any time after the goroutine was started.
HandlerReturns(m) ==
    /\ open[m]
    /\ \/ work[m].kind = "handler" /\ Working(m, "ended")
       \/ work[m].kind = "event"
    /\ open' = [open EXCEPT ![m] = FALSE]
    /\ UNCHANGED <<work, send, hooked>>

\* The client hangs up, the event's 30 seconds are over, the service is told
\* to stop.
ContextEnds(m) ==
    /\ open[m]
    /\ ~Working(m, "idle")
    /\ open' = [open EXCEPT ![m] = FALSE]
    /\ UNCHANGED <<work, send, hooked>>

\* SetWebhookURL
SetWebhookURL ==
    /\ hooked' \in BOOLEAN
    /\ UNCHANGED <<work, open, send>>

---------------------------------------------------------------------------
(* The loop.                                                               *)

EndLoop(m, result) == [send[m] EXCEPT !.at = "ended", !.outcome = result]

Become(m, loop) == send' = [send EXCEPT ![m] = loop]

\* The URL and the token are read once, IsEnabled looked at them before.
Load(m) ==
    /\ Sending(m, "starting")
    /\ Become(m, [send[m] EXCEPT !.at = "ready",
                    !.addressed = send[m].to = "discord" => hooked])
    /\ UNCHANGED <<work, open, hooked>>

\* The select at the top of the loop.
StartAttempt(m) ==
    /\ Sending(m, "ready")
    /\ Become(m, IF Live(m) THEN [send[m] EXCEPT !.at = "posting"] ELSE EndLoop(m, "cancelled"))
    /\ UNCHANGED <<work, open, hooked>>

\* Slip: the failure of the last attempt is forgotten.
SlipAfterFailure(m, loop) ==
    IF loop.attempt < maxRetries THEN [loop EXCEPT !.at = "pausing"]
    ELSE [loop EXCEPT !.at = "ended", !.outcome = "sent"]

\* A pause follows, but not after the last attempt.
AfterFailure(m, loop) ==
    IF loop.attempt < maxRetries THEN [loop EXCEPT !.at = "pausing"]
    ELSE [loop EXCEPT !.at = "ended", !.outcome = "failed"]

\* Slip: an attempt that failed is not counted.
SlipTried(m, answer, posts) ==
    [send[m] EXCEPT !.posts = @ + posts, !.heard = @ \cup {answer}]

Tried(m, answer, posts) ==
    [send[m] EXCEPT !.attempt = @ + 1, !.posts = @ + posts,
                    !.heard = @ \cup {answer}]

\* sendRequest returns, with the platform's answer or without.  A context
\* that ends meanwhile, or an address that is none, make it "lost".
Attempt(m) ==
    /\ Sending(m, "posting")
    /\ \E answer \in Answers(send[m].to), posts \in {0, 1} :
           /\ ~send[m].addressed => answer = "lost" /\ posts = 0
           /\ posts = 1 => Posted(answer) \/ Doubtful(answer)
           /\ posts = 0 => ~Posted(answer)
           /\ LET loop == Tried(m, answer, posts) IN
              Become(m, IF answer \in Accepted(send[m].to)
                        THEN [loop EXCEPT !.at = "ended", !.outcome = "sent"]
                        ELSE AfterFailure(m, loop))
    /\ UNCHANGED <<work, open, hooked>>

\* The timer, or the end of the context; when both are there, either.
PauseEnds(m) ==
    /\ Sending(m, "pausing")
    /\ \/ Become(m, [send[m] EXCEPT !.at = "ready"])
       \/ ~Live(m) /\ Become(m, EndLoop(m, "cancelled"))
    /\ UNCHANGED <<work, open, hooked>>

SendStep(m) == Load(m) \/ StartAttempt(m) \/ Attempt(m) \/ PauseEnds(m)

\* The process exits: nothing waits for these goroutines.
Exit ==
    /\ \E m \in Messages : send[m].at \notin {"none", "ended", "gone"}
    /\ send' = [m \in Messages |->
                  IF Sending(m, "ended") THEN send[m] ELSE [send[m] EXCEPT !.at = "gone"]]
    /\ work' = [m \in Messages |-> [work[m] EXCEPT !.at = "ended"]]
    /\ open' = [m \in Messages |-> FALSE]
    /\ UNCHANGED hooked

NotifierNext ==
    \/ \E m \in Messages :
           \/ Begin(m) \/ TurnAway(m) \/ Acknowledge(m) \/ ProcessEvent(m)
           \/ NotifyAsync(m) \/ NotifyAndWait(m) \/ StopWaiting(m) \/ Finish(m)
           \/ HandlerReturns(m) \/ ContextEnds(m)
           \/ SendStep(m)
    \/ SetWebhookURL
    \/ Exit

NotifierSpec == NotifierInit /\ [][NotifierNext]_notifierVars

\* Timers fire, and the HTTP client gives a request ten seconds.
NotifierFairSpec == NotifierSpec /\ \A m \in Messages : WF_notifierVars(SendStep(m))

---------------------------------------------------------------------------
(* Properties                                                              *)

\* A message that was accepted for sending and was not sent either failed
\* maxRetries times, or its context had ended, or the process has; and one
\* that counts as sent was posted, unless Slack refused it without saying why.
LostForCause ==
    \A m \in Messages : Sending(m, "ended") =>
        /\ send[m].outcome = "cancelled" => ~Live(m)
        /\ send[m].outcome = "failed" => send[m].attempt = maxRetries
        /\ send[m].outcome = "sent" =>
               send[m].posts > 0 \/ "refused silently" \in send[m].heard

\* A message stands twice in its channel only when an answer was lost, had a
\* status that is no success, or could not be read: never after a success.
PostedTwiceInDoubt ==
    \A m \in Messages :
        send[m].posts > 1 =>
            \E answer \in send[m].heard : Doubtful(answer) \/ answer = "unreadable"

\* Every message handed to a notifier comes to an end, whatever becomes of
\* the work that sent it and of the platform.
SendingEnds ==
    \A m \in Messages :
        (send[m].at \in {"starting", "ready", "posting", "pausing"})
            ~> (send[m].at \in {"ended", "gone"})

===========================================================================
