---------------------------- MODULE MCRubyStore ----------------------------
(***************************************************************************)
(* A small instance of RubyStore: one thread of the web process, one       *)
(* webhook and one fault, and beside them a second of one of the three.    *)
(***************************************************************************)
EXTENDS RubyStore

CONSTANTS t1, t2, h1, h2   \* threads and webhooks; the two of a kind are alike

\* A webhook somebody has registered or is registering.
Touched(h) ==
    \/ hooks[h] # "none" \/ job[h].at # "none"
    \/ \E t \in Threads : at[t].step \in {"insert", "enqueue"} /\ at[t].hook = h

\* The bound.  With a second thread at work there is one fault at most, one
\* webhook, which that thread does not register, and no job in Redis; with a
\* second webhook there is no fault.  Of two that are alike the first begins.
Small ==
    /\ at[t2] # NoRequest =>
         /\ faults <= 1
         /\ ~Touched(h2)
         /\ at[t2].step \notin {"insert", "enqueue"}
         /\ \A h \in Hooks : job[h].at = "none"
    /\ Touched(h2) => Touched(h1) /\ faults = 0

\* The bound holds back requests, jobs and faults.  No step that the fairness
\* is about needs any of them.
SmallNext ==
    \/ \E p \in Processes :
        \/ StartProcess(p) \/ Boot(p)
        \/ BootFails(p) /\ Small'
        \/ BootResultLost(p) /\ Small'
    \/ \E t \in Threads :
        \/ StartCreate(t) /\ Small'
        \/ StartAuthorize(t) /\ Small'
        \/ StartWebhook(t) /\ Small'
        \/ Handle(t) /\ Small'
        \/ StatementFails(t) /\ Small'
        \/ EnqueueFails(t) /\ Small'
    \/ \E h \in Hooks : Work(h) \/ (PerformFails(h) /\ Small')
    \/ DatabaseRestarts /\ Small'
    \/ KillWeb /\ Small'
    \/ KillSidekiq /\ Small'

SmallSpec == StoreInit /\ [][SmallNext]_storeVars /\ Fairness

============================================================================
