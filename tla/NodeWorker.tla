----------------------------- MODULE NodeWorker -----------------------------
(***************************************************************************)
(* The Node.js billing SDK (sdk/nodejs/billing_sdk.js) in asynchronous     *)
(* mode.  There is one thread: an async function runs from one await to    *)
(* the next without interruption, and timers and network answers are       *)
(* served only when no such function can go on.  Batches are posted at the *)
(* same time as each other and end in any order.  The worker's timer is    *)
(* unref'd: it does not keep the process alive.                            *)
(***************************************************************************)
EXTENDS Naturals, Sequences, FiniteSets, SequencesExt

CONSTANTS
    Callers,     \* asynchronous functions of the application
    Events,      \* usage events; each is emitted once (bound)
    Invalid,     \* those validateEvent refuses
    batchSize,   \* batchSize
    maxRetries   \* withRetry's default, 4 in the code

ASSUME NodeWorkerAssumption ==
    /\ Invalid \subseteq Events
    /\ batchSize \in Nat \ {0}
    /\ maxRetries \in Nat

VARIABLES
    queue,      \* _queue
    pending,    \* _pending
    stopped,    \* _stopped, the timer being cleared
    flying,     \* batches being posted, with the attempts that failed
    hung,       \* events whose post neither resolves nor rejects
    job,        \* the call each function is in
    held,       \* the application holds a handle that keeps the process alive
    exited,     \* the process has ended
    unused,     \* events not emitted yet (auxiliary)
    settled,    \* events whose batch was accepted or given up (auxiliary)
    late        \* events put after stop (auxiliary)

vars == <<queue, pending, stopped, flying, hung, job, held, exited, unused, settled, late>>

Idle == [step |-> "idle"]

Jobs == {Idle} \cup [step : {"emitting"}, rest : Seq(Events)]
               \cup [step : {"draining"}, owed : SUBSET Events]

Flights == [events : SUBSET Events, tries : 0..maxRetries]

\* Type invariant; no batch is tried again after its last attempt.
TypeOK ==
    /\ queue \in Seq(Events)
    /\ pending \in Nat
    /\ stopped \in BOOLEAN /\ held \in BOOLEAN /\ exited \in BOOLEAN
    /\ flying \subseteq Flights
    /\ hung \subseteq Events
    /\ job \in [Callers -> Jobs]
    /\ unused \subseteq Events /\ settled \subseteq Events /\ late \subseteq Events

Init ==
    /\ queue = <<>> /\ pending = 0
    /\ stopped = FALSE
    /\ flying = {} /\ hung = {}
    /\ job = [c \in Callers |-> Idle]
    /\ held = TRUE /\ exited = FALSE
    /\ unused = Events
    /\ settled = {} /\ late = {}

\* Asynchronous functions that can go on: they do before anything else.
Runnable == \E c \in Callers : job[c].step = "emitting"

---------------------------------------------------------------------------
(* The queue and its batches.                                              *)

\* _flush, given the queue: its first batchSize events take off together.
Take(q) == IF Len(q) < batchSize THEN q ELSE SubSeq(q, 1, batchSize)

TakeOff(q) ==
    /\ queue' = SubSeq(q, Len(Take(q)) + 1, Len(q))
    /\ flying' = IF q = <<>> THEN flying
                 ELSE flying \cup {[events |-> ToSet(Take(q)), tries |-> 0]}

\* enqueue flushes when the batch is full.
Leaves(q) == Len(q) >= batchSize

Enqueue(e) ==
    /\ IF Leaves(Append(queue, e)) THEN TakeOff(Append(queue, e))
       ELSE queue' = Append(queue, e) /\ UNCHANGED flying
    /\ pending' = pending + 1

---------------------------------------------------------------------------
(* Calls of the application's functions.                                   *)

Batches == {<<e>> : e \in unused}
           \cup {<<p[1], p[2]>> : p \in {q \in unused \X unused : q[1] # q[2]}}

\* emit, or emitBatch, which awaits one emit after the other.
StartEmit(c) ==
    /\ ~exited
    /\ job[c] = Idle
    /\ \E s \in Batches :
        /\ job' = [job EXCEPT ![c] = [step |-> "emitting", rest |-> s]]
        /\ unused' = unused \ ToSet(s)
    /\ UNCHANGED <<queue, pending, stopped, flying, hung, held, exited, settled, late>>

\* The call after one event more.
RestOf(c) ==
    IF Len(job[c].rest) = 1 THEN Idle
    ELSE [job[c] EXCEPT !.rest = Tail(job[c].rest)]

\* An event that fails validation rejects the call; the ones before it stay.
Put(c) ==
    /\ job[c].step = "emitting"
    /\ LET e == Head(job[c].rest) IN
       IF e \in Invalid
       THEN /\ job' = [job EXCEPT ![c] = Idle]
            /\ UNCHANGED <<queue, pending, flying, late>>
       ELSE /\ Enqueue(e)
            /\ late' = IF stopped THEN late \cup {e} ELSE late
            /\ job' = [job EXCEPT ![c] = RestOf(c)]
    /\ UNCHANGED <<stopped, hung, held, exited, unused, settled>>

\* Events put whose batch has not ended.
Owed == ToSet(queue) \cup (UNION {b.events : b \in flying}) \cup hung

\* drain returns at once when nothing is pending, or leaves its callback.
Drain(c) ==
    job' = [job EXCEPT ![c] = IF pending = 0 THEN Idle
                              ELSE [step |-> "draining", owed |-> Owed]]

Flush(c) ==
    /\ ~exited
    /\ job[c] = Idle
    /\ Drain(c)
    /\ UNCHANGED <<queue, pending, stopped, flying, hung, held, exited, unused, settled, late>>

\* Slip: stop forgets the last, unfilled batch.
SlipSendNothing == UNCHANGED <<queue, flying>>

SendRest == TakeOff(queue)

\* close: stop() clears the timer, flushes one batch and drains.
Close(c) ==
    /\ ~exited
    /\ job[c] = Idle
    /\ stopped' = TRUE
    /\ SendRest
    /\ Drain(c)
    /\ UNCHANGED <<pending, hung, held, exited, unused, settled, late>>

---------------------------------------------------------------------------
(* Timers and network.                                                     *)

\* The interval is over: flush, and schedule again.
Timer ==
    /\ ~exited /\ ~Runnable
    /\ ~stopped
    /\ queue # <<>>
    /\ TakeOff(queue)
    /\ UNCHANGED <<pending, stopped, hung, job, held, exited, unused, settled, late>>

\* Slip: every batch is taken for a full one.
SlipCount(b) == batchSize

Count(b) == Cardinality(b.events)

\* Slip: the queue is looked at and not the count.
SlipDrained(b) == queue = <<>>

Drained(b) == pending <= Count(b)

\* finally: the batch is counted, and at zero every drain callback is called.
Land(b) ==
    /\ flying' = flying \ {b}
    /\ settled' = settled \cup b.events
    /\ pending' = IF pending > Count(b) THEN pending - Count(b) ELSE 0
    /\ job' = IF Drained(b)
              THEN [c \in Callers |-> IF job[c].step = "draining" THEN Idle ELSE job[c]]
              ELSE job

MayRetry(b) == b.tries < maxRetries

\* An attempt is accepted, refused (4xx), or fails in any other way; withRetry
\* tries again after the last kind until maxRetries attempts have failed.
Answer(b) ==
    /\ ~exited /\ ~Runnable
    /\ b \in flying
    /\ UNCHANGED <<queue, stopped, hung, held, exited, unused, late>>
    /\ \/ Land(b)
       \/ /\ MayRetry(b)
          /\ flying' = (flying \ {b}) \cup {[b EXCEPT !.tries = @ + 1]}
          /\ UNCHANGED <<pending, job, settled>>

\* The connection ends after the headers and before the body has: neither "end"
\* nor the request's "error" comes (the response's is not listened to), so
\* httpPost's promise stays as it is, and nothing waits on the network for it.
CutShort(b) ==
    /\ ~exited /\ ~Runnable
    /\ b \in flying
    /\ flying' = flying \ {b}
    /\ hung' = hung \cup b.events
    /\ UNCHANGED <<queue, pending, stopped, job, held, exited, unused, settled, late>>

---------------------------------------------------------------------------
(* The process.                                                            *)

\* The application closes its last server, timer or stream.
LetGo ==
    /\ ~exited /\ held
    /\ held' = FALSE
    /\ UNCHANGED <<queue, pending, stopped, flying, hung, job, exited, unused, settled, late>>

\* Nothing keeps the process: no request, no pause between attempts, no handle
\* of the application's.  Promises that wait and the unref'd timer do not.
Exit ==
    /\ ~exited /\ ~held /\ ~Runnable
    /\ flying = {}
    /\ exited' = TRUE
    /\ UNCHANGED <<queue, pending, stopped, flying, hung, job, held, unused, settled, late>>

Next ==
    \/ \E c \in Callers : StartEmit(c) \/ Put(c) \/ Flush(c) \/ Close(c)
    \/ Timer
    \/ \E b \in flying : Answer(b) \/ CutShort(b)
    \/ LetGo
    \/ Exit

\* The event loop runs what is ready; an attempt ends by its timeout at the
\* latest.  Calls, and the end of the application's handles, are not promised.
Spec ==
    /\ Init /\ [][Next]_vars
    /\ WF_vars(\E c \in Callers : Put(c))
    /\ WF_vars(Timer)
    /\ WF_vars(\E b \in flying : Answer(b))

---------------------------------------------------------------------------
(* Properties.                                                             *)

\* _pending counts exactly the events that are queued or whose batch has not
\* ended, however batches overlap and end: drain waits for it to be zero.
CountIsExact ==
    pending = Len(queue) + Cardinality((UNION {b.events : b \in flying}) \cup hung)

\* The worker implements EventQueue: an event leaves once, and drain's callbacks
\* are called only when all that was put before has left, given up or accepted.
Queue == INSTANCE EventQueue WITH
    open <- Owed,
    gone <- settled,
    waits <- [c \in Callers |->
                IF job[c].step = "draining"
                THEN [for |-> job[c].owed, waiting |-> TRUE]
                ELSE [for |-> {}, waiting |-> FALSE]]

ImplementsEventQueue == Queue!Spec

\* No event put after stop stays in the queue.
NobodyLate == stopped => ToSet(queue) \cap late = {}

Returns(c) == job[c].step = "draining" ~> job[c] = Idle

\* flush and close return, in whatever order batches end and are tried again,
\* as long as the application keeps the process alive, every post ends, and
\* nobody puts an event after close.  The next property does without the first
\* two of these premises, which billing_sdk.js:328 does not make.
FlushReturns ==
    [](held /\ hung = {} /\ NobodyLate) => \A c \in Callers : Returns(c)

\* "Block until all async-queued events have been sent" (billing_sdk.js:328): a
\* function that waits in flush goes on, whatever else the application does and
\* however posts end.  It does not: the timer that would send the rest of the
\* queue is unref'd, a promise keeps no process alive, and a response that is
\* cut short leaves its batch counted for ever.
FlushWaitsForAll ==
    []NobodyLate => \A c \in Callers : Returns(c)

=============================================================================
