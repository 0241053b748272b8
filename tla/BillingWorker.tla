---------------------------- MODULE BillingWorker ----------------------------
(***************************************************************************)
(* The Python billing SDK (sdk/python/billing_sdk.py) in an application of *)
(* several threads: an asynchronous BillingSDK, whose events go through a  *)
(* queue.Queue to a worker thread that posts them in batches, and a        *)
(* synchronous one, whose calls post before they return.                   *)
(*                                                                         *)
(* flush and close wait on Queue.join: until as many events were marked    *)
(* done as were put.  The worker marks a batch done when it was accepted   *)
(* and also when it gives the batch up.  close sets the stop event; the    *)
(* worker looks at it between two batches, drains the queue and is gone,   *)
(* while enqueue never looks at it.                                        *)
(***************************************************************************)
EXTENDS Naturals, Sequences, FiniteSets, Functions

CONSTANTS
  Callers,        \* threads that use the SDK
  Events,         \* usage events; each is emitted once (bound)
  Invalid,        \* those _validate_event refuses
  BatchSize,      \* batch_size
  WorkerRetries,  \* max_retries of the worker: _with_retry's default
  CallRetries     \* max_retries of the synchronous SDK

ASSUME BillingConstants ==
  /\ Invalid \subseteq Events
  /\ BatchSize \in Nat \ {0}
  /\ WorkerRetries \in Nat /\ CallRetries \in Nat

VARIABLES
  queue,       \* _q
  unfinished,  \* _q.unfinished_tasks, what Queue.join waits on
  stopping,    \* _stop_event
  worker,      \* where run() is, the batch in its hands, failed attempts at it
  job,         \* the call each thread is in, or has returned from
  unused,      \* events not emitted yet (auxiliary: each is emitted once)
  received,    \* events the billing API has
  lost,        \* how the worker gave an event up, if it did (auxiliary)
  put,         \* events put into the queue, in that order (auxiliary)
  settled,     \* events marked done, in that order (auxiliary)
  late         \* events put when the stop event was set (auxiliary)

vars == <<queue, unfinished, stopping, worker, job, unused, received, lost,
          put, settled, late>>

-----------------------------------------------------------------------------

Loop == {"head", "collect", "sending"}   \* while not stop
Exit == {"drain", "lastSend", "exited"}  \* after it

\* "unreachable" stands for every failure without an HTTP status: refused or
\* reset connections, timeouts, an answer that is not JSON.
Reasons == {"refused", "exhausted", "unreachable"}

Outcomes == {"accepted", "again"} \cup Reasons

Worker == [at : Loop \cup Exit, batch : Seq(Events), tries : 0..WorkerRetries]

IdleJob    == [at : {"idle"}]
EmitJob    == [at : {"emitting"}, rest : Seq(Events)]
CallJob    == [at : {"posting"}, events : SUBSET Events, tries : 0..CallRetries]
JoinJob    == [at : {"joining"}, owed : SUBSET Events]
ReturnJob  == [at : {"flushed"}, owed : SUBSET Events]
              \cup [at : {"accepted"}, events : SUBSET Events]
              \cup [at : {"returned", "raised"}]
Job        == IdleJob \cup EmitJob \cup CallJob \cup JoinJob \cup ReturnJob

TypeOK ==
  /\ queue \in Seq(Events)
  /\ unfinished \in Nat
  /\ stopping \in BOOLEAN
  /\ worker \in Worker
  /\ job \in [Callers -> Job]
  /\ unused \in SUBSET Events
  /\ received \in SUBSET Events
  /\ lost \in [Events -> Reasons \cup {"no"}]
  /\ put \in Seq(Events) /\ settled \in Seq(Events)
  /\ late \in SUBSET Events

Idle == [at |-> "idle"]

Init ==
  /\ queue = <<>> /\ unfinished = 0
  /\ stopping = FALSE
  /\ worker = [at |-> "head", batch |-> <<>>, tries |-> 0]
  /\ job = [c \in Callers |-> Idle]
  /\ unused = Events
  /\ received = {}
  /\ lost = [e \in Events |-> "no"]
  /\ put = <<>> /\ settled = <<>> /\ late = {}

In(c, step) == job[c].at = step

Return(c, how) == job' = [job EXCEPT ![c] = how]

auxPut == <<put, late>>

-----------------------------------------------------------------------------
(* One attempt at a POST, and _with_retry around it *)

\* Slip: one retry too many.
SlipOneMore(tries, limit) == tries <= limit

MayRetry(tries, limit) == tries < limit

\* Slip: the last attempt returns, and what it returns is no failure.
SlipNoRaise == "accepted"

\* The last attempt raises what it caught.
Exhaust == "exhausted"

\* The API takes the events, refuses them (4xx) or fails (5xx); or nothing
\* comes back.  A failure does not say whether the events were recorded.
\* Only HTTPError becomes the RuntimeError that _with_retry retries.
Attempt(events, tries, limit, outcome) ==
  \/ outcome = "accepted" /\ received' = received \cup events
  \/ outcome = "refused" /\ UNCHANGED received
  \/ /\ outcome \in {IF MayRetry(tries, limit) THEN "again" ELSE Exhaust, "unreachable"}
     /\ received' \in {received, received \cup events}

-----------------------------------------------------------------------------
(* Calls on the asynchronous SDK *)

Batches == {<<e>> : e \in unused}
           \cup {<<e, f>> : e \in unused, f \in unused}

\* emit, or emit_batch, which emits one event after the other.
StartEmit(c) ==
  /\ In(c, "idle")
  /\ \E s \in Batches :
       /\ Cardinality(Range(s)) = Len(s)
       /\ Return(c, [at |-> "emitting", rest |-> s])
       /\ unused' = unused \ Range(s)
  /\ UNCHANGED <<queue, unfinished, stopping, worker, received, lost, settled, auxPut>>

\* _validate_event and enqueue of the next one.  The ones before an event
\* that fails validation stay in the queue, the ones after it are not put.
Put(c) ==
  LET e == Head(job[c].rest) IN
  /\ In(c, "emitting")
  /\ IF e \in Invalid
     THEN /\ Return(c, [at |-> "raised"])
          /\ UNCHANGED <<queue, unfinished, auxPut>>
     ELSE /\ queue' = Append(queue, e)
          /\ unfinished' = unfinished + 1
          /\ put' = Append(put, e)
          /\ late' = IF stopping THEN late \cup {e} ELSE late
          /\ IF Len(job[c].rest) = 1 THEN Return(c, [at |-> "returned"])
             ELSE job' = [job EXCEPT ![c].rest = Tail(@)]
  /\ UNCHANGED <<stopping, worker, unused, received, lost, settled>>

\* Events put and not marked done.
Owed == Range(worker.batch) \cup Range(queue)

Flush(c) ==
  /\ In(c, "idle")
  /\ Return(c, [at |-> "joining", owed |-> Owed])
  /\ UNCHANGED <<queue, unfinished, stopping, worker, unused, received, lost,
                 settled, auxPut>>

\* close: stop() sets the event and joins.
Close(c) ==
  /\ In(c, "idle")
  /\ stopping' = TRUE
  /\ Return(c, [at |-> "joining", owed |-> Owed])
  /\ UNCHANGED <<queue, unfinished, worker, unused, received, lost, settled, auxPut>>

\* Slip: joins on the queue being empty, as its comment says.
SlipQueueEmpty == queue = <<>>

AllDone == unfinished = 0

\* Queue.join returns.
Join(c) ==
  /\ In(c, "joining")
  /\ AllDone
  /\ Return(c, [at |-> "flushed", owed |-> job[c].owed])
  /\ UNCHANGED <<queue, unfinished, stopping, worker, unused, received, lost,
                 settled, auxPut>>

-----------------------------------------------------------------------------
(* Calls on the synchronous SDK *)

\* emit or emit_batch: every event is validated before anything is sent.
StartPost(c) ==
  /\ In(c, "idle")
  /\ \E s \in Batches :
       /\ unused' = unused \ Range(s)
       /\ IF Range(s) \cap Invalid # {} THEN Return(c, [at |-> "raised"])
          ELSE Return(c, [at |-> "posting", events |-> Range(s), tries |-> 0])
  /\ UNCHANGED <<queue, unfinished, stopping, worker, received, lost, settled, auxPut>>

PostOnce(c) ==
  /\ In(c, "posting")
  /\ \E outcome \in Outcomes :
       /\ Attempt(job[c].events, job[c].tries, CallRetries, outcome)
       /\ \/ outcome = "accepted" /\ Return(c, [at |-> "accepted", events |-> job[c].events])
          \/ outcome = "again" /\ job' = [job EXCEPT ![c].tries = @ + 1]
          \/ outcome \in Reasons /\ Return(c, [at |-> "raised"])
  /\ UNCHANGED <<queue, unfinished, stopping, worker, unused, lost, settled, auxPut>>

\* The thread goes on to its next call.
NextCall(c) ==
  /\ job[c].at \in {"flushed", "accepted", "returned", "raised"}
  /\ Return(c, Idle)
  /\ UNCHANGED <<queue, unfinished, stopping, worker, unused, received, lost,
                 settled, auxPut>>

-----------------------------------------------------------------------------
(* The worker thread *)

WorkerAt(step) == worker.at = step

GoOn(step) == worker' = [worker EXCEPT !.at = step]

\* while not self._stop_event.is_set()
LoopHead ==
  /\ WorkerAt("head")
  /\ GoOn(IF stopping THEN "drain" ELSE "collect")
  /\ UNCHANGED <<queue, unfinished, stopping, job, unused, received, lost,
                 settled, auxPut>>

Take ==
  /\ queue' = Tail(queue)
  /\ worker' = [worker EXCEPT !.batch = Append(@, Head(queue))]

Get ==
  /\ WorkerAt("collect")
  /\ Len(worker.batch) < BatchSize
  /\ queue # <<>>
  /\ Take
  /\ UNCHANGED <<unfinished, stopping, job, unused, received, lost, settled, auxPut>>

\* The batch is full or the flush interval over, whatever is in the queue;
\* with nothing collected, the last get has just found the queue empty.
Collected ==
  /\ WorkerAt("collect")
  /\ worker.batch = <<>> => queue = <<>>
  /\ GoOn(IF worker.batch = <<>> THEN "head" ELSE "sending")
  /\ UNCHANGED <<queue, unfinished, stopping, job, unused, received, lost,
                 settled, auxPut>>

\* Slip: the worker leaves without draining the queue.
SlipNoDrain == WorkerAt("drain") /\ GoOn("exited") /\ UNCHANGED queue

\* The rest of the queue, in one batch of any size.
DrainQueue ==
  /\ WorkerAt("drain")
  /\ \/ queue # <<>> /\ Take
     \/ /\ queue = <<>>
        /\ GoOn(IF worker.batch = <<>> THEN "exited" ELSE "lastSend")
        /\ UNCHANGED queue

Drain ==
  /\ DrainQueue
  /\ UNCHANGED <<unfinished, stopping, job, unused, received, lost, settled, auxPut>>

\* Slip: task_done once per batch.
SlipDoneOnce == unfinished' = unfinished - 1

\* task_done for every event of the batch.
MarkDone == unfinished' = unfinished - Len(worker.batch)

\* The batch is out of the worker's hands.
LetGo(next) ==
  /\ worker' = [at |-> next, batch |-> <<>>, tries |-> 0]
  /\ settled' = settled \o worker.batch

\* _send_batch: one attempt.  Accepted or given up, the batch is marked done
\* (finally), and the worker goes back to its loop or is gone.
Send ==
  /\ worker.at \in {"sending", "lastSend"}
  /\ \E outcome \in Outcomes :
       /\ Attempt(Range(worker.batch), worker.tries, WorkerRetries, outcome)
       /\ IF outcome = "again"
          THEN /\ worker' = [worker EXCEPT !.tries = @ + 1]
               /\ UNCHANGED <<unfinished, lost, settled>>
          ELSE /\ MarkDone
               /\ LetGo(IF WorkerAt("sending") THEN "head" ELSE "exited")
               /\ lost' = [e \in Events |->
                            IF e \in Range(worker.batch) /\ outcome \in Reasons
                            THEN outcome ELSE lost[e]]
  /\ UNCHANGED <<queue, stopping, job, unused, auxPut>>

WorkerStep == LoopHead \/ Get \/ Collected \/ Drain \/ Send

\* What a thread does by itself inside a call.
CallStep(c) == Put(c) \/ Join(c) \/ PostOnce(c)

ClientStep(c) == StartEmit(c) \/ Flush(c) \/ Close(c) \/ StartPost(c) \/ NextCall(c)

Next ==
  \/ \E c \in Callers : CallStep(c) \/ ClientStep(c)
  \/ WorkerStep

Spec == Init /\ [][Next]_vars

\* The interpreter schedules every thread, waits on the queue and sleeps
\* between attempts end, and an attempt ends by its timeout at the latest.
FairSpec == Spec /\ WF_vars(WorkerStep) /\ \A c \in Callers : WF_vars(CallStep(c))

-----------------------------------------------------------------------------
(* Properties *)

\* Nothing is lost, doubled or reordered between enqueue and task_done: what
\* was put is what was marked done, then the batch in the worker's hands,
\* then the queue; and join counts exactly the last two.
EventsConserved ==
  /\ put = settled \o worker.batch \o queue
  /\ unfinished = Len(worker.batch) + Len(queue)

\* The worker implements EventQueue: events leave once, and flush and close
\* return only when every event put before them was accepted or given up, the
\* ones in the worker's hands included.  FlushedMeansDelivered is about what
\* billing_sdk.py:315 says beyond that.
Promise == INSTANCE EventQueue WITH
  open <- Owed,
  gone <- Range(settled),
  waits <- [c \in Callers |->
              IF In(c, "joining") THEN [for |-> job[c].owed, waiting |-> TRUE]
              ELSE [for |-> {}, waiting |-> FALSE]]

ImplementsEventQueue == Promise!Spec

\* A synchronous call that returns a response has its events recorded, also
\* after failed attempts.
AcceptedMeansReceived ==
  \A c \in Callers : In(c, "accepted") => job[c].events \subseteq received

\* No event put after close was called has missed the worker.
NobodyLate == WorkerAt("exited") => Range(queue) \cap late = {}

\* "Block until all async-queued events have been delivered" (billing_sdk.py:315):
\* when flush or close returns, the API has every event put before the call,
\* but for those it refused and, with "Retry attempts on transient failures"
\* (235), those of which all attempts failed.  _send_batch marks whatever it
\* gives up done, and a failure without an HTTP status is given up at once.
FlushedMeansDelivered ==
  \A c \in Callers : In(c, "flushed") =>
    \A e \in job[c].owed : e \in received \/ lost[e] \in {"refused", "exhausted"}

\* flush and close return, whatever the API does and wherever the worker is
\* when close is called, so nothing put before close is left behind; unless
\* another thread puts an event after that and after the worker has looked at
\* the queue for the last time.
FlushReturns ==
  []NobodyLate => \A c \in Callers : In(c, "joining") ~> In(c, "flushed")

============================================================================
