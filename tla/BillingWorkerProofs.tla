------------------------- MODULE BillingWorkerProofs -------------------------
(***************************************************************************)
(* What TLAPS proves of BillingWorker, for any set of events, any number   *)
(* of threads, any batch size and any number of retries.                   *)
(***************************************************************************)
EXTENDS BillingWorker, SequenceTheorems, FiniteSetTheorems, TLAPS

\* Each event is emitted once.
Distinct(s) == \A i, j \in 1..Len(s) : s[i] = s[j] => i = j

-----------------------------------------------------------------------------
(* Sequences of events.                                                    *)

\* The events of a sequence, by position.
LEMMA RangeIs ==
  ASSUME NEW s \in Seq(Events)
  PROVE  /\ Range(s) = {s[i] : i \in 1..Len(s)}
         /\ Range(s) \subseteq Events /\ Len(s) \in Nat
         /\ s # <<>> => Len(s) > 0 /\ s[1] \in Range(s)
         /\ Len(s) = 0 => s = <<>>
BY RangeEquality, RangeOfSeq, LenProperties, EmptySeq

\* An empty queue holds nothing.
LEMMA RangeEmpty == Range(<<>>) = {} /\ Distinct(<<>>)
<1>1. Range(<<>>) = {}
  BY DEF Range
<1>2. Distinct(<<>>)
  BY EmptySeq DEF Distinct
<1> QED BY <1>1, <1>2

\* Concatenation, as a name that the provers leave alone.
Chain(a, b) == a \o b

\* Two sequences in a row without repetition.
LEMMA InARow ==
  ASSUME NEW a \in Seq(Events), NEW b \in Seq(Events)
  PROVE  /\ Chain(a, b) \in Seq(Events) /\ Len(Chain(a, b)) = Len(a) + Len(b)
         /\ Range(Chain(a, b)) = Range(a) \cup Range(b)
         /\ Distinct(Chain(a, b)) => /\ Distinct(a) /\ Distinct(b)
                                /\ Range(a) \cap Range(b) = {}
         /\ Distinct(a) /\ Distinct(b) /\ Range(a) \cap Range(b) = {} => Distinct(Chain(a, b))
<1>1. PICK r : r = Chain(a, b)
  OBVIOUS
<1>2. /\ Len(a) \in Nat /\ Len(b) \in Nat
      /\ r \in Seq(Events) /\ Len(r) = Len(a) + Len(b)
      /\ \A i \in 1..(Len(a) + Len(b)) : r[i] = IF i <= Len(a) THEN a[i] ELSE b[i - Len(a)]
  BY <1>1, ConcatProperties, LenProperties DEF Chain
<1>3. Range(r) = Range(a) \cup Range(b)
  BY <1>1, RangeConcatenation DEF Chain
<1>4. /\ Range(a) = {a[i] : i \in 1..Len(a)} /\ Range(b) = {b[i] : i \in 1..Len(b)}
  BY RangeIs
<1>5. /\ \A i \in 1..Len(a) : i \in 1..Len(r) /\ r[i] = a[i]
      /\ \A i \in 1..Len(b) : Len(a) + i \in 1..Len(r) /\ r[Len(a) + i] = b[i]
  <2>1. \A i \in 1..Len(a) : i \in 1..Len(r) /\ r[i] = a[i]
    BY <1>2
  <2>2. ASSUME NEW i \in 1..Len(b)
        PROVE  Len(a) + i \in 1..Len(r) /\ r[Len(a) + i] = b[i]
    <3>1. /\ Len(a) + i \in 1..(Len(a) + Len(b))
          /\ ~(Len(a) + i <= Len(a)) /\ (Len(a) + i) - Len(a) = i
      BY <1>2
    <3> QED BY <1>2, <3>1
  <2> QED BY <2>1, <2>2
<1>6. ASSUME Distinct(r)
      PROVE  Distinct(a) /\ Distinct(b) /\ Range(a) \cap Range(b) = {}
  <2>1. Distinct(a)
    BY <1>2, <1>5, <1>6 DEF Distinct
  <2>2. ASSUME NEW i \in 1..Len(b), NEW j \in 1..Len(b), b[i] = b[j] PROVE i = j
    <3>1. Len(a) + i = Len(a) + j
      BY <1>5, <1>6, <2>2 DEF Distinct
    <3> QED BY <1>2, <3>1
  <2>3. ASSUME NEW i \in 1..Len(a), NEW j \in 1..Len(b) PROVE a[i] # b[j]
    <3>1. i # Len(a) + j
      BY <1>2
    <3> QED BY <1>5, <1>6, <3>1 DEF Distinct
  <2> QED BY <1>4, <2>1, <2>2, <2>3 DEF Distinct
<1>7. ASSUME Distinct(a), Distinct(b), Range(a) \cap Range(b) = {}
      PROVE  Distinct(r)
  <2> SUFFICES ASSUME NEW i \in 1..Len(r), NEW j \in 1..Len(r), r[i] = r[j] PROVE i = j
    BY DEF Distinct
  <2>1. \A k \in 1..Len(r) :
          \/ k \in 1..Len(a) /\ r[k] = a[k]
          \/ /\ k > Len(a) /\ k - Len(a) \in 1..Len(b)
             /\ r[k] = b[k - Len(a)]
    BY <1>2
  <2>2. CASE i \in 1..Len(a) /\ j \in 1..Len(a)
    BY <1>5, <1>7, <2>2 DEF Distinct
  <2>3. CASE i > Len(a) /\ j > Len(a)
    <3>1. /\ i - Len(a) \in 1..Len(b) /\ j - Len(a) \in 1..Len(b)
          /\ b[i - Len(a)] = b[j - Len(a)]
      BY <1>2, <2>1, <2>3
    <3>2. i - Len(a) = j - Len(a)
      BY <1>7, <3>1 DEF Distinct
    <3> QED BY <1>2, <3>2
  <2>4. ASSUME NEW k \in 1..Len(r), NEW l \in 1..Len(r), k \in 1..Len(a), l > Len(a)
        PROVE  r[k] # r[l]
    <3>1. r[k] \in Range(a)
      BY <1>4, <1>5, <2>4
    <3>2. r[l] \in Range(b)
      <4>1. l - Len(a) \in 1..Len(b) /\ r[l] = b[l - Len(a)]
        BY <1>2, <2>1, <2>4
      <4> QED BY <1>4, <4>1
    <3> QED BY <1>7, <3>1, <3>2
  <2>5. \/ i \in 1..Len(a) /\ j \in 1..Len(a)
        \/ i > Len(a) /\ j > Len(a)
    BY <2>1, <2>4
  <2> QED BY <2>2, <2>3, <2>5
<1> QED BY <1>1, <1>2, <1>3, <1>6, <1>7

\* A sequence of one event.
LEMMA OneEvent ==
  ASSUME NEW e \in Events
  PROVE  <<e>> \in Seq(Events) /\ <<e>> # <<>> /\ Len(<<e>>) = 1
         /\ Distinct(<<e>>) /\ Range(<<e>>) = {e}
<1>1. PICK s : s = <<e>>
  OBVIOUS
<1>2. s \in Seq(Events) /\ Len(s) = 1 /\ s[1] = e /\ s # <<>>
  BY <1>1
<1>3. Distinct(s) /\ Range(s) = {e}
  BY <1>2, RangeIs DEF Distinct
<1> QED BY <1>1, <1>2, <1>3

\* Head and Tail are the sequence.
LEMMA HeadFirst ==
  ASSUME NEW s \in Seq(Events), s # <<>>
  PROVE  /\ Head(s) \in Events /\ Tail(s) \in Seq(Events)
         /\ s = Chain(<<Head(s)>>, Tail(s)) /\ Len(s) = Len(Tail(s)) + 1
         /\ Range(s) = {Head(s)} \cup Range(Tail(s))
         /\ Distinct(s) => Distinct(Tail(s)) /\ Head(s) \notin Range(Tail(s))
<1>1. /\ Head(s) \in Events /\ Tail(s) \in Seq(Events) /\ Len(Tail(s)) = Len(s) - 1
      /\ \A i \in 1..Len(Tail(s)) : Tail(s)[i] = s[i + 1]
      /\ Len(s) \in Nat /\ Head(s) = s[1]
  BY HeadTailProperties, LenProperties
<1>2. PICK h, t : h = <<Head(s)>> /\ t = Tail(s)
  OBVIOUS
<1>3. /\ h \in Seq(Events) /\ Len(h) = 1 /\ Distinct(h) /\ Range(h) = {Head(s)}
      /\ h[1] = Head(s)
  BY <1>1, <1>2, OneEvent
<1>4. /\ Chain(h, t) \in Seq(Events) /\ Len(Chain(h, t)) = 1 + Len(t)
      /\ \A i \in 1..(1 + Len(t)) : Chain(h, t)[i] = IF i <= 1 THEN h[i] ELSE t[i - 1]
  BY <1>1, <1>2, <1>3, ConcatProperties DEF Chain
<1>5. s = Chain(h, t)
  <2>1. PICK r : r = Chain(h, t)
    OBVIOUS
  <2>2. r \in Seq(Events) /\ Len(s) = Len(r)
    BY <1>1, <1>2, <1>4, <2>1
  <2>3. \A i \in 1..Len(s) : s[i] = r[i]
    BY <1>1, <1>2, <1>3, <1>4, <2>1
  <2> QED BY <2>1, <2>2, <2>3, SeqEqual
<1>6. Range(s) = Range(h) \cup Range(t) /\ (Distinct(s) => Distinct(t) /\ Range(h) \cap Range(t) = {})
  <2>1. h \in Seq(Events) /\ t \in Seq(Events)
    BY <1>1, <1>2, <1>3
  <2>2. /\ Range(Chain(h, t)) = Range(h) \cup Range(t)
        /\ Distinct(Chain(h, t)) => Distinct(t) /\ Range(h) \cap Range(t) = {}
    BY <2>1, InARow
  <2> QED BY <1>5, <2>2
<1>7. Head(s) \in Range(h)
  BY <1>3
<1>8. Len(s) = Len(t) + 1
  BY <1>1, <1>2
<1> QED BY <1>1, <1>2, <1>3, <1>5, <1>6, <1>7, <1>8

\* Chaining stretches of events is associative.
LEMMA Associative ==
  ASSUME NEW s \in Seq(Events), NEW t \in Seq(Events), NEW u \in Seq(Events)
  PROVE  Chain(Chain(s, t), u) = Chain(s, Chain(t, u))
BY ConcatAssociative DEF Chain

\* Taking an event from the queue into the batch moves no event past another.
LEMMA Handed ==
  ASSUME NEW s \in Seq(Events), NEW b \in Seq(Events), NEW q \in Seq(Events), q # <<>>
  PROVE  LET b2 == Append(b, Head(q))
         IN  /\ b2 \in Seq(Events) /\ b2 # <<>> /\ Tail(q) \in Seq(Events)
             /\ Chain(Chain(s, b2), Tail(q)) = Chain(Chain(s, b), q)
             /\ Len(b2) + Len(Tail(q)) = Len(b) + Len(q)
             /\ Range(b2) \cup Range(Tail(q)) = Range(b) \cup Range(q)
<1>1. PICK h : h = <<Head(q)>>
  OBVIOUS
<1> DEFINE t == Tail(q)
           b2 == Append(b, Head(q))
<1>2. /\ h \in Seq(Events) /\ t \in Seq(Events) /\ q = Chain(h, t)
      /\ b2 = Chain(b, h) /\ b2 \in Seq(Events) /\ b2 # <<>>
  <2>1. Head(q) \in Events /\ t \in Seq(Events) /\ q = Chain(h, t)
    BY <1>1, HeadFirst
  <2>2. h \in Seq(Events)
    BY <1>1, <2>1, OneEvent
  <2>3. b2 = Chain(b, h)
    BY <1>1, <2>1, AppendIsConcat DEF Chain
  <2>4. b2 \in Seq(Events) /\ b2 # <<>>
    BY <2>1, AppendProperties
  <2> QED BY <2>1, <2>2, <2>3, <2>4
<1> HIDE DEF t, b2
<1>3. Chain(b2, t) = Chain(b, q)
  BY <1>2, Associative
<1>4. Chain(Chain(s, b2), t) = Chain(Chain(s, b), q)
  BY <1>2, <1>3, Associative
<1>5. Len(Chain(b2, t)) = Len(b2) + Len(t) /\ Len(Chain(b, q)) = Len(b) + Len(q)
      /\ Range(Chain(b2, t)) = Range(b2) \cup Range(t) /\ Range(Chain(b, q)) = Range(b) \cup Range(q)
  BY <1>2, InARow
<1> QED BY <1>2, <1>3, <1>4, <1>5 DEF t, b2

-----------------------------------------------------------------------------
(* Where the events are.                                                   *)

\* Events a call has still to put.
Own(c) == IF In(c, "emitting") THEN Range(job[c].rest) ELSE {}

\* Calls own what they have still to put, and nobody emits an event twice.
Apart ==
  /\ Range(put) \cap unused = {}
  /\ \A c \in Callers : Own(c) \cap (Range(put) \cup unused) = {}
  /\ \A c, d \in Callers : c # d => Own(c) \cap Own(d) = {}
  /\ \A c \in Callers : In(c, "emitting") => job[c].rest # <<>> /\ Distinct(job[c].rest)

\* The worker posts no empty batch.
BatchInHand == worker.at \in {"sending", "lastSend"} => worker.batch # <<>>

IInv ==
  /\ TypeOK /\ EventsConserved /\ AcceptedMeansReceived
  /\ Distinct(put) /\ Apart /\ BatchInHand

\* What a caller waits for, as EventQueue sees it.
Waits == [c \in Callers |->
            IF In(c, "joining") THEN [for |-> job[c].owed, waiting |-> TRUE]
            ELSE [for |-> {}, waiting |-> FALSE]]

\* What was put left, or is in the worker's hands, or in the queue, and not in
\* two of them.
LEMMA Places ==
  ASSUME TypeOK, EventsConserved
  PROVE  /\ worker.batch \in Seq(Events)
         /\ Range(put) = Range(settled) \cup Owed
         /\ Distinct(put) => /\ Range(settled) \cap Owed = {}
                             /\ Range(worker.batch) \cap Range(queue) = {}
         /\ Owed \subseteq Events
<1>1. /\ worker.batch \in Seq(Events) /\ queue \in Seq(Events) /\ settled \in Seq(Events)
  BY DEF TypeOK, Worker
<1>2. put = Chain(Chain(settled, worker.batch), queue)
  BY DEF EventsConserved, Chain
<1>3. PICK s : s = Chain(settled, worker.batch)
  OBVIOUS
<1>4. /\ s \in Seq(Events) /\ Range(s) = Range(settled) \cup Range(worker.batch)
      /\ Distinct(s) => Range(settled) \cap Range(worker.batch) = {}
  BY <1>1, <1>3, InARow
<1>5. /\ Range(put) = Range(s) \cup Range(queue)
      /\ Distinct(put) => Distinct(s) /\ Range(s) \cap Range(queue) = {}
  <2>1. put = Chain(s, queue)
    BY <1>2, <1>3
  <2> QED BY <1>1, <1>4, <2>1, InARow
<1>6. Owed \subseteq Events
  BY <1>1, RangeIs DEF Owed
<1> QED BY <1>1, <1>4, <1>5, <1>6 DEF Owed

\* What a caller carries, by the step it is in.
LEMMA JobIs ==
  ASSUME TypeOK, NEW c \in Callers
  PROVE  /\ job \in [Callers -> Job] /\ job[c] \in Job
         /\ In(c, "idle") => job[c] = Idle
         /\ In(c, "emitting") => job[c] \in EmitJob
         /\ In(c, "posting") => job[c] \in CallJob
         /\ In(c, "joining") => job[c] \in JoinJob
         /\ Own(c) \subseteq Events
<1>1. job \in [Callers -> Job] /\ job[c] \in Job
  BY DEF TypeOK
<1>2. /\ In(c, "idle") => job[c] = Idle
      /\ In(c, "emitting") => job[c] \in EmitJob
      /\ In(c, "posting") => job[c] \in CallJob
      /\ In(c, "joining") => job[c] \in JoinJob
  BY <1>1 DEF Job, IdleJob, EmitJob, CallJob, JoinJob, ReturnJob, In, Idle
<1>3. Own(c) \subseteq Events
  BY <1>2, RangeIs DEF Own, EmitJob
<1> QED BY <1>1, <1>2, <1>3

\* Every step a caller may go on to is a job.
LEMMA Jobs ==
  /\ Idle \in Job /\ Idle.at = "idle"
  /\ \A r \in Seq(Events) : [at |-> "emitting", rest |-> r] \in Job
  /\ \A E \in SUBSET Events : /\ [at |-> "joining", owed |-> E] \in Job
                              /\ [at |-> "flushed", owed |-> E] \in Job
                              /\ [at |-> "accepted", events |-> E] \in Job
                              /\ [at |-> "posting", events |-> E, tries |-> 0] \in Job
  /\ [at |-> "returned"] \in Job /\ [at |-> "raised"] \in Job
<1>1. Idle \in Job /\ Idle.at = "idle"
  BY DEF Job, IdleJob, Idle
<1>2. \A r \in Seq(Events) : [at |-> "emitting", rest |-> r] \in Job
  BY DEF Job, EmitJob
<1>3. ASSUME NEW E \in SUBSET Events
      PROVE  /\ [at |-> "joining", owed |-> E] \in Job
             /\ [at |-> "flushed", owed |-> E] \in Job
             /\ [at |-> "accepted", events |-> E] \in Job
  BY DEF Job, JoinJob, ReturnJob
<1>4. ASSUME NEW E \in SUBSET Events
      PROVE  [at |-> "posting", events |-> E, tries |-> 0] \in Job
  BY BillingConstants DEF Job, CallJob
<1>5. [at |-> "returned"] \in Job /\ [at |-> "raised"] \in Job
  BY DEF Job, ReturnJob
<1> QED BY <1>1, <1>2, <1>3, <1>4, <1>5

\* Nobody starts, ends or goes on with a call that puts events.
SamePuts ==
  \A c \in Callers :
    \/ job'[c] = job[c]
    \/ job[c].at # "emitting" /\ job'[c].at # "emitting"

\* A step that gives no event away leaves every event in one place.
LEMMA SamePlaces ==
  ASSUME Apart, SamePuts, put' = put, unused' \subseteq unused
  PROVE  Apart'
<1>1. \A c \in Callers : Own(c)' = Own(c)
  BY DEF SamePuts, Own, In
<1> QED BY <1>1 DEF Apart, SamePuts, In

\* Nobody starts or ends to wait.
SameWaits ==
  \A c \in Callers :
    \/ job'[c] = job[c]
    \/ job[c].at # "joining" /\ job'[c].at # "joining"

\* Then the same events are waited for.
LEMMA SameWaiting == ASSUME SameWaits PROVE Waits' = Waits
BY DEF SameWaits, Waits, In

\* A step of a caller c: the others are where they were.
LEMMA OneJob ==
  ASSUME TypeOK, NEW c \in Callers, NEW new \in Job, Return(c, new)
  PROVE  /\ job' \in [Callers -> Job] /\ job'[c] = new
         /\ \A d \in Callers : d # c => job'[d] = job[d]
         /\ ~In(c, "emitting") /\ new.at # "emitting" => SamePuts
         /\ ~In(c, "joining") /\ new.at # "joining" => SameWaits
<1>1. job \in [Callers -> Job]
  BY DEF TypeOK
<1>2. /\ job' \in [Callers -> Job] /\ job'[c] = new
      /\ \A d \in Callers : d # c => job'[d] = job[d]
  BY <1>1 DEF Return
<1> QED BY <1>2 DEF SamePuts, SameWaits, In

\* What a synchronous call that was accepted has recorded stays recorded.
LEMMA Recorded ==
  ASSUME AcceptedMeansReceived, received \subseteq received',
         \A c \in Callers : \/ job'[c] = job[c]
                            \/ job'[c].at # "accepted"
                            \/ job'[c].events \subseteq received'
  PROVE  AcceptedMeansReceived'
BY DEF AcceptedMeansReceived, In

\* EventsConserved, with the name for concatenation.
Conserved(p, s, b, q) == p = Chain(Chain(s, b), q)

\* EventsConserved, by the stretches an event passes through.
LEMMA ConservedIs ==
  EventsConserved <=> /\ Conserved(put, settled, worker.batch, queue)
                      /\ unfinished = Len(worker.batch) + Len(queue)
BY DEF EventsConserved, Conserved, Chain

\* The same in the next state.
LEMMA ConservedNext ==
  ASSUME Conserved(put', settled', worker'.batch, queue'),
         unfinished' = Len(worker'.batch) + Len(queue')
  PROVE  EventsConserved'
BY DEF EventsConserved, Conserved, Chain

\* A step that leaves the events where they are.
LEMMA SameEvents ==
  ASSUME IInv, UNCHANGED <<queue, unfinished, worker, settled, put>>
  PROVE  EventsConserved' /\ Distinct(put)' /\ BatchInHand' /\ Owed' = Owed
<1>1. EventsConserved'
  BY ConservedIs, ConservedNext DEF IInv
<1>2. Distinct(put)' /\ BatchInHand'
  BY DEF IInv, Distinct, BatchInHand
<1>3. Owed' = Owed
  BY DEF Owed
<1> QED BY <1>1, <1>2, <1>3

\* A call that has nothing to do with the queue.
LEMMA CallAside ==
  ASSUME IInv, NEW c \in Callers, NEW new \in Job, Return(c, new),
         UNCHANGED <<queue, unfinished, stopping, worker, lost, settled, put, late>>,
         ~In(c, "emitting"), new.at # "emitting", unused' \subseteq unused,
         received \subseteq received', received' \subseteq Events,
         new.at = "accepted" => new.events \subseteq received'
  PROVE  /\ IInv' /\ Owed' = Owed
         /\ ~In(c, "joining") /\ new.at # "joining" => [Promise!Next]_(Promise!vars)
<1>1. /\ job' \in [Callers -> Job] /\ job'[c] = new
      /\ \A d \in Callers : d # c => job'[d] = job[d]
      /\ SamePuts
      /\ ~In(c, "joining") /\ new.at # "joining" => SameWaits
  BY OneJob DEF IInv
<1>2. Apart'
  BY <1>1, SamePlaces DEF IInv
<1>3. AcceptedMeansReceived'
  BY <1>1, Recorded DEF IInv
<1>4. TypeOK'
  BY <1>1 DEF IInv, TypeOK
<1>5. EventsConserved' /\ Distinct(put)' /\ BatchInHand' /\ Owed' = Owed
  BY SameEvents
<1>6. ASSUME ~In(c, "joining"), new.at # "joining" PROVE UNCHANGED Promise!vars
  BY <1>1, <1>5, <1>6, SameWaiting DEF Promise!vars, Waits
<1> QED BY <1>2, <1>3, <1>4, <1>5, <1>6 DEF IInv

\* flush() and close() put the caller to wait for what is queued.
LEMMA WaitStep ==
  ASSUME IInv, NEW c \in Callers, Flush(c) \/ Close(c)
  PROVE  IInv' /\ [Promise!Next]_(Promise!vars)
<1>1. PICK new : new = [at |-> "joining", owed |-> Owed]
  OBVIOUS
<1>2. new \in Job /\ new.at = "joining" /\ new.owed = Owed
  BY <1>1, Places, Jobs DEF IInv
<1>3. In(c, "idle") /\ Return(c, new)
      /\ UNCHANGED <<queue, unfinished, worker, unused, received, lost, settled, put, late>>
      /\ stopping' \in BOOLEAN
  BY <1>1 DEF Flush, Close, auxPut, IInv, TypeOK
<1>4. /\ job' \in [Callers -> Job] /\ job'[c] = new
      /\ \A d \in Callers : d # c => job'[d] = job[d]
      /\ SamePuts
  BY <1>2, <1>3, OneJob DEF IInv, In
<1>5. Apart'
  BY <1>3, <1>4, SamePlaces DEF IInv
<1>6. AcceptedMeansReceived'
  BY <1>2, <1>3, <1>4, Recorded DEF IInv
<1>7. TypeOK'
  BY <1>3, <1>4 DEF IInv, TypeOK
<1>8. EventsConserved' /\ Distinct(put)' /\ BatchInHand' /\ Owed' = Owed
  BY <1>3, SameEvents
<1>9. ~Waits[c].waiting
  BY <1>3 DEF Waits, In
<1>10. Waits' = [Waits EXCEPT ![c] = [for |-> Owed, waiting |-> TRUE]]
  BY <1>2, <1>4 DEF Waits, In
<1>11. Promise!Wait(c)
  BY <1>3, <1>8, <1>9, <1>10 DEF Waits, Promise!Wait
<1> QED BY <1>5, <1>6, <1>7, <1>8, <1>11 DEF IInv, Promise!Next

\* Queue.join ends only with nothing owed.
LEMMA JoinStep ==
  ASSUME IInv, NEW c \in Callers, Join(c)
  PROVE  IInv' /\ [Promise!Next]_(Promise!vars)
<1>1. PICK new : new = [at |-> "flushed", owed |-> job[c].owed]
  OBVIOUS
<1>2. /\ In(c, "joining") /\ unfinished = 0 /\ Return(c, new)
      /\ UNCHANGED <<queue, unfinished, stopping, worker, unused, received, lost, settled, put, late>>
  BY <1>1 DEF Join, AllDone, auxPut
<1>3. new \in Job /\ new.at = "flushed"
  <2>1. job[c].owed \in SUBSET Events
    BY <1>2, JobIs DEF IInv, JoinJob
  <2> QED BY <1>1, <2>1, Jobs
<1>4. IInv' /\ Owed' = Owed
  <2>1. ~In(c, "emitting")
    BY <1>2 DEF In
  <2>2. received' \subseteq Events
    BY <1>2 DEF IInv, TypeOK
  <2> QED BY <1>2, <1>3, <2>1, <2>2, CallAside
<1>5. Owed = {}
  <2>1. Len(worker.batch) \in Nat /\ Len(queue) \in Nat
    BY RangeIs, Places DEF IInv, TypeOK
  <2>2. Len(worker.batch) = 0 /\ Len(queue) = 0
    BY <1>2, <2>1 DEF IInv, EventsConserved
  <2>3. worker.batch = <<>> /\ queue = <<>>
    BY <2>2, RangeIs, Places DEF IInv, TypeOK
  <2> QED BY <2>3, RangeEmpty DEF Owed
<1>6. /\ job' \in [Callers -> Job] /\ job'[c] = new
      /\ \A d \in Callers : d # c => job'[d] = job[d]
  BY <1>2, <1>3, OneJob DEF IInv
<1>7. Waits[c].waiting /\ Waits[c].for \cap Owed = {}
  BY <1>2, <1>5 DEF Waits
<1>8. Waits' = [Waits EXCEPT ![c] = Promise!NotWaiting]
  BY <1>3, <1>6 DEF Waits, In, Promise!NotWaiting
<1>9. Promise!Return(c)
  BY <1>2, <1>4, <1>7, <1>8 DEF Waits, Promise!Return
<1> QED BY <1>4, <1>9 DEF Promise!Next

-----------------------------------------------------------------------------
(* Calls that put or post events.                                          *)

\* The events of a batch are distinct and nobody has used them.
LEMMA BatchIs ==
  ASSUME TypeOK, NEW s \in Batches, Cardinality(Range(s)) = Len(s)
  PROVE  s \in Seq(Events) /\ s # <<>> /\ Distinct(s) /\ Range(s) \subseteq unused
<1>1. CASE \E e \in unused : s = <<e>>
  <2>1. PICK e \in unused : s = <<e>>
    BY <1>1
  <2>2. e \in Events
    BY DEF TypeOK
  <2> QED BY <2>1, <2>2, OneEvent
<1>2. CASE \E e \in unused, f \in unused : s = <<e, f>>
  <2>1. PICK e \in unused, f \in unused : s = <<e, f>>
    BY <1>2
  <2>2. e \in Events /\ f \in Events
    BY DEF TypeOK
  <2>3. /\ s \in Seq(Events) /\ s # <<>> /\ Len(s) = 2 /\ s[1] = e /\ s[2] = f
    BY <2>1, <2>2
  <2>4. Range(s) = {e, f}
    BY <2>3, RangeIs
  <2>5. e # f
    <3>1. ASSUME e = f PROVE Cardinality(Range(s)) = 1
      <4>1. Range(s) = {e}
        BY <2>4, <3>1
      <4> QED BY <4>1, FS_Singleton
    <3>2. Cardinality(Range(s)) # 1
      BY <2>3
    <3> QED BY <3>1, <3>2
  <2>6. Distinct(s)
    BY <2>3, <2>5 DEF Distinct
  <2> QED BY <2>3, <2>4, <2>6
<1> QED BY <1>1, <1>2 DEF Batches

\* emit_async takes events nobody has used.
LEMMA StartEmitStep ==
  ASSUME IInv, NEW c \in Callers, StartEmit(c)
  PROVE  IInv' /\ [Promise!Next]_(Promise!vars)
<1>1. PICK s \in Batches : /\ Cardinality(Range(s)) = Len(s)
                           /\ Return(c, [at |-> "emitting", rest |-> s])
                           /\ unused' = unused \ Range(s)
  BY DEF StartEmit
<1>2. /\ In(c, "idle")
      /\ UNCHANGED <<queue, unfinished, stopping, worker, received, lost, settled, put, late>>
  BY DEF StartEmit, auxPut
<1>3. s \in Seq(Events) /\ s # <<>> /\ Distinct(s) /\ Range(s) \subseteq unused
  BY <1>1, BatchIs DEF IInv
<1>4. PICK new : new = [at |-> "emitting", rest |-> s]
  OBVIOUS
<1>5. new \in Job /\ new.at = "emitting" /\ new.rest = s /\ Return(c, new)
  BY <1>1, <1>3, <1>4, Jobs
<1>6. /\ job' \in [Callers -> Job] /\ job'[c] = new
      /\ \A d \in Callers : d # c => job'[d] = job[d]
      /\ SameWaits
  BY <1>2, <1>5, OneJob DEF IInv, In
<1>7. Own(c)' = Range(s) /\ \A d \in Callers : d # c => Own(d)' = Own(d)
  BY <1>5, <1>6 DEF Own, In
<1>8. Apart'
  <2>1. /\ Range(put)' \cap unused' = {} /\ Range(s) \cap (Range(put)' \cup unused') = {}
    BY <1>1, <1>2, <1>3 DEF IInv, Apart
  <2>2. \A d \in Callers : d # c => Own(d)' \cap (Range(put)' \cup unused') = {}
    BY <1>1, <1>2, <1>7 DEF IInv, Apart
  <2>3. \A d \in Callers : d # c => Own(d) \cap Range(s) = {}
    BY <1>3 DEF IInv, Apart
  <2>4. \A d, f \in Callers : d # f => Own(d)' \cap Own(f)' = {}
    BY <1>7, <2>3 DEF IInv, Apart
  <2>5. \A d \in Callers : In(d, "emitting")' => job'[d].rest # <<>> /\ Distinct(job'[d].rest)
    BY <1>3, <1>5, <1>6 DEF IInv, Apart, In
  <2> QED BY <1>7, <2>1, <2>2, <2>4, <2>5 DEF Apart
<1>9. AcceptedMeansReceived'
  BY <1>2, <1>5, <1>6, Recorded DEF IInv
<1>10. TypeOK'
  BY <1>1, <1>2, <1>6 DEF IInv, TypeOK
<1>11. EventsConserved' /\ Distinct(put)' /\ BatchInHand' /\ Owed' = Owed
  BY <1>2, SameEvents
<1>12. UNCHANGED Promise!vars
  BY <1>2, <1>6, <1>11, SameWaiting DEF Promise!vars, Waits
<1> QED BY <1>8, <1>9, <1>10, <1>11, <1>12 DEF IInv

\* So does a direct call.
LEMMA StartPostStep ==
  ASSUME IInv, NEW c \in Callers, StartPost(c)
  PROVE  IInv' /\ [Promise!Next]_(Promise!vars)
<1>1. PICK s \in Batches : /\ unused' = unused \ Range(s)
                           /\ IF Range(s) \cap Invalid # {} THEN Return(c, [at |-> "raised"])
                              ELSE Return(c, [at |-> "posting", events |-> Range(s), tries |-> 0])
  BY DEF StartPost
<1>2. /\ In(c, "idle")
      /\ UNCHANGED <<queue, unfinished, stopping, worker, received, lost, settled, put, late>>
  BY DEF StartPost, auxPut
<1>3. Range(s) \subseteq Events
  <2>1. s \in Seq(Events)
    <3>1. unused \subseteq Events
      BY DEF IInv, TypeOK
    <3>2. CASE \E e \in unused : s = <<e>>
      BY <3>1, <3>2
    <3>3. CASE \E e \in unused, f \in unused : s = <<e, f>>
      BY <3>1, <3>3
    <3> QED BY <3>2, <3>3 DEF Batches
  <2> QED BY <2>1, RangeIs
<1>4. PICK new \in Job : Return(c, new) /\ new.at \in {"raised", "posting"}
  <2>1. CASE Range(s) \cap Invalid # {}
    <3>1. PICK new : new = [at |-> "raised"]
      OBVIOUS
    <3>2. new \in Job /\ new.at = "raised" /\ Return(c, new)
      BY <1>1, <2>1, <3>1, Jobs
    <3> QED BY <3>2
  <2>2. CASE ~(Range(s) \cap Invalid # {})
    <3>1. PICK new : new = [at |-> "posting", events |-> Range(s), tries |-> 0]
      OBVIOUS
    <3>2. new \in Job /\ new.at = "posting" /\ Return(c, new)
      BY <1>1, <1>3, <2>2, <3>1, Jobs
    <3> QED BY <3>2
  <2> QED BY <2>1, <2>2
<1>5. /\ ~In(c, "emitting") /\ ~In(c, "joining") /\ unused' \subseteq unused
      /\ received \subseteq received' /\ received' \subseteq Events
  BY <1>1, <1>2 DEF In, IInv, TypeOK
<1>6. new.at # "emitting" /\ new.at # "joining" /\ new.at # "accepted"
  BY <1>4
<1> QED BY <1>2, <1>4, <1>5, <1>6, CallAside

\* An attempt adds to what the service received, and only an accepted one is over.
LEMMA AttemptIs ==
  ASSUME NEW E \in SUBSET Events, received \subseteq Events, NEW tries, NEW limit,
         NEW outcome \in Outcomes, Attempt(E, tries, limit, outcome)
  PROVE  /\ received \subseteq received' /\ received' \subseteq Events
         /\ outcome = "accepted" => E \subseteq received'
         /\ outcome = "again" => tries < limit
BY DEF Attempt, Outcomes, Reasons, MayRetry, Exhaust

\* One attempt of a direct call.
LEMMA PostOnceStep ==
  ASSUME IInv, NEW c \in Callers, PostOnce(c)
  PROVE  IInv' /\ [Promise!Next]_(Promise!vars)
<1>1. /\ In(c, "posting")
      /\ UNCHANGED <<queue, unfinished, stopping, worker, unused, lost, settled, put, late>>
  BY DEF PostOnce, auxPut
<1>2. job[c] \in CallJob /\ job[c].events \in SUBSET Events /\ job[c].tries \in 0..CallRetries
  BY <1>1, JobIs DEF IInv, CallJob
<1>3. PICK outcome \in Outcomes :
        /\ Attempt(job[c].events, job[c].tries, CallRetries, outcome)
        /\ \/ outcome = "accepted" /\ Return(c, [at |-> "accepted", events |-> job[c].events])
           \/ outcome = "again" /\ job' = [job EXCEPT ![c].tries = @ + 1]
           \/ outcome \in Reasons /\ Return(c, [at |-> "raised"])
  BY DEF PostOnce
<1>4. /\ received \subseteq received' /\ received' \subseteq Events
      /\ outcome = "accepted" => job[c].events \subseteq received'
      /\ outcome = "again" => job[c].tries < CallRetries
  BY <1>2, <1>3, AttemptIs DEF IInv, TypeOK
<1>5. PICK new \in Job : /\ Return(c, new)
                         /\ \/ new.at \in {"posting", "raised"}
                            \/ new.at = "accepted" /\ new.events \subseteq received'
  <2>1. CASE outcome = "accepted" /\ Return(c, [at |-> "accepted", events |-> job[c].events])
    <3>1. PICK new : new = [at |-> "accepted", events |-> job[c].events]
      OBVIOUS
    <3>2. new \in Job /\ new.at = "accepted" /\ new.events = job[c].events /\ Return(c, new)
      BY <1>2, <2>1, <3>1, Jobs
    <3> QED BY <1>4, <2>1, <3>2
  <2>2. CASE outcome = "again" /\ job' = [job EXCEPT ![c].tries = @ + 1]
    <3>1. PICK new : new = [job[c] EXCEPT !.tries = @ + 1]
      OBVIOUS
    <3>2. new \in CallJob /\ new.at = "posting"
      BY <1>2, <1>4, <2>2, <3>1, BillingConstants DEF CallJob
    <3>3. job' = [job EXCEPT ![c] = new]
      BY <2>2, <3>1, JobIs DEF IInv
    <3> QED BY <3>2, <3>3 DEF Job, Return
  <2>3. CASE outcome \in Reasons /\ Return(c, [at |-> "raised"])
    <3>1. PICK new : new = [at |-> "raised"]
      OBVIOUS
    <3>2. new \in Job /\ new.at = "raised" /\ Return(c, new)
      BY <2>3, <3>1, Jobs
    <3> QED BY <3>2
  <2> QED BY <1>3, <2>1, <2>2, <2>3
<1>6. ~In(c, "emitting") /\ ~In(c, "joining") /\ unused' \subseteq unused
  BY <1>1 DEF In
<1>7. /\ new.at # "emitting" /\ new.at # "joining"
      /\ new.at = "accepted" => new.events \subseteq received'
  BY <1>5
<1> QED BY <1>1, <1>4, <1>5, <1>6, <1>7, CallAside

\* A caller whose call has ended makes another.
LEMMA NextCallStep ==
  ASSUME IInv, NEW c \in Callers, NextCall(c)
  PROVE  IInv' /\ [Promise!Next]_(Promise!vars)
<1>1. /\ job[c].at \in {"flushed", "accepted", "returned", "raised"} /\ Return(c, Idle)
      /\ UNCHANGED <<queue, unfinished, stopping, worker, unused, received, lost, settled, put, late>>
  BY DEF NextCall, auxPut
<1>2. ~In(c, "emitting") /\ ~In(c, "joining") /\ received' \subseteq Events
  BY <1>1 DEF In, IInv, TypeOK
<1>3. PICK new : new = Idle
  OBVIOUS
<1>4. new \in Job /\ new.at = "idle" /\ Return(c, new)
  BY <1>1, <1>3, Jobs
<1> QED BY <1>1, <1>2, <1>4, CallAside

\* _validate_event and enqueue of one event.
LEMMA PutStep ==
  ASSUME IInv, NEW c \in Callers, Put(c)
  PROVE  IInv' /\ [Promise!Next]_(Promise!vars)
<1>1. PICK e, rest : e = Head(rest) /\ rest = job[c].rest
  OBVIOUS
<1>2. /\ In(c, "emitting")
      /\ UNCHANGED <<stopping, worker, unused, received, lost, settled>>
  BY DEF Put
<1>3. /\ job[c] \in EmitJob /\ rest \in Seq(Events) /\ rest # <<>> /\ Distinct(rest)
      /\ job \in [Callers -> Job] /\ Own(c) = Range(rest)
  BY <1>1, <1>2, JobIs DEF IInv, Apart, EmitJob, Own
<1>4. /\ e \in Events /\ Tail(rest) \in Seq(Events) /\ Len(rest) = Len(Tail(rest)) + 1
      /\ Range(rest) = {e} \cup Range(Tail(rest))
      /\ Distinct(Tail(rest)) /\ e \notin Range(Tail(rest))
  BY <1>1, <1>3, HeadFirst
<1>5. PICK new \in Job :
        /\ Return(c, new)
        /\ \/ new.at \in {"raised", "returned"}
           \/ /\ new.at = "emitting" /\ new.rest = Tail(rest)
              /\ new.rest # <<>> /\ Distinct(new.rest)
  <2>1. CASE Return(c, [at |-> "raised"]) \/ Return(c, [at |-> "returned"])
    <3>1. PICK new : new \in {[at |-> "raised"], [at |-> "returned"]} /\ Return(c, new)
      BY <2>1
    <3>2. new \in Job /\ new.at \in {"raised", "returned"}
      BY <3>1, Jobs
    <3> QED BY <3>1, <3>2
  <2>2. CASE Len(rest) # 1 /\ job' = [job EXCEPT ![c].rest = Tail(@)]
    <3>1. PICK new : new = [job[c] EXCEPT !.rest = Tail(@)]
      OBVIOUS
    <3>2. new \in EmitJob /\ new.at = "emitting" /\ new.rest = Tail(rest)
      BY <1>1, <1>3, <1>4, <3>1 DEF EmitJob
    <3>3. job' = [job EXCEPT ![c] = new]
      BY <1>3, <2>2, <3>1
    <3>4. Tail(rest) # <<>>
      <4>1. Len(Tail(rest)) # 0
        BY <1>4, <2>2
      <4>2. Len(<<>>) = 0
        BY EmptySeq
      <4> QED BY <4>1, <4>2
    <3> QED BY <1>4, <3>2, <3>3, <3>4 DEF Job, Return
  <2> QED BY <1>1, <2>1, <2>2 DEF Put
<1>6. /\ job' \in [Callers -> Job] /\ job'[c] = new
      /\ \A d \in Callers : d # c => job'[d] = job[d]
      /\ SameWaits
  <2>1. ~In(c, "joining") /\ new.at # "joining"
    BY <1>2, <1>5 DEF In
  <2> QED BY <1>5, <2>1, OneJob DEF IInv
<1>7. /\ Own(c)' \subseteq Own(c) \ {e}
      /\ \A d \in Callers : d # c => Own(d)' = Own(d)
      /\ \A d \in Callers : d # c => e \notin Own(d)
  <2>1. Own(c)' \subseteq Own(c) \ {e}
    BY <1>3, <1>4, <1>5, <1>6 DEF Own, In
  <2>2. \A d \in Callers : d # c => Own(d)' = Own(d)
    BY <1>6 DEF Own, In
  <2>3. \A d \in Callers : d # c => e \notin Own(d)
    BY <1>3, <1>4 DEF IInv, Apart
  <2> QED BY <2>1, <2>2, <2>3
<1>8. e \notin Range(put) /\ e \notin unused
  BY <1>3, <1>4 DEF IInv, Apart
<1>9. ASSUME Range(put)' \subseteq Range(put) \cup {e} PROVE Apart'
  <2>1. Range(put)' \cap unused' = {}
    BY <1>2, <1>8, <1>9 DEF IInv, Apart
  <2>2. \A d \in Callers : Own(d)' \cap (Range(put)' \cup unused') = {}
    BY <1>2, <1>7, <1>9 DEF IInv, Apart
  <2>3. \A d, f \in Callers : d # f => Own(d)' \cap Own(f)' = {}
    BY <1>7 DEF IInv, Apart
  <2>4. \A d \in Callers : In(d, "emitting")' => job'[d].rest # <<>> /\ Distinct(job'[d].rest)
    BY <1>5, <1>6 DEF IInv, Apart, In
  <2> QED BY <2>1, <2>2, <2>3, <2>4 DEF Apart
<1>10. AcceptedMeansReceived'
  <2>1. \A d \in Callers : job'[d] = job[d] \/ job'[d].at # "accepted"
    BY <1>5, <1>6
  <2> QED BY <1>2, <2>1, Recorded DEF IInv
<1>11. CASE e \in Invalid
  <2>1. UNCHANGED <<queue, unfinished, put, late>>
    BY <1>1, <1>11 DEF Put, auxPut
  <2>2. Apart'
    BY <1>9, <2>1
  <2>3. TypeOK'
    BY <1>2, <1>6, <2>1 DEF IInv, TypeOK
  <2>4. EventsConserved' /\ Distinct(put)' /\ BatchInHand' /\ Owed' = Owed
    BY <1>2, <2>1, SameEvents
  <2>5. UNCHANGED Promise!vars
    BY <1>2, <1>6, <2>4, SameWaiting DEF Promise!vars, Waits
  <2> QED BY <1>10, <2>2, <2>3, <2>4, <2>5 DEF IInv
<1>12. CASE e \notin Invalid
  <2>1. /\ queue' = Append(queue, e) /\ put' = Append(put, e) /\ unfinished' = unfinished + 1
        /\ late' \subseteq Events
    BY <1>1, <1>4, <1>12 DEF Put, IInv, TypeOK
  <2>2. PICK one : one = <<e>>
    OBVIOUS
  <2>3. one \in Seq(Events) /\ Len(one) = 1 /\ Distinct(one) /\ Range(one) = {e}
    BY <1>4, <2>2, OneEvent
  <2>4. queue \in Seq(Events) /\ put \in Seq(Events) /\ queue' = Chain(queue, one) /\ put' = Chain(put, one)
    <3>1. queue \in Seq(Events) /\ put \in Seq(Events)
      BY DEF IInv, TypeOK
    <3> QED BY <1>4, <2>1, <2>2, <3>1, AppendIsConcat DEF Chain
  <2>5. /\ put' \in Seq(Events) /\ Range(put') = Range(put) \cup {e} /\ Distinct(put')
        /\ queue' \in Seq(Events) /\ Range(queue') = Range(queue) \cup {e}
        /\ Len(queue') = Len(queue) + 1
    <3>1. Distinct(put) /\ Range(put) \cap Range(one) = {}
      BY <1>8, <2>3 DEF IInv
    <3> QED BY <2>3, <2>4, <3>1, InARow
  <2>6. Apart'
    BY <1>9, <2>5
  <2>7. TypeOK'
    BY <1>2, <1>6, <2>1, <2>5 DEF IInv, TypeOK
  <2>8. EventsConserved'
    <3>1. Chain(settled, worker.batch) \in Seq(Events) /\ worker.batch \in Seq(Events)
      BY Places, InARow DEF IInv, TypeOK
    <3>2. put = Chain(Chain(settled, worker.batch), queue) /\ unfinished = Len(worker.batch) + Len(queue)
      BY ConservedIs DEF IInv, Conserved
    <3>3. Chain(put, one) = Chain(Chain(settled, worker.batch), Chain(queue, one))
      BY <2>3, <2>4, <3>1, <3>2, Associative
    <3>4. Conserved(put', settled', worker'.batch, queue')
      BY <1>2, <2>4, <3>3 DEF Conserved
    <3>5. unfinished' = Len(worker'.batch) + Len(queue')
      <4>1. Len(worker.batch) \in Nat /\ Len(queue) \in Nat
        BY <2>4, <3>1, RangeIs
      <4>2. Len(worker'.batch) = Len(worker.batch)
        BY <1>2
      <4>3. PICK m, n, k : m = Len(worker.batch) /\ n = Len(queue) /\ k = Len(queue')
        OBVIOUS
      <4>4. m \in Nat /\ n \in Nat /\ k = n + 1 /\ unfinished' = (m + n) + 1
        BY <2>1, <2>5, <3>2, <4>1, <4>3
      <4>5. unfinished' = m + k
        BY <4>4
      <4> QED BY <4>2, <4>3, <4>5
    <3> QED BY <3>4, <3>5, ConservedNext
  <2>9. Distinct(put)' /\ BatchInHand'
    BY <1>2, <2>5 DEF IInv, BatchInHand
  <2>10. Owed' = Owed \cup {e} /\ e \notin Owed \cup Range(settled) /\ Waits' = Waits
    BY <1>2, <1>6, <1>8, <2>5, Places, SameWaiting DEF IInv, Owed
  <2>11. Promise!Put(e)
    BY <1>2, <2>10 DEF Promise!Put, Waits
  <2> QED BY <1>4, <1>10, <2>6, <2>7, <2>8, <2>9, <2>11 DEF IInv, Promise!Next
<1> QED BY <1>11, <1>12

-----------------------------------------------------------------------------
(* The worker.                                                             *)

\* What no step of the worker touches.
LEMMA WorkerAside ==
  ASSUME IInv, UNCHANGED <<job, unused, put, stopping, late>>, received \subseteq received'
  PROVE  Apart' /\ AcceptedMeansReceived' /\ Distinct(put)' /\ Waits' = Waits
<1>1. SamePuts /\ SameWaits /\ \A c \in Callers : job'[c] = job[c]
  BY DEF SamePuts, SameWaits
<1> QED BY <1>1, SamePlaces, Recorded, SameWaiting DEF IInv

\* The kind of the worker's state.
LEMMA WorkerIs ==
  ASSUME TypeOK
  PROVE  /\ worker \in Worker /\ worker.batch \in Seq(Events)
         /\ worker.tries \in 0..WorkerRetries /\ worker.at \in Loop \cup Exit
         /\ \A a \in Loop \cup Exit, b \in Seq(Events), n \in 0..WorkerRetries :
              /\ [at |-> a, batch |-> b, tries |-> n] \in Worker
BY DEF TypeOK, Worker

\* The worker goes on, and nothing else happens.
LEMMA GoOnStep ==
  ASSUME IInv, NEW step \in Loop \cup Exit, GoOn(step),
         step \in {"sending", "lastSend"} => worker.batch # <<>>,
         UNCHANGED <<queue, unfinished, stopping, job, unused, received, lost, settled, put, late>>
  PROVE  IInv' /\ [Promise!Next]_(Promise!vars)
<1>1. /\ worker' \in Worker /\ worker'.at = step /\ worker'.batch = worker.batch
      /\ worker'.tries = worker.tries
  BY WorkerIs DEF GoOn, Worker, IInv
<1>2. Apart' /\ AcceptedMeansReceived' /\ Distinct(put)' /\ Waits' = Waits
  BY WorkerAside
<1>3. TypeOK'
  BY <1>1 DEF IInv, TypeOK
<1>4. EventsConserved'
  BY <1>1, ConservedIs, ConservedNext DEF IInv
<1>5. BatchInHand'
  BY <1>1 DEF BatchInHand
<1>6. Owed' = Owed
  BY <1>1 DEF Owed
<1>7. UNCHANGED Promise!vars
  BY <1>2, <1>6 DEF Promise!vars, Waits
<1> QED BY <1>2, <1>3, <1>4, <1>5, <1>7 DEF IInv

\* The worker takes one event from the queue into its batch.
LEMMA TakeStep ==
  ASSUME IInv, queue # <<>>, Take,
         UNCHANGED <<unfinished, stopping, job, unused, received, lost, settled, put, late>>
  PROVE  IInv' /\ [Promise!Next]_(Promise!vars)
<1>1. PICK b : b = Append(worker.batch, Head(queue))
  OBVIOUS
<1>2. /\ worker.batch \in Seq(Events) /\ queue \in Seq(Events) /\ settled \in Seq(Events)
      /\ worker \in Worker
  BY WorkerIs DEF IInv, TypeOK
<1>3. /\ b \in Seq(Events) /\ b # <<>> /\ Tail(queue) \in Seq(Events)
      /\ Chain(Chain(settled, b), Tail(queue)) = Chain(Chain(settled, worker.batch), queue)
      /\ Len(b) + Len(Tail(queue)) = Len(worker.batch) + Len(queue)
      /\ Range(b) \cup Range(Tail(queue)) = Range(worker.batch) \cup Range(queue)
  BY <1>1, <1>2, Handed
<1>4. queue' = Tail(queue) /\ worker' = [worker EXCEPT !.batch = b]
  BY <1>1, <1>2 DEF Take, Worker
<1>5. worker' \in Worker /\ worker'.batch = b /\ worker'.at = worker.at
  BY <1>2, <1>3, <1>4 DEF Worker
<1>6. Apart' /\ AcceptedMeansReceived' /\ Distinct(put)' /\ Waits' = Waits
  BY WorkerAside
<1>7. TypeOK'
  BY <1>3, <1>4, <1>5 DEF IInv, TypeOK
<1>8. EventsConserved'
  <2>1. Conserved(put, settled, worker.batch, queue) /\ unfinished = Len(worker.batch) + Len(queue)
    BY ConservedIs DEF IInv
  <2>2. Conserved(put', settled', worker'.batch, queue')
    BY <1>3, <1>4, <1>5, <2>1 DEF Conserved
  <2>3. unfinished' = Len(worker'.batch) + Len(queue')
    BY <1>3, <1>4, <1>5, <2>1
  <2> QED BY <2>2, <2>3, ConservedNext
<1>9. BatchInHand'
  BY <1>3, <1>5 DEF BatchInHand
<1>10. Owed' = Owed
  BY <1>3, <1>4, <1>5 DEF Owed
<1>11. UNCHANGED Promise!vars
  BY <1>6, <1>10 DEF Promise!vars, Waits
<1> QED BY <1>6, <1>7, <1>8, <1>9, <1>11 DEF IInv

\* An attempt that is to be repeated.
LEMMA AgainStep ==
  ASSUME IInv, worker.tries < WorkerRetries, worker' = [worker EXCEPT !.tries = @ + 1],
         received \subseteq received', received' \subseteq Events,
         UNCHANGED <<queue, unfinished, stopping, job, unused, lost, settled, put, late>>
  PROVE  IInv' /\ [Promise!Next]_(Promise!vars)
<1>1. /\ worker' \in Worker /\ worker'.at = worker.at /\ worker'.batch = worker.batch
  <2>1. worker.tries + 1 \in 0..WorkerRetries /\ worker \in Worker
    BY WorkerIs, BillingConstants DEF IInv
  <2> QED BY <2>1 DEF Worker
<1>2. Apart' /\ AcceptedMeansReceived' /\ Distinct(put)' /\ Waits' = Waits
  BY WorkerAside
<1>3. TypeOK'
  BY <1>1 DEF IInv, TypeOK
<1>4. EventsConserved'
  BY <1>1, ConservedIs, ConservedNext DEF IInv
<1>5. BatchInHand'
  BY <1>1 DEF IInv, BatchInHand
<1>6. Owed' = Owed
  BY <1>1 DEF Owed
<1>7. UNCHANGED Promise!vars
  BY <1>2, <1>6 DEF Promise!vars, Waits
<1> QED BY <1>2, <1>3, <1>4, <1>5, <1>7 DEF IInv

\* A batch that was accepted or given up.
LEMMA SettleStep ==
  ASSUME IInv, worker.at \in {"sending", "lastSend"}, NEW next \in {"head", "exited"},
         MarkDone, LetGo(next), lost' \in [Events -> Reasons \cup {"no"}],
         received \subseteq received', received' \subseteq Events,
         UNCHANGED <<queue, stopping, job, unused, put, late>>
  PROVE  IInv' /\ [Promise!Next]_(Promise!vars)
<1>1. PICK b : b = worker.batch
  OBVIOUS
<1>2. /\ b \in Seq(Events) /\ b # <<>> /\ queue \in Seq(Events) /\ settled \in Seq(Events)
  BY <1>1, WorkerIs DEF IInv, TypeOK, BatchInHand
<1>3. /\ worker' = [at |-> next, batch |-> <<>>, tries |-> 0]
      /\ settled' = Chain(settled, b) /\ unfinished' = unfinished - Len(b)
  BY <1>1 DEF LetGo, MarkDone, Chain
<1>4. PICK none : none = <<>>
  OBVIOUS
<1>5. none \in Seq(Events) /\ Len(none) = 0 /\ Range(none) = {}
  BY <1>4, EmptySeq, RangeEmpty
<1>6. worker' \in Worker /\ worker'.at = next /\ worker'.batch = none
  <2>1. next \in Loop \cup Exit /\ 0 \in 0..WorkerRetries
    BY BillingConstants DEF Loop, Exit
  <2>2. worker' = [at |-> next, batch |-> none, tries |-> 0]
    BY <1>3, <1>4
  <2> QED BY <1>5, <2>1, <2>2 DEF Worker
<1>7. settled' \in Seq(Events) /\ Range(settled') = Range(settled) \cup Range(b)
  BY <1>2, <1>3, InARow
<1>8. Apart' /\ AcceptedMeansReceived' /\ Distinct(put)' /\ Waits' = Waits
  BY WorkerAside
<1>9. /\ Conserved(put, settled, b, queue) /\ unfinished = Len(b) + Len(queue)
      /\ Len(b) \in Nat /\ Len(queue) \in Nat
  BY <1>1, <1>2, ConservedIs, RangeIs DEF IInv
<1>10. unfinished' = Len(none) + Len(queue) /\ unfinished' \in Nat
  BY <1>3, <1>5, <1>9
<1>11. EventsConserved'
  <2>1. Chain(settled', none) = settled'
    BY <1>4, <1>7, ConcatEmptySeq DEF Chain
  <2>2. Conserved(put', settled', worker'.batch, queue')
    BY <1>3, <1>6, <1>9, <2>1 DEF Conserved
  <2> QED BY <1>6, <1>10, <2>2, ConservedNext
<1>12. TypeOK'
  BY <1>6, <1>7, <1>10 DEF IInv, TypeOK
<1>13. BatchInHand'
  BY <1>6 DEF BatchInHand
<1>14. /\ Range(b) # {} /\ Range(b) \in SUBSET Owed /\ Range(b) \cap Range(queue) = {}
  BY <1>1, <1>2, Places, RangeIs DEF IInv, Owed
<1>15. Owed' = Range(queue) /\ Owed = Range(b) \cup Range(queue)
  BY <1>1, <1>5, <1>6 DEF Owed
<1>16. Owed' = Owed \ Range(b)
  BY <1>14, <1>15
<1>17. Waits' = [c \in Callers |-> IF c \in {} THEN Promise!NotWaiting ELSE Waits[c]]
  BY <1>8 DEF Waits
<1>18. Promise!Leave(Range(b), {})
  BY <1>7, <1>14, <1>16, <1>17 DEF Promise!Leave, Waits
<1> QED BY <1>8, <1>11, <1>12, <1>13, <1>14, <1>18 DEF IInv, Promise!Next

\* One attempt of the worker to post its batch.
LEMMA SendStep == ASSUME IInv, Send PROVE IInv' /\ [Promise!Next]_(Promise!vars)
<1>1. PICK outcome \in Outcomes :
        /\ Attempt(Range(worker.batch), worker.tries, WorkerRetries, outcome)
        /\ IF outcome = "again"
           THEN /\ worker' = [worker EXCEPT !.tries = @ + 1]
                /\ UNCHANGED <<unfinished, lost, settled>>
           ELSE /\ MarkDone
                /\ LetGo(IF WorkerAt("sending") THEN "head" ELSE "exited")
                /\ lost' = [e \in Events |->
                             IF e \in Range(worker.batch) /\ outcome \in Reasons
                             THEN outcome ELSE lost[e]]
  BY DEF Send
<1>2. /\ worker.at \in {"sending", "lastSend"}
      /\ UNCHANGED <<queue, stopping, job, unused, put, late>>
  BY DEF Send, auxPut
<1>3. Range(worker.batch) \in SUBSET Events
  BY WorkerIs, RangeIs DEF IInv
<1>4. /\ received \subseteq received' /\ received' \subseteq Events
      /\ outcome = "again" => worker.tries < WorkerRetries
  BY <1>1, <1>3, AttemptIs DEF IInv, TypeOK
<1>5. CASE outcome = "again"
  BY <1>1, <1>2, <1>4, <1>5, AgainStep
<1>6. CASE outcome # "again"
  <2>1. lost' \in [Events -> Reasons \cup {"no"}]
    BY <1>1, <1>6 DEF IInv, TypeOK
  <2>2. PICK next \in {"head", "exited"} : LetGo(next)
    BY <1>1, <1>6
  <2> QED BY <1>1, <1>2, <1>4, <1>6, <2>1, <2>2, SettleStep
<1> QED BY <1>5, <1>6

\* Every step of the worker.
LEMMA WorkerStepKeeps ==
  ASSUME IInv, WorkerStep PROVE IInv' /\ [Promise!Next]_(Promise!vars)
<1>1. CASE LoopHead
  <2>1. PICK step \in {"drain", "collect"} : GoOn(step)
    BY <1>1 DEF LoopHead
  <2> QED BY <1>1, <2>1, GoOnStep DEF LoopHead, Loop, Exit, auxPut
<1>2. CASE Get
  BY <1>2, TakeStep DEF Get, auxPut
<1>3. CASE Collected
  <2>1. PICK step \in {"head", "sending"} : GoOn(step) /\ (step = "sending" => worker.batch # <<>>)
    BY <1>3 DEF Collected
  <2> QED BY <1>3, <2>1, GoOnStep DEF Collected, Loop, Exit, auxPut
<1>4. CASE Drain
  <2>1. CASE queue # <<>> /\ Take
    BY <1>4, <2>1, TakeStep DEF Drain, auxPut
  <2>2. CASE /\ GoOn(IF worker.batch = <<>> THEN "exited" ELSE "lastSend")
             /\ UNCHANGED queue
    <3>1. PICK step \in {"exited", "lastSend"} : GoOn(step) /\ (step = "lastSend" => worker.batch # <<>>)
      BY <2>2
    <3> QED BY <1>4, <2>2, <3>1, GoOnStep DEF Drain, Loop, Exit, auxPut
  <2> QED BY <1>4, <2>1, <2>2 DEF Drain, DrainQueue
<1>5. CASE Send
  BY <1>5, SendStep
<1> QED BY <1>1, <1>2, <1>3, <1>4, <1>5 DEF WorkerStep

-----------------------------------------------------------------------------

\* Before the first call nothing is queued.
LEMMA InvInit == Init => IInv /\ Promise!Init
<1> SUFFICES ASSUME Init PROVE IInv /\ Promise!Init
  OBVIOUS
<1>1. /\ queue = <<>> /\ settled = <<>> /\ put = <<>> /\ worker.batch = <<>> /\ unfinished = 0
      /\ unused = Events /\ \A c \in Callers : job[c] = Idle
  BY DEF Init
<1>2. Owed = {} /\ Range(settled) = {} /\ Range(put) = {} /\ Distinct(put)
  BY <1>1, RangeEmpty DEF Owed
<1>3. TypeOK
  <2>1. job \in [Callers -> Job]
    BY Jobs DEF Init
  <2>2. worker \in Worker
    BY BillingConstants, EmptySeq DEF Init, Worker, Loop, Exit
  <2>3. queue \in Seq(Events) /\ put \in Seq(Events) /\ settled \in Seq(Events)
    BY <1>1, EmptySeq
  <2> QED BY <2>1, <2>2, <2>3 DEF Init, TypeOK
<1>4. EventsConserved
  <2>1. Chain(Chain(<<>>, <<>>), <<>>) = <<>>
    BY EmptySeq, ConcatEmptySeq DEF Chain
  <2>2. Len(<<>>) + Len(<<>>) = 0
    BY EmptySeq
  <2> QED BY <1>1, <2>1, <2>2, ConservedIs DEF Conserved
<1>5. AcceptedMeansReceived /\ BatchInHand
  BY <1>1 DEF AcceptedMeansReceived, BatchInHand, In, Idle, Init
<1>6. Apart
  BY <1>1, <1>2 DEF Apart, Own, In, Idle
<1>7. Promise!Init
  BY <1>1, <1>2 DEF Promise!Init, Promise!NotWaiting, In, Idle
<1> QED BY <1>2, <1>3, <1>4, <1>5, <1>6, <1>7 DEF IInv

\* Every step keeps the invariant, and is a step of the queue or none.
LEMMA InvStep == IInv /\ [Next]_vars => IInv' /\ [Promise!Next]_(Promise!vars)
<1> SUFFICES ASSUME IInv, [Next]_vars PROVE IInv' /\ [Promise!Next]_(Promise!vars)
  OBVIOUS
<1>1. ASSUME NEW c \in Callers, CallStep(c) \/ ClientStep(c)
      PROVE  IInv' /\ [Promise!Next]_(Promise!vars)
  BY <1>1, PutStep, JoinStep, PostOnceStep, StartEmitStep, WaitStep, StartPostStep,
     NextCallStep DEF CallStep, ClientStep
<1>2. CASE UNCHANGED vars
  <2>1. /\ UNCHANGED <<queue, unfinished, stopping, worker, job, unused, received, lost,
                       put, settled, late>>
    BY <1>2 DEF vars
  <2>2. Apart' /\ AcceptedMeansReceived' /\ Distinct(put)' /\ Waits' = Waits
    BY <2>1, WorkerAside
  <2>3. EventsConserved' /\ BatchInHand' /\ Owed' = Owed
    BY <2>1, SameEvents
  <2>4. TypeOK'
    BY <2>1 DEF IInv, TypeOK
  <2>5. UNCHANGED Promise!vars
    BY <2>1, <2>2, <2>3 DEF Promise!vars, Waits
  <2> QED BY <2>2, <2>3, <2>4, <2>5 DEF IInv
<1> QED BY <1>1, <1>2, WorkerStepKeeps DEF Next

\* The queue, the worker and the calls are of their types; neither the worker
\* nor a synchronous call tries again after the last of its attempts.
THEOREM TypeCorrect == Spec => []TypeOK
<1>1. IInv => TypeOK
  BY DEF IInv
<1> QED BY <1>1, InvInit, InvStep, PTL DEF Spec

\* Between enqueue and task_done no event is lost, doubled or moved past
\* another, and join counts what is in the worker's hands and in the queue.
THEOREM NothingLost == Spec => []EventsConserved
<1>1. IInv => EventsConserved
  BY DEF IInv
<1> QED BY <1>1, InvInit, InvStep, PTL DEF Spec

\* What a synchronous call was told is recorded stays recorded.
THEOREM AcceptedIsRecorded == Spec => []AcceptedMeansReceived
<1>1. IInv => AcceptedMeansReceived
  BY DEF IInv
<1> QED BY <1>1, InvInit, InvStep, PTL DEF Spec

\* The SDK keeps the promises of EventQueue: events leave once, and flush and
\* close return only when all that was put before them has left.
THEOREM KeepsEventQueue == Spec => ImplementsEventQueue
BY InvInit, InvStep, PTL DEF Spec, ImplementsEventQueue, Promise!Spec

=============================================================================
