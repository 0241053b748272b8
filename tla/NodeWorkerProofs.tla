--------------------------- MODULE NodeWorkerProofs ---------------------------
(***************************************************************************)
(* What TLAPS proves of NodeWorker, for any finite set of events, any      *)
(* number of callers, any batch size and any number of retries.            *)
(***************************************************************************)
EXTENDS NodeWorker, FiniteSetTheorems, SequenceTheorems, TLAPS

\* Each event is emitted once.
Distinct(s) == \A i, j \in 1..Len(s) : s[i] = s[j] => i = j

-----------------------------------------------------------------------------
(* Sequences without repetition.                                           *)

\* The elements of a sequence of events are events; one that is not empty has a head.
LEMMA SetOfSeq ==
  ASSUME NEW s \in Seq(Events)
  PROVE  /\ ToSet(s) = {s[i] : i \in 1..Len(s)}
         /\ ToSet(s) \subseteq Events /\ Len(s) \in Nat
         /\ s # <<>> => Len(s) > 0 /\ s[1] \in ToSet(s)
         /\ Len(s) = 0 => s = <<>>
BY DEF ToSet

\* The empty queue has no elements.
LEMMA EmptySet == ToSet(<<>>) = {}
BY DEF ToSet

\* A sequence cut in two.
LEMMA Cut ==
  ASSUME NEW q \in Seq(Events), Distinct(q), NEW k \in 0..Len(q)
  PROVE  LET a == SubSeq(q, 1, k)
             b == SubSeq(q, k + 1, Len(q))
         IN  /\ a \in Seq(Events) /\ Len(a) = k /\ Distinct(a)
             /\ b \in Seq(Events) /\ Len(b) = Len(q) - k /\ Distinct(b)
             /\ ToSet(q) = ToSet(a) \cup ToSet(b)
             /\ ToSet(a) \cap ToSet(b) = {}
<1> DEFINE a == SubSeq(q, 1, k)
           b == SubSeq(q, k + 1, Len(q))
<1>1. /\ Len(q) \in Nat /\ k \in Nat /\ k <= Len(q)
      /\ \A i \in 1..Len(q) : q[i] \in Events
  BY LenProperties, ElementOfSeq
<1>2. a \in Seq(Events) /\ Len(a) = k /\ \A i \in 1..k : a[i] = q[i]
  BY <1>1, SubSeqProperties
<1>3. /\ b \in Seq(Events) /\ Len(b) = Len(q) - k
      /\ \A i \in 1..(Len(q) - k) : b[i] = q[k + i]
  BY <1>1, SubSeqProperties
<1> HIDE DEF a, b
<1>4. /\ ToSet(a) = {a[i] : i \in 1..k} /\ ToSet(b) = {b[i] : i \in 1..(Len(q) - k)}
      /\ ToSet(q) = {q[i] : i \in 1..Len(q)}
  BY <1>2, <1>3, SetOfSeq
<1>5. Distinct(a) /\ Distinct(b)
  <2>1. Distinct(a)
    BY <1>1, <1>2 DEF Distinct
  <2>2. ASSUME NEW i \in 1..Len(b), NEW j \in 1..Len(b), b[i] = b[j] PROVE i = j
    <3>1. k + i \in 1..Len(q) /\ k + j \in 1..Len(q) /\ q[k + i] = q[k + j]
      BY <1>1, <1>3, <2>2
    <3>2. k + i = k + j
      BY <3>1 DEF Distinct
    <3> QED BY <1>1, <1>3, <3>2
  <2> QED BY <2>1, <2>2 DEF Distinct
<1>6. ToSet(q) \subseteq ToSet(a) \cup ToSet(b)
  <2> SUFFICES ASSUME NEW i \in 1..Len(q) PROVE q[i] \in ToSet(a) \cup ToSet(b)
    BY <1>4
  <2>1. CASE i <= k
    BY <1>1, <1>2, <1>4, <2>1
  <2>2. CASE i > k
    <3>1. i - k \in 1..(Len(q) - k) /\ b[i - k] = q[i]
      BY <1>1, <1>3, <2>2
    <3> QED BY <1>4, <3>1
  <2> QED BY <1>1, <2>1, <2>2
<1>7. ToSet(a) \subseteq ToSet(q) /\ ToSet(b) \subseteq ToSet(q)
  <2>1. ToSet(a) \subseteq ToSet(q)
    BY <1>1, <1>2, <1>4
  <2>2. ASSUME NEW i \in 1..(Len(q) - k) PROVE b[i] \in ToSet(q)
    <3>1. k + i \in 1..Len(q) /\ b[i] = q[k + i]
      BY <1>1, <1>3
    <3> QED BY <1>4, <3>1
  <2> QED BY <1>4, <2>1, <2>2
<1>8. ToSet(a) \cap ToSet(b) = {}
  <2>1. ASSUME NEW i \in 1..k, NEW j \in 1..(Len(q) - k) PROVE a[i] # b[j]
    <3>1. i \in 1..Len(q) /\ k + j \in 1..Len(q) /\ i # k + j
      BY <1>1
    <3>2. q[i] # q[k + j]
      BY <3>1 DEF Distinct
    <3>3. a[i] = q[i] /\ b[j] = q[k + j]
      BY <1>2, <1>3
    <3> QED BY <3>2, <3>3
  <2> QED BY <1>4, <2>1
<1> QED BY <1>2, <1>3, <1>5, <1>6, <1>7, <1>8 DEF a, b

\* Appending a new event keeps a sequence without repetition, and adds that event.
LEMMA Appended ==
  ASSUME NEW q \in Seq(Events), Distinct(q), NEW e \in Events, e \notin ToSet(q)
  PROVE  /\ Append(q, e) \in Seq(Events) /\ Distinct(Append(q, e))
         /\ ToSet(Append(q, e)) = ToSet(q) \cup {e}
         /\ Len(Append(q, e)) = Len(q) + 1
<1>1. PICK r : r = Append(q, e)
  OBVIOUS
<1>2. /\ Len(q) \in Nat /\ r \in Seq(Events) /\ Len(r) = Len(q) + 1
      /\ \A i \in 1..Len(q) : r[i] = q[i]
      /\ r[Len(q) + 1] = e
  BY <1>1
<1>3. ToSet(r) = {r[i] : i \in 1..(Len(q) + 1)} /\ ToSet(q) = {q[i] : i \in 1..Len(q)}
  BY <1>2, SetOfSeq
<1>4. Distinct(r)
  BY <1>2, <1>3 DEF Distinct
<1>5. ToSet(r) = ToSet(q) \cup {e}
  BY <1>2, <1>3
<1> QED BY <1>1, <1>2, <1>4, <1>5

\* As many elements as places.
LEMMA Counted ==
  ASSUME NEW s \in Seq(Events), Distinct(s)
  PROVE  IsFiniteSet(ToSet(s)) /\ Cardinality(ToSet(s)) = Len(s)
<1>1. /\ Len(s) \in Nat /\ ToSet(s) = {s[i] : i \in 1..Len(s)}
      /\ s \in [1..Len(s) -> ToSet(s)]
  BY SetOfSeq DEF ToSet
<1>2. s \in Bijection(1..Len(s), ToSet(s))
  BY <1>1 DEF Distinct, Bijection, Injection, Surjection, IsInjective
<1>3. ExistsBijection(1..Len(s), ToSet(s))
  BY <1>2 DEF ExistsBijection
<1> QED BY <1>1, <1>3, FS_CountingElements, FS_NatBijection

-----------------------------------------------------------------------------
(* Where the events are.                                                   *)

Aloft(F) == UNION {b.events : b \in F}

\* Events a call has still to put.
Own(c) == IF job[c].step = "emitting" THEN ToSet(job[c].rest) ELSE {}

\* Events that nobody owes.
Elsewhere == settled \cup unused \cup UNION {Own(c) : c \in Callers}

\* No event is in two places of the worker, or in one and in O.
Clean(q, F, O) ==
  /\ Distinct(q)
  /\ ToSet(q) \cap O = {}
  /\ \A b \in F : b.events # {} /\ b.events \cap (ToSet(q) \cup O) = {}
  /\ \A b1, b2 \in F : b1 # b2 => b1.events \cap b2.events = {}

Counts(q, F, n) == n = Len(q) + Cardinality(Aloft(F) \cup hung)

\* No event is in two places outside the worker.
Apart ==
  /\ hung \cap Elsewhere = {} /\ settled \cap unused = {}
  /\ \A c \in Callers : Own(c) \cap (settled \cup unused) = {}
  /\ \A c, d \in Callers : c # d => Own(c) \cap Own(d) = {}
  /\ \A c \in Callers : job[c].step = "emitting" =>
       job[c].rest # <<>> /\ Distinct(job[c].rest)

IInv ==
  /\ TypeOK
  /\ Clean(queue, flying, hung \cup Elsewhere)
  /\ Counts(queue, flying, pending)
  /\ Apart

\* The events in flight are finitely many, so that counting them makes sense.
LEMMA AloftFinite ==
  ASSUME IsFiniteSet(Events), NEW F \in SUBSET Flights, hung \in SUBSET Events
  PROVE  /\ Aloft(F) \subseteq Events /\ IsFiniteSet(Aloft(F) \cup hung)
         /\ Cardinality(Aloft(F) \cup hung) \in Nat
<1>1. Aloft(F) \subseteq Events
  BY DEF Aloft, Flights
<1>2. Aloft(F) \cup hung \in SUBSET Events
  BY <1>1
<1>3. IsFiniteSet(Aloft(F) \cup hung)
  BY <1>2, FS_Subset
<1> QED BY <1>1, <1>3, FS_CardinalityType

\* Take off moves events and loses none.
LEMMA TakeOffKeeps ==
  ASSUME IsFiniteSet(Events), TypeOK, NEW q \in Seq(Events), NEW O, hung \subseteq O,
         Clean(q, flying, O), NEW n, Counts(q, flying, n), TakeOff(q)
  PROVE  /\ queue' \in Seq(Events) /\ flying' \subseteq Flights
         /\ Clean(queue', flying', O) /\ Counts(queue', flying', n)
         /\ ToSet(queue') \cup Aloft(flying') = ToSet(q) \cup Aloft(flying)
<1>1. PICK k \in 0..Len(q) : Take(q) = SubSeq(q, 1, k) /\ Len(Take(q)) = k /\ (q # <<>> => k > 0)
  <2>1. Len(q) \in Nat /\ Distinct(q) /\ SubSeq(q, 1, Len(q)) = q /\ (q # <<>> => Len(q) > 0)
    BY SetOfSeq, SubSeqFull DEF Clean
  <2>2. CASE Len(q) < batchSize
    <3>1. Take(q) = q
      BY <2>2 DEF Take
    <3>2. Len(q) \in 0..Len(q)
      BY <2>1
    <3> QED BY <2>1, <3>1, <3>2
  <2>3. CASE ~(Len(q) < batchSize)
    <3>1. batchSize \in 0..Len(q) /\ batchSize > 0
      BY <2>1, <2>3, NodeWorkerAssumption
    <3>2. Len(SubSeq(q, 1, batchSize)) = batchSize
      BY <2>1, <3>1, Cut
    <3> QED BY <2>3, <3>1, <3>2 DEF Take
  <2> QED BY <2>2, <2>3
<1>2. PICK a, b : a = SubSeq(q, 1, k) /\ b = SubSeq(q, k + 1, Len(q))
  OBVIOUS
<1>3. /\ a \in Seq(Events) /\ Len(a) = k /\ Distinct(a)
      /\ b \in Seq(Events) /\ Len(b) = Len(q) - k /\ Distinct(b)
      /\ ToSet(q) = ToSet(a) \cup ToSet(b)
      /\ ToSet(a) \cap ToSet(b) = {}
  BY <1>2, Cut DEF Clean
<1>4. queue' = b
  BY <1>1, <1>2 DEF TakeOff
<1>5. CASE q = <<>>
  <2>1. b = <<>> /\ flying' = flying
    <3>1. k = 0 /\ Len(q) = 0
      BY <1>1, <1>5
    <3> QED BY <1>3, <1>5, <3>1, SetOfSeq DEF TakeOff
  <2> QED BY <1>3, <1>4, <1>5, <2>1 DEF TypeOK
<1>6. CASE q # <<>>
  <2>1. PICK f : f = [events |-> ToSet(a), tries |-> 0]
    OBVIOUS
  <2>2. f \in Flights /\ f.events = ToSet(a) /\ ToSet(a) # {}
    <3>1. ToSet(a) \subseteq Events /\ ToSet(a) # {}
      BY <1>1, <1>3, <1>6, SetOfSeq
    <3> QED BY <2>1, <3>1, NodeWorkerAssumption DEF Flights
  <2>3. flying' = flying \cup {f}
    BY <1>1, <1>2, <1>6, <2>1 DEF TakeOff
  <2>4. flying' \subseteq Flights
    BY <2>2, <2>3 DEF TypeOK
  <2>5. Aloft(flying') = Aloft(flying) \cup ToSet(a)
    BY <2>2, <2>3 DEF Aloft
  <2>6. Clean(b, flying', O)
    BY <1>3, <2>2, <2>3 DEF Clean
  <2>7. (Aloft(flying) \cup hung) \cap ToSet(a) = {}
    BY <1>3 DEF Clean, Aloft
  <2>8. Cardinality(Aloft(flying') \cup hung) = Cardinality(Aloft(flying) \cup hung) + k
    <3>1. IsFiniteSet(Aloft(flying) \cup hung) /\ Cardinality(Aloft(flying) \cup hung) \in Nat
      BY AloftFinite DEF TypeOK
    <3>2. IsFiniteSet(ToSet(a)) /\ Cardinality(ToSet(a)) = k
      BY <1>3, Counted
    <3>3. Cardinality((Aloft(flying) \cup hung) \cap ToSet(a)) = 0
      BY <2>7, FS_EmptySet
    <3>4. Aloft(flying') \cup hung = (Aloft(flying) \cup hung) \cup ToSet(a)
      BY <2>5
    <3>5. Cardinality(Aloft(flying') \cup hung)
            = Cardinality(Aloft(flying) \cup hung) + k - 0
      BY <3>1, <3>2, <3>3, <3>4, FS_Union
    <3> QED BY <3>1, <3>5
  <2>9. Cardinality(Aloft(flying) \cup hung) \in Nat /\ Len(q) \in Nat
    BY AloftFinite, SetOfSeq DEF TypeOK
  <2>10. Counts(b, flying', n)
    BY <1>3, <2>8, <2>9 DEF Counts
  <2> QED BY <1>3, <1>4, <2>4, <2>5, <2>6, <2>10
<1> QED BY <1>5, <1>6

-----------------------------------------------------------------------------
(* Steps that leave every event in its place, or move it to the network.   *)

\* What a caller waits for, as EventQueue sees it.
Waits == [c \in Callers |->
            IF job[c].step = "draining"
            THEN [for |-> job[c].owed, waiting |-> TRUE]
            ELSE [for |-> {}, waiting |-> FALSE]]

\* What is owed is queued, in flight, or hung.
LEMMA OwedIs == Owed = ToSet(queue) \cup Aloft(flying) \cup hung
BY DEF Owed, Aloft

\* Which step a caller stands at tells what its job holds.
LEMMA JobKind ==
  ASSUME TypeOK, NEW c \in Callers
  PROVE  /\ job \in [Callers -> Jobs] /\ job[c] \in Jobs
         /\ job[c].step \in {"idle", "emitting", "draining"}
         /\ job[c].step = "idle" => job[c] = Idle
         /\ job[c].step = "emitting" => job[c].rest \in Seq(Events)
         /\ Own(c) \subseteq Events
<1>1. job \in [Callers -> Jobs] /\ job[c] \in Jobs
  BY DEF TypeOK
<1>2. /\ job[c].step \in {"idle", "emitting", "draining"}
      /\ job[c].step = "idle" => job[c] = Idle
      /\ job[c].step = "emitting" => job[c].rest \in Seq(Events)
  BY <1>1 DEF Jobs, Idle
<1>3. Own(c) \subseteq Events
  BY <1>2, SetOfSeq DEF Own
<1> QED BY <1>1, <1>2, <1>3

\* Nobody starts, ends or goes on with a call that puts events.
SamePuts ==
  \A c \in Callers :
    \/ job'[c] = job[c]
    \/ job[c].step # "emitting" /\ job'[c].step # "emitting"

\* While no call puts an event, what lies elsewhere stays there.
LEMMA SamePlaces ==
  ASSUME SamePuts, UNCHANGED <<settled, unused>>
  PROVE  /\ Elsewhere' = Elsewhere
         /\ Apart /\ UNCHANGED hung => Apart'
<1>1. \A c \in Callers : Own(c)' = Own(c)
  BY DEF SamePuts, Own
<1>2. Elsewhere' = Elsewhere
  BY <1>1 DEF Elsewhere
<1> QED BY <1>1, <1>2 DEF Apart, SamePuts

\* A call of flush or close, given what became of the queue.
LEMMA DrainStep ==
  ASSUME IInv, NEW c \in Callers, job[c] = Idle, Drain(c)
  PROVE  /\ job' \in [Callers -> Jobs] /\ SamePuts
         /\ UNCHANGED <<Owed, settled>> => [Queue!Next]_(Queue!vars)
<1>1. Owed \subseteq Events
  BY OwedIs, SetOfSeq, AloftFinite DEF IInv, TypeOK, Aloft, Flights
<1>2. job \in [Callers -> Jobs] /\ Idle.step = "idle"
  BY DEF IInv, TypeOK, Idle
<1>3. CASE pending = 0
  <2>1. job' = job
    BY <1>2, <1>3 DEF Drain
  <2> QED BY <1>2, <2>1 DEF SamePuts, Queue!vars
<1>4. CASE pending # 0
  <2>1. PICK new : new = [step |-> "draining", owed |-> Owed]
    OBVIOUS
  <2>2. new \in Jobs /\ new.step = "draining" /\ new.owed = Owed
    BY <1>1, <2>1 DEF Jobs
  <2>3. job' = [job EXCEPT ![c] = new]
    BY <1>4, <2>1 DEF Drain
  <2>4. job' \in [Callers -> Jobs] /\ SamePuts
    BY <1>2, <2>2, <2>3 DEF SamePuts
  <2>5. ~Waits[c].waiting
    BY <1>2 DEF Waits
  <2>6. Waits' = [Waits EXCEPT ![c] = [for |-> Owed, waiting |-> TRUE]]
    BY <1>2, <2>2, <2>3 DEF Waits
  <2>7. UNCHANGED <<Owed, settled>> => Queue!Wait(c)
    BY <2>5, <2>6 DEF Waits, Queue!Wait
  <2> QED BY <2>4, <2>7 DEF Queue!Next
<1> QED BY <1>3, <1>4

\* A call of flush waits for what is owed, and moves nothing.
LEMMA FlushStep ==
  ASSUME IsFiniteSet(Events), IInv, NEW c \in Callers, Flush(c)
  PROVE  IInv' /\ [Queue!Next]_(Queue!vars)
<1>1. /\ job' \in [Callers -> Jobs] /\ SamePuts
      /\ UNCHANGED <<Owed, settled>> => [Queue!Next]_(Queue!vars)
  BY DrainStep DEF Flush
<1>2. Elsewhere' = Elsewhere /\ Apart'
  BY <1>1, SamePlaces DEF Flush, IInv
<1>3. IInv'
  BY <1>1, <1>2 DEF Flush, IInv, TypeOK, Clean, Counts
<1>4. Owed' = Owed
  BY DEF Flush, Owed
<1> QED BY <1>1, <1>3, <1>4 DEF Flush

\* A call of close ends the worker, sends what is left and waits for what is owed.
LEMMA CloseStep ==
  ASSUME IsFiniteSet(Events), IInv, NEW c \in Callers, Close(c)
  PROVE  IInv' /\ [Queue!Next]_(Queue!vars)
<1>1. /\ job' \in [Callers -> Jobs] /\ SamePuts
      /\ UNCHANGED <<Owed, settled>> => [Queue!Next]_(Queue!vars)
  BY DrainStep DEF Close
<1>2. Elsewhere' = Elsewhere /\ Apart'
  BY <1>1, SamePlaces DEF Close, IInv
<1>3. /\ queue' \in Seq(Events) /\ flying' \subseteq Flights
      /\ Clean(queue', flying', hung \cup Elsewhere) /\ Counts(queue', flying', pending)
      /\ ToSet(queue') \cup Aloft(flying') = ToSet(queue) \cup Aloft(flying)
  BY TakeOffKeeps DEF Close, SendRest, IInv, TypeOK
<1>4. TypeOK'
  BY <1>1, <1>3 DEF Close, IInv, TypeOK
<1>5. Clean(queue, flying, hung \cup Elsewhere)' /\ Counts(queue, flying, pending)'
  BY <1>2, <1>3 DEF Close, Clean, Counts
<1>6. Owed' = Owed
  BY <1>3, OwedIs DEF Close, Owed, Aloft
<1> QED BY <1>1, <1>2, <1>4, <1>5, <1>6 DEF Close, IInv

\* The timer sends off a batch of what is queued.
LEMMA TimerStep ==
  ASSUME IsFiniteSet(Events), IInv, Timer
  PROVE  IInv' /\ [Queue!Next]_(Queue!vars)
<1>1. SamePuts /\ UNCHANGED <<job, hung, settled, pending>>
  BY DEF Timer, SamePuts
<1>2. Elsewhere' = Elsewhere /\ Apart'
  BY <1>1, SamePlaces DEF Timer, IInv
<1>3. /\ queue' \in Seq(Events) /\ flying' \subseteq Flights
      /\ Clean(queue', flying', hung \cup Elsewhere) /\ Counts(queue', flying', pending)
      /\ ToSet(queue') \cup Aloft(flying') = ToSet(queue) \cup Aloft(flying)
  BY TakeOffKeeps DEF Timer, IInv, TypeOK
<1>4. TypeOK'
  BY <1>3 DEF Timer, IInv, TypeOK
<1>5. Clean(queue, flying, hung \cup Elsewhere)' /\ Counts(queue, flying, pending)'
  BY <1>1, <1>2, <1>3 DEF Clean, Counts
<1>6. Owed' = Owed
  BY <1>1, <1>3, OwedIs DEF Owed, Aloft
<1> QED BY <1>1, <1>2, <1>4, <1>5, <1>6 DEF IInv, Queue!vars

-----------------------------------------------------------------------------
(* Calls that put events.                                                  *)

\* A call is given distinct events that nobody has put before.
LEMMA BatchIs ==
  ASSUME TypeOK, NEW s \in Batches
  PROVE  s \in Seq(Events) /\ s # <<>> /\ Distinct(s) /\ ToSet(s) \subseteq unused
<1>1. CASE \E e \in unused : s = <<e>>
  <2>1. PICK e \in unused : s = <<e>>
    BY <1>1
  <2>2. e \in Events
    BY DEF TypeOK
  <2>3. s \in Seq(Events) /\ Len(s) = 1 /\ s[1] = e
    BY <2>1, <2>2
  <2>4. ToSet(s) = {s[i] : i \in 1..1}
    BY <2>3, SetOfSeq
  <2> QED BY <2>1, <2>3, <2>4 DEF Distinct
<1>2. CASE \E p \in unused \X unused : p[1] # p[2] /\ s = <<p[1], p[2]>>
  <2>1. PICK e \in unused, f \in unused : e # f /\ s = <<e, f>>
    BY <1>2
  <2>2. e \in Events /\ f \in Events
    BY DEF TypeOK
  <2>3. s \in Seq(Events) /\ Len(s) = 2 /\ s[1] = e /\ s[2] = f
    BY <2>1, <2>2
  <2>4. ToSet(s) = {s[i] : i \in 1..2}
    BY <2>3, SetOfSeq
  <2> QED BY <2>1, <2>3, <2>4 DEF Distinct
<1> QED BY <1>1, <1>2 DEF Batches

\* A call that begins has its events to itself.
LEMMA StartEmitStep ==
  ASSUME IInv, NEW c \in Callers, StartEmit(c)
  PROVE  IInv' /\ [Queue!Next]_(Queue!vars)
<1>1. PICK s \in Batches :
        /\ job' = [job EXCEPT ![c] = [step |-> "emitting", rest |-> s]]
        /\ unused' = unused \ ToSet(s)
  BY DEF StartEmit
<1>2. s \in Seq(Events) /\ s # <<>> /\ Distinct(s) /\ ToSet(s) \subseteq unused
  BY BatchIs DEF IInv
<1>3. PICK new : new = [step |-> "emitting", rest |-> s]
  OBVIOUS
<1>4. new \in Jobs /\ new.step = "emitting" /\ new.rest = s
  BY <1>2, <1>3 DEF Jobs
<1>5. /\ job \in [Callers -> Jobs] /\ job[c].step = "idle"
      /\ UNCHANGED <<queue, pending, stopped, flying, hung, held, exited, settled, late>>
  BY DEF StartEmit, IInv, TypeOK, Idle
<1>6. /\ job' \in [Callers -> Jobs] /\ job'[c] = new
      /\ \A d \in Callers \ {c} : job'[d] = job[d]
  BY <1>1, <1>3, <1>4, <1>5
<1>7. /\ Own(c) = {} /\ Own(c)' = ToSet(s)
      /\ \A d \in Callers \ {c} : Own(d)' = Own(d)
  BY <1>4, <1>5, <1>6 DEF Own
<1>8. unused' = unused \ ToSet(s) /\ unused' \subseteq Events
  BY <1>1 DEF IInv, TypeOK
<1>9. TypeOK'
  BY <1>5, <1>6, <1>8 DEF IInv, TypeOK
<1>10. Elsewhere' = Elsewhere
  BY <1>2, <1>5, <1>7, <1>8 DEF Elsewhere
<1>11. Apart'
  <2>1. hung' \cap Elsewhere' = {} /\ settled' \cap unused' = {}
    BY <1>5, <1>8, <1>10 DEF IInv, Apart
  <2>2. \A d \in Callers : Own(d)' \cap (settled' \cup unused') = {}
    BY <1>2, <1>5, <1>7, <1>8 DEF IInv, Apart
  <2>3. \A d, e \in Callers : d # e => Own(d)' \cap Own(e)' = {}
    BY <1>2, <1>7 DEF IInv, Apart
  <2>4. \A d \in Callers : job'[d].step = "emitting" =>
          job'[d].rest # <<>> /\ Distinct(job'[d].rest)
    BY <1>2, <1>4, <1>6 DEF IInv, Apart
  <2> QED BY <2>1, <2>2, <2>3, <2>4 DEF Apart
<1>12. Clean(queue, flying, hung \cup Elsewhere)' /\ Counts(queue, flying, pending)'
  BY <1>5, <1>10 DEF IInv, Clean, Counts
<1>13. Waits' = Waits
  BY <1>4, <1>5, <1>6 DEF Waits
<1>14. UNCHANGED Queue!vars
  BY <1>5, <1>13 DEF Queue!vars, Owed, Waits
<1> QED BY <1>9, <1>11, <1>12, <1>14 DEF IInv

\* The call that put e has no more to do with it.
LEMMA PutOwn ==
  ASSUME IInv, NEW c \in Callers, job[c].step = "emitting",
         NEW e, e = Head(job[c].rest),
         job' = [job EXCEPT ![c] = RestOf(c)]
           \/ job' = [job EXCEPT ![c] = Idle],
         UNCHANGED <<hung, settled, unused>>
  PROVE  /\ e \in Events /\ e \in Own(c) /\ e \notin hung \cup settled \cup unused
         /\ job' \in [Callers -> Jobs] /\ Waits' = Waits
         /\ Elsewhere' \subseteq Elsewhere /\ e \notin Elsewhere'
         /\ Apart'
<1>1. /\ job \in [Callers -> Jobs] /\ job[c] \in Jobs /\ job[c].rest \in Seq(Events)
      /\ job[c].rest # <<>> /\ Distinct(job[c].rest) /\ Own(c) = ToSet(job[c].rest)
  BY JobKind DEF IInv, Apart, Own
<1>2. PICK r, t : r = job[c].rest /\ t = Tail(job[c].rest)
  OBVIOUS
<1>3. /\ Len(r) \in Nat \ {0} /\ e = r[1] /\ e \in Events /\ e \in ToSet(r)
      /\ r \in Seq(Events) /\ Distinct(r) /\ t \in Seq(Events) /\ Len(t) = Len(r) - 1
      /\ \A i \in 1..(Len(r) - 1) : t[i] = r[i + 1]
  BY <1>1, <1>2, SetOfSeq
<1>4. /\ Distinct(t) /\ ToSet(t) \subseteq ToSet(r) /\ e \notin ToSet(t)
      /\ Len(r) # 1 => t # <<>>
  <2>1. ToSet(t) = {t[i] : i \in 1..(Len(r) - 1)} /\ ToSet(r) = {r[i] : i \in 1..Len(r)}
    BY <1>3, SetOfSeq
  <2>2. \A i \in 1..(Len(r) - 1) : i + 1 \in 1..Len(r) /\ i + 1 # 1
    BY <1>3
  <2>3. ToSet(t) \subseteq ToSet(r) /\ e \notin ToSet(t)
    <3>1. ToSet(t) \subseteq ToSet(r)
      BY <1>3, <2>1, <2>2
    <3>2. \A i \in 1..(Len(r) - 1) : r[i + 1] # e
      BY <1>3, <2>2 DEF Distinct
    <3>3. e \notin ToSet(t)
      BY <1>3, <2>1, <3>2
    <3> QED BY <3>1, <3>3
  <2>4. Distinct(t)
    <3> SUFFICES ASSUME NEW i \in 1..Len(t), NEW j \in 1..Len(t),
                        t[i] = t[j]
                 PROVE  i = j
      BY DEF Distinct
    <3>1. i + 1 = j + 1
      BY <1>3, <2>2 DEF Distinct
    <3> QED BY <1>3, <3>1
  <2>5. Len(r) # 1 => t # <<>>
    BY <1>3
  <2> QED BY <2>3, <2>4, <2>5
<1>5. PICK new : /\ job' = [job EXCEPT ![c] = new]
                 /\ \/ new = Idle
                    \/ Len(r) # 1 /\ new = [job[c] EXCEPT !.rest = t]
  <2>1. CASE job' = [job EXCEPT ![c] = Idle]
    BY <2>1
  <2>2. CASE job' = [job EXCEPT ![c] = RestOf(c)]
    <3>1. PICK new : new = RestOf(c)
      OBVIOUS
    <3>2. new = Idle \/ (Len(r) # 1 /\ new = [job[c] EXCEPT !.rest = t])
      <4>1. CASE Len(r) = 1
        <5>1. Len(job[c].rest) = 1
          BY <1>2, <4>1
        <5>2. new = Idle
          BY <3>1, <5>1 DEF RestOf
        <5> QED BY <5>2
      <4>2. CASE Len(r) # 1
        <5>1. [job[c] EXCEPT !.rest = t] = [job[c] EXCEPT !.rest = Tail(job[c].rest)]
          BY <1>2
        <5>2. new = [job[c] EXCEPT !.rest = Tail(job[c].rest)]
          BY <1>2, <3>1, <4>2 DEF RestOf
        <5> QED BY <4>2, <5>1, <5>2
      <4> QED BY <4>1, <4>2
    <3> QED BY <2>2, <3>1, <3>2
  <2> QED BY <2>1, <2>2
<1>6. /\ new \in Jobs
      /\ \/ new.step = "idle"
         \/ new.step = "emitting" /\ new.rest = t /\ t # <<>>
  <2>1. CASE new = Idle
    BY <2>1 DEF Jobs, Idle
  <2>2. CASE Len(r) # 1 /\ new = [job[c] EXCEPT !.rest = t]
    <3>1. job[c] \in [step : {"emitting"}, rest : Seq(Events)]
      BY <1>1 DEF Jobs, Idle
    <3>2. new \in [step : {"emitting"}, rest : Seq(Events)] /\ new.rest = t
      BY <1>3, <2>2, <3>1
    <3> QED BY <1>4, <2>2, <3>2 DEF Jobs
  <2> QED BY <1>5, <2>1, <2>2
<1>7. /\ job' \in [Callers -> Jobs] /\ job'[c] = new
      /\ \A d \in Callers \ {c} : job'[d] = job[d]
  BY <1>1, <1>5, <1>6
<1>8. /\ Own(c)' \in {{}, ToSet(t)} /\ Own(c)' \subseteq Own(c) /\ e \notin Own(c)'
      /\ \A d \in Callers \ {c} : Own(d)' = Own(d)
  BY <1>1, <1>2, <1>4, <1>6, <1>7 DEF Own
<1>9. e \in Own(c) /\ e \notin hung \cup settled \cup unused
  BY <1>1, <1>2, <1>3 DEF IInv, Apart, Elsewhere
<1>10. Elsewhere' \subseteq Elsewhere
  BY <1>8 DEF Elsewhere
<1>11. e \notin Elsewhere'
  BY <1>8, <1>9 DEF Elsewhere, IInv, Apart
<1>12. Apart'
  <2>1. hung' \cap Elsewhere' = {} /\ settled' \cap unused' = {}
    BY <1>10 DEF IInv, Apart
  <2>2. \A d \in Callers : Own(d)' \cap (settled' \cup unused') = {}
    BY <1>8 DEF IInv, Apart
  <2>3. \A d, f \in Callers : d # f => Own(d)' \cap Own(f)' = {}
    BY <1>8 DEF IInv, Apart
  <2>4. \A d \in Callers : job'[d].step = "emitting" =>
          job'[d].rest # <<>> /\ Distinct(job'[d].rest)
    BY <1>4, <1>6, <1>7 DEF IInv, Apart
  <2> QED BY <2>1, <2>2, <2>3, <2>4 DEF Apart
<1>13. Waits' = Waits
  BY <1>6, <1>7 DEF Waits
<1> QED BY <1>3, <1>7, <1>9, <1>10, <1>11, <1>12, <1>13

\* An event is put in the queue, or is refused with the rest of its call.
LEMMA PutStep ==
  ASSUME IsFiniteSet(Events), IInv, NEW c \in Callers, Put(c)
  PROVE  IInv' /\ [Queue!Next]_(Queue!vars)
<1>1. PICK e : e = Head(job[c].rest)
  OBVIOUS
<1>2. /\ job[c].step = "emitting" /\ queue \in Seq(Events) /\ flying \subseteq Flights
      /\ UNCHANGED <<stopped, hung, held, exited, unused, settled>>
      /\ pending \in Nat /\ late \subseteq Events
  BY DEF Put, IInv, TypeOK
<1>3. \/ job' = [job EXCEPT ![c] = RestOf(c)]
      \/ job' = [job EXCEPT ![c] = Idle]
  BY DEF Put
<1>4. /\ e \in Events /\ e \in Own(c) /\ e \notin hung \cup settled \cup unused
      /\ job' \in [Callers -> Jobs] /\ Waits' = Waits
      /\ Elsewhere' \subseteq Elsewhere /\ e \notin Elsewhere'
      /\ Apart'
  BY <1>1, <1>2, <1>3, PutOwn
<1>5. PICK O : O = hung \cup Elsewhere'
  OBVIOUS
<1>6. O \subseteq hung \cup Elsewhere /\ e \notin O /\ hung \subseteq O
      /\ O = hung' \cup Elsewhere'
  BY <1>2, <1>4, <1>5
<1>7. Clean(queue, flying, O) /\ Counts(queue, flying, pending)
  BY <1>6 DEF IInv, Clean
<1>8. CASE e \in Invalid
  <2>1. UNCHANGED <<queue, pending, flying, late>>
    BY <1>1, <1>8 DEF Put
  <2>2. TypeOK'
    BY <1>2, <1>4, <2>1 DEF IInv, TypeOK
  <2>3. Clean(queue, flying, hung \cup Elsewhere)' /\ Counts(queue, flying, pending)'
    BY <1>2, <1>6, <1>7, <2>1 DEF Clean, Counts
  <2>4. UNCHANGED Queue!vars
    BY <1>2, <1>4, <2>1 DEF Queue!vars, Owed, Waits
  <2> QED BY <1>4, <2>2, <2>3, <2>4 DEF IInv
<1>9. CASE e \notin Invalid
  <2>1. /\ Enqueue(e) /\ pending' = pending + 1 /\ late' \subseteq Events
    BY <1>1, <1>2, <1>4, <1>9 DEF Put, Enqueue
  <2>2. e \in Elsewhere /\ e \notin ToSet(queue) /\ \A b \in flying : e \notin b.events
    BY <1>4 DEF IInv, Clean, Elsewhere
  <2>3. PICK q : q = Append(queue, e)
    OBVIOUS
  <2>4. /\ q \in Seq(Events) /\ Distinct(q) /\ ToSet(q) = ToSet(queue) \cup {e}
        /\ Len(q) = Len(queue) + 1 /\ Len(queue) \in Nat
    BY <1>2, <1>4, <1>7, <2>2, <2>3, Appended, SetOfSeq DEF Clean
  <2>5. Clean(q, flying, O)
    BY <1>6, <1>7, <2>2, <2>4 DEF Clean
  <2>6. Counts(q, flying, pending + 1)
    <3>1. Cardinality(Aloft(flying) \cup hung) \in Nat
      BY AloftFinite DEF IInv, TypeOK
    <3> QED BY <1>7, <2>4, <3>1 DEF Counts
  <2>7. /\ queue' \in Seq(Events) /\ flying' \subseteq Flights
        /\ Clean(queue', flying', O) /\ Counts(queue', flying', pending + 1)
        /\ ToSet(queue') \cup Aloft(flying') = ToSet(q) \cup Aloft(flying)
    <3>1. CASE Leaves(q)
      <4>1. TakeOff(q)
        BY <2>1, <2>3, <3>1 DEF Enqueue
      <4> QED BY <1>6, <2>4, <2>5, <2>6, <4>1, TakeOffKeeps DEF IInv
    <3>2. CASE ~Leaves(q)
      <4>1. queue' = q /\ flying' = flying
        BY <2>1, <2>3, <3>2 DEF Enqueue
      <4> QED BY <1>2, <2>4, <2>5, <2>6, <4>1
    <3> QED BY <3>1, <3>2
  <2>8. TypeOK'
    BY <1>2, <1>4, <2>1, <2>7 DEF IInv, TypeOK
  <2>9. Clean(queue, flying, hung \cup Elsewhere)' /\ Counts(queue, flying, pending)'
    BY <1>2, <1>6, <2>1, <2>7 DEF Clean, Counts
  <2>10. Owed' = Owed \cup {e}
    BY <1>2, <2>4, <2>7, OwedIs DEF Owed, Aloft
  <2>11. e \notin Owed \cup settled
    BY <1>4, <2>2, OwedIs DEF Aloft
  <2>12. Queue!Put(e)
    BY <1>2, <1>4, <2>10, <2>11 DEF Queue!Put, Waits
  <2> QED BY <1>4, <2>8, <2>9, <2>12 DEF IInv, Queue!Next
<1> QED BY <1>8, <1>9

-----------------------------------------------------------------------------
(* The network.                                                            *)

\* What a batch that is being posted has to do with the rest.
LEMMA FlightIs ==
  ASSUME IsFiniteSet(Events), IInv, NEW b \in flying
  PROVE  /\ b \in Flights /\ b.events \subseteq Aloft(flying) /\ b.events # {}
         /\ IsFiniteSet(b.events) /\ Count(b) \in Nat
         /\ b.events \cap (ToSet(queue) \cup hung \cup Elsewhere) = {}
         /\ Aloft(flying \ {b}) = Aloft(flying) \ b.events
         /\ Cardinality((Aloft(flying) \cup hung) \ b.events)
              = Cardinality(Aloft(flying) \cup hung) - Count(b)
         /\ Count(b) <= Cardinality(Aloft(flying) \cup hung)
         /\ Count(b) = Cardinality(Aloft(flying) \cup hung) =>
              b.events = Aloft(flying) \cup hung
<1>1. b \in Flights /\ b.events \subseteq Events /\ b.events \subseteq Aloft(flying)
  BY DEF IInv, TypeOK, Flights, Aloft
<1>2. b.events # {} /\ b.events \cap (ToSet(queue) \cup hung \cup Elsewhere) = {}
  BY DEF IInv, Clean
<1>3. Aloft(flying \ {b}) = Aloft(flying) \ b.events
  BY DEF IInv, Clean, Aloft
<1>4. IsFiniteSet(b.events) /\ Count(b) \in Nat
  BY <1>1, FS_Subset, FS_CardinalityType DEF Count
<1>5. PICK U : U = Aloft(flying) \cup hung
  OBVIOUS
<1>6. IsFiniteSet(U) /\ b.events \in SUBSET U /\ U \cap b.events = b.events
  BY <1>1, <1>5, AloftFinite DEF IInv, TypeOK
<1>7. Cardinality(U \ b.events) = Cardinality(U) - Count(b)
  BY <1>6, FS_Difference DEF Count
<1>8. Count(b) <= Cardinality(U) /\ (Count(b) = Cardinality(U) => b.events = U)
  BY <1>6, FS_Subset DEF Count
<1> QED BY <1>1, <1>2, <1>3, <1>4, <1>5, <1>7, <1>8

\* A batch that lands is owed no more, and the count goes down by its size.
LEMMA LandStep ==
  ASSUME IsFiniteSet(Events), IInv, NEW b \in flying, Land(b),
         UNCHANGED <<queue, stopped, hung, held, exited, unused, late>>
  PROVE  IInv' /\ [Queue!Next]_(Queue!vars)
<1>1. /\ b \in Flights /\ b.events \subseteq Aloft(flying) /\ b.events # {}
      /\ IsFiniteSet(b.events) /\ Count(b) \in Nat
      /\ b.events \cap (ToSet(queue) \cup hung \cup Elsewhere) = {}
      /\ Aloft(flying \ {b}) = Aloft(flying) \ b.events
  BY FlightIs
<1>2. PICK n : n = Cardinality(Aloft(flying) \cup hung)
  OBVIOUS
<1>3. /\ n \in Nat /\ Count(b) <= n /\ (Count(b) = n => b.events = Aloft(flying) \cup hung)
      /\ Cardinality((Aloft(flying) \cup hung) \ b.events) = n - Count(b)
  BY <1>2, FlightIs, AloftFinite DEF IInv, TypeOK
<1>4. pending = Len(queue) + n /\ Len(queue) \in Nat /\ (Len(queue) = 0 => queue = <<>>)
  BY <1>2, SetOfSeq DEF IInv, Counts, TypeOK
<1>5. PICK released : released = IF Drained(b) THEN {c \in Callers : job[c].step = "draining"}
                                 ELSE {}
  OBVIOUS
<1>6. /\ job \in [Callers -> Jobs]
      /\ job' = [c \in Callers |-> IF c \in released THEN Idle ELSE job[c]]
      /\ \A c \in released : c \in Callers /\ job[c].step = "draining"
  BY <1>5 DEF Land, IInv, TypeOK
<1>7. Idle \in Jobs /\ Idle.step = "idle"
  BY DEF Idle, Jobs
<1>8. job' \in [Callers -> Jobs] /\ SamePuts
  BY <1>6, <1>7 DEF SamePuts
<1>9. /\ flying' = flying \ {b} /\ settled' = settled \cup b.events
      /\ pending' = Len(queue) + (n - Count(b)) /\ pending' \in Nat
  BY <1>1, <1>3, <1>4 DEF Land
<1>10. \A c \in Callers : Own(c)' = Own(c)
  BY <1>8 DEF SamePuts, Own
<1>11. Elsewhere' = Elsewhere \cup b.events
  BY <1>9, <1>10 DEF Elsewhere
<1>12. TypeOK'
  <2>1. b.events \subseteq Events
    BY <1>1 DEF Flights
  <2> QED BY <1>8, <1>9, <2>1 DEF IInv, TypeOK
<1>13. (Aloft(flying) \cup hung)' = (Aloft(flying) \cup hung) \ b.events
  BY <1>1, <1>9 DEF Aloft
<1>14. Counts(queue, flying, pending)'
  BY <1>3, <1>9, <1>13 DEF Counts
<1>15. Clean(queue, flying, hung \cup Elsewhere)'
  BY <1>1, <1>9, <1>11 DEF IInv, Clean
<1>16. Apart'
  <2>1. b.events \cap hung = {} /\ b.events \cap unused = {}
        /\ \A c \in Callers : b.events \cap Own(c) = {}
    BY <1>1 DEF Elsewhere
  <2>2. hung' \cap Elsewhere' = {} /\ settled' \cap unused' = {}
    BY <1>9, <1>11, <2>1 DEF IInv, Apart
  <2>3. \A c \in Callers : Own(c)' \cap (settled' \cup unused') = {}
    BY <1>9, <1>10, <2>1 DEF IInv, Apart
  <2>4. \A c, d \in Callers : c # d => Own(c)' \cap Own(d)' = {}
    BY <1>10 DEF IInv, Apart
  <2>5. \A c \in Callers : job'[c].step = "emitting" =>
          job'[c].rest # <<>> /\ Distinct(job'[c].rest)
    BY <1>8 DEF SamePuts, IInv, Apart
  <2> QED BY <2>2, <2>3, <2>4, <2>5 DEF Apart
<1>17. Owed' = Owed \ b.events /\ b.events \subseteq Owed
  <2>1. Owed' = (ToSet(queue) \cup (Aloft(flying) \cup hung)')
    BY DEF Owed, Aloft
  <2> QED BY <1>1, <1>13, <2>1, OwedIs
<1>18. Drained(b) => Owed' = {}
  <2>1. Drained(b) => Len(queue) = 0 /\ Count(b) = n
    BY <1>1, <1>3, <1>4 DEF Drained
  <2>2. Drained(b) => queue = <<>> /\ b.events = Aloft(flying) \cup hung
    BY <1>3, <1>4, <2>1
  <2> QED BY <1>17, <2>2, OwedIs, EmptySet
<1>19. \A c \in released : Waits[c].waiting /\ Waits[c].for \cap Owed' = {}
  BY <1>5, <1>6, <1>18 DEF Waits
<1>20. Waits' = [c \in Callers |-> IF c \in released THEN Queue!NotWaiting ELSE Waits[c]]
  BY <1>6, <1>7 DEF Waits, Queue!NotWaiting
<1>21. Queue!Leave(b.events, released)
  BY <1>1, <1>9, <1>17, <1>19, <1>20 DEF Queue!Leave, Waits
<1>22. b.events \in SUBSET Owed /\ released \in SUBSET Callers
  BY <1>6, <1>17
<1> QED BY <1>12, <1>14, <1>15, <1>16, <1>21, <1>22 DEF IInv, Queue!Next

\* A batch that is posted again is the batch it was.
LEMMA RetryStep ==
  ASSUME IsFiniteSet(Events), IInv, NEW b \in flying, MayRetry(b),
         flying' = (flying \ {b}) \cup {[b EXCEPT !.tries = @ + 1]},
         UNCHANGED <<queue, stopped, hung, held, exited, unused, late, pending, job, settled>>
  PROVE  IInv' /\ [Queue!Next]_(Queue!vars)
<1>1. PICK f : f = [b EXCEPT !.tries = @ + 1]
  OBVIOUS
<1>2. b \in Flights /\ b.events # {}
  BY FlightIs
<1>3. f \in Flights /\ f.events = b.events
  BY <1>1, <1>2, NodeWorkerAssumption DEF Flights, MayRetry
<1>4. flying' = (flying \ {b}) \cup {f}
  BY <1>1
<1>5. flying' \subseteq Flights /\ Aloft(flying') = Aloft(flying)
  BY <1>3, <1>4 DEF IInv, TypeOK, Aloft
<1>6. Elsewhere' = Elsewhere /\ Apart'
  BY SamePlaces DEF SamePuts, IInv
<1>7. TypeOK'
  BY <1>5 DEF IInv, TypeOK
<1>8. Clean(queue, flying', hung \cup Elsewhere)
  BY <1>3, <1>4 DEF IInv, Clean
<1>9. Clean(queue, flying, hung \cup Elsewhere)' /\ Counts(queue, flying, pending)'
  BY <1>5, <1>6, <1>8 DEF IInv, Clean, Counts
<1>10. UNCHANGED Queue!vars
  BY <1>5 DEF Queue!vars, Owed, Aloft
<1> QED BY <1>6, <1>7, <1>9, <1>10 DEF IInv

\* A batch whose post hangs is owed still.
LEMMA CutShortStep ==
  ASSUME IsFiniteSet(Events), IInv, NEW b \in flying, CutShort(b)
  PROVE  IInv' /\ [Queue!Next]_(Queue!vars)
<1>1. /\ b \in Flights /\ b.events \subseteq Aloft(flying) /\ b.events # {}
      /\ b.events \cap (ToSet(queue) \cup hung \cup Elsewhere) = {}
      /\ Aloft(flying \ {b}) = Aloft(flying) \ b.events
  BY FlightIs
<1>2. /\ flying' = flying \ {b} /\ hung' = hung \cup b.events
      /\ UNCHANGED <<queue, pending, stopped, job, held, exited, unused, settled, late>>
  BY DEF CutShort
<1>3. Elsewhere' = Elsewhere /\ \A c \in Callers : Own(c)' = Own(c)
  BY <1>2 DEF Elsewhere, Own
<1>4. (Aloft(flying) \cup hung)' = Aloft(flying) \cup hung
  BY <1>1, <1>2 DEF Aloft
<1>5. TypeOK'
  BY <1>1, <1>2 DEF IInv, TypeOK, Flights
<1>6. Clean(queue, flying, hung \cup Elsewhere)'
  BY <1>1, <1>2, <1>3 DEF IInv, Clean
<1>7. Counts(queue, flying, pending)'
  BY <1>2, <1>4 DEF IInv, Counts
<1>8. Apart'
  BY <1>1, <1>2, <1>3 DEF IInv, Apart
<1>9. Owed' = ToSet(queue) \cup (Aloft(flying) \cup hung)'
  BY <1>2 DEF Owed, Aloft
<1>10. Owed' = Owed
  BY <1>4, <1>9, OwedIs
<1>11. UNCHANGED Queue!vars
  BY <1>2, <1>10 DEF Queue!vars
<1> QED BY <1>5, <1>6, <1>7, <1>8, <1>11 DEF IInv

\* The process ends, or its application lets it.
LEMMA ProcessStep ==
  ASSUME IInv, LetGo \/ Exit \/ UNCHANGED vars
  PROVE  IInv' /\ [Queue!Next]_(Queue!vars)
<1>1. /\ UNCHANGED <<queue, pending, stopped, flying, hung, job, unused, settled, late>>
      /\ held' \in BOOLEAN /\ exited' \in BOOLEAN
  BY DEF LetGo, Exit, vars, IInv, TypeOK
<1>2. Elsewhere' = Elsewhere /\ Apart'
  BY <1>1, SamePlaces DEF SamePuts, IInv
<1>3. IInv'
  BY <1>1, <1>2 DEF IInv, TypeOK, Clean, Counts
<1>4. UNCHANGED Queue!vars
  BY <1>1 DEF Queue!vars, Owed
<1> QED BY <1>3, <1>4

-----------------------------------------------------------------------------

\* At first nothing is queued, in flight or owed.
LEMMA InvInit == IsFiniteSet(Events) /\ Init => IInv /\ Queue!Init
<1> SUFFICES ASSUME IsFiniteSet(Events), Init PROVE IInv /\ Queue!Init
  OBVIOUS
<1>1. ToSet(queue) = {} /\ Aloft(flying) = {} /\ hung = {}
  BY EmptySet DEF Init, Aloft
<1>2. \A c \in Callers : job[c] = Idle /\ Own(c) = {}
  BY DEF Init, Idle, Own
<1>3. TypeOK
  <2>1. job \in [Callers -> Jobs]
    BY DEF Init, Jobs
  <2>2. queue \in Seq(Events) /\ pending \in Nat
    BY DEF Init
  <2> QED BY <2>1, <2>2 DEF Init, TypeOK
<1>4. Clean(queue, flying, hung \cup Elsewhere)
  BY <1>1 DEF Init, Clean, Distinct
<1>5. Counts(queue, flying, pending)
  <2>1. Aloft(flying) \cup hung = {} /\ Len(queue) = 0
    BY <1>1 DEF Init
  <2> QED BY <2>1, FS_EmptySet DEF Init, Counts
<1>6. Apart
  BY <1>1, <1>2 DEF Init, Apart, Idle
<1>7. Owed = {} /\ settled = {}
  BY <1>1, OwedIs DEF Init
<1>8. Queue!Init
  BY <1>2, <1>7 DEF Queue!Init, Queue!NotWaiting, Idle
<1> QED BY <1>3, <1>4, <1>5, <1>6, <1>8 DEF IInv

\* Every step keeps the invariant, and is a step of the queue or none.
LEMMA InvStep ==
  IsFiniteSet(Events) /\ IInv /\ [Next]_vars => IInv' /\ [Queue!Next]_(Queue!vars)
<1> SUFFICES ASSUME IsFiniteSet(Events), IInv, [Next]_vars
             PROVE  IInv' /\ [Queue!Next]_(Queue!vars)
  OBVIOUS
<1>1. ASSUME NEW b \in flying, Answer(b)
      PROVE  IInv' /\ [Queue!Next]_(Queue!vars)
  BY <1>1, LandStep, RetryStep DEF Answer
<1> QED BY <1>1, StartEmitStep, PutStep, FlushStep, CloseStep, TimerStep, CutShortStep,
           ProcessStep DEF Next

\* The queue, the batches and the calls are of their types; no batch is tried
\* again after its last attempt.
THEOREM TypeCorrect == ASSUME IsFiniteSet(Events) PROVE Spec => []TypeOK
<1>1. IInv => TypeOK
  BY DEF IInv
<1> QED BY <1>1, InvInit, InvStep, PTL DEF Spec

\* _pending counts exactly the events that are queued or whose batch has not
\* ended, however batches overlap, fail and end.
THEOREM PendingIsExact == ASSUME IsFiniteSet(Events) PROVE Spec => []CountIsExact
<1>1. IInv => CountIsExact
  BY DEF IInv, Counts, CountIsExact, Aloft
<1> QED BY <1>1, InvInit, InvStep, PTL DEF Spec

\* The worker keeps the promises of EventQueue: no event leaves twice, and
\* drain's callbacks come when all that was put before has left.
THEOREM KeepsEventQueue == ASSUME IsFiniteSet(Events) PROVE Spec => ImplementsEventQueue
BY InvInit, InvStep, PTL DEF Spec, ImplementsEventQueue, Queue!Spec

=============================================================================
