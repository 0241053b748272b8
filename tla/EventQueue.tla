----------------------------- MODULE EventQueue -----------------------------
(***************************************************************************)
(* What the asynchronous modes of the two billing SDKs have in common:     *)
(* events are put, each leaves once, and flush and close return only when  *)
(* every event that was put before the call has left.  An event leaves     *)
(* when its batch was accepted and also when it was given up: to have left *)
(* is not to be delivered, whatever the comments on flush say.             *)
(* BillingWorker (Python) and NodeWorker implement it.                     *)
(***************************************************************************)
CONSTANTS
    Callers,   \* who calls
    Events     \* usage events

VARIABLES
    open,     \* events that were put and have not left
    gone,     \* events that have left
    waits     \* the events each caller in flush or close waits for

vars == <<open, gone, waits>>

NotWaiting == [for |-> {}, waiting |-> FALSE]

Init ==
    /\ open = {} /\ gone = {}
    /\ waits = [c \in Callers |-> NotWaiting]

Put(e) ==
    /\ e \notin open \cup gone
    /\ open' = open \cup {e}
    /\ UNCHANGED <<gone, waits>>

\* Events leave together, as a batch, and so that waits end with them.
Leave(batch, released) ==
    /\ batch # {} /\ batch \subseteq open
    /\ open' = open \ batch
    /\ gone' = gone \cup batch
    /\ \A c \in released : waits[c].waiting /\ waits[c].for \cap open' = {}
    /\ waits' = [c \in Callers |-> IF c \in released THEN NotWaiting ELSE waits[c]]

Wait(c) ==
    /\ ~waits[c].waiting
    /\ waits' = [waits EXCEPT ![c] = [for |-> open, waiting |-> TRUE]]
    /\ UNCHANGED <<open, gone>>

Return(c) ==
    /\ waits[c].waiting
    /\ waits[c].for \cap open = {}
    /\ waits' = [waits EXCEPT ![c] = NotWaiting]
    /\ UNCHANGED <<open, gone>>

Next ==
    \/ \E e \in Events : Put(e)
    \/ \E batch \in SUBSET open, released \in SUBSET Callers : Leave(batch, released)
    \/ \E c \in Callers : Wait(c) \/ Return(c)

Spec == Init /\ [][Next]_vars

=============================================================================
