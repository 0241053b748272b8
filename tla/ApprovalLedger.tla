--------------------------- MODULE ApprovalLedger ---------------------------
(***************************************************************************)
(* What signing up and reviewing promise about one person's standing, with *)
(* no handler, statement or failure in sight.  Each id has a standing (the *)
(* account's status) and a verdict (the request's status).  A verdict is   *)
(* first given, then carried out; a verdict given may be lost on its way,  *)
(* and verdicts under way may arrive in any order, but nothing is carried  *)
(* out that was not given, and nobody becomes pending again.               *)
(***************************************************************************)
CONSTANTS Ids, Decisions, Start   \* Start: the status a signup begins with

VARIABLES
  standing,   \* "none" or the account's status
  verdict,    \* "none" or the request's status
  underway    \* verdicts given but not yet carried out or lost

ledger == <<standing, verdict, underway>>

Init ==
  /\ standing = [i \in Ids |-> "none"]
  /\ verdict  = [i \in Ids |-> "none"]
  /\ underway = [i \in Ids |-> {}]

\* Somebody gets an account: no request may be on file before.
Enrol(i) ==
  /\ standing[i] = "none" /\ verdict[i] = "none"
  /\ standing' = [standing EXCEPT ![i] = Start]
  /\ UNCHANGED <<verdict, underway>>

\* A request is filed: with an account, under its starting status; without
\* one, to be reviewed.
File(i) ==
  /\ verdict[i] = "none"
  /\ standing[i] \in {"none", Start}
  /\ \E s \in {Start, "pending_review"} :
       /\ standing[i] # "none" => s = standing[i]
       /\ verdict' = [verdict EXCEPT ![i] = s]
  /\ UNCHANGED <<standing, underway>>

\* Decide: the verdict is on file; it is under way unless it is lost at once.
Decide(i) ==
  /\ verdict[i] # "none"
  /\ \E d \in Decisions :
       /\ verdict' = [verdict EXCEPT ![i] = d]
       /\ \/ underway' = [underway EXCEPT ![i] = @ \cup {d}]
          \/ UNCHANGED underway
  /\ UNCHANGED standing

\* One of possibly several reviewers who decided d carries it out, or fails
\* to: the others' d stays under way.
Deliver(i) ==
  \E d \in underway[i] :
    /\ \/ underway' = [underway EXCEPT ![i] = @ \ {d}]
       \/ UNCHANGED underway
    /\ \/ standing[i] # "none" /\ standing' = [standing EXCEPT ![i] = d]
       \/ UNCHANGED standing
    /\ UNCHANGED verdict

Next == \E i \in Ids : Enrol(i) \/ File(i) \/ Decide(i) \/ Deliver(i)

Spec == Init /\ [][Next]_ledger

============================================================================
