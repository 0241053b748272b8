-------------------------- MODULE AccountDirectory --------------------------
(***************************************************************************)
(* The accounts table as the rest of the gateway may rely on it: the       *)
(* promise SignupReview is shown to keep, and the environment the login    *)
(* handler is checked in.  Rows are only ever added, names and e-mails     *)
(* never change and stay unique, and a review changes nothing but the      *)
(* status of an account somebody signed up for.                            *)
(***************************************************************************)
EXTENDS AccountTables

CONSTANT Start   \* the status an account begins with

VARIABLE accounts

Init == accounts = EmptyTable

\* A signup's account.
Enrol(i) ==
  \E n \in Names, e \in Emails :
    /\ accounts[i] = Absent
    /\ NameFree(accounts, n) /\ EmailFree(accounts, e)
    /\ accounts' = [accounts EXCEPT ![i] =
                      [name |-> n, email |-> e, role |-> "platform-operator",
                       status |-> Start]]

\* A decision on the account, as often as reviewers like.
Judge(i) ==
  /\ accounts[i] # Absent
  /\ accounts[i].role = "platform-operator"
  /\ \E d \in Decisions : accounts' = [accounts EXCEPT ![i].status = d]

\* The default administrator, once.
Bootstrap(i) ==
  /\ accounts[i] = Absent
  /\ NameFree(accounts, AdminName) /\ EmailFree(accounts, AdminEmail)
  /\ accounts' = [accounts EXCEPT ![i] = AdminRow]

Next == \E i \in Ids : Enrol(i) \/ Judge(i) \/ Bootstrap(i)

Spec == Init /\ [][Next]_accounts

============================================================================
