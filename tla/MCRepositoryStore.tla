-------------------------- MODULE MCRepositoryStore --------------------------
(* Small instances of RepositoryStore.                                     *)
EXTENDS RepositoryStore

\* Nothing set up, each failure that leaves an answer, and each live call.
MCEnvironments ==
  {[rancher |-> "unset", openstack |-> "unset"],
   [rancher |-> "noURL", openstack |-> "set"],
   [rancher |-> "set", openstack |-> "noCredentials"],
   [rancher |-> "unset", openstack |-> "noCredentials"]}

============================================================================
