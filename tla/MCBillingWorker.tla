--------------------------- MODULE MCBillingWorker ---------------------------
(* Small instances of BillingWorker.                                       *)
EXTENDS BillingWorker

CONSTANT bad   \* the event that fails validation

============================================================================
