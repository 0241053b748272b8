--------------------------- MODULE MCSignupReview ---------------------------
(* A small instance of SignupReview.                                       *)
EXTENDS SignupReview, TLC

============================================================================
