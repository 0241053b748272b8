--------------------------- MODULE MCGatewayLogin ---------------------------
(* Small instances of GatewayLogin: "Admin" and "admin" are one name to a  *)
(* login and two to the unique constraint.                                 *)
EXTENDS GatewayLogin, TLC

CONSTANTS admin, Admin, ann, mail1, mail2

MCLower == [x \in {admin, Admin, ann, mail1, mail2} |-> IF x = Admin THEN admin ELSE x]

\* Interchangeable values: no action and no property names one of them.
Symmetry == Permutations(Workers) \cup Permutations(Tokens) \cup Permutations(Ids)

============================================================================
