------------------------------ MODULE Optional ------------------------------
(* The value of an optional field that is not there: a file that does not     *)
(* exist, a digest that is not declared, a key that no file writes.           *)
CONSTANT None
=============================================================================
