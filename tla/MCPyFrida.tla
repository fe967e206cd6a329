------------------------------ MODULE MCPyFrida ------------------------------
(***************************************************************************)
(* PyFrida with two of Python's threads.  Both see one native through      *)
(* wrappers at two addresses, so that a wrapper may be freed and another   *)
(* one made at its address while a signal's handler waits for the GIL.     *)
(***************************************************************************)
EXTENDS PyFrida
=============================================================================
