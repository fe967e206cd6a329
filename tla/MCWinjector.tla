----------------------------- MODULE MCWinjector -----------------------------
(* Winjector with a few calls of inject and enough helpers for them. *)
EXTENDS Winjector
=============================================================================
