----------------------------- MODULE MCLinjector -----------------------------
(* LinuxHost, and with it Linjector, on a small set of processes. *)
EXTENDS LinuxHost
=============================================================================
