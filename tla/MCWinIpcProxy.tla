---------------------------- MODULE MCWinIpcProxy ----------------------------
(***************************************************************************)
(* WinIpcProxy with a few queries and notifications.  The server is the    *)
(* injector's end of a helper's pipe, the client the helper's: it has an   *)
(* asynchronous handler for Inject, and one that is notified of Stop.  The *)
(* two ends play different roles and request ids are ordered, so there is  *)
(* no symmetry to use.                                                     *)
(***************************************************************************)
EXTENDS WinIpcProxy

MCHandlers == [p \in Peers |->
                  IF p = "client" THEN {"async", "notify"} ELSE {"notify"}]
=============================================================================
