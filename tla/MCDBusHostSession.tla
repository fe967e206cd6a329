-------------------------- MODULE MCDBusHostSession --------------------------
(***************************************************************************)
(* DBusHostSession with a few connections.  BaseDBusHostSession is the     *)
(* instance without ServerConns; the Tcp provider has both kinds.          *)
(***************************************************************************)
EXTENDS DBusHostSession
=============================================================================
