-------------------------- MODULE MCCloudSpyPlugin --------------------------
(* Two instances of the plugin, and one promise with two callbacks. *)
EXTENDS CloudSpyPlugin
=============================================================================
