--------------------------- MODULE MCSdLifecycle ----------------------------
(***************************************************************************)
(* Two daemons that use one path, and daemons each at a path of its own.    *)
(***************************************************************************)
EXTENDS SdLifecycle

MCOwnPaths == [d \in Daemon |-> d]
MCOnePath == [d \in Daemon |-> "p"]
=============================================================================
