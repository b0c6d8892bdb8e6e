---------------------------- MODULE MCSdControl -----------------------------
(***************************************************************************)
(* Two clients with a service each; the second one's endpoint is a host     *)
(* name, its transport TCP.  The first one's sockets get the same port      *)
(* again and again.                                                         *)
(***************************************************************************)
EXTENDS SdControl

MCDescriptorOf ==
    [c \in Client |->
        [service_id |-> "svc",
         instance_id |-> IF c = "c1" THEN "i1" ELSE "i2",
         endpoint_host |-> IF c = "c2" THEN "name" ELSE Loopback,
         endpoint_port |-> 1,
         transport |-> IF c = "c2" THEN "tcp" ELSE "udp"]]

MCProcesses == [c \in Client |-> c]
MCPortsOf == [c \in Client |-> IF c = "c1" THEN {11} ELSE {}]
=============================================================================
