--------------------------- MODULE MCWireFormats ----------------------------
(***************************************************************************)
(* Both wire formats of the repository, one per behaviour: the SOME/IP-SD    *)
(* packets of SdCodec and the parameters of IdlCodec.                        *)
(***************************************************************************)
EXTENDS SdCodec, IdlCodec, VehicleIdl

VARIABLE format

\* The TTLs a caller of RegisterService may pass, a negative one among them.
MCTtls == {-1, 0, 1, TtlMax, TtlMax + 1}

MCInit == Init /\ IdlInit /\ format \in {"sd", "idl"}

MCNext ==
    /\ \/ format = "sd" /\ Next /\ UNCHANGED idl
       \/ format = "idl" /\ IdlNext /\ UNCHANGED vars
    /\ UNCHANGED format

MCSpec == MCInit /\ [][MCNext]_<< format, vars, idl >>
=============================================================================
