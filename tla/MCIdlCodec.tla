----------------------------- MODULE MCIdlCodec -----------------------------
(* The IDL codec alone, over types of VehicleIdl.                            *)
EXTENDS IdlCodec, VehicleIdl
=============================================================================
