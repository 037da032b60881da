------------------------------ MODULE MeshRelay ------------------------------
(* MeshRepositoryImpl.relayPacket, which the sending view model, the       *)
(* packet processor and the inbox call: a stub that sends nothing and      *)
(* answers success.                                                        *)
relayPacket == [success |-> TRUE, sent |-> {}]
=============================================================================
