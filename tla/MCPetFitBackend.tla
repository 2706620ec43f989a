-------------------------- MODULE MCPetFitBackend --------------------------
(* Values of PetFitBackend's constants for TLC. *)
EXTENDS PetFitBackend, TLC

CONSTANTS c1, c2, d1, d2

\* Each device has one client, which waits for an answer before it asks again.
OwnDevices == (c1 :> d1) @@ (c2 :> d2)

\* Two requests of one device at once: a double tap, or a retransmission after the
\* client gave up waiting.
SharedDevice == (c1 :> d1) @@ (c2 :> d1)

OneClient == c1 :> d1

\* The first and the last of the seven stages.
TwoStages == <<"FRAME_EXTRACTION", "ENVIRONMENT_ANALYSIS">>

OneStage == <<"OBJECT_DETECTION">>

AllStages == <<"FRAME_EXTRACTION", "OBJECT_DETECTION", "OBJECT_TRACKING",
               "FRAME_SELECTION", "RISK_MARKING", "SCORE_CALCULATION",
               "ENVIRONMENT_ANALYSIS">>
=============================================================================
