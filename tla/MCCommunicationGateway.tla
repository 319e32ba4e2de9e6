----------------------- MODULE MCCommunicationGateway -----------------------
(***************************************************************************)
(* The instance of CommunicationGateway that TLC explores.                 *)
(***************************************************************************)
EXTENDS CommunicationGateway

CONSTANTS c1, c2, c3, wal1, conf1

MCRequestsFromWAL == <<wal1>>
MCRequestsFromConfig == <<conf1>>

=============================================================================
