----------------------------- MODULE MCAvDecoder ----------------------------
(* A decoder with queues of one item and a codec that keeps one packet.    *)
EXTENDS AvDecoder

=============================================================================
