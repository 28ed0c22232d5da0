------------------------------ MODULE MuxRPCMC ------------------------------
(***************************************************************************)
(* Two ends, a and b.                                                      *)
(***************************************************************************)
EXTENDS MuxRPC

CONSTANTS a, b, QuotaA, QuotaB, ValuesA, ValuesB

MCValues == [p \in Peers |-> IF p = a THEN ValuesA ELSE ValuesB]
MCQuota == [p \in Peers |-> IF p = a THEN QuotaA ELSE QuotaB]

=============================================================================
