---------------------------- MODULE MCSipAdapter ----------------------------
(***************************************************************************)
(* Two subscribers for SipAdapter: one that uses UDP, one that uses both   *)
(* transports.                                                             *)
(***************************************************************************)
EXTENDS SipAdapter

CONSTANTS plain, both

MCOver == [c \in CallIds |-> IF c = plain THEN {"UDP"} ELSE Transports]
=============================================================================
