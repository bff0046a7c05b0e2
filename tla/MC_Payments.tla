------------------------------ MODULE MC_Payments ------------------------------
(* Small instances of Payments.                                              *)
EXTENDS Payments

CONSTANTS u1, u2, o1, o2, t1, t2

MCUsers == {u1, u2}
MCOrders == {o1, o2}
MCCalls == {t1, t2}
MCPacks == {2}
=============================================================================
