--------------------------- MODULE MC_CreditEconomy ---------------------------
(* One user who buys with two requests per order while two of her calls      *)
(* burn.  A pack covers one debit and not two.                               *)
EXTENDS CreditEconomy

CONSTANTS u1, o1, o2, t1, t2, d1, d2, den

MCUsers == {u1}
MCOrders == {o1, o2}
MCCalls == {t1, t2}
MCDebits == {d1, d2}
MCStruck == MCDebits
MCRowIds == MCCalls \cup MCDebits
MCRefs == MCOrders \cup {den}
MCPacks == {3}
MCAmounts == {2}

\* Orders, requests and debits are interchangeable.
MCSymmetry == Permutations(MCOrders) \cup Permutations(MCCalls)
                \cup Permutations(MCDebits)
=============================================================================
