------------------------------ MODULE MC_Credits ------------------------------
(* Small instances of Credits: two users, three debits, two grants.         *)
EXTENDS Credits

CONSTANTS u1, u2, d1, d2, d3, g1, g2, den

MCUsers == {u1, u2}
MCDebits == {d1, d2, d3}
MCStruck == {d1, d2}
MCGrants == {g1, g2}
MCRowIds == MCDebits \cup MCGrants
MCRefs == {den}
MCAmounts == {2, 3}

\* Users, the two struck debits and the grants are interchangeable.
MCSymmetry == Permutations(MCUsers) \cup Permutations(MCStruck)
                \cup Permutations(MCGrants)
=============================================================================
