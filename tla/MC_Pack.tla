------------------------------- MODULE MC_Pack -------------------------------
(***************************************************************************)
(* Two requests for two handles and one den; two requests of two           *)
(* mailboxes for two handles; three tabs of two members; two adds to a     *)
(* knowledge base that takes one document; a Den Keeper's and a cast's     *)
(* audio; a page with two seats at most; a keeper or a citizen.            *)
(***************************************************************************)
EXTENDS Pack, TLC

\* One member has two tabs.
Owners == [t \in Tabs |-> IF t = CHOOSE u \in Tabs : TRUE THEN "bo" ELSE "ada"]

\* No definition chooses among these.  Handles are not symmetric: a legacy account is
\* chosen by its age.  The parts share the model values, for only one of them moves:
\* r1 and r2 are requests, errands, runs of joinVoice and the legs of a cast, e1 and e2
\* mailboxes and seats.
Symmetric == Permutations(Requests) \cup Permutations(Emails)

=============================================================================
