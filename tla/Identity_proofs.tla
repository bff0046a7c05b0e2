---------------------------- MODULE Identity_proofs ----------------------------
(***************************************************************************)
(* Proofs about NativeAuth and Onboarding: for any number of requests,     *)
(* addresses, handles, agents and dens, and for any fuse.                  *)
(***************************************************************************)
EXTENDS NativeAuth, Onboarding, FiniteSetTheorems, TLAPS

-----------------------------------------------------------------------------
(* The invariant of NativeAuth.                                            *)

\* What a request has in hand at an await: the code or ticket it read is one of `rows`,
\* its mailbox is known once it is needed, and its route is one that has this await.
RoutedAs(k, rows) ==
  /\ k.row # 0 => k.row \in rows
  /\ k.pc \in {"supersede", "insert"} => k.op = "start" /\ k.email \in Emails
  /\ k.pc \in {"bump", "ticket"} => k.op = "verify"
  /\ k.pc = "peek" => k.op \in {"claim", "recover"} /\ k.row # 0
  /\ k.pc = "consume" => k.op \in {"verify", "claim", "recover"} /\ k.row # 0
  /\ k.pc \in {"lookup", "legacy", "bind"} =>
       k.op \in {"verify", "recover"} /\ k.email \in Emails
  /\ k.pc \in {"checkbound", "create"} => k.op = "claim"
  /\ k.op = "verify" => k.row # 0 /\ k.email \in Emails
  /\ k.op = "claim" \/ k.pc \in {"bind", "session"} => k.handle \in Handles
  /\ k.pc = "consume" /\ k.op = "recover" => k.handle \in Handles

Routed == \A r \in Requests : RoutedAs(req[r], DOMAIN challenge)

\* The request has consumed its row and has made nothing out of it yet.
InHand(k) ==
  /\ k.row # 0
  /\ \/ k.pc \in {"create", "session"}
     \/ k.op = "verify" /\ k.pc \in {"lookup", "legacy", "bind", "ticket"}
Holds(r) == InHand(req[r])

\* What is consumed is held by one request at most, and opened by nobody else.
HeldOnce ==
  /\ \A i \in DOMAIN challenge :
       challenge[i].opened <= IF challenge[i].state = "consumed" THEN 1 ELSE 0
  /\ \A r \in Requests : Holds(r) =>
       challenge[req[r].row].state = "consumed" /\ challenge[req[r].row].opened = 0
  /\ \A r, q \in Requests : Holds(r) /\ Holds(q) /\ req[r].row = req[q].row => r = q

\* h is the account of an address, or a typed one of no address.
AtHome(acc, h, e) ==
  h \in Handles /\ acc[h] = [state |-> IF e = Nobody THEN "typed" ELSE "bound", email |-> e]

\* Whoever is about to open a session has the right account, and whoever is about to
\* bind one has one of his address.
OnTheWay(acc, k) ==
  /\ k.pc = "session" \/ (k.pc = "consume" /\ k.op = "recover") => AtHome(acc, k.handle, k.email)
  /\ k.pc = "bind" => acc[k.handle] \in [state : {"legacy", "bound"}, email : {k.email}]

\* An address has one account at most.
OneEach(acc) ==
  /\ \A h \in Handles : acc[h].state = "bound" => acc[h].email \in Emails
  /\ \A g, h \in Handles : acc[g].state = "bound" /\ acc[h] = acc[g] => g = h

Homeward ==
  /\ OneEach(account)
  /\ \A s \in session : AtHome(account, s.handle, s.email)
  /\ \A r \in Requests : OnTheWay(account, req[r])

\* The requests that have passed a fuse and have not counted themselves yet.
Guessing(i) == {r \in Requests : req[r].pc = "bump" /\ req[r].row = i}
Sending(e) == {r \in Requests : req[r].pc \in {"supersede", "insert"} /\ req[r].email = e}
Inserting(e) == {r \in Requests : req[r].pc = "insert" /\ req[r].email = e}

\* They count as what they are about to do.
Fused ==
  LET inFlight == Cardinality(Requests) IN
  /\ \A i \in DOMAIN challenge :
       challenge[i].attempts + Cardinality(Guessing(i)) <= MaxAttempts + inFlight - 1
  /\ \A e \in Emails :
       /\ SendsTo(e) + Cardinality(Sending(e)) <= MaxSends + inFlight - 1
       /\ Cardinality(Unconsumed("otp", e)) + Cardinality(Inserting(e)) <= inFlight

AuthInvariant == AuthTypeOK /\ Routed /\ HeldOnce /\ Homeward /\ Fused

-----------------------------------------------------------------------------
(* Types and routes                                                        *)

(* A nonempty finite set of numbers has a largest one: the family of its   *)
(* strict upper parts has a minimal member.                                *)
LEMMA LargestExists ==
  ASSUME NEW S \in SUBSET Nat, IsFiniteSet(S), S # {}
  PROVE  Max(S) \in S
<1> DEFINE Above(x) == {y \in S : y > x}
           Parts == {Above(x) : x \in S}
<1>1. IsWellFoundedOn(StrictSubsetOrdering(S), FiniteSubsetsOf(S))
  BY FS_StrictSubsetOrderingWellFounded
<1>2. Parts \subseteq FiniteSubsetsOf(S) /\ Parts # {}
  <2>1. \A x \in S : Above(x) \subseteq S /\ IsFiniteSet(Above(x))
    BY FS_Subset
  <2> QED
    BY <2>1 DEF FiniteSubsetsOf
<1>3. PICK P \in Parts : \A Q \in Parts : <<Q, P>> \notin StrictSubsetOrdering(S)
  BY <1>1, <1>2, WFMin
<1>4. PICK x \in S : P = Above(x)
  OBVIOUS
<1>5. \A y \in S : x >= y
  <2> SUFFICES ASSUME NEW y \in S, y > x PROVE FALSE
    OBVIOUS
  <2>1. x \in Nat /\ y \in Nat /\ \A z \in S : z \in Nat
    OBVIOUS
  <2>2. y \in Above(x) /\ y \notin Above(y)
    BY <2>1
  <2>3. Above(y) \subseteq Above(x)
    <3> SUFFICES ASSUME NEW z \in Above(y) PROVE z \in Above(x)
      OBVIOUS
    <3>1. z \in S /\ z > y /\ z \in Nat
      BY <2>1
    <3> QED
      BY <2>1, <3>1
  <2>4. <<Above(y), Above(x)>> \in StrictSubsetOrdering(S)
    BY <2>2, <2>3 DEF StrictSubsetOrdering
  <2> QED
    BY <1>3, <1>4, <2>4
<1>6. \E z \in S : \A y \in S : z >= y
  BY <1>5
<1> QED
  BY <1>6, Zenon DEF Max

(* A step of a request replaces its record by another well-routed one, and *)
(* challenges are updated in place or appended.                            *)
LEMMA AuthTypes ==
  AuthTypeOK /\ Routed /\ [AuthNext]_authVars => AuthTypeOK' /\ Routed'
<1> SUFFICES ASSUME AuthTypeOK, Routed, [AuthNext]_authVars PROVE AuthTypeOK' /\ Routed'
  OBVIOUS
<1> DEFINE Grows == challenge' \in Seq(Challenge) /\ DOMAIN challenge \subseteq DOMAIN challenge'
           Rest == /\ mode' = mode /\ account' \in [Handles -> Account]
                   /\ session' \subseteq [handle : Handles, email : Emails \cup {Nobody}]
<1>1. /\ mode \in {"native", "access"} /\ challenge \in Seq(Challenge)
      /\ account \in [Handles -> Account]
      /\ session \subseteq [handle : Handles, email : Emails \cup {Nobody}]
      /\ req \in [Requests -> Request]
      /\ \A r \in Requests : RoutedAs(req[r], DOMAIN challenge)
  BY DEF AuthTypeOK, Routed
<1>2. ASSUME NEW r \in Requests, NEW k \in Request, Becomes(r, k),
             Grows, RoutedAs(k, DOMAIN challenge'), Rest
      PROVE  AuthTypeOK' /\ Routed'
  <2>1. req' \in [Requests -> Request]
    BY <1>1, <1>2 DEF Becomes
  <2>2. Routed'
    <3> SUFFICES ASSUME NEW q \in Requests PROVE RoutedAs(req'[q], DOMAIN challenge')
      BY DEF Routed
    <3>1. CASE q = r
      BY <1>1, <1>2, <3>1 DEF Becomes
    <3>2. CASE q # r
      BY <1>1, <1>2, <3>2 DEF Becomes, RoutedAs
    <3> QED
      BY <3>1, <3>2
  <2> QED
    BY <1>1, <1>2, <2>1, <2>2 DEF AuthTypeOK
<1>3. ASSUME NEW i \in DOMAIN challenge, NEW row \in Challenge,
             NEW s, s = [challenge EXCEPT ![i] = row]
      PROVE  s \in Seq(Challenge) /\ DOMAIN s = DOMAIN challenge
  BY <1>1, <1>3
<1>4. ASSUME NEW s \in Seq(Challenge), DOMAIN s = DOMAIN challenge, NEW row \in Challenge,
             challenge' = Append(s, row)
      PROVE  Grows
  BY <1>1, <1>4
<1>5. UNCHANGED challenge => Grows
  BY <1>1
<1>6. NoRequest \in Request /\ \A rows : RoutedAs(NoRequest, rows)
  BY DEF NoRequest, Request, RoutedAs
<1>7. NoRequest.pc = "idle" /\ NoRequest.row = 0
  BY DEF NoRequest
<1>8. ASSUME NEW r \in Requests, Replies(r), Grows, Rest PROVE AuthTypeOK' /\ Routed'
  BY <1>2, <1>6, <1>8 DEF Replies
<1>9. ASSUME NEW r \in Requests, NEW pc, Then(r, pc), Grows, Rest,
             [req[r] EXCEPT !.pc = pc] \in Request,
             RoutedAs([req[r] EXCEPT !.pc = pc], DOMAIN challenge')
      PROVE  AuthTypeOK' /\ Routed'
  BY <1>2, <1>9 DEF Then
<1>10. ASSUME NEW r \in Requests, NEW e \in Emails, StartCode(r, e)
       PROVE  AuthTypeOK' /\ Routed'
  <2> DEFINE k == [NoRequest EXCEPT !.pc = "supersede", !.op = "start", !.email = e]
  <2>1. k \in Request /\ RoutedAs(k, DOMAIN challenge')
    BY DEF NoRequest, Request, RoutedAs
  <2> QED
    BY <1>1, <1>2, <1>5, <1>10, <2>1 DEF StartCode
<1>11. /\ Len(challenge) \in Nat /\ DOMAIN challenge = 1 .. Len(challenge)
       /\ \A i \in DOMAIN challenge : challenge[i] \in Challenge
  BY <1>1
<1>12. \A c \in Challenge :
         /\ \A st \in {"active", "expired", "consumed"} : [c EXCEPT !.state = st] \in Challenge
         /\ [c EXCEPT !.attempts = @ + 1] \in Challenge
         /\ [c EXCEPT !.opened = @ + 1] \in Challenge
  BY DEF Challenge
<1>13. ASSUME NEW r \in Requests, Supersede(r) PROVE AuthTypeOK' /\ Routed'
  <2>1. Grows
    <3>1. challenge' \in [1 .. Len(challenge) -> Challenge]
      BY <1>13, <1>11, <1>12 DEF Supersede
    <3> QED
      BY <1>11, <3>1
  <2>2. /\ [req[r] EXCEPT !.pc = "insert"] \in Request
        /\ RoutedAs([req[r] EXCEPT !.pc = "insert"], DOMAIN challenge')
    BY <1>1, <1>13, <2>1 DEF Supersede, Request, RoutedAs
  <2> QED
    BY <1>1, <1>9, <1>13, <2>1, <2>2 DEF Supersede
<1>14. ASSUME NEW e \in Emails, NEW kind \in {"otp", "claim"}
       PROVE  NewChallenge(kind, e) \in Challenge
  BY DEF NewChallenge, Challenge
<1>15. ASSUME NEW r \in Requests, SendCode(r) PROVE AuthTypeOK' /\ Routed'
  <2>1. req[r].email \in Emails
    BY <1>1, <1>15 DEF SendCode, RoutedAs
  <2> QED
    BY <1>1, <1>4, <1>8, <1>14, <1>15, <2>1 DEF SendCode
<1>16. ASSUME NEW i, NEW e \in Emails, i = LatestCode(e), Unconsumed("otp", e) # {}
       PROVE  i \in DOMAIN challenge
  <2>1. /\ Unconsumed("otp", e) \subseteq DOMAIN challenge /\ DOMAIN challenge \subseteq Nat
        /\ IsFiniteSet(DOMAIN challenge)
    BY <1>1, FS_Interval DEF Unconsumed, RowsOf
  <2>2. IsFiniteSet(Unconsumed("otp", e))
    BY <2>1, FS_Subset
  <2> QED
    BY <1>16, <2>1, <2>2, LargestExists DEF LatestCode
<1>17. ASSUME NEW r \in Requests, NEW e \in Emails, Verify(r, e)
       PROVE  AuthTypeOK' /\ Routed'
  <2> DEFINE i == LatestCode(e)
             k == [NoRequest EXCEPT !.pc = "bump", !.op = "verify", !.email = e, !.row = i]
  <2>1. i \in DOMAIN challenge /\ i \in Nat \ {0}
    BY <1>1, <1>16, <1>17 DEF Verify
  <2> HIDE DEF i
  <2>2. k \in Request /\ RoutedAs(k, DOMAIN challenge)
    BY <2>1 DEF NoRequest, Request, RoutedAs
  <2> QED
    BY <1>1, <1>2, <1>5, <1>17, <2>2 DEF Verify, i
<1>18. \A S : S # {} => (CHOOSE x \in S : TRUE) \in S
  OBVIOUS
<1>19. ASSUME NEW i \in DOMAIN challenge \cup {0}
       PROVE  OpenedBy(i) \in Seq(Challenge) /\ DOMAIN OpenedBy(i) = DOMAIN challenge
  <2>1. CASE i = 0
    BY <1>1, <2>1 DEF OpenedBy
  <2>2. CASE i # 0
    BY <1>3, <1>11, <1>12, <2>2 DEF OpenedBy
  <2> QED
    BY <2>1, <2>2
<1>20. ASSUME NEW r \in Requests, NEW right \in BOOLEAN, Guess(r, right)
       PROVE  AuthTypeOK' /\ Routed'
  <2>1. req[r].row \in DOMAIN challenge
    BY <1>1, <1>20 DEF Guess, RoutedAs
  <2>2. Grows
    BY <1>3, <1>11, <1>12, <1>20, <2>1 DEF Guess
  <2>3. /\ [req[r] EXCEPT !.pc = "consume"] \in Request
        /\ RoutedAs([req[r] EXCEPT !.pc = "consume"], DOMAIN challenge')
    <3>1. req[r].pc = "bump"
      BY <1>20 DEF Guess
    <3>2. [req[r] EXCEPT !.pc = "consume"] \in Request
      BY <1>1 DEF Request
    <3>3. RoutedAs([req[r] EXCEPT !.pc = "consume"], DOMAIN challenge')
      BY <1>1, <2>2, <3>1 DEF Request, RoutedAs
    <3> QED
      BY <3>2, <3>3
  <2> QED
    BY <1>1, <1>8, <1>9, <1>20, <2>2, <2>3 DEF Guess
<1>21. ASSUME NEW r \in Requests, Consume(r) PROVE AuthTypeOK' /\ Routed'
  <2>1. req[r].row \in DOMAIN challenge /\ req[r].op \in {"verify", "claim", "recover"}
    BY <1>1, <1>21 DEF Consume, RoutedAs
  <2>2. Grows
    BY <1>3, <1>5, <1>11, <1>12, <1>21, <2>1 DEF Consume
  <2>3. /\ req[r].pc = "consume" /\ req[r].row # 0
        /\ req[r].op = "recover" => req[r].handle \in Handles
    BY <1>1, <1>21 DEF Consume, RoutedAs
  <2>4. Rest
    BY <1>1, <1>21 DEF Consume
  <2>5. CASE ~Spendable(req[r].row)
    BY <1>8, <1>21, <2>2, <2>4, <2>5 DEF Consume
  <2>6. CASE Spendable(req[r].row)
    <3> DEFINE Next(pc) == [req[r] EXCEPT !.pc = pc]
    <3>1. \A pc \in {"lookup", "create", "session"} : Next(pc) \in Request
      BY <1>1 DEF Request
    <3>2. CASE req[r].op = "verify"
      <4>1. Then(r, "lookup")
        BY <1>21, <2>6, <3>2 DEF Consume
      <4>2. RoutedAs(Next("lookup"), DOMAIN challenge')
        BY <1>1, <2>2, <2>3, <3>2 DEF Request, RoutedAs
      <4> QED
        BY <1>9, <2>2, <2>4, <3>1, <4>1, <4>2
    <3>3. CASE req[r].op = "claim"
      <4>1. Then(r, "create")
        BY <1>21, <2>6, <3>3 DEF Consume
      <4>2. RoutedAs(Next("create"), DOMAIN challenge')
        BY <1>1, <2>2, <2>3, <3>3 DEF Request, RoutedAs
      <4> QED
        BY <1>9, <2>2, <2>4, <3>1, <4>1, <4>2
    <3>4. CASE req[r].op = "recover"
      <4>1. Then(r, "session")
        BY <1>21, <2>6, <3>4 DEF Consume
      <4>2. RoutedAs(Next("session"), DOMAIN challenge')
        BY <1>1, <2>2, <2>3, <3>4 DEF Request, RoutedAs
      <4> QED
        BY <1>9, <2>2, <2>4, <3>1, <4>1, <4>2
    <3> QED
      BY <2>1, <3>2, <3>3, <3>4
  <2> QED
    BY <2>5, <2>6
<1>22. ASSUME NEW r \in Requests, NEW h \in Handles, Found(r, h), Grows, Rest,
              req[r].op \in {"verify", "recover"}
       PROVE  AuthTypeOK' /\ Routed'
  <2>1. ASSUME NEW pc, \/ req[r].op = "recover" /\ req[r].row # 0 /\ pc = "consume"
                      \/ pc = "session"
        PROVE  /\ [req[r] EXCEPT !.handle = h, !.pc = pc] \in Request
               /\ RoutedAs([req[r] EXCEPT !.handle = h, !.pc = pc], DOMAIN challenge')
    <3>1. [req[r] EXCEPT !.handle = h, !.pc = pc] \in Request
      BY <1>1, <2>1 DEF Request
    <3>2. RoutedAs([req[r] EXCEPT !.handle = h, !.pc = pc], DOMAIN challenge')
      BY <1>1, <1>22, <2>1 DEF Request, RoutedAs
    <3> QED
      BY <3>1, <3>2
  <2> QED
    BY <1>2, <1>22, <2>1 DEF Found
<1>23. ASSUME NEW r \in Requests, Lookup(r) PROVE AuthTypeOK' /\ Routed'
  <2>1. /\ [req[r] EXCEPT !.pc = "legacy"] \in Request
        /\ RoutedAs([req[r] EXCEPT !.pc = "legacy"], DOMAIN challenge)
        /\ req[r].op \in {"verify", "recover"}
    BY <1>1, <1>23 DEF Lookup, Request, RoutedAs
  <2>2. BoundTo(req[r].email) \subseteq Handles
    BY DEF BoundTo
  <2> QED
    BY <1>1, <1>5, <1>9, <1>18, <1>22, <1>23, <2>1, <2>2 DEF Lookup
<1>24. ASSUME NEW r \in Requests, LookupLegacy(r) PROVE AuthTypeOK' /\ Routed'
  <2>1. ASSUME req[r].op = "verify"
        PROVE  /\ [req[r] EXCEPT !.pc = "ticket"] \in Request
               /\ RoutedAs([req[r] EXCEPT !.pc = "ticket"], DOMAIN challenge)
    BY <1>1, <1>24, <2>1 DEF LookupLegacy, Request, RoutedAs
  <2>2. ASSUME NEW h \in Handles
        PROVE  /\ [req[r] EXCEPT !.pc = "bind", !.handle = h] \in Request
               /\ RoutedAs([req[r] EXCEPT !.pc = "bind", !.handle = h], DOMAIN challenge)
    BY <1>1, <1>24 DEF LookupLegacy, Request, RoutedAs
  <2>3. LegacyOf(req[r].email) \subseteq Handles
    BY DEF LegacyOf
  <2> QED
    BY <1>1, <1>2, <1>5, <1>8, <1>9, <1>18, <1>24, <2>1, <2>2, <2>3 DEF LookupLegacy
<1>25. ASSUME NEW r \in Requests, Bind(r) PROVE AuthTypeOK' /\ Routed'
  <2>1. req[r].handle \in Handles /\ req[r].email \in Emails
        /\ req[r].op \in {"verify", "recover"}
    BY <1>1, <1>25 DEF Bind, RoutedAs
  <2>2. CASE MayBind(req[r].handle, req[r].email)
    <3>1. [state |-> "bound", email |-> req[r].email] \in Account
      BY <2>1 DEF Account
    <3>2. Rest /\ Found(r, req[r].handle)
      BY <1>1, <1>25, <2>2, <3>1 DEF Bind
    <3> QED
      BY <1>5, <1>22, <1>25, <2>1, <3>2 DEF Bind
  <2>3. CASE ~MayBind(req[r].handle, req[r].email)
    BY <1>1, <1>5, <1>8, <1>25, <2>3 DEF Bind
  <2> QED
    BY <2>2, <2>3
<1>26. ASSUME NEW r \in Requests, MintTicket(r) PROVE AuthTypeOK' /\ Routed'
  <2>1. req[r].email \in Emails /\ req[r].row \in DOMAIN challenge
    BY <1>1, <1>26 DEF MintTicket, RoutedAs
  <2>2. Grows
    BY <1>4, <1>14, <1>19, <1>26, <2>1 DEF MintTicket
  <2> QED
    BY <1>1, <1>8, <1>26, <2>2 DEF MintTicket
<1>27. ASSUME NEW r \in Requests, OpenSession(r) PROVE AuthTypeOK' /\ Routed'
  <2>1. /\ req[r].row \in DOMAIN challenge \cup {0} /\ req[r].handle \in Handles
        /\ req[r].email \in Emails \cup {Nobody}
    BY <1>1, <1>27 DEF OpenSession, RoutedAs, Request
  <2>2. Grows
    BY <1>19, <1>27, <2>1 DEF OpenSession
  <2> QED
    BY <1>1, <1>8, <1>27, <2>1, <2>2 DEF OpenSession
<1>28. ASSUME NEW r \in Requests, NEW i \in DOMAIN challenge, NEW h \in Handles,
              ClaimWithTicket(r, h, i)
       PROVE  AuthTypeOK' /\ Routed'
  <2> DEFINE k == [NoRequest EXCEPT !.pc = "peek", !.op = "claim", !.handle = h, !.row = i]
  <2>1. i \in Nat \ {0}
    BY <1>11
  <2>2. k \in Request /\ RoutedAs(k, DOMAIN challenge)
    BY <2>1 DEF NoRequest, Request, RoutedAs
  <2> QED
    BY <1>1, <1>2, <1>5, <1>28, <2>2 DEF ClaimWithTicket
<1>29. ASSUME NEW r \in Requests, NEW i \in DOMAIN challenge, RecoverWithTicket(r, i)
       PROVE  AuthTypeOK' /\ Routed'
  <2> DEFINE k == [NoRequest EXCEPT !.pc = "peek", !.op = "recover", !.row = i]
  <2>1. i \in Nat \ {0}
    BY <1>11
  <2>2. k \in Request /\ RoutedAs(k, DOMAIN challenge)
    BY <2>1 DEF NoRequest, Request, RoutedAs
  <2> QED
    BY <1>1, <1>2, <1>5, <1>29, <2>2 DEF RecoverWithTicket
<1>30. ASSUME NEW r \in Requests, Peek(r) PROVE AuthTypeOK' /\ Routed'
  <2> DEFINE e == challenge[req[r].row].email
  <2>1. /\ req[r].pc = "peek" /\ req[r].op \in {"claim", "recover"} /\ req[r].row # 0
        /\ req[r].row \in DOMAIN challenge
    BY <1>1, <1>30 DEF Peek, RoutedAs
  <2>2. e \in Emails
    BY <1>11, <2>1 DEF Challenge
  <2> HIDE DEF e
  <2> DEFINE Next(pc) == [req[r] EXCEPT !.email = e, !.pc = pc]
  <2>3. Next("checkbound") \in Request /\ Next("lookup") \in Request
    BY <1>1, <2>2 DEF Request
  <2>4. CASE challenge[req[r].row].state # "active"
    BY <1>1, <1>5, <1>8, <1>30, <2>4 DEF Peek
  <2>5. CASE challenge[req[r].row].state = "active" /\ req[r].op = "claim"
    <3>1. Becomes(r, Next("checkbound"))
      BY <1>30, <2>5 DEF Peek, e
    <3>2. RoutedAs(Next("checkbound"), DOMAIN challenge')
      BY <1>1, <1>30, <2>1, <2>2, <2>5 DEF Request, RoutedAs, Peek
    <3> QED
      BY <1>1, <1>2, <1>5, <1>30, <2>3, <3>1, <3>2 DEF Peek
  <2>6. CASE challenge[req[r].row].state = "active" /\ req[r].op = "recover"
    <3>1. Becomes(r, Next("lookup"))
      BY <1>30, <2>6 DEF Peek, e
    <3>2. RoutedAs(Next("lookup"), DOMAIN challenge')
      BY <1>1, <1>30, <2>1, <2>2, <2>6 DEF Request, RoutedAs, Peek
    <3> QED
      BY <1>1, <1>2, <1>5, <1>30, <2>3, <3>1, <3>2 DEF Peek
  <2> QED
    BY <2>1, <2>4, <2>5, <2>6
<1>31. ASSUME NEW r \in Requests, NEW h \in Handles, NEW e \in Emails \cup {Nobody},
              ClaimWithHeader(r, h, e)
       PROVE  AuthTypeOK' /\ Routed'
  <2> DEFINE k == [NoRequest EXCEPT !.op = "claim", !.handle = h, !.email = e,
                                    !.pc = IF e = Nobody THEN "create" ELSE "checkbound"]
  <2>1. k \in Request /\ RoutedAs(k, DOMAIN challenge)
    BY DEF NoRequest, Request, RoutedAs
  <2> QED
    BY <1>1, <1>2, <1>5, <1>31, <2>1 DEF ClaimWithHeader
<1>32. ASSUME NEW r \in Requests, NEW e \in Emails, RecoverWithHeader(r, e)
       PROVE  AuthTypeOK' /\ Routed'
  <2> DEFINE k == [NoRequest EXCEPT !.pc = "lookup", !.op = "recover", !.email = e]
  <2>1. k \in Request /\ RoutedAs(k, DOMAIN challenge)
    BY DEF NoRequest, Request, RoutedAs
  <2> QED
    BY <1>1, <1>2, <1>5, <1>32, <2>1 DEF RecoverWithHeader
<1>33. ASSUME NEW r \in Requests, CheckBound(r) PROVE AuthTypeOK' /\ Routed'
  <2>1. req[r].op = "claim" /\ req[r].pc = "checkbound"
    BY <1>1, <1>33 DEF CheckBound, RoutedAs
  <2>2. ASSUME NEW pc, pc = IF req[r].row = 0 THEN "create" ELSE "consume"
        PROVE  /\ [req[r] EXCEPT !.pc = pc] \in Request
               /\ RoutedAs([req[r] EXCEPT !.pc = pc], DOMAIN challenge)
    <3>1. [req[r] EXCEPT !.pc = pc] \in Request
      BY <1>1, <2>2 DEF Request
    <3>2. RoutedAs([req[r] EXCEPT !.pc = pc], DOMAIN challenge)
      BY <1>1, <2>1, <2>2 DEF Request, RoutedAs
    <3> QED
      BY <3>1, <3>2
  <2> QED
    BY <1>1, <1>5, <1>8, <1>9, <1>33, <2>2 DEF CheckBound
<1>34. ASSUME NEW r \in Requests, CreateAccount(r) PROVE AuthTypeOK' /\ Routed'
  <2>1. /\ req[r].op = "claim" /\ req[r].handle \in Handles
        /\ req[r].email \in Emails \cup {Nobody} /\ req[r].row \in DOMAIN challenge \cup {0}
    BY <1>1, <1>34 DEF CreateAccount, RoutedAs, Request
  <2>2. Grows
    BY <1>5, <1>19, <1>34, <2>1 DEF CreateAccount
  <2>3. Rest
    BY <1>1, <1>34, <2>1 DEF CreateAccount, Account
  <2>4. [req[r] EXCEPT !.pc = "session", !.row = 0] \in Request
    BY <1>1 DEF Request
  <2>5. RoutedAs([req[r] EXCEPT !.pc = "session", !.row = 0], DOMAIN challenge')
    BY <1>1, <2>1 DEF Request, RoutedAs
  <2> QED
    BY <1>2, <1>8, <1>34, <2>2, <2>3, <2>4, <2>5 DEF CreateAccount
<1>35. ASSUME NEW i \in DOMAIN challenge, Lapse(i) PROVE AuthTypeOK' /\ Routed'
  <2>1. challenge' \in Seq(Challenge) /\ DOMAIN challenge' = DOMAIN challenge
    BY <1>3, <1>11, <1>12, <1>35 DEF Lapse
  <2> QED
    BY <1>1, <1>35, <2>1 DEF Lapse, AuthTypeOK, Routed
<1>36. ASSUME NEW r \in Requests, GivesUp(r) PROVE AuthTypeOK' /\ Routed'
  BY <1>1, <1>5, <1>8, <1>36 DEF GivesUp
<1>37. CASE UNCHANGED authVars \/ \E t \in session : Logout(t)
  BY <1>1, <1>37 DEF authVars, Logout, AuthTypeOK, Routed
<1> QED
  BY <1>10, <1>13, <1>15, <1>17, <1>20, <1>21, <1>23, <1>24, <1>25, <1>26, <1>27, <1>28,
     <1>29, <1>30, <1>31, <1>32, <1>33, <1>34, <1>35, <1>36, <1>37 DEF AuthNext

-----------------------------------------------------------------------------
(* One proof, one session                                                  *)

(* A row that is consumed has one holder, who opens it once.               *)
LEMMA HeldStep ==
  AuthTypeOK /\ Routed /\ HeldOnce /\ [AuthNext]_authVars => HeldOnce'
<1> SUFFICES ASSUME AuthTypeOK, Routed, HeldOnce, [AuthNext]_authVars PROVE HeldOnce'
  OBVIOUS
<1> DEFINE Keeps ==
             \A i \in DOMAIN challenge' :
               /\ challenge'[i].opened = IF i \in DOMAIN challenge THEN challenge[i].opened ELSE 0
               /\ i \in DOMAIN challenge /\ challenge[i].state = "consumed"
                    => challenge'[i].state = "consumed"
           Grows == DOMAIN challenge \subseteq DOMAIN challenge'
           Bound(c) == c.opened <= IF c.state = "consumed" THEN 1 ELSE 0
<1>1. /\ challenge \in Seq(Challenge) /\ req \in [Requests -> Request]
      /\ \A r \in Requests : RoutedAs(req[r], DOMAIN challenge)
  BY DEF AuthTypeOK, Routed
<1>2. /\ DOMAIN challenge = 1 .. Len(challenge) /\ Len(challenge) \in Nat
      /\ \A i \in DOMAIN challenge : challenge[i] \in Challenge
  BY <1>1
<1>3. /\ \A i \in DOMAIN challenge : Bound(challenge[i]) /\ challenge[i].opened \in Nat
      /\ \A r \in Requests : Holds(r) =>
           /\ challenge[req[r].row].state = "consumed" /\ challenge[req[r].row].opened = 0
           /\ req[r].row \in DOMAIN challenge
      /\ \A r, q \in Requests : Holds(r) /\ Holds(q) /\ req[r].row = req[q].row => r = q
  BY <1>1, <1>2 DEF HeldOnce, Holds, InHand, RoutedAs, Challenge
<1>4. ASSUME Keeps, Grows,
             \A q \in Requests : Holds(q)' => Holds(q) /\ req'[q].row = req[q].row
      PROVE  HeldOnce'
  <2>1. \A i \in DOMAIN challenge' : Bound(challenge'[i])
    BY <1>3, <1>4
  <2>2. \A q \in Requests : Holds(q)' =>
          challenge'[req'[q].row].state = "consumed" /\ challenge'[req'[q].row].opened = 0
    BY <1>3, <1>4
  <2>3. \A q, p \in Requests : Holds(q)' /\ Holds(p)' /\ req'[q].row = req'[p].row => q = p
    BY <1>3, <1>4
  <2> QED
    BY <2>1, <2>2, <2>3 DEF HeldOnce
<1>5. ASSUME NEW r \in Requests, NEW k, Becomes(r, k), Keeps, Grows,
             InHand(k) => Holds(r) /\ k.row = req[r].row
      PROVE  HeldOnce'
  <2>1. \A q \in Requests : req'[q] = IF q = r THEN k ELSE req[q]
    BY <1>1, <1>5 DEF Becomes
  <2> QED
    BY <1>4, <1>5, <2>1 DEF Holds
<1>6. UNCHANGED challenge => Keeps /\ Grows
  OBVIOUS
<1>7. ~InHand(NoRequest)
  BY DEF InHand, NoRequest
<1>8. ASSUME NEW r \in Requests, Replies(r), Keeps, Grows PROVE HeldOnce'
  BY <1>5, <1>7, <1>8 DEF Replies
<1>9. ASSUME NEW r \in Requests, NEW row \in Challenge, row.opened = 0,
             NEW s \in Seq(Challenge), DOMAIN s = DOMAIN challenge,
             challenge' = Append(s, row)
      PROVE  /\ Grows
             /\ \A i \in DOMAIN challenge' :
                  challenge'[i] = IF i \in DOMAIN challenge THEN s[i] ELSE row
  BY <1>2, <1>9
<1>10. ASSUME NEW r \in Requests, NEW e, StartCode(r, e) \/ Verify(r, e)
       PROVE  HeldOnce'
  <2>1. ~InHand([NoRequest EXCEPT !.pc = "supersede", !.op = "start", !.email = e])
    BY DEF NoRequest, InHand
  <2>2. \A i : ~InHand([NoRequest EXCEPT !.pc = "bump", !.op = "verify", !.email = e, !.row = i])
    BY DEF NoRequest, InHand
  <2> QED
    BY <1>5, <1>6, <1>10, <2>1, <2>2 DEF StartCode, Verify
<1>11. ASSUME NEW r \in Requests, NEW e, RecoverWithHeader(r, e) PROVE HeldOnce'
  <2>1. ~InHand([NoRequest EXCEPT !.pc = "lookup", !.op = "recover", !.email = e])
    BY DEF NoRequest, InHand
  <2> QED
    BY <1>5, <1>6, <1>11, <2>1 DEF RecoverWithHeader
<1>12. ASSUME NEW r \in Requests, NEW h, NEW e, ClaimWithHeader(r, h, e) PROVE HeldOnce'
  <2>1. ~InHand([NoRequest EXCEPT !.op = "claim", !.handle = h, !.email = e,
                                  !.pc = IF e = Nobody THEN "create" ELSE "checkbound"])
    BY DEF NoRequest, InHand
  <2> QED
    BY <1>5, <1>6, <1>12, <2>1 DEF ClaimWithHeader
<1>13. ASSUME NEW r \in Requests, NEW i, NEW h,
              RecoverWithTicket(r, i) \/ ClaimWithTicket(r, h, i)
       PROVE  HeldOnce'
  <2>1. /\ ~InHand([NoRequest EXCEPT !.pc = "peek", !.op = "recover", !.row = i])
        /\ ~InHand([NoRequest EXCEPT !.pc = "peek", !.op = "claim", !.handle = h, !.row = i])
    BY DEF NoRequest, InHand
  <2> QED
    BY <1>5, <1>6, <1>13, <2>1 DEF RecoverWithTicket, ClaimWithTicket
<1>14. ASSUME NEW r \in Requests, Supersede(r) PROVE HeldOnce'
  <2>1. Keeps /\ Grows
    BY <1>2, <1>14 DEF Supersede, Challenge
  <2>2. PICK k : Becomes(r, k) /\ k.pc = "insert"
    BY <1>1, <1>14 DEF Supersede, Then, Request
  <2> QED
    BY <1>5, <2>1, <2>2 DEF InHand
<1>15. ASSUME NEW r \in Requests, SendCode(r) PROVE HeldOnce'
  <2> DEFINE row == NewChallenge("otp", req[r].email)
  <2>1. row \in Challenge /\ row.opened = 0
    BY <1>1, <1>15 DEF SendCode, RoutedAs, NewChallenge, Challenge
  <2>2. Keeps /\ Grows
    BY <1>1, <1>9, <1>15, <2>1 DEF SendCode
  <2> QED
    BY <1>8, <1>15, <2>2 DEF SendCode
<1>16. ASSUME NEW r \in Requests, NEW right \in BOOLEAN, Guess(r, right) PROVE HeldOnce'
  <2>1. Keeps /\ Grows
    BY <1>1, <1>2, <1>16 DEF Guess, RoutedAs, Challenge
  <2>2. PICK k : Becomes(r, k) /\ k.pc \in {"consume", "idle"} /\ k.op \in {"verify", "none"}
    BY <1>1, <1>16 DEF Guess, Then, Replies, Request, NoRequest, RoutedAs
  <2> QED
    BY <1>5, <2>1, <2>2 DEF InHand
<1>17. ASSUME NEW r \in Requests, Consume(r) PROVE HeldOnce'
  <2>1. req[r].row \in DOMAIN challenge /\ req[r].op \in {"verify", "claim", "recover"}
    BY <1>1, <1>17 DEF Consume, RoutedAs
  <2>2. CASE ~Spendable(req[r].row)
    BY <1>6, <1>8, <1>17, <2>2 DEF Consume
  <2>3. CASE Spendable(req[r].row)
    <3>1. challenge' = [challenge EXCEPT ![req[r].row].state = "consumed"]
      BY <1>17, <2>3 DEF Consume
    <3>2. Keeps /\ Grows /\ \A i \in DOMAIN challenge' : Bound(challenge'[i])
      BY <1>2, <1>3, <2>1, <3>1 DEF Challenge
    <3>3. /\ challenge'[req[r].row].state = "consumed"
          /\ challenge'[req[r].row].opened = 0
      BY <1>2, <1>3, <2>1, <2>3, <3>1 DEF Challenge, Spendable
    <3>4. \A q \in Requests : Holds(q) => req[q].row # req[r].row
      BY <1>3, <2>3 DEF Spendable
    <3>5. \A q \in Requests : /\ req'[q].row = req[q].row
                              /\ Holds(q)' => q = r \/ Holds(q)
      BY <1>1, <1>17, <2>3 DEF Consume, Then, Becomes, Holds, Request
    <3>6. \A q \in Requests : Holds(q)' =>
            challenge'[req'[q].row].state = "consumed" /\ challenge'[req'[q].row].opened = 0
      BY <1>3, <3>2, <3>3, <3>5
    <3>7. \A q, p \in Requests : Holds(q)' /\ Holds(p)' /\ req'[q].row = req'[p].row => q = p
      BY <1>3, <3>4, <3>5
    <3> QED
      BY <3>2, <3>6, <3>7 DEF HeldOnce
  <2> QED
    BY <2>2, <2>3
<1>18. ASSUME NEW r \in Requests, NEW h, Found(r, h), UNCHANGED challenge,
              req[r].pc \in {"lookup", "bind"}
       PROVE  HeldOnce'
  <2> DEFINE k == [req[r] EXCEPT !.handle = h,
                     !.pc = IF req[r].op = "recover" /\ req[r].row # 0 THEN "consume" ELSE "session"]
  <2>1. req[r].op \in {"verify", "recover"}
    BY <1>1, <1>18 DEF RoutedAs
  <2>2. /\ k.op = req[r].op /\ k.row = req[r].row
        /\ k.pc = IF req[r].op = "recover" /\ req[r].row # 0 THEN "consume" ELSE "session"
    BY <1>1 DEF Request
  <2>3. InHand(k) => Holds(r)
    BY <1>18, <2>1, <2>2 DEF InHand, Holds
  <2>4. Becomes(r, k)
    BY <1>18 DEF Found
  <2> HIDE DEF k
  <2> QED
    BY <1>5, <1>6, <1>18, <2>2, <2>3, <2>4
<1>19. ASSUME NEW r \in Requests, NEW pc, Then(r, pc), UNCHANGED challenge,
              InHand([req[r] EXCEPT !.pc = pc]) => Holds(r)
       PROVE  HeldOnce'
  <2>1. [req[r] EXCEPT !.pc = pc].row = req[r].row
    BY <1>1 DEF Request
  <2> QED
    BY <1>5, <1>6, <1>19, <2>1 DEF Then
<1>20. ASSUME NEW r \in Requests, Lookup(r) PROVE HeldOnce'
  <2>1. CASE BoundTo(req[r].email) = {}
    <3>1. InHand([req[r] EXCEPT !.pc = "legacy"]) => Holds(r)
      BY <1>1, <1>20 DEF Lookup, InHand, Holds, Request
    <3> QED
      BY <1>19, <1>20, <2>1, <3>1 DEF Lookup
  <2>2. CASE BoundTo(req[r].email) # {}
    BY <1>18, <1>20, <2>2 DEF Lookup
  <2> QED
    BY <2>1, <2>2
<1>21. ASSUME NEW r \in Requests, LookupLegacy(r) PROVE HeldOnce'
  <2> DEFINE h == CHOOSE h \in LegacyOf(req[r].email) : TRUE
             k == [req[r] EXCEPT !.pc = "bind", !.handle = h]
  <2>1. req[r].op \in {"verify", "recover"} /\ req[r].pc = "legacy"
    BY <1>1, <1>21 DEF LookupLegacy, RoutedAs
  <2>2. CASE LegacyOf(req[r].email) # {}
    <3>1. Becomes(r, k) /\ UNCHANGED challenge
      BY <1>21, <2>2 DEF LookupLegacy
    <3> HIDE DEF h
    <3>2. k.row = req[r].row /\ k.op = req[r].op /\ k.pc = "bind"
      BY <1>1 DEF Request
    <3>3. InHand(k) => Holds(r)
      BY <2>1, <3>2 DEF InHand, Holds
    <3> HIDE DEF k
    <3> QED
      BY <1>5, <1>6, <3>1, <3>2, <3>3
  <2>3. CASE LegacyOf(req[r].email) = {} /\ req[r].op = "verify"
    <3>1. InHand([req[r] EXCEPT !.pc = "ticket"]) => Holds(r)
      BY <1>1, <2>1, <2>3 DEF InHand, Holds, Request
    <3> QED
      BY <1>19, <1>21, <2>3, <3>1 DEF LookupLegacy
  <2>4. CASE LegacyOf(req[r].email) = {} /\ req[r].op # "verify"
    BY <1>6, <1>8, <1>21, <2>4 DEF LookupLegacy
  <2> QED
    BY <2>2, <2>3, <2>4
<1>22. ASSUME NEW r \in Requests, Bind(r) PROVE HeldOnce'
  BY <1>6, <1>8, <1>18, <1>22 DEF Bind
<1>23. ASSUME NEW r \in Requests, NEW i \in DOMAIN challenge \cup {0}, i # 0 => Holds(r),
              i = req[r].row, \A q \in Requests \ {r} : req'[q] = req[q],
              ~InHand(req'[r]), Grows,
              \A j \in DOMAIN challenge' :
                 /\ j \in DOMAIN challenge => challenge'[j] = OpenedBy(i)[j]
                 /\ j \notin DOMAIN challenge => challenge'[j].opened = 0
       PROVE  HeldOnce'
  <2>1. /\ \A q \in Requests : Holds(q)' => Holds(q) /\ q # r /\ req'[q] = req[q]
        /\ \A q \in Requests : Holds(q)' => req'[q].row \in DOMAIN challenge /\ req'[q].row # i
    BY <1>1, <1>3, <1>23 DEF Holds, RoutedAs, InHand
  <2>2. \A j \in DOMAIN challenge : j # i => OpenedBy(i)[j] = challenge[j]
    BY <1>2 DEF OpenedBy
  <2>3. i # 0 => OpenedBy(i)[i].opened = 1 /\ OpenedBy(i)[i].state = "consumed"
    BY <1>2, <1>3, <1>23 DEF OpenedBy, Challenge
  <2>4. \A j \in DOMAIN challenge' : Bound(challenge'[j])
    <3> SUFFICES ASSUME NEW j \in DOMAIN challenge' PROVE Bound(challenge'[j])
      OBVIOUS
    <3>1. CASE j \in DOMAIN challenge /\ j = i
      <4>1. challenge'[j] = OpenedBy(i)[i] /\ i # 0
        BY <1>2, <1>23, <3>1
      <4> QED
        BY <2>3, <4>1
    <3>2. CASE j \in DOMAIN challenge /\ j # i
      BY <1>3, <1>23, <2>2, <3>2
    <3>3. CASE j \notin DOMAIN challenge
      BY <1>23, <3>3
    <3> QED
      BY <3>1, <3>2, <3>3
  <2>5. \A q \in Requests : Holds(q)' =>
          challenge'[req'[q].row].state = "consumed" /\ challenge'[req'[q].row].opened = 0
    BY <1>3, <1>23, <2>1, <2>2
  <2>6. \A q, p \in Requests : Holds(q)' /\ Holds(p)' /\ req'[q].row = req'[p].row => q = p
    BY <1>3, <2>1
  <2> QED
    BY <2>4, <2>5, <2>6 DEF HeldOnce
<1>24. ASSUME NEW r \in Requests, MintTicket(r) PROVE HeldOnce'
  <2> DEFINE row == NewChallenge("claim", req[r].email)
             s == OpenedBy(req[r].row)
  <2>1. /\ req[r].row \in DOMAIN challenge /\ req[r].op = "verify" /\ req[r].row # 0
        /\ req[r].email \in Emails /\ req[r].pc = "ticket"
    BY <1>1, <1>2, <1>24 DEF MintTicket, RoutedAs
  <2>2. row \in Challenge /\ row.opened = 0
    BY <2>1 DEF NewChallenge, Challenge
  <2>3. s \in Seq(Challenge) /\ DOMAIN s = DOMAIN challenge
    <3> DEFINE c == [challenge[req[r].row] EXCEPT !.opened = @ + 1]
    <3>1. c \in Challenge /\ s = [challenge EXCEPT ![req[r].row] = c]
      BY <1>2, <2>1 DEF OpenedBy, Challenge
    <3> HIDE DEF c, s
    <3> QED
      BY <1>1, <2>1, <3>1
  <2>4. challenge' = Append(s, row)
    BY <1>24 DEF MintTicket
  <2> HIDE DEF s, row
  <2>5. /\ Grows
        /\ \A i \in DOMAIN challenge' :
             challenge'[i] = IF i \in DOMAIN challenge THEN s[i] ELSE row
    BY <1>9, <2>2, <2>3, <2>4
  <2>6. Holds(r) /\ ~InHand(req'[r]) /\ \A q \in Requests \ {r} : req'[q] = req[q]
    BY <1>1, <1>7, <1>24, <2>1 DEF MintTicket, Replies, Becomes, Holds, InHand
  <2> QED
    BY <1>23, <2>1, <2>2, <2>5, <2>6 DEF s
<1>25. ASSUME NEW r \in Requests, NEW k, Becomes(r, k), ~InHand(k),
              req[r].pc \in {"create", "session"}, challenge' = OpenedBy(req[r].row)
       PROVE  HeldOnce'
  <2>1. req[r].row \in DOMAIN challenge \cup {0} /\ (req[r].row # 0 => Holds(r))
    BY <1>1, <1>25 DEF RoutedAs, Holds, InHand
  <2>2. DOMAIN challenge' = DOMAIN challenge
    BY <1>25 DEF OpenedBy
  <2>3. ~InHand(req'[r]) /\ \A q \in Requests \ {r} : req'[q] = req[q]
    BY <1>1, <1>25 DEF Becomes
  <2> QED
    BY <1>23, <1>25, <2>1, <2>2, <2>3
<1>26. ASSUME NEW r \in Requests, OpenSession(r) PROVE HeldOnce'
  BY <1>7, <1>25, <1>26 DEF OpenSession, Replies
<1>27. ASSUME NEW r \in Requests, CreateAccount(r) PROVE HeldOnce'
  <2> DEFINE k == [req[r] EXCEPT !.pc = "session", !.row = 0]
  <2>1. ~InHand(k)
    BY <1>1 DEF Request, InHand
  <2>2. \/ Becomes(r, k) /\ challenge' = OpenedBy(req[r].row)
        \/ Replies(r) /\ UNCHANGED challenge
    BY <1>27 DEF CreateAccount
  <2> HIDE DEF k
  <2> QED
    BY <1>6, <1>8, <1>25, <1>27, <2>1, <2>2 DEF CreateAccount
<1>28. ASSUME NEW r \in Requests, Peek(r) PROVE HeldOnce'
  <2> DEFINE k == [req[r] EXCEPT !.email = challenge[req[r].row].email,
                                 !.pc = IF req[r].op = "claim" THEN "checkbound" ELSE "lookup"]
  <2>1. req[r].op \in {"claim", "recover"}
    BY <1>1, <1>28 DEF Peek, RoutedAs
  <2>2. ~InHand(k)
    BY <1>1, <2>1 DEF Request, InHand
  <2>3. (Becomes(r, k) \/ Replies(r)) /\ UNCHANGED challenge
    BY <1>28 DEF Peek
  <2> HIDE DEF k
  <2> QED
    BY <1>5, <1>6, <1>8, <2>2, <2>3
<1>29. ASSUME NEW r \in Requests, CheckBound(r) PROVE HeldOnce'
  <2> DEFINE k == [req[r] EXCEPT !.pc = IF req[r].row = 0 THEN "create" ELSE "consume"]
  <2>1. req[r].op = "claim"
    BY <1>1, <1>29 DEF CheckBound, RoutedAs
  <2>2. ~InHand(k)
    BY <1>1, <2>1 DEF Request, InHand
  <2>3. (Becomes(r, k) \/ Replies(r)) /\ UNCHANGED challenge
    BY <1>29 DEF CheckBound, Then
  <2> HIDE DEF k
  <2> QED
    BY <1>5, <1>6, <1>8, <2>2, <2>3
<1>30. ASSUME NEW i \in DOMAIN challenge, Lapse(i) PROVE HeldOnce'
  <2>1. Keeps /\ Grows
    BY <1>2, <1>30 DEF Lapse, Challenge
  <2> QED
    BY <1>4, <1>30, <2>1 DEF Lapse, Holds
<1>31. ASSUME NEW r \in Requests, GivesUp(r) PROVE HeldOnce'
  BY <1>6, <1>8, <1>31 DEF GivesUp
<1>32. CASE UNCHANGED authVars \/ \E t \in session : Logout(t)
  BY <1>4, <1>6, <1>32 DEF authVars, Logout, Holds
<1> QED
  BY <1>10, <1>11, <1>12, <1>13, <1>14, <1>15, <1>16, <1>17, <1>20, <1>21, <1>22, <1>24,
     <1>26, <1>27, <1>28, <1>29, <1>30, <1>31, <1>32 DEF AuthNext

-----------------------------------------------------------------------------
(* One address, one account                                                *)

(* An account is made out of a free handle, and bound out of a legacy one  *)
(* of the same address; what is bound or typed stays.                      *)
LEMMA HomeStep ==
  AuthTypeOK /\ Routed /\ Homeward /\ [AuthNext]_authVars => Homeward'
<1> SUFFICES ASSUME AuthTypeOK, Routed, Homeward, [AuthNext]_authVars PROVE Homeward'
  OBVIOUS
<1> DEFINE Bound(e) == [state |-> "bound", email |-> e]
           Settled == \A h \in Handles :
             \/ account'[h] = account[h]
             \/ account[h].state = "free"
             \/ account[h].state = "legacy" /\ account'[h] = Bound(account[h].email)
           Rest == Settled /\ OneEach(account')
                   /\ \A s \in session' : AtHome(account', s.handle, s.email)
<1>1. /\ account \in [Handles -> Account] /\ req \in [Requests -> Request]
      /\ \A r \in Requests : RoutedAs(req[r], DOMAIN challenge)
      /\ challenge \in Seq(Challenge)
  BY DEF AuthTypeOK, Routed
<1>2. /\ OneEach(account) /\ \A s \in session : AtHome(account, s.handle, s.email)
      /\ \A r \in Requests : OnTheWay(account, req[r])
  BY DEF Homeward
<1>3. ASSUME Settled, NEW h, NEW e, AtHome(account, h, e) PROVE AtHome(account', h, e)
  <2>1. h \in Handles /\ account[h].state \in {"typed", "bound"}
    BY <1>3 DEF AtHome
  <2>2. account'[h] = account[h]
    BY <1>3, <2>1
  <2> QED
    BY <1>3, <2>2 DEF AtHome
<1>4. ASSUME Settled, NEW r \in Requests PROVE OnTheWay(account', req[r])
  <2>1. req[r].pc = "bind" => req[r].handle \in Handles
    BY <1>1 DEF RoutedAs
  <2>2. OnTheWay(account, req[r])
    BY <1>2
  <2>3. CASE req[r].pc = "bind"
    <3> DEFINE h == req[r].handle
               e == req[r].email
    <3>1. h \in Handles /\ account[h].state \in {"legacy", "bound"} /\ account[h].email = e
          /\ account[h] = [state |-> account[h].state, email |-> e]
      BY <2>1, <2>2, <2>3 DEF OnTheWay
    <3>2. account'[h] = account[h] \/ account'[h] = Bound(e)
      BY <1>4, <3>1
    <3>3. account'[h] \in [state : {"legacy", "bound"}, email : {e}]
      BY <3>1, <3>2
    <3> QED
      BY <2>3, <3>3 DEF OnTheWay
  <2>4. CASE req[r].pc # "bind"
    BY <1>3, <1>4, <2>2, <2>4 DEF OnTheWay
  <2> QED
    BY <2>3, <2>4
<1>5. ASSUME NEW r \in Requests, NEW k, Becomes(r, k), Rest, OnTheWay(account', k)
      PROVE  Homeward'
  <2>1. \A q \in Requests : req'[q] = IF q = r THEN k ELSE req[q]
    BY <1>1, <1>5 DEF Becomes
  <2>2. \A q \in Requests : OnTheWay(account', req'[q])
    BY <1>4, <1>5, <2>1
  <2> QED
    BY <1>5, <2>2 DEF Homeward
<1>6. UNCHANGED <<account, session>> => Rest
  BY <1>2
<1>7. ASSUME NEW acc PROVE OnTheWay(acc, NoRequest)
  BY DEF OnTheWay, NoRequest
<1>8. ASSUME NEW r \in Requests, Replies(r), Rest PROVE Homeward'
  BY <1>5, <1>7, <1>8 DEF Replies
<1>9. ASSUME NEW k, NEW acc, k.pc \notin {"session", "consume", "bind"} PROVE OnTheWay(acc, k)
  BY <1>9 DEF OnTheWay
<1>10. ASSUME NEW r \in Requests, NEW pc, Then(r, pc), UNCHANGED <<account, session>>,
              pc \notin {"session", "bind"}, pc = "consume" => req[r].op # "recover"
       PROVE  Homeward'
  <2> DEFINE k == [req[r] EXCEPT !.pc = pc]
  <2>1. k.pc = pc /\ k.op = req[r].op
    BY <1>1 DEF Request
  <2> HIDE DEF k
  <2>2. OnTheWay(account', k)
    BY <1>10, <2>1 DEF OnTheWay
  <2> QED
    BY <1>5, <1>6, <1>10, <2>2 DEF Then, k
<1>11. ASSUME NEW r \in Requests, NEW h \in Handles, Found(r, h), Rest,
              AtHome(account', h, req[r].email)
       PROVE  Homeward'
  <2> DEFINE k == [req[r] EXCEPT !.handle = h,
                     !.pc = IF req[r].op = "recover" /\ req[r].row # 0 THEN "consume" ELSE "session"]
  <2>1. k.handle = h /\ k.email = req[r].email /\ k.pc \in {"consume", "session"}
    BY <1>1 DEF Request
  <2>2. Becomes(r, k)
    BY <1>11 DEF Found
  <2> HIDE DEF k
  <2>3. OnTheWay(account', k)
    BY <1>11, <2>1 DEF OnTheWay
  <2> QED
    BY <1>5, <1>11, <2>2, <2>3
<1>12. \A S : S # {} => (CHOOSE x \in S : TRUE) \in S
  OBVIOUS
<1>13. ASSUME NEW r \in Requests, NEW e \in Emails,
              StartCode(r, e) \/ Verify(r, e) \/ RecoverWithHeader(r, e)
       PROVE  Homeward'
  <2>1. \A acc : OnTheWay(acc, [NoRequest EXCEPT !.pc = "supersede", !.op = "start", !.email = e])
    BY DEF NoRequest, OnTheWay
  <2>2. \A acc, i :
          OnTheWay(acc, [NoRequest EXCEPT !.pc = "bump", !.op = "verify", !.email = e, !.row = i])
    BY DEF NoRequest, OnTheWay
  <2>3. \A acc : OnTheWay(acc, [NoRequest EXCEPT !.pc = "lookup", !.op = "recover", !.email = e])
    BY DEF NoRequest, OnTheWay
  <2> QED
    BY <1>5, <1>6, <1>13, <2>1, <2>2, <2>3 DEF StartCode, Verify, RecoverWithHeader
<1>14. ASSUME NEW r \in Requests, NEW i, NEW h,
              RecoverWithTicket(r, i) \/ ClaimWithTicket(r, h, i)
       PROVE  Homeward'
  <2>1. \A acc :
          /\ OnTheWay(acc, [NoRequest EXCEPT !.pc = "peek", !.op = "recover", !.row = i])
          /\ OnTheWay(acc, [NoRequest EXCEPT !.pc = "peek", !.op = "claim", !.handle = h, !.row = i])
    BY DEF NoRequest, OnTheWay
  <2> QED
    BY <1>5, <1>6, <1>14, <2>1 DEF RecoverWithTicket, ClaimWithTicket
<1>15. ASSUME NEW r \in Requests, NEW h, NEW e, ClaimWithHeader(r, h, e) PROVE Homeward'
  <2>1. \A acc :
          OnTheWay(acc, [NoRequest EXCEPT !.op = "claim", !.handle = h, !.email = e,
                                          !.pc = IF e = Nobody THEN "create" ELSE "checkbound"])
    BY DEF NoRequest, OnTheWay
  <2> QED
    BY <1>5, <1>6, <1>15, <2>1 DEF ClaimWithHeader
<1>16. ASSUME NEW r \in Requests, Supersede(r) \/ SendCode(r) PROVE Homeward'
  BY <1>6, <1>8, <1>10, <1>16 DEF Supersede, SendCode
<1>17. ASSUME NEW r \in Requests, NEW right \in BOOLEAN, Guess(r, right) PROVE Homeward'
  <2>1. req[r].op = "verify"
    BY <1>1, <1>17 DEF Guess, RoutedAs
  <2> QED
    BY <1>6, <1>8, <1>10, <1>17, <2>1 DEF Guess
<1>18. ASSUME NEW r \in Requests, Consume(r) PROVE Homeward'
  <2>1. req[r].op \in {"verify", "claim", "recover"} /\ req[r].pc = "consume"
    BY <1>1, <1>18 DEF Consume, RoutedAs
  <2>2. CASE Replies(r)
    BY <1>6, <1>8, <1>18, <2>2 DEF Consume
  <2>3. CASE req[r].op = "verify" /\ Then(r, "lookup")
    BY <1>10, <1>18, <2>3 DEF Consume
  <2>4. CASE req[r].op = "claim" /\ Then(r, "create")
    BY <1>10, <1>18, <2>4 DEF Consume
  <2>5. CASE req[r].op = "recover" /\ Then(r, "session")
    <3> DEFINE k == [req[r] EXCEPT !.pc = "session"]
    <3>1. k.pc = "session" /\ k.handle = req[r].handle /\ k.email = req[r].email
      BY <1>1 DEF Request
    <3>2. UNCHANGED <<account, session>> /\ Becomes(r, k)
      BY <1>18, <2>5 DEF Consume, Then
    <3> HIDE DEF k
    <3>3. OnTheWay(account', k)
      BY <1>2, <2>1, <2>5, <3>1, <3>2 DEF OnTheWay
    <3> QED
      BY <1>5, <1>6, <3>2, <3>3
  <2> QED
    BY <1>18, <2>1, <2>2, <2>3, <2>4, <2>5 DEF Consume
<1>19. ASSUME NEW r \in Requests, Lookup(r) PROVE Homeward'
  <2> DEFINE bound == BoundTo(req[r].email)
             h == CHOOSE x \in bound : TRUE
  <2>1. UNCHANGED <<account, session>>
    BY <1>19 DEF Lookup
  <2>2. CASE bound = {}
    BY <1>10, <1>19, <2>1, <2>2 DEF Lookup
  <2>3. CASE bound # {}
    <3>1. h \in bound /\ Found(r, h)
      BY <1>12, <1>19, <2>3 DEF Lookup
    <3>2. req[r].email # Nobody
      BY <1>1, <1>19, NativeAuthAssumption DEF Lookup, RoutedAs
    <3> HIDE DEF h
    <3>3. h \in Handles /\ AtHome(account', h, req[r].email)
      BY <2>1, <3>1, <3>2 DEF BoundTo, AtHome
    <3> QED
      BY <1>6, <1>11, <2>1, <3>1, <3>3
  <2> QED
    BY <2>2, <2>3
<1>20. ASSUME NEW r \in Requests, LookupLegacy(r) PROVE Homeward'
  <2> DEFINE legacy == LegacyOf(req[r].email)
             h == CHOOSE x \in legacy : TRUE
             k == [req[r] EXCEPT !.pc = "bind", !.handle = h]
  <2>1. UNCHANGED <<account, session>>
    BY <1>20 DEF LookupLegacy
  <2>2. CASE legacy # {}
    <3>1. h \in legacy /\ Becomes(r, k)
      BY <1>12, <1>20, <2>2 DEF LookupLegacy
    <3> HIDE DEF h
    <3>2. k.pc = "bind" /\ k.handle = h /\ k.email = req[r].email
      BY <1>1 DEF Request
    <3>3. account[h] = [state |-> "legacy", email |-> k.email]
      BY <3>1, <3>2 DEF LegacyOf
    <3> HIDE DEF k
    <3>4. OnTheWay(account', k)
      BY <2>1, <3>2, <3>3 DEF OnTheWay
    <3> QED
      BY <1>5, <1>6, <2>1, <3>1, <3>4
  <2>3. CASE legacy = {}
    BY <1>6, <1>8, <1>10, <1>20, <2>1, <2>3 DEF LookupLegacy
  <2> QED
    BY <2>2, <2>3
<1>21. ASSUME NEW h \in Handles, NEW e \in Emails, MayBind(h, e), UNCHANGED session,
              account' = [account EXCEPT ![h] = Bound(e)],
              account[h].state = "free" \/ account[h] \in [state : {"legacy", "bound"}, email : {e}]
       PROVE  Rest /\ AtHome(account', h, e)
  <2>1. \A g \in Handles : account'[g] = IF g = h THEN Bound(e) ELSE account[g]
    BY <1>1, <1>21
  <2>2. Settled
    BY <1>21, <2>1
  <2>3. OneEach(account')
    <3>1. \A g \in Handles : account'[g].state = "bound" => account'[g].email \in Emails
      BY <1>2, <2>1 DEF OneEach
    <3>2. \A g \in Handles : account[g] = Bound(e) => g = h
      BY <1>21 DEF MayBind, BoundTo
    <3>3. ASSUME NEW f \in Handles, NEW g \in Handles,
                 account'[f].state = "bound", account'[g] = account'[f]
          PROVE  f = g
      BY <1>2, <2>1, <3>2, <3>3 DEF OneEach
    <3> QED
      BY <3>1, <3>3 DEF OneEach
  <2>4. AtHome(account', h, e)
    BY <2>1, NativeAuthAssumption DEF AtHome
  <2> QED
    BY <1>2, <1>3, <1>21, <2>2, <2>3, <2>4
<1>22. ASSUME NEW r \in Requests, Bind(r) PROVE Homeward'
  <2>1. req[r].handle \in Handles /\ req[r].email \in Emails /\ UNCHANGED session
    BY <1>1, <1>22 DEF Bind, RoutedAs
  <2>2. account[req[r].handle] \in [state : {"legacy", "bound"}, email : {req[r].email}]
    BY <1>2, <1>22 DEF Bind, OnTheWay
  <2>3. CASE MayBind(req[r].handle, req[r].email)
    BY <1>11, <1>21, <1>22, <2>1, <2>2, <2>3 DEF Bind
  <2>4. CASE ~MayBind(req[r].handle, req[r].email)
    BY <1>6, <1>8, <1>22, <2>4 DEF Bind
  <2> QED
    BY <2>3, <2>4
<1>23. ASSUME NEW r \in Requests, MintTicket(r) PROVE Homeward'
  BY <1>6, <1>8, <1>23 DEF MintTicket
<1>24. ASSUME NEW r \in Requests, OpenSession(r) PROVE Homeward'
  <2>1. AtHome(account, req[r].handle, req[r].email)
    BY <1>2, <1>24 DEF OpenSession, OnTheWay
  <2>2. Rest
    BY <1>2, <1>24, <2>1 DEF OpenSession
  <2> QED
    BY <1>8, <1>24, <2>2 DEF OpenSession
<1>25. ASSUME NEW r \in Requests, Peek(r) PROVE Homeward'
  <2> DEFINE k == [req[r] EXCEPT !.email = challenge[req[r].row].email,
                                 !.pc = IF req[r].op = "claim" THEN "checkbound" ELSE "lookup"]
  <2>1. k.pc \in {"checkbound", "lookup"}
    BY <1>1 DEF Request
  <2>2. (Becomes(r, k) \/ Replies(r)) /\ UNCHANGED <<account, session>>
    BY <1>25 DEF Peek
  <2> HIDE DEF k
  <2> QED
    BY <1>5, <1>6, <1>8, <1>9, <2>1, <2>2
<1>26. ASSUME NEW r \in Requests, CheckBound(r) PROVE Homeward'
  <2>1. req[r].op = "claim"
    BY <1>1, <1>26 DEF CheckBound, RoutedAs
  <2> QED
    BY <1>6, <1>8, <1>10, <1>26, <2>1 DEF CheckBound
<1>27. ASSUME NEW r \in Requests, CreateAccount(r) PROVE Homeward'
  <2> DEFINE h == req[r].handle
             e == req[r].email
             k == [req[r] EXCEPT !.pc = "session", !.row = 0]
  <2>1. h \in Handles /\ e \in Emails \cup {Nobody} /\ UNCHANGED session
    BY <1>1, <1>27 DEF CreateAccount, RoutedAs, Request
  <2>2. k.pc = "session" /\ k.handle = h /\ k.email = e
    BY <1>1 DEF Request
  <2>3. CASE Replies(r) /\ UNCHANGED account
    BY <1>6, <1>8, <2>1, <2>3
  <2>4. CASE /\ account[h] = Free /\ (e = Nobody \/ MayBind(h, e))
             /\ account' = [account EXCEPT ![h] =
                              [state |-> IF e = Nobody THEN "typed" ELSE "bound", email |-> e]]
             /\ Becomes(r, k)
    <3> HIDE DEF k, h, e
    <3>1. Rest /\ AtHome(account', h, e)
      <4>1. CASE e # Nobody
        <5>1. e \in Emails /\ MayBind(h, e) /\ account' = [account EXCEPT ![h] = Bound(e)]
          BY <2>1, <2>4, <4>1
        <5>2. account[h].state = "free"
          BY <2>4 DEF Free
        <5> QED
          BY <1>21, <2>1, <5>1, <5>2
      <4>2. CASE e = Nobody
        <5>1. \A g \in Handles : account'[g] =
                IF g = h THEN [state |-> "typed", email |-> Nobody] ELSE account[g]
          BY <1>1, <2>4, <4>2
        <5>2. Settled
          BY <2>4, <5>1 DEF Free
        <5>3. OneEach(account')
          BY <1>2, <5>1 DEF OneEach
        <5>4. AtHome(account', h, e)
          BY <2>1, <4>2, <5>1 DEF AtHome
        <5> QED
          BY <1>2, <1>3, <2>1, <5>2, <5>3, <5>4
      <4> QED
        BY <4>1, <4>2
    <3>2. OnTheWay(account', k)
      BY <2>2, <3>1 DEF OnTheWay
    <3> QED
      BY <1>5, <2>4, <3>1, <3>2
  <2> QED
    BY <1>27, <2>3, <2>4 DEF CreateAccount
<1>28. ASSUME NEW r \in Requests, GivesUp(r) PROVE Homeward'
  BY <1>6, <1>8, <1>28 DEF GivesUp
<1>29. CASE \/ UNCHANGED authVars
            \/ \E t \in session : Logout(t)
            \/ \E i \in DOMAIN challenge : Lapse(i)
  BY <1>2, <1>29 DEF authVars, Logout, Lapse, Homeward
<1> QED
  BY <1>13, <1>14, <1>15, <1>16, <1>17, <1>18, <1>19, <1>20, <1>22, <1>23, <1>24, <1>25,
     <1>26, <1>27, <1>28, <1>29 DEF AuthNext

-----------------------------------------------------------------------------
(* The fuses                                                               *)

(* What a request in flight is about to count is counted with it, so a     *)
(* step that counts takes it out of the flight, and a check lets one more  *)
(* of the requests into it.                                                *)
LEMMA FuseStep ==
  AuthTypeOK /\ Routed /\ Fused /\ [AuthNext]_authVars => Fused'
<1> SUFFICES ASSUME AuthTypeOK, Routed, Fused, [AuthNext]_authVars PROVE Fused'
  OBVIOUS
<1> DEFINE n == Cardinality(Requests)
           Unused(e) == Unconsumed("otp", e)
           Tried(i, c, G) == c[i].attempts + Cardinality(G) <= MaxAttempts + n - 1
           Sent(R, S) == Cardinality(R) + Cardinality(S) <= MaxSends + n - 1
           Open(U, S) == Cardinality(U) + Cardinality(S) <= n
<1>1. /\ challenge \in Seq(Challenge) /\ req \in [Requests -> Request]
      /\ \A r \in Requests : RoutedAs(req[r], DOMAIN challenge)
      /\ challenge' \in Seq(Challenge)
  BY AuthTypes DEF AuthTypeOK, Routed
<1>2. /\ DOMAIN challenge = 1 .. Len(challenge) /\ Len(challenge) \in Nat
      /\ DOMAIN challenge' = 1 .. Len(challenge') /\ Len(challenge') \in Nat
      /\ \A i \in DOMAIN challenge : challenge[i] \in Challenge
      /\ IsFiniteSet(DOMAIN challenge) /\ IsFiniteSet(DOMAIN challenge')
  BY <1>1, FS_Interval
<1>3. n \in Nat /\ n >= 1 /\ IsFiniteSet(Requests)
  BY FS_CardinalityType, FS_EmptySet, NativeAuthAssumption
<1>4. /\ \A i \in DOMAIN challenge : Tried(i, challenge, Guessing(i))
      /\ \A e \in Emails : Sent(RowsOf("otp", e), Sending(e)) /\ Open(Unused(e), Inserting(e))
  BY DEF Fused, SendsTo
<1>5. ASSUME \A i \in DOMAIN challenge' : Tried(i, challenge', Guessing(i)'),
             \A e \in Emails : Sent(RowsOf("otp", e)', Sending(e)') /\ Open(Unused(e)', Inserting(e)')
      PROVE  Fused'
  BY <1>5 DEF Fused, SendsTo
<1>6. /\ \A i : Guessing(i) \subseteq Requests /\ Guessing(i)' \subseteq Requests
      /\ \A e : /\ Sending(e) \subseteq Requests /\ Sending(e)' \subseteq Requests
                /\ Inserting(e) \subseteq Requests /\ Inserting(e)' \subseteq Requests
                /\ RowsOf("otp", e) \subseteq DOMAIN challenge
                /\ RowsOf("otp", e)' \subseteq DOMAIN challenge'
                /\ Unused(e) \subseteq RowsOf("otp", e) /\ Unused(e)' \subseteq RowsOf("otp", e)'
  BY DEF Guessing, Sending, Inserting, RowsOf, Unconsumed
<1>7. ASSUME NEW S, NEW T, IsFiniteSet(T), S \subseteq T
      PROVE  /\ IsFiniteSet(S) /\ Cardinality(S) \in Nat /\ Cardinality(T) \in Nat
             /\ Cardinality(S) <= Cardinality(T)
  BY <1>7, FS_Subset, FS_CardinalityType
<1>8. /\ \A i : IsFiniteSet(Guessing(i)) /\ IsFiniteSet(Guessing(i)')
      /\ \A e : /\ IsFiniteSet(Sending(e)) /\ IsFiniteSet(Sending(e)')
                /\ IsFiniteSet(Inserting(e)) /\ IsFiniteSet(Inserting(e)')
                /\ IsFiniteSet(RowsOf("otp", e)) /\ IsFiniteSet(RowsOf("otp", e)')
                /\ IsFiniteSet(Unused(e)) /\ IsFiniteSet(Unused(e)')
  BY <1>2, <1>3, <1>6, <1>7
(* A set that grows by one, and one that shrinks by one *)
<1>9. ASSUME NEW S, NEW x, IsFiniteSet(S)
      PROVE  /\ Cardinality(S \cup {x}) <= Cardinality(S) + 1
             /\ x \in S => Cardinality(S \ {x}) = Cardinality(S) - 1
             /\ Cardinality(S) \in Nat /\ IsFiniteSet(S \cup {x}) /\ IsFiniteSet(S \ {x})
             /\ Cardinality(S \cup {x}) \in Nat /\ Cardinality(S \ {x}) \in Nat
  <2>1. /\ IsFiniteSet(S \cup {x})
        /\ Cardinality(S \cup {x}) = Cardinality(S) \/ Cardinality(S \cup {x}) = Cardinality(S) + 1
    BY <1>9, FS_AddElement
  <2>2. /\ IsFiniteSet(S \ {x})
        /\ x \in S => Cardinality(S \ {x}) = Cardinality(S) - 1
    BY <1>9, FS_RemoveElement
  <2>3. /\ Cardinality(S) \in Nat /\ Cardinality(S \cup {x}) \in Nat
        /\ Cardinality(S \ {x}) \in Nat
    BY <1>9, <2>1, <2>2, FS_CardinalityType
  <2> QED
    BY <2>1, <2>2, <2>3
(* Everything that counts nothing and passes no fuse *)
<1>10. ASSUME \A i \in DOMAIN challenge' :
                IF i \in DOMAIN challenge
                THEN /\ challenge'[i].attempts = challenge[i].attempts
                     /\ challenge'[i].kind = challenge[i].kind
                     /\ challenge'[i].email = challenge[i].email
                     /\ challenge[i].state = "consumed" => challenge'[i].state = "consumed"
                ELSE challenge'[i].attempts = 0 /\ challenge'[i].kind # "otp",
              \A q \in Requests :
                \/ req'[q] = req[q]
                \/ req'[q].pc \notin {"bump", "supersede", "insert"}
       PROVE  Fused'
  <2>1. ASSUME NEW i \in DOMAIN challenge' PROVE Tried(i, challenge', Guessing(i)')
    <3>1. Guessing(i)' \subseteq Guessing(i)
      BY <1>10 DEF Guessing
    <3>2. /\ Cardinality(Guessing(i)') <= Cardinality(Guessing(i))
          /\ Cardinality(Guessing(i)') \in Nat /\ Cardinality(Guessing(i)) \in Nat
      BY <1>7, <1>8, <3>1
    <3>3. CASE i \in DOMAIN challenge
      <4>1. challenge[i].attempts \in Nat /\ challenge'[i].attempts = challenge[i].attempts
        BY <1>2, <1>10, <3>3 DEF Challenge
      <4>2. Tried(i, challenge, Guessing(i))
        BY <1>4, <3>3
      <4> QED
        BY <1>3, <3>2, <4>1, <4>2, NativeAuthAssumption
    <3>4. CASE i \notin DOMAIN challenge
      <4>1. Guessing(i) = {}
        BY <1>1, <1>2, <3>4 DEF Guessing, RoutedAs
      <4>2. Cardinality(Guessing(i)') = 0 /\ challenge'[i].attempts = 0
        BY <1>10, <3>1, <3>4, <4>1, FS_EmptySet
      <4> QED
        BY <1>3, <4>2, NativeAuthAssumption
    <3> QED
      BY <3>3, <3>4
  <2>2. ASSUME NEW e \in Emails
        PROVE  Sent(RowsOf("otp", e)', Sending(e)') /\ Open(Unused(e)', Inserting(e)')
    <3>1. /\ RowsOf("otp", e)' \subseteq RowsOf("otp", e) /\ Unused(e)' \subseteq Unused(e)
          /\ Sending(e)' \subseteq Sending(e) /\ Inserting(e)' \subseteq Inserting(e)
      BY <1>10 DEF RowsOf, Unconsumed, Sending, Inserting
    <3>2. /\ Cardinality(RowsOf("otp", e)') <= Cardinality(RowsOf("otp", e))
          /\ Cardinality(RowsOf("otp", e)') \in Nat /\ Cardinality(RowsOf("otp", e)) \in Nat
          /\ Cardinality(Sending(e)') <= Cardinality(Sending(e))
          /\ Cardinality(Sending(e)') \in Nat /\ Cardinality(Sending(e)) \in Nat
      BY <1>7, <1>8, <3>1
    <3>3. /\ Cardinality(Unused(e)') <= Cardinality(Unused(e))
          /\ Cardinality(Unused(e)') \in Nat /\ Cardinality(Unused(e)) \in Nat
          /\ Cardinality(Inserting(e)') <= Cardinality(Inserting(e))
          /\ Cardinality(Inserting(e)') \in Nat /\ Cardinality(Inserting(e)) \in Nat
      BY <1>7, <1>8, <3>1
    <3> QED
      BY <1>3, <1>4, <3>2, <3>3, NativeAuthAssumption
  <2> QED
    BY <1>5, <2>1, <2>2
<1>11. ASSUME NEW r \in Requests, NEW e \in Emails, StartCode(r, e) PROVE Fused'
  <2>1. UNCHANGED challenge /\ Cardinality(RowsOf("otp", e)) < MaxSends
    BY <1>11 DEF StartCode, SendsTo
  <2>2. \A q \in Requests : \/ q # r /\ req'[q] = req[q]
                            \/ q = r /\ req'[q].pc = "supersede" /\ req'[q].email = e
    BY <1>1, <1>11 DEF StartCode, Becomes, NoRequest
  <2>3. ASSUME NEW i \in DOMAIN challenge' PROVE Tried(i, challenge', Guessing(i)')
    <3>1. Guessing(i)' \subseteq Guessing(i)
      BY <2>2 DEF Guessing
    <3>2. /\ Cardinality(Guessing(i)') <= Cardinality(Guessing(i))
          /\ Cardinality(Guessing(i)') \in Nat /\ Cardinality(Guessing(i)) \in Nat
      BY <1>7, <1>8, <3>1
    <3>3. challenge[i].attempts \in Nat /\ challenge' = challenge
      BY <1>2, <2>1 DEF Challenge
    <3> QED
      BY <1>3, <1>4, <3>2, <3>3, NativeAuthAssumption
  <2>4. ASSUME NEW f \in Emails
        PROVE  Sent(RowsOf("otp", f)', Sending(f)') /\ Open(Unused(f)', Inserting(f)')
    <3>1. /\ RowsOf("otp", f)' = RowsOf("otp", f) /\ Unused(f)' = Unused(f)
          /\ Inserting(f)' \subseteq Inserting(f)
          /\ f # e => Sending(f)' \subseteq Sending(f)
      BY <2>1, <2>2 DEF RowsOf, Unconsumed, Sending, Inserting
    <3>2. /\ Cardinality(Inserting(f)') <= Cardinality(Inserting(f))
          /\ Cardinality(Inserting(f)') \in Nat /\ Cardinality(Inserting(f)) \in Nat
          /\ Cardinality(Sending(f)') <= n
          /\ f # e => Cardinality(Sending(f)') <= Cardinality(Sending(f))
      BY <1>3, <1>6, <1>7, <1>8, <3>1
    <3>3. /\ Cardinality(RowsOf("otp", f)) \in Nat /\ Cardinality(Unused(f)) \in Nat
          /\ Cardinality(Sending(f)') \in Nat /\ Cardinality(Sending(f)) \in Nat
      BY <1>8, FS_CardinalityType
    <3> QED
      BY <1>3, <1>4, <2>1, <3>1, <3>2, <3>3, NativeAuthAssumption
  <2> QED
    BY <1>5, <2>3, <2>4
<1>12. ASSUME NEW r \in Requests, NEW e \in Emails, Verify(r, e) PROVE Fused'
  <2> DEFINE i == LatestCode(e)
  <2>1. UNCHANGED challenge /\ challenge[i].attempts < MaxAttempts /\ i \in DOMAIN challenge
    <3>1. Unused(e) # {} /\ Unused(e) \in SUBSET Nat
      BY <1>2, <1>6, <1>12 DEF Verify
    <3>2. i \in Unused(e)
      BY <1>8, <3>1, LargestExists DEF LatestCode
    <3> QED
      BY <1>6, <1>12, <3>2 DEF Verify, GuessesLeft
  <2>2. \A q \in Requests : \/ q # r /\ req'[q] = req[q]
                            \/ q = r /\ req'[q].pc = "bump" /\ req'[q].row = i
    BY <1>1, <1>12 DEF Verify, Becomes, NoRequest
  <2> HIDE DEF i
  <2>3. ASSUME NEW j \in DOMAIN challenge' PROVE Tried(j, challenge', Guessing(j)')
    <3>1. j # i => Guessing(j)' \subseteq Guessing(j)
      BY <2>2 DEF Guessing
    <3>2. /\ j # i => Cardinality(Guessing(j)') <= Cardinality(Guessing(j))
          /\ Cardinality(Guessing(j)') <= n
      BY <1>3, <1>6, <1>7, <1>8, <3>1
    <3>3. /\ challenge[j].attempts \in Nat /\ challenge' = challenge
          /\ Cardinality(Guessing(j)') \in Nat /\ Cardinality(Guessing(j)) \in Nat
      BY <1>2, <1>8, <2>1, FS_CardinalityType DEF Challenge
    <3> QED
      BY <1>3, <1>4, <2>1, <3>2, <3>3, NativeAuthAssumption
  <2>4. ASSUME NEW f \in Emails
        PROVE  Sent(RowsOf("otp", f)', Sending(f)') /\ Open(Unused(f)', Inserting(f)')
    <3>1. /\ RowsOf("otp", f)' = RowsOf("otp", f) /\ Unused(f)' = Unused(f)
          /\ Inserting(f)' \subseteq Inserting(f) /\ Sending(f)' \subseteq Sending(f)
      BY <2>1, <2>2 DEF RowsOf, Unconsumed, Sending, Inserting
    <3>2. /\ Cardinality(Inserting(f)') <= Cardinality(Inserting(f))
          /\ Cardinality(Inserting(f)') \in Nat /\ Cardinality(Inserting(f)) \in Nat
          /\ Cardinality(Sending(f)') <= Cardinality(Sending(f))
          /\ Cardinality(Sending(f)') \in Nat /\ Cardinality(Sending(f)) \in Nat
      BY <1>7, <1>8, <3>1
    <3>3. Cardinality(RowsOf("otp", f)) \in Nat /\ Cardinality(Unused(f)) \in Nat
      BY <1>8, FS_CardinalityType
    <3> QED
      BY <1>3, <1>4, <3>1, <3>2, <3>3, NativeAuthAssumption
  <2> QED
    BY <1>5, <2>3, <2>4
<1>13. ASSUME NEW r \in Requests, Supersede(r) PROVE Fused'
  <2> DEFINE e == req[r].email
  <2>1. /\ DOMAIN challenge' = DOMAIN challenge
        /\ \A i \in DOMAIN challenge :
             /\ challenge'[i].attempts = challenge[i].attempts
             /\ challenge'[i].kind = challenge[i].kind
             /\ challenge'[i].email = challenge[i].email
             /\ challenge[i].state = "consumed" => challenge'[i].state = "consumed"
             /\ i \in Unused(e) => challenge'[i].state = "consumed"
    BY <1>2, <1>13 DEF Supersede, Challenge
  <2>2. /\ req[r].pc = "supersede" /\ e \in Emails
        /\ \A q \in Requests : \/ q # r /\ req'[q] = req[q]
                               \/ q = r /\ req'[q].pc = "insert" /\ req'[q].email = e
    BY <1>1, <1>13 DEF Supersede, Then, Becomes, Request, RoutedAs
  <2>3. ASSUME NEW i \in DOMAIN challenge' PROVE Tried(i, challenge', Guessing(i)')
    <3>1. Guessing(i)' \subseteq Guessing(i)
      BY <2>2 DEF Guessing
    <3>2. /\ Cardinality(Guessing(i)') <= Cardinality(Guessing(i))
          /\ Cardinality(Guessing(i)') \in Nat /\ Cardinality(Guessing(i)) \in Nat
      BY <1>7, <1>8, <3>1
    <3>3. challenge[i].attempts \in Nat /\ challenge'[i].attempts = challenge[i].attempts
      BY <1>2, <2>1 DEF Challenge
    <3> QED
      BY <1>3, <1>4, <2>1, <3>2, <3>3, NativeAuthAssumption
  <2>4. ASSUME NEW f \in Emails
        PROVE  Sent(RowsOf("otp", f)', Sending(f)') /\ Open(Unused(f)', Inserting(f)')
    <3>1. /\ RowsOf("otp", f)' \subseteq RowsOf("otp", f) /\ Sending(f)' \subseteq Sending(f)
          /\ Unused(f)' \subseteq Unused(f)
      BY <2>1, <2>2 DEF RowsOf, Unconsumed, Sending
    <3>2. /\ f = e => Unused(f)' = {}
          /\ f # e => Inserting(f)' \subseteq Inserting(f)
      BY <2>1, <2>2 DEF RowsOf, Unconsumed, Inserting
    <3>3. /\ Cardinality(RowsOf("otp", f)') <= Cardinality(RowsOf("otp", f))
          /\ Cardinality(RowsOf("otp", f)') \in Nat /\ Cardinality(RowsOf("otp", f)) \in Nat
          /\ Cardinality(Sending(f)') <= Cardinality(Sending(f))
          /\ Cardinality(Sending(f)') \in Nat /\ Cardinality(Sending(f)) \in Nat
      BY <1>7, <1>8, <3>1
    <3>4. /\ Cardinality(Unused(f)') <= Cardinality(Unused(f))
          /\ Cardinality(Unused(f)') \in Nat /\ Cardinality(Unused(f)) \in Nat
          /\ f = e => Cardinality(Unused(f)') = 0
      BY <1>7, <1>8, <3>1, <3>2, FS_EmptySet
    <3>5. /\ Cardinality(Inserting(f)') \in Nat /\ Cardinality(Inserting(f)) \in Nat
          /\ Cardinality(Inserting(f)') <= n
          /\ f # e => Cardinality(Inserting(f)') <= Cardinality(Inserting(f))
      BY <1>3, <1>6, <1>7, <1>8, <3>2
    <3> QED
      BY <1>3, <1>4, <3>3, <3>4, <3>5, NativeAuthAssumption
  <2> QED
    BY <1>5, <2>3, <2>4
<1>14. ASSUME NEW r \in Requests, SendCode(r) PROVE Fused'
  <2> DEFINE e == req[r].email
             last == Len(challenge) + 1
  <2>1. /\ last \notin DOMAIN challenge /\ DOMAIN challenge' = DOMAIN challenge \cup {last}
        /\ challenge'[last] = NewChallenge("otp", e)
        /\ \A i \in DOMAIN challenge : challenge'[i] = challenge[i]
    BY <1>1, <1>2, <1>14 DEF SendCode
  <2>2. /\ req[r].pc = "insert" /\ e \in Emails
        /\ \A q \in Requests : \/ q # r /\ req'[q] = req[q]
                               \/ q = r /\ req'[q].pc = "idle"
    BY <1>1, <1>14 DEF SendCode, Replies, Becomes, NoRequest, RoutedAs
  <2> HIDE DEF last
  <2>3. ASSUME NEW i \in DOMAIN challenge' PROVE Tried(i, challenge', Guessing(i)')
    <3>1. Guessing(i)' \subseteq Guessing(i)
      BY <2>2 DEF Guessing
    <3>2. /\ Cardinality(Guessing(i)') <= Cardinality(Guessing(i))
          /\ Cardinality(Guessing(i)') \in Nat /\ Cardinality(Guessing(i)) \in Nat
      BY <1>7, <1>8, <3>1
    <3>3. CASE i \in DOMAIN challenge
      <4>1. challenge[i].attempts \in Nat /\ challenge'[i].attempts = challenge[i].attempts
        BY <1>2, <2>1, <3>3 DEF Challenge
      <4> QED
        BY <1>3, <1>4, <3>2, <3>3, <4>1, NativeAuthAssumption
    <3>4. CASE i = last
      <4>1. Guessing(i) = {}
        BY <1>1, <1>2, <2>1, <3>4 DEF Guessing, RoutedAs
      <4>2. Cardinality(Guessing(i)') = 0 /\ challenge'[i].attempts = 0
        BY <2>1, <3>1, <3>4, <4>1, FS_EmptySet DEF NewChallenge
      <4> QED
        BY <1>3, <4>2, NativeAuthAssumption
    <3> QED
      BY <2>1, <3>3, <3>4
  <2>4. ASSUME NEW f \in Emails
        PROVE  Sent(RowsOf("otp", f)', Sending(f)') /\ Open(Unused(f)', Inserting(f)')
    <3>1. CASE f = e
      <4>1. /\ RowsOf("otp", f)' = RowsOf("otp", f) \cup {last}
            /\ Unused(f)' = Unused(f) \cup {last}
        BY <2>1, <3>1 DEF RowsOf, Unconsumed, NewChallenge
      <4>2. /\ Sending(f)' = Sending(f) \ {r} /\ r \in Sending(f)
            /\ Inserting(f)' = Inserting(f) \ {r} /\ r \in Inserting(f)
        BY <2>2, <3>1 DEF Sending, Inserting
      <4>3. /\ Cardinality(RowsOf("otp", f)') <= Cardinality(RowsOf("otp", f)) + 1
            /\ Cardinality(RowsOf("otp", f)') \in Nat /\ Cardinality(RowsOf("otp", f)) \in Nat
            /\ Cardinality(Sending(f)') = Cardinality(Sending(f)) - 1
            /\ Cardinality(Sending(f)') \in Nat /\ Cardinality(Sending(f)) \in Nat
        BY <1>8, <1>9, <4>1, <4>2
      <4>4. /\ Cardinality(Unused(f)') <= Cardinality(Unused(f)) + 1
            /\ Cardinality(Unused(f)') \in Nat /\ Cardinality(Unused(f)) \in Nat
            /\ Cardinality(Inserting(f)') = Cardinality(Inserting(f)) - 1
            /\ Cardinality(Inserting(f)') \in Nat /\ Cardinality(Inserting(f)) \in Nat
        BY <1>8, <1>9, <4>1, <4>2
      <4> QED
        BY <1>3, <1>4, <4>3, <4>4, NativeAuthAssumption
    <3>2. CASE f # e
      <4>1. /\ RowsOf("otp", f)' = RowsOf("otp", f) /\ Unused(f)' = Unused(f)
        BY <2>1, <3>2 DEF RowsOf, Unconsumed, NewChallenge
      <4>2. Sending(f)' = Sending(f) /\ Inserting(f)' = Inserting(f)
        BY <2>2, <3>2 DEF Sending, Inserting
      <4> QED
        BY <1>4, <4>1, <4>2
    <3> QED
      BY <3>1, <3>2
  <2> QED
    BY <1>5, <2>3, <2>4
<1>15. ASSUME NEW r \in Requests, NEW right \in BOOLEAN, Guess(r, right) PROVE Fused'
  <2> DEFINE i == req[r].row
  <2>1. /\ req[r].pc = "bump" /\ i \in DOMAIN challenge
        /\ \A q \in Requests : \/ q # r /\ req'[q] = req[q]
                               \/ q = r /\ req'[q].pc \in {"consume", "idle"}
    BY <1>1, <1>15 DEF Guess, Then, Replies, Becomes, NoRequest, Request, RoutedAs
  <2>2. /\ DOMAIN challenge' = DOMAIN challenge
        /\ challenge'[i].attempts = challenge[i].attempts + 1
        /\ \A j \in DOMAIN challenge :
             /\ j # i => challenge'[j].attempts = challenge[j].attempts
             /\ challenge'[j].kind = challenge[j].kind /\ challenge'[j].email = challenge[j].email
             /\ challenge'[j].state = challenge[j].state
    BY <1>2, <1>15, <2>1 DEF Guess, Challenge
  <2>3. ASSUME NEW j \in DOMAIN challenge' PROVE Tried(j, challenge', Guessing(j)')
    <3>1. /\ j = i => r \in Guessing(j) /\ Guessing(j)' = Guessing(j) \ {r}
          /\ j # i => Guessing(j)' = Guessing(j)
      BY <2>1 DEF Guessing
    <3>2. Cardinality(Guessing(j)) \in Nat
      BY <1>8, FS_CardinalityType
    <3>3. challenge[j].attempts \in Nat /\ j \in DOMAIN challenge
      BY <1>2, <2>2 DEF Challenge
    <3>4. CASE j = i
      <4>1. Cardinality(Guessing(j) \ {r}) = Cardinality(Guessing(j)) - 1
        BY <1>8, <1>9, <3>1, <3>4
      <4>2. challenge'[j].attempts = challenge[j].attempts + 1
        BY <2>2, <3>4
      <4>3. Cardinality(Guessing(j)') = Cardinality(Guessing(j)) - 1
        BY <3>1, <3>4, <4>1
      <4>4. Tried(j, challenge, Guessing(j))
        BY <1>4, <3>3
      <4> QED
        BY <1>3, <3>2, <3>3, <4>2, <4>3, <4>4, NativeAuthAssumption
    <3>5. CASE j # i
      BY <1>4, <2>2, <3>1, <3>3, <3>5
    <3> QED
      BY <3>4, <3>5
  <2>4. ASSUME NEW f \in Emails
        PROVE  Sent(RowsOf("otp", f)', Sending(f)') /\ Open(Unused(f)', Inserting(f)')
    <3>1. /\ RowsOf("otp", f)' = RowsOf("otp", f) /\ Unused(f)' = Unused(f)
          /\ Sending(f)' = Sending(f) /\ Inserting(f)' = Inserting(f)
      BY <2>1, <2>2 DEF RowsOf, Unconsumed, Sending, Inserting
    <3> QED
      BY <1>4, <3>1
  <2> QED
    BY <1>5, <2>3, <2>4
<1>16. ASSUME NEW r \in Requests, NEW i \in DOMAIN challenge \cup {0}, i = req[r].row,
              \/ challenge' = OpenedBy(i)
              \/ \E e : challenge' = Append(OpenedBy(i), NewChallenge("claim", e)),
              \A q \in Requests \ {r} : req'[q] = req[q],
              req'[r].pc \notin {"bump", "supersede", "insert"}
       PROVE  Fused'
  <2> DEFINE s == OpenedBy(i)
  <2>1. /\ DOMAIN s = DOMAIN challenge
        /\ \A j \in DOMAIN challenge :
             /\ s[j].attempts = challenge[j].attempts /\ s[j].kind = challenge[j].kind
             /\ s[j].email = challenge[j].email /\ s[j].state = challenge[j].state
    BY <1>2 DEF OpenedBy, Challenge
  <2>2. s \in Seq(Challenge)
    <3> DEFINE c == [challenge[i] EXCEPT !.opened = @ + 1]
    <3>1. CASE i = 0
      BY <1>1, <3>1 DEF OpenedBy
    <3>2. CASE i # 0
      <4>1. c \in Challenge /\ s = [challenge EXCEPT ![i] = c]
        BY <1>2, <3>2 DEF OpenedBy, Challenge
      <4> HIDE DEF c, s
      <4> QED
        BY <1>1, <3>2, <4>1
    <3> QED
      BY <3>1, <3>2
  <2> HIDE DEF s
  <2>3. \A j \in DOMAIN challenge' :
          IF j \in DOMAIN challenge THEN challenge'[j] = s[j]
          ELSE \E e : challenge'[j] = NewChallenge("claim", e)
    <3>1. CASE challenge' = s
      BY <2>1, <3>1
    <3>2. CASE \E e : challenge' = Append(s, NewChallenge("claim", e))
      <4>1. PICK e : challenge' = Append(s, NewChallenge("claim", e))
        BY <3>2
      <4>2. DOMAIN s = 1 .. Len(s) /\ Len(s) \in Nat
        BY <2>2
      <4> DEFINE c == NewChallenge("claim", e)
      <4> HIDE DEF c
      <4>3. \A j \in DOMAIN Append(s, c) : Append(s, c)[j] = IF j \in DOMAIN s THEN s[j] ELSE c
        BY <2>2, <4>2
      <4> QED
        BY <2>1, <4>1, <4>3 DEF c
    <3> QED
      BY <1>16, <3>1, <3>2 DEF s
  <2>4. \A e : /\ NewChallenge("claim", e).attempts = 0
               /\ NewChallenge("claim", e).kind # "otp"
    BY DEF NewChallenge
  <2> QED
    BY <1>10, <1>16, <2>1, <2>3, <2>4
<1>17. ASSUME NEW r \in Requests,
              OpenSession(r) \/ MintTicket(r)
       PROVE  Fused'
  <2>1. req[r].row \in DOMAIN challenge \cup {0}
    BY <1>1, <1>17 DEF OpenSession, MintTicket, RoutedAs
  <2>2. req'[r].pc = "idle" /\ \A q \in Requests \ {r} : req'[q] = req[q]
    BY <1>1, <1>17 DEF OpenSession, MintTicket, Replies, Becomes, NoRequest
  <2> QED
    BY <1>16, <1>17, <2>1, <2>2 DEF OpenSession, MintTicket
<1>18. ASSUME NEW r \in Requests, NEW k, Becomes(r, k), UNCHANGED challenge,
              k.pc \notin {"bump", "supersede", "insert"}
       PROVE  Fused'
  BY <1>1, <1>10, <1>18 DEF Becomes
<1>19. ASSUME NEW r \in Requests, Replies(r), UNCHANGED challenge PROVE Fused'
  BY <1>18, <1>19 DEF Replies, NoRequest
<1>20. ASSUME NEW r \in Requests, NEW pc, Then(r, pc), UNCHANGED challenge,
              pc \notin {"bump", "supersede", "insert"}
       PROVE  Fused'
  <2>1. [req[r] EXCEPT !.pc = pc].pc = pc
    BY <1>1 DEF Request
  <2> QED
    BY <1>18, <1>20, <2>1 DEF Then
<1>21. ASSUME NEW r \in Requests, CreateAccount(r) PROVE Fused'
  <2> DEFINE k == [req[r] EXCEPT !.pc = "session", !.row = 0]
  <2>1. req[r].row \in DOMAIN challenge \cup {0} /\ k.pc = "session"
    BY <1>1, <1>21 DEF CreateAccount, RoutedAs, Request
  <2>2. \/ Becomes(r, k) /\ challenge' = OpenedBy(req[r].row)
        \/ Replies(r) /\ UNCHANGED challenge
    BY <1>21 DEF CreateAccount
  <2> HIDE DEF k
  <2> QED
    BY <1>1, <1>16, <1>19, <2>1, <2>2 DEF Becomes
<1>22. ASSUME NEW r \in Requests, Consume(r) PROVE Fused'
  <2>1. req[r].row \in DOMAIN challenge /\ req[r].op \in {"verify", "claim", "recover"}
    BY <1>1, <1>22 DEF Consume, RoutedAs
  <2>2. CASE ~Spendable(req[r].row)
    BY <1>19, <1>22, <2>2 DEF Consume
  <2>3. CASE Spendable(req[r].row)
    <3>1. \A q \in Requests : \/ req'[q] = req[q]
                              \/ req'[q].pc \in {"lookup", "create", "session"}
      BY <1>1, <1>22, <2>1, <2>3 DEF Consume, Then, Becomes, Request
    <3>2. challenge' = [challenge EXCEPT ![req[r].row].state = "consumed"]
      BY <1>22, <2>3 DEF Consume
    <3>3. /\ DOMAIN challenge' = DOMAIN challenge
          /\ \A i \in DOMAIN challenge :
               /\ challenge'[i].attempts = challenge[i].attempts
               /\ challenge'[i].kind = challenge[i].kind /\ challenge'[i].email = challenge[i].email
               /\ challenge[i].state = "consumed" => challenge'[i].state = "consumed"
      BY <1>2, <2>1, <3>2 DEF Challenge
    <3> QED
      BY <1>10, <3>1, <3>3
  <2> QED
    BY <2>2, <2>3
<1>23. ASSUME NEW r \in Requests, NEW h, Found(r, h), UNCHANGED challenge PROVE Fused'
  <2> DEFINE k == [req[r] EXCEPT !.handle = h,
                     !.pc = IF req[r].op = "recover" /\ req[r].row # 0 THEN "consume" ELSE "session"]
  <2>1. Becomes(r, k) /\ k.pc \in {"consume", "session"}
    BY <1>1, <1>23 DEF Found, Request
  <2> HIDE DEF k
  <2> QED
    BY <1>18, <1>23, <2>1
<1>24. ASSUME NEW r \in Requests, Lookup(r) \/ Bind(r) PROVE Fused'
  BY <1>19, <1>20, <1>23, <1>24 DEF Lookup, Bind
<1>25. ASSUME NEW r \in Requests, LookupLegacy(r) PROVE Fused'
  <2> DEFINE h == CHOOSE h \in LegacyOf(req[r].email) : TRUE
             k == [req[r] EXCEPT !.pc = "bind", !.handle = h]
  <2>1. k.pc = "bind"
    BY <1>1 DEF Request
  <2>2. UNCHANGED challenge /\ (Becomes(r, k) \/ Then(r, "ticket") \/ Replies(r))
    BY <1>25 DEF LookupLegacy
  <2> HIDE DEF k
  <2> QED
    BY <1>18, <1>19, <1>20, <2>1, <2>2
<1>26. ASSUME NEW r \in Requests, Peek(r) PROVE Fused'
  <2> DEFINE k == [req[r] EXCEPT !.email = challenge[req[r].row].email,
                                 !.pc = IF req[r].op = "claim" THEN "checkbound" ELSE "lookup"]
  <2>1. k.pc \in {"checkbound", "lookup"}
    BY <1>1 DEF Request
  <2>2. (Becomes(r, k) \/ Replies(r)) /\ UNCHANGED challenge
    BY <1>26 DEF Peek
  <2> HIDE DEF k
  <2> QED
    BY <1>18, <1>19, <2>1, <2>2
<1>27. ASSUME NEW r \in Requests, CheckBound(r) PROVE Fused'
  BY <1>19, <1>20, <1>27 DEF CheckBound
<1>28. ASSUME NEW r \in Requests, NEW i, NEW h, NEW e,
              \/ RecoverWithTicket(r, i) \/ ClaimWithTicket(r, h, i)
              \/ ClaimWithHeader(r, h, e) \/ RecoverWithHeader(r, e)
       PROVE  Fused'
  <2>1. /\ [NoRequest EXCEPT !.pc = "peek", !.op = "claim", !.handle = h, !.row = i].pc = "peek"
        /\ [NoRequest EXCEPT !.pc = "peek", !.op = "recover", !.row = i].pc = "peek"
        /\ [NoRequest EXCEPT !.pc = "lookup", !.op = "recover", !.email = e].pc = "lookup"
        /\ [NoRequest EXCEPT !.op = "claim", !.handle = h, !.email = e,
              !.pc = IF e = Nobody THEN "create" ELSE "checkbound"].pc \in {"create", "checkbound"}
    BY DEF NoRequest
  <2> QED
    BY <1>18, <1>28, <2>1
       DEF RecoverWithTicket, ClaimWithTicket, ClaimWithHeader, RecoverWithHeader
<1>29. ASSUME NEW i \in DOMAIN challenge, Lapse(i) PROVE Fused'
  BY <1>2, <1>10, <1>29 DEF Lapse, Challenge
<1>30. ASSUME NEW r \in Requests, GivesUp(r) PROVE Fused'
  BY <1>19, <1>30 DEF GivesUp
<1>31. CASE UNCHANGED authVars \/ \E t \in session : Logout(t)
  BY <1>10, <1>31 DEF authVars, Logout
<1> QED
  BY <1>11, <1>12, <1>13, <1>14, <1>15, <1>17, <1>21, <1>22, <1>24, <1>25, <1>26, <1>27,
     <1>28, <1>29, <1>30, <1>31 DEF AuthNext

-----------------------------------------------------------------------------
(* The four parts hold together from the first state on.                   *)
LEMMA AuthInvariantHolds == AuthSpec => []AuthInvariant
<1>1. AuthInit => AuthInvariant
  <2> SUFFICES ASSUME AuthInit PROVE AuthInvariant
    OBVIOUS
  <2>1. /\ challenge = <<>> /\ DOMAIN challenge = {} /\ session = {}
        /\ mode \in {"native", "access"}
        /\ account \in [Handles -> {Free} \cup [state : {"legacy"}, email : Emails]]
        /\ req = [r \in Requests |-> NoRequest]
    BY DEF AuthInit
  <2>2. /\ \A r \in Requests : req[r] = NoRequest
        /\ NoRequest \in Request /\ NoRequest.pc = "idle" /\ NoRequest.row = 0
        /\ NoRequest.op = "none"
    BY <2>1 DEF NoRequest, Request
  <2>3. \A h \in Handles : /\ account[h] \in Account
                           /\ account[h].state \in {"free", "legacy"}
    BY <2>1 DEF Free, Account
  <2>4. AuthTypeOK
    <3>1. account \in [Handles -> Account]
      BY <2>1, <2>3
    <3> QED
      BY <2>1, <2>2, <3>1 DEF AuthTypeOK
  <2>5. Routed
    BY <2>2 DEF Routed, RoutedAs
  <2>6. HeldOnce
    BY <2>1, <2>2 DEF HeldOnce, Holds, InHand
  <2>7. Homeward
    BY <2>1, <2>2, <2>3 DEF Homeward, OneEach, OnTheWay
  <2>8. Fused
    <3>1. \A e : /\ SendsTo(e) = 0 /\ Cardinality(Unconsumed("otp", e)) = 0
                 /\ Cardinality(Sending(e)) = 0 /\ Cardinality(Inserting(e)) = 0
      <4>1. \A e : /\ RowsOf("otp", e) = {} /\ Unconsumed("otp", e) = {}
                   /\ Sending(e) = {} /\ Inserting(e) = {}
        BY <2>1, <2>2 DEF RowsOf, Unconsumed, Sending, Inserting
      <4> QED
        BY <4>1, FS_EmptySet DEF SendsTo
    <3>2. Cardinality(Requests) \in Nat /\ Cardinality(Requests) >= 1
      BY FS_CardinalityType, FS_EmptySet, NativeAuthAssumption
    <3> QED
      BY <2>1, <3>1, <3>2, NativeAuthAssumption DEF Fused
  <2> QED
    BY <2>4, <2>5, <2>6, <2>7, <2>8 DEF AuthInvariant
<1>2. AuthInvariant /\ [AuthNext]_authVars => AuthInvariant'
  BY AuthTypes, HeldStep, HomeStep, FuseStep DEF AuthInvariant
<1> QED
  BY <1>1, <1>2, PTL DEF AuthSpec

(* consumeChallenge (db.js): whatever requests race, one code or ticket    *)
(* makes one session, one account or one ticket at most.                   *)
THEOREM ProofsAreUsedOnce == AuthSpec => []ProofUsedOnce
<1>1. AuthInvariant => ProofUsedOnce
  <2> SUFFICES ASSUME AuthInvariant, NEW i \in DOMAIN challenge
               PROVE  challenge[i].opened <= 1
    BY DEF ProofUsedOnce
  <2>1. challenge[i].opened \in Nat
    <3>1. challenge \in Seq(Challenge)
      BY DEF AuthInvariant, AuthTypeOK
    <3>2. challenge[i] \in Challenge
      BY <3>1
    <3> QED
      BY <3>2 DEF Challenge
  <2> QED
    BY <2>1 DEF AuthInvariant, HeldOnce
<1> QED
  BY <1>1, AuthInvariantHolds, PTL

(* idx_users_verified_email and recoverUserByEmail: an address has one     *)
(* account, and a session opened for the address is one on that account.   *)
THEOREM OneAddressOneAccount == AuthSpec => []SessionsLeadHome
<1>1. AuthInvariant => SessionsLeadHome
  <2> SUFFICES ASSUME AuthInvariant PROVE SessionsLeadHome
    OBVIOUS
  <2>1. OneEach(account) /\ \A s \in session : AtHome(account, s.handle, s.email)
    BY DEF AuthInvariant, Homeward
  <2>2. ASSUME NEW e \in Emails PROVE Cardinality(BoundTo(e)) <= 1
    <3>1. CASE BoundTo(e) = {}
      BY <3>1, FS_EmptySet
    <3>2. CASE BoundTo(e) # {}
      <4>1. PICK h : h \in BoundTo(e)
        BY <3>2
      <4>2. BoundTo(e) = {h}
        BY <2>1, <4>1 DEF BoundTo, OneEach
      <4>3. Cardinality({h}) = 1
        BY FS_Singleton
      <4> QED
        BY <4>2, <4>3
    <3> QED
      BY <3>1, <3>2
  <2>3. ASSUME NEW s \in session
        PROVE  IF s.email = Nobody THEN account[s.handle].state = "typed"
               ELSE s.handle \in BoundTo(s.email)
    <3>1. AtHome(account, s.handle, s.email)
      BY <2>1
    <3>2. CASE s.email = Nobody
      BY <3>1, <3>2 DEF AtHome
    <3>3. CASE s.email # Nobody
      BY <3>1, <3>3 DEF AtHome, BoundTo
    <3> QED
      BY <3>2, <3>3
  <2> QED
    BY <2>2, <2>3 DEF SessionsLeadHome
<1> QED
  BY <1>1, AuthInvariantHolds, PTL

(* The fuses of auth-native.js are read before they are counted, so all    *)
(* the requests in flight may pass one together, and no more than those:   *)
(* for any number of them the overshoot is one less than they are.         *)
THEOREM FusesHoldUpToARace == AuthSpec => []FusesHold
<1>1. AuthInvariant => FusesHold
  <2> SUFFICES ASSUME AuthInvariant PROVE FusesHold
    OBVIOUS
  <2> DEFINE n == Cardinality(Requests)
  <2>1. Fused /\ challenge \in Seq(Challenge)
    BY DEF AuthInvariant, AuthTypeOK
  <2>2. n \in Nat /\ IsFiniteSet(Requests) /\ IsFiniteSet(DOMAIN challenge)
    BY <2>1, FS_CardinalityType, FS_Interval, NativeAuthAssumption
  <2>3. ASSUME NEW i \in DOMAIN challenge PROVE challenge[i].attempts <= MaxAttempts + n - 1
    <3>1. Cardinality(Guessing(i)) \in Nat
      BY <2>2, FS_Subset, FS_CardinalityType DEF Guessing
    <3>2. challenge[i].attempts \in Nat
      <4>1. challenge[i] \in Challenge
        BY <2>1
      <4> QED
        BY <4>1 DEF Challenge
    <3> QED
      BY <2>1, <2>2, <3>1, <3>2, NativeAuthAssumption DEF Fused
  <2>4. ASSUME NEW e \in Emails
        PROVE  SendsTo(e) <= MaxSends + n - 1 /\ Cardinality(Unconsumed("otp", e)) <= n
    <3>1. IsFiniteSet(Sending(e)) /\ IsFiniteSet(Inserting(e))
      BY <2>2, FS_Subset DEF Sending, Inserting
    <3>2. IsFiniteSet(RowsOf("otp", e)) /\ IsFiniteSet(Unconsumed("otp", e))
      BY <2>2, FS_Subset DEF RowsOf, Unconsumed
    <3>3. /\ Cardinality(Sending(e)) \in Nat /\ Cardinality(Inserting(e)) \in Nat
          /\ SendsTo(e) \in Nat /\ Cardinality(Unconsumed("otp", e)) \in Nat
      BY <3>1, <3>2, FS_CardinalityType DEF SendsTo
    <3> QED
      BY <2>1, <2>2, <3>3, NativeAuthAssumption DEF Fused
  <2> QED
    BY <2>3, <2>4 DEF FusesHold
<1> QED
  BY <1>1, AuthInvariantHolds, PTL

-----------------------------------------------------------------------------
(* The invariant of Onboarding.                                            *)

\* Which errand comes to which await, and what it has to have asked for by then.
Placed(k) ==
  /\ k.pc \in {"validate", "create", "upload", "start"} => k.op = "connect"
  /\ k.pc \in {"user", "key"} => k.op \in {"connect", "admin", "seed"}
  /\ k.pc = "look" => k.op = "seed"
  /\ k.pc = "den" => k.op \in {"found", "seed"}
  /\ k.pc = "member" => k.op \in {"connect", "found", "seed"}
  /\ k.pc # "new" => k.name \in Takers
  /\ k.op \in {"connect", "found", "seed"} => k.slug \in Slugs
  /\ k.pc = "new" => k = NewErrand

Mine(c, n) == user[n] = [kind |-> "agent", by |-> c]

\* What an errand has made by the await it stands at.
Earned(c) ==
  LET k == errand[c] IN
  /\ k.pc \in {"new", "validate", "create", "upload", "start", "user"} =>
       speaks[c] = Nil /\ \A n \in Takers : user[n].by # c
  /\ speaks[c] # Nil => Mine(c, speaks[c])
  /\ k.pc = "key" => Mine(c, k.name)
  /\ k.op = "connect" =>
       /\ k.pc \in {"start", "user"} \/ (\E n \in Takers : user[n].by = c) =>
            hosted[c] \in {"coded", "running"}
       /\ k.pc \in {"member", "answered"} => speaks[c] = k.name
  /\ (k.op \in {"found", "seed"} /\ k.pc = "member") \/ (k.op = "found" /\ k.pc = "answered") =>
       founder[k.slug] = k.name
  /\ k.op \in {"connect", "found"} /\ k.pc = "answered" => role[k.slug][k.name] # "none"

BoardInvariant ==
  /\ BoardTypeOK
  /\ \A c \in Errands : Placed(errand[c]) /\ Earned(c)
  /\ \A s \in Slugs, n \in Takers : role[s][n] = "owner" => n = founder[s]

(* One errand moves at a time; users, dens and memberships that are there  *)
(* stay, and a user row is inserted by the errand that moves or by a human.*)
LEMMA BoardStep == BoardInvariant /\ [BoardNext]_boardVars => BoardInvariant'
<1> SUFFICES ASSUME BoardInvariant, [BoardNext]_boardVars PROVE BoardInvariant'
  OBVIOUS
<1> DEFINE Users == [kind : {"none", "human", "agent"}, by : Errands \cup {Nil}]
           Kept(c) ==
             /\ \A d \in Errands \ {c} :
                  errand'[d] = errand[d] /\ hosted'[d] = hosted[d] /\ speaks'[d] = speaks[d]
             /\ \A n \in Takers :
                  user'[n] = user[n] \/ (user[n] = NoUser /\ user'[n].by \in {c, Nil})
             /\ \A s \in Slugs : founder'[s] = founder[s] \/ founder[s] = Nil
             /\ \A s \in Slugs, n \in Takers : role'[s][n] = role[s][n] \/ role[s][n] = "none"
           Owned == \A s \in Slugs, n \in Takers : role'[s][n] = "owner" => n = founder'[s]
<1>1. /\ errand \in [Errands -> Errand]
      /\ hosted \in [Errands -> {"none", "created", "coded", "running"}]
      /\ user \in [Takers -> Users]
      /\ speaks \in [Errands -> Takers \cup {Nil}]
      /\ founder \in [Slugs -> Takers \cup {Nil}]
      /\ role \in [Slugs -> [Takers -> {"none", "member", "owner"}]]
  BY DEF BoardInvariant, BoardTypeOK
<1>2. /\ \A c \in Errands : Placed(errand[c]) /\ Earned(c)
      /\ \A s \in Slugs, n \in Takers : role[s][n] = "owner" => n = founder[s]
  BY DEF BoardInvariant
<1>3. ASSUME NEW c, Kept(c), NEW d \in Errands \ {c} PROVE Placed(errand'[d]) /\ Earned(d)'
  <2>1. /\ errand'[d] = errand[d] /\ hosted'[d] = hosted[d] /\ speaks'[d] = speaks[d]
        /\ d # c /\ d # Nil
    BY <1>3, OnboardingAssumption
  <2>2. \A n \in Takers :
          /\ user'[n].by = d => user[n].by = d
          /\ Mine(d, n) => Mine(d, n)'
    BY <1>3, <2>1 DEF Mine, NoUser
  <2>3. \A s \in Slugs, n \in Takers :
          /\ founder[s] = n => founder'[s] = n
          /\ role[s][n] # "none" => role'[s][n] # "none"
    BY <1>3, OnboardingAssumption
  <2>4. errand[d] \in Errand /\ speaks[d] \in Takers \cup {Nil} /\ Placed(errand[d]) /\ Earned(d)
    BY <1>1, <1>2
  <2>5. errand[d].pc # "new" => errand[d].name \in Takers
    BY <2>4 DEF Placed
  <2>6. errand[d].op \in {"connect", "found", "seed"} => errand[d].slug \in Slugs
    BY <2>4 DEF Placed
  <2>7. Earned(d)'
    BY <2>1, <2>2, <2>3, <2>4, <2>5, <2>6 DEF Earned
  <2> QED
    BY <2>1, <2>4, <2>7
<1>4. ASSUME NEW c \in Errands, Kept(c), BoardTypeOK', Owned, Placed(errand'[c]), Earned(c)'
      PROVE  BoardInvariant'
  BY <1>3, <1>4 DEF BoardInvariant
<1>5. ASSUME NEW c \in Errands, NEW op \in {"connect", "admin", "seed", "found"},
             NEW n \in Takers, NEW t \in Slugs \cup {Nil}, NEW pc \in Steps,
             Begins(c, op, n, t, pc), Placed([pc |-> pc, op |-> op, name |-> n, slug |-> t]),
             pc \in {"validate", "user", "den"} \/ (pc = "look" /\ op = "seed"),
             pc = "user" => op # "connect"
      PROVE  BoardInvariant'
  <2> DEFINE k == [pc |-> pc, op |-> op, name |-> n, slug |-> t]
  <2>1. /\ errand' = [errand EXCEPT ![c] = k]
        /\ UNCHANGED <<hosted, user, speaks, founder, role>> /\ errand[c] = NewErrand
    BY <1>5 DEF Begins
  <2>2. k \in Errand /\ errand'[c] = k
    BY <1>1, <2>1 DEF Errand
  <2>3. BoardTypeOK'
    BY <1>1, <2>1, <2>2 DEF BoardTypeOK
  <2>4. Kept(c) /\ Owned
    BY <1>1, <1>2, <2>1
  <2>5. speaks[c] = Nil /\ \A m \in Takers : user[m].by # c
    BY <1>2, <2>1 DEF Earned, NewErrand
  <2>6. Earned(c)'
    BY <1>5, <2>1, <2>2, <2>5 DEF Earned
  <2> QED
    BY <1>4, <1>5, <2>2, <2>3, <2>4, <2>6
<1>6. ASSUME NEW c \in Errands, NEW n \in Takers, NEW t \in Slugs,
             ConnectAgent(c, n, t) \/ FoundDen(c, n, t)
      PROVE  BoardInvariant'
  <2>1. /\ Placed([pc |-> "validate", op |-> "connect", name |-> n, slug |-> t])
        /\ Placed([pc |-> "den", op |-> "found", name |-> n, slug |-> t])
    BY DEF Placed
  <2> QED
    BY <1>5, <1>6, <2>1 DEF ConnectAgent, FoundDen, Steps
<1>7. ASSUME NEW c \in Errands, NEW n \in Takers, AdminAgent(c, n) PROVE BoardInvariant'
  <2>1. Placed([pc |-> "user", op |-> "admin", name |-> n, slug |-> Nil])
    BY <1>7 DEF Placed
  <2> QED
    BY <1>5, <1>7, <2>1 DEF AdminAgent, Steps
<1>8. ASSUME NEW c \in Errands, Seed(c) PROVE BoardInvariant'
  <2>1. \A pc \in {"look", "user"} :
          Placed([pc |-> pc, op |-> "seed", name |-> Wolf, slug |-> Lobby])
    BY OnboardingAssumption DEF Placed
  <2>2. \E pc \in {"look", "user"} : Begins(c, "seed", Wolf, Lobby, pc)
    BY <1>8 DEF Seed
  <2> QED
    BY <1>5, <2>1, <2>2, OnboardingAssumption DEF Steps
(* The errand goes on to pc *)
<1>9. ASSUME NEW c \in Errands, NEW pc \in Steps \cup {"refused", "answered"}, Leads(c, pc)
      PROVE  /\ errand' \in [Errands -> Errand]
             /\ errand'[c].pc = pc /\ errand'[c].op = errand[c].op
             /\ errand'[c].name = errand[c].name /\ errand'[c].slug = errand[c].slug
             /\ \A d \in Errands \ {c} : errand'[d] = errand[d]
  <2> DEFINE k == [errand[c] EXCEPT !.pc = pc]
  <2>1. /\ k \in Errand /\ k.pc = pc /\ k.op = errand[c].op
        /\ k.name = errand[c].name /\ k.slug = errand[c].slug
    <3>1. errand[c] \in Errand /\ pc \in {"new"} \cup Steps \cup {"refused", "answered"}
      BY <1>1, <1>9
    <3>2. k = [pc |-> pc, op |-> errand[c].op, name |-> errand[c].name, slug |-> errand[c].slug]
      BY <3>1 DEF Errand
    <3> QED
      BY <3>1, <3>2 DEF Errand
  <2>2. errand' = [errand EXCEPT ![c] = k]
    BY <1>9 DEF Leads
  <2> HIDE DEF k
  <2> QED
    BY <1>1, <2>1, <2>2
<1>10. ASSUME NEW c \in Errands, NEW works \in BOOLEAN, NEW answered \in BOOLEAN,
              Agentverse(c, works, answered)
       PROVE  BoardInvariant'
  <2> DEFINE k == errand[c]
  <2>1. k.pc \in {"validate", "create", "upload", "start"} /\ k.op = "connect"
    BY <1>2, <1>10 DEF Agentverse, AfterCall, Placed
  <2>2. PICK pc \in {"create", "upload", "start", "user", "refused"} :
          /\ Leads(c, pc)
          /\ pc = "start" => works /\ k.pc = "upload"
          /\ pc = "user" => k.pc = "start"
    BY <1>10, <2>1 DEF Agentverse, AfterCall
  <2>3. PICK h \in {"none", "created", "coded", "running"} :
          /\ hosted' = [hosted EXCEPT ![c] = h]
          /\ k.pc = "start" => h \in {hosted[c], "running"}
          /\ works /\ k.pc = "upload" => h = "coded"
    <3>1. CASE works /\ k.pc # "validate"
      <4>1. /\ hosted' = [hosted EXCEPT ![c] = HostedBecomes[k.pc]]
            /\ HostedBecomes[k.pc] \in {"created", "coded", "running"}
            /\ k.pc = "start" => HostedBecomes[k.pc] = "running"
            /\ k.pc = "upload" => HostedBecomes[k.pc] = "coded"
        BY <1>10, <2>1, <3>1 DEF Agentverse, HostedBecomes
      <4> QED
        BY <4>1
    <3>2. CASE ~(works /\ k.pc # "validate")
      <4>1. hosted' = [hosted EXCEPT ![c] = hosted[c]] /\ ~(works /\ k.pc = "upload")
        BY <1>1, <1>10, <3>2 DEF Agentverse
      <4>2. hosted[c] \in {"none", "created", "coded", "running"}
        BY <1>1
      <4> QED
        BY <4>1, <4>2
    <3> QED
      BY <3>1, <3>2
  <2>4. UNCHANGED <<user, speaks, founder, role>>
    BY <1>10 DEF Agentverse
  <2>5. BoardTypeOK' /\ hosted'[c] = h /\ \A d \in Errands \ {c} : hosted'[d] = hosted[d]
    BY <1>1, <1>9, <2>2, <2>3, <2>4 DEF BoardTypeOK, Steps
  <2>6. /\ errand'[c].pc = pc /\ errand'[c].op = "connect" /\ errand'[c].name = k.name
        /\ errand'[c].slug = k.slug /\ \A d \in Errands \ {c} : errand'[d] = errand[d]
    BY <1>9, <2>1, <2>2 DEF Steps
  <2>7. Kept(c) /\ Owned
    BY <1>1, <1>2, <2>4, <2>5, <2>6
  <2>8. Placed(errand'[c])
    <3>1. Placed(k)
      BY <1>2
    <3> QED
      BY <2>1, <2>2, <2>6, <3>1 DEF Placed
  <2>9. Earned(c)'
    <3>1. /\ speaks[c] = Nil /\ \A m \in Takers : user[m].by # c
          /\ k.pc = "start" => hosted[c] \in {"coded", "running"}
      BY <1>2, <2>1 DEF Earned
    <3>2. pc \in {"start", "user"} => h \in {"coded", "running"}
      BY <2>2, <2>3, <3>1
    <3> QED
      BY <2>2, <2>4, <2>5, <2>6, <3>1, <3>2 DEF Earned
  <2> QED
    BY <1>4, <2>5, <2>7, <2>8, <2>9
(* A statement of D1 that commits, throws, or both *)
<1>11. ASSUME NEW c \in Errands, NEW answered \in BOOLEAN, NEW next \in Steps \cup {"answered"},
              Leads(c, IF answered THEN next ELSE "refused")
       PROVE  /\ errand' \in [Errands -> Errand]
              /\ errand'[c].pc = IF answered THEN next ELSE "refused"
              /\ errand'[c].op = errand[c].op
              /\ errand'[c].name = errand[c].name /\ errand'[c].slug = errand[c].slug
              /\ \A d \in Errands \ {c} : errand'[d] = errand[d]
  BY <1>9, <1>11
<1>12. ASSUME NEW c \in Errands, NEW commits \in BOOLEAN, NEW answered \in BOOLEAN,
              InsertUser(c, commits, answered)
       PROVE  BoardInvariant'
  <2> DEFINE k == errand[c]
             n == k.name
  <2>1. /\ k.pc = "user" /\ k.op \in {"connect", "admin", "seed"} /\ n \in Takers
        /\ Placed(k) /\ Earned(c)
    BY <1>2, <1>12 DEF InsertUser, Placed
  <2>2. /\ UNCHANGED <<hosted, speaks, founder, role>>
        /\ (commits => user[n] = NoUser) /\ (answered => commits)
        /\ Leads(c, IF answered THEN "key" ELSE "refused")
        /\ user' = IF commits THEN [user EXCEPT ![n] = [kind |-> "agent", by |-> c]] ELSE user
    BY <1>12 DEF InsertUser, Outcome, MayInsert, Exists
  <2>3. /\ errand' \in [Errands -> Errand]
        /\ errand'[c].pc \in {"key", "refused"} /\ (errand'[c].pc = "key" => commits)
        /\ errand'[c].op = k.op /\ errand'[c].name = n /\ errand'[c].slug = k.slug
        /\ \A d \in Errands \ {c} : errand'[d] = errand[d]
    BY <1>11, <2>2 DEF Steps
  <2>4. \A m \in Takers :
          user'[m] = IF commits /\ m = n THEN [kind |-> "agent", by |-> c] ELSE user[m]
    BY <1>1, <2>1, <2>2
  <2>5. BoardTypeOK'
    <3>1. user' \in [Takers -> Users]
      BY <1>1, <2>2
    <3> QED
      BY <1>1, <2>2, <2>3, <3>1 DEF BoardTypeOK
  <2>6. Kept(c) /\ Owned
    BY <1>1, <1>2, <2>2, <2>3, <2>4
  <2>7. Placed(errand'[c])
    BY <2>1, <2>3 DEF Placed
  <2>8. Earned(c)'
    <3>1. errand'[c].pc = "key" => Mine(c, n)'
      BY <2>1, <2>3, <2>4 DEF Mine
    <3>2. speaks[c] = Nil /\ (k.op = "connect" => hosted[c] \in {"coded", "running"})
      BY <2>1 DEF Earned
    <3> QED
      BY <2>1, <2>2, <2>3, <3>1, <3>2 DEF Earned
  <2> QED
    BY <1>4, <2>5, <2>6, <2>7, <2>8
<1>13. ASSUME NEW c \in Errands, NEW commits \in BOOLEAN, NEW answered \in BOOLEAN,
              InsertKey(c, commits, answered)
       PROVE  BoardInvariant'
  <2> DEFINE k == errand[c]
             next == AfterKey[k.op]
  <2>1. /\ k.pc = "key" /\ k.op \in {"connect", "admin", "seed"} /\ k.name \in Takers
        /\ Placed(k) /\ Earned(c) /\ Mine(c, k.name)
    BY <1>2, <1>13 DEF InsertKey, Placed, Earned
  <2>2. /\ next \in {"member", "answered", "look"}
        /\ next = "member" <=> k.op = "connect"
        /\ next = "look" <=> k.op = "seed"
    BY <2>1 DEF AfterKey
  <2>3. /\ UNCHANGED <<hosted, user, founder, role>>
        /\ (answered => commits) /\ Leads(c, IF answered THEN next ELSE "refused")
        /\ speaks' = IF commits THEN [speaks EXCEPT ![c] = k.name] ELSE speaks
    BY <1>13 DEF InsertKey, Outcome
  <2> HIDE DEF next
  <2>4. /\ errand' \in [Errands -> Errand]
        /\ errand'[c].pc \in {next, "refused"} /\ (errand'[c].pc = next => commits)
        /\ errand'[c].op = k.op /\ errand'[c].name = k.name /\ errand'[c].slug = k.slug
        /\ \A d \in Errands \ {c} : errand'[d] = errand[d]
    BY <1>11, <2>2, <2>3 DEF Steps
  <2>5. /\ speaks' \in [Errands -> Takers \cup {Nil}]
        /\ speaks'[c] = IF commits THEN k.name ELSE speaks[c]
        /\ \A d \in Errands \ {c} : speaks'[d] = speaks[d]
    BY <1>1, <2>1, <2>3
  <2>6. BoardTypeOK'
    BY <1>1, <2>3, <2>4, <2>5 DEF BoardTypeOK
  <2>7. Kept(c) /\ Owned
    BY <1>1, <1>2, <2>3, <2>4, <2>5
  <2>8. Placed(errand'[c])
    BY <2>1, <2>2, <2>4 DEF Placed
  <2>9. Earned(c)'
    <3>1. \A m : Mine(c, m)' <=> Mine(c, m)
      BY <2>3 DEF Mine
    <3>2. k.op = "connect" => hosted[c] \in {"coded", "running"}
      BY <2>1 DEF Earned, Mine
    <3>3. speaks'[c] # Nil => Mine(c, speaks'[c])
      BY <2>1, <2>5 DEF Earned
    <3> QED
      BY <2>1, <2>2, <2>3, <2>4, <2>5, <3>1, <3>2, <3>3 DEF Earned
  <2> QED
    BY <1>4, <2>6, <2>7, <2>8, <2>9
<1>14. ASSUME NEW c \in Errands, LookForLobby(c) PROVE BoardInvariant'
  <2> DEFINE k == errand[c]
             lit == Lit(Lobby)
  <2>1. /\ k.pc = "look" /\ k.op = "seed" /\ k.name \in Takers
        /\ Placed(k) /\ Earned(c) /\ UNCHANGED <<hosted, user, speaks, founder, role>>
    BY <1>2, <1>14 DEF LookForLobby, Placed
  <2>2. Leads(c, "answered") \/ Leads(c, "den")
    BY <1>14 DEF LookForLobby
  <2>3. /\ errand' \in [Errands -> Errand] /\ errand'[c].pc \in {"answered", "den"}
        /\ errand'[c].op = k.op /\ errand'[c].name = k.name /\ errand'[c].slug = k.slug
        /\ \A d \in Errands \ {c} : errand'[d] = errand[d]
    BY <1>9, <2>2 DEF Steps
  <2>4. BoardTypeOK' /\ Kept(c) /\ Owned
    BY <1>1, <1>2, <2>1, <2>3 DEF BoardTypeOK
  <2>5. Placed(errand'[c])
    BY <2>1, <2>3 DEF Placed
  <2>6. Earned(c)'
    BY <2>1, <2>3 DEF Earned, Mine
  <2> QED
    BY <1>4, <2>4, <2>5, <2>6
<1>15. ASSUME NEW c \in Errands, NEW commits \in BOOLEAN, NEW answered \in BOOLEAN,
              InsertDen(c, commits, answered)
       PROVE  BoardInvariant'
  <2> DEFINE k == errand[c]
  <2>1. /\ k.pc = "den" /\ k.op \in {"found", "seed"} /\ k.name \in Takers /\ k.slug \in Slugs
        /\ Placed(k) /\ Earned(c)
    BY <1>2, <1>15 DEF InsertDen, Placed
  <2>2. /\ UNCHANGED <<hosted, user, speaks, role>>
        /\ (commits => founder[k.slug] = Nil) /\ (answered => commits)
        /\ Leads(c, IF answered THEN "member" ELSE "refused")
        /\ founder' = IF commits THEN [founder EXCEPT ![k.slug] = k.name] ELSE founder
    BY <1>15 DEF InsertDen, Outcome, MayFound, Lit
  <2>3. /\ errand' \in [Errands -> Errand]
        /\ errand'[c].pc \in {"member", "refused"} /\ (errand'[c].pc = "member" => commits)
        /\ errand'[c].op = k.op /\ errand'[c].name = k.name /\ errand'[c].slug = k.slug
        /\ \A d \in Errands \ {c} : errand'[d] = errand[d]
    BY <1>11, <2>2 DEF Steps
  <2>4. /\ founder' \in [Slugs -> Takers \cup {Nil}]
        /\ \A t \in Slugs : founder'[t] = IF commits /\ t = k.slug THEN k.name ELSE founder[t]
    BY <1>1, <2>1, <2>2
  <2>5. BoardTypeOK' /\ Kept(c)
    BY <1>1, <2>2, <2>3, <2>4 DEF BoardTypeOK
  <2>6. Owned
    <3>1. \A t \in Slugs, n \in Takers : role[t][n] = "owner" => founder[t] = n /\ n # Nil
      BY <1>2, OnboardingAssumption
    <3> QED
      BY <2>2, <2>4, <3>1
  <2>7. Placed(errand'[c])
    BY <2>1, <2>3 DEF Placed
  <2>8. Earned(c)'
    BY <2>1, <2>2, <2>3, <2>4 DEF Earned, Mine
  <2> QED
    BY <1>4, <2>5, <2>6, <2>7, <2>8
<1>16. ASSUME NEW n \in Takers, NEW t \in Slugs, NEW r \in {"member", "owner"},
              role' = Enrolled(n, t, r)
       PROVE  /\ role' \in [Slugs -> [Takers -> {"none", "member", "owner"}]]
              /\ role'[t][n] # "none"
              /\ \A u \in Slugs, m \in Takers :
                   role'[u][m] = IF role[u][m] = "none" /\ u = t /\ m = n THEN r ELSE role[u][m]
  BY <1>1, <1>16 DEF Enrolled
<1>17. ASSUME NEW c \in Errands, NEW commits \in BOOLEAN, NEW answered \in BOOLEAN,
              InsertMember(c, commits, answered)
       PROVE  BoardInvariant'
  <2> DEFINE k == errand[c]
             r == IF k.op = "connect" THEN "member" ELSE "owner"
  <2>1. /\ k.pc = "member" /\ k.op \in {"connect", "found", "seed"}
        /\ k.name \in Takers /\ k.slug \in Slugs /\ Placed(k) /\ Earned(c)
    BY <1>2, <1>17 DEF InsertMember, Placed
  <2>2. /\ UNCHANGED <<hosted, user, speaks, founder>> /\ (answered => commits)
        /\ Leads(c, IF answered THEN "answered" ELSE "refused")
        /\ role' = IF commits THEN Enrolled(k.name, k.slug, r) ELSE role
    BY <1>17 DEF InsertMember, Outcome
  <2>3. /\ errand' \in [Errands -> Errand]
        /\ errand'[c].pc \in {"answered", "refused"} /\ (errand'[c].pc = "answered" => commits)
        /\ errand'[c].op = k.op /\ errand'[c].name = k.name /\ errand'[c].slug = k.slug
        /\ \A d \in Errands \ {c} : errand'[d] = errand[d]
    BY <1>11, <2>2
  <2>4. /\ role' \in [Slugs -> [Takers -> {"none", "member", "owner"}]]
        /\ commits => role'[k.slug][k.name] # "none"
        /\ \A u \in Slugs, m \in Takers :
             \/ role'[u][m] = role[u][m]
             \/ role[u][m] = "none" /\ role'[u][m] = r /\ u = k.slug /\ m = k.name
    BY <1>1, <1>16, <2>1, <2>2
  <2>5. BoardTypeOK' /\ Kept(c)
    BY <1>1, <2>2, <2>3, <2>4 DEF BoardTypeOK
  <2>6. Owned
    BY <1>2, <2>1, <2>2, <2>4 DEF Earned
  <2>7. Placed(errand'[c])
    BY <2>1, <2>3 DEF Placed
  <2>8. Earned(c)'
    BY <2>1, <2>2, <2>3, <2>4 DEF Earned, Mine
  <2> QED
    BY <1>4, <2>5, <2>6, <2>7, <2>8
(* Nobody's errand *)
<1>18. ASSUME UNCHANGED <<errand, hosted, speaks, founder>>, Kept(Nil), BoardTypeOK', Owned
       PROVE  BoardInvariant'
  BY <1>3, <1>18, OnboardingAssumption DEF BoardInvariant
<1>19. ASSUME NEW n \in Takers, NEW t \in Slugs, JoinDen(n, t) PROVE BoardInvariant'
  <2>1. UNCHANGED <<errand, hosted, user, speaks, founder>> /\ role' = Enrolled(n, t, "member")
    BY <1>19 DEF JoinDen
  <2>2. BoardTypeOK' /\ Kept(Nil) /\ Owned
    BY <1>1, <1>2, <1>16, <2>1 DEF BoardTypeOK
  <2> QED
    BY <1>18, <2>1, <2>2
<1>20. ASSUME NEW n \in Takers, HumanClaims(n) PROVE BoardInvariant'
  <2>1. /\ UNCHANGED <<errand, hosted, speaks, founder, role>> /\ user[n] = NoUser
        /\ user' = [user EXCEPT ![n] = [kind |-> "human", by |-> Nil]]
    BY <1>20 DEF HumanClaims, Exists
  <2>2. \A m \in Takers :
          user'[m] = IF m = n THEN [kind |-> "human", by |-> Nil] ELSE user[m]
    BY <1>1, <2>1
  <2>3. user' \in [Takers -> Users]
    BY <1>1, <2>1
  <2>4. BoardTypeOK' /\ Kept(Nil) /\ Owned
    BY <1>1, <1>2, <2>1, <2>2, <2>3 DEF BoardTypeOK
  <2> QED
    BY <1>18, <2>1, <2>4
<1>21. CASE UNCHANGED boardVars
  <2>1. BoardTypeOK' /\ Kept(Nil) /\ Owned
    BY <1>1, <1>2, <1>21 DEF boardVars, BoardTypeOK
  <2> QED
    BY <1>18, <1>21, <2>1 DEF boardVars
<1> QED
  BY <1>6, <1>7, <1>8, <1>10, <1>12, <1>13, <1>14, <1>15, <1>17, <1>19, <1>20, <1>21
     DEF BoardNext

LEMMA BoardInvariantHolds == BoardSpec => []BoardInvariant
<1>1. BoardInit => BoardInvariant
  <2> SUFFICES ASSUME BoardInit PROVE BoardInvariant
    OBVIOUS
  <2>1. NewErrand \in Errand /\ Placed(NewErrand)
    BY DEF NewErrand, Errand, Placed
  <2>2. BoardTypeOK
    BY <2>1 DEF BoardInit, BoardTypeOK, NoUser
  <2>3. \A c \in Errands : Earned(c)
    BY OnboardingAssumption DEF BoardInit, Earned, NewErrand, NoUser
  <2> QED
    BY <2>1, <2>2, <2>3 DEF BoardInvariant, BoardInit
<1> QED
  BY <1>1, BoardStep, PTL DEF BoardSpec

(* connectAgent, seed and createDen (api.js): whoever else asks for the    *)
(* same names, a key speaks for the account its own request made, which    *)
(* has code behind it; a den is owned by its founder alone; and an answer  *)
(* means that everything asked for is there.                               *)
THEOREM NamesAreAlwaysEarned == BoardSpec => []NamesAreEarned
<1>1. BoardInvariant => NamesAreEarned
  <2> SUFFICES ASSUME BoardInvariant PROVE NamesAreEarned
    OBVIOUS
  <2>1. ASSUME NEW c \in Errands
        PROVE  /\ speaks[c] # Nil => user[speaks[c]] = [kind |-> "agent", by |-> c]
               /\ \A n \in Takers : user[n].by = c /\ errand[c].op = "connect" =>
                    hosted[c] \in {"coded", "running"}
               /\ Answered(c, "connect") =>
                    /\ speaks[c] = errand[c].name
                    /\ role[errand[c].slug][speaks[c]] # "none"
               /\ Answered(c, "found") =>
                    /\ founder[errand[c].slug] = errand[c].name
                    /\ role[errand[c].slug][errand[c].name] # "none"
    BY DEF BoardInvariant, Earned, Mine, Answered
  <2> QED
    BY <2>1 DEF BoardInvariant, NamesAreEarned
<1> QED
  BY <1>1, BoardInvariantHolds, PTL

(* The tables, the requests and the errands keep their types.              *)
THEOREM IdentityTypes == (AuthSpec => []AuthTypeOK) /\ (BoardSpec => []BoardTypeOK)
<1>1. AuthInvariant => AuthTypeOK
  BY DEF AuthInvariant
<1>2. BoardInvariant => BoardTypeOK
  BY DEF BoardInvariant
<1> QED
  BY <1>1, <1>2, AuthInvariantHolds, BoardInvariantHolds, PTL

=============================================================================
