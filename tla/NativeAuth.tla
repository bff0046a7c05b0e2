------------------------------ MODULE NativeAuth ------------------------------
(***************************************************************************)
(* src/auth-native.js, src/auth.js and the identity routes of src/api.js:  *)
(* e-mailed codes, claim tickets, accounts and sessions.                   *)
(*                                                                         *)
(* Every fuse is a read, a comparison and a later write, with other        *)
(* requests in between.  What is atomic is one statement of D1: the        *)
(* guarded consume of a challenge and the unique indexes of the users.     *)
(***************************************************************************)
EXTENDS Naturals, Sequences, FiniteSetsExt

CONSTANTS
  Requests,     \* requests in flight; one serves one after another
  Emails,
  Handles,
  MaxSends,     \* SENDS_PER_EMAIL_HOUR; the two other fuses count the same rows
  MaxAttempts,  \* OTP_MAX_ATTEMPTS
  MaxRows,      \* a bound: the challenges D1 has room for
  Nobody

ASSUME NativeAuthAssumption ==
  /\ IsFiniteSet(Requests) /\ Requests # {}
  /\ MaxSends \in Nat \ {0} /\ MaxAttempts \in Nat \ {0} /\ MaxRows \in Nat
  /\ Nobody \notin Emails \cup Handles

VARIABLES
  mode,       \* AUTH_MODE
  challenge,  \* the table auth_challenges in the order of created_at
  account,    \* handle -> its row of users
  session,    \* the rows of sessions: an account, and the e-mail it was opened for
  req         \* request -> the await its handler stands at

authVars == <<mode, challenge, account, session, req>>

\* `state` is consumed_at and expires_at; `opened` is history: the sessions, accounts
\* and tickets made out of the row.
Challenge == [kind : {"otp", "claim"}, email : Emails,
              state : {"active", "expired", "consumed"}, attempts : Nat, opened : Nat]

\* A legacy account is older than the cutoff of 0009 and its address unverified; a
\* typed address made after it is never looked at again.
Account == [state : {"free", "legacy", "typed", "bound"}, email : Emails \cup {Nobody}]
Free == [state |-> "free", email |-> Nobody]

Request == [pc : {"idle", "supersede", "insert", "bump", "consume", "lookup", "legacy",
                  "bind", "ticket", "peek", "checkbound", "create", "session"},
            op : {"none", "start", "verify", "claim", "recover"},
            email : Emails \cup {Nobody}, row : Nat, handle : Handles \cup {Nobody}]
NoRequest == [pc |-> "idle", op |-> "none", email |-> Nobody, row |-> 0, handle |-> Nobody]

AuthInit ==
  /\ mode \in {"native", "access"}
  /\ challenge = <<>>
  /\ account \in [Handles -> {Free} \cup [state : {"legacy"}, email : Emails]]
  /\ session = {}
  /\ req = [r \in Requests |-> NoRequest]

Becomes(r, k) == req' = [req EXCEPT ![r] = k]
Then(r, pc) == Becomes(r, [req[r] EXCEPT !.pc = pc])
Replies(r) == Becomes(r, NoRequest)

RowsOf(kind, e) == {i \in DOMAIN challenge : challenge[i].kind = kind /\ challenge[i].email = e}
Unconsumed(kind, e) == {i \in RowsOf(kind, e) : challenge[i].state # "consumed"}
SendsTo(e) == Cardinality(RowsOf("otp", e))
LatestCode(e) == Max(Unconsumed("otp", e))

\* idx_users_verified_email makes this at most one.
BoundTo(e) == {h \in Handles : account[h] = [state |-> "bound", email |-> e]}
LegacyOf(e) == {h \in Handles : account[h] = [state |-> "legacy", email |-> e]}

NewChallenge(kind, e) ==
  [kind |-> kind, email |-> e, state |-> "active", attempts |-> 0, opened |-> 0]
OpenedBy(i) == IF i = 0 THEN challenge ELSE [challenge EXCEPT ![i].opened = @ + 1]

-----------------------------------------------------------------------------
(* POST /api/auth/start                                                    *)

StartCode(r, e) ==
  /\ mode = "native" /\ req[r] = NoRequest
  /\ SendsTo(e) < MaxSends
  /\ Becomes(r, [NoRequest EXCEPT !.pc = "supersede", !.op = "start", !.email = e])
  /\ UNCHANGED <<mode, challenge, account, session>>

Supersede(r) ==
  /\ req[r].pc = "supersede"
  /\ challenge' = [i \in DOMAIN challenge |->
       IF i \in Unconsumed("otp", req[r].email)
       THEN [challenge[i] EXCEPT !.state = "consumed"] ELSE challenge[i]]
  /\ Then(r, "insert")
  /\ UNCHANGED <<mode, account, session>>

\* The mail goes out after the row is in; if it does not, the row stays all the same.
SendCode(r) ==
  /\ req[r].pc = "insert"
  /\ Len(challenge) < MaxRows
  /\ challenge' = Append(challenge, NewChallenge("otp", req[r].email))
  /\ Replies(r)
  /\ UNCHANGED <<mode, account, session>>

-----------------------------------------------------------------------------
(* POST /api/auth/verify                                                   *)

\* A faulty fuse: one guess more.
GuessesLeftLate(i) == challenge[i].state = "active" /\ challenge[i].attempts <= MaxAttempts

GuessesLeft(i) == challenge[i].state = "active" /\ challenge[i].attempts < MaxAttempts

Verify(r, e) ==
  /\ mode = "native" /\ req[r] = NoRequest
  /\ Unconsumed("otp", e) # {}
  /\ LET i == LatestCode(e) IN
       /\ GuessesLeft(i)
       /\ Becomes(r, [NoRequest EXCEPT !.pc = "bump", !.op = "verify", !.email = e, !.row = i])
  /\ UNCHANGED <<mode, challenge, account, session>>

Guess(r, right) ==
  /\ req[r].pc = "bump"
  /\ challenge' = [challenge EXCEPT ![req[r].row].attempts = @ + 1]
  /\ IF right THEN Then(r, "consume") ELSE Replies(r)
  /\ UNCHANGED <<mode, account, session>>

\* A faulty consume: without AND consumed_at IS NULL.
SpendableTwice(i) == TRUE

\* A challenge may have expired since it was read; only a consumed one is refused.
Spendable(i) == challenge[i].state # "consumed"

Consume(r) ==
  /\ req[r].pc = "consume"
  /\ IF Spendable(req[r].row)
     THEN /\ challenge' = [challenge EXCEPT ![req[r].row].state = "consumed"]
          /\ Then(r, CASE req[r].op = "verify"  -> "lookup"
                       [] req[r].op = "claim"   -> "create"
                       [] req[r].op = "recover" -> "session")
     ELSE Replies(r) /\ UNCHANGED challenge
  /\ UNCHANGED <<mode, account, session>>

\* recoverUserByEmail: the bound account, else the oldest legacy one, which is bound.
\* With a ticket in hand the ticket is burned before the session is opened.
Found(r, h) ==
  Becomes(r, [req[r] EXCEPT !.handle = h,
    !.pc = IF req[r].op = "recover" /\ req[r].row # 0 THEN "consume" ELSE "session"])

Lookup(r) ==
  /\ req[r].pc = "lookup"
  /\ LET bound == BoundTo(req[r].email) IN
       IF bound = {} THEN Then(r, "legacy") ELSE Found(r, CHOOSE h \in bound : TRUE)
  /\ UNCHANGED <<mode, challenge, account, session>>

LookupLegacy(r) ==
  /\ req[r].pc = "legacy"
  /\ LET legacy == LegacyOf(req[r].email) IN
       CASE legacy # {} -> Becomes(r, [req[r] EXCEPT !.pc = "bind",
                                                     !.handle = CHOOSE h \in legacy : TRUE])
         [] legacy = {} /\ req[r].op = "verify" -> Then(r, "ticket")
         [] legacy = {} /\ req[r].op # "verify" -> Replies(r)
  /\ UNCHANGED <<mode, challenge, account, session>>

\* A faulty migration: no unique index on verified addresses.
MayBindTwice(h, e) == TRUE

\* The unique index: a second account bound to an address makes the statement throw.
MayBind(h, e) == BoundTo(e) \subseteq {h}

Bind(r) ==
  /\ req[r].pc = "bind"
  /\ IF MayBind(req[r].handle, req[r].email)
     THEN /\ account' = [account EXCEPT ![req[r].handle] =
                           [state |-> "bound", email |-> req[r].email]]
          /\ Found(r, req[r].handle)
     ELSE Replies(r) /\ UNCHANGED account
  /\ UNCHANGED <<mode, challenge, session>>

MintTicket(r) ==
  /\ req[r].pc = "ticket"
  /\ Len(challenge) < MaxRows
  /\ challenge' = Append(OpenedBy(req[r].row), NewChallenge("claim", req[r].email))
  /\ Replies(r)
  /\ UNCHANGED <<mode, account, session>>

OpenSession(r) ==
  /\ req[r].pc = "session"
  /\ session' = session \cup {[handle |-> req[r].handle, email |-> req[r].email]}
  /\ challenge' = OpenedBy(req[r].row)
  /\ Replies(r)
  /\ UNCHANGED <<mode, account>>

-----------------------------------------------------------------------------
(* POST /api/handles and POST /api/session/recover.  In native mode the    *)
(* proof is a ticket, in access mode the header; without one an account    *)
(* can be claimed that no address will ever recover.                       *)

ClaimWithTicket(r, h, i) ==
  /\ mode = "native" /\ req[r] = NoRequest
  /\ account[h] = Free
  /\ challenge[i].kind = "claim"
  /\ Becomes(r, [NoRequest EXCEPT !.pc = "peek", !.op = "claim", !.handle = h, !.row = i])
  /\ UNCHANGED <<mode, challenge, account, session>>

RecoverWithTicket(r, i) ==
  /\ mode = "native" /\ req[r] = NoRequest
  /\ challenge[i].kind = "claim"
  /\ Becomes(r, [NoRequest EXCEPT !.pc = "peek", !.op = "recover", !.row = i])
  /\ UNCHANGED <<mode, challenge, account, session>>

Peek(r) ==
  /\ req[r].pc = "peek"
  /\ LET i == req[r].row IN
       IF challenge[i].state = "active"
       THEN Becomes(r, [req[r] EXCEPT !.email = challenge[i].email,
                         !.pc = IF req[r].op = "claim" THEN "checkbound" ELSE "lookup"])
       ELSE Replies(r)
  /\ UNCHANGED <<mode, challenge, account, session>>

ClaimWithHeader(r, h, e) ==
  /\ mode = "access" /\ req[r] = NoRequest
  /\ account[h] = Free
  /\ Becomes(r, [NoRequest EXCEPT !.op = "claim", !.handle = h, !.email = e,
                                  !.pc = IF e = Nobody THEN "create" ELSE "checkbound"])
  /\ UNCHANGED <<mode, challenge, account, session>>

\* /api/session/recover, and the silent resume of a page without a session.
RecoverWithHeader(r, e) ==
  /\ mode = "access" /\ req[r] = NoRequest
  /\ Becomes(r, [NoRequest EXCEPT !.pc = "lookup", !.op = "recover", !.email = e])
  /\ UNCHANGED <<mode, challenge, account, session>>

\* An address that has an account answers email_bound, and keeps its ticket.
CheckBound(r) ==
  /\ req[r].pc = "checkbound"
  /\ IF BoundTo(req[r].email) # {} THEN Replies(r)
     ELSE Then(r, IF req[r].row = 0 THEN "create" ELSE "consume")
  /\ UNCHANGED <<mode, challenge, account, session>>

\* INSERT INTO users throws if the handle or the address was taken meanwhile: by then
\* the ticket is burned.
CreateAccount(r) ==
  /\ req[r].pc = "create"
  /\ LET h == req[r].handle
         e == req[r].email
     IN IF account[h] = Free /\ (e = Nobody \/ MayBind(h, e))
        THEN /\ account' = [account EXCEPT ![h] =
                  [state |-> IF e = Nobody THEN "typed" ELSE "bound", email |-> e]]
             /\ challenge' = OpenedBy(req[r].row)
             /\ Becomes(r, [req[r] EXCEPT !.pc = "session", !.row = 0])
        ELSE Replies(r) /\ UNCHANGED <<account, challenge>>
  /\ UNCHANGED <<mode, session>>

-----------------------------------------------------------------------------
Logout(s) ==
  /\ session' = session \ {s}
  /\ UNCHANGED <<mode, challenge, account, req>>

\* Ten minutes for a code, fifteen for a ticket.
Lapse(i) ==
  /\ challenge[i].state = "active"
  /\ challenge' = [challenge EXCEPT ![i].state = "expired"]
  /\ UNCHANGED <<mode, account, session, req>>

\* D1 or the isolate fails at any await; nothing is rolled back.
GivesUp(r) ==
  /\ req[r] # NoRequest
  /\ Replies(r)
  /\ UNCHANGED <<mode, challenge, account, session>>

AuthNext ==
  \/ \E r \in Requests :
       \/ \E e \in Emails : StartCode(r, e) \/ Verify(r, e) \/ RecoverWithHeader(r, e)
       \/ Supersede(r) \/ SendCode(r)
       \/ \E right \in BOOLEAN : Guess(r, right)
       \/ Consume(r) \/ Lookup(r) \/ LookupLegacy(r) \/ Bind(r)
       \/ MintTicket(r) \/ OpenSession(r)
       \/ \E i \in DOMAIN challenge :
            RecoverWithTicket(r, i) \/ \E h \in Handles : ClaimWithTicket(r, h, i)
       \/ \E h \in Handles, e \in Emails \cup {Nobody} : ClaimWithHeader(r, h, e)
       \/ Peek(r) \/ CheckBound(r) \/ CreateAccount(r)
       \/ GivesUp(r)
  \/ \E s \in session : Logout(s)
  \/ \E i \in DOMAIN challenge : Lapse(i)

AuthSpec == AuthInit /\ [][AuthNext]_authVars

-----------------------------------------------------------------------------
AuthTypeOK ==
  /\ mode \in {"native", "access"}
  /\ challenge \in Seq(Challenge)
  /\ account \in [Handles -> Account]
  /\ session \subseteq [handle : Handles, email : Emails \cup {Nobody}]
  /\ req \in [Requests -> Request]

\* A code or a ticket is good for one thing: a session, an account or a ticket.  Every
\* verify, claim and recovery reads it long before the guarded consume.
ProofUsedOnce == \A i \in DOMAIN challenge : challenge[i].opened <= 1

\* One address, one account ("one verified email = ONE username", api.js): whatever
\* claims, recoveries and legacy promotions race, no two accounts are bound to one
\* address, and every session opened for an address is one on its account.
SessionsLeadHome ==
  /\ \A e \in Emails : Cardinality(BoundTo(e)) <= 1
  /\ \A s \in session :
       IF s.email = Nobody THEN account[s.handle].state = "typed"
       ELSE s.handle \in BoundTo(s.email)

\* The fuses are checks before a later write: what is in flight together passes them
\* together, and nothing more does.
FusesHold ==
  LET inFlight == Cardinality(Requests) IN
  /\ \A i \in DOMAIN challenge : challenge[i].attempts <= MaxAttempts + inFlight - 1
  /\ \A e \in Emails :
       /\ SendsTo(e) <= MaxSends + inFlight - 1
       /\ Cardinality(Unconsumed("otp", e)) <= inFlight

=============================================================================
