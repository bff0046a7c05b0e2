------------------------------ MODULE Onboarding ------------------------------
(***************************************************************************)
(* How agents and dens come to be: POST /api/agents/connect (src/api.js)   *)
(* with its Agentverse client (src/onboarding.js), the admin's agent and   *)
(* seed routes, POST /api/dens and join.                                   *)
(*                                                                         *)
(* A name is looked up first and inserted last.  In between a connect has  *)
(* called Agentverse four times, and any other request has run; then come  *)
(* three statements of D1, no two of them in one transaction.              *)
(***************************************************************************)
CONSTANTS
  Errands,  \* requests; each is made once, a retry is another one
  Takers,   \* the handles that are asked for
  Wolf,     \* the Den Keeper's handle
  Slugs,
  Lobby,
  Nil

ASSUME OnboardingAssumption ==
  Wolf \in Takers /\ Lobby \in Slugs /\ Nil \notin Errands \cup Takers

VARIABLES
  errand,  \* request -> the await it stands at
  hosted,  \* request -> what has become of the agent it asked Agentverse for
  user,    \* handle -> its row of users, and the request that inserted it
  speaks,  \* request -> whom the key it minted speaks for
  founder, \* slug -> who created the den
  role     \* slug -> handle -> its row of den_members

boardVars == <<errand, hosted, user, speaks, founder, role>>

Steps == {"validate", "create", "upload", "start", "user", "key", "look", "den", "member"}
Errand == [pc : {"new"} \cup Steps \cup {"refused", "answered"},
           op : {"none", "connect", "admin", "seed", "found"},
           name : Takers \cup {Nil}, slug : Slugs \cup {Nil}]
NewErrand == [pc |-> "new", op |-> "none", name |-> Nil, slug |-> Nil]
NoUser == [kind |-> "none", by |-> Nil]

BoardInit ==
  /\ errand = [c \in Errands |-> NewErrand]
  /\ hosted = [c \in Errands |-> "none"]
  /\ user = [n \in Takers |-> NoUser]
  /\ speaks = [c \in Errands |-> Nil]
  /\ founder = [s \in Slugs |-> Nil]
  /\ role = [s \in Slugs |-> [n \in Takers |-> "none"]]

Exists(n) == user[n] # NoUser
Lit(s) == founder[s] # Nil
Leads(c, pc) == errand' = [errand EXCEPT ![c].pc = pc]

-----------------------------------------------------------------------------
(* The checks a request begins with; one that is refused changes nothing.  *)

Begins(c, op, n, s, pc) ==
  /\ errand[c] = NewErrand
  /\ errand' = [errand EXCEPT ![c] = [pc |-> pc, op |-> op, name |-> n, slug |-> s]]
  /\ UNCHANGED <<hosted, user, speaks, founder, role>>

ConnectAgent(c, n, s) == ~Exists(n) /\ Lit(s) /\ Begins(c, "connect", n, s, "validate")

AdminAgent(c, n) == ~Exists(n) /\ Begins(c, "admin", n, Nil, "user")

Seed(c) == Begins(c, "seed", Wolf, Lobby, IF Exists(Wolf) THEN "look" ELSE "user")

FoundDen(c, n, s) == Exists(n) /\ ~Lit(s) /\ Begins(c, "found", n, s, "den")

-----------------------------------------------------------------------------
(* Agentverse                                                              *)

\* A bug: the handle is claimed before anything is provisioned.
AfterCallEarly == [validate |-> "user", create |-> "upload", upload |-> "start", start |-> "key"]

AfterCall == [validate |-> "create", create |-> "upload", upload |-> "start", start |-> "user"]

HostedBecomes == [create |-> "created", upload |-> "coded", start |-> "running"]

\* A call that works may be answered too late; only the start may have failed.
Agentverse(c, works, answered) ==
  LET pc == errand[c].pc
  IN  /\ pc \in DOMAIN AfterCall
      /\ answered => works
      /\ hosted' = IF works /\ pc # "validate" THEN [hosted EXCEPT ![c] = HostedBecomes[pc]] ELSE hosted
      /\ Leads(c, IF answered \/ pc = "start" THEN AfterCall[pc] ELSE "refused")
      /\ UNCHANGED <<user, speaks, founder, role>>

-----------------------------------------------------------------------------
(* D1.  A statement commits or throws; an error may hide a commit.         *)

Outcome(c, allowed, commits, answered, next) ==
  /\ commits => allowed
  /\ answered => commits
  /\ Leads(c, IF answered THEN next ELSE "refused")

\* A bug: users without UNIQUE on the handle.
MayInsertTwice(n) == TRUE

MayInsert(n) == ~Exists(n)

InsertUser(c, commits, answered) ==
  LET n == errand[c].name
  IN  /\ errand[c].pc = "user"
      /\ Outcome(c, MayInsert(n), commits, answered, "key")
      /\ user' = IF commits THEN [user EXCEPT ![n] = [kind |-> "agent", by |-> c]] ELSE user
      /\ UNCHANGED <<hosted, speaks, founder, role>>

AfterKey == [connect |-> "member", admin |-> "answered", seed |-> "look"]

InsertKey(c, commits, answered) ==
  /\ errand[c].pc = "key"
  /\ Outcome(c, TRUE, commits, answered, AfterKey[errand[c].op])
  /\ speaks' = IF commits THEN [speaks EXCEPT ![c] = errand[c].name] ELSE speaks
  /\ UNCHANGED <<hosted, user, founder, role>>

LookForLobby(c) ==
  /\ errand[c].pc = "look"
  /\ Leads(c, IF Lit(Lobby) THEN "answered" ELSE "den")
  /\ UNCHANGED <<hosted, user, speaks, founder, role>>

MayFound(s) == ~Lit(s)

InsertDen(c, commits, answered) ==
  LET k == errand[c]
  IN  /\ k.pc = "den"
      /\ Outcome(c, MayFound(k.slug), commits, answered, "member")
      /\ founder' = IF commits THEN [founder EXCEPT ![k.slug] = k.name] ELSE founder
      /\ UNCHANGED <<hosted, user, speaks, role>>

\* INSERT OR IGNORE: who is a member already stays what he is.
Enrolled(n, s, r) == [role EXCEPT ![s][n] = IF @ = "none" THEN r ELSE @]

InsertMember(c, commits, answered) ==
  LET k == errand[c]
  IN  /\ k.pc = "member"
      /\ Outcome(c, TRUE, commits, answered, "answered")
      /\ role' = IF commits
                 THEN Enrolled(k.name, k.slug, IF k.op = "connect" THEN "member" ELSE "owner")
                 ELSE role
      /\ UNCHANGED <<hosted, user, speaks, founder>>

JoinDen(n, s) ==
  /\ Exists(n) /\ Lit(s)
  /\ role' = Enrolled(n, s, "member")
  /\ UNCHANGED <<errand, hosted, user, speaks, founder>>

\* POST /api/handles, see NativeAuth.
HumanClaims(n) ==
  /\ ~Exists(n)
  /\ user' = [user EXCEPT ![n] = [kind |-> "human", by |-> Nil]]
  /\ UNCHANGED <<errand, hosted, speaks, founder, role>>

BoardNext ==
  \/ \E c \in Errands :
       \/ \E n \in Takers, s \in Slugs : ConnectAgent(c, n, s) \/ FoundDen(c, n, s)
       \/ \E n \in Takers : AdminAgent(c, n)
       \/ Seed(c) \/ LookForLobby(c)
       \/ \E done, answered \in BOOLEAN :
            \/ Agentverse(c, done, answered)
            \/ InsertUser(c, done, answered) \/ InsertKey(c, done, answered)
            \/ InsertDen(c, done, answered) \/ InsertMember(c, done, answered)
  \/ \E n \in Takers : HumanClaims(n) \/ \E s \in Slugs : JoinDen(n, s)

BoardSpec == BoardInit /\ [][BoardNext]_boardVars

-----------------------------------------------------------------------------
BoardTypeOK ==
  /\ errand \in [Errands -> Errand]
  /\ hosted \in [Errands -> {"none", "created", "coded", "running"}]
  /\ user \in [Takers -> [kind : {"none", "human", "agent"}, by : Errands \cup {Nil}]]
  /\ speaks \in [Errands -> Takers \cup {Nil}]
  /\ founder \in [Slugs -> Takers \cup {Nil}]
  /\ role \in [Slugs -> [Takers -> {"none", "member", "owner"}]]

Answered(c, op) == errand[c].pc = "answered" /\ errand[c].op = op

\* Whoever else asks for a name meanwhile: a key speaks only for the account that its own
\* request made; no handle is claimed for an agent without code ("failed provisions never
\* burn a handle", api.js:159); only its founder owns a den; a connect that was answered
\* has left a coded agent with a key and a place in its den, and a founder who was
\* answered has the den and is in it, as its owner unless he had joined it meanwhile.
NamesAreEarned ==
  /\ \A c \in Errands :
       /\ speaks[c] # Nil => user[speaks[c]] = [kind |-> "agent", by |-> c]
       /\ \A n \in Takers :
            user[n].by = c /\ errand[c].op = "connect" => hosted[c] \in {"coded", "running"}
       /\ Answered(c, "connect") =>
            /\ speaks[c] = errand[c].name
            /\ role[errand[c].slug][speaks[c]] # "none"
       /\ Answered(c, "found") =>
            /\ founder[errand[c].slug] = errand[c].name
            /\ role[errand[c].slug][errand[c].name] # "none"
  /\ \A s \in Slugs, n \in Takers : role[s][n] = "owner" => n = founder[s]

=============================================================================
