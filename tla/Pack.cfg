SPECIFICATION PackSpec
CONSTANTS
  Errands = {r1, r2}
  Takers = {wolf, bo}
  Wolf = wolf
  Slugs = {lobby}
  Lobby = lobby
  Nil = Nil
  Requests = {r1, r2}
  Emails = {e1, e2}
  Handles = {h1, h2}
  MaxSends = 1
  MaxAttempts = 1
  MaxRows = 3
  Nobody = Nobody
  Tabs = {t1, t2, t3}
  Speakers = {"ada", "bo"}
  Owner <- Owners
  Lines = {hello}
  NoSpeaker = NoSpeaker
  Adders = {a1, a2}
  Files = {1, 2, 3, 4}
  DocsCap = 1
  NoFile = 0
  Legs = {r1, r2}
  Prefill = 2
  Capacity = 2
  Tolerance = 1
  Onset = 2
  Release = 2
  SeatCap = 3
  MaxHalves = 4
  MaxBargeIns = 1
  MaxArriving = 2
  Runs = {r1, r2}
  Chairs = {e1, e2}
  NoChair = NoChair
  Agents = {agent}
  Human = Human
  MaxReplies = 1
  Window = 2
  MaxLines = 5
  MaxHours = 1
SYMMETRY Symmetric
INVARIANTS
  NamesAreEarned
  ProofUsedOnce
  SessionsLeadHome
  FusesHold
  PresenceIsAReceipt
  HeardIsStored
  DocsBounded
  DocsAreSearchable
  BargeInSilences
  FloorIsHumans
  SeatsHaveAPage
  CitizensArePolite
  PackTypeOK
CHECK_DEADLOCK FALSE
