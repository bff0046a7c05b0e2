------------------------------- MODULE DenDocs -------------------------------
(***************************************************************************)
(* The knowledge base of one den (src/api.js, src/collections.js): text    *)
(* documents added to the den's xAI collection and listed in D1.           *)
(*                                                                         *)
(* An add is a cap check, a lazily made collection, an upload, an indexing *)
(* call and an insert, each awaited and none undone when a later one       *)
(* fails; what is left over at xAI then has no row.                        *)
(***************************************************************************)
EXTENDS Naturals, FiniteSetsExt

CONSTANTS
  Adders,   \* add requests in flight
  Files,    \* numbers for ids; one that no row and no request names is fresh again
  DocsCap,  \* PACK_DEN_DOCS_CAP
  NoFile

ASSUME DenDocsAssumption ==
  /\ IsFiniteSet(Adders) /\ Adders # {}
  /\ Files \subseteq Nat /\ DocsCap \in Nat /\ NoFile \notin Files

VARIABLES
  collection,  \* the den's row of den_collections; an id is the file it was made for
  adder,       \* adder -> the await its request stands at
  doc,         \* file -> the status of its row of den_docs, or "none"
  remote,      \* file -> where it is at xAI
  removing     \* the rows whose DELETE has tried xAI and not yet D1

docVars == <<collection, adder, doc, remote, removing>>

Remote == [coll : Files \cup {NoFile}, status : {"absent", "indexing", "searchable", "bad"}]
Absent == [coll |-> NoFile, status |-> "absent"]
Adder == [pc : {"idle", "find", "make", "save", "index", "list"},
          file : Files \cup {NoFile}, coll : Files \cup {NoFile}]
NoAdd == [pc |-> "idle", file |-> NoFile, coll |-> NoFile]

DocsInit ==
  /\ collection = NoFile
  /\ adder = [a \in Adders |-> NoAdd]
  /\ doc = [f \in Files |-> "none"]
  /\ remote = [f \in Files |-> Absent]
  /\ removing = {}

Rows == {f \in Files : doc[f] # "none"}
Fresh == {f \in Files \ Rows : \A a \in Adders : f \notin {adder[a].file, adder[a].coll}}
           \ {collection}

AddGoesOn(a, k) == adder' = [adder EXCEPT ![a] = k]
\* A faulty cap: off by one.
UnderCapLate == Cardinality(Rows) <= DocsCap

UnderCap == Cardinality(Rows) < DocsCap

BeginAdd(a) ==
  /\ adder[a] = NoAdd /\ Fresh # {}
  /\ UnderCap
  /\ AddGoesOn(a, [NoAdd EXCEPT !.pc = "find", !.file = Min(Fresh)])
  /\ remote' = [remote EXCEPT ![Min(Fresh)] = Absent]
  /\ UNCHANGED <<collection, doc, removing>>

FindCollection(a) ==
  /\ adder[a].pc = "find"
  /\ AddGoesOn(a, [adder[a] EXCEPT !.pc = IF collection = NoFile THEN "make" ELSE "index",
                                   !.coll = collection])
  /\ UNCHANGED <<collection, doc, remote, removing>>

MakeCollection(a) ==
  /\ adder[a].pc = "make"
  /\ AddGoesOn(a, [adder[a] EXCEPT !.pc = "save", !.coll = adder[a].file])
  /\ UNCHANGED <<collection, doc, remote, removing>>

\* A faulty insert: INSERT OR REPLACE, so that the second collection wins.
MaySaveOver == TRUE

\* den_id is the primary key: the second of two inserts throws, and its collection
\* belongs to nobody.
MaySave == collection = NoFile

SaveCollection(a) ==
  /\ adder[a].pc = "save"
  /\ IF MaySave
     THEN /\ collection' = adder[a].coll
          /\ AddGoesOn(a, [adder[a] EXCEPT !.pc = "index"])
     ELSE AddGoesOn(a, NoAdd) /\ UNCHANGED collection
  /\ UNCHANGED <<doc, remote, removing>>

\* The upload and the indexing call; xAI may have done both and the answer be lost.
IndexFile(a, answered) ==
  /\ adder[a].pc = "index"
  /\ remote' = [remote EXCEPT ![adder[a].file] =
                  [coll |-> adder[a].coll, status |-> "indexing"]]
  /\ AddGoesOn(a, IF answered THEN [adder[a] EXCEPT !.pc = "list"] ELSE NoAdd)
  /\ UNCHANGED <<collection, doc, removing>>

ListDoc(a) ==
  /\ adder[a].pc = "list"
  /\ doc' = [doc EXCEPT ![adder[a].file] = "processing"]
  /\ AddGoesOn(a, NoAdd)
  /\ UNCHANGED <<collection, remote, removing>>

AddFails(a) ==
  /\ adder[a] # NoAdd
  /\ AddGoesOn(a, NoAdd)
  /\ UNCHANGED <<collection, doc, remote, removing>>

\* xAI: the chunks of a document are processed, or it has an error message.
Indexed(f, status) ==
  /\ remote[f].status = "indexing" /\ status \in {"searchable", "bad"}
  /\ remote' = [remote EXCEPT ![f].status = status]
  /\ UNCHANGED <<collection, adder, doc, removing>>

\* docStatusFromXai
StatusOf(r) == CASE r.status = "bad"        -> "failed"
                 [] r.status = "searchable" -> "ready"
                 [] OTHER                   -> "processing"

\* A GET asks xAI about the rows still processing, if the den has a collection.
SyncStatus(f) ==
  /\ doc[f] = "processing" /\ collection # NoFile
  /\ remote[f].coll = collection
  /\ doc' = [doc EXCEPT ![f] = StatusOf(remote[f])]
  /\ UNCHANGED <<collection, adder, remote, removing>>

\* DELETE removes the file from the collection if it can, and then the row.
RemoveRemote(f, removed) ==
  /\ f \in Rows \ removing
  /\ remote' = IF removed THEN [remote EXCEPT ![f] = Absent] ELSE remote
  /\ removing' = removing \cup {f}
  /\ UNCHANGED <<collection, adder, doc>>

RemoveRow(f, removed) ==
  /\ f \in removing
  /\ removing' = removing \ {f}
  /\ doc' = IF removed THEN [doc EXCEPT ![f] = "none"] ELSE doc
  /\ UNCHANGED <<collection, adder, remote>>

DocsNext ==
  \/ \E a \in Adders :
       \/ BeginAdd(a) \/ FindCollection(a) \/ MakeCollection(a) \/ SaveCollection(a)
       \/ \E answered \in BOOLEAN : IndexFile(a, answered)
       \/ ListDoc(a) \/ AddFails(a)
  \/ \E f \in Files :
       \/ \E status \in {"searchable", "bad"} : Indexed(f, status)
       \/ SyncStatus(f)
       \/ \E removed \in BOOLEAN : RemoveRemote(f, removed) \/ RemoveRow(f, removed)

DocsSpec == DocsInit /\ [][DocsNext]_docVars

-----------------------------------------------------------------------------
DocsTypeOK ==
  /\ collection \in Files \cup {NoFile}
  /\ adder \in [Adders -> Adder]
  /\ doc \in [Files -> {"none", "processing", "ready", "failed"}]
  /\ remote \in [Files -> Remote]
  /\ removing \subseteq Rows

\* The cap is counted before five awaits: as many adds as are in flight pass it together,
\* one of them rightly, and no more.
DocsBounded == Cardinality(Rows) <= DocsCap + Cardinality(Adders) - 1

\* Whoever made the collection, every listed document is in the one the den's brain
\* searches, and one listed as ready can be found there, unless a DELETE has taken it out
\* and then failed to delete the row.
DocsAreSearchable ==
  \A f \in Rows :
    \/ /\ collection # NoFile /\ remote[f].coll = collection
       /\ doc[f] = "ready" => remote[f].status = "searchable"
    \/ remote[f] = Absent

=============================================================================
