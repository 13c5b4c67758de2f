----------------------------- MODULE Ingestion -----------------------------
(***************************************************************************)
(* Uploading documents and indexing their versions: POST /documents        *)
(* (ingest_document and the commit after it) and POST                      *)
(* /documents/{id}/ingest (index_document and index_document_version), as  *)
(* concurrent requests over one PostgreSQL database at its default READ    *)
(* COMMITTED level and one object store.                                   *)
(*                                                                         *)
(* A request is one transaction.  docs, versions and chunks are the        *)
(* committed tables; what a request has written but not committed is in    *)
(* its record up[u] or ix[i], which nobody else reads, but whose row locks *)
(* and unique keys make others wait.  The object store takes no part in    *)
(* the transaction: a save is visible at once and survives a rollback.     *)
(*                                                                         *)
(* Every request inserts at most one document and one version, so the      *)
(* request stands for the uuid of the row it inserts.  A content stands    *)
(* for its bytes and for their checksum.                                   *)
(***************************************************************************)
EXTENDS Integers, Sequences, FiniteSets

CONSTANTS
    Uploads,        \* requests POST /documents
    Indexings,      \* requests POST /documents/{id}/ingest
    Filenames,      \* (collection, sanitised filename) pairs
    Contents,       \* what is uploaded
    Configs,        \* chunking configurations
    Candidates,     \* Candidates[c][g]: the chunks config g makes of content c,
                    \* as the sequence of their parents' positions, 0 for none
    Retitles        \* bound: whether uploads bring a title, source or date the
                    \* document does not have yet; a set of Booleans

Requests == Uploads \union Indexings
NoContent == "no content"
NoConfig == "no config"
NoVersion == "no version"
Keys == Uploads \X (1 .. Cardinality(Uploads))

ASSUME RequestsAreDisjoint ==
    /\ IsFiniteSet(Uploads)
    /\ Uploads \intersect Indexings = {}

ASSUME CandidatesAreForests ==
    \A c \in Contents, g \in Configs :
        /\ Candidates[c][g] \in Seq(Nat)
        /\ \A k \in DOMAIN Candidates[c][g] : Candidates[c][g][k] \in 0 .. k - 1

\* Chunks come of the words of a content, however it is cut.
ASSUME EmptinessIsOfContent ==
    \A c \in Contents, g, h \in Configs :
        Candidates[c][g] = <<>> => Candidates[c][h] = <<>>

ASSUME RetitlesAreBooleans == Retitles \subseteq BOOLEAN

ASSUME NoneIsNoValue == NoContent \notin Contents /\ NoConfig \notin Configs

VARIABLES
    serial,     \* what is assumed of the clients, not state of the program:
                \* whether they wait for one upload before they begin the next
    docs,       \* documents: [id, name, checksum]
    versions,   \* document_versions: [id, doc, number, checksum, status, config]
    chunks,     \* document_chunks: [run, version, index, text, parent]
    objects,    \* the object store: key (document, number) -> content
    pc,         \* how far each request has got
    up,         \* what each upload was given, has read and will write
    ix          \* what each indexing was given and has read

vars == <<serial, docs, versions, chunks, objects, pc, up, ix>>
tables == <<docs, versions, chunks>>

----------------------------------------------------------------------------

Settled == {"done", "failed", "conflict"}
Active(r) == pc[r] \notin {"start"} \union Settled

VersionsOf(d) == {v \in versions : v.doc = d}

\* ORDER BY version_number DESC, first row.
LatestVersion(d) ==
    CHOOSE v \in VersionsOf(d) : \A w \in VersionsOf(d) : w.number <= v.number

Goto(r, label) == pc' = [pc EXCEPT ![r] = label]

\* Mutant: a re-upload leaves document.checksum alone.
ChangesNoChecksum(u) == FALSE

\* The write of document.checksum reaches the database only if it changes the
\* value the session loaded.
ChangesChecksum(u) ==
    up[u].writes /\ ~ up[u].fresh /\ up[u].content # up[u].loaded

\* The flush updates the row of a document others know.
ChangesRow(u) == ~ up[u].fresh /\ (up[u].retitles \/ ChangesChecksum(u))

\* Mutant: the default configuration (take any) is dumped as {}, which is what
\* a version has that was never indexed.
ChangesConfigUnlessDefault(i) ==
    /\ ix[i].config # ix[i].loaded
    /\ ix[i].config # CHOOSE g \in Configs : TRUE

\* The configuration is written if it differs from what the session loaded,
\* and so is the status.
ChangesConfig(i) == ix[i].config # ix[i].loaded
ChangesStatus(i) == ix[i].status # "indexed"

\* The chunk rows indexing i inserts, parents resolved to row ids.
Rows(i) ==
    LET parents == Candidates[ix[i].text][ix[i].config]
    IN  {[run |-> i, version |-> ix[i].version, index |-> k,
          text |-> ix[i].text,
          parent |-> IF parents[k] = 0 THEN <<>> ELSE <<i, parents[k]>>] :
            k \in DOMAIN parents}

Init ==
    /\ serial \in BOOLEAN
    /\ docs = {}
    /\ versions = {}
    /\ chunks = {}
    /\ objects = [k \in Keys |-> NoContent]
    /\ pc = [r \in Requests |-> "start"]
    /\ up \in [Uploads -> [name : Filenames, content : Contents,
                           retitles : Retitles, doc : {NoVersion},
                           fresh : {FALSE}, loaded : {NoContent},
                           number : {0}, writes : {FALSE}]]
    /\ ix \in [Indexings -> [config : Configs, version : {NoVersion},
                             key : {<<>>}, loaded : {NoConfig},
                             status : {"parsed"}, text : {NoContent}]]

----------------------------------------------------------------------------
(* POST /documents *)

\* The upload is validated and parsed, and its document looked up by
\* collection and filename.  A name nobody has committed gets a new document
\* row, which no unique constraint guards; of several rows any may come back.
FindDocument(u) ==
    /\ pc[u] = "start"
    /\ serial => \A w \in Uploads : ~ Active(w)
    /\ LET known == {d \in docs : d.name = up[u].name}
       IN  \/ /\ known = {}
              /\ up' = [up EXCEPT ![u].doc = u, ![u].fresh = TRUE,
                                  ![u].number = 1, ![u].writes = TRUE]
              /\ Goto(u, "save")
           \/ \E d \in known :
                 /\ up' = [up EXCEPT ![u].doc = d.id, ![u].writes = TRUE,
                                     ![u].loaded = d.checksum]
                 /\ Goto(u, "latest")
    /\ UNCHANGED <<serial, tables, objects, ix>>

\* Mutant: a re-upload always makes a new version.
ReadLatestAlwaysNew(u) ==
    /\ pc[u] = "latest"
    /\ up' = [up EXCEPT ![u].number = LatestVersion(up[u].doc).number + 1]
    /\ Goto(u, "save")
    /\ UNCHANGED <<serial, tables, objects, ix>>

\* The latest committed version decides: the same bytes are not stored again,
\* other bytes get the next number.  Either way the session has by now given
\* the document the title, source or date that came along, if one did.
ReadLatest(u) ==
    /\ pc[u] = "latest"
    /\ LET latest == LatestVersion(up[u].doc)
       IN  IF latest.checksum = up[u].content
           THEN /\ up' = [up EXCEPT ![u].number = latest.number,
                                      ![u].writes = FALSE]
                /\ Goto(u, "update")
           ELSE /\ up' = [up EXCEPT ![u].number = latest.number + 1]
                /\ Goto(u, "save")
    /\ UNCHANGED <<serial, tables, objects, ix>>

\* Mutant: the storage key does not name the version.
SaveUnversioned(u) ==
    /\ pc[u] = "save"
    /\ objects' = [objects EXCEPT ![<<up[u].doc, 1>>] = up[u].content,
                                  ![<<up[u].doc, up[u].number>>] =
                                      up[u].content]
    /\ Goto(u, "update")
    /\ UNCHANGED <<serial, tables, up, ix>>

\* object_store.save overwrites whatever is under the key.
Save(u) ==
    /\ pc[u] = "save"
    /\ objects' = [objects EXCEPT ![<<up[u].doc, up[u].number>>] =
                      up[u].content]
    /\ Goto(u, "update")
    /\ UNCHANGED <<serial, tables, up, ix>>

\* Upload w has updated the document row u is about to update.
RowBlocks(w, u) ==
    /\ w # u
    /\ pc[w] \in {"insert", "commit"}
    /\ ChangesRow(w) /\ ChangesRow(u)
    /\ up[w].doc = up[u].doc

\* The flush, of a re-upload without new bytes too, updates the document row
\* first, if anything on it changes, and waits for whoever has its lock.
UpdateDocument(u) ==
    /\ pc[u] = "update"
    /\ \A w \in Uploads : ~ RowBlocks(w, u)
    /\ Goto(u, IF up[u].writes THEN "insert" ELSE "commit")
    /\ UNCHANGED <<serial, tables, objects, up, ix>>

\* Upload w has flushed a version under the unique key u is about to use.
KeyBlocks(w, u) ==
    /\ w # u
    /\ pc[w] = "commit"
    /\ up[w].writes
    /\ up[w].doc = up[u].doc
    /\ up[w].number = up[u].number

\* Mutant: the schema has no uq_document_version.
NumberNeverTaken(u) == FALSE

\* uq_document_version: a committed version has the number u wants.
NumberTaken(u) ==
    \E v \in VersionsOf(up[u].doc) : v.number = up[u].number

\* The same flush then inserts the version, with the lock on the document row
\* in hand.  It waits for whoever holds the key; a number that is then taken
\* raises IntegrityError and rolls the request back.
InsertVersion(u) ==
    /\ pc[u] = "insert"
    /\ \A w \in Uploads : ~ KeyBlocks(w, u)
    /\ Goto(u, IF NumberTaken(u) THEN "conflict" ELSE "commit")
    /\ UNCHANGED <<serial, tables, objects, up, ix>>

\* db.commit() publishes the document row or its new checksum, and the version.
CommitUpload(u) ==
    /\ pc[u] = "commit"
    /\ IF up[u].writes
       THEN /\ docs' =
                 IF up[u].fresh
                 THEN docs \union {[id |-> u, name |-> up[u].name,
                                    checksum |-> up[u].content]}
                 ELSE {IF d.id = up[u].doc /\ ChangesChecksum(u)
                       THEN [d EXCEPT !.checksum = up[u].content]
                       ELSE d : d \in docs}
            /\ versions' = versions \union
                 {[id |-> u, doc |-> up[u].doc, number |-> up[u].number,
                   checksum |-> up[u].content, status |-> "parsed",
                   config |-> NoConfig]}
       ELSE UNCHANGED <<docs, versions>>
    /\ Goto(u, "done")
    /\ UNCHANGED <<serial, chunks, objects, up, ix>>

----------------------------------------------------------------------------
(* POST /documents/{id}/ingest *)

\* The version asked for is read, be it the latest or one given by its id.
PickVersion(i) ==
    /\ pc[i] = "start"
    /\ \E v \in versions :
          ix' = [ix EXCEPT ![i].version = v.id,
                           ![i].key = <<v.doc, v.number>>,
                           ![i].status = v.status,
                           ![i].loaded = v.config]
    /\ Goto(i, "load")
    /\ UNCHANGED <<serial, tables, objects, up>>

\* Mutant: what is stored for the document's latest version is loaded.
LoadLatest(i) ==
    /\ pc[i] = "load"
    /\ LET doc == ix[i].key[1]
       IN  ix' = [ix EXCEPT ![i].text =
                     objects[<<doc, LatestVersion(doc).number>>]]
    /\ Goto(i, "update")
    /\ UNCHANGED <<serial, tables, objects, up>>

\* The stored object is loaded, parsed and chunked with the request's config;
\* the candidates are then embedded.  A missing object raises: see Abort.
LoadAndChunk(i) ==
    /\ pc[i] = "load"
    /\ objects[ix[i].key] # NoContent
    /\ ix' = [ix EXCEPT ![i].text = objects[ix[i].key]]
    /\ Goto(i, "update")
    /\ UNCHANGED <<serial, tables, objects, up>>

\* Indexing j has updated the version row i is about to update.
VersionBlocks(j, i) ==
    /\ j # i
    /\ ix[j].version = ix[i].version
    /\ \/ pc[j] \in {"insert", "resolve", "commit"} /\ ChangesConfig(j)
       \/ pc[j] = "commit" /\ ChangesStatus(j)

\* The first flush updates the version row, if anything on it changes.  Without
\* candidates it is the only one, and the status is in the same update.
UpdateVersion(i) ==
    /\ pc[i] = "update"
    /\ ChangesConfig(i) \/ (Rows(i) = {} /\ ChangesStatus(i)) =>
          \A j \in Indexings : ~ VersionBlocks(j, i)
    /\ Goto(i, IF Rows(i) = {} THEN "commit" ELSE "insert")
    /\ UNCHANGED <<serial, tables, objects, up, ix>>

\* Both make a chunk of one place.
SamePlace(row, c) == c.version = row.version /\ c.index = row.index

\* Indexing j has flushed a chunk under a unique key i is about to use.
ChunksBlock(j, i) ==
    /\ j # i
    /\ pc[j] \in {"resolve", "commit"}
    /\ \E row \in Rows(i), c \in Rows(j) : SamePlace(row, c)

\* Mutant: the schema has no uq_document_chunks_version_index.
IndexNeverTaken(i) == FALSE

\* uq_document_chunks_version_index: a committed chunk has one of i's places.
IndexTaken(i) ==
    \E row \in Rows(i), c \in chunks : SamePlace(row, c)

\* The same flush then inserts the chunks, with the lock on the version row in
\* hand; a place that is taken raises IntegrityError.
InsertChunks(i) ==
    /\ pc[i] = "insert"
    /\ \A j \in Indexings : ~ ChunksBlock(j, i)
    /\ Goto(i, IF IndexTaken(i) THEN "conflict" ELSE "resolve")
    /\ UNCHANGED <<serial, tables, objects, up, ix>>

\* Row ids exist now: the second flush updates the version row once more, for
\* the status, and the chunks that have parents.
ResolveParents(i) ==
    /\ pc[i] = "resolve"
    /\ ChangesStatus(i) => \A j \in Indexings : ~ VersionBlocks(j, i)
    /\ Goto(i, "commit")
    /\ UNCHANGED <<serial, tables, objects, up, ix>>

\* db.commit() publishes the chunks with the version's new status and config.
CommitIndexing(i) ==
    /\ pc[i] = "commit"
    /\ chunks' = chunks \union Rows(i)
    /\ versions' =
         {IF v.id # ix[i].version THEN v
          ELSE [v EXCEPT !.status = "indexed",
                         !.config = IF ix[i].config = ix[i].loaded
                                    THEN @ ELSE ix[i].config] :
            v \in versions}
    /\ Goto(i, "done")
    /\ UNCHANGED <<serial, docs, objects, up, ix>>

----------------------------------------------------------------------------

\* The request raises (validation, parser, embedding provider, connection) or
\* its worker dies: the transaction is rolled back, the object store is not.
Abort(r) ==
    /\ pc[r] \notin Settled
    /\ Goto(r, "failed")
    /\ UNCHANGED <<serial, tables, objects, up, ix>>

UploadStep(u) ==
    \/ FindDocument(u)
    \/ ReadLatest(u)
    \/ Save(u)
    \/ UpdateDocument(u)
    \/ InsertVersion(u)
    \/ CommitUpload(u)

IndexingStep(i) ==
    \/ PickVersion(i)
    \/ LoadAndChunk(i)
    \/ UpdateVersion(i)
    \/ InsertChunks(i)
    \/ ResolveParents(i)
    \/ CommitIndexing(i)

Next ==
    \/ \E u \in Uploads : UploadStep(u)
    \/ \E i \in Indexings : IndexingStep(i)
    \/ \E r \in Requests : Abort(r)

\* A request that has begun is resumed whenever it can go on; whether one is
\* made at all is up to the clients.
Fairness ==
    /\ \A u \in Uploads : WF_vars(pc[u] # "start" /\ UploadStep(u))
    /\ \A i \in Indexings : WF_vars(pc[i] # "start" /\ IndexingStep(i))

Spec == Init /\ [][Next]_vars /\ Fairness

----------------------------------------------------------------------------
(* Properties of any schedule *)

Labels == Settled \union {"start", "latest", "save", "update", "insert",
                           "commit", "load", "resolve"}

UploadRecords ==
    [name : Filenames, content : Contents, retitles : BOOLEAN,
     doc : Uploads \union {NoVersion}, fresh : BOOLEAN,
     loaded : Contents \union {NoContent},
     number : 0 .. Cardinality(Uploads), writes : BOOLEAN]

IndexingRecords ==
    [config : Configs, version : Uploads \union {NoVersion},
     key : Keys \union {<<>>}, loaded : Configs \union {NoConfig},
     status : {"parsed", "indexed"}, text : Contents \union {NoContent}]

\* The types of the tables, the object store and the requests' records.
TablesOK ==
    /\ docs \subseteq [id : Uploads, name : Filenames, checksum : Contents]
    /\ versions \subseteq
         [id : Uploads, doc : Uploads, number : 1 .. Cardinality(Uploads),
          checksum : Contents, status : {"parsed", "indexed"},
          config : Configs \union {NoConfig}]
    /\ \A row \in chunks :
         /\ row.run \in Indexings /\ row.version \in Uploads
         /\ row.index \in Nat \ {0} /\ row.text \in Contents
    /\ objects \in [Keys -> Contents \union {NoContent}]
    /\ pc \in [Requests -> Labels]
    /\ up \in [Uploads -> UploadRecords]
    /\ ix \in [Indexings -> IndexingRecords]

\* The types of all variables.
TypeOK == TablesOK /\ serial \in BOOLEAN

\* However uploads of one document overlap, its versions are numbered 1, 2, ...
\* without gap or repetition, and no version repeats the bytes of the one
\* before it (the deduplication of ingest_document, uq_document_version).
HistoryContiguous ==
    /\ \A v, w \in versions :
         v.doc = w.doc /\ v.number = w.number => v = w
    /\ \A v \in versions :
         v.number > 1 => \E w \in VersionsOf(v.doc) :
                            /\ w.number = v.number - 1
                            /\ w.checksum # v.checksum

\* An upload that took the number of u's version as well, saved its own bytes
\* over u's, and is not answered with success.
Overwritten(u) ==
    \E w \in Uploads :
        /\ up[w].writes /\ pc[w] # "done"
        /\ up[w].doc = up[u].doc /\ up[w].number = up[u].number
        /\ objects[<<up[u].doc, up[u].number>>] = up[w].content

\* However uploads overlap, a successful one answers with a committed version of
\* a document of its name that has the checksum of its content, be it the
\* upload's own or one it met, and the version's bytes are stored.  The one
\* thing that may have become of them is that an upload which lost the race for
\* the number saved later (object_store.save before the flush).
DoneMeansStored ==
    \A u \in Uploads :
        pc[u] = "done" =>
            /\ \E d \in docs : d.id = up[u].doc /\ d.name = up[u].name
            /\ \E v \in VersionsOf(up[u].doc) :
                  v.number = up[u].number /\ v.checksum = up[u].content
            /\ \/ objects[<<up[u].doc, up[u].number>>] = up[u].content
               \/ Overwritten(u)

\* However uploads overlap, the checksum on a document's row is that of its
\* latest version.  The one way to miss it: the latest upload loaded the row
\* when it had the very checksum it was about to write, and another version was
\* committed before it read the versions, so that nothing was written.
ChecksumsAreCurrent ==
    \A d \in docs :
        /\ VersionsOf(d.id) # {}
        /\ LET latest == LatestVersion(d.id)
           IN  \/ d.checksum = latest.checksum
               \/ /\ ~ up[latest.id].fresh
                  /\ up[latest.id].loaded = latest.checksum

\* Requests wait with locks in hand: an upload for a unique key while it has the
\* document row, an indexing for places and for the version row again.  They
\* never wait for each other in a circle, which PostgreSQL would break by
\* failing one of them: every request that is begun settles.
EveryRequestSettles == <>[](\A r \in Requests : ~ Active(r))

VersionAt(d, n) == CHOOSE v \in VersionsOf(d) : v.number = n

History == [d \in Uploads |-> [n \in 1 .. Cardinality(VersionsOf(d)) |->
                                  VersionAt(d, n).checksum]]

IndexedVersions ==
    {<<v.doc, v.number>> : v \in {w \in versions : w.status = "indexed"}}

Promise == INSTANCE VersionHistory
    WITH Documents <- Uploads, history <- History, indexed <- IndexedVersions

\* The tables only ever move as VersionHistory says: histories grow at their
\* end, by contents different from the last, and nothing is un-indexed.
ImplementsHistory == Promise!Spec

----------------------------------------------------------------------------
(* Properties of schedules in which uploads do not overlap *)

\* What is stored under a version's key is what the version was uploaded as:
\* "Raw ingested files [...] are stored here, keyed by document/version"
\* (storage/object_store.py).  Two uploads that take the same number break it:
\* both save before the database refuses one of them.
BytesMatch ==
    \A v \in versions : objects[<<v.doc, v.number>>] = v.checksum

\* It holds of uploads one at a time, also when one of them has failed between
\* the save and the commit and left its bytes under the number of the next.
StoredBytesMatch == serial => BytesMatch

\* With uploads one at a time, the chunks of a version were made from that
\* version's bytes, also when an upload of the next version runs between the
\* pick and the load.
ChunksMatchVersion ==
    serial => \A row \in chunks :
                 \A v \in versions : v.id = row.version => row.text = v.checksum

\* A version is parsed and has no chunk, or is indexed and has all the chunks,
\* with their parents, of exactly one successful indexing, under the chunking
\* configuration it records.
IndexesAreWhole ==
    \A v \in versions :
        LET mine == {row \in chunks : row.version = v.id}
        IN  \/ v.status = "parsed" /\ v.config = NoConfig /\ mine = {}
            \/ /\ v.status = "indexed"
               /\ \E i \in Indexings :
                     /\ pc[i] = "done" /\ ix[i].version = v.id
                     /\ mine = Rows(i)
                     /\ mine # {} => v.config = ix[i].config

\* With uploads one at a time, retrieval never meets half an index, however
\* indexings overlap, fail and are repeated.
IndexedIsComplete == serial => IndexesAreWhole

=============================================================================
