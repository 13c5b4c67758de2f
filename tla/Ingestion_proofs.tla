-------------------------- MODULE Ingestion_proofs --------------------------
(***************************************************************************)
(* Proofs about Ingestion for any number of uploads and indexings, of any  *)
(* contents and names, however they overlap: version histories are         *)
(* contiguous, a successful upload is stored, checksums are current, and   *)
(* the tables move as VersionHistory says.  When uploads come one at a     *)
(* time, bytes and chunks belong together, however indexings overlap.      *)
(***************************************************************************)
EXTENDS Ingestion, FiniteSetTheorems, TLAPS

\* v and w differ in status and configuration at most.
SameVersion(v, w) ==
    /\ v.id = w.id /\ v.doc = w.doc
    /\ v.number = w.number /\ v.checksum = w.checksum

\* The committed histories.  A version has all of its predecessors.
VersionsInv ==
    /\ \A v \in versions : pc[v.id] = "done"
    /\ \A v, w \in versions : v.id = w.id => v = w
    /\ HistoryContiguous
    /\ \A v \in versions : \A k \in 1 .. v.number :
          \E w \in versions : w.doc = v.doc /\ w.number = k
    /\ \A d \in Uploads :
          \/ VersionsOf(d) = {}
          \/ \E v \in VersionsOf(d) : \A w \in VersionsOf(d) : w.number <= v.number
    /\ \A d \in docs : \E v \in versions : v.doc = d.id

HasDocument(u) == \E d \in docs : d.id = up[u].doc /\ d.name = up[u].name

HasVersion(u) ==
    \E v \in versions : /\ v.doc = up[u].doc
                        /\ v.number = up[u].number
                        /\ v.checksum = up[u].content

\* The version before the one u is about to write differs from it.
HasPredecessor(u) ==
    \/ up[u].number = 1
    \/ \E v \in versions : /\ v.doc = up[u].doc
                           /\ v.number = up[u].number - 1
                           /\ v.checksum # up[u].content

\* What an upload has read stays true until it commits.
UploadInv(u) ==
    /\ pc[u] = "start" => ~ up[u].fresh
    /\ pc[u] = "latest" => up[u].writes /\ ~ up[u].fresh
    /\ pc[u] \in {"save", "insert"} => up[u].writes
    /\ up[u].fresh => up[u].doc = u
    /\ pc[u] \in {"latest", "save", "update", "insert", "commit", "done"} =>
          /\ up[u].doc \in Uploads
          /\ up[u].fresh \/ HasDocument(u)
    /\ pc[u] \in {"save", "update", "insert", "commit"} =>
          /\ up[u].number >= 1
          /\ up[u].writes => HasPredecessor(u)
          /\ up[u].writes \/ (~ up[u].fresh /\ HasVersion(u))
    /\ pc[u] = "done" => HasDocument(u) /\ HasVersion(u)

Holds(u) == pc[u] = "commit" /\ up[u].writes

\* uq_document_version: a flushed number is neither committed nor flushed by
\* anybody else.
KeysInv ==
    /\ \A u \in Uploads : Holds(u) => ~ NumberTaken(u)
    /\ \A u, w \in Uploads :
          u # w /\ Holds(u) /\ Holds(w) /\ up[u].doc = up[w].doc
            => up[u].number # up[w].number

IndexingInv(i) ==
    /\ pc[i] \in {"load", "update", "insert", "resolve", "commit", "done"} =>
          \E v \in versions :
             v.id = ix[i].version /\ ix[i].key = <<v.doc, v.number>>
    /\ pc[i] \in {"update", "insert", "resolve", "commit", "done"} =>
          ix[i].text \in Contents

IInv ==
    /\ TablesOK
    /\ VersionsInv
    /\ \A u \in Uploads : UploadInv(u)
    /\ KeysInv
    /\ \A i \in Indexings : IndexingInv(i)

----------------------------------------------------------------------------
(* Lemmas *)

LEMMA CardinalityOfUploads ==
    /\ IsFiniteSet(Uploads) /\ Cardinality(Uploads) \in Nat
    /\ Uploads # {} => 1 <= Cardinality(Uploads)
<1>1. IsFiniteSet(Uploads) /\ Cardinality(Uploads) \in Nat
  BY RequestsAreDisjoint, FS_CardinalityType
<1>2. Uploads # {} => Cardinality(Uploads) # 0
  BY <1>1, FS_EmptySet
<1> QED
  BY <1>1, <1>2

\* A document with a version has a latest one.
LEMMA LatestIsThere ==
    ASSUME VersionsInv, NEW d \in Uploads, VersionsOf(d) # {}
    PROVE  /\ LatestVersion(d) \in versions /\ LatestVersion(d).doc = d
           /\ \A w \in versions : w.doc = d => w.number <= LatestVersion(d).number
<1>1. \E v \in VersionsOf(d) : \A w \in VersionsOf(d) : w.number <= v.number
  BY DEF VersionsInv
<1>2. /\ LatestVersion(d) \in VersionsOf(d)
      /\ \A w \in VersionsOf(d) : w.number <= LatestVersion(d).number
  BY <1>1 DEF LatestVersion
<1> QED
  BY <1>2 DEF VersionsOf

\* As long as an upload has not succeeded there is a number left for it: every
\* version was inserted by an upload of its own.
LEMMA NumberLeft ==
    ASSUME TablesOK, VersionsInv, NEW u \in Uploads, pc[u] # "done",
           NEW v \in versions
    PROVE  v.number + 1 <= Cardinality(Uploads)
<1> DEFINE n == v.number
           T == Uploads \ {u}
           At(k) == CHOOSE w \in versions : w.doc = v.doc /\ w.number = k
           f == [k \in 1 .. n |-> At(k).id]
<1>1. IsFiniteSet(Uploads) /\ Cardinality(Uploads) \in Nat
  BY RequestsAreDisjoint, FS_CardinalityType
<1>2. IsFiniteSet(T) /\ Cardinality(T) = Cardinality(Uploads) - 1
  BY <1>1, FS_RemoveElement
<1>3. n \in Nat
  BY <1>1 DEF TablesOK
<1>4. IsFiniteSet(1 .. n) /\ Cardinality(1 .. n) = n
  <2>1. \A k \in Nat : IsFiniteSet(1 .. k) /\ Cardinality(1 .. k) = k
    BY FS_Interval
  <2> QED
    BY <1>3, <2>1
<1>5. \A k \in 1 .. n : At(k) \in versions /\ At(k).number = k
  BY DEF VersionsInv
<1>6. \A w \in versions : w.id \in T
  BY DEF VersionsInv, TablesOK
<1>7. f \in [1 .. n -> T]
  BY <1>5, <1>6
<1>8. \A j, k \in 1 .. n : f[j] = f[k] => j = k
  <2> TAKE j, k \in 1 .. n
  <2>1. At(j) \in versions /\ At(k) \in versions
    BY <1>5
  <2>2. At(j).id = At(k).id => At(j) = At(k)
    BY <2>1 DEF VersionsInv
  <2> QED
    BY <1>5, <2>2
<1>9. ASSUME Cardinality(T) < Cardinality(1 .. n)
      PROVE  \E j, k \in 1 .. n : j # k /\ f[j] = f[k]
  <2> HIDE DEF f, T, n
  <2> QED
    BY <1>2, <1>4, <1>7, <1>9, FS_PigeonHole
<1>10. ~ (Cardinality(T) < Cardinality(1 .. n))
  <2> HIDE DEF f, T, n
  <2> QED
    BY <1>8, <1>9
<1> QED
  <2> HIDE DEF f, T
  <2> QED
    BY <1>1, <1>2, <1>3, <1>4, <1>10

\* What requests rely on survives whatever others commit: documents and
\* versions stay, but for checksums of documents and states of versions.
LEMMA OthersKeep ==
    ASSUME NEW u \in Uploads, UploadInv(u), UNCHANGED <<pc[u], up[u]>>,
           \A d \in docs : \E e \in docs' : e.id = d.id /\ e.name = d.name,
           \A v \in versions : \E w \in versions' : SameVersion(v, w)
    PROVE  UploadInv(u)'
<1>1. HasDocument(u) => HasDocument(u)'
  BY DEF HasDocument
<1>2. HasVersion(u) => HasVersion(u)'
  BY DEF HasVersion, SameVersion
<1>3. HasPredecessor(u) => HasPredecessor(u)'
  BY DEF HasPredecessor, SameVersion
<1> QED
  BY <1>1, <1>2, <1>3 DEF UploadInv

LEMMA IndexingsKeep ==
    ASSUME NEW i \in Indexings, IndexingInv(i), UNCHANGED <<pc[i], ix[i]>>,
           \A v \in versions : \E w \in versions' : SameVersion(v, w)
    PROVE  IndexingInv(i)'
  BY DEF IndexingInv, SameVersion

----------------------------------------------------------------------------
(* The invariant *)

LEMMA InvInit == Init => IInv
<1> SUFFICES ASSUME Init
             PROVE  IInv
  OBVIOUS
<1>1. TablesOK
  <2>1. pc \in [Requests -> Labels]
    BY DEF Init, Labels
  <2>2. up \in [Uploads -> UploadRecords]
    <3>1. \A u \in Uploads : up[u] \in UploadRecords
      <4> SUFFICES ASSUME NEW u \in Uploads
                   PROVE  up[u] \in UploadRecords
        OBVIOUS
      <4>1. up[u] \in [name : Filenames, content : Contents, retitles : Retitles,
                       doc : {NoVersion}, fresh : {FALSE}, loaded : {NoContent},
                       number : {0}, writes : {FALSE}]
        BY DEF Init
      <4>2. 0 \in 0 .. Cardinality(Uploads)
        BY CardinalityOfUploads
      <4> QED
        BY <4>1, <4>2, RetitlesAreBooleans DEF UploadRecords
    <3> QED
      BY <3>1 DEF Init
  <2>3. ix \in [Indexings -> IndexingRecords]
    <3>1. \A i \in Indexings : ix[i] \in IndexingRecords
      BY DEF Init, IndexingRecords
    <3> QED
      BY <3>1 DEF Init
  <2> QED
    BY <2>1, <2>2, <2>3 DEF Init, TablesOK
<1>2. VersionsInv
  BY DEF Init, VersionsInv, HistoryContiguous, VersionsOf
<1>3. \A u \in Uploads : UploadInv(u)
  BY DEF Init, UploadInv, Requests
<1>4. KeysInv
  BY DEF Init, KeysInv, Holds, Requests
<1>5. \A i \in Indexings : IndexingInv(i)
  BY DEF Init, IndexingInv, Requests
<1> QED
  BY <1>1, <1>2, <1>3, <1>4, <1>5 DEF IInv

\* A step of upload u that commits nothing: only u has to be looked at.
LEMMA QuietUpload ==
    ASSUME IInv, NEW u \in Uploads, NEW label \in Labels,
           pc[u] # "done", label # "done", Goto(u, label),
           UNCHANGED <<docs, versions, chunks, ix>>,
           \A w \in Uploads : w # u => up'[w] = up[w],
           TablesOK', UploadInv(u)',
           label = "commit" =>
              /\ Holds(u)' => ~ NumberTaken(u)'
              /\ \A w \in Uploads :
                    w # u /\ Holds(w) /\ Holds(u)' /\ up[w].doc = up'[u].doc
                      => up[w].number # up'[u].number
    PROVE  IInv'
<1> u \in Requests /\ pc \in [Requests -> Labels]
  BY DEF IInv, TablesOK, Requests
<1>1. pc'[u] = label /\ \A r \in Requests : r # u => pc'[r] = pc[r]
  BY DEF Goto
<1>2. VersionsInv'
  <2>1. \A v \in versions : v.id \in Requests /\ pc'[v.id] = "done"
    BY <1>1 DEF IInv, VersionsInv, TablesOK, Requests
  <2> QED
    BY <2>1 DEF IInv, VersionsInv, HistoryContiguous, VersionsOf
<1>3. ASSUME NEW w \in Uploads
      PROVE  UploadInv(w)'
  <2>1. CASE w = u
    BY <2>1
  <2>2. CASE w # u
    <3>1. UNCHANGED <<pc[w], up[w]>>
      BY <1>1, <2>2 DEF Requests
    <3> QED
      BY <3>1, OthersKeep DEF IInv, SameVersion
  <2> QED
    BY <2>1, <2>2
<1>4. KeysInv'
  <2>1. \A w \in Uploads : w # u => (Holds(w)' <=> Holds(w)) /\ up'[w] = up[w]
    BY <1>1 DEF Holds, Requests
  <2>2. Holds(u)' => label = "commit"
    BY <1>1 DEF Holds
  <2>3. \A w \in Uploads : w # u => (NumberTaken(w)' <=> NumberTaken(w))
    BY DEF NumberTaken, VersionsOf
  <2> QED
    BY <2>1, <2>2, <2>3 DEF IInv, KeysInv
<1>5. ASSUME NEW i \in Indexings
      PROVE  IndexingInv(i)'
  <2>1. UNCHANGED <<pc[i], ix[i]>>
    BY <1>1, RequestsAreDisjoint DEF Requests
  <2> QED
    BY <2>1, IndexingsKeep DEF IInv, SameVersion
<1> QED
  BY <1>2, <1>3, <1>4, <1>5 DEF IInv

\* A request's record is replaced by another one.
LEMMA UploadTypes ==
    ASSUME TablesOK, NEW u \in Uploads, NEW r \in UploadRecords,
           up' = [up EXCEPT ![u] = r], NEW label \in Labels, Goto(u, label),
           UNCHANGED <<docs, versions, chunks, ix>>,
           objects' \in [Keys -> Contents \union {NoContent}]
    PROVE  /\ TablesOK'
           /\ pc'[u] = label /\ up'[u] = r
           /\ \A w \in Uploads : w # u => up'[w] = up[w]
<1>1. u \in Requests
  BY DEF Requests
<1>2. pc' \in [Requests -> Labels] /\ pc'[u] = label
  BY <1>1 DEF TablesOK, Goto
<1>3. up' \in [Uploads -> UploadRecords] /\ up'[u] = r
      /\ \A w \in Uploads : w # u => up'[w] = up[w]
  BY DEF TablesOK
<1> QED
  BY <1>2, <1>3 DEF TablesOK

LEMMA FindDocumentStep ==
    ASSUME IInv, NEW u \in Uploads, FindDocument(u)
    PROVE  IInv'
<1>1. /\ TablesOK /\ UploadInv(u) /\ pc[u] = "start" /\ up[u] \in UploadRecords
      /\ UNCHANGED <<docs, versions, chunks, ix>>
      /\ objects' \in [Keys -> Contents \union {NoContent}]
  BY DEF IInv, TablesOK, FindDocument, tables
<1>2. CASE /\ up' = [up EXCEPT ![u].doc = u, ![u].fresh = TRUE,
                               ![u].number = 1, ![u].writes = TRUE]
           /\ Goto(u, "save")
  <2> DEFINE r == [up[u] EXCEPT !.doc = u, !.fresh = TRUE, !.number = 1,
                                !.writes = TRUE]
  <2>1. up' = [up EXCEPT ![u] = r] /\ Goto(u, "save")
    BY <1>1, <1>2 DEF TablesOK
  <2>2. 1 \in 0 .. Cardinality(Uploads) /\ "save" \in Labels
    BY CardinalityOfUploads DEF Labels
  <2>3. r \in UploadRecords /\ r.number = 1 /\ r.writes /\ r.fresh /\ r.doc = u
    BY <1>1, <2>2 DEF UploadRecords
  <2> HIDE DEF r
  <2>4. /\ TablesOK' /\ pc'[u] = "save" /\ up'[u] = r
        /\ \A w \in Uploads : w # u => up'[w] = up[w]
    BY <1>1, <2>1, <2>2, <2>3, UploadTypes
  <2>5. UploadInv(u)'
    BY <2>3, <2>4 DEF UploadInv, HasPredecessor
  <2> QED
    BY <1>1, <1>2, <2>2, <2>4, <2>5, QuietUpload
<1>3. ASSUME NEW d \in docs, d.name = up[u].name,
             up' = [up EXCEPT ![u].doc = d.id, ![u].writes = TRUE,
                              ![u].loaded = d.checksum],
             Goto(u, "latest")
      PROVE  IInv'
  <2> DEFINE r == [up[u] EXCEPT !.doc = d.id, !.writes = TRUE,
                                !.loaded = d.checksum]
  <2>1. up' = [up EXCEPT ![u] = r] /\ Goto(u, "latest")
    BY <1>1, <1>3 DEF TablesOK
  <2>2. d.id \in Uploads /\ d.checksum \in Contents /\ "latest" \in Labels
    BY <1>1 DEF TablesOK, Labels
  <2>3. /\ r \in UploadRecords /\ r.writes /\ r.fresh = up[u].fresh
        /\ r.doc = d.id /\ r.name = up[u].name
    BY <1>1, <2>2 DEF UploadRecords
  <2> HIDE DEF r
  <2>4. /\ TablesOK' /\ pc'[u] = "latest" /\ up'[u] = r
        /\ \A w \in Uploads : w # u => up'[w] = up[w]
    BY <1>1, <2>1, <2>2, <2>3, UploadTypes
  <2>5. HasDocument(u)'
    BY <1>1, <1>3, <2>3, <2>4 DEF HasDocument
  <2>6. UploadInv(u)'
    BY <1>1, <2>2, <2>3, <2>4, <2>5 DEF UploadInv
  <2> QED
    BY <1>1, <1>3, <2>2, <2>4, <2>6, QuietUpload
<1> QED
  BY <1>2, <1>3 DEF FindDocument

LEMMA ReadLatestStep ==
    ASSUME IInv, NEW u \in Uploads, ReadLatest(u)
    PROVE  IInv'
<1> DEFINE d == up[u].doc
           latest == LatestVersion(d)
<1>1. /\ TablesOK /\ UploadInv(u) /\ pc[u] = "latest" /\ up[u] \in UploadRecords
      /\ UNCHANGED <<docs, versions, chunks, ix>>
      /\ objects' \in [Keys -> Contents \union {NoContent}]
      /\ ~ up[u].fresh /\ HasDocument(u) /\ d \in Uploads
      /\ up[u].writes
  BY DEF IInv, TablesOK, ReadLatest, tables, UploadInv
<1>2. VersionsOf(d) # {}
  BY <1>1 DEF IInv, VersionsInv, VersionsOf, HasDocument
<1>3. /\ latest \in versions /\ latest.doc = d
      /\ \A w \in versions : w.doc = d => w.number <= latest.number
  BY <1>1, <1>2, LatestIsThere DEF IInv
<1>4. latest.number + 1 <= Cardinality(Uploads)
  BY <1>1, <1>3, NumberLeft DEF IInv
<1>5. /\ latest.number \in 0 .. Cardinality(Uploads)
      /\ latest.number + 1 \in 0 .. Cardinality(Uploads)
      /\ latest.number >= 1
  BY <1>1, <1>3, <1>4, CardinalityOfUploads DEF TablesOK
<1>6. CASE /\ latest.checksum = up[u].content
           /\ up' = [up EXCEPT ![u].number = latest.number, ![u].writes = FALSE]
           /\ Goto(u, "update")
  <2> DEFINE r == [up[u] EXCEPT !.number = latest.number, !.writes = FALSE]
  <2>1. up' = [up EXCEPT ![u] = r] /\ "update" \in Labels /\ Goto(u, "update")
    BY <1>1, <1>6 DEF TablesOK, Labels
  <2>2. /\ r \in UploadRecords /\ r.number = latest.number /\ ~ r.writes
        /\ r.fresh = up[u].fresh /\ r.doc = d /\ r.name = up[u].name
        /\ r.content = up[u].content
    BY <1>1, <1>5 DEF UploadRecords
  <2> HIDE DEF r
  <2>3. /\ TablesOK' /\ pc'[u] = "update" /\ up'[u] = r
        /\ \A w \in Uploads : w # u => up'[w] = up[w]
    BY <1>1, <2>1, <2>2, UploadTypes
  <2>4. HasDocument(u)' /\ HasVersion(u)'
    BY ZenonT(60), <1>1, <1>3, <1>6, <2>2, <2>3 DEF HasDocument, HasVersion
  <2>5. UploadInv(u)'
    BY <1>1, <1>5, <2>2, <2>3, <2>4 DEF UploadInv
  <2>6. ~ Holds(u)'
    BY <2>2, <2>3 DEF Holds
  <2> QED
    BY <1>1, <1>6, <2>1, <2>3, <2>5, <2>6, QuietUpload
<1>7. CASE /\ latest.checksum # up[u].content
           /\ up' = [up EXCEPT ![u].number = latest.number + 1]
           /\ Goto(u, "save")
  <2> DEFINE r == [up[u] EXCEPT !.number = latest.number + 1]
  <2>1. up' = [up EXCEPT ![u] = r] /\ "save" \in Labels /\ Goto(u, "save")
    BY <1>1, <1>7 DEF TablesOK, Labels
  <2>2. /\ r \in UploadRecords /\ r.number = latest.number + 1 /\ r.writes
        /\ r.fresh = up[u].fresh /\ r.doc = d /\ r.name = up[u].name
        /\ r.content = up[u].content
    BY <1>1, <1>5 DEF UploadRecords
  <2> HIDE DEF r
  <2>3. /\ TablesOK' /\ pc'[u] = "save" /\ up'[u] = r
        /\ \A w \in Uploads : w # u => up'[w] = up[w]
    BY <1>1, <2>1, <2>2, UploadTypes
  <2>4. HasDocument(u)'
    BY <1>1, <2>2, <2>3 DEF HasDocument
  <2>5. r.number >= 1 /\ r.number - 1 = latest.number
    BY <1>5, <2>2
  <2>6. HasPredecessor(u)'
    BY <1>1, <1>3, <1>7, <2>2, <2>3, <2>5 DEF HasPredecessor
  <2>7. UploadInv(u)'
    BY <1>1, <2>2, <2>3, <2>4, <2>5, <2>6 DEF UploadInv
  <2> QED
    BY <1>1, <1>7, <2>1, <2>3, <2>7, QuietUpload
<1> QED
  BY <1>6, <1>7 DEF ReadLatest

\* A step of an upload that changes nothing of its record.
LEMMA SameRecord ==
    ASSUME IInv, NEW u \in Uploads, up' = up, NEW label \in Labels,
           label \notin {"start", "done"}, Goto(u, label), pc[u] # "done",
           UNCHANGED <<docs, versions, chunks, ix>>,
           objects' \in [Keys -> Contents \union {NoContent}],
           \/ label \in Settled
           \/ label = "update" /\ pc[u] = "save"
           \/ label = "insert" /\ pc[u] = "update" /\ up[u].writes
           \/ label = "commit" /\ pc[u] = "update" /\ ~ up[u].writes
           \/ /\ label = "commit" /\ pc[u] = "insert" /\ ~ NumberTaken(u)
              /\ \A w \in Uploads :
                    w # u /\ Holds(w) /\ up[w].doc = up[u].doc
                      => up[w].number # up[u].number
    PROVE  IInv'
<1>1. u \in Requests /\ UploadInv(u) /\ TablesOK
  BY DEF IInv, Requests
<1>2. pc'[u] = label /\ TablesOK'
  BY <1>1 DEF Goto, TablesOK
<1>3. /\ HasDocument(u)' <=> HasDocument(u)
      /\ HasPredecessor(u)' <=> HasPredecessor(u)
      /\ HasVersion(u)' <=> HasVersion(u)
      /\ NumberTaken(u)' <=> NumberTaken(u)
  BY DEF HasDocument, HasPredecessor, HasVersion, NumberTaken, VersionsOf
<1>4. UploadInv(u)'
  BY <1>1, <1>2, <1>3 DEF UploadInv, Settled
<1>5. pc[u] = "update" /\ ~ up[u].writes => ~ Holds(u)'
  BY DEF Holds
<1> QED
  BY <1>1, <1>2, <1>3, <1>4, <1>5, QuietUpload DEF Settled

LEMMA SaveStep ==
    ASSUME IInv, NEW u \in Uploads, Save(u)
    PROVE  IInv'
<1>1. /\ pc[u] = "save" /\ Goto(u, "update") /\ up' = up
      /\ UNCHANGED <<docs, versions, chunks, ix>> /\ "update" \in Labels
  BY DEF Save, tables, Labels
<1>2. objects' \in [Keys -> Contents \union {NoContent}]
  <2>1. up[u].content \in Contents
    BY DEF IInv, TablesOK, UploadRecords
  <2> QED
    BY <2>1 DEF IInv, TablesOK, Save
<1> QED
  BY <1>1, <1>2, SameRecord

LEMMA UpdateDocumentStep ==
    ASSUME IInv, NEW u \in Uploads, UpdateDocument(u)
    PROVE  IInv'
<1>1. /\ pc[u] = "update" /\ up' = up /\ UNCHANGED <<docs, versions, chunks, ix>>
      /\ objects' \in [Keys -> Contents \union {NoContent}]
      /\ {"commit", "insert"} \subseteq Labels
      /\ Goto(u, IF up[u].writes THEN "insert" ELSE "commit")
  BY DEF UpdateDocument, tables, Labels, IInv, TablesOK
<1> QED
  BY <1>1, SameRecord

LEMMA InsertVersionStep ==
    ASSUME IInv, NEW u \in Uploads, InsertVersion(u)
    PROVE  IInv'
<1>1. /\ pc[u] = "insert" /\ up' = up /\ UNCHANGED <<docs, versions, chunks, ix>>
      /\ objects' \in [Keys -> Contents \union {NoContent}]
      /\ {"commit", "conflict"} \subseteq Labels /\ "conflict" \in Settled
  BY DEF InsertVersion, tables, Labels, Settled, IInv, TablesOK
<1>2. CASE NumberTaken(u) /\ Goto(u, "conflict")
  BY <1>1, <1>2, SameRecord
<1>3. CASE ~ NumberTaken(u) /\ Goto(u, "commit")
  <2>1. \A w \in Uploads :
           w # u /\ Holds(w) /\ up[w].doc = up[u].doc
             => up[w].number # up[u].number
    BY DEF InsertVersion, KeyBlocks, Holds
  <2> QED
    BY <1>1, <1>3, <2>1, SameRecord
<1> QED
  BY <1>2, <1>3 DEF InsertVersion

LEMMA AbortUploadStep ==
    ASSUME IInv, NEW u \in Uploads, Abort(u)
    PROVE  IInv'
<1>1. /\ pc[u] # "done" /\ up' = up /\ UNCHANGED <<docs, versions, chunks, ix>>
      /\ objects' \in [Keys -> Contents \union {NoContent}]
      /\ "failed" \in Labels /\ "failed" \in Settled /\ Goto(u, "failed")
  BY DEF Abort, tables, Labels, Settled, IInv, TablesOK
<1> QED
  BY <1>1, SameRecord

\* A step of upload u to "done": the histories keep what they have, and u
\* finds its document and its version in them.
LEMMA Publish ==
    ASSUME IInv, NEW u \in Uploads, pc[u] = "commit", Goto(u, "done"),
           UNCHANGED <<up, ix>>, TablesOK', VersionsInv',
           \A d \in docs : \E e \in docs' : e.id = d.id /\ e.name = d.name,
           versions \subseteq versions',
           \A w \in Uploads : w # u /\ Holds(w) => ~ NumberTaken(w)',
           HasDocument(u)', HasVersion(u)'
    PROVE  IInv'
<1>1. /\ u \in Requests /\ pc'[u] = "done"
      /\ \A r \in Requests : r # u => pc'[r] = pc[r]
  BY DEF IInv, TablesOK, Requests, Goto
<1>2. \A v \in versions : \E w \in versions' : SameVersion(v, w)
  BY DEF SameVersion
<1>3. ASSUME NEW w \in Uploads
      PROVE  UploadInv(w)'
  <2>1. CASE w = u
    BY <1>1, <2>1 DEF IInv, UploadInv
  <2>2. CASE w # u
    <3>1. UNCHANGED <<pc[w], up[w]>>
      BY <1>1, <2>2 DEF Requests
    <3> QED
      BY <1>2, <3>1, OthersKeep DEF IInv
  <2> QED
    BY <2>1, <2>2
<1>4. KeysInv'
  <2>1. \A w \in Uploads : Holds(w)' => w # u /\ Holds(w)
    BY <1>1 DEF Holds, Requests
  <2> QED
    BY <2>1 DEF IInv, KeysInv
<1>5. ASSUME NEW i \in Indexings
      PROVE  IndexingInv(i)'
  <2>1. UNCHANGED <<pc[i], ix[i]>>
    BY <1>1, RequestsAreDisjoint DEF Requests
  <2> QED
    BY <1>2, <2>1, IndexingsKeep DEF IInv
<1> QED
  BY <1>3, <1>4, <1>5 DEF IInv

LEMMA CommitUploadStep ==
    ASSUME IInv, NEW u \in Uploads, CommitUpload(u)
    PROVE  IInv'
<1> DEFINE d == up[u].doc
           n == up[u].number
           new == [id |-> u, doc |-> d, number |-> n, checksum |-> up[u].content,
                   status |-> "parsed", config |-> NoConfig]
           row == [id |-> u, name |-> up[u].name, checksum |-> up[u].content]
<1>1. /\ pc[u] = "commit" /\ Goto(u, "done")
      /\ UNCHANGED <<chunks, objects, up, ix>>
      /\ UploadInv(u) /\ TablesOK /\ VersionsInv /\ u \in Requests
  BY DEF CommitUpload, IInv, Requests
<1>2. /\ d \in Uploads /\ n \in 1 .. Cardinality(Uploads)
      /\ up[u].content \in Contents /\ up[u].name \in Filenames
      /\ up[u].writes \in BOOLEAN /\ up[u].fresh \in BOOLEAN
      /\ up[u].fresh => d = u
  BY <1>1, CardinalityOfUploads DEF TablesOK, UploadRecords, UploadInv
<1>3. /\ pc' \in [Requests -> Labels] /\ pc'[u] = "done"
      /\ \A r \in Requests : r # u => pc'[r] = pc[r]
  BY <1>1 DEF TablesOK, Goto, Labels, Settled
<1>4. CASE ~ up[u].writes
  <2>1. UNCHANGED <<docs, versions>>
    BY <1>4 DEF CommitUpload
  <2>2. TablesOK'
    BY <1>1, <1>3, <2>1 DEF TablesOK
  <2>3. VersionsInv'
    <3>1. \A v \in versions : v.id \in Requests /\ pc'[v.id] = "done"
      BY <1>1, <1>3 DEF VersionsInv, TablesOK, Requests
    <3> QED
      BY <1>1, <2>1, <3>1 DEF VersionsInv, HistoryContiguous, VersionsOf
  <2>4. HasDocument(u)' /\ HasVersion(u)'
    BY <1>1, <1>4, <2>1 DEF UploadInv, HasDocument, HasVersion
  <2>5. \A w \in Uploads : Holds(w) => ~ NumberTaken(w)'
    BY <1>1, <2>1 DEF IInv, KeysInv, NumberTaken, VersionsOf
  <2> QED
    BY <1>1, <2>1, <2>2, <2>3, <2>4, <2>5, Publish
<1>5. CASE up[u].writes
  <2>1. versions' = versions \union {new}
    BY <1>5 DEF CommitUpload
  <2>2. docs' = IF up[u].fresh THEN docs \union {row}
                ELSE {IF e.id = d /\ ChangesChecksum(u)
                      THEN [e EXCEPT !.checksum = up[u].content]
                      ELSE e : e \in docs}
    BY <1>5 DEF CommitUpload
  <2>3. /\ new.id = u /\ new.doc = d /\ new.number = n
        /\ new.checksum = up[u].content
        /\ new \in [id : Uploads, doc : Uploads,
                    number : 1 .. Cardinality(Uploads), checksum : Contents,
                    status : {"parsed", "indexed"},
                    config : Configs \union {NoConfig}]
    BY <1>2
  <2>4. /\ row.id = u /\ row.name = up[u].name
        /\ row \in [id : Uploads, name : Filenames, checksum : Contents]
    BY <1>2
  <2> HIDE DEF new, row
  <2>5. \A e \in docs :
           LET f == [e EXCEPT !.checksum = up[u].content]
           IN  /\ f \in [id : Uploads, name : Filenames, checksum : Contents]
               /\ f.id = e.id /\ f.name = e.name
    BY <1>1, <1>2 DEF TablesOK
  <2>6. /\ docs' \subseteq [id : Uploads, name : Filenames, checksum : Contents]
        /\ \A e \in docs : \E f \in docs' : f.id = e.id /\ f.name = e.name
        /\ \A f \in docs' : f.id = u \/ \E e \in docs : e.id = f.id
    <3>1. docs \subseteq [id : Uploads, name : Filenames, checksum : Contents]
      BY <1>1 DEF TablesOK
    <3>2. CASE up[u].fresh
      BY <2>2, <2>4, <3>1, <3>2
    <3>3. CASE ~ up[u].fresh
      BY <2>2, <2>5, <3>1, <3>3
    <3> QED
      BY <3>2, <3>3
  <2>7. TablesOK'
    BY <1>1, <1>3, <2>1, <2>3, <2>6 DEF TablesOK
  <2>8. HasDocument(u)' /\ HasVersion(u)'
    <3>1. HasVersion(u)'
      BY <1>1, <2>1, <2>3 DEF HasVersion
    <3>2. CASE up[u].fresh
      <4>1. row \in docs' /\ row.id = up[u].doc
        BY <1>2, <2>2, <2>4, <3>2
      <4> QED
        BY <1>1, <2>4, <3>1, <4>1 DEF HasDocument
    <3>3. CASE ~ up[u].fresh
      <4>1. PICK e \in docs : e.id = up[u].doc /\ e.name = up[u].name
        BY <1>1, <3>3 DEF HasDocument, UploadInv
      <4>2. PICK f \in docs' : f.id = e.id /\ f.name = e.name
        BY <2>6
      <4> QED
        BY <1>1, <3>1, <4>1, <4>2 DEF HasDocument
    <3> QED
      BY <3>2, <3>3
  <2>9. /\ \A v \in versions : v.doc = d => v.number # n
        /\ n = 1 \/ \E v \in versions : /\ v.doc = d /\ v.number = n - 1
                                        /\ v.checksum # up[u].content
    <3>1. Holds(u)
      BY <1>1, <1>5 DEF Holds
    <3> QED
      BY <1>1, <1>5, <3>1 DEF IInv, KeysInv, NumberTaken, VersionsOf, UploadInv,
         HasPredecessor
  <2>10. VersionsInv'
    <3>1. \A v \in versions' : pc'[v.id] = "done"
      BY <1>1, <1>3, <2>1, <2>3 DEF VersionsInv, TablesOK, Requests
    <3>2. \A v, w \in versions' : v.id = w.id => v = w
      BY <1>1, <2>1, <2>3 DEF VersionsInv
    <3>3. HistoryContiguous'
      <4>1. \A v, w \in versions' : v.doc = w.doc /\ v.number = w.number => v = w
        BY <1>1, <2>1, <2>3, <2>9 DEF VersionsInv, HistoryContiguous
      <4>2. \A v \in versions' : v.number > 1 =>
               \E w \in versions' : /\ w.doc = v.doc /\ w.number = v.number - 1
                                    /\ w.checksum # v.checksum
        BY <1>1, <1>2, <2>1, <2>3, <2>9
           DEF VersionsInv, HistoryContiguous, VersionsOf
      <4> QED
        BY <4>1, <4>2 DEF HistoryContiguous, VersionsOf
    <3>4. \A v \in versions' : \A k \in 1 .. v.number :
             \E w \in versions' : w.doc = v.doc /\ w.number = k
      <4>1. ASSUME NEW k \in 1 .. n
            PROVE  \E w \in versions' : w.doc = d /\ w.number = k
        <5>1. CASE k = n
          BY <2>1, <2>3, <5>1
        <5>2. CASE k # n
          <6>1. k \in 1 .. (n - 1)
            BY <1>2, <5>2
          <6>2. PICK v \in versions : v.doc = d /\ v.number = n - 1
            BY <1>2, <2>9, <6>1
          <6> QED
            BY <1>1, <2>1, <6>1, <6>2 DEF VersionsInv
        <5> QED
          BY <5>1, <5>2
      <4> QED
        BY <1>1, <2>1, <2>3, <4>1 DEF VersionsInv
    <3>5. ASSUME NEW e \in Uploads, NEW x \in versions', x.doc = e
          PROVE  \E v \in versions' :
                    /\ v.doc = e
                    /\ \A w \in versions' : w.doc = e => w.number <= v.number
      <4>1. CASE e = d /\ \A v \in versions : v.doc = d => v.number <= n
        BY <1>2, <2>1, <2>3, <4>1
      <4>2. CASE e = d /\ \E v \in versions : v.doc = d /\ ~ (v.number <= n)
        <5>1. PICK y \in versions : y.doc = d /\ ~ (y.number <= n)
          BY <4>2
        <5>2. PICK v \in versions :
                 v.doc = d /\ \A w \in versions : w.doc = d => w.number <= v.number
          BY <1>1, <1>2, <5>1 DEF VersionsInv, VersionsOf
        <5>3. y.number <= v.number /\ y.number \in Nat /\ v.number \in Nat
          BY <1>1, <5>1, <5>2, CardinalityOfUploads DEF TablesOK
        <5>4. n <= v.number
          BY <1>2, <5>1, <5>3, CardinalityOfUploads
        <5> QED
          BY <2>1, <2>3, <4>2, <5>2, <5>4
      <4>3. CASE e # d
        BY <1>1, <2>1, <2>3, <3>5, <4>3 DEF VersionsInv, VersionsOf
      <4> QED
        BY <4>1, <4>2, <4>3
    <3>6. \A f \in docs' : \E v \in versions' : v.doc = f.id
      <4>1. CASE up[u].fresh
        BY <1>1, <1>2, <2>1, <2>3, <2>6, <4>1 DEF VersionsInv
      <4>2. CASE ~ up[u].fresh
        BY <1>1, <2>1, <2>2, <2>5, <4>2 DEF VersionsInv
      <4> QED
        BY <4>1, <4>2
    <3> QED
      BY <3>1, <3>2, <3>3, <3>4, <3>5, <3>6 DEF VersionsInv, VersionsOf
  <2>11. ASSUME NEW w \in Uploads, w # u, Holds(w)
         PROVE  ~ NumberTaken(w)'
    <3>1. Holds(u)
      BY <1>1, <1>5 DEF Holds
    <3>2. ~ NumberTaken(w) /\ (up[w].doc = d => up[w].number # n)
      BY <2>11, <3>1 DEF IInv, KeysInv
    <3> QED
      BY <1>1, <2>1, <2>3, <3>2 DEF NumberTaken, VersionsOf
  <2>12. versions \subseteq versions'
    BY <2>1
  <2> QED
    BY <1>1, <2>6, <2>7, <2>8, <2>10, <2>11, <2>12, Publish
<1> QED
  BY <1>2, <1>4, <1>5

\* A step of indexing i that commits nothing.
LEMMA QuietIndexing ==
    ASSUME IInv, NEW i \in Indexings, NEW label \in Labels, Goto(i, label),
           UNCHANGED <<docs, versions, chunks, objects, up>>,
           \A j \in Indexings : j # i => ix'[j] = ix[j],
           ix' \in [Indexings -> IndexingRecords], IndexingInv(i)'
    PROVE  IInv'
<1> /\ i \in Requests /\ i \notin Uploads /\ TablesOK
  BY RequestsAreDisjoint DEF IInv, Requests
<1>1. /\ pc' \in [Requests -> Labels]
      /\ pc'[i] = label /\ \A r \in Requests : r # i => pc'[r] = pc[r]
  BY DEF TablesOK, Goto
<1>2. \A u \in Uploads : u \in Requests /\ pc'[u] = pc[u]
  BY <1>1 DEF Requests
<1>3. TablesOK'
  BY <1>1 DEF TablesOK
<1>4. VersionsInv'
  <2>1. \A v \in versions : v.id \in Uploads
    BY DEF TablesOK
  <2> QED
    BY <1>2, <2>1 DEF IInv, VersionsInv, HistoryContiguous, VersionsOf
<1>5. ASSUME NEW u \in Uploads
      PROVE  UploadInv(u)'
  <2>1. UNCHANGED <<pc[u], up[u]>>
    BY <1>2
  <2> QED
    BY <2>1, OthersKeep DEF IInv, SameVersion
<1>6. KeysInv'
  BY <1>2 DEF IInv, KeysInv, Holds, NumberTaken, VersionsOf
<1>7. ASSUME NEW j \in Indexings
      PROVE  IndexingInv(j)'
  <2>1. CASE j = i
    BY <2>1
  <2>2. CASE j # i
    <3>1. UNCHANGED <<pc[j], ix[j]>>
      BY <1>1, <2>2 DEF Requests
    <3> QED
      BY <3>1, IndexingsKeep DEF IInv, SameVersion
  <2> QED
    BY <2>1, <2>2
<1> QED
  BY <1>3, <1>4, <1>5, <1>6, <1>7 DEF IInv

LEMMA PickVersionStep ==
    ASSUME IInv, NEW i \in Indexings, PickVersion(i)
    PROVE  IInv'
<1>1. /\ pc[i] = "start" /\ Goto(i, "load") /\ i \in Requests
      /\ UNCHANGED <<docs, versions, chunks, objects, up>>
      /\ "load" \in Labels /\ TablesOK
  BY DEF PickVersion, tables, Labels, Requests, IInv
<1>2. PICK v \in versions :
         ix' = [ix EXCEPT ![i].version = v.id, ![i].key = <<v.doc, v.number>>,
                          ![i].status = v.status, ![i].loaded = v.config]
  BY DEF PickVersion
<1> DEFINE r == [ix[i] EXCEPT !.version = v.id, !.key = <<v.doc, v.number>>,
                              !.status = v.status, !.loaded = v.config]
<1>3. ix' = [ix EXCEPT ![i] = r]
  BY <1>1, <1>2 DEF TablesOK
<1>4. v.id \in Uploads /\ <<v.doc, v.number>> \in Keys
      /\ v.status \in {"parsed", "indexed"} /\ v.config \in Configs \union {NoConfig}
  BY <1>1 DEF TablesOK, Keys
<1>5. r \in IndexingRecords /\ r.version = v.id /\ r.key = <<v.doc, v.number>>
  BY ZenonT(60), <1>1, <1>4 DEF TablesOK, IndexingRecords
<1> HIDE DEF r
<1>6. /\ ix' \in [Indexings -> IndexingRecords] /\ ix'[i] = r
      /\ \A j \in Indexings : j # i => ix'[j] = ix[j]
  BY <1>1, <1>3, <1>5 DEF TablesOK
<1>7. pc'[i] = "load"
  BY <1>1 DEF TablesOK, Goto
<1>8. IndexingInv(i)'
  BY <1>1, <1>5, <1>6, <1>7 DEF IndexingInv
<1> QED
  BY <1>1, <1>6, <1>8, QuietIndexing

LEMMA LoadAndChunkStep ==
    ASSUME IInv, NEW i \in Indexings, LoadAndChunk(i)
    PROVE  IInv'
<1>1. /\ pc[i] = "load" /\ Goto(i, "update") /\ i \in Requests
      /\ UNCHANGED <<docs, versions, chunks, objects, up>>
      /\ "update" \in Labels /\ TablesOK /\ IndexingInv(i)
      /\ objects[ix[i].key] # NoContent
      /\ ix' = [ix EXCEPT ![i].text = objects[ix[i].key]]
  BY DEF LoadAndChunk, tables, Labels, Requests, IInv
<1> DEFINE r == [ix[i] EXCEPT !.text = objects[ix[i].key]]
<1>2. ix' = [ix EXCEPT ![i] = r]
  BY <1>1 DEF TablesOK
<1>3. PICK v \in versions : v.id = ix[i].version /\ ix[i].key = <<v.doc, v.number>>
  BY <1>1 DEF IndexingInv
<1>4. objects[ix[i].key] \in Contents
  <2>1. ix[i].key \in Keys
    BY <1>1, <1>3 DEF TablesOK, Keys
  <2> QED
    BY <1>1, <2>1 DEF TablesOK
<1>5. /\ r \in IndexingRecords /\ r.version = ix[i].version /\ r.key = ix[i].key
      /\ r.text \in Contents
  BY SMTT(30), <1>1, <1>4 DEF TablesOK, IndexingRecords
<1> HIDE DEF r
<1>6. /\ ix' \in [Indexings -> IndexingRecords] /\ ix'[i] = r
      /\ \A j \in Indexings : j # i => ix'[j] = ix[j]
  BY <1>1, <1>2, <1>5 DEF TablesOK
<1>7. pc'[i] = "update"
  BY <1>1 DEF TablesOK, Goto
<1>8. IndexingInv(i)'
  BY <1>1, <1>3, <1>5, <1>6, <1>7 DEF IndexingInv
<1> QED
  BY <1>1, <1>6, <1>8, QuietIndexing

\* An indexing flushes, resolves parents or fails: only its label changes.
LEMMA RelabelIndexing ==
    ASSUME IInv, NEW i \in Indexings, NEW label \in Labels, Goto(i, label),
           UNCHANGED <<docs, versions, chunks, objects, up, ix>>,
           \/ label \in {"failed", "conflict"}
           \/ /\ label \in {"insert", "resolve", "commit"}
              /\ pc[i] \in {"update", "insert", "resolve", "commit"}
    PROVE  IInv'
<1>1. pc'[i] = label /\ ix \in [Indexings -> IndexingRecords]
  BY DEF IInv, TablesOK, Goto, Requests
<1>2. IndexingInv(i)'
  BY <1>1 DEF IInv, IndexingInv
<1> QED
  BY <1>1, <1>2, QuietIndexing

LEMMA UpdateVersionStep ==
    ASSUME IInv, NEW i \in Indexings, UpdateVersion(i)
    PROVE  IInv'
<1>1. /\ pc[i] = "update" /\ UNCHANGED <<docs, versions, chunks, objects, up, ix>>
      /\ {"commit", "insert"} \subseteq Labels
  BY DEF UpdateVersion, tables, Labels
<1>2. Goto(i, "commit") \/ Goto(i, "insert")
  BY DEF UpdateVersion
<1> QED
  BY <1>1, <1>2, RelabelIndexing

LEMMA InsertChunksStep ==
    ASSUME IInv, NEW i \in Indexings, InsertChunks(i)
    PROVE  IInv'
<1>1. /\ pc[i] = "insert" /\ UNCHANGED <<docs, versions, chunks, objects, up, ix>>
      /\ {"conflict", "resolve"} \subseteq Labels
  BY DEF InsertChunks, tables, Labels, Settled
<1>2. Goto(i, "conflict") \/ Goto(i, "resolve")
  BY DEF InsertChunks
<1> QED
  BY <1>1, <1>2, RelabelIndexing

LEMMA ResolveParentsStep ==
    ASSUME IInv, NEW i \in Indexings, ResolveParents(i)
    PROVE  IInv'
<1>1. /\ pc[i] = "resolve" /\ Goto(i, "commit") /\ "commit" \in Labels
      /\ UNCHANGED <<docs, versions, chunks, objects, up, ix>>
  BY DEF ResolveParents, tables, Labels
<1> QED
  BY <1>1, RelabelIndexing

LEMMA AbortIndexingStep ==
    ASSUME IInv, NEW i \in Indexings, Abort(i)
    PROVE  IInv'
<1>1. /\ Goto(i, "failed") /\ "failed" \in Labels
      /\ UNCHANGED <<docs, versions, chunks, objects, up, ix>>
  BY DEF Abort, tables, Labels, Settled
<1> QED
  BY <1>1, RelabelIndexing

\* What an indexing makes of a version.
Indexed(i, v) ==
    IF v.id # ix[i].version THEN v
    ELSE [v EXCEPT !.status = "indexed",
                   !.config = IF ix[i].config = ix[i].loaded
                              THEN @ ELSE ix[i].config]

VersionTypes ==
    [id : Uploads, doc : Uploads, number : 1 .. Cardinality(Uploads),
     checksum : Contents, status : {"parsed", "indexed"},
     config : Configs \union {NoConfig}]

LEMMA IndexedIsSame ==
    ASSUME TablesOK, NEW i \in Indexings, NEW v \in versions
    PROVE  /\ Indexed(i, v) \in VersionTypes
           /\ SameVersion(v, Indexed(i, v))
           /\ v.id = ix[i].version => Indexed(i, v).status = "indexed"
<1>1. v \in VersionTypes
  BY DEF TablesOK, VersionTypes
<1>2. ix[i].config \in Configs
  BY DEF TablesOK, IndexingRecords
<1> QED
  BY <1>1, <1>2 DEF SameVersion, Indexed, VersionTypes

LEMMA CommitIndexingStep ==
    ASSUME IInv, NEW i \in Indexings, CommitIndexing(i)
    PROVE  IInv'
<1>1. /\ pc[i] = "commit" /\ Goto(i, "done") /\ i \in Requests /\ i \notin Uploads
      /\ UNCHANGED <<docs, objects, up, ix>> /\ TablesOK /\ VersionsInv
      /\ IndexingInv(i) /\ ix[i] \in IndexingRecords
      /\ versions' = {Indexed(i, v) : v \in versions}
      /\ chunks' = chunks \union Rows(i)
  BY RequestsAreDisjoint DEF CommitIndexing, Requests, IInv, TablesOK, Indexed
<1>2. /\ pc' \in [Requests -> Labels] /\ pc'[i] = "done"
      /\ \A r \in Requests : r # i => pc'[r] = pc[r]
  BY <1>1 DEF TablesOK, Goto, Labels, Settled
<1>3. \A u \in Uploads : u \in Requests /\ pc'[u] = pc[u]
  BY <1>1, <1>2 DEF Requests
<1>4. \A v \in versions : /\ Indexed(i, v) \in VersionTypes
                           /\ SameVersion(v, Indexed(i, v))
  BY <1>1, IndexedIsSame
<1>5. /\ \A v \in versions : \E w \in versions' : SameVersion(v, w)
      /\ \A w \in versions' : \E v \in versions : SameVersion(v, w) /\ w = Indexed(i, v)
  BY <1>1, <1>4
<1>6. TablesOK'
  <2>1. versions' \subseteq VersionTypes
    BY <1>1, <1>4
  <2>2. \A row \in Rows(i) :
           /\ row.run \in Indexings /\ row.version \in Uploads
           /\ row.index \in Nat \ {0} /\ row.text \in Contents
    <3>1. /\ ix[i].text \in Contents /\ ix[i].config \in Configs
          /\ ix[i].version \in Uploads
      BY <1>1 DEF IndexingInv, IndexingRecords, TablesOK
    <3>2. Candidates[ix[i].text][ix[i].config] \in Seq(Nat)
      BY <3>1, CandidatesAreForests
    <3>3. DOMAIN Candidates[ix[i].text][ix[i].config] \subseteq Nat \ {0}
      BY <3>2
    <3> QED
      BY <3>1, <3>3 DEF Rows
  <2> QED
    BY <1>1, <1>2, <2>1, <2>2 DEF TablesOK, VersionTypes
<1>7. VersionsInv'
  <2>1. \A v \in versions' : pc'[v.id] = "done"
    <3>1. \A v \in versions : v.id \in Uploads /\ pc[v.id] = "done"
      BY <1>1 DEF TablesOK, VersionsInv
    <3> QED
      BY <1>3, <1>5, <3>1 DEF SameVersion
  <2>2. \A v, w \in versions' : v.id = w.id => v = w
    BY <1>1, <1>5 DEF VersionsInv, SameVersion
  <2>3. HistoryContiguous'
    <3>1. \A v, w \in versions' : v.doc = w.doc /\ v.number = w.number => v = w
      BY <1>1, <1>5 DEF VersionsInv, HistoryContiguous, SameVersion
    <3>2. ASSUME NEW v \in versions', v.number > 1
          PROVE  \E w \in versions' : /\ w.doc = v.doc /\ w.number = v.number - 1
                                      /\ w.checksum # v.checksum
      <4>1. PICK x \in versions : SameVersion(x, v)
        BY <1>5
      <4>2. PICK y \in versions : /\ y.doc = x.doc /\ y.number = x.number - 1
                                  /\ y.checksum # x.checksum
        BY <1>1, <3>2, <4>1
           DEF VersionsInv, HistoryContiguous, VersionsOf, SameVersion
      <4> QED
        BY <1>5, <4>1, <4>2 DEF SameVersion
    <3> QED
      BY <3>1, <3>2 DEF HistoryContiguous, VersionsOf
  <2>4. \A v \in versions' : \A k \in 1 .. v.number :
           \E w \in versions' : w.doc = v.doc /\ w.number = k
    <3> TAKE v \in versions'
    <3> TAKE k \in 1 .. v.number
    <3>1. PICK x \in versions : SameVersion(x, v)
      BY <1>5
    <3>2. PICK y \in versions : y.doc = x.doc /\ y.number = k
      BY <1>1, <3>1 DEF VersionsInv, SameVersion
    <3> QED
      BY <1>5, <3>1, <3>2 DEF SameVersion
  <2>5. ASSUME NEW d \in Uploads, NEW x \in versions', x.doc = d
        PROVE  \E v \in versions' :
                  /\ v.doc = d
                  /\ \A w \in versions' : w.doc = d => w.number <= v.number
    <3>1. PICK y \in versions : y.doc = d
      BY <1>5, <2>5 DEF SameVersion
    <3>2. PICK v \in versions :
             v.doc = d /\ \A w \in versions : w.doc = d => w.number <= v.number
      BY <1>1, <3>1 DEF VersionsInv, VersionsOf
    <3>3. PICK w \in versions' : SameVersion(v, w)
      BY <1>5
    <3>4. \A later \in versions' : \E earlier \in versions :
             earlier.doc = later.doc /\ earlier.number = later.number
      BY <1>5 DEF SameVersion
    <3>5. w.doc = d /\ w.number = v.number
      BY <3>2, <3>3 DEF SameVersion
    <3> QED
      BY <3>2, <3>4, <3>5
  <2>6. \A d \in docs' : \E v \in versions' : v.doc = d.id
    BY <1>1, <1>5 DEF VersionsInv, SameVersion
  <2> QED
    BY <2>1, <2>2, <2>3, <2>4, <2>5, <2>6 DEF VersionsInv, VersionsOf
<1>8. ASSUME NEW u \in Uploads
      PROVE  UploadInv(u)'
  <2>1. UNCHANGED <<pc[u], up[u]>>
    BY <1>1, <1>3
  <2> QED
    BY <1>1, <1>5, <2>1, OthersKeep DEF IInv
<1>9. KeysInv'
  <2>1. \A u \in Uploads : Holds(u)' <=> Holds(u)
    BY <1>1, <1>3 DEF Holds
  <2>2. \A u \in Uploads : NumberTaken(u)' => NumberTaken(u)
    BY <1>1, <1>5 DEF NumberTaken, VersionsOf, SameVersion
  <2> QED
    BY <1>1, <2>1, <2>2 DEF IInv, KeysInv
<1>10. ASSUME NEW j \in Indexings
       PROVE  IndexingInv(j)'
  <2>1. ix'[j] = ix[j] /\ (pc'[j] = pc[j] \/ j = i)
    BY <1>1, <1>2 DEF Requests
  <2>2. IndexingInv(j)
    BY DEF IInv
  <2>3. CASE pc[j] \in {"load", "update", "insert", "resolve", "commit", "done"}
    <3>1. PICK v \in versions :
             v.id = ix[j].version /\ ix[j].key = <<v.doc, v.number>>
      BY <2>2, <2>3 DEF IndexingInv
    <3>2. PICK w \in versions' : SameVersion(v, w)
      BY <1>5
    <3>3. w.id = ix'[j].version /\ ix'[j].key = <<w.doc, w.number>>
      BY <2>1, <3>1, <3>2 DEF SameVersion
    <3>4. pc'[j] \in {"update", "insert", "resolve", "commit", "done"} =>
             ix'[j].text \in Contents
      BY <1>1, <1>2, <2>1, <2>2 DEF IndexingInv
    <3> QED
      BY <3>3, <3>4 DEF IndexingInv
  <2>4. CASE pc[j] \notin {"load", "update", "insert", "resolve", "commit", "done"}
    BY <1>1, <2>1, <2>4 DEF IndexingInv
  <2> QED
    BY <2>3, <2>4
<1> QED
  BY <1>6, <1>7, <1>8, <1>9, <1>10 DEF IInv

LEMMA InvStep == IInv /\ [Next]_vars => IInv'
<1> SUFFICES ASSUME IInv, [Next]_vars
             PROVE  IInv'
  OBVIOUS
<1>1. CASE \E u \in Uploads : UploadStep(u)
  BY <1>1, FindDocumentStep, ReadLatestStep, SaveStep, UpdateDocumentStep,
     InsertVersionStep, CommitUploadStep DEF UploadStep
<1>2. CASE \E i \in Indexings : IndexingStep(i)
  BY <1>2, PickVersionStep, LoadAndChunkStep, UpdateVersionStep,
     InsertChunksStep, ResolveParentsStep, CommitIndexingStep DEF IndexingStep
<1>3. CASE \E r \in Requests : Abort(r)
  BY <1>3, AbortUploadStep, AbortIndexingStep DEF Requests
<1>4. CASE UNCHANGED vars
  <2> USE <1>4 DEF vars
  <2>1. TablesOK' /\ VersionsInv' /\ KeysInv'
    BY DEF IInv, TablesOK, VersionsInv, HistoryContiguous, VersionsOf, KeysInv,
       Holds, NumberTaken
  <2>2. \A u \in Uploads : UploadInv(u)'
    BY OthersKeep DEF IInv, SameVersion
  <2>3. \A i \in Indexings : IndexingInv(i)'
    BY IndexingsKeep DEF IInv, SameVersion
  <2> QED
    BY <2>1, <2>2, <2>3 DEF IInv
<1> QED
  BY <1>1, <1>2, <1>3, <1>4 DEF Next

\* The invariant holds at every time, whatever is scheduled fairly or not.
THEOREM InvAlways == Spec => []IInv
<1>1. Init => IInv
  BY InvInit
<1>2. IInv /\ [Next]_vars => IInv'
  BY InvStep
<1> QED
  BY <1>1, <1>2, PTL DEF Spec

----------------------------------------------------------------------------
(* What follows from it *)

LEMMA SerialIsFrozen ==
    ASSUME [Next]_vars
    PROVE  serial' = serial
<1>1. ASSUME NEW u \in Uploads, UploadStep(u)
      PROVE  serial' = serial
  BY <1>1 DEF UploadStep, FindDocument, ReadLatest, Save, UpdateDocument,
     InsertVersion, CommitUpload
<1>2. ASSUME NEW i \in Indexings, IndexingStep(i)
      PROVE  serial' = serial
  BY <1>2 DEF IndexingStep, PickVersion, LoadAndChunk, UpdateVersion,
     InsertChunks, ResolveParents, CommitIndexing
<1>3. ASSUME NEW r \in Requests, Abort(r)
      PROVE  serial' = serial
  BY <1>3 DEF Abort
<1> QED
  BY <1>1, <1>2, <1>3 DEF Next, vars

\* The tables, the records of requests and the object store keep their types;
\* in particular numbers never run out of keys.
THEOREM TypeCorrect == Spec => []TypeOK
<1>1. IInv => TablesOK
  BY DEF IInv
<1>2. Init => serial \in BOOLEAN
  BY DEF Init
<1>3. serial \in BOOLEAN /\ [Next]_vars => (serial \in BOOLEAN)'
  BY SerialIsFrozen
<1>4. TablesOK /\ serial \in BOOLEAN => TypeOK
  BY DEF TypeOK
<1> QED
  BY <1>1, <1>2, <1>3, <1>4, InvAlways, PTL DEF Spec

\* Version numbers stay contiguous and neighbours different for any number of
\* overlapping uploads (the deduplication of ingest_document).
THEOREM HistoryAlwaysContiguous == Spec => []HistoryContiguous
<1>1. IInv => HistoryContiguous
  BY DEF IInv, VersionsInv
<1> QED
  BY <1>1, InvAlways, PTL

----------------------------------------------------------------------------
(* The refinement of VersionHistory *)

\* Elements numbered without gap and repetition are as many as their numbers.
LEMMA Numbered ==
    ASSUME NEW S, \A v \in S : v.number \in Nat \ {0},
           \A v, w \in S : v.number = w.number => v = w,
           \A v \in S : \A k \in 1 .. v.number : \E w \in S : w.number = k,
           S = {} \/ \E v \in S : \A w \in S : w.number <= v.number
    PROVE  /\ IsFiniteSet(S) /\ Cardinality(S) \in Nat
           /\ \A v \in S : v.number \in 1 .. Cardinality(S)
           /\ \A k \in 1 .. Cardinality(S) : \E v \in S : v.number = k
<1>1. CASE S = {}
  BY <1>1, FS_EmptySet
<1>2. CASE S # {}
  <2>1. PICK last \in S : \A w \in S : w.number <= last.number
    BY <1>2
  <2> DEFINE m == last.number
             f == [k \in 1 .. m |-> CHOOSE v \in S : v.number = k]
  <2>2. m \in Nat /\ \A v \in S : v.number \in 1 .. m
    BY <2>1
  <2>3. \A k \in 1 .. m : \E v \in S : v.number = k
    OBVIOUS
  <2> HIDE DEF m
  <2>4. \A k \in 1 .. m : f[k] \in S /\ f[k].number = k
    BY <2>3
  <2>5. f \in [1 .. m -> S]
    BY <2>4
  <2>6. \A v \in S : v.number \in 1 .. m /\ f[v.number] = v
    BY <2>2, <2>4
  <2> HIDE DEF f
  <2>7. f \in Bijection(1 .. m, S)
    <3>1. \A j, k \in 1 .. m : f[j] = f[k] => j = k
      BY <2>4
    <3>2. \A v \in S : \E k \in 1 .. m : f[k] = v
      BY <2>6
    <3> QED
      BY <2>5, <3>1, <3>2 DEF Bijection, Injection, Surjection, IsInjective
  <2>8. ExistsBijection(1 .. m, S)
    BY <2>7 DEF ExistsBijection
  <2>9. IsFiniteSet(S) /\ Cardinality(S) = m
    BY <2>2, <2>8, FS_NatBijection, FS_CountingElements
  <2> QED
    BY <2>2, <2>3, <2>9
<1> QED
  BY <1>1, <1>2

\* The history of a document has one content per version.
LEMMA HistoryShape ==
    ASSUME TablesOK, VersionsInv, NEW d \in Uploads
    PROVE  LET N == Cardinality(VersionsOf(d))
           IN  /\ IsFiniteSet(VersionsOf(d)) /\ N \in Nat
               /\ \A v \in VersionsOf(d) : /\ v.number \in 1 .. N
                                           /\ VersionAt(d, v.number) = v
               /\ \A k \in 1 .. N : /\ VersionAt(d, k) \in VersionsOf(d)
                                    /\ VersionAt(d, k).number = k
               /\ History[d] \in Seq(Contents) /\ Len(History[d]) = N
               /\ \A k \in 1 .. N : History[d][k] = VersionAt(d, k).checksum
<1> DEFINE S == VersionsOf(d)
           N == Cardinality(S)
<1>1. /\ \A v \in S : v.number \in Nat \ {0} /\ v.checksum \in Contents
      /\ \A v, w \in S : v.number = w.number => v = w
      /\ \A v \in S : \A k \in 1 .. v.number : \E w \in S : w.number = k
      /\ S = {} \/ \E v \in S : \A w \in S : w.number <= v.number
  BY CardinalityOfUploads DEF TablesOK, VersionsInv, HistoryContiguous, VersionsOf
<1>2. /\ IsFiniteSet(S) /\ N \in Nat
      /\ \A v \in S : v.number \in 1 .. N
      /\ \A k \in 1 .. N : \E v \in S : v.number = k
  <2> HIDE DEF S
  <2> QED
    BY <1>1, Numbered
<1>3. \A k \in 1 .. N : VersionAt(d, k) \in S /\ VersionAt(d, k).number = k
  BY <1>2 DEF VersionAt
<1>4. \A v \in S : VersionAt(d, v.number) = v
  BY <1>1, <1>2, <1>3
<1>5. History[d] = [k \in 1 .. N |-> VersionAt(d, k).checksum]
  BY DEF History
<1> HIDE DEF S, N
<1>6. History[d] \in Seq(Contents) /\ Len(History[d]) = N
      /\ \A k \in 1 .. N : History[d][k] = VersionAt(d, k).checksum
  BY <1>1, <1>2, <1>3, <1>5
<1> QED
  BY <1>2, <1>3, <1>4, <1>6 DEF S, N

\* The same of the next state.
LEMMA HistoryShapeNext ==
    ASSUME TablesOK', VersionsInv', NEW d \in Uploads
    PROVE  LET S == VersionsOf(d)'
               N == Cardinality(S)
           IN  /\ N \in Nat
               /\ \A v \in S : v.number \in 1 .. N /\ VersionAt(d, v.number)' = v
               /\ \A k \in 1 .. N : VersionAt(d, k)' \in S /\ VersionAt(d, k)'.number = k
<1> DEFINE S == VersionsOf(d)'
           N == Cardinality(S)
<1> S = {v \in versions' : v.doc = d}
  BY DEF VersionsOf
<1>1. /\ \A v \in S : v.number \in Nat \ {0}
      /\ \A v, w \in S : v.number = w.number => v = w
      /\ \A v \in S : \A k \in 1 .. v.number : \E w \in S : w.number = k
      /\ S = {} \/ \E v \in S : \A w \in S : w.number <= v.number
  <2>1. \A v \in S : v.number \in Nat \ {0}
    BY CardinalityOfUploads DEF TablesOK
  <2>2. \A v, w \in S : v.number = w.number => v = w
    BY DEF VersionsInv, HistoryContiguous
  <2>3. \A v \in S : \A k \in 1 .. v.number : \E w \in S : w.number = k
    BY DEF VersionsInv
  <2>4. S = {} \/ \E v \in S : \A w \in S : w.number <= v.number
    BY DEF VersionsInv, VersionsOf
  <2> QED
    BY <2>1, <2>2, <2>3, <2>4
<1>2. /\ N \in Nat
      /\ \A v \in S : v.number \in 1 .. N
      /\ \A k \in 1 .. N : \E v \in S : v.number = k
  <2> HIDE DEF S
  <2> QED
    BY <1>1, Numbered
<1>3. \A k \in 1 .. N : VersionAt(d, k)' \in S /\ VersionAt(d, k)'.number = k
  BY <1>2 DEF VersionAt
<1> QED
  BY <1>1, <1>2, <1>3

LEMMA RefinesInit == Init => Promise!Init
<1> SUFFICES ASSUME Init
             PROVE  Promise!Init
  OBVIOUS
<1>1. \A d \in Uploads : VersionsOf(d) = {}
  BY DEF Init, VersionsOf
<1>2. Cardinality({}) = 0
  BY FS_EmptySet
<1>3. History = [d \in Uploads |-> <<>>]
  <2>1. \A d \in Uploads : 1 .. Cardinality(VersionsOf(d)) = {}
    BY <1>1, <1>2
  <2> QED
    BY <2>1 DEF History
<1>4. IndexedVersions = {}
  BY DEF Init, IndexedVersions
<1> QED
  BY <1>3, <1>4 DEF Promise!Init

\* Histories that keep their versions, up to their status, are the same.
LEMMA HistoryKept ==
    ASSUME IInv, IInv',
           \A v \in versions : \E w \in versions' : SameVersion(v, w),
           \A w \in versions' : \E v \in versions : SameVersion(v, w)
    PROVE  History' = History
<1>1. ASSUME NEW d \in Uploads
      PROVE  History'[d] = History[d]
  <2> DEFINE N == Cardinality(VersionsOf(d))
  <2>1. /\ IsFiniteSet(VersionsOf(d)) /\ N \in Nat
        /\ \A v \in VersionsOf(d) : v.number \in 1 .. N
        /\ \A k \in 1 .. N : /\ VersionAt(d, k) \in VersionsOf(d)
                             /\ VersionAt(d, k).number = k
    BY HistoryShape DEF IInv
  <2>2. /\ N' \in Nat
        /\ \A v \in VersionsOf(d)' : v.number \in 1 .. N' /\ VersionAt(d, v.number)' = v
        /\ \A k \in 1 .. N' : /\ VersionAt(d, k)' \in VersionsOf(d)'
                              /\ VersionAt(d, k)'.number = k
    BY HistoryShapeNext DEF IInv
  <2>3. /\ \A v \in VersionsOf(d) : \E w \in VersionsOf(d)' : SameVersion(v, w)
        /\ \A w \in VersionsOf(d)' : \E v \in VersionsOf(d) : SameVersion(v, w)
    BY DEF VersionsOf, SameVersion
  <2> HIDE DEF N
  <2>4. N' = N
    <3>1. \A k \in 1 .. N : k \in 1 .. N'
      BY <2>1, <2>2, <2>3 DEF SameVersion
    <3>2. \A k \in 1 .. N' : k \in 1 .. N
      BY <2>1, <2>2, <2>3 DEF SameVersion
    <3> QED
      BY <2>1, <2>2, <3>1, <3>2
  <2>5. ASSUME NEW k \in 1 .. N
        PROVE  VersionAt(d, k)'.checksum = VersionAt(d, k).checksum
    <3>1. PICK w \in VersionsOf(d)' : SameVersion(VersionAt(d, k), w)
      BY <2>1, <2>3
    <3>2. w.number = k
      BY <2>1, <3>1 DEF SameVersion
    <3>3. VersionAt(d, k)' = w
      BY <2>2, <3>1, <3>2
    <3> QED
      BY <3>1, <3>3 DEF SameVersion
  <2> QED
    BY <2>4, <2>5 DEF History, N
<1> QED
  BY <1>1 DEF History

\* A committed version is the next of its document's history.
LEMMA RefinesCommitUpload ==
    ASSUME IInv, IInv', NEW u \in Uploads, CommitUpload(u), up[u].writes,
           NEW d \in Uploads, NEW n \in Nat, NEW c \in Contents,
           d = up[u].doc, n = up[u].number, c = up[u].content
    PROVE  Promise!Next
<1> DEFINE S == VersionsOf(d)
           N == Cardinality(S)
           new == [id |-> u, doc |-> d, number |-> n, checksum |-> c,
                   status |-> "parsed", config |-> NoConfig]
<1>1. versions' = versions \union {new} /\ Holds(u) /\ UploadInv(u)
  BY DEF CommitUpload, Holds, IInv
<1>2. new.doc = d /\ new.number = n /\ new.checksum = c /\ new.status = "parsed"
  OBVIOUS
<1> HIDE DEF new
<1>3. /\ IsFiniteSet(S) /\ N \in Nat
      /\ \A v \in S : v.number \in 1 .. N /\ VersionAt(d, v.number) = v
      /\ \A k \in 1 .. N : VersionAt(d, k) \in S /\ VersionAt(d, k).number = k
      /\ History[d] \in Seq(Contents) /\ Len(History[d]) = N
      /\ \A k \in 1 .. N : History[d][k] = VersionAt(d, k).checksum
  BY HistoryShape DEF IInv
<1>4. /\ \A v \in S : v.number # n
      /\ n = 1 \/ \E v \in S : v.number = n - 1 /\ v.checksum # c
  BY <1>1 DEF IInv, KeysInv, NumberTaken, Holds, UploadInv, HasPredecessor, VersionsOf
<1>5. n = N + 1
  BY SMTT(30), <1>3, <1>4
<1>6. S' = S \union {new} /\ new \notin S
  BY <1>1, <1>2, <1>4 DEF VersionsOf, CommitUpload
<1>7. Cardinality(S') = N + 1
  <2>1. Cardinality(S \union {new}) = N + 1
    <3> HIDE DEF S
    <3> QED
      BY <1>3, <1>6, FS_AddElement
  <2> QED
    BY <1>6, <2>1
<1>8. History[d] # <<>> => History[d][Len(History[d])] # c
  BY <1>3, <1>4, <1>5
<1>9. History' = [History EXCEPT ![d] = Append(@, c)]
  <2>1. \A e \in Uploads : e # d => History'[e] = History[e]
    <3> SUFFICES ASSUME NEW e \in Uploads, e # d
                 PROVE  History'[e] = History[e]
      OBVIOUS
    <3>1. VersionsOf(e)' = VersionsOf(e)
      BY <1>1, <1>2 DEF VersionsOf
    <3> QED
      BY <3>1 DEF History, VersionAt
  <2>2. History'[d] = Append(History[d], c)
    <3>1. ASSUME NEW k \in 1 .. N
          PROVE  VersionAt(d, k)' = VersionAt(d, k)
      <4>1. VersionAt(d, k) \in S' /\ VersionAt(d, k).number = k
        BY <1>3, <1>6
      <4> QED
        BY <4>1, HistoryShapeNext DEF IInv
    <3>2. VersionAt(d, n)' = new
      <4>1. new \in S' /\ new.number = n
        BY <1>2, <1>5, <1>6
      <4> QED
        BY <4>1, HistoryShapeNext DEF IInv
    <3>3. History'[d] = [k \in 1 .. N + 1 |-> VersionAt(d, k)'.checksum]
      BY <1>7 DEF History
    <3>4. \A k \in 1 .. N + 1 :
             VersionAt(d, k)'.checksum = IF k = N + 1 THEN c ELSE History[d][k]
      BY <1>2, <1>3, <1>5, <3>1, <3>2
    <3> HIDE DEF S, N
    <3>5. Append(History[d], c) = [k \in 1 .. N + 1 |-> IF k = N + 1 THEN c
                                                       ELSE History[d][k]]
      BY <1>3
    <3> QED
      BY <3>3, <3>4, <3>5
  <2> QED
    BY <2>1, <2>2 DEF History
<1>10. IndexedVersions' = IndexedVersions
  BY <1>1, <1>2 DEF IndexedVersions
<1> QED
  BY <1>8, <1>9, <1>10 DEF Promise!Next, Promise!Record

\* An indexing adds its version to those that are indexed.
LEMMA RefinesCommitIndexing ==
    ASSUME IInv, IInv', NEW i \in Indexings, CommitIndexing(i)
    PROVE  Promise!Next
<1>0. versions' = {Indexed(i, v) : v \in versions} /\ IndexingInv(i) /\ pc[i] = "commit"
  BY DEF CommitIndexing, Indexed, IInv
<1>1. /\ \A v \in versions : Indexed(i, v) \in versions'
      /\ \A w \in versions' : \E v \in versions : w = Indexed(i, v)
  BY <1>0
<1>2. \A v \in versions : SameVersion(v, Indexed(i, v))
  BY IndexedIsSame DEF IInv
<1>3. PICK x \in versions : x.id = ix[i].version
  BY <1>0 DEF IndexingInv
<1>4. /\ \A v \in versions : v.id = ix[i].version => v = x
      /\ Indexed(i, x).status = "indexed"
      /\ \A v \in versions : v # x => Indexed(i, v) = v
  <2>1. \A v \in versions : v.id = ix[i].version => v = x
    BY <1>3 DEF IInv, VersionsInv
  <2>2. Indexed(i, x).status = "indexed"
    BY <1>3, IndexedIsSame DEF IInv
  <2>3. \A v \in versions : v # x => Indexed(i, v) = v
    BY <2>1 DEF Indexed
  <2> QED
    BY <2>1, <2>2, <2>3
<1>5. History' = History
  <2>1. \A v \in versions : \E w \in versions' : SameVersion(v, w)
    BY <1>1, <1>2
  <2>2. \A w \in versions' : \E v \in versions : SameVersion(v, w)
    BY <1>1, <1>2
  <2> QED
    BY <2>1, <2>2, HistoryKept
<1> DEFINE d == x.doc
           n == x.number
<1>6. d \in Uploads /\ x \in VersionsOf(d)
  BY DEF IInv, TablesOK, VersionsOf
<1>7. n \in 1 .. Len(History[d])
  BY <1>6, HistoryShape DEF IInv
<1>8. Indexed(i, x).doc = d /\ Indexed(i, x).number = n
  BY <1>2 DEF SameVersion
<1>9. IndexedVersions' = IndexedVersions \union {<<d, n>>}
  <2>1. ASSUME NEW p \in IndexedVersions'
        PROVE  p \in IndexedVersions \union {<<d, n>>}
    <3>1. PICK w \in versions' : w.status = "indexed" /\ p = <<w.doc, w.number>>
      BY DEF IndexedVersions
    <3>2. PICK v \in versions : w = Indexed(i, v)
      BY <1>1
    <3>3. CASE v = x
      BY <1>8, <3>1, <3>2, <3>3
    <3>4. CASE v # x
      <4>1. w = v
        BY <1>4, <3>2, <3>4
      <4> QED
        BY <3>1, <4>1 DEF IndexedVersions
    <3> QED
      BY <3>3, <3>4
  <2>2. <<d, n>> \in IndexedVersions'
    BY <1>1, <1>4, <1>8 DEF IndexedVersions
  <2>3. ASSUME NEW v \in versions, v.status = "indexed"
        PROVE  <<v.doc, v.number>> \in IndexedVersions'
    <3>1. CASE v = x
      BY <2>2, <3>1
    <3>2. CASE v # x
      <4>1. v \in versions'
        BY <1>1, <1>4, <3>2
      <4> QED
        BY <2>3, <4>1 DEF IndexedVersions
    <3> QED
      BY <3>1, <3>2
  <2>4. IndexedVersions \subseteq IndexedVersions'
    BY <2>3 DEF IndexedVersions
  <2> QED
    BY <2>1, <2>2, <2>4
<1> HIDE DEF d, n
<1> QED
  BY <1>5, <1>6, <1>7, <1>9 DEF Promise!Next, Promise!Index

LEMMA RefinesStep ==
    IInv /\ IInv' /\ [Next]_vars => [Promise!Next]_<<History, IndexedVersions>>
<1> SUFFICES ASSUME IInv, IInv', [Next]_vars
             PROVE  Promise!Next \/ UNCHANGED <<History, IndexedVersions>>
  OBVIOUS
<1>1. CASE versions' = versions
  BY <1>1 DEF History, IndexedVersions, VersionsOf, VersionAt
<1>2. ASSUME NEW u \in Uploads, CommitUpload(u)
      PROVE  Promise!Next \/ versions' = versions
  <2>1. CASE up[u].writes
    <3>1. /\ up[u].doc \in Uploads /\ up[u].number \in Nat
          /\ up[u].content \in Contents
      BY <1>2, CardinalityOfUploads
         DEF CommitUpload, IInv, TablesOK, UploadRecords, UploadInv
    <3> QED
      BY <1>2, <2>1, <3>1, RefinesCommitUpload
  <2>2. CASE ~ up[u].writes
    BY <1>2, <2>2 DEF CommitUpload
  <2> QED
    BY <2>1, <2>2
<1>3. ASSUME NEW i \in Indexings, CommitIndexing(i)
      PROVE  Promise!Next
  BY <1>3, RefinesCommitIndexing
<1>4. \/ versions' = versions
      \/ \E u \in Uploads : CommitUpload(u)
      \/ \E i \in Indexings : CommitIndexing(i)
  BY DEF Next, vars, tables, UploadStep, IndexingStep, Abort, FindDocument,
     ReadLatest, Save, UpdateDocument, InsertVersion, PickVersion, LoadAndChunk,
     UpdateVersion, InsertChunks, ResolveParents
<1> QED
  BY <1>1, <1>2, <1>3, <1>4

\* The tables of any number of uploads and indexings move as VersionHistory
\* says: histories are append-only, neighbours differ, indexed stays indexed.
THEOREM HistoryImplemented == Spec => ImplementsHistory
<1>1. Init => Promise!Init
  BY RefinesInit
<1>2. IInv /\ IInv' /\ [Next]_vars => [Promise!Next]_<<History, IndexedVersions>>
  BY RefinesStep
<1> QED
  BY <1>1, <1>2, InvAlways, PTL
     DEF Spec, ImplementsHistory, Promise!Spec, Promise!historyVars

----------------------------------------------------------------------------
(* Bytes and checksums of uploads that overlap *)

Saved(w) == pc[w] \notin {"start", "latest", "save"}

\* The upload that made version v.
Made(w, v) ==
    /\ up[w].writes /\ up[w].doc = v.doc
    /\ up[w].number = v.number /\ up[w].content = v.checksum

\* The checksum of document d is that of its latest version, unless the upload
\* of that version had loaded it.
Current(d) ==
    \A v \in versions :
       /\ v.doc = d.id
       /\ \A w \in versions : w.doc = d.id => w.number <= v.number
       => \/ d.checksum = v.checksum
          \/ ~ up[v.id].fresh /\ up[v.id].loaded = v.checksum

\* Who saved the bytes that are stored.
Saver(k) ==
    \E w \in Uploads : /\ Saved(w) /\ up[w].writes
                       /\ <<up[w].doc, up[w].number>> = k
                       /\ up[w].content = objects[k]

\* Where stored bytes and the columns of the tables come from.
StoredInv ==
    /\ \A v \in versions : Made(v.id, v)
    /\ \A u \in Uploads :
          pc[u] = "done" /\ up[u].writes => \E v \in versions : v.id = u
    /\ \A u \in Uploads :
          pc[u] \in {"update", "insert", "commit", "done"} /\ up[u].writes =>
             objects[<<up[u].doc, up[u].number>>] # NoContent
    /\ \A k \in Keys : objects[k] = NoContent \/ Saver(k)
    /\ \A d \in docs : pc[d.id] = "done"
    /\ \A d, e \in docs : d.id = e.id => d = e
    /\ \A v \in versions : \E d \in docs : d.id = v.doc
    /\ \A d \in docs : Current(d)

LEMMA StoredInit == Init => StoredInv
  BY DEF Init, StoredInv, Requests

\* A step of upload u that commits nothing.
LEMMA QuietStored ==
    ASSUME IInv, StoredInv, NEW u \in Uploads, NEW label, Goto(u, label),
           pc[u] # "done", label # "done",
           UNCHANGED <<docs, versions>>,
           \A w \in Uploads : w # u => up'[w] = up[w],
           Saved(u) => up'[u] = up[u] /\ label \notin {"start", "latest", "save"},
           label \in {"update", "insert", "commit"} /\ up'[u].writes =>
              objects'[<<up'[u].doc, up'[u].number>>] # NoContent,
           \A k \in Keys :
              \/ objects'[k] = objects[k]
              \/ objects'[k] # NoContent /\ Saver(k)'
    PROVE  StoredInv'
<1>1. /\ TablesOK /\ VersionsInv /\ u \in Requests /\ pc'[u] = label
      /\ \A r \in Requests : r # u => pc'[r] = pc[r]
  BY DEF IInv, TablesOK, Requests, Goto
<1>2. \A v \in versions : v.id \in Uploads /\ v.id # u
  BY <1>1 DEF VersionsInv, TablesOK
<1>3. \A d \in docs : d.id \in Requests /\ d.id # u
  BY <1>1 DEF StoredInv, TablesOK, Requests
<1>4. \A v \in versions : Made(v.id, v)'
  BY <1>2 DEF StoredInv, Made
<1>5. \A w \in Uploads : w \in Requests
  BY DEF Requests
<1>6. \A w \in Uploads : w # u => pc'[w] = pc[w] /\ up'[w] = up[w]
  BY <1>1, <1>5
<1>7. ASSUME NEW w \in Uploads,
             pc'[w] \in {"update", "insert", "commit", "done"} /\ up'[w].writes
      PROVE  objects'[<<up'[w].doc, up'[w].number>>] # NoContent
  <2>1. CASE w = u
    BY <1>1, <1>7, <2>1
  <2>2. CASE w # u
    <3> DEFINE k == <<up[w].doc, up[w].number>>
    <3>1. objects[k] # NoContent
      BY <1>6, <1>7, <2>2 DEF StoredInv
    <3>2. k \in Keys
      <4>1. UploadInv(w) /\ pc[w] \in {"update", "insert", "commit", "done"}
        BY <1>6, <1>7, <2>2 DEF IInv
      <4>2. up[w].doc \in Uploads /\ up[w].number \in 0 .. Cardinality(Uploads)
        BY <1>1, <4>1 DEF TablesOK, UploadRecords, UploadInv
      <4>3. up[w].number >= 1
        <5>1. CASE pc[w] = "done"
          <6>1. PICK v \in versions : v.number = up[w].number
            BY <4>1, <5>1 DEF UploadInv, HasVersion
          <6> QED
            BY <1>1, <6>1 DEF TablesOK
        <5> QED
          BY <4>1, <5>1 DEF UploadInv
      <4> QED
        BY <4>2, <4>3, CardinalityOfUploads DEF Keys
    <3> QED
      BY <1>6, <2>2, <3>1, <3>2
  <2> QED
    BY <2>1, <2>2
<1>8. ASSUME NEW k \in Keys
      PROVE  objects'[k] = NoContent \/ Saver(k)'
  <2>1. CASE objects'[k] = objects[k] /\ objects[k] # NoContent
    <3>1. PICK w \in Uploads : /\ Saved(w) /\ up[w].writes
                               /\ <<up[w].doc, up[w].number>> = k
                               /\ up[w].content = objects[k]
      BY <2>1 DEF StoredInv, Saver
    <3>2. up'[w] = up[w] /\ Saved(w)'
      BY <1>1, <1>6, <3>1 DEF Saved
    <3> QED
      BY <2>1, <3>1, <3>2 DEF Saver
  <2> QED
    BY <2>1
<1>9. \A w \in Uploads : pc'[w] = "done" /\ up'[w].writes => \E v \in versions : v.id = w
  BY <1>1, <1>6 DEF StoredInv
<1>10. \A d \in docs : Current(d)'
  BY <1>2 DEF StoredInv, Current
<1>11. \A d \in docs : pc'[d.id] = "done"
  BY <1>1, <1>3 DEF StoredInv
<1> QED
  BY <1>4, <1>7, <1>8, <1>9, <1>10, <1>11 DEF StoredInv

LEMMA StoredUploadStep ==
    ASSUME IInv, StoredInv, NEW u \in Uploads,
           \/ FindDocument(u) \/ ReadLatest(u) \/ Save(u)
           \/ UpdateDocument(u) \/ InsertVersion(u) \/ Abort(u)
    PROVE  StoredInv'
<1>1. TablesOK /\ UploadInv(u) /\ up[u] \in UploadRecords
  BY DEF IInv, TablesOK
<1>2. CASE FindDocument(u)
  <2>1. /\ pc[u] = "start" /\ UNCHANGED <<docs, versions, objects>>
        /\ Goto(u, "save") \/ Goto(u, "latest")
        /\ \A w \in Uploads : w # u => up'[w] = up[w]
    BY <1>1, <1>2 DEF FindDocument, tables, TablesOK
  <2> QED
    BY <2>1, QuietStored DEF Saved
<1>3. CASE ReadLatest(u)
  <2>1. /\ pc[u] = "latest" /\ UNCHANGED <<docs, versions, objects>>
        /\ Goto(u, "save") \/ (Goto(u, "update") /\ ~ up'[u].writes)
        /\ \A w \in Uploads : w # u => up'[w] = up[w]
    BY <1>1, <1>3 DEF ReadLatest, tables, TablesOK, UploadRecords
  <2> QED
    BY <2>1, QuietStored DEF Saved
<1>4. CASE Save(u)
  <2> DEFINE key == <<up[u].doc, up[u].number>>
  <2>1. /\ pc[u] = "save" /\ Goto(u, "update") /\ UNCHANGED <<docs, versions, up>>
        /\ objects' = [objects EXCEPT ![key] = up[u].content]
    BY <1>4 DEF Save, tables
  <2>2. /\ up[u].doc \in Uploads /\ up[u].writes
        /\ up[u].number \in 1 .. Cardinality(Uploads)
    BY <1>1, <2>1, CardinalityOfUploads DEF UploadInv, UploadRecords
  <2>3. key \in Keys
    BY <2>2 DEF Keys
  <2>4. up[u].content \in Contents /\ up[u].content # NoContent
    BY <1>1, NoneIsNoValue DEF UploadRecords
  <2>5. /\ objects'[key] = up[u].content
        /\ \A k \in Keys : k # key => objects'[k] = objects[k]
    BY <1>1, <2>1, <2>3 DEF TablesOK
  <2>6. pc'[u] = "update"
    BY <1>1, <2>1 DEF TablesOK, Goto, Requests
  <2>8. ASSUME NEW k \in Keys
        PROVE  \/ objects'[k] = objects[k]
               \/ objects'[k] # NoContent /\ Saver(k)'
    <3>1. CASE k = key
      <4>1. Saver(k)'
        BY <2>1, <2>2, <2>5, <2>6, <3>1 DEF Saver, Saved
      <4> QED
        BY <2>4, <2>5, <3>1, <4>1
    <3> QED
      BY <2>5, <3>1
  <2> QED
    BY <2>1, <2>4, <2>5, <2>8, QuietStored DEF Saved
<1>5. CASE UpdateDocument(u) \/ InsertVersion(u) \/ Abort(u)
  <2>1. /\ UNCHANGED <<docs, versions, objects, up>>
        /\ pc[u] # "done"
        /\ \/ /\ pc[u] \in {"update", "insert"}
              /\ Goto(u, "insert") \/ Goto(u, "commit") \/ Goto(u, "conflict")
           \/ Goto(u, "failed")
    BY <1>5 DEF UpdateDocument, InsertVersion, Abort, tables, Settled
  <2>2. pc[u] \in {"update", "insert"} /\ up[u].writes =>
           objects[<<up[u].doc, up[u].number>>] # NoContent
    BY DEF StoredInv
  <2> QED
    BY <2>1, <2>2, QuietStored DEF Saved
<1> QED
  BY <1>2, <1>3, <1>4, <1>5

\* A number that is not taken is above all that are committed.
LEMMA NewestNumber ==
    ASSUME IInv, NEW u \in Uploads, Holds(u)
    PROVE  \A v \in versions : v.doc = up[u].doc => v.number < up[u].number
<1> SUFFICES ASSUME NEW v \in versions, v.doc = up[u].doc
             PROVE  v.number < up[u].number
  OBVIOUS
<1>1. /\ ~ NumberTaken(u) /\ UploadInv(u) /\ pc[u] = "commit"
      /\ up[u].number \in Nat /\ v.number \in Nat
  BY CardinalityOfUploads DEF IInv, KeysInv, Holds, TablesOK, UploadRecords
<1>2. up[u].number >= 1
  BY <1>1 DEF UploadInv
<1>3. ASSUME up[u].number <= v.number
      PROVE  FALSE
  <2>1. up[u].number \in 1 .. v.number
    BY <1>1, <1>2, <1>3
  <2>2. PICK w \in versions : w.doc = v.doc /\ w.number = up[u].number
    BY <2>1 DEF IInv, VersionsInv
  <2> QED
    BY <1>1, <2>2 DEF NumberTaken, VersionsOf
<1> QED
  BY <1>1, <1>3

\* A new version is the latest of its document; the checksum of the document is
\* written with it unless it was loaded with that value.
LEMMA StoredCommitUpload ==
    ASSUME IInv, StoredInv, NEW u \in Uploads, CommitUpload(u)
    PROVE  StoredInv'
<1> DEFINE d == up[u].doc
           new == [id |-> u, doc |-> d, number |-> up[u].number,
                   checksum |-> up[u].content, status |-> "parsed",
                   config |-> NoConfig]
           row == [id |-> u, name |-> up[u].name, checksum |-> up[u].content]
           revised(e) == IF e.id = d /\ ChangesChecksum(u)
                         THEN [e EXCEPT !.checksum = up[u].content] ELSE e
<1>1. /\ pc[u] = "commit" /\ Goto(u, "done") /\ u \in Requests
      /\ UNCHANGED <<objects, up>> /\ UploadInv(u) /\ TablesOK /\ VersionsInv
  BY DEF CommitUpload, IInv, Requests
<1>2. /\ pc'[u] = "done" /\ \A r \in Requests : r # u => pc'[r] = pc[r]
  BY <1>1 DEF TablesOK, Goto
<1>3. /\ \A w \in Uploads : w \in Requests
      /\ \A v \in versions : v.id \in Requests /\ v.id # u
      /\ \A e \in docs : e.id \in Requests /\ e.id # u
  BY <1>1 DEF StoredInv, VersionsInv, TablesOK, Requests
<1>4. \A k \in Keys : objects'[k] = NoContent \/ Saver(k)'
  <2>1. \A w \in Uploads : Saved(w) => Saved(w)'
    BY <1>1, <1>2, <1>3 DEF Saved
  <2> QED
    BY <1>1, <2>1 DEF StoredInv, Saver
<1>5. ASSUME NEW w \in Uploads,
             pc'[w] \in {"update", "insert", "commit", "done"} /\ up'[w].writes
      PROVE  objects'[<<up'[w].doc, up'[w].number>>] # NoContent
  <2>1. pc[w] \in {"update", "insert", "commit", "done"} /\ up[w].writes
    BY <1>1, <1>2, <1>3, <1>5
  <2> QED
    BY <1>1, <2>1 DEF StoredInv
<1>6. CASE ~ up[u].writes
  <2>1. UNCHANGED <<docs, versions>>
    BY <1>6 DEF CommitUpload
  <2>2. \A v \in versions : Made(v.id, v)'
    BY <1>1 DEF StoredInv, Made
  <2>3. \A w \in Uploads : pc'[w] = "done" /\ up'[w].writes => \E v \in versions : v.id = w
    BY <1>1, <1>2, <1>3, <1>6 DEF StoredInv
  <2>4. \A e \in docs : Current(e)' /\ pc'[e.id] = "done"
    BY <1>1, <1>2, <1>3, <2>1 DEF StoredInv, Current
  <2> QED
    BY <1>4, <1>5, <2>1, <2>2, <2>3, <2>4 DEF StoredInv
<1>7. CASE up[u].writes
  <2>1. versions' = versions \union {new}
    BY <1>7 DEF CommitUpload
  <2>2. docs' = IF up[u].fresh THEN docs \union {row} ELSE {revised(e) : e \in docs}
    BY <1>7 DEF CommitUpload
  <2>3. /\ new.id = u /\ new.doc = d /\ new.number = up[u].number
        /\ new.checksum = up[u].content
        /\ row.id = u /\ row.checksum = up[u].content
    OBVIOUS
  <2>4. \A e \in docs :
           /\ revised(e).id = e.id
           /\ e.id # d => revised(e) = e
           /\ e.id = d => \/ revised(e).checksum = up[u].content
                          \/ up[u].loaded = up[u].content \/ up[u].fresh
    <3>1. \A e \in docs : e \in [id : Uploads, name : Filenames, checksum : Contents]
      BY <1>1 DEF TablesOK
    <3> QED
      BY <1>7, <3>1 DEF ChangesChecksum
  <2> HIDE DEF new, row, revised
  <2>5. /\ d \in Uploads
        /\ up[u].fresh => d = u
        /\ up[u].number \in Nat /\ \A v \in versions : v.number \in Nat
        /\ \A v \in versions : v.doc = d => v.number < up[u].number
        /\ up[u].fresh \/ \E e \in docs : e.id = d
        /\ up[u].fresh \in BOOLEAN
    <3>1. Holds(u)
      BY <1>1, <1>7 DEF Holds
    <3> QED
      BY <1>1, <3>1, NewestNumber, CardinalityOfUploads
         DEF UploadInv, HasDocument, TablesOK, UploadRecords
  <2>6. \A v \in versions' : Made(v.id, v)'
    BY <1>1, <1>7, <2>1, <2>3 DEF StoredInv, Made
  <2>7. \A w \in Uploads : pc'[w] = "done" /\ up'[w].writes => \E v \in versions' : v.id = w
    BY <1>1, <1>2, <1>3, <2>1, <2>3 DEF StoredInv
  <2>8. \A f \in docs' : pc'[f.id] = "done"
    BY <1>2, <1>3, <2>2, <2>3, <2>4 DEF StoredInv
  <2>9. \A e, f \in docs' : e.id = f.id => e = f
    <3>1. CASE up[u].fresh
      BY <1>3, <2>2, <2>3, <3>1 DEF StoredInv
    <3>2. CASE ~ up[u].fresh
      BY <2>2, <2>4, <3>2 DEF StoredInv
    <3> QED
      BY <3>1, <3>2
  <2>10. \A v \in versions' : \E f \in docs' : f.id = v.doc
    <3>1. CASE up[u].fresh
      BY <2>1, <2>2, <2>3, <2>5, <3>1 DEF StoredInv
    <3>2. CASE ~ up[u].fresh
      BY <2>1, <2>2, <2>3, <2>4, <2>5, <3>2 DEF StoredInv
    <3> QED
      BY <3>1, <3>2
  <2>11. ASSUME NEW f \in docs'
         PROVE  Current(f)'
    <3>1. CASE f.id = d
      <4>1. f.checksum = up[u].content \/ (~ up[u].fresh /\ up[u].loaded = up[u].content)
        <5>1. CASE up[u].fresh
          BY <1>3, <2>2, <2>3, <2>5, <3>1, <5>1
        <5>2. CASE ~ up[u].fresh
          BY <2>2, <2>4, <3>1, <5>2
        <5> QED
          BY <5>1, <5>2
      <4>2. ASSUME NEW v \in versions', v.doc = d,
                   \A w \in versions' : w.doc = d => w.number <= v.number
            PROVE  v = new
        <5>1. up[u].number <= v.number
          BY <2>1, <2>3, <4>2
        <5> QED
          BY <2>1, <2>5, <4>2, <5>1
      <4> QED
        BY <1>1, <2>3, <3>1, <4>1, <4>2 DEF Current
    <3>2. CASE f.id # d
      <4>1. f \in docs
        BY <2>2, <2>3, <2>4, <2>5, <3>2
      <4>2. \A v : v.doc = f.id => (v \in versions' <=> v \in versions)
        BY <2>1, <2>3, <3>2
      <4>3. Current(f)
        BY <4>1 DEF StoredInv
      <4> QED
        BY <1>1, <4>2, <4>3 DEF Current
    <3> QED
      BY <3>1, <3>2
  <2> QED
    BY <1>4, <1>5, <2>6, <2>7, <2>8, <2>9, <2>10, <2>11 DEF StoredInv
<1> QED
  BY <1>6, <1>7 DEF IInv, TablesOK, UploadRecords

\* Indexings, and steps that change nothing, leave it as it is.
LEMMA StoredKept ==
    ASSUME StoredInv, UNCHANGED <<docs, objects, up>>,
           \A u \in Uploads : pc'[u] = pc[u], \A d \in docs : d.id \in Uploads,
           \A v \in versions : \E w \in versions' : SameVersion(v, w),
           \A w \in versions' : \E v \in versions : SameVersion(v, w)
    PROVE  StoredInv'
<1>1. \A v \in versions' : Made(v.id, v)'
  BY DEF StoredInv, Made, SameVersion
<1>2. \A u \in Uploads :
         pc'[u] = "done" /\ up'[u].writes => \E v \in versions' : v.id = u
  BY DEF StoredInv, SameVersion
<1>3. \A k \in Keys : objects'[k] = NoContent \/ Saver(k)'
  BY DEF StoredInv, Saver, Saved
<1>4. \A v \in versions' : \E d \in docs' : d.id = v.doc
  BY DEF StoredInv, SameVersion
<1>5. ASSUME NEW d \in docs'
      PROVE  Current(d)'
  <2> SUFFICES ASSUME NEW w \in versions', w.doc = d.id,
                      \A x \in versions' : x.doc = d.id => x.number <= w.number
               PROVE  \/ d.checksum = w.checksum
                      \/ ~ up[w.id].fresh /\ up[w.id].loaded = w.checksum
    BY DEF Current
  <2>1. PICK v \in versions : SameVersion(v, w)
    OBVIOUS
  <2>2. ASSUME NEW y \in versions, y.doc = d.id
        PROVE  y.number <= v.number
    <3>1. PICK x \in versions' : SameVersion(y, x)
      OBVIOUS
    <3> QED
      BY <2>1, <2>2, <3>1 DEF SameVersion
  <2> QED
    BY <2>1, <2>2 DEF StoredInv, Current, SameVersion
<1> QED
  BY <1>1, <1>2, <1>3, <1>4, <1>5 DEF StoredInv

\* What indexings do to the tables of documents and versions.
LEMMA IndexingsAreApart ==
    ASSUME IInv, NEW i \in Indexings, IndexingStep(i) \/ Abort(i)
    PROVE  /\ UNCHANGED <<docs, objects, up>> /\ \A d \in docs : d.id \in Uploads
           /\ \A u \in Uploads : pc'[u] = pc[u]
           /\ \A v \in versions : \E w \in versions' : SameVersion(v, w)
           /\ \A w \in versions' : \E v \in versions : SameVersion(v, w)
<1>1. /\ UNCHANGED <<docs, objects, up>> /\ TablesOK /\ i \in Requests /\ i \notin Uploads
      /\ \A d \in docs : d.id \in Uploads
  BY RequestsAreDisjoint DEF IInv, TablesOK, IndexingStep, PickVersion, LoadAndChunk,
     UpdateVersion, InsertChunks, ResolveParents, CommitIndexing, Abort, tables, Requests
<1>2. \A u \in Uploads : pc'[u] = pc[u]
  BY <1>1 DEF IndexingStep, PickVersion, LoadAndChunk, UpdateVersion, InsertChunks,
     ResolveParents, CommitIndexing, Abort, Goto, TablesOK, Requests
<1>3. /\ \A v \in versions : \E w \in versions' : SameVersion(v, w)
      /\ \A w \in versions' : \E v \in versions : SameVersion(v, w)
  <2>1. CASE versions' = versions
    BY <2>1 DEF SameVersion
  <2>2. CASE CommitIndexing(i)
    <3>1. versions' = {Indexed(i, v) : v \in versions}
      BY <2>2 DEF CommitIndexing, Indexed
    <3>2. \A v \in versions : SameVersion(v, Indexed(i, v))
      BY <1>1, IndexedIsSame
    <3> QED
      BY <3>1, <3>2
  <2> QED
    BY <2>1, <2>2 DEF IndexingStep, PickVersion, LoadAndChunk,
       UpdateVersion, InsertChunks, ResolveParents, Abort, tables
<1> QED
  BY <1>1, <1>2, <1>3

LEMMA StoredStep == IInv /\ StoredInv /\ [Next]_vars => StoredInv'
<1> SUFFICES ASSUME IInv, StoredInv, [Next]_vars
             PROVE  StoredInv'
  OBVIOUS
<1>1. CASE \E u \in Uploads : UploadStep(u)
  BY <1>1, StoredUploadStep, StoredCommitUpload DEF UploadStep
<1>2. CASE \E i \in Indexings : IndexingStep(i)
  BY <1>2, IndexingsAreApart, StoredKept
<1>3. CASE \E r \in Requests : Abort(r)
  BY <1>3, StoredUploadStep, IndexingsAreApart, StoredKept DEF Requests
<1>4. CASE UNCHANGED vars
  <2> USE <1>4 DEF vars
  <2>1. \A d \in docs : d.id \in Uploads
    BY DEF IInv, TablesOK
  <2> QED
    BY <2>1, StoredKept DEF SameVersion
<1> QED
  BY <1>1, <1>2, <1>3, <1>4 DEF Next

LEMMA StoredAlways == Spec => [](IInv /\ StoredInv)
<1>1. Init => IInv /\ StoredInv
  BY InvInit, StoredInit
<1>2. IInv /\ StoredInv /\ [Next]_vars => (IInv /\ StoredInv)'
  BY InvStep, StoredStep
<1> QED
  BY <1>1, <1>2, PTL DEF Spec

\* However uploads overlap, one that is answered with success has its document
\* and its version in the tables, and the version's bytes in the store unless an
\* upload that lost the race for its number saved later (POST /documents).
THEOREM DoneAlwaysStored == Spec => []DoneMeansStored
<1>1. IInv /\ StoredInv => DoneMeansStored
  <2> SUFFICES ASSUME IInv, StoredInv, NEW u \in Uploads, pc[u] = "done"
               PROVE  /\ \E d \in docs : d.id = up[u].doc /\ d.name = up[u].name
                      /\ \E v \in VersionsOf(up[u].doc) :
                            v.number = up[u].number /\ v.checksum = up[u].content
                      /\ \/ objects[<<up[u].doc, up[u].number>>] = up[u].content
                         \/ Overwritten(u)
    BY DEF DoneMeansStored
  <2> DEFINE key == <<up[u].doc, up[u].number>>
  <2>1. HasDocument(u) /\ HasVersion(u)
    BY DEF IInv, UploadInv
  <2>2. PICK v \in versions : /\ v.doc = up[u].doc /\ v.number = up[u].number
                              /\ v.checksum = up[u].content
    BY <2>1 DEF HasVersion
  <2>3. Made(v.id, v) /\ v.id \in Uploads /\ pc[v.id] = "done" /\ key \in Keys
    BY <2>2 DEF IInv, StoredInv, VersionsInv, TablesOK, Keys
  <2>4. objects[key] # NoContent
    BY <2>2, <2>3 DEF StoredInv, Made
  <2>5. PICK w \in Uploads : /\ up[w].writes /\ up[w].content = objects[key]
                             /\ up[w].doc = up[u].doc
                             /\ up[w].number = up[u].number
    BY <2>3, <2>4 DEF StoredInv, Saver
  <2>6. ASSUME pc[w] # "done"
        PROVE  Overwritten(u)
    BY <2>5, <2>6 DEF Overwritten
  <2>7. ASSUME pc[w] = "done"
        PROVE  objects[key] = up[u].content
    <3>1. PICK x \in versions : x.id = w
      BY <2>5, <2>7 DEF StoredInv
    <3>2. Made(w, x)
      BY <3>1 DEF StoredInv
    <3>3. x.doc = v.doc /\ x.number = v.number
      BY <2>2, <2>5, <3>2 DEF Made
    <3>4. x = v
      BY <3>3 DEF IInv, VersionsInv, HistoryContiguous
    <3> QED
      BY <2>2, <2>5, <3>2, <3>4 DEF Made
  <2> QED
    BY <2>1, <2>2, <2>6, <2>7 DEF HasDocument, VersionsOf
<1> QED
  BY <1>1, StoredAlways, PTL

\* However uploads overlap, a document has the checksum of its latest version,
\* but for the one interleaving ChecksumsAreCurrent names (document.checksum).
THEOREM ChecksumsAlwaysCurrent == Spec => []ChecksumsAreCurrent
<1>1. IInv /\ StoredInv => ChecksumsAreCurrent
  <2> SUFFICES ASSUME IInv, StoredInv, NEW d \in docs
               PROVE  /\ VersionsOf(d.id) # {}
                      /\ LET latest == LatestVersion(d.id)
                         IN  \/ d.checksum = latest.checksum
                             \/ /\ ~ up[latest.id].fresh
                                /\ up[latest.id].loaded = latest.checksum
    BY DEF ChecksumsAreCurrent
  <2>1. d.id \in Uploads /\ VersionsOf(d.id) # {}
    BY DEF IInv, TablesOK, VersionsInv, VersionsOf
  <2>2. /\ LatestVersion(d.id) \in versions /\ LatestVersion(d.id).doc = d.id
        /\ \A w \in versions : w.doc = d.id => w.number <= LatestVersion(d.id).number
    BY <2>1, LatestIsThere DEF IInv
  <2>3. Current(d)
    BY DEF StoredInv
  <2> QED
    BY <2>1, <2>2, <2>3 DEF Current
<1> QED
  BY <1>1, StoredAlways, PTL

----------------------------------------------------------------------------
(* Uploads that do not overlap *)

\* What the one upload under way has read stays true until it settles.
AloneInv(u) ==
    /\ up[u].fresh => \A d \in docs : d.name # up[u].name
    /\ pc[u] \in {"save", "update", "insert", "commit"} /\ up[u].writes =>
          \A v \in versions : v.doc = up[u].doc => v.number < up[u].number
    /\ pc[u] \in {"update", "insert", "commit"} /\ up[u].writes =>
          objects[<<up[u].doc, up[u].number>>] = up[u].content

\* Uploads one at a time, their documents and what is stored for them.
SerialInv ==
    /\ \A u, w \in Uploads : Active(u) /\ Active(w) => u = w
    /\ \A u \in Uploads : Active(u) => AloneInv(u)
    /\ \A d \in docs : pc[d.id] = "done"
    /\ \A d, e \in docs : d.id = e.id \/ d.name = e.name => d = e
    /\ \A v \in versions : \E d \in docs : d.id = v.doc
    /\ BytesMatch

LEMMA SerialInit == Init => SerialInv
  BY DEF Init, SerialInv, BytesMatch, Active, Requests

\* A step of upload u, which is alone, that leaves the tables alone.
LEMMA QuietSerial ==
    ASSUME IInv, SerialInv, NEW u \in Uploads, NEW label \in Labels,
           Goto(u, label), pc[u] # "done", label # "start",
           UNCHANGED <<docs, versions>>,
           \A w \in Uploads : w # u => up'[w] = up[w] /\ ~ Active(w),
           \A v \in versions :
              objects'[<<v.doc, v.number>>] = objects[<<v.doc, v.number>>],
           label \notin Settled => AloneInv(u)'
    PROVE  SerialInv'
<1>1. /\ u \in Requests /\ pc'[u] = label
      /\ \A r \in Requests : r # u => pc'[r] = pc[r]
  BY DEF IInv, TablesOK, Requests, Goto
<1>2. \A w \in Uploads : Active(w)' => w = u /\ label \notin Settled
  BY <1>1 DEF Active, Requests
<1>3. \A d \in docs : d.id # u /\ d.id \in Requests
  BY DEF SerialInv, IInv, TablesOK, Requests
<1> QED
  BY <1>1, <1>2, <1>3 DEF SerialInv, BytesMatch

LEMMA SerialFindDocument ==
    ASSUME serial, IInv, SerialInv, NEW u \in Uploads, FindDocument(u)
    PROVE  SerialInv'
<1>1. /\ TablesOK /\ UploadInv(u) /\ pc[u] = "start" /\ up[u] \in UploadRecords
      /\ UNCHANGED <<docs, versions, objects>> /\ {"save", "latest"} \subseteq Labels
  BY DEF IInv, TablesOK, FindDocument, tables, Labels
<1>2. \A w \in Uploads : ~ Active(w)
  BY DEF FindDocument
<1>3. CASE /\ {d \in docs : d.name = up[u].name} = {}
           /\ up' = [up EXCEPT ![u].doc = u, ![u].fresh = TRUE,
                               ![u].number = 1, ![u].writes = TRUE]
           /\ Goto(u, "save")
  <2>1. /\ up'[u].doc = u /\ up'[u].fresh /\ up'[u].number = 1
        /\ up'[u].name = up[u].name /\ pc'[u] = "save"
        /\ \A w \in Uploads : w # u => up'[w] = up[w]
    BY <1>1, <1>3 DEF TablesOK, UploadRecords, Goto, Requests
  <2>2. \A v \in versions : v.doc # u
    BY <1>1 DEF SerialInv
  <2>3. AloneInv(u)'
    BY <1>1, <1>3, <2>1, <2>2 DEF AloneInv
  <2> QED
    BY <1>1, <1>2, <1>3, <2>1, <2>3, QuietSerial
<1>4. ASSUME NEW d \in docs,
             up' = [up EXCEPT ![u].doc = d.id, ![u].writes = TRUE,
                              ![u].loaded = d.checksum],
             Goto(u, "latest")
      PROVE  SerialInv'
  <2>1. /\ up'[u].doc = d.id /\ up'[u].loaded = d.checksum /\ ~ up'[u].fresh
        /\ pc'[u] = "latest" /\ \A w \in Uploads : w # u => up'[w] = up[w]
    BY <1>1, <1>4 DEF TablesOK, UploadRecords, UploadInv, Goto, Requests
  <2>2. AloneInv(u)'
    BY <1>1, <2>1 DEF AloneInv, SerialInv
  <2> QED
    BY <1>1, <1>2, <1>4, <2>1, <2>2, QuietSerial
<1> QED
  BY <1>3, <1>4 DEF FindDocument

\* An upload under way is the only one.
LEMMA AloneOnes ==
    ASSUME SerialInv, NEW u \in Uploads, Active(u)
    PROVE  AloneInv(u) /\ \A w \in Uploads : w # u => ~ Active(w)
  BY DEF SerialInv

LEMMA SerialReadLatest ==
    ASSUME IInv, SerialInv, NEW u \in Uploads, ReadLatest(u)
    PROVE  SerialInv'
<1> DEFINE d == up[u].doc
           latest == LatestVersion(d)
<1>1. /\ TablesOK /\ VersionsInv /\ UploadInv(u) /\ pc[u] = "latest"
      /\ up[u] \in UploadRecords
      /\ UNCHANGED <<docs, versions, objects>> /\ {"save", "update"} \subseteq Labels
  BY DEF IInv, TablesOK, ReadLatest, tables, Labels
<1>2. AloneInv(u) /\ \A w \in Uploads : w # u => ~ Active(w)
  BY <1>1, AloneOnes DEF Active, Settled
<1>3. d \in Uploads /\ ~ up[u].fresh /\ VersionsOf(d) # {}
  BY <1>1 DEF UploadInv, HasDocument, VersionsInv, VersionsOf
<1>4. /\ latest \in versions
      /\ \A w \in versions : w.doc = d => w.number <= latest.number
  BY <1>1, <1>3, LatestIsThere
<1>5. latest.number \in Nat /\ \A w \in versions : w.number \in Nat
  BY <1>1, <1>4, CardinalityOfUploads DEF TablesOK
<1> HIDE DEF latest
<1>6. CASE /\ up' = [up EXCEPT ![u].number = latest.number, ![u].writes = FALSE]
           /\ Goto(u, "update")
  <2>1. /\ up'[u].doc = d /\ up'[u].loaded = up[u].loaded /\ ~ up'[u].fresh
        /\ ~ up'[u].writes /\ \A w \in Uploads : w # u => up'[w] = up[w]
    BY <1>1, <1>3, <1>6 DEF TablesOK, UploadRecords
  <2>2. AloneInv(u)'
    BY <1>1, <1>2, <1>3, <2>1 DEF AloneInv
  <2> QED
    BY <1>1, <1>2, <1>6, <2>1, <2>2, QuietSerial
<1>7. CASE /\ up' = [up EXCEPT ![u].number = latest.number + 1]
           /\ Goto(u, "save")
  <2>1. /\ up'[u].doc = d /\ up'[u].loaded = up[u].loaded /\ ~ up'[u].fresh
        /\ up'[u].number = latest.number + 1 /\ pc'[u] = "save"
        /\ \A w \in Uploads : w # u => up'[w] = up[w]
    BY <1>1, <1>3, <1>7 DEF TablesOK, UploadRecords, Goto, Requests
  <2>2. \A v \in versions : v.doc = d => v.number < latest.number + 1
    BY <1>4, <1>5
  <2>3. AloneInv(u)'
    BY <1>1, <1>2, <1>3, <2>1, <2>2 DEF AloneInv
  <2> QED
    BY <1>1, <1>2, <1>7, <2>1, <2>3, QuietSerial
<1> QED
  BY <1>6, <1>7 DEF ReadLatest, latest

LEMMA SerialSave ==
    ASSUME IInv, SerialInv, NEW u \in Uploads, Save(u)
    PROVE  SerialInv'
<1> DEFINE key == <<up[u].doc, up[u].number>>
<1>1. /\ TablesOK /\ UploadInv(u) /\ pc[u] = "save" /\ Goto(u, "update")
      /\ objects' = [objects EXCEPT ![key] = up[u].content]
      /\ UNCHANGED <<docs, versions, up>> /\ "update" \in Labels
  BY DEF IInv, Save, tables, Labels
<1>2. AloneInv(u) /\ \A w \in Uploads : w # u => ~ Active(w)
  BY <1>1, AloneOnes DEF Active, Settled
<1>3. /\ up[u].doc \in Uploads /\ up[u].writes
      /\ up[u].number \in 1 .. Cardinality(Uploads)
      /\ \A v \in versions : v.number \in Nat
  BY <1>1, CardinalityOfUploads DEF UploadInv, TablesOK, UploadRecords
<1>4. key \in Keys
  BY <1>3 DEF Keys
<1>5. \A v \in versions : v.doc = up[u].doc => v.number < up[u].number
  BY <1>1, <1>2, <1>3 DEF AloneInv
<1>6. \A v \in versions : <<v.doc, v.number>> # key
  BY <1>3, <1>5
<1>7. /\ objects'[key] = up[u].content
      /\ \A v \in versions :
            objects'[<<v.doc, v.number>>] = objects[<<v.doc, v.number>>]
  BY <1>1, <1>4, <1>6 DEF TablesOK
<1>8. AloneInv(u)'
  BY <1>1, <1>2, <1>5, <1>7 DEF AloneInv
<1> QED
  BY <1>1, <1>2, <1>7, <1>8, QuietSerial

LEMMA SerialFlush ==
    ASSUME IInv, SerialInv, NEW u \in Uploads, UpdateDocument(u) \/ InsertVersion(u)
    PROVE  SerialInv'
<1>1. /\ TablesOK /\ UploadInv(u) /\ pc[u] \in {"update", "insert"}
      /\ UNCHANGED <<docs, versions, objects, up>>
      /\ {"conflict", "insert", "commit"} \subseteq Labels /\ "conflict" \in Settled
      /\ \/ Goto(u, "conflict") \/ Goto(u, "insert") \/ Goto(u, "commit")
  BY DEF IInv, UpdateDocument, InsertVersion, tables, Labels, Settled
<1>2. AloneInv(u) /\ \A w \in Uploads : w # u => ~ Active(w)
  BY <1>1, AloneOnes DEF Active, Settled
<1>3. AloneInv(u)'
  BY <1>1, <1>2 DEF AloneInv, UploadInv
<1> QED
  BY <1>1, <1>2, <1>3, QuietSerial

LEMMA SerialAbort ==
    ASSUME IInv, SerialInv, NEW u \in Uploads, Abort(u)
    PROVE  SerialInv'
<1>1. /\ pc[u] \notin Settled /\ Goto(u, "failed") /\ u \in Requests
      /\ UNCHANGED <<docs, versions, objects, up>>
      /\ "failed" \in Labels /\ "failed" \in Settled /\ "done" \in Settled
  BY DEF Abort, tables, Labels, Settled, Requests
<1>2. /\ pc'[u] = "failed" /\ \A r \in Requests : r # u => pc'[r] = pc[r]
  BY <1>1 DEF IInv, TablesOK, Goto
<1>3. \A w \in Uploads : Active(w)' => Active(w)
  BY <1>1, <1>2 DEF Active, Requests
<1>4. \A w \in Uploads : Active(w)' => AloneInv(w)'
  <2> SUFFICES ASSUME NEW w \in Uploads, Active(w)'
               PROVE  AloneInv(w)'
    OBVIOUS
  <2>1. w # u /\ pc'[w] = pc[w]
    BY <1>1, <1>2 DEF Active, Requests
  <2> QED
    BY <1>1, <1>3, <2>1 DEF SerialInv, AloneInv
<1>5. \A d \in docs : d.id \in Requests /\ d.id # u
  BY <1>1 DEF SerialInv, IInv, TablesOK, Requests
<1> QED
  BY <1>1, <1>2, <1>3, <1>4, <1>5 DEF SerialInv, BytesMatch

LEMMA SerialCommitUpload ==
    ASSUME IInv, SerialInv, NEW u \in Uploads, CommitUpload(u)
    PROVE  SerialInv'
<1> DEFINE d == up[u].doc
           new == [id |-> u, doc |-> d, number |-> up[u].number,
                   checksum |-> up[u].content, status |-> "parsed",
                   config |-> NoConfig]
           row == [id |-> u, name |-> up[u].name, checksum |-> up[u].content]
           revised(e) == IF e.id = d /\ ChangesChecksum(u)
                         THEN [e EXCEPT !.checksum = up[u].content] ELSE e
<1>1. /\ pc[u] = "commit" /\ Goto(u, "done") /\ u \in Requests
      /\ UNCHANGED <<objects, up>> /\ UploadInv(u) /\ TablesOK
      /\ "done" \in Labels /\ "done" \in Settled
  BY DEF CommitUpload, IInv, Requests, Labels, Settled
<1>2. AloneInv(u) /\ \A w \in Uploads : w # u => ~ Active(w)
  BY <1>1, AloneOnes DEF Active, Settled
<1>3. CASE ~ up[u].writes
  <2>1. UNCHANGED <<docs, versions>>
    BY <1>3 DEF CommitUpload
  <2> QED
    BY <1>1, <1>2, <2>1, QuietSerial
<1>4. CASE up[u].writes
  <2>1. /\ pc'[u] = "done" /\ \A r \in Requests : r # u => pc'[r] = pc[r]
    BY <1>1 DEF TablesOK, Goto
  <2>2. \A w \in Uploads : ~ Active(w)'
    BY <1>1, <1>2, <2>1 DEF Active, Requests
  <2>3. versions' = versions \union {new}
    BY <1>4 DEF CommitUpload
  <2>4. docs' = IF up[u].fresh THEN docs \union {row} ELSE {revised(e) : e \in docs}
    BY <1>4 DEF CommitUpload
  <2>5. /\ new.doc = d /\ new.number = up[u].number /\ new.checksum = up[u].content
        /\ row.id = u /\ row.name = up[u].name /\ row.checksum = up[u].content
    OBVIOUS
  <2>6. \A e \in docs : revised(e).id = e.id /\ revised(e).name = e.name
    <3>1. \A e \in docs : e \in [id : Uploads, name : Filenames, checksum : Contents]
      BY <1>1 DEF TablesOK
    <3> QED
      BY <3>1
  <2> HIDE DEF new, row, revised
  <2>7. /\ d \in Uploads
        /\ up[u].fresh => d = u
        /\ up[u].number \in Nat /\ \A v \in versions : v.number \in Nat
        /\ \A v \in versions : v.doc = d => v.number < up[u].number
        /\ up[u].fresh \/ \E e \in docs : e.id = d
    BY <1>1, <1>2, <1>4, CardinalityOfUploads
       DEF UploadInv, HasDocument, TablesOK, UploadRecords, AloneInv
  <2>8. \A e \in docs : e.id # u /\ e.id \in Requests
    BY <1>1 DEF SerialInv, TablesOK, Requests
  <2>9. \A f \in docs' : pc'[f.id] = "done"
    BY <2>1, <2>4, <2>5, <2>6, <2>8 DEF SerialInv
  <2>10. \A e, f \in docs' : e.id = f.id \/ e.name = f.name => e = f
    <3>1. CASE up[u].fresh
      <4>1. \A e \in docs : e.name # row.name
        BY <1>2, <2>5, <3>1 DEF AloneInv
      <4> QED
        BY <2>4, <2>5, <2>8, <3>1, <4>1 DEF SerialInv
    <3>2. CASE ~ up[u].fresh
      BY <2>4, <2>6, <3>2 DEF SerialInv
    <3> QED
      BY <3>1, <3>2
  <2>11. \A v \in versions' : \E f \in docs' : f.id = v.doc
    <3>1. CASE up[u].fresh
      BY <2>3, <2>4, <2>5, <2>7, <3>1 DEF SerialInv
    <3>2. CASE ~ up[u].fresh
      BY <2>3, <2>4, <2>5, <2>6, <2>7, <3>2 DEF SerialInv
    <3> QED
      BY <3>1, <3>2
  <2>13. BytesMatch'
    <3>1. objects[<<d, up[u].number>>] = up[u].content
      BY <1>1, <1>2, <1>4 DEF AloneInv
    <3>2. \A v \in versions : objects[<<v.doc, v.number>>] = v.checksum
      BY DEF SerialInv, BytesMatch
    <3> QED
      BY <1>1, <2>3, <2>5, <3>1, <3>2 DEF BytesMatch
  <2> QED
    BY <2>2, <2>9, <2>10, <2>11, <2>13 DEF SerialInv
<1> QED
  BY <1>3, <1>4

\* Indexings change nothing of it.
LEMMA SerialKept ==
    ASSUME SerialInv, UNCHANGED <<docs, objects, up>>,
           \A u \in Uploads : pc'[u] = pc[u], \A d \in docs : d.id \in Uploads,
           \A v \in versions : \E w \in versions' : SameVersion(v, w),
           \A w \in versions' : \E v \in versions : SameVersion(v, w)
    PROVE  SerialInv'
<1>1. \A u \in Uploads : Active(u)' <=> Active(u)
  BY DEF Active
<1>2. ASSUME NEW u \in Uploads, Active(u)'
      PROVE  AloneInv(u)'
  <2>1. AloneInv(u)
    BY <1>1, <1>2 DEF SerialInv
  <2> QED
    BY <2>1 DEF AloneInv, SameVersion
<1>3. \A v \in versions' : \E d \in docs' : d.id = v.doc
  BY DEF SerialInv, SameVersion
<1>5. BytesMatch'
  <2> SUFFICES ASSUME NEW w \in versions'
               PROVE  objects[<<w.doc, w.number>>] = w.checksum
    BY DEF BytesMatch
  <2>1. PICK v \in versions : SameVersion(v, w)
    OBVIOUS
  <2> QED
    BY <2>1 DEF SerialInv, BytesMatch, SameVersion
<1> QED
  BY <1>1, <1>2, <1>3, <1>5 DEF SerialInv

LEMMA SerialIndexing ==
    ASSUME IInv, SerialInv, NEW i \in Indexings, IndexingStep(i) \/ Abort(i)
    PROVE  SerialInv'
  BY IndexingsAreApart, SerialKept

LEMMA SerialStep ==
    ASSUME serial, IInv, SerialInv, [Next]_vars
    PROVE  SerialInv'
<1>1. CASE \E u \in Uploads : UploadStep(u)
  BY <1>1, SerialFindDocument, SerialReadLatest, SerialSave, SerialFlush,
     SerialCommitUpload DEF UploadStep
<1>2. CASE \E i \in Indexings : IndexingStep(i)
  BY <1>2, SerialIndexing
<1>3. CASE \E r \in Requests : Abort(r)
  BY <1>3, SerialAbort, SerialIndexing DEF Requests
<1>4. CASE UNCHANGED vars
  <2> USE <1>4 DEF vars
  <2>1. \A d \in docs : d.id \in Uploads
    BY DEF IInv, TablesOK
  <2> QED
    BY <2>1, SerialKept DEF SameVersion
<1> QED
  BY <1>1, <1>2, <1>3, <1>4 DEF Next

----------------------------------------------------------------------------
(* Chunks of uploads that do not overlap *)

Flushed(i) == pc[i] \in {"resolve", "commit"}

Apart(i, j) == \A row \in Rows(i), c \in Rows(j) : ~ SamePlace(row, c)

\* What an indexing has read stays true, and what it has flushed is its own.
IndexerInv(i) ==
    /\ pc[i] \in {"update", "insert", "resolve", "commit", "done"} =>
          \A v \in versions : v.id = ix[i].version => ix[i].text = v.checksum
    /\ pc[i] \in {"load", "update", "insert", "resolve", "commit"} =>
          \A v \in versions :
             v.id = ix[i].version /\ v.status = "parsed" => ix[i].loaded = NoConfig
    /\ Flushed(i) => ~ IndexTaken(i)

\* What two indexings have flushed is under different keys.
ChunksInv ==
    /\ \A row \in chunks : pc[row.run] = "done" /\ row \in Rows(row.run)
    /\ \A i, j \in Indexings :
          Flushed(i) /\ Flushed(j) /\ i # j => Apart(i, j)
    /\ \A i \in Indexings : IndexerInv(i)
    /\ IndexesAreWhole

LEMMA ChunksInit == Init => ChunksInv
  BY DEF Init, ChunksInv, IndexesAreWhole, IndexerInv, Flushed, Requests

LEMMA RowsAreOwn ==
    ASSUME NEW i \in Indexings, NEW row \in Rows(i)
    PROVE  row.run = i /\ row.version = ix[i].version /\ row.text = ix[i].text
  BY DEF Rows

\* Chunks are numbered from 1.
LEMMA FirstRow ==
    ASSUME NEW i \in Indexings, ix[i].text \in Contents, ix[i].config \in Configs
    PROVE  /\ Rows(i) = {} <=> Candidates[ix[i].text][ix[i].config] = <<>>
           /\ Rows(i) # {} => \E row \in Rows(i) : row.index = 1
<1> DEFINE parents == Candidates[ix[i].text][ix[i].config]
           made(k) == [run |-> i, version |-> ix[i].version, index |-> k,
                       text |-> ix[i].text,
                       parent |-> IF parents[k] = 0 THEN <<>> ELSE <<i, parents[k]>>]
<1>1. parents \in Seq(Nat)
  BY CandidatesAreForests
<1>2. Rows(i) = {made(k) : k \in DOMAIN parents}
  BY DEF Rows
<1>3. \A k : made(k).index = k
  OBVIOUS
<1> HIDE DEF parents, made
<1>4. parents = <<>> <=> DOMAIN parents = {}
  BY <1>1
<1>5. parents # <<>> => 1 \in DOMAIN parents
  BY <1>1
<1> QED
  BY <1>2, <1>3, <1>4, <1>5 DEF parents

\* A step that commits nothing and concerns no indexing.
LEMMA ChunksKept ==
    ASSUME ChunksInv, TablesOK, UNCHANGED <<versions, chunks, ix>>,
           \A i \in Indexings : pc'[i] = pc[i]
    PROVE  ChunksInv'
<1>1. \A row \in chunks : row.run \in Indexings
  BY DEF TablesOK
<1>2. \A j : Rows(j)' = Rows(j)
  BY DEF Rows
<1>3. \A row \in chunks' : pc'[row.run] = "done" /\ row \in Rows(row.run)'
  BY <1>1, <1>2 DEF ChunksInv
<1>4. ASSUME NEW i \in Indexings
      PROVE  IndexerInv(i)'
  <2>1. IndexTaken(i)' <=> IndexTaken(i)
    BY <1>2 DEF IndexTaken
  <2> QED
    BY <2>1 DEF ChunksInv, IndexerInv, Flushed
<1>5. IndexesAreWhole'
  BY <1>2 DEF ChunksInv, IndexesAreWhole
<1> QED
  BY <1>2, <1>3, <1>4, <1>5 DEF ChunksInv, Flushed, Apart

\* A new version has no chunks.
LEMMA ChunksNewVersion ==
    ASSUME IInv, ChunksInv, NEW u \in Uploads, CommitUpload(u), up[u].writes,
           UNCHANGED <<chunks, ix>>, \A i \in Indexings : pc'[i] = pc[i]
    PROVE  ChunksInv'
<1> DEFINE new == [id |-> u, doc |-> up[u].doc, number |-> up[u].number,
                   checksum |-> up[u].content, status |-> "parsed",
                   config |-> NoConfig]
<1>1. /\ TablesOK /\ VersionsInv /\ pc[u] = "commit"
      /\ versions' = versions \union {new}
  BY DEF IInv, CommitUpload
<1>2. new.id = u /\ new.status = "parsed" /\ new.config = NoConfig
  OBVIOUS
<1> HIDE DEF new
<1>3. \A v \in versions : v.id # u
  BY <1>1 DEF VersionsInv
<1>4. \A i \in Indexings :
         pc[i] \in {"load", "update", "insert", "resolve", "commit", "done"} =>
            ix[i].version # u
  BY <1>3 DEF IInv, IndexingInv
<1>5. \A row \in chunks : row.run \in Indexings /\ row.version # u
  BY <1>1, <1>4, RowsAreOwn DEF TablesOK, ChunksInv
<1>6. \A j : Rows(j)' = Rows(j)
  BY DEF Rows
<1>7. ASSUME NEW i \in Indexings
      PROVE  IndexerInv(i)'
  <2>1. IndexerInv(i)
    BY DEF ChunksInv
  <2>2. IndexTaken(i)' <=> IndexTaken(i)
    BY <1>6 DEF IndexTaken
  <2> QED
    BY <1>1, <1>2, <1>4, <2>1, <2>2 DEF IndexerInv, Flushed
<1>8. IndexesAreWhole'
  BY <1>1, <1>2, <1>5, <1>6 DEF ChunksInv, IndexesAreWhole
<1> QED
  BY <1>5, <1>6, <1>7, <1>8 DEF ChunksInv, Flushed, Apart

\* A step of indexing i that commits nothing.
LEMMA QuietChunks ==
    ASSUME ChunksInv, TablesOK, NEW i \in Indexings, NEW label, Goto(i, label),
           pc[i] # "done", label # "done", UNCHANGED <<versions, chunks>>,
           \A j \in Indexings : j # i => ix'[j] = ix[j], IndexerInv(i)',
           label \in {"resolve", "commit"} =>
              \A j \in Indexings : j # i /\ Flushed(j) => Apart(i, j)'
    PROVE  ChunksInv'
<1>1. /\ i \in Requests /\ pc'[i] = label
      /\ \A j \in Indexings : j # i => pc'[j] = pc[j]
  BY DEF TablesOK, Requests, Goto
<1>2. \A j \in Indexings : j # i => Rows(j)' = Rows(j)
  BY DEF Rows
<1>3. \A row \in chunks : row.run \in Indexings /\ row.run # i
  BY DEF TablesOK, ChunksInv
<1>4. \A row \in chunks' : pc'[row.run] = "done" /\ row \in Rows(row.run)'
  BY <1>1, <1>2, <1>3 DEF ChunksInv
<1>5. ASSUME NEW j \in Indexings
      PROVE  IndexerInv(j)'
  <2>1. CASE j # i
    <3>1. IndexerInv(j) /\ pc'[j] = pc[j] /\ ix'[j] = ix[j] /\ Rows(j)' = Rows(j)
      BY <1>1, <1>2, <2>1 DEF ChunksInv
    <3> QED
      BY <3>1 DEF IndexerInv, Flushed, IndexTaken
  <2> QED
    BY <2>1
<1>6. ASSUME NEW j \in Indexings, NEW k \in Indexings, j # k,
             Flushed(j)', Flushed(k)'
      PROVE  Apart(j, k)'
  <2>1. CASE j # i /\ k # i
    BY <1>1, <1>2, <1>6, <2>1 DEF Flushed, ChunksInv, Apart
  <2>2. CASE j = i
    BY <1>1, <1>6, <2>2 DEF Flushed
  <2>3. CASE k = i
    <3>1. Apart(i, j)'
      BY <1>1, <1>6, <2>3 DEF Flushed
    <3> QED
      BY <2>3, <3>1 DEF Apart, SamePlace
  <2> QED
    BY <2>1, <2>2, <2>3
<1>7. IndexesAreWhole'
  BY <1>1, <1>2 DEF IndexesAreWhole, ChunksInv
<1> QED
  BY <1>4, <1>5, <1>6, <1>7 DEF ChunksInv

LEMMA ChunksPickVersion ==
    ASSUME IInv, ChunksInv, NEW i \in Indexings, PickVersion(i)
    PROVE  ChunksInv'
<1>1. /\ TablesOK /\ VersionsInv /\ pc[i] = "start" /\ Goto(i, "load")
      /\ i \in Requests /\ UNCHANGED <<versions, chunks>>
  BY DEF IInv, PickVersion, tables, Requests
<1>2. PICK v \in versions :
         ix' = [ix EXCEPT ![i].version = v.id, ![i].key = <<v.doc, v.number>>,
                          ![i].status = v.status, ![i].loaded = v.config]
  BY DEF PickVersion
<1>3. /\ pc'[i] = "load" /\ ix'[i].version = v.id /\ ix'[i].loaded = v.config
      /\ \A j \in Indexings : j # i => ix'[j] = ix[j]
  BY <1>1, <1>2 DEF TablesOK, IndexingRecords, Goto
<1>4. v.status = "parsed" => v.config = NoConfig
  BY DEF ChunksInv, IndexesAreWhole
<1>5. IndexerInv(i)'
  BY <1>1, <1>3, <1>4 DEF IndexerInv, Flushed, VersionsInv
<1> QED
  BY <1>1, <1>3, <1>5, QuietChunks

LEMMA ChunksLoadAndChunk ==
    ASSUME IInv, SerialInv, ChunksInv, NEW i \in Indexings, LoadAndChunk(i)
    PROVE  ChunksInv'
<1>1. /\ TablesOK /\ VersionsInv /\ IndexingInv(i) /\ IndexerInv(i)
      /\ pc[i] = "load" /\ Goto(i, "update")
      /\ i \in Requests /\ UNCHANGED <<versions, chunks>>
      /\ ix' = [ix EXCEPT ![i].text = objects[ix[i].key]]
  BY DEF IInv, ChunksInv, LoadAndChunk, tables, Requests
<1>2. /\ pc'[i] = "update" /\ ix'[i].version = ix[i].version
      /\ ix'[i].loaded = ix[i].loaded /\ ix'[i].text = objects[ix[i].key]
      /\ \A j \in Indexings : j # i => ix'[j] = ix[j]
  BY <1>1 DEF TablesOK, IndexingRecords, Goto
<1>3. \A v \in versions : v.id = ix[i].version => objects[ix[i].key] = v.checksum
  <2>1. PICK v \in versions : v.id = ix[i].version /\ ix[i].key = <<v.doc, v.number>>
    BY <1>1 DEF IndexingInv
  <2>2. objects[ix[i].key] = v.checksum
    BY <2>1 DEF SerialInv, BytesMatch
  <2> QED
    BY <1>1, <2>1, <2>2 DEF VersionsInv
<1>4. IndexerInv(i)'
  BY <1>1, <1>2, <1>3 DEF IndexerInv, Flushed
<1> QED
  BY SMTT(30), <1>1, <1>2, <1>4, QuietChunks

\* A step from one flush to the next.
LEMMA ChunksRelabel ==
    ASSUME IInv, ChunksInv, NEW i \in Indexings, NEW label, Goto(i, label),
           UNCHANGED <<versions, chunks, ix>>, pc[i] # "done",
           \/ label \in {"failed", "conflict"}
           \/ label = "insert" /\ pc[i] = "update"
           \/ label = "commit" /\ pc[i] = "resolve"
           \/ label = "commit" /\ pc[i] = "update" /\ Rows(i) = {}
           \/ /\ label = "resolve" /\ pc[i] = "insert"
              /\ ~ IndexTaken(i) /\ \A j \in Indexings : ~ ChunksBlock(j, i)
    PROVE  ChunksInv'
<1>1. /\ TablesOK /\ IndexerInv(i) /\ i \in Requests /\ pc'[i] = label
  BY DEF IInv, ChunksInv, TablesOK, Requests, Goto
<1>2. IndexTaken(i)' <=> IndexTaken(i)
  BY DEF IndexTaken, Rows
<1>3. IndexerInv(i)'
  <2>1. Rows(i) = {} => ~ IndexTaken(i)
    BY DEF IndexTaken
  <2> QED
    BY <1>1, <1>2, <2>1 DEF IndexerInv, Flushed
<1>4. label \in {"resolve", "commit"} =>
         \A j \in Indexings : j # i /\ Flushed(j) => Apart(i, j)'
  <2>1. \A j : Rows(j)' = Rows(j)
    BY DEF Rows
  <2> SUFFICES ASSUME label \in {"resolve", "commit"}, NEW j \in Indexings, j # i,
                      Flushed(j)
               PROVE  Apart(i, j)
    BY <2>1 DEF Apart
  <2>2. CASE pc[i] = "resolve"
    BY <2>2 DEF ChunksInv, Flushed
  <2>3. CASE Rows(i) = {}
    BY <2>3 DEF Apart
  <2>4. CASE ~ ChunksBlock(j, i)
    BY <2>4 DEF ChunksBlock, Flushed, Apart
  <2> QED
    BY <2>2, <2>3, <2>4
<1> QED
  BY <1>1, <1>3, <1>4, QuietChunks

LEMMA ChunksCommitIndexing ==
    ASSUME IInv, ChunksInv, NEW i \in Indexings, CommitIndexing(i)
    PROVE  ChunksInv'
<1> DEFINE mine(v) == {row \in chunks : row.version = v.id}
<1>1. /\ TablesOK /\ VersionsInv /\ IndexingInv(i) /\ IndexerInv(i)
      /\ pc[i] = "commit" /\ Goto(i, "done") /\ i \in Requests /\ ix' = ix
      /\ chunks' = chunks \union Rows(i)
      /\ versions' = {Indexed(i, v) : v \in versions}
  BY DEF IInv, ChunksInv, CommitIndexing, Requests, Indexed
<1>2. /\ pc'[i] = "done" /\ \A j \in Indexings : j # i => pc'[j] = pc[j]
      /\ \A j : Rows(j)' = Rows(j)
  BY <1>1 DEF TablesOK, Goto, Rows
<1>3. \A v \in versions : SameVersion(v, Indexed(i, v))
  BY <1>1, IndexedIsSame
<1>4. \A row \in chunks : row.run \in Indexings
  BY <1>1 DEF TablesOK
<1>5. \A row \in chunks' : pc'[row.run] = "done" /\ row \in Rows(row.run)'
  BY <1>1, <1>2, <1>4, RowsAreOwn DEF ChunksInv
<1>6. \A j, k \in Indexings : Flushed(j)' /\ Flushed(k)' /\ j # k => Apart(j, k)'
  BY <1>1, <1>2 DEF Flushed, ChunksInv, Apart
<1>7. ASSUME NEW j \in Indexings
      PROVE  IndexerInv(j)'
  <2>1. IndexerInv(j)
    BY DEF ChunksInv
  <2>2. pc'[j] \in {"update", "insert", "resolve", "commit", "done"} =>
           \A w \in versions' : w.id = ix'[j].version => ix'[j].text = w.checksum
    BY <1>1, <1>2, <1>3, <2>1 DEF IndexerInv, SameVersion
  <2>3. \A w \in versions' : w.status = "parsed" => w \in versions
    BY <1>1, IndexedIsSame DEF Indexed
  <2>4. pc'[j] \in {"load", "update", "insert", "resolve", "commit"} =>
           \A w \in versions' : w.id = ix'[j].version /\ w.status = "parsed"
             => ix'[j].loaded = NoConfig
    BY <1>1, <1>2, <2>1, <2>3 DEF IndexerInv
  <2>5. ASSUME Flushed(j)'
        PROVE  ~ IndexTaken(j)'
    <3>1. j # i /\ Flushed(j) /\ Flushed(i)
      BY <1>1, <1>2, <2>5 DEF Flushed
    <3>2. Apart(j, i) /\ ~ IndexTaken(j)
      BY <2>1, <3>1 DEF ChunksInv, IndexerInv
    <3> QED
      BY <1>1, <1>2, <3>2 DEF IndexTaken, Apart
  <2> QED
    BY <2>2, <2>4, <2>5 DEF IndexerInv
<1>8. ASSUME NEW v \in versions, v.id = ix[i].version
      PROVE  LET w == Indexed(i, v)
             IN  /\ w.status = "indexed"
                 /\ \E j \in Indexings :
                       /\ pc'[j] = "done" /\ ix[j].version = v.id
                       /\ mine(v) \union Rows(i) = Rows(j)
                       /\ mine(v) \union Rows(i) # {} => w.config = ix[j].config
  <2> DEFINE w == Indexed(i, v)
  <2>1. /\ w.status = "indexed"
        /\ w.config = IF ix[i].config = ix[i].loaded THEN v.config ELSE ix[i].config
    BY <1>1, <1>8 DEF Indexed, TablesOK
  <2> HIDE DEF w
  <2>2. /\ ix[i].text = v.checksum /\ ix[i].text \in Contents
        /\ ix[i].config \in Configs
    BY <1>1, <1>8 DEF IndexerInv, IndexingInv, TablesOK, IndexingRecords
  <2>3. CASE v.status = "parsed" /\ mine(v) = {}
    <3>1. ix[i].config # ix[i].loaded
      BY <1>1, <1>8, <2>2, <2>3, NoneIsNoValue DEF IndexerInv
    <3> QED
      BY <1>2, <1>8, <2>1, <2>3, <3>1 DEF w
  <2>4. ASSUME NEW j \in Indexings, pc[j] = "done", ix[j].version = v.id,
               mine(v) = Rows(j), mine(v) # {} => v.config = ix[j].config
        PROVE  \E k \in Indexings :
                  /\ pc'[k] = "done" /\ ix[k].version = v.id
                  /\ mine(v) \union Rows(i) = Rows(k)
                  /\ mine(v) \union Rows(i) # {} => w.config = ix[k].config
    <3>1. /\ ix[j].text = v.checksum /\ ix[j].text \in Contents
          /\ ix[j].config \in Configs
      <4>1. IndexerInv(j) /\ IndexingInv(j)
        BY DEF ChunksInv, IInv
      <4> QED
        BY <1>1, <2>4, <4>1 DEF IndexerInv, IndexingInv, TablesOK, IndexingRecords
    <3>2. Rows(i) = {} <=> Rows(j) = {}
      BY <2>2, <3>1, FirstRow, EmptinessIsOfContent
    <3>3. CASE Rows(i) = {}
      BY <1>2, <1>8, <2>4, <3>2, <3>3
    <3>4. CASE Rows(i) # {}
      <4>1. PICK row \in Rows(i) : row.index = 1
        BY <2>2, <3>4, FirstRow
      <4>2. PICK other \in Rows(j) : other.index = 1
        BY <3>1, <3>2, <3>4, FirstRow
      <4>3. other \in chunks /\ other.version = v.id
        BY <2>4, <4>2
      <4>4. row.version = v.id
        BY <1>8, <4>1, RowsAreOwn
      <4>5. IndexTaken(i)
        BY <4>1, <4>2, <4>3, <4>4 DEF IndexTaken, SamePlace
      <4> QED
        BY <1>1, <4>5 DEF IndexerInv, Flushed
    <3> QED
      BY <3>3, <3>4
  <2> QED
    BY <2>1, <2>3, <2>4 DEF ChunksInv, IndexesAreWhole, w
<1>9. IndexesAreWhole'
  <2> SUFFICES ASSUME NEW v \in versions
               PROVE  LET w == Indexed(i, v)
                          rows == {row \in chunks' : row.version = w.id}
                      IN  \/ w.status = "parsed" /\ w.config = NoConfig /\ rows = {}
                          \/ /\ w.status = "indexed"
                             /\ \E j \in Indexings :
                                   /\ pc'[j] = "done" /\ ix'[j].version = w.id
                                   /\ rows = Rows(j)'
                                   /\ rows # {} => w.config = ix'[j].config
    BY <1>1 DEF IndexesAreWhole
  <2> DEFINE w == Indexed(i, v)
             rows == {row \in chunks' : row.version = w.id}
  <2>1. w.id = v.id
    BY <1>3 DEF SameVersion
  <2>2. CASE v.id = ix[i].version
    <3>1. rows = mine(v) \union Rows(i)
      BY <1>1, <2>1, <2>2, RowsAreOwn
    <3> QED
      BY <1>1, <1>2, <1>8, <2>1, <2>2, <3>1
  <2>3. CASE v.id # ix[i].version
    <3>1. rows = mine(v) /\ w = v
      BY <1>1, <2>1, <2>3, RowsAreOwn DEF Indexed
    <3> QED
      BY <1>1, <1>2, <3>1 DEF ChunksInv, IndexesAreWhole
  <2> QED
    BY <2>2, <2>3
<1> QED
  BY <1>5, <1>6, <1>7, <1>9 DEF ChunksInv

LEMMA ChunksStep ==
    ASSUME IInv, SerialInv, ChunksInv, [Next]_vars
    PROVE  ChunksInv'
<1>1. TablesOK
  BY DEF IInv
<1>2. ASSUME NEW u \in Uploads, UploadStep(u)
      PROVE  ChunksInv'
  <2>1. UNCHANGED <<chunks, ix>> /\ \A i \in Indexings : pc'[i] = pc[i]
    BY <1>1, <1>2, RequestsAreDisjoint DEF UploadStep, FindDocument, ReadLatest,
       Save, UpdateDocument, InsertVersion, CommitUpload, Goto, tables, TablesOK, Requests
  <2>2. CASE UNCHANGED versions
    BY <1>1, <2>1, <2>2, ChunksKept
  <2>3. CASE CommitUpload(u) /\ up[u].writes
    BY <2>1, <2>3, ChunksNewVersion
  <2> QED
    BY <1>2, <2>2, <2>3 DEF UploadStep, FindDocument, ReadLatest, Save,
       UpdateDocument, InsertVersion, CommitUpload, tables
<1>3. ASSUME NEW i \in Indexings, IndexingStep(i)
      PROVE  ChunksInv'
  <2>1. CASE InsertChunks(i)
    BY <2>1, ChunksRelabel DEF InsertChunks, tables
  <2>3. CASE UpdateVersion(i)
    BY <2>3, ChunksRelabel DEF UpdateVersion, tables
  <2>2. CASE ResolveParents(i)
    BY <2>2, ChunksRelabel DEF ResolveParents, tables
  <2> QED
    BY <1>3, <2>1, <2>2, <2>3, ChunksPickVersion, ChunksLoadAndChunk,
       ChunksCommitIndexing DEF IndexingStep
<1>4. ASSUME NEW r \in Requests, Abort(r)
      PROVE  ChunksInv'
  <2>1. CASE r \in Indexings
    BY <1>4, <2>1, ChunksRelabel DEF Abort, Settled, tables
  <2>2. CASE r \notin Indexings
    <3>1. UNCHANGED <<versions, chunks, ix>> /\ \A i \in Indexings : pc'[i] = pc[i]
      BY <1>1, <1>4, <2>2 DEF Abort, Goto, tables, TablesOK, Requests
    <3> QED
      BY <1>1, <3>1, ChunksKept
  <2> QED
    BY <2>1, <2>2
<1>5. CASE UNCHANGED vars
  BY <1>1, <1>5, ChunksKept DEF vars
<1> QED
  BY <1>2, <1>3, <1>4, <1>5 DEF Next

\* Uploads that do not overlap keep the stronger invariant as well.
LEMMA SerialAlways == Spec => [](IInv /\ (serial => SerialInv /\ ChunksInv))
<1>1. Init => IInv /\ (serial => SerialInv /\ ChunksInv)
  BY InvInit, SerialInit, ChunksInit
<1>2. IInv /\ (serial => SerialInv /\ ChunksInv) /\ [Next]_vars
         => (IInv /\ (serial => SerialInv /\ ChunksInv))'
  <2> SUFFICES ASSUME IInv, serial => SerialInv /\ ChunksInv, [Next]_vars
               PROVE  IInv' /\ (serial' => SerialInv' /\ ChunksInv')
    OBVIOUS
  <2>1. serial' = serial
    BY SerialIsFrozen
  <2>2. IInv'
    BY InvStep
  <2>3. serial => SerialInv' /\ ChunksInv'
    BY SerialStep, ChunksStep
  <2> QED
    BY <2>1, <2>2, <2>3
<1> QED
  BY <1>1, <1>2, PTL DEF Spec

\* With one upload at a time, however many, and any indexings in between, what
\* is stored under a version's key is what was uploaded (object_store.save).
THEOREM StoredBytesAlwaysMatch == Spec => []StoredBytesMatch
<1>1. (serial => SerialInv /\ ChunksInv) => StoredBytesMatch
  BY DEF SerialInv, StoredBytesMatch
<1> QED
  BY <1>1, SerialAlways, PTL

\* The chunks of a version are made from its own bytes: index_document_version.
THEOREM ChunksAlwaysMatchVersion == Spec => []ChunksMatchVersion
<1>1. IInv /\ (serial => SerialInv /\ ChunksInv) => ChunksMatchVersion
  <2> SUFFICES ASSUME IInv, ChunksInv, NEW row \in chunks,
                      NEW v \in versions, v.id = row.version
               PROVE  row.text = v.checksum
    BY DEF ChunksMatchVersion
  <2>1. /\ row.run \in Indexings /\ pc[row.run] = "done"
        /\ row \in Rows(row.run) /\ IndexerInv(row.run)
    BY DEF IInv, TablesOK, ChunksInv
  <2>2. row.version = ix[row.run].version /\ row.text = ix[row.run].text
    BY <2>1, RowsAreOwn
  <2> QED
    BY <2>1, <2>2 DEF IndexerInv
<1> QED
  BY <1>1, SerialAlways, PTL

\* Overlapping indexings of the same versions leave each version without an
\* index or with the whole index of one of them:
\* uq_document_chunks_version_index.
THEOREM IndexedAlwaysComplete == Spec => []IndexedIsComplete
<1>1. (serial => SerialInv /\ ChunksInv) => IndexedIsComplete
  BY DEF ChunksInv, IndexedIsComplete
<1> QED
  BY <1>1, SerialAlways, PTL

============================================================================
