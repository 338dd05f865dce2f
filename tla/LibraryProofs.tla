---------------------------- MODULE LibraryProofs ----------------------------
(***************************************************************************)
(* Proofs about Library, for any number of names, contents, uploads,       *)
(* rebuilds, rows and files of an upload.                                  *)
(***************************************************************************)
EXTENDS Library, FiniteSetTheorems, SequenceTheorems, TLAPS

-----------------------------------------------------------------------------
(* The invariant *)

\* Rows that are visible, or will be when their upload commits.
Present(i) == Visible(i) \/ file[i].status = "draft"

OneStores ==
    \A q, r \in Requests :
        (request[q].pc = "storing" /\ request[r].pc = "storing") => q = r

\* The drafts are those of the upload that stores.
DraftsAreMine ==
    /\ \A r \in Requests : request[r].mine # {} => request[r].pc = "storing"
    /\ \A i \in Rows :
        file[i].status = "draft" <=> \E r \in Requests : i \in request[r].mine

ObjectsAhead == \A i \in Rows : Present(i) => i \in stored

UploadInv == TypeOK /\ OneStores /\ DraftsAreMine /\ ObjectsAhead

\* The files of an upload under way say the same of which was the first.
OneFirst ==
    \A r \in Requests : \A i, j \in request[r].mine : file[i].first = file[j].first

\* Rows are taken in their order.
RowsInOrder ==
    \A i, j \in Rows : (i < j /\ file[i].status = "none") => file[j].status = "none"

\* The check for duplicates still holds while the upload stores.
CheckHolds ==
    \A r \in Requests : (request[r].pc = "storing" /\ ~request[r].force) =>
        ~Duplicates(request[r].batch)

ContentAhead ==
    \A i, j \in Rows :
        (i < j /\ Present(i) /\ Present(j) /\ file[i].content = file[j].content)
            => file[j].forced \/ file[i].first = file[j].first

ContentInv == UploadInv /\ OneFirst /\ RowsInOrder /\ CheckHolds /\ ContentAhead

-----------------------------------------------------------------------------
(* What is stored next *)

LEMMA BatchElement ==
    ASSUME NEW batch \in Batches \cup {<<>>}, NEW n \in Nat, n < Len(batch)
    PROVE  /\ n + 1 \in DOMAIN batch
           /\ batch[n + 1] \in Names \X Contents
<1>1. CASE batch = <<>>
  BY <1>1, EmptySeq
<1>2. CASE batch \in Batches
  <2>1. PICK m \in 1 .. MaxBatch : batch \in [1 .. m -> Names \X Contents]
    BY <1>2 DEF Batches
  <2>2. m \in Nat
    BY <2>1, LibraryAssumption
  <2>3. batch \in Seq(Names \X Contents)
    BY <2>1, <2>2
  <2>4. n + 1 \in 1 .. Len(batch)
    BY <2>3, LenProperties
  <2>. QED
    BY <2>3, <2>4, ElementOfSeq, LenProperties
<1>. QED
  BY <1>1, <1>2

LEMMA CurrentTyped ==
    ASSUME TypeOK, NEW r \in Requests, MoreToStore(r)
    PROVE  /\ Cardinality(request[r].mine) + 1 \in DOMAIN request[r].batch
           /\ Current(r) \in Names \X Contents
<1>1. /\ request[r].mine \in SUBSET Rows
      /\ request[r].batch \in Batches \cup {<<>>}
  BY DEF TypeOK, Uploads
<1>2. IsFiniteSet(Rows)
  BY LibraryAssumption, FS_Interval DEF Rows
<1>3. Cardinality(request[r].mine) \in Nat
  BY <1>1, <1>2, FS_Subset, FS_CardinalityType
<1>. QED
  BY <1>1, <1>3, BatchElement DEF MoreToStore, Current

-----------------------------------------------------------------------------
(* Types *)

\* Types of what an upload writes.
LEMMA UploadTyped ==
    ASSUME TypeOK, NEW r \in Requests, Upload(r)
    PROVE  TypeOK'
<1>. USE DEF TypeOK
<1>1. CASE BeginUpload(r)
  BY <1>1 DEF BeginUpload, Uploads, overview
<1>2. ASSUME NEW batch \in Batches, NEW force \in BOOLEAN, CheckUpload(r, batch, force)
      PROVE  TypeOK'
  <2>1. [pc |-> "storing", batch |-> batch, force |-> force /\ Duplicates(batch),
         mine |-> {}] \in Uploads
    BY DEF Uploads
  <2>. QED
    BY <1>2, <2>1 DEF CheckUpload, overview
<1>3. Idle \in Uploads
  BY DEF Idle, Uploads
<1>4. CASE RefuseUpload(r)
  BY <1>3, <1>4 DEF RefuseUpload, overview
<1>5. ASSUME NEW i \in Rows, StoreFile(r, i)
      PROVE  TypeOK'
  <2>1. Current(r) \in Names \X Contents
    BY <1>5, CurrentTyped DEF StoreFile
  <2>2. request[r].mine \in SUBSET Rows /\ request[r].force \in BOOLEAN
    BY DEF Uploads
  <2>3. FirstOf(r, i) \in 0 .. MaxFiles
    BY <2>2, LibraryAssumption DEF FirstOf, FileRows, Rows
  <2>4. [status |-> "draft", name |-> Current(r)[1], content |-> Current(r)[2],
         forced |-> request[r].force, first |-> FirstOf(r, i)] \in FileRows
    BY <2>1, <2>2, <2>3 DEF FileRows, FileStatuses
  <2>5. file' \in [Rows -> FileRows]
    BY <1>5, <2>4 DEF StoreFile, Draft
  <2>6. [request[r] EXCEPT !.mine = @ \cup {i}] \in Uploads
    BY DEF Uploads
  <2>7. request' \in [Requests -> Uploads]
    BY <1>5, <2>6 DEF StoreFile, Draft
  <2>. QED
    BY <1>5, <2>5, <2>7 DEF StoreFile, overview
<1>6. CASE AbandonUpload(r)
  <2>1. [NoFile EXCEPT !.status = "dropped"] \in FileRows
    <3>1. NoFile \in FileRows
      BY LibraryAssumption DEF NoFile, FileRows, FileStatuses
    <3>2. "dropped" \in FileStatuses
      BY DEF FileStatuses
    <3>. QED
      BY <3>1, <3>2 DEF FileRows
  <2>2. file' \in [Rows -> FileRows]
    BY <1>6, <2>1 DEF AbandonUpload, RolledBack
  <2>. QED
    BY <1>3, <1>6, <2>2 DEF AbandonUpload, overview
<1>7. CASE CommitUpload(r)
  <2>1. \A i \in Rows : [file[i] EXCEPT !.status = "queued"] \in FileRows
    BY DEF FileRows, FileStatuses
  <2>2. file' \in [Rows -> FileRows]
    BY <1>7, <2>1 DEF CommitUpload
  <2>. QED
    BY <1>3, <1>7, <2>2 DEF CommitUpload, overview
<1>. QED
  BY <1>1, <1>2, <1>4, <1>5, <1>6, <1>7 DEF Upload

LEMMA SetFileTyped ==
    ASSUME TypeOK, NEW i \in Rows, NEW s \in FileStatuses, SetFile(i, s)
    PROVE  file' \in [Rows -> FileRows]
  BY DEF TypeOK, SetFile, FileRows

LEMMA StartTyped ==
    ASSUME TypeOK, NEW w \in Workers, Start(w)
    PROVE  rebuild' \in [Workers -> Rebuilds]
  BY DEF TypeOK, Start, NoRebuild, Rebuilds

LEMMA OfFileTyped ==
    ASSUME TypeOK, NEW i \in Rows, OfFile(i)
    PROVE  TypeOK'
<1>1. CASE ParseFile(i)
  BY <1>1, SetFileTyped DEF ParseFile, TypeOK, FileStatuses, overview
<1>2. CASE FailFile(i)
  BY <1>2, SetFileTyped DEF FailFile, TypeOK, FileStatuses, overview
<1>3. CASE DeleteFile(i)
  BY <1>3, SetFileTyped DEF DeleteFile, TypeOK, FileStatuses, overview
<1>4. ASSUME NEW w \in Workers, ChunkFile(w, i)
      PROVE  TypeOK'
  BY <1>4, StartTyped DEF ChunkFile, TypeOK, uploads
<1>5. ASSUME NEW w \in Workers, IndexFile(w, i)
      PROVE  TypeOK'
  BY <1>5, StartTyped, SetFileTyped DEF IndexFile, TypeOK, FileStatuses
<1>. QED
  BY <1>1, <1>2, <1>3, <1>4, <1>5 DEF OfFile

LEMMA RebuildTyped ==
    ASSUME TypeOK, NEW w \in Workers, Rebuild(w)
    PROVE  TypeOK'
<1>1. CASE AskRebuild(w)
  BY <1>1, StartTyped DEF AskRebuild, TypeOK, uploads
<1>2. CASE ReadRows(w)
  BY <1>2 DEF ReadRows, Indexed, TypeOK, Rebuilds, uploads
<1>3. ASSUME NEW others \in [Workers -> Rebuilds]
      PROVE  Outdate(w, others) \in [Workers -> Rebuilds]
  BY DEF Outdate, Rebuilds
<1>4. CASE PutListing(w)
  <2>1. [rebuild EXCEPT ![w].pc = "save"] \in [Workers -> Rebuilds]
    BY DEF TypeOK, Rebuilds
  <2>2. rebuild[w].seen \in SUBSET Rows /\ rebuild[w].stale \in BOOLEAN
    BY DEF TypeOK, Rebuilds
  <2>3. PICK named \in Listable(rebuild[w].seen) :
          listing' = [named |-> named, counted |-> rebuild[w].seen]
    BY <1>4 DEF PutListing
  <2>4. listing' \in Listings
    BY <2>2, <2>3 DEF Listable, Listings
  <2>. QED
    BY <1>3, <1>4, <2>1, <2>2, <2>4 DEF PutListing, TypeOK, uploads
<1>5. CASE SaveOverall(w)
  BY <1>5 DEF SaveOverall, TypeOK, NoRebuild, Rebuilds, uploads
<1>6. CASE Missed(w)
  <2>1. [rebuild EXCEPT ![w] = NoRebuild] \in [Workers -> Rebuilds]
    BY DEF TypeOK, NoRebuild, Rebuilds
  <2>2. behind' \in BOOLEAN
    BY <1>6 DEF Missed, TypeOK
  <2>. QED
    BY <1>3, <1>6, <2>1, <2>2 DEF Missed, TypeOK, uploads
<1>. QED
  BY <1>1, <1>2, <1>4, <1>5, <1>6 DEF Rebuild

LEMMA InitTyped == Init => TypeOK
<1>1. NoFile \in FileRows /\ Idle \in Uploads /\ NoRebuild \in Rebuilds
  BY LibraryAssumption
  DEF NoFile, FileRows, FileStatuses, Idle, Uploads, NoRebuild, Rebuilds
<1>2. [named |-> {}, counted |-> {}] \in Listings
  BY DEF Listings
<1>. QED
  BY <1>1, <1>2 DEF Init, TypeOK, BaseStatuses

LEMMA NextTyped == TypeOK /\ [Next]_vars => TypeOK'
<1>. SUFFICES ASSUME TypeOK, [Next]_vars
              PROVE  TypeOK'
  OBVIOUS
<1>1. ASSUME NEW s \in BaseStatuses, SetStatus(s)
      PROVE  TypeOK'
  BY <1>1 DEF SetStatus, TypeOK, uploads, overview
<1>2. CASE UNCHANGED vars
  BY <1>2 DEF vars, uploads, overview, TypeOK
<1>. QED
  BY <1>1, <1>2, UploadTyped, OfFileTyped, RebuildTyped DEF Next

\* The types of Library hold in every state.
THEOREM LibraryTypes == Spec => []TypeOK
  BY InitTyped, NextTyped, PTL DEF Spec

-----------------------------------------------------------------------------
(* Steps that neither write a new row nor touch a draft *)

Quiet ==
    /\ UNCHANGED <<stored, request>>
    /\ \A i \in Rows :
        /\ file'[i].name = file[i].name /\ file'[i].content = file[i].content
        /\ file'[i].forced = file[i].forced /\ file'[i].first = file[i].first
        /\ Visible(i)' => Visible(i)
        /\ file'[i].status = "draft" <=> file[i].status = "draft"
        /\ file'[i].status = "none" <=> file[i].status = "none"

LEMMA QuietKeeps ==
    ASSUME ContentInv, TypeOK', Quiet
    PROVE  ContentInv'
<1>1. \A i \in Rows : Present(i)' => Present(i)
  BY DEF Quiet, Present
<1>2. OneStores'
  BY DEF ContentInv, UploadInv, OneStores, Quiet
<1>3. DraftsAreMine'
  BY DEF ContentInv, UploadInv, DraftsAreMine, Quiet
<1>4. ObjectsAhead'
  BY <1>1 DEF ContentInv, UploadInv, ObjectsAhead, Quiet
<1>5. OneFirst'
  <2>1. \A r \in Requests : request[r].mine \subseteq Rows
    BY DEF ContentInv, UploadInv, TypeOK, Uploads
  <2>. QED
    BY <2>1 DEF ContentInv, OneFirst, Quiet
<1>6. RowsInOrder'
  BY DEF ContentInv, RowsInOrder, Quiet
<1>7. CheckHolds'
  BY DEF ContentInv, CheckHolds, Duplicates, Quiet
<1>8. ContentAhead'
  BY <1>1 DEF ContentInv, ContentAhead, Quiet
<1>. QED
  BY <1>2, <1>3, <1>4, <1>5, <1>6, <1>7, <1>8 DEF ContentInv, UploadInv

LEMMA SameFilesQuiet ==
    ASSUME UNCHANGED uploads
    PROVE  Quiet
  BY DEF uploads, Quiet, Visible

LEMMA SetFileQuiet ==
    ASSUME TypeOK, NEW i \in Rows, NEW s \in VisibleStatuses \cup {"deleted"},
           Visible(i), SetFile(i, s), UNCHANGED <<stored, request>>
    PROVE  Quiet
<1>1. \A j \in Rows : file'[j] = IF j = i THEN [file[i] EXCEPT !.status = s] ELSE file[j]
  BY DEF TypeOK, SetFile
<1>2. file[i] \in FileRows
  BY DEF TypeOK
<1>3. /\ file'[i].status = s
      /\ file'[i].name = file[i].name /\ file'[i].content = file[i].content
      /\ file'[i].forced = file[i].forced /\ file'[i].first = file[i].first
  BY <1>1, <1>2 DEF FileRows
<1>4. file'[i].status \notin {"none", "draft"} /\ file[i].status \notin {"none", "draft"}
  BY <1>3 DEF Visible, VisibleStatuses
<1>. QED
  BY <1>1, <1>3, <1>4 DEF Quiet, Visible

LEMMA OfFileQuiet ==
    ASSUME TypeOK, NEW i \in Rows, OfFile(i)
    PROVE  Quiet
<1>1. CASE ParseFile(i)
  BY <1>1, SetFileQuiet DEF ParseFile, VisibleStatuses
<1>2. CASE FailFile(i)
  BY <1>2, SetFileQuiet DEF FailFile, Visible, VisibleStatuses
<1>3. CASE DeleteFile(i)
  BY <1>3, SetFileQuiet DEF DeleteFile
<1>4. ASSUME NEW w \in Workers, ChunkFile(w, i)
      PROVE  Quiet
  BY <1>4, SameFilesQuiet DEF ChunkFile
<1>5. ASSUME NEW w \in Workers, IndexFile(w, i)
      PROVE  Quiet
  BY <1>5, SetFileQuiet DEF IndexFile, Visible, VisibleStatuses
<1>. QED
  BY <1>1, <1>2, <1>3, <1>4, <1>5 DEF OfFile

LEMMA RebuildQuiet ==
    ASSUME NEW w \in Workers, Rebuild(w)
    PROVE  Quiet
  BY SameFilesQuiet
  DEF Rebuild, AskRebuild, ReadRows, PutListing, SaveOverall, Missed

-----------------------------------------------------------------------------
(* The steps of an upload *)

LEMMA StoreKeeps ==
    ASSUME ContentInv, TypeOK', NEW r \in Requests, NEW n \in Rows, StoreFile(r, n)
    PROVE  ContentInv'
<1>. DEFINE new == file'[n]
<1>1. /\ file[n].status = "none"
      /\ \A j \in Rows : file[j].status = "none" => n <= j
      /\ new = [status |-> "draft", name |-> Current(r)[1], content |-> Current(r)[2],
                forced |-> request[r].force, first |-> FirstOf(r, n)]
      /\ \A i \in Rows \ {n} : file'[i] = file[i]
  BY DEF StoreFile, Draft, ContentInv, UploadInv, TypeOK
<1>2. /\ request'[r].pc = "storing" /\ request[r].pc = "storing"
      /\ request'[r].mine = request[r].mine \cup {n}
      /\ request'[r].force = request[r].force
      /\ request'[r].batch = request[r].batch
      /\ \A q \in Requests \ {r} : request'[q] = request[q]
  BY DEF StoreFile, Draft, ContentInv, UploadInv, TypeOK, Uploads
<1>3. stored' = stored \cup {n}
  BY DEF StoreFile
<1>4. /\ \A i \in Rows \ {n} : Present(i)' <=> Present(i)
      /\ \A i \in Rows \ {n} : Visible(i)' <=> Visible(i)
      /\ ~Visible(n)' /\ ~Present(n)
  BY <1>1 DEF Present, Visible, VisibleStatuses
<1>5. \A i \in Rows : Present(i) => Visible(i) \/ i \in request[r].mine
  BY <1>2 DEF Present, ContentInv, UploadInv, DraftsAreMine, OneStores
<1>6. \A q \in Requests : request[q].mine \subseteq Rows \ {n}
  BY <1>1 DEF ContentInv, UploadInv, TypeOK, Uploads, DraftsAreMine
<1>7. OneStores'
  BY <1>2 DEF ContentInv, UploadInv, OneStores
<1>8. DraftsAreMine'
  <2>1. \A q \in Requests : request'[q].mine # {} => request'[q].pc = "storing"
    BY <1>2 DEF ContentInv, UploadInv, DraftsAreMine
  <2>2. n \in request'[r].mine /\ file'[n].status = "draft"
    BY <1>1, <1>2
  <2>3. \A i \in Rows \ {n} :
          (\E q \in Requests : i \in request'[q].mine) <=> \E q \in Requests : i \in request[q].mine
    BY <1>2
  <2>. QED
    BY <1>1, <2>1, <2>2, <2>3 DEF ContentInv, UploadInv, DraftsAreMine
<1>10. ObjectsAhead'
  BY <1>3, <1>4 DEF ContentInv, UploadInv, ObjectsAhead
<1>11. OneFirst'
  <2>1. \A i \in request[r].mine : file[i].first = new.first
    BY <1>1 DEF FirstOf, ContentInv, OneFirst
  <2>2. \A q \in Requests \ {r} : \A i \in request[q].mine : file'[i] = file[i]
    BY <1>1, <1>6
  <2>. QED
    BY <1>1, <1>2, <1>6, <2>1, <2>2 DEF ContentInv, OneFirst
<1>12. RowsInOrder'
  BY <1>1 DEF ContentInv, RowsInOrder, Rows
<1>13. CheckHolds'
  <2>1. \A q \in Requests : Duplicates(request[q].batch)' => Duplicates(request[q].batch)
    BY <1>1, <1>2, <1>4 DEF Duplicates
  <2>. QED
    BY <1>2, <2>1 DEF ContentInv, CheckHolds
<1>14. ContentAhead'
  <2>1. \A j \in Rows : n < j => ~Present(j)
    BY <1>1 DEF ContentInv, RowsInOrder, Present, Visible, VisibleStatuses
  <2>2. ASSUME NEW i \in Rows, i # n, Present(i), file[i].content = Current(r)[2],
               ~request[r].force
        PROVE  file[i].first = new.first
    <3>1. CASE i \in request[r].mine
      BY <1>1, <3>1 DEF FirstOf, ContentInv, OneFirst
    <3>2. CASE Visible(i)
      <4>1. PICK k \in DOMAIN request[r].batch : request[r].batch[k] = Current(r)
        BY CurrentTyped DEF ContentInv, UploadInv, StoreFile, Current
      <4>2. ~Duplicates(request[r].batch)
        BY <1>2, <2>2 DEF ContentInv, CheckHolds
      <4>3. file[i].name = Current(r)[1]
        BY <2>2, <3>2, <4>1, <4>2 DEF Duplicates
      <4>4. file[i].name # Current(r)[1]
        BY <3>2 DEF StoreFile, NameAvailable
      <4>. QED
        BY <4>3, <4>4
    <3>. QED
      BY <1>5, <2>2, <3>1, <3>2
  <2>3. \A i, j \in Rows \ {n} :
          (i < j /\ Present(i)' /\ Present(j)' /\ file'[i].content = file'[j].content)
              => file'[j].forced \/ file'[i].first = file'[j].first
    BY <1>1, <1>4 DEF ContentInv, ContentAhead
  <2>4. \A j \in Rows : ~(n < j /\ Present(j)')
    BY <1>4, <2>1 DEF Rows
  <2>5. \A i \in Rows :
          (i < n /\ Present(i)' /\ file'[i].content = new.content)
              => new.forced \/ file'[i].first = new.first
    BY <1>1, <1>4, <2>2 DEF Rows
  <2>. QED
    BY <2>3, <2>4, <2>5 DEF ContentAhead
<1>. QED
  BY <1>7, <1>8, <1>10, <1>11, <1>12, <1>13, <1>14 DEF ContentInv, UploadInv

\* A step of a request that does not store; one that starts to has checked.
LEMMA ReadingKeeps ==
    ASSUME ContentInv, TypeOK', NEW r \in Requests, UNCHANGED <<file, stored>>,
           request[r].pc # "storing", request'[r].mine = {},
           \A q \in Requests \ {r} : request'[q] = request[q],
           request'[r].pc = "storing" =>
              LoopFree /\ (~request'[r].force => ~Duplicates(request'[r].batch))
    PROVE  ContentInv'
<1>1. request[r].mine = {}
  BY DEF ContentInv, UploadInv, DraftsAreMine
<1>2. OneStores'
  BY DEF ContentInv, UploadInv, OneStores, LoopFree
<1>3. DraftsAreMine'
  BY <1>1 DEF ContentInv, UploadInv, DraftsAreMine
<1>4. ObjectsAhead' /\ RowsInOrder' /\ ContentAhead'
  BY DEF ContentInv, UploadInv, ObjectsAhead, RowsInOrder, ContentAhead,
         Present, Visible
<1>5. OneFirst'
  BY DEF ContentInv, OneFirst
<1>6. CheckHolds'
  BY DEF ContentInv, CheckHolds, Duplicates, Visible
<1>. QED
  BY <1>2, <1>3, <1>4, <1>5, <1>6 DEF ContentInv, UploadInv

\* The end of an upload: its drafts become visible, or are dropped.
LEMMA EndKeeps ==
    ASSUME ContentInv, TypeOK', NEW r \in Requests,
           request[r].pc = "storing", request' = [request EXCEPT ![r] = Idle],
           UNCHANGED stored,
           \A i \in Rows \ request[r].mine : file'[i] = file[i],
           \/ \A i \in request[r].mine : file'[i] = [NoFile EXCEPT !.status = "dropped"]
           \/ \A i \in request[r].mine : file'[i] = [file[i] EXCEPT !.status = "queued"]
    PROVE  ContentInv'
<1>1. /\ request'[r] = Idle
      /\ \A q \in Requests \ {r} : request'[q] = request[q] /\ request'[q].pc # "storing"
  BY DEF ContentInv, UploadInv, TypeOK, OneStores
<1>2. /\ Idle.pc = "idle" /\ Idle.mine = {}
      /\ \A q \in Requests : request'[q].mine = {} /\ request'[q].pc # "storing"
  BY <1>1 DEF Idle, ContentInv, UploadInv, DraftsAreMine
<1>3. request[r].mine \subseteq Rows
  BY DEF ContentInv, UploadInv, TypeOK, Uploads
<1>4. \A i \in Rows : file[i].status = "draft" <=> i \in request[r].mine
  BY <1>1, <1>2 DEF ContentInv, UploadInv, DraftsAreMine
<1>5. \A i \in Rows :
        /\ file'[i].status # "draft"
        /\ file'[i].status = "none" <=> file[i].status = "none"
        /\ Present(i)' => /\ Present(i)
                          /\ file'[i].name = file[i].name
                          /\ file'[i].content = file[i].content
                          /\ file'[i].forced = file[i].forced
                          /\ file'[i].first = file[i].first
  <2>1. ASSUME NEW i \in Rows, i \notin request[r].mine
        PROVE  file'[i] = file[i] /\ file[i].status # "draft"
    BY <1>4, <2>1
  <2>2. ASSUME NEW i \in request[r].mine,
               file'[i] = [NoFile EXCEPT !.status = "dropped"]
        PROVE  file'[i].status = "dropped" /\ file[i].status = "draft"
    BY <1>3, <1>4, <2>2 DEF NoFile
  <2>3. ASSUME NEW i \in request[r].mine,
               file'[i] = [file[i] EXCEPT !.status = "queued"]
        PROVE  /\ file'[i].status = "queued" /\ file[i].status = "draft"
               /\ file'[i].name = file[i].name
               /\ file'[i].content = file[i].content
               /\ file'[i].forced = file[i].forced
               /\ file'[i].first = file[i].first
    BY <1>3, <1>4, <2>3 DEF ContentInv, UploadInv, TypeOK, FileRows
  <2>. QED
    BY <2>1, <2>2, <2>3 DEF Present, Visible, VisibleStatuses
<1>6. OneStores' /\ OneFirst' /\ CheckHolds'
  BY <1>2 DEF OneStores, OneFirst, CheckHolds
<1>7. DraftsAreMine'
  BY <1>2, <1>5 DEF DraftsAreMine
<1>8. ObjectsAhead'
  BY <1>5 DEF ContentInv, UploadInv, ObjectsAhead
<1>9. RowsInOrder'
  BY <1>5 DEF ContentInv, RowsInOrder
<1>10. ContentAhead'
  BY <1>5 DEF ContentInv, ContentAhead
<1>. QED
  BY <1>6, <1>7, <1>8, <1>9, <1>10 DEF ContentInv, UploadInv

LEMMA UploadKeeps ==
    ASSUME ContentInv, TypeOK', NEW r \in Requests, Upload(r)
    PROVE  ContentInv'
<1>. USE DEF ContentInv, UploadInv, TypeOK, Uploads
<1>1. CASE BeginUpload(r)
  <2>1. request[r].mine = {}
    BY <1>1 DEF BeginUpload, DraftsAreMine
  <2>. QED
    BY <1>1, <2>1, ReadingKeeps DEF BeginUpload
<1>2. ASSUME NEW batch \in Batches, NEW force \in BOOLEAN, CheckUpload(r, batch, force)
      PROVE  ContentInv'
  <2>1. /\ request'[r].batch = batch
        /\ request'[r].force = (force /\ Duplicates(batch))
        /\ request'[r].mine = {}
        /\ \A q \in Requests \ {r} : request'[q] = request[q]
    BY <1>2 DEF CheckUpload
  <2>2. ~request'[r].force => ~Duplicates(request'[r].batch)
    BY <1>2, <2>1 DEF CheckUpload
  <2>. QED
    BY <1>2, <2>1, <2>2, ReadingKeeps DEF CheckUpload
<1>3. CASE RefuseUpload(r)
  BY <1>3, ReadingKeeps DEF RefuseUpload, Idle
<1>4. ASSUME NEW i \in Rows, StoreFile(r, i)
      PROVE  ContentInv'
  BY <1>4, StoreKeeps
<1>5. CASE AbandonUpload(r)
  <2>1. /\ \A i \in Rows \ request[r].mine : file'[i] = file[i]
        /\ \A i \in request[r].mine : file'[i] = [NoFile EXCEPT !.status = "dropped"]
    BY <1>5 DEF AbandonUpload, RolledBack
  <2>. QED
    BY <1>5, <2>1, EndKeeps DEF AbandonUpload
<1>6. CASE CommitUpload(r)
  <2>1. /\ \A i \in Rows \ request[r].mine : file'[i] = file[i]
        /\ \A i \in request[r].mine : file'[i] = [file[i] EXCEPT !.status = "queued"]
    BY <1>6 DEF CommitUpload
  <2>. QED
    BY <1>6, <2>1, EndKeeps DEF CommitUpload
<1>. QED
  BY <1>1, <1>2, <1>3, <1>4, <1>5, <1>6 DEF Upload

-----------------------------------------------------------------------------
LEMMA InitContent == Init => ContentInv
<1>. SUFFICES ASSUME Init
              PROVE  ContentInv
  OBVIOUS
<1>1. \A i \in Rows : file[i].status = "none" /\ ~Present(i)
  BY DEF Init, NoFile, Present, Visible, VisibleStatuses
<1>2. \A r \in Requests : request[r].pc = "idle" /\ request[r].mine = {}
  BY DEF Init, Idle
<1>. QED
  BY <1>1, <1>2, InitTyped
  DEF ContentInv, UploadInv, OneStores, DraftsAreMine, ObjectsAhead,
      OneFirst, RowsInOrder, CheckHolds, ContentAhead

LEMMA NextContent == ContentInv /\ [Next]_vars => ContentInv'
<1>. SUFFICES ASSUME ContentInv, [Next]_vars
              PROVE  ContentInv'
  OBVIOUS
<1>1. TypeOK /\ TypeOK'
  BY NextTyped DEF ContentInv, UploadInv
<1>2. ASSUME NEW s \in BaseStatuses, SetStatus(s)
      PROVE  Quiet
  BY <1>2, SameFilesQuiet DEF SetStatus
<1>3. CASE UNCHANGED vars
  BY <1>1, <1>3, SameFilesQuiet, QuietKeeps DEF vars
<1>. QED
  BY <1>1, <1>2, <1>3, QuietKeeps, UploadKeeps, OfFileQuiet, RebuildQuiet DEF Next

\* No upload waits in the index for another: a row that is flushed and not
\* committed is of the one upload that stores, and it has looked at its own.
THEOREM LibraryNeverWaits == Spec => []UploadsNeverWait
<1>1. ASSUME ContentInv, NEW r \in Requests, request[r].pc = "storing", NameAvailable(r)
      PROVE  IndexAdmits(r)
  <2>1. \A i \in Rows : file[i].status = "draft" => i \in request[r].mine
    BY <1>1 DEF ContentInv, UploadInv, OneStores, DraftsAreMine
  <2>. QED
    BY <1>1, <2>1 DEF NameAvailable, IndexAdmits
<1>2. ContentInv => UploadsNeverWait
  BY <1>1 DEF UploadsNeverWait
<1>. QED
  BY <1>2, InitContent, NextContent, PTL DEF Spec

\* Content comes twice only by force or in one upload: what the check has
\* found stays true until the commit, since files only disappear meanwhile.
THEOREM LibraryContent == Spec => []ContentOnceUnlessForced
<1>1. ContentInv => ContentOnceUnlessForced
  BY DEF ContentInv, ContentAhead, ContentOnceUnlessForced, Present
<1>. QED
  BY <1>1, InitContent, NextContent, PTL DEF Spec

\* No visible row is without its object.
THEOREM LibraryObjects == Spec => []FilesHaveObjects
<1>1. ContentInv => FilesHaveObjects
  BY DEF ContentInv, UploadInv, ObjectsAhead, FilesHaveObjects, Present
<1>. QED
  BY <1>1, InitContent, NextContent, PTL DEF Spec

-----------------------------------------------------------------------------
(* The overview *)

\* A rebuild that will list file i, unless it fails.
Lists(w, i) ==
    rebuild[w].pc = "read" \/ (rebuild[w].pc = "put" /\ i \in rebuild[w].seen)

\* A file that is not listed will be, by a rebuild under way; and if one that
\* is not outdated will drop it from the listing, another will list it after.
Pending ==
    \A i \in Indexed :
        /\ behind \/ i \in listing.counted \/ \E w \in Workers : Lists(w, i)
        /\ \A v \in Workers :
            (rebuild[v].pc = "put" /\ ~rebuild[v].stale /\ i \notin rebuild[v].seen)
                => \E w \in Workers : Lists(w, i)

\* All that are counted are named, or as many as may be.
ListingCut == listing.named = listing.counted \/ Cardinality(listing.named) = MaxListed

OverviewInv == TypeOK /\ Pending /\ ListingCut

LEMMA PutListingCuts ==
    ASSUME NEW w \in Workers, PutListing(w)
    PROVE  /\ listing'.counted = rebuild[w].seen
           /\ listing'.named \subseteq listing'.counted
           /\ ListingCut'
<1>1. PICK named \in Listable(rebuild[w].seen) :
        listing' = [named |-> named, counted |-> rebuild[w].seen]
  BY DEF PutListing
<1>. QED
  BY <1>1 DEF Listable, ListingCut

LEMMA StartKeeps ==
    ASSUME OverviewInv, NEW w \in Workers, Start(w), UNCHANGED <<listing, behind>>,
           \A i \in Rows : i \in Indexed' => i \in Indexed \/ file'[i].status = "indexed"
    PROVE  Pending'
<1>1. /\ rebuild'[w].pc = "read" /\ rebuild[w].pc = "idle"
      /\ \A v \in Workers \ {w} : rebuild'[v] = rebuild[v]
  BY DEF OverviewInv, TypeOK, Start, NoRebuild
<1>2. \A i \in Indexed' : Lists(w, i)'
  BY <1>1 DEF Lists
<1>. QED
  BY <1>2 DEF Pending

LEMMA SameRebuildsKeep ==
    ASSUME OverviewInv, UNCHANGED overview, Indexed' \subseteq Indexed
    PROVE  Pending'
  BY DEF OverviewInv, Pending, Lists, overview

\* After it every rebuild that has read its rows before is outdated.
LEMMA OutdatedKeeps ==
    ASSUME OverviewInv, NEW w \in Workers, NEW others \in [Workers -> Rebuilds],
           rebuild' = Outdate(w, others), others[w].pc # "put",
           \A v \in Workers \ {w} : others[v] = rebuild[v],
           Indexed' \subseteq Indexed,
           \A i \in Indexed' :
              behind' \/ i \in listing'.counted \/ \E v \in Workers \ {w} : Lists(v, i)
    PROVE  Pending'
<1>1. /\ rebuild'[w] = others[w]
      /\ \A v \in Workers \ {w} :
            rebuild'[v] = [rebuild[v] EXCEPT !.stale = @ \/ rebuild[v].pc = "put"]
  BY DEF Outdate
<1>2. ASSUME NEW v \in Workers \ {w}
      PROVE  /\ rebuild'[v].pc = rebuild[v].pc /\ rebuild'[v].seen = rebuild[v].seen
             /\ rebuild'[v].pc = "put" => rebuild'[v].stale
  <2>1. rebuild[v] \in Rebuilds
    BY DEF OverviewInv, TypeOK
  <2>. QED
    BY <1>1, <2>1 DEF Rebuilds
<1>3. \A v \in Workers : rebuild'[v].pc = "put" => rebuild'[v].stale
  BY <1>1, <1>2
<1>4. \A i, v : v \in Workers \ {w} /\ Lists(v, i) => Lists(v, i)'
  BY <1>2 DEF Lists
<1>. QED
  BY <1>3, <1>4 DEF Pending

LEMMA RebuildKeeps ==
    ASSUME OverviewInv, NEW w \in Workers, Rebuild(w)
    PROVE  Pending'
<1>. USE DEF OverviewInv, TypeOK
<1>1. Indexed' = Indexed
  BY DEF Rebuild, AskRebuild, ReadRows, PutListing, SaveOverall, Missed, uploads, Indexed
<1>2. CASE AskRebuild(w)
  BY <1>1, <1>2, StartKeeps DEF AskRebuild
<1>3. CASE ReadRows(w)
  <2>1. /\ rebuild'[w].pc = "put" /\ rebuild'[w].seen = Indexed
        /\ \A v \in Workers \ {w} : rebuild'[v] = rebuild[v]
    BY <1>3 DEF ReadRows
  <2>2. \A i \in Indexed : Lists(w, i)'
    BY <2>1 DEF Lists
  <2>. QED
    BY <1>1, <2>2 DEF Pending
<1>4. CASE PutListing(w)
  <2>. DEFINE others == [rebuild EXCEPT ![w].pc = "save"]
  <2>1. /\ others \in [Workers -> Rebuilds] /\ others[w].pc = "save"
        /\ \A v \in Workers \ {w} : others[v] = rebuild[v]
    BY DEF Rebuilds
  <2>2. ASSUME NEW i \in Indexed, ~behind', i \notin listing'.counted
        PROVE  \E v \in Workers \ {w} : Lists(v, i)
    <3>1. rebuild[w].pc = "put" /\ ~rebuild[w].stale /\ i \notin rebuild[w].seen
      BY <1>4, <2>2, PutListingCuts DEF PutListing
    <3>2. PICK v \in Workers : Lists(v, i)
      BY <3>1 DEF Pending
    <3>. QED
      BY <3>1, <3>2 DEF Lists
  <2>3. rebuild' = Outdate(w, others)
    BY <1>4 DEF PutListing
  <2>. HIDE DEF others
  <2>. QED
    BY <1>1, <2>1, <2>2, <2>3, OutdatedKeeps
<1>5. CASE SaveOverall(w)
  <2>1. /\ rebuild[w].pc = "save" /\ rebuild'[w].pc = "idle"
        /\ \A v \in Workers \ {w} : rebuild'[v] = rebuild[v]
    BY <1>5 DEF SaveOverall, NoRebuild
  <2>2. \A v \in Workers, i \in Rows : Lists(v, i) => Lists(v, i)'
    BY <2>1 DEF Lists
  <2>. QED
    BY <1>1, <1>5, <2>1, <2>2 DEF SaveOverall, Pending, Indexed
<1>6. CASE Missed(w)
  <2>. DEFINE others == [rebuild EXCEPT ![w] = NoRebuild]
  <2>1. /\ others \in [Workers -> Rebuilds] /\ others[w].pc = "idle"
        /\ \A v \in Workers \ {w} : others[v] = rebuild[v]
    BY DEF NoRebuild, Rebuilds
  <2>2. ASSUME NEW i \in Indexed, ~behind', i \notin listing'.counted
        PROVE  \E v \in Workers \ {w} : Lists(v, i)
    <3>1. rebuild[w].pc = "save" /\ ~behind /\ i \notin listing.counted
      BY <1>6, <2>2 DEF Missed
    <3>. QED
      BY <3>1 DEF Pending, Lists
  <2>3. rebuild' = Outdate(w, others)
    BY <1>6 DEF Missed
  <2>. HIDE DEF others
  <2>. QED
    BY <1>1, <2>1, <2>2, <2>3, OutdatedKeeps
<1>. QED
  BY <1>2, <1>3, <1>4, <1>5, <1>6 DEF Rebuild

LEMMA UploadIndexesNone ==
    ASSUME ContentInv, NEW r \in Requests, Upload(r)
    PROVE  Indexed' \subseteq Indexed /\ UNCHANGED overview
<1>. USE DEF Indexed
<1>1. UNCHANGED overview
  BY DEF Upload, BeginUpload, CheckUpload, RefuseUpload, StoreFile, AbandonUpload, CommitUpload
<1>2. ASSUME NEW i \in Rows, StoreFile(r, i)
      PROVE  Indexed' \subseteq Indexed
  BY <1>2 DEF StoreFile, Draft, ContentInv, UploadInv, TypeOK
<1>3. CASE AbandonUpload(r)
  BY <1>3 DEF AbandonUpload, RolledBack, NoFile
<1>4. CASE CommitUpload(r)
  <2>1. \A i \in Rows : [file[i] EXCEPT !.status = "queued"].status = "queued"
    BY DEF ContentInv, UploadInv, TypeOK, FileRows
  <2>. QED
    BY <1>4, <2>1 DEF CommitUpload
<1>5. ASSUME UNCHANGED file
      PROVE  Indexed' \subseteq Indexed
  BY <1>5
<1>6. \/ UNCHANGED file
      \/ \E i \in Rows : StoreFile(r, i)
      \/ AbandonUpload(r)
      \/ CommitUpload(r)
  BY DEF Upload, BeginUpload, CheckUpload, RefuseUpload
<1>. QED
  BY <1>1, <1>2, <1>3, <1>4, <1>5, <1>6

LEMMA OfFileKeeps ==
    ASSUME OverviewInv, NEW i \in Rows, OfFile(i)
    PROVE  Pending'
<1>. USE DEF OverviewInv, TypeOK, Indexed
<1>1. ASSUME SetFile(i, "processing") \/ SetFile(i, "failed") \/ SetFile(i, "deleted"),
             UNCHANGED overview
      PROVE  Pending'
  BY <1>1, SameRebuildsKeep DEF SetFile, FileRows
<1>2. ASSUME NEW w \in Workers, ChunkFile(w, i)
      PROVE  Pending'
  BY <1>2, StartKeeps DEF ChunkFile, uploads
<1>3. ASSUME NEW w \in Workers, IndexFile(w, i)
      PROVE  Pending'
  BY <1>3, StartKeeps DEF IndexFile
<1>. QED
  BY <1>1, <1>2, <1>3 DEF OfFile, ParseFile, FailFile, DeleteFile

LEMMA NextCut == ListingCut /\ [Next]_vars => ListingCut'
<1>. SUFFICES ASSUME ListingCut, [Next]_vars
              PROVE  ListingCut'
  OBVIOUS
<1>1. CASE UNCHANGED listing
  BY <1>1 DEF ListingCut
<1>2. ASSUME NEW r \in Requests, Upload(r)
      PROVE  UNCHANGED listing
  BY <1>2 DEF Upload, BeginUpload, CheckUpload, RefuseUpload, StoreFile, AbandonUpload,
              CommitUpload, overview
<1>3. ASSUME NEW i \in Rows, OfFile(i)
      PROVE  UNCHANGED listing
  BY <1>3 DEF OfFile, ParseFile, FailFile, DeleteFile, ChunkFile, IndexFile, overview
<1>4. ASSUME NEW w \in Workers, Rebuild(w)
      PROVE  UNCHANGED listing \/ PutListing(w)
  BY <1>4 DEF Rebuild, AskRebuild, ReadRows, SaveOverall, Missed
<1>5. ASSUME NEW s \in BaseStatuses, SetStatus(s)
      PROVE  UNCHANGED listing
  BY <1>5 DEF SetStatus, overview
<1>6. CASE UNCHANGED vars
  BY <1>1, <1>6 DEF vars, overview
<1>. QED
  BY <1>1, <1>2, <1>3, <1>4, <1>5, <1>6, PutListingCuts DEF Next

LEMMA NextOverview == ContentInv /\ OverviewInv /\ [Next]_vars => OverviewInv'
<1>. SUFFICES ASSUME ContentInv, OverviewInv, [Next]_vars
              PROVE  Pending'
  BY NextTyped, NextCut DEF OverviewInv
<1>1. ASSUME NEW s \in BaseStatuses, SetStatus(s)
      PROVE  Pending'
  BY <1>1, SameRebuildsKeep DEF SetStatus, uploads, Indexed
<1>2. CASE UNCHANGED vars
  BY <1>2, SameRebuildsKeep DEF vars, uploads, Indexed
<1>. QED
  BY <1>1, <1>2, UploadIndexesNone, SameRebuildsKeep, OfFileKeeps, RebuildKeeps DEF Next

\* The overview is current when no rebuild is under way and none was missed
\* or put what another had overtaken.
THEOREM LibraryOverview == Spec => []OverviewIsCurrent
<1>1. Init => OverviewInv
  BY InitTyped DEF Init, NoFile, Indexed, OverviewInv, Pending, ListingCut
<1>2. OverviewInv => OverviewIsCurrent
  BY DEF OverviewInv, Pending, ListingCut, OverviewIsCurrent, Lists
<1>. QED
  BY <1>1, <1>2, InitContent, NextContent, NextOverview, PTL DEF Spec
=============================================================================
