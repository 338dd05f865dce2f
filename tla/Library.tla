------------------------------ MODULE Library ------------------------------
(***************************************************************************)
(* A knowledge base, the uploads into it, and its overview (overall.md).   *)
(*                                                                         *)
(* upload_files is a coroutine of the one process that serves requests: it *)
(* is interleaved with others while it reads the bodies, and from its      *)
(* first query for duplicates to its commit it holds the event loop.       *)
(* Deletes and parse jobs run in threads, and go on meanwhile.             *)
(* The overview is an object written from rows that were read              *)
(* before, by whoever asks for a rebuild, in no order.                     *)
(***************************************************************************)
EXTENDS Naturals, Sequences, FiniteSets

CONSTANTS
    Names,      \* file names
    Contents,   \* what files hold; two contents have the same hash iff equal
    NoName, NoContent,
    Requests,   \* uploads that may be under way at a time
    Workers,    \* rebuilds of the overview that may be under way at a time
    MaxFiles,   \* bound: rows of files that are ever flushed
    MaxListed,  \* names an overview gives, at most (20 in the code)
    MaxBatch    \* settings.max_batch_upload_count

ASSUME LibraryAssumption ==
    /\ NoName \notin Names
    /\ NoContent \notin Contents
    /\ MaxFiles \in Nat \ {0}
    /\ MaxListed \in Nat \ {0}
    /\ MaxBatch \in Nat \ {0}

VARIABLES
    base,       \* knowledge_bases.status
    file,       \* files
    stored,     \* raw-files: the files whose object was put
    request,    \* uploads
    overall,    \* settings["overall"] of the knowledge base is there
    listing,    \* overall.md: the files it names, and those it counts
    rebuild,    \* rebuilds of the overview
    behind      \* history: the overview may lack a file (see Missed, PutListing)

uploads == <<file, stored, request>>
overview == <<overall, listing, rebuild, behind>>
vars == <<base, uploads, overview>>

-----------------------------------------------------------------------------
(* Types *)

BaseStatuses == {"active", "deleting", "deleted"}
Rows == 1 .. MaxFiles
Batches == UNION {[1 .. n -> Names \X Contents] : n \in 1 .. MaxBatch}

\* A row that is flushed and not committed is a draft of its request; one that
\* was rolled back is dropped, and its id, a fresh UUID, never used again.
\* forced and first (the first file of the same upload) are history.
FileStatuses == {"none", "draft", "dropped", "queued", "processing", "indexed", "failed", "deleted"}
VisibleStatuses == {"queued", "processing", "indexed", "failed"}

FileRows == [status : FileStatuses, name : Names \cup {NoName},
             content : Contents \cup {NoContent}, forced : BOOLEAN, first : 0 .. MaxFiles]
NoFile == [status |-> "none", name |-> NoName, content |-> NoContent,
           forced |-> FALSE, first |-> 0]

Uploads == [pc : {"idle", "reading", "storing"}, batch : Batches \cup {<<>>},
            force : BOOLEAN, mine : SUBSET Rows]
Idle == [pc |-> "idle", batch |-> <<>>, force |-> FALSE, mine |-> {}]

\* stale: since the rows were read, the object was put by another rebuild, or
\* another rebuild was missed.
Rebuilds == [pc : {"idle", "read", "put", "save"}, seen : SUBSET Rows, stale : BOOLEAN]
NoRebuild == [pc |-> "idle", seen |-> {}, stale |-> FALSE]

\* Of the files that were counted only the number is printed.
Listings == [named : SUBSET Rows, counted : SUBSET Rows]

TypeOK ==
    /\ base \in BaseStatuses
    /\ file \in [Rows -> FileRows]
    /\ stored \in SUBSET Rows
    /\ request \in [Requests -> Uploads]
    /\ overall \in BOOLEAN
    /\ listing \in Listings
    /\ rebuild \in [Workers -> Rebuilds]
    /\ behind \in BOOLEAN

-----------------------------------------------------------------------------
(* Queries *)

\* File.deleted_at IS NULL
Visible(i) == file[i].status \in VisibleStatuses

Indexed == {i \in Rows : file[i].status = "indexed"}

\* require_active_knowledge_base
Active == base = "active"

-----------------------------------------------------------------------------
(* The knowledge base *)

\* Faulty variant: a status that the request does not name is written as NULL.
SetStatusAbsent(s) ==
    /\ base' = NoName
    /\ UNCHANGED <<uploads, overview>>

\* update_knowledge_base, and delete_knowledge_base: no file, job or object is
\* touched.
SetStatus(s) ==
    /\ base' = s
    /\ UNCHANGED <<uploads, overview>>

-----------------------------------------------------------------------------
(* POST /knowledge-bases/{id}/files/upload *)

BeginUpload(r) ==
    /\ request[r].pc = "idle"
    /\ Active
    /\ request' = [request EXCEPT ![r].pc = "reading"]
    /\ UNCHANGED <<base, file, stored, overview>>

\* Faulty variant: the loop is given up between the checks and the commit, as
\* it would be if put_object were awaited.
LoopGivenUp == TRUE

\* No other upload is between its checks and its commit.
LoopFree == \A r \in Requests : request[r].pc # "storing"

\* ensure_unique_incoming_names
NamesDiffer(batch) ==
    \A k, l \in DOMAIN batch : k # l => batch[k][1] # batch[l][1]

\* find_duplicate_hashes: the same content under another name, among the rows
\* of the database; the files of the batch are not compared with each other.
Duplicates(batch) ==
    \E k \in DOMAIN batch, i \in Rows :
        Visible(i) /\ file[i].content = batch[k][2] /\ file[i].name # batch[k][1]

\* The bodies are read, and what is in the request looked at; the checks pass.
\* force is noted where it was needed.
CheckUpload(r, batch, force) ==
    /\ request[r].pc = "reading"
    /\ LoopFree
    /\ NamesDiffer(batch)
    /\ force \/ ~Duplicates(batch)
    /\ request' = [request EXCEPT ![r] = [pc |-> "storing", batch |-> batch,
                                          force |-> force /\ Duplicates(batch), mine |-> {}]]
    /\ UNCHANGED <<base, file, stored, overview>>

\* An extension, a size, a name or a content that is refused.
RefuseUpload(r) ==
    /\ request[r].pc = "reading"
    /\ request' = [request EXCEPT ![r] = Idle]
    /\ UNCHANGED <<base, file, stored, overview>>

\* The file of the batch that is stored next.
Current(r) == request[r].batch[Cardinality(request[r].mine) + 1]
MoreToStore(r) == Cardinality(request[r].mine) < Len(request[r].batch)

\* ensure_file_name_available: rows of the database, and those this session
\* has flushed.
NameAvailable(r) ==
    \A i \in Rows : (Visible(i) \/ i \in request[r].mine) => file[i].name # Current(r)[1]

\* uq_files_kb_filename_active, unique where deleted_at is null: it refuses a
\* name that is taken, and makes the flush wait for a transaction that has
\* flushed it and may still roll back.
IndexAdmits(r) ==
    \A i \in Rows : (Visible(i) \/ file[i].status = "draft") => file[i].name # Current(r)[1]

\* The first file of the upload that i comes in; all files of it say the same.
FirstOf(r, i) ==
    IF request[r].mine = {} THEN i ELSE file[CHOOSE j \in request[r].mine : TRUE].first

\* The row of the file, flushed under a fresh id.
Draft(r, i) ==
    /\ file[i].status = "none"
    /\ \A j \in Rows : file[j].status = "none" => i <= j
    /\ file' = [file EXCEPT ![i] = [status |-> "draft", name |-> Current(r)[1],
                                    content |-> Current(r)[2], forced |-> request[r].force,
                                    first |-> FirstOf(r, i)]]
    /\ request' = [request EXCEPT ![r].mine = @ \cup {i}]

\* Faulty variant: the object may be put later.
StoreFileLater(r, i) ==
    /\ request[r].pc = "storing"
    /\ MoreToStore(r)
    /\ NameAvailable(r)
    /\ IndexAdmits(r)
    /\ Draft(r, i)
    /\ stored' \in {stored, stored \cup {i}}
    /\ UNCHANGED <<base, overview>>

\* Row, object, parse job and audit entry of the next file of the batch.
StoreFile(r, i) ==
    /\ request[r].pc = "storing"
    /\ MoreToStore(r)
    /\ NameAvailable(r)
    /\ IndexAdmits(r)
    /\ Draft(r, i)
    /\ stored' = stored \cup {i}
    /\ UNCHANGED <<base, overview>>

RolledBack(r) ==
    [i \in Rows |-> IF i \in request[r].mine THEN [NoFile EXCEPT !.status = "dropped"] ELSE file[i]]

\* The name is taken, or put_object or the database fails: nothing of the
\* batch is committed, and the objects that were put stay.
AbandonUpload(r) ==
    /\ request[r].pc = "storing"
    /\ file' = RolledBack(r)
    /\ request' = [request EXCEPT ![r] = Idle]
    /\ UNCHANGED <<base, stored, overview>>

CommitUpload(r) ==
    /\ request[r].pc = "storing"
    /\ ~MoreToStore(r)
    /\ file' = [i \in Rows |-> IF i \in request[r].mine
                                 THEN [file[i] EXCEPT !.status = "queued"] ELSE file[i]]
    /\ request' = [request EXCEPT ![r] = Idle]
    /\ UNCHANGED <<base, stored, overview>>

-----------------------------------------------------------------------------
(* What becomes of a file: see ParsePipeline for how *)

SetFile(i, s) == file' = [file EXCEPT ![i].status = s]

\* retry_parse_file, and submit_queued_parse_job.
ParseFile(i) ==
    /\ Visible(i) /\ file[i].status # "processing"
    /\ file[i].status = "queued" \/ Active
    /\ SetFile(i, "processing")
    /\ UNCHANGED <<base, stored, request, overview>>

FailFile(i) ==
    /\ file[i].status = "processing"
    /\ SetFile(i, "failed")
    /\ UNCHANGED <<base, stored, request, overview>>

\* delete_file: the overview is not rebuilt.
DeleteFile(i) ==
    /\ Visible(i)
    /\ SetFile(i, "deleted")
    /\ UNCHANGED <<base, stored, request, overview>>

Start(w) ==
    /\ rebuild[w].pc = "idle"
    /\ rebuild' = [rebuild EXCEPT ![w] = [NoRebuild EXCEPT !.pc = "read"]]

\* Chunks were generated, or could not be: a rebuild follows in any case.
ChunkFile(w, i) ==
    /\ file[i].status \in {"processing", "failed"}
    /\ Start(w)
    /\ UNCHANGED <<base, uploads, overall, listing, behind>>

\* Faulty variant: the rows were read before the status was committed.
IndexFileLate(w, i) ==
    /\ file[i].status = "processing"
    /\ SetFile(i, "indexed")
    /\ rebuild[w].pc = "idle"
    /\ rebuild' = [rebuild EXCEPT ![w] = [pc |-> "put", seen |-> Indexed, stale |-> FALSE]]
    /\ UNCHANGED <<base, stored, request, overall, listing, behind>>

\* index_parse_job: the status is committed, then the overview is rebuilt.
IndexFile(w, i) ==
    /\ file[i].status = "processing"
    /\ SetFile(i, "indexed")
    /\ Start(w)
    /\ UNCHANGED <<base, stored, request, overall, listing, behind>>

-----------------------------------------------------------------------------
(* The overview: rebuild_knowledge_base_overall, read_knowledge_base_overall *)

ReadRows(w) ==
    /\ rebuild[w].pc = "read"
    /\ rebuild' = [rebuild EXCEPT ![w] = [pc |-> "put", seen |-> Indexed, stale |-> FALSE]]
    /\ UNCHANGED <<base, uploads, overall, listing, behind>>

\* The rebuilds that have read their rows before this step no longer know.
Outdate(w, others) ==
    [v \in Workers |-> IF v = w THEN others[v]
                       ELSE [others[v] EXCEPT !.stale = @ \/ others[v].pc = "put"]]

\* indexed_files[:20]: which ones are named, by created_at, is left open.
Listable(rows) ==
    IF Cardinality(rows) <= MaxListed THEN {rows}
    ELSE {named \in SUBSET rows : Cardinality(named) = MaxListed}

PutListing(w) ==
    /\ rebuild[w].pc = "put"
    /\ \E named \in Listable(rebuild[w].seen) :
        listing' = [named |-> named, counted |-> rebuild[w].seen]
    /\ behind' = rebuild[w].stale
    /\ rebuild' = Outdate(w, [rebuild EXCEPT ![w].pc = "save"])
    /\ UNCHANGED <<base, uploads, overall>>

SaveOverall(w) ==
    /\ rebuild[w].pc = "save"
    /\ overall' = TRUE
    /\ rebuild' = [rebuild EXCEPT ![w] = NoRebuild]
    /\ UNCHANGED <<base, uploads, listing, behind>>

\* A rebuild fails before its put (logged, and the job goes on), or after.
Missed(w) ==
    /\ rebuild[w].pc # "idle"
    /\ behind' = (behind \/ rebuild[w].pc # "save")
    /\ rebuild' = Outdate(w, [rebuild EXCEPT ![w] = NoRebuild])
    /\ UNCHANGED <<base, uploads, overall, listing>>

\* A question about the whole knowledge base finds no overview in the settings
\* or cannot get the object, or dev/rebuild_knowledge_overalls is run.
AskRebuild(w) ==
    /\ Start(w)
    /\ UNCHANGED <<base, uploads, overall, listing, behind>>

-----------------------------------------------------------------------------
(* A process that dies takes with it what it has under way: see            *)
(* RefuseUpload, AbandonUpload and Missed.                                 *)

Init ==
    /\ base = "active"
    /\ file = [i \in Rows |-> NoFile]
    /\ stored = {}
    /\ request = [r \in Requests |-> Idle]
    /\ overall = FALSE
    /\ listing = [named |-> {}, counted |-> {}]
    /\ rebuild = [w \in Workers |-> NoRebuild]
    /\ behind = FALSE

Upload(r) ==
    \/ BeginUpload(r)
    \/ \E batch \in Batches, force \in BOOLEAN : CheckUpload(r, batch, force)
    \/ RefuseUpload(r)
    \/ \E i \in Rows : StoreFile(r, i)
    \/ AbandonUpload(r)
    \/ CommitUpload(r)

OfFile(i) ==
    \/ ParseFile(i) \/ FailFile(i) \/ DeleteFile(i)
    \/ \E w \in Workers : ChunkFile(w, i) \/ IndexFile(w, i)

Rebuild(w) ==
    \/ AskRebuild(w)
    \/ ReadRows(w) \/ PutListing(w) \/ SaveOverall(w) \/ Missed(w)

Next ==
    \/ \E s \in BaseStatuses : SetStatus(s)
    \/ \E r \in Requests : Upload(r)
    \/ \E i \in Rows : OfFile(i)
    \/ \E w \in Workers : Rebuild(w)

Spec == Init /\ [][Next]_vars

-----------------------------------------------------------------------------
(* Safety *)

\* An upload that has found a name available does not wait in the unique index
\* for another upload that has flushed it: it would hold the event loop, and
\* the other needs the loop to commit or to roll back.
UploadsNeverWait ==
    \A r \in Requests :
        (request[r].pc = "storing" /\ MoreToStore(r) /\ NameAvailable(r)) => IndexAdmits(r)

\* A file with the content of an older one is there only because its upload
\* was forced, or came in the same batch: a check before the upload's own slow
\* stores is not overtaken by another upload.
ContentOnceUnlessForced ==
    \A i, j \in Rows :
        (i < j /\ Visible(i) /\ Visible(j) /\ file[i].content = file[j].content)
            => file[j].forced \/ file[i].first = file[j].first

\* Every file that a parse job may ask for has its object, whichever upload
\* fails half way: rows become visible only after their objects are put.
FilesHaveObjects == \A i \in Rows : Visible(i) => i \in stored

\* With no rebuild under way the overview counts every file that can be
\* answered from, and names each unless it names as many as it may, unless a
\* rebuild failed, or put what it had read before another did (behind), since
\* the last one that ran through undisturbed.
OverviewIsCurrent ==
    (~behind /\ \A w \in Workers : rebuild[w].pc \notin {"read", "put"}) =>
        \A i \in Indexed :
            /\ i \in listing.counted
            /\ i \in listing.named \/ Cardinality(listing.named) = MaxListed
=============================================================================
