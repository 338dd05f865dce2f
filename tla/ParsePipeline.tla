--------------------------- MODULE ParsePipeline ---------------------------
(***************************************************************************)
(* The parse and index pipeline of one knowledge base: the rows of files,  *)
(* parse_jobs and chunks_metadata, the two search indexes (Qdrant and      *)
(* OpenSearch), the runners that advance a job (the ParseJobWorker loop    *)
(* and the background task of every upload and retry), and the admin calls *)
(* that work on a file at the same time (retry, delete, reindex).          *)
(*                                                                         *)
(* A step ends at every commit and at every call to another service, so    *)
(* that what a session read before the call is stale when it is used after *)
(* it.  No lock is taken between runners: `overlapped' records the files   *)
(* on which two advances were ever in progress at once, and a guarantee    *)
(* that needs a single advance is stated for the other files.              *)
(***************************************************************************)
EXTENDS Naturals, FiniteSets

CONSTANTS
    Files,       \* the files that may be uploaded
    NoFile,      \* the file_id of a job that does not exist yet
    MaxJobs,     \* bound: parse jobs created by uploads and retries
    MaxGens,     \* bound: chunk generations committed
    BatchSize,   \* parse_worker_batch_size
    MaxCrashes,  \* bound: crashes of the backend process
    Requests     \* the admin calls explored: a subset of RequestKinds

RequestKinds == {"retry", "delete", "reindex"}

ASSUME PipelineAssumption ==
    /\ NoFile \notin Files
    /\ MaxJobs \in Nat \ {0}
    /\ MaxGens \in Nat \ {0}
    /\ BatchSize \in Nat \ {0}
    /\ MaxCrashes \in Nat
    /\ Requests \subseteq RequestKinds

VARIABLES
    file,        \* files: status, deleted_at set, latest_parse_job_id
    job,         \* parse_jobs: status, file_id, the keys of logs that are read
    owner,       \* chunk generation -> the job that produced it, 0 when unused
    active,      \* the generations whose chunks have is_active = true
    qdrant,      \* Qdrant points of a generation
    bm25,        \* the generations whose documents are in OpenSearch
    run,         \* the session of each runner
    batch,       \* jobs the worker selected and has not run yet
    deletion,    \* a DELETE /files/{id} request in progress
    reindexing,  \* a POST /files/{id}/reindex request in progress
    crashes,     \* crashes so far
    withdrawn,   \* history: the generations whose points a reindex has taken out
                 \* of the vector search, or tried to, and no upsert put back
    overlapped   \* history: files on which two advances were in progress

vars == <<file, job, owner, active, qdrant, bm25, withdrawn, run, batch,
          deletion, reindexing, crashes, overlapped>>

-----------------------------------------------------------------------------
(* Types *)

Jobs == 1 .. MaxJobs
Gens == 1 .. MaxGens

\* Runner 0 is the worker; runner j is the background task of job j.
Worker == 0
Runners == 0 .. MaxJobs

\* Faulty variant: the worker forgets the embedding stage.
RunnableWithoutEmbedding == {"queued", "parsing", "normalizing", "chunking"}

RunnableStatuses == {"queued", "parsing", "normalizing", "chunking", "embedding"}
TerminalStatuses == {"indexed", "failed"}
JobStatuses == RunnableStatuses \cup {"indexing"} \cup TerminalStatuses \cup {"none"}
FileStatuses == {"none", "queued", "processing", "indexed", "failed", "deleted"}

\* The keys of parse_jobs.logs a handler reads: the MinerU batch id and the
\* location of the parsed result.
LogKeys == {"batch", "parsed"}

HandlerPcs == {"submit", "poll", "normalize", "chunk", "insert", "describe",
               "index", "embed", "vectors", "keywords", "finish"}
Pcs == HandlerPcs \cup {"idle", "advance"}

FileRow == [status : FileStatuses, deleted : BOOLEAN, latest : 0 .. MaxJobs]
JobRow == [status : JobStatuses, file : Files \cup {NoFile}, logs : SUBSET LogKeys]

\* What a runner's SQLAlchemy session holds: `prev' is previous_status, `seen'
\* and `logs' the values it loaded ("expired": to be loaded again), `gens' the
\* chunk generations of its current statement.
Session == [pc : Pcs, job : 0 .. MaxJobs, prev : JobStatuses,
            seen : FileStatuses \cup {"expired"}, logs : SUBSET LogKeys,
            gens : SUBSET Gens]

Call == [pc : {"idle", "vectors", "keywords", "deactivate", "commit"},
         file : Files \cup {NoFile}, gens : SUBSET Gens]

TypeOK ==
    /\ file \in [Files -> FileRow]
    /\ job \in [Jobs -> JobRow]
    /\ owner \in [Gens -> 0 .. MaxJobs]
    /\ active \in SUBSET Gens
    /\ qdrant \in [Gens -> {"absent", "active", "inactive"}]
    /\ bm25 \in SUBSET Gens
    /\ withdrawn \in SUBSET Gens
    /\ run \in [Runners -> Session]
    /\ batch \in SUBSET Jobs
    /\ deletion \in Call
    /\ reindexing \in Call
    /\ crashes \in 0 .. MaxCrashes
    /\ overlapped \in SUBSET Files

-----------------------------------------------------------------------------
(* Rows and queries *)

FileOf(g) == job[owner[g]].file

Visible(f) == file[f].status # "none" /\ ~file[f].deleted

\* ChunkMetadata.file_id = f and is_active: the rows one UPDATE deactivates.
ActiveChunks(f) == {g \in active : FileOf(g) = f}

\* The chunks load_chunks may hand to an answer.
Retrievable(f) ==
    IF Visible(f) /\ file[f].status = "indexed" THEN ActiveChunks(f) ELSE {}

\* Jobs process_pending_parse_jobs_once selects before its LIMIT.
RunnableJobs ==
    {j \in Jobs : /\ job[j].status \in RunnableStatuses
                  /\ Visible(job[j].file)
                  /\ file[job[j].file].latest = j}

\* ORDER BY created_at LIMIT batch_size: jobs are numbered as they are created.
Selected(S) == {j \in S : Cardinality({i \in S : i < j}) < BatchSize}

-----------------------------------------------------------------------------
(* Sessions *)

\* A session that has loaded nothing.
Fresh(pc, j, prev) == [pc |-> pc, job |-> j, prev |-> prev, seen |-> "none",
                       logs |-> {}, gens |-> {}]

Idle == Fresh("idle", 0, "none")
Start(j) == Fresh("advance", j, "none")

\* A runner is inside an advance of file f: it holds values it loaded.
Inside(r, f) == run[r].pc \in HandlerPcs /\ job[run[r].job].file = f

Handler(status) ==
    CASE status = "queued"      -> "submit"
      [] status = "parsing"     -> "poll"
      [] status = "normalizing" -> "normalize"
      [] status = "chunking"    -> "chunk"
      [] status = "embedding"   -> "describe"

\* A flush writes a column only when it differs from the value loaded.
WriteFileStatus(f, seen, status) ==
    file' = IF seen = status THEN file ELSE [file EXCEPT ![f].status = status]

WriteJob(j, status, logs) ==
    job' = [job EXCEPT ![j].status = status, ![j].logs = logs]

\* The handler returns and the runner compares the status with previous_status.
Return(r) == run' = [run EXCEPT ![r] = Fresh("advance", run[r].job, run[r].prev)]

Goto(r, pc) == run' = [run EXCEPT ![r].pc = pc]

rowVars == <<file, job>>
chunkVars == <<owner, active>>
indexVars == <<qdrant, bm25, withdrawn>>
callVars == <<deletion, reindexing>>
outsideVars == <<batch, callVars, crashes, overlapped>>

\* Job and file of runner r move on to the next stage in one commit.
WriteProgress(r, status, logs) ==
    /\ WriteJob(run[r].job, status, logs)
    /\ WriteFileStatus(job[run[r].job].file, run[r].seen, "processing")

\* Faulty variants: only the job is marked failed, or the file goes back into
\* service with the chunks it still has.
FailJobOnly(r, seen, logs) ==
    /\ WriteJob(run[r].job, "failed", logs)
    /\ UNCHANGED file

FailToOldVersion(r, seen, logs) ==
    LET f == job[run[r].job].file IN
    /\ WriteJob(run[r].job, "failed", logs)
    /\ WriteFileStatus(f, seen, IF ActiveChunks(f) = {} THEN "failed" ELSE "indexed")

\* Job and file of runner r are marked failed in one commit.
WriteFailure(r, seen, logs) ==
    /\ WriteJob(run[r].job, "failed", logs)
    /\ WriteFileStatus(job[run[r].job].file, seen, "failed")

\* A handler that touches no chunk and no index ends with one of these commits.
MoveOn(r, status, logs) ==
    WriteProgress(r, status, logs) /\ Return(r) /\ UNCHANGED <<chunkVars, indexVars, outsideVars>>

Fail(r, seen, logs) ==
    WriteFailure(r, seen, logs) /\ Return(r) /\ UNCHANGED <<chunkVars, indexVars, outsideVars>>

\* ... or with nothing written.
GiveUp(r) == Return(r) /\ UNCHANGED <<rowVars, chunkVars, indexVars, outsideVars>>

-----------------------------------------------------------------------------
(* Requests that start work *)

NewJob(j, f) ==
    /\ job[j].status = "none"
    /\ \A i \in Jobs : i < j => job[i].status # "none"
    /\ job' = [job EXCEPT ![j] = [status |-> "queued", file |-> f, logs |-> {}]]
    /\ run' = [run EXCEPT ![j] = Start(j)]

\* POST /knowledge-bases/{id}/files/upload, and its background task.
Upload(f) ==
    /\ file[f].status = "none"
    /\ \E j \in Jobs :
        /\ NewJob(j, f)
        /\ file' = [file EXCEPT ![f] = [status |-> "queued", deleted |-> FALSE,
                                       latest |-> j]]
    /\ UNCHANGED <<chunkVars, indexVars, outsideVars>>

\* POST /files/{id}/retry-parse: allowed in every state of a visible file.
Retry(f) ==
    /\ "retry" \in Requests
    /\ Visible(f)
    /\ \E j \in Jobs :
        /\ NewJob(j, f)
        /\ file' = [file EXCEPT ![f].status = "processing", ![f].latest = j]
    /\ UNCHANGED <<chunkVars, indexVars, outsideVars>>

-----------------------------------------------------------------------------
(* The worker and the guard of every advance *)

\* The worker's poll: the next batch, once the last one is done.
WorkerPoll ==
    /\ run[Worker].pc = "idle"
    /\ batch = {}
    /\ batch' = Selected(RunnableJobs)
    /\ UNCHANGED <<rowVars, chunkVars, indexVars, run, callVars, crashes, overlapped>>

\* run_parse_job_until_waiting on the oldest job of the batch.
WorkerNext ==
    /\ run[Worker].pc = "idle"
    /\ \E j \in batch :
        /\ \A i \in batch : j <= i
        /\ batch' = batch \ {j}
        /\ run' = [run EXCEPT ![Worker] = Start(j)]
    /\ UNCHANGED <<rowVars, chunkVars, indexVars, callVars, crashes, overlapped>>

\* The job moved since this runner last looked, and may be advanced further.
MayAdvance(r) ==
    LET j == run[r].job IN
    /\ job[j].status # run[r].prev
    /\ job[j].status \in RunnableStatuses
    /\ Visible(job[j].file)
    /\ file[job[j].file].latest = j

\* advance_parse_job_once loads the job and its file and picks the handler.
Advance(r) ==
    LET j == run[r].job
        f == job[j].file IN
    /\ run[r].pc = "advance"
    /\ MayAdvance(r)
    /\ run' = [run EXCEPT ![r] = [@ EXCEPT !.pc = Handler(job[j].status),
                                          !.prev = job[j].status,
                                          !.seen = file[f].status,
                                          !.logs = job[j].logs]]
    /\ overlapped' = IF \E q \in Runners : Inside(q, f)
                       THEN overlapped \cup {f} ELSE overlapped
    /\ UNCHANGED <<rowVars, chunkVars, indexVars, batch, callVars, crashes>>

\* The runner has nothing left to do on this job.
Leave(r) ==
    /\ run[r].pc = "advance"
    /\ ~MayAdvance(r)
    /\ run' = [run EXCEPT ![r] = Idle]
    /\ UNCHANGED <<rowVars, chunkVars, indexVars, outsideVars>>

\* Faulty variant: an exception sends the job back to the start.
AbortRequeues(r) ==
    /\ run[r].pc \in {"submit", "poll", "normalize", "describe"}
    /\ run' = [run EXCEPT ![r] = Idle]
    /\ job' = [job EXCEPT ![run[r].job].status = "queued"]
    /\ UNCHANGED <<file, chunkVars, indexVars, outsideVars>>

\* An exception ends the run: the session is rolled back, the job is left as it is.
Abort(r) ==
    /\ run[r].pc \in {"submit", "poll", "normalize", "describe"}
    /\ run' = [run EXCEPT ![r] = Idle]
    /\ UNCHANGED <<rowVars, chunkVars, indexVars, outsideVars>>

-----------------------------------------------------------------------------
(* QUEUED and PARSING: MinerU *)

Submitted(r) ==
    /\ run[r].pc = "submit"
    /\ MoveOn(r, "parsing", run[r].logs \cup {"batch"})

\* Faulty variant: a status outside the enumeration.
SubmitRejectedUnnamed(r) ==
    /\ run[r].pc = "submit"
    /\ MoveOn(r, "rejected", run[r].logs)

SubmitRejected(r) ==
    /\ run[r].pc = "submit"
    /\ Fail(r, run[r].seen, run[r].logs)

\* No batch id, or the answer the logs already hold: nothing is written.
PollUnchanged(r) ==
    /\ run[r].pc = "poll"
    /\ GiveUp(r)

\* Not done yet: the logs, as they were loaded, are written back with the answer.
PollWaiting(r) ==
    /\ run[r].pc = "poll"
    /\ "batch" \in run[r].logs
    /\ job' = [job EXCEPT ![run[r].job].logs = run[r].logs]
    /\ Return(r)
    /\ UNCHANGED <<file, chunkVars, indexVars, outsideVars>>

PollDone(r) ==
    /\ run[r].pc = "poll"
    /\ "batch" \in run[r].logs
    /\ MoveOn(r, "normalizing", run[r].logs \cup {"parsed"})

\* MINERU_PARSE_FAILED, or done without a result to download.
PollFailed(r) ==
    /\ run[r].pc = "poll"
    /\ "batch" \in run[r].logs
    /\ Fail(r, run[r].seen, run[r].logs)

-----------------------------------------------------------------------------
(* NORMALIZING *)

\* The logs do not say where the parsed result is.
NormalizeSkipped(r) ==
    /\ run[r].pc = "normalize"
    /\ "parsed" \notin run[r].logs
    /\ GiveUp(r)

Normalized(r) ==
    /\ run[r].pc = "normalize"
    /\ "parsed" \in run[r].logs
    /\ MoveOn(r, "chunking", run[r].logs)

NormalizedEmpty(r) ==
    /\ run[r].pc = "normalize"
    /\ "parsed" \in run[r].logs
    /\ Fail(r, run[r].seen, run[r].logs)

-----------------------------------------------------------------------------
(* CHUNKING: the old generation goes and the new one comes in one commit. *)
(* A normalized job has blocks, so NO_DOCUMENT_BLOCKS is not reached.      *)

\* The active chunks of job j.
JobChunks(j) == {g \in active : owner[g] = j}

\* Faulty variant: only the chunks of the job itself are deactivated.
DeactivateOwn(r) ==
    /\ run[r].pc = "chunk"
    /\ run' = [run EXCEPT ![r].pc = "insert", ![r].gens = JobChunks(run[r].job)]
    /\ UNCHANGED <<rowVars, chunkVars, indexVars, outsideVars>>

\* The UPDATE that deactivates chunks works on what is active as it starts.
Deactivate(r) ==
    /\ run[r].pc = "chunk"
    /\ run' = [run EXCEPT ![r].pc = "insert",
                          ![r].gens = ActiveChunks(job[run[r].job].file)]
    /\ UNCHANGED <<rowVars, chunkVars, indexVars, outsideVars>>

\* A transaction that has written the tsv column holds its chunk rows.
TsvLocked(S) ==
    \E q \in Runners : /\ run[q].pc \in {"vectors", "keywords", "finish"}
                        /\ run[q].gens \cap S # {}

\* Faulty variant: the new chunks are added to the old ones.
InsertBeside(r) ==
    /\ run[r].pc = "insert"
    /\ \E g \in Gens :
        /\ owner[g] = 0
        /\ \A h \in Gens : h < g => owner[h] # 0
        /\ owner' = [owner EXCEPT ![g] = run[r].job]
        /\ active' = active \cup {g}
    /\ WriteProgress(r, "embedding", run[r].logs)
    /\ Return(r)
    /\ UNCHANGED <<indexVars, outsideVars>>

InsertChunks(r) ==
    /\ run[r].pc = "insert"
    /\ ~TsvLocked(run[r].gens)
    /\ \E g \in Gens :
        /\ owner[g] = 0
        /\ \A h \in Gens : h < g => owner[h] # 0
        /\ owner' = [owner EXCEPT ![g] = run[r].job]
        /\ active' = (active \ run[r].gens) \cup {g}
    /\ WriteProgress(r, "embedding", run[r].logs)
    /\ Return(r)
    /\ UNCHANGED <<indexVars, outsideVars>>

\* NO_CHUNK_CONTENT: the old chunks are deactivated all the same.
InsertNothing(r) ==
    /\ run[r].pc = "insert"
    /\ ~TsvLocked(run[r].gens)
    /\ active' = active \ run[r].gens
    /\ WriteFailure(r, run[r].seen, run[r].logs)
    /\ Return(r)
    /\ UNCHANGED <<owner, indexVars, outsideVars>>

-----------------------------------------------------------------------------
(* EMBEDDING: image descriptions, then the two indexes *)

\* The logs a statement works on: a commit expires what the session loaded.
LogsSeen(r) ==
    IF run[r].seen = "expired" THEN job[run[r].job].logs ELSE run[r].logs

\* enrich_image_chunk_descriptions commits only when there are image chunks.
DescribeImages(r) ==
    LET j == run[r].job IN
    /\ run[r].pc = "describe"
    /\ JobChunks(j) # {}
    /\ job' = [job EXCEPT ![j].logs = run[r].logs]
    /\ run' = [run EXCEPT ![r].pc = "index", ![r].seen = "expired"]
    /\ UNCHANGED <<file, chunkVars, indexVars, outsideVars>>

StartIndexing(r) ==
    LET j == run[r].job IN
    /\ run[r].pc \in {"describe", "index"}
    /\ JobChunks(j) # {}
    /\ WriteJob(j, "indexing", LogsSeen(r))
    /\ run' = [run EXCEPT ![r].pc = "embed", ![r].seen = "expired",
                          ![r].gens = JobChunks(j)]
    /\ UNCHANGED <<file, chunkVars, indexVars, outsideVars>>

NoActiveChunks(r) ==
    /\ run[r].pc \in {"describe", "index"}
    /\ JobChunks(run[r].job) = {}
    /\ Fail(r, run[r].seen, LogsSeen(r))

\* The vectors are there: the tsv column is written and the rows are loaded again.
Embedded(r) ==
    LET j == run[r].job IN
    /\ run[r].pc = "embed"
    /\ ~TsvLocked(run[r].gens)
    /\ run' = [run EXCEPT ![r].pc = "vectors", ![r].seen = file[job[j].file].status,
                          ![r].logs = job[j].logs]
    /\ UNCHANGED <<rowVars, chunkVars, indexVars, outsideVars>>

EmbedFailed(r) ==
    /\ run[r].pc = "embed"
    /\ Fail(r, "expired", LogsSeen(r))

SetPoints(S, state) == [g \in Gens |-> IF g \in S THEN state ELSE qdrant[g]]

UpsertVectors(r) ==
    /\ run[r].pc = "vectors"
    /\ qdrant' = SetPoints(run[r].gens, "active")
    /\ withdrawn' = withdrawn \ run[r].gens
    /\ Goto(r, "keywords")
    /\ UNCHANGED <<rowVars, chunkVars, bm25, outsideVars>>

\* The call failed: Qdrant may have applied it all the same.
VectorsFailed(r) ==
    /\ run[r].pc = "vectors"
    /\ qdrant' \in {qdrant, SetPoints(run[r].gens, "active")}
    /\ WriteFailure(r, run[r].seen, run[r].logs)
    /\ Return(r)
    /\ UNCHANGED <<chunkVars, bm25, withdrawn, outsideVars>>

UpsertKeywords(r) ==
    /\ run[r].pc = "keywords"
    /\ bm25' = bm25 \cup run[r].gens
    /\ Goto(r, "finish")
    /\ UNCHANGED <<rowVars, chunkVars, qdrant, withdrawn, outsideVars>>

\* Faulty variant: a failed keyword upsert is ignored.
KeywordsIgnored(r) ==
    /\ run[r].pc = "keywords"
    /\ Goto(r, "finish")
    /\ UNCHANGED <<rowVars, chunkVars, indexVars, outsideVars>>

KeywordsFailed(r) ==
    /\ run[r].pc = "keywords"
    /\ bm25' \in {bm25, bm25 \cup run[r].gens}
    /\ WriteFailure(r, run[r].seen, run[r].logs)
    /\ Return(r)
    /\ UNCHANGED <<chunkVars, qdrant, withdrawn, outsideVars>>

\* INDEXED, whatever happened to the file since it was loaded.
Finish(r) ==
    LET j == run[r].job IN
    /\ run[r].pc = "finish"
    /\ WriteJob(j, "indexed", run[r].logs)
    /\ WriteFileStatus(job[j].file, run[r].seen, "indexed")
    /\ Return(r)
    /\ UNCHANGED <<chunkVars, indexVars, outsideVars>>

-----------------------------------------------------------------------------
(* DELETE /files/{id} *)

NoCall == [pc |-> "idle", file |-> NoFile, gens |-> {}]

DeleteRequest(f) ==
    /\ "delete" \in Requests
    /\ deletion.pc = "idle"
    /\ Visible(f)
    /\ deletion' = [pc |-> IF ActiveChunks(f) = {} THEN "commit" ELSE "vectors",
                    file |-> f, gens |-> ActiveChunks(f)]
    /\ UNCHANGED <<rowVars, chunkVars, indexVars, run, batch, reindexing, crashes, overlapped>>

DeletePoints ==
    /\ deletion.pc = "vectors"
    /\ qdrant' = SetPoints(deletion.gens, "absent")
    /\ deletion' = [deletion EXCEPT !.pc = "keywords"]
    /\ UNCHANGED <<rowVars, chunkVars, bm25, withdrawn, run, batch, reindexing, crashes, overlapped>>

DeleteDocuments ==
    /\ deletion.pc = "keywords"
    /\ bm25' = bm25 \ deletion.gens
    /\ deletion' = [deletion EXCEPT !.pc = "deactivate"]
    /\ UNCHANGED <<rowVars, chunkVars, qdrant, withdrawn, run, batch, reindexing, crashes, overlapped>>

\* A failed call to an index ends the request, applied or not.
DeleteFailed ==
    /\ \/ /\ deletion.pc = "vectors"
          /\ qdrant' \in {qdrant, SetPoints(deletion.gens, "absent")}
          /\ UNCHANGED bm25
       \/ /\ deletion.pc = "keywords"
          /\ bm25' \in {bm25, bm25 \ deletion.gens}
          /\ UNCHANGED qdrant
    /\ deletion' = NoCall
    /\ UNCHANGED <<rowVars, chunkVars, withdrawn, run, batch, reindexing, crashes, overlapped>>

\* The UPDATE starts: it deactivates what is active now, not what was listed.
DeactivateDeleted ==
    /\ deletion.pc = "deactivate"
    /\ deletion' = [deletion EXCEPT !.pc = "commit", !.gens = ActiveChunks(deletion.file)]
    /\ UNCHANGED <<rowVars, chunkVars, indexVars, run, batch, reindexing, crashes, overlapped>>

DeleteCommit ==
    /\ deletion.pc = "commit"
    /\ ~TsvLocked(deletion.gens)
    /\ active' = active \ deletion.gens
    /\ file' = [file EXCEPT ![deletion.file].status = "deleted",
                            ![deletion.file].deleted = TRUE]
    /\ deletion' = NoCall
    /\ UNCHANGED <<job, owner, indexVars, run, batch, reindexing, crashes, overlapped>>

-----------------------------------------------------------------------------
(* POST /files/{id}/reindex: writes the indexes and no row *)

\* The job of f that was created last.
NewestJob(f) ==
    CHOOSE j \in Jobs : job[j].file = f /\ \A i \in Jobs : job[i].file = f => i <= j

ReindexRequest(f) ==
    /\ "reindex" \in Requests
    /\ reindexing.pc = "idle"
    /\ Visible(f)
    /\ JobChunks(NewestJob(f)) # {}
    /\ reindexing' = [pc |-> "deactivate", file |-> f, gens |-> JobChunks(NewestJob(f))]
    /\ UNCHANGED <<rowVars, chunkVars, indexVars, run, batch, deletion, crashes, overlapped>>

\* A failed deactivation is ignored; a failed embedding ends the request.
ReindexDeactivate ==
    /\ reindexing.pc = "deactivate"
    /\ qdrant' \in {qdrant, SetPoints({g \in reindexing.gens : qdrant[g] # "absent"}, "inactive")}
    /\ withdrawn' = withdrawn \cup reindexing.gens
    /\ reindexing' \in {NoCall, [reindexing EXCEPT !.pc = "vectors"]}
    /\ UNCHANGED <<rowVars, chunkVars, bm25, run, batch, deletion, crashes, overlapped>>

ReindexVectors ==
    /\ reindexing.pc = "vectors"
    /\ \/ /\ qdrant' = SetPoints(reindexing.gens, "active")
          /\ withdrawn' = withdrawn \ reindexing.gens
          /\ reindexing' = [reindexing EXCEPT !.pc = "keywords"]
       \/ /\ qdrant' \in {qdrant, SetPoints(reindexing.gens, "active")}
          /\ reindexing' = NoCall
          /\ UNCHANGED withdrawn
    /\ UNCHANGED <<rowVars, chunkVars, bm25, run, batch, deletion, crashes, overlapped>>

ReindexKeywords ==
    /\ reindexing.pc = "keywords"
    /\ bm25' \in {bm25, bm25 \cup reindexing.gens}
    /\ reindexing' = NoCall
    /\ UNCHANGED <<rowVars, chunkVars, qdrant, withdrawn, run, batch, deletion, crashes,
                   overlapped>>

-----------------------------------------------------------------------------
(* The process *)

\* The backend dies: rows and indexes stay, every session and request is gone.
Crash ==
    /\ crashes < MaxCrashes
    /\ crashes' = crashes + 1
    /\ run' = [r \in Runners |-> Idle]
    /\ batch' = {}
    /\ deletion' = NoCall
    /\ reindexing' = NoCall
    /\ UNCHANGED <<rowVars, chunkVars, indexVars, overlapped>>

Init ==
    /\ file = [f \in Files |-> [status |-> "none", deleted |-> FALSE, latest |-> 0]]
    /\ job = [j \in Jobs |-> [status |-> "none", file |-> NoFile, logs |-> {}]]
    /\ owner = [g \in Gens |-> 0]
    /\ active = {}
    /\ qdrant = [g \in Gens |-> "absent"]
    /\ bm25 = {}
    /\ withdrawn = {}
    /\ run = [r \in Runners |-> Idle]
    /\ batch = {}
    /\ deletion = NoCall
    /\ reindexing = NoCall
    /\ crashes = 0
    /\ overlapped = {}

\* The answers a job moves on, by the status they are given in.
Submit(r) == Submitted(r) \/ SubmitRejected(r)
PollAnswered(r) == PollDone(r) \/ PollFailed(r)
Normalize(r) == NormalizeSkipped(r) \/ Normalized(r) \/ NormalizedEmpty(r)
Index(r) == StartIndexing(r) \/ NoActiveChunks(r)

\* What a runner does by itself once it is inside an advance.
Work(r) ==
    \/ Advance(r) \/ Leave(r)
    \/ Submit(r) \/ PollUnchanged(r) \/ PollWaiting(r) \/ PollAnswered(r) \/ Normalize(r)
    \/ Deactivate(r) \/ InsertChunks(r) \/ InsertNothing(r)
    \/ DescribeImages(r) \/ Index(r) \/ Embedded(r) \/ EmbedFailed(r)
    \/ UpsertVectors(r) \/ VectorsFailed(r) \/ UpsertKeywords(r) \/ KeywordsFailed(r)
    \/ Finish(r)

Run(r) == Work(r) \/ Abort(r)

Delete == DeletePoints \/ DeleteDocuments \/ DeleteFailed \/ DeactivateDeleted \/ DeleteCommit
Reindex == ReindexDeactivate \/ ReindexVectors \/ ReindexKeywords

Next ==
    \/ \E f \in Files : Upload(f) \/ Retry(f) \/ DeleteRequest(f) \/ ReindexRequest(f)
    \/ WorkerPoll \/ WorkerNext
    \/ \E r \in Runners : Run(r)
    \/ Delete \/ Reindex
    \/ Crash

Spec == Init /\ [][Next]_vars

-----------------------------------------------------------------------------
(* Fairness: the threads run, and a service that the worker asks again and *)
(* again answers in the end.  A background task gets no such promise.      *)

Fairness ==
    /\ WF_vars(WorkerPoll) /\ WF_vars(WorkerNext)
    /\ \A r \in Runners : WF_vars(Run(r))
    /\ SF_vars(Submit(Worker))
    /\ SF_vars(PollAnswered(Worker))
    /\ SF_vars(Normalize(Worker))
    /\ SF_vars(DescribeImages(Worker) \/ Index(Worker))

FairSpec == Spec /\ Fairness

-----------------------------------------------------------------------------
(* Safety.  Where it is said that advances did not overlap, the file is one *)
(* on which no two runners were ever inside an advance at the same time.    *)

LatestIndexed(f) ==
    LET done == {j \in Jobs : job[j].file = f /\ job[j].status = "indexed"} IN
    IF done = {} THEN 0 ELSE CHOOSE j \in done : \A i \in done : i <= j

\* At most one generation of a file's chunks is active, through retries,
\* deletes and crashes at any point, as long as its advances did not overlap:
\* generate_chunks_for_parse_job swaps generations in one commit.
OneActiveGeneration ==
    \A f \in Files \ overlapped : Cardinality(ActiveChunks(f)) <= 1

\* The chunks an answer may use are those of the latest successful parse job,
\* never those of a failed, unfinished or superseded one (load_chunks takes
\* the active chunks of INDEXED files and looks at no job).
RetrievableFromLatestSuccess ==
    \A f \in Files \ overlapped :
        \A g \in Retrievable(f) : owner[g] = LatestIndexed(f)

\* As soon as the latest job of a file has ended, the file shows how it ended:
\* no failure path forgets either row, and no older job overwrites the file
\* after a retry, although every handler writes what its session loaded.
SettledFileAgrees ==
    \A f \in Files \ overlapped :
        LET j == file[f].latest IN
        (Visible(f) /\ job[j].status \in TerminalStatuses) => file[f].status = job[j].status

\* Every chunk an answer may use has its document in OpenSearch, and in Qdrant a
\* point that search_points takes (is_active), also after failed upserts.  Two
\* exceptions are the code's.  A reindex takes the points out before it embeds
\* again, and leaves them so when that fails (withdrawn): the keyword search
\* finds the chunk, the vector search does not.  And a delete that failed
\* between the indexes and the commit: this is checked without deletes.
Findable ==
    \A f \in Files \ overlapped :
        \A g \in Retrievable(f) : g \in bm25 /\ (qdrant[g] = "active" \/ g \in withdrawn)

-----------------------------------------------------------------------------
(* What a step may never do, and what must happen *)

StatusOrder == <<"queued", "parsing", "normalizing", "chunking", "embedding", "indexing">>

Rank(status) ==
    IF status \in TerminalStatuses THEN 7
    ELSE IF status = "none" THEN 0
    ELSE CHOOSE i \in 1 .. 6 : StatusOrder[i] = status

\* The status of a job only moves forward along the documented order, and a
\* job that ended is not touched again, whatever fails or is repeated.
StatusOnlyForward ==
    [][\A j \in Jobs :
        job'[j].file \in overlapped' \/ job'[j].status = job[j].status
          \/ Rank(job'[j].status) > Rank(job[j].status)]_vars

\* Without a crash, the latest job of a file ends, unless the file is deleted,
\* the job is superseded or advances overlap: no job is left between states.
EveryJobSettles ==
    \A f \in Files : \A j \in Jobs :
        (Visible(f) /\ file[f].latest = j)
            ~> (job[j].status \in TerminalStatuses \/ file[f].latest # j \/ file[f].deleted
                    \/ f \in overlapped)

-----------------------------------------------------------------------------
(* The pipeline implements DocumentVersions *)

Retired == {f \in Files : file[f].deleted} \cup overlapped

ServedVersion(f) ==
    IF f \in Retired \/ Retrievable(f) = {} THEN 0
    ELSE CHOOSE j \in Jobs : \E g \in Retrievable(f) : owner[g] = j

Abstract == INSTANCE DocumentVersions WITH
    Versions <- Jobs,
    served   <- [f \in Files |-> ServedVersion(f)],
    newest   <- [f \in Files |-> IF f \in Retired THEN 0 ELSE LatestIndexed(f)],
    retired  <- Retired

\* A version is served from the commit that ends its job, replaces an older one
\* at once, and is never served again after a retry, a failure or a delete.
ImplementsVersions == Abstract!Spec

-----------------------------------------------------------------------------
(* What the README says, and the code does not do *)

\* README: the worker advances the queued/.../embedding/indexing stages.  Not
\* so after a crash: INDEXING is not among the statuses the worker selects.
IndexingAdvances ==
    \A f \in Files : \A j \in Jobs :
        (Visible(f) /\ file[f].latest = j /\ job[j].status = "indexing")
            ~> (job[j].status # "indexing" \/ file[f].latest # j \/ file[f].deleted
                    \/ f \in overlapped)
=============================================================================
