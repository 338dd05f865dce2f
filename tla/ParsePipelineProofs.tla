------------------------- MODULE ParsePipelineProofs -------------------------
(***************************************************************************)
(* Proofs about ParsePipeline, for any number of files, jobs, generations  *)
(* and crashes and any batch size.                                         *)
(***************************************************************************)
EXTENDS ParsePipeline, FiniteSetTheorems, TLAPS

-----------------------------------------------------------------------------
(* The typing invariant, and who refers to what *)

\* A job that exists belongs to a file.
JobsHaveFiles == \A j \in Jobs : job[j].status # "none" => job[j].file \in Files

\* A runner that is not idle has a job that exists, and so has the batch.
RunnersHaveJobs ==
    /\ \A r \in Runners : run[r].pc # "idle" =>
          run[r].job \in Jobs /\ job[run[r].job].status # "none"
    /\ \A j \in batch : job[j].status # "none"

TypeInv == TypeOK /\ JobsHaveFiles /\ RunnersHaveJobs

\* Writing the status and logs of an existing job keeps every job's file.
LEMMA WriteJobKeepsFiles ==
    ASSUME TypeInv,
           NEW j \in Jobs, job[j].status # "none",
           NEW status \in JobStatuses \ {"none"},
           NEW logs \in SUBSET LogKeys,
           WriteJob(j, status, logs)
    PROVE  /\ job' \in [Jobs -> JobRow]
           /\ \A i \in Jobs : /\ job'[i].file = job[i].file
                              /\ job'[i].status # "none" <=> job[i].status # "none"
  BY DEF TypeInv, TypeOK, WriteJob, JobRow

\* A status write keeps the deletion mark and the latest job of every file.
LEMMA WriteFileStatusKeepsMarks ==
    ASSUME TypeInv, NEW f, NEW seen, NEW status \in FileStatuses,
           WriteFileStatus(f, seen, status)
    PROVE  /\ file' \in [Files -> FileRow]
           /\ \A e \in Files : file'[e].deleted = file[e].deleted /\ file'[e].latest = file[e].latest
<1>. DEFINE written(e) == IF e = f THEN [file[f] EXCEPT !.status = status] ELSE file[e]
<1>1. file \in [Files -> FileRow]
  BY DEF TypeInv, TypeOK
<1>2. \A e \in Files : /\ written(e) \in FileRow
                       /\ written(e).deleted = file[e].deleted
                       /\ written(e).latest = file[e].latest
  BY <1>1 DEF FileRow
<1>3. WriteFileStatus(f, seen, status) => file' = file \/ file' = [e \in Files |-> written(e)]
  BY <1>1 DEF WriteFileStatus
<1>. QED
  BY <1>1, <1>2, <1>3 DEF WriteFileStatus

LEMMA ReturnKeepsOthers ==
    ASSUME TypeInv, NEW r \in Runners, Return(r)
    PROVE  /\ run' \in [Runners -> Session]
           /\ run'[r].pc = "advance" /\ run'[r].job = run[r].job
           /\ \A q \in Runners \ {r} : run'[q] = run[q]
<1>. DEFINE new == Fresh("advance", run[r].job, run[r].prev)
<1>1. run \in [Runners -> Session]
  BY DEF TypeInv, TypeOK
<1>2. run[r].job \in 0 .. MaxJobs /\ run[r].prev \in JobStatuses
  BY <1>1 DEF Session
<1>3. new \in Session /\ new.pc = "advance" /\ new.job = run[r].job
  BY <1>2 DEF Session, Fresh, Pcs, FileStatuses
<1>. HIDE DEF new
<1>4. run' = [run EXCEPT ![r] = new]
  BY DEF Return, new
<1>. QED
  BY <1>1, <1>3, <1>4

LEMMA GotoKeepsJobs ==
    ASSUME TypeInv, NEW r \in Runners, NEW pc \in Pcs, Goto(r, pc)
    PROVE  /\ run' \in [Runners -> Session]
           /\ run'[r].pc = pc
           /\ \A q \in Runners : run'[q].job = run[q].job
           /\ \A q \in Runners \ {r} : run'[q] = run[q]
<1>. DEFINE new == [run[r] EXCEPT !.pc = pc]
<1>1. run \in [Runners -> Session]
  BY DEF TypeInv, TypeOK
<1>2. new \in Session /\ new.pc = pc /\ new.job = run[r].job
  BY <1>1 DEF Session
<1>3. run' = [run EXCEPT ![r] = new]
  BY DEF Goto
<1>. HIDE DEF new
<1>. QED
  BY <1>1, <1>2, <1>3

\* What TypeOK says of the variables that neither jobs nor runners are.
RestTyped ==
    /\ file \in [Files -> FileRow]
    /\ owner \in [Gens -> 0 .. MaxJobs]
    /\ active \in SUBSET Gens
    /\ qdrant \in [Gens -> {"absent", "active", "inactive"}]
    /\ bm25 \in SUBSET Gens
    /\ withdrawn \in SUBSET Gens
    /\ deletion \in Call
    /\ reindexing \in Call
    /\ crashes \in 0 .. MaxCrashes
    /\ overlapped \in SUBSET Files

\* A step that creates no job: jobs keep their files, and every runner that is
\* busy afterwards was busy before, on the same job.
KeepsJobs ==
    /\ job' \in [Jobs -> JobRow]
    /\ \A i \in Jobs : /\ job'[i].file = job[i].file
                       /\ job'[i].status # "none" <=> job[i].status # "none"

KeepsRunners ==
    /\ run' \in [Runners -> Session]
    /\ \A q \in Runners : run'[q].pc # "idle" =>
          run[q].pc # "idle" /\ run'[q].job = run[q].job

LEMMA KeepingIsTyped ==
    ASSUME TypeInv, KeepsJobs, KeepsRunners, batch' \subseteq batch, RestTyped'
    PROVE  TypeInv'
<1>1. TypeOK'
  BY DEF TypeInv, TypeOK, KeepsJobs, KeepsRunners, RestTyped
<1>2. JobsHaveFiles'
  BY DEF TypeInv, JobsHaveFiles, KeepsJobs
<1>3. RunnersHaveJobs'
  BY DEF TypeInv, TypeOK, RunnersHaveJobs, KeepsJobs, KeepsRunners
<1>. QED
  BY <1>1, <1>2, <1>3 DEF TypeInv

\* What a busy runner holds.
LEMMA BusyRunner ==
    ASSUME TypeInv, NEW r \in Runners, run[r].pc # "idle"
    PROVE  /\ run[r].job \in Jobs
           /\ job[run[r].job].status # "none"
           /\ job[run[r].job].file \in Files
           /\ job[run[r].job].status \in JobStatuses
           /\ job[run[r].job].logs \in SUBSET LogKeys
           /\ run[r].logs \in SUBSET LogKeys
           /\ run[r].gens \in SUBSET Gens
           /\ LogsSeen(r) \in SUBSET LogKeys
<1>1. run[r] \in Session /\ run[r].job \in Jobs /\ job[run[r].job].status # "none"
  BY DEF TypeInv, TypeOK, RunnersHaveJobs
<1>2. job[run[r].job] \in JobRow /\ job[run[r].job].file \in Files
  BY <1>1 DEF TypeInv, TypeOK, JobsHaveFiles
<1>. QED
  BY <1>1, <1>2 DEF Session, JobRow, LogsSeen

LEMMA ReturnKeepsRunners ==
    ASSUME TypeInv, NEW r \in Runners, run[r].pc # "idle", Return(r)
    PROVE  KeepsRunners
  BY ReturnKeepsOthers DEF KeepsRunners

LEMMA WriteJobKeepsJobs ==
    ASSUME TypeInv, NEW r \in Runners, run[r].pc # "idle",
           NEW status \in JobStatuses \ {"none"}, NEW logs \in SUBSET LogKeys,
           WriteJob(run[r].job, status, logs)
    PROVE  KeepsJobs
  BY BusyRunner, WriteJobKeepsFiles DEF KeepsJobs

LEMMA MoveOnTyped ==
    ASSUME TypeInv, NEW r \in Runners, run[r].pc # "idle",
           NEW status \in JobStatuses \ {"none"}, NEW logs \in SUBSET LogKeys,
           MoveOn(r, status, logs)
    PROVE  TypeInv'
<1>1. KeepsJobs
  BY WriteJobKeepsJobs DEF MoveOn, WriteProgress
<1>2. file' \in [Files -> FileRow]
  BY WriteFileStatusKeepsMarks DEF MoveOn, WriteProgress, FileStatuses
<1>3. RestTyped'
  BY <1>2 DEF TypeInv, TypeOK, RestTyped, MoveOn, chunkVars, indexVars, outsideVars, callVars
<1>. QED
  BY <1>1, <1>3, ReturnKeepsRunners, KeepingIsTyped DEF MoveOn, outsideVars

LEMMA FailTyped ==
    ASSUME TypeInv, NEW r \in Runners, run[r].pc # "idle",
           NEW seen, NEW logs \in SUBSET LogKeys,
           Fail(r, seen, logs)
    PROVE  TypeInv'
<1>1. KeepsJobs
  BY WriteJobKeepsJobs DEF Fail, WriteFailure, JobStatuses, TerminalStatuses
<1>2. file' \in [Files -> FileRow]
  BY WriteFileStatusKeepsMarks DEF Fail, WriteFailure, FileStatuses
<1>3. RestTyped'
  BY <1>2 DEF TypeInv, TypeOK, RestTyped, Fail, chunkVars, indexVars, outsideVars, callVars
<1>. QED
  BY <1>1, <1>3, ReturnKeepsRunners, KeepingIsTyped DEF Fail, outsideVars

\* The frame of the requests and of the process, in one place each.
LEMMA CallTyped ==
    ASSUME TypeInv, UNCHANGED <<job, run, batch>>, RestTyped'
    PROVE  TypeInv'
  BY KeepingIsTyped DEF KeepsJobs, KeepsRunners, TypeInv, TypeOK

LEMMA RunnerTyped ==
    ASSUME TypeInv, UNCHANGED <<job, batch>>, KeepsRunners, RestTyped'
    PROVE  TypeInv'
  BY KeepingIsTyped DEF KeepsJobs, TypeInv, TypeOK

\* A new job's runner starts; nobody else is touched.
LEMMA NewJobTyped ==
    ASSUME TypeInv, NEW f \in Files, NEW j \in Jobs, NewJob(j, f),
           UNCHANGED batch, RestTyped'
    PROVE  TypeInv'
<1>. DEFINE row == [status |-> "queued", file |-> f, logs |-> {}]
<1>1. job \in [Jobs -> JobRow] /\ run \in [Runners -> Session] /\ batch \subseteq Jobs
  BY DEF TypeInv, TypeOK
<1>2. row \in JobRow /\ row.status = "queued" /\ row.file = f
  BY DEF JobRow, JobStatuses, RunnableStatuses, LogKeys
<1>3. j \in Runners /\ j \in 0 .. MaxJobs
  BY PipelineAssumption DEF Jobs, Runners
<1>4. Start(j) \in Session /\ Start(j).job = j /\ Start(j).pc = "advance"
  BY <1>3 DEF Start, Fresh, Session, Pcs, JobStatuses, FileStatuses
<1>. HIDE DEF row
<1>5. job' = [job EXCEPT ![j] = row] /\ run' = [run EXCEPT ![j] = Start(j)]
  BY DEF NewJob, row
<1>6. TypeOK'
  BY <1>1, <1>2, <1>4, <1>5 DEF TypeInv, TypeOK, RestTyped
<1>7. JobsHaveFiles'
  BY <1>1, <1>2, <1>5 DEF TypeInv, JobsHaveFiles
<1>8. \A i \in Jobs : job[i].status # "none" => job'[i].status # "none"
  BY <1>1, <1>2, <1>5
<1>9. RunnersHaveJobs'
  <2>1. \A i \in batch' : job'[i].status # "none"
    BY <1>1, <1>8 DEF TypeInv, RunnersHaveJobs
  <2>2. ASSUME NEW r \in Runners, run'[r].pc # "idle"
        PROVE  run'[r].job \in Jobs /\ job'[run'[r].job].status # "none"
    <3>1. CASE r = j
      BY <3>1, <1>1, <1>2, <1>3, <1>4, <1>5
    <3>2. CASE r # j
      BY <3>2, <2>2, <1>1, <1>5, <1>8 DEF TypeInv, RunnersHaveJobs
    <3>. QED
      BY <3>1, <3>2
  <2>. QED
    BY <2>1, <2>2 DEF RunnersHaveJobs
<1>. QED
  BY <1>6, <1>7, <1>9 DEF TypeInv

LEMMA UploadTyped == ASSUME TypeInv, NEW f \in Files, Upload(f) PROVE TypeInv'
<1>1. PICK j \in Jobs :
        /\ NewJob(j, f)
        /\ file' = [file EXCEPT ![f] = [status |-> "queued", deleted |-> FALSE, latest |-> j]]
  BY DEF Upload
<1>2. j \in 0 .. MaxJobs
  BY PipelineAssumption DEF Jobs
<1>3. file' \in [Files -> FileRow]
  BY <1>1, <1>2 DEF TypeInv, TypeOK, FileRow, FileStatuses
<1>4. RestTyped'
  BY <1>3 DEF Upload, RestTyped, TypeInv, TypeOK, chunkVars, indexVars, callVars, outsideVars
<1>. QED
  BY <1>1, <1>4, NewJobTyped DEF Upload, outsideVars

LEMMA RetryTyped == ASSUME TypeInv, NEW f \in Files, Retry(f) PROVE TypeInv'
<1>1. PICK j \in Jobs :
        /\ NewJob(j, f)
        /\ file' = [file EXCEPT ![f].status = "processing", ![f].latest = j]
  BY DEF Retry
<1>2. j \in 0 .. MaxJobs
  BY PipelineAssumption DEF Jobs
<1>3. file' \in [Files -> FileRow]
  BY <1>1, <1>2 DEF TypeInv, TypeOK, FileRow, FileStatuses
<1>4. RestTyped'
  BY <1>3 DEF Retry, RestTyped, TypeInv, TypeOK, chunkVars, indexVars, callVars, outsideVars
<1>. QED
  BY <1>1, <1>4, NewJobTyped DEF Retry, outsideVars

\* What a job is selected by makes it exist.
LEMMA RunnableExists == \A j : job[j].status \in RunnableStatuses => job[j].status # "none"
  BY DEF RunnableStatuses

LEMMA WorkerTyped == ASSUME TypeInv, WorkerPoll \/ WorkerNext PROVE TypeInv'
<1>1. RestTyped'
  BY DEF WorkerPoll, WorkerNext, RestTyped, TypeInv, TypeOK, rowVars, chunkVars, indexVars, callVars
<1>2. CASE WorkerPoll
  <2>1. batch' \subseteq Jobs /\ \A j \in batch' : job[j].status # "none"
    BY <1>2, RunnableExists DEF WorkerPoll, Selected, RunnableJobs
  <2>2. UNCHANGED <<job, run>>
    BY <1>2 DEF WorkerPoll, rowVars
  <2>. QED
    BY <1>1, <2>1, <2>2 DEF TypeInv, TypeOK, RestTyped, JobsHaveFiles, RunnersHaveJobs
<1>3. CASE WorkerNext
  <2>1. PICK j \in batch : batch' = batch \ {j} /\ run' = [run EXCEPT ![Worker] = Start(j)]
    BY <1>3 DEF WorkerNext
  <2>2. j \in Jobs /\ j \in 0 .. MaxJobs /\ Worker \in Runners /\ job[j].status # "none"
    BY PipelineAssumption DEF TypeInv, TypeOK, RunnersHaveJobs, Jobs, Worker, Runners
  <2>3. Start(j) \in Session /\ Start(j).job = j
    BY <2>2 DEF Start, Fresh, Session, Pcs, JobStatuses, FileStatuses
  <2>4. UNCHANGED job
    BY <1>3 DEF WorkerNext, rowVars
  <2>5. run \in [Runners -> Session] /\ run' \in [Runners -> Session]
    BY <2>1, <2>2, <2>3 DEF TypeInv, TypeOK
  <2>6. \A r \in Runners : run'[r].pc # "idle" =>
            run'[r].job \in Jobs /\ job'[run'[r].job].status # "none"
    BY <2>1, <2>2, <2>3, <2>4, <2>5 DEF TypeInv, RunnersHaveJobs
  <2>. QED
    BY <1>1, <2>1, <2>4, <2>5, <2>6
      DEF TypeInv, TypeOK, RestTyped, JobsHaveFiles, RunnersHaveJobs
<1>. QED
  BY <1>2, <1>3

LEMMA AdvanceTyped == ASSUME TypeInv, NEW r \in Runners, Advance(r) PROVE TypeInv'
<1>. DEFINE j == run[r].job
            f == job[j].file
            new == [run[r] EXCEPT !.pc = Handler(job[j].status), !.prev = job[j].status,
                                  !.seen = file[f].status, !.logs = job[j].logs]
<1>1. run[r].pc # "idle" /\ run[r] \in Session /\ run \in [Runners -> Session]
  BY DEF Advance, TypeInv, TypeOK
<1>2. /\ j \in Jobs /\ f \in Files /\ job[j].status \in JobStatuses
      /\ job[j].logs \in SUBSET LogKeys
  BY <1>1, BusyRunner
<1>3. file[f].status \in FileStatuses
  BY <1>2 DEF TypeInv, TypeOK, FileRow
<1>4. Handler(job[j].status) \in Pcs
  BY DEF Advance, MayAdvance, Handler, Pcs, HandlerPcs, RunnableStatuses
<1>5. new \in Session /\ new.job = j
  BY <1>1, <1>2, <1>3, <1>4 DEF Session
<1>6. run' = [run EXCEPT ![r] = new]
  BY DEF Advance
<1>. HIDE DEF new
<1>7. KeepsRunners
  BY <1>1, <1>5, <1>6 DEF KeepsRunners
<1>8. overlapped' \in SUBSET Files
  BY <1>2 DEF Advance, TypeInv, TypeOK
<1>9. RestTyped'
  BY <1>8 DEF Advance, RestTyped, TypeInv, TypeOK, rowVars, chunkVars, indexVars, callVars
<1>. QED
  BY <1>7, <1>9, RunnerTyped DEF Advance, rowVars

LEMMA IdleIsSession == Idle \in Session /\ Idle.pc = "idle"
<1>1. 0 \in 0 .. MaxJobs
  BY PipelineAssumption
<1>2. "none" \in JobStatuses /\ "none" \in FileStatuses /\ "idle" \in Pcs
  BY DEF JobStatuses, FileStatuses, Pcs
<1>. QED
  BY <1>1, <1>2 DEF Idle, Fresh, Session

LEMMA IdleTyped ==
    ASSUME TypeInv, NEW r \in Runners, run' = [run EXCEPT ![r] = Idle],
           UNCHANGED <<rowVars, chunkVars, indexVars, outsideVars>>
    PROVE  TypeInv'
<1>1. Idle \in Session /\ Idle.pc = "idle"
  BY IdleIsSession
<1>2. run \in [Runners -> Session]
  BY DEF TypeInv, TypeOK
<1>3. KeepsRunners
  BY <1>1, <1>2 DEF KeepsRunners
<1>4. RestTyped'
  BY DEF RestTyped, TypeInv, TypeOK, rowVars, chunkVars, indexVars, callVars, outsideVars
<1>. QED
  BY <1>3, <1>4, RunnerTyped DEF rowVars, outsideVars

LEMMA GiveUpTyped ==
    ASSUME TypeInv, NEW r \in Runners, run[r].pc # "idle", GiveUp(r)
    PROVE  TypeInv'
<1>1. RestTyped'
  BY DEF GiveUp, RestTyped, TypeInv, TypeOK, rowVars, chunkVars, indexVars, callVars, outsideVars
<1>. QED
  BY <1>1, ReturnKeepsRunners, RunnerTyped DEF GiveUp, rowVars, outsideVars

\* The handlers of the stages before chunking.
LEMMA ParseTyped ==
    ASSUME TypeInv, NEW r \in Runners,
           Submit(r) \/ PollUnchanged(r) \/ PollWaiting(r) \/ PollAnswered(r) \/ Normalize(r)
    PROVE  TypeInv'
<1>1. run[r].pc # "idle"
  BY DEF Submit, Submitted, SubmitRejected, PollUnchanged, PollWaiting, PollAnswered, PollDone,
         PollFailed, Normalize, NormalizeSkipped, Normalized, NormalizedEmpty
<1>2. /\ run[r].logs \in SUBSET LogKeys
      /\ run[r].logs \cup {"batch"} \in SUBSET LogKeys
      /\ run[r].logs \cup {"parsed"} \in SUBSET LogKeys
  BY <1>1, BusyRunner DEF LogKeys
<1>3. {"parsing", "normalizing", "chunking"} \subseteq JobStatuses \ {"none"}
  BY DEF JobStatuses, RunnableStatuses
<1>4. CASE Submitted(r) \/ PollDone(r) \/ Normalized(r)
  BY <1>1, <1>2, <1>3, <1>4, MoveOnTyped DEF Submitted, PollDone, Normalized
<1>5. CASE SubmitRejected(r) \/ PollFailed(r) \/ NormalizedEmpty(r)
  BY <1>1, <1>2, <1>5, FailTyped DEF SubmitRejected, PollFailed, NormalizedEmpty
<1>6. CASE PollUnchanged(r) \/ NormalizeSkipped(r)
  BY <1>1, <1>6, GiveUpTyped DEF PollUnchanged, NormalizeSkipped
<1>7. CASE PollWaiting(r)
  <2>1. KeepsJobs
    BY <1>1, <1>2, <1>7, BusyRunner DEF PollWaiting, KeepsJobs, TypeInv, TypeOK, JobRow
  <2>2. RestTyped'
    BY <1>7 DEF PollWaiting, RestTyped, TypeInv, TypeOK, chunkVars, indexVars, callVars, outsideVars
  <2>. QED
    BY <1>1, <1>7, <2>1, <2>2, ReturnKeepsRunners, KeepingIsTyped DEF PollWaiting, outsideVars
<1>. QED
  BY <1>4, <1>5, <1>6, <1>7 DEF Submit, PollAnswered, Normalize

\* The handlers of chunking: the two halves of the swap of generations.
LEMMA ChunkTyped ==
    ASSUME TypeInv, NEW r \in Runners, Deactivate(r) \/ InsertChunks(r) \/ InsertNothing(r)
    PROVE  TypeInv'
<1>1. run[r].pc # "idle" /\ run \in [Runners -> Session]
  BY DEF Deactivate, InsertChunks, InsertNothing, TypeInv, TypeOK
<1>2. run[r] \in Session /\ run[r].logs \in SUBSET LogKeys
  BY <1>1, BusyRunner
<1>3. CASE Deactivate(r)
  <2>. DEFINE new == [run[r] EXCEPT !.pc = "insert",
                                    !.gens = ActiveChunks(job[run[r].job].file)]
  <2>1. new \in Session /\ new.job = run[r].job
    BY <1>2 DEF Session, Pcs, HandlerPcs, ActiveChunks, TypeInv, TypeOK
  <2>2. run' = [run EXCEPT ![r] = new]
    BY <1>3 DEF Deactivate
  <2>. HIDE DEF new
  <2>3. KeepsRunners
    BY <1>1, <2>1, <2>2 DEF KeepsRunners
  <2>4. RestTyped'
    BY <1>3 DEF Deactivate, RestTyped, TypeInv, TypeOK, rowVars, chunkVars, indexVars, callVars,
                outsideVars
  <2>. QED
    BY <1>3, <2>3, <2>4, RunnerTyped DEF Deactivate, rowVars, outsideVars
<1>4. CASE InsertChunks(r)
  <2>1. KeepsJobs
    BY <1>1, <1>2, <1>4, WriteJobKeepsJobs
      DEF InsertChunks, WriteProgress, JobStatuses, RunnableStatuses
  <2>2. file' \in [Files -> FileRow]
    BY <1>4, WriteFileStatusKeepsMarks DEF InsertChunks, WriteProgress, FileStatuses
  <2>3. run[r].job \in 0 .. MaxJobs
    BY <1>2 DEF Session
  <2>4. owner' \in [Gens -> 0 .. MaxJobs] /\ active' \in SUBSET Gens
    BY <1>4, <2>3 DEF InsertChunks, TypeInv, TypeOK
  <2>5. RestTyped'
    BY <1>4, <2>2, <2>4 DEF InsertChunks, RestTyped, TypeInv, TypeOK, indexVars, callVars, outsideVars
  <2>. QED
    BY <1>1, <1>4, <2>1, <2>5, ReturnKeepsRunners, KeepingIsTyped DEF InsertChunks, outsideVars
<1>5. CASE InsertNothing(r)
  <2>1. KeepsJobs
    BY <1>1, <1>2, <1>5, WriteJobKeepsJobs
      DEF InsertNothing, WriteFailure, JobStatuses, TerminalStatuses
  <2>2. file' \in [Files -> FileRow]
    BY <1>5, WriteFileStatusKeepsMarks DEF InsertNothing, WriteFailure, FileStatuses
  <2>3. RestTyped'
    BY <1>5, <2>2 DEF InsertNothing, RestTyped, TypeInv, TypeOK, indexVars, callVars, outsideVars
  <2>. QED
    BY <1>1, <1>5, <2>1, <2>3, ReturnKeepsRunners, KeepingIsTyped DEF InsertNothing, outsideVars
<1>. QED
  BY <1>3, <1>4, <1>5

\* The handlers of embedding, up to the vectors.
LEMMA EmbedTyped ==
    ASSUME TypeInv, NEW r \in Runners,
           DescribeImages(r) \/ Index(r) \/ Embedded(r) \/ EmbedFailed(r)
    PROVE  TypeInv'
<1>1. run[r].pc # "idle" /\ run \in [Runners -> Session]
  BY DEF DescribeImages, Index, StartIndexing, NoActiveChunks, Embedded, EmbedFailed,
         TypeInv, TypeOK
<1>2. /\ run[r] \in Session /\ run[r].job \in Jobs /\ job[run[r].job].file \in Files
      /\ run[r].logs \in SUBSET LogKeys /\ LogsSeen(r) \in SUBSET LogKeys
      /\ job[run[r].job].logs \in SUBSET LogKeys
  BY <1>1, BusyRunner
<1>3. JobChunks(run[r].job) \in SUBSET Gens
  BY DEF JobChunks, TypeInv, TypeOK
<1>4. CASE NoActiveChunks(r) \/ EmbedFailed(r)
  BY <1>1, <1>2, <1>4, FailTyped DEF NoActiveChunks, EmbedFailed
<1>5. CASE DescribeImages(r)
  <2>. DEFINE new == [run[r] EXCEPT !.pc = "index", !.seen = "expired"]
  <2>1. new \in Session /\ new.job = run[r].job
    BY <1>2 DEF Session, Pcs, HandlerPcs
  <2>2. run' = [run EXCEPT ![r] = new]
    BY <1>5 DEF DescribeImages
  <2>. HIDE DEF new
  <2>3. KeepsRunners
    BY <1>1, <2>1, <2>2 DEF KeepsRunners
  <2>4. KeepsJobs
    BY <1>2, <1>5 DEF DescribeImages, KeepsJobs, TypeInv, TypeOK, JobRow
  <2>5. RestTyped'
    BY <1>5 DEF DescribeImages, RestTyped, TypeInv, TypeOK, chunkVars, indexVars, callVars, outsideVars
  <2>. QED
    BY <1>5, <2>3, <2>4, <2>5, KeepingIsTyped DEF DescribeImages, outsideVars
<1>6. CASE StartIndexing(r)
  <2>. DEFINE new == [run[r] EXCEPT !.pc = "embed", !.seen = "expired",
                                    !.gens = JobChunks(run[r].job)]
  <2>1. new \in Session /\ new.job = run[r].job
    BY <1>2, <1>3 DEF Session, Pcs, HandlerPcs
  <2>2. run' = [run EXCEPT ![r] = new]
    BY <1>6 DEF StartIndexing
  <2>. HIDE DEF new
  <2>3. KeepsRunners
    BY <1>1, <2>1, <2>2 DEF KeepsRunners
  <2>4. KeepsJobs
    BY <1>1, <1>2, <1>6, WriteJobKeepsJobs DEF StartIndexing, JobStatuses
  <2>5. RestTyped'
    BY <1>6 DEF StartIndexing, RestTyped, TypeInv, TypeOK, chunkVars, indexVars, callVars, outsideVars
  <2>. QED
    BY <1>6, <2>3, <2>4, <2>5, KeepingIsTyped DEF StartIndexing, outsideVars
<1>7. CASE Embedded(r)
  <2>. DEFINE j == run[r].job
              new == [run[r] EXCEPT !.pc = "vectors", !.seen = file[job[j].file].status,
                                    !.logs = job[j].logs]
  <2>1. file[job[j].file].status \in FileStatuses
    BY <1>2 DEF TypeInv, TypeOK, FileRow
  <2>2. new \in Session /\ new.job = run[r].job
    BY <1>2, <2>1 DEF Session, Pcs, HandlerPcs
  <2>3. run' = [run EXCEPT ![r] = new]
    BY <1>7 DEF Embedded
  <2>. HIDE DEF new
  <2>4. KeepsRunners
    BY <1>1, <2>2, <2>3 DEF KeepsRunners
  <2>5. RestTyped'
    BY <1>7 DEF Embedded, RestTyped, TypeInv, TypeOK, rowVars, chunkVars, indexVars, callVars, outsideVars
  <2>. QED
    BY <1>7, <2>4, <2>5, RunnerTyped DEF Embedded, rowVars, outsideVars
<1>. QED
  BY <1>4, <1>5, <1>6, <1>7 DEF Index

LEMMA SetPointsTyped ==
    ASSUME TypeInv, NEW S, NEW state \in {"absent", "active", "inactive"}
    PROVE  SetPoints(S, state) \in [Gens -> {"absent", "active", "inactive"}]
  BY DEF SetPoints, TypeInv, TypeOK

\* The upserts and the commit that ends an indexing.
LEMMA IndexTyped ==
    ASSUME TypeInv, NEW r \in Runners,
           \/ UpsertVectors(r) \/ VectorsFailed(r) \/ UpsertKeywords(r)
           \/ KeywordsFailed(r) \/ Finish(r)
    PROVE  TypeInv'
<1>1. run[r].pc # "idle" /\ {"keywords", "finish"} \subseteq Pcs \ {"idle"}
  BY DEF UpsertVectors, VectorsFailed, UpsertKeywords, KeywordsFailed, Finish, Pcs, HandlerPcs
<1>2. run[r].gens \in SUBSET Gens /\ run[r].logs \in SUBSET LogKeys
  BY <1>1, BusyRunner
<1>3. SetPoints(run[r].gens, "active") \in [Gens -> {"absent", "active", "inactive"}]
  BY SetPointsTyped
<1>4. CASE UpsertVectors(r) \/ UpsertKeywords(r)
  <2>1. KeepsRunners
    BY <1>1, <1>4, GotoKeepsJobs DEF UpsertVectors, UpsertKeywords, KeepsRunners
  <2>2. RestTyped'
    BY <1>2, <1>3, <1>4 DEF UpsertVectors, UpsertKeywords, RestTyped, TypeInv, TypeOK,
                            rowVars, chunkVars, callVars, outsideVars
  <2>. QED
    BY <1>4, <2>1, <2>2, RunnerTyped DEF UpsertVectors, UpsertKeywords, rowVars, outsideVars
<1>5. CASE VectorsFailed(r) \/ KeywordsFailed(r)
  <2>1. KeepsJobs
    BY <1>1, <1>2, <1>5, WriteJobKeepsJobs
      DEF VectorsFailed, KeywordsFailed, WriteFailure, JobStatuses, TerminalStatuses
  <2>2. file' \in [Files -> FileRow]
    BY <1>5, WriteFileStatusKeepsMarks DEF VectorsFailed, KeywordsFailed, WriteFailure, FileStatuses
  <2>3. RestTyped'
    BY <1>2, <1>3, <1>5, <2>2 DEF VectorsFailed, KeywordsFailed, RestTyped, TypeInv, TypeOK,
                                  chunkVars, callVars, outsideVars
  <2>. QED
    BY <1>1, <1>5, <2>1, <2>3, ReturnKeepsRunners, KeepingIsTyped
      DEF VectorsFailed, KeywordsFailed, outsideVars
<1>6. CASE Finish(r)
  <2>1. KeepsJobs
    BY <1>1, <1>2, <1>6, WriteJobKeepsJobs DEF Finish, JobStatuses, TerminalStatuses
  <2>2. file' \in [Files -> FileRow]
    BY <1>6, WriteFileStatusKeepsMarks DEF Finish, FileStatuses
  <2>3. RestTyped'
    BY <1>6, <2>2 DEF Finish, RestTyped, TypeInv, TypeOK, chunkVars, indexVars, callVars, outsideVars
  <2>. QED
    BY <1>1, <1>6, <2>1, <2>3, ReturnKeepsRunners, KeepingIsTyped DEF Finish, outsideVars
<1>. QED
  BY <1>4, <1>5, <1>6

LEMMA RunTyped == ASSUME TypeInv, NEW r \in Runners, Run(r) PROVE TypeInv'
<1>1. CASE Leave(r) \/ Abort(r)
  BY <1>1, IdleTyped DEF Leave, Abort
<1>. QED
  BY <1>1, AdvanceTyped, ParseTyped, ChunkTyped, EmbedTyped, IndexTyped DEF Run, Work

LEMMA NoCallTyped == NoCall \in Call
  BY DEF NoCall, Call

\* The requests of an admin: they touch no job and no runner.
LEMMA DeleteTyped ==
    ASSUME TypeInv, Delete \/ \E f \in Files : DeleteRequest(f)
    PROVE  TypeInv'
<1>. USE NoCallTyped
<1>1. UNCHANGED <<job, run, batch>>
  BY DEF Delete, DeletePoints, DeleteDocuments, DeleteFailed, DeactivateDeleted, DeleteCommit,
         DeleteRequest, rowVars
<1>2. deletion \in Call /\ (deletion.gens \in SUBSET Gens)
  BY DEF TypeInv, TypeOK, Call
<1>3. \A f : ActiveChunks(f) \in SUBSET Gens
  BY DEF ActiveChunks, TypeInv, TypeOK
<1>4. ASSUME NEW f \in Files, DeleteRequest(f) PROVE RestTyped'
  BY <1>3, <1>4 DEF DeleteRequest, RestTyped, TypeInv, TypeOK, Call, rowVars, chunkVars, indexVars
<1>5. CASE DeletePoints
  BY <1>2, <1>5, SetPointsTyped, CallTyped, <1>1
    DEF DeletePoints, RestTyped, TypeInv, TypeOK, Call, rowVars, chunkVars
<1>6. CASE DeleteDocuments
  BY <1>2, <1>6, CallTyped, <1>1
    DEF DeleteDocuments, RestTyped, TypeInv, TypeOK, Call, rowVars, chunkVars
<1>7. CASE DeleteFailed
  <2>1. SetPoints(deletion.gens, "absent") \in [Gens -> {"absent", "active", "inactive"}]
    BY SetPointsTyped
  <2>. QED
    BY <1>2, <1>7, <2>1, CallTyped, <1>1
      DEF DeleteFailed, RestTyped, TypeInv, TypeOK, rowVars, chunkVars
<1>8. CASE DeactivateDeleted
  BY <1>2, <1>3, <1>8, CallTyped, <1>1
    DEF DeactivateDeleted, RestTyped, TypeInv, TypeOK, Call, rowVars, chunkVars, indexVars
<1>9. CASE DeleteCommit
  <2>1. file' \in [Files -> FileRow]
    BY <1>9 DEF DeleteCommit, TypeInv, TypeOK, FileRow, FileStatuses
  <2>. QED
    BY <1>2, <1>9, <2>1, CallTyped, <1>1 DEF DeleteCommit, RestTyped, TypeInv, TypeOK, indexVars
<1>. QED
  BY <1>1, <1>4, <1>5, <1>6, <1>7, <1>8, <1>9, CallTyped DEF Delete

LEMMA ReindexTyped ==
    ASSUME TypeInv, Reindex \/ \E f \in Files : ReindexRequest(f)
    PROVE  TypeInv'
<1>. USE NoCallTyped
<1>1. UNCHANGED <<job, run, batch>>
  BY DEF Reindex, ReindexDeactivate, ReindexVectors, ReindexKeywords, ReindexRequest, rowVars
<1>2. reindexing \in Call /\ reindexing.gens \in SUBSET Gens
  BY DEF TypeInv, TypeOK, Call
<1>3. \A S, state : state \in {"absent", "active", "inactive"} =>
          SetPoints(S, state) \in [Gens -> {"absent", "active", "inactive"}]
  BY SetPointsTyped
<1>4. ASSUME NEW f \in Files, ReindexRequest(f) PROVE RestTyped'
  BY <1>4 DEF ReindexRequest, JobChunks, RestTyped, TypeInv, TypeOK, Call, rowVars, chunkVars, indexVars
<1>5. reindexing' \in Call /\ bm25' \in SUBSET Gens /\ withdrawn' \in SUBSET Gens
    /\ qdrant' \in [Gens -> {"absent", "active", "inactive"}] => RestTyped' \/ ~Reindex
  BY DEF Reindex, ReindexDeactivate, ReindexVectors, ReindexKeywords, RestTyped, TypeInv, TypeOK,
         rowVars, chunkVars
<1>6. /\ [reindexing EXCEPT !.pc = "vectors"] \in Call
      /\ [reindexing EXCEPT !.pc = "keywords"] \in Call
  BY <1>2 DEF Call
<1>7. /\ qdrant \in [Gens -> {"absent", "active", "inactive"}] /\ bm25 \in SUBSET Gens
      /\ withdrawn \in SUBSET Gens
  BY DEF TypeInv, TypeOK
<1>8. CASE ReindexDeactivate
  BY <1>1, <1>2, <1>3, <1>8, <1>5, <1>6, <1>7, NoCallTyped, CallTyped DEF ReindexDeactivate, Reindex
<1>9. CASE ReindexVectors
  BY <1>1, <1>3, <1>9, <1>5, <1>6, <1>7, NoCallTyped, CallTyped DEF ReindexVectors, Reindex
<1>10. CASE ReindexKeywords
  BY <1>1, <1>2, <1>10, <1>5, <1>6, <1>7, NoCallTyped, CallTyped DEF ReindexKeywords, Reindex
<1>. QED
  BY <1>1, <1>4, <1>8, <1>9, <1>10, CallTyped DEF Reindex

LEMMA CrashTyped == ASSUME TypeInv, Crash PROVE TypeInv'
<1>1. run' = [r \in Runners |-> Idle]
  BY DEF Crash
<1>2. KeepsRunners
  BY <1>1, IdleIsSession DEF KeepsRunners
<1>3. crashes' \in 0 .. MaxCrashes
  BY PipelineAssumption DEF Crash, TypeInv, TypeOK
<1>4. KeepsJobs /\ batch' \subseteq batch
  BY DEF Crash, KeepsJobs, TypeInv, TypeOK, rowVars
<1>5. RestTyped'
  BY <1>3, NoCallTyped DEF Crash, RestTyped, TypeInv, TypeOK, rowVars, chunkVars, indexVars
<1>. QED
  BY <1>2, <1>4, <1>5, KeepingIsTyped

LEMMA InitTyped == Init => TypeInv
<1>. SUFFICES ASSUME Init PROVE TypeInv
  OBVIOUS
<1>1. 0 \in 0 .. MaxJobs /\ 0 \in 0 .. MaxCrashes
  BY PipelineAssumption
<1>2. file \in [Files -> FileRow] /\ job \in [Jobs -> JobRow]
  BY <1>1 DEF Init, FileRow, JobRow, FileStatuses, JobStatuses
<1>3. run \in [Runners -> Session] /\ \A r \in Runners : run[r].pc = "idle"
  BY IdleIsSession DEF Init
<1>4. TypeOK
  BY <1>1, <1>2, <1>3, NoCallTyped DEF Init, TypeOK
<1>5. JobsHaveFiles /\ RunnersHaveJobs
  BY <1>3 DEF Init, JobsHaveFiles, RunnersHaveJobs
<1>. QED
  BY <1>4, <1>5 DEF TypeInv

LEMMA NextTyped == TypeInv /\ [Next]_vars => TypeInv'
<1>. SUFFICES ASSUME TypeInv, [Next]_vars PROVE TypeInv'
  OBVIOUS
<1>1. CASE UNCHANGED vars
  BY <1>1 DEF vars, TypeInv, TypeOK, JobsHaveFiles, RunnersHaveJobs
<1>2. CASE Next
  BY <1>2, UploadTyped, RetryTyped, WorkerTyped, RunTyped, DeleteTyped, ReindexTyped, CrashTyped
    DEF Next
<1>. QED
  BY <1>1, <1>2

\* Every value the pipeline stores keeps its type, every job that exists
\* belongs to a file, and every job a runner or the batch refers to exists.
THEOREM TypeCorrect == Spec => [](TypeOK /\ JobsHaveFiles /\ RunnersHaveJobs)
<1>1. Init => TypeInv
  BY InitTyped
<1>2. TypeInv /\ [Next]_vars => TypeInv'
  BY NextTyped
<1>3. TypeInv => TypeOK /\ JobsHaveFiles /\ RunnersHaveJobs
  BY DEF TypeInv
<1>. QED
  BY <1>1, <1>2, <1>3, PTL DEF Spec

-----------------------------------------------------------------------------
(* One active generation                                                    *)
(*                                                                          *)
(* That a file has one active generation is not inductive by itself: the    *)
(* commit that activates a generation deactivates what the statement before *)
(* it saw, so nothing may have become active in between.  As long as the    *)
(* advances of the file did not overlap, the runner that saw it is the only *)
(* one inside an advance, and only such a runner activates chunks.          *)

\* An active generation has an owner, and the owner exists.
Owned == \A g \in active : owner[g] \in Jobs /\ job[owner[g]].status # "none"

\* One runner at most is inside an advance of a file that did not overlap.
Exclusive ==
    \A f \in Files \ overlapped : \A r, q \in Runners : Inside(r, f) /\ Inside(q, f) => r = q

\* A runner about to insert chunks deactivates everything that is active.
SwapReady ==
    \A r \in Runners :
        (run[r].pc = "insert" /\ job[run[r].job].file \notin overlapped)
            => ActiveChunks(job[run[r].job].file) \subseteq run[r].gens

AtMostOne == \A f \in Files \ overlapped : \A g, h \in ActiveChunks(f) : g = h

SwapInv == Owned /\ Exclusive /\ SwapReady /\ AtMostOne

\* A step that activates nothing, lets nobody into an advance and starts no swap.
Quiet ==
    /\ \A i \in Jobs : job[i].status # "none" =>
          job'[i].status # "none" /\ job'[i].file = job[i].file
    /\ owner' = owner
    /\ active' \subseteq active
    /\ overlapped \subseteq overlapped'
    /\ \A q \in Runners :
          /\ run'[q].pc \in HandlerPcs => run[q].pc \in HandlerPcs /\ run'[q].job = run[q].job
          /\ run'[q].pc = "insert" => run'[q] = run[q]

LEMMA HandlerIsBusy == "idle" \notin HandlerPcs /\ "advance" \notin HandlerPcs
  BY DEF HandlerPcs

\* What is active for a file after a quiet step was active before it.
LEMMA QuietActive ==
    ASSUME TypeInv, SwapInv, Quiet, NEW f
    PROVE  ActiveChunks(f)' \subseteq ActiveChunks(f)
  BY DEF ActiveChunks, FileOf, Quiet, SwapInv, Owned

LEMMA QuietInside ==
    ASSUME TypeInv, Quiet, NEW f, NEW r \in Runners, Inside(r, f)'
    PROVE  Inside(r, f)
<1>1. run'[r].pc \in HandlerPcs /\ job'[run'[r].job].file = f
  BY DEF Inside
<1>2. run[r].pc \in HandlerPcs /\ run'[r].job = run[r].job
  BY <1>1 DEF Quiet
<1>3. run[r].job \in Jobs /\ job[run[r].job].status # "none"
  BY <1>2, BusyRunner, HandlerIsBusy
<1>. QED
  BY <1>1, <1>2, <1>3 DEF Inside, Quiet

LEMMA QuietKeepsSwap ==
    ASSUME TypeInv, SwapInv, Quiet
    PROVE  SwapInv'
<1>1. Owned'
  BY DEF SwapInv, Owned, Quiet
<1>2. Exclusive'
  BY QuietInside DEF SwapInv, Exclusive, Quiet
<1>3. AtMostOne'
  BY QuietActive DEF SwapInv, AtMostOne, Quiet
<1>4. SwapReady'
  <2>. SUFFICES ASSUME NEW r \in Runners, run'[r].pc = "insert",
                       job'[run'[r].job].file \notin overlapped'
                PROVE  ActiveChunks(job[run[r].job].file)' \subseteq run'[r].gens
    BY DEF SwapReady
  <2>1. run'[r] = run[r] /\ run[r].pc = "insert"
    BY DEF Quiet
  <2>2. run[r].job \in Jobs /\ job[run[r].job].status # "none"
    BY <2>1, BusyRunner
  <2>3. job'[run'[r].job].file = job[run[r].job].file
    BY <2>1, <2>2 DEF Quiet
  <2>4. ActiveChunks(job[run[r].job].file) \subseteq run[r].gens
    BY <2>1, <2>3 DEF SwapInv, SwapReady, Quiet
  <2>5. ActiveChunks(job[run[r].job].file)' \subseteq ActiveChunks(job[run[r].job].file)
    BY <2>3, QuietActive DEF ActiveChunks
  <2>. QED
    BY <2>1, <2>4, <2>5
<1>. QED
  BY <1>1, <1>2, <1>3, <1>4 DEF SwapInv

\* The usual shape of a quiet step: one runner moves, and not into a swap.
OnlyMoves(r) ==
    /\ \A q \in Runners \ {r} : run'[q] = run[q]
    /\ run'[r].pc \in HandlerPcs => run[r].pc \in HandlerPcs /\ run'[r].job = run[r].job
    /\ run'[r].pc # "insert"

LEMMA MovesAreQuiet ==
    ASSUME NEW r \in Runners, OnlyMoves(r), KeepsJobs,
           owner' = owner, active' \subseteq active, overlapped' = overlapped
    PROVE  Quiet
  BY DEF OnlyMoves, KeepsJobs, Quiet

LEMMA ReturnMoves ==
    ASSUME TypeInv, NEW r \in Runners, Return(r)
    PROVE  OnlyMoves(r)
  BY ReturnKeepsOthers, HandlerIsBusy DEF OnlyMoves

\* Replacing the session of r by one that is idle or waits to advance.
LEMMA LeavingMoves ==
    ASSUME TypeInv, NEW r \in Runners, NEW s, s.pc \in {"idle", "advance"},
           run' = [run EXCEPT ![r] = s]
    PROVE  OnlyMoves(r)
  BY HandlerIsBusy DEF OnlyMoves, TypeInv, TypeOK

LEMMA StillKeepsJobs == ASSUME TypeInv, UNCHANGED job PROVE KeepsJobs
  BY DEF KeepsJobs, TypeInv, TypeOK

LEMMA NewJobQuiet ==
    ASSUME TypeInv, NEW f \in Files, Upload(f) \/ Retry(f)
    PROVE  Quiet
<1>1. PICK j \in Jobs : NewJob(j, f)
  BY DEF Upload, Retry
<1>2. j \in Runners /\ Start(j).pc = "advance"
  BY PipelineAssumption DEF Jobs, Runners, Start, Fresh
<1>3. OnlyMoves(j)
  BY <1>1, <1>2, HandlerIsBusy DEF NewJob, OnlyMoves, TypeInv, TypeOK
<1>4. \A i \in Jobs : job[i].status # "none" =>
          job'[i].status # "none" /\ job'[i].file = job[i].file
  BY <1>1 DEF NewJob, TypeInv, TypeOK
<1>. QED
  BY <1>2, <1>3, <1>4 DEF Quiet, OnlyMoves, Upload, Retry, chunkVars, outsideVars

LEMMA WorkerQuiet == ASSUME TypeInv, WorkerPoll \/ WorkerNext PROVE Quiet
<1>1. Worker \in Runners /\ \A j : Start(j).pc = "advance"
  BY PipelineAssumption DEF Worker, Runners, Start, Fresh
<1>2. CASE WorkerPoll
  BY <1>2 DEF WorkerPoll, Quiet, rowVars, chunkVars
<1>3. CASE WorkerNext
  <2>1. OnlyMoves(Worker)
    BY <1>1, <1>3, HandlerIsBusy DEF WorkerNext, OnlyMoves, TypeInv, TypeOK
  <2>. QED
    BY <1>1, <1>3, <2>1, MovesAreQuiet, StillKeepsJobs DEF WorkerNext, rowVars, chunkVars
<1>. QED
  BY <1>2, <1>3

LEMMA LeaveQuiet == ASSUME TypeInv, NEW r \in Runners, Leave(r) \/ Abort(r) PROVE Quiet
<1>1. OnlyMoves(r)
  BY IdleIsSession, LeavingMoves DEF Leave, Abort
<1>. QED
  BY <1>1, MovesAreQuiet, StillKeepsJobs DEF Leave, Abort, rowVars, chunkVars, outsideVars

LEMMA CallQuiet ==
    ASSUME TypeInv, UNCHANGED <<job, owner, run, overlapped>>, active' \subseteq active
    PROVE  Quiet
  BY DEF Quiet

LEMMA RequestQuiet ==
    ASSUME TypeInv,
           Delete \/ Reindex \/ \E f \in Files : DeleteRequest(f) \/ ReindexRequest(f)
    PROVE  Quiet
  BY CallQuiet DEF Delete, DeletePoints, DeleteDocuments, DeleteFailed, DeactivateDeleted,
       DeleteCommit, DeleteRequest, Reindex, ReindexDeactivate, ReindexVectors, ReindexKeywords,
       ReindexRequest, rowVars, chunkVars

LEMMA CrashQuiet == ASSUME TypeInv, Crash PROVE Quiet
  BY IdleIsSession, HandlerIsBusy DEF Crash, Quiet, rowVars, chunkVars, HandlerPcs

\* The handlers other than the two halves of the swap.
LEMMA HandlerQuiet ==
    ASSUME TypeInv, NEW r \in Runners,
           \/ Submit(r) \/ PollUnchanged(r) \/ PollWaiting(r) \/ PollAnswered(r) \/ Normalize(r)
           \/ InsertNothing(r)
           \/ DescribeImages(r) \/ Index(r) \/ Embedded(r) \/ EmbedFailed(r)
           \/ UpsertVectors(r) \/ VectorsFailed(r) \/ UpsertKeywords(r) \/ KeywordsFailed(r)
           \/ Finish(r)
    PROVE  Quiet
<1>1. run[r].pc \in HandlerPcs
  BY DEF Submit, Submitted, SubmitRejected, PollUnchanged, PollWaiting, PollAnswered, PollDone,
         PollFailed, Normalize, NormalizeSkipped, Normalized, NormalizedEmpty, InsertNothing,
         DescribeImages, Index, StartIndexing, NoActiveChunks, Embedded, EmbedFailed, UpsertVectors,
         VectorsFailed, UpsertKeywords, KeywordsFailed, Finish, HandlerPcs
<1>2. owner' = owner /\ active' \subseteq active /\ overlapped' = overlapped
  BY DEF Submit, Submitted, SubmitRejected, PollUnchanged, PollWaiting, PollAnswered, PollDone,
         PollFailed, Normalize, NormalizeSkipped, Normalized, NormalizedEmpty, InsertNothing,
         DescribeImages, Index, StartIndexing, NoActiveChunks, Embedded, EmbedFailed, UpsertVectors,
         VectorsFailed, UpsertKeywords, KeywordsFailed, Finish, MoveOn, Fail, GiveUp,
         chunkVars, outsideVars
<1>3. run[r].pc # "idle" /\ run \in [Runners -> Session]
  BY <1>1, HandlerIsBusy DEF TypeInv, TypeOK
<1>4. /\ run[r].logs \in SUBSET LogKeys /\ LogsSeen(r) \in SUBSET LogKeys
      /\ run[r].logs \cup {"batch"} \in SUBSET LogKeys
      /\ run[r].logs \cup {"parsed"} \in SUBSET LogKeys
  BY <1>3, BusyRunner DEF LogKeys
<1>5. {"parsing", "normalizing", "chunking", "indexing", "indexed", "failed"}
        \subseteq JobStatuses \ {"none"}
  BY DEF JobStatuses, RunnableStatuses, TerminalStatuses
<1>6. KeepsJobs
  <2>1. CASE UNCHANGED job
    BY <2>1, StillKeepsJobs
  <2>2. CASE \E status \in JobStatuses \ {"none"}, logs \in SUBSET LogKeys :
                WriteJob(run[r].job, status, logs)
    BY <1>3, <2>2, WriteJobKeepsJobs
  <2>3. CASE job' = [job EXCEPT ![run[r].job].logs = run[r].logs]
    BY <1>3, <1>4, <2>3, BusyRunner DEF KeepsJobs, TypeInv, TypeOK, JobRow
  <2>4. CASE \/ UpsertVectors(r) \/ UpsertKeywords(r) \/ Embedded(r)
             \/ PollUnchanged(r) \/ NormalizeSkipped(r)
    BY <2>1, <2>4 DEF UpsertVectors, UpsertKeywords, Embedded, PollUnchanged, NormalizeSkipped,
                      GiveUp, rowVars
  <2>5. CASE PollWaiting(r) \/ DescribeImages(r)
    BY <2>3, <2>5 DEF PollWaiting, DescribeImages
  <2>6. CASE Submitted(r) \/ PollDone(r) \/ Normalized(r)
    BY <1>4, <1>5, <2>2, <2>6 DEF Submitted, PollDone, Normalized, MoveOn, WriteProgress
  <2>7. CASE \/ SubmitRejected(r) \/ PollFailed(r) \/ NormalizedEmpty(r) \/ InsertNothing(r)
             \/ NoActiveChunks(r) \/ EmbedFailed(r) \/ VectorsFailed(r) \/ KeywordsFailed(r)
    BY <1>4, <1>5, <2>2, <2>7
      DEF SubmitRejected, PollFailed, NormalizedEmpty, InsertNothing, NoActiveChunks, EmbedFailed,
          VectorsFailed, KeywordsFailed, Fail, WriteFailure
  <2>8. CASE StartIndexing(r) \/ Finish(r)
    BY <1>4, <1>5, <2>2, <2>8 DEF StartIndexing, Finish
  <2>. QED
    BY <2>4, <2>5, <2>6, <2>7, <2>8 DEF Submit, PollAnswered, Normalize, Index
<1>7. OnlyMoves(r)
  <2>1. CASE Return(r)
    BY <2>1, ReturnMoves
  <2>2. CASE UpsertVectors(r) \/ UpsertKeywords(r)
    <3>1. Goto(r, "keywords") \/ Goto(r, "finish")
      BY <2>2 DEF UpsertVectors, UpsertKeywords
    <3>2. \E pc \in {"keywords", "finish"} : Goto(r, pc)
      BY <3>1
    <3>3. {"keywords", "finish"} \subseteq Pcs
      BY DEF Pcs, HandlerPcs
    <3>4. /\ run'[r].pc \in {"keywords", "finish"} /\ run'[r].job = run[r].job
          /\ \A q \in Runners \ {r} : run'[q] = run[q]
      BY <3>2, <3>3, GotoKeepsJobs
    <3>. QED
      BY <1>1, <3>4 DEF OnlyMoves
  <2>3. CASE DescribeImages(r) \/ StartIndexing(r) \/ Embedded(r)
    BY <1>1, <1>3, <2>3 DEF DescribeImages, StartIndexing, Embedded, OnlyMoves, Session
  <2>. QED
    BY <2>1, <2>2, <2>3
      DEF Submit, Submitted, SubmitRejected, PollUnchanged, PollWaiting, PollAnswered, PollDone,
          PollFailed, Normalize, NormalizeSkipped, Normalized, NormalizedEmpty, InsertNothing,
          Index, NoActiveChunks, EmbedFailed, VectorsFailed, KeywordsFailed, Finish,
          MoveOn, Fail, GiveUp
<1>. QED
  BY <1>2, <1>6, <1>7, MovesAreQuiet

\* Letting a second runner in gives up the file.
LEMMA AdvanceKeepsSwap ==
    ASSUME TypeInv, SwapInv, NEW r \in Runners, Advance(r)
    PROVE  SwapInv'
<1>. DEFINE f == job[run[r].job].file
<1>1. /\ run \in [Runners -> Session]
      /\ run[r].pc = "advance"
      /\ job' = job /\ owner' = owner /\ active' = active
      /\ overlapped' = IF \E q \in Runners : Inside(q, f) THEN overlapped \cup {f} ELSE overlapped
  BY DEF Advance, TypeInv, TypeOK, rowVars, chunkVars
<1>2. /\ \A q \in Runners \ {r} : run'[q] = run[q]
      /\ run'[r].job = run[r].job
      /\ run'[r].pc # "insert"
  BY <1>1 DEF Advance, MayAdvance, Handler, RunnableStatuses, Session
<1>3. \A e, q : q \in Runners \ {r} => (Inside(q, e)' <=> Inside(q, e))
  BY <1>1, <1>2 DEF Inside
<1>4. \A e : Inside(r, e)' => e = f
  BY <1>1, <1>2 DEF Inside
<1>5. Exclusive'
  <2>. SUFFICES ASSUME NEW e \in Files \ overlapped', NEW a \in Runners, NEW b \in Runners,
                       Inside(a, e)', Inside(b, e)'
                PROVE  a = b
    BY DEF Exclusive
  <2>1. e \notin overlapped /\ (e = f => \A q \in Runners : ~Inside(q, e))
    BY <1>1
  <2>2. CASE a # r /\ b # r
    BY <1>3, <2>1, <2>2 DEF SwapInv, Exclusive
  <2>3. CASE a = r \/ b = r
    BY <1>3, <1>4, <2>1, <2>3
  <2>. QED
    BY <2>2, <2>3
<1>6. Owned' /\ AtMostOne' /\ SwapReady'
  BY <1>1, <1>2 DEF SwapInv, Owned, AtMostOne, SwapReady, ActiveChunks, FileOf
<1>. QED
  BY <1>5, <1>6 DEF SwapInv

\* The first half of the swap: what is active is what will be deactivated.
LEMMA DeactivateKeepsSwap ==
    ASSUME TypeInv, SwapInv, NEW r \in Runners, Deactivate(r)
    PROVE  SwapInv'
<1>. DEFINE f == job[run[r].job].file
<1>1. /\ run \in [Runners -> Session]
      /\ run[r].pc \in HandlerPcs
      /\ job' = job /\ owner' = owner /\ active' = active /\ overlapped' = overlapped
  BY DEF Deactivate, TypeInv, TypeOK, rowVars, chunkVars, outsideVars, HandlerPcs
<1>2. /\ \A q \in Runners \ {r} : run'[q] = run[q]
      /\ run'[r].job = run[r].job
      /\ run'[r].gens = ActiveChunks(f)
  BY <1>1 DEF Deactivate, Session
<1>3. \A e : \A q \in Runners : Inside(q, e)' => Inside(q, e)
  BY <1>1, <1>2 DEF Inside
<1>4. Exclusive'
  BY <1>1, <1>3 DEF SwapInv, Exclusive
<1>5. Owned' /\ AtMostOne' /\ SwapReady'
  BY <1>1, <1>2 DEF SwapInv, Owned, AtMostOne, SwapReady, ActiveChunks, FileOf
<1>. QED
  BY <1>4, <1>5 DEF SwapInv

\* The second half: the only other runner that could have activated chunks of
\* the file since the first half would have been inside an advance of it.
LEMMA InsertKeepsSwap ==
    ASSUME TypeInv, SwapInv, NEW r \in Runners, InsertChunks(r)
    PROVE  SwapInv'
<1>. DEFINE f == job[run[r].job].file
<1>1. run[r].pc # "idle" /\ run[r].pc \in HandlerPcs
  BY DEF InsertChunks, HandlerPcs
<1>2. /\ run[r].job \in Jobs /\ job[run[r].job].status # "none"
      /\ run[r].logs \in SUBSET LogKeys
  BY <1>1, BusyRunner
<1>3. KeepsJobs
  BY <1>1, <1>2, WriteJobKeepsJobs DEF InsertChunks, WriteProgress, JobStatuses, RunnableStatuses
<1>4. PICK g \in Gens : /\ owner[g] = 0
                        /\ owner' = [owner EXCEPT ![g] = run[r].job]
                        /\ active' = (active \ run[r].gens) \cup {g}
  BY DEF InsertChunks
<1>5. /\ owner \in [Gens -> 0 .. MaxJobs] /\ active \subseteq Gens
      /\ overlapped' = overlapped /\ g \notin active
  BY <1>4, PipelineAssumption DEF InsertChunks, TypeInv, TypeOK, outsideVars, SwapInv, Owned, Jobs
<1>6. /\ \A q \in Runners \ {r} : run'[q] = run[q]
      /\ run'[r].pc = "advance" /\ run'[r].job = run[r].job
  BY ReturnKeepsOthers DEF InsertChunks
<1>7. \A h \in active' \ {g} : h \in active /\ h \notin run[r].gens /\ FileOf(h)' = FileOf(h)
  BY <1>3, <1>4, <1>5 DEF FileOf, KeepsJobs, SwapInv, Owned
<1>8. FileOf(g)' = f
  BY <1>2, <1>3, <1>4, <1>5 DEF FileOf, KeepsJobs
<1>9. Owned'
  BY <1>2, <1>3, <1>4, <1>5 DEF Owned, KeepsJobs, SwapInv
<1>10. f \notin overlapped => ActiveChunks(f) \subseteq run[r].gens
  BY DEF SwapInv, SwapReady, InsertChunks
<1>11. \A e \in Files \ overlapped : \A h \in active' : FileOf(h)' = e =>
           \/ e = f /\ h = g
           \/ e # f /\ h \in ActiveChunks(e)
  BY <1>7, <1>8, <1>10 DEF ActiveChunks
<1>12. AtMostOne'
  <2>. SUFFICES ASSUME NEW e \in Files \ overlapped, NEW h \in active', NEW i \in active',
                       FileOf(h)' = e, FileOf(i)' = e
                PROVE  h = i
    BY <1>5 DEF AtMostOne, ActiveChunks
  <2>. QED
    BY <1>11 DEF SwapInv, AtMostOne
<1>13. \A e : \A q \in Runners : Inside(q, e)' => q # r /\ Inside(q, e)
  <2>. SUFFICES ASSUME NEW e, NEW q \in Runners, Inside(q, e)'
                PROVE  q # r /\ Inside(q, e)
    OBVIOUS
  <2>1. q # r /\ run'[q] = run[q] /\ run[q].pc \in HandlerPcs
    BY <1>6, HandlerIsBusy DEF Inside
  <2>2. run[q].job \in Jobs
    BY <2>1, BusyRunner, HandlerIsBusy
  <2>. QED
    BY <1>3, <2>1, <2>2 DEF Inside, KeepsJobs
<1>14. Exclusive'
  BY <1>5, <1>13 DEF SwapInv, Exclusive
<1>15. SwapReady'
  <2>. SUFFICES ASSUME NEW q \in Runners, run'[q].pc = "insert",
                       job'[run'[q].job].file \notin overlapped,
                       NEW h \in active', FileOf(h)' = job'[run'[q].job].file
                PROVE  h \in run'[q].gens
    BY <1>5 DEF SwapReady, ActiveChunks
  <2>1. q # r /\ run'[q] = run[q] /\ run[q].pc = "insert"
    BY <1>6
  <2>2. run[q].job \in Jobs /\ job[run[q].job].file \in Files
    BY <2>1, BusyRunner
  <2>3. job'[run'[q].job].file = job[run[q].job].file
    BY <1>3, <2>1, <2>2 DEF KeepsJobs
  <2>4. ActiveChunks(job[run[q].job].file) \subseteq run[q].gens
    BY <2>1, <2>3 DEF SwapInv, SwapReady
  <2>5. job[run[q].job].file # f
    BY <1>1, <1>2, <2>1, <2>2, <2>3, BusyRunner
      DEF SwapInv, Exclusive, Inside, InsertChunks, HandlerPcs
  <2>6. h \in ActiveChunks(job[run[q].job].file)
    BY <1>11, <2>2, <2>3, <2>5
  <2>. QED
    BY <2>1, <2>4, <2>6
<1>. QED
  BY <1>9, <1>12, <1>14, <1>15 DEF SwapInv

LEMMA InitSwap == Init => SwapInv
  BY IdleIsSession, HandlerIsBusy
    DEF Init, SwapInv, Owned, Exclusive, SwapReady, AtMostOne, ActiveChunks, Inside, HandlerPcs

LEMMA NextSwap == TypeInv /\ SwapInv /\ [Next]_vars => SwapInv'
<1>. SUFFICES ASSUME TypeInv, SwapInv, [Next]_vars PROVE SwapInv'
  OBVIOUS
<1>1. CASE UNCHANGED vars
  BY <1>1, QuietKeepsSwap DEF vars, Quiet
<1>2. CASE Next
  <2>1. CASE \E f \in Files : Upload(f) \/ Retry(f)
    BY <2>1, NewJobQuiet, QuietKeepsSwap
  <2>2. CASE Delete \/ Reindex \/ \E f \in Files : DeleteRequest(f) \/ ReindexRequest(f)
    BY <2>2, RequestQuiet, QuietKeepsSwap
  <2>3. CASE WorkerPoll \/ WorkerNext
    BY <2>3, WorkerQuiet, QuietKeepsSwap
  <2>4. ASSUME NEW r \in Runners, Run(r) PROVE SwapInv'
    <3>1. CASE Advance(r)
      BY <3>1, AdvanceKeepsSwap
    <3>2. CASE Deactivate(r)
      BY <3>2, DeactivateKeepsSwap
    <3>3. CASE InsertChunks(r)
      BY <3>3, InsertKeepsSwap
    <3>4. CASE Leave(r) \/ Abort(r)
      BY <3>4, LeaveQuiet, QuietKeepsSwap
    <3>. QED
      BY <2>4, <3>1, <3>2, <3>3, <3>4, HandlerQuiet, QuietKeepsSwap DEF Run, Work
  <2>5. CASE Crash
    BY <2>5, CrashQuiet, QuietKeepsSwap
  <2>. QED
    BY <1>2, <2>1, <2>2, <2>3, <2>4, <2>5 DEF Next
<1>. QED
  BY <1>1, <1>2

LEMMA AtMostOneCounts == TypeInv /\ AtMostOne => OneActiveGeneration
<1>. SUFFICES ASSUME TypeInv, AtMostOne, NEW f \in Files \ overlapped
              PROVE  Cardinality(ActiveChunks(f)) <= 1
  BY DEF OneActiveGeneration
<1>1. CASE ActiveChunks(f) = {}
  BY <1>1, FS_EmptySet
<1>2. CASE ActiveChunks(f) # {}
  <2>1. PICK g : ActiveChunks(f) = {g}
    BY <1>2 DEF AtMostOne
  <2>. QED
    BY <2>1, FS_Singleton
<1>. QED
  BY <1>1, <1>2

\* However often a file is uploaded, retried and deleted and the backend dies,
\* at most one generation of its chunks is active, as long as no two runners
\* were inside an advance of it at once: generate_chunks_for_parse_job swaps
\* generations in one commit.
THEOREM OneGeneration == Spec => []OneActiveGeneration
<1>1. Init => TypeInv /\ SwapInv
  BY InitTyped, InitSwap
<1>2. TypeInv /\ SwapInv /\ [Next]_vars => (TypeInv /\ SwapInv)'
  BY NextTyped, NextSwap
<1>3. TypeInv /\ SwapInv => OneActiveGeneration
  BY AtMostOneCounts DEF SwapInv
<1>. QED
  BY <1>1, <1>2, <1>3, PTL DEF Spec

-----------------------------------------------------------------------------
(***************************************************************************)
(* From here on: what the pipeline promises of a file on which advances    *)
(* did not overlap.  Which chunks answers may use, what the file row says  *)
(* when its job has ended, and that ParsePipeline implements               *)
(* DocumentVersions.                                                       *)
(***************************************************************************)

-----------------------------------------------------------------------------
(* Jobs, and who holds which generations *)

JobsOf(f) == {j \in Jobs : job[j].file = f /\ job[j].status # "none"}

\* Jobs are numbered as they are created.
JobsInOrder ==
    \A i, j \in Jobs : i < j /\ job[j].status # "none" => job[i].status # "none"

\* A file that was uploaded names its newest job.
LatestKnown(f) ==
    /\ \A j \in JobsOf(f) : file[f].status # "none" /\ j <= file[f].latest
    /\ file[f].status # "none" => file[f].latest \in JobsOf(f)
    /\ file[f].status = "none" => ~file[f].deleted

\* What a runner or a delete writes to are generations of its own file.
HeldByFile ==
    /\ \A r \in Runners : run[r].pc # "idle" =>
          \A g \in run[r].gens : owner[g] \in JobsOf(job[run[r].job].file)
    /\ \A g \in deletion.gens : owner[g] \in JobsOf(deletion.file)

\* A delete in progress is of a file that was uploaded.
DeletesUploaded == deletion.pc # "idle" => file[deletion.file].status # "none" /\ deletion.file \in Files

BaseInv == JobsInOrder /\ (\A f \in Files : LatestKnown(f)) /\ HeldByFile /\ DeletesUploaded

-----------------------------------------------------------------------------
(* A file on which advances did not overlap *)

\* What the job of a runner is while the runner is inside an advance of it.
AtStage(pc, status) ==
    /\ pc = "submit" => status = "queued"
    /\ pc = "poll" => status = "parsing"
    /\ pc = "normalize" => status = "normalizing"
    /\ pc \in {"chunk", "insert"} => status = "chunking"
    /\ pc \in {"describe", "index"} => status = "embedding"
    /\ pc \in {"embed", "vectors", "keywords", "finish"} => status = "indexing"

\* The session knows the status of the file, unless a retry has changed it.
SeenFits(r, f) ==
    /\ run[r].pc = "submit" =>
          \/ run[r].seen = file[f].status
          \/ file[f].status = "processing" /\ run[r].job # file[f].latest
    /\ run[r].pc # "submit" =>
          file[f].status = "processing" /\ run[r].seen \in {"processing", "expired"}

IndexPcs == {"embed", "vectors", "keywords", "finish"}

\* From the insertion on, the active chunks are those of the job, and the ones
\* that are indexed.
ChunksFit(r, f) ==
    /\ run[r].pc \in {"describe", "index"} \cup IndexPcs =>
          \A g \in ActiveChunks(f) : owner[g] = run[r].job
    /\ run[r].pc \in IndexPcs => run[r].gens = ActiveChunks(f) /\ run[r].gens # {}

\* A newer job has not begun, or nobody would be inside an advance of this one.
RunnerFits(r, f) ==
    /\ AtStage(run[r].pc, job[run[r].job].status)
    /\ \A i \in JobsOf(f) : i > run[r].job => job[i].status = "queued"
    /\ ~file[f].deleted => SeenFits(r, f) /\ ChunksFit(r, f)

FileFits(f) ==
    LET status == job[file[f].latest].status IN
    /\ status \in {"parsing", "normalizing", "chunking", "embedding", "indexing"} =>
          file[f].status = "processing"
    /\ status \in TerminalStatuses => file[f].status = status
    /\ status \in {"embedding", "indexing"} =>
          \A g \in ActiveChunks(f) : owner[g] = file[f].latest
    /\ file[f].status = "indexed" =>
          \A g \in ActiveChunks(f) : owner[g] = LatestIndexed(f)

FileInv(f) ==
    f \notin overlapped =>
        /\ \A r \in Runners : Inside(r, f) => RunnerFits(r, f)
        /\ Visible(f) => FileFits(f)

VersionInv == BaseInv /\ \A f \in Files : FileInv(f)

-----------------------------------------------------------------------------
(* Frames *)

\* The step leaves file e alone, save that runners may leave an advance of it.
Same(e) ==
    /\ file'[e] = file[e]
    /\ JobsOf(e)' = JobsOf(e)
    /\ \A j \in JobsOf(e) : job'[j].status = job[j].status
    /\ ActiveChunks(e)' = ActiveChunks(e)
    /\ \A g \in ActiveChunks(e) : owner'[g] = owner[g]
    /\ \A q \in Runners : Inside(q, e)' => Inside(q, e) /\ run'[q] = run[q]
    /\ e \in overlapped' <=> e \in overlapped

IndexedOf(f) == {j \in JobsOf(f) : job[j].status = "indexed"}

Newest(S) == IF S = {} THEN 0 ELSE CHOOSE j \in S : \A i \in S : i <= j

\* A set of numbers with an upper bound has a greatest one.
LEMMA GreatestExists ==
    ASSUME NEW n \in Nat, NEW S \in SUBSET (1 .. n), S # {}
    PROVE  \E j \in S : \A i \in S : i <= j
<1>. DEFINE R == {p \in Nat \X Nat : p[1] < p[2]}
            T == {n - j : j \in S}
<1>1. IsWellFoundedOn(R, Nat)
  BY NatLessThanWellFounded, Zenon DEF OpToRel
<1>2. T \subseteq Nat /\ T # {}
  <2>1. \A j \in S : j \in Nat /\ j <= n /\ n - j \in Nat
    OBVIOUS
  <2>. QED
    BY <2>1
<1>. HIDE DEF T
<1>3. PICK x \in T : \A y \in T : ~ (<<y, x>> \in R)
  <2>. HIDE DEF R
  <2>. QED
    BY <1>1, <1>2, WFMin
<1>4. ASSUME NEW y \in T PROVE x <= y
  <2>1. x \in Nat /\ y \in Nat /\ <<y, x>> \in Nat \X Nat /\ <<y, x>>[1] = y /\ <<y, x>>[2] = x
    BY <1>2
  <2>2. ~(y < x)
    BY <1>3, <2>1
  <2>. QED
    BY <2>1, <2>2
<1>5. PICK j \in S : x = n - j
  BY DEF T
<1>6. ASSUME NEW i \in S PROVE i <= j
  <2>1. n - i \in T
    BY DEF T
  <2>. QED
    BY <1>4, <1>5, <2>1
<1>. QED
  BY <1>6

LEMMA NewestExists ==
    ASSUME NEW S \in SUBSET Jobs, S # {}
    PROVE  Newest(S) \in S /\ \A i \in S : i <= Newest(S)
<1>1. \E j \in S : \A i \in S : i <= j
  BY GreatestExists, PipelineAssumption DEF Jobs
<1>. QED
  BY <1>1 DEF Newest

LEMMA LatestIsNewest ==
    ASSUME NEW f
    PROVE  LatestIndexed(f) = Newest(IndexedOf(f)) /\ LatestIndexed(f)' = Newest(IndexedOf(f)')
<1>1. LatestIndexed(f) = Newest(IndexedOf(f))
  <2>. DEFINE D == {j \in Jobs : job[j].file = f /\ job[j].status = "indexed"}
  <2>1. D = IndexedOf(f)
    BY DEF JobsOf, IndexedOf
  <2>2. LatestIndexed(f) = Newest(D)
    BY DEF LatestIndexed, Newest
  <2>. HIDE DEF D
  <2>. QED
    BY <2>1, <2>2
<1>2. LatestIndexed(f)' = Newest(IndexedOf(f)')
  <2>. DEFINE D == {j \in Jobs : job'[j].file = f /\ job'[j].status = "indexed"}
  <2>1. D = IndexedOf(f)'
    BY DEF JobsOf, IndexedOf
  <2>2. LatestIndexed(f)' = Newest(D)
    BY DEF LatestIndexed, Newest
  <2>. HIDE DEF D
  <2>. QED
    BY <2>1, <2>2
<1>. QED
  BY <1>1, <1>2

LEMMA SameLatest ==
    ASSUME NEW e, JobsOf(e)' = JobsOf(e), \A j \in JobsOf(e) : job'[j].status = job[j].status
    PROVE  LatestIndexed(e)' = LatestIndexed(e)
<1>1. IndexedOf(e)' = IndexedOf(e)
  BY DEF IndexedOf
<1>. QED
  BY <1>1, LatestIsNewest

\* A runner inside an advance of f works on a job of f.
LEMMA InsideJob ==
    ASSUME TypeInv, NEW r \in Runners, NEW f, Inside(r, f)
    PROVE  run[r].job \in JobsOf(f) /\ run[r].pc # "idle" /\ f \in Files
  BY BusyRunner, HandlerIsBusy DEF Inside, JobsOf

LEMMA SameKeeps ==
    ASSUME TypeInv, BaseInv, NEW e \in Files, FileInv(e), Same(e)
    PROVE  FileInv(e)'
<1>. SUFFICES ASSUME e \notin overlapped
              PROVE  /\ \A r \in Runners : Inside(r, e)' => RunnerFits(r, e)'
                     /\ Visible(e)' => FileFits(e)'
  BY DEF Same, FileInv
<1>1. ASSUME NEW r \in Runners, Inside(r, e)'
      PROVE  RunnerFits(r, e)'
  <2>1. Inside(r, e) /\ run'[r] = run[r] /\ RunnerFits(r, e)
    BY <1>1 DEF Same, FileInv
  <2>2. run[r].job \in JobsOf(e)
    BY <2>1, InsideJob
  <2>. QED
    BY <2>1, <2>2 DEF RunnerFits, SeenFits, ChunksFit, AtStage, Same
<1>2. ASSUME Visible(e)'
      PROVE  FileFits(e)'
  <2>1. Visible(e) /\ FileFits(e) /\ file[e].latest \in JobsOf(e)
    BY <1>2 DEF Visible, FileInv, Same, BaseInv, LatestKnown
  <2>2. LatestIndexed(e)' = LatestIndexed(e)
    BY SameLatest DEF Same
  <2>. QED
    BY <2>1, <2>2 DEF FileFits, Same
<1>. QED
  BY <1>1, <1>2

\* A step of runner r on the file f of its job.
StepOn(r, f) ==
    /\ f = job[run[r].job].file /\ run[r].pc # "idle"
    /\ KeepsJobs
    /\ \A i \in Jobs \ {run[r].job} : job'[i].status = job[i].status
    /\ \A e \in Files \ {f} : file'[e] = file[e]
    /\ \A e \in Files \ {f} : ActiveChunks(e)' = ActiveChunks(e)
    /\ \A g \in Gens : owner[g] # 0 => owner'[g] = owner[g]
    /\ \A q \in Runners \ {r} : run'[q] = run[q]
    /\ run'[r].job = run[r].job \/ run'[r].pc = "idle"
    /\ \A e \in Files \ {f} : e \in overlapped' <=> e \in overlapped

LEMMA KeepsJobsOf ==
    ASSUME KeepsJobs, NEW e
    PROVE  JobsOf(e)' = JobsOf(e)
  BY DEF KeepsJobs, JobsOf

LEMMA StepSame ==
    ASSUME TypeInv, SwapInv, NEW r \in Runners, NEW f, StepOn(r, f), NEW e \in Files \ {f}
    PROVE  Same(e)
<1>1. JobsOf(e)' = JobsOf(e)
  BY KeepsJobsOf DEF StepOn
<1>2. run[r].job \in JobsOf(f) /\ run[r].job \in Jobs
  BY BusyRunner DEF StepOn, JobsOf
<1>3. \A j \in JobsOf(e) : job'[j].status = job[j].status
  BY <1>2 DEF StepOn, JobsOf
<1>4. \A g \in ActiveChunks(e) : owner'[g] = owner[g]
  BY PipelineAssumption DEF StepOn, ActiveChunks, SwapInv, Owned, Jobs, TypeInv, TypeOK
<1>5. ASSUME NEW q \in Runners, Inside(q, e)'
      PROVE  Inside(q, e) /\ run'[q] = run[q]
  <2>1. run'[q].pc \in HandlerPcs /\ job'[run'[q].job].file = e /\ run'[q].pc # "idle"
    BY <1>5, HandlerIsBusy DEF Inside
  <2>2. q # r
    BY <1>2, <2>1 DEF StepOn, KeepsJobs
  <2>3. run'[q] = run[q] /\ run[q].job \in Jobs
    BY <2>1, <2>2, BusyRunner DEF StepOn
  <2>. QED
    BY <2>1, <2>3 DEF Inside, StepOn, KeepsJobs
<1>. QED
  BY <1>1, <1>3, <1>4, <1>5 DEF Same, StepOn

\* ... which changes of the row of f its status alone.
KeepsMarks(f) ==
    /\ file'[f].latest = file[f].latest /\ file'[f].deleted = file[f].deleted
    /\ file'[f].status # "none"

LEMMA StepBase ==
    ASSUME TypeInv, TypeInv', SwapInv, BaseInv, NEW r \in Runners, NEW f \in Files,
           StepOn(r, f), KeepsMarks(f), deletion' = deletion,
           run'[r].gens \subseteq run[r].gens \cup ActiveChunks(f)
    PROVE  BaseInv'
<1>1. \A e : JobsOf(e)' = JobsOf(e)
  BY KeepsJobsOf DEF StepOn
<1>2. \A g \in Gens : owner[g] \in Jobs => owner'[g] = owner[g]
  BY PipelineAssumption DEF StepOn, Jobs
<1>3. JobsInOrder'
  BY DEF BaseInv, JobsInOrder, StepOn, KeepsJobs
<1>4. ASSUME NEW e \in Files PROVE LatestKnown(e)'
  <2>1. LatestKnown(e) /\ LatestKnown(f)
    BY DEF BaseInv
  <2>2. CASE e # f
    BY <1>1, <2>1, <2>2 DEF LatestKnown, StepOn
  <2>3. CASE e = f
    <3>1. run[r].job \in JobsOf(f)
      BY BusyRunner DEF StepOn, JobsOf
    <3>. QED
      BY <1>1, <2>1, <2>3, <3>1 DEF LatestKnown, KeepsMarks
  <2>. QED
    BY <2>2, <2>3
<1>5. ASSUME NEW q \in Runners, run'[q].pc # "idle", NEW g \in run'[q].gens
      PROVE  owner'[g] \in JobsOf(job'[run'[q].job].file)
  <2>1. /\ run[q].pc # "idle" /\ run'[q].job = run[q].job
        /\ g \in run[q].gens \/ (q = r /\ g \in ActiveChunks(f))
    BY <1>5 DEF StepOn
  <2>2. run[q].job \in Jobs /\ job[run[q].job].status # "none" /\ run[q].gens \subseteq Gens
    BY <2>1, BusyRunner
  <2>3. job'[run'[q].job].file = job[run[q].job].file
    BY <2>1, <2>2 DEF StepOn, KeepsJobs
  <2>4. g \in Gens /\ owner[g] \in JobsOf(job[run[q].job].file)
    <3>1. CASE g \in run[q].gens
      BY <2>1, <2>2, <3>1 DEF BaseInv, HeldByFile
    <3>2. CASE q = r /\ g \in ActiveChunks(f)
      BY <3>2 DEF StepOn, ActiveChunks, FileOf, JobsOf, SwapInv, Owned, TypeInv, TypeOK
    <3>. QED
      BY <2>1, <3>1, <3>2
  <2>. QED
    BY <1>1, <1>2, <2>3, <2>4 DEF JobsOf
<1>6. ASSUME NEW g \in deletion.gens PROVE owner'[g] \in JobsOf(deletion.file)'
  <2>1. g \in Gens /\ owner[g] \in JobsOf(deletion.file)
    BY DEF BaseInv, HeldByFile, TypeInv, TypeOK, Call
  <2>. QED
    BY <1>2, <2>1 DEF JobsOf, StepOn, KeepsJobs
<1>7. HeldByFile'
  BY <1>1, <1>5, <1>6 DEF HeldByFile
<1>8. DeletesUploaded'
  BY DEF BaseInv, DeletesUploaded, StepOn, KeepsMarks
<1>. QED
  BY <1>3, <1>4, <1>7, <1>8 DEF BaseInv

\* It is enough to look at f, and at r.
LEMMA StepKeeps ==
    ASSUME TypeInv, TypeInv', SwapInv, VersionInv, NEW r \in Runners, NEW f \in Files,
           StepOn(r, f), KeepsMarks(f), deletion' = deletion,
           run'[r].gens \subseteq run[r].gens \cup ActiveChunks(f),
           f \notin overlapped' =>
                /\ f \notin overlapped
                /\ \A q \in Runners \ {r} : ~Inside(q, f)
                /\ Inside(r, f)' => RunnerFits(r, f)'
                /\ Visible(f)' => FileFits(f)'
    PROVE  VersionInv'
<1>1. BaseInv'
  BY StepBase DEF VersionInv
<1>2. \A e \in Files \ {f} : FileInv(e)'
  BY StepSame, SameKeeps DEF VersionInv
<1>3. ASSUME f \notin overlapped', NEW q \in Runners, Inside(q, f)'
      PROVE  q = r
  <2>. SUFFICES ASSUME q # r PROVE Inside(q, f)
    BY <1>3
  <2>1. run'[q] = run[q] /\ run[q].pc \in HandlerPcs /\ run[q].job \in Jobs
    BY <1>3, BusyRunner, HandlerIsBusy DEF StepOn, Inside
  <2>. QED
    BY <1>3, <2>1 DEF Inside, StepOn, KeepsJobs
<1>4. FileInv(f)'
  BY <1>3 DEF FileInv
<1>. QED
  BY <1>1, <1>2, <1>4 DEF VersionInv

-----------------------------------------------------------------------------
(* The handlers of a runner *)

LEMMA InsideFits ==
    ASSUME TypeInv, SwapInv, VersionInv, NEW r \in Runners, NEW f, Inside(r, f)
    PROVE  /\ run[r].pc \in HandlerPcs /\ run[r].pc # "idle"
           /\ f = job[run[r].job].file /\ f \in Files
           /\ run[r].job \in JobsOf(f) /\ run[r].job \in Jobs /\ run[r].job <= file[f].latest
           /\ file[f].status # "none" /\ file[f].latest \in JobsOf(f)
           /\ f \notin overlapped => RunnerFits(r, f) /\ \A q \in Runners \ {r} : ~Inside(q, f)
<1>1. f \in Files /\ run[r].job \in JobsOf(f) /\ run[r].pc # "idle"
  BY InsideJob
<1>. QED
  BY <1>1 DEF Inside, JobsOf, VersionInv, BaseInv, LatestKnown, FileInv, SwapInv, Exclusive

-----------------------------------------------------------------------------
(* What a step does to the versions that are served *)

\* File e serves what it served.
Serves(e) ==
    /\ e \in Retired' <=> e \in Retired
    /\ e \notin Retired =>
          /\ Retrievable(e)' = Retrievable(e)
          /\ \A g \in Retrievable(e) : owner'[g] = owner[g]
          /\ LatestIndexed(e)' = LatestIndexed(e)

Withdraws(f) ==
    /\ \A e \in Files \ {f} : Serves(e)
    /\ f \notin Retired /\ f \notin Retired'
    /\ Retrievable(f)' = {} /\ LatestIndexed(f)' = LatestIndexed(f)

Retires(f) ==
    /\ \A e \in Files \ {f} : Serves(e)
    /\ f \notin Retired /\ f \in Retired'

\* No step but Finish puts a version in service.
PublishesNothing ==
    (\A e \in Files : Serves(e)) \/ \E f \in Files : Withdraws(f) \/ Retires(f)

LEMMA SameServes ==
    ASSUME NEW e \in Files, Same(e)
    PROVE  Serves(e)
<1>1. LatestIndexed(e)' = LatestIndexed(e)
  BY SameLatest DEF Same
<1>. QED
  BY <1>1 DEF Same, Serves, Retired, Retrievable, Visible

\* A handler of file f that does not index its job: f is retired, or serves
\* nothing afterwards.
LEMMA StepWithdraws ==
    ASSUME TypeInv, SwapInv, VersionInv, NEW r \in Runners, NEW f, Inside(r, f),
           StepOn(r, f), KeepsMarks(f), overlapped' = overlapped,
           job'[run[r].job].status # "indexed",
           f \notin overlapped /\ ~file[f].deleted => file'[f].status # "indexed"
    PROVE  PublishesNothing
<1>1. f \in Files /\ \A e \in Files \ {f} : Serves(e)
  BY InsideFits, StepSame, SameServes
<1>2. f \in Retired' <=> f \in Retired
  BY <1>1 DEF Retired, KeepsMarks
<1>3. ASSUME f \notin Retired
      PROVE  Retrievable(f)' = {} /\ LatestIndexed(f)' = LatestIndexed(f)
  <2>1. f \notin overlapped /\ ~file[f].deleted
    BY <1>1, <1>3 DEF Retired
  <2>2. run[r].job \in JobsOf(f) /\ RunnerFits(r, f) /\ run[r].pc \in HandlerPcs
    BY <2>1, InsideFits
  <2>3. job[run[r].job].status # "indexed"
    BY <2>2 DEF RunnerFits, AtStage, HandlerPcs
  <2>4. JobsOf(f)' = JobsOf(f)
    BY KeepsJobsOf DEF StepOn
  <2>5. IndexedOf(f)' = IndexedOf(f)
    BY <2>3, <2>4 DEF IndexedOf, StepOn, JobsOf
  <2>. QED
    BY <2>1, <2>5, LatestIsNewest DEF Retrievable
<1>4. CASE f \in Retired
  BY <1>1, <1>2, <1>4 DEF PublishesNothing, Serves
<1>5. CASE f \notin Retired
  BY <1>1, <1>2, <1>3, <1>5 DEF PublishesNothing, Withdraws
<1>. QED
  BY <1>4, <1>5

-----------------------------------------------------------------------------
(* How the handlers write *)

LEMMA WritesStatus ==
    ASSUME TypeInv, NEW f \in Files, file[f].status # "none",
           NEW seen, NEW status \in FileStatuses \ {"none"}, WriteFileStatus(f, seen, status)
    PROVE  /\ KeepsMarks(f)
           /\ \A e \in Files \ {f} : file'[e] = file[e]
           /\ \/ file'[f].status = status
              \/ seen = status /\ file'[f].status = file[f].status
<1>1. file \in [Files -> FileRow] /\ file[f] \in FileRow
  BY DEF TypeInv, TypeOK
<1>2. CASE seen = status
  BY <1>2 DEF WriteFileStatus, KeepsMarks
<1>3. CASE seen # status
  BY <1>1, <1>3 DEF WriteFileStatus, KeepsMarks, FileRow
<1>. QED
  BY <1>2, <1>3

LEMMA ActiveKept ==
    ASSUME TypeInv, SwapInv, KeepsJobs, owner' = owner, active' = active, NEW e
    PROVE  ActiveChunks(e)' = ActiveChunks(e)
  BY DEF KeepsJobs, ActiveChunks, FileOf, SwapInv, Owned

\* A runner that writes to its job and its file, and to no chunk.
LEMMA WriteStepOn ==
    ASSUME TypeInv, SwapInv, NEW r \in Runners, run[r].pc # "idle",
           NEW f, f = job[run[r].job].file,
           NEW status \in JobStatuses \ {"none"}, NEW logs \in SUBSET LogKeys,
           WriteJob(run[r].job, status, logs),
           \A e \in Files \ {f} : file'[e] = file[e],
           \A e \in Files \ {f} : KeepsJobs => ActiveChunks(e)' = ActiveChunks(e),
           \A g \in Gens : owner[g] # 0 => owner'[g] = owner[g],
           \A q \in Runners \ {r} : run'[q] = run[q],
           run'[r].job = run[r].job, overlapped' = overlapped
    PROVE  StepOn(r, f) /\ job'[run[r].job].status = status
<1>1. KeepsJobs
  BY WriteJobKeepsJobs
<1>2. /\ \A i \in Jobs \ {run[r].job} : job'[i].status = job[i].status
      /\ job'[run[r].job].status = status
  <2>1. run[r].job \in Jobs /\ job \in [Jobs -> JobRow] /\ job[run[r].job] \in JobRow
    BY BusyRunner DEF TypeInv, TypeOK
  <2>. QED
    BY <2>1 DEF WriteJob, JobRow
<1>. QED
  BY <1>1, <1>2 DEF StepOn

\* A handler returns: nobody is inside an advance of the file any more.
LEMMA ReturnKeeps ==
    ASSUME TypeInv, TypeInv', SwapInv, VersionInv, NEW r \in Runners, NEW f, Inside(r, f),
           StepOn(r, f), Return(r), KeepsMarks(f), deletion' = deletion, overlapped' = overlapped,
           f \notin overlapped /\ Visible(f)' => FileFits(f)'
    PROVE  VersionInv'
<1>1. run'[r].pc = "advance" /\ ~Inside(r, f)'
  BY ReturnKeepsOthers, HandlerIsBusy DEF Inside
<1>2. run'[r].gens = {}
  BY DEF Return, Fresh, TypeInv, TypeOK
<1>3. f \in Files
  BY InsideFits
<1>4. f \notin overlapped' =>
        /\ f \notin overlapped
        /\ \A q \in Runners \ {r} : ~Inside(q, f)
        /\ Inside(r, f)' => RunnerFits(r, f)'
        /\ Visible(f)' => FileFits(f)'
  BY <1>1, InsideFits
<1>. QED
  BY <1>2, <1>3, <1>4, StepKeeps

\* What the rows say afterwards, if the job has not been indexed.
LEMMA FitsAfter ==
    ASSUME TypeInv, SwapInv, VersionInv, NEW r \in Runners, NEW f, Inside(r, f),
           f \notin overlapped, StepOn(r, f), KeepsMarks(f), NEW status,
           job'[run[r].job].status = status, file'[f].status # "indexed",
           run[r].job = file[f].latest =>
                \/ status \in {"parsing", "normalizing", "chunking"} /\ file'[f].status = "processing"
                \/ status = "failed" /\ file'[f].status = "failed"
                \/ /\ status = "embedding" /\ file'[f].status = "processing"
                   /\ \A g \in ActiveChunks(f)' : owner'[g] = run[r].job
    PROVE  FileFits(f)'
<1>1. file'[f].latest = file[f].latest
  BY DEF KeepsMarks
<1>2. CASE run[r].job = file[f].latest
  BY <1>1, <1>2 DEF FileFits, TerminalStatuses
<1>3. CASE run[r].job # file[f].latest
  <2>1. /\ file[f].latest \in JobsOf(f) /\ run[r].job <= file[f].latest
        /\ file[f].latest \in Jobs /\ run[r].job \in Jobs /\ RunnerFits(r, f)
    BY InsideFits DEF JobsOf
  <2>2. file[f].latest > run[r].job
    BY <1>3, <2>1 DEF Jobs
  <2>3. job'[file[f].latest].status = "queued"
    BY <1>3, <2>1, <2>2 DEF RunnerFits, StepOn
  <2>. QED
    BY <1>1, <2>3 DEF FileFits, TerminalStatuses
<1>. QED
  BY <1>2, <1>3

LEMMA ProgressFits ==
    ASSUME TypeInv, SwapInv, VersionInv, NEW r \in Runners, NEW f, Inside(r, f),
           f \notin overlapped, ~file[f].deleted,
           WriteFileStatus(f, run[r].seen, "processing")
    PROVE  file'[f].status = "processing"
<1>1. RunnerFits(r, f) /\ f \in Files /\ file[f].status # "none"
  BY InsideFits
<1>2. \/ file'[f].status = "processing"
      \/ run[r].seen = "processing" /\ file'[f].status = file[f].status
  BY <1>1, WritesStatus DEF FileStatuses
<1>. QED
  BY <1>1, <1>2 DEF RunnerFits, SeenFits

LEMMA FailureFits ==
    ASSUME TypeInv, SwapInv, VersionInv, NEW r \in Runners, NEW f, Inside(r, f),
           f \notin overlapped, ~file[f].deleted,
           NEW seen \in {run[r].seen, "expired"}, WriteFileStatus(f, seen, "failed")
    PROVE  /\ file'[f].status # "indexed"
           /\ run[r].job = file[f].latest => file'[f].status = "failed"
<1>1. RunnerFits(r, f) /\ f \in Files /\ file[f].status # "none"
  BY InsideFits
<1>2. \/ file'[f].status = "failed"
      \/ seen = "failed" /\ file'[f].status = file[f].status
  BY <1>1, WritesStatus DEF FileStatuses
<1>. QED
  BY <1>1, <1>2 DEF RunnerFits, SeenFits

LEMMA MoveOnKeeps ==
    ASSUME TypeInv, TypeInv', SwapInv, VersionInv, NEW r \in Runners, run[r].pc \in HandlerPcs,
           NEW status \in {"parsing", "normalizing", "chunking"}, NEW logs \in SUBSET LogKeys,
           MoveOn(r, status, logs)
    PROVE  VersionInv' /\ PublishesNothing
<1>0. PICK f : f = job[run[r].job].file
  OBVIOUS
<1>1. Inside(r, f) /\ f \in Files /\ run[r].pc # "idle" /\ file[f].status # "none"
  BY <1>0, InsideFits DEF Inside
<1>2. /\ WriteJob(run[r].job, status, logs) /\ WriteFileStatus(f, run[r].seen, "processing")
      /\ Return(r) /\ owner' = owner /\ active' = active
      /\ deletion' = deletion /\ overlapped' = overlapped
  BY <1>0 DEF MoveOn, WriteProgress, chunkVars, outsideVars, callVars
<1>3. KeepsMarks(f) /\ \A e \in Files \ {f} : file'[e] = file[e]
  BY <1>1, <1>2, WritesStatus DEF FileStatuses
<1>4. StepOn(r, f) /\ job'[run[r].job].status = status
  <2>1. status \in JobStatuses \ {"none"}
    BY DEF JobStatuses, RunnableStatuses
  <2>2. run'[r].job = run[r].job /\ \A q \in Runners \ {r} : run'[q] = run[q]
    BY <1>2, ReturnKeepsOthers
  <2>3. \A e \in Files \ {f} : KeepsJobs => ActiveChunks(e)' = ActiveChunks(e)
    BY <1>2, ActiveKept
  <2>. QED
    BY <1>0, <1>1, <1>2, <1>3, <2>1, <2>2, <2>3, WriteStepOn
<1>5. ASSUME f \notin overlapped, Visible(f)' PROVE FileFits(f)'
  <2>1. ~file[f].deleted
    BY <1>3, <1>5 DEF Visible, KeepsMarks
  <2>2. file'[f].status = "processing"
    BY <1>1, <1>2, <1>5, <2>1, ProgressFits
  <2>. QED
    BY <1>1, <1>3, <1>4, <1>5, <2>2, FitsAfter
<1>6. PublishesNothing
  BY <1>1, <1>2, <1>3, <1>4, ProgressFits, StepWithdraws
<1>. QED
  BY <1>1, <1>2, <1>3, <1>4, <1>5, <1>6, ReturnKeeps

LEMMA FailKeeps ==
    ASSUME TypeInv, TypeInv', SwapInv, VersionInv, NEW r \in Runners, run[r].pc \in HandlerPcs,
           NEW seen \in {run[r].seen, "expired"}, NEW logs \in SUBSET LogKeys,
           WriteFailure(r, seen, logs), Return(r), owner' = owner,
           deletion' = deletion, overlapped' = overlapped,
           \A e \in Files \ {job[run[r].job].file} : KeepsJobs => ActiveChunks(e)' = ActiveChunks(e)
    PROVE  VersionInv' /\ PublishesNothing
<1>0. PICK f : f = job[run[r].job].file
  OBVIOUS
<1>1. Inside(r, f) /\ f \in Files /\ run[r].pc # "idle" /\ file[f].status # "none"
  BY <1>0, InsideFits DEF Inside
<1>2. WriteJob(run[r].job, "failed", logs) /\ WriteFileStatus(f, seen, "failed")
  BY <1>0 DEF WriteFailure
<1>3. KeepsMarks(f) /\ \A e \in Files \ {f} : file'[e] = file[e]
  BY <1>1, <1>2, WritesStatus DEF FileStatuses
<1>4. StepOn(r, f) /\ job'[run[r].job].status = "failed"
  <2>1. "failed" \in JobStatuses \ {"none"}
    BY DEF JobStatuses, TerminalStatuses
  <2>2. /\ \A q \in Runners \ {r} : run'[q] = run[q]
        /\ run'[r].job = run[r].job
    BY ReturnKeepsOthers
  <2>. QED
    BY <1>0, <1>1, <1>2, <1>3, <2>1, <2>2, WriteStepOn
<1>5. ASSUME f \notin overlapped, Visible(f)' PROVE FileFits(f)'
  <2>1. ~file[f].deleted
    BY <1>3, <1>5 DEF Visible, KeepsMarks
  <2>2. /\ file'[f].status # "indexed"
        /\ run[r].job = file[f].latest => file'[f].status = "failed"
    BY <1>1, <1>2, <1>5, <2>1, FailureFits
  <2>. QED
    BY <1>1, <1>3, <1>4, <1>5, <2>2, FitsAfter
<1>6. PublishesNothing
  BY <1>1, <1>2, <1>3, <1>4, FailureFits, StepWithdraws
<1>. QED
  BY <1>1, <1>3, <1>4, <1>5, <1>6, ReturnKeeps

\* A step that writes neither rows nor chunks, and ends no delete, where runners
\* at most leave their advances.
LEMMA LeavingKeeps ==
    ASSUME TypeInv, TypeInv', SwapInv, VersionInv, KeepsJobs,
           \A j \in Jobs : job'[j].status = job[j].status,
           UNCHANGED <<file, owner, active, overlapped>>,
           \A q \in Runners : \/ run'[q] = run[q]
                              \/ run'[q].pc \notin HandlerPcs /\ run'[q].gens = {},
           \A g \in deletion'.gens : owner[g] \in JobsOf(deletion'.file),
           deletion'.pc # "idle" => file[deletion'.file].status # "none" /\ deletion'.file \in Files
    PROVE  VersionInv' /\ PublishesNothing
<1>1. \A e : JobsOf(e)' = JobsOf(e)
  BY KeepsJobsOf
<1>2. \A e \in Files : Same(e)
  <2>. SUFFICES ASSUME NEW e \in Files PROVE Same(e)
    OBVIOUS
  <2>1. ActiveChunks(e)' = ActiveChunks(e)
    BY ActiveKept
  <2>2. ASSUME NEW q \in Runners, Inside(q, e)' PROVE Inside(q, e) /\ run'[q] = run[q]
    <3>1. run'[q] = run[q] /\ run[q].pc \in HandlerPcs /\ run[q].job \in Jobs
      BY <2>2, BusyRunner, HandlerIsBusy DEF Inside
    <3>. QED
      BY <2>2, <3>1 DEF Inside, KeepsJobs
  <2>. QED
    BY <1>1, <2>1, <2>2 DEF Same, JobsOf
<1>3. \A e \in Files : FileInv(e)'
  BY <1>2, SameKeeps DEF VersionInv
<1>4. JobsInOrder' /\ \A e \in Files : LatestKnown(e)'
  BY <1>1 DEF VersionInv, BaseInv, JobsInOrder, LatestKnown
<1>5. HeldByFile'
  <2>1. ASSUME NEW q \in Runners, run'[q].pc # "idle", NEW g \in run'[q].gens
        PROVE  owner'[g] \in JobsOf(job[run[q].job].file)'
    <3>1. run'[q] = run[q] /\ run[q].pc # "idle"
      BY <2>1
    <3>2. run[q].job \in Jobs
      BY <3>1, BusyRunner
    <3>3. job'[run'[q].job].file = job[run[q].job].file
      BY <3>1, <3>2 DEF KeepsJobs
    <3>4. owner[g] \in JobsOf(job[run[q].job].file)
      BY <2>1, <3>1 DEF VersionInv, BaseInv, HeldByFile
    <3>. QED
      BY <3>3, <3>4 DEF JobsOf, KeepsJobs
  <2>2. \A g \in deletion'.gens : owner'[g] \in JobsOf(deletion.file)'
    BY DEF JobsOf, KeepsJobs
  <2>. QED
    BY <2>1, <2>2 DEF HeldByFile
<1>6. DeletesUploaded'
  BY DEF DeletesUploaded
<1>. QED
  BY <1>2, <1>3, <1>4, <1>5, <1>6, SameServes DEF VersionInv, BaseInv, PublishesNothing

LEMMA FinishKeeps ==
    ASSUME TypeInv, TypeInv', SwapInv, VersionInv, NEW r \in Runners, Finish(r),
           NEW f, f = job[run[r].job].file
    PROVE  /\ VersionInv' /\ StepOn(r, f) /\ KeepsMarks(f) /\ overlapped' = overlapped /\ f \in Files
           /\ f \notin overlapped /\ ~file[f].deleted =>
                 /\ file'[f].status = "indexed" /\ LatestIndexed(f)' = run[r].job
                 /\ LatestIndexed(f) < run[r].job
                 /\ ActiveChunks(f)' = ActiveChunks(f)
                 /\ run[r].gens = ActiveChunks(f) /\ run[r].gens # {}
                 /\ \A g \in ActiveChunks(f) : owner'[g] = run[r].job
<1>1. Inside(r, f) /\ f \in Files /\ run[r].pc # "idle" /\ file[f].status # "none"
  BY InsideFits DEF Inside, Finish, HandlerPcs
<1>2. /\ WriteJob(run[r].job, "indexed", run[r].logs)
      /\ WriteFileStatus(f, run[r].seen, "indexed")
      /\ Return(r) /\ owner' = owner /\ active' = active
      /\ deletion' = deletion /\ overlapped' = overlapped
  BY DEF Finish, chunkVars, outsideVars, callVars
<1>3. KeepsMarks(f) /\ \A e \in Files \ {f} : file'[e] = file[e]
  BY <1>1, <1>2, WritesStatus DEF FileStatuses
<1>4. StepOn(r, f) /\ job'[run[r].job].status = "indexed"
  <2>1. "indexed" \in JobStatuses \ {"none"} /\ run[r].logs \in SUBSET LogKeys
    BY <1>1, BusyRunner DEF JobStatuses, TerminalStatuses
  <2>2. run'[r].job = run[r].job /\ \A q \in Runners \ {r} : run'[q] = run[q]
    BY <1>2, ReturnKeepsOthers
  <2>3. \A e \in Files \ {f} : KeepsJobs => ActiveChunks(e)' = ActiveChunks(e)
    BY <1>2, ActiveKept
  <2>4. /\ WriteJob(run[r].job, "indexed", run[r].logs) /\ overlapped' = overlapped
        /\ \A g \in Gens : owner[g] # 0 => owner'[g] = owner[g]
    BY <1>2
  <2>5. run[r].pc # "idle" /\ \A e \in Files \ {f} : file'[e] = file[e]
    BY <1>1, <1>3
  <2>6. KeepsJobs
    BY <2>1, <2>4, <2>5, WriteJobKeepsJobs
  <2>7. /\ \A i \in Jobs \ {run[r].job} : job'[i].status = job[i].status
        /\ job'[run[r].job].status = "indexed"
        /\ \A e \in Files \ {f} : ActiveChunks(e)' = ActiveChunks(e)
    <3>1. run[r].job \in Jobs /\ job \in [Jobs -> JobRow]
      BY <2>5, BusyRunner DEF TypeInv, TypeOK
    <3>. QED
      BY <2>3, <2>4, <2>6, <3>1 DEF WriteJob, JobRow
  <2>. QED
    BY <2>1, <2>2, <2>4, <2>5, <2>6, <2>7 DEF StepOn
<1>5. ASSUME f \notin overlapped, ~file[f].deleted
      PROVE  /\ file'[f].status = "indexed" /\ LatestIndexed(f)' = run[r].job
             /\ LatestIndexed(f) < run[r].job
             /\ ActiveChunks(f)' = ActiveChunks(f)
             /\ run[r].gens = ActiveChunks(f) /\ run[r].gens # {}
             /\ \A g \in ActiveChunks(f) : owner'[g] = run[r].job
             /\ FileFits(f)'
  <2>0. run[r].pc = "finish"
    BY DEF Finish
  <2>1. RunnerFits(r, f) /\ run[r].job \in JobsOf(f) /\ file[f].latest \in JobsOf(f)
    BY <1>1, <1>5, InsideFits
  <2>2. file'[f].status = "indexed"
    <3>1. run[r].seen # "indexed"
      BY <1>5, <2>0, <2>1 DEF RunnerFits, SeenFits
    <3>2. file \in [Files -> FileRow]
      BY DEF TypeInv, TypeOK
    <3>. QED
      BY <1>1, <1>2, <3>1, <3>2 DEF WriteFileStatus, FileRow
  <2>3. JobsOf(f)' = JobsOf(f) /\ \A i \in JobsOf(f) : i \in Nat
    BY <1>4, KeepsJobsOf DEF StepOn, JobsOf, Jobs
  <2>4. \A i \in IndexedOf(f) : i < run[r].job
    BY <2>0, <2>1, <2>3 DEF IndexedOf, RunnerFits, AtStage
  <2>5. IndexedOf(f)' = IndexedOf(f) \cup {run[r].job}
    BY <1>4, <2>1, <2>3 DEF IndexedOf, StepOn, JobsOf
  <2>6. LatestIndexed(f)' = run[r].job
    <3>1. \A i \in IndexedOf(f)' : i <= run[r].job /\ i \in Nat
      BY <2>1, <2>3, <2>4, <2>5 DEF IndexedOf
    <3>2. run[r].job \in IndexedOf(f)'
      BY <2>5
    <3>3. Newest(IndexedOf(f)') = run[r].job
      BY <3>1, <3>2 DEF Newest
    <3>. QED
      BY <3>3, LatestIsNewest
  <2>7. LatestIndexed(f) < run[r].job
    <3>1. CASE IndexedOf(f) = {}
      BY <2>1, <3>1, LatestIsNewest DEF Newest, JobsOf, Jobs
    <3>2. CASE IndexedOf(f) # {}
      <4>1. Newest(IndexedOf(f)) \in IndexedOf(f)
        BY <3>2, NewestExists DEF IndexedOf, JobsOf
      <4>. QED
        BY <2>4, <4>1, LatestIsNewest
    <3>. QED
      BY <3>1, <3>2
  <2>8. /\ run[r].gens = ActiveChunks(f) /\ run[r].gens # {}
        /\ \A g \in ActiveChunks(f) : owner[g] = run[r].job
    BY <1>5, <2>0, <2>1 DEF RunnerFits, ChunksFit, IndexPcs
  <2>9. ActiveChunks(f)' = ActiveChunks(f)
    BY <1>2, <1>4, ActiveKept DEF StepOn
  <2>10. FileFits(f)'
    <3>1. CASE run[r].job = file[f].latest
      BY <1>2, <1>3, <1>4, <2>2, <2>6, <2>8, <2>9, <3>1 DEF FileFits, KeepsMarks, TerminalStatuses
    <3>2. CASE run[r].job # file[f].latest
      <4>1. run[r].job <= file[f].latest /\ run[r].job \in Nat /\ file[f].latest \in Nat
        BY <1>1, <2>1, <2>3, InsideFits
      <4>2. job[file[f].latest].status = "queued" /\ file[f].latest \in Jobs
        <5>1. file[f].latest > run[r].job
          BY <3>2, <4>1
        <5>2. file[f].latest \in Jobs
          BY <2>1 DEF JobsOf
        <5>. QED
          BY <2>1, <5>1, <5>2 DEF RunnerFits
      <4>3. job'[file'[f].latest].status = "queued"
        BY <1>3, <1>4, <3>2, <4>2 DEF StepOn, KeepsMarks
      <4>. QED
        BY <1>2, <2>6, <2>8, <2>9, <4>3 DEF FileFits, TerminalStatuses
    <3>. QED
      BY <3>1, <3>2
  <2>. QED
    BY <1>2, <2>2, <2>6, <2>7, <2>8, <2>9, <2>10
<1>6. VersionInv'
  BY <1>1, <1>2, <1>3, <1>4, <1>5, ReturnKeeps DEF Visible, KeepsMarks
<1>. QED
  BY <1>1, <1>2, <1>3, <1>4, <1>5, <1>6

\* A handler goes on to its next call: only the session changes, and the status
\* of the job when indexing starts.
LEMMA StayKeeps ==
    ASSUME TypeInv, TypeInv', SwapInv, VersionInv, NEW r \in Runners, NEW f, Inside(r, f),
           KeepsJobs, \A i \in Jobs \ {run[r].job} : job'[i].status = job[i].status,
           f \notin overlapped =>
                \/ job'[run[r].job].status = job[run[r].job].status
                \/ job[run[r].job].status = "embedding" /\ job'[run[r].job].status = "indexing",
           UNCHANGED <<file, owner, active, deletion, overlapped>>,
           \A q \in Runners \ {r} : run'[q] = run[q],
           run'[r].job = run[r].job,
           run'[r].gens \subseteq run[r].gens \cup ActiveChunks(f),
           f \notin overlapped =>
                /\ AtStage(run'[r].pc, job'[run[r].job].status)
                /\ ~file[f].deleted => SeenFits(r, f)' /\ ChunksFit(r, f)'
    PROVE  VersionInv' /\ PublishesNothing
<1>1. f \in Files /\ run[r].pc # "idle" /\ f = job[run[r].job].file /\ run[r].job \in Jobs
  BY InsideFits
<1>2. \A e : ActiveChunks(e)' = ActiveChunks(e) /\ JobsOf(e)' = JobsOf(e)
  BY ActiveKept, KeepsJobsOf
<1>3. StepOn(r, f)
  BY <1>1, <1>2 DEF StepOn
<1>4. KeepsMarks(f)
  BY InsideFits DEF KeepsMarks
<1>5. ASSUME f \notin overlapped PROVE RunnerFits(r, f)'
  <2>1. \A i \in JobsOf(f) : i > run[r].job => job[i].status = "queued"
    BY <1>5, InsideFits DEF RunnerFits
  <2>2. \A i \in JobsOf(f) : i > run[r].job => job'[i].status = "queued"
    BY <1>1, <2>1 DEF JobsOf, Jobs
  <2>. QED
    BY <1>2, <1>5, <2>2 DEF RunnerFits
<1>6. ASSUME f \notin overlapped PROVE LatestIndexed(f)' = LatestIndexed(f)
  <2>1. IndexedOf(f)' = IndexedOf(f)
    BY <1>2, <1>6 DEF IndexedOf, JobsOf
  <2>. QED
    BY <2>1, LatestIsNewest
<1>7. ASSUME f \notin overlapped, Visible(f)' PROVE FileFits(f)'
  <2>1. FileFits(f) /\ file[f].latest \in JobsOf(f)
    BY <1>1, <1>7 DEF VersionInv, BaseInv, LatestKnown, FileInv, Visible
  <2>2. \/ job'[file[f].latest].status = job[file[f].latest].status
        \/ job[file[f].latest].status = "embedding" /\ job'[file[f].latest].status = "indexing"
    BY <1>7, <2>1 DEF JobsOf
  <2>. QED
    BY <1>2, <1>7, <1>6, <2>1, <2>2 DEF FileFits, TerminalStatuses
<1>8. Serves(f)
  BY <1>1, <1>2, <1>6 DEF Serves, Retired, Retrievable, Visible
<1>9. PublishesNothing
  BY <1>1, <1>3, <1>8, StepSame, SameServes DEF PublishesNothing
<1>. QED
  BY <1>1, <1>3, <1>4, <1>5, <1>7, <1>9, InsideFits, StepKeeps

LEMMA DeactivateKeeps ==
    ASSUME TypeInv, TypeInv', SwapInv, VersionInv, NEW r \in Runners, Deactivate(r)
    PROVE  VersionInv' /\ PublishesNothing
<1>1. PICK f : f = job[run[r].job].file
  OBVIOUS
<1>2. /\ run[r].pc = "chunk" /\ Inside(r, f) /\ run[r] \in Session
      /\ UNCHANGED <<file, job, owner, active, deletion, overlapped>> /\ KeepsJobs
  BY <1>1, StillKeepsJobs
    DEF Deactivate, Inside, HandlerPcs, rowVars, chunkVars, outsideVars, callVars, TypeInv, TypeOK
<1>3. /\ \A q \in Runners \ {r} : run'[q] = run[q]
      /\ run'[r].pc = "insert" /\ run'[r].job = run[r].job
      /\ run'[r].seen = run[r].seen /\ run'[r].gens = ActiveChunks(f)
  BY <1>1, <1>2 DEF Deactivate, Session, TypeInv, TypeOK
<1>4. f \notin overlapped => RunnerFits(r, f)
  BY <1>2, InsideFits
<1>5. f \notin overlapped =>
        /\ AtStage(run'[r].pc, job'[run[r].job].status)
        /\ ~file[f].deleted => SeenFits(r, f)' /\ ChunksFit(r, f)'
  BY <1>2, <1>3, <1>4 DEF RunnerFits, AtStage, SeenFits, ChunksFit, IndexPcs
<1>. QED
  BY <1>2, <1>3, <1>5, StayKeeps

LEMMA DescribeKeeps ==
    ASSUME TypeInv, TypeInv', SwapInv, VersionInv, NEW r \in Runners, DescribeImages(r)
    PROVE  VersionInv' /\ PublishesNothing
<1>1. PICK f : f = job[run[r].job].file
  OBVIOUS
<1>2. /\ run[r].pc = "describe" /\ Inside(r, f) /\ run[r] \in Session
      /\ UNCHANGED <<file, owner, active, deletion, overlapped>>
  BY <1>1 DEF DescribeImages, Inside, HandlerPcs, chunkVars, outsideVars, callVars, TypeInv, TypeOK
<1>3. /\ \A q \in Runners \ {r} : run'[q] = run[q]
      /\ run'[r].pc = "index" /\ run'[r].job = run[r].job
      /\ run'[r].seen = "expired" /\ run'[r].gens = run[r].gens
  BY <1>1, <1>2 DEF DescribeImages, Session, TypeInv, TypeOK
<1>4. KeepsJobs /\ \A i \in Jobs : job'[i].status = job[i].status
  <2>1. run[r].job \in Jobs /\ run[r].logs \in SUBSET LogKeys
    BY <1>2, BusyRunner
  <2>. QED
    BY <2>1 DEF DescribeImages, KeepsJobs, TypeInv, TypeOK, JobRow
<1>5. ActiveChunks(f)' = ActiveChunks(f)
  BY <1>2, <1>4, ActiveKept
<1>6. f \notin overlapped => RunnerFits(r, f)
  BY <1>2, InsideFits
<1>7. f \notin overlapped =>
        /\ AtStage(run'[r].pc, job'[run[r].job].status)
        /\ ~file[f].deleted => SeenFits(r, f)' /\ ChunksFit(r, f)'
  <2>1. run[r].job \in Jobs
    BY <1>2, BusyRunner
  <2>. QED
    BY <1>2, <1>3, <1>4, <1>5, <1>6, <2>1 DEF RunnerFits, AtStage, SeenFits, ChunksFit, IndexPcs
<1>8. run[r].job \in Jobs
  BY <1>2, BusyRunner
<1>. QED
  BY <1>2, <1>3, <1>4, <1>7, <1>8, StayKeeps

LEMMA StartIndexingKeeps ==
    ASSUME TypeInv, TypeInv', SwapInv, VersionInv, NEW r \in Runners, StartIndexing(r)
    PROVE  VersionInv' /\ PublishesNothing
<1>1. PICK f : f = job[run[r].job].file
  OBVIOUS
<1>2. /\ run[r].pc \in {"describe", "index"} /\ Inside(r, f) /\ run[r] \in Session
      /\ UNCHANGED <<file, owner, active, deletion, overlapped>>
  BY <1>1 DEF StartIndexing, Inside, HandlerPcs, chunkVars, outsideVars, callVars, TypeInv, TypeOK
<1>3. /\ \A q \in Runners \ {r} : run'[q] = run[q]
      /\ run'[r].pc = "embed" /\ run'[r].job = run[r].job
      /\ run'[r].seen = "expired" /\ run'[r].gens = JobChunks(run[r].job)
  BY <1>1, <1>2 DEF StartIndexing, Session, TypeInv, TypeOK
<1>4. run[r].job \in Jobs /\ LogsSeen(r) \in SUBSET LogKeys /\ run[r].pc # "idle"
  BY <1>2, BusyRunner
<1>5. /\ KeepsJobs /\ job'[run[r].job].status = "indexing"
      /\ \A i \in Jobs \ {run[r].job} : job'[i].status = job[i].status
  <2>1. WriteJob(run[r].job, "indexing", LogsSeen(r)) /\ "indexing" \in JobStatuses \ {"none"}
    BY DEF StartIndexing, JobStatuses
  <2>2. KeepsJobs
    BY <1>4, <2>1, WriteJobKeepsJobs
  <2>. QED
    BY <1>4, <2>1, <2>2 DEF WriteJob, TypeInv, TypeOK, JobRow
<1>6. ActiveChunks(f)' = ActiveChunks(f)
  BY <1>2, <1>5, ActiveKept
<1>7. JobChunks(run[r].job) \subseteq ActiveChunks(f) /\ JobChunks(run[r].job) # {}
  BY <1>1 DEF JobChunks, ActiveChunks, FileOf, StartIndexing
<1>8. f \notin overlapped => RunnerFits(r, f)
  BY <1>2, InsideFits
<1>9. f \notin overlapped =>
        /\ AtStage(run'[r].pc, job'[run[r].job].status)
        /\ ~file[f].deleted => SeenFits(r, f)' /\ ChunksFit(r, f)'
  <2>. SUFFICES ASSUME f \notin overlapped
                PROVE  /\ AtStage(run'[r].pc, job'[run[r].job].status)
                       /\ ~file[f].deleted => SeenFits(r, f)' /\ ChunksFit(r, f)'
    OBVIOUS
  <2>1. AtStage(run'[r].pc, job'[run[r].job].status)
    BY <1>3, <1>5 DEF AtStage
  <2>2. ASSUME ~file[f].deleted PROVE SeenFits(r, f)' /\ ChunksFit(r, f)'
    <3>1. file[f].status = "processing" /\ \A g \in ActiveChunks(f) : owner[g] = run[r].job
      BY <1>2, <1>8, <2>2 DEF RunnerFits, SeenFits, ChunksFit
    <3>2. JobChunks(run[r].job) = ActiveChunks(f)
      BY <1>7, <3>1 DEF JobChunks, ActiveChunks
    <3>. QED
      BY <1>2, <1>3, <1>6, <1>7, <3>1, <3>2 DEF SeenFits, ChunksFit, IndexPcs
  <2>. QED
    BY <2>1, <2>2
<1>10. f \notin overlapped => job[run[r].job].status = "embedding"
  BY <1>2, <1>8 DEF RunnerFits, AtStage
<1>. QED
  BY <1>2, <1>3, <1>5, <1>7, <1>9, <1>10, StayKeeps

LEMMA IndexCallKeeps ==
    ASSUME TypeInv, TypeInv', SwapInv, VersionInv, NEW r \in Runners,
           Embedded(r) \/ UpsertVectors(r) \/ UpsertKeywords(r)
    PROVE  VersionInv' /\ PublishesNothing
<1>1. PICK f : f = job[run[r].job].file
  OBVIOUS
<1>2. /\ run[r].pc \in {"embed", "vectors", "keywords"} /\ Inside(r, f) /\ run[r] \in Session
      /\ UNCHANGED <<file, job, owner, active, deletion, overlapped>> /\ KeepsJobs
  BY <1>1, StillKeepsJobs DEF Embedded, UpsertVectors, UpsertKeywords, Inside, HandlerPcs,
       rowVars, chunkVars, outsideVars, callVars, TypeInv, TypeOK
<1>3. /\ \A q \in Runners \ {r} : run'[q] = run[q]
      /\ run'[r].pc \in {"vectors", "keywords", "finish"} /\ run'[r].job = run[r].job
      /\ run'[r].seen \in {run[r].seen, file[f].status} /\ run'[r].gens = run[r].gens
  BY <1>1, <1>2 DEF Embedded, UpsertVectors, UpsertKeywords, Goto, Session, TypeInv, TypeOK
<1>4. f \notin overlapped => RunnerFits(r, f)
  BY <1>2, InsideFits
<1>5. ActiveChunks(f)' = ActiveChunks(f)
  BY <1>2, ActiveKept
<1>6. f \notin overlapped =>
        /\ AtStage(run'[r].pc, job'[run[r].job].status)
        /\ ~file[f].deleted => SeenFits(r, f)' /\ ChunksFit(r, f)'
  BY <1>2, <1>3, <1>4, <1>5 DEF RunnerFits, AtStage, SeenFits, ChunksFit, IndexPcs
<1>. QED
  BY <1>2, <1>3, <1>6, StayKeeps

\* The new generation belongs to the job, and what it replaces to its file.
LEMMA InsertChunksKeeps ==
    ASSUME TypeInv, TypeInv', SwapInv, SwapInv', VersionInv, NEW r \in Runners, InsertChunks(r),
           NEW f, f = job[run[r].job].file
    PROVE  VersionInv' /\ PublishesNothing
<1>1. /\ run[r].pc = "insert" /\ Inside(r, f) /\ f \in Files /\ run[r].pc # "idle"
      /\ file[f].status # "none" /\ run[r].logs \in SUBSET LogKeys
  BY InsideFits, BusyRunner DEF Inside, InsertChunks, HandlerPcs
<1>2. PICK g \in Gens : /\ owner[g] = 0
                        /\ owner' = [owner EXCEPT ![g] = run[r].job]
                        /\ active' = (active \ run[r].gens) \cup {g}
  BY DEF InsertChunks
<1>3. /\ WriteJob(run[r].job, "embedding", run[r].logs)
      /\ WriteFileStatus(f, run[r].seen, "processing")
      /\ Return(r) /\ deletion' = deletion /\ overlapped' = overlapped
  BY DEF InsertChunks, WriteProgress, outsideVars, callVars
<1>4. /\ owner \in [Gens -> 0 .. MaxJobs] /\ active \subseteq Gens /\ g \notin active
      /\ \A h \in active : owner[h] \in Jobs
      /\ \A h \in active : owner'[h] = owner[h]
      /\ owner'[g] = run[r].job /\ run[r].job \in Jobs
  <2>1. 0 \notin Jobs /\ run[r].job \in Jobs
    BY <1>1, BusyRunner DEF Jobs
  <2>. QED
    BY <1>2, <2>1 DEF TypeInv, TypeOK, SwapInv, Owned
<1>5. KeepsMarks(f) /\ \A e \in Files \ {f} : file'[e] = file[e]
  BY <1>1, <1>3, WritesStatus DEF FileStatuses
<1>6. \A h \in run[r].gens : FileOf(h) = f
  BY <1>1 DEF VersionInv, BaseInv, HeldByFile, JobsOf, FileOf
<1>7. ASSUME KeepsJobs, NEW e \in Files
      PROVE  /\ e # f => ActiveChunks(e)' = ActiveChunks(e)
             /\ e = f /\ f \notin overlapped => ActiveChunks(e)' = {g}
  <2>1. /\ \A h \in active : FileOf(h)' = FileOf(h)
        /\ FileOf(g)' = f
    BY <1>4, <1>7 DEF FileOf, KeepsJobs
  <2>2. ASSUME e # f PROVE ActiveChunks(e)' = ActiveChunks(e)
    BY <1>2, <1>6, <2>1, <2>2 DEF ActiveChunks
  <2>3. ASSUME e = f, f \notin overlapped PROVE ActiveChunks(e)' = {g}
    <3>1. ActiveChunks(f) \subseteq run[r].gens
      BY <1>1, <2>3 DEF SwapInv, SwapReady
    <3>. QED
      BY <1>2, <2>1, <2>3, <3>1 DEF ActiveChunks
  <2>. QED
    BY <2>2, <2>3
<1>8. StepOn(r, f) /\ job'[run[r].job].status = "embedding"
  <2>1. "embedding" \in JobStatuses \ {"none"}
    BY DEF JobStatuses, RunnableStatuses
  <2>2. run'[r].job = run[r].job /\ \A q \in Runners \ {r} : run'[q] = run[q]
    BY <1>3, ReturnKeepsOthers
  <2>3. \A h \in Gens : owner[h] # 0 => owner'[h] = owner[h]
    BY <1>2, <1>4
  <2>4. \A e \in Files \ {f} : KeepsJobs => ActiveChunks(e)' = ActiveChunks(e)
    BY <1>7
  <2>. QED
    BY <1>1, <1>3, <1>5, <2>1, <2>2, <2>3, <2>4, WriteStepOn
<1>9. f \notin overlapped /\ ~file[f].deleted => file'[f].status = "processing"
  BY <1>1, <1>3, ProgressFits
<1>10. ASSUME f \notin overlapped, Visible(f)' PROVE FileFits(f)'
  <2>1. ActiveChunks(f)' = {g}
    BY <1>1, <1>7, <1>8, <1>10 DEF StepOn
  <2>2. file'[f].status = "processing"
    BY <1>5, <1>9, <1>10 DEF Visible, KeepsMarks
  <2>. QED
    BY <1>1, <1>4, <1>5, <1>8, <1>10, <2>1, <2>2, FitsAfter
<1>11. VersionInv'
  BY <1>1, <1>3, <1>5, <1>8, <1>10, ReturnKeeps
<1>12. PublishesNothing
  BY <1>1, <1>3, <1>5, <1>8, <1>9, StepWithdraws
<1>. QED
  BY <1>11, <1>12

\* A runner goes inside: the others are outside, or the file is given up.
LEMMA AdvanceKeeps ==
    ASSUME TypeInv, TypeInv', SwapInv, VersionInv, NEW r \in Runners, Advance(r)
    PROVE  VersionInv' /\ PublishesNothing
<1>1. PICK f : f = job[run[r].job].file
  OBVIOUS
<1>2. /\ run[r].pc = "advance" /\ run[r] \in Session /\ run[r].job \in Jobs
      /\ f \in Files /\ job[run[r].job].status # "none"
      /\ UNCHANGED <<file, job, owner, active, deletion>> /\ KeepsJobs
  BY <1>1, BusyRunner, StillKeepsJobs DEF Advance, rowVars, chunkVars, callVars, TypeInv, TypeOK
<1>3. /\ Visible(f) /\ file[f].latest = run[r].job /\ job[run[r].job].status \in RunnableStatuses
      /\ overlapped' = IF \E q \in Runners : Inside(q, f) THEN overlapped \cup {f} ELSE overlapped
  BY <1>1 DEF Advance, MayAdvance
<1>4. /\ \A q \in Runners \ {r} : run'[q] = run[q]
      /\ run'[r].pc = Handler(job[run[r].job].status) /\ run'[r].job = run[r].job
      /\ run'[r].seen = file[f].status /\ run'[r].gens = run[r].gens
  BY <1>1, <1>2 DEF Advance, Session, TypeInv, TypeOK
<1>5. StepOn(r, f)
  BY <1>1, <1>2, <1>3, <1>4, ActiveKept DEF StepOn
<1>6. KeepsMarks(f)
  BY <1>2, <1>3 DEF KeepsMarks, Visible
<1>7. ASSUME f \notin overlapped'
      PROVE  /\ f \notin overlapped
             /\ \A q \in Runners \ {r} : ~Inside(q, f)
             /\ Inside(r, f)' => RunnerFits(r, f)'
             /\ Visible(f)' => FileFits(f)'
  <2>1. f \notin overlapped /\ \A q \in Runners \ {r} : ~Inside(q, f)
    BY <1>3, <1>7
  <2>2. FileFits(f) /\ \A i \in JobsOf(f) : i <= file[f].latest
    BY <1>2, <1>3, <2>1 DEF VersionInv, BaseInv, LatestKnown, FileInv
  <2>3. \A e : JobsOf(e)' = JobsOf(e) /\ ActiveChunks(e)' = ActiveChunks(e)
    BY <1>2, KeepsJobsOf, ActiveKept
  <2>4. FileFits(f)'
    <3>1. LatestIndexed(f)' = LatestIndexed(f)
      BY <1>2, <2>3, SameLatest
    <3>. QED
      BY <1>2, <2>2, <2>3, <3>1 DEF FileFits
  <2>5. RunnerFits(r, f)'
    <3>1. AtStage(run'[r].pc, job'[run'[r].job].status)
      BY <1>2, <1>3, <1>4 DEF AtStage, Handler, RunnableStatuses
    <3>2. \A i \in JobsOf(f)' : i > run'[r].job => job'[i].status = "queued"
      <4>1. \A i \in JobsOf(f) : i \in Nat
        BY DEF JobsOf, Jobs
      <4>. QED
        BY <1>2, <1>3, <1>4, <2>2, <2>3, <4>1 DEF Jobs
    <3>3. SeenFits(r, f)'
      BY <1>2, <1>3, <1>4, <2>2 DEF SeenFits, FileFits, Handler, RunnableStatuses
    <3>4. ChunksFit(r, f)'
      BY <1>2, <1>3, <1>4, <2>2, <2>3 DEF ChunksFit, FileFits, Handler, RunnableStatuses, IndexPcs
    <3>. QED
      BY <3>1, <3>2, <3>3, <3>4 DEF RunnerFits
  <2>. QED
    BY <2>1, <2>4, <2>5
<1>8. PublishesNothing
  <2>1. \A e \in Files \ {f} : Serves(e)
    BY <1>5, StepSame, SameServes
  <2>2. CASE f \notin Retired /\ f \in Retired'
    BY <1>2, <2>1, <2>2 DEF PublishesNothing, Retires
  <2>3. CASE f \in Retired \/ f \notin Retired'
    <3>1. f \in Retired <=> f \in Retired'
      BY <1>2, <1>3, <2>3 DEF Retired
    <3>2. /\ JobsOf(f)' = JobsOf(f) /\ ActiveChunks(f)' = ActiveChunks(f)
          /\ LatestIndexed(f)' = LatestIndexed(f)
      BY <1>2, KeepsJobsOf, ActiveKept, SameLatest
    <3>3. Serves(f)
      BY <1>2, <3>1, <3>2 DEF Serves, Retrievable, Visible
    <3>. QED
      BY <2>1, <3>3 DEF PublishesNothing
  <2>. QED
    BY <2>2, <2>3
<1>. QED
  BY <1>2, <1>4, <1>5, <1>6, <1>7, <1>8, StepKeeps

\* MinerU, normalization and the failures that touch no chunk.
LEMMA ParseKeeps ==
    ASSUME TypeInv, TypeInv', SwapInv, VersionInv, NEW r \in Runners,
           Submitted(r) \/ PollDone(r) \/ Normalized(r)
    PROVE  VersionInv' /\ PublishesNothing
<1>1. run[r].pc \in HandlerPcs /\ run[r].pc # "idle"
  BY DEF Submitted, PollDone, Normalized, HandlerPcs
<1>2. run[r].logs \in SUBSET LogKeys
  BY <1>1, BusyRunner
<1>3. CASE Submitted(r)
  <2>1. MoveOn(r, "parsing", run[r].logs \cup {"batch"})
    BY <1>3 DEF Submitted
  <2>2. run[r].logs \cup {"batch"} \in SUBSET LogKeys
    BY <1>2 DEF LogKeys
  <2>. QED
    BY <1>1, <2>1, <2>2, MoveOnKeeps
<1>4. CASE PollDone(r)
  <2>1. MoveOn(r, "normalizing", run[r].logs \cup {"parsed"})
    BY <1>4 DEF PollDone
  <2>2. run[r].logs \cup {"parsed"} \in SUBSET LogKeys
    BY <1>2 DEF LogKeys
  <2>. QED
    BY <1>1, <2>1, <2>2, MoveOnKeeps
<1>5. CASE Normalized(r)
  <2>1. MoveOn(r, "chunking", run[r].logs)
    BY <1>5 DEF Normalized
  <2>. QED
    BY <1>1, <1>2, <2>1, MoveOnKeeps
<1>. QED
  BY <1>3, <1>4, <1>5

LEMMA PlainFailKeeps ==
    ASSUME TypeInv, TypeInv', SwapInv, VersionInv, NEW r \in Runners,
           \/ SubmitRejected(r) \/ PollFailed(r) \/ NormalizedEmpty(r) \/ NoActiveChunks(r)
           \/ EmbedFailed(r) \/ VectorsFailed(r) \/ KeywordsFailed(r)
    PROVE  VersionInv' /\ PublishesNothing
<1>1. run[r].pc \in HandlerPcs /\ run[r].pc # "idle"
  BY DEF SubmitRejected, PollFailed, NormalizedEmpty, NoActiveChunks, EmbedFailed, VectorsFailed,
         KeywordsFailed, HandlerPcs
<1>2. run[r].logs \in SUBSET LogKeys /\ LogsSeen(r) \in SUBSET LogKeys
  BY <1>1, BusyRunner
<1>3. PICK seen \in {run[r].seen, "expired"}, logs \in SUBSET LogKeys :
        WriteFailure(r, seen, logs) /\ Return(r)
  BY <1>2 DEF SubmitRejected, PollFailed, NormalizedEmpty, NoActiveChunks, EmbedFailed,
              VectorsFailed, KeywordsFailed, Fail
<1>4. UNCHANGED <<owner, active, deletion, overlapped>>
  BY DEF SubmitRejected, PollFailed, NormalizedEmpty, NoActiveChunks, EmbedFailed,
         VectorsFailed, KeywordsFailed, Fail, chunkVars, outsideVars, callVars
<1>5. \A e \in Files \ {job[run[r].job].file} : KeepsJobs => ActiveChunks(e)' = ActiveChunks(e)
  BY <1>4, ActiveKept
<1>. QED
  BY <1>1, <1>3, <1>4, <1>5, FailKeeps

\* NO_CHUNK_CONTENT takes chunks of its own file out of service.
LEMMA InsertNothingKeeps ==
    ASSUME TypeInv, TypeInv', SwapInv, VersionInv, NEW r \in Runners, InsertNothing(r)
    PROVE  VersionInv' /\ PublishesNothing
<1>1. run[r].pc \in HandlerPcs /\ run[r].pc # "idle" /\ run[r].logs \in SUBSET LogKeys
  BY BusyRunner DEF InsertNothing, HandlerPcs
<1>2. /\ WriteFailure(r, run[r].seen, run[r].logs) /\ Return(r)
      /\ UNCHANGED <<owner, deletion, overlapped>> /\ active' = active \ run[r].gens
  BY DEF InsertNothing, outsideVars, callVars
<1>3. \A g \in run[r].gens : FileOf(g) = job[run[r].job].file
  BY <1>1 DEF VersionInv, BaseInv, HeldByFile, JobsOf, FileOf
<1>4. ASSUME NEW e \in Files \ {job[run[r].job].file}, KeepsJobs
      PROVE  ActiveChunks(e)' = ActiveChunks(e)
  <2>1. \A g \in active : FileOf(g)' = FileOf(g)
    BY <1>2, <1>4 DEF FileOf, KeepsJobs, SwapInv, Owned
  <2>. QED
    BY <1>2, <1>3, <2>1 DEF ActiveChunks
<1>. QED
  BY <1>1, <1>2, <1>4, FailKeeps

\* Steps that write no row that matters here.
LEMMA QuietRunKeeps ==
    ASSUME TypeInv, TypeInv', SwapInv, VersionInv, NEW r \in Runners,
           PollUnchanged(r) \/ NormalizeSkipped(r) \/ PollWaiting(r) \/ Leave(r) \/ Abort(r)
    PROVE  VersionInv' /\ PublishesNothing
<1>1. UNCHANGED <<file, owner, active, deletion, overlapped>>
  BY DEF PollUnchanged, NormalizeSkipped, PollWaiting, Leave, Abort, GiveUp,
         rowVars, chunkVars, outsideVars, callVars
<1>2. KeepsJobs /\ \A j \in Jobs : job'[j].status = job[j].status
  <2>1. CASE UNCHANGED job
    BY <2>1, StillKeepsJobs
  <2>2. CASE PollWaiting(r)
    <3>1. run[r].job \in Jobs /\ run[r].logs \in SUBSET LogKeys
      BY <2>2, BusyRunner DEF PollWaiting
    <3>. QED
      BY <2>2, <3>1 DEF PollWaiting, KeepsJobs, TypeInv, TypeOK, JobRow
  <2>. QED
    BY <2>1, <2>2 DEF PollUnchanged, NormalizeSkipped, Leave, Abort, GiveUp, rowVars
<1>3. \A q \in Runners : run'[q] = run[q] \/ (run'[q].pc \notin HandlerPcs /\ run'[q].gens = {})
  <2>1. CASE Return(r)
    BY <2>1, HandlerIsBusy DEF Return, Fresh, TypeInv, TypeOK
  <2>2. CASE run' = [run EXCEPT ![r] = Idle]
    BY <2>2, HandlerIsBusy DEF Idle, Fresh, TypeInv, TypeOK
  <2>. QED
    BY <2>1, <2>2 DEF PollUnchanged, NormalizeSkipped, PollWaiting, Leave, Abort, GiveUp
<1>4. /\ \A g \in deletion'.gens : owner[g] \in JobsOf(deletion'.file)
      /\ deletion'.pc # "idle" => file[deletion'.file].status # "none" /\ deletion'.file \in Files
  BY <1>1 DEF VersionInv, BaseInv, HeldByFile, DeletesUploaded
<1>. QED
  BY <1>1, <1>2, <1>3, <1>4, LeavingKeeps

\* The worker, and the admin calls up to the commit of a delete.
LEMMA OutsideKeeps ==
    ASSUME TypeInv, TypeInv', SwapInv, VersionInv,
           \/ WorkerPoll \/ WorkerNext \/ Reindex \/ Crash \/ UNCHANGED vars
           \/ \E f \in Files : DeleteRequest(f) \/ ReindexRequest(f)
           \/ DeletePoints \/ DeleteDocuments \/ DeleteFailed \/ DeactivateDeleted
    PROVE  VersionInv' /\ PublishesNothing
<1>1. UNCHANGED <<file, job, owner, active, overlapped>>
  BY DEF WorkerPoll, WorkerNext, Reindex, ReindexDeactivate, ReindexVectors, ReindexKeywords, Crash,
         vars, DeleteRequest, ReindexRequest, DeletePoints, DeleteDocuments, DeleteFailed,
         DeactivateDeleted, rowVars, chunkVars
<1>2. KeepsJobs
  BY <1>1, StillKeepsJobs
<1>3. \A q \in Runners : run'[q] = run[q] \/ (run'[q].pc \notin HandlerPcs /\ run'[q].gens = {})
  <2>1. CASE UNCHANGED run
    BY <2>1
  <2>2. CASE WorkerNext
    BY <2>2, HandlerIsBusy DEF WorkerNext, Start, Fresh, TypeInv, TypeOK
  <2>3. CASE Crash
    BY <2>3, HandlerIsBusy DEF Crash, Idle, Fresh
  <2>. QED
    BY <2>1, <2>2, <2>3 DEF WorkerPoll, Reindex, ReindexDeactivate, ReindexVectors, ReindexKeywords,
         vars, DeleteRequest, ReindexRequest, DeletePoints, DeleteDocuments, DeleteFailed,
         DeactivateDeleted
<1>4. /\ \A g \in deletion'.gens : owner[g] \in JobsOf(deletion'.file)
      /\ deletion'.pc # "idle" => file[deletion'.file].status # "none" /\ deletion'.file \in Files
  <2>1. \A f : \A g \in ActiveChunks(f) : owner[g] \in JobsOf(f)
    BY DEF ActiveChunks, FileOf, JobsOf, SwapInv, Owned
  <2>2. /\ \A g \in deletion.gens : owner[g] \in JobsOf(deletion.file)
        /\ deletion.pc # "idle" => file[deletion.file].status # "none" /\ deletion.file \in Files
    BY DEF VersionInv, BaseInv, HeldByFile, DeletesUploaded
  <2>3. CASE UNCHANGED deletion
    BY <2>2, <2>3
  <2>4. CASE \E f \in Files : DeleteRequest(f)
    <3>1. PICK f \in Files :
            deletion'.file = f /\ deletion'.gens = ActiveChunks(f) /\ file[f].status # "none"
      BY <2>4 DEF DeleteRequest, Visible
    <3>. QED
      BY <2>1, <3>1
  <2>5. CASE DeletePoints \/ DeleteDocuments
    BY <2>2, <2>5 DEF DeletePoints, DeleteDocuments, TypeInv, TypeOK, Call
  <2>6. CASE DeactivateDeleted
    <3>1. /\ deletion'.gens = ActiveChunks(deletion.file) /\ deletion'.file = deletion.file
          /\ deletion.pc # "idle"
      BY <2>6 DEF DeactivateDeleted, TypeInv, TypeOK, Call
    <3>. QED
      BY <2>1, <2>2, <3>1
  <2>7. CASE DeleteFailed \/ Crash
    BY <2>7 DEF DeleteFailed, Crash, NoCall
  <2>. QED
    BY <2>3, <2>4, <2>5, <2>6, <2>7 DEF WorkerPoll, WorkerNext, Reindex, ReindexDeactivate,
         ReindexVectors, ReindexKeywords, vars, ReindexRequest, callVars
<1>. QED
  BY <1>1, <1>2, <1>3, <1>4, LeavingKeeps

-----------------------------------------------------------------------------
(* Uploads and retries bring a newer job *)

LEMMA NewJobIsNewest ==
    ASSUME TypeInv, SwapInv, VersionInv, NEW f \in Files, NEW j \in Jobs, NewJob(j, f)
    PROVE  /\ \A i \in Jobs : job[i].status # "none" => i < j
           /\ job'[j].status = "queued" /\ job'[j].file = f
           /\ \A i \in Jobs \ {j} : job'[i] = job[i]
           /\ JobsOf(f)' = JobsOf(f) \cup {j}
           /\ j \notin JobsOf(f)
           /\ \A e \in Files \ {f} : JobsOf(e)' = JobsOf(e)
           /\ \A e \in Files : JobsOf(e) \subseteq Jobs \ {j}
           /\ run'[j].pc = "advance" /\ run'[j].gens = {}
           /\ \A q \in Runners : run'[q] = run[q] \/ (run'[q].pc \notin HandlerPcs /\ run'[q].gens = {})
           /\ \A q \in Runners : Inside(q, f)' => Inside(q, f) /\ run'[q] = run[q]
           /\ \A q \in Runners, e \in Files \ {f} : Inside(q, e)' => Inside(q, e) /\ run'[q] = run[q]
<1>1. /\ job[j].status = "none" /\ j \in Runners
      /\ job' = [job EXCEPT ![j] = [status |-> "queued", file |-> f, logs |-> {}]]
      /\ run' = [run EXCEPT ![j] = Start(j)]
  BY PipelineAssumption DEF NewJob, Jobs, Runners
<1>2. /\ job'[j].status = "queued" /\ job'[j].file = f
      /\ \A i \in Jobs \ {j} : job'[i] = job[i]
  BY <1>1 DEF TypeInv, TypeOK
<1>3. \A i \in Jobs : job[i].status # "none" => i < j
  <2>. SUFFICES ASSUME NEW i \in Jobs, job[i].status # "none" PROVE i < j
    OBVIOUS
  <2>1. i # j /\ ~(j < i)
    BY <1>1 DEF VersionInv, BaseInv, JobsInOrder
  <2>. QED
    BY <2>1 DEF Jobs
<1>4. /\ JobsOf(f)' = JobsOf(f) \cup {j} /\ j \notin JobsOf(f)
      /\ \A e \in Files \ {f} : JobsOf(e)' = JobsOf(e)
      /\ \A e \in Files : JobsOf(e) \subseteq Jobs \ {j}
  BY <1>1, <1>2 DEF JobsOf
<1>5. /\ run'[j].pc = "advance" /\ run'[j].gens = {}
      /\ \A q \in Runners \ {j} : run'[q] = run[q]
  BY <1>1 DEF Start, Fresh, TypeInv, TypeOK
<1>6. ASSUME NEW q \in Runners, NEW e \in Files, Inside(q, e)'
      PROVE  Inside(q, e) /\ run'[q] = run[q]
  <2>1. run'[q] = run[q] /\ run[q].pc \in HandlerPcs
    BY <1>5, <1>6, HandlerIsBusy DEF Inside
  <2>2. run[q].job \in Jobs /\ run[q].job # j
    BY <1>1, <2>1, BusyRunner, HandlerIsBusy
  <2>. QED
    BY <1>2, <1>6, <2>1, <2>2 DEF Inside
<1>. QED
  BY <1>1, <1>2, <1>3, <1>4, <1>5, <1>6, HandlerIsBusy

\* The file names the new job; a retry takes it out of service.
LEMMA RequestKeeps ==
    ASSUME TypeInv, TypeInv', SwapInv, VersionInv, NEW f \in Files, Upload(f) \/ Retry(f)
    PROVE  VersionInv' /\ PublishesNothing
<1>1. PICK j \in Jobs :
        /\ NewJob(j, f)
        /\ \A e \in Files \ {f} : file'[e] = file[e]
        /\ file'[f].latest = j
        /\ \/ file[f].status = "none" /\ file'[f].status = "queued" /\ ~file'[f].deleted
           \/ /\ file[f].status # "none" /\ ~file[f].deleted
              /\ file'[f].status = "processing" /\ ~file'[f].deleted
  BY DEF Upload, Retry, Visible, TypeInv, TypeOK, FileRow
<1>2. UNCHANGED <<owner, active, deletion, overlapped>>
  BY DEF Upload, Retry, chunkVars, outsideVars, callVars
<1>3. /\ \A i \in Jobs : job[i].status # "none" => i < j
      /\ job'[j].status = "queued" /\ job'[j].file = f
      /\ \A i \in Jobs \ {j} : job'[i] = job[i]
      /\ JobsOf(f)' = JobsOf(f) \cup {j}
      /\ \A e \in Files \ {f} : JobsOf(e)' = JobsOf(e)
      /\ \A e \in Files : JobsOf(e) \subseteq Jobs \ {j}
      /\ \A q \in Runners : run'[q] = run[q] \/ (run'[q].pc \notin HandlerPcs /\ run'[q].gens = {})
      /\ \A q \in Runners : Inside(q, f)' => Inside(q, f) /\ run'[q] = run[q]
      /\ \A q \in Runners, e \in Files \ {f} : Inside(q, e)' => Inside(q, e) /\ run'[q] = run[q]
  BY <1>1, NewJobIsNewest
<1>4. \A e \in Files : ActiveChunks(e)' = ActiveChunks(e)
  <2>1. \A g \in active : FileOf(g)' = FileOf(g)
    <3>1. \A g \in active : owner[g] \in Jobs \ {j}
      BY <1>1 DEF SwapInv, Owned, NewJob
    <3>. QED
      BY <1>2, <1>3, <3>1 DEF FileOf
  <2>. QED
    BY <1>2, <2>1 DEF ActiveChunks
<1>5. \A e \in Files \ {f} : Same(e)
  BY <1>1, <1>2, <1>3, <1>4 DEF Same
<1>6. BaseInv'
  <2>1. JobsInOrder'
    <3>. SUFFICES ASSUME NEW i \in Jobs, NEW k \in Jobs, i < k, job'[k].status # "none"
                  PROVE  job'[i].status # "none"
      BY DEF JobsInOrder
    <3>1. CASE i = j
      BY <1>3, <3>1
    <3>2. CASE k = j /\ i # j
      BY <1>1, <1>3, <3>2 DEF NewJob
    <3>3. CASE k # j /\ i # j
      BY <1>3, <3>3 DEF VersionInv, BaseInv, JobsInOrder
    <3>. QED
      BY <3>1, <3>2, <3>3
  <2>2. ASSUME NEW e \in Files PROVE LatestKnown(e)'
    <3>1. CASE e # f
      BY <1>1, <1>3, <3>1 DEF VersionInv, BaseInv, LatestKnown
    <3>2. CASE e = f
      <4>1. \A i \in JobsOf(f)' : i <= j
        BY <1>3 DEF JobsOf, Jobs
      <4>. QED
        BY <1>1, <1>3, <3>2, <4>1 DEF LatestKnown
    <3>. QED
      BY <3>1, <3>2
  <2>3. HeldByFile'
    <3>1. ASSUME NEW q \in Runners, run'[q].pc # "idle", NEW g \in run'[q].gens
          PROVE  owner'[g] \in JobsOf(job[run[q].job].file)' /\ run'[q] = run[q]
                 /\ job'[run[q].job] = job[run[q].job]
      <4>1. run'[q] = run[q] /\ run[q].pc # "idle"
        BY <1>3, <3>1
      <4>2. run[q].job \in Jobs \ {j} /\ job[run[q].job].file \in Files
        BY <1>1, <4>1, BusyRunner DEF NewJob
      <4>3. owner[g] \in JobsOf(job[run[q].job].file)
        BY <3>1, <4>1 DEF VersionInv, BaseInv, HeldByFile
      <4>4. \A e \in Files : JobsOf(e) \subseteq JobsOf(e)'
        BY <1>3
      <4>5. job'[run[q].job] = job[run[q].job]
        BY <1>3, <4>2
      <4>. QED
        BY <1>2, <4>1, <4>2, <4>3, <4>4, <4>5
    <3>2. ASSUME NEW g \in deletion.gens PROVE owner'[g] \in JobsOf(deletion.file)'
      <4>1. owner[g] \in JobsOf(deletion.file) /\ owner[g] # j
        BY <1>1 DEF VersionInv, BaseInv, HeldByFile, JobsOf, NewJob
      <4>. QED
        BY <1>2, <1>3, <4>1 DEF JobsOf
    <3>. QED
      BY <1>2, <3>1, <3>2 DEF HeldByFile
  <2>4. DeletesUploaded'
    BY <1>1, <1>2 DEF VersionInv, BaseInv, DeletesUploaded
  <2>. QED
    BY <2>1, <2>2, <2>3, <2>4 DEF BaseInv
<1>7. ASSUME f \notin overlapped PROVE LatestIndexed(f)' = LatestIndexed(f)
  <2>1. IndexedOf(f)' = IndexedOf(f)
    BY <1>3 DEF IndexedOf
  <2>. QED
    BY <2>1, LatestIsNewest
<1>8. FileInv(f)'
  <2>. SUFFICES ASSUME f \notin overlapped
                PROVE  /\ \A r \in Runners : Inside(r, f)' => RunnerFits(r, f)'
                       /\ FileFits(f)'
    BY <1>2 DEF FileInv
  <2>1. FileFits(f)'
    BY <1>1, <1>3 DEF FileFits, TerminalStatuses
  <2>2. ASSUME NEW r \in Runners, Inside(r, f)' PROVE RunnerFits(r, f)'
    <3>1. Inside(r, f) /\ run'[r] = run[r] /\ RunnerFits(r, f) /\ run[r].job \in JobsOf(f)
      BY <1>3, <2>2, InsideJob DEF VersionInv, FileInv
    <3>2. run[r].job \in Jobs \ {j} /\ job'[run'[r].job] = job[run[r].job] /\ run[r].job < j
      BY <1>3, <3>1 DEF JobsOf
    <3>3. file[f].status # "none"
      BY <3>1 DEF VersionInv, BaseInv, LatestKnown
    <3>4. \A i \in JobsOf(f)' : i > run'[r].job => job'[i].status = "queued"
      BY <1>3, <3>1 DEF RunnerFits
    <3>5. SeenFits(r, f)'
      <4>1. file'[f].status = "processing" /\ run'[r].job # file'[f].latest
        BY <1>1, <3>1, <3>2, <3>3 DEF Jobs
      <4>2. run[r].pc # "submit" => run[r].seen \in {"processing", "expired"}
        BY <1>1, <3>1, <3>3 DEF RunnerFits, SeenFits
      <4>. QED
        BY <3>1, <4>1, <4>2 DEF SeenFits
    <3>6. ChunksFit(r, f)'
      BY <1>1, <1>2, <1>4, <3>1, <3>3 DEF RunnerFits, ChunksFit
    <3>7. AtStage(run'[r].pc, job'[run'[r].job].status)
      BY <3>1, <3>2 DEF RunnerFits
    <3>. QED
      BY <3>4, <3>5, <3>6, <3>7 DEF RunnerFits
  <2>. QED
    BY <2>1, <2>2
<1>9. VersionInv'
  BY <1>5, <1>6, <1>8, SameKeeps DEF VersionInv
<1>10. PublishesNothing
  <2>1. \A e \in Files \ {f} : Serves(e)
    BY <1>5, SameServes
  <2>2. f \in Retired' <=> f \in Retired
    BY <1>1, <1>2 DEF Retired, VersionInv, BaseInv, LatestKnown
  <2>3. Retrievable(f)' = {}
    BY <1>1 DEF Retrievable
  <2>4. CASE f \in Retired
    BY <2>1, <2>2, <2>4 DEF PublishesNothing, Serves
  <2>5. CASE f \notin Retired
    <3>1. f \notin overlapped
      BY <2>5 DEF Retired
    <3>2. Withdraws(f)
      BY <1>7, <2>1, <2>2, <2>3, <2>5, <3>1 DEF Withdraws
    <3>. QED
      BY <3>2 DEF PublishesNothing
  <2>. QED
    BY <2>4, <2>5
<1>. QED
  BY <1>9, <1>10

-----------------------------------------------------------------------------
(* The commit of a delete *)

LEMMA DeleteCommitKeeps ==
    ASSUME TypeInv, TypeInv', SwapInv, VersionInv, DeleteCommit
    PROVE  VersionInv' /\ PublishesNothing
<1>1. PICK f : f = deletion.file
  OBVIOUS
<1>2. /\ UNCHANGED <<job, owner, run, overlapped>> /\ active' = active \ deletion.gens
      /\ file' = [file EXCEPT ![f].status = "deleted", ![f].deleted = TRUE]
      /\ deletion'.gens = {} /\ deletion'.pc = "idle" /\ deletion.pc # "idle"
  BY <1>1 DEF DeleteCommit, NoCall
<1>3. /\ \A e \in Files \ {f} : file'[e] = file[e]
      /\ f \in Files => file'[f].deleted /\ file'[f].status = "deleted"
                        /\ file'[f].latest = file[f].latest
  BY <1>2 DEF TypeInv, TypeOK, FileRow
<1>4. \A e : JobsOf(e)' = JobsOf(e)
  BY <1>2 DEF JobsOf
<1>5. \A g \in deletion.gens : FileOf(g) = f
  BY <1>1 DEF VersionInv, BaseInv, HeldByFile, JobsOf, FileOf
<1>6. \A e \in Files \ {f} : ActiveChunks(e)' = ActiveChunks(e)
  <2>1. \A g : FileOf(g)' = FileOf(g)
    BY <1>2 DEF FileOf
  <2>. QED
    BY <1>2, <1>5, <2>1 DEF ActiveChunks
<1>7. \A e \in Files \ {f} : Same(e)
  BY <1>2, <1>3, <1>4, <1>6 DEF Same, Inside
<1>8. BaseInv'
  <2>1. JobsInOrder'
    BY <1>2 DEF VersionInv, BaseInv, JobsInOrder
  <2>2. ASSUME NEW e \in Files PROVE LatestKnown(e)'
    <3>1. CASE e # f
      BY <1>3, <1>4, <3>1 DEF VersionInv, BaseInv, LatestKnown
    <3>2. CASE e = f
      BY <1>1, <1>2, <1>3, <1>4, <3>2 DEF VersionInv, BaseInv, LatestKnown, DeletesUploaded
    <3>. QED
      BY <3>1, <3>2
  <2>3. HeldByFile'
    BY <1>2, <1>4 DEF VersionInv, BaseInv, HeldByFile
  <2>4. DeletesUploaded'
    BY <1>2 DEF DeletesUploaded
  <2>. QED
    BY <2>1, <2>2, <2>3, <2>4 DEF BaseInv
<1>9. f \in Files => FileInv(f)'
  <2>1. ASSUME f \in Files, f \notin overlapped, NEW r \in Runners, Inside(r, f)
        PROVE  RunnerFits(r, f)'
    <3>1. RunnerFits(r, f)
      BY <2>1 DEF VersionInv, FileInv
    <3>. QED
      BY <1>2, <1>3, <1>4, <2>1, <3>1 DEF RunnerFits
  <2>. QED
    BY <1>2, <1>3, <2>1 DEF FileInv, Visible, Inside
<1>10. VersionInv'
  BY <1>7, <1>8, <1>9, SameKeeps DEF VersionInv
<1>11. PublishesNothing
  <2>1. \A e \in Files \ {f} : Serves(e)
    BY <1>7, SameServes
  <2>2. f \in Files => f \in Retired'
    BY <1>3 DEF Retired
  <2>3. CASE f \in Files /\ f \notin Retired
    BY <2>1, <2>2, <2>3 DEF PublishesNothing, Retires
  <2>4. CASE f \notin Files \/ f \in Retired
    BY <2>1, <2>2, <2>4 DEF PublishesNothing, Serves
  <2>. QED
    BY <2>3, <2>4
<1>. QED
  BY <1>10, <1>11

-----------------------------------------------------------------------------
(* Every step *)

LEMMA InitVersion == Init => VersionInv
<1>. SUFFICES ASSUME Init PROVE VersionInv
  OBVIOUS
<1>1. /\ \A j \in Jobs : job[j].status = "none"
      /\ \A f \in Files : file[f].status = "none" /\ ~file[f].deleted
      /\ \A r \in Runners : run[r].pc = "idle"
      /\ deletion.gens = {} /\ deletion.pc = "idle"
  BY DEF Init, Idle, Fresh, NoCall
<1>2. \A f : JobsOf(f) = {}
  BY <1>1 DEF JobsOf
<1>3. BaseInv
  BY <1>1, <1>2 DEF BaseInv, JobsInOrder, LatestKnown, HeldByFile, DeletesUploaded
<1>4. \A f \in Files : FileInv(f)
  BY <1>1, HandlerIsBusy DEF FileInv, Inside, Visible
<1>. QED
  BY <1>3, <1>4 DEF VersionInv

LEMMA NextVersion ==
    ASSUME TypeInv, SwapInv, VersionInv, [Next]_vars
    PROVE  VersionInv' /\ (PublishesNothing \/ \E r \in Runners : Finish(r))
<1>1. TypeInv' /\ SwapInv'
  BY NextTyped, NextSwap
<1>2. CASE UNCHANGED vars
  BY <1>1, <1>2, OutsideKeeps
<1>3. CASE Next
  <2>1. CASE \E f \in Files : Upload(f) \/ Retry(f)
    BY <1>1, <2>1, RequestKeeps
  <2>2. CASE \/ WorkerPoll \/ WorkerNext \/ Reindex \/ Crash
             \/ \E f \in Files : DeleteRequest(f) \/ ReindexRequest(f)
    BY <1>1, <2>2, OutsideKeeps
  <2>3. CASE Delete
    BY <1>1, <2>3, OutsideKeeps, DeleteCommitKeeps DEF Delete
  <2>4. ASSUME NEW r \in Runners, Run(r)
        PROVE  VersionInv' /\ (PublishesNothing \/ Finish(r))
    <3>1. CASE Submitted(r) \/ PollDone(r) \/ Normalized(r)
      BY <1>1, <3>1, ParseKeeps
    <3>2. CASE \/ SubmitRejected(r) \/ PollFailed(r) \/ NormalizedEmpty(r) \/ NoActiveChunks(r)
               \/ EmbedFailed(r) \/ VectorsFailed(r) \/ KeywordsFailed(r)
      BY <1>1, <3>2, PlainFailKeeps
    <3>3. CASE PollUnchanged(r) \/ NormalizeSkipped(r) \/ PollWaiting(r) \/ Leave(r) \/ Abort(r)
      BY <1>1, <3>3, QuietRunKeeps
    <3>4. CASE Advance(r)
      BY <1>1, <3>4, AdvanceKeeps
    <3>5. CASE Deactivate(r)
      BY <1>1, <3>5, DeactivateKeeps
    <3>6. CASE InsertChunks(r)
      BY <1>1, <3>6, InsertChunksKeeps
    <3>7. CASE InsertNothing(r)
      BY <1>1, <3>7, InsertNothingKeeps
    <3>8. CASE DescribeImages(r)
      BY <1>1, <3>8, DescribeKeeps
    <3>9. CASE StartIndexing(r)
      BY <1>1, <3>9, StartIndexingKeeps
    <3>10. CASE Embedded(r) \/ UpsertVectors(r) \/ UpsertKeywords(r)
      BY <1>1, <3>10, IndexCallKeeps
    <3>11. CASE Finish(r)
      BY <1>1, <3>11, FinishKeeps
    <3>. QED
      BY <2>4, <3>1, <3>2, <3>3, <3>4, <3>5, <3>6, <3>7, <3>8, <3>9, <3>10, <3>11
        DEF Run, Work, Submit, PollAnswered, Normalize, Index
  <2>. QED
    BY <1>3, <2>1, <2>2, <2>3, <2>4 DEF Next
<1>. QED
  BY <1>2, <1>3

-----------------------------------------------------------------------------
(* What follows of every state                                              *)

LEMMA SpecVersion == Spec => [](TypeInv /\ SwapInv /\ VersionInv)
<1>1. Init => TypeInv /\ SwapInv /\ VersionInv
  BY InitTyped, InitSwap, InitVersion
<1>2. TypeInv /\ SwapInv /\ VersionInv /\ [Next]_vars => (TypeInv /\ SwapInv /\ VersionInv)'
  BY NextTyped, NextSwap, NextVersion
<1>. QED
  BY <1>1, <1>2, PTL DEF Spec

\* The chunks an answer may use are those of the latest successful parse job of
\* the file, through retries, failures, deletes, reindexes and crashes:
\* load_chunks looks at no job, so this rests on every handler that writes rows.
THEOREM LatestSuccessIsServed == Spec => []RetrievableFromLatestSuccess
<1>1. VersionInv => RetrievableFromLatestSuccess
  BY DEF VersionInv, FileInv, FileFits, RetrievableFromLatestSuccess, Retrievable
<1>. QED
  BY <1>1, SpecVersion, PTL

\* When the latest job of a file has ended, the file row shows how, although the
\* handlers write a status only when it differs from the one they loaded.
THEOREM FilesShowOutcome == Spec => []SettledFileAgrees
<1>1. VersionInv => SettledFileAgrees
  BY DEF VersionInv, FileInv, FileFits, SettledFileAgrees
<1>. QED
  BY <1>1, SpecVersion, PTL

-----------------------------------------------------------------------------
(* The status of a job only moves forward *)

LEMMA Ranks ==
    /\ Rank("none") = 0 /\ Rank("queued") = 1 /\ Rank("parsing") = 2 /\ Rank("normalizing") = 3
    /\ Rank("chunking") = 4 /\ Rank("embedding") = 5 /\ Rank("indexing") = 6
    /\ Rank("indexed") = 7 /\ Rank("failed") = 7
<1>1. /\ StatusOrder[1] = "queued" /\ StatusOrder[2] = "parsing" /\ StatusOrder[3] = "normalizing"
      /\ StatusOrder[4] = "chunking" /\ StatusOrder[5] = "embedding" /\ StatusOrder[6] = "indexing"
  BY DEF StatusOrder
<1>2. 1 .. 6 = {1, 2, 3, 4, 5, 6}
  OBVIOUS
<1>. QED
  BY <1>1, <1>2 DEF Rank, TerminalStatuses

Forward ==
    \A j \in Jobs :
        job'[j].file \in overlapped' \/ job'[j].status = job[j].status
          \/ Rank(job'[j].status) > Rank(job[j].status)

\* A handler writes a status that ranks above the stage it is of.
Advances(pc, status) ==
    \A old \in JobStatuses : AtStage(pc, old) => Rank(status) > Rank(old)

LEMMA WriteForward ==
    ASSUME TypeInv, SwapInv, VersionInv, NEW r \in Runners, run[r].pc \in HandlerPcs,
           NEW status \in JobStatuses \ {"none"}, NEW logs \in SUBSET LogKeys,
           WriteJob(run[r].job, status, logs), overlapped' = overlapped,
           Advances(run[r].pc, status)
    PROVE  Forward
<1>1. PICK f : f = job[run[r].job].file
  OBVIOUS
<1>2. Inside(r, f) /\ run[r].pc # "idle"
  BY <1>1, HandlerIsBusy DEF Inside
<1>3. run[r].job \in Jobs /\ job[run[r].job].status \in JobStatuses /\ job[run[r].job] \in JobRow
  BY <1>2, BusyRunner DEF TypeInv, TypeOK
<1>4. /\ \A i \in Jobs \ {run[r].job} : job'[i].status = job[i].status
      /\ job'[run[r].job].status = status /\ job'[run[r].job].file = f
  BY <1>1, <1>3 DEF WriteJob, TypeInv, TypeOK, JobRow
<1>5. f \notin overlapped => Rank(status) > Rank(job[run[r].job].status)
  BY <1>2, <1>3, InsideFits DEF RunnerFits, Advances
<1>. QED
  BY <1>4, <1>5 DEF Forward

LEMMA FailureAdvances == \A pc \in HandlerPcs : Advances(pc, "failed")
  BY Ranks DEF Advances, AtStage, HandlerPcs

LEMMA ProgressAdvances ==
    /\ Advances("submit", "parsing") /\ Advances("poll", "normalizing")
    /\ Advances("normalize", "chunking") /\ Advances("insert", "embedding")
    /\ Advances("describe", "indexing") /\ Advances("index", "indexing")
    /\ Advances("finish", "indexed")
  BY Ranks DEF Advances, AtStage

LEMMA RunForward ==
    ASSUME TypeInv, SwapInv, VersionInv, NEW r \in Runners, Run(r)
    PROVE  Forward
<1>1. CASE \/ Submitted(r) \/ PollDone(r) \/ Normalized(r) \/ InsertChunks(r) \/ StartIndexing(r)
           \/ Finish(r)
  <2>1. run[r].pc \in HandlerPcs /\ overlapped' = overlapped
    BY <1>1 DEF Submitted, PollDone, Normalized, InsertChunks, StartIndexing, Finish, MoveOn,
                outsideVars, HandlerPcs
  <2>2. run[r].logs \in SUBSET LogKeys /\ LogsSeen(r) \in SUBSET LogKeys
    BY <2>1, BusyRunner, HandlerIsBusy
  <2>3. PICK status \in JobStatuses \ {"none"}, logs \in SUBSET LogKeys :
          WriteJob(run[r].job, status, logs) /\ Advances(run[r].pc, status)
    <3>1. {"parsing", "normalizing", "chunking", "embedding", "indexing", "indexed"}
            \subseteq JobStatuses \ {"none"}
      BY DEF JobStatuses, RunnableStatuses, TerminalStatuses
    <3>2. CASE Submitted(r)
      <4>1. WriteJob(run[r].job, "parsing", run[r].logs \cup {"batch"}) /\ run[r].pc = "submit"
        BY <3>2 DEF Submitted, MoveOn, WriteProgress
      <4>2. run[r].logs \cup {"batch"} \in SUBSET LogKeys
        BY <2>2 DEF LogKeys
      <4>. QED
        BY <3>1, <4>1, <4>2, ProgressAdvances
    <3>3. CASE PollDone(r)
      <4>1. WriteJob(run[r].job, "normalizing", run[r].logs \cup {"parsed"}) /\ run[r].pc = "poll"
        BY <3>3 DEF PollDone, MoveOn, WriteProgress
      <4>2. run[r].logs \cup {"parsed"} \in SUBSET LogKeys
        BY <2>2 DEF LogKeys
      <4>. QED
        BY <3>1, <4>1, <4>2, ProgressAdvances
    <3>4. CASE Normalized(r)
      <4>1. WriteJob(run[r].job, "chunking", run[r].logs) /\ run[r].pc = "normalize"
        BY <3>4 DEF Normalized, MoveOn, WriteProgress
      <4>. QED
        BY <2>2, <3>1, <4>1, ProgressAdvances
    <3>5. CASE InsertChunks(r)
      <4>1. WriteJob(run[r].job, "embedding", run[r].logs) /\ run[r].pc = "insert"
        BY <3>5 DEF InsertChunks, WriteProgress
      <4>. QED
        BY <2>2, <3>1, <4>1, ProgressAdvances
    <3>6. CASE StartIndexing(r)
      <4>1. WriteJob(run[r].job, "indexing", LogsSeen(r)) /\ run[r].pc \in {"describe", "index"}
        BY <3>6 DEF StartIndexing
      <4>. QED
        BY <2>2, <3>1, <4>1, ProgressAdvances
    <3>7. CASE Finish(r)
      <4>1. WriteJob(run[r].job, "indexed", run[r].logs) /\ run[r].pc = "finish"
        BY <3>7 DEF Finish
      <4>. QED
        BY <2>2, <3>1, <4>1, ProgressAdvances
    <3>. QED
      BY <1>1, <3>2, <3>3, <3>4, <3>5, <3>6, <3>7
  <2>. QED
    BY <2>1, <2>3, WriteForward
<1>2. CASE \/ SubmitRejected(r) \/ PollFailed(r) \/ NormalizedEmpty(r) \/ NoActiveChunks(r)
           \/ EmbedFailed(r) \/ VectorsFailed(r) \/ KeywordsFailed(r) \/ InsertNothing(r)
  <2>1. run[r].pc \in HandlerPcs /\ overlapped' = overlapped
    BY <1>2 DEF SubmitRejected, PollFailed, NormalizedEmpty, NoActiveChunks, EmbedFailed,
                VectorsFailed, KeywordsFailed, InsertNothing, Fail, outsideVars, HandlerPcs
  <2>2. run[r].logs \in SUBSET LogKeys /\ LogsSeen(r) \in SUBSET LogKeys
    BY <2>1, BusyRunner, HandlerIsBusy
  <2>3. PICK logs \in SUBSET LogKeys : WriteJob(run[r].job, "failed", logs)
    BY <1>2, <2>2 DEF SubmitRejected, PollFailed, NormalizedEmpty, NoActiveChunks, EmbedFailed,
                VectorsFailed, KeywordsFailed, InsertNothing, Fail, WriteFailure
  <2>4. "failed" \in JobStatuses \ {"none"}
    BY DEF JobStatuses, TerminalStatuses
  <2>. QED
    BY <2>1, <2>3, <2>4, FailureAdvances, WriteForward
<1>3. CASE PollWaiting(r) \/ DescribeImages(r)
  <2>1. run[r].job \in Jobs
    BY <1>3, BusyRunner DEF PollWaiting, DescribeImages
  <2>2. job' = [job EXCEPT ![run[r].job].logs = run[r].logs]
    BY <1>3 DEF PollWaiting, DescribeImages
  <2>3. \A j \in Jobs : job'[j].status = job[j].status
    BY <2>1, <2>2 DEF TypeInv, TypeOK, JobRow
  <2>. QED
    BY <2>3 DEF Forward
<1>4. CASE UNCHANGED job
  BY <1>4 DEF Forward
<1>5. CASE \/ PollUnchanged(r) \/ NormalizeSkipped(r) \/ Leave(r) \/ Abort(r) \/ Advance(r)
           \/ Deactivate(r) \/ Embedded(r) \/ UpsertVectors(r) \/ UpsertKeywords(r)
  BY <1>4, <1>5 DEF PollUnchanged, NormalizeSkipped, Leave, Abort, Advance, Deactivate, Embedded,
                    UpsertVectors, UpsertKeywords, GiveUp, rowVars
<1>. QED
  BY <1>1, <1>2, <1>3, <1>5 DEF Run, Work, Submit, PollAnswered, Normalize, Index

LEMMA NextForward ==
    ASSUME TypeInv, SwapInv, VersionInv, [Next]_vars
    PROVE  Forward
<1>1. CASE UNCHANGED job
  BY <1>1 DEF Forward
<1>2. CASE \E f \in Files : Upload(f) \/ Retry(f)
  <2>1. PICK f \in Files, j \in Jobs : NewJob(j, f)
    BY <1>2 DEF Upload, Retry
  <2>2. /\ job'[j].status = "queued" /\ job[j].status = "none"
        /\ \A i \in Jobs \ {j} : job'[i] = job[i]
    BY <2>1, NewJobIsNewest DEF NewJob
  <2>. QED
    BY <2>2, Ranks DEF Forward
<1>. QED
  BY <1>1, <1>2, RunForward
    DEF vars, Next, rowVars, WorkerPoll, WorkerNext, DeleteRequest, ReindexRequest, Delete, DeletePoints,
        DeleteDocuments, DeleteFailed, DeactivateDeleted, DeleteCommit, Reindex, ReindexDeactivate,
        ReindexVectors, ReindexKeywords, Crash

\* The status of a job only moves forward along the documented order, and a job
\* that ended keeps its status, whatever fails, is repeated or crashes, as long
\* as advances of its file did not overlap.
THEOREM JobsMoveForward == Spec => StatusOnlyForward
<1>1. TypeInv /\ SwapInv /\ VersionInv /\ [Next]_vars => [Forward]_vars
  BY NextForward
<1>2. Spec => [][Forward]_vars
  BY <1>1, SpecVersion, PTL DEF Spec
<1>. QED
  BY <1>2 DEF StatusOnlyForward, Forward

-----------------------------------------------------------------------------
(* The pipeline implements DocumentVersions: a commit of Finish publishes   *)
(* the version of its job, and every other step withdraws one, retires a    *)
(* file or leaves what is served as it was.                                 *)

NewestVersion(f) == IF f \in Retired THEN 0 ELSE LatestIndexed(f)

\* What is served is the latest success.
LEMMA ServedIsLatest ==
    ASSUME NEW f \in Files
    PROVE  /\ SwapInv /\ VersionInv /\ f \notin Retired /\ Retrievable(f) # {} =>
                ServedVersion(f) = LatestIndexed(f) /\ LatestIndexed(f) \in Jobs
           /\ SwapInv' /\ VersionInv' /\ f \notin Retired' /\ Retrievable(f)' # {} =>
                ServedVersion(f)' = LatestIndexed(f)' /\ LatestIndexed(f)' \in Jobs
<1>1. ASSUME SwapInv, VersionInv, f \notin Retired, Retrievable(f) # {}
      PROVE  ServedVersion(f) = LatestIndexed(f) /\ LatestIndexed(f) \in Jobs
  <2>1. \A g \in Retrievable(f) : owner[g] = LatestIndexed(f)
    BY <1>1 DEF VersionInv, FileInv, FileFits, Retrievable, Retired
  <2>2. \A g \in Retrievable(f) : owner[g] \in Jobs
    BY <1>1 DEF Retrievable, ActiveChunks, SwapInv, Owned
  <2>. QED
    BY <1>1, <2>1, <2>2 DEF ServedVersion
<1>2. ASSUME SwapInv', VersionInv', f \notin Retired', Retrievable(f)' # {}
      PROVE  ServedVersion(f)' = LatestIndexed(f)' /\ LatestIndexed(f)' \in Jobs
  <2>1. \A g \in Retrievable(f)' : owner'[g] = LatestIndexed(f)'
    BY <1>2 DEF VersionInv, FileInv, FileFits, Retrievable, Retired
  <2>2. \A g \in Retrievable(f)' : owner'[g] \in Jobs
    BY <1>2 DEF Retrievable, ActiveChunks, SwapInv, Owned
  <2>. QED
    BY <1>2, <2>1, <2>2 DEF ServedVersion
<1>. QED
  BY <1>1, <1>2

LEMMA ServesMapped ==
    ASSUME TypeInv, TypeInv', SwapInv, SwapInv', VersionInv, VersionInv', NEW e \in Files, Serves(e)
    PROVE  ServedVersion(e)' = ServedVersion(e) /\ NewestVersion(e)' = NewestVersion(e)
<1>1. CASE e \in Retired
  BY <1>1 DEF Serves, ServedVersion, NewestVersion
<1>2. CASE e \notin Retired
  <2>1. /\ e \notin Retired' /\ Retrievable(e)' = Retrievable(e)
        /\ LatestIndexed(e)' = LatestIndexed(e)
    BY <1>2 DEF Serves
  <2>2. CASE Retrievable(e) = {}
    BY <1>2, <2>1, <2>2 DEF ServedVersion, NewestVersion
  <2>3. CASE Retrievable(e) # {}
    <3>1. ServedVersion(e) = LatestIndexed(e)
      BY <1>2, <2>3, ServedIsLatest
    <3>2. ServedVersion(e)' = LatestIndexed(e)'
      BY <2>1, <2>3, ServedIsLatest
    <3>. QED
      BY <1>2, <2>1, <3>1, <3>2 DEF NewestVersion
  <2>. QED
    BY <2>2, <2>3
<1>. QED
  BY <1>1, <1>2

\* The abstract state, and its actions over the mapping.
Mapped == [f \in Files |-> ServedVersion(f)]
MappedNewest == [f \in Files |-> NewestVersion(f)]

\* Files other than f are mapped to what they were.
MapsOn(f) ==
    \A e \in Files \ {f} : /\ ServedVersion(e)' = ServedVersion(e)
                           /\ NewestVersion(e)' = NewestVersion(e)
                           /\ e \in Retired' <=> e \in Retired

LEMMA MapsTo ==
    ASSUME NEW f \in Files, MapsOn(f)
    PROVE  /\ Mapped' = [Mapped EXCEPT ![f] = ServedVersion(f)']
           /\ MappedNewest' = [MappedNewest EXCEPT ![f] = NewestVersion(f)']
  BY DEF Mapped, MappedNewest, MapsOn

LEMMA InitMapped == Init => Abstract!Init
<1>. SUFFICES ASSUME Init PROVE Abstract!Init
  OBVIOUS
<1>1. Retired = {}
  BY DEF Init, Retired
<1>2. \A f \in Files : Retrievable(f) = {}
  BY DEF Init, Retrievable, Visible
<1>3. \A f \in Files : LatestIndexed(f) = 0
  <2>. SUFFICES ASSUME NEW f \in Files PROVE LatestIndexed(f) = 0
    OBVIOUS
  <2>1. IndexedOf(f) = {}
    BY DEF IndexedOf, JobsOf, Init
  <2>. QED
    BY <2>1, LatestIsNewest DEF Newest
<1>. QED
  BY <1>1, <1>2, <1>3 DEF Abstract!Init, ServedVersion

LEMMA NextMapped ==
    ASSUME TypeInv, TypeInv', SwapInv, SwapInv', VersionInv, VersionInv', [Next]_vars
    PROVE  \/ Mapped' = Mapped /\ MappedNewest' = MappedNewest /\ Retired' = Retired
           \/ \E f \in Files :
                /\ f \notin Retired
                /\ Mapped' = [Mapped EXCEPT ![f] = 0]
                /\ MappedNewest' = MappedNewest /\ Retired' = Retired
           \/ \E f \in Files :
                /\ f \notin Retired
                /\ Mapped' = [Mapped EXCEPT ![f] = 0]
                /\ MappedNewest' = [MappedNewest EXCEPT ![f] = 0]
                /\ Retired' = Retired \cup {f}
           \/ \E f \in Files : \E v \in Jobs :
                /\ f \notin Retired
                /\ v > MappedNewest[f]
                /\ Mapped' = [Mapped EXCEPT ![f] = v]
                /\ MappedNewest' = [MappedNewest EXCEPT ![f] = v]
                /\ Retired' = Retired
<1>1. Retired \subseteq Files /\ Retired' \subseteq Files
  BY DEF Retired, TypeInv, TypeOK
<1>2. \A f \in Files : (\A e \in Files \ {f} : Serves(e)) => MapsOn(f)
  BY ServesMapped DEF MapsOn, Serves
<1>3. CASE \A e \in Files : Serves(e)
  <2>1. Retired' = Retired
    BY <1>1, <1>3 DEF Serves
  <2>2. Mapped' = Mapped /\ MappedNewest' = MappedNewest
    BY <1>3, ServesMapped DEF Mapped, MappedNewest
  <2>. QED
    BY <2>1, <2>2
<1>4. ASSUME NEW f \in Files, Withdraws(f)
      PROVE  /\ f \notin Retired
             /\ Mapped' = [Mapped EXCEPT ![f] = 0]
             /\ MappedNewest' = MappedNewest /\ Retired' = Retired
  <2>1. MapsOn(f)
    BY <1>2, <1>4 DEF Withdraws
  <2>2. f \notin Retired /\ Retired' = Retired
    BY <1>1, <1>4, <2>1 DEF Withdraws, MapsOn
  <2>3. ServedVersion(f)' = 0 /\ NewestVersion(f)' = NewestVersion(f)
    BY <1>4 DEF Withdraws, ServedVersion, NewestVersion
  <2>4. Mapped' = [Mapped EXCEPT ![f] = 0]
    BY <2>1, <2>3, MapsTo
  <2>5. MappedNewest' = MappedNewest
    BY <2>1, <2>3 DEF MappedNewest, MapsOn
  <2>. QED
    BY <2>2, <2>4, <2>5
<1>5. ASSUME NEW f \in Files, Retires(f)
      PROVE  /\ f \notin Retired
             /\ Mapped' = [Mapped EXCEPT ![f] = 0]
             /\ MappedNewest' = [MappedNewest EXCEPT ![f] = 0]
             /\ Retired' = Retired \cup {f}
  <2>1. MapsOn(f)
    BY <1>2, <1>5 DEF Retires
  <2>2. f \notin Retired /\ Retired' = Retired \cup {f}
    BY <1>1, <1>5, <2>1 DEF Retires, MapsOn
  <2>3. ServedVersion(f)' = 0 /\ NewestVersion(f)' = 0
    BY <1>5 DEF Retires, ServedVersion, NewestVersion
  <2>. QED
    BY <2>1, <2>2, <2>3, MapsTo
<1>6. ASSUME NEW r \in Runners, Finish(r)
      PROVE  \/ Mapped' = Mapped /\ MappedNewest' = MappedNewest /\ Retired' = Retired
             \/ \E f \in Files : \E v \in Jobs :
                  /\ f \notin Retired
                  /\ v > MappedNewest[f]
                  /\ Mapped' = [Mapped EXCEPT ![f] = v]
                  /\ MappedNewest' = [MappedNewest EXCEPT ![f] = v]
                  /\ Retired' = Retired
  <2>1. PICK f : f = job[run[r].job].file
    OBVIOUS
  <2>2. /\ f \in Files /\ StepOn(r, f) /\ KeepsMarks(f) /\ overlapped' = overlapped
        /\ f \notin overlapped /\ ~file[f].deleted =>
              /\ file'[f].status = "indexed" /\ LatestIndexed(f)' = run[r].job
              /\ LatestIndexed(f) < run[r].job
              /\ ActiveChunks(f)' = ActiveChunks(f)
              /\ run[r].gens = ActiveChunks(f) /\ run[r].gens # {}
    BY <1>6, <2>1, FinishKeeps
  <2>3. MapsOn(f)
    BY <1>2, <2>2, StepSame, SameServes
  <2>4. Retired' = Retired
    BY <1>1, <2>2, <2>3 DEF Retired, MapsOn, KeepsMarks
  <2>5. CASE f \in Retired
    <3>1. ServedVersion(f)' = ServedVersion(f) /\ NewestVersion(f)' = NewestVersion(f)
      BY <2>4, <2>5 DEF ServedVersion, NewestVersion
    <3>. QED
      BY <2>3, <2>4, <3>1 DEF Mapped, MappedNewest, MapsOn
  <2>6. CASE f \notin Retired
    <3>1. f \notin overlapped /\ ~file[f].deleted /\ f \notin Retired'
      BY <2>2, <2>4, <2>6 DEF Retired
    <3>2. Visible(f)' /\ Retrievable(f)' # {}
      BY <2>2, <3>1 DEF Visible, Retrievable, KeepsMarks
    <3>3. ServedVersion(f)' = run[r].job /\ run[r].job \in Jobs
      BY <2>2, <3>1, <3>2, ServedIsLatest
    <3>4. NewestVersion(f)' = run[r].job /\ run[r].job > MappedNewest[f]
      BY <2>2, <2>6, <3>1 DEF NewestVersion, MappedNewest
    <3>. QED
      BY <2>2, <2>3, <2>4, <2>6, <3>3, <3>4, MapsTo
  <2>. QED
    BY <2>5, <2>6
<1>. QED
  BY <1>3, <1>4, <1>5, <1>6, NextVersion DEF PublishesNothing

LEMMA StepMapped ==
    ASSUME TypeInv, TypeInv', SwapInv, SwapInv', VersionInv, VersionInv', [Next]_vars
    PROVE  [Abstract!Next]_(Abstract!vars)
  BY NextMapped
    DEF Mapped, MappedNewest, NewestVersion, Abstract!vars, Abstract!Next, Abstract!Withdraw,
        Abstract!Retire, Abstract!Publish

\* ParsePipeline implements DocumentVersions: of a file whose advances did not
\* overlap, a version is served from the commit that ends its job, is newer than
\* every version served before it, and never returns once a retry, a failure or a
\* delete has taken it out of service.
THEOREM PipelineImplementsVersions == Spec => ImplementsVersions
<1>1. Init => Abstract!Init
  BY InitMapped
<1>2. /\ TypeInv /\ SwapInv /\ VersionInv
      /\ (TypeInv /\ SwapInv /\ VersionInv)'
      /\ [Next]_vars
      => [Abstract!Next]_(Abstract!vars)
  BY StepMapped
<1>3. Spec => Abstract!Init /\ [][Abstract!Next]_(Abstract!vars)
  BY <1>1, <1>2, SpecVersion, PTL DEF Spec
<1>. QED
  BY <1>3 DEF ImplementsVersions, Abstract!Spec

-----------------------------------------------------------------------------
(* Search finds what answers may use, as long as nobody deletes files.      *)
(*                                                                          *)
(* Without a delete nothing leaves an index, and only a reindex takes a     *)
(* point out of the vector search, so what an upsert wrote stays there      *)
(* until the commit, or is withdrawn.                                       *)

\* The point of a chunk of g is where search finds it, or a reindex has it.
Pointed(g) == qdrant[g] = "active" \/ g \in withdrawn

\* A runner that has upserted its chunks into an index finds them there.
Upserted(r) ==
    /\ run[r].pc \in {"keywords", "finish"} => \A g \in run[r].gens : Pointed(g)
    /\ run[r].pc = "finish" => run[r].gens \subseteq bm25

FoundInv == deletion = NoCall /\ (\A r \in Runners : Upserted(r)) /\ Findable

IndexesGrow ==
    /\ \A g \in Gens : Pointed(g) => Pointed(g)'
    /\ bm25 \subseteq bm25'

\* An upsert: what it puts back is no longer withdrawn.
LEMMA PointsPut ==
    ASSUME NEW S, qdrant' = SetPoints(S, "active"),
           withdrawn' = withdrawn \/ withdrawn' = withdrawn \ S
    PROVE  /\ \A g \in Gens : Pointed(g) => Pointed(g)'
           /\ \A g \in S \cap Gens : Pointed(g)'
  BY DEF SetPoints, Pointed

\* A deactivation: what it takes out is noted as withdrawn.
LEMMA PointsWithdrawn ==
    ASSUME NEW S, NEW T \in SUBSET S,
           qdrant' = qdrant \/ qdrant' = SetPoints(T, "inactive"),
           withdrawn' = withdrawn \cup S
    PROVE  \A g \in Gens : Pointed(g) => Pointed(g)'
  BY DEF SetPoints, Pointed

LEMMA NextGrows ==
    ASSUME "delete" \notin Requests, deletion = NoCall, [Next]_vars
    PROVE  deletion' = NoCall /\ IndexesGrow
<1>0. deletion.pc = "idle"
  BY DEF NoCall
<1>1. CASE UNCHANGED vars
  BY <1>1 DEF vars, IndexesGrow, Pointed
<1>2. CASE \E f \in Files : Upload(f) \/ Retry(f) \/ DeleteRequest(f) \/ ReindexRequest(f)
  BY <1>2 DEF Upload, Retry, DeleteRequest, ReindexRequest, indexVars, outsideVars, callVars,
              IndexesGrow, Pointed
<1>3. CASE WorkerPoll \/ WorkerNext \/ Crash
  BY <1>3 DEF WorkerPoll, WorkerNext, Crash, indexVars, callVars, IndexesGrow, Pointed
<1>4. CASE Reindex
  <2>1. deletion' = deletion /\ bm25 \subseteq bm25'
    BY <1>4 DEF Reindex, ReindexDeactivate, ReindexVectors, ReindexKeywords
  <2>2. CASE ReindexDeactivate
    <3>1. /\ withdrawn' = withdrawn \cup reindexing.gens
          /\ \/ qdrant' = qdrant
             \/ qdrant' = SetPoints({g \in reindexing.gens : qdrant[g] # "absent"}, "inactive")
      BY <2>2 DEF ReindexDeactivate
    <3>. QED
      BY <2>1, <3>1, PointsWithdrawn DEF IndexesGrow
  <2>3. CASE ReindexVectors
    <3>1. CASE qdrant' = SetPoints(reindexing.gens, "active")
      <4>1. withdrawn' = withdrawn \/ withdrawn' = withdrawn \ reindexing.gens
        BY <2>3 DEF ReindexVectors
      <4>. QED
        BY <2>1, <3>1, <4>1, PointsPut DEF IndexesGrow
    <3>2. CASE UNCHANGED <<qdrant, withdrawn>>
      BY <2>1, <3>2 DEF IndexesGrow, Pointed
    <3>. QED
      BY <2>3, <3>1, <3>2 DEF ReindexVectors
  <2>4. CASE ReindexKeywords
    BY <2>1, <2>4 DEF ReindexKeywords, IndexesGrow, Pointed
  <2>. QED
    BY <1>4, <2>1, <2>2, <2>3, <2>4 DEF Reindex
<1>5. ASSUME NEW r \in Runners, Run(r) PROVE deletion' = NoCall /\ IndexesGrow
  <2>1. CASE UpsertVectors(r) \/ VectorsFailed(r)
    <3>1. deletion' = deletion /\ bm25' = bm25
      BY <2>1 DEF UpsertVectors, VectorsFailed, outsideVars, callVars
    <3>2. \/ UNCHANGED <<qdrant, withdrawn>>
          \/ /\ qdrant' = SetPoints(run[r].gens, "active")
             /\ withdrawn' = withdrawn \/ withdrawn' = withdrawn \ run[r].gens
      BY <2>1 DEF UpsertVectors, VectorsFailed
    <3>3. CASE UNCHANGED <<qdrant, withdrawn>>
      BY <3>1, <3>3 DEF IndexesGrow, Pointed
    <3>. QED
      BY <3>1, <3>2, <3>3, PointsPut DEF IndexesGrow
  <2>2. CASE UpsertKeywords(r) \/ KeywordsFailed(r)
    BY <2>2 DEF UpsertKeywords, KeywordsFailed, outsideVars, callVars, IndexesGrow, Pointed
  <2>3. CASE UNCHANGED <<indexVars, deletion>>
    BY <2>3 DEF indexVars, IndexesGrow, Pointed
  <2>4. CASE Advance(r) \/ Leave(r) \/ Abort(r)
    BY <2>3, <2>4 DEF Advance, Leave, Abort, outsideVars, callVars
  <2>5. CASE Submit(r) \/ PollUnchanged(r) \/ PollWaiting(r) \/ PollAnswered(r) \/ Normalize(r)
    BY <2>3, <2>5 DEF Submit, PollAnswered, Normalize, Submitted, SubmitRejected, PollUnchanged,
         PollWaiting, PollDone, PollFailed, NormalizeSkipped, Normalized, NormalizedEmpty, MoveOn,
         Fail, GiveUp, outsideVars, callVars
  <2>6. CASE \/ Deactivate(r) \/ InsertChunks(r) \/ InsertNothing(r) \/ DescribeImages(r) \/ Index(r)
             \/ Embedded(r) \/ EmbedFailed(r) \/ Finish(r)
    BY <2>3, <2>6 DEF Deactivate, InsertChunks, InsertNothing, DescribeImages, Index, StartIndexing,
         NoActiveChunks, Embedded, EmbedFailed, Finish, Fail, outsideVars, callVars
  <2>. QED
    BY <1>5, <2>1, <2>2, <2>4, <2>5, <2>6 DEF Run, Work
<1>6. ~Delete
  BY <1>0 DEF Delete, DeletePoints, DeleteDocuments, DeleteFailed, DeactivateDeleted, DeleteCommit
<1>. QED
  BY <1>1, <1>2, <1>3, <1>4, <1>5, <1>6 DEF Next

\* A runner gets past an upsert by the upsert.
LEMMA NextUpserts ==
    ASSUME TypeInv, [Next]_vars, IndexesGrow, \A q \in Runners : Upserted(q), NEW q \in Runners
    PROVE  Upserted(q)'
<1>1. CASE run'[q] = run[q]
  <2>1. run[q].gens \subseteq Gens
    BY DEF TypeInv, TypeOK, Session
  <2>. QED
    BY <1>1, <2>1 DEF Upserted, IndexesGrow
<1>2. CASE run'[q].pc \notin {"keywords", "finish"}
  BY <1>2 DEF Upserted
<1>3. CASE UpsertVectors(q)
  <2>1. /\ run'[q].pc = "keywords" /\ run'[q].gens = run[q].gens /\ run[q].gens \subseteq Gens
        /\ qdrant' = SetPoints(run[q].gens, "active")
        /\ withdrawn' = withdrawn \ run[q].gens
    BY <1>3 DEF UpsertVectors, Goto, TypeInv, TypeOK, Session
  <2>. QED
    BY <2>1, PointsPut DEF Upserted
<1>4. CASE UpsertKeywords(q)
  <2>1. /\ run'[q].pc = "finish" /\ run'[q].gens = run[q].gens /\ run[q].gens \subseteq Gens
        /\ bm25' = bm25 \cup run[q].gens /\ run[q].pc = "keywords"
    BY <1>4 DEF UpsertKeywords, Goto, TypeInv, TypeOK, Session
  <2>. QED
    BY <2>1 DEF Upserted, IndexesGrow
<1>5. ASSUME NEW r \in Runners, Run(r), r # q PROVE run'[q] = run[q]
  BY <1>5 DEF Run, Work, Advance, Leave, Abort, Submit, PollAnswered, Normalize, Submitted,
       SubmitRejected, PollUnchanged, PollWaiting, PollDone, PollFailed, NormalizeSkipped, Normalized,
       NormalizedEmpty, MoveOn, Fail, GiveUp, Deactivate, InsertChunks, InsertNothing, DescribeImages,
       Index, StartIndexing, NoActiveChunks, Embedded, EmbedFailed, UpsertVectors, VectorsFailed,
       UpsertKeywords, KeywordsFailed, Finish, Return, Goto, TypeInv, TypeOK
<1>6. CASE Run(q)
  <2>1. CASE Return(q)
    BY <1>2, <2>1, ReturnKeepsOthers
  <2>2. CASE Leave(q) \/ Abort(q)
    BY <1>2, <2>2 DEF Leave, Abort, Idle, Fresh, TypeInv, TypeOK
  <2>3. CASE Advance(q)
    <3>1. run'[q].pc = Handler(job[run[q].job].status) /\ job[run[q].job].status \in RunnableStatuses
      BY <2>3 DEF Advance, MayAdvance, TypeInv, TypeOK, Session
    <3>. QED
      BY <1>2, <3>1 DEF Handler, RunnableStatuses
  <2>4. CASE Deactivate(q) \/ DescribeImages(q) \/ StartIndexing(q) \/ Embedded(q)
    BY <1>2, <2>4 DEF Deactivate, DescribeImages, StartIndexing, Embedded, TypeInv, TypeOK, Session
  <2>. QED
    BY <1>3, <1>4, <1>6, <2>1, <2>2, <2>3, <2>4
      DEF Run, Work, Submit, PollAnswered, Normalize, Index, Submitted, SubmitRejected, PollUnchanged,
          PollWaiting, PollDone, PollFailed, NormalizeSkipped, Normalized, NormalizedEmpty, MoveOn,
          Fail, GiveUp, InsertChunks, InsertNothing, NoActiveChunks, EmbedFailed, VectorsFailed,
          KeywordsFailed, Finish
<1>7. CASE \E f \in Files : Upload(f) \/ Retry(f)
  BY <1>1, <1>2, <1>7 DEF Upload, Retry, NewJob, Start, Fresh, TypeInv, TypeOK
<1>8. CASE WorkerNext
  BY <1>1, <1>2, <1>8 DEF WorkerNext, Start, Fresh, TypeInv, TypeOK
<1>9. CASE Crash
  BY <1>2, <1>9 DEF Crash, Idle, Fresh
<1>10. CASE UNCHANGED run
  BY <1>1, <1>10
<1>. QED
  BY <1>1, <1>5, <1>6, <1>7, <1>8, <1>9, <1>10
    DEF vars, Next, WorkerPoll, DeleteRequest, ReindexRequest, Delete, DeletePoints, DeleteDocuments,
        DeleteFailed, DeactivateDeleted, DeleteCommit, Reindex, ReindexDeactivate, ReindexVectors,
        ReindexKeywords

LEMMA NextFound ==
    ASSUME "delete" \notin Requests, TypeInv, TypeInv', SwapInv, VersionInv, FoundInv, [Next]_vars
    PROVE  FoundInv'
<1>1. deletion' = NoCall /\ IndexesGrow
  BY NextGrows DEF FoundInv
<1>2. \A q \in Runners : Upserted(q)'
  BY <1>1, NextUpserts DEF FoundInv
<1>3. ASSUME NEW f \in Files, f \notin overlapped', NEW g \in Retrievable(f)'
      PROVE  g \in bm25' /\ Pointed(g)'
  <2>1. f \notin Retired' /\ Visible(f)'
    BY <1>3 DEF Retired, Retrievable, Visible
  <2>2. ASSUME f \notin Retired, Retrievable(f)' = Retrievable(f)
        PROVE  g \in bm25' /\ Pointed(g)'
    <3>1. f \notin overlapped /\ g \in Retrievable(f) /\ g \in Gens
      BY <1>3, <2>2 DEF Retired, Retrievable, ActiveChunks, TypeInv, TypeOK
    <3>. QED
      BY <1>1, <3>1 DEF FoundInv, Findable, IndexesGrow, Pointed
  <2>3. CASE Serves(f)
    BY <2>1, <2>2, <2>3 DEF Serves
  <2>4. CASE PublishesNothing
    BY <1>3, <2>1, <2>3, <2>4 DEF PublishesNothing, Withdraws, Retires
  <2>5. ASSUME NEW r \in Runners, Finish(r) PROVE g \in bm25' /\ Pointed(g)'
    <3>1. PICK e : e = job[run[r].job].file
      OBVIOUS
    <3>2. /\ StepOn(r, e) /\ KeepsMarks(e) /\ overlapped' = overlapped /\ e \in Files
          /\ e \notin overlapped /\ ~file[e].deleted =>
                ActiveChunks(e)' = ActiveChunks(e) /\ run[r].gens = ActiveChunks(e)
      BY <2>5, <3>1, FinishKeeps
    <3>3. CASE f # e
      BY <2>3, <3>2, <3>3, StepSame, SameServes
    <3>4. CASE f = e
      <4>1. g \in run[r].gens /\ g \in Gens
        BY <1>3, <2>1, <3>2, <3>4 DEF Retrievable, Visible, KeepsMarks, ActiveChunks, TypeInv, TypeOK
      <4>2. g \in bm25 /\ Pointed(g)
        BY <2>5, <4>1 DEF FoundInv, Upserted, Finish
      <4>. QED
        BY <1>1, <4>1, <4>2 DEF IndexesGrow
    <3>. QED
      BY <3>3, <3>4
  <2>. QED
    BY <2>4, <2>5, NextVersion
<1>. QED
  BY <1>1, <1>2, <1>3 DEF FoundInv, Findable, Pointed

\* Where no file is deleted, every chunk an answer may use has its document in
\* OpenSearch and a point that the vector search takes, or a reindex has taken the
\* point out and not put it back: through failed upserts, retries and crashes.
\* With deletes this is false: a delete that fails before its commit has already
\* emptied the indexes.
THEOREM SearchFindsChunks == ASSUME "delete" \notin Requests PROVE Spec => []Findable
<1>1. Init => FoundInv
  BY HandlerIsBusy DEF Init, FoundInv, Upserted, Findable, Retrievable, Visible, Idle, Fresh
<1>2. TypeInv /\ TypeInv' /\ SwapInv /\ VersionInv /\ FoundInv /\ [Next]_vars => FoundInv'
  BY NextFound
<1>3. FoundInv => Findable
  BY DEF FoundInv
<1>. QED
  BY <1>1, <1>2, <1>3, SpecVersion, PTL DEF Spec
=============================================================================
