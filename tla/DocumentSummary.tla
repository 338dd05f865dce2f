-------------------------- MODULE DocumentSummary --------------------------
(***************************************************************************)
(* Document summaries: the rows of document_summaries and                  *)
(* chunk_knowledge_extractions, the worker that claims a summary under a   *)
(* lease and runs a task for it, and what happens meanwhile: retries by an *)
(* administrator, a new parse or a delete, a change of the model, a        *)
(* graceful stop, a crash.                                                 *)
(*                                                                         *)
(* Every function of the service is one short transaction, which reads     *)
(* without a lock, checks that its summary is current, and commits.  A     *)
(* retry, the saving of an answer and both ends of a task are two steps:   *)
(* what they read may be stale when they commit.  The other checks of a    *)
(* task are one step with their commit, because nothing they write when    *)
(* they are late outlives the next claim: it prepares every chunk that is  *)
(* not completed, and looks at no lease of a summary that is queued.       *)
(*                                                                         *)
(* A task is told from another by the worker's id alone, so two tasks of   *)
(* one process pass for each other.  `blurred' records the summaries that  *)
(* two tasks worked on, and those whose retry met another transaction      *)
(* between its read and its commit.                                        *)
(***************************************************************************)
EXTENDS Naturals, FiniteSets

CONSTANTS
    Summaries,    \* one per parse job, numbered as they are created
    Chunks,       \* the chunks of each
    Concurrency,  \* document_summary_document_concurrency
    MaxRetries,   \* bound: retries requested by administrators
    Models,       \* the models an administrator may configure
    NoModel,      \* the client is not configured
    MaxRestarts   \* bound: stops and crashes of the backend

ASSUME SummaryAssumption ==
    /\ Summaries \subseteq Nat \ {0}
    /\ IsFiniteSet(Chunks) /\ Chunks # {}
    /\ Concurrency \in Nat \ {0}
    /\ MaxRetries \in Nat
    /\ NoModel \notin Models
    /\ MaxRestarts \in Nat

VARIABLES
    parse,       \* the parse job of a summary: not chunked yet, chunked, superseded
    row,         \* document_summaries
    extraction,  \* chunk_knowledge_extractions
    task,        \* the tasks of the worker
    worker,      \* worker_id of the running process
    late,        \* worker_id of a claim that outlives its cancelled worker, or 0
    model,       \* the model configured, which the worker's client uses
    started,     \* the worker was started: a model was configured at the time
    retries,     \* retries so far
    request,     \* the retries that have read and not committed
    blurred      \* history: see above

vars == <<parse, row, extraction, task, worker, late, model, started, retries, request, blurred>>

-----------------------------------------------------------------------------
(* Types *)

Tasks == 1 .. Concurrency
Workers == 1 .. MaxRestarts + 1
Rounds == 0 .. MaxRetries

\* PRIORITY_MANUAL and PRIORITY_NEW_DOCUMENT
Manual == 0
NewDocument == 10

\* `blank' is completed with an answer whose short_summary is empty.
ChunkStatuses == {"pending", "running", "completed", "blank", "failed"}
EndedStatuses == {"completed", "partially_completed", "failed"}
SummaryStatuses == {"pending", "running", "not_ready"} \cup EndedStatuses

\* `text' is the set of chunks the summary text was made from.  `round' is the
\* number of the last forced retry, and is only read by properties.
Row == [status : SummaryStatuses \cup {"none"}, worker : Workers \cup {0},
        lease : {"none", "held", "expired"}, priority : {Manual, NewDocument},
        text : SUBSET Chunks, model : Models \cup {NoModel}, round : Rounds]

\* `round' is that of the summary when the chunk was last sent to the model.
Extraction == [status : ChunkStatuses \cup {"none"}, model : Models \cup {NoModel}, round : Rounds]

\* A call is `saving', and a task at `commit' or `fail', between check and commit.
CallStates == {"skip", "todo", "calling", "saving", "done"}
TaskPcs == {"free", "prepare", "chunks", "reduce", "commit", "empty", "fail"}

Task == [pc : TaskPcs, summary : Summaries \cup {0}, model : Models \cup {NoModel},
         call : [Chunks -> CallStates], text : SUBSET Chunks, status : EndedStatuses]

\* What a retry has read: whether there are chunks, the row, the status of each chunk.
Requests == 1 .. MaxRetries
Request == [summary : Summaries \cup {0}, force : BOOLEAN, ready : BOOLEAN,
            status : SummaryStatuses \cup {"none"}, worker : Workers \cup {0},
            text : SUBSET Chunks, chunk : [Chunks -> ChunkStatuses \cup {"none"}]]

TypeOK ==
    /\ parse \in [Summaries -> {"waiting", "chunked", "superseded"}]
    /\ row \in [Summaries -> Row]
    /\ extraction \in [Summaries -> [Chunks -> Extraction]]
    /\ task \in [Tasks -> Task]
    /\ worker \in Workers
    /\ late \in Workers \cup {0}
    /\ model \in Models \cup {NoModel}
    /\ started \in BOOLEAN
    /\ retries \in 0 .. MaxRetries
    /\ request \in [Requests -> Request]
    /\ blurred \in SUBSET Summaries

-----------------------------------------------------------------------------
(* Rows *)

\* The latest parse job of a file that is not deleted.
Live(s) == parse[s] # "superseded"

WithStatus(s, status) == {c \in Chunks : extraction[s][c].status = status}

\* Faulty variant: the status a parse job would have.
QueuedLikeJob(s) ==
    [row[s] EXCEPT !.status = "queued", !.worker = 0, !.lease = "none", !.text = {}]

\* A row that waits for a worker.
Queued(s) == [row[s] EXCEPT !.status = "pending", !.worker = 0, !.lease = "none", !.text = {}]

\* A write that renews the lease: every transaction of a current task.
Renewed(s) == [row[s] EXCEPT !.lease = "held"]

outside == <<parse, worker, late, model, started, retries, request, blurred>>

-----------------------------------------------------------------------------
(* Requests and the parse pipeline *)

\* Chunking commits the chunks and, unless that fails, the summary to make.  A
\* row there is comes from a retry, which has the higher priority.
Chunk(s) ==
    /\ parse[s] = "waiting"
    /\ parse' = [parse EXCEPT ![s] = "chunked"]
    /\ \/ /\ row' = [row EXCEPT ![s] = Queued(s)]
          /\ extraction' = [extraction EXCEPT ![s] =
                                [c \in Chunks |-> [@[c] EXCEPT !.status = "pending"]]]
       \/ UNCHANGED <<row, extraction>>
    /\ UNCHANGED <<task, worker, late, model, started, retries, request, blurred>>

\* The file is parsed again or deleted.
Supersede(s) ==
    /\ Live(s)
    /\ parse' = [parse EXCEPT ![s] = "superseded"]
    /\ UNCHANGED <<row, extraction, task, worker, late, model, started, retries, request, blurred>>

NoRow == [status |-> "none", worker |-> 0, lease |-> "none", priority |-> NewDocument,
          text |-> {}, model |-> NoModel, round |-> 0]

NoRequest == [summary |-> 0, force |-> FALSE, ready |-> FALSE, status |-> "none",
              worker |-> 0, text |-> {}, chunk |-> [c \in Chunks |-> "none"]]

\* POST /files/{id}/summary/retry: the reads of enqueue_document_summary.
AskRetry(s, force) ==
    /\ retries < MaxRetries
    /\ Live(s)
    /\ retries' = retries + 1
    /\ request' = [request EXCEPT ![retries + 1] =
            [summary |-> s, force |-> force, ready |-> parse[s] = "chunked",
             status |-> row[s].status, worker |-> row[s].worker, text |-> row[s].text,
             chunk |-> [c \in Chunks |-> extraction[s][c].status]]]
    /\ UNCHANGED <<parse, row, extraction, task, worker, late, model, started, blurred>>

\* The session writes a column only if it gave it another value than it read.
Written(read, new, now) == IF new = read THEN now ELSE new

\* What it would insert was inserted by another: a unique constraint refuses it.
Conflicts(i) ==
    LET q == request[i]
        s == q.summary
    IN \/ q.status = "none" /\ row[s].status # "none"
       \/ q.ready /\ \E c \in Chunks : q.chunk[c] = "none" /\ extraction[s][c].status # "none"

\* A file without chunks is not ready, and stays so.
RetryUnready(i) ==
    LET q == request[i]
        s == q.summary
    IN /\ ~q.ready
       /\ row' = [row EXCEPT ![s].status = Written(q.status, "not_ready", @),
                             ![s].priority = Manual]
       /\ UNCHANGED extraction

\* A retry that is not forced reads the chunks that failed once more.
ResetStatus(i, c) ==
    LET q == request[i]
    IN IF q.force THEN Written(q.chunk[c], "pending", extraction[q.summary][c].status) ELSE "pending"

\* The summary is queued, and the chunks in S are to be extracted again.  A worker
\* and its lease come and go together.
RetryWrites(i, S) ==
    LET q == request[i]
        s == q.summary
    IN /\ q.ready
       /\ row' = [row EXCEPT ![s].status = Written(q.status, "pending", @),
                             ![s].worker = Written(q.worker, 0, @),
                             ![s].lease = IF q.worker = 0 THEN @ ELSE "none",
                             ![s].text = Written(q.text, {}, @),
                             ![s].priority = Manual,
                             ![s].round = IF q.force THEN i ELSE @]
       /\ extraction' = [extraction EXCEPT ![s] =
            [c \in Chunks |-> IF c \in S
                                THEN [extraction[s][c] EXCEPT !.status = ResetStatus(i, c)]
                                ELSE extraction[s][c]]]

\* The chunks that were missing, and those that have failed by then.
Unfinished(i) ==
    {c \in Chunks : request[i].chunk[c] = "none" \/ extraction[request[i].summary][c].status = "failed"}

\* Faulty variant: a forced retry only resets the chunks that failed.
RetryForgetsForce(i) == RetryWrites(i, Unfinished(i))

\* Every chunk when forced.
RetryReady(i) == RetryWrites(i, IF request[i].force THEN Chunks ELSE Unfinished(i))

\* A check of task t has succeeded whose commit is still to come.
Committing(t) ==
    \/ task[t].pc \in {"commit", "fail"}
    \/ task[t].pc = "chunks" /\ \E c \in Chunks : task[t].call[c] = "saving"

\* The summary has changed since retry i has read it.
Overtaken(i) ==
    LET q == request[i]
        s == q.summary
    IN \/ row[s].status # q.status \/ row[s].worker # q.worker \/ row[s].text # q.text
       \/ \E c \in Chunks : extraction[s][c].status # q.chunk[c]

\* The retry commits.
Retry(i) ==
    LET s == request[i].summary IN
    /\ s # 0
    /\ request' = [request EXCEPT ![i] = NoRequest]
    /\ IF Conflicts(i)
         THEN UNCHANGED <<row, extraction, blurred>>
         ELSE /\ RetryUnready(i) \/ RetryReady(i)
              /\ blurred' = IF Overtaken(i) \/ \E t \in Tasks : task[t].summary = s /\ Committing(t)
                              THEN blurred \cup {s} ELSE blurred
    /\ UNCHANGED <<parse, task, worker, late, model, started, retries>>

-----------------------------------------------------------------------------
(* The worker claims *)

NoTask == [pc |-> "free", summary |-> 0, model |-> NoModel, call |-> [c \in Chunks |-> "skip"],
           text |-> {}, status |-> "failed"]

\* Faulty variant: only summaries that are pending are claimed.
ClaimablePending(s) == Live(s) /\ row[s].status = "pending"

Claimable(s) ==
    /\ Live(s)
    /\ \/ row[s].status = "pending"
       \/ row[s].status = "running" /\ row[s].lease # "held"

\* ORDER BY priority, created_at
Before(p, q) ==
    \/ row[p].priority < row[q].priority
    \/ row[p].priority = row[q].priority /\ p < q

FirstInLine(s) == Claimable(s) /\ \A q \in Summaries \ {s} : Claimable(q) => Before(s, q)

Claimed(s, w) == [row[s] EXCEPT !.status = "running", !.worker = w, !.lease = "held"]

\* One summary of a batch; a batch is as many claims in a row.
Claim(t) ==
    /\ started
    /\ task[t].pc = "free"
    /\ \E s \in Summaries :
        /\ FirstInLine(s)
        /\ row' = [row EXCEPT ![s] = Claimed(s, worker)]
        /\ task' = [task EXCEPT ![t] = [NoTask EXCEPT !.pc = "prepare", !.summary = s,
                                                      !.model = model]]
        /\ blurred' = IF \E q \in Tasks : task[q].summary = s THEN blurred \cup {s} ELSE blurred
    /\ UNCHANGED <<parse, extraction, worker, late, model, started, retries, request>>

\* LEASE_DURATION has passed since the last write of a task.
LeaseExpires(s) ==
    /\ row[s].status = "running"
    /\ row[s].lease = "held"
    /\ row' = [row EXCEPT ![s].lease = "expired"]
    /\ UNCHANGED <<extraction, task, outside>>

-----------------------------------------------------------------------------
(* A task *)

\* The summary is this worker's and its parse job is still the latest.
IsCurrent(t) ==
    LET s == task[t].summary IN row[s].worker = worker /\ Live(s)

\* Faulty variant: chunks that were left running by a crash are not taken up.
ItemsForgetRunning(t) ==
    {c \in Chunks :
        LET e == extraction[task[t].summary][c] IN
        \/ e.status \in {"pending", "blank", "failed"}
        \/ e.status = "completed" /\ e.model # task[t].model}

\* The chunks of which there is no short summary by this model yet.
Items(t) ==
    {c \in Chunks :
        LET e == extraction[task[t].summary][c] IN
        ~(e.status = "completed" /\ e.model = task[t].model)}

Prepare(t) ==
    LET s == task[t].summary IN
    /\ task[t].pc = "prepare"
    /\ task[t].model # NoModel
    /\ task' = [task EXCEPT ![t].pc = "chunks",
                            ![t].call = [c \in Chunks |-> IF IsCurrent(t) /\ c \in Items(t)
                                                            THEN "todo" ELSE "skip"]]
    /\ row' = IF IsCurrent(t)
                THEN [row EXCEPT ![s] = [Renewed(s) EXCEPT !.model = task[t].model]] ELSE row
    /\ UNCHANGED <<extraction, outside>>

\* The chunk is marked and sent to the model.
MarkChunkRunning(t, c) ==
    LET s == task[t].summary IN
    /\ task[t].pc = "chunks"
    /\ task[t].call[c] = "todo"
    /\ IF IsCurrent(t)
         THEN /\ extraction' = [extraction EXCEPT ![s][c].status = "running",
                                                  ![s][c].round = row[s].round]
              /\ row' = [row EXCEPT ![s] = Renewed(s)]
              /\ task' = [task EXCEPT ![t].call[c] = "calling"]
         ELSE /\ task' = [task EXCEPT ![t].call[c] = "done"]
              /\ UNCHANGED <<extraction, row>>
    /\ UNCHANGED outside

\* The model has answered, or failed: the task is checked.
CheckChunk(t, c) ==
    /\ task[t].pc = "chunks"
    /\ task[t].call[c] = "calling"
    /\ task' = [task EXCEPT ![t].call[c] = IF IsCurrent(t) THEN "saving" ELSE "done"]
    /\ UNCHANGED <<row, extraction, outside>>

\* The answer, or the failure, is committed.
SaveChunk(t, c, status) ==
    LET s == task[t].summary IN
    /\ task[t].pc = "chunks"
    /\ task[t].call[c] = "saving"
    /\ task' = [task EXCEPT ![t].call[c] = "done"]
    /\ extraction' = [extraction EXCEPT ![s][c].status = status,
                                        ![s][c].model = task[t].model]
    /\ row' = [row EXCEPT ![s] = Renewed(s)]
    /\ UNCHANGED outside

SaveChunkSuccess(t, c) == SaveChunk(t, c, "completed") \/ SaveChunk(t, c, "blank")
SaveChunkFailure(t, c) == SaveChunk(t, c, "failed")

Free(t) == task' = [task EXCEPT ![t] = NoTask]

\* All chunks are answered: the short summaries there are are loaded.
LoadSources(t) ==
    LET s == task[t].summary IN
    /\ task[t].pc = "chunks"
    /\ \A c \in Chunks : task[t].call[c] \in {"skip", "done"}
    /\ IF IsCurrent(t)
         THEN /\ task' = [task EXCEPT ![t].text = WithStatus(s, "completed"),
                                      ![t].pc = IF WithStatus(s, "completed") = {}
                                                  THEN "empty" ELSE "reduce"]
              /\ row' = [row EXCEPT ![s] = Renewed(s)]
         ELSE Free(t) /\ UNCHANGED row
    /\ UNCHANGED <<extraction, outside>>

\* Faulty variant: a summary with a text is completed.
VerdictOnText(s) == "completed"

\* A chunk without a short summary counts as a success.
Verdict(s) ==
    IF WithStatus(s, "completed") \cup WithStatus(s, "blank") = Chunks
      THEN "completed" ELSE "partially_completed"

\* The model has answered, and the chunks are counted.
FinishSuccess(t) ==
    /\ task[t].pc = "reduce"
    /\ IF IsCurrent(t)
         THEN task' = [task EXCEPT ![t].pc = "commit", ![t].status = Verdict(task[t].summary)]
         ELSE Free(t)
    /\ UNCHANGED <<row, extraction, outside>>

FinishCommit(t) ==
    LET s == task[t].summary IN
    /\ task[t].pc = "commit"
    /\ row' = [row EXCEPT ![s].status = task[t].status, ![s].text = task[t].text,
                          ![s].model = task[t].model, ![s].worker = 0, ![s].lease = "none"]
    /\ Free(t)
    /\ UNCHANGED <<extraction, outside>>

\* There is no short summary, or the model failed on the document.
FinishFailure(t) ==
    /\ task[t].pc \in {"empty", "reduce"}
    /\ IF IsCurrent(t) THEN task' = [task EXCEPT ![t].pc = "fail"] ELSE Free(t)
    /\ UNCHANGED <<row, extraction, outside>>

FailureCommit(t) ==
    LET s == task[t].summary IN
    /\ task[t].pc = "fail"
    /\ row' = [row EXCEPT ![s].status = "failed", ![s].worker = 0, ![s].lease = "none"]
    /\ Free(t)
    /\ UNCHANGED <<extraction, outside>>

\* An answer that is no JSON, a client closed by a reload, or none at all ends the task.
TaskDies(t) ==
    /\ \/ task[t].pc = "reduce"
       \/ task[t].pc = "prepare" /\ task[t].model = NoModel
    /\ Free(t)
    /\ UNCHANGED <<row, extraction, outside>>

-----------------------------------------------------------------------------
(* The process *)

\* reload_client: tasks keep the client they were given.
ReloadClient ==
    /\ model' \in (Models \cup {NoModel}) \ {model}
    /\ UNCHANGED <<parse, row, extraction, task, worker, late, started, retries, request, blurred>>

\* stop: tasks are cancelled, what they hold is released, and the backend comes
\* back.  A claim that a thread is executing goes on; what the thread of a
\* cancelled task commits after its check it might have committed before.
Stop ==
    /\ worker <= MaxRestarts
    /\ LET held == {s \in Summaries : row[s].worker = worker /\ row[s].status = "running"} IN
       /\ row' = [s \in Summaries |->
                    IF s \in held
                      THEN [row[s] EXCEPT !.status = "pending", !.worker = 0, !.lease = "none"]
                      ELSE row[s]]
       /\ extraction' = [s \in Summaries |->
            IF s \in held
              THEN [c \in Chunks |-> IF extraction[s][c].status = "running"
                                       THEN [extraction[s][c] EXCEPT !.status = "pending"]
                                       ELSE extraction[s][c]]
              ELSE extraction[s]]
    /\ task' = [t \in Tasks |-> NoTask]
    /\ late' \in {0} \cup IF \E t \in Tasks : task[t].pc = "free" THEN {worker} ELSE {}
    /\ worker' = worker + 1
    /\ started' = (model # NoModel)
    /\ UNCHANGED <<parse, model, retries, request, blurred>>

\* The claim of a stopped worker commits: nobody will work on it.
LateClaim ==
    /\ late # 0
    /\ \E s \in Summaries : FirstInLine(s) /\ row' = [row EXCEPT ![s] = Claimed(s, late)]
    /\ late' = 0
    /\ UNCHANGED <<parse, extraction, task, worker, model, started, retries, request, blurred>>

\* The process dies and comes back.
Crash ==
    /\ worker <= MaxRestarts
    /\ task' = [t \in Tasks |-> NoTask]
    /\ late' = 0
    /\ worker' = worker + 1
    /\ started' = (model # NoModel)
    /\ request' = [i \in Requests |-> NoRequest]
    /\ UNCHANGED <<parse, row, extraction, model, retries, blurred>>

Init ==
    /\ parse = [s \in Summaries |-> "waiting"]
    /\ row = [s \in Summaries |-> NoRow]
    /\ extraction = [s \in Summaries |->
                        [c \in Chunks |-> [status |-> "none", model |-> NoModel, round |-> 0]]]
    /\ task = [t \in Tasks |-> NoTask]
    /\ worker = 1
    /\ late = 0
    /\ model \in Models \cup {NoModel}
    /\ started = (model # NoModel)
    /\ retries = 0
    /\ request = [i \in Requests |-> NoRequest]
    /\ blurred = {}

\* The model answers the last question of the task.
Reduced(t) == FinishSuccess(t) \/ FinishFailure(t)

Step(t) ==
    \/ Prepare(t)
    \/ \E c \in Chunks : \/ MarkChunkRunning(t, c) \/ CheckChunk(t, c)
                         \/ SaveChunkSuccess(t, c) \/ SaveChunkFailure(t, c)
    \/ LoadSources(t) \/ Reduced(t) \/ FinishCommit(t) \/ FailureCommit(t) \/ TaskDies(t)

Next ==
    \/ \E s \in Summaries : Chunk(s) \/ Supersede(s) \/ LeaseExpires(s)
    \/ \E s \in Summaries, force \in BOOLEAN : AskRetry(s, force)
    \/ \E i \in Requests : Retry(i)
    \/ \E t \in Tasks : Claim(t) \/ Step(t)
    \/ ReloadClient \/ Stop \/ LateClaim \/ Crash

Spec == Init /\ [][Next]_vars

-----------------------------------------------------------------------------
(* Fairness: the worker polls, its tasks run, time passes, and a model that *)
(* is asked about a document again and again gives an answer in the end.    *)

Fairness ==
    /\ WF_vars(\E t \in Tasks : Claim(t))
    /\ \A t \in Tasks : WF_vars(Step(t))
    /\ \A s \in Summaries :
        /\ WF_vars(LeaseExpires(s))
        /\ SF_vars(\E t \in Tasks : task[t].summary = s /\ Reduced(t))

FairSpec == Spec /\ Fairness

-----------------------------------------------------------------------------
(* Properties *)

Ended(s) == row[s].status \in EndedStatuses

\* A summary that is marked completed was made from every short summary there
\* is, and every chunk was answered by the model the summary names: also after
\* crashes in the middle, retries of failed chunks and a change of the model.  A
\* chunk with an empty answer counts as answered, and is not in the text.
CompletedCoversDocument ==
    \A s \in Summaries \ blurred :
        row[s].status = "completed" =>
            \A c \in Chunks :
                /\ extraction[s][c].status = "blank" \/ c \in row[s].text
                /\ extraction[s][c].model = row[s].model

\* When a summary has ended, none of its chunks is still waiting or running: a
\* crash, a stop or a lost lease leaves no chunk behind that nobody takes up.
EndedLeavesNoChunk ==
    \A s \in Summaries \ blurred :
        Ended(s) => \A c \in Chunks : extraction[s][c].status \in {"completed", "blank", "failed"}

\* After a forced retry, a summary is made from answers asked for since then.
ForcedRetryRebuilds ==
    \A s \in Summaries \ blurred :
        Ended(s) => \A c \in row[s].text : extraction[s][c].round = row[s].round

\* A queued or running summary ends, through crashes, stops and expired leases,
\* unless its file is parsed again or deleted or there is no client to ask.
SummaryEnds ==
    \A s \in Summaries :
        (row[s].status \in {"pending", "running"} /\ Live(s))
            ~> (Ended(s) \/ ~Live(s) \/ s \in blurred \/ model = NoModel \/ ~started)

\* SDD 1.5.1: every successful chunk summary goes into the document summary.
\* Not so when a retry lets the worker claim a summary that a task of its own
\* is still working on: the older task passes for the newer one and finishes it.
AllSuccessesMerged ==
    \A s \in Summaries : row[s].status = "completed" => WithStatus(s, "completed") \subseteq row[s].text
=============================================================================
