------------------------- MODULE DocumentSummaryProofs -------------------------
(***************************************************************************)
(* Proofs about DocumentSummary, for any number of summaries, chunks,      *)
(* concurrent tasks, models, retries, stops and crashes.                   *)
(***************************************************************************)
EXTENDS DocumentSummary, TLAPS

-----------------------------------------------------------------------------
(* Types *)

\* A task has a summary from its claim to its end.
TasksHaveSummaries == \A t \in Tasks : task[t].summary = 0 <=> task[t].pc = "free"

TypeInv == TypeOK /\ TasksHaveSummaries

LEMMA NoTaskType == NoTask \in Task /\ NoTask.pc = "free" /\ NoTask.summary = 0
  BY DEF NoTask, Task, TaskPcs, CallStates, EndedStatuses

LEMMA NoRequestType == NoRequest \in Request /\ NoRequest.summary = 0
  BY DEF NoRequest, Request

\* What a write to a task, or to the row of a summary, has to respect.
WritesTask(t, x) == task' = [task EXCEPT ![t] = x]
WritesRow(s, x) == row' = [row EXCEPT ![s] = x]

LEMMA TaskTyped ==
    ASSUME TypeInv, NEW t \in Tasks, NEW x \in Task, WritesTask(t, x),
           x.summary = 0 <=> x.pc = "free"
    PROVE  task' \in [Tasks -> Task] /\ TasksHaveSummaries'
  BY DEF TypeInv, TypeOK, TasksHaveSummaries, Tasks, WritesTask

LEMMA RowTyped ==
    ASSUME TypeInv, NEW s \in Summaries, NEW x \in Row, WritesRow(s, x)
    PROVE  row' \in [Summaries -> Row]
  BY DEF TypeInv, TypeOK, WritesRow

LEMMA QueuedType ==
    ASSUME TypeInv, NEW s \in Summaries
    PROVE  /\ Queued(s) \in Row
           /\ Queued(s).status = "pending" /\ Queued(s).worker = 0 /\ Queued(s).text = {}
<1>1. row[s] \in Row
  BY DEF TypeInv, TypeOK
<1>. QED
  BY <1>1 DEF Queued, Row, SummaryStatuses

\* A chunk whose status is written keeps the rest.
LEMMA StatusType ==
    ASSUME NEW e \in Extraction, NEW status \in ChunkStatuses \cup {"none"}
    PROVE  /\ [e EXCEPT !.status = status] \in Extraction
           /\ [e EXCEPT !.status = status].status = status
           /\ [e EXCEPT !.status = status].round = e.round
  BY DEF Extraction

LEMMA ChunkTypes ==
    ASSUME TypeInv, NEW s \in Summaries, Chunk(s)
    PROVE  TypeInv'
<1>1. parse' \in [Summaries -> {"waiting", "chunked", "superseded"}]
  BY DEF Chunk, TypeInv, TypeOK
<1>2. CASE UNCHANGED <<row, extraction>>
  BY <1>1, <1>2 DEF Chunk, TypeInv, TypeOK, TasksHaveSummaries
<1>3. CASE /\ row' = [row EXCEPT ![s] = Queued(s)]
           /\ extraction' = [extraction EXCEPT ![s] =
                                [c \in Chunks |-> [@[c] EXCEPT !.status = "pending"]]]
  <2>1. row' \in [Summaries -> Row]
    BY <1>3, QueuedType, RowTyped DEF WritesRow
  <2>2. \A c \in Chunks : [extraction[s][c] EXCEPT !.status = "pending"] \in Extraction
    <3>1. \A c \in Chunks : extraction[s][c] \in Extraction
      BY DEF TypeInv, TypeOK
    <3>. QED
      BY <3>1, StatusType DEF ChunkStatuses
  <2>3. extraction' \in [Summaries -> [Chunks -> Extraction]]
    BY <1>3, <2>2 DEF TypeInv, TypeOK
  <2>. QED
    BY <1>1, <2>1, <2>3 DEF Chunk, TypeInv, TypeOK, TasksHaveSummaries
<1>. QED
  BY <1>2, <1>3 DEF Chunk

LEMMA AskRetryTypes ==
    ASSUME TypeInv, NEW s \in Summaries, NEW force \in BOOLEAN, AskRetry(s, force)
    PROVE  TypeInv'
<1>. DEFINE chunk == [c \in Chunks |-> extraction[s][c].status]
            ready == parse[s] = "chunked"
            x == [summary |-> s, force |-> force, ready |-> ready, status |-> row[s].status,
                  worker |-> row[s].worker, text |-> row[s].text, chunk |-> chunk]
<1>1. /\ row[s].status \in SummaryStatuses \cup {"none"} /\ row[s].worker \in Workers \cup {0}
      /\ row[s].text \in SUBSET Chunks
      /\ \A c \in Chunks : extraction[s][c].status \in ChunkStatuses \cup {"none"}
  <2>1. row[s] \in Row /\ \A c \in Chunks : extraction[s][c] \in Extraction
    BY DEF TypeInv, TypeOK
  <2>. QED
    BY <2>1 DEF Row, Extraction
<1>2. chunk \in [Chunks -> ChunkStatuses \cup {"none"}] /\ ready \in BOOLEAN
  BY <1>1
<1>3. retries' \in 0 .. MaxRetries /\ request' = [request EXCEPT ![retries + 1] = x]
  BY SummaryAssumption DEF AskRetry, TypeInv, TypeOK
<1>. HIDE DEF chunk, ready
<1>4. x \in Request
  BY <1>1, <1>2 DEF Request
<1>. HIDE DEF x
<1>5. request' \in [Requests -> Request]
  BY <1>3, <1>4 DEF TypeInv, TypeOK
<1>. QED
  BY <1>3, <1>5 DEF AskRetry, TypeInv, TypeOK, TasksHaveSummaries

\* A retry writes the row and the chunks of its summary.
LEMMA RetryTypes ==
    ASSUME TypeInv, NEW i \in Requests, Retry(i)
    PROVE  TypeInv'
<1>. DEFINE q == request[i]
            s == request[i].summary
<1>1. /\ s \in Summaries /\ q \in Request /\ i \in Rounds
  <2>1. q \in Request /\ s # 0
    BY DEF Retry, TypeInv, TypeOK
  <2>2. i \in Rounds
    BY SummaryAssumption DEF Requests, Rounds
  <2>. QED
    BY <2>1, <2>2 DEF Request
<1>2. request' \in [Requests -> Request]
  BY NoRequestType DEF Retry, TypeInv, TypeOK
<1>3. /\ blurred' \in SUBSET Summaries
      /\ UNCHANGED <<parse, task, worker, late, model, started, retries>>
  BY <1>1 DEF Retry, TypeInv, TypeOK
<1>4. row' \in [Summaries -> Row] /\ extraction' \in [Summaries -> [Chunks -> Extraction]]
  <2>0. row[s] \in Row /\ \A c \in Chunks : extraction[s][c] \in Extraction
    BY <1>1 DEF TypeInv, TypeOK
  <2>1. CASE UNCHANGED <<row, extraction>>
    BY <2>1 DEF TypeInv, TypeOK
  <2>2. CASE RetryUnready(i)
    <3>. DEFINE x == [row[s] EXCEPT !.status = Written(q.status, "not_ready", @), !.priority = Manual]
    <3>1. x \in Row
      <4>1. Written(q.status, "not_ready", row[s].status) \in SummaryStatuses \cup {"none"}
        BY <2>0 DEF Written, Row, SummaryStatuses
      <4>. HIDE DEF q, s
      <4>. QED
        BY <2>0, <4>1 DEF Row
    <3>2. WritesRow(s, x)
      <4>1. row' = [row EXCEPT ![s].status = Written(q.status, "not_ready", @),
                               ![s].priority = Manual]
        BY <2>2 DEF RetryUnready
      <4>. HIDE DEF q, s
      <4>. QED
        BY <1>1, <2>0, <4>1 DEF WritesRow, TypeInv, TypeOK, Row
    <3>. HIDE DEF x, s
    <3>3. row' \in [Summaries -> Row]
      BY <1>1, <3>1, <3>2, RowTyped
    <3>. QED
      BY <2>2, <3>3 DEF RetryUnready, TypeInv, TypeOK
  <2>3. CASE RetryReady(i)
    <3>. DEFINE x == [row[s] EXCEPT !.status = Written(q.status, "pending", @),
                                    !.worker = Written(q.worker, 0, @),
                                    !.lease = IF q.worker = 0 THEN @ ELSE "none",
                                    !.text = Written(q.text, {}, @),
                                    !.priority = Manual,
                                    !.round = IF q.force THEN i ELSE @]
    <3>1. x \in Row
      <4>1. /\ Written(q.status, "pending", row[s].status) \in SummaryStatuses \cup {"none"}
            /\ Written(q.worker, 0, row[s].worker) \in Workers \cup {0}
            /\ (IF q.worker = 0 THEN row[s].lease ELSE "none") \in {"none", "held", "expired"}
            /\ Written(q.text, {}, row[s].text) \in SUBSET Chunks
            /\ (IF q.force THEN i ELSE row[s].round) \in Rounds
        BY <1>1, <2>0 DEF Written, Row, SummaryStatuses
      <4>. HIDE DEF q, s
      <4>. QED
        BY <2>0, <4>1 DEF Row
    <3>2. WritesRow(s, x)
      <4>1. row' = [row EXCEPT ![s].status = Written(q.status, "pending", @),
                               ![s].worker = Written(q.worker, 0, @),
                               ![s].lease = IF q.worker = 0 THEN @ ELSE "none",
                               ![s].text = Written(q.text, {}, @),
                               ![s].priority = Manual,
                               ![s].round = IF q.force THEN i ELSE @]
        BY <2>3 DEF RetryReady, RetryWrites
      <4>. HIDE DEF q, s
      <4>. QED
        BY <1>1, <2>0, <4>1 DEF WritesRow, TypeInv, TypeOK, Row
    <3>3. PICK S \in SUBSET Chunks : extraction' = [extraction EXCEPT ![s] =
              [c \in Chunks |->
                IF c \in S
                  THEN [extraction[s][c] EXCEPT !.status = ResetStatus(i, c)]
                  ELSE extraction[s][c]]]
      BY <2>3 DEF RetryReady, RetryWrites, Unfinished
    <3>4. ASSUME NEW c \in Chunks
          PROVE  [extraction[s][c] EXCEPT !.status = ResetStatus(i, c)] \in Extraction
      <4>1. extraction[s][c].status \in ChunkStatuses \cup {"none"}
        BY <2>0 DEF Extraction
      <4>2. ResetStatus(i, c) \in ChunkStatuses \cup {"none"}
        BY <4>1 DEF ResetStatus, Written, ChunkStatuses
      <4>. QED
        BY <2>0, <4>2, StatusType
    <3>. HIDE DEF x, s, q
    <3>5. row' \in [Summaries -> Row]
      BY <1>1, <3>1, <3>2, RowTyped
    <3>6. extraction' \in [Summaries -> [Chunks -> Extraction]]
      <4>. DEFINE f == [c \in Chunks |->
                IF c \in S THEN [extraction[s][c] EXCEPT !.status = ResetStatus(i, c)]
                           ELSE extraction[s][c]]
      <4>1. extraction' = [extraction EXCEPT ![s] = f]
        BY <3>3
      <4>2. f \in [Chunks -> Extraction]
        BY <2>0, <3>4
      <4>. HIDE DEF f
      <4>. QED
        BY <1>1, <4>1, <4>2 DEF TypeInv, TypeOK
    <3>. QED
      BY <3>5, <3>6
  <2>. QED
    BY <2>1, <2>2, <2>3 DEF Retry
<1>. QED
  BY <1>2, <1>3, <1>4 DEF TypeInv, TypeOK, TasksHaveSummaries

LEMMA RequestTypes ==
    ASSUME TypeInv, NEW s \in Summaries, Supersede(s) \/ LeaseExpires(s)
    PROVE  TypeInv'
<1>1. CASE Supersede(s)
  BY <1>1 DEF Supersede, TypeInv, TypeOK, TasksHaveSummaries
<1>2. CASE LeaseExpires(s)
  <2>. DEFINE x == [row[s] EXCEPT !.lease = "expired"]
  <2>1. x \in Row
    BY DEF Row, TypeInv, TypeOK
  <2>2. WritesRow(s, x)
    BY <1>2 DEF LeaseExpires, WritesRow
  <2>. HIDE DEF x
  <2>3. row' \in [Summaries -> Row]
    BY <2>1, <2>2, RowTyped
  <2>. QED
    BY <1>2, <2>3 DEF LeaseExpires, outside, TypeInv, TypeOK, TasksHaveSummaries
<1>. QED
  BY <1>1, <1>2

\* The steps of a task: each writes its own record, and at most one row and its
\* chunks.
LEMMA ClaimedType ==
    ASSUME TypeInv, NEW s \in Summaries, NEW w \in Workers
    PROVE  Claimed(s, w) \in Row
<1>1. row[s] \in Row
  BY DEF TypeInv, TypeOK
<1>. QED
  BY <1>1 DEF Claimed, Row, SummaryStatuses

LEMMA TaskSummary ==
    ASSUME TypeInv, NEW t \in Tasks, task[t].pc # "free"
    PROVE  /\ task[t] \in Task
           /\ task[t].summary \in Summaries /\ task[t].summary # 0
           /\ row[task[t].summary] \in Row
           /\ \A c \in Chunks : extraction[task[t].summary][c] \in Extraction
<1>1. task[t] \in Task /\ task[t].summary # 0
  BY DEF TypeInv, TypeOK, TasksHaveSummaries
<1>2. task[t].summary \in Summaries
  BY <1>1 DEF Task
<1>. QED
  BY <1>1, <1>2 DEF TypeInv, TypeOK

\* A task renews the lease when it writes, and may name its model.
LEMMA RenewedTyped ==
    ASSUME TypeInv, NEW t \in Tasks, task[t].pc # "free",
           \/ row' = row
           \/ row' = [row EXCEPT ![task[t].summary] = Renewed(task[t].summary)]
           \/ row' = [row EXCEPT ![task[t].summary] =
                            [Renewed(task[t].summary) EXCEPT !.model = task[t].model]]
    PROVE  row' \in [Summaries -> Row]
<1>. DEFINE s == task[t].summary
            x == Renewed(s)
            y == [Renewed(s) EXCEPT !.model = task[t].model]
<1>0. s \in Summaries
  BY TaskSummary
<1>1. x \in Row /\ y \in Row
  <2>1. row[s] \in Row /\ task[t].model \in Models \cup {NoModel}
    BY TaskSummary DEF Task
  <2>. HIDE DEF s
  <2>. QED
    BY <2>1 DEF Renewed, Row
<1>2. CASE row' = row
  BY <1>2 DEF TypeInv, TypeOK
<1>3. CASE WritesRow(s, x)
  <2>. HIDE DEF s, x
  <2>. QED
    BY <1>0, <1>1, <1>3, RowTyped
<1>4. CASE WritesRow(s, y)
  <2>. HIDE DEF s, y
  <2>. QED
    BY <1>0, <1>1, <1>4, RowTyped
<1>. QED
  BY <1>2, <1>3, <1>4 DEF WritesRow

LEMMA FreeTyped ==
    ASSUME TypeInv, NEW t \in Tasks, Free(t)
    PROVE  task' \in [Tasks -> Task] /\ TasksHaveSummaries'
<1>1. WritesTask(t, NoTask)
  BY DEF Free, WritesTask
<1>. QED
  BY <1>1, TaskTyped, NoTaskType

LEMMA ChunkCallTypes ==
    ASSUME TypeInv, NEW t \in Tasks, NEW c \in Chunks,
           MarkChunkRunning(t, c) \/ CheckChunk(t, c) \/ SaveChunkSuccess(t, c) \/ SaveChunkFailure(t, c)
    PROVE  TypeInv'
<1>. DEFINE s == task[t].summary
            x == [task[t] EXCEPT !.call[c] = "calling"]
            y == [task[t] EXCEPT !.call[c] = "done"]
            z == [task[t] EXCEPT !.call[c] = "saving"]
<1>0. /\ task[t].pc = "chunks"
      /\ UNCHANGED <<parse, worker, late, model, started, retries, request, blurred>>
  BY DEF MarkChunkRunning, CheckChunk, SaveChunkSuccess, SaveChunkFailure, SaveChunk, outside
<1>1. /\ x \in Task /\ x.pc = task[t].pc /\ x.summary = task[t].summary
      /\ y \in Task /\ y.pc = task[t].pc /\ y.summary = task[t].summary
      /\ z \in Task /\ z.pc = task[t].pc /\ z.summary = task[t].summary
  BY <1>0, TaskSummary DEF Task, CallStates
<1>2. WritesTask(t, x) \/ WritesTask(t, y) \/ WritesTask(t, z)
  BY DEF MarkChunkRunning, CheckChunk, SaveChunkSuccess, SaveChunkFailure, SaveChunk, WritesTask
<1>3. task' \in [Tasks -> Task] /\ TasksHaveSummaries'
  <2>1. x.summary = 0 <=> x.pc = "free"
    BY <1>1 DEF TypeInv, TasksHaveSummaries
  <2>2. y.summary = 0 <=> y.pc = "free"
    BY <1>1 DEF TypeInv, TasksHaveSummaries
  <2>3. z.summary = 0 <=> z.pc = "free"
    BY <1>1 DEF TypeInv, TasksHaveSummaries
  <2>. HIDE DEF x, y, z
  <2>. QED
    BY <1>1, <1>2, <2>1, <2>2, <2>3, TaskTyped
<1>4. row' \in [Summaries -> Row]
  <2>1. row' = row \/ row' = [row EXCEPT ![task[t].summary] = Renewed(task[t].summary)]
    BY DEF MarkChunkRunning, CheckChunk, SaveChunkSuccess, SaveChunkFailure, SaveChunk
  <2>. QED
    BY <1>0, <2>1, RenewedTyped
<1>5. extraction' \in [Summaries -> [Chunks -> Extraction]]
  <2>1. /\ [extraction[s][c] EXCEPT !.status = "running", !.round = row[s].round] \in Extraction
        /\ \A status \in ChunkStatuses :
              [extraction[s][c] EXCEPT !.status = status, !.model = task[t].model] \in Extraction
    <3>1. /\ extraction[s][c] \in Extraction /\ row[s].round \in Rounds
          /\ task[t].model \in Models \cup {NoModel}
      BY <1>0, TaskSummary DEF Row, Task
    <3>. HIDE DEF s
    <3>. QED
      BY <3>1 DEF Extraction, ChunkStatuses
  <2>2. \/ extraction' = extraction
        \/ extraction' = [extraction EXCEPT ![s][c] =
                            [extraction[s][c] EXCEPT !.status = "running", !.round = row[s].round]]
        \/ \E status \in ChunkStatuses : extraction' = [extraction EXCEPT ![s][c] =
                            [extraction[s][c] EXCEPT !.status = status, !.model = task[t].model]]
    <3>1. s \in Summaries /\ extraction \in [Summaries -> [Chunks -> Extraction]]
      BY <1>0, TaskSummary DEF TypeInv, TypeOK
    <3>2. CASE MarkChunkRunning(t, c)
      <4>1. \/ extraction' = extraction
            \/ extraction' = [extraction EXCEPT ![s][c].status = "running", ![s][c].round = row[s].round]
        BY <3>2 DEF MarkChunkRunning
      <4>2. [extraction EXCEPT ![s][c].status = "running", ![s][c].round = row[s].round] =
              [extraction EXCEPT ![s][c] =
                  [extraction[s][c] EXCEPT !.status = "running", !.round = row[s].round]]
        <5>. HIDE DEF s
        <5>. QED
          BY <3>1 DEF Extraction
      <4>. QED
        BY <4>1, <4>2
    <3>3. ASSUME NEW status \in {"completed", "blank", "failed"}, SaveChunk(t, c, status)
          PROVE  extraction' = [extraction EXCEPT ![s][c] =
                            [extraction[s][c] EXCEPT !.status = status, !.model = task[t].model]]
      <4>1. extraction' = [extraction EXCEPT ![s][c].status = status, ![s][c].model = task[t].model]
        BY <3>3 DEF SaveChunk
      <4>. HIDE DEF s
      <4>. QED
        BY <3>1, <4>1 DEF Extraction
    <3>4. CASE CheckChunk(t, c)
      BY <3>4 DEF CheckChunk
    <3>. QED
      BY <3>2, <3>3, <3>4 DEF SaveChunkSuccess, SaveChunkFailure, ChunkStatuses
  <2>3. ASSUME NEW e \in Extraction, extraction' = [extraction EXCEPT ![s][c] = e]
        PROVE  extraction' \in [Summaries -> [Chunks -> Extraction]]
    <3>1. s \in Summaries
      BY <1>0, TaskSummary
    <3>. HIDE DEF s
    <3>. QED
      BY <2>3, <3>1 DEF TypeInv, TypeOK
  <2>. HIDE DEF s
  <2>4. CASE extraction' = extraction
    BY <2>4 DEF TypeInv, TypeOK
  <2>. QED
    BY <2>1, <2>2, <2>3, <2>4
<1>. QED
  BY <1>0, <1>3, <1>4, <1>5 DEF TypeInv, TypeOK

LEMMA TaskStageTypes ==
    ASSUME TypeInv, NEW t \in Tasks,
           Prepare(t) \/ LoadSources(t) \/ Reduced(t) \/ TaskDies(t)
    PROVE  TypeInv'
<1>0. /\ task[t].pc # "free"
      /\ UNCHANGED <<parse, extraction, worker, late, model, started, retries, request, blurred>>
  BY DEF Prepare, LoadSources, Reduced, FinishSuccess, FinishFailure, TaskDies, outside
<1>1. task' \in [Tasks -> Task] /\ TasksHaveSummaries'
  <2>0. task[t] \in Task /\ task[t].summary \in Summaries /\ task[t].summary # 0
    BY <1>0, TaskSummary
  <2>1. CASE Free(t)
    BY <2>1, FreeTyped
  <2>2. CASE Prepare(t)
    <3>. DEFINE call == [c \in Chunks |-> IF IsCurrent(t) /\ c \in Items(t) THEN "todo" ELSE "skip"]
                x == [task[t] EXCEPT !.pc = "chunks", !.call = call]
    <3>1. WritesTask(t, x)
      BY <2>0, <2>2 DEF Prepare, WritesTask, Task
    <3>2. call \in [Chunks -> CallStates]
      BY DEF CallStates
    <3>. HIDE DEF call
    <3>3. x \in Task /\ x.pc = "chunks" /\ x.summary = task[t].summary
      BY <2>0, <3>2 DEF Task, TaskPcs
    <3>. HIDE DEF x
    <3>. QED
      BY <2>0, <3>1, <3>3, TaskTyped
  <2>3. CASE LoadSources(t) /\ ~Free(t)
    <3>. DEFINE text == WithStatus(task[t].summary, "completed")
                pc == IF WithStatus(task[t].summary, "completed") = {} THEN "empty" ELSE "reduce"
                x == [task[t] EXCEPT !.text = text, !.pc = pc]
    <3>1. WritesTask(t, x)
      BY <2>0, <2>3 DEF LoadSources, WritesTask, Task
    <3>2. text \in SUBSET Chunks /\ pc \in {"empty", "reduce"}
      BY DEF WithStatus
    <3>. HIDE DEF text, pc
    <3>3. x \in Task /\ x.pc # "free" /\ x.summary = task[t].summary
      BY <2>0, <3>2 DEF Task, TaskPcs
    <3>. HIDE DEF x
    <3>. QED
      BY <2>0, <3>1, <3>3, TaskTyped
  <2>4. CASE FinishSuccess(t) /\ ~Free(t)
    <3>. DEFINE verdict == Verdict(task[t].summary)
                x == [task[t] EXCEPT !.pc = "commit", !.status = verdict]
    <3>1. WritesTask(t, x)
      BY <2>0, <2>4 DEF FinishSuccess, WritesTask, Task
    <3>2. verdict \in EndedStatuses
      BY DEF Verdict, EndedStatuses
    <3>. HIDE DEF verdict
    <3>3. x \in Task /\ x.pc = "commit" /\ x.summary = task[t].summary
      BY <2>0, <3>2 DEF Task, TaskPcs
    <3>. HIDE DEF x
    <3>. QED
      BY <2>0, <3>1, <3>3, TaskTyped
  <2>5. CASE FinishFailure(t) /\ ~Free(t)
    <3>. DEFINE x == [task[t] EXCEPT !.pc = "fail"]
    <3>1. WritesTask(t, x)
      BY <2>5 DEF FinishFailure, WritesTask
    <3>2. x \in Task /\ x.pc = "fail" /\ x.summary = task[t].summary
      BY <2>0 DEF Task, TaskPcs
    <3>. HIDE DEF x
    <3>. QED
      BY <2>0, <3>1, <3>2, TaskTyped
  <2>. QED
    BY <2>1, <2>2, <2>3, <2>4, <2>5 DEF TaskDies, Reduced
<1>2. row' \in [Summaries -> Row]
  <2>1. \/ row' = row
        \/ row' = [row EXCEPT ![task[t].summary] = Renewed(task[t].summary)]
        \/ row' = [row EXCEPT ![task[t].summary] =
                        [Renewed(task[t].summary) EXCEPT !.model = task[t].model]]
    BY DEF Prepare, LoadSources, Reduced, FinishSuccess, FinishFailure, TaskDies
  <2>. QED
    BY <1>0, <2>1, RenewedTyped
<1>. QED
  BY <1>0, <1>1, <1>2 DEF TypeInv, TypeOK

LEMMA TaskEndTypes ==
    ASSUME TypeInv, NEW t \in Tasks, FinishCommit(t) \/ FailureCommit(t)
    PROVE  TypeInv'
<1>0. /\ task[t].pc # "free" /\ Free(t)
      /\ UNCHANGED <<parse, extraction, worker, late, model, started, retries, request, blurred>>
  BY DEF FinishCommit, FailureCommit, outside
<1>. DEFINE s == task[t].summary
            x == [row[s] EXCEPT !.status = task[t].status, !.text = task[t].text,
                                !.model = task[t].model, !.worker = 0, !.lease = "none"]
            y == [row[s] EXCEPT !.status = "failed", !.worker = 0, !.lease = "none"]
<1>1. s \in Summaries /\ row[s] \in Row /\ task[t] \in Task
  BY <1>0, TaskSummary
<1>2. WritesRow(s, x) \/ WritesRow(s, y)
  <2>. HIDE DEF s
  <2>. QED
    BY <1>1 DEF FinishCommit, FailureCommit, WritesRow, TypeInv, TypeOK, s
<1>3. x \in Row /\ y \in Row
  <2>1. /\ task[t].status \in EndedStatuses /\ task[t].text \in SUBSET Chunks
        /\ task[t].model \in Models \cup {NoModel}
    BY <1>1 DEF Task
  <2>. HIDE DEF s
  <2>. QED
    BY <1>1, <2>1 DEF Row, SummaryStatuses, EndedStatuses
<1>4. row' \in [Summaries -> Row]
  <2>. HIDE DEF s, x, y
  <2>. QED
    BY <1>1, <1>2, <1>3, RowTyped
<1>. QED
  BY <1>0, <1>4, FreeTyped DEF TypeInv, TypeOK

LEMMA ProcessTypes ==
    ASSUME TypeInv,
           ReloadClient \/ Stop \/ LateClaim \/ Crash \/ \E t \in Tasks : Claim(t)
    PROVE  TypeInv'
<1>0. [t \in Tasks |-> NoTask] \in [Tasks -> Task]
  BY NoTaskType
<1>1. CASE ReloadClient
  BY <1>1 DEF ReloadClient, TypeInv, TypeOK, TasksHaveSummaries
<1>2. worker \in Workers /\ MaxRestarts \in Nat
  BY SummaryAssumption DEF TypeInv, TypeOK
<1>3. CASE Crash
  <2>1. worker' \in Workers /\ late' = 0 /\ started' \in BOOLEAN
    BY <1>2, <1>3 DEF Crash, Workers
  <2>. QED
    BY <1>0, <1>3, <2>1, NoTaskType, NoRequestType DEF Crash, TypeInv, TypeOK, TasksHaveSummaries
<1>4. CASE Stop
  <2>1. worker' \in Workers /\ late' \in Workers \cup {0} /\ started' \in BOOLEAN
    <3>1. worker' \in Workers /\ started' \in BOOLEAN
      <4>1. /\ worker <= MaxRestarts /\ worker' = worker + 1
            /\ started' = (model # NoModel)
        BY <1>4 DEF Stop
      <4>2. worker' \in Workers
        BY <1>2, <4>1 DEF Workers
      <4>. QED
        BY <4>1, <4>2
    <3>2. late' \in {0, worker}
      <4>1. CASE \E t \in Tasks : task[t].pc = "free"
        BY <1>4, <4>1 DEF Stop
      <4>2. CASE ~\E t \in Tasks : task[t].pc = "free"
        BY <1>4, <4>2 DEF Stop
      <4>. QED
        BY <4>1, <4>2
    <3>. QED
      BY <1>2, <3>1, <3>2
  <2>2. row' \in [Summaries -> Row]
    <3>1. \A s \in Summaries :
            [row[s] EXCEPT !.status = "pending", !.worker = 0, !.lease = "none"] \in Row
      <4>. SUFFICES ASSUME NEW s \in Summaries
                    PROVE  [row[s] EXCEPT !.status = "pending", !.worker = 0, !.lease = "none"] \in Row
        OBVIOUS
      <4>1. row[s] \in Row
        BY DEF TypeInv, TypeOK
      <4>. QED
        BY <4>1 DEF Row, SummaryStatuses
    <3>. QED
      BY <1>4, <3>1 DEF Stop, TypeInv, TypeOK
  <2>3. extraction' \in [Summaries -> [Chunks -> Extraction]]
    <3>1. \A s \in Summaries : \A c \in Chunks :
            [extraction[s][c] EXCEPT !.status = "pending"] \in Extraction
      <4>. SUFFICES ASSUME NEW s \in Summaries, NEW c \in Chunks
                    PROVE  [extraction[s][c] EXCEPT !.status = "pending"] \in Extraction
        OBVIOUS
      <4>1. extraction[s][c] \in Extraction
        BY DEF TypeInv, TypeOK
      <4>. QED
        BY <4>1 DEF Extraction, ChunkStatuses
    <3>. QED
      BY <1>4, <3>1 DEF Stop, TypeInv, TypeOK
  <2>. QED
    BY <1>0, <1>4, <2>1, <2>2, <2>3, NoTaskType
       DEF Stop, TypeInv, TypeOK, TasksHaveSummaries
<1>5. CASE LateClaim
  <2>1. PICK s \in Summaries : WritesRow(s, Claimed(s, late))
    BY <1>5 DEF LateClaim, WritesRow
  <2>2. late \in Workers
    BY <1>5 DEF LateClaim, TypeInv, TypeOK
  <2>3. row' \in [Summaries -> Row]
    BY <1>2, <2>1, <2>2, ClaimedType, RowTyped
  <2>. QED
    BY <1>5, <2>3 DEF LateClaim, TypeInv, TypeOK, TasksHaveSummaries
<1>6. ASSUME NEW t \in Tasks, Claim(t) PROVE TypeInv'
  <2>1. PICK s \in Summaries :
          /\ WritesRow(s, Claimed(s, worker))
          /\ task' = [task EXCEPT ![t] = [NoTask EXCEPT !.pc = "prepare", !.summary = s,
                                                        !.model = model]]
          /\ blurred' \in {blurred, blurred \cup {s}}
    BY <1>6 DEF Claim, WritesRow
  <2>3. row' \in [Summaries -> Row]
    BY <1>2, <2>1, ClaimedType, RowTyped
  <2>4. task' \in [Tasks -> Task] /\ TasksHaveSummaries'
    <3>. DEFINE x == [NoTask EXCEPT !.pc = "prepare", !.summary = s, !.model = model]
    <3>1. x \in Task /\ x.pc = "prepare" /\ x.summary = s /\ s # 0
      BY SummaryAssumption, NoTaskType DEF Task, TaskPcs, TypeInv, TypeOK
    <3>2. WritesTask(t, x)
      BY <2>1 DEF WritesTask
    <3>. HIDE DEF x
    <3>. QED
      BY <3>1, <3>2, TaskTyped
  <2>. QED
    BY <1>6, <2>1, <2>3, <2>4 DEF Claim, TypeInv, TypeOK
<1>. QED
  BY <1>1, <1>3, <1>4, <1>5, <1>6

LEMMA InitTypes == Init => TypeInv
<1>. SUFFICES ASSUME Init PROVE TypeInv
  OBVIOUS
<1>1. row \in [Summaries -> Row]
  BY SummaryAssumption DEF Init, NoRow, Row, SummaryStatuses, Rounds
<1>2. extraction \in [Summaries -> [Chunks -> Extraction]]
  BY SummaryAssumption DEF Init, Extraction, Rounds
<1>3. task \in [Tasks -> Task] /\ TasksHaveSummaries
  BY NoTaskType DEF Init, TasksHaveSummaries
<1>4. /\ parse \in [Summaries -> {"waiting", "chunked", "superseded"}]
      /\ worker \in Workers /\ late \in Workers \cup {0}
      /\ model \in Models \cup {NoModel} /\ started \in BOOLEAN
      /\ retries \in 0 .. MaxRetries /\ blurred \in SUBSET Summaries
      /\ request \in [Requests -> Request]
  BY SummaryAssumption, NoRequestType DEF Init, Workers
<1>. QED
  BY <1>1, <1>2, <1>3, <1>4 DEF TypeInv, TypeOK

LEMMA NextTypes == TypeInv /\ [Next]_vars => TypeInv'
<1>. SUFFICES ASSUME TypeInv, [Next]_vars PROVE TypeInv'
  OBVIOUS
<1>1. CASE UNCHANGED vars
  BY <1>1 DEF vars, TypeInv, TypeOK, TasksHaveSummaries
<1>2. ASSUME NEW t \in Tasks, Step(t) PROVE TypeInv'
  BY <1>2, ChunkCallTypes, TaskStageTypes, TaskEndTypes DEF Step
<1>. QED
  BY <1>1, <1>2, ChunkTypes, AskRetryTypes, RetryTypes, RequestTypes, ProcessTypes DEF Next

\* Rows, chunks and tasks keep their types, and a task has a row to write to.
THEOREM SummaryTypes == Spec => []TypeOK
<1>1. TypeInv => TypeOK
  BY DEF TypeInv
<1>. QED
  BY <1>1, InitTypes, NextTypes, PTL DEF Spec

-----------------------------------------------------------------------------
(* Who works on a summary *)

\* A summary is not queued before its file has chunks.
NotQueuedEarly ==
    \A s \in Summaries : parse[s] = "waiting" => row[s].status \in {"none", "not_ready"}

\* An open retry found its file ready when it has chunks, and the other way round
\* a row that was not queued.
RequestsRight ==
    \A i \in Requests :
        request[i].summary # 0 =>
            IF request[i].ready THEN parse[request[i].summary] # "waiting"
                                ELSE request[i].status \in {"none", "not_ready"}

\* A row names a worker only while it is running, and has a text only when it has
\* ended.
RowOK(s) ==
    /\ row[s].worker # 0 => row[s].status = "running"
    /\ ~Ended(s) => row[s].text = {}

\* What was sent to the model was sent since the last forced retry.
RoundsAgree(s) ==
    \A c \in Chunks :
        extraction[s][c].status \notin {"none", "pending"} =>
            extraction[s][c].round = row[s].round

\* The properties of a summary that has ended.
EndedWhole(s) ==
    /\ Ended(s) => \A c \in Chunks : extraction[s][c].status \in {"completed", "blank", "failed"}
    /\ row[s].status = "completed" =>
            \A c \in Chunks :
                /\ extraction[s][c].status = "blank" \/ c \in row[s].text
                /\ extraction[s][c].model = row[s].model

\* Two tasks work on one summary only if it is blurred.
OneTask ==
    \A t, q \in Tasks :
        t # q /\ task[t].pc # "free" /\ task[t].summary = task[q].summary =>
            task[t].summary \in blurred

TasksChunked == \A t \in Tasks : task[t].pc # "free" => parse[task[t].summary] # "waiting"

\* The model of the task has answered for chunk c, or failed.
Answered(t, c) ==
    /\ extraction[task[t].summary][c].status \in {"completed", "blank", "failed"}
    /\ extraction[task[t].summary][c].model = task[t].model

\* How far a task is.  When it has lost its summary this may be untrue, save
\* between a check and its commit, which does not ask again.
Progress(t) ==
    /\ task[t].pc = "chunks" /\ IsCurrent(t) =>
            \A c \in Chunks :
                /\ task[t].call[c] \in {"skip", "done"} => Answered(t, c)
                /\ task[t].call[c] = "calling" =>
                        extraction[task[t].summary][c].status = "running"
    /\ task[t].pc = "chunks" =>
            \A c \in Chunks :
                task[t].call[c] = "saving" => extraction[task[t].summary][c].status = "running"
    /\ (task[t].pc \in {"reduce", "empty"} /\ IsCurrent(t)) \/ task[t].pc \in {"commit", "fail"} =>
            /\ \A c \in Chunks : Answered(t, c)
            /\ task[t].text = WithStatus(task[t].summary, "completed")
    /\ task[t].pc = "commit" => task[t].status = Verdict(task[t].summary)

WorkInv ==
    /\ TypeInv
    /\ late # worker
    /\ NotQueuedEarly /\ RequestsRight
    /\ \A s \in Summaries \ blurred : RowOK(s) /\ RoundsAgree(s) /\ EndedWhole(s)
    /\ OneTask /\ TasksChunked
    /\ \A t \in Tasks : task[t].pc # "free" /\ task[t].summary \notin blurred => Progress(t)

-----------------------------------------------------------------------------
(* What a step leaves alone *)

\* What a row, its chunks and its parse job are like after a step.
RowsRight(s) ==
    /\ parse[s] = "waiting" => row[s].status \in {"none", "not_ready"}
    /\ s \notin blurred => RowOK(s) /\ RoundsAgree(s) /\ EndedWhole(s)

LEMMA RowKept ==
    ASSUME WorkInv, NEW s \in Summaries,
           row'[s] = row[s], extraction'[s] = extraction[s],
           parse'[s] = parse[s] \/ parse'[s] # "waiting", blurred \subseteq blurred'
    PROVE  RowsRight(s)'
  BY DEF WorkInv, NotQueuedEarly, RowsRight, RowOK, RoundsAgree, EndedWhole, Ended

LEMMA RequestsKept ==
    ASSUME WorkInv, request' = request,
           \A s \in Summaries : parse'[s] = parse[s] \/ parse'[s] # "waiting"
    PROVE  RequestsRight'
<1>1. \A i \in Requests : request[i].summary # 0 => request[i].summary \in Summaries
  BY DEF WorkInv, TypeInv, TypeOK, Request
<1>. QED
  BY <1>1 DEF WorkInv, RequestsRight

\* A task that does nothing gets no further, and may lose its summary.
LEMMA ProgressKept ==
    ASSUME WorkInv, NEW t \in Tasks, task[t].pc # "free",
           task'[t] = task[t], task[t].summary \notin blurred',
           \/ extraction'[task[t].summary] = extraction[task[t].summary] /\ blurred \subseteq blurred'
           \/ ~IsCurrent(t)' /\ ~Committing(t),
           IsCurrent(t)' => IsCurrent(t)
    PROVE  Progress(t)'
<1>1. CASE ~IsCurrent(t)' /\ ~Committing(t)
  BY <1>1 DEF Progress, Committing
<1>2. CASE extraction'[task[t].summary] = extraction[task[t].summary] /\ blurred \subseteq blurred'
  <2>1. Progress(t)
    BY <1>2 DEF WorkInv
  <2>. QED
    BY <1>2, <2>1 DEF Progress, Answered, WithStatus, Verdict
<1>. QED
  BY <1>1, <1>2

\* A step of task t touches its own record, and the row and chunks of its summary.
StepOf(t) ==
    /\ \A q \in Tasks \ {t} : task'[q] = task[q]
    /\ \A q \in Summaries \ {task[t].summary} :
            row'[q] = row[q] /\ extraction'[q] = extraction[q]
    /\ task'[t].pc # "free" => task'[t].summary = task[t].summary
    /\ UNCHANGED outside

LEMMA TaskKeeps ==
    ASSUME WorkInv, TypeInv', NEW t \in Tasks, task[t].pc # "free", StepOf(t),
           NEW s \in Summaries, s = task[t].summary,
           s \notin blurred =>
                /\ RowOK(s)' /\ RoundsAgree(s)' /\ EndedWhole(s)'
                /\ task'[t].pc # "free" => Progress(t)'
    PROVE  WorkInv'
<1>0. s # 0 /\ UNCHANGED <<parse, worker, late, request, blurred>>
  BY TaskSummary DEF WorkInv, StepOf, outside
<1>1. \A q \in Summaries : RowsRight(q)'
  <2>1. RowsRight(s)'
    BY <1>0 DEF WorkInv, TasksChunked, RowsRight
  <2>2. ASSUME NEW q \in Summaries \ {s} PROVE RowsRight(q)'
    <3>1. row'[q] = row[q] /\ extraction'[q] = extraction[q]
      BY DEF StepOf
    <3>. QED
      BY <1>0, <3>1, RowKept
  <2>. QED
    BY <2>1, <2>2
<1>2. OneTask' /\ TasksChunked'
  <2>1. \A q \in Tasks : task'[q].pc # "free" =>
            task[q].pc # "free" /\ task'[q].summary = task[q].summary
    BY DEF StepOf
  <2>2. \A q \in Tasks : task'[q].summary # 0 <=> task'[q].pc # "free"
    BY DEF TypeInv, TasksHaveSummaries
  <2>. QED
    BY <1>0, <2>1, <2>2 DEF WorkInv, OneTask, TasksChunked, TypeInv, TasksHaveSummaries
<1>3. ASSUME NEW q \in Tasks \ {t}, task'[q].pc # "free", task'[q].summary \notin blurred'
      PROVE  Progress(q)'
  <2>1. task'[q] = task[q]
    BY DEF StepOf
  <2>2. task[q].summary # s
    BY <1>0, <1>3, <2>1 DEF WorkInv, OneTask
  <2>3. task[q].summary \in Summaries
    BY <1>3, <2>1, TaskSummary DEF WorkInv
  <2>4. row'[task[q].summary] = row[task[q].summary] /\ extraction'[task[q].summary] = extraction[task[q].summary]
    BY <2>2, <2>3 DEF StepOf
  <2>5. IsCurrent(q)' => IsCurrent(q)
    BY <1>0, <2>1, <2>4 DEF IsCurrent, Live
  <2>. QED
    BY <1>0, <1>3, <2>1, <2>4, <2>5, ProgressKept
<1>4. RequestsRight'
  BY <1>0, RequestsKept
<1>. QED
  BY <1>0, <1>1, <1>2, <1>3, <1>4 DEF WorkInv, StepOf, RowsRight, NotQueuedEarly

LEMMA CurrentRuns ==
    ASSUME WorkInv, NEW t \in Tasks, task[t].pc # "free", IsCurrent(t), task[t].summary \notin blurred
    PROVE  row[task[t].summary].status = "running"
<1>1. task[t].summary \in Summaries /\ worker # 0
  BY TaskSummary DEF WorkInv, TypeInv, TypeOK, Workers
<1>. QED
  BY <1>1 DEF WorkInv, RowOK, IsCurrent

-----------------------------------------------------------------------------
(* The steps of a task *)

LEMMA PrepareKeeps ==
    ASSUME WorkInv, TypeInv', NEW t \in Tasks, Prepare(t)
    PROVE  WorkInv'
<1>. DEFINE r == task[t].summary
<1>0. PICK s \in Summaries : s = task[t].summary
  BY TaskSummary DEF Prepare, WorkInv
<1>1. /\ task[t].pc = "prepare" /\ task[t] \in Task /\ row[s] \in Row
      /\ row \in [Summaries -> Row] /\ task \in [Tasks -> Task]
      /\ UNCHANGED <<extraction, outside>>
  BY <1>0, TaskSummary DEF Prepare, WorkInv, TypeInv, TypeOK
<1>2. /\ task'[t].pc = "chunks" /\ task'[t].summary = s /\ task'[t].model = task[t].model
      /\ \A c \in Chunks : task'[t].call[c] = IF IsCurrent(t) /\ c \in Items(t) THEN "todo" ELSE "skip"
      /\ \A q \in Tasks \ {t} : task'[q] = task[q]
  BY <1>0, <1>1 DEF Prepare, Task
<1>3. /\ row'[s].worker = row[s].worker /\ row'[s].status = row[s].status
      /\ row'[s].text = row[s].text /\ row'[s].round = row[s].round
      /\ ~IsCurrent(t) => row' = row
      /\ \A q \in Summaries \ {s} : row'[q] = row[q]
  BY <1>0, <1>1 DEF Prepare, Renewed, Row
<1>4. StepOf(t)
  BY <1>0, <1>1, <1>2, <1>3 DEF StepOf
<1>6. ASSUME s \notin blurred
      PROVE  RowOK(s)' /\ RoundsAgree(s)' /\ EndedWhole(s)' /\ Progress(t)'
  <2>0. RowOK(s)'
    BY <1>3, <1>6 DEF WorkInv, RowOK, Ended
  <2>1. RoundsAgree(s)'
    BY <1>1, <1>3, <1>6 DEF WorkInv, RoundsAgree
  <2>2. EndedWhole(s)'
    <3>1. CASE IsCurrent(t)
      <4>1. row'[s].status = "running"
        BY <1>0, <1>1, <1>3, <1>6, <3>1, CurrentRuns
      <4>. QED
        BY <4>1 DEF EndedWhole, Ended, EndedStatuses
    <3>2. CASE ~IsCurrent(t)
      BY <1>1, <1>3, <1>6, <3>2 DEF WorkInv, EndedWhole, Ended
    <3>. QED
      BY <3>1, <3>2
  <2>3. IsCurrent(t)' => IsCurrent(t)
    BY <1>0, <1>1, <1>2, <1>3 DEF IsCurrent, Live, outside
  <2>4. ASSUME IsCurrent(t), NEW c \in Chunks, c \notin Items(t) PROVE Answered(t, c)'
    BY <1>0, <1>1, <1>2, <2>4 DEF Items, Answered
  <2>5. Progress(t)'
    BY <1>2, <2>3, <2>4 DEF Progress
  <2>. QED
    BY <2>0, <2>1, <2>2, <2>5
<1>. QED
  BY <1>0, <1>1, <1>4, <1>6, TaskKeeps

LEMMA ChunkCallKeeps ==
    ASSUME WorkInv, TypeInv', NEW t \in Tasks, NEW c \in Chunks,
           MarkChunkRunning(t, c) \/ CheckChunk(t, c) \/ SaveChunkSuccess(t, c) \/ SaveChunkFailure(t, c)
    PROVE  WorkInv'
<1>0. task[t].pc = "chunks" /\ UNCHANGED outside
  BY DEF MarkChunkRunning, CheckChunk, SaveChunkSuccess, SaveChunkFailure, SaveChunk
<1>1. PICK s \in Summaries : s = task[t].summary
  BY <1>0, TaskSummary DEF WorkInv
<1>2. /\ task[t] \in Task /\ row[s] \in Row /\ extraction[s][c] \in Extraction
      /\ row \in [Summaries -> Row] /\ task \in [Tasks -> Task]
      /\ extraction \in [Summaries -> [Chunks -> Extraction]]
  BY <1>0, <1>1, TaskSummary DEF WorkInv, TypeInv, TypeOK
<1>3. /\ task'[t].pc = "chunks" /\ task'[t].summary = s /\ task'[t].model = task[t].model
      /\ \A d \in Chunks \ {c} : task'[t].call[d] = task[t].call[d]
      /\ \A q \in Tasks \ {t} : task'[q] = task[q]
  BY <1>0, <1>1, <1>2 DEF MarkChunkRunning, CheckChunk, SaveChunkSuccess, SaveChunkFailure, SaveChunk, Task
<1>4. /\ row'[s].worker = row[s].worker /\ row'[s].status = row[s].status
      /\ row'[s].text = row[s].text /\ row'[s].round = row[s].round
      /\ row'[s].model = row[s].model
      /\ \A q \in Summaries \ {s} : row'[q] = row[q]
  <2>1. row' = row \/ row' = [row EXCEPT ![s] = [row[s] EXCEPT !.lease = "held"]]
    BY <1>1 DEF MarkChunkRunning, CheckChunk, SaveChunkSuccess, SaveChunkFailure, SaveChunk, Renewed
  <2>. QED
    BY <1>2, <2>1 DEF Row
<1>5. /\ \A q \in Summaries \ {s} : extraction'[q] = extraction[q]
      /\ \A d \in Chunks \ {c} : extraction'[s][d] = extraction[s][d]
  BY <1>1, <1>2 DEF MarkChunkRunning, CheckChunk, SaveChunkSuccess, SaveChunkFailure, SaveChunk
<1>6. StepOf(t)
  BY <1>0, <1>1, <1>3, <1>4, <1>5 DEF StepOf
<1>. SUFFICES ASSUME s \notin blurred
              PROVE  RowOK(s)' /\ RoundsAgree(s)' /\ EndedWhole(s)' /\ Progress(t)'
  BY <1>0, <1>1, <1>6, TaskKeeps
<1>7. /\ RowOK(s) /\ RoundsAgree(s) /\ EndedWhole(s)
      /\ IsCurrent(t) =>
            \A d \in Chunks : /\ task[t].call[d] \in {"skip", "done"} => Answered(t, d)
                              /\ task[t].call[d] = "calling" => extraction[s][d].status = "running"
      /\ \A d \in Chunks : task[t].call[d] = "saving" => extraction[s][d].status = "running"
  BY <1>0, <1>1 DEF WorkInv, Progress
<1>8. RowOK(s)'
  BY <1>4, <1>7 DEF RowOK, Ended
<1>9. IsCurrent(t)' <=> IsCurrent(t)
  BY <1>0, <1>1, <1>3, <1>4 DEF IsCurrent, Live, outside
\* What has to be shown of the chunk the step is about.
<1>10. ASSUME \/ /\ task'[t].call[c] \in {"calling", "saving"}
                 /\ extraction'[s][c].status = "running"
              \/ /\ task'[t].call[c] = "done"
                 /\ IsCurrent(t) => /\ extraction'[s][c].model = task[t].model
                                    /\ extraction'[s][c].status \in {"completed", "blank", "failed"}
       PROVE  Progress(t)'
  <2>1. ASSUME NEW d \in Chunks
        PROVE  /\ IsCurrent(t) =>
                    /\ task'[t].call[d] \in {"skip", "done"} => Answered(t, d)'
                    /\ task'[t].call[d] = "calling" => extraction'[s][d].status = "running"
               /\ task'[t].call[d] = "saving" => extraction'[s][d].status = "running"
    <3>1. CASE d = c
      BY <1>3, <1>10, <3>1 DEF Answered
    <3>2. CASE d # c
      BY <1>1, <1>3, <1>5, <1>7, <3>2 DEF Answered
    <3>. QED
      BY <3>1, <3>2
  <2>. QED
    BY <1>3, <1>9, <2>1 DEF Progress
<1>11. CASE MarkChunkRunning(t, c) /\ IsCurrent(t)
  <2>1. extraction'[s][c].status = "running" /\ extraction'[s][c].round = row[s].round
    BY <1>1, <1>2, <1>11 DEF MarkChunkRunning, Extraction
  <2>2. task'[t].call[c] = "calling"
    BY <1>2, <1>11 DEF MarkChunkRunning, Task
  <2>3. RoundsAgree(s)'
    BY <1>4, <1>5, <1>7, <2>1 DEF RoundsAgree
  <2>4. EndedWhole(s)'
    <3>1. row'[s].status = "running"
      BY <1>0, <1>1, <1>4, <1>11, CurrentRuns
    <3>. QED
      BY <3>1 DEF EndedWhole, Ended, EndedStatuses
  <2>. QED
    BY <1>8, <1>10, <2>1, <2>2, <2>3, <2>4
<1>12. CASE CheckChunk(t, c) \/ (MarkChunkRunning(t, c) /\ ~IsCurrent(t))
  <2>1. extraction' = extraction
    BY <1>12 DEF MarkChunkRunning, CheckChunk
  <2>2. \/ task'[t].call[c] = "done" /\ ~IsCurrent(t)
        \/ task'[t].call[c] = "saving" /\ IsCurrent(t) /\ task[t].call[c] = "calling"
    BY <1>2, <1>12 DEF MarkChunkRunning, CheckChunk, Task
  <2>3. Progress(t)'
    BY <1>7, <1>10, <2>1, <2>2
  <2>4. RoundsAgree(s)' /\ EndedWhole(s)'
    BY <1>4, <1>7, <2>1 DEF RoundsAgree, EndedWhole, Ended
  <2>. QED
    BY <1>8, <2>3, <2>4
<1>13. ASSUME NEW status \in {"completed", "blank", "failed"}, SaveChunk(t, c, status)
       PROVE  RoundsAgree(s)' /\ EndedWhole(s)' /\ Progress(t)'
  <2>1. /\ extraction'[s][c].status = status /\ extraction'[s][c].model = task[t].model
        /\ extraction'[s][c].round = extraction[s][c].round
    BY <1>1, <1>2, <1>13 DEF SaveChunk, Extraction
  <2>2. task[t].call[c] = "saving" /\ task'[t].call[c] = "done"
    BY <1>2, <1>13 DEF SaveChunk, Task
  <2>3. extraction[s][c].status = "running"
    BY <1>7, <2>2
  <2>4. RoundsAgree(s)'
    BY <1>4, <1>5, <1>7, <2>1, <2>3 DEF RoundsAgree
  <2>5. EndedWhole(s)'
    <3>1. ~Ended(s)
      BY <1>7, <2>3 DEF EndedWhole
    <3>. QED
      BY <1>4, <3>1 DEF EndedWhole, Ended, EndedStatuses
  <2>6. Progress(t)'
    BY <1>10, <2>1, <2>2
  <2>. QED
    BY <2>4, <2>5, <2>6
<1>. QED
  BY <1>8, <1>11, <1>12, <1>13 DEF SaveChunkSuccess, SaveChunkFailure

LEMMA LoadSourcesKeeps ==
    ASSUME WorkInv, TypeInv', NEW t \in Tasks, LoadSources(t)
    PROVE  WorkInv'
<1>0. task[t].pc = "chunks" /\ UNCHANGED <<extraction, outside>>
  BY DEF LoadSources
<1>1. PICK s \in Summaries : s = task[t].summary
  BY <1>0, TaskSummary DEF WorkInv
<1>2. /\ task[t] \in Task /\ row[s] \in Row
      /\ row \in [Summaries -> Row] /\ task \in [Tasks -> Task]
  BY <1>0, <1>1, TaskSummary DEF WorkInv, TypeInv, TypeOK
<1>3. /\ row'[s].worker = row[s].worker /\ row'[s].status = row[s].status
      /\ row'[s].text = row[s].text /\ row'[s].round = row[s].round
      /\ row'[s].model = row[s].model
      /\ \A q \in Summaries \ {s} : row'[q] = row[q]
  BY <1>1, <1>2 DEF LoadSources, Renewed, Row
<1>4. \A q \in Tasks \ {t} : task'[q] = task[q]
  BY <1>2 DEF LoadSources, Free
<1>6. s \notin blurred => RowOK(s)' /\ RoundsAgree(s)' /\ EndedWhole(s)'
  BY <1>0, <1>3 DEF WorkInv, RowOK, RoundsAgree, EndedWhole, Ended
<1>7. CASE ~IsCurrent(t)
  <2>1. task'[t].pc = "free"
    BY <1>2, <1>7, NoTaskType DEF LoadSources, Free
  <2>2. StepOf(t)
    BY <1>0, <1>1, <1>3, <1>4, <2>1 DEF StepOf
  <2>. QED
    BY <1>0, <1>1, <1>6, <2>1, <2>2, TaskKeeps
<1>8. CASE IsCurrent(t)
  <2>1. /\ task'[t].pc \in {"reduce", "empty"} /\ task'[t].summary = s
        /\ task'[t].model = task[t].model /\ task'[t].text = WithStatus(s, "completed")
    BY <1>1, <1>2, <1>8 DEF LoadSources, Task
  <2>2. StepOf(t)
    BY <1>0, <1>1, <1>3, <1>4, <2>1 DEF StepOf
  <2>3. ASSUME s \notin blurred PROVE Progress(t)'
    <3>1. \A c \in Chunks : Answered(t, c)
      BY <1>0, <1>1, <1>8, <2>3 DEF LoadSources, WorkInv, Progress
    <3>2. \A c \in Chunks : Answered(t, c)'
      BY <1>0, <1>1, <2>1, <3>1 DEF Answered
    <3>. QED
      BY <1>0, <2>1, <3>2 DEF Progress, WithStatus
  <2>. QED
    BY <1>0, <1>1, <1>6, <2>2, <2>3, TaskKeeps
<1>. QED
  BY <1>7, <1>8

LEMMA FinishKeeps ==
    ASSUME WorkInv, TypeInv', NEW t \in Tasks, Reduced(t) \/ TaskDies(t)
    PROVE  WorkInv'
<1>0. task[t].pc # "free" /\ UNCHANGED <<row, extraction, outside>>
  BY DEF Reduced, FinishSuccess, FinishFailure, TaskDies
<1>1. PICK s \in Summaries : s = task[t].summary
  BY <1>0, TaskSummary DEF WorkInv
<1>2. task[t] \in Task /\ task \in [Tasks -> Task]
  BY DEF WorkInv, TypeInv, TypeOK
<1>3. \A q \in Tasks \ {t} : task'[q] = task[q]
  BY <1>2 DEF Reduced, FinishSuccess, FinishFailure, TaskDies, Free
<1>4. s \notin blurred => RowOK(s)' /\ RoundsAgree(s)' /\ EndedWhole(s)'
  BY <1>0 DEF WorkInv, RowOK, RoundsAgree, EndedWhole, Ended
<1>5. CASE Free(t)
  <2>1. task'[t].pc = "free"
    BY <1>2, <1>5, NoTaskType DEF Free
  <2>2. StepOf(t)
    BY <1>0, <1>3, <2>1 DEF StepOf
  <2>. QED
    BY <1>0, <1>1, <1>4, <2>1, <2>2, TaskKeeps
<1>6. CASE ~Free(t)
  <2>1. /\ task[t].pc \in {"reduce", "empty"} /\ IsCurrent(t)
        /\ task'[t].pc \in {"commit", "fail"} /\ task'[t].summary = s
        /\ task'[t].model = task[t].model /\ task'[t].text = task[t].text
        /\ task'[t].pc = "commit" => task'[t].status = Verdict(s)
    BY <1>1, <1>2, <1>6 DEF Reduced, FinishSuccess, FinishFailure, TaskDies, Task
  <2>2. StepOf(t)
    BY <1>0, <1>1, <1>3, <2>1 DEF StepOf
  <2>3. ASSUME s \notin blurred PROVE Progress(t)'
    <3>1. /\ \A c \in Chunks : Answered(t, c)
          /\ task[t].text = WithStatus(s, "completed")
      BY <1>1, <2>1, <2>3 DEF WorkInv, Progress
    <3>. QED
      BY <1>0, <1>1, <2>1, <3>1 DEF Progress, Answered, WithStatus, Verdict
  <2>. QED
    BY <1>0, <1>1, <1>4, <2>2, <2>3, TaskKeeps
<1>. QED
  BY <1>5, <1>6

\* A commit writes what was right when it was checked, and still is.
LEMMA CommitKeeps ==
    ASSUME WorkInv, TypeInv', NEW t \in Tasks, FinishCommit(t) \/ FailureCommit(t)
    PROVE  WorkInv'
<1>0. task[t].pc \in {"commit", "fail"} /\ Free(t) /\ UNCHANGED <<extraction, outside>>
  BY DEF FinishCommit, FailureCommit
<1>1. PICK s \in Summaries : s = task[t].summary
  BY <1>0, TaskSummary DEF WorkInv
<1>2. /\ task[t] \in Task /\ row[s] \in Row
      /\ row \in [Summaries -> Row] /\ task \in [Tasks -> Task]
  BY <1>0, <1>1, TaskSummary DEF WorkInv, TypeInv, TypeOK
<1>3. /\ row'[s].worker = 0 /\ row'[s].round = row[s].round
      /\ \A q \in Summaries \ {s} : row'[q] = row[q]
      /\ \/ row'[s].status = "failed"
         \/ /\ task[t].pc = "commit" /\ row'[s].status = task[t].status
            /\ row'[s].text = task[t].text /\ row'[s].model = task[t].model
  BY <1>1, <1>2 DEF FinishCommit, FailureCommit, Row
<1>4. task'[t].pc = "free" /\ StepOf(t)
  BY <1>0, <1>1, <1>2, <1>3, NoTaskType DEF Free, StepOf
<1>5. ASSUME s \notin blurred PROVE RowOK(s)' /\ RoundsAgree(s)' /\ EndedWhole(s)'
  <2>1. /\ \A c \in Chunks : Answered(t, c)
        /\ task[t].text = WithStatus(s, "completed")
        /\ task[t].pc = "commit" => task[t].status = Verdict(s)
    BY <1>0, <1>1, <1>5 DEF WorkInv, Progress
  <2>2. RowOK(s)'
    BY <1>2, <1>3 DEF RowOK, Ended, EndedStatuses, Task
  <2>3. RoundsAgree(s)'
    BY <1>0, <1>3, <1>5 DEF WorkInv, RoundsAgree
  <2>4. EndedWhole(s)'
    <3>1. \A c \in Chunks : extraction'[s][c].status \in {"completed", "blank", "failed"}
      BY <1>0, <1>1, <2>1 DEF Answered
    <3>2. ASSUME row'[s].status = "completed", NEW c \in Chunks
          PROVE  /\ extraction'[s][c].status = "blank" \/ c \in row'[s].text
                 /\ extraction'[s][c].model = row'[s].model
      <4>1. /\ Verdict(s) = "completed"
            /\ row'[s].text = WithStatus(s, "completed") /\ row'[s].model = task[t].model
        BY <1>3, <2>1, <3>2
      <4>2. extraction[s][c].status \in {"completed", "blank"}
        BY <4>1 DEF Verdict, WithStatus
      <4>. QED
        BY <1>0, <1>1, <2>1, <4>1, <4>2 DEF WithStatus, Answered
    <3>. QED
      BY <3>1, <3>2 DEF EndedWhole
  <2>. QED
    BY <2>2, <2>3, <2>4
<1>. QED
  BY <1>0, <1>1, <1>4, <1>5, TaskKeeps

-----------------------------------------------------------------------------
(* The steps of others on a summary *)

LEMMA RowStepKeeps ==
    ASSUME WorkInv, TypeInv', NEW s \in Summaries,
           task' = task, worker' = worker, late' # worker, blurred \subseteq blurred',
           \A q \in Summaries \ {s} :
                row'[q] = row[q] /\ extraction'[q] = extraction[q] /\ parse'[q] = parse[q],
           parse'[s] = parse[s] \/ parse'[s] # "waiting",
           RequestsRight', RowsRight(s)',
           s \notin blurred' =>
                \A t \in Tasks : task[t].pc # "free" /\ task[t].summary = s => Progress(t)'
    PROVE  WorkInv'
<1>1. \A q \in Summaries : RowsRight(q)'
  BY RowKept
<1>2. OneTask' /\ TasksChunked'
  <2>1. \A t \in Tasks : task[t].pc # "free" => task[t].summary \in Summaries
    BY TaskSummary DEF WorkInv
  <2>. QED
    BY <2>1 DEF WorkInv, OneTask, TasksChunked
<1>3. ASSUME NEW t \in Tasks, task[t].pc # "free", task[t].summary \notin blurred',
             task[t].summary # s
      PROVE  Progress(t)'
  <2>1. task[t].summary \in Summaries \ {s}
    BY <1>3, TaskSummary DEF WorkInv
  <2>2. IsCurrent(t)' => IsCurrent(t)
    BY <2>1 DEF IsCurrent, Live
  <2>. QED
    BY <1>3, <2>1, <2>2, ProgressKept
<1>. QED
  BY <1>1, <1>2, <1>3 DEF WorkInv, RowsRight, NotQueuedEarly

LEMMA ChunkKeeps ==
    ASSUME WorkInv, TypeInv', NEW s \in Summaries, Chunk(s)
    PROVE  WorkInv'
<1>1. /\ parse[s] = "waiting" /\ parse'[s] = "chunked"
      /\ \A q \in Summaries \ {s} : parse'[q] = parse[q]
      /\ UNCHANGED <<task, worker, late, model, started, retries, request, blurred>>
  BY DEF Chunk, WorkInv, TypeInv, TypeOK
<1>2. \A t \in Tasks : task[t].pc # "free" => task[t].summary # s
  BY <1>1 DEF WorkInv, TasksChunked
<1>3. RequestsRight'
  BY <1>1, RequestsKept
<1>4. CASE UNCHANGED <<row, extraction>>
  <2>1. RowsRight(s)'
    BY <1>1, <1>4, RowKept
  <2>. QED
    BY <1>1, <1>2, <1>3, <1>4, <2>1, RowStepKeeps DEF WorkInv
<1>5. CASE /\ row' = [row EXCEPT ![s] = Queued(s)]
           /\ extraction' = [extraction EXCEPT ![s] =
                                [c \in Chunks |-> [@[c] EXCEPT !.status = "pending"]]]
  <2>1. /\ row'[s].status = "pending" /\ row'[s].worker = 0 /\ row'[s].text = {}
        /\ \A q \in Summaries \ {s} : row'[q] = row[q] /\ extraction'[q] = extraction[q]
        /\ \A c \in Chunks : extraction'[s][c].status = "pending"
    <3>1. row \in [Summaries -> Row] /\ extraction \in [Summaries -> [Chunks -> Extraction]]
      BY DEF WorkInv, TypeInv, TypeOK
    <3>2. /\ row'[s].status = "pending" /\ row'[s].worker = 0 /\ row'[s].text = {}
          /\ \A q \in Summaries \ {s} : row'[q] = row[q]
      BY <1>5, <3>1, QueuedType DEF WorkInv
    <3>3. \A c \in Chunks : extraction[s][c] \in Extraction
      BY <3>1
    <3>4. \A c \in Chunks : extraction'[s][c] = [extraction[s][c] EXCEPT !.status = "pending"]
      BY <1>5, <3>1
    <3>5. \A c \in Chunks : extraction'[s][c].status = "pending"
      <4>. SUFFICES ASSUME NEW c \in Chunks PROVE extraction'[s][c].status = "pending"
        OBVIOUS
      <4>1. extraction[s][c] \in Extraction /\ "pending" \in ChunkStatuses \cup {"none"}
        BY <3>3 DEF ChunkStatuses
      <4>2. [extraction[s][c] EXCEPT !.status = "pending"].status = "pending"
        BY <4>1, StatusType
      <4>. QED
        BY <3>4, <4>2
    <3>. QED
      BY <1>5, <3>1, <3>2, <3>5
  <2>2. RowsRight(s)'
    BY <1>1, <2>1 DEF RowsRight, RowOK, RoundsAgree, EndedWhole, Ended, EndedStatuses
  <2>. QED
    BY <1>1, <1>2, <1>3, <2>1, <2>2, RowStepKeeps DEF WorkInv
<1>. QED
  BY <1>4, <1>5 DEF Chunk

LEMMA SupersedeKeeps ==
    ASSUME WorkInv, TypeInv', NEW s \in Summaries, Supersede(s)
    PROVE  WorkInv'
<1>1. /\ parse'[s] = "superseded" /\ \A q \in Summaries \ {s} : parse'[q] = parse[q]
      /\ UNCHANGED <<row, extraction, task, worker, late, request, blurred>>
  BY DEF Supersede, WorkInv, TypeInv, TypeOK
<1>2. RowsRight(s)'
  BY <1>1, RowKept
<1>3. ASSUME NEW t \in Tasks, task[t].pc # "free", task[t].summary = s, s \notin blurred'
      PROVE  Progress(t)'
  <2>1. ~IsCurrent(t)'
    BY <1>1, <1>3 DEF IsCurrent, Live
  <2>. QED
    BY <1>1, <1>3, <2>1, ProgressKept
<1>4. RequestsRight'
  BY <1>1, RequestsKept
<1>. QED
  BY <1>1, <1>2, <1>3, <1>4, RowStepKeeps DEF WorkInv

LEMMA LeaseExpiresKeeps ==
    ASSUME WorkInv, TypeInv', NEW s \in Summaries, LeaseExpires(s)
    PROVE  WorkInv'
<1>1. row \in [Summaries -> Row] /\ row[s] \in Row
  BY DEF WorkInv, TypeInv, TypeOK
<1>2. /\ row'[s].status = row[s].status /\ row'[s].worker = row[s].worker
      /\ row'[s].text = row[s].text /\ row'[s].round = row[s].round
      /\ row'[s].model = row[s].model
      /\ \A q \in Summaries \ {s} : row'[q] = row[q]
      /\ UNCHANGED <<parse, extraction, task, worker, late, request, blurred>>
  BY <1>1 DEF LeaseExpires, Row, outside
<1>3. RowsRight(s)'
  BY <1>2 DEF WorkInv, NotQueuedEarly, RowsRight, RowOK, RoundsAgree, EndedWhole, Ended
<1>4. ASSUME NEW t \in Tasks, task[t].pc # "free", task[t].summary = s, s \notin blurred'
      PROVE  Progress(t)'
  <2>1. IsCurrent(t)' => IsCurrent(t)
    BY <1>2, <1>4 DEF IsCurrent, Live
  <2>. QED
    BY <1>2, <1>4, <2>1, ProgressKept
<1>5. RequestsRight'
  BY <1>2, RequestsKept
<1>. QED
  BY <1>2, <1>3, <1>4, <1>5, RowStepKeeps DEF WorkInv

\* The reads of a retry.
LEMMA AskRetryKeeps ==
    ASSUME WorkInv, TypeInv', NEW s \in Summaries, NEW force \in BOOLEAN, AskRetry(s, force)
    PROVE  WorkInv'
<1>1. UNCHANGED <<parse, row, extraction, task, worker, late, blurred>>
  BY DEF AskRetry
<1>2. ASSUME NEW t \in Tasks PROVE Progress(t)' <=> Progress(t)
  BY <1>1 DEF Progress, IsCurrent, Live, Answered, WithStatus, Verdict
<1>3. ASSUME NEW i \in Requests, request'[i].summary # 0
      PROVE  IF request'[i].ready THEN parse[request'[i].summary] # "waiting"
                                  ELSE request'[i].status \in {"none", "not_ready"}
  <2>0. /\ request \in [Requests -> Request]
        /\ parse[s] \in {"waiting", "chunked", "superseded"}
    BY DEF WorkInv, TypeInv, TypeOK
  <2>1. CASE i = retries + 1
    <3>1. /\ request'[i].summary = s /\ request'[i].ready = (parse[s] = "chunked")
          /\ request'[i].status = row[s].status
      BY <2>0, <2>1 DEF AskRetry
    <3>2. parse[s] # "chunked" => parse[s] = "waiting"
      BY <2>0 DEF AskRetry, Live
    <3>. QED
      BY <3>1, <3>2 DEF WorkInv, NotQueuedEarly
  <2>2. CASE i # retries + 1
    <3>1. request'[i] = request[i]
      BY <2>0, <2>2 DEF AskRetry
    <3>. QED
      BY <1>3, <3>1 DEF WorkInv, RequestsRight
  <2>. QED
    BY <2>1, <2>2
<1>4. RequestsRight'
  BY <1>1, <1>3 DEF RequestsRight
<1>. QED
  BY <1>1, <1>2, <1>4 DEF WorkInv, NotQueuedEarly, RowOK, RoundsAgree, EndedWhole, Ended,
                          OneTask, TasksChunked

\* What a retry writes that found its file without chunks.
LEMMA UnreadyWrites ==
    ASSUME WorkInv, NEW i \in Requests, request[i].summary # 0, RetryUnready(i),
           NEW s \in Summaries, s = request[i].summary
    PROVE  /\ \A q \in Summaries \ {s} : row'[q] = row[q]
           /\ extraction' = extraction
           /\ row'[s].status \in {row[s].status, "not_ready"}
           /\ ~Overtaken(i) => row[s].status \in {"none", "not_ready"} /\ row'[s].status = "not_ready"
           /\ row'[s].worker = row[s].worker /\ row'[s].text = row[s].text
           /\ row'[s].round = row[s].round
<1>1. row \in [Summaries -> Row] /\ row[s] \in Row
  BY DEF WorkInv, TypeInv, TypeOK
<1>2. /\ \A q \in Summaries \ {s} : row'[q] = row[q]
      /\ row'[s].status = Written(request[i].status, "not_ready", row[s].status)
      /\ row'[s].worker = row[s].worker /\ row'[s].text = row[s].text
      /\ row'[s].round = row[s].round
      /\ extraction' = extraction
  BY <1>1 DEF RetryUnready, Row
<1>3. ~Overtaken(i) => request[i].status = row[s].status
  BY DEF Overtaken
<1>4. request[i].status \in {"none", "not_ready"}
  BY DEF RetryUnready, WorkInv, RequestsRight
<1>. QED
  BY <1>2, <1>3, <1>4 DEF Written

\* What a retry writes that nothing overtook: it queues the summary.
LEMMA ReadyWrites ==
    ASSUME WorkInv, NEW i \in Requests, request[i].summary # 0, RetryReady(i),
           NEW s \in Summaries, s = request[i].summary
    PROVE  /\ \A q \in Summaries \ {s} : row'[q] = row[q] /\ extraction'[q] = extraction[q]
           /\ parse[s] # "waiting"
           /\ ~Overtaken(i) =>
                /\ row'[s].status = "pending" /\ row'[s].worker = 0 /\ row'[s].text = {}
                /\ \A c \in Chunks :
                    \/ extraction'[s][c].status = "pending"
                    \/ extraction'[s][c] = extraction[s][c] /\ row'[s].round = row[s].round
<1>. DEFINE q == request[i]
<1>1. /\ row \in [Summaries -> Row] /\ row[s] \in Row
      /\ extraction \in [Summaries -> [Chunks -> Extraction]]
      /\ \A c \in Chunks : extraction[s][c] \in Extraction
  BY DEF WorkInv, TypeInv, TypeOK
<1>2. parse[s] # "waiting"
  BY DEF RetryReady, RetryWrites, WorkInv, RequestsRight
<1>3. PICK S : /\ RetryWrites(i, S)
               /\ q.force => S = Chunks
  BY DEF RetryReady
<1>4. /\ \A r \in Summaries \ {s} : row'[r] = row[r]
      /\ row'[s].status = Written(q.status, "pending", row[s].status)
      /\ row'[s].worker = Written(q.worker, 0, row[s].worker)
      /\ row'[s].text = Written(q.text, {}, row[s].text)
      /\ ~q.force => row'[s].round = row[s].round
  BY <1>1, <1>3 DEF RetryWrites, Row
<1>5. \A r \in Summaries \ {s} : extraction'[r] = extraction[r]
  BY <1>1, <1>3 DEF RetryWrites
<1>6. ASSUME NEW c \in Chunks
      PROVE  extraction'[s][c] = IF c \in S
                THEN [extraction[s][c] EXCEPT !.status = ResetStatus(i, c)]
                ELSE extraction[s][c]
  <2>. DEFINE f == [d \in Chunks |-> IF d \in S
                THEN [extraction[s][d] EXCEPT !.status = ResetStatus(i, d)]
                ELSE extraction[s][d]]
  <2>1. extraction' = [extraction EXCEPT ![s] = f]
    BY <1>3 DEF RetryWrites
  <2>2. extraction'[s] = f
    <3>. HIDE DEF f
    <3>. QED
      BY <1>1, <2>1
  <2>. QED
    BY <2>2
<1>7. ASSUME ~Overtaken(i)
      PROVE  /\ row'[s].status = "pending" /\ row'[s].worker = 0 /\ row'[s].text = {}
             /\ \A c \in Chunks :
                    \/ extraction'[s][c].status = "pending"
                    \/ extraction'[s][c] = extraction[s][c] /\ row'[s].round = row[s].round
  <2>1. /\ row[s].status = q.status /\ row[s].worker = q.worker /\ row[s].text = q.text
        /\ \A c \in Chunks : extraction[s][c].status = q.chunk[c]
    BY <1>7 DEF Overtaken
  <2>2. row'[s].status = "pending" /\ row'[s].worker = 0 /\ row'[s].text = {}
    BY <1>4, <2>1 DEF Written
  <2>3. ASSUME NEW c \in Chunks, c \in S PROVE extraction'[s][c].status = "pending"
    <3>1. ResetStatus(i, c) = "pending"
      BY <2>1 DEF ResetStatus, Written
    <3>2. extraction'[s][c] = [extraction[s][c] EXCEPT !.status = "pending"]
      BY <1>6, <2>3, <3>1
    <3>. QED
      BY <1>1, <3>2, StatusType DEF ChunkStatuses
  <2>4. ASSUME NEW c \in Chunks, c \notin S
        PROVE  extraction'[s][c] = extraction[s][c] /\ row'[s].round = row[s].round
    BY <1>3, <1>4, <1>6, <2>4
  <2>. QED
    BY <2>2, <2>3, <2>4
<1>. QED
  BY <1>2, <1>4, <1>5, <1>7

\* A retry blurs its summary, or nothing is between a check and a commit.
LEMMA RetryKeeps ==
    ASSUME WorkInv, TypeInv', NEW i \in Requests, Retry(i)
    PROVE  WorkInv'
<1>1. PICK s \in Summaries : s = request[i].summary
  BY DEF Retry, WorkInv, TypeInv, TypeOK, Request
<1>2. /\ task' = task /\ worker' = worker /\ late' # worker /\ parse' = parse
      /\ request[i].summary # 0 /\ blurred \subseteq blurred'
  BY DEF Retry, WorkInv
<1>3. RequestsRight'
  <2>1. \A j \in Requests : request'[j] = request[j] \/ request'[j].summary = 0
    BY NoRequestType DEF Retry, WorkInv, TypeInv, TypeOK
  <2>. QED
    BY <1>2, <2>1 DEF WorkInv, RequestsRight
<1>4. CASE UNCHANGED <<row, extraction>>
  <2>1. RowsRight(s)'
    BY <1>2, <1>4, RowKept
  <2>2. ASSUME NEW t \in Tasks, task[t].pc # "free", task[t].summary = s, s \notin blurred'
        PROVE  Progress(t)'
    <3>1. IsCurrent(t)' => IsCurrent(t)
      BY <1>2, <1>4 DEF IsCurrent, Live
    <3>. QED
      BY <1>2, <1>4, <2>2, <3>1, ProgressKept
  <2>. QED
    BY <1>2, <1>3, <1>4, <2>1, <2>2, RowStepKeeps
<1>5. CASE /\ RetryUnready(i) \/ RetryReady(i)
           /\ s \notin blurred' =>
                /\ ~Overtaken(i)
                /\ \A t \in Tasks : task[t].summary = s => ~Committing(t)
  <2>1. CASE RetryUnready(i)
    <3>1. /\ \A q \in Summaries \ {s} : row'[q] = row[q]
          /\ extraction' = extraction
          /\ row'[s].status \in {row[s].status, "not_ready"}
          /\ s \notin blurred' =>
                row[s].status \in {"none", "not_ready"} /\ row'[s].status = "not_ready"
          /\ row'[s].worker = row[s].worker /\ row'[s].text = row[s].text
          /\ row'[s].round = row[s].round
      BY <1>1, <1>2, <1>5, <2>1, UnreadyWrites
    <3>2. RowsRight(s)'
      <4>1. parse'[s] = "waiting" => row'[s].status \in {"none", "not_ready"}
        BY <1>2, <3>1 DEF WorkInv, NotQueuedEarly
      <4>2. ASSUME s \notin blurred' PROVE RowOK(s)' /\ RoundsAgree(s)' /\ EndedWhole(s)'
        BY <1>2, <3>1, <4>2 DEF WorkInv, RowOK, RoundsAgree, EndedWhole, Ended, EndedStatuses
      <4>. QED
        BY <4>1, <4>2 DEF RowsRight
    <3>3. ASSUME NEW t \in Tasks, task[t].pc # "free", task[t].summary = s, s \notin blurred'
          PROVE  Progress(t)'
      <4>1. IsCurrent(t)' => IsCurrent(t)
        BY <1>2, <3>1, <3>3 DEF IsCurrent, Live
      <4>. QED
        BY <1>2, <3>1, <3>3, <4>1, ProgressKept
    <3>. QED
      BY <1>2, <1>3, <3>1, <3>2, <3>3, RowStepKeeps
  <2>2. CASE RetryReady(i)
    <3>1. /\ \A q \in Summaries \ {s} : row'[q] = row[q] /\ extraction'[q] = extraction[q]
          /\ parse[s] # "waiting"
          /\ s \notin blurred' =>
                /\ row'[s].status = "pending" /\ row'[s].worker = 0 /\ row'[s].text = {}
                /\ \A c \in Chunks :
                    \/ extraction'[s][c].status = "pending"
                    \/ extraction'[s][c] = extraction[s][c] /\ row'[s].round = row[s].round
      BY <1>1, <1>2, <1>5, <2>2, ReadyWrites
    <3>2. RowsRight(s)'
      <4>. SUFFICES ASSUME s \notin blurred' PROVE RowOK(s)' /\ RoundsAgree(s)' /\ EndedWhole(s)'
        BY <1>2, <3>1 DEF RowsRight
      <4>1. RowOK(s)' /\ EndedWhole(s)'
        BY <3>1 DEF RowOK, EndedWhole, Ended, EndedStatuses
      <4>2. RoundsAgree(s)'
        BY <1>2, <3>1 DEF WorkInv, RoundsAgree
      <4>. QED
        BY <4>1, <4>2
    <3>3. ASSUME NEW t \in Tasks, task[t].pc # "free", task[t].summary = s, s \notin blurred'
          PROVE  Progress(t)'
      <4>1. ~IsCurrent(t)'
        BY <1>2, <3>1, <3>3 DEF IsCurrent, WorkInv, TypeInv, TypeOK, Workers
      <4>2. ~Committing(t)
        BY <1>5, <3>3
      <4>. QED
        BY <1>2, <3>3, <4>1, <4>2, ProgressKept
    <3>. QED
      BY <1>2, <1>3, <3>1, <3>2, <3>3, RowStepKeeps
  <2>. QED
    BY <1>5, <2>1, <2>2
<1>. QED
  BY <1>1, <1>4, <1>5 DEF Retry

\* A summary that may be claimed is not ended, and its file has chunks.
LEMMA ClaimedRow ==
    ASSUME WorkInv, NEW s \in Summaries, Claimable(s), NEW w \in Workers,
           row' = [row EXCEPT ![s] = Claimed(s, w)],
           UNCHANGED <<parse, extraction>>, blurred \subseteq blurred'
    PROVE  /\ row'[s].worker = w /\ parse[s] # "waiting"
           /\ \A q \in Summaries \ {s} : row'[q] = row[q]
           /\ RowsRight(s)'
<1>1. row \in [Summaries -> Row] /\ row[s] \in Row
  BY DEF WorkInv, TypeInv, TypeOK
<1>2. /\ row'[s].status = "running" /\ row'[s].worker = w
      /\ row'[s].text = row[s].text /\ row'[s].round = row[s].round
      /\ \A q \in Summaries \ {s} : row'[q] = row[q]
  BY <1>1 DEF Claimed, Row
<1>3. row[s].status \in {"pending", "running"} /\ parse[s] # "waiting"
  BY DEF Claimable, WorkInv, NotQueuedEarly
<1>4. s \notin blurred' => RowOK(s)' /\ RoundsAgree(s)' /\ EndedWhole(s)'
  BY <1>2, <1>3 DEF WorkInv, RowOK, RoundsAgree, EndedWhole, Ended, EndedStatuses
<1>. QED
  BY <1>2, <1>3, <1>4 DEF RowsRight

LEMMA LateClaimKeeps ==
    ASSUME WorkInv, TypeInv', LateClaim
    PROVE  WorkInv'
<1>1. PICK s \in Summaries : Claimable(s) /\ row' = [row EXCEPT ![s] = Claimed(s, late)]
  BY DEF LateClaim, FirstInLine
<1>2. late \in Workers /\ late # worker /\ worker # 0
  BY DEF LateClaim, WorkInv, TypeInv, TypeOK, Workers
<1>3. late' = 0 /\ UNCHANGED <<parse, extraction, task, worker, request, blurred>>
  BY DEF LateClaim
<1>4. /\ row'[s].worker = late
      /\ \A q \in Summaries \ {s} : row'[q] = row[q]
      /\ RowsRight(s)'
  BY <1>1, <1>2, <1>3, ClaimedRow
<1>5. ASSUME NEW t \in Tasks, task[t].pc # "free", task[t].summary = s, s \notin blurred'
      PROVE  Progress(t)'
  <2>1. ~IsCurrent(t)'
    BY <1>2, <1>3, <1>4, <1>5 DEF IsCurrent
  <2>. QED
    BY <1>3, <1>5, <2>1, ProgressKept
<1>6. RequestsRight'
  BY <1>3, RequestsKept
<1>. QED
  BY <1>2, <1>3, <1>4, <1>5, <1>6, RowStepKeeps

LEMMA ClaimKeeps ==
    ASSUME WorkInv, TypeInv', NEW t \in Tasks, Claim(t)
    PROVE  WorkInv'
<1>1. PICK s \in Summaries :
        /\ Claimable(s) /\ row' = [row EXCEPT ![s] = Claimed(s, worker)]
        /\ task' = [task EXCEPT ![t] = [NoTask EXCEPT !.pc = "prepare", !.summary = s,
                                                      !.model = model]]
        /\ blurred' = IF \E q \in Tasks : task[q].summary = s THEN blurred \cup {s} ELSE blurred
  BY DEF Claim, FirstInLine
<1>2. UNCHANGED <<parse, extraction, worker, late, request>> /\ task[t].pc = "free"
  BY DEF Claim
<1>3. /\ worker \in Workers /\ task \in [Tasks -> Task] /\ NoTask \in Task
      /\ blurred \subseteq blurred'
  BY <1>1, NoTaskType DEF WorkInv, TypeInv, TypeOK
<1>4. /\ task'[t].pc = "prepare" /\ task'[t].summary = s
      /\ \A q \in Tasks \ {t} : task'[q] = task[q]
  BY <1>1, <1>3 DEF Task
<1>5. /\ parse[s] # "waiting"
      /\ \A q \in Summaries \ {s} : row'[q] = row[q]
      /\ RowsRight(s)'
  BY <1>1, <1>2, <1>3, ClaimedRow
<1>6. \A q \in Summaries : RowsRight(q)'
  BY <1>2, <1>3, <1>5, RowKept
<1>7. (\E q \in Tasks : task[q].summary = s) => s \in blurred'
  BY <1>1
<1>8. OneTask'
  <2>. SUFFICES ASSUME NEW p \in Tasks, NEW q \in Tasks, p # q,
                       task'[p].pc # "free", task'[p].summary = task'[q].summary
                PROVE  task'[p].summary \in blurred'
    BY DEF OneTask
  <2>1. CASE p = t
    BY <1>4, <1>7, <2>1
  <2>2. CASE q = t
    BY <1>4, <1>7, <2>2
  <2>3. CASE p # t /\ q # t
    BY <1>3, <1>4, <2>3 DEF WorkInv, OneTask
  <2>. QED
    BY <2>1, <2>2, <2>3
<1>9. TasksChunked'
  BY <1>2, <1>4, <1>5 DEF WorkInv, TasksChunked
<1>10. ASSUME NEW q \in Tasks, task'[q].pc # "free", task'[q].summary \notin blurred'
       PROVE  Progress(q)'
  <2>1. CASE q = t
    BY <1>4, <2>1 DEF Progress
  <2>2. CASE q # t
    <3>1. task'[q] = task[q]
      BY <1>4, <2>2
    <3>2. task[q].summary \in Summaries \ {s}
      BY <1>7, <1>10, <3>1, TaskSummary DEF WorkInv
    <3>3. IsCurrent(q)' => IsCurrent(q)
      BY <1>2, <1>5, <3>1, <3>2 DEF IsCurrent, Live
    <3>. QED
      BY <1>2, <1>3, <1>10, <3>1, <3>3, ProgressKept
  <2>. QED
    BY <2>1, <2>2
<1>11. RequestsRight'
  BY <1>2, RequestsKept
<1>. QED
  BY <1>2, <1>6, <1>8, <1>9, <1>10, <1>11 DEF WorkInv, RowsRight, NotQueuedEarly

-----------------------------------------------------------------------------
(* The process *)

\* What ends every task leaves its rows to the next worker.
LEMMA RestartKeeps ==
    ASSUME WorkInv, TypeInv', Stop \/ Crash
    PROVE  WorkInv'
<1>1. /\ UNCHANGED <<parse, blurred>>
      /\ \A t \in Tasks : task'[t].pc = "free"
  BY NoTaskType DEF Stop, Crash
<1>2. late' # worker'
  <2>1. worker \in Nat /\ worker # 0 /\ worker' = worker + 1
    <3>1. worker \in Workers /\ MaxRestarts \in Nat
      BY SummaryAssumption DEF WorkInv, TypeInv, TypeOK
    <3>2. worker' = worker + 1
      BY DEF Stop, Crash
    <3>. QED
      BY <3>1, <3>2 DEF Workers
  <2>2. late' \in {0, worker}
    BY DEF Stop, Crash
  <2>. QED
    BY <2>1, <2>2
<1>3. ASSUME NEW s \in Summaries
      PROVE  RowsRight(s)'
  <2>1. CASE row'[s] = row[s] /\ extraction'[s] = extraction[s]
    BY <1>1, <2>1, RowKept
  <2>2. CASE Stop /\ row[s].status = "running" /\ ~(row'[s] = row[s] /\ extraction'[s] = extraction[s])
    <3>1. /\ row'[s] = [row[s] EXCEPT !.status = "pending", !.worker = 0, !.lease = "none"]
          /\ extraction'[s] = [c \in Chunks |-> IF extraction[s][c].status = "running"
                                                  THEN [extraction[s][c] EXCEPT !.status = "pending"]
                                                  ELSE extraction[s][c]]
      BY <2>2 DEF Stop
    <3>2. row[s] \in Row /\ \A c \in Chunks : extraction[s][c] \in Extraction
      BY DEF WorkInv, TypeInv, TypeOK
    <3>3. /\ row'[s].status = "pending" /\ row'[s].worker = 0
          /\ row'[s].text = row[s].text /\ row'[s].round = row[s].round
      BY <3>1, <3>2 DEF Row
    <3>4. ASSUME NEW c \in Chunks
          PROVE  \/ extraction'[s][c] = extraction[s][c]
                 \/ extraction'[s][c].status = "pending"
      BY <3>1, <3>2 DEF Extraction
    <3>5. /\ parse'[s] # "waiting"
          /\ s \notin blurred => RowOK(s)'
      BY <1>1, <2>2, <3>3 DEF WorkInv, NotQueuedEarly, RowOK, Ended, EndedStatuses
    <3>6. s \notin blurred => RoundsAgree(s)'
      BY <3>3, <3>4 DEF WorkInv, RoundsAgree
    <3>7. EndedWhole(s)'
      BY <3>3 DEF EndedWhole, Ended, EndedStatuses
    <3>. QED
      BY <1>1, <3>5, <3>6, <3>7 DEF RowsRight
  <2>3. CASE Stop /\ row[s].status # "running"
    BY <2>1, <2>3 DEF Stop, WorkInv, TypeInv, TypeOK
  <2>4. CASE Crash
    BY <2>1, <2>4 DEF Crash
  <2>. QED
    BY <2>1, <2>2, <2>3, <2>4
<1>4. OneTask' /\ TasksChunked'
  BY <1>1 DEF OneTask, TasksChunked
<1>5. RequestsRight'
  <2>1. CASE Stop
    BY <1>1, <2>1, RequestsKept DEF Stop
  <2>2. CASE Crash
    BY <2>2, NoRequestType DEF Crash, RequestsRight
  <2>. QED
    BY <2>1, <2>2
<1>. QED
  BY <1>1, <1>2, <1>3, <1>4, <1>5 DEF WorkInv, RowsRight, NotQueuedEarly

LEMMA StutterKeeps ==
    ASSUME WorkInv, TypeInv', ReloadClient \/ UNCHANGED vars
    PROVE  WorkInv'
<1>1. UNCHANGED <<parse, row, extraction, task, worker, late, request, blurred>>
  BY DEF ReloadClient, vars
<1>2. ASSUME NEW t \in Tasks PROVE Progress(t)' <=> Progress(t)
  BY <1>1 DEF Progress, IsCurrent, Live, Answered, WithStatus, Verdict
<1>. QED
  BY <1>1, <1>2 DEF WorkInv, NotQueuedEarly, RequestsRight, RowOK, RoundsAgree, EndedWhole, Ended,
                    OneTask, TasksChunked

LEMMA InitWork == Init => WorkInv
<1>. SUFFICES ASSUME Init PROVE WorkInv
  OBVIOUS
<1>1. TypeInv
  BY InitTypes
<1>2. \A t \in Tasks : task[t].pc = "free"
  BY NoTaskType DEF Init
<1>3. late # worker
  BY DEF Init
<1>4. /\ NotQueuedEarly /\ RequestsRight
      /\ \A s \in Summaries : RowOK(s) /\ RoundsAgree(s) /\ EndedWhole(s)
  BY NoRequestType DEF Init, NoRow, NotQueuedEarly, RequestsRight, RowOK, RoundsAgree, EndedWhole, Ended, EndedStatuses
<1>. QED
  BY <1>1, <1>2, <1>3, <1>4 DEF WorkInv, OneTask, TasksChunked

LEMMA NextWork == WorkInv /\ [Next]_vars => WorkInv'
<1>. SUFFICES ASSUME WorkInv, [Next]_vars PROVE WorkInv'
  OBVIOUS
<1>1. TypeInv'
  BY NextTypes DEF WorkInv
<1>2. ASSUME NEW t \in Tasks, Step(t) PROVE WorkInv'
  BY <1>1, <1>2, PrepareKeeps, ChunkCallKeeps, LoadSourcesKeeps, FinishKeeps, CommitKeeps DEF Step
<1>. QED
  BY <1>1, <1>2, ChunkKeeps, SupersedeKeeps, LeaseExpiresKeeps, AskRetryKeeps, RetryKeeps,
     ClaimKeeps, LateClaimKeeps, RestartKeeps, StutterKeeps DEF Next

-----------------------------------------------------------------------------
(* What a summary that has ended promises *)

\* A summary that is marked completed was made from every short summary there is,
\* each chunk answered by the model the row names, unless the summary is blurred.
THEOREM SummaryCovers == Spec => []CompletedCoversDocument
<1>1. WorkInv => CompletedCoversDocument
  BY DEF WorkInv, EndedWhole, CompletedCoversDocument
<1>. QED
  BY <1>1, InitWork, NextWork, PTL DEF Spec

\* Whatever crashed, stopped or lost its lease meanwhile, a summary ends with all
\* of its chunks answered or failed: none is left for nobody to take up.
THEOREM SummaryLeavesNoChunk == Spec => []EndedLeavesNoChunk
<1>1. WorkInv => EndedLeavesNoChunk
  BY DEF WorkInv, EndedWhole, EndedLeavesNoChunk
<1>. QED
  BY <1>1, InitWork, NextWork, PTL DEF Spec

\* After a forced retry, no answer from before it is in the summary's text.
THEOREM SummaryRebuilds == Spec => []ForcedRetryRebuilds
<1>1. WorkInv => ForcedRetryRebuilds
  <2>. SUFFICES ASSUME WorkInv, NEW s \in Summaries \ blurred, Ended(s), NEW c \in row[s].text
                PROVE  extraction[s][c].round = row[s].round
    BY DEF ForcedRetryRebuilds
  <2>1. c \in Chunks
    BY DEF WorkInv, TypeInv, TypeOK, Row
  <2>. QED
    BY <2>1 DEF WorkInv, EndedWhole, RoundsAgree
<1>. QED
  BY <1>1, InitWork, NextWork, PTL DEF Spec
=============================================================================
