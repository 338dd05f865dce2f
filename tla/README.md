# Knowledge-base agent: TLA+ models, checks and proofs

The backend (`src/backend/app`) is a FastAPI service over PostgreSQL that turns
uploaded documents into searchable chunks and answers questions from them. This
directory holds TLA+ models of its stateful parts, TLC configurations that check
them on small instances, and TLAPS proofs of what matters most for every
instance.

## 1. The system

One `uvicorn` process (`docker-compose.yml:34`) runs the HTTP API and three
asyncio workers; blocking work runs in threads. Shared state is in PostgreSQL
(READ COMMITTED, no advisory locks), MinIO (files, parse results, the overview
object), Qdrant (vectors) and OpenSearch (keywords). MinerU parses documents;
an LLM writes summaries and answers.

| Component | State | Operations | Talks to | What is hard | What makes it correct |
|---|---|---|---|---|---|
| Parse pipeline (`parse_pipeline.py`, `files.py`, `document_blocks.py`, `chunks.py`, `image_descriptions.py`, `indexing.py`) | `files`, `parse_jobs`, `chunks_metadata`, both indexes | upload, retry, worker poll, one advance per stage | MinerU, MinIO, embedding, Qdrant, OpenSearch | two runners per job without a lock; commits between remote calls; crash at any point; a job superseded while it runs | one active chunk generation per file; only the latest successful parse is served; rows agree; jobs end |
| File administration (`files.py`, `api/v1/files.py`) | same rows and indexes | delete, reindex | Qdrant, OpenSearch | remote calls before the commit; races with the pipeline; half-failed requests | a served chunk stays findable, by keywords even after a reindex that failed half way; a deleted file is gone |
| Retrieval (`retrieval.py`, `rag/fusion.py`) | none | hybrid search, fusion, chunk loading, rerank | both indexes | index entries that lag the rows | only active chunks of indexed, visible files reach an answer |
| Document summaries (`document_summaries.py`, `document_summary_llm.py`) | `document_summaries`, `chunk_knowledge_extractions`, leases | enqueue, retry, claim, chunk extraction, finish, release | LLM | leases that expire under a live task; tasks cancelled by a stop; retry during a run; one commit per chunk | every current summary ends; a completed one stands on every short summary there is; after a forced retry no old answer is in the text |
| Knowledge graph (`knowledge_graph.py`, `chunk_graph.py`) | `knowledge_graph_state`, vectors of summaries, relations, communities, chunk relations | refresh request, prepare, build, finish, fail | LLM, embedding | refresh while a build runs; members that change under a community summary | a requested refresh is honoured; what is shown belongs to current documents |
| Conversations (`conversations.py`) | `messages`, citations, traces | send, stream, delete | retrieval, LLM | disconnect, error or crash in the middle of a stream | every answer ends completed or failed, and whole; citations point at what was given to the model, which was current |
| Accounts (`auth.py`, `users.py`, `deps.py`) | `users`, `revoked_refresh_tokens` | login, register, consumer session, refresh, logout, create, update, disable, enable, delete, reset | - | a slow password hash between read and write; lock expiry; disabling during a request | a name identifies one account; the lock comes and outlives the requests under way; tokens go to active accounts |
| Library: knowledge bases, uploads, overview (`knowledge_bases.py`, `files.py`, `knowledge_overall.py`) | `knowledge_bases`, `files`, raw objects, the overview object | switch, upload a batch, rebuild, read | MinIO | uploads that overlap, between a unique index and an event loop; a batch that fails half way; rebuilds that finish out of order | no upload waits for another inside the event loop; a content comes twice only if forced; a visible file has its object; the overview counts the indexed files and names as many as it may |
| Query routing and evidence (`query_router.py`, `conversations.py`) | none | category, route decision, search, evidence gate, expansion, image policy | two models | models that answer anything or nothing; rules before and behind them; items added after a filter | no question for facts is answered without a search; pictures only if decided; context near evidence |
| Feedback, audit log, settings, profile | single rows, a settings file | CRUD | - | little | visibility |
| Text functions | - | normalization, chunk splitting | - | boundaries | sizes |

## 2. Plan

Ordered so that what the product stands on comes first. A module that recursion
would make unprovable stays apart from the ones with theorems.

| # | Module | Composes / refines | Runs | Theorems | State |
|---|---|---|---|---|---|
| 1 | `ParsePipeline` (+ `MCParsePipeline`) | files, jobs, both indexes, runners, admin requests; refines `DocumentVersions` | `pipeline_*` | - | done |
| 2 | `ParsePipelineProofs` | extends 1 | - | types, every safety property, the refinement of `DocumentVersions` | done |
| 3 | `DocumentSummary` (+ `MCDocumentSummary`, `DocumentSummaryProofs`) | fed by chunking (1) and by superseding | `summary_*` | types and every safety property | done |
| 4 | `KnowledgeGraph` (+ `MCKnowledgeGraph`, `KnowledgeGraphProofs`) | finished summaries (3), knowledge bases; refresh requests, fingerprints, the build cycle, communities, the chunk graph | `graph_*` | types and every safety property | done |
| 5 | `ChatAnswer` (+ `MCChatAnswer`, `ChatAnswerProofs`) | a question and its context over what (1) serves, against changes of the files, disconnect, error and crash | `chat_core` | types and every safety property | done |
| 6 | `Accounts` (+ `MCAccounts`, `AccountsProofs`) | logins, lock, sessions, tokens, administrators | `accounts_core` | types and every safety property | done |
| 7 | `Library` (+ `MCLibrary`, `LibraryProofs`) | uploads of batches into a knowledge base, beside what (1) does to files; the overview | `library_core` | types and every safety property | done |
| 8 | `QuestionRouting` (+ `MCQuestionRouting`, `QuestionRoutingProofs`) | the decisions that (5) leaves open, over files that stand still | `routing_core` | types and every safety property, agreement of decisions | done |
| 9 | `Sublists` (+ `SublistsProofs`) | lists filtered, freed of duplicates and sorted, for 5 and 8 | (those of 5 and 8) | what these operators keep, for lists of any length | done |

An abstract specification is worth stating where a component promises something
to the others: `DocumentVersions` (what may be served of a file) for 1; a queue
with at-most-one result per forced request for 3; a one-bit "refresh wanted" for 4.

## 3. ParsePipeline

**State.** `file` and `job` are the rows of `files` and `parse_jobs`; of the
JSON column `logs` only the two keys a handler branches on are kept (the MinerU
batch id and the location of the parsed result). A *generation* is the set of
chunks one chunking run inserted: all of them get `is_active` and their points in the
indexes together, so `owner`, `active`, `qdrant` and `bm25` speak of generations.
`run[0]` is the `ParseJobWorker` loop, `run[j]` the background task that an
upload or a retry starts for job `j`; each holds what its SQLAlchemy session has
loaded (`seen`, `logs`, `gens`, and `prev` for `previous_status`). `deletion` and
`reindexing` are the one delete and the one reindex request in progress.

**Steps.** A step ends at every commit and at every call to another service, so
what was read before the call may be stale after it. Reads that follow a
commit at once, with no call between, are merged with it. A column is written
only if it differs from the value loaded (`WriteFileStatus`): the ORM's flush
does not write a value that did not change, which is what lets a retry survive
an older job's late commit.

| Actions | Code |
|---|---|
| `Upload`, `Retry` | `upload_files`, `retry_parse_file`, and the background task each starts |
| `WorkerPoll`, `WorkerNext` | `process_pending_parse_jobs_once` |
| `Advance`, `Leave`, `Abort` | the guard of `advance_parse_job_once`, the loop of `run_parse_job_until_waiting`, an exception that ends it |
| `Submitted` ... `PollFailed` | `submit_queued_parse_job`, `poll_mineru_parse_job` |
| `NormalizeSkipped`, `Normalized`, `NormalizedEmpty` | `normalize_parse_job_result` |
| `Deactivate`, `InsertChunks`, `InsertNothing` | `generate_chunks_for_parse_job`: the UPDATE takes its snapshot, the INSERT and the commit follow; `TsvLocked` is the row lock of `write_chunk_tsv` |
| `DescribeImages` ... `Finish` | `enrich_image_chunk_descriptions`, `index_parse_job` |
| `DeleteRequest` ... `DeleteCommit` | `delete_file` |
| `ReindexRequest` ... `ReindexKeywords` | `reindex_file_vectors` |
| `Crash` | the process dies: sessions and requests vanish, rows and indexes stay |

A failed call to an index may or may not have been applied. `overlapped` is a
history variable: the files on which two runners were ever inside an advance at
once. The code takes no lock against that; two runners of *one* job arise from every
upload, because the worker may select a job its background task has started.
What is promised is promised for the other files.

**What the code does not protect.** On a file in `overlapped` a job may be submitted twice
and its status move backwards: when one submission fails and the other succeeds, the slower
commit writes `parsing` over `failed`, against the flow of states that
`docs/tests/TDD.v0.1.md:303` describes. A retry replaces the active chunks in the database
alone (`chunks.py:64`), and `delete_file` removes the points of the active ones: the points
of an earlier parse stay active in Qdrant after a delete, against TDD:294. They never reach
an answer, because chunks are loaded from the rows. A delete that fails after it removed
points leaves an indexed file that no search finds, until it is repeated. A reindex sets the
points of the served chunks inactive (`api/v1/files.py:308`) before it embeds them again: while it
runs, and for good when the embedding or the upsert fails, the vector search, which filters
`is_active` (`vector_index.py:191`), does not find them, and only the keyword search does. `Findable`
excepts exactly those chunks, by the history variable `withdrawn`: from that call to the next upsert.

**Properties.** `OneActiveGeneration`, `RetrievableFromLatestSuccess`,
`SettledFileAgrees`, `Findable` (invariants), `StatusOnlyForward` (action
property), `EveryJobSettles` (liveness), `ImplementsVersions` (refinement): each is
stated in words above its definition. `DocumentVersions` is what a reader of
answers may rely on: a file serves at most one version, the newest
successful one, and never one that was replaced.

## 4. DocumentSummary

**State.** `row` and `extraction` are `document_summaries` and
`chunk_knowledge_extractions`; `task` are the tasks of the worker (at most
`Concurrency`), each with the client it was given and the state of its call for each
chunk; `worker` is the id of the running process, `late` a claim whose thread
outlives the worker's cancellation; `request` is what the retries under way have read.
`round` is history: a forced retry marks the row with its number, and a chunk takes over the
number of the row when it is sent to the model.

A chunk that is `blank` is COMPLETED with an empty `short_summary`, which the validation of an
answer lets through. It is counted as a success by the verdict (`document_summaries.py:653`), is left
out of the text (`:632`), and is asked for again by the next run (`:456`). So COMPLETED does not say
that every chunk is in the text, and `CompletedCoversDocument` does not either: it says that the
text has every short summary there is, and that every chunk was answered by the model the row names.

**Steps.** Every function of the service is one short transaction with no remote call inside. Those
whose late commit outlives the next claim are two steps, what is read or checked and what is
committed: a retry (`AskRetry`, `Retry`), an answer or failure of a chunk (`CheckChunk`,
`SaveChunk*`), and both ends of a task (`FinishSuccess`, `FinishCommit`; `FinishFailure`,
`FailureCommit`). `Prepare`, `MarkChunkRunning` and `LoadSources` are one step each: when they commit
late they renew a lease nobody looks at while the summary is queued, or mark a chunk running that
the next claim takes up whether it is pending or running. The transition of a lease to expired is an
action of its own, so a task that is slow, or dead, may lose its summary at any point.

A retry writes only the columns that differ from what it has read (`Written`): a chunk it has read as
pending and that was answered meanwhile stays answered. What it would insert and another has
inserted refuses the whole retry (`Conflicts`).

| Actions | Code |
|---|---|
| `Chunk`, `Supersede` | `enqueue_document_summary` from chunking (or its failure, which chunking ignores); a new parse or a delete |
| `AskRetry`, `Retry` | `retry_document_summary`: its reads, its commit |
| `Claim`, `LeaseExpires` | `claim_document_summaries` (one row of a batch), the clock |
| `Prepare`, `MarkChunkRunning`, `LoadSources` | `prepare_document_work`, `mark_chunk_running`, `load_summary_sources` |
| `CheckChunk`, `SaveChunkSuccess`, `SaveChunkFailure` | `save_chunk_success`, `save_chunk_failure`: check, commit |
| `FinishSuccess` and `FinishCommit`, `FinishFailure` and `FailureCommit`, `TaskDies` | `finish_document_success`, `finish_document_failure`: check, commit; an exception that nothing handles |
| `ReloadClient`, `Stop`, `LateClaim`, `Crash` | `DocumentSummaryWorker` |

A task is recognised by `worker_id` alone (`is_current_summary`), and all tasks of a
process share it. `blurred` is the history of summaries on which two tasks worked, and of those
whose retry met another transaction: something changed between its read and its commit, or a check
of a task had succeeded whose commit was still to come. The code has no lock against either. A
forced retry that commits between lines 537 and 558 leaves an answer from before it as completed, and
the next run skips that chunk; one that commits between 677 and 687 is overwritten with FAILED.
The properties speak of the summaries that are not blurred; `summary_fence` explores the others too,
and shows what becomes of one on which two tasks work.

## 5. KnowledgeGraph

**State.** `doc` is what the graph reads of a document summary: whether it can be
shown, and a number for its text. A *fingerprint* is the hash of the documents and
their texts, so the model lets it be that function itself. `graph` is the one row of
`knowledge_graph_state`; `embedding`, `relations`, `community` and `chunkGraph` are the
tables a build derives, each with the texts it was computed from; `build` is what the
running build keeps in memory: the documents it loaded, the vectors it read back, the
knowledge bases still to do. `indexed` is what the chunk graph reads of the files. `dropped`, `skipped`
and `missed` are history.

| Actions | Code |
|---|---|
| `SummaryFinishes`, `SummaryLeaves`, `FileIndexed`, `FileNotIndexed`, `SwitchKnowledgeBase` | the other components, as far as the graph sees them |
| `RequestRefresh` | `request_knowledge_graph_refresh`, with and without `force_embeddings` |
| `Prepare`, `PollNothing` | `prepare_graph_build`, with `communities_need_update` |
| `LoadCache`, `EmbedBatch`, `EmbeddingDone` | `ensure_document_embeddings`; a failure is `FailBuild` (`fail_graph_build`) |
| `ReplaceRelations` | `calculate_relation_drafts`, `replace_relations` |
| `PrepareCommunities`, `SaveCommunity*` | `update_community_summaries`; knowledge bases are done in any order |
| `Finish` | `finish_graph_build` |
| `LoadChunkItems`, `ReplaceChunkRelations`, `SkipChunkGraph`, `BuildEnds` | `build_chunk_graph_for_knowledge_base` and the loop that calls it |
| `Crash` | `KnowledgeGraphWorker.stop`, or the process dies |

A batch of vectors is any non-empty set of those that are missing. Every two documents
with a vector are related: the similarity and Top-K rule only removes relations, and
the properties say which relations may be there.

**What the code does not protect.** A forced refresh that arrives during a build is
overwritten by `Finish`, which leaves the vector cache empty (`dropped`), and a
knowledge base whose chunk graph failed, or was cut off by a crash, is not tried again
although the log says so (`skipped`): both are modelled, and excluded from
`GraphCatchesUp` and `ChunkGraphFollows`. The graph shows every finished summary, the chunk graph
takes only chunks of files that are INDEXED (`chunk_graph.py:82`). A summary is queued as soon as the
chunks are there, so a build may come between the two, or the file may fail to be indexed; the chunk
graph is then made without the document, and since the fingerprint is of summaries only, indexing
the file later makes no poll build again. `missed` are the documents that were shown but not indexed
when the chunks of their knowledge base were last read, and `ChunkGraphFollows` excepts exactly those.

## 6. ChatAnswer

**State.** `user`, `answer`, `citations` and `trace` are the committed rows of a question:
its user message, the status of its assistant message, `message_citations` in the order
of `citation_index`, and `message_traces`. `request` is what the handler keeps in memory:
the hits of the search and the context collected for the model. `shown` says which parse
result of a file can be retrieved; its changes are what `ParsePipeline` and
`DocumentVersions` describe in detail. `wasVisible`, `touched` and `cut` are history.

**Steps.** A step ends at every statement that looks at chunks, at every call to another
service and at every commit. The two handlers, `create_message` and
`stream_create_message_events`, do the same in the same order and differ in their commits:
a stream commits both rows first (`Ask`), the other commits once (`Save`).

| Actions | Code |
|---|---|
| `HideFile`, `ShowFile`, `DisableKnowledgeBase`, `DeleteConversation` | the other components, as far as a request sees them |
| `Ask`, `AskRejected`, `Route` | the head of both handlers; the routers decide anything |
| `FindSummaries` | `search_document_summaries` |
| `Search`, `LoadChunks`, `Rerank` | `search_knowledge_base`, then `apply_route_preferences` and `apply_evidence_gate`: the indexes find any chunks, the reranker keeps any, in any order |
| `LoadHits`, `LoadSections` | the two queries of `expand_context_to_section_chunks`; `Section` is what `collect_section_chunks` returns |
| `LoadNeighbors` | `expand_context_to_graph_neighbors`, `apply_image_display_policy` |
| `ReadOverview` | `read_knowledge_base_overall`, which may rebuild and commit |
| `Answer`, `Save`, `Finish` | the answer is complete; the final commit; the last event |
| `Fail`, `Disconnect`, `Crash` | any exception; the client is gone; the process is gone |

**Properties.** `AnswerIsWhole` is about the commit: an answer is there with its trace and
its citations or not at all. `ContextWasCurrent` and `EvidenceIsCited` bound the context
from above and below: nothing that could not be retrieved at some time during the request,
and every hit that passed the gate, unless its file changed. `SettledAnswersStay` and
`StreamsSettle` are about errors, before and after the commit.

**What the code does not protect.** A disconnect is a `GeneratorExit`, which the handler
does not catch, and nothing sweeps messages left in `streaming` after it or after a crash
(`cut`). The rebuild of the overview commits the question of a request that is not
streamed, which stays unanswered if the model then fails. `max_neighbors`
(`conversations.py:1536`, configured as 3) is not used by the function that takes it, so
the model adds every neighbour. The prompt numbers every item of the context, and
`citation_index` only the citable ones: with the overview in front (a `mixed` question)
every citation is one off from the number in the text, against
`docs/specs/SDD.v0.1.md:764`.

## 7. Accounts

**State.** The columns of `users` that decide anything: `name` (the user name, or the session
id of a consumer), `bySession`, `role`, `status`, `deleted`, and `failures` and `lock`
(`failed_login_count`, and `locked_until` as unset, in the future or in the past). `token`
says to whom a refresh token was issued, `revoked` is `revoked_refresh_tokens`. `request`
holds, for each request that is at its call to bcrypt, what it has read. `tries` and `raced`
are history: the wrong passwords since the account was last reset or locked, and the accounts
of which count or lock was written from a row that had changed since it was read.

**Steps.** bcrypt is slow, and nothing locks the row, so a request that hashes or verifies is
two steps; every other request is one. The ORM writes a column only if it differs from what
was loaded (`Cleared`): a login with the right password does not touch a count that was zero
when it was read, and that is what keeps a lock in place that came meanwhile.

| Actions | Code |
|---|---|
| `Login`, `WrongPassword`, `RightPassword`, `LockExpires` | `authenticate_user`, the clock |
| `BeginRegister`, `BeginCreate`, `BeginSession`, `InsertAccount`, `InsertRefused` | `register_user`, `create_user`, `find_or_create_consumer_by_session_id`; the unique indexes of migrations 0018 and 0019 (`MayInsert`) |
| `ResumeSession`, `ChooseUser` | `create_consumer_session` for a row that exists, and for a user picked by name |
| `Refresh`, `Logout`, `ExpireToken` | `POST /auth/refresh`, `POST /auth/logout`, expiry |
| `UpdateRole`, `Disable`, `Enable`, `Delete`, `BeginReset`, `ResetPassword` | `users.py`, behind `require_admin_user` |
| `Crash` | the process dies and starts again; `create_default_admin` finds its row |

**Properties.** `CountFollowsTries` relates count, lock and history for accounts without a
race. With races counts are lost, and `LockComesAnyway` bounds by how much: `n` concurrent
clients at threshold `k` get fewer than `Ways[<<n, k>>]` wrong passwords through, the number of
interleavings of outdated counts. `LockOutlivesRequests` is about a lock that comes while
another request is at bcrypt. `NamesIdentify` rests on the indexes alone.
`TokensForActive` allows the one case the code has: a login whose account was disabled
while its password was verified.

**What the code does not protect.** An expired lock does not reset the count, so one more wrong
password locks again. A refresh does not revoke the token it was given. The session id of a deleted
consumer is taken for good (0018 has no condition on `deleted_at`), so that
session gets an error ever after. Nothing keeps the last administrator from being
disabled or deleted.

## 8. Library

**State.** `base` is the status of one knowledge base (several share no rows). `file` are its
rows; a row that is flushed and not committed is a `draft` of the upload in whose `mine` it is.
`stored` are the rows whose object was put, `request` the uploads, `rebuild` the rebuilds of the
overview with what each has `seen`, `listing` what the object names and counts (it names
`MaxListed` files at most: 20, 1 in the run), `overall` whether the settings of the knowledge base know of it. `forced`, `first`, `stale` and `behind` are history.

**Steps.** `upload_files` is a coroutine of the one process: it gives the event loop up while it
reads bodies, and not from its first query to its commit. `LoopFree` is that fact: uploads do not
interleave between check and commit, though deletes, parse jobs and rebuilds, which run in
threads, go on at every step. Names are unique among the visible rows by an index of the
database as well (`IndexAdmits`: `uq_files_kb_filename_active` of migration 0005, which the ORM model
does not mention), contents are not. The properties say what `LoopFree` is needed
for: an upload does not wait in that index for another, which could never answer, since the one
that waits holds the loop; and equal contents are found. Were the objects put with an `await`, or
with more processes (`uvicorn --workers`), the second would be lost, and the first with
an `await`: the mutant `LoopGivenUp`.

| Actions | Code |
|---|---|
| `SetStatus` | `update_knowledge_base`, `delete_knowledge_base` |
| `BeginUpload`, `CheckUpload`, `RefuseUpload` | the head of `upload_files`, `prepare_upload`, `ensure_unique_incoming_names`, `find_duplicate_hashes` |
| `StoreFile`, `AbandonUpload`, `CommitUpload` | one turn of its loop with `ensure_file_name_available`, the flush under the unique index, and `put_object`; an exception; the commit |
| `ParseFile`, `FailFile`, `DeleteFile` | what `ParsePipeline` does to the status, in one step each |
| `ChunkFile`, `IndexFile`, `AskRebuild` | who asks for a rebuild: the two stages of a job, a question, `dev/rebuild_knowledge_overalls.py` |
| `ReadRows`, `PutListing`, `SaveOverall`, `Missed` | `rebuild_knowledge_base_overall` |

**Properties.** `UploadsNeverWait`, `ContentOnceUnlessForced`, `FilesHaveObjects` relate the rows of
different uploads, and rows to objects. `OverviewIsCurrent` says when the overview may be relied
on: a rebuild that started after a file was indexed counts it, and names it or as many others as
it may, unless it failed or one that had read earlier put after it (`behind`). Which files
are named, the first by `created_at` (the start of the transaction that uploaded them), is left open.

**What the code does not protect.** Files of one batch are not compared by content. A batch
that fails leaves the objects it has put. No delete rebuilds the overview, which goes on
naming and counting the file until something else does. A knowledge base that is
deleted while an upload reads its bodies still gets the files: its status is looked at once.

## 9. QuestionRouting

**State.** `question` is which keyword tables a question hits, `category` and `route` the two
decisions, `items` the context in order, with score, modality and pictures of each, `passed`
(history) the chunks that passed the evidence gate.

**Steps.** One per stage of `prepare_message_context`, which the streaming handler repeats. The
classifier and the route model say anything or nothing; searches find any lists of chunks up to
their limits; the reranker gives any scores. Rank fusion, cuts, stable sorts, section and
neighbour expansion and the image policy are computed as the code does.

| Actions | Code |
|---|---|
| `Ask`, `Decide` | `RuleBasedKnowledgeSearchRouter.decide`, `LLMKnowledgeSearchRouter.decide` with its overrides |
| `AnswerOverview`, `AnswerDirectly`, `AnswerFromSummaries`, `GoSearching` | the paths of `prepare_message_context` |
| `RouteByModel`, `RouteByRules` | `LLMQueryRouter.route`, `RuleBasedQueryRouter.route`, `normalize_route_decision` |
| `Search`, `Rerank` | `search_knowledge_base`: `merge_candidates`, `RERANK_CANDIDATE_LIMIT`, `top_k` |
| `Gate`, `Expand`, `Show` | `apply_route_preferences` and `apply_evidence_gate`; sections and neighbours; `apply_image_display_policy` and the overview |

**Properties.** `SearchedUnlessSafe`, `PicturesOnlyIfAskedFor` and `ContextGrounded` each relate
the end of a question to decisions made several steps earlier, through whichever path.

## 10. The runs

| Run | Bounds | Shows |
|---|---|---|
| `pipeline_core` | 1 file, 2 jobs, 2 generations, 1 crash, retry + delete | the four invariants, `StatusOnlyForward`, the refinement |
| `pipeline_index` | 1 file, 2 jobs, retry + reindex, calls that fail half way | `Findable` |
| `pipeline_progress` | 2 files, 2 jobs, batch of 1 | `EveryJobSettles` |
| `pipeline_crash` | 1 job, 1 crash | finding: a job that stays INDEXING |
| `summary_core` | 1 document of 2 chunks, 1 task slot, 2 models, 1 retry, 1 stop or crash | the three invariants, `SummaryEnds` |
| `summary_fence` | 2 task slots, 1 model, no restarts, no cut | finding: a completed summary without one of its chunks |
| `graph_core` | 3 documents of 2 knowledge bases, 2 texts each, 3 events, of which 1 a crash, and any indexing | the three invariants, `GraphCatchesUp` |
| `graph_merge` | 3 documents of 1 knowledge base, 4 events | finding: a community keeps a document that is gone |
| `chat_core` | 1 question, 2 files with 3 + 1 and 1 chunks, overlapping sections, 2 events | the four invariants, `SettledAnswersStay`, `StreamsSettle` |
| `accounts_core` | 2 names, 2 clients, threshold 3, 3 accounts, 4 failures, 2 tokens, 1 change | the three invariants, `LockOutlivesRequests`, `TokensForActive` |
| `library_core` | 2 names, 2 contents, 2 uploads of up to 2 files, 3 rows, 2 rebuilds | the four invariants |
| `routing_core` | 4 chunks in 3 kinds of section, limits of 1 to 3, scores 0 to 2 | the three invariants |

**Why these bounds are enough to be interesting.** Everything that relates a file's
jobs needs an old and a new one, hence two jobs and two generations, and one
crash at any point between them; files do not share rows, only the worker's batch,
which `pipeline_progress` covers with a batch smaller than the files. A summary's
verdict needs a chunk that succeeds and one that fails. Two tasks on it need two slots and a retry or
an expired lease, and blur it: `summary_fence` has two slots, and `summary_core`, whose properties
speak of summaries with one task (`OneTask` in section 11, for any number of slots), has one. A graph needs a relation across knowledge bases, a
knowledge base with two documents (a community that grows), and events before, during and
after a build, hence three; the bad merge needs four. Two questions share only the
`updated_at` of their conversation, so one is enough; its sections overlap in the middle chunk,
which shows no text, and its two events are what it takes to replace a file while it is
answered. Accounts need two clients for every race (the bound `Ways` is reached with two
already), three rows for a name that is freed and taken again, and one failure more than the
threshold for the lock after a lock; one change by an administrator can fall between any two
steps. In the library two rows conflict, and the third is what a batch of two needs beside an
older file; a rebuild is overtaken by one other. For routing, every limit is small enough that
lists are cut, one chunk has a picture, one shows no text, and one is only a neighbour.

**Cuts.** `NotOverlapped`, `OneJobOverlaps` and `NotBlurred` stop the exploration
behind states about which nothing is claimed (those states themselves are checked), and `NotOvertaken`
in `summary_core` a step earlier, where an open retry blurs its summary if it commits; `Uneventful` makes a
crash one of the three events of `graph_core`.
`summary_fence` has no cut. In `accounts_core`, `NotCrowded` bounds the tokens and the requests
under way together; in `library_core` it keeps uploads and rebuilds apart, the third file to the
time before there is an overview, and a deleted knowledge base to the time of an upload; in
`routing_core`, `OneOfAKind` explores one of the decisions that differ only in tables and
metadata, which the search treats alike. The last two are about size only: the proofs have none of them.

**Fairness.** `FairSpec` of the pipeline has weak fairness of the worker's loop and of every
runner (threads run), and strong fairness of the answers MinerU and the services give the
*worker*, which asks again at every poll: a service that is asked again and again
answers in the end. A background task ends at its first failure and gets no such
promise. No fairness is given to requests, failures or crashes. For summaries: weak fairness of the poll, of each
task and of the clock, and strong fairness of an answer to the final request,
which a later claim asks again. For the graph: weak fairness of the poll and of the build,
strong fairness of a batch of vectors and of each community's answer, which the next build
asks again if this one fails. For a question: weak fairness of the handler, which goes on or
fails (its calls have timeouts).

## 11. What is proved

`ParsePipelineProofs` holds for all constants that satisfy `PipelineAssumption`.

* `TypeCorrect` - `Spec => [](TypeOK /\ JobsHaveFiles /\ RunnersHaveJobs)`. `TypeOK` alone
  is not inductive: a runner's step looks up the file of its job, so jobs that
  exist need a file, and runners, the batch and owners must refer to jobs that exist.
* `OneGeneration` - `Spec => []OneActiveGeneration`, with no bound on the
  number of files, jobs, generations and crashes. The step that could break it is `InsertChunks`,
  which deactivates the generations its UPDATE saw and adds one. The
  invariant is strengthened by `SwapInv`: `Owned` (an active generation has an owner),
  `Exclusive` (on a file that is not in `overlapped` at most one runner is inside an advance),
  `SwapReady` (a runner about to insert has in `gens` every generation of its
  file that is active now), and the property itself, `AtMostOne`. `SwapReady` needs
  `Exclusive`, since only another runner's insert could add a generation in between;
  deletes only remove.

Its second part goes on to the versions of a file, for the same constants.

* `LatestSuccessIsServed`, `FilesShowOutcome` - which chunks answers may use, and what the file row
  says. `load_chunks` looks at no job, and a handler writes the file's status only if it differs from
  the one its session loaded, so neither is inductive alone. `VersionInv` adds what a runner inside
  an advance knows (`RunnerFits`: its pc fits the status of its job, `SeenFits`: the status it loaded is
  the file's unless a retry changed it, `ChunksFit`: from the insertion on the active chunks are its
  own), that newer jobs are still queued while an older one is inside an advance, and what the rows say while nobody
  is (`FileFits`). Since jobs are numbered as they are created, a retry names the newest (`JobsInOrder`, `LatestKnown`).
* `JobsMoveForward` - `Spec => StatusOnlyForward`, from the same invariant: `AtStage` excludes that
  a handler writes the status of a stage its job has left.
* `PipelineImplementsVersions` - `Spec => ImplementsVersions`. Each step is of one of four kinds:
  `Finish` puts a version in service, retries, failures and deletes withdraw it, an overlap retires the
  file, and every other step maps to a stutter. That `Finish` serves something newer than
  everything served before is where `VersionInv` is needed.
* `SearchFindsChunks` - `Findable`, for any pipeline without deletes (`"delete" \notin Requests`), as in
  `pipeline_index`. A delete that fails before its commit has emptied the indexes of a file that is
  still served, so with deletes it is false. `FoundInv`: what `Upserted` records is still true at `Finish`,
  because without deletes nothing leaves an index, and a point that a reindex makes inactive is `withdrawn`.

`DocumentSummaryProofs` holds for all constants that satisfy `SummaryAssumption`: any number of
summaries, chunks, concurrent tasks, models, retries, stops and crashes, and without the cuts of the runs.

* `SummaryTypes`, `SummaryCovers`, `SummaryLeavesNoChunk`, `SummaryRebuilds` - from one invariant,
  `WorkInv`. A task is recognised by its worker's id, which proves nothing between two tasks of one
  process, so the invariant says that on a summary outside `blurred` there is one task (`OneTask`),
  that a claim of a thread that outlives its worker cannot carry the id of the present one
  (`late # worker`), and how far a current task is (`Progress`): a chunk it has done is answered or
  failed with the task's model. Between a check and its commit a task need not be current any more,
  and `Progress` says of it that nothing has changed all the same: the chunk it saves is still running, the
  chunks it counted are still answered. Only a retry can break that, and then the summary is blurred
  (`RetryKeeps`, with `ReadyWrites` for a retry that nothing overtook). `RequestsRight` says what an open retry
  has found, and `EndedWhole` is what remains of all this in the rows.

`KnowledgeGraphProofs` holds for all constants that satisfy `GraphAssumption`: any documents,
knowledge bases and texts, and builds that fail anywhere.

* `GraphTypes`, `GraphCommunities` - inductive together with `MergedInText`: what counts as merged is in the text.
* `GraphRelations` - needs `BuildUnfinished` (a build that may still replace relations has taken the
  status `completed` away) and `BuildsOwnTexts` (what it relates are the texts of the documents it loaded).
* `GraphChunks` - the chunk graph is built after the graph is completed, from documents
  read again. `ChunkInv` compares three times: the fingerprint, what the build has loaded and the
  present (`NothingAhead`, `ItemsCover`), and holds because a text is only replaced by a later one (`NextAdvances`).
  What is `missed` is noted anew whenever chunks are read, which concerns no finished chunk graph,
  because the knowledge base counts as skipped until its relations are replaced (`TodoSkipped`).

`ChatAnswerProofs` holds for all constants that satisfy `ChatAssumption`, whatever search and
reranker return.

* `WholeAnswers` - `Spec => []AnswerIsWhole`. Inductive together with `SettledLast`: an answer is
  settled only by the last commit of its handler or after it, so that the rows of a question
  that is still open are empty when `Ask` and `Fail` write its status.
* `AnswersSettleOnce` - `Spec => SettledAnswersStay`, from the same invariant: `Save` meets no
  settled answer, and `Fail` writes only over `streaming`.

* `ChatTypes`, `ContextIsCurrent`, `CitationsAreDistinct`, `EvidenceReachesCitations` - from `ContextInv`.
  `HandlerFits` says of a handler, stage by stage, what it holds: nothing that was not visible since
  the question was asked (`wasVisible`), every hit whose file did not change (`touched`), and no
  item twice. It takes as parameters what may change, so a step of the world (`WorldKeepsContext`), which
  only adds to both histories, and a step of the handler can use it alike. `CitedFits` is what the
  commit leaves of it in the rows. Both bounds on the context need the other: a hit that is
  still visible is in the section that is loaded for it (`SectionsOf`), and only because
  of that is it still there when the neighbours are added.

Every step but `Ask`, `Save`, `Fail` and `Crash` is covered, for the first two theorems, by one lemma
(`MovesKeeps`): it moves a handler on and commits at most its question.

`AccountsProofs` holds for all constants that satisfy `AccountsAssumption`: any number of names,
accounts, clients and tokens, and any threshold.

* `AccountsTypes`, `AccountsNames`, `AccountsCount` - types, `NamesIdentify` and `CountFollowsTries`
  are inductive together with `RequestsMayGoOn` (a request back from bcrypt refers to an account
  that exists, had read a count below the bound and no running lock) and `DeletedAreDisabled`.
  `CountFollowsTries` goes through because a write from an outdated read puts the account in `raced`.
* `AccountsLock`, `AccountsTokens`, `AccountsDeleted` - the action properties, from that invariant:
  which steps end a request (`EndedBy`), and which issue a token (`IssuedTo`).
* `AccountsLocked` - `Spec => []LockComesAnyway`. `LockInv` gives each request that verifies a password
  of an account the count it will add to, and every other one the count in the row (`Held`). Such a
  vector of counts leaves room for so many wrong passwords in any order of the clients
  (`AddsUp`: the client at place `p` with count `v` for at most `Ways[<<p, Threshold - 1 - v>>]`), and the tries
  made so far and that room do not exceed the bound, whichever order is chosen (`Delayed`). A
  wrong password writes a count that may be lower than others: all who hold a higher one fall
  back to it. In an order in which the writer stands last among those, that costs one try
  and no more, which is the recursion of `Ways` (`DelayedWrite`); a request that begins or ends only raises
  counts (`DelayedMore`), a reset or a lock starts anew (`DelayedFresh`).

`LibraryProofs` holds for all constants that satisfy `LibraryAssumption`.

* `LibraryTypes`, `LibraryNeverWaits`, `LibraryContent`, `LibraryObjects` - what is promised of visible rows is
  true a step before the commit of drafts too (`ObjectsAhead`, `ContentAhead`). That needs
  `OneStores` (one upload is between check and commit), `DraftsAreMine`, and `CheckHolds`: the check for
  duplicates, made once, is still true at every later step, because others may only delete.
* `LibraryOverview` - by `OverviewInv`: while the overview does not count an indexed file, a rebuild
  that has not yet read its rows, or has read them with it, is under way, or `behind` is set; and it
  names all that it counts, or as many as it may (`ListingCut`).

`QuestionRoutingProofs` holds for all constants that satisfy `RoutingAssumption`.

* `RoutingSearched` - by `Categorized` (the category on the path comes from the rules, or from the
  classifier after its override) and `DecidedInTime` (nothing is searched without a decision).
* `RoutingAgrees` - whatever a model says, `normalize_route_decision` makes the parts agree.
* `RoutingTypes`, `PicturesWithheld`, `EvidenceGrounds` - from `EvidenceInv`: there is nothing before the search,
  each chunk is in the context once (`Distinct`) from the fusion on, what passed the gate stays, and what
  is added is in a section of something that passed or a neighbour of that (`Near`, `Grounded`). Each stage has a lemma
  that says what the function it applies keeps (`MergedOf`, `GatedOf`, `WithSectionsOf`, `WithNeighboursOf`, `DisplayedOf`).

`SublistsProofs` has no assumption. What a filter, a removal of duplicates, a stable sort or a joining of
lists returns is an induction over their length, and the library's theorems of
induction take an operator, which no prover here can instantiate. Each is done by hand: of the lengths
at which the claim fails, if any, there is a least one (`LeastExists`, from the library's well-foundedness of `<` on
the naturals), and the length before it does not fail. `FiltersExist` shows that the recursive
function inside `Sublist` exists at all; `Place` counts what comes before an element, and `LaterPlace` and
`PlacesTaken` make that a permutation. `Ways` in `AccountsProofs` is treated the same way (`WaysExist`, over the
diagonals of its grid).

**Only model-checked.** Liveness under fairness (`EveryJobSettles`, `SummaryEnds`, `GraphCatchesUp`,
`StreamsSettle`) and `ENABLED` are beyond the prover, and stay with TLC. Every invariant and every action property that a passing
run checks, and the refinement, is also a theorem.

## 12. Findings

1. A crash while INDEXING strands the job (`pipeline_crash`).
2. A document summary can be marked completed without one of the chunks that succeeded (`summary_fence`).
3. A merged community summary keeps documents that have left its knowledge base, for good (`graph_merge`).

What else the code does not protect is in the sections of its modules.

## 13. What is not modelled, and why

* The limit `max_steps = 8` of a run: it exceeds the five handlers, and a run that
  it cut would be taken up by the next poll.
* The rebuild of the overview object after a job, and the enqueuing of a summary
  inside chunking as seen from the pipeline: they write nothing the pipeline reads (they are `Library` and `Chunk` in `DocumentSummary`).
* Failures of the database itself, and two deletes or two reindexes of one file at a time.
* The guard that the knowledge base is active: nothing in the pipeline changes it.
* `NO_DOCUMENT_BLOCKS`: normalization fails before it with the same effect.
* How text is normalized and cut into chunks: a function of one document's text; that chunks result
  or none is a choice (`InsertChunks`, `InsertNothing`).
* For summaries: the progress counters, which are recounted at every write; the creation of
  missing extraction rows and the NOT_READY branch of `prepare_document_work`,
  which a current summary does not reach; the semaphores that bound concurrent calls; the
  backfill script; what the thread of a cancelled task commits after its check, which it might
  have committed before the stop.
* For the graph: similarity, thresholds and Top-K, the counts in responses, vectors of another
  embedding model (every model is the same), failures of the database; the vectors of chunks
  (the chunk graph is written from what was loaded, whatever is cached).
* For answers: attachments and their objects, tokens as they are streamed, the wording, scores,
  feedback, failures of the database (one between the commit of `Ask` and its first event
  leaves the message in `streaming`), and changes of chunk relations during a request.
* For accounts: passwords, emails, display names, audit entries; access tokens (whoever has one has a
  refresh token of the same login).
* For the library: names and settings of knowledge bases, validation of a file beyond its outcome, the
  summaries that are appended to the overview when it is read.
* For routing: the keyword tables and the prompts, calls to the models, weights and confidence.
* The client of the language model (`llm.py`): prompts, and the filter that takes reasoning out of a
  streamed answer, a function of the text of one stream.
* Feedback, the audit log, model settings and profile (single writes that nothing else depends on in
  order), maintenance scripts, the HTTP layer and the frontend.
