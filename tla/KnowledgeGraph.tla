--------------------------- MODULE KnowledgeGraph ---------------------------
(***************************************************************************)
(* The knowledge graph: the worker that rebuilds the vectors of document   *)
(* summaries, the relations between documents, the community summary of    *)
(* each knowledge base and the chunk graphs, while summaries come and go,  *)
(* knowledge bases are switched on and off, and administrators ask for a   *)
(* refresh.                                                                *)
(*                                                                         *)
(* A build works on the documents it loaded at its start; a fingerprint of *)
(* them, stored at its end, tells the next poll whether to build again.    *)
(* One worker of one process builds; a step ends at every commit and at    *)
(* every call to a model.  Which pairs of vectors are similar enough is    *)
(* left out: every two documents with a vector are related.                *)
(***************************************************************************)
EXTENDS Naturals, FiniteSets

CONSTANTS
    Docs,           \* document summaries, one per parse job
    KBs,            \* knowledge bases
    KbOf,           \* the knowledge base of a document
    NoFingerprint,  \* source_fingerprint is NULL
    MaxTexts,       \* bound: texts a summary has in its life
    MaxChanges,     \* bound: events outside the worker
    MaxCrashes      \* bound: stops and crashes of the backend

ASSUME GraphAssumption ==
    /\ KbOf \in [Docs -> KBs]
    /\ MaxTexts \in Nat \ {0}
    /\ MaxChanges \in Nat
    /\ MaxCrashes \in Nat

VARIABLES
    doc,        \* document_summaries, as far as the graph reads them
    indexed,    \* documents whose file is INDEXED
    kbActive,   \* knowledge bases that are active
    graph,      \* knowledge_graph_state
    embedding,  \* document_summary_embeddings: the text a vector is of, 0 without one
    relations,  \* document_summary_relations, with the texts they were computed from
    community,  \* knowledge_base_community_summaries
    chunkGraph, \* the documents whose chunks are in chunk_relations
    build,      \* the build in progress
    changes, crashes,
    dropped,    \* history: a forced refresh arrived during a build
    skipped,    \* history: knowledge bases whose chunk graph the last build has not replaced
    missed      \* history: documents shown whose file was not INDEXED when chunks were read

vars == <<doc, indexed, kbActive, graph, embedding, relations, community, chunkGraph, build,
          changes, crashes, dropped, skipped, missed>>

-----------------------------------------------------------------------------
(* Types *)

Texts == 1 .. MaxTexts
Versions == Docs \X Texts

\* A summary that can be shown, one that is queued again, one whose file was
\* deleted or parsed again; `none' has never been finished.
DocStates == {"none", "shown", "queued", "gone"}

BuildStatuses == {"none", "pending", "running", "completed", "failed"}
CommunityStatuses == BuildStatuses \cup {"not_ready"}

\* A set of documents with their texts; also what a fingerprint stands for.
DocumentSets == UNION {[S -> Texts] : S \in SUBSET Docs}
Fingerprints == DocumentSets \cup {NoFingerprint}

\* `text' is what the summary was made from.
Community == [status : CommunityStatuses, fingerprint : Fingerprints,
              text : SUBSET Versions, merged : SUBSET Docs]

BuildPcs == {"idle", "cache", "embed", "relate", "communities", "summarize", "chunks"}

\* `docs' is what the build loaded at its start, `stale' the documents to embed,
\* `vectors' those it read back, `todo' the knowledge bases the current stage has
\* not done yet, `items' the documents of the chunks it relates.
Build == [pc : BuildPcs, docs : DocumentSets, stale : SUBSET Docs,
          vectors : SUBSET Versions, todo : SUBSET KBs, items : SUBSET Docs]

TypeOK ==
    /\ doc \in [Docs -> [state : DocStates, text : 0 .. MaxTexts]]
    /\ indexed \in SUBSET Docs
    /\ kbActive \in SUBSET KBs
    /\ graph \in [status : BuildStatuses, fingerprint : Fingerprints]
    /\ embedding \in [Docs -> 0 .. MaxTexts]
    /\ relations \in SUBSET SUBSET Versions
    /\ community \in [KBs -> Community]
    /\ chunkGraph \in [KBs -> SUBSET Docs]
    /\ build \in Build
    /\ changes \in 0 .. MaxChanges
    /\ crashes \in 0 .. MaxCrashes
    /\ dropped \in BOOLEAN
    /\ skipped \in SUBSET KBs
    /\ missed \in SUBSET Docs

-----------------------------------------------------------------------------
(* Queries *)

Versioned(D) == {<<d, D[d]>> : d \in DOMAIN D}

\* load_graph_documents: finished summaries of current files of active
\* knowledge bases.
Documents ==
    [d \in {e \in Docs : doc[e].state = "shown" /\ KbOf[e] \in kbActive} |-> doc[d].text]

\* The documents of D in one knowledge base, and the fingerprint of these.
Members(D, k) == [d \in {e \in DOMAIN D : KbOf[e] = k} |-> D[d]]

ExpectedStatus(D, k) == IF DOMAIN Members(D, k) = {} THEN "not_ready" ELSE "completed"

UpToDate(D, k) ==
    /\ community[k].status = ExpectedStatus(D, k)
    /\ community[k].fingerprint = Members(D, k)

CommunitiesNeedUpdate(D) == \E k \in kbActive : ~UpToDate(D, k)

\* load_chunk_graph_items: the chunks that were extracted, of files that are
\* INDEXED, whatever became of the summary of their document.
MayHaveItems(k) ==
    {d \in indexed : KbOf[d] = k /\ k \in kbActive /\ doc[d].state \in {"none", "shown", "queued"}}
MustHaveItems(k) == {d \in MayHaveItems(k) : doc[d].state = "shown"}

sources == <<doc, indexed, kbActive>>
derived == <<embedding, relations, community, chunkGraph>>
history == <<dropped, skipped, missed>>

-----------------------------------------------------------------------------
(* What happens outside the worker *)

Change == changes < MaxChanges /\ changes' = changes + 1

\* A summary is finished, for the first time or again.
SummaryFinishes(d) ==
    /\ Change
    /\ doc[d].state \in {"none", "queued"}
    /\ doc[d].text < MaxTexts
    /\ doc' = [doc EXCEPT ![d] = [state |-> "shown", text |-> @.text + 1]]
    /\ UNCHANGED <<indexed, kbActive, graph, derived, build, crashes, history>>

\* A retry queues it again; a delete or a new parse takes it away for ever.
SummaryLeaves(d) ==
    /\ Change
    /\ \/ /\ doc[d].state = "shown"
          /\ doc' = [doc EXCEPT ![d].state = "queued"]
          /\ UNCHANGED indexed
       \/ /\ doc[d].state # "gone"
          /\ doc' = [doc EXCEPT ![d].state = "gone"]
          /\ indexed' = indexed \ {d}
    /\ UNCHANGED <<kbActive, graph, derived, build, crashes, history>>

\* The summary is queued when the chunks are there, before they are embedded: its
\* file is indexed sooner or later than the summary is finished, or never.
FileIndexed(d) ==
    /\ doc[d].state # "gone"
    /\ d \notin indexed
    /\ indexed' = indexed \cup {d}
    /\ UNCHANGED <<doc, kbActive, graph, derived, build, changes, crashes, history>>

\* An older job of the file marks it failed, or parses.
FileNotIndexed(d) ==
    /\ Change
    /\ d \in indexed
    /\ indexed' = indexed \ {d}
    /\ UNCHANGED <<doc, kbActive, graph, derived, build, crashes, history>>

SwitchKnowledgeBase(k) ==
    /\ Change
    /\ kbActive' = IF k \in kbActive THEN kbActive \ {k} ELSE kbActive \cup {k}
    /\ UNCHANGED <<doc, indexed, graph, derived, build, crashes, history>>

\* POST /knowledge-graph/refresh
RequestRefresh(force) ==
    /\ Change
    /\ graph' = [status |-> "pending", fingerprint |-> NoFingerprint]
    /\ embedding' = IF force THEN [d \in Docs |-> 0] ELSE embedding
    /\ dropped' = (dropped \/ (force /\ build.pc # "idle"))
    /\ UNCHANGED <<sources, relations, community, chunkGraph, build, crashes, skipped, missed>>

-----------------------------------------------------------------------------
(* The build *)

NoBuild == [pc |-> "idle", docs |-> [d \in {} |-> 0], stale |-> {}, vectors |-> {},
            todo |-> {}, items |-> {}]

outside == <<sources, changes, crashes>>

\* Faulty variant: communities that failed are not looked at.
NothingToDoInGraph == graph.status = "completed" /\ graph.fingerprint = Documents

NothingToDo ==
    /\ graph.status = "completed"
    /\ graph.fingerprint = Documents
    /\ ~CommunitiesNeedUpdate(Documents)

\* The poll of the worker.
Prepare ==
    /\ build.pc = "idle"
    /\ ~NothingToDo
    /\ graph' = [graph EXCEPT !.status = "running"]
    /\ build' = [NoBuild EXCEPT !.pc = "cache", !.docs = Documents]
    /\ UNCHANGED <<derived, outside, history>>

\* The graph is up to date: the poll leaves it alone.
PollNothing ==
    /\ build.pc = "idle"
    /\ NothingToDo
    /\ UNCHANGED vars

\* The cached vectors that are missing or of another text.
LoadCache ==
    /\ build.pc = "cache"
    /\ build' = [build EXCEPT !.pc = "embed",
                    !.stale = {d \in DOMAIN build.docs : embedding[d] # build.docs[d]}]
    /\ UNCHANGED <<graph, derived, outside, history>>

\* One batch is embedded and saved.
EmbedBatch ==
    /\ build.pc = "embed"
    /\ \E batch \in SUBSET build.stale :
        /\ batch # {}
        /\ embedding' = [d \in Docs |-> IF d \in batch THEN build.docs[d] ELSE embedding[d]]
        /\ build' = [build EXCEPT !.stale = @ \ batch]
    /\ UNCHANGED <<graph, relations, community, chunkGraph, outside, history>>

\* The vectors there are now, of the documents of the build.
Vectors == {<<d, embedding[d]>> : d \in {e \in DOMAIN build.docs : embedding[e] # 0}}

\* They are read back: some of them may be gone again.
EmbeddingDone ==
    /\ build.pc = "embed"
    /\ build.stale = {}
    /\ build' = [build EXCEPT !.pc = "relate", !.vectors = Vectors]
    /\ UNCHANGED <<graph, derived, outside, history>>

\* Faulty variant: the status a community would get.
FailBuildNotReady ==
    /\ build.pc = "embed"
    /\ build.stale # {}
    /\ graph' = [graph EXCEPT !.status = "not_ready"]
    /\ build' = NoBuild
    /\ UNCHANGED <<derived, outside, history>>

\* An exception: the build is marked failed.
FailBuild ==
    /\ build.pc = "embed"
    /\ build.stale # {}
    /\ graph' = [graph EXCEPT !.status = "failed"]
    /\ build' = NoBuild
    /\ UNCHANGED <<derived, outside, history>>

Related(V) == {{p, q} : p \in V, q \in V} \ {{p} : p \in V}

\* Faulty variant: relations are added to those of earlier builds.
AddRelations ==
    /\ build.pc = "relate"
    /\ relations' = relations \cup Related(build.vectors)
    /\ build' = [build EXCEPT !.pc = "communities", !.vectors = {}]
    /\ UNCHANGED <<graph, embedding, community, chunkGraph, outside, history>>

ReplaceRelations ==
    /\ build.pc = "relate"
    /\ relations' = Related(build.vectors)
    /\ build' = [build EXCEPT !.pc = "communities", !.vectors = {}]
    /\ UNCHANGED <<graph, embedding, community, chunkGraph, outside, history>>

Empty(k) ==
    [community[k] EXCEPT !.status = "not_ready", !.fingerprint = Members(build.docs, k),
                         !.merged = {}]

\* What each active knowledge base needs; the others are left as they are.
PrepareCommunities ==
    LET update == {k \in kbActive : /\ DOMAIN Members(build.docs, k) # {}
                                    /\ ~UpToDate(build.docs, k)} IN
    /\ build.pc = "communities"
    /\ community' = [k \in KBs |->
            IF k \in update THEN [community[k] EXCEPT !.status = "running"]
            ELSE IF k \in kbActive /\ DOMAIN Members(build.docs, k) = {} THEN Empty(k)
            ELSE community[k]]
    /\ build' = [build EXCEPT !.pc = "summarize", !.todo = update]
    /\ UNCHANGED <<graph, embedding, relations, chunkGraph, outside, history>>

\* Documents that were not merged yet go into the summary there is, when there
\* are any and not all are; otherwise a new one is made from all.
NewText(k) ==
    LET D == Members(build.docs, k)
        new == {d \in DOMAIN D : d \notin community[k].merged}
    IN IF /\ community[k].text # {} /\ community[k].merged # {}
          /\ new # {} /\ new # DOMAIN D
       THEN community[k].text \cup {<<d, D[d]>> : d \in new}
       ELSE Versioned(D)

\* Faulty variant: the fingerprint is computed again when the summary is saved.
SaveWithFingerprintOfNow(k) ==
    /\ build.pc = "summarize"
    /\ k \in build.todo
    /\ community' = [community EXCEPT ![k] =
            [status |-> "completed", fingerprint |-> Members(Documents, k),
             text |-> NewText(k), merged |-> DOMAIN Members(build.docs, k)]]
    /\ build' = [build EXCEPT !.todo = @ \ {k}]
    /\ UNCHANGED <<graph, embedding, relations, chunkGraph, outside, history>>

\* The model's answer, with what the build knows of the documents.
SaveCommunitySuccess(k) ==
    /\ build.pc = "summarize"
    /\ k \in build.todo
    /\ community' = [community EXCEPT ![k] =
            [status |-> "completed", fingerprint |-> Members(build.docs, k),
             text |-> NewText(k), merged |-> DOMAIN Members(build.docs, k)]]
    /\ build' = [build EXCEPT !.todo = @ \ {k}]
    /\ UNCHANGED <<graph, embedding, relations, chunkGraph, outside, history>>

SaveCommunityFailure(k) ==
    /\ build.pc = "summarize"
    /\ k \in build.todo
    /\ community' = [community EXCEPT ![k].status = "failed",
                                      ![k].fingerprint = Members(build.docs, k)]
    /\ build' = [build EXCEPT !.todo = @ \ {k}]
    /\ UNCHANGED <<graph, embedding, relations, chunkGraph, outside, history>>

\* COMPLETED, whatever was asked for in between; the chunk graphs come after.
Finish ==
    /\ build.pc = "summarize"
    /\ build.todo = {}
    /\ graph' = [status |-> "completed", fingerprint |-> build.docs]
    /\ build' = [build EXCEPT !.pc = "chunks", !.todo = {KbOf[d] : d \in DOMAIN build.docs}]
    /\ skipped' = {KbOf[d] : d \in DOMAIN build.docs}
    /\ UNCHANGED <<derived, outside, dropped, missed>>

\* The chunks of one knowledge base are read; it has some.
LoadChunkItems(k) ==
    /\ build.pc = "chunks"
    /\ build.items = {}
    /\ k \in build.todo
    /\ \E items \in SUBSET MayHaveItems(k) :
        /\ items # {}
        /\ MustHaveItems(k) \subseteq items
        /\ build' = [build EXCEPT !.items = items, !.todo = @ \ {k}]
    /\ missed' = {d \in missed : KbOf[d] # k}
                   \cup {d \in Docs \ indexed : KbOf[d] = k /\ doc[d].state = "shown"}
    /\ UNCHANGED <<graph, derived, outside, dropped, skipped>>

\* Faulty variant: the relations of all knowledge bases are deleted.
DeleteAllChunkRelations(k) ==
    /\ build.pc = "chunks"
    /\ \E d \in build.items : k = KbOf[d]
    /\ chunkGraph' = [q \in KBs |-> IF q = k THEN build.items ELSE {}]
    /\ skipped' = skipped \ {k}
    /\ build' = [build EXCEPT !.items = {}]
    /\ UNCHANGED <<graph, embedding, relations, community, outside, dropped, missed>>

\* Its chunk relations are replaced.
ReplaceChunkRelations(k) ==
    /\ build.pc = "chunks"
    /\ \E d \in build.items : k = KbOf[d]
    /\ chunkGraph' = [chunkGraph EXCEPT ![k] = build.items]
    /\ skipped' = skipped \ {k}
    /\ build' = [build EXCEPT !.items = {}]
    /\ UNCHANGED <<graph, embedding, relations, community, outside, dropped, missed>>

\* It has no items, or an exception was logged, before or after they were read.
SkipChunkGraph(k) ==
    /\ build.pc = "chunks"
    /\ \/ /\ build.items = {}
          /\ k \in build.todo
          /\ build' = [build EXCEPT !.todo = @ \ {k}]
       \/ /\ \E d \in build.items : k = KbOf[d]
          /\ build' = [build EXCEPT !.items = {}]
    /\ UNCHANGED <<graph, derived, outside, history>>

BuildEnds ==
    /\ build.pc = "chunks"
    /\ build.todo = {}
    /\ build.items = {}
    /\ build' = NoBuild
    /\ UNCHANGED <<graph, derived, outside, history>>

\* The process stops or dies, and comes back.
Crash ==
    /\ crashes < MaxCrashes
    /\ crashes' = crashes + 1
    /\ build' = NoBuild
    /\ UNCHANGED <<sources, graph, derived, changes, history>>

Init ==
    /\ doc = [d \in Docs |-> [state |-> "none", text |-> 0]]
    /\ indexed = {}
    /\ kbActive = KBs
    /\ graph = [status |-> "none", fingerprint |-> NoFingerprint]
    /\ embedding = [d \in Docs |-> 0]
    /\ relations = {}
    /\ community = [k \in KBs |-> [status |-> "none", fingerprint |-> NoFingerprint,
                                   text |-> {}, merged |-> {}]]
    /\ chunkGraph = [k \in KBs |-> {}]
    /\ build = NoBuild
    /\ changes = 0
    /\ crashes = 0
    /\ dropped = FALSE
    /\ skipped = {}
    /\ missed = {}

Step ==
    \/ LoadCache \/ EmbedBatch \/ EmbeddingDone \/ FailBuild \/ ReplaceRelations
    \/ PrepareCommunities
    \/ \E k \in KBs : \/ SaveCommunitySuccess(k) \/ SaveCommunityFailure(k)
                      \/ LoadChunkItems(k) \/ ReplaceChunkRelations(k) \/ SkipChunkGraph(k)
    \/ Finish \/ BuildEnds

Next ==
    \/ \E d \in Docs : \/ SummaryFinishes(d) \/ SummaryLeaves(d)
                       \/ FileIndexed(d) \/ FileNotIndexed(d)
    \/ \E k \in KBs : SwitchKnowledgeBase(k)
    \/ \E force \in BOOLEAN : RequestRefresh(force)
    \/ Prepare \/ PollNothing \/ Step
    \/ Crash

Spec == Init /\ [][Next]_vars

\* The worker polls and its build goes on; a service that is asked again and
\* again answers in the end.
Fairness ==
    /\ WF_vars(Prepare) /\ WF_vars(Step)
    /\ SF_vars(EmbedBatch)
    /\ \A k \in KBs : SF_vars(SaveCommunitySuccess(k))

FairSpec == Spec /\ Fairness

-----------------------------------------------------------------------------
(* Properties *)

\* The graph claims to be that of the documents there are now.
Current == graph.status = "completed" /\ graph.fingerprint = Documents

\* The response for knowledge base k, with relations to other knowledge bases:
\* its own documents and both ends of every relation that touches it.
Touching(k) == {r \in relations : \E p \in r : KbOf[p[1]] = k}
Selected(k) == DOMAIN Members(Documents, k) \cup {p[1] : p \in UNION Touching(k)}
Nodes(k) == DOMAIN Documents \cap Selected(k)

\* When the graph claims to be current, both ends of every relation it shows are
\* documents it shows, with the texts the relation was computed from: also
\* after documents came and went during the build, or the last build failed.
CurrentRelationsHold ==
    Current =>
        \A k \in kbActive : \A r \in Touching(k) :
            \A p \in r : p[1] \in Nodes(k) /\ p \in Versioned(Documents)

\* A community summary that is completed has taken in, in some version, every
\* document its fingerprint names: no document is counted as merged that the
\* model was not given, through failures, crashes and documents that return.
CommunityCoversDocuments ==
    \A k \in KBs :
        community[k].status = "completed" =>
            DOMAIN community[k].fingerprint \subseteq {p[1] : p \in community[k].text}

\* When the graph is current, the chunk graph of a knowledge base covers its
\* documents, unless the last build skipped it or has not come to it yet, except
\* those that were not INDEXED when it read the chunks.  These stay out, also once
\* they are indexed, until something else changes: the fingerprint is of
\* summaries, and no poll sees that a file was indexed.
ChunkGraphFollows ==
    Current =>
        \A k \in kbActive \ skipped :
            DOMAIN Members(Documents, k) \subseteq chunkGraph[k] \cup missed

\* When nothing changes any more, the graph and all communities catch up, through
\* crashes and failures of the models, and every document has its vector, unless a
\* forced refresh arrived during a build.
CaughtUp ==
    /\ Current
    /\ ~CommunitiesNeedUpdate(Documents)
    /\ dropped \/ \A d \in DOMAIN Documents : embedding[d] = Documents[d]

GraphCatchesUp == <>[]CaughtUp

\* SDD 1.5.2: a community summary is generated only from the document summaries
\* of the current files.  Not so when it is merged: what was made from a
\* document that is gone, or from its old text, stays in it.
CommunityFromCurrent ==
    \A k \in kbActive :
        (Current /\ UpToDate(Documents, k) /\ community[k].status = "completed")
            => community[k].text \subseteq Versioned(Documents)
=============================================================================
