----------------------------- MODULE ChatAnswer -----------------------------
(***************************************************************************)
(* Answering a question: the message rows of a request, streamed or not,   *)
(* and the context that is collected for the model, while files are        *)
(* replaced and hidden, clients disconnect, services fail and the process  *)
(* dies.                                                                   *)
(*                                                                         *)
(* A request reads the database at several points; a step ends at every    *)
(* statement that looks at chunks, at every call to another service and at *)
(* every commit.  A streamed request commits its rows first and fills them *)
(* in at the end; one that is not streamed commits once.                   *)
(***************************************************************************)
EXTENDS Naturals, SequencesExt, Sublists

CONSTANTS
    Requests,   \* questions asked in one conversation
    Files,      \* files of its knowledge base
    Chunks,     \* their chunks, of all parse results
    FileOf, VersionOf,  \* the file of a chunk, and the number of its parse result
    Section,    \* the chunks of the section around a chunk, in document order
    Related,    \* chunk_relations
    Blank,      \* chunks without visible text
    Overall,    \* the context item made of the overview
    MaxVersions,    \* bound: parse results of a file
    MaxEvents       \* bound: changes of files, knowledge base and conversation

ASSUME ChatAssumption ==
    /\ MaxVersions \in Nat \ {0}
    /\ MaxEvents \in Nat
    /\ IsFiniteSet(Files) /\ IsFiniteSet(Chunks)
    /\ FileOf \in [Chunks -> Files]
    /\ VersionOf \in [Chunks -> 1 .. MaxVersions]
    /\ Section \in [Chunks -> Seq(Chunks)]
    /\ \A c \in Chunks :
        /\ c \in ToSet(Section[c])
        /\ \A d \in ToSet(Section[c]) :
            FileOf[d] = FileOf[c] /\ VersionOf[d] = VersionOf[c]
    /\ Related \subseteq SUBSET Chunks
    /\ Blank \subseteq Chunks
    /\ Overall \notin Chunks \cup Files
    /\ Chunks \cap Files = {}

VARIABLES
    shown,      \* the parse result of a file that can be retrieved, 0 if none
    newest,     \* the last one there was
    kbActive,   \* the knowledge base is active
    conversation,
    request,    \* the handlers of the questions
    user,       \* questions whose user message is committed
    answer,     \* status of the assistant message
    citations,  \* message_citations, in the order of citation_index
    trace,      \* message_traces: what the model was given, and what was cited
    events,
    wasVisible, \* history: what could be retrieved at some time during the request
    touched,    \* history: files that changed during the request
    cut         \* history: streams that a disconnect or a crash cut off

rows == <<user, answer, citations, trace>>
world == <<shown, newest, kbActive, conversation, events, wasVisible, touched>>
vars == <<rows, world, request, cut>>

-----------------------------------------------------------------------------
(* Types *)

\* A document summary stands in the context for its file.
Items == Chunks \cup Files \cup {Overall}

Pcs == {"new", "route", "search", "load", "rerank", "hits", "sections", "neighbors",
        "summaries", "overview", "answer", "save", "done", "over"}

Request == [pc : Pcs, stream : BOOLEAN, mixed : BOOLEAN,
            hits : SUBSET Chunks, context : Seq(Items)]

AnswerStatuses == {"none", "streaming", "completed", "failed"}

NoTrace == [context |-> <<>>, cited |-> <<>>, saved |-> FALSE]

TypeOK ==
    /\ shown \in [Files -> 0 .. MaxVersions]
    /\ newest \in [Files -> 0 .. MaxVersions]
    /\ kbActive \in BOOLEAN
    /\ conversation \in {"active", "deleted"}
    /\ request \in [Requests -> Request]
    /\ user \in SUBSET Requests
    /\ answer \in [Requests -> AnswerStatuses]
    /\ citations \in [Requests -> Seq(Chunks)]
    /\ trace \in [Requests -> [context : Seq(Items), cited : Seq(Chunks), saved : BOOLEAN]]
    /\ events \in 0 .. MaxEvents
    /\ wasVisible \in [Requests -> SUBSET (Chunks \cup Files)]
    /\ touched \in [Requests -> SUBSET Files]
    /\ cut \in SUBSET Requests

-----------------------------------------------------------------------------
(* Queries *)

\* Active chunks of indexed files that are not deleted.
VisibleIn(S) == {c \in Chunks : S[FileOf[c]] = VersionOf[c]}
Visible == VisibleIn(shown)
ShownFiles(S) == {f \in Files : S[f] # 0}

Open(r) == request[r].pc \notin {"new", "over"}

Goto(r, pc) == request' = [request EXCEPT ![r].pc = pc]

\* The items of a context that are in S.
Among(items, S) == Sublist(items, {k \in DOMAIN items : items[k] \in S})

\* What may be cited: neither the overview nor document summaries.
Citable(items) == Among(items, Chunks)

\* Faulty variant: a hit is skipped if its section was seen in part.
SectionsSkippingOverlaps(hits, rowsOfFile) ==
    FoldLeft(LAMBDA found, c :
                IF ToSet(Section[c]) \cap ToSet(found) # {} THEN found
                ELSE found \o (IF c \in rowsOfFile THEN Section[c] ELSE <<c>>),
             <<>>, hits)

\* The sections of the hits, one after the other; a hit whose parse result has
\* gone from the rows stands alone.
Sections(hits, rowsOfFile) ==
    FlattenSeq([k \in DOMAIN hits |->
                    IF hits[k] \in rowsOfFile THEN Section[hits[k]] ELSE <<hits[k]>>])

\* Faulty variant: the chunks of a section are added although they were seen.
WithoutSeenIgnored(found) == found

\* Each chunk once, where it was found first.
WithoutSeen(found) == OnceEach(found, found)

-----------------------------------------------------------------------------
(* What happens meanwhile *)

Event == events < MaxEvents /\ events' = events + 1

ShowVersion(f, v) ==
    /\ shown' = [shown EXCEPT ![f] = v]
    /\ newest' = [newest EXCEPT ![f] = IF v = 0 THEN @ ELSE v]
    /\ wasVisible' = [r \in Requests |->
            IF Open(r) THEN wasVisible[r] \cup VisibleIn(shown') \cup ShownFiles(shown')
                       ELSE wasVisible[r]]
    /\ touched' = [r \in Requests |-> IF Open(r) THEN touched[r] \cup {f} ELSE touched[r]]

\* A file is parsed again, or deleted.
HideFile(f) ==
    /\ Event
    /\ shown[f] # 0
    /\ ShowVersion(f, 0)
    /\ UNCHANGED <<kbActive, conversation, rows, request, cut>>

\* A parse result is indexed; the old one may show again where two runners of its job
\* overlapped, and the second ended after the next parse had begun.
ShowFile(f) ==
    /\ Event
    /\ shown[f] = 0
    /\ \E v \in newest[f] .. MaxVersions : v # 0 /\ ShowVersion(f, v)
    /\ UNCHANGED <<kbActive, conversation, rows, request, cut>>

DisableKnowledgeBase ==
    /\ Event
    /\ kbActive
    /\ kbActive' = FALSE
    /\ UNCHANGED <<shown, newest, conversation, wasVisible, touched, rows, request, cut>>

DeleteConversation ==
    /\ Event
    /\ conversation = "active"
    /\ conversation' = "deleted"
    /\ UNCHANGED <<shown, newest, kbActive, wasVisible, touched, rows, request, cut>>

-----------------------------------------------------------------------------
(* A request *)

\* The rows of a streamed request are committed before the first event.
Ask(r, stream) ==
    /\ request[r].pc = "new"
    /\ conversation = "active"
    /\ request' = [request EXCEPT ![r].pc = "route", ![r].stream = stream]
    /\ user' = IF stream THEN user \cup {r} ELSE user
    /\ answer' = IF stream THEN [answer EXCEPT ![r] = "streaming"] ELSE answer
    /\ wasVisible' = [wasVisible EXCEPT ![r] = Visible \cup ShownFiles(shown)]
    /\ UNCHANGED <<shown, newest, kbActive, conversation, events, touched, citations, trace, cut>>

\* The conversation is gone, or the question or its image is refused.
AskRejected(r) ==
    /\ request[r].pc = "new"
    /\ Goto(r, "over")
    /\ UNCHANGED <<rows, world, cut>>

\* The router decides; `mixed' wants the overview and the chunks.
Route(r) ==
    /\ request[r].pc = "route"
    /\ \E pc \in {"answer", "summaries", "overview", "search"}, mixed \in BOOLEAN :
        /\ mixed => pc = "search"
        /\ request' = [request EXCEPT ![r].pc = pc, ![r].mixed = mixed]
    /\ UNCHANGED <<rows, world, cut>>

\* Completed summaries of current files; without any, chunks are searched.
FindSummaries(r) ==
    /\ request[r].pc = "summaries"
    /\ \/ \E S \in (SUBSET ShownFiles(shown)) \ {{}} : \E items \in SetToSeqs(S) :
            request' = [request EXCEPT ![r].pc = "answer", ![r].context = items]
       \/ Goto(r, "search")
    /\ UNCHANGED <<rows, world, cut>>

\* What the two indexes find: they may lag, and name chunks that are gone.
Search(r) ==
    /\ request[r].pc = "search"
    /\ kbActive
    /\ \E found \in SUBSET Chunks :
        /\ Visible = {} => found = {}
        /\ request' = [request EXCEPT ![r].pc = "load", ![r].hits = found]
    /\ UNCHANGED <<rows, world, cut>>

LoadChunks(r) ==
    /\ request[r].pc = "load"
    /\ request' = [request EXCEPT ![r].pc = "rerank", ![r].hits = @ \cap Visible]
    /\ UNCHANGED <<rows, world, cut>>

\* The reranker orders them; top k and the evidence gate keep some.
Rerank(r) ==
    /\ request[r].pc = "rerank"
    /\ \E kept \in SUBSET request[r].hits : \E order \in SetToSeqs(kept) :
        request' = [request EXCEPT ![r].pc = "hits", ![r].hits = kept, ![r].context = order]
    /\ UNCHANGED <<rows, world, cut>>

\* The first query of expand_context_to_section_chunks.
LoadHits(r) ==
    /\ request[r].pc = "hits"
    /\ request' = [request EXCEPT ![r].pc = "sections",
                        ![r].context = Among(@, Visible)]
    /\ UNCHANGED <<rows, world, cut>>

\* The second: all rows of the files of the hits.  (found is bound, not
\* defined, so that TLC computes it once.)
LoadSections(r) ==
    /\ request[r].pc = "sections"
    /\ \E found \in {Sections(request[r].context, Visible)} :
        request' = [request EXCEPT ![r].pc = "neighbors", ![r].context = WithoutSeen(found)]
    /\ UNCHANGED <<rows, world, cut>>

NeighborsOf(context) ==
    {c \in Chunks \ ToSet(context) : \E d \in ToSet(context) : {c, d} \in Related}

AfterChunks(r) == IF request[r].mixed THEN "overview" ELSE "answer"

\* Faulty variant: the rows of the neighbours are taken as they are.
LoadNeighborsUnfiltered(r) ==
    /\ request[r].pc = "neighbors"
    /\ \E added \in SetToSeqs(NeighborsOf(request[r].context)) :
        request' = [request EXCEPT ![r].pc = AfterChunks(r),
            ![r].context = Among(@ \o added, Chunks \ Blank)]
    /\ UNCHANGED <<rows, world, cut>>

\* Related chunks are added; then those that show no text are dropped.
LoadNeighbors(r) ==
    /\ request[r].pc = "neighbors"
    /\ \E added \in SetToSeqs(NeighborsOf(request[r].context) \cap Visible) :
        request' = [request EXCEPT ![r].pc = AfterChunks(r),
            ![r].context = Among(@ \o added, Chunks \ Blank)]
    /\ UNCHANGED <<rows, world, cut>>

\* The overview is read; if there is none it is rebuilt, which commits what the
\* session holds.
ReadOverview(r) ==
    /\ request[r].pc = "overview"
    /\ request' = [request EXCEPT ![r].pc = "answer",
                        ![r].context = IF request[r].mixed THEN <<Overall>> \o @ ELSE @]
    /\ \E rebuilt \in BOOLEAN : user' = IF rebuilt THEN user \cup {r} ELSE user
    /\ UNCHANGED <<answer, citations, trace, world, cut>>

\* Faulty variant: the status is committed before citations and trace.
AnswerCommitted(r) ==
    /\ request[r].pc = "answer"
    /\ Goto(r, "save")
    /\ answer' = [answer EXCEPT ![r] = "completed"]
    /\ UNCHANGED <<user, citations, trace, world, cut>>

\* The model's answer is complete; or the refusal, without context.
Answer(r) ==
    /\ request[r].pc = "answer"
    /\ Goto(r, "save")
    /\ UNCHANGED <<rows, world, cut>>

\* Faulty variant: everything the model was given counts as cited.
SaveCitingAll(r) ==
    /\ request[r].pc = "save"
    /\ Goto(r, "done")
    /\ user' = user \cup {r}
    /\ answer' = [answer EXCEPT ![r] = "completed"]
    /\ citations' = [citations EXCEPT ![r] = Citable(request[r].context)]
    /\ trace' = [trace EXCEPT ![r] = [context |-> request[r].context,
                        cited |-> request[r].context, saved |-> TRUE]]
    /\ UNCHANGED <<world, cut>>

\* Citations and trace are written with the status, in one commit.
Save(r) ==
    /\ request[r].pc = "save"
    /\ Goto(r, "done")
    /\ user' = user \cup {r}
    /\ answer' = [answer EXCEPT ![r] = "completed"]
    /\ citations' = [citations EXCEPT ![r] = Citable(request[r].context)]
    /\ trace' = [trace EXCEPT ![r] = [context |-> request[r].context,
                        cited |-> Citable(request[r].context), saved |-> TRUE]]
    /\ UNCHANGED <<world, cut>>

\* The rows are read back and the last event, or the response, is sent.
Finish(r) ==
    /\ request[r].pc = "done"
    /\ Goto(r, "over")
    /\ UNCHANGED <<rows, world, cut>>

\* Faulty variant: the handler does not know the message to mark.
FailUnmarked(r) ==
    /\ Open(r)
    /\ Goto(r, "over")
    /\ UNCHANGED <<rows, world, cut>>

\* Faulty variant: the status of the row is not looked at.
FailAlways(r) ==
    /\ Open(r)
    /\ Goto(r, "over")
    /\ answer' = IF request[r].stream THEN [answer EXCEPT ![r] = "failed"] ELSE answer
    /\ UNCHANGED <<user, citations, trace, world, cut>>

\* An exception: what is not committed is rolled back, and the message of a
\* stream is marked, unless it was completed already.
Fail(r) ==
    /\ Open(r)
    /\ Goto(r, "over")
    /\ answer' = IF request[r].stream /\ answer[r] = "streaming"
                 THEN [answer EXCEPT ![r] = "failed"] ELSE answer
    /\ UNCHANGED <<user, citations, trace, world, cut>>

\* The client goes away: the generator is closed where it is, which is no
\* exception that the handler catches.
Disconnect(r) ==
    /\ Open(r)
    /\ request[r].stream
    /\ Goto(r, "over")
    /\ cut' = cut \cup {r}
    /\ UNCHANGED <<rows, world>>

Crash ==
    /\ \E r \in Requests : Open(r)
    /\ request' = [r \in Requests |-> IF Open(r) THEN [request[r] EXCEPT !.pc = "over"]
                                                 ELSE request[r]]
    /\ cut' = cut \cup {r \in Requests : Open(r)}
    /\ UNCHANGED <<rows, world>>

-----------------------------------------------------------------------------
(* Specification *)

Init ==
    /\ shown \in [Files -> {0, 1}]
    /\ newest = shown
    /\ kbActive = TRUE
    /\ conversation = "active"
    /\ request = [r \in Requests |-> [pc |-> "new", stream |-> FALSE, mixed |-> FALSE,
                                      hits |-> {}, context |-> <<>>]]
    /\ user = {}
    /\ answer = [r \in Requests |-> "none"]
    /\ citations = [r \in Requests |-> <<>>]
    /\ trace = [r \in Requests |-> NoTrace]
    /\ events = 0
    /\ wasVisible = [r \in Requests |-> {}]
    /\ touched = [r \in Requests |-> {}]
    /\ cut = {}

Step(r) ==
    \/ Route(r) \/ FindSummaries(r) \/ Search(r) \/ LoadChunks(r) \/ Rerank(r)
    \/ LoadHits(r) \/ LoadSections(r) \/ LoadNeighbors(r)
    \/ ReadOverview(r) \/ Answer(r) \/ Save(r) \/ Finish(r)

Next ==
    \/ \E f \in Files : HideFile(f) \/ ShowFile(f)
    \/ DisableKnowledgeBase \/ DeleteConversation
    \/ \E r \in Requests :
        \/ \E stream \in BOOLEAN : Ask(r, stream)
        \/ AskRejected(r) \/ Step(r) \/ Fail(r) \/ Disconnect(r)
    \/ Crash

Spec == Init /\ [][Next]_vars

\* A handler runs on until it ends or fails.
FairSpec == Spec /\ \A r \in Requests : WF_vars(Step(r) \/ Fail(r))

-----------------------------------------------------------------------------
(* Properties *)

\* A completed answer is complete: its question, its trace and its citations are
\* there and agree with the context the model was given; any other answer has
\* neither trace nor citations.  Through failures, disconnects and crashes.
AnswerIsWhole ==
    \A r \in Requests :
        IF answer[r] = "completed"
        THEN /\ r \in user /\ trace[r].saved
             /\ citations[r] = Citable(trace[r].context) /\ citations[r] = trace[r].cited
        ELSE citations[r] = <<>> /\ ~trace[r].saved

\* The model is given nothing that could not be retrieved at some time since the
\* question was asked, however much the indexes and the chunk relations lag.
ContextWasCurrent ==
    \A r \in Requests :
        Open(r) /\ request[r].pc \in {"answer", "save"} =>
            ToSet(request[r].context) \ {Overall} \subseteq wasVisible[r]

\* No chunk is cited twice, although sections of hits overlap.
NoDoubleCitation == \A r \in Requests : IsInjective(citations[r])

\* A chunk that passed the evidence gate, shows text, and whose file has not
\* changed since, is cited.
EvidenceIsCited ==
    \A r \in Requests :
        answer[r] = "completed" =>
            {c \in request[r].hits \ Blank : FileOf[c] \notin touched[r]} \subseteq ToSet(citations[r])

\* An answer that is completed or failed stays so: an error after the commit does
\* not take an answer away.
SettledAnswersStay ==
    [][\A r \in Requests : answer[r] \in {"completed", "failed"} => answer'[r] = answer[r]]_vars

\* A streamed answer does not stay open, unless its client or the process went away.
StreamsSettle ==
    \A r \in Requests : answer[r] = "streaming" ~> (answer[r] # "streaming" \/ r \in cut)
=============================================================================
