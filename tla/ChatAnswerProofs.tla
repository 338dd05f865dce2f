--------------------------- MODULE ChatAnswerProofs ---------------------------
(***************************************************************************)
(* Proofs about ChatAnswer, for any number of questions, files, chunks,    *)
(* disconnects and crashes, and whatever search and reranker return.       *)
(***************************************************************************)
EXTENDS ChatAnswer, SublistsProofs

-----------------------------------------------------------------------------
(* The invariant *)

\* The domains of what is written with EXCEPT.
Shape ==
    /\ DOMAIN request = Requests
    /\ \A r \in Requests : "pc" \in DOMAIN request[r]
    /\ DOMAIN answer = Requests /\ DOMAIN citations = Requests /\ DOMAIN trace = Requests

\* An answer is settled only by the last commit of its handler, or after it.
SettledLast ==
    \A r \in Requests :
        /\ request[r].pc = "new" => answer[r] = "none"
        /\ request[r].pc \notin {"done", "over"} => answer[r] \notin {"completed", "failed"}

ChatInv == Shape /\ SettledLast /\ AnswerIsWhole

\* A step that moves a handler on, and commits at most its question.
Moves(r) ==
    /\ request' = [request EXCEPT ![r] = request'[r]]
    /\ "pc" \in DOMAIN request'[r]
    /\ request'[r].pc # "new"
    /\ request[r].pc \in {"done", "over"} => request'[r].pc \in {"done", "over"}
    /\ user \subseteq user'
    /\ UNCHANGED <<answer, citations, trace>>

LEMMA MovesKeeps ==
    ASSUME ChatInv, NEW r \in Requests, Moves(r)
    PROVE  ChatInv'
<1>1. \A q \in Requests \ {r} : request'[q] = request[q]
  BY DEF Moves, ChatInv, Shape
<1>2. Shape'
  BY <1>1 DEF Moves, ChatInv, Shape
<1>3. SettledLast'
  BY <1>1 DEF Moves, ChatInv, SettledLast
<1>4. AnswerIsWhole'
  BY DEF Moves, ChatInv, AnswerIsWhole
<1>. QED
  BY <1>2, <1>3, <1>4 DEF ChatInv

LEMMA GotoMoves ==
    ASSUME ChatInv, NEW r \in Requests, NEW pc \in Pcs \ {"new"}, Goto(r, pc),
           request[r].pc \notin {"done", "over"} \/ pc = "over",
           UNCHANGED rows
    PROVE  Moves(r)
  BY DEF ChatInv, Shape, Goto, Moves, rows, Pcs

LEMMA StepMoves ==
    ASSUME ChatInv, NEW r \in Requests, Step(r), ~Save(r)
    PROVE  Moves(r)
<1>. USE DEF ChatInv, Shape, Moves, rows
<1>1. CASE Route(r)
  BY <1>1 DEF Route
<1>2. CASE FindSummaries(r)
  <2>1. CASE Goto(r, "search")
    BY <1>2, <2>1, GotoMoves DEF FindSummaries, Pcs
  <2>. QED
    BY <1>2, <2>1 DEF FindSummaries
<1>3. CASE Search(r)
  BY <1>3 DEF Search
<1>4. CASE LoadChunks(r)
  BY <1>4 DEF LoadChunks
<1>5. CASE Rerank(r)
  BY <1>5 DEF Rerank
<1>6. CASE LoadHits(r)
  BY <1>6 DEF LoadHits
<1>7. CASE LoadSections(r)
  BY <1>7 DEF LoadSections
<1>8. CASE LoadNeighbors(r)
  <2>1. PICK items :
          request' = [request EXCEPT ![r].pc = AfterChunks(r), ![r].context = items]
    BY <1>8 DEF LoadNeighbors
  <2>2. AfterChunks(r) \in {"overview", "answer"}
    BY DEF AfterChunks
  <2>. QED
    BY <1>8, <2>1, <2>2 DEF LoadNeighbors
<1>9. CASE ReadOverview(r)
  BY <1>9 DEF ReadOverview
<1>10. CASE Answer(r)
  BY <1>10, GotoMoves DEF Answer, Pcs
<1>11. CASE Finish(r)
  BY <1>11, GotoMoves DEF Finish, Pcs
<1>. QED
  BY <1>1, <1>2, <1>3, <1>4, <1>5, <1>6, <1>7, <1>8, <1>9, <1>10, <1>11 DEF Step

-----------------------------------------------------------------------------
(* The steps that write an answer *)

LEMMA AskKeeps ==
    ASSUME ChatInv, NEW r \in Requests, NEW stream \in BOOLEAN, Ask(r, stream)
    PROVE  ChatInv' /\ answer[r] = "none"
<1>1. answer[r] = "none"
  BY DEF ChatInv, SettledLast, Ask
<1>2. /\ Shape'
      /\ request'[r].pc = "route"
      /\ answer'[r] \in {"none", "streaming"}
      /\ \A q \in Requests \ {r} : request'[q] = request[q] /\ answer'[q] = answer[q]
  BY <1>1 DEF ChatInv, Shape, Ask
<1>3. SettledLast'
  BY <1>2 DEF ChatInv, SettledLast
<1>4. AnswerIsWhole'
  BY <1>1, <1>2 DEF ChatInv, AnswerIsWhole, Ask
<1>. QED
  BY <1>1, <1>2, <1>3, <1>4 DEF ChatInv

LEMMA SaveKeeps ==
    ASSUME ChatInv, NEW r \in Requests, Save(r)
    PROVE  ChatInv' /\ answer[r] \notin {"completed", "failed"}
<1>1. answer[r] \notin {"completed", "failed"}
  BY DEF ChatInv, SettledLast, Save
<1>2. /\ Shape'
      /\ request'[r].pc = "done" /\ answer'[r] = "completed"
      /\ citations'[r] = Citable(request[r].context)
      /\ trace'[r] = [context |-> request[r].context,
                      cited |-> Citable(request[r].context), saved |-> TRUE]
      /\ user' = user \cup {r}
      /\ \A q \in Requests \ {r} :
            /\ request'[q] = request[q] /\ answer'[q] = answer[q]
            /\ citations'[q] = citations[q] /\ trace'[q] = trace[q]
  BY DEF ChatInv, Shape, Save, Goto
<1>3. SettledLast'
  BY <1>2 DEF ChatInv, SettledLast
<1>4. AnswerIsWhole'
  BY <1>2 DEF ChatInv, AnswerIsWhole
<1>. QED
  BY <1>1, <1>2, <1>3, <1>4 DEF ChatInv

LEMMA FailKeeps ==
    ASSUME ChatInv, NEW r \in Requests, Fail(r)
    PROVE  /\ ChatInv'
           /\ answer[r] \in {"completed", "failed"} => answer'[r] = answer[r]
           /\ \A q \in Requests \ {r} : answer'[q] = answer[q]
<1>1. /\ Shape'
      /\ request'[r].pc = "over"
      /\ \/ answer'[r] = answer[r]
         \/ answer[r] = "streaming" /\ answer'[r] = "failed"
      /\ \A q \in Requests \ {r} : request'[q] = request[q] /\ answer'[q] = answer[q]
  BY DEF ChatInv, Shape, Fail, Goto
<1>2. SettledLast'
  BY <1>1 DEF ChatInv, SettledLast
<1>3. AnswerIsWhole'
  BY <1>1 DEF ChatInv, AnswerIsWhole, Fail
<1>. QED
  BY <1>1, <1>2, <1>3 DEF ChatInv

LEMMA CrashKeeps == ChatInv /\ Crash => ChatInv'
<1>. SUFFICES ASSUME ChatInv, Crash PROVE ChatInv'
  OBVIOUS
<1>1. \A r \in Requests :
        /\ "pc" \in DOMAIN request'[r]
        /\ request'[r].pc = IF Open(r) THEN "over" ELSE request[r].pc
  BY DEF ChatInv, Shape, Crash
<1>2. Shape'
  BY <1>1 DEF ChatInv, Shape, Crash, rows
<1>3. SettledLast'
  BY <1>1 DEF ChatInv, SettledLast, Crash, rows, Open
<1>4. AnswerIsWhole'
  BY DEF ChatInv, AnswerIsWhole, Crash, rows
<1>. QED
  BY <1>2, <1>3, <1>4 DEF ChatInv

-----------------------------------------------------------------------------
(* Every step *)

LEMMA UnchangedKeeps ==
    ASSUME ChatInv, UNCHANGED <<rows, request>>
    PROVE  ChatInv'
  BY DEF ChatInv, Shape, SettledLast, AnswerIsWhole, rows

\* What a step leaves alone.
SettledStay ==
    \A r \in Requests : answer[r] \in {"completed", "failed"} => answer'[r] = answer[r]

LEMMA NextKeeps == ChatInv /\ [Next]_vars => ChatInv' /\ SettledStay
<1>. SUFFICES ASSUME ChatInv, [Next]_vars PROVE ChatInv' /\ SettledStay
  OBVIOUS
<1>1. CASE UNCHANGED vars
  BY <1>1, UnchangedKeeps DEF vars, rows, SettledStay
<1>2. CASE \E f \in Files : HideFile(f) \/ ShowFile(f)
  BY <1>2, UnchangedKeeps DEF HideFile, ShowFile, rows, SettledStay
<1>3. CASE DisableKnowledgeBase \/ DeleteConversation
  BY <1>3, UnchangedKeeps DEF DisableKnowledgeBase, DeleteConversation, rows, SettledStay
<1>4. ASSUME NEW r \in Requests, NEW stream \in BOOLEAN, Ask(r, stream)
      PROVE  ChatInv' /\ SettledStay
  <2>1. \A q \in Requests \ {r} : answer'[q] = answer[q]
    BY <1>4 DEF Ask, ChatInv, Shape
  <2>. QED
    BY <1>4, <2>1, AskKeeps DEF SettledStay
<1>5. ASSUME NEW r \in Requests, AskRejected(r) \/ Disconnect(r)
      PROVE  ChatInv' /\ SettledStay
  <2>1. Moves(r)
    BY <1>5, GotoMoves DEF AskRejected, Disconnect, Pcs, Open
  <2>. QED
    BY <2>1, MovesKeeps DEF Moves, SettledStay
<1>6. ASSUME NEW r \in Requests, Step(r) PROVE ChatInv' /\ SettledStay
  <2>1. CASE Save(r)
    <3>1. \A q \in Requests \ {r} : answer'[q] = answer[q]
      BY <2>1 DEF Save, ChatInv, Shape
    <3>. QED
      BY <2>1, <3>1, SaveKeeps DEF SettledStay
  <2>2. CASE ~Save(r)
    <3>1. Moves(r)
      BY <1>6, <2>2, StepMoves
    <3>. QED
      BY <3>1, MovesKeeps DEF Moves, SettledStay
  <2>. QED
    BY <2>1, <2>2
<1>7. ASSUME NEW r \in Requests, Fail(r) PROVE ChatInv' /\ SettledStay
  BY <1>7, FailKeeps DEF SettledStay
<1>8. CASE Crash
  BY <1>8, CrashKeeps DEF Crash, rows, SettledStay
<1>. QED
  BY <1>1, <1>2, <1>3, <1>4, <1>5, <1>6, <1>7, <1>8 DEF Next

LEMMA InitChat == Init => ChatInv
<1>. SUFFICES ASSUME Init PROVE ChatInv
  OBVIOUS
<1>1. Shape
  BY DEF Init, Shape
<1>2. SettledLast
  BY DEF Init, SettledLast
<1>3. AnswerIsWhole
  BY DEF Init, AnswerIsWhole, NoTrace
<1>. QED
  BY <1>1, <1>2, <1>3 DEF ChatInv

-----------------------------------------------------------------------------
(* Lists of context items *)

LEMMA AmongOf ==
    ASSUME NEW T, NEW s \in Seq(T), NEW S
    PROVE  /\ Among(s, S) \in Seq(T)
           /\ ToSet(Among(s, S)) = ToSet(s) \cap S
           /\ IsInjective(s) => IsInjective(Among(s, S))
<1>. DEFINE I == {k \in DOMAIN s : s[k] \in S}
<1>1. I \in SUBSET DOMAIN s /\ Among(s, S) = Sublist(s, I)
  BY DEF Among
<1>2. {s[k] : k \in I} = ToSet(s) \cap S
  BY DEF ToSet
<1>. HIDE DEF I
<1>3. /\ Sublist(s, I) \in Seq(T)
      /\ ToSet(Sublist(s, I)) = {s[k] : k \in I}
  BY <1>1, SublistOf
<1>4. PICK e : Picks(Sublist(s, I), s, e)
  BY <1>1, SublistOf
<1>5. IsInjective(s) => IsInjective(Sublist(s, I))
  BY <1>4, PicksInjective
<1>. QED
  BY <1>1, <1>2, <1>3, <1>5

LEMMA CitableOf ==
    ASSUME NEW s \in Seq(Items)
    PROVE  /\ Citable(s) \in Seq(Chunks)
           /\ ToSet(Citable(s)) = ToSet(s) \cap Chunks
           /\ IsInjective(s) => IsInjective(Citable(s))
<1>1. /\ Citable(s) \in Seq(Items)
      /\ ToSet(Citable(s)) = ToSet(s) \cap Chunks
      /\ IsInjective(s) => IsInjective(Citable(s))
  BY AmongOf DEF Citable
<1>2. Citable(s) \in Seq(Chunks)
  BY <1>1, SeqOfToSet
<1>. QED
  BY <1>1, <1>2

\* A section has its hit and chunks of the same parse result.
LEMMA SectionsOf ==
    ASSUME NEW hits \in Seq(Chunks), NEW S
    PROVE  /\ Sections(hits, VisibleIn(S)) \in Seq(Chunks)
           /\ ToSet(hits) \subseteq ToSet(Sections(hits, VisibleIn(S)))
           /\ ToSet(Sections(hits, VisibleIn(S))) \subseteq ToSet(hits) \cup VisibleIn(S)
<1>. DEFINE section(k) == IF hits[k] \in VisibleIn(S) THEN Section[hits[k]] ELSE <<hits[k]>>
            ss == [k \in DOMAIN hits |-> section(k)]
<1>1. Len(hits) \in Nat /\ DOMAIN hits = 1 .. Len(hits)
  BY LenProperties
<1>2. ASSUME NEW k \in DOMAIN hits
      PROVE  /\ section(k) \in Seq(Chunks)
             /\ hits[k] \in ToSet(section(k))
             /\ ToSet(section(k)) \subseteq {hits[k]} \cup VisibleIn(S)
  <2>1. hits[k] \in Chunks
    BY <1>1, ElementOfSeq
  <2>2. CASE hits[k] \in VisibleIn(S)
    <3>1. \A d \in ToSet(Section[hits[k]]) : d \in VisibleIn(S)
      <4>1. Section[hits[k]] \in Seq(Chunks)
        BY <2>1, ChatAssumption
      <4>2. ToSet(Section[hits[k]]) \subseteq Chunks
        BY <4>1, LenProperties, ElementOfSeq DEF ToSet
      <4>. QED
        BY <2>1, <2>2, <4>2, ChatAssumption DEF VisibleIn
    <3>. QED
      BY <2>1, <2>2, <3>1, ChatAssumption
  <2>3. CASE hits[k] \notin VisibleIn(S)
    <3>1. ToSet(<<hits[k]>>) = {hits[k]}
      BY DEF ToSet
    <3>. QED
      BY <2>1, <2>3, <3>1
  <2>. QED
    BY <2>2, <2>3
<1>. HIDE DEF section
<1>3. ss \in Seq(Seq(Chunks)) /\ DOMAIN ss = DOMAIN hits
  <2>1. ss \in [1 .. Len(hits) -> Seq(Chunks)]
    BY <1>1, <1>2
  <2>. QED
    BY <1>1, <2>1, SeqFromFunction
<1>4. Sections(hits, VisibleIn(S)) = FlattenSeq(ss)
  BY DEF Sections, section
<1>5. \A k \in DOMAIN hits : ss[k] = section(k)
  OBVIOUS
<1>. HIDE DEF ss
<1>6. /\ FlattenSeq(ss) \in Seq(Chunks)
      /\ ToSet(FlattenSeq(ss)) = UNION {ToSet(ss[k]) : k \in DOMAIN ss}
  BY <1>3, FlattenOf
<1>7. ToSet(hits) = {hits[k] : k \in DOMAIN hits}
  BY DEF ToSet
<1>8. ASSUME NEW k \in DOMAIN hits PROVE hits[k] \in ToSet(FlattenSeq(ss))
  BY <1>2, <1>3, <1>5, <1>6
<1>9. ASSUME NEW c \in ToSet(FlattenSeq(ss)) PROVE c \in ToSet(hits) \cup VisibleIn(S)
  <2>1. PICK k \in DOMAIN hits : c \in ToSet(ss[k])
    BY <1>3, <1>6
  <2>. QED
    BY <1>2, <1>5, <1>7, <2>1
<1>. QED
  BY <1>4, <1>6, <1>7, <1>8, <1>9

-----------------------------------------------------------------------------
(* The context of a request *)

Untouched(q, changed) == {c \in q.hits : FileOf[c] \notin changed}

\* What a handler holds is current: nothing in it that was not visible since the
\* question was asked, and of what it found, all whose file did not change; q is
\* its record, seen and changed are its histories, and S shows the files.
HandlerFits(q, seen, changed, S) ==
    /\ q.pc \in {"new", "route", "search", "summaries"} => q.hits = {}
    /\ q.pc \in {"new", "route", "search", "summaries", "load", "rerank"} => q.context = <<>>
    /\ q.pc \in {"hits", "sections", "neighbors", "overview"} => ToSet(q.context) \subseteq Chunks
    /\ IsInjective(q.context)
    /\ q.pc \notin {"new", "over"} =>
          /\ VisibleIn(S) \cup ShownFiles(S) \subseteq seen
          /\ ToSet(q.context) \ {Overall} \subseteq seen
          /\ q.pc # "load" => q.hits \subseteq seen /\ Untouched(q, changed) \subseteq VisibleIn(S)
    /\ q.pc \in {"hits", "sections", "neighbors"} =>
          Untouched(q, changed) \subseteq ToSet(q.context)
    /\ q.pc \in {"overview", "answer", "save"} =>
          Untouched(q, changed) \ Blank \subseteq ToSet(q.context)

CitedFits(r) ==
    /\ IsInjective(citations[r])
    /\ answer[r] = "completed" =>
          Untouched(request[r], touched[r]) \ Blank \subseteq ToSet(citations[r])

ContextInv ==
    /\ TypeOK
    /\ \A r \in Requests : HandlerFits(request[r], wasVisible[r], touched[r], shown)
    /\ \A r \in Requests : CitedFits(r)

LEMMA EmptyContext == ToSet(<<>>) = {} /\ IsInjective(<<>>) /\ <<>> \in Seq(Items)
  BY DEF ToSet, IsInjective

LEMMA VisibleChunks == \A S : VisibleIn(S) \subseteq Chunks /\ ShownFiles(S) \subseteq Files
  BY DEF VisibleIn, ShownFiles

LEMMA ContextInSeq ==
    ASSUME NEW q \in Request
    PROVE  /\ q.context \in Seq(Items)
           /\ ToSet(q.context) \subseteq Chunks => q.context \in Seq(Chunks)
  BY SeqOfToSet DEF Request

\* A file is shown or hidden.
LEMMA WorldKeepsFit ==
    ASSUME NEW S \in [Files -> 0 .. MaxVersions], NEW f \in Files, NEW v,
           NEW T, T = [S EXCEPT ![f] = v],
           NEW q \in Request, NEW seen, NEW changed, HandlerFits(q, seen, changed, S)
    PROVE  /\ q.pc \in {"new", "over"} => HandlerFits(q, seen, changed, T)
           /\ q.pc \notin {"new", "over"} =>
                 HandlerFits(q, seen \cup VisibleIn(T) \cup ShownFiles(T), changed \cup {f}, T)
<1>1. CASE q.pc \in {"new", "over"}
  BY <1>1 DEF HandlerFits
<1>2. CASE q.pc \notin {"new", "over"}
  <2>1. Untouched(q, changed \cup {f}) \subseteq Untouched(q, changed)
    BY DEF Untouched
  <2>2. Untouched(q, changed) \subseteq VisibleIn(S) =>
            Untouched(q, changed \cup {f}) \subseteq VisibleIn(T)
    BY ChatAssumption DEF Untouched, VisibleIn
  <2>. QED
    BY <1>2, <2>1, <2>2 DEF HandlerFits
<1>. QED
  BY <1>1, <1>2

\* What a step of the handler of r leaves: a record that fits, and nothing else.
StepFits(r) ==
    /\ request'[r] \in Request
    /\ HandlerFits(request'[r], wasVisible[r], touched[r], shown)
    /\ request' = [request EXCEPT ![r] = request'[r]]
    /\ request[r].pc \in {"done", "over"} => request'[r].hits = request[r].hits

\* A step that only moves on.
LEMMA GotoFits ==
    ASSUME ContextInv, NEW r \in Requests, NEW pc \in Pcs, Goto(r, pc),
           \/ request[r].pc = "answer" /\ pc = "save"
           \/ request[r].pc = "save" /\ pc = "done"
           \/ pc = "over"
           \/ request[r].pc = "summaries" /\ pc = "search"
    PROVE  StepFits(r)
<1>. DEFINE q == request[r]
<1>1. q \in Request /\ HandlerFits(q, wasVisible[r], touched[r], shown)
  BY DEF ContextInv, TypeOK
<1>2. /\ request' = [request EXCEPT ![r] = request'[r]]
      /\ request'[r] = [q EXCEPT !.pc = pc]
  BY DEF Goto, ContextInv, TypeOK
<1>3. request'[r] \in Request
  BY <1>1, <1>2 DEF Request
<1>4. request'[r].pc = pc /\ request'[r].hits = q.hits /\ request'[r].context = q.context
  BY <1>1, <1>2 DEF Request
<1>5. HandlerFits(request'[r], wasVisible[r], touched[r], shown)
  BY <1>1, <1>4 DEF HandlerFits, Untouched
<1>. QED
  BY <1>2, <1>3, <1>4, <1>5 DEF StepFits

LEMMA RouteFits ==
    ASSUME ContextInv, NEW r \in Requests, Route(r)
    PROVE  StepFits(r)
<1>. DEFINE q == request[r]
<1>1. q \in Request /\ HandlerFits(q, wasVisible[r], touched[r], shown)
  BY DEF ContextInv, TypeOK
<1>2. PICK pc \in {"answer", "summaries", "overview", "search"}, mixed \in BOOLEAN :
        /\ q.pc = "route"
        /\ request' = [request EXCEPT ![r] = request'[r]]
        /\ request'[r] = [q EXCEPT !.pc = pc, !.mixed = mixed]
  BY DEF Route, ContextInv, TypeOK
<1>3. /\ request'[r] \in Request
      /\ request'[r].pc = pc /\ request'[r].hits = q.hits /\ request'[r].context = q.context
  BY <1>1, <1>2 DEF Request, Pcs
<1>4. HandlerFits(request'[r], wasVisible[r], touched[r], shown)
  BY <1>1, <1>2, <1>3, EmptyContext DEF HandlerFits, Untouched
<1>. QED
  BY <1>2, <1>3, <1>4 DEF StepFits

LEMMA SummariesFit ==
    ASSUME ContextInv, NEW r \in Requests, FindSummaries(r)
    PROVE  StepFits(r)
<1>. DEFINE q == request[r]
<1>1. q \in Request /\ HandlerFits(q, wasVisible[r], touched[r], shown) /\ q.pc = "summaries"
  BY DEF ContextInv, TypeOK, FindSummaries
<1>2. CASE Goto(r, "search")
  BY <1>1, <1>2, GotoFits DEF Pcs
<1>3. CASE ~Goto(r, "search")
  <2>1. PICK S \in SUBSET ShownFiles(shown) : \E items \in SetToSeqs(S) :
            request' = [request EXCEPT ![r].pc = "answer", ![r].context = items]
    BY <1>3 DEF FindSummaries
  <2>2. PICK items \in SetToSeqs(S) :
            request' = [request EXCEPT ![r].pc = "answer", ![r].context = items]
    BY <2>1
  <2>3. IsFiniteSet(S)
    BY <2>1, ChatAssumption, FS_Subset DEF ShownFiles
  <2>4. items \in Seq(S) /\ IsInjective(items) /\ ToSet(items) = S
    BY <2>3, SetToSeqsOf
  <2>5. items \in Seq(Items)
    BY <2>4, SeqOfToSet DEF Items, ShownFiles
  <2>6. /\ request' = [request EXCEPT ![r] = request'[r]]
        /\ request'[r] = [q EXCEPT !.pc = "answer", !.context = items]
    BY <2>2 DEF ContextInv, TypeOK
  <2>7. /\ request'[r] \in Request
        /\ request'[r].pc = "answer" /\ request'[r].hits = q.hits /\ request'[r].context = items
    BY <1>1, <2>5, <2>6 DEF Request, Pcs
  <2>8. HandlerFits(request'[r], wasVisible[r], touched[r], shown)
    BY <1>1, <2>1, <2>4, <2>7 DEF HandlerFits, Untouched
  <2>. QED
    BY <1>1, <2>6, <2>7, <2>8 DEF StepFits
<1>. QED
  BY <1>2, <1>3

LEMMA SearchFits ==
    ASSUME ContextInv, NEW r \in Requests, Search(r) \/ LoadChunks(r)
    PROVE  StepFits(r)
<1>. DEFINE q == request[r]
<1>1. q \in Request /\ HandlerFits(q, wasVisible[r], touched[r], shown)
  BY DEF ContextInv, TypeOK
<1>2. CASE Search(r)
  <2>1. PICK found \in SUBSET Chunks :
            /\ q.pc = "search"
            /\ request' = [request EXCEPT ![r] = request'[r]]
            /\ request'[r] = [q EXCEPT !.pc = "load", !.hits = found]
    BY <1>2 DEF Search, ContextInv, TypeOK
  <2>2. /\ request'[r] \in Request
        /\ request'[r].pc = "load" /\ request'[r].context = q.context
    BY <1>1, <2>1 DEF Request, Pcs
  <2>3. HandlerFits(request'[r], wasVisible[r], touched[r], shown)
    BY <1>1, <2>1, <2>2 DEF HandlerFits
  <2>. QED
    BY <2>1, <2>2, <2>3 DEF StepFits
<1>3. CASE LoadChunks(r)
  <2>1. /\ q.pc = "load"
        /\ request' = [request EXCEPT ![r] = request'[r]]
        /\ request'[r] = [q EXCEPT !.pc = "rerank", !.hits = q.hits \cap Visible]
    BY <1>3 DEF LoadChunks, ContextInv, TypeOK
  <2>2. /\ request'[r] \in Request
        /\ request'[r].pc = "rerank" /\ request'[r].context = q.context
        /\ request'[r].hits = q.hits \cap VisibleIn(shown)
    BY <1>1, <2>1 DEF Request, Pcs, Visible
  <2>3. HandlerFits(request'[r], wasVisible[r], touched[r], shown)
    BY <1>1, <2>1, <2>2 DEF HandlerFits, Untouched
  <2>. QED
    BY <2>1, <2>2, <2>3 DEF StepFits
<1>. QED
  BY <1>2, <1>3

LEMMA RerankFits ==
    ASSUME ContextInv, NEW r \in Requests, Rerank(r)
    PROVE  StepFits(r)
<1>. DEFINE q == request[r]
<1>1. q \in Request /\ HandlerFits(q, wasVisible[r], touched[r], shown)
  BY DEF ContextInv, TypeOK
<1>2. PICK kept \in SUBSET q.hits : \E order \in SetToSeqs(kept) :
        request' = [request EXCEPT ![r].pc = "hits", ![r].hits = kept, ![r].context = order]
  BY DEF Rerank
<1>3. PICK order \in SetToSeqs(kept) :
        request' = [request EXCEPT ![r].pc = "hits", ![r].hits = kept, ![r].context = order]
  BY <1>2
<1>4. kept \subseteq Chunks
  BY <1>1 DEF Request
<1>5. IsFiniteSet(kept)
  BY <1>4, ChatAssumption, FS_Subset
<1>6. order \in Seq(kept) /\ IsInjective(order) /\ ToSet(order) = kept
  BY <1>5, SetToSeqsOf
<1>7. order \in Seq(Items)
  BY <1>4, <1>6, SeqOfToSet DEF Items
<1>8. /\ request' = [request EXCEPT ![r] = request'[r]]
      /\ request'[r] = [q EXCEPT !.pc = "hits", !.hits = kept, !.context = order]
  BY <1>3 DEF ContextInv, TypeOK
<1>9. /\ request'[r] \in Request
      /\ request'[r].pc = "hits" /\ request'[r].hits = kept /\ request'[r].context = order
  BY <1>1, <1>4, <1>7, <1>8 DEF Request, Pcs
<1>10. HandlerFits(request'[r], wasVisible[r], touched[r], shown)
  BY <1>1, <1>2, <1>4, <1>6, <1>9 DEF HandlerFits, Untouched, Rerank
<1>. QED
  BY <1>8, <1>9, <1>10 DEF StepFits, Rerank

LEMMA ExpandFits ==
    ASSUME ContextInv, NEW r \in Requests, LoadHits(r) \/ LoadSections(r)
    PROVE  StepFits(r)
<1>. DEFINE q == request[r]
<1>1. /\ q \in Request /\ HandlerFits(q, wasVisible[r], touched[r], shown)
      /\ q.context \in Seq(Items)
      /\ q.pc \in {"hits", "sections"}
  BY ContextInSeq DEF ContextInv, TypeOK, LoadHits, LoadSections
<1>2. q.context \in Seq(Chunks) /\ ToSet(q.context) \subseteq Chunks
  BY <1>1, ContextInSeq DEF HandlerFits
<1>3. CASE LoadHits(r)
  <2>. DEFINE items == Among(q.context, Visible)
  <2>1. /\ request' = [request EXCEPT ![r] = request'[r]]
        /\ request'[r] = [q EXCEPT !.pc = "sections", !.context = items]
    BY <1>3 DEF LoadHits, ContextInv, TypeOK
  <2>2. /\ items \in Seq(Items) /\ IsInjective(items)
        /\ ToSet(items) = ToSet(q.context) \cap VisibleIn(shown)
    BY <1>1, AmongOf DEF HandlerFits, Visible
  <2>. HIDE DEF items
  <2>3. /\ request'[r] \in Request
        /\ request'[r].pc = "sections" /\ request'[r].hits = q.hits /\ request'[r].context = items
    BY <1>1, <2>1, <2>2 DEF Request, Pcs
  <2>4. q.pc = "hits"
    BY <1>3 DEF LoadHits
  <2>5. HandlerFits(request'[r], wasVisible[r], touched[r], shown)
    BY <1>1, <1>2, <2>2, <2>3, <2>4 DEF HandlerFits, Untouched
  <2>. QED
    BY <2>1, <2>3, <2>4, <2>5 DEF StepFits
<1>4. CASE LoadSections(r)
  <2>. DEFINE found == Sections(q.context, Visible)
              items == OnceEach(found, found)
  <2>1. /\ request' = [request EXCEPT ![r] = request'[r]]
        /\ request'[r] = [q EXCEPT !.pc = "neighbors", !.context = items]
    BY <1>4 DEF LoadSections, ContextInv, TypeOK, WithoutSeen
  <2>2. /\ found \in Seq(Chunks)
        /\ ToSet(q.context) \subseteq ToSet(found)
        /\ ToSet(found) \subseteq ToSet(q.context) \cup VisibleIn(shown)
    BY <1>2, SectionsOf DEF Visible
  <2>. HIDE DEF found
  <2>3. items \in Seq(Chunks) /\ IsInjective(items) /\ ToSet(items) = ToSet(found)
    BY <2>2, OnceEachItself
  <2>. HIDE DEF items
  <2>4. ToSet(items) \subseteq Chunks
    BY <1>2, <2>2, <2>3, VisibleChunks
  <2>5. items \in Seq(Items)
    BY <2>3, <2>4, SeqOfToSet DEF Items
  <2>6. /\ request'[r] \in Request
        /\ request'[r].pc = "neighbors" /\ request'[r].hits = q.hits /\ request'[r].context = items
    BY <1>1, <2>1, <2>5 DEF Request, Pcs
  <2>7. q.pc = "sections"
    BY <1>4 DEF LoadSections
  <2>8. HandlerFits(request'[r], wasVisible[r], touched[r], shown)
    BY <1>1, <2>2, <2>3, <2>4, <2>6, <2>7 DEF HandlerFits, Untouched
  <2>. QED
    BY <2>1, <2>6, <2>7, <2>8 DEF StepFits
<1>. QED
  BY <1>3, <1>4

LEMMA NeighborsFit ==
    ASSUME ContextInv, NEW r \in Requests, LoadNeighbors(r)
    PROVE  StepFits(r)
<1>. DEFINE q == request[r]
            N == NeighborsOf(q.context) \cap Visible
<1>1. /\ q \in Request /\ HandlerFits(q, wasVisible[r], touched[r], shown)
      /\ q.context \in Seq(Items) /\ q.pc = "neighbors"
  BY ContextInSeq DEF ContextInv, TypeOK, LoadNeighbors
<1>2. ToSet(q.context) \subseteq Chunks
  BY <1>1 DEF HandlerFits
<1>3. PICK added \in SetToSeqs(N) :
        request' = [request EXCEPT ![r].pc = AfterChunks(r),
            ![r].context = Among(q.context \o added, Chunks \ Blank)]
  BY DEF LoadNeighbors, ContextInv, TypeOK
<1>4. N \subseteq Chunks /\ N \cap ToSet(q.context) = {} /\ N \subseteq VisibleIn(shown)
  BY DEF NeighborsOf, Visible
<1>. HIDE DEF N
<1>5. IsFiniteSet(N)
  BY <1>4, ChatAssumption, FS_Subset
<1>6. added \in Seq(N) /\ IsInjective(added) /\ ToSet(added) = N
  BY <1>5, SetToSeqsOf
<1>7. added \in Seq(Items)
  BY <1>4, <1>6, SeqOfToSet DEF Items
<1>. DEFINE both == q.context \o added
            items == Among(both, Chunks \ Blank)
<1>8. /\ both \in Seq(Items) /\ ToSet(both) = ToSet(q.context) \cup N
      /\ IsInjective(both)
  <2>1. IsInjective(q.context)
    BY <1>1 DEF HandlerFits
  <2>. QED
    BY <1>1, <1>4, <1>6, <1>7, <2>1, ToSetOfConcat, ConcatInjective
<1>9. /\ request' = [request EXCEPT ![r] = request'[r]]
      /\ request'[r] = [q EXCEPT !.pc = AfterChunks(r), !.context = items]
  BY <1>3 DEF ContextInv, TypeOK
<1>. HIDE DEF both
<1>10. /\ items \in Seq(Items) /\ IsInjective(items)
       /\ ToSet(items) = ToSet(both) \cap (Chunks \ Blank)
  BY <1>8, AmongOf
<1>. HIDE DEF items
<1>11. AfterChunks(r) \in {"overview", "answer"}
  BY DEF AfterChunks
<1>12. /\ request'[r] \in Request
       /\ request'[r].pc = AfterChunks(r) /\ request'[r].hits = q.hits
       /\ request'[r].context = items
  BY <1>1, <1>9, <1>10, <1>11 DEF Request, Pcs
<1>13. Untouched(q, touched[r]) \ Blank \subseteq ToSet(items)
  BY <1>1, <1>2, <1>8, <1>10 DEF HandlerFits
<1>14. Untouched(request'[r], touched[r]) = Untouched(q, touched[r])
  BY <1>12 DEF Untouched
<1>15. HandlerFits(request'[r], wasVisible[r], touched[r], shown)
  BY <1>1, <1>4, <1>8, <1>10, <1>11, <1>12, <1>13, <1>14 DEF HandlerFits
<1>. QED
  BY <1>1, <1>9, <1>12, <1>15 DEF StepFits

\* The overview is no chunk, so it is not in the context yet.
LEMMA OverviewFits ==
    ASSUME ContextInv, NEW r \in Requests, ReadOverview(r)
    PROVE  StepFits(r)
<1>. DEFINE q == request[r]
            first == <<Overall>>
            items == IF q.mixed THEN first \o q.context ELSE q.context
<1>1. /\ q \in Request /\ HandlerFits(q, wasVisible[r], touched[r], shown)
      /\ q.context \in Seq(Items) /\ q.pc = "overview"
  BY ContextInSeq DEF ContextInv, TypeOK, ReadOverview
<1>2. /\ request' = [request EXCEPT ![r] = request'[r]]
      /\ request'[r] = [q EXCEPT !.pc = "answer", !.context = items]
  BY DEF ReadOverview, ContextInv, TypeOK
<1>3. ToSet(q.context) \subseteq Chunks /\ IsInjective(q.context)
  BY <1>1 DEF HandlerFits
<1>4. first \in Seq(Items) /\ ToSet(first) = {Overall} /\ IsInjective(first)
  BY DEF Items, ToSet, IsInjective
<1>. HIDE DEF first
<1>5. ToSet(first) \cap ToSet(q.context) = {}
  BY <1>3, <1>4, ChatAssumption
<1>6. /\ items \in Seq(Items) /\ IsInjective(items)
      /\ ToSet(items) = ToSet(q.context) \/ ToSet(items) = {Overall} \cup ToSet(q.context)
  <2>1. /\ first \o q.context \in Seq(Items)
        /\ ToSet(first \o q.context) = {Overall} \cup ToSet(q.context)
    BY <1>1, <1>4, ToSetOfConcat
  <2>2. IsInjective(first \o q.context)
    BY <1>1, <1>3, <1>4, <1>5, ConcatInjective
  <2>. QED
    BY <1>1, <1>3, <2>1, <2>2
<1>. HIDE DEF items
<1>7. /\ request'[r] \in Request
      /\ request'[r].pc = "answer" /\ request'[r].hits = q.hits /\ request'[r].context = items
  BY <1>1, <1>2, <1>6 DEF Request, Pcs
<1>8. Untouched(request'[r], touched[r]) = Untouched(q, touched[r])
  BY <1>7 DEF Untouched
<1>9. HandlerFits(request'[r], wasVisible[r], touched[r], shown)
  BY <1>1, <1>6, <1>7, <1>8 DEF HandlerFits
<1>. QED
  BY <1>1, <1>2, <1>7, <1>9 DEF StepFits

LEMMA StepKeepsFit ==
    ASSUME ContextInv, NEW r \in Requests, Step(r)
    PROVE  StepFits(r)
<1>1. CASE Answer(r)
  BY <1>1, GotoFits DEF Answer, Pcs
<1>2. CASE Save(r)
  BY <1>2, GotoFits DEF Save, Pcs
<1>3. CASE Finish(r)
  BY <1>3, GotoFits DEF Finish, Pcs
<1>. QED
  BY <1>1, <1>2, <1>3, RouteFits, SummariesFit, SearchFits, RerankFits, ExpandFits, NeighborsFit,
     OverviewFits DEF Step

-----------------------------------------------------------------------------
(* Every step keeps the context *)

LEMMA InitContext == Init => ContextInv
<1>. SUFFICES ASSUME Init PROVE ContextInv
  OBVIOUS
<1>1. \A r \in Requests :
        request[r] = [pc |-> "new", stream |-> FALSE, mixed |-> FALSE, hits |-> {}, context |-> <<>>]
  BY DEF Init
<1>2. <<>> \in Seq(Chunks) /\ <<>> \in Seq(Items)
  OBVIOUS
<1>3. request \in [Requests -> Request]
  <2>1. [pc |-> "new", stream |-> FALSE, mixed |-> FALSE, hits |-> {}, context |-> <<>>] \in Request
    BY <1>2 DEF Request, Pcs
  <2>. QED
    BY <2>1 DEF Init
<1>4. shown \in [Files -> 0 .. MaxVersions] /\ events \in 0 .. MaxEvents
  BY ChatAssumption DEF Init
<1>5. TypeOK
  BY <1>2, <1>3, <1>4 DEF Init, TypeOK, AnswerStatuses, NoTrace
<1>6. \A r \in Requests : HandlerFits(request[r], wasVisible[r], touched[r], shown)
  BY <1>1, EmptyContext DEF HandlerFits
<1>7. \A r \in Requests : CitedFits(r)
  BY EmptyContext DEF Init, CitedFits
<1>. QED
  BY <1>5, <1>6, <1>7 DEF ContextInv

\* A step that leaves the answers alone, and the hits of those that are given.
LEMMA CitedStays ==
    ASSUME ContextInv, UNCHANGED <<answer, citations>>,
           \A r \in Requests : touched[r] \subseteq touched'[r],
           \A r \in Requests : answer[r] = "completed" => request'[r].hits = request[r].hits
    PROVE  \A r \in Requests : CitedFits(r)'
  BY DEF ContextInv, CitedFits, Untouched

LEMMA WorldKeepsContext ==
    ASSUME ContextInv, NEW f \in Files, HideFile(f) \/ ShowFile(f)
    PROVE  ContextInv'
<1>1. PICK v \in 0 .. MaxVersions :
        /\ ShowVersion(f, v)
        /\ events < MaxEvents /\ events' = events + 1
        /\ UNCHANGED <<kbActive, conversation, rows, request, cut>>
  <2>1. CASE HideFile(f)
    BY <2>1, ChatAssumption DEF HideFile, Event
  <2>2. CASE ShowFile(f)
    <3>1. newest[f] \in 0 .. MaxVersions
      BY DEF ContextInv, TypeOK
    <3>. QED
      BY <2>2, <3>1, ChatAssumption DEF ShowFile, Event
  <2>. QED
    BY <2>1, <2>2
<1>2. /\ shown \in [Files -> 0 .. MaxVersions] /\ shown' = [shown EXCEPT ![f] = v]
      /\ newest' \in [Files -> 0 .. MaxVersions]
      /\ shown' \in [Files -> 0 .. MaxVersions]
  BY <1>1 DEF ShowVersion, ContextInv, TypeOK
<1>3. ASSUME NEW r \in Requests
      PROVE  /\ touched[r] \subseteq Files /\ wasVisible[r] \subseteq Chunks \cup Files
             /\ IF request[r].pc \in {"new", "over"}
                THEN wasVisible'[r] = wasVisible[r] /\ touched'[r] = touched[r]
                ELSE /\ wasVisible'[r] = wasVisible[r] \cup VisibleIn(shown') \cup ShownFiles(shown')
                     /\ touched'[r] = touched[r] \cup {f}
  BY <1>1 DEF ShowVersion, Open, ContextInv, TypeOK
<1>4. /\ wasVisible' \in [Requests -> SUBSET (Chunks \cup Files)]
      /\ touched' \in [Requests -> SUBSET Files]
  <2>1. wasVisible' = [r \in Requests |-> wasVisible'[r]] /\ touched' = [r \in Requests |-> touched'[r]]
    BY <1>1 DEF ShowVersion
  <2>2. \A r \in Requests : wasVisible'[r] \subseteq Chunks \cup Files /\ touched'[r] \subseteq Files
    BY <1>3, VisibleChunks
  <2>. QED
    BY <2>1, <2>2
<1>5. TypeOK'
  BY <1>1, <1>2, <1>4, ChatAssumption DEF ContextInv, TypeOK, rows
<1>6. ASSUME NEW r \in Requests
      PROVE  HandlerFits(request'[r], wasVisible'[r], touched'[r], shown')
  <2>1. request[r] \in Request /\ HandlerFits(request[r], wasVisible[r], touched[r], shown)
    BY DEF ContextInv, TypeOK
  <2>2. request'[r] = request[r]
    BY <1>1
  <2>3. CASE request[r].pc \in {"new", "over"}
    BY <1>2, <1>3, <2>1, <2>2, <2>3, WorldKeepsFit
  <2>4. CASE request[r].pc \notin {"new", "over"}
    <3>1. HandlerFits(request[r], wasVisible[r] \cup VisibleIn(shown') \cup ShownFiles(shown'),
                      touched[r] \cup {f}, shown')
      BY <1>2, <2>1, <2>4, WorldKeepsFit
    <3>2. /\ wasVisible'[r] = wasVisible[r] \cup VisibleIn(shown') \cup ShownFiles(shown')
          /\ touched'[r] = touched[r] \cup {f}
      BY <1>3, <2>4
    <3>. QED
      BY <2>2, <3>1, <3>2
  <2>. QED
    BY <2>3, <2>4
<1>7. \A r \in Requests : CitedFits(r)'
  <2>1. \A r \in Requests : touched[r] \subseteq touched'[r]
    BY <1>3
  <2>. QED
    BY <1>1, <2>1, CitedStays DEF rows
<1>. QED
  BY <1>5, <1>6, <1>7 DEF ContextInv

\* A step of one handler that writes no answer.
LEMMA HandlerKeepsContext ==
    ASSUME ContextInv, ChatInv, NEW r \in Requests, StepFits(r),
           user' \in SUBSET Requests, cut' \in SUBSET Requests,
           answer' \in [Requests -> AnswerStatuses],
           \A q \in Requests : answer'[q] = "completed" => answer[q] = "completed",
           UNCHANGED <<citations, trace, world>>
    PROVE  ContextInv'
<1>1. TypeOK'
  BY DEF StepFits, ContextInv, TypeOK, world
<1>2. \A q \in Requests : request'[q] = IF q = r THEN request'[r] ELSE request[q]
  BY DEF StepFits, ContextInv, TypeOK
<1>3. \A q \in Requests : HandlerFits(request'[q], wasVisible'[q], touched'[q], shown')
  BY <1>2 DEF StepFits, ContextInv, world
<1>4. ASSUME NEW q \in Requests PROVE CitedFits(q)'
  <2>1. answer[q] = "completed" => request'[q].hits = request[q].hits
    BY <1>2 DEF StepFits, ChatInv, SettledLast
  <2>. QED
    BY <2>1 DEF ContextInv, CitedFits, Untouched, world
<1>. QED
  BY <1>1, <1>3, <1>4 DEF ContextInv

LEMMA AskKeepsContext ==
    ASSUME ContextInv, ChatInv, NEW r \in Requests, NEW stream \in BOOLEAN, Ask(r, stream)
    PROVE  ContextInv'
<1>. DEFINE q == request[r]
<1>1. /\ q \in Request /\ q.pc = "new" /\ answer[r] = "none"
      /\ HandlerFits(q, wasVisible[r], touched[r], shown)
  BY DEF ContextInv, TypeOK, Ask, ChatInv, SettledLast
<1>2. /\ request' = [request EXCEPT ![r] = request'[r]]
      /\ request'[r] = [q EXCEPT !.pc = "route", !.stream = stream]
      /\ wasVisible' = [wasVisible EXCEPT ![r] = VisibleIn(shown) \cup ShownFiles(shown)]
  BY DEF Ask, Visible, ContextInv, TypeOK
<1>3. /\ request'[r] \in Request
      /\ request'[r].pc = "route" /\ request'[r].hits = q.hits /\ request'[r].context = q.context
  BY <1>1, <1>2 DEF Request, Pcs
<1>4. VisibleIn(shown) \cup ShownFiles(shown) \in SUBSET (Chunks \cup Files)
  BY VisibleChunks
<1>5. TypeOK'
  BY <1>2, <1>3, <1>4 DEF ContextInv, TypeOK, Ask, AnswerStatuses
<1>6. ASSUME NEW p \in Requests
      PROVE  HandlerFits(request'[p], wasVisible'[p], touched'[p], shown')
  <2>1. CASE p = r
    <3>1. wasVisible'[r] = VisibleIn(shown) \cup ShownFiles(shown)
      BY <1>2 DEF ContextInv, TypeOK
    <3>2. HandlerFits(request'[r], wasVisible'[r], touched[r], shown)
      BY <1>1, <1>3, <3>1, EmptyContext DEF HandlerFits, Untouched
    <3>. QED
      BY <2>1, <3>2 DEF Ask
  <2>2. CASE p # r
    <3>1. request'[p] = request[p] /\ wasVisible'[p] = wasVisible[p]
      BY <1>2, <2>2 DEF ContextInv, TypeOK
    <3>. QED
      BY <3>1 DEF Ask, ContextInv
  <2>. QED
    BY <2>1, <2>2
<1>7. ASSUME NEW p \in Requests PROVE CitedFits(p)'
  <2>1. p # r => request'[p] = request[p] /\ answer'[p] = answer[p]
    BY <1>2 DEF Ask, ContextInv, TypeOK
  <2>2. answer'[r] # "completed"
    BY <1>1 DEF Ask, ContextInv, TypeOK
  <2>. QED
    BY <2>1, <2>2 DEF ContextInv, CitedFits, Untouched, Ask
<1>. QED
  BY <1>5, <1>6, <1>7 DEF ContextInv

\* What is cited is what the model was given, without overview and summaries.
LEMMA SaveKeepsContext ==
    ASSUME ContextInv, ChatInv, NEW r \in Requests, Save(r)
    PROVE  ContextInv'
<1>. DEFINE q == request[r]
<1>1. /\ q \in Request /\ q.pc = "save" /\ q.context \in Seq(Items)
      /\ HandlerFits(q, wasVisible[r], touched[r], shown)
  BY ContextInSeq DEF ContextInv, TypeOK, Save
<1>2. /\ Citable(q.context) \in Seq(Chunks)
      /\ ToSet(Citable(q.context)) = ToSet(q.context) \cap Chunks
      /\ IsInjective(Citable(q.context))
  BY <1>1, CitableOf DEF HandlerFits
<1>3. StepFits(r)
  BY GotoFits DEF Save, Pcs
<1>4. request'[r].hits = q.hits
  BY <1>1 DEF Save, Goto, ContextInv, TypeOK, Request
<1>5. /\ citations' = [citations EXCEPT ![r] = Citable(q.context)]
      /\ trace' = [trace EXCEPT ![r] = [context |-> q.context,
                        cited |-> Citable(q.context), saved |-> TRUE]]
      /\ answer' = [answer EXCEPT ![r] = "completed"]
      /\ user' = user \cup {r}
      /\ UNCHANGED <<world, cut>>
  BY DEF Save
<1>6. TypeOK'
  <2>1. request' \in [Requests -> Request]
    BY <1>3 DEF StepFits, ContextInv, TypeOK
  <2>2. [context |-> q.context, cited |-> Citable(q.context), saved |-> TRUE]
            \in [context : Seq(Items), cited : Seq(Chunks), saved : BOOLEAN]
    BY <1>1, <1>2
  <2>3. /\ citations' \in [Requests -> Seq(Chunks)]
        /\ trace' \in [Requests -> [context : Seq(Items), cited : Seq(Chunks), saved : BOOLEAN]]
    BY <1>2, <1>5, <2>2 DEF ContextInv, TypeOK
  <2>4. user' \in SUBSET Requests /\ answer' \in [Requests -> AnswerStatuses]
    BY <1>5 DEF ContextInv, TypeOK, AnswerStatuses
  <2>. QED
    BY <1>5, <2>1, <2>3, <2>4 DEF ContextInv, TypeOK, world
<1>7. \A p \in Requests : HandlerFits(request'[p], wasVisible'[p], touched'[p], shown')
  BY <1>3, <1>5 DEF StepFits, ContextInv, TypeOK, world
<1>8. ASSUME NEW p \in Requests PROVE CitedFits(p)'
  <2>1. CASE p = r
    <3>1. citations'[r] = Citable(q.context)
      BY <1>5 DEF ContextInv, TypeOK
    <3>2. Untouched(q, touched[r]) \ Blank \subseteq ToSet(q.context) \cap Chunks
      BY <1>1 DEF HandlerFits, Untouched, Request
    <3>3. Untouched(request'[r], touched'[r]) = Untouched(q, touched[r])
      BY <1>4, <1>5 DEF Untouched, world
    <3>. QED
      BY <1>2, <2>1, <3>1, <3>2, <3>3 DEF CitedFits
  <2>2. CASE p # r
    <3>1. request'[p] = request[p]
      BY <1>3, <2>2 DEF StepFits, ContextInv, TypeOK
    <3>2. citations'[p] = citations[p] /\ answer'[p] = answer[p] /\ touched'[p] = touched[p]
      BY <1>5, <2>2 DEF ContextInv, TypeOK, world
    <3>. QED
      BY <3>1, <3>2 DEF ContextInv, CitedFits, Untouched
  <2>. QED
    BY <2>1, <2>2
<1>. QED
  BY <1>6, <1>7, <1>8 DEF ContextInv

LEMMA CrashKeepsContext ==
    ASSUME ContextInv, ChatInv, Crash
    PROVE  ContextInv'
<1>1. ASSUME NEW r \in Requests
      PROVE  /\ request[r] \in Request /\ request'[r] \in Request
             /\ request'[r].hits = request[r].hits /\ request'[r].context = request[r].context
             /\ request'[r].pc = "over" \/ request'[r] = request[r]
  <2>1. request[r] \in Request
    BY DEF ContextInv, TypeOK
  <2>2. request'[r] = [request[r] EXCEPT !.pc = "over"] \/ request'[r] = request[r]
    BY DEF Crash
  <2>. QED
    BY <2>1, <2>2 DEF Request, Pcs
<1>2. TypeOK'
  <2>1. request' \in [Requests -> Request]
    BY <1>1 DEF Crash
  <2>. QED
    BY <2>1 DEF Crash, ContextInv, TypeOK, rows, world
<1>3. \A r \in Requests : HandlerFits(request'[r], wasVisible[r], touched[r], shown)
  BY <1>1 DEF HandlerFits, ContextInv
<1>4. \A r \in Requests : CitedFits(r)'
  BY <1>1 DEF ContextInv, CitedFits, Untouched, Crash, rows, world
<1>. QED
  BY <1>2, <1>3, <1>4 DEF ContextInv, Crash, world

LEMMA NextKeepsContext == ContextInv /\ ChatInv /\ [Next]_vars => ContextInv'
<1>. SUFFICES ASSUME ContextInv, ChatInv, [Next]_vars PROVE ContextInv'
  OBVIOUS
<1>0. /\ user \in SUBSET Requests /\ cut \in SUBSET Requests
      /\ answer \in [Requests -> AnswerStatuses]
  BY DEF ContextInv, TypeOK
<1>1. CASE UNCHANGED vars
  BY <1>1 DEF vars, rows, world, ContextInv, TypeOK, CitedFits
<1>2. CASE \E f \in Files : HideFile(f) \/ ShowFile(f)
  BY <1>2, WorldKeepsContext
<1>3. CASE DisableKnowledgeBase \/ DeleteConversation
  <2>1. events' \in 0 .. MaxEvents
    BY <1>3, ChatAssumption DEF DisableKnowledgeBase, DeleteConversation, Event, ContextInv, TypeOK
  <2>2. /\ UNCHANGED <<shown, newest, wasVisible, touched, user, answer, citations, trace>>
        /\ UNCHANGED <<request, cut>>
        /\ kbActive' \in BOOLEAN /\ conversation' \in {"active", "deleted"}
    BY <1>3 DEF DisableKnowledgeBase, DeleteConversation, rows, ContextInv, TypeOK
  <2>3. TypeOK'
    BY <2>1, <2>2 DEF ContextInv, TypeOK
  <2>. QED
    BY <2>2, <2>3 DEF ContextInv, CitedFits
<1>4. CASE \E r \in Requests, stream \in BOOLEAN : Ask(r, stream)
  BY <1>4, AskKeepsContext
<1>5. ASSUME NEW r \in Requests, AskRejected(r) \/ Disconnect(r) PROVE ContextInv'
  <2>1. StepFits(r)
    BY <1>5, GotoFits DEF AskRejected, Disconnect, Pcs
  <2>2. cut' \in SUBSET Requests /\ UNCHANGED <<rows, world>>
    BY <1>0, <1>5 DEF AskRejected, Disconnect
  <2>. QED
    BY <1>0, <2>1, <2>2, HandlerKeepsContext DEF rows
<1>6. ASSUME NEW r \in Requests, Step(r) PROVE ContextInv'
  <2>1. CASE Save(r)
    BY <2>1, SaveKeepsContext
  <2>2. CASE ~Save(r)
    <3>1. StepFits(r)
      BY <1>6, StepKeepsFit
    <3>2. UNCHANGED <<answer, citations, trace, world, cut>> /\ user' \in SUBSET Requests
      BY <1>0, <1>6, <2>2 DEF Step, Route, FindSummaries, Search, LoadChunks, Rerank, LoadHits,
            LoadSections, LoadNeighbors, ReadOverview, Answer, Finish, rows
    <3>. QED
      BY <1>0, <3>1, <3>2, HandlerKeepsContext
  <2>. QED
    BY <2>1, <2>2
<1>7. ASSUME NEW r \in Requests, Fail(r) PROVE ContextInv'
  <2>1. StepFits(r)
    BY <1>7, GotoFits DEF Fail, Pcs
  <2>2. /\ answer' \in [Requests -> AnswerStatuses]
        /\ \A q \in Requests : answer'[q] = "completed" => answer[q] = "completed"
        /\ UNCHANGED <<user, citations, trace, world, cut>>
    BY <1>0, <1>7 DEF Fail, AnswerStatuses
  <2>. QED
    BY <1>0, <2>1, <2>2, HandlerKeepsContext
<1>8. CASE Crash
  BY <1>8, CrashKeepsContext
<1>. QED
  BY <1>1, <1>2, <1>3, <1>4, <1>5, <1>6, <1>7, <1>8 DEF Next

-----------------------------------------------------------------------------
(* Theorems *)

\* Whatever fails, disconnects or dies in the handlers of conversations.py, a
\* completed answer has its question, trace and citations, which agree, and no
\* other answer has any.
THEOREM WholeAnswers == Spec => []AnswerIsWhole
<1>1. ChatInv => AnswerIsWhole
  BY DEF ChatInv
<1>. QED
  BY <1>1, InitChat, NextKeeps, PTL DEF Spec

\* An error after the commit does not take an answer away, and an answer marked
\* as failed is not revived: stream_create_message_events looks at the status.
THEOREM AnswersSettleOnce == Spec => SettledAnswersStay
<1>1. ChatInv /\ [Next]_vars =>
        [\A r \in Requests : answer[r] \in {"completed", "failed"} => answer'[r] = answer[r]]_vars
  BY NextKeeps DEF SettledStay
<1>. QED
  BY <1>1, InitChat, NextKeeps, PTL DEF Spec, SettledAnswersStay
LEMMA ContextAlways == Spec => [](ChatInv /\ ContextInv)
  BY InitChat, InitContext, NextKeeps, NextKeepsContext, PTL DEF Spec

\* The lists that are filtered, expanded and joined stay lists of chunks and
\* context items, and the rows name what exists.
THEOREM ChatTypes == Spec => []TypeOK
<1>1. ContextInv => TypeOK
  BY DEF ContextInv
<1>. QED
  BY <1>1, ContextAlways, PTL

\* However the files change between the four queries, and however far the indexes
\* and chunk_relations lag, the model is given nothing that could not be retrieved
\* since the question was asked: load_chunks, expand_context_to_section_chunks and
\* expand_context_to_graph_neighbors each look at the rows.
THEOREM ContextIsCurrent == Spec => []ContextWasCurrent
<1>1. ContextInv => ContextWasCurrent
  BY DEF ContextInv, HandlerFits, ContextWasCurrent, Open
<1>. QED
  BY <1>1, ContextAlways, PTL

\* Sections that overlap, and neighbours of each other, are cited once: the set of
\* seen chunk ids in expand_context_to_section_chunks.
THEOREM CitationsAreDistinct == Spec => []NoDoubleCitation
<1>1. ContextInv => NoDoubleCitation
  BY DEF ContextInv, CitedFits, NoDoubleCitation
<1>. QED
  BY <1>1, ContextAlways, PTL

\* A chunk that passed the evidence gate is lost on no way from the reranker to the
\* citations, unless it shows no text or its file changed meanwhile.
THEOREM EvidenceReachesCitations == Spec => []EvidenceIsCited
<1>1. ContextInv => EvidenceIsCited
  BY DEF ContextInv, CitedFits, EvidenceIsCited, Untouched
<1>. QED
  BY <1>1, ContextAlways, PTL
=============================================================================
