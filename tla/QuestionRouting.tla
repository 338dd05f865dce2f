-------------------------- MODULE QuestionRouting --------------------------
(***************************************************************************)
(* How a question is answered: by whom it is classified, which path it     *)
(* takes, what is searched, which evidence is good enough and what of it   *)
(* may be shown.                                                           *)
(*                                                                         *)
(* Two models are asked, one for the category of the question and one for  *)
(* what to search.  They answer anything, or not at all; rules on keywords *)
(* stand before the first and behind the second.  A question is modelled   *)
(* by which keyword tables it hits.  ChatAnswer says what happens to the   *)
(* files and to the rows of a request meanwhile; here they stand still.    *)
(***************************************************************************)
EXTENDS Naturals, SequencesExt, Sublists

CONSTANTS
    Chunks,     \* searchable chunks: a set of numbers, in document order
    Pictured,   \* those of modality image
    Section,    \* the chunks of the section around a chunk, in document order
    Related,    \* chunk_relations
    Blank,      \* chunks without visible text
    Overview,   \* the context item made of the overview
    Summary,    \* the context items made of document summaries
    HitsFew, HitsMany,  \* vector_top_k and full_text_top_k: 30, 100
    Scores,     \* what the reranker says of a chunk
    Threshold,  \* settings.evidence_min_reranker_score
    RerankLimit,    \* RERANK_CANDIDATE_LIMIT
    RrfK,           \* RRF_K
    TopPlain, TopVisual, TopWide,  \* top_k: 16, 20, 24
    GatePlain, GateGallery         \* apply_evidence_gate: 6, 12

ASSUME RoutingAssumption ==
    /\ Chunks \subseteq Nat /\ IsFiniteSet(Chunks)
    /\ Pictured \subseteq Chunks
    /\ Section \in [Chunks -> Seq(Chunks)]
    /\ \A c \in Chunks : c \in ToSet(Section[c])
    /\ Related \subseteq SUBSET Chunks
    /\ Blank \subseteq Chunks
    /\ Overview \notin Chunks /\ Summary \notin Chunks
    /\ Scores \subseteq Nat
    /\ {HitsFew, HitsMany, Threshold, RerankLimit, RrfK} \subseteq Nat
    /\ {TopPlain, TopVisual, TopWide, GatePlain, GateGallery} \subseteq Nat \ {0}

VARIABLES
    pc,         \* what is done next
    question,   \* the keyword tables the question hits
    category,   \* KnowledgeSearchDecision.category, as the path goes on with it
    route,      \* RouteDecision
    items,      \* the context so far
    passed      \* history: the chunks that passed the evidence gate

vars == <<pc, question, category, route, items, passed>>

-----------------------------------------------------------------------------
(* Types *)

Safe == {"identity", "capability", "greeting", "thanks", "casual", "handoff"}
FromClassifier == {"knowledge_base_overall", "normal_rag", "mixed", "document_summary", "llm_direct"}

\* rule: the pattern of the rule router that matches; the others are keyword
\* tables: is_overall_query, has_mixed_intent, is_document_summary_query and
\* _looks_fact_seeking.
Questions == [rule : Safe \cup {"usage", "none"}, overall : BOOLEAN, mixed : BOOLEAN,
              summary : BOOLEAN, fact : BOOLEAN]
NoQuestion == [rule |-> "none", overall |-> FALSE, mixed |-> FALSE,
               summary |-> FALSE, fact |-> FALSE]

Modalities == {"text", "table", "image", "metadata"}
Modes == {"none", "single", "gallery"}

\* search_image_vector, must_return_visual, visual_result_mode, an intent of
\* summarization or comparison, the routes that are enabled and those with a
\* top_k above 30; weights are not looked at by anything.
RouteDecisions ==
    [images : BOOLEAN, must : BOOLEAN, mode : Modes, wide : BOOLEAN,
     enabled : SUBSET Modalities, deep : SUBSET Modalities]
NoRoute == [images |-> FALSE, must |-> FALSE, mode |-> "none", wide |-> FALSE,
            enabled |-> {}, deep |-> {}]

\* modality: image or not; pictures: image_url, image_urls and image_alt.
Items == [chunk : Chunks \cup {Overview, Summary}, score : Nat,
          image : BOOLEAN, pictures : BOOLEAN]

TypeOK ==
    /\ pc \in {"ask", "decide", "path", "route", "search", "rerank", "gate", "expand", "show", "answer"}
    /\ question \in Questions
    /\ category \in Safe \cup FromClassifier \cup {"usage"}
    /\ route \in RouteDecisions
    /\ items \in Seq(Items)
    /\ passed \in SUBSET Chunks

-----------------------------------------------------------------------------
(* Sequences *)

FirstOf(s, n) == SubSeq(s, 1, IF n < Len(s) THEN n ELSE Len(s))

ChunksOf(s) == {s[k].chunk : k \in DOMAIN s}

\* chunk_id of the items of a list.
IdsOf(s) == [k \in DOMAIN s |-> s[k].chunk]

-----------------------------------------------------------------------------
(* The category: LLMKnowledgeSearchRouter, RuleBasedKnowledgeSearchRouter *)

\* An open question of which nothing is known yet.
Ask(q) ==
    /\ pc = "ask"
    /\ question' = q
    /\ pc' = "decide"
    /\ UNCHANGED <<category, route, items, passed>>

ByRules(q) ==
    IF q.rule # "none" THEN q.rule
    ELSE IF q.overall /\ q.mixed THEN "mixed"
    ELSE IF q.summary THEN "document_summary"
    ELSE IF q.overall THEN "knowledge_base_overall"
    ELSE "normal_rag"

\* Faulty variant: what the classifier says is not looked for in the list.
ByClassifierUnparsed(q, said) ==
    IF said \in {"llm_direct", "knowledge_base_overall"} /\ q.fact THEN "normal_rag" ELSE said

\* The classifier is not configured, fails or says what is not a category
\* ("nothing"); or it names one, which is overridden where it would spare the
\* search for a question that looks for a fact.
ByClassifier(q, said) ==
    IF said = "nothing" \/ (said \in {"llm_direct", "knowledge_base_overall"} /\ q.fact)
    THEN "normal_rag" ELSE said

\* Only what the rules know nothing of is classified by the model.
Decide(said) ==
    /\ pc = "decide"
    /\ category' = IF ByRules(question) = "normal_rag" THEN ByClassifier(question, said)
                   ELSE ByRules(question)
    /\ pc' = "path"
    /\ UNCHANGED <<question, route, items, passed>>

-----------------------------------------------------------------------------
(* The path *)

\* The overview is the answer.
AnswerOverview ==
    /\ pc = "path"
    /\ category = "knowledge_base_overall"
    /\ pc' = "answer"
    /\ UNCHANGED <<question, category, route, items, passed>>

\* Faulty variant: whatever needs no search according to its category.
AnswerWithoutSearch ==
    /\ pc = "path"
    /\ category \in Safe \cup {"usage", "llm_direct"}
    /\ pc' = "answer"
    /\ UNCHANGED <<question, category, route, items, passed>>

\* The profile of the assistant or the model alone is the answer.
AnswerDirectly ==
    /\ pc = "path"
    /\ category \in Safe
    /\ pc' = "answer"
    /\ UNCHANGED <<question, category, route, items, passed>>

\* search_document_summaries: those whose file is named, else those that hold
\* a word of the question, else all; without any the question is searched.
SummaryItem == [chunk |-> Summary, score |-> 1, image |-> FALSE, pictures |-> FALSE]
AnswerFromSummaries(n) ==
    /\ pc = "path"
    /\ category = "document_summary"
    /\ n > 0
    /\ items' = [k \in 1 .. n |-> SummaryItem]
    /\ pc' = "answer"
    /\ UNCHANGED <<question, category, route, passed>>

\* Of the classification, nothing else is looked at again.
GoSearching ==
    /\ pc = "path"
    /\ category \notin Safe \cup {"knowledge_base_overall"}
    /\ category' = IF category = "mixed" THEN category ELSE "normal_rag"
    /\ question' = NoQuestion
    /\ pc' = "route"
    /\ UNCHANGED <<route, items, passed>>

-----------------------------------------------------------------------------
(* What to search: LLMQueryRouter, RuleBasedQueryRouter *)

\* The keyword tables of the rules; the others, FIELD_KEYWORDS and
\* MULTIMODAL_KEYWORDS, change intent, weights and confidence.
Tables == {"visual", "doc_lookup", "gallery"}

RuleRoute(hits) ==
    LET visual == "visual" \in hits
        lookup == "doc_lookup" \in hits
    IN [images |-> visual /\ ~lookup,
        must |-> visual /\ ~lookup,
        mode |-> IF "gallery" \in hits THEN "gallery"
                 ELSE IF visual /\ ~lookup THEN "single" ELSE "none",
        wide |-> FALSE,
        enabled |-> IF lookup THEN Modalities
                    ELSE {"text"} \cup (IF visual THEN {"image"} ELSE {"table"}),
        deep |-> {}]

\* normalize_route_decision, build_normalized_routes: of modalities that are
\* not given, text and table are enabled.
Normalized(r, given, gallery) ==
    LET images == r.images \/ r.must
        defaults == {"text", "table"} \ given
        absent == IF gallery THEN "gallery" ELSE "single"
    IN [images |-> images,
        must |-> images,
        mode |-> IF ~images THEN "none" ELSE IF r.mode = "none" THEN absent ELSE r.mode,
        wide |-> r.wide,
        enabled |-> {"text"} \cup defaults \cup ((r.enabled \cap given) \ {"image"})
                        \cup (IF images THEN {"image"} ELSE {}),
        deep |-> r.deep \cap given]

\* The model says anything that has the form of a decision.
RouteByModel(r, given, gallery) ==
    /\ pc = "route"
    /\ route' = Normalized(r, given, gallery)
    /\ pc' = "search"
    /\ UNCHANGED <<question, category, items, passed>>

\* It is not configured, fails, or what it says has not that form.
RouteByRules(hits) ==
    /\ pc = "route"
    /\ route' = Normalized(RuleRoute(hits), Modalities, "gallery" \in hits)
    /\ pc' = "search"
    /\ UNCHANGED <<question, category, items, passed>>

-----------------------------------------------------------------------------
(* The search: search_knowledge_base *)

\* build_routed_retrieval_request
Limit == IF route.deep \cap route.enabled # {} THEN HitsMany ELSE HitsFew
TopK == IF route.mode = "gallery" THEN TopWide
        ELSE IF route.must THEN TopVisual
        ELSE IF route.wide THEN TopWide ELSE TopPlain

\* Lists of hits of an index, best first.
Lists(chunks) ==
    {s \in UNION {[1 .. n -> chunks] : n \in 0 .. Limit} :
        \A j, k \in DOMAIN s : j # k => s[j] # s[k]}

\* Reciprocal ranks, in millionths; of a list that comes after others, the ranks go on.
Reciprocal(rank) == 1000000 \div (RrfK + rank)
Gain(list, before, c) ==
    IF c \in ToSet(list) THEN Reciprocal(before + (CHOOSE k \in DOMAIN list : list[k] = c)) ELSE 0

Item(c, score) == [chunk |-> c, score |-> score, image |-> c \in Pictured,
                   pictures |-> c \in Pictured]

\* merge_candidates: the hits of both vector searches make one list.
Merged(images, vectors, words) ==
    LET found == images \o vectors \o words
        all == OnceEach(found, found)
        score(c) == Gain(images, 0, c) + Gain(vectors, Len(images), c) + Gain(words, 0, c)
    IN SortedByKey(all, [k \in DOMAIN all |-> score(all[k])])

Search(images, vectors, words) ==
    /\ pc = "search"
    /\ LET best == FirstOf(Merged(images, vectors, words), RerankLimit)
       IN items' = [k \in DOMAIN best |-> Item(best[k], 0)]
    /\ pc' = "rerank"
    /\ UNCHANGED <<question, category, route, passed>>

Rerank(score) ==
    /\ pc = "rerank"
    /\ items' = FirstOf(SortedByKey([k \in DOMAIN items |-> [items[k] EXCEPT !.score = score[items[k].chunk]]],
                                    [k \in DOMAIN items |-> score[items[k].chunk]]),
                        TopK)
    /\ pc' = "gate"
    /\ UNCHANGED <<question, category, route, passed>>

-----------------------------------------------------------------------------
(* The evidence, and what is added to it *)

\* apply_route_preferences
Preferred ==
    IF route.must THEN SortedByKey(items, [k \in DOMAIN items |-> IF items[k].image THEN 1 ELSE 0])
    ELSE items

\* apply_evidence_gate
Gated ==
    LET first == FirstOf(Preferred, IF route.mode = "gallery" THEN GateGallery ELSE GatePlain)
    IN Sublist(first, {k \in DOMAIN first : first[k].score >= Threshold})

Gate ==
    /\ pc = "gate"
    /\ items' = Gated
    /\ passed' = ChunksOf(Gated)
    /\ pc' = "expand"
    /\ UNCHANGED <<question, category, route>>

SectionItems(i) ==
    [n \in DOMAIN Section[i.chunk] |-> Item(Section[i.chunk][n], i.score)]

AllSections == FlattenSeq([k \in DOMAIN items |-> SectionItems(items[k])])

\* Faulty variant: a chunk comes again with every hit of its section.
WithSectionsRepeated == AllSections

\* expand_context_to_section_chunks: a chunk is taken with the first hit in
\* whose section it is.
WithSections == OnceEach(AllSections, IdsOf(AllSections))

\* The score of a neighbour: similarity and decay are below one.
Decayed(score) == score \div 2

\* expand_context_to_graph_neighbors: all of them, in no order that matters;
\* max_neighbors is not looked at.
NeighboursOf(chunks) == {c \in Chunks \ chunks : \E d \in chunks : {c, d} \in Related}
WithNeighbours(context) ==
    LET new == SetToSeq(NeighboursOf(ChunksOf(context)))
        besides(c) == {k \in DOMAIN context : {c, context[k].chunk} \in Related}
        score(c) == Max({Decayed(context[k].score) : k \in besides(c)})
    IN context \o [n \in DOMAIN new |-> Item(new[n], score(new[n]))]

Expand ==
    /\ pc = "expand"
    /\ items' = WithNeighbours(WithSections)
    /\ pc' = "show"
    /\ UNCHANGED <<question, category, route, passed>>

\* Faulty variant: only what the search found is looked at.
DisplayedHits(context) ==
    [k \in DOMAIN context |->
        IF context[k].chunk \in passed
        THEN [context[k] EXCEPT !.image = @ /\ route.images, !.pictures = @ /\ route.images]
        ELSE context[k]]

\* apply_image_display_policy
Displayed(context) ==
    LET visible == Sublist(context, {k \in DOMAIN context : context[k].chunk \notin Blank})
    IN [k \in DOMAIN visible |-> [visible[k] EXCEPT !.image = @ /\ route.images,
                                                   !.pictures = @ /\ route.images]]

\* build_overall_context_item
OverviewItem == [chunk |-> Overview, score |-> 1, image |-> FALSE, pictures |-> FALSE]

Show ==
    /\ pc = "show"
    /\ items' = IF category = "mixed" THEN <<OverviewItem>> \o Displayed(items) ELSE Displayed(items)
    /\ pc' = "answer"
    /\ UNCHANGED <<question, category, route, passed>>

-----------------------------------------------------------------------------
Init ==
    /\ pc = "ask"
    /\ question = NoQuestion
    /\ category = "normal_rag"
    /\ route = NoRoute
    /\ items = <<>>
    /\ passed = {}

\* The next question knows nothing of this one.
Answered ==
    /\ pc = "answer"
    /\ pc' = "ask"
    /\ route' = NoRoute
    /\ category' = "normal_rag"
    /\ items' = <<>>
    /\ passed' = {}
    /\ question' = NoQuestion

\* Bound: what the model says of top_k.
SaidRoutes == {r \in RouteDecisions : r.deep \in {{}, {"image"}}}

Next ==
    \/ \E q \in Questions : Ask(q)
    \/ \E said \in FromClassifier \cup {"nothing"} : Decide(said)
    \/ AnswerOverview \/ AnswerDirectly
    \/ \E n \in 0 .. Cardinality(Chunks) : AnswerFromSummaries(n)
    \/ GoSearching
    \/ \E r \in SaidRoutes, given \in SUBSET Modalities, gallery \in BOOLEAN :
        RouteByModel(r, given, gallery)
    \/ \E hits \in SUBSET Tables : RouteByRules(hits)
    \/ \E vectors, words \in Lists(Chunks), images \in Lists(Pictured) : Search(images, vectors, words)
    \/ \E score \in [Chunks -> Scores] : Rerank(score)
    \/ Gate \/ Expand \/ Show
    \/ Answered

Spec == Init /\ [][Next]_vars

-----------------------------------------------------------------------------
(* Safety *)

\* The parts of a decision say the same of pictures.
DecisionAgrees ==
    /\ route.images = route.must
    /\ route.images = ("image" \in route.enabled)
    /\ route.images = (route.mode # "none")
    /\ "text" \in route.enabled

\* A picture is shown only if the decision, of whichever model or rule, says
\* so, and then all parts of the decision agree: the image route is enabled,
\* the answer has to return one, and there is a way of showing it; the text is
\* searched in any case.  Whatever path an item took into the context.
PicturesOnlyIfAskedFor ==
    /\ route # NoRoute => DecisionAgrees
    /\ pc = "answer" => \A k \in DOMAIN items : items[k].pictures => route.images

\* The classifier alone never spares a question the search: without one it is
\* answered only if a rule found small talk or, for a question that looks for
\* no fact or hits the tables of the overview, if it is about the whole
\* knowledge base; the summaries stand in for chunks only where there are any.
SearchedUnlessSafe ==
    (pc = "answer" /\ route = NoRoute) =>
        \/ question.rule \in Safe
        \/ category = "knowledge_base_overall" /\ (question.overall \/ ~question.fact)
        \/ category = "document_summary" /\ items # <<>>

\* What the model is given comes from evidence that was good enough: every
\* chunk is in the section of one that passed the gate or next to such a
\* section, none comes twice, none that passed and has text is missing, and
\* without evidence there is nothing but the overview.
ContextGrounded ==
    (pc = "answer" /\ category # "document_summary") =>
        LET given == {k \in DOMAIN items : items[k].chunk \in Chunks}
            near == UNION {ToSet(Section[c]) : c \in passed}
        IN  /\ \A k \in given :
                items[k].chunk \in near \/ \E c \in near : {c, items[k].chunk} \in Related
            /\ \A j, k \in given : j # k => items[j].chunk # items[k].chunk
            /\ passed \ Blank \subseteq ChunksOf(items)
            /\ \A k \in DOMAIN items : k \notin given => items[k].chunk = Overview /\ category = "mixed"
=============================================================================
