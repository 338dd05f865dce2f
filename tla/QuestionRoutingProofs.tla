------------------------ MODULE QuestionRoutingProofs ------------------------
(***************************************************************************)
(* Proofs about QuestionRouting, for any chunks, sections, relations,      *)
(* scores and limits, and whatever the two models say.                     *)
(***************************************************************************)
EXTENDS QuestionRouting, SublistsProofs

-----------------------------------------------------------------------------
(* The invariant *)

Routed == {"search", "rerank", "gate", "expand", "show"}

\* The category is what the rules, or else the classifier, made of it.
Categorized ==
    pc = "path" =>
        \/ category = ByRules(question) /\ category # "normal_rag"
        \/ \E said \in FromClassifier \cup {"nothing"} : category = ByClassifier(question, said)

\* There is a decision from the routing on, and before the answer only then.
DecidedInTime == pc \in Routed => route # NoRoute

RoutingInv ==
    /\ question \in Questions
    /\ Categorized
    /\ DecidedInTime
    /\ SearchedUnlessSafe
    /\ route # NoRoute => DecisionAgrees

-----------------------------------------------------------------------------
(* The decision *)

\* Whatever is said of the route, normalization makes its parts agree.
LEMMA NormalizedAgrees ==
    ASSUME NEW r, r.images \in BOOLEAN, r.must \in BOOLEAN, NEW given,
           NEW gallery \in BOOLEAN, route' = Normalized(r, given, gallery)
    PROVE  DecisionAgrees' /\ route' # NoRoute
<1>. DEFINE images == r.images \/ r.must
<1>1. /\ route'.images = images /\ route'.must = images
      /\ route'.mode = IF ~images THEN "none" ELSE IF r.mode = "none"
                       THEN (IF gallery THEN "gallery" ELSE "single") ELSE r.mode
      /\ route'.enabled = {"text"} \cup ({"text", "table"} \ given)
            \cup ((r.enabled \cap given) \ {"image"}) \cup (IF images THEN {"image"} ELSE {})
  BY DEF Normalized
<1>2. images \in BOOLEAN
  OBVIOUS
<1>. HIDE DEF images
<1>3. "text" \in route'.enabled /\ route' # NoRoute
  BY <1>1 DEF NoRoute
<1>4. ("image" \in route'.enabled) = images
  BY <1>1, <1>2
<1>5. (route'.mode # "none") = images
  BY <1>1, <1>2
<1>. QED
  BY <1>1, <1>3, <1>4, <1>5 DEF DecisionAgrees

LEMMA SaidAgrees ==
    ASSUME NEW r \in SaidRoutes, NEW given \in SUBSET Modalities, NEW gallery \in BOOLEAN,
           RouteByModel(r, given, gallery)
    PROVE  DecisionAgrees' /\ route' # NoRoute
  BY NormalizedAgrees DEF RouteByModel, SaidRoutes, RouteDecisions

LEMMA RulesAgree ==
    ASSUME NEW hits \in SUBSET Tables, RouteByRules(hits)
    PROVE  DecisionAgrees' /\ route' # NoRoute
<1>. DEFINE r == RuleRoute(hits)
<1>1. r.images \in BOOLEAN /\ r.must \in BOOLEAN
  BY DEF RuleRoute
<1>2. \/ route' = Normalized(r, Modalities, TRUE)
      \/ route' = Normalized(r, Modalities, FALSE)
  BY DEF RouteByRules, Normalized
<1>. HIDE DEF r
<1>3. ASSUME NEW gallery \in BOOLEAN, route' = Normalized(r, Modalities, gallery)
      PROVE  DecisionAgrees' /\ route' # NoRoute
  BY <1>1, <1>3, NormalizedAgrees
<1>4. CASE route' = Normalized(r, Modalities, TRUE)
  BY <1>3, <1>4
<1>5. CASE route' = Normalized(r, Modalities, FALSE)
  BY <1>3, <1>5
<1>. QED
  BY <1>2, <1>4, <1>5

-----------------------------------------------------------------------------
(* The path *)

\* The classifier never names small talk, nor the overview for a fact.
LEMMA ClassifierSpares ==
    ASSUME NEW q, NEW said \in FromClassifier \cup {"nothing"}
    PROVE  /\ ByClassifier(q, said) \notin Safe
           /\ ByClassifier(q, said) = "knowledge_base_overall" => ~q.fact
  BY DEF ByClassifier, FromClassifier, Safe

\* The rules name small talk, or the overview, only where a table hits.
LEMMA RulesSpare ==
    ASSUME NEW q \in Questions
    PROVE  /\ ByRules(q) \in Safe => q.rule \in Safe
           /\ ByRules(q) = "knowledge_base_overall" => q.overall
<1>1. q.rule # "knowledge_base_overall"
  BY DEF Questions, Safe
<1>. QED
  BY <1>1 DEF ByRules, Safe

\* A step that leaves the question its answer, or gives it none.
LEMMA NoAnswerKeeps ==
    ASSUME RoutingInv, UNCHANGED <<question, category, route>>, pc' # "path",
           pc' \in Routed => route # NoRoute, pc' = "answer" => route # NoRoute
    PROVE  RoutingInv'
  BY DEF RoutingInv, Categorized, DecidedInTime, SearchedUnlessSafe, DecisionAgrees

\* An answer given without a search.
LEMMA AnsweredSafely ==
    ASSUME RoutingInv, pc = "path",
           AnswerOverview \/ AnswerDirectly
             \/ (\E n \in 0 .. Cardinality(Chunks) : AnswerFromSummaries(n))
    PROVE  SearchedUnlessSafe'
<1>1. CASE AnswerOverview
  BY <1>1, RulesSpare, ClassifierSpares
  DEF RoutingInv, Categorized, AnswerOverview, SearchedUnlessSafe
<1>2. CASE AnswerDirectly
  BY <1>2, RulesSpare, ClassifierSpares
  DEF RoutingInv, Categorized, AnswerDirectly, SearchedUnlessSafe
<1>3. ASSUME NEW n \in 0 .. Cardinality(Chunks), AnswerFromSummaries(n)
      PROVE  SearchedUnlessSafe'
  <2>1. n \in Int /\ n > 0 /\ items' = [k \in 1 .. n |-> SummaryItem]
    BY <1>3 DEF AnswerFromSummaries
  <2>2. 1 \in DOMAIN items'
    BY <2>1
  <2>3. items' # <<>>
    BY <2>2
  <2>. QED
    BY <1>3, <2>3 DEF AnswerFromSummaries, SearchedUnlessSafe
<1>. QED
  BY <1>1, <1>2, <1>3

LEMMA NextRouting == RoutingInv /\ [Next]_vars => RoutingInv'
<1>. SUFFICES ASSUME RoutingInv, [Next]_vars
              PROVE  RoutingInv'
  OBVIOUS
<1>. USE DEF RoutingInv, Routed
<1>1. ASSUME NEW q \in Questions, Ask(q)
      PROVE  RoutingInv'
  BY <1>1 DEF Ask, Categorized, DecidedInTime, SearchedUnlessSafe, DecisionAgrees
<1>2. ASSUME NEW said \in FromClassifier \cup {"nothing"}, Decide(said)
      PROVE  RoutingInv'
  BY <1>2 DEF Decide, Categorized, DecidedInTime, SearchedUnlessSafe, DecisionAgrees
<1>3. CASE AnswerOverview \/ AnswerDirectly
             \/ \E n \in 0 .. Cardinality(Chunks) : AnswerFromSummaries(n)
  <2>1. pc = "path" /\ pc' = "answer" /\ UNCHANGED <<question, category, route>>
    BY <1>3 DEF AnswerOverview, AnswerDirectly, AnswerFromSummaries
  <2>. QED
    BY <1>3, <2>1, AnsweredSafely DEF Categorized, DecidedInTime, DecisionAgrees
<1>4. CASE GoSearching
  <2>1. NoQuestion \in Questions
    BY DEF NoQuestion, Questions
  <2>. QED
    BY <1>4, <2>1
    DEF GoSearching, Categorized, DecidedInTime, SearchedUnlessSafe, DecisionAgrees
<1>5. ASSUME DecisionAgrees', route' # NoRoute, pc' = "search", UNCHANGED <<question, category>>
      PROVE  RoutingInv'
  BY <1>5 DEF Categorized, DecidedInTime, SearchedUnlessSafe
<1>6. ASSUME NEW r \in SaidRoutes, NEW given \in SUBSET Modalities, NEW gallery \in BOOLEAN,
             RouteByModel(r, given, gallery)
      PROVE  RoutingInv'
  BY <1>5, <1>6, SaidAgrees DEF RouteByModel
<1>7. ASSUME NEW hits \in SUBSET Tables, RouteByRules(hits)
      PROVE  RoutingInv'
  BY <1>5, <1>7, RulesAgree DEF RouteByRules
<1>8. ASSUME NEW vectors, NEW words, NEW images, Search(images, vectors, words)
      PROVE  RoutingInv'
  BY <1>8, NoAnswerKeeps DEF Search, DecidedInTime
<1>9. ASSUME NEW score, Rerank(score)
      PROVE  RoutingInv'
  BY <1>9, NoAnswerKeeps DEF Rerank, DecidedInTime
<1>10. CASE Gate \/ Expand \/ Show
  BY <1>10, NoAnswerKeeps DEF Gate, Expand, Show, DecidedInTime
<1>11. CASE Answered
  <2>1. NoQuestion \in Questions
    BY DEF NoQuestion, Questions
  <2>. QED
    BY <1>11, <2>1
    DEF Answered, Categorized, DecidedInTime, SearchedUnlessSafe, DecisionAgrees
<1>12. CASE UNCHANGED vars
  BY <1>12 DEF vars, Categorized, DecidedInTime, SearchedUnlessSafe, DecisionAgrees
<1>. QED
  BY <1>1, <1>2, <1>3, <1>4, <1>6, <1>7, <1>8, <1>9, <1>10, <1>11, <1>12 DEF Next

LEMMA InitRouting == Init => RoutingInv
<1>1. NoQuestion \in Questions
  BY DEF NoQuestion, Questions
<1>. QED
  BY <1>1 DEF Init, RoutingInv, Categorized, DecidedInTime, Routed, SearchedUnlessSafe

\* Only a rule, never the classifier alone, spares a question that looks for
\* a fact the search.
THEOREM RoutingSearched == Spec => []SearchedUnlessSafe
  BY InitRouting, NextRouting, PTL DEF Spec, RoutingInv

\* The parts of every decision agree, whichever model or rule it is from.
THEOREM RoutingAgrees == Spec => [](route # NoRoute => DecisionAgrees)
  BY InitRouting, NextRouting, PTL DEF Spec, RoutingInv

-----------------------------------------------------------------------------
(* Lists of items *)

\* No chunk, and neither overview nor summary, comes twice.
Distinct(s) == \A j, k \in DOMAIN s : s[j].chunk = s[k].chunk => j = k

LEMMA FirstOfPicks ==
    ASSUME NEW T, NEW s \in Seq(T), NEW n \in Nat
    PROVE  FirstOf(s, n) \in Seq(T) /\ \E e : Picks(FirstOf(s, n), s, e)
<1>. DEFINE m == IF n < Len(s) THEN n ELSE Len(s)
            t == SubSeq(s, 1, m)
            e == [k \in 1 .. m |-> k]
<1>1. Len(s) \in Nat /\ DOMAIN s = 1 .. Len(s) /\ m \in 0 .. Len(s) /\ m \in Int
  BY LenProperties
<1>2. \A k \in 1 .. m : s[k] \in T /\ k \in DOMAIN s
  BY <1>1, ElementOfSeq
<1>. HIDE DEF m
<1>3. /\ t \in Seq(T) /\ Len(t) = (IF 1 <= m THEN m - 1 + 1 ELSE 0)
      /\ \A k \in 1 .. m - 1 + 1 : t[k] = s[1 + k - 1]
  BY <1>1, <1>2, SubSeqProperties
<1>4. DOMAIN t = 1 .. m
  <2>1. Len(t) = m
    BY <1>1, <1>3
  <2>. HIDE DEF t
  <2>. QED
    BY <1>3, <2>1, LenProperties
<1>5. \A k \in 1 .. m : t[k] = s[k]
  <2>. TAKE k \in 1 .. m
  <2>1. k \in 1 .. m - 1 + 1 /\ 1 + k - 1 = k
    BY <1>1
  <2>. QED
    BY <1>3, <2>1
<1>. HIDE DEF t
<1>6. Picks(t, s, e)
  BY <1>2, <1>4, <1>5 DEF Picks
<1>. QED
  BY <1>3, <1>6 DEF FirstOf, t, m

\* What is picked from distinct items is distinct.
LEMMA PicksKeep ==
    ASSUME NEW t, NEW s, NEW e, Picks(t, s, e)
    PROVE  /\ Distinct(s) => Distinct(t)
           /\ ChunksOf(t) \subseteq ChunksOf(s)
  BY DEF Picks, Distinct, ChunksOf

\* Items that are changed, but not their chunks.
LEMMA SameChunks ==
    ASSUME NEW s, NEW t, DOMAIN t = DOMAIN s, \A k \in DOMAIN s : t[k].chunk = s[k].chunk
    PROVE  (Distinct(t) <=> Distinct(s)) /\ ChunksOf(t) = ChunksOf(s)
  BY DEF Distinct, ChunksOf

LEMMA ItemsOf ==
    ASSUME NEW c \in Chunks, NEW score \in Nat
    PROVE  Item(c, score) \in Items /\ Item(c, score).chunk = c
  BY DEF Item, Items

LEMMA ItemsInSeq ==
    ASSUME NEW s \in Seq(Items)
    PROVE  /\ Len(s) \in Nat /\ DOMAIN s = 1 .. Len(s)
           /\ \A k \in DOMAIN s : s[k] \in Items /\ s[k].score \in Nat /\ s[k].chunk \in ChunksOf(s)
<1>1. Len(s) \in Nat /\ DOMAIN s = 1 .. Len(s)
  BY LenProperties
<1>2. \A k \in DOMAIN s : s[k] \in Items
  BY <1>1, ElementOfSeq
<1>. QED
  BY <1>1, <1>2 DEF Items, ChunksOf

\* A list of chunks, as items.
LEMMA ItemsFromChunks ==
    ASSUME NEW s \in Seq(Chunks), NEW score, \A k \in DOMAIN s : score[k] \in Nat,
           NEW t, t = [k \in DOMAIN s |-> Item(s[k], score[k])]
    PROVE  /\ t \in Seq(Items) /\ DOMAIN t = DOMAIN s
           /\ ChunksOf(t) = ToSet(s)
           /\ IsInjective(s) => Distinct(t)
<1>1. Len(s) \in Nat /\ DOMAIN s = 1 .. Len(s) /\ \A k \in DOMAIN s : s[k] \in Chunks
  BY LenProperties, ElementOfSeq
<1>2. \A k \in DOMAIN s : t[k] \in Items /\ t[k].chunk = s[k]
  BY <1>1, ItemsOf
<1>3. t \in [1 .. Len(s) -> Items]
  BY <1>1, <1>2
<1>4. t \in Seq(Items) /\ DOMAIN t = DOMAIN s
  BY <1>1, <1>3, SeqFromFunction
<1>5. ChunksOf(t) = ToSet(s)
  BY <1>2, <1>4 DEF ChunksOf, ToSet
<1>6. IsInjective(s) => Distinct(t)
  BY <1>2, <1>4 DEF IsInjective, Distinct
<1>. QED
  BY <1>4, <1>5, <1>6

-----------------------------------------------------------------------------
(* What search, gate and expansion make of them *)

LEMMA ReciprocalNat ==
    ASSUME NEW rank \in Nat, rank # 0
    PROVE  Reciprocal(rank) \in Nat
<1>1. RrfK \in Nat /\ RrfK + rank \in Nat /\ RrfK + rank > 0
  BY RoutingAssumption
<1>. QED
  BY <1>1 DEF Reciprocal

LEMMA GainNat ==
    ASSUME NEW list \in Seq(Chunks), NEW before \in Nat, NEW c
    PROVE  Gain(list, before, c) \in Nat
<1>. DEFINE k == CHOOSE k \in DOMAIN list : list[k] = c
<1>1. CASE c \in ToSet(list)
  <2>1. k \in DOMAIN list
    BY <1>1 DEF ToSet
  <2>. HIDE DEF k
  <2>2. k \in Nat /\ k # 0
    BY <2>1, LenProperties
  <2>3. Reciprocal(before + k) \in Nat
    BY <2>2, ReciprocalNat
  <2>. QED
    BY <1>1, <2>3 DEF Gain, k
<1>2. CASE c \notin ToSet(list)
  BY <1>2 DEF Gain
<1>. QED
  BY <1>1, <1>2

\* A chunk that several searches find is one candidate.
LEMMA MergedOf ==
    ASSUME NEW images \in Seq(Chunks), NEW vectors \in Seq(Chunks), NEW words \in Seq(Chunks)
    PROVE  Merged(images, vectors, words) \in Seq(Chunks)
           /\ IsInjective(Merged(images, vectors, words))
<1>. DEFINE found == images \o vectors \o words
            all == OnceEach(found, found)
            score(c) == Gain(images, 0, c) + Gain(vectors, Len(images), c) + Gain(words, 0, c)
            keys == [k \in DOMAIN all |-> score(all[k])]
<1>1. found \in Seq(Chunks)
  BY ToSetOfConcat
<1>. HIDE DEF found
<1>2. all \in Seq(Chunks) /\ IsInjective(all)
  BY <1>1, OnceEachItself
<1>. HIDE DEF all
<1>3. \A c : score(c) \in Nat
  <2>. TAKE c
  <2>1. Len(images) \in Nat /\ 0 \in Nat
    BY LenProperties
  <2>2. Gain(images, 0, c) \in Nat /\ Gain(vectors, Len(images), c) \in Nat /\ Gain(words, 0, c) \in Nat
    BY <2>1, GainNat
  <2>. QED
    BY <2>2
<1>. HIDE DEF score
<1>4. keys \in [DOMAIN all -> Nat]
  BY <1>3
<1>5. Merged(images, vectors, words) = SortedByKey(all, keys)
  BY DEF Merged, found, all, score
<1>. HIDE DEF keys
<1>6. /\ SortedByKey(all, keys) \in Seq(Chunks)
      /\ \E e : Picks(SortedByKey(all, keys), all, e)
  BY <1>2, <1>4, SortedOf
<1>7. IsInjective(SortedByKey(all, keys))
  BY <1>2, <1>6, PicksInjective
<1>. QED
  BY <1>5, <1>6, <1>7

\* Sorting and cutting items.
LEMMA SortedItems ==
    ASSUME NEW s \in Seq(Items), Distinct(s), NEW keys \in [DOMAIN s -> Nat]
    PROVE  /\ SortedByKey(s, keys) \in Seq(Items) /\ Distinct(SortedByKey(s, keys))
           /\ ChunksOf(SortedByKey(s, keys)) \subseteq ChunksOf(s)
<1>1. SortedByKey(s, keys) \in Seq(Items) /\ \E e : Picks(SortedByKey(s, keys), s, e)
  BY SortedOf
<1>. QED
  BY <1>1, PicksKeep

LEMMA FirstItems ==
    ASSUME NEW s \in Seq(Items), Distinct(s), NEW n \in Nat
    PROVE  /\ FirstOf(s, n) \in Seq(Items) /\ Distinct(FirstOf(s, n))
           /\ ChunksOf(FirstOf(s, n)) \subseteq ChunksOf(s)
<1>1. FirstOf(s, n) \in Seq(Items) /\ \E e : Picks(FirstOf(s, n), s, e)
  BY FirstOfPicks
<1>. QED
  BY <1>1, PicksKeep

LEMMA FilteredItems ==
    ASSUME NEW s \in Seq(Items), Distinct(s), NEW I \in SUBSET DOMAIN s
    PROVE  /\ Sublist(s, I) \in Seq(Items) /\ Distinct(Sublist(s, I))
           /\ ChunksOf(Sublist(s, I)) = {s[k].chunk : k \in I}
<1>. DEFINE t == Sublist(s, I)
<1>1. /\ t \in Seq(Items) /\ ToSet(t) = {s[k] : k \in I}
      /\ \E e : Picks(t, s, e)
  BY SublistOf
<1>. HIDE DEF t
<1>2. Distinct(t)
  BY <1>1, PicksKeep
<1>3. ChunksOf(t) = {x.chunk : x \in ToSet(t)}
  BY DEF ChunksOf, ToSet
<1>4. {x.chunk : x \in {s[k] : k \in I}} = {s[k].chunk : k \in I}
  OBVIOUS
<1>. QED
  BY <1>1, <1>2, <1>3, <1>4 DEF t

LEMMA GatedOf ==
    ASSUME items \in Seq(Items), Distinct(items)
    PROVE  /\ Gated \in Seq(Items) /\ Distinct(Gated) /\ ChunksOf(Gated) \subseteq ChunksOf(items)
<1>. DEFINE n == IF route.mode = "gallery" THEN GateGallery ELSE GatePlain
            first == FirstOf(Preferred, n)
            I == {k \in DOMAIN first : first[k].score >= Threshold}
<1>1. /\ Preferred \in Seq(Items) /\ Distinct(Preferred)
      /\ ChunksOf(Preferred) \subseteq ChunksOf(items)
  <2>. DEFINE keys == [k \in DOMAIN items |-> IF items[k].image THEN 1 ELSE 0]
  <2>1. keys \in [DOMAIN items -> Nat]
    OBVIOUS
  <2>2. Preferred = SortedByKey(items, keys) \/ Preferred = items
    BY DEF Preferred
  <2>. HIDE DEF keys
  <2>. QED
    BY <2>1, <2>2, SortedItems
<1>2. n \in Nat
  BY RoutingAssumption
<1>. HIDE DEF n
<1>3. /\ first \in Seq(Items) /\ Distinct(first)
      /\ ChunksOf(first) \subseteq ChunksOf(Preferred)
  BY <1>1, <1>2, FirstItems
<1>4. Gated = Sublist(first, I)
  BY DEF Gated, n
<1>. HIDE DEF first
<1>5. I \in SUBSET DOMAIN first
  OBVIOUS
<1>. HIDE DEF I
<1>6. /\ Sublist(first, I) \in Seq(Items) /\ Distinct(Sublist(first, I))
      /\ ChunksOf(Sublist(first, I)) = {first[k].chunk : k \in I}
  BY <1>3, <1>5, FilteredItems
<1>7. {first[k].chunk : k \in I} \subseteq ChunksOf(first)
  BY <1>5 DEF ChunksOf
<1>. QED
  BY <1>1, <1>3, <1>4, <1>6, <1>7

\* The sections around some chunks, and what is related to them.
Near(chunks) == UNION {ToSet(Section[c]) : c \in chunks}

LEMMA SectionItemsOf ==
    ASSUME NEW i \in Items, i.chunk \in Chunks
    PROVE  /\ SectionItems(i) \in Seq(Items)
           /\ ChunksOf(SectionItems(i)) = ToSet(Section[i.chunk])
           /\ ToSet(Section[i.chunk]) \subseteq Chunks
<1>. DEFINE s == Section[i.chunk]
            score == [n \in DOMAIN s |-> i.score]
            t == [n \in DOMAIN s |-> Item(s[n], score[n])]
<1>1. s \in Seq(Chunks) /\ i.score \in Nat
  BY RoutingAssumption DEF Items
<1>2. SectionItems(i) = t
  BY DEF SectionItems
<1>3. \A n \in DOMAIN s : score[n] \in Nat
  BY <1>1
<1>4. ToSet(s) \subseteq Chunks
  BY <1>1, LenProperties, ElementOfSeq DEF ToSet
<1>. HIDE DEF s, score
<1>5. t \in Seq(Items) /\ ChunksOf(t) = ToSet(s)
  BY <1>1, <1>3, ItemsFromChunks
<1>. QED
  BY <1>2, <1>4, <1>5 DEF s

\* Each chunk of the sections once, whichever hit it comes with.
LEMMA WithSectionsOf ==
    ASSUME items \in Seq(Items), ChunksOf(items) \subseteq Chunks
    PROVE  /\ WithSections \in Seq(Items) /\ Distinct(WithSections)
           /\ ChunksOf(WithSections) = Near(ChunksOf(items))
           /\ Near(ChunksOf(items)) \subseteq Chunks
<1>. DEFINE ss == [k \in DOMAIN items |-> SectionItems(items[k])]
            all == FlattenSeq(ss)
            ids == IdsOf(all)
            t == OnceEach(all, ids)
<1>1. /\ Len(items) \in Nat /\ DOMAIN items = 1 .. Len(items)
      /\ \A k \in DOMAIN items : items[k] \in Items /\ items[k].chunk \in ChunksOf(items)
  BY ItemsInSeq
<1>2. \A k \in DOMAIN items :
        /\ ss[k] \in Seq(Items)
        /\ ChunksOf(ss[k]) = ToSet(Section[items[k].chunk])
        /\ ToSet(Section[items[k].chunk]) \subseteq Chunks
  BY <1>1, SectionItemsOf
<1>3. ss \in Seq(Seq(Items)) /\ DOMAIN ss = DOMAIN items
  <2>1. ss \in [1 .. Len(items) -> Seq(Items)]
    BY <1>1, <1>2
  <2>. QED
    BY <1>1, <2>1, SeqFromFunction
<1>4. AllSections = all /\ WithSections = t
  BY DEF AllSections, WithSections
<1>. HIDE DEF ss
<1>5. all \in Seq(Items) /\ ToSet(all) = UNION {ToSet(ss[k]) : k \in DOMAIN ss}
  BY <1>3, FlattenOf
<1>. HIDE DEF all
<1>6. DOMAIN ids = DOMAIN all /\ \A k \in DOMAIN all : ids[k] = all[k].chunk
  BY DEF IdsOf
<1>. HIDE DEF ids
<1>7. t \in Seq(Items) /\ \E e : PicksOnce(t, all, ids, e)
  BY <1>5, <1>6, OnceEachOf
<1>. HIDE DEF t
<1>8. PICK e : PicksOnce(t, all, ids, e)
  BY <1>7
<1>9. Distinct(t)
  BY <1>6, <1>8 DEF PicksOnce, Picks, Distinct
<1>10. ChunksOf(t) = ChunksOf(all)
  <2>1. ASSUME NEW n \in DOMAIN t PROVE t[n].chunk \in ChunksOf(all)
    BY <1>8 DEF PicksOnce, Picks, ChunksOf
  <2>2. ASSUME NEW k \in DOMAIN all PROVE \E n \in DOMAIN t : t[n].chunk = all[k].chunk
    BY <1>6, <1>8 DEF PicksOnce, Picks
  <2>3. ChunksOf(t) \subseteq ChunksOf(all)
    BY <2>1 DEF ChunksOf
  <2>4. ChunksOf(all) \subseteq ChunksOf(t)
    BY <2>2 DEF ChunksOf
  <2>. QED
    BY <2>3, <2>4
<1>11. ChunksOf(all) = Near(ChunksOf(items))
  <2>1. ChunksOf(all) = {x.chunk : x \in ToSet(all)}
    BY DEF ChunksOf, ToSet
  <2>2. \A k \in DOMAIN ss : ChunksOf(ss[k]) = {x.chunk : x \in ToSet(ss[k])}
    BY DEF ChunksOf, ToSet
  <2>3. ASSUME NEW c \in ChunksOf(all) PROVE c \in Near(ChunksOf(items))
    <3>1. PICK k \in DOMAIN ss : c \in ChunksOf(ss[k])
      BY <1>5, <2>1, <2>2
    <3>2. c \in ToSet(Section[items[k].chunk])
      BY <1>2, <1>3, <3>1
    <3>3. items[k].chunk \in ChunksOf(items)
      BY <1>1, <1>3
    <3>. QED
      BY <3>2, <3>3 DEF Near
  <2>4. ASSUME NEW c \in Near(ChunksOf(items)) PROVE c \in ChunksOf(all)
    <3>1. PICK d \in ChunksOf(items) : c \in ToSet(Section[d])
      BY DEF Near
    <3>2. PICK k \in DOMAIN items : items[k].chunk = d
      BY DEF ChunksOf
    <3>3. k \in DOMAIN ss /\ c \in ChunksOf(ss[k])
      BY <1>2, <1>3, <3>1, <3>2
    <3>4. PICK x \in ToSet(ss[k]) : c = x.chunk
      BY <2>2, <3>3
    <3>5. x \in ToSet(all)
      BY <1>5, <3>3, <3>4
    <3>. QED
      BY <2>1, <3>4, <3>5
  <2>. QED
    BY <2>3, <2>4
<1>12. Near(ChunksOf(items)) \subseteq Chunks
  <2>1. \A c \in Chunks : ToSet(Section[c]) \subseteq Chunks
    <3>. TAKE c \in Chunks
    <3>1. Section[c] \in Seq(Chunks)
      BY RoutingAssumption
    <3>. QED
      BY <3>1, LenProperties, ElementOfSeq DEF ToSet
  <2>. QED
    BY <2>1 DEF Near
<1>. QED
  BY <1>4, <1>7, <1>9, <1>10, <1>11, <1>12

\* Neighbours are added, each once, with the score of the best it is next to.
LEMMA WithNeighboursOf ==
    ASSUME NEW context \in Seq(Items), Distinct(context), ChunksOf(context) \subseteq Chunks
    PROVE  /\ WithNeighbours(context) \in Seq(Items) /\ Distinct(WithNeighbours(context))
           /\ ChunksOf(WithNeighbours(context)) =
                  ChunksOf(context) \cup NeighboursOf(ChunksOf(context))
<1>. DEFINE N == NeighboursOf(ChunksOf(context))
            new == SetToSeq(N)
            besides(c) == {k \in DOMAIN context : {c, context[k].chunk} \in Related}
            near(c) == {Decayed(context[k].score) : k \in besides(c)}
            score == [n \in DOMAIN new |-> Max(near(new[n]))]
            t == [n \in DOMAIN new |-> Item(new[n], score[n])]
<1>1. /\ Len(context) \in Nat /\ DOMAIN context = 1 .. Len(context)
      /\ \A k \in DOMAIN context : context[k].score \in Nat /\ context[k].chunk \in ChunksOf(context)
  BY ItemsInSeq
<1>2. N \subseteq Chunks /\ N \cap ChunksOf(context) = {}
  BY DEF NeighboursOf
<1>3. ASSUME NEW c \in N PROVE Max(near(c)) \in Nat
  <2>1. near(c) # {}
    <3>1. PICK d \in ChunksOf(context) : {c, d} \in Related
      BY DEF NeighboursOf
    <3>2. PICK k \in DOMAIN context : context[k].chunk = d
      BY DEF ChunksOf
    <3>3. k \in besides(c)
      BY <3>1, <3>2
    <3>. QED
      BY <3>3
  <2>2. near(c) \in SUBSET Nat
    <3>1. \A n \in Nat : Decayed(n) \in Nat
      BY DEF Decayed
    <3>. QED
      BY <1>1, <3>1
  <2>3. IsFiniteSet(besides(c))
    <3>1. IsFiniteSet(1 .. Len(context))
      <4>1. 1 \in Int /\ Len(context) \in Int
        BY <1>1
      <4>. QED
        BY <4>1, FS_Interval
    <3>2. besides(c) \in SUBSET (1 .. Len(context))
      BY <1>1
    <3>. HIDE DEF besides
    <3>. QED
      BY <3>1, <3>2, FS_Subset
  <2>4. IsFiniteSet(near(c))
    <3>. DEFINE f == [k \in besides(c) |-> Decayed(context[k].score)]
    <3>1. f \in Surjection(besides(c), near(c))
      BY DEF Surjection
    <3>. HIDE DEF f, besides, near
    <3>. QED
      BY <2>3, <3>1, FS_Surjection
  <2>. HIDE DEF near
  <2>. QED
    BY <2>1, <2>2, <2>4, MaxOf
<1>. HIDE DEF near, besides
<1>4. IsFiniteSet(N)
  BY <1>2, RoutingAssumption, FS_Subset
<1>. HIDE DEF N
<1>5. new \in Seq(N) /\ IsInjective(new) /\ ToSet(new) = N
  BY <1>4, SetToSeqOf
<1>. HIDE DEF new
<1>6. new \in Seq(Chunks)
  BY <1>2, <1>5, SeqOfToSet
<1>7. \A n \in DOMAIN new : score[n] \in Nat
  <2>1. \A n \in DOMAIN new : new[n] \in N
    BY <1>5 DEF ToSet
  <2>. QED
    BY <1>3, <2>1
<1>8. WithNeighbours(context) = context \o t
  BY DEF WithNeighbours, N, new, near, besides
<1>. HIDE DEF score
<1>9. t \in Seq(Items) /\ ChunksOf(t) = N /\ Distinct(t)
  BY <1>5, <1>6, <1>7, ItemsFromChunks
<1>. HIDE DEF t
<1>. DEFINE u == context \o t
<1>10. /\ u \in Seq(Items) /\ Len(context) \in Nat /\ Len(t) \in Nat
       /\ DOMAIN u = 1 .. Len(context) + Len(t) /\ DOMAIN t = 1 .. Len(t)
       /\ \A i \in 1 .. Len(context) + Len(t) :
             u[i] = IF i <= Len(context) THEN context[i] ELSE t[i - Len(context)]
  BY <1>9, ConcatProperties, LenProperties
<1>. HIDE DEF u
<1>11. ASSUME NEW i \in DOMAIN u
       PROVE  IF i <= Len(context)
              THEN i \in DOMAIN context /\ u[i] = context[i] /\ u[i].chunk \in ChunksOf(context)
              ELSE i - Len(context) \in DOMAIN t /\ u[i] = t[i - Len(context)] /\ u[i].chunk \in N
  <2>1. CASE i <= Len(context)
    <3>1. i \in DOMAIN context /\ u[i] = context[i]
      BY <1>1, <1>10, <2>1
    <3>. QED
      BY <2>1, <3>1 DEF ChunksOf
  <2>2. CASE ~(i <= Len(context))
    <3>1. i - Len(context) \in DOMAIN t /\ u[i] = t[i - Len(context)]
      BY <1>10, <2>2
    <3>. QED
      BY <1>9, <2>2, <3>1 DEF ChunksOf
  <2>. QED
    BY <2>1, <2>2
<1>12. Distinct(u)
  <2>1. ASSUME NEW i \in DOMAIN u, NEW j \in DOMAIN u, u[i].chunk = u[j].chunk PROVE i = j
    <3>0. i \in Nat /\ j \in Nat
      BY <1>10
    <3>1. CASE i <= Len(context) /\ j <= Len(context)
      BY <1>11, <2>1, <3>1 DEF Distinct
    <3>2. CASE ~(i <= Len(context)) /\ ~(j <= Len(context))
      <4>1. /\ i - Len(context) \in DOMAIN t /\ j - Len(context) \in DOMAIN t
            /\ t[i - Len(context)].chunk = t[j - Len(context)].chunk
        BY <1>11, <2>1, <3>2
      <4>2. i - Len(context) = j - Len(context)
        BY <1>9, <4>1 DEF Distinct
      <4>. QED
        BY <1>10, <3>0, <4>2
    <3>3. CASE (i <= Len(context)) # (j <= Len(context))
      <4>1. u[i].chunk \in N \cap ChunksOf(context)
        BY <1>11, <2>1, <3>3
      <4>. QED
        BY <1>2, <4>1
    <3>. QED
      BY <3>1, <3>2, <3>3
  <2>. QED
    BY <2>1 DEF Distinct
<1>13. ChunksOf(u) \subseteq ChunksOf(context) \cup N
  <2>1. \A i \in DOMAIN u : u[i].chunk \in ChunksOf(context) \cup N
    BY <1>11
  <2>. QED
    BY <2>1 DEF ChunksOf
<1>14. ChunksOf(context) \cup N \subseteq ChunksOf(u)
  <2>1. ASSUME NEW k \in DOMAIN context PROVE context[k].chunk \in ChunksOf(u)
    <3>1. k \in DOMAIN u /\ u[k] = context[k]
      BY <1>1, <1>10
    <3>. QED
      BY <3>1 DEF ChunksOf
  <2>2. ASSUME NEW n \in DOMAIN t PROVE t[n].chunk \in ChunksOf(u)
    <3>1. Len(context) + n \in DOMAIN u /\ u[Len(context) + n] = t[n]
      BY <1>10
    <3>. QED
      BY <3>1 DEF ChunksOf
  <2>. QED
    BY <1>9, <2>1, <2>2 DEF ChunksOf
<1>. QED
  BY <1>8, <1>10, <1>12, <1>13, <1>14 DEF u, N

LEMMA ShownItem ==
    ASSUME NEW i \in Items, NEW image \in BOOLEAN, NEW pictures \in BOOLEAN,
           NEW j, j = [i EXCEPT !.image = image, !.pictures = pictures]
    PROVE  j \in Items /\ j.chunk = i.chunk /\ (j.pictures <=> pictures)
  BY DEF Items

\* What shows no text goes, and the pictures unless they are wanted.
LEMMA DisplayedOf ==
    ASSUME NEW context \in Seq(Items), Distinct(context), route.images \in BOOLEAN
    PROVE  /\ Displayed(context) \in Seq(Items) /\ Distinct(Displayed(context))
           /\ ChunksOf(Displayed(context)) = ChunksOf(context) \ Blank
           /\ \A k \in DOMAIN Displayed(context) : Displayed(context)[k].pictures => route.images
<1>. DEFINE I == {k \in DOMAIN context : context[k].chunk \notin Blank}
            visible == Sublist(context, I)
            shown(i) == [i EXCEPT !.image = @ /\ route.images, !.pictures = @ /\ route.images]
            t == [k \in DOMAIN visible |-> shown(visible[k])]
<1>1. Displayed(context) = t
  BY DEF Displayed
<1>2. I \in SUBSET DOMAIN context
  OBVIOUS
<1>3. {context[k].chunk : k \in I} = ChunksOf(context) \ Blank
  BY DEF ChunksOf
<1>. HIDE DEF I
<1>4. /\ visible \in Seq(Items) /\ Distinct(visible)
      /\ ChunksOf(visible) = ChunksOf(context) \ Blank
  BY <1>2, <1>3, FilteredItems
<1>. HIDE DEF visible
<1>5. ASSUME NEW i \in Items
      PROVE  /\ shown(i) \in Items /\ shown(i).chunk = i.chunk
             /\ shown(i).pictures => route.images
  <2>. DEFINE image == i.image /\ route.images
              pictures == i.pictures /\ route.images
  <2>1. image \in BOOLEAN /\ pictures \in BOOLEAN /\ (pictures => route.images)
    OBVIOUS
  <2>2. shown(i) = [i EXCEPT !.image = image, !.pictures = pictures]
    OBVIOUS
  <2>. HIDE DEF image, pictures, shown
  <2>. QED
    BY <2>1, <2>2, ShownItem
<1>. HIDE DEF shown
<1>6. Len(visible) \in Nat /\ DOMAIN visible = 1 .. Len(visible) /\ \A k \in DOMAIN visible : visible[k] \in Items
  BY <1>4, ItemsInSeq
<1>7. \A k \in DOMAIN visible :
        t[k] \in Items /\ t[k].chunk = visible[k].chunk /\ (t[k].pictures => route.images)
  BY <1>5, <1>6
<1>8. t \in Seq(Items) /\ DOMAIN t = DOMAIN visible
  <2>1. t \in [1 .. Len(visible) -> Items]
    BY <1>6, <1>7
  <2>. QED
    BY <1>6, <2>1, SeqFromFunction
<1>. HIDE DEF t
<1>9. Distinct(t) /\ ChunksOf(t) = ChunksOf(visible)
  BY <1>4, <1>7, <1>8, SameChunks
<1>. QED
  BY <1>1, <1>4, <1>7, <1>8, <1>9

-----------------------------------------------------------------------------
(* The evidence on its way to the answer *)

Fixed == {"ask", "decide", "path", "route", "search"}

\* From the gate on, what was added is near what passed, and that is still there.
Grounded ==
    /\ Distinct(items)
    /\ passed \subseteq ChunksOf(items)
    /\ ChunksOf(items) \subseteq Near(passed) \cup NeighboursOf(Near(passed))

EvidenceInv ==
    /\ TypeOK
    /\ pc \in Fixed => items = <<>> /\ passed = {}
    /\ pc \in {"route"} \cup Routed => category \in {"mixed", "normal_rag"}
    /\ pc \in {"rerank", "gate", "expand", "show"} => Distinct(items) /\ ChunksOf(items) \subseteq Chunks
    /\ pc = "expand" => ChunksOf(items) = passed
    /\ pc = "show" => Grounded
    /\ pc = "answer" => \A k \in DOMAIN items : items[k].pictures => route.images
    /\ ContextGrounded

LEMMA NothingYet ==
    /\ <<>> \in Seq(Items) /\ Distinct(<<>>) /\ ChunksOf(<<>>) = {}
    /\ \A k \in DOMAIN <<>> : FALSE
  BY DEF Distinct, ChunksOf

\* A step before the answer that finds nothing.
LEMMA FixedKeeps ==
    ASSUME EvidenceInv, TypeOK', pc' \in Fixed, UNCHANGED <<items, passed>>, pc \in Fixed,
           pc' \in {"route", "search"} => category' \in {"mixed", "normal_rag"}
    PROVE  EvidenceInv'
  BY DEF EvidenceInv, Fixed, Routed, ContextGrounded

LEMMA CategoryTypes ==
    ASSUME NEW q \in Questions, NEW said \in FromClassifier \cup {"nothing"}
    PROVE  /\ ByRules(q) \in Safe \cup FromClassifier \cup {"usage"}
           /\ ByClassifier(q, said) \in FromClassifier
  BY DEF ByRules, ByClassifier, Questions, FromClassifier

LEMMA NormalizedType ==
    ASSUME NEW r, r.images \in BOOLEAN, r.must \in BOOLEAN, r.mode \in Modes, r.wide \in BOOLEAN,
           r.enabled \subseteq Modalities, r.deep \subseteq Modalities,
           NEW given, NEW gallery \in BOOLEAN
    PROVE  Normalized(r, given, gallery) \in RouteDecisions
<1>. DEFINE images == r.images \/ r.must
            mode == IF ~images THEN "none"
                    ELSE IF r.mode = "none" THEN (IF gallery THEN "gallery" ELSE "single") ELSE r.mode
            enabled == {"text"} \cup ({"text", "table"} \ given) \cup ((r.enabled \cap given) \ {"image"})
                          \cup (IF images THEN {"image"} ELSE {})
<1>1. Normalized(r, given, gallery) =
        [images |-> images, must |-> images, mode |-> mode, wide |-> r.wide,
         enabled |-> enabled, deep |-> r.deep \cap given]
  BY DEF Normalized
<1>2. images \in BOOLEAN
  OBVIOUS
<1>. HIDE DEF images
<1>3. mode \in Modes
  BY DEF Modes
<1>4. enabled \subseteq Modalities
  BY DEF Modalities
<1>. HIDE DEF mode, enabled
<1>. QED
  BY <1>1, <1>2, <1>3, <1>4 DEF RouteDecisions

LEMMA RuleRouteType ==
    ASSUME NEW hits \in SUBSET Tables
    PROVE  RuleRoute(hits) \in RouteDecisions
<1>. DEFINE visual == "visual" \in hits
            lookup == "doc_lookup" \in hits
            mode == IF "gallery" \in hits THEN "gallery" ELSE IF visual /\ ~lookup THEN "single" ELSE "none"
            enabled == IF lookup THEN Modalities
                       ELSE {"text"} \cup (IF visual THEN {"image"} ELSE {"table"})
<1>1. RuleRoute(hits) =
        [images |-> visual /\ ~lookup, must |-> visual /\ ~lookup, mode |-> mode, wide |-> FALSE,
         enabled |-> enabled, deep |-> {}]
  BY DEF RuleRoute
<1>2. mode \in Modes /\ enabled \subseteq Modalities
  BY DEF Modes, Modalities
<1>3. visual \in BOOLEAN /\ lookup \in BOOLEAN
  OBVIOUS
<1>. HIDE DEF visual, lookup, mode, enabled
<1>. QED
  BY <1>1, <1>2, <1>3 DEF RouteDecisions

LEMMA PathKeeps ==
    ASSUME EvidenceInv,
           AnswerOverview \/ AnswerDirectly \/ GoSearching
             \/ (\E n \in 0 .. Cardinality(Chunks) : AnswerFromSummaries(n))
    PROVE  EvidenceInv'
<1>1. pc = "path" /\ items = <<>> /\ passed = {} /\ TypeOK
  BY DEF EvidenceInv, Fixed, AnswerOverview, AnswerDirectly, AnswerFromSummaries, GoSearching
<1>2. CASE AnswerOverview \/ AnswerDirectly
  <2>1. pc' = "answer" /\ UNCHANGED <<question, category, route, items, passed>>
    BY <1>2 DEF AnswerOverview, AnswerDirectly
  <2>2. TypeOK'
    BY <1>1, <2>1 DEF TypeOK
  <2>3. items' = <<>> /\ passed' = {}
    BY <1>1, <2>1
  <2>4. ContextGrounded'
    BY <2>3, NothingYet DEF ContextGrounded
  <2>. QED
    BY <2>1, <2>2, <2>3, <2>4, NothingYet DEF EvidenceInv, Fixed, Routed
<1>3. CASE GoSearching
  <2>1. NoQuestion \in Questions
    BY DEF NoQuestion, Questions
  <2>2. /\ pc' = "route" /\ category' \in {"mixed", "normal_rag"} /\ question' = NoQuestion
        /\ UNCHANGED <<route, items, passed>>
    BY <1>3 DEF GoSearching
  <2>3. TypeOK'
    BY <1>1, <2>1, <2>2 DEF TypeOK, FromClassifier
  <2>. QED
    BY <1>1, <2>2, <2>3, FixedKeeps DEF Fixed
<1>4. ASSUME NEW n \in 0 .. Cardinality(Chunks), AnswerFromSummaries(n)
      PROVE  EvidenceInv'
  <2>1. n \in Nat
    OBVIOUS
  <2>2. SummaryItem \in Items /\ ~SummaryItem.pictures
    BY DEF SummaryItem, Items
  <2>3. /\ pc' = "answer" /\ category = "document_summary"
        /\ UNCHANGED <<question, category, route, passed>>
        /\ items' = [k \in 1 .. n |-> SummaryItem]
    BY <1>4 DEF AnswerFromSummaries
  <2>4. items' \in Seq(Items)
    <3>1. items' \in [1 .. n -> Items]
      BY <2>2, <2>3
    <3>. QED
      BY <2>1, <3>1, SeqFromFunction
  <2>5. \A k \in DOMAIN items' : ~items'[k].pictures
    BY <2>2, <2>3
  <2>6. TypeOK'
    BY <1>1, <2>3, <2>4 DEF TypeOK
  <2>. QED
    BY <2>3, <2>5, <2>6 DEF EvidenceInv, Fixed, Routed, ContextGrounded
<1>. QED
  BY <1>2, <1>3, <1>4

LEMMA SearchKeeps ==
    ASSUME EvidenceInv, NEW images \in Lists(Pictured), NEW vectors \in Lists(Chunks),
           NEW words \in Lists(Chunks), Search(images, vectors, words)
    PROVE  EvidenceInv'
<1>. DEFINE merged == Merged(images, vectors, words)
            best == FirstOf(merged, RerankLimit)
            zero == [k \in DOMAIN best |-> 0]
<1>1. /\ pc = "search" /\ pc' = "rerank" /\ TypeOK /\ category \in {"mixed", "normal_rag"}
      /\ UNCHANGED <<question, category, route, passed>>
  BY DEF Search, EvidenceInv, Routed
<1>2. \A s \in Lists(Chunks) \cup Lists(Pictured) : s \in Seq(Chunks)
  <2>1. Limit \in Nat
    BY RoutingAssumption DEF Limit
  <2>2. ASSUME NEW s \in Lists(Chunks) \cup Lists(Pictured) PROVE s \in Seq(Chunks)
    <3>1. CASE s \in Lists(Chunks)
      <4>1. PICK n \in 0 .. Limit : s \in [1 .. n -> Chunks]
        BY <3>1 DEF Lists
      <4>. QED
        BY <2>1, <4>1, SeqFromFunction
    <3>2. CASE s \in Lists(Pictured)
      <4>1. PICK n \in 0 .. Limit : s \in [1 .. n -> Pictured]
        BY <3>2 DEF Lists
      <4>2. s \in [1 .. n -> Chunks]
        BY <4>1, RoutingAssumption
      <4>. QED
        BY <2>1, <4>2, SeqFromFunction
    <3>. QED
      BY <2>2, <3>1, <3>2
  <2>. QED
    BY <2>2
<1>3. merged \in Seq(Chunks) /\ IsInjective(merged)
  BY <1>2, MergedOf
<1>. HIDE DEF merged
<1>4. best \in Seq(Chunks) /\ IsInjective(best)
  <2>1. RerankLimit \in Nat
    BY RoutingAssumption
  <2>2. best \in Seq(Chunks) /\ \E e : Picks(best, merged, e)
    BY <1>3, <2>1, FirstOfPicks
  <2>. QED
    BY <1>3, <2>2, PicksInjective
<1>5. items' = [k \in DOMAIN best |-> Item(best[k], 0)]
  BY DEF Search, merged
<1>. HIDE DEF best
<1>6. items' = [k \in DOMAIN best |-> Item(best[k], zero[k])]
  BY <1>5
<1>7. \A k \in DOMAIN best : zero[k] \in Nat
  OBVIOUS
<1>. HIDE DEF zero
<1>8. /\ items' \in Seq(Items) /\ Distinct(items') /\ ChunksOf(items') = ToSet(best)
  BY <1>4, <1>6, <1>7, ItemsFromChunks
<1>9. ToSet(best) \subseteq Chunks
  BY <1>4, LenProperties, ElementOfSeq DEF ToSet
<1>10. TypeOK'
  BY <1>1, <1>8 DEF TypeOK
<1>. QED
  BY <1>1, <1>8, <1>9, <1>10 DEF EvidenceInv, Fixed, Routed, ContextGrounded

LEMMA RerankKeeps ==
    ASSUME EvidenceInv, NEW score \in [Chunks -> Scores], Rerank(score)
    PROVE  EvidenceInv'
<1>. DEFINE scored == [k \in DOMAIN items |-> [items[k] EXCEPT !.score = score[items[k].chunk]]]
            keys == [k \in DOMAIN items |-> score[items[k].chunk]]
            sorted == SortedByKey(scored, keys)
<1>1. /\ pc = "rerank" /\ pc' = "gate" /\ TypeOK /\ category \in {"mixed", "normal_rag"}
      /\ UNCHANGED <<question, category, route, passed>>
      /\ items \in Seq(Items) /\ Distinct(items) /\ ChunksOf(items) \subseteq Chunks
  BY DEF Rerank, EvidenceInv, Routed, TypeOK
<1>2. /\ Len(items) \in Nat /\ DOMAIN items = 1 .. Len(items)
      /\ \A k \in DOMAIN items : items[k] \in Items /\ items[k].chunk \in Chunks
  BY <1>1, ItemsInSeq
<1>3. \A k \in DOMAIN items : score[items[k].chunk] \in Nat
  BY <1>2, RoutingAssumption
<1>4. \A k \in DOMAIN items : scored[k] \in Items /\ scored[k].chunk = items[k].chunk
  BY <1>2, <1>3 DEF Items
<1>5. scored \in Seq(Items) /\ DOMAIN scored = DOMAIN items
  <2>1. scored \in [1 .. Len(items) -> Items]
    BY <1>2, <1>4
  <2>. QED
    BY <1>2, <2>1, SeqFromFunction
<1>6. items' = FirstOf(sorted, TopK)
  BY DEF Rerank
<1>7. keys \in [DOMAIN items -> Nat]
  BY <1>3
<1>. HIDE DEF scored, keys
<1>8. Distinct(scored) /\ ChunksOf(scored) = ChunksOf(items)
  BY <1>1, <1>4, <1>5, SameChunks
<1>9. /\ sorted \in Seq(Items) /\ Distinct(sorted)
      /\ ChunksOf(sorted) \subseteq ChunksOf(scored)
  BY <1>5, <1>7, <1>8, SortedItems
<1>. HIDE DEF sorted
<1>10. TopK \in Nat
  BY RoutingAssumption DEF TopK
<1>11. /\ items' \in Seq(Items) /\ Distinct(items')
       /\ ChunksOf(items') \subseteq ChunksOf(sorted)
  BY <1>6, <1>9, <1>10, FirstItems
<1>12. TypeOK'
  BY <1>1, <1>11 DEF TypeOK
<1>13. ChunksOf(items') \subseteq Chunks
  BY <1>1, <1>8, <1>9, <1>11
<1>. QED
  BY <1>1, <1>11, <1>12, <1>13 DEF EvidenceInv, Fixed, Routed, ContextGrounded

LEMMA GateKeeps ==
    ASSUME EvidenceInv, Gate
    PROVE  EvidenceInv'
<1>1. /\ pc = "gate" /\ pc' = "expand" /\ TypeOK /\ category \in {"mixed", "normal_rag"}
      /\ UNCHANGED <<question, category, route>>
      /\ items' = Gated /\ passed' = ChunksOf(Gated)
      /\ items \in Seq(Items) /\ Distinct(items) /\ ChunksOf(items) \subseteq Chunks
  BY DEF Gate, EvidenceInv, Routed, TypeOK
<1>2. /\ Gated \in Seq(Items) /\ Distinct(Gated) /\ ChunksOf(Gated) \subseteq Chunks
  BY <1>1, GatedOf
<1>3. TypeOK'
  BY <1>1, <1>2 DEF TypeOK
<1>. QED
  BY <1>1, <1>2, <1>3 DEF EvidenceInv, Fixed, Routed, ContextGrounded

LEMMA ExpandKeeps ==
    ASSUME EvidenceInv, Expand
    PROVE  EvidenceInv'
<1>. DEFINE context == WithSections
<1>1. /\ pc = "expand" /\ pc' = "show" /\ TypeOK /\ category \in {"mixed", "normal_rag"}
      /\ UNCHANGED <<question, category, route, passed>>
      /\ items' = WithNeighbours(context)
      /\ items \in Seq(Items) /\ ChunksOf(items) \subseteq Chunks /\ ChunksOf(items) = passed
  BY DEF Expand, EvidenceInv, Routed, TypeOK
<1>2. /\ context \in Seq(Items) /\ Distinct(context)
      /\ ChunksOf(context) = Near(passed) /\ Near(passed) \subseteq Chunks
  BY <1>1, WithSectionsOf
<1>. HIDE DEF context
<1>3. /\ items' \in Seq(Items) /\ Distinct(items')
      /\ ChunksOf(items') = Near(passed) \cup NeighboursOf(Near(passed))
  BY <1>1, <1>2, WithNeighboursOf
<1>4. passed \subseteq Near(passed)
  <2>1. \A c \in passed : c \in ToSet(Section[c])
    BY <1>1, RoutingAssumption
  <2>. QED
    BY <2>1 DEF Near
<1>5. NeighboursOf(Near(passed)) \subseteq Chunks
  BY DEF NeighboursOf
<1>6. TypeOK'
  BY <1>1, <1>3 DEF TypeOK
<1>7. Grounded'
  BY <1>1, <1>3, <1>4 DEF Grounded
<1>8. ChunksOf(items') \subseteq Chunks
  BY <1>2, <1>3, <1>5
<1>. QED
  BY <1>1, <1>3, <1>6, <1>7, <1>8 DEF EvidenceInv, Fixed, Routed, ContextGrounded

\* The overview comes before the chunks.
LEMMA OverviewFirst ==
    ASSUME NEW t \in Seq(Items), Distinct(t), ChunksOf(t) \subseteq Chunks,
           NEW u, u = <<OverviewItem>> \o t
    PROVE  /\ u \in Seq(Items) /\ Distinct(u)
           /\ ChunksOf(u) = {Overview} \cup ChunksOf(t)
           /\ \A k \in DOMAIN u : u[k].pictures => \E j \in DOMAIN t : t[j].pictures
<1>. DEFINE first == <<OverviewItem>>
<1>0. OverviewItem \in Items /\ OverviewItem.chunk = Overview /\ ~OverviewItem.pictures
  BY DEF OverviewItem, Items
<1>1. first \in Seq(Items) /\ Len(first) = 1 /\ first[1] = OverviewItem
  BY <1>0
<1>2. Len(t) \in Nat /\ DOMAIN t = 1 .. Len(t)
  BY ItemsInSeq
<1>. HIDE DEF first
<1>3. /\ u \in Seq(Items) /\ DOMAIN u = 1 .. 1 + Len(t)
      /\ \A k \in 1 .. 1 + Len(t) : u[k] = IF k <= 1 THEN first[k] ELSE t[k - 1]
  <2>1. u = first \o t
    BY DEF first
  <2>2. Len(u) = 1 + Len(t) /\ u \in Seq(Items)
        /\ \A k \in 1 .. Len(first) + Len(t) : u[k] = IF k <= Len(first) THEN first[k] ELSE t[k - Len(first)]
    BY <1>1, <2>1, ConcatProperties
  <2>. QED
    BY <1>1, <2>2, LenProperties
<1>4. u[1] = OverviewItem /\ 1 \in DOMAIN u
  BY <1>1, <1>2, <1>3
<1>5. ASSUME NEW k \in DOMAIN u, k # 1
      PROVE  k - 1 \in DOMAIN t /\ u[k] = t[k - 1] /\ u[k].chunk \in ChunksOf(t)
  <2>1. k - 1 \in DOMAIN t /\ u[k] = t[k - 1]
    BY <1>2, <1>3, <1>5
  <2>. QED
    BY <2>1 DEF ChunksOf
<1>6. ASSUME NEW j \in DOMAIN t PROVE j + 1 \in DOMAIN u /\ u[j + 1] = t[j]
  BY <1>2, <1>3
<1>7. Overview \notin ChunksOf(t)
  BY RoutingAssumption
<1>8. Distinct(u)
  <2>1. ASSUME NEW j \in DOMAIN u, NEW k \in DOMAIN u, u[j].chunk = u[k].chunk PROVE j = k
    <3>1. CASE j = 1 \/ k = 1
      BY <1>0, <1>4, <1>5, <1>7, <2>1, <3>1
    <3>2. CASE j # 1 /\ k # 1
      <4>1. j - 1 = k - 1
        BY <1>5, <2>1, <3>2 DEF Distinct
      <4>2. j \in Nat /\ k \in Nat
        BY <1>3
      <4>. QED
        BY <4>1, <4>2
    <3>. QED
      BY <3>1, <3>2
  <2>. QED
    BY <2>1 DEF Distinct
<1>9. ChunksOf(u) \subseteq {Overview} \cup ChunksOf(t)
  <2>1. \A k \in DOMAIN u : u[k].chunk \in {Overview} \cup ChunksOf(t)
    BY <1>0, <1>4, <1>5
  <2>. QED
    BY <2>1 DEF ChunksOf
<1>10. {Overview} \cup ChunksOf(t) \subseteq ChunksOf(u)
  <2>1. Overview \in ChunksOf(u)
    BY <1>0, <1>4 DEF ChunksOf
  <2>2. \A j \in DOMAIN t : t[j].chunk \in ChunksOf(u)
    BY <1>6 DEF ChunksOf
  <2>. QED
    BY <2>1, <2>2 DEF ChunksOf
<1>11. ASSUME NEW k \in DOMAIN u, u[k].pictures PROVE \E j \in DOMAIN t : t[j].pictures
  <2>1. k # 1
    BY <1>0, <1>4, <1>11
  <2>. QED
    BY <1>5, <1>11, <2>1
<1>. QED
  BY <1>3, <1>8, <1>9, <1>10, <1>11

LEMMA ShowKeeps ==
    ASSUME EvidenceInv, Show
    PROVE  EvidenceInv'
<1>. DEFINE shown == Displayed(items)
<1>1. /\ pc = "show" /\ pc' = "answer" /\ TypeOK /\ category \in {"mixed", "normal_rag"}
      /\ UNCHANGED <<question, category, route, passed>>
      /\ items' = IF category = "mixed" THEN <<OverviewItem>> \o shown ELSE shown
      /\ items \in Seq(Items) /\ Grounded /\ ChunksOf(items) \subseteq Chunks
  BY DEF Show, EvidenceInv, Routed, TypeOK
<1>2. route.images \in BOOLEAN
  BY <1>1 DEF TypeOK, RouteDecisions
<1>3. /\ shown \in Seq(Items) /\ Distinct(shown)
      /\ ChunksOf(shown) = ChunksOf(items) \ Blank
      /\ \A k \in DOMAIN shown : shown[k].pictures => route.images
  BY <1>1, <1>2, DisplayedOf DEF Grounded
<1>. HIDE DEF shown
<1>4. /\ items' \in Seq(Items) /\ Distinct(items')
      /\ ChunksOf(items') = (IF category = "mixed" THEN {Overview} ELSE {}) \cup ChunksOf(shown)
      /\ \A k \in DOMAIN items' : items'[k].pictures => route.images
  <2>1. CASE category = "mixed"
    <3>1. items' = <<OverviewItem>> \o shown /\ ChunksOf(shown) \subseteq Chunks
      BY <1>1, <1>3, <2>1
    <3>2. /\ items' \in Seq(Items) /\ Distinct(items')
          /\ ChunksOf(items') = {Overview} \cup ChunksOf(shown)
          /\ \A k \in DOMAIN items' : items'[k].pictures => \E j \in DOMAIN shown : shown[j].pictures
      BY <1>3, <3>1, OverviewFirst
    <3>. QED
      BY <1>3, <2>1, <3>2
  <2>2. CASE category # "mixed"
    BY <1>1, <1>3, <2>2
  <2>. QED
    BY <2>1, <2>2
<1>5. TypeOK'
  BY <1>1, <1>4 DEF TypeOK
<1>6. \A k \in DOMAIN items' : items'[k].chunk \in ChunksOf(items')
  BY DEF ChunksOf
<1>7. ASSUME NEW k \in DOMAIN items', items'[k].chunk \in Chunks
      PROVE  items'[k].chunk \in Near(passed) \cup NeighboursOf(Near(passed))
  BY <1>1, <1>3, <1>4, <1>6, <1>7, RoutingAssumption DEF Grounded
<1>8. ASSUME NEW k \in DOMAIN items', items'[k].chunk \notin Chunks
      PROVE  items'[k].chunk = Overview /\ category = "mixed"
  BY <1>1, <1>3, <1>4, <1>6, <1>8
<1>9. passed \ Blank \subseteq ChunksOf(items')
  BY <1>1, <1>3, <1>4 DEF Grounded
<1>10. \A c \in NeighboursOf(Near(passed)) : \E d \in Near(passed) : {d, c} \in Related
  <2>1. \A c, d : {c, d} = {d, c}
    OBVIOUS
  <2>. QED
    BY <2>1 DEF NeighboursOf
<1>11. ContextGrounded'
  <2>1. ASSUME NEW k \in DOMAIN items', items'[k].chunk \in Chunks
        PROVE  items'[k].chunk \in Near(passed) \/ \E c \in Near(passed) : {c, items'[k].chunk} \in Related
    BY <1>7, <1>10, <2>1
  <2>. QED
    BY <1>1, <1>4, <1>8, <1>9, <2>1 DEF ContextGrounded, Near, Distinct
<1>. QED
  BY <1>1, <1>4, <1>5, <1>11 DEF EvidenceInv, Fixed, Routed

-----------------------------------------------------------------------------
(* Every step *)

LEMMA InitEvidence == Init => EvidenceInv
<1>. SUFFICES ASSUME Init
              PROVE  EvidenceInv
  OBVIOUS
<1>1. NoQuestion \in Questions /\ NoRoute \in RouteDecisions
  BY DEF NoQuestion, Questions, NoRoute, RouteDecisions, Modes
<1>2. TypeOK
  BY <1>1, NothingYet DEF Init, TypeOK, FromClassifier
<1>. QED
  BY <1>2 DEF Init, EvidenceInv, Fixed, Routed, ContextGrounded

LEMMA NextEvidence == EvidenceInv /\ [Next]_vars => EvidenceInv'
<1>. SUFFICES ASSUME EvidenceInv, [Next]_vars
              PROVE  EvidenceInv'
  OBVIOUS
<1>1. ASSUME NEW q \in Questions, Ask(q)
      PROVE  EvidenceInv'
  <2>1. TypeOK' /\ pc = "ask" /\ pc' = "decide" /\ UNCHANGED <<items, passed>>
    BY <1>1 DEF Ask, EvidenceInv, TypeOK
  <2>. QED
    BY <2>1, FixedKeeps DEF Fixed
<1>2. ASSUME NEW said \in FromClassifier \cup {"nothing"}, Decide(said)
      PROVE  EvidenceInv'
  <2>1. question \in Questions
    BY DEF EvidenceInv, TypeOK
  <2>2. category' \in Safe \cup FromClassifier \cup {"usage"}
    BY <1>2, <2>1, CategoryTypes DEF Decide
  <2>3. pc = "decide" /\ pc' = "path" /\ UNCHANGED <<question, route, items, passed>>
    BY <1>2 DEF Decide
  <2>4. TypeOK'
    BY <2>2, <2>3 DEF EvidenceInv, TypeOK
  <2>. QED
    BY <2>3, <2>4, FixedKeeps DEF Fixed
<1>3. CASE \/ AnswerOverview \/ AnswerDirectly \/ GoSearching
           \/ \E n \in 0 .. Cardinality(Chunks) : AnswerFromSummaries(n)
  BY <1>3, PathKeeps
<1>4. ASSUME route' \in RouteDecisions, pc = "route", pc' = "search",
             UNCHANGED <<question, category, items, passed>>
      PROVE  EvidenceInv'
  <2>1. TypeOK' /\ category' \in {"mixed", "normal_rag"}
    BY <1>4 DEF EvidenceInv, TypeOK
  <2>. QED
    BY <1>4, <2>1, FixedKeeps DEF Fixed
<1>5. ASSUME NEW r \in SaidRoutes, NEW given \in SUBSET Modalities, NEW gallery \in BOOLEAN,
             RouteByModel(r, given, gallery)
      PROVE  EvidenceInv'
  <2>1. Normalized(r, given, gallery) \in RouteDecisions
    BY NormalizedType DEF SaidRoutes, RouteDecisions
  <2>. QED
    BY <1>4, <1>5, <2>1 DEF RouteByModel
<1>6. ASSUME NEW hits \in SUBSET Tables, RouteByRules(hits)
      PROVE  EvidenceInv'
  <2>. DEFINE gallery == "gallery" \in hits
              r == RuleRoute(hits)
  <2>1. gallery \in BOOLEAN /\ r \in RouteDecisions
    BY RuleRouteType
  <2>2. pc = "route" /\ pc' = "search" /\ UNCHANGED <<question, category, items, passed>>
        /\ route' = Normalized(r, Modalities, gallery)
    BY <1>6 DEF RouteByRules
  <2>. HIDE DEF gallery, r
  <2>3. Normalized(r, Modalities, gallery) \in RouteDecisions
    BY <2>1, NormalizedType DEF RouteDecisions
  <2>. QED
    BY <1>4, <2>2, <2>3
<1>7. ASSUME NEW vectors \in Lists(Chunks), NEW words \in Lists(Chunks),
             NEW images \in Lists(Pictured), Search(images, vectors, words)
      PROVE  EvidenceInv'
  BY <1>7, SearchKeeps
<1>8. ASSUME NEW score \in [Chunks -> Scores], Rerank(score)
      PROVE  EvidenceInv'
  BY <1>8, RerankKeeps
<1>9. CASE Gate
  BY <1>9, GateKeeps
<1>10. CASE Expand
  BY <1>10, ExpandKeeps
<1>11. CASE Show
  BY <1>11, ShowKeeps
<1>12. CASE Answered
  <2>1. NoQuestion \in Questions /\ NoRoute \in RouteDecisions
    BY DEF NoQuestion, Questions, NoRoute, RouteDecisions, Modes
  <2>2. TypeOK'
    BY <1>12, <2>1, NothingYet DEF Answered, TypeOK, FromClassifier
  <2>. QED
    BY <1>12, <2>2 DEF Answered, EvidenceInv, Fixed, Routed, ContextGrounded
<1>13. CASE UNCHANGED vars
  BY <1>13 DEF vars, EvidenceInv, TypeOK, Grounded, ContextGrounded
<1>. QED
  BY <1>1, <1>2, <1>3, <1>5, <1>6, <1>7, <1>8, <1>9, <1>10, <1>11, <1>12, <1>13 DEF Next

\* Whatever the two models say and the indexes find, the variables keep their
\* types: the normalized decision is one, and no step makes an item of
\* something that is no chunk, overview or summary.
THEOREM RoutingTypes == Spec => []TypeOK
  BY InitEvidence, NextEvidence, PTL DEF Spec, EvidenceInv

\* A picture of a chunk, whatever way it took into the context, reaches the
\* answer only if the decision asks for pictures in all of its parts.
THEOREM PicturesWithheld == Spec => []PicturesOnlyIfAskedFor
<1>1. RoutingInv /\ EvidenceInv => PicturesOnlyIfAskedFor
  BY DEF RoutingInv, EvidenceInv, PicturesOnlyIfAskedFor
<1>. QED
  BY <1>1, InitRouting, NextRouting, InitEvidence, NextEvidence, PTL DEF Spec

\* The context of an answer is the evidence that passed the gate, with its
\* sections and their neighbours, each chunk once; before it nothing but the
\* overview.
THEOREM EvidenceGrounds == Spec => []ContextGrounded
  BY InitEvidence, NextEvidence, PTL DEF Spec, EvidenceInv
=============================================================================
