------------------------- MODULE KnowledgeGraphProofs -------------------------
(***************************************************************************)
(* Proofs about KnowledgeGraph, for any documents and knowledge bases, any *)
(* number of events and crashes, and builds that fail anywhere.            *)
(***************************************************************************)
EXTENDS KnowledgeGraph, TLAPS

-----------------------------------------------------------------------------
(* Sets of documents *)

LEMMA DocumentSetsDef ==
    ASSUME NEW D
    PROVE  D \in DocumentSets <=> \E S \in SUBSET Docs : D \in [S -> Texts]
  BY DEF DocumentSets

LEMMA NoDocuments == [d \in {} |-> 0] \in DocumentSets
<1>1. [d \in {} |-> 0] \in [{} -> Texts]
  OBVIOUS
<1>. QED
  BY <1>1, DocumentSetsDef

LEMMA MembersAreDocuments ==
    ASSUME NEW D \in DocumentSets, NEW k
    PROVE  /\ Members(D, k) \in DocumentSets
           /\ DOMAIN Members(D, k) = {d \in DOMAIN D : KbOf[d] = k}
           /\ \A d \in DOMAIN Members(D, k) : Members(D, k)[d] = D[d]
<1>1. PICK S \in SUBSET Docs : D \in [S -> Texts]
  BY DocumentSetsDef
<1>2. Members(D, k) \in [{d \in DOMAIN D : KbOf[d] = k} -> Texts]
  BY <1>1 DEF Members
<1>3. {d \in DOMAIN D : KbOf[d] = k} \in SUBSET Docs
  BY <1>1
<1>. QED
  BY <1>2, <1>3, DocumentSetsDef DEF Members

LEMMA VersionedType ==
    ASSUME NEW D \in DocumentSets
    PROVE  /\ Versioned(D) \in SUBSET Versions
           /\ DOMAIN D \in SUBSET Docs
           /\ \A d \in DOMAIN D : D[d] \in 0 .. MaxTexts
<1>1. PICK S \in SUBSET Docs : D \in [S -> Texts]
  BY DocumentSetsDef
<1>. QED
  BY <1>1, GraphAssumption DEF Versioned, Versions, Texts

-----------------------------------------------------------------------------
(* Types *)

\* A summary that was finished once has a text.
FinishedHaveText ==
    \A d \in Docs : doc[d].state \in {"shown", "queued"} => doc[d].text # 0

\* A build embeds documents it has loaded.
StaleLoaded == build.stale \subseteq DOMAIN build.docs

TypeInv == TypeOK /\ FinishedHaveText /\ StaleLoaded

LEMMA DocumentsType ==
    ASSUME TypeInv
    PROVE  /\ Documents \in DocumentSets
           /\ DOMAIN Documents = {e \in Docs : doc[e].state = "shown" /\ KbOf[e] \in kbActive}
           /\ \A d \in DOMAIN Documents : Documents[d] = doc[d].text
<1>. DEFINE S == {e \in Docs : doc[e].state = "shown" /\ KbOf[e] \in kbActive}
<1>1. \A d \in S : doc[d].text \in Texts
  BY GraphAssumption DEF TypeInv, TypeOK, FinishedHaveText, StaleLoaded, Texts
<1>2. Documents \in [S -> Texts]
  BY <1>1 DEF Documents
<1>. QED
  BY <1>2, DocumentSetsDef DEF Documents

LEMMA NoBuildType == NoBuild \in Build /\ NoBuild.stale \subseteq DOMAIN NoBuild.docs
  BY NoDocuments DEF NoBuild, Build, BuildPcs

\* What the build writes into its own variables, and nothing else.
LEMMA BuildTypes ==
    ASSUME TypeInv,
           \/ Prepare \/ PollNothing \/ LoadCache \/ EmbeddingDone \/ BuildEnds
           \/ \E k \in KBs : LoadChunkItems(k) \/ SkipChunkGraph(k)
    PROVE  TypeInv'
<1>. USE DEF TypeInv, TypeOK
<1>0. \A b \in Build : b.docs \in DocumentSets /\ DOMAIN b.docs \in SUBSET Docs
  BY VersionedType DEF Build
<1>1. CASE Prepare
  <2>1. Documents \in DocumentSets
    BY DocumentsType
  <2>2. build' \in Build /\ StaleLoaded'
    BY <1>1, <2>1 DEF Prepare, NoBuild, Build, StaleLoaded, BuildPcs
  <2>. QED
    BY <1>1, <2>2 DEF Prepare, outside, sources, derived, history, BuildStatuses, FinishedHaveText, StaleLoaded
<1>2. CASE PollNothing
  BY <1>2 DEF PollNothing, vars, FinishedHaveText, StaleLoaded
<1>3. CASE LoadCache
  <2>1. build' \in Build /\ StaleLoaded'
    BY <1>0, <1>3 DEF LoadCache, Build, StaleLoaded, BuildPcs
  <2>. QED
    BY <1>3, <2>1 DEF LoadCache, outside, sources, derived, history, FinishedHaveText, StaleLoaded
<1>4. CASE EmbeddingDone
  <2>1. Vectors \in SUBSET Versions
    BY <1>0, GraphAssumption DEF Vectors, Versions, Texts
  <2>2. build' \in Build /\ StaleLoaded'
    BY <1>4, <2>1 DEF EmbeddingDone, Build, StaleLoaded, BuildPcs
  <2>. QED
    BY <1>4, <2>2 DEF EmbeddingDone, outside, sources, derived, history, FinishedHaveText, StaleLoaded
<1>5. CASE BuildEnds
  BY <1>5, NoBuildType DEF BuildEnds, outside, sources, derived, history, FinishedHaveText, StaleLoaded
<1>6. ASSUME NEW k \in KBs, LoadChunkItems(k) PROVE TypeInv'
  <2>1. PICK items \in SUBSET MayHaveItems(k) :
            build' = [build EXCEPT !.items = items, !.todo = @ \ {k}]
    BY <1>6 DEF LoadChunkItems
  <2>2. items \in SUBSET Docs
    BY DEF MayHaveItems
  <2>3. build' \in Build /\ StaleLoaded'
    BY <2>1, <2>2 DEF Build, StaleLoaded
  <2>4. missed' \in SUBSET Docs
    BY <1>6 DEF LoadChunkItems
  <2>. QED
    BY <1>6, <2>3, <2>4 DEF LoadChunkItems, outside, sources, derived, history, FinishedHaveText, StaleLoaded
<1>7. ASSUME NEW k \in KBs, SkipChunkGraph(k) PROVE TypeInv'
  <2>1. \/ build' = [build EXCEPT !.todo = @ \ {k}]
        \/ build' = [build EXCEPT !.items = {}]
    BY <1>7 DEF SkipChunkGraph
  <2>2. build' \in Build /\ StaleLoaded'
    BY <2>1 DEF Build, StaleLoaded
  <2>. QED
    BY <1>7, <2>2 DEF SkipChunkGraph, outside, sources, derived, history, FinishedHaveText, StaleLoaded
<1>. QED
  BY <1>1, <1>2, <1>3, <1>4, <1>5, <1>6, <1>7

\* What the build writes into the tables.
LEMMA TableTypes ==
    ASSUME TypeInv,
           \/ EmbedBatch \/ FailBuild \/ ReplaceRelations \/ Finish
           \/ \E k \in KBs : ReplaceChunkRelations(k)
    PROVE  TypeInv'
<1>. USE DEF TypeInv, TypeOK
<1>0. /\ build.docs \in DocumentSets /\ DOMAIN build.docs \in SUBSET Docs
      /\ \A d \in DOMAIN build.docs : build.docs[d] \in 0 .. MaxTexts
  BY VersionedType DEF Build
<1>1. CASE EmbedBatch
  <2>1. PICK batch \in SUBSET build.stale :
            /\ embedding' = [d \in Docs |-> IF d \in batch THEN build.docs[d] ELSE embedding[d]]
            /\ build' = [build EXCEPT !.stale = @ \ batch]
    BY <1>1 DEF EmbedBatch
  <2>2. \A d \in build.stale : build.docs[d] \in 0 .. MaxTexts
    BY <1>0 DEF StaleLoaded
  <2>3. embedding' \in [Docs -> 0 .. MaxTexts]
    BY <2>1, <2>2
  <2>4. build' \in Build /\ StaleLoaded'
    BY <2>1 DEF Build, StaleLoaded
  <2>. QED
    BY <1>1, <2>3, <2>4 DEF EmbedBatch, outside, sources, history, FinishedHaveText, StaleLoaded
<1>2. CASE FailBuild
  BY <1>2, NoBuildType DEF FailBuild, outside, sources, derived, history, BuildStatuses,
                           FinishedHaveText, StaleLoaded
<1>3. CASE ReplaceRelations
  <2>1. Related(build.vectors) \in SUBSET SUBSET Versions
    BY DEF Related, Build
  <2>2. build' \in Build /\ StaleLoaded'
    BY <1>3 DEF ReplaceRelations, Build, StaleLoaded, BuildPcs
  <2>. QED
    BY <1>3, <2>1, <2>2 DEF ReplaceRelations, outside, sources, history, FinishedHaveText, StaleLoaded
<1>4. CASE Finish
  <2>1. {KbOf[d] : d \in DOMAIN build.docs} \in SUBSET KBs
    BY <1>0, GraphAssumption
  <2>2. build' \in Build /\ StaleLoaded'
    BY <1>4, <2>1 DEF Finish, Build, StaleLoaded, BuildPcs
  <2>3. graph' \in [status : BuildStatuses, fingerprint : Fingerprints]
    BY <1>0, <1>4 DEF Finish, BuildStatuses, Fingerprints
  <2>. QED
    BY <1>4, <2>1, <2>2, <2>3 DEF Finish, outside, sources, derived, FinishedHaveText, StaleLoaded
<1>5. ASSUME NEW k \in KBs, ReplaceChunkRelations(k) PROVE TypeInv'
  <2>1. build' \in Build /\ chunkGraph' \in [KBs -> SUBSET Docs]
    BY <1>5 DEF ReplaceChunkRelations, Build
  <2>. QED
    BY <1>5, <2>1 DEF ReplaceChunkRelations, outside, sources, FinishedHaveText, StaleLoaded
<1>. QED
  BY <1>1, <1>2, <1>3, <1>4, <1>5

LEMMA NewTextType ==
    ASSUME TypeInv, NEW k \in KBs
    PROVE  NewText(k) \in SUBSET Versions
<1>. DEFINE D == Members(build.docs, k)
            new == {d \in DOMAIN D : d \notin community[k].merged}
<1>1. D \in DocumentSets
  BY MembersAreDocuments DEF TypeInv, TypeOK, Build
<1>2. Versioned(D) \in SUBSET Versions
  BY <1>1, VersionedType
<1>3. {<<d, D[d]>> : d \in new} \subseteq Versioned(D)
  BY DEF Versioned
<1>4. community[k].text \in SUBSET Versions
  BY DEF TypeInv, TypeOK, Community
<1>. QED
  BY <1>2, <1>3, <1>4 DEF NewText

LEMMA CommunityTypes ==
    ASSUME TypeInv,
           \/ PrepareCommunities
           \/ \E k \in KBs : SaveCommunitySuccess(k) \/ SaveCommunityFailure(k)
    PROVE  TypeInv'
<1>. USE DEF TypeInv, TypeOK
<1>0. \A k \in KBs : /\ Members(build.docs, k) \in Fingerprints
                     /\ DOMAIN Members(build.docs, k) \in SUBSET Docs
  BY MembersAreDocuments, VersionedType DEF Build, Fingerprints
<1>1. CASE PrepareCommunities
  <2>. DEFINE update == {k \in kbActive : /\ DOMAIN Members(build.docs, k) # {}
                                         /\ ~UpToDate(build.docs, k)}
  <2>1. build' \in Build /\ StaleLoaded'
    <3>1. build' = [build EXCEPT !.pc = "summarize", !.todo = update]
      BY <1>1 DEF PrepareCommunities
    <3>2. update \in SUBSET KBs
      OBVIOUS
    <3>. HIDE DEF update
    <3>. QED
      BY <3>1, <3>2 DEF Build, BuildPcs, StaleLoaded
  <2>2. \A k \in KBs : Empty(k) \in Community
    <3>. SUFFICES ASSUME NEW k \in KBs PROVE Empty(k) \in Community
      OBVIOUS
    <3>1. community[k] \in Community /\ Members(build.docs, k) \in Fingerprints
      BY <1>0
    <3>. QED
      BY <3>1 DEF Empty, Community, CommunityStatuses
  <2>3. \A k \in KBs : [community[k] EXCEPT !.status = "running"] \in Community
    BY DEF Community, CommunityStatuses, BuildStatuses
  <2>4. \A k \in KBs : community'[k] \in {[community[k] EXCEPT !.status = "running"],
                                          Empty(k), community[k]}
    BY <1>1 DEF PrepareCommunities
  <2>5. community' \in [KBs -> Community]
    <3>1. community' = [k \in KBs |-> community'[k]]
      BY <1>1 DEF PrepareCommunities
    <3>2. \A k \in KBs : community'[k] \in Community
      BY <2>2, <2>3, <2>4
    <3>. QED
      BY <3>1, <3>2
  <2>. QED
    BY <1>1, <2>1, <2>5 DEF PrepareCommunities, outside, sources, history, FinishedHaveText, StaleLoaded
<1>2. ASSUME NEW k \in KBs, SaveCommunitySuccess(k) PROVE TypeInv'
  <2>1. [status |-> "completed", fingerprint |-> Members(build.docs, k),
         text |-> NewText(k), merged |-> DOMAIN Members(build.docs, k)] \in Community
    BY <1>0, NewTextType DEF Community, CommunityStatuses, BuildStatuses
  <2>2. community' \in [KBs -> Community]
    BY <1>2, <2>1 DEF SaveCommunitySuccess
  <2>3. build' \in Build /\ StaleLoaded'
    BY <1>2 DEF SaveCommunitySuccess, Build, StaleLoaded
  <2>. QED
    BY <1>2, <2>2, <2>3 DEF SaveCommunitySuccess, outside, sources, history, FinishedHaveText, StaleLoaded
<1>3. ASSUME NEW k \in KBs, SaveCommunityFailure(k) PROVE TypeInv'
  <2>1. community' \in [KBs -> Community]
    <3>1. [community[k] EXCEPT !.status = "failed", !.fingerprint = Members(build.docs, k)]
            \in Community
      <4>1. community[k] \in Community /\ Members(build.docs, k) \in Fingerprints
        BY <1>0
      <4>. QED
        BY <4>1 DEF Community, CommunityStatuses, BuildStatuses
    <3>. QED
      BY <1>3, <3>1 DEF SaveCommunityFailure
  <2>2. build' \in Build /\ StaleLoaded'
    BY <1>3 DEF SaveCommunityFailure, Build, StaleLoaded
  <2>. QED
    BY <1>3, <2>1, <2>2 DEF SaveCommunityFailure, outside, sources, history, FinishedHaveText, StaleLoaded
<1>. QED
  BY <1>1, <1>2, <1>3

LEMMA OutsideTypes ==
    ASSUME TypeInv,
           \/ \E d \in Docs : \/ SummaryFinishes(d) \/ SummaryLeaves(d)
                              \/ FileIndexed(d) \/ FileNotIndexed(d)
           \/ \E k \in KBs : SwitchKnowledgeBase(k)
           \/ \E force \in BOOLEAN : RequestRefresh(force)
           \/ Crash
    PROVE  TypeInv'
<1>. USE GraphAssumption DEF TypeInv, TypeOK
<1>1. ASSUME NEW d \in Docs, SummaryFinishes(d) PROVE TypeInv'
  BY <1>1 DEF SummaryFinishes, Change, derived, history, FinishedHaveText, StaleLoaded, DocStates
<1>2. ASSUME NEW d \in Docs, SummaryLeaves(d) PROVE TypeInv'
  <2>1. \/ doc[d].state = "shown" /\ doc' = [doc EXCEPT ![d].state = "queued"]
        \/ doc' = [doc EXCEPT ![d].state = "gone"]
    BY <1>2 DEF SummaryLeaves
  <2>2. doc' \in [Docs -> [state : DocStates, text : 0 .. MaxTexts]] /\ FinishedHaveText'
    <3>1. doc' \in [Docs -> [state : DocStates, text : 0 .. MaxTexts]]
      BY <2>1 DEF DocStates
    <3>2. \A e \in Docs : doc'[e].text = doc[e].text
      BY <2>1
    <3>3. \A e \in Docs : doc'[e].state \in {"shown", "queued"} => doc[e].state \in {"shown", "queued"}
      BY <2>1
    <3>. QED
      BY <3>1, <3>2, <3>3 DEF FinishedHaveText
  <2>3. indexed' \in SUBSET Docs
    BY <1>2 DEF SummaryLeaves
  <2>. QED
    BY <1>2, <2>2, <2>3 DEF SummaryLeaves, Change, derived, history, StaleLoaded
<1>3. ASSUME NEW k \in KBs, SwitchKnowledgeBase(k) PROVE TypeInv'
  BY <1>3 DEF SwitchKnowledgeBase, Change, derived, history, FinishedHaveText, StaleLoaded
<1>4. ASSUME NEW force \in BOOLEAN, RequestRefresh(force) PROVE TypeInv'
  <2>1. dropped' \in BOOLEAN
    BY <1>4 DEF RequestRefresh
  <2>. QED
    BY <1>4, <2>1 DEF RequestRefresh, Change, sources, FinishedHaveText, StaleLoaded, BuildStatuses, Fingerprints
<1>5. CASE Crash
  BY <1>5, NoBuildType DEF Crash, sources, derived, history, FinishedHaveText, StaleLoaded
<1>6. ASSUME NEW d \in Docs, FileIndexed(d) \/ FileNotIndexed(d) PROVE TypeInv'
  <2>1. indexed' \in SUBSET Docs /\ changes' \in 0 .. MaxChanges
    BY <1>6 DEF FileIndexed, FileNotIndexed, Change
  <2>. QED
    BY <1>6, <2>1 DEF FileIndexed, FileNotIndexed, derived, history, FinishedHaveText, StaleLoaded
<1>. QED
  BY <1>1, <1>2, <1>3, <1>4, <1>5, <1>6

LEMMA InitTypes == Init => TypeInv
<1>. SUFFICES ASSUME Init PROVE TypeInv
  OBVIOUS
<1>1. build \in Build /\ StaleLoaded
  BY NoBuildType DEF Init, StaleLoaded, NoBuild
<1>2. doc \in [Docs -> [state : DocStates, text : 0 .. MaxTexts]] /\ FinishedHaveText
  BY GraphAssumption DEF Init, FinishedHaveText, DocStates
<1>3. community \in [KBs -> Community]
  BY DEF Init, Community, CommunityStatuses, BuildStatuses, Fingerprints
<1>4. /\ graph \in [status : BuildStatuses, fingerprint : Fingerprints]
      /\ embedding \in [Docs -> 0 .. MaxTexts]
      /\ chunkGraph \in [KBs -> SUBSET Docs]
      /\ changes \in 0 .. MaxChanges /\ crashes \in 0 .. MaxCrashes
  BY GraphAssumption DEF Init, BuildStatuses, Fingerprints
<1>. QED
  BY <1>1, <1>2, <1>3, <1>4 DEF Init, TypeInv, TypeOK

LEMMA NextTypes == TypeInv /\ [Next]_vars => TypeInv'
<1>. SUFFICES ASSUME TypeInv, [Next]_vars PROVE TypeInv'
  OBVIOUS
<1>1. CASE UNCHANGED vars
  BY <1>1 DEF vars, TypeInv, TypeOK, FinishedHaveText, StaleLoaded
<1>. QED
  BY <1>1, BuildTypes, TableTypes, CommunityTypes, OutsideTypes DEF Next, Step

\* Every table and everything a build holds keeps its type.
THEOREM GraphTypes == Spec => []TypeOK
<1>1. TypeInv => TypeOK
  BY DEF TypeInv
<1>. QED
  BY <1>1, InitTypes, NextTypes, PTL DEF Spec

-----------------------------------------------------------------------------
(* Communities cover their documents *)

DocsOf(V) == {p[1] : p \in V}

\* What counts as merged is in the text: the reason why merging the others only
\* is enough.
MergedInText == \A k \in KBs : community[k].merged \subseteq DocsOf(community[k].text)

CoverInv == TypeInv /\ MergedInText /\ CommunityCoversDocuments

LEMMA NewTextCovers ==
    ASSUME CoverInv, NEW k \in KBs
    PROVE  DOMAIN Members(build.docs, k) \subseteq DocsOf(NewText(k))
<1>. DEFINE D == Members(build.docs, k)
            new == {d \in DOMAIN D : d \notin community[k].merged}
<1>1. \A d \in DOMAIN D : <<d, D[d]>>[1] = d
  OBVIOUS
<1>2. CASE NewText(k) = Versioned(D)
  BY <1>1, <1>2 DEF DocsOf, Versioned
<1>3. CASE NewText(k) = community[k].text \cup {<<d, D[d]>> : d \in new}
  <2>. SUFFICES ASSUME NEW d \in DOMAIN D PROVE d \in DocsOf(NewText(k))
    OBVIOUS
  <2>1. CASE d \in new
    <3>1. <<d, D[d]>> \in NewText(k)
      BY <1>3, <2>1
    <3>. QED
      BY <1>1, <3>1 DEF DocsOf
  <2>2. CASE d \in community[k].merged
    BY <1>3, <2>2 DEF CoverInv, MergedInText, DocsOf
  <2>. QED
    BY <2>1, <2>2
<1>. QED
  BY <1>2, <1>3 DEF NewText

LEMMA CommunityUntouched ==
    ASSUME [Next]_vars, ~PrepareCommunities,
           \A k \in KBs : ~SaveCommunitySuccess(k) /\ ~SaveCommunityFailure(k)
    PROVE  UNCHANGED community
  BY DEF Next, vars, Step, SummaryFinishes, SummaryLeaves, FileIndexed, FileNotIndexed,
         SwitchKnowledgeBase, RequestRefresh,
         Prepare, PollNothing, Crash, LoadCache, EmbedBatch, EmbeddingDone, FailBuild,
         ReplaceRelations, LoadChunkItems, ReplaceChunkRelations, SkipChunkGraph, Finish,
         BuildEnds, derived

LEMMA NextCovers == CoverInv /\ [Next]_vars => CoverInv'
<1>. SUFFICES ASSUME CoverInv, [Next]_vars PROVE MergedInText' /\ CommunityCoversDocuments'
  BY NextTypes DEF CoverInv
<1>. USE DEF MergedInText, CommunityCoversDocuments
<1>0. community \in [KBs -> Community]
  BY DEF CoverInv, TypeInv, TypeOK
<1>1. CASE PrepareCommunities
  <2>. SUFFICES ASSUME NEW k \in KBs
                PROVE  /\ community'[k].merged \subseteq DocsOf(community'[k].text)
                       /\ community'[k].status = "completed" =>
                            DOMAIN community'[k].fingerprint \subseteq DocsOf(community'[k].text)
    BY DEF DocsOf
  <2>1. community'[k] \in {[community[k] EXCEPT !.status = "running"], Empty(k), community[k]}
    BY <1>1 DEF PrepareCommunities
  <2>2. CASE community'[k] = [community[k] EXCEPT !.status = "running"]
    BY <1>0, <2>2 DEF Community, CoverInv
  <2>3. CASE community'[k] = Empty(k)
    <3>1. community'[k].merged = {} /\ community'[k].status = "not_ready"
      BY <1>0, <2>3 DEF Empty, Community
    <3>. QED
      BY <3>1
  <2>4. CASE community'[k] = community[k]
    BY <2>4 DEF CoverInv, DocsOf
  <2>. QED
    BY <2>1, <2>2, <2>3, <2>4
<1>2. ASSUME NEW k \in KBs, SaveCommunitySuccess(k)
      PROVE  MergedInText' /\ CommunityCoversDocuments'
  <2>1. /\ community'[k].merged = DOMAIN Members(build.docs, k)
        /\ community'[k].fingerprint = Members(build.docs, k)
        /\ community'[k].text = NewText(k)
        /\ \A q \in KBs \ {k} : community'[q] = community[q]
    BY <1>0, <1>2 DEF SaveCommunitySuccess
  <2>. QED
    BY <2>1, NewTextCovers DEF CoverInv, DocsOf
<1>3. ASSUME NEW k \in KBs, SaveCommunityFailure(k)
      PROVE  MergedInText' /\ CommunityCoversDocuments'
  <2>1. /\ community'[k].merged = community[k].merged
        /\ community'[k].text = community[k].text
        /\ community'[k].status = "failed"
        /\ \A q \in KBs \ {k} : community'[q] = community[q]
    BY <1>0, <1>3 DEF SaveCommunityFailure, Community
  <2>. QED
    BY <2>1 DEF CoverInv, DocsOf
<1>4. CASE UNCHANGED community
  BY <1>4 DEF CoverInv, DocsOf
<1>. QED
  BY <1>1, <1>2, <1>3, <1>4, CommunityUntouched

\* Whatever fails, dies or comes back between builds, update_community_summaries
\* never counts a document as merged that no prompt contained.
THEOREM GraphCommunities == Spec => []CommunityCoversDocuments
<1>1. Init => CoverInv
  BY InitTypes DEF Init, CoverInv, MergedInText, CommunityCoversDocuments, DocsOf
<1>2. CoverInv => CommunityCoversDocuments
  BY DEF CoverInv
<1>. QED
  BY <1>1, <1>2, NextCovers, PTL DEF Spec

-----------------------------------------------------------------------------
(* A completed graph has the relations of its fingerprint *)

\* The graph is not marked completed while a build may still change what it is of.
BuildUnfinished ==
    build.pc \in {"cache", "embed", "relate", "communities", "summarize"} =>
        graph.status # "completed"

\* What a build has embedded, read back and written is of the texts it loaded.
\* A vector may be missing: a forced refresh takes it away at any time.
BuildsOwnTexts ==
    /\ build.pc = "embed" =>
            \A d \in DOMAIN build.docs \ build.stale : embedding[d] \in {0, build.docs[d]}
    /\ build.pc = "relate" => build.vectors \subseteq Versioned(build.docs)
    /\ build.pc \in {"communities", "summarize"} =>
            \A r \in relations : r \subseteq Versioned(build.docs)

RelationsOfGraph ==
    graph.status = "completed" => \A r \in relations : r \subseteq Versioned(graph.fingerprint)

RelationInv == TypeInv /\ BuildUnfinished /\ BuildsOwnTexts /\ RelationsOfGraph

LEMMA RelatedWithin ==
    ASSUME NEW V, NEW W, V \subseteq W
    PROVE  \A r \in Related(V) : r \subseteq W
  BY DEF Related

\* The steps that touch neither the relations nor the stage of the build.
LEMMA OthersKeepRelations ==
    ASSUME RelationInv, UNCHANGED <<embedding, relations>>,
           \/ UNCHANGED <<graph, build>>
           \/ build' = NoBuild /\ (graph' = graph \/ graph'.status # "completed")
           \/ build.pc = "chunks" /\ build'.pc = "chunks" /\ UNCHANGED graph
    PROVE  BuildUnfinished' /\ BuildsOwnTexts' /\ RelationsOfGraph'
<1>1. NoBuild.pc = "idle"
  BY DEF NoBuild
<1>. QED
  BY <1>1 DEF RelationInv, BuildUnfinished, BuildsOwnTexts, RelationsOfGraph, Versioned

LEMMA NextRelates == RelationInv /\ [Next]_vars => RelationInv'
<1>. SUFFICES ASSUME RelationInv, [Next]_vars
              PROVE  BuildUnfinished' /\ BuildsOwnTexts' /\ RelationsOfGraph'
  BY NextTypes DEF RelationInv
<1>. DEFINE Goal == BuildUnfinished' /\ BuildsOwnTexts' /\ RelationsOfGraph'
<1>0. build \in Build /\ graph \in [status : BuildStatuses, fingerprint : Fingerprints]
  BY DEF RelationInv, TypeInv, TypeOK
<1>1. CASE UNCHANGED vars
  BY <1>1, OthersKeepRelations DEF vars
<1>2. ASSUME NEW d \in Docs,
             SummaryFinishes(d) \/ SummaryLeaves(d) \/ FileIndexed(d) \/ FileNotIndexed(d)
      PROVE  Goal
  BY <1>2, OthersKeepRelations
     DEF SummaryFinishes, SummaryLeaves, FileIndexed, FileNotIndexed, derived
<1>3. ASSUME NEW k \in KBs, SwitchKnowledgeBase(k) PROVE Goal
  BY <1>3, OthersKeepRelations DEF SwitchKnowledgeBase, derived
<1>4. ASSUME NEW force \in BOOLEAN, RequestRefresh(force) PROVE Goal
  <2>1. /\ UNCHANGED <<relations, build>>
        /\ graph'.status = "pending"
        /\ \A d \in Docs : embedding'[d] \in {0, embedding[d]}
    BY <1>4 DEF RequestRefresh
  <2>2. DOMAIN build.docs \subseteq Docs
    BY <1>0, VersionedType DEF Build
  <2>3. BuildsOwnTexts'
    BY <2>1, <2>2 DEF RelationInv, BuildsOwnTexts, Versioned
  <2>. QED
    BY <2>1, <2>3 DEF BuildUnfinished, RelationsOfGraph
<1>5. CASE Prepare
  BY <1>0, <1>5 DEF Prepare, NoBuild, BuildUnfinished, BuildsOwnTexts, RelationsOfGraph
<1>6. CASE PollNothing
  BY <1>6, OthersKeepRelations DEF PollNothing, vars
<1>7. CASE LoadCache
  <2>1. /\ build'.pc = "embed" /\ build'.docs = build.docs
        /\ build'.stale = {d \in DOMAIN build.docs : embedding[d] # build.docs[d]}
        /\ UNCHANGED <<graph, embedding, relations>>
    BY <1>0, <1>7 DEF LoadCache, Build, derived
  <2>. QED
    BY <1>7, <2>1 DEF LoadCache, RelationInv, BuildUnfinished, BuildsOwnTexts, RelationsOfGraph
<1>8. CASE EmbedBatch
  <2>1. PICK batch \in SUBSET build.stale :
            /\ embedding' = [d \in Docs |-> IF d \in batch THEN build.docs[d] ELSE embedding[d]]
            /\ build' = [build EXCEPT !.stale = @ \ batch]
    BY <1>8 DEF EmbedBatch
  <2>2. build.pc = "embed" /\ UNCHANGED <<graph, relations>>
    BY <1>8 DEF EmbedBatch
  <2>3. /\ build'.pc = "embed" /\ build'.docs = build.docs
        /\ build'.stale = build.stale \ batch
    BY <1>0, <2>1, <2>2 DEF Build
  <2>4. DOMAIN build.docs \subseteq Docs
    BY <1>0, VersionedType DEF Build
  <2>. QED
    BY <2>1, <2>2, <2>3, <2>4 DEF RelationInv, BuildUnfinished, BuildsOwnTexts, RelationsOfGraph
<1>9. CASE EmbeddingDone
  <2>1. /\ build'.pc = "relate" /\ build'.docs = build.docs /\ build'.vectors = Vectors
        /\ build.pc = "embed" /\ build.stale = {}
        /\ UNCHANGED <<graph, embedding, relations>>
    BY <1>0, <1>9 DEF EmbeddingDone, Build, derived
  <2>2. Vectors \subseteq Versioned(build.docs)
    BY <2>1 DEF RelationInv, BuildsOwnTexts, Vectors, Versioned
  <2>. QED
    BY <2>1, <2>2 DEF RelationInv, BuildUnfinished, BuildsOwnTexts, RelationsOfGraph
<1>10. CASE FailBuild
  <2>1. graph'.status = "failed"
    BY <1>0, <1>10 DEF FailBuild
  <2>. QED
    BY <1>10, <2>1, OthersKeepRelations DEF FailBuild, derived
<1>11. CASE ReplaceRelations
  <2>1. /\ build'.pc = "communities" /\ build'.docs = build.docs
        /\ relations' = Related(build.vectors)
        /\ build.pc = "relate" /\ UNCHANGED graph
    BY <1>0, <1>11 DEF ReplaceRelations, Build
  <2>2. \A r \in relations' : r \subseteq Versioned(build.docs)
    BY <2>1, RelatedWithin DEF RelationInv, BuildsOwnTexts
  <2>. QED
    BY <2>1, <2>2 DEF RelationInv, BuildUnfinished, BuildsOwnTexts, RelationsOfGraph
<1>12. CASE PrepareCommunities
  <2>1. /\ build'.pc = "summarize" /\ build'.docs = build.docs
        /\ build.pc = "communities" /\ UNCHANGED <<graph, relations>>
    BY <1>0, <1>12 DEF PrepareCommunities, Build
  <2>. QED
    BY <2>1 DEF RelationInv, BuildUnfinished, BuildsOwnTexts, RelationsOfGraph
<1>13. ASSUME NEW k \in KBs, SaveCommunitySuccess(k) \/ SaveCommunityFailure(k) PROVE Goal
  <2>1. /\ build'.pc = "summarize" /\ build'.docs = build.docs
        /\ build.pc = "summarize" /\ UNCHANGED <<graph, relations>>
    BY <1>0, <1>13 DEF SaveCommunitySuccess, SaveCommunityFailure, Build
  <2>. QED
    BY <2>1 DEF RelationInv, BuildUnfinished, BuildsOwnTexts, RelationsOfGraph
<1>14. CASE Finish
  <2>1. /\ build'.pc = "chunks" /\ graph'.fingerprint = build.docs
        /\ build.pc = "summarize" /\ UNCHANGED relations
    BY <1>0, <1>14 DEF Finish, Build, derived
  <2>. QED
    BY <2>1 DEF RelationInv, BuildUnfinished, BuildsOwnTexts, RelationsOfGraph
<1>15. ASSUME NEW k \in KBs,
              LoadChunkItems(k) \/ ReplaceChunkRelations(k) \/ SkipChunkGraph(k)
       PROVE  Goal
  <2>1. build.pc = "chunks" /\ build'.pc = "chunks"
    BY <1>0, <1>15 DEF LoadChunkItems, ReplaceChunkRelations, SkipChunkGraph, Build
  <2>. QED
    BY <1>15, <2>1, OthersKeepRelations
       DEF LoadChunkItems, ReplaceChunkRelations, SkipChunkGraph, derived
<1>16. CASE BuildEnds \/ Crash
  BY <1>16, OthersKeepRelations DEF BuildEnds, Crash, derived
<1>. QED
  BY <1>1, <1>2, <1>3, <1>4, <1>5, <1>6, <1>7, <1>8, <1>9, <1>10, <1>11, <1>12, <1>13, <1>14,
     <1>15, <1>16 DEF Next, Step

\* A response of the graph that is up to date shows no relation that was computed
\* from a text that has been replaced, or to a document it does not show.
THEOREM GraphRelations == Spec => []CurrentRelationsHold
<1>1. Init => RelationInv
  BY InitTypes DEF Init, NoBuild, RelationInv, BuildUnfinished, BuildsOwnTexts, RelationsOfGraph
<1>2. RelationInv => CurrentRelationsHold
  <2>. SUFFICES ASSUME RelationInv, Current, NEW k \in kbActive, NEW r \in Touching(k), NEW p \in r
                PROVE  p[1] \in Nodes(k) /\ p \in Versioned(Documents)
    BY DEF CurrentRelationsHold
  <2>1. p \in Versioned(Documents)
    BY DEF RelationInv, RelationsOfGraph, Current, Touching
  <2>2. p[1] \in DOMAIN Documents
    BY <2>1 DEF Versioned
  <2>3. p[1] \in Selected(k)
    BY DEF Selected
  <2>. QED
    BY <2>1, <2>2, <2>3 DEF Nodes
<1>. QED
  BY <1>1, <1>2, NextRelates, PTL DEF Spec

-----------------------------------------------------------------------------
(* The chunk graph follows *)

\* In the rows `table', document d is not shown with text t, and never will be again.
Lost(d, t, table) == table[d].state # "shown" \/ t < table[d].text

NotAhead(D, table) ==
    \A d \in DOMAIN D : d \in Docs /\ D[d] \in Nat /\ D[d] <= table[d].text

\* Nobody has loaded a text that is not written yet.
NothingAhead ==
    /\ NotAhead(build.docs, doc)
    /\ graph.status = "completed" => NotAhead(graph.fingerprint, doc)

\* A knowledge base whose chunks are not read yet counts as skipped, so that what
\* is noted as missed when they are read concerns no finished chunk graph.
TodoSkipped ==
    build.pc = "chunks" =>
        build.todo \subseteq skipped /\ \A e \in build.items : KbOf[e] \notin build.todo

\* The chunks that were read for a knowledge base, and the chunk graph it has,
\* cover every document of the fingerprint that can still be shown as it was and
\* whose file was INDEXED.
ItemsCover ==
    graph.status = "completed" =>
        \A d \in DOMAIN graph.fingerprint :
            (\E e \in build.items : KbOf[e] = KbOf[d]) =>
                d \in build.items \/ d \in missed \/ Lost(d, graph.fingerprint[d], doc)

ChunkGraphCovers ==
    graph.status = "completed" =>
        \A d \in DOMAIN graph.fingerprint :
            \/ KbOf[d] \in skipped
            \/ d \in chunkGraph[KbOf[d]] \/ d \in missed
            \/ Lost(d, graph.fingerprint[d], doc)

ChunkInv ==
    /\ TypeInv
    /\ build.pc # "chunks" => build.items = {}
    /\ TodoSkipped /\ NothingAhead /\ ItemsCover /\ ChunkGraphCovers

\* A text is only ever replaced by a later one, and a document that comes back
\* comes back with a later text.
DocsAdvance ==
    \A d \in Docs :
        /\ doc[d].text \in Nat /\ doc'[d].text \in Nat
        /\ doc[d].text <= doc'[d].text
        /\ doc[d].state # "shown" => doc'[d].state # "shown" \/ doc[d].text < doc'[d].text

LEMMA NextAdvances == TypeInv /\ [Next]_vars => DocsAdvance
<1>. SUFFICES ASSUME TypeInv, [Next]_vars PROVE DocsAdvance
  OBVIOUS
<1>0. /\ doc \in [Docs -> [state : DocStates, text : 0 .. MaxTexts]]
      /\ MaxTexts \in Nat
  BY GraphAssumption DEF TypeInv, TypeOK
<1>1. CASE UNCHANGED doc
  BY <1>0, <1>1 DEF DocsAdvance
<1>2. ASSUME NEW d \in Docs, SummaryFinishes(d) PROVE DocsAdvance
  <2>1. doc'[d].text = doc[d].text + 1 /\ \A e \in Docs \ {d} : doc'[e] = doc[e]
    BY <1>0, <1>2 DEF SummaryFinishes
  <2>. QED
    BY <1>0, <2>1 DEF DocsAdvance
<1>3. ASSUME NEW d \in Docs, SummaryLeaves(d) PROVE DocsAdvance
  <2>1. /\ doc'[d].text = doc[d].text /\ doc'[d].state # "shown"
        /\ \A e \in Docs \ {d} : doc'[e] = doc[e]
    BY <1>0, <1>3 DEF SummaryLeaves
  <2>. QED
    BY <1>0, <2>1 DEF DocsAdvance
<1>4. UNCHANGED doc \/ \E d \in Docs : SummaryFinishes(d) \/ SummaryLeaves(d)
  BY DEF Next, vars, Step, FileIndexed, FileNotIndexed, SwitchKnowledgeBase, RequestRefresh, Prepare, PollNothing, Crash,
         LoadCache, EmbedBatch, EmbeddingDone, FailBuild, ReplaceRelations, PrepareCommunities,
         SaveCommunitySuccess, SaveCommunityFailure, LoadChunkItems, ReplaceChunkRelations,
         SkipChunkGraph, Finish, BuildEnds, outside, sources
<1>. QED
  BY <1>1, <1>2, <1>3, <1>4

LEMMA LostStaysLost ==
    ASSUME DocsAdvance, NEW D, NotAhead(D, doc)
    PROVE  NotAhead(D, doc') /\ \A d \in DOMAIN D : Lost(d, D[d], doc) => Lost(d, D[d], doc')
  BY DEF DocsAdvance, NotAhead, Lost

\* Steps that touch neither the chunk graphs nor the fingerprint of a graph that is
\* marked completed.
LEMMA OthersKeepChunks ==
    ASSUME ChunkInv, DocsAdvance,
           UNCHANGED <<chunkGraph, skipped, missed>>,
           graph' = graph \/ graph'.status # "completed",
           build'.docs = build.docs \/ NotAhead(build'.docs, doc'),
           \/ build'.items = {}
           \/ build'.items = build.items /\ (build'.pc = build.pc \/ build.pc # "chunks")
    PROVE  /\ build'.pc # "chunks" => build'.items = {}
           /\ NothingAhead' /\ ItemsCover' /\ ChunkGraphCovers'
<1>1. build'.pc # "chunks" => build'.items = {}
  BY DEF ChunkInv
<1>2. NothingAhead'
  <2>1. NotAhead(build.docs, doc')
    BY LostStaysLost DEF ChunkInv, NothingAhead
  <2>2. graph'.status = "completed" => NotAhead(graph.fingerprint, doc')
    BY LostStaysLost DEF ChunkInv, NothingAhead
  <2>3. NotAhead(build'.docs, doc')
    BY <2>1
  <2>. QED
    BY <2>2, <2>3 DEF NothingAhead, NotAhead
<1>3. ASSUME graph'.status = "completed", NEW d \in DOMAIN graph.fingerprint
      PROVE  Lost(d, graph.fingerprint[d], doc) => Lost(d, graph.fingerprint[d], doc')
  BY <1>3, LostStaysLost DEF ChunkInv, NothingAhead
<1>4. ItemsCover'
  BY <1>1, <1>3 DEF ChunkInv, ItemsCover, Lost
<1>5. ChunkGraphCovers'
  BY <1>3 DEF ChunkInv, ChunkGraphCovers, Lost
<1>. QED
  BY <1>1, <1>2, <1>4, <1>5

LEMMA NextTodo == ChunkInv /\ [Next]_vars => TodoSkipped'
<1>. SUFFICES ASSUME ChunkInv, [Next]_vars PROVE TodoSkipped'
  OBVIOUS
<1>0. /\ build \in Build /\ NoBuild.pc = "idle" /\ TodoSkipped
      /\ build.pc # "chunks" => build.items = {}
  BY DEF ChunkInv, TypeInv, TypeOK, NoBuild
<1>1. CASE UNCHANGED <<build, skipped>>
  BY <1>0, <1>1 DEF TodoSkipped
<1>2. CASE build'.pc # "chunks"
  BY <1>2 DEF TodoSkipped
<1>3. CASE Finish
  <2>1. build'.items = {} /\ build'.todo = skipped'
    BY <1>0, <1>3 DEF Finish, Build
  <2>. QED
    BY <2>1 DEF TodoSkipped
<1>4. ASSUME NEW k \in KBs, LoadChunkItems(k) PROVE TodoSkipped'
  <2>1. /\ build.pc = "chunks" /\ skipped' = skipped
        /\ build'.todo = build.todo \ {k} /\ build'.items \subseteq MayHaveItems(k)
    BY <1>0, <1>4 DEF LoadChunkItems, Build
  <2>2. \A e \in build'.items : KbOf[e] = k
    BY <2>1 DEF MayHaveItems
  <2>. QED
    BY <1>0, <2>1, <2>2 DEF TodoSkipped
<1>5. ASSUME NEW k \in KBs, ReplaceChunkRelations(k) PROVE TodoSkipped'
  <2>1. /\ build.pc = "chunks" /\ skipped' = skipped \ {k}
        /\ build'.todo = build.todo /\ build'.items = {}
        /\ \E e \in build.items : KbOf[e] = k
    BY <1>0, <1>5 DEF ReplaceChunkRelations, Build
  <2>. QED
    BY <1>0, <2>1 DEF TodoSkipped
<1>6. ASSUME NEW k \in KBs, SkipChunkGraph(k) PROVE TodoSkipped'
  <2>1. /\ build.pc = "chunks" /\ skipped' = skipped
        /\ build'.todo \subseteq build.todo
        /\ build'.items \subseteq build.items
    BY <1>0, <1>6 DEF SkipChunkGraph, Build, history
  <2>. QED
    BY <1>0, <2>1 DEF TodoSkipped
<1>7. CASE \/ UNCHANGED vars \/ PollNothing
           \/ \E d \in Docs : \/ SummaryFinishes(d) \/ SummaryLeaves(d)
                              \/ FileIndexed(d) \/ FileNotIndexed(d)
           \/ \E k \in KBs : SwitchKnowledgeBase(k)
           \/ \E force \in BOOLEAN : RequestRefresh(force)
  BY <1>1, <1>7 DEF vars, PollNothing, SummaryFinishes, SummaryLeaves, FileIndexed,
                    FileNotIndexed, SwitchKnowledgeBase, RequestRefresh, history
<1>8. CASE \/ Prepare \/ LoadCache \/ EmbedBatch \/ EmbeddingDone \/ FailBuild
           \/ ReplaceRelations \/ PrepareCommunities
           \/ \E k \in KBs : SaveCommunitySuccess(k) \/ SaveCommunityFailure(k)
           \/ BuildEnds \/ Crash
  <2>1. build'.pc # "chunks"
    BY <1>0, <1>8 DEF Prepare, LoadCache, EmbedBatch, EmbeddingDone, FailBuild, ReplaceRelations,
                      PrepareCommunities, SaveCommunitySuccess, SaveCommunityFailure, BuildEnds,
                      Crash, NoBuild, Build
  <2>. QED
    BY <1>2, <2>1
<1>. QED
  BY <1>3, <1>4, <1>5, <1>6, <1>7, <1>8 DEF Next, Step

LEMMA NextCoversChunks == ChunkInv /\ [Next]_vars => ChunkInv'
<1>. SUFFICES ASSUME ChunkInv, [Next]_vars
              PROVE  /\ build'.pc # "chunks" => build'.items = {}
                     /\ NothingAhead' /\ ItemsCover' /\ ChunkGraphCovers'
  BY NextTypes, NextTodo DEF ChunkInv
<1>. DEFINE Goal == /\ build'.pc # "chunks" => build'.items = {}
                    /\ NothingAhead' /\ ItemsCover' /\ ChunkGraphCovers'
<1>0. /\ DocsAdvance
      /\ build \in Build /\ graph \in [status : BuildStatuses, fingerprint : Fingerprints]
  BY NextAdvances DEF ChunkInv, TypeInv, TypeOK
<1>1. NoBuild.items = {} /\ NotAhead(NoBuild.docs, doc')
  BY DEF NoBuild, NotAhead
<1>2. CASE UNCHANGED <<graph, chunkGraph, skipped, missed, build>>
  BY <1>0, <1>2, OthersKeepChunks
<1>3. CASE build' = NoBuild /\ UNCHANGED <<chunkGraph, skipped, missed>>
           /\ (graph' = graph \/ graph'.status # "completed")
  BY <1>0, <1>1, <1>3, OthersKeepChunks
<1>4. ASSUME NEW force \in BOOLEAN, RequestRefresh(force) PROVE Goal
  <2>1. graph'.status # "completed" /\ UNCHANGED <<chunkGraph, skipped, missed, build>>
    BY <1>4 DEF RequestRefresh
  <2>. QED
    BY <1>0, <2>1, OthersKeepChunks
<1>5. CASE Prepare
  <2>1. /\ build'.docs = Documents /\ build'.items = {}
        /\ graph'.status = "running" /\ UNCHANGED <<chunkGraph, skipped, missed, doc, kbActive>>
    BY <1>0, <1>5 DEF Prepare, NoBuild, derived, outside, sources, history
  <2>2. NotAhead(Documents, doc)
    BY DocumentsType, GraphAssumption DEF ChunkInv, TypeInv, TypeOK, NotAhead
  <2>3. NotAhead(build'.docs, doc')
    BY <2>1, <2>2 DEF NotAhead
  <2>. QED
    BY <1>0, <2>1, <2>3, OthersKeepChunks
<1>6. CASE \/ LoadCache \/ EmbedBatch \/ EmbeddingDone \/ ReplaceRelations
           \/ PrepareCommunities
           \/ \E k \in KBs : SaveCommunitySuccess(k) \/ SaveCommunityFailure(k)
  <2>1. /\ build'.docs = build.docs /\ build'.items = build.items /\ build.pc # "chunks"
        /\ UNCHANGED <<graph, chunkGraph, skipped, missed>>
    BY <1>0, <1>6 DEF LoadCache, EmbedBatch, EmbeddingDone, ReplaceRelations, PrepareCommunities,
                      SaveCommunitySuccess, SaveCommunityFailure, Build, derived, history
  <2>. QED
    BY <1>0, <2>1, OthersKeepChunks
<1>7. CASE Finish
  <2>1. /\ build'.pc = "chunks" /\ build'.items = {} /\ build'.docs = build.docs
        /\ graph'.fingerprint = build.docs
        /\ skipped' = {KbOf[d] : d \in DOMAIN build.docs}
        /\ UNCHANGED doc
    BY <1>0, <1>7 DEF Finish, Build, outside, sources, ChunkInv
  <2>. QED
    BY <2>1 DEF ChunkInv, NothingAhead, NotAhead, ItemsCover, ChunkGraphCovers
<1>8. ASSUME NEW k \in KBs, LoadChunkItems(k) PROVE Goal
  <2>1. PICK items \in SUBSET MayHaveItems(k) :
            /\ items # {} /\ MustHaveItems(k) \subseteq items
            /\ build' = [build EXCEPT !.items = items, !.todo = @ \ {k}]
    BY <1>8 DEF LoadChunkItems
  <2>2. /\ build'.pc = "chunks" /\ build'.items = items /\ build'.docs = build.docs
        /\ missed' = {d \in missed : KbOf[d] # k}
                       \cup {d \in Docs \ indexed : KbOf[d] = k /\ doc[d].state = "shown"}
        /\ k \in skipped
        /\ UNCHANGED <<graph, chunkGraph, skipped, doc>>
    BY <1>0, <1>8, <2>1 DEF LoadChunkItems, Build, derived, outside, sources, ChunkInv, TodoSkipped
  <2>3. ItemsCover'
    <3>. SUFFICES ASSUME graph.status = "completed", NEW d \in DOMAIN graph.fingerprint,
                         NEW e \in items, KbOf[e] = KbOf[d], doc[d].state = "shown"
                  PROVE  d \in items \/ d \in missed'
      BY <2>2 DEF ItemsCover, Lost
    <3>1. KbOf[e] = k /\ k \in kbActive
      BY <2>1 DEF MayHaveItems
    <3>2. d \in Docs
      BY DEF ChunkInv, NothingAhead, NotAhead
    <3>. QED
      BY <2>1, <2>2, <3>1, <3>2 DEF MustHaveItems, MayHaveItems
  <2>4. ChunkGraphCovers'
    <3>. SUFFICES ASSUME graph.status = "completed", NEW d \in DOMAIN graph.fingerprint,
                         KbOf[d] \notin skipped, doc[d].state = "shown",
                         ~Lost(d, graph.fingerprint[d], doc)
                  PROVE  d \in chunkGraph[KbOf[d]] \/ d \in missed'
      BY <2>2 DEF ChunkGraphCovers, Lost
    <3>. QED
      BY <2>2 DEF ChunkInv, ChunkGraphCovers
  <2>5. NothingAhead'
    BY <2>2 DEF ChunkInv, NothingAhead, NotAhead
  <2>. QED
    BY <2>2, <2>3, <2>4, <2>5
<1>9. ASSUME NEW k \in KBs, ReplaceChunkRelations(k) PROVE Goal
  <2>1. /\ build'.pc = "chunks" /\ build'.items = {} /\ build'.docs = build.docs
        /\ UNCHANGED <<graph, missed, doc>>
        /\ \E e \in build.items : KbOf[e] = k
        /\ skipped' = skipped \ {k}
        /\ chunkGraph'[k] = build.items
        /\ \A q \in KBs \ {k} : chunkGraph'[q] = chunkGraph[q]
    BY <1>0, <1>9 DEF ReplaceChunkRelations, Build, outside, sources, ChunkInv, TypeInv, TypeOK
  <2>2. ChunkGraphCovers'
    <3>. SUFFICES ASSUME graph.status = "completed", NEW d \in DOMAIN graph.fingerprint,
                         KbOf[d] \notin skipped', ~Lost(d, graph.fingerprint[d], doc)
                  PROVE  d \in chunkGraph'[KbOf[d]] \/ d \in missed
      BY <2>1 DEF ChunkGraphCovers, Lost
    <3>1. d \in Docs /\ KbOf[d] \in KBs
      BY GraphAssumption DEF ChunkInv, NothingAhead, NotAhead
    <3>2. CASE KbOf[d] = k
      BY <2>1, <3>2 DEF ChunkInv, ItemsCover
    <3>3. CASE KbOf[d] # k
      BY <2>1, <3>1, <3>3 DEF ChunkInv, ChunkGraphCovers
    <3>. QED
      BY <3>2, <3>3
  <2>3. NothingAhead' /\ ItemsCover'
    BY <2>1 DEF ChunkInv, NothingAhead, NotAhead, ItemsCover
  <2>. QED
    BY <2>1, <2>2, <2>3
<1>10. ASSUME NEW k \in KBs, SkipChunkGraph(k) PROVE Goal
  <2>1. /\ build'.docs = build.docs
        /\ build'.items = {} \/ (build'.items = build.items /\ build'.pc = build.pc)
        /\ UNCHANGED <<graph, chunkGraph, skipped, missed>>
    BY <1>0, <1>10 DEF SkipChunkGraph, Build, derived, history
  <2>. QED
    BY <1>0, <2>1, OthersKeepChunks
<1>11. CASE \/ UNCHANGED vars \/ PollNothing
            \/ \E d \in Docs : \/ SummaryFinishes(d) \/ SummaryLeaves(d)
                               \/ FileIndexed(d) \/ FileNotIndexed(d)
            \/ \E k \in KBs : SwitchKnowledgeBase(k)
  BY <1>2, <1>11 DEF vars, PollNothing, SummaryFinishes, SummaryLeaves, FileIndexed,
                     FileNotIndexed, SwitchKnowledgeBase, derived, history
<1>12. CASE FailBuild \/ BuildEnds \/ Crash
  <2>1. FailBuild => graph'.status = "failed"
    BY <1>0 DEF FailBuild
  <2>. QED
    BY <1>3, <1>12, <2>1 DEF FailBuild, BuildEnds, Crash, derived, history
<1>. QED
  BY <1>4, <1>5, <1>6, <1>7, <1>8, <1>9, <1>10, <1>11, <1>12 DEF Next, Step

\* What build_chunk_graph_for_knowledge_base wrote last, however long ago and
\* whatever happened while it read, covers the documents of a graph that is
\* up to date, except those whose file was not INDEXED when it read.
THEOREM GraphChunks == Spec => []ChunkGraphFollows
<1>1. Init => ChunkInv
  <2>. SUFFICES ASSUME Init PROVE ChunkInv
    OBVIOUS
  <2>1. build = NoBuild /\ graph.status = "none"
    BY DEF Init
  <2>. QED
    BY <2>1, InitTypes DEF NoBuild, ChunkInv, TodoSkipped, NothingAhead, NotAhead, ItemsCover,
                             ChunkGraphCovers
<1>2. ChunkInv => ChunkGraphFollows
  <2>. SUFFICES ASSUME ChunkInv, Current, NEW k \in kbActive \ skipped,
                       NEW d \in DOMAIN Members(Documents, k)
                PROVE  d \in chunkGraph[k] \cup missed
    BY DEF ChunkGraphFollows
  <2>1. d \in DOMAIN Documents /\ KbOf[d] = k
    BY DEF Members
  <2>2. d \in Docs /\ doc[d].state = "shown" /\ Documents[d] = doc[d].text
    BY <2>1, DocumentsType DEF ChunkInv
  <2>3. ~Lost(d, Documents[d], doc)
    BY <2>2, GraphAssumption DEF Lost, ChunkInv, TypeInv, TypeOK
  <2>. QED
    BY <2>1, <2>3 DEF ChunkInv, ChunkGraphCovers, Current
<1>. QED
  BY <1>1, <1>2, NextCoversChunks, PTL DEF Spec
=============================================================================
