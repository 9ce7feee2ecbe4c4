-------------------------- MODULE ContextReviewProofs --------------------------
(***************************************************************************)
(* Proofs about ContextReview: the candidates that are gathered, the loop  *)
(* over the model's verdicts, and the report.                              *)
(***************************************************************************)
EXTENDS ContextReview, ReferenceContextProofs

(* Gathering.                                                              *)

\* What each stage has gathered so far.
Gathered ==
    /\ ReferenceTypes
    /\ stage \in {"profile", "search", "enrich"} => near = <<>>
    /\ stage = "search" => policies = Asked(named)
    /\ stage \in {"enrich", "gathered"} =>
          AskedThenBest(policies, Asked(named), Policies \ Inactive, score)
    /\ stage = "enrich" => incidents = Cut(Ranked(Incidents, score), KeywordLimit)
    /\ stage = "gathered" => NearThenWords(incidents, near, score)

Gathering == {"profile", "search", "enrich", "gathered"}

LEMMA FoundLists ==
    /\ <<>> \in Found
    /\ \A list \in Found : list \in Seq(Incidents) /\ Len(list) <= VectorLimit
<1>1. VectorLimit \in Nat
  BY LimitAssumption
<1>2. <<>> \in SeqOf(Incidents, VectorLimit)
  <2>1. 0 \in 0..VectorLimit /\ <<>> \in [1..0 -> Incidents]
    BY <1>1
  <2> QED BY <2>1 DEF SeqOf
<1>3. IsInjective(<<>>)
  BY DEF IsInjective
<1>4. ASSUME NEW list \in Found PROVE list \in Seq(Incidents) /\ Len(list) <= VectorLimit
  <2>1. PICK m \in 0..VectorLimit : list \in [1..m -> Incidents]
    BY DEF Found, SeqOf
  <2>2. m \in Nat /\ list \in Seq(Incidents) /\ Len(list) = m
    BY <1>1, <2>1
  <2> QED BY <1>1, <2>1, <2>2
<1> QED BY <1>2, <1>3, <1>4 DEF Found

LEMMA EmptyLists ==
    /\ <<>> \in Seq(RuleCodes) /\ <<>> \in Found
    /\ NoScore \in [Policies \cup Incidents -> 0..MaxScore]
    /\ <<>> \in Seq(Policies) /\ Len(<<>>) <= PolicyLimit
    /\ <<>> \in Seq(Incidents) /\ Len(<<>>) <= ContextLimit
BY FoundLists, LimitAssumption DEF NoScore

LEMMA GatherInitially == Init => Gathered
BY EmptyLists DEF Init, GatherInit, Gathered, ReferenceTypes

\* The lists only matter while they are gathered.
LEMMA ListsKept ==
    ASSUME Gathered, UNCHANGED gatherVars, stage' \notin Gathering
    PROVE  Gathered'
BY DEF Gathered, ReferenceTypes, gatherVars, Gathering, Found, AskedThenBest, NearThenWords

LEMMA ListsDropped ==
    ASSUME ListsDone, stage' \notin Gathering
    PROVE  Gathered'
BY EmptyLists DEF ListsDone, Gathered, ReferenceTypes, Gathering

LEMMA ResolveGathers == ASSUME Gathered, Resolve PROVE Gathered'
<1>1. /\ named' \in Seq(RuleCodes) /\ policies' = Asked(named') /\ stage' = "search"
      /\ near' = near /\ score' = score /\ incidents' = incidents
  BY ProfileAssumption DEF Resolve
<1>2. policies' \in Seq(Policies) /\ Len(policies') <= ProfileLimit
  BY <1>1, AskedList
<1>3. Len(policies') <= PolicyLimit
  BY <1>2, LimitAssumption
<1>4. near = <<>> /\ ReferenceTypes
  BY DEF Gathered, Resolve
<1> QED BY <1>1, <1>2, <1>3, <1>4, FoundLists DEF Gathered, ReferenceTypes

LEMMA SearchGathers == ASSUME Gathered, Search PROVE Gathered'
<1>1. /\ score' \in [Policies \cup Incidents -> 0..MaxScore] /\ stage' = "enrich"
      /\ policies' = MergePolicies(policies, Cut(Ranked(Policies \ Inactive, score'), PolicyLimit))
      /\ incidents' = Cut(Ranked(Incidents, score'), KeywordLimit)
      /\ named' = named /\ near' = near
  BY DEF Search
<1>2. /\ near = <<>> /\ ReferenceTypes /\ policies = Asked(named)
      /\ named \in Seq(RuleCodes) /\ policies \in Seq(Policies) /\ Len(policies) <= PolicyLimit
  BY DEF Gathered, ReferenceTypes, Search
<1>3. /\ policies' \in Seq(Policies) /\ Len(policies') <= PolicyLimit
      /\ AskedThenBest(policies', policies, Policies \ Inactive, score')
  BY <1>1, <1>2, PoliciesMerged
<1>4. incidents' \in Seq(Incidents) /\ Len(incidents') <= ContextLimit
  BY <1>1, WordsAlone
<1>5. AskedThenBest(policies', Asked(named'), Policies \ Inactive, score')
  BY <1>1, <1>2, <1>3
<1>6. ReferenceTypes'
  BY <1>1, <1>2, <1>3, <1>4, FoundLists DEF ReferenceTypes
<1> QED BY <1>1, <1>2, <1>5, <1>6 DEF Gathered, AskedThenBest

LEMMA EnrichGathers ==
    ASSUME Gathered, EnrichSkipped \/ EnrichFails \/ Enrich PROVE Gathered'
<1>1. /\ ReferenceTypes /\ near = <<>> /\ score \in [Policies \cup Incidents -> 0..MaxScore]
      /\ AskedThenBest(policies, Asked(named), Policies \ Inactive, score)
      /\ incidents = Cut(Ranked(Incidents, score), KeywordLimit)
  BY DEF Gathered, ReferenceTypes, EnrichSkipped, EnrichFails, Enrich
<1>2. /\ named' = named /\ score' = score /\ policies' = policies /\ stage' = "gathered"
      /\ near' \in Found
  BY <1>1, FoundLists DEF EnrichSkipped, EnrichFails, Enrich, gatherVars
<1>3. /\ incidents' \in Seq(Incidents) /\ Len(incidents') <= ContextLimit
      /\ NearThenWords(incidents', near', score)
  <2>1. CASE EnrichSkipped
    <3>1. incidents' = incidents /\ near' = <<>>
      BY <1>1, <2>1 DEF EnrichSkipped, gatherVars
    <3>2. /\ incidents \in Seq(Incidents) /\ Len(incidents) <= ContextLimit
          /\ NearThenWords(incidents, <<>>, score)
      BY <1>1, WordsAlone
    <3> QED BY <3>1, <3>2
  <2>2. CASE EnrichFails \/ Enrich
    <3>1. incidents' = MergeIncidents(Cut(Ranked(Incidents, score), KeywordLimit), near')
      BY <1>1, <2>2 DEF EnrichFails, Enrich
    <3>2. near' \in Seq(Incidents) /\ Len(near') <= VectorLimit
      BY <1>2, FoundLists
    <3> QED BY <1>1, <3>1, <3>2, IncidentsMerged
  <2> QED BY <2>1, <2>2
<1>4. ReferenceTypes'
  BY <1>1, <1>2, <1>3 DEF ReferenceTypes
<1>5. AskedThenBest(policies, Asked(named), Policies \ Inactive, score)'
  BY <1>1, <1>2 DEF AskedThenBest
<1>6. NearThenWords(incidents, near, score)'
  BY <1>2, <1>3 DEF NearThenWords
<1> QED BY <1>2, <1>4, <1>5, <1>6 DEF Gathered

LEMMA GatherStep == Gathered /\ [Next]_vars => Gathered'
<1> SUFFICES ASSUME Gathered, [Next]_vars PROVE Gathered'
  OBVIOUS
<1>1. CASE Gather
  BY <1>1, ResolveGathers, SearchGathers, EnrichGathers DEF Gather
<1>2. CASE Prompt \/ NotAsked
  BY <1>2, ListsDropped DEF Prompt, NotAsked, Gathering
<1>3. CASE \/ Ask \/ AskFails \/ Skip \/ Keep \/ Drop \/ Revise \/ ReviseRaises
           \/ ParseAdditions \/ Add \/ Merged \/ ReportMerged \/ FallBack
  <2>1. UNCHANGED gatherVars
    BY <1>3 DEF Ask, AskFails, Skip, Keep, Drop, Revise, ReviseRaises, Judge, ParseAdditions,
                Add, Merged, ReportMerged, FallBack
  <2>2. stage' \notin Gathering
    BY <1>3 DEF Ask, AskFails, Skip, Keep, Drop, Revise, ReviseRaises, Judge, ParseAdditions,
                Add, Merged, ReportMerged, FallBack, Reading, Gathering
  <2> QED BY <2>1, <2>2, ListsKept
<1>4. CASE UNCHANGED vars
  BY <1>4 DEF vars, gatherVars, Gathered, ReferenceTypes, Found, AskedThenBest, NearThenWords
<1> QED BY <1>1, <1>2, <1>3, <1>4 DEF Next

\* The invariant of gathering: each stage holds what the stages before it found.
THEOREM GatheredAlways == Spec => []Gathered
<1> QED BY GatherInitially, GatherStep, PTL DEF Spec

\* What a profile asks for is always offered, then the best matches.
THEOREM ProfileIsServedFirst == Spec => []ProfileThenBestMatches
<1>1. Gathered => ProfileThenBestMatches
  <2> SUFFICES ASSUME Gathered, stage = "gathered" PROVE ProfileThenBestMatches
    BY DEF ProfileThenBestMatches
  <2>1. /\ AskedThenBest(policies, Asked(named), Policies \ Inactive, score)
        /\ named \in Seq(RuleCodes)
    BY DEF Gathered, ReferenceTypes
  <2>2. ToSet(Asked(named)) = AskedFor
    BY <2>1, AskedIsAskedFor
  <2> QED BY <2>1, <2>2 DEF ProfileThenBestMatches, AskedThenBest, Matching
<1> QED BY <1>1, GatheredAlways, PTL

\* No article near to the text is lost, and only a full list loses one found by
\* words.
THEOREM NearestAreKept == Spec => []NearestArticlesKept
<1>1. Gathered => NearestArticlesKept
  BY DEF Gathered, NearestArticlesKept, NearThenWords, Worded, ByWords
<1> QED BY <1>1, GatheredAlways, PTL
-----------------------------------------------------------------------------
(* What the merge writes.                                                  *)

\* Lists of evidence that was offered, within the limit.
Quoted == {c \in Seq(offered) : Len(c) <= EvidenceLimit}

VerdictsOn(k) == {Provisional(k), Dropped} \cup {Written(k, c) : c \in Quoted}
Accepted == {Written(0, c) : c \in Quoted \ {<<>>}}

Unasked == Gathering \cup {"asking"}

Merging ==
    /\ stage \in Unasked \cup {"reviews", "additions", "merged", "raised", "reported"}
    /\ offered \subseteq Evidence
    /\ answer \in Answers \cup {NoAnswer}
    /\ i \in Nat \ {0}
    /\ stage = "reviews" => i <= Len(answer.reviews) + 1
    /\ stage = "additions" => i <= Len(answer.added) + 1
    /\ stage \in {"additions", "merged"} => AllParse
    /\ verdict = [k \in 1..N |-> verdict[k]]
    /\ \A k \in 1..N : verdict[k] \in VerdictsOn(k)
    /\ reviewed \subseteq 1..N
    /\ additions \in Seq(Accepted)
    /\ stage \in Unasked =>
          answer = NoAnswer /\ i = 1 /\ verdict = General /\ reviewed = {} /\ additions = <<>>
    /\ IF stage = "reported" THEN report \in {HighThenLow(General), HighThenLow(Surviving)}
       ELSE report = <<>>

\* What a finding cites has been offered, and is no more than the limit.
LEMMA CitationsOffered ==
    ASSUME NEW cites \in Cited
    PROVE  Citations(cites) \in Quoted
<1> DEFINE kept == Cut(cites, EvidenceLimit)
           places == {n \in DOMAIN kept : kept[n] \in offered}
           list == Pick(kept, places)
<1>1. EvidenceLimit \in Nat
  BY CountAssumption
<1>2. kept \in Seq(Policies \cup Incidents \cup Invented) /\ Len(kept) <= EvidenceLimit
  BY <1>1, CutList DEF Cited
<1> HIDE DEF kept
<1>3. /\ places \in SUBSET DOMAIN kept /\ places \in SUBSET (1..Len(kept)) /\ Len(kept) \in Nat
      /\ \A n \in places : kept[n] \in offered
  BY <1>2
<1> HIDE DEF places
<1>4. PICK src : /\ Takes(list, kept, src)
                 /\ \A k \in 1..Len(list) : src[k] \in places
  BY <1>2, <1>3, PickTakes
<1>5. /\ list \in Seq(Policies \cup Incidents \cup Invented)
      /\ Len(list) = Cardinality(places)
  BY <1>2, <1>3, PickTakes
<1>6. Len(list) <= EvidenceLimit
  <2>1. Cardinality(places) \in 0..Len(kept)
    BY <1>3, PlacesFinite
  <2> QED BY <1>1, <1>2, <1>3, <1>5, <2>1
<1> HIDE DEF list
<1>7. \A k \in 1..Len(list) : list[k] \in offered
  BY <1>3, <1>4 DEF Takes
<1>8. list \in Seq(offered)
  BY <1>5, <1>7
<1> QED BY <1>6, <1>8 DEF Quoted, Citations, kept, places, list

LEMMA MergeInitially == Init => Merging
<1> SUFFICES ASSUME Init PROVE Merging
  OBVIOUS
<1>1. verdict = General /\ verdict = [k \in 1..N |-> verdict[k]]
  BY DEF Init, General
<1>2. \A k \in 1..N : verdict[k] \in VerdictsOn(k)
  BY <1>1 DEF VerdictsOn, General
<1>3. additions = <<>> /\ <<>> \in Seq(Accepted)
  BY DEF Init
<1> QED BY <1>1, <1>2, <1>3 DEF Merging, Init, GatherInit, Unasked, Gathering

\* What the merge writes depends on nothing but the state of the merge.
LEMMA MergeKept ==
    ASSUME UNCHANGED <<offered, answer, verdict, additions>>
    PROVE  /\ Quoted' = Quoted /\ Accepted' = Accepted /\ Surviving' = Surviving
           /\ AllParse' = AllParse
           /\ \A k \in 1..N : VerdictsOn(k)' = VerdictsOn(k)
BY DEF Quoted, Accepted, Surviving, AllParse, VerdictsOn

LEMMA AskingMerges ==
    ASSUME Merging, ReferenceTypes, Gather \/ Prompt \/ Ask \/ AskFails
    PROVE  Merging'
<1>1. CASE Gather
  <2>1. /\ UNCHANGED <<offered, answer, i, verdict, reviewed, additions, report>>
        /\ stage \in Gathering /\ stage' \in Gathering
    BY <1>1 DEF Gather, Resolve, Search, EnrichSkipped, EnrichFails, Enrich, mergeVars, Gathering
  <2>2. stage' \in Unasked /\ stage \in Unasked /\ stage # "reported" /\ stage' # "reported"
    BY <2>1 DEF Unasked, Gathering
  <2>3. stage' \notin {"reviews", "additions", "merged"}
    BY <2>1 DEF Gathering
  <2> QED BY <2>1, <2>2, <2>3, MergeKept DEF Merging
<1>2. CASE Prompt
  <2>1. /\ UNCHANGED <<answer, i, verdict, reviewed, additions, report>>
        /\ stage \in Unasked /\ stage' = "asking" /\ stage' \in Unasked /\ stage # "reported"
        /\ answer = NoAnswer /\ i = 1 /\ verdict = General /\ reviewed = {} /\ additions = <<>>
    BY <1>2 DEF Prompt, Unasked, Gathering, Merging
  <2>2. offered' \subseteq Evidence
    <3>1. ToSet(policies) \subseteq Policies /\ ToSet(incidents) \subseteq Incidents
      BY DEF ReferenceTypes, ToSet
    <3> QED BY <1>2, <3>1 DEF Prompt, Evidence, Candidates
  <2>3. verdict' = [k \in 1..N |-> verdict'[k]] /\ \A k \in 1..N : verdict'[k] = Provisional(k)
    BY <2>1 DEF General
  <2>4. \A k \in 1..N : (verdict[k] \in VerdictsOn(k))'
    BY <2>3 DEF VerdictsOn, Provisional
  <2>5. additions' \in Seq(Accepted')
    BY <2>1
  <2> QED BY <2>1, <2>2, <2>3, <2>4, <2>5 DEF Merging, General, Provisional
<1>3. CASE Ask \/ AskFails
  <2>1. /\ UNCHANGED <<offered, i, verdict, reviewed, additions, report>>
        /\ stage = "asking" /\ stage' \in {"reviews", "raised"} /\ answer' \in Answers \cup {NoAnswer}
    BY <1>3 DEF Ask, AskFails, gatherVars, mergeVars, Merging
  <2>2. /\ i = 1 /\ stage' \notin Unasked
        /\ stage' # "reported" /\ stage' # "additions" /\ stage' # "merged"
    BY <2>1 DEF Unasked, Gathering, Merging
  <2>3. i' = 1 /\ Len(answer'.reviews) \in Nat
    BY <2>1, <2>2, AnswerAssumption DEF NoAnswer
  <2>4. Accepted' = Accepted /\ \A k \in 1..N : VerdictsOn(k)' = VerdictsOn(k)
    BY <2>1 DEF Quoted, Accepted, VerdictsOn
  <2> QED BY <2>1, <2>2, <2>3, <2>4 DEF Merging
<1> QED BY <1>1, <1>2, <1>3

\* The answer as the loop reads it.
LEMMA AnswerLists ==
    ASSUME Merging
    PROVE  /\ Len(answer.reviews) \in Nat /\ Len(answer.added) \in Nat
           /\ DOMAIN answer.reviews = 1..Len(answer.reviews)
           /\ DOMAIN answer.added = 1..Len(answer.added)
<1>1. CASE answer = NoAnswer
  BY <1>1 DEF NoAnswer
<1>2. CASE answer \in Answers
  BY <1>2, AnswerAssumption
<1> QED BY <1>1, <1>2 DEF Merging

LEMMA ReviewsMerge ==
    ASSUME Merging, Skip \/ Keep \/ Drop \/ Revise \/ ReviseRaises
    PROVE  Merging'
<1>1. /\ stage = "reviews" /\ i <= Len(answer.reviews) /\ Len(answer.reviews) \in Nat /\ i \in Nat \ {0}
      /\ UNCHANGED <<offered, answer, additions, report>>
      /\ stage' \in {"reviews", "raised"} /\ i' \in {i, i + 1}
  BY AnswerLists DEF Skip, Keep, Drop, Revise, ReviseRaises, Judge, Reading, Merging
<1>2. Accepted' = Accepted /\ \A k \in 1..N : VerdictsOn(k)' = VerdictsOn(k)
  BY <1>1 DEF Quoted, Accepted, VerdictsOn
<1>3. /\ stage' \notin Unasked /\ stage' # "reported" /\ stage' # "additions" /\ stage' # "merged"
      /\ stage # "reported"
  BY <1>1 DEF Unasked, Gathering
<1>4. i' \in Nat \ {0} /\ i' <= Len(answer'.reviews) + 1
  BY <1>1
<1>5. /\ verdict' = [k \in 1..N |-> verdict'[k]] /\ \A k \in 1..N : verdict'[k] \in VerdictsOn(k)
      /\ reviewed' \subseteq 1..N
  <2>1. CASE Skip \/ ReviseRaises
    BY <2>1 DEF Skip, ReviseRaises, Merging
  <2>2. CASE Keep \/ Drop \/ Revise
    <3> DEFINE k0 == Item.index
    <3>1. k0 \in 1..N /\ reviewed' = reviewed \cup {k0}
      BY <2>2 DEF Keep, Drop, Revise, Judge, Judges, Accepts
    <3>2. \E v \in VerdictsOn(k0) : verdict' = [verdict EXCEPT ![k0] = v]
      <4>1. CASE Keep
        BY <3>1, <4>1 DEF Keep, Judge, Merging
      <4>2. CASE Drop
        BY <4>2 DEF Drop, Judge, VerdictsOn
      <4>3. CASE Revise
        <5>1. Item.finding \in Cited
          <6>1. /\ Item # NotADict /\ Item.action = "REVISE"
                /\ Item.finding # Broken /\ Item.finding # NotADict
            BY <4>3 DEF Revise, Judges, Accepts
          <6>2. answer \in Answers /\ i \in DOMAIN answer.reviews
            BY <1>1, AnswerLists DEF Merging, NoAnswer
          <6> QED BY <6>1, <6>2, AnswerAssumption DEF Item, Parseable
        <5>2. Citations(Item.finding) \in Quoted
          BY <5>1, CitationsOffered
        <5> QED BY <4>3, <5>2 DEF Revise, Judge, VerdictsOn
      <4> QED BY <2>2, <4>1, <4>2, <4>3
    <3> HIDE DEF k0
    <3>3. PICK v \in VerdictsOn(k0) : verdict' = [verdict EXCEPT ![k0] = v]
      BY <3>2
    <3> QED BY <3>1, <3>3 DEF Merging
  <2> QED BY <2>1, <2>2
<1> QED BY <1>1, <1>2, <1>3, <1>4, <1>5 DEF Merging

LEMMA AdditionsMerge ==
    ASSUME Merging, ParseAdditions \/ Add \/ Merged
    PROVE  Merging'
<1>1. /\ UNCHANGED <<offered, answer, verdict, reviewed, report>>
      /\ stage \in {"reviews", "additions"} /\ stage' \in {"additions", "merged", "raised"}
  BY DEF ParseAdditions, Add, Merged, Reading
<1>2. /\ Accepted' = Accepted /\ AllParse' = AllParse
      /\ \A k \in 1..N : VerdictsOn(k)' = VerdictsOn(k)
  BY <1>1 DEF Quoted, Accepted, VerdictsOn, AllParse
<1>3. /\ stage' \notin Unasked /\ stage' # "reported" /\ stage' # "reviews" /\ stage # "reported"
  BY <1>1 DEF Unasked, Gathering
<1>4. i' \in Nat \ {0} /\ (stage' = "additions" => i' <= Len(answer'.added) + 1)
  BY AnswerLists DEF ParseAdditions, Add, Merged, Reading, Merging
<1>5. stage' \in {"additions", "merged"} => AllParse
  BY DEF ParseAdditions, Add, Merged, Reading, Merging
<1>6. additions' \in Seq(Accepted)
  <2>1. CASE ParseAdditions \/ Merged
    BY <2>1 DEF ParseAdditions, Merged, Merging
  <2>2. CASE Add
    <3>1. answer \in Answers /\ i \in DOMAIN answer.added /\ AllParse
      BY <2>2, AnswerLists DEF Add, Reading, Merging, NoAnswer
    <3>2. answer.added[i] \in Cited
      BY <3>1, AnswerAssumption DEF AllParse, Parseable
    <3> DEFINE cites == Citations(answer.added[i])
    <3>3. cites \in Quoted
      BY <3>2, CitationsOffered
    <3>4. \/ additions' = additions
          \/ cites # <<>> /\ additions' = Append(additions, Written(0, cites))
      BY <2>2 DEF Add
    <3> HIDE DEF cites
    <3>5. cites # <<>> => Written(0, cites) \in Accepted
      BY <3>3 DEF Accepted
    <3> QED BY <3>4, <3>5 DEF Merging
  <2> QED BY <2>1, <2>2
<1> QED BY <1>1, <1>2, <1>3, <1>4, <1>5, <1>6 DEF Merging

LEMMA ReportMerges ==
    ASSUME Merging, ReportMerged \/ NotAsked \/ FallBack
    PROVE  Merging'
<1>1. /\ UNCHANGED <<offered, answer, i, verdict, reviewed, additions>> /\ stage' = "reported"
      /\ report' \in {HighThenLow(General), HighThenLow(Surviving)}
  BY DEF ReportMerged, NotAsked, FallBack
<1>2. /\ Accepted' = Accepted /\ HighThenLow(General)' = HighThenLow(General)
      /\ HighThenLow(Surviving)' = HighThenLow(Surviving)
      /\ \A k \in 1..N : VerdictsOn(k)' = VerdictsOn(k)
  BY <1>1 DEF Quoted, Accepted, VerdictsOn, HighThenLow, General, Surviving, Confident
<1>3. stage' \notin Unasked
  BY <1>1 DEF Unasked, Gathering
<1> QED BY <1>1, <1>2, <1>3 DEF Merging

LEMMA MergeStep == Merging /\ ReferenceTypes /\ [Next]_vars => Merging'
<1> SUFFICES ASSUME Merging, ReferenceTypes, [Next]_vars PROVE Merging'
  OBVIOUS
<1>1. CASE UNCHANGED vars
  <2>1. UNCHANGED <<stage, offered, answer, i, verdict, reviewed, additions, report>>
    BY <1>1 DEF vars, mergeVars
  <2>2. /\ Accepted' = Accepted /\ AllParse' = AllParse
        /\ HighThenLow(General)' = HighThenLow(General)
        /\ HighThenLow(Surviving)' = HighThenLow(Surviving)
        /\ \A k \in 1..N : VerdictsOn(k)' = VerdictsOn(k)
    BY <2>1 DEF Quoted, Accepted, VerdictsOn, HighThenLow, General, Surviving, Confident, AllParse
  <2> QED BY <2>1, <2>2 DEF Merging, General
<1> QED BY <1>1, AskingMerges, ReviewsMerge, AdditionsMerge, ReportMerges DEF Next

\* The invariant of the merge: verdicts and additions cite what was offered only,
\* and nothing is decided before there is an answer.
THEOREM MergingAlways == Spec => []Merging
<1>1. Gathered => ReferenceTypes
  BY DEF Gathered
<1> QED BY <1>1, MergeInitially, MergeStep, GatheredAlways, PTL DEF Spec
-----------------------------------------------------------------------------
(* The report.                                                             *)

\* One list of a length holds what another does, in another order.
Permutes(list, findings, length) ==
    \E src \in [1..length -> 1..length] :
        /\ \A n \in 1..length : list[n] = findings[src[n]]
        /\ \A m, n \in 1..length : src[m] = src[n] => m = n
        /\ \A p \in 1..length : \E n \in 1..length : src[n] = p

\* High-confidence findings first: none is lost and none is told twice.
LEMMA HighThenLowPermutes ==
    ASSUME NEW S, NEW findings \in Seq(S), NEW list, list = HighThenLow(findings)
    PROVE  /\ list \in Seq(S) /\ Len(list) = Len(findings)
           /\ Permutes(list, findings, Len(findings))
<1> DEFINE high == {n \in DOMAIN findings : Confident(findings[n])}
           low == DOMAIN findings \ high
           first == Pick(findings, high)
           second == Pick(findings, low)
<1>1. /\ Len(findings) \in Nat /\ DOMAIN findings = 1..Len(findings)
      /\ high \in SUBSET DOMAIN findings /\ low \in SUBSET DOMAIN findings
      /\ high \cap low = {} /\ high \cup low = 1..Len(findings)
  OBVIOUS
<1>2. list = first \o second
  BY DEF HighThenLow
<1> HIDE DEF high, low
<1>3. Cardinality(high) + Cardinality(low) = Len(findings)
  <2>1. /\ IsFiniteSet(high) /\ Cardinality(high) \in Nat
        /\ IsFiniteSet(low) /\ Cardinality(low) \in Nat
    BY <1>1, PlacesFinite
  <2>2. Cardinality(high \cup low) = Cardinality(high) + Cardinality(low) - Cardinality(high \cap low)
    BY <2>1, FS_Union
  <2>3. Cardinality(high \cap low) = 0
    BY <1>1, FS_EmptySet
  <2>4. Cardinality(1..Len(findings)) = Len(findings)
    <3>1. 1 \in Int /\ Len(findings) \in Int
      BY <1>1
    <3>2. Cardinality(1..Len(findings)) = IF 1 > Len(findings) THEN 0 ELSE Len(findings) - 1 + 1
      BY <3>1, FS_Interval
    <3> QED BY <1>1, <3>2
  <2>5. Cardinality(high \cup low) = Len(findings)
    BY <1>1, <2>4
  <2> QED BY <2>1, <2>2, <2>3, <2>5
<1>4. /\ first \in Seq(S) /\ Len(first) = Cardinality(high)
      /\ second \in Seq(S) /\ Len(second) = Cardinality(low)
  BY <1>1, PickTakes
<1>5. PICK src1 : /\ Takes(first, findings, src1)
                  /\ \A k \in 1..Len(first) : src1[k] \in high
                  /\ \A p \in high : \E k \in 1..Len(first) : src1[k] = p
  BY <1>1, PickTakes
<1>6. PICK src2 : /\ Takes(second, findings, src2)
                  /\ \A k \in 1..Len(second) : src2[k] \in low
                  /\ \A p \in low : \E k \in 1..Len(second) : src2[k] = p
  BY <1>1, PickTakes
<1> HIDE DEF first, second
<1>7. /\ list \in Seq(S) /\ Len(list) = Len(first) + Len(second)
      /\ \A m \in 1..Len(first) : list[m] = first[m]
      /\ \A m \in 1..Len(second) : list[Len(first) + m] = second[m]
  <2> DEFINE both == first \o second
  <2>1. first \in Seq(S) /\ second \in Seq(S)
    BY <1>4
  <2>2. /\ both \in Seq(S) /\ Len(both) = Len(first) + Len(second)
        /\ \A m \in 1..Len(first) : both[m] = first[m]
        /\ \A m \in 1..Len(second) : both[Len(first) + m] = second[m]
    BY <2>1, Joined
  <2> QED BY <1>2, <2>2
<1>8. /\ Len(first) \in Nat /\ Len(second) \in Nat /\ Len(list) \in Nat
      /\ \A k \in 1..Len(first) : first[k] = findings[src1[k]] /\ src1[k] \in Int
      /\ \A k \in 1..Len(second) : second[k] = findings[src2[k]] /\ src2[k] \in Int
  <2>1. Len(first) \in Nat /\ Len(second) \in Nat /\ Len(list) \in Nat
    BY <1>4, <1>7
  <2>2. \A p \in high \cup low : p \in Int
    BY <1>1
  <2>3. \A k \in 1..Len(first) : first[k] = findings[src1[k]] /\ src1[k] \in Int
    BY <1>5, <2>2 DEF Takes
  <2>4. \A k \in 1..Len(second) : second[k] = findings[src2[k]] /\ src2[k] \in Int
    BY <1>6, <2>2 DEF Takes
  <2> QED BY <2>1, <2>3, <2>4
<1> DEFINE src == [n \in 1..Len(list) |-> IF n <= Len(first) THEN src1[n] ELSE src2[n - Len(first)]]
<1>9. /\ \A n \in 1..Len(first) : n \in 1..Len(list) /\ src[n] = src1[n]
      /\ \A n \in 1..Len(second) : Len(first) + n \in 1..Len(list) /\ src[Len(first) + n] = src2[n]
  <2>1. \A n \in 1..Len(second) : Len(first) + n - Len(first) = n /\ ~(Len(first) + n <= Len(first))
    BY <1>8
  <2> QED BY <1>7, <1>8, <2>1
<1> HIDE DEF src
<1>10. ASSUME NEW n \in 1..Len(list)
       PROVE  \/ n \in 1..Len(first)
              \/ \E k \in 1..Len(second) : n = Len(first) + k
  <2>1. CASE n <= Len(first)
    BY <1>8, <2>1
  <2>2. CASE n > Len(first)
    <3>1. n - Len(first) \in 1..Len(second) /\ n = Len(first) + (n - Len(first))
      BY <1>7, <1>8, <2>2
    <3> QED BY <3>1
  <2> QED BY <1>8, <2>1, <2>2
<1>11. \A n \in 1..Len(list) : src[n] \in 1..Len(findings) /\ list[n] = findings[src[n]]
  <2> SUFFICES ASSUME NEW n \in 1..Len(list)
               PROVE  src[n] \in high \cup low /\ list[n] = findings[src[n]]
    BY <1>1
  <2>1. CASE n \in 1..Len(first)
    BY <1>5, <1>7, <1>8, <1>9, <2>1
  <2>2. ASSUME NEW k \in 1..Len(second), n = Len(first) + k
        PROVE  src[n] \in high \cup low /\ list[n] = findings[src[n]]
    <3>1. src[n] = src2[k] /\ list[n] = second[k]
      BY <1>7, <1>9, <2>2
    <3>2. src2[k] \in low /\ second[k] = findings[src2[k]]
      BY <1>6, <1>8
    <3> QED BY <3>1, <3>2
  <2> QED BY <1>10, <2>1, <2>2
<1>12. src \in [1..Len(list) -> 1..Len(findings)]
  BY <1>11 DEF src
<1>13. \A p \in 1..Len(findings) : \E n \in 1..Len(list) : src[n] = p
  <2>1. \A p \in high : \E n \in 1..Len(list) : src[n] = p
    BY <1>5, <1>9
  <2>2. ASSUME NEW p \in low PROVE \E n \in 1..Len(list) : src[n] = p
    <3>1. PICK k \in 1..Len(second) : src2[k] = p
      BY <1>6
    <3>2. Len(first) + k \in 1..Len(list) /\ src[Len(first) + k] = src2[k]
      BY <1>9
    <3> QED BY <3>1, <3>2
  <2> QED BY <1>1, <2>1, <2>2
<1>14. ASSUME NEW m \in 1..Len(list), NEW n \in 1..Len(list), src[m] = src[n]
       PROVE  m = n
  <2>1. /\ \A j, k \in 1..Len(first) : src1[j] = src1[k] => j = k
        /\ \A j, k \in 1..Len(second) : src2[j] = src2[k] => j = k
    <3>1. /\ \A j, k \in 1..Len(first) : j < k => src1[j] < src1[k]
          /\ \A j, k \in 1..Len(second) : j < k => src2[j] < src2[k]
      BY <1>5, <1>6 DEF Takes
    <3>2. \A j, k \in 1..Len(first) : src1[j] = src1[k] => ~(j < k) /\ ~(k < j)
      BY <1>8, <3>1
    <3>3. \A j, k \in 1..Len(second) : src2[j] = src2[k] => ~(j < k) /\ ~(k < j)
      BY <1>8, <3>1
    <3> QED BY <1>8, <3>2, <3>3
  <2>2. \A j \in 1..Len(first), k \in 1..Len(second) : src1[j] # src2[k]
    BY <1>1, <1>5, <1>6
  <2>3. CASE m \in 1..Len(first) /\ n \in 1..Len(first)
    BY <1>9, <1>14, <2>1, <2>3
  <2>4. ASSUME NEW j \in 1..Len(second), m = Len(first) + j,
               NEW k \in 1..Len(second), n = Len(first) + k
        PROVE  m = n
    <3>1. src2[j] = src2[k]
      BY <1>9, <1>14, <2>4
    <3> QED BY <2>1, <2>4, <3>1
  <2>5. ASSUME m \in 1..Len(first), NEW k \in 1..Len(second), n = Len(first) + k PROVE FALSE
    BY <1>9, <1>14, <2>2, <2>5
  <2>6. ASSUME n \in 1..Len(first), NEW k \in 1..Len(second), m = Len(first) + k PROVE FALSE
    BY <1>9, <1>14, <2>2, <2>6
  <2> QED BY <1>10, <2>3, <2>4, <2>5, <2>6
<1>15. Len(list) = Len(findings)
  BY <1>3, <1>4, <1>7
<1>16. Permutes(list, findings, Len(findings))
  <2> DEFINE length == Len(list)
  <2>1. /\ src \in [1..length -> 1..length]
        /\ \A n \in 1..length : list[n] = findings[src[n]]
        /\ \A m, n \in 1..length : src[m] = src[n] => m = n
        /\ \A p \in 1..length : \E n \in 1..length : src[n] = p
    BY <1>11, <1>12, <1>13, <1>14, <1>15
  <2> HIDE DEF length
  <2>2. Permutes(list, findings, length)
    BY <2>1 DEF Permutes
  <2> QED BY <1>15, <2>2 DEF length
<1> QED BY <1>7, <1>15, <1>16

\* What a report may hold.
Sound ==
    {Provisional(k) : k \in 1..N}
        \cup {Written(k, c) : k \in 1..N, c \in Quoted} \cup Accepted

\* What survives: of each provisional finding at most one, and every addition.
LEMMA SurvivingList ==
    ASSUME Merging
    PROVE  /\ Surviving \in Seq(Sound)
           /\ \A k \in 1..N : verdict[k] # Dropped =>
                 \E n \in 1..Len(Surviving) : Surviving[n] = verdict[k]
           /\ \A n \in 1..Len(Surviving) : Surviving[n].of # 0 =>
                 \E k \in 1..N : Surviving[n] = verdict[k] /\ verdict[k] # Dropped
           /\ \A m, n \in 1..Len(Surviving) :
                 Surviving[m].of = Surviving[n].of /\ Surviving[n].of # 0 => m = n
<1> DEFINE kept == {k \in 1..N : verdict[k] # Dropped}
           first == Pick(verdict, kept)
           list == first \o additions
<1>1. /\ N \in Nat /\ verdict \in Seq(Sound \cup {Dropped}) /\ Len(verdict) = N
      /\ DOMAIN verdict = 1..N
  <2>1. N \in Nat /\ verdict = [k \in 1..N |-> verdict[k]]
    BY CountAssumption DEF Merging
  <2>2. \A k \in 1..N : verdict[k] \in Sound \cup {Dropped}
    BY DEF Merging, VerdictsOn, Sound
  <2> QED BY <2>1, <2>2
<1>2. \A k \in 1..N : /\ verdict[k] # Dropped => verdict[k].of = k /\ verdict[k] \in Sound
                      /\ k \in Int /\ k # 0
  BY DEF Merging, VerdictsOn, Sound, Provisional, Written
<1>3. additions \in Seq(Accepted) /\ additions \in Seq(Sound) /\ Len(additions) \in Nat
  <2>1. additions \in Seq(Accepted) /\ Accepted \subseteq Sound
    BY DEF Merging, Sound
  <2> QED BY <2>1, SeqWidens
<1>4. \A n \in 1..Len(additions) : additions[n].of = 0
  <2>1. \A f \in Accepted : f.of = 0
    BY DEF Accepted, Written
  <2> QED BY <1>3, <2>1
<1>5. kept \in SUBSET DOMAIN verdict /\ \A k \in kept : k \in 1..N /\ verdict[k] # Dropped
  BY <1>1
<1>6. \A k \in 1..N : verdict[k] # Dropped => k \in kept
  OBVIOUS
<1> HIDE DEF kept
<1>7. PICK src : /\ Takes(first, verdict, src)
                 /\ \A k \in 1..Len(first) : src[k] \in kept
                 /\ \A p \in kept : \E k \in 1..Len(first) : src[k] = p
  BY <1>1, <1>5, PickTakes
<1>8. first \in Seq(Sound \cup {Dropped})
  BY <1>1, <1>5, PickTakes
<1> HIDE DEF first
<1>9. /\ Len(first) \in Nat
      /\ \A k \in 1..Len(first) : /\ first[k] = verdict[src[k]] /\ src[k] \in 1..N
                                  /\ verdict[src[k]] # Dropped
                                  /\ first[k].of = src[k] /\ first[k] \in Sound
  BY <1>2, <1>5, <1>7 DEF Takes
<1>10. first \in Seq(Sound)
  BY <1>8, <1>9
<1>11. \A j, k \in 1..Len(first) : src[j] = src[k] => j = k
  <2>1. \A j, k \in 1..Len(first) : j < k => src[j] < src[k]
    BY <1>7 DEF Takes
  <2>2. \A j, k \in 1..Len(first) : src[j] = src[k] => ~(j < k) /\ ~(k < j)
    BY <1>2, <1>9, <2>1
  <2> QED BY <1>9, <2>2
<1>12. /\ list \in Seq(Sound) /\ Len(list) = Len(first) + Len(additions)
       /\ \A m \in 1..Len(first) : list[m] = first[m]
       /\ \A m \in 1..Len(additions) : list[Len(first) + m] = additions[m]
  BY <1>3, <1>10, Joined
<1>13. list = Surviving
  BY DEF Surviving, first, kept
<1> HIDE DEF list
<1>14. ASSUME NEW n \in 1..Len(list), list[n].of # 0
       PROVE  n \in 1..Len(first)
  <2> SUFFICES ASSUME n > Len(first) PROVE FALSE
    BY <1>9, <1>12
  <2>1. PICK k \in 1..Len(additions) : n = Len(first) + k
    <3>1. n - Len(first) \in 1..Len(additions) /\ n = Len(first) + (n - Len(first))
      BY <1>3, <1>9, <1>12
    <3> QED BY <3>1
  <2> QED BY <1>4, <1>12, <1>14, <2>1
<1>15. \A n \in 1..Len(first) : n \in 1..Len(list)
  BY <1>3, <1>9, <1>12
<1>16. \A k \in 1..N : verdict[k] # Dropped => \E n \in 1..Len(list) : list[n] = verdict[k]
  <2> SUFFICES ASSUME NEW k \in 1..N, verdict[k] # Dropped
               PROVE  \E n \in 1..Len(list) : list[n] = verdict[k]
    OBVIOUS
  <2>1. PICK n \in 1..Len(first) : src[n] = k
    BY <1>6, <1>7
  <2>2. n \in 1..Len(list) /\ list[n] = first[n] /\ first[n] = verdict[k]
    BY <1>9, <1>12, <1>15, <2>1
  <2> QED BY <2>2
<1>17. \A n \in 1..Len(list) : list[n].of # 0 =>
          \E k \in 1..N : list[n] = verdict[k] /\ verdict[k] # Dropped
  BY <1>9, <1>12, <1>14
<1>18. \A m, n \in 1..Len(list) : list[m].of = list[n].of /\ list[n].of # 0 => m = n
  <2> SUFFICES ASSUME NEW m \in 1..Len(list), NEW n \in 1..Len(list),
                      list[m].of = list[n].of, list[n].of # 0
               PROVE  m = n
    OBVIOUS
  <2>1. m \in 1..Len(first) /\ n \in 1..Len(first)
    BY <1>14
  <2>2. src[m] = src[n]
    BY <1>9, <1>12, <2>1
  <2> QED BY <1>11, <2>1, <2>2
<1> QED BY <1>12, <1>13, <1>16, <1>17, <1>18

LEMMA GeneralList ==
    /\ General \in Seq(Sound) /\ Len(General) = N
    /\ \A k \in 1..N : General[k] = Provisional(k)
BY CountAssumption DEF General, Sound

LEMMA SoundFindings ==
    ASSUME Merging
    PROVE  /\ Sound \subseteq Finding
           /\ \A f \in Sound : /\ Len(f.cites) <= EvidenceLimit
                               /\ \A m \in DOMAIN f.cites : f.cites[m] \in offered
                               /\ f.of = 0 => f.cites # <<>>
<1>1. N \in Nat /\ EvidenceLimit \in Nat /\ offered \subseteq Evidence
  BY CountAssumption DEF Merging
<1>2. ASSUME NEW c \in Quoted
      PROVE  /\ c \in Seq(Evidence) /\ Len(c) <= EvidenceLimit
             /\ \A m \in DOMAIN c : c[m] \in offered
  <2>1. c \in Seq(offered) /\ Len(c) <= EvidenceLimit
    BY DEF Quoted
  <2>2. c \in Seq(Evidence)
    BY <1>1, <2>1, SeqWidens
  <2> QED BY <2>1, <2>2
<1>3. ASSUME NEW k \in 1..N
      PROVE  /\ Provisional(k) \in Finding
             /\ Provisional(k).cites = <<>> /\ Provisional(k).of = k /\ k # 0
  BY <1>1 DEF Provisional, Finding
<1>4. ASSUME NEW k \in 0..N, NEW c \in Quoted
      PROVE  Written(k, c) \in Finding /\ Written(k, c).cites = c /\ Written(k, c).of = k
  BY <1>2 DEF Written, Finding
<1> SUFFICES ASSUME NEW f \in Sound
             PROVE  /\ f \in Finding
                    /\ Len(f.cites) <= EvidenceLimit
                    /\ \A m \in DOMAIN f.cites : f.cites[m] \in offered
                    /\ f.of = 0 => f.cites # <<>>
  OBVIOUS
<1>5. ASSUME NEW k \in 1..N, f = Provisional(k)
      PROVE  /\ f \in Finding
             /\ Len(f.cites) <= EvidenceLimit
             /\ \A m \in DOMAIN f.cites : f.cites[m] \in offered
             /\ f.of = 0 => f.cites # <<>>
  BY <1>1, <1>3, <1>5
<1>6. ASSUME NEW k \in 0..N, NEW c \in Quoted, f = Written(k, c), k = 0 => c # <<>>
      PROVE  /\ f \in Finding
             /\ Len(f.cites) <= EvidenceLimit
             /\ \A m \in DOMAIN f.cites : f.cites[m] \in offered
             /\ f.of = 0 => f.cites # <<>>
  BY <1>2, <1>4, <1>6
<1>7. \/ \E k \in 1..N : f = Provisional(k)
      \/ \E k \in 0..N, c \in Quoted : f = Written(k, c) /\ (k = 0 => c # <<>>)
  BY <1>1 DEF Sound, Accepted
<1> QED BY <1>5, <1>6, <1>7

LEMMA ReportIsSound == Merging => report \in Seq(Sound)
<1> SUFFICES ASSUME Merging PROVE report \in Seq(Sound)
  OBVIOUS
<1>1. HighThenLow(General) \in Seq(Sound)
  BY GeneralList, HighThenLowPermutes
<1>2. HighThenLow(Surviving) \in Seq(Sound)
  BY SurvivingList, HighThenLowPermutes
<1>3. <<>> \in Seq(Sound)
  OBVIOUS
<1> QED BY <1>1, <1>2, <1>3 DEF Merging

\* Values have their types, and the index stays with the list that is being read.
THEOREM TypeCorrect == Spec => []TypeOK
<1>1. ASSUME Merging, Gathered PROVE TypeOK
  <2>1. Sound \subseteq Finding
    BY <1>1, SoundFindings
  <2>2. report \in Seq(Finding)
    BY <1>1, <2>1, ReportIsSound, SeqWidens
  <2>3. \A k \in 1..N : verdict[k] \in Finding
    <3>1. Dropped \in Finding
      BY CountAssumption DEF Dropped, Finding
    <3>2. \A k \in 1..N : VerdictsOn(k) \subseteq Sound \cup {Dropped}
      BY DEF VerdictsOn, Sound
    <3> QED BY <1>1, <2>1, <3>1, <3>2 DEF Merging
  <2>4. verdict \in [1..N -> Finding]
    BY <1>1, <2>3 DEF Merging
  <2>5. additions \in Seq(Finding)
    <3>1. Accepted \subseteq Finding
      BY <2>1 DEF Sound
    <3> QED BY <1>1, <3>1, SeqWidens DEF Merging
  <2>6. stage \in {"profile", "search", "enrich", "gathered",
                   "asking", "reviews", "additions", "merged", "raised", "reported"}
    BY <1>1 DEF Merging, Unasked, Gathering
  <2> QED BY <1>1, <2>2, <2>4, <2>5, <2>6 DEF TypeOK, Merging, Gathered
<1> QED BY <1>1, MergingAlways, GatheredAlways, PTL

\* Every citation in the report is of evidence that was offered, within the limit.
THEOREM CitationsGrounded == Spec => []CitesOnlyOffered
<1>1. ASSUME Merging PROVE CitesOnlyOffered
  <2>1. report \in Seq(Sound)
    BY <1>1, ReportIsSound
  <2>2. \A n \in DOMAIN report : report[n] \in Sound
    BY <2>1
  <2> QED BY <1>1, <2>2, SoundFindings DEF CitesOnlyOffered
<1> QED BY <1>1, MergingAlways, PTL
-----------------------------------------------------------------------------
(* The verdicts.                                                           *)

\* What a verdict makes of the k-th provisional finding.
Follows(finding, review, k) ==
    /\ review.action = "KEEP" => finding = Provisional(k)
    /\ review.action = "DROP" => finding = Dropped
    /\ review.action = "REVISE" =>
          finding.by = "review" /\ finding.of = k /\ review.finding # Broken

\* After n reviews: who has been judged, and as the first usable verdict says.
Heard(n) == {k \in 1..N : \E m \in 1..n : Usable(answer.reviews[m], k)}

Judged(n) ==
    /\ reviewed = Heard(n)
    /\ \A k \in 1..N :
          /\ k \notin reviewed => verdict[k] = Provisional(k)
          /\ \A m \in Deciding(k) : m <= n => Follows(verdict[k], answer.reviews[m], k)

Decided ==
    /\ stage = "reviews" => Judged(i - 1)
    /\ stage \in {"additions", "merged"} => Judged(Len(answer.reviews))
    /\ stage = "raised" => Void \/ answer = NoAnswer
    /\ stage = "reported" =>
          \/ report = HighThenLow(General) /\ (Void \/ answer = NoAnswer)
          \/ report = HighThenLow(Surviving) /\ Judged(Len(answer.reviews)) /\ AllParse

LEMMA DecidedInitially == Init => Decided
BY DEF Init, GatherInit, Decided

\* A review that judges is the first usable one on its finding, and one that
\* does not judge is the first on none.
LEMMA JudgesFirst ==
    ASSUME Merging, stage = "reviews", i <= Len(answer.reviews), reviewed = Heard(i - 1)
    PROVE  /\ i \in DOMAIN answer.reviews
           /\ \A k \in 1..N : i \in Deciding(k) <=> Judges(Item) /\ Item.index = k
           /\ \A k \in 1..N : Usable(Item, k) => k \in reviewed \/ (Judges(Item) /\ Item.index = k)
           /\ Heard(i) = Heard(i - 1) \cup {k \in 1..N : Usable(Item, k)}
<1>1. /\ i \in Nat \ {0} /\ Len(answer.reviews) \in Nat /\ i \in DOMAIN answer.reviews
      /\ \A m : m \in 1..i <=> m \in 1..(i - 1) \/ m = i
  BY AnswerLists DEF Merging
<1>2. Heard(i) = Heard(i - 1) \cup {k \in 1..N : Usable(Item, k)}
  BY <1>1 DEF Heard, Item
<1>3. ASSUME NEW k \in 1..N
      PROVE  k \notin reviewed <=> \A m \in 1..(i - 1) : ~Usable(answer.reviews[m], k)
  BY DEF Heard
<1>4. ASSUME NEW k \in 1..N
      PROVE  Usable(Item, k) /\ k \notin reviewed <=> Judges(Item) /\ Item.index = k
  BY DEF Usable, Judges, Accepts
<1>5. ASSUME NEW k \in 1..N
      PROVE  i \in Deciding(k) <=> Judges(Item) /\ Item.index = k
  BY <1>1, <1>3, <1>4 DEF Deciding, Item
<1> QED BY <1>1, <1>2, <1>4, <1>5

\* At most one review is the first usable one on a finding.
LEMMA OneDecides ==
    ASSUME DOMAIN answer.reviews \subseteq Nat \ {0},
           NEW k, NEW m \in Deciding(k), NEW n \in Deciding(k)
    PROVE  m = n
<1>1. m \in Nat \ {0} /\ Usable(answer.reviews[m], k)
  BY DEF Deciding
<1>2. n \in Nat \ {0} /\ Usable(answer.reviews[n], k)
  BY DEF Deciding
<1>3. CASE m < n
  BY <1>1, <1>2, <1>3 DEF Deciding
<1>4. CASE n < m
  BY <1>1, <1>2, <1>4 DEF Deciding
<1> QED BY <1>1, <1>2, <1>3, <1>4

\* Verdicts stand as long as the answer and what was judged do.
LEMMA JudgedKept ==
    ASSUME UNCHANGED <<answer, verdict, reviewed>>
    PROVE  /\ Void' = Void /\ AllParse' = AllParse
           /\ \A n : Judged(n)' = Judged(n)
           /\ \A k : Deciding(k)' = Deciding(k)
           /\ \A n : Heard(n)' = Heard(n)
BY DEF Void, AllParse, Judged, Heard, Deciding

LEMMA JudgedNext ==
    ASSUME i \in Nat, i' = i + 1, answer' = answer, reviewed' = Heard(i),
           \A k \in 1..N :
              /\ k \notin reviewed' => verdict'[k] = Provisional(k)
              /\ \A m \in Deciding(k) : m <= i => Follows(verdict'[k], answer.reviews[m], k)
    PROVE  Judged(i - 1)'
<1>1. i' - 1 = i
  OBVIOUS
<1>2. Heard(i - 1)' = Heard(i)
  BY <1>1 DEF Heard
<1>3. \A k : Deciding(k)' = Deciding(k)
  BY DEF Deciding
<1> QED BY <1>1, <1>2, <1>3 DEF Judged, Follows, Provisional, Dropped

LEMMA AskDecides ==
    ASSUME Merging, Decided, Gather \/ Prompt \/ Ask \/ AskFails
    PROVE  Decided'
<1>1. CASE Gather \/ Prompt
  <2>1. stage' \in Unasked
    BY <1>1 DEF Gather, Prompt, Resolve, Search, EnrichSkipped, EnrichFails, Enrich, Unasked, Gathering
  <2> QED BY <2>1 DEF Decided, Unasked, Gathering
<1>2. CASE Ask
  <2>1. /\ stage' = "reviews" /\ i' = 1 /\ reviewed' = {} /\ verdict' = General
        /\ answer' \in Answers
    BY <1>2 DEF Ask, Merging, Unasked
  <2>2. DOMAIN answer'.reviews = 1..Len(answer'.reviews) /\ Len(answer'.reviews) \in Nat
    BY <2>1, AnswerAssumption
  <2>3. Heard(0)' = {}
    BY DEF Heard
  <2>4. \A k \in 1..N : verdict'[k] = Provisional(k)
    BY <2>1 DEF General
  <2>5. \A k \in 1..N : \A m \in Deciding(k)' : ~(m <= 0)
    BY <2>2 DEF Deciding
  <2>6. Judged(0)'
    BY <2>1, <2>3, <2>4, <2>5 DEF Judged, Provisional
  <2> QED BY <2>1, <2>6 DEF Decided
<1>3. CASE AskFails
  BY <1>3 DEF AskFails, mergeVars, Decided, Merging, Unasked
<1> QED BY <1>1, <1>2, <1>3

LEMMA ReviewsDecide ==
    ASSUME Merging, Decided, Skip \/ Keep \/ Drop \/ Revise \/ ReviseRaises
    PROVE  Decided'
<1>1. /\ stage = "reviews" /\ i <= Len(answer.reviews) /\ i \in Nat \ {0}
      /\ answer' = answer /\ Judged(i - 1) /\ reviewed = Heard(i - 1)
  BY DEF Skip, Keep, Drop, Revise, ReviseRaises, Judge, Reading, Merging, Decided, Judged
<1>2. /\ i \in DOMAIN answer.reviews /\ DOMAIN answer.reviews \subseteq Nat
      /\ \A k \in 1..N : i \in Deciding(k) <=> Judges(Item) /\ Item.index = k
      /\ \A k \in 1..N : Usable(Item, k) => k \in reviewed \/ (Judges(Item) /\ Item.index = k)
      /\ Heard(i) = Heard(i - 1) \cup {k \in 1..N : Usable(Item, k)}
  BY <1>1, JudgesFirst, AnswerLists
<1>3. \A k \in 1..N : \A m \in Deciding(k) : m <= i => m <= i - 1 \/ m = i
  BY <1>1, <1>2 DEF Deciding
<1>4. CASE Skip
  <2>1. /\ stage' = "reviews" /\ i' = i + 1 /\ reviewed' = reviewed /\ verdict' = verdict
        /\ ~Judges(Item)
    BY <1>1, <1>4 DEF Skip
  <2>2. Heard(i) = reviewed
    BY <1>1, <1>2, <2>1 DEF Heard
  <2>3. Judged(i)
    BY <1>1, <1>2, <1>3, <2>1, <2>2 DEF Judged
  <2>4. Judged(i - 1)'
    BY <1>1, <2>1, <2>3, JudgedNext DEF Judged
  <2> QED BY <2>1, <2>4 DEF Decided
<1>5. CASE Keep \/ Drop \/ Revise
  <2> DEFINE k0 == Item.index
  <2>1. /\ stage' = "reviews" /\ i' = i + 1 /\ reviewed' = reviewed \cup {k0}
        /\ Judges(Item) /\ k0 \in 1..N /\ k0 \notin reviewed
    BY <1>1, <1>5 DEF Keep, Drop, Revise, Judge, Judges, Accepts
  <2>2. PICK v : verdict' = [verdict EXCEPT ![k0] = v] /\ Follows(v, Item, k0)
    <3>1. CASE Keep
      <4>1. verdict[k0] = Provisional(k0)
        BY <1>1, <2>1 DEF Judged
      <4> QED BY <3>1, <4>1 DEF Keep, Judge, Follows
    <3>2. CASE Drop
      BY <3>2 DEF Drop, Judge, Follows
    <3>3. CASE Revise
      <4> DEFINE new == Written(Item.index, Citations(Item.finding))
      <4>1. /\ verdict' = [verdict EXCEPT ![k0] = new]
            /\ Item.action = "REVISE" /\ Item.finding # Broken
        BY <3>3 DEF Revise, Judge
      <4>2. new.by = "review" /\ new.of = k0
        BY DEF Written
      <4> QED BY <4>1, <4>2 DEF Follows
    <3> QED BY <1>5, <3>1, <3>2, <3>3
  <2>3. Usable(Item, k0)
    BY <2>1 DEF Usable, Judges, Accepts
  <2>4. Heard(i) = reviewed'
    <3>1. \A k \in 1..N : Usable(Item, k) => k \in reviewed \/ k = k0
      BY <1>2
    <3> QED BY <1>1, <1>2, <2>1, <2>3, <3>1 DEF Heard
  <2>5. \A k \in 1..N : k # k0 => i \notin Deciding(k)
    BY <1>2
  <2>6. \A m \in Deciding(k0) : m = i
    <3>1. i \in Deciding(k0)
      BY <1>2, <2>1
    <3>2. DOMAIN answer.reviews \subseteq Nat \ {0}
      BY AnswerLists
    <3> QED BY <3>1, <3>2, OneDecides
  <2> HIDE DEF k0
  <2>7. verdict'[k0] = v /\ \A k \in 1..N : k # k0 => verdict'[k] = verdict[k]
    BY <2>1, <2>2 DEF Merging
  <2>8. ASSUME NEW k \in 1..N
        PROVE  /\ k \notin reviewed' => verdict'[k] = Provisional(k)
               /\ \A m \in Deciding(k) : m <= i => Follows(verdict'[k], answer.reviews[m], k)
    <3>1. CASE k = k0
      BY <2>1, <2>2, <2>6, <2>7, <3>1 DEF Item
    <3>2. CASE k # k0
      BY <1>1, <1>3, <2>1, <2>5, <2>7, <3>2 DEF Judged
    <3> QED BY <3>1, <3>2
  <2>9. Judged(i - 1)'
    BY <1>1, <2>1, <2>4, <2>8, JudgedNext
  <2> QED BY <2>1, <2>9 DEF Decided
<1>6. CASE ReviseRaises
  <2>1. stage' = "raised" /\ UNCHANGED <<answer, verdict, reviewed>>
    BY <1>6 DEF ReviseRaises
  <2>2. Judges(Item) /\ Item.action = "REVISE" /\ Item.finding = Broken /\ Item.index \in 1..N
    BY <1>6 DEF ReviseRaises, Judges, Accepts
  <2>3. i \in Deciding(Item.index)
    BY <1>2, <2>2
  <2>4. Void
    BY <1>2, <2>2, <2>3 DEF Void, Item
  <2> QED BY <2>1, <2>4, JudgedKept DEF Decided
<1> QED BY <1>4, <1>5, <1>6

LEMMA AdditionsDecide ==
    ASSUME Merging, Decided, ParseAdditions \/ Add \/ Merged
    PROVE  Decided'
<1>1. UNCHANGED <<answer, verdict, reviewed>>
  BY DEF ParseAdditions, Add, Merged
<1>2. Judged(Len(answer.reviews))
  <2>1. CASE ParseAdditions
    <3>1. stage = "reviews" /\ i - 1 = Len(answer.reviews)
      BY <2>1, AnswerLists DEF ParseAdditions, Merging
    <3> QED BY <3>1 DEF Decided
  <2>2. CASE Add \/ Merged
    BY <2>2 DEF Add, Merged, Reading, Decided
  <2> QED BY <2>1, <2>2
<1>3. Judged(Len(answer.reviews))'
  BY <1>1, <1>2, JudgedKept
<1>4. stage' \in {"additions", "merged"} \/ (stage' = "raised" /\ ~AllParse)
  BY DEF ParseAdditions, Add, Merged, Reading
<1>5. ~AllParse => Void'
  BY <1>1, JudgedKept DEF Void
<1> QED BY <1>3, <1>4, <1>5 DEF Decided

LEMMA ReportDecides ==
    ASSUME Merging, Decided, ReportMerged \/ NotAsked \/ FallBack
    PROVE  Decided'
<1>1. UNCHANGED <<answer, verdict, reviewed, additions>> /\ stage' = "reported"
  BY DEF ReportMerged, NotAsked, FallBack
<1>2. /\ HighThenLow(General)' = HighThenLow(General)
      /\ HighThenLow(Surviving)' = HighThenLow(Surviving)
  BY <1>1 DEF HighThenLow, General, Surviving, Confident
<1>3. CASE ReportMerged
  <2>1. /\ report' = HighThenLow(Surviving) /\ AllParse /\ Judged(Len(answer.reviews))
    BY <1>3 DEF ReportMerged, Merging, Decided
  <2>2. AllParse' /\ Judged(Len(answer.reviews))'
    BY <1>1, <2>1, JudgedKept
  <2> QED BY <1>1, <1>2, <2>1, <2>2 DEF Decided
<1>4. CASE NotAsked \/ FallBack
  <2>1. report' = HighThenLow(General) /\ (Void \/ answer = NoAnswer)
    BY <1>4 DEF NotAsked, FallBack, Decided, Merging, Unasked, Gathering
  <2>2. Void' \/ answer' = NoAnswer
    BY <1>1, <2>1, JudgedKept
  <2> QED BY <1>1, <1>2, <2>1, <2>2 DEF Decided, NoAnswer
<1> QED BY <1>3, <1>4

LEMMA DecidedStep == Merging /\ Decided /\ [Next]_vars => Decided'
<1> SUFFICES ASSUME Merging, Decided, [Next]_vars PROVE Decided'
  OBVIOUS
<1>1. CASE UNCHANGED vars
  <2>1. UNCHANGED <<stage, answer, i, verdict, reviewed, additions, report>>
    BY <1>1 DEF vars, mergeVars
  <2>2. /\ HighThenLow(General)' = HighThenLow(General)
        /\ HighThenLow(Surviving)' = HighThenLow(Surviving)
    BY <2>1 DEF HighThenLow, General, Surviving, Confident
  <2>3. /\ Void' = Void /\ AllParse' = AllParse /\ Judged(i - 1)' = Judged(i - 1)
        /\ Judged(Len(answer.reviews))' = Judged(Len(answer.reviews))
    BY <2>1 DEF Void, AllParse, Judged, Heard, Deciding
  <2> QED BY <2>1, <2>2, <2>3 DEF Decided, NoAnswer
<1> QED BY <1>1, AskDecides, ReviewsDecide, AdditionsDecide, ReportDecides DEF Next

\* The invariant of the loop: what has been read so far decides, each finding by
\* its first usable verdict; only a void answer, or none, raises.
THEOREM DecidedAlways == Spec => []Decided
<1> QED BY DecidedInitially, DecidedStep, MergingAlways, PTL DEF Spec
-----------------------------------------------------------------------------
(* What the answer means for the report.                                   *)

\* A report that fell back holds every provisional finding, once.
LEMMA FallenBack ==
    ASSUME report = HighThenLow(General)
    PROVE  /\ Len(report) = N /\ DOMAIN report = 1..N
           /\ \A k \in 1..N : \E n \in 1..N : report[n] = Provisional(k)
           /\ \A n \in 1..N : \E k \in 1..N : report[n] = Provisional(k)
           /\ \A k \in 1..N, m, n \in 1..N :
                 report[m] = Provisional(k) /\ report[n] = Provisional(k) => m = n
<1>1. /\ N \in Nat /\ General \in Seq(Sound) /\ Len(General) = N
      /\ \A k \in 1..N : General[k] = Provisional(k)
  BY CountAssumption, GeneralList
<1>2. report \in Seq(Sound) /\ Len(report) = N /\ Permutes(report, General, N)
  BY <1>1, HighThenLowPermutes
<1>3. PICK src \in [1..N -> 1..N] :
         /\ \A n \in 1..N : report[n] = General[src[n]]
         /\ \A m, n \in 1..N : src[m] = src[n] => m = n
         /\ \A p \in 1..N : \E n \in 1..N : src[n] = p
  BY <1>2 DEF Permutes
<1>4. \A n \in 1..N : src[n] \in 1..N /\ report[n] = Provisional(src[n])
  BY <1>1, <1>3
<1>5. \A j, k \in 1..N : Provisional(j) = Provisional(k) => j = k
  BY DEF Provisional
<1>6. \A k \in 1..N : \E n \in 1..N : report[n] = Provisional(k)
  BY <1>3, <1>4
<1>7. ASSUME NEW k \in 1..N, NEW m \in 1..N, NEW n \in 1..N,
             report[m] = Provisional(k), report[n] = Provisional(k)
      PROVE  m = n
  <2>1. src[m] = k /\ src[n] = k
    BY <1>4, <1>5, <1>7
  <2> QED BY <1>3, <2>1
<1>8. DOMAIN report = 1..N
  BY <1>2
<1> QED BY <1>2, <1>4, <1>6, <1>7, <1>8

\* When every verdict has been read and can be carried out, the answer is not void.
LEMMA NotVoid ==
    ASSUME Merging, Judged(Len(answer.reviews)), AllParse
    PROVE  ~Void
<1> SUFFICES ASSUME NEW k \in 1..N, NEW n \in DOMAIN answer.reviews, n \in Deciding(k),
                    answer.reviews[n].action = "REVISE", answer.reviews[n].finding = Broken
             PROVE  FALSE
  BY DEF Void
<1>1. n <= Len(answer.reviews)
  BY AnswerLists
<1> QED BY <1>1 DEF Judged, Follows

\* A void answer changes nothing.
THEOREM VoidIsDropped == Spec => []VoidChangesNothing
<1>1. ASSUME Merging, Decided PROVE VoidChangesNothing
  <2> SUFFICES ASSUME stage = "reported", Void
               PROVE  /\ Len(report) = N
                      /\ \A k \in 1..N : \E n \in DOMAIN report : report[n] = Provisional(k)
    BY DEF VoidChangesNothing
  <2>1. report = HighThenLow(General)
    BY <1>1, NotVoid DEF Decided
  <2> QED BY <2>1, FallenBack
<1> QED BY <1>1, MergingAlways, DecidedAlways, PTL

\* The first usable verdict on a finding, if any, decides it.
LEMMA VerdictDecided ==
    ASSUME Merging, Judged(Len(answer.reviews)), NEW k \in 1..N
    PROVE  /\ \A m \in Deciding(k) : Follows(verdict[k], answer.reviews[m], k)
           /\ \A m \in Deciding(k) : answer.reviews[m].action \in Actions
           /\ Deciding(k) = {} => verdict[k] = Provisional(k)
<1> DEFINE heard == {m \in 1..Len(answer.reviews) : Usable(answer.reviews[m], k)}
<1>1. Len(answer.reviews) \in Nat /\ DOMAIN answer.reviews = 1..Len(answer.reviews)
  BY AnswerLists
<1>2. \A m \in Deciding(k) : m <= Len(answer.reviews) /\ Usable(answer.reviews[m], k)
  BY <1>1 DEF Deciding
<1>3. ASSUME heard # {} PROVE Deciding(k) # {}
  <2>1. heard \in SUBSET (1..Len(answer.reviews))
    OBVIOUS
  <2> HIDE DEF heard
  <2>2. PICK m \in heard : \A n \in heard : m <= n
    BY <1>1, <1>3, <2>1, FirstPlace
  <2>3. \A n \in 1..(m - 1) : n \in 1..Len(answer.reviews) /\ ~(m <= n)
    BY <1>1, <2>1
  <2>4. \A n \in 1..(m - 1) : ~Usable(answer.reviews[n], k)
    BY <2>2, <2>3 DEF heard
  <2>5. m \in DOMAIN answer.reviews /\ Usable(answer.reviews[m], k)
    BY <1>1, <2>2 DEF heard
  <2>6. m \in Deciding(k)
    BY <2>4, <2>5 DEF Deciding
  <2> QED BY <2>6
<1>4. Deciding(k) = {} => k \notin reviewed
  BY <1>3 DEF Judged, Heard
<1> QED BY <1>2, <1>4 DEF Judged, Usable

\* A report of what survives says of each finding what its verdict says.
LEMMA ReportFollows ==
    ASSUME Merging, report = HighThenLow(Surviving)
    PROVE  /\ \A k \in 1..N : verdict[k] # Dropped => \E n \in DOMAIN report : report[n] = verdict[k]
           /\ \A k \in 1..N, n \in DOMAIN report : report[n].of = k =>
                 verdict[k] # Dropped /\ report[n] = verdict[k]
           /\ \A k \in 1..N, m, n \in DOMAIN report :
                 report[m].of = k /\ report[n].of = k => m = n
<1> DEFINE list == Surviving
<1>1. /\ list \in Seq(Sound)
      /\ \A k \in 1..N : verdict[k] # Dropped => \E n \in 1..Len(list) : list[n] = verdict[k]
      /\ \A n \in 1..Len(list) : list[n].of # 0 =>
            \E k \in 1..N : list[n] = verdict[k] /\ verdict[k] # Dropped
      /\ \A m, n \in 1..Len(list) : list[m].of = list[n].of /\ list[n].of # 0 => m = n
  BY SurvivingList
<1> HIDE DEF list
<1>2. report \in Seq(Sound) /\ Len(report) = Len(list) /\ Permutes(report, list, Len(list))
  BY <1>1, HighThenLowPermutes DEF list
<1>3. DOMAIN report = 1..Len(list)
  BY <1>2
<1>4. PICK src \in [1..Len(list) -> 1..Len(list)] :
         /\ \A n \in 1..Len(list) : report[n] = list[src[n]]
         /\ \A m, n \in 1..Len(list) : src[m] = src[n] => m = n
         /\ \A p \in 1..Len(list) : \E n \in 1..Len(list) : src[n] = p
  BY <1>2 DEF Permutes
<1>5. \A k \in 1..N : k # 0 /\ (verdict[k] # Dropped => verdict[k].of = k)
  BY DEF Merging, VerdictsOn, Provisional, Written
<1>6. ASSUME NEW k \in 1..N, verdict[k] # Dropped
      PROVE  \E n \in DOMAIN report : report[n] = verdict[k]
  <2>1. PICK p \in 1..Len(list) : list[p] = verdict[k]
    BY <1>1, <1>6
  <2>2. PICK n \in 1..Len(list) : src[n] = p
    BY <1>4
  <2>3. report[n] = list[src[n]] /\ n \in DOMAIN report
    BY <1>3, <1>4
  <2> QED BY <2>1, <2>2, <2>3
<1>7. ASSUME NEW k \in 1..N, NEW n \in DOMAIN report, report[n].of = k
      PROVE  verdict[k] # Dropped /\ report[n] = verdict[k]
  <2>1. src[n] \in 1..Len(list) /\ list[src[n]] = report[n] /\ list[src[n]].of # 0
    BY <1>3, <1>4, <1>5, <1>7
  <2>2. PICK j \in 1..N : report[n] = verdict[j] /\ verdict[j] # Dropped
    BY <1>1, <2>1
  <2>3. j = k
    BY <1>5, <1>7, <2>2
  <2> QED BY <2>2, <2>3
<1>8. ASSUME NEW k \in 1..N, NEW m \in DOMAIN report, NEW n \in DOMAIN report,
             report[m].of = k, report[n].of = k
      PROVE  m = n
  <2>1. /\ src[m] \in 1..Len(list) /\ list[src[m]].of = k
        /\ src[n] \in 1..Len(list) /\ list[src[n]].of = k
    BY <1>3, <1>4, <1>8
  <2>2. src[m] = src[n]
    BY <1>1, <1>5, <2>1
  <2> QED BY <1>3, <1>4, <2>2
<1> QED BY <1>6, <1>7, <1>8

\* The first usable verdict on each finding decides what the report says of it.
THEOREM FirstVerdictWins == Spec => []FirstVerdictDecides
<1>1. ASSUME Merging, Decided PROVE FirstVerdictDecides
  <2> SUFFICES ASSUME stage = "reported", ~Void, NEW k \in 1..N
               PROVE  /\ Kept(k) => \E n \in DOMAIN report : report[n] = Provisional(k)
                      /\ Revised(k) => \E n \in OfReport(k) : report[n].by = "review"
                      /\ ~Kept(k) /\ ~Revised(k) => OfReport(k) = {}
                      /\ \A m, n \in OfReport(k) : m = n
    BY DEF FirstVerdictDecides
  <2>1. CASE report = HighThenLow(General) /\ answer = NoAnswer
    <3>1. Deciding(k) = {}
      BY <2>1 DEF Deciding, NoAnswer
    <3>2. Kept(k) /\ ~Revised(k)
      BY <3>1 DEF Kept, Revised
    <3>3. /\ DOMAIN report = 1..N
          /\ \A j \in 1..N : \E n \in 1..N : report[n] = Provisional(j)
          /\ \A n \in 1..N : \E j \in 1..N : report[n] = Provisional(j)
          /\ \A j \in 1..N, m, n \in 1..N :
                report[m] = Provisional(j) /\ report[n] = Provisional(j) => m = n
      BY <2>1, FallenBack
    <3>4. \A n \in OfReport(k) : n \in 1..N /\ report[n] = Provisional(k)
      BY <3>3 DEF OfReport, Provisional
    <3> QED BY <3>2, <3>3, <3>4
  <2>2. CASE report = HighThenLow(Surviving) /\ Judged(Len(answer.reviews))
    <3>1. /\ \A m \in Deciding(k) : Follows(verdict[k], answer.reviews[m], k)
          /\ \A m \in Deciding(k) : answer.reviews[m].action \in Actions
          /\ Deciding(k) = {} => verdict[k] = Provisional(k)
      BY <1>1, <2>2, VerdictDecided
    <3>2. /\ verdict[k] # Dropped => \E n \in DOMAIN report : report[n] = verdict[k]
          /\ \A n \in DOMAIN report : report[n].of = k =>
                verdict[k] # Dropped /\ report[n] = verdict[k]
          /\ \A m, n \in DOMAIN report : report[m].of = k /\ report[n].of = k => m = n
      BY <1>1, <2>2, ReportFollows
    <3>3. Provisional(k) # Dropped /\ Dropped.by # "review"
      BY DEF Provisional, Dropped
    <3>4. Kept(k) => verdict[k] = Provisional(k)
      BY <3>1 DEF Kept, Follows
    <3>5. Revised(k) => verdict[k].by = "review" /\ verdict[k].of = k
      BY <3>1 DEF Revised, Follows
    <3>6. ~Kept(k) /\ ~Revised(k) => verdict[k] = Dropped
      BY <3>1 DEF Kept, Revised, Follows, Actions
    <3> QED BY <3>2, <3>3, <3>4, <3>5, <3>6 DEF OfReport
  <2> QED BY <1>1, <2>1, <2>2 DEF Decided
<1> QED BY <1>1, MergingAlways, DecidedAlways, PTL
=============================================================================
