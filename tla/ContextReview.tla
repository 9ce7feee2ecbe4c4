---------------------------- MODULE ContextReview ----------------------------
(***************************************************************************)
(* The context review: how the model's answer about the provisional        *)
(* findings and the reference candidates becomes the report (analyzer.py,  *)
(* _merge_context_review; analysis_worker.py, the reference stage).  The   *)
(* candidates are gathered as in ReferenceContext, whose actions run first. *)
(*                                                                         *)
(* The answer is JSON that nobody validates: items of the wrong shape,     *)
(* indexes that do not exist, several verdicts on one finding, citations   *)
(* of evidence that was never offered.  Some shapes are skipped, others    *)
(* raise half-way through the merge; the worker then reports the           *)
(* provisional findings as they were.  One iteration of a loop is a step.  *)
(***************************************************************************)
EXTENDS ReferenceContext

CONSTANTS
    N,              \* number of provisional findings
    High,           \* those scored at or above RECHECK_THRESHOLD
    EvidenceLimit,  \* evidences kept per finding (3 in the code)
    Invented,       \* evidence that the model may cite and nobody offered
    Answers,        \* answers of the model
    Broken,         \* a finding whose parsing raises (evidences no list of objects)
    NotADict        \* an item of the wrong shape

ASSUME CountAssumption == N \in Nat /\ High \subseteq 1..N /\ EvidenceLimit \in Nat

\* What _request_json has parsed: two lists, whose items may be anything.  Items
\* that are objects are records here, evidences that are lists of objects lists.
Cited == Seq(Policies \cup Incidents \cup Invented)
Parseable(finding) == finding \in {Broken, NotADict} \/ finding \in Cited

ASSUME AnswerAssumption ==
    \A given \in Answers :
        /\ given.reviews = [n \in 1..Len(given.reviews) |-> given.reviews[n]]
        /\ given.added = [n \in 1..Len(given.added) |-> given.added[n]]
        /\ {Len(given.reviews), Len(given.added)} \subseteq Nat
        /\ \A n \in DOMAIN given.reviews :
              given.reviews[n] # NotADict /\ given.reviews[n].action = "REVISE"
                  => Parseable(given.reviews[n].finding)
        /\ \A n \in DOMAIN given.added : Parseable(given.added[n])

VARIABLES
    offered,     \* evidence keys of the policies and incidents in the prompt
    answer,      \* the answer: its reviews and its new findings
    i,           \* next item of the list that is being read
    verdict,     \* per provisional finding: itself, a replacement, or dropped
    reviewed,    \* reviewed_indexes
    additions,   \* new findings accepted so far
    report       \* the findings handed to complete, in order

\* "stage" goes on with "reviews", "additions", "merged", "raised", "reported".
mergeVars == <<offered, answer, i, verdict, reviewed, additions, report>>
vars == <<stage, gatherVars, mergeVars>>
-----------------------------------------------------------------------------
Evidence == Policies \cup Incidents
Actions == {"KEEP", "REVISE", "DROP"}
NoAnswer == [reviews |-> <<>>, added |-> <<>>]

\* A finding is the number of the provisional one it goes back to (0 if none)
\* and, when the review wrote it, what it cites.
Provisional(k) == [of |-> k, by |-> "general", cites |-> <<>>]
Written(k, cites) == [of |-> k, by |-> "review", cites |-> cites]
Dropped == [of |-> 0, by |-> "nobody", cites |-> <<>>]

\* Mutant: the whitelist is applied before the list is cut, and not at all
\* to a list that is short enough.
CitationsUnchecked(cites) ==
    IF Len(cites) <= EvidenceLimit THEN cites
    ELSE Pick(cites, {n \in DOMAIN cites : cites[n] \in offered})

\* _parse cuts the list, _with_whitelisted_evidence drops what was not offered.
Citations(cites) ==
    LET kept == Cut(cites, EvidenceLimit) IN
    Pick(kept, {n \in DOMAIN kept : kept[n] \in offered})

Init ==
    /\ GatherInit
    /\ offered = {}
    /\ answer = NoAnswer
    /\ i = 1
    /\ verdict = [k \in 1..N |-> Provisional(k)]
    /\ reviewed = {}
    /\ additions = <<>>
    /\ report = <<>>

Gather == (Resolve \/ Search \/ EnrichSkipped \/ EnrichFails \/ Enrich) /\ UNCHANGED mergeVars
-----------------------------------------------------------------------------
(* The worker's gate and the request.  Only what was offered matters from  *)
(* here on: the lists, which nothing reads again, go back to empty.        *)

Candidates == ToSet(policies) \cup ToSet(incidents)

ListsDone == named' = <<>> /\ score' = NoScore /\ near' = <<>> /\ policies' = <<>> /\ incidents' = <<>>

Prompt ==
    /\ stage = "gathered"
    /\ N > 0 /\ Candidates # {}
    /\ offered' = Candidates
    /\ stage' = "asking"
    /\ ListsDone
    /\ UNCHANGED <<answer, i, verdict, reviewed, additions, report>>

Ask ==
    /\ stage = "asking"
    /\ answer' \in Answers
    /\ stage' = "reviews"
    /\ UNCHANGED <<gatherVars, offered, i, verdict, reviewed, additions, report>>

\* The request for the review raises, or its reply is not JSON.
AskFails ==
    /\ stage = "asking"
    /\ stage' = "raised"
    /\ UNCHANGED <<gatherVars, mergeVars>>
-----------------------------------------------------------------------------
(* The loop over raw["reviews"].                                           *)

Reading(list, where) == stage = where /\ i <= Len(list)
Item == answer.reviews[i]

\* Mutant: a finding may be judged again.
AcceptsAgain(review) ==
    /\ review # NotADict
    /\ review.index \in 1..N
    /\ review.action \in Actions

Accepts(review) ==
    /\ review # NotADict
    /\ review.index \in 1..N \ reviewed
    /\ review.action \in Actions

\* Whether the item says something that can be carried out.
Judges(review) ==
    Accepts(review) /\ (review.action = "REVISE" => review.finding # NotADict)

Skip ==
    /\ Reading(answer.reviews, "reviews")
    /\ ~Judges(Item)
    /\ i' = i + 1
    /\ UNCHANGED <<stage, gatherVars, offered, answer, verdict, reviewed, additions, report>>

Judge(outcome) ==
    /\ verdict' = [verdict EXCEPT ![Item.index] = outcome]
    /\ reviewed' = reviewed \cup {Item.index}
    /\ i' = i + 1
    /\ UNCHANGED <<stage, gatherVars, offered, answer, additions, report>>

Keep ==
    /\ Reading(answer.reviews, "reviews")
    /\ Judges(Item) /\ Item.action = "KEEP"
    /\ Judge(verdict[Item.index])

Drop ==
    /\ Reading(answer.reviews, "reviews")
    /\ Judges(Item) /\ Item.action = "DROP"
    /\ Judge(Dropped)

Revise ==
    /\ Reading(answer.reviews, "reviews")
    /\ Judges(Item) /\ Item.action = "REVISE" /\ Item.finding # Broken
    /\ Judge(Written(Item.index, Citations(Item.finding)))

\* The parse of a replacement raises, and with it the whole merge.
ReviseRaises ==
    /\ Reading(answer.reviews, "reviews")
    /\ Judges(Item) /\ Item.action = "REVISE" /\ Item.finding = Broken
    /\ stage' = "raised"
    /\ UNCHANGED <<gatherVars, offered, answer, i, verdict, reviewed, additions, report>>
-----------------------------------------------------------------------------
(* raw["new_findings"]: parsed as a whole, then filtered one by one.       *)

AllParse == \A k \in DOMAIN answer.added : answer.added[k] \notin {Broken, NotADict}

\* Mutant: the index is not reset between the two lists.
ParseAdditionsInPlace ==
    /\ stage = "reviews" /\ i > Len(answer.reviews)
    /\ stage' = IF AllParse THEN "additions" ELSE "raised"
    /\ UNCHANGED <<gatherVars, offered, answer, i, verdict, reviewed, additions, report>>

ParseAdditions ==
    /\ stage = "reviews" /\ i > Len(answer.reviews)
    /\ stage' = IF AllParse THEN "additions" ELSE "raised"
    /\ i' = 1
    /\ UNCHANGED <<gatherVars, offered, answer, verdict, reviewed, additions, report>>

Add ==
    /\ Reading(answer.added, "additions")
    /\ LET cites == Citations(answer.added[i]) IN
          additions' = IF cites = <<>> THEN additions
                       ELSE Append(additions, Written(0, cites))
    /\ i' = i + 1
    /\ UNCHANGED <<stage, gatherVars, offered, answer, verdict, reviewed, report>>

Merged ==
    /\ stage = "additions" /\ i > Len(answer.added)
    /\ stage' = "merged"
    /\ UNCHANGED <<gatherVars, offered, answer, i, verdict, reviewed, additions, report>>
-----------------------------------------------------------------------------
(* The worker: high-confidence findings first, then the others.  Only the  *)
(* provisional findings are scored; what the review wrote scores nothing.  *)

General == [k \in 1..N |-> Provisional(k)]
Confident(f) == f.by = "general" /\ f.of \in High

HighThenLow(findings) ==
    LET high == {n \in DOMAIN findings : Confident(findings[n])} IN
    Pick(findings, high) \o Pick(findings, DOMAIN findings \ high)

Surviving == Pick(verdict, {k \in 1..N : verdict[k] # Dropped}) \o additions

ReportMerged ==
    /\ stage = "merged"
    /\ report' = HighThenLow(Surviving)
    /\ stage' = "reported"
    /\ UNCHANGED <<gatherVars, offered, answer, i, verdict, reviewed, additions>>

\* Mutant: the merge works on the worker's own list.
FallBackPartly ==
    /\ stage = "raised"
    /\ report' = HighThenLow(Surviving)
    /\ stage' = "reported"
    /\ UNCHANGED <<gatherVars, offered, answer, i, verdict, reviewed, additions>>

\* Nothing to review, or nothing to review it against.
NotAsked ==
    /\ stage = "gathered"
    /\ N = 0 \/ Candidates = {}
    /\ report' = HighThenLow(General)
    /\ stage' = "reported"
    /\ ListsDone
    /\ UNCHANGED <<offered, answer, i, verdict, reviewed, additions>>

\* The handler of the reference stage swallows the exception.
FallBack ==
    /\ stage = "raised"
    /\ report' = HighThenLow(General)
    /\ stage' = "reported"
    /\ UNCHANGED <<gatherVars, offered, answer, i, verdict, reviewed, additions>>

Next ==
    \/ Gather \/ Prompt \/ Ask \/ AskFails \/ NotAsked
    \/ Skip \/ Keep \/ Drop \/ Revise \/ ReviseRaises
    \/ ParseAdditions \/ Add \/ Merged
    \/ ReportMerged \/ FallBack

Spec == Init /\ [][Next]_vars
-----------------------------------------------------------------------------
(* Properties.                                                             *)

Finding == [of : 0..N, by : {"general", "review", "nobody"}, cites : Seq(Evidence)]

\* Type invariant: values have their types, and the index stays with the list
\* that is being read.
TypeOK ==
    /\ ReferenceTypes
    /\ offered \subseteq Evidence
    /\ i \in Nat \ {0}
    /\ stage = "reviews" => i <= Len(answer.reviews) + 1
    /\ stage = "additions" => i <= Len(answer.added) + 1
    /\ verdict \in [1..N -> Finding]
    /\ reviewed \subseteq 1..N
    /\ additions \in Seq(Finding)
    /\ stage \in {"profile", "search", "enrich", "gathered",
                  "asking", "reviews", "additions", "merged", "raised", "reported"}
    /\ report \in Seq(Finding)

\* What an answer means, stated without the loop: the first usable verdict on
\* a finding decides, a finding nobody judges stays, and one item that cannot
\* be parsed makes the whole answer void.
Usable(review, k) ==
    /\ review # NotADict
    /\ review.index = k
    /\ review.action \in Actions
    /\ review.action = "REVISE" => review.finding # NotADict

Deciding(k) ==
    {n \in DOMAIN answer.reviews :
        /\ Usable(answer.reviews[n], k)
        /\ \A m \in 1..(n - 1) : ~Usable(answer.reviews[m], k)}

Void ==
    \/ ~AllParse
    \/ \E k \in 1..N, n \in DOMAIN answer.reviews :
          /\ n \in Deciding(k)
          /\ answer.reviews[n].action = "REVISE"
          /\ answer.reviews[n].finding = Broken

Kept(k) == \A n \in Deciding(k) : answer.reviews[n].action = "KEEP"
Revised(k) == \E n \in Deciding(k) : answer.reviews[n].action = "REVISE"

OfReport(k) == {n \in DOMAIN report : report[n].of = k}

\* The first usable verdict on each finding decides what the report says of it,
\* whatever else the answer holds: a finding without a verdict is never lost,
\* none is reported twice, and a later contradiction changes nothing.
FirstVerdictDecides ==
    stage = "reported" /\ ~Void =>
        \A k \in 1..N :
            /\ Kept(k) => \E n \in DOMAIN report : report[n] = Provisional(k)
            /\ Revised(k) => \E n \in OfReport(k) : report[n].by = "review"
            /\ ~Kept(k) /\ ~Revised(k) => OfReport(k) = {}
            /\ \A m, n \in OfReport(k) : m = n

\* A void answer changes nothing: all or nothing of a review reaches the report.
VoidChangesNothing ==
    stage = "reported" /\ Void =>
        /\ Len(report) = N
        /\ \A k \in 1..N : \E n \in DOMAIN report : report[n] = Provisional(k)

\* Every citation in the report is of evidence that was offered, within the
\* limit; an addition cites at least one.
CitesOnlyOffered ==
    \A n \in DOMAIN report :
        /\ Len(report[n].cites) <= EvidenceLimit
        /\ \A m \in DOMAIN report[n].cites : report[n].cites[m] \in offered
        /\ report[n].of = 0 => report[n].cites # <<>>
==============================================================================
