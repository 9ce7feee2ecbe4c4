--------------------------- MODULE ReferenceContext ---------------------------
(***************************************************************************)
(* The reference candidates of one analysis: the policies a user's profile *)
(* asks for and those whose keywords match (resolver.py, context.py), the  *)
(* incidents whose keywords match and those an embedding is near to        *)
(* (vector.py), and how the worker merges the lists (analysis_worker.py).  *)
(*                                                                         *)
(* Every list is cut, some before they are merged and all after, so what   *)
(* the limits push out depends on the order of the parts.  What a text     *)
(* matches is a score of its policies and incidents; what it is near to is *)
(* any short list of incidents.                                            *)
(***************************************************************************)
EXTENDS Naturals, Sequences, SequencesExt

CONSTANTS
    Catalogue,      \* policies, in the order of their codes
    Inactive,       \* those a search leaves out
    RuleCodes,      \* policy codes that rules name, also ones no policy has
    Profiles,       \* what the rules of a profile name, one rule after another
    Index,          \* active incidents, latest year first, then by title
    Page,           \* the article an incident points to (source_url)
    MaxScore,       \* bound of a match score
    ProfileLimit,   \* 3 in the code
    PolicyLimit,    \* 6
    KeywordLimit,   \* 3
    VectorLimit,    \* 3
    ContextLimit    \* 5

Policies == ToSet(Catalogue)
Incidents == ToSet(Index)

ASSUME LimitAssumption ==
    /\ {ProfileLimit, PolicyLimit, KeywordLimit, VectorLimit, ContextLimit, MaxScore} \subseteq Nat
    /\ ProfileLimit <= PolicyLimit
    /\ KeywordLimit <= ContextLimit /\ VectorLimit <= ContextLimit
ASSUME RowsAreDistinct ==
    /\ Catalogue \in Seq(Policies) /\ Index \in Seq(Incidents)
    /\ IsInjective(Catalogue \o Index) /\ Inactive \subseteq Policies
ASSUME ProfileAssumption == Profiles \subseteq Seq(RuleCodes)

VARIABLES
    stage,      \* "profile", "search", "enrich", "gathered"; ContextReview goes on
    named,      \* policies the rules of the profile name
    score,      \* how well each policy and incident matches
    near,       \* incidents the vector search found, the nearest first
    policies,   \* policy candidates
    incidents   \* incident candidates

gatherVars == <<named, score, near, policies, incidents>>
-----------------------------------------------------------------------------
Cut(list, limit) == SubSeq(list, 1, IF Len(list) < limit THEN Len(list) ELSE limit)

\* A list keeps some of its places, in order.  A place or a row is the k-th by
\* how many come before it, which says the same as a loop and can be proved about.
Rank(places, p) == Cardinality({q \in places : q < p})
Nth(places, k) == CHOOSE p \in places : Rank(places, p) = k - 1

Pick(list, places) == [k \in 1..Cardinality(places) |-> list[Nth(places, k)]]

\* Where each key comes first (dict.fromkeys, setdefault, a set of keys).
Firsts(list, key) ==
    {n \in DOMAIN list : \A m \in 1..(n - 1) : key[list[m]] # key[list[n]]}

Itself(list) == [x \in ToSet(list) |-> x]

NoScore == [x \in Policies \cup Incidents |-> 0]

Position ==
    [x \in Policies \cup Incidents |->
        CHOOSE n \in DOMAIN (Catalogue \o Index) : (Catalogue \o Index)[n] = x]

\* The sort keys: best score first, then the order of the rows.
Outranks(matches, x, y) ==
    \/ matches[x] > matches[y]
    \/ matches[x] = matches[y] /\ Position[x] < Position[y]

Hits(rows, matches) == {x \in rows : matches[x] > 0}
Better(rows, matches, x) == {y \in Hits(rows, matches) : Outranks(matches, y, x)}

\* What matches among the rows, the best first.
Ranked(rows, matches) ==
    [k \in 1..Cardinality(Hits(rows, matches)) |->
        CHOOSE x \in Hits(rows, matches) : Cardinality(Better(rows, matches, x)) = k - 1]

\* Mutant: the two lists are cut together before their duplicates go.
CutTogether(preferred, matched) ==
    LET list == Cut(preferred \o matched, PolicyLimit) IN
    Pick(list, Firsts(list, Itself(list)))

MergePolicies(preferred, matched) ==
    LET list == preferred \o matched IN
    Cut(Pick(list, Firsts(list, Itself(list))), PolicyLimit)

\* Mutant: keyword results come first.
KeywordsFirst(keyword, found) ==
    LET list == keyword \o found IN Cut(Pick(list, Firsts(list, Page)), ContextLimit)

MergeIncidents(keyword, found) ==
    LET list == found \o keyword IN Cut(Pick(list, Firsts(list, Page)), ContextLimit)
-----------------------------------------------------------------------------
GatherInit ==
    /\ stage = "profile"
    /\ named = <<>>
    /\ score = NoScore
    /\ near = <<>>
    /\ policies = <<>>
    /\ incidents = <<>>

\* The policies that are asked for, each once; a code of none takes no place.
Asked(codes) ==
    Cut(Pick(codes, {n \in Firsts(codes, Itself(codes)) : codes[n] \in Policies}), ProfileLimit)

\* Before the general analysis: a user without a profile names nothing.
Resolve ==
    /\ stage = "profile"
    /\ named' \in Profiles
    /\ policies' = Asked(named')
    /\ stage' = "search"
    /\ UNCHANGED <<score, near, incidents>>

\* The keyword search, and the merge with what the profile asked for.  A text
\* without a usable token matches nothing.
Search ==
    /\ stage = "search"
    /\ score' \in [Policies \cup Incidents -> 0..MaxScore]
    /\ policies' = MergePolicies(policies, Cut(Ranked(Policies \ Inactive, score'), PolicyLimit))
    /\ incidents' = Cut(Ranked(Incidents, score'), KeywordLimit)
    /\ stage' = "enrich"
    /\ UNCHANGED <<named, near>>

\* Nothing to embed, or a database without the vector extension or its columns.
EnrichSkipped ==
    /\ stage = "enrich"
    /\ stage' = "gathered"
    /\ UNCHANGED gatherVars

\* The handler inside enrich_incident_context: no embedding, or no search.
EnrichFails ==
    /\ stage = "enrich"
    /\ incidents' = MergeIncidents(incidents, <<>>)
    /\ stage' = "gathered"
    /\ UNCHANGED <<named, score, near, policies>>

Found == {list \in SeqOf(Incidents, VectorLimit) : IsInjective(list)}

Enrich ==
    /\ stage = "enrich"
    /\ near' \in Found
    /\ incidents' = MergeIncidents(incidents, near')
    /\ stage' = "gathered"
    /\ UNCHANGED <<named, score, policies>>
-----------------------------------------------------------------------------
(* Properties: what is offered, said without the lists and their order.    *)

ReferenceTypes ==
    /\ named \in Seq(RuleCodes)
    /\ score \in [Policies \cup Incidents -> 0..MaxScore]
    /\ near \in Found
    /\ policies \in Seq(Policies) /\ Len(policies) <= PolicyLimit
    /\ incidents \in Seq(Incidents) /\ Len(incidents) <= ContextLimit

\* The policies the profile's rules name first, as many as it may ask for.
NamedBefore(p, q) ==
    \E m \in DOMAIN named : named[m] = p /\ \A n \in 1..m : named[n] # q

AskedFor ==
    LET exist == ToSet(named) \cap Policies IN
    {p \in exist : Cardinality({q \in exist : NamedBefore(q, p)}) < ProfileLimit}

Matching == Hits(Policies \ Inactive, score)

\* What the profile asks for is always offered, whatever matches better; what
\* else is offered are the best matches; no place is left empty while a match
\* waits, and no policy takes two places (_merge_policy_context).
ProfileThenBestMatches ==
    stage = "gathered" =>
        LET offers == ToSet(policies) IN
        /\ AskedFor \subseteq offers
        /\ offers \subseteq AskedFor \cup Matching
        /\ \A p \in offers \ AskedFor, q \in Matching \ offers : Outranks(score, p, q)
        /\ Matching \subseteq offers \/ Len(policies) = PolicyLimit
        /\ Cardinality(offers) = Len(policies)

\* The incidents the keyword search yields.
ByWords ==
    {x \in Hits(Incidents, score) : Cardinality(Better(Incidents, score, x)) < KeywordLimit}

Articles(rows) == {Page[x] : x \in rows}

\* No article near to the text is lost to one that only shares words with it;
\* an article found by words is lost only when the list is full, and then the
\* better matches stay; a vector search that finds nothing, or fails, costs
\* none (merge_incident_context).
NearestArticlesKept ==
    stage = "gathered" =>
        LET offers == ToSet(incidents) IN
        /\ Articles(ToSet(near)) \subseteq Articles(offers)
        /\ offers \subseteq ToSet(near) \cup ByWords
        /\ \A x \in ByWords : Page[x] \notin Articles(offers) =>
              /\ near # <<>>
              /\ Len(incidents) = ContextLimit
              /\ \A y \in offers \ ToSet(near) : Outranks(score, y, x)
=============================================================================
