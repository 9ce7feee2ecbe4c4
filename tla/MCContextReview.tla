--------------------------- MODULE MCContextReview ---------------------------
(***************************************************************************)
(* Instances of ContextReview for TLC: a catalogue of four policies, one   *)
(* inactive, and four incidents, two of them about one article; answers of *)
(* up to three reviews of two findings and one addition, well-formed or    *)
(* not.                                                                    *)
(***************************************************************************)
EXTENDS ContextReview

CONSTANTS MaxReviews, MaxAdded, fraud, hate, policy, requests, gone, early, incident, late, again, made_up

Codes == <<fraud, hate, policy, requests>>
Rows == <<late, again, incident, early>>
OnArticle == [x \in {late, again, incident, early} |-> IF x = again THEN early ELSE x]

\* What the rules of a profile name: maybe one twice, one out of use or gone.
RuleNames == {hate, requests, gone}
Named == SeqOf(RuleNames, 2)

\* The confident one comes second, so that the order of the report matters.
SecondHigh == {2}

\* Citations of a parsed finding; the second list is longer than the limit.
Cites == {<<policy>>, <<incident, made_up>>}
Parsed == Cites \cup {Broken, NotADict}
Replacements == {<<incident, policy>>, Broken, NotADict}

\* Index 0 stands for every index that is negative, too large or no integer.
Review == [index : 1..N, action : {"KEEP", "DROP"}, finding : {NotADict}]
              \cup [index : 1..N, action : {"REVISE"}, finding : Replacements]
              \cup {[index |-> 0, action |-> "DROP", finding |-> NotADict],
                    [index |-> 1, action |-> "OTHER", finding |-> NotADict],
                    NotADict}

AllAnswers == [reviews : BoundedSeq(Review, MaxReviews),
               added : BoundedSeq(Parsed, MaxAdded)]
==============================================================================
