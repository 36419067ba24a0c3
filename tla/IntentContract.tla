--------------------------- MODULE IntentContract --------------------------
(***************************************************************************)
(* What GramIntentResolver.resolve promises, without the order of its      *)
(* gates, its sorting, its preference boost and its tie check on the first *)
(* two of a list: a query is refused, or its best candidate is the root,   *)
(* or the equally good best ones are all named.                            *)
(***************************************************************************)
CONSTANTS
    Subjects(_),        \* the resources an index names
    Candidates(_, _),   \* those with evidence for a query
    Best(_, _),         \* those with the most
    Answerable(_, _)    \* the query passes every gate

VARIABLES
    index, query,   \* inputs: the visible statements and the query
    outcome,        \* "pending", "refused", "ambiguous" or "root"
    told,           \* the candidates an error names, the alternatives of an answer
    chosen          \* {root}, {} until there is one

Init == outcome = "pending" /\ told = {} /\ chosen = {}

Refuse ==
    /\ ~ Answerable(index, query)
    /\ outcome' = "refused"
    /\ chosen' = {}
    /\ told' \subseteq Subjects(index)

Disambiguate ==
    /\ Answerable(index, query)
    /\ \E m, n \in Best(index, query) : m # n
    /\ outcome' = "ambiguous"
    /\ told' = Best(index, query)
    /\ chosen' = {}

Answer ==
    /\ Answerable(index, query)
    /\ \E n \in Best(index, query) : Best(index, query) = {n} /\ chosen' = {n}
    /\ outcome' = "root"
    /\ told' \subseteq Candidates(index, query) \ chosen'

Next ==
    /\ outcome = "pending"
    /\ Refuse \/ Disambiguate \/ Answer
    /\ UNCHANGED <<index, query>>

Spec == Init /\ [][Next]_<<index, query, outcome, told, chosen>>
=============================================================================
