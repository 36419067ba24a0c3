----------------------------- MODULE Retrieval ------------------------------
(***************************************************************************)
(* What RdfGraphRetriever.retrieve promises its caller, without saying how *)
(* the graph is walked: the answer is every resource at most MaxDepth      *)
(* visible traversal edges away from the root, each with all that is       *)
(* visible of it, delivered once.                                          *)
(***************************************************************************)
EXTENDS DatasetStore

CONSTANTS
    MaxDepth,     \* query_plan.MAX_DEPTH
    Datasets      \* the datasets considered

VARIABLES
    dataset,      \* the loaded dataset
    purpose,      \* the purpose of the request
    scopes,       \* the allowed_scopes of the principal
    root,         \* the root the intent resolver chose
    answer        \* the retrieved members, none until they are delivered

inputs == <<dataset, purpose, scopes, root>>

Init ==
    /\ dataset \in Datasets
    /\ purpose \in Purpose
    /\ scopes \in Scopes
    /\ root \in Roots(dataset, AllowedGraphs(purpose, scopes))
    /\ answer = NoMembers

Deliver ==
    /\ answer = NoMembers
    /\ answer' = Retrieved(dataset, AllowedGraphs(purpose, scopes), root, MaxDepth)
    /\ UNCHANGED inputs

Spec == Init /\ [][Deliver]_<<inputs, answer>>
=============================================================================
