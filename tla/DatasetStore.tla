---------------------------- MODULE DatasetStore ----------------------------
(***************************************************************************)
(* The in-memory RDF dataset and the two gates every read goes through:    *)
(* AdmissionPolicy.allowed_graphs, which turns a purpose and the scopes of *)
(* a principal into a list of partitions, and RdfDatasetStore, which reads *)
(* only registered partitions of that list and hides each statement that   *)
(* touches a restricted node.                                              *)
(*                                                                         *)
(* A dataset is a set of quads.  The store is immutable once loaded, so    *)
(* every operator takes the dataset as a parameter.                        *)
(***************************************************************************)
EXTENDS Naturals

CONSTANTS
    Node,            \* URI resources
    Literal,         \* literal objects: never a neighbour
    Graph,           \* partitions (named graphs)
    Predicate,
    Traversal,       \* predicates of query_plan.TRAVERSAL
    Naming,          \* displayName, scopeDescription, objectId
    Registered,      \* partitions the registry graph lists
    RestrictedGraph, \* the sensitive partitions
    Purpose,
    PurposeAllowed,  \* _DEFAULT_PURPOSE_ALLOWED: purpose -> set of partitions
    Unlimited        \* the scopes of a principal that is not narrowed (None)

\* What the deployment fixes: literals are not resources and the purpose table
\* names partitions.
ASSUME StoreAssumption ==
    /\ Node \cap Literal = {}
    /\ Traversal \subseteq Predicate
    /\ Naming \subseteq Predicate
    /\ PurposeAllowed \in [Purpose -> SUBSET Graph]

Quad == [s : Node, p : Predicate, o : Node \cup Literal, g : Graph]

Scopes == (SUBSET Graph) \cup {Unlimited}

-----------------------------------------------------------------------------
\* Faulty variant: the scopes are taken as the list instead of cutting it.
AllowedGraphsTrustingScopes(purpose, scopes) ==
    IF scopes = Unlimited
    THEN {g \in PurposeAllowed[purpose] : g \in Registered /\ g \notin RestrictedGraph}
    ELSE {g \in scopes : g \in Registered /\ g \notin RestrictedGraph}

(* AdmissionPolicy.allowed_graphs for a known purpose (an unknown one is    *)
(* refused with a ValueError before anything is read).                      *)
AllowedGraphs(purpose, scopes) ==
    LET base == {g \in PurposeAllowed[purpose] :
                    g \in Registered /\ g \notin RestrictedGraph}
    IN  IF scopes = Unlimited THEN base ELSE base \cap scopes

-----------------------------------------------------------------------------
(* RdfDatasetStore.  _compute_restricted: every resource that is a subject *)
(* of a restricted partition is hidden wherever else it occurs.            *)
RestrictedNodes(D) == {q.s : q \in {r \in D : r.g \in RestrictedGraph}}

\* Faulty variant: only the subject is looked at.
OkSubjectOnly(D, s, o) == s \notin RestrictedNodes(D)

\* _ok: neither end of the statement is restricted.
Ok(D, s, o) == s \notin RestrictedNodes(D) /\ o \notin RestrictedNodes(D)

\* statements_in: the visible statements of the allowed, registered partitions.
StatementsIn(D, allowed) ==
    {q \in D : q.g \in allowed \cap Registered /\ Ok(D, q.s, q.o)}

\* subject_statements: the member's own fields.
SubjectStatements(D, allowed, n) == {q \in StatementsIn(D, allowed) : q.s = n}

\* member_statements: what says something of the member, in both directions.
MemberStatements(D, allowed, n) ==
    {q \in StatementsIn(D, allowed) : q.s = n \/ q.o = n}

\* neighbors: both directions over the traversal predicates, resources only.
Neighbors(D, allowed, n) ==
    LET edges == {q \in StatementsIn(D, allowed) :
                    q.p \in Traversal /\ q.o \in Node}
    IN  {q.o : q \in {e \in edges : e.s = n}}
          \cup {q.s : q \in {e \in edges : e.o = n}}

\* The resources the intent resolver can choose as a root: the subjects of the
\* visible naming statements it indexes (GramIntentResolver._index).
Roots(D, allowed) == {q.s : q \in {r \in StatementsIn(D, allowed) : r.p \in Naming}}

-----------------------------------------------------------------------------
(* Reference notion of distance: w is a walk of k visible traversal edges   *)
(* from root to n.                                                          *)
Walk(D, allowed, root, w, k, n) ==
    /\ w \in [0..k -> Node]
    /\ w[0] = root
    /\ w[k] = n
    /\ \A i \in 0..(k - 1) : w[i + 1] \in Neighbors(D, allowed, w[i])

ReachableIn(D, allowed, root, k, n) ==
    \E w \in [0..k -> Node] : Walk(D, allowed, root, w, k, n)

\* Everything at most depth edges away from the root.
Ball(D, allowed, root, depth) ==
    {n \in Node : \E k \in 0..depth : ReachableIn(D, allowed, root, k, n)}

-----------------------------------------------------------------------------
(* RetrievedMember: what is known of a resource, in the two views from      *)
(* which its fields and its relations are built.                            *)
Slices(D, allowed, n) ==
    [subject  |-> SubjectStatements(D, allowed, n),
     incident |-> MemberStatements(D, allowed, n)]

\* The answer of the retriever, and what stands for it before it is given.
Retrieved(D, allowed, root, depth) ==
    [n \in Ball(D, allowed, root, depth) |-> Slices(D, allowed, n)]

NoMembers == [n \in {} |-> {}]
=============================================================================
