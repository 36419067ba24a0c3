--------------------------- MODULE GraphRetriever ---------------------------
(***************************************************************************)
(* RdfGraphRetriever.retrieve: breadth-first search over the visible       *)
(* statements, from the root the intent resolver chose, cut off at         *)
(* MAX_DEPTH; then one RetrievedMember, with its statements, for each      *)
(* resource met.                                                           *)
(*                                                                         *)
(* The search is one loop of one thread.  It is modelled one neighbour at  *)
(* a time; the neighbours of a node are taken in any order, which covers   *)
(* the sorted order of the code.                                           *)
(***************************************************************************)
EXTENDS DatasetStore, Sequences, FiniteSets

CONSTANTS
    MaxDepth,   \* query_plan.MAX_DEPTH
    Datasets    \* the datasets considered

\* A dataset is finite: it is parsed from files.
ASSUME RetrieverAssumption ==
    /\ MaxDepth \in Nat
    /\ Datasets \subseteq SUBSET Quad
    /\ \A D \in Datasets : IsFiniteSet(D)

VARIABLES
    dataset,    \* the loaded dataset: never written after start-up
    purpose,    \* resolved purpose of the request
    scopes,     \* allowed_scopes of the authenticated principal
    root,       \* assessment.root
    visited,    \* the set `visited` of the code
    queue,      \* the deque `q`: <<node, depth>>
    current,    \* the entry popped last
    pending,    \* neighbours of current the for loop has still to look at
    members,    \* the answer: a function from resources to their statements
    pc,         \* "pop", "scan" or "done"
    level       \* history: the depth at which a resource was first met

inputs == <<dataset, purpose, scopes, root>>
vars == <<inputs, visited, queue, current, pending, members, pc, level>>

Allowed == AllowedGraphs(purpose, scopes)

NeighborsOf(n) == Neighbors(dataset, Allowed, n)

-----------------------------------------------------------------------------
Init ==
    /\ dataset \in Datasets
    /\ purpose \in Purpose
    /\ scopes \in Scopes
    /\ root \in Roots(dataset, AllowedGraphs(purpose, scopes))
    /\ visited = {root}
    /\ queue = <<<<root, 0>>>>
    /\ current = <<root, 0>>
    /\ pending = {}
    /\ members = NoMembers
    /\ pc = "pop"
    /\ level = [n \in Node |-> 0]

\* Faulty variants of Pop: off by one below and above the cut-off, and an entry
\* read without being removed.
PopCutAt(depth, rest) ==
    /\ pc = "pop"
    /\ queue # <<>>
    /\ current' = Head(queue)
    /\ queue' = rest
    /\ IF Head(queue)[2] >= depth
       THEN pc' = "pop" /\ pending' = {}
       ELSE pc' = "scan" /\ pending' = NeighborsOf(Head(queue)[1])
    /\ UNCHANGED <<inputs, visited, members, level>>

PopTooShallow == PopCutAt(MaxDepth - 1, Tail(queue))
PopTooDeep == PopCutAt(MaxDepth + 1, Tail(queue))
PopPeeking == PopCutAt(MaxDepth, queue)

\* popleft, and `continue` for a node at the cut-off depth.
Pop ==
    /\ pc = "pop"
    /\ queue # <<>>
    /\ current' = Head(queue)
    /\ queue' = Tail(queue)
    /\ IF Head(queue)[2] >= MaxDepth
       THEN pc' = "pop" /\ pending' = {}
       ELSE pc' = "scan" /\ pending' = NeighborsOf(Head(queue)[1])
    /\ UNCHANGED <<inputs, visited, members, level>>

\* Faulty variants of Visit: the deque used as a stack, and the depth of the
\* parent given to the child.
VisitInFront(nb) ==
    /\ nb \notin visited
    /\ visited' = visited \cup {nb}
    /\ queue' = <<<<nb, current[2] + 1>>>> \o queue
    /\ level' = [level EXCEPT ![nb] = current[2] + 1]

VisitSameDepth(nb) ==
    /\ nb \notin visited
    /\ visited' = visited \cup {nb}
    /\ queue' = Append(queue, <<nb, current[2]>>)
    /\ level' = [level EXCEPT ![nb] = current[2]]

\* `if nb not in visited`: one turn of the inner loop, for a new neighbour
\* and for one met before.
Visit(nb) ==
    /\ nb \notin visited
    /\ visited' = visited \cup {nb}
    /\ queue' = Append(queue, <<nb, current[2] + 1>>)
    /\ level' = [level EXCEPT ![nb] = current[2] + 1]

Revisit(nb) ==
    /\ nb \in visited
    /\ UNCHANGED <<visited, queue, level>>

Scan(nb) ==
    /\ pc = "scan"
    /\ pending' = pending \ {nb}
    /\ Visit(nb) \/ Revisit(nb)
    /\ UNCHANGED <<inputs, current, members, pc>>

EndScan ==
    /\ pc = "scan"
    /\ pending = {}
    /\ pc' = "pop"
    /\ UNCHANGED <<inputs, visited, queue, current, pending, members, level>>

Collect ==
    /\ pc = "pop"
    /\ queue = <<>>
    /\ members' = [n \in visited |-> Slices(dataset, Allowed, n)]
    /\ pc' = "done"
    /\ UNCHANGED <<inputs, visited, queue, current, pending, level>>

\* The request is over.
Done == pc = "done" /\ UNCHANGED vars

Next ==
    \/ Pop
    \/ \E nb \in pending : Scan(nb)
    \/ EndScan
    \/ Collect
    \/ Done

Spec == Init /\ [][Next]_vars

\* The handler runs to completion in its worker thread: nothing it waits for.
FairSpec == Spec /\ WF_vars(Pop \/ (\E nb \in pending : Scan(nb)) \/ EndScan \/ Collect)

-----------------------------------------------------------------------------
TypeOK ==
    /\ dataset \in Datasets
    /\ purpose \in Purpose
    /\ scopes \in Scopes
    /\ root \in Node
    /\ visited \in SUBSET Node
    /\ queue \in Seq(Node \X Nat)
    /\ current \in Node \X Nat
    /\ pending \in SUBSET Node
    /\ pc \in {"pop", "scan", "done"}
    /\ level \in [Node -> Nat]
    /\ pc # "done" => members = NoMembers

\* The deque and the entry in hand hold resources met at the depth they carry,
\* each at most once; depths in the deque never decrease and span one level
\* at most.
QueueInv ==
    /\ current[1] \in visited
    /\ level[current[1]] = current[2]
    /\ \A i \in 1..Len(queue) :
          /\ queue[i][1] \in visited
          /\ level[queue[i][1]] = queue[i][2]
          /\ current[2] <= queue[i][2]
          /\ queue[i][2] <= current[2] + 1
    /\ \A i, j \in 1..Len(queue) :
          i < j => queue[i][2] <= queue[j][2] /\ queue[i][1] # queue[j][1]

\* Nothing has been met beyond the level under expansion.
LevelInv ==
    /\ root \in visited
    /\ level[root] = 0
    /\ \A n \in visited : level[n] <= current[2] + 1
    /\ \A n \in visited : level[n] <= MaxDepth
    /\ pc = "scan" => current[2] < MaxDepth

Queued(n) == \E i \in 1..Len(queue) : queue[i][1] = n

\* The neighbour m of n has been met, at most one level further out.
MetFrom(n, m) == m \in visited /\ level[m] <= level[n] + 1

\* A resource that has left the deque is fully expanded, unless it is the one
\* being scanned, whose neighbours are then met or still pending.
ExpandInv ==
    /\ \A n \in visited :
          \/ Queued(n)
          \/ level[n] = MaxDepth
          \/ pc = "scan" /\ n = current[1]
          \/ \A m \in NeighborsOf(n) : MetFrom(n, m)
    /\ pc = "scan" =>
          /\ pending \subseteq NeighborsOf(current[1])
          /\ \A m \in NeighborsOf(current[1]) \ pending : MetFrom(current[1], m)
    /\ pc = "done" => queue = <<>>

\* Every resource met is reachable by a visible walk as long as its level.
ReachInv ==
    \A n \in visited : ReachableIn(dataset, Allowed, root, level[n], n)

\* What the members hold is what the store showed of the visited resources.
MembersInv ==
    pc = "done" => members = [n \in visited |-> Slices(dataset, Allowed, n)]

RootInv == root \in Roots(dataset, Allowed)

\* The inductive invariant of the search.
IInv ==
    /\ TypeOK
    /\ QueueInv
    /\ LevelInv
    /\ ExpandInv
    /\ ReachInv
    /\ MembersInv
    /\ RootInv

-----------------------------------------------------------------------------
\* The search is exact: the answer holds every resource within MAX_DEPTH edges
\* of the root and no other, whatever the order of the neighbours.  A search
\* that is not breadth-first meets a resource by a longer way first and loses
\* what lies behind it (rdflib_graph_retriever.retrieve).
ExactAnswer ==
    pc = "done" => DOMAIN members = Ball(dataset, Allowed, root, MaxDepth)

\* No restricted resource is ever walked to, and none is named by either end
\* of a statement handed on, in whichever partition it is also described
\* (RdfDatasetStore._ok, applied by neighbors, member_statements and
\* subject_statements).
NothingRestricted ==
    LET hidden == RestrictedNodes(dataset) IN
    /\ visited \cap hidden = {}
    /\ \A n \in DOMAIN members :
          \A q \in members[n].subject \cup members[n].incident :
             q.s \notin hidden /\ q.o \notin hidden /\ q.g \notin RestrictedGraph

\* The scopes of a principal only narrow: the same request with unlimited
\* scopes would have met every resource met here
\* (AdmissionPolicy.allowed_graphs, C3).
ScopesOnlyNarrow ==
    visited \subseteq
        Ball(dataset, AllowedGraphs(purpose, Unlimited), root, MaxDepth)

\* Levels are expanded in order: the depth in hand never goes back.
BreadthFirst == [][current'[2] >= current[2]]_vars

\* The search ends: no cycle of the graph keeps it going.
Terminates == <>(pc = "done")

\* The search implements the abstract retrieval: one answer, of the whole ball
\* and with all the statements that are visible of each member.
Abstract == INSTANCE Retrieval WITH answer <- members
Implements == Abstract!Spec
=============================================================================
