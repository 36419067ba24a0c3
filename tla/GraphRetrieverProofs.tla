------------------------ MODULE GraphRetrieverProofs ------------------------
(***************************************************************************)
(* The search of GraphRetriever is exact, leaks nothing restricted, is     *)
(* breadth-first, implements Retrieval and does a bounded amount of work,  *)
(* for every dataset, purpose table and cut-off depth.                     *)
(***************************************************************************)
EXTENDS GraphRetriever, TLAPS, WellFoundedInduction, SequenceTheorems, FiniteSetTheorems

-----------------------------------------------------------------------------
(* Facts about the store.                                                  *)

\* Induction over the naturals, for a set rather than a predicate.
LEMMA SetInduction ==
  ASSUME NEW S \in SUBSET Nat, 0 \in S, \A n \in S : n + 1 \in S
  PROVE  S = Nat
<1>1. SUFFICES ASSUME Nat \ S # {} PROVE FALSE
  OBVIOUS
<1> DEFINE R == OpToRel(<, Nat)
<1>2. IsWellFoundedOn(R, Nat)
  BY NatLessThanWellFounded
<1>3. PICK x \in Nat \ S : \A y \in Nat \ S : ~ (<<y, x>> \in R)
  <2> HIDE DEF R
  <2> QED  BY <1>1, <1>2, WFMin
<1>4. x # 0 /\ x - 1 \in Nat /\ x - 1 < x
  <2> HIDE DEF R
  <2> QED  BY <1>3
<1>5. <<x - 1, x>> \in R
  BY <1>4 DEF OpToRel
<1> HIDE DEF R
<1>6. x - 1 \in S
  BY <1>3, <1>4, <1>5
<1> QED  BY <1>3, <1>4, <1>6

\* Scopes only take partitions away (AdmissionPolicy.allowed_graphs).
LEMMA ScopesNarrow ==
  \A p, s : AllowedGraphs(p, s) \subseteq AllowedGraphs(p, Unlimited)
BY DEF AllowedGraphs

\* No purpose and no scopes open a restricted partition.
LEMMA AllowedNotRestricted ==
  \A p, s : AllowedGraphs(p, s) \cap RestrictedGraph = {}
BY DEF AllowedGraphs

LEMMA NeighborsType ==
  ASSUME NEW D \in SUBSET Quad, NEW A, NEW n
  PROVE  Neighbors(D, A, n) \subseteq Node
BY DEF Neighbors, StatementsIn, Quad

\* A neighbour is never restricted: the store hides the statement.
LEMMA NeighborsVisible ==
  ASSUME NEW D, NEW A, NEW n
  PROVE  Neighbors(D, A, n) \cap RestrictedNodes(D) = {}
BY DEF Neighbors, StatementsIn, Ok

LEMMA RootsVisible ==
  ASSUME NEW D \in SUBSET Quad, NEW A
  PROVE  /\ Roots(D, A) \subseteq Node
         /\ Roots(D, A) \cap RestrictedNodes(D) = {}
BY DEF Roots, StatementsIn, Ok, Quad

LEMMA NeighborsMonotone ==
  ASSUME NEW D, NEW A, NEW B, A \subseteq B, NEW n
  PROVE  Neighbors(D, A, n) \subseteq Neighbors(D, B, n)
BY DEF Neighbors, StatementsIn

\* Widening the partitions can only lengthen the reach.
LEMMA ReachMonotone ==
  ASSUME NEW D, NEW A, NEW B, A \subseteq B,
         NEW r, NEW k \in Nat, NEW n, ReachableIn(D, A, r, k, n)
  PROVE  ReachableIn(D, B, r, k, n)
BY NeighborsMonotone DEF ReachableIn, Walk

\* The root is reached by the walk of no edge.
LEMMA WalkStart ==
  ASSUME NEW D, NEW A, NEW r \in Node
  PROVE  ReachableIn(D, A, r, 0, r)
<1> DEFINE w == [i \in 0..0 |-> r]
<1>1. w \in [0..0 -> Node] /\ Walk(D, A, r, w, 0, r)
  BY DEF Walk
<1> QED  BY <1>1 DEF ReachableIn

\* A walk is extended by an edge.
LEMMA WalkExtends ==
  ASSUME NEW D, NEW A, NEW r, NEW k \in Nat, NEW n, NEW m \in Node,
         ReachableIn(D, A, r, k, n), m \in Neighbors(D, A, n)
  PROVE  ReachableIn(D, A, r, k + 1, m)
<1>1. PICK w \in [0..k -> Node] : Walk(D, A, r, w, k, n)
  BY DEF ReachableIn
<1> DEFINE v == [i \in 0..(k + 1) |-> IF i <= k THEN w[i] ELSE m]
<1>2. v \in [0..(k + 1) -> Node]
  OBVIOUS
<1>3. v[0] = r /\ v[k + 1] = m
  BY <1>1 DEF Walk
<1>4. ASSUME NEW i \in 0..((k + 1) - 1)
      PROVE  v[i + 1] \in Neighbors(D, A, v[i])
  <2>1. CASE i < k
    BY <2>1, <1>1 DEF Walk
  <2>2. CASE i = k
    BY <2>2, <1>1 DEF Walk
  <2> QED  BY <2>1, <2>2
<1> HIDE DEF v
<1> QED  BY <1>2, <1>3, <1>4 DEF ReachableIn, Walk

\* A set that holds the root at level 0 and, with a resource below the cut-off,
\* its neighbours at most one level further out, holds the ball.
LEMMA ClosedHoldsBall ==
  ASSUME NEW D, NEW A, NEW r, NEW V, NEW lev, NEW depth \in Nat,
         \A n \in V : lev[n] \in Nat,
         r \in V, lev[r] = 0,
         \A n \in V : lev[n] < depth =>
            \A m \in Neighbors(D, A, n) : m \in V /\ lev[m] <= lev[n] + 1
  PROVE  Ball(D, A, r, depth) \subseteq V
<1> SUFFICES ASSUME NEW n \in Node, NEW k \in 0..depth, NEW w \in [0..k -> Node],
                    Walk(D, A, r, w, k, n)
             PROVE  n \in V
  BY DEF Ball, ReachableIn
<1> DEFINE S == {i \in Nat : i <= k => w[i] \in V /\ lev[w[i]] <= i}
<1>1. 0 \in S
  BY DEF Walk
<1>2. ASSUME NEW i \in S PROVE i + 1 \in S
  <2>1. SUFFICES ASSUME i + 1 <= k
                 PROVE  w[i + 1] \in V /\ lev[w[i + 1]] <= i + 1
    OBVIOUS
  <2>2. i \in Nat /\ w[i] \in V /\ lev[w[i]] <= i
    BY <2>1
  <2>3. lev[w[i]] < depth
    BY <2>1, <2>2
  <2>4. w[i + 1] \in Neighbors(D, A, w[i])
    BY <2>1, <2>2 DEF Walk
  <2>5. w[i + 1] \in V /\ lev[w[i + 1]] <= lev[w[i]] + 1
    BY <2>2, <2>3, <2>4
  <2>6. lev[w[i]] \in Nat /\ lev[w[i + 1]] \in Nat
    BY <2>2, <2>5
  <2> QED  BY <2>2, <2>5, <2>6
<1>3. k \in S
  <2>1. S \in SUBSET Nat
    OBVIOUS
  <2>2. \A i \in S : i + 1 \in S
    BY <1>2
  <2> HIDE DEF S
  <2>3. S = Nat
    BY ONLY <2>1, <1>1, <2>2, SetInduction
  <2> QED  BY <2>3
<1>4. w[k] \in V
  BY <1>3
<1> QED  BY <1>4 DEF Walk

-----------------------------------------------------------------------------
(* The inductive invariant, one lemma per action.                          *)

\* What never changes, and what the neighbours of a resource look like.
LEMMA Inputs ==
  ASSUME TypeOK
  PROVE  /\ dataset \in SUBSET Quad
         /\ \A n : NeighborsOf(n) \subseteq Node
         /\ \A n : NeighborsOf(n) \cap RestrictedNodes(dataset) = {}
BY RetrieverAssumption, NeighborsType, NeighborsVisible DEF TypeOK, NeighborsOf

LEMMA InitIInv == Init => IInv
<1> SUFFICES ASSUME Init PROVE IInv
  OBVIOUS
<1> USE DEF Init
<1>1. dataset \in SUBSET Quad /\ root \in Node
  BY RetrieverAssumption, RootsVisible
<1>2. TypeOK
  BY <1>1 DEF TypeOK
<1>3. Len(queue) = 1 /\ queue[1] = <<root, 0>>
  OBVIOUS
<1>4. QueueInv
  BY <1>1, <1>3 DEF QueueInv
<1>5. LevelInv
  BY <1>1, RetrieverAssumption DEF LevelInv
<1>6. Queued(root)
  BY <1>3 DEF Queued
<1>7. ExpandInv
  BY <1>6 DEF ExpandInv
<1>8. ReachInv
  BY <1>1, WalkStart DEF ReachInv
<1> QED  BY <1>2, <1>4, <1>5, <1>7, <1>8 DEF IInv, MembersInv, RootInv, Allowed

LEMMA PopIInv ==
  ASSUME IInv, Pop
  PROVE  IInv'
<1> USE DEF Pop
<1> DEFINE h == Head(queue)
<1>0. /\ TypeOK /\ QueueInv /\ LevelInv /\ ExpandInv /\ ReachInv /\ MembersInv /\ RootInv
      /\ MaxDepth \in Nat
  BY RetrieverAssumption DEF IInv
<1>1. /\ queue \in Seq(Node \X Nat) /\ queue # <<>>
      /\ Len(queue) \in Nat /\ Len(queue) >= 1
      /\ h = queue[1] /\ h \in Node \X Nat
  BY <1>0, EmptySeq, LenProperties, HeadTailProperties DEF TypeOK
<1>2. /\ queue' \in Seq(Node \X Nat)
      /\ Len(queue') = Len(queue) - 1
      /\ \A i \in 1..Len(queue') : queue'[i] = queue[i + 1]
  BY <1>1, HeadTailProperties
<1>3. Allowed' = Allowed /\ \A n : NeighborsOf(n)' = NeighborsOf(n)
  BY DEF inputs, Allowed, NeighborsOf
<1>4. TypeOK'
  BY <1>0, <1>1, <1>2, Inputs DEF TypeOK, inputs
<1>5. h[1] \in visited /\ level[h[1]] = h[2] /\ h[2] \in Nat /\ current' = h
      /\ current[2] <= h[2] /\ current[2] \in Nat
  BY <1>0, <1>1 DEF QueueInv, TypeOK
<1>6. QueueInv'
  <2>1. ASSUME NEW i \in 1..Len(queue')
        PROVE  /\ queue'[i][1] \in visited
               /\ level[queue'[i][1]] = queue'[i][2]
               /\ h[2] <= queue'[i][2]
               /\ queue'[i][2] <= h[2] + 1
    <3>1. i + 1 \in 1..Len(queue) /\ 1 \in 1..Len(queue) /\ 1 < i + 1
      BY <1>1, <1>2
    <3>2. queue[i + 1] \in Node \X Nat
      BY <1>1, <3>1, ElementOfSeq
    <3> QED  BY <1>0, <1>1, <1>2, <1>5, <3>1, <3>2 DEF QueueInv
  <2>2. ASSUME NEW i \in 1..Len(queue'), NEW j \in 1..Len(queue'), i < j
        PROVE  queue'[i][2] <= queue'[j][2] /\ queue'[i][1] # queue'[j][1]
    <3>1. i + 1 \in 1..Len(queue) /\ j + 1 \in 1..Len(queue) /\ i + 1 < j + 1
      BY <1>1, <1>2, <2>2
    <3> QED  BY <1>0, <1>2, <3>1 DEF QueueInv
  <2> QED  BY <2>1, <2>2, <1>5 DEF QueueInv
<1>7. LevelInv'
  <2>1. \A n \in visited : level[n] \in Nat
    BY <1>0 DEF TypeOK
  <2>2. pc' = "scan" => h[2] < MaxDepth
    BY <1>0, <1>5
  <2> QED  BY <1>0, <1>5, <2>1, <2>2 DEF LevelInv, inputs
<1>8. ExpandInv'
  <2>1. ASSUME NEW n \in visited, Queued(n), n # h[1]
        PROVE  Queued(n)'
    <3>1. PICK i \in 1..Len(queue) : queue[i][1] = n
      BY <2>1 DEF Queued
    <3>2. i # 1
      BY <3>1, <1>1, <2>1
    <3>3. i - 1 \in 1..Len(queue') /\ queue'[i - 1] = queue[i]
      BY <3>2, <1>1, <1>2
    <3> QED  BY <3>1, <3>3 DEF Queued
  <2>2. ASSUME NEW n \in visited
        PROVE  \/ Queued(n)'
               \/ level[n] = MaxDepth
               \/ pc' = "scan" /\ n = current'[1]
               \/ \A m \in NeighborsOf(n) : MetFrom(n, m)
    <3>1. CASE n = h[1]
      <4>1. level[n] <= MaxDepth /\ level[n] = h[2]
        BY <1>0, <1>5, <3>1 DEF LevelInv
      <4> QED  BY <3>1, <4>1, <1>0, <1>5
    <3>2. CASE n # h[1]
      BY <3>2, <2>1, <1>0 DEF ExpandInv
    <3> QED  BY <3>1, <3>2
  <2>3. pc' = "scan" => pending' = NeighborsOf(current'[1])
    BY <1>5
  <2>4. pc' # "done"
    OBVIOUS
  <2> QED  BY <1>3, <2>2, <2>3, <2>4 DEF ExpandInv, MetFrom
<1>9. ReachInv' /\ MembersInv' /\ RootInv'
  BY <1>0, <1>3 DEF ReachInv, MembersInv, RootInv, inputs
<1> QED  BY <1>4, <1>6, <1>7, <1>8, <1>9 DEF IInv

LEMMA ScanIInv ==
  ASSUME IInv, NEW nb \in pending, Scan(nb)
  PROVE  IInv'
<1> USE DEF Scan
<1>0. /\ TypeOK /\ QueueInv /\ LevelInv /\ ExpandInv /\ ReachInv /\ MembersInv /\ RootInv
      /\ MaxDepth \in Nat
  BY RetrieverAssumption DEF IInv
<1>1. Allowed' = Allowed /\ \A n : NeighborsOf(n)' = NeighborsOf(n)
  BY DEF inputs, Allowed, NeighborsOf
<1>2. /\ nb \in Node /\ nb \in NeighborsOf(current[1])
      /\ current[1] \in visited /\ level[current[1]] = current[2]
      /\ current \in Node \X Nat /\ current[2] \in Nat /\ current[2] < MaxDepth
  BY <1>0 DEF TypeOK, ExpandInv, QueueInv, LevelInv
<1>3. RootInv'
  BY <1>0, <1>1 DEF RootInv, inputs
<1>4. MembersInv'
  BY DEF MembersInv
<1>5. CASE Revisit(nb)
  <2> USE <1>5 DEF Revisit
  <2>1. TypeOK'
    BY <1>0 DEF TypeOK, inputs
  <2>2. QueueInv' /\ LevelInv' /\ ReachInv'
    BY <1>0, <1>1 DEF QueueInv, LevelInv, ReachInv, inputs
  <2>3. MetFrom(current[1], nb)
    BY <1>0, <1>2 DEF MetFrom, LevelInv
  <2>4. ExpandInv'
    BY <1>0, <1>1, <2>3 DEF ExpandInv, MetFrom, Queued
  <2> QED  BY <1>3, <1>4, <2>1, <2>2, <2>4 DEF IInv
<1>6. CASE Visit(nb)
  <2> USE <1>6 DEF Visit
  <2> DEFINE d == current[2] + 1
  <2>1. /\ queue \in Seq(Node \X Nat) /\ Len(queue) \in Nat
        /\ <<nb, d>> \in Node \X Nat
    BY <1>0, <1>2, LenProperties DEF TypeOK
  <2>2. /\ queue' \in Seq(Node \X Nat)
        /\ Len(queue') = Len(queue) + 1
        /\ \A i \in 1..Len(queue) : queue'[i] = queue[i]
        /\ queue'[Len(queue) + 1] = <<nb, d>>
    BY <2>1, AppendProperties
  <2>3. TypeOK'
    BY <1>0, <1>2, <2>2 DEF TypeOK, inputs
  <2>4. /\ level' \in [Node -> Nat] /\ level'[nb] = d /\ d \in Nat
        /\ \A n \in visited : n \in Node /\ n # nb /\ level'[n] = level[n]
        /\ \A n \in visited : level[n] \in Nat /\ level'[n] \in Nat
    BY <1>0, <1>2 DEF TypeOK
  <2>5. QueueInv'
    <3>1. ASSUME NEW i \in 1..Len(queue')
          PROVE  /\ queue'[i][1] \in visited'
                 /\ level'[queue'[i][1]] = queue'[i][2]
                 /\ current[2] <= queue'[i][2]
                 /\ queue'[i][2] <= current[2] + 1
      <4>1. CASE i \in 1..Len(queue)
        BY <4>1, <1>0, <2>2, <2>4 DEF QueueInv
      <4>2. CASE i = Len(queue) + 1
        BY <4>2, <1>2, <2>2, <2>4
      <4> QED  BY <4>1, <4>2, <2>1, <2>2
    <3>2. ASSUME NEW i \in 1..Len(queue'), NEW j \in 1..Len(queue'), i < j
          PROVE  queue'[i][2] <= queue'[j][2] /\ queue'[i][1] # queue'[j][1]
      <4>1. i \in 1..Len(queue)
        BY <3>2, <2>1, <2>2
      <4>2. CASE j \in 1..Len(queue)
        BY <4>1, <4>2, <3>2, <1>0, <2>2 DEF QueueInv
      <4>3. CASE j = Len(queue) + 1
        <5>1. queue'[j] = <<nb, d>> /\ queue'[i] = queue[i]
          BY <4>1, <4>3, <2>2
        <5>2. queue[i][1] \in visited /\ queue[i][2] <= d
          BY <4>1, <1>0 DEF QueueInv
        <5> QED  BY <5>1, <5>2
      <4> QED  BY <4>2, <4>3, <2>1, <2>2
    <3>3. current'[1] \in visited' /\ level'[current'[1]] = current'[2]
      BY <1>2, <2>4
    <3> QED  BY <3>1, <3>2, <3>3 DEF QueueInv
  <2>6. LevelInv'
    BY <1>0, <1>2, <2>4 DEF LevelInv, inputs
  <2>7. ExpandInv'
    <3>1. ASSUME NEW n \in visited, NEW m, MetFrom(n, m)
          PROVE  MetFrom(n, m)'
      BY <3>1, <2>4 DEF MetFrom
    <3>2. MetFrom(current[1], nb)'
      BY <1>2, <2>4 DEF MetFrom
    <3>3. Queued(nb)'
      BY <2>1, <2>2 DEF Queued
    <3>4. ASSUME NEW n \in visited, Queued(n)
          PROVE  Queued(n)'
      <4>1. PICK i \in 1..Len(queue) : queue[i][1] = n
        BY <3>4 DEF Queued
      <4>2. i \in 1..Len(queue') /\ queue'[i] = queue[i]
        BY <2>1, <2>2
      <4> QED  BY <4>1, <4>2 DEF Queued
    <3>5. ASSUME NEW n \in visited'
          PROVE  \/ Queued(n)'
                 \/ level'[n] = MaxDepth
                 \/ pc' = "scan" /\ n = current'[1]
                 \/ \A m \in NeighborsOf(n)' : MetFrom(n, m)'
      <4>1. CASE n = nb
        BY <4>1, <3>3
      <4>2. CASE n \in visited
        BY <4>2, <1>0, <1>1, <2>4, <3>1, <3>4 DEF ExpandInv
      <4> QED  BY <4>1, <4>2
    <3>6. \A m \in NeighborsOf(current[1]) \ pending' : MetFrom(current[1], m)'
      BY <1>0, <1>1, <1>2, <3>1, <3>2 DEF ExpandInv
    <3>7. pending' \subseteq NeighborsOf(current[1])
      BY <1>0, <1>1 DEF ExpandInv
    <3>8. NeighborsOf(current[1])' = NeighborsOf(current[1])
      BY <1>1
    <3> QED  BY <3>5, <3>6, <3>7, <3>8, <1>1 DEF ExpandInv, MetFrom
  <2>8. ReachInv'
    <3>1. ReachableIn(dataset, Allowed, root, d, nb)
      BY <1>0, <1>2, WalkExtends DEF ReachInv, NeighborsOf
    <3> QED  BY <1>0, <1>1, <2>4, <3>1 DEF ReachInv, inputs
  <2> QED  BY <1>3, <1>4, <2>3, <2>5, <2>6, <2>7, <2>8 DEF IInv
<1> QED  BY <1>5, <1>6

LEMMA EndScanIInv ==
  ASSUME IInv, EndScan
  PROVE  IInv'
<1> USE DEF EndScan
<1>1. Allowed' = Allowed /\ \A n : NeighborsOf(n)' = NeighborsOf(n)
  BY DEF inputs, Allowed, NeighborsOf
<1>2. TypeOK' /\ QueueInv' /\ LevelInv' /\ ReachInv' /\ MembersInv' /\ RootInv'
  BY <1>1 DEF IInv, TypeOK, QueueInv, LevelInv, ReachInv, MembersInv, RootInv, inputs
<1>3. ExpandInv'
  BY <1>1 DEF IInv, ExpandInv, MetFrom, Queued
<1> QED  BY <1>2, <1>3 DEF IInv

LEMMA CollectIInv ==
  ASSUME IInv, Collect
  PROVE  IInv'
<1> USE DEF Collect
<1>1. Allowed' = Allowed /\ (\A n : NeighborsOf(n)' = NeighborsOf(n))
  BY DEF inputs, Allowed, NeighborsOf
<1>2. TypeOK' /\ QueueInv' /\ LevelInv' /\ ReachInv' /\ RootInv'
  BY <1>1 DEF IInv, TypeOK, QueueInv, LevelInv, ReachInv, RootInv, inputs
<1>3. MembersInv'
  BY <1>1 DEF MembersInv, inputs
<1>4. ExpandInv'
  BY <1>1 DEF IInv, ExpandInv, MetFrom, Queued
<1> QED  BY <1>2, <1>3, <1>4 DEF IInv

LEMMA StutterIInv ==
  ASSUME IInv, UNCHANGED vars
  PROVE  IInv'
<1>1. Allowed' = Allowed /\ \A n : NeighborsOf(n)' = NeighborsOf(n)
  BY DEF vars, inputs, Allowed, NeighborsOf
<1>2. TypeOK' /\ QueueInv' /\ LevelInv' /\ ReachInv' /\ RootInv'
  BY <1>1 DEF vars, inputs, IInv, TypeOK, QueueInv, LevelInv, ReachInv, RootInv
<1>3. MembersInv'
  BY <1>1 DEF vars, inputs, IInv, MembersInv
<1>4. ExpandInv'
  BY <1>1 DEF vars, IInv, ExpandInv, MetFrom, Queued
<1> QED  BY <1>2, <1>3, <1>4 DEF IInv

LEMMA NextIInv == IInv /\ [Next]_vars => IInv'
<1> SUFFICES ASSUME IInv, [Next]_vars PROVE IInv'
  OBVIOUS
<1>1. CASE Pop
  BY <1>1, PopIInv
<1>2. ASSUME NEW nb \in pending, Scan(nb) PROVE IInv'
  BY <1>2, ScanIInv
<1>3. CASE EndScan
  BY <1>3, EndScanIInv
<1>4. CASE Collect
  BY <1>4, CollectIInv
<1>5. CASE UNCHANGED vars
  BY <1>5, StutterIInv
<1>6. CASE Done
  BY <1>6, StutterIInv DEF Done
<1> QED  BY <1>1, <1>2, <1>3, <1>4, <1>5, <1>6 DEF Next

\* The search keeps its inductive invariant: types, a deque ordered by depth
\* over one level, levels that are lengths of visible walks, and every
\* resource that left the deque expanded.
THEOREM Invariance == Spec => []IInv
BY InitIInv, NextIInv, PTL DEF Spec

-----------------------------------------------------------------------------
(* What follows from the invariant.                                        *)

\* The answer is the ball of radius MAX_DEPTH around the root, for every
\* dataset, purpose table, scopes and order of the neighbours.
THEOREM Exactness == Spec => []ExactAnswer
<1>1. IInv => ExactAnswer
  <2> SUFFICES ASSUME IInv, pc = "done"
               PROVE  visited = Ball(dataset, Allowed, root, MaxDepth)
    BY DEF ExactAnswer, IInv, MembersInv
  <2>1. /\ \A n \in visited : n \in Node /\ level[n] \in Nat /\ level[n] <= MaxDepth
        /\ MaxDepth \in Nat
    BY RetrieverAssumption DEF IInv, TypeOK, LevelInv
  <2>2. visited \subseteq Ball(dataset, Allowed, root, MaxDepth)
    BY <2>1 DEF IInv, ReachInv, Ball
  <2>3. ~ \E n : Queued(n)
    BY DEF IInv, ExpandInv, Queued
  <2>4. \A n \in visited : level[n] < MaxDepth =>
           \A m \in Neighbors(dataset, Allowed, n) :
              m \in visited /\ level[m] <= level[n] + 1
    BY <2>1, <2>3 DEF IInv, ExpandInv, MetFrom, NeighborsOf
  <2>5. root \in visited /\ level[root] = 0
    BY DEF IInv, LevelInv
  <2>6. Ball(dataset, Allowed, root, MaxDepth) \subseteq visited
    BY <2>1, <2>4, <2>5, ClosedHoldsBall
  <2> QED  BY <2>2, <2>6
<1> QED  BY <1>1, Invariance, PTL

\* No purpose, scopes or dataset bring a restricted resource, or a statement
\* that names one, into the answer.
THEOREM Confidentiality == Spec => []NothingRestricted
<1> DEFINE Hidden == RestrictedNodes(dataset)
           Unseen == visited \cap Hidden = {}
<1>1. IInv => \A n \in DOMAIN members :
                \A q \in members[n].subject \cup members[n].incident :
                   q.s \notin Hidden /\ q.o \notin Hidden /\ q.g \notin RestrictedGraph
  <2> SUFFICES ASSUME IInv, NEW n \in DOMAIN members,
                      NEW q \in members[n].subject \cup members[n].incident
               PROVE  q.s \notin Hidden /\ q.o \notin Hidden /\ q.g \notin RestrictedGraph
    OBVIOUS
  <2>1. pc = "done"
    BY DEF IInv, TypeOK, NoMembers
  <2>2. members = [x \in visited |-> Slices(dataset, Allowed, x)]
    BY <2>1 DEF IInv, MembersInv
  <2>3. q \in StatementsIn(dataset, Allowed)
    BY <2>2 DEF Slices, SubjectStatements, MemberStatements
  <2> QED  BY <2>3, AllowedNotRestricted DEF StatementsIn, Ok, Allowed
<1>2. Init => Unseen
  BY RetrieverAssumption, RootsVisible DEF Init
<1>3. Unseen /\ IInv /\ [Next]_vars => Unseen'
  <2> SUFFICES ASSUME Unseen, IInv, [Next]_vars PROVE Unseen'
    OBVIOUS
  <2>1. CASE Pop
    BY <2>1 DEF Pop, inputs
  <2>2. ASSUME NEW nb \in pending, Scan(nb) PROVE Unseen'
    <3>1. nb \notin Hidden
      BY <2>2, Inputs DEF IInv, ExpandInv, Scan
    <3> QED  BY <2>2, <3>1 DEF Scan, Visit, Revisit, inputs
  <2>3. CASE EndScan
    BY <2>3 DEF EndScan, inputs
  <2>4. CASE Collect
    BY <2>4 DEF Collect, inputs
  <2>5. CASE Done \/ UNCHANGED vars
    BY <2>5 DEF Done, vars, inputs
  <2> QED  BY <2>1, <2>2, <2>3, <2>4, <2>5 DEF Next
<1>4. Unseen /\ IInv => NothingRestricted
  <2> HIDE DEF Hidden
  <2> QED  BY <1>1 DEF NothingRestricted, Hidden
<1> HIDE DEF Unseen
<1> QED  BY <1>2, <1>3, <1>4, Invariance, PTL DEF Spec

\* Scopes only take away: what a narrowed request meets, the same request with
\* unlimited scopes meets too.
THEOREM Narrowing == Spec => []ScopesOnlyNarrow
<1>1. IInv => ScopesOnlyNarrow
  <2> SUFFICES ASSUME IInv, NEW n \in visited
               PROVE  n \in Ball(dataset, AllowedGraphs(purpose, Unlimited), root, MaxDepth)
    BY DEF ScopesOnlyNarrow
  <2>1. n \in Node /\ level[n] \in 0..MaxDepth
    BY RetrieverAssumption DEF IInv, TypeOK, LevelInv
  <2>2. ReachableIn(dataset, Allowed, root, level[n], n)
    BY DEF IInv, ReachInv
  <2>3. ReachableIn(dataset, AllowedGraphs(purpose, Unlimited), root, level[n], n)
    BY <2>1, <2>2, ScopesNarrow, ReachMonotone DEF Allowed
  <2> QED  BY <2>1, <2>3 DEF Ball
<1> QED  BY <1>1, Invariance, PTL

\* Resources are expanded in order of their depth.
THEOREM Order == Spec => BreadthFirst
<1>1. IInv /\ [Next]_vars => [current'[2] >= current[2]]_vars
  <2> SUFFICES ASSUME IInv, Next PROVE current'[2] >= current[2] \/ UNCHANGED vars
    OBVIOUS
  <2>0. current[2] \in Nat
    BY DEF IInv, TypeOK
  <2>1. CASE Pop
    <3>1. 1 \in 1..Len(queue) /\ Head(queue) = queue[1] /\ queue[1] \in Node \X Nat
      BY <2>1, EmptySeq, LenProperties, ElementOfSeq DEF Pop, IInv, TypeOK
    <3> QED  BY <2>0, <2>1, <3>1 DEF Pop, IInv, QueueInv
  <2>2. CASE \E nb \in pending : Scan(nb)
    BY <2>0, <2>2 DEF Scan
  <2>3. CASE EndScan \/ Collect
    BY <2>0, <2>3 DEF EndScan, Collect
  <2> QED  BY <2>1, <2>2, <2>3 DEF Next, Done
<1> QED  BY <1>1, Invariance, PTL DEF Spec, BreadthFirst

WholeAnswer == pc = "done" => members = Retrieved(dataset, Allowed, root, MaxDepth)

\* What the search delivers is what ContextCompiler starts from: every resource
\* in reach, each with all its visible statements (the two results of retrieve
\* and _by_partition).
THEOREM Delivery == Spec => []WholeAnswer
<1>1. ASSUME IInv, ExactAnswer PROVE WholeAnswer
  <2> SUFFICES ASSUME pc = "done"
               PROVE  members = Retrieved(dataset, Allowed, root, MaxDepth)
    BY DEF WholeAnswer
  <2>1. members = [n \in visited |-> Slices(dataset, Allowed, n)]
    BY <1>1 DEF IInv, MembersInv
  <2>2. visited = Ball(dataset, Allowed, root, MaxDepth)
    BY <1>1, <2>1 DEF ExactAnswer
  <2> QED  BY <2>1, <2>2 DEF Retrieved
<1> QED  BY <1>1, Invariance, Exactness, PTL

\* The search implements the abstract retrieval: inputs are read and never
\* written, and the one visible step delivers the whole ball, each member with
\* all that is visible of it.
THEOREM Refinement == Spec => Implements
<1>0. /\ Abstract!AllowedGraphs(purpose, scopes) = AllowedGraphs(purpose, scopes)
      /\ Abstract!Scopes = Scopes
      /\ \A D, A : Abstract!Roots(D, A) = Roots(D, A)
      /\ \A D, A, r, k : Abstract!Retrieved(D, A, r, k) = Retrieved(D, A, r, k)
      /\ Abstract!NoMembers = NoMembers
  <2>1. \A D, A : Abstract!StatementsIn(D, A) = StatementsIn(D, A)
    BY DEF Abstract!StatementsIn, StatementsIn, Abstract!Ok, Ok, Abstract!RestrictedNodes, RestrictedNodes
  <2>2. \A D, A, n : Abstract!Neighbors(D, A, n) = Neighbors(D, A, n)
    BY <2>1 DEF Abstract!Neighbors, Neighbors
  <2>3. \A D, A, r, w, k, n : Abstract!Walk(D, A, r, w, k, n) = Walk(D, A, r, w, k, n)
    BY <2>2 DEF Abstract!Walk, Walk
  <2>4. \A D, A, r, k : Abstract!Ball(D, A, r, k) = Ball(D, A, r, k)
    BY <2>3 DEF Abstract!Ball, Ball, Abstract!ReachableIn, ReachableIn
  <2>5. \A D, A, n : Abstract!Slices(D, A, n) = Slices(D, A, n)
    BY <2>1 DEF Abstract!Slices, Slices, Abstract!SubjectStatements, SubjectStatements,
                Abstract!MemberStatements, MemberStatements
  <2>6. \A D, A, r, k : Abstract!Retrieved(D, A, r, k) = Retrieved(D, A, r, k)
    BY <2>4, <2>5 DEF Abstract!Retrieved, Retrieved
  <2> QED  BY <2>1, <2>6 DEF Abstract!Roots, Roots, Abstract!Scopes, Scopes,
                             Abstract!AllowedGraphs, AllowedGraphs,
                             Abstract!NoMembers, NoMembers
<1>1. Init => Abstract!Init
  BY <1>0 DEF Init, Abstract!Init
<1>2. IInv /\ WholeAnswer' /\ [Next]_vars => [Abstract!Deliver]_<<Abstract!inputs, members>>
  <2> SUFFICES ASSUME IInv, WholeAnswer', [Next]_vars
               PROVE  Abstract!Deliver \/ UNCHANGED <<Abstract!inputs, members>>
    OBVIOUS
  <2>1. CASE Collect
    <3>1. members = NoMembers /\ pc' = "done"
      BY <2>1 DEF Collect, IInv, TypeOK
    <3>2. UNCHANGED <<dataset, purpose, scopes, root>> /\ Allowed' = Allowed
      BY <2>1 DEF Collect, inputs, Allowed
    <3>3. members' = Retrieved(dataset, AllowedGraphs(purpose, scopes), root, MaxDepth)
      BY <3>1, <3>2 DEF WholeAnswer, Allowed
    <3> QED  BY <1>0, <3>1, <3>2, <3>3 DEF Abstract!Deliver, Abstract!inputs
  <2>2. CASE Pop \/ EndScan \/ (\E nb \in pending : Scan(nb))
    BY <2>2 DEF Pop, EndScan, Scan, inputs, Abstract!inputs
  <2>3. CASE Done \/ UNCHANGED vars
    BY <2>3 DEF Done, vars, inputs, Abstract!inputs
  <2> QED  BY <2>1, <2>2, <2>3 DEF Next
<1> QED  BY <1>1, <1>2, Invariance, Delivery, PTL DEF Spec, Implements, Abstract!Spec

-----------------------------------------------------------------------------
(* How much work there is.  A resource costs at most one entry of the deque *)
(* and one look at all its neighbours.                                      *)

\* The resources a statement of the dataset names, and those not met yet.
Ends == {q.s : q \in dataset} \cup {q.o : q \in dataset}
Unmet == Ends \ visited

WorkLeft ==
    (Cardinality(Unmet) + Len(queue)) * (Cardinality(Ends) + 3)
      + (CASE pc = "scan" -> 2 + Cardinality(pending)
           [] pc = "pop" -> 1
           [] pc = "done" -> 0)

LEMMA ImageFinite ==
  ASSUME NEW S, IsFiniteSet(S), NEW f, DOMAIN f = S
  PROVE  IsFiniteSet({f[x] : x \in S})
<1> DEFINE T == {f[x] : x \in S}
<1>1. [x \in S |-> f[x]] \in Surjection(S, T)
  BY DEF Surjection
<1> QED  BY <1>1, FS_Surjection

LEMMA EndsFinite ==
  ASSUME TypeOK
  PROVE  /\ IsFiniteSet(Ends) /\ IsFiniteSet(Unmet)
         /\ Cardinality(Ends) \in Nat /\ Cardinality(Unmet) \in Nat
         /\ \A n : NeighborsOf(n) \subseteq Ends
<1>1. IsFiniteSet(dataset) /\ dataset \in SUBSET Quad
  BY RetrieverAssumption DEF TypeOK
<1> DEFINE f == [q \in dataset |-> q.s]
           g == [q \in dataset |-> q.o]
<1>2. IsFiniteSet({f[q] : q \in dataset}) /\ IsFiniteSet({g[q] : q \in dataset})
  BY <1>1, ImageFinite
<1>3. Ends = {f[q] : q \in dataset} \cup {g[q] : q \in dataset}
  BY DEF Ends
<1> HIDE DEF f, g
<1>4. IsFiniteSet(Ends)
  BY <1>2, <1>3, FS_Union
<1>5. IsFiniteSet(Unmet)
  BY <1>4, FS_Subset DEF Unmet
<1>6. \A n : NeighborsOf(n) \subseteq Ends
  BY DEF NeighborsOf, Neighbors, StatementsIn, Ends
<1> QED  BY <1>4, <1>5, <1>6, FS_CardinalityType

\* One entry less is worth a whole row.
LEMMA RowLess ==
  ASSUME NEW s \in Nat, NEW w \in Nat
  PROVE  s * w \in Nat /\ (s - 1) * w = s * w - w
OBVIOUS

LEMMA PendingFinite ==
  ASSUME IInv, pc = "scan"
  PROVE  IsFiniteSet(pending) /\ Cardinality(pending) \in Nat
<1>1. pending \subseteq Ends
  BY EndsFinite DEF IInv, ExpandInv
<1> QED  BY <1>1, EndsFinite, FS_Subset, FS_CardinalityType DEF IInv

LEMMA WorkIsNatural == IInv => WorkLeft \in Nat
<1> SUFFICES ASSUME IInv PROVE WorkLeft \in Nat
  OBVIOUS
<1>1. Cardinality(Unmet) + Len(queue) \in Nat /\ Cardinality(Ends) + 3 \in Nat
  BY EndsFinite DEF IInv, TypeOK
<1>2. (Cardinality(Unmet) + Len(queue)) * (Cardinality(Ends) + 3) \in Nat
  BY <1>1, RowLess
<1>3. pc \in {"pop", "scan", "done"}
  BY DEF IInv, TypeOK
<1> QED  BY <1>2, <1>3, PendingFinite DEF WorkLeft

LEMMA StepWorks ==
  ASSUME IInv, IInv', Next, vars' # vars
  PROVE  WorkLeft' < WorkLeft
<1> DEFINE rows == Cardinality(Unmet) + Len(queue)
           width == Cardinality(Ends) + 3
<1>0. rows \in Nat /\ width \in Nat /\ rows * width \in Nat
  <2>1. Cardinality(Unmet) \in Nat /\ Cardinality(Ends) \in Nat /\ Len(queue) \in Nat
    BY EndsFinite DEF IInv, TypeOK
  <2>2. rows \in Nat /\ width \in Nat
    BY <2>1
  <2> HIDE DEF rows, width
  <2> QED  BY <2>2, RowLess
<1>1. CASE Pop
  <2>1. Ends' = Ends /\ Unmet' = Unmet
    BY <1>1 DEF Pop, inputs, Ends, Unmet
  <2>2. Len(queue) \in Nat /\ Len(queue) > 0 /\ Len(queue)' = Len(queue) - 1
    BY <1>1 DEF Pop, IInv, TypeOK
  <2>3. rows' * width' = rows * width - width
    BY <1>0, <2>1, <2>2, RowLess, EndsFinite DEF IInv
  <2>4. CASE pc' = "pop"
    <3>1. Cardinality(Ends) \in Nat /\ width = Cardinality(Ends) + 3
      BY EndsFinite DEF IInv
    <3> HIDE DEF rows, width
    <3>2. WorkLeft = rows * width + 1 /\ WorkLeft' = rows' * width' + 1
      BY <1>1, <2>4 DEF WorkLeft, Pop, rows, width
    <3> QED  BY <1>0, <2>3, <3>1, <3>2
  <2>5. CASE pc' = "scan"
    <3>1. pending' \subseteq Ends
      BY <1>1, <2>5, EndsFinite DEF Pop, IInv
    <3>2. Cardinality(pending') \in Nat /\ Cardinality(pending') <= Cardinality(Ends)
      BY <3>1, EndsFinite, FS_Subset, FS_CardinalityType DEF IInv
    <3>3. Cardinality(Ends) \in Nat
      BY EndsFinite DEF IInv
    <3> HIDE DEF rows, width
    <3>4. WorkLeft = rows * width + 1
      BY <1>1 DEF WorkLeft, Pop, rows, width
    <3>5. WorkLeft' = rows' * width' + (2 + Cardinality(pending'))
      BY <2>5 DEF WorkLeft, rows, width
    <3>6. width = Cardinality(Ends) + 3
      BY DEF width
    <3> QED  BY <1>0, <2>3, <3>2, <3>3, <3>4, <3>5, <3>6
  <2> QED  BY <1>1, <2>4, <2>5 DEF Pop
<1>2. ASSUME NEW nb \in pending, Scan(nb)
      PROVE  WorkLeft' < WorkLeft
  <2>1. pc = "scan" /\ pc' = "scan" /\ pending' = pending \ {nb} /\ Ends' = Ends
    BY <1>2 DEF Scan, inputs, Ends
  <2>2. nb \in Ends /\ IsFiniteSet(pending) /\ Cardinality(pending) \in Nat
    BY <2>1, EndsFinite, PendingFinite DEF IInv, ExpandInv
  <2>3. Cardinality(pending') = Cardinality(pending) - 1
    BY <2>1, <2>2, FS_RemoveElement
  <2>4. rows' = rows
    <3>1. CASE Visit(nb)
      <4>1. nb \in Unmet /\ Unmet' = Unmet \ {nb}
        BY <2>1, <2>2, <3>1 DEF Visit, Unmet
      <4>2. Cardinality(Unmet') = Cardinality(Unmet) - 1
        BY <4>1, EndsFinite, FS_RemoveElement DEF IInv
      <4>3. Len(queue)' = Len(queue) + 1
        BY <3>1 DEF Visit, IInv, TypeOK
      <4>4. Cardinality(Unmet) \in Nat /\ Len(queue) \in Nat
        BY EndsFinite DEF IInv, TypeOK
      <4> QED  BY <4>2, <4>3, <4>4
    <3>2. CASE Revisit(nb)
      BY <2>1, <3>2 DEF Revisit, Unmet
    <3> QED  BY <1>2, <3>1, <3>2 DEF Scan
  <2>5. width' = width
    BY <2>1
  <2> HIDE DEF rows, width
  <2>6. WorkLeft = rows * width + (2 + Cardinality(pending))
    BY <2>1 DEF WorkLeft, rows, width
  <2>7. WorkLeft' = rows' * width' + (2 + Cardinality(pending'))
    BY <2>1 DEF WorkLeft, rows, width
  <2> QED  BY <1>0, <2>2, <2>3, <2>4, <2>5, <2>6, <2>7
<1>3. CASE EndScan \/ Collect
  <2>1. rows' = rows /\ width' = width
    BY <1>3 DEF EndScan, Collect, inputs, Unmet, Ends
  <2> HIDE DEF rows, width
  <2>2. CASE EndScan
    <3>1. Cardinality(pending) \in Nat
      BY <2>2, PendingFinite DEF EndScan
    <3>2. WorkLeft = rows * width + (2 + Cardinality(pending)) /\ WorkLeft' = rows' * width' + 1
      BY <2>2 DEF EndScan, WorkLeft, rows, width
    <3> QED  BY <1>0, <2>1, <3>1, <3>2
  <2>3. CASE Collect
    <3>1. WorkLeft = rows * width + 1 /\ WorkLeft' = rows' * width' + 0
      BY <2>3 DEF Collect, WorkLeft, rows, width
    <3> QED  BY <1>0, <2>1, <3>1
  <2> QED  BY <1>3, <2>2, <2>3
<1>4. ~ Done
  BY DEF Done
<1> QED  BY <1>1, <1>2, <1>3, <1>4 DEF Next

\* The search does a bounded amount of work, whatever cycles the graph has and
\* in whatever order neighbours are taken: each step lowers a natural number, at
\* the start the number of resources times a row (`if nb not in visited` and the
\* cut-off of RdfGraphRetriever.retrieve).
THEOREM BoundedWork == Spec => [](WorkLeft \in Nat) /\ [][WorkLeft' < WorkLeft]_vars
<1>1. IInv /\ IInv' /\ [Next]_vars => [WorkLeft' < WorkLeft]_vars
  BY StepWorks
<1> QED  BY <1>1, WorkIsNatural, Invariance, PTL DEF Spec

=============================================================================
