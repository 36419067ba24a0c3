----------------------- MODULE ContextCompilerProofs ------------------------
(***************************************************************************)
(* The two passes of ContextCompiler keep their invariant, and what the    *)
(* pack promises follows from it, for every dataset, request, set of       *)
(* statuses and purpose table; so does what it takes over from the store   *)
(* and hands on to the decision context.                                   *)
(***************************************************************************)
EXTENDS ContextCompiler, TLAPS, WellFoundedInduction, FiniteSetTheorems

-----------------------------------------------------------------------------
(* The first status of the sorted statements.                               *)

LEMMA LeastElement ==
  ASSUME NEW S \in SUBSET Nat, S # {}
  PROVE  \E x \in S : \A y \in S : x <= y
<1> DEFINE R == OpToRel(<, Nat)
<1>1. IsWellFoundedOn(R, Nat)
  BY NatLessThanWellFounded
<1>2. PICK x \in S : \A y \in S : ~ (<<y, x>> \in R)
  <2> HIDE DEF R
  <2> QED  BY <1>1, WFMin
<1>3. \A y \in S : ~ (y < x)
  BY <1>2 DEF OpToRel
<1> HIDE DEF R
<1> QED  BY <1>2, <1>3

LEMMA FirstStatus ==
  ASSUME NEW stmts, \A q \in stmts : WellTyped(q),
         Objects(stmts, hasConfirmationStatus) # {}
  PROVE  /\ StatusOf(stmts) \in Objects(stmts, hasConfirmationStatus)
         /\ Objects(stmts, hasConfirmationStatus) \subseteq Status
         /\ \A tt \in Objects(stmts, hasConfirmationStatus) :
               StatusRank[StatusOf(stmts)] <= StatusRank[tt]
<1> DEFINE found == Objects(stmts, hasConfirmationStatus)
           ranks == {StatusRank[st] : st \in found}
<1>1. found \subseteq Status
  BY DEF Objects, WellTyped
<1>2. ranks \in SUBSET Nat /\ ranks # {}
  BY <1>1, CompilerAssumption
<1>3. PICK x \in ranks : \A y \in ranks : x <= y
  BY <1>2, LeastElement
<1>4. \E st \in found : \A tt \in found : StatusRank[st] <= StatusRank[tt]
  BY <1>3
<1> HIDE DEF found, ranks
<1>5. StatusOf(stmts) =
        CHOOSE st \in found : \A tt \in found : StatusRank[st] <= StatusRank[tt]
  BY DEF StatusOf, found
<1>6. StatusOf(stmts) \in found
        /\ \A tt \in found : StatusRank[StatusOf(stmts)] <= StatusRank[tt]
  BY <1>4, <1>5
<1> QED  BY <1>1, <1>6 DEF found

-----------------------------------------------------------------------------
(* The slices are an input: while they stay, so does all that is read of    *)
(* them.                                                                    *)

LEMMA InputsFixed ==
  ASSUME UNCHANGED inputs
  PROVE  /\ Members' = Members
         /\ Allowed' = Allowed
         /\ \A n, part : Own(n, part)' = Own(n, part)
         /\ \A n : Parts(n)' = Parts(n)
         /\ \A n, part : VerdictOn(n, part)' = VerdictOn(n, part)
         /\ \A n, part : ViewOf(n, part)' = ViewOf(n, part)
         /\ \A n, part : AdmittedTypes(n, part)' = AdmittedTypes(n, part)
         /\ \A n, part : IsGap(n, part)' = IsGap(n, part)
<1>1. members' = members /\ request' = request
  BY DEF inputs
<1>2. Members' = Members /\ Allowed' = Allowed
  BY <1>1 DEF Members, Allowed
<1>3. ASSUME NEW n, NEW part
      PROVE  /\ Own(n, part)' = Own(n, part)
             /\ Incident(n, part)' = Incident(n, part)
  BY <1>1 DEF Own, Incident
<1>4. \A n : Parts(n)' = Parts(n)
  BY <1>3 DEF Parts
<1>5. ASSUME NEW n, NEW part
      PROVE  /\ VerdictOn(n, part)' = VerdictOn(n, part)
             /\ AdmittedTypes(n, part)' = AdmittedTypes(n, part)
             /\ IsGap(n, part)' = IsGap(n, part)
  BY <1>1, <1>3 DEF VerdictOn, AdmittedTypes, IsGap
<1>6. ASSUME NEW n, NEW part
      PROVE  ViewOf(n, part)' = ViewOf(n, part)
  BY <1>3, <1>5 DEF ViewOf, ToMember
<1> QED  BY <1>2, <1>3, <1>4, <1>5, <1>6

\* The buckets stay exact as long as the same pairs are settled.
LEMMA BucketsKept ==
  ASSUME UNCHANGED <<inputs, views, gaps, omissions>>, Settled' = Settled, BucketInv
  PROVE  BucketInv'
<1>1. UNCHANGED inputs
  OBVIOUS
<1>2. /\ \A n, part : VerdictOn(n, part)' = VerdictOn(n, part)
      /\ \A n, part : ViewOf(n, part)' = ViewOf(n, part)
      /\ \A n, part : IsGap(n, part)' = IsGap(n, part)
  BY <1>1, InputsFixed
<1> DEFINE shown   == {np \in Settled : Accepted(np[1], np[2])}
           missing == {np \in shown : np[2] = CandidateAndDispute /\ IsGap(np[1], np[2])}
<1>3. shown' = shown
  BY <1>2 DEF Accepted
<1>4. missing' = missing
  BY <1>2, <1>3
<1>5. /\ {ViewOf(np[1], np[2]) : np \in shown}' = {ViewOf(np[1], np[2]) : np \in shown}
      /\ {ViewOf(np[1], np[2]) : np \in missing}' = {ViewOf(np[1], np[2]) : np \in missing}
      /\ {Omission(np[1], np[2], VerdictOn(np[1], np[2])) : np \in Settled \ shown}'
           = {Omission(np[1], np[2], VerdictOn(np[1], np[2])) : np \in Settled \ shown}
  BY <1>2, <1>3, <1>4
<1> QED  BY <1>5 DEF BucketInv

LEMMA SlicesKept ==
  ASSUME UNCHANGED inputs, SliceInv
  PROVE  SliceInv'
BY DEF SliceInv, inputs, Members, Allowed, WellTyped

-----------------------------------------------------------------------------
(* The invariant holds initially and every step keeps it.                   *)

LEMMA InitIInv == Init => IInv
<1> SUFFICES ASSUME Init PROVE IInv
  OBVIOUS
<1>1. PICK D \in Datasets : \E root \in Roots(D, AllowedOf(request)) :
         /\ members = Retrieved(D, AllowedOf(request), root, MaxDepth)
         /\ member = root
  BY DEF Init
<1>2. PICK root \in Roots(D, AllowedOf(request)) :
         /\ members = Retrieved(D, AllowedOf(request), root, MaxDepth)
         /\ member = root
  BY <1>1
<1>3. D \in SUBSET Quad /\ \A q \in D : WellTyped(q)
  BY CompilerAssumption
<1>4. Members = Ball(D, Allowed, root, MaxDepth)
        /\ \A n \in Members : members[n] = Slices(D, Allowed, n)
  BY <1>2 DEF Members, Retrieved, Allowed
<1>5. \A n : /\ SubjectStatements(D, Allowed, n) \subseteq D
             /\ MemberStatements(D, Allowed, n) \subseteq D
             /\ \A q \in SubjectStatements(D, Allowed, n) : q.s = n /\ q.g \in Allowed
             /\ \A q \in MemberStatements(D, Allowed, n) :
                   n \in {q.s, q.o} /\ q.g \in Allowed
  BY DEF SubjectStatements, MemberStatements, StatementsIn
<1>6. SliceInv
  <2>1. ASSUME NEW n \in Members
        PROVE  /\ members[n].subject = SubjectStatements(D, Allowed, n)
               /\ members[n].incident = MemberStatements(D, Allowed, n)
    <3>1. members[n] = Slices(D, Allowed, n)
      BY <1>4
    <3> QED  BY <3>1 DEF Slices
  <2> QED  BY <1>3, <1>5, <2>1 DEF SliceInv
<1>7. members \in [Members -> [subject : SUBSET Quad, incident : SUBSET Quad]]
  <2>1. members = [n \in Members |-> Slices(D, Allowed, n)]
    BY <1>2, <1>4 DEF Retrieved, Allowed
  <2>2. \A n : Slices(D, Allowed, n) \in [subject : SUBSET Quad, incident : SUBSET Quad]
    BY <1>3, <1>5 DEF Slices
  <2> QED  BY <2>1, <2>2
<1>8. root \in Node
  BY <1>3 DEF Roots, StatementsIn, Quad
<1>9. root \in Members
  <2>1. Ball(D, Allowed, root, MaxDepth) =
          {n \in Node : \E k \in 0..MaxDepth : ReachableIn(D, Allowed, root, k, n)}
    BY DEF Ball
  <2>2. 0 \in 0..MaxDepth
    BY CompilerAssumption
  <2> DEFINE w == [i \in 0..0 |-> root]
  <2>3. w \in [0..0 -> Node] /\ Walk(D, Allowed, root, w, 0, root)
    BY <1>8 DEF Walk
  <2>4. ReachableIn(D, Allowed, root, 0, root)
    BY <2>3 DEF ReachableIn
  <2> QED  BY <1>4, <1>8, <2>1, <2>2, <2>4
<1>10. TypeOK
  <2>1. NotDecided \in [Graph -> Verdict] /\ NoTypes \in [Graph -> SUBSET (Node \cup Literal)]
    BY DEF NotDecided, NoTypes, Verdict
  <2> QED  BY <1>2, <1>7, <1>9, <2>1 DEF Init, TypeOK
<1>11. DecisionInv
  BY DEF Init, DecisionInv
<1>12. Settled = {}
  <2>1. todo = Members /\ pc = "member"
    BY DEF Init
  <2> QED  BY <2>1 DEF Settled
<1>13. BucketInv
  BY <1>12 DEF Init, BucketInv
<1> QED  BY <1>6, <1>10, <1>11, <1>13 DEF IInv

LEMMA TakeIInv ==
  ASSUME IInv, NEW n \in todo, Take(n)
  PROVE  IInv'
<1>1. UNCHANGED <<inputs, views, gaps, omissions>>
  BY DEF Take
<1>2. Members' = Members /\ \A m : Parts(m)' = Parts(m)
  BY <1>1, InputsFixed
<1>3. TypeOK'
  <2>1. NotDecided \in [Graph -> Verdict] /\ NoTypes \in [Graph -> SUBSET (Node \cup Literal)]
    BY DEF NotDecided, NoTypes, Verdict
  <2>2. Parts(n) \subseteq Graph
    BY DEF Parts
  <2> QED  BY <1>1, <1>2, <2>1, <2>2 DEF IInv, TypeOK, Take, inputs
<1>4. SliceInv'
  BY <1>1, SlicesKept DEF IInv
<1>5. DecisionInv'
  BY <1>2 DEF DecisionInv, Take
<1>6. Settled' = Settled
  BY <1>2 DEF Settled, Take
<1>7. BucketInv'
  BY <1>1, <1>6, BucketsKept DEF IInv
<1> QED  BY <1>3, <1>4, <1>5, <1>7 DEF IInv

LEMMA DecideIInv ==
  ASSUME IInv, NEW part \in undone, DecidePart(part)
  PROVE  IInv'
<1> DEFINE own == Own(member, part)
           verdict == Decide(part, own, request.asOf)
<1>1. UNCHANGED <<inputs, views, gaps, omissions>> /\ UNCHANGED <<todo, member, pc>>
  BY DEF DecidePart
<1>2. /\ Members' = Members
      /\ \A m : Parts(m)' = Parts(m)
      /\ \A m, p : VerdictOn(m, p)' = VerdictOn(m, p)
      /\ \A m, p : AdmittedTypes(m, p)' = AdmittedTypes(m, p)
  BY <1>1, InputsFixed
<1>3. part \in Graph /\ pc = "decide" /\ undone' = undone \ {part}
  BY DEF IInv, TypeOK, DecidePart
<1>4. /\ decisions' = [decisions EXCEPT ![part] = VerdictOn(member, part)]
      /\ types' = IF Accepted(member, part)
                  THEN [types EXCEPT ![part] = AdmittedTypes(member, part)]
                  ELSE types
  BY DEF DecidePart, VerdictOn, Accepted, AdmittedTypes
<1>5. VerdictOn(member, part) \in Verdict
  BY DEF VerdictOn, Decide, Valid, Verdict
<1>6. AdmittedTypes(member, part) \subseteq Node \cup Literal
  <2>1. members[member].subject \subseteq Quad
    BY DEF IInv, TypeOK
  <2> QED  BY <2>1 DEF AdmittedTypes, Objects, Own, Quad
<1>7. TypeOK'
  <2>1. decisions' \in [Graph -> Verdict]
    BY <1>3, <1>4, <1>5 DEF IInv, TypeOK
  <2>2. types' \in [Graph -> SUBSET (Node \cup Literal)]
    BY <1>3, <1>4, <1>6 DEF IInv, TypeOK
  <2> QED  BY <1>1, <1>2, <1>3, <2>1, <2>2 DEF IInv, TypeOK, inputs
<1>8. SliceInv'
  BY <1>1, SlicesKept DEF IInv
<1>9. DecisionInv'
  <2>1. ASSUME NEW p \in Parts(member), p \notin undone'
        PROVE  /\ decisions'[p] = VerdictOn(member, p)
               /\ Accepted(member, p) => types'[p] = AdmittedTypes(member, p)
    <3>1. p \in Graph
      BY DEF Parts
    <3>2. CASE p = part
      BY <3>1, <3>2, <1>4 DEF IInv, TypeOK
    <3>3. CASE p # part
      <4>1. p \notin undone
        BY <2>1, <3>3, <1>3
      <4>2. decisions[p] = VerdictOn(member, p)
              /\ (Accepted(member, p) => types[p] = AdmittedTypes(member, p))
        BY <4>1, <1>3 DEF IInv, DecisionInv
      <4> QED  BY <3>1, <3>3, <4>2, <1>4 DEF IInv, TypeOK
    <3> QED  BY <3>2, <3>3
  <2>2. \A p : Accepted(member, p)' = Accepted(member, p)
    BY <1>1, <1>2 DEF Accepted
  <2>3. member \notin todo /\ undone \subseteq Parts(member)
    BY <1>3 DEF IInv, DecisionInv
  <2> HIDE DEF own, verdict
  <2> QED  BY <1>1, <1>2, <1>3, <2>1, <2>2, <2>3 DEF DecisionInv
<1>10. Settled' = Settled
  BY <1>1, <1>2, <1>3 DEF Settled
<1>11. BucketInv'
  BY <1>1, <1>10, BucketsKept DEF IInv
<1> QED  BY <1>7, <1>8, <1>9, <1>11 DEF IInv

LEMMA EndDecisionsIInv ==
  ASSUME IInv, EndDecisions
  PROVE  IInv'
<1>1. UNCHANGED <<inputs, views, gaps, omissions>>
        /\ UNCHANGED <<todo, member, decisions, types>>
  BY DEF EndDecisions
<1>2. /\ Members' = Members
      /\ \A m : Parts(m)' = Parts(m)
      /\ \A m, p : VerdictOn(m, p)' = VerdictOn(m, p)
      /\ \A m, p : AdmittedTypes(m, p)' = AdmittedTypes(m, p)
  BY <1>1, InputsFixed
<1>3. undone = {} /\ undone' = Parts(member) /\ pc = "decide" /\ pc' = "build"
  BY DEF EndDecisions
<1>4. TypeOK'
  <2>1. Parts(member) \subseteq Graph
    BY DEF Parts
  <2> QED  BY <1>1, <1>2, <1>3, <2>1 DEF IInv, TypeOK, inputs
<1>5. SliceInv'
  BY <1>1, SlicesKept DEF IInv
<1>6. DecisionInv'
  <2>1. member \notin todo /\ \A p \in Parts(member) :
                 /\ decisions[p] = VerdictOn(member, p)
                 /\ Accepted(member, p) => types[p] = AdmittedTypes(member, p)
    BY <1>3 DEF IInv, DecisionInv
  <2>2. \A p : Accepted(member, p)' = Accepted(member, p)
    BY <1>1, <1>2 DEF Accepted
  <2> QED  BY <1>1, <1>2, <1>3, <2>1, <2>2 DEF DecisionInv
<1>7. Settled' = Settled
  BY <1>1, <1>2, <1>3 DEF Settled
<1>8. BucketInv'
  BY <1>1, <1>7, BucketsKept DEF IInv
<1> QED  BY <1>4, <1>5, <1>6, <1>8 DEF IInv

LEMMA BuildIInv ==
  ASSUME IInv, NEW part \in undone, BuildPart(part)
  PROVE  IInv'
<1> DEFINE here == <<member, part>>
           shown == {np \in Settled : Accepted(np[1], np[2])}
           missing == {np \in shown : np[2] = CandidateAndDispute /\ IsGap(np[1], np[2])}
<1>1. UNCHANGED inputs /\ UNCHANGED <<todo, member, decisions, types, pc>>
        /\ pc = "build" /\ undone' = undone \ {part} /\ (Omit(part) \/ Admit(part))
  BY DEF BuildPart
<1>2. /\ Members' = Members
      /\ \A m : Parts(m)' = Parts(m)
      /\ \A m, p : VerdictOn(m, p)' = VerdictOn(m, p)
      /\ \A m, p : AdmittedTypes(m, p)' = AdmittedTypes(m, p)
      /\ \A m, p : ViewOf(m, p)' = ViewOf(m, p)
      /\ \A m, p : IsGap(m, p)' = IsGap(m, p)
  BY <1>1, InputsFixed
<1>3. /\ member \in Members /\ member \notin todo
      /\ part \in Parts(member) /\ part \in Graph
      /\ decisions[part] = VerdictOn(member, part)
      /\ Accepted(member, part) => types[part] = AdmittedTypes(member, part)
  BY <1>1 DEF IInv, TypeOK, DecisionInv
<1>4. TypeOK'
  BY <1>1, <1>2 DEF IInv, TypeOK, inputs
<1>5. SliceInv'
  BY <1>1, SlicesKept DEF IInv
<1>6. \A m, p : Accepted(m, p)' = Accepted(m, p)
  BY <1>2 DEF Accepted
<1>7. DecisionInv'
  BY <1>1, <1>2, <1>6 DEF IInv, DecisionInv
<1>8. here \in Members \X Graph /\ here[1] = member /\ here[2] = part
  BY <1>3
<1>9. Settled' = Settled \cup {here}
  BY <1>1, <1>2, <1>3, <1>8 DEF Settled
<1>10. here \notin Settled
  BY <1>1, <1>8 DEF Settled
<1>11. /\ views = {ViewOf(np[1], np[2]) : np \in shown}
       /\ gaps = {ViewOf(np[1], np[2]) : np \in missing}
       /\ omissions = {Omission(np[1], np[2], VerdictOn(np[1], np[2])) :
                         np \in Settled \ shown}
  BY DEF IInv, BucketInv
<1>12. ASSUME Omit(part) PROVE BucketInv'
  <2>1. ~ Accepted(member, part) /\ views' = views /\ gaps' = gaps
          /\ omissions' = omissions \cup
                 {Omission(here[1], here[2], VerdictOn(here[1], here[2]))}
    BY <1>3, <1>8, <1>12 DEF Omit, Accepted
  <2>2. shown' = shown
    BY <1>6, <1>8, <1>9, <2>1
  <2>3. missing' = missing
    BY <1>2, <2>2
  <2>4. Settled' \ shown' = (Settled \ shown) \cup {here}
    BY <1>9, <1>10, <2>2
  <2> HIDE DEF here, shown, missing
  <2>5. {ViewOf(np[1], np[2]) : np \in shown}' = views
    BY <1>2, <1>11, <2>2
  <2>6. {ViewOf(np[1], np[2]) : np \in missing}' = gaps
    BY <1>2, <1>11, <2>3
  <2>7. {Omission(np[1], np[2], VerdictOn(np[1], np[2])) : np \in Settled \ shown}'
          = omissions'
    BY <1>2, <1>11, <2>1, <2>4
  <2> QED  BY <2>1, <2>5, <2>6, <2>7 DEF BucketInv, shown, missing
<1>13. ASSUME Admit(part) PROVE BucketInv'
  <2>1. Accepted(member, part)
    BY <1>3, <1>13 DEF Admit, Accepted
  <2>2. ToMember(member, part, types[part]) = ViewOf(here[1], here[2])
    BY <1>3, <1>8, <2>1 DEF ViewOf
  <2>3. /\ views' = views \cup {ViewOf(here[1], here[2])}
        /\ gaps' = IF part = CandidateAndDispute /\ IsGap(member, part)
                   THEN gaps \cup {ViewOf(here[1], here[2])} ELSE gaps
        /\ omissions' = omissions
    BY <1>13, <2>2 DEF Admit
  <2>4. shown' = shown \cup {here}
    BY <1>6, <1>8, <1>9, <2>1
  <2>5. missing' = IF part = CandidateAndDispute /\ IsGap(member, part)
                   THEN missing \cup {here} ELSE missing
    BY <1>2, <1>8, <2>4
  <2>6. Settled' \ shown' = Settled \ shown
    BY <1>9, <1>10, <2>4
  <2> HIDE DEF here, shown, missing
  <2>7. {ViewOf(np[1], np[2]) : np \in shown}' = views'
    BY <1>2, <1>11, <2>3, <2>4
  <2>8. {ViewOf(np[1], np[2]) : np \in missing}' = gaps'
    BY <1>2, <1>11, <2>3, <2>5
  <2>9. {Omission(np[1], np[2], VerdictOn(np[1], np[2])) : np \in Settled \ shown}'
          = omissions'
    BY <1>2, <1>11, <2>3, <2>6
  <2> QED  BY <2>7, <2>8, <2>9 DEF BucketInv, shown, missing
<1>14. BucketInv'
  BY <1>1, <1>12, <1>13
<1> QED  BY <1>4, <1>5, <1>7, <1>14 DEF IInv

LEMMA EndMemberIInv ==
  ASSUME IInv, EndMember
  PROVE  IInv'
<1>1. UNCHANGED <<inputs, views, gaps, omissions>>
        /\ UNCHANGED <<todo, member, undone, decisions, types>>
        /\ pc = "build" /\ undone = {} /\ pc' = "member"
  BY DEF EndMember
<1>2. Members' = Members /\ \A m : Parts(m)' = Parts(m)
  BY <1>1, InputsFixed
<1>3. TypeOK'
  BY <1>1, <1>2 DEF IInv, TypeOK, inputs
<1>4. SliceInv'
  BY <1>1, SlicesKept DEF IInv
<1>5. DecisionInv'
  BY <1>1 DEF DecisionInv
<1>6. Settled' = Settled
  BY <1>1, <1>2 DEF Settled
<1>7. BucketInv'
  BY <1>1, <1>6, BucketsKept DEF IInv
<1> QED  BY <1>3, <1>4, <1>5, <1>7 DEF IInv

LEMMA FinishIInv ==
  ASSUME IInv, Finish
  PROVE  IInv'
<1>1. UNCHANGED <<inputs, views, gaps, omissions>>
        /\ UNCHANGED <<todo, member, undone, decisions, types>>
        /\ pc = "member" /\ todo = {} /\ pc' = "done"
  BY DEF Finish
<1>2. Members' = Members /\ \A m : Parts(m)' = Parts(m)
  BY <1>1, InputsFixed
<1>3. TypeOK'
  BY <1>1, <1>2 DEF IInv, TypeOK, inputs
<1>4. SliceInv'
  BY <1>1, SlicesKept DEF IInv
<1>5. DecisionInv'
  BY <1>1 DEF DecisionInv
<1>6. Settled' = Settled
  BY <1>1, <1>2 DEF Settled
<1>7. BucketInv'
  BY <1>1, <1>6, BucketsKept DEF IInv
<1> QED  BY <1>3, <1>4, <1>5, <1>7 DEF IInv

LEMMA StutterIInv ==
  ASSUME IInv, UNCHANGED vars
  PROVE  IInv'
<1>1. UNCHANGED <<inputs, views, gaps, omissions>>
        /\ UNCHANGED <<todo, member, undone, decisions, types, pc>>
  BY DEF vars
<1>2. /\ Members' = Members
      /\ \A m : Parts(m)' = Parts(m)
      /\ \A m, p : VerdictOn(m, p)' = VerdictOn(m, p)
      /\ \A m, p : AdmittedTypes(m, p)' = AdmittedTypes(m, p)
  BY <1>1, InputsFixed
<1>3. TypeOK'
  BY <1>1, <1>2 DEF IInv, TypeOK, inputs
<1>4. SliceInv'
  BY <1>1, SlicesKept DEF IInv
<1>5. \A m, p : Accepted(m, p)' = Accepted(m, p)
  BY <1>2 DEF Accepted
<1>6. DecisionInv'
  BY <1>1, <1>2, <1>5 DEF IInv, DecisionInv
<1>7. Settled' = Settled
  BY <1>1, <1>2 DEF Settled
<1>8. BucketInv'
  BY <1>1, <1>7, BucketsKept DEF IInv
<1> QED  BY <1>3, <1>4, <1>6, <1>8 DEF IInv

\* The two passes keep the invariant: at each moment the buckets hold exactly
\* what the policy says of the (member, partition) pairs dealt with so far.
THEOREM Invariance == Spec => []IInv
<1>1. Init => IInv
  BY InitIInv
<1>2. IInv /\ [Next]_vars => IInv'
  BY TakeIInv, DecideIInv, EndDecisionsIInv, BuildIInv, EndMemberIInv, FinishIInv,
     StutterIInv DEF Next, Done
<1> QED  BY <1>1, <1>2, PTL DEF Spec

-----------------------------------------------------------------------------
(* What the invariant says of one view.                                     *)

LEMMA ViewShape ==
  ASSUME IInv, NEW v \in views
  PROVE  /\ v.id \in Members /\ v.partition \in Parts(v.id)
         /\ Accepted(v.id, v.partition)
         /\ v.statements = Incident(v.id, v.partition)
         /\ v.rdfTypes = AdmittedTypes(v.id, v.partition)
         /\ v = ViewOf(v.id, v.partition)
         /\ <<v.id, v.partition>> \in Settled
<1>1. PICK np \in Settled : Accepted(np[1], np[2]) /\ v = ViewOf(np[1], np[2])
  BY DEF IInv, BucketInv
<1>2. np[1] \in Members /\ np[2] \in Parts(np[1]) /\ np = <<np[1], np[2]>>
  BY <1>1 DEF Settled
<1>3. /\ v.id = np[1] /\ v.partition = np[2]
      /\ v.statements = Incident(np[1], np[2])
      /\ v.rdfTypes = AdmittedTypes(np[1], np[2])
  BY <1>1 DEF ViewOf, ToMember
<1> QED  BY <1>1, <1>2, <1>3

\* What admission means for a gated slice: one status decides, and the bounds
\* allow as_of.
LEMMA AdmittedSlice ==
  ASSUME NEW stmts, \A q \in stmts : WellTyped(q), NEW asOf \in Time,
         NEW part \in {ConfirmedEnterprise, CandidateAndDispute},
         Decide(part, stmts, asOf) = "accept"
  PROVE  /\ Archived \notin Objects(stmts, hasConfirmationStatus)
         /\ \A t \in Objects(stmts, validFrom) : t <= asOf
         /\ \/ Objects(stmts, validUntil) = {}
            \/ \E t \in Objects(stmts, validUntil) : t >= asOf
         /\ part = ConfirmedEnterprise =>
               /\ Confirmed \in Objects(stmts, hasConfirmationStatus)
               /\ Candidate \notin Objects(stmts, hasConfirmationStatus)
<1> DEFINE statuses == Objects(stmts, hasConfirmationStatus)
           st == StatusOf(stmts)
<1>1. part \notin {DecisionProvenance, DerivedContext}
  BY CompilerAssumption
<1>2. Valid(stmts, asOf) = "accept"
  BY <1>1, CompilerAssumption DEF Decide
<1>3. \/ part = ConfirmedEnterprise /\ st = Confirmed
      \/ part = CandidateAndDispute /\ st \in {Candidate, PreliminarilyConfirmed, NoStatus}
  BY <1>1, CompilerAssumption DEF Decide
<1>4. Objects(stmts, validFrom) \subseteq Time /\ Objects(stmts, validUntil) \subseteq Time
  BY DEF Objects, WellTyped
<1>5. Time \subseteq Nat
  BY CompilerAssumption
<1>6. /\ \A t \in Objects(stmts, validFrom) : ~ (t > asOf)
      /\ ~ (Objects(stmts, validUntil) # {} /\ \A t \in Objects(stmts, validUntil) : t < asOf)
  BY <1>2 DEF Valid
<1>7. statuses # {} =>
        st \in statuses /\ statuses \subseteq Status
          /\ \A tt \in statuses : StatusRank[st] <= StatusRank[tt]
  BY FirstStatus
<1>8. /\ StatusRank[Archived] \in Nat /\ StatusRank[Candidate] \in Nat
      /\ StatusRank[Confirmed] \in Nat /\ StatusRank[PreliminarilyConfirmed] \in Nat
      /\ StatusRank[Archived] < StatusRank[Candidate]
      /\ StatusRank[Candidate] < StatusRank[Confirmed]
      /\ StatusRank[Confirmed] < StatusRank[PreliminarilyConfirmed]
      /\ NoStatus \notin Status /\ Confirmed \in Status
  BY CompilerAssumption
<1>9. statuses = {} => st = NoStatus
  BY DEF StatusOf
<1> HIDE DEF statuses, st
<1>10. Archived \notin statuses
  BY <1>3, <1>7, <1>8
<1>11. part = ConfirmedEnterprise => Confirmed \in statuses /\ Candidate \notin statuses
  BY <1>3, <1>7, <1>8, <1>9, CompilerAssumption
<1>12. /\ asOf \in Nat
       /\ Objects(stmts, validFrom) \subseteq Nat
       /\ Objects(stmts, validUntil) \subseteq Nat
  BY <1>4, <1>5
<1>13. \A t \in Objects(stmts, validFrom) : t <= asOf
  BY <1>6, <1>12
<1>14. Objects(stmts, validUntil) = {} \/ \E t \in Objects(stmts, validUntil) : t >= asOf
  <2>1. SUFFICES ASSUME Objects(stmts, validUntil) # {}
                 PROVE  \E t \in Objects(stmts, validUntil) : t >= asOf
    OBVIOUS
  <2>2. PICK t \in Objects(stmts, validUntil) : ~ (t < asOf)
    BY <1>6, <2>1
  <2>3. t \in Nat
    BY <1>12, <2>2
  <2> QED  BY <1>12, <2>2, <2>3
<1> QED  BY <1>10, <1>11, <1>13, <1>14 DEF statuses

\* Nothing archived, contradicted, early or expired is shown by the gated
\* partitions (AdmissionPolicy.decide).
THEOREM Admissibility == Spec => []GatedViewsAreAdmissible
<1>1. IInv => GatedViewsAreAdmissible
  <2> SUFFICES ASSUME IInv, NEW v \in views,
                      v.partition \in {ConfirmedEnterprise, CandidateAndDispute}
               PROVE  LET own == Own(v.id, v.partition)
                          statuses == Objects(own, hasConfirmationStatus)
                          until == Objects(own, validUntil)
                      IN  /\ Archived \notin statuses
                          /\ \A t \in Objects(own, validFrom) : t <= request.asOf
                          /\ until = {} \/ \E t \in until : t >= request.asOf
                          /\ v.partition = ConfirmedEnterprise =>
                                Confirmed \in statuses /\ Candidate \notin statuses
    BY DEF GatedViewsAreAdmissible
  <2>1. v.id \in Members /\ Decide(v.partition, Own(v.id, v.partition), request.asOf) = "accept"
    BY ViewShape DEF Accepted, VerdictOn
  <2>2. request.asOf \in Time
    BY CompilerAssumption DEF IInv, TypeOK
  <2>3. \A q \in Own(v.id, v.partition) : WellTyped(q)
    BY <2>1 DEF IInv, SliceInv, Own
  <2> QED  BY <2>1, <2>2, <2>3, AdmittedSlice
<1> QED  BY <1>1, Invariance, PTL

\* A view is coloured by the types of its own partition only
\* (types_by_partition in ContextCompiler.compile).
THEOREM TypesAtHome == Spec => []TypesStayHome
<1>1. IInv => TypesStayHome
  <2> SUFFICES ASSUME IInv, NEW v \in views, NEW t \in v.rdfTypes
               PROVE  \E q \in members[v.id].subject :
                        q.s = v.id /\ q.p = rdfType /\ q.o = t /\ q.g = v.partition
    BY DEF TypesStayHome
  <2>1. v.id \in Members /\ t \in Objects(Own(v.id, v.partition), rdfType)
    BY ViewShape DEF AdmittedTypes
  <2>2. PICK q \in Own(v.id, v.partition) : q.p = rdfType /\ q.o = t
    BY <2>1 DEF Objects
  <2>3. q \in members[v.id].subject /\ q.g = v.partition
    BY <2>2 DEF Own
  <2> QED  BY <2>1, <2>2, <2>3 DEF IInv, SliceInv
<1> QED  BY <1>1, Invariance, PTL

\* The epistemic levels do not mix (incident_by_partition, _proof).
THEOREM Separation == Spec => []PartitionsApart
<1>1. ASSUME IInv PROVE PartitionsApart
  <2>1. ASSUME NEW v \in views, NEW q \in v.statements
        PROVE  q.g = v.partition /\ v.id \in {q.s, q.o} /\ q.g \in Allowed
    <3>1. v.id \in Members /\ q \in Incident(v.id, v.partition)
      BY ViewShape, <1>1
    <3>2. q \in members[v.id].incident /\ q.g = v.partition
      BY <3>1 DEF Incident
    <3> QED  BY <3>1, <3>2, <1>1 DEF IInv, SliceInv
  <2>2. \A q \in Proof : q.g = DecisionProvenance
    BY <2>1 DEF Proof, Bucket
  <2>3. ContributingGraphs \subseteq Allowed
    BY <2>1 DEF ContributingGraphs
  <2> QED  BY <2>1, <2>2, <2>3 DEF PartitionsApart
<1> QED  BY <1>1, Invariance, PTL

\* context_gaps is the part of candidate_context typed ContextGap.
THEOREM GapsExact == Spec => []GapsAreCandidates
<1>1. ASSUME IInv PROVE GapsAreCandidates
  <2> DEFINE missing == {np \in {x \in Settled : Accepted(x[1], x[2])} :
                          np[2] = CandidateAndDispute /\ IsGap(np[1], np[2])}
  <2>1. gaps = {ViewOf(np[1], np[2]) : np \in missing}
          /\ views = {ViewOf(np[1], np[2]) : np \in {x \in Settled : Accepted(x[1], x[2])}}
    BY <1>1 DEF IInv, BucketInv
  <2>2. ASSUME NEW v \in gaps
        PROVE  v \in CandidateContext /\ ContextGap \in v.rdfTypes
    <3>1. PICK np \in missing : v = ViewOf(np[1], np[2])
      BY <2>1
    <3>2. v \in views
      BY <2>1, <3>1
    <3>3. v.partition = np[2] /\ v.rdfTypes = AdmittedTypes(np[1], np[2])
      BY <3>1 DEF ViewOf, ToMember
    <3> QED  BY <3>1, <3>2, <3>3 DEF CandidateContext, Bucket, IsGap, AdmittedTypes
  <2>3. ASSUME NEW v \in CandidateContext, ContextGap \in v.rdfTypes
        PROVE  v \in gaps
    <3>1. v \in views /\ v.partition = CandidateAndDispute
      BY DEF CandidateContext, Bucket
    <3> DEFINE np == <<v.id, v.partition>>
    <3>2. np \in Settled /\ Accepted(v.id, v.partition) /\ v = ViewOf(v.id, v.partition)
            /\ v.rdfTypes = AdmittedTypes(v.id, v.partition)
      BY <1>1, <3>1, ViewShape
    <3>3. IsGap(v.id, v.partition)
      BY <2>3, <3>2 DEF IsGap, AdmittedTypes
    <3>4. np \in missing /\ v = ViewOf(np[1], np[2])
      BY <3>1, <3>2, <3>3
    <3> HIDE DEF np, missing
    <3> QED  BY <2>1, <3>4
  <2> QED  BY <2>2, <2>3 DEF GapsAreCandidates, CandidateContext, Bucket
<1> QED  BY <1>1, Invariance, PTL

\* Each partition a member occurs in is told exactly once: as a view or as an
\* omission (ContextCompiler.compile).
THEOREM NothingLost == Spec => []EachPartOnce
<1>1. ASSUME IInv PROVE EachPartOnce
  <2> SUFFICES ASSUME pc = "done", NEW n \in Members, NEW part \in Parts(n)
               PROVE  LET vs == {v \in views : v.id = n /\ v.partition = part}
                          os == {o \in omissions : o.subject = n /\ o.partition = part}
                      IN  \/ vs # {} /\ os = {} /\ \A v, w \in vs : v = w
                          \/ vs = {} /\ os # {} /\ \A o, u \in os : o = u
    BY DEF EachPartOnce
  <2> DEFINE vs == {v \in views : v.id = n /\ v.partition = part}
             os == {o \in omissions : o.subject = n /\ o.partition = part}
             np == <<n, part>>
  <2>1. np \in Settled
    <3>1. part \in Graph /\ n \notin todo
      BY <1>1 DEF Parts, IInv, TypeOK
    <3> QED  BY <3>1 DEF Settled
  <2>2. \A v \in vs : v = ViewOf(n, part) /\ Accepted(n, part)
    BY <1>1, ViewShape
  <2>3. \A o \in os : o = Omission(n, part, VerdictOn(n, part)) /\ ~ Accepted(n, part)
    <3> SUFFICES ASSUME NEW o \in os
                 PROVE  o = Omission(n, part, VerdictOn(n, part)) /\ ~ Accepted(n, part)
      OBVIOUS
    <3>1. PICK x \in Settled : /\ ~ Accepted(x[1], x[2])
                               /\ o = Omission(x[1], x[2], VerdictOn(x[1], x[2]))
      BY <1>1 DEF IInv, BucketInv
    <3>2. o.subject = x[1] /\ o.partition = x[2]
      BY <3>1 DEF Omission
    <3> QED  BY <3>1, <3>2
  <2>4. Accepted(n, part) => ViewOf(n, part) \in vs
    <3>1. ViewOf(n, part).id = n /\ ViewOf(n, part).partition = part
      BY DEF ViewOf, ToMember
    <3>2. np[1] = n /\ np[2] = part
      OBVIOUS
    <3> HIDE DEF np
    <3>3. Accepted(n, part) => ViewOf(n, part) \in views
      BY <1>1, <2>1, <3>2 DEF IInv, BucketInv
    <3> QED  BY <3>1, <3>3
  <2>5. ~ Accepted(n, part) => Omission(n, part, VerdictOn(n, part)) \in os
    <3>1. /\ Omission(n, part, VerdictOn(n, part)).subject = n
          /\ Omission(n, part, VerdictOn(n, part)).partition = part
      BY DEF Omission
    <3>2. np[1] = n /\ np[2] = part
      OBVIOUS
    <3> HIDE DEF np
    <3>3. ~ Accepted(n, part) => Omission(n, part, VerdictOn(n, part)) \in omissions
      BY <1>1, <2>1, <3>2 DEF IInv, BucketInv
    <3> QED  BY <3>1, <3>3
  <2> HIDE DEF vs, os
  <2>6. \/ vs # {} /\ os = {} /\ \A v, w \in vs : v = w
        \/ vs = {} /\ os # {} /\ \A o, u \in os : o = u
    BY <2>2, <2>3, <2>4, <2>5
  <2> QED  BY <2>6 DEF vs, os
<1> QED  BY <1>1, Invariance, PTL

-----------------------------------------------------------------------------
(* Where the members come from.                                             *)

ComesFrom(D) ==
  /\ D \in Datasets
  /\ \E root \in Roots(D, Allowed) : members = Retrieved(D, Allowed, root, MaxDepth)

FromStore == \E D \in Datasets : ComesFrom(D)

\* The members are an input: whatever dataset they were read from at the start,
\* they are from it at the end.
LEMMA MembersFromStore == Spec => []FromStore
<1>1. Init => FromStore
  BY DEF Init, FromStore, ComesFrom, Allowed
<1>2. FromStore /\ [Next]_vars => FromStore'
  <2> SUFFICES ASSUME FromStore, [Next]_vars PROVE FromStore'
    OBVIOUS
  <2>1. UNCHANGED inputs
    BY DEF Next, Take, DecidePart, EndDecisions, BuildPart, EndMember, Finish, Done, vars, inputs
  <2>2. request' = request /\ members' = members /\ Allowed' = Allowed
    BY <2>1, InputsFixed DEF inputs
  <2> QED  BY <2>2 DEF FromStore, ComesFrom
<1> QED  BY <1>1, <1>2, PTL DEF Spec

\* What is within reach of the root is the root or somebody's neighbour.
LEMMA BallMember ==
  ASSUME NEW D, NEW A, NEW root, NEW n \in Ball(D, A, root, MaxDepth)
  PROVE  n = root \/ \E m : n \in Neighbors(D, A, m)
<1>1. PICK k \in 0..MaxDepth : ReachableIn(D, A, root, k, n)
  BY DEF Ball
<1>2. PICK w \in [0..k -> Node] : Walk(D, A, root, w, k, n)
  BY <1>1 DEF ReachableIn
<1>3. CASE k = 0
  BY <1>2, <1>3 DEF Walk
<1>4. CASE k # 0
  <2>1. k - 1 \in 0..(k - 1) /\ (k - 1) + 1 = k
    BY <1>1, <1>4, CompilerAssumption
  <2>2. w[k] = n /\ w[(k - 1) + 1] \in Neighbors(D, A, w[k - 1])
    BY <1>2, <2>1 DEF Walk
  <2> QED  BY <2>1, <2>2
<1> QED  BY <1>3, <1>4

\* A member is an end of a visible statement; nothing restricted is a member.
LEMMA MemberSeen ==
  ASSUME NEW D, ComesFrom(D), NEW n \in Members
  PROVE  /\ n \notin RestrictedNodes(D)
         /\ \E q \in StatementsIn(D, Allowed) : n \in {q.s, q.o}
         /\ members[n] = Slices(D, Allowed, n)
<1>1. PICK root \in Roots(D, Allowed) : members = Retrieved(D, Allowed, root, MaxDepth)
  BY DEF ComesFrom
<1>2. n \in Ball(D, Allowed, root, MaxDepth) /\ members[n] = Slices(D, Allowed, n)
  BY <1>1 DEF Members, Retrieved
<1>3. \E q \in StatementsIn(D, Allowed) : n \in {q.s, q.o}
  <2>1. CASE n = root
    BY <2>1 DEF Roots
  <2>2. CASE \E m : n \in Neighbors(D, Allowed, m)
    BY <2>2 DEF Neighbors
  <2> QED  BY <1>2, <2>1, <2>2, BallMember
<1>4. \A q \in StatementsIn(D, Allowed) : {q.s, q.o} \cap RestrictedNodes(D) = {}
  BY DEF StatementsIn, Ok
<1> QED  BY <1>2, <1>3, <1>4

-----------------------------------------------------------------------------
PackVisible ==
  \E D \in Datasets :
    /\ ComesFrom(D)
    /\ \A v \in views : v.id \notin RestrictedNodes(D)
    /\ \A o \in omissions : o.subject \notin RestrictedNodes(D)
    /\ \A v \in views : \A q \in v.statements :
          /\ q \in D
          /\ q.g \in PurposeAllowed[request.purpose] \cap Registered
          /\ q.g \notin RestrictedGraph
          /\ request.scopes # Unlimited => q.g \in request.scopes
          /\ {q.s, q.o} \cap RestrictedNodes(D) = {}

\* The gates of the store hold through retrieval and both passes: no view, no
\* statement of a view and no omission of the pack names a restricted resource,
\* and every statement is of a partition the purpose and the scopes open
\* (RdfDatasetStore.statements_in and _ok, AdmissionPolicy.allowed_graphs).
THEOREM PackStaysVisible == Spec => []PackVisible
<1>1. ASSUME IInv, FromStore PROVE PackVisible
  <2>1. PICK D \in Datasets : ComesFrom(D)
    BY <1>1 DEF FromStore
  <2>2. \A v \in views : v.id \notin RestrictedNodes(D)
    BY <1>1, <2>1, ViewShape, MemberSeen
  <2>3. ASSUME NEW o \in omissions PROVE o.subject \notin RestrictedNodes(D)
    <3>1. PICK np \in Settled : o = Omission(np[1], np[2], VerdictOn(np[1], np[2]))
      BY <1>1 DEF IInv, BucketInv
    <3>2. o.subject = np[1] /\ np[1] \in Members
      BY <3>1 DEF Omission, Settled
    <3> QED  BY <2>1, <3>2, MemberSeen
  <2>4. ASSUME NEW v \in views, NEW q \in v.statements
        PROVE  q \in StatementsIn(D, Allowed)
    <3>1. v.id \in Members /\ q \in members[v.id].incident
      BY <1>1, ViewShape DEF Incident
    <3>2. members[v.id] = Slices(D, Allowed, v.id)
      BY <2>1, <3>1, MemberSeen
    <3>3. q \in MemberStatements(D, Allowed, v.id)
      BY <3>1, <3>2 DEF Slices
    <3> QED  BY <3>3 DEF MemberStatements
  <2>5. \A q \in StatementsIn(D, Allowed) :
          /\ q \in D
          /\ q.g \in PurposeAllowed[request.purpose] \cap Registered
          /\ q.g \notin RestrictedGraph
          /\ request.scopes # Unlimited => q.g \in request.scopes
          /\ {q.s, q.o} \cap RestrictedNodes(D) = {}
    BY DEF StatementsIn, Ok, Allowed, AllowedOf, AllowedGraphs
  <2> QED  BY <2>1, <2>2, <2>3, <2>4, <2>5 DEF PackVisible
<1> QED  BY <1>1, Invariance, MembersFromStore, PTL

MembersTold ==
  pc = "done" =>
    \A n \in Members : \/ \E v \in views : v.id = n
                       \/ \E o \in omissions : o.subject = n

\* No retrieved member disappears from a finished pack, the root included: one
\* that no partition may show is at least named by an omission.  A member is an
\* end of a visible statement, so it occurs in some partition (Parts), and each
\* partition is told (ContextCompiler.compile).
THEOREM EveryMemberTold == Spec => []MembersTold
<1>1. ASSUME IInv, FromStore, EachPartOnce PROVE MembersTold
  <2> SUFFICES ASSUME pc = "done", NEW n \in Members
               PROVE  \/ \E v \in views : v.id = n
                      \/ \E o \in omissions : o.subject = n
    BY DEF MembersTold
  <2>1. PICK D \in Datasets : ComesFrom(D)
    BY <1>1 DEF FromStore
  <2>2. PICK q \in StatementsIn(D, Allowed) : n \in {q.s, q.o}
    BY <2>1, MemberSeen
  <2>3. q \in members[n].incident
    <3>1. members[n] = Slices(D, Allowed, n)
      BY <2>1, MemberSeen
    <3>2. members[n].incident = MemberStatements(D, Allowed, n)
      BY <3>1 DEF Slices
    <3>3. q \in MemberStatements(D, Allowed, n)
      BY <2>2 DEF MemberStatements
    <3> QED  BY <3>2, <3>3
  <2>4. q.g \in Graph
    BY <2>2, CompilerAssumption DEF StatementsIn, Quad
  <2>5. q.g \in Parts(n)
    BY <2>3, <2>4 DEF Parts, Incident
  <2> DEFINE vs == {v \in views : v.id = n /\ v.partition = q.g}
             os == {o \in omissions : o.subject = n /\ o.partition = q.g}
  <2>6. vs # {} \/ os # {}
    BY <1>1, <2>5 DEF EachPartOnce
  <2> QED  BY <2>6
<1> QED  BY <1>1, Invariance, MembersFromStore, NothingLost, PTL

PackKeyed ==
  /\ \A v \in views : v.id \in Node /\ v.partition \in Graph
  /\ \A v, w \in views : v.id = w.id /\ v.partition = w.partition => v = w
  /\ gaps \subseteq views

\* A pack is what the decision context takes for granted of it: a view is known
\* by its member and partition, and the gaps are views of the pack
\* (PackAssumption of DecisionPack; view keys of _build_units_by_section).
THEOREM PackIsKeyed == Spec => []PackKeyed
<1>1. ASSUME IInv, FromStore, GapsAreCandidates PROVE PackKeyed
  <2>1. Members \subseteq Node
    BY <1>1 DEF FromStore, ComesFrom, Members, Retrieved, Ball
  <2>2. ASSUME NEW v \in views PROVE v.id \in Node /\ v.partition \in Graph
    BY <1>1, <2>1, ViewShape DEF Parts
  <2>3. ASSUME NEW v \in views, NEW w \in views, v.id = w.id, v.partition = w.partition
        PROVE  v = w
    <3>1. v = ViewOf(v.id, v.partition) /\ w = ViewOf(w.id, w.partition)
      BY <1>1, ViewShape
    <3> QED  BY <2>3, <3>1
  <2>4. gaps \subseteq views
    BY <1>1 DEF GapsAreCandidates, CandidateContext, Bucket
  <2> QED  BY <2>2, <2>3, <2>4 DEF PackKeyed
<1> QED  BY <1>1, Invariance, MembersFromStore, GapsExact, PTL

\* Every partition of every member.
AllPairs == {np \in Members \X Graph : np[2] \in Parts(np[1])}

PackDetermined ==
  pc = "done" =>
    LET shown == {np \in AllPairs : Accepted(np[1], np[2])} IN
    /\ views = {ViewOf(np[1], np[2]) : np \in shown}
    /\ omissions = {Omission(np[1], np[2], VerdictOn(np[1], np[2])) : np \in AllPairs \ shown}
    /\ gaps = {ViewOf(np[1], np[2]) :
                  np \in {x \in shown : x[2] = CandidateAndDispute /\ IsGap(x[1], x[2])}}

\* A finished pack is a function of the request and the retrieved slices: neither
\* the order of the two loops nor what one member left in the dictionaries of the
\* first pass for the next shows in it (decisions and types of
\* ContextCompiler.compile are built anew for each member).
THEOREM PackIsFunction == Spec => []PackDetermined
<1>1. ASSUME IInv, pc = "done" PROVE Settled = AllPairs
  BY <1>1 DEF IInv, TypeOK, Settled, AllPairs
<1>2. IInv => PackDetermined
  BY <1>1 DEF IInv, BucketInv, PackDetermined
<1> QED  BY <1>2, Invariance, PTL

-----------------------------------------------------------------------------
(* How much work there is: a member costs two passes over the partitions.   *)

WorkLeft ==
  Cardinality(todo) * (2 * Cardinality(Graph) + 4)
    + (CASE pc = "decide" -> Cardinality(undone) + Cardinality(Graph) + 3
         [] pc = "build" -> Cardinality(undone) + 2
         [] pc = "member" -> 1
         [] pc = "done" -> 0)

LEMMA ImageFinite ==
  ASSUME NEW S, IsFiniteSet(S), NEW f, DOMAIN f = S
  PROVE  IsFiniteSet({f[x] : x \in S})
<1> DEFINE T == {f[x] : x \in S}
<1>1. [x \in S |-> f[x]] \in Surjection(S, T)
  BY DEF Surjection
<1> QED  BY <1>1, FS_Surjection

LEMMA MembersFinite ==
  ASSUME FromStore
  PROVE  IsFiniteSet(Members)
<1>1. PICK D \in Datasets : ComesFrom(D)
  BY DEF FromStore
<1> DEFINE f == [q \in D |-> q.s]
           g == [q \in D |-> q.o]
           Ends == {f[q] : q \in D} \cup {g[q] : q \in D}
<1>2. IsFiniteSet(Ends)
  <2>1. IsFiniteSet(D)
    BY CompilerAssumption
  <2>2. IsFiniteSet({f[q] : q \in D}) /\ IsFiniteSet({g[q] : q \in D})
    BY <2>1, ImageFinite
  <2> QED  BY <2>2, FS_Union
<1>3. Members \subseteq Ends
  <2>1. ASSUME NEW n \in Members PROVE n \in Ends
    <3>1. PICK q \in StatementsIn(D, Allowed) : n \in {q.s, q.o}
      BY <1>1, MemberSeen
    <3>2. q \in D
      BY <3>1 DEF StatementsIn
    <3> QED  BY <3>1, <3>2
  <2> QED  BY <2>1
<1> QED  BY <1>2, <1>3, FS_Subset

LEMMA CountsAreNatural ==
  ASSUME IInv, FromStore
  PROVE  /\ IsFiniteSet(todo) /\ Cardinality(todo) \in Nat
         /\ IsFiniteSet(undone) /\ Cardinality(undone) \in Nat
         /\ Cardinality(Graph) \in Nat
         /\ \A n : Cardinality(Parts(n)) \in Nat /\ Cardinality(Parts(n)) <= Cardinality(Graph)
<1>1. IsFiniteSet(todo) /\ IsFiniteSet(undone)
  BY MembersFinite, CompilerAssumption, FS_Subset DEF IInv, TypeOK
<1>2. \A n : /\ Cardinality(Parts(n)) <= Cardinality(Graph)
             /\ IsFiniteSet(Parts(n))
  BY CompilerAssumption, FS_Subset DEF Parts
<1> QED  BY <1>1, <1>2, CompilerAssumption, FS_CardinalityType

LEMMA RowLess ==
  ASSUME NEW s \in Nat, NEW w \in Nat
  PROVE  s * w \in Nat /\ (s - 1) * w = s * w - w
OBVIOUS

LEMMA WorkIsNatural == IInv /\ FromStore => WorkLeft \in Nat
<1> SUFFICES ASSUME IInv, FromStore PROVE WorkLeft \in Nat
  OBVIOUS
<1>1. Cardinality(todo) * (2 * Cardinality(Graph) + 4) \in Nat
  <2>1. Cardinality(todo) \in Nat /\ 2 * Cardinality(Graph) + 4 \in Nat
    BY CountsAreNatural
  <2> QED  BY <2>1, RowLess
<1>2. pc \in {"member", "decide", "build", "done"}
  BY DEF IInv, TypeOK
<1> QED  BY <1>1, <1>2, CountsAreNatural DEF WorkLeft

LEMMA StepWorks ==
  ASSUME IInv, FromStore, Next, vars' # vars
  PROVE  WorkLeft' < WorkLeft
<1> DEFINE left == Cardinality(todo)
           G == Cardinality(Graph)
           width == 2 * G + 4
<1>0. left \in Nat /\ G \in Nat /\ width \in Nat /\ left * width \in Nat
  <2>1. left \in Nat /\ G \in Nat /\ width \in Nat
    BY CountsAreNatural
  <2> HIDE DEF left, G, width
  <2> QED  BY <2>1, RowLess
<1>1. ASSUME NEW n \in todo, Take(n) PROVE WorkLeft' < WorkLeft
  <2>1. left' = left - 1
    BY <1>1, CountsAreNatural, FS_RemoveElement DEF Take
  <2>2. Cardinality(undone') \in Nat /\ Cardinality(undone') <= G
    BY <1>1, CountsAreNatural DEF Take
  <2>3. WorkLeft = left * width + 1
    BY <1>1 DEF WorkLeft, Take
  <2>4. WorkLeft' = left' * width + (Cardinality(undone') + G + 3)
    BY <1>1 DEF WorkLeft, Take
  <2>5. width = 2 * G + 4
    OBVIOUS
  <2> HIDE DEF left, G, width
  <2>6. left' * width = left * width - width
    BY <1>0, <2>1, RowLess
  <2> QED  BY <1>0, <2>2, <2>3, <2>4, <2>5, <2>6
<1>2. ASSUME NEW part \in undone, DecidePart(part) \/ BuildPart(part)
      PROVE  WorkLeft' < WorkLeft
  <2>1. todo' = todo /\ pc' = pc /\ pc \in {"decide", "build"} /\ undone' = undone \ {part}
    BY <1>2 DEF DecidePart, BuildPart
  <2>2. Cardinality(undone') = Cardinality(undone) - 1 /\ Cardinality(undone) \in Nat
    BY <2>1, CountsAreNatural, FS_RemoveElement
  <2>3. /\ pc = "decide" => /\ WorkLeft = left * width + (Cardinality(undone) + G + 3)
                            /\ WorkLeft' = left * width + (Cardinality(undone') + G + 3)
        /\ pc = "build" => /\ WorkLeft = left * width + (Cardinality(undone) + 2)
                           /\ WorkLeft' = left * width + (Cardinality(undone') + 2)
    BY <2>1 DEF WorkLeft
  <2> HIDE DEF left, G, width
  <2> QED  BY <1>0, <2>1, <2>2, <2>3
<1>3. CASE EndDecisions
  <2>1. Cardinality(undone) = 0
    BY <1>3, FS_EmptySet DEF EndDecisions
  <2>2. Cardinality(undone') \in Nat /\ Cardinality(undone') <= G
    BY <1>3, CountsAreNatural DEF EndDecisions
  <2>3. /\ WorkLeft = left * width + (Cardinality(undone) + G + 3)
        /\ WorkLeft' = left * width + (Cardinality(undone') + 2)
    BY <1>3 DEF WorkLeft, EndDecisions, inputs
  <2> HIDE DEF left, G, width
  <2> QED  BY <1>0, <2>1, <2>2, <2>3
<1>4. CASE EndMember
  <2>1. Cardinality(undone) = 0
    BY <1>4, FS_EmptySet DEF EndMember
  <2>2. /\ WorkLeft = left * width + (Cardinality(undone) + 2)
        /\ WorkLeft' = left * width + 1
    BY <1>4 DEF WorkLeft, EndMember
  <2> HIDE DEF left, G, width
  <2> QED  BY <1>0, <2>1, <2>2
<1>5. CASE Finish
  <2>1. WorkLeft = left * width + 1 /\ WorkLeft' = left * width + 0
    BY <1>5 DEF WorkLeft, Finish
  <2> HIDE DEF left, G, width
  <2> QED  BY <1>0, <2>1
<1>6. ~ Done
  BY DEF Done
<1> QED  BY <1>1, <1>2, <1>3, <1>4, <1>5, <1>6 DEF Next

\* A compilation takes at most two passes over the partitions per member: each
\* step lowers a natural number, whatever the dataset holds (the loops of
\* ContextCompiler.compile).
THEOREM BoundedWork == Spec => [](WorkLeft \in Nat) /\ [][WorkLeft' < WorkLeft]_vars
<1>1. IInv /\ FromStore /\ [Next]_vars => [WorkLeft' < WorkLeft]_vars
  BY StepWorks
<1> QED  BY <1>1, WorkIsNatural, Invariance, MembersFromStore, PTL DEF Spec
=============================================================================
