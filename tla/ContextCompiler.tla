--------------------------- MODULE ContextCompiler --------------------------
(***************************************************************************)
(* ContextCompiler.compile: the retrieved members are cut into views, one  *)
(* per (member, partition); each partition of a member is decided by the   *)
(* admission policy and goes into one bucket of the pack or is reported as *)
(* an omission.                                                            *)
(*                                                                         *)
(* The members are those Retrieval promises: GraphRetriever implements it. *)
(* The loops go over members and partitions in any order, which covers the *)
(* sorted order of the code; the buckets are sets.                         *)
(***************************************************************************)
EXTENDS DatasetStore, FiniteSets

CONSTANTS
    MaxDepth, Datasets,
    Requests,       \* [purpose, scopes, asOf] of the requests considered
    Time,           \* the instants validFrom, validUntil and as_of take
    ConfirmedEnterprise, CandidateAndDispute, DecisionProvenance, DerivedContext,
    rdfType, hasConfirmationStatus, validFrom, validUntil,
    ProofPredicate, \* PROOF_PREDS
    ContextGap,     \* the class tkos:ContextGap
    StatusRank,     \* the place of each status in the sorted statements
    Archived, Candidate, Confirmed, PreliminarilyConfirmed,
    NoStatus        \* the answer None of _status

Status == DOMAIN StatusRank

\* Statements are typed by their predicate: a status is a known one and a
\* validity bound is an instant.
WellTyped(q) ==
    /\ q.p = hasConfirmationStatus => q.o \in Status
    /\ q.p \in {validFrom, validUntil} => q.o \in Time

Verdict == {"undecided", "accept", "partition", "confirmation",
            "not_yet_valid", "expired"}

\* Statuses are ranked in the order of their names, partitions differ, and what
\* is parsed from files is finite.
ASSUME CompilerAssumption ==
    /\ MaxDepth \in Nat
    /\ Datasets \subseteq SUBSET Quad
    /\ IsFiniteSet(Graph)
    /\ \A D \in Datasets : IsFiniteSet(D)
    /\ Requests \subseteq [purpose : Purpose, scopes : Scopes, asOf : Time]
    /\ Time \subseteq Nat
    /\ StatusRank \in [Status -> Nat]
    /\ \A st, tt \in Status : StatusRank[st] = StatusRank[tt] => st = tt
    /\ NoStatus \notin Status
    /\ {Archived, Candidate, Confirmed, PreliminarilyConfirmed} \subseteq Status
    /\ StatusRank[Archived] < StatusRank[Candidate]
    /\ StatusRank[Candidate] < StatusRank[Confirmed]
    /\ StatusRank[Confirmed] < StatusRank[PreliminarilyConfirmed]
    /\ ConfirmedEnterprise \notin {CandidateAndDispute, DecisionProvenance, DerivedContext}
    /\ CandidateAndDispute \notin {DecisionProvenance, DerivedContext}
    /\ \A D \in Datasets : \A q \in D : WellTyped(q)

VARIABLES
    request, members,        \* inputs, never written: what was asked, and
                \* the retrieved members with their two slices
    todo,       \* members the outer loop has still to take
    member,     \* the member in hand
    undone,     \* its partitions the running pass has still to treat
    decisions,  \* pass 1: partition -> verdict
    types,      \* pass 1: partition -> types of the accepted slice
    views,      \* the four buckets, one set: a view names its partition
    gaps,       \* context_gaps
    omissions,
    pc          \* "member", "decide", "build" or "done"

inputs == <<request, members>>
vars == <<inputs, todo, member, undone, decisions, types, views, gaps, omissions, pc>>

-----------------------------------------------------------------------------
(* The members and their slices, as the retriever hands them over.          *)
AllowedOf(r) == AllowedGraphs(r.purpose, r.scopes)
Allowed == AllowedOf(request)

Members == DOMAIN members

Own(n, part) == {q \in members[n].subject : q.g = part}

\* Faulty variant: the incident statements are not cut by partition.
IncidentUncut(n, part) == members[n].incident

Incident(n, part) == {q \in members[n].incident : q.g = part}

Parts(n) == {part \in Graph : Own(n, part) # {} \/ Incident(n, part) # {}}

Objects(stmts, p) == {q.o : q \in {s \in stmts : s.p = p}}

-----------------------------------------------------------------------------
(* AdmissionPolicy.                                                         *)

\* Faulty variant: the last status of the sorted statements is taken.
LastStatus(stmts) ==
    LET found == Objects(stmts, hasConfirmationStatus) IN
    IF found = {} THEN NoStatus
    ELSE CHOOSE st \in found : \A tt \in found : StatusRank[tt] <= StatusRank[st]

\* _status: the first status of the sorted statements, None without one.
StatusOf(stmts) ==
    LET found == Objects(stmts, hasConfirmationStatus) IN
    IF found = {} THEN NoStatus
    ELSE CHOOSE st \in found : \A tt \in found : StatusRank[st] <= StatusRank[tt]

\* _valid: one bound in the future is enough to wait, all must be past to expire.
Valid(stmts, asOf) ==
    LET from  == Objects(stmts, validFrom)
        until == Objects(stmts, validUntil)
    IN  IF \E t \in from : t > asOf THEN "not_yet_valid"
        ELSE IF until # {} /\ \A t \in until : t < asOf THEN "expired"
        ELSE "accept"

\* decide, with _confirmed and _candidate.
Decide(part, stmts, asOf) ==
    LET st == StatusOf(stmts) IN
    CASE part \in {DecisionProvenance, DerivedContext} -> "accept"
      [] part = ConfirmedEnterprise ->
            IF st = Confirmed THEN Valid(stmts, asOf) ELSE "confirmation"
      [] part = CandidateAndDispute ->
            IF st \in {Candidate, PreliminarilyConfirmed, NoStatus}
            THEN Valid(stmts, asOf) ELSE "confirmation"
      [] OTHER -> "partition"

-----------------------------------------------------------------------------
\* _to_member: what a view carries, and _is_gap.
ToMember(n, part, admitted) ==
    [id |-> n, partition |-> part, statements |-> Incident(n, part),
     status |-> StatusOf(Own(n, part)), rdfTypes |-> admitted]

IsGap(n, part) == ContextGap \in Objects(Own(n, part), rdfType)

NotDecided == [part \in Graph |-> "undecided"]
NoTypes == [part \in Graph |-> {}]

Init ==
    /\ request \in Requests
    /\ \E D \in Datasets : \E root \in Roots(D, AllowedOf(request)) :
          /\ members = Retrieved(D, AllowedOf(request), root, MaxDepth)
          /\ member = root
    /\ todo = Members
    /\ undone = {}
    /\ decisions = NotDecided
    /\ types = NoTypes
    /\ views = {}
    /\ gaps = {}
    /\ omissions = {}
    /\ pc = "member"

Take(n) ==
    /\ pc = "member"
    /\ n \in todo
    /\ todo' = todo \ {n}
    /\ member' = n
    /\ undone' = Parts(n)
    /\ decisions' = NotDecided
    /\ types' = NoTypes
    /\ pc' = "decide"
    /\ UNCHANGED <<inputs, views, gaps, omissions>>

\* Faulty variant: the types of every partition of the member are merged.
DecideMerging(part) ==
    /\ pc = "decide"
    /\ part \in undone
    /\ LET own == Own(member, part)
           verdict == Decide(part, own, request.asOf)
       IN  /\ decisions' = [decisions EXCEPT ![part] = verdict]
           /\ types' = IF verdict = "accept"
                       THEN [g \in Graph |-> types[g] \cup Objects(own, rdfType)]
                       ELSE types
    /\ undone' = undone \ {part}
    /\ UNCHANGED <<inputs, todo, member, views, gaps, omissions, pc>>

\* Pass 1: types are collected from accepted slices only.
DecidePart(part) ==
    /\ pc = "decide"
    /\ part \in undone
    /\ LET own == Own(member, part)
           verdict == Decide(part, own, request.asOf)
       IN  /\ decisions' = [decisions EXCEPT ![part] = verdict]
           /\ types' = IF verdict = "accept"
                       THEN [types EXCEPT ![part] = Objects(own, rdfType)]
                       ELSE types
    /\ undone' = undone \ {part}
    /\ UNCHANGED <<inputs, todo, member, views, gaps, omissions, pc>>

EndDecisions ==
    /\ pc = "decide"
    /\ undone = {}
    /\ undone' = Parts(member)
    /\ pc' = "build"
    /\ UNCHANGED <<inputs, todo, member, decisions, types, views, gaps, omissions>>

Omission(n, part, verdict) == [subject |-> n, partition |-> part, verdict |-> verdict]

Omit(part) ==
    /\ decisions[part] # "accept"
    /\ omissions' = omissions \cup {Omission(member, part, decisions[part])}
    /\ UNCHANGED <<views, gaps>>

\* Faulty variants of Admit: a gap listed whatever its partition, and a member
\* kept in its first bucket only.
AdmitAnyGap(part) ==
    LET view == ToMember(member, part, types[part]) IN
    /\ decisions[part] = "accept"
    /\ views' = views \cup {view}
    /\ gaps' = IF IsGap(member, part) THEN gaps \cup {view} ELSE gaps
    /\ UNCHANGED omissions

AdmitOnce(part) ==
    LET view == ToMember(member, part, types[part]) IN
    /\ decisions[part] = "accept"
    /\ views' = IF \E v \in views : v.id = member THEN views ELSE views \cup {view}
    /\ gaps' = IF part = CandidateAndDispute /\ IsGap(member, part)
               THEN gaps \cup {view} ELSE gaps
    /\ UNCHANGED omissions

Admit(part) ==
    LET view == ToMember(member, part, types[part]) IN
    /\ decisions[part] = "accept"
    /\ views' = views \cup {view}
    /\ gaps' = IF part = CandidateAndDispute /\ IsGap(member, part)
               THEN gaps \cup {view} ELSE gaps
    /\ UNCHANGED omissions

\* Pass 2: one view or one omission.
BuildPart(part) ==
    /\ pc = "build"
    /\ part \in undone
    /\ undone' = undone \ {part}
    /\ Omit(part) \/ Admit(part)
    /\ UNCHANGED <<inputs, todo, member, decisions, types, pc>>

EndMember ==
    /\ pc = "build"
    /\ undone = {}
    /\ pc' = "member"
    /\ UNCHANGED <<inputs, todo, member, undone, decisions, types, views, gaps, omissions>>

Finish ==
    /\ pc = "member"
    /\ todo = {}
    /\ pc' = "done"
    /\ UNCHANGED <<inputs, todo, member, undone, decisions, types, views, gaps, omissions>>

Done == pc = "done" /\ UNCHANGED vars

Next ==
    \/ \E n \in todo : Take(n)
    \/ \E part \in undone : DecidePart(part)
    \/ EndDecisions
    \/ \E part \in undone : BuildPart(part)
    \/ EndMember
    \/ Finish
    \/ Done

Spec == Init /\ [][Next]_vars

-----------------------------------------------------------------------------
\* The buckets of the pack, and what is derived from them at the end.
Bucket(part) == {v \in views : v.partition = part}
CurrentFacts == Bucket(ConfirmedEnterprise)
CandidateContext == Bucket(CandidateAndDispute)

Proof == {q \in UNION {v.statements : v \in Bucket(DecisionProvenance)} :
            q.p \in ProofPredicate}

ContributingGraphs == {q.g : q \in UNION {v.statements : v \in views}}
-----------------------------------------------------------------------------
TypeOK ==
    /\ request \in Requests
    /\ members \in [Members -> [subject : SUBSET Quad, incident : SUBSET Quad]]
    /\ todo \subseteq Members
    /\ member \in Members
    /\ undone \subseteq Graph
    /\ decisions \in [Graph -> Verdict]
    /\ types \in [Graph -> SUBSET (Node \cup Literal)]
    /\ pc \in {"member", "decide", "build", "done"}
    /\ pc = "done" => todo = {}

VerdictOn(n, part) == Decide(part, Own(n, part), request.asOf)
Accepted(n, part) == VerdictOn(n, part) = "accept"
AdmittedTypes(n, part) == Objects(Own(n, part), rdfType)
ViewOf(n, part) == ToMember(n, part, AdmittedTypes(n, part))

\* The slices hold visible statements of their member.
SliceInv ==
    \A n \in Members :
        /\ \A q \in members[n].subject : q.s = n /\ q.g \in Allowed /\ WellTyped(q)
        /\ \A q \in members[n].incident : n \in {q.s, q.o} /\ q.g \in Allowed

\* What pass 1 has decided is what the policy says of the slice.
DecisionInv ==
    pc \in {"decide", "build"} =>
        /\ member \notin todo
        /\ undone \subseteq Parts(member)
        /\ \A part \in Parts(member) :
              (pc = "decide" => part \notin undone) =>
                 /\ decisions[part] = VerdictOn(member, part)
                 /\ Accepted(member, part) => types[part] = AdmittedTypes(member, part)

\* The (member, partition) pairs pass 2 has dealt with.
Settled ==
    {np \in Members \X Graph :
        /\ np[1] \notin todo
        /\ np[2] \in Parts(np[1])
        /\ pc = "decide" => np[1] # member
        /\ pc = "build" => np[1] # member \/ np[2] \notin undone}

\* The buckets hold what was settled, and nothing else.
BucketInv ==
    LET shown   == {np \in Settled : Accepted(np[1], np[2])}
        missing == {np \in shown : np[2] = CandidateAndDispute /\ IsGap(np[1], np[2])}
    IN  /\ views = {ViewOf(np[1], np[2]) : np \in shown}
        /\ gaps = {ViewOf(np[1], np[2]) : np \in missing}
        /\ omissions = {Omission(np[1], np[2], VerdictOn(np[1], np[2])) :
                           np \in Settled \ shown}

\* The inductive invariant of the two passes.
IInv == TypeOK /\ SliceInv /\ DecisionInv /\ BucketInv

-----------------------------------------------------------------------------
\* No part of the answer gets lost and none is told twice: when the pack is
\* delivered, each partition a member occurs in gave either one view or one
\* omission (the two passes of compile and its `continue`).
EachPartOnce ==
    pc = "done" =>
        \A n \in Members : \A part \in Parts(n) :
            LET vs == {v \in views : v.id = n /\ v.partition = part}
                os == {o \in omissions : o.subject = n /\ o.partition = part}
            IN  \/ vs # {} /\ os = {} /\ \A v, w \in vs : v = w
                \/ vs = {} /\ os # {} /\ \A o, u \in os : o = u

\* A fact is only shown as current when its member is confirmed in that
\* partition, is in force at as_of, and carries no status that contradicts the
\* confirmation; an archived member is shown by neither gated partition.  The
\* code reads one status, the first of the sorted statements: the property
\* holds because of that order (_status, _confirmed, _candidate, _valid).
GatedViewsAreAdmissible ==
    \A v \in views :
        LET own      == Own(v.id, v.partition)
            statuses == Objects(own, hasConfirmationStatus)
            until    == Objects(own, validUntil)
        IN  v.partition \in {ConfirmedEnterprise, CandidateAndDispute} =>
              /\ Archived \notin statuses
              /\ \A t \in Objects(own, validFrom) : t <= request.asOf
              /\ until = {} \/ \E t \in until : t >= request.asOf
              /\ v.partition = ConfirmedEnterprise =>
                    Confirmed \in statuses /\ Candidate \notin statuses

\* A type asserted in one partition never colours the view of another, and a
\* type asserted in a refused partition only enters no view (the comment on
\* pass 1 of compile).
TypesStayHome ==
    \A v \in views : \A t \in v.rdfTypes :
        \E q \in members[v.id].subject :
            q.s = v.id /\ q.p = rdfType /\ q.o = t /\ q.g = v.partition

\* The epistemic levels never mix: a view holds statements of its own partition
\* only, each about its member, so that no candidate statement is read as a
\* confirmed fact and no proof edge comes from outside the provenance
\* partition (incident_by_partition, _proof, contributing_graphs).
PartitionsApart ==
    /\ \A v \in views : \A q \in v.statements :
          q.g = v.partition /\ v.id \in {q.s, q.o}
    /\ \A q \in Proof : q.g = DecisionProvenance
    /\ ContributingGraphs \subseteq Allowed

\* The gaps of the pack are the candidate views typed ContextGap: what the
\* decision context later treats as mandatory is neither more nor less
\* (_is_gap and the second append).
GapsAreCandidates ==
    gaps = {v \in CandidateContext : ContextGap \in v.rdfTypes}
=============================================================================
