------------------------- MODULE MCContextCompiler --------------------------
(***************************************************************************)
(* Instance of ContextCompiler: an issue and a gap that occurs in three    *)
(* partitions, with every combination of two or three statuses, validity   *)
(* bounds on both sides of as_of, and types asserted here or there.        *)
(***************************************************************************)
EXTENDS ContextCompiler, TLC

CONSTANTS
    issue, gap, label, derived,
    confirmed, candidate, provenance,
    hasContextGap, displayName, confirmsEntity,
    decisionPreparation, missionReview

MCTime == 0..2

MCLiteral ==
    {label, Archived, Candidate, Confirmed, PreliminarilyConfirmed} \cup MCTime

MCPurposeAllowed ==
    (decisionPreparation :> {confirmed, candidate, provenance})
      @@ (missionReview :> {confirmed, provenance})

\* The names of the statuses in the order of their letters.
MCStatusRank ==
    (Archived :> 1) @@ (Candidate :> 2) @@ (Confirmed :> 3)
      @@ (PreliminarilyConfirmed :> 4)

MCRequests ==
    {[purpose |-> decisionPreparation, scopes |-> Unlimited, asOf |-> 1],
     [purpose |-> decisionPreparation, scopes |-> {candidate}, asOf |-> 1],
     [purpose |-> missionReview, scopes |-> Unlimited, asOf |-> 1]}

St(s, p, o, g) == [s |-> s, p |-> p, o |-> o, g |-> g]

Always ==
    {St(issue, displayName, label, candidate),
     St(issue, displayName, label, confirmed),
     St(issue, hasContextGap, gap, confirmed),
     St(issue, hasContextGap, gap, candidate),
     St(gap, confirmsEntity, issue, provenance)}

\* One choice of each row.
Statuses(g) ==
    {{}, {Archived}, {Confirmed}, {Archived, Confirmed}, {Candidate, Confirmed},
     {PreliminarilyConfirmed}, {Confirmed, PreliminarilyConfirmed}}

Bounds(p) == {{}, {0}, {2}, {0, 2}}

MCDatasets ==
    {Always
       \cup {St(gap, hasConfirmationStatus, st, confirmed) : st \in inConfirmed}
       \cup {St(gap, hasConfirmationStatus, st, candidate) : st \in inCandidate}
       \cup {St(gap, validFrom, t, g) : t \in from, g \in {confirmed, candidate}}
       \cup {St(gap, validUntil, t, candidate) : t \in until}
       \cup {St(gap, rdfType, ContextGap, g) : g \in typed} :
         inConfirmed \in Statuses(confirmed), inCandidate \in Statuses(candidate),
         from \in {{}, {0}, {0, 2}}, until \in Bounds(validUntil),
         typed \in {{confirmed}, {candidate}, {provenance, candidate}}}
=============================================================================
