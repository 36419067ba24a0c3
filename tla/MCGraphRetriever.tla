-------------------------- MODULE MCGraphRetriever --------------------------
(***************************************************************************)
(* Instance of GraphRetriever: a chain issue - risk - gap - far, longer    *)
(* than the cut-off, with short cuts, a back edge, a candidate edge, an    *)
(* edge that is not traversed, a literal and a sensitive description, each *)
(* present or absent.                                                      *)
(***************************************************************************)
EXTENDS GraphRetriever, TLC

CONSTANTS
    issue, risk, gap, far, label,
    confirmed, candidate, sensitive, unregistered,
    relates, displayName, hasStatus,
    decisionPreparation, missionReview

MCPurposeAllowed ==
    (decisionPreparation :> {confirmed, candidate, unregistered})
      @@ (missionReview :> {confirmed, sensitive})

St(s, p, o, g) == [s |-> s, p |-> p, o |-> o, g |-> g]

Always ==
    {St(issue, displayName, label, confirmed),
     St(gap, displayName, label, candidate),
     St(issue, relates, risk, confirmed)}

Sometimes ==
    {St(risk, relates, gap, confirmed),
     St(gap, relates, far, confirmed),
     St(far, relates, issue, candidate),
     St(issue, relates, gap, candidate),
     St(risk, relates, issue, unregistered),
     St(issue, hasStatus, far, confirmed),
     St(risk, displayName, label, sensitive)}

MCDatasets == {Always \cup S : S \in SUBSET Sometimes}
=============================================================================
