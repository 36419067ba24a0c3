-------------------------- MODULE MCIntentResolver --------------------------
(***************************************************************************)
(* Instance of IntentResolver: a capability and two risks with names, a    *)
(* scope and types that may be there or not, one of them described in a    *)
(* sensitive partition, and queries that reach each gate.                  *)
(***************************************************************************)
EXTENDS IntentResolver, TLC

CONSTANTS
    cap, riskA, riskB, nobody,
    hub, launch, launchToo, delay, capClass, riskClass,
    confirmed, candidate, sensitive,
    decisionPreparation, missionReview,
    fHu, fUb, fLa, fUn, fDe, fXx, tHub, tNew

Shown ==
    (hub :> {fHu, fUb}) @@ (launch :> {fLa, fUn}) @@ (launchToo :> {fLa, fUn})
      @@ (delay :> {fDe, fLa}) @@ (capClass :> {}) @@ (riskClass :> {})

MCFragmentsIn(T) == UNION {Shown[x] : x \in T}
MCTokensIn(T) == IF hub \in T THEN {tHub} ELSE {}

MCRoleTable == <<[role |-> "risk", classes |-> {riskClass}],
                 [role |-> "capability", classes |-> {capClass}]>>

MCPlace == (cap :> 2) @@ (riskA :> 1) @@ (riskB :> 3) @@ (nobody :> 4)

MCPurposeAllowed ==
    (decisionPreparation :> {confirmed, candidate}) @@ (missionReview :> {confirmed, sensitive})

St(s, p, o, g) == [s |-> s, p |-> p, o |-> o, g |-> g]

Always ==
    {St(cap, displayName, hub, confirmed), St(riskA, rdfType, riskClass, confirmed),
     St(riskB, objectId, launchToo, candidate)}

Sometimes ==
    {St(cap, rdfType, capClass, confirmed), St(riskA, displayName, launch, confirmed),
     St(riskA, scopeDescription, delay, candidate), St(riskB, rdfType, riskClass, confirmed),
     St(riskB, scopeDescription, hub, confirmed), St(riskB, displayName, hub, sensitive),
     St(cap, displayName, launch, confirmed)}

MCDatasets == {Always \cup S : S \in SUBSET Sometimes}

Risky(mode) == [role |-> "risk", mode |-> mode]

Q(length, whole, topics, words, spans, trigger) ==
    [length |-> length, whole |-> whole, grams |-> topics \cup {fXx}, topics |-> topics,
     words |-> words, spans |-> spans, trigger |-> trigger]

MCQueries ==
    {Q(2, fXx, {fHu, fUb}, <<tHub>>, {}, t) : t \in {NoTrigger, Risky("prefer")}}
      \cup {Q(2, fXx, {fLa, fUn}, <<>>, S, t) :
              S \in {{}, {<<fLa, fUn>>}, {<<fLa, fXx, fUn>>}},
              t \in {NoTrigger, Risky("constrain"), Risky("prefer")}}
      \cup {Q(2, fXx, {fLa}, <<tHub, tNew>>, {<<fLa>>}, NoTrigger),
            Q(2, fDe, {fDe, fHu}, <<>>, {<<fDe>>, <<fXx, fHu, fXx>>}, NoTrigger),
            Q(3, fUn, {fLa, fUn}, <<tHub>>, {<<fUn>>}, Risky("prefer")),
            Q(2, fXx, {fLa, fHu}, <<>>, {<<fLa>>}, Risky("prefer")),
            Q(0, fXx, {}, <<>>, {}, NoTrigger)}
=============================================================================
