----------------------------- MODULE MCService -----------------------------
(***************************************************************************)
(* Instance of Service: two workers, a registry whose entry collides with  *)
(* the single key, a narrowed key, a key that is not ASCII in a registry   *)
(* and in a request, three images (sound, with dates that have no offset,  *)
(* corrupted), and requests for each ending.                               *)
(***************************************************************************)
EXTENDS Service, TLC

CONSTANTS
    risk, person, name, theLabel, linked,
    confirmed, candidate, sensitive, unregistered,
    decisionPreparation, missionReview, mystery,
    followup, unknownScenario,
    shared, scoped, stranger, accented

MCPurposeAllowed ==
    (decisionPreparation :> {confirmed, candidate, unregistered})
      @@ (missionReview :> {confirmed, sensitive})

MCScenarios == followup :> missionReview

Says(s, p, o, g) == [s |-> s, p |-> p, o |-> o, g |-> g]

Statements ==
    {Says(risk, name, theLabel, confirmed), Says(risk, linked, person, confirmed),
     Says(person, name, theLabel, sensitive), Says(person, name, theLabel, candidate),
     Says(risk, name, theLabel, unregistered)}

MCImages ==
    {[quads |-> Statements, conforms |-> TRUE, dates |-> "comparable"],
     [quads |-> Statements, conforms |-> TRUE, dates |-> "naive"],
     [quads |-> Statements, conforms |-> FALSE, dates |-> "malformed"]}

Reviewer == [purposes |-> {missionReview}, scopes |-> {confirmed}, default |-> followup]
Lost == [purposes |-> {AnyPurpose}, scopes |-> {}, default |-> unknownScenario]

MCEnvironments ==
    {[single |-> shared, multi |-> (shared :> Reviewer) @@ (scoped :> Lost),
      listed |-> <<shared, scoped>>, shacl |-> TRUE, sensitive |-> TRUE],
     [single |-> NoKey, multi |-> (scoped :> Reviewer) @@ (accented :> Lost),
      listed |-> <<scoped, accented>>, shacl |-> TRUE, sensitive |-> FALSE],
     [single |-> scoped, multi |-> <<>>, listed |-> <<>>, shacl |-> FALSE, sensitive |-> TRUE]}

Ask(endpoint, key, scenario, purpose, form, mode) ==
    [endpoint |-> endpoint, key |-> key, scenario |-> scenario, purpose |-> purpose,
     form |-> form, mode |-> mode]

MCRequests ==
    {Ask("version", k, NoScenario, NoPurpose, "sound", "none") :
        k \in {scoped, NoKey, stranger, accented}}
      \cup {Ask("resolve", k, NoScenario, NoPurpose, "sound", "none") : k \in {shared, scoped}}
      \cup {Ask("resolve", k, followup, NoPurpose, "sound", "deterministic") : k \in {shared, scoped}}
      \cup {Ask("resolve", scoped, unknownScenario, NoPurpose, "refused", "none"),
            Ask("resolve", scoped, NoScenario, missionReview, "refused", "none"),
            Ask("resolve", shared, NoScenario, mystery, "sound", "none")}
      \cup {Ask("render", k, NoScenario, NoPurpose, f, "llm_required") :
              k \in {shared, scoped}, f \in {"sound", "ill_typed"}}
      \cup {Ask("render", scoped, NoScenario, missionReview, "sound", "llm_with_fallback")}
      \cup {Ask("pack", k, NoScenario, u, f, "deterministic") :
              k \in {scoped}, u \in {decisionPreparation, missionReview},
              f \in {"sound", "refused", "ill_typed"}}
=============================================================================
