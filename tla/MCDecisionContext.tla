------------------------- MODULE MCDecisionContext --------------------------
(***************************************************************************)
(* Instance of DecisionContext: packs with a root seen in one or two       *)
(* partitions, a related issue, a gap, outcomes, a risk, a decision, a     *)
(* dependency, a secondary role, evidence and a source record, of two line *)
(* lengths, under budgets below the floor, at it (566, 660, 739 are        *)
(* floors) and up to more than enough.                                     *)
(***************************************************************************)
EXTENDS DecisionContext, TLC

CONSTANTS
    root, other, gap, goal, risk, choice, record, need, skill, proof,
    confirmed, candidate

At(m, part) == [id |-> m, partition |-> part]

\* current_facts before candidate_context before provenance_context.
Current ==
    {<<>>, <<At(root, confirmed)>>, <<At(root, confirmed), At(goal, confirmed)>>,
     <<At(goal, confirmed), At(risk, confirmed)>>}

CandidateViews ==
    {<<At(root, candidate)>>,
     <<At(root, candidate), At(gap, candidate), At(risk, candidate)>>,
     <<At(other, candidate), At(gap, candidate), At(goal, candidate), At(choice, candidate)>>,
     <<At(root, candidate), At(other, candidate), At(goal, candidate),
       At(choice, candidate), At(record, candidate)>>,
     <<At(root, candidate), At(need, candidate), At(skill, candidate), At(proof, candidate)>>}

\* The gap may also be typed as a risk, which the role table looks at first, and
\* the secondary role be one of the section of the dependency or of the evidence;
\* no pack has both members, so the two vary together.
Roles ==
    {(root :> r) @@ (other :> "issue") @@ (gap :> v.gap) @@ (goal :> "outcome")
       @@ (risk :> "risk") @@ (choice :> "rationale") @@ (record :> "source_record")
       @@ (need :> "dependency") @@ (skill :> v.skill) @@ (proof :> "evidence") :
         r \in {"issue", "other", "source_record"},
         v \in {[gap |-> "context_gap", skill |-> "capability"],
                [gap |-> "risk", skill |-> "criterion"]}}

LineCost(long) == [v \in View |-> IF v.id \in long THEN 160 ELSE 70]

MCPacks ==
    {[views |-> c \o d, role |-> roles, linked |-> linked,
      gaps |-> {v \in {At(gap, candidate)} : \E i \in DOMAIN d : d[i] = v},
      root |-> root, cost |-> LineCost(long), base |-> 430] :
        c \in Current, d \in CandidateViews, roles \in Roles,
        linked \in {{}, {other}}, long \in {{root, choice}, {goal}}}

MCBudgets == {566, 600, 660, 739, 800, 900, 1100, 1500, 12000}

MCRoleText == [role \in Role |-> 12]
=============================================================================
