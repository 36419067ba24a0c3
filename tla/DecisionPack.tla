---------------------------- MODULE DecisionPack ----------------------------
(***************************************************************************)
(* How a Context Pack is read by the decision context compiler: which view *)
(* becomes a line of which section, which lines must stay, and how long    *)
(* the assembled Markdown is.                                              *)
(*                                                                         *)
(* A view is a (member, partition) pair.  Texts are lengths: a line has a  *)
(* cost (its characters and the newline), the headings and the footer have *)
(* the cost base, and roles stand for the classes classify_role looks at.  *)
(***************************************************************************)
EXTENDS Naturals, Sequences, FiniteSets, FiniteSetsExt

CONSTANTS
    Member, Partition,
    Packs,           \* the packs considered
    SummaryText,     \* characters of the omission summary without its counts
    RoleText         \* role -> characters of its name and mark in the summary

\* ROLE_TO_SECTION; source_record, confirmation and other have no section.
RoleSection ==
    [issue |-> "issue", outcome |-> "outcomes", progress |-> "progress",
     dependency |-> "dependencies", capability |-> "dependencies",
     risk |-> "risks", evidence |-> "progress", context_gap |-> "gaps",
     decision |-> "decisions", rationale |-> "decisions",
     mission |-> "outcomes", criterion |-> "progress",
     milestone |-> "progress", responsibility |-> "dependencies"]

TraceOnly == {"source_record", "confirmation"}
Role == DOMAIN RoleSection \cup TraceOnly \cup {"other"}

\* SECTION_ORDER, as the place of each section.
SectionPlace ==
    [anchor |-> 1, issue |-> 2, outcomes |-> 3, progress |-> 4,
     dependencies |-> 5, risks |-> 6, gaps |-> 7, decisions |-> 8]

Section == DOMAIN SectionPlace

\* role_tier.
Tier(role) ==
    CASE role \in {"issue", "outcome", "progress", "risk", "dependency",
                   "evidence", "context_gap", "decision"} -> 1
      [] role \in {"mission", "criterion", "milestone", "capability",
                   "rationale", "responsibility"} -> 2
      [] role \in TraceOnly -> 3
      [] OTHER -> 9

View == [id : Member, partition : Partition]

\* A pack: its views in the order of _all_members, the role of each member, the
\* members an explicit business edge links to the root, the views listed as
\* gaps, the root, and the lengths.
Pack ==
    [views : Seq(View), role : [Member -> Role], linked : SUBSET Member,
     gaps : SUBSET View, root : Member, cost : [View -> Nat], base : Nat]

Views(p) == {p.views[i] : i \in 1..Len(p.views)}

\* Views differ and gaps are views of the pack: ContextCompiler makes them so.
ASSUME PackAssumption ==
    /\ Packs \subseteq Pack
    /\ \A p \in Packs : \A i, j \in 1..Len(p.views) :
          p.views[i] = p.views[j] => i = j
    /\ \A p \in Packs : p.gaps \subseteq Views(p)
    /\ SummaryText \in Nat
    /\ RoleText \in [Role -> Nat]

RoleOf(p, v) == p.role[v.id]

-----------------------------------------------------------------------------
(* _build_units_by_section.                                                 *)

\* proven_related_issue_views: every view of a linked issue that is not the root.
Proven(p, v) == v.id # p.root /\ RoleOf(p, v) = "issue" /\ v.id \in p.linked
ProvenIssues(p) == {v \in Views(p) : Proven(p, v)}

\* Where a view goes, "none" when it gets no line: trace-only views always; other
\* roles and unproven issues unless they are the root, which is the anchor.
SectionOf(p, v) ==
    IF RoleOf(p, v) \in TraceOnly THEN "none"
    ELSE IF v.id = p.root THEN "anchor"
    ELSE IF RoleOf(p, v) = "other" THEN "none"
    ELSE IF RoleOf(p, v) = "issue" /\ ~ Proven(p, v) THEN "none"
    ELSE RoleSection[RoleOf(p, v)]

Units(p) == {v \in Views(p) : SectionOf(p, v) # "none"}

InSection(p, S, section) == {v \in S : SectionOf(p, v) = section}

RootUnits(p) == {v \in Units(p) : v.id = p.root}

-----------------------------------------------------------------------------
(* mandatory_view_keys and mandatory_floor.                                 *)

\* The first unit of a set, in the order of the pack.
First(p, S) ==
    {p.views[i] : i \in {k \in 1..Len(p.views) :
        p.views[k] \in S /\ \A j \in 1..(k - 1) : p.views[j] \notin S}}

\* Faulty variants: related issues are not protected; no outcome is.
MandatoryWithoutIssues(p) ==
    First(p, RootUnits(p)) \cup InSection(p, Units(p), "gaps")
      \cup First(p, InSection(p, Units(p), "outcomes"))

MandatoryWithoutOutcome(p) ==
    First(p, RootUnits(p)) \cup ProvenIssues(p) \cup InSection(p, Units(p), "gaps")

Mandatory(p) ==
    First(p, RootUnits(p)) \cup ProvenIssues(p)
      \cup InSection(p, Units(p), "gaps")
      \cup First(p, InSection(p, Units(p), "outcomes"))

Digits(n) == IF n < 10 THEN 1 ELSE IF n < 100 THEN 2 ELSE 3

\* The heading of the omissions, with one count per role.
Summary(p, omitted) ==
    LET Of(role) == {v \in omitted : RoleOf(p, v) = role}
        Entry(role) == RoleText[role] + Digits(Cardinality(Of(role)))
        roles == {RoleOf(p, v) : v \in omitted}
    IN  IF omitted = {} THEN 0
        ELSE SummaryText + Digits(Cardinality(omitted)) + MapThenSumSet(Entry, roles)

\* The line that stands in an empty section.
Placeholder == 4

\* len(assemble_sectioned_markdown(...)).
Length(p, shown, omitted) ==
    LET Cost(v) == p.cost[v]
        empty == {s \in Section \ {"anchor"} : InSection(p, shown, s) = {}}
    IN  p.base + MapThenSumSet(Cost, shown) + Placeholder * Cardinality(empty)
          + Summary(p, omitted)

\* Faulty variant: the omission summary is not counted.
FloorWithoutSummary(p) == Length(p, Mandatory(p), {})

Floor(p) == Length(p, Mandatory(p), Units(p) \ Mandatory(p))
=============================================================================
