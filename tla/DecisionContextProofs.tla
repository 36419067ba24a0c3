----------------------- MODULE DecisionContextProofs ------------------------
(***************************************************************************)
(* The two passes of DecisionContext keep their invariant, and the answer  *)
(* is within its budget, complete and anchored, for every pack, every      *)
(* budget and every length of text.  Length is never expanded: the proofs  *)
(* hold however long the assembled text is.                                *)
(***************************************************************************)
EXTENDS DecisionContext, TLAPS, WellFoundedInduction, FiniteSetTheorems

-----------------------------------------------------------------------------
(* Units and the lines that stay.                                           *)

\* A set of places of a pack has a first one.
LEMMA LeastIndex ==
  ASSUME NEW S \in SUBSET Nat, S # {}
  PROVE  \E x \in S : \A y \in S : x <= y
<1> DEFINE R == OpToRel(<, Nat)
<1>1. IsWellFoundedOn(R, Nat)
  BY NatLessThanWellFounded
<1>2. PICK x \in S : \A y \in S : ~ (<<y, x>> \in R)
  <2> HIDE DEF R
  <2> QED  BY <1>1, WFMin
<1>3. \A y \in S : ~ (y < x)
  BY <1>2 DEF OpToRel
<1> HIDE DEF R
<1> QED  BY <1>2, <1>3

\* First picks one unit of a set, if there is any.
LEMMA FirstOfSome ==
  ASSUME NEW p \in Packs, NEW S \in SUBSET Views(p)
  PROVE  /\ First(p, S) \subseteq S
         /\ S # {} => First(p, S) # {}
<1>1. First(p, S) \subseteq S
  BY DEF First
<1>2. ASSUME S # {} PROVE First(p, S) # {}
  <2> DEFINE places == {k \in 1..Len(p.views) : p.views[k] \in S}
  <2>1. Len(p.views) \in Nat
    BY PackAssumption DEF Pack
  <2>2. places \in SUBSET Nat /\ places # {}
    BY <1>2, <2>1 DEF Views
  <2>3. PICK i \in places : \A k \in places : i <= k
    <3> HIDE DEF places
    <3> QED  BY <2>2, LeastIndex
  <2>4. \A j \in 1..(i - 1) : p.views[j] \notin S
    BY <2>1, <2>3
  <2> QED  BY <2>3, <2>4 DEF First
<1> QED  BY <1>1, <1>2

\* Only issues go to the section of issues.
LEMMA IssueSection ==
  ASSUME NEW role \in Role, role \notin TraceOnly, role # "other"
  PROVE  /\ RoleSection[role] = "issue" <=> role = "issue"
         /\ RoleSection[role] \in Section \ {"anchor"}
  BY DEF Role, RoleSection, TraceOnly, Section, SectionPlace

LEMMA UnitShape ==
  ASSUME NEW p \in Packs, NEW v \in Units(p)
  PROVE  /\ v \in Views(p) /\ v \in View
         /\ RoleOf(p, v) \in Role
         /\ SectionOf(p, v) \in Section
         /\ SectionOf(p, v) = "issue" => Proven(p, v)
         /\ SectionOf(p, v) = "anchor" <=> v.id = p.root
<1>1. v \in Views(p) /\ SectionOf(p, v) # "none"
  BY DEF Units
<1>2. v \in View /\ RoleOf(p, v) \in Role
  <2>1. p.views \in Seq(View) /\ p.role \in [Member -> Role]
    BY PackAssumption DEF Pack
  <2>2. PICK i \in 1..Len(p.views) : v = p.views[i]
    BY <1>1 DEF Views
  <2>3. v \in View
    BY <2>1, <2>2
  <2>4. v.id \in Member
    BY <2>3 DEF View
  <2> QED  BY <2>1, <2>3, <2>4 DEF RoleOf
<1>3. CASE v.id = p.root
  BY <1>1, <1>2, <1>3 DEF SectionOf, Section, SectionPlace
<1>4. CASE v.id # p.root
  <2>1. RoleOf(p, v) \notin TraceOnly /\ RoleOf(p, v) # "other"
    BY <1>1, <1>4 DEF SectionOf
  <2>2. SectionOf(p, v) = RoleSection[RoleOf(p, v)]
    BY <1>1, <1>4 DEF SectionOf
  <2>3. RoleOf(p, v) = "issue" => Proven(p, v)
    BY <1>1, <1>4, <2>1 DEF SectionOf
  <2> QED  BY <1>1, <1>2, <1>4, <2>1, <2>2, <2>3, IssueSection
<1> QED  BY <1>3, <1>4

\* The proven related issues are the units of the section of issues.
LEMMA IssueUnits ==
  ASSUME NEW p \in Packs
  PROVE  ProvenIssues(p) = InSection(p, Units(p), "issue")
<1>1. ASSUME NEW v \in ProvenIssues(p)
      PROVE  v \in Units(p) /\ SectionOf(p, v) = "issue"
  <2>1. v \in Views(p) /\ Proven(p, v) /\ v.id # p.root /\ RoleOf(p, v) = "issue"
    BY DEF ProvenIssues, Proven
  <2>2. SectionOf(p, v) = "issue"
    BY <2>1 DEF SectionOf, TraceOnly, RoleSection
  <2> QED  BY <2>1, <2>2 DEF Units
<1>2. ASSUME NEW v \in Units(p), SectionOf(p, v) = "issue"
      PROVE  v \in ProvenIssues(p)
  BY <1>2, UnitShape DEF ProvenIssues
<1> QED  BY <1>1, <1>2 DEF InSection

LEMMA MandatoryUnits ==
  ASSUME NEW p \in Packs
  PROVE  Mandatory(p) \subseteq Units(p)
<1>1. Units(p) \subseteq Views(p)
  BY DEF Units
<1>2. First(p, RootUnits(p)) \subseteq Units(p)
  BY <1>1, FirstOfSome DEF RootUnits
<1>3. First(p, InSection(p, Units(p), "outcomes")) \subseteq Units(p)
  BY <1>1, FirstOfSome DEF InSection
<1>4. ProvenIssues(p) \subseteq Units(p) /\ InSection(p, Units(p), "gaps") \subseteq Units(p)
  BY IssueUnits DEF InSection
<1> QED  BY <1>2, <1>3, <1>4 DEF Mandatory

-----------------------------------------------------------------------------
(* The invariant.                                                           *)

LEMMA InitInv == Init => IInv
<1> SUFFICES ASSUME Init PROVE IInv
  OBVIOUS
<1>1. TypeOK
  BY DEF Init, TypeOK
<1>2. PlaceInv /\ FitInv /\ ContextInv /\ RootInv
  BY DEF Init, PlaceInv, FitInv, ContextInv, RootInv, Placed, Fitted
<1> QED  BY <1>1, <1>2 DEF IInv

LEMMA RefuseKeeps == IInv /\ Refuse => IInv'
<1> SUFFICES ASSUME IInv, Refuse PROVE IInv'
  OBVIOUS
<1> USE DEF Refuse, inputs
<1>1. TypeOK'
  BY DEF IInv, TypeOK
<1>2. PlaceInv'
  BY DEF IInv, PlaceInv, Placed
<1>3. FitInv' /\ ContextInv' /\ RootInv'
  BY DEF FitInv, ContextInv, RootInv, Placed, Fitted
<1> QED  BY <1>1, <1>2, <1>3 DEF IInv

LEMMA PreselectKeeps == IInv /\ Preselect => IInv'
<1> SUFFICES ASSUME IInv, Preselect PROVE IInv'
  OBVIOUS
<1> USE DEF Preselect, inputs
<1>1. Mandatory(pack) \subseteq Units(pack)
  BY MandatoryUnits DEF IInv, TypeOK
<1>2. TypeOK'
  BY <1>1 DEF IInv, TypeOK
<1>3. omitted = {} /\ reclaimed = {}
  BY DEF IInv, PlaceInv
<1>4. PlaceInv'
  BY <1>1, <1>3 DEF IInv, PlaceInv, Placed
<1>5. FitInv' /\ ContextInv' /\ RootInv'
  BY DEF IInv, PlaceInv, FitInv, ContextInv, RootInv, Placed, Fitted
<1> QED  BY <1>2, <1>4, <1>5 DEF IInv

\* One line of the first pass goes to the body or to the omissions.
LEMMA FillMoves ==
  ASSUME NEW v \in pending, Fill(v)
  PROVE  /\ pending' = pending \ {v}
         /\ \/ selected' = selected \cup {v} /\ omitted' = omitted
            \/ selected' = selected /\ omitted' = omitted \cup {v}
<1>1. CASE OwnSlot(v)
  BY <1>1 DEF Fill, OwnSlot, ChargeTo
<1>2. CASE Borrow(v)
  BY <1>2 DEF Fill, Borrow, ChargeTo
<1>3. CASE Skip(v)
  BY <1>3 DEF Fill, Skip
<1> QED  BY <1>1, <1>2, <1>3 DEF Fill

LEMMA FillKeeps == IInv /\ (\E v \in pending : Fill(v)) => IInv'
<1> SUFFICES ASSUME IInv, NEW v \in pending, Fill(v) PROVE IInv'
  OBVIOUS
<1>1. UNCHANGED <<pack, maxChars, reclaimed, dc, outcome, pc>> /\ pc = "fill"
  BY DEF Fill, inputs
<1>2. DOMAIN slotUsed' = DOMAIN slotUsed
  BY DEF Fill, OwnSlot, Borrow, Skip, ChargeTo
<1>3. TypeOK'
  BY <1>1, <1>2, FillMoves DEF IInv, TypeOK
<1>4. PlaceInv'
  BY <1>1, FillMoves DEF IInv, PlaceInv, Placed
<1>5. FitInv' /\ ContextInv' /\ RootInv'
  BY <1>1 DEF IInv, PlaceInv, FitInv, ContextInv, RootInv, Placed, Fitted
<1> QED  BY <1>3, <1>4, <1>5 DEF IInv

LEMMA EndFillKeeps == IInv /\ EndFill => IInv'
<1> SUFFICES ASSUME IInv, EndFill PROVE IInv'
  OBVIOUS
<1> USE DEF EndFill, inputs
<1>1. TypeOK'
  BY DEF IInv, TypeOK
<1>2. PlaceInv'
  BY DEF IInv, PlaceInv, Placed
<1>3. FitInv' /\ ContextInv' /\ RootInv'
  BY DEF IInv, PlaceInv, FitInv, ContextInv, RootInv, Placed, Fitted
<1> QED  BY <1>1, <1>2, <1>3 DEF IInv

LEMMA ReclaimKeeps == IInv /\ (\E v \in selected : Reclaim(v)) => IInv'
<1> SUFFICES ASSUME IInv, NEW v \in selected, Reclaim(v) PROVE IInv'
  OBVIOUS
<1> USE DEF Reclaim, inputs, Reclaimable
<1>1. TypeOK'
  BY DEF IInv, TypeOK
<1>2. PlaceInv'
  BY DEF IInv, PlaceInv, Placed
<1>3. FitInv' /\ ContextInv' /\ RootInv'
  BY DEF IInv, PlaceInv, FitInv, ContextInv, RootInv, Placed, Fitted
<1> QED  BY <1>1, <1>2, <1>3 DEF IInv

\* The second pass ends in time: when nothing is left to take back, the text is
\* the one the floor was measured on.
LEMMA EndEnforceKeeps == IInv /\ EndEnforce => IInv'
<1> SUFFICES ASSUME IInv, EndEnforce PROVE IInv'
  OBVIOUS
<1>0. UNCHANGED <<pack, maxChars, selected, omitted, pending, reclaimed, slotUsed, dc, outcome>>
        /\ pc = "enforce" /\ pc' = "assemble"
  BY DEF EndEnforce, inputs
<1>1. TypeOK'
  BY <1>0 DEF IInv, TypeOK
<1>2. PlaceInv'
  BY <1>0 DEF IInv, PlaceInv, Placed
<1>3. ~ Overflows(selected, omitted)
  <2>1. CASE Reclaimable = {}
    <3>1. Placed /\ PlaceInv
      BY <1>0 DEF IInv, PlaceInv, Placed
    <3>2. selected = Mandatory(pack)
      BY <2>1, <3>1 DEF Reclaimable, PlaceInv
    <3>3. omitted = Units(pack) \ Mandatory(pack)
      BY <1>0, <3>1, <3>2 DEF PlaceInv
    <3>4. Floor(pack) <= maxChars
      BY <3>1 DEF PlaceInv
    <3> QED  BY <3>2, <3>3, <3>4 DEF Overflows, Floor
  <2> QED  BY <2>1 DEF EndEnforce
<1>4. FitInv'
  BY <1>0, <1>3 DEF FitInv, Overflows
<1>5. ContextInv' /\ RootInv'
  BY <1>0 DEF IInv, PlaceInv, ContextInv, RootInv
<1> QED  BY <1>1, <1>2, <1>4, <1>5 DEF IInv

LEMMA NoRootKeeps == IInv /\ NoRoot => IInv'
<1> SUFFICES ASSUME IInv, NoRoot PROVE IInv'
  OBVIOUS
<1> USE DEF NoRoot, inputs
<1>1. TypeOK'
  BY DEF IInv, TypeOK
<1>2. PlaceInv'
  BY DEF IInv, PlaceInv, Placed
<1>3. FitInv'
  BY DEF IInv, PlaceInv, FitInv, Placed, Fitted, Overflows
<1>4. ContextInv' /\ RootInv'
  BY DEF ContextInv, RootInv
<1> QED  BY <1>1, <1>2, <1>3, <1>4 DEF IInv

LEMMA AssembleKeeps == IInv /\ Assemble => IInv'
<1> SUFFICES ASSUME IInv, Assemble PROVE IInv'
  OBVIOUS
<1>0. UNCHANGED <<pack, maxChars, selected, omitted, pending, reclaimed, slotUsed, outcome>>
        /\ pc = "assemble" /\ pc' = "verify"
  BY DEF Assemble, inputs
<1>1. TypeOK'
  BY <1>0 DEF IInv, TypeOK
<1>2. PlaceInv'
  BY <1>0 DEF IInv, PlaceInv, Placed
<1>3. FitInv' /\ RootInv'
  BY <1>0 DEF IInv, PlaceInv, FitInv, RootInv, Placed, Fitted, Overflows
<1>4. ContextInv'
  <2>1. /\ RootShown # {}
        /\ dc'.anchor = OneOf(RootShown)
        /\ dc'.issue \in {None, pack.root}
        /\ dc'.related = OneOf(ProvenIssues(pack))
        /\ pack.gaps \subseteq dc'.gaps
    BY DEF Assemble
  <2>2. RootShown' = RootShown
    BY <1>0 DEF RootShown
  <2> QED  BY <1>0, <2>1, <2>2 DEF ContextInv
<1> QED  BY <1>1, <1>2, <1>3, <1>4 DEF IInv

LEMMA VerifyKeeps == IInv /\ Verify => IInv'
<1> SUFFICES ASSUME IInv, Verify PROVE IInv'
  OBVIOUS
<1>0. UNCHANGED <<pack, maxChars, selected, omitted, pending, reclaimed, slotUsed, dc>>
        /\ pc = "verify" /\ pc' = "done"
        /\ outcome' = IF Consistent THEN "ok" ELSE "root_missing"
  BY DEF Verify, inputs
<1>1. TypeOK'
  BY <1>0 DEF IInv, TypeOK
<1>2. PlaceInv'
  BY <1>0 DEF IInv, PlaceInv, Placed
<1>3. FitInv'
  BY <1>0 DEF IInv, PlaceInv, FitInv, Placed, Fitted, Overflows
<1>4. ContextInv'
  <2>1. RootShown' = RootShown
    BY <1>0 DEF RootShown
  <2> QED  BY <1>0, <2>1 DEF IInv, ContextInv
<1>5. RootInv'
  BY <1>0 DEF RootInv, Consistent
<1> QED  BY <1>1, <1>2, <1>3, <1>4, <1>5 DEF IInv

LEMMA StutterKeeps == IInv /\ UNCHANGED vars => IInv'
<1> SUFFICES ASSUME IInv, UNCHANGED vars PROVE IInv'
  OBVIOUS
<1> USE DEF vars, inputs
<1>1. TypeOK' /\ PlaceInv' /\ RootInv'
  BY DEF IInv, TypeOK, PlaceInv, RootInv, Placed
<1>2. FitInv'
  BY DEF IInv, FitInv, Fitted, Placed, Overflows
<1>3. ContextInv'
  BY DEF IInv, ContextInv, RootShown
<1> QED  BY <1>1, <1>2, <1>3 DEF IInv

\* The invariant of the two passes: every unit in one place, the mandatory ones
\* in the body, a fitting text after the second pass
\* (DecisionContextCompiler.compile).
THEOREM Invariance == Spec => []IInv
<1>1. IInv /\ [Next]_vars => IInv'
  <2> SUFFICES ASSUME IInv, [Next]_vars PROVE IInv'
    OBVIOUS
  <2> QED  BY RefuseKeeps, PreselectKeeps, FillKeeps, EndFillKeeps, ReclaimKeeps,
              EndEnforceKeeps, NoRootKeeps, AssembleKeeps, VerifyKeeps,
              StutterKeeps DEF Next, Step, Done
<1> QED  BY InitInv, <1>1, PTL DEF Spec

-----------------------------------------------------------------------------
(* What an answer promises.                                                 *)

\* One view of a set, when there is one.
LEMMA OneOfSome ==
  ASSUME NEW S, S # {}
  PROVE  OneOf(S) \in S
BY DEF OneOf

\* The units of the root that have a line.
LEMMA ShownRoot ==
  ASSUME IInv
  PROVE  /\ RootShown \subseteq RootUnits(pack) \cap selected
         /\ RootUnits(pack) \cap selected # {} => RootShown # {}
<1>1. pack \in Packs /\ RootUnits(pack) \cap selected \in SUBSET Views(pack)
  BY DEF IInv, TypeOK, RootUnits, Units
<1> QED  BY <1>1, FirstOfSome DEF RootShown

\* An answer never exceeds max_chars (mandatory_floor, enforce_max_chars).
THEOREM Budget == Spec => []FitsBudget
<1>1. IInv => FitsBudget
  BY DEF IInv, TypeOK, PlaceInv, FitInv, FitsBudget, Fitted, Placed, Overflows
<1> QED  BY <1>1, Invariance, PTL

\* The root, the proven related issues, all gap lines and an outcome stay in the
\* body under every budget that is accepted (mandatory_view_keys).
THEOREM Protected == Spec => []MandatoryKept
<1>1. ASSUME IInv, outcome = "ok" PROVE MandatoryKept
  <2>1. Placed /\ pack \in Packs /\ Mandatory(pack) \subseteq selected
    BY <1>1 DEF IInv, TypeOK, PlaceInv, Placed
  <2>2. \E v \in selected : v.id = pack.root
    <3>1. RootShown # {}
      BY <1>1 DEF IInv, ContextInv
    <3> QED  BY <1>1, <3>1, ShownRoot DEF RootUnits
  <2>3. /\ ProvenIssues(pack) \subseteq selected
        /\ InSection(pack, Units(pack), "gaps") \subseteq selected
    BY <2>1 DEF Mandatory
  <2>4. ASSUME InSection(pack, Units(pack), "outcomes") # {}
        PROVE  InSection(pack, selected, "outcomes") # {}
    <3> DEFINE first == First(pack, InSection(pack, Units(pack), "outcomes"))
    <3>1. InSection(pack, Units(pack), "outcomes") \in SUBSET Views(pack)
      BY DEF InSection, Units
    <3>2. first # {} /\ first \subseteq InSection(pack, Units(pack), "outcomes")
      BY <2>1, <2>4, <3>1, FirstOfSome
    <3>3. first \subseteq selected
      BY <2>1 DEF Mandatory
    <3> HIDE DEF first
    <3> QED  BY <3>2, <3>3 DEF InSection
  <2> QED  BY <2>2, <2>3, <2>4 DEF MandatoryKept
<1>2. IInv => MandatoryKept
  BY <1>1 DEF MandatoryKept
<1> QED  BY <1>2, Invariance, PTL

\* Each unit is shown or reported omitted, and not both (pick_within_budget,
\* enforce_max_chars).
THEOREM NoneLost == Spec => []NothingVanishes
<1>1. IInv => NothingVanishes
  BY DEF IInv, TypeOK, PlaceInv, Placed, NothingVanishes
<1> QED  BY <1>1, Invariance, PTL

\* The structured related issue and the section of related issues live and die
\* together (compile, R4 in mandatory_view_keys).
THEOREM RelatedTogether == Spec => []RelatedIssueInBody
<1>1. ASSUME IInv, outcome = "ok" PROVE RelatedIssueInBody
  <2> DEFINE proven == ProvenIssues(pack)
  <2>1. /\ pack \in Packs
        /\ selected \subseteq Units(pack)
        /\ proven \subseteq selected
        /\ dc.related = OneOf(proven)
    BY <1>1 DEF IInv, TypeOK, PlaceInv, ContextInv, Placed, Mandatory
  <2>2. proven = InSection(pack, Units(pack), "issue")
    BY <2>1, IssueUnits
  <2>3. InSection(pack, selected, "issue") = proven
    BY <2>1, <2>2 DEF InSection
  <2>4. proven \subseteq View
    BY <2>1, <2>2, UnitShape DEF InSection
  <2> HIDE DEF proven
  <2>5. CASE proven = {}
    <3>1. dc.related = None
      BY <2>1, <2>5 DEF OneOf
    <3> QED  BY <2>3, <2>5, <3>1 DEF RelatedIssueInBody
  <2>6. CASE proven # {}
    <3>1. dc.related \in proven /\ dc.related # None
      BY <2>1, <2>4, <2>6, OneOfSome, BudgetAssumption
    <3> QED  BY <2>3, <3>1 DEF RelatedIssueInBody
  <2> QED  BY <2>5, <2>6
<1>2. IInv => RelatedIssueInBody
  BY <1>1 DEF RelatedIssueInBody
<1> QED  BY <1>2, Invariance, PTL

\* An answer is anchored at the root and tells all of it
\* (_verify_root_integrity).
THEOREM Anchored == Spec => []RootWhole
<1>1. ASSUME IInv, outcome = "ok" PROVE RootWhole
  <2>1. dc.anchor \in RootUnits(pack) \cap selected
    BY <1>1, ShownRoot, OneOfSome DEF IInv, ContextInv
  <2>2. RootUnits(pack) \subseteq selected
    BY <1>1 DEF IInv, TypeOK, PlaceInv, RootInv, Placed, RootUnits
  <2> QED  BY <2>1, <2>2 DEF RootWhole, RootUnits
<1>2. IInv => RootWhole
  BY <1>1 DEF RootWhole
<1> QED  BY <1>2, Invariance, PTL

\* Every gap of the pack is in the structured context, and the ones of the role
\* context_gap keep their line (mandatory_view_keys, the loop over context_gaps).
THEOREM GapsTold == Spec => []GapsReported
<1>1. ASSUME IInv, outcome = "ok", NEW g \in pack.gaps
      PROVE  /\ g \in dc.gaps
             /\ RoleOf(pack, g) = "context_gap" => g \in selected
  <2>1. g \in dc.gaps
    BY <1>1 DEF IInv, ContextInv
  <2>2. pack \in Packs /\ Mandatory(pack) \subseteq selected
    BY <1>1 DEF IInv, TypeOK, PlaceInv, Placed
  <2>3. g \in Views(pack)
    BY <2>2, PackAssumption
  <2>4. ASSUME RoleOf(pack, g) = "context_gap", g.id = pack.root
        PROVE  g \in selected
    <3>1. SectionOf(pack, g) = "anchor"
      BY <2>4 DEF SectionOf, TraceOnly
    <3>2. g \in RootUnits(pack)
      BY <2>3, <2>4, <3>1 DEF RootUnits, Units
    <3> QED  BY <1>1, <3>2 DEF IInv, TypeOK, PlaceInv, RootInv, Placed, RootUnits
  <2>5. ASSUME RoleOf(pack, g) = "context_gap", g.id # pack.root
        PROVE  g \in selected
    <3>1. SectionOf(pack, g) = "gaps"
      BY <2>5 DEF SectionOf, TraceOnly, RoleSection
    <3>2. g \in InSection(pack, Units(pack), "gaps")
      BY <2>3, <3>1 DEF InSection, Units
    <3> QED  BY <2>2, <3>2 DEF Mandatory
  <2> QED  BY <2>1, <2>4, <2>5
<1>2. IInv => GapsReported
  BY <1>1 DEF GapsReported
<1> QED  BY <1>2, Invariance, PTL

-----------------------------------------------------------------------------
(* The order of the second pass.                                            *)

\* A line that is taken back early is of a section that may go early.
LEMMA KeyOrder ==
  ASSUME NEW p \in Packs, pack = p, NEW v \in Units(p), NEW w \in Units(p),
         ReclaimKey(v) <= ReclaimKey(w)
  PROVE  ReclaimPriority[SectionOf(p, v)] >= ReclaimPriority[SectionOf(p, w)]
<1>1. ASSUME NEW u \in Units(p)
      PROVE  /\ ReclaimPriority[SectionOf(p, u)] \in 0..5
             /\ SectionPlace[SectionOf(p, u)] \in 1..8
             /\ Tier(RoleOf(p, u)) \in 1..9
  <2>1. SectionOf(p, u) \in Section
    BY UnitShape
  <2>2. Tier(RoleOf(p, u)) \in 1..9
    BY DEF Tier
  <2>3. \A s \in Section : ReclaimPriority[s] \in 0..5 /\ SectionPlace[s] \in 1..8
    BY DEF Section, SectionPlace, ReclaimPriority
  <2> QED  BY <2>1, <2>2, <2>3
<1> DEFINE pv == ReclaimPriority[SectionOf(p, v)]
           pw == ReclaimPriority[SectionOf(p, w)]
           tv == Tier(RoleOf(p, v))
           tw == Tier(RoleOf(p, w))
           sv == SectionPlace[SectionOf(p, v)]
           sw == SectionPlace[SectionOf(p, w)]
<1>2. 1000 * (5 - pv) + 10 * tv + sv <= 1000 * (5 - pw) + 10 * tw + sw
  BY DEF ReclaimKey
<1>3. /\ pv \in 0..5 /\ pw \in 0..5 /\ tv \in 1..9 /\ tw \in 1..9
      /\ sv \in 1..8 /\ sw \in 1..8
  BY <1>1
<1> HIDE DEF pv, pw, tv, tw, sv, sw
<1>4. pv >= pw
  BY <1>2, <1>3
<1> QED  BY <1>4 DEF pv, pw

\* For optional lines the priority of the second pass and the slot of the first
\* are in opposite orders, although three tables define them.
LEMMA RankOrder ==
  ASSUME NEW p \in Packs, pack = p, NEW v \in Units(p), NEW w \in Units(p),
         v.id # p.root, w.id # p.root,
         ReclaimPriority[SectionOf(p, v)] >= ReclaimPriority[SectionOf(p, w)]
  PROVE  SlotRank[SlotOf(v)] <= SlotRank[SlotOf(w)]
<1> DEFINE Rank(prio) == IF prio = 5 THEN 1 ELSE 6 - prio
<1>1. \A s \in Section \ {"anchor"} :
         ReclaimPriority[s] \in 0..5 \ {4} /\ SlotRank[SectionSlot[s]] = Rank(ReclaimPriority[s])
  BY DEF Section, SectionPlace, ReclaimPriority, SlotRank, SectionSlot
<1>2. ASSUME NEW u \in Units(p), u.id # p.root
      PROVE  SectionOf(p, u) \in Section \ {"anchor"}
  BY <1>2, UnitShape
<1>3. /\ SectionOf(p, v) \in Section \ {"anchor"}
      /\ SectionOf(p, w) \in Section \ {"anchor"}
  BY <1>2
<1> DEFINE pv == ReclaimPriority[SectionOf(p, v)]
           pw == ReclaimPriority[SectionOf(p, w)]
<1>4. /\ pv \in 0..5 \ {4} /\ pw \in 0..5 \ {4} /\ pv >= pw
      /\ SlotRank[SlotOf(v)] = Rank(pv) /\ SlotRank[SlotOf(w)] = Rank(pw)
  BY <1>1, <1>3 DEF SlotOf
<1> HIDE DEF pv, pw
<1>5. Rank(pv) <= Rank(pw)
  BY <1>4
<1> QED  BY <1>4, <1>5

\* Optional lines are taken back in the order promised for the slots that paid
\* for them, whatever was placed where (enforce_max_chars, _SECTION_TO_SLOT).
THEOREM SlotOrderKept == Spec => []ReclaimedInSlotOrder
<1>1. Init => ReclaimedInSlotOrder
  BY DEF Init, ReclaimedInSlotOrder, Optional
<1>2. IInv /\ ReclaimedInSlotOrder /\ [Next]_vars => ReclaimedInSlotOrder'
  <2> SUFFICES ASSUME IInv, ReclaimedInSlotOrder, [Next]_vars
               PROVE  ReclaimedInSlotOrder'
    OBVIOUS
  <2>1. CASE UNCHANGED <<pack, selected, reclaimed>>
    BY <2>1 DEF ReclaimedInSlotOrder, Optional, Reclaimable, SlotOf
  <2>2. CASE reclaimed' = {}
    BY <2>2 DEF ReclaimedInSlotOrder, Optional
  <2>3. ASSUME NEW v \in selected, Reclaim(v)
        PROVE  ReclaimedInSlotOrder'
    <3>1. /\ pack' = pack /\ pack \in Packs
          /\ selected' = selected \ {v}
          /\ reclaimed' = reclaimed \cup {v}
          /\ v \in Reclaimable
          /\ \A w \in Reclaimable : ReclaimKey(v) <= ReclaimKey(w)
      BY <2>3 DEF Reclaim, inputs, IInv, TypeOK
    <3>2. Reclaimable' \subseteq Reclaimable /\ Reclaimable \subseteq Units(pack)
      BY <3>1 DEF Reclaimable, IInv, TypeOK
    <3>3. \A w \in Reclaimable :
             ReclaimPriority[SectionOf(pack, v)] >= ReclaimPriority[SectionOf(pack, w)]
      BY <3>1, <3>2, KeyOrder
    <3>4. \A w \in Optional(Reclaimable) :
             v.id # pack.root => SlotRank[SlotOf(v)] <= SlotRank[SlotOf(w)]
      BY <3>1, <3>2, <3>3, RankOrder DEF Optional
    <3> QED  BY <3>1, <3>2, <3>4 DEF ReclaimedInSlotOrder, Optional, SlotOf
  <2>4. CASE Preselect \/ (\E v \in pending : Fill(v))
    <3>1. reclaimed' = {}
      BY <2>4 DEF Preselect, Fill, IInv, PlaceInv
    <3> QED  BY <2>2, <3>1
  <2>5. CASE Refuse \/ EndFill \/ EndEnforce \/ NoRoot \/ Assemble \/ Verify
             \/ UNCHANGED vars
    <3>1. UNCHANGED <<pack, selected, reclaimed>>
      BY <2>5 DEF Refuse, EndFill, EndEnforce, NoRoot, Assemble, Verify, vars, inputs
    <3> QED  BY <2>1, <3>1
  <2> QED  BY <2>3, <2>4, <2>5 DEF Next, Step, Done
<1> QED  BY <1>1, <1>2, Invariance, PTL DEF Spec

-----------------------------------------------------------------------------
(* The contract of the budget.                                              *)

\* The choice of lines the two passes end with is one the contract allows.
LEMMA ChoiceFits ==
  ASSUME IInv, Fitted
  PROVE  /\ selected \in SUBSET Units(pack)
         /\ Mandatory(pack) \subseteq selected
         /\ Length(pack, selected, Units(pack) \ selected) <= maxChars
         /\ Floor(pack) <= maxChars
         /\ omitted = Units(pack) \ selected
<1>1. Placed /\ pc # "fill"
  BY DEF Fitted
<1>2. omitted = Units(pack) \ selected
  BY <1>1 DEF IInv, TypeOK, PlaceInv
<1> QED  BY <1>1, <1>2 DEF IInv, TypeOK, PlaceInv, FitInv, Overflows

LEMMA DeliverStep ==
  ASSUME IInv, Verify, Consistent
  PROVE  Contract!Deliver
<1>1. /\ pc = "verify" /\ outcome = "pending" /\ outcome' = "ok"
      /\ UNCHANGED <<pack, maxChars, selected, omitted>>
  BY DEF Verify, inputs, IInv, PlaceInv
<1>2. Fitted
  BY <1>1 DEF Fitted, Placed
<1>3. Contract!Fits(selected)
  BY <1>2, ChoiceFits DEF Contract!Fits
<1>4. Contract!RootKept(selected)
  <2>1. RootUnits(pack) # {}
    BY <1>1, ShownRoot DEF IInv, ContextInv
  <2>2. RootUnits(pack) \subseteq selected
    BY <1>1, <1>2, ChoiceFits DEF Consistent, RootUnits
  <2> QED  BY <2>1, <2>2 DEF Contract!RootKept
<1> QED  BY <1>1, <1>2, <1>3, <1>4, ChoiceFits DEF Contract!Deliver

LEMMA FailStep ==
  ASSUME IInv, NoRoot \/ (Verify /\ ~ Consistent)
  PROVE  Contract!Fail
<1>1. /\ pc \in {"assemble", "verify"} /\ outcome = "pending" /\ outcome' = "root_missing"
      /\ UNCHANGED <<pack, maxChars, selected, omitted>>
  BY DEF NoRoot, Verify, inputs, IInv, PlaceInv
<1>2. Fitted
  BY <1>1 DEF Fitted, Placed
<1>3. Contract!Fits(selected)
  BY <1>2, ChoiceFits DEF Contract!Fits
<1>4. ~ Contract!RootKept(selected)
  <2>1. CASE NoRoot
    <3>1. RootUnits(pack) \cap selected = {}
      BY <2>1, ShownRoot DEF NoRoot
    <3> QED  BY <3>1 DEF Contract!RootKept
  <2>2. CASE Verify /\ ~ Consistent
    <3>1. /\ \E v \in selected : v.id = pack.root
          /\ dc.issue \in {None, pack.root}
          /\ dc.anchor.id = pack.root
      BY <2>2, ShownRoot, OneOfSome DEF Verify, IInv, ContextInv, RootUnits
    <3>2. PICK v \in omitted : v.id = pack.root
      BY <2>2, <3>1 DEF Consistent
    <3>3. v \in RootUnits(pack) /\ v \notin selected
      BY <1>2, <3>2, ChoiceFits DEF RootUnits
    <3> QED  BY <3>3 DEF Contract!RootKept
  <2> QED  BY <2>1, <2>2, <1>1
<1> QED  BY <1>1, <1>2, <1>3, <1>4, ChoiceFits DEF Contract!Fail

\* The two passes implement the contract: refused exactly below the floor, a
\* choice of lines that keeps the promise otherwise, and an integrity error
\* exactly when a line of the root was cut (DecisionContextCompiler.compile).
THEOREM Refinement == Spec => Implements
<1> DEFINE body == IF outcome = "ok" THEN selected ELSE {}
           left == IF outcome = "ok" THEN omitted ELSE {}
           cvars == <<pack, maxChars, outcome, body, left>>
<1>1. Init => Contract!Init
  BY DEF Init, Contract!Init
<1>2. IInv /\ [Next]_vars => [Contract!Next]_cvars
  <2> SUFFICES ASSUME IInv, [Next]_vars PROVE [Contract!Next]_cvars
    OBVIOUS
  <2>1. CASE Refuse
    <3>1. Contract!Refuse
      BY <2>1 DEF Refuse, inputs, Contract!Refuse, IInv, PlaceInv
    <3> QED  BY <3>1 DEF Contract!Next
  <2>2. CASE Verify /\ Consistent
    BY <2>2, DeliverStep DEF Contract!Next
  <2>3. CASE NoRoot \/ (Verify /\ ~ Consistent)
    BY <2>3, FailStep DEF Contract!Next
  <2>4. ASSUME \/ Preselect
               \/ \E v \in pending : Fill(v)
               \/ EndFill
               \/ \E v \in selected : Reclaim(v)
               \/ EndEnforce
               \/ Assemble
        PROVE  UNCHANGED cvars
    <3>1. UNCHANGED <<pack, maxChars, outcome>> /\ pc # "done"
      BY <2>4 DEF Preselect, Fill, EndFill, Reclaim, EndEnforce, Assemble, inputs
    <3>2. outcome = "pending"
      BY <3>1 DEF IInv, PlaceInv
    <3> QED  BY <3>1, <3>2
  <2>5. CASE UNCHANGED vars
    BY <2>5 DEF vars, inputs
  <2> QED  BY <2>1, <2>2, <2>3, <2>4, <2>5 DEF Next, Step, Done
<1> QED  BY <1>1, <1>2, Invariance, PTL DEF Spec, Implements, Contract!Spec

-----------------------------------------------------------------------------
(* Which roots survive, and which lines are taken back.                     *)

\* An integrity error means that no view of the root has a line, or that one of
\* them was cut (compile, _verify_root_integrity).
RootLost ==
    outcome = "root_missing" =>
        RootUnits(pack) = {} \/ ~ (RootUnits(pack) \subseteq selected)

LEMMA RootLostKept == Spec => []RootLost
<1>1. Init => RootLost
  BY DEF Init, RootLost
<1>2. IInv /\ RootLost /\ [Next]_vars => RootLost'
  <2> SUFFICES ASSUME IInv, RootLost, [Next]_vars PROVE RootLost'
    OBVIOUS
  <2>1. CASE NoRoot \/ (Verify /\ ~ Consistent)
    <3>1. Contract!Fail
      BY <2>1, FailStep
    <3>2. UNCHANGED <<pack, selected, omitted>> /\ pc \in {"assemble", "verify"}
      BY <2>1 DEF NoRoot, Verify, inputs
    <3>3. CASE NoRoot
      <4>1. RootUnits(pack) \cap selected = {}
        BY <3>3, ShownRoot DEF NoRoot
      <4> QED  BY <3>2, <4>1 DEF RootLost
    <3>4. CASE Verify /\ ~ Consistent
      <4>1. Fitted
        BY <3>4 DEF Verify, IInv, PlaceInv, Fitted, Placed
      <4>2. /\ \E v \in selected : v.id = pack.root
            /\ dc.issue \in {None, pack.root}
            /\ dc.anchor.id = pack.root
        BY <3>4, ShownRoot, OneOfSome DEF Verify, IInv, ContextInv, RootUnits
      <4>3. PICK v \in omitted : v.id = pack.root
        BY <3>4, <4>2 DEF Consistent
      <4>4. v \in RootUnits(pack) /\ v \notin selected
        BY <4>1, <4>3, ChoiceFits DEF RootUnits
      <4> QED  BY <3>2, <4>4 DEF RootLost
    <3> QED  BY <2>1, <3>3, <3>4
  <2>2. ASSUME \/ Refuse
               \/ Preselect
               \/ \E v \in pending : Fill(v)
               \/ EndFill
               \/ \E v \in selected : Reclaim(v)
               \/ EndEnforce
               \/ Assemble
               \/ Verify /\ Consistent
        PROVE  outcome' # "root_missing"
    <3>1. outcome = "pending"
      BY <2>2 DEF IInv, PlaceInv, Refuse, Preselect, Fill, EndFill, Reclaim,
                  EndEnforce, Assemble, Verify
    <3>2. outcome' \in {outcome, "refused", "ok"}
      BY <2>2 DEF Refuse, Preselect, Fill, EndFill, Reclaim, EndEnforce, Assemble, Verify
    <3> QED  BY <3>1, <3>2
  <2>3. CASE UNCHANGED vars
    BY <2>3 DEF RootLost, vars, inputs
  <2> QED  BY <2>1, <2>2, <2>3 DEF Next, Step, Done, RootLost
<1> QED  BY <1>1, <1>2, Invariance, PTL DEF Spec

\* What is true of "the root is never cut": a root with one view that can become
\* a line is never lost, whatever else the pack holds and however small the
\* accepted budget is.  FloorIsEnough fails for a root of several views only.
OnlyManyViewsLost ==
    (\E v : RootUnits(pack) = {v}) => outcome # "root_missing"

\* The root is never lost when one view tells it (mandatory_view_keys keeps the
\* first view of the root, _verify_root_integrity asks for all of them).
THEOREM SingleRootKept == Spec => []OnlyManyViewsLost
<1>1. ASSUME IInv, RootLost, NEW v, RootUnits(pack) = {v}, outcome = "root_missing"
      PROVE  FALSE
  <2>1. pack \in Packs /\ Mandatory(pack) \subseteq selected
    BY <1>1 DEF IInv, TypeOK, PlaceInv, Placed
  <2>2. RootUnits(pack) \in SUBSET Views(pack)
    BY DEF RootUnits, Units
  <2>3. First(pack, RootUnits(pack)) = {v}
    BY <1>1, <2>1, <2>2, FirstOfSome
  <2>4. v \in selected
    BY <2>1, <2>3 DEF Mandatory
  <2> QED  BY <1>1, <2>4 DEF RootLost
<1>2. IInv /\ RootLost => OnlyManyViewsLost
  BY <1>1 DEF OnlyManyViewsLost
<1> QED  BY <1>2, Invariance, RootLostKept, PTL

\* The line the second pass took back last, had it stayed, would have made the
\* text too long: never is a line given up once the text fits (enforce_max_chars).
NoLineTakenInVain ==
    reclaimed # {} =>
        \E r \in reclaimed : Overflows(selected \cup {r}, omitted \ {r})

\* The second pass stops at the first text that fits (enforce_max_chars).
THEOREM NoneInVain == Spec => []NoLineTakenInVain
<1>1. Init => NoLineTakenInVain
  BY DEF Init, NoLineTakenInVain
<1>2. IInv /\ NoLineTakenInVain /\ [Next]_vars => NoLineTakenInVain'
  <2> SUFFICES ASSUME IInv, NoLineTakenInVain, [Next]_vars
               PROVE  NoLineTakenInVain'
    OBVIOUS
  <2>1. ASSUME NEW v \in selected, Reclaim(v)
        PROVE  NoLineTakenInVain'
    <3>1. /\ UNCHANGED <<pack, maxChars>>
          /\ selected' = selected \ {v}
          /\ omitted' = omitted \cup {v}
          /\ reclaimed' = reclaimed \cup {v}
          /\ Overflows(selected, omitted)
      BY <2>1 DEF Reclaim, inputs
    <3>2. Placed
      BY <2>1 DEF Reclaim, Placed, IInv, PlaceInv
    <3>3. v \notin omitted
      BY <3>2 DEF IInv, PlaceInv
    <3>4. selected' \cup {v} = selected /\ omitted' \ {v} = omitted
      BY <3>1, <3>3
    <3>5. Overflows(selected, omitted)' <=> ~ (Length(pack, selected', omitted') <= maxChars)
      BY <3>1 DEF Overflows
    <3>6. ~ (Length(pack, selected' \cup {v}, omitted' \ {v}) <= maxChars)
      BY <3>1, <3>4 DEF Overflows
    <3> QED  BY <3>1, <3>6 DEF NoLineTakenInVain, Overflows
  <2>2. CASE Preselect \/ (\E v \in pending : Fill(v))
    <3>1. reclaimed' = {}
      BY <2>2 DEF Preselect, Fill, IInv, PlaceInv
    <3> QED  BY <3>1 DEF NoLineTakenInVain
  <2>3. CASE Refuse \/ EndFill \/ EndEnforce \/ NoRoot \/ Assemble \/ Verify
             \/ UNCHANGED vars
    <3>1. UNCHANGED <<pack, maxChars, selected, omitted, reclaimed>>
      BY <2>3 DEF Refuse, EndFill, EndEnforce, NoRoot, Assemble, Verify, vars, inputs
    <3> QED  BY <3>1 DEF NoLineTakenInVain, Overflows
  <2> QED  BY <2>1, <2>2, <2>3 DEF Next, Step, Done
<1> QED  BY <1>1, <1>2, Invariance, PTL DEF Spec

-----------------------------------------------------------------------------
(* The end of a compilation.                                                *)

\* A pack has finitely many units: its views are the items of a sequence.
LEMMA UnitsAreFinite ==
  ASSUME NEW p \in Packs
  PROVE  IsFiniteSet(Units(p))
<1>1. Len(p.views) \in Nat
  BY PackAssumption DEF Pack
<1> DEFINE f == [i \in 1..Len(p.views) |-> p.views[i]]
<1>2. f \in Surjection(1..Len(p.views), Views(p))
  BY DEF Surjection, Views
<1>3. IsFiniteSet(1..Len(p.views))
  BY <1>1, FS_Interval
<1>4. IsFiniteSet(Views(p))
  <2> HIDE DEF f
  <2> QED  BY <1>2, <1>3, FS_Surjection
<1>5. Units(p) \in SUBSET Views(p)
  BY DEF Units
<1> QED  BY <1>4, <1>5, FS_Subset

\* The steps left: each unit is placed once and taken back at most once.
WorkLeft ==
    CASE pc = "measure"  -> 2 * Cardinality(Units(pack)) + 5
      [] pc = "fill"     -> Cardinality(pending) + Cardinality(Units(pack)) + 4
      [] pc = "enforce"  -> Cardinality(Reclaimable) + 3
      [] pc = "assemble" -> 2
      [] pc = "verify"   -> 1
      [] OTHER           -> 0

LEMMA CountsAreNatural ==
  ASSUME IInv
  PROVE  /\ Cardinality(Units(pack)) \in Nat
         /\ \A S \in SUBSET Units(pack) :
               /\ IsFiniteSet(S)
               /\ Cardinality(S) \in Nat
               /\ Cardinality(S) <= Cardinality(Units(pack))
         /\ pending \subseteq Units(pack) /\ Reclaimable \subseteq Units(pack)
<1>1. pack \in Packs /\ pending \subseteq Units(pack) /\ selected \subseteq Units(pack)
  BY DEF IInv, TypeOK
<1>2. IsFiniteSet(Units(pack))
  BY <1>1, UnitsAreFinite
<1>3. ASSUME NEW S \in SUBSET Units(pack)
      PROVE  /\ IsFiniteSet(S)
             /\ Cardinality(S) \in Nat
             /\ Cardinality(S) <= Cardinality(Units(pack))
  BY <1>2, FS_Subset, FS_CardinalityType
<1> QED  BY <1>1, <1>2, <1>3, FS_CardinalityType DEF Reclaimable

LEMMA WorkIsNatural == IInv => WorkLeft \in Nat
<1> SUFFICES ASSUME IInv PROVE WorkLeft \in Nat
  OBVIOUS
<1>1. /\ Cardinality(Units(pack)) \in Nat
      /\ Cardinality(pending) \in Nat
      /\ Cardinality(Reclaimable) \in Nat
  BY CountsAreNatural
<1> DEFINE n == Cardinality(Units(pack))
           p == Cardinality(pending)
           r == Cardinality(Reclaimable)
<1>2. WorkLeft \in {2 * n + 5, p + n + 4, r + 3, 2, 1, 0}
  BY DEF WorkLeft
<1> HIDE DEF n, p, r
<1> QED  BY <1>1, <1>2 DEF n, p, r

LEMMA StepWorks == IInv /\ IInv' /\ [Next]_vars => [WorkLeft' < WorkLeft]_vars
<1> SUFFICES ASSUME IInv, IInv', Next, vars' # vars PROVE WorkLeft' < WorkLeft
  OBVIOUS
<1> DEFINE n == Cardinality(Units(pack))
<1>0. /\ n \in Nat /\ pack' = pack
      /\ Cardinality(pending) \in Nat /\ Cardinality(Reclaimable) \in Nat
  <2>1. pack' = pack
    BY DEF Next, Step, Done, vars, inputs, Refuse, Preselect, Fill, EndFill, Reclaim,
           EndEnforce, NoRoot, Assemble, Verify
  <2> QED  BY <2>1, CountsAreNatural
<1>1. CASE Refuse
  <2>1. WorkLeft = 2 * n + 5 /\ WorkLeft' = 0
    BY <1>1 DEF Refuse, WorkLeft
  <2> HIDE DEF n
  <2> QED  BY <1>0, <2>1
<1>2. CASE Preselect
  <2>1. pending' \in SUBSET Units(pack)
    BY <1>2 DEF Preselect
  <2>2. Cardinality(pending') \in Nat /\ Cardinality(pending') <= n
    BY <2>1, CountsAreNatural
  <2>3. WorkLeft = 2 * n + 5 /\ WorkLeft' = Cardinality(pending') + n + 4
    BY <1>0, <1>2 DEF Preselect, WorkLeft
  <2> HIDE DEF n
  <2> QED  BY <1>0, <2>2, <2>3
<1>3. ASSUME NEW v \in pending, Fill(v)
      PROVE  WorkLeft' < WorkLeft
  <2>1. pc = "fill" /\ pc' = "fill" /\ pending' = pending \ {v}
    BY <1>3 DEF Fill
  <2>2. Cardinality(pending') = Cardinality(pending) - 1
    BY <2>1, CountsAreNatural, FS_RemoveElement
  <2>3. /\ WorkLeft = Cardinality(pending) + n + 4
        /\ WorkLeft' = Cardinality(pending') + n + 4
    BY <1>0, <2>1 DEF WorkLeft
  <2> HIDE DEF n
  <2> QED  BY <1>0, <2>2, <2>3
<1>4. CASE EndFill
  <2>1. Cardinality(pending) = 0
    BY <1>4, FS_EmptySet DEF EndFill
  <2>2. Reclaimable' = Reclaimable
    BY <1>0, <1>4 DEF EndFill, Reclaimable
  <2>3. Cardinality(Reclaimable) <= n
    BY CountsAreNatural
  <2>4. WorkLeft = Cardinality(pending) + n + 4 /\ WorkLeft' = Cardinality(Reclaimable) + 3
    BY <1>4, <2>2 DEF EndFill, WorkLeft
  <2> HIDE DEF n
  <2> QED  BY <1>0, <2>1, <2>3, <2>4
<1>5. ASSUME NEW v \in selected, Reclaim(v)
      PROVE  WorkLeft' < WorkLeft
  <2>1. pc = "enforce" /\ pc' = "enforce" /\ v \in Reclaimable
    BY <1>5 DEF Reclaim
  <2>2. Reclaimable' = Reclaimable \ {v}
    BY <1>0, <1>5 DEF Reclaim, Reclaimable
  <2>3. Cardinality(Reclaimable') = Cardinality(Reclaimable) - 1
    BY <2>1, <2>2, CountsAreNatural, FS_RemoveElement
  <2>4. WorkLeft = Cardinality(Reclaimable) + 3 /\ WorkLeft' = Cardinality(Reclaimable') + 3
    BY <2>1 DEF WorkLeft
  <2> QED  BY <1>0, <2>3, <2>4
<1>6. CASE EndEnforce
  <2>1. WorkLeft = Cardinality(Reclaimable) + 3 /\ WorkLeft' = 2
    BY <1>6 DEF EndEnforce, WorkLeft
  <2> QED  BY <1>0, <2>1
<1>7. CASE NoRoot \/ Assemble \/ Verify
  BY <1>7 DEF NoRoot, Assemble, Verify, WorkLeft
<1>8. ~ Done
  BY DEF Done
<1> QED  BY <1>1, <1>2, <1>3, <1>4, <1>5, <1>6, <1>7, <1>8 DEF Next, Step

\* A compilation places each unit once and takes each back at most once: every
\* step lowers a natural number, under every budget and with every text length
\* (pick_within_budget, enforce_max_chars).
THEOREM BoundedWork == Spec => [](WorkLeft \in Nat) /\ [][WorkLeft' < WorkLeft]_vars
<1> QED  BY StepWorks, WorkIsNatural, Invariance, PTL DEF Spec
=============================================================================
