--------------------------- MODULE DecisionContext --------------------------
(***************************************************************************)
(* DecisionContextCompiler.compile: the floor check, the first pass that   *)
(* fills the slots of the budget, the second pass that measures the real   *)
(* text and takes lines back, the decision context, and the check that the *)
(* root is where it must be.                                               *)
(*                                                                         *)
(* Lines are taken in the order of their section and tier; lines equal in  *)
(* both are taken in any order, which covers the order of their ids.       *)
(***************************************************************************)
EXTENDS DecisionPack

CONSTANTS
    Budgets,    \* the values of max_chars considered
    Overhead,   \* the reserve taken off max_chars before it is shared out
    None        \* an absent value (None in the code, null in the answer)

ASSUME BudgetAssumption ==
    /\ Budgets \subseteq Nat
    /\ Overhead \in Nat
    /\ None \notin View

VARIABLES
    pack, maxChars,  \* inputs, never written
    selected,        \* units with a line, all sections together
    omitted,         \* render_omissions
    pending,         \* units the first pass has still to place
    reclaimed,       \* history: the omissions of the second pass
    slotUsed,        \* characters charged to each slot
    dc,              \* the decision context
    outcome,         \* "pending", "refused", "ok" or "root_missing"
    pc

inputs == <<pack, maxChars>>
vars == <<inputs, selected, omitted, pending, reclaimed, slotUsed, dc, outcome, pc>>

-----------------------------------------------------------------------------
\* SLOT_RATIO, in percent, and the slot a section draws on.
SlotRatio ==
    [issue |-> 10, outcomes |-> 25, risks |-> 25, gaps |-> 25,
     evidence |-> 10, secondary |-> 5]

Slot == DOMAIN SlotRatio

SectionSlot ==
    [anchor |-> "secondary", issue |-> "issue", outcomes |-> "outcomes",
     progress |-> "outcomes", dependencies |-> "risks", risks |-> "risks",
     gaps |-> "gaps", decisions |-> "secondary"]

Usable == IF maxChars > Overhead THEN maxChars - Overhead ELSE 1

SlotBudget(slot) == (Usable * SlotRatio[slot]) \div 100

SlotOf(v) == SectionSlot[SectionOf(pack, v)]

\* What the first pass takes next: the earliest section, then the lowest tier.
FillKey(v) == 10 * SectionPlace[SectionOf(pack, v)] + Tier(RoleOf(pack, v))

\* Faulty variant: dependencies are missing in _SECTION_TO_RECLAIM_KEY.
ReclaimPriorityUnmapped ==
    [decisions |-> 5, dependencies |-> 2, risks |-> 3, outcomes |-> 2,
     progress |-> 2, anchor |-> 2, gaps |-> 1, issue |-> 0]

\* _RECLAIM_PRIORITY through _SECTION_TO_RECLAIM_KEY; the anchor has the default.
ReclaimPriority ==
    [decisions |-> 5, dependencies |-> 3, risks |-> 3, outcomes |-> 2,
     progress |-> 2, anchor |-> 2, gaps |-> 1, issue |-> 0]

\* What the second pass takes back next: the highest priority, then the lowest
\* tier, then the earliest section.
ReclaimKey(v) ==
    1000 * (5 - ReclaimPriority[SectionOf(pack, v)])
      + 10 * Tier(RoleOf(pack, v)) + SectionPlace[SectionOf(pack, v)]

Overflows(shown, left) == ~ (Length(pack, shown, left) <= maxChars)

NoContext ==
    [issue |-> None, anchor |-> None, related |-> None, gaps |-> {}, lines |-> {}]

-----------------------------------------------------------------------------
Init ==
    /\ pack \in Packs
    /\ maxChars \in Budgets
    /\ selected = {}
    /\ omitted = {}
    /\ pending = {}
    /\ reclaimed = {}
    /\ slotUsed = [slot \in Slot |-> 0]
    /\ dc = NoContext
    /\ outcome = "pending"
    /\ pc = "measure"

\* Faulty variant: a budget of exactly the floor is refused too.
RefuseAtFloor ==
    /\ pc = "measure"
    /\ maxChars <= Floor(pack)
    /\ outcome' = "refused"
    /\ pc' = "done"
    /\ UNCHANGED <<inputs, selected, omitted, pending, reclaimed, slotUsed, dc>>

\* RenderBudgetTooSmall.
Refuse ==
    /\ pc = "measure"
    /\ maxChars < Floor(pack)
    /\ outcome' = "refused"
    /\ pc' = "done"
    /\ UNCHANGED <<inputs, selected, omitted, pending, reclaimed, slotUsed, dc>>

\* Mandatory lines are charged to their slots, whatever these can hold.
Charge(slot) ==
    LET Cost(v) == pack.cost[v]
    IN  MapThenSumSet(Cost, {v \in Mandatory(pack) : SlotOf(v) = slot})

Preselect ==
    /\ pc = "measure"
    /\ Floor(pack) <= maxChars
    /\ selected' = Mandatory(pack)
    /\ pending' = Units(pack) \ Mandatory(pack)
    /\ slotUsed' = [slot \in Slot |-> Charge(slot)]
    /\ pc' = "fill"
    /\ UNCHANGED <<inputs, omitted, reclaimed, dc, outcome>>

Room(v, slot) == slotUsed[slot] + pack.cost[v] <= SlotBudget(slot)

ChargeTo(v, slot) ==
    /\ selected' = selected \cup {v}
    /\ slotUsed' = [slotUsed EXCEPT ![slot] = @ + pack.cost[v]]
    /\ UNCHANGED omitted

\* The slots borrowed from, in this order.
Lenders == <<"evidence", "risks", "outcomes">>

OwnSlot(v) == Room(v, SlotOf(v)) /\ ChargeTo(v, SlotOf(v))

Borrow(v) ==
    /\ ~ Room(v, SlotOf(v))
    /\ \E i \in 1..3 :
          /\ Room(v, Lenders[i])
          /\ \A j \in 1..(i - 1) : ~ Room(v, Lenders[j])
          /\ ChargeTo(v, Lenders[i])

Skip(v) ==
    /\ ~ Room(v, SlotOf(v))
    /\ \A i \in 1..3 : ~ Room(v, Lenders[i])
    /\ omitted' = omitted \cup {v}
    /\ UNCHANGED <<selected, slotUsed>>

\* Faulty variant: a line without room is tried again.
FillRetrying(v) ==
    /\ pc = "fill"
    /\ \A w \in pending : FillKey(v) <= FillKey(w)
    /\ OwnSlot(v) \/ Borrow(v) \/ Skip(v)
    /\ pending' = IF v \in omitted' THEN pending ELSE pending \ {v}
    /\ UNCHANGED <<inputs, reclaimed, dc, outcome, pc>>

\* One line of the greedy fill.
Fill(v) ==
    /\ pc = "fill"
    /\ \A w \in pending : FillKey(v) <= FillKey(w)
    /\ pending' = pending \ {v}
    /\ OwnSlot(v) \/ Borrow(v) \/ Skip(v)
    /\ UNCHANGED <<inputs, reclaimed, dc, outcome, pc>>

EndFill ==
    /\ pc = "fill"
    /\ pending = {}
    /\ pc' = "enforce"
    /\ UNCHANGED <<inputs, selected, omitted, pending, reclaimed, slotUsed, dc, outcome>>

Reclaimable == selected \ Mandatory(pack)

\* Faulty variants of Reclaim: mandatory lines are taken like others, and a line
\* is dropped without a trace.
ReclaimFrom(v, candidates, left) ==
    /\ pc = "enforce"
    /\ Overflows(selected, omitted)
    /\ v \in candidates
    /\ selected' = selected \ {v}
    /\ omitted' = left
    /\ reclaimed' = reclaimed \cup {v}
    /\ UNCHANGED <<inputs, pending, slotUsed, dc, outcome, pc>>

ReclaimMandatory(v) == ReclaimFrom(v, selected, omitted \cup {v})
ReclaimSilently(v) ==
    /\ \A w \in Reclaimable : ReclaimKey(v) <= ReclaimKey(w)
    /\ ReclaimFrom(v, Reclaimable, omitted)

\* enforce_max_chars: one line goes from the body to the omissions.
Reclaim(v) ==
    /\ pc = "enforce"
    /\ Overflows(selected, omitted)
    /\ v \in Reclaimable
    /\ \A w \in Reclaimable : ReclaimKey(v) <= ReclaimKey(w)
    /\ selected' = selected \ {v}
    /\ omitted' = omitted \cup {v}
    /\ reclaimed' = reclaimed \cup {v}
    /\ UNCHANGED <<inputs, pending, slotUsed, dc, outcome, pc>>

\* Faulty variant: the second pass is left too early.
EndEnforceAtOnce ==
    /\ pc = "enforce"
    /\ pc' = "assemble"
    /\ UNCHANGED <<inputs, selected, omitted, pending, reclaimed, slotUsed, dc, outcome>>

EndEnforce ==
    /\ pc = "enforce"
    /\ ~ Overflows(selected, omitted) \/ Reclaimable = {}
    /\ pc' = "assemble"
    /\ UNCHANGED <<inputs, selected, omitted, pending, reclaimed, slotUsed, dc, outcome>>

-----------------------------------------------------------------------------
\* The units the root is looked up in, the mandatory one first.
RootShown == First(pack, RootUnits(pack) \cap selected)

\* One view of a set: the choice stands for the order of the ids.
OneOf(S) == IF S = {} THEN None ELSE CHOOSE v \in S : TRUE

\* ContextRootMissingError at the lookup of the root.
NoRoot ==
    /\ pc = "assemble"
    /\ RootShown = {}
    /\ outcome' = "root_missing"
    /\ pc' = "done"
    /\ UNCHANGED <<inputs, selected, omitted, pending, reclaimed, slotUsed, dc>>

\* The lines of the sections other than anchor and issue, and the gaps of the
\* pack, listed or not among them.
Lines == {v \in selected : SectionOf(pack, v) \notin {"anchor", "issue"}}

\* Faulty variant: only the gaps that got a line are reported.
AssembleWithoutGaps ==
    /\ pc = "assemble"
    /\ RootShown # {}
    /\ dc' = [issue   |-> IF pack.role[pack.root] = "issue" THEN pack.root ELSE None,
              anchor  |-> OneOf(RootShown),
              related |-> OneOf(ProvenIssues(pack)),
              gaps    |-> InSection(pack, selected, "gaps"),
              lines   |-> Lines]
    /\ pc' = "verify"
    /\ UNCHANGED <<inputs, selected, omitted, pending, reclaimed, slotUsed, outcome>>

Assemble ==
    /\ pc = "assemble"
    /\ RootShown # {}
    /\ dc' = [issue   |-> IF pack.role[pack.root] = "issue" THEN pack.root ELSE None,
              anchor  |-> OneOf(RootShown),
              related |-> OneOf(ProvenIssues(pack)),
              gaps    |-> InSection(pack, selected, "gaps") \cup pack.gaps,
              lines   |-> Lines]
    /\ pc' = "verify"
    /\ UNCHANGED <<inputs, selected, omitted, pending, reclaimed, slotUsed, outcome>>

\* _verify_root_integrity.
Consistent ==
    /\ \E v \in selected : v.id = pack.root
    /\ \A v \in omitted : v.id # pack.root
    /\ dc.issue \in {None, pack.root}
    /\ dc.anchor.id = pack.root

\* Faulty variant: omissions are not looked at.
VerifyAnyRoot ==
    /\ pc = "verify"
    /\ outcome' = "ok"
    /\ pc' = "done"
    /\ UNCHANGED <<inputs, selected, omitted, pending, reclaimed, slotUsed, dc>>

Verify ==
    /\ pc = "verify"
    /\ outcome' = IF Consistent THEN "ok" ELSE "root_missing"
    /\ pc' = "done"
    /\ UNCHANGED <<inputs, selected, omitted, pending, reclaimed, slotUsed, dc>>

Done == pc = "done" /\ UNCHANGED vars

Step ==
    \/ Refuse
    \/ Preselect
    \/ \E v \in pending : Fill(v)
    \/ EndFill
    \/ \E v \in selected : Reclaim(v)
    \/ EndEnforce
    \/ NoRoot
    \/ Assemble
    \/ Verify

Next == Step \/ Done

Spec == Init /\ [][Next]_vars

\* The compiler is a function call: nothing it waits for.
FairSpec == Spec /\ WF_vars(Step)
-----------------------------------------------------------------------------
\* The budget was accepted; the second pass is over.
Placed == pc # "measure" /\ outcome # "refused"
Fitted == Placed /\ pc \notin {"fill", "enforce"}

TypeOK ==
    /\ pack \in Packs
    /\ maxChars \in Budgets
    /\ selected \subseteq Units(pack)
    /\ omitted \subseteq Units(pack)
    /\ pending \subseteq Units(pack)
    /\ reclaimed \subseteq Units(pack)
    /\ DOMAIN slotUsed = Slot
    /\ outcome \in {"pending", "refused", "ok", "root_missing"}
    /\ pc \in {"measure", "fill", "enforce", "assemble", "verify", "done"}

\* Once the first pass has begun every unit is in one place, and the mandatory
\* ones stay in the body.
PlaceInv ==
    /\ Placed =>
          /\ Floor(pack) <= maxChars
          /\ Mandatory(pack) \subseteq selected
          /\ selected \cup omitted \cup pending = Units(pack)
          /\ selected \cap omitted = {}
          /\ pending \cap (selected \cup omitted) = {}
          /\ reclaimed \subseteq omitted
          /\ pc # "fill" => pending = {}
    /\ pc = "measure" => omitted = {}
    /\ pc \in {"measure", "fill"} => reclaimed = {}
    /\ (outcome = "pending") <=> (pc # "done")

\* What leaves the second pass fits.
FitInv == Fitted => ~ Overflows(selected, omitted)

\* The context describes the body it was built from.
ContextInv ==
    (pc = "verify" \/ outcome = "ok") =>
        /\ RootShown # {}
        /\ dc.anchor = OneOf(RootShown)
        /\ dc.issue \in {None, pack.root}
        /\ dc.related = OneOf(ProvenIssues(pack))
        /\ pack.gaps \subseteq dc.gaps

\* The root looked for in the omissions by the last check was not there.
RootInv == outcome = "ok" => \A v \in omitted : v.id # pack.root

\* The inductive invariant of the compilation.
IInv == TypeOK /\ PlaceInv /\ FitInv /\ ContextInv /\ RootInv

-----------------------------------------------------------------------------
\* An answer never exceeds max_chars.  The slots of the first pass are only
\* estimates and mandatory lines ignore them: it is the floor, which counts the
\* whole omission summary, that lets the second pass end in time
\* (mandatory_floor, enforce_max_chars).
FitsBudget == outcome = "ok" => Length(pack, selected, omitted) <= maxChars

\* Whatever the budget, an answer shows a line of the root, all proven related
\* issues, all gap lines and at least one outcome if the pack has any
\* (mandatory_view_keys).
MandatoryKept ==
    outcome = "ok" =>
        /\ \E v \in selected : v.id = pack.root
        /\ ProvenIssues(pack) \subseteq selected
        /\ InSection(pack, Units(pack), "gaps") \subseteq selected
        /\ InSection(pack, Units(pack), "outcomes") # {} =>
              InSection(pack, selected, "outcomes") # {}

\* No unit gets lost between the two passes and none is both shown and reported
\* omitted.
NothingVanishes ==
    outcome = "ok" =>
        /\ selected \cup omitted = Units(pack)
        /\ selected \cap omitted = {}

\* The structured related_issue and the section of related issues live and die
\* together, under every budget (R4 in mandatory_view_keys).
RelatedIssueInBody ==
    outcome = "ok" =>
        IF dc.related = None
        THEN InSection(pack, selected, "issue") = {}
        ELSE dc.related \in InSection(pack, selected, "issue")

\* No budget hides a gap: each gap of the pack is in the structured context, and
\* its line is in the body unless the role table gives its member another role
\* than context_gap, which the order of the table allows; a gap that is the root
\* itself is told as the anchor (mandatory_view_keys, the loop over context_gaps).
GapsReported ==
    outcome = "ok" =>
        \A g \in pack.gaps :
            /\ g \in dc.gaps
            /\ RoleOf(pack, g) = "context_gap" => g \in selected

\* An answer is anchored at the root asked for, and no view of the root was
\* cut: rather an error than a root told in part (_verify_root_integrity).
RootWhole ==
    outcome = "ok" =>
        /\ dc.anchor \in selected /\ dc.anchor.id = pack.root
        /\ RootUnits(pack) \subseteq selected

\* The order in which the docstring of enforce_max_chars names the slots; gaps
\* and issues, which it does not name, come last.
SlotRank ==
    [secondary |-> 1, evidence |-> 2, risks |-> 3, outcomes |-> 4,
     gaps |-> 5, issue |-> 6]

\* The root is not optional, whatever the passes do with its further views.
Optional(S) == {v \in S : v.id # pack.root}

\* The two tables of sections agree: the second pass, which sorts by a priority
\* looked up through two maps and a default, takes lines back in the order
\* promised for the slots that paid for them in the first pass.  No line is taken
\* back while a line of a slot named earlier stays (_SECTION_TO_SLOT,
\* _RECLAIM_PRIORITY, _SECTION_TO_RECLAIM_KEY).  This is about slots: lines of
\* the role evidence draw on that of the outcomes, see EvidenceBeforeRisks.
ReclaimedInSlotOrder ==
    \A r \in Optional(reclaimed), w \in Optional(Reclaimable) :
        SlotRank[SlotOf(r)] <= SlotRank[SlotOf(w)]

\* A compilation ends, whatever the budget.
Terminates == <>(pc = "done")

\* The two passes implement the contract of the budget.
Contract ==
    INSTANCE BudgetContract WITH
        body <- IF outcome = "ok" THEN selected ELSE {},
        left <- IF outcome = "ok" THEN omitted ELSE {}

Implements == Contract!Spec

-----------------------------------------------------------------------------
\* What the documentation says beyond that.

\* A budget of the floor or more is enough for a pack whose root compiles: the
\* root is never cut (docstrings of mandatory_floor and mandatory_view_keys).
FloorIsEnough == RootUnits(pack) # {} => outcome # "root_missing"

\* Evidence is taken back before risks and dependencies ("secondary > evidence >
\* risks > outcomes" in enforce_max_chars).
EvidenceBeforeRisks ==
    \A r \in Optional(reclaimed), w \in Optional(Reclaimable) :
        RoleOf(pack, r) \in {"risk", "dependency"} => RoleOf(pack, w) # "evidence"
=============================================================================
