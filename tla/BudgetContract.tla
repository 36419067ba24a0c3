--------------------------- MODULE BudgetContract ---------------------------
(***************************************************************************)
(* What DecisionContextCompiler.compile promises, without saying how lines *)
(* are chosen: below the floor the request is refused, and only there;     *)
(* otherwise the body holds the mandatory lines, fits the budget, and each *)
(* unit is shown or reported omitted.  An integrity error is answered      *)
(* exactly when a line of the root does not make it into the body.         *)
(***************************************************************************)
EXTENDS Naturals

CONSTANTS
    Packs,              \* the packs considered
    Budgets,            \* the values of max_chars considered
    Units(_),           \* the views of a pack that can become a line
    Mandatory(_),       \* the units that are never cut
    RootUnits(_),       \* the units of the root
    Length(_, _, _),    \* the text of a pack, some units shown, others reported
    Floor(_)            \* the least budget a pack is compiled under

VARIABLES
    pack, maxChars, \* inputs
    outcome,        \* "pending", "refused", "ok" or "root_missing"
    body, left      \* the units shown and the units reported omitted

Init ==
    /\ pack \in Packs
    /\ maxChars \in Budgets
    /\ outcome = "pending"
    /\ body = {}
    /\ left = {}

Refuse ==
    /\ outcome = "pending"
    /\ outcome' = "refused"
    /\ maxChars < Floor(pack)
    /\ UNCHANGED <<pack, maxChars, body, left>>

\* A choice of lines that keeps the promise.
Fits(B) ==
    /\ Mandatory(pack) \subseteq B
    /\ Length(pack, B, Units(pack) \ B) <= maxChars

RootKept(B) == RootUnits(pack) # {} /\ RootUnits(pack) \subseteq B

Deliver ==
    /\ outcome = "pending"
    /\ outcome' = "ok"
    /\ Floor(pack) <= maxChars
    /\ \E B \in SUBSET Units(pack) :
          /\ body' = B
          /\ left' = Units(pack) \ B
          /\ Fits(B)
          /\ RootKept(B)
    /\ UNCHANGED <<pack, maxChars>>

Fail ==
    /\ outcome = "pending"
    /\ outcome' = "root_missing"
    /\ Floor(pack) <= maxChars
    /\ \E B \in SUBSET Units(pack) : ~ RootKept(B) /\ Fits(B)
    /\ UNCHANGED <<pack, maxChars, body, left>>

Next == Refuse \/ Deliver \/ Fail

Spec == Init /\ [][Next]_<<pack, maxChars, outcome, body, left>>
=============================================================================
