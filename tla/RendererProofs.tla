--------------------------- MODULE RendererProofs ---------------------------
(***************************************************************************)
(* The renderer keeps its invariant whatever the polisher answers: the     *)
(* facts stay, the mode is told, a fallback never fails, and the validator *)
(* accepts the unaltered text.                                             *)
(***************************************************************************)
EXTENDS Renderer, TLAPS

-----------------------------------------------------------------------------
(* Sections and anchors.                                                    *)

LEMMA Places ==
  /\ \A s \in Section : SectionPlace[s] \in 1..8
  /\ \A s, u \in Section : SectionPlace[s] = SectionPlace[u] => s = u
  /\ \A i \in 1..8 : \E s \in Section : SectionPlace[s] = i
<1>1. SectionPlace = [anchor |-> 1, issue |-> 2, outcomes |-> 3, progress |-> 4,
                      dependencies |-> 5, risks |-> 6, gaps |-> 7, decisions |-> 8]
  BY DEF SectionPlace
<1>2. Section = {"anchor", "issue", "outcomes", "progress", "dependencies", "risks",
                 "gaps", "decisions"}
  BY DEF Section, SectionPlace
<1>3. \A i \in 1..8 : i \in {1, 2, 3, 4, 5, 6, 7, 8}
  OBVIOUS
<1> QED  BY <1>1, <1>2, <1>3

LEMMA SectionAtPlace ==
  /\ \A i \in 1..8 : SectionAt(i) \in Section /\ SectionPlace[SectionAt(i)] = i
  /\ \A s \in Section : SectionAt(SectionPlace[s]) = s
BY Places DEF SectionAt

LEMMA UnitInSection ==
  ASSUME NEW p \in Packs, NEW v \in Units(p)
  PROVE  v \in View /\ SectionOf(p, v) \in Section
<1>1. v \in Views(p) /\ SectionOf(p, v) # "none"
  BY DEF Units
<1>2. v \in View /\ RoleOf(p, v) \in Role
  <2>1. p.views \in Seq(View) /\ p.role \in [Member -> Role]
    BY PackAssumption DEF Pack
  <2>2. PICK i \in 1..Len(p.views) : v = p.views[i]
    BY <1>1 DEF Views
  <2>3. v \in View
    BY <2>1, <2>2
  <2>4. v.id \in Member
    BY <2>3 DEF View
  <2> QED  BY <2>1, <2>3, <2>4 DEF RoleOf
<1>3. \A role \in DOMAIN RoleSection : RoleSection[role] \in Section
  BY DEF RoleSection, Section, SectionPlace
<1> QED  BY <1>1, <1>2, <1>3 DEF SectionOf, Role, Section, SectionPlace

\* Two views of a member have one section.
LEMMA SharedSection ==
  ASSUME NEW p, NEW v, NEW w, v.id = w.id
  PROVE  SectionOf(p, v) = SectionOf(p, w)
BY DEF SectionOf, RoleOf, Proven

LEMMA AnchorsDiffer ==
  ASSUME NEW v \in View, NEW w \in View, AnchorOf(v) = AnchorOf(w)
  PROVE  v = w
<1>1. v.id = w.id /\ v.partition = w.partition
  BY DEF AnchorOf
<1> QED  BY <1>1 DEF View

-----------------------------------------------------------------------------
(* The deterministic text.                                                  *)

LEMMA DeterministicBlocks ==
  ASSUME NEW p \in Packs, NEW B \in SUBSET Units(p)
  PROVE  LET t == Deterministic(p, B) IN
         /\ t.blocks \in Seq(Block) /\ t.length = Length(p, B, Units(p) \ B) /\ t.alien = {}
         /\ Heads(t) = 1..8
         /\ \A i \in 1..8 : Title(t, i) = SectionAt(i)
         /\ \A i \in 1..8 : t.blocks[i].lines = {LineOf(v) : v \in InSection(p, B, SectionAt(i))}
<1> DEFINE b == [i \in 1..8 |-> SectionBlock(p, B, i)]
           t == Deterministic(p, B)
<1>1. t.blocks = b /\ t.length = Length(p, B, Units(p) \ B) /\ t.alien = {}
  BY DEF Deterministic
<1>2. ASSUME NEW v \in B PROVE LineOf(v) \in Line
  <2>1. v \in View
    BY UnitInSection
  <2>2. v.id \in Member /\ v.partition \in Partition
    BY <2>1 DEF View
  <2> QED  BY <2>1, <2>2, TextAssumption DEF LineOf, AnchorOf, Line, Anchor, Tag
<1>3. ASSUME NEW i \in 1..8 PROVE SectionBlock(p, B, i) \in Block
  <2>1. {LineOf(v) : v \in InSection(p, B, SectionAt(i))} \subseteq Line
    BY <1>2 DEF InSection
  <2> QED  BY <2>1, SectionAtPlace DEF SectionBlock, Block
<1>4. b \in [1..8 -> Block]
  BY <1>3
<1>5. b \in Seq(Block) /\ DOMAIN b = 1..8
  BY <1>4
<1>6. \A i \in 1..8 : b[i] = SectionBlock(p, B, i)
  OBVIOUS
<1> HIDE DEF b, t
<1> QED  BY <1>1, <1>5, <1>6 DEF t, Heads, Title, SectionBlock

LEMMA DeterministicSpots ==
  ASSUME NEW p \in Packs, NEW B \in SUBSET Units(p)
  PROVE  LET t == Deterministic(p, B) IN
         /\ \A v \in B : <<SectionPlace[SectionOf(p, v)], LineOf(v)>> \in Spots(t)
         /\ \A spot \in Spots(t) : \E v \in B :
              /\ spot = <<SectionPlace[SectionOf(p, v)], LineOf(v)>>
              /\ Title(t, spot[1]) = SectionOf(p, v)
<1> DEFINE t == Deterministic(p, B)
<1>1. /\ Heads(t) = 1..8
      /\ \A i \in 1..8 : Title(t, i) = SectionAt(i)
      /\ \A i \in 1..8 : t.blocks[i].lines = {LineOf(v) : v \in InSection(p, B, SectionAt(i))}
  BY DeterministicBlocks
<1> HIDE DEF t
<1>2. ASSUME NEW v \in B PROVE <<SectionPlace[SectionOf(p, v)], LineOf(v)>> \in Spots(t)
  <2> DEFINE i == SectionPlace[SectionOf(p, v)]
  <2>1. i \in 1..8 /\ SectionAt(i) = SectionOf(p, v)
    BY UnitInSection, Places, SectionAtPlace
  <2>2. LineOf(v) \in t.blocks[i].lines
    BY <1>1, <2>1 DEF InSection
  <2> QED  BY <1>1, <2>1, <2>2 DEF Spots
<1>3. ASSUME NEW spot \in Spots(t)
      PROVE  \E v \in B : /\ spot = <<SectionPlace[SectionOf(p, v)], LineOf(v)>>
                          /\ Title(t, spot[1]) = SectionOf(p, v)
  <2>1. PICK i \in 1..8 : \E l \in t.blocks[i].lines : spot = <<i, l>>
    BY <1>1 DEF Spots
  <2>2. PICK v \in InSection(p, B, SectionAt(i)) : spot = <<i, LineOf(v)>>
    BY <1>1, <2>1
  <2>3. v \in B /\ SectionOf(p, v) = SectionAt(i)
    BY DEF InSection
  <2> QED  BY <1>1, <2>2, <2>3, SectionAtPlace
<1> QED  BY <1>2, <1>3 DEF t

LEMMA DeterministicFacts ==
  ASSUME NEW p \in Packs, NEW B \in SUBSET Units(p)
  PROVE  LET t == Deterministic(p, B) IN
         /\ Found(t) = {AnchorOf(v) : v \in B}
         /\ NoPhantom(t, B) /\ EachOnce(t, B)
<1> DEFINE t == Deterministic(p, B)
<1>1. /\ \A v \in B : <<SectionPlace[SectionOf(p, v)], LineOf(v)>> \in Spots(t)
      /\ \A spot \in Spots(t) : \E v \in B : spot = <<SectionPlace[SectionOf(p, v)], LineOf(v)>>
  BY DeterministicSpots
<1> HIDE DEF t
<1>2. \A v : LineOf(v).anchor = AnchorOf(v)
  BY DEF LineOf
<1>3. Found(t) = {AnchorOf(v) : v \in B}
  <2>1. ASSUME NEW v \in B PROVE AnchorOf(v) \in Found(t)
    <3> DEFINE spot == <<SectionPlace[SectionOf(p, v)], LineOf(v)>>
    <3>1. spot \in Spots(t) /\ spot[2].anchor = AnchorOf(v)
      BY <1>1, <1>2
    <3> HIDE DEF spot
    <3> QED  BY <3>1 DEF Found
  <2>2. ASSUME NEW spot \in Spots(t) PROVE \E v \in B : spot[2].anchor = AnchorOf(v)
    BY <1>1, <1>2
  <2> QED  BY <2>1, <2>2 DEF Found
<1>4. \A v \in B : \E spot \in Spots(t) : spot[2].anchor = AnchorOf(v)
  BY <1>3 DEF Found
<1>5. ASSUME NEW v \in B, NEW x \in Spots(t), NEW y \in Spots(t),
             x[2].anchor = AnchorOf(v), y[2].anchor = AnchorOf(v)
      PROVE  x = y
  <2>1. PICK a \in B : x = <<SectionPlace[SectionOf(p, a)], LineOf(a)>>
    BY <1>1
  <2>2. PICK b \in B : y = <<SectionPlace[SectionOf(p, b)], LineOf(b)>>
    BY <1>1
  <2>3. AnchorOf(a) = AnchorOf(b)
    BY <1>2, <1>5, <2>1, <2>2
  <2>4. a = b
    BY <2>3, AnchorsDiffer, UnitInSection
  <2> QED  BY <2>1, <2>2, <2>4
<1> QED  BY <1>3, <1>4, <1>5 DEF t, NoPhantom, EachOnce

\* The validator accepts the deterministic text when every view has a source.
LEMMA DeterministicValid ==
  ASSUME NEW p \in Packs, NEW B \in SUBSET Units(p), \A v \in B : SourceOf(v) # unknown
  PROVE  Valid(Deterministic(p, B), p, B)
<1> DEFINE t == Deterministic(p, B)
<1>1. /\ Heads(t) = 1..8 /\ t.alien = {}
      /\ \A i \in 1..8 : Title(t, i) = SectionAt(i)
      /\ \A i \in 1..8 : t.blocks[i].lines = {LineOf(v) : v \in InSection(p, B, SectionAt(i))}
  BY DeterministicBlocks
<1>2. \A v \in B : <<SectionPlace[SectionOf(p, v)], LineOf(v)>> \in Spots(t)
  BY DeterministicSpots
<1>3. Found(t) = {AnchorOf(v) : v \in B} /\ NoPhantom(t, B) /\ EachOnce(t, B)
  BY DeterministicFacts
<1> HIDE DEF t
<1>4. SectionsInOrder(t)
  <2>1. \A s \in Section : SectionPlace[s] \in Heads(t) /\ Title(t, SectionPlace[s]) = s
    BY <1>1, Places, SectionAtPlace
  <2>2. \A s \in Section, j \in Heads(t) : Title(t, j) = s => j = SectionPlace[s]
    BY <1>1, SectionAtPlace
  <2> QED  BY <2>1, <2>2 DEF SectionsInOrder
<1>5. NotSwapped(t, B)
  BY <1>3 DEF NotSwapped
<1>6. InPlace(t, p, B)
  <2>1. SUFFICES ASSUME NEW v \in B, NEW s \in Section, Mentions(t, s, v.id)
                 PROVE  s = SectionOf(p, v)
    BY DEF InPlace
  <2>2. PICK i \in 1..8 : Title(t, i) = s /\ \E l \in t.blocks[i].lines : l.anchor.id = v.id
    BY <1>1, <2>1 DEF Mentions
  <2>3. PICK w \in InSection(p, B, SectionAt(i)) : LineOf(w).anchor.id = v.id
    BY <1>1, <2>2
  <2>4. w.id = v.id /\ SectionOf(p, w) = s
    BY <1>1, <2>2, <2>3 DEF LineOf, AnchorOf, InSection
  <2> QED  BY <2>4, SharedSection
<1>7. TagsKept(t, B)
  <2>1. SUFFICES ASSUME NEW v \in B PROVE \E spot \in Spots(t) : spot[2].tag = TagOf(v)
    BY DEF TagsKept
  <2> DEFINE spot == <<SectionPlace[SectionOf(p, v)], LineOf(v)>>
  <2>2. spot \in Spots(t) /\ spot[2].tag = TagOf(v)
    BY <1>2 DEF LineOf
  <2> HIDE DEF spot
  <2> QED  BY <2>2
<1>8. NoForgedSource(t, B)
  BY <1>3 DEF NoForgedSource, AnchorOf
<1> QED  BY <1>1, <1>3, <1>4, <1>5, <1>6, <1>7, <1>8 DEF Valid, t

\* In the deterministic text, every line is in the section of its view.
LEMMA DeterministicPlaced ==
  ASSUME pack \in Packs, body \in SUBSET Units(pack)
  PROVE  Placed(Unaltered)
<1> DEFINE t == Unaltered
<1>1. \A spot \in Spots(t) : \E v \in body :
         /\ spot = <<SectionPlace[SectionOf(pack, v)], LineOf(v)>>
         /\ Title(t, spot[1]) = SectionOf(pack, v)
  BY DeterministicSpots DEF Unaltered
<1> HIDE DEF t
<1>2. ASSUME NEW v \in body, NEW spot \in Spots(t), spot[2].anchor.id = v.id
      PROVE  Title(t, spot[1]) = SectionOf(pack, v)
  <2>1. PICK w \in body : /\ spot = <<SectionPlace[SectionOf(pack, w)], LineOf(w)>>
                          /\ Title(t, spot[1]) = SectionOf(pack, w)
    BY <1>1
  <2>2. w.id = v.id
    BY <1>2, <2>1 DEF LineOf, AnchorOf
  <2> QED  BY <2>1, <2>2, SharedSection
<1> QED  BY <1>2 DEF t, Placed

\* So it is in a valid text without repeated headings and stray lines.
LEMMA ValidPlaced ==
  ASSUME NEW t, t.blocks \in Seq(Block), Valid(t, pack, body)
  PROVE  Placed(t)
<1>1. SUFFICES ASSUME ~ \E i, j \in Heads(t) : i # j /\ Title(t, i) = Title(t, j),
                      ~ \E spot \in Spots(t) : Title(t, spot[1]) = "preamble",
                      NEW v \in body, NEW spot \in Spots(t), spot[2].anchor.id = v.id,
                      \A w \in body : w.id = v.id => w = v
               PROVE  Title(t, spot[1]) = SectionOf(pack, v)
  BY DEF Placed
<1>0. PICK i \in Heads(t) : \E l \in t.blocks[i].lines : spot = <<i, l>>
  BY DEF Spots
<1>2. PICK l \in t.blocks[i].lines : spot = <<i, l>>
  BY <1>0
<1>3. Heads(t) \subseteq Nat /\ Title(t, i) \in Section
  <2>1. t.blocks[i] \in Block /\ Heads(t) = 1..Len(t.blocks)
    BY <1>2 DEF Heads
  <2> QED  BY <1>1, <1>2, <2>1 DEF Block, Title
<1>4. Mentions(t, Title(t, i), v.id)
  <2>1. l.anchor.id = v.id
    BY <1>1, <1>2
  <2>2. \A j \in Heads(t) : j > i => Title(t, j) # Title(t, i)
    BY <1>1, <1>2, <1>3
  <2> QED  BY <1>2, <2>1, <2>2 DEF Mentions
<1>5. ASSUME NEW u \in Section, Mentions(t, u, v.id)
      PROVE  u = Title(t, i)
  <2>1. PICK j \in Heads(t) : Title(t, j) = u /\ \E k \in t.blocks[j].lines : k.anchor.id = v.id
    BY <1>5 DEF Mentions
  <2>2. PICK k \in t.blocks[j].lines : k.anchor.id = v.id
    BY <2>1
  <2> DEFINE x == <<j, k>>
  <2>3. x \in Spots(t) /\ x[2] = k /\ x[1] = j
    BY <2>1, <2>2 DEF Spots
  <2> HIDE DEF x
  <2>4. \A y \in Spots(t) : y[2].anchor.id = v.id => y[2].anchor = AnchorOf(v)
    <3>1. SUFFICES ASSUME NEW y \in Spots(t), y[2].anchor.id = v.id
                   PROVE  y[2].anchor = AnchorOf(v)
      OBVIOUS
    <3>2. y[2].anchor \in Found(t)
      BY DEF Found
    <3>3. PICK w \in body : y[2].anchor = AnchorOf(w)
      BY <3>2 DEF Valid, NoPhantom
    <3>4. w.id = v.id
      BY <3>1, <3>3 DEF AnchorOf
    <3> QED  BY <1>1, <3>3, <3>4
  <2>5. x = spot
    BY <1>1, <2>2, <2>3, <2>4 DEF Valid, EachOnce
  <2> QED  BY <1>2, <2>1, <2>3, <2>5
<1>6. Title(t, i) = SectionOf(pack, v)
  <2>1. \A u \in Section : SectionPlace[u] < SectionPlace[Title(t, i)] => ~ Mentions(t, u, v.id)
    BY <1>3, <1>5, Places
  <2> QED  BY <1>3, <1>4, <2>1 DEF Valid, InPlace
<1> QED  BY <1>2, <1>6

-----------------------------------------------------------------------------
(* The invariant.                                                           *)

\* Whatever may leave holds the facts, the root and the mode.
LEMMA DeliverableGood ==
  ASSUME TypeOK, Deliverable, RootUnits(pack) # {}, RootUnits(pack) \subseteq body
  PROVE  /\ NoPhantom(content, body) /\ EachOnce(content, body) /\ content.alien = {}
         /\ HasRoot(content) /\ Placed(content)
<1>1. pack \in Packs /\ body \in SUBSET Units(pack) /\ content.blocks \in Seq(Block)
  BY DEF TypeOK
<1>2. NoPhantom(content, body) /\ EachOnce(content, body) /\ content.alien = {} /\ Placed(content)
  <2>1. CASE content = Unaltered
    BY <1>1, <2>1, DeterministicFacts, DeterministicBlocks, DeterministicPlaced DEF Unaltered
  <2>2. CASE Valid(content, pack, body)
    BY <1>1, <2>2, ValidPlaced DEF Valid
  <2> QED  BY <2>1, <2>2 DEF Deliverable
<1>3. PICK v \in RootUnits(pack) : v \in body /\ v.id = pack.root
  BY DEF RootUnits
<1>4. AnchorOf(v) \in Found(content)
  BY <1>2, <1>3 DEF EachOnce, Found
<1>5. AnchorOf(v).id = pack.root
  BY <1>3 DEF AnchorOf
<1> QED  BY <1>2, <1>4, <1>5 DEF HasRoot

LEMMA InitIInv == Init => IInv
<1> SUFFICES ASSUME Init PROVE IInv
  OBVIOUS
<1>1. EmptyText.blocks \in Seq(Block)
  BY DEF EmptyText
<1>2. TypeOK
  BY <1>1, RendererAssumption DEF Init, Budget!Init, TypeOK
<1>3. Progress
  BY RendererAssumption DEF Init, Budget!Init, Progress
<1> QED  BY <1>2, <1>3 DEF Init, IInv, ModeTold, FactsKept, FallbackNeverFails,
                           UnalteredTextPasses, PlacedLines, Budget!Init

\* The two families of invariants the steps are about: what is delivered follows
\* from where it comes from.
LEMMA DeliveryFollows ==
  ASSUME TypeOK, Progress
  PROVE  ModeTold /\ FactsKept /\ PlacedLines
<1>1. SUFFICES ASSUME outcome = "ok" PROVE ModeTold /\ FactsKept /\ PlacedLines
  BY DEF ModeTold, FactsKept, PlacedLines
<1>2. Deliverable /\ RootUnits(pack) # {} /\ RootUnits(pack) \subseteq body
  BY <1>1 DEF Progress, Budget!RootKept
<1>3. ModeTold
  BY <1>2 DEF ModeTold, Deliverable, Fallback
<1> QED  BY <1>2, <1>3, DeliverableGood DEF FactsKept, PlacedLines

LEMMA PassFollows ==
  ASSUME TypeOK, Progress
  PROVE  UnalteredTextPasses
BY DeterministicValid DEF TypeOK, Progress, UnalteredTextPasses, Unaltered

\* The compiler's answer is kept from here on.
LEMMA CompiledStays ==
  ASSUME UNCHANGED <<inputs, compilation>>
  PROVE  /\ Unaltered' = Unaltered
         /\ (Budget!Fits(body) /\ Budget!RootKept(body))' <=> Budget!Fits(body) /\ Budget!RootKept(body)
BY DEF inputs, compilation, Unaltered, Budget!Fits, Budget!RootKept

LEMMA CompileKeeps ==
  ASSUME IInv, Compile
  PROVE  TypeOK' /\ Progress' /\ FallbackNeverFails'
<1> USE DEF IInv, TypeOK
<1>1. pc = "compile" /\ compiled = "pending" /\ outcome = "pending"
        /\ UNCHANGED <<inputs, content, polished, attempts, modeUsed>>
  BY DEF Compile, Progress, Budget!Next, Budget!Refuse, Budget!Deliver, Budget!Fail, inputs
<1>2. CASE Budget!Refuse
  BY <1>1, <1>2 DEF Compile, Budget!Refuse, End, Progress, FallbackNeverFails, inputs
<1>3. CASE Budget!Fail
  BY <1>1, <1>3 DEF Compile, Budget!Fail, End, Progress, FallbackNeverFails, inputs
<1>4. CASE Budget!Deliver
  <2>1. /\ compiled' = "ok" /\ pc' = "assemble" /\ outcome' = "pending"
        /\ body' \subseteq Units(pack) /\ left' = Units(pack) \ body'
        /\ Budget!Fits(body') /\ Budget!RootKept(body')
    BY <1>4 DEF Compile, Budget!Deliver, End
  <2>2. (Budget!Fits(body) /\ Budget!RootKept(body))'
    BY <1>1, <2>1 DEF inputs, Budget!Fits, Budget!RootKept
  <2>3. TypeOK'
    BY <1>1, <2>1 DEF inputs
  <2> QED  BY <1>1, <2>1, <2>2, <2>3 DEF Progress, FallbackNeverFails, inputs
<1> QED  BY <1>2, <1>3, <1>4 DEF Compile, Budget!Next

LEMMA AssembleKeeps ==
  ASSUME IInv, Assemble
  PROVE  TypeOK' /\ Progress' /\ FallbackNeverFails'
<1> USE DEF IInv, TypeOK
<1>1. /\ compiled = "ok" /\ left = Units(pack) \ body /\ outcome = "pending"
      /\ Budget!Fits(body) /\ Budget!RootKept(body)
  BY DEF Assemble, Progress
<1>2. /\ content'.length = Length(pack, body, Units(pack) \ body)
      /\ content'.blocks \in Seq(Block) /\ content' = Unaltered
  BY DeterministicBlocks DEF Assemble, Unaltered
<1>3. content'.length <= maxChars
  BY <1>1, <1>2 DEF Budget!Fits
<1>4. pc' = "polish" /\ UNCHANGED <<outcome, inputs, compilation, polished, attempts, modeUsed>>
  BY <1>3 DEF Assemble
<1>5. TypeOK'
  BY <1>2, <1>4 DEF inputs, compilation
<1> QED  BY <1>1, <1>2, <1>4, <1>5, CompiledStays
         DEF Assemble, Progress, FallbackNeverFails, inputs, compilation

LEMMA PolishingKeeps ==
  ASSUME IInv, Skip \/ Polish \/ Retry
  PROVE  TypeOK' /\ Progress' /\ FallbackNeverFails'
<1> USE DEF IInv, TypeOK
<1>1. UNCHANGED <<inputs, compilation, content, modeUsed, outcome>> /\ outcome = "pending"
  BY DEF Skip, Polish, Retry, Progress
<1>2. TypeOK' /\ pc = "polish"
  BY <1>1, RendererAssumption DEF Skip, Polish, Retry, Progress, Text, inputs, compilation
<1>3. CASE Skip
  BY <1>1, <1>2, <1>3, CompiledStays
     DEF Skip, Progress, Deliverable, FallbackNeverFails, inputs, compilation
<1>4. CASE Polish
  BY <1>1, <1>2, <1>4, CompiledStays DEF Polish, Progress, FallbackNeverFails, inputs, compilation
<1>5. CASE Retry
  <2>1. attempts' <= MaxRetries
    BY <1>2, <1>5, RendererAssumption DEF Retry
  <2> QED  BY <1>1, <1>2, <1>5, <2>1, CompiledStays
           DEF Retry, Progress, FallbackNeverFails, inputs, compilation
<1> QED  BY <1>3, <1>4, <1>5

LEMMA GivingUpKeeps ==
  ASSUME IInv, NoPolisher \/ Unavailable \/ Reject
  PROVE  TypeOK' /\ Progress' /\ FallbackNeverFails'
<1> USE DEF IInv, TypeOK
<1>1. /\ UNCHANGED <<inputs, compilation, content, polished>>
      /\ pc \in {"polish", "validate"} /\ mode # "deterministic" /\ outcome = "pending"
      /\ attempts' \in 0..(MaxRetries + 1)
  BY RendererAssumption DEF NoPolisher, Unavailable, Reject, GiveUp, Progress
<1>2. \/ mode = "llm_required" /\ pc' = "done" /\ outcome' \in {"value_error", "polisher_error"}
           /\ modeUsed' = modeUsed
      \/ mode # "llm_required" /\ pc' = "check" /\ modeUsed' = Fallback /\ outcome' = outcome
  BY DEF NoPolisher, Unavailable, Reject, GiveUp, End
<1>3. content = Unaltered /\ compiled = "ok"
  BY <1>1 DEF Progress
<1>4. TypeOK'
  BY <1>1, <1>2 DEF inputs, compilation
<1> QED  BY <1>1, <1>2, <1>3, <1>4, CompiledStays
         DEF Progress, Mode, Deliverable, FallbackNeverFails, inputs, compilation

LEMMA AcceptKeeps ==
  ASSUME IInv, Accept
  PROVE  TypeOK' /\ Progress' /\ FallbackNeverFails'
<1> USE DEF IInv, TypeOK
<1>1. /\ UNCHANGED <<inputs, compilation, polished, attempts, modeUsed, outcome>>
      /\ pc = "validate" /\ pc' = "check" /\ content' = polished
      /\ Valid(polished, pack, body) /\ mode # "deterministic" /\ modeUsed = mode
      /\ outcome = "pending"
  BY DEF Accept, Progress
<1>2. TypeOK'
  BY <1>1 DEF inputs, compilation
<1>3. Deliverable'
  BY <1>1 DEF Deliverable, inputs, compilation
<1> QED  BY <1>1, <1>2, <1>3, CompiledStays DEF Progress, FallbackNeverFails, inputs, compilation

LEMMA FinishKeeps ==
  ASSUME IInv, Finish
  PROVE  TypeOK' /\ Progress' /\ FallbackNeverFails'
<1> USE DEF IInv, TypeOK
<1>1. /\ UNCHANGED <<inputs, compilation, content, polished, attempts, modeUsed>>
      /\ pc = "check" /\ Deliverable /\ compiled = "ok"
      /\ RootUnits(pack) # {} /\ RootUnits(pack) \subseteq body
  BY DEF Finish, Progress, Budget!RootKept
<1>2. HasRoot(content)
  BY <1>1, DeliverableGood
<1>3. pc' = "done" /\ outcome' = "ok"
  BY <1>2 DEF Finish, End
<1>4. TypeOK' /\ Deliverable'
  BY <1>1, <1>3 DEF Deliverable, Unaltered, inputs, compilation
<1> QED  BY <1>1, <1>3, <1>4, CompiledStays DEF Progress, FallbackNeverFails, inputs, compilation

LEMMA StutterKeeps ==
  ASSUME IInv, UNCHANGED vars
  PROVE  TypeOK' /\ Progress' /\ FallbackNeverFails'
<1>1. UNCHANGED <<inputs, compilation, content, polished, attempts, modeUsed, pc, outcome>>
  BY DEF vars
<1> QED  BY <1>1, CompiledStays DEF IInv, TypeOK, Progress, Deliverable, FallbackNeverFails,
            inputs, compilation

\* The invariant of the renderer holds for every pack, budget and polisher
\* (render and _validate_llm_output_sections).
THEOREM Invariance == Spec => []IInv
<1>1. IInv /\ [Next]_vars => IInv'
  <2> SUFFICES ASSUME IInv, [Next]_vars PROVE IInv'
    OBVIOUS
  <2>1. TypeOK' /\ Progress' /\ FallbackNeverFails'
    BY CompileKeeps, AssembleKeeps, PolishingKeeps, GivingUpKeeps, AcceptKeeps, FinishKeeps,
       StutterKeeps DEF Next, Step, Done
  <2>2. (ModeTold /\ FactsKept /\ PlacedLines)'
    BY <2>1, DeliveryFollows, PTL
  <2>3. UnalteredTextPasses'
    BY <2>1, PassFollows, PTL
  <2> QED  BY <2>1, <2>2, <2>3 DEF IInv
<1> QED  BY <1>1, InitIInv, PTL DEF Spec

\* mode_used never calls a rewritten text deterministic, nor an unvalidated one
\* polished.
THEOREM ModeIsTold == Spec => []ModeTold
BY Invariance, PTL DEF IInv

\* Polished or not, the text holds each selected view exactly once and no other.
THEOREM FactsSurvive == Spec => []FactsKept
BY Invariance, PTL DEF IInv

\* No behaviour of the polisher makes a rendering with a fallback fail, and the
\* final assertions of render never fire.
THEOREM FallbackIsSafe == Spec => []FallbackNeverFails
BY Invariance, PTL DEF IInv

\* The validator is not stricter than the text it protects.
THEOREM UnalteredIsValid == Spec => []UnalteredTextPasses
BY Invariance, PTL DEF IInv

\* A line of a member with one view is in its section, headings once each.
THEOREM LinesArePlaced == Spec => []PlacedLines
BY Invariance, PTL DEF IInv

-----------------------------------------------------------------------------
(* What holds of the text that was not polished.                            *)

\* What is true of "never an over-long response" and of "status tags preserved":
\* a text that is not called polished is within the budget, holds only lines of
\* selected views, and each under the tag of its view.
UnpolishedIsExact ==
    outcome = "ok" /\ modeUsed \in {"deterministic", Fallback} =>
        /\ content.length <= maxChars
        /\ \A spot \in Spots(content) :
              \E v \in body : spot[2].anchor = AnchorOf(v) /\ spot[2].tag = TagOf(v)
        /\ \A v \in body, spot \in Spots(content) :
              spot[2].anchor = AnchorOf(v) => spot[2].tag = TagOf(v)

\* The deterministic text and the fallback keep the length and every tag; only a
\* polished text may be too long or lose the tag of a line (render, and the
\* checks _validate_llm_output_sections does not make).
THEOREM UnpolishedExact == Spec => []UnpolishedIsExact
<1>1. ASSUME IInv, outcome = "ok", modeUsed \in {"deterministic", Fallback}
      PROVE  UnpolishedIsExact
  <2>1. /\ pack \in Packs /\ body \in SUBSET Units(pack)
        /\ left = Units(pack) \ body /\ Budget!Fits(body) /\ Deliverable
    BY <1>1 DEF IInv, TypeOK, Progress
  <2>2. content = Unaltered
    BY <1>1, <2>1 DEF Deliverable, Fallback, IInv, TypeOK, Mode
  <2>3. content.length = Length(pack, body, Units(pack) \ body)
    BY <2>1, <2>2, DeterministicBlocks DEF Unaltered
  <2>4. \A spot \in Spots(content) : \E v \in body :
           spot = <<SectionPlace[SectionOf(pack, v)], LineOf(v)>>
    BY <2>1, <2>2, DeterministicSpots DEF Unaltered
  <2>5. ASSUME NEW spot \in Spots(content)
        PROVE  \E v \in body : spot[2].anchor = AnchorOf(v) /\ spot[2].tag = TagOf(v)
    BY <2>4 DEF LineOf
  <2>6. ASSUME NEW v \in body, NEW spot \in Spots(content), spot[2].anchor = AnchorOf(v)
        PROVE  spot[2].tag = TagOf(v)
    <3>1. PICK w \in body : spot[2].anchor = AnchorOf(w) /\ spot[2].tag = TagOf(w)
      BY <2>5
    <3>2. v \in View /\ w \in View
      BY <2>1, UnitInSection
    <3>3. v = w
      BY <2>6, <3>1, <3>2, AnchorsDiffer
    <3> QED  BY <3>1, <3>3
  <2> QED  BY <2>1, <2>3, <2>5, <2>6 DEF UnpolishedIsExact, Budget!Fits
<1>2. IInv => UnpolishedIsExact
  BY <1>1 DEF UnpolishedIsExact
<1> QED  BY <1>2, Invariance, PTL

\* No text leaves for the polisher unless the caller asked for a polish and the
\* pack compiled, and a rendering makes one call and MaxRetries repetitions.
OnlyAskedFor ==
    /\ attempts > 0 => mode # "deterministic" /\ polisher /\ compiled = "ok"
    /\ attempts <= MaxRetries + 1

\* The deterministic mode never calls out, and no mode calls more often than the
\* client may retry (render, OpenAITextPolisher.polish).
THEOREM PolisherOnlyAskedFor == Spec => []OnlyAskedFor
<1>1. Init => OnlyAskedFor
  BY RendererAssumption DEF Init, OnlyAskedFor
<1>2. IInv /\ IInv' /\ OnlyAskedFor /\ [Next]_vars => OnlyAskedFor'
  <2> SUFFICES ASSUME IInv, IInv', OnlyAskedFor, [Next]_vars PROVE OnlyAskedFor'
    OBVIOUS
  <2>1. attempts' <= MaxRetries + 1
    BY RendererAssumption DEF IInv, TypeOK
  <2>2. CASE Polish \/ Retry \/ Unavailable
    <3>1. mode # "deterministic" /\ polisher /\ compiled = "ok"
      BY <2>2 DEF Polish, Retry, Unavailable, IInv, Progress
    <3>2. UNCHANGED <<mode, polisher, compiled>>
      BY <2>2 DEF Polish, Retry, Unavailable, GiveUp, inputs, compilation
    <3> QED  BY <2>1, <3>1, <3>2 DEF OnlyAskedFor
  <2>3. CASE Compile
    <3>1. compiled = "pending" /\ attempts' = attempts
      BY <2>3 DEF Compile, IInv, Progress
    <3> QED  BY <2>1, <3>1 DEF OnlyAskedFor
  <2>4. CASE Assemble \/ Skip \/ NoPolisher \/ Reject \/ Accept \/ Finish \/ UNCHANGED vars
    <3>1. UNCHANGED <<attempts, mode, polisher, compiled>>
      BY <2>4 DEF Assemble, Skip, NoPolisher, Reject, Accept, Finish, GiveUp, inputs,
                  compilation, vars
    <3> QED  BY <2>1, <3>1 DEF OnlyAskedFor
  <2> QED  BY <2>2, <2>3, <2>4 DEF Next, Step, Done
<1> QED  BY <1>1, <1>2, Invariance, PTL DEF Spec

-----------------------------------------------------------------------------
(* The end of a rendering.                                                  *)

\* The statements left, a retry of the polisher among them.
WorkLeft ==
    CASE pc = "compile"  -> MaxRetries + 5
      [] pc = "assemble" -> MaxRetries + 4
      [] pc = "polish"   -> (MaxRetries - attempts) + 3
      [] pc = "validate" -> 2
      [] pc = "check"    -> 1
      [] OTHER           -> 0

LEMMA WorkIsNatural == IInv => WorkLeft \in Nat
<1> SUFFICES ASSUME IInv PROVE WorkLeft \in Nat
  OBVIOUS
<1>1. attempts \in Nat /\ MaxRetries \in Nat
  BY RendererAssumption DEF IInv, TypeOK
<1>2. pc = "polish" => attempts <= MaxRetries
  BY DEF IInv, Progress
<1> QED  BY <1>1, <1>2 DEF WorkLeft

LEMMA StepWorks == IInv /\ IInv' /\ [Next]_vars => [WorkLeft' < WorkLeft]_vars
<1> SUFFICES ASSUME IInv, IInv', Next, vars' # vars PROVE WorkLeft' < WorkLeft
  OBVIOUS
<1>1. /\ attempts \in Nat /\ attempts' \in Nat /\ MaxRetries \in Nat
      /\ pc = "polish" => attempts <= MaxRetries
  BY RendererAssumption DEF IInv, TypeOK, Progress
<1>2. CASE Compile
  <2>1. pc = "compile" /\ pc' \in {"assemble", "done"}
    BY <1>2 DEF Compile, End
  <2> QED  BY <1>1, <2>1 DEF WorkLeft
<1>3. CASE Assemble
  <2>1. pc = "assemble" /\ pc' \in {"polish", "done"}
    BY <1>3 DEF Assemble, End
  <2> QED  BY <1>1, <2>1 DEF WorkLeft
<1>4. CASE Retry
  <2>1. pc = "polish" /\ pc' = "polish" /\ attempts' = attempts + 1
    BY <1>4 DEF Retry
  <2> QED  BY <1>1, <2>1 DEF WorkLeft
<1>5. CASE Skip \/ NoPolisher \/ Polish \/ Unavailable
  <2>1. pc = "polish" /\ pc' \in {"validate", "check", "done"}
    BY <1>5 DEF Skip, NoPolisher, Polish, Unavailable, GiveUp, End
  <2> QED  BY <1>1, <2>1 DEF WorkLeft
<1>6. CASE Reject \/ Accept
  <2>1. pc = "validate" /\ pc' \in {"check", "done"}
    BY <1>6 DEF Reject, Accept, GiveUp, End
  <2> QED  BY <2>1 DEF WorkLeft
<1>7. CASE Finish
  BY <1>7 DEF Finish, End, WorkLeft
<1>8. ~ Done
  BY DEF Done
<1> QED  BY <1>2, <1>3, <1>4, <1>5, <1>6, <1>7, <1>8 DEF Next, Step

\* Each step of a rendering lowers a natural number, however often the polisher
\* fails and whatever it answers: a bad text is never asked for again
\* (render, the loop of OpenAITextPolisher.polish).
THEOREM BoundedWork == Spec => [](WorkLeft \in Nat) /\ [][WorkLeft' < WorkLeft]_vars
BY StepWorks, WorkIsNatural, Invariance, PTL DEF Spec
=============================================================================
