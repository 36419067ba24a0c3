------------------------ MODULE IntentResolverProofs ------------------------
(***************************************************************************)
(* GramIntentResolver.resolve keeps its invariant and implements the       *)
(* contract, for every index, query, weight, boost and list length.        *)
(***************************************************************************)
EXTENDS IntentResolver, TLAPS, FiniteSetTheorems, WellFoundedInduction

\* Every nonempty set of naturals has a least element.
LEMMA LeastOfSet ==
  ASSUME NEW S \in SUBSET Nat, S # {}
  PROVE  \E x \in S : \A y \in S : ~ (y < x)
<1> DEFINE R == OpToRel(<, Nat)
<1>1. IsWellFoundedOn(R, Nat)
  BY NatLessThanWellFounded
<1>2. PICK x \in S : \A y \in S : ~ (<<y, x>> \in R)
  <2> HIDE DEF R
  <2> QED  BY <1>1, WFMin
<1>3. \A y \in S : y < x => <<y, x>> \in R
  BY DEF OpToRel
<1> QED  BY <1>2, <1>3

-----------------------------------------------------------------------------
(* The order of the keys.                                                   *)

Ints(k) == \A i \in 1..6 : k[i] \in Int

Equal(k, l) == \A i \in 1..6 : k[i] = l[i]

\* Tuples compare as the sort of the code compares them: nothing is above
\* itself, the order is transitive, and unequal tuples are comparable.
LEMMA AboveIrreflexive ==
  ASSUME NEW k, NEW l, Ints(k), Ints(l), Equal(k, l)
  PROVE  ~ Above(k, l)
BY DEF Above, Ints, Equal

LEMMA SixCases == \A i \in 1..6 : i = 1 \/ i = 2 \/ i = 3 \/ i = 4 \/ i = 5 \/ i = 6
OBVIOUS

LEMMA AboveAsymmetric ==
  ASSUME NEW k, NEW l, Ints(k), Ints(l), Above(k, l)
  PROVE  ~ Above(l, k)
<1>1. PICK i \in 1..6 : k[i] > l[i] /\ \A j \in 1..6 : j < i => k[j] = l[j]
  BY DEF Above
<1>2. SUFFICES ASSUME NEW h \in 1..6, l[h] > k[h], \A j \in 1..6 : j < h => l[j] = k[j]
               PROVE FALSE
  BY DEF Above
<1>3. i < h \/ i = h \/ h < i
  OBVIOUS
<1> QED  BY <1>1, <1>2, <1>3 DEF Ints

LEMMA AboveTransitive ==
  ASSUME NEW k, NEW l, NEW m, Ints(k), Ints(l), Ints(m), Above(k, l), Above(l, m)
  PROVE  Above(k, m)
<1>1. PICK i \in 1..6 : k[i] > l[i] /\ \A j \in 1..6 : j < i => k[j] = l[j]
  BY DEF Above
<1>2. PICK h \in 1..6 : l[h] > m[h] /\ \A j \in 1..6 : j < h => l[j] = m[j]
  BY DEF Above
<1>3. i < h \/ i = h \/ h < i
  OBVIOUS
<1>4. CASE i < h
  <2>1. k[i] > m[i] /\ \A j \in 1..6 : j < i => k[j] = m[j]
    BY <1>1, <1>2, <1>4 DEF Ints
  <2> QED  BY <2>1 DEF Above
<1>5. CASE i = h
  <2>1. k[i] > m[i] /\ \A j \in 1..6 : j < i => k[j] = m[j]
    BY <1>1, <1>2, <1>5 DEF Ints
  <2> QED  BY <2>1 DEF Above
<1>6. CASE h < i
  <2>1. k[h] > m[h] /\ \A j \in 1..6 : j < h => k[j] = m[j]
    BY <1>1, <1>2, <1>6 DEF Ints
  <2> QED  BY <2>1 DEF Above
<1> QED  BY <1>3, <1>4, <1>5, <1>6

LEMMA AboveCongruent ==
  ASSUME NEW k, NEW l, NEW m, Equal(k, l)
  PROVE  /\ Above(k, m) <=> Above(l, m)
         /\ Above(m, k) <=> Above(m, l)
BY DEF Above, Equal

LEMMA AboveTotal ==
  ASSUME NEW k, NEW l, Ints(k), Ints(l), ~ Equal(k, l)
  PROVE  Above(k, l) \/ Above(l, k)
<1> DEFINE Differ == {i \in 1..6 : k[i] # l[i]}
<1>1. Differ # {} /\ Differ \subseteq Nat
  BY DEF Equal
<1>2. PICK i \in Differ : \A j \in Differ : ~ (j < i)
  BY <1>1, LeastOfSet
<1>3. \A j \in 1..6 : j < i => k[j] = l[j] /\ l[j] = k[j]
  BY <1>2
<1>4. i \in 1..6 /\ (k[i] > l[i] \/ l[i] > k[i])
  BY DEF Ints
<1> QED  BY <1>3, <1>4 DEF Above

\* A score that differs by the same amount wherever the role is the same changes
\* no comparison: the role is compared before the score.
LEMMA LiftKeepsOrder ==
  ASSUME NEW k, NEW l, NEW kk, NEW ll, Ints(k), Ints(l), Ints(kk), Ints(ll),
         \A i \in 1..5 : k[i] = kk[i] /\ l[i] = ll[i],
         k[3] = l[3] => k[6] - kk[6] = l[6] - ll[6]
  PROVE  /\ Above(k, l) <=> Above(kk, ll)
         /\ Equal(k, l) <=> Equal(kk, ll)
<1>1. ASSUME NEW i \in 1..6, \A j \in 1..6 : j < i => k[j] = l[j]
      PROVE  /\ k[i] > l[i] <=> kk[i] > ll[i]
             /\ \A j \in 1..6 : j < i => kk[j] = ll[j]
  <2>1. CASE i \in 1..5
    BY <1>1, <2>1 DEF Ints
  <2>2. CASE i = 6
    <3>1. k[3] = l[3]
      BY <1>1, <2>2
    <3>2. k[6] > l[6] <=> kk[6] > ll[6]
      BY <3>1 DEF Ints
    <3> QED  BY <1>1, <2>2, <3>2
  <2> QED  BY <2>1, <2>2
<1>2. ASSUME NEW i \in 1..6, \A j \in 1..6 : j < i => kk[j] = ll[j]
      PROVE  /\ k[i] > l[i] <=> kk[i] > ll[i]
             /\ \A j \in 1..6 : j < i => k[j] = l[j]
  <2>1. \A j \in 1..6 : j < i => j \in 1..5
    OBVIOUS
  <2>2. \A j \in 1..6 : j < i => k[j] = l[j]
    BY <1>2, <2>1
  <2> QED  BY <1>1, <2>2
<1>3. Above(k, l) <=> Above(kk, ll)
  BY <1>1, <1>2 DEF Above
<1>4. (\A i \in 1..5 : k[i] = l[i]) => (k[6] = l[6] <=> kk[6] = ll[6])
  BY DEF Ints
<1>5. Equal(k, l) <=> Equal(kk, ll)
  BY <1>4, SixCases DEF Equal
<1> QED  BY <1>3, <1>5

-----------------------------------------------------------------------------
(* The keys of resources.                                                   *)

LEMMA EvidenceCounts ==
  ASSUME NEW D, NEW q \in Query, NEW n
  PROVE  /\ Entities(D, q, n) \in Nat
         /\ Base(D, q, n) \in Nat
         /\ Cardinality(NameTopics(D, q, n)) \in Nat
         /\ Cardinality(ScopeTopics(D, q, n)) \in Nat
<1>1. Len(q.words) \in Nat /\ DOMAIN q.words = 1..Len(q.words)
  BY DEF Query
<1>2. IsFiniteSet({i \in DOMAIN q.words : q.words[i] \in NameTokens(D, n)})
  <2>1. IsFiniteSet(1..Len(q.words))
    BY <1>1, FS_Interval
  <2>2. {i \in DOMAIN q.words : q.words[i] \in NameTokens(D, n)} \subseteq DOMAIN q.words
    OBVIOUS
  <2> QED  BY <1>1, <2>1, <2>2, FS_Subset
<1>3. Entities(D, q, n) \in Nat
  BY <1>2, FS_CardinalityType DEF Entities
<1>4. /\ q.grams \cap Fragments(D, n) \in SUBSET Fragment
      /\ NameTopics(D, q, n) \in SUBSET Fragment
      /\ ScopeTopics(D, q, n) \in SUBSET Fragment
  BY DEF Query, NameTopics, ScopeTopics
<1>5. \A S \in SUBSET Fragment : Cardinality(S) \in Nat
  BY EvidenceAssumption, FS_Subset, FS_CardinalityType
<1>6. q.length \in Nat
  BY DEF Query
<1>7. Cardinality(q.grams \cap Fragments(D, n)) \in Nat
  BY <1>4, <1>5
<1>8. Base(D, q, n) \in Nat
  BY <1>3, <1>6, <1>7, EvidenceAssumption DEF Base
<1> QED  BY <1>3, <1>4, <1>5, <1>8

LEMMA KeyParts ==
  ASSUME NEW D, NEW q \in Query, NEW n, NEW score \in Int
  PROVE  /\ Key(D, q, score, n)[2] = Entities(D, q, n)
         /\ Key(D, q, score, n)[3] = Flag(RoleFits(D, q, n))
         /\ Key(D, q, score, n)[6] = score
         /\ Ints(Key(D, q, score, n))
         /\ \A other \in Int, i \in 1..5 : Key(D, q, score, n)[i] = Key(D, q, other, n)[i]
<1>1. /\ Entities(D, q, n) \in Nat
      /\ Cardinality(NameTopics(D, q, n)) \in Nat
      /\ Cardinality(ScopeTopics(D, q, n)) \in Nat
  BY EvidenceCounts
<1>2. \A b : Flag(b) \in Int
  BY DEF Flag
<1> DEFINE evidence == Cardinality(NameTopics(D, q, n)) + Cardinality(ScopeTopics(D, q, n))
<1>3. evidence \in Int
  BY <1>1
<1> HIDE DEF evidence
<1>4. ASSUME NEW s \in Int
      PROVE  /\ Key(D, q, s, n)[1] = Flag(Exact(D, q, n))
             /\ Key(D, q, s, n)[2] = Entities(D, q, n)
             /\ Key(D, q, s, n)[3] = Flag(RoleFits(D, q, n))
             /\ Key(D, q, s, n)[4] = evidence
             /\ Key(D, q, s, n)[5] = Cardinality(NameTopics(D, q, n))
             /\ Key(D, q, s, n)[6] = s
  BY DEF Key, evidence
<1>5. Ints(Key(D, q, score, n))
  BY <1>1, <1>2, <1>3, <1>4, SixCases DEF Ints
<1>6. ASSUME NEW other \in Int, NEW i \in 1..5
      PROVE  Key(D, q, score, n)[i] = Key(D, q, other, n)[i]
  <2>1. i = 1 \/ i = 2 \/ i = 3 \/ i = 4 \/ i = 5
    OBVIOUS
  <2> QED  BY <1>4, <2>1
<1> QED  BY <1>4, <1>5, <1>6

LEMMA KeyEqual ==
  ASSUME NEW D, NEW q, NEW m, NEW n, NEW x, NEW y
  PROVE  Key(D, q, x, m) = Key(D, q, y, n) <=> Equal(Key(D, q, x, m), Key(D, q, y, n))
<1>1. Key(D, q, x, m) = Key(D, q, y, n) => Equal(Key(D, q, x, m), Key(D, q, y, n))
  BY DEF Equal
<1>2. ASSUME Equal(Key(D, q, x, m), Key(D, q, y, n))
      PROVE  Key(D, q, x, m) = Key(D, q, y, n)
  <2>1. \A i \in 1..6 : Key(D, q, x, m)[i] = Key(D, q, y, n)[i]
    BY <1>2 DEF Equal
  <2> QED  BY <2>1 DEF Key
<1> QED  BY <1>1, <1>2

-----------------------------------------------------------------------------
(* The ranking, once the role has been applied.                             *)

LEMMA InputsGood == TypeOK => query \in Query /\ Subjects(Indexed) \subseteq Node
<1> SUFFICES ASSUME TypeOK PROVE query \in Query /\ Subjects(Indexed) \subseteq Node
  OBVIOUS
<1>1. query \in Query /\ dataset \in SUBSET Quad
  BY EvidenceAssumption DEF TypeOK
<1>2. Indexed \subseteq dataset
  BY DEF Indexed, StatementsIn
<1>3. \A r \in Indexed : r.s \in Node
  BY <1>1, <1>2 DEF Quad
<1> QED  BY <1>1, <1>3 DEF Subjects

Ranked ==
    /\ pool = Candidates(Indexed, query)
    /\ \A n \in pool : eff[n] = Base(Indexed, query, n) + Lifted(n)

\* The boost is idle: lifted or not, the candidates stand in the same order.
LEMMA BoostIdle ==
  ASSUME TypeOK, Ranked, NEW m \in pool, NEW n \in pool
  PROVE  /\ Above(KeyOf(m), KeyOf(n)) <=> Above(PlainKey(Indexed, query, m), PlainKey(Indexed, query, n))
         /\ KeyOf(m) = KeyOf(n) <=> PlainKey(Indexed, query, m) = PlainKey(Indexed, query, n)
         /\ Ints(KeyOf(m)) /\ Ints(PlainKey(Indexed, query, m))
         /\ KeyOf(m)[2] = Entities(Indexed, query, m)
<1> DEFINE bm == Base(Indexed, query, m)
           bn == Base(Indexed, query, n)
<1>1. query \in Query /\ bm \in Nat /\ bn \in Nat
  BY InputsGood, EvidenceCounts
<1>2. Lifted(m) \in Nat /\ Lifted(n) \in Nat
  BY ResolverAssumption DEF Lifted
<1>3. eff[m] \in Int /\ eff[n] \in Int /\ eff[m] = bm + Lifted(m) /\ eff[n] = bn + Lifted(n)
  BY <1>1, <1>2 DEF Ranked
<1> HIDE DEF bm, bn
<1> DEFINE k == KeyOf(m)
           l == KeyOf(n)
           kk == Key(Indexed, query, bm, m)
           ll == Key(Indexed, query, bn, n)
<1>4. kk = PlainKey(Indexed, query, m) /\ ll = PlainKey(Indexed, query, n)
  BY DEF PlainKey, bm, bn
<1>5. /\ Ints(k) /\ Ints(l) /\ Ints(kk) /\ Ints(ll)
      /\ k[6] = eff[m] /\ l[6] = eff[n] /\ kk[6] = bm /\ ll[6] = bn
      /\ k[2] = Entities(Indexed, query, m)
      /\ k[3] = Flag(RoleFits(Indexed, query, m))
      /\ l[3] = Flag(RoleFits(Indexed, query, n))
      /\ \A i \in 1..5 : k[i] = kk[i] /\ l[i] = ll[i]
  BY <1>1, <1>3, KeyParts DEF KeyOf
<1>6. k[3] = l[3] => Lifted(m) = Lifted(n)
  BY <1>5 DEF Flag, Lifted
<1>7. k[3] = l[3] => k[6] - kk[6] = l[6] - ll[6]
  BY <1>1, <1>2, <1>3, <1>5, <1>6
<1>8. (k = l <=> Equal(k, l)) /\ (kk = ll <=> Equal(kk, ll))
  BY KeyEqual DEF KeyOf
<1> HIDE DEF k, l, kk, ll
<1>9. /\ Above(k, l) <=> Above(kk, ll)
      /\ Equal(k, l) <=> Equal(kk, ll)
  BY <1>5, <1>7, LiftKeepsOrder
<1> QED  BY <1>4, <1>5, <1>8, <1>9 DEF k, l

\* The first of the ranking is a best candidate, and the best ones are its equals.
LEMMA FirstIsBest ==
  ASSUME TypeOK, Ranked, NEW top, IsFirst(top, pool)
  PROVE  /\ top \in Best(Indexed, query)
         /\ Best(Indexed, query) = {n \in pool : KeyOf(n) = KeyOf(top)}
<1>1. top \in pool /\ pool = Candidates(Indexed, query)
  BY DEF IsFirst, Ranked
<1>2. \A n \in pool : Ints(KeyOf(n))
  BY BoostIdle
<1>3. ASSUME NEW n \in pool PROVE ~ Above(KeyOf(n), KeyOf(top))
  <2>1. CASE n = top
    BY <1>1, <1>2, <2>1, AboveIrreflexive DEF Equal
  <2>2. CASE n # top
    <3>1. Above(KeyOf(top), KeyOf(n)) \/ KeyOf(top) = KeyOf(n)
      BY <2>2 DEF IsFirst, Before
    <3> QED  BY <1>1, <1>2, <3>1, AboveAsymmetric, AboveIrreflexive DEF Equal
  <2> QED  BY <2>1, <2>2
<1>4. ASSUME NEW n \in pool PROVE n \in Best(Indexed, query) <=> \A m \in pool : ~ Above(KeyOf(m), KeyOf(n))
  BY <1>1, BoostIdle DEF Best
<1>5. ASSUME NEW n \in pool, KeyOf(n) = KeyOf(top) PROVE n \in Best(Indexed, query)
  BY <1>3, <1>4, <1>5
<1>6. ASSUME NEW n \in pool, n \in Best(Indexed, query) PROVE KeyOf(n) = KeyOf(top)
  <2>1. ~ Above(KeyOf(n), KeyOf(top)) /\ ~ Above(KeyOf(top), KeyOf(n))
    BY <1>1, <1>3, <1>4, <1>6
  <2>2. Equal(KeyOf(n), KeyOf(top))
    BY <1>1, <1>2, <2>1, AboveTotal
  <2> QED  BY <2>2, KeyEqual DEF KeyOf
<1>7. Best(Indexed, query) \subseteq pool
  BY <1>1 DEF Best
<1> QED  BY <1>1, <1>5, <1>6, <1>7

\* An equal of the first is seen: the runner-up is one.
LEMMA EqualIsSecond ==
  ASSUME TypeOK, Ranked, NEW top, IsFirst(top, pool),
         NEW x \in pool, x # top, KeyOf(x) = KeyOf(top)
  PROVE  \E second \in pool : IsFirst(second, pool \ {top}) /\ KeyOf(second) = KeyOf(top)
<1> DEFINE Equals == {n \in pool \ {top} : KeyOf(n) = KeyOf(top)}
           Places == {Place[n] : n \in Equals}
<1>1. pool \subseteq Node
  BY InputsGood DEF TypeOK
<1>2. Places \in SUBSET Nat /\ Places # {}
  BY <1>1, EvidenceAssumption
<1>3. PICK p \in Places : \A y \in Places : ~ (y < p)
  <2> HIDE DEF Places
  <2> QED  BY <1>2, LeastOfSet
<1>4. PICK second \in Equals : Place[second] = p
  OBVIOUS
<1>5. second \in pool \ {top} /\ KeyOf(second) = KeyOf(top)
  BY <1>4
<1>6. ASSUME NEW n \in pool \ {top}, n # second PROVE Before(second, n)
  <2>1. CASE n \in Equals
    <3>1. Place[n] \in Nat /\ Place[second] \in Nat /\ Place[n] # Place[second]
      BY <1>1, <1>5, <1>6, EvidenceAssumption
    <3>2. ~ (Place[n] < Place[second])
      BY <1>3, <1>4, <2>1
    <3>3. Place[second] < Place[n]
      BY <3>1, <3>2
    <3> QED  BY <1>5, <2>1, <3>3 DEF Before
  <2>2. CASE KeyOf(n) # KeyOf(top)
    <3>1. Above(KeyOf(top), KeyOf(n))
      BY <1>6, <2>2 DEF IsFirst, Before
    <3> QED  BY <1>5, <3>1 DEF Before
  <2> QED  BY <2>1, <2>2
<1> QED  BY <1>5, <1>6 DEF IsFirst

-----------------------------------------------------------------------------
(* The gates.                                                               *)

LEMMA BestWithin == Best(Indexed, query) \subseteq Candidates(Indexed, query)
BY DEF Best

LEMMA LeadingWithin == \A S : Leading(S) \subseteq S
BY DEF Leading

\* Every refusal is one the contract asks for.
LEMMA RefusalIsDue ==
  ASSUME IInv, CheckWords \/ CheckSpans \/ Constrain \/ CheckStrength, outcome' # outcome
  PROVE  /\ ~ Answerable(Indexed, query)
         /\ outcome' = "refused" /\ pc' = "done"
         /\ told' \subseteq Subjects(Indexed)
         /\ UNCHANGED <<inputs, pool, eff, chosen>>
<1> USE DEF IInv, TypeOK
<1>1. CASE CheckWords
  <2>1. ~ WordsKnown /\ Refuse("words", Leading(pool))
    BY <1>1 DEF CheckWords, Pass, answer
  <2> QED  BY <2>1, LeadingWithin DEF Refuse, WordsKnown, Answerable, Admitted
<1>2. CASE CheckSpans
  <2>1. \/ ~ SpansCovered /\ Refuse("spans", Leading(pool))
        \/ pool = {} /\ Refuse("spans", {})
    BY <1>2 DEF CheckSpans, Pass, answer
  <2>2. CASE ~ SpansCovered /\ Refuse("spans", Leading(pool))
    BY <2>2, LeadingWithin DEF Refuse, SpansCovered, Answerable, Admitted
  <2>3. CASE pool = {} /\ Refuse("spans", {})
    <3>1. Candidates(Indexed, query) \subseteq pool
      BY <2>3 DEF Progress, Refuse, Candidates
    <3> QED  BY <2>3, <3>1, BestWithin DEF Refuse, Answerable
  <2> QED  BY <2>1, <2>2, <2>3
<1>3. CASE Constrain
  <2>1. InRole = {} /\ Refuse("role", Leading(pool)) /\ query.trigger # NoTrigger
          /\ query.trigger.mode = "constrain"
    BY <1>3 DEF Constrain, answer
  <2>2. Candidates(Indexed, query) \subseteq InRole
    BY <2>1 DEF Progress, Refuse, Candidates, InRole
  <2> QED  BY <2>1, <2>2, BestWithin, LeadingWithin DEF Refuse, Answerable
<1>4. CASE CheckStrength
  <2>1. PICK top \in pool :
          /\ IsFirst(top, pool)
          /\ Entities(Indexed, query, top) = 0 /\ query.spans = {}
          /\ Refuse("strength", Leading(pool))
    BY <1>4 DEF CheckStrength, Pass, answer
  <2>2. Ranked
    BY <2>1 DEF Progress, Refuse, Ranked
  <2>3. top \in Best(Indexed, query)
    BY <2>1, <2>2, FirstIsBest
  <2> QED  BY <2>1, <2>3, LeadingWithin DEF Refuse, Weak, Answerable
<1> QED  BY <1>1, <1>2, <1>3, <1>4

\* The last step answers what the contract answers.
LEMMA DecisionIsDue ==
  ASSUME IInv, Decide
  PROVE  /\ Answerable(Indexed, query)
         /\ \/ /\ outcome' = "ambiguous"
               /\ told' = Best(Indexed, query)
               /\ chosen' = {}
               /\ \E m, n \in told' : m # n /\ PlainKey(Indexed, query, m) = PlainKey(Indexed, query, n)
            \/ /\ outcome' = "root"
               /\ \E top \in Candidates(Indexed, query) :
                    /\ Best(Indexed, query) = {top} /\ chosen' = {top}
                    /\ \A m \in Candidates(Indexed, query) \ {top} :
                          Above(PlainKey(Indexed, query, top), PlainKey(Indexed, query, m))
               /\ told' \subseteq Candidates(Indexed, query) \ chosen'
<1> USE DEF IInv, Progress
<1>1. PICK top \in pool : IsFirst(top, pool) /\ (Ambiguous(top) \/ Choose(top))
  BY DEF Decide
<1>2. pc = "decide" /\ Ranked /\ pool = Candidates(Indexed, query) /\ TypeOK
  BY DEF Decide, Ranked
<1>3. /\ top \in Best(Indexed, query)
      /\ Best(Indexed, query) = {n \in pool : KeyOf(n) = KeyOf(top)}
  BY <1>1, <1>2, FirstIsBest
<1>4. Answerable(Indexed, query)
  BY <1>2, <1>3 DEF Answerable, Admitted, WordsKnown, SpansCovered
<1>5. CASE Ambiguous(top)
  <2>1. PICK second \in pool : IsFirst(second, pool \ {top}) /\ KeyOf(second) = KeyOf(top)
    BY <1>5 DEF Ambiguous
  <2>2. second # top /\ second \in told' /\ top \in told'
    BY <1>1, <1>5, <2>1 DEF Ambiguous, IsFirst
  <2>3. PlainKey(Indexed, query, second) = PlainKey(Indexed, query, top)
    BY <1>2, <2>1, BoostIdle
  <2> QED  BY <1>2, <1>3, <1>4, <1>5, <2>2, <2>3 DEF Ambiguous
<1>6. CASE Choose(top)
  <2>1. \A x \in pool : x # top => KeyOf(x) # KeyOf(top)
    BY <1>1, <1>2, <1>6, EqualIsSecond DEF Choose, IsFirst
  <2>2. Best(Indexed, query) = {top}
    BY <1>1, <1>3, <2>1
  <2>3. ASSUME NEW m \in pool, m # top
        PROVE  Above(PlainKey(Indexed, query, top), PlainKey(Indexed, query, m))
    <3>1. Above(KeyOf(top), KeyOf(m))
      BY <1>1, <2>1, <2>3 DEF IsFirst, Before
    <3> QED  BY <1>1, <1>2, <2>3, <3>1, BoostIdle
  <2> QED  BY <1>2, <1>4, <1>6, <2>2, <2>3, LeadingWithin DEF Choose
<1> QED  BY <1>1, <1>5, <1>6

-----------------------------------------------------------------------------
(* The invariant.                                                           *)

LEMMA InitIInv == Init => IInv
<1> SUFFICES ASSUME Init PROVE IInv
  OBVIOUS
<1>1. allowed \in SUBSET Graph
  BY StoreAssumption DEF Init, AllowedGraphs
<1>2. TypeOK
  BY <1>1 DEF Init, TypeOK
<1> QED  BY <1>2 DEF Init, IInv, Progress, NoGuess, KnownTopicsOnly, NothingInvisibleNamed

\* Whatever is a subject of the index is visible.
LEMMA NamedAreVisible == TypeOK => NothingInvisibleNamed
BY DEF TypeOK, NothingInvisibleNamed, Subjects, Roots, Indexed, StatementsIn, Ok

LEMMA SameIndex == UNCHANGED inputs => Indexed' = Indexed /\ query' = query
BY DEF inputs, Indexed

\* Between the gates only the pool and the scores change.
LEMMA GateKeepsIInv ==
  ASSUME IInv, Next, outcome' = outcome, pc # "done"
  PROVE  IInv'
<1> USE DEF IInv, TypeOK
<1>1. UNCHANGED <<inputs, answer>> /\ pc' # "done"
  BY DEF Next, Score, CheckWords, CheckSpans, NoRole, Constrain, Prefer, CheckStrength,
         Decide, Done, Pass, Refuse, Ambiguous, Choose, Progress, inputs, answer
<1>2. outcome = "pending" /\ told = {} /\ chosen = {}
  BY DEF Progress
<1>3. query \in Query /\ Subjects(Indexed) \subseteq Node
  BY InputsGood
<1>4. Indexed' = Indexed /\ query' = query
  BY <1>1, SameIndex DEF inputs
<1>5. TypeOK' /\ Progress'
  <2>1. CASE Score
    <3>1. \A n \in Subjects(Indexed) : Base(Indexed, query, n) \in Nat
      BY <1>3, EvidenceCounts
    <3>2. eff' \in [Node -> Int]
      BY <2>1, <3>1 DEF Score
    <3>3. TypeOK'
      BY <1>1, <1>2, <1>4, <2>1, <3>2 DEF Score, inputs, answer
    <3> QED  BY <1>1, <1>2, <1>3, <1>4, <2>1, <3>3 DEF Score, answer, Progress
  <2>2. CASE CheckWords
    <3>1. WordsKnown /\ Pass("words", "spans")
      BY <1>1, <2>2 DEF CheckWords, Refuse
    <3> QED  BY <1>1, <1>2, <1>4, <3>1 DEF Pass, inputs, answer, Progress, WordsKnown
  <2>3. CASE CheckSpans
    <3>1. SpansCovered /\ pool # {} /\ Pass("spans", "role")
      BY <1>1, <2>3 DEF CheckSpans, Refuse
    <3> QED  BY <1>1, <1>2, <1>4, <3>1 DEF Pass, inputs, answer, Progress, WordsKnown, SpansCovered
  <2>4. CASE NoRole
    <3>1. pool = Candidates(Indexed, query) /\ \A n \in pool : Lifted(n) = 0
      BY <2>4 DEF NoRole, Pass, Progress, Candidates, Lifted, RoleFits
    <3>2. \A n \in pool : eff[n] = Base(Indexed, query, n) + Lifted(n)
      BY <2>4, <1>3, <3>1, EvidenceCounts DEF NoRole, Pass, Progress
    <3> QED  BY <1>1, <1>2, <1>4, <2>4, <3>1, <3>2
             DEF NoRole, Pass, inputs, answer, Progress, WordsKnown, SpansCovered, Lifted
  <2>5. CASE Constrain
    <3>1. pc = "role" /\ pc' = "strength" /\ pool' = InRole /\ eff' = eff
            /\ query.trigger # NoTrigger /\ query.trigger.mode = "constrain"
      BY <1>1, <2>5 DEF Constrain, Refuse
    <3>2. InRole = Candidates(Indexed, query) /\ \A n \in pool : Lifted(n) = 0
      BY <3>1 DEF InRole, Progress, Candidates, Lifted
    <3>3. \A n \in InRole : n \in pool /\ eff[n] = Base(Indexed, query, n) + Lifted(n)
      BY <1>3, <3>1, <3>2, EvidenceCounts DEF InRole, Progress
    <3> QED  BY <1>1, <1>2, <1>4, <3>1, <3>2, <3>3
             DEF inputs, answer, Progress, WordsKnown, SpansCovered, Lifted
  <2>6. CASE Prefer
    <3>1. pc = "role" /\ pc' = "strength" /\ pool' = pool
            /\ query.trigger # NoTrigger /\ query.trigger.mode = "prefer"
            /\ eff' = [n \in Node |-> IF n \in InRole THEN eff[n] + Boost ELSE eff[n]]
      BY <2>6 DEF Prefer
    <3>2. pool = Candidates(Indexed, query)
      BY <3>1 DEF Progress, Candidates
    <3>3. ASSUME NEW n \in pool PROVE eff'[n] = Base(Indexed, query, n) + Lifted(n)
      <4>1. n \in InRole <=> RoleFits(Indexed, query, n)
        BY <3>1, <3>3 DEF InRole, RoleFits
      <4>2. eff[n] = Base(Indexed, query, n) /\ Base(Indexed, query, n) \in Nat /\ n \in Node
        BY <1>3, <3>1, <3>3, EvidenceCounts DEF Progress
      <4> QED  BY <3>1, <4>1, <4>2 DEF Lifted
    <3>4. eff' \in [Node -> Int]
      BY <3>1, ResolverAssumption
    <3>5. TypeOK'
      BY <1>1, <1>2, <1>4, <3>1, <3>4 DEF inputs, answer
    <3> QED  BY <1>1, <1>2, <1>4, <3>1, <3>2, <3>3, <3>5
             DEF answer, Progress, WordsKnown, SpansCovered, Lifted
  <2>7. CASE CheckStrength
    <3>1. PICK top \in pool :
            /\ IsFirst(top, pool)
            /\ Entities(Indexed, query, top) > 0 \/ query.spans # {}
            /\ Pass("strength", "decide")
      BY <1>1, <2>7 DEF CheckStrength, Refuse
    <3>2. Ranked
      BY <3>1 DEF Progress, Pass, Ranked
    <3>3. \A n \in Best(Indexed, query) : n \in pool /\ KeyOf(n) = KeyOf(top)
      BY <3>1, <3>2, FirstIsBest
    <3>4. \A n \in Best(Indexed, query) : Entities(Indexed, query, n) = Entities(Indexed, query, top)
      BY <3>1, <3>2, <3>3, BoostIdle
    <3>5. ~ Weak(Indexed, query)
      BY <3>1, <3>4 DEF Weak
    <3> QED  BY <1>1, <1>2, <1>4, <3>1, <3>5
             DEF Pass, inputs, answer, Progress, WordsKnown, SpansCovered, Lifted
  <2> QED  BY <1>1, <2>1, <2>2, <2>3, <2>4, <2>5, <2>6, <2>7 DEF Next, Decide, Done
<1>6. NoGuess' /\ KnownTopicsOnly'
  BY <1>1, <1>2 DEF NoGuess, KnownTopicsOnly, answer
<1> QED  BY <1>5, <1>6, NamedAreVisible, PTL

LEMMA VerdictKeepsIInv ==
  ASSUME IInv, Next, outcome' # outcome
  PROVE  IInv'
<1> USE DEF IInv
<1>1. pc # "done" /\ pc' = "done" /\ outcome = "pending" /\ UNCHANGED <<inputs, pool, eff>>
  BY DEF Next, Score, CheckWords, CheckSpans, NoRole, Constrain, Prefer, CheckStrength,
         Decide, Done, Pass, Refuse, Progress, inputs, answer, vars
<1>2. Indexed' = Indexed /\ query' = query
  BY <1>1, SameIndex DEF inputs
<1>3. CASE Decide
  <2>1. Best(Indexed, query) \subseteq Subjects(Indexed) /\ Candidates(Indexed, query) \subseteq Subjects(Indexed)
    BY DEF Best, Candidates
  <2>2. TypeOK'
    BY <1>1, <1>2, <1>3, <2>1, DecisionIsDue DEF TypeOK, inputs
  <2>3. Progress'
    BY <1>1, <1>3, DecisionIsDue DEF Progress
  <2>4. NoGuess'
    BY <1>2, <1>3, DecisionIsDue DEF NoGuess
  <2>5. KnownTopicsOnly'
    BY <1>2, <1>3, DecisionIsDue DEF KnownTopicsOnly, Answerable
  <2> QED  BY <2>2, <2>3, <2>4, <2>5, NamedAreVisible, PTL
<1>4. CASE CheckWords \/ CheckSpans \/ Constrain \/ CheckStrength
  <2>1. TypeOK' /\ Progress' /\ NoGuess' /\ KnownTopicsOnly'
    BY <1>1, <1>2, <1>4, RefusalIsDue DEF TypeOK, Progress, NoGuess, KnownTopicsOnly, inputs
  <2> QED  BY <2>1, NamedAreVisible, PTL
<1> QED  BY <1>3, <1>4 DEF Next, Score, NoRole, Prefer, Pass, Done, answer, vars

\* The type invariant and what each gate has established (resolve).
THEOREM Inductive == Spec => []IInv
<1>1. IInv /\ [Next]_vars => IInv'
  <2> SUFFICES ASSUME IInv, [Next]_vars PROVE IInv'
    OBVIOUS
  <2>1. CASE UNCHANGED vars
    BY <2>1 DEF vars, inputs, answer, IInv, TypeOK, Progress, NoGuess, KnownTopicsOnly,
                NothingInvisibleNamed, Indexed, WordsKnown, SpansCovered, Lifted
  <2>2. CASE Next /\ pc = "done"
    <3>1. UNCHANGED vars
      BY <2>2 DEF Next, Score, CheckWords, CheckSpans, NoRole, Constrain, Prefer,
                  CheckStrength, Decide, Done, Pass, Refuse
    <3> QED  BY <2>1, <3>1
  <2>3. CASE Next /\ pc # "done"
    BY <2>3, GateKeepsIInv, VerdictKeepsIInv
  <2> QED  BY <2>1, <2>2, <2>3
<1> QED  BY <1>1, InitIInv, PTL DEF Spec

\* A root is the only best candidate; a tie names at least two equal ones.
THEOREM NeverGuesses == Spec => []NoGuess
BY Inductive, PTL DEF IInv

\* No root and no tie for a query that asks for what is not in the index.
THEOREM OnlyKnownTopics == Spec => []KnownTopicsOnly
BY Inductive, PTL DEF IInv

\* Errors and answers name only what the caller may read.
THEOREM NamesOnlyVisible == Spec => []NothingInvisibleNamed
BY Inductive, PTL DEF IInv

\* The gates, the boost and the tie check on two give the verdict of the contract.
THEOREM ImplementsContract == Spec => Implements
<1> DEFINE cvars == <<Indexed, query, outcome, told, chosen>>
<1>1. Init => Contract!Init
  BY DEF Init, Contract!Init
<1>2. IInv /\ [Next]_vars => [Contract!Next]_cvars
  <2> SUFFICES ASSUME IInv, [Next]_vars PROVE [Contract!Next]_cvars
    OBVIOUS
  <2>1. CASE UNCHANGED vars
    BY <2>1 DEF vars, inputs, answer, Indexed
  <2>2. CASE Next /\ outcome' = outcome
    <3>1. UNCHANGED <<inputs, answer>>
      BY <2>2 DEF Next, Score, CheckWords, CheckSpans, NoRole, Constrain, Prefer,
                  CheckStrength, Decide, Done, Pass, Refuse, Ambiguous, Choose, inputs,
                  answer, vars, IInv, Progress
    <3> QED  BY <3>1, SameIndex DEF answer
  <2>3. CASE Decide
    <3>1. outcome = "pending" /\ UNCHANGED inputs
      BY <2>3 DEF Decide, IInv, Progress
    <3>2. Contract!Disambiguate \/ Contract!Answer
      BY <2>3, DecisionIsDue, BestWithin DEF Contract!Disambiguate, Contract!Answer
    <3> QED  BY <3>1, <3>2, SameIndex DEF Contract!Next
  <2>4. CASE (CheckWords \/ CheckSpans \/ Constrain \/ CheckStrength) /\ outcome' # outcome
    <3>1. outcome = "pending" /\ chosen = {}
      BY <2>4 DEF CheckWords, CheckSpans, Constrain, CheckStrength, Pass, Refuse, answer,
                  IInv, Progress
    <3>2. Contract!Refuse /\ UNCHANGED inputs
      BY <2>4, <3>1, RefusalIsDue DEF Contract!Refuse
    <3> QED  BY <3>1, <3>2, SameIndex DEF Contract!Next
  <2> QED  BY <2>1, <2>2, <2>3, <2>4
           DEF Next, Score, NoRole, Prefer, Pass, Done, answer, vars
<1> QED  BY <1>1, <1>2, Inductive, PTL DEF Spec, Implements, Contract!Spec

-----------------------------------------------------------------------------
(* The verdict as a function of the evidence.                               *)

\* What the visible statements and the query call for, whatever the order of the
\* gates, of the identifiers, and of the statements in the store.
VerdictOf(D, q) ==
    IF ~ Answerable(D, q) THEN "refused"
    ELSE IF \E n : Best(D, q) = {n} THEN "root" ELSE "ambiguous"

\* A verdict depends on nothing but the statements the caller may read and the
\* query: two callers who may read the same get the same answer, and a partition
\* that is not visible changes neither the root nor the refusal.  The root handed
\* to the retrieval is one resource the caller may read.
VerdictIsTheEvidence ==
    outcome # "pending" =>
        /\ outcome = VerdictOf(Indexed, query)
        /\ outcome = "root" => \E n \in Roots(dataset, allowed) : chosen = {n}
        /\ outcome = "root" => chosen = Best(Indexed, query)
        /\ outcome = "ambiguous" => told = Best(Indexed, query)

\* The verdict is a function of the visible statements and the query
\* (GramIntentResolver.resolve over statements_in(allowed_graph_ids)).
THEOREM VerdictIsEvidence == Spec => []VerdictIsTheEvidence
<1>1. Init => VerdictIsTheEvidence
  BY DEF Init, VerdictIsTheEvidence
<1>2. IInv /\ IInv' /\ VerdictIsTheEvidence /\ [Next]_vars => VerdictIsTheEvidence'
  <2> SUFFICES ASSUME IInv, IInv', VerdictIsTheEvidence, [Next]_vars
               PROVE  VerdictIsTheEvidence'
    OBVIOUS
  <2>1. CASE UNCHANGED <<inputs, answer>>
    BY <2>1 DEF VerdictIsTheEvidence, inputs, answer, Indexed
  <2>2. CASE Decide
    <3>1. Indexed' = Indexed /\ query' = query /\ UNCHANGED inputs
      BY <2>2, SameIndex DEF Decide
    <3>2. outcome' = "root" => \E n \in Roots(dataset', allowed') : chosen' = {n}
      <4> SUFFICES ASSUME outcome' = "root"
                   PROVE  \E n \in Roots(dataset', allowed') : chosen' = {n}
        OBVIOUS
      <4>1. PICK n : chosen' = {n}
        BY <2>2, DecisionIsDue
      <4>2. chosen' \subseteq Roots(dataset', allowed')
        BY DEF IInv, NothingInvisibleNamed
      <4> QED  BY <4>1, <4>2
    <3>3. ASSUME outcome' = "ambiguous"
          PROVE  outcome' = VerdictOf(Indexed, query) /\ told' = Best(Indexed, query)
      <4>1. /\ Answerable(Indexed, query)
            /\ told' = Best(Indexed, query)
            /\ \E m, n \in told' : m # n
        BY <2>2, <3>3, DecisionIsDue
      <4>2. ~ \E n : Best(Indexed, query) = {n}
        BY <4>1
      <4> QED  BY <3>3, <4>1, <4>2 DEF VerdictOf
    <3>4. ASSUME outcome' = "root"
          PROVE  outcome' = VerdictOf(Indexed, query) /\ chosen' = Best(Indexed, query)
      <4>1. /\ Answerable(Indexed, query)
            /\ \E n : Best(Indexed, query) = {n} /\ chosen' = {n}
        BY <2>2, <3>4, DecisionIsDue
      <4> QED  BY <3>4, <4>1 DEF VerdictOf
    <3>5. outcome' \in {"ambiguous", "root"}
      BY <2>2, DecisionIsDue
    <3> QED  BY <3>1, <3>2, <3>3, <3>4, <3>5 DEF VerdictIsTheEvidence
  <2>3. CASE (CheckWords \/ CheckSpans \/ Constrain \/ CheckStrength) /\ outcome' # outcome
    <3>1. ~ Answerable(Indexed, query) /\ outcome' = "refused" /\ UNCHANGED inputs
      BY <2>3, RefusalIsDue
    <3>2. Indexed' = Indexed /\ query' = query
      BY <3>1, SameIndex
    <3> QED  BY <3>1, <3>2 DEF VerdictIsTheEvidence, VerdictOf
  <2>4. CASE Next /\ outcome' = outcome
    <3>1. UNCHANGED <<inputs, answer>>
      BY <2>4 DEF Next, Score, CheckWords, CheckSpans, NoRole, Constrain, Prefer,
                  CheckStrength, Decide, Done, Pass, Refuse, Ambiguous, Choose, inputs,
                  answer, vars, IInv, Progress
    <3> QED  BY <2>1, <3>1
  <2>5. CASE UNCHANGED vars
    BY <2>1, <2>5 DEF vars
  <2> QED  BY <2>2, <2>3, <2>4, <2>5
           DEF Next, Score, NoRole, Prefer, Pass, Done, answer, vars
<1> QED  BY <1>1, <1>2, Inductive, PTL DEF Spec

-----------------------------------------------------------------------------
(* The length of what an error names.                                       *)

KeysAreTuples == \A n \in Subjects(Indexed) : Ints(KeyOf(n))

LEMMA ScoredKeys == TypeOK => KeysAreTuples
<1> SUFFICES ASSUME TypeOK, NEW n \in Subjects(Indexed) PROVE Ints(KeyOf(n))
  BY DEF KeysAreTuples
<1>1. query \in Query /\ eff[n] \in Int
  BY InputsGood DEF TypeOK
<1> QED  BY <1>1, KeyParts DEF KeyOf

\* Before is a strict total order of the subjects.
LEMMA BeforeTotal ==
  ASSUME TypeOK, NEW m \in Subjects(Indexed), NEW n \in Subjects(Indexed), m # n
  PROVE  Before(m, n) \/ Before(n, m)
<1>1. Ints(KeyOf(m)) /\ Ints(KeyOf(n))
  BY ScoredKeys DEF KeysAreTuples
<1>2. CASE Equal(KeyOf(m), KeyOf(n))
  <2>1. KeyOf(m) = KeyOf(n)
    BY <1>2, KeyEqual DEF KeyOf
  <2>2. Place[m] \in Nat /\ Place[n] \in Nat /\ Place[m] # Place[n]
    BY InputsGood, EvidenceAssumption
  <2> QED  BY <2>1, <2>2 DEF Before
<1>3. CASE ~ Equal(KeyOf(m), KeyOf(n))
  BY <1>1, <1>3, AboveTotal DEF Before
<1> QED  BY <1>2, <1>3

LEMMA BeforeTransitive ==
  ASSUME TypeOK, NEW l \in Subjects(Indexed), NEW m \in Subjects(Indexed),
         NEW n \in Subjects(Indexed), Before(l, m), Before(m, n)
  PROVE  Before(l, n)
<1>1. Ints(KeyOf(l)) /\ Ints(KeyOf(m)) /\ Ints(KeyOf(n))
  BY ScoredKeys DEF KeysAreTuples
<1>2. Place[l] \in Nat /\ Place[m] \in Nat /\ Place[n] \in Nat
  BY InputsGood, EvidenceAssumption
<1> DEFINE kl == KeyOf(l)
           km == KeyOf(m)
           kn == KeyOf(n)
<1>3. (Above(kl, km) \/ (kl = km /\ Place[l] < Place[m]))
        /\ (Above(km, kn) \/ (km = kn /\ Place[m] < Place[n]))
  BY DEF Before
<1>4. Ints(kl) /\ Ints(km) /\ Ints(kn)
  BY <1>1
<1>5. Above(kl, kn) \/ (kl = kn /\ Place[l] < Place[n])
  <2> HIDE DEF kl, km, kn
  <2>1. CASE Above(kl, km) /\ Above(km, kn)
    BY <1>4, <2>1, AboveTransitive
  <2>2. CASE Above(kl, km) /\ km = kn
    BY <2>2
  <2>3. CASE kl = km /\ Above(km, kn)
    BY <2>3
  <2>4. CASE kl = km /\ km = kn /\ Place[l] < Place[m] /\ Place[m] < Place[n]
    BY <1>2, <2>4
  <2> QED  BY <1>3, <2>1, <2>2, <2>3, <2>4
<1> QED  BY <1>5 DEF Before

LEMMA BeforeIrreflexive ==
  ASSUME TypeOK, NEW n \in Subjects(Indexed)
  PROVE  ~ Before(n, n)
<1>1. Ints(KeyOf(n)) /\ Place[n] \in Nat
  BY ScoredKeys, InputsGood, EvidenceAssumption DEF KeysAreTuples
<1>2. ~ Above(KeyOf(n), KeyOf(n))
  BY <1>1, AboveIrreflexive DEF Equal
<1> QED  BY <1>1, <1>2 DEF Before

\* A list cut to MaxCandidates has no more items than that.
LEMMA LeadingIsShort ==
  ASSUME TypeOK, NEW S \in SUBSET Subjects(Indexed)
  PROVE  IsFiniteSet(Leading(S)) /\ Cardinality(Leading(S)) <= MaxCandidates
<1> DEFINE ahead(n) == {m \in S : Before(m, n)}
           counts == {MaxCandidates - Cardinality(ahead(n)) : n \in Leading(S)}
<1>1. IsFiniteSet(S)
  BY InputsGood, EvidenceAssumption, FS_Subset
<1>2. ASSUME NEW T \in SUBSET S
      PROVE  IsFiniteSet(T) /\ Cardinality(T) \in Nat
  BY <1>1, FS_Subset, FS_CardinalityType
<1>3. Leading(S) \in SUBSET S /\ IsFiniteSet(Leading(S)) /\ Cardinality(Leading(S)) \in Nat
  BY <1>2, LeadingWithin
<1>4. \A n : Cardinality(ahead(n)) \in Nat
  BY <1>2
<1>5. \A n \in Leading(S) : Cardinality(ahead(n)) < MaxCandidates
  BY DEF Leading
<1>6. CASE Leading(S) = {}
  BY <1>3, <1>6, FS_EmptySet, ResolverAssumption
<1>7. CASE Leading(S) # {}
  <2>0. \A n \in Leading(S) : MaxCandidates - Cardinality(ahead(n)) \in Nat
    <3> HIDE DEF ahead
    <3> QED  BY <1>4, <1>5, ResolverAssumption
  <2>1. counts \in SUBSET Nat /\ counts # {}
    BY <2>0, <1>7
  <2>2. PICK c \in counts : \A y \in counts : ~ (y < c)
    <3> HIDE DEF counts
    <3> QED  BY <2>1, LeastOfSet
  <2>3. PICK last \in Leading(S) : c = MaxCandidates - Cardinality(ahead(last))
    OBVIOUS
  <2>4. ASSUME NEW l \in Leading(S), l # last
        PROVE  l \in ahead(last)
    <3>1. l \in Subjects(Indexed) /\ last \in Subjects(Indexed) /\ l \in S /\ last \in S
      BY <1>3
    <3>2. ~ Before(last, l)
      <4> SUFFICES ASSUME Before(last, l) PROVE FALSE
        OBVIOUS
      <4>1. ahead(last) \cup {last} \in SUBSET ahead(l)
        BY <3>1, BeforeTransitive
      <4>2. last \notin ahead(last)
        BY <3>1, BeforeIrreflexive
      <4>3. IsFiniteSet(ahead(last)) /\ IsFiniteSet(ahead(l))
        BY <1>2
      <4>4. Cardinality(ahead(last) \cup {last}) = Cardinality(ahead(last)) + 1
        BY <4>2, <4>3, FS_AddElement
      <4>5. Cardinality(ahead(last) \cup {last}) <= Cardinality(ahead(l))
        BY <4>1, <4>3, FS_Subset
      <4>6. ~ (MaxCandidates - Cardinality(ahead(l)) < c)
        BY <2>2
      <4>7. Cardinality(ahead(l)) \in Nat /\ Cardinality(ahead(last)) \in Nat
        BY <1>4
      <4> HIDE DEF ahead
      <4> QED  BY <2>3, <4>4, <4>5, <4>6, <4>7, ResolverAssumption
    <3> QED  BY <2>4, <3>1, <3>2, BeforeTotal
  <2>5. Leading(S) \in SUBSET (ahead(last) \cup {last})
    BY <2>4
  <2>6. IsFiniteSet(ahead(last)) /\ last \notin ahead(last)
    BY <1>2, <1>3, BeforeIrreflexive
  <2>7. /\ IsFiniteSet(ahead(last) \cup {last})
        /\ Cardinality(ahead(last) \cup {last}) = Cardinality(ahead(last)) + 1
    BY <2>6, FS_AddElement
  <2>8. Cardinality(Leading(S)) <= Cardinality(ahead(last)) + 1
    BY <2>5, <2>7, FS_Subset
  <2>9. Cardinality(ahead(last)) < MaxCandidates /\ Cardinality(ahead(last)) \in Nat
    BY <1>4, <1>5
  <2> HIDE DEF ahead
  <2> QED  BY <1>3, <2>8, <2>9, ResolverAssumption
<1> QED  BY <1>3, <1>6, <1>7

\* An error and an answer list at most MaxCandidates resources; only the equals
\* of a tie are all named, however many.
ListsAreShort ==
    outcome \in {"refused", "root"} =>
        IsFiniteSet(told) /\ Cardinality(told) <= MaxCandidates

\* The candidates of an error and the alternatives of an answer are cut to a
\* fixed number, whatever the index holds (_cands, and the tail of resolve).
THEOREM ShortLists == Spec => []ListsAreShort
<1>1. Init => ListsAreShort
  BY DEF Init, ListsAreShort
<1>2. IInv /\ ListsAreShort /\ [Next]_vars => ListsAreShort'
  <2> SUFFICES ASSUME IInv, ListsAreShort, [Next]_vars PROVE ListsAreShort'
    OBVIOUS
  <2>1. TypeOK /\ pool \in SUBSET Subjects(Indexed)
    BY DEF IInv, TypeOK
  <2>2. /\ IsFiniteSet(Leading(pool)) /\ Cardinality(Leading(pool)) \in Nat
        /\ Cardinality(Leading(pool)) <= MaxCandidates
    BY <2>1, LeadingIsShort, FS_CardinalityType
  <2>3. ASSUME NEW T \in SUBSET Leading(pool)
        PROVE  IsFiniteSet(T) /\ Cardinality(T) <= MaxCandidates
    BY <2>2, FS_Subset, FS_CardinalityType, ResolverAssumption
  <2>4. CASE UNCHANGED <<outcome, told>>
    BY <2>4 DEF ListsAreShort
  <2>5. CASE told' \in SUBSET Leading(pool)
    BY <2>3, <2>5 DEF ListsAreShort
  <2>6. CASE outcome' = "ambiguous"
    BY <2>6 DEF ListsAreShort
  <2> QED  BY <2>4, <2>5, <2>6
           DEF Next, Score, CheckWords, CheckSpans, NoRole, Constrain, Prefer, CheckStrength,
               Decide, Done, Pass, Refuse, Ambiguous, Choose, answer, vars
<1> QED  BY <1>1, <1>2, Inductive, PTL DEF Spec
=============================================================================
