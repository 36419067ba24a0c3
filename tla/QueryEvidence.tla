--------------------------- MODULE QueryEvidence ---------------------------
(***************************************************************************)
(* What GramIntentResolver weighs: the index it builds from the visible    *)
(* statements, the evidence a query finds in it, and the key candidates    *)
(* are ranked by.                                                          *)
(*                                                                         *)
(* A query is what the code cuts it into: fragments of its text, topic     *)
(* fragments, English words, and the topic spans that admission measures.  *)
(* A span is the sequence of its fragments.                                *)
(***************************************************************************)
EXTENDS DatasetStore, Integers, Sequences, FiniteSets

CONSTANTS
    Datasets, Queries,  \* the datasets and queries considered
    Fragment, Token,    \* pieces of lower-case text; English words
    FragmentsIn(_),     \* the fragments of the joined text of some objects
    TokensIn(_),        \* the words of that text (_node_tokens)
    displayName, scopeDescription, objectId, rdfType,
    RoleTable,          \* ROLE_TABLE: a sequence of [role, classes]
    NoTrigger,          \* the query holds no word of ROLE_TRIGGERS
    Place,              \* the place of a resource in the order of identifiers
    ExactBase,          \* 100, the base of a query found whole
    TokenWeight         \* ENGLISH_TOKEN_WEIGHT

Trigger == [role : {RoleTable[i].role : i \in DOMAIN RoleTable},
            mode : {"constrain", "prefer"}]

Query == [length : Nat, whole : Fragment, grams : SUBSET Fragment,
          topics : SUBSET Fragment, words : Seq(Token),
          spans : SUBSET Seq(Fragment), trigger : Trigger \cup {NoTrigger}]

\* Text is finite, and identifiers are ordered.
ASSUME EvidenceAssumption ==
    /\ Datasets \subseteq SUBSET Quad
    /\ Queries \subseteq Query
    /\ IsFiniteSet(Fragment) /\ IsFiniteSet(Node)
    /\ Naming = {displayName, scopeDescription, objectId}
    /\ Place \in [Node -> Nat]
    /\ \A m, n \in Node : Place[m] = Place[n] => m = n
    /\ ExactBase \in Nat /\ TokenWeight \in Nat

-----------------------------------------------------------------------------
(* _index.  Every operator takes D, what it reads of the dataset.           *)
Objects(D, n, P) == {q.o : q \in {r \in D : r.s = n /\ r.p \in P}}

Fragments(D, n)      == FragmentsIn(Objects(D, n, Naming))
NameFragments(D, n)  == FragmentsIn(Objects(D, n, {displayName, objectId}))
ScopeFragments(D, n) == FragmentsIn(Objects(D, n, {scopeDescription}))

Tokens(D, n)     == TokensIn(Objects(D, n, Naming))
NameTokens(D, n) == TokensIn(Objects(D, n, {displayName, objectId}))

\* The keys of `text`.
Subjects(D) == {q.s : q \in {r \in D : r.p \in Naming}}

\* classify_role: the first row of the table one of the types is in.
RoleIs(D, n, role) ==
    \E i \in DOMAIN RoleTable :
        /\ RoleTable[i].role = role
        /\ Objects(D, n, {rdfType}) \cap RoleTable[i].classes # {}
        /\ \A j \in DOMAIN RoleTable :
              j < i => Objects(D, n, {rdfType}) \cap RoleTable[j].classes = {}

-----------------------------------------------------------------------------
(* The evidence of one resource.                                            *)
Exact(D, q, n) == q.length > 0 /\ q.whole \in Fragments(D, n)

\* ent_hits: words of the query, repeated ones counted, in the name.
Entities(D, q, n) ==
    Cardinality({i \in DOMAIN q.words : q.words[i] \in NameTokens(D, n)})

Base(D, q, n) ==
    IF Exact(D, q, n) THEN ExactBase + q.length
    ELSE Cardinality(q.grams \cap Fragments(D, n)) + TokenWeight * Entities(D, q, n)

NameTopics(D, q, n)  == q.topics \cap NameFragments(D, n)
ScopeTopics(D, q, n) == (q.topics \cap ScopeFragments(D, n)) \ NameFragments(D, n)

Flag(b) == IF b THEN 1 ELSE 0

RoleFits(D, q, n) == q.trigger # NoTrigger /\ RoleIs(D, n, q.trigger.role)

\* Faulty variant: the score is compared before the role.
KeyScoreBeforeRole(D, q, score, n) ==
    <<Flag(Exact(D, q, n)), Entities(D, q, n), score, Flag(RoleFits(D, q, n)),
      Cardinality(NameTopics(D, q, n)) + Cardinality(ScopeTopics(D, q, n)),
      Cardinality(NameTopics(D, q, n))>>

\* _amb_key: exact, entity, role, topics, topics in the name, effective score.
Key(D, q, score, n) ==
    <<Flag(Exact(D, q, n)), Entities(D, q, n), Flag(RoleFits(D, q, n)),
      Cardinality(NameTopics(D, q, n)) + Cardinality(ScopeTopics(D, q, n)),
      Cardinality(NameTopics(D, q, n)), score>>

\* Tuples compare from the left.
Above(k, l) == \E i \in 1..6 : k[i] > l[i] /\ \A j \in 1..6 : j < i => k[j] = l[j]

-----------------------------------------------------------------------------
(* Admission of a query against the whole index.                            *)
Known(D, word) == \E n \in Subjects(D) : word \in Tokens(D, n)

UnknownWords(D, q) == {i \in DOMAIN q.words : ~ Known(D, q.words[i])}

Uncovered(D, span) ==
    {i \in DOMAIN span : \A n \in Subjects(D) : span[i] \notin Fragments(D, n)}

\* More than half of a span occurs nowhere.
Foreign(D, span) == Cardinality(Uncovered(D, span)) * 2 > Len(span)

-----------------------------------------------------------------------------
(* The verdict the evidence calls for, with no order of gates.              *)
Admitted(D, q) == UnknownWords(D, q) = {} /\ \A span \in q.spans : ~ Foreign(D, span)

Candidates(D, q) ==
    {n \in Subjects(D) :
        /\ Base(D, q, n) > 0
        /\ q.trigger # NoTrigger /\ q.trigger.mode = "constrain"
              => RoleIs(D, n, q.trigger.role)}

PlainKey(D, q, n) == Key(D, q, Base(D, q, n), n)

Best(D, q) ==
    {n \in Candidates(D, q) :
        \A m \in Candidates(D, q) : ~ Above(PlainKey(D, q, m), PlainKey(D, q, n))}

\* The best share their number of entity hits: one without any is enough.
Weak(D, q) == q.spans = {} /\ \E n \in Best(D, q) : Entities(D, q, n) = 0

Answerable(D, q) == Admitted(D, q) /\ Best(D, q) # {} /\ ~ Weak(D, q)
=============================================================================
