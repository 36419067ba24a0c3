--------------------------- MODULE IntentResolver ---------------------------
(***************************************************************************)
(* GramIntentResolver.resolve: the subjects of the visible names are       *)
(* scored, five gates refuse the query in a fixed order, a role word       *)
(* narrows the candidates or lifts some, and the first of the ranking is   *)
(* the root unless the second is its equal.                                *)
(*                                                                         *)
(* The ranking is a relation, First its least element; a list cut to some  *)
(* length is the set of the candidates with few enough before them.        *)
(***************************************************************************)
EXTENDS QueryEvidence

CONSTANTS
    Boost,          \* PREFERENCE_BOOST
    MaxCandidates   \* 5, the candidates an error or an answer names

ASSUME ResolverAssumption == Boost \in Nat /\ MaxCandidates \in Nat

VARIABLES
    dataset, allowed, query,    \* inputs
    pool,       \* baseline, then role_ranked
    eff,        \* the effective score of each resource
    pc,         \* the gate the query has reached
    outcome, told, chosen       \* as in IntentContract

inputs == <<dataset, allowed, query>>
answer == <<outcome, told, chosen>>
vars == <<inputs, pool, eff, pc, answer>>

\* Faulty variant: every registered partition is indexed.
IndexedUnasked == StatementsIn(dataset, Graph)

\* What statements_in(allowed_graph_ids) hands over.
Indexed == StatementsIn(dataset, allowed)

-----------------------------------------------------------------------------
(* _rank_key.                                                               *)
KeyOf(n) == Key(Indexed, query, eff[n], n)

Before(m, n) ==
    Above(KeyOf(m), KeyOf(n)) \/ (KeyOf(m) = KeyOf(n) /\ Place[m] < Place[n])

IsFirst(n, S) == n \in S /\ \A m \in S \ {n} : Before(n, m)

\* The first MaxCandidates of a ranking.
Leading(S) == {n \in S : Cardinality({m \in S : Before(m, n)}) < MaxCandidates}

-----------------------------------------------------------------------------
Init ==
    /\ dataset \in Datasets
    /\ \E p \in Purpose, s \in Scopes : allowed = AllowedGraphs(p, s)
    /\ query \in Queries
    /\ pool = {}
    /\ eff = [n \in Node |-> 0]
    /\ pc = "score"
    /\ outcome = "pending" /\ told = {} /\ chosen = {}

Pass(gate, next) == pc = gate /\ pc' = next /\ UNCHANGED <<inputs, pool, eff, answer>>

\* raise NoMatchError(..., candidates=_cands(named)).
Refuse(gate, named) ==
    /\ pc = gate
    /\ pc' = "done"
    /\ outcome' = "refused"
    /\ told' = named
    /\ UNCHANGED <<inputs, pool, eff, chosen>>

\* The baseline: whatever has a score.
Score ==
    /\ pc = "score"
    /\ pc' = "words"
    /\ eff' = [n \in Node |-> IF n \in Subjects(Indexed) THEN Base(Indexed, query, n) ELSE 0]
    /\ pool' = {n \in Subjects(Indexed) : Base(Indexed, query, n) > 0}
    /\ UNCHANGED <<inputs, answer>>

\* Faulty variant: one known word excuses the others.
WordsKnownAny == query.words = <<>> \/ Cardinality(UnknownWords(Indexed, query)) < Len(query.words)

WordsKnown == UnknownWords(Indexed, query) = {}

\* unmatched_terms.
CheckWords ==
    \/ WordsKnown /\ Pass("words", "spans")
    \/ ~ WordsKnown /\ Refuse("words", Leading(pool))

\* unknown_grams; then a baseline without anyone in it.
SpansCovered == \A span \in query.spans : ~ Foreign(Indexed, span)

CheckSpans ==
    \/ SpansCovered /\ pool # {} /\ Pass("spans", "role")
    \/ ~ SpansCovered /\ Refuse("spans", Leading(pool))
    \/ SpansCovered /\ pool = {} /\ Refuse("spans", {})

\* Faulty variant: whatever has the role is a candidate, scored or not.
InRoleUnscored == {n \in Subjects(Indexed) : RoleIs(Indexed, n, query.trigger.role)}

InRole == {n \in pool : RoleIs(Indexed, n, query.trigger.role)}

NoRole ==
    /\ query.trigger = NoTrigger
    /\ Pass("role", "strength")

Constrain ==
    /\ query.trigger # NoTrigger
    /\ query.trigger.mode = "constrain"
    /\ \/ /\ InRole # {}
          /\ pc = "role"
          /\ pc' = "strength"
          /\ pool' = InRole
          /\ UNCHANGED <<inputs, eff, answer>>
       \/ InRole = {} /\ Refuse("role", Leading(pool))

Prefer ==
    /\ query.trigger # NoTrigger
    /\ query.trigger.mode = "prefer"
    /\ pc = "role"
    /\ pc' = "strength"
    /\ eff' = [n \in Node |-> IF n \in InRole THEN eff[n] + Boost ELSE eff[n]]
    /\ UNCHANGED <<inputs, pool, answer>>

\* top1 must be hit by a word in its name, or the query must have a topic span.
CheckStrength ==
    \E top \in pool :
        /\ IsFirst(top, pool)
        /\ \/ /\ Entities(Indexed, query, top) > 0 \/ query.spans # {}
              /\ Pass("strength", "decide")
           \/ /\ Entities(Indexed, query, top) = 0 /\ query.spans = {}
              /\ Refuse("strength", Leading(pool))

\* The runner-up is the key's equal: every equal is named, however many.
Ambiguous(top) ==
    /\ \E second \in pool : IsFirst(second, pool \ {top}) /\ KeyOf(second) = KeyOf(top)
    /\ outcome' = "ambiguous"
    /\ told' = {n \in pool : KeyOf(n) = KeyOf(top)}
    /\ UNCHANGED chosen

\* Faulty variant: the runner-up is not looked at.
ChooseFirst(top) ==
    /\ outcome' = "root"
    /\ chosen' = {top}
    /\ told' = Leading(pool) \ {top}

Choose(top) ==
    /\ \A second \in pool \ {top} :
          IsFirst(second, pool \ {top}) => KeyOf(second) # KeyOf(top)
    /\ outcome' = "root"
    /\ chosen' = {top}
    /\ told' = Leading(pool) \ {top}

Decide ==
    /\ pc = "decide"
    /\ pc' = "done"
    /\ \E top \in pool : IsFirst(top, pool) /\ (Ambiguous(top) \/ Choose(top))
    /\ UNCHANGED <<inputs, pool, eff>>

Done == pc = "done" /\ UNCHANGED vars

Next ==
    \/ Score \/ CheckWords \/ CheckSpans
    \/ NoRole \/ Constrain \/ Prefer
    \/ CheckStrength \/ Decide \/ Done

Spec == Init /\ [][Next]_vars

-----------------------------------------------------------------------------
Contract == INSTANCE IntentContract WITH index <- Indexed

\* Every verdict of the gates is the one the contract names: the boost never
\* changes the best candidate, a tie is seen on the first two of the list, and a
\* gate refuses nothing the contract would answer (resolve).
Implements == Contract!Spec

TypeOK ==
    /\ dataset \in Datasets /\ allowed \in SUBSET Graph /\ query \in Queries
    /\ pool \subseteq Subjects(Indexed)
    /\ eff \in [Node -> Int]
    /\ pc \in {"score", "words", "spans", "role", "strength", "decide", "done"}
    /\ outcome \in {"pending", "refused", "ambiguous", "root"}
    /\ told \subseteq Subjects(Indexed) /\ chosen \subseteq Subjects(Indexed)

Lifted(n) ==
    IF RoleFits(Indexed, query, n) /\ query.trigger.mode = "prefer" THEN Boost ELSE 0

\* The state before each gate: who is scored, who is left, what was passed.
Progress ==
    /\ pc = "done" <=> outcome # "pending"
    /\ pc # "done" => told = {} /\ chosen = {}
    /\ pc \in {"words", "spans", "role"} =>
          /\ pool = {n \in Subjects(Indexed) : Base(Indexed, query, n) > 0}
          /\ \A n \in Subjects(Indexed) : eff[n] = Base(Indexed, query, n)
    /\ pc \in {"spans", "role", "strength", "decide"} => WordsKnown
    /\ pc \in {"role", "strength", "decide"} => SpansCovered
    /\ pc \in {"strength", "decide"} =>
          /\ pool = Candidates(Indexed, query)
          /\ \A n \in pool : eff[n] = Base(Indexed, query, n) + Lifted(n)
    /\ pc = "decide" => ~ Weak(Indexed, query)

\* No verdict guesses: below the root is everything that was a candidate, by
\* evidence alone, and candidates named ambiguous are the best, all of them and
\* more than one (the tie rule of resolve, whose list is sorted by identifier).
NoGuess ==
    /\ outcome = "root" =>
          \A n \in chosen, m \in Candidates(Indexed, query) :
              m # n => Above(PlainKey(Indexed, query, n), PlainKey(Indexed, query, m))
    /\ outcome = "ambiguous" =>
          \E m, n \in told : m # n /\ PlainKey(Indexed, query, m) = PlainKey(Indexed, query, n)

\* No gate is passed by: a query that names an unknown word, or a topic most of
\* which occurs nowhere in what the caller may read, gets no root and no tie.
KnownTopicsOnly == outcome \in {"root", "ambiguous"} => Admitted(Indexed, query)

\* Whatever the verdict names, in an answer or in an error, has a name the
\* caller may read and is in no restricted partition.
NothingInvisibleNamed ==
    /\ told \cup chosen \subseteq Roots(dataset, allowed)
    /\ (told \cup chosen) \cap RestrictedNodes(dataset) = {}

IInv == TypeOK /\ Progress /\ NoGuess /\ KnownTopicsOnly /\ NothingInvisibleNamed
=============================================================================
