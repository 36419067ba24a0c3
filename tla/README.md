# Verification of the TKOS ontology runtime

TLA+ modules for the runtime under `src/src/tkos_runtime`: the service that
answers a question about an enterprise with a *Context Pack* (what an ontology
dataset knows of the matter, cut by partitions of different epistemic standing)
and renders it as Markdown within a budget of characters.

The modules are checked by TLC on small instances and, in the modules named
`...Proofs`, proved by TLAPS for every value of their constants.

## 1. Inventory

| component | state | operations | modules | status |
|---|---|---|---|---|
| admission of graphs (`domain/policies.py`, `adapters/rdflib_dataset_store.py`) | the dataset, the registered partitions, the restricted nodes; all fixed at start-up | allowed_graphs, statements_in, neighbors, member_statements, subject_statements | `DatasetStore` | modelled |
| graph retriever (`adapters/rdflib_graph_retriever.py`) | visited set, deque, members | retrieve | `Retrieval`, `GraphRetriever` | modelled, proved |
| context compiler (`application/context_compiler.py`) | decisions and types of the member in hand, buckets, gaps, omissions | compile (two passes per member) | `ContextCompiler` | modelled, proved |
| roles, sections, assembled text (`domain/roles.py`, `domain/render_units.py`) | none | classify_role, role_tier, assemble_sectioned_markdown | `DecisionPack` | modelled |
| decision context compiler (`application/decision_context_compiler.py`) | selected units, omissions, slots used, the decision context | floor, fill, reclaim, assemble, verify | `DecisionPack`, `BudgetContract`, `DecisionContext` | modelled, proved |
| pipeline (`application/context_pack_resolver.py`) | none | resolve: allow, choose a root, retrieve, compile | `Retrieval`, `IntentResolver`, composed in `Service` | modelled |
| intent resolver (`adapters/gram_intent_resolver.py`) | an index per request | resolve: five gates, ranking, role words, ambiguity | `QueryEvidence`, `IntentContract`, `IntentResolver` | partly (no facets, no cutting of text), proved |
| renderer (`application/context_renderer.py`) | content, mode, warnings | render, validation of polished text, fallback | `RenderedText`, `Renderer` | partly (no flat-list code), proved |
| text polisher (`adapters/openai_text_polisher.py`) | none | polish: external call, timeout, one retry | environment of `Renderer` | modelled |
| authentication, scenarios (`api/auth.py`, `application/scenarios.py`) | credential snapshot per worker | require_token, assert_purpose, resolve_purpose | `Service` | modelled, proved |
| server (`api/server.py`, `api/serializer.py`) | what a worker read at its start | resolve, render, version, mapping of errors | `Service` | modelled (serializer partly), proved |
| start-up and deployment (`api/server.py`, `Dockerfile`, `deploy/ecs`) | .env, container, workers, readiness | load, validate, serve, crash, recreate | `Service` | partly, proved |

How they interact. The server authenticates a caller, checks that the caller
may use the purpose of the request and calls the pipeline. The pipeline turns
purpose and scopes into a list of partitions (`allowed_graphs`), lets the intent
resolver choose a root among the resources named in them, retrieves everything
within two edges of the root, and compiles the members into a pack. The renderer
hands the pack to the decision context compiler, assembles the Markdown and may
have it polished by an external model. Everything is a synchronous call; the
dataset is never written after start-up. Requests run concurrently in the
threads of several worker processes, and share only what was read at start-up.

What is hard here is therefore not contention but (a) what may be seen and as
what: visibility, admission and the separation of partitions across several
passes over the same statements; (b) the budget: a floor, an estimate, a second
pass and several consistency promises that must agree for every budget; (c) the
gates of the intent resolver; (d) the failure paths of the renderer and the
server; (e) start-up, readiness and restarts. PROJECT.json lists the hazards at
their lines; for the few without a property it says why.

What makes each component correct:

* admission: no partition outside purpose, registry and scopes; nothing restricted;
* retriever: exactly what is within the cut-off; it ends;
* context compiler: each part of a member told once, in the partition it belongs
  to, admitted only when the policy says so, without types or statements of
  another partition;
* decision context compiler: within the budget, mandatory lines kept, nothing
  lost, structure and text agree, root whole or an error;
* intent resolver: a root only when it beats every other candidate; equal
  candidates are refused; each gate refuses what its evidence says;
* renderer: what leaves it was validated or is the deterministic text; the mode
  it reports is the one it used;
* server: every outcome has its status; no read before authentication and
  purpose; a request id on every answer;
* start-up: readiness means validated; keys and data of one worker are of one time.

## 2. Modules

**`DatasetStore`** holds the read operations as operators on a set of quads.
`AllowedGraphs` is `AdmissionPolicy.allowed_graphs`, `StatementsIn`,
`SubjectStatements`, `MemberStatements` and `Neighbors` are the store's methods of
these names, `Ok` its test of both ends against the restricted nodes. `Ball` is
the reference notion: what can be reached by a walk of at most so many edges.
`Slices` and `Retrieved` are the interface between retriever and compiler: each
resource of the ball with its statements in the two views the compiler reads.

**`Retrieval`** is the abstract specification: one step delivers `Retrieved`, the
ball around the root with all its visible statements. **`GraphRetriever`** is the code: `Pop` takes an entry of the deque,
`Scan` looks at one neighbour (`Visit` or `Revisit`), `EndScan` leaves the inner
loop, `Collect` builds the members. `level` is a history variable: the depth at
which a resource was first met. The `for` loop runs over a sorted list; the model
takes the neighbours in any order.

**`ContextCompiler`** starts from the members `Retrieval` promises, takes them one
at a time (`Take`), decides their partitions (`DecidePart`, the first pass) and
builds one view or one omission for each (`BuildPart`, the second). `Decide`,
`StatusOf` and `Valid` are the admission policy; the order of the statements,
which decides between contradicting statuses, is the rank of the status names.
The four buckets are one set `views`, each view naming its partition. Instants
are natural numbers; statuses and instants are well typed, as the shapes of the
ontology demand.

**`DecisionPack`** reads a pack: role, section, units, mandatory units, length of
the assembled text. Texts are their lengths: a line has a cost, headings and
footer a common base, an empty section the placeholder, the omission summary its
counts and one entry per role. **`BudgetContract`** says what the compiler
promises: refuse exactly below the floor; otherwise deliver a choice of units that
contains the mandatory ones, all of the root, and fits, or report that the root is
not whole. **`DecisionContext`** is `DecisionContextCompiler.compile`: `Refuse` and
`Preselect` (floor, mandatory lines), `Fill` (one unit of the greedy fill: own
slot, borrowed slot or skipped), `Reclaim` (one unit taken back by
`enforce_max_chars`), `NoRoot`, `Assemble` and `Verify`. Units equal in section and
tier are taken in any order, which covers the order of identifiers. Left out are
names, claims, warnings and incident counts.

**`QueryEvidence`** is the index of `GramIntentResolver` and what a query finds in
it. A query is a record of what the code cuts it into: fragments (`grams`), topic
fragments (`_evidence_grams`), English words, topic spans (`_cn_spans`) and the
role word. `Key` is `_amb_key`, `Base` the score, `Foreign` the test of a span that
is mostly unknown. Below them stands the verdict the evidence calls for with no
order of gates (`Admitted`, `Candidates`, `Best`, `Weak`), from which
**`IntentContract`** says what `resolve` promises: refuse, name the equally good
best, or answer with the one best. **`IntentResolver`** is the code: `Score`,
`CheckWords`, `CheckSpans`, `NoRole`, `Constrain` or `Prefer`, `CheckStrength`,
`Decide`. A sorted list is the relation `Before`; its first is the least element,
its first five those with few enough before them.

**`RenderedText`** is a Markdown text as the validator reads it: blocks under
headings, each a set of lines with a complete anchor and a tag. One operator
stands for each check of `_validate_llm_output_sections`; `Mentions` keeps that
sections are a dict. **`Renderer`** is `render`: `Compile` is one step of
`BudgetContract`, which `DecisionContext` is proved to implement, so the two
modules compose; `Assemble`, `Skip`, `NoPolisher`, `Polish`, `Retry`,
`Unavailable`, `Reject`, `Accept` and `Finish` follow the function. The polisher
answers with any text of `Rewrites`, fails for good, or fails so that its client
tries again, up to `MaxRetries` times.

**`Service`** is the container with its workers. `configured` is the .env file,
`environment` what the container was started with, `image` what it holds. `Boot`
is `create_app` in a worker (credentials, SHACL gate, readiness), `Crash` and
`Kill` lose what a worker knows and the calls it serves, `Recreate` is
`docker-run.sh`, `Configure` the edit of .env. `tried` is the order of the
credentials of a worker (`Tried`): `require_token` compares a token with one after
the other, and `hmac.compare_digest` raises for a pair that is not ASCII
(`Incomparable`). A call goes through `Send`, `Break`, `Refuse` or
`Authenticate`, `Object` or `Permit`, `Resolve` or `Fail`, and
`Reply`; `Objection` keeps the order in which the handlers refuse, `Status` the
mapping of every ending. The data a call reads is `View`, from the operators of
`DatasetStore`: here authentication, purpose, scopes and the store's gates meet.
The handlers are synchronous functions in threads that share nothing they write,
so the interleaving of calls is one of starts and losses, not of data.

`GraphRetrieverProofs`, `ContextCompilerProofs`, `DecisionContextProofs`,
`IntentResolverProofs`, `RendererProofs` and `ServiceProofs` hold the theorems, the
modules `MC...` the instances. Operators whose comment calls them a faulty
variant are not part of a specification: each is a mistake the properties must
notice, listed in PROJECT.json.

## 3. Runs

**`retrieval`** (`MCGraphRetriever.cfg`, 44,808 states). Four resources in a chain
longer than the cut-off of 2, with short cuts, a back edge, a candidate edge, an
edge of an unregistered partition, one that is not traversed and a sensitive
description, each present or absent (128 datasets), two purposes, all sets of
scopes. A chain one longer than the cut-off and a short cut are what a wrong
depth needs to show. Checked: the invariant, `ExactAnswer`, `NothingRestricted`,
`ScopesOnlyNarrow`, `BreadthFirst`, `Terminates`, and that the search implements
`Retrieval`.

**`compilation`** (`MCContextCompiler.cfg`, 131,565 states). An issue and a gap seen
in three partitions; every choice of none, one or two statuses in both gated
partitions, none to two validity bounds before, at and after `as_of`, types
asserted in different partitions. Two contradicting values are enough, since the
code only asks for the first, for any and for all. `MaxDepth` is 1: with two
members more depth adds nothing. Checked: the invariant, `EachPartOnce`,
`GatedViewsAreAdmissible`, `TypesStayHome`, `PartitionsApart`, `GapsAreCandidates`.

**`budget`** (`MCDecisionContext.cfg`, 28,372 states). Packs of one to seven views: a
root in none, one or two partitions and of three roles, a related issue with and
without its edge, a gap that may have another role, outcomes, a risk, a
rationale, a source record, a dependency with evidence and a secondary role,
lines of 70 and 160 characters; nine budgets below,
at and above the floors of these packs, up to the default of 12000. Every way
through the slots, a second pass of none to several lines and both ends of the
floor occur. Checked: the invariant, `FitsBudget`, `MandatoryKept`,
`NothingVanishes`, `RelatedIssueInBody`, `GapsReported`, `RootWhole`,
`ReclaimedInSlotOrder`, `Terminates`, and that the passes implement
`BudgetContract`. `ReclaimedInSlotOrder` compares two tables that know nothing of
each other: the slot a section draws on in the first pass, in the order the
docstring of `enforce_max_chars` gives the slots, and the priority, looked up
through two maps and a default, by which the second pass sorts.

**`intent`** (`MCIntentResolver.cfg`, 41,056 states). A capability and two
risks; seven statements about names, scope, types and a sensitive description,
each present or absent (128 datasets); queries with a known and an unknown word,
topics covered, half covered and not at all, role words that constrain and that
prefer, a query found whole and an empty one. Three candidates are what a tie
with an outsider needs; `MaxCandidates` is 2 instead of 5, so that the cut leaves
someone out and a tie of three does not fit it. Checked: the invariant,
`NoGuess`, `KnownTopicsOnly`, `NothingInvisibleNamed`, and that the gates
implement `IntentContract`.

**`rendering`** (`MCRenderer.cfg`, 10,238 states). Packs with a root in none, one or
two partitions, two risks of equal status, one without a source; budgets below
and above the floor; all modes, with and without a polisher; rewrites that
remove, double or move a line, change its tag, partition, source or member, swap
or repeat headings, put text before the first, add a number, a URI or 500
characters. `MaxRetries` is 1, the default of the client. Checked: the invariant,
`ModeTold`, `FactsKept`, `FallbackNeverFails`, `UnalteredTextPasses`,
`PlacedLines`, `Terminates`.

**`service`** (`MCService.cfg`, 88,920 states). Two workers, one call at a time
that may be made again and again, three contents of .env (a single key that the
registry lists too, a registry alone with a key that is not ASCII, another single
key), three images (sound,
with dates that have no offset, not conforming), and requests for every ending.
Calls do not share what they write, so a second call at once adds states and no
behaviour; the proofs hold for any number. Crashes, boots, edits and new
containers are not bounded. Checked: the invariant, `ReadyMeansValidated`,
`RightfulData`, `SingleKeyWins`, `EveryCallEnds`.

Six runs are expected to end with a counterexample, under the instance of the run of
their module.

* **`root_at_floor`** checks `FloorIsEnough`, what the docstrings of
  `mandatory_floor` and `mandatory_view_keys` say. Only the first unit of the root
  is mandatory. A root seen in two partitions loses its second view under budgets
  from the floor upwards, and `_verify_root_integrity` then answers with
  `ContextRootMissingError`.
* **`evidence_before_risks`** checks `EvidenceBeforeRisks`, one step of the order in the
  docstring of `enforce_max_chars`, said of roles instead of slots. Evidence is in the
  section `progress`, which has the priority of the outcomes, so risks and
  dependencies go first; the entry for `evidence` in the table is never used.
* **`polished_too_long`** checks `NeverTooLong`. The limit is tested before the
  polish and not after it.
* **`tag_lost`** checks `TagsPreserved`. A tag is looked for in the whole text, so
  one of two equal tags may go.
* **`unvalidated_traffic`** checks `NoUnvalidatedTraffic`. Nobody but `/ready`
  reads readiness, and the launcher and the load balancer ask `/health`.
* **`untraced_failure`** checks `EveryAnswerTraced`. An exception no handler maps
  is answered outside the middleware that sets `X-Request-ID`. The shortest way is
  a token compared with one that is not ASCII.

No run disables the deadlock check: each specification of one computation ends in
an explicit `Done`, and the service can always be edited, booted or called.

*Fairness.* `GraphRetriever`, `DecisionContext` and `Renderer` assume weak fairness
of their steps: each is one function call of one thread; the first two wait for
nothing, the last for a client with a timeout and a bounded number of retries.
`Service` assumes weak fairness of the steps of each call: its thread goes on
while its worker lives. Nothing is assumed of crashes, restarts or the operator,
so `EveryCallEnds` allows a call to be lost. `ContextCompiler` and
`IntentResolver` state no liveness.

## 4. Proofs

The proofs assume only the named assumptions on constants, which TLC also evaluates in
the runs: `StoreAssumption`, `RetrieverAssumption`, `CompilerAssumption`,
`PackAssumption`, `BudgetAssumption`, `EvidenceAssumption`,
`ResolverAssumption`, `TextAssumption`, `RendererAssumption`, `ServiceAssumption`.
Most only give constants their types. `RetrieverAssumption` and
`CompilerAssumption` also take datasets for finite, as what is parsed from files
is, and `EvidenceAssumption` names and fragments; nothing bounds their size.
`PackAssumption` says that no view occurs twice and that gaps are views; that the
compiler makes such packs is the theorem `PackIsKeyed`.

*Retriever.* Exactness is not inductive by itself. The invariant adds: the deque
holds resources met at the depth it carries, depths never decrease along it and
span one level (`QueueInv`); nothing is met beyond the next level (`LevelInv`); a
resource that has left the deque has all its neighbours met at most one level
further out (`ExpandInv`); what is met is reachable by a walk as long as its level
(`ReachInv`). Soundness is `ReachInv`; completeness follows by induction along a
walk, when the deque is empty. The other theorems and the refinement follow.
`Delivery` adds the statements to the resources: what the search hands on is
`Retrieved`, from which `ContextCompiler` starts, so the two compose.

*Context compiler.* `BucketInv` says that the buckets hold exactly the image of the
settled (member, partition) pairs; `DecisionInv` ties the dictionaries of the
first pass to what the policy says of the member in hand. `EachPartOnce`,
`TypesStayHome`, `PartitionsApart` and `GapsAreCandidates` are read off this image.
`GatedViewsAreAdmissible` needs the order of the status names: the first status is
Confirmed only if none before it, Archived and Candidate among them, is present.
`PackIsFunction` closes the image when the last member is done: a finished pack is
the policy applied to all (member, partition) pairs, so neither the order of the
loops nor the previous member shows in it. Read together with the ball, it gives
`EveryMemberTold` (a resource in the ball occurs in some statement, hence in some
partition) and `PackStaysVisible`, the gates of the store carried through to every
view, statement and omission.

*Decision context.* `PlaceInv` keeps every unit in one place and the mandatory ones
in the body; `FitInv` says that what leaves the second pass fits. The step that
matters is `EndEnforceKeeps`: when nothing is left to take back, the body is the
mandatory set and the omissions are all other units, which is the very text the
floor was measured on. The length is never expanded in these proofs, so they
hold however the text is laid out, as long as floor and second pass measure it
the same way. Then each promise follows from the invariant, the order of the
second pass (`ReclaimedInSlotOrder`) from a second induction on top of it and from
`RankOrder`, which shows section by section that priorities and slots are in
opposite orders (the root, whose further views have the default priority, is set
apart), and the
refinement of `BudgetContract` by mapping `Verify` to `Deliver` or `Fail` and all
other steps but `Refuse` and `NoRoot` to stuttering. `SingleRootKept` is what
remains true of the claim that `root_at_floor` refutes: the first unit of the root
is mandatory, so a root of one unit is never lost. `NoneInVain` strengthens the
invariant by the line taken back last: with it the text would not have fitted.

*Intent resolver.* `Progress` says what each gate leaves behind. The heart is the
decision: the code looks at the first two of a sorted list and the contract at
all candidates. `Before` is a strict total order, a finite pool has a first
element, and if any candidate ties with the first then the second does. The other
half is the preference: the role stands before the score in the key, so a boost
given to everyone of a role changes no comparison between them and none that the
role has not already decided. With a constraint all share the role and the boost
does not apply. The refinement maps each refusal of a gate to `Refuse`.
`VerdictIsEvidence` says the same from outside: the verdict is a function of the
visible statements and the query. `ShortLists` counts: those with fewer than n
before them are at most n, because `Before` is total.

*Renderer.* `Deliverable` names the three ways a text may leave. `FactsKept` follows
from the checks of the validator for a polished text, and from the construction
of the deterministic one otherwise; that the validator accepts the deterministic
text (`UnalteredTextPasses`) is proved check by check. `FallbackNeverFails` needs
what `BudgetContract` promises of length and root. `UnpolishedExact` shows that
what `polished_too_long` and `tag_lost` find needs a polished text, and
`PolisherOnlyAskedFor` that a polish is never made unasked.

*Service.* `Current` says a living worker is as old as its container; `Checked` what
a call at each stage has passed, and that what it has seen is the view of its key.
Both survive every crash because `Kill` takes the calls with the workers.
`RightfulData` and `SingleKeyWins` are action properties read off the invariant
at the step that answers. `NoCallAcrossContainers` and `ForwardOnly` compare each
step of the operator, of a worker and of a call: a call keeps its container and
its checks, or is lost. `AnyWorkerWillDo` is why the workers need no common
memory. `TracedOtherwise` bounds what `untraced_failure` finds: four causes, all
of them named.

Only model-checked: `Terminates` of the search, the decision context and the
rendering, and `EveryCallEnds`, since liveness under fairness is beyond the
prover. Their safety core is proved: `BoundedWork` of the search, the compiler,
the decision context and the renderer gives a natural number that every step
lowers, so none of them can run for ever (what is left to fairness is that an
enabled step is taken), and `ForwardOnly` lets a call go forward only. That `Length`
is the number of characters the code produces is a matter of reading, not of proof.

## 5. Not modelled

* Parsing of TriG and JSON-LD, the fingerprint of the files, the SHACL engine (its
  verdict is a field of the image, its failure a choice), the data itself.
* The cutting of a query into fragments, words and spans, which is string
  scanning without a decision of its own, and the intent facets, which are labels.
* Claims, display names, warnings, the epistemic summary and other wording; the
  order of lines within a section; numbers and URIs of a polished text, which are
  new or not. A member mentioned outside a complete anchor is not a line.
* The flat-list half of `context_renderer.py` (lines 81-132, 158-353 and 545-643):
  only tests call it, the service does not.
* The fields of a client's pack: whether it is accepted is modelled, and that it
  is answered without the dataset. `DecisionContext` and `Renderer` take packs with
  distinct views, which a compiled pack has and a client's may not.
* What kind of value an ill-typed field holds: a purpose or a query of a
  `resolve_request`, or a purpose of a pack, that is no string ends like the other
  fields no request model checks (`ill_typed`), though at an earlier or later line.
* Requests refused by the request models, a registry that is no JSON or has
  entries of wrong types, a `create_app` that raises.
* Seconds: a graceful stop of 35 seconds against a polish of twice
  `LLM_TIMEOUT`. The scripts of the repository stop the container with `docker rm
  -f`, which waits for nothing and is what `Kill` does.
* One state space with resolver, compiler and decision context, in which a root
  whose every partition is refused at `as_of` becomes a missing root. Each half
  is modelled in its module, the ending in `Service`; `EveryMemberTold` shows that
  the compiler at least names such a root in an omission.
* Scripts and domain records: sequential programs around the API, and data
  classes.

Four remarks from reading. The design of the compiler says that source records and
confirmations get no line and are all kept in `render_omissions`, with the reason
`trace_only` (`docs/superpowers/specs/2026-08-12-decision-context-compiler-design.md:80`,
`:226`); `_build_units_by_section` skips them with a `continue` (line 569) and nothing
else writes omissions but the two passes, so they are in neither. No interleaving is
needed to see it, and no run is spent on it. The second pass sorts equal
priorities by ascending tier (line 373), so within one section a required line goes
before a secondary one, and only rationales and decisions are ever taken back as
`secondary`: criteria, milestones, capabilities and responsibilities share the
priority of their sections. `docs/mvp/05-deployment-2.0.md:72` says that keys are
rotated without a stop because the environment is read on every request; the code
takes a snapshot in `create_app` (`server.py:297`), as
`docs/architecture/key-registry.md:66` says, and in the ECS deployment even a
restarted worker has the old keys, because .env is read when the container is
created. With `TKOS_INCLUDE_SENSITIVE` off, the files of the sensitive partition are
not loaded, and the list of restricted nodes, which is read from that partition
(`rdflib_dataset_store.py:42`), is empty: what other partitions say of these nodes
is served. `RightfulData` is about the nodes restricted in the loaded dataset.
