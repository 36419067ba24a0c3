------------------------------ MODULE Service ------------------------------
(***************************************************************************)
(* The HTTP service: a container whose workers each load the credentials   *)
(* and the dataset once, at their start, and answer calls.  A worker can   *)
(* crash and is started again with the environment of the container; the   *)
(* operator edits the .env file and recreates the container, which is when *)
(* the edit takes effect.  Both lose the calls in flight.                  *)
(*                                                                         *)
(* The handlers run in threads and share only what a worker never changes  *)
(* after its start, so a call is a sequence of steps of its own: authn,    *)
(* the purpose gate, the pipeline, the rendering, each able to end it.     *)
(***************************************************************************)
EXTENDS DatasetStore, Sequences

CONSTANTS
    Worker, Call,
    Key, NoKey,             \* bearer tokens
    Ascii,                  \* the tokens of ASCII characters only
    OtherPurpose,           \* purposes the policy does not know
    AnyPurpose,             \* "*" in the purposes of a principal
    NoPurpose,              \* the request leaves the purpose out
    DefaultPurpose,         \* "decision_preparation"
    Scenario, NoScenario,
    Scenarios,              \* SCENARIOS: scenario -> purpose
    Environments,           \* the contents of .env considered
    Images,                 \* the images considered
    Requests,               \* the requests considered
    nobody                  \* no principal

Asked == Purpose \cup OtherPurpose

Principal == [purposes : SUBSET (Asked \cup {AnyPurpose}),
              scopes : Scopes,
              default : Scenario \cup {NoScenario}]

\* TKOS_API_KEY, TKOS_API_KEYS_JSON, TKOS_STARTUP_SHACL, TKOS_INCLUDE_SENSITIVE.
\* listed: the keys of the registry in their order.
IsEnvironment(env) ==
    /\ env.single \in Key \cup {NoKey}
    /\ DOMAIN env.multi \subseteq Key
    /\ env.multi \in [DOMAIN env.multi -> Principal]
    /\ env.listed \in Seq(Key)
    /\ {env.listed[i] : i \in 1..Len(env.listed)} = DOMAIN env.multi
    /\ env.shacl \in BOOLEAN /\ env.sensitive \in BOOLEAN

\* conforms: to the shapes.  dates: whether validFrom and validUntil are dates
\* that can be compared with as_of, dates without an offset, or no dates.
Image == [quads : SUBSET Quad, conforms : BOOLEAN,
          dates : {"comparable", "naive", "malformed"}]

\* "pack" is :render with a pack of the client.  form: as_of has an offset, or
\* the pack its governance fields ("sound"); it has not ("refused"); a field
\* that no request model checks has a wrong type ("ill_typed"): as_of or
\* organization_scope of a resolve_request, a field of a pack.  A pack without a
\* purpose has the purpose "", an unknown one.
Request == [endpoint : {"version", "resolve", "render", "pack"},
            key : Key \cup {NoKey},
            scenario : Scenario \cup {NoScenario},
            purpose : Asked \cup {NoPurpose},
            form : {"sound", "refused", "ill_typed"},
            mode : {"none", "deterministic", "llm_with_fallback", "llm_required"}]

ASSUME ServiceAssumption ==
    /\ NoKey \notin Key /\ Ascii \subseteq Key
    /\ NoScenario \notin Scenario
    /\ AnyPurpose \notin Asked /\ NoPurpose \notin Asked
    /\ DefaultPurpose \in Purpose
    /\ DOMAIN Scenarios \subseteq Scenario
    /\ \A s \in DOMAIN Scenarios : Scenarios[s] \in Asked
    /\ \A env \in Environments : IsEnvironment(env)
    /\ Images \subseteq Image
    /\ Requests \subseteq Request
    /\ \A r \in Requests : r.endpoint = "pack" => r.purpose # NoPurpose
    /\ nobody \notin Principal

\* Endings that are no HTTPException: the error leaves the middleware of the
\* request id, and the outermost handler answers 500.
Unmapped == {"ill_typed", "polisher_error", "not_ascii"}

Outcome ==
    {"pending", "ok", "unauthenticated", "unknown_scenario", "forbidden", "bad_as_of",
     "invalid_pack", "unknown_purpose", "bad_value", "no_match", "ambiguous",
     "too_small", "root_missing", "value_error"} \cup Unmapped

Status(o) ==
    CASE o = "ok" -> 200
      [] o = "unauthenticated" -> 401
      [] o = "forbidden" -> 403
      [] o = "no_match" -> 404
      [] o = "ambiguous" -> 409
      [] o \in {"root_missing"} \cup Unmapped -> 500
      [] OTHER -> 422

-----------------------------------------------------------------------------
(* auth.py                                                                  *)
DefaultPrincipal == [purposes |-> {AnyPurpose}, scopes |-> Unlimited, default |-> NoScenario]

\* Faulty variant: the keys of the registry are applied last.
LoadCredentialsRegistryLast(env) ==
    [k \in DOMAIN env.multi \cup ({env.single} \ {NoKey}) |->
        IF k \in DOMAIN env.multi THEN env.multi[k] ELSE DefaultPrincipal]

\* _load_credentials: the single key is applied last.
LoadCredentials(env) ==
    [k \in DOMAIN env.multi \cup ({env.single} \ {NoKey}) |->
        IF k = env.single THEN DefaultPrincipal ELSE env.multi[k]]

\* The order of principals: a dict keeps the place of a key that is set again.
Tried(env) ==
    env.listed \o
        IF env.single \in {NoKey} \cup DOMAIN env.multi THEN <<>> ELSE <<env.single>>

\* hmac.compare_digest takes strings of ASCII characters only: the search for a
\* key raises at the first pair that is not, if the key was not found before.
Incomparable(order, k) ==
    /\ k # NoKey
    /\ \E i \in 1..Len(order) :
          /\ ~ ({k, order[i]} \subseteq Ascii)
          /\ \A j \in 1..(i - 1) : order[j] # k

\* assert_purpose
MayUse(p, purpose) == AnyPurpose \in p.purposes \/ purpose \in p.purposes

(* resolve_purpose, with NoPurpose for its ValueError.                      *)
ResolvePurpose(scenario, default) ==
    LET sid == IF scenario # NoScenario THEN scenario ELSE default
    IN  IF sid = NoScenario THEN DefaultPurpose
        ELSE IF sid \in DOMAIN Scenarios THEN Scenarios[sid] ELSE NoPurpose

\* The purpose a request is checked and served for.
PurposeOf(r, p) ==
    IF r.purpose # NoPurpose THEN r.purpose
    ELSE IF r.endpoint = "resolve" THEN ResolvePurpose(r.scenario, p.default)
    ELSE DefaultPurpose

\* The dataset a worker loads: files of sensitive instances only on request.
Loaded(img, env) ==
    IF env.sensitive THEN img.quads ELSE {q \in img.quads : q.g \notin RestrictedGraph}

\* Faulty variant: an error of the validator counts as a check that was not asked
\* for.
RunStartupShaclOpen(img, env) ==
    IF ~ env.shacl THEN {"skipped"}
    ELSE IF img.conforms THEN {"pass", "skipped"} ELSE {"fail", "skipped"}

\* _run_startup_shacl_if_enabled: an error of the validator is a failure.
RunStartupShacl(img, env) ==
    IF ~ env.shacl THEN {"skipped"}
    ELSE IF img.conforms THEN {"pass", "fail"} ELSE {"fail"}

-----------------------------------------------------------------------------
VARIABLES
    configured,     \* the .env file
    environment,    \* the environment of the container
    image,          \* the image of the container
    running, principals, tried, shacl, ready,   \* of each worker
    stage, request, server, who, seen, answer   \* of each call

container == <<configured, environment, image>>
workers == <<running, principals, tried, shacl, ready>>
calls == <<stage, request, server, who, seen, answer>>
vars == <<container, workers, calls>>

Open == {"sent", "authenticated", "permitted", "resolved"}
Closed == {"idle", "answered", "lost"}

Init ==
    /\ configured \in Environments /\ environment = configured
    /\ image \in Images
    /\ running = [w \in Worker |-> FALSE]
    /\ principals = [w \in Worker |-> <<>>] /\ tried = [w \in Worker |-> <<>>]
    /\ shacl = [w \in Worker |-> "skipped"]
    /\ ready = [w \in Worker |-> FALSE]
    /\ stage = [c \in Call |-> "idle"]
    /\ \E r \in Requests : request = [c \in Call |-> r]
    /\ \E w \in Worker : server = [c \in Call |-> w]
    /\ who = [c \in Call |-> nobody]
    /\ seen = [c \in Call |-> {}]
    /\ answer = [c \in Call |-> "pending"]

\* The operator edits .env.
Configure ==
    /\ configured' \in Environments \ {configured}
    /\ UNCHANGED <<environment, image, workers, calls>>

\* Faulty variant: the calls and what the workers know outlive the workers.
KillLeavingState(W) ==
    /\ running' = [w \in Worker |-> IF w \in W THEN FALSE ELSE running[w]]
    /\ UNCHANGED <<principals, tried, shacl, ready, calls>>

\* Processes end, and with them what they know and the calls they serve.
Kill(W) ==
    /\ running' = [w \in Worker |-> IF w \in W THEN FALSE ELSE running[w]]
    /\ principals' = [w \in Worker |-> IF w \in W THEN <<>> ELSE principals[w]]
    /\ tried' = [w \in Worker |-> IF w \in W THEN <<>> ELSE tried[w]]
    /\ shacl' = [w \in Worker |-> IF w \in W THEN "skipped" ELSE shacl[w]]
    /\ ready' = [w \in Worker |-> IF w \in W THEN FALSE ELSE ready[w]]
    /\ stage' = [c \in Call |-> IF stage[c] \in Open /\ server[c] \in W
                                THEN "lost" ELSE stage[c]]
    /\ UNCHANGED <<request, server, who, seen, answer>>

\* docker-run.sh: docker rm -f, then a new container with the file as it is now.
Recreate ==
    /\ environment' = configured
    /\ image' \in Images
    /\ Kill(Worker)
    /\ UNCHANGED configured

\* create_app, in each worker: gunicorn does not preload.
Boot(w) ==
    /\ ~ running[w]
    /\ running' = [running EXCEPT ![w] = TRUE]
    /\ principals' = [principals EXCEPT ![w] = LoadCredentials(environment)]
    /\ tried' = [tried EXCEPT ![w] = Tried(environment)]
    /\ \E s \in RunStartupShacl(image, environment) :
          /\ shacl' = [shacl EXCEPT ![w] = s]
          /\ ready' = [ready EXCEPT ![w] = s # "fail"]
    /\ UNCHANGED <<container, calls>>

\* A worker dies; gunicorn starts another.
Crash(w) ==
    /\ running[w]
    /\ Kill({w})
    /\ UNCHANGED container

-----------------------------------------------------------------------------
(* The life of a call.                                                      *)

\* Whichever worker accepts the connection takes the call: none asks for /ready.
Send(c, w, r) ==
    /\ stage[c] \in Closed /\ running[w]
    /\ stage' = [stage EXCEPT ![c] = "sent"]
    /\ request' = [request EXCEPT ![c] = r]
    /\ server' = [server EXCEPT ![c] = w]
    /\ who' = [who EXCEPT ![c] = nobody]
    /\ seen' = [seen EXCEPT ![c] = {}]
    /\ answer' = [answer EXCEPT ![c] = "pending"]
    /\ UNCHANGED <<container, workers>>

Advance(c, to) ==
    /\ stage' = [stage EXCEPT ![c] = to]
    /\ UNCHANGED <<container, workers, request, server, answer>>

End(c, o) ==
    /\ stage' = [stage EXCEPT ![c] = "answered"]
    /\ answer' = [answer EXCEPT ![c] = o]
    /\ UNCHANGED <<container, workers, request, server>>

\* require_token: the keys are compared one by one until one is equal.
Break(c) ==
    /\ stage[c] = "sent"
    /\ Incomparable(tried[server[c]], request[c].key)
    /\ End(c, "not_ascii")
    /\ UNCHANGED <<who, seen>>

Refuse(c) ==
    /\ stage[c] = "sent"
    /\ ~ Incomparable(tried[server[c]], request[c].key)
    /\ request[c].key \notin DOMAIN principals[server[c]]
    /\ End(c, "unauthenticated")
    /\ UNCHANGED <<who, seen>>

Authenticate(c) ==
    /\ stage[c] = "sent"
    /\ ~ Incomparable(tried[server[c]], request[c].key)
    /\ request[c].key \in DOMAIN principals[server[c]]
    /\ who' = [who EXCEPT ![c] = principals[server[c]][request[c].key]]
    /\ Advance(c, "authenticated")
    /\ UNCHANGED seen

\* /version: authentication is all it asks for.
Version(c) ==
    /\ stage[c] = "authenticated" /\ request[c].endpoint = "version"
    /\ End(c, "ok")
    /\ UNCHANGED <<who, seen>>

\* Faulty variant: the purpose is checked of what is resolved only.
ObjectionUngated(r, p) ==
    LET purpose == PurposeOf(r, p) IN
    IF r.endpoint = "pack" THEN IF r.form = "refused" THEN "invalid_pack" ELSE "none"
    ELSE IF purpose = NoPurpose THEN "unknown_scenario"
    ELSE IF ~ MayUse(p, purpose) THEN "forbidden"
    ELSE IF r.form = "refused" THEN "bad_as_of"
    ELSE IF r.endpoint = "render" /\ r.form = "ill_typed" THEN "ill_typed"
    ELSE IF purpose \notin Purpose THEN "unknown_purpose"
    ELSE "none"

\* dict_to_pack raises: the pack lacks its governance fields, or cannot be built.
InvalidPack(r) == r.endpoint = "pack" /\ r.form = "refused"

(* What refuses an authenticated call before its data is read, in the order *)
(* of the handler: a client's pack is read before its purpose is checked,   *)
(* the as_of of a request after it.                                         *)
Objection(r, p) ==
    LET purpose == PurposeOf(r, p) IN
    IF InvalidPack(r) THEN "invalid_pack"
    ELSE IF purpose = NoPurpose THEN "unknown_scenario"
    ELSE IF ~ MayUse(p, purpose) THEN "forbidden"
    ELSE IF r.form = "refused" THEN "bad_as_of"
    ELSE IF r.endpoint = "render" /\ r.form = "ill_typed" THEN "ill_typed"
    ELSE IF r.endpoint # "pack" /\ purpose \notin Purpose THEN "unknown_purpose"
    ELSE "none"

Object(c) ==
    /\ stage[c] = "authenticated" /\ request[c].endpoint # "version"
    /\ Objection(request[c], who[c]) # "none"
    /\ End(c, Objection(request[c], who[c]))
    /\ UNCHANGED <<who, seen>>

Permit(c) ==
    /\ stage[c] = "authenticated" /\ request[c].endpoint # "version"
    /\ Objection(request[c], who[c]) = "none"
    /\ Advance(c, IF request[c].endpoint = "pack" THEN "resolved" ELSE "permitted")
    /\ UNCHANGED <<who, seen>>

\* What a call may read: store.allowed_graphs, then the store's own gates.
View(r, p, img, env) ==
    StatementsIn(Loaded(img, env), AllowedGraphs(PurposeOf(r, p), p.scopes))

RootsOf(c) ==
    Roots(Loaded(image, environment),
          AllowedGraphs(PurposeOf(request[c], who[c]), who[c].scopes))

\* resolver.resolve, when its intent finds a root.
Resolve(c) ==
    /\ stage[c] = "permitted"
    /\ RootsOf(c) # {}
    /\ seen' = [seen EXCEPT ![c] = View(request[c], who[c], image, environment)]
    /\ Advance(c, "resolved")
    /\ UNCHANGED who

\* NoMatchError, AmbiguousMatchError, and the errors of dates in the data: a
\* ValueError is mapped to 422, the TypeError of a comparison is not mapped.
Fail(c) ==
    /\ stage[c] = "permitted"
    /\ \E o \in {"no_match", "ambiguous", "bad_value", "ill_typed"} :
          /\ o = "ambiguous" => \E x, y \in RootsOf(c) : x # y
          /\ o = "bad_value" => RootsOf(c) # {} /\ image.dates = "malformed"
          /\ o = "ill_typed" => RootsOf(c) # {} /\ image.dates = "naive"
          /\ End(c, o)
    /\ UNCHANGED <<who, seen>>

\* The errors of render, and which of them a request can meet.
RenderErrors(r) ==
    IF r.mode = "none" THEN {}
    ELSE {"too_small", "root_missing"}
           \cup (IF r.mode = "llm_required" THEN {"value_error", "polisher_error"} ELSE {})
           \cup (IF r.form = "ill_typed" THEN {"ill_typed"} ELSE {})

\* Faulty variant: a failed polish starts the call over.
ReplyRetrying(c) ==
    /\ stage[c] = "resolved"
    /\ \/ \E o \in ({"ok"} \cup RenderErrors(request[c])) \ {"polisher_error"} : End(c, o)
       \/ request[c].mode = "llm_required" /\ Advance(c, "permitted")
    /\ UNCHANGED <<who, seen>>

Reply(c) ==
    /\ stage[c] = "resolved"
    /\ \E o \in {"ok"} \cup RenderErrors(request[c]) : End(c, o)
    /\ UNCHANGED <<who, seen>>

Serve(c) ==
    \/ Break(c) \/ Refuse(c) \/ Authenticate(c) \/ Version(c)
    \/ Object(c) \/ Permit(c)
    \/ Resolve(c) \/ Fail(c) \/ Reply(c)

Next ==
    \/ Configure \/ Recreate
    \/ \E w \in Worker : Boot(w) \/ Crash(w)
    \/ \E c \in Call, w \in Worker, r \in Requests : Send(c, w, r)
    \/ \E c \in Call : Serve(c)

Spec == Init /\ [][Next]_vars

\* The thread of a call goes on as long as its worker lives: its only wait, for
\* the polisher, has a timeout.
FairSpec == Spec /\ \A c \in Call : WF_vars(Serve(c))
-----------------------------------------------------------------------------
TypeOK ==
    /\ configured \in Environments /\ environment \in Environments /\ image \in Images
    /\ running \in [Worker -> BOOLEAN] /\ ready \in [Worker -> BOOLEAN]
    /\ shacl \in [Worker -> {"skipped", "pass", "fail"}]
    /\ principals \in [Worker -> {<<>>} \cup {LoadCredentials(e) : e \in Environments}]
    /\ tried \in [Worker -> {<<>>} \cup {Tried(e) : e \in Environments}]
    /\ stage \in [Call -> Open \cup Closed]
    /\ request \in [Call -> Requests] /\ server \in [Call -> Worker]
    /\ who \in [Call -> Principal \cup {nobody}]
    /\ seen \in [Call -> SUBSET Quad]
    /\ answer \in [Call -> Outcome]

\* A living worker is as old as its container: its keys and its check are those
\* of the environment and of the image.
Current(w) ==
    running[w] =>
        /\ principals[w] = LoadCredentials(environment) /\ tried[w] = Tried(environment)
        /\ shacl[w] \in RunStartupShacl(image, environment)
        /\ ready[w] <=> shacl[w] # "fail"

Reads(r) == r.endpoint \in {"resolve", "render"}

\* How far a call got says what was checked.
Checked(c) ==
    /\ stage[c] \in Open => running[server[c]]
    /\ stage[c] = "sent" => seen[c] = {}
    /\ stage[c] \in Open \ {"sent"} =>
          /\ request[c].key \in DOMAIN LoadCredentials(environment)
          /\ who[c] = LoadCredentials(environment)[request[c].key]
    /\ stage[c] = "authenticated" => seen[c] = {}
    /\ stage[c] \in {"permitted", "resolved"} =>
          request[c].endpoint # "version" /\ Objection(request[c], who[c]) = "none"
    /\ stage[c] = "permitted" => Reads(request[c]) /\ seen[c] = {}
    /\ stage[c] = "resolved" =>
          seen[c] = IF request[c].endpoint = "pack" THEN {}
                    ELSE View(request[c], who[c], image, environment)

IInv ==
    /\ TypeOK
    /\ \A w \in Worker : Current(w)
    /\ \A c \in Call : Checked(c)
    /\ \A w \in Worker : ~ running[w] => ~ ready[w]

Answers(c) == stage[c] # "answered" /\ stage'[c] = "answered"

RightfulAnswer(c) ==
    Answers(c) /\ answer'[c] = "ok" =>
        LET r == request[c]
            keys == LoadCredentials(environment)
            p == keys[r.key]
            D == Loaded(image, environment)
        IN  /\ r.key \in DOMAIN keys
            /\ r.endpoint # "version" => MayUse(p, PurposeOf(r, p))
            /\ ~ Reads(r) => seen'[c] = {}
            /\ \A q \in seen'[c] :
                  /\ q \in D /\ q.g \in Registered \ RestrictedGraph
                  /\ q.g \in PurposeAllowed[PurposeOf(r, p)]
                  /\ p.scopes # Unlimited => q.g \in p.scopes
                  /\ {q.s, q.o} \cap RestrictedNodes(D) = {}

\* Whatever was edited, recreated or restarted while the call ran, an answer is
\* within what the keys of the running container give its key: the purpose is
\* one of the key, each statement read is of a registered partition of that
\* purpose within the scopes of the key and touches nothing restricted, and a
\* pack of the client is answered without a look at the dataset.
RightfulData == [][\A c \in Call : RightfulAnswer(c)]_vars

UnrestrictedAnswer(c) ==
    Answers(c) /\ request[c].key = environment.single /\ environment.single # NoKey =>
        LET r == request[c] IN
        /\ Status(answer'[c]) \notin {401, 403}
        /\ answer'[c] = "unknown_scenario" => r.scenario \notin {NoScenario} \cup DOMAIN Scenarios
        /\ Reads(r) /\ answer'[c] = "ok" =>
              seen'[c] = View(r, DefaultPrincipal, image, environment)

\* A caller with the single key is never told that the key is unknown, is refused
\* for no purpose, is held to no default scenario and is narrowed by no scopes,
\* also when the registry lists the same token ("single-token wins on collision").
SingleKeyWins == [][\A c \in Call : UnrestrictedAnswer(c)]_vars

\* A worker that says it is ready serves, where the check at the start is asked
\* for, an image that passed it, also after the container was recreated or the
\* worker restarted.
ReadyMeansValidated ==
    \A w \in Worker : ready[w] /\ environment.shacl => running[w] /\ image.conforms

\* A call that a worker took is answered, or lost with the worker.
EveryCallEnds ==
    \A c \in Call : stage[c] = "sent" ~> stage[c] \in {"answered", "lost"}

-----------------------------------------------------------------------------
\* What the documentation says beyond that.

\* A worker whose check failed answers no call with data ("do not accept traffic
\* over an unvalidated graph").
NoUnvalidatedTraffic ==
    [][\A c \in Call :
         Answers(c) /\ answer'[c] = "ok" /\ Reads(request[c]) => shacl[server[c]] # "fail"]_vars

\* Every answer carries its request id: the header is set by the middleware, on
\* what the handler or its HTTPException made ("trace every response").
EveryAnswerTraced ==
    \A c \in Call : stage[c] = "answered" => answer[c] \notin Unmapped
=============================================================================
