--------------------------- MODULE ServiceProofs ---------------------------
(***************************************************************************)
(* Safety of Service for every number of workers and calls, every          *)
(* environment and every image.                                            *)
(***************************************************************************)
EXTENDS Service, TLAPS

-----------------------------------------------------------------------------
\* The principal a key denotes is one.
LEMMA CredentialsType ==
    ASSUME ServiceAssumption, NEW env \in Environments,
           NEW k \in DOMAIN LoadCredentials(env)
    PROVE  LoadCredentials(env)[k] \in Principal
<1>1. IsEnvironment(env)
  BY DEF ServiceAssumption
<1>2. DefaultPrincipal \in Principal
  BY DEF DefaultPrincipal, Principal, Scopes
<1>3. k \in DOMAIN env.multi \cup ({env.single} \ {NoKey})
  BY DEF LoadCredentials
<1>4. CASE k = env.single
  BY <1>2, <1>3, <1>4 DEF LoadCredentials
<1>5. CASE k # env.single
  BY <1>1, <1>3, <1>5 DEF LoadCredentials, IsEnvironment
<1> QED
  BY <1>4, <1>5

\* The single key denotes the unrestricted principal.
LEMMA SingleKey ==
    ASSUME NEW env, env.single # NoKey
    PROVE  /\ env.single \in DOMAIN LoadCredentials(env)
           /\ LoadCredentials(env)[env.single] = DefaultPrincipal
BY DEF LoadCredentials

\* What a call reads is in the dataset.
LEMMA ViewType ==
    ASSUME ServiceAssumption, NEW img \in Images, NEW env, NEW r, NEW p
    PROVE  View(r, p, img, env) \in SUBSET Quad
<1>1. img.quads \subseteq Quad
  BY DEF ServiceAssumption, Image
<1>2. Loaded(img, env) \subseteq Quad
  BY <1>1 DEF Loaded
<1> QED
  BY <1>2 DEF View, StatementsIn

LEMMA ObjectionType ==
    \A r, p : Objection(r, p) \in (Outcome \ {"pending", "ok", "unauthenticated"}) \cup {"none"}
BY DEF Objection, Outcome, Unmapped

LEMMA RenderErrorsType == \A r : RenderErrors(r) \subseteq Outcome
BY DEF RenderErrors, Outcome, Unmapped

LEMMA ShaclType ==
    \A img, env : RunStartupShacl(img, env) \subseteq {"skipped", "pass", "fail"}
BY DEF RunStartupShacl

-----------------------------------------------------------------------------
LEMMA InitInvariant == ServiceAssumption /\ Init => IInv
BY DEF Init, IInv, TypeOK, Current, Checked, Open, Closed, Outcome

\* A step of one call leaves the container, the workers and the other calls alone.
LEMMA OthersKeep ==
    ASSUME IInv, NEW c \in Call, NEW d \in Call, d # c,
           UNCHANGED <<container, workers>>,
           stage'[d] = stage[d], request'[d] = request[d], server'[d] = server[d],
           who'[d] = who[d], seen'[d] = seen[d]
    PROVE  Checked(d)'
BY DEF IInv, Checked, container, workers, Reads

LEMMA WorkersKeep ==
    ASSUME IInv, UNCHANGED <<container, workers>>
    PROVE  /\ \A w \in Worker : Current(w)'
           /\ (\A w \in Worker : ~ running[w] => ~ ready[w])'
BY DEF IInv, Current, container, workers

-----------------------------------------------------------------------------
LEMMA BootKeeps ==
    ASSUME ServiceAssumption, IInv, NEW w \in Worker, Boot(w)
    PROVE  IInv'
<1>1. PICK s \in RunStartupShacl(image, environment) :
          shacl' = [shacl EXCEPT ![w] = s] /\ ready' = [ready EXCEPT ![w] = s # "fail"]
  BY DEF Boot
<1>2. s \in {"skipped", "pass", "fail"}
  BY <1>1, ShaclType
<1>3. TypeOK'
  BY <1>1, <1>2 DEF IInv, TypeOK, Boot, container, calls
<1>4. ASSUME NEW v \in Worker
      PROVE  Current(v)' /\ (~ running'[v] => ~ ready'[v])
  BY <1>1 DEF IInv, TypeOK, Boot, Current, container
<1>5. ASSUME NEW c \in Call PROVE Checked(c)'
  BY DEF IInv, TypeOK, Boot, Checked, container, calls, Reads
<1> QED
  BY <1>3, <1>4, <1>5 DEF IInv

\* Without a worker there is no open call: nothing of the old container is left.
LEMMA KillKeeps ==
    ASSUME ServiceAssumption, IInv, NEW W \in SUBSET Worker, Kill(W),
           configured' \in Environments, environment' \in Environments, image' \in Images,
           W # Worker => UNCHANGED container
    PROVE  IInv'
<1>1. TypeOK'
  BY DEF IInv, TypeOK, Kill, Open, Closed
<1>2. ASSUME NEW v \in Worker
      PROVE  Current(v)' /\ (~ running'[v] => ~ ready'[v])
  BY DEF IInv, TypeOK, Kill, Current, container
<1>3. ASSUME NEW c \in Call PROVE Checked(c)'
  <2>1. CASE stage'[c] \in Open
    <3>1. stage'[c] = stage[c] /\ server[c] \notin W /\ server[c] \in Worker
      BY <2>1 DEF Kill, Open, IInv, TypeOK
    <3>2. UNCHANGED container /\ running'[server[c]] = running[server[c]]
      BY <3>1 DEF Kill
    <3> QED
      BY <3>1, <3>2 DEF Kill, IInv, Checked, container, Reads
  <2>2. CASE stage'[c] \notin Open
    BY <2>2 DEF Checked, Open
  <2> QED
    BY <2>1, <2>2
<1> QED
  BY <1>1, <1>2, <1>3 DEF IInv

LEMMA SendKeeps ==
    ASSUME ServiceAssumption, IInv, NEW c \in Call, NEW w \in Worker, NEW r \in Requests,
           Send(c, w, r)
    PROVE  IInv'
<1>1. TypeOK'
  BY DEF IInv, TypeOK, Send, container, workers, Open, Outcome
<1>2. Checked(c)'
  BY DEF IInv, TypeOK, Send, Checked, workers, container
<1>3. ASSUME NEW d \in Call, d # c PROVE Checked(d)'
  <2>1. /\ stage'[d] = stage[d] /\ request'[d] = request[d] /\ server'[d] = server[d]
        /\ who'[d] = who[d] /\ seen'[d] = seen[d]
    BY <1>3 DEF IInv, TypeOK, Send
  <2>2. UNCHANGED <<container, workers>>
    BY DEF Send
  <2> QED
    BY <1>3, <2>1, <2>2, OthersKeep
<1> QED
  BY <1>1, <1>2, <1>3, WorkersKeep DEF IInv, Send

-----------------------------------------------------------------------------
\* What every step of a call does.
LEMMA ServeFrame ==
    ASSUME ServiceAssumption, IInv, NEW c \in Call, Serve(c)
    PROVE  /\ UNCHANGED <<container, workers, request, server>>
           /\ \A d \in Call \ {c} : /\ stage'[d] = stage[d] /\ who'[d] = who[d]
                                    /\ seen'[d] = seen[d]
           /\ stage[c] \in Open
BY DEF Serve, Break, Refuse, Authenticate, Version, Object, Permit, Resolve, Fail, Reply,
       Advance, End, IInv, TypeOK, Open

\* Calls end in an outcome, with the principal and the data they had.
LEMMA EndKeeps ==
    ASSUME ServiceAssumption, IInv, NEW c \in Call, NEW o \in Outcome, End(c, o),
           UNCHANGED <<who, seen>>
    PROVE  TypeOK' /\ Checked(c)'
BY DEF IInv, TypeOK, End, Checked, Open, Closed, container, workers

LEMMA ServeKeepsCall ==
    ASSUME ServiceAssumption, IInv, NEW c \in Call, Serve(c)
    PROVE  TypeOK' /\ Checked(c)'
<1> USE DEF Open
<1>0. CASE Break(c)
  BY <1>0, EndKeeps DEF Break, Outcome, Unmapped
<1>1. CASE Refuse(c)
  BY <1>1, EndKeeps DEF Refuse, Outcome
<1>2. CASE Authenticate(c)
  <2>1. /\ stage[c] = "sent" /\ running[server[c]] /\ server[c] \in Worker
        /\ environment \in Environments
    BY <1>2 DEF Authenticate, IInv, TypeOK, Checked
  <2>2. principals[server[c]] = LoadCredentials(environment)
    BY <2>1 DEF IInv, Current
  <2>3. LoadCredentials(environment)[request[c].key] \in Principal
    BY <1>2, <2>1, <2>2, CredentialsType DEF Authenticate
  <2>4. who' = [who EXCEPT ![c] = LoadCredentials(environment)[request[c].key]]
    BY <1>2, <2>2 DEF Authenticate
  <2>5. TypeOK'
    BY <1>2, <2>3, <2>4 DEF Authenticate, Advance, IInv, TypeOK, container, workers
  <2>6. Checked(c)'
    BY <1>2, <2>1, <2>2, <2>4 DEF Authenticate, Advance, IInv, TypeOK, Checked, container, workers
  <2> QED
    BY <2>5, <2>6
<1>3. CASE Version(c)
  BY <1>3, EndKeeps DEF Version, Outcome
<1>4. CASE Object(c)
  BY <1>4, EndKeeps, ObjectionType DEF Object
<1>5. CASE Permit(c)
  <2>1. request[c] \in Request
    BY DEF IInv, TypeOK, ServiceAssumption
  <2>2. TypeOK'
    BY <1>5 DEF Permit, Advance, IInv, TypeOK, container, workers
  <2>3. request[c].endpoint \in {"version", "resolve", "render", "pack"}
    BY <2>1 DEF Request
  <2>4. Checked(c)'
    BY <1>5, <2>3 DEF Permit, Advance, IInv, TypeOK, Checked, Reads, container, workers
  <2> QED
    BY <2>2, <2>4
<1>6. CASE Resolve(c)
  <2>1. View(request[c], who[c], image, environment) \in SUBSET Quad
    BY ViewType DEF IInv, TypeOK
  <2>2. TypeOK'
    BY <1>6, <2>1 DEF Resolve, Advance, IInv, TypeOK, container, workers
  <2>3. Checked(c)'
    BY <1>6 DEF Resolve, Advance, IInv, TypeOK, Checked, Reads, container, workers
  <2> QED
    BY <2>2, <2>3
<1>7. CASE Fail(c)
  BY <1>7, EndKeeps DEF Fail, Outcome, Unmapped
<1>8. CASE Reply(c)
  <2>1. PICK o \in {"ok"} \cup RenderErrors(request[c]) : End(c, o)
    BY <1>8 DEF Reply
  <2>2. o \in Outcome
    BY <2>1, RenderErrorsType DEF Outcome
  <2> QED
    BY <1>8, <2>1, <2>2, EndKeeps DEF Reply
<1> QED
  BY <1>0, <1>1, <1>2, <1>3, <1>4, <1>5, <1>6, <1>7, <1>8 DEF Serve

LEMMA ServeKeeps ==
    ASSUME ServiceAssumption, IInv, NEW c \in Call, Serve(c)
    PROVE  IInv'
<1>1. UNCHANGED <<container, workers>>
  BY ServeFrame
<1>2. TypeOK' /\ Checked(c)'
  BY ServeKeepsCall
<1>3. ASSUME NEW d \in Call, d # c PROVE Checked(d)'
  BY <1>1, <1>3, ServeFrame, OthersKeep
<1> QED
  BY <1>1, <1>2, <1>3, WorkersKeep DEF IInv

LEMMA StepKeeps == ServiceAssumption /\ IInv /\ [Next]_vars => IInv'
<1> SUFFICES ASSUME ServiceAssumption, IInv, [Next]_vars
             PROVE  IInv'
  OBVIOUS
<1>1. CASE Configure
  BY <1>1 DEF Configure, IInv, TypeOK, Current, Checked, Reads, workers, calls
<1>2. CASE Recreate
  BY <1>2, KillKeeps DEF Recreate, IInv, TypeOK
<1>3. CASE \E w \in Worker : Boot(w)
  BY <1>3, BootKeeps
<1>4. CASE \E w \in Worker : Crash(w)
  BY <1>4, KillKeeps DEF Crash, IInv, TypeOK, container
<1>5. CASE \E c \in Call, w \in Worker, r \in Requests : Send(c, w, r)
  BY <1>5, SendKeeps
<1>6. CASE \E c \in Call : Serve(c)
  BY <1>6, ServeKeeps
<1>7. CASE UNCHANGED vars
  BY <1>7 DEF IInv, TypeOK, Current, Checked, Reads, vars, container, workers, calls
<1> QED
  BY <1>1, <1>2, <1>3, <1>4, <1>5, <1>6, <1>7 DEF Next

\* Workers are as old as their container, and how far a call got says what was
\* checked (IInv of Service).
THEOREM Inductive == ASSUME ServiceAssumption PROVE Spec => []IInv
<1>1. Init => IInv
  BY InitInvariant
<1>2. IInv /\ [Next]_vars => IInv'
  BY StepKeeps
<1> QED
  BY <1>1, <1>2, PTL DEF Spec

\* A worker that is ready passed its check on the image it serves.
THEOREM ReadyIsValidated == ASSUME ServiceAssumption PROVE Spec => []ReadyMeansValidated
<1>1. IInv => ReadyMeansValidated
  BY DEF IInv, TypeOK, Current, ReadyMeansValidated, RunStartupShacl
<1> QED
  BY <1>1, Inductive, PTL

-----------------------------------------------------------------------------
\* Only its own handler answers a call.
LEMMA WhoAnswers ==
    ASSUME ServiceAssumption, IInv, [Next]_vars, NEW c \in Call, Answers(c)
    PROVE  Serve(c)
<1> USE DEF Answers
<1>1. ~ Configure
  BY DEF Configure, calls
<1>2. ~ Recreate /\ (\A w \in Worker : ~ Crash(w))
  <2>1. ASSUME NEW W, Kill(W) PROVE FALSE
    <3>1. stage'[c] = "lost" \/ stage'[c] = stage[c]
      BY <2>1 DEF Kill
    <3> QED
      BY <3>1
  <2> QED
    BY <2>1 DEF Recreate, Crash
<1>3. \A w \in Worker : ~ Boot(w)
  BY DEF Boot, calls
<1>4. ~ UNCHANGED vars
  BY DEF vars, calls
<1>5. \A d \in Call, w \in Worker, r \in Requests : ~ Send(d, w, r)
  BY DEF Send, IInv, TypeOK
<1>6. \A d \in Call : Serve(d) => d = c
  BY ServeFrame
<1> QED
  BY <1>1, <1>2, <1>3, <1>4, <1>5, <1>6 DEF Next

\* What is known of a call that is being answered.
LEMMA Answering ==
    ASSUME ServiceAssumption, IInv, NEW c \in Call, Serve(c), Answers(c)
    PROVE  /\ \/ Break(c)
              \/ Refuse(c)
              \/ Version(c)
              \/ Object(c)
              \/ Fail(c)
              \/ Reply(c)
           /\ seen' = seen
           /\ answer' = [answer EXCEPT ![c] = answer'[c]]
BY DEF Serve, Answers, Break, Refuse, Authenticate, Version, Object, Permit, Resolve, Fail,
       Reply, Advance, End, IInv, TypeOK

LEMMA ViewIsRightful ==
    ASSUME NEW r, NEW p, NEW img, NEW env, NEW q \in View(r, p, img, env)
    PROVE  /\ q \in Loaded(img, env) /\ q.g \in Registered \ RestrictedGraph
           /\ q.g \in PurposeAllowed[PurposeOf(r, p)]
           /\ p.scopes # Unlimited => q.g \in p.scopes
           /\ {q.s, q.o} \cap RestrictedNodes(Loaded(img, env)) = {}
BY DEF View, StatementsIn, AllowedGraphs, Ok

LEMMA AnswerIsRightful ==
    ASSUME ServiceAssumption, IInv, [Next]_vars, NEW c \in Call
    PROVE  RightfulAnswer(c)
<1> DEFINE r == request[c]
           keys == LoadCredentials(environment)
           p == keys[r.key]
<1> SUFFICES ASSUME Answers(c), answer'[c] = "ok"
             PROVE  /\ r.key \in DOMAIN keys
                    /\ r.endpoint # "version" => MayUse(p, PurposeOf(r, p))
                    /\ ~ Reads(r) => seen'[c] = {}
                    /\ \A q \in seen'[c] :
                          /\ q \in Loaded(image, environment)
                          /\ q.g \in Registered \ RestrictedGraph
                          /\ q.g \in PurposeAllowed[PurposeOf(r, p)]
                          /\ p.scopes # Unlimited => q.g \in p.scopes
                          /\ {q.s, q.o} \cap RestrictedNodes(Loaded(image, environment)) = {}
  BY DEF RightfulAnswer
<1>1. Serve(c) /\ seen' = seen /\ c \in DOMAIN answer
  BY WhoAnswers, Answering DEF IInv, TypeOK
<1>2. Version(c) \/ Reply(c)
  <2>1. ~ Break(c) /\ ~ Refuse(c)
    BY <1>1 DEF Break, Refuse, End
  <2>2. ~ Object(c)
    BY <1>1, ObjectionType DEF Object, End, Outcome, Unmapped
  <2>3. ~ Fail(c)
    BY <1>1 DEF Fail, End
  <2> QED
    BY <1>1, <2>1, <2>2, <2>3, Answering
<1>3. CASE Version(c)
  BY <1>1, <1>3 DEF Version, IInv, Checked, Open, Reads
<1>4. CASE Reply(c)
  <2>1. /\ r.key \in DOMAIN keys /\ who[c] = p
        /\ r.endpoint # "version" /\ Objection(r, p) = "none"
        /\ seen[c] = IF r.endpoint = "pack" THEN {} ELSE View(r, p, image, environment)
    BY <1>4 DEF Reply, IInv, Checked, Open
  <2>2. MayUse(p, PurposeOf(r, p))
    BY <2>1 DEF Objection
  <2>3. r.endpoint \in {"version", "resolve", "render", "pack"}
    BY DEF IInv, TypeOK, ServiceAssumption, Request
  <2>4. ~ Reads(r) => seen'[c] = {}
    BY <1>1, <2>1, <2>3 DEF Reads
  <2>5. seen'[c] = {} \/ seen'[c] = View(r, p, image, environment)
    BY <1>1, <2>1
  <2> HIDE DEF r, keys, p
  <2> QED
    BY <2>1, <2>2, <2>4, <2>5, ViewIsRightful
<1> QED
  BY <1>2, <1>3, <1>4

\* An answer is within the rights that the keys of the running container give.
THEOREM DataIsRightful == ASSUME ServiceAssumption PROVE Spec => RightfulData
<1>1. IInv /\ [Next]_vars => [\A c \in Call : RightfulAnswer(c)]_vars
  BY AnswerIsRightful
<1> QED
  BY <1>1, Inductive, PTL DEF Spec, RightfulData

-----------------------------------------------------------------------------
\* The unrestricted principal is refused for no purpose, and for no scenario but
\* one it named itself.
LEMMA ObjectionToDefault ==
    ASSUME ServiceAssumption, NEW r \in Requests
    PROVE  /\ Objection(r, DefaultPrincipal) # "forbidden"
           /\ Objection(r, DefaultPrincipal) = "unknown_scenario" =>
                 r.scenario \notin {NoScenario} \cup DOMAIN Scenarios
<1>1. MayUse(DefaultPrincipal, PurposeOf(r, DefaultPrincipal))
  BY DEF MayUse, DefaultPrincipal
<1>2. ASSUME PurposeOf(r, DefaultPrincipal) = NoPurpose
      PROVE  r.scenario \notin {NoScenario} \cup DOMAIN Scenarios
  BY <1>2 DEF ServiceAssumption, PurposeOf, ResolvePurpose, DefaultPrincipal, Asked
<1> QED
  BY <1>1, <1>2 DEF Objection

LEMMA AnswerIsUnrestricted ==
    ASSUME ServiceAssumption, IInv, [Next]_vars, NEW c \in Call
    PROVE  UnrestrictedAnswer(c)
<1> DEFINE r == request[c]
<1> SUFFICES ASSUME Answers(c), r.key = environment.single, environment.single # NoKey
             PROVE  /\ answer'[c] \notin {"unauthenticated", "forbidden"}
                    /\ answer'[c] = "unknown_scenario" =>
                          r.scenario \notin {NoScenario} \cup DOMAIN Scenarios
                    /\ Reads(r) /\ answer'[c] = "ok" =>
                          seen'[c] = View(r, DefaultPrincipal, image, environment)
  BY DEF UnrestrictedAnswer, Status
<1>1. Serve(c) /\ seen' = seen /\ c \in DOMAIN answer /\ server[c] \in Worker /\ r \in Requests
  BY WhoAnswers, Answering DEF IInv, TypeOK
<1>2. /\ r.key \in DOMAIN LoadCredentials(environment)
      /\ LoadCredentials(environment)[r.key] = DefaultPrincipal
  BY SingleKey
<1>3. ~ Refuse(c)
  BY <1>1, <1>2 DEF Refuse, IInv, Checked, Current, Open
<1>4. ~ Break(c) => who[c] = DefaultPrincipal
  BY <1>1, <1>2, <1>3, Answering DEF Version, Object, Fail, Reply, IInv, Checked, Open
<1>0. CASE Break(c)
  BY <1>0, <1>1 DEF Break, End
<1>5. CASE Version(c)
  BY <1>1, <1>5 DEF Version, End, Reads
<1>6. CASE Object(c)
  <2>1. answer'[c] = Objection(r, DefaultPrincipal)
    <3>1. ~ Break(c)
      BY <1>6 DEF Break, Object
    <3> QED
      BY <1>1, <1>4, <1>6, <3>1 DEF Object, End
  <2> QED
    BY <1>1, <2>1, ObjectionToDefault, ObjectionType
<1>7. CASE Fail(c)
  BY <1>1, <1>7 DEF Fail, End
<1>8. CASE Reply(c)
  <2>1. answer'[c] \in {"ok"} \cup RenderErrors(r)
    BY <1>1, <1>8 DEF Reply, End
  <2>2. answer'[c] \notin {"unauthenticated", "forbidden", "unknown_scenario"}
    BY <2>1 DEF RenderErrors
  <2>3. Reads(r) => seen[c] = View(r, DefaultPrincipal, image, environment)
    BY <1>4, <1>8 DEF Break, Reply, IInv, Checked, Reads
  <2> QED
    BY <1>1, <2>2, <2>3
<1> QED
  BY <1>0, <1>1, <1>3, <1>5, <1>6, <1>7, <1>8, Answering

\* The single key is never refused or narrowed.
THEOREM SingleKeyIsUnrestricted == ASSUME ServiceAssumption PROVE Spec => SingleKeyWins
<1>1. IInv /\ [Next]_vars => [\A c \in Call : UnrestrictedAnswer(c)]_vars
  BY AnswerIsUnrestricted
<1> QED
  BY <1>1, Inductive, PTL DEF Spec, SingleKeyWins

-----------------------------------------------------------------------------
(* Calls between restarts.                                                  *)

Lost(c) == stage'[c] = "lost"

\* What an open call depends on does not change under it: only the end of its
\* worker does, and that loses the call.
CallKeepsContainer(c) ==
    stage[c] \in Open /\ ~ Lost(c) =>
        /\ UNCHANGED <<environment, image>>
        /\ request'[c] = request[c] /\ server'[c] = server[c]
        /\ running'[server[c]] /\ principals'[server[c]] = principals[server[c]]
        /\ tried'[server[c]] = tried[server[c]]
        /\ shacl'[server[c]] = shacl[server[c]] /\ ready'[server[c]] = ready[server[c]]
        /\ stage[c] # "sent" => who'[c] = who[c]

CallsKeepContainer == [][\A c \in Call : CallKeepsContainer(c)]_vars

\* The steps that are no call's.
LEMMA OperatorKeepsCall ==
    ASSUME ServiceAssumption, IInv, NEW c \in Call,
           Configure \/ Recreate \/ (\E w \in Worker : Boot(w) \/ Crash(w))
    PROVE  CallKeepsContainer(c)
<1> SUFFICES ASSUME stage[c] \in Open, ~ Lost(c)
             PROVE  /\ UNCHANGED <<environment, image>>
                    /\ request'[c] = request[c] /\ server'[c] = server[c]
                    /\ running'[server[c]] /\ principals'[server[c]] = principals[server[c]]
                    /\ tried'[server[c]] = tried[server[c]]
                    /\ shacl'[server[c]] = shacl[server[c]]
                    /\ ready'[server[c]] = ready[server[c]]
                    /\ who'[c] = who[c]
  BY DEF CallKeepsContainer
<1>1. running[server[c]] /\ server[c] \in Worker
  BY DEF IInv, TypeOK, Checked
<1>2. CASE Configure
  BY <1>1, <1>2 DEF Configure, workers, calls
<1>3. ASSUME NEW W \in SUBSET Worker, Kill(W)
      PROVE  /\ server[c] \notin W
             /\ request'[c] = request[c] /\ server'[c] = server[c] /\ who'[c] = who[c]
             /\ running'[server[c]] /\ principals'[server[c]] = principals[server[c]]
             /\ tried'[server[c]] = tried[server[c]]
             /\ shacl'[server[c]] = shacl[server[c]] /\ ready'[server[c]] = ready[server[c]]
  <2>1. server[c] \notin W
    BY <1>3 DEF Kill, Lost
  <2> QED
    BY <1>1, <1>3, <2>1 DEF Kill
<1>4. CASE Recreate
  BY <1>1, <1>3, <1>4 DEF Recreate
<1>5. ASSUME NEW w \in Worker, Crash(w)
      PROVE  /\ UNCHANGED <<environment, image>>
             /\ request'[c] = request[c] /\ server'[c] = server[c]
             /\ running'[server[c]] /\ principals'[server[c]] = principals[server[c]]
             /\ tried'[server[c]] = tried[server[c]]
             /\ shacl'[server[c]] = shacl[server[c]] /\ ready'[server[c]] = ready[server[c]]
             /\ who'[c] = who[c]
  BY <1>3, <1>5 DEF Crash, container
<1>6. ASSUME NEW w \in Worker, Boot(w)
      PROVE  /\ UNCHANGED <<environment, image>>
             /\ request'[c] = request[c] /\ server'[c] = server[c]
             /\ running'[server[c]] /\ principals'[server[c]] = principals[server[c]]
             /\ tried'[server[c]] = tried[server[c]]
             /\ shacl'[server[c]] = shacl[server[c]] /\ ready'[server[c]] = ready[server[c]]
             /\ who'[c] = who[c]
  <2>1. w # server[c]
    BY <1>1, <1>6 DEF Boot
  <2> QED
    BY <1>1, <1>6, <2>1 DEF Boot, container, calls, IInv, TypeOK
<1> QED
  BY <1>2, <1>4, <1>5, <1>6

LEMMA StepKeepsContainer ==
    ASSUME ServiceAssumption, IInv, [Next]_vars, NEW c \in Call
    PROVE  CallKeepsContainer(c)
<1>1. stage[c] \in Open => running[server[c]]
  BY DEF IInv, Checked
<1>2. CASE \E d \in Call, w \in Worker, r \in Requests : Send(d, w, r)
  <2>1. PICK d \in Call, w \in Worker, r \in Requests : Send(d, w, r)
    BY <1>2
  <2>2. d = c => stage[c] \notin Open
    BY <2>1 DEF Send, Open, Closed
  <2> QED
    BY <1>1, <2>1, <2>2 DEF Send, CallKeepsContainer, container, workers, IInv, TypeOK
<1>3. ASSUME NEW d \in Call, Serve(d)
      PROVE  CallKeepsContainer(c)
  <2>1. /\ UNCHANGED <<container, workers, request, server>>
        /\ d # c => who'[c] = who[c]
    BY <1>3, ServeFrame
  <2>2. stage[d] # "sent" => who' = who
    BY <1>3 DEF Serve, Break, Refuse, Authenticate, Version, Object, Permit, Resolve, Fail,
                Reply
  <2> QED
    BY <1>1, <2>1, <2>2 DEF CallKeepsContainer, container, workers
<1>4. CASE UNCHANGED vars
  BY <1>1, <1>4 DEF CallKeepsContainer, vars, container, workers, calls
<1> QED
  BY <1>2, <1>3, <1>4, OperatorKeepsCall DEF Next

\* Recreation, crash and restart of any worker lose a call or leave alone all it
\* depends on: no call is authenticated by one container and served by another
\* (create_app, docker-run.sh).
THEOREM NoCallAcrossContainers == ASSUME ServiceAssumption PROVE Spec => CallsKeepContainer
<1>1. IInv /\ [Next]_vars => [\A c \in Call : CallKeepsContainer(c)]_vars
  BY StepKeepsContainer
<1> QED
  BY <1>1, Inductive, PTL DEF Spec, CallsKeepContainer

\* Two calls for the same, in whichever workers, one perhaps restarted since, are
\* one principal's and read the same data.
WorkersAgree ==
    \A c, d \in Call :
        /\ stage[c] \in Open \ {"sent"} /\ stage[d] \in Open \ {"sent"}
        /\ request[c] = request[d]
        => /\ who[c] = who[d]
           /\ stage[c] = "resolved" /\ stage[d] = "resolved" => seen[c] = seen[d]

\* What a call is given does not depend on the worker that took it, although each
\* worker loads its keys and its dataset itself (create_app per worker).
THEOREM AnyWorkerWillDo == ASSUME ServiceAssumption PROVE Spec => []WorkersAgree
<1>1. IInv => WorkersAgree
  BY DEF IInv, Checked, WorkersAgree, Open
<1> QED
  BY <1>1, Inductive, PTL

-----------------------------------------------------------------------------
(* The life of a call.                                                      *)

Rank(s) ==
    CASE s = "sent" -> 4
      [] s = "authenticated" -> 3
      [] s = "permitted" -> 2
      [] s = "resolved" -> 1
      [] OTHER -> 0

CallGoesForward(c) ==
    /\ stage[c] \in Open =>
          stage'[c] = stage[c] \/ Rank(stage'[c]) < Rank(stage[c])
    /\ stage[c] \in Closed =>
          \/ stage'[c] = stage[c] /\ answer'[c] = answer[c]
          \/ stage'[c] = "sent" /\ answer'[c] = "pending"

\* No check of a call is made twice and none is undone; an answer given is not
\* taken back, and a lost call is answered only if it is sent again.
CallsGoForward == [][\A c \in Call : CallGoesForward(c)]_vars

LEMMA ServeGoesForward ==
    ASSUME ServiceAssumption, IInv, NEW c \in Call, Serve(c)
    PROVE  stage[c] \in Open /\ Rank(stage'[c]) < Rank(stage[c])
<1>0. c \in DOMAIN stage
  BY DEF IInv, TypeOK
<1> USE <1>0 DEF Advance, End, Rank, Open
<1>1. CASE Break(c) \/ Refuse(c) \/ Authenticate(c)
  BY <1>1 DEF Break, Refuse, Authenticate
<1>2. CASE Version(c) \/ Object(c) \/ Permit(c)
  BY <1>2 DEF Version, Object, Permit
<1>3. CASE Resolve(c) \/ Fail(c)
  BY <1>3 DEF Resolve, Fail
<1>4. CASE Reply(c)
  BY <1>4 DEF Reply
<1> QED
  BY <1>1, <1>2, <1>3, <1>4 DEF Serve

LEMMA StepGoesForward ==
    ASSUME ServiceAssumption, IInv, [Next]_vars, NEW c \in Call
    PROVE  CallGoesForward(c)
<1>0. c \in DOMAIN stage /\ c \in DOMAIN answer
  BY DEF IInv, TypeOK
<1>1. CASE UNCHANGED calls
  BY <1>1 DEF CallGoesForward, calls
<1>2. ASSUME NEW W \in SUBSET Worker, Kill(W)
      PROVE  CallGoesForward(c)
  BY <1>0, <1>2 DEF Kill, CallGoesForward, Rank, Open, Closed
<1>3. ASSUME NEW d \in Call, NEW w \in Worker, NEW r \in Requests, Send(d, w, r)
      PROVE  CallGoesForward(c)
  BY <1>0, <1>3 DEF Send, CallGoesForward, Open, Closed
<1>4. ASSUME NEW d \in Call, Serve(d)
      PROVE  CallGoesForward(c)
  <2>1. CASE d = c
    BY <1>4, <2>1, ServeGoesForward DEF CallGoesForward, Open, Closed
  <2>2. CASE d # c
    <3>1. stage'[c] = stage[c]
      BY <1>4, <2>2, ServeFrame
    <3>2. answer'[c] = answer[c]
      BY <1>0, <1>4, <2>2 DEF Serve, Break, Refuse, Authenticate, Version, Object, Permit,
                              Resolve, Fail, Reply, Advance, End, IInv, TypeOK
    <3> QED
      BY <3>1, <3>2 DEF CallGoesForward
  <2> QED
    BY <2>1, <2>2
<1> QED
  BY <1>1, <1>2, <1>3, <1>4 DEF Next, Configure, Recreate, Crash, Boot, vars

\* Every call goes through its checks once and in order, whatever the operator
\* and the other calls do (require_token, the handlers of server.py).
THEOREM ForwardOnly == ASSUME ServiceAssumption PROVE Spec => CallsGoForward
<1>1. IInv /\ [Next]_vars => [\A c \in Call : CallGoesForward(c)]_vars
  BY StepGoesForward
<1> QED
  BY <1>1, Inductive, PTL DEF Spec, CallsGoForward

-----------------------------------------------------------------------------
(* What is true of what the documentation says.                             *)

\* Tokens are compared, and one of them is not ASCII.
ComparedInVain(c) ==
    /\ request[c].key # NoKey
    /\ DOMAIN LoadCredentials(environment) # {}
    /\ ~ ({request[c].key} \cup DOMAIN LoadCredentials(environment) \subseteq Ascii)

UntracedCause(c) ==
    \/ request[c].form = "ill_typed"
    \/ image.dates = "naive"
    \/ request[c].mode = "llm_required"
    \/ ComparedInVain(c)

\* The answers without a request id have four causes: a field that no model of
\* the request checks, dates in the data that cannot be compared, a polish that
\* was required and failed, and a token, sent or configured, that is not ASCII.
\* Every other answer is traced.
FewUntraced ==
    [][\A c \in Call : Answers(c) /\ answer'[c] \in Unmapped => UntracedCause(c)]_vars

\* The keys a worker tries are the keys it loaded: the order loses none.
LEMMA TriedKeys ==
    ASSUME ServiceAssumption, NEW env \in Environments
    PROVE  {Tried(env)[i] : i \in 1..Len(Tried(env))} = DOMAIN LoadCredentials(env)
<1> DEFINE listed == env.listed
           added == IF env.single \in {NoKey} \cup DOMAIN env.multi THEN <<>> ELSE <<env.single>>
<1>1. /\ listed \in Seq(Key) /\ env.single \in Key \cup {NoKey}
      /\ {listed[i] : i \in 1..Len(listed)} = DOMAIN env.multi
  BY DEF ServiceAssumption, IsEnvironment
<1>2. DOMAIN LoadCredentials(env) = DOMAIN env.multi \cup ({env.single} \ {NoKey})
  BY DEF LoadCredentials
<1>3. CASE env.single \in {NoKey} \cup DOMAIN env.multi
  <2>1. Tried(env) = listed
    BY <1>1, <1>3 DEF Tried
  <2> QED
    BY <1>1, <1>2, <1>3, <2>1
<1>4. CASE env.single \notin {NoKey} \cup DOMAIN env.multi
  <2>1. Tried(env) = Append(listed, env.single)
    BY <1>1, <1>4 DEF Tried
  <2>2. /\ Len(Tried(env)) = Len(listed) + 1 /\ Len(listed) \in Nat
        /\ \A i \in 1..Len(listed) : Tried(env)[i] = listed[i]
        /\ Tried(env)[Len(listed) + 1] = env.single
    BY <1>1, <1>4, <2>1
  <2>3. {Tried(env)[i] : i \in 1..(Len(listed) + 1)}
          = {listed[i] : i \in 1..Len(listed)} \cup {env.single}
    BY <2>2
  <2> QED
    BY <1>1, <1>2, <1>4, <2>2, <2>3
<1> QED
  BY <1>3, <1>4

\* EveryAnswerTraced fails for these causes only (the handlers of server.py and
\* the errors they map).
THEOREM TracedOtherwise == ASSUME ServiceAssumption PROVE Spec => FewUntraced
<1>1. ASSUME ServiceAssumption, IInv, [Next]_vars, NEW c \in Call,
             Answers(c), answer'[c] \in Unmapped
      PROVE  UntracedCause(c)
  <2>1. Serve(c) /\ c \in DOMAIN answer
    BY <1>1, WhoAnswers DEF IInv, TypeOK
  <2>0. CASE Break(c)
    <3>1. /\ stage[c] = "sent" /\ server[c] \in Worker /\ running[server[c]]
          /\ environment \in Environments
      BY <1>1, <2>0 DEF Break, IInv, TypeOK, Checked, Open
    <3>2. tried[server[c]] = Tried(environment)
      BY <1>1, <3>1 DEF IInv, Current
    <3>3. PICK i \in 1..Len(Tried(environment)) :
             ~ ({request[c].key, Tried(environment)[i]} \subseteq Ascii)
      BY <2>0, <3>2 DEF Break, Incomparable
    <3>4. Tried(environment)[i] \in DOMAIN LoadCredentials(environment)
      BY <1>1, <3>1, TriedKeys
    <3>5. request[c].key # NoKey
      BY <2>0 DEF Break, Incomparable
    <3> QED
      BY <3>3, <3>4, <3>5 DEF UntracedCause, ComparedInVain
  <2>2. ~ Refuse(c) /\ ~ Version(c)
    BY <1>1, <2>1 DEF Refuse, Version, End, Unmapped
  <2>3. CASE Object(c)
    <3>1. Objection(request[c], who[c]) \in Unmapped
      BY <1>1, <2>1, <2>3 DEF Object, End
    <3>2. request[c].form = "ill_typed"
      BY <3>1 DEF Objection, Unmapped
    <3> QED
      BY <3>2 DEF UntracedCause
  <2>4. CASE Fail(c)
    BY <1>1, <2>1, <2>4 DEF Fail, End, Unmapped, UntracedCause
  <2>5. CASE Reply(c)
    BY <1>1, <2>1, <2>5 DEF Reply, End, RenderErrors, Unmapped, UntracedCause
  <2> QED
    BY <1>1, <2>0, <2>1, <2>2, <2>3, <2>4, <2>5, Answering
<1>2. IInv /\ [Next]_vars =>
        [\A c \in Call : Answers(c) /\ answer'[c] \in Unmapped => UntracedCause(c)]_vars
  BY <1>1
<1> QED
  BY <1>2, Inductive, PTL DEF Spec, FewUntraced
=============================================================================
