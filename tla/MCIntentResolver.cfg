\* Three resources and one that is never named, three partitions, two purposes.
CONSTANTS
    cap = cap
    riskA = riskA
    riskB = riskB
    nobody = nobody
    hub = hub
    launch = launch
    launchToo = launchToo
    delay = delay
    capClass = capClass
    riskClass = riskClass
    confirmed = confirmed
    candidate = candidate
    sensitive = sensitive
    decisionPreparation = decisionPreparation
    missionReview = missionReview
    fHu = fHu
    fUb = fUb
    fLa = fLa
    fUn = fUn
    fDe = fDe
    fXx = fXx
    tHub = tHub
    tNew = tNew
    displayName = displayName
    scopeDescription = scopeDescription
    objectId = objectId
    rdfType = rdfType
    Node = {cap, riskA, riskB, nobody}
    Literal = {hub, launch, launchToo, delay, capClass, riskClass}
    Graph = {confirmed, candidate, sensitive}
    Predicate = {displayName, scopeDescription, objectId, rdfType}
    Traversal = {}
    Naming = {displayName, scopeDescription, objectId}
    Registered = {confirmed, candidate, sensitive}
    RestrictedGraph = {sensitive}
    Purpose = {decisionPreparation, missionReview}
    PurposeAllowed <- MCPurposeAllowed
    Unlimited = Unlimited
    Datasets <- MCDatasets
    Queries <- MCQueries
    Fragment = {fHu, fUb, fLa, fUn, fDe, fXx}
    Token = {tHub, tNew}
    FragmentsIn <- MCFragmentsIn
    TokensIn <- MCTokensIn
    RoleTable <- MCRoleTable
    NoTrigger = NoTrigger
    Place <- MCPlace
    ExactBase = 100
    TokenWeight = 30
    Boost = 5
    MaxCandidates = 2

SPECIFICATION Spec

INVARIANTS
    IInv
    NoGuess
    KnownTopicsOnly
    NothingInvisibleNamed
PROPERTIES
    Implements
