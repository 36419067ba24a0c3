CONSTANTS
    risk = risk
    person = person
    name = name
    theLabel = theLabel
    linked = linked
    confirmed = confirmed
    candidate = candidate
    sensitive = sensitive
    unregistered = unregistered
    decisionPreparation = decisionPreparation
    missionReview = missionReview
    mystery = mystery
    followup = followup
    unknownScenario = unknownScenario
    shared = shared
    scoped = scoped
    stranger = stranger
    accented = accented
    Node = {risk, person}
    Literal = {theLabel}
    Graph = {confirmed, candidate, sensitive, unregistered}
    Predicate = {name, linked}
    Traversal = {linked}
    Naming = {name}
    Registered = {confirmed, candidate, sensitive}
    RestrictedGraph = {sensitive}
    Purpose = {decisionPreparation, missionReview}
    PurposeAllowed <- MCPurposeAllowed
    Unlimited = Unlimited
    Worker = {w1, w2}
    Call = {c1}
    Key = {shared, scoped, stranger, accented}
    Ascii = {shared, scoped, stranger}
    NoKey = NoKey
    OtherPurpose = {mystery}
    AnyPurpose = AnyPurpose
    NoPurpose = NoPurpose
    DefaultPurpose = decisionPreparation
    Scenario = {followup, unknownScenario}
    NoScenario = NoScenario
    Scenarios <- MCScenarios
    Environments <- MCEnvironments
    Images <- MCImages
    Requests <- MCRequests
    nobody = nobody

SPECIFICATION Spec

INVARIANTS
    EveryAnswerTraced
