\* An issue and a gap, three partitions, four statuses, bounds before and after.
CONSTANTS
    issue = issue
    gap = gap
    label = label
    confirmed = confirmed
    candidate = candidate
    provenance = provenance
    hasContextGap = hasContextGap
    displayName = displayName
    confirmsEntity = confirmsEntity
    decisionPreparation = decisionPreparation
    missionReview = missionReview
    ContextGap = ContextGap
    Archived = Archived
    Candidate = Candidate
    Confirmed = Confirmed
    PreliminarilyConfirmed = PreliminarilyConfirmed
    NoStatus = NoStatus
    derived = derived
    ConfirmedEnterprise = confirmed
    CandidateAndDispute = candidate
    DecisionProvenance = provenance
    DerivedContext = derived
    rdfType = rdfType
    hasConfirmationStatus = hasConfirmationStatus
    validFrom = validFrom
    validUntil = validUntil
    ProofPredicate = {confirmsEntity}
    Time <- MCTime
    StatusRank <- MCStatusRank
    Node = {issue, gap, ContextGap}
    Literal <- MCLiteral
    Graph = {confirmed, candidate, provenance, derived}
    Predicate = {hasContextGap, displayName, confirmsEntity, rdfType, hasConfirmationStatus, validFrom, validUntil}
    Traversal = {hasContextGap, confirmsEntity}
    Naming = {displayName}
    Registered = {confirmed, candidate, provenance}
    RestrictedGraph = {}
    Purpose = {decisionPreparation, missionReview}
    PurposeAllowed <- MCPurposeAllowed
    Unlimited = Unlimited
    MaxDepth = 1
    Datasets <- MCDatasets
    Requests <- MCRequests

SPECIFICATION Spec

INVARIANTS
    IInv
    EachPartOnce
    GatedViewsAreAdmissible
    TypesStayHome
    PartitionsApart
    GapsAreCandidates
