\* A root, a chain of three more resources, four partitions, two purposes.
CONSTANTS
    issue = issue
    risk = risk
    gap = gap
    far = far
    label = label
    confirmed = confirmed
    candidate = candidate
    sensitive = sensitive
    unregistered = unregistered
    relates = relates
    displayName = displayName
    hasStatus = hasStatus
    decisionPreparation = decisionPreparation
    missionReview = missionReview
    Node = {issue, risk, gap, far}
    Literal = {label}
    Graph = {confirmed, candidate, sensitive, unregistered}
    Predicate = {relates, displayName, hasStatus}
    Traversal = {relates}
    Naming = {displayName}
    Registered = {confirmed, candidate, sensitive}
    RestrictedGraph = {sensitive}
    Purpose = {decisionPreparation, missionReview}
    PurposeAllowed <- MCPurposeAllowed
    Unlimited = Unlimited
    MaxDepth = 2
    Datasets <- MCDatasets

SPECIFICATION FairSpec

INVARIANTS
    IInv
    ExactAnswer
    NothingRestricted
    ScopesOnlyNarrow
PROPERTIES
    BreadthFirst
    Terminates
    Implements
