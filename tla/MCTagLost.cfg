\* The same packs: a line that loses its status tag.
CONSTANTS
    root = root
    goal = goal
    risk = risk
    delay = delay
    confirmed = confirmed
    candidate = candidate
    gConfirmed = gConfirmed
    gCandidate = gCandidate
    extra = extra
    tCandidate = tCandidate
    Member = {root, goal, risk, delay}
    Partition = {confirmed, candidate}
    Packs <- MCPacks
    Budgets = {500, 680, 12000}
    SummaryText = 15
    RoleText <- MCRoleText
    Slot <- MCSlot
    Source = {gConfirmed, gCandidate}
    unknown = unknown
    NoTag = NoTag
    SourceOf <- MCSourceOf
    TagOf <- MCTagOf
    Rewrites <- MCRewrites
    MaxRetries = 1

SPECIFICATION Spec

INVARIANT
    TagsPreserved
