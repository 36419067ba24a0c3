\* Ten members in two partitions; floors lie between 450 and 1100.
CONSTANTS
    root = root
    other = other
    gap = gap
    goal = goal
    risk = risk
    choice = choice
    record = record
    need = need
    skill = skill
    proof = proof
    confirmed = confirmed
    candidate = candidate
    Member = {root, other, gap, goal, risk, choice, record, need, skill, proof}
    Partition = {confirmed, candidate}
    Packs <- MCPacks
    Budgets <- MCBudgets
    SummaryText = 15
    RoleText <- MCRoleText
    Overhead = 350
    None = None

SPECIFICATION FairSpec

INVARIANTS
    IInv
    FitsBudget
    MandatoryKept
    NothingVanishes
    RelatedIssueInBody
    GapsReported
    RootWhole
    ReclaimedInSlotOrder
PROPERTIES
    Terminates
    Implements
