SPECIFICATION FairSpec
CONSTANTS
    h1 = h1
    h2 = h2
    Handlers = {h1, h2}
    Deployments <- McDeployments
    Requests <- McRequests
    Answers <- McAnswers
    Names <- McNames
    Payloads <- McPayloads
    Results <- McResults
    Allocations <- McAllocations
INVARIANTS
    OnlyAdmittedLearn
    OutageIsNotRefusal
    ReplayGap
    GrantsAreEarned
    FetchesWithinPolicy
    ReferencesHold
    SameOnEveryTransport
PROPERTY RequestsEnd
CHECK_DEADLOCK FALSE
