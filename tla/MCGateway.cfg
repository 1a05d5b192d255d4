\* Every provider and both stores, three requests at once; a crash.
SPECIFICATION Spec
CONSTANTS
    Lowered <- MCLowered
    Rank <- MCRank
    Static <- MCStatic
    Oidc <- MCOidc
    Now = 8
    Missions = {"m1", "m2"}
    EventIds <- MCEventIds
    BatchSize = 2
    DefaultCollectionLimit = 1
    MaxCollectionLimit = 2
    CreateRequests <- MCCreateRequests
    ResolveRequests <- MCResolveRequests
    Webhooks <- MCWebhooks
    Checks <- MCChecks
    DeliveryIds = {1, 2}
    TicketStates = {"resolved", "reopened"}
    Decisions = {"allow", "require_refresh"}
    Nothing = Nothing
    Deployments <- MCDeployments
    MaxRequests = 3
    Tenants = {"acme", "Acme", "other"}
    BindingIds = {1, 2}
    AgentRequests <- MCAgentRequests
INVARIANTS
    TypeOK
    
    EvaluatedUnderBinding
    OneBindingPerRequest
    
    CheckSound
    EffectsAuthorised
    
    PagesCoverLedger
PROPERTIES
    FeedSpec
    InboxSpec
CHECK_DEADLOCK FALSE
