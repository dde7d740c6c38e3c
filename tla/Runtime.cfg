CONSTANTS
    Nodes <- MCNodes
    Requested <- MCRequested
    Allow <- MCAllow
    LegalContainers <- MCLegalContainers
    LegalTexts <- MCLegalTexts
    SharedObjects <- MCSharedObjects
    Archives <- MCArchives
    Before <- MCBefore
    Trees <- MCTrees
    Outputs <- MCOutputs
    Changes = 1
    Parts = {"profile", "publish", "index", "prune", "rules"}
INIT MCInit
NEXT MCNext
CHECK_DEADLOCK FALSE
INVARIANTS
    ShipsWhole
    VerifierAgrees
    PublishedSound
    PruneAccounts
    RulesAgree
PROPERTY
    GivesTheRest
