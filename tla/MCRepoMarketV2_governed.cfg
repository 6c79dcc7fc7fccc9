\* One position through its life while governance, the oracle and compliance change.
SPECIFICATION Spec
CONSTANTS
    BPS_DENOMINATOR = 10000
    SECONDS_PER_YEAR = 4
    AssetScale = 1
    SettlementScale = 1
    PriceScale = 4
    Account <- MCAccount
    NoAccount = "none"
    OfferIds = {1}
    PositionIds = {1}
    AuctionIds = {1}
    References = {1}
    MarginIds = {}
    InitialCva <- ThreeCva
    InitialCash <- MCInitialCash
    RiskConfigs <- MCRiskConfigs
    InitialRisk <- QuickRisk
    InitialPending = {}
    ConfigDelay = 0
    MaxPeriod = 30
    Prices = {1, 8}
    Validity = {3}
    SettlementTokens = {"usdc"}
    MarketToken = "usdc"
    Owner = "treasury"
    ProtocolFeeBps = 3000
    GracePeriod = 1
    AllowedDurations = {1, 2}
    MaxOfferLifetime = 3
    OfferParams <- GovernedOffers
    Vault = "vault"
    Escrow = "escrow"
    SettlementListed = FALSE
    CustodyRecorded = TRUE
    Api <- OpenApi
    Predeployed = FALSE
    Amounts = {3}
    ClaimAmounts = {1}
    Limits = {50}
    Recipients = {"lender"}
    Suspendable = {"lender"}
    Appointees = {"lender"}
    MaxTime = 6
    EntryHorizon = 1
    MaxInterventions = 4
INVARIANTS
    CloseoutOnFillTerms
    WaysOutStayOpen
    BooksBalance
    ApprovedCallsExecute
PROPERTIES
    RepaidInFull
    PreflightKeepsExitsOpen
CHECK_DEADLOCK FALSE
