\* Close-out, expiry and recovery actually happen under a fair clock, keeper and lender.
SPECIFICATION FairSpec
CONSTANTS
    BPS_DENOMINATOR = 10000
    SECONDS_PER_YEAR = 4
    AssetScale = 1
    SettlementScale = 1
    PriceScale = 4
    Account <- MCAccount
    NoAccount = "none"
    OfferIds = {1}
    PositionIds = {1}
    AuctionIds = {1}
    References = {1}
    MarginIds = {}
    InitialCva <- ThreeCva
    InitialCash <- MCInitialCash
    RiskConfigs = {}
    InitialRisk <- QuickRisk
    InitialPending = {}
    ConfigDelay = 0
    MaxPeriod = 30
    Prices = {1, 8}
    Validity = {3}
    SettlementTokens = {"usdc"}
    MarketToken = "usdc"
    Owner = "treasury"
    ProtocolFeeBps = 3000
    GracePeriod = 1
    AllowedDurations = {1, 2}
    MaxOfferLifetime = 3
    OfferParams <- GovernedOffers
    Vault = "vault"
    Escrow = "escrow"
    SettlementListed = TRUE
    CustodyRecorded = TRUE
    Api <- OpenApi
    Predeployed = TRUE
    Amounts = {3}
    ClaimAmounts = {}
    Limits = {50}
    Recipients <- MCAccount
    Suspendable = {"lender"}
    Appointees = {}
    MaxTime = 7
    EntryHorizon = 1
    MaxInterventions = 1
PROPERTIES
    OffersClose
    CloseoutEnds
    ImplementsCustody
CHECK_DEADLOCK FALSE
