\* One netting set to its end while governance, the oracle and compliance change.
SPECIFICATION Spec
CONSTANTS
    BPS_DENOMINATOR = 10000
    SECONDS_PER_YEAR = 4
    AssetScale = 1
    SettlementScale = 1
    PriceScale = 4
    Account <- MCAccount
    NoAccount = "none"
    OfferIds = {}
    PositionIds = {}
    AuctionIds = {1, 11}
    IN_KIND_AUCTION_OFFSET = 10
    MarginIds = {1}
    References = {1}
    ExposureIds = {1, 2}
    InitialCva <- MCInitialCva
    InitialCash <- MCInitialCash
    RiskConfigs <- MCRiskConfigs
    InitialRisk <- MarginRisk
    InitialPending <- TighteningScheduled
    ConfigDelay = 0
    MaxPeriod = 30
    Prices = {16, 32}
    Validity = {1}
    SettlementTokens = {"usdc"}
    MarketToken = "usdc"
    Owner = "treasury"
    FeeTreasury = "treasury"
    ProtocolFeeBps = 0
    GracePeriod = 1
    MaxFundingWindow = 3
    AccountParams <- OneUnitMandates
    Vault = "vault"
    Escrow = "escrow"
    SettlementListed = TRUE
    CustodyRecorded = TRUE
    Api <- MCApi
    Rates = {4000}
    Amounts = {1}
    ClaimAmounts = {}
    Limits = {50}
    Recipients = {"lender"}
    Suspendable = {"lender"}
    MaxTime = 6
    EntryHorizon = 1
    MaxInterventions = 1
INVARIANTS
    ApprovedFundingExecutes
    NobodyIsLockedIn
    MarginBooks
PROPERTIES
    CollateralIsKept
    OnlyEmptyClaimsRefused
CHECK_DEADLOCK FALSE
