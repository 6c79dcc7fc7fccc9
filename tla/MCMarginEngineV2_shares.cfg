\* One netting set of three lenders, sold or failed, claimed in every order.
SPECIFICATION Spec
CONSTANTS
    BPS_DENOMINATOR = 10000
    SECONDS_PER_YEAR = 4
    AssetScale = 1
    SettlementScale = 1
    PriceScale = 4
    Account <- MCAccount
    NoAccount = "none"
    OfferIds = {}
    PositionIds = {}
    AuctionIds = {1, 11}
    IN_KIND_AUCTION_OFFSET = 10
    MarginIds = {1}
    References = {1}
    ExposureIds = {1, 2, 3}
    InitialCva <- MCInitialCva
    InitialCash <- MCInitialCash
    RiskConfigs = {}
    InitialRisk <- MarginRisk
    InitialPending = {}
    ConfigDelay = 0
    MaxPeriod = 30
    Prices = {8, 32}
    Validity = {2}
    SettlementTokens = {"usdc"}
    MarketToken = "usdc"
    Owner = "treasury"
    FeeTreasury = "treasury"
    ProtocolFeeBps = 0
    GracePeriod = 1
    MaxFundingWindow = 3
    AccountParams <- ThreeFills
    Vault = "vault"
    Escrow = "escrow"
    SettlementListed = TRUE
    CustodyRecorded = TRUE
    Api <- MCApi
    Rates = {4000}
    Amounts = {2}
    ClaimAmounts = {3}
    Limits = {50}
    Recipients = {"lender"}
    Suspendable = {}
    MaxTime = 5
    EntryHorizon = 1
    MaxInterventions = 0
INVARIANTS
    SharesAreBacked
PROPERTIES
    PariPassu
CHECK_DEADLOCK FALSE
