\* Two offers in turn, filled in parts: repayment, default, auction and recovery in kind of two
\* positions under a moving oracle.
SPECIFICATION Spec
CONSTANTS
    BPS_DENOMINATOR = 10000
    SECONDS_PER_YEAR = 4
    AssetScale = 1
    SettlementScale = 1
    PriceScale = 4
    Account <- MCAccount
    NoAccount = "none"
    OfferIds = {1, 2}
    PositionIds = {1, 2}
    AuctionIds = {1, 2}
    References = {1, 2}
    MarginIds = {}
    InitialCva <- MCInitialCva
    InitialCash <- MCInitialCash
    RiskConfigs = {}
    InitialRisk <- BaseRisk
    InitialPending = {}
    ConfigDelay = 0
    MaxPeriod = 30
    Prices = {1, 8}
    Validity = {3}
    SettlementTokens = {"usdc"}
    MarketToken = "usdc"
    Owner = "treasury"
    ProtocolFeeBps = 2000
    GracePeriod = 1
    AllowedDurations = {1, 2}
    MaxOfferLifetime = 3
    OfferParams <- CloseoutOffers
    Vault = "vault"
    Escrow = "escrow"
    SettlementListed = TRUE
    CustodyRecorded = TRUE
    Api <- ClosedApi
    Predeployed = TRUE
    Amounts = {6}
    ClaimAmounts = {}
    Limits = {50}
    Recipients = {"lender"}
    Suspendable = {"lender"}
    Appointees = {"lender"}
    MaxTime = 7
    EntryHorizon = 1
    MaxInterventions = 0
INVARIANTS
    CustodyMatchesStatus
    AuctionAgreement
    FillsAreCumulative
    QuotesMatchContract
PROPERTIES
    LenderIsSenior
    CollateralExit
    PayoffNeverFalls
CHECK_DEADLOCK FALSE
