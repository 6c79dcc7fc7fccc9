SPECIFICATION FairSpec
CONSTANTS
    Account = {A, B, C, D}
    NoAccount = NoAccount
    AuctionIds = {}
    Prices = {1, 2}
    Validity = {3}
    SettlementTokens = {usd}
    MarketToken = usd
    RotationDelay = 1
    FirstSigners = {A, B, C}
    NextSigners = {{A, C, D}}
    Nonces = {2, 3}
    HeartbeatSigners = {A, B}
    HeartbeatPrice = 1
    HeartbeatInterval = 2
    HeartbeatValidity = 3
    Unread = Unread
    ObservationLags = {0}
    MaxTime = 4
    MaxProposals = 1
    MaxPending = 2
    MaxOwnerCalls = 1
    MaxRestarts = 1
PROPERTIES ImplementsFeed LateHeartbeatNeverReprices TwoLiveSigners HeartbeatKeepsUp
CHECK_DEADLOCK FALSE
