SPECIFICATION RuleSpec
CONSTANTS
    None = None
    Fails = Fails
    Bad = Bad
    Stocks <- MCStocks
    MaxCandidates = 3
    MarketCases <- MCMarketCases
    CloseCases <- MCCloseCases
    HoldingCases <- MCHoldingCases
    AdviceCases <- MCAdviceCases
    LeaderCases <- MCLeaderCases
    WeekCases <- MCWeekCases
    FlowCases <- MCFlowCases
    PlanCases <- MCPlanCases
    RunCases <- MCRunCases
    StockCases <- MCStockCases
    UniverseCases <- MCUniverseCases
    Policy <- MCPolicy
CHECK_DEADLOCK FALSE
INVARIANTS
    BriefingJudged
    HoldingsAdvised
    ChosenAreBest
    NoLookAhead
    PlanIsExact
