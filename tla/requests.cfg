\* See README.md for what this run shows.
CONSTANTS
    legs = legs
    chain = chain
    quotes = quotes
    account = account
    poll = poll
    rpc = rpc
    init = init
    main = main
    May = May
    June = June
    Spy = Spy
    Summary = Summary
    PnL = PnL
    Executions = Executions
    call = call
    put = put
    last = last
    mayCall = mayCall
    mayPut = mayPut
    juneCall = juneCall
    junePut = junePut
    spy = spy
    Calls = {chain, legs, quotes, account}
    Threads = {rpc, init, main}
    ThreadOf <- ThreadsOfCalls
    KindOf <- Kinds
    Asks <- Asked
    Keys = {May, June, Spy, Summary, PnL, Executions}
    TypeOf <- Types
    Answers <- Said
    StrikeOf <- StrikesOfAnswers
    Legs <- LegsOf
    FirstId <- First
    MaxId = 6
    Budget <- Once
    NoKey = NoKey
    NoCall = NoCall
SPECIFICATION Spec
INVARIANTS TypeOK IdsStand OneSubscription LegsFound
CONSTRAINT InOrder
PROPERTIES ReaderSurvives
CHECK_DEADLOCK FALSE
