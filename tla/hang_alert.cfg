SPECIFICATION Spec
CONSTANTS
    RpcTimeout = 2
    ScrapeTimeout = 4
    ScrapeInterval = 6
    GiveUpAfter = 4
    EvalInterval = 6
    AlertFor = 48
    Calls = 3
PROPERTIES
    SilentNodeIsDown
