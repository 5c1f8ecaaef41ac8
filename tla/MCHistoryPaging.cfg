SPECIFICATION FairSpec
CONSTANTS
    Past = {0, 3}
    MaxLog = 4
    MaxNotices = 3
    MaxItems = 3
    HistoryCapacity = 2
    Limit = 2
    QueueCapacity = 2
    SizeOf <- MCSizeOf
    Budget = 8
CHECK_DEADLOCK FALSE
  
PROPERTIES PagesToStart
