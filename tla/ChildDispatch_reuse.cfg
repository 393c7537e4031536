CONSTANTS
    Ids = {1, 2}
    MaxChildren = 3
    MaxMsgs = 3
    ReuseIds = TRUE

SPECIFICATION Spec

INVARIANT RoutedToProducer
