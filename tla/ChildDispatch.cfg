CONSTANTS
    Ids = {1, 2, 3}
    MaxChildren = 3
    MaxMsgs = 3
    ReuseIds = FALSE

SPECIFICATION Spec

INVARIANT RoutedToProducer
