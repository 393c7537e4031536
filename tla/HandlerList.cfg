CONSTANTS
    HNDL_LIST = 1
    ListSize = 1
    InfoSize = 6
    NameOffset = 6
    Ids = {1, 5, 300}
    Names <- MCNames
    Codes = {1, 2}
    MaxHandlers = 3
SPECIFICATION Spec
INVARIANT ListingRoundTrip
