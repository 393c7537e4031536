CONSTANTS
    c1 = c1
    c2 = c2
    c3 = c3
    c4 = c4
    CTRL = CTRL
    NoChild = NoChild
    ChildIds <- MCChildIds
    ChildHandler <- MCChildHandler
    HaveStdout <- MCHaveStdout
    AttachMayFail = FALSE
    MaxEpochs = 2
    MaxMsgs = 3

SPECIFICATION Spec

INVARIANT NoStaleDispatch
