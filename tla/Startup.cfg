CONSTANTS
    JNI_VERSION_1_6 = 65542

SPECIFICATION Spec

INVARIANT StartupAllOrNothing
