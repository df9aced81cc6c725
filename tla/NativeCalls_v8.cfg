CONSTANTS
    Half = 8
    MaxErrno = 2
SPECIFICATION NativeSpec
INVARIANTS
    ErrorsAreNegative
