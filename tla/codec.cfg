\* Every packet of up to two options, cut at every length.
SPECIFICATION Spec
CONSTANTS
    Base = 8
    Strings <- SomeStrings
    MaxOptions = 2
INVARIANTS TypeOK RoundTrip CutIsSafe
