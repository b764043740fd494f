\* Up to three lines; the server dies up to twice.
SPECIFICATION ProxySpec
CONSTANTS
    Inputs <- MCInputs
    MaxCrashes = 2
CHECK_DEADLOCK FALSE
INVARIANT AtMostOnce
 
