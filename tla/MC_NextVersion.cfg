\* Prefixes up to 40 cross 9 -> 10, where an unpadded prefix would sort
\* before its predecessor; 40 + 1 < 10^2 keeps the 2-digit width.
CONSTANTS
    Width = 2
    SuffixWidth = 6
    Floats <- MCFloats
    MaxPrefix = 40

SPECIFICATION Spec
INVARIANT PrefixRoundTrip
PROPERTY VersionsIncrease
CHECK_DEADLOCK FALSE
