CONSTANTS
    Precision = 8
    Widths <- MCWidths
SPECIFICATION Spec
INVARIANTS
    TypeOK
    EncoderIsMorton
    BoxInsideRange
