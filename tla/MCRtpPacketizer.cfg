SPECIFICATION Spec
CONSTANTS
    MaxPayload = 4
    MaxLength = 14
    Headers <- SomeHeaders
    SeqModulus = 8
INVARIANTS
    FragmentsWellFormed
    EveryByteOnce
CHECK_DEADLOCK FALSE
