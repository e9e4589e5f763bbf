SPECIFICATION Spec
CONSTANTS
    MaxForks = 2
    MaxOut = 2
INVARIANTS
    ExecIsAuthorised
    ResponseTruthful
PROPERTY
    Answered
