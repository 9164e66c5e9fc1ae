\* Attempts through one builder, with and without a failedCallback.
SPECIFICATION BuilderSpec
CONSTANTS
    Attempts = {a1, a2}
    None = None
INVARIANTS
    SecondAnswerIsTheTimers
    TerminatedByCallback
    SessionsPaired
PROPERTIES
    Answered
CHECK_DEADLOCK FALSE
