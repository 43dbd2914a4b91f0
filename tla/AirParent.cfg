SPECIFICATION JoinSpec
INVARIANTS ConfirmedTaken
CHECK_DEADLOCK FALSE
