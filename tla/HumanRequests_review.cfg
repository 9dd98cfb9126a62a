SPECIFICATION QuestionSpec
CONSTANTS MaxRuns=2
 MaxCalls=2
CHECK_DEADLOCK FALSE
PROPERTY HandledReviewStands
