\* Every list of a few short texts; a reader stops at the end of its document.
CONSTANTS
    KeywordLists <- AllKeywords
    ExampleLists <- AllExamples
CHECK_DEADLOCK FALSE
SPECIFICATION FairSpec
INVARIANTS
    TypeOK
    ReadSoFar
PROPERTIES
    PublishedIsRead
