SPECIFICATION Spec
CONSTANTS
    TextSizes <- MCTextSizes
    DataSizes <- MCDataSizes
    MaxText <- MCMaxText
    MaxData <- MCMaxData
INVARIANTS
    AssertElfBuilder
    SegmentsApart
CHECK_DEADLOCK FALSE
