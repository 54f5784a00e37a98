\* Up to two calls that fail or crashes, with and without the join.
SPECIFICATION FairSpec
CONSTANTS
    Input <- TwoRecords
    EndOfStream = 9
    SinkTopics <- BothTopics
    MaxFaults = 2
INVARIANTS
    TypeOK
    RecordsSkipNothing
    WatermarksKeepTheirPromise
    WatermarksRise
    EndMeansEverything
PROPERTIES
    EndReachesSink
