SPECIFICATION Spec
CONSTANTS
    Kibi = 4
    Kilo = 3
    Milli = 10
    Calls = {c1, c2}
    Requests <- MCRequests
    Raws <- MCRaws
    MemoryRatio <- MCMemoryRatio
    CpuRatio <- MCCpuRatio
    MaxVersion = 2
    MaxLabel = 3
INVARIANTS
    TypeOK
    NoMixedCertificates
    RequestsFit
    NamesSurvive
    QuotaIsExplained
PROPERTY PollEnds
