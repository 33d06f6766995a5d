\* A pipeline that is built into an artifact and run there.
INIT Init
NEXT Next
CONSTANTS
    Words = {"p", "v", "x", "e", "7", ""}
    Texts <- SampleTexts
    Resolvers <- SampleResolvers
    Specs <- SampleSpecs
INVARIANTS SecondPassFinishes
