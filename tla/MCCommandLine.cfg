\* Every command line of up to six of seven words; counts of up to three
\* characters, around a largest size of 100; systems of up to five characters.
CONSTANTS
    Argvs <- SomeArgv
    MaxSize = 100
    Hardware = {0, 2}
    Git <- GitRefs
    WithUrl <- UrlRefs
    FileUrl <- FileRefs
    None = None
SPECIFICATION Spec
INVARIANTS AcceptsTheGrammar StartsWhatWasAskedFor ReadsBack
