SPECIFICATION Spec
CONSTANTS
    w1 = w1
    w2 = w2
    Null = Null
    Workers <- TwoWorkers
    Texts <- TwoTexts
    MaxEntries = 4
    MaxEdits = 1
SYMMETRY Symmetry
INVARIANTS
    AlarmMeansFork
    EditShows
    DeleteShows
PROPERTY
    AlarmPermanent
