CONSTANTS
    Tabs = {t1, t2}
    Browsers = {b1, b2}
    MaxTexts = 3
    MaxLives = 2
    None = None
SPECIFICATION Spec
SYMMETRY Symmetry
VIEW WithoutBasis
CONSTRAINT OneStraggler
INVARIANTS
    TypeOK
    UnsavedWorkIsStored
PROPERTY
    SavesReplaceWhatTheyName
