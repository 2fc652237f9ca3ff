CONSTANTS
    Tabs = {t1, t2}
    Browsers = {b1, b2}
    MaxTexts = 3
    MaxLives = 2
    None = None
SPECIFICATION Spec
SYMMETRY Symmetry
CONSTRAINT NoStraggler
PROPERTY
    NoLostUpdate
