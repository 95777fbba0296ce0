SPECIFICATION Spec
CONSTANTS
    Calls = {c1, c2}
    Kinds = {"transfer", "copy", "export", "fetch", "import"}
    Ttl = 1
    Horizon = 1
    Edits = 1
    Losses = 1
SYMMETRY Symmetry
INVARIANTS
    TypeOK
    GivesWhatItAsked
    HitIsYoung
    CheckedIsThere
