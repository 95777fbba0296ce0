SPECIFICATION Spec
CONSTANTS
    Builds = {b1, b2}
    NoCache = {}
    Dockerfiles <- AllDockerfiles
    Files = {f}
    Bases <- OneBase
    Dirs = {"dir"}
    Changes = 1
SYMMETRY Symmetry
INVARIANTS
    TypeOK
    BuildIsItsDockerfile
    TagIsWhole
    LostIsRebuilt
    RepeatIsCached
