SPECIFICATION Spec
CONSTANTS
    Runs = {r1, r2}
    Registries = {npm, github}
    Packages = 2
    Shasums = {s1, s2}
    None = None
SYMMETRY Symmetry
INVARIANTS TypeOK GreenJobPublished GreenReleaseExists
PROPERTIES KeepsLedger
