CONSTANTS
    s1 = s1
    s2 = s2
    new = new
    edit = edit
    undo = undo
    draft = draft
    format = format
    fix = fix
    Slugs = {s1, s2}
    Writers = {new, draft, edit, undo, format, fix}
    Kind <- KindOf
    MaxFixes = 2
SYMMETRY SlugSymmetry
SPECIFICATION Spec
INVARIANTS
    TypeOK
    RevisionsFormAChain
    NoLostUpdate
    NoCircularWait
PROPERTIES
    ConflictMeansOvertaken
CHECK_DEADLOCK FALSE
