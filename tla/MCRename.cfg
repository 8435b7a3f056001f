CONSTANTS
    r1 = r1
    r2 = r2
    top = top
    sub = sub
    t1 = t1
    t2 = t2
    t3 = t3
    None = None
    Runs = {r1, r2}
    Folders = {top, sub}
    Root = top
    Transcripts = {t1, t2, t3}
    FolderOf <- Folder
    Begun = {t1, t2}
    AgainWay = "given"
    Budgets <- Cases
SPECIFICATION RenameSpec
INVARIANTS RenameTypeOK FinishedIsWhole
PROPERTIES RerunFinishes
CHECK_DEADLOCK FALSE
