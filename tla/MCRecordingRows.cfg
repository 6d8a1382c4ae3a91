CONSTANTS
    a1 = a1
    a2 = a2
    b1 = b1
    Names = {a1, a2, b1}
    Folder <- MCFolder
    Recordings = {r1, r2}
    Listers = {l1, l2}
    MaxLists = 3
    MaxRenames = 1
    MaxVideos = 2
SPECIFICATION Spec
INVARIANTS
    TypeOK
    CapturesFollowFiles
    LinksFollowFiles
    RowsShowTheirOwnVideo
    ListIsCurrent
CHECK_DEADLOCK FALSE
