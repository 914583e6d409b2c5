SPECIFICATION Spec
CONSTANTS
    Frame = {1, 2, 3, 4, 5, 6, 7, 8, 9, 10, 11, 12, 13, 14, 15, 16}
    Low = {1, 2, 3, 4, 5}
    Proc = {p1, p2, p3}
    initproc = p1
    AP = {c1, c2}
    PGSIZE = 2
    NPTE = 2
    UPAGES = 4
    KTABS = 1
    WSZ = 2
    Image <- Images
INVARIANTS  ArgumentsAreMapped BootOrder 
CHECK_DEADLOCK FALSE
