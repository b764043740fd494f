\* Three processes with ports of their own choice, crashes at any point.
SPECIFICATION Spec
CONSTANTS
    Procs = {p1, p2, p3}
    Inodes = {i1, i2, i3, i4}
    Ports = {8765, 8766}
    NoInode = NoInode
    NoProc = NoProc
CHECK_DEADLOCK FALSE
SYMMETRY Symmetry
INVARIANTS OneUnlessDisturbed PidUnlessDisturbed
