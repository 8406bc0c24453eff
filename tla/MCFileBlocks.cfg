SPECIFICATION Spec
CONSTANTS
    BSIZE = 2
    NDIRECT = 2
    NINDIRECT = 2
    FSSIZE = 12
    nlog = 1
    NINODES = 3
    IPB = 4
    BPB = 16
    Image <- MCImage
    p1 = p1
    p2 = p2
    fa = fa
    fb = fb
    Proc = {p1, p2}
    File = {fa, fb}
    InodeOf <- MCInodeOf
    ByteOf <- MCByteOf
    MAXOPBLOCKS = 6
    Requests <- MCRequests
INVARIANTS
    BlocksExact
    NoHoles
    OpFits
PROPERTY FileIsBytes
