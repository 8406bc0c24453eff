----------------------------- MODULE MCFileBlocks -----------------------------
(* Instance of FileBlocks for TLC. *)
EXTENDS FileBlocks, TLC

CONSTANTS p1, p2, fa, fb

MCImage == << <<1>> >>
MCInodeOf == fa :> 2 @@ fb :> 3
MCByteOf == p1 :> 2 @@ p2 :> 2

Do(c, p, f, n) == [call |-> c, p |-> p, f |-> f, n |-> n]

\* Two processes write file fa through one offset and take the last blocks from
\* file fb; one reads fa and one opens it with O_TRUNC meanwhile.
MCRequests ==
    {Do("write", p1, fa, 8), Do("write", p2, fa, 1), Do("write", p2, fb, 2),
     Do("read", p1, fa, 8), Do("open", p1, fa, 0)}
=============================================================================
