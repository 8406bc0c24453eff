------------------------------ MODULE ByteFile ------------------------------
(***************************************************************************)
(* What a file is to its users: a sequence of bytes that is read and       *)
(* written at the offset of an open file, never with a gap, and cut to     *)
(* nothing by O_TRUNC.  Nothing done to one file is seen in another.       *)
(***************************************************************************)
EXTENDS Naturals, Sequences

CONSTANTS Inum, File, InodeOf, Byte,
          MaxRun     \* bytes that reach a file at once

VARIABLES content,   \* of each inode
          offset     \* of each open file

\* s with t written over it from position o on.
Overwrite(s, o, t) ==
    [k \in 1..(IF Len(s) > o + Len(t) THEN Len(s) ELSE o + Len(t)) |->
        IF k \in (o + 1)..(o + Len(t)) THEN t[k - o] ELSE s[k]]

Write(f, s) ==
    LET i == InodeOf[f] IN
    /\ offset[f] <= Len(content[i])
    /\ content' = [content EXCEPT ![i] = Overwrite(@, offset[f], s)]
    /\ offset' = [offset EXCEPT ![f] = @ + Len(s)]

\* A write that fails may change bytes at the offset that it does not count.
Spill(f, s) ==
    LET i == InodeOf[f] IN
    /\ offset[f] <= Len(content[i])
    /\ content' = [content EXCEPT ![i] =
                      SubSeq(Overwrite(@, offset[f], s), 1, Len(@))]
    /\ UNCHANGED offset

Read(f, n) ==
    /\ offset[f] + n <= Len(content[InodeOf[f]])
    /\ offset' = [offset EXCEPT ![f] = @ + n]
    /\ UNCHANGED content

Truncate(i) ==
    /\ content' = [content EXCEPT ![i] = << >>]
    /\ UNCHANGED offset

Next ==
    \/ \E f \in File :
          \/ \E v \in Byte, n \in 1..MaxRun :
                LET s == [k \in 1..n |-> v] IN Write(f, s) \/ Spill(f, s)
          \/ \E n \in 1..Len(content[InodeOf[f]]) : Read(f, n)
    \/ \E i \in Inum : Truncate(i)

Init == content \in [Inum -> Seq(Nat)] /\ offset = [f \in File |-> 0]

Spec == Init /\ [][Next]_<<content, offset>>
=============================================================================
