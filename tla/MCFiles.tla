------------------------------- MODULE MCFiles -------------------------------
(* Instances of Files for TLC. *)
EXTENDS Files, TLC

CONSTANTS p1, p2, a, b

Root(e) == [abs |-> TRUE, elems |-> e]
Here(e) == [abs |-> FALSE, elems |-> e]
Do(c, s) == [call |-> c, old |-> s, new |-> s]

\* Files and a directory made, linked, opened and removed under each other.
TreeRequests ==
    (p1 :> {Do("create", Root(<<a>>)), Do("mkdir", Root(<<a>>)),
            Do("create", Root(<<a, b>>)), Do("unlink", Root(<<a>>))})
    @@
    (p2 :> {Do("open", Root(<<a>>)), Do("chdir", Root(<<a>>)),
            Do("mkdir", Here(<<b>>)), Do("unlink", Here(<<b>>)),
            Do("unlink", Root(<<a>>)),
            [call |-> "link", old |-> Root(<<a>>), new |-> Root(<<b>>)],
            [call |-> "link", old |-> Root(<<a>>), new |-> Here(<<b>>)]})
\* A path that goes through ".." of a directory being removed, with its parent.
DotDotRequests ==
    (p1 :> {Do("mkdir", Root(<<a>>)), Do("mkdir", Root(<<a, b>>)),
            Do("open", Root(<<a, b, DotDot>>))})
    @@
    (p2 :> {Do("unlink", Root(<<a, b>>)), Do("unlink", Root(<<a>>))})
=============================================================================
