---------------------------- MODULE ConsoleProofs ----------------------------
(***************************************************************************)
(* The console for every number of processes, every buffer size and every  *)
(* amount of work: no reader or writer sleeps while it could go on, a full *)
(* input buffer can always be read, the transmitter is never overrun, and  *)
(* the two ring buffers, whose indices wrap, implement module Terminal.    *)
(***************************************************************************)
EXTENDS Console, Integers, SequenceTheorems, TLAPS

Index == 0..(UINT - 1)

\* Facts of arithmetic: a multiple of m is not strictly between 0 and m.
LEMMA NoMultiple ==
    ASSUME NEW m \in Nat, NEW z \in Int
    PROVE  ~(0 < m * z /\ m * z < m)
<1>1. CASE z <= 0
  BY <1>1
<1>2. CASE z >= 1
  BY <1>2
<1> QED
  BY <1>1, <1>2

LEMMA Distribute ==
    \A m, a, b \in Int :
        m * (b - a) = m * b - m * a /\ m * (b + a) = m * b + m * a
OBVIOUS

LEMMA Division ==
    ASSUME NEW x \in Int, NEW m \in Int, m > 0
    PROVE  \E z \in Int : x = m * z + (x % m)
<1>1. x \div m \in Int
  OBVIOUS
<1>2. x = m * (x \div m) + (x % m)
  BY SMTT(60)
<1> QED
  BY Zenon, <1>1, <1>2

LEMMA Wrap ==
    ASSUME NEW x \in Nat, x < 2 * UINT
    PROVE  x % UINT = IF x < UINT THEN x ELSE x - UINT
<1>1. UINT \in Nat /\ UINT > 0
  BY ConsoleAssumption
<1> DEFINE r == x % UINT
<1>2. r \in 0..(UINT - 1)
  BY <1>1
<1>3. PICK z \in Int : x = UINT * z + r
  BY <1>1, Division
<1> HIDE DEF r
<1>4. CASE z <= -1
  <2>1. UINT * z <= -UINT
    BY <1>1, <1>4
  <2> QED
    BY <1>1, <1>2, <1>3, <2>1
<1>5. CASE z = 0 \/ z = 1
  BY <1>1, <1>2, <1>3, <1>5 DEF r
<1>6. CASE z >= 2
  <2>1. UINT * z >= 2 * UINT
    BY <1>1, <1>6
  <2> QED
    BY <1>1, <1>2, <1>3, <2>1
<1> QED
  BY <1>4, <1>5, <1>6

\* Plus and Dist for indices.
LEMMA PlusIs ==
    ASSUME NEW a \in Index, NEW n \in 0..UINT
    PROVE  /\ Plus(a, n) = IF a + n < UINT THEN a + n ELSE a + n - UINT
           /\ Plus(a, n) \in Index
<1>1. a + n \in Nat /\ a + n < 2 * UINT
  BY ConsoleAssumption DEF Index
<1>2. PICK x \in Nat : x = a + n /\ x < 2 * UINT
  BY <1>1
<1>3. x % UINT = IF x < UINT THEN x ELSE x - UINT
  BY <1>2, Wrap
<1> QED
  BY <1>2, <1>3, ConsoleAssumption DEF Plus, Index

LEMMA DistIs ==
    ASSUME NEW a \in Index, NEW b \in Index
    PROVE  /\ Dist(a, b) = IF a <= b THEN b - a ELSE b + UINT - a
           /\ Dist(a, b) \in Index
<1>1. b + UINT - a \in Nat /\ b + UINT - a < 2 * UINT
  BY ConsoleAssumption DEF Index
<1>2. PICK x \in Nat : x = b + UINT - a /\ x < 2 * UINT
  BY <1>1
<1>3. x % UINT = IF x < UINT THEN x ELSE x - UINT
  BY <1>2, Wrap
<1> QED
  BY <1>2, <1>3, ConsoleAssumption DEF Dist, Index

\* How the distances of indices change.
LEMMA Distances ==
    ASSUME NEW a \in Index, NEW b \in Index
    PROVE  /\ Dist(a, b) = 0 <=> a = b
           /\ Dist(a, b) + 1 < UINT => Dist(a, Plus(b, 1)) = Dist(a, b) + 1
           /\ a # b => Dist(Plus(a, 1), b) = Dist(a, b) - 1
           /\ \A k \in 0..Dist(a, b) : Dist(a, Plus(b, UINT - k)) = Dist(a, b) - k
           /\ Plus(a, Dist(a, b)) = b
           /\ \A n \in Index : b = Plus(a, n) <=> Dist(a, b) = n
<1>1. UINT \in Nat /\ UINT > 1 /\ 1 \in 0..UINT
  BY ConsoleAssumption
<1>2. Dist(a, b) = IF a <= b THEN b - a ELSE b + UINT - a
  BY DistIs
<1>3. Dist(a, b) = 0 <=> a = b
  BY <1>1, <1>2 DEF Index
<1>4. ASSUME Dist(a, b) + 1 < UINT PROVE Dist(a, Plus(b, 1)) = Dist(a, b) + 1
  <2>1. /\ Plus(b, 1) = IF b + 1 < UINT THEN b + 1 ELSE b + 1 - UINT
        /\ Plus(b, 1) \in Index
    BY <1>1, PlusIs
  <2>2. Dist(a, Plus(b, 1)) = IF a <= Plus(b, 1) THEN Plus(b, 1) - a
                              ELSE Plus(b, 1) + UINT - a
    BY <2>1, DistIs
  <2> QED
    BY <1>1, <1>2, <1>4, <2>1, <2>2 DEF Index
<1>5. ASSUME a # b PROVE Dist(Plus(a, 1), b) = Dist(a, b) - 1
  <2>1. /\ Plus(a, 1) = IF a + 1 < UINT THEN a + 1 ELSE a + 1 - UINT
        /\ Plus(a, 1) \in Index
    BY <1>1, PlusIs
  <2>2. Dist(Plus(a, 1), b) = IF Plus(a, 1) <= b THEN b - Plus(a, 1)
                              ELSE b + UINT - Plus(a, 1)
    BY <2>1, DistIs
  <2> QED
    BY <1>1, <1>2, <1>5, <2>1, <2>2 DEF Index
<1>6. ASSUME NEW k \in 0..Dist(a, b)
      PROVE  Dist(a, Plus(b, UINT - k)) = Dist(a, b) - k
  <2>0. UINT - k \in 0..UINT
    BY <1>1, <1>2 DEF Index
  <2>1. /\ Plus(b, UINT - k) = IF b + (UINT - k) < UINT THEN b + (UINT - k)
                               ELSE b + (UINT - k) - UINT
        /\ Plus(b, UINT - k) \in Index
    BY <2>0, PlusIs
  <2>2. Dist(a, Plus(b, UINT - k)) =
           IF a <= Plus(b, UINT - k) THEN Plus(b, UINT - k) - a
           ELSE Plus(b, UINT - k) + UINT - a
    BY <2>1, DistIs
  <2> QED
    BY <1>1, <1>2, <2>1, <2>2 DEF Index
<1>7. Plus(a, Dist(a, b)) = b
  <2>1. Dist(a, b) \in 0..UINT
    BY <1>1, <1>2 DEF Index
  <2>2. Plus(a, Dist(a, b)) = IF a + Dist(a, b) < UINT THEN a + Dist(a, b)
                              ELSE a + Dist(a, b) - UINT
    BY <2>1, PlusIs
  <2> QED
    BY <1>1, <1>2, <2>2 DEF Index
<1>8. ASSUME NEW n \in Index PROVE b = Plus(a, n) <=> Dist(a, b) = n
  <2>1. n \in 0..UINT
    BY <1>1 DEF Index
  <2>2. Plus(a, n) = IF a + n < UINT THEN a + n ELSE a + n - UINT
    BY <2>1, PlusIs
  <2> QED
    BY <1>1, <1>2, <2>2 DEF Index
<1> QED
  BY <1>3, <1>4, <1>5, <1>6, <1>7, <1>8
-----------------------------------------------------------------------------
\* The sizes of the two rings.
Size(s) == s \in Nat /\ s > 0 /\ s < UINT /\ UINT % s = 0

Ring(s) == [0..(s - 1) -> Stored]

LEMMA Sizes == Size(INPUT_BUF_SIZE) /\ Size(UART_TX_BUF_SIZE)
BY ConsoleAssumption DEF Size

\* Two indices less than s apart use different places of a ring of size s,
\* although they wrap.
LEMMA Places ==
    ASSUME NEW s, Size(s), NEW a \in Index, NEW i \in Nat, NEW j \in Nat,
           i < j, j < i + s, j < UINT
    PROVE  Plus(a, i) % s # Plus(a, j) % s
<1> DEFINE x == Plus(a, i)
           y == Plus(a, j)
<1>0. UINT \in Int /\ UINT > 0 /\ s \in Int /\ s > 0 /\ s \in Nat
  BY ConsoleAssumption DEF Size
<1>1. PICK u \in Int : UINT = s * u
  <2>1. \E z \in Int : UINT = s * z + (UINT % s)
    BY Zenon, <1>0, Division
  <2>2. PICK z \in Int : UINT = s * z + (UINT % s)
    BY <2>1
  <2> QED
    BY <1>0, <2>2 DEF Size
<1>2. /\ x = IF a + i < UINT THEN a + i ELSE a + i - UINT
      /\ y = IF a + j < UINT THEN a + j ELSE a + j - UINT
      /\ x \in Int /\ y \in Int
  <2>1. i \in 0..UINT /\ j \in 0..UINT
    BY <1>0
  <2> QED
    BY <2>1, PlusIs DEF Index
<1>3. j - i = y - x \/ j - i = y - x + UINT
  BY <1>0, <1>2 DEF Index
<1> HIDE DEF x, y
<1> SUFFICES ASSUME x % s = y % s PROVE FALSE
  BY DEF x, y
<1>4. PICK b \in Int : x = s * b + (x % s)
  BY ZenonT(30), <1>0, <1>2, Division
<1>5. PICK c \in Int : y = s * c + (y % s)
  BY ZenonT(30), <1>0, <1>2, Division
<1>6. y - x = s * (c - b)
  <2>1. ASSUME NEW A \in Int, NEW B \in Int, NEW R \in Int,
               x = A + R, y = B + R
        PROVE  y - x = B - A
    BY <2>1
  <2>2. s * b \in Int /\ s * c \in Int /\ x % s \in Int
    BY <1>0, <1>2
  <2>3. y - x = s * c - s * b
    BY <1>4, <1>5, <2>1, <2>2
  <2> QED
    BY <1>0, <2>3, Distribute
<1>7. j - i = s * (c - b) \/ j - i = s * (c - b + u)
  BY <1>0, <1>1, <1>3, <1>6, Distribute
<1>8. c - b \in Int /\ c - b + u \in Int
  OBVIOUS
<1>9. 0 < j - i /\ j - i < s
  BY <1>0
<1> QED
  BY <1>0, <1>7, <1>8, <1>9, NoMultiple

\* q is the contents of a ring between the indices a and b.
Contents(q, buf, s, a, b) ==
    /\ q \in Seq(Stored) /\ Len(q) = Dist(a, b)
    /\ \A i \in 1..Dist(a, b) : /\ q[i] = buf[Plus(a, i - 1) % s]
                               /\ Plus(a, i - 1) % s \in 0..(s - 1)

LEMMA WindowIs ==
    ASSUME NEW s, Size(s), NEW buf \in Ring(s),
           NEW a \in Index, NEW b \in Index
    PROVE  Contents(Window(buf, s, a, b), buf, s, a, b)
<1>0. Dist(a, b) \in Index
  BY DistIs
<1>1. Dist(a, b) \in Nat /\ Dist(a, b) < UINT
  BY <1>0, ConsoleAssumption DEF Index
<1>2. \A i \in 1..Dist(a, b) : Plus(a, i - 1) % s \in 0..(s - 1)
  <2> TAKE i \in 1..Dist(a, b)
  <2>1. i - 1 \in 0..UINT
    BY <1>1, ConsoleAssumption
  <2>2. Plus(a, i - 1) \in Index
    BY <2>1, PlusIs
  <2> QED
    BY <2>2, ConsoleAssumption DEF Index, Size
<1> QED
  BY <1>1, <1>2 DEF Window, Contents, Ring

\* The ring with c at index b.
Written(buf, s, b, c) == [buf EXCEPT ![b % s] = c]

\* A character is added behind the others.
LEMMA WindowPush ==
    ASSUME NEW s, Size(s), NEW buf \in Ring(s),
           NEW a \in Index, NEW b \in Index, NEW c \in Stored, Dist(a, b) < s
    PROVE  Window(Written(buf, s, b, c), s, a, Plus(b, 1)) =
              Append(Window(buf, s, a, b), c)
<1> DEFINE d == Dist(a, b)
           buf2 == [buf EXCEPT ![b % s] = c]
           old == Window(buf, s, a, b)
           new == Window(buf2, s, a, Plus(b, 1))
<1>0. d \in Index
  BY DistIs
<1>1. /\ d \in Nat /\ d < UINT - 1 /\ d < s /\ s \in Nat /\ UINT \in Nat
      /\ b % s \in 0..(s - 1) /\ 1 \in 0..UINT /\ d + 1 < UINT
  BY <1>0, ConsoleAssumption DEF Index, Size
<1>2. Plus(b, 1) \in Index /\ Dist(a, Plus(b, 1)) = d + 1 /\ Plus(a, d) = b
  <2>1. Plus(b, 1) \in Index
    BY <1>1, PlusIs
  <2>2. /\ d + 1 < UINT => Dist(a, Plus(b, 1)) = d + 1
        /\ Plus(a, d) = b
    BY Distances
  <2> QED
    BY <1>1, <2>1, <2>2
<1>3. buf2 \in Ring(s)
  BY <1>1 DEF Ring
<1> HIDE DEF buf2, d
<1>4. /\ new \in Seq(Stored) /\ Len(new) = d + 1
      /\ \A i \in 1..(d + 1) : new[i] = buf2[Plus(a, i - 1) % s]
  <2>1. Contents(new, buf2, s, a, Plus(b, 1))
    BY <1>2, <1>3, WindowIs
  <2> QED
    BY <1>2, <2>1 DEF Contents
<1>5. /\ old \in Seq(Stored) /\ Len(old) = d
      /\ \A i \in 1..d : /\ old[i] = buf[Plus(a, i - 1) % s]
                         /\ Plus(a, i - 1) % s \in 0..(s - 1)
  <2>1. Contents(old, buf, s, a, b)
    BY WindowIs
  <2> QED
    BY <2>1 DEF Contents, d
<1> HIDE DEF old, new
<1>6. /\ Append(old, c) \in Seq(Stored) /\ Len(Append(old, c)) = d + 1
      /\ \A i \in 1..d : Append(old, c)[i] = old[i]
      /\ Append(old, c)[d + 1] = c
  BY <1>1, <1>5, AppendProperties
<1>7. \A i \in 1..d : new[i] = old[i]
  <2> TAKE i \in 1..d
  <2>1. i - 1 \in Nat /\ i - 1 < d /\ d < (i - 1) + s /\ i \in 1..(d + 1)
    BY <1>1
  <2>2. Plus(a, i - 1) % s # b % s
    BY <1>1, <1>2, <2>1, Places
  <2> QED
    BY <1>1, <1>4, <1>5, <2>1, <2>2 DEF buf2, Ring
<1>8. new[d + 1] = c
  <2>1. d + 1 \in 1..(d + 1) /\ (d + 1) - 1 = d
    BY <1>1
  <2> QED
    BY <1>1, <1>2, <1>4, <2>1 DEF buf2, Ring
<1>9. \A i \in 1..(d + 1) : new[i] = Append(old, c)[i]
  BY SMTT(30), <1>1, <1>6, <1>7, <1>8
<1>10. new = Append(old, c)
  BY <1>4, <1>6, <1>9, SeqEqual
<1> QED
  BY Zenon, <1>10 DEF old, new, buf2, Written

\* The oldest character is taken.
LEMMA WindowPop ==
    ASSUME NEW s, Size(s), NEW buf \in Ring(s),
           NEW a \in Index, NEW b \in Index, a # b
    PROVE  /\ Window(buf, s, a, b) # << >>
           /\ Window(buf, s, Plus(a, 1), b) = Tail(Window(buf, s, a, b))
<1> DEFINE d == Dist(a, b)
           old == Window(buf, s, a, b)
           new == Window(buf, s, Plus(a, 1), b)
<1>0. d \in Index /\ UINT \in Nat
  BY DistIs, ConsoleAssumption
<1>1. d \in Nat /\ d < UINT /\ d # 0 /\ 1 \in 0..UINT
  BY <1>0, Distances DEF Index
<1>2. Plus(a, 1) \in Index
  BY <1>1, PlusIs
<1>3. Dist(Plus(a, 1), b) = d - 1
  BY Distances
<1>4. Contents(old, buf, s, a, b) /\ Contents(new, buf, s, Plus(a, 1), b)
  BY <1>2, WindowIs
<1> HIDE DEF d, old, new
<1>5. /\ old \in Seq(Stored) /\ Len(old) = d
      /\ \A i \in 1..d : old[i] = buf[Plus(a, i - 1) % s]
  BY <1>4 DEF Contents, d
<1>6. /\ new \in Seq(Stored) /\ Len(new) = d - 1
      /\ \A i \in 1..(d - 1) : new[i] = buf[Plus(Plus(a, 1), i - 1) % s]
  BY <1>3, <1>4 DEF Contents
<1>7. old # << >>
  BY <1>1, <1>5
<1>8. /\ Tail(old) \in Seq(Stored) /\ Len(Tail(old)) = d - 1
      /\ \A i \in 1..(d - 1) : Tail(old)[i] = old[i + 1]
  BY <1>1, <1>5, <1>7, HeadTailProperties
<1>9. \A i \in 1..(d - 1) : Plus(Plus(a, 1), i - 1) = Plus(a, (i + 1) - 1)
  <2> TAKE i \in 1..(d - 1)
  <2>1. i - 1 \in 0..UINT /\ (i + 1) - 1 \in 0..UINT
    BY <1>0, <1>1
  <2>2. Plus(a, 1) = IF a + 1 < UINT THEN a + 1 ELSE a + 1 - UINT
    BY <1>1, PlusIs
  <2>3. Plus(Plus(a, 1), i - 1) =
           IF Plus(a, 1) + (i - 1) < UINT THEN Plus(a, 1) + (i - 1)
           ELSE Plus(a, 1) + (i - 1) - UINT
    BY <1>2, <2>1, PlusIs
  <2>4. Plus(a, (i + 1) - 1) =
           IF a + ((i + 1) - 1) < UINT THEN a + ((i + 1) - 1)
           ELSE a + ((i + 1) - 1) - UINT
    BY <2>1, PlusIs
  <2> QED
    BY <1>0, <1>1, <1>2, <2>2, <2>3, <2>4 DEF Index
<1>10. \A i \in 1..(d - 1) : new[i] = Tail(old)[i]
  <2> TAKE i \in 1..(d - 1)
  <2>1. i + 1 \in 1..d
    BY <1>1
  <2> QED
    BY SMTT(30), <1>5, <1>6, <1>8, <1>9, <2>1
<1>11. new = Tail(old)
  BY <1>6, <1>8, <1>10, SeqEqual
<1> QED
  BY <1>7, <1>11 DEF old, new

\* The newest characters are dropped.
LEMMA WindowDrop ==
    ASSUME NEW s, Size(s), NEW buf \in Ring(s),
           NEW a \in Index, NEW b \in Index, NEW k \in 0..Dist(a, b)
    PROVE  Window(buf, s, a, Plus(b, UINT - k)) =
              SubSeq(Window(buf, s, a, b), 1, Dist(a, b) - k)
<1> DEFINE d == Dist(a, b)
           c == Plus(b, UINT - k)
           old == Window(buf, s, a, b)
           new == Window(buf, s, a, c)
<1>0. d \in Index /\ UINT \in Nat
  BY DistIs, ConsoleAssumption
<1>1. d \in Nat /\ d < UINT /\ k \in 0..d /\ UINT - k \in 0..UINT
  BY <1>0 DEF Index
<1>2. c \in Index /\ Dist(a, c) = d - k
  <2>1. c \in Index
    BY <1>1, PlusIs
  <2> QED
    BY <2>1, Distances
<1>3. Contents(old, buf, s, a, b) /\ Contents(new, buf, s, a, c)
  BY <1>2, WindowIs
<1> HIDE DEF d, c, old, new
<1>4. /\ old \in Seq(Stored) /\ Len(old) = d
      /\ \A i \in 1..d : old[i] = buf[Plus(a, i - 1) % s]
  BY ZenonT(30), <1>3 DEF Contents, d
<1>5. /\ new \in Seq(Stored) /\ Len(new) = d - k
      /\ \A i \in 1..(d - k) : new[i] = buf[Plus(a, i - 1) % s]
  BY <1>2, <1>3 DEF Contents
<1>6. /\ SubSeq(old, 1, d - k) \in Seq(Stored) /\ Len(SubSeq(old, 1, d - k)) = d - k
      /\ \A i \in 1..(d - k) : SubSeq(old, 1, d - k)[i] = old[i]
  BY <1>1, <1>4
<1>7. \A i \in 1..(d - k) : new[i] = SubSeq(old, 1, d - k)[i]
  BY SMTT(30), <1>1, <1>4, <1>5, <1>6
<1>8. new = SubSeq(old, 1, d - k)
  BY <1>5, <1>6, <1>7, SeqEqual
<1> QED
  BY <1>8 DEF old, new, c, d

\* Two stretches of a ring, one behind the other.
LEMMA WindowJoin ==
    ASSUME NEW s, Size(s), NEW buf \in Ring(s),
           NEW a \in Index, NEW b \in Index, NEW c \in Index,
           Dist(a, b) + Dist(b, c) = Dist(a, c)
    PROVE  Window(buf, s, a, c) = Window(buf, s, a, b) \o Window(buf, s, b, c)
<1> DEFINE d == Dist(a, b)
           n == Dist(b, c)
           left == Window(buf, s, a, b)
           right == Window(buf, s, b, c)
           both == Window(buf, s, a, c)
<1>0. /\ d \in Index /\ n \in Index /\ d + n \in Index /\ UINT \in Nat
      /\ Dist(a, c) = d + n
  BY DistIs, ConsoleAssumption
<1>1. d \in Nat /\ n \in Nat /\ d + n < UINT
  BY <1>0 DEF Index
<1>2. /\ Contents(left, buf, s, a, b) /\ Contents(right, buf, s, b, c)
      /\ Contents(both, buf, s, a, c)
  BY WindowIs
<1>3. Plus(a, d) = b
  BY Distances
<1> HIDE DEF d, n, left, right, both
<1>4. /\ left \in Seq(Stored) /\ Len(left) = d
      /\ \A i \in 1..d : left[i] = buf[Plus(a, i - 1) % s]
  BY Zenon, <1>2 DEF Contents, d
<1>5. /\ right \in Seq(Stored) /\ Len(right) = n
      /\ \A i \in 1..n : right[i] = buf[Plus(b, i - 1) % s]
  BY <1>2 DEF Contents, n
<1>6. /\ both \in Seq(Stored) /\ Len(both) = d + n
      /\ \A i \in 1..(d + n) : both[i] = buf[Plus(a, i - 1) % s]
  BY <1>0, <1>2 DEF Contents
<1>7. /\ left \o right \in Seq(Stored) /\ Len(left \o right) = d + n
      /\ \A i \in 1..(d + n) :
            (left \o right)[i] = IF i <= d THEN left[i] ELSE right[i - d]
  BY ZenonT(30), <1>4, <1>5, ConcatProperties
<1>8. \A i \in 1..n : Plus(b, i - 1) = Plus(a, (d + i) - 1)
  <2> TAKE i \in 1..n
  <2>1. i - 1 \in 0..UINT /\ (d + i) - 1 \in 0..UINT /\ d \in 0..UINT
    BY <1>0, <1>1
  <2>2. b = IF a + d < UINT THEN a + d ELSE a + d - UINT
    BY <1>3, <2>1, PlusIs
  <2>3. Plus(b, i - 1) = IF b + (i - 1) < UINT THEN b + (i - 1)
                         ELSE b + (i - 1) - UINT
    BY <2>1, PlusIs
  <2>4. Plus(a, (d + i) - 1) =
           IF a + ((d + i) - 1) < UINT THEN a + ((d + i) - 1)
           ELSE a + ((d + i) - 1) - UINT
    BY <2>1, PlusIs
  <2> QED
    BY <1>0, <1>1, <2>2, <2>3, <2>4 DEF Index
<1>9. \A i \in 1..(d + n) : both[i] = (left \o right)[i]
  <2> TAKE i \in 1..(d + n)
  <2>1. CASE i <= d
    <3>1. i \in 1..d
      BY <1>1, <2>1
    <3> QED
      BY Zenon, <1>4, <1>6, <1>7, <2>1, <3>1
  <2>2. CASE i > d
    <3>1. i - d \in 1..n /\ d + (i - d) = i /\ ~(i <= d)
      BY <1>1, <2>2
    <3>2. right[i - d] = buf[Plus(a, i - 1) % s]
      BY <1>5, <1>8, <3>1
    <3> QED
      BY <1>6, <1>7, <3>1, <3>2
  <2>3. i <= d \/ i > d
    BY <1>1
  <2> QED
    BY Zenon, <2>1, <2>2, <2>3
<1>10. both = left \o right
  BY SMTT(30), <1>6, <1>7, <1>9, SeqEqual
<1> QED
  BY <1>10 DEF left, right, both

\* A character written behind a stretch leaves it as it is.
LEMMA WindowKept ==
    ASSUME NEW s, Size(s), NEW buf \in Ring(s),
           NEW a \in Index, NEW b \in Index, NEW e \in Index, NEW c \in Stored,
           Dist(a, b) + Dist(b, e) = Dist(a, e), Dist(a, e) < s
    PROVE  Window(Written(buf, s, e, c), s, a, b) = Window(buf, s, a, b)
<1> DEFINE d == Dist(a, b)
           n == Dist(a, e)
           buf2 == [buf EXCEPT ![e % s] = c]
           old == Window(buf, s, a, b)
           new == Window(buf2, s, a, b)
<1>0. d \in Index /\ n \in Index /\ Dist(b, e) \in Index /\ d + Dist(b, e) = n
  BY DistIs
<1>1. /\ d \in Nat /\ n \in Nat /\ d <= n /\ n < UINT /\ n < s /\ s \in Nat
      /\ e % s \in 0..(s - 1)
  BY <1>0, ConsoleAssumption DEF Index, Size
<1>e. Plus(a, n) = e
  BY Distances
<1>2. buf2 \in Ring(s)
  BY <1>1 DEF Ring
<1> HIDE DEF buf2, d, n
<1>3. Contents(old, buf, s, a, b) /\ Contents(new, buf2, s, a, b)
  BY <1>2, WindowIs
<1> HIDE DEF old, new
<1>4. ASSUME NEW i \in 1..d PROVE new[i] = old[i]
  <2>1. /\ i - 1 \in Nat /\ i - 1 < n /\ n < (i - 1) + s
        /\ i \in 1..Dist(a, b)
    BY <1>1 DEF d
  <2>2. Plus(a, i - 1) % s # e % s
    BY SMTT(30), <1>1, <1>e, <2>1, Places
  <2>3. /\ old[i] = buf[Plus(a, i - 1) % s]
        /\ new[i] = buf2[Plus(a, i - 1) % s]
        /\ Plus(a, i - 1) % s \in 0..(s - 1)
    BY SMTT(30), <1>3, <2>1 DEF Contents
  <2> QED
    BY <2>2, <2>3 DEF buf2
<1>5. /\ old \in Seq(Stored) /\ Len(old) = d
      /\ new \in Seq(Stored) /\ Len(new) = d
  BY <1>3 DEF Contents, d
<1>6. new = old
  BY <1>4, <1>5, SeqEqual
<1> QED
  BY <1>6 DEF old, new, buf2, Written
-----------------------------------------------------------------------------
ConsType == [buf : Ring(INPUT_BUF_SIZE),
             r : Index, w : Index, e : Index]
TxType == [buf : Ring(UART_TX_BUF_SIZE), r : Index, w : Index,
           pc : {"idle", "start", "send"}]
LockType == [Lock -> Reader \cup Writer \cup {Free, "intr", "printf"}]
RdType == [Reader -> [pc : {"idle", "acquire", "loop", "dozing", "sleep", "dead"},
                      n : Nat, target : Nat]]
WrType == [Writer -> [pc : {"idle", "acquire", "loop", "sleep", "start"},
                      left : Nat]]
HType == [pc : {"idle", "getc", "cons", "dump", "print", "put", "uart", "start"},
          c : Key, echo : Int]
PrType == [pc : {"idle", "print", "put"}, echo : Int]
ThrType == Seq(Stored \cup {Echo})
WorkType == [left : [Limit -> Nat], typed : SUBSET Key]

TypeOK ==
    /\ cons \in ConsType /\ tx \in TxType /\ lock \in LockType
    /\ rd \in RdType /\ wr \in WrType /\ h \in HType /\ pr \in PrType
    /\ rx \in Seq(Key) /\ thr \in ThrType /\ work \in WorkType

\* cons.lock is held by a reader in its loop or by consoleintr, uart_tx_lock by
\* a writer in uartputc or by uartintr.
ReadLock ==
    \A p \in Reader : rd[p].pc \in {"loop", "dozing"} <=> lock["cons"] = p
KeyLock == h.pc \in {"dump", "print", "put"} <=> lock["cons"] = "intr"
WriteLock ==
    \A p \in Writer : wr[p].pc \in {"loop", "start"} <=> lock["uart"] = p
StartLock == h.pc = "start" <=> lock["uart"] = "intr"

Locks == ReadLock /\ KeyLock /\ WriteLock /\ StartLock

\* Who sleeps, or is about to, has nothing to do.
Waits ==
    /\ \A p \in Reader : rd[p].pc \in {"dozing", "sleep"} => cons.r = cons.w
    /\ \A p \in Writer : wr[p].pc = "sleep" => Full

\* The input ring: finished input, then a line that is not finished.
Ready == Window(cons.buf, INPUT_BUF_SIZE, cons.r, cons.w)

Edited == Window(cons.buf, INPUT_BUF_SIZE, cons.w, cons.e)

Input ==
    /\ Dist(cons.r, cons.w) + Line = Used
    /\ Used <= INPUT_BUF_SIZE
    /\ Used = INPUT_BUF_SIZE => cons.w = cons.e
    /\ Edited \in Seq(Stored \ {NL, CtrlD})

Outgoing == Window(tx.buf, UART_TX_BUF_SIZE, tx.r, tx.w)

Output ==
    /\ Dist(tx.r, tx.w) <= UART_TX_BUF_SIZE
    /\ tx.pc = "send" => tx.r # tx.w

\* Each of three writers that found the transmitter idle may write once.
About(b) == IF b THEN 1 ELSE 0

Room ==
    Len(thr) + About(h.pc = "put") + About(pr.pc = "put")
       + About(tx.pc = "send") <= 3

Inv == TypeOK /\ Locks /\ Waits /\ Input /\ Output /\ Room
-----------------------------------------------------------------------------
LEMMA Constants ==
    /\ UINT \in Nat /\ UINT > 1 /\ 0 \in Index /\ 1 \in 0..UINT
    /\ INPUT_BUF_SIZE \in Nat /\ 0 < INPUT_BUF_SIZE /\ INPUT_BUF_SIZE < UINT
    /\ UART_TX_BUF_SIZE \in Nat /\ 0 < UART_TX_BUF_SIZE
    /\ UART_TX_BUF_SIZE < UINT /\ UART_TX_BUF_SIZE \in Index
    /\ INPUT_BUF_SIZE \in Index
BY SMTT(30), ConsoleAssumption DEF Index

\* The line holds no newline, so ^U erases all of it.
LEMMA KillsLine ==
    ASSUME TypeOK, Input
    PROVE  KillCount = Line /\ Line \in Index /\ EraseCount \in 0..Line
<1> DEFINE win == Window(cons.buf, INPUT_BUF_SIZE, cons.w, cons.e)
<1>0. /\ cons.w \in Index /\ cons.e \in Index
      /\ cons.buf \in Ring(INPUT_BUF_SIZE)
  BY DEF TypeOK, ConsType
<1>1. Line \in Index /\ Line = IF cons.w <= cons.e THEN cons.e - cons.w
                               ELSE cons.e + UINT - cons.w
  BY <1>0, DistIs DEF Line
<1>2. Contents(win, cons.buf, INPUT_BUF_SIZE, cons.w, cons.e)
  BY SMTT(30), <1>0, Sizes, WindowIs
<1>3. ASSUME NEW k \in 0..(Line - 1)
      PROVE  cons.buf[Plus(cons.e, UINT - k - 1) % INPUT_BUF_SIZE] # NL
  <2>1. /\ UINT - k - 1 \in 0..UINT /\ (Line - k) - 1 \in 0..UINT
        /\ Line - k \in 1..Line
    BY <1>1, Constants DEF Index
  <2>2. Plus(cons.e, UINT - k - 1) =
           IF cons.e + (UINT - k - 1) < UINT THEN cons.e + (UINT - k - 1)
           ELSE cons.e + (UINT - k - 1) - UINT
    BY <1>0, <2>1, PlusIs
  <2>3. Plus(cons.w, (Line - k) - 1) =
           IF cons.w + ((Line - k) - 1) < UINT THEN cons.w + ((Line - k) - 1)
           ELSE cons.w + ((Line - k) - 1) - UINT
    BY SMTT(30), <1>0, <2>1, PlusIs
  <2>4. Plus(cons.e, UINT - k - 1) = Plus(cons.w, (Line - k) - 1)
    <3>1. PICK e \in Index, w \in Index, n \in Index :
             e = cons.e /\ w = cons.w /\ n = Line
      BY ZenonT(30), <1>0, <1>1
    <3> QED
      BY <1>1, <2>2, <2>3, <3>1, Constants DEF Index
  <2>5. win[Line - k] = cons.buf[Plus(cons.w, (Line - k) - 1) % INPUT_BUF_SIZE]
    BY SMTT(30), <1>2, <2>1 DEF Contents, Line
  <2>6. win \in Seq(Stored \ {NL, CtrlD}) /\ Line - k \in 1..Len(win)
    BY <1>2, <2>1 DEF Input, Edited, Contents, Line
  <2>7. win[Line - k] \in Stored \ {NL, CtrlD}
    BY <2>6, ElementOfSeq
  <2> QED
    BY <2>4, <2>5, <2>7
<1>4. {k \in 0..Line : k = Line \/
          cons.buf[Plus(cons.e, UINT - k - 1) % INPUT_BUF_SIZE] = NL} = {Line}
  <2>1. \A k \in 0..Line : k = Line \/ k \in 0..(Line - 1)
    BY <1>1, Constants DEF Index
  <2>2. Line \in 0..Line
    BY <1>1, Constants DEF Index
  <2> QED
    BY SMTT(30), <1>3, <2>1, <2>2
<1>5. Min({Line}) = Line
  BY SMTT(30), <1>1, Constants DEF Min, Index
<1>6. EraseCount \in 0..Line
  BY <1>0, <1>1, Constants DEF EraseCount, Index
<1> QED
  BY <1>1, <1>4, <1>5, <1>6 DEF KillCount

\* What the small steps do to a type.
LEMMA SpendType ==
    ASSUME work \in WorkType, NEW what \in Limit, Spend(what)
    PROVE  work' \in WorkType
<1>1. work.left \in [Limit -> Nat] /\ work.left[what] > 0
  BY DEF WorkType, Spend
<1>2. [work.left EXCEPT ![what] = @ - 1] \in [Limit -> Nat]
  BY <1>1
<1> QED
  BY <1>2 DEF WorkType, Spend

LEMMA AcquireType ==
    ASSUME lock \in LockType, NEW l \in Lock,
           NEW a \in Reader \cup Writer \cup {"intr", "printf"}, Acquire(l, a)
    PROVE  lock' \in LockType /\ lock'[l] = a
           /\ \A k \in Lock : k # l => lock'[k] = lock[k]
BY DEF LockType, Acquire

LEMMA ReleaseType ==
    ASSUME lock \in LockType, NEW l \in Lock, Release(l)
    PROVE  lock' \in LockType /\ lock'[l] = Free
           /\ \A k \in Lock : k # l => lock'[k] = lock[k]
BY DEF LockType, Release

LEMMA ReaderType ==
    ASSUME TypeOK, NEW p \in Reader,
           \/ \E n \in ReadLens : consoleread(p, n) /\ Spend("reads")
           \/ kill(p) /\ Spend("kills")
           \/ Read(p)
    PROVE  TypeOK'
<1>0. "cons" \in Lock /\ "reads" \in Limit /\ "kills" \in Limit
  BY DEF Lock, Limit
<1> USE DEF TypeOK
<1>1. ASSUME NEW n \in ReadLens, consoleread(p, n), Spend("reads")
      PROVE  TypeOK'
  <2>0. n \in Nat
    BY ConsoleAssumption
  <2>1. rd' \in RdType
    BY <1>1, <2>0 DEF consoleread, RdType
  <2> QED
    BY SMTT(30), <1>0, <1>1, <2>1, SpendType DEF consoleread
<1>2. CASE kill(p) /\ Spend("kills")
  <2>1. rd' \in RdType
    BY ZenonT(30), <1>2 DEF kill, RdType
  <2> QED
    BY SMTT(30), <1>0, <1>2, <2>1, SpendType DEF kill
<1>3. CASE read_acquire(p)
  <2>1. rd' \in RdType
    BY ZenonT(30), <1>3 DEF read_acquire, ReadTo, RdType
  <2> QED
    BY Zenon, <1>0, <1>3, <2>1, AcquireType DEF read_acquire
<1>4. CASE read_wait(p)
  <2>1. rd' \in RdType
    BY ZenonT(30), <1>4 DEF read_wait, ReadTo, RdType
  <2> QED
    BY <1>0, <1>4, <2>1, ReleaseType DEF read_wait
<1>5. CASE read_sleep(p)
  <2>1. rd' \in RdType
    BY Zenon, <1>5 DEF read_sleep, ReadTo, RdType
  <2> QED
    BY <1>0, <1>5, <2>1, ReleaseType DEF read_sleep
<1>6. CASE read_char(p)
  <2>1. cons.r \in Index /\ Plus(cons.r, 1) \in Index
    BY Zenon, Constants, PlusIs DEF ConsType
  <2>2. cons' = cons \/ cons' = [cons EXCEPT !.r = Plus(cons.r, 1)]
    BY <1>6 DEF read_char
  <2>3. cons' \in ConsType
    BY <2>1, <2>2 DEF ConsType
  <2>4. \/ rd' = [rd EXCEPT ![p].pc = "idle"] /\ Release("cons")
        \/ rd[p].n > 1 /\ rd' = [rd EXCEPT ![p].n = rd[p].n - 1] /\ lock' = lock
    BY <1>6 DEF read_char, ReadTo
  <2>5. rd' \in RdType
    <3>1. CASE rd' = [rd EXCEPT ![p].pc = "idle"]
      BY Zenon, <3>1 DEF RdType
    <3>2. CASE rd[p].n > 1 /\ rd' = [rd EXCEPT ![p].n = rd[p].n - 1]
      <4>1. rd[p].n - 1 \in Nat
        BY SMTT(30), <3>2 DEF RdType
      <4> QED
        BY Zenon, <3>2, <4>1 DEF RdType
    <3> QED
      BY <2>4, <3>1, <3>2
  <2> QED
    BY <1>0, <1>6, <2>3, <2>4, <2>5, ReleaseType DEF read_char
<1> QED
  BY ZenonT(30), <1>1, <1>2, <1>3, <1>4, <1>5, <1>6 DEF Read

LEMMA WriterType ==
    ASSUME TypeOK, NEW p \in Writer,
           \/ \E n \in WriteLens : consolewrite(p, n) /\ Spend("writes")
           \/ Write(p)
    PROVE  TypeOK'
<1>0. "uart" \in Lock /\ "writes" \in Limit
  BY DEF Lock, Limit
<1> USE DEF TypeOK, input
<1>1. ASSUME NEW n \in WriteLens, consolewrite(p, n), Spend("writes")
      PROVE  TypeOK'
  <2>0. n \in Nat
    BY ConsoleAssumption
  <2>1. wr' \in WrType
    BY <1>1, <2>0 DEF consolewrite, WrType
  <2> QED
    BY SMTT(30), <1>0, <1>1, <2>1, SpendType DEF consolewrite
<1>2. CASE putc_acquire(p)
  <2>1. wr' \in WrType
    BY <1>2 DEF putc_acquire, WrType
  <2> QED
    BY <1>0, <1>2, <2>1, AcquireType DEF putc_acquire
<1>3. CASE putc_sleep(p)
  <2>1. wr' \in WrType
    BY <1>3 DEF putc_sleep, WrType
  <2> QED
    BY <1>0, <1>3, <2>1, ReleaseType DEF putc_sleep
<1>4. ASSUME NEW c \in Text, uartputc(p, c) PROVE TypeOK'
  <2>1. wr' \in WrType
    BY <1>4 DEF uartputc, WrType
  <2>2. /\ tx.w \in Index /\ Plus(tx.w, 1) \in Index
        /\ tx.buf \in Ring(UART_TX_BUF_SIZE) /\ c \in Stored
    BY Zenon, Constants, PlusIs DEF TxType, Stored
  <2>3. [tx.buf EXCEPT ![tx.w % UART_TX_BUF_SIZE] = c]
           \in Ring(UART_TX_BUF_SIZE)
    BY Zenon, <2>2 DEF Ring
  <2>4. tx' = [tx EXCEPT !.buf = [tx.buf EXCEPT ![tx.w % UART_TX_BUF_SIZE] = c],
                         !.w = Plus(tx.w, 1), !.pc = "start"]
    BY <1>4 DEF uartputc, TxType
  <2>5. tx' \in TxType
    BY ZenonT(30), <2>2, <2>3, <2>4 DEF TxType
  <2> QED
    BY <1>4, <2>1, <2>5 DEF uartputc
<1> QED
  BY <1>1, <1>2, <1>3, <1>4 DEF Write

LEMMA StartType ==
    ASSUME TypeOK, Start
    PROVE  TypeOK'
<1>0. "uart" \in Lock
  BY DEF Lock
<1> USE DEF TypeOK, input
<1>1. CASE uartstart
  <2>1. tx' \in TxType
    BY <1>1 DEF uartstart, TxType
  <2> QED
    BY <1>1, <2>1 DEF uartstart
<1>2. CASE start_send
  <2>1. tx.r \in Index /\ Plus(tx.r, 1) \in Index
    BY Zenon, Constants, PlusIs DEF TxType
  <2>2. tx' \in TxType
    BY Zenon, <1>2, <2>1 DEF start_send, TxType
  <2>3. wr' \in WrType
    BY <1>2 DEF start_send, WakeWriters, WrType
  <2>4. tx.buf[tx.r % UART_TX_BUF_SIZE] \in Stored \cup {Echo}
    BY <2>1, Constants DEF TxType, Index, Ring
  <2>5. thr' \in ThrType
    BY <1>2, <2>4 DEF start_send, WriteTHR, ThrType
  <2> QED
    BY <1>2, <2>2, <2>3, <2>5 DEF start_send
<1>3. CASE start_return
  <2>1. tx' \in TxType
    BY <1>3 DEF start_return, TxType
  <2>2. wr' \in WrType
    BY SMTT(30), <1>3 DEF start_return, WrType
  <2>3. h' \in HType
    BY <1>3 DEF start_return, HType
  <2> QED
    BY SMTT(30), <1>0, <1>3, <2>1, <2>2, <2>3, ReleaseType DEF start_return
<1> QED
  BY <1>1, <1>2, <1>3 DEF Start

LEMMA PrintType ==
    ASSUME TypeOK, \/ \E n \in PrintLens : printf(n) /\ Spend("prints")
                   \/ Printing
    PROVE  TypeOK'
<1>0. "pr" \in Lock /\ "prints" \in Limit
  BY DEF Lock, Limit
<1> USE DEF TypeOK, input, output
<1>1. ASSUME NEW n \in PrintLens, printf(n), Spend("prints") PROVE TypeOK'
  <2>0. n \in Nat
    BY ConsoleAssumption
  <2>1. pr' \in PrType
    BY <1>1, <2>0 DEF printf, PrType
  <2> QED
    BY <1>0, <1>1, <2>1, SpendType, AcquireType DEF printf
<1>2. CASE printf_putc
  <2>1. pr' \in PrType
    <3>1. pr.echo - 1 \in Int
      BY DEF PrType
    <3>2. \/ pr' = [pr EXCEPT !.pc = "put"]
          \/ pr' = [pr EXCEPT !.pc = "print", !.echo = pr.echo - 1]
      BY <1>2 DEF printf_putc, Put, PrType
    <3> QED
      BY Zenon, <3>1, <3>2 DEF PrType
  <2>2. thr' \in ThrType
    BY SMTT(30), <1>2 DEF printf_putc, sync_put, WriteTHR, ThrType
  <2> QED
    BY <1>2, <2>1, <2>2 DEF printf_putc
<1>3. CASE printf_end
  <2>1. pr' \in PrType
    BY <1>3 DEF printf_end, PrType
  <2> QED
    BY <1>0, <1>3, <2>1, ReleaseType DEF printf_end
<1> QED
  BY <1>1, <1>2, <1>3 DEF Printing

LEMMA DeviceType ==
    ASSUME TypeOK, \/ \E c \in work.typed : receive(c) /\ Spend("keys")
                   \/ transmit
    PROVE  TypeOK'
<1>0. "keys" \in Limit /\ work.typed \subseteq Key
  BY ZenonT(30) DEF Limit, TypeOK, WorkType
<1> USE DEF TypeOK, input, output
<1>1. ASSUME NEW c \in work.typed, receive(c), Spend("keys") PROVE TypeOK'
  <2>1. rx' \in Seq(Key)
    BY <1>0, <1>1 DEF receive
  <2> QED
    BY ZenonT(30), <1>0, <1>1, <2>1, SpendType DEF receive
<1>2. CASE transmit
  <2>1. thr' \in ThrType
    BY SMTT(30), <1>2 DEF transmit, ThrType
  <2> QED
    BY ZenonT(30), <1>2, <2>1 DEF transmit
<1> QED
  BY ZenonT(30), <1>1, <1>2

\* The key that consoleintr() handles changes the input ring.
LEMMA InputType ==
    ASSUME TypeOK, Input, consoleintr_end
    PROVE  cons' \in ConsType /\ rd' \in RdType
<1>0. /\ cons.e \in Index /\ Plus(cons.e, 1) \in Index
      /\ cons.buf \in Ring(INPUT_BUF_SIZE)
      /\ cons \in ConsType /\ rd \in RdType /\ h.c \in Key
  BY ZenonT(30), Constants, PlusIs DEF TypeOK, ConsType, HType
<1>1. ASSUME NEW k \in 0..Line, Erases(k) PROVE cons' \in ConsType /\ rd' \in RdType
  <2>1. UINT - k \in 0..UINT
    BY Constants, KillsLine DEF Index
  <2>2. Plus(cons.e, UINT - k) \in Index
    BY <1>0, <2>1, PlusIs
  <2> QED
    BY <1>0, <1>1, <2>2 DEF Erases, ConsType
<1>2. ASSUME NEW c \in Stored, Stores(c) PROVE cons' \in ConsType /\ rd' \in RdType
  <2> DEFINE buf == [cons.buf EXCEPT ![cons.e % INPUT_BUF_SIZE] = c]
  <2>1. buf \in Ring(INPUT_BUF_SIZE)
    BY Zenon, <1>0 DEF Ring
  <2>2. \/ /\ cons' = [buf |-> buf, r |-> cons.r, w |-> Plus(cons.e, 1),
                       e |-> Plus(cons.e, 1)]
           /\ rd' = WakeReaders
        \/ /\ cons' = [buf |-> buf, r |-> cons.r, w |-> cons.w,
                       e |-> Plus(cons.e, 1)]
           /\ rd' = rd
    BY ZenonT(30), <1>0, <1>2 DEF Stores, ConsType
  <2> HIDE DEF buf
  <2>3. cons' \in ConsType
    BY <1>0, <2>1, <2>2 DEF ConsType
  <2>4. rd' \in RdType
    BY <1>0, <2>2 DEF RdType, WakeReaders
  <2> QED
    BY <2>3, <2>4
<1>3. KillCount \in 0..Line /\ EraseCount \in 0..Line
  BY SMTT(30), KillsLine, Constants DEF Index
<1>4. Accepts(h.c) => (IF h.c = CR THEN NL ELSE h.c) \in Stored
  BY <1>0 DEF Accepts, Key, Stored
<1>5. \/ Erases(KillCount) \/ Erases(EraseCount)
      \/ Accepts(h.c) /\ Stores(IF h.c = CR THEN NL ELSE h.c)
      \/ UNCHANGED <<cons, rd>>
  BY SMTT(30) DEF consoleintr_end
<1> QED
  BY SMTT(30), <1>0, <1>1, <1>2, <1>3, <1>4, <1>5

LEMMA HandlerType ==
    ASSUME TypeOK, Input, Handler
    PROVE  TypeOK'
<1>0. /\ "cons" \in Lock /\ "pr" \in Lock /\ "uart" \in Lock
      /\ h \in HType /\ CtrlP \in Key
  BY DEF Lock, TypeOK, Key
<1> USE DEF TypeOK, input, output
<1>1. CASE devintr
  <2>1. h' \in HType
    BY <1>1 DEF devintr, HType
  <2> QED
    BY <1>1, <2>1 DEF devintr
<1>2. CASE uartgetc
  <2>1. rx # << >> => Head(rx) \in Key
    OBVIOUS
  <2>2. \/ rx # << >> /\ h' = [h EXCEPT !.pc = "cons", !.c = Head(rx)]
        \/ h' = [h EXCEPT !.pc = "uart", !.c = CtrlP]
    BY <1>2 DEF uartgetc
  <2>3. h' \in HType
    BY Zenon, <1>0, <2>1, <2>2 DEF HType
  <2>4. rx' \in Seq(Key)
    BY <1>2 DEF uartgetc
  <2> QED
    BY <1>2, <2>3, <2>4 DEF uartgetc
<1>3. CASE uartintr
  <2>1. h' \in HType /\ tx' \in TxType
    BY <1>3 DEF uartintr, HType, TxType
  <2> QED
    BY <1>0, <1>3, <2>1, AcquireType DEF uartintr
<1>4. CASE consoleintr
  <2>1. KillCount \in Int /\ EraseCount \in Int
    BY KillsLine, Constants DEF Index
  <2>2. EchoLength(h.c) \in Int
    BY <2>1 DEF EchoLength
  <2>3. h' \in HType
    BY Zenon, <1>4, <2>2 DEF consoleintr, HType
  <2> QED
    BY <1>0, <1>4, <2>3, AcquireType DEF consoleintr
<1>5. CASE procdump
  <2>1. h' \in HType
    <3>1. h' = [h EXCEPT !.pc = "print", !.echo = 1] /\ 1 \in Int
      BY <1>5 DEF procdump
    <3> QED
      BY Zenon, <1>0, <3>1 DEF HType
  <2> QED
    BY <1>0, <1>5, <2>1, AcquireType DEF procdump
<1>6. CASE procdump_end
  BY <1>0, <1>6, ReleaseType DEF procdump_end
<1>7. CASE consputc
  <2>1. h.echo - 1 \in Int
    BY DEF HType
  <2>2. \/ h' = [h EXCEPT !.pc = "put"]
        \/ h' = [h EXCEPT !.pc = "print", !.echo = h.echo - 1]
    BY <1>7 DEF consputc, Put, HType
  <2>3. h' \in HType
    BY Zenon, <2>1, <2>2 DEF HType
  <2>4. thr' \in ThrType
    BY SMTT(30), <1>7 DEF consputc, sync_put, WriteTHR, ThrType
  <2> QED
    BY SMTT(30), <1>7, <2>3, <2>4 DEF consputc
<1>8. CASE consoleintr_end
  <2>1. h' \in HType
    BY ZenonT(30), <1>0, <1>8 DEF consoleintr_end, HType
  <2>2. cons' \in ConsType /\ rd' \in RdType
    BY SMTT(30), <1>8, InputType
  <2> QED
    BY <1>0, <1>8, <2>1, <2>2, ReleaseType DEF consoleintr_end
<1> QED
  BY SMTT(30), <1>1, <1>2, <1>3, <1>4, <1>5, <1>6, <1>7, <1>8 DEF Handler

LEMMA TypeStep == TypeOK /\ Input /\ [Next]_vars => TypeOK'
<1> SUFFICES ASSUME TypeOK, Input, [Next]_vars PROVE TypeOK'
  BY SMTT(30)
<1>1. CASE Environment
  BY SMTT(30), <1>1, ReaderType, WriterType, PrintType, DeviceType DEF Environment
<1>2. CASE System
  BY SMTT(30), <1>2, ReaderType, WriterType, StartType, PrintType, DeviceType, HandlerType
  DEF System
<1>3. CASE UNCHANGED vars
  BY <1>3 DEF vars, TypeOK
<1> QED
  BY <1>1, <1>2, <1>3 DEF Next, Quiet

-----------------------------------------------------------------------------
\* What is known of the indices, as plain variables.
LEMMA Indices ==
    ASSUME TypeOK, Input
    PROVE  /\ cons.r \in Index /\ cons.w \in Index /\ cons.e \in Index
           /\ cons.buf \in Ring(INPUT_BUF_SIZE)
           /\ Dist(cons.r, cons.w) \in Index /\ Line \in Index /\ Used \in Index
           /\ Ready \in Seq(Stored) /\ Len(Ready) = Dist(cons.r, cons.w)
           /\ Edited \in Seq(Stored) /\ Len(Edited) = Line
<1>1. /\ cons.r \in Index /\ cons.w \in Index /\ cons.e \in Index
      /\ cons.buf \in Ring(INPUT_BUF_SIZE)
  BY DEF TypeOK, ConsType
<1>2. Dist(cons.r, cons.w) \in Index /\ Line \in Index /\ Used \in Index
  BY <1>1, DistIs DEF Line, Used
<1>3. /\ Contents(Ready, cons.buf, INPUT_BUF_SIZE, cons.r, cons.w)
      /\ Contents(Edited, cons.buf, INPUT_BUF_SIZE, cons.w, cons.e)
  BY <1>1, Sizes, WindowIs DEF Ready, Edited
<1> QED
  BY <1>1, <1>2, <1>3 DEF Contents, Line

\* consoleread() takes a character.
LEMMA TakeInput ==
    ASSUME TypeOK, Input, cons.r # cons.w,
           cons' = [cons EXCEPT !.r = Plus(cons.r, 1)]
    PROVE  /\ Input' /\ Edited' = Edited
           /\ Ready # << >> /\ Ready' = Tail(Ready)
<1>0. /\ cons.r \in Index /\ cons.w \in Index /\ cons.e \in Index
      /\ cons.buf \in Ring(INPUT_BUF_SIZE)
      /\ Dist(cons.r, cons.w) \in Index /\ Line \in Index /\ Used \in Index
  BY Indices
<1>1. /\ cons'.r = Plus(cons.r, 1) /\ cons'.w = cons.w /\ cons'.e = cons.e
      /\ cons'.buf = cons.buf
  BY DEF TypeOK, ConsType
<1>2. Edited' = Edited /\ Line' = Line
  BY <1>1 DEF Edited, Line, Window, Dist, Plus
<1>3. Ready # << >> /\ Ready' = Tail(Ready)
  <2>1. /\ Ready # << >>
        /\ Window(cons.buf, INPUT_BUF_SIZE, Plus(cons.r, 1), cons.w) = Tail(Ready)
    <3>1. Size(INPUT_BUF_SIZE)
      BY Sizes
    <3> QED
      BY ZenonT(30), <1>0, <3>1, WindowPop DEF Ready
  <2> QED
    BY ZenonT(30), <1>1, <2>1 DEF Ready, Window, Dist, Plus
<1>4. /\ Dist(cons.r, cons.w) # 0
      /\ Dist(Plus(cons.r, 1), cons.w) = Dist(cons.r, cons.w) - 1
  BY <1>0, Distances
<1>5. Used # 0
  BY SMTT(30), <1>0, <1>4, Constants DEF Input, Index
<1>6. Dist(Plus(cons.r, 1), cons.e) = Used - 1
  BY <1>0, <1>5, Distances DEF Used
<1>7. Dist(cons.r, cons.w)' = Dist(cons.r, cons.w) - 1 /\ Used' = Used - 1
  BY SMTT(30), <1>1, <1>4, <1>6 DEF Used, Dist
<1>8. Input'
  <2>1. Line' = Line
    BY Zenon, <1>1 DEF Line, Dist
  <2>2. Edited' \in Seq(Stored \ {NL, CtrlD})
    BY Zenon, <1>2 DEF Input
  <2>3. /\ Dist(cons.r, cons.w)' + Line = Used'
        /\ Used' <= INPUT_BUF_SIZE /\ Used' # INPUT_BUF_SIZE
    BY SMTT(30), <1>0, <1>7, Constants DEF Input, Index
  <2> QED
    BY Zenon, <2>1, <2>2, <2>3 DEF Input
<1> QED
  BY <1>2, <1>3, <1>8

\* ^U and ^H erase characters of the line.
LEMMA EraseInput ==
    ASSUME TypeOK, Input, NEW k \in 0..Line, Erases(k)
    PROVE  /\ Input' /\ Ready' = Ready
           /\ Edited' = SubSeq(Edited, 1, Line - k)
<1>0. /\ cons.r \in Index /\ cons.w \in Index /\ cons.e \in Index
      /\ cons.buf \in Ring(INPUT_BUF_SIZE)
      /\ Dist(cons.r, cons.w) \in Index /\ Line \in Index /\ Used \in Index
      /\ Len(Edited) = Line
  BY Indices
<1>1. /\ cons'.r = cons.r /\ cons'.w = cons.w
      /\ cons'.e = Plus(cons.e, UINT - k) /\ cons'.buf = cons.buf
  BY DEF TypeOK, ConsType, Erases
<1>2. Ready' = Ready /\ Dist(cons.r, cons.w)' = Dist(cons.r, cons.w)
  BY <1>1 DEF Ready, Window, Dist, Plus
<1>3. Edited' = SubSeq(Edited, 1, Line - k)
  <2>1. Window(cons.buf, INPUT_BUF_SIZE, cons.w, Plus(cons.e, UINT - k)) =
           SubSeq(Edited, 1, Line - k)
    <3>1. Size(INPUT_BUF_SIZE) /\ k \in 0..Dist(cons.w, cons.e)
      BY Sizes DEF Line
    <3>2. Window(cons.buf, INPUT_BUF_SIZE, cons.w, Plus(cons.e, UINT - k)) =
             SubSeq(Window(cons.buf, INPUT_BUF_SIZE, cons.w, cons.e), 1,
                    Dist(cons.w, cons.e) - k)
      BY SMTT(30), <1>0, <3>1, WindowDrop
    <3> QED
      BY <3>2 DEF Edited, Line
  <2> QED
    BY ZenonT(30), <1>1, <2>1 DEF Edited, Window, Dist, Plus
<1>4. k \in 0..Used /\ UINT - k \in 0..UINT /\ k \in Nat /\ k <= Line
  BY SMTT(30), <1>0, Constants DEF Input, Index
<1>5. /\ Dist(cons.w, Plus(cons.e, UINT - k)) = Line - k
      /\ Dist(cons.r, Plus(cons.e, UINT - k)) = Used - k
  BY <1>0, <1>4, Distances DEF Line, Used
<1>6. Line' = Line - k /\ Used' = Used - k
  BY <1>1, <1>5 DEF Line, Used, Dist
<1>7. Used' = INPUT_BUF_SIZE => cons'.w = cons'.e
  <2> SUFFICES ASSUME Used' = INPUT_BUF_SIZE PROVE cons'.w = cons'.e
    OBVIOUS
  <2>1. Used = INPUT_BUF_SIZE
    BY <1>0, <1>6, Constants DEF Input, Index
  <2>2. Line = 0
    BY <1>0, <2>1, Distances DEF Input, Line
  <2>3. Line' = 0
    <3>1. k = 0
      BY <1>4, <2>2
    <3> QED
      BY <1>6, <2>2, <3>1
  <2>4. Plus(cons.e, UINT - k) \in Index
    BY <1>0, <1>4, PlusIs
  <2> QED
    BY SMTT(30), <1>0, <1>1, <2>3, <2>4, Distances DEF Line
<1>8. Edited' \in Seq(Stored \ {NL, CtrlD})
  BY SMTT(30), <1>0, <1>3, Constants DEF Input, Index
<1>9. Input'
  <2>1. Dist(cons.r, cons.w)' = Dist(cons.r, cons.w)
    BY Zenon, <1>1 DEF Dist
  <2>2. Dist(cons.r, cons.w) + Line' = Used' /\ Used' <= INPUT_BUF_SIZE
    BY <1>0, <1>4, <1>6, Constants DEF Input, Index
  <2> QED
    BY Zenon, <1>7, <1>8, <2>1, <2>2 DEF Input
<1> QED
  BY <1>2, <1>3, <1>9

\* consoleintr() stores a character, and hands the line over if that ends it.
LEMMA StoreInput ==
    ASSUME TypeOK, Input, NEW c \in Stored, Used < INPUT_BUF_SIZE, Stores(c)
    PROVE  /\ Input'
           /\ IF Completes(c) THEN /\ Ready' = Ready \o Append(Edited, c)
                                   /\ Edited' = << >>
              ELSE Edited' = Append(Edited, c) /\ Ready' = Ready
<1> DEFINE e == Plus(cons.e, 1)
           buf == Written(cons.buf, INPUT_BUF_SIZE, cons.e, c)
           s == INPUT_BUF_SIZE
<1>0. /\ cons.r \in Index /\ cons.w \in Index /\ cons.e \in Index
      /\ cons.buf \in Ring(s)
      /\ Dist(cons.r, cons.w) \in Index /\ Line \in Index /\ Used \in Index
      /\ Ready \in Seq(Stored) /\ Edited \in Seq(Stored) /\ Size(s)
  BY Indices, Sizes
<1>1. Dist(cons.r, cons.w) + Line = Used /\ Line < s /\ Line + 1 < UINT
      /\ Used + 1 < UINT
  BY SMTT(30), <1>0, Constants DEF Input, Index
<1>2. /\ e \in Index /\ Dist(cons.w, e) = Line + 1 /\ Dist(cons.r, e) = Used + 1
  <2>1. e \in Index
    BY Zenon, <1>0, Constants, PlusIs
  <2> QED
    BY <1>0, <1>1, <2>1, Distances DEF Line, Used
<1>3. buf \in Ring(s)
  BY Zenon, <1>0 DEF Ring, Written
<1>4. cons'.buf = buf /\ cons'.r = cons.r /\ cons'.e = e
      /\ cons'.w = IF Completes(c) THEN e ELSE cons.w
  BY Zenon DEF Stores, TypeOK, ConsType, Written
<1> HIDE DEF e, buf
<1>5. Used' = Used + 1
  BY <1>2, <1>4 DEF Used, Dist
<1>6. CASE Completes(c)
  <2>1. Dist(e, e) = 0
    BY SMTT(30), <1>2, Distances
  <2>2. Line' = 0 /\ Dist(cons.r, cons.w)' = Used + 1
    BY SMTT(30), <1>2, <1>4, <1>6, <2>1 DEF Line, Dist
  <2>3. Edited' = << >>
    <3>1. Window(buf, s, e, e) = << >>
      BY SMTT(30), <2>1 DEF Window
    <3> QED
      BY SMTT(30), <1>4, <1>6, <3>1 DEF Edited, Window, Dist, Plus
  <2>4. Window(buf, s, cons.r, e) =
           Append(Window(cons.buf, s, cons.r, cons.e), c)
    <3>1. Dist(cons.r, cons.e) < INPUT_BUF_SIZE
      BY DEF Used
    <3> QED
      BY SMTT(30), <1>0, <3>1, WindowPush DEF e, buf
  <2>5. Window(cons.buf, s, cons.r, cons.e) = Ready \o Edited
    BY <1>0, <1>1, WindowJoin DEF Ready, Edited, Line, Used
  <2>6. Append(Ready \o Edited, c) = Ready \o Append(Edited, c)
    BY SMTT(30), <1>0
  <2>7. Ready' = Ready \o Append(Edited, c)
    BY ZenonT(30), <1>4, <1>6, <2>4, <2>5, <2>6 DEF Ready, Window, Dist, Plus
  <2>8. Input'
    BY SMTT(30), <1>0, <1>4, <1>5, <1>6, <2>2, <2>3, Constants DEF Input, Index
  <2> QED
    BY SMTT(30), <1>6, <2>3, <2>7, <2>8
<1>7. CASE ~Completes(c)
  <2>1. Line' = Line + 1 /\ Dist(cons.r, cons.w)' = Dist(cons.r, cons.w)
    BY SMTT(30), <1>2, <1>4, <1>7 DEF Line, Dist
  <2>2. Window(buf, s, cons.w, e) = Append(Edited, c)
    <3>1. Dist(cons.w, cons.e) < INPUT_BUF_SIZE
      BY <1>1 DEF Line
    <3> QED
      BY SMTT(30), <1>0, <3>1, WindowPush DEF Edited, e, buf
  <2>3. Edited' = Append(Edited, c)
    BY ZenonT(30), <1>4, <1>7, <2>2 DEF Edited, Window, Dist, Plus
  <2>4. Window(buf, s, cons.r, cons.w) = Ready
    BY SMTT(30), <1>0, <1>1, WindowKept DEF Ready, Line, Used, buf
  <2>5. Ready' = Ready
    BY <1>4, <1>7, <2>4 DEF Ready, Window, Dist, Plus
  <2>6. c \in Stored \ {NL, CtrlD} /\ Used + 1 # s
    BY <1>7 DEF Completes
  <2>7. Edited' \in Seq(Stored \ {NL, CtrlD})
    BY SMTT(30), <2>3, <2>6 DEF Input
  <2>8. Input'
    BY SMTT(30), <1>0, <1>1, <1>5, <2>1, <2>6, <2>7, Constants DEF Input, Index
  <2> QED
    BY SMTT(30), <1>7, <2>3, <2>5, <2>8
<1> QED
  BY Zenon, <1>6, <1>7

\* Who changes the input ring.
LEMMA InputChanges ==
    ASSUME [Next]_vars
    PROVE  cons' = cons \/ consoleintr_end \/ \E p \in Reader : read_char(p)
<1> USE DEF input
<1>1. CASE Environment
  BY <1>1 DEF Environment, receive, consoleread, consolewrite, printf, kill
<1>2. CASE Handler
  BY <1>2 DEF Handler, devintr, uartgetc, uartintr, consoleintr, procdump,
              procdump_end, consputc
<1>3. CASE transmit \/ Start \/ Printing
  BY ZenonT(30), <1>3
  DEF transmit, Start, uartstart, start_send, start_return, Printing,
              printf_putc, printf_end
<1>4. CASE \E p \in Reader : Read(p)
  BY ZenonT(30), <1>4 DEF Read, read_acquire, read_wait, read_sleep
<1>5. CASE \E p \in Writer : Write(p)
  BY Zenon, <1>5 DEF Write, putc_acquire, putc_sleep, uartputc
<1>6. CASE UNCHANGED vars
  BY <1>6 DEF vars
<1> QED
  BY ZenonT(30), <1>1, <1>2, <1>3, <1>4, <1>5, <1>6 DEF Next, Quiet, System

LEMMA InputStep == TypeOK /\ Input /\ [Next]_vars => Input'
<1> SUFFICES ASSUME TypeOK, Input, [Next]_vars PROVE Input'
  OBVIOUS
<1>1. CASE cons' = cons
  BY <1>1 DEF Input, Edited, Line, Used, Dist, Window, Plus
<1>2. ASSUME NEW p \in Reader, read_char(p) PROVE Input'
  <2>1. \/ cons' = cons
        \/ cons.r # cons.w /\ cons' = [cons EXCEPT !.r = Plus(cons.r, 1)]
    BY <1>2 DEF read_char
  <2> QED
    BY SMTT(30), <1>1, <2>1, TakeInput
<1>3. CASE consoleintr_end
  <2>1. KillCount \in 0..Line /\ EraseCount \in 0..Line
    BY KillsLine, Constants DEF Index
  <2>2. Accepts(h.c) => /\ (IF h.c = CR THEN NL ELSE h.c) \in Stored
                        /\ Used < INPUT_BUF_SIZE
    BY DEF Accepts, Key, Stored, TypeOK, HType
  <2>3. \/ Erases(KillCount) \/ Erases(EraseCount)
        \/ Accepts(h.c) /\ Stores(IF h.c = CR THEN NL ELSE h.c)
        \/ cons' = cons
    BY <1>3 DEF consoleintr_end
  <2> QED
    BY SMTT(30), <1>1, <2>1, <2>2, <2>3, EraseInput, StoreInput
<1> QED
  BY SMTT(30), <1>1, <1>2, <1>3, InputChanges
-----------------------------------------------------------------------------
LEMMA OutputIndices ==
    ASSUME TypeOK
    PROVE  /\ tx.r \in Index /\ tx.w \in Index /\ tx.buf \in Ring(UART_TX_BUF_SIZE)
           /\ Dist(tx.r, tx.w) \in Index
           /\ Len(Outgoing) = Dist(tx.r, tx.w)
           /\ Full <=> Dist(tx.r, tx.w) = UART_TX_BUF_SIZE
<1>1. tx.r \in Index /\ tx.w \in Index /\ tx.buf \in Ring(UART_TX_BUF_SIZE)
  BY DEF TypeOK, TxType
<1>2. Dist(tx.r, tx.w) \in Index
  BY SMTT(30), <1>1, DistIs
<1>3. Contents(Outgoing, tx.buf, UART_TX_BUF_SIZE, tx.r, tx.w)
  BY <1>1, Sizes, WindowIs DEF Outgoing
<1>4. Full <=> Dist(tx.r, tx.w) = UART_TX_BUF_SIZE
  <2>1. UART_TX_BUF_SIZE \in Index
    BY Constants
  <2>2. \A n \in Index : tx.w = Plus(tx.r, n) <=> Dist(tx.r, tx.w) = n
    BY <1>1, Distances
  <2> QED
    BY <2>1, <2>2 DEF Full
<1> QED
  BY SMTT(30), <1>1, <1>2, <1>3, <1>4 DEF Contents

\* uartputc() adds a character to the transmit ring ...
LEMMA PutOutput ==
    ASSUME TypeOK, Output, NEW p \in Writer, NEW c \in Text, uartputc(p, c)
    PROVE  /\ Output' /\ Len(Outgoing) < UART_TX_BUF_SIZE
           /\ Outgoing' = Append(Outgoing, c)
<1> DEFINE s == UART_TX_BUF_SIZE
           buf == Written(tx.buf, s, tx.w, c)
<1>0. /\ tx.r \in Index /\ tx.w \in Index /\ tx.buf \in Ring(s) /\ Size(s)
      /\ Dist(tx.r, tx.w) \in Index /\ Len(Outgoing) = Dist(tx.r, tx.w)
      /\ c \in Stored
  BY OutputIndices, Sizes DEF Stored
<1>1. Dist(tx.r, tx.w) # s
  BY OutputIndices DEF uartputc
<1>2. Dist(tx.r, tx.w) < s /\ Dist(tx.r, tx.w) + 1 < UINT
  BY <1>0, <1>1, Constants DEF Output, Index
<1>3. /\ tx'.buf = buf /\ tx'.r = tx.r /\ tx'.w = Plus(tx.w, 1)
      /\ tx'.pc = "start"
  BY SMTT(30) DEF uartputc, TypeOK, TxType, Written
<1> HIDE DEF buf
<1>4. Dist(tx.r, Plus(tx.w, 1)) = Dist(tx.r, tx.w) + 1
  BY <1>0, <1>2, Distances
<1>5. Dist(tx.r, tx.w)' = Dist(tx.r, tx.w) + 1
  BY SMTT(30), <1>3, <1>4 DEF Dist
<1>6. Output'
  <2>1. Dist(tx.r, tx.w) + 1 <= UART_TX_BUF_SIZE
    BY <1>0, <1>2, Constants DEF Index
  <2> QED
    BY SMTT(30), <1>3, <1>5, <2>1 DEF Output
<1>7. Window(buf, s, tx.r, Plus(tx.w, 1)) = Append(Outgoing, c)
  <2> HIDE DEF s
  <2>1. Window(Written(tx.buf, s, tx.w, c), s, tx.r, Plus(tx.w, 1)) =
           Append(Window(tx.buf, s, tx.r, tx.w), c)
    BY <1>0, <1>2, WindowPush
  <2> QED
    BY Zenon, <2>1 DEF Outgoing, buf, s
<1>8. Outgoing' = Append(Outgoing, c)
  BY Zenon, <1>3, <1>7 DEF Outgoing, Window, Dist, Plus
<1> QED
  BY SMTT(30), <1>0, <1>2, <1>6, <1>8

\* ... and uartstart() takes the oldest one.
LEMMA SendOutput ==
    ASSUME TypeOK, Output, start_send
    PROVE  /\ Output' /\ Outgoing # << >>
           /\ Outgoing' = Tail(Outgoing)
<1>0. /\ tx.r \in Index /\ tx.w \in Index /\ tx.buf \in Ring(UART_TX_BUF_SIZE)
      /\ Size(UART_TX_BUF_SIZE) /\ tx.r # tx.w /\ Dist(tx.r, tx.w) \in Index
  BY OutputIndices, Sizes DEF Output, start_send
<1>1. /\ tx'.buf = tx.buf /\ tx'.r = Plus(tx.r, 1) /\ tx'.w = tx.w
      /\ tx'.pc = "start"
  BY DEF start_send, TypeOK, TxType
<1>2. Dist(Plus(tx.r, 1), tx.w) = Dist(tx.r, tx.w) - 1
  BY <1>0, Distances
<1>3. Dist(tx.r, tx.w)' = Dist(tx.r, tx.w) - 1
  BY ZenonT(30), <1>1, <1>2 DEF Dist
<1>4. Output'
  BY SMTT(30), <1>0, <1>1, <1>3, Constants DEF Output, Index
<1>5. /\ Outgoing # << >>
      /\ Window(tx.buf, UART_TX_BUF_SIZE, Plus(tx.r, 1), tx.w) = Tail(Outgoing)
  BY <1>0, WindowPop DEF Outgoing
<1>6. Outgoing' = Tail(Outgoing)
  BY ZenonT(30), <1>1, <1>5 DEF Outgoing, Window, Dist, Plus
<1> QED
  BY <1>4, <1>5, <1>6

\* Who changes the transmit ring: besides those two, only where uartstart is.
LEMMA TxChanges ==
    ASSUME [Next]_vars
    PROVE  \/ tx' = tx \/ start_send \/ uartintr \/ uartstart \/ start_return
           \/ \E p \in Writer, c \in Text : uartputc(p, c)
<1> USE DEF output
<1>1. CASE Environment
  BY <1>1 DEF Environment, receive, consoleread, consolewrite, printf, kill
<1>2. CASE Handler
  BY <1>2 DEF Handler, devintr, uartgetc, consoleintr, procdump,
              procdump_end, consputc, consoleintr_end
<1>3. CASE transmit \/ Printing
  BY <1>3 DEF transmit, Printing, printf_putc, printf_end
<1>4. CASE \E p \in Reader : Read(p)
  BY <1>4 DEF Read, read_acquire, read_wait, read_sleep, read_char
<1>5. CASE \E p \in Writer : putc_acquire(p) \/ putc_sleep(p)
  BY ZenonT(30), <1>5 DEF putc_acquire, putc_sleep
<1>6. CASE UNCHANGED vars
  BY ZenonT(30), <1>6 DEF vars
<1> QED
  BY ZenonT(30), <1>1, <1>2, <1>3, <1>4, <1>5, <1>6
  DEF Next, Quiet, System, Start, Write

LEMMA OutputChanges ==
    ASSUME TypeOK, [Next]_vars
    PROVE  \/ start_send
           \/ \E p \in Writer, c \in Text : uartputc(p, c)
           \/ /\ tx'.buf = tx.buf /\ tx'.r = tx.r /\ tx'.w = tx.w
              /\ tx'.pc = "send" => tx.pc = "send" \/ (tx.w # tx.r /\ TxIdle)
<1>0. tx \in TxType
  BY SMTT(30) DEF TypeOK
<1>1. CASE tx' = tx
  BY <1>1
<1>2. CASE uartintr
  BY <1>0, <1>2 DEF uartintr, TxType
<1>3. CASE uartstart
  BY <1>0, <1>3 DEF uartstart, TxType
<1>4. CASE start_return
  BY ZenonT(30), <1>0, <1>4 DEF start_return, TxType
<1> QED
  BY SMTT(30), <1>1, <1>2, <1>3, <1>4, TxChanges

LEMMA OutputStep == TypeOK /\ Output /\ [Next]_vars => Output'
<1> SUFFICES ASSUME TypeOK, Output, [Next]_vars PROVE Output'
  OBVIOUS
<1>1. CASE /\ tx'.buf = tx.buf /\ tx'.r = tx.r /\ tx'.w = tx.w
           /\ tx'.pc = "send" => tx.pc = "send" \/ (tx.w # tx.r /\ TxIdle)
  BY SMTT(30), <1>1 DEF Output, Dist
<1> QED
  BY ZenonT(30), <1>1, OutputChanges, PutOutput, SendOutput
-----------------------------------------------------------------------------
\* The transmitter: who is about to write, has found it empty.
LEMMA RoomKept ==
    ASSUME TypeOK, Room, Len(thr') \in Nat, Len(thr') <= Len(thr),
           h'.pc = "put" => h.pc = "put",
           pr'.pc = "put" => pr.pc = "put",
           tx'.pc = "send" => tx.pc = "send"
    PROVE  Room'
<1>1. Len(thr) \in Nat
  BY DEF TypeOK, ThrType
<1>2. /\ About(h.pc = "put") \in {0, 1} /\ About(h'.pc = "put") \in {0, 1}
      /\ About(pr.pc = "put") \in {0, 1} /\ About(pr'.pc = "put") \in {0, 1}
      /\ About(tx.pc = "send") \in {0, 1} /\ About(tx'.pc = "send") \in {0, 1}
  BY DEF About
<1>3. /\ About(h'.pc = "put") <= About(h.pc = "put")
      /\ About(pr'.pc = "put") <= About(pr.pc = "put")
      /\ About(tx'.pc = "send") <= About(tx.pc = "send")
  BY DEF About
<1> QED
  BY SMTT(30), <1>1, <1>2, <1>3 DEF Room

LEMMA RoomIdle == ASSUME TxIdle, thr' = thr PROVE Room'
<1>1. Len(thr') = 0
  BY ZenonT(30) DEF TxIdle
<1> QED
  BY <1>1 DEF Room, About

LEMMA RoomTaken ==
    ASSUME TypeOK, Room, NEW c, WriteTHR(c),
           \/ /\ h.pc = "put" /\ h'.pc # "put"
              /\ pr'.pc = pr.pc /\ tx'.pc = tx.pc
           \/ /\ pr.pc = "put" /\ pr'.pc # "put"
              /\ h'.pc = h.pc /\ tx'.pc = tx.pc
           \/ /\ tx.pc = "send" /\ tx'.pc # "send"
              /\ h'.pc = h.pc /\ pr'.pc = pr.pc
    PROVE  Room'
<1>1. thr \in Seq(Stored \cup {Echo}) /\ thr' = Append(thr, c)
  BY DEF TypeOK, ThrType, WriteTHR
<1>2. Len(thr) \in Nat /\ Len(thr') = Len(thr) + 1
  BY <1>1
<1>3. /\ About(h.pc = "put") \in {0, 1} /\ About(h'.pc = "put") \in {0, 1}
      /\ About(pr.pc = "put") \in {0, 1} /\ About(pr'.pc = "put") \in {0, 1}
      /\ About(tx.pc = "send") \in {0, 1} /\ About(tx'.pc = "send") \in {0, 1}
  BY DEF About
<1>4. \/ /\ About(h'.pc = "put") = About(h.pc = "put") - 1
         /\ About(pr'.pc = "put") = About(pr.pc = "put")
         /\ About(tx'.pc = "send") = About(tx.pc = "send")
      \/ /\ About(h'.pc = "put") = About(h.pc = "put")
         /\ About(pr'.pc = "put") = About(pr.pc = "put") - 1
         /\ About(tx'.pc = "send") = About(tx.pc = "send")
      \/ /\ About(h'.pc = "put") = About(h.pc = "put")
         /\ About(pr'.pc = "put") = About(pr.pc = "put")
         /\ About(tx'.pc = "send") = About(tx.pc = "send") - 1
  BY DEF About
<1> QED
  BY SMTT(30), <1>2, <1>3, <1>4 DEF Room

LEMMA RoomStep == TypeOK /\ Room /\ [Next]_vars => Room'
<1> SUFFICES ASSUME TypeOK, Room, [Next]_vars PROVE Room'
  OBVIOUS
<1>0. /\ h \in HType /\ pr \in PrType /\ tx \in TxType
      /\ thr \in ThrType /\ Len(thr) \in Nat /\ Len(thr) <= Len(thr)
  BY DEF TypeOK, ThrType
<1> USE DEF output
<1>1. CASE Environment
  <2>1. thr' = thr /\ h' = h /\ tx' = tx /\ (pr' = pr \/ pr'.pc = "print")
    BY <1>1 DEF Environment, receive, consoleread, consolewrite, printf, kill
  <2> QED
    BY <1>0, <2>1, RoomKept
<1>2. CASE consputc
  <2>1. CASE sync_wait(h) /\ UNCHANGED thr
    BY <2>1, RoomIdle DEF sync_wait
  <2>2. CASE sync_put(h) /\ h' = Put(h)
    <3>1. /\ h.pc = "put" /\ WriteTHR(Echo) /\ h'.pc = "print"
          /\ pr' = pr /\ tx' = tx
      BY <1>0, <1>2, <2>2 DEF consputc, sync_put, Put, HType
    <3> QED
      BY <3>1, RoomTaken
  <2> QED
    BY <1>2, <2>1, <2>2 DEF consputc
<1>3. CASE Handler /\ ~consputc
  <2>1. thr' = thr /\ pr' = pr /\ (tx' = tx \/ tx'.pc # "send")
    BY SMTT(30), <1>0, <1>3
    DEF Handler, devintr, uartgetc, uartintr, consoleintr, procdump,
              procdump_end, consoleintr_end, TxType
  <2>2. h' = h \/ h'.pc # "put"
    BY Zenon, <1>0, <1>3
    DEF Handler, devintr, uartgetc, uartintr, consoleintr, procdump,
              procdump_end, consoleintr_end, HType
  <2> QED
    BY SMTT(30), <1>0, <2>1, <2>2, RoomKept
<1>4. CASE transmit
  <2>1. /\ Len(thr') \in Nat /\ Len(thr') <= Len(thr)
        /\ h' = h /\ pr' = pr /\ tx' = tx
    BY SMTT(30), <1>0, <1>4 DEF transmit, ThrType
  <2> QED
    BY <2>1, RoomKept
<1>5. CASE printf_putc
  <2>1. CASE sync_wait(pr) /\ UNCHANGED thr
    BY <2>1, RoomIdle DEF sync_wait
  <2>2. CASE sync_put(pr) /\ pr' = Put(pr)
    <3>1. /\ pr.pc = "put" /\ WriteTHR(Echo) /\ pr'.pc = "print"
          /\ h' = h /\ tx' = tx
      BY SMTT(30), <1>0, <1>5, <2>2 DEF printf_putc, sync_put, Put, PrType
    <3> QED
      BY <3>1, RoomTaken
  <2> QED
    BY <1>5, <2>1, <2>2 DEF printf_putc
<1>6. CASE printf_end
  <2>1. thr' = thr /\ h' = h /\ tx' = tx /\ pr'.pc = "idle"
    BY <1>0, <1>6 DEF printf_end, PrType
  <2> QED
    BY <1>0, <2>1, RoomKept
<1>7. CASE uartstart
  BY SMTT(30), <1>7, RoomIdle DEF uartstart
<1>8. CASE start_send
  <2>1. PICK c : WriteTHR(c)
    BY <1>8 DEF start_send
  <2>2. tx.pc = "send" /\ tx'.pc = "start" /\ h' = h /\ pr' = pr
    BY <1>0, <1>8 DEF start_send, TxType
  <2> QED
    BY <2>1, <2>2, RoomTaken
<1>9. CASE start_return
  <2>1. thr' = thr /\ pr' = pr /\ tx'.pc = "idle"
    BY <1>0, <1>9 DEF start_return, TxType
  <2>2. h' = h \/ h'.pc = "idle"
    BY SMTT(30), <1>0, <1>9 DEF start_return, HType
  <2> QED
    BY SMTT(30), <1>0, <2>1, <2>2, RoomKept
<1>10. CASE \E p \in Reader : Read(p)
  <2>1. thr' = thr /\ h' = h /\ tx' = tx /\ pr' = pr
    BY SMTT(30), <1>10 DEF Read, read_acquire, read_wait, read_sleep, read_char
  <2> QED
    BY SMTT(30), <1>0, <2>1, RoomKept
<1>11. CASE \E p \in Writer : Write(p)
  <2>1. thr' = thr /\ h' = h /\ pr' = pr /\ (tx' = tx \/ tx'.pc = "start")
    BY ZenonT(30), <1>0, <1>11
    DEF Write, putc_acquire, putc_sleep, uartputc, TxType
  <2> QED
    BY <1>0, <2>1, RoomKept
<1>12. CASE UNCHANGED vars
  <2>1. thr' = thr /\ h' = h /\ tx' = tx /\ pr' = pr
    BY <1>12 DEF vars
  <2> QED
    BY <1>0, <2>1, RoomKept
<1> QED
  BY ZenonT(30), <1>1, <1>2, <1>3, <1>4, <1>5, <1>6, <1>7, <1>8, <1>9, <1>10,
     <1>11, <1>12
  DEF Next, Quiet, System, Start, Printing
-----------------------------------------------------------------------------
\* The locks.
LEMMA Names ==
    /\ \A p \in Reader \cup Writer : p # "intr" /\ p # Free /\ p # "printf"
    /\ "intr" # Free /\ "cons" \in Lock /\ "uart" \in Lock /\ "pr" \in Lock
BY SMTT(30), ConsoleAssumption DEF Free, Lock

LEMMA ConsKept ==
    ASSUME Locks, lock'["cons"] = lock["cons"],
           rd' = rd, h'.pc \in {"dump", "print", "put"} <=>
                     h.pc \in {"dump", "print", "put"}
    PROVE  ReadLock' /\ KeyLock'
BY DEF Locks, ReadLock, KeyLock

LEMMA UartKept ==
    ASSUME Locks, lock'["uart"] = lock["uart"],
           wr' = wr, h'.pc = "start" <=> h.pc = "start"
    PROVE  WriteLock' /\ StartLock'
BY DEF Locks, WriteLock, StartLock

LEMMA ReaderLocks ==
    ASSUME TypeOK, Locks, NEW p \in Reader,
           (\E n \in ReadLens : consoleread(p, n)) \/ kill(p) \/ Read(p)
    PROVE  Locks'
<1>0. /\ rd \in RdType /\ lock \in LockType
      /\ \A q \in Reader : q # "intr" /\ q # Free
  BY ZenonT(30), Names DEF TypeOK
<1>1. lock'["uart"] = lock["uart"] /\ wr' = wr /\ h' = h
  <2>1. lock' = lock \/ Release("cons") \/ Acquire("cons", p)
    BY DEF consoleread, kill, Read, read_acquire, read_wait, read_sleep, read_char
  <2> QED
    BY ZenonT(30), <1>0, <2>1, AcquireType, ReleaseType, Names
    DEF consoleread, kill, Read, read_acquire, read_wait, read_sleep, read_char
<1>2. WriteLock' /\ StartLock'
  BY <1>1, UartKept
<1>3. \A q \in Reader : q # p => rd'[q] = rd[q]
  BY ZenonT(30), <1>0 DEF consoleread, kill, Read, read_acquire, read_wait, read_sleep,
              read_char, ReadTo, RdType
<1>4. \/ /\ lock' = lock
         /\ rd'[p].pc \in {"loop", "dozing"} <=> rd[p].pc \in {"loop", "dozing"}
      \/ Release("cons") /\ rd[p].pc \in {"loop", "dozing"}
         /\ rd'[p].pc \notin {"loop", "dozing"}
      \/ Acquire("cons", p) /\ rd'[p].pc = "loop"
  BY <1>0
  DEF consoleread, kill, Read, read_acquire, read_wait, read_sleep,
              read_char, ReadTo, RdType
<1>5. ReadLock' /\ KeyLock'
  <2>1. CASE /\ lock' = lock
             /\ rd'[p].pc \in {"loop", "dozing"} <=> rd[p].pc \in {"loop", "dozing"}
    BY ZenonT(30), <1>1, <1>3, <2>1 DEF Locks, ReadLock, KeyLock
  <2>2. CASE Release("cons") /\ rd[p].pc \in {"loop", "dozing"}
             /\ rd'[p].pc \notin {"loop", "dozing"}
    <3>1. lock'["cons"] = Free /\ lock["cons"] = p
      BY SMTT(30), <1>0, <2>2, ReleaseType, Names DEF Locks, ReadLock
    <3> QED
      BY ZenonT(30), <1>0, <1>1, <1>3, <2>2, <3>1, Names
      DEF Locks, ReadLock, KeyLock
  <2>3. CASE Acquire("cons", p) /\ rd'[p].pc = "loop"
    <3>1. lock'["cons"] = p /\ lock["cons"] = Free
      BY ZenonT(30), <1>0, <2>3, AcquireType, Names DEF Acquire
    <3> QED
      BY ZenonT(30), <1>0, <1>1, <1>3, <2>3, <3>1, Names
      DEF Locks, ReadLock, KeyLock
  <2> QED
    BY ZenonT(30), <1>4, <2>1, <2>2, <2>3
<1> QED
  BY <1>2, <1>5 DEF Locks

LEMMA WriterLocks ==
    ASSUME TypeOK, Locks, NEW p \in Writer,
           (\E n \in WriteLens : consolewrite(p, n)) \/ Write(p)
    PROVE  Locks'
<1>0. /\ wr \in WrType /\ lock \in LockType
      /\ \A q \in Writer : q # "intr" /\ q # Free
  BY Names DEF TypeOK
<1> USE DEF input
<1>1. lock'["cons"] = lock["cons"] /\ rd' = rd /\ h' = h
  <2>1. lock' = lock \/ Release("uart") \/ Acquire("uart", p)
    BY Zenon DEF consolewrite, Write, putc_acquire, putc_sleep, uartputc
  <2> QED
    BY ZenonT(30), <1>0, <2>1, AcquireType, ReleaseType, Names
    DEF consolewrite, Write, putc_acquire, putc_sleep, uartputc
<1>2. ReadLock' /\ KeyLock'
  BY <1>1, ConsKept
<1>3. \A q \in Writer : q # p => wr'[q] = wr[q]
  BY ZenonT(30), <1>0
  DEF consolewrite, Write, putc_acquire, putc_sleep, uartputc, WrType
<1>4. \/ /\ lock' = lock
         /\ wr'[p].pc \in {"loop", "start"} <=> wr[p].pc \in {"loop", "start"}
      \/ /\ Release("uart") /\ wr[p].pc \in {"loop", "start"}
         /\ wr'[p].pc \notin {"loop", "start"}
      \/ Acquire("uart", p) /\ wr'[p].pc = "loop"
  <2>1. CASE \E n \in WriteLens : consolewrite(p, n)
    BY <1>0, <2>1 DEF consolewrite, WrType
  <2>2. CASE putc_acquire(p)
    BY <1>0, <2>2 DEF putc_acquire, WrType
  <2>3. CASE putc_sleep(p)
    BY <1>0, <2>3 DEF putc_sleep, WrType
  <2>4. ASSUME NEW c \in Text, uartputc(p, c)
        PROVE  lock' = lock /\ wr[p].pc = "loop" /\ wr'[p].pc = "start"
    BY <1>0, <2>4 DEF uartputc, WrType
  <2> QED
    BY ZenonT(30), <2>1, <2>2, <2>3, <2>4 DEF Write
<1>5. WriteLock' /\ StartLock'
  <2>1. CASE /\ lock' = lock
             /\ wr'[p].pc \in {"loop", "start"} <=> wr[p].pc \in {"loop", "start"}
    BY ZenonT(30), <1>1, <1>3, <2>1 DEF Locks, WriteLock, StartLock
  <2>2. CASE /\ Release("uart") /\ wr[p].pc \in {"loop", "start"}
             /\ wr'[p].pc \notin {"loop", "start"}
    <3>1. lock'["uart"] = Free /\ lock["uart"] = p
      BY ZenonT(30), <1>0, <2>2, ReleaseType, Names DEF Locks, WriteLock
    <3> QED
      BY ZenonT(30), <1>0, <1>1, <1>3, <2>2, <3>1, Names
      DEF Locks, WriteLock, StartLock
  <2>3. CASE Acquire("uart", p) /\ wr'[p].pc = "loop"
    <3>1. lock'["uart"] = p /\ lock["uart"] = Free
      BY ZenonT(30), <1>0, <2>3, AcquireType, Names DEF Acquire
    <3> QED
      BY SMTT(30), <1>0, <1>1, <1>3, <2>3, <3>1, Names
      DEF Locks, WriteLock, StartLock
  <2> QED
    BY ZenonT(30), <1>4, <2>1, <2>2, <2>3
<1> QED
  BY <1>2, <1>5 DEF Locks

LEMMA StartLocks == ASSUME TypeOK, Locks, Start PROVE Locks'
<1>0. /\ wr \in WrType /\ h \in HType /\ lock \in LockType
      /\ \A q \in Writer : q # "intr" /\ q # Free
  BY Names DEF TypeOK
<1> USE DEF input
<1>1. CASE uartstart
  <2>1. lock' = lock /\ rd' = rd /\ wr' = wr /\ h' = h
    BY <1>1 DEF uartstart
  <2> QED
    BY <2>1, ConsKept, UartKept DEF Locks
<1>2. CASE start_send
  <2>1. lock' = lock /\ rd' = rd /\ h' = h
    BY <1>2 DEF start_send
  <2>2. ReadLock' /\ KeyLock'
    BY <2>1, ConsKept
  <2>3. \A p \in Writer : wr'[p].pc \in {"loop", "start"} <=>
                          wr[p].pc \in {"loop", "start"}
    BY <1>0, <1>2 DEF start_send, WakeWriters, WrType
  <2> QED
    BY <2>1, <2>2, <2>3 DEF Locks, WriteLock, StartLock
<1>3. CASE start_return
  <2>1. rd' = rd /\ lock'["uart"] = Free /\ lock'["cons"] = lock["cons"]
    BY ZenonT(30), <1>0, <1>3, ReleaseType, Names DEF start_return
  <2>2. CASE lock["uart"] = "intr"
    <3>1. h.pc = "start" /\ h'.pc = "idle" /\ wr' = wr
      BY <1>0, <1>3, <2>2 DEF start_return, Locks, StartLock, HType
    <3>2. ReadLock' /\ KeyLock'
      BY <2>1, <3>1, ConsKept
    <3> QED
      BY <1>0, <2>1, <2>2, <3>1, <3>2, Names DEF Locks, WriteLock, StartLock
  <2>3. CASE lock["uart"] # "intr"
    <3>1. h' = h
      BY <1>3, <2>3 DEF start_return
    <3>2. ReadLock' /\ KeyLock'
      BY <2>1, <3>1, ConsKept
    <3>3. \A p \in Writer : IF p = lock["uart"] THEN wr'[p].pc \in {"idle", "acquire"}
                            ELSE wr'[p] = wr[p]
      BY <1>0, <1>3, <2>3 DEF start_return, WrType
    <3> QED
      BY ZenonT(30), <1>0, <2>1, <2>3, <3>1, <3>2, <3>3, Names DEF Locks, WriteLock, StartLock
  <2> QED
    BY <2>2, <2>3
<1> QED
  BY SMTT(30), <1>1, <1>2, <1>3 DEF Start

LEMMA HandlerLocks == ASSUME TypeOK, Locks, Handler PROVE Locks'
<1>0. /\ rd \in RdType /\ h \in HType /\ lock \in LockType
      /\ \A q \in Reader \cup Writer : q # "intr" /\ q # Free
  BY Names DEF TypeOK
<1> USE DEF input, output
<1>1. CASE devintr \/ uartgetc \/ consputc
  <2>1. lock' = lock /\ rd' = rd /\ wr' = wr
    BY <1>1 DEF devintr, uartgetc, consputc
  <2>2. /\ h.pc # "start" /\ h'.pc # "start"
        /\ h.pc \in {"dump", "print", "put"} <=> h'.pc \in {"dump", "print", "put"}
    BY Zenon, <1>0, <1>1
    DEF devintr, uartgetc, consputc, sync_wait, sync_put, Put, HType
  <2> QED
    BY <2>1, <2>2, ConsKept, UartKept DEF Locks
<1>2. CASE uartintr
  <2>1. /\ lock["uart"] = Free /\ lock'["uart"] = "intr"
        /\ lock'["cons"] = lock["cons"] /\ rd' = rd /\ wr' = wr
    BY Zenon, <1>0, <1>2, AcquireType, Names DEF uartintr, Acquire
  <2>2. h.pc = "uart" /\ h'.pc = "start"
    BY <1>0, <1>2 DEF uartintr, HType
  <2>3. ReadLock' /\ KeyLock'
    BY ZenonT(30), <2>1, <2>2, ConsKept
  <2> QED
    BY <1>0, <2>1, <2>2, <2>3 DEF Locks, WriteLock, StartLock
<1>3. CASE consoleintr
  <2>1. /\ lock["cons"] = Free /\ lock'["cons"] = "intr"
        /\ lock'["uart"] = lock["uart"] /\ rd' = rd /\ wr' = wr
    BY ZenonT(30), <1>0, <1>3, AcquireType, Names DEF consoleintr, Acquire
  <2>2. h.pc = "cons" /\ h'.pc \in {"dump", "print"}
    BY <1>0, <1>3 DEF consoleintr, HType
  <2>3. WriteLock' /\ StartLock'
    BY ZenonT(30), <2>1, <2>2, UartKept
  <2> QED
    BY <1>0, <2>1, <2>2, <2>3 DEF Locks, ReadLock, KeyLock
<1>4. CASE procdump \/ procdump_end
  <2>1. Acquire("pr", "intr") \/ Release("pr")
    BY SMTT(30), <1>4 DEF procdump, procdump_end
  <2>2. lock'["cons"] = lock["cons"] /\ lock'["uart"] = lock["uart"]
    BY SMTT(30), <1>0, <2>1, AcquireType, ReleaseType, Names
  <2>3. /\ h.pc \in {"dump", "print"} /\ h'.pc = "print" /\ rd' = rd /\ wr' = wr
    BY ZenonT(30), <1>0, <1>4 DEF procdump, procdump_end, HType
  <2> QED
    BY <2>2, <2>3, ConsKept, UartKept DEF Locks
<1>5. CASE consoleintr_end
  <2>1. /\ lock["cons"] = "intr" /\ lock'["cons"] = Free
        /\ lock'["uart"] = lock["uart"] /\ wr' = wr
    BY SMTT(30), <1>0, <1>5, ReleaseType, Names DEF consoleintr_end, Locks, KeyLock
  <2>2. h.pc = "print" /\ h'.pc = "getc"
    BY <1>0, <1>5 DEF consoleintr_end, HType
  <2>3. rd' = rd \/ rd' = WakeReaders
    BY <1>5 DEF consoleintr_end, Erases, Stores
  <2>4. \A p \in Reader : rd'[p].pc \in {"loop", "dozing"} <=>
                          rd[p].pc \in {"loop", "dozing"}
    BY <1>0, <2>3 DEF WakeReaders, RdType
  <2>5. WriteLock' /\ StartLock'
    BY ZenonT(30), <2>1, <2>2, UartKept
  <2> QED
    BY SMTT(30), <1>0, <2>1, <2>2, <2>4, <2>5, Names DEF Locks, ReadLock, KeyLock
<1> QED
  BY SMTT(30), <1>1, <1>2, <1>3, <1>4, <1>5 DEF Handler

LEMMA LockStep == TypeOK /\ Locks /\ [Next]_vars => Locks'
<1> SUFFICES ASSUME TypeOK, Locks, [Next]_vars PROVE Locks'
  OBVIOUS
<1> USE DEF input, output
<1>1. CASE \/ transmit \/ Printing \/ UNCHANGED vars
           \/ (\E c \in work.typed : receive(c))
           \/ (\E n \in PrintLens : printf(n))
  <2>1. \/ lock' = lock \/ Acquire("pr", "printf") \/ Release("pr")
    BY <1>1 DEF transmit, Printing, printf_putc, printf_end, vars, receive, printf
  <2>2. lock'["cons"] = lock["cons"] /\ lock'["uart"] = lock["uart"]
    BY SMTT(30), <2>1, AcquireType, ReleaseType, Names DEF TypeOK
  <2>3. rd' = rd /\ wr' = wr /\ h' = h
    BY ZenonT(30), <1>1
    DEF transmit, Printing, printf_putc, printf_end, vars, receive, printf
  <2> QED
    BY SMTT(30), <2>2, <2>3, ConsKept, UartKept DEF Locks
<1> QED
  BY ZenonT(30), <1>1, ReaderLocks, WriterLocks, StartLocks, HandlerLocks
  DEF Next, Quiet, System, Environment
-----------------------------------------------------------------------------
\* Who falls asleep, has found nothing to do.
LEMMA FallAsleep ==
    ASSUME TypeOK, [Next]_vars
    PROVE  /\ \A p \in Reader : rd'[p].pc \in {"dozing", "sleep"} =>
                 rd[p].pc \in {"dozing", "sleep"} \/ (cons.r = cons.w /\ cons' = cons)
           /\ \A p \in Writer : wr'[p].pc = "sleep" =>
                 wr[p].pc = "sleep" \/ (Full /\ tx' = tx)
<1>0. rd \in RdType /\ wr \in WrType
  BY SMTT(30) DEF TypeOK
<1> USE DEF input, output
<1>1. ASSUME NEW q \in Reader,
             (\E n \in ReadLens : consoleread(q, n)) \/ kill(q) \/ Read(q)
      PROVE  /\ wr' = wr
             /\ \A p \in Reader : rd'[p].pc \in {"dozing", "sleep"} =>
                   rd[p].pc \in {"dozing", "sleep"} \/ (cons.r = cons.w /\ cons' = cons)
  BY <1>0, <1>1
  DEF consoleread, kill, Read, read_acquire, read_wait, read_sleep,
                    read_char, ReadTo, RdType
<1>2. ASSUME NEW q \in Writer,
             (\E n \in WriteLens : consolewrite(q, n)) \/ Write(q)
      PROVE  /\ rd' = rd
             /\ \A p \in Writer : wr'[p].pc = "sleep" =>
                   wr[p].pc = "sleep" \/ (Full /\ tx' = tx)
  <2>1. CASE \E n \in WriteLens : consolewrite(q, n)
    BY <1>0, <2>1 DEF consolewrite, WrType
  <2>2. CASE putc_acquire(q)
    BY <1>0, <2>2 DEF putc_acquire, WrType
  <2>3. CASE putc_sleep(q)
    BY <1>0, <2>3 DEF putc_sleep, WrType
  <2>4. ASSUME NEW c \in Text, uartputc(q, c)
        PROVE  rd' = rd /\ \A p \in Writer : wr'[p].pc = "sleep" => wr[p].pc = "sleep"
    BY <1>0, <2>4 DEF uartputc, WrType
  <2> QED
    BY ZenonT(30), <1>2, <2>1, <2>2, <2>3, <2>4 DEF Write
<1>3. CASE Start
  <2>1. rd' = rd
    BY <1>3 DEF Start, uartstart, start_send, start_return
  <2>2. \A p \in Writer : wr'[p].pc = "sleep" => wr[p].pc = "sleep"
    BY SMTT(30), <1>0, <1>3
    DEF Start, uartstart, start_send, start_return, WakeWriters, WrType
  <2> QED
    BY <2>1, <2>2
<1>4. CASE Handler
  <2>1. wr' = wr /\ (rd' = rd \/ rd' = WakeReaders)
    BY <1>4 DEF Handler, devintr, uartgetc, uartintr, consoleintr, procdump,
                procdump_end, consputc, consoleintr_end, Erases, Stores
  <2>2. \A p \in Reader : rd'[p].pc \in {"dozing", "sleep"} =>
                          rd[p].pc \in {"dozing", "sleep"}
    BY <1>0, <2>1 DEF WakeReaders, RdType
  <2> QED
    BY SMTT(30), <2>1, <2>2
<1>5. CASE \/ transmit \/ Printing \/ UNCHANGED vars
           \/ (\E c \in work.typed : receive(c))
           \/ (\E n \in PrintLens : printf(n))
  <2>1. rd' = rd /\ wr' = wr
    BY <1>5 DEF transmit, Printing, printf_putc, printf_end, vars, receive, printf
  <2> QED
    BY <2>1
<1> QED
  BY ZenonT(30), <1>1, <1>2, <1>3, <1>4, <1>5
  DEF Next, Quiet, System, Environment

LEMMA WaitStep ==
    TypeOK /\ Locks /\ Waits /\ Input /\ Output /\ [Next]_vars => Waits'
<1> SUFFICES ASSUME TypeOK, Locks, Waits, Input, Output, [Next]_vars PROVE Waits'
  OBVIOUS
<1>0. /\ rd \in RdType /\ wr \in WrType /\ cons \in ConsType
      /\ \A p \in Reader : p # "intr"
  BY Names DEF TypeOK
<1>1. ASSUME NEW p \in Reader, rd'[p].pc \in {"dozing", "sleep"}
      PROVE  cons'.r = cons'.w
  <2>1. \/ rd[p].pc \in {"dozing", "sleep"} /\ cons.r = cons.w
        \/ cons.r = cons.w /\ cons' = cons
    BY ZenonT(30), <1>1, FallAsleep DEF Waits
  <2>2. CASE cons' = cons
    BY ZenonT(30), <2>1, <2>2
  <2>3. CASE consoleintr_end
    <3>1. lock["cons"] = "intr"
      BY ZenonT(30), <2>3 DEF consoleintr_end, Locks, KeyLock
    <3>2. cons' = cons \/ rd[p].pc = "sleep"
      BY <1>0, <2>1, <3>1 DEF Locks, ReadLock
    <3>3. CASE rd' = WakeReaders
      BY SMTT(30), <1>0, <1>1, <2>2, <3>2, <3>3 DEF WakeReaders, RdType
    <3>4. CASE rd' # WakeReaders
      <4>1. \/ cons' = cons
            \/ \E k \in {KillCount, EraseCount} : Erases(k)
            \/ \E c : Stores(c) /\ ~Completes(c)
        BY ZenonT(30), <2>3, <3>4 DEF consoleintr_end, Stores
      <4>2. cons'.r = cons.r /\ cons'.w = cons.w
        BY ZenonT(30), <1>0, <4>1 DEF Erases, Stores, ConsType
      <4> QED
        BY <2>1, <4>2
    <3> QED
      BY <3>3, <3>4
  <2>4. ASSUME NEW q \in Reader, read_char(q) PROVE cons'.r = cons'.w
    BY SMTT(30), <2>1, <2>4 DEF read_char
  <2> QED
    BY ZenonT(30), <2>2, <2>3, <2>4, InputChanges
<1>2. ASSUME NEW p \in Writer, wr'[p].pc = "sleep" PROVE Full'
  <2>1. \/ wr[p].pc = "sleep" /\ Full
        \/ Full /\ tx' = tx
    BY <1>2, FallAsleep DEF Waits
  <2>2. CASE start_send
    BY <1>0, <1>2, <2>2 DEF start_send, WakeWriters, WrType
  <2>3. ASSUME NEW q \in Writer, NEW c \in Text, uartputc(q, c) PROVE Full'
    BY <2>1, <2>3 DEF uartputc
  <2>4. CASE tx'.r = tx.r /\ tx'.w = tx.w
    BY ZenonT(30), <2>1, <2>4 DEF Full, Plus
  <2> QED
    BY SMTT(30), <2>2, <2>3, <2>4, OutputChanges
<1> QED
  BY <1>1, <1>2 DEF Waits
-----------------------------------------------------------------------------
LEMMA InitInv == Init => Inv
<1> SUFFICES ASSUME Init PROVE Inv
  OBVIOUS
<1> USE DEF Init
<1>0. /\ 0 \in Index /\ NL \in Stored /\ CtrlP \in Key /\ Free \notin Reader \cup Writer
      /\ "intr" # Free /\ \A p \in Reader \cup Writer : p # Free
  BY ZenonT(30), Constants, Names DEF Key, Stored
<1>1. TypeOK
  <2>1. cons \in ConsType /\ tx \in TxType
    BY ZenonT(30), <1>0 DEF ConsType, TxType, Ring
  <2>2. lock \in LockType /\ rd \in RdType /\ wr \in WrType
    BY ZenonT(30) DEF LockType, RdType, WrType
  <2>3. h \in HType /\ pr \in PrType
    <3>1. 0 \in Int
      OBVIOUS
    <3> QED
      BY Zenon, <1>0, <3>1 DEF HType, PrType
  <2>4. work \in WorkType
    BY ZenonT(30), ConsoleAssumption DEF WorkType
  <2>5. rx \in Seq(Key) /\ thr \in ThrType
    <3>1. rx = << >> /\ thr = << >>
      BY Zenon
    <3> HIDE DEF Init
    <3> QED
      BY <3>1 DEF ThrType
  <2> QED
    BY Zenon, <2>1, <2>2, <2>3, <2>4, <2>5 DEF TypeOK
<1>2. Locks
  BY ZenonT(30), <1>0 DEF Locks, ReadLock, KeyLock, WriteLock, StartLock, Lock
<1>3. Waits
  BY DEF Waits
<1>4. /\ cons.r = 0 /\ cons.w = 0 /\ cons.e = 0 /\ tx.r = 0 /\ tx.w = 0
      /\ Dist(0, 0) = 0
  BY ZenonT(30), <1>0, Distances
<1>5. Input
  <2> HIDE DEF Init
  <2>1. Edited = << >>
    BY <1>4 DEF Edited, Window
  <2>2. Dist(cons.r, cons.w) = 0 /\ Line = 0 /\ Used = 0
    BY Zenon, <1>4 DEF Line, Used
  <2>3. Edited \in Seq(Stored \ {NL, CtrlD})
    BY <2>1
  <2>4. 0 + 0 = 0 /\ 0 <= INPUT_BUF_SIZE
    BY Constants
  <2> QED
    BY Zenon, <1>4, <2>2, <2>3, <2>4 DEF Input
<1>6. Output
  <2>1. tx.pc # "send"
    BY Zenon
  <2> HIDE DEF Init
  <2> QED
    BY <1>4, <2>1, Constants DEF Output
<1>7. Room
  BY DEF Room, About
<1> QED
  BY Zenon, <1>1, <1>2, <1>3, <1>5, <1>6, <1>7 DEF Inv

LEMMA StepInv == Inv /\ [Next]_vars => Inv'
BY TypeStep, LockStep, WaitStep, InputStep, OutputStep, RoomStep DEF Inv

\* The inductive invariant: who holds cons.lock and uart_tx_lock, that who
\* sleeps has nothing to do, what lies in the two rings of console.c and uart.c,
\* and what the transmitter still has to take.
THEOREM Invariance == Spec => []Inv
BY InitInv, StepInv, PTL DEF Spec

\* consoleread() sleeps only while there is no finished input.
THEOREM ReadersNeeded == Spec => []ReaderMustWait
<1>1. Inv => ReaderMustWait
  BY ZenonT(30) DEF Inv, Waits, ReaderMustWait
<1> QED
  BY <1>1, Invariance, PTL

\* A full input buffer is a finished line: consoleintr() never refuses every
\* key while readers wait for a newline.
THEOREM KeysAccepted == Spec => []NeverWedged
<1>1. Inv => NeverWedged
  BY ZenonT(30) DEF Inv, Input, NeverWedged
<1> QED
  BY <1>1, Invariance, PTL

\* uartputc() sleeps only while the transmit ring is full.
THEOREM WritersNeeded == Spec => []WriterMustWait
<1>1. Inv => WriterMustWait
  BY SMTT(30) DEF Inv, Waits, WriterMustWait
<1> QED
  BY <1>1, Invariance, PTL

\* uartstart(), the echo of consoleintr() and printf() each write at most once
\* for every time the transmitter is seen empty: three places are enough.
THEOREM TransmitterHasRoom == Spec => []NoOverrun
<1>1. Inv => NoOverrun
  <2> SUFFICES ASSUME Inv PROVE NoOverrun
    OBVIOUS
  <2>1. Len(thr) \in Nat /\ Room
    BY DEF Inv, TypeOK, ThrType
  <2>2. /\ About(h.pc = "put") \in {0, 1} /\ About(pr.pc = "put") \in {0, 1}
        /\ About(tx.pc = "send") \in {0, 1}
    BY DEF About
  <2>3. Len(thr) <= 3
    BY <2>1, <2>2 DEF Room
  <2> QED
    BY <2>1, <2>3, ConsoleAssumption DEF NoOverrun
<1> QED
  BY <1>1, Invariance, PTL
-----------------------------------------------------------------------------
\* The terminal's steps, in terms of the two rings.
LEMMA TerminalSteps ==
    /\ Abstract!Init <=> Ready = << >> /\ Edited = << >> /\ Outgoing = << >>
    /\ (Ready' = Ready /\ Edited' = Edited /\ Outgoing' = Outgoing) =>
          UNCHANGED Abstract!tvars
    /\ (/\ Ready # << >> /\ Ready' = Tail(Ready)
        /\ Edited' = Edited /\ Outgoing' = Outgoing) => Abstract!Consume
    /\ (/\ Edited # << >> /\ Edited' = SubSeq(Edited, 1, Len(Edited) - 1)
        /\ Ready' = Ready /\ Outgoing' = Outgoing) => Abstract!Rubout
    /\ (Edited' = << >> /\ Ready' = Ready /\ Outgoing' = Outgoing) =>
          Abstract!KillLine
    /\ (/\ Outgoing # << >> /\ Outgoing' = Tail(Outgoing)
        /\ Ready' = Ready /\ Edited' = Edited) => Abstract!Send
    /\ \A c : (/\ Len(Outgoing) < UART_TX_BUF_SIZE
               /\ Outgoing' = Append(Outgoing, c)
               /\ Ready' = Ready /\ Edited' = Edited) => Abstract!Write(c)
<1> USE DEF Ready, Edited, Outgoing
<1>1. Abstract!Init <=> Ready = << >> /\ Edited = << >> /\ Outgoing = << >>
  BY ZenonT(30) DEF Abstract!Init
<1>2. (Ready' = Ready /\ Edited' = Edited /\ Outgoing' = Outgoing) =>
         UNCHANGED Abstract!tvars
  BY ZenonT(30) DEF Abstract!tvars
<1>3. (/\ Ready # << >> /\ Ready' = Tail(Ready)
       /\ Edited' = Edited /\ Outgoing' = Outgoing) => Abstract!Consume
  BY ZenonT(30) DEF Abstract!Consume
<1>4. (/\ Edited # << >> /\ Edited' = SubSeq(Edited, 1, Len(Edited) - 1)
       /\ Ready' = Ready /\ Outgoing' = Outgoing) => Abstract!Rubout
  BY ZenonT(30) DEF Abstract!Rubout
<1>5. (Edited' = << >> /\ Ready' = Ready /\ Outgoing' = Outgoing) =>
         Abstract!KillLine
  BY ZenonT(30) DEF Abstract!KillLine
<1>6. (/\ Outgoing # << >> /\ Outgoing' = Tail(Outgoing)
       /\ Ready' = Ready /\ Edited' = Edited) => Abstract!Send
  BY ZenonT(30) DEF Abstract!Send
<1>7. \A c : (/\ Len(Outgoing) < UART_TX_BUF_SIZE
              /\ Outgoing' = Append(Outgoing, c)
              /\ Ready' = Ready /\ Edited' = Edited) => Abstract!Write(c)
  BY DEF Abstract!Write
<1> QED
  BY ZenonT(30), <1>1, <1>2, <1>3, <1>4, <1>5, <1>6, <1>7

LEMMA TerminalAccepts ==
    ASSUME NEW c,
           Len(Edited) < INPUT_BUF_SIZE - Len(Ready),
           IF c \in {NL, CtrlD} \/ Len(Append(Edited, c)) = INPUT_BUF_SIZE - Len(Ready)
           THEN Ready' = Ready \o Append(Edited, c) /\ Edited' = << >>
           ELSE Edited' = Append(Edited, c) /\ Ready' = Ready,
           Outgoing' = Outgoing
    PROVE  Abstract!Accept(c)
BY ZenonT(30) DEF Abstract!Accept, Ready, Edited, Outgoing

LEMMA StoreAccepts ==
    ASSUME TypeOK, Input, NEW c \in Stored, Used < INPUT_BUF_SIZE, Stores(c),
           Outgoing' = Outgoing
    PROVE  Abstract!Accept(c)
<1>1. /\ Edited \in Seq(Stored) /\ Len(Edited) = Line
      /\ Len(Ready) = Dist(cons.r, cons.w)
      /\ Dist(cons.r, cons.w) \in Nat /\ Line \in Nat /\ Used \in Nat
      /\ INPUT_BUF_SIZE \in Nat
      /\ Dist(cons.r, cons.w) + Line = Used
  BY Indices, Constants DEF Index, Input
<1>2. Len(Append(Edited, c)) = Line + 1
  BY <1>1
<1>3. /\ Len(Edited) < INPUT_BUF_SIZE - Len(Ready)
      /\ Line + 1 = INPUT_BUF_SIZE - Len(Ready) <=> Used + 1 = INPUT_BUF_SIZE
  BY <1>1
<1>4. IF Completes(c) THEN Ready' = Ready \o Append(Edited, c) /\ Edited' = << >>
      ELSE Edited' = Append(Edited, c) /\ Ready' = Ready
  BY Zenon, StoreInput
<1>5. Completes(c) <=> \/ c \in {NL, CtrlD}
                       \/ Len(Append(Edited, c)) = INPUT_BUF_SIZE - Len(Ready)
  BY <1>2, <1>3 DEF Completes
<1> QED
  BY Zenon, <1>3, <1>4, <1>5, TerminalAccepts

LEMMA EraseEdits ==
    ASSUME TypeOK, Input, Outgoing' = Outgoing,
           Erases(KillCount) \/ Erases(EraseCount)
    PROVE  Abstract!KillLine \/ Abstract!Rubout \/ UNCHANGED Abstract!tvars
<1>1. /\ Edited \in Seq(Stored) /\ Len(Edited) = Line /\ Line \in Nat
      /\ cons.w \in Index /\ cons.e \in Index
  BY Indices, Constants DEF Index
<1>2. KillCount = Line /\ EraseCount \in 0..Line
  BY KillsLine
<1>3. CASE Erases(KillCount)
  <2>1. Line \in 0..Line /\ Erases(Line)
    BY <1>1, <1>2, <1>3
  <2>2. Ready' = Ready /\ Edited' = SubSeq(Edited, 1, Line - Line)
    BY <2>1, EraseInput
  <2>3. Edited' = << >>
    BY SMTT(30), <1>1, <2>2
  <2> QED
    BY SMTT(30), <2>2, <2>3, TerminalSteps
<1>4. CASE Erases(EraseCount)
  <2>1. Ready' = Ready /\ Edited' = SubSeq(Edited, 1, Line - EraseCount)
    BY ZenonT(30), <1>2, <1>4, EraseInput
  <2>2. CASE cons.e # cons.w
    <3>1. EraseCount = 1 /\ Line >= 1
      BY SMTT(30), <1>1, <1>2, <2>2 DEF EraseCount
    <3>2. Edited # << >>
      BY SMTT(30), <1>1, <3>1
    <3> QED
      BY SMTT(30), <1>1, <2>1, <3>1, <3>2, TerminalSteps
  <2>3. CASE cons.e = cons.w
    <3>1. EraseCount = 0
      BY <2>3 DEF EraseCount
    <3>2. Edited' = Edited
      <4>1. SubSeq(Edited, 1, Len(Edited)) = Edited
        BY <1>1
      <4> QED
        BY SMTT(30), <1>1, <2>1, <3>1, <4>1
    <3> QED
      BY SMTT(30), <2>1, <3>2, TerminalSteps
  <2> QED
    BY <2>2, <2>3
<1> QED
  BY <1>3, <1>4

LEMMA TerminalStep ==
    Inv /\ [Next]_vars => [Abstract!Next]_(Abstract!tvars)
<1> SUFFICES ASSUME Inv, [Next]_vars PROVE Abstract!Next \/ UNCHANGED Abstract!tvars
  OBVIOUS
<1>0. TypeOK /\ Input /\ Output
  BY SMTT(30) DEF Inv
<1>1. ASSUME cons' = cons PROVE Ready' = Ready /\ Edited' = Edited
  BY SMTT(30), <1>1 DEF Ready, Edited, Window, Dist, Plus
<1>2. ASSUME tx'.buf = tx.buf, tx'.r = tx.r, tx'.w = tx.w PROVE Outgoing' = Outgoing
  BY SMTT(30), <1>2 DEF Outgoing, Window, Dist, Plus
<1>3. CASE start_send
  <2>1. cons' = cons
    BY <1>3 DEF start_send, input
  <2> QED
    BY SMTT(30), <1>0, <1>1, <1>3, <2>1, SendOutput, TerminalSteps
    DEF Abstract!Next
<1>4. ASSUME NEW p \in Writer, NEW c \in Text, uartputc(p, c) PROVE Abstract!Next
  <2>1. cons' = cons /\ c \in Stored
    BY SMTT(30), <1>4 DEF uartputc, input, Stored
  <2>2. Abstract!Write(c)
    BY SMTT(30), <1>0, <1>1, <1>4, <2>1, PutOutput, TerminalSteps
  <2> QED
    BY <2>1, <2>2 DEF Abstract!Next
<1>5. ASSUME NEW p \in Reader, read_char(p)
      PROVE  Abstract!Next \/ UNCHANGED Abstract!tvars
  <2>1. Outgoing' = Outgoing
    <3>1. tx' = tx
      BY <1>5 DEF read_char
    <3> QED
      BY <1>2, <3>1
  <2>2. \/ cons' = cons
        \/ cons.r # cons.w /\ cons' = [cons EXCEPT !.r = Plus(cons.r, 1)]
    BY <1>5 DEF read_char
  <2> QED
    BY ZenonT(30), <1>0, <1>1, <2>1, <2>2, TakeInput, TerminalSteps
    DEF Abstract!Next
<1>6. CASE consoleintr_end
  <2>1. Outgoing' = Outgoing
    <3>1. tx' = tx
      BY SMTT(30), <1>6 DEF consoleintr_end, output
    <3> QED
      BY <1>2, <3>1
  <2>2. Accepts(h.c) => /\ (IF h.c = CR THEN NL ELSE h.c) \in Stored
                        /\ Used < INPUT_BUF_SIZE
    BY <1>0 DEF Accepts, Key, Stored, TypeOK, HType
  <2>3. \/ Erases(KillCount) \/ Erases(EraseCount)
        \/ Accepts(h.c) /\ Stores(IF h.c = CR THEN NL ELSE h.c)
        \/ cons' = cons
    BY <1>6 DEF consoleintr_end
  <2>4. CASE cons' = cons
    BY SMTT(30), <1>1, <2>1, <2>4, TerminalSteps
  <2>5. CASE Erases(KillCount) \/ Erases(EraseCount)
    BY SMTT(30), <1>0, <2>1, <2>5, EraseEdits DEF Abstract!Next
  <2>6. CASE Accepts(h.c) /\ Stores(IF h.c = CR THEN NL ELSE h.c)
    <3>1. PICK c \in Stored : Stores(c)
      BY <2>2, <2>6
    <3>2. Abstract!Accept(c)
      BY ZenonT(30), <1>0, <2>1, <2>2, <2>6, <3>1, StoreAccepts
    <3> QED
      BY <3>2 DEF Abstract!Next
  <2> QED
    BY SMTT(30), <2>3, <2>4, <2>5, <2>6
<1>7. CASE cons' = cons /\ tx'.buf = tx.buf /\ tx'.r = tx.r /\ tx'.w = tx.w
  BY <1>1, <1>2, <1>7, TerminalSteps
<1> QED
  BY ZenonT(30), <1>0, <1>3, <1>4, <1>5, <1>6, <1>7, InputChanges, OutputChanges

\* console.c and uart.c implement the terminal: finished input is consumed in
\* order and never edited, the line is edited at its end only, and what was
\* written leaves in order, whatever the sizes of the two rings and of the
\* counters that index them.
THEOREM ConsoleIsTerminal == Spec => IsTerminal
<1>1. Init => Abstract!Init
  <2> SUFFICES ASSUME Init PROVE Abstract!Init
    OBVIOUS
  <2>1. /\ cons.r = 0 /\ cons.w = 0 /\ cons.e = 0 /\ tx.r = 0 /\ tx.w = 0
        /\ Dist(0, 0) = 0
    BY ZenonT(30), Constants, Distances DEF Init
  <2>2. Ready = << >> /\ Edited = << >> /\ Outgoing = << >>
    BY <2>1 DEF Ready, Edited, Outgoing, Window
  <2> QED
    BY <2>2, TerminalSteps
<1> QED
  BY <1>1, Invariance, TerminalStep, PTL DEF Spec, IsTerminal, Abstract!Spec
=============================================================================
