---------------------------- MODULE VgatermProof ----------------------------
(***************************************************************************)
(* Proof that Vgaterm implements Screen, for every size of the screen.     *)
(***************************************************************************)
EXTENDS Vgaterm, SequenceTheorems, TLAPS

Positions == 0 .. VGATERM_WIDTH * (VGATERM_HEIGHT + 1) - 1

\* The character of column x in row y of buffer b
At(b, x, y) == b[VGATERM_ADDR(x, y)]

\* Row y holds n characters and then a blank, or is full.
Holds(b, y, n) ==
    /\ \A x \in 0 .. n - 1 : At(b, x, y) # BLANK
    /\ n = VGATERM_WIDTH \/ At(b, n, y) = BLANK

BlankRow(b, y) == \A x \in Columns : At(b, x, y) = BLANK

\* What is written ends at the pointer (x, y), and below it all is blank, the
\* row behind the screen included.
Written(b, x, y) ==
    /\ x \in Columns /\ y \in Rows
    /\ b \in [Positions -> Chars \cup {BLANK}]
    /\ \A z \in 0 .. y : \E n \in 0 .. VGATERM_WIDTH : Holds(b, z, n)
    /\ \A u \in Columns : At(b, u, y) = BLANK <=> x <= u
    /\ \A z \in y + 1 .. VGATERM_HEIGHT : BlankRow(b, z)

WrittenInv == Written(vgaterm_buf, vgaterm_x, vgaterm_y)

\* The pointer stays on the screen, and the row behind it blank.
DrawnInv ==
    /\ vgaterm_x \in Columns /\ vgaterm_y \in Rows
    /\ vgaterm_buf \in [Positions -> Chars \cup {BLANK}]
    /\ BlankRow(vgaterm_buf, VGATERM_HEIGHT)

\* The inductive invariant
ScreenInv == DrawnInv /\ (~wrapped => WrittenInv)

\* The lines of the rows down to y
LinesTo(b, y) == [r \in 1 .. y + 1 |-> Line(b, r - 1)]

(***************************************************************************)
(* Positions.                                                              *)
(***************************************************************************)
LEMMA Sizes ==
    /\ VGATERM_WIDTH \in Nat /\ VGATERM_WIDTH > 0
    /\ VGATERM_HEIGHT \in Nat /\ VGATERM_HEIGHT > 0
BY VgatermAssumption

LEMMA Arithmetic ==
    ASSUME NEW W \in Nat, NEW x \in 0 .. W - 1, NEW y \in Nat, NEW z \in Nat
    PROVE  /\ y * W \in Nat
           /\ (y * W + x) \div W = y
           /\ (y * W + x) + W = (y + 1) * W + x
           /\ y <= z => y * W <= z * W
OBVIOUS

LEMMA Positive ==
    ASSUME NEW y \in 0 .. VGATERM_HEIGHT, NEW x \in Columns
    PROVE  /\ VGATERM_ADDR(x, y) \in Positions
           /\ RowOf(VGATERM_ADDR(x, y)) = y
           /\ y < VGATERM_HEIGHT => VGATERM_ADDR(x, y) + VGATERM_WIDTH = VGATERM_ADDR(x, y + 1)
<1> USE Sizes DEF Columns
<1>1. /\ y * VGATERM_WIDTH \in Nat /\ y * VGATERM_WIDTH <= VGATERM_HEIGHT * VGATERM_WIDTH
      /\ (y * VGATERM_WIDTH + x) \div VGATERM_WIDTH = y
      /\ (y * VGATERM_WIDTH + x) + VGATERM_WIDTH = (y + 1) * VGATERM_WIDTH + x
  BY Arithmetic
<1>2. VGATERM_HEIGHT * VGATERM_WIDTH + VGATERM_WIDTH = VGATERM_WIDTH * (VGATERM_HEIGHT + 1)
  OBVIOUS
<1>3. VGATERM_HEIGHT * VGATERM_WIDTH \in Nat /\ VGATERM_WIDTH * (VGATERM_HEIGHT + 1) \in Nat
  BY <1>2
<1> QED BY <1>1, <1>2, <1>3 DEF Positions, VGATERM_ADDR, RowOf

LEMMA Injective ==
    ASSUME NEW y \in 0 .. VGATERM_HEIGHT, NEW x \in Columns,
           NEW z \in 0 .. VGATERM_HEIGHT, NEW u \in Columns,
           VGATERM_ADDR(x, y) = VGATERM_ADDR(u, z)
    PROVE  x = u /\ y = z
<1>1. y = z
  BY Positive
<1>2. x \in Nat /\ u \in Nat /\ y * VGATERM_WIDTH \in Nat
  BY Sizes, Arithmetic DEF Columns
<1> QED BY <1>1, <1>2 DEF VGATERM_ADDR

(***************************************************************************)
(* Lines.                                                                  *)
(***************************************************************************)
\* The length of a line is determined.
LEMMA LineIs ==
    ASSUME NEW b, NEW y, NEW n \in 0 .. VGATERM_WIDTH, Holds(b, y, n)
    PROVE  Line(b, y) = [k \in 1 .. n |-> At(b, k - 1, y)]
<1> USE Sizes
<1> DEFINE P(k) == /\ \A x \in 0 .. k - 1 : b[VGATERM_ADDR(x, y)] # BLANK
                   /\ k = VGATERM_WIDTH \/ b[VGATERM_ADDR(k, y)] = BLANK
           m == CHOOSE k \in 0 .. VGATERM_WIDTH : P(k)
<1>1. P(n)
  BY DEF Holds, At
<1>2. m \in 0 .. VGATERM_WIDTH /\ P(m)
  BY <1>1
<1>3. Line(b, y) = [k \in 1 .. m |-> b[VGATERM_ADDR(k - 1, y)]]
  BY DEF Line
<1> HIDE DEF m
<1>4. m = n
  <2>1. ASSUME m < n PROVE FALSE
    BY <1>1, <1>2, <2>1
  <2>2. ASSUME n < m PROVE FALSE
    BY <1>1, <1>2, <2>2
  <2> QED BY <1>2, <2>1, <2>2
<1> QED BY <1>3, <1>4 DEF At

\* Lines of rows with the same characters are the same.
LEMMA SameLine ==
    ASSUME NEW b, NEW y, NEW c, NEW z, NEW n \in 0 .. VGATERM_WIDTH, Holds(b, y, n),
           \A x \in Columns : At(b, x, y) = At(c, x, z)
    PROVE  Holds(c, z, n) /\ Line(c, z) = Line(b, y)
<1> USE Sizes
<1>1. Holds(c, z, n)
  BY DEF Holds, Columns
<1>2. /\ Line(b, y) = [k \in 1 .. n |-> At(b, k - 1, y)]
      /\ Line(c, z) = [k \in 1 .. n |-> At(c, k - 1, z)]
  BY <1>1, LineIs
<1>3. \A k \in 1 .. n : At(b, k - 1, y) = At(c, k - 1, z)
  BY DEF Columns
<1> QED BY <1>1, <1>2, <1>3

\* The line of a blank row is empty.
LEMMA BlankLine ==
    ASSUME NEW b, NEW y, BlankRow(b, y)
    PROVE  Holds(b, y, 0) /\ Line(b, y) = <<>>
<1> USE Sizes
<1>1. Holds(b, y, 0) /\ 0 \in 0 .. VGATERM_WIDTH
  BY DEF Holds, BlankRow, Columns
<1>2. Line(b, y) = [k \in 1 .. 0 |-> At(b, k - 1, y)]
  BY <1>1, LineIs
<1> QED BY <1>1, <1>2

(***************************************************************************)
(* The buffer after each operation.                                        *)
(***************************************************************************)
LEMMA ScrollAt ==
    ASSUME NEW b \in [Positions -> Chars \cup {BLANK}], NEW y \in 0 .. VGATERM_HEIGHT,
           NEW x \in Columns
    PROVE  /\ y < VGATERM_HEIGHT => At(vgaterm_scroll(b), x, y) = At(b, x, y + 1)
           /\ y = VGATERM_HEIGHT => At(vgaterm_scroll(b), x, y) = BLANK
<1>1. /\ VGATERM_ADDR(x, y) \in DOMAIN b /\ RowOf(VGATERM_ADDR(x, y)) = y
      /\ y < VGATERM_HEIGHT => VGATERM_ADDR(x, y) + VGATERM_WIDTH = VGATERM_ADDR(x, y + 1)
  BY Positive
<1> QED BY <1>1, Sizes DEF At, vgaterm_scroll

LEMMA ScrollType ==
    ASSUME NEW b \in [Positions -> Chars \cup {BLANK}]
    PROVE  vgaterm_scroll(b) \in [Positions -> Chars \cup {BLANK}]
<1> USE Sizes
<1>1. ASSUME NEW p \in Positions, RowOf(p) < VGATERM_HEIGHT
      PROVE  p + VGATERM_WIDTH \in Positions
  <2> DEFINE q == p \div VGATERM_WIDTH
  <2>1. p \in Nat
    BY DEF Positions
  <2>2. q \in Nat /\ q < VGATERM_HEIGHT /\ p < q * VGATERM_WIDTH + VGATERM_WIDTH
    BY <1>1, <2>1 DEF RowOf
  <2> HIDE DEF q
  <2>3. q + 1 <= VGATERM_HEIGHT => (q + 1) * VGATERM_WIDTH <= VGATERM_HEIGHT * VGATERM_WIDTH
    BY <2>2, 0 \in 0 .. VGATERM_WIDTH - 1, Arithmetic
  <2>4. /\ VGATERM_HEIGHT * VGATERM_WIDTH + VGATERM_WIDTH = VGATERM_WIDTH * (VGATERM_HEIGHT + 1)
        /\ q * VGATERM_WIDTH + VGATERM_WIDTH = (q + 1) * VGATERM_WIDTH
    BY <2>2
  <2>5. /\ q * VGATERM_WIDTH \in Nat /\ VGATERM_HEIGHT * VGATERM_WIDTH \in Nat
        /\ VGATERM_WIDTH * (VGATERM_HEIGHT + 1) \in Nat /\ (q + 1) * VGATERM_WIDTH \in Nat
    BY <2>2, <2>4
  <2> QED BY <2>1, <2>2, <2>3, <2>4, <2>5 DEF Positions
<1> QED BY <1>1 DEF vgaterm_scroll

\* d is b with character c in column x of row y.
PutIn(b, x, y, c, d) ==
    /\ d \in [Positions -> Chars \cup {BLANK}]
    /\ \A z \in 0 .. VGATERM_HEIGHT, u \in Columns :
          At(d, u, z) = IF u = x /\ z = y THEN c ELSE At(b, u, z)

LEMMA PutAt ==
    ASSUME NEW b \in [Positions -> Chars \cup {BLANK}], NEW c \in Chars,
           NEW x \in Columns, NEW y \in 0 .. VGATERM_HEIGHT
    PROVE  PutIn(b, x, y, c, [b EXCEPT ![VGATERM_ADDR(x, y)] = c])
<1>1. VGATERM_ADDR(x, y) \in Positions
  BY Positive
<1>2. ASSUME NEW z \in 0 .. VGATERM_HEIGHT, NEW u \in Columns
      PROVE  At([b EXCEPT ![VGATERM_ADDR(x, y)] = c], u, z)
               = IF u = x /\ z = y THEN c ELSE At(b, u, z)
  <2>1. VGATERM_ADDR(u, z) \in Positions
    BY Positive
  <2>2. VGATERM_ADDR(u, z) = VGATERM_ADDR(x, y) <=> u = x /\ z = y
    BY Injective
  <2> QED BY <1>1, <2>1, <2>2 DEF At
<1> QED BY <1>1, <1>2 DEF PutIn

(***************************************************************************)
(* Sequences.                                                              *)
(***************************************************************************)
Lines == Seq(Chars \cup {BLANK})

LEMMA SeqIs ==
    ASSUME NEW S, NEW n \in Nat, NEW s \in [1 .. n -> S]
    PROVE  s \in Seq(S) /\ Len(s) = n
<1>1. s \in Seq(S)
  BY SeqDef
<1>2. Len(s) \in Nat /\ 1 .. n = 1 .. Len(s)
  BY <1>1, LenProperties
<1> QED BY <1>1, <1>2

LEMMA AppendIs ==
    ASSUME NEW S, NEW n \in Nat, NEW s \in [1 .. n -> S], NEW v \in S
    PROVE  /\ Append(s, v) \in Seq(S) /\ Len(Append(s, v)) = n + 1
           /\ Append(s, v)[n + 1] = v
           /\ \A i \in 1 .. n : Append(s, v)[i] = s[i]
BY SeqIs, AppendProperties

LEMMA TailIs ==
    ASSUME NEW S, NEW n \in Nat, NEW s \in Seq(S), Len(s) = n + 1
    PROVE  /\ SubSeq(s, 2, n + 1) \in Seq(S) /\ Len(SubSeq(s, 2, n + 1)) = n
           /\ \A i \in 1 .. n : SubSeq(s, 2, n + 1)[i] = s[i + 1]
<1>1. \A i \in 2 .. n + 1 : s[i] \in S
  BY ElementOfSeq
<1>2. /\ SubSeq(s, 2, n + 1) \in Seq(S)
      /\ Len(SubSeq(s, 2, n + 1)) = IF 2 <= n + 1 THEN (n + 1) - 2 + 1 ELSE 0
      /\ \A i \in 1 .. (n + 1) - 2 + 1 : SubSeq(s, 2, n + 1)[i] = s[2 + i - 1]
  BY <1>1, SubSeqProperties
<1> QED BY <1>2

\* A line is a sequence of characters, and appending to it is writing at its end.
LEMMA LineType ==
    ASSUME NEW b \in [Positions -> Chars \cup {BLANK}], NEW y \in 0 .. VGATERM_HEIGHT,
           NEW n \in 0 .. VGATERM_WIDTH, Holds(b, y, n)
    PROVE  Line(b, y) \in [1 .. n -> Chars \cup {BLANK}] /\ Line(b, y) \in Lines
<1>1. Line(b, y) = [k \in 1 .. n |-> At(b, k - 1, y)]
  BY LineIs
<1>2. \A k \in 1 .. n : k - 1 \in Columns
  BY Sizes DEF Columns
<1>3. \A k \in 1 .. n : At(b, k - 1, y) \in Chars \cup {BLANK}
  BY <1>2, Positive DEF At
<1> QED BY <1>1, <1>3 DEF Lines

\* The lines on the screen are a sequence.
LEMMA ShownType ==
    ASSUME NEW b, NEW x, NEW y, Written(b, x, y)
    PROVE  /\ y \in Nat /\ y < VGATERM_HEIGHT
           /\ LinesTo(b, y) \in [1 .. y + 1 -> Lines] /\ Len(LinesTo(b, y)) = y + 1
           /\ \A r \in 1 .. y + 1 : LinesTo(b, y)[r] = Line(b, r - 1)
<1> USE Sizes
<1>1. y \in Nat /\ y < VGATERM_HEIGHT
  BY DEF Written, Rows
<1>2. ASSUME NEW r \in 1 .. y + 1 PROVE Line(b, r - 1) \in Lines
  <2>1. r - 1 \in 0 .. y /\ r - 1 \in 0 .. VGATERM_HEIGHT
    BY <1>1
  <2>2. PICK n \in 0 .. VGATERM_WIDTH : Holds(b, r - 1, n)
    BY <2>1 DEF Written
  <2> QED BY <2>1, <2>2, LineType DEF Written
<1>3. LinesTo(b, y) \in [1 .. y + 1 -> Lines]
  BY <1>2 DEF LinesTo
<1>4. Len(LinesTo(b, y)) = y + 1
  BY <1>1, <1>3, SeqIs
<1> QED BY <1>1, <1>3, <1>4 DEF LinesTo

\* An empty line is a line.
LEMMA EmptyLine == <<>> \in Lines
BY DEF Lines

\* A line ends where the pointer is.
LEMMA LastLine ==
    ASSUME NEW b, NEW x, NEW y, Written(b, x, y)
    PROVE  Holds(b, y, x) /\ x \in 0 .. VGATERM_WIDTH
BY Sizes DEF Written, Holds, Columns, Rows

(***************************************************************************)
(* What each operation does to the lines.                                  *)
(***************************************************************************)
\* A newline above the last row begins an empty line.
LEMMA NewlineShown ==
    ASSUME NEW b, NEW x, NEW y, Written(b, x, y), y < VGATERM_HEIGHT - 1
    PROVE  Written(b, 0, y + 1) /\ LinesTo(b, y + 1) = Append(LinesTo(b, y), <<>>)
<1> USE Sizes
<1>1. y \in Nat /\ y + 1 \in Rows /\ y + 1 \in y + 1 .. VGATERM_HEIGHT
  BY DEF Written, Rows
<1>2. BlankRow(b, y + 1)
  BY <1>1 DEF Written
<1>3. Holds(b, y + 1, 0) /\ Line(b, y + 1) = <<>>
  BY <1>2, BlankLine
<1>4. Written(b, 0, y + 1)
  <2>1. \A z \in 0 .. y + 1 : \E n \in 0 .. VGATERM_WIDTH : Holds(b, z, n)
    <3> SUFFICES ASSUME NEW z \in 0 .. y + 1 PROVE \E n \in 0 .. VGATERM_WIDTH : Holds(b, z, n)
      OBVIOUS
    <3>1. CASE z = y + 1
      BY <1>3, <3>1
    <3>2. CASE z \in 0 .. y
      BY <3>2 DEF Written
    <3> QED BY <1>1, <3>1, <3>2
  <2>2. \A u \in Columns : At(b, u, y + 1) = BLANK <=> 0 <= u
    BY <1>2 DEF BlankRow, Columns
  <2> QED BY <1>1, <2>1, <2>2 DEF Written, Columns
<1>5. LinesTo(b, y + 1) = Append(LinesTo(b, y), <<>>)
  <2> DEFINE s == LinesTo(b, y)
             t == LinesTo(b, y + 1)
  <2>1. /\ s \in [1 .. y + 1 -> Lines] /\ \A r \in 1 .. y + 1 : s[r] = Line(b, r - 1)
    BY ShownType
  <2>2. /\ t \in [1 .. (y + 1) + 1 -> Lines] /\ Len(t) = (y + 1) + 1
        /\ \A r \in 1 .. (y + 1) + 1 : t[r] = Line(b, r - 1)
    BY <1>4, ShownType
  <2> HIDE DEF s, t
  <2>3. /\ Append(s, <<>>) \in Seq(Lines) /\ Len(Append(s, <<>>)) = (y + 1) + 1
        /\ Append(s, <<>>)[(y + 1) + 1] = <<>>
        /\ \A i \in 1 .. y + 1 : Append(s, <<>>)[i] = s[i]
    BY <1>1, <2>1, EmptyLine, AppendIs
  <2>4. t \in Seq(Lines)
    BY <1>1, <2>2, SeqIs
  <2>5. ASSUME NEW i \in 1 .. Len(t) PROVE t[i] = Append(s, <<>>)[i]
    <3>1. CASE i = (y + 1) + 1
      <4>1. t[i] = Line(b, y + 1)
        BY <1>1, <2>2, <3>1
      <4> QED BY <1>3, <2>3, <3>1, <4>1
    <3>2. CASE i \in 1 .. y + 1
      BY <1>1, <2>1, <2>2, <2>3, <3>2
    <3>3. i \in 1 .. (y + 1) + 1
      BY <2>2
    <3>4. i = (y + 1) + 1 \/ i \in 1 .. y + 1
      BY <1>1, <3>3
    <3> QED BY <3>1, <3>2, <3>4
  <2>6. t = Append(s, <<>>)
    BY <2>2, <2>3, <2>4, <2>5, SeqEqual
  <2> QED BY <2>6 DEF s, t
<1> QED BY <1>4, <1>5

\* A newline in the last row scrolls: the first line goes.
LEMMA ScrollShown ==
    ASSUME NEW b, NEW x, NEW y, Written(b, x, y), y = VGATERM_HEIGHT - 1
    PROVE  /\ Written(vgaterm_scroll(b), 0, y)
           /\ LinesTo(vgaterm_scroll(b), y) = SubSeq(Append(LinesTo(b, y), <<>>), 2, (y + 1) + 1)
<1> USE Sizes
<1> DEFINE c == vgaterm_scroll(b)
<1>1. /\ y \in Nat /\ y \in Rows /\ b \in [Positions -> Chars \cup {BLANK}]
      /\ c \in [Positions -> Chars \cup {BLANK}]
  BY ScrollType DEF Written, Rows
<1>2. /\ \A z \in 0 .. y, u \in Columns : At(c, u, z) = At(b, u, z + 1)
      /\ BlankRow(c, y + 1)
  BY <1>1, ScrollAt DEF BlankRow
<1> HIDE DEF c
<1>3. BlankRow(b, y + 1)
  BY <1>1 DEF Written
<1>4. BlankRow(c, y)
  BY <1>1, <1>2, <1>3 DEF BlankRow
<1>5. Holds(c, y, 0) /\ Line(c, y) = <<>>
  BY <1>4, BlankLine
<1>6. ASSUME NEW z \in 0 .. y, z < y
      PROVE  Line(c, z) = Line(b, z + 1) /\ \E n \in 0 .. VGATERM_WIDTH : Holds(c, z, n)
  <2>1. z + 1 \in 0 .. y
    BY <1>1, <1>6
  <2>2. PICK n \in 0 .. VGATERM_WIDTH : Holds(b, z + 1, n)
    BY <2>1 DEF Written
  <2>3. \A u \in Columns : At(b, u, z + 1) = At(c, u, z)
    BY <1>2
  <2>4. PICK w : w = z + 1
    OBVIOUS
  <2>5. Holds(b, w, n) /\ \A u \in Columns : At(b, u, w) = At(c, u, z)
    BY <2>2, <2>3, <2>4
  <2>6. Holds(c, z, n) /\ Line(c, z) = Line(b, w)
    BY <2>5, SameLine
  <2> QED BY <2>4, <2>6
<1>7. Written(c, 0, y)
  <2>1. ASSUME NEW z \in 0 .. y PROVE \E n \in 0 .. VGATERM_WIDTH : Holds(c, z, n)
    <3>1. CASE z = y
      BY <1>5, <3>1
    <3>2. CASE z < y
      BY <1>6, <3>2
    <3> QED BY <1>1, <3>1, <3>2
  <2>2. \A u \in Columns : At(c, u, y) = BLANK <=> 0 <= u
    BY <1>4 DEF BlankRow, Columns
  <2>3. \A z \in y + 1 .. VGATERM_HEIGHT : BlankRow(c, z)
    BY <1>1, <1>2
  <2> QED BY <1>1, <2>1, <2>2, <2>3 DEF Written, Columns
<1>8. LinesTo(c, y) = SubSeq(Append(LinesTo(b, y), <<>>), 2, (y + 1) + 1)
  <2> DEFINE s == LinesTo(b, y)
             t == LinesTo(c, y)
             v == Append(s, <<>>)
             w == SubSeq(v, 2, (y + 1) + 1)
  <2>1. /\ s \in [1 .. y + 1 -> Lines] /\ \A r \in 1 .. y + 1 : s[r] = Line(b, r - 1)
    BY ShownType
  <2>2. /\ t \in [1 .. y + 1 -> Lines] /\ Len(t) = y + 1
        /\ \A r \in 1 .. y + 1 : t[r] = Line(c, r - 1)
    BY <1>7, ShownType
  <2> HIDE DEF s, t
  <2>3. /\ v \in Seq(Lines) /\ Len(v) = (y + 1) + 1
        /\ v[(y + 1) + 1] = <<>>
        /\ \A i \in 1 .. y + 1 : v[i] = s[i]
    BY <1>1, <2>1, EmptyLine, AppendIs
  <2> HIDE DEF v
  <2>4. /\ w \in Seq(Lines) /\ Len(w) = y + 1
        /\ \A i \in 1 .. y + 1 : w[i] = v[i + 1]
    BY <1>1, <2>3, TailIs
  <2>5. t \in Seq(Lines)
    BY <1>1, <2>2, SeqIs
  <2> HIDE DEF w
  <2>6. ASSUME NEW i \in 1 .. Len(t) PROVE t[i] = w[i]
    <3>1. CASE i = y + 1
      <4>1. t[i] = Line(c, y)
        BY <1>1, <2>2, <3>1
      <4>2. w[i] = v[(y + 1) + 1]
        BY <1>1, <2>4, <3>1
      <4> QED BY <1>5, <2>3, <4>1, <4>2
    <3>2. CASE i < y + 1
      <4>1. i \in 1 .. y + 1 /\ i + 1 \in 1 .. y + 1 /\ i - 1 \in 0 .. y /\ i - 1 < y
        BY <1>1, <2>2, <3>2
      <4>2. w[i] = Line(b, (i - 1) + 1)
        BY <2>1, <2>3, <2>4, <4>1
      <4> QED BY <1>6, <2>2, <4>1, <4>2
    <3> QED BY <1>1, <2>2, <3>1, <3>2
  <2>7. t = w
    BY <2>2, <2>4, <2>5, <2>6, SeqEqual
  <2> QED BY <2>7 DEF s, t, v, w
<1> QED BY <1>7, <1>8 DEF c

\* A character goes to the end of the last line; if that fills it, an empty
\* one begins.
LEMMA PutShown ==
    ASSUME NEW b, NEW x, NEW y, Written(b, x, y), NEW c \in Chars, NEW d, PutIn(b, x, y, c, d)
    PROVE  /\ Append(Line(b, y), c) \in Lines /\ Len(Append(Line(b, y), c)) = x + 1
           /\ LinesTo(d, y) = [LinesTo(b, y) EXCEPT ![y + 1] = Append(Line(b, y), c)]
           /\ LinesTo(d, y) \in [1 .. y + 1 -> Lines]
           /\ x + 1 < VGATERM_WIDTH => Written(d, x + 1, y)
           /\ x + 1 = VGATERM_WIDTH /\ y < VGATERM_HEIGHT - 1 =>
                 /\ Written(d, 0, y + 1)
                 /\ LinesTo(d, y + 1) = Append(LinesTo(d, y), <<>>)
<1> USE Sizes
<1>1. /\ y \in Nat /\ y \in Rows /\ y \in 0 .. VGATERM_HEIGHT
      /\ x \in Columns /\ x \in Nat /\ x + 1 \in 0 .. VGATERM_WIDTH /\ x \in 0 .. VGATERM_WIDTH
      /\ b \in [Positions -> Chars \cup {BLANK}]
      /\ d \in [Positions -> Chars \cup {BLANK}]
  BY DEF Written, Rows, Columns, PutIn
<1>2. \A z \in 0 .. VGATERM_HEIGHT, u \in Columns :
         At(d, u, z) = IF u = x /\ z = y THEN c ELSE At(b, u, z)
  BY DEF PutIn
<1>3. /\ \A u \in Columns : At(b, u, y) = BLANK <=> x <= u
      /\ \A u \in Columns : At(d, u, y) = BLANK <=> x + 1 <= u
  <2>1. \A u \in Columns : At(b, u, y) = BLANK <=> x <= u
    BY DEF Written
  <2>2. ASSUME NEW u \in Columns PROVE At(d, u, y) = BLANK <=> x + 1 <= u
    <3>1. CASE u = x
      <4>1. At(d, u, y) = c /\ c # BLANK
        BY <1>1, <1>2, <3>1, BlankAssumption
      <4> QED BY <1>1, <3>1, <4>1
    <3>2. CASE u # x
      <4>1. At(d, u, y) = At(b, u, y)
        BY <1>1, <1>2, <3>2
      <4>2. u \in Nat
        BY DEF Columns
      <4> QED BY <1>1, <2>1, <3>2, <4>1, <4>2
    <3> QED BY <3>1, <3>2
  <2> QED BY <2>1, <2>2
<1>4. Holds(d, y, x + 1)
  BY <1>1, <1>3 DEF Holds, Columns
<1>5. /\ Line(b, y) = [k \in 1 .. x |-> At(b, k - 1, y)]
      /\ Line(d, y) = [k \in 1 .. x + 1 |-> At(d, k - 1, y)]
      /\ Line(b, y) \in [1 .. x -> Chars \cup {BLANK}]
      /\ Line(d, y) \in [1 .. x + 1 -> Chars \cup {BLANK}]
  <2>1. Holds(b, y, x) /\ x \in 0 .. VGATERM_WIDTH
    BY LastLine
  <2>2. x + 1 \in 0 .. VGATERM_WIDTH
    BY <1>1
  <2>3. Line(b, y) = [k \in 1 .. x |-> At(b, k - 1, y)]
    BY <2>1, LineIs
  <2>4. Line(d, y) = [k \in 1 .. x + 1 |-> At(d, k - 1, y)]
    BY <1>4, <2>2, LineIs
  <2>5. Line(b, y) \in [1 .. x -> Chars \cup {BLANK}]
    BY <1>1, <2>1, LineType
  <2>6. Line(d, y) \in [1 .. x + 1 -> Chars \cup {BLANK}]
    BY <1>1, <1>4, <2>2, LineType
  <2> QED BY <2>3, <2>4, <2>5, <2>6
<1>6. Line(d, y) = Append(Line(b, y), c) /\ Line(d, y) \in Lines /\ Len(Line(d, y)) = x + 1
  <2> DEFINE s == Line(b, y)
             t == Line(d, y)
  <2>1. /\ Append(s, c) \in Lines /\ Len(Append(s, c)) = x + 1
        /\ Append(s, c)[x + 1] = c
        /\ \A i \in 1 .. x : Append(s, c)[i] = s[i]
    BY <1>1, <1>5, AppendIs DEF Lines
  <2>2. t \in Lines /\ Len(t) = x + 1
    BY <1>1, <1>5, SeqIs DEF Lines
  <2>3. ASSUME NEW i \in 1 .. x + 1 PROVE t[i] = Append(s, c)[i]
    <3>1. t[i] = At(d, i - 1, y) /\ i - 1 \in Columns
      BY <1>1, <1>5 DEF Columns
    <3>2. CASE i = x + 1
      <4>1. i - 1 = x
        BY <1>1, <3>2
      <4>2. At(d, i - 1, y) = c
        BY <1>1, <1>2, <4>1
      <4> QED BY <2>1, <3>1, <3>2, <4>2
    <3>3. CASE i # x + 1
      <4>1. i \in 1 .. x /\ i - 1 # x
        BY <1>1, <3>3
      <4>2. At(d, i - 1, y) = At(b, i - 1, y)
        BY <1>1, <1>2, <3>1, <4>1
      <4>3. s[i] = At(b, i - 1, y)
        BY <1>5, <4>1
      <4> QED BY <2>1, <3>1, <4>1, <4>2, <4>3
    <3> QED BY <3>2, <3>3
  <2> HIDE DEF s, t
  <2>4. t = Append(s, c)
    BY <2>1, <2>2, <2>3, SeqEqual DEF Lines
  <2> QED BY <2>2, <2>4 DEF s, t
<1>7. ASSUME NEW z \in 0 .. y, z # y
      PROVE  Line(d, z) = Line(b, z) /\ \E n \in 0 .. VGATERM_WIDTH : Holds(d, z, n)
  <2>1. PICK n \in 0 .. VGATERM_WIDTH : Holds(b, z, n)
    BY DEF Written
  <2>2. z \in 0 .. VGATERM_HEIGHT
    BY <1>1
  <2>3. \A u \in Columns : At(b, u, z) = At(d, u, z)
    BY <1>2, <1>7, <2>2
  <2> QED BY <2>1, <2>3, SameLine
<1>8. /\ \A z \in 0 .. y : \E n \in 0 .. VGATERM_WIDTH : Holds(d, z, n)
      /\ \A z \in y + 1 .. VGATERM_HEIGHT : BlankRow(d, z)
  <2>1. ASSUME NEW z \in y + 1 .. VGATERM_HEIGHT PROVE BlankRow(d, z)
    <3>1. z \in 0 .. VGATERM_HEIGHT /\ z # y
      BY <1>1
    <3>2. BlankRow(b, z)
      BY DEF Written
    <3> QED BY <1>2, <3>1, <3>2 DEF BlankRow
  <2>2. ASSUME NEW z \in 0 .. y PROVE \E n \in 0 .. VGATERM_WIDTH : Holds(d, z, n)
    BY <1>1, <1>4, <1>7
  <2> QED BY <2>1, <2>2
<1>9. LinesTo(d, y) = [LinesTo(b, y) EXCEPT ![y + 1] = Append(Line(b, y), c)]
  <2>1. ASSUME NEW r \in 1 .. y + 1
        PROVE  Line(d, r - 1) = IF r = y + 1 THEN Append(Line(b, y), c) ELSE Line(b, r - 1)
    <3>1. r - 1 \in 0 .. y /\ (r = y + 1 <=> r - 1 = y)
      BY <1>1
    <3> QED BY <1>6, <1>7, <3>1
  <2> HIDE DEF Written
  <2> QED BY <2>1 DEF LinesTo
<1>10. LinesTo(d, y) \in [1 .. y + 1 -> Lines]
  <2>1. LinesTo(b, y) \in [1 .. y + 1 -> Lines]
    BY ShownType
  <2> QED BY <1>6, <1>9, <2>1
<1>11. ASSUME x + 1 < VGATERM_WIDTH PROVE Written(d, x + 1, y)
  <2>1. x + 1 \in Columns
    BY <1>1, <1>11 DEF Columns
  <2> QED BY <1>1, <1>3, <1>8, <2>1 DEF Written
<1>12. ASSUME x + 1 = VGATERM_WIDTH, y < VGATERM_HEIGHT - 1
       PROVE  Written(d, 0, y + 1) /\ LinesTo(d, y + 1) = Append(LinesTo(d, y), <<>>)
  <2> DEFINE s == LinesTo(d, y)
             t == LinesTo(d, y + 1)
  <2>1. y + 1 \in Rows /\ y + 1 \in y + 1 .. VGATERM_HEIGHT /\ 0 \in Columns
    BY <1>1, <1>12 DEF Rows, Columns
  <2>2. BlankRow(d, y + 1) /\ Holds(d, y + 1, 0) /\ Line(d, y + 1) = <<>>
    BY <1>8, <2>1, BlankLine
  <2>3. \A z \in 0 .. y + 1 : \E n \in 0 .. VGATERM_WIDTH : Holds(d, z, n)
    <3> SUFFICES ASSUME NEW z \in 0 .. y + 1 PROVE \E n \in 0 .. VGATERM_WIDTH : Holds(d, z, n)
      OBVIOUS
    <3>1. CASE z = y + 1
      BY <2>2, <3>1
    <3>2. CASE z \in 0 .. y
      BY <1>8, <3>2
    <3> QED BY <1>1, <3>1, <3>2
  <2>4. \A u \in Columns : At(d, u, y + 1) = BLANK <=> 0 <= u
    BY <2>2 DEF BlankRow, Columns
  <2>5. \A z \in (y + 1) + 1 .. VGATERM_HEIGHT : BlankRow(d, z)
    BY <1>1, <1>8
  <2>6. Written(d, 0, y + 1)
    BY <1>1, <2>1, <2>3, <2>4, <2>5 DEF Written
  <2>7. /\ t \in [1 .. (y + 1) + 1 -> Lines] /\ Len(t) = (y + 1) + 1
        /\ \A r \in 1 .. (y + 1) + 1 : t[r] = Line(d, r - 1)
    BY <2>6, ShownType
  <2>8. \A r \in 1 .. y + 1 : s[r] = Line(d, r - 1)
    BY DEF LinesTo
  <2> HIDE DEF s, t
  <2>9. /\ Append(s, <<>>) \in Seq(Lines) /\ Len(Append(s, <<>>)) = (y + 1) + 1
        /\ Append(s, <<>>)[(y + 1) + 1] = <<>>
        /\ \A i \in 1 .. y + 1 : Append(s, <<>>)[i] = s[i]
    BY <1>1, <1>10, EmptyLine, AppendIs DEF s
  <2>10. t \in Seq(Lines)
    BY <1>1, <2>7, SeqIs
  <2>11. ASSUME NEW i \in 1 .. Len(t) PROVE t[i] = Append(s, <<>>)[i]
    <3>1. CASE i = (y + 1) + 1
      <4>1. t[i] = Line(d, y + 1)
        BY <1>1, <2>7, <3>1
      <4> QED BY <2>2, <2>9, <3>1, <4>1
    <3>2. CASE i \in 1 .. y + 1
      BY <1>1, <2>7, <2>8, <2>9, <3>2
    <3>3. i \in 1 .. (y + 1) + 1
      BY <2>7
    <3>4. i = (y + 1) + 1 \/ i \in 1 .. y + 1
      BY <1>1, <3>3
    <3> QED BY <3>1, <3>2, <3>4
  <2>12. t = Append(s, <<>>)
    BY <2>7, <2>9, <2>10, <2>11, SeqEqual
  <2> QED BY <2>6, <2>12 DEF s, t
<1> QED BY <1>6, <1>9, <1>10, <1>11, <1>12

\* A blank screen shows one empty line.
LEMMA BlankShown ==
    ASSUME NEW b \in [Positions -> Chars \cup {BLANK}],
           \A y \in 0 .. VGATERM_HEIGHT : BlankRow(b, y)
    PROVE  Written(b, 0, 0) /\ LinesTo(b, 0) = <<<<>>>>
<1> USE Sizes
<1>1. BlankRow(b, 0)
  OBVIOUS
<1>2. Holds(b, 0, 0) /\ Line(b, 0) = <<>>
  BY <1>1, BlankLine
<1>3. Written(b, 0, 0)
  <2>1. 0 \in Columns /\ 0 \in Rows
    BY DEF Columns, Rows
  <2>2. \A z \in 0 .. 0 : \E n \in 0 .. VGATERM_WIDTH : Holds(b, z, n)
    BY <1>2
  <2>3. \A u \in Columns : At(b, u, 0) = BLANK <=> 0 <= u
    BY <1>1 DEF BlankRow, Columns
  <2>4. \A z \in 0 + 1 .. VGATERM_HEIGHT : BlankRow(b, z)
    OBVIOUS
  <2> QED BY <2>1, <2>2, <2>3, <2>4 DEF Written
<1>4. LinesTo(b, 0) = <<<<>>>>
  <2> DEFINE s == LinesTo(b, 0)
  <2>1. /\ s \in [1 .. 0 + 1 -> Lines] /\ Len(s) = 0 + 1
        /\ \A r \in 1 .. 0 + 1 : s[r] = Line(b, r - 1)
    BY <1>3, ShownType
  <2> HIDE DEF s
  <2>2. s[1] = <<>>
    BY <1>2, <2>1
  <2>3. s \in Seq(Lines)
    <3>1. 0 + 1 \in Nat
      OBVIOUS
    <3> QED BY <2>1, <3>1, SeqIs
  <2>4. s = <<<<>>>>
    BY <2>1, <2>2, <2>3, EmptyLine, SeqEqual
  <2> QED BY <2>4 DEF s
<1> QED BY <1>3, <1>4

(***************************************************************************)
(* The refinement.                                                         *)
(***************************************************************************)
\* The first screen is blank.
LEMMA InitRefines == Init => WrittenInv /\ Text!Init
<1> SUFFICES ASSUME Init PROVE WrittenInv /\ Text!Init
  OBVIOUS
<1>1. vgaterm_buf \in [Positions -> Chars \cup {BLANK}] /\ \A p \in Positions : vgaterm_buf[p] = BLANK
  BY DEF Init, Positions
<1>2. \A y \in 0 .. VGATERM_HEIGHT : BlankRow(vgaterm_buf, y)
  BY <1>1, Positive DEF BlankRow, At
<1>3. Written(vgaterm_buf, 0, 0) /\ LinesTo(vgaterm_buf, 0) = <<<<>>>>
  BY <1>1, <1>2, BlankShown
<1>4. vgaterm_x = 0 /\ vgaterm_y = 0
  BY DEF Init
<1> QED BY <1>3, <1>4 DEF WrittenInv, Text!Init, Shown, LinesTo

\* vgaterm_clear leaves one empty line.
LEMMA ClearRefines == DrawnInv /\ vgaterm_clear => WrittenInv' /\ Text!Clear
<1> SUFFICES ASSUME DrawnInv, vgaterm_clear PROVE WrittenInv' /\ Text!Clear
  OBVIOUS
<1> USE Sizes
<1>1. PICK b : b = vgaterm_buf
  OBVIOUS
<1>2. /\ b \in [Positions -> Chars \cup {BLANK}] /\ BlankRow(b, VGATERM_HEIGHT)
  BY <1>1 DEF DrawnInv
<1>3. PICK d : d = Cleared(b)
  OBVIOUS
<1>4. d \in [Positions -> Chars \cup {BLANK}]
  BY <1>2, <1>3 DEF Cleared
<1>5. ASSUME NEW y \in 0 .. VGATERM_HEIGHT PROVE BlankRow(d, y)
  <2>1. ASSUME NEW x \in Columns PROVE At(d, x, y) = BLANK
    <3>1. VGATERM_ADDR(x, y) \in Positions /\ RowOf(VGATERM_ADDR(x, y)) = y
      BY Positive
    <3>2. d[VGATERM_ADDR(x, y)] = IF y < VGATERM_HEIGHT THEN BLANK ELSE b[VGATERM_ADDR(x, y)]
      BY <1>2, <1>3, <3>1 DEF Cleared
    <3>3. y = VGATERM_HEIGHT => b[VGATERM_ADDR(x, y)] = BLANK
      BY <1>2 DEF BlankRow, At
    <3> QED BY <3>2, <3>3 DEF At
  <2> QED BY <2>1 DEF BlankRow
<1>6. Written(d, 0, 0) /\ LinesTo(d, 0) = <<<<>>>>
  BY <1>4, <1>5, BlankShown
<1>7. vgaterm_x' = 0 /\ vgaterm_y' = 0 /\ vgaterm_buf' = d
  BY <1>1, <1>3 DEF vgaterm_clear
<1> QED BY <1>6, <1>7 DEF WrittenInv, Text!Clear, Shown, LinesTo

\* vgaterm_newline begins a line and lets the first one go when the screen is
\* full.
LEMMA NewlineRefines == WrittenInv /\ vgaterm_newline => WrittenInv' /\ Text!NewLine
<1> SUFFICES ASSUME WrittenInv, vgaterm_newline PROVE WrittenInv' /\ Text!NewLine
  OBVIOUS
<1> USE Sizes
<1>1. PICK b, x, y : b = vgaterm_buf /\ x = vgaterm_x /\ y = vgaterm_y
  OBVIOUS
<1>2. Written(b, x, y) /\ Shown = LinesTo(b, y)
  BY <1>1 DEF WrittenInv, Shown, LinesTo
<1>3. /\ y \in Nat /\ y < VGATERM_HEIGHT
      /\ LinesTo(b, y) \in [1 .. y + 1 -> Lines]
  BY <1>2, ShownType
<1>4. Len(Append(LinesTo(b, y), <<>>)) = (y + 1) + 1
  BY <1>3, EmptyLine, AppendIs
<1>5. CASE y = VGATERM_HEIGHT - 1
  <2>1. /\ Written(vgaterm_scroll(b), 0, y)
        /\ LinesTo(vgaterm_scroll(b), y) = SubSeq(Append(LinesTo(b, y), <<>>), 2, (y + 1) + 1)
    BY <1>2, <1>5, ScrollShown
  <2>2. vgaterm_buf' = vgaterm_scroll(b) /\ vgaterm_x' = 0 /\ vgaterm_y' = y
    BY <1>1, <1>5 DEF vgaterm_newline
  <2>3. WrittenInv' /\ Shown' = LinesTo(vgaterm_scroll(b), y)
    BY <2>1, <2>2 DEF WrittenInv, Shown, LinesTo
  <2>4. Text!Visible(Append(LinesTo(b, y), <<>>)) = SubSeq(Append(LinesTo(b, y), <<>>), 2, (y + 1) + 1)
    BY <1>3, <1>4, <1>5 DEF Text!Visible
  <2> QED BY <1>2, <2>1, <2>3, <2>4 DEF Text!NewLine
<1>6. CASE y # VGATERM_HEIGHT - 1
  <2>1. Written(b, 0, y + 1) /\ LinesTo(b, y + 1) = Append(LinesTo(b, y), <<>>)
    BY <1>2, <1>3, <1>6, NewlineShown
  <2>2. vgaterm_buf' = b /\ vgaterm_x' = 0 /\ vgaterm_y' = y + 1
    BY <1>1, <1>6 DEF vgaterm_newline
  <2>3. WrittenInv' /\ Shown' = LinesTo(b, y + 1)
    BY <2>1, <2>2 DEF WrittenInv, Shown, LinesTo
  <2>4. Text!Visible(Append(LinesTo(b, y), <<>>)) = Append(LinesTo(b, y), <<>>)
    BY <1>3, <1>4, <1>6 DEF Text!Visible
  <2> QED BY <1>2, <2>1, <2>3, <2>4 DEF Text!NewLine
<1> QED BY <1>5, <1>6

\* vgaterm_putchar writes at the end of the last line; a full line that is not in
\* the last row begins the next.
LEMMA PutRefines ==
    ASSUME NEW c \in Chars, WrittenInv, vgaterm_putchar(c), ~wrapped'
    PROVE  WrittenInv' /\ Text!Put(c)
<1> USE Sizes
<1>1. PICK b, x, y : b = vgaterm_buf /\ x = vgaterm_x /\ y = vgaterm_y
  OBVIOUS
<1>2. Written(b, x, y) /\ Shown = LinesTo(b, y)
  BY <1>1 DEF WrittenInv, Shown, LinesTo
<1>3. /\ y \in Nat /\ y < VGATERM_HEIGHT /\ y \in 0 .. VGATERM_HEIGHT
      /\ LinesTo(b, y) \in [1 .. y + 1 -> Lines] /\ Len(LinesTo(b, y)) = y + 1
      /\ LinesTo(b, y)[y + 1] = Line(b, y)
  <2>1. y \in Nat /\ y + 1 \in 1 .. y + 1 /\ (y + 1) - 1 = y
    BY <1>2, ShownType
  <2>2. \A r \in 1 .. y + 1 : LinesTo(b, y)[r] = Line(b, r - 1)
    BY <1>2, ShownType
  <2>3. LinesTo(b, y)[y + 1] = Line(b, y)
    BY <2>1, <2>2
  <2>4. /\ y \in Nat /\ y < VGATERM_HEIGHT
        /\ LinesTo(b, y) \in [1 .. y + 1 -> Lines] /\ Len(LinesTo(b, y)) = y + 1
    BY <1>2, ShownType
  <2> QED BY <2>3, <2>4
<1>4. x \in Columns /\ x \in Nat /\ x + 1 <= VGATERM_WIDTH /\ b \in [Positions -> Chars \cup {BLANK}]
  BY <1>2 DEF Written, Columns
<1>5. PICK d : d = [b EXCEPT ![VGATERM_ADDR(x, y)] = c]
  OBVIOUS
<1>6. PutIn(b, x, y, c, d)
  BY <1>3, <1>4, <1>5, PutAt
<1>7. PICK line : line = Append(Line(b, y), c)
  OBVIOUS
<1>8. PICK new : new = [LinesTo(b, y) EXCEPT ![y + 1] = line]
  OBVIOUS
<1>9. /\ Len(line) = x + 1 /\ LinesTo(d, y) = new /\ new \in [1 .. y + 1 -> Lines]
      /\ x + 1 < VGATERM_WIDTH => Written(d, x + 1, y)
      /\ x + 1 = VGATERM_WIDTH /\ y < VGATERM_HEIGHT - 1 =>
            Written(d, 0, y + 1) /\ LinesTo(d, y + 1) = Append(new, <<>>)
  <2>1. /\ Len(Append(Line(b, y), c)) = x + 1
        /\ LinesTo(d, y) = [LinesTo(b, y) EXCEPT ![y + 1] = Append(Line(b, y), c)]
        /\ LinesTo(d, y) \in [1 .. y + 1 -> Lines]
        /\ x + 1 < VGATERM_WIDTH => Written(d, x + 1, y)
        /\ x + 1 = VGATERM_WIDTH /\ y < VGATERM_HEIGHT - 1 =>
              Written(d, 0, y + 1) /\ LinesTo(d, y + 1) = Append(LinesTo(d, y), <<>>)
    BY <1>2, <1>6, PutShown
  <2>2. LinesTo(d, y) = new
    BY <1>7, <1>8, <2>1
  <2> QED BY <1>7, <2>1, <2>2
<1>10. Len(Append(new, <<>>)) = (y + 1) + 1
  BY <1>3, <1>9, EmptyLine, AppendIs
<1>11. /\ vgaterm_buf' = d
       /\ x + 1 = VGATERM_WIDTH => vgaterm_x' = 0 /\ vgaterm_y' = (y + 1) % VGATERM_HEIGHT
       /\ x + 1 # VGATERM_WIDTH => vgaterm_x' = x + 1 /\ vgaterm_y' = y
       /\ ~(x + 1 = VGATERM_WIDTH /\ y + 1 = VGATERM_HEIGHT)
  BY <1>1, <1>5 DEF vgaterm_putchar
<1>12. Text!Put(c) <=>
         Shown' = IF Len(line) < VGATERM_WIDTH THEN new ELSE Text!Visible(Append(new, <<>>))
  BY <1>2, <1>3, <1>7, <1>8 DEF Text!Put
<1>13. CASE x + 1 = VGATERM_WIDTH
  <2>1. y < VGATERM_HEIGHT - 1
    BY <1>3, <1>11, <1>13
  <2>2. vgaterm_x' = 0 /\ vgaterm_y' = y + 1
    BY <1>3, <1>11, <1>13, <2>1
  <2>3. Written(d, 0, y + 1) /\ LinesTo(d, y + 1) = Append(new, <<>>)
    BY <1>9, <1>13, <2>1
  <2>4. WrittenInv' /\ Shown' = Append(new, <<>>)
    BY <1>11, <2>2, <2>3 DEF WrittenInv, Shown, LinesTo
  <2>5. Text!Visible(Append(new, <<>>)) = Append(new, <<>>)
    BY <1>3, <1>10, <2>1 DEF Text!Visible
  <2> QED BY <1>9, <1>12, <1>13, <2>4, <2>5
<1>14. CASE x + 1 # VGATERM_WIDTH
  <2>1. x + 1 < VGATERM_WIDTH
    BY <1>4, <1>14
  <2>2. Written(d, x + 1, y)
    BY <1>9, <2>1
  <2>3. WrittenInv' /\ Shown' = new
    BY <1>9, <1>11, <1>14, <2>2 DEF WrittenInv, Shown, LinesTo
  <2> QED BY <1>9, <1>12, <2>1, <2>3
<1> QED BY <1>13, <1>14

\* What is written is drawn.
LEMMA WrittenDrawn ==
    ASSUME NEW b, NEW x, NEW y, Written(b, x, y)
    PROVE  /\ x \in Columns /\ y \in Rows /\ b \in [Positions -> Chars \cup {BLANK}]
           /\ BlankRow(b, VGATERM_HEIGHT)
BY Sizes DEF Written, Rows

\* A newline leaves the row behind the screen blank: it is cleared once it has
\* been moved up.
LEMMA NewlineDrawn == DrawnInv /\ vgaterm_newline => DrawnInv'
<1> SUFFICES ASSUME DrawnInv, vgaterm_newline PROVE DrawnInv'
  OBVIOUS
<1> USE Sizes
<1>1. 0 \in Columns /\ vgaterm_x' = 0
  BY DEF Columns, vgaterm_newline
<1>2. CASE vgaterm_y = VGATERM_HEIGHT - 1
  <2>1. vgaterm_buf' = vgaterm_scroll(vgaterm_buf) /\ vgaterm_y' = vgaterm_y
    BY <1>2 DEF vgaterm_newline
  <2>2. vgaterm_scroll(vgaterm_buf) \in [Positions -> Chars \cup {BLANK}]
    BY ScrollType DEF DrawnInv
  <2>3. BlankRow(vgaterm_scroll(vgaterm_buf), VGATERM_HEIGHT)
    BY ScrollAt DEF BlankRow, DrawnInv
  <2> QED BY <1>1, <2>1, <2>2, <2>3 DEF DrawnInv
<1>3. CASE vgaterm_y # VGATERM_HEIGHT - 1
  <2>1. vgaterm_buf' = vgaterm_buf /\ vgaterm_y' = vgaterm_y + 1
    BY <1>3 DEF vgaterm_newline
  <2>2. vgaterm_y + 1 \in Rows
    BY <1>3 DEF DrawnInv, Rows
  <2> QED BY <1>1, <2>1, <2>2 DEF DrawnInv
<1> QED BY <1>2, <1>3

\* A character is written on the screen, and the next one will be.
LEMMA PutDrawn ==
    ASSUME NEW c \in Chars, DrawnInv, vgaterm_putchar(c)
    PROVE  DrawnInv'
<1> USE Sizes
<1>1. PICK b, x, y : b = vgaterm_buf /\ x = vgaterm_x /\ y = vgaterm_y
  OBVIOUS
<1>2. /\ b \in [Positions -> Chars \cup {BLANK}] /\ x \in Columns /\ y \in Rows
      /\ BlankRow(b, VGATERM_HEIGHT)
  BY <1>1 DEF DrawnInv
<1>3. y \in 0 .. VGATERM_HEIGHT /\ y # VGATERM_HEIGHT /\ VGATERM_HEIGHT \in 0 .. VGATERM_HEIGHT
  BY <1>2 DEF Rows
<1>4. PICK d : d = [b EXCEPT ![VGATERM_ADDR(x, y)] = c]
  OBVIOUS
<1>5. PutIn(b, x, y, c, d)
  BY <1>2, <1>3, <1>4, PutAt
<1>6. d \in [Positions -> Chars \cup {BLANK}] /\ BlankRow(d, VGATERM_HEIGHT)
  BY <1>2, <1>3, <1>5 DEF PutIn, BlankRow
<1>7. /\ vgaterm_buf' = d
      /\ x + 1 = VGATERM_WIDTH => vgaterm_x' = 0 /\ vgaterm_y' = (y + 1) % VGATERM_HEIGHT
      /\ x + 1 # VGATERM_WIDTH => vgaterm_x' = x + 1 /\ vgaterm_y' = y
  BY <1>1, <1>4 DEF vgaterm_putchar
<1>8. vgaterm_x' \in Columns
  BY <1>2, <1>7 DEF Columns
<1>9. (y + 1) % VGATERM_HEIGHT \in Rows
  BY <1>2 DEF Rows
<1> QED BY <1>2, <1>6, <1>7, <1>8, <1>9 DEF DrawnInv

\* Every step of vgaterm keeps the invariant, and is a step of the abstract
\* screen or leaves that alone, unless a line has filled the last row.
LEMMA StepRefines == ScreenInv /\ [Next]_vars => ScreenInv' /\ [Text!Next \/ wrapped']_Shown
<1> SUFFICES ASSUME ScreenInv, [Next]_vars PROVE ScreenInv' /\ [Text!Next \/ wrapped']_Shown
  OBVIOUS
<1>0. DrawnInv
  BY DEF ScreenInv
<1>1. CASE vgaterm_newline
  <2>1. DrawnInv' /\ wrapped' = wrapped
    BY <1>0, <1>1, NewlineDrawn DEF vgaterm_newline
  <2>2. ~wrapped => WrittenInv' /\ Text!NewLine
    BY <1>1, NewlineRefines DEF ScreenInv
  <2> QED BY <2>1, <2>2 DEF ScreenInv, Text!Next
<1>2. CASE vgaterm_clear
  <2>1. WrittenInv' /\ Text!Clear
    BY <1>0, <1>2, ClearRefines
  <2>2. DrawnInv'
    BY <2>1, WrittenDrawn DEF WrittenInv, DrawnInv
  <2> QED BY <2>1, <2>2 DEF ScreenInv, Text!Next
<1>3. ASSUME NEW c \in Chars, vgaterm_putchar(c)
      PROVE  ScreenInv' /\ [Text!Next \/ wrapped']_Shown
  <2>1. DrawnInv'
    BY <1>0, <1>3, PutDrawn
  <2>2. ~wrapped' => ~wrapped
    BY <1>3 DEF vgaterm_putchar
  <2>3. ~wrapped' => WrittenInv' /\ Text!Put(c)
    BY <1>3, <2>2, PutRefines DEF ScreenInv
  <2> QED BY <2>1, <2>3 DEF ScreenInv, Text!Next
<1>4. CASE UNCHANGED vars
  BY <1>4 DEF vars, ScreenInv, DrawnInv, WrittenInv, Shown
<1> QED BY <1>1, <1>2, <1>3, <1>4 DEF Next

\* The pointer never leaves the screen, and the row behind it, which
\* vgaterm_scroll moves into sight, is always blank.  Unless a line has filled the
\* last row, what is written ends at the pointer and all below it is blank.
THEOREM PointerCorrect == Spec => []ScreenInv
<1>1. ScreenInv /\ [Next]_vars => ScreenInv'
  BY StepRefines
<1>2. Init => ScreenInv
  BY InitRefines, WrittenDrawn DEF ScreenInv, WrittenInv, DrawnInv
<1> QED BY <1>1, <1>2, PTL DEF Spec

\* The terminal of kernel/vgaterm.c shows the last VGATERM_HEIGHT lines of what
\* is written, on a screen of any size, until a line fills the last row, and
\* again from the next vgaterm_clear on.
THEOREM RefinesScreen == Spec => ImplementsScreen
<1>1. ScreenInv /\ [Next]_vars => [Text!Next \/ wrapped']_Shown
  BY StepRefines
<1> QED BY <1>1, InitRefines, PointerCorrect, PTL DEF Spec, ImplementsScreen
=============================================================================
