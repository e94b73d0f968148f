-------------------------- MODULE BattStore_proofs --------------------------
(***************************************************************************)
(* BattFs implements FileStore, for an application that takes the three    *)
(* precautions.                                                            *)
(*                                                                         *)
(* Text(d, n, t) says that the bytes of t are those of the n pages d, and  *)
(* TextIn that t is what the page array gives of a file.  A file has one   *)
(* text, that a read finds by the array (ContentText) and a mount by the   *)
(* sequence numbers (SurvivesText): so what is visible is what a mount of  *)
(* the memory with the buffer stored would find (VisibleOK), and what a    *)
(* step changes is read off the pages.                                     *)
(***************************************************************************)
EXTENDS BattFs_proofs

-----------------------------------------------------------------------------
\* Contents of files.  d gives the data of n pages, all but the last one full.
PagesOf(d, n) ==
  /\ n \in Nat
  /\ \A o \in 0..(n - 1) : d[o] \in Seq(AnyByte) /\ Len(d[o]) <= DataSize
  /\ \A o \in 0..(n - 1) : o + 1 < n => Len(d[o]) = DataSize

\* Their bytes, in order, are those of t.
Length(d, n) == IF n = 0 THEN 0 ELSE (n - 1) * DataSize + Len(d[n - 1])

Text(d, n, t) ==
  /\ t \in Seq(AnyByte) /\ Len(t) = Length(d, n)
  /\ \A o \in 0..(n - 1) : \A r \in 1..Len(d[o]) : t[o * DataSize + r] = d[o][r]

\* Where the byte after the first k ones is.
LEMMA Position ==
  ASSUME NEW b \in Nat \ {0}, NEW k \in Nat
  PROVE  /\ k \div b \in Nat /\ k % b \in Nat /\ k % b < b
         /\ k = (k \div b) * b + (k % b)
<1>1. k \div b \in Nat /\ k % b \in Nat /\ k % b < b
  OBVIOUS
<1>2. k = b * (k \div b) + (k % b)
  OBVIOUS
<1>3. PICK q \in Nat : q = k \div b
  BY <1>1
<1>4. b * q = q * b
  OBVIOUS
<1> QED
  BY <1>1, <1>2, <1>3, <1>4

\* The lengths of the pages of a file.
LEMMA PageLengths ==
  ASSUME NEW d, NEW n, PagesOf(d, n), NEW o \in 0..(n - 1)
  PROVE  /\ o \in Nat /\ o < n /\ n \in Nat
         /\ d[o] \in Seq(AnyByte) /\ Len(d[o]) \in Nat /\ Len(d[o]) <= DataSize
         /\ \A r \in 1..Len(d[o]) : r \in Nat /\ d[o][r] \in AnyByte
         /\ o + 1 < n => Len(d[o]) = DataSize
  BY DEF PagesOf

\* Page o begins after o full pages, and ends before the file does.
LEMMA PageEnds ==
  ASSUME NEW d, NEW n, PagesOf(d, n), NEW o \in 0..(n - 1)
  PROVE  /\ o * DataSize \in Nat /\ Length(d, n) \in Nat
         /\ o * DataSize + Len(d[o]) <= Length(d, n)
         /\ o + 1 < n => (o + 1) * DataSize <= Length(d, n)
<1>1. PICK b \in Nat \ {0} : b = DataSize
  BY SizesAssumption
<1>2. n \in Nat /\ n > 0 /\ o \in Nat /\ o < n
  BY PageLengths
<1>3. PICK k \in Nat : k = n - 1
  BY <1>2
<1>4. k \in 0..(n - 1) /\ o <= k /\ o \in 0..(n - 1)
  BY <1>2, <1>3
<1>5. PICK l \in Nat, last \in Nat : l = Len(d[o]) /\ last = Len(d[k]) /\ l <= b /\ last <= b
  BY <1>1, <1>4, PageLengths
<1>6. PICK bo \in Nat, bk \in Nat : bo = b * o /\ bk = b * k /\ (o < k => bo + b <= bk)
  BY <1>2, <1>4, Multiples
<1>61. (o < k => bo + b <= bk) /\ l <= b
  BY <1>5, <1>6
<1>7. Length(d, n) = bk + last
  <2>1. (n - 1) * DataSize = bk
    BY <1>1, <1>3, <1>6
  <2> QED
    BY <1>2, <1>3, <1>5, <2>1 DEF Length
<1>8. o * DataSize = bo
  BY <1>1, <1>2, <1>6
<1>9. (o + 1) * DataSize = bo + b
  BY <1>1, <1>2, <1>6
<1>10. CASE o < k
  <2>1. bo + l <= bk + last /\ bo + b <= bk + last
    BY <1>10, <1>61
  <2>2. bk + last \in Nat
    OBVIOUS
  <2>3. o * DataSize \in Nat /\ Length(d, n) \in Nat
    BY <1>7, <1>8, <2>2
  <2>4. o * DataSize + Len(d[o]) <= Length(d, n)
    BY <1>5, <1>7, <1>8, <2>1
  <2>5. (o + 1) * DataSize <= Length(d, n)
    BY <1>7, <1>9, <2>1
  <2> QED
    BY <2>3, <2>4, <2>5
<1>11. CASE o = k
  <2>1. last = l
    BY <1>5, <1>11
  <2>2. ~(o + 1 < n)
    BY <1>2, <1>3, <1>11
  <2>3. bo = bk
    BY <1>6, <1>11
  <2> QED
    BY <1>5, <1>7, <1>8, <2>1, <2>2, <2>3
<1> QED
  BY <1>2, <1>4, <1>10, <1>11

\* Every byte lies in a page.
LEMMA ByteInPage ==
  ASSUME NEW d, NEW n, PagesOf(d, n), NEW k \in 1..Length(d, n)
  PROVE  LET o == (k - 1) \div DataSize
             r == ((k - 1) % DataSize) + 1
         IN /\ o \in 0..(n - 1) /\ r \in 1..Len(d[o]) /\ k = o * DataSize + r
            /\ o \in Nat /\ r \in Nat
<1>1. PICK b \in Nat \ {0} : b = DataSize
  BY SizesAssumption
<1>2. n \in Nat
  BY DEF PagesOf
<1>3. n > 0
  BY <1>2 DEF Length
<1>4. PICK m \in Nat : m = n - 1
  BY <1>2, <1>3
<1>5. m \in 0..(n - 1)
  BY <1>2, <1>4
<1>6. PICK last \in Nat : last = Len(d[m]) /\ last <= b
  BY <1>1, <1>5, PageLengths
<1>7. PICK bm \in Nat : bm = b * m
  OBVIOUS
<1>8. Length(d, n) = bm + last
  <2>1. (n - 1) * DataSize = bm
    BY <1>1, <1>4, <1>7
  <2> QED
    BY <1>3, <1>4, <1>6, <2>1 DEF Length
<1>9. k \in Nat /\ k >= 1 /\ k <= bm + last
  BY <1>8
<1>10. PICK j \in Nat : j = k - 1
  BY <1>9
<1>11. PICK o \in Nat, z \in Nat : o = j \div b /\ z = j % b /\ z < b /\ j = o * b + z
  BY Position
<1>12. PICK bo \in Nat : bo = b * o /\ o * b = bo
  OBVIOUS
<1>13. k = bo + z + 1
  BY <1>9, <1>10, <1>11, <1>12
<1>14. o <= m
  <2>1. ASSUME m < o PROVE FALSE
    <3>1. b * m + b <= b * o
      BY <2>1, Multiples
    <3>2. bm + b <= bo
      BY <1>7, <1>12, <3>1
    <3> QED
      BY <1>6, <1>9, <1>13, <3>2
  <2> QED
    BY <2>1
<1>15. o \in 0..(n - 1)
  BY <1>2, <1>4, <1>14
<1>16. z + 1 <= Len(d[o])
  <2>1. CASE o < m
    <3>1. o + 1 < n
      BY <1>2, <1>4, <2>1
    <3>2. Len(d[o]) = b
      BY <1>1, <1>15, <3>1, PageLengths
    <3> QED
      BY <1>11, <3>2
  <2>2. CASE o = m
    <3>1. bo = bm
      BY <1>7, <1>12, <2>2
    <3>2. z + 1 <= last
      BY <1>9, <1>13, <3>1
    <3> QED
      BY <1>6, <2>2, <3>2
  <2> QED
    BY <1>14, <2>1, <2>2
<1>17. z + 1 \in 1..Len(d[o])
  BY <1>15, <1>16, PageLengths
<1>18. k = o * DataSize + (z + 1)
  BY <1>1, <1>12, <1>13
<1> QED
  BY <1>1, <1>10, <1>11, <1>15, <1>17, <1>18

\* Pages have one text.
LEMMA TextUnique ==
  ASSUME NEW d, NEW n, PagesOf(d, n), NEW t, Text(d, n, t), NEW s, Text(d, n, s)
  PROVE  t = s
<1>1. t \in Seq(AnyByte) /\ s \in Seq(AnyByte) /\ Len(t) = Length(d, n) /\ Len(s) = Length(d, n)
  BY DEF Text
<1>2. ASSUME NEW k \in 1..Length(d, n) PROVE t[k] = s[k]
  <2>1. PICK o \in 0..(n - 1) : \E r \in 1..Len(d[o]) : k = o * DataSize + r
    BY ByteInPage
  <2>2. PICK r \in 1..Len(d[o]) : k = o * DataSize + r
    BY <2>1
  <2>3. t[o * DataSize + r] = d[o][r] /\ s[o * DataSize + r] = d[o][r]
    BY DEF Text
  <2> QED
    BY <2>2, <2>3
<1> QED
  BY <1>1, <1>2

\* Only the pages that the file has count.
LEMMA TextAgree ==
  ASSUME NEW d, NEW n, PagesOf(d, n), NEW t, Text(d, n, t), NEW e, \A o \in 0..(n - 1) : e[o] = d[o]
  PROVE  PagesOf(e, n) /\ Text(e, n, t)
<1>1. n \in Nat
  BY DEF PagesOf
<1>2. PagesOf(e, n)
  BY DEF PagesOf
<1>3. Length(e, n) = Length(d, n)
  <2>1. n > 0 => n - 1 \in 0..(n - 1)
    BY <1>1
  <2> QED
    BY <1>1, <2>1 DEF Length
<1> QED
  BY <1>2, <1>3 DEF Text

-----------------------------------------------------------------------------
\* How a text changes with its pages.  One more page after a full one.
LEMMA TextAppend ==
  ASSUME NEW d, NEW n, PagesOf(d, n), n > 0 => Len(d[n - 1]) = DataSize,
         NEW t, Text(d, n, t),
         NEW e, \A o \in 0..(n - 1) : e[o] = d[o],
         e[n] \in Seq(AnyByte), Len(e[n]) <= DataSize
  PROVE  /\ PagesOf(e, n + 1) /\ Text(e, n + 1, t \o e[n])
         /\ Len(t) = n * DataSize
<1>1. n \in Nat
  BY DEF PagesOf
<1>2. PICK b \in Nat \ {0} : b = DataSize
  BY SizesAssumption
<1>3. PagesOf(e, n + 1)
  <2>1. ASSUME NEW o \in 0..n PROVE e[o] \in Seq(AnyByte) /\ Len(e[o]) <= DataSize
    <3>1. o = n \/ o \in 0..(n - 1)
      BY <1>1
    <3> QED
      BY <3>1 DEF PagesOf
  <2>2. ASSUME NEW o \in 0..n, o + 1 < n + 1 PROVE Len(e[o]) = DataSize
    <3>1. o \in 0..(n - 1) /\ n > 0 /\ e[o] = d[o]
      BY <1>1, <2>2
    <3>2. CASE o + 1 < n
      BY <3>1, <3>2 DEF PagesOf
    <3>3. CASE o = n - 1
      BY <3>1, <3>3
    <3> QED
      BY <1>1, <3>1, <3>2, <3>3
  <2>3. n + 1 \in Nat /\ (n + 1) - 1 = n
    BY <1>1
  <2> QED
    BY <2>1, <2>2, <2>3 DEF PagesOf
<1>4. PICK l \in Nat : l = Len(t) /\ l = n * b
  <2>1. Len(t) = Length(d, n) /\ Len(t) \in Nat
    BY DEF Text
  <2>2. CASE n = 0
    <3>1. 0 * b = 0
      OBVIOUS
    <3> QED
      BY <2>1, <2>2, <3>1 DEF Length
  <2>3. CASE n > 0
    <3>1. PICK m \in Nat : m = n - 1
      BY <1>1, <2>3
    <3>2. n * b = m * b + b
      <4>1. (m + 1) * b = m * b + b
        OBVIOUS
      <4> QED
        BY <1>1, <3>1, <4>1
    <3>3. Length(d, n) = m * b + b
      BY <1>2, <2>3, <3>1 DEF Length
    <3> QED
      BY <2>1, <3>2, <3>3
  <2> QED
    BY <1>1, <2>2, <2>3
<1>5. PICK y \in Seq(AnyByte) : y = e[n]
  OBVIOUS
<1>6. PICK x \in Seq(AnyByte) : x = t /\ Len(x) = l /\ l = Length(d, n)
  BY <1>4 DEF Text
<1>7. x \o y \in Seq(AnyByte) /\ Len(x \o y) = l + Len(y) /\ Len(y) \in Nat
  BY <1>6
<1>8. Length(e, n + 1) = l + Len(y)
  <2>1. (n + 1) - 1 = n /\ n + 1 # 0
    BY <1>1
  <2> QED
    BY <1>2, <1>4, <1>5, <2>1 DEF Length
<1>9. ASSUME NEW o \in 0..n, NEW r \in 1..Len(e[o]) PROVE (x \o y)[o * b + r] = e[o][r]
  <2>1. CASE o = n
    <3>1. r \in 1..Len(y)
      BY <1>5, <1>9, <2>1
    <3>2. (x \o y)[l + r] = y[r]
      BY <1>6, <3>1
    <3> QED
      BY <1>4, <1>5, <2>1, <3>2
  <2>2. CASE o \in 0..(n - 1)
    <3>1. e[o] = d[o] /\ r \in 1..Len(d[o])
      BY <1>9, <2>2
    <3>2. t[o * b + r] = d[o][r]
      BY <1>2, <2>2, <3>1 DEF Text
    <3>3. PICK bo \in Nat : bo = o * b /\ bo + Len(d[o]) <= l
      <4>1. o * DataSize \in Nat /\ o * DataSize + Len(d[o]) <= Length(d, n)
        BY <2>2, PageEnds
      <4>2. PICK bo \in Nat : bo = o * DataSize
        BY <4>1
      <4>3. bo + Len(d[o]) <= l
        BY <1>6, <4>1, <4>2
      <4> QED
        BY <1>2, <4>2, <4>3
    <3>4. r \in Nat /\ r >= 1 /\ r <= Len(d[o]) /\ Len(d[o]) \in Nat
      BY <2>2, <3>1, PageLengths
    <3>41. bo + Len(d[o]) <= l
      BY <3>3
    <3>5. bo + r \in 1..l
      BY <3>4, <3>41
    <3>6. (x \o y)[bo + r] = x[bo + r]
      BY <1>6, <3>5
    <3> QED
      BY <1>6, <3>1, <3>2, <3>3, <3>6
  <2>3. o = n \/ o \in 0..(n - 1)
    BY <1>1
  <2> QED
    BY <2>1, <2>2, <2>3
<1>10. (n + 1) - 1 = n
  BY <1>1
<1> QED
  BY <1>2, <1>3, <1>4, <1>5, <1>6, <1>7, <1>8, <1>9, <1>10 DEF Text

\* Where a byte of the pages lies with respect to those that are written, len of
\* them from address addr of page off.
Located(o, r, k, off, addr, pos, len) ==
  /\ k \in Nat /\ k >= 1 /\ pos \in Nat
  /\ o = off => (k > pos <=> r > addr) /\ (k <= pos + len <=> r <= addr + len)
                /\ k - pos = r - addr
  /\ o < off => k <= pos
  /\ o > off => k > pos + len

\* Byte r of page o is byte o * b + r of the file.
LEMMA Within ==
  ASSUME NEW b \in Nat \ {0}, NEW o \in Nat, NEW r \in Nat, r >= 1, r <= b,
         NEW off \in Nat, NEW addr \in Nat, NEW len \in Nat, addr + len <= b,
         NEW k, k = o * b + r, NEW pos, pos = off * b + addr
  PROVE  Located(o, r, k, off, addr, pos, len)
<1>1. PICK bo \in Nat, bf \in Nat : bo = b * o /\ bf = b * off
  OBVIOUS
<1>2. o * b = bo /\ off * b = bf
  BY <1>1
<1>3. k = bo + r /\ pos = bf + addr
  BY <1>2
<1>4. o < off => bo + b <= bf
  BY <1>1, Multiples
<1>5. o > off => bf + b <= bo
  BY <1>1, Multiples
<1>6. o = off => bo = bf
  BY <1>1
<1> QED
  BY <1>3, <1>4, <1>5, <1>6 DEF Located

\* w is s with c at position pos.
Spliced(w, s, pos, c) ==
  /\ w \in Seq(AnyByte) /\ Len(w) \in Nat
  /\ Len(w) = IF pos + Len(c) > Len(s) THEN pos + Len(c) ELSE Len(s)
  /\ \A k \in 1..Len(w) :
       w[k] = IF k > pos /\ k <= pos + Len(c) THEN c[k - pos]
              ELSE IF k <= Len(s) THEN s[k] ELSE Zero

\* Functions on an initial segment are sequences.
LEMMA FunctionSeq ==
  ASSUME NEW S, NEW m \in Nat, NEW v \in [1..m -> S]
  PROVE  v \in Seq(S) /\ Len(v) = m
  OBVIOUS

\* Any such function is a sequence of bytes.
LEMMA SplicedSeq ==
  ASSUME NEW s \in Seq(AnyByte), NEW pos \in Nat, NEW c \in Seq(AnyByte),
         NEW m \in Nat, m = IF pos + Len(c) > Len(s) THEN pos + Len(c) ELSE Len(s),
         NEW w, w = [k \in 1..m |-> IF k > pos /\ k <= pos + Len(c) THEN c[k - pos]
                                    ELSE IF k <= Len(s) THEN s[k] ELSE Zero]
  PROVE  Spliced(w, s, pos, c)
<1>1. ASSUME NEW k \in 1..m
      PROVE (IF k > pos /\ k <= pos + Len(c) THEN c[k - pos]
             ELSE IF k <= Len(s) THEN s[k] ELSE Zero) \in AnyByte
  <2>1. ASSUME k > pos, k <= pos + Len(c) PROVE c[k - pos] \in AnyByte
    <3>1. k - pos \in 1..Len(c)
      BY <2>1
    <3> QED
      BY <3>1
  <2>2. ASSUME k <= Len(s) PROVE s[k] \in AnyByte
    BY <2>2
  <2>3. Zero \in AnyByte
    BY DEF AnyByte
  <2> QED
    BY <2>1, <2>2, <2>3
<1>2. PICK v \in [1..m -> AnyByte] : v = w
  BY <1>1
<1>3. v \in Seq(AnyByte) /\ Len(v) = m
  BY FunctionSeq
<1>4. Len(w) = m /\ w \in Seq(AnyByte)
  BY <1>2, <1>3
<1> QED
  BY <1>4 DEF Spliced

\* A page into which bytes are written.
LEMMA PatchFacts ==
  ASSUME NEW data \in Seq(AnyByte), NEW addr \in Nat, NEW c \in Seq(AnyByte)
  PROVE  Spliced(Patch(data, addr, c), data, addr, c)
<1>1. PICK x \in Nat, y \in Nat : x = Len(data) /\ y = addr + Len(c)
  OBVIOUS
<1>2. x \in Int /\ y \in Int
  OBVIOUS
<1>3. Max({x, y}) >= x /\ Max({x, y}) >= y /\ (Max({x, y}) = x \/ Max({x, y}) = y)
  BY <1>2, MaxTwo
<1>4. PICK m \in Nat : m = Max({x, y}) /\ m = IF y > x THEN y ELSE x
  BY <1>3
<1>5. Patch(data, addr, c)
        = [k \in 1..m |-> IF k > addr /\ k <= addr + Len(c) THEN c[k - addr]
                          ELSE IF k <= Len(data) THEN data[k] ELSE Zero]
  BY <1>1, <1>4 DEF Patch
<1>6. m = IF addr + Len(c) > Len(data) THEN addr + Len(c) ELSE Len(data)
  BY <1>1, <1>4
<1> QED
  BY <1>5, <1>6, SplicedSeq

\* A file into which bytes are written.
LEMMA OverwriteFacts ==
  ASSUME NEW t \in Seq(AnyByte), NEW pos \in Nat, NEW c \in Seq(AnyByte)
  PROVE  Spliced(Store!Overwrite(t, pos, c), t, pos, c)
<1>1. PICK m \in Nat : m = IF pos + Len(c) > Len(t) THEN pos + Len(c) ELSE Len(t)
  OBVIOUS
<1>2. Store!Overwrite(t, pos, c)
        = [k \in 1..m |-> IF k > pos /\ k <= pos + Len(c) THEN c[k - pos]
                          ELSE IF k <= Len(t) THEN t[k] ELSE Zero]
  BY <1>1 DEF Store!Overwrite
<1> QED
  BY <1>1, <1>2, SplicedSeq

\* Bytes at the end are appended.
LEMMA SplicedEnd ==
  ASSUME NEW s \in Seq(AnyByte), NEW c \in Seq(AnyByte), NEW w, Spliced(w, s, Len(s), c)
  PROVE  w = s \o c
<1>1. PICK l \in Nat, m \in Nat : l = Len(s) /\ m = Len(c)
  OBVIOUS
<1>2. w \in Seq(AnyByte) /\ Len(w) = l + m
  BY <1>1 DEF Spliced
<1>3. s \o c \in Seq(AnyByte) /\ Len(s \o c) = l + m
  BY <1>1
<1>4. ASSUME NEW k \in 1..(l + m) PROVE w[k] = (s \o c)[k]
  <2>1. w[k] = IF k > l /\ k <= l + m THEN c[k - l] ELSE IF k <= l THEN s[k] ELSE Zero
    BY <1>1, <1>2 DEF Spliced
  <2>2. (s \o c)[k] = IF k <= l THEN s[k] ELSE c[k - l]
    BY <1>1, <1>4
  <2> QED
    BY <1>4, <2>1, <2>2
<1>5. \A x, y \in Seq(AnyByte) :
        Len(x) = Len(y) /\ (\A k \in 1..Len(x) : x[k] = y[k]) => x = y
  OBVIOUS
<1> QED
  BY <1>2, <1>3, <1>4, <1>5

-----------------------------------------------------------------------------
\* Bytes written into one page are written into the text.
LEMMA TextPatch ==
  ASSUME NEW d, NEW n, PagesOf(d, n), NEW t, Text(d, n, t),
         NEW off \in 0..(n - 1), NEW addr \in Nat, NEW c \in Seq(AnyByte),
         addr + Len(c) <= DataSize, off * DataSize + addr <= Len(t),
         NEW e, PagesOf(e, n), \A o \in 0..(n - 1) : o # off => e[o] = d[o],
         e[off] = Patch(d[off], addr, c)
  PROVE  Text(e, n, Store!Overwrite(t, off * DataSize + addr, c))
<1>1. PICK b \in Nat \ {0} : b = DataSize
  BY SizesAssumption
<1>2. n \in Nat /\ off \in Nat /\ n > 0
  BY DEF PagesOf
<1>3. PICK pos \in Nat : pos = off * DataSize + addr
  BY <1>1, <1>2
<1>4. PICK len \in Nat : len = Len(c) /\ addr + len <= b
  BY <1>1
<1>5. PICK L \in Nat : L = Len(t) /\ L = Length(d, n) /\ pos <= L
  BY <1>3 DEF Text
<1>6. t \in Seq(AnyByte)
  BY DEF Text
<1>7. PICK w : w = Store!Overwrite(t, pos, c)
  OBVIOUS
<1>8. PICK m \in Nat : m = IF pos + len > L THEN pos + len ELSE L
  OBVIOUS
<1>9. /\ w \in Seq(AnyByte) /\ Len(w) = m
      /\ \A k \in 1..m : w[k] = IF k > pos /\ k <= pos + len THEN c[k - pos]
                                ELSE IF k <= L THEN t[k] ELSE Zero
  <2>1. Spliced(w, t, pos, c)
    BY <1>6, <1>7, OverwriteFacts
  <2>2. Len(w) = m
    BY <1>4, <1>5, <1>8, <2>1 DEF Spliced
  <2> QED
    BY <1>4, <1>5, <2>1, <2>2 DEF Spliced
<1>10. PICK l \in Nat : l = Len(d[off]) /\ d[off] \in Seq(AnyByte) /\ l <= b
                        /\ (off + 1 < n => l = b)
  BY <1>1, PageLengths
<1>11. PICK x \in Nat : x = IF addr + len > l THEN addr + len ELSE l
  OBVIOUS
<1>12. /\ Len(e[off]) = x
       /\ \A r \in 1..x : e[off][r] = IF r > addr /\ r <= addr + len THEN c[r - addr]
                                      ELSE IF r <= l THEN d[off][r] ELSE Zero
  <2>1. PICK p : p = Patch(d[off], addr, c)
    OBVIOUS
  <2>2. Spliced(p, d[off], addr, c)
    BY <1>10, <2>1, PatchFacts
  <2>3. Len(p) = x
    BY <1>4, <1>10, <1>11, <2>2 DEF Spliced
  <2>4. e[off] = p
    BY <2>1
  <2> QED
    BY <1>4, <1>10, <2>2, <2>3, <2>4 DEF Spliced
<1>13. PICK bf \in Nat : bf = off * DataSize /\ pos = bf + addr
  <2>1. off * b \in Nat
    BY <1>2
  <2> QED
    BY <1>1, <1>3, <2>1
<1>14. off = n - 1 => L = bf + l
  <2>1. ASSUME off = n - 1 PROVE Length(d, n) = bf + l
    <3>1. n # 0 /\ (n - 1) * DataSize = bf /\ Len(d[n - 1]) = l
      BY <1>2, <1>10, <1>13, <2>1
    <3> QED
      BY <3>1 DEF Length
  <2> QED
    BY <1>5, <2>1
<1>15. off + 1 < n => bf + b <= L /\ m = L
  <2>1. ASSUME off + 1 < n PROVE bf + b <= L
    <3>1. (off + 1) * DataSize <= Length(d, n)
      BY <2>1, PageEnds
    <3>2. (off + 1) * DataSize = bf + b
      BY <1>1, <1>2, <1>13
    <3> QED
      BY <1>5, <3>1, <3>2
  <2>2. bf + b <= L => pos + len <= L
    <3>1. pos = bf + addr
      BY <1>13
    <3> QED
      BY <1>4, <3>1
  <2> QED
    BY <1>8, <2>1, <2>2
<1>16. off = n - 1 \/ off + 1 < n
  BY <1>2
<1>17. Length(e, n) = m
  <2>1. CASE off = n - 1
    <3>1. n # 0 /\ (n - 1) * DataSize = bf /\ Len(e[n - 1]) = x
      BY <1>2, <1>12, <1>13, <2>1
    <3>2. Length(e, n) = bf + x
      BY <3>1 DEF Length
    <3>3. L = bf + l /\ pos = bf + addr
      BY <1>13, <1>14, <2>1
    <3>4. bf + x = m
      BY <1>8, <1>11, <3>3
    <3> QED
      BY <3>2, <3>4
  <2>2. CASE off + 1 < n
    <3>1. n - 1 \in 0..(n - 1) /\ n - 1 # off
      BY <1>2, <2>2
    <3>2. Len(e[n - 1]) = Len(d[n - 1])
      BY <3>1
    <3>3. Length(e, n) = Length(d, n)
      BY <3>2 DEF Length
    <3> QED
      BY <1>5, <1>15, <2>2, <3>3
  <2> QED
    BY <1>16, <2>1, <2>2
<1>18. ASSUME NEW o \in 0..(n - 1), NEW r \in 1..Len(e[o])
       PROVE  w[o * DataSize + r] = e[o][r]
  <2>1. PICK k : k = o * DataSize + r
    OBVIOUS
  <2>2. o \in Nat /\ r \in Nat /\ r >= 1 /\ r <= b /\ r <= Len(e[o]) /\ Len(e[o]) \in Nat
    BY <1>1, <1>18, PageLengths
  <2>21. k = o * b + r /\ pos = off * b + addr
    BY <1>1, <1>3, <2>1
  <2>22. Located(o, r, k, off, addr, pos, len)
    BY <1>2, <1>4, <2>2, <2>21, Within
  <2>3. /\ k \in Nat /\ k >= 1
        /\ o = off => (k > pos <=> r > addr) /\ (k <= pos + len <=> r <= addr + len)
                      /\ k - pos = r - addr
        /\ o < off => k <= pos
        /\ o > off => k > pos + len
    BY <2>22 DEF Located
  <2>4. k <= m
    <3>1. PICK bo \in Nat : bo = o * DataSize /\ bo + Len(e[o]) <= Length(e, n)
      <4>1. o * DataSize \in Nat /\ o * DataSize + Len(e[o]) <= Length(e, n)
        BY PageEnds
      <4> QED
        BY <4>1
    <3>2. k = bo + r /\ bo + Len(e[o]) <= m
      BY <1>17, <2>1, <3>1
    <3> QED
      BY <2>2, <3>2
  <2>5. w[k] = IF k > pos /\ k <= pos + len THEN c[k - pos]
               ELSE IF k <= L THEN t[k] ELSE Zero
    BY <1>9, <2>3, <2>4
  <2>6. \A q \in 1..Len(d[o]) : t[o * DataSize + q] = d[o][q]
    BY DEF Text
  <2>7. CASE o = off
    <3>1. r \in 1..x /\ e[off][r] = IF r > addr /\ r <= addr + len THEN c[r - addr]
                                    ELSE IF r <= l THEN d[off][r] ELSE Zero
      BY <1>12, <1>18, <2>7
    <3>2. r <= l => t[k] = d[off][r]
      BY <1>10, <2>1, <2>2, <2>6, <2>7
    <3>3. k <= L <=> r <= l
      <4>1. k = bf + r
        BY <1>13, <2>1, <2>7
      <4>2. CASE off = n - 1
        <5>1. L = bf + l
          BY <1>14, <4>2
        <5> QED
          BY <2>2, <4>1, <5>1
      <4>3. CASE off + 1 < n
        <5>1. bf + b <= L /\ l = b
          BY <1>10, <1>15, <4>3
        <5> QED
          BY <2>2, <4>1, <5>1
      <4> QED
        BY <1>16, <4>2, <4>3
    <3> QED
      BY <2>1, <2>3, <2>5, <2>7, <3>1, <3>2, <3>3
  <2>8. CASE o # off
    <3>1. e[o] = d[o] /\ r \in 1..Len(d[o])
      BY <1>18, <2>8
    <3>2. t[k] = d[o][r]
      BY <2>1, <2>6, <3>1
    <3>3. ~(k > pos /\ k <= pos + len)
      BY <1>2, <2>2, <2>3, <2>8
    <3>4. k <= L
      <4>1. PICK bo \in Nat : bo = o * DataSize /\ bo + Len(d[o]) <= Length(d, n)
        <5>1. o * DataSize \in Nat /\ o * DataSize + Len(d[o]) <= Length(d, n)
          BY PageEnds
        <5> QED
          BY <5>1
      <4>2. k = bo + r /\ bo + Len(d[o]) <= L
        BY <1>5, <2>1, <4>1
      <4>3. r <= Len(d[o]) /\ Len(d[o]) \in Nat
        BY <2>2, <3>1
      <4> QED
        BY <2>2, <4>2, <4>3
    <3> QED
      BY <2>1, <2>5, <3>1, <3>2, <3>3, <3>4
  <2> QED
    BY <2>7, <2>8
<1> QED
  BY <1>3, <1>7, <1>9, <1>17, <1>18 DEF Text

-----------------------------------------------------------------------------
\* What a mount would find.  The recursion of Joined has a solution.
JoinBody(data, f, n) == IF n = 0 THEN <<>> ELSE f[n - 1] \o data[n - 1]

\* What is known of it.
LEMMA JoinedSolution ==
  ASSUME NEW data
  PROVE  \E f : (\A n \in 0..PageCnt : f[n] = JoinBody(data, f, n)) /\ Joined(data) = f[PageCnt]
<1> DEFINE Upto(f, d) == \A n \in 0..PageCnt : n <= d => f[n] = JoinBody(data, f, n)
           Good == {d \in Nat : \E f : Upto(f, d)}
<1>0. PageCnt \in Nat
  BY SizesAssumption
<1>1. 0 \in Good
  <2> DEFINE f == [n \in 0..PageCnt |-> <<>>]
  <2>1. \A n \in 0..PageCnt : n <= 0 => n = 0
    BY <1>0
  <2>2. f[0] = <<>>
    BY <1>0
  <2> HIDE DEF f
  <2>3. Upto(f, 0)
    BY <2>1, <2>2 DEF JoinBody
  <2> QED
    BY <2>3
<1>2. ASSUME NEW d \in Nat, d \in Good PROVE d + 1 \in Good
  <2>1. PICK f : Upto(f, d)
    BY <1>2
  <2> DEFINE g == [n \in 0..PageCnt |-> JoinBody(data, f, n)]
  <2>2. \A n \in 0..PageCnt : g[n] = JoinBody(data, f, n)
    OBVIOUS
  <2> HIDE DEF g
  <2>3. ASSUME NEW n \in 0..PageCnt, n <= d + 1 PROVE g[n] = JoinBody(data, g, n)
    <3>1. CASE n = 0
      BY <2>2, <3>1 DEF JoinBody
    <3>2. CASE n # 0
      <4>1. n - 1 \in 0..PageCnt /\ n - 1 <= d
        BY <1>0, <2>3, <3>2
      <4>2. g[n - 1] = f[n - 1]
        BY <2>1, <2>2, <4>1
      <4> QED
        BY <2>2, <3>2, <4>2 DEF JoinBody
    <3> QED
      BY <3>1, <3>2
  <2>4. Upto(g, d + 1)
    BY <2>3
  <2> HIDE DEF Upto
  <2> QED
    BY <2>4
<1>3. \A d \in Nat : d \in Good
  <2> HIDE DEF Good
  <2> QED
    BY <1>1, <1>2, InductiveSet
<1>4. PICK f : Upto(f, PageCnt)
  BY <1>0, <1>3
<1>5. \A n \in 0..PageCnt : f[n] = JoinBody(data, f, n)
  BY <1>0, <1>4
<1> DEFINE g == [n \in 0..PageCnt |-> JoinBody(data, f, n)]
<1>6. \A n \in 0..PageCnt : g[n] = f[n]
  BY <1>5
<1>7. \A n \in 0..PageCnt : JoinBody(data, f, n) = JoinBody(data, g, n)
  <2> TAKE n \in 0..PageCnt
  <2>1. CASE n = 0
    BY <2>1 DEF JoinBody
  <2>2. CASE n # 0
    <3>1. n - 1 \in 0..PageCnt
      BY <1>0, <2>2
    <3>2. g[n - 1] = f[n - 1]
      BY <1>6, <3>1
    <3> HIDE DEF g
    <3> QED
      BY <2>2, <3>2 DEF JoinBody
  <2> QED
    BY <2>1, <2>2
<1>8. g = [n \in 0..PageCnt |-> JoinBody(data, g, n)]
  BY <1>7
<1> HIDE DEF g
<1>9. \E h : h = [n \in 0..PageCnt |-> JoinBody(data, h, n)] /\ Joined(data) = h[PageCnt]
  BY <1>8 DEF Joined, JoinBody
<1>10. PICK h : h = [n \in 0..PageCnt |-> JoinBody(data, h, n)] /\ Joined(data) = h[PageCnt]
  BY <1>9
<1>11. \A n \in 0..PageCnt : h[n] = JoinBody(data, h, n)
  BY <1>10
<1> QED
  BY <1>10, <1>11

\* Joined gives the text of n pages that nothing follows.
LEMMA JoinedText ==
  ASSUME NEW d, NEW n, PagesOf(d, n), n <= PageCnt,
         NEW e, \A o \in 0..(n - 1) : e[o] = d[o],
         \A o \in 0..(PageCnt - 1) : o >= n => e[o] = <<>>
  PROVE  Text(d, n, Joined(e))
<1>0. PageCnt \in Nat /\ n \in Nat
  BY SizesAssumption DEF PagesOf
<1>1. PICK f : (\A k \in 0..PageCnt : f[k] = JoinBody(e, f, k)) /\ Joined(e) = f[PageCnt]
  BY JoinedSolution
<1>2. ASSUME NEW k \in Nat, k <= n PROVE PagesOf(d, k)
  BY <1>0, <1>2 DEF PagesOf
<1> DEFINE Good == {k \in Nat : k <= n => Text(d, k, f[k])}
<1>3. 0 \in Good
  <2>1. f[0] = <<>>
    BY <1>0, <1>1 DEF JoinBody
  <2>2. Length(d, 0) = 0 /\ <<>> \in Seq(AnyByte) /\ Len(<<>>) = 0
    BY DEF Length
  <2>3. Text(d, 0, <<>>)
    BY <2>2 DEF Text
  <2> QED
    BY <2>1, <2>3
<1>4. ASSUME NEW k \in Nat, k \in Good PROVE k + 1 \in Good
  <2>1. ASSUME k + 1 <= n PROVE Text(d, k + 1, f[k + 1])
    <3>1. Text(d, k, f[k]) /\ PagesOf(d, k)
      BY <1>0, <1>2, <1>4, <2>1
    <3>2. k \in 0..(n - 1) /\ k + 1 \in 0..PageCnt /\ k + 1 # 0 /\ (k + 1) - 1 = k
      BY <1>0, <2>1
    <3>3. f[k + 1] = f[k] \o d[k]
      BY <1>1, <3>2 DEF JoinBody
    <3>4. d[k] \in Seq(AnyByte) /\ Len(d[k]) <= DataSize
      BY <3>2, PageLengths
    <3>5. k > 0 => Len(d[k - 1]) = DataSize
      <4>1. ASSUME k > 0 PROVE k - 1 \in 0..(n - 1) /\ (k - 1) + 1 < n
        BY <1>0, <2>1, <4>1
      <4> QED
        BY <4>1, PageLengths
    <3> QED
      BY <3>1, <3>3, <3>4, <3>5, TextAppend
  <2> QED
    BY <2>1
<1>5. Text(d, n, f[n])
  <2> HIDE DEF Good
  <2>1. \A k \in Nat : k \in Good
    BY <1>3, <1>4, InductiveSet
  <2> QED
    BY <1>0, <2>1 DEF Good
<1> DEFINE Same == {k \in Nat : n + k <= PageCnt => f[n + k] = f[n]}
<1>6. 0 \in Same
  BY <1>0
<1>7. ASSUME NEW k \in Nat, k \in Same PROVE k + 1 \in Same
  <2>1. ASSUME n + (k + 1) <= PageCnt PROVE f[n + (k + 1)] = f[n]
    <3>1. PICK j \in Nat : j = n + k
      BY <1>0
    <3>2. j \in 0..(PageCnt - 1) /\ j >= n /\ j + 1 \in 0..PageCnt /\ j + 1 # 0 /\ (j + 1) - 1 = j
      BY <1>0, <2>1, <3>1
    <3>3. f[j + 1] = f[j] \o e[j]
      BY <1>1, <3>2 DEF JoinBody
    <3>4. f[j] = f[n] /\ e[j] = <<>>
      BY <1>0, <1>7, <3>1, <3>2
    <3>5. f[n] \in Seq(AnyByte)
      BY <1>5 DEF Text
    <3>6. f[n] \o <<>> = f[n]
      BY <3>5
    <3>7. n + (k + 1) = j + 1
      BY <1>0, <3>1
    <3> QED
      BY <3>3, <3>4, <3>6, <3>7
  <2> QED
    BY <2>1
<1>8. f[PageCnt] = f[n]
  <2> HIDE DEF Same
  <2>1. \A k \in Nat : k \in Same
    BY <1>6, <1>7, InductiveSet
  <2>2. PICK k \in Nat : n + k = PageCnt
    <3>1. PageCnt - n \in Nat /\ n + (PageCnt - n) = PageCnt
      BY <1>0
    <3> QED
      BY <3>1
  <2>3. n + k <= PageCnt
    BY <1>0, <2>2
  <2> QED
    BY <2>1, <2>2, <2>3 DEF Same
<1> QED
  BY <1>1, <1>5, <1>8

-----------------------------------------------------------------------------
\* The copies that a mount would choose for file i, and for its page off.
Chosens(m, i) == {p \in Pages : Chosen(m, p) /\ m[p].inode = i}
ChosenAt(m, i, off) == {p \in Chosens(m, i) : m[p].pgoff = off}
Some(S) == CHOOSE p \in S : TRUE
DataIn(m, i) ==
  [off \in Pages |-> IF ChosenAt(m, i, off) = {} THEN <<>> ELSE m[Some(ChosenAt(m, i, off))].data]

\* SurvivesIn in these terms.
LEMMA SurvivesValue ==
  ASSUME NEW m, NEW i
  PROVE  SurvivesIn(m, i) = IF Chosens(m, i) = {} THEN Absent ELSE Joined(DataIn(m, i))
  BY DEF SurvivesIn, Chosens, ChosenAt, DataIn, Some

\* A copy that is not chosen may be torn.
LEMMA LoseText ==
  ASSUME NEW m \in [Pages -> AnyPage], NEW c \in Pages, ~Chosen(m, c),
         NEW e, e = [m EXCEPT ![c] = Blank], NEW i
  PROVE  SurvivesIn(e, i) = SurvivesIn(m, i)
<1>1. /\ \A p \in Pages : p # c => e[p] = m[p]
      /\ ~e[c].fcs
  BY DEF Blank
<1>2. \A p \in Pages : m[p].fcs \in BOOLEAN /\ m[p].seq \in Int
  BY PageFields
<1>3. ASSUME NEW p \in Pages PROVE Chosen(e, p) <=> Chosen(m, p)
  <2>1. ASSUME Chosen(m, p) PROVE Chosen(e, p)
    <3>1. p # c /\ e[p] = m[p]
      BY <1>1, <2>1
    <3>2. ASSUME NEW q \in Pages, e[q].fcs, e[q].inode = e[p].inode, e[q].pgoff = e[p].pgoff
          PROVE  e[q].seq <= e[p].seq
      <4>1. q # c /\ e[q] = m[q]
        BY <1>1, <3>2
      <4> QED
        BY <2>1, <3>1, <3>2, <4>1 DEF Chosen
    <3> QED
      BY <2>1, <3>1, <3>2 DEF Chosen
  <2>2. ASSUME Chosen(e, p) PROVE Chosen(m, p)
    <3>1. p # c /\ e[p] = m[p] /\ m[p].fcs
      BY <1>1, <2>2 DEF Chosen
    <3>2. ASSUME NEW q \in Pages, q # c, m[q].fcs, m[q].inode = m[p].inode, m[q].pgoff = m[p].pgoff
          PROVE  m[q].seq <= m[p].seq
      <4>1. e[q] = m[q]
        BY <1>1, <3>2
      <4> QED
        BY <2>2, <3>1, <3>2, <4>1 DEF Chosen
    <3>3. ASSUME m[c].fcs, m[c].inode = m[p].inode, m[c].pgoff = m[p].pgoff
          PROVE  m[c].seq <= m[p].seq
      <4>1. PICK q \in Pages : /\ m[q].fcs /\ m[q].inode = m[c].inode /\ m[q].pgoff = m[c].pgoff
                               /\ ~(m[q].seq <= m[c].seq)
        BY <3>3 DEF Chosen
      <4>2. q # c
        BY <1>2, <4>1
      <4>3. m[q].seq <= m[p].seq
        BY <3>2, <3>3, <4>1, <4>2
      <4> QED
        BY <1>2, <4>1, <4>3
    <3> QED
      BY <3>1, <3>2, <3>3 DEF Chosen
  <2> QED
    BY <2>1, <2>2
<1>4. \A p \in Pages : Chosen(m, p) => e[p] = m[p]
  BY <1>1
<1>5. Chosens(e, i) = Chosens(m, i)
  BY <1>3, <1>4 DEF Chosens
<1>6. ASSUME NEW off \in Pages PROVE ChosenAt(e, i, off) = ChosenAt(m, i, off)
  BY <1>4, <1>5 DEF ChosenAt, Chosens
<1>7. DataIn(e, i) = DataIn(m, i)
  <2>1. ASSUME NEW off \in Pages PROVE DataIn(e, i)[off] = DataIn(m, i)[off]
    <3>1. PICK S : S = ChosenAt(m, i, off)
      OBVIOUS
    <3>2. ASSUME S # {} PROVE e[Some(S)] = m[Some(S)]
      <4>1. PICK p : p = Some(S)
        OBVIOUS
      <4>2. p \in S
        BY <3>2, <4>1 DEF Some
      <4>3. p \in Pages /\ Chosen(m, p)
        BY <3>1, <4>2 DEF ChosenAt, Chosens
      <4> QED
        BY <1>4, <4>1, <4>3
    <3>3. /\ DataIn(e, i)[off] = IF ChosenAt(e, i, off) = {} THEN <<>> ELSE e[Some(ChosenAt(e, i, off))].data
          /\ DataIn(m, i)[off] = IF ChosenAt(m, i, off) = {} THEN <<>> ELSE m[Some(ChosenAt(m, i, off))].data
      BY DEF DataIn
    <3>4. ChosenAt(e, i, off) = S
      BY <1>6, <3>1
    <3> QED
      BY <3>1, <3>2, <3>3, <3>4
  <2>2. DataIn(e, i) = [off \in Pages |-> DataIn(e, i)[off]]
        /\ DataIn(m, i) = [off \in Pages |-> DataIn(m, i)[off]]
    BY DEF DataIn
  <2> QED
    BY <2>1, <2>2
<1> QED
  BY <1>5, <1>7, SurvivesValue

\* The data of the n pages from position s of the order h.
FileData(h, s, n) == [o \in 0..(n - 1) |-> h[s + o].data]

\* The pages of a file.
LEMMA FilePages ==
  ASSUME NEW h, NEW u, ArrayOK(h, u), NEW i, NEW s, NEW n, FileAt(h, u, i, s, n)
  PROVE  /\ s \in Nat /\ n \in Nat /\ n <= PageCnt /\ u \in 0..PageCnt
         /\ PagesOf(FileData(h, s, n), n)
         /\ \A o \in 0..(n - 1) :
              /\ o \in Nat /\ o \in Pages /\ s + o \in Pages /\ s + o \in Used(u)
              /\ h[s + o] \in AnyPage /\ h[s + o].fcs
              /\ h[s + o].inode = i /\ h[s + o].pgoff = o
              /\ FileData(h, s, n)[o] = h[s + o].data
<1>1. s \in Nat /\ n \in Nat /\ s + n <= u /\ u \in 0..PageCnt /\ PageCnt \in Nat
  BY SizesAssumption DEF FileAt, ArrayOK
<1>2. ASSUME NEW o \in 0..(n - 1)
      PROVE  /\ o \in Nat /\ o \in Pages /\ s + o \in Pages /\ s + o \in Used(u)
             /\ h[s + o] \in AnyPage /\ h[s + o].fcs
             /\ h[s + o].inode = i /\ h[s + o].pgoff = o
             /\ FileData(h, s, n)[o] = h[s + o].data
  <2>1. PICK k \in Nat : k = s + o
    BY <1>1
  <2>2. o \in Nat /\ o < PageCnt /\ k < u /\ k < PageCnt /\ s <= k /\ k < s + n
    BY <1>1, <2>1
  <2>3. o \in Pages /\ k \in Pages /\ k \in Used(u)
    BY <1>1, <2>2, UsedFacts
  <2>4. h[k].inode = i /\ h[k].pgoff = k - s
    BY <2>2, <2>3 DEF FileAt
  <2>5. k - s = o
    BY <1>1, <2>1
  <2>6. h[k] \in AnyPage /\ h[k].fcs
    BY <2>3 DEF ArrayOK, Ordered
  <2> QED
    BY <2>1, <2>2, <2>3, <2>4, <2>5, <2>6 DEF FileData
<1>3. ASSUME NEW o \in 0..(n - 1), o + 1 < n PROVE Len(h[s + o].data) = DataSize
  <2>1. PICK q : q = o + 1
    OBVIOUS
  <2>2. q \in 0..(n - 1) /\ q > 0
    BY <1>1, <1>3, <2>1
  <2>3. s + q \in Used(u) /\ h[s + q].pgoff > 0
    BY <1>2, <2>2
  <2>4. (s + q) - 1 = s + o
    BY <1>1, <2>1
  <2> QED
    BY <2>3, <2>4 DEF ArrayOK, Linked
<1>4. ASSUME NEW o \in 0..(n - 1)
      PROVE  FileData(h, s, n)[o] \in Seq(AnyByte) /\ Len(FileData(h, s, n)[o]) <= DataSize
  BY <1>2, PageFields
<1>5. PagesOf(FileData(h, s, n), n)
  BY <1>1, <1>2, <1>3, <1>4 DEF PagesOf
<1> QED
  BY <1>1, <1>2, <1>5

-----------------------------------------------------------------------------
\* The content of file i, in the order of the page array.
TextIn(h, u, i, t) ==
  \E s, n : /\ FileAt(h, u, i, s, n)
            /\ IF n = 0 THEN t = Absent ELSE Text(FileData(h, s, n), n, t)

\* There is one.
LEMMA TextInUnique ==
  ASSUME NEW h, NEW u, ArrayOK(h, u), NEW i, NEW t, TextIn(h, u, i, t), NEW r, TextIn(h, u, i, r)
  PROVE  t = r
<1>1. PICK s, n : /\ FileAt(h, u, i, s, n)
                  /\ IF n = 0 THEN t = Absent ELSE Text(FileData(h, s, n), n, t)
  BY DEF TextIn
<1>2. PICK z, o : /\ FileAt(h, u, i, z, o)
                  /\ IF o = 0 THEN r = Absent ELSE Text(FileData(h, z, o), o, r)
  BY DEF TextIn
<1>3. n \in Nat /\ o \in Nat
  BY <1>1, <1>2 DEF FileAt
<1>4. CASE n = 0 /\ o = 0
  BY <1>1, <1>2, <1>4
<1>5. CASE n > 0 \/ o > 0
  <2>1. s = z /\ n = o
    <3>1. n > 0 => s = z /\ n = o
      BY <1>1, <1>2, FilePlace
    <3>2. o > 0 => z = s /\ o = n
      BY <1>1, <1>2, FilePlace
    <3> QED
      BY <1>5, <3>1, <3>2
  <2>2. n # 0 /\ o # 0
    BY <1>3, <1>5, <2>1
  <2>3. PagesOf(FileData(h, s, n), n)
    BY <1>1, FilePages
  <2> QED
    BY <1>1, <1>2, <2>1, <2>2, <2>3, TextUnique
<1> QED
  BY <1>3, <1>4, <1>5

\* A mount would find what the array lists.
LEMMA SurvivesText ==
  ASSUME NEW m \in [Pages -> AnyPage], NEW a, Listed(a), NEW h, h = InOrder(m, a),
         NEW u, ArrayOK(h, u), NEW i
  PROVE  TextIn(h, u, i, SurvivesIn(m, i))
<1>1. PICK s \in Nat, n \in Nat : FileAt(h, u, i, s, n)
  BY FileExists
<1>2. /\ n <= PageCnt /\ u \in 0..PageCnt /\ PagesOf(FileData(h, s, n), n)
      /\ \A o \in 0..(n - 1) :
           /\ o \in Nat /\ o \in Pages /\ s + o \in Pages /\ s + o \in Used(u)
           /\ h[s + o].inode = i /\ h[s + o].pgoff = o
           /\ FileData(h, s, n)[o] = h[s + o].data
  BY <1>1, FilePages
<1>3. /\ a \in [Pages -> Pages]
      /\ \A p \in Pages : \E k \in Pages : a[k] = p
      /\ \A k \in Pages : h[k] = m[a[k]] /\ (Chosen(h, k) <=> Chosen(m, a[k]))
  BY Reorder DEF Listed
<1>4. ASSUME NEW p, p \in Chosens(m, i)
      PROVE  \E o \in 0..(n - 1) : p = a[s + o] /\ m[p].pgoff = o
  <2>1. p \in Pages /\ Chosen(m, p) /\ m[p].inode = i
    BY <1>4 DEF Chosens
  <2>2. PICK k \in Pages : a[k] = p
    BY <1>3, <2>1
  <2>3. k \in Used(u)
    BY <1>3, <2>1, <2>2, ChosenUsed
  <2>4. h[k].inode = i /\ h[k] = m[p]
    BY <1>3, <2>1, <2>2
  <2>5. s <= k /\ k < s + n /\ h[k].pgoff = k - s
    BY <1>1, <2>3, <2>4 DEF FileAt
  <2>6. PICK o : o = k - s
    OBVIOUS
  <2>7. o \in 0..(n - 1) /\ s + o = k
    <3>1. k \in Nat
      BY <1>2, <2>3, UsedFacts
    <3> QED
      BY <2>5, <2>6, <3>1
  <2> QED
    BY <2>2, <2>4, <2>5, <2>6, <2>7
<1>5. ASSUME NEW o \in 0..(n - 1) PROVE a[s + o] \in Chosens(m, i) /\ m[a[s + o]].pgoff = o
  <2>1. Chosen(h, s + o)
    BY <1>2, ChosenUsed
  <2> QED
    BY <1>2, <1>3, <2>1 DEF Chosens
<1>6. ASSUME NEW o \in 0..(n - 1) PROVE DataIn(m, i)[o] = FileData(h, s, n)[o]
  <2>1. a[s + o] \in ChosenAt(m, i, o)
    BY <1>5 DEF ChosenAt
  <2>2. ASSUME NEW p, p \in ChosenAt(m, i, o) PROVE p = a[s + o]
    <3>1. p \in Chosens(m, i) /\ m[p].pgoff = o
      BY <2>2 DEF ChosenAt
    <3> QED
      BY <1>4, <3>1
  <2>3. Some(ChosenAt(m, i, o)) = a[s + o]
    BY <2>1, <2>2 DEF Some
  <2>4. DataIn(m, i)[o] = m[a[s + o]].data
    BY <1>2, <2>1, <2>3 DEF DataIn
  <2> QED
    BY <1>2, <1>3, <2>4
<1>7. ASSUME NEW o \in 0..(PageCnt - 1), o >= n PROVE DataIn(m, i)[o] = <<>>
  <2>1. ASSUME NEW p, p \in ChosenAt(m, i, o) PROVE FALSE
    <3>1. p \in Chosens(m, i) /\ m[p].pgoff = o
      BY <2>1 DEF ChosenAt
    <3>2. o \in 0..(n - 1)
      BY <1>4, <3>1
    <3> QED
      BY <1>7, <3>2
  <2>2. ChosenAt(m, i, o) = {} /\ o \in Pages
    BY <2>1 DEF Pages
  <2> QED
    BY <2>2 DEF DataIn
<1>8. CASE n = 0
  <2>1. Chosens(m, i) = {}
    <3>1. 0..(n - 1) = {}
      BY <1>8
    <3> QED
      BY <1>4, <3>1
  <2>2. SurvivesIn(m, i) = Absent
    BY <2>1, SurvivesValue
  <2> QED
    BY <1>1, <1>8, <2>2 DEF TextIn
<1>9. CASE n # 0
  <2>1. 0 \in 0..(n - 1)
    BY <1>9
  <2>2. Chosens(m, i) # {}
    BY <1>5, <2>1
  <2>3. SurvivesIn(m, i) = Joined(DataIn(m, i))
    BY <2>2, SurvivesValue
  <2>4. Text(FileData(h, s, n), n, Joined(DataIn(m, i)))
    BY <1>2, <1>6, <1>7, JoinedText
  <2> QED
    BY <1>1, <1>9, <2>3, <2>4 DEF TextIn
<1> QED
  BY <1>8, <1>9

\* A read gives what the array lists.
LEMMA ContentText ==
  ASSUME dev \in AnyDevice, Listed(page_array), ArrayOK(Now, free_page_start), NEW i \in Nat,
         NEW t, TextIn(Now, free_page_start, i, t)
  PROVE  Content(i) = t
<1>1. PICK s, n : /\ FileAt(Now, free_page_start, i, s, n)
                  /\ IF n = 0 THEN t = Absent ELSE Text(FileData(Now, s, n), n, t)
  BY DEF TextIn
<1>2. /\ s \in Nat /\ n \in Nat /\ PagesOf(FileData(Now, s, n), n)
      /\ \A o \in 0..(n - 1) : s + o \in Pages /\ FileData(Now, s, n)[o] = Now[s + o].data
  BY <1>1, FilePages
<1>3. CASE n = 0
  <2>1. PICK p : FindFile(i) = [found |-> FALSE, start |-> p]
    BY <1>1, <1>3, FindFileValue
  <2>2. ~FindFile(i).found
    BY <2>1
  <2> QED
    BY <1>1, <1>3, <2>2 DEF Content
<1>4. CASE n > 0
  <2>1. FindFile(i) = [found |-> TRUE, start |-> s]
    BY <1>1, <1>4, FindFileValue
  <2>2. FindFile(i).found /\ FindFile(i).start = s
    BY <2>1
  <2>3. Text(FileData(Now, s, n), n, t)
    BY <1>1, <1>4
  <2>4. FileSize(i, s) = Length(FileData(Now, s, n), n)
    <3>1. FileSize(i, s) = (n - 1) * DataSize + Len(Now[s + n - 1].data)
      BY <1>1, <1>4, FileSizeValue
    <3>2. n - 1 \in 0..(n - 1) /\ s + (n - 1) = s + n - 1 /\ n # 0
      BY <1>2, <1>4
    <3> QED
      BY <1>2, <3>1, <3>2 DEF Length
  <2>5. PICK size \in Nat : size = FileSize(i, s) /\ size = Len(t) /\ size = Length(FileData(Now, s, n), n)
    BY <2>3, <2>4 DEF Text
  <2> DEFINE o(k) == (k - 1) \div DataSize
             r(k) == ((k - 1) % DataSize) + 1
  <2>6. ASSUME NEW k \in 1..size
        PROVE  (IF r(k) <= Len(PageAt(s + o(k)).data) THEN PageAt(s + o(k)).data[r(k)] ELSE Unset) = t[k]
    <3>1. /\ o(k) \in 0..(n - 1) /\ r(k) \in 1..Len(FileData(Now, s, n)[o(k)])
          /\ k = o(k) * DataSize + r(k)
      BY <1>2, <2>5, ByteInPage
    <3> HIDE DEF o, r
    <3>2. PageAt(s + o(k)) = Now[s + o(k)] /\ FileData(Now, s, n)[o(k)] = Now[s + o(k)].data
      BY <1>2, <3>1, NowPages
    <3>3. t[k] = FileData(Now, s, n)[o(k)][r(k)]
      BY <2>3, <3>1 DEF Text
    <3>4. r(k) <= Len(FileData(Now, s, n)[o(k)])
      BY <3>1
    <3> QED
      BY <3>2, <3>3, <3>4
  <2>7. Content(i) = [k \in 1..size |->
                        IF r(k) <= Len(PageAt(s + o(k)).data) THEN PageAt(s + o(k)).data[r(k)] ELSE Unset]
    BY <2>2, <2>5 DEF Content
  <2> HIDE DEF o, r
  <2>8. Content(i) = [k \in 1..size |-> t[k]]
    BY <2>6, <2>7
  <2>9. t \in Seq(AnyByte) /\ Len(t) = size
    BY <2>3, <2>5 DEF Text
  <2>10. t = [k \in 1..size |-> t[k]]
    BY <2>9
  <2> QED
    BY <2>8, <2>10
<1> QED
  BY <1>2, <1>3, <1>4

-----------------------------------------------------------------------------
\* A text belongs to the place where its file is.
LEMMA TextAt ==
  ASSUME NEW h, NEW u, ArrayOK(h, u), NEW i, NEW s, NEW n, FileAt(h, u, i, s, n),
         NEW t, TextIn(h, u, i, t)
  PROVE  /\ n = 0 => t = Absent
         /\ n > 0 => Text(FileData(h, s, n), n, t)
<1>1. PICK z, o : /\ FileAt(h, u, i, z, o)
                  /\ IF o = 0 THEN t = Absent ELSE Text(FileData(h, z, o), o, t)
  BY DEF TextIn
<1>2. n \in Nat /\ o \in Nat
  BY <1>1 DEF FileAt
<1>3. CASE n > 0
  <2>1. s = z /\ n = o
    BY <1>1, <1>3, FilePlace
  <2>2. o # 0
    BY <1>3, <2>1
  <2> QED
    BY <1>1, <1>2, <1>3, <2>1, <2>2
<1>4. CASE n = 0
  <2>1. ASSUME o > 0 PROVE FALSE
    <3>1. o = n
      BY <1>1, <2>1, FilePlace
    <3> QED
      BY <1>4, <2>1, <3>1
  <2> QED
    BY <1>1, <1>2, <1>4, <2>1
<1> QED
  BY <1>2, <1>3, <1>4

\* Where the same pages are in another order, so is the text.
LEMMA TextMoves ==
  ASSUME NEW h, NEW u, ArrayOK(h, u), NEW i, NEW s, NEW n, n > 0, FileAt(h, u, i, s, n),
         NEW t, TextIn(h, u, i, t),
         NEW g, NEW v, NEW z, FileAt(g, v, i, z, n),
         \A o \in 0..(n - 1) : g[z + o] = h[s + o]
  PROVE  TextIn(g, v, i, t)
<1>1. Text(FileData(h, s, n), n, t)
  BY TextAt
<1>2. PagesOf(FileData(h, s, n), n) /\ n \in Nat
  BY FilePages
<1>3. \A o \in 0..(n - 1) : FileData(g, z, n)[o] = FileData(h, s, n)[o]
  BY DEF FileData
<1>4. Text(FileData(g, z, n), n, t)
  BY <1>1, <1>2, <1>3, TextAgree
<1>5. n # 0
  BY <1>2
<1> QED
  BY <1>4, <1>5 DEF TextIn

\* An insertion changes no other file.
LEMMA InsertText ==
  ASSUME NEW h, NEW u, ArrayOK(h, u), u < PageCnt, NEW pos \in 0..u, NEW page \in AnyPage,
         Fits(h, u, pos, page), NEW g, InsertedPage(h, u, pos, page, g),
         NEW i \in Nat, i # page.inode, NEW t, TextIn(h, u, i, t)
  PROVE  TextIn(g, u + 1, i, t)
<1>0. /\ u \in 0..PageCnt /\ u \in Nat /\ pos \in Nat /\ pos <= u /\ PageCnt \in Nat
      /\ page.inode \in Nat
      /\ \A k \in Used(u + 1) : k \in Nat /\ k <= u /\ k \in Pages
      /\ \A k \in Nat : k < u => k \in Used(u)
  BY SMTT(30), UsedFacts, PageFields DEF ArrayOK
<1>1. PICK s, n : FileAt(h, u, i, s, n) /\ (n = 0 => t = Absent)
  BY DEF TextIn
<1>2. s \in Nat /\ n \in Nat /\ s + n <= u
  BY <1>1 DEF FileAt
<1>3. CASE n = 0
  <2>1. ArrayOK(g, u + 1)
    BY <1>0, InsertArray
  <2>2. PICK z \in Nat, o \in Nat : FileAt(g, u + 1, i, z, o)
    BY <2>1, FileExists
  <2>3. ASSUME o > 0 PROVE FALSE
    <3>1. z \in Nat /\ z <= u
      BY <1>0, <2>2, <2>3 DEF FileAt
    <3>2. z \in Used(u + 1)
      BY <1>0, <3>1, UsedFacts
    <3>3. z \in Pages /\ g[z].inode = i
      BY <1>0, <2>2, <2>3, <3>2 DEF FileAt
    <3>4. \A k \in Used(u) : h[k].inode # i
      BY <1>1, <1>2, <1>3 DEF FileAt, Used, Pages
    <3>5. CASE z < pos
      <4>1. z \in Used(u) /\ g[z] = h[z]
        BY <1>0, <3>1, <3>3, <3>5 DEF InsertedPage
      <4> QED
        BY <3>3, <3>4, <4>1
    <3>6. CASE z = pos
      BY <3>3, <3>6 DEF InsertedPage
    <3>7. CASE z > pos
      <4>1. z - 1 \in Nat /\ z - 1 < u
        BY <1>0, <3>1, <3>7
      <4>2. z - 1 \in Used(u) /\ g[z] = h[z - 1]
        BY <1>0, <3>1, <3>3, <3>7, <4>1 DEF InsertedPage
      <4> QED
        BY <3>3, <3>4, <4>2
    <3> QED
      BY <1>0, <3>1, <3>5, <3>6, <3>7
  <2>4. o = 0
    BY <2>2, <2>3
  <2> QED
    BY <1>0, <1>1, <1>3, <2>2, <2>4 DEF TextIn
<1>4. CASE n > 0 /\ i < page.inode
  <2>1. FileAt(g, u + 1, i, s, n) /\ s + n <= pos
    BY <1>0, <1>1, <1>4, InsertFile
  <2>2. ASSUME NEW o \in 0..(n - 1) PROVE g[s + o] = h[s + o]
    <3>1. s + o \in Pages
      BY <1>1, FilePages
    <3>2. s + o < pos
      BY <1>2, <2>1
    <3> QED
      BY <3>1, <3>2 DEF InsertedPage
  <2>3. n > 0
    BY <1>4
  <2> QED
    BY <1>1, <2>1, <2>2, <2>3, TextMoves
<1>5. CASE n > 0 /\ i > page.inode
  <2>1. FileAt(g, u + 1, i, s + 1, n) /\ pos <= s
    BY <1>0, <1>1, <1>5, InsertFile
  <2>2. ASSUME NEW o \in 0..(n - 1) PROVE g[(s + 1) + o] = h[s + o]
    <3>1. PICK k : k = (s + 1) + o
      OBVIOUS
    <3>2. k \in Nat /\ k <= u /\ pos < k /\ k - 1 = s + o
      BY <1>0, <1>2, <2>1, <3>1
    <3>3. k \in Pages
      BY <1>0, <3>2 DEF Pages
    <3>4. g[k] = h[k - 1]
      BY <3>2, <3>3 DEF InsertedPage
    <3> QED
      BY <3>1, <3>2, <3>4
  <2>3. n > 0
    BY <1>5
  <2> QED
    BY <1>1, <2>1, <2>2, <2>3, TextMoves
<1> QED
  BY <1>0, <1>2, <1>3, <1>4, <1>5

\* The file whose page it is gets the bytes of the page.
LEMMA InsertOwnText ==
  ASSUME NEW h, NEW u, ArrayOK(h, u), u < PageCnt, NEW page \in AnyPage,
         NEW s, NEW n, FileAt(h, u, page.inode, s, n), page.pgoff = n,
         NEW pos \in 0..u, pos = s + n,
         Fits(h, u, pos, page), NEW g, InsertedPage(h, u, pos, page, g),
         NEW t, TextIn(h, u, page.inode, t)
  PROVE  /\ n = 0 => t = Absent /\ TextIn(g, u + 1, page.inode, page.data)
         /\ n > 0 => /\ t \in Seq(AnyByte) /\ Len(t) = n * DataSize
                     /\ TextIn(g, u + 1, page.inode, t \o page.data)
<1>0. /\ n \in Nat /\ s \in Nat /\ s + n <= u /\ page.inode \in Nat
      /\ page.data \in Seq(AnyByte) /\ Len(page.data) <= DataSize
  BY PageFields DEF FileAt, Fits
<1>1. FileAt(g, u + 1, page.inode, s, n + 1)
  BY <1>0, InsertFile
<1>2. n + 1 # 0
  BY <1>0
<1>3. PICK d : d = FileData(h, s, n)
  OBVIOUS
<1>4. PICK e : e = FileData(g, s, n + 1)
  OBVIOUS
<1>5. \A o \in 0..(n - 1) : e[o] = d[o]
  <2>1. ASSUME NEW o \in 0..(n - 1) PROVE e[o] = d[o]
    <3>1. s + o \in Pages /\ d[o] = h[s + o].data
      BY <1>3, FilePages
    <3>2. s + o < pos
      BY <1>0
    <3>3. g[s + o] = h[s + o]
      BY <3>1, <3>2 DEF InsertedPage
    <3>4. o \in 0..((n + 1) - 1)
      BY <1>0
    <3>5. e[o] = g[s + o].data
      BY <1>4, <3>4 DEF FileData
    <3> QED
      BY <3>1, <3>3, <3>5
  <2> QED
    BY <2>1
<1>6. e[n] = page.data
  <2>1. n \in 0..((n + 1) - 1) /\ s + n = pos
    BY <1>0
  <2>2. e[n] = g[pos].data
    BY <1>4, <2>1 DEF FileData
  <2> QED
    BY <2>2 DEF InsertedPage
<1>7. PagesOf(d, n)
  BY <1>3, FilePages
<1>8. n > 0 => Len(d[n - 1]) = DataSize
  <2>1. ASSUME n > 0 PROVE Len(d[n - 1]) = DataSize
    <3>1. n - 1 \in 0..(n - 1) /\ s + (n - 1) = pos - 1
      BY <1>0, <2>1
    <3>2. d[n - 1] = h[pos - 1].data
      BY <1>3, <3>1 DEF FileData
    <3>3. Len(h[pos - 1].data) = DataSize
      BY <2>1 DEF Fits
    <3> QED
      BY <3>2, <3>3
  <2> QED
    BY <2>1
<1>9. CASE n = 0
  <2>1. t = Absent
    BY <1>9, TextAt
  <2>2. Text(d, n, <<>>)
    <3>1. <<>> \in Seq(AnyByte) /\ Len(<<>>) = 0
      OBVIOUS
    <3>2. 0..(n - 1) = {}
      BY <1>9
    <3> QED
      BY <1>9, <3>1, <3>2 DEF Text, Length
  <2>3. Text(e, n + 1, <<>> \o e[n])
    BY <1>0, <1>5, <1>6, <1>7, <1>8, <2>2, TextAppend
  <2>4. <<>> \o e[n] = page.data
    BY <1>0, <1>6
  <2> QED
    BY <1>1, <1>2, <1>4, <1>9, <2>1, <2>3, <2>4 DEF TextIn
<1>10. CASE n > 0
  <2>1. Text(d, n, t)
    BY <1>3, <1>10, TextAt
  <2>2. Text(e, n + 1, t \o e[n]) /\ Len(t) = n * DataSize
    BY <1>0, <1>5, <1>6, <1>7, <1>8, <2>1, TextAppend
  <2>3. t \in Seq(AnyByte)
    BY <2>1 DEF Text
  <2> QED
    BY <1>1, <1>2, <1>4, <1>6, <1>10, <2>2, <2>3 DEF TextIn
<1> QED
  BY <1>0, <1>9, <1>10

\* Nor does rewriting a page change another file.
LEMMA RewriteText ==
  ASSUME NEW h, NEW u, ArrayOK(h, u), NEW pos \in Used(u), NEW page \in AnyPage,
         Rewrites(h, u, pos, page), NEW g, NEW from, RewrittenPage(h, u, pos, page, g, from),
         NEW i, i # page.inode, NEW t, TextIn(h, u, i, t)
  PROVE  TextIn(g, u, i, t)
<1>1. PICK s, n : FileAt(h, u, i, s, n) /\ (n = 0 => t = Absent)
  BY DEF TextIn
<1>2. n \in Nat
  BY <1>1 DEF FileAt
<1>3. FileAt(g, u, i, s, n)
  BY <1>1, RewriteFile
<1>4. CASE n = 0
  BY <1>1, <1>3, <1>4 DEF TextIn
<1>5. CASE n > 0
  <2>1. ASSUME NEW o \in 0..(n - 1) PROVE g[s + o] = h[s + o]
    <3>1. s + o \in Used(u) /\ h[s + o].inode = i
      BY <1>1, FilePages
    <3>2. s + o # pos
      BY <3>1 DEF Rewrites, SamePage
    <3> QED
      BY <3>1, <3>2 DEF RewrittenPage
  <2> QED
    BY <1>1, <1>3, <1>5, <2>1, TextMoves
<1> QED
  BY <1>2, <1>4, <1>5

\* The bytes written into the page are written into the file.
LEMMA RewriteOwnText ==
  ASSUME NEW h, NEW u, ArrayOK(h, u), NEW pos \in Used(u), NEW page \in AnyPage,
         Rewrites(h, u, pos, page), NEW g, NEW from, RewrittenPage(h, u, pos, page, g, from),
         NEW s, NEW n, FileAt(h, u, page.inode, s, n), NEW off \in 0..(n - 1), pos = s + off,
         NEW t, TextIn(h, u, page.inode, t),
         NEW addr \in Nat, NEW c \in Seq(AnyByte), addr + Len(c) <= DataSize,
         page.data = Patch(h[pos].data, addr, c), off * DataSize + addr <= Len(t)
  PROVE  TextIn(g, u, page.inode, Store!Overwrite(t, off * DataSize + addr, c))
<1>1. FileAt(g, u, page.inode, s, n)
  BY RewriteFile
<1>2. n \in Nat /\ n > 0 /\ n # 0 /\ s \in Nat
  BY DEF FileAt
<1>3. PICK d : d = FileData(h, s, n)
  OBVIOUS
<1>4. PICK e : e = FileData(g, s, n)
  OBVIOUS
<1>5. PagesOf(d, n)
  BY <1>3, FilePages
<1>6. PagesOf(e, n)
  <2>1. ArrayOK(g, u)
    BY RewriteArray
  <2> QED
    BY <1>1, <1>4, <2>1, FilePages
<1>7. Text(d, n, t)
  BY <1>2, <1>3, TextAt
<1>8. ASSUME NEW o \in 0..(n - 1), o # off PROVE e[o] = d[o]
  <2>1. s + o \in Used(u) /\ s + o # pos
    <3>1. s + o \in Used(u)
      BY FilePages
    <3>2. o \in Int /\ off \in Int
      OBVIOUS
    <3> QED
      BY <1>2, <1>8, <3>1, <3>2
  <2>2. g[s + o] = h[s + o]
    BY <2>1 DEF RewrittenPage
  <2> QED
    BY <1>3, <1>4, <2>2 DEF FileData
<1>9. e[off] = Patch(d[off], addr, c)
  <2>1. e[off] = g[pos].data /\ d[off] = h[pos].data
    BY <1>3, <1>4 DEF FileData
  <2>2. g[pos] = page
    BY DEF RewrittenPage
  <2> QED
    BY <2>1, <2>2
<1>10. Text(e, n, Store!Overwrite(t, off * DataSize + addr, c))
  BY <1>5, <1>6, <1>7, <1>8, <1>9, TextPatch
<1> QED
  BY <1>1, <1>2, <1>4, <1>10 DEF TextIn

-----------------------------------------------------------------------------
\* All the files that a memory holds.
Holds(m) == [i \in Inodes |-> SurvivesIn(m, i)]

\* What is visible is what a device answers, until it fails.
VisibleOK ==
  /\ Durable = Holds(dev.media)
  /\ failed => Visible = Durable
  /\ ~failed => Visible = Holds(View(dev))
  /\ mounted /\ ~failed => \A i \in Inodes : TextIn(Now, free_page_start, i, Visible[i])

\* So it is in every state.
LEMMA VisibleValue == BattInv => VisibleOK
<1> SUFFICES ASSUME BattInv PROVE VisibleOK
  OBVIOUS
<1>1. DevOK /\ StateOK /\ dev \in AnyDevice /\ Clean(dev)
  BY DEF BattInv, DevOK, Clean
<1>2. Durable = Holds(dev.media)
  BY DEF Durable, Holds
<1>3. failed => Visible = Durable
  BY DEF Visible
<1>4. CASE ~mounted
  <2>1. View(dev) = dev.media
    BY <1>1, <1>4, ViewClean DEF StateOK
  <2>2. Visible = Durable
    BY <1>4 DEF Visible
  <2> QED
    BY <1>2, <1>3, <1>4, <2>1, <2>2 DEF VisibleOK
<1>5. CASE mounted /\ ~failed
  <2>1. /\ Listed(page_array) /\ ArrayOK(Now, free_page_start)
        /\ Now = InOrder(View(dev), page_array)
    BY <1>5, NowSound DEF SoundDisk, Now
  <2>2. View(dev) \in [Pages -> AnyPage]
    BY <1>1, ViewType
  <2>3. ASSUME NEW i \in Inodes
        PROVE  TextIn(Now, free_page_start, i, SurvivesIn(View(dev), i))
    BY <2>1, <2>2, SurvivesText
  <2>4. ASSUME NEW i \in Inodes PROVE Content(i) = SurvivesIn(View(dev), i)
    BY <1>1, <2>1, <2>3, InodeFacts, ContentText
  <2>5. Visible = [i \in Inodes |-> Content(i)]
    BY <1>5 DEF Visible
  <2>6. Visible = Holds(View(dev))
    BY <2>4, <2>5 DEF Holds
  <2>7. \A i \in Inodes : Visible[i] = SurvivesIn(View(dev), i)
    BY <2>6 DEF Holds
  <2> QED
    BY <1>2, <1>5, <2>3, <2>6, <2>7 DEF VisibleOK
<1> QED
  BY <1>2, <1>3, <1>4, <1>5 DEF VisibleOK

\* Before and after a step.
LEMMA BothVisible ==
  ASSUME BattInv, BattInv'
  PROVE  VisibleOK /\ VisibleOK'
<1>1. VisibleOK
  BY VisibleValue
<1>2. BattInv' => VisibleOK'
  BY VisibleValue, PTL
<1> QED
  BY <1>1, <1>2

\* What kblock_write() has stored on the medium.
LEMMA WriteMedia ==
  ASSUME NEW d \in AnyDevice, Clean(d), NEW p \in Pages, NEW page \in AnyPage
  PROVE  BlockWrite(d, p, page).media \in {d.media, View(d)}
<1>1. CASE d.dirty /\ p = d.curr
  <2>1. BlockWrite(d, d.curr, page).media = d.media
    BY <1>1, InPlaceDevice
  <2> QED
    BY <1>1, <2>1
<1>2. CASE ~(d.dirty /\ p = d.curr)
  BY <1>2, WriteDevice DEF Stored
<1> QED
  BY <1>1, <1>2

\* One file becomes t.
Becomes(inode, t) == Visible' = [Visible EXCEPT ![inode] = t]

\* The new visible files, if each is known.
LEMMA VisibleIs ==
  ASSUME BattInv, BattInv', mounted, ~failed, mounted', ~failed',
         NEW inode \in Inodes, NEW t, TextIn(Now', free_page_start', inode, t),
         \A i \in Inodes : i # inode => TextIn(Now', free_page_start', i, Visible[i])
  PROVE  Becomes(inode, t)
<1>1. VisibleOK /\ VisibleOK'
  BY BothVisible
<1>2. Visible = Holds(View(dev)) /\ Visible' = Holds(View(dev'))
  BY <1>1 DEF VisibleOK
<1>3. ArrayOK(Now', free_page_start')
  <2>1. RunOK'
    BY DEF BattInv
  <2> QED
    BY <2>1 DEF RunOK
<1>4. \A i \in Inodes : TextIn(Now', free_page_start', i, Visible'[i])
  BY <1>1 DEF VisibleOK
<1>5. Visible'[inode] = t
  BY <1>3, <1>4, TextInUnique
<1>6. ASSUME NEW i \in Inodes, i # inode PROVE Visible'[i] = Visible[i]
  BY <1>3, <1>4, <1>6, TextInUnique
<1> QED
  BY <1>2, <1>5, <1>6 DEF Holds, Becomes

\* A file that becomes longer by a page.
LEMMA ExtendStores ==
  ASSUME BattInv, BattInv', mounted, ~failed, mounted', ~failed', Steady, ~SpaceOver,
         NEW inode, NEW s, NEW n, NEW page, NEW f, Extends(inode, s, n, page, f)
  PROVE  /\ Durable' \in {Durable, Visible}
         /\ n = 0 => /\ Visible[inode] = Absent
                     /\ Becomes(inode, page.data)
         /\ n > 0 => /\ Visible[inode] \in Seq(AnyByte) /\ Len(Visible[inode]) = n * DataSize
                     /\ Becomes(inode, Visible[inode] \o page.data)
<1> DEFINE u == free_page_start
<1>0. /\ inode \in Inodes /\ n \in Nat /\ FileAt(Now, u, inode, s, n)
      /\ page \in AnyPage /\ page.inode = inode /\ page.pgoff = n
      /\ s + n \in 0..u /\ Fits(Now, u, s + n, page)
      /\ dev' = BlockWrite(dev, page_array[u], page) /\ Allocate(s + n, inode)
  BY DEF Extends
<1>1. PICK pos \in 0..u : pos = s + n
  BY <1>0
<1>2. PICK d : d = dev'
  OBVIOUS
<1>3. PICK a : a = page_array'
  OBVIOUS
<1>4. a = Inserted(page_array, u, pos) /\ free_page_start' = u + 1
  BY <1>0, <1>1, <1>3 DEF Allocate, Inserted
<1>5. PICK g : g = InOrder(View(d), a)
  OBVIOUS
<1>6. Now' = g
  BY <1>2, <1>3, <1>5 DEF Now
<1>7. u < PageCnt /\ InsertedPage(Now, u, pos, page, g) /\ Fits(Now, u, pos, page) /\ u \in 0..PageCnt
  <2>1. d = BlockWrite(dev, page_array[u], page) /\ Fits(Now, u, pos, page)
    BY <1>0, <1>1, <1>2
  <2> QED
    BY <1>0, <1>4, <1>5, <2>1, InsertStep
<1>8. /\ ArrayOK(Now, u) /\ dev \in AnyDevice /\ Clean(dev)
      /\ \A k \in Pages : page_array[k] \in Pages
  BY NowSound DEF SoundDisk, Now
<1>9. VisibleOK /\ VisibleOK'
  BY BothVisible
<1>10. \A i \in Inodes : TextIn(Now, u, i, Visible[i])
  BY <1>9 DEF VisibleOK
<1>11. Durable' \in {Durable, Visible}
  <2>1. u \in Pages
    BY <1>7, SizesAssumption DEF Pages
  <2>11. page_array[u] \in Pages
    BY <1>8, <2>1
  <2>2. dev'.media \in {dev.media, View(dev)}
    BY <1>0, <1>8, <2>11, WriteMedia
  <2>3. Durable = Holds(dev.media) /\ Durable' = Holds(dev'.media) /\ Visible = Holds(View(dev))
    BY <1>9 DEF VisibleOK
  <2> QED
    BY <2>2, <2>3
<1>12. ASSUME NEW i \in Inodes, i # inode PROVE TextIn(g, u + 1, i, Visible[i])
  BY <1>0, <1>7, <1>8, <1>10, <1>12, InodeFacts, InsertText
<1>13. /\ n = 0 => Visible[inode] = Absent /\ TextIn(g, u + 1, inode, page.data)
       /\ n > 0 => /\ Visible[inode] \in Seq(AnyByte) /\ Len(Visible[inode]) = n * DataSize
                   /\ TextIn(g, u + 1, inode, Visible[inode] \o page.data)
  <2>1. TextIn(Now, u, page.inode, Visible[inode]) /\ FileAt(Now, u, page.inode, s, n)
    BY <1>0, <1>10
  <2>2. PICK t : t = Visible[inode]
    OBVIOUS
  <2>3. page.pgoff = n /\ TextIn(Now, u, page.inode, t)
    BY <1>0, <2>1, <2>2
  <2>4. /\ n = 0 => t = Absent /\ TextIn(g, u + 1, page.inode, page.data)
        /\ n > 0 => /\ t \in Seq(AnyByte) /\ Len(t) = n * DataSize
                    /\ TextIn(g, u + 1, page.inode, t \o page.data)
    <3> HIDE DEF u
    <3> QED
      BY <1>0, <1>1, <1>7, <1>8, <2>1, <2>3, InsertOwnText
  <2> QED
    BY <1>0, <2>2, <2>4
<1>14. ASSUME NEW t, TextIn(g, u + 1, inode, t) PROVE Becomes(inode, t)
  BY <1>0, <1>4, <1>6, <1>12, <1>14, VisibleIs
<1> QED
  BY <1>11, <1>13, <1>14

\* A page of an open file that is written again.
LEMMA AlterStores ==
  ASSUME BattInv, BattInv', mounted, ~failed, mounted', ~failed',
         NEW inode, NEW pos, NEW page, NEW there, Alters(inode, pos, page, there),
         NEW s, NEW n, FileAt(Now, free_page_start, inode, s, n),
         NEW off \in 0..(n - 1), pos = s + off,
         NEW addr \in Nat, NEW c \in Seq(AnyByte), addr + Len(c) <= DataSize,
         page.data = Patch(Now[pos].data, addr, c),
         off * DataSize + addr <= Len(Visible[inode])
  PROVE  /\ Durable' \in {Durable, Visible}
         /\ Becomes(inode, Store!Overwrite(Visible[inode], off * DataSize + addr, c))
<1> DEFINE u == free_page_start
<1>0. /\ inode \in Inodes /\ pos \in Used(u) /\ page \in AnyPage
      /\ Rewrites(Now, u, pos, page) /\ page.inode = inode /\ there \in BOOLEAN
      /\ there => page_array[pos] = dev.curr /\ dev.dirty
      /\ ~there => Steady /\ ~(dev.dirty /\ page_array[pos] = dev.curr)
      /\ Rewrite(pos, page, there) /\ free_page_start' = u
  BY DEF Alters
<1>1. PICK g : g = Now'
  OBVIOUS
<1>2. PICK from : RewrittenPage(Now, u, pos, page, g, from)
  <2>1. \E from : RewrittenPage(Now, u, pos, page, InOrder(View(dev'), page_array'), from)
    BY <1>0, RewriteStep
  <2> QED
    BY <1>1, <2>1 DEF Now
<1>3. /\ ArrayOK(Now, u) /\ dev \in AnyDevice /\ Clean(dev)
      /\ \A k \in Pages : page_array[k] \in Pages
  BY NowSound DEF SoundDisk, Now
<1>4. VisibleOK /\ VisibleOK'
  BY BothVisible
<1>5. \A i \in Inodes : TextIn(Now, u, i, Visible[i])
  BY <1>4 DEF VisibleOK
<1>6. dev'.media \in {dev.media, View(dev)}
  <2>1. u \in 0..PageCnt /\ pos \in Pages /\ page_array[pos] \in Pages
    BY <1>0, <1>3 DEF ArrayOK, Used
  <2>2. CASE there
    <3>1. dev' = BlockWrite(dev, page_array[pos], page)
      BY <1>0, <2>2 DEF Rewrite
    <3> QED
      BY <1>0, <1>3, <2>1, <3>1, WriteMedia
  <2>3. CASE ~there
    <3>1. PICK new : new = page_array[u]
      OBVIOUS
    <3>2. /\ dev' = BlockWrite(BlockCopy(dev, page_array[pos], new), new, page)
          /\ ~SpaceOver
      BY <1>0, <2>3, <3>1 DEF Rewrite
    <3>3. u \in Pages
      BY <2>1, <3>2, SizesAssumption DEF Pages, SpaceOver
    <3>4. new \in Pages
      BY <1>3, <3>1, <3>3
    <3>5. Stored(dev, dev', new, page)
      BY <1>0, <1>3, <2>1, <2>3, <3>2, <3>4, CopyDevice
    <3> QED
      BY <3>5 DEF Stored
  <2> QED
    BY <1>0, <2>2, <2>3
<1>7. Durable' \in {Durable, Visible}
  <2>1. Durable = Holds(dev.media) /\ Durable' = Holds(dev'.media) /\ Visible = Holds(View(dev))
    BY <1>4 DEF VisibleOK
  <2> QED
    BY <1>6, <2>1
<1>8. ASSUME NEW i \in Inodes, i # inode PROVE TextIn(g, u, i, Visible[i])
  BY <1>0, <1>2, <1>3, <1>5, <1>8, RewriteText
<1>9. TextIn(g, u, inode, Store!Overwrite(Visible[inode], off * DataSize + addr, c))
  <2>1. TextIn(Now, u, page.inode, Visible[inode]) /\ FileAt(Now, u, page.inode, s, n)
    BY <1>0, <1>5
  <2>2. TextIn(g, u, page.inode, Store!Overwrite(Visible[inode], off * DataSize + addr, c))
    BY <1>0, <1>2, <1>3, <2>1, RewriteOwnText
  <2> QED
    BY <1>0, <2>2
<1>10. Becomes(inode, Store!Overwrite(Visible[inode], off * DataSize + addr, c))
  BY <1>0, <1>1, <1>8, <1>9, VisibleIs
<1> QED
  BY <1>7, <1>10

-----------------------------------------------------------------------------
\* Steps that change nothing that is visible.
LEMMA QuietStores ==
  ASSUME BattInv, BattInv', dev' = dev, failed' = failed
  PROVE  Visible' = Visible /\ Durable' = Durable
<1>1. VisibleOK /\ VisibleOK'
  BY BothVisible
<1>2. Durable' = Durable
  BY <1>1 DEF VisibleOK
<1>3. CASE failed
  BY <1>1, <1>2, <1>3 DEF VisibleOK
<1>4. CASE ~failed
  BY <1>1, <1>4 DEF VisibleOK
<1> QED
  BY <1>2, <1>3, <1>4

\* The buffer is stored.
LEMMA FlushStores ==
  ASSUME BattInv, BattInv', ~failed, ~failed', dev' = BlockFlush(dev), job = NoJob, job' = job,
         flushed' = TRUE, spoiled' = spoiled
  PROVE  Store!Flush
<1>1. VisibleOK /\ VisibleOK'
  BY BothVisible
<1>2. dev'.media = View(dev) /\ View(dev') = View(dev)
  BY FlushDevice DEF BattInv, DevOK, Clean
<1>3. Visible' = Visible /\ Durable' = Visible
  BY <1>1, <1>2 DEF VisibleOK
<1>4. Asked = NoJob /\ Asked' = NoJob
  BY DEF Asked
<1> QED
  BY <1>3, <1>4 DEF Store!Flush

\* The device fails: until the power is cut nothing but what is durable counts.
LEMMA FailStores ==
  ASSUME BattInv, BattInv', failed', dev' = dev \/ (~failed /\ dev' = BlockFlush(dev)),
         job' = NoJob, flushed' = FALSE, spoiled' = spoiled
  PROVE  Store!Fail
<1>1. VisibleOK /\ VisibleOK'
  BY BothVisible
<1>2. Visible' = Durable'
  BY <1>1 DEF VisibleOK
<1>3. Durable' \in {Durable, Visible}
  <2>1. CASE dev' = dev
    BY <1>1, <2>1 DEF VisibleOK
  <2>2. CASE ~failed /\ dev' = BlockFlush(dev)
    <3>1. dev'.media = View(dev)
      BY <2>2, FlushDevice DEF BattInv, DevOK, Clean
    <3> QED
      BY <1>1, <2>2, <3>1 DEF VisibleOK
  <2> QED
    BY <2>1, <2>2
<1>4. Asked' = NoJob
  BY DEF Asked
<1> QED
  BY <1>2, <1>3, <1>4 DEF Store!Fail, Store!MaybeSync

\* The power is cut: the block that was being stored was no mount's choice.
LEMMA CutStores ==
  ASSUME BattInv, BattInv', PowerCut
  PROVE  Store!PowerCut
<1>1. VisibleOK /\ VisibleOK'
  BY BothVisible
<1>2. /\ dev \in AnyDevice /\ dev' \in PowerLost(dev, Blank)
      /\ dev.dirty => ~Chosen(dev.media, dev.curr)
      /\ ~mounted' /\ ~failed' /\ job' = NoJob /\ flushed' = FALSE /\ spoiled' = {}
  BY DEF PowerCut, BattInv, DevOK
<1>3. dev'.media = dev.media \/ (dev.dirty /\ dev'.media = [dev.media EXCEPT ![dev.curr] = Blank])
  BY <1>2, CutDevice
<1>4. dev.media \in [Pages -> AnyPage] /\ dev.curr \in Pages
  BY <1>2 DEF AnyDevice
<1>5. Holds(dev'.media) = Holds(dev.media)
  <2>1. CASE dev.dirty /\ dev'.media = [dev.media EXCEPT ![dev.curr] = Blank]
    <3>1. ASSUME NEW i PROVE SurvivesIn(dev'.media, i) = SurvivesIn(dev.media, i)
      BY <1>2, <1>4, <2>1, LoseText
    <3> QED
      BY <3>1 DEF Holds
  <2> QED
    BY <1>3, <2>1
<1>6. Durable' = Durable /\ Visible' = Durable'
  <2>1. Visible' = Durable'
    BY <1>2 DEF Visible
  <2> QED
    BY <1>1, <1>5, <2>1 DEF VisibleOK
<1>7. Asked' = NoJob
  BY <1>2 DEF Asked
<1> QED
  BY <1>2, <1>6, <1>7 DEF Store!PowerCut

\* What is visible of a file that exists.
LEMMA VisibleText ==
  ASSUME BattInv, mounted, ~failed, NEW i \in Inodes, NEW s, NEW n, n > 0,
         FileAt(Now, free_page_start, i, s, n)
  PROVE  /\ Visible[i] \in Seq(AnyByte) /\ Visible[i] # Absent
         /\ Len(Visible[i]) = (n - 1) * DataSize + Len(Now[s + n - 1].data)
<1>1. VisibleOK
  BY VisibleValue
<1>2. ArrayOK(Now, free_page_start)
  BY NowSound DEF SoundDisk, Now
<1>3. TextIn(Now, free_page_start, i, Visible[i])
  BY <1>1 DEF VisibleOK
<1>4. PICK d : d = FileData(Now, s, n)
  OBVIOUS
<1>5. Text(d, n, Visible[i])
  BY <1>2, <1>3, <1>4, TextAt
<1>6. n \in Nat /\ s \in Nat
  BY DEF FileAt
<1>7. n - 1 \in 0..(n - 1) /\ s + (n - 1) = s + n - 1 /\ n # 0
  BY <1>6
<1>8. d[n - 1] = Now[s + n - 1].data
  BY <1>4, <1>7 DEF FileData
<1>9. Visible[i] \in Seq(AnyByte)
  BY <1>5 DEF Text
<1>10. Visible[i] # Absent
  BY <1>9, AbsentAssumption DEF AnyByte
<1> QED
  BY <1>5, <1>7, <1>8, <1>9, <1>10 DEF Text, Length

\* No file is larger than the memory.
SizesOK ==
  \A i \in Inodes : Visible[i] # Absent =>
    Len(Visible[i]) \in Nat /\ Len(Visible[i]) <= PageCnt * DataSize

\* For it has no more pages than the memory.
LEMMA VisibleSize == BattInv /\ mounted /\ ~failed => SizesOK
<1> SUFFICES ASSUME BattInv, mounted, ~failed, NEW i \in Inodes, Visible[i] # Absent
             PROVE  Len(Visible[i]) \in Nat /\ Len(Visible[i]) <= PageCnt * DataSize
  BY DEF SizesOK
<1>1. VisibleOK
  BY VisibleValue
<1>2. ArrayOK(Now, free_page_start)
  BY NowSound DEF SoundDisk, Now
<1>3. PICK s, n : /\ FileAt(Now, free_page_start, i, s, n)
                  /\ IF n = 0 THEN Visible[i] = Absent ELSE Text(FileData(Now, s, n), n, Visible[i])
  BY <1>1 DEF VisibleOK, TextIn
<1>4. PICK d : d = FileData(Now, s, n)
  OBVIOUS
<1>5. /\ n \in Nat /\ n # 0 /\ n <= PageCnt /\ PagesOf(d, n) /\ Text(d, n, Visible[i])
      /\ PageCnt \in Nat
  BY <1>2, <1>3, <1>4, FilePages, SizesAssumption
<1>6. PICK b \in Nat \ {0} : b = DataSize
  BY SizesAssumption
<1>7. PICK k \in Nat : k = n - 1 /\ k < PageCnt
  BY <1>5
<1>8. PICK l \in Nat : l = Len(d[k]) /\ l <= b
  <2>1. k \in 0..(n - 1)
    BY <1>5, <1>7
  <2> QED
    BY <1>5, <1>6, <2>1, PageLengths
<1>9. PICK bk \in Nat, bn \in Nat : bk = b * k /\ bn = b * PageCnt /\ bk + b <= bn
  BY <1>5, <1>7, Multiples
<1>10. Len(Visible[i]) = bk + l
  <2>1. (n - 1) * DataSize = bk
    BY <1>6, <1>7, <1>9
  <2> QED
    BY <1>5, <1>7, <1>8, <2>1 DEF Text, Length
<1>11. PageCnt * DataSize = bn
  <2>1. PICK m \in Nat : m = PageCnt
    BY <1>5
  <2>2. m * b = b * m
    OBVIOUS
  <2> QED
    BY <1>6, <1>9, <2>1, <2>2
<1>12. bk + l <= bn
  <2>1. l <= b
    BY <1>8
  <2>2. bk + b <= bn
    BY <1>9
  <2> QED
    BY <2>1, <2>2
<1> QED
  BY <1>10, <1>11, <1>12

\* After a step as well.
LEMMA VisibleSizeNext ==
  ASSUME BattInv', mounted', ~failed'
  PROVE  SizesOK'
<1>1. BattInv' /\ mounted' /\ ~failed' => SizesOK'
  BY VisibleSize, PTL
<1> QED
  BY <1>1

-----------------------------------------------------------------------------
\* The request that is served.
LEMMA AskedFacts ==
  ASSUME job \in AnyJob
  PROVE  /\ Asked = [file |-> job.inode, pos |-> job.pos, bytes |-> job.bytes]
         /\ Asked # NoJob /\ Asked.file = job.inode /\ Asked.pos = job.pos
         /\ Asked.bytes = job.bytes
<1>1. job.phase \in {"tail", "zeros", "pages"}
  BY DEF AnyJob
<1>2. job # NoJob
  BY <1>1 DEF NoJob
<1>3. Asked = [file |-> job.inode, pos |-> job.pos, bytes |-> job.bytes]
  BY <1>2 DEF Asked
<1>4. "file" \in DOMAIN Asked /\ "file" \notin DOMAIN NoJob
  BY <1>3 DEF NoJob
<1> QED
  BY <1>3, <1>4

\* A sequence with zeros behind it.
LEMMA ZerosBehind ==
  ASSUME NEW t \in Seq(AnyByte), NEW z \in Nat
  PROVE  \E l \in Nat : /\ l = Len(t)
                        /\ Len(t \o Zeros(z)) = l + z
                        /\ t \o Zeros(z) = [k \in 1..(l + z) |-> IF k <= l THEN t[k] ELSE Zero]
                        /\ t \o Zeros(z) \in Seq(AnyByte)
<1>1. PICK l \in Nat : l = Len(t)
  OBVIOUS
<1>2. PICK w \in Seq(AnyByte) : w = Zeros(z) /\ Len(w) = z
  BY ZerosSeq
<1>3. \A k \in 1..z : w[k] = Zero
  BY <1>2 DEF Zeros
<1>4. PICK v : v = t \o w
  OBVIOUS
<1>5. v \in Seq(AnyByte) /\ Len(v) = l + z
  <2>1. PICK m \in Nat : m = Len(w)
    OBVIOUS
  <2>2. t \o w \in Seq(AnyByte) /\ Len(t \o w) = l + m
    BY <1>1, <2>1
  <2> QED
    BY <1>2, <1>4, <2>1, <2>2
<1>6. ASSUME NEW k \in 1..(l + z) PROVE v[k] = IF k <= l THEN t[k] ELSE Zero
  <2>1. CASE k <= l
    BY <1>1, <1>4, <1>6, <2>1
  <2>2. CASE ~(k <= l)
    <3>1. k - l \in 1..z
      BY <1>6, <2>2
    <3>2. v[k] = w[k - l]
      BY <1>1, <1>2, <1>4, <1>6, <2>2
    <3> QED
      BY <1>3, <2>2, <3>1, <3>2
  <2> QED
    BY <2>1, <2>2
<1>7. v = [k \in 1..(l + z) |-> IF k <= l THEN t[k] ELSE Zero]
  <2>1. v = [k \in 1..Len(v) |-> v[k]]
    BY <1>5
  <2>2. v = [k \in 1..(l + z) |-> v[k]]
    BY <1>5, <2>1
  <2> QED
    BY <1>6, <2>2
<1> QED
  BY <1>1, <1>2, <1>4, <1>5, <1>7

\* What is visible of the files that exist is bounded.
LEMMA SizeBounded ==
  ASSUME SizesOK, NEW i \in Inodes, Visible[i] \in Seq(AnyByte)
  PROVE  Len(Visible[i]) <= PageCnt * DataSize
<1>1. Visible[i] # Absent
  BY AbsentAssumption DEF AnyByte
<1> QED
  BY <1>1 DEF SizesOK
SizesBounded ==
  \A i \in Inodes : Visible[i] \in Seq(AnyByte) => Len(Visible[i]) <= PageCnt * DataSize

\* And so for all files.
LEMMA AllBounded == SizesOK => SizesBounded
  BY SizeBounded DEF SizesBounded

\* After a step.
LEMMA AllBoundedNext ==
  ASSUME SizesOK'
  PROVE  SizesBounded'
<1>1. SizesOK' => SizesBounded'
  BY AllBounded, PTL
<1> QED
  BY <1>1

\* Zeros at the end of a file.
LEMMA ZerosStore ==
  ASSUME job \in AnyJob, job.inode \in Inodes, Visible = [i \in Inodes |-> Visible[i]],
         Durable' \in {Durable, Visible}, Asked' = Asked,
         Visible[job.inode] \in Seq(AnyByte), NEW z \in Nat,
         Becomes(job.inode, Visible[job.inode] \o Zeros(z)),
         SizesOK', Len(Visible[job.inode]) + z <= job.pos, flushed' = flushed, spoiled' = spoiled
  PROVE  Store!StoreNext
<1>1. PICK t \in Seq(AnyByte) : t = Visible[job.inode]
  OBVIOUS
<1>2. PICK l \in Nat : /\ l = Len(t)
                       /\ Len(t \o Zeros(z)) = l + z
                       /\ t \o Zeros(z) = [k \in 1..(l + z) |-> IF k <= l THEN t[k] ELSE Zero]
                       /\ t \o Zeros(z) \in Seq(AnyByte)
  BY ZerosBehind
<1>3. PICK size \in Nat : size = l + z
  OBVIOUS
<1>4. Visible'[job.inode] = t \o Zeros(z)
  BY <1>1 DEF Becomes
<1>5. size <= PageCnt * DataSize
  <2>1. \A i \in Inodes : Visible'[i] \in Seq(AnyByte) => Len(Visible'[i]) <= PageCnt * DataSize
    BY AllBoundedNext DEF SizesBounded
  <2>2. Len(Visible'[job.inode]) <= PageCnt * DataSize
    BY <1>2, <1>4, <2>1
  <2> QED
    BY <1>2, <1>3, <1>4, <2>2
<1>6. size \in 0..(PageCnt * DataSize)
  <2>1. PageCnt * DataSize \in Nat
    BY SizesAssumption
  <2> QED
    BY <1>5, <2>1
<1>7. /\ Asked # NoJob /\ Asked.file = job.inode /\ Asked.pos = job.pos
  BY AskedFacts
<1>8. Visible' = [Visible EXCEPT ![Asked.file] =
                    [k \in 1..size |-> IF k <= Len(Visible[Asked.file]) THEN Visible[Asked.file][k]
                                       ELSE Zero]]
  <2>1. t \o Zeros(z) = [k \in 1..size |-> IF k <= Len(t) THEN t[k] ELSE Zero]
    BY <1>2, <1>3
  <2>2. Visible' = [Visible EXCEPT ![job.inode] = t \o Zeros(z)]
    BY <1>1 DEF Becomes
  <2>3. Visible' = [Visible EXCEPT ![job.inode] = [k \in 1..size |-> IF k <= Len(t) THEN t[k] ELSE Zero]]
    BY <2>1, <2>2
  <2> QED
    BY <1>1, <1>7, <2>3
<1>9. size >= Len(Visible[Asked.file])
  <2>1. size >= l
    BY <1>3
  <2> QED
    BY <1>1, <1>2, <1>7, <2>1
<1>10. size <= Asked.pos
  BY <1>1, <1>2, <1>3, <1>7
<1>11. Store!Extend(size)
  BY <1>7, <1>8, <1>9, <1>10 DEF Store!Extend, Store!MaybeSync
<1> QED
  BY <1>6, <1>11 DEF Store!StoreNext

\* The next bytes of the request.
LEMMA BytesStore ==
  ASSUME job \in AnyJob, job' = NextJob, Durable' \in {Durable, Visible},
         Becomes(job.inode, Store!Overwrite(Visible[job.inode], job.pos, Chunk)),
         job.pos <= Len(Visible[job.inode]), flushed' = flushed, spoiled' = spoiled
  PROVE  Store!StoreNext
<1>1. /\ Asked = [file |-> job.inode, pos |-> job.pos, bytes |-> job.bytes]
      /\ Asked # NoJob /\ Asked.file = job.inode /\ Asked.pos = job.pos
      /\ Asked.bytes = job.bytes
  BY AskedFacts
<1>2. PICK n : n = Len(Chunk)
  OBVIOUS
<1>3. PICK y \in Seq(Bytes) : y = job.bytes
  BY DEF AnyJob
<1>4. /\ n \in Nat /\ n > 0 /\ n <= Len(y) /\ Addr \in Nat /\ Addr + n <= DataSize
      /\ Chunk = y => NextJob = NoJob
      /\ Chunk # y => NextJob \in AnyJob
  BY <1>2, <1>3, ChunkFacts
<1>5. PICK x : Chunk = SubSeq(y, 1, x)
  BY <1>3 DEF Chunk
<1>6. Chunk = SubSeq(y, 1, n)
  <2>1. PICK m : m = Min({Len(y), DataSize - Addr})
    OBVIOUS
  <2>2. Len(y) \in Int /\ DataSize - Addr \in Int /\ Len(y) >= 1 /\ DataSize - Addr >= 1
    <3>1. DataSize \in Nat
      BY SizesAssumption
    <3> QED
      BY <1>4, <3>1
  <2>3. m \in Int /\ m <= Len(y) /\ m >= 1
    BY <2>1, <2>2, MinTwo
  <2>4. Chunk = SubSeq(y, 1, m)
    BY <1>3, <2>1 DEF Chunk
  <2>5. Len(SubSeq(y, 1, m)) = m
    BY <2>3
  <2> QED
    BY <1>2, <2>4, <2>5
<1>7. Chunk = y <=> n = Len(y)
  BY <1>2, <1>4, <1>6
<1>8. n \in 1..(PageCnt * DataSize)
  <2>1. PICK b \in Nat : b = DataSize
    BY SizesAssumption
  <2>2. PICK c \in Nat : c = PageCnt - 1
    BY SizesAssumption
  <2>3. PageCnt * DataSize = c * b + b
    <3>1. (c + 1) * b = c * b + b
      OBVIOUS
    <3>2. c + 1 = PageCnt
      BY <2>2, SizesAssumption
    <3> QED
      BY <2>1, <3>1, <3>2
  <2>4. PICK cb \in Nat : cb = c * b
    OBVIOUS
  <2>5. n <= b
    BY <1>4, <2>1
  <2>6. n <= cb + b
    BY <1>4, <2>5
  <2>7. cb + b \in Nat
    OBVIOUS
  <2> QED
    BY <1>4, <2>3, <2>4, <2>6, <2>7
<1>9. Asked' = IF n = Len(Asked.bytes) THEN NoJob
               ELSE [Asked EXCEPT !.pos = @ + n, !.bytes = SubSeq(@, n + 1, Len(@))]
  <2>1. CASE n = Len(y)
    <3>1. job' = NoJob
      BY <1>4, <1>7, <2>1
    <3> QED
      BY <1>1, <1>3, <2>1, <3>1 DEF Asked
  <2>2. CASE n # Len(y)
    <3>1. Chunk # y /\ NextJob \in AnyJob
      BY <1>4, <1>7, <2>2
    <3>2. NextJob = [job EXCEPT !.pos = @ + n, !.bytes = SubSeq(@, n + 1, Len(@))]
      BY <1>2, <1>3, <3>1 DEF NextJob
    <3>3. /\ NextJob.inode = job.inode /\ NextJob.pos = job.pos + n
          /\ NextJob.bytes = SubSeq(job.bytes, n + 1, Len(job.bytes))
      BY <3>2 DEF AnyJob
    <3>4. job' # NoJob
      <4>1. NextJob.phase \in {"tail", "zeros", "pages"}
        BY <3>1 DEF AnyJob
      <4> QED
        BY <4>1 DEF NoJob
    <3>5. Asked' = [file |-> NextJob.inode, pos |-> NextJob.pos, bytes |-> NextJob.bytes]
      BY <3>4 DEF Asked
    <3> QED
      BY <1>1, <1>3, <2>2, <3>3, <3>5
  <2> QED
    BY <2>1, <2>2
<1>10. Store!Write(n)
  <2>1. n \in 1..Len(Asked.bytes)
    BY <1>1, <1>3, <1>4
  <2>2. Visible' = [Visible EXCEPT ![Asked.file] =
                      Store!Overwrite(Visible[Asked.file], Asked.pos, SubSeq(Asked.bytes, 1, n))]
    BY <1>1, <1>3, <1>6 DEF Becomes
  <2> QED
    BY <1>1, <1>9, <2>1, <2>2 DEF Store!Write, Store!MaybeSync
<1> QED
  BY <1>8, <1>10 DEF Store!StoreNext

-----------------------------------------------------------------------------
\* Steps that are not seen.
LEMMA QuietStep ==
  ASSUME BattInv, BattInv', dev' = dev, seen' = seen, job' = job
  PROVE  UNCHANGED Store!storeVars
<1>1. failed' = failed /\ flushed' = flushed /\ spoiled' = spoiled
  BY DEF seen
<1>2. Visible' = Visible /\ Durable' = Durable
  BY <1>1, QuietStores
<1>3. Asked' = Asked
  BY DEF Asked
<1> QED
  BY <1>1, <1>2, <1>3 DEF Store!storeVars

\* battfs_fileopen() with BATTFS_CREATE.
LEMMA CreateStores ==
  ASSUME BattInv, BattInv', "errors" \in Avoids, NEW inode \in Inodes, Create(inode)
  PROVE  Store!StoreNext
<1>1. /\ mounted /\ job = NoJob /\ ~failed /\ ~SpaceOver /\ mounted' = mounted /\ job' = job
      /\ flushed' = FALSE /\ spoiled' = spoiled
  BY DEF Create, Idle
<1>2. CASE failed'
  <2>1. dev' = dev
    BY <1>1, <1>2 DEF Create
  <2>2. Store!Fail
    BY <1>1, <1>2, <2>1, FailStores
  <2> QED
    BY <2>2 DEF Store!StoreNext
<1>3. CASE ~failed'
  <2>1. PICK p, page, f : Extends(inode, p, 0, page, f) /\ page.data = <<>>
    BY <1>3, CreateInv
  <2>2. Steady
    BY <1>1, IdleSteady
  <2>3. Durable' \in {Durable, Visible} /\ Visible[inode] = Absent /\ Becomes(inode, page.data)
    <3>1. PICK n : n = 0
      OBVIOUS
    <3>2. Extends(inode, p, n, page, f)
      BY <2>1, <3>1
    <3>3. Durable' \in {Durable, Visible}
      BY <1>1, <1>3, <2>2, <3>2, ExtendStores
    <3>4. n = 0 => Visible[inode] = Absent /\ Becomes(inode, page.data)
      BY <1>1, <1>3, <2>2, <3>2, ExtendStores
    <3> QED
      BY <3>1, <3>3, <3>4
  <2>4. Asked = NoJob /\ Asked' = Asked
    BY <1>1 DEF Asked
  <2>5. Store!Create(inode)
    BY <1>1, <2>1, <2>3, <2>4 DEF Store!Create, Store!MaybeSync, Becomes
  <2> QED
    BY <2>5 DEF Store!StoreNext
<1> QED
  BY <1>2, <1>3

\* battfs_write() is called.
LEMMA RequestStores ==
  ASSUME BattInv, BattInv', "errors" \in Avoids, NEW inode \in Inodes,
         NEW w \in Writes, NEW b \in Bytes, WriteBegin(inode, w[1], [k \in 1..w[2] |-> b])
  PROVE  Store!StoreNext
<1>1. /\ mounted /\ job = NoJob /\ ~failed /\ file[inode].open
      /\ dev' = dev /\ failed' = failed /\ flushed' = FALSE /\ spoiled' = spoiled
  BY DEF WriteBegin, Idle
<1>2. PICK bytes : bytes = [k \in 1..w[2] |-> b]
  OBVIOUS
<1>3. PICK pos : pos = w[1]
  OBVIOUS
<1>4. PICK phase : phase = IF pos > file[inode].size THEN "tail" ELSE "pages"
  OBVIOUS
<1>5. /\ job' = [inode |-> inode, pos |-> pos, bytes |-> bytes, phase |-> phase]
      /\ phase # "none"
  BY <1>2, <1>3, <1>4 DEF WriteBegin
<1>6. job' # NoJob
  BY <1>5 DEF NoJob
<1>7. Asked' = [file |-> inode, pos |-> pos, bytes |-> bytes]
  BY <1>5, <1>6 DEF Asked
<1>8. Asked = NoJob
  BY <1>1 DEF Asked
<1>9. Visible' = Visible /\ Durable' = Durable
  BY <1>1, QuietStores
<1>10. Visible[inode] # Absent
  <2>1. RunOK
    BY <1>1, NowSound
  <2>2. HandleOK(Now, free_page_start, inode, file[inode])
    BY <1>1, <2>1 DEF RunOK
  <2>3. PICK n \in Nat \ {0} : FileAt(Now, free_page_start, inode, file[inode].start, n)
    BY <2>2 DEF HandleOK
  <2> QED
    BY <1>1, <2>3, VisibleText
<1>11. Store!Request(inode, w[1], [k \in 1..w[2] |-> b])
  BY <1>1, <1>2, <1>3, <1>7, <1>8, <1>9, <1>10 DEF Store!Request
<1> QED
  BY <1>11 DEF Store!StoreNext

\* battfs_write() returns without having written all.
LEMMA FinishStores ==
  ASSUME BattInv, BattInv', WriteNoSpace
  PROVE  Store!StoreNext
<1>1. /\ job # NoJob /\ job' = NoJob /\ dev' = dev /\ failed' = failed
      /\ flushed' = flushed /\ spoiled' = spoiled
  BY DEF WriteNoSpace, seen
<1>2. Visible' = Visible /\ Durable' = Durable
  BY <1>1, QuietStores
<1>3. Asked' = NoJob
  BY <1>1 DEF Asked
<1>4. Asked # NoJob
  BY <1>1, JobFacts, AskedFacts
<1>5. Store!Finish
  BY <1>1, <1>2, <1>3, <1>4 DEF Store!Finish
<1> QED
  BY <1>5 DEF Store!StoreNext

\* What a step leaves as it is.
LEMMA JobStays ==
  ASSUME BattInv, job # NoJob,
         \/ WriteTail \/ WriteTailSpoilt \/ WriteZeros \/ WriteNew \/ WriteOld
  PROVE  /\ mounted /\ ~failed /\ mounted' /\ ~failed' /\ flushed' = flushed
         /\ WriteTailSpoilt \/ spoiled' = spoiled
         /\ job \in AnyJob /\ job.inode \in Inodes
         /\ file[job.inode].start \in Nat /\ file[job.inode].size \in Nat
         /\ Visible = [i \in Inodes |-> Visible[i]]
<1>1. mounted /\ ~failed /\ job \in AnyJob /\ job.inode \in Inodes
      /\ file[job.inode].start \in Nat /\ file[job.inode].size \in Nat
  BY JobFacts
<1>2. /\ mounted' = mounted /\ failed' = failed /\ flushed' = flushed
      /\ WriteTailSpoilt \/ spoiled' = spoiled
  BY DEF WriteTail, WriteTailSpoilt, WriteZeros, WriteNew, WriteOld, seen
<1>3. Visible = [i \in Inodes |-> Visible[i]]
  <2>1. Visible = [i \in Inodes |-> Content(i)]
    BY <1>1 DEF Visible
  <2> QED
    BY <2>1
<1> QED
  BY <1>1, <1>2, <1>3

\* The request stays while zeros are written.
LEMMA AskedStays ==
  ASSUME job \in AnyJob, NEW x \in {"zeros", "pages"}, job' = [job EXCEPT !.phase = x]
  PROVE  Asked' = Asked
<1>1. /\ job'.inode = job.inode /\ job'.pos = job.pos /\ job'.bytes = job.bytes /\ job'.phase = x
  BY DEF AnyJob
<1>2. job' # NoJob
  BY <1>1 DEF NoJob
<1>3. Asked' = [file |-> job.inode, pos |-> job.pos, bytes |-> job.bytes]
  BY <1>1, <1>2 DEF Asked
<1> QED
  BY <1>3, AskedFacts

\* The missing pages: zeros are put behind the file.
LEMMA WriteZerosStores ==
  ASSUME BattInv, BattInv', job # NoJob, WriteZeros
  PROVE  Store!StoreNext
<1>1. /\ mounted /\ ~failed /\ mounted' /\ ~failed' /\ job \in AnyJob /\ job.inode \in Inodes
      /\ file[job.inode].start \in Nat /\ file[job.inode].size \in Nat
      /\ Visible = [i \in Inodes |-> Visible[i]]
  BY JobStays
<1>0. flushed' = flushed /\ spoiled' = spoiled
  BY DEF WriteZeros, seen
<1>2. PICK n, z, page, e : PaddedNew(n, z, page, e)
  BY WriteZerosInv
<1>3. /\ InJob(n) /\ Steady /\ z \in Nat /\ file[job.inode].size + z <= job.pos
      /\ Extends(job.inode, file[job.inode].start, n, page, e) /\ page.data = Zeros(z)
  BY <1>2 DEF PaddedNew
<1>4. /\ n \in Nat \ {0} /\ FileAt(Now, free_page_start, job.inode, file[job.inode].start, n)
      /\ file[job.inode].size
           = (n - 1) * DataSize + Len(Now[file[job.inode].start + n - 1].data)
  BY <1>3 DEF InJob
<1>5. n > 0 /\ ~SpaceOver
  BY <1>4 DEF WriteZeros
<1>6. Durable' \in {Durable, Visible}
  BY <1>1, <1>3, <1>5, ExtendStores
<1>7. /\ Visible[job.inode] \in Seq(AnyByte)
      /\ Becomes(job.inode, Visible[job.inode] \o page.data)
  BY <1>1, <1>3, <1>5, ExtendStores
<1>8. Len(Visible[job.inode]) = file[job.inode].size
  BY <1>1, <1>4, <1>5, VisibleText
<1>9. Asked' = Asked
  <2>1. PICK x \in {"zeros", "pages"} : job' = [job EXCEPT !.phase = x]
    <3>1. PICK x : x = IF job.pos \div DataSize > file[job.inode].max_off + 1 THEN "zeros" ELSE "pages"
      OBVIOUS
    <3> QED
      BY <3>1 DEF WriteZeros
  <2> QED
    BY <1>1, <2>1, AskedStays
<1>10. SizesOK'
  BY <1>1, VisibleSizeNext
<1>11. Len(Visible[job.inode]) + z <= job.pos
  BY <1>3, <1>8
<1>12. Becomes(job.inode, Visible[job.inode] \o Zeros(z))
  BY <1>3, <1>7
<1> QED
  BY <1>1, <1>0, <1>3, <1>6, <1>7, <1>9, <1>10, <1>11, <1>12, ZerosStore

-----------------------------------------------------------------------------
\* Bytes put at the end.
LEMMA PutAtEnd ==
  ASSUME NEW t \in Seq(AnyByte), NEW c \in Seq(AnyByte)
  PROVE  /\ Patch(t, Len(t), c) = t \o c
         /\ Store!Overwrite(t, Len(t), c) = t \o c
<1>1. PICK l \in Nat : l = Len(t)
  OBVIOUS
<1>2. Spliced(Patch(t, l, c), t, Len(t), c)
  BY <1>1, PatchFacts
<1>3. Spliced(Store!Overwrite(t, l, c), t, Len(t), c)
  BY <1>1, OverwriteFacts
<1>4. Patch(t, l, c) = t \o c
  BY <1>2, SplicedEnd
<1>5. Store!Overwrite(t, l, c) = t \o c
  BY <1>3, SplicedEnd
<1> QED
  BY <1>1, <1>4, <1>5

\* The bytes that are written are bytes of files.
LEMMA ChunkBytes ==
  ASSUME job \in AnyJob
  PROVE  Chunk \in Seq(AnyByte)
<1>1. PICK c \in Seq(Bytes) : c = Chunk
  BY ChunkFacts
<1>2. c \in Seq(AnyByte)
  BY DEF AnyByte
<1> QED
  BY <1>1, <1>2

\* The file that is written, during the write.
LEMMA WrittenFile ==
  ASSUME BattInv, job # NoJob, NEW n, InJob(n)
  PROVE  /\ n \in Nat /\ n > 0 /\ n - 1 \in 0..(n - 1)
         /\ FileAt(Now, free_page_start, job.inode, file[job.inode].start, n)
         /\ Visible[job.inode] \in Seq(AnyByte)
         /\ Len(Visible[job.inode]) = file[job.inode].size
         /\ file[job.inode].size
              = (n - 1) * DataSize + Len(Now[file[job.inode].start + (n - 1)].data)
<1>1. /\ mounted /\ ~failed /\ job.inode \in Inodes /\ file[job.inode].start \in Nat
  BY JobFacts
<1>2. /\ n \in Nat \ {0} /\ FileAt(Now, free_page_start, job.inode, file[job.inode].start, n)
      /\ file[job.inode].size
           = (n - 1) * DataSize + Len(Now[file[job.inode].start + n - 1].data)
  BY DEF InJob
<1>3. n > 0 /\ n - 1 \in 0..(n - 1)
  BY <1>2
<1>4. file[job.inode].start + n - 1 = file[job.inode].start + (n - 1)
  BY <1>1, <1>2
<1>5. /\ Visible[job.inode] \in Seq(AnyByte)
      /\ Len(Visible[job.inode])
           = (n - 1) * DataSize + Len(Now[file[job.inode].start + n - 1].data)
  BY <1>1, <1>2, <1>3, VisibleText
<1> QED
  BY <1>2, <1>3, <1>4, <1>5

\* The last page of the file, and the bytes that are to be filled.
LEMMA LastPageIs ==
  ASSUME BattInv, job # NoJob, job.phase = "tail", NEW n, InJob(n)
  PROVE  LastPage = Now[file[job.inode].start + (n - 1)]
<1>1. file[job.inode].start \in Nat /\ file[job.inode].max_off \in Nat
  BY JobFacts
<1>2. n \in Nat /\ file[job.inode].max_off < n /\ file[job.inode].max_off = n - 1
  BY <1>1 DEF InJob
<1>3. PageAt(file[job.inode].start + file[job.inode].max_off)
        = Now[file[job.inode].start + file[job.inode].max_off]
  BY <1>1, <1>2, JobPages
<1> QED
  BY <1>2, <1>3 DEF LastPage

\* The last page is filled with zeros.
LEMMA WriteTailStores ==
  ASSUME BattInv, BattInv', job # NoJob, WriteTail
  PROVE  Store!StoreNext
<1>1. /\ mounted /\ ~failed /\ mounted' /\ ~failed' /\ job \in AnyJob /\ job.inode \in Inodes
      /\ file[job.inode].start \in Nat /\ file[job.inode].size \in Nat
      /\ Visible = [i \in Inodes |-> Visible[i]]
  BY JobStays
<1>0. flushed' = flushed /\ spoiled' = spoiled /\ job.phase = "tail" /\ FillTail(LastPage.data)
  BY DEF WriteTail, seen
<1>2. PICK n, z, page, there : Padded(LastPage.data, n, z, page, there)
  BY WriteTailInv
<1>3. PICK pos : pos = file[job.inode].start + (n - 1)
  OBVIOUS
<1>4. /\ InJob(n) /\ z \in Nat /\ file[job.inode].size + z <= job.pos
      /\ Alters(job.inode, pos, page, there) /\ page.data = Now[pos].data \o Zeros(z)
  <2>1. /\ InJob(n) /\ z \in Nat /\ file[job.inode].size + z <= job.pos
        /\ Alters(job.inode, pos, page, there) /\ page.data = LastPage.data \o Zeros(z)
    BY <1>2, <1>3 DEF Padded
  <2>2. LastPage = Now[pos]
    BY <1>0, <1>3, <2>1, LastPageIs
  <2> QED
    BY <2>1, <2>2
<1>5. /\ n \in Nat /\ n > 0 /\ n - 1 \in 0..(n - 1)
      /\ FileAt(Now, free_page_start, job.inode, file[job.inode].start, n)
      /\ Visible[job.inode] \in Seq(AnyByte)
      /\ Len(Visible[job.inode]) = file[job.inode].size
      /\ file[job.inode].size = (n - 1) * DataSize + Len(Now[pos].data)
  BY <1>3, <1>4, WrittenFile
<1>6. PICK d \in Seq(AnyByte) : d = Now[pos].data
  <2>1. pos \in Used(free_page_start) /\ Now \in [Pages -> AnyPage] /\ free_page_start \in 0..PageCnt
    BY <1>1, <1>4, NowSound DEF Alters, StateOK
  <2>2. pos \in Pages
    BY <2>1, SizesAssumption DEF Used, Pages
  <2>3. Now[pos] \in AnyPage
    BY <2>1, <2>2
  <2> QED
    BY <2>3 DEF AnyPage
<1>7. PICK l \in Nat : l = Len(d)
  OBVIOUS
<1>8. PICK w \in Seq(AnyByte) : w = Zeros(z) /\ Len(w) = z
  BY <1>4, ZerosSeq
<1>9. page.data = Patch(Now[pos].data, l, w)
  BY <1>4, <1>6, <1>7, <1>8, PutAtEnd
<1>10. l + Len(w) <= DataSize
  <2>1. page \in AnyPage
    BY <1>4 DEF Alters
  <2>2. Len(page.data) <= DataSize
    BY <1>4, <2>1 DEF AnyPage, Alters, Rewrites
  <2>3. Len(d \o w) = l + Len(w)
    BY <1>7
  <2> QED
    BY <1>4, <1>6, <1>8, <2>2, <2>3
<1>11. PICK off \in 0..(n - 1) : off = n - 1 /\ pos = file[job.inode].start + off
  BY <1>3, <1>5
<1>12. PICK at : at = off * DataSize + l
  OBVIOUS
<1>13. at = Len(Visible[job.inode])
  BY <1>5, <1>6, <1>7, <1>11, <1>12
<1>14. off * DataSize + l <= Len(Visible[job.inode])
  <2>1. at \in Nat
    BY <1>5, <1>13
  <2> QED
    BY <1>12, <1>13, <2>1
<1>a. mounted /\ ~failed /\ mounted' /\ ~failed' /\ Alters(job.inode, pos, page, there)
  BY <1>1, <1>4
<1>b. FileAt(Now, free_page_start, job.inode, file[job.inode].start, n)
  BY <1>5
<1>c. off \in 0..(n - 1) /\ pos = file[job.inode].start + off
  BY <1>11
<1>15. Durable' \in {Durable, Visible}
  BY <1>a, <1>b, <1>c, <1>9, <1>10, <1>14, AlterStores
<1>16. Becomes(job.inode, Store!Overwrite(Visible[job.inode], off * DataSize + l, w))
  BY <1>a, <1>b, <1>c, <1>9, <1>10, <1>14, AlterStores
<1>17. Becomes(job.inode, Visible[job.inode] \o Zeros(z))
  <2>1. Store!Overwrite(Visible[job.inode], at, w) = Visible[job.inode] \o w
    BY <1>5, <1>13, PutAtEnd
  <2> QED
    BY <1>8, <1>12, <1>16, <2>1
<1>18. Asked' = Asked
  <2>1. PICK x \in {"zeros", "pages"} : job' = [job EXCEPT !.phase = x]
    <3>1. PICK x : x = IF job.pos \div DataSize > file[job.inode].max_off THEN "zeros" ELSE "pages"
      OBVIOUS
    <3> QED
      BY <1>0, <3>1 DEF FillTail
  <2> QED
    BY <1>1, <2>1, AskedStays
<1>19. SizesOK'
  BY <1>1, VisibleSizeNext
<1>20. Len(Visible[job.inode]) + z <= job.pos
  BY <1>4, <1>5
<1> QED
  BY <1>1, <1>0, <1>4, <1>5, <1>15, <1>17, <1>18, <1>19, <1>20, ZerosStore

\* As many bytes or more put in the place of others.
LEMMA PutInstead ==
  ASSUME NEW t \in Seq(AnyByte), NEW c \in Seq(AnyByte), Len(t) <= Len(c)
  PROVE  Patch(t, 0, c) = c
<1>1. Spliced(Patch(t, 0, c), t, 0, c)
  BY PatchFacts
<1>2. PICK w \in Seq(AnyByte) : w = Patch(t, 0, c) /\ Spliced(w, t, 0, c)
  BY <1>1 DEF Spliced
<1>3. PICK l \in Nat : l = Len(c)
  OBVIOUS
<1>4. Len(w) = l
  BY <1>2, <1>3 DEF Spliced
<1>5. \A k \in 1..l : w[k] = c[k]
  <2> TAKE k \in 1..l
  <2>1. k > 0 /\ k <= 0 + Len(c) /\ k - 0 = k /\ k \in 1..Len(w)
    BY <1>3, <1>4
  <2> QED
    BY <1>2, <2>1 DEF Spliced
<1>6. w = c
  BY <1>3, <1>4, <1>5
<1> QED
  BY <1>2, <1>6

\* A file whose last page got other bytes than it had.
LEMMA SpoilStore ==
  ASSUME job \in AnyJob, job.inode \in Inodes, Durable' \in {Durable, Visible}, Asked' = Asked,
         Visible = [i \in Inodes |-> Visible[i]],
         NEW t \in Seq(AnyByte), t = Visible[job.inode],
         NEW pos \in Nat, pos <= Len(t), NEW c \in Seq(AnyByte), pos + Len(c) >= Len(t),
         Becomes(job.inode, Store!Overwrite(t, pos, c)), SizesOK', pos + Len(c) <= job.pos,
         flushed' = flushed, job.inode \notin spoiled, spoiled' = spoiled \cup {job.inode}
  PROVE  Store!StoreNext
<1>1. PICK w : w = Store!Overwrite(t, pos, c)
  OBVIOUS
<1>2. PICK size \in Nat : size = pos + Len(c)
  OBVIOUS
<1>3. w \in Seq(AnyByte) /\ Len(w) = size
  <2>1. Spliced(w, t, pos, c)
    BY <1>1, OverwriteFacts
  <2> QED
    BY <1>2, <2>1 DEF Spliced
<1>4. w \in [1..size -> Bytes \cup {Zero}]
  BY <1>3 DEF AnyByte
<1>5. Visible' = [Visible EXCEPT ![job.inode] = w]
  BY <1>1 DEF Becomes
<1>6. size \in 0..(PageCnt * DataSize)
  <2>1. \A i \in Inodes : Visible'[i] \in Seq(AnyByte) => Len(Visible'[i]) <= PageCnt * DataSize
    BY AllBoundedNext DEF SizesBounded
  <2>2. Visible'[job.inode] = w
    BY <1>5
  <2>3. PageCnt * DataSize \in Nat /\ size <= PageCnt * DataSize
    BY <1>3, <2>1, <2>2, SizesAssumption
  <2> QED
    BY <2>3
<1>7. Asked # NoJob /\ Asked.file = job.inode /\ Asked.pos = job.pos
  BY AskedFacts
<1>8. size >= Len(Visible[Asked.file]) /\ size <= Asked.pos
  BY <1>2, <1>7
<1>9. \E content \in [1..size -> Bytes \cup {Zero}] :
        Visible' = [Visible EXCEPT ![Asked.file] = content]
  BY <1>4, <1>5, <1>7
<1>10. Store!Spoil(size)
  BY <1>7, <1>8, <1>9 DEF Store!Spoil, Store!MaybeSync
<1> QED
  BY <1>6, <1>10 DEF Store!StoreNext

\* The last page is filled, and has other bytes than it had.
LEMMA WriteTailSpoiltStores ==
  ASSUME BattInv, BattInv', job # NoJob, WriteTailSpoilt
  PROVE  Store!StoreNext
<1>1. /\ mounted /\ ~failed /\ mounted' /\ ~failed' /\ job \in AnyJob /\ job.inode \in Inodes
      /\ file[job.inode].start \in Nat /\ file[job.inode].size \in Nat
      /\ Visible = [i \in Inodes |-> Visible[i]]
  BY JobStays
<1>0. /\ flushed' = flushed /\ job.inode \notin spoiled /\ spoiled' = spoiled \cup {job.inode}
      /\ \E other : FillTail(other)
  BY DEF WriteTailSpoilt
<1>2. PICK old, n, z, page, there : Padded(old, n, z, page, there)
  BY WriteTailSpoiltInv
<1>3. PICK pos : pos = file[job.inode].start + (n - 1)
  OBVIOUS
<1>4. /\ InJob(n) /\ z \in Nat /\ file[job.inode].size + z <= job.pos
      /\ Alters(job.inode, pos, page, there) /\ page.data = old \o Zeros(z)
      /\ old \in Seq(AnyByte) /\ Len(old) = Len(Now[pos].data)
  BY <1>2, <1>3 DEF Padded
<1>5. /\ n \in Nat /\ n > 0 /\ n - 1 \in 0..(n - 1)
      /\ FileAt(Now, free_page_start, job.inode, file[job.inode].start, n)
      /\ Visible[job.inode] \in Seq(AnyByte)
      /\ Len(Visible[job.inode]) = file[job.inode].size
      /\ file[job.inode].size = (n - 1) * DataSize + Len(Now[pos].data)
  BY <1>3, <1>4, WrittenFile
<1>6. PICK d \in Seq(AnyByte) : d = Now[pos].data
  <2>1. pos \in Used(free_page_start) /\ Now \in [Pages -> AnyPage] /\ free_page_start \in 0..PageCnt
    BY <1>1, <1>4, NowSound DEF Alters, StateOK
  <2>2. pos \in Pages
    BY <2>1, SizesAssumption DEF Used, Pages
  <2>3. Now[pos] \in AnyPage
    BY <2>1, <2>2
  <2> QED
    BY <2>3 DEF AnyPage
<1>7. PICK l \in Nat : l = Len(d)
  OBVIOUS
<1>8. PICK c \in Seq(AnyByte) : c = old \o Zeros(z) /\ Len(c) = l + z
  <2>1. old \o Zeros(z) \in Seq(AnyByte) /\ Len(old \o Zeros(z)) = Len(old) + z
    BY ZenonT(30), <1>4, WithZeros
  <2>2. Len(old) = l
    BY <1>4, <1>6, <1>7
  <2> QED
    BY <2>1, <2>2
<1>9. page.data = Patch(Now[pos].data, 0, c)
  <2>1. Len(d) <= Len(c)
    BY <1>4, <1>7, <1>8
  <2>2. Patch(d, 0, c) = c
    BY <2>1, PutInstead
  <2> QED
    BY <1>4, <1>6, <1>8, <2>2
<1>10. 0 + Len(c) <= DataSize
  <2>1. page \in AnyPage
    BY <1>4 DEF Alters
  <2>2. Len(page.data) <= DataSize
    BY <1>4, <2>1 DEF AnyPage, Alters, Rewrites
  <2> QED
    BY <1>4, <1>8, <2>2
<1>11. PICK off \in 0..(n - 1) : off = n - 1 /\ pos = file[job.inode].start + off
  BY <1>3, <1>5
<1>12. PICK at : at = off * DataSize
  OBVIOUS
<1>13. at \in Nat /\ Len(Visible[job.inode]) = at + l /\ off * DataSize + 0 = at
  <2>1. off \in Nat /\ DataSize \in Nat
    BY <1>5, SizesAssumption
  <2>2. at \in Nat
    BY <1>12, <2>1
  <2> QED
    BY <1>5, <1>6, <1>7, <1>11, <1>12, <2>2
<1>14. off * DataSize + 0 <= Len(Visible[job.inode])
  <2>1. at <= at + l
    BY <1>13
  <2> QED
    BY <1>13, <2>1
<1>15. mounted /\ ~failed /\ mounted' /\ ~failed' /\ Alters(job.inode, pos, page, there)
  BY <1>1, <1>4
<1>16. FileAt(Now, free_page_start, job.inode, file[job.inode].start, n)
  BY <1>5
<1>17. Durable' \in {Durable, Visible}
  BY <1>15, <1>16, <1>11, <1>9, <1>10, <1>14, AlterStores
<1>18. Becomes(job.inode, Store!Overwrite(Visible[job.inode], off * DataSize + 0, c))
  BY <1>15, <1>16, <1>11, <1>9, <1>10, <1>14, AlterStores
<1>19. Asked' = Asked
  <2>1. PICK x \in {"zeros", "pages"} : job' = [job EXCEPT !.phase = x]
    <3>1. PICK x : x = IF job.pos \div DataSize > file[job.inode].max_off THEN "zeros" ELSE "pages"
      OBVIOUS
    <3> QED
      BY <1>0, <3>1 DEF FillTail
  <2> QED
    BY <1>1, <2>1, AskedStays
<1>20. SizesOK'
  BY <1>1, VisibleSizeNext
<1>21. PICK t \in Seq(AnyByte) : t = Visible[job.inode] /\ Len(t) = at + l
  BY <1>5, <1>13
<1>22. Becomes(job.inode, Store!Overwrite(t, at, c))
  BY <1>13, <1>18, <1>21
<1>23. at <= Len(t) /\ at + Len(c) >= Len(t)
  BY <1>4, <1>8, <1>13, <1>21
<1>24. at + Len(c) <= job.pos
  <2>1. at + (l + z) = (at + l) + z
    BY <1>4, <1>13
  <2> QED
    BY <1>4, <1>5, <1>8, <1>13, <2>1
<1> QED
  BY <1>0, <1>1, <1>13, <1>17, <1>19, <1>20, <1>21, <1>22, <1>23, <1>24, SpoilStore

\* A page is written behind the file.
LEMMA WriteNewStores ==
  ASSUME BattInv, BattInv', job # NoJob, WriteNew
  PROVE  Store!StoreNext
<1>1. /\ mounted /\ ~failed /\ mounted' /\ ~failed' /\ job \in AnyJob /\ job.inode \in Inodes
  BY JobStays
<1>0. flushed' = flushed /\ spoiled' = spoiled
  BY DEF WriteNew, seen
<1>2. PICK n, page, e : WrittenNew(n, page, e)
  BY WriteNewInv
<1>3. /\ InJob(n) /\ Steady /\ job.pos = n * DataSize
      /\ Extends(job.inode, file[job.inode].start, n, page, e)
      /\ page.data = Patch(<<>>, 0, Chunk)
  BY <1>2 DEF WrittenNew
<1>4. n > 0 /\ ~SpaceOver
  BY <1>3, WrittenFile DEF WriteNew
<1>5. Durable' \in {Durable, Visible}
  BY <1>1, <1>3, <1>4, ExtendStores
<1>6. /\ Visible[job.inode] \in Seq(AnyByte) /\ Len(Visible[job.inode]) = n * DataSize
      /\ Becomes(job.inode, Visible[job.inode] \o page.data)
  BY <1>1, <1>3, <1>4, ExtendStores
<1>7. Chunk \in Seq(AnyByte)
  BY <1>1, ChunkBytes
<1>8. page.data = Chunk
  <2>1. <<>> \in Seq(AnyByte) /\ Len(<<>>) = 0
    OBVIOUS
  <2>2. Patch(<<>>, 0, Chunk) = <<>> \o Chunk
    BY <1>7, <2>1, PutAtEnd
  <2>3. <<>> \o Chunk = Chunk
    BY <1>7
  <2> QED
    BY <1>3, <2>2, <2>3
<1>9. job.pos = Len(Visible[job.inode])
  BY <1>3, <1>6
<1>10. Becomes(job.inode, Store!Overwrite(Visible[job.inode], job.pos, Chunk))
  <2>1. Store!Overwrite(Visible[job.inode], job.pos, Chunk) = Visible[job.inode] \o Chunk
    BY <1>6, <1>7, <1>9, PutAtEnd
  <2> QED
    BY <1>6, <1>8, <2>1
<1>11. job.pos <= Len(Visible[job.inode])
  <2>1. job.pos \in Nat
    BY <1>1 DEF AnyJob
  <2> QED
    BY <1>9, <2>1
<1>12. job' = NextJob
  BY DEF WriteNew
<1> QED
  BY <1>1, <1>0, <1>5, <1>10, <1>11, <1>12, BytesStore

\* A page of the file is written.
LEMMA WriteOldStores ==
  ASSUME BattInv, BattInv', job # NoJob, WriteOld
  PROVE  Store!StoreNext
<1>1. /\ mounted /\ ~failed /\ mounted' /\ ~failed' /\ job \in AnyJob /\ job.inode \in Inodes
  BY JobStays
<1>0. flushed' = flushed /\ spoiled' = spoiled
  BY DEF WriteOld, seen
<1>2. PICK n, page, there : WrittenOld(n, page, there)
  BY WriteOldInv
<1>3. PICK off : off = Off
  OBVIOUS
<1>4. PICK s : s = file[job.inode].start
  OBVIOUS
<1>5. PICK pos : pos = s + off
  OBVIOUS
<1>6. /\ InJob(n) /\ off \in 0..(n - 1) /\ job.pos <= file[job.inode].size
      /\ Alters(job.inode, pos, page, there)
      /\ page.data = Patch(Now[pos].data, Addr, Chunk)
  BY <1>2, <1>3, <1>4, <1>5 DEF WrittenOld
<1>7. /\ FileAt(Now, free_page_start, job.inode, s, n)
      /\ Len(Visible[job.inode]) = file[job.inode].size
  BY <1>4, <1>6, WrittenFile
<1>8. /\ Addr \in Nat /\ Addr + Len(Chunk) <= DataSize /\ Chunk \in Seq(AnyByte)
      /\ job.pos = DataSize * off + Addr
  BY <1>1, <1>3, ChunkFacts, ChunkBytes
<1>9. job.pos = off * DataSize + Addr
  <2>1. off \in Nat /\ DataSize \in Nat
    BY <1>1, <1>3, ChunkFacts, SizesAssumption
  <2>2. off * DataSize = DataSize * off
    BY <2>1
  <2> QED
    BY <1>8, <2>2
<1>10. off * DataSize + Addr <= Len(Visible[job.inode])
  BY <1>6, <1>7, <1>9
<1>11. PICK addr \in Nat, c \in Seq(AnyByte) : addr = Addr /\ c = Chunk
  BY <1>8
<1>12. Durable' \in {Durable, Visible}
  BY <1>1, <1>5, <1>6, <1>7, <1>8, <1>10, <1>11, AlterStores
<1>13. Becomes(job.inode, Store!Overwrite(Visible[job.inode], off * DataSize + Addr, Chunk))
  BY <1>1, <1>5, <1>6, <1>7, <1>8, <1>10, <1>11, AlterStores
<1>14. Becomes(job.inode, Store!Overwrite(Visible[job.inode], job.pos, Chunk))
  BY <1>9, <1>13
<1>15. job.pos <= Len(Visible[job.inode])
  BY <1>9, <1>10
<1>16. job' = NextJob
  BY DEF WriteOld
<1> QED
  BY <1>1, <1>0, <1>12, <1>14, <1>15, <1>16, BytesStore

-----------------------------------------------------------------------------
\* Each step of the file system is one of the store, or is not seen.
LEMMA NextIsStore ==
  ASSUME BattInv, BattInv', [BattNext]_battVars, {"full", "inplace", "errors"} \subseteq Avoids
  PROVE  [Store!StoreNext]_Store!storeVars
<1>0. "errors" \in Avoids
  OBVIOUS
<1>a. job.phase # "none" => job # NoJob
  BY DEF NoJob
<1>b. Store!Flush \/ Store!Fail \/ Store!PowerCut => Store!StoreNext
  BY DEF Store!StoreNext
<1>1. CASE Mount
  BY <1>1, QuietStep DEF Mount
<1>2. CASE Umount
  <2>1. /\ ~failed /\ ~failed' /\ dev' = BlockFlush(dev) /\ job = NoJob /\ job' = job
        /\ flushed' = TRUE /\ spoiled' = spoiled
    BY <1>0, <1>2 DEF Umount, Idle
  <2> QED
    BY <1>b, <2>1, FlushStores
<1>3. CASE PowerCut
  BY <1>b, <1>3, CutStores
<1>4. ASSUME NEW i \in Inodes, Open(i) PROVE UNCHANGED Store!storeVars
  BY <1>4, QuietStep DEF Open
<1>5. ASSUME NEW i \in Inodes, Create(i) PROVE Store!StoreNext
  BY <1>0, <1>5, CreateStores
<1>6. ASSUME NEW i \in Inodes, NEW close \in BOOLEAN, Flush(i, close) PROVE Store!StoreNext
  <2>1. ~failed /\ job = NoJob /\ job' = job /\ spoiled' = spoiled
    BY <1>0, <1>6 DEF Flush, Idle
  <2>2. CASE dev' = BlockFlush(dev) /\ failed' = failed /\ flushed' = TRUE
    BY <1>b, <2>1, <2>2, FlushStores
  <2>3. CASE failed' /\ dev' = dev /\ flushed' = FALSE
    BY <1>b, <2>1, <2>3, FailStores
  <2> QED
    BY <1>6, <2>2, <2>3 DEF Flush
<1>7. ASSUME NEW i \in Inodes, NEW w \in Writes, NEW b \in Bytes,
             WriteBegin(i, w[1], [k \in 1..w[2] |-> b])
      PROVE  Store!StoreNext
  BY <1>0, <1>7, RequestStores
<1>8. CASE WriteTail
  BY <1>a, <1>8, WriteTailStores DEF WriteTail
<1>9. CASE WriteZeros
  BY <1>a, <1>9, WriteZerosStores DEF WriteZeros
<1>10. CASE WriteNew
  BY <1>a, <1>10, WriteNewStores DEF WriteNew
<1>11. CASE WriteOld
  BY <1>a, <1>11, WriteOldStores DEF WriteOld
<1>12. CASE WriteNoSpace
  BY <1>12, FinishStores
<1>13. CASE WriteNewFails \/ WriteOldFails
  <2>1. failed' /\ dev' = dev /\ job' = NoJob /\ flushed' = FALSE /\ spoiled' = spoiled
    BY <1>13 DEF WriteNewFails, WriteOldFails
  <2> QED
    BY <1>b, <2>1, FailStores
<1>14. CASE UNCHANGED battVars
  BY <1>14, QuietStep DEF battVars
<1>15. CASE UmountFails
  <2>1. /\ ~failed /\ failed' /\ job' = NoJob /\ flushed' = FALSE /\ spoiled' = spoiled
        /\ dev' = dev \/ dev' = BlockFlush(dev)
    BY <1>0, <1>15 DEF UmountFails, Idle
  <2> QED
    BY <1>b, <2>1, FailStores
<1>16. CASE WriteTailSpoilt
  BY <1>a, <1>16, WriteTailSpoiltStores DEF WriteTailSpoilt
<1> QED
  BY <1>1, <1>2, <1>3, <1>4, <1>5, <1>6, <1>7, <1>8, <1>9, <1>10, <1>11, <1>12, <1>13, <1>14, <1>15,
     <1>16
  DEF BattNext

\* An erased memory holds no file.
LEMMA InitIsStore == BattInit => Store!StoreInit
<1> SUFFICES ASSUME BattInit PROVE Store!StoreInit
  OBVIOUS
<1>1. /\ dev.media = [p \in Pages |-> Blank] /\ ~mounted /\ job = NoJob
      /\ flushed = FALSE /\ spoiled = {}
  BY DEF BattInit, PowerUp
<1>2. \A p \in Pages : ~Chosen(dev.media, p)
  BY <1>1 DEF Chosen, Blank
<1>3. ASSUME NEW i \in Inodes PROVE SurvivesIn(dev.media, i) = Absent
  BY <1>2 DEF SurvivesIn
<1>4. Durable = [i \in Inodes |-> Absent]
  BY <1>3 DEF Durable
<1>5. Visible = Durable
  BY <1>1 DEF Visible
<1>6. Asked = NoJob
  BY <1>1 DEF Asked
<1> QED
  BY <1>1, <1>4, <1>5, <1>6 DEF Store!StoreInit

\* What is written is read again; battfs_flush(), battfs_fileclose() and
\* battfs_umount() make all of it durable when they succeed; and after a power
\* cut, wherever it happens, every file is as it was at one moment since then,
\* the same moment for all of them, for every application that takes the three
\* precautions.  Only a file whose tail battfs_write() copied while the device
\* failed (battfs.c:608) may have other bytes than it should.
THEOREM FilesSurvive ==
  ASSUME {"full", "inplace", "errors"} \subseteq Avoids
  PROVE  BattSpec => ImplementsStore
<1>1. BattSpec => []BattInv
  BY BattInvariant
<1>2. BattInit => Store!StoreInit
  BY InitIsStore
<1>3. BattInv /\ BattInv' /\ [BattNext]_battVars => [Store!StoreNext]_Store!storeVars
  BY NextIsStore
<1> QED
  BY <1>1, <1>2, <1>3, PTL DEF BattSpec, ImplementsStore, Store!StoreSpec

=============================================================================
