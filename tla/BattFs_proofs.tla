--------------------------- MODULE BattFs_proofs ---------------------------
(***************************************************************************)
(* Proofs about BattFs, for every number and size of pages, every set of   *)
(* files, every write and every sequence number, of an application that    *)
(* takes the three precautions named in Avoids.                            *)
(*                                                                         *)
(* BattInv is inductive.  DevOK is about the memory, with or without power:*)
(* two copies of a page differ in their sequence numbers, no page is       *)
(* missing in the middle of a file, and the dirty buffer does not stand    *)
(* for a copy that a mount would choose; so a power cut, which may tear    *)
(* that block, leaves a memory that can be mounted.  RunOK is about a      *)
(* mounted file system, in terms of Now, the pages in the order of the     *)
(* page array: every page is listed once, the used ones are sorted by file *)
(* and offset, any other is superseded by a used one, and every handle     *)
(* agrees with the pages of its file.  JobOK is what holds between two     *)
(* steps of a battfs_write(); LastOK allows an empty page only where the   *)
(* next step is to write.                                                  *)
(*                                                                         *)
(* Steps that allocate a page (Extended) and steps that rewrite one        *)
(* (Rewritten) are treated once, and so is the device below them (Stored). *)
(* A mount goes the other way, from the memory to the array: L being the   *)
(* right pages but for the copies given up so far, Filed says that after n *)
(* turns of fillPageArray() every page of L has its place in the array or  *)
(* waits for it, the place being the number of pages of smaller files plus *)
(* the page's offset.  Induction is over the set of numbers for which a    *)
(* formula holds.                                                          *)
(***************************************************************************)
EXTENDS BattFs, FiniteSetTheorems, TLAPS
-----------------------------------------------------------------------------
\* Bytes, pages and devices.
AnyByte == Bytes \cup {Zero}
AnyPage ==
  {g \in [fcs : BOOLEAN, inode : Nat, pgoff : Nat, seq : Int, data : Seq(AnyByte)] :
     g.fcs => g.seq \in Nat /\ Len(g.data) <= DataSize}
AnyDevice == [media : [Pages -> AnyPage], buf : AnyPage, curr : Pages, dirty : BOOLEAN]

\* What a device answers, and what it answers for the page at each position of
\* an array.
View(d) == [p \in Pages |-> BlockRead(d, p)]
InOrder(m, a) == [k \in Pages |-> m[a[k]]]

SamePage(g, h) == g.inode = h.inode /\ g.pgoff = h.pgoff
Before(g, h) == g.inode < h.inode \/ (g.inode = h.inode /\ g.pgoff < h.pgoff)

\* A memory m: two copies of a page can be told apart, ...
Distinct(m) ==
  /\ \A p \in Pages : m[p].fcs => m[p].inode \in Inodes
  /\ \A p, q \in Pages :
       p # q /\ m[p].fcs /\ m[q].fcs /\ SamePage(m[p], m[q]) => m[p].seq # m[q].seq

\* ... and no page is missing in the middle of a file.
Whole(m) ==
  /\ \A p \in Pages : m[p].fcs =>
       \A off \in Nat : off < m[p].pgoff =>
         \E q \in Pages : m[q].fcs /\ m[q].inode = m[p].inode /\ m[q].pgoff = off
  /\ \A p, q \in Pages :
       Chosen(m, p) /\ Chosen(m, q) /\ m[q].inode = m[p].inode /\ m[q].pgoff = m[p].pgoff + 1
         => Len(m[p].data) = DataSize /\ m[q].data # <<>>

\* The array a lists every page once.
Listed(a) ==
  /\ a \in [Pages -> Pages]
  /\ \A p \in Pages : \E k \in Pages : a[k] = p
  /\ \A j, k \in Pages : a[j] = a[k] => j = k

\* The pages h in the order of the array: first, in order, those of every
\* file, u of them, ...
Used(u) == {k \in Pages : k < u}

Ordered(h, u) ==
  /\ \A k \in Used(u) : h[k].fcs
  /\ \A j, k \in Used(u) : j < k => Before(h[j], h[k])

Linked(h, u) ==
  \A k \in Used(u) : h[k].pgoff > 0 =>
    /\ k > 0
    /\ h[k - 1].inode = h[k].inode
    /\ h[k].pgoff = h[k - 1].pgoff + 1
    /\ Len(h[k - 1].data) = DataSize

\* ... and then those that a newer copy has superseded.
Superseded(h, u) ==
  \A k \in Pages : k >= u /\ h[k].fcs =>
    \E j \in Used(u) : SamePage(h[k], h[j]) /\ h[k].seq < h[j].seq

ArrayOK(h, u) ==
  /\ h \in [Pages -> AnyPage] /\ u \in 0..PageCnt
  /\ Distinct(h) /\ Ordered(h, u) /\ Linked(h, u) /\ Superseded(h, u)

\* File i has the n pages from position start.
FileAt(h, u, i, start, n) ==
  /\ start \in Nat /\ n \in Nat /\ start + n <= u
  /\ \A k \in Used(u) : h[k].inode = i <=> (start <= k /\ k < start + n)
  /\ \A k \in Used(u) : h[k].inode = i => h[k].pgoff = k - start

\* An open file, whose last page is the one at max_off or, if it was opened
\* when that page was full, the one before.
HandleOK(h, u, i, f) ==
  \E n \in Nat \ {0} :
    /\ FileAt(h, u, i, f.start, n)
    /\ f.size = (n - 1) * DataSize + Len(h[f.start + n - 1].data)
    /\ n = f.max_off + 1 \/ (n = f.max_off /\ f.size = n * DataSize)

AnyHandle == [open : {TRUE}, start : Nat, size : Nat, max_off : Nat]
AnyJob == [inode : Inodes, pos : Nat, bytes : Seq(Bytes) \ {<<>>}, phase : {"tail", "zeros", "pages"}]

Now == InOrder(View(dev), page_array)

JobOK ==
  LET f == file[job.inode] IN
  /\ job \in AnyJob /\ f.open
  /\ f.start + f.max_off \in Pages
  /\ \/ /\ FileAt(Now, free_page_start, job.inode, f.start, f.max_off + 1)
        /\ job.phase = "tail" => job.pos > f.size
        /\ job.phase = "zeros" => f.size = (f.max_off + 1) * DataSize /\ job.pos >= f.size
        /\ job.phase = "pages" => job.pos <= f.size
     \/ /\ FileAt(Now, free_page_start, job.inode, f.start, f.max_off)
        /\ job.phase = "pages" /\ job.pos + Len(job.bytes) <= f.max_off * DataSize
  /\ job.phase = "pages" /\ dev.dirty /\ Off < f.max_off =>
       dev.curr # page_array[f.start + Off] /\ dev.curr # page_array[f.start + f.max_off]

\* An empty page that is to be written next.
Pending(k) ==
  LET f == file[job.inode] IN
  /\ job.phase = "pages" /\ Off = f.max_off /\ k = f.start + Off
  /\ dev.dirty /\ page_array[k] = dev.curr

LastOK ==
  \A k \in Used(free_page_start) : Now[k].pgoff > 0 /\ Now[k].data = <<>> => Pending(k)

Sizes(h) == [k \in Pages |-> Len(h[k].data)]

FreeOK ==
  free_bytes = DataSize * PageCnt - SumFunctionOnSet(Sizes(Now), Used(free_page_start))

DevOK ==
  /\ dev \in AnyDevice
  /\ ~dev.dirty => dev.buf = dev.media[dev.curr]
  /\ dev.dirty => ~Chosen(dev.media, dev.curr)
  /\ Distinct(dev.media) /\ Whole(dev.media)

StateOK ==
  /\ mounted \in BOOLEAN /\ failed \in BOOLEAN
  /\ page_array \in [Pages -> Pages \cup {Unset}]
  /\ free_page_start \in 0..PageCnt
  /\ free_bytes \in 0..(DataSize * PageCnt)
  /\ file \in [Inodes -> {Closed} \cup AnyHandle]
  /\ ~mounted => ~dev.dirty /\ ~failed /\ file = [i \in Inodes |-> Closed]
  /\ ~mounted \/ failed => job = NoJob

RunOK ==
  /\ Listed(page_array)
  /\ ArrayOK(Now, free_page_start)
  /\ dev.dirty => \E k \in Used(free_page_start) : page_array[k] = dev.curr
  /\ \A i \in Inodes : file[i].open => HandleOK(Now, free_page_start, i, file[i])
  /\ job = NoJob \/ JobOK
  /\ LastOK /\ FreeOK

BattInv == DevOK /\ StateOK /\ (mounted /\ ~failed => RunOK)
-----------------------------------------------------------------------------
\* Induction, for the sets that the comprehension of a formula gives.
LEMMA InductiveSet ==
  ASSUME NEW S, 0 \in S, \A n \in Nat : n \in S => n + 1 \in S
  PROVE  \A n \in Nat : n \in S
<1> DEFINE Bad == {n \in Nat : n \notin S}
<1> SUFFICES ASSUME Bad # {} PROVE FALSE
  OBVIOUS
<1>1. Bad \subseteq Nat
  OBVIOUS
<1>2. PICK k \in Bad : \A j \in Bad : ~(<<j, k>> \in OpToRel(<, Nat))
  <2> HIDE DEF Bad
  <2> QED
    BY <1>1, NatLessThanWellFounded, WFMin, Zenon
<1>3. k \in Nat /\ k \notin S /\ k # 0
  OBVIOUS
<1>4. k - 1 \in Nat /\ k = (k - 1) + 1
  BY <1>3
<1>5. <<k - 1, k>> \in OpToRel(<, Nat)
  BY <1>3, <1>4 DEF OpToRel
<1>6. k - 1 \notin Bad
  BY <1>2, <1>5
<1>7. k - 1 \in S
  BY <1>4, <1>6
<1> QED
  BY <1>3, <1>4, <1>7

-----------------------------------------------------------------------------
\* The sum of a function over a finite set.
SumStep(w, it, s) ==
  IF s = {} THEN 0 ELSE w[CHOOSE x \in s : TRUE] + it[s \ {CHOOSE x \in s : TRUE}]

IsSum(w, it, S) == \A s \in SUBSET S : it[s] = SumStep(w, it, s)

\* The recursion of the sum has a solution.
LEMMA SumSolution ==
  ASSUME NEW S, IsFiniteSet(S), NEW w, \A x \in S : w[x] \in Int
  PROVE  \E it \in [SUBSET S -> Int] : IsSum(w, it, S)
<1> DEFINE Upto(it, n) == \A s \in SUBSET S : Cardinality(s) <= n => it[s] = SumStep(w, it, s)
           Good == {n \in Nat : \E it \in [SUBSET S -> Int] : Upto(it, n)}
<1>0. \A s \in SUBSET S : IsFiniteSet(s) /\ Cardinality(s) \in Nat
  BY FS_Subset, FS_CardinalityType
<1>1. 0 \in Good
  <2> DEFINE it == [s \in SUBSET S |-> 0]
  <2>1. \A s \in SUBSET S : Cardinality(s) <= 0 => s = {}
    BY <1>0, FS_EmptySet
  <2>2. \A s \in SUBSET S : s = {} => SumStep(w, it, s) = 0
    BY DEF SumStep
  <2>3. it \in [SUBSET S -> Int] /\ Upto(it, 0)
    BY <2>1, <2>2
  <2> QED
    BY <2>3
<1>2. ASSUME NEW n \in Nat, n \in Good PROVE n + 1 \in Good
  <2>1. PICK it \in [SUBSET S -> Int] : Upto(it, n)
    BY <1>2
  <2> DEFINE nxt == [s \in SUBSET S |-> SumStep(w, it, s)]
  <2>2. ASSUME NEW s \in SUBSET S, s # {}, NEW x, x = CHOOSE y \in s : TRUE
        PROVE  /\ x \in s /\ s \ {x} \in SUBSET S
               /\ SumStep(w, it, s) = w[x] + it[s \ {x}]
               /\ SumStep(w, nxt, s) = w[x] + nxt[s \ {x}]
               /\ Cardinality(s \ {x}) = Cardinality(s) - 1
    <3>1. x \in s
      BY <2>2
    <3>2. Cardinality(s \ {x}) = Cardinality(s) - 1
      BY <3>1, <1>0, FS_RemoveElement
    <3> QED
      BY <3>1, <3>2, <2>2 DEF SumStep
  <2>3. nxt \in [SUBSET S -> Int]
    <3> SUFFICES ASSUME NEW s \in SUBSET S PROVE SumStep(w, it, s) \in Int
      OBVIOUS
    <3>1. CASE s = {}
      BY <3>1 DEF SumStep
    <3>2. CASE s # {}
      <4>1. PICK x : x = CHOOSE y \in s : TRUE
        OBVIOUS
      <4> HIDE DEF nxt, Upto
      <4>2. x \in s /\ s \ {x} \in SUBSET S /\ SumStep(w, it, s) = w[x] + it[s \ {x}]
        BY <2>2, <3>2, <4>1
      <4>a. x \in S
        BY <4>2
      <4>3. w[x] \in Int /\ it[s \ {x}] \in Int
        BY <4>2, <4>a
      <4> QED
        BY <4>2, <4>3
    <3> QED
      BY <3>1, <3>2
  <2>4. Upto(nxt, n + 1)
    <3> SUFFICES ASSUME NEW s \in SUBSET S, Cardinality(s) <= n + 1
                 PROVE  nxt[s] = SumStep(w, nxt, s)
      OBVIOUS
    <3>1. CASE s = {}
      BY <3>1 DEF SumStep
    <3>2. CASE s # {}
      <4>1. PICK x : x = CHOOSE y \in s : TRUE
        OBVIOUS
      <4>0. Cardinality(s \ {x}) = Cardinality(s) - 1 /\ s \ {x} \in SUBSET S
        BY <2>2, <3>2, <4>1
      <4>2. Cardinality(s \ {x}) <= n /\ s \ {x} \in SUBSET S
        BY <1>0, <4>0
      <4>3. nxt[s \ {x}] = it[s \ {x}]
        BY <2>1, <4>2
      <4>4. SumStep(w, it, s) = SumStep(w, nxt, s)
        <5> HIDE DEF nxt, Upto
        <5>1. SumStep(w, it, s) = w[x] + it[s \ {x}]
          BY <2>2, <3>2, <4>1
        <5>2. SumStep(w, nxt, s) = w[x] + nxt[s \ {x}]
          BY <2>2, <3>2, <4>1
        <5> QED
          BY <4>3, <5>1, <5>2
      <4> QED
        BY <4>4
    <3> QED
      BY <3>1, <3>2
  <2> HIDE DEF nxt, Upto
  <2> QED
    BY <2>3, <2>4
<1>3. Cardinality(S) \in Good
  <2> HIDE DEF Good
  <2> QED
    BY <1>0, <1>1, <1>2, InductiveSet
<1>4. PICK it \in [SUBSET S -> Int] : Upto(it, Cardinality(S))
  BY <1>3
<1>5. \A s \in SUBSET S : it[s] = SumStep(w, it, s)
  BY <1>4, FS_Subset
<1> QED
  BY <1>5 DEF IsSum

\* Two solutions agree where the functions agree.
LEMMA SumUnique ==
  ASSUME NEW S, IsFiniteSet(S), NEW T, S \subseteq T, NEW w, NEW v,
         \A x \in S : w[x] = v[x],
         NEW f, IsSum(w, f, S), NEW g, IsSum(v, g, T)
  PROVE  \A s \in SUBSET S : f[s] = g[s]
<1> DEFINE Good == {n \in Nat : \A s \in SUBSET S : Cardinality(s) = n => f[s] = g[s]}
<1>0. \A s \in SUBSET S : IsFiniteSet(s) /\ Cardinality(s) \in Nat
  BY FS_Subset, FS_CardinalityType
<1>a. \A s \in SUBSET S : f[s] = SumStep(w, f, s) /\ g[s] = SumStep(v, g, s)
  BY DEF IsSum
<1>1. 0 \in Good
  <2>1. \A s \in SUBSET S : Cardinality(s) = 0 => s = {}
    BY <1>0, FS_EmptySet
  <2>2. f[{}] = 0 /\ g[{}] = 0
    BY <1>a DEF SumStep
  <2> QED
    BY <2>1, <2>2
<1>2. ASSUME NEW n \in Nat, n \in Good PROVE n + 1 \in Good
  <2> SUFFICES ASSUME NEW s \in SUBSET S, Cardinality(s) = n + 1 PROVE f[s] = g[s]
    OBVIOUS
  <2>1. s # {}
    BY FS_EmptySet, n + 1 # 0
  <2>2. PICK x : x = CHOOSE y \in s : TRUE
    OBVIOUS
  <2>a. x \in s /\ IsFiniteSet(s)
    BY <1>0, <2>1, <2>2
  <2>b. Cardinality(s \ {x}) = Cardinality(s) - 1
    BY <2>a, FS_RemoveElement
  <2>3. x \in s /\ s \ {x} \in SUBSET S /\ Cardinality(s \ {x}) = n
    BY <2>a, <2>b
  <2>4. f[s \ {x}] = g[s \ {x}]
    BY <1>2, <2>3
  <2>5. f[s] = w[x] + f[s \ {x}] /\ g[s] = v[x] + g[s \ {x}]
    BY <1>a, <2>1, <2>2 DEF SumStep
  <2>6. w[x] = v[x]
    BY <2>3
  <2> QED
    BY <2>4, <2>5, <2>6
<1>3. \A n \in Nat : n \in Good
  <2> HIDE DEF Good
  <2> QED
    BY <1>1, <1>2, InductiveSet
<1> QED
  BY <1>0, <1>3

\* The sum is what a solution says.
LEMMA SumValue ==
  ASSUME NEW S, IsFiniteSet(S), NEW w, \A x \in S : w[x] \in Int
  PROVE  \E it \in [SUBSET S -> Int] :
           /\ IsSum(w, it, S)
           /\ SumFunctionOnSet(w, S) = it[S]
<1>0. PICK it \in [SUBSET S -> Int] : IsSum(w, it, S)
  BY SumSolution
<1>1. it = [s \in SUBSET S |-> SumStep(w, it, s)]
  BY <1>0 DEF IsSum
<1>2. \E h : h = [s \in SUBSET S |-> SumStep(w, h, s)] /\ SumFunctionOnSet(w, S) = h[S]
  BY <1>1 DEF SumFunctionOnSet, FoldFunctionOnSet, MapThenFoldSet, SumStep
<1>3. PICK h : h = [s \in SUBSET S |-> SumStep(w, h, s)] /\ SumFunctionOnSet(w, S) = h[S]
  BY <1>2
<1>4. it[S] = h[S]
  <2>1. \A s \in SUBSET S : it[s] = h[s]
    <3>1. IsSum(w, h, S)
      BY <1>3 DEF IsSum
    <3> QED
      BY <1>0, <3>1, SumUnique
  <2> QED
    BY <2>1
<1> QED
  BY <1>0, <1>3, <1>4

\* The sum of integers is an integer.
LEMMA SumType ==
  ASSUME NEW S, IsFiniteSet(S), NEW w, \A x \in S : w[x] \in Int
  PROVE  SumFunctionOnSet(w, S) \in Int
<1>1. PICK it \in [SUBSET S -> Int] : SumFunctionOnSet(w, S) = it[S]
  BY SumValue, Zenon
<1> QED
  BY <1>1

\* The empty sum.
LEMMA SumEmpty ==
  ASSUME NEW w
  PROVE  SumFunctionOnSet(w, {}) = 0
<1>1. PICK it \in [SUBSET {} -> Int] :
        IsSum(w, it, {}) /\ SumFunctionOnSet(w, {}) = it[{}]
  BY SumValue, FS_EmptySet
<1> QED
  BY <1>1 DEF IsSum, SumStep

\* Equal functions have equal sums.
LEMMA SumAgree ==
  ASSUME NEW S, IsFiniteSet(S), NEW w, NEW v, \A x \in S : w[x] \in Int /\ w[x] = v[x]
  PROVE  SumFunctionOnSet(w, S) = SumFunctionOnSet(v, S)
<1>1. PICK f \in [SUBSET S -> Int] :
        IsSum(w, f, S) /\ SumFunctionOnSet(w, S) = f[S]
  BY SumValue
<1>2. PICK g \in [SUBSET S -> Int] :
        IsSum(v, g, S) /\ SumFunctionOnSet(v, S) = g[S]
  BY SumValue
<1>3. f[S] = g[S]
  <2>1. \A s \in SUBSET S : f[s] = g[s]
    BY <1>1, <1>2, SumUnique
  <2> QED
    BY <2>1
<1> QED
  BY <1>1, <1>2, <1>3

\* Any element may be taken out first.
LEMMA SumRemove ==
  ASSUME NEW S, IsFiniteSet(S), NEW w, \A x \in S : w[x] \in Int, NEW e \in S
  PROVE  SumFunctionOnSet(w, S) = w[e] + SumFunctionOnSet(w, S \ {e})
<1>1. PICK f \in [SUBSET S -> Int] :
        IsSum(w, f, S) /\ SumFunctionOnSet(w, S) = f[S]
  BY SumValue
<1>2. IsFiniteSet(S \ {e})
  BY FS_RemoveElement
<1>3. PICK g \in [SUBSET (S \ {e}) -> Int] :
        /\ IsSum(w, g, S \ {e})
        /\ SumFunctionOnSet(w, S \ {e}) = g[S \ {e}]
  BY <1>2, SumValue
<1>4. g[S \ {e}] = f[S \ {e}]
  <2>1. S \ {e} \subseteq S /\ \A x \in S \ {e} : w[x] = w[x]
    OBVIOUS
  <2>2. \A s \in SUBSET (S \ {e}) : g[s] = f[s]
    BY <1>1, <1>2, <1>3, <2>1, SumUnique
  <2> QED
    BY <2>2
<1> DEFINE Good == {n \in Nat : \A s \in SUBSET S, y \in S :
                      Cardinality(s) = n /\ y \in s => f[s] = w[y] + f[s \ {y}]}
<1>0. \A s \in SUBSET S : IsFiniteSet(s) /\ Cardinality(s) \in Nat
  BY FS_Subset, FS_CardinalityType
<1>5. 0 \in Good
  <2>1. \A s \in SUBSET S : Cardinality(s) = 0 => s = {}
    BY <1>0, FS_EmptySet
  <2> QED
    BY <2>1
<1>6. ASSUME NEW n \in Nat, n \in Good PROVE n + 1 \in Good
  <2> SUFFICES ASSUME NEW s \in SUBSET S, NEW y \in S, Cardinality(s) = n + 1, y \in s
               PROVE  f[s] = w[y] + f[s \ {y}]
    OBVIOUS
  <2>2. PICK x : x = CHOOSE z \in s : TRUE
    OBVIOUS
  <2>a. x \in s
    BY <2>2
  <2>3. x \in s /\ s \ {x} \in SUBSET S /\ Cardinality(s \ {x}) = n
    BY <1>0, <2>a, FS_RemoveElement
  <2>4. f[s] = w[x] + f[s \ {x}]
    BY <1>1, <2>2 DEF IsSum, SumStep
  <2>5. CASE x = y
    BY <2>4, <2>5
  <2>6. CASE x # y
    <3>1. f[s \ {x}] = w[y] + f[(s \ {x}) \ {y}]
      BY <1>6, <2>3, <2>6
    <3>2. Cardinality(s \ {y}) = n /\ s \ {y} \in SUBSET S
      BY <1>0, FS_RemoveElement
    <3>3. f[s \ {y}] = w[x] + f[(s \ {y}) \ {x}]
      BY <1>6, <2>3, <2>6, <3>2
    <3>4. (s \ {x}) \ {y} = (s \ {y}) \ {x}
      OBVIOUS
    <3>5. w[x] \in Int /\ w[y] \in Int /\ f[(s \ {y}) \ {x}] \in Int
      BY <2>3
    <3>6. f[s] = w[x] + (w[y] + f[(s \ {y}) \ {x}])
      BY <2>4, <3>1, <3>4
    <3>7. w[x] + (w[y] + f[(s \ {y}) \ {x}]) = w[y] + (w[x] + f[(s \ {y}) \ {x}])
      BY <3>5
    <3> QED
      BY <3>3, <3>6, <3>7
  <2> QED
    BY <2>5, <2>6
<1>7. \A n \in Nat : n \in Good
  <2> HIDE DEF Good
  <2> QED
    BY <1>5, <1>6, InductiveSet
<1>8. f[S] = w[e] + f[S \ {e}]
  BY <1>0, <1>7
<1> QED
  BY <1>1, <1>3, <1>4, <1>8

\* A new element adds its value.
LEMMA SumAdd ==
  ASSUME NEW S, IsFiniteSet(S), NEW w, NEW e, e \notin S, \A x \in S \cup {e} : w[x] \in Int
  PROVE  SumFunctionOnSet(w, S \cup {e}) = w[e] + SumFunctionOnSet(w, S)
<1>1. IsFiniteSet(S \cup {e}) /\ (S \cup {e}) \ {e} = S
  BY FS_AddElement
<1> QED
  BY <1>1, SumRemove

\* The elements may be renamed.
LEMMA SumImage ==
  ASSUME NEW S, IsFiniteSet(S), NEW g, \A x, y \in S : g[x] = g[y] => x = y,
         NEW w, NEW v, \A x \in S : v[x] \in Int /\ v[x] = w[g[x]]
  PROVE  /\ IsFiniteSet({g[x] : x \in S})
         /\ SumFunctionOnSet(w, {g[x] : x \in S}) = SumFunctionOnSet(v, S)
<1> DEFINE Img(s) == {g[x] : x \in s}
           Holds(s) == /\ IsFiniteSet(Img(s))
                       /\ SumFunctionOnSet(w, Img(s)) = SumFunctionOnSet(v, s)
           Good == {n \in Nat : \A s \in SUBSET S : Cardinality(s) = n => Holds(s)}
<1>0. \A s \in SUBSET S : IsFiniteSet(s) /\ Cardinality(s) \in Nat
  BY FS_Subset, FS_CardinalityType
<1>1. 0 \in Good
  <2>1. \A s \in SUBSET S : Cardinality(s) = 0 => s = {}
    BY <1>0, FS_EmptySet
  <2>2. Img({}) = {}
    OBVIOUS
  <2>3. Holds({})
    BY <2>2, SumEmpty, FS_EmptySet
  <2> HIDE DEF Holds
  <2> QED
    BY <2>1, <2>3
<1>2. ASSUME NEW n \in Nat, n \in Good PROVE n + 1 \in Good
  <2> SUFFICES ASSUME NEW s \in SUBSET S, Cardinality(s) = n + 1 PROVE Holds(s)
    OBVIOUS
  <2>1. s # {}
    BY FS_EmptySet, n + 1 # 0
  <2>2. PICK e : e \in s
    BY <2>1
  <2>3. IsFiniteSet(s) /\ e \in S
    BY <1>0, <2>2
  <2>4. Cardinality(s \ {e}) = Cardinality(s) - 1 /\ IsFiniteSet(s \ {e})
    BY <2>2, <2>3, FS_RemoveElement
  <2>5. s \ {e} \in SUBSET S /\ Cardinality(s \ {e}) = n
    BY <2>4
  <2>6. Holds(s \ {e})
    BY <1>2, <2>5
  <2>7. Img(s) = Img(s \ {e}) \cup {g[e]}
    BY <2>2
  <2>8. g[e] \notin Img(s \ {e})
    BY <2>2, <2>3
  <2>9. \A y \in Img(s) : w[y] \in Int
    OBVIOUS
  <2> HIDE DEF Img
  <2>10. \A y \in Img(s \ {e}) \cup {g[e]} : w[y] \in Int
    BY <2>7, <2>9
  <2>11. IsFiniteSet(Img(s))
    <3>1. IsFiniteSet(Img(s \ {e}))
      BY <2>6
    <3>2. IsFiniteSet(Img(s \ {e}) \cup {g[e]})
      BY <3>1, FS_AddElement, Zenon
    <3> QED
      BY <2>7, <3>2, Zenon
  <2>12. SumFunctionOnSet(w, Img(s)) = w[g[e]] + SumFunctionOnSet(w, Img(s \ {e}))
    BY <2>6, <2>7, <2>8, <2>10, SumAdd
  <2>13. SumFunctionOnSet(v, s) = v[e] + SumFunctionOnSet(v, s \ {e})
    <3>1. \A x \in s : v[x] \in Int
      OBVIOUS
    <3> QED
      BY <2>2, <2>3, <3>1, SumRemove
  <2>14. v[e] = w[g[e]]
    BY <2>3
  <2> QED
    BY <2>6, <2>11, <2>12, <2>13, <2>14
<1>3. \A n \in Nat : n \in Good
  <2> HIDE DEF Good
  <2> QED
    BY <1>1, <1>2, InductiveSet
<1>4. Holds(S)
  <2> HIDE DEF Holds
  <2> QED
    BY <1>0, <1>3
<1> QED
  BY <1>4

\* Bounds of the sum of bounded numbers.
LEMMA SumBounds ==
  ASSUME NEW S, IsFiniteSet(S), NEW b \in Nat, NEW w, \A x \in S : w[x] \in 0..b
  PROVE  SumFunctionOnSet(w, S) \in 0..(b * Cardinality(S))
<1> DEFINE Good == {n \in Nat : \A s \in SUBSET S :
                      Cardinality(s) = n => SumFunctionOnSet(w, s) \in 0..(b * n)}
<1>0. \A s \in SUBSET S : IsFiniteSet(s) /\ Cardinality(s) \in Nat
  BY FS_Subset, FS_CardinalityType
<1>1. 0 \in Good
  <2>1. \A s \in SUBSET S : Cardinality(s) = 0 => s = {}
    BY <1>0, FS_EmptySet
  <2>2. b * 0 = 0
    OBVIOUS
  <2> QED
    BY <2>1, <2>2, SumEmpty
<1>2. ASSUME NEW n \in Nat, n \in Good PROVE n + 1 \in Good
  <2> SUFFICES ASSUME NEW s \in SUBSET S, Cardinality(s) = n + 1
               PROVE  SumFunctionOnSet(w, s) \in 0..(b * (n + 1))
    OBVIOUS
  <2>1. s # {}
    BY FS_EmptySet, n + 1 # 0
  <2>2. PICK e : e \in s
    BY <2>1
  <2>3. IsFiniteSet(s) /\ w[e] \in 0..b
    BY <1>0, <2>2
  <2>4. Cardinality(s \ {e}) = Cardinality(s) - 1
    BY <2>2, <2>3, FS_RemoveElement
  <2>5. s \ {e} \in SUBSET S /\ Cardinality(s \ {e}) = n
    BY <2>4
  <2>6. SumFunctionOnSet(w, s \ {e}) \in 0..(b * n)
    BY <1>2, <2>5
  <2>7. SumFunctionOnSet(w, s) = w[e] + SumFunctionOnSet(w, s \ {e})
    <3>1. \A x \in s : w[x] \in Int
      OBVIOUS
    <3> QED
      BY <2>2, <2>3, <3>1, SumRemove
  <2>8. b * (n + 1) = b * n + b /\ b * n \in Nat
    OBVIOUS
  <2> QED
    BY <2>3, <2>6, <2>7, <2>8
<1>3. \A n \in Nat : n \in Good
  <2> HIDE DEF Good
  <2> QED
    BY <1>1, <1>2, InductiveSet
<1> QED
  BY <1>0, <1>3

\* The elements of a set, counted class by class.
Class(L, c, i) == {p \in L : c[p] = i}
Under(L, c, n) == {p \in L : c[p] < n}
Smaller(I, n) == {i \in I : i < n}

\* What countPages() sums, the sizes of the classes below k, is how many
\* elements lie in them.
LEMMA CountByClass ==
  ASSUME NEW L, IsFiniteSet(L), NEW I, I \subseteq Nat, NEW c, \A p \in L : c[p] \in I,
         NEW w, \A i \in I : w[i] = Cardinality(Class(L, c, i)), NEW k \in Nat
  PROVE  SumFunctionOnSet(w, Smaller(I, k)) = Cardinality(Under(L, c, k))
<1> DEFINE Below(n) == {i \in I : i < n}
           Part(n) == {p \in L : c[p] < n}
           Good == {n \in Nat : SumFunctionOnSet(w, Below(n)) = Cardinality(Part(n))}
<1>0. \A i \in I : w[i] = Cardinality({p \in L : c[p] = i})
  BY DEF Class
<1>1. 0 \in Good
  <2>0. \A i \in I : ~(i < 0)
    OBVIOUS
  <2>1. Below(0) = {} /\ Part(0) = {}
    BY <2>0
  <2>2. SumFunctionOnSet(w, {}) = 0 /\ Cardinality({}) = 0
    BY SumEmpty, FS_EmptySet
  <2> QED
    BY <2>1, <2>2
<1>2. ASSUME NEW n \in Nat, n \in Good PROVE n + 1 \in Good
  <2>0. \A i \in I : i \in Nat /\ (i < n + 1 <=> (i < n \/ i = n)) /\ ~(i < n /\ i = n)
    <3>1. \A i \in Nat : (i < n + 1 <=> (i < n \/ i = n)) /\ ~(i < n /\ i = n)
      OBVIOUS
    <3> QED
      BY <3>1
  <2> DEFINE Here == {p \in L : c[p] = n}
  <2>1. IsFiniteSet(Part(n)) /\ IsFiniteSet(Here)
    BY FS_Subset
  <2>2. Part(n + 1) = Part(n) \cup Here /\ Part(n) \cap Here = {}
    <3>1. \A p \in L : (c[p] < n + 1 <=> (c[p] < n \/ c[p] = n)) /\ ~(c[p] < n /\ c[p] = n)
      BY <2>0
    <3> QED
      BY <3>1, Zenon
  <2>3. Cardinality(Part(n + 1)) = Cardinality(Part(n)) + Cardinality(Here)
    <3> HIDE DEF Part, Here
    <3>1. Cardinality(Part(n) \cup Here) = Cardinality(Part(n)) + Cardinality(Here) - Cardinality({})
      BY <2>1, <2>2, FS_Union
    <3>2. Cardinality(Part(n)) \in Nat /\ Cardinality(Here) \in Nat /\ Cardinality({}) = 0
      BY <2>1, FS_CardinalityType, FS_EmptySet
    <3>3. Cardinality(Part(n + 1)) = Cardinality(Part(n) \cup Here)
      BY <2>2, Zenon
    <3> HIDE <2>2
    <3> QED
      BY <3>1, <3>2, <3>3
  <2>4. CASE n \in I
    <3>1. Below(n + 1) = Below(n) \cup {n} /\ n \notin Below(n)
      BY <2>0, <2>4
    <3>2. IsFiniteSet(Below(n))
      <4>1. IsFiniteSet(0..n)
        BY FS_Interval
      <4>2. Below(n) \subseteq 0..n
        <5>1. \A i \in Nat : i < n => i \in 0..n
          OBVIOUS
        <5> QED
          BY <2>0, <5>1, Zenon
      <4> QED
        BY <4>1, <4>2, FS_Subset
    <3>3. \A i \in Below(n) \cup {n} : w[i] \in Int
      <4>1. \A i \in I : IsFiniteSet({p \in L : c[p] = i})
        BY FS_Subset
      <4>2. \A i \in I : w[i] \in Nat
        BY <1>0, <4>1, FS_CardinalityType
      <4> QED
        BY <1>0, <2>4, <4>2
    <3>4. w[n] = Cardinality(Here)
      BY <1>0, <2>4
    <3> HIDE DEF Below, Here
    <3>5. SumFunctionOnSet(w, Below(n + 1)) = w[n] + SumFunctionOnSet(w, Below(n))
      BY <3>1, <3>2, <3>3, SumAdd
    <3>6. SumFunctionOnSet(w, Below(n)) = Cardinality(Part(n))
      BY <1>2
    <3>7. Cardinality(Part(n)) \in Nat /\ Cardinality(Here) \in Nat
      BY <2>1, FS_CardinalityType
    <3>8. SumFunctionOnSet(w, Below(n + 1)) = Cardinality(Part(n + 1))
      BY <2>3, <3>4, <3>5, <3>6, <3>7
    <3>9. n + 1 \in Nat
      OBVIOUS
    <3> HIDE DEF Part
    <3> QED
      BY <3>8, <3>9
  <2>5. CASE n \notin I
    <3>1. Below(n + 1) = Below(n) /\ Here = {}
      BY <2>0, <2>5
    <3>2. Part(n + 1) = Part(n)
      <4> HIDE DEF Part, Here
      <4> QED
        BY <2>2, <3>1
    <3> QED
      BY <1>2, <3>1, <3>2
  <2> QED
    BY <2>4, <2>5
<1> HIDE DEF Good
<1>3. \A n \in Nat : n \in Good
  BY <1>1, <1>2, InductiveSet
<1>4. SumFunctionOnSet(w, Below(k)) = Cardinality(Part(k))
  BY <1>3 DEF Good
<1> QED
  BY <1>4 DEF Smaller, Under

-----------------------------------------------------------------------------
\* The device.
Clean(d) == ~d.dirty => d.buf = d.media[d.curr]

\* A page that was never written, or was torn.
LEMMA BlankIsPage == Blank \in AnyPage
<1>1. PICK n \in Nat : n = DataSize + 1
  BY SizesAssumption
<1>2. PICK data : data = Zeros(n)
  OBVIOUS
<1>3. data \in [1..n -> AnyByte]
  BY <1>2 DEF Zeros, AnyByte
<1>4. data \in Seq(AnyByte)
  BY <1>1, <1>3
<1>5. Blank = [fcs |-> FALSE, inode |-> 255, pgoff |-> 65535, seq |-> -1, data |-> data]
  BY <1>1, <1>2 DEF Blank
<1> QED
  BY <1>4, <1>5 DEF AnyPage

\* A device answers with pages.
LEMMA ViewType ==
  ASSUME NEW d \in AnyDevice
  PROVE  /\ View(d) \in [Pages -> AnyPage]
         /\ \A p \in Pages : View(d)[p] = BlockRead(d, p)
BY DEF View, BlockRead, AnyDevice

\* Without a dirty buffer a device answers what is on its medium.
LEMMA ViewClean ==
  ASSUME NEW d \in AnyDevice, Clean(d), ~d.dirty
  PROVE  View(d) = d.media
<1>1. d.media \in [Pages -> AnyPage] /\ d.buf = d.media[d.curr]
  BY DEF AnyDevice, Clean
<1>2. \A p \in Pages : View(d)[p] = d.media[p]
  BY <1>1 DEF View, BlockRead
<1> QED
  BY <1>1, <1>2 DEF View

\* The buffer written through.
LEMMA ViewFlushed ==
  ASSUME NEW d \in AnyDevice, Clean(d)
  PROVE  View(d) = [d.media EXCEPT ![d.curr] = d.buf]
<1>1. d.media \in [Pages -> AnyPage] /\ d.curr \in Pages
  BY DEF AnyDevice
<1>2. \A p \in Pages : View(d)[p] = [d.media EXCEPT ![d.curr] = d.buf][p]
  BY <1>1 DEF View, BlockRead
<1>3. View(d) = [p \in Pages |-> View(d)[p]]
  BY DEF View
<1> QED
  BY <1>1, <1>2, <1>3

\* kblock_flush() changes no answer.
LEMMA FlushDevice ==
  ASSUME NEW d \in AnyDevice, Clean(d)
  PROVE  LET e == BlockFlush(d) IN
         /\ e \in AnyDevice /\ ~e.dirty /\ Clean(e)
         /\ e.media = View(d) /\ View(e) = View(d)
         /\ e.curr = d.curr /\ e.buf = d.buf
<1> DEFINE e == BlockFlush(d)
<1>0. d.media \in [Pages -> AnyPage] /\ d.curr \in Pages /\ d.buf \in AnyPage /\ d.dirty \in BOOLEAN
  BY DEF AnyDevice
<1>1. /\ e.curr = d.curr /\ e.buf = d.buf /\ e.dirty = FALSE
      /\ e.media = View(d)
      /\ e = [media |-> View(d), buf |-> d.buf, curr |-> d.curr, dirty |-> FALSE]
  <2>1. CASE d.dirty
    <3>1. e = [d EXCEPT !.media[d.curr] = d.buf, !.dirty = FALSE]
      BY <2>1 DEF BlockFlush
    <3>2. /\ e.curr = d.curr /\ e.buf = d.buf /\ e.dirty = FALSE
          /\ e.media = [d.media EXCEPT ![d.curr] = d.buf]
      BY <3>1 DEF AnyDevice
    <3>3. e = [media |-> e.media, buf |-> e.buf, curr |-> e.curr, dirty |-> e.dirty]
      BY <3>1 DEF AnyDevice
    <3> QED
      BY <3>2, <3>3, ViewFlushed
  <2>2. CASE ~d.dirty
    <3>1. e = d
      BY <2>2 DEF BlockFlush
    <3>2. d.dirty = FALSE
      BY <1>0, <2>2
    <3>3. d = [media |-> d.media, buf |-> d.buf, curr |-> d.curr, dirty |-> d.dirty]
      BY DEF AnyDevice
    <3>4. View(d) = d.media
      BY <2>2, ViewClean
    <3> QED
      BY <3>1, <3>2, <3>3, <3>4
  <2> QED
    BY <2>1, <2>2
<1>2. View(d) \in [Pages -> AnyPage]
  BY ViewType
<1>3. e \in AnyDevice
  BY <1>0, <1>1, <1>2 DEF AnyDevice
<1>4. e.buf = e.media[e.curr]
  BY <1>0, <1>1 DEF View, BlockRead
<1>5. View(e) = View(d)
  <2> HIDE DEF e
  <2> QED
    BY <1>1, <1>3, <1>4, ViewClean DEF Clean
<1> QED
  BY <1>1, <1>3, <1>4, <1>5 DEF Clean

\* Loading a block that is not the one in the buffer, or a clean one.
LEMMA LoadDevice ==
  ASSUME NEW d \in AnyDevice, Clean(d), NEW idx \in Pages, ~(d.dirty /\ idx = d.curr)
  PROVE  LET e == LoadPage(d, idx) IN
         /\ e \in AnyDevice
         /\ e.media = View(d) /\ e.buf = View(d)[idx] /\ e.curr = idx /\ ~e.dirty
<1>0. d.dirty \in BOOLEAN
  BY DEF AnyDevice
<1>1. CASE idx = d.curr
  <2>1. ~d.dirty /\ View(d) = d.media
    BY <1>0, <1>1, ViewClean
  <2>2. d.buf = View(d)[idx]
    BY <1>1 DEF View, BlockRead
  <2> QED
    BY <1>1, <2>1, <2>2 DEF LoadPage
<1>2. CASE idx # d.curr
  <2>1. PICK e : e = BlockFlush(d)
    OBVIOUS
  <2>2. e \in AnyDevice /\ ~e.dirty /\ e.media = View(d)
    BY <2>1, FlushDevice
  <2>3. PICK f : f = [e EXCEPT !.buf = e.media[idx], !.curr = idx]
    OBVIOUS
  <2>4. LoadPage(d, idx) = f
    BY <1>2, <2>1, <2>3 DEF LoadPage
  <2>5. f.media = e.media /\ f.buf = e.media[idx] /\ f.curr = idx /\ f.dirty = e.dirty
    BY <2>2, <2>3 DEF AnyDevice
  <2>6. f \in AnyDevice
    BY <2>2, <2>3 DEF AnyDevice
  <2> QED
    BY <2>2, <2>4, <2>5, <2>6
<1> QED
  BY <1>1, <1>2

\* A device after a page went to a new place.
Put(m, p, page) == [m EXCEPT ![p] = page]

Stored(d, e, new, page) ==
  /\ e \in AnyDevice /\ e.dirty /\ e.curr = new /\ e.media = View(d)
  /\ View(e) = Put(View(d), new, page)

\* A buffer changed after the medium was brought up to date.
LEMMA StoredView ==
  ASSUME NEW d \in AnyDevice, NEW new \in Pages, NEW page \in AnyPage,
         NEW c \in AnyDevice, c.media = View(d), c.curr = new,
         NEW e, e = [c EXCEPT !.buf = page, !.dirty = TRUE]
  PROVE  Stored(d, e, new, page)
<1>1. View(d) \in [Pages -> AnyPage]
  BY ViewType
<1>2. e \in AnyDevice
  BY DEF AnyDevice
<1>3. e.buf = page /\ e.curr = new /\ e.media = View(d) /\ e.dirty
  BY DEF AnyDevice
<1>4. \A p \in Pages : View(e)[p] = [View(d) EXCEPT ![new] = page][p]
  BY <1>1, <1>3 DEF View, BlockRead
<1>5. View(e) = [p \in Pages |-> View(e)[p]]
  BY DEF View
<1>6. View(e) = Put(View(d), new, page)
  BY <1>1, <1>4, <1>5 DEF Put
<1> QED
  BY <1>2, <1>3, <1>6 DEF Stored

\* kblock_write() to another block than that of a dirty buffer.
LEMMA WriteDevice ==
  ASSUME NEW d \in AnyDevice, Clean(d), NEW new \in Pages, ~(d.dirty /\ new = d.curr),
         NEW page \in AnyPage
  PROVE  Stored(d, BlockWrite(d, new, page), new, page)
<1>1. PICK c : c = LoadPage(d, new)
  OBVIOUS
<1>2. c \in AnyDevice /\ c.media = View(d) /\ c.curr = new
  BY <1>1, LoadDevice
<1>3. PICK e : e = [c EXCEPT !.buf = page, !.dirty = TRUE]
  OBVIOUS
<1>4. BlockWrite(d, new, page) = e
  BY <1>1, <1>3 DEF BlockWrite
<1> QED
  BY <1>2, <1>3, <1>4, StoredView

\* kblock_copy() and kblock_write(), as for a page that moves.
LEMMA CopyDevice ==
  ASSUME NEW d \in AnyDevice, Clean(d), NEW old \in Pages, ~(d.dirty /\ old = d.curr),
         NEW new \in Pages, NEW page \in AnyPage
  PROVE  Stored(d, BlockWrite(BlockCopy(d, old, new), new, page), new, page)
<1>1. PICK b : b = LoadPage(d, old)
  OBVIOUS
<1>2. b \in AnyDevice /\ b.media = View(d)
  BY <1>1, LoadDevice
<1>3. PICK c : c = [b EXCEPT !.curr = new, !.dirty = TRUE]
  OBVIOUS
<1>4. c \in AnyDevice /\ c.media = View(d) /\ c.curr = new
  BY <1>2, <1>3 DEF AnyDevice
<1>5. BlockCopy(d, old, new) = c
  BY <1>1, <1>3 DEF BlockCopy
<1>6. PICK e : e = [c EXCEPT !.buf = page, !.dirty = TRUE]
  OBVIOUS
<1>7. BlockWrite(c, new, page) = e
  BY <1>4, <1>6 DEF BlockWrite, LoadPage
<1> QED
  BY <1>4, <1>5, <1>6, <1>7, StoredView

\* kblock_write() to the block that a dirty buffer stands for.
LEMMA InPlaceDevice ==
  ASSUME NEW d \in AnyDevice, d.dirty, NEW page \in AnyPage
  PROVE  LET e == BlockWrite(d, d.curr, page) IN
         /\ e \in AnyDevice /\ e.dirty /\ e.curr = d.curr /\ e.media = d.media
         /\ View(e) = Put(View(d), d.curr, page)
<1> DEFINE e == BlockWrite(d, d.curr, page)
<1>1. e = [d EXCEPT !.buf = page, !.dirty = TRUE]
  BY DEF BlockWrite, LoadPage
<1>2. e = [media |-> d.media, buf |-> page, curr |-> d.curr, dirty |-> TRUE]
  BY <1>1 DEF AnyDevice
<1>3. e \in AnyDevice
  BY <1>2 DEF AnyDevice
<1>4. d.curr \in Pages /\ View(d) \in [Pages -> AnyPage]
  BY ViewType DEF AnyDevice
<1>5. \A p \in Pages : View(e)[p] = [View(d) EXCEPT ![d.curr] = page][p]
  BY <1>2, <1>4 DEF View, BlockRead
<1>6. View(e) = [p \in Pages |-> View(e)[p]]
  BY DEF View
<1>7. View(e) = Put(View(d), d.curr, page)
  BY <1>4, <1>5, <1>6 DEF Put
<1> QED
  BY <1>2, <1>3, <1>7

\* A power cut leaves the medium, or tears the block that was being stored.
LEMMA CutDevice ==
  ASSUME NEW d \in AnyDevice, NEW e \in PowerLost(d, Blank)
  PROVE  /\ e \in AnyDevice /\ ~e.dirty /\ Clean(e)
         /\ \/ e.media = d.media
            \/ d.dirty /\ e.media = [d.media EXCEPT ![d.curr] = Blank]
<1>1. 0 \in Pages
  BY SizesAssumption DEF Pages
<1>2. \A m \in [Pages -> AnyPage] :
        PowerUp(m) \in AnyDevice /\ ~PowerUp(m).dirty /\ Clean(PowerUp(m)) /\ PowerUp(m).media = m
  BY <1>1 DEF PowerUp, AnyDevice, Clean
<1>3. d.media \in [Pages -> AnyPage] /\ d.curr \in Pages
  BY DEF AnyDevice
<1>4. [d.media EXCEPT ![d.curr] = Blank] \in [Pages -> AnyPage]
  BY <1>3, BlankIsPage
<1>5. \/ e = PowerUp(d.media)
      \/ d.dirty /\ e = PowerUp([d.media EXCEPT ![d.curr] = Blank])
  BY DEF PowerLost
<1> QED
  BY <1>2, <1>3, <1>4, <1>5

-----------------------------------------------------------------------------
\* Arrays.
LEMMA UsedFacts ==
  ASSUME NEW u \in 0..PageCnt
  PROVE  /\ Used(u) \subseteq Pages /\ IsFiniteSet(Pages) /\ IsFiniteSet(Used(u))
         /\ \A k \in Used(u) : k \in Nat /\ k < u /\ k < PageCnt
         /\ \A k \in Nat : k < u => k \in Used(u)
         /\ PageCnt \in Nat /\ PageCnt > 0 /\ DataSize \in Nat /\ DataSize > 0
         /\ \A k : k \in Pages <=> k \in Nat /\ k < PageCnt
<1>1. PageCnt \in Nat /\ PageCnt > 0 /\ DataSize \in Nat /\ DataSize > 0
  BY SizesAssumption
<1>2. \A k : k \in Pages <=> k \in Nat /\ k < PageCnt
  BY <1>1 DEF Pages
<1>3. Used(u) \subseteq Pages
  BY DEF Used
<1>4. IsFiniteSet(Pages)
  BY <1>1, FS_Interval DEF Pages
<1>5. IsFiniteSet(Used(u))
  BY <1>3, <1>4, FS_Subset
<1> QED
  BY <1>1, <1>2, <1>3, <1>4, <1>5 DEF Used

\* The fields of a page.
LEMMA PageFields ==
  ASSUME NEW g \in AnyPage
  PROVE  /\ g.fcs \in BOOLEAN /\ g.inode \in Nat /\ g.pgoff \in Nat /\ g.seq \in Int
         /\ g.data \in Seq(AnyByte) /\ Len(g.data) \in Nat
         /\ g.fcs => g.seq \in Nat /\ Len(g.data) <= DataSize
BY DEF AnyPage

\* Every right page has its chosen copy among the used ones.
LEMMA CopyUsed ==
  ASSUME NEW h, NEW u, ArrayOK(h, u), NEW k \in Pages, h[k].fcs
  PROVE  \E j \in Used(u) : SamePage(h[k], h[j]) /\ (j = k \/ h[k].seq < h[j].seq)
<1>1. k \in Nat /\ u \in Nat
  BY UsedFacts DEF ArrayOK
<1>2. CASE k < u
  BY <1>2 DEF SamePage, Used
<1>3. CASE k >= u
  BY <1>3 DEF ArrayOK, Superseded
<1> QED
  BY <1>1, <1>2, <1>3

\* Used pages are different pages of files.
LEMMA UsedDiffer ==
  ASSUME NEW h, NEW u, ArrayOK(h, u), NEW j \in Used(u), NEW k \in Used(u), SamePage(h[j], h[k])
  PROVE  j = k
<1>1. j \in Nat /\ k \in Nat
  BY UsedFacts DEF ArrayOK
<1>2. h[j] \in AnyPage /\ h[k] \in AnyPage
  BY UsedFacts DEF ArrayOK
<1>3. ~Before(h[j], h[k]) /\ ~Before(h[k], h[j])
  BY <1>2, PageFields DEF Before, SamePage
<1>4. ~(j < k) /\ ~(k < j)
  BY <1>3 DEF ArrayOK, Ordered
<1> QED
  BY <1>1, <1>4

\* The used pages are those that a mount would choose.
LEMMA ChosenUsed ==
  ASSUME NEW h, NEW u, ArrayOK(h, u), NEW k \in Pages
  PROVE  Chosen(h, k) <=> k \in Used(u)
<1>0. \A j \in Pages : h[j] \in AnyPage /\ h[j].seq \in Int
  BY PageFields DEF ArrayOK
<1>1. ASSUME k \in Used(u) PROVE Chosen(h, k)
  <2>1. h[k].fcs
    BY <1>1 DEF ArrayOK, Ordered
  <2>2. ASSUME NEW q \in Pages, h[q].fcs, SamePage(h[q], h[k]) PROVE h[q].seq <= h[k].seq
    <3>1. PICK j \in Used(u) : SamePage(h[q], h[j]) /\ (j = q \/ h[q].seq < h[j].seq)
      BY <2>2, CopyUsed
    <3>2. SamePage(h[j], h[k])
      BY <2>2, <3>1 DEF SamePage
    <3>3. j = k
      BY <1>1, <3>1, <3>2, UsedDiffer
    <3> QED
      BY <1>0, <3>1, <3>3
  <2> QED
    BY <2>1, <2>2 DEF Chosen, SamePage
<1>2. ASSUME Chosen(h, k) PROVE k \in Used(u)
  <2>1. h[k].fcs
    BY <1>2 DEF Chosen
  <2>2. PICK j \in Used(u) : SamePage(h[k], h[j]) /\ (j = k \/ h[k].seq < h[j].seq)
    BY <2>1, CopyUsed
  <2>3. j \in Pages /\ h[j].fcs
    BY <2>2, UsedFacts DEF ArrayOK, Ordered
  <2>4. h[j].seq <= h[k].seq
    BY <1>2, <2>2, <2>3 DEF Chosen, SamePage
  <2> QED
    BY <1>0, <2>2, <2>3, <2>4
<1> QED
  BY <1>1, <1>2

\* A page is preceded by the others of its file.
LEMMA Predecessors ==
  ASSUME NEW h, NEW u, ArrayOK(h, u), NEW k \in Used(u)
  PROVE  \A d \in Nat : d <= h[k].pgoff =>
           /\ d <= k /\ k - d \in Used(u)
           /\ h[k - d].inode = h[k].inode /\ h[k - d].pgoff = h[k].pgoff - d
<1> DEFINE Good == {d \in Nat : d <= h[k].pgoff =>
                      /\ d <= k /\ k - d \in Used(u)
                      /\ h[k - d].inode = h[k].inode /\ h[k - d].pgoff = h[k].pgoff - d}
<1>0. /\ u \in 0..PageCnt /\ k \in Nat /\ k < u
      /\ \A j \in Used(u) : j \in Nat /\ h[j].pgoff \in Nat
  BY UsedFacts, PageFields DEF ArrayOK
<1>1. 0 \in Good
  BY <1>0
<1>2. ASSUME NEW d \in Nat, d \in Good PROVE d + 1 \in Good
  <2> SUFFICES ASSUME d + 1 <= h[k].pgoff
               PROVE  /\ d + 1 <= k /\ k - (d + 1) \in Used(u)
                      /\ h[k - (d + 1)].inode = h[k].inode
                      /\ h[k - (d + 1)].pgoff = h[k].pgoff - (d + 1)
    OBVIOUS
  <2>1. /\ d <= k /\ k - d \in Used(u)
        /\ h[k - d].inode = h[k].inode /\ h[k - d].pgoff = h[k].pgoff - d
    BY <1>0, <1>2
  <2>2. h[k - d].pgoff > 0
    BY <1>0, <2>1
  <2>3. k - d > 0 /\ h[(k - d) - 1].inode = h[k - d].inode
        /\ h[k - d].pgoff = h[(k - d) - 1].pgoff + 1
    BY <2>1, <2>2 DEF ArrayOK, Linked
  <2>4. (k - d) - 1 = k - (d + 1) /\ d + 1 <= k
    BY <1>0, <2>1, <2>3
  <2>5. k - (d + 1) \in Used(u)
    BY <1>0, <2>4, UsedFacts
  <2>6. h[k - (d + 1)].pgoff = h[k].pgoff - (d + 1)
    <3>1. h[k - (d + 1)].pgoff \in Nat /\ h[k - d].pgoff = h[k - (d + 1)].pgoff + 1
      BY <1>0, <2>3, <2>4, <2>5
    <3> QED
      BY <1>0, <2>1, <3>1
  <2> QED
    BY <2>1, <2>3, <2>4, <2>5, <2>6
<1> HIDE DEF Good
<1>3. \A d \in Nat : d \in Good
  BY <1>1, <1>2, InductiveSet
<1> QED
  BY <1>3 DEF Good

\* A memory whose used pages are full and not empty can be mounted.
LEMMA ArrayWhole ==
  ASSUME NEW h, NEW u, ArrayOK(h, u), \A k \in Used(u) : h[k].pgoff > 0 => h[k].data # <<>>
  PROVE  Distinct(h) /\ Whole(h)
<1>0. /\ u \in 0..PageCnt
      /\ \A j \in Pages : h[j].pgoff \in Nat
      /\ Used(u) \subseteq Pages
      /\ \A j \in Used(u) : h[j].fcs
  BY UsedFacts, PageFields DEF ArrayOK, Ordered
<1>1. ASSUME NEW p \in Pages, h[p].fcs, NEW off \in Nat, off < h[p].pgoff
      PROVE  \E q \in Pages : h[q].fcs /\ h[q].inode = h[p].inode /\ h[q].pgoff = off
  <2>1. PICK k \in Used(u) : SamePage(h[p], h[k])
    BY <1>1, CopyUsed
  <2> DEFINE d == h[k].pgoff - off
  <2>2. d \in Nat /\ d <= h[k].pgoff /\ h[k].pgoff - d = off
    BY <1>0, <1>1, <2>1 DEF SamePage
  <2>3. k - d \in Used(u) /\ h[k - d].inode = h[k].inode /\ h[k - d].pgoff = off
    <3> HIDE DEF d
    <3> QED
      BY <2>2, Predecessors
  <2>4. h[k - d].fcs
    BY <1>0, <2>3
  <2> QED
    BY <1>0, <2>1, <2>3, <2>4 DEF SamePage
<1>2. ASSUME NEW p \in Pages, NEW q \in Pages, Chosen(h, p), Chosen(h, q),
             h[q].inode = h[p].inode, h[q].pgoff = h[p].pgoff + 1
      PROVE  Len(h[p].data) = DataSize /\ h[q].data # <<>>
  <2>1. p \in Used(u) /\ q \in Used(u)
    BY <1>2, ChosenUsed
  <2>2. h[q].pgoff > 0
    BY <1>0, <1>2
  <2>3. /\ q > 0 /\ h[q - 1].inode = h[q].inode /\ h[q].pgoff = h[q - 1].pgoff + 1
        /\ Len(h[q - 1].data) = DataSize
    BY <2>1, <2>2 DEF ArrayOK, Linked
  <2>4. q - 1 \in Used(u)
    BY <1>0, <2>1, <2>3, UsedFacts
  <2>5. SamePage(h[q - 1], h[p])
    BY <1>0, <1>2, <2>3, <2>4 DEF SamePage
  <2>6. q - 1 = p
    BY <2>1, <2>4, <2>5, UsedDiffer
  <2> QED
    BY <2>1, <2>2, <2>3, <2>6
<1> QED
  BY <1>1, <1>2 DEF Whole, ArrayOK

\* What is said of a memory does not depend on the order of its pages.
LEMMA Reorder ==
  ASSUME NEW m \in [Pages -> AnyPage], NEW a, Listed(a), NEW h, h = InOrder(m, a)
  PROVE  /\ h \in [Pages -> AnyPage]
         /\ \A k \in Pages : h[k] = m[a[k]] /\ (Chosen(h, k) <=> Chosen(m, a[k]))
         /\ Distinct(h) <=> Distinct(m)
         /\ Whole(h) => Whole(m)
<1>1. /\ a \in [Pages -> Pages]
      /\ \A p \in Pages : \E k \in Pages : a[k] = p
      /\ \A j, k \in Pages : a[j] = a[k] => j = k
  BY DEF Listed
<1>2. h \in [Pages -> AnyPage] /\ \A k \in Pages : h[k] = m[a[k]]
  BY <1>1 DEF InOrder
<1>3. ASSUME NEW k \in Pages PROVE Chosen(h, k) <=> Chosen(m, a[k])
  <2>1. ASSUME Chosen(h, k) PROVE Chosen(m, a[k])
    BY <1>1, <1>2, <2>1 DEF Chosen
  <2>2. ASSUME Chosen(m, a[k]) PROVE Chosen(h, k)
    <3>1. h[k].fcs
      BY <1>2, <2>2 DEF Chosen
    <3>2. ASSUME NEW q \in Pages, h[q].fcs, h[q].inode = h[k].inode, h[q].pgoff = h[k].pgoff
          PROVE  h[q].seq <= h[k].seq
      <4>1. a[q] \in Pages /\ h[q] = m[a[q]] /\ h[k] = m[a[k]]
        BY <1>1, <1>2
      <4> QED
        BY <2>2, <3>2, <4>1 DEF Chosen
    <3> QED
      BY <3>1, <3>2 DEF Chosen
  <2> QED
    BY <2>1, <2>2
<1>4. ASSUME Distinct(h) PROVE Distinct(m)
  <2>1. ASSUME NEW p \in Pages, m[p].fcs PROVE m[p].inode \in Inodes
    BY <1>1, <1>2, <1>4, <2>1 DEF Distinct
  <2>2. ASSUME NEW p \in Pages, NEW q \in Pages, p # q, m[p].fcs, m[q].fcs, SamePage(m[p], m[q])
        PROVE  m[p].seq # m[q].seq
    <3>1. PICK j \in Pages : a[j] = p
      BY <1>1
    <3>2. PICK k \in Pages : a[k] = q
      BY <1>1
    <3>3. j # k /\ h[j] = m[p] /\ h[k] = m[q]
      BY <1>2, <2>2, <3>1, <3>2
    <3> QED
      BY <1>4, <2>2, <3>3 DEF Distinct
  <2> QED
    BY <2>1, <2>2 DEF Distinct
<1>5. ASSUME Distinct(m) PROVE Distinct(h)
  <2>1. ASSUME NEW j \in Pages, h[j].fcs PROVE h[j].inode \in Inodes
    BY <1>1, <1>2, <1>5, <2>1 DEF Distinct
  <2>2. ASSUME NEW j \in Pages, NEW k \in Pages, j # k, h[j].fcs, h[k].fcs, SamePage(h[j], h[k])
        PROVE  h[j].seq # h[k].seq
    <3>1. a[j] \in Pages /\ a[k] \in Pages /\ a[j] # a[k] /\ h[j] = m[a[j]] /\ h[k] = m[a[k]]
      BY <1>1, <1>2, <2>2
    <3> QED
      BY <1>5, <2>2, <3>1 DEF Distinct
  <2> QED
    BY <2>1, <2>2 DEF Distinct
<1>6. ASSUME Whole(h) PROVE Whole(m)
  <2>1. ASSUME NEW p \in Pages, m[p].fcs, NEW off \in Nat, off < m[p].pgoff
        PROVE  \E q \in Pages : m[q].fcs /\ m[q].inode = m[p].inode /\ m[q].pgoff = off
    <3>1. PICK j \in Pages : a[j] = p
      BY <1>1
    <3>2. PICK k \in Pages : h[k].fcs /\ h[k].inode = h[j].inode /\ h[k].pgoff = off
      BY <1>2, <1>6, <2>1, <3>1 DEF Whole
    <3>3. a[k] \in Pages /\ h[k] = m[a[k]] /\ h[j] = m[p]
      BY <1>1, <1>2, <3>1
    <3> QED
      BY <3>2, <3>3
  <2>2. ASSUME NEW p \in Pages, NEW q \in Pages, Chosen(m, p), Chosen(m, q),
               m[q].inode = m[p].inode, m[q].pgoff = m[p].pgoff + 1
        PROVE  Len(m[p].data) = DataSize /\ m[q].data # <<>>
    <3>1. PICK j \in Pages : a[j] = p
      BY <1>1
    <3>2. PICK k \in Pages : a[k] = q
      BY <1>1
    <3>3. h[j] = m[p] /\ h[k] = m[q] /\ Chosen(h, j) /\ Chosen(h, k)
      BY <1>2, <1>3, <2>2, <3>1, <3>2
    <3> QED
      BY <1>6, <2>2, <3>3 DEF Whole
  <2> QED
    BY <2>1, <2>2 DEF Whole
<1> QED
  BY <1>2, <1>3, <1>4, <1>5, <1>6

\* Losing a page that would not be chosen does no harm.
LEMMA LoseOld ==
  ASSUME NEW m \in [Pages -> AnyPage], Distinct(m), Whole(m), NEW c \in Pages, ~Chosen(m, c),
         NEW e, e = [m EXCEPT ![c] = Blank]
  PROVE  Distinct(e) /\ Whole(e)
<1>0. /\ \A p \in Pages : m[p].seq \in Int
      /\ \A p \in Pages : p # c => e[p] = m[p]
      /\ ~e[c].fcs
  BY PageFields DEF Blank
<1>1. Distinct(e)
  BY <1>0 DEF Distinct
<1>2. ASSUME NEW p \in Pages, Chosen(e, p) PROVE p # c /\ Chosen(m, p)
  <2>1. p # c /\ m[p].fcs
    BY <1>0, <1>2 DEF Chosen
  <2>2. ASSUME NEW q \in Pages, m[q].fcs, m[q].inode = m[p].inode, m[q].pgoff = m[p].pgoff
        PROVE  m[q].seq <= m[p].seq
    <3>1. CASE q # c
      BY <1>0, <1>2, <2>1, <2>2, <3>1 DEF Chosen
    <3>2. CASE q = c
      <4>1. PICK r \in Pages : /\ m[r].fcs /\ m[r].inode = m[c].inode /\ m[r].pgoff = m[c].pgoff
                               /\ ~(m[r].seq <= m[c].seq)
        BY <2>2, <3>2 DEF Chosen
      <4>2. r # c
        BY <1>0, <4>1
      <4>3. m[r].seq <= m[p].seq
        BY <1>0, <1>2, <2>1, <2>2, <3>2, <4>1, <4>2 DEF Chosen
      <4> QED
        BY <1>0, <3>2, <4>1, <4>3
    <3> QED
      BY <3>1, <3>2
  <2> QED
    BY <2>1, <2>2 DEF Chosen
<1>3. ASSUME NEW p \in Pages, e[p].fcs, NEW off \in Nat, off < e[p].pgoff
      PROVE  \E q \in Pages : e[q].fcs /\ e[q].inode = e[p].inode /\ e[q].pgoff = off
  <2>1. p # c /\ e[p] = m[p]
    BY <1>0, <1>3
  <2>2. PICK q \in Pages : m[q].fcs /\ m[q].inode = m[p].inode /\ m[q].pgoff = off
    BY <1>3, <2>1 DEF Whole
  <2>3. CASE q # c
    BY <1>0, <2>1, <2>2, <2>3
  <2>4. CASE q = c
    <3>1. PICK r \in Pages : /\ m[r].fcs /\ m[r].inode = m[c].inode /\ m[r].pgoff = m[c].pgoff
                             /\ ~(m[r].seq <= m[c].seq)
      BY <2>2, <2>4 DEF Chosen
    <3>2. r # c
      BY <1>0, <3>1
    <3> QED
      BY <1>0, <2>1, <2>2, <2>4, <3>1, <3>2
  <2> QED
    BY <2>3, <2>4
<1>4. ASSUME NEW p \in Pages, NEW q \in Pages, Chosen(e, p), Chosen(e, q),
             e[q].inode = e[p].inode, e[q].pgoff = e[p].pgoff + 1
      PROVE  Len(e[p].data) = DataSize /\ e[q].data # <<>>
  BY <1>0, <1>2, <1>4 DEF Whole
<1>5. Whole(e)
  BY <1>3, <1>4 DEF Whole
<1> QED
  BY <1>1, <1>5

-----------------------------------------------------------------------------
\* A page goes to the first free page, which is put in the array at pos.
Inserted(a, u, pos) ==
  [k \in Pages |-> IF k = pos THEN a[u] ELSE IF pos < k /\ k <= u THEN a[k - 1] ELSE a[k]]

\* The order after an insertion.
InsertedPage(h, u, pos, page, g) ==
  /\ g \in [Pages -> AnyPage] /\ g[pos] = page
  /\ \A k \in Pages : k < pos => g[k] = h[k]
  /\ \A k \in Pages : pos < k /\ k <= u => g[k] = h[k - 1]
  /\ \A k \in Pages : u < k => g[k] = h[k]

\* allocateNewPage() and the write of the page: the array lists every page
\* once, and the pages are those it had and the new one at pos.
LEMMA InsertListed ==
  ASSUME NEW a, Listed(a), NEW u \in 0..PageCnt, u < PageCnt, NEW pos \in 0..u,
         NEW m \in [Pages -> AnyPage], NEW page \in AnyPage,
         NEW b, b = Inserted(a, u, pos), NEW e, e = Put(m, a[u], page),
         NEW h, h = InOrder(m, a), NEW g, g = InOrder(e, b)
  PROVE  Listed(b) /\ b[pos] = a[u] /\ InsertedPage(h, u, pos, page, g)
<1>0. /\ PageCnt \in Nat /\ u \in Nat /\ pos \in Nat /\ pos <= u
      /\ \A k : k \in Pages <=> k \in Nat /\ k < PageCnt
  BY UsedFacts
<1>1. /\ a \in [Pages -> Pages]
      /\ \A p \in Pages : \E k \in Pages : a[k] = p
      /\ \A j, k \in Pages : a[j] = a[k] => j = k
  BY DEF Listed
<1>2. u \in Pages /\ pos \in Pages /\ a[u] \in Pages
  <2>1. u \in Pages /\ pos \in Pages
    BY <1>0
  <2> QED
    BY <1>1, <2>1
<1>3. /\ b[pos] = a[u]
      /\ \A k \in Pages : k < pos => b[k] = a[k]
      /\ \A k \in Pages : pos < k /\ k <= u => b[k] = a[k - 1] /\ k - 1 \in Pages /\ k - 1 < u
      /\ \A k \in Pages : u < k => b[k] = a[k]
      /\ DOMAIN b = Pages
  BY <1>0, <1>2 DEF Inserted
<1>4. \A k \in Pages : k < pos \/ k = pos \/ (pos < k /\ k <= u) \/ u < k
  BY <1>0
<1>5. b \in [Pages -> Pages]
  <2>1. b = [k \in Pages |-> b[k]]
    BY DEF Inserted
  <2>a. \A k \in Pages : a[k] \in Pages
    BY <1>1
  <2>2. ASSUME NEW k \in Pages PROVE b[k] \in Pages
    BY <1>2, <1>3, <1>4, <2>a
  <2> QED
    BY <2>1, <2>2
<1>6. ASSUME NEW p \in Pages PROVE \E k \in Pages : b[k] = p
  <2>1. PICK j \in Pages : a[j] = p
    BY <1>1
  <2>2. CASE j < pos \/ u < j
    BY <1>3, <2>1, <2>2
  <2>3. CASE j = u
    BY <1>2, <1>3, <2>1, <2>3
  <2>4. CASE pos <= j /\ j < u
    <3>1. j + 1 \in Pages /\ pos < j + 1 /\ j + 1 <= u /\ (j + 1) - 1 = j
      BY <1>0, <2>4
    <3> QED
      BY <1>3, <2>1, <3>1
  <2> QED
    BY <1>0, <2>2, <2>3, <2>4
<1>7. ASSUME NEW j \in Pages, NEW k \in Pages, b[j] = b[k] PROVE j = k
  <2> DEFINE from(i) == IF i < pos \/ u < i THEN i ELSE IF i = pos THEN u ELSE i - 1
  <2>1. \A i \in Pages : from(i) \in Pages /\ b[i] = a[from(i)]
    BY <1>0, <1>2, <1>3, <1>4
  <2>2. from(j) = from(k)
    <3> HIDE DEF from
    <3> QED
      BY <1>1, <1>7, <2>1
  <2> QED
    BY <1>0, <2>2
<1>8. e \in [Pages -> AnyPage] /\ e[a[u]] = page /\ \A p \in Pages : p # a[u] => e[p] = m[p]
  BY <1>2 DEF Put
<1>9. \A k \in Pages : g[k] = e[b[k]] /\ h[k] = m[a[k]] /\ a[k] \in Pages
  BY <1>1 DEF InOrder
<1>10. g \in [Pages -> AnyPage]
  BY <1>5, <1>8 DEF InOrder
<1>11. ASSUME NEW k \in Pages, k < pos PROVE g[k] = h[k]
  <2>1. a[k] # a[u]
    BY <1>0, <1>1, <1>2, <1>11
  <2> QED
    <3>1. a[k] \in Pages /\ b[k] = a[k] /\ g[k] = e[b[k]] /\ h[k] = m[a[k]]
      BY <1>3, <1>9, <1>11
    <3>2. e[a[k]] = m[a[k]]
      BY <1>8, <2>1, <3>1
    <3> QED
      BY <3>1, <3>2
<1>12. ASSUME NEW k \in Pages, pos < k, k <= u PROVE g[k] = h[k - 1]
  <2>1. b[k] = a[k - 1] /\ k - 1 \in Pages /\ k - 1 # u
    BY <1>0, <1>3, <1>12
  <2>2. a[k - 1] # a[u]
    BY <1>1, <1>2, <2>1
  <2> QED
    <3>1. a[k - 1] \in Pages /\ b[k] = a[k - 1] /\ g[k] = e[b[k]] /\ h[k - 1] = m[a[k - 1]]
      BY <1>9, <2>1
    <3>2. e[a[k - 1]] = m[a[k - 1]]
      BY <1>8, <2>2, <3>1
    <3> QED
      BY <3>1, <3>2
<1>13. ASSUME NEW k \in Pages, u < k PROVE g[k] = h[k]
  <2>1. a[k] # a[u]
    BY <1>0, <1>1, <1>2, <1>13
  <2> QED
    <3>1. a[k] \in Pages /\ b[k] = a[k] /\ g[k] = e[b[k]] /\ h[k] = m[a[k]]
      BY <1>3, <1>9, <1>13
    <3>2. e[a[k]] = m[a[k]]
      BY <1>8, <2>1, <3>1
    <3> QED
      BY <3>1, <3>2
<1>14. g[pos] = page
  BY <1>2, <1>3, <1>8, <1>9
<1>15. InsertedPage(h, u, pos, page, g)
  BY <1>10, <1>11, <1>12, <1>13, <1>14 DEF InsertedPage
<1> QED
  BY <1>3, <1>5, <1>6, <1>7, <1>15 DEF Listed

Fits(h, u, pos, page) ==
  /\ page.fcs /\ page.inode \in Inodes
  /\ \A k \in Used(u) : k < pos => Before(h[k], page)
  /\ \A k \in Used(u) : k >= pos => Before(page, h[k])
  /\ page.pgoff > 0 =>
       /\ pos > 0
       /\ h[pos - 1].inode = page.inode
       /\ page.pgoff = h[pos - 1].pgoff + 1
       /\ Len(h[pos - 1].data) = DataSize
  /\ pos < u => h[pos].pgoff = 0

\* A new page stands among the others as no copy of one.
LEMMA FitsNew ==
  ASSUME NEW h, NEW u, ArrayOK(h, u), NEW pos, NEW page \in AnyPage, Fits(h, u, pos, page),
         pos \in Nat, NEW k \in Pages, h[k].fcs
  PROVE  ~SamePage(h[k], page)
<1>1. PICK j \in Used(u) : SamePage(h[k], h[j])
  BY CopyUsed
<1>2. j \in Nat /\ h[j] \in AnyPage /\ h[k] \in AnyPage
  BY UsedFacts DEF ArrayOK
<1>3. Before(h[j], page) \/ Before(page, h[j])
  BY <1>2 DEF Fits
<1>4. ~SamePage(h[j], page)
  BY <1>2, <1>3, PageFields DEF Before, SamePage
<1> QED
  BY <1>1, <1>4 DEF SamePage

\* They are still in order.
LEMMA InsertArray ==
  ASSUME NEW h, NEW u, ArrayOK(h, u), u < PageCnt, NEW pos \in 0..u, NEW page \in AnyPage,
         Fits(h, u, pos, page), NEW g, InsertedPage(h, u, pos, page, g)
  PROVE  ArrayOK(g, u + 1)
<1>0. /\ u \in 0..PageCnt /\ u + 1 \in 0..PageCnt /\ u \in Nat /\ PageCnt \in Nat
      /\ pos \in Nat /\ pos <= u /\ pos \in Pages
  <2>1. u \in 0..PageCnt /\ PageCnt \in Nat
    BY UsedFacts DEF ArrayOK
  <2> QED
    BY <2>1 DEF Pages
<1>1. /\ \A k : k \in Pages <=> k \in Nat /\ k < PageCnt
      /\ \A k \in Used(u) : k \in Nat /\ k < u /\ k \in Pages
      /\ \A k \in Used(u + 1) : k \in Nat /\ k <= u /\ k \in Pages
      /\ \A k \in Nat : k < u => k \in Used(u)
      /\ \A k \in Nat : k <= u => k \in Used(u + 1)
  BY <1>0, UsedFacts
<1>2. \A k \in Pages : h[k] \in AnyPage
  BY DEF ArrayOK
<1>3. g \in [Pages -> AnyPage]
  BY DEF InsertedPage
\* Where the pages have been.
<1>4. /\ g[pos] = page
      /\ \A k \in Used(u + 1) : k < pos => g[k] = h[k] /\ k \in Used(u)
      /\ \A k \in Used(u + 1) : pos < k => g[k] = h[k - 1] /\ k - 1 \in Used(u)
      /\ \A k \in Pages : k >= u + 1 => g[k] = h[k]
  BY <1>0, <1>1 DEF InsertedPage
<1>5. Distinct(g)
  <2> DEFINE from(k) == IF k < pos \/ u < k THEN k ELSE k - 1
  <2>1. \A k \in Pages : k # pos => from(k) \in Pages /\ g[k] = h[from(k)]
    BY <1>0, <1>1 DEF InsertedPage
  <2>2. \A j, k \in Pages : j # pos /\ k # pos /\ j # k => from(j) # from(k)
    BY <1>0, <1>1
  <2>3. page.inode \in Inodes /\ \A k \in Pages : h[k].fcs => ~SamePage(h[k], page)
    BY <1>0, FitsNew DEF Fits
  <2> HIDE DEF from
  <2>4. ASSUME NEW k \in Pages, g[k].fcs PROVE g[k].inode \in Inodes
    <3>1. CASE k = pos
      BY <1>4, <2>3, <3>1
    <3>2. CASE k # pos
      BY <2>1, <2>4, <3>2 DEF ArrayOK, Distinct
    <3> QED
      BY <3>1, <3>2
  <2>5. ASSUME NEW j \in Pages, NEW k \in Pages, j # k, g[j].fcs, g[k].fcs, SamePage(g[j], g[k])
        PROVE  g[j].seq # g[k].seq
    <3>1. CASE j = pos
      <4>1. from(k) \in Pages /\ g[k] = h[from(k)]
        BY <2>1, <2>5, <3>1
      <4>2. SamePage(g[k], page)
        BY <1>4, <2>5, <3>1 DEF SamePage
      <4> QED
        BY <2>3, <2>5, <4>1, <4>2
    <3>2. CASE k = pos
      <4>1. from(j) \in Pages /\ g[j] = h[from(j)]
        BY <2>1, <2>5, <3>2
      <4> QED
        BY <1>4, <2>3, <2>5, <3>2, <4>1
    <3>3. CASE j # pos /\ k # pos
      <4>1. from(j) \in Pages /\ from(k) \in Pages /\ from(j) # from(k)
        BY <2>1, <2>2, <2>5, <3>3
      <4>2. g[j] = h[from(j)] /\ g[k] = h[from(k)]
        BY <2>1, <3>3
      <4> QED
        BY <2>5, <4>1, <4>2 DEF ArrayOK, Distinct
    <3> QED
      BY <3>1, <3>2, <3>3
  <2> QED
    BY <2>4, <2>5 DEF Distinct
<1>6. Ordered(g, u + 1)
  <2>1. ASSUME NEW k \in Used(u + 1) PROVE g[k].fcs
    <3>1. k < pos \/ k = pos \/ pos < k
      BY <1>0, <1>1
    <3> QED
      BY <1>4, <3>1 DEF ArrayOK, Ordered, Fits
  <2>2. ASSUME NEW j \in Used(u + 1), NEW k \in Used(u + 1), j < k PROVE Before(g[j], g[k])
    <3>0. j \in Nat /\ k \in Nat
      BY <1>1
    <3>1. CASE k < pos
      <4>1. j < pos
        BY <1>0, <2>2, <3>0, <3>1
      <4> QED
        BY <1>4, <2>2, <3>1, <4>1 DEF ArrayOK, Ordered
    <3>2. CASE k = pos
      <4>1. g[j] = h[j] /\ j \in Used(u) /\ j < pos
        BY <1>4, <2>2, <3>2
      <4> QED
        BY <1>4, <3>2, <4>1 DEF Fits
    <3>3. CASE pos < k
      <4>1. g[k] = h[k - 1] /\ k - 1 \in Used(u)
        BY <1>4, <3>3
      <4>2. CASE j < pos
        <5>1. g[j] = h[j] /\ j \in Used(u) /\ j < k - 1
          BY <1>0, <1>4, <3>0, <3>3, <4>2
        <5> QED
          BY <4>1, <5>1 DEF ArrayOK, Ordered
      <4>3. CASE j = pos
        <5>1. k - 1 >= pos
          BY <1>0, <3>0, <3>3
        <5> QED
          BY <1>4, <4>1, <4>3, <5>1 DEF Fits
      <4>4. CASE pos < j
        <5>1. g[j] = h[j - 1] /\ j - 1 \in Used(u) /\ j - 1 < k - 1
          BY <1>0, <1>4, <2>2, <3>0, <4>4
        <5> QED
          BY <4>1, <5>1 DEF ArrayOK, Ordered
      <4> QED
        BY <1>0, <3>0, <4>2, <4>3, <4>4
    <3> QED
      BY <1>0, <3>0, <3>1, <3>2, <3>3
  <2> QED
    BY <2>1, <2>2 DEF Ordered
<1>7. Linked(g, u + 1)
  <2> SUFFICES ASSUME NEW k \in Used(u + 1), g[k].pgoff > 0
               PROVE  /\ k > 0 /\ g[k - 1].inode = g[k].inode
                      /\ g[k].pgoff = g[k - 1].pgoff + 1 /\ Len(g[k - 1].data) = DataSize
    BY DEF Linked
  <2>0. k \in Nat /\ k <= u
    BY <1>1
  <2>1. CASE k < pos
    <3>1. g[k] = h[k] /\ k \in Used(u)
      BY <1>4, <2>1
    <3>2. /\ k > 0 /\ h[k - 1].inode = h[k].inode
          /\ h[k].pgoff = h[k - 1].pgoff + 1 /\ Len(h[k - 1].data) = DataSize
      BY <3>1 DEF ArrayOK, Linked
    <3>3. g[k - 1] = h[k - 1]
      BY <1>0, <1>1, <1>4, <2>0, <2>1, <3>2
    <3> QED
      BY <3>1, <3>2, <3>3
  <2>2. CASE k = pos
    <3>1. /\ pos > 0 /\ h[pos - 1].inode = page.inode
          /\ page.pgoff = h[pos - 1].pgoff + 1 /\ Len(h[pos - 1].data) = DataSize
      BY <1>4, <2>2 DEF Fits
    <3>2. g[k - 1] = h[k - 1]
      BY <1>0, <1>1, <1>4, <2>0, <2>2, <3>1
    <3> QED
      BY <1>4, <2>2, <3>1, <3>2
  <2>3. CASE pos < k
    <3>1. g[k] = h[k - 1] /\ k - 1 \in Used(u)
      BY <1>4, <2>3
    <3>2. /\ k - 1 > 0 /\ h[(k - 1) - 1].inode = h[k - 1].inode
          /\ h[k - 1].pgoff = h[(k - 1) - 1].pgoff + 1 /\ Len(h[(k - 1) - 1].data) = DataSize
      BY <3>1 DEF ArrayOK, Linked
    <3>3. k - 1 # pos
      BY <1>0, <3>1, <2>0, <1>1 DEF Fits
    <3>4. g[k - 1] = h[(k - 1) - 1]
      BY <1>0, <1>1, <1>4, <2>0, <2>3, <3>3
    <3> QED
      BY <2>0, <3>1, <3>2, <3>4
  <2> QED
    BY <1>0, <2>0, <2>1, <2>2, <2>3
<1>8. Superseded(g, u + 1)
  <2> SUFFICES ASSUME NEW k \in Pages, k >= u + 1, g[k].fcs
               PROVE  \E j \in Used(u + 1) : SamePage(g[k], g[j]) /\ g[k].seq < g[j].seq
    BY DEF Superseded
  <2>1. g[k] = h[k] /\ k >= u
    BY <1>0, <1>1, <1>4
  <2>2. PICK j \in Used(u) : SamePage(h[k], h[j]) /\ h[k].seq < h[j].seq
    BY <2>1 DEF ArrayOK, Superseded
  <2>3. CASE j < pos
    <3>1. j \in Used(u + 1) /\ g[j] = h[j]
      BY <1>0, <1>1, <1>4, <2>3
    <3> QED
      BY <2>1, <2>2, <3>1
  <2>4. CASE j >= pos
    <3>1. j + 1 \in Used(u + 1) /\ g[j + 1] = h[(j + 1) - 1] /\ (j + 1) - 1 = j
      BY <1>0, <1>1, <1>4, <2>4
    <3> QED
      BY <2>1, <2>2, <3>1
  <2> QED
    BY <1>0, <1>1, <2>3, <2>4
<1> QED
  BY <1>0, <1>3, <1>5, <1>6, <1>7, <1>8 DEF ArrayOK

\* The used page at pos is written again, where it is or elsewhere.
Rewrites(h, u, pos, page) ==
  /\ page.fcs /\ SamePage(page, h[pos]) /\ page.seq = h[pos].seq + 1
  /\ pos + 1 < u /\ h[pos + 1].pgoff > 0 => Len(page.data) = DataSize

\* The order afterwards; from tells where the free pages have been.
RewrittenPage(h, u, pos, page, g, from) ==
  /\ g \in [Pages -> AnyPage] /\ g[pos] = page
  /\ \A k \in Used(u) : k # pos => g[k] = h[k]
  /\ \A k \in Pages : k >= u =>
       from[k] \in Pages /\ (from[k] = pos \/ from[k] >= u) /\ g[k] = h[from[k]]
  /\ \A j, k \in Pages : j >= u /\ k >= u /\ j # k => from[j] # from[k]

\* A page that is rewritten stays in its place in the order.
LEMMA RewriteArray ==
  ASSUME NEW h, NEW u, ArrayOK(h, u), NEW pos \in Used(u), NEW page \in AnyPage,
         Rewrites(h, u, pos, page), NEW g, NEW from, RewrittenPage(h, u, pos, page, g, from)
  PROVE  ArrayOK(g, u)
<1>0. /\ u \in 0..PageCnt /\ u \in Nat /\ PageCnt \in Nat /\ pos \in Nat /\ pos < u /\ pos \in Pages
      /\ \A k : k \in Pages <=> k \in Nat /\ k < PageCnt
      /\ \A k \in Used(u) : k \in Nat /\ k < u /\ k \in Pages
      /\ \A k \in Nat : k < u => k \in Used(u)
  BY UsedFacts DEF ArrayOK
<1>1. \A k \in Pages : h[k] \in AnyPage /\ h[k].seq \in Int
  BY PageFields DEF ArrayOK
<1>2. /\ g \in [Pages -> AnyPage] /\ g[pos] = page
      /\ \A k \in Used(u) : k # pos => g[k] = h[k]
      /\ \A k \in Used(u) : SamePage(g[k], h[k]) /\ g[k].fcs /\ h[k].fcs
  BY DEF RewrittenPage, SamePage, Rewrites, ArrayOK, Ordered
\* A free page is an old copy of a used one.
<1>3. ASSUME NEW k \in Pages, k >= u, g[k].fcs
      PROVE  \E j \in Used(u) : SamePage(g[k], g[j]) /\ g[k].seq < g[j].seq
  <2>1. from[k] \in Pages /\ (from[k] = pos \/ from[k] >= u) /\ g[k] = h[from[k]]
    BY <1>3 DEF RewrittenPage
  <2>2. PICK j \in Used(u) : SamePage(h[from[k]], h[j]) /\ (j = from[k] \/ h[from[k]].seq < h[j].seq)
    BY <1>3, <2>1, CopyUsed
  <2>3. SamePage(g[k], g[j])
    BY <1>2, <2>1, <2>2 DEF SamePage
  <2>4. g[k].seq < g[j].seq
    <3>1. CASE j = pos
      <4>1. g[j].seq = h[j].seq + 1
        BY <1>2, <3>1 DEF Rewrites
      <4> QED
        BY <1>0, <1>1, <2>1, <2>2, <3>1, <4>1
    <3>2. CASE j # pos
      <4>1. j # from[k]
        BY <1>0, <2>1, <3>2
      <4> QED
        BY <1>2, <2>1, <2>2, <3>2, <4>1
    <3> QED
      BY <3>1, <3>2
  <2> QED
    BY <2>3, <2>4
<1>4. Ordered(g, u)
  BY <1>2 DEF ArrayOK, Ordered, Before, SamePage
<1>5. Linked(g, u)
  <2> SUFFICES ASSUME NEW k \in Used(u), g[k].pgoff > 0
               PROVE  /\ k > 0 /\ g[k - 1].inode = g[k].inode
                      /\ g[k].pgoff = g[k - 1].pgoff + 1 /\ Len(g[k - 1].data) = DataSize
    BY DEF Linked
  <2>1. h[k].pgoff > 0 /\ h[k].pgoff = g[k].pgoff /\ h[k].inode = g[k].inode
    BY <1>2 DEF SamePage
  <2>2. /\ k > 0 /\ h[k - 1].inode = h[k].inode
        /\ h[k].pgoff = h[k - 1].pgoff + 1 /\ Len(h[k - 1].data) = DataSize
    BY <2>1 DEF ArrayOK, Linked
  <2>3. k - 1 \in Used(u)
    BY <1>0, <2>2
  <2>4. Len(g[k - 1].data) = DataSize
    <3>1. CASE k - 1 = pos
      <4>1. pos + 1 = k /\ pos + 1 < u
        BY <1>0, <3>1
      <4> QED
        BY <1>2, <2>1, <3>1, <4>1 DEF Rewrites
    <3>2. CASE k - 1 # pos
      BY <1>2, <2>2, <2>3, <3>2
    <3> QED
      BY <3>1, <3>2
  <2>5. g[k - 1].inode = h[k - 1].inode /\ g[k - 1].pgoff = h[k - 1].pgoff
    BY <1>2, <2>3 DEF SamePage
  <2> QED
    BY <2>1, <2>2, <2>4, <2>5
<1>6. Distinct(g)
  <2>0. \A k \in Pages : k \in Used(u) \/ k >= u
    BY <1>0
  <2>1. ASSUME NEW k \in Pages, g[k].fcs PROVE g[k].inode \in Inodes
    <3>1. \A j \in Used(u) : h[j].inode \in Inodes
      BY <1>0, <1>2 DEF ArrayOK, Distinct
    <3>2. \A j \in Used(u) : g[j].inode \in Inodes
      BY <1>2, <3>1 DEF SamePage
    <3> QED
      BY <1>3, <2>0, <2>1, <3>2 DEF SamePage
  <2>2. ASSUME NEW j \in Used(u), NEW k \in Used(u), j # k PROVE ~SamePage(g[j], g[k])
    <3>1. ~SamePage(h[j], h[k])
      BY <2>2, UsedDiffer
    <3> QED
      BY <1>2, <3>1 DEF SamePage
  <2>3. ASSUME NEW j \in Used(u), NEW k \in Pages, k >= u, g[k].fcs, SamePage(g[j], g[k])
        PROVE  g[k].seq < g[j].seq
    <3>1. PICK i \in Used(u) : SamePage(g[k], g[i]) /\ g[k].seq < g[i].seq
      BY <1>3, <2>3
    <3>2. i = j
      BY <2>2, <2>3, <3>1 DEF SamePage
    <3> QED
      BY <3>1, <3>2
  <2>4. ASSUME NEW j \in Pages, j >= u, NEW k \in Pages, k >= u, j # k, g[j].fcs, g[k].fcs,
               SamePage(g[j], g[k])
        PROVE  g[j].seq # g[k].seq
    <3>1. from[j] \in Pages /\ from[k] \in Pages /\ from[j] # from[k]
          /\ g[j] = h[from[j]] /\ g[k] = h[from[k]]
      BY <2>4 DEF RewrittenPage
    <3> QED
      BY <2>4, <3>1 DEF ArrayOK, Distinct
  <2>5. \A k \in Pages : g[k].seq \in Int
    BY <1>2, PageFields
  <2>6. ASSUME NEW j \in Pages, NEW k \in Pages, j # k, g[j].fcs, g[k].fcs, SamePage(g[j], g[k])
        PROVE  g[j].seq # g[k].seq
    <3>1. CASE j \in Used(u) /\ k \in Used(u)
      BY <2>2, <2>6, <3>1
    <3>2. CASE j \in Used(u) /\ k >= u
      BY <2>3, <2>5, <2>6, <3>2
    <3>3. CASE j >= u /\ k \in Used(u)
      <4>1. SamePage(g[k], g[j])
        BY <2>6 DEF SamePage
      <4> QED
        BY <2>3, <2>5, <2>6, <3>3, <4>1
    <3>4. CASE j >= u /\ k >= u
      BY <2>4, <2>6, <3>4
    <3> QED
      BY <2>0, <3>1, <3>2, <3>3, <3>4
  <2> QED
    BY <2>1, <2>6 DEF Distinct
<1>7. Superseded(g, u)
  BY <1>3 DEF Superseded
<1> QED
  BY <1>0, <1>2, <1>4, <1>5, <1>6, <1>7 DEF ArrayOK

Renewed(a, u, pos) ==
  [k \in Pages |-> IF k = pos THEN a[u]
                   ELSE IF k = PageCnt - 1 THEN a[pos]
                   ELSE IF k >= u THEN a[k + 1] ELSE a[k]]

\* renewPage() and the write of the page: the array lists every page once, and
\* the pages are those it had, the new one at pos and the old one at the end.
LEMMA RenewListed ==
  ASSUME NEW a, Listed(a), NEW u \in 0..PageCnt, u < PageCnt, NEW pos \in Used(u),
         NEW m \in [Pages -> AnyPage], NEW page \in AnyPage,
         NEW b, b = Renewed(a, u, pos), NEW e, e = Put(m, a[u], page),
         NEW h, h = InOrder(m, a), NEW g, g = InOrder(e, b)
  PROVE  /\ Listed(b) /\ b[pos] = a[u]
         /\ \E from : RewrittenPage(h, u, pos, page, g, from)
<1>0. /\ PageCnt \in Nat /\ u \in Nat /\ pos \in Nat /\ pos < u
      /\ \A k : k \in Pages <=> k \in Nat /\ k < PageCnt
      /\ \A k \in Used(u) : k \in Nat /\ k < u /\ k \in Pages
      /\ PageCnt - 1 \in Pages /\ PageCnt - 1 >= u
  BY UsedFacts
<1>1. /\ \A k \in Pages : a[k] \in Pages
      /\ \A p \in Pages : \E k \in Pages : a[k] = p
      /\ \A j, k \in Pages : a[j] = a[k] => j = k
  BY DEF Listed
<1>2. u \in Pages /\ pos \in Pages /\ a[u] \in Pages /\ a[pos] \in Pages
  <2>1. u \in Pages /\ pos \in Pages
    BY <1>0
  <2> QED
    BY <1>1, <2>1
<1> DEFINE from == [k \in Pages |-> IF k = PageCnt - 1 THEN pos ELSE IF k >= u THEN k + 1 ELSE k]
<1>3. /\ b[pos] = a[u] /\ b[PageCnt - 1] = a[pos]
      /\ \A k \in Used(u) : k # pos => b[k] = a[k]
      /\ \A k \in Pages : k >= u /\ k # PageCnt - 1 => k + 1 \in Pages /\ b[k] = a[k + 1]
      /\ b = [k \in Pages |-> b[k]]
  BY <1>0, <1>2 DEF Renewed
<1>4. \A k \in Pages : k = pos \/ (k \in Used(u) /\ k # pos) \/ k = PageCnt - 1 \/ (k >= u /\ k # PageCnt - 1)
  BY <1>0 DEF Used
<1>5. \A k \in Pages : b[k] \in Pages
  BY <1>1, <1>2, <1>3, <1>4
<1>6. \A k \in Pages : k # pos => from[k] \in Pages /\ b[k] = a[from[k]]
  BY <1>0, <1>2, <1>3, <1>4
<1>7. \A k \in Pages : k >= u => from[k] = pos \/ from[k] >= u + 1
  BY <1>0
<1>8. \A j, k \in Pages : j # pos /\ k # pos /\ j # k => from[j] # from[k]
  <2>0. /\ PageCnt \in Nat /\ u \in Nat /\ pos \in Nat /\ pos < u /\ u <= PageCnt - 1
        /\ \A k \in Pages : k \in Nat /\ k <= PageCnt - 1
    BY <1>0
  <2> SUFFICES ASSUME NEW j \in Pages, NEW k \in Pages, j # pos, k # pos, j # k
               PROVE  from[j] # from[k]
    OBVIOUS
  <2>1. /\ from[j] = IF j = PageCnt - 1 THEN pos ELSE IF j >= u THEN j + 1 ELSE j
        /\ from[k] = IF k = PageCnt - 1 THEN pos ELSE IF k >= u THEN k + 1 ELSE k
    OBVIOUS
  <2>2. j \in Nat /\ k \in Nat /\ j <= PageCnt - 1 /\ k <= PageCnt - 1
    BY <2>0
  <2> HIDE DEF from
  <2>3. CASE j = PageCnt - 1
    BY <2>0, <2>1, <2>2, <2>3
  <2>4. CASE k = PageCnt - 1
    BY <2>0, <2>1, <2>2, <2>4
  <2>5. CASE j # PageCnt - 1 /\ k # PageCnt - 1
    <3>1. CASE j >= u
      BY <2>0, <2>1, <2>2, <2>5, <3>1
    <3>2. CASE ~(j >= u)
      BY <2>0, <2>1, <2>2, <2>5, <3>2
    <3> QED
      BY <3>1, <3>2
  <2> QED
    BY <2>3, <2>4, <2>5
<1>9. ASSUME NEW k \in Used(u), k # pos PROVE from[k] = k
  <2>1. k \in Pages /\ k # PageCnt - 1 /\ ~(k >= u)
    BY <1>0
  <2> QED
    BY <2>1
<1>10. ASSUME NEW k \in Pages, k # pos PROVE from[k] # u
  <2>1. from[k] = IF k = PageCnt - 1 THEN pos ELSE IF k >= u THEN k + 1 ELSE k
    OBVIOUS
  <2>2. k \in Nat /\ u \in Nat /\ pos # u
    BY <1>0
  <2> HIDE DEF from
  <2> QED
    BY <2>1, <2>2
<1> HIDE DEF from
<1>11. ASSUME NEW p \in Pages PROVE \E k \in Pages : b[k] = p
  <2>1. PICK j \in Pages : a[j] = p
    BY <1>1
  <2>2. CASE j = u
    BY <1>2, <1>3, <2>1, <2>2
  <2>3. CASE j = pos
    BY <1>0, <1>3, <2>1, <2>3
  <2>4. CASE j < u /\ j # pos
    <3>1. j \in Used(u)
      BY <2>4 DEF Used
    <3> QED
      BY <1>3, <2>1, <2>4, <3>1
  <2>5. CASE u < j
    <3>1. j - 1 \in Pages /\ j - 1 >= u /\ j - 1 # PageCnt - 1 /\ (j - 1) + 1 = j
      BY <1>0, <2>5
    <3> QED
      BY <1>3, <2>1, <3>1
  <2> QED
    BY <1>0, <2>2, <2>3, <2>4, <2>5
<1>12. ASSUME NEW j \in Pages, NEW k \in Pages, b[j] = b[k] PROVE j = k
  <2>1. CASE j # pos /\ k # pos
    <3>1. from[j] = from[k]
      BY <1>1, <1>6, <1>12, <2>1
    <3> QED
      BY <1>8, <2>1, <3>1
  <2>2. CASE j = pos /\ k # pos
    <3>1. from[k] = u
      BY <1>1, <1>2, <1>3, <1>6, <1>12, <2>2
    <3> QED
      BY <1>10, <2>2, <3>1
  <2>3. CASE j # pos /\ k = pos
    <3>1. from[j] = u
      BY <1>1, <1>2, <1>3, <1>6, <1>12, <2>3
    <3> QED
      BY <1>10, <2>3, <3>1
  <2> QED
    BY <2>1, <2>2, <2>3
<1>13. Listed(b)
  <2>1. b \in [Pages -> Pages]
    BY <1>3, <1>5
  <2> QED
    BY <1>11, <1>12, <2>1 DEF Listed
<1>14. e \in [Pages -> AnyPage] /\ e[a[u]] = page /\ \A p \in Pages : p # a[u] => e[p] = m[p]
  BY <1>2 DEF Put
<1>15. \A k \in Pages : g[k] = e[b[k]] /\ h[k] = m[a[k]]
  BY DEF InOrder
<1>16. ASSUME NEW k \in Pages, k # pos PROVE g[k] = h[from[k]]
  <2>1. from[k] \in Pages /\ b[k] = a[from[k]] /\ a[from[k]] \in Pages
    BY <1>1, <1>6, <1>16
  <2>2. a[from[k]] # a[u]
    BY <1>1, <1>2, <1>10, <1>16, <2>1
  <2>3. e[a[from[k]]] = m[a[from[k]]]
    BY <1>14, <2>1, <2>2
  <2> QED
    BY <1>15, <2>1, <2>3
<1>17. g \in [Pages -> AnyPage] /\ g[pos] = page
  <2>1. g = [k \in Pages |-> g[k]]
    BY DEF InOrder
  <2>2. \A k \in Pages : g[k] \in AnyPage
    BY <1>5, <1>14, <1>15
  <2> QED
    BY <1>2, <1>3, <1>14, <1>15, <2>1, <2>2
<1>18. \A k \in Used(u) : k # pos => g[k] = h[k]
  BY <1>0, <1>9, <1>16
<1>19. ASSUME NEW k \in Pages, k >= u
       PROVE  from[k] \in Pages /\ (from[k] = pos \/ from[k] >= u) /\ g[k] = h[from[k]]
  <2>1. k # pos
    BY <1>0, <1>19
  <2>2. from[k] \in Pages /\ from[k] \in Nat
    BY <1>0, <1>6, <2>1
  <2>3. from[k] = pos \/ from[k] >= u + 1
    BY <1>7, <1>19
  <2>4. from[k] = pos \/ from[k] >= u
    BY <1>0, <2>2, <2>3
  <2>5. g[k] = h[from[k]]
    BY <1>16, <2>1
  <2> QED
    BY <2>2, <2>4, <2>5
<1>20. \A j, k \in Pages : j >= u /\ k >= u /\ j # k => from[j] # from[k]
  <2>1. \A k \in Pages : k >= u => k # pos
    BY <1>0
  <2> QED
    BY <1>8, <2>1
<1>21. RewrittenPage(h, u, pos, page, g, from)
  BY <1>17, <1>18, <1>19, <1>20 DEF RewrittenPage
<1> QED
  BY <1>3, <1>13, <1>21

\* A page written where it is.
LEMMA InPlaceListed ==
  ASSUME NEW a, Listed(a), NEW u \in 0..PageCnt, NEW pos \in Used(u),
         NEW m \in [Pages -> AnyPage], NEW page \in AnyPage,
         NEW e, e = Put(m, a[pos], page),
         NEW h, h = InOrder(m, a), NEW g, g = InOrder(e, a)
  PROVE  \E from : RewrittenPage(h, u, pos, page, g, from)
<1>0. /\ u \in Nat /\ pos \in Pages /\ pos \in Nat /\ pos < u
      /\ \A k \in Used(u) : k \in Pages
      /\ \A k \in Pages : k \in Nat
  BY UsedFacts
<1>1. /\ \A k \in Pages : a[k] \in Pages
      /\ \A j, k \in Pages : a[j] = a[k] => j = k
  BY DEF Listed
<1>2. a[pos] \in Pages
  BY <1>0, <1>1
<1>3. e \in [Pages -> AnyPage] /\ e[a[pos]] = page /\ \A p \in Pages : p # a[pos] => e[p] = m[p]
  BY <1>2 DEF Put
<1>4. \A k \in Pages : g[k] = e[a[k]] /\ h[k] = m[a[k]]
  BY DEF InOrder
<1>5. ASSUME NEW k \in Pages, k # pos PROVE g[k] = h[k]
  <2>1. a[k] \in Pages /\ a[k] # a[pos]
    BY <1>0, <1>1, <1>5
  <2>2. e[a[k]] = m[a[k]]
    BY <1>3, <2>1
  <2> QED
    BY <1>4, <2>2
<1>6. g \in [Pages -> AnyPage] /\ g[pos] = page
  <2>1. g = [k \in Pages |-> g[k]]
    BY DEF InOrder
  <2>2. \A k \in Pages : g[k] \in AnyPage
    BY <1>1, <1>3, <1>4
  <2> QED
    BY <1>0, <1>3, <1>4, <2>1, <2>2
<1> DEFINE from == [k \in Pages |-> k]
<1>7. ASSUME NEW k \in Pages, k >= u
      PROVE  from[k] \in Pages /\ (from[k] = pos \/ from[k] >= u) /\ g[k] = h[from[k]]
  <2>1. k # pos
    BY <1>0, <1>7
  <2> QED
    BY <1>5, <1>7, <2>1
<1>8. \A j, k \in Pages : j >= u /\ k >= u /\ j # k => from[j] # from[k]
  OBVIOUS
<1> HIDE DEF from
<1>9. RewrittenPage(h, u, pos, page, g, from)
  BY <1>0, <1>5, <1>6, <1>7, <1>8 DEF RewrittenPage
<1> QED
  BY <1>9

-----------------------------------------------------------------------------
\* Files.  A file has one place.
LEMMA FilePlace ==
  ASSUME NEW h, NEW u, ArrayOK(h, u), NEW i, NEW s, NEW n, FileAt(h, u, i, s, n),
         NEW t, NEW o, FileAt(h, u, i, t, o), n > 0
  PROVE  s = t /\ n = o
<1>0. /\ u \in 0..PageCnt /\ u \in Nat /\ s \in Nat /\ n \in Nat /\ t \in Nat /\ o \in Nat
      /\ s + n <= u /\ t + o <= u
  BY UsedFacts DEF ArrayOK, FileAt
<1>1. \A k \in Nat : k < u => ((s <= k /\ k < s + n) <=> (t <= k /\ k < t + o))
  <2>1. \A k \in Nat : k < u => k \in Used(u)
    BY <1>0, UsedFacts
  <2> QED
    BY <2>1 DEF FileAt
<1>2. t <= s /\ s < t + o
  BY <1>0, <1>1
<1>3. s <= t /\ t < s + n
  BY <1>0, <1>1, <1>2
<1>4. s = t
  BY <1>0, <1>2, <1>3
<1>5. t <= (s + n) - 1 /\ (s + n) - 1 < t + o
  <2>1. (s + n) - 1 \in Nat /\ (s + n) - 1 < u /\ s <= (s + n) - 1 /\ (s + n) - 1 < s + n
    BY <1>0
  <2> QED
    BY <1>1, <2>1
<1>6. s <= (t + o) - 1 /\ (t + o) - 1 < s + n
  <2>1. (t + o) - 1 \in Nat /\ (t + o) - 1 < u /\ t <= (t + o) - 1 /\ (t + o) - 1 < t + o
    BY <1>0, <1>2
  <2> QED
    BY <1>1, <2>1
<1> QED
  BY <1>0, <1>4, <1>5, <1>6

\* An insertion moves the files that come after it.
LEMMA InsertFile ==
  ASSUME NEW h, NEW u, ArrayOK(h, u), u < PageCnt, NEW pos \in 0..u, NEW page \in AnyPage,
         Fits(h, u, pos, page), NEW g, InsertedPage(h, u, pos, page, g),
         NEW i \in Nat, NEW s, NEW n, FileAt(h, u, i, s, n)
  PROVE  /\ i < page.inode /\ n > 0 => FileAt(g, u + 1, i, s, n) /\ s + n <= pos
         /\ i > page.inode /\ n > 0 => FileAt(g, u + 1, i, s + 1, n) /\ pos <= s
         /\ i = page.inode /\ pos = s + n /\ page.pgoff = n => FileAt(g, u + 1, i, s, n + 1)
<1>0. /\ u \in 0..PageCnt /\ u \in Nat /\ s \in Nat /\ n \in Nat /\ s + n <= u /\ pos \in Nat /\ pos <= u
      /\ page.inode \in Nat /\ PageCnt \in Nat
  BY UsedFacts, PageFields DEF ArrayOK, FileAt
<1>1. /\ \A k \in Used(u) : k \in Nat /\ k < u /\ k \in Pages
      /\ \A k \in Used(u + 1) : k \in Nat /\ k <= u /\ k \in Pages
      /\ \A k \in Nat : k < u => k \in Used(u)
  BY <1>0, UsedFacts
<1>2. /\ \A k \in Used(u) : h[k].inode = i <=> (s <= k /\ k < s + n)
      /\ \A k \in Used(u) : h[k].inode = i => h[k].pgoff = k - s
  BY DEF FileAt
<1>3. /\ \A k \in Used(u + 1) : k < pos => g[k] = h[k] /\ k \in Used(u)
      /\ \A k \in Used(u + 1) : pos < k => g[k] = h[k - 1] /\ k - 1 \in Used(u)
      /\ g[pos] = page
      /\ \A k \in Used(u + 1) : k < pos \/ k = pos \/ pos < k
  BY <1>0, <1>1 DEF InsertedPage
<1>i. \A k \in Used(u) : h[k].inode \in Nat
  BY <1>1, PageFields DEF ArrayOK
<1>4. ASSUME i < page.inode, n > 0 PROVE FileAt(g, u + 1, i, s, n) /\ s + n <= pos
  <2>1. (s + n) - 1 \in Used(u) /\ h[(s + n) - 1].inode = i
    BY <1>0, <1>1, <1>2, <1>4
  <2>2. ~Before(page, h[(s + n) - 1])
    BY <1>0, <1>4, <2>1 DEF Before
  <2>3. s + n <= pos
    BY <1>0, <2>1, <2>2 DEF Fits
  <2>4. ASSUME NEW k \in Used(u + 1)
        PROVE  /\ g[k].inode = i <=> (s <= k /\ k < s + n)
               /\ g[k].inode = i => g[k].pgoff = k - s
    <3>1. CASE k < pos
      BY <1>2, <1>3, <3>1
    <3>2. CASE k = pos
      <4>1. g[k].inode # i
        BY <1>0, <1>3, <1>4, <3>2
      <4> QED
        BY <1>0, <2>3, <3>2, <4>1
    <3>3. CASE pos < k
      <4>1. g[k] = h[k - 1] /\ k - 1 \in Used(u) /\ ~(k - 1 < s + n) /\ ~(k < s + n)
        BY <1>0, <1>1, <1>3, <2>3, <3>3
      <4> QED
        BY <1>2, <4>1
    <3> QED
      BY <1>3, <3>1, <3>2, <3>3
  <2> QED
    BY <1>0, <2>3, <2>4 DEF FileAt
<1>5. ASSUME i > page.inode, n > 0 PROVE FileAt(g, u + 1, i, s + 1, n) /\ pos <= s
  <2>1. s \in Used(u) /\ h[s].inode = i
    BY <1>0, <1>1, <1>2, <1>5
  <2>2. ~Before(h[s], page)
    BY <1>0, <1>5, <2>1 DEF Before
  <2>3. pos <= s
    BY <1>0, <2>1, <2>2 DEF Fits
  <2>4. ASSUME NEW k \in Used(u + 1)
        PROVE  /\ g[k].inode = i <=> (s + 1 <= k /\ k < (s + 1) + n)
               /\ g[k].inode = i => g[k].pgoff = k - (s + 1)
    <3>1. CASE k < pos
      <4>1. g[k] = h[k] /\ k \in Used(u) /\ ~(s <= k) /\ ~(s + 1 <= k)
        BY <1>0, <1>1, <1>3, <2>3, <3>1
      <4> QED
        BY <1>2, <4>1
    <3>2. CASE k = pos
      <4>1. g[k].inode # i
        BY <1>0, <1>3, <1>5, <3>2
      <4>2. ~(s + 1 <= k)
        BY <1>0, <2>3, <3>2
      <4> QED
        BY <4>1, <4>2
    <3>3. CASE pos < k
      <4>1. g[k] = h[k - 1] /\ k - 1 \in Used(u) /\ k \in Nat
        BY <1>1, <1>3, <3>3
      <4>2. /\ h[k - 1].inode = i <=> (s <= k - 1 /\ k - 1 < s + n)
            /\ h[k - 1].inode = i => h[k - 1].pgoff = (k - 1) - s
        BY <1>2, <4>1
      <4>3. (s <= k - 1 /\ k - 1 < s + n) <=> (s + 1 <= k /\ k < (s + 1) + n)
        BY <1>0, <4>1
      <4>4. (k - 1) - s = k - (s + 1)
        BY <1>0, <4>1
      <4> QED
        BY <4>1, <4>2, <4>3, <4>4
    <3> QED
      BY <1>3, <3>1, <3>2, <3>3
  <2>5. s + 1 \in Nat /\ (s + 1) + n <= u + 1
    BY <1>0
  <2> QED
    BY <1>0, <2>3, <2>4, <2>5 DEF FileAt
<1>6. ASSUME i = page.inode, pos = s + n, page.pgoff = n PROVE FileAt(g, u + 1, i, s, n + 1)
  <2>1. ASSUME NEW k \in Used(u + 1)
        PROVE  /\ g[k].inode = i <=> (s <= k /\ k < s + (n + 1))
               /\ g[k].inode = i => g[k].pgoff = k - s
    <3>0. k \in Nat
      BY <1>1
    <3>1. CASE k < pos
      <4>1. g[k] = h[k] /\ k \in Used(u) /\ ((s <= k /\ k < s + n) <=> (s <= k /\ k < s + (n + 1)))
        BY <1>0, <1>3, <1>6, <3>0, <3>1
      <4> QED
        BY <1>2, <4>1
    <3>2. CASE k = pos
      <4>1. g[k].inode = i /\ g[k].pgoff = n /\ n = k - s /\ s <= k /\ k < s + (n + 1)
        BY <1>0, <1>3, <1>6, <3>2
      <4> QED
        BY <4>1
    <3>3. CASE pos < k
      <4>1. g[k] = h[k - 1] /\ k - 1 \in Used(u) /\ ~(k - 1 < s + n) /\ ~(k < s + (n + 1))
        BY <1>0, <1>3, <1>6, <3>0, <3>3
      <4> QED
        BY <1>2, <4>1
    <3> QED
      BY <1>3, <3>1, <3>2, <3>3
  <2>2. n + 1 \in Nat /\ s + (n + 1) <= u + 1
    BY <1>0
  <2> QED
    BY <1>0, <2>1, <2>2 DEF FileAt
<1> QED
  BY <1>4, <1>5, <1>6

\* Rewriting moves none.
LEMMA RewriteFile ==
  ASSUME NEW h, NEW u, ArrayOK(h, u), NEW pos \in Used(u), NEW page \in AnyPage,
         Rewrites(h, u, pos, page), NEW g, NEW from, RewrittenPage(h, u, pos, page, g, from),
         NEW i, NEW s, NEW n, FileAt(h, u, i, s, n)
  PROVE  FileAt(g, u, i, s, n)
<1>1. \A k \in Used(u) : g[k].inode = h[k].inode /\ g[k].pgoff = h[k].pgoff
  BY DEF RewrittenPage, Rewrites, SamePage
<1> QED
  BY <1>1 DEF FileAt

\* An insertion leaves the handles of the other files right.
LEMMA InsertHandle ==
  ASSUME NEW h, NEW u, ArrayOK(h, u), u < PageCnt, NEW pos \in 0..u, NEW page \in AnyPage,
         Fits(h, u, pos, page), NEW g, InsertedPage(h, u, pos, page, g),
         NEW i \in Nat, i # page.inode, NEW f \in AnyHandle, HandleOK(h, u, i, f)
  PROVE  HandleOK(g, u + 1, i, IF i > page.inode THEN [f EXCEPT !.start = @ + 1] ELSE f)
<1>0. /\ u \in 0..PageCnt /\ u \in Nat /\ pos \in Nat /\ pos <= u /\ page.inode \in Nat /\ PageCnt \in Nat
      /\ f.start \in Nat /\ f.max_off \in Nat /\ f.size \in Nat
  BY UsedFacts, PageFields DEF ArrayOK, AnyHandle
<1>1. PICK n \in Nat \ {0} :
        /\ FileAt(h, u, i, f.start, n)
        /\ f.size = (n - 1) * DataSize + Len(h[f.start + n - 1].data)
        /\ n = f.max_off + 1 \/ (n = f.max_off /\ f.size = n * DataSize)
  BY DEF HandleOK
<1>2. f.start + n <= u /\ f.start + n - 1 \in Nat /\ f.start + n - 1 \in Pages
  <2>1. f.start + n <= u
    BY <1>1 DEF FileAt
  <2> QED
    BY <1>0, <2>1, UsedFacts
<1>3. CASE i > page.inode
  <2>1. FileAt(g, u + 1, i, f.start + 1, n) /\ pos <= f.start
    BY <1>1, <1>3, InsertFile
  <2>2. PICK e : e = [f EXCEPT !.start = @ + 1]
    OBVIOUS
  <2>3. e.start = f.start + 1 /\ e.size = f.size /\ e.max_off = f.max_off
    BY <2>2 DEF AnyHandle
  <2>4. g[e.start + n - 1] = h[f.start + n - 1]
    <3>1. e.start + n - 1 = f.start + n /\ f.start + n - 1 = (f.start + n) - 1
      BY <1>0, <2>3
    <3>2. f.start + n \in Pages /\ pos < f.start + n /\ f.start + n <= u
      BY <1>0, <1>2, <2>1, UsedFacts
    <3> QED
      BY <3>1, <3>2 DEF InsertedPage
  <2>5. HandleOK(g, u + 1, i, e)
    BY <1>1, <2>1, <2>3, <2>4 DEF HandleOK
  <2> QED
    BY <1>3, <2>2, <2>5
<1>4. CASE i < page.inode
  <2>1. FileAt(g, u + 1, i, f.start, n) /\ f.start + n <= pos
    BY <1>1, <1>4, InsertFile
  <2>2. g[f.start + n - 1] = h[f.start + n - 1]
    BY <1>0, <1>2, <2>1 DEF InsertedPage
  <2>3. HandleOK(g, u + 1, i, f)
    BY <1>1, <2>1, <2>2 DEF HandleOK
  <2>4. ~(i > page.inode)
    BY <1>0, <1>4
  <2> QED
    BY <2>3, <2>4
<1> QED
  BY <1>0, <1>3, <1>4

\* A file whose last page is full becomes longer by a page.
LEMMA InsertOwn ==
  ASSUME NEW h, NEW u, ArrayOK(h, u), u < PageCnt, NEW pos \in 0..u, NEW page \in AnyPage,
         Fits(h, u, pos, page), NEW g, InsertedPage(h, u, pos, page, g),
         NEW n \in Nat, NEW s, FileAt(h, u, page.inode, s, n), pos = s + n, page.pgoff = n,
         NEW f, f.start = s, f.size = n * DataSize + Len(page.data), f.max_off = n
  PROVE  HandleOK(g, u + 1, page.inode, f)
<1>1. FileAt(g, u + 1, page.inode, s, n + 1)
  <2>1. page.inode \in Nat
    BY PageFields
  <2> QED
    BY <2>1, InsertFile
<1>2. s \in Nat
  BY DEF FileAt
<1>3. g[s + (n + 1) - 1] = page
  <2>1. s + (n + 1) - 1 = pos
    BY <1>2
  <2> QED
    BY <2>1 DEF InsertedPage
<1>4. (n + 1) - 1 = n /\ n + 1 \in Nat \ {0}
  OBVIOUS
<1> QED
  BY <1>1, <1>3, <1>4 DEF HandleOK

\* Rewriting a page leaves the handles of the other files right, ...
LEMMA RewriteHandle ==
  ASSUME NEW h, NEW u, ArrayOK(h, u), NEW pos \in Used(u), NEW page \in AnyPage,
         Rewrites(h, u, pos, page), NEW g, NEW from, RewrittenPage(h, u, pos, page, g, from),
         NEW i, i # page.inode, NEW f, HandleOK(h, u, i, f)
  PROVE  HandleOK(g, u, i, f)
<1>1. PICK n \in Nat \ {0} :
        /\ FileAt(h, u, i, f.start, n)
        /\ f.size = (n - 1) * DataSize + Len(h[f.start + n - 1].data)
        /\ n = f.max_off + 1 \/ (n = f.max_off /\ f.size = n * DataSize)
  BY DEF HandleOK
<1>2. FileAt(g, u, i, f.start, n)
  BY <1>1, RewriteFile
<1>3. f.start + n - 1 \in Used(u) /\ h[f.start + n - 1].inode = i
  <2>1. f.start \in Nat /\ f.start + n <= u /\ u \in 0..PageCnt /\ PageCnt \in Nat
    BY <1>1, UsedFacts DEF FileAt, ArrayOK
  <2>2. f.start + n - 1 \in Nat /\ f.start + n - 1 < u /\ f.start <= f.start + n - 1
        /\ f.start + n - 1 < f.start + n
    BY <2>1
  <2>3. f.start + n - 1 \in Used(u)
    BY <2>1, <2>2, UsedFacts
  <2> QED
    BY <1>1, <2>2, <2>3 DEF FileAt
<1>4. f.start + n - 1 # pos
  BY <1>3 DEF Rewrites, SamePage
<1>5. g[f.start + n - 1] = h[f.start + n - 1]
  BY <1>3, <1>4 DEF RewrittenPage
<1> QED
  BY <1>1, <1>2, <1>5 DEF HandleOK

\* ... and its own, if the size is.
LEMMA RewriteOwn ==
  ASSUME NEW h, NEW u, ArrayOK(h, u), NEW pos \in Used(u), NEW page \in AnyPage,
         Rewrites(h, u, pos, page), NEW g, NEW from, RewrittenPage(h, u, pos, page, g, from),
         Len(page.data) >= Len(h[pos].data),
         NEW f \in AnyHandle, HandleOK(h, u, page.inode, f),
         NEW e \in AnyHandle, e.start = f.start, e.max_off = f.max_off,
         e.size = f.size + (Len(page.data) - Len(h[pos].data))
  PROVE  HandleOK(g, u, page.inode, e)
<1> DEFINE i == page.inode
<1>0. /\ u \in 0..PageCnt /\ u \in Nat /\ PageCnt \in Nat /\ DataSize \in Nat
      /\ f.start \in Nat /\ f.max_off \in Nat /\ f.size \in Nat
      /\ \A k \in Used(u) : k \in Pages /\ k \in Nat /\ k < u
      /\ \A k \in Nat : k < u => k \in Used(u)
      /\ \A k \in Used(u) : h[k] \in AnyPage /\ Len(h[k].data) \in Nat /\ Len(h[k].data) <= DataSize
                            /\ h[k].pgoff \in Nat
      /\ Len(page.data) \in Nat /\ Len(page.data) <= DataSize
  BY SMTT(30), UsedFacts, PageFields DEF ArrayOK, Ordered, Rewrites, AnyHandle
<1>1. PICK n \in Nat \ {0} :
        /\ FileAt(h, u, i, f.start, n)
        /\ f.size = (n - 1) * DataSize + Len(h[f.start + n - 1].data)
        /\ n = f.max_off + 1 \/ (n = f.max_off /\ f.size = n * DataSize)
  BY DEF HandleOK
<1>2. FileAt(g, u, i, f.start, n)
  BY <1>1, RewriteFile
<1> DEFINE last == f.start + n - 1
<1>3. last \in Used(u) /\ last + 1 = f.start + n
  <2>1. f.start + n <= u
    BY <1>1 DEF FileAt
  <2> QED
    BY <1>0, <2>1
<1>4. f.start <= pos /\ pos <= last
  <2>1. h[pos].inode = i
    BY DEF Rewrites, SamePage
  <2>2. f.start <= pos /\ pos < f.start + n
    BY <1>1, <2>1 DEF FileAt
  <2> QED
    BY <1>0, <2>2
<1>5. CASE pos = last
  <2>1. g[last] = page
    BY <1>5 DEF RewrittenPage
  <2>2. e.size = (n - 1) * DataSize + Len(g[last].data)
    <3>1. (n - 1) * DataSize \in Int
      BY <1>0
    <3>2. f.size = (n - 1) * DataSize + Len(h[pos].data)
      BY <1>1, <1>5
    <3>3. PICK old \in Nat : old = Len(h[pos].data)
      BY <1>0
    <3>4. PICK new \in Nat : new = Len(page.data)
      BY <1>0
    <3>5. PICK rest \in Int : rest = (n - 1) * DataSize
      BY <3>1
    <3>a. f.size = rest + old
      BY <3>2, <3>3, <3>5
    <3>6. e.size = (rest + old) + (new - old)
      BY <3>3, <3>4, <3>a
    <3>b. rest \in Int /\ old \in Nat /\ new \in Nat
      BY <3>3, <3>4, <3>5
    <3>c. (rest + old) + (new - old) = rest + new
      BY <3>b
    <3>7. e.size = rest + new
      BY <3>6, <3>c
    <3> QED
      BY <2>1, <3>4, <3>5, <3>7
  <2>3. ASSUME n = f.max_off, f.size = n * DataSize PROVE e.size = n * DataSize
    <3>1. n * DataSize = (n - 1) * DataSize + DataSize /\ (n - 1) * DataSize \in Int
      BY <1>0
    <3>2. Len(h[last].data) = DataSize
      <4>1. PICK rest \in Int : rest = (n - 1) * DataSize
        BY <3>1
      <4>2. PICK len \in Nat : len = Len(h[last].data)
        BY <1>0, <1>3
      <4>3. f.size = rest + len
        BY <1>1, <4>1, <4>2
      <4>4. f.size = rest + DataSize
        BY <2>3, <3>1, <4>1
      <4>5. DataSize \in Nat
        BY SizesAssumption
      <4>6. len = DataSize
        BY <4>3, <4>4, <4>5
      <4> QED
        BY <4>2, <4>6
    <3>3. Len(h[pos].data) = DataSize
      BY <1>5, <3>2
    <3> HIDE DEF last
    <3>4. Len(page.data) = DataSize
      BY <1>0, <3>3
    <3>5. e.size = f.size
      BY <1>0, <3>3, <3>4
    <3> QED
      BY <2>3, <3>5
  <2> HIDE DEF last
  <2>4. n = e.max_off + 1 \/ (n = e.max_off /\ e.size = n * DataSize)
    BY <1>1, <2>3
  <2> QED
    BY <1>2, <2>2, <2>4 DEF HandleOK, last
<1>6. CASE pos # last
  <2>1. pos + 1 \in Used(u) /\ h[pos + 1].pgoff > 0 /\ pos + 1 < u
    <3>1. pos + 1 \in Used(u) /\ f.start <= pos + 1 /\ pos + 1 < f.start + n /\ pos + 1 < u
      BY SMTT(30), <1>0, <1>3, <1>4, <1>6
    <3>2. h[pos + 1].inode = i
      BY <1>1, <3>1 DEF FileAt
    <3>3. h[pos + 1].pgoff = (pos + 1) - f.start
      BY <1>1, <3>1, <3>2 DEF FileAt
    <3> QED
      BY <1>0, <1>4, <3>1, <3>3
  <2>2. Len(page.data) = DataSize
    BY <2>1 DEF Rewrites
  <2>3. Len(h[pos].data) = DataSize
    <3>1. Len(h[(pos + 1) - 1].data) = DataSize
      BY <2>1 DEF ArrayOK, Linked
    <3>2. (pos + 1) - 1 = pos
      BY <1>0
    <3> QED
      BY <3>1, <3>2
  <2>4. e.size = f.size
    BY <1>0, <2>2, <2>3
  <2>5. g[last] = h[last]
    BY <1>3, <1>6 DEF RewrittenPage
  <2> HIDE DEF last
  <2> QED
    BY <1>1, <1>2, <2>4, <2>5 DEF HandleOK, last
<1> QED
  BY <1>5, <1>6

-----------------------------------------------------------------------------
\* The bytes of the used pages.
LEMMA SizesFacts ==
  ASSUME NEW h \in [Pages -> AnyPage]
  PROVE  \A k \in Pages : /\ Sizes(h)[k] = Len(h[k].data) /\ Sizes(h)[k] \in Int
                          /\ h[k].fcs => Sizes(h)[k] \in 0..DataSize
<1>1. DataSize \in Nat
  BY SizesAssumption
<1>2. \A k \in Pages : Len(h[k].data) \in Nat /\ (h[k].fcs => Len(h[k].data) <= DataSize)
  BY PageFields
<1> QED
  BY <1>1, <1>2 DEF Sizes

\* The used pages hold between no byte and all the bytes there are.
LEMMA SumRange ==
  ASSUME NEW h, NEW u, ArrayOK(h, u)
  PROVE  SumFunctionOnSet(Sizes(h), Used(u)) \in 0..(DataSize * PageCnt)
<1>1. /\ u \in 0..PageCnt /\ Used(u) \subseteq Pages /\ IsFiniteSet(Used(u)) /\ IsFiniteSet(Pages)
      /\ PageCnt \in Nat /\ PageCnt > 0 /\ DataSize \in Nat
  BY UsedFacts DEF ArrayOK
<1>2. \A k \in Used(u) : Sizes(h)[k] \in 0..DataSize
  BY <1>1, SizesFacts DEF ArrayOK, Ordered
<1>3. SumFunctionOnSet(Sizes(h), Used(u)) \in 0..(DataSize * Cardinality(Used(u)))
  BY <1>1, <1>2, SumBounds
<1>4. Cardinality(Pages) = PageCnt
  <2>1. Cardinality(0..(PageCnt - 1)) = IF 0 > PageCnt - 1 THEN 0 ELSE (PageCnt - 1) - 0 + 1
    BY <1>1, FS_Interval
  <2> QED
    BY <1>1, <2>1 DEF Pages
<1>5. Cardinality(Used(u)) \in Nat /\ Cardinality(Used(u)) <= PageCnt
  BY <1>1, <1>4, FS_Subset, FS_CardinalityType
<1>6. \A a, b, c \in Nat : b <= c => a * b <= a * c
  OBVIOUS
<1>7. DataSize * Cardinality(Used(u)) <= DataSize * PageCnt
  BY <1>1, <1>5, <1>6
<1>8. DataSize * Cardinality(Used(u)) \in Nat /\ DataSize * PageCnt \in Nat
  BY <1>1, <1>5
<1> QED
  BY <1>3, <1>7, <1>8

\* An allocated page adds its bytes.
LEMMA InsertSum ==
  ASSUME NEW h, NEW u, ArrayOK(h, u), u < PageCnt, NEW pos \in 0..u, NEW page \in AnyPage,
         NEW g, InsertedPage(h, u, pos, page, g)
  PROVE  SumFunctionOnSet(Sizes(g), Used(u + 1))
           = SumFunctionOnSet(Sizes(h), Used(u)) + Len(page.data)
<1>0. /\ u \in 0..PageCnt /\ u \in Nat /\ pos \in Nat /\ pos <= u /\ PageCnt \in Nat
      /\ u + 1 \in 0..PageCnt /\ pos \in Pages
  <2>1. u \in 0..PageCnt /\ PageCnt \in Nat
    BY UsedFacts DEF ArrayOK
  <2> QED
    BY <2>1 DEF Pages
<1>1. /\ \A k \in Used(u) : k \in Nat /\ k < u /\ k \in Pages
      /\ \A k \in Used(u + 1) : k \in Nat /\ k <= u /\ k \in Pages
      /\ \A k \in Nat : k < u => k \in Used(u)
      /\ \A k \in Nat : k <= u => k \in Used(u + 1)
      /\ IsFiniteSet(Used(u))
  BY <1>0, UsedFacts
<1> DEFINE to == [k \in Used(u) |-> IF k < pos THEN k ELSE k + 1]
           image == {to[k] : k \in Used(u)}
<1>2. \A k \in Used(u) : to[k] \in Used(u + 1) /\ to[k] # pos
  BY <1>0, <1>1
<1>3. \A j, k \in Used(u) : to[j] = to[k] => j = k
  BY <1>0, <1>1
<1>4. Used(u + 1) = image \cup {pos} /\ pos \notin image
  <2>1. ASSUME NEW k \in Used(u + 1), k # pos PROVE \E j \in Used(u) : to[j] = k
    <3>1. CASE k < pos
      <4>1. k \in Used(u)
        BY <1>0, <1>1, <3>1
      <4> QED
        BY <3>1, <4>1
    <3>2. CASE pos < k
      <4>1. k - 1 \in Used(u) /\ ~(k - 1 < pos) /\ (k - 1) + 1 = k
        BY <1>0, <1>1, <3>2
      <4>2. to[k - 1] = k
        BY <4>1
      <4> QED
        BY <4>1, <4>2
    <3> QED
      BY <1>0, <1>1, <2>1, <3>1, <3>2
  <2>2. pos \in Used(u + 1)
    BY <1>0, <1>1
  <2> HIDE DEF to
  <2> QED
    BY <1>2, <2>1, <2>2
<1>5. \A k \in Used(u) : Sizes(h)[k] \in Int /\ Sizes(h)[k] = Sizes(g)[to[k]]
  <2> SUFFICES ASSUME NEW k \in Used(u) PROVE Sizes(h)[k] \in Int /\ Sizes(h)[k] = Sizes(g)[to[k]]
    OBVIOUS
  <2>1. g[to[k]] = h[k]
    <3>1. CASE k < pos
      BY <1>1, <3>1 DEF InsertedPage
    <3>2. CASE ~(k < pos)
      <4>1. k + 1 \in Pages /\ pos < k + 1 /\ k + 1 <= u /\ (k + 1) - 1 = k /\ to[k] = k + 1
        BY <1>0, <1>1, <3>2, UsedFacts
      <4> QED
        BY <4>1 DEF InsertedPage
    <3> QED
      BY <3>1, <3>2
  <2>2. k \in Pages /\ to[k] \in Pages
    BY <1>1, <1>2
  <2>3. Sizes(h)[k] = Len(h[k].data) /\ Sizes(h)[k] \in Int
    BY <2>2, SizesFacts DEF ArrayOK
  <2>4. Sizes(g)[to[k]] = Len(g[to[k]].data)
    BY <2>2 DEF Sizes
  <2> QED
    BY <2>1, <2>3, <2>4
<1> HIDE DEF to
<1>6. IsFiniteSet(image) /\ SumFunctionOnSet(Sizes(g), image) = SumFunctionOnSet(Sizes(h), Used(u))
  BY <1>1, <1>3, <1>5, SumImage
<1>7. \A k \in image \cup {pos} : Sizes(g)[k] \in Int
  <2>1. \A k \in Pages : Sizes(g)[k] \in Int
    BY SizesFacts DEF InsertedPage
  <2> QED
    BY <1>1, <1>4, <2>1
<1> HIDE DEF image
<1>8. SumFunctionOnSet(Sizes(g), image \cup {pos}) = Sizes(g)[pos] + SumFunctionOnSet(Sizes(g), image)
  BY <1>4, <1>6, <1>7, SumAdd
<1>9. Sizes(g)[pos] = Len(page.data)
  BY <1>0 DEF Sizes, InsertedPage
<1>10. SumFunctionOnSet(Sizes(h), Used(u)) \in Int /\ Len(page.data) \in Nat
  <2>1. SumFunctionOnSet(Sizes(h), Used(u)) \in 0..(DataSize * PageCnt)
    BY SumRange
  <2> QED
    BY <2>1, PageFields
<1>11. SumFunctionOnSet(Sizes(g), Used(u + 1)) = Sizes(g)[pos] + SumFunctionOnSet(Sizes(g), image)
  BY <1>4, <1>8
<1> QED
  BY <1>6, <1>9, <1>10, <1>11

\* A rewritten page adds the bytes it grew by.
LEMMA RewriteSum ==
  ASSUME NEW h, NEW u, ArrayOK(h, u), NEW pos \in Used(u), NEW page \in AnyPage,
         NEW g, NEW from, RewrittenPage(h, u, pos, page, g, from)
  PROVE  SumFunctionOnSet(Sizes(g), Used(u))
           = SumFunctionOnSet(Sizes(h), Used(u)) + (Len(page.data) - Len(h[pos].data))
<1>1. /\ u \in 0..PageCnt /\ Used(u) \subseteq Pages /\ IsFiniteSet(Used(u)) /\ pos \in Pages
      /\ IsFiniteSet(Used(u) \ {pos})
  BY UsedFacts, FS_RemoveElement DEF ArrayOK
<1>2. \A k \in Used(u) : Sizes(h)[k] \in Int /\ Sizes(g)[k] \in Int
  BY <1>1, SizesFacts DEF ArrayOK, RewrittenPage
<1>3. SumFunctionOnSet(Sizes(h), Used(u)) = Sizes(h)[pos] + SumFunctionOnSet(Sizes(h), Used(u) \ {pos})
  BY <1>1, <1>2, SumRemove
<1>4. SumFunctionOnSet(Sizes(g), Used(u)) = Sizes(g)[pos] + SumFunctionOnSet(Sizes(g), Used(u) \ {pos})
  BY <1>1, <1>2, SumRemove
<1>5. \A k \in Used(u) \ {pos} : Sizes(h)[k] \in Int /\ Sizes(h)[k] = Sizes(g)[k]
  BY <1>1, <1>2 DEF Sizes, RewrittenPage
<1>6. SumFunctionOnSet(Sizes(h), Used(u) \ {pos}) = SumFunctionOnSet(Sizes(g), Used(u) \ {pos})
  BY <1>1, <1>5, SumAgree
<1>7. SumFunctionOnSet(Sizes(h), Used(u) \ {pos}) \in Int
  BY <1>1, <1>5, SumType
<1>8. Sizes(h)[pos] = Len(h[pos].data) /\ Sizes(g)[pos] = Len(page.data)
  BY <1>1 DEF Sizes, RewrittenPage
<1>9. Len(page.data) \in Nat /\ Len(h[pos].data) \in Nat
  BY <1>1, PageFields DEF ArrayOK
<1>10. PICK rest \in Int : rest = SumFunctionOnSet(Sizes(h), Used(u) \ {pos})
  BY <1>7
<1>11. PICK old \in Nat : old = Len(h[pos].data)
  BY <1>9
<1>12. PICK new \in Nat : new = Len(page.data)
  BY <1>9
<1>13. /\ SumFunctionOnSet(Sizes(h), Used(u)) = old + rest
       /\ SumFunctionOnSet(Sizes(g), Used(u)) = new + rest
  BY <1>3, <1>4, <1>6, <1>8, <1>10, <1>11, <1>12
<1>14. new + rest = (old + rest) + (new - old)
  BY <1>10
<1> QED
  BY <1>11, <1>12, <1>13, <1>14
\* The pages of a file stand together.
LEMMA FileExists ==
  ASSUME NEW h, NEW u, ArrayOK(h, u), NEW i
  PROVE  \E s, n \in Nat : FileAt(h, u, i, s, n)
<1>0. /\ u \in 0..PageCnt /\ u \in Nat /\ PageCnt \in Nat
      /\ \A k \in Used(u) : k \in Pages /\ k \in Nat /\ k < u /\ h[k].pgoff \in Nat /\ h[k].inode \in Nat
      /\ \A k \in Nat : k < u => k \in Used(u)
  BY UsedFacts, PageFields DEF ArrayOK
<1>1. CASE \A k \in Used(u) : h[k].inode # i
  <2>1. FileAt(h, u, i, 0, 0)
    BY <1>0, <1>1 DEF FileAt
  <2> QED
    BY <2>1
<1>2. CASE \E k \in Used(u) : h[k].inode = i
  <2> DEFINE None == {d \in Nat : \A k \in Used(u) : h[k].inode = i => ~(k >= u - d)}
  <2>1. \E d \in Nat : d \in None /\ d + 1 \notin None
    <3> SUFFICES ASSUME \A d \in Nat : d \in None => d + 1 \in None PROVE FALSE
      OBVIOUS
    <3>1. 0 \in None
      BY <1>0
    <3> HIDE DEF None
    <3>2. \A d \in Nat : d \in None
      BY <3>1, InductiveSet
    <3>3. u \in None
      BY <1>0, <3>2
    <3> QED
      BY <1>0, <1>2, <3>3 DEF None
  <2>2. PICK d \in Nat : d \in None /\ d + 1 \notin None
    BY <2>1
  <2>3. PICK k \in Used(u) : h[k].inode = i /\ k >= u - (d + 1)
    BY <2>2
  <2>4. \A j \in Used(u) : h[j].inode = i => j <= k
    BY <1>0, <2>2, <2>3
  <2> HIDE DEF None
  <2> DEFINE s == k - h[k].pgoff
             n == h[k].pgoff + 1
  <2>5. h[k].pgoff \in Nat /\ h[k].pgoff <= k /\ s \in Nat /\ n \in Nat /\ s + n = k + 1 /\ s <= k
    <3>1. h[k].pgoff <= k
      BY <1>0, Predecessors
    <3> QED
      BY <1>0, <3>1
  <2>6. ASSUME NEW j \in Used(u), s <= j, j <= k PROVE h[j].inode = i /\ h[j].pgoff = j - s
    <3>1. PICK e \in Nat : e = k - j
      BY <1>0, <2>6
    <3>2. e <= h[k].pgoff /\ k - e = j /\ h[k].pgoff - e = j - s
      BY <1>0, <2>5, <2>6, <3>1
    <3>3. h[k - e].inode = h[k].inode /\ h[k - e].pgoff = h[k].pgoff - e
      BY <3>2, Predecessors
    <3> QED
      BY <2>3, <3>2, <3>3
  <2>7. ASSUME NEW j \in Used(u), h[j].inode = i PROVE s <= j /\ j <= k
    <3>1. j <= k
      BY <2>4, <2>7
    <3>2. ASSUME j < s PROVE FALSE
      <4>1. s \in Used(u) /\ s <= s
        BY <1>0, <2>5
      <4>2. h[s].inode = i /\ h[s].pgoff = s - s
        BY <2>5, <2>6, <4>1
      <4>3. Before(h[j], h[s])
        BY <3>2, <4>1 DEF ArrayOK, Ordered
      <4>4. s - s = 0
        BY <2>5
      <4> HIDE DEF s
      <4> QED
        BY <1>0, <2>7, <4>2, <4>3, <4>4 DEF Before
    <3> QED
      BY <1>0, <2>5, <3>1, <3>2
  <2> HIDE DEF s, n
  <2>8. \A j \in Used(u) : h[j].inode = i <=> (s <= j /\ j < s + n)
    BY <1>0, <2>5, <2>6, <2>7
  <2>9. FileAt(h, u, i, s, n)
    BY <1>0, <2>5, <2>6, <2>7, <2>8 DEF FileAt
  <2> QED
    BY <2>5, <2>9
<1> QED
  BY <1>1, <1>2

\* What readHdr() gives for a position of the array.
LEMMA NowPages ==
  ASSUME dev \in AnyDevice, Listed(page_array)
  PROVE  /\ Now \in [Pages -> AnyPage]
         /\ \A k \in Pages : PageAt(k) = Now[k] /\ Now[k] = View(dev)[page_array[k]]
                             /\ page_array[k] \in Pages
         /\ \A k : k \notin Pages => PageAt(k) = Blank
<1>1. \A k \in Pages : page_array[k] \in Pages
  BY DEF Listed
<1>2. \A k \in Pages : PageAt(k) = Now[k] /\ Now[k] = View(dev)[page_array[k]]
  BY <1>1 DEF PageAt, Now, InOrder, View
<1>3. Now \in [Pages -> AnyPage]
  BY <1>1, ViewType DEF Now, InOrder
<1>4. \A k : k \notin Pages => PageAt(k) = Blank
  BY DEF PageAt
<1> QED
  BY <1>1, <1>2, <1>3, <1>4

-----------------------------------------------------------------------------
\* The recursion of findFile().
Ranges == (0..PageCnt) \X (0..PageCnt)

SearchBody(inode, search, range) ==
  LET first == range[1]
      last == range[2]
      mid == (first + last) \div 2
      hdr == PageAt(mid)
  IN IF first >= last THEN [found |-> FALSE, start |-> last]
     ELSE IF hdr.fcs /\ hdr.inode = inode
     THEN [found |-> TRUE, start |-> mid - hdr.pgoff]
     ELSE IF hdr.fcs /\ hdr.inode < inode THEN search[<<mid + 1, last>>]
     ELSE search[<<first, mid>>]

\* The middle that findFile() looks at lies in the range it searches.
LEMMA Middle ==
  ASSUME NEW first \in 0..PageCnt, NEW last \in 0..PageCnt, first < last
  PROVE  LET mid == (first + last) \div 2 IN
         /\ mid \in Nat /\ first <= mid /\ mid < last /\ mid \in Pages
         /\ <<mid + 1, last>> \in Ranges /\ <<first, mid>> \in Ranges
<1>0. PageCnt \in Nat /\ \A k : k \in Pages <=> k \in Nat /\ k < PageCnt
  BY SizesAssumption, UsedFacts
<1>1. PICK mid \in Int : mid = (first + last) \div 2
  OBVIOUS
<1>2. 2 * mid <= first + last /\ first + last < 2 * mid + 2
  BY <1>1
<1>3. mid \in Nat /\ first <= mid /\ mid < last /\ mid \in Pages
  BY <1>0, <1>1, <1>2
<1>4. mid + 1 \in 0..PageCnt /\ mid \in 0..PageCnt
  BY <1>0, <1>3
<1> QED
  BY <1>1, <1>3, <1>4 DEF Ranges

\* A turn looks at the answer for a smaller range only.
LEMMA SearchLocal ==
  ASSUME NEW inode, NEW f, NEW g, NEW r \in Ranges,
         \A q \in Ranges : q[2] - q[1] < r[2] - r[1] => f[q] = g[q]
  PROVE  SearchBody(inode, f, r) = SearchBody(inode, g, r)
<1>1. PICK first, last \in 0..PageCnt : r = <<first, last>>
  BY DEF Ranges
<1>2. r[1] = first /\ r[2] = last
  BY <1>1
<1>3. CASE first >= last
  BY <1>2, <1>3 DEF SearchBody
<1>4. CASE ~(first >= last)
  <2>1. PICK mid : mid = (first + last) \div 2
    OBVIOUS
  <2>2. /\ mid \in Nat /\ first <= mid /\ mid < last
        /\ <<mid + 1, last>> \in Ranges /\ <<first, mid>> \in Ranges
    BY <1>1, <1>4, <2>1, Middle
  <2>3. last - (mid + 1) < last - first /\ mid - first < last - first
    BY <1>1, <2>2
  <2>4. f[<<mid + 1, last>>] = g[<<mid + 1, last>>] /\ f[<<first, mid>>] = g[<<first, mid>>]
    BY <1>2, <2>2, <2>3
  <2> QED
    BY <1>2, <1>4, <2>1, <2>4 DEF SearchBody
<1> QED
  BY <1>3, <1>4

\* The recursion of findFile() has a solution.
LEMMA SearchSolution ==
  ASSUME NEW inode
  PROVE  \E f : /\ \A r \in Ranges : f[r] = SearchBody(inode, f, r)
                /\ FindFile(inode) = f[<<0, free_page_start>>]
<1> DEFINE Upto(f, d) == \A r \in Ranges : r[2] - r[1] <= d => f[r] = SearchBody(inode, f, r)
           Good == {d \in Nat : \E f : Upto(f, d)}
<1>0. PageCnt \in Nat /\ \A r \in Ranges : r[1] \in 0..PageCnt /\ r[2] \in 0..PageCnt
  BY SizesAssumption DEF Ranges
<1>1. 0 \in Good
  <2> DEFINE f == [r \in Ranges |-> [found |-> FALSE, start |-> r[2]]]
  <2>1. ASSUME NEW r \in Ranges, r[2] - r[1] <= 0 PROVE f[r] = SearchBody(inode, f, r)
    <3>1. r[1] >= r[2]
      BY <1>0, <2>1
    <3> QED
      BY <3>1 DEF SearchBody
  <2>2. Upto(f, 0)
    BY <2>1
  <2> QED
    BY <2>2
<1>2. ASSUME NEW d \in Nat, d \in Good PROVE d + 1 \in Good
  <2>1. PICK f : Upto(f, d)
    BY <1>2
  <2> DEFINE g == [r \in Ranges |-> SearchBody(inode, f, r)]
  <2>2. \A r \in Ranges : r[2] - r[1] <= d => g[r] = f[r]
    BY <2>1
  <2>3. ASSUME NEW r \in Ranges, r[2] - r[1] <= d + 1 PROVE g[r] = SearchBody(inode, g, r)
    <3>1. g[r] = SearchBody(inode, f, r)
      OBVIOUS
    <3> HIDE DEF g
    <3>2. \A q \in Ranges : q[2] - q[1] < r[2] - r[1] => f[q] = g[q]
      BY <1>0, <2>2, <2>3
    <3>3. SearchBody(inode, f, r) = SearchBody(inode, g, r)
      BY <3>2, SearchLocal
    <3> QED
      BY <3>1, <3>3
  <2>4. Upto(g, d + 1)
    BY <2>3
  <2> HIDE DEF g, Upto
  <2> QED
    BY <2>4
<1>3. \A d \in Nat : d \in Good
  <2> HIDE DEF Good
  <2> QED
    BY <1>1, <1>2, InductiveSet
<1>4. PICK f : Upto(f, PageCnt)
  BY <1>0, <1>3
<1>5. \A r \in Ranges : f[r] = SearchBody(inode, f, r)
  BY <1>0, <1>4
<1> DEFINE g == [r \in Ranges |-> SearchBody(inode, f, r)]
<1>6. \A r \in Ranges : g[r] = f[r]
  BY <1>5
<1>7. \A r \in Ranges : SearchBody(inode, f, r) = SearchBody(inode, g, r)
  BY <1>6, SearchLocal
<1>8. g = [r \in Ranges |-> SearchBody(inode, g, r)]
  BY <1>7
<1> HIDE DEF g
<1>9. \E h : h = [r \in Ranges |-> SearchBody(inode, h, r)] /\ FindFile(inode) = h[<<0, free_page_start>>]
  BY <1>8 DEF FindFile, SearchBody, Ranges
<1>10. PICK h : h = [r \in Ranges |-> SearchBody(inode, h, r)] /\ FindFile(inode) = h[<<0, free_page_start>>]
  BY <1>9
<1>11. \A r \in Ranges : h[r] = SearchBody(inode, h, r)
  BY <1>10
<1> QED
  BY <1>10, <1>11

\* All files before position p are before a file, and all others after it.
Between(h, u, i, p) ==
  /\ p \in 0..u
  /\ \A k \in Used(u) : k < p => h[k].inode < i
  /\ \A k \in Used(u) : k >= p => h[k].inode > i

\* findFile() finds the file, or the place for it.
LEMMA FindFileValue ==
  ASSUME dev \in AnyDevice, Listed(page_array), ArrayOK(Now, free_page_start), NEW i \in Nat,
         NEW s, NEW n, FileAt(Now, free_page_start, i, s, n)
  PROVE  /\ n > 0 => FindFile(i) = [found |-> TRUE, start |-> s]
         /\ n = 0 => \E p : /\ FindFile(i) = [found |-> FALSE, start |-> p]
                            /\ Between(Now, free_page_start, i, p)
<1> DEFINE u == free_page_start
           Answer(a) ==
             /\ n > 0 => a = [found |-> TRUE, start |-> s]
             /\ n = 0 => \E p : a = [found |-> FALSE, start |-> p] /\ Between(Now, u, i, p)
           Sorted(first, last) ==
             /\ first <= last /\ last <= u
             /\ \A k \in Used(u) : k < first => Now[k].inode < i
             /\ \A k \in Used(u) : k >= last => Now[k].inode > i
<1>0. /\ u \in 0..PageCnt /\ u \in Nat /\ PageCnt \in Nat /\ s \in Nat /\ n \in Nat /\ s + n <= u
      /\ \A k \in Used(u) : k \in Pages /\ k \in Nat /\ k < u
      /\ \A k \in Used(u) : Now[k].pgoff \in Nat /\ Now[k].inode \in Nat /\ Now[k].fcs
      /\ \A k \in Nat : k < u => k \in Used(u)
  BY UsedFacts, PageFields DEF ArrayOK, FileAt, Ordered
<1>1. PICK f : /\ \A r \in Ranges : f[r] = SearchBody(i, f, r)
               /\ FindFile(i) = f[<<0, free_page_start>>]
  BY SearchSolution
<1>2. /\ \A k \in Used(u) : Now[k].inode = i <=> (s <= k /\ k < s + n)
      /\ \A k \in Used(u) : Now[k].inode = i => Now[k].pgoff = k - s
  BY DEF FileAt
<1>3. \A j, k \in Used(u) : j < k => Now[j].inode <= Now[k].inode
  <2>1. \A j, k \in Used(u) : j < k => Before(Now[j], Now[k])
    BY DEF ArrayOK, Ordered
  <2> QED
    BY <1>0, <2>1 DEF Before
<1> DEFINE Good == {d \in Nat : \A first, last \in 0..PageCnt :
                      last - first <= d /\ Sorted(first, last) => Answer(f[<<first, last>>])}
<1>4. ASSUME NEW first \in 0..PageCnt, first >= first, Sorted(first, first)
      PROVE  Answer(f[<<first, first>>])
  <2>1. <<first, first>> \in Ranges
    BY DEF Ranges
  <2>2. f[<<first, first>>] = [found |-> FALSE, start |-> first]
    BY <1>1, <1>4, <2>1 DEF SearchBody
  <2>3. Between(Now, u, i, first)
    BY <1>0, <1>4 DEF Between
  <2>4. n = 0
    <3> SUFFICES ASSUME n > 0 PROVE FALSE
      BY <1>0
    <3>1. s \in Used(u) /\ Now[s].inode = i
      BY <1>0, <1>2
    <3>2. Now[s].inode < i \/ Now[s].inode > i
      BY <1>0, <1>4, <3>1
    <3> QED
      BY <3>1, <3>2
  <2>5. ~(n > 0)
    BY <2>4
  <2> HIDE DEF u
  <2> QED
    BY <2>2, <2>3, <2>5
<1>5. 0 \in Good
  <2>1. ASSUME NEW first \in 0..PageCnt, NEW last \in 0..PageCnt, last - first <= 0, Sorted(first, last)
        PROVE  Answer(f[<<first, last>>])
    <3>1. last = first
      BY <2>1
    <3> HIDE DEF Answer, Sorted
    <3> QED
      BY <1>4, <2>1, <3>1
  <2> HIDE DEF Answer, Sorted
  <2> QED
    BY <2>1
<1>6. ASSUME NEW d \in Nat, d \in Good PROVE d + 1 \in Good
  <2>1. ASSUME NEW first \in 0..PageCnt, NEW last \in 0..PageCnt, last - first <= d + 1, Sorted(first, last)
        PROVE  Answer(f[<<first, last>>])
    <3>1. CASE ~(first < last)
      <4>1. last = first
        BY <2>1, <3>1
      <4> HIDE DEF Answer, Sorted
      <4> QED
        BY <1>4, <2>1, <4>1
    <3>2. CASE first < last
      <4>1. PICK mid : mid = (first + last) \div 2
        OBVIOUS
      <4>2. /\ mid \in Nat /\ first <= mid /\ mid < last /\ mid \in Pages
            /\ <<mid + 1, last>> \in Ranges /\ <<first, mid>> \in Ranges
        BY <3>2, <4>1, Middle
      <4>3. mid \in Used(u) /\ mid + 1 \in 0..PageCnt /\ mid \in 0..PageCnt
        BY <1>0, <2>1, <4>2
      <4>4. PageAt(mid) = Now[mid] /\ Now[mid].fcs
        BY <1>0, <4>2, <4>3, NowPages
      <4>5. <<first, last>> \in Ranges
        BY DEF Ranges
      <4>6. f[<<first, last>>] = SearchBody(i, f, <<first, last>>)
        BY <1>1, <4>5
      <4>7. SearchBody(i, f, <<first, last>>)
              = IF Now[mid].inode = i THEN [found |-> TRUE, start |-> mid - Now[mid].pgoff]
                ELSE IF Now[mid].inode < i THEN f[<<mid + 1, last>>] ELSE f[<<first, mid>>]
        <5>1. ~(first >= last)
          BY <3>2
        <5> QED
          BY <4>1, <4>4, <5>1 DEF SearchBody
      <4>8. CASE Now[mid].inode = i
        <5>1. s <= mid /\ mid < s + n /\ Now[mid].pgoff = mid - s
          BY <1>2, <4>3, <4>8
        <5>2. n > 0 /\ n # 0 /\ mid - Now[mid].pgoff = s
          BY <1>0, <4>2, <5>1
        <5>3. f[<<first, last>>] = [found |-> TRUE, start |-> s]
          BY <4>6, <4>7, <4>8, <5>2
        <5> QED
          BY <5>2, <5>3
      <4>9. CASE Now[mid].inode < i
        <5>1. f[<<first, last>>] = f[<<mid + 1, last>>]
          BY <1>0, <4>3, <4>6, <4>7, <4>9
        <5>2. Sorted(mid + 1, last)
          <6>1. \A k \in Used(u) : k < mid + 1 => Now[k].inode < i
            BY <1>0, <1>3, <4>2, <4>3, <4>9
          <6> QED
            BY <2>1, <4>2, <6>1
        <5>3. last - (mid + 1) <= d
          BY <2>1, <4>2
        <5>4. Answer(f[<<mid + 1, last>>])
          <6> HIDE DEF Answer, Sorted
          <6> QED
            BY <1>6, <4>3, <5>2, <5>3
        <5> HIDE DEF Answer
        <5> QED
          BY <5>1, <5>4
      <4>10. CASE Now[mid].inode > i
        <5>1. f[<<first, last>>] = f[<<first, mid>>]
          BY <1>0, <4>3, <4>6, <4>7, <4>10
        <5>2. Sorted(first, mid)
          <6>1. \A k \in Used(u) : k >= mid => Now[k].inode > i
            BY <1>0, <1>3, <4>2, <4>3, <4>10
          <6> QED
            BY <1>0, <2>1, <4>2, <6>1
        <5>3. mid - first <= d
          BY <2>1, <4>2
        <5>4. Answer(f[<<first, mid>>])
          <6> HIDE DEF Answer, Sorted
          <6> QED
            BY <1>6, <4>3, <5>2, <5>3
        <5> HIDE DEF Answer
        <5> QED
          BY <5>1, <5>4
      <4> HIDE DEF Answer
      <4> QED
        BY <1>0, <4>3, <4>8, <4>9, <4>10
    <3> HIDE DEF Answer
    <3> QED
      BY <3>1, <3>2
  <2> HIDE DEF Answer, Sorted
  <2> QED
    BY <2>1
<1>7. u \in Good
  <2> HIDE DEF Good
  <2> QED
    BY <1>0, <1>5, <1>6, InductiveSet
<1>8. 0 \in 0..PageCnt /\ u - 0 <= u /\ Sorted(0, u)
  BY <1>0
<1>9. Answer(f[<<0, u>>])
  <2> HIDE DEF Answer, Sorted, u
  <2> QED
    BY <1>0, <1>7, <1>8
<1> QED
  BY <1>1, <1>9

-----------------------------------------------------------------------------
\* The recursion of countFileSize().
SizeBody(inode, size, pos) ==
  IF pos < free_page_start /\ PageAt(pos).fcs /\ PageAt(pos).inode = inode
  THEN Len(PageAt(pos).data) + size[pos + 1] ELSE 0

\* The recursion of countFileSize() has a solution.
LEMMA SizeSolution ==
  ASSUME NEW inode, free_page_start \in 0..PageCnt, NEW start
  PROVE  \E f : /\ \A k \in 0..PageCnt : f[k] = SizeBody(inode, f, k)
                /\ FileSize(inode, start) = f[start]
<1> DEFINE Upto(f, d) == \A k \in 0..PageCnt : PageCnt - k <= d => f[k] = SizeBody(inode, f, k)
           Good == {d \in Nat : \E f : Upto(f, d)}
<1>0. PageCnt \in Nat /\ free_page_start \in Nat /\ free_page_start <= PageCnt
  BY SizesAssumption
<1>l. ASSUME NEW f, NEW g, NEW k \in 0..PageCnt, k + 1 <= PageCnt => f[k + 1] = g[k + 1]
      PROVE  SizeBody(inode, f, k) = SizeBody(inode, g, k)
  <2>1. k < free_page_start => f[k + 1] = g[k + 1]
    BY <1>0, <1>l
  <2> QED
    BY <2>1 DEF SizeBody
<1>1. 0 \in Good
  <2> DEFINE f == [k \in 0..PageCnt |-> 0]
  <2>1. ASSUME NEW k \in 0..PageCnt, PageCnt - k <= 0 PROVE f[k] = SizeBody(inode, f, k)
    <3>1. ~(k < free_page_start)
      BY <1>0, <2>1
    <3> QED
      BY <3>1 DEF SizeBody
  <2>2. Upto(f, 0)
    BY <2>1
  <2> QED
    BY <2>2
<1>2. ASSUME NEW d \in Nat, d \in Good PROVE d + 1 \in Good
  <2>1. PICK f : Upto(f, d)
    BY <1>2
  <2> DEFINE g == [k \in 0..PageCnt |-> SizeBody(inode, f, k)]
  <2>2. \A k \in 0..PageCnt : PageCnt - k <= d => g[k] = f[k]
    BY <2>1
  <2>3. ASSUME NEW k \in 0..PageCnt, PageCnt - k <= d + 1 PROVE g[k] = SizeBody(inode, g, k)
    <3>1. g[k] = SizeBody(inode, f, k)
      OBVIOUS
    <3> HIDE DEF g
    <3>2. k + 1 <= PageCnt => f[k + 1] = g[k + 1]
      BY <1>0, <2>2, <2>3
    <3> QED
      BY <1>l, <3>1, <3>2
  <2>4. Upto(g, d + 1)
    BY <2>3
  <2> HIDE DEF g, Upto
  <2> QED
    BY <2>4
<1>3. \A d \in Nat : d \in Good
  <2> HIDE DEF Good
  <2> QED
    BY <1>1, <1>2, InductiveSet
<1>4. PICK f : Upto(f, PageCnt)
  BY <1>0, <1>3
<1>5. \A k \in 0..PageCnt : f[k] = SizeBody(inode, f, k)
  BY <1>0, <1>4
<1> DEFINE g == [k \in 0..PageCnt |-> SizeBody(inode, f, k)]
<1>6. \A k \in 0..PageCnt : g[k] = f[k]
  BY <1>5
<1>7. \A k \in 0..PageCnt : SizeBody(inode, f, k) = SizeBody(inode, g, k)
  <2> HIDE DEF g
  <2>1. \A k \in 0..PageCnt : k + 1 <= PageCnt => f[k + 1] = g[k + 1]
    BY <1>0, <1>6
  <2> QED
    BY <1>l, <2>1
<1>8. g = [k \in 0..PageCnt |-> SizeBody(inode, g, k)]
  BY <1>7
<1> HIDE DEF g
<1>9. \E h : h = [k \in 0..PageCnt |-> SizeBody(inode, h, k)] /\ FileSize(inode, start) = h[start]
  BY <1>8 DEF FileSize, SizeBody
<1>10. PICK h : h = [k \in 0..PageCnt |-> SizeBody(inode, h, k)] /\ FileSize(inode, start) = h[start]
  BY <1>9
<1>11. \A k \in 0..PageCnt : h[k] = SizeBody(inode, h, k)
  BY <1>10
<1> QED
  BY <1>10, <1>11

\* countFileSize() gives the number of bytes in the file.
LEMMA FileSizeValue ==
  ASSUME dev \in AnyDevice, Listed(page_array), ArrayOK(Now, free_page_start), NEW i,
         NEW s, NEW n, n > 0, FileAt(Now, free_page_start, i, s, n)
  PROVE  FileSize(i, s) = (n - 1) * DataSize + Len(Now[s + n - 1].data)
<1> DEFINE u == free_page_start
<1>0. /\ u \in 0..PageCnt /\ u \in Nat /\ PageCnt \in Nat /\ s \in Nat /\ n \in Nat /\ s + n <= u
      /\ u <= PageCnt /\ DataSize \in Nat
      /\ \A k \in Used(u) : k \in Pages /\ k \in Nat /\ k < u
      /\ \A k \in Used(u) : Now[k].pgoff \in Nat /\ Len(Now[k].data) \in Nat /\ Now[k].fcs
      /\ \A k \in Nat : k < u => k \in Used(u)
  BY UsedFacts, PageFields DEF ArrayOK, FileAt, Ordered
<1>1. PICK f : /\ \A k \in 0..PageCnt : f[k] = SizeBody(i, f, k)
               /\ FileSize(i, s) = f[s]
  BY <1>0, SizeSolution
<1>2. /\ \A k \in Used(u) : Now[k].inode = i <=> (s <= k /\ k < s + n)
      /\ \A k \in Used(u) : Now[k].inode = i => Now[k].pgoff = k - s
  BY DEF FileAt
<1>3. \A k \in Used(u) : PageAt(k) = Now[k]
  BY <1>0, NowPages
<1>4. PICK last \in Nat : last = Len(Now[s + n - 1].data)
  <2>1. s + n - 1 \in Used(u)
    BY <1>0
  <2> QED
    BY <1>0, <2>1
\* A page of the file counts, and so do those after it.
<1>5. ASSUME NEW k \in Nat, s <= k, k < s + n PROVE f[k] = Len(Now[k].data) + f[k + 1]
  <2>1. k \in Used(u) /\ k \in 0..PageCnt /\ k < free_page_start
    BY <1>0, <1>5
  <2>2. PageAt(k) = Now[k] /\ Now[k].fcs /\ Now[k].inode = i
    BY <1>0, <1>2, <1>3, <1>5, <2>1
  <2> QED
    BY <1>1, <2>1, <2>2 DEF SizeBody
<1>6. f[s + n] = 0
  <2>1. s + n \in 0..PageCnt
    BY <1>0
  <2>2. ASSUME s + n < u PROVE PageAt(s + n).inode # i
    <3>1. s + n \in Used(u)
      BY <1>0, <2>2
    <3>2. Now[s + n].inode # i
      BY <1>0, <1>2, <3>1
    <3> QED
      BY <1>3, <3>1, <3>2
  <2> QED
    BY <1>1, <2>1, <2>2 DEF SizeBody
<1>7. f[s + n - 1] = last
  <2>1. s + n - 1 \in Nat /\ s <= s + n - 1 /\ s + n - 1 < s + n /\ (s + n - 1) + 1 = s + n
    BY <1>0
  <2>2. f[s + n - 1] = Len(Now[s + n - 1].data) + f[(s + n - 1) + 1]
    BY <1>5, <2>1
  <2>3. f[s + n - 1] = last + 0
    BY <1>4, <1>6, <2>1, <2>2
  <2> QED
    BY <1>4, <2>3
\* All but the last are full.
<1>8. ASSUME NEW k \in Nat, s <= k, k + 1 < s + n PROVE Len(Now[k].data) = DataSize
  <2>1. k + 1 \in Used(u) /\ s <= k + 1
    BY <1>0, <1>8
  <2>2. Now[k + 1].pgoff = (k + 1) - s
    BY <1>2, <1>8, <2>1
  <2>3. Now[k + 1].pgoff > 0
    BY <1>0, <1>8, <2>2
  <2>4. Len(Now[(k + 1) - 1].data) = DataSize
    BY <2>1, <2>3 DEF ArrayOK, Linked
  <2>5. (k + 1) - 1 = k
    OBVIOUS
  <2> QED
    BY <2>4, <2>5
<1> DEFINE Good == {d \in Nat : d < n => f[(s + n - 1) - d] = d * DataSize + last}
<1>9. 0 \in Good
  <2>1. (s + n - 1) - 0 = s + n - 1
    BY <1>0
  <2>2. 0 * DataSize = 0
    BY <1>0
  <2>3. last \in Nat
    BY <1>4
  <2>4. 0 + last = last
    BY <2>3
  <2> QED
    BY <1>7, <2>1, <2>2, <2>4
<1>10. ASSUME NEW d \in Nat, d \in Good PROVE d + 1 \in Good
  <2> SUFFICES ASSUME d + 1 < n PROVE f[(s + n - 1) - (d + 1)] = (d + 1) * DataSize + last
    OBVIOUS
  <2>1. PICK k \in Nat : k = (s + n - 1) - (d + 1)
    BY <1>0
  <2>2. k + 1 = (s + n - 1) - d /\ s <= k /\ k + 1 < s + n /\ k < s + n /\ d < n
    BY <1>0, <2>1
  <2>3. f[k] = Len(Now[k].data) + f[k + 1]
    BY <1>5, <2>2
  <2>4. Len(Now[k].data) = DataSize
    BY <1>8, <2>2
  <2>5. f[k + 1] = d * DataSize + last
    BY <1>10, <2>2
  <2>6. DataSize + (d * DataSize + last) = (d + 1) * DataSize + last
    <3>1. (d + 1) * DataSize = d * DataSize + DataSize /\ d * DataSize \in Int
      BY <1>0
    <3>2. last \in Nat /\ DataSize \in Nat
      BY <1>0, <1>4
    <3>3. \A x, y, z \in Int : x + (y + z) = (y + x) + z
      OBVIOUS
    <3> QED
      BY <3>1, <3>2, <3>3
  <2> QED
    BY <2>1, <2>3, <2>4, <2>5, <2>6
<1>11. n - 1 \in Good
  <2>1. n - 1 \in Nat
    BY <1>0
  <2> HIDE DEF Good
  <2> QED
    BY <1>9, <1>10, <2>1, InductiveSet
<1>12. f[(s + n - 1) - (n - 1)] = (n - 1) * DataSize + last
  <2>1. n - 1 < n
    BY <1>0
  <2> QED
    BY <1>11, <2>1
<1>13. (s + n - 1) - (n - 1) = s
  BY <1>0
<1> QED
  BY <1>1, <1>4, <1>12, <1>13

-----------------------------------------------------------------------------
\* Steps.  No page is empty that follows another in its file.
Steady == \A k \in Used(free_page_start) : Now[k].pgoff > 0 => Now[k].data # <<>>

\* What the array, the device and the accounts are after a step.
SoundDisk(d, a, u) ==
  /\ d \in AnyDevice /\ Clean(d) /\ (d.dirty => ~Chosen(d.media, d.curr))
  /\ Distinct(d.media) /\ Whole(d.media)
  /\ Listed(a) /\ ArrayOK(InOrder(View(d), a), u)
  /\ d.dirty => \E k \in Used(u) : a[k] = d.curr

\* The invariant of a mounted file system, in parts.
LEMMA NowSound ==
  ASSUME BattInv, mounted, ~failed
  PROVE  /\ SoundDisk(dev, page_array, free_page_start)
         /\ RunOK /\ DevOK /\ StateOK
         /\ Now \in [Pages -> AnyPage]
         /\ \A k \in Pages : PageAt(k) = Now[k] /\ Now[k] = View(dev)[page_array[k]]
                             /\ page_array[k] \in Pages
<1>1. RunOK /\ DevOK /\ StateOK
  BY DEF BattInv
<1>2. SoundDisk(dev, page_array, free_page_start)
  BY <1>1 DEF SoundDisk, RunOK, DevOK, Clean, Now
<1>3. dev \in AnyDevice /\ Listed(page_array)
  BY <1>2 DEF SoundDisk
<1> QED
  BY <1>1, <1>2, <1>3, NowPages

\* All that the device holds could then be mounted.
LEMMA SteadyWhole ==
  ASSUME BattInv, mounted, ~failed, Steady
  PROVE  View(dev) \in [Pages -> AnyPage] /\ Distinct(View(dev)) /\ Whole(View(dev))
<1>1. SoundDisk(dev, page_array, free_page_start)
  BY NowSound
<1>2. View(dev) \in [Pages -> AnyPage]
  BY <1>1, ViewType DEF SoundDisk
<1>3. Distinct(Now) /\ Whole(Now)
  BY <1>1, ArrayWhole DEF SoundDisk, Now, Steady
<1>4. Now = InOrder(View(dev), page_array)
  BY DEF Now
<1>5. (Distinct(Now) <=> Distinct(View(dev))) /\ (Whole(Now) => Whole(View(dev)))
  BY <1>1, <1>2, <1>4, Reorder DEF SoundDisk
<1> QED
  BY <1>2, <1>3, <1>5

\* A page goes to the first free page, d being the device afterwards.
LEMMA InsertStep ==
  ASSUME BattInv, mounted, ~failed, Steady, ~SpaceOver, NEW pos \in 0..free_page_start,
         NEW page \in AnyPage, Fits(Now, free_page_start, pos, page),
         NEW d, d = BlockWrite(dev, page_array[free_page_start], page),
         NEW a, a = Inserted(page_array, free_page_start, pos),
         NEW g, g = InOrder(View(d), a)
  PROVE  /\ SoundDisk(d, a, free_page_start + 1)
         /\ free_page_start \in 0..PageCnt /\ free_page_start + 1 \in 0..PageCnt
         /\ free_page_start < PageCnt
         /\ d.dirty /\ a[pos] = d.curr
         /\ InsertedPage(Now, free_page_start, pos, page, g)
         /\ SumFunctionOnSet(Sizes(g), Used(free_page_start + 1))
              = SumFunctionOnSet(Sizes(Now), Used(free_page_start)) + Len(page.data)
<1> DEFINE u == free_page_start
           new == page_array[u]
<1>1. SoundDisk(dev, page_array, u)
  BY NowSound
<1>2. /\ dev \in AnyDevice /\ Clean(dev) /\ Listed(page_array) /\ ArrayOK(Now, u)
      /\ Now = InOrder(View(dev), page_array)
      /\ dev.dirty => \E k \in Used(u) : page_array[k] = dev.curr
  BY <1>1 DEF SoundDisk, Now
<1>3. u \in 0..PageCnt
  BY <1>2 DEF ArrayOK
<1>4. u \in 0..PageCnt /\ u < PageCnt /\ u \in Pages /\ PageCnt \in Nat /\ u + 1 \in 0..PageCnt
      /\ pos \in Nat /\ pos <= u
  <2>1. PageCnt \in Nat /\ ~(u >= PageCnt)
    BY SizesAssumption DEF SpaceOver
  <2> QED
    BY <1>3, <2>1, UsedFacts
<1>5. new \in Pages /\ \A k \in Used(u) : page_array[k] # new
  <2>1. \A k \in Used(u) : k # u /\ k \in Pages
    BY <1>4, UsedFacts
  <2> QED
    BY <1>2, <1>4, <2>1 DEF Listed
<1>6. ~(dev.dirty /\ new = dev.curr)
  BY <1>2, <1>5
<1>7. Stored(dev, d, new, page)
  BY <1>2, <1>5, <1>6, WriteDevice
<1>8. /\ d \in AnyDevice /\ d.dirty /\ d.curr = new /\ d.media = View(dev)
      /\ View(d) = Put(View(dev), new, page)
  BY <1>7 DEF Stored
<1>9. View(dev) \in [Pages -> AnyPage] /\ Distinct(View(dev)) /\ Whole(View(dev))
  BY SteadyWhole
<1> HIDE DEF new
<1>10. Listed(a) /\ a[pos] = page_array[u] /\ InsertedPage(Now, u, pos, page, g)
  <2>1. View(d) = Put(View(dev), page_array[u], page)
    BY <1>8 DEF new
  <2> QED
    BY <1>2, <1>4, <1>9, <2>1, InsertListed
<1>12. ArrayOK(g, u + 1)
  BY <1>2, <1>4, <1>10, InsertArray
<1>13. ~Chosen(d.media, d.curr)
  <2>1. ~(u \in Used(u))
    BY <1>4, UsedFacts
  <2>2. Chosen(Now, u) <=> Chosen(View(dev), page_array[u])
    BY <1>2, <1>4, <1>9, Reorder
  <2>3. ~Chosen(Now, u)
    BY <1>2, <1>4, <2>1, ChosenUsed
  <2> QED
    BY <1>8, <2>2, <2>3 DEF new
<1>14. pos \in Used(u + 1)
  BY <1>4, UsedFacts
<1>15. a[pos] = d.curr
  BY <1>8, <1>10 DEF new
<1>16. Clean(d)
  BY <1>8 DEF Clean
<1>17. SoundDisk(d, a, u + 1)
  BY <1>8, <1>9, <1>10, <1>12, <1>13, <1>14, <1>15, <1>16 DEF SoundDisk
<1>18. SumFunctionOnSet(Sizes(g), Used(u + 1)) = SumFunctionOnSet(Sizes(Now), Used(u)) + Len(page.data)
  <2>1. ArrayOK(Now, u)
    BY <1>2
  <2>2. u < PageCnt /\ pos \in 0..u
    BY <1>4
  <2> QED
    BY <2>1, <2>2, <1>10, InsertSum
<1> QED
  BY <1>4, <1>8, <1>10, <1>15, <1>17, <1>18

\* A page is rewritten, in place when the buffer holds it.
LEMMA RewriteStep ==
  ASSUME BattInv, mounted, ~failed, NEW pos \in Used(free_page_start),
         NEW page \in AnyPage, Rewrites(Now, free_page_start, pos, page),
         NEW there \in BOOLEAN,
         there => page_array[pos] = dev.curr /\ dev.dirty,
         ~there => Steady /\ ~(dev.dirty /\ page_array[pos] = dev.curr),
         Rewrite(pos, page, there)
  PROVE  /\ SoundDisk(dev', page_array', free_page_start)
         /\ dev'.dirty /\ page_array'[pos] = dev'.curr
         /\ \E from : RewrittenPage(Now, free_page_start, pos, page,
                                    InOrder(View(dev'), page_array'), from)
<1> DEFINE u == free_page_start
<1>1. SoundDisk(dev, page_array, u)
  BY NowSound
<1>2. /\ dev \in AnyDevice /\ Clean(dev) /\ Listed(page_array) /\ ArrayOK(Now, u)
      /\ Now = InOrder(View(dev), page_array)
      /\ dev.dirty => (~Chosen(dev.media, dev.curr) /\ \E k \in Used(u) : page_array[k] = dev.curr)
      /\ Distinct(dev.media) /\ Whole(dev.media)
  BY <1>1 DEF SoundDisk, Now
<1>3. u \in 0..PageCnt
  BY <1>2 DEF ArrayOK
<1>4. pos \in Pages /\ page_array[pos] \in Pages /\ pos < u /\ pos \in Nat /\ u \in Nat /\ PageCnt \in Nat
  BY <1>2, <1>3, UsedFacts DEF Listed
<1>5. View(dev) \in [Pages -> AnyPage]
  BY <1>2, ViewType
<1>6. CASE there
  <2>1. dev' = BlockWrite(dev, dev.curr, page) /\ page_array' = page_array
        /\ page_array[pos] = dev.curr /\ dev.dirty
    BY <1>6 DEF Rewrite
  <2>2. PICK d : d = dev'
    OBVIOUS
  <2>3. /\ d \in AnyDevice /\ d.dirty /\ d.curr = dev.curr /\ d.media = dev.media
        /\ View(d) = Put(View(dev), page_array[pos], page)
    BY <1>2, <2>1, <2>2, InPlaceDevice
  <2>4. PICK g : g = InOrder(View(d), page_array)
    OBVIOUS
  <2>5. PICK from : RewrittenPage(Now, u, pos, page, g, from)
    BY <1>2, <1>3, <1>5, <2>3, <2>4, InPlaceListed
  <2>6. ArrayOK(g, u)
    BY <1>2, <2>5, RewriteArray
  <2>7. SoundDisk(d, page_array, u)
    BY <1>2, <2>1, <2>3, <2>4, <2>6 DEF SoundDisk, Clean
  <2> QED
    BY <2>1, <2>2, <2>3, <2>4, <2>5, <2>7
<1>7. CASE ~there
  <2>1. /\ ~SpaceOver
        /\ dev' = BlockWrite(BlockCopy(dev, page_array[pos], page_array[u]), page_array[u], page)
        /\ Renew(pos)
    BY <1>7 DEF Rewrite
  <2>2. u < PageCnt /\ u \in Pages
    <3>1. ~(u >= PageCnt)
      BY <2>1 DEF SpaceOver
    <3> QED
      BY <1>3, <1>4, <3>1, UsedFacts
  <2>3. PICK d : d = dev'
    OBVIOUS
  <2>4. PICK new : new = page_array[u]
    OBVIOUS
  <2>5. new \in Pages /\ \A k \in Used(u) : page_array[k] # new
    <3>1. \A k \in Used(u) : k # u /\ k \in Pages
      BY <1>3, UsedFacts
    <3> QED
      BY <1>2, <2>2, <2>4, <3>1 DEF Listed
  <2>6. Stored(dev, d, new, page)
    BY <1>2, <1>4, <1>7, <2>1, <2>3, <2>4, <2>5, CopyDevice
  <2>7. /\ d \in AnyDevice /\ d.dirty /\ d.curr = new /\ d.media = View(dev)
        /\ View(d) = Put(View(dev), page_array[u], page)
    BY <2>4, <2>6 DEF Stored
  <2>8. PICK a : a = page_array'
    OBVIOUS
  <2>9. a = Renewed(page_array, u, pos)
    BY <2>1, <2>8 DEF Renew, Renewed
  <2>10. PICK g : g = InOrder(View(d), a)
    OBVIOUS
  <2>11. /\ Listed(a) /\ a[pos] = page_array[u]
         /\ \E from : RewrittenPage(Now, u, pos, page, g, from)
    BY <1>2, <1>3, <1>5, <2>2, <2>7, <2>9, <2>10, RenewListed
  <2>12. PICK from : RewrittenPage(Now, u, pos, page, g, from)
    BY <2>11
  <2>13. ArrayOK(g, u)
    BY <1>2, <2>12, RewriteArray
  <2>14. Distinct(View(dev)) /\ Whole(View(dev))
    BY <1>7, SteadyWhole
  <2>15. ~Chosen(d.media, d.curr)
    <3>1. ~(u \in Used(u))
      BY <1>3, <1>4, UsedFacts
    <3>2. Chosen(Now, u) <=> Chosen(View(dev), page_array[u])
      BY <1>2, <1>5, <2>2, Reorder
    <3>3. ~Chosen(Now, u)
      BY <1>2, <2>2, <3>1, ChosenUsed
    <3> QED
      BY <2>4, <2>7, <3>2, <3>3
  <2>16. Clean(d)
    BY <2>7 DEF Clean
  <2>17. a[pos] = d.curr
    BY <2>4, <2>7, <2>11
  <2>18. SoundDisk(d, a, u)
    BY <2>7, <2>10, <2>11, <2>13, <2>14, <2>15, <2>16, <2>17 DEF SoundDisk
  <2> QED
    BY <2>3, <2>7, <2>8, <2>10, <2>12, <2>17, <2>18
<1> QED
  BY <1>6, <1>7

-----------------------------------------------------------------------------
\* What is left to show of a step that succeeds.
LEMMA Conclude ==
  ASSUME SoundDisk(dev', page_array', free_page_start'), mounted', ~failed',
         mounted' \in BOOLEAN, failed' \in BOOLEAN,
         file' \in [Inodes -> {Closed} \cup AnyHandle],
         \A i \in Inodes : file'[i].open => HandleOK(Now', free_page_start', i, file'[i]),
         job' = NoJob \/ JobOK', LastOK', FreeOK'
  PROVE  BattInv'
<1>1. /\ dev' \in AnyDevice /\ Clean(dev') /\ (dev'.dirty => ~Chosen(dev'.media, dev'.curr))
      /\ Distinct(dev'.media) /\ Whole(dev'.media)
      /\ Listed(page_array') /\ ArrayOK(Now', free_page_start')
      /\ dev'.dirty => \E k \in Used(free_page_start') : page_array'[k] = dev'.curr
  BY DEF SoundDisk, Now
<1>2. DevOK'
  BY <1>1 DEF DevOK, Clean
<1>3. RunOK'
  BY <1>1 DEF RunOK
<1>4. page_array' \in [Pages -> Pages \cup {Unset}] /\ free_page_start' \in 0..PageCnt
  BY <1>1 DEF Listed, ArrayOK
<1>5. free_bytes' \in 0..(DataSize * PageCnt)
  <2>1. SumFunctionOnSet(Sizes(Now'), Used(free_page_start')) \in 0..(DataSize * PageCnt)
    BY <1>1, SumRange
  <2>2. free_bytes' = DataSize * PageCnt - SumFunctionOnSet(Sizes(Now'), Used(free_page_start'))
    BY DEF FreeOK
  <2>3. DataSize * PageCnt \in Nat
    BY SizesAssumption
  <2>4. PICK total \in Nat : total = DataSize * PageCnt
    BY <2>3
  <2>5. PICK sum \in 0..total : sum = SumFunctionOnSet(Sizes(Now'), Used(free_page_start'))
    BY <2>1, <2>4
  <2>6. free_bytes' = total - sum
    BY <2>2, <2>4, <2>5
  <2>7. total \in Nat /\ sum \in 0..total
    BY <2>4, <2>5
  <2>8. total - sum \in 0..total
    BY <2>7
  <2> QED
    BY <2>4, <2>6, <2>8
<1>6. StateOK'
  BY <1>4, <1>5 DEF StateOK
<1> QED
  BY <1>2, <1>3, <1>6 DEF BattInv

\* After an error of the device little is asked.
LEMMA ConcludeFailed ==
  ASSUME BattInv, dev' = dev, mounted, mounted' = mounted, failed' = TRUE,
         page_array' \in [Pages -> Pages \cup {Unset}], free_page_start' \in 0..PageCnt,
         free_bytes' = free_bytes, file' \in [Inodes -> {Closed} \cup AnyHandle], job' = NoJob
  PROVE  BattInv'
<1>1. DevOK'
  BY DEF BattInv, DevOK
<1>2. StateOK'
  BY DEF BattInv, StateOK
<1>3. failed'
  OBVIOUS
<1> QED
  BY <1>1, <1>2, <1>3 DEF BattInv

\* Between calls no page is empty that follows another.
LEMMA IdleSteady ==
  ASSUME BattInv, mounted, ~failed,
         job = NoJob \/ job.phase # "pages" \/ Off # file[job.inode].max_off
           \/ ~Buffered(file[job.inode])
  PROVE  Steady
<1>1. LastOK
  BY NowSound DEF RunOK
<1>2. ASSUME NEW k, Pending(k) PROVE FALSE
  <2>1. job # NoJob
    BY <1>2 DEF Pending, NoJob
  <2> QED
    BY <1>2, <2>1 DEF Pending, Buffered
<1> QED
  BY <1>1, <1>2 DEF LastOK, Steady

\* A step after which none is.
LEMMA SteadyLast ==
  ASSUME \A k \in Used(free_page_start') : Now'[k].pgoff > 0 => Now'[k].data # <<>>
  PROVE  LastOK'
BY DEF LastOK

\* Files are numbers.
LEMMA InodeFacts == \A i \in Inodes : i \in Nat
BY InodesAssumption

\* A file is closed, or its context has the fields of a handle.
LEMMA ClosedFacts ==
  /\ ~Closed.open
  /\ \A f \in {Closed} \cup AnyHandle : f.open => f \in AnyHandle
  /\ \A f \in AnyHandle : f.open /\ f # Closed
<1>1. ~Closed.open
  BY DEF Closed
<1>2. ASSUME NEW f \in AnyHandle PROVE f.open
  <2>1. f.open \in {TRUE}
    BY DEF AnyHandle
  <2> QED
    BY <2>1, Zenon
<1> QED
  BY <1>1, <1>2, Zenon

\* Without power.
LEMMA OffState ==
  /\ [k \in Pages |-> Unset] \in [Pages -> Pages \cup {Unset}]
  /\ 0 \in 0..PageCnt /\ 0 \in 0..(DataSize * PageCnt)
  /\ [i \in Inodes |-> Closed] \in [Inodes -> {Closed} \cup AnyHandle]
<1>1. PageCnt \in Nat /\ DataSize * PageCnt \in Nat
  BY SizesAssumption
<1> QED
  BY <1>1

-----------------------------------------------------------------------------
\* battfs_flush() and battfs_fileclose() preserve the invariant.
LEMMA FlushInv ==
  ASSUME BattInv, NEW inode \in Inodes, NEW close \in BOOLEAN, "errors" \in Avoids,
         Flush(inode, close)
  PROVE  BattInv'
<1>1. mounted /\ job = NoJob /\ ~failed /\ mounted' = mounted /\ disk' = disk /\ job' = job
  BY DEF Flush, Idle
<1>2. /\ page_array' = page_array /\ free_page_start' = free_page_start /\ free_bytes' = free_bytes
  BY <1>1 DEF disk
<1>3. SoundDisk(dev, page_array, free_page_start) /\ RunOK /\ StateOK
  BY <1>1, NowSound
<1>4. CASE dev' = BlockFlush(dev) /\ failed' = failed
           /\ file' = IF close THEN [file EXCEPT ![inode] = Closed] ELSE file
  <2>1. Steady
    BY <1>1, IdleSteady
  <2>2. Distinct(View(dev)) /\ Whole(View(dev))
    BY <1>1, <2>1, SteadyWhole
  <2>3. dev' \in AnyDevice /\ ~dev'.dirty /\ Clean(dev') /\ dev'.media = View(dev) /\ View(dev') = View(dev)
    BY <1>3, <1>4, FlushDevice DEF SoundDisk
  <2>4. Now' = Now
    BY <1>2, <2>3 DEF Now
  <2>5. SoundDisk(dev', page_array', free_page_start')
    BY <1>2, <1>3, <2>2, <2>3 DEF SoundDisk
  <2>6. file' \in [Inodes -> {Closed} \cup AnyHandle]
    BY <1>3, <1>4 DEF StateOK
  <2>7. ASSUME NEW i \in Inodes, file'[i].open
        PROVE  HandleOK(Now', free_page_start', i, file'[i])
    <3>1. file'[i] = file[i]
      BY <1>3, <1>4, <2>7 DEF StateOK, Closed
    <3>2. HandleOK(Now, free_page_start, i, file[i])
      BY <1>3, <2>7, <3>1 DEF RunOK
    <3> QED
      BY <1>2, <2>4, <3>1, <3>2
  <2>8. LastOK'
    BY <1>2, <2>1, <2>4, SteadyLast DEF Steady
  <2>9. FreeOK'
    BY <1>2, <1>3, <2>4 DEF RunOK, FreeOK
  <2>10. job' = NoJob /\ mounted' /\ ~failed' /\ mounted' \in BOOLEAN /\ failed' \in BOOLEAN
    BY <1>1, <1>3, <1>4 DEF StateOK
  <2> QED
    BY <2>5, <2>6, <2>7, <2>8, <2>9, <2>10, Conclude
<1>5. CASE failed' = TRUE /\ dev' = dev /\ file' = file
  BY <1>1, <1>2, <1>3, <1>5, ConcludeFailed DEF StateOK
<1> QED
  BY <1>4, <1>5 DEF Flush

\* battfs_umount(): what is on the medium then is what was in the array.
LEMMA UmountInv ==
  ASSUME BattInv, "errors" \in Avoids, Umount
  PROVE  BattInv'
<1>1. /\ mounted /\ job = NoJob /\ ~failed /\ mounted' = FALSE /\ job' = job /\ failed' = failed
      /\ dev' = BlockFlush(dev) /\ file' = [i \in Inodes |-> Closed]
      /\ page_array' = [k \in Pages |-> Unset] /\ free_page_start' = 0 /\ free_bytes' = 0
  BY DEF Umount, Idle
<1>2. SoundDisk(dev, page_array, free_page_start) /\ StateOK
  BY <1>1, NowSound
<1>3. Steady
  BY <1>1, IdleSteady
<1>4. Distinct(View(dev)) /\ Whole(View(dev))
  BY <1>1, <1>3, SteadyWhole
<1>5. dev' \in AnyDevice /\ ~dev'.dirty /\ Clean(dev') /\ dev'.media = View(dev)
  BY <1>1, <1>2, FlushDevice DEF SoundDisk
<1>6. DevOK'
  BY <1>4, <1>5 DEF DevOK, Clean
<1>7. failed' = FALSE
  BY <1>1, <1>2 DEF StateOK
<1>8. StateOK'
  BY <1>1, <1>5, <1>7, OffState DEF StateOK
<1> QED
  BY <1>1, <1>6, <1>8 DEF BattInv

\* battfs_umount() fails: what it has stored is what was in the array.
LEMMA UmountFailsInv ==
  ASSUME BattInv, "errors" \in Avoids, UmountFails
  PROVE  BattInv'
<1>1. /\ mounted /\ job = NoJob /\ ~failed /\ mounted' = mounted /\ job' = job /\ failed' = TRUE
      /\ disk' = disk
  BY DEF UmountFails, Idle
<1>2. page_array' = page_array /\ free_page_start' = free_page_start /\ free_bytes' = free_bytes
  BY <1>1 DEF disk
<1>3. SoundDisk(dev, page_array, free_page_start) /\ StateOK
  BY <1>1, NowSound
<1>4. /\ dev' = dev \/ dev' = BlockFlush(dev)
      /\ file' \in [Inodes -> {Closed} \cup AnyHandle]
  <2>1. file \in [Inodes -> {Closed} \cup AnyHandle]
    BY <1>3 DEF StateOK
  <2>2. CASE UNCHANGED <<dev, file>>
    BY <2>1, <2>2
  <2>3. ASSUME NEW k \in Inodes, dev' = BlockFlush(dev),
               file' = [i \in Inodes |-> IF i > k THEN Closed ELSE file[i]]
        PROVE  dev' = BlockFlush(dev) /\ file' \in [Inodes -> {Closed} \cup AnyHandle]
    BY <2>1, <2>3
  <2> QED
    BY <2>2, <2>3 DEF UmountFails
<1>5. DevOK'
  <2>1. CASE dev' = dev
    BY <2>1 DEF BattInv, DevOK
  <2>2. CASE dev' = BlockFlush(dev)
    <3>1. Distinct(View(dev)) /\ Whole(View(dev))
      BY <1>1, IdleSteady, SteadyWhole
    <3>2. dev' \in AnyDevice /\ ~dev'.dirty /\ Clean(dev') /\ dev'.media = View(dev)
      BY <1>3, <2>2, FlushDevice DEF SoundDisk
    <3> QED
      BY <3>1, <3>2 DEF DevOK, Clean
  <2> QED
    BY <1>4, <2>1, <2>2
<1>6. StateOK'
  BY <1>1, <1>2, <1>3, <1>4 DEF StateOK
<1> QED
  BY <1>1, <1>5, <1>6 DEF BattInv

\* A power cut leaves the medium as it is, or tears a block that no mount would
\* have chosen.
LEMMA PowerCutInv ==
  ASSUME BattInv, PowerCut
  PROVE  BattInv'
<1>1. /\ dev' \in PowerLost(dev, Blank) /\ mounted' = FALSE /\ failed' = FALSE
      /\ file' = [i \in Inodes |-> Closed] /\ job' = NoJob
      /\ page_array' = [k \in Pages |-> Unset] /\ free_page_start' = 0 /\ free_bytes' = 0
  BY DEF PowerCut
<1>2. DevOK
  BY DEF BattInv
<1>3. /\ dev' \in AnyDevice /\ ~dev'.dirty /\ Clean(dev')
      /\ \/ dev'.media = dev.media
         \/ dev.dirty /\ dev'.media = [dev.media EXCEPT ![dev.curr] = Blank]
  BY <1>1, <1>2, CutDevice DEF DevOK
<1>4. Distinct(dev'.media) /\ Whole(dev'.media)
  <2>1. CASE dev'.media = dev.media
    BY <1>2, <2>1 DEF DevOK
  <2>2. CASE dev.dirty /\ dev'.media = [dev.media EXCEPT ![dev.curr] = Blank]
    <3>1. dev.media \in [Pages -> AnyPage] /\ dev.curr \in Pages /\ ~Chosen(dev.media, dev.curr)
          /\ Distinct(dev.media) /\ Whole(dev.media)
      BY <1>2, <2>2 DEF DevOK, AnyDevice
    <3> QED
      BY <2>2, <3>1, LoseOld
  <2> QED
    BY <1>3, <2>1, <2>2
<1>5. DevOK'
  BY <1>3, <1>4 DEF DevOK, Clean
<1>7. StateOK'
  BY <1>1, <1>3, OffState DEF StateOK
<1> QED
  BY <1>1, <1>5, <1>7 DEF BattInv

\* An erased memory.
LEMMA InitInv ==
  ASSUME BattInit
  PROVE  BattInv
<1>1. PICK m : m = [p \in Pages |-> Blank]
  OBVIOUS
<1>2. m \in [Pages -> AnyPage] /\ \A p \in Pages : ~m[p].fcs
  BY <1>1, BlankIsPage DEF Blank
<1>3. 0 \in Pages
  BY SizesAssumption DEF Pages
<1>4. dev = PowerUp(m)
  BY <1>1 DEF BattInit
<1>5. dev \in AnyDevice /\ ~dev.dirty /\ dev.buf = dev.media[dev.curr] /\ dev.media = m
  BY <1>2, <1>3, <1>4 DEF PowerUp, AnyDevice
<1>6. Distinct(m) /\ Whole(m)
  BY <1>2 DEF Distinct, Whole, Chosen
<1>7. DevOK
  BY <1>5, <1>6 DEF DevOK
<1>9. StateOK
  BY <1>5, OffState DEF BattInit, StateOK
<1> QED
  BY <1>7, <1>9 DEF BattInv, BattInit

-----------------------------------------------------------------------------
\* Opening a file.
LEMMA Division ==
  ASSUME NEW n \in Nat, NEW b \in Nat \ {0}, NEW l \in Nat, l < b
  PROVE  (n * b + l) \div b = n
OBVIOUS

\* battfs_fileopen(): the search finds the pages of the file, if it has some.
LEMMA OpenInv ==
  ASSUME BattInv, NEW inode \in Inodes, "errors" \in Avoids, Open(inode)
  PROVE  BattInv'
<1>1. /\ mounted /\ job = NoJob /\ ~failed /\ mounted' = mounted /\ job' = job /\ failed' = failed
      /\ dev' = dev /\ disk' = disk
  BY DEF Open, Idle, seen
<1>2. page_array' = page_array /\ free_page_start' = free_page_start /\ free_bytes' = free_bytes
  BY <1>1 DEF disk
<1>3. SoundDisk(dev, page_array, free_page_start) /\ RunOK /\ StateOK
  BY <1>1, NowSound
<1>4. dev \in AnyDevice /\ Listed(page_array) /\ ArrayOK(Now, free_page_start) /\ inode \in Nat
  BY <1>3, InodeFacts DEF SoundDisk, Now
<1>5. PICK s \in Nat, n \in Nat : FileAt(Now, free_page_start, inode, s, n)
  BY <1>4, FileExists
<1>6. PICK found : found = FindFile(inode)
  OBVIOUS
<1>7. found.found /\ file' = [file EXCEPT ![inode] = Handle(found.start, FileSize(inode, found.start))]
  BY <1>6 DEF Open
<1>8. n > 0 /\ found.start = s
  <2>1. n > 0 => found = [found |-> TRUE, start |-> s]
    BY <1>4, <1>5, <1>6, FindFileValue
  <2>2. n = 0 => \E p : found = [found |-> FALSE, start |-> p]
    BY <1>4, <1>5, <1>6, FindFileValue
  <2>3. n # 0
    BY <1>7, <2>2
  <2>4. n > 0
    BY <1>5, <2>3
  <2> QED
    BY <2>1, <2>4
<1>9. PICK last \in Nat : last = Len(Now[s + n - 1].data) /\ last <= DataSize
  <2>1. s + n <= free_page_start /\ free_page_start \in 0..PageCnt /\ PageCnt \in Nat
    BY <1>4, <1>5, SizesAssumption DEF FileAt, ArrayOK
  <2>2. s + n - 1 \in Pages
    BY <1>5, <1>8, <2>1, UsedFacts
  <2>3. Now[s + n - 1] \in AnyPage /\ Now[s + n - 1].fcs
    <3>1. s + n - 1 < free_page_start /\ s + n - 1 \in Nat
      BY <1>5, <1>8, <2>1
    <3> QED
      BY <1>4, <2>2, <3>1, UsedFacts DEF ArrayOK, Ordered
  <2> QED
    BY <2>3, PageFields
<1>10. PICK size : size = (n - 1) * DataSize + last
  OBVIOUS
<1>11. FileSize(inode, s) = size
  BY <1>4, <1>5, <1>8, <1>9, <1>10, FileSizeValue
<1>12. PICK f : f = Handle(s, size)
  OBVIOUS
<1>13. f.start = s /\ f.size = size /\ f.max_off = size \div DataSize /\ f.open
  BY <1>12 DEF Handle
<1>14. size \in Nat /\ DataSize \in Nat \ {0} /\ n - 1 \in Nat
  <2>1. DataSize \in Nat \ {0} /\ n - 1 \in Nat
    BY <1>5, <1>8, SizesAssumption
  <2>2. (n - 1) * DataSize \in Nat /\ last \in Nat
    BY <1>9, <2>1
  <2> QED
    BY <1>10, <2>1, <2>2
<1>15. n = f.max_off + 1 \/ (n = f.max_off /\ f.size = n * DataSize)
  <2>1. CASE last < DataSize
    <3>1. size \div DataSize = n - 1
      BY <1>9, <1>10, <1>14, <2>1, Division
    <3> QED
      BY <1>5, <1>13, <3>1
  <2>2. CASE last = DataSize
    <3>1. size = n * DataSize
      <4>1. (n - 1) * DataSize + DataSize = n * DataSize
        BY <1>14, <1>5
      <4> QED
        BY <1>10, <2>2, <4>1
    <3>2. n * DataSize + 0 = n * DataSize
      BY <1>5, <1>14
    <3>3. size \div DataSize = n
      <4>1. (n * DataSize + 0) \div DataSize = n
        BY <1>5, <1>14, Division
      <4> QED
        BY <3>1, <3>2, <4>1
    <3> QED
      BY <1>13, <3>1, <3>3
  <2>3. last \in Nat /\ last <= DataSize
    BY <1>9
  <2> QED
    BY <1>14, <2>1, <2>2, <2>3
<1>16. HandleOK(Now, free_page_start, inode, f)
  <2>1. n \in Nat \ {0}
    BY <1>5, <1>8
  <2> QED
    BY <1>5, <1>9, <1>10, <1>13, <1>15, <2>1 DEF HandleOK
<1>17. f \in AnyHandle
  <2>1. size \div DataSize \in Nat
    BY <1>14
  <2> QED
    BY <1>5, <1>12, <1>14, <2>1 DEF Handle, AnyHandle
<1>18. file' = [file EXCEPT ![inode] = f]
  BY <1>7, <1>8, <1>11, <1>12
<1>19. file' \in [Inodes -> {Closed} \cup AnyHandle]
  BY <1>3, <1>17, <1>18 DEF StateOK
<1>20. Now' = Now
  BY <1>1, <1>2 DEF Now
<1>21. ASSUME NEW i \in Inodes, file'[i].open
       PROVE  HandleOK(Now', free_page_start', i, file'[i])
  <2>1. CASE i = inode
    <3>1. file'[i] = f
      BY <1>3, <1>18, <2>1 DEF StateOK
    <3> QED
      BY <1>2, <1>16, <1>20, <2>1, <3>1
  <2>2. CASE i # inode
    <3>1. file'[i] = file[i]
      BY <1>3, <1>18, <2>2 DEF StateOK
    <3>2. HandleOK(Now, free_page_start, i, file[i])
      BY <1>3, <1>21, <3>1 DEF RunOK
    <3> QED
      BY <1>2, <1>20, <3>1, <3>2
  <2> QED
    BY <2>1, <2>2
<1>22. LastOK'
  <2>1. Steady
    BY <1>1, IdleSteady
  <2> QED
    BY <1>2, <1>20, <2>1, SteadyLast DEF Steady
<1>23. FreeOK'
  BY <1>2, <1>3, <1>20 DEF RunOK, FreeOK
<1>24. SoundDisk(dev', page_array', free_page_start')
  BY <1>1, <1>2, <1>3
<1>25. job' = NoJob /\ mounted' /\ ~failed' /\ mounted' \in BOOLEAN /\ failed' \in BOOLEAN
  BY <1>1, <1>3 DEF StateOK
<1> QED
  BY <1>19, <1>21, <1>22, <1>23, <1>24, <1>25, Conclude

-----------------------------------------------------------------------------
\* Writing.
LEMMA MinTwo ==
  ASSUME NEW a \in Int, NEW b \in Int
  PROVE  /\ Min({a, b}) \in Int /\ Min({a, b}) <= a /\ Min({a, b}) <= b
         /\ Min({a, b}) = a \/ Min({a, b}) = b
<1>1. \E x \in {a, b} : \A y \in {a, b} : x <= y
  <2>1. CASE a <= b
    BY <2>1
  <2>2. CASE b <= a
    BY <2>2
  <2> QED
    BY <2>1, <2>2
<1>2. Min({a, b}) = CHOOSE x \in {a, b} : \A y \in {a, b} : x <= y
  BY DEF Min
<1>3. Min({a, b}) \in {a, b} /\ \A y \in {a, b} : Min({a, b}) <= y
  BY <1>1, <1>2
<1> QED
  BY <1>3

\* The greater of two.
LEMMA MaxTwo ==
  ASSUME NEW a \in Int, NEW b \in Int
  PROVE  /\ Max({a, b}) \in Int /\ Max({a, b}) >= a /\ Max({a, b}) >= b
         /\ Max({a, b}) = a \/ Max({a, b}) = b
<1>1. \E x \in {a, b} : \A y \in {a, b} : x >= y
  <2>1. CASE a >= b
    BY <2>1
  <2>2. CASE b >= a
    BY <2>2
  <2> QED
    BY <2>1, <2>2
<1>2. Max({a, b}) = CHOOSE x \in {a, b} : \A y \in {a, b} : x >= y
  BY DEF Max
<1>3. Max({a, b}) \in {a, b} /\ \A y \in {a, b} : Max({a, b}) >= y
  BY <1>1, <1>2
<1> QED
  BY <1>3

\* The bytes that fill a gap.
LEMMA ZerosSeq ==
  ASSUME NEW n \in Nat
  PROVE  Zeros(n) \in Seq(AnyByte) /\ Len(Zeros(n)) = n
BY DEF Zeros, AnyByte

\* A page with some bytes written into it.
LEMMA PatchSeq ==
  ASSUME NEW data \in Seq(AnyByte), NEW addr \in Nat, NEW bytes \in Seq(Bytes)
  PROVE  /\ Patch(data, addr, bytes) \in Seq(AnyByte)
         /\ Len(Patch(data, addr, bytes)) = Max({Len(data), addr + Len(bytes)})
<1>1. PICK n \in Nat : n = Max({Len(data), addr + Len(bytes)})
  <2>1. PICK la \in Nat : la = Len(data)
    OBVIOUS
  <2>2. PICK lb \in Nat : lb = Len(bytes)
    OBVIOUS
  <2>3. PICK x \in Nat : x = addr + lb
    OBVIOUS
  <2>0. la \in Int /\ x \in Int
    OBVIOUS
  <2>4. Max({la, x}) = la \/ Max({la, x}) = x
    BY <2>0, MaxTwo, Zenon
  <2> QED
    BY <2>1, <2>2, <2>3, <2>4
<1>2. PICK m \in Nat : m = Len(bytes)
  OBVIOUS
<1>3. Patch(data, addr, bytes)
        = [k \in 1..n |-> IF k > addr /\ k <= addr + m THEN bytes[k - addr]
                          ELSE IF k <= Len(data) THEN data[k] ELSE Zero]
  BY <1>1, <1>2 DEF Patch
<1>4. ASSUME NEW k \in 1..n
      PROVE  (IF k > addr /\ k <= addr + m THEN bytes[k - addr]
              ELSE IF k <= Len(data) THEN data[k] ELSE Zero) \in AnyByte
  <2>1. CASE k > addr /\ k <= addr + m
    <3>1. k - addr \in 1..Len(bytes)
      BY <1>2, <2>1
    <3>2. bytes[k - addr] \in Bytes
      BY <3>1
    <3> QED
      BY <2>1, <3>2 DEF AnyByte
  <2>2. CASE ~(k > addr /\ k <= addr + m) /\ k <= Len(data)
    <3>1. data[k] \in AnyByte
      BY <2>2
    <3> QED
      BY <2>2, <3>1
  <2>3. CASE ~(k > addr /\ k <= addr + m) /\ ~(k <= Len(data))
    BY <2>3 DEF AnyByte
  <2> QED
    BY <2>1, <2>2, <2>3
<1>5. Patch(data, addr, bytes) \in [1..n -> AnyByte]
  BY <1>3, <1>4
<1>6. PICK s : s = Patch(data, addr, bytes)
  OBVIOUS
<1>7. s \in Seq(AnyByte) /\ Len(s) = n
  <2>1. s \in [1..n -> AnyByte] /\ n \in Nat
    BY <1>5, <1>6
  <2> QED
    BY <2>1
<1> QED
  BY <1>1, <1>6, <1>7

\* A page that is written for the first time.
LEMMA NewPage ==
  ASSUME NEW i \in Nat, NEW off \in Nat, NEW data \in Seq(AnyByte), Len(data) <= DataSize,
         NEW page, page = Page(i, off, 0, data)
  PROVE  /\ page \in AnyPage /\ page.fcs /\ page.inode = i
         /\ page.pgoff = off /\ page.data = data
BY DEF Page, AnyPage

NewCopy(g, data) == [g EXCEPT !.fcs = TRUE, !.seq = @ + 1, !.data = data]

\* A page that is written again, with the next sequence number.
LEMMA OldPage ==
  ASSUME NEW g \in AnyPage, NEW data \in Seq(AnyByte), Len(data) <= DataSize,
         g.fcs, NEW page, page = NewCopy(g, data)
  PROVE  /\ page \in AnyPage
         /\ page.fcs /\ SamePage(page, g) /\ page.seq = g.seq + 1 /\ page.data = data
<1>1. page = [fcs |-> TRUE, inode |-> g.inode, pgoff |-> g.pgoff, seq |-> g.seq + 1, data |-> data]
  BY DEF AnyPage, NewCopy
<1>2. g.inode \in Nat /\ g.pgoff \in Nat /\ g.seq + 1 \in Nat
  BY PageFields
<1> QED
  BY <1>1, <1>2 DEF AnyPage, SamePage

\* The bytes that one turn writes.
LEMMA ChunkFacts ==
  ASSUME job \in AnyJob
  PROVE  /\ job.pos \in Nat /\ Off \in Nat /\ Addr \in Nat /\ Addr < DataSize
         /\ job.pos = DataSize * Off + Addr
         /\ Chunk \in Seq(Bytes) /\ Len(Chunk) \in Nat /\ Len(Chunk) > 0
         /\ Len(Chunk) <= Len(job.bytes) /\ Addr + Len(Chunk) <= DataSize
         /\ Chunk = job.bytes => NextJob = NoJob
         /\ Chunk # job.bytes =>
              /\ NextJob \in AnyJob /\ NextJob.inode = job.inode /\ NextJob.phase = job.phase
              /\ Len(Chunk) = DataSize - Addr
              /\ NextJob.pos = DataSize * (Off + 1)
              /\ NextJob.pos \div DataSize = Off + 1
              /\ NextJob.pos + Len(NextJob.bytes) = job.pos + Len(job.bytes)
<1>0. DataSize \in Nat \ {0}
  BY SizesAssumption
<1>1. job.pos \in Nat /\ job.bytes \in Seq(Bytes) /\ job.bytes # <<>> /\ job.inode \in Inodes
  BY DEF AnyJob
<1>2. Off \in Nat /\ Addr \in Nat /\ Addr < DataSize /\ job.pos = DataSize * Off + Addr
  <2>1. PICK p \in Nat : p = job.pos
    BY <1>1
  <2>2. p \div DataSize \in Nat
    BY <1>0
  <2>3. p % DataSize \in Nat /\ p % DataSize < DataSize
    BY <1>0
  <2>4. p = DataSize * (p \div DataSize) + (p % DataSize)
    BY <1>0
  <2> QED
    BY <2>1, <2>2, <2>3, <2>4 DEF Off, Addr
<1>3. PICK len \in Nat : len = Len(job.bytes) /\ len > 0
  BY <1>1
<1>4. PICK room \in Nat : room = DataSize - Addr /\ room > 0
  BY <1>0, <1>2
<1>5. PICK c \in Nat : c = Min({len, room}) /\ c > 0 /\ c <= len /\ c <= room /\ (c = len \/ c = room)
  <2>0. len \in Int /\ room \in Int
    OBVIOUS
  <2>1. /\ Min({len, room}) <= len /\ Min({len, room}) <= room
        /\ Min({len, room}) = len \/ Min({len, room}) = room
    BY <2>0, MinTwo, Zenon
  <2> QED
    BY <1>3, <1>4, <2>1
<1>6. Chunk = SubSeq(job.bytes, 1, c)
  BY <1>3, <1>4, <1>5 DEF Chunk
<1>7. PICK s \in Seq(Bytes) : s = job.bytes
  BY <1>1
<1>71. Chunk \in Seq(Bytes) /\ Len(Chunk) = c
  <2>1. Len(s) = len /\ c \in 1..len
    BY <1>3, <1>5, <1>7
  <2>2. SubSeq(s, 1, c) \in Seq(Bytes) /\ Len(SubSeq(s, 1, c)) = c
    BY <2>1
  <2> QED
    BY <1>6, <1>7, <2>2
<1>8. c = len => Chunk = job.bytes
  <2>1. SubSeq(s, 1, Len(s)) = s
    OBVIOUS
  <2> QED
    BY <1>3, <1>6, <1>7, <2>1
<1>9. Chunk = job.bytes => NextJob = NoJob
  BY DEF NextJob
<1>10. ASSUME Chunk # job.bytes
       PROVE  /\ NextJob \in AnyJob /\ NextJob.inode = job.inode /\ NextJob.phase = job.phase
              /\ Len(Chunk) = DataSize - Addr
              /\ NextJob.pos = DataSize * (Off + 1)
              /\ NextJob.pos \div DataSize = Off + 1
              /\ NextJob.pos + Len(NextJob.bytes) = job.pos + Len(job.bytes)
  <2>1. c = room /\ c < len
    BY <1>3, <1>4, <1>5, <1>8, <1>10
  <2>2. PICK rest : rest = SubSeq(job.bytes, c + 1, len)
    OBVIOUS
  <2>3. rest \in Seq(Bytes) /\ Len(rest) = len - c /\ rest # <<>>
    <3>1. Len(s) = len /\ c \in Nat /\ len \in Nat /\ c + 1 \in 1..len /\ len \in 1..len
      BY <1>3, <1>5, <1>7, <2>1
    <3>2. rest = SubSeq(s, c + 1, len)
      BY <1>7, <2>2
    <3>3. rest \in Seq(Bytes)
      BY <3>1, <3>2
    <3>4. Len(rest) = len - c
      BY <3>1, <3>2
    <3>5. len - c # 0
      BY <3>1
    <3> QED
      BY <3>3, <3>4, <3>5
  <2>4. PICK nj : nj = NextJob
    OBVIOUS
  <2>5. nj = [job EXCEPT !.pos = @ + c, !.bytes = rest]
    BY <1>3, <1>71, <1>10, <2>2, <2>4 DEF NextJob
  <2>6. nj.inode = job.inode /\ nj.phase = job.phase /\ nj.pos = job.pos + c /\ nj.bytes = rest
    BY <2>5 DEF AnyJob
  <2>7. nj \in AnyJob
    <3>1. job.pos + c \in Nat
      BY <1>1, <1>5
    <3> QED
      BY <2>3, <2>5, <3>1 DEF AnyJob
  <2>8. nj.pos = DataSize * (Off + 1)
    <3>1. DataSize * (Off + 1) = DataSize * Off + DataSize /\ DataSize * Off \in Nat
      BY <1>0, <1>2
    <3>2. job.pos + c = DataSize * Off + DataSize
      BY <1>0, <1>2, <1>4, <2>1, <3>1
    <3> QED
      BY <2>6, <3>1, <3>2
  <2>9. (DataSize * (Off + 1)) \div DataSize = Off + 1
    <3>1. ((Off + 1) * DataSize + 0) \div DataSize = Off + 1
      <4>1. Off + 1 \in Nat /\ 0 \in Nat /\ 0 < DataSize
        BY <1>0, <1>2
      <4> QED
        BY <1>0, <4>1, Division
    <3>2. (Off + 1) * DataSize + 0 = DataSize * (Off + 1)
      BY <1>0, <1>2
    <3> QED
      BY <3>1, <3>2
  <2>10. nj.pos + Len(nj.bytes) = job.pos + Len(job.bytes)
    <3>1. (job.pos + c) + (len - c) = job.pos + len
      BY <1>1, <1>5
    <3> QED
      BY <1>3, <2>3, <2>6, <3>1
  <2> QED
    BY <1>4, <1>71, <2>1, <2>4, <2>6, <2>7, <2>8, <2>9, <2>10
<1>11. Len(Chunk) \in Nat /\ Len(Chunk) > 0 /\ Len(Chunk) <= Len(job.bytes)
  BY <1>3, <1>5, <1>71
<1>12. Addr + Len(Chunk) <= DataSize
  BY <1>0, <1>2, <1>4, <1>5, <1>71
<1> QED
  BY <1>1, <1>2, <1>9, <1>10, <1>11, <1>12, <1>71

-----------------------------------------------------------------------------
\* Handles of the files after one that becomes longer.
LEMMA ShiftedFacts ==
  ASSUME file \in [Inodes -> {Closed} \cup AnyHandle], NEW inode \in Inodes
  PROVE  /\ Shifted(inode) \in [Inodes -> {Closed} \cup AnyHandle]
         /\ Shifted(inode)[inode] = file[inode]
         /\ \A i \in Inodes : Shifted(inode)[i].open <=> file[i].open
         /\ \A i \in Inodes : file[i].open =>
              /\ file[i] \in AnyHandle
              /\ Shifted(inode)[i]
                   = IF i > inode THEN [file[i] EXCEPT !.start = @ + 1] ELSE file[i]
<1>1. \A i \in Inodes : i \in Nat
  BY InodeFacts
<1>2. ASSUME NEW i \in Inodes, file[i].open
      PROVE  /\ file[i] \in AnyHandle /\ [file[i] EXCEPT !.start = @ + 1] \in AnyHandle
             /\ [file[i] EXCEPT !.start = @ + 1].open
  <2>1. PICK f : f = file[i]
    OBVIOUS
  <2>2. f \in AnyHandle
    BY <1>2, <2>1, ClosedFacts
  <2>3. [f EXCEPT !.start = @ + 1] \in AnyHandle
    <3>1. /\ f = [open |-> f.open, start |-> f.start, size |-> f.size, max_off |-> f.max_off]
          /\ f.open \in {TRUE} /\ f.start \in Nat /\ f.size \in Nat /\ f.max_off \in Nat
      BY <2>2 DEF AnyHandle
    <3>2. [f EXCEPT !.start = @ + 1]
            = [open |-> f.open, start |-> f.start + 1, size |-> f.size, max_off |-> f.max_off]
      BY <3>1
    <3>3. f.start + 1 \in Nat
      BY <3>1
    <3> QED
      BY <3>1, <3>2, <3>3 DEF AnyHandle
  <2>4. [f EXCEPT !.start = @ + 1].open
    BY <2>3, ClosedFacts, Zenon
  <2> QED
    BY <2>1, <2>2, <2>3, <2>4, Zenon
<1>3. \A i \in Inodes : Shifted(inode)[i] = IF file[i].open /\ i > inode
                                           THEN [file[i] EXCEPT !.start = @ + 1] ELSE file[i]
  BY DEF Shifted
<1>4. ~(inode > inode)
  BY <1>1
<1>5. Shifted(inode)[inode] = file[inode]
  BY <1>3, <1>4
<1>6. \A i \in Inodes : Shifted(inode)[i] \in {Closed} \cup AnyHandle
  BY <1>2, <1>3
<1>7. Shifted(inode) \in [Inodes -> {Closed} \cup AnyHandle]
  BY <1>6 DEF Shifted
<1>8. \A i \in Inodes : Shifted(inode)[i].open <=> file[i].open
  <2> SUFFICES ASSUME NEW i \in Inodes PROVE Shifted(inode)[i].open <=> file[i].open
    OBVIOUS
  <2>1. CASE file[i].open /\ i > inode
    <3>1. Shifted(inode)[i] = [file[i] EXCEPT !.start = @ + 1]
      BY <1>3, <2>1
    <3>2. [file[i] EXCEPT !.start = @ + 1].open
      BY <1>2, <2>1
    <3> QED
      BY <2>1, <3>1, <3>2, Zenon
  <2>2. CASE ~(file[i].open /\ i > inode)
    <3>1. Shifted(inode)[i] = file[i]
      BY <1>3, <2>2
    <3> QED
      BY <3>1, Zenon
  <2> QED
    BY <2>1, <2>2
<1> QED
  BY <1>2, <1>3, <1>5, <1>7, <1>8

\* The page after the last one of a file, ...
LEMMA AppendFits ==
  ASSUME NEW h, NEW u, ArrayOK(h, u), NEW i \in Inodes, NEW s, NEW n, n > 0, FileAt(h, u, i, s, n),
         Len(h[s + n - 1].data) = DataSize,
         NEW page \in AnyPage, page.fcs, page.inode = i, page.pgoff = n
  PROVE  s + n \in 0..u /\ Fits(h, u, s + n, page)
<1>1. u \in 0..PageCnt /\ h \in [Pages -> AnyPage] /\ Ordered(h, u) /\ Linked(h, u)
  BY DEF ArrayOK
<1>2. s \in Nat /\ n \in Nat /\ s + n <= u /\ u \in Nat /\ i \in Nat
  BY <1>1, InodeFacts, SizesAssumption DEF FileAt
<1>3. s + n \in 0..u /\ s + n - 1 \in Used(u) /\ s + n \in Nat
  BY <1>1, <1>2, UsedFacts
<1>4. h[s + n - 1].inode = i /\ h[s + n - 1].pgoff = n - 1
  <2>1. s <= s + n - 1 /\ s + n - 1 < s + n /\ (s + n - 1) - s = n - 1
    BY <1>2
  <2> QED
    BY <1>3, <2>1 DEF FileAt
<1>5. ASSUME NEW k \in Used(u), k < s + n
      PROVE  Before(h[k], page)
  <2>0. k \in Pages /\ k \in Nat
    BY <1>1, UsedFacts
  <2>1. h[k].inode \in Nat /\ h[k].pgoff \in Nat
    BY <1>1, <2>0, PageFields
  <2>2. CASE s <= k
    <3>1. h[k].inode = i /\ h[k].pgoff = k - s
      BY <1>5, <2>2 DEF FileAt
    <3>2. k - s < n
      BY <1>2, <1>5, <2>0
    <3> QED
      BY <3>1, <3>2 DEF Before
  <2>3. CASE k < s
    <3>1. k < s + n - 1
      BY <1>2, <2>0, <2>3
    <3>2. Before(h[k], h[s + n - 1])
      BY <1>1, <1>3, <3>1 DEF Ordered
    <3>3. h[k].inode # i
      BY <1>2, <2>0, <2>3 DEF FileAt
    <3> QED
      BY <1>4, <3>2, <3>3 DEF Before
  <2> QED
    BY <1>2, <2>0, <2>2, <2>3
<1>6. ASSUME NEW k \in Used(u), k >= s + n
      PROVE  Before(page, h[k])
  <2>0. k \in Pages /\ k \in Nat
    BY <1>1, UsedFacts
  <2>1. s + n - 1 < k
    BY <1>2, <1>6, <2>0
  <2>2. Before(h[s + n - 1], h[k])
    BY <1>1, <1>3, <2>1 DEF Ordered
  <2>3. h[k].inode # i
    <3>1. ~(k < s + n)
      BY <1>2, <1>6, <2>0
    <3> QED
      BY <3>1 DEF FileAt
  <2> QED
    BY <1>4, <2>2, <2>3 DEF Before
<1>7. ASSUME s + n < u PROVE h[s + n].pgoff = 0
  <2>1. s + n \in Used(u) /\ s + n \in Pages
    BY <1>1, <1>3, <1>7, UsedFacts
  <2>2. h[s + n].inode # i
    <3>1. ~(s + n < s + n)
      BY <1>3
    <3> QED
      BY <2>1, <3>1 DEF FileAt
  <2>3. h[s + n].pgoff > 0 => h[s + n].inode = i
    <3>1. PICK k \in Used(u) : k = s + n
      BY <2>1
    <3>2. h[k].pgoff > 0 => h[k - 1].inode = h[k].inode
      BY <1>1 DEF Linked
    <3>3. k - 1 = s + n - 1
      BY <1>2, <3>1
    <3> QED
      BY <1>4, <3>1, <3>2, <3>3
  <2>4. h[s + n].pgoff \in Nat
    BY <1>1, <2>1, PageFields
  <2> QED
    BY <2>2, <2>3, <2>4
<1>8. s + n > 0 /\ page.pgoff = h[s + n - 1].pgoff + 1 /\ h[s + n - 1].inode = page.inode
  BY <1>2, <1>4
<1>9. page.fcs /\ page.inode \in Inodes
  OBVIOUS
<1>10. PICK pos : pos = s + n
  OBVIOUS
<1>13. pos - 1 = s + n - 1 /\ pos = s + n
  BY <1>2, <1>10
<1>11. /\ pos > 0 /\ h[pos - 1].inode = page.inode /\ page.pgoff = h[pos - 1].pgoff + 1
       /\ Len(h[pos - 1].data) = DataSize
       /\ \A k \in Used(u) : k < pos => Before(h[k], page)
       /\ \A k \in Used(u) : k >= pos => Before(page, h[k])
       /\ pos < u => h[pos].pgoff = 0
  <2>1. pos > 0 /\ h[pos - 1].inode = page.inode /\ page.pgoff = h[pos - 1].pgoff + 1
    BY <1>8, <1>13
  <2>2. Len(h[pos - 1].data) = DataSize
    BY <1>13
  <2>3. \A k \in Used(u) : k < pos => Before(h[k], page)
    BY <1>5, <1>10
  <2>4. \A k \in Used(u) : k >= pos => Before(page, h[k])
    BY <1>6, <1>10
  <2>5. pos < u => h[pos].pgoff = 0
    BY <1>7, <1>10
  <2> QED
    BY <2>1, <2>2, <2>3, <2>4, <2>5, Zenon
<1>12. Fits(h, u, pos, page)
  BY <1>9, <1>11 DEF Fits
<1> QED
  BY <1>3, <1>10, <1>12

\* ... or the first one of a new file.
LEMMA CreateFits ==
  ASSUME NEW h, NEW u, ArrayOK(h, u), NEW i \in Inodes, NEW p, Between(h, u, i, p),
         NEW page \in AnyPage, page.fcs, page.inode = i, page.pgoff = 0
  PROVE  p \in 0..u /\ Fits(h, u, p, page) /\ FileAt(h, u, i, p, 0)
<1>1. u \in 0..PageCnt /\ h \in [Pages -> AnyPage] /\ Linked(h, u)
  BY DEF ArrayOK
<1>2. p \in 0..u /\ p \in Nat /\ u \in Nat /\ i \in Nat
  BY <1>1, InodeFacts, SizesAssumption DEF Between
<1>3. \A k \in Used(u) : /\ k \in Pages /\ k \in Nat /\ h[k].inode \in Nat /\ h[k].pgoff \in Nat
                         /\ (k < p => h[k].inode < i) /\ (k >= p => h[k].inode > i)
  <2> SUFFICES ASSUME NEW k \in Used(u)
               PROVE  /\ k \in Pages /\ k \in Nat /\ h[k].inode \in Nat /\ h[k].pgoff \in Nat
                      /\ (k < p => h[k].inode < i) /\ (k >= p => h[k].inode > i)
    OBVIOUS
  <2>1. k \in Pages /\ k \in Nat
    BY <1>1, UsedFacts
  <2>2. h[k] \in AnyPage
    BY <1>1, <2>1
  <2> QED
    BY <2>1, <2>2, PageFields DEF Between
<1>4. FileAt(h, u, i, p, 0)
  <2>1. \A k \in Used(u) : h[k].inode # i
    BY <1>2, <1>3
  <2>2. \A k \in Used(u) : ~(p <= k /\ k < p + 0)
    BY <1>2, <1>3
  <2>3. p \in Nat /\ 0 \in Nat /\ p + 0 <= u
    BY <1>2
  <2> QED
    BY <2>1, <2>2, <2>3 DEF FileAt
<1>5. ASSUME p < u PROVE h[p].pgoff = 0
  <2>1. p \in Used(u)
    BY <1>1, <1>2, <1>5, UsedFacts
  <2>2. CASE h[p].pgoff > 0
    <3>1. p > 0 /\ h[p - 1].inode = h[p].inode
      BY <1>1, <2>1, <2>2 DEF Linked
    <3>2. p - 1 \in Used(u) /\ p - 1 < p
      BY <1>1, <1>2, <1>5, <3>1, UsedFacts
    <3>3. h[p - 1].inode < i /\ h[p].inode > i
      BY <1>2, <1>3, <2>1, <3>2
    <3> QED
      BY <1>2, <1>3, <2>1, <3>1, <3>3
  <2> QED
    BY <1>3, <2>1, <2>2
<1>6. \A k \in Used(u) : k < p => Before(h[k], page)
  BY <1>3 DEF Before
<1>7. \A k \in Used(u) : k >= p => Before(page, h[k])
  BY <1>2, <1>3 DEF Before
<1>8. ~(page.pgoff > 0)
  OBVIOUS
<1> QED
  BY <1>2, <1>4, <1>5, <1>6, <1>7, <1>8 DEF Fits

-----------------------------------------------------------------------------
\* A file becomes longer by a page.
Extends(inode, s, n, page, f) ==
  /\ inode \in Inodes /\ n \in Nat /\ FileAt(Now, free_page_start, inode, s, n)
  /\ page \in AnyPage /\ page.inode = inode /\ page.pgoff = n
  /\ s + n \in 0..free_page_start /\ Fits(Now, free_page_start, s + n, page)
  /\ dev' = BlockWrite(dev, page_array[free_page_start], page) /\ Allocate(s + n, inode)
  /\ f \in AnyHandle /\ f.start = s /\ f.size = n * DataSize + Len(page.data) /\ f.max_off = n
  /\ file' = [Shifted(inode) EXCEPT ![inode] = f]
  /\ free_bytes' = free_bytes - Len(page.data)

\* What a step does that allocates a page at the end of a file and writes it:
\* battfs_fileopen() with BATTFS_CREATE, and battfs_write() behind the last page.
LEMMA Extended ==
  ASSUME BattInv, mounted, ~failed, Steady, ~SpaceOver,
         NEW inode, NEW s, NEW n, NEW page, NEW f, Extends(inode, s, n, page, f)
  PROVE  /\ SoundDisk(dev', page_array', free_page_start')
         /\ file' \in [Inodes -> {Closed} \cup AnyHandle] /\ file'[inode] = f
         /\ \A i \in Inodes : file'[i].open => HandleOK(Now', free_page_start', i, file'[i])
         /\ FreeOK'
         /\ s + n \in Pages /\ dev'.dirty /\ page_array'[s + n] = dev'.curr
         /\ FileAt(Now', free_page_start', inode, s, n + 1)
         /\ (page.pgoff > 0 /\ page.data = <<>> => Pending(s + n)') => LastOK'
<1> DEFINE u == free_page_start
<1>0. /\ inode \in Inodes /\ n \in Nat /\ FileAt(Now, free_page_start, inode, s, n)
      /\ page \in AnyPage /\ page.inode = inode /\ page.pgoff = n
      /\ s + n \in 0..free_page_start /\ Fits(Now, free_page_start, s + n, page)
      /\ dev' = BlockWrite(dev, page_array[free_page_start], page) /\ Allocate(s + n, inode)
      /\ f \in AnyHandle /\ f.start = s /\ f.size = n * DataSize + Len(page.data) /\ f.max_off = n
      /\ file' = [Shifted(inode) EXCEPT ![inode] = f]
      /\ free_bytes' = free_bytes - Len(page.data)
  BY DEF Extends
<1>1. PICK pos \in 0..u : pos = s + n
  BY <1>0
<1>2. PICK d : d = dev'
  OBVIOUS
<1>3. PICK a : a = page_array'
  OBVIOUS
<1>4. a = Inserted(page_array, u, pos) /\ free_page_start' = u + 1
  BY <1>0, <1>1, <1>3 DEF Allocate, Inserted
<1>5. PICK g : g = InOrder(View(d), a)
  OBVIOUS
<1>6. Now' = g
  BY <1>0, <1>2, <1>3, <1>5 DEF Now
<1>7. /\ SoundDisk(d, a, u + 1) /\ u \in 0..PageCnt /\ u + 1 \in 0..PageCnt /\ u < PageCnt
      /\ d.dirty /\ a[pos] = d.curr /\ InsertedPage(Now, u, pos, page, g)
      /\ SumFunctionOnSet(Sizes(g), Used(u + 1)) = SumFunctionOnSet(Sizes(Now), Used(u)) + Len(page.data)
  <2>1. d = BlockWrite(dev, page_array[u], page) /\ Fits(Now, u, pos, page)
    BY <1>0, <1>1, <1>2
  <2> QED
    BY <1>0, <1>4, <1>5, <2>1, InsertStep
<1>8. ArrayOK(Now, u) /\ RunOK /\ StateOK
  BY <1>0, NowSound DEF SoundDisk, Now
<1>9. pos \in Pages /\ pos \in Nat /\ pos \in Used(u + 1)
  <2>1. pos \in Nat /\ pos <= u /\ u \in Nat
    BY <1>0, <1>7
  <2> QED
    BY <1>0, <1>7, <2>1, UsedFacts
<1>10. FileAt(g, u + 1, inode, s, n + 1)
  BY <1>0, <1>1, <1>7, <1>8, InodeFacts, InsertFile
<1>11. HandleOK(g, u + 1, inode, f)
  BY <1>0, <1>1, <1>7, <1>8, InsertOwn
<1>12. /\ Shifted(inode) \in [Inodes -> {Closed} \cup AnyHandle]
       /\ \A i \in Inodes : Shifted(inode)[i].open <=> file[i].open
       /\ \A i \in Inodes : file[i].open =>
            /\ file[i] \in AnyHandle
            /\ Shifted(inode)[i] = IF i > inode THEN [file[i] EXCEPT !.start = @ + 1] ELSE file[i]
  BY <1>0, <1>8, ShiftedFacts DEF StateOK
<1>13. file' \in [Inodes -> {Closed} \cup AnyHandle] /\ file'[inode] = f
  BY <1>0, <1>12
<1>14. ASSUME NEW i \in Inodes, file'[i].open
       PROVE  HandleOK(g, u + 1, i, file'[i])
  <2>1. CASE i = inode
    BY <1>0, <1>11, <1>13, <2>1
  <2>2. CASE i # inode
    <3>1. file'[i] = Shifted(inode)[i]
      BY <1>0, <1>12, <2>2
    <3>2. file[i].open
      BY <1>0, <1>12, <1>14, <3>1, Zenon
    <3>3. HandleOK(Now, u, i, file[i])
      BY <1>0, <1>8, <3>2 DEF RunOK
    <3>4. PICK e \in AnyHandle : e = file[i]
      BY <1>0, <1>12, <3>2
    <3>5. HandleOK(g, u + 1, i, IF i > page.inode THEN [e EXCEPT !.start = @ + 1] ELSE e)
      BY <1>0, <1>1, <1>7, <1>8, <2>2, <3>3, <3>4, InodeFacts, InsertHandle
    <3> QED
      BY <1>0, <1>12, <3>1, <3>2, <3>4, <3>5
  <2> QED
    BY <1>0, <2>1, <2>2
<1>15. FreeOK'
  <2>1. PICK sum : sum = SumFunctionOnSet(Sizes(Now), Used(u))
    OBVIOUS
  <2>2. free_bytes = DataSize * PageCnt - sum
    BY <1>0, <1>8, <2>1 DEF RunOK, FreeOK
  <2>3. PICK l \in Nat : l = Len(page.data)
    BY <1>0, PageFields
  <2>4. sum \in Int /\ DataSize * PageCnt \in Int
    <3>1. sum \in 0..(DataSize * PageCnt)
      BY <1>0, <1>8, <2>1, SumRange
    <3>2. DataSize * PageCnt \in Nat
      BY <1>0, SizesAssumption
    <3> QED
      BY <1>0, <3>1, <3>2
  <2>5. (DataSize * PageCnt - sum) - l = DataSize * PageCnt - (sum + l)
    BY <1>0, <2>3, <2>4
  <2>6. free_bytes' = DataSize * PageCnt - SumFunctionOnSet(Sizes(g), Used(u + 1))
    BY <1>0, <1>7, <2>1, <2>2, <2>3, <2>5
  <2> QED
    BY <1>0, <1>4, <1>6, <2>6 DEF FreeOK
<1>16. ASSUME page.pgoff > 0 /\ page.data = <<>> => Pending(s + n)'
       PROVE  LastOK'
  <2>1. ASSUME NEW k \in Used(u + 1), g[k].pgoff > 0, g[k].data = <<>>, k # pos
        PROVE  FALSE
    <3>1. k \in Nat /\ k < u + 1 /\ k \in Pages
      BY <1>0, <1>7, UsedFacts
    <3>2. CASE k < pos
      <4>1. g[k] = Now[k] /\ k \in Used(u)
        BY <1>0, <1>7, <1>9, <3>1, <3>2, UsedFacts DEF InsertedPage
      <4> QED
        BY <1>0, <2>1, <4>1 DEF Steady
    <3>3. CASE k > pos
      <4>1. k <= u /\ k - 1 \in Nat /\ k - 1 < u
        BY <1>0, <1>7, <1>9, <3>1, <3>3
      <4>2. g[k] = Now[k - 1] /\ k - 1 \in Used(u)
        BY <1>0, <1>7, <3>1, <3>3, <4>1, UsedFacts DEF InsertedPage
      <4> QED
        BY <1>0, <2>1, <4>2 DEF Steady
    <3> QED
      BY <1>0, <1>9, <2>1, <3>1, <3>2, <3>3
  <2>2. g[pos] = page
    BY <1>0, <1>7 DEF InsertedPage
  <2>3. ASSUME NEW k \in Used(u + 1), g[k].pgoff > 0 /\ g[k].data = <<>>
        PROVE  k = s + n /\ page.pgoff > 0 /\ page.data = <<>>
    BY <1>0, <1>1, <2>1, <2>2, <2>3
  <2>4. \A k \in Used(free_page_start') : Now'[k].pgoff > 0 /\ Now'[k].data = <<>> => Pending(k)'
    <3> SUFFICES ASSUME NEW k \in Used(free_page_start'), Now'[k].pgoff > 0 /\ Now'[k].data = <<>>
                 PROVE  Pending(k)'
      OBVIOUS
    <3>1. k = s + n /\ page.pgoff > 0 /\ page.data = <<>>
      BY <1>0, <1>4, <1>6, <2>3
    <3> QED
      BY <1>0, <1>16, <3>1
  <2> QED
    BY <1>0, <2>4 DEF LastOK
<1> QED
  BY <1>0, <1>1, <1>2, <1>3, <1>4, <1>6, <1>7, <1>9, <1>10, <1>13, <1>14, <1>15, <1>16

-----------------------------------------------------------------------------
\* A page of an open file is written again.
Grew(f, n) == [f EXCEPT !.size = @ + n]

Alters(inode, pos, page, there) ==
  /\ inode \in Inodes /\ file[inode].open /\ pos \in Used(free_page_start) /\ page \in AnyPage
  /\ Rewrites(Now, free_page_start, pos, page) /\ page.inode = inode
  /\ page.data # <<>> /\ Len(page.data) >= Len(Now[pos].data)
  /\ there \in BOOLEAN
  /\ there => page_array[pos] = dev.curr /\ dev.dirty
  /\ ~there => Steady /\ ~(dev.dirty /\ page_array[pos] = dev.curr)
  /\ Rewrite(pos, page, there) /\ free_page_start' = free_page_start
  /\ Grow(inode, Len(page.data) - Len(Now[pos].data))

\* What a step of battfs_write() does that writes a page the file has.
LEMMA Rewritten ==
  ASSUME BattInv, mounted, ~failed,
         NEW inode, NEW pos, NEW page, NEW there, Alters(inode, pos, page, there)
  PROVE  /\ SoundDisk(dev', page_array', free_page_start')
         /\ file' \in [Inodes -> {Closed} \cup AnyHandle]
         /\ file'[inode] = Grew(file[inode], Len(page.data) - Len(Now[pos].data))
         /\ \A i \in Inodes : file'[i].open => HandleOK(Now', free_page_start', i, file'[i])
         /\ FreeOK' /\ LastOK'
         /\ page_array'[pos] = dev'.curr
         /\ \A i, s, n : FileAt(Now, free_page_start, i, s, n)
                           => FileAt(Now', free_page_start', i, s, n)
<1> DEFINE u == free_page_start
<1>0. /\ inode \in Inodes /\ file[inode].open /\ pos \in Used(free_page_start) /\ page \in AnyPage
      /\ Rewrites(Now, free_page_start, pos, page) /\ page.inode = inode
      /\ page.data # <<>> /\ Len(page.data) >= Len(Now[pos].data)
      /\ there \in BOOLEAN
      /\ there => page_array[pos] = dev.curr /\ dev.dirty
      /\ ~there => Steady /\ ~(dev.dirty /\ page_array[pos] = dev.curr)
      /\ Rewrite(pos, page, there) /\ free_page_start' = free_page_start
      /\ Grow(inode, Len(page.data) - Len(Now[pos].data))
  BY DEF Alters
<1>1. PICK d : d = dev'
  OBVIOUS
<1>2. PICK a : a = page_array'
  OBVIOUS
<1>3. PICK g : g = InOrder(View(d), a)
  OBVIOUS
<1>4. Now' = g
  BY <1>0, <1>1, <1>2, <1>3 DEF Now
<1>5. SoundDisk(d, a, u) /\ d.dirty /\ a[pos] = d.curr
  BY <1>0, <1>1, <1>2, RewriteStep
<1>6. PICK from : RewrittenPage(Now, u, pos, page, g, from)
  BY <1>0, <1>1, <1>2, <1>3, RewriteStep
<1>7. ArrayOK(Now, u) /\ RunOK /\ StateOK /\ SoundDisk(dev, page_array, u)
  BY <1>0, NowSound DEF SoundDisk, Now
<1>8. PICK l \in Nat : l = Len(page.data)
  BY <1>0, PageFields
<1>9. /\ u \in 0..PageCnt /\ pos \in Pages /\ Now \in [Pages -> AnyPage]
  BY <1>0, <1>7, UsedFacts DEF ArrayOK
<1>10. PICK o \in Nat : o = Len(Now[pos].data)
  BY <1>0, <1>9, PageFields
<1>11. PICK m \in Nat : m = Len(page.data) - Len(Now[pos].data)
  <2>1. l >= o
    BY <1>0, <1>8, <1>10
  <2>2. l - o \in Nat
    BY <1>0, <2>1
  <2> QED
    BY <1>0, <1>8, <1>10, <2>2
<1>12. PICK f \in AnyHandle : f = file[inode]
  BY <1>0, <1>7, ClosedFacts DEF StateOK
<1>13. PICK e : e = [f EXCEPT !.size = @ + m]
  OBVIOUS
<1>14. e \in AnyHandle /\ e.start = f.start /\ e.max_off = f.max_off /\ e.size = f.size + m
  <2>1. /\ f = [open |-> f.open, start |-> f.start, size |-> f.size, max_off |-> f.max_off]
        /\ f.open \in {TRUE} /\ f.start \in Nat /\ f.size \in Nat /\ f.max_off \in Nat
    BY <1>0 DEF AnyHandle
  <2>2. e = [open |-> f.open, start |-> f.start, size |-> f.size + m, max_off |-> f.max_off]
    BY <1>0, <1>13, <2>1
  <2>3. f.size + m \in Nat
    BY <1>0, <2>1
  <2> QED
    BY <1>0, <2>1, <2>2, <2>3 DEF AnyHandle
<1>15. file' = [file EXCEPT ![inode] = e] /\ free_bytes' = free_bytes - m
  <2>1. file' = [file EXCEPT ![inode].size = @ + m] /\ free_bytes' = free_bytes - m
    BY <1>0, <1>11 DEF Grow
  <2> QED
    BY <1>0, <1>7, <1>12, <1>13, <2>1 DEF StateOK
<1>16. file' \in [Inodes -> {Closed} \cup AnyHandle] /\ file'[inode] = e
  BY <1>0, <1>7, <1>14, <1>15 DEF StateOK
<1>17. HandleOK(g, u, inode, e)
  <2>1. HandleOK(Now, u, inode, f)
    BY <1>0, <1>7, <1>12 DEF RunOK
  <2>2. e.size = f.size + (Len(page.data) - Len(Now[pos].data))
    BY <1>0, <1>11, <1>14
  <2> QED
    BY <1>0, <1>6, <1>7, <1>14, <2>1, <2>2, RewriteOwn
<1>18. ASSUME NEW i \in Inodes, file'[i].open
       PROVE  HandleOK(g, u, i, file'[i])
  <2>1. CASE i = inode
    BY <1>0, <1>16, <1>17, <2>1
  <2>2. CASE i # inode
    <3>1. file'[i] = file[i]
      BY <1>0, <1>7, <1>15, <2>2 DEF StateOK
    <3>2. HandleOK(Now, u, i, file[i])
      BY <1>0, <1>7, <1>18, <3>1 DEF RunOK
    <3>3. HandleOK(g, u, i, file[i])
      BY <1>0, <1>6, <1>7, <2>2, <3>2, RewriteHandle
    <3> QED
      BY <1>0, <3>1, <3>3
  <2> QED
    BY <1>0, <2>1, <2>2
<1>19. FreeOK'
  <2>1. PICK sum : sum = SumFunctionOnSet(Sizes(Now), Used(u))
    OBVIOUS
  <2>2. free_bytes = DataSize * PageCnt - sum
    BY <1>0, <1>7, <2>1 DEF RunOK, FreeOK
  <2>3. sum \in Int /\ DataSize * PageCnt \in Int
    <3>1. sum \in 0..(DataSize * PageCnt)
      BY <1>0, <1>7, <2>1, SumRange
    <3>2. DataSize * PageCnt \in Nat
      BY <1>0, SizesAssumption
    <3> QED
      BY <1>0, <3>1, <3>2
  <2>4. (DataSize * PageCnt - sum) - m = DataSize * PageCnt - (sum + m)
    BY <1>0, <2>3
  <2>5. SumFunctionOnSet(Sizes(g), Used(u)) = sum + m
    BY <1>0, <1>6, <1>7, <1>11, <2>1, RewriteSum
  <2>6. free_bytes' = DataSize * PageCnt - SumFunctionOnSet(Sizes(g), Used(u))
    BY <1>0, <1>15, <2>2, <2>4, <2>5
  <2> QED
    BY <1>0, <1>4, <2>6 DEF FreeOK
<1>20. LastOK'
  <2>1. ASSUME NEW k \in Used(u), g[k].pgoff > 0, g[k].data = <<>>
        PROVE  FALSE
    <3>1. CASE k = pos
      BY <1>0, <1>6, <2>1, <3>1 DEF RewrittenPage
    <3>2. CASE k # pos
      <4>1. g[k] = Now[k] /\ k \in Pages
        BY <1>0, <1>6, <1>9, <3>2, UsedFacts DEF RewrittenPage
      <4>2. ~there
        <5>1. ASSUME there PROVE FALSE
          <6>1. Pending(k)
            BY <1>0, <1>7, <2>1, <4>1 DEF RunOK, LastOK
          <6>2. page_array[k] = page_array[pos]
            BY <1>0, <5>1, <6>1 DEF Pending
          <6> QED
            BY <1>0, <1>7, <1>9, <3>2, <4>1, <6>2 DEF RunOK, Listed
        <5> QED
          BY <1>0, <5>1
      <4> QED
        BY <1>0, <2>1, <4>1, <4>2 DEF Steady
    <3> QED
      BY <1>0, <3>1, <3>2
  <2>2. \A k \in Used(free_page_start') : Now'[k].pgoff > 0 => Now'[k].data # <<>>
    BY <1>0, <1>4, <2>1
  <2> QED
    BY <1>0, <2>2, SteadyLast
<1>21. ASSUME NEW i, NEW s, NEW n, FileAt(Now, u, i, s, n)
       PROVE  FileAt(g, u, i, s, n)
  BY <1>0, <1>6, <1>7, <1>21, RewriteFile
<1>22. file'[inode] = Grew(file[inode], Len(page.data) - Len(Now[pos].data))
  BY <1>0, <1>11, <1>12, <1>13, <1>16 DEF Grew
<1> QED
  BY <1>0, <1>1, <1>2, <1>4, <1>5, <1>16, <1>18, <1>19, <1>20, <1>21, <1>22

-----------------------------------------------------------------------------
\* A battfs_write() in progress: n pages belong to the file.
InJob(n) ==
  LET f == file[job.inode] IN
  /\ n \in Nat \ {0}
  /\ FileAt(Now, free_page_start, job.inode, f.start, n)
  /\ f.size = (n - 1) * DataSize + Len(Now[f.start + n - 1].data)
  /\ \/ /\ n = f.max_off + 1
        /\ job.phase = "tail" => job.pos > f.size
        /\ job.phase = "zeros" => f.size = n * DataSize /\ job.pos >= f.size
        /\ job.phase = "pages" => job.pos <= f.size
     \/ /\ n = f.max_off /\ f.size = n * DataSize
        /\ job.phase = "pages" /\ job.pos + Len(job.bytes) <= n * DataSize

\* What is known during a battfs_write().
LEMMA JobFacts ==
  ASSUME BattInv, job # NoJob
  PROVE  /\ mounted /\ ~failed /\ job \in AnyJob /\ job.inode \in Inodes /\ job.inode \in Nat
         /\ file[job.inode] \in AnyHandle /\ file[job.inode].open
         /\ file[job.inode].start \in Nat /\ file[job.inode].size \in Nat
         /\ file[job.inode].max_off \in Nat
         /\ file[job.inode].start + file[job.inode].max_off \in Pages
         /\ \E n : InJob(n)
         /\ job.phase = "pages" /\ dev.dirty /\ Off < file[job.inode].max_off =>
              /\ dev.curr # page_array[file[job.inode].start + Off]
              /\ dev.curr # page_array[file[job.inode].start + file[job.inode].max_off]
<1>1. mounted /\ ~failed
  BY DEF BattInv, StateOK
<1>2. RunOK /\ StateOK /\ ArrayOK(Now, free_page_start)
  BY <1>1, NowSound DEF SoundDisk, Now
<1>3. JobOK
  BY <1>2 DEF RunOK
<1>4. job \in AnyJob /\ job.inode \in Inodes /\ job.inode \in Nat
  BY <1>3, InodeFacts DEF JobOK, AnyJob
<1>5. PICK f : f = file[job.inode]
  OBVIOUS
<1>6. f \in AnyHandle /\ f.open
  BY <1>2, <1>3, <1>4, <1>5, ClosedFacts DEF JobOK, StateOK
<1>7. f.start \in Nat /\ f.size \in Nat /\ f.max_off \in Nat
  BY <1>6 DEF AnyHandle
<1>8. /\ f.start + f.max_off \in Pages
      /\ job.phase = "pages" /\ dev.dirty /\ Off < f.max_off =>
           /\ dev.curr # page_array[f.start + Off]
           /\ dev.curr # page_array[f.start + f.max_off]
  BY <1>3, <1>5 DEF JobOK
<1>9. PICK n \in Nat \ {0} :
        /\ FileAt(Now, free_page_start, job.inode, f.start, n)
        /\ f.size = (n - 1) * DataSize + Len(Now[f.start + n - 1].data)
        /\ n = f.max_off + 1 \/ (n = f.max_off /\ f.size = n * DataSize)
  <2>1. HandleOK(Now, free_page_start, job.inode, f)
    BY <1>2, <1>4, <1>5, <1>6 DEF RunOK
  <2> QED
    BY <2>1 DEF HandleOK
<1>10. n > 0
  BY <1>9
<1>11. \/ /\ n = f.max_off + 1
          /\ job.phase = "tail" => job.pos > f.size
          /\ job.phase = "zeros" => f.size = n * DataSize /\ job.pos >= f.size
          /\ job.phase = "pages" => job.pos <= f.size
       \/ /\ n = f.max_off /\ f.size = n * DataSize
          /\ job.phase = "pages" /\ job.pos + Len(job.bytes) <= n * DataSize
  <2>1. CASE /\ FileAt(Now, free_page_start, job.inode, f.start, f.max_off + 1)
             /\ job.phase = "tail" => job.pos > f.size
             /\ job.phase = "zeros" => f.size = (f.max_off + 1) * DataSize /\ job.pos >= f.size
             /\ job.phase = "pages" => job.pos <= f.size
    <3>1. n = f.max_off + 1
      BY <1>2, <1>9, <1>10, <2>1, FilePlace
    <3> QED
      BY <2>1, <3>1
  <2>2. CASE /\ FileAt(Now, free_page_start, job.inode, f.start, f.max_off)
             /\ job.phase = "pages" /\ job.pos + Len(job.bytes) <= f.max_off * DataSize
    <3>1. n = f.max_off
      BY <1>2, <1>9, <1>10, <2>2, FilePlace
    <3>2. f.size = n * DataSize
      BY <1>7, <1>9, <3>1
    <3> QED
      BY <2>2, <3>1, <3>2
  <2> QED
    BY <1>3, <1>5, <2>1, <2>2 DEF JobOK
<1>12. InJob(n)
  BY <1>5, <1>9, <1>11 DEF InJob
<1> QED
  BY <1>1, <1>4, <1>5, <1>6, <1>7, <1>8, <1>12

\* The last pages of the file and their lengths.
LEMMA JobPages ==
  ASSUME BattInv, job # NoJob, NEW n, InJob(n)
  PROVE  LET s == file[job.inode].start IN
         /\ n \in Nat /\ n > 0 /\ s + n \in 0..free_page_start
         /\ s + n - 1 \in Used(free_page_start)
         /\ \A k \in Nat : k < n =>
              /\ s + k \in Used(free_page_start) /\ s + k \in Pages
              /\ PageAt(s + k) = Now[s + k] /\ Now[s + k] \in AnyPage
              /\ Now[s + k].fcs /\ Now[s + k].inode = job.inode /\ Now[s + k].pgoff = k
              /\ s + k + 1 < free_page_start /\ Now[s + k + 1].pgoff > 0 =>
                   Len(Now[s + k].data) = DataSize
<1>1. /\ mounted /\ ~failed /\ file[job.inode].start \in Nat
  BY JobFacts
<1>2. ArrayOK(Now, free_page_start) /\ \A k \in Pages : PageAt(k) = Now[k]
  BY <1>1, NowSound DEF SoundDisk, Now
<1>3. PICK s \in Nat : s = file[job.inode].start
  BY <1>1
<1>4. PICK u \in 0..PageCnt : u = free_page_start
  BY <1>2 DEF ArrayOK
<1>5. n \in Nat /\ n > 0 /\ FileAt(Now, u, job.inode, s, n)
  BY <1>3, <1>4 DEF InJob
<1>6. u \in Nat /\ s + n <= u
  BY <1>4, <1>5, UsedFacts, SizesAssumption DEF FileAt
<1>7. Now \in [Pages -> AnyPage] /\ Ordered(Now, u) /\ Linked(Now, u)
  BY <1>2, <1>4 DEF ArrayOK
<1>8. ASSUME NEW k \in Nat, k < n
      PROVE  /\ s + k \in Used(u) /\ s + k \in Pages
             /\ PageAt(s + k) = Now[s + k] /\ Now[s + k] \in AnyPage
             /\ Now[s + k].fcs /\ Now[s + k].inode = job.inode /\ Now[s + k].pgoff = k
             /\ s + k + 1 < u /\ Now[s + k + 1].pgoff > 0 =>
                  Len(Now[s + k].data) = DataSize
  <2>1. PICK p \in Nat : p = s + k
    OBVIOUS
  <2>2. s <= p /\ p < s + n /\ p < u /\ p - s = k
    BY <1>5, <1>6, <1>8, <2>1
  <2>3. p \in Used(u) /\ p \in Pages
    BY <1>4, <2>2, UsedFacts
  <2>4. Now[p].fcs /\ Now[p].inode = job.inode /\ Now[p].pgoff = k /\ Now[p] \in AnyPage
    BY <1>5, <1>7, <2>2, <2>3 DEF FileAt, Ordered
  <2>5. ASSUME p + 1 < u, Now[p + 1].pgoff > 0
        PROVE  Len(Now[p].data) = DataSize
    <3>1. PICK q \in Nat : q = p + 1
      OBVIOUS
    <3>2. q \in Used(u)
      BY <1>4, <2>5, <3>1, UsedFacts
    <3>3. Len(Now[q - 1].data) = DataSize
      BY <1>7, <2>5, <3>1, <3>2 DEF Linked
    <3>4. q - 1 = p
      BY <3>1
    <3> QED
      BY <3>3, <3>4
  <2>6. PageAt(p) = Now[p]
    BY <1>2, <2>3
  <2>7. s + k + 1 = p + 1
    BY <2>1
  <2> QED
    BY <2>1, <2>3, <2>4, <2>5, <2>6, <2>7
<1>9. s + n - 1 \in Used(u) /\ s + n \in 0..u
  <2>1. n - 1 \in Nat /\ n - 1 < n /\ s + (n - 1) = s + n - 1
    BY <1>5
  <2>2. s + n \in 0..u
    BY <1>5, <1>6
  <2>3. s + (n - 1) \in Used(u)
    BY <1>8, <2>1
  <2> QED
    BY <2>1, <2>2, <2>3
<1> QED
  BY <1>3, <1>4, <1>5, <1>8, <1>9

-----------------------------------------------------------------------------
\* How far the zeros go.
Fill(b, m, l, size, p, n) ==
  /\ b \in Nat \ {0} /\ m \in Nat /\ l \in Nat /\ l <= b /\ size = m * b + l
  /\ p \in Nat /\ p >= size /\ n = Min({p - size, b - l})

\* A page filled with zeros up to position p, or to its end: p comes to lie at
\* the end of the file, or the page is full.
LEMMA Filled ==
  ASSUME NEW b, NEW m, NEW l, NEW size, NEW p, NEW n, Fill(b, m, l, size, p, n)
  PROVE  /\ n \in Nat /\ n <= p - size /\ l + n <= b /\ p \div b >= m
         /\ p \div b > m => size + n = (m + 1) * b /\ p >= size + n
         /\ ~(p \div b > m) => size + n = p
         /\ n = 0 /\ l < b => p = size
<1>0. /\ b \in Nat \ {0} /\ m \in Nat /\ l \in Nat /\ l <= b /\ size = m * b + l
      /\ p \in Nat /\ p >= size /\ n = Min({p - size, b - l})
  BY DEF Fill
<1>1. PICK q \in Nat : q = p \div b
  <2>1. p \div b \in Nat
    BY <1>0
  <2> QED
    BY <1>0, <2>1
<1>2. b * q <= p
  <2>1. b * (p \div b) <= p
    BY <1>0
  <2> QED
    BY <1>0, <1>1, <2>1
<1>3. p < b * q + b
  <2>1. p = b * (p \div b) + (p % b) /\ p % b < b /\ p % b \in Nat
    BY <1>0
  <2>2. PICK r \in Nat : r = p % b
    BY <1>0, <2>1
  <2>3. p = b * q + r /\ r < b
    BY <1>0, <1>1, <2>1, <2>2
  <2>4. PICK bq \in Nat : bq = b * q
    BY <1>0
  <2> QED
    BY <1>0, <2>3, <2>4
<1>4. PICK mb \in Nat : mb = m * b
  BY <1>0
<1>5. (m + 1) * b = mb + b
  BY <1>0, <1>4
<1>6. PICK bq \in Nat : bq = b * q
  BY <1>0
<1>7. q > m => bq >= mb + b
  <2>1. ASSUME q > m PROVE b * q >= b * (m + 1)
    <3>1. q - (m + 1) \in Nat
      BY <1>0, <2>1
    <3>2. b * (q - (m + 1)) \in Nat
      BY <1>0, <3>1
    <3>3. b * (q - (m + 1)) = b * q - b * (m + 1)
      BY <1>0, <3>1
    <3> QED
      BY <1>0, <3>2, <3>3
  <2>2. b * (m + 1) = mb + b
    BY <1>0, <1>4
  <2> QED
    BY <1>0, <1>6, <2>1, <2>2
<1>8. q < m => bq + b <= mb
  <2>1. ASSUME q < m PROVE b * m >= b * (q + 1)
    <3>1. m - (q + 1) \in Nat
      BY <1>0, <2>1
    <3>2. b * (m - (q + 1)) \in Nat
      BY <1>0, <3>1
    <3>3. b * (m - (q + 1)) = b * m - b * (q + 1)
      BY <1>0, <3>1
    <3> QED
      BY <1>0, <3>2, <3>3
  <2>2. b * (q + 1) = bq + b /\ b * m = mb
    BY <1>0, <1>4, <1>6
  <2> QED
    BY <1>0, <2>1, <2>2
<1>9. q <= m => bq <= mb
  <2>1. q = m => bq = mb
    BY <1>0, <1>4, <1>6
  <2> QED
    BY <1>0, <1>8, <2>1
<1>10. size \in Nat /\ size = mb + l /\ p - size \in Nat /\ b - l \in Nat
  BY <1>0, <1>4
<1>11. n \in Int /\ n <= p - size /\ n <= b - l /\ (n = p - size \/ n = b - l)
  <2>1. p - size \in Int /\ b - l \in Int
    BY <1>0, <1>10
  <2> QED
    BY <1>0, <2>1, MinTwo
<1>12. p < bq + b /\ bq <= p
  BY <1>0, <1>2, <1>3, <1>6
<1>13. n \in Nat /\ n <= p - size /\ l + n <= b
  BY <1>0, <1>10, <1>11
<1>14. q >= m
  BY <1>0, <1>8, <1>10, <1>12
<1>15. q > m => size + n = mb + b /\ p >= size + n
  BY <1>0, <1>7, <1>10, <1>11, <1>12
<1>16. ~(q > m) => size + n = p
  BY <1>0, <1>9, <1>10, <1>11, <1>12
<1>17. n = 0 /\ l < b => p = size
  BY <1>0, <1>10, <1>11
<1> QED
  BY <1>0, <1>1, <1>5, <1>13, <1>14, <1>15, <1>16, <1>17

\* Appending zeros.
LEMMA WithZeros ==
  ASSUME NEW data \in Seq(AnyByte), NEW n \in Nat
  PROVE  data \o Zeros(n) \in Seq(AnyByte) /\ Len(data \o Zeros(n)) = Len(data) + n
<1>1. PICK z \in Seq(AnyByte) : z = Zeros(n) /\ Len(z) = n
  BY ZerosSeq
<1> QED
  BY <1>1

\* A page is empty when it has no bytes.
LEMMA NotEmpty ==
  ASSUME NEW data \in Seq(AnyByte)
  PROVE  data # <<>> <=> Len(data) > 0
OBVIOUS

\* A file that is n bytes longer.
LEMMA GrownHandle ==
  ASSUME NEW f \in AnyHandle, NEW n \in Nat
  PROVE  /\ [f EXCEPT !.size = @ + n] \in AnyHandle
         /\ [f EXCEPT !.size = @ + n].start = f.start
         /\ [f EXCEPT !.size = @ + n].max_off = f.max_off
         /\ [f EXCEPT !.size = @ + n].size = f.size + n
<1>1. /\ f = [open |-> f.open, start |-> f.start, size |-> f.size, max_off |-> f.max_off]
      /\ f.open \in {TRUE} /\ f.start \in Nat /\ f.size \in Nat /\ f.max_off \in Nat
  BY DEF AnyHandle
<1>2. PICK e : e = [f EXCEPT !.size = @ + n]
  OBVIOUS
<1>3. e = [open |-> f.open, start |-> f.start, size |-> f.size + n, max_off |-> f.max_off]
  BY <1>1, <1>2
<1>4. f.size + n \in Nat
  BY <1>1
<1>5. e \in AnyHandle
  BY <1>1, <1>3, <1>4 DEF AnyHandle
<1> QED
  BY <1>2, <1>3, <1>5

\* The job that goes on.
LEMMA NextPhase ==
  ASSUME job \in AnyJob, NEW phase \in {"zeros", "pages"}, NEW nj, nj = [job EXCEPT !.phase = phase]
  PROVE  /\ nj \in AnyJob /\ nj.inode = job.inode /\ nj.pos = job.pos /\ nj.bytes = job.bytes
         /\ nj.phase = phase
BY DEF AnyJob

-----------------------------------------------------------------------------
\* What is left to show of a job that goes on.
LEMMA JobNext ==
  ASSUME NEW nj, nj = job', nj \in AnyJob, NEW f, f = file'[nj.inode], f \in AnyHandle,
         f.start + f.max_off \in Pages,
         \/ /\ FileAt(Now', free_page_start', nj.inode, f.start, f.max_off + 1)
            /\ nj.phase = "tail" => nj.pos > f.size
            /\ nj.phase = "zeros" => f.size = (f.max_off + 1) * DataSize /\ nj.pos >= f.size
            /\ nj.phase = "pages" => nj.pos <= f.size
         \/ /\ FileAt(Now', free_page_start', nj.inode, f.start, f.max_off)
            /\ nj.phase = "pages" /\ nj.pos + Len(nj.bytes) <= f.max_off * DataSize,
         nj.phase = "pages" /\ dev'.dirty /\ nj.pos \div DataSize < f.max_off =>
           /\ dev'.curr # page_array'[f.start + nj.pos \div DataSize]
           /\ dev'.curr # page_array'[f.start + f.max_off]
  PROVE  JobOK'
<1>1. f.open
  BY ClosedFacts
<1> QED
  BY <1>1 DEF JobOK, Off

\* The zeros in the last page, after what it has had or as many other bytes.
Padded(old, n, z, page, there) ==
  LET f == file[job.inode] IN
  /\ InJob(n) /\ z \in Nat /\ f.size + z <= job.pos
  /\ Alters(job.inode, f.start + (n - 1), page, there)
  /\ old \in Seq(AnyByte) /\ Len(old) = Len(Now[f.start + (n - 1)].data)
  /\ page.data = old \o Zeros(z)

\* No empty page is left behind, for it is full afterwards or the next step
\* writes it.
LEMMA FillTailInv ==
  ASSUME BattInv, job # NoJob, job.phase = "tail",
         NEW old \in Seq(AnyByte), Len(old) = Len(LastPage.data), FillTail(old),
         UNCHANGED <<mounted, failed, free_page_start>>
  PROVE  BattInv' /\ \E n, z, page, there : Padded(old, n, z, page, there)
<1>1. PICK f : f = file[job.inode]
  OBVIOUS
<1>2. PICK i : i = job.inode
  OBVIOUS
<1>3. /\ mounted /\ ~failed /\ job \in AnyJob /\ i \in Inodes /\ f \in AnyHandle /\ f.open
      /\ f.start \in Nat /\ f.size \in Nat /\ f.max_off \in Nat /\ f.start + f.max_off \in Pages
      /\ \E n : InJob(n)
  BY <1>1, <1>2, JobFacts
<1>4. PICK n : InJob(n)
  BY <1>3
<1>5. job.phase = "tail" /\ mounted' = mounted /\ failed' = failed
      /\ free_page_start' = free_page_start
  OBVIOUS
<1>6. /\ n = f.max_off + 1 /\ job.pos > f.size
      /\ f.size = (n - 1) * DataSize + Len(Now[f.start + n - 1].data)
      /\ FileAt(Now, free_page_start, i, f.start, n)
  BY <1>1, <1>2, <1>4, <1>5 DEF InJob
<1>7. PICK pos : pos = f.start + f.max_off
  OBVIOUS
<1>8. /\ pos \in Used(free_page_start) /\ pos \in Pages /\ PageAt(pos) = Now[pos]
      /\ Now[pos] \in AnyPage /\ Now[pos].fcs /\ Now[pos].inode = i
      /\ pos + 1 < free_page_start /\ Now[pos + 1].pgoff > 0 => Len(Now[pos].data) = DataSize
  <2>1. f.max_off \in Nat /\ f.max_off < n
    BY <1>3, <1>6
  <2> QED
    BY <1>1, <1>2, <1>4, <1>7, <2>1, JobPages
<1>9. f.size = f.max_off * DataSize + Len(Now[pos].data)
  <2>1. n - 1 = f.max_off /\ f.start + n - 1 = pos
    BY <1>3, <1>6, <1>7
  <2> QED
    BY <1>6, <2>1
<1>10. PICK hdr \in AnyPage : hdr = Now[pos] /\ hdr.fcs /\ hdr = LastPage
  BY <1>1, <1>7, <1>8 DEF LastPage
<1>11. PICK l \in Nat : l = Len(hdr.data) /\ l <= DataSize /\ l = Len(old)
  BY <1>10, PageFields
<1>12. PICK p \in Nat : p = job.pos
  BY <1>3 DEF AnyJob
<1>13. PICK z : z = Min({p - f.size, DataSize - l})
  OBVIOUS
<1>14. /\ z \in Nat /\ l + z <= DataSize
       /\ p \div DataSize > f.max_off => f.size + z = (f.max_off + 1) * DataSize /\ p >= f.size + z
       /\ ~(p \div DataSize > f.max_off) => f.size + z = p
       /\ z = 0 /\ l < DataSize => p = f.size
       /\ p \div DataSize >= f.max_off
  <2>1. DataSize \in Nat \ {0} /\ p >= f.size /\ f.size = f.max_off * DataSize + l
    BY <1>3, <1>6, <1>9, <1>10, <1>11, <1>12, SizesAssumption
  <2>2. PICK m \in Nat : m = f.max_off
    BY <1>3
  <2>3. PICK size : size = f.size
    OBVIOUS
  <2>4. p >= size /\ size = m * DataSize + l /\ z = Min({p - size, DataSize - l}) /\ l <= DataSize
    BY <1>11, <1>13, <2>1, <2>2, <2>3
  <2>5. /\ z \in Nat /\ l + z <= DataSize /\ p \div DataSize >= m
        /\ p \div DataSize > m => size + z = (m + 1) * DataSize /\ p >= size + z
        /\ ~(p \div DataSize > m) => size + z = p
        /\ z = 0 /\ l < DataSize => p = size
    <3>1. Fill(DataSize, m, l, size, p, z)
      BY <2>1, <2>4 DEF Fill
    <3> QED
      BY <3>1, Filled
  <2> QED
    BY <2>2, <2>3, <2>5
<1>15. PICK data : data = old \o Zeros(z)
  OBVIOUS
<1>16. data \in Seq(AnyByte) /\ Len(data) = l + z /\ data # <<>>
  <2>2. data \in Seq(AnyByte) /\ Len(data) = l + z
    BY <1>11, <1>14, <1>15, WithZeros
  <2>3. l + z > 0
    <3>1. z = 0 => ~(l < DataSize)
      BY <1>3, <1>6, <1>12, <1>14
    <3>2. DataSize > 0 /\ DataSize \in Nat
      BY SizesAssumption
    <3> QED
      BY <1>11, <1>14, <3>1, <3>2
  <2> QED
    BY <2>2, <2>3, NotEmpty
<1>17. PICK page : page = NewCopy(hdr, data)
  OBVIOUS
<1>18. page \in AnyPage /\ page.fcs /\ SamePage(page, hdr) /\ page.seq = hdr.seq + 1 /\ page.data = data
  <2>1. Len(data) <= DataSize
    BY <1>14, <1>16
  <2> QED
    BY <1>10, <1>16, <1>17, <2>1, OldPage
<1>19. /\ Rewrite(pos, page, Buffered(f)) /\ Grow(i, z)
       /\ job' = [job EXCEPT !.phase = IF job.pos \div DataSize > f.max_off THEN "zeros" ELSE "pages"]
  BY <1>1, <1>2, <1>7, <1>8, <1>10, <1>11, <1>12, <1>13, <1>15, <1>17 DEF FillTail, NewCopy
<1>20. Rewrites(Now, free_page_start, pos, page)
  <2>1. pos + 1 < free_page_start /\ Now[pos + 1].pgoff > 0 => Len(page.data) = DataSize
    BY <1>8, <1>10, <1>11, <1>14, <1>16, <1>18, SizesAssumption
  <2> QED
    BY <1>10, <1>18, <2>1 DEF Rewrites
<1>21. page.inode = i /\ page.data # <<>> /\ Len(page.data) >= Len(Now[pos].data)
       /\ Len(page.data) - Len(Now[pos].data) = z
  BY <1>8, <1>10, <1>11, <1>14, <1>16, <1>18 DEF SamePage
<1>22. PICK there \in BOOLEAN : there <=> Buffered(f)
  OBVIOUS
<1>23. /\ there => page_array[pos] = dev.curr /\ dev.dirty
       /\ ~there => Steady /\ ~(dev.dirty /\ page_array[pos] = dev.curr)
  <2>1. Steady
    BY <1>3, <1>5, IdleSteady
  <2> QED
    BY <1>7, <1>22, <2>1 DEF Buffered
<1>24. Rewrite(pos, page, there) /\ Grow(i, Len(page.data) - Len(Now[pos].data))
  <2>1. Rewrite(pos, page, there)
    BY <1>19, <1>22 DEF Rewrite
  <2> QED
    BY <1>19, <1>21, <2>1
<1>a. Alters(i, pos, page, there)
  <2>1. file[i].open
    BY <1>1, <1>2, <1>3
  <2> QED
    BY <1>3, <1>5, <1>8, <1>18, <1>20, <1>21, <1>23, <1>24, <2>1 DEF Alters
<1>25. /\ SoundDisk(dev', page_array', free_page_start')
       /\ file' \in [Inodes -> {Closed} \cup AnyHandle]
       /\ file'[i] = [f EXCEPT !.size = @ + z]
       /\ \A j \in Inodes : file'[j].open => HandleOK(Now', free_page_start', j, file'[j])
       /\ FreeOK' /\ LastOK'
       /\ \A j, s, m : FileAt(Now, free_page_start, j, s, m) => FileAt(Now', free_page_start', j, s, m)
  <2>1. /\ SoundDisk(dev', page_array', free_page_start')
        /\ file' \in [Inodes -> {Closed} \cup AnyHandle]
        /\ file'[i] = Grew(file[i], Len(page.data) - Len(Now[pos].data))
        /\ \A j \in Inodes : file'[j].open => HandleOK(Now', free_page_start', j, file'[j])
        /\ FreeOK' /\ LastOK'
        /\ \A j, s, m : FileAt(Now, free_page_start, j, s, m) => FileAt(Now', free_page_start', j, s, m)
    BY <1>3, <1>a, Rewritten
  <2> QED
    BY <1>1, <1>2, <1>21, <2>1 DEF Grew
<1>26. JobOK'
  <2>1. PICK phase \in {"zeros", "pages"} :
          phase = IF p \div DataSize > f.max_off THEN "zeros" ELSE "pages"
    OBVIOUS
  <2>2. PICK nj : nj = job'
    OBVIOUS
  <2>3. nj = [job EXCEPT !.phase = phase]
    BY <1>12, <1>19, <2>1, <2>2
  <2>4. nj \in AnyJob /\ nj.inode = i /\ nj.pos = p /\ nj.phase = phase
    BY <1>2, <1>3, <1>12, <2>3, NextPhase
  <2>5. PICK e : e = [f EXCEPT !.size = @ + z]
    OBVIOUS
  <2>6. e \in AnyHandle /\ e.start = f.start /\ e.max_off = f.max_off /\ e.size = f.size + z
    BY <1>3, <1>14, <2>5, GrownHandle
  <2>7. e = file'[nj.inode]
    BY <1>25, <2>4, <2>5
  <2>8. FileAt(Now', free_page_start', i, e.start, e.max_off + 1)
    BY <1>6, <1>25, <2>6
  <2>9. phase = "zeros" => e.size = (e.max_off + 1) * DataSize /\ p >= e.size
    BY <1>14, <2>1, <2>6
  <2>10. phase = "pages" => p <= e.size
    BY <1>14, <2>1, <2>6
  <2>11. ~(phase = "pages" /\ dev'.dirty /\ p \div DataSize < e.max_off)
    <3>1. PICK q : q = p \div DataSize
      OBVIOUS
    <3>2. q \in Nat
      <4>1. DataSize \in Nat \ {0}
        BY SizesAssumption
      <4> QED
        BY <3>1, <4>1
    <3>3. ~(q < e.max_off)
      BY <1>3, <1>14, <2>6, <3>1, <3>2
    <3> QED
      BY <3>1, <3>3
  <2>12. phase # "tail"
    BY <2>1
  <2>13. e.start + e.max_off \in Pages
    BY <1>3, <2>6
  <2> QED
    BY <2>2, <2>4, <2>6, <2>7, <2>8, <2>9, <2>10, <2>11, <2>12, <2>13, JobNext
<1>27. mounted' /\ ~failed' /\ mounted' \in BOOLEAN /\ failed' \in BOOLEAN
  BY <1>3, <1>5 DEF BattInv, StateOK
<1>28. Padded(old, n, z, page, there)
  <2>1. f.size + z <= p
    <3>1. p \div DataSize > f.max_off \/ ~(p \div DataSize > f.max_off)
      OBVIOUS
    <3> QED
      BY <1>14, <3>1
  <2>2. f.start + (n - 1) = pos
    BY <1>3, <1>6, <1>7
  <2>3. page.data = old \o Zeros(z) /\ Len(old) = Len(Now[pos].data)
    BY <1>10, <1>11, <1>15, <1>18
  <2> QED
    BY <1>1, <1>2, <1>4, <1>12, <1>14, <1>a, <2>1, <2>2, <2>3 DEF Padded
<1>29. BattInv'
  BY <1>25, <1>26, <1>27, Conclude
<1> QED
  BY <1>28, <1>29

\* The last page is that of the file.
LEMMA LastPageData ==
  ASSUME BattInv, job # NoJob, job.phase = "tail"
  PROVE  LastPage.data \in Seq(AnyByte) /\ Len(LastPage.data) \in Nat
<1>1. PICK n : InJob(n)
  BY JobFacts
<1>2. file[job.inode].start \in Nat /\ file[job.inode].max_off \in Nat
  BY JobFacts
<1>3. file[job.inode].max_off < n
  BY <1>1, <1>2 DEF InJob
<1>4. LastPage \in AnyPage
  BY <1>1, <1>2, <1>3, JobPages DEF LastPage
<1> QED
  BY <1>4, PageFields

\* The tail that the file has, ...
LEMMA WriteTailInv ==
  ASSUME BattInv, job # NoJob, WriteTail
  PROVE  BattInv' /\ \E n, z, page, there : Padded(LastPage.data, n, z, page, there)
<1>1. PICK old : old = LastPage.data
  OBVIOUS
<1>2. job.phase = "tail" /\ FillTail(old) /\ UNCHANGED <<mounted, failed, free_page_start>>
  BY <1>1 DEF WriteTail, seen
<1>3. old \in Seq(AnyByte) /\ Len(old) = Len(LastPage.data)
  BY <1>1, <1>2, LastPageData
<1>4. BattInv' /\ \E n, z, page, there : Padded(old, n, z, page, there)
  BY <1>2, <1>3, FillTailInv
<1> QED
  BY <1>1, <1>4

\* ... and one that it should not have.
LEMMA WriteTailSpoiltInv ==
  ASSUME BattInv, job # NoJob, WriteTailSpoilt
  PROVE  BattInv' /\ \E old, n, z, page, there : Padded(old, n, z, page, there)
<1>1. PICK len : len = Len(LastPage.data)
  OBVIOUS
<1>2. PICK old \in [1..len -> AnyByte] :
        job.phase = "tail" /\ FillTail(old) /\ UNCHANGED <<mounted, failed, free_page_start>>
  BY <1>1 DEF WriteTailSpoilt, AnyByte
<1>3. len \in Nat
  BY <1>1, <1>2, LastPageData
<1>4. old \in Seq(AnyByte) /\ Len(old) = len
  BY <1>2, <1>3
<1>5. BattInv' /\ \E n, z, page, there : Padded(old, n, z, page, there)
  BY <1>1, <1>2, <1>4, FillTailInv
<1> QED
  BY <1>5

-----------------------------------------------------------------------------
\* The handle of a file that gets a page more.
Longer(f, n, off) == [f EXCEPT !.size = @ + n, !.max_off = off]

\* A file that has a page more.
LEMMA LongerHandle ==
  ASSUME NEW f \in AnyHandle, NEW n \in Nat, NEW off \in Nat, NEW e, e = Longer(f, n, off)
  PROVE  e \in AnyHandle /\ e.start = f.start /\ e.max_off = off /\ e.size = f.size + n
<1>1. /\ f = [open |-> f.open, start |-> f.start, size |-> f.size, max_off |-> f.max_off]
      /\ f.open \in {TRUE} /\ f.start \in Nat /\ f.size \in Nat /\ f.max_off \in Nat
  BY DEF AnyHandle
<1>2. e = [open |-> f.open, start |-> f.start, size |-> f.size + n, max_off |-> off]
  BY <1>1 DEF Longer
<1>3. f.size + n \in Nat
  BY <1>1
<1>4. e \in AnyHandle
  <2>1. PICK open \in {TRUE}, start \in Nat, size \in Nat :
          open = f.open /\ start = f.start /\ size = f.size + n
    BY <1>1, <1>3
  <2>2. e = [open |-> open, start |-> start, size |-> size, max_off |-> off]
    BY <1>2, <2>1
  <2> QED
    BY <2>2 DEF AnyHandle
<1>5. e.start = f.start /\ e.max_off = off /\ e.size = f.size + n
  BY <1>2
<1> QED
  BY <1>4, <1>5

\* The pages of zeros, full but for the last.
PaddedNew(n, z, page, e) ==
  LET f == file[job.inode] IN
  /\ InJob(n) /\ Steady /\ z \in Nat /\ f.size + z <= job.pos
  /\ Extends(job.inode, f.start, n, page, e)
  /\ page.data = Zeros(z)

\* The invariant when the missing pages are added, one by one.
LEMMA WriteZerosInv ==
  ASSUME BattInv, job # NoJob, WriteZeros
  PROVE  BattInv' /\ \E n, z, page, e : PaddedNew(n, z, page, e)
<1>1. PICK f : f = file[job.inode]
  OBVIOUS
<1>2. PICK i : i = job.inode
  OBVIOUS
<1>3. /\ mounted /\ ~failed /\ job \in AnyJob /\ i \in Inodes /\ f \in AnyHandle /\ f.open
      /\ f.start \in Nat /\ f.size \in Nat /\ f.max_off \in Nat /\ i \in Nat
      /\ \E n : InJob(n)
  BY <1>1, <1>2, JobFacts
<1>4. PICK n : InJob(n)
  BY <1>3
<1>5. job.phase = "zeros" /\ ~SpaceOver /\ mounted' = mounted /\ failed' = failed
  BY DEF WriteZeros, seen
<1>6. /\ n = f.max_off + 1 /\ f.size = n * DataSize /\ job.pos >= f.size /\ n \in Nat /\ n > 0
      /\ f.size = (n - 1) * DataSize + Len(Now[f.start + n - 1].data)
      /\ FileAt(Now, free_page_start, i, f.start, n)
  <2>1. n \in Nat \ {0} /\ (n = f.max_off \/ n = f.max_off + 1)
    BY <1>1, <1>4, <1>5 DEF InJob
  <2>2. n \in Nat /\ n > 0
    BY <2>1
  <2> QED
    BY <1>1, <1>2, <1>4, <1>5, <2>2 DEF InJob
<1>7. PICK s \in Nat : s = f.start
  BY <1>3
<1>8. ArrayOK(Now, free_page_start) /\ StateOK /\ Steady
  BY <1>3, <1>5, NowSound, IdleSteady DEF SoundDisk, Now
<1>9. Len(Now[s + n - 1].data) = DataSize
  <2>1. PICK l : l = Len(Now[s + n - 1].data)
    OBVIOUS
  <2>2. s + n - 1 \in Pages /\ Now[s + n - 1] \in AnyPage
    <3>1. n - 1 \in Nat /\ n - 1 < n /\ s + (n - 1) = s + n - 1
      BY <1>6
    <3>2. s + (n - 1) \in Pages /\ Now[s + (n - 1)] \in AnyPage
      BY <1>1, <1>4, <1>7, <3>1, JobPages
    <3> QED
      BY <3>1, <3>2
  <2>3. l \in Nat
    BY <2>1, <2>2, PageFields
  <2>4. n * DataSize = (n - 1) * DataSize + DataSize /\ (n - 1) * DataSize \in Nat /\ DataSize \in Nat
    <3>1. DataSize \in Nat
      BY SizesAssumption
    <3>2. PICK k \in Nat : k = n - 1
      BY <1>6
    <3>3. n = k + 1
      BY <1>6, <3>2
    <3>4. (k + 1) * DataSize = k * DataSize + DataSize
      BY <3>1
    <3>5. k * DataSize \in Nat
      BY <3>1
    <3> QED
      BY <3>1, <3>2, <3>3, <3>4, <3>5
  <2>5. n * DataSize = (n - 1) * DataSize + l
    BY <1>6, <1>7, <2>1
  <2> QED
    BY <2>1, <2>3, <2>4, <2>5
<1>10. PICK p \in Nat : p = job.pos
  BY <1>3 DEF AnyJob
<1>11. PICK z : z = Min({DataSize, p - f.size})
  OBVIOUS
<1>12. /\ z \in Nat /\ z <= DataSize
       /\ p \div DataSize > n => f.size + z = (n + 1) * DataSize /\ p >= f.size + z
       /\ ~(p \div DataSize > n) => f.size + z = p
       /\ z = 0 => p = f.size
       /\ p \div DataSize >= n
  <2>1. DataSize \in Nat \ {0} /\ DataSize - 0 = DataSize /\ 0 < DataSize /\ 0 <= DataSize
    BY SizesAssumption
  <2>2. {DataSize, p - f.size} = {p - f.size, DataSize - 0}
    BY <2>1
  <2>3. PICK size \in Nat : size = f.size
    BY <1>3
  <2>4. size = n * DataSize + 0
    <3>1. n * DataSize + 0 = n * DataSize
      BY <1>6, <2>1
    <3> QED
      BY <1>6, <2>3, <3>1
  <2>5. p >= size /\ z = Min({p - size, DataSize - 0})
    BY <1>6, <1>10, <1>11, <2>2, <2>3
  <2>6. 0 \in Nat
    OBVIOUS
  <2>7. Fill(DataSize, n, 0, size, p, z)
    BY <1>6, <2>1, <2>4, <2>5, <2>6 DEF Fill
  <2>8. /\ z \in Nat /\ 0 + z <= DataSize
        /\ p \div DataSize > n => size + z = (n + 1) * DataSize /\ p >= size + z
        /\ ~(p \div DataSize > n) => size + z = p
        /\ z = 0 /\ 0 < DataSize => p = size
        /\ p \div DataSize >= n
    BY <2>7, Filled
  <2>9. 0 + z = z
    BY <2>8
  <2> QED
    BY <2>1, <2>3, <2>8, <2>9
<1>13. PICK data : data = Zeros(z)
  OBVIOUS
<1>14. data \in Seq(AnyByte) /\ Len(data) = z
  BY <1>12, <1>13, ZerosSeq
<1>15. PICK page : page = Page(i, n, 0, data)
  OBVIOUS
<1>16. page \in AnyPage /\ page.fcs /\ page.inode = i /\ page.pgoff = n /\ page.data = data
  <2>1. Len(data) <= DataSize /\ data \in Seq(AnyByte)
    BY <1>12, <1>14
  <2>2. i \in Nat /\ n \in Nat
    BY <1>3, <1>6
  <2> QED
    BY <1>15, <2>1, <2>2, NewPage
<1>17. s + n \in 0..free_page_start /\ Fits(Now, free_page_start, s + n, page)
  BY <1>3, <1>6, <1>7, <1>8, <1>9, <1>16, AppendFits
<1>18. PICK e : e = Longer(f, z, n)
  OBVIOUS
<1>19. e \in AnyHandle /\ e.start = s /\ e.max_off = n /\ e.size = f.size + z
  <2>1. f \in AnyHandle /\ z \in Nat /\ n \in Nat
    BY <1>3, <1>6, <1>12
  <2>2. e \in AnyHandle /\ e.start = f.start /\ e.max_off = n /\ e.size = f.size + z
    BY <1>18, <2>1, LongerHandle
  <2> QED
    BY <1>7, <2>2
<1>20. /\ Allocate(s + n, i)
       /\ dev' = BlockWrite(dev, page_array[free_page_start], page)
       /\ file' = [Shifted(i) EXCEPT ![i] = e]
       /\ free_bytes' = free_bytes - z
       /\ job' = [job EXCEPT !.phase = IF p \div DataSize > n THEN "zeros" ELSE "pages"]
  <2>1. /\ Allocate(s + n, i)
        /\ dev' = BlockWrite(dev, page_array[free_page_start], page)
        /\ file' = [Shifted(i) EXCEPT ![i].size = @ + z, ![i].max_off = n]
        /\ free_bytes' = free_bytes - z
        /\ job' = [job EXCEPT !.phase = IF p \div DataSize > n THEN "zeros" ELSE "pages"]
    BY <1>1, <1>2, <1>6, <1>7, <1>10, <1>11, <1>13, <1>15 DEF WriteZeros
  <2>2. file \in [Inodes -> {Closed} \cup AnyHandle]
    BY <1>8 DEF StateOK
  <2>3. PICK sh \in [Inodes -> {Closed} \cup AnyHandle] : sh = Shifted(i) /\ sh[i] = f
    BY <1>1, <1>2, <1>3, <2>2, ShiftedFacts
  <2>4. [sh EXCEPT ![i].size = @ + z, ![i].max_off = n] = [sh EXCEPT ![i] = e]
    BY <1>3, <1>18, <2>3 DEF Longer
  <2> QED
    BY <2>1, <2>3, <2>4
<1>21. e.size = n * DataSize + Len(page.data) /\ free_bytes' = free_bytes - Len(page.data)
  BY <1>6, <1>14, <1>16, <1>19, <1>20
<1>a. Extends(i, s, n, page, e)
  BY <1>3, <1>6, <1>7, <1>16, <1>17, <1>19, <1>20, <1>21 DEF Extends
<1>22. /\ SoundDisk(dev', page_array', free_page_start')
       /\ file' \in [Inodes -> {Closed} \cup AnyHandle] /\ file'[i] = e
       /\ \A j \in Inodes : file'[j].open => HandleOK(Now', free_page_start', j, file'[j])
       /\ FreeOK'
       /\ s + n \in Pages /\ dev'.dirty /\ page_array'[s + n] = dev'.curr
       /\ FileAt(Now', free_page_start', i, s, n + 1)
       /\ (page.pgoff > 0 /\ page.data = <<>> => Pending(s + n)') => LastOK'
  BY <1>3, <1>5, <1>8, <1>a, Extended
<1>23. PICK phase \in {"zeros", "pages"} : phase = IF p \div DataSize > n THEN "zeros" ELSE "pages"
  OBVIOUS
<1>24. PICK nj : nj = job'
  OBVIOUS
<1>25. nj \in AnyJob /\ nj.inode = i /\ nj.pos = p /\ nj.phase = phase
  <2>1. nj = [job EXCEPT !.phase = phase]
    BY <1>20, <1>23, <1>24
  <2> QED
    BY <1>2, <1>3, <1>10, <2>1, NextPhase
<1>26. PICK q \in Nat : q = p \div DataSize
  <2>1. DataSize \in Nat \ {0}
    BY SizesAssumption
  <2>2. p \div DataSize \in Nat
    BY <2>1
  <2> QED
    BY <2>2
<1>27. JobOK'
  <2>1. e = file'[nj.inode]
    BY <1>22, <1>25
  <2>2. FileAt(Now', free_page_start', i, e.start, e.max_off + 1)
    BY <1>19, <1>22
  <2>3. phase = "zeros" => e.size = (e.max_off + 1) * DataSize /\ p >= e.size
    BY <1>12, <1>19, <1>23
  <2>4. phase = "pages" => p <= e.size
    BY <1>12, <1>19, <1>23
  <2>5. ~(p \div DataSize < e.max_off)
    BY <1>6, <1>12, <1>19, <1>26
  <2>6. phase # "tail"
    BY <1>23
  <2>7. e.start + e.max_off \in Pages
    BY <1>19, <1>22
  <2> QED
    BY <1>19, <1>24, <1>25, <2>1, <2>2, <2>3, <2>4, <2>5, <2>6, <2>7, JobNext
<1>28. LastOK'
  <2>1. ASSUME page.data = <<>> PROVE Pending(s + n)'
    <3>1. z = 0
      BY <1>14, <1>16, <2>1
    <3>2. p = n * DataSize + 0 /\ n * DataSize + 0 = n * DataSize
      <4>1. n * DataSize + 0 = n * DataSize
        BY <1>6, SizesAssumption
      <4> QED
        BY <1>6, <1>12, <3>1, <4>1
    <3>3. p \div DataSize = n
      <4>1. DataSize \in Nat \ {0} /\ 0 \in Nat /\ 0 < DataSize
        BY SizesAssumption
      <4>2. (n * DataSize + 0) \div DataSize = n
        BY <1>6, <4>1, Division
      <4> QED
        BY <3>2, <4>2
    <3>4. phase = "pages"
      <4>1. ~(n > n)
        BY <1>6
      <4> QED
        BY <1>23, <3>3, <4>1
    <3>5. job'.phase = "pages" /\ job'.pos \div DataSize = n /\ file'[job'.inode] = e
      BY <1>22, <1>24, <1>25, <3>3, <3>4
    <3> QED
      BY <1>19, <1>22, <3>5 DEF Pending, Off
  <2> QED
    BY <1>22, <2>1
<1>29. mounted' /\ ~failed' /\ mounted' \in BOOLEAN /\ failed' \in BOOLEAN
  BY <1>3, <1>5, <1>8 DEF StateOK
<1>30. PaddedNew(n, z, page, e)
  <2>1. f.size + z <= p
    <3>1. p \div DataSize > n \/ ~(p \div DataSize > n)
      OBVIOUS
    <3> QED
      BY <1>12, <3>1
  <2> QED
    BY <1>1, <1>2, <1>4, <1>7, <1>8, <1>10, <1>12, <1>13, <1>16, <1>a, <2>1 DEF PaddedNew
<1>31. BattInv'
  BY <1>22, <1>27, <1>28, <1>29, Conclude
<1> QED
  BY <1>30, <1>31

-----------------------------------------------------------------------------
\* A page behind the last one.
WrittenNew(n, page, e) ==
  /\ InJob(n) /\ Steady /\ job.pos = n * DataSize
  /\ Extends(job.inode, file[job.inode].start, n, page, e)
  /\ page.data = Patch(<<>>, 0, Chunk)

\* The invariant when battfs_write() adds a page.
LEMMA WriteNewInv ==
  ASSUME BattInv, job # NoJob, WriteNew
  PROVE  BattInv' /\ \E n, page, e : WrittenNew(n, page, e)
<1>1. PICK f : f = file[job.inode]
  OBVIOUS
<1>2. PICK i : i = job.inode
  OBVIOUS
<1>3. /\ mounted /\ ~failed /\ job \in AnyJob /\ i \in Inodes /\ f \in AnyHandle /\ f.open
      /\ f.start \in Nat /\ f.size \in Nat /\ f.max_off \in Nat /\ i \in Nat
      /\ \E n : InJob(n)
  BY <1>1, <1>2, JobFacts
<1>4. PICK n : InJob(n)
  BY <1>3
<1>5. /\ job.phase = "pages" /\ Off > f.max_off /\ ~SpaceOver
      /\ mounted' = mounted /\ failed' = failed /\ job' = NextJob
  BY <1>1 DEF WriteNew, seen
<1>6. PICK off \in Nat, addr \in Nat, p \in Nat :
        /\ off = Off /\ addr = Addr /\ p = job.pos /\ addr < DataSize /\ p = DataSize * off + addr
  BY <1>3, ChunkFacts
<1>7. PICK len \in Nat : len = Len(Chunk) /\ len > 0 /\ addr + len <= DataSize
  BY <1>3, <1>6, ChunkFacts
<1>8. PICK b \in Nat \ {0} : b = DataSize
  BY SizesAssumption
<1>9. n \in Nat /\ n > 0
  BY <1>4 DEF InJob
<1>10. off >= n => b * off >= n * b
  <2>1. ASSUME off >= n PROVE b * off >= n * b
    <3>1. off - n \in Nat
      BY <1>9, <2>1
    <3>2. b * (off - n) \in Nat
      BY <3>1
    <3>3. b * (off - n) = b * off - n * b
      BY <1>9, <3>1
    <3> QED
      BY <1>9, <3>2, <3>3
  <2> QED
    BY <2>1
<1>11. /\ n = f.max_off + 1 /\ p <= f.size
       /\ f.size = (n - 1) * DataSize + Len(Now[f.start + n - 1].data)
       /\ FileAt(Now, free_page_start, i, f.start, n)
  <2>1. ASSUME n = f.max_off, job.pos + Len(job.bytes) <= n * DataSize PROVE FALSE
    <3>1. off >= n
      BY <1>3, <1>5, <1>6, <2>1
    <3>2. PICK l \in Nat : l = Len(job.bytes) /\ l > 0
      <4>1. Len(Chunk) <= Len(job.bytes) /\ Len(job.bytes) \in Nat
        BY <1>3, ChunkFacts DEF AnyJob
      <4> QED
        BY <1>7, <4>1
    <3>3. PICK nb \in Nat : nb = n * b
      BY <1>9
    <3>4. PICK bo \in Nat : bo = b * off
      OBVIOUS
    <3>5. p + l <= nb /\ p = bo + addr /\ bo >= nb
      BY <1>6, <1>8, <1>10, <2>1, <3>1, <3>2, <3>3, <3>4
    <3>6. p + l <= nb /\ l > 0
      BY <3>2, <3>5
    <3>7. p >= nb
      BY <3>5
    <3> QED
      BY <3>6, <3>7
  <2> QED
    BY <1>1, <1>2, <1>4, <1>5, <1>6, <2>1 DEF InJob
<1>12. PICK s \in Nat : s = f.start
  BY <1>3
<1>13. PICK k \in Nat : k = n - 1
  BY <1>9
<1>14. PICK last \in Nat : last = Len(Now[s + n - 1].data) /\ last <= b
  <2>1. k < n /\ s + k = s + n - 1
    BY <1>9, <1>13
  <2>2. Now[s + k] \in AnyPage /\ Now[s + k].fcs
    BY <1>1, <1>4, <1>12, <2>1, JobPages
  <2> QED
    BY <1>8, <2>1, <2>2, PageFields
<1>15. last = b /\ off = n /\ addr = 0 /\ p = n * b /\ f.size = n * b
  <2>1. PICK kb \in Nat : kb = k * b
    OBVIOUS
  <2>2. n * b = kb + b
    <3>1. (k + 1) * b = k * b + b /\ k + 1 = n
      BY <1>9, <1>13
    <3> QED
      BY <2>1, <3>1
  <2>3. f.size = kb + last
    BY <1>8, <1>11, <1>12, <1>13, <1>14, <2>1
  <2>4. off >= n
    BY <1>3, <1>5, <1>6, <1>9, <1>11
  <2>5. PICK bo \in Nat : bo = b * off
    OBVIOUS
  <2>6. bo >= kb + b /\ p = bo + addr /\ p <= kb + last
    BY <1>6, <1>8, <1>10, <1>11, <2>2, <2>3, <2>4, <2>5
  <2>7. last = b /\ addr = 0 /\ bo = kb + b /\ p = kb + b
    BY <1>14, <2>6
  <2>8. off = n
    <3>1. off > n => bo >= kb + b + b
      <4>1. ASSUME off > n PROVE b * off >= b * (n + 1)
        <5>1. off - (n + 1) \in Nat
          BY <1>9, <4>1
        <5>2. b * (off - (n + 1)) \in Nat
          BY <5>1
        <5>3. b * (off - (n + 1)) = b * off - b * (n + 1)
          BY <1>9, <5>1
        <5> QED
          BY <1>9, <5>2, <5>3
      <4>2. b * (n + 1) = n * b + b
        BY <1>9
      <4> QED
        BY <2>2, <2>5, <4>1, <4>2
    <3> QED
      BY <1>9, <2>4, <2>7, <3>1
  <2> QED
    BY <2>2, <2>3, <2>7, <2>8
<1>16. ArrayOK(Now, free_page_start) /\ StateOK
  BY <1>3, NowSound DEF SoundDisk, Now
<1>17. Steady
  <2>1. Off # file[job.inode].max_off
    BY <1>1, <1>3, <1>5, <1>6
  <2> QED
    BY <1>3, <2>1, IdleSteady
<1>18. PICK data : data = Patch(<<>>, addr, Chunk)
  OBVIOUS
<1>19. data \in Seq(AnyByte) /\ Len(data) = len /\ data # <<>>
  <2>1. <<>> \in Seq(AnyByte) /\ Len(<<>>) = 0 /\ Chunk \in Seq(Bytes)
    BY <1>3, ChunkFacts
  <2>2. data \in Seq(AnyByte) /\ Len(data) = Max({Len(<<>>), addr + Len(Chunk)})
    BY <1>18, <2>1, PatchSeq
  <2>3. Max({0, len}) = len
    <3>1. 0 \in Int /\ len \in Int
      OBVIOUS
    <3>2. Max({0, len}) >= len /\ (Max({0, len}) = 0 \/ Max({0, len}) = len)
      BY <3>1, MaxTwo
    <3> QED
      BY <1>7, <3>2
  <2>4. addr + len = len
    BY <1>15
  <2>5. Len(data) = len
    BY <1>7, <2>1, <2>2, <2>3, <2>4
  <2> QED
    BY <1>7, <2>2, <2>5, NotEmpty
<1>20. PICK page : page = Page(i, n, 0, data)
  OBVIOUS
<1>21. page \in AnyPage /\ page.fcs /\ page.inode = i /\ page.pgoff = n /\ page.data = data
  <2>1. Len(data) <= DataSize
    BY <1>7, <1>8, <1>15, <1>19
  <2> QED
    BY <1>3, <1>9, <1>19, <1>20, <2>1, NewPage
<1>22. s + n \in 0..free_page_start /\ Fits(Now, free_page_start, s + n, page)
  BY <1>3, <1>8, <1>9, <1>11, <1>12, <1>14, <1>15, <1>16, <1>21, AppendFits
<1>23. PICK e : e = Longer(f, len, n)
  OBVIOUS
<1>24. e \in AnyHandle /\ e.start = s /\ e.max_off = n /\ e.size = f.size + len
  <2>1. f \in AnyHandle /\ n \in Nat
    BY <1>3, <1>9
  <2>2. e \in AnyHandle /\ e.start = f.start /\ e.max_off = n /\ e.size = f.size + len
    BY <1>23, <2>1, LongerHandle
  <2> QED
    BY <1>12, <2>2
<1>25. /\ Allocate(s + n, i)
       /\ dev' = BlockWrite(dev, page_array[free_page_start], page)
       /\ file' = [Shifted(i) EXCEPT ![i] = e]
       /\ free_bytes' = free_bytes - len
  <2>1. /\ Allocate(s + n, i)
        /\ dev' = BlockWrite(dev, page_array[free_page_start], page)
        /\ file' = [Shifted(i) EXCEPT ![i].size = @ + len, ![i].max_off = n]
        /\ free_bytes' = free_bytes - len
    BY <1>1, <1>2, <1>6, <1>12, <1>15, <1>18, <1>19, <1>20 DEF WriteNew
  <2>2. file \in [Inodes -> {Closed} \cup AnyHandle]
    BY <1>16 DEF StateOK
  <2>3. PICK sh \in [Inodes -> {Closed} \cup AnyHandle] : sh = Shifted(i) /\ sh[i] = f
    BY <1>1, <1>2, <1>3, <2>2, ShiftedFacts
  <2>4. [sh EXCEPT ![i].size = @ + len, ![i].max_off = n] = [sh EXCEPT ![i] = e]
    BY <1>3, <1>23, <2>3 DEF Longer
  <2> QED
    BY <2>1, <2>3, <2>4
<1>26. e.size = n * DataSize + Len(page.data) /\ free_bytes' = free_bytes - Len(page.data)
  BY <1>8, <1>15, <1>19, <1>21, <1>24, <1>25
<1>a. Extends(i, s, n, page, e)
  BY <1>3, <1>9, <1>11, <1>12, <1>21, <1>22, <1>24, <1>25, <1>26 DEF Extends
<1>27. /\ SoundDisk(dev', page_array', free_page_start')
       /\ file' \in [Inodes -> {Closed} \cup AnyHandle] /\ file'[i] = e
       /\ \A j \in Inodes : file'[j].open => HandleOK(Now', free_page_start', j, file'[j])
       /\ FreeOK'
       /\ s + n \in Pages
       /\ FileAt(Now', free_page_start', i, s, n + 1)
       /\ (page.pgoff > 0 /\ page.data = <<>> => Pending(s + n)') => LastOK'
  BY <1>3, <1>5, <1>17, <1>a, Extended
<1>28. ASSUME NextJob # NoJob PROVE JobOK'
  <2>1. PICK nj : nj = NextJob
    OBVIOUS
  <2>2. /\ nj \in AnyJob /\ nj.inode = i /\ nj.phase = "pages"
        /\ len = DataSize - addr
        /\ nj.pos = DataSize * (off + 1) /\ nj.pos \div DataSize = off + 1
    BY <1>2, <1>3, <1>5, <1>6, <1>7, <1>28, <2>1, ChunkFacts
  <2>3. e = file'[nj.inode] /\ nj = job'
    BY <1>5, <1>27, <2>1, <2>2
  <2>4. nj.pos <= e.size
    <3>1. nj.pos = b * (n + 1) /\ len = b /\ e.size = n * b + b
      BY <1>8, <1>15, <1>24, <2>2
    <3>2. b * (n + 1) = n * b + b /\ n * b \in Nat
      BY <1>9
    <3> QED
      BY <3>1, <3>2
  <2>5. ~(nj.pos \div DataSize < e.max_off)
    BY <1>9, <1>15, <1>24, <2>2
  <2>6. FileAt(Now', free_page_start', nj.inode, e.start, e.max_off + 1)
    BY <1>24, <1>27, <2>2
  <2>7. e.start + e.max_off \in Pages
    BY <1>24, <1>27
  <2> QED
    BY <1>24, <2>2, <2>3, <2>4, <2>5, <2>6, <2>7, JobNext
<1>29. job' = NoJob \/ JobOK'
  BY <1>5, <1>28
<1>30. LastOK'
  BY <1>19, <1>21, <1>27
<1>31. mounted' /\ ~failed' /\ mounted' \in BOOLEAN /\ failed' \in BOOLEAN
  BY <1>3, <1>5, <1>16 DEF StateOK
<1>32. WrittenNew(n, page, e)
  <2>1. job.pos = n * DataSize
    BY <1>6, <1>8, <1>15
  <2>2. page.data = Patch(<<>>, 0, Chunk)
    BY <1>15, <1>18, <1>21
  <2> QED
    BY <1>1, <1>2, <1>4, <1>12, <1>17, <1>a, <2>1, <2>2 DEF WrittenNew
<1>33. BattInv'
  BY <1>27, <1>29, <1>30, <1>31, Conclude
<1> QED
  BY <1>32, <1>33

-----------------------------------------------------------------------------
\* Multiples of the size of a page.
LEMMA Multiples ==
  ASSUME NEW b \in Nat \ {0}, NEW m \in Nat, NEW n \in Nat, m <= n
  PROVE  b * m \in Nat /\ b * n \in Nat /\ b * m <= b * n /\ (m < n => b * m + b <= b * n)
<1>1. b * m \in Nat /\ b * n \in Nat
  OBVIOUS
<1>2. b * m <= b * n
  <2>1. n - m \in Nat
    OBVIOUS
  <2>2. b * (n - m) \in Nat
    BY <2>1
  <2>3. b * (n - m) = b * n - b * m
    BY <2>1
  <2> QED
    BY <1>1, <2>2, <2>3
<1>3. ASSUME m < n PROVE b * m + b <= b * n
  <2>1. n - (m + 1) \in Nat
    BY <1>3
  <2>2. b * (n - (m + 1)) \in Nat
    BY <2>1
  <2>3. b * (n - (m + 1)) = b * n - b * (m + 1)
    BY <2>1
  <2>4. b * (m + 1) = b * m + b
    OBVIOUS
  <2> QED
    BY <1>1, <2>2, <2>3, <2>4
<1> QED
  BY <1>1, <1>2, <1>3

\* A page that the file has, where it is or elsewhere.
WrittenOld(n, page, there) ==
  LET f == file[job.inode] IN
  /\ InJob(n) /\ Off \in 0..(n - 1) /\ job.pos <= f.size
  /\ Alters(job.inode, f.start + Off, page, there)
  /\ page.data = Patch(Now[f.start + Off].data, Addr, Chunk)

\* The invariant when battfs_write() changes a page, and what it wrote.
LEMMA WriteOldInv ==
  ASSUME BattInv, job # NoJob, WriteOld
  PROVE  BattInv' /\ \E n, page, there : WrittenOld(n, page, there)
<1>1. PICK f : f = file[job.inode]
  OBVIOUS
<1>2. PICK i : i = job.inode
  OBVIOUS
<1>3. /\ mounted /\ ~failed /\ job \in AnyJob /\ i \in Inodes /\ f \in AnyHandle /\ f.open
      /\ f.start \in Nat /\ f.size \in Nat /\ f.max_off \in Nat /\ i \in Nat
      /\ f.start + f.max_off \in Pages
      /\ \E n : InJob(n)
      /\ job.phase = "pages" /\ dev.dirty /\ Off < f.max_off =>
           /\ dev.curr # page_array[f.start + Off]
           /\ dev.curr # page_array[f.start + f.max_off]
  BY <1>1, <1>2, JobFacts
<1>4. PICK n : InJob(n)
  BY <1>3
<1>5. /\ job.phase = "pages" /\ Off <= f.max_off
      /\ mounted' = mounted /\ failed' = failed /\ job' = NextJob
      /\ free_page_start' = free_page_start
  BY <1>1 DEF WriteOld, seen
<1>6. PICK off \in Nat, addr \in Nat, p \in Nat :
        /\ off = Off /\ addr = Addr /\ p = job.pos /\ addr < DataSize /\ p = DataSize * off + addr
  BY <1>3, ChunkFacts
<1>7. PICK len \in Nat : len = Len(Chunk) /\ len > 0 /\ addr + len <= DataSize
  BY <1>3, <1>6, ChunkFacts
<1>8. PICK b \in Nat \ {0} : b = DataSize
  BY SizesAssumption
<1>9. n \in Nat /\ n > 0
  BY <1>4 DEF InJob
<1>10. PICK rest \in Nat : rest = Len(job.bytes) /\ rest > 0
  <2>1. Len(Chunk) <= Len(job.bytes) /\ Len(job.bytes) \in Nat
    BY <1>3, ChunkFacts DEF AnyJob
  <2> QED
    BY <1>7, <2>1
<1>11. PICK s \in Nat : s = f.start
  BY <1>3
<1>12. PICK k \in Nat : k = n - 1
  BY <1>9
<1>13. PICK last \in Nat : last = Len(Now[s + k].data)
  <2>1. k < n
    BY <1>9, <1>12
  <2>2. Now[s + k] \in AnyPage
    BY <1>1, <1>4, <1>11, <2>1, JobPages
  <2> QED
    BY <2>2, PageFields
<1>14. /\ FileAt(Now, free_page_start, i, s, n)
       /\ f.size = b * k + last
       /\ \/ n = f.max_off + 1 /\ p <= f.size
          \/ n = f.max_off /\ p + rest <= b * n
  <2>1. s + n - 1 = s + k
    BY <1>9, <1>12
  <2>2. f.size = (n - 1) * DataSize + Len(Now[f.start + n - 1].data)
        /\ FileAt(Now, free_page_start, i, f.start, n)
    BY <1>1, <1>2, <1>4 DEF InJob
  <2>3. f.size = k * b + last
    BY <1>8, <1>11, <1>12, <1>13, <2>1, <2>2
  <2>4. k * b = b * k /\ n * b = b * n
    BY <1>9
  <2>5. \/ n = f.max_off + 1 /\ p <= f.size
        \/ n = f.max_off /\ p + rest <= n * b
    BY <1>1, <1>4, <1>5, <1>6, <1>8, <1>10 DEF InJob
  <2> QED
    BY <1>11, <2>2, <2>3, <2>4, <2>5
<1>15. off <= k
  <2>1. CASE n = f.max_off + 1
    BY <1>3, <1>5, <1>6, <1>12, <2>1
  <2>2. CASE n = f.max_off /\ p + rest <= b * n
    <3>1. ASSUME off >= n PROVE FALSE
      <4>1. b * n <= b * off /\ b * n \in Nat /\ b * off \in Nat
        BY <1>9, <3>1, Multiples
      <4>2. p = b * off + addr
        BY <1>6, <1>8
      <4> QED
        BY <1>6, <1>10, <2>2, <4>1, <4>2
    <3> QED
      BY <1>9, <1>12, <3>1
  <2> QED
    BY <1>14, <2>1, <2>2
<1>16. PICK pos \in Nat : pos = s + off
  OBVIOUS
<1>17. /\ pos \in Used(free_page_start) /\ pos \in Pages /\ PageAt(pos) = Now[pos]
       /\ Now[pos] \in AnyPage /\ Now[pos].fcs /\ Now[pos].inode = i
       /\ pos + 1 < free_page_start /\ Now[pos + 1].pgoff > 0 => Len(Now[pos].data) = DataSize
  <2>1. off < n
    BY <1>9, <1>12, <1>15
  <2> QED
    BY <1>1, <1>2, <1>4, <1>11, <1>16, <2>1, JobPages
<1>18. PICK hdr \in AnyPage : hdr = Now[pos] /\ hdr.fcs
  BY <1>17
<1>19. PICK l \in Nat : l = Len(hdr.data) /\ l <= b
  BY <1>8, <1>18, PageFields
<1>20. PICK data : data = Patch(hdr.data, addr, Chunk)
  OBVIOUS
<1>21. PICK m \in Nat : /\ data \in Seq(AnyByte) /\ Len(data) = m /\ data # <<>>
                        /\ m >= l /\ m >= addr + len /\ m <= b
  <2>1. hdr.data \in Seq(AnyByte) /\ Chunk \in Seq(Bytes)
    BY <1>3, PageFields, ChunkFacts
  <2>2. data \in Seq(AnyByte) /\ Len(data) = Max({Len(hdr.data), addr + Len(Chunk)})
    BY <1>20, <2>1, PatchSeq
  <2>3. PICK x \in Nat : x = addr + len
    OBVIOUS
  <2>4. l \in Int /\ x \in Int
    OBVIOUS
  <2>5. /\ Max({l, x}) >= l /\ Max({l, x}) >= x
        /\ Max({l, x}) = l \/ Max({l, x}) = x
    BY <2>4, MaxTwo
  <2>6. PICK mm \in Nat : mm = Max({l, x}) /\ mm >= l /\ mm >= x /\ mm <= b
    BY <1>7, <1>8, <1>19, <2>3, <2>5
  <2>7. Len(data) = mm
    BY <1>7, <1>19, <2>2, <2>3, <2>6
  <2>8. mm > 0
    BY <1>7, <2>3, <2>6
  <2>9. data # <<>>
    BY <2>2, <2>7, <2>8, NotEmpty
  <2> QED
    BY <2>2, <2>3, <2>6, <2>7, <2>9
<1>22. PICK page : page = NewCopy(hdr, data)
  OBVIOUS
<1>23. page \in AnyPage /\ page.fcs /\ SamePage(page, hdr) /\ page.seq = hdr.seq + 1 /\ page.data = data
  <2>1. Len(data) <= DataSize
    BY <1>8, <1>21
  <2> QED
    BY <1>18, <1>21, <1>22, <2>1, OldPage
<1>24. PICK z \in Nat : z = m - l /\ m = l + z
  BY <1>21
<1>25. Rewrite(pos, page, Buffered(f)) /\ Grow(i, z)
  <2>1. Rewrite(pos, page, Buffered(f)) /\ Grow(i, Len(data) - Len(hdr.data))
    BY <1>1, <1>2, <1>6, <1>11, <1>16, <1>17, <1>18, <1>20, <1>22 DEF WriteOld, NewCopy
  <2>2. Len(data) - Len(hdr.data) = z
    BY <1>19, <1>21, <1>24
  <2> QED
    BY <2>1, <2>2
<1>26. Rewrites(Now, free_page_start, pos, page)
  <2>1. pos + 1 < free_page_start /\ Now[pos + 1].pgoff > 0 => Len(page.data) = DataSize
    <3>1. ASSUME l = b PROVE m = b
      BY <1>21, <3>1
    <3> QED
      BY <1>8, <1>17, <1>18, <1>19, <1>21, <1>23, <3>1
  <2> QED
    BY <1>18, <1>23, <2>1 DEF Rewrites
<1>27. page.inode = i /\ page.data # <<>> /\ Len(page.data) >= Len(Now[pos].data)
       /\ Len(page.data) - Len(Now[pos].data) = z
  BY <1>17, <1>18, <1>19, <1>21, <1>23, <1>24 DEF SamePage
<1>28. PICK there \in BOOLEAN : there <=> Buffered(f)
  OBVIOUS
<1>29. off < f.max_off /\ dev.dirty => /\ dev.curr # page_array[pos]
                                       /\ dev.curr # page_array[s + f.max_off]
  BY <1>3, <1>5, <1>6, <1>11, <1>16
<1>30. off = f.max_off \/ off < f.max_off
  BY <1>3, <1>5, <1>6
<1>31. /\ there => page_array[pos] = dev.curr /\ dev.dirty
       /\ ~there => Steady /\ ~(dev.dirty /\ page_array[pos] = dev.curr)
  <2>1. Buffered(f) <=> page_array[s + f.max_off] = dev.curr /\ dev.dirty
    BY <1>11 DEF Buffered
  <2>2. Buffered(f) => off = f.max_off
    BY <1>29, <1>30, <2>1
  <2>3. there => page_array[pos] = dev.curr /\ dev.dirty
    BY <1>16, <1>28, <2>1, <2>2
  <2>4. ~there => Steady
    BY <1>1, <1>3, <1>28, IdleSteady
  <2>5. ~there => ~(dev.dirty /\ page_array[pos] = dev.curr)
    BY <1>16, <1>28, <1>29, <1>30, <2>1
  <2> QED
    BY <2>3, <2>4, <2>5
<1>32. Rewrite(pos, page, there) /\ Grow(i, Len(page.data) - Len(Now[pos].data))
  <2>1. Rewrite(pos, page, there)
    BY <1>25, <1>28 DEF Rewrite
  <2> QED
    BY <1>25, <1>27, <2>1
<1>a. Alters(i, pos, page, there)
  <2>1. file[i].open
    BY <1>1, <1>2, <1>3
  <2> QED
    BY <1>3, <1>5, <1>17, <1>23, <1>26, <1>27, <1>31, <1>32, <2>1 DEF Alters
<1>33. /\ SoundDisk(dev', page_array', free_page_start')
       /\ file' \in [Inodes -> {Closed} \cup AnyHandle]
       /\ file'[i] = [f EXCEPT !.size = @ + z]
       /\ \A j \in Inodes : file'[j].open => HandleOK(Now', free_page_start', j, file'[j])
       /\ FreeOK' /\ LastOK' /\ page_array'[pos] = dev'.curr
       /\ \A j, t, o : FileAt(Now, free_page_start, j, t, o) => FileAt(Now', free_page_start', j, t, o)
  <2>3. SoundDisk(dev', page_array', free_page_start') /\ FreeOK' /\ LastOK'
    BY <1>3, <1>a, Rewritten
  <2>4. page_array'[pos] = dev'.curr
    BY <1>3, <1>a, Rewritten
  <2>5. /\ file' \in [Inodes -> {Closed} \cup AnyHandle]
        /\ file'[i] = Grew(file[i], Len(page.data) - Len(Now[pos].data))
    BY <1>3, <1>a, Rewritten
  <2>6. \A j \in Inodes : file'[j].open => HandleOK(Now', free_page_start', j, file'[j])
    BY <1>3, <1>a, Rewritten
  <2>7. \A j, t, o : FileAt(Now, free_page_start, j, t, o) => FileAt(Now', free_page_start', j, t, o)
    BY <1>3, <1>a, Rewritten
  <2>8. file'[i] = [f EXCEPT !.size = @ + z]
    BY <1>1, <1>2, <1>27, <2>5 DEF Grew
  <2> QED
    BY <2>3, <2>4, <2>5, <2>6, <2>7, <2>8
<1>34. PICK e : e = [f EXCEPT !.size = @ + z]
  OBVIOUS
<1>35. e \in AnyHandle /\ e.start = s /\ e.max_off = f.max_off /\ e.size = f.size + z
  BY <1>3, <1>11, <1>34, GrownHandle
<1>36. ASSUME NextJob # NoJob PROVE JobOK'
  <2>1. PICK nj : nj = NextJob
    OBVIOUS
  <2>2. /\ nj \in AnyJob /\ nj.inode = i /\ nj.phase = "pages"
        /\ len = DataSize - addr
        /\ nj.pos = DataSize * (off + 1) /\ nj.pos \div DataSize = off + 1
        /\ nj.pos + Len(nj.bytes) = p + rest
    BY <1>2, <1>3, <1>5, <1>6, <1>7, <1>10, <1>36, <2>1, ChunkFacts
  <2>3. e = file'[nj.inode] /\ nj = job'
    BY <1>5, <1>33, <1>34, <2>1, <2>2
  <2>4. \/ /\ FileAt(Now', free_page_start', nj.inode, e.start, e.max_off + 1)
           /\ nj.pos <= e.size
        \/ /\ FileAt(Now', free_page_start', nj.inode, e.start, e.max_off)
           /\ nj.pos + Len(nj.bytes) <= e.max_off * DataSize
    <3>1. CASE n = f.max_off + 1
      <4>1. PICK bo \in Nat, bk \in Nat : bo = b * off /\ bk = b * k /\ (off < k => bo + b <= bk)
        BY <1>15, Multiples
      <4>2. nj.pos = bo + b
        <5>1. b * (off + 1) = b * off + b
          BY <1>8
        <5> QED
          BY <1>8, <2>2, <4>1, <5>1
      <4>3. e.size = bk + last + z
        BY <1>14, <1>35, <4>1
      <4>4. CASE off < k
        <5>1. bo + b <= bk + last + z
          BY <4>1, <4>4
        <5> QED
          BY <4>2, <4>3, <5>1, <3>1, <1>14, <1>33, <1>35, <2>2
      <4>5. CASE off = k
        <5>1. last = l
          BY <1>13, <1>16, <1>18, <1>19, <4>5
        <5>2. addr + len = b
          BY <1>6, <1>7, <1>8, <2>2
        <5>3. l + z >= b
          BY <1>21, <1>24, <5>2
        <5>4. e.size >= bo + b
          BY <4>1, <4>3, <4>5, <5>1, <5>3
        <5> QED
          BY <1>14, <1>33, <1>35, <2>2, <3>1, <4>2, <5>4
      <4> QED
        BY <1>15, <4>4, <4>5
    <3>2. CASE n = f.max_off /\ p + rest <= b * n
      <4>1. b * n = n * b
        BY <1>9
      <4> QED
        BY <1>8, <1>14, <1>33, <1>35, <2>2, <3>2, <4>1
    <3> QED
      BY <1>14, <3>1, <3>2
  <2>5. ASSUME nj.pos \div DataSize < e.max_off
        PROVE  /\ dev'.curr # page_array'[e.start + nj.pos \div DataSize]
               /\ dev'.curr # page_array'[e.start + e.max_off]
    <3>1. PICK j \in Nat : j = s + (off + 1) /\ j = pos + 1
      BY <1>16
    <3>2. PICK t \in Nat : t = s + f.max_off
      BY <1>3
    <3>3. off + 1 < f.max_off
      BY <1>35, <2>2, <2>5
    <3>4. t \in Pages /\ j < t /\ pos < j
      BY <1>3, <1>11, <3>1, <3>2, <3>3
    <3>5. j \in Pages
      BY <3>4, SizesAssumption DEF Pages
    <3>6. Listed(page_array')
      BY <1>33 DEF SoundDisk
    <3>7. page_array'[pos] # page_array'[j] /\ page_array'[pos] # page_array'[t]
      BY <1>17, <3>4, <3>5, <3>6 DEF Listed
    <3>8. e.start + nj.pos \div DataSize = j /\ e.start + e.max_off = t
      BY <1>35, <2>2, <3>1, <3>2
    <3> QED
      BY <1>33, <3>7, <3>8
  <2>6. e.start + e.max_off \in Pages
    BY <1>3, <1>11, <1>35
  <2> QED
    BY <1>35, <2>2, <2>3, <2>4, <2>5, <2>6, JobNext
<1>37. job' = NoJob \/ JobOK'
  BY <1>5, <1>36
<1>38. mounted' /\ ~failed' /\ mounted' \in BOOLEAN /\ failed' \in BOOLEAN
  BY <1>3, <1>5 DEF BattInv, StateOK
<1>39. WrittenOld(n, page, there)
  <2>1. p <= f.size
    <3>1. CASE n = f.max_off + 1 /\ p <= f.size
      BY <3>1
    <3>2. CASE n = f.max_off /\ p + rest <= b * n
      <4>1. f.size = n * DataSize
        <5>1. n # f.max_off + 1 /\ f = file[job.inode]
          BY <1>1, <1>9, <3>2
        <5> QED
          BY <1>4, <5>1 DEF InJob
      <4>2. PICK bn \in Nat : bn = b * n /\ bn = n * DataSize
        BY <1>8, <1>9
      <4> QED
        BY <1>10, <3>2, <4>1, <4>2
    <3> QED
      BY <1>14, <3>1, <3>2
  <2>2. off \in 0..(n - 1)
    BY <1>9, <1>12, <1>15
  <2>3. page.data = Patch(Now[pos].data, addr, Chunk)
    BY <1>18, <1>20, <1>23
  <2>4. pos = f.start + Off
    BY <1>6, <1>11, <1>16
  <2> QED
    BY <1>1, <1>2, <1>4, <1>6, <1>a, <2>1, <2>2, <2>3, <2>4 DEF WrittenOld
<1>40. BattInv'
  BY <1>33, <1>37, <1>38, Conclude
<1> QED
  BY <1>39, <1>40

-----------------------------------------------------------------------------
\* Beginning a write, and giving it up.
LEMMA WriteNoSpaceInv ==
  ASSUME BattInv, WriteNoSpace
  PROVE  BattInv'
<1>1. /\ job # NoJob /\ job' = NoJob /\ dev' = dev /\ mounted' = mounted /\ disk' = disk
      /\ file' = file /\ failed' = failed
  BY DEF WriteNoSpace, seen
<1>2. page_array' = page_array /\ free_page_start' = free_page_start /\ free_bytes' = free_bytes
  BY <1>1 DEF disk
<1>3. mounted /\ ~failed
  BY <1>1, JobFacts
<1>4. SoundDisk(dev, page_array, free_page_start) /\ RunOK /\ StateOK
  BY <1>3, NowSound
<1>5. job.phase # "pages" \/ Off # file[job.inode].max_off \/ ~Buffered(file[job.inode])
  <2>1. CASE job.phase = "pages" /\ Off > file[job.inode].max_off
    <3>1. Off \in Nat /\ file[job.inode].max_off \in Nat
      BY <1>1, JobFacts, ChunkFacts
    <3> QED
      BY <2>1, <3>1
  <2> QED
    BY <2>1 DEF WriteNoSpace
<1>6. Steady
  BY <1>3, <1>5, IdleSteady
<1>7. Now' = Now
  BY <1>1, <1>2 DEF Now
<1>8. LastOK'
  BY <1>2, <1>6, <1>7, SteadyLast DEF Steady
<1>9. FreeOK'
  BY <1>2, <1>4, <1>7 DEF RunOK, FreeOK
<1>10. \A i \in Inodes : file'[i].open => HandleOK(Now', free_page_start', i, file'[i])
  BY <1>1, <1>2, <1>4, <1>7 DEF RunOK
<1>11. SoundDisk(dev', page_array', free_page_start')
  BY <1>1, <1>2, <1>4
<1>12. mounted' /\ ~failed' /\ mounted' \in BOOLEAN /\ failed' \in BOOLEAN
       /\ file' \in [Inodes -> {Closed} \cup AnyHandle]
  BY <1>1, <1>3, <1>4 DEF StateOK
<1> QED
  BY <1>1, <1>8, <1>9, <1>10, <1>11, <1>12, Conclude

\* battfs_write() begins: the precautions of the application give JobOK.
LEMMA WriteBeginInv ==
  ASSUME BattInv, "errors" \in Avoids, "full" \in Avoids, "inplace" \in Avoids,
         NEW inode \in Inodes, NEW pos \in Nat, NEW bytes \in Seq(Bytes), bytes # <<>>,
         WriteBegin(inode, pos, bytes)
  PROVE  BattInv'
<1>1. /\ mounted /\ job = NoJob /\ ~failed /\ file[inode].open
      /\ dev' = dev /\ mounted' = mounted /\ disk' = disk /\ file' = file /\ failed' = failed
  BY DEF WriteBegin, Idle
<1>2. page_array' = page_array /\ free_page_start' = free_page_start /\ free_bytes' = free_bytes
  BY <1>1 DEF disk
<1>3. PICK f : f = file[inode]
  OBVIOUS
<1>4. PICK phase \in {"tail", "pages"} : phase = IF pos > f.size THEN "tail" ELSE "pages"
  OBVIOUS
<1>5. PICK nj : nj = job'
  OBVIOUS
<1>6. /\ f.start + f.max_off \in Pages
      /\ f.size = f.max_off * DataSize /\ f.size > 0 => pos + Len(bytes) <= f.size
      /\ dev.dirty => pos \div DataSize >= f.max_off
      /\ nj = [inode |-> inode, pos |-> pos, bytes |-> bytes, phase |-> phase]
  BY <1>3, <1>4, <1>5 DEF WriteBegin
<1>7. SoundDisk(dev, page_array, free_page_start) /\ RunOK /\ StateOK
  BY <1>1, NowSound
<1>8. Steady
  BY <1>1, IdleSteady
<1>9. Now' = Now
  BY <1>1, <1>2 DEF Now
<1>10. f \in AnyHandle
  BY <1>1, <1>3, <1>7, ClosedFacts DEF StateOK
<1>11. f.start \in Nat /\ f.size \in Nat /\ f.max_off \in Nat
  BY <1>10 DEF AnyHandle
<1>12. nj \in AnyJob /\ nj.inode = inode /\ nj.pos = pos /\ nj.bytes = bytes /\ nj.phase = phase
  BY <1>6 DEF AnyJob
<1>13. PICK n \in Nat \ {0} :
         /\ FileAt(Now, free_page_start, inode, f.start, n)
         /\ n = f.max_off + 1 \/ (n = f.max_off /\ f.size = n * DataSize)
  <2>1. HandleOK(Now, free_page_start, inode, f)
    BY <1>1, <1>3, <1>7 DEF RunOK
  <2> QED
    BY <2>1 DEF HandleOK
<1>14. JobOK'
  <2>1. ~(nj.pos \div DataSize < f.max_off /\ dev'.dirty)
    <3>1. PICK q \in Nat : q = pos \div DataSize
      <4>1. DataSize \in Nat \ {0}
        BY SizesAssumption
      <4>2. pos \div DataSize \in Nat
        BY <4>1
      <4> QED
        BY <4>2
    <3> QED
      BY <1>1, <1>6, <1>11, <1>12, <3>1
  <2>2. f = file'[nj.inode]
    BY <1>1, <1>3, <1>12
  <2>3. CASE n = f.max_off + 1
    <3>1. FileAt(Now', free_page_start', nj.inode, f.start, f.max_off + 1)
      BY <1>2, <1>9, <1>12, <1>13, <2>3
    <3>2. /\ nj.phase = "tail" => nj.pos > f.size
          /\ nj.phase # "zeros"
          /\ nj.phase = "pages" => nj.pos <= f.size
      BY <1>4, <1>11, <1>12
    <3> QED
      BY <1>5, <1>6, <1>10, <1>12, <2>1, <2>2, <3>1, <3>2, JobNext
  <2>4. CASE n = f.max_off /\ f.size = n * DataSize
    <3>1. FileAt(Now', free_page_start', nj.inode, f.start, f.max_off)
      BY <1>2, <1>9, <1>12, <1>13, <2>4
    <3>2. f.size > 0
      <4>1. DataSize \in Nat \ {0}
        BY SizesAssumption
      <4>2. n * DataSize > 0
        BY <1>13, <4>1
      <4> QED
        BY <2>4, <4>2
    <3>3. pos + Len(bytes) <= f.size
      BY <1>6, <2>4, <3>2
    <3>4. phase = "pages"
      <4>1. PICK l \in Nat : l = Len(bytes)
        OBVIOUS
      <4>2. pos <= f.size
        BY <1>11, <3>3, <4>1
      <4> QED
        BY <1>4, <1>11, <4>2
    <3>5. nj.phase = "pages" /\ nj.pos + Len(nj.bytes) <= f.max_off * DataSize
      BY <1>12, <2>4, <3>3, <3>4
    <3> QED
      BY <1>5, <1>6, <1>10, <1>12, <2>1, <2>2, <3>1, <3>5, JobNext
  <2> QED
    BY <1>13, <2>3, <2>4
<1>15. LastOK'
  BY <1>2, <1>8, <1>9, SteadyLast DEF Steady
<1>16. FreeOK'
  BY <1>2, <1>7, <1>9 DEF RunOK, FreeOK
<1>17. \A i \in Inodes : file'[i].open => HandleOK(Now', free_page_start', i, file'[i])
  BY <1>1, <1>2, <1>7, <1>9 DEF RunOK
<1>18. SoundDisk(dev', page_array', free_page_start')
  BY <1>1, <1>2, <1>7
<1>19. mounted' /\ ~failed' /\ mounted' \in BOOLEAN /\ failed' \in BOOLEAN
       /\ file' \in [Inodes -> {Closed} \cup AnyHandle]
  BY <1>1, <1>7 DEF StateOK
<1> QED
  BY <1>14, <1>15, <1>16, <1>17, <1>18, <1>19, Conclude

\* What a failed allocation leaves.
LEMMA AllocateType ==
  ASSUME BattInv, ~SpaceOver, NEW pos \in Nat, NEW inode, Allocate(pos, inode)
  PROVE  /\ page_array' \in [Pages -> Pages \cup {Unset}]
         /\ free_page_start' \in 0..PageCnt
<1>1. page_array \in [Pages -> Pages \cup {Unset}] /\ free_page_start \in 0..PageCnt
  BY DEF BattInv, StateOK
<1>2. PageCnt \in Nat /\ ~(free_page_start >= PageCnt)
  BY SizesAssumption DEF SpaceOver
<1>3. free_page_start \in Pages /\ free_page_start + 1 \in 0..PageCnt
  BY <1>1, <1>2 DEF Pages
<1>4. \A k \in Pages : pos < k => k - 1 \in Pages
  BY <1>2 DEF Pages
<1>5. page_array' \in [Pages -> Pages \cup {Unset}]
  BY <1>1, <1>3, <1>4 DEF Allocate
<1> QED
  BY <1>3, <1>5 DEF Allocate

\* battfs_fileopen() of a new file: its first page goes between its neighbours,
\* and the files behind it move.
LEMMA CreateInv ==
  ASSUME BattInv, "errors" \in Avoids, NEW inode \in Inodes, Create(inode)
  PROVE  BattInv' /\ (~failed' => \E p, page, f : Extends(inode, p, 0, page, f) /\ page.data = <<>>)
<1>1. /\ mounted /\ job = NoJob /\ ~failed /\ ~SpaceOver
      /\ mounted' = mounted /\ free_bytes' = free_bytes /\ job' = job
  BY DEF Create, Idle
<1>2. SoundDisk(dev, page_array, free_page_start) /\ RunOK /\ StateOK
  BY <1>1, NowSound
<1>3. /\ dev \in AnyDevice /\ Listed(page_array) /\ ArrayOK(Now, free_page_start) /\ inode \in Nat
  BY <1>2, InodeFacts DEF SoundDisk, Now
<1>4. PICK found : found = FindFile(inode)
  OBVIOUS
<1>5. PICK p : found.start = p /\ Between(Now, free_page_start, inode, p)
  <2>1. PICK s \in Nat, n \in Nat : FileAt(Now, free_page_start, inode, s, n)
    BY <1>3, FileExists
  <2>2. ~found.found
    BY <1>4 DEF Create
  <2>3. n > 0 => found = [found |-> TRUE, start |-> s]
    BY <1>3, <1>4, <2>1, FindFileValue
  <2>4. n = 0
    BY <2>1, <2>2, <2>3
  <2>5. \E p : found = [found |-> FALSE, start |-> p] /\ Between(Now, free_page_start, inode, p)
    BY <1>3, <1>4, <2>1, <2>4, FindFileValue
  <2> QED
    BY <2>5
<1>a. PICK data : data = <<>>
  OBVIOUS
<1>6. PICK page : page = Page(inode, 0, 0, data)
  OBVIOUS
<1>7. page \in AnyPage /\ page.fcs /\ page.inode = inode /\ page.pgoff = 0 /\ page.data = <<>>
      /\ Len(page.data) = 0
  <2>1. <<>> \in Seq(AnyByte) /\ Len(<<>>) = 0 /\ 0 <= DataSize /\ 0 \in Nat
    BY SizesAssumption
  <2>2. data \in Seq(AnyByte) /\ Len(data) <= DataSize /\ inode \in Nat
    BY <1>3, <1>a, <2>1
  <2>3. page \in AnyPage /\ page.fcs /\ page.inode = inode /\ page.pgoff = 0 /\ page.data = data
    BY <1>6, <2>1, <2>2, NewPage
  <2> QED
    BY <1>a, <2>1, <2>3
<1>8. /\ p \in 0..free_page_start /\ Fits(Now, free_page_start, p, page)
      /\ FileAt(Now, free_page_start, inode, p, 0)
  BY <1>3, <1>5, <1>7, CreateFits
<1>9. p \in Nat /\ p + 0 = p
  BY <1>8
<1>10. Allocate(p, inode)
  BY <1>4, <1>5 DEF Create
<1>11. CASE /\ dev' = BlockWrite(dev, page_array[free_page_start], page)
            /\ file' = [Shifted(inode) EXCEPT ![inode] = Handle(p, 0)]
            /\ failed' = failed
  <2>1. PICK e : e = Handle(p, 0)
    OBVIOUS
  <2>2. e \in AnyHandle /\ e.start = p /\ e.size = 0 /\ e.max_off = 0
    <3>1. 0 \div DataSize = 0
      BY SizesAssumption
    <3> QED
      BY <1>9, <2>1, <3>1 DEF Handle, AnyHandle
  <2>3. e.size = 0 * DataSize + Len(page.data) /\ free_bytes' = free_bytes - Len(page.data)
    <3>1. 0 * DataSize + 0 = 0
      BY SizesAssumption
    <3>2. free_bytes \in Int
      <4>1. DataSize * PageCnt \in Nat
        BY SizesAssumption
      <4> QED
        BY <1>2, <4>1 DEF StateOK
    <3>3. free_bytes - 0 = free_bytes
      BY <3>2
    <3> QED
      BY <1>1, <1>7, <2>2, <3>1, <3>3
  <2>4. Extends(inode, p, 0, page, e)
    BY <1>7, <1>8, <1>9, <1>10, <1>11, <2>1, <2>2, <2>3 DEF Extends
  <2>5. Steady
    BY <1>1, IdleSteady
  <2>6. /\ SoundDisk(dev', page_array', free_page_start')
        /\ file' \in [Inodes -> {Closed} \cup AnyHandle]
        /\ \A j \in Inodes : file'[j].open => HandleOK(Now', free_page_start', j, file'[j])
        /\ FreeOK'
        /\ (page.pgoff > 0 /\ page.data = <<>> => Pending(p + 0)') => LastOK'
    BY <1>1, <2>4, <2>5, Extended
  <2>7. LastOK'
    BY <1>7, <2>6
  <2>8. job' = NoJob /\ mounted' /\ ~failed' /\ mounted' \in BOOLEAN /\ failed' \in BOOLEAN
    BY <1>1, <1>2, <1>11 DEF StateOK
  <2>9. BattInv'
    BY <2>6, <2>7, <2>8, Conclude
  <2> QED
    BY <1>7, <2>4, <2>9
<1>12. CASE file' = Shifted(inode) /\ failed' = TRUE /\ dev' = dev
  <2>1. page_array' \in [Pages -> Pages \cup {Unset}] /\ free_page_start' \in 0..PageCnt
    BY <1>1, <1>9, <1>10, AllocateType
  <2>2. file' \in [Inodes -> {Closed} \cup AnyHandle]
    BY <1>2, <1>12, ShiftedFacts DEF StateOK
  <2>3. BattInv'
    BY <1>1, <1>12, <2>1, <2>2, ConcludeFailed
  <2> QED
    BY <1>12, <2>3
<1> QED
  BY <1>4, <1>5, <1>a, <1>6, <1>11, <1>12 DEF Create

-----------------------------------------------------------------------------
\* Errors of the device.
LEMMA WriteNewFailsInv ==
  ASSUME BattInv, WriteNewFails
  PROVE  BattInv'
<1>1. /\ job # NoJob /\ ~SpaceOver /\ failed' = TRUE /\ job' = NoJob
      /\ dev' = dev /\ mounted' = mounted /\ free_bytes' = free_bytes
  BY DEF WriteNewFails
<1>2. PICK i : i = job.inode
  OBVIOUS
<1>3. PICK f : f = file[i]
  OBVIOUS
<1>4. /\ mounted /\ job \in AnyJob /\ i \in Inodes /\ f \in AnyHandle
      /\ f.start \in Nat /\ f.max_off \in Nat
  BY <1>1, <1>2, <1>3, JobFacts
<1>5. file \in [Inodes -> {Closed} \cup AnyHandle]
  BY DEF BattInv, StateOK
<1>6. Shifted(i) \in [Inodes -> {Closed} \cup AnyHandle] /\ Shifted(i)[i] = f
  BY <1>3, <1>4, <1>5, ShiftedFacts
<1>7. PICK off \in Nat : off = Off
  BY <1>4, ChunkFacts
<1>8. /\ page_array' \in [Pages -> Pages \cup {Unset}] /\ free_page_start' \in 0..PageCnt
      /\ file' \in [Inodes -> {Closed} \cup AnyHandle]
  <2>1. CASE Allocate(f.start + f.max_off + 1, i) /\ file' = Shifted(i)
    <3>1. f.start + f.max_off + 1 \in Nat
      BY <1>4
    <3> QED
      BY <1>1, <1>6, <2>1, <3>1, AllocateType
  <2>2. CASE Allocate(f.start + off, i) /\ file' = [Shifted(i) EXCEPT ![i].max_off = off]
    <3>1. f.start + off \in Nat
      BY <1>4
    <3>2. page_array' \in [Pages -> Pages \cup {Unset}] /\ free_page_start' \in 0..PageCnt
      BY <1>1, <2>2, <3>1, AllocateType
    <3>3. PICK sh \in [Inodes -> {Closed} \cup AnyHandle] : sh = Shifted(i) /\ sh[i] = f
      BY <1>6
    <3>4. PICK e : e = Longer(f, 0, off)
      OBVIOUS
    <3>5. e \in AnyHandle
      <4>1. 0 \in Nat
        OBVIOUS
      <4> QED
        BY <1>4, <3>4, <4>1, LongerHandle
    <3>6. [f EXCEPT !.max_off = off] = e
      <4>1. f.size + 0 = f.size
        BY <1>4 DEF AnyHandle
      <4> QED
        BY <1>4, <3>4, <4>1 DEF Longer, AnyHandle
    <3>7. file' = [sh EXCEPT ![i] = e]
      BY <2>2, <3>3, <3>6
    <3>8. file' \in [Inodes -> {Closed} \cup AnyHandle]
      BY <3>3, <3>5, <3>7
    <3> QED
      BY <3>2, <3>8
  <2> QED
    BY <1>2, <1>3, <1>7, <2>1, <2>2 DEF WriteNewFails
<1> QED
  BY <1>1, <1>4, <1>8, ConcludeFailed

\* The device fails when a page is renewed.
LEMMA WriteOldFailsInv ==
  ASSUME BattInv, job # NoJob, WriteOldFails
  PROVE  BattInv'
<1>1. /\ failed' = TRUE /\ job' = NoJob /\ free_page_start' = free_page_start
      /\ dev' = dev /\ mounted' = mounted /\ free_bytes' = free_bytes /\ file' = file
  BY DEF WriteOldFails
<1>2. PICK f : f = file[job.inode]
  OBVIOUS
<1>3. /\ mounted /\ job \in AnyJob /\ f.start \in Nat /\ f.max_off \in Nat
      /\ f.start + f.max_off \in Pages
  BY <1>2, JobFacts
<1>4. PICK off \in Nat : off = Off
  BY <1>3, ChunkFacts
<1>5. /\ page_array \in [Pages -> Pages \cup {Unset}] /\ free_page_start \in 0..PageCnt
      /\ file \in [Inodes -> {Closed} \cup AnyHandle]
  BY DEF BattInv, StateOK
<1>6. PICK pos : pos = f.start + (IF job.phase = "tail" THEN f.max_off ELSE off)
  OBVIOUS
<1>7. pos \in Pages
  <2>1. CASE job.phase = "tail"
    BY <1>3, <1>6, <2>1
  <2>2. CASE job.phase # "tail"
    <3>1. off <= f.max_off
      BY <1>2, <1>4, <2>2 DEF WriteOldFails
    <3>2. pos \in Nat /\ pos <= f.start + f.max_off
      BY <1>3, <1>6, <2>2, <3>1
    <3> QED
      BY <1>3, <3>2, SizesAssumption DEF Pages
  <2> QED
    BY <2>1, <2>2
<1>8. page_array' = page_array \/ (~SpaceOver /\ (Renew(pos) \/ RenewOnly(pos)))
  BY <1>2, <1>4, <1>6 DEF WriteOldFails
<1>9. page_array' \in [Pages -> Pages \cup {Unset}]
  <2>1. ASSUME ~SpaceOver, Renew(pos) \/ RenewOnly(pos)
        PROVE  page_array' \in [Pages -> Pages \cup {Unset}]
    <3>1. PageCnt \in Nat /\ free_page_start \in Nat /\ ~(free_page_start >= PageCnt)
      BY <1>5, <2>1, SizesAssumption DEF SpaceOver
    <3>2. free_page_start \in Pages
      BY <3>1 DEF Pages
    <3>3. \A k \in Pages : k # PageCnt - 1 => k + 1 \in Pages
      BY <3>1 DEF Pages
    <3>4. \A k \in Pages : page_array[k] \in Pages \cup {Unset}
      BY <1>5
    <3>5. CASE Renew(pos)
      BY <1>7, <3>2, <3>3, <3>4, <3>5 DEF Renew
    <3>6. CASE RenewOnly(pos)
      BY <1>7, <3>2, <3>3, <3>4, <3>6 DEF RenewOnly
    <3> QED
      BY <2>1, <3>5, <3>6
  <2> QED
    BY <1>5, <1>8, <2>1
<1> QED
  BY <1>1, <1>3, <1>5, <1>9, ConcludeFailed
-----------------------------------------------------------------------------
\* Mounting.  Of a set L of copies of pages, those of the files before file i,
\* and those of file i.
Lower(m, L, i) == {q \in L : m[q].inode < i}
Mine(m, L, i) == {q \in L : m[q].inode = i}

\* The position that fillPageArray() computes for page p.
Place(m, L, p) == Cardinality(Lower(m, L, m[p].inode)) + m[p].pgoff

\* No page is missing in the middle of a file.
Complete(m, L) ==
  /\ m \in [Pages -> AnyPage] /\ L \subseteq Pages
  /\ \A p \in L : \A off \in Nat :
       off < m[p].pgoff => \E q \in L : m[q].inode = m[p].inode /\ m[q].pgoff = off

\* The numbers of copies of the files before i and after it.
LEMMA Counts ==
  ASSUME NEW m, m \in [Pages -> AnyPage], NEW L, L \subseteq Pages
  PROVE  /\ IsFiniteSet(L) /\ Cardinality(L) \in Nat /\ Cardinality(L) <= PageCnt
         /\ \A i : IsFiniteSet(Lower(m, L, i)) /\ Cardinality(Lower(m, L, i)) \in Nat
         /\ \A i : IsFiniteSet(Mine(m, L, i)) /\ Cardinality(Mine(m, L, i)) \in Nat
         /\ \A i \in Nat :
              Cardinality(Lower(m, L, i)) + Cardinality(Mine(m, L, i)) <= Cardinality(L)
         /\ \A i, j \in Nat : i < j =>
              Cardinality(Lower(m, L, i)) + Cardinality(Mine(m, L, i))
                <= Cardinality(Lower(m, L, j))
<1>1. IsFiniteSet(Pages) /\ Cardinality(Pages) = PageCnt
  BY SizesAssumption, FS_Interval DEF Pages
<1>2. IsFiniteSet(L) /\ Cardinality(L) \in Nat /\ Cardinality(L) <= PageCnt
  BY <1>1, FS_Subset, FS_CardinalityType
<1>3. \A i : IsFiniteSet(Lower(m, L, i)) /\ Cardinality(Lower(m, L, i)) \in Nat
  BY <1>2, FS_Subset, FS_CardinalityType DEF Lower
<1>4. \A i : IsFiniteSet(Mine(m, L, i)) /\ Cardinality(Mine(m, L, i)) \in Nat
  BY <1>2, FS_Subset, FS_CardinalityType DEF Mine
<1>5. \A q \in L : m[q].inode \in Nat
  BY PageFields
<1>6. ASSUME NEW i \in Nat
      PROVE  Cardinality(Lower(m, L, i) \cup Mine(m, L, i))
               = Cardinality(Lower(m, L, i)) + Cardinality(Mine(m, L, i))
  <2>1. Lower(m, L, i) \cap Mine(m, L, i) = {}
    BY <1>5 DEF Lower, Mine
  <2>2. PICK A : A = Lower(m, L, i)
    OBVIOUS
  <2>3. PICK B : B = Mine(m, L, i)
    OBVIOUS
  <2>4. Cardinality(A \cup B) = Cardinality(A) + Cardinality(B) - Cardinality(A \cap B)
    BY <1>3, <1>4, <2>2, <2>3, FS_Union
  <2>5. Cardinality(A \cap B) = 0
    BY <2>1, <2>2, <2>3, FS_EmptySet
  <2>6. Cardinality(A) \in Nat /\ Cardinality(B) \in Nat
    BY <1>3, <1>4, <2>2, <2>3
  <2> QED
    BY <2>2, <2>3, <2>4, <2>5, <2>6
<1>7. ASSUME NEW i \in Nat
      PROVE  Cardinality(Lower(m, L, i)) + Cardinality(Mine(m, L, i)) <= Cardinality(L)
  <2>1. Lower(m, L, i) \cup Mine(m, L, i) \subseteq L
    BY DEF Lower, Mine
  <2>2. Cardinality(Lower(m, L, i) \cup Mine(m, L, i)) <= Cardinality(L)
    BY <1>2, <2>1, FS_Subset, Zenon
  <2> QED
    BY <1>6, <2>2
<1>8. ASSUME NEW i \in Nat, NEW j \in Nat, i < j
      PROVE  Cardinality(Lower(m, L, i)) + Cardinality(Mine(m, L, i))
               <= Cardinality(Lower(m, L, j))
  <2>1. Lower(m, L, i) \cup Mine(m, L, i) \subseteq Lower(m, L, j)
    BY <1>5, <1>8 DEF Lower, Mine
  <2>2. Cardinality(Lower(m, L, i) \cup Mine(m, L, i)) <= Cardinality(Lower(m, L, j))
    BY <1>3, <2>1, FS_Subset, Zenon
  <2> QED
    BY <1>6, <2>2
<1> QED
  BY <1>2, <1>3, <1>4, <1>7, <1>8

\* A file has a page for every offset up to that of any of its pages, ...
LEMMA OffsetsCounted ==
  ASSUME NEW m, NEW L, Complete(m, L), NEW p \in L
  PROVE  m[p].pgoff + 1 <= Cardinality(Mine(m, L, m[p].inode))
<1>0. m \in [Pages -> AnyPage] /\ L \subseteq Pages
  BY DEF Complete
<1>1. PICK off \in Nat : off = m[p].pgoff
  BY <1>0, PageFields
<1>2. PICK T : T = Mine(m, L, m[p].inode)
  OBVIOUS
<1>3. IsFiniteSet(T) /\ Cardinality(T) \in Nat
  BY <1>0, <1>2, Counts
<1>4. IsFiniteSet(0..off) /\ Cardinality(0..off) = off + 1
  BY FS_Interval
<1>5. SUFFICES ASSUME Cardinality(T) < Cardinality(0..off) PROVE FALSE
  BY <1>1, <1>2, <1>3, <1>4
<1>6. \A o \in 0..off : \E q \in T : m[q].pgoff = o
  <2> TAKE o \in 0..off
  <2>1. CASE o = off
    BY <1>1, <1>2, <2>1 DEF Mine
  <2>2. CASE o # off
    <3>1. o \in Nat /\ o < off
      BY <2>2
    <3> QED
      BY <1>1, <1>2, <3>1 DEF Mine, Complete
  <2> QED
    BY <2>1, <2>2
<1> DEFINE f == [o \in 0..off |-> CHOOSE q \in T : m[q].pgoff = o]
<1>7. \A o \in 0..off : f[o] \in T /\ m[f[o]].pgoff = o
  BY <1>6
<1>8. f \in [0..off -> T]
  BY <1>7
<1> HIDE DEF f
<1>9. \E x, y \in 0..off : x # y /\ f[x] = f[y]
  BY <1>3, <1>4, <1>5, <1>8, FS_PigeonHole
<1> QED
  BY <1>7, <1>9

\* One of two copies can be given up.
LEMMA OneCopy ==
  ASSUME NEW m, NEW L, Complete(m, L), NEW x \in L, NEW y \in L, x # y, SamePage(m[x], m[y])
  PROVE  Complete(m, L \ {x})
<1> SUFFICES ASSUME NEW p \in L \ {x}, NEW off \in Nat, off < m[p].pgoff
             PROVE  \E q \in L \ {x} : m[q].inode = m[p].inode /\ m[q].pgoff = off
  BY DEF Complete
<1>1. PICK q \in L : m[q].inode = m[p].inode /\ m[q].pgoff = off
  BY DEF Complete
<1>2. CASE q = x
  BY <1>1, <1>2 DEF SamePage
<1> QED
  BY <1>1, <1>2
-----------------------------------------------------------------------------
\* Where the copies of a complete set are put: those of a file together, ...
LEMMA PlaceFacts ==
  ASSUME NEW m, NEW L, Complete(m, L), NEW p \in L
  PROVE  /\ m[p].inode \in Nat /\ m[p].pgoff \in Nat /\ Place(m, L, p) \in Nat
         /\ Cardinality(Lower(m, L, m[p].inode)) <= Place(m, L, p)
         /\ Place(m, L, p)
              < Cardinality(Lower(m, L, m[p].inode)) + Cardinality(Mine(m, L, m[p].inode))
         /\ Place(m, L, p) < Cardinality(L) /\ Place(m, L, p) \in Pages
<1>0. m \in [Pages -> AnyPage] /\ L \subseteq Pages
  BY DEF Complete
<1>1. PICK i \in Nat, off \in Nat : i = m[p].inode /\ off = m[p].pgoff
  BY <1>0, PageFields
<1>2. PICK before \in Nat, mine \in Nat, all \in Nat :
        /\ before = Cardinality(Lower(m, L, i)) /\ mine = Cardinality(Mine(m, L, i))
        /\ all = Cardinality(L)
  BY <1>0, Counts
<1>3. off + 1 <= mine /\ before + mine <= all /\ all <= PageCnt
  BY <1>0, <1>1, <1>2, Counts, OffsetsCounted
<1>4. Place(m, L, p) = before + off
  BY <1>1, <1>2 DEF Place
<1>5. before + off \in Nat /\ before + off < before + mine /\ before + off < all
      /\ before + off \in Pages
  BY <1>3, SizesAssumption DEF Pages
<1> QED
  BY <1>1, <1>2, <1>4, <1>5

\* ... in the order of their offsets, and the files in order.
LEMMA PlaceOrder ==
  ASSUME NEW m, NEW L, Complete(m, L), NEW p \in L, NEW q \in L
  PROVE  /\ Before(m[p], m[q]) => Place(m, L, p) < Place(m, L, q)
         /\ SamePage(m[p], m[q]) <=> Place(m, L, p) = Place(m, L, q)
<1>0. m \in [Pages -> AnyPage] /\ L \subseteq Pages
  BY DEF Complete
<1>1. ASSUME NEW a \in L, NEW b \in L, Before(m[a], m[b]) PROVE Place(m, L, a) < Place(m, L, b)
  <2>1. m[a].inode \in Nat /\ m[b].inode \in Nat /\ m[a].pgoff \in Nat /\ m[b].pgoff \in Nat
    BY PlaceFacts
  <2>2. CASE m[a].inode < m[b].inode
    <3>1. Cardinality(Lower(m, L, m[a].inode)) + Cardinality(Mine(m, L, m[a].inode))
            <= Cardinality(Lower(m, L, m[b].inode))
      BY <1>0, <2>1, <2>2, Counts
    <3>2. Cardinality(Lower(m, L, m[a].inode)) \in Nat /\ Cardinality(Mine(m, L, m[a].inode)) \in Nat
          /\ Cardinality(Lower(m, L, m[b].inode)) \in Nat
      BY <1>0, Counts
    <3>3. /\ Place(m, L, a) \in Nat /\ Place(m, L, b) \in Nat
          /\ Place(m, L, a) < Cardinality(Lower(m, L, m[a].inode)) + Cardinality(Mine(m, L, m[a].inode))
          /\ Cardinality(Lower(m, L, m[b].inode)) <= Place(m, L, b)
      BY PlaceFacts
    <3> QED
      BY <3>1, <3>2, <3>3
  <2>3. CASE ~(m[a].inode < m[b].inode)
    <3>1. m[a].inode = m[b].inode /\ m[a].pgoff < m[b].pgoff
      BY <1>1, <2>3 DEF Before
    <3>2. Cardinality(Lower(m, L, m[b].inode)) \in Nat
      BY <1>0, Counts
    <3> QED
      BY <2>1, <3>1, <3>2 DEF Place
  <2> QED
    BY <2>2, <2>3
<1>2. m[p].inode \in Nat /\ m[q].inode \in Nat /\ m[p].pgoff \in Nat /\ m[q].pgoff \in Nat
      /\ Place(m, L, p) \in Nat /\ Place(m, L, q) \in Nat
  BY PlaceFacts
<1>3. SamePage(m[p], m[q]) => Place(m, L, p) = Place(m, L, q)
  BY DEF SamePage, Place
<1>4. SamePage(m[p], m[q]) \/ Before(m[p], m[q]) \/ Before(m[q], m[p])
  BY <1>2 DEF SamePage, Before
<1> QED
  BY <1>1, <1>2, <1>3, <1>4

\* The position of p after copy x has been given up: those behind the file of x,
\* which ends before position end, come one down, and the last of the file's
\* positions was not in use.
Lowered(m, L, x, p, end) ==
  /\ end \in Nat /\ end <= Cardinality(L) /\ Place(m, L, p) \in Nat
  /\ m[p].inode <= m[x].inode =>
       Place(m, L \ {x}, p) = Place(m, L, p) /\ Place(m, L, p) < end - 1
  /\ m[p].inode > m[x].inode =>
       Place(m, L \ {x}, p) = Place(m, L, p) - 1 /\ end <= Place(m, L, p)

\* The proof counts the pages of the smaller files and of the file itself.
LEMMA PlaceWithout ==
  ASSUME NEW m, NEW L, Complete(m, L), NEW x \in L, NEW y \in L, x # y, SamePage(m[x], m[y]),
         NEW end, end = Cardinality(Lower(m, L, m[x].inode)) + Cardinality(Mine(m, L, m[x].inode)),
         NEW p \in L \ {x}
  PROVE  Lowered(m, L, x, p, end)
<1>s. SUFFICES /\ end \in Nat /\ end <= Cardinality(L) /\ Place(m, L, p) \in Nat
               /\ m[p].inode <= m[x].inode =>
                    Place(m, L \ {x}, p) = Place(m, L, p) /\ Place(m, L, p) < end - 1
               /\ m[p].inode > m[x].inode =>
                    Place(m, L \ {x}, p) = Place(m, L, p) - 1 /\ end <= Place(m, L, p)
  BY DEF Lowered
<1>0. m \in [Pages -> AnyPage] /\ L \subseteq Pages /\ L \ {x} \subseteq Pages /\ p \in L
  BY DEF Complete
<1>1. PICK i \in Nat, j \in Nat, off \in Nat :
        i = m[x].inode /\ j = m[p].inode /\ off = m[p].pgoff
  BY <1>0, PageFields
<1>2. PICK before \in Nat, mine \in Nat, all \in Nat :
        /\ before = Cardinality(Lower(m, L, i)) /\ mine = Cardinality(Mine(m, L, i))
        /\ all = Cardinality(L)
  BY <1>0, Counts
<1>3. end = before + mine /\ end \in Nat /\ end <= all
  BY <1>0, <1>1, <1>2, Counts
<1>4. PICK low \in Nat, own \in Nat :
        low = Cardinality(Lower(m, L, j)) /\ own = Cardinality(Mine(m, L, j))
  BY <1>0, Counts
<1>5. Place(m, L, p) = low + off /\ low + off \in Nat
  BY <1>1, <1>4 DEF Place
<1>6. Complete(m, L \ {x})
  BY OneCopy
<1>a. /\ i < j => Cardinality(Lower(m, L \ {x}, j)) = low - 1
      /\ ~(i < j) => Cardinality(Lower(m, L \ {x}, j)) = low
      /\ i = j => Cardinality(Mine(m, L \ {x}, j)) = own - 1
      /\ i # j => Cardinality(Mine(m, L \ {x}, j)) = own
  <2>1. (x \in Lower(m, L, j) <=> i < j) /\ (x \in Mine(m, L, j) <=> i = j)
    BY <1>1 DEF Lower, Mine
  <2>2. PICK A, B : A = Lower(m, L, j) /\ B = Mine(m, L, j)
    OBVIOUS
  <2>3. IsFiniteSet(A) /\ IsFiniteSet(B) /\ low = Cardinality(A) /\ own = Cardinality(B)
    BY <1>0, <1>4, <2>2, Counts
  <2>4. Lower(m, L \ {x}, j) = A \ {x} /\ Mine(m, L \ {x}, j) = B \ {x}
    BY <2>2 DEF Lower, Mine
  <2>5. /\ x \in A => Cardinality(A \ {x}) = low - 1
        /\ x \notin A => Cardinality(A \ {x}) = low
    BY <2>3, FS_RemoveElement
  <2>6. /\ x \in B => Cardinality(B \ {x}) = own - 1
        /\ x \notin B => Cardinality(B \ {x}) = own
    BY <2>3, FS_RemoveElement
  <2> QED
    BY <2>1, <2>2, <2>4, <2>5, <2>6
<1>7. CASE j <= i
  <2>1. Cardinality(Lower(m, L \ {x}, j)) = low
    BY <1>7, <1>a
  <2>2. Place(m, L \ {x}, p) = low + off
    BY <1>1, <2>1 DEF Place
  <2>3. off + 1 <= Cardinality(Mine(m, L \ {x}, j))
    BY <1>1, <1>6, OffsetsCounted
  <2>4. low + off < end - 1
    <3>1. CASE j = i
      <4>1. Cardinality(Mine(m, L \ {x}, j)) = mine - 1
        BY <1>2, <1>4, <3>1, <1>a
      <4> QED
        BY <1>2, <1>3, <1>4, <2>3, <3>1, <4>1
    <3>2. CASE j < i
      <4>1. Cardinality(Mine(m, L \ {x}, j)) = own
        BY <3>2, <1>a
      <4>2. low + own <= before
        BY <1>0, <1>2, <1>4, <3>2, Counts
      <4>3. m[x].pgoff \in Nat /\ m[x].pgoff + 1 <= mine
        BY <1>1, <1>2, OffsetsCounted, PlaceFacts
      <4> QED
        BY <1>3, <2>3, <4>1, <4>2, <4>3
    <3> QED
      BY <1>7, <3>1, <3>2
  <2> QED
    BY <1>1, <1>2, <1>3, <1>5, <1>7, <2>2, <2>4
<1>8. CASE ~(j <= i)
  <2>1. Cardinality(Lower(m, L \ {x}, j)) = low - 1
    BY <1>8, <1>a
  <2>2. Place(m, L \ {x}, p) = (low + off) - 1
    BY <1>1, <2>1 DEF Place
  <2>3. end <= low
    BY <1>0, <1>2, <1>3, <1>4, <1>8, Counts
  <2> QED
    BY <1>1, <1>2, <1>3, <1>5, <1>8, <2>2, <2>3
<1> QED
  BY <1>7, <1>8
-----------------------------------------------------------------------------
\* After n turns of the loop of fillPageArray(): L has the copies that are kept,
\* of the pages not yet looked at all.
Valid(m) == {p \in Pages : m[p].fcs}

Kept(m, n, L) ==
  /\ Complete(m, L) /\ Distinct(m) /\ n \in 0..PageCnt
  /\ L \subseteq Valid(m) /\ Valid(m) \ Used(n) \subseteq L
  /\ \A r \in Valid(m) : r \in L
       \/ \E q \in L \cap Used(n) : SamePage(m[r], m[q]) /\ m[r].seq < m[q].seq
  /\ \A p, q \in L \cap Used(n) : SamePage(m[p], m[q]) => p = q

\* The array a has them at their places, and from position u up to the free-th
\* the pages that are given up or not right.
Filed(m, n, L, a, u, free) ==
  /\ a \in [Pages -> Pages \cup {Unset}]
  /\ u = Cardinality(L) /\ free = Cardinality(L \cup Used(n))
  /\ \A p \in L \cap Used(n) : a[Place(m, L, p)] = p
  /\ \A k \in Pages : k < u /\ a[k] # Unset => a[k] \in L \cap Used(n) /\ Place(m, L, a[k]) = k
  /\ \A p \in Used(n) \ L : \E k \in Pages : u <= k /\ k < free /\ a[k] = p
  /\ \A k \in Pages : u <= k /\ k < free => a[k] \in Used(n) \ L
  /\ \A k \in Pages : free <= k => a[k] = Unset

\* One more page has been looked at.
LEMMA NextPage ==
  ASSUME NEW n \in Pages
  PROVE  /\ n \in Nat /\ n \in 0..PageCnt /\ n + 1 \in 0..PageCnt
         /\ n \notin Used(n) /\ Used(n + 1) = Used(n) \cup {n} /\ Used(n) \subseteq Pages
<1>1. PageCnt \in Nat /\ n \in Nat /\ n < PageCnt
  BY SizesAssumption DEF Pages
<1>2. \A k \in Pages : k \in Nat
  BY DEF Pages
<1>3. Used(n + 1) = Used(n) \cup {n}
  <2>1. \A k \in Pages : k < n + 1 <=> (k < n \/ k = n)
    BY <1>1, <1>2
  <2> QED
    BY <2>1 DEF Used
<1>4. n \notin Used(n) /\ Used(n) \subseteq Pages
  BY <1>1 DEF Used
<1> QED
  BY <1>1, <1>3, <1>4

\* The positions that are in use.
LEMMA FiledFacts ==
  ASSUME NEW m, NEW n, NEW L, NEW a, NEW u, NEW free,
         Kept(m, n, L), Filed(m, n, L, a, u, free)
  PROVE  /\ u \in Nat /\ free \in Nat /\ u <= free /\ free <= PageCnt
         /\ m \in [Pages -> AnyPage] /\ L \subseteq Pages /\ Used(n) \subseteq Pages
         /\ IsFiniteSet(L \cup Used(n))
         /\ \A p \in L : Place(m, L, p) \in Pages /\ Place(m, L, p) < u
<1>1. m \in [Pages -> AnyPage] /\ L \subseteq Pages /\ Used(n) \subseteq Pages
  BY DEF Kept, Complete, Used
<1>2. IsFiniteSet(Pages) /\ Cardinality(Pages) = PageCnt
  BY SizesAssumption, FS_Interval DEF Pages
<1>3. PICK T : T = L \cup Used(n)
  OBVIOUS
<1>4. T \subseteq Pages /\ L \subseteq T
  BY <1>1, <1>3
<1>5. IsFiniteSet(T) /\ Cardinality(T) \in Nat /\ Cardinality(T) <= PageCnt
  BY <1>2, <1>4, FS_Subset, FS_CardinalityType
<1>6. Cardinality(L) \in Nat /\ Cardinality(L) <= Cardinality(T)
  BY <1>4, <1>5, FS_Subset, FS_CardinalityType
<1>7. u = Cardinality(L) /\ free = Cardinality(T)
  BY <1>3 DEF Filed
<1>8. \A p \in L : Place(m, L, p) \in Pages /\ Place(m, L, p) < u
  BY <1>7, PlaceFacts DEF Kept
<1> QED
  BY <1>1, <1>3, <1>5, <1>6, <1>7, <1>8

\* A page that is not right goes behind the others.
LEMMA FiledBad ==
  ASSUME NEW m, NEW n \in Pages, NEW L, NEW a, NEW u, NEW free,
         Kept(m, n, L), Filed(m, n, L, a, u, free), ~m[n].fcs
  PROVE  /\ free \in Pages /\ a[free] = Unset
         /\ Kept(m, n + 1, L) /\ Filed(m, n + 1, L, Put(a, free, n), u, free + 1)
<1>0. /\ u \in Nat /\ free \in Nat /\ u <= free /\ free <= PageCnt
      /\ L \subseteq Pages /\ Used(n) \subseteq Pages /\ IsFiniteSet(L \cup Used(n))
      /\ \A p \in L : Place(m, L, p) \in Pages /\ Place(m, L, p) < u
  BY FiledFacts
<1>1. /\ n \in Nat /\ n + 1 \in 0..PageCnt
      /\ n \notin Used(n) /\ Used(n + 1) = Used(n) \cup {n}
  BY NextPage
<1>2. n \notin L /\ n \notin Valid(m)
  BY DEF Kept, Valid
<1>3. L \cap Used(n + 1) = L \cap Used(n) /\ Valid(m) \ Used(n + 1) = Valid(m) \ Used(n)
  BY <1>1, <1>2
<1>4. Kept(m, n + 1, L)
  BY <1>1, <1>3 DEF Kept
<1>5. Cardinality(L \cup Used(n + 1)) = free + 1 /\ free + 1 <= PageCnt
  <2>1. PICK T : T = L \cup Used(n)
    OBVIOUS
  <2>2. L \cup Used(n + 1) = T \cup {n} /\ n \notin T
    BY <1>1, <1>2, <2>1
  <2>3. Cardinality(T \cup {n}) = free + 1
    BY <1>0, <2>1, <2>2, FS_AddElement DEF Filed
  <2>4. T \cup {n} \subseteq Pages
    BY <1>0, <2>1
  <2>5. Cardinality(T \cup {n}) <= PageCnt
    <3>1. IsFiniteSet(Pages) /\ Cardinality(Pages) = PageCnt
      BY SizesAssumption, FS_Interval DEF Pages
    <3> QED
      BY <2>4, <3>1, FS_Subset
  <2> QED
    BY <2>2, <2>3, <2>5
<1>6. free \in Pages /\ a[free] = Unset
  <2>1. PageCnt \in Nat
    BY SizesAssumption
  <2>2. free \in Pages
    BY <1>0, <1>5, <2>1 DEF Pages
  <2>3. free <= free
    BY <1>0
  <2> QED
    BY <2>2, <2>3 DEF Filed
<1>7. PICK b : b = Put(a, free, n)
  OBVIOUS
<1>8. /\ b \in [Pages -> Pages \cup {Unset}] /\ b[free] = n
      /\ \A k \in Pages : k # free => b[k] = a[k]
  BY <1>6, <1>7 DEF Filed, Put
<1>9. \A k \in Pages : k \in Nat
  BY DEF Pages
<1>10. \A p \in L \cap Used(n + 1) : b[Place(m, L, p)] = p
  BY <1>0, <1>3, <1>8, <1>9 DEF Filed
<1>11. ASSUME NEW k \in Pages, k < u, b[k] # Unset
       PROVE  b[k] \in L \cap Used(n + 1) /\ Place(m, L, b[k]) = k
  <2>1. b[k] = a[k]
    BY <1>0, <1>8, <1>9, <1>11
  <2> QED
    BY <1>3, <1>11, <2>1 DEF Filed
<1>12. ASSUME NEW p \in Used(n + 1) \ L PROVE \E k \in Pages : u <= k /\ k < free + 1 /\ b[k] = p
  <2>1. CASE p = n
    BY <1>0, <1>6, <1>8, <2>1
  <2>2. CASE p # n
    <3>1. PICK k \in Pages : u <= k /\ k < free /\ a[k] = p
      BY <1>1, <1>12, <2>2 DEF Filed
    <3> QED
      BY <1>0, <1>8, <1>9, <3>1
  <2> QED
    BY <2>1, <2>2
<1>13. ASSUME NEW k \in Pages, u <= k, k < free + 1 PROVE b[k] \in Used(n + 1) \ L
  <2>1. CASE k = free
    BY <1>1, <1>2, <1>8, <2>1
  <2>2. CASE k # free
    <3>1. k < free
      BY <1>0, <1>9, <1>13, <2>2
    <3> QED
      BY <1>1, <1>8, <1>13, <2>2, <3>1 DEF Filed
  <2> QED
    BY <2>1, <2>2
<1>14. ASSUME NEW k \in Pages, free + 1 <= k PROVE b[k] = Unset
  <2>1. k # free /\ free <= k
    BY <1>0, <1>9, <1>14
  <2> QED
    BY <1>8, <2>1 DEF Filed
<1>15. Filed(m, n + 1, L, b, u, free + 1)
  BY <1>5, <1>8, <1>10, <1>11, <1>12, <1>13, <1>14 DEF Filed
<1> QED
  BY <1>4, <1>6, <1>7, <1>15

\* The first copy of a page goes to its place.
LEMMA FiledFirst ==
  ASSUME NEW m, NEW n \in Pages, NEW L, NEW a, NEW u, NEW free,
         Kept(m, n, L), Filed(m, n, L, a, u, free), m[n].fcs, a[Place(m, L, n)] = Unset
  PROVE  Kept(m, n + 1, L) /\ Filed(m, n + 1, L, Put(a, Place(m, L, n), n), u, free)
<1>0. /\ u \in Nat /\ free \in Nat /\ u <= free /\ free <= PageCnt
      /\ L \subseteq Pages /\ Used(n) \subseteq Pages
      /\ \A p \in L : Place(m, L, p) \in Pages /\ Place(m, L, p) < u
  BY FiledFacts
<1>1. /\ n \in Nat /\ n + 1 \in 0..PageCnt
      /\ n \notin Used(n) /\ Used(n + 1) = Used(n) \cup {n}
  BY NextPage
<1>2. n \in L /\ n \in Valid(m)
  BY <1>1 DEF Kept, Valid
<1>3. PICK pos \in Pages : pos = Place(m, L, n) /\ pos < u
  BY <1>0, <1>2
<1>4. \A p \in Pages : p # Unset
  BY UnsetAssumption DEF Pages
<1>5. \A p \in L \cap Used(n) : Place(m, L, p) # pos /\ ~SamePage(m[p], m[n]) /\ ~SamePage(m[n], m[p])
  <2> SUFFICES ASSUME NEW p \in L \cap Used(n),
                      Place(m, L, p) = pos \/ SamePage(m[p], m[n]) \/ SamePage(m[n], m[p])
               PROVE  FALSE
    OBVIOUS
  <2>1. Place(m, L, p) = pos
    BY <1>2, <1>3, PlaceOrder DEF Kept
  <2>2. a[pos] = p
    BY <2>1 DEF Filed
  <2> QED
    BY <1>0, <1>3, <1>4, <2>2
<1>6. Kept(m, n + 1, L)
  <2>1. \A p, q \in L \cap Used(n + 1) : SamePage(m[p], m[q]) => p = q
    BY <1>1, <1>5 DEF Kept
  <2> QED
    BY <1>1, <2>1 DEF Kept
<1>7. PICK b : b = Put(a, pos, n)
  OBVIOUS
<1>8. /\ b \in [Pages -> Pages \cup {Unset}] /\ b[pos] = n
      /\ \A k \in Pages : k # pos => b[k] = a[k]
  BY <1>7 DEF Filed, Put
<1>9. \A k \in Pages : k \in Nat
  BY DEF Pages
<1>10. L \cup Used(n + 1) = L \cup Used(n) /\ Used(n + 1) \ L = Used(n) \ L
  BY <1>1, <1>2
<1>11. \A p \in L \cap Used(n + 1) : b[Place(m, L, p)] = p
  <2> TAKE p \in L \cap Used(n + 1)
  <2>1. CASE p = n
    BY <1>3, <1>8, <2>1
  <2>2. CASE p # n
    <3>1. p \in L \cap Used(n)
      BY <1>1, <2>2
    <3> QED
      BY <1>0, <1>5, <1>8, <3>1 DEF Filed
  <2> QED
    BY <2>1, <2>2
<1>12. ASSUME NEW k \in Pages, k < u, b[k] # Unset
       PROVE  b[k] \in L \cap Used(n + 1) /\ Place(m, L, b[k]) = k
  <2>1. CASE k = pos
    BY <1>1, <1>2, <1>3, <1>8, <2>1
  <2>2. CASE k # pos
    BY <1>1, <1>8, <1>12, <2>2 DEF Filed
  <2> QED
    BY <2>1, <2>2
<1>13. \A k \in Pages : u <= k => k # pos
  BY <1>0, <1>3, <1>9
<1>14. \A p \in Used(n + 1) \ L : \E k \in Pages : u <= k /\ k < free /\ b[k] = p
  BY <1>8, <1>10, <1>13 DEF Filed
<1>15. \A k \in Pages : u <= k /\ k < free => b[k] \in Used(n + 1) \ L
  BY <1>8, <1>10, <1>13 DEF Filed
<1>16. ASSUME NEW k \in Pages, free <= k PROVE b[k] = Unset
  <2>1. k # pos
    BY <1>0, <1>3, <1>9, <1>16
  <2> QED
    BY <1>8, <1>16, <2>1 DEF Filed
<1>17. Filed(m, n + 1, L, b, u, free)
  BY <1>8, <1>10, <1>11, <1>12, <1>14, <1>15, <1>16 DEF Filed
<1> QED
  BY <1>3, <1>6, <1>7, <1>17
-----------------------------------------------------------------------------
\* The place of a page is taken by another copy of it only.
LEMMA Clash ==
  ASSUME NEW m, NEW n \in Pages, NEW L, NEW a, NEW u, NEW free,
         Kept(m, n, L), Filed(m, n, L, a, u, free), m[n].fcs, a[Place(m, L, n)] # Unset
  PROVE  LET q == a[Place(m, L, n)] IN
         /\ n \in L \ Used(n) /\ q \in L \cap Used(n) /\ SamePage(m[q], m[n]) /\ m[q].fcs
         /\ m[q].seq \in Nat /\ m[n].seq \in Nat /\ m[q].seq # m[n].seq
<1>0. /\ L \subseteq Pages /\ m \in [Pages -> AnyPage]
      /\ \A p \in L : Place(m, L, p) \in Pages /\ Place(m, L, p) < u
  BY FiledFacts
<1>1. n \notin Used(n)
  BY NextPage
<1>2. n \in L
  BY <1>1 DEF Kept, Valid
<1>3. PICK pos \in Pages : pos = Place(m, L, n) /\ pos < u
  BY <1>0, <1>2
<1>4. PICK q : q = a[pos]
  OBVIOUS
<1>5. q \in L \cap Used(n) /\ Place(m, L, q) = pos
  BY <1>3, <1>4 DEF Filed
<1>6. SamePage(m[q], m[n])
  BY <1>2, <1>3, <1>5, PlaceOrder DEF Kept
<1>7. q # n /\ q \in Pages /\ m[q].fcs
  BY <1>0, <1>1, <1>5 DEF Kept, Valid
<1>8. m[q].seq # m[n].seq
  BY <1>6, <1>7 DEF Kept, Distinct
<1>9. m[q].seq \in Nat /\ m[n].seq \in Nat
  BY <1>0, <1>7, PageFields
<1> QED
  BY <1>1, <1>2, <1>3, <1>4, <1>5, <1>6, <1>7, <1>8, <1>9

\* Of page n and the copy q of it, x is given up for y.
Choice(m, n, L, q, x, y) ==
  /\ n \in L \ Used(n) /\ q \in L \cap Used(n) /\ SamePage(m[q], m[n])
  /\ (x = n /\ y = q) \/ (x = q /\ y = n)
  /\ m[x].seq < m[y].seq

Copies(m, n, L, q, x, y) ==
  /\ x \in L /\ y \in L /\ x # y /\ q # n
  /\ SamePage(m[x], m[y]) /\ SamePage(m[y], m[x])
  /\ SamePage(m[y], m[q]) /\ SamePage(m[x], m[n]) /\ SamePage(m[x], m[q])
  /\ x \in Used(n + 1) /\ y \in Used(n + 1)
  /\ L \cup Used(n + 1) = L \cup Used(n)
  /\ Used(n + 1) = Used(n) \cup {n} /\ n \notin Used(n)
  /\ Complete(m, L \ {x})

\* The copy given up is older, and of the same page, as the one that stays.
LEMMA ChoiceFacts ==
  ASSUME NEW m, NEW n \in Pages, NEW L, NEW q, NEW x, NEW y,
         Kept(m, n, L), Choice(m, n, L, q, x, y)
  PROVE  Copies(m, n, L, q, x, y)
<1>1. Used(n + 1) = Used(n) \cup {n} /\ n \notin Used(n)
  BY NextPage
<1>2. /\ x \in L /\ y \in L /\ q # n /\ x \in Used(n + 1) /\ y \in Used(n + 1)
      /\ L \cup Used(n + 1) = L \cup Used(n)
  BY <1>1 DEF Choice
<1>3. /\ SamePage(m[x], m[y]) /\ SamePage(m[y], m[x])
      /\ SamePage(m[y], m[q]) /\ SamePage(m[x], m[n]) /\ SamePage(m[x], m[q])
  BY DEF Choice, SamePage
<1>4. x # y
  BY <1>2 DEF Choice
<1>5. Complete(m, L \ {x})
  BY <1>2, <1>3, <1>4, OneCopy DEF Kept
<1> QED
  BY <1>1, <1>2, <1>3, <1>4, <1>5 DEF Copies

\* Without the older copy, still every page has one, and a file no gap.
LEMMA KeptOne ==
  ASSUME NEW m, NEW n \in Pages, NEW L, NEW q, NEW x, NEW y,
         Kept(m, n, L), Choice(m, n, L, q, x, y)
  PROVE  Kept(m, n + 1, L \ {x})
<1>c. Copies(m, n, L, q, x, y)
  BY ChoiceFacts
<1>0. /\ x \in L /\ y \in L /\ x # y /\ q # n
      /\ SamePage(m[x], m[y]) /\ SamePage(m[y], m[x])
      /\ SamePage(m[y], m[q]) /\ SamePage(m[x], m[n]) /\ SamePage(m[x], m[q])
      /\ x \in Used(n + 1) /\ y \in Used(n + 1)
      /\ L \cup Used(n + 1) = L \cup Used(n)
      /\ Used(n + 1) = Used(n) \cup {n} /\ n \notin Used(n)
      /\ Complete(m, L \ {x})
  BY <1>c DEF Copies
<1>a. (x = n /\ y = q) \/ (x = q /\ y = n)
  BY DEF Choice
<1>b. m[x].seq < m[y].seq /\ q \in L \cap Used(n)
  BY DEF Choice
<1>1. L \ {x} \subseteq Valid(m) /\ Valid(m) \ Used(n + 1) \subseteq L \ {x}
  BY <1>0 DEF Kept
<1>2. ASSUME NEW r \in Valid(m), r \notin L \ {x}
      PROVE  \E p \in (L \ {x}) \cap Used(n + 1) : SamePage(m[r], m[p]) /\ m[r].seq < m[p].seq
  <2>1. y \in (L \ {x}) \cap Used(n + 1)
    BY <1>0
  <2>2. CASE r = x
    BY <1>0, <1>b, <2>1, <2>2
  <2>3. CASE r # x
    <3>1. PICK p \in L \cap Used(n) : SamePage(m[r], m[p]) /\ m[r].seq < m[p].seq
      BY <1>2, <2>3 DEF Kept
    <3>2. CASE p = x
      <4>1. SamePage(m[r], m[y])
        BY <1>0, <3>1, <3>2 DEF SamePage
      <4>2. m[r].seq \in Nat /\ m[x].seq \in Nat /\ m[y].seq \in Nat
        BY SMTT(30), <1>0, PageFields DEF Kept, Complete, Valid
      <4>3. m[r].seq < m[y].seq
        BY <1>b, <3>1, <3>2, <4>2
      <4> QED
        BY <2>1, <4>1, <4>3
    <3>3. CASE p # x
      BY <1>0, <3>1, <3>3
    <3> QED
      BY <3>2, <3>3
  <2> QED
    BY <2>2, <2>3
<1>3. ASSUME NEW p \in (L \ {x}) \cap Used(n + 1), NEW r \in (L \ {x}) \cap Used(n + 1),
             SamePage(m[p], m[r])
      PROVE  p = r
  <2>1. ASSUME NEW s \in (L \ {x}) \cap Used(n), SamePage(m[s], m[n]) PROVE s = y
    <3>1. SamePage(m[s], m[q])
      BY <1>0, <2>1 DEF SamePage, Choice
    <3>2. s = q
      BY <1>b, <3>1 DEF Kept
    <3> QED
      BY <1>a, <3>2
  <2>2. CASE p # n /\ r # n
    BY <1>0, <1>3, <2>2 DEF Kept
  <2>3. CASE p = n /\ r # n
    <3>1. r \in (L \ {x}) \cap Used(n) /\ SamePage(m[r], m[n])
      BY <1>0, <1>3, <2>3 DEF SamePage
    <3>2. r = y
      BY <2>1, <3>1
    <3> QED
      BY <1>0, <1>a, <2>3, <3>1, <3>2
  <2>4. CASE p # n /\ r = n
    <3>1. p \in (L \ {x}) \cap Used(n) /\ SamePage(m[p], m[n])
      BY <1>0, <1>3, <2>4
    <3>2. p = y
      BY <2>1, <3>1
    <3> QED
      BY <1>0, <1>a, <2>4, <3>1, <3>2
  <2> QED
    BY <2>2, <2>3, <2>4
<1>4. n + 1 \in 0..PageCnt
  BY NextPage
<1> QED
  BY <1>0, <1>1, <1>2, <1>3, <1>4 DEF Kept
-----------------------------------------------------------------------------
\* The array in which y takes the place of the page; and then those behind the
\* file move down, and x goes where the last of the free pages was.
Takes(a, k, y) == Put(a, k, y)
Gives(a, end, free, x) == Put(MovePages(a, end), free - 1, x)

\* What movePages() and the assignment after it leave in the array.
LEMMA GivesFacts ==
  ASSUME NEW k1 \in [Pages -> Pages \cup {Unset}], NEW end \in Nat, NEW free \in Nat, NEW x \in Pages,
         0 < end, end <= free, free <= PageCnt, \A k \in Pages : free <= k => k1[k] = Unset,
         NEW b, b = Gives(k1, end, free, x)
  PROVE  /\ b \in [Pages -> Pages \cup {Unset}] /\ free - 1 \in Pages
         /\ MovePages(k1, end)[free - 1] = Unset /\ b[free - 1] = x
         /\ \A k \in Pages : k < end - 1 => b[k] = k1[k]
         /\ \A k \in Pages : end - 1 <= k /\ k + 1 < free => k + 1 \in Pages /\ b[k] = k1[k + 1]
         /\ \A k \in Pages : free <= k => b[k] = Unset
<1>0. /\ PageCnt \in Nat /\ free - 1 \in Pages /\ free - 1 \in Nat
      /\ \A k : k \in Pages <=> k \in Nat /\ k < PageCnt
  BY SizesAssumption DEF Pages
<1>1. PICK moved : moved = MovePages(k1, end)
  OBVIOUS
<1>2. moved = [k \in Pages |-> IF k < end - 1 THEN k1[k]
                               ELSE IF k < PageCnt - 1 THEN k1[k + 1] ELSE Unset]
  BY <1>1 DEF MovePages
<1>3. \A k \in Pages : k < PageCnt - 1 => k + 1 \in Pages
  BY <1>0
<1>4. moved \in [Pages -> Pages \cup {Unset}]
  BY <1>2, <1>3
<1>5. /\ \A k \in Pages : k < end - 1 => moved[k] = k1[k]
      /\ \A k \in Pages : ~(k < end - 1) /\ k < PageCnt - 1 => moved[k] = k1[k + 1]
      /\ \A k \in Pages : ~(k < end - 1) /\ ~(k < PageCnt - 1) => moved[k] = Unset
  BY <1>2
<1>6. ASSUME NEW k \in Pages, free - 1 <= k PROVE moved[k] = Unset
  <2>1. ~(k < end - 1)
    BY <1>0, <1>6
  <2>2. CASE k < PageCnt - 1
    <3>1. k + 1 \in Pages /\ free <= k + 1
      BY <1>0, <1>3, <1>6, <2>2
    <3> QED
      BY <1>5, <2>1, <2>2, <3>1
  <2> QED
    BY <1>5, <2>1, <2>2
<1>7. moved[free - 1] = Unset
  BY <1>0, <1>6
<1>8. /\ b \in [Pages -> Pages \cup {Unset}] /\ b[free - 1] = x
      /\ \A k \in Pages : k # free - 1 => b[k] = moved[k]
  <2>1. PICK f \in Pages : f = free - 1
    BY <1>0
  <2>2. b = [moved EXCEPT ![f] = x]
    BY <1>1, <2>1 DEF Gives, Put
  <2> QED
    BY <1>4, <2>1, <2>2
<1>9. ASSUME NEW k \in Pages, k < end - 1 PROVE b[k] = k1[k]
  <2>1. k # free - 1
    BY <1>0, <1>9
  <2> QED
    BY <1>5, <1>8, <1>9, <2>1
<1>10. ASSUME NEW k \in Pages, end - 1 <= k, k + 1 < free PROVE k + 1 \in Pages /\ b[k] = k1[k + 1]
  <2>1. k # free - 1 /\ ~(k < end - 1) /\ k < PageCnt - 1
    BY <1>0, <1>10
  <2> QED
    BY <1>3, <1>5, <1>8, <2>1
<1>11. ASSUME NEW k \in Pages, free <= k PROVE b[k] = Unset
  <2>1. k # free - 1 /\ free - 1 <= k
    BY <1>0, <1>11
  <2> QED
    BY <1>6, <1>8, <2>1
<1> QED
  BY <1>0, <1>1, <1>7, <1>8, <1>9, <1>10, <1>11

\* The array after the second copy.
Collides(m, n, L, a, u, free, q, x, y, end) ==
  /\ Kept(m, n, L) /\ Filed(m, n, L, a, u, free) /\ Choice(m, n, L, q, x, y)
  /\ q = a[Place(m, L, n)]
  /\ end = Cardinality(Lower(m, L, m[n].inode)) + Cardinality(Mine(m, L, m[n].inode))

\* A second copy of a page, in the order found: the assertion on the last free
\* position holds, and every page that is left has its position.
LEMMA FiledOne ==
  ASSUME NEW m, NEW n \in Pages, NEW L, NEW a, NEW u, NEW free, NEW q, NEW x, NEW y, NEW end,
         Collides(m, n, L, a, u, free, q, x, y, end),
         NEW k1, k1 = Takes(a, Place(m, L, n), y)
  PROVE  /\ end \in Nat /\ free - 1 \in Pages /\ MovePages(k1, end)[free - 1] = Unset
         /\ Filed(m, n + 1, L \ {x}, Gives(k1, end, free, x), u - 1, free)
<1>0. Kept(m, n, L) /\ Filed(m, n, L, a, u, free) /\ Choice(m, n, L, q, x, y)
  BY DEF Collides
<1>1. Copies(m, n, L, q, x, y)
  BY <1>0, ChoiceFacts
<1>2. /\ u \in Nat /\ free \in Nat /\ u <= free /\ free <= PageCnt
      /\ m \in [Pages -> AnyPage] /\ L \subseteq Pages /\ Used(n) \subseteq Pages
      /\ \A p \in L : Place(m, L, p) \in Pages /\ Place(m, L, p) < u
  BY <1>0, FiledFacts
<1>3. n \in L /\ q \in L /\ x \in L /\ y \in L /\ Complete(m, L)
  BY <1>0, <1>1 DEF Copies, Choice, Kept
<1>4. PICK pos \in Pages : pos = Place(m, L, n) /\ pos < u
  BY <1>2, <1>3
<1>5. Place(m, L, q) = pos /\ Place(m, L, x) = pos /\ Place(m, L, y) = pos
  <2>1. SamePage(m[q], m[n]) /\ SamePage(m[x], m[n]) /\ SamePage(m[y], m[n])
    BY <1>0, <1>1 DEF Copies, Choice, SamePage
  <2> QED
    BY <1>3, <1>4, <2>1, PlaceOrder
<1>6. PICK i \in Nat : i = m[x].inode /\ i = m[y].inode /\ i = m[n].inode /\ i = m[q].inode
  <2>1. m[x].inode \in Nat
    BY <1>3, PlaceFacts
  <2> QED
    BY <1>1, <2>1 DEF Copies, SamePage
<1>7. end = Cardinality(Lower(m, L, m[x].inode)) + Cardinality(Mine(m, L, m[x].inode))
  BY <1>6 DEF Collides
<1>8. \A p \in L \ {x} : Lowered(m, L, x, p, end)
  <2>1. x # y /\ SamePage(m[x], m[y]) /\ x \in L /\ y \in L /\ Complete(m, L)
    BY <1>1, <1>3 DEF Copies
  <2> QED
    BY <1>7, <2>1, PlaceWithout
<1>9. /\ \A p \in L \ {x} : m[p].inode <= i =>
             Place(m, L \ {x}, p) = Place(m, L, p) /\ Place(m, L, p) < end - 1
      /\ \A p \in L \ {x} : ~(m[p].inode <= i) =>
             Place(m, L \ {x}, p) = Place(m, L, p) - 1 /\ end <= Place(m, L, p)
  <2> SUFFICES ASSUME NEW p \in L \ {x}
               PROVE  /\ m[p].inode <= i =>
                           Place(m, L \ {x}, p) = Place(m, L, p) /\ Place(m, L, p) < end - 1
                      /\ ~(m[p].inode <= i) =>
                           Place(m, L \ {x}, p) = Place(m, L, p) - 1 /\ end <= Place(m, L, p)
    OBVIOUS
  <2>1. PICK j \in Nat : j = m[p].inode
    BY <1>3, PlaceFacts
  <2>2. /\ j <= i => Place(m, L \ {x}, p) = Place(m, L, p) /\ Place(m, L, p) < end - 1
        /\ j > i => Place(m, L \ {x}, p) = Place(m, L, p) - 1 /\ end <= Place(m, L, p)
    BY <1>6, <1>8, <2>1 DEF Lowered
  <2>3. j > i <=> ~(j <= i)
    BY <2>1
  <2> QED
    BY <2>1, <2>2, <2>3
<1>10. end \in Nat /\ end <= u /\ pos < end - 1
  <2>1. y \in L \ {x}
    BY <1>1 DEF Copies
  <2>2. m[y].inode <= i
    BY <1>6
  <2>3. end \in Nat /\ end <= Cardinality(L)
    BY <1>8, <2>1 DEF Lowered
  <2>4. u = Cardinality(L)
    BY <1>0 DEF Filed
  <2> QED
    BY <1>5, <1>9, <2>1, <2>2, <2>3, <2>4
<1>11. /\ k1 \in [Pages -> Pages \cup {Unset}] /\ k1[pos] = y
       /\ \A k \in Pages : k # pos => k1[k] = a[k]
  <2>1. a \in [Pages -> Pages \cup {Unset}] /\ y \in Pages
    BY <1>0, <1>2, <1>3 DEF Filed
  <2> QED
    BY <1>4, <2>1 DEF Takes, Put
<1>12. \A k \in Pages : k \in Nat /\ (u <= k => k # pos)
  BY <1>2, <1>4 DEF Pages
<1>13. \A k \in Pages : free <= k => k1[k] = Unset
  <2>1. \A k \in Pages : free <= k => u <= k
    BY <1>2, <1>12
  <2> QED
    BY <1>0, <1>11, <1>12, <2>1 DEF Filed
<1>14. PICK b : b = Gives(k1, end, free, x)
  OBVIOUS
<1>15. /\ b \in [Pages -> Pages \cup {Unset}] /\ free - 1 \in Pages
       /\ MovePages(k1, end)[free - 1] = Unset /\ b[free - 1] = x
       /\ \A k \in Pages : k < end - 1 => b[k] = k1[k]
       /\ \A k \in Pages : end - 1 <= k /\ k + 1 < free => k + 1 \in Pages /\ b[k] = k1[k + 1]
       /\ \A k \in Pages : free <= k => b[k] = Unset
  <2>1. 0 < end /\ end <= free /\ x \in Pages
    BY <1>2, <1>3, <1>4, <1>10, <1>12
  <2> QED
    BY <1>2, <1>10, <1>11, <1>13, <1>14, <2>1, GivesFacts
<1> DEFINE K == L \ {x}
           met == Used(n + 1)
<1>16. /\ x \in met /\ y \in met /\ x # y /\ n \notin Used(n)
       /\ met = Used(n) \cup {n} /\ L \cup met = L \cup Used(n)
  BY <1>1 DEF Copies
<1>a. (x = n /\ y = q) \/ (x = q /\ y = n)
  BY <1>0 DEF Choice
<1>17. u - 1 = Cardinality(K) /\ free = Cardinality(K \cup met)
  <2>1. K \cup met = L \cup Used(n)
    BY <1>16
  <2>2. IsFiniteSet(L)
    BY <1>2, Counts
  <2>3. Cardinality(K) = Cardinality(L) - 1
    BY <1>3, <2>2, FS_RemoveElement
  <2> QED
    BY <1>0, <2>1, <2>3 DEF Filed
<1>18. ASSUME NEW p \in K \cap met PROVE k1[Place(m, L, p)] = p
  <2>1. CASE p = y
    BY <1>5, <1>11, <2>1
  <2>2. CASE p # y
    <3>1. p \in L \cap Used(n) /\ p # q
      BY <1>16, <1>a, <2>2
    <3>2. a[Place(m, L, p)] = p
      BY <1>0, <3>1 DEF Filed
    <3>3. a[pos] = q
      BY <1>4 DEF Collides
    <3>4. Place(m, L, p) # pos /\ Place(m, L, p) \in Pages
      BY <1>2, <3>1, <3>2, <3>3
    <3> QED
      BY <1>11, <3>2, <3>4
  <2> QED
    BY <2>1, <2>2
<1>19. ASSUME NEW p \in K \cap met PROVE b[Place(m, K, p)] = p
  <2>1. k1[Place(m, L, p)] = p
    BY <1>18
  <2>2. PICK k \in Pages : k = Place(m, L, p) /\ k < u
    BY <1>2
  <2>3. CASE m[p].inode <= i
    BY <1>9, <1>15, <2>1, <2>2, <2>3
  <2>4. CASE ~(m[p].inode <= i)
    <3>1. Place(m, K, p) = k - 1 /\ end <= k
      BY <1>9, <2>2, <2>4
    <3>2. PICK j \in Pages : j = k - 1 /\ end - 1 <= j /\ j + 1 < free /\ j + 1 = k
      BY <1>2, <1>4, <1>10, <1>12, <2>2, <3>1, SizesAssumption DEF Pages
    <3>3. b[j] = k1[k]
      BY <1>15, <3>2
    <3> QED
      BY <2>1, <2>2, <3>1, <3>2, <3>3
  <2> QED
    BY <2>3, <2>4
<1>20. ASSUME NEW k \in Pages, k < u, k1[k] # Unset
       PROVE  k1[k] \in K \cap met /\ Place(m, L, k1[k]) = k
  <2>1. CASE k = pos
    BY <1>3, <1>5, <1>11, <1>16, <2>1
  <2>2. CASE k # pos
    <3>1. a[k] \in L \cap Used(n) /\ Place(m, L, a[k]) = k /\ k1[k] = a[k]
      BY <1>0, <1>11, <1>20, <2>2 DEF Filed
    <3>2. a[k] # x
      BY <1>5, <2>2, <3>1
    <3> QED
      BY <1>16, <3>1, <3>2
  <2> QED
    BY <2>1, <2>2
<1>21. ASSUME NEW k \in Pages, k < u - 1, b[k] # Unset
       PROVE  b[k] \in K \cap met /\ Place(m, K, b[k]) = k
  <2>1. k < u /\ k \in Nat
    BY <1>2, <1>12, <1>21
  <2>2. CASE k < end - 1
    <3>1. b[k] = k1[k]
      BY <1>15, <2>2
    <3>2. b[k] \in K \cap met /\ Place(m, L, b[k]) = k
      BY <1>20, <1>21, <2>1, <3>1
    <3>3. m[b[k]].inode <= i
      <4>1. ~(end <= k)
        BY <1>10, <2>1, <2>2
      <4> QED
        BY <1>9, <3>2, <4>1
    <3> QED
      BY <1>9, <3>2, <3>3
  <2>3. CASE ~(k < end - 1)
    <3>1. end - 1 <= k /\ k + 1 < free /\ k + 1 < u
      BY <1>2, <1>10, <1>21, <2>1, <2>3
    <3>2. k + 1 \in Pages /\ b[k] = k1[k + 1]
      BY <1>15, <3>1
    <3>3. b[k] \in K \cap met /\ Place(m, L, b[k]) = k + 1
      BY <1>20, <1>21, <3>1, <3>2
    <3>4. ~(m[b[k]].inode <= i)
      <4>1. ~(k + 1 < end - 1)
        BY <1>10, <2>1, <3>1
      <4> QED
        BY <1>9, <3>3, <4>1
    <3>5. Place(m, K, b[k]) = (k + 1) - 1
      BY <1>9, <3>3, <3>4
    <3> QED
      BY <2>1, <3>3, <3>5
  <2> QED
    BY <2>2, <2>3
<1>22. ASSUME NEW p \in met \ K PROVE \E k \in Pages : u - 1 <= k /\ k < free /\ b[k] = p
  <2>1. CASE p = x
    <3>1. u - 1 <= free - 1 /\ free - 1 < free
      BY <1>2
    <3> QED
      BY <1>15, <2>1, <3>1
  <2>2. CASE p # x
    <3>1. p \in Used(n) \ L
      BY <1>3, <1>16, <2>2
    <3>2. PICK k \in Pages : u <= k /\ k < free /\ a[k] = p
      BY <1>0, <3>1 DEF Filed
    <3>3. k1[k] = p
      BY <1>11, <1>12, <3>2
    <3>4. PICK j \in Pages : j = k - 1 /\ u - 1 <= j /\ j < free /\ end - 1 <= j /\ j + 1 < free /\ j + 1 = k
      BY <1>2, <1>4, <1>10, <1>12, <3>2, SizesAssumption DEF Pages
    <3>5. b[j] = p
      BY <1>15, <3>3, <3>4
    <3> QED
      BY <3>4, <3>5
  <2> QED
    BY <2>1, <2>2
<1>23. ASSUME NEW k \in Pages, u - 1 <= k, k < free PROVE b[k] \in met \ K
  <2>1. CASE k = free - 1
    BY <1>15, <1>16, <2>1
  <2>2. CASE k # free - 1
    <3>1. end - 1 <= k /\ k + 1 < free /\ u <= k + 1
      BY <1>2, <1>10, <1>12, <1>23, <2>2
    <3>2. k + 1 \in Pages /\ b[k] = k1[k + 1]
      BY <1>15, <3>1
    <3>3. k1[k + 1] = a[k + 1]
      BY <1>11, <1>12, <3>1, <3>2
    <3>4. a[k + 1] \in Used(n) \ L
      BY <1>0, <3>1, <3>2 DEF Filed
    <3> QED
      BY <1>16, <3>2, <3>3, <3>4
  <2> QED
    BY <2>1, <2>2
<1>24. Filed(m, n + 1, K, b, u - 1, free)
  <2> HIDE DEF K
  <2> QED
    BY <1>15, <1>17, <1>19, <1>21, <1>22, <1>23 DEF Filed
<1> QED
  BY <1>10, <1>14, <1>15, <1>24
-----------------------------------------------------------------------------
\* A list in which every page occurs has each of them once.
LEMMA OnceEach ==
  ASSUME NEW a \in [Pages -> Pages], \A p \in Pages : \E k \in Pages : a[k] = p
  PROVE  Listed(a)
<1>1. SUFFICES ASSUME NEW j \in Pages, NEW k \in Pages, a[j] = a[k], j # k PROVE FALSE
  BY DEF Listed
<1>2. IsFiniteSet(Pages)
  BY SizesAssumption, FS_Interval DEF Pages
<1>3. IsFiniteSet(Pages \ {j}) /\ Cardinality(Pages \ {j}) < Cardinality(Pages)
  <2>1. Cardinality(Pages) \in Nat /\ Cardinality(Pages \ {j}) = Cardinality(Pages) - 1
        /\ IsFiniteSet(Pages \ {j})
    BY <1>2, FS_CardinalityType, FS_RemoveElement
  <2> QED
    BY <2>1
<1>4. \A p \in Pages : \E l \in Pages \ {j} : a[l] = p
  BY <1>1
<1> DEFINE f == [p \in Pages |-> CHOOSE l \in Pages \ {j} : a[l] = p]
<1>5. \A p \in Pages : f[p] \in Pages \ {j} /\ a[f[p]] = p
  BY <1>4
<1>6. f \in [Pages -> Pages \ {j}]
  BY <1>5
<1> HIDE DEF f
<1>7. \E p, q \in Pages : p # q /\ f[p] = f[q]
  BY <1>2, <1>3, <1>6, FS_PigeonHole
<1> QED
  BY <1>5, <1>7

\* When the loop has ended, every place has its page, ...
LEMMA Complement ==
  ASSUME NEW m, NEW L, NEW a, NEW u, NEW free,
         Kept(m, PageCnt, L), Filed(m, PageCnt, L, a, u, free)
  PROVE  /\ u \in 0..PageCnt /\ L \subseteq Pages /\ m \in [Pages -> AnyPage]
         /\ \A p \in L : Chosen(m, p) /\ Place(m, L, p) \in Used(u) /\ a[Place(m, L, p)] = p
         /\ \A k \in Used(u) : a[k] \in L /\ Place(m, L, a[k]) = k
         /\ \A k \in Pages : k >= u => a[k] \in Pages \ L
         /\ Listed(a)
<1>0. /\ u \in Nat /\ free \in Nat /\ u <= free /\ free <= PageCnt
      /\ m \in [Pages -> AnyPage] /\ L \subseteq Pages
      /\ \A p \in L : Place(m, L, p) \in Pages /\ Place(m, L, p) < u
  BY FiledFacts
<1>1. Used(PageCnt) = Pages /\ PageCnt \in Nat /\ IsFiniteSet(Pages) /\ Cardinality(Pages) = PageCnt
  <2>1. PageCnt \in Nat /\ \A k \in Pages : k < PageCnt
    BY SizesAssumption DEF Pages
  <2> QED
    BY <2>1, FS_Interval DEF Used, Pages
<1>2. u \in 0..PageCnt /\ free = PageCnt
  <2>1. L \cup Used(PageCnt) = Pages
    BY <1>0, <1>1
  <2>2. free = Cardinality(L \cup Used(PageCnt))
    BY Zenon DEF Filed
  <2>3. free = PageCnt
    BY <1>1, <2>1, <2>2, Zenon
  <2> QED
    BY <1>0, <1>1, <2>3
<1>3. \A p \in L : a[Place(m, L, p)] = p /\ Place(m, L, p) \in Used(u)
  BY <1>0, <1>1 DEF Filed, Used
<1>4. \A p \in Pages : p # Unset
  BY UnsetAssumption DEF Pages
<1>5. ASSUME NEW k \in Used(u), a[k] = Unset PROVE FALSE
  <2>1. IsFiniteSet(Used(u)) /\ Cardinality(Used(u)) = u
    <3>1. Used(u) = 0..(u - 1)
      <4>1. \A l \in Used(u) : l \in Nat /\ l < u
        BY <1>2, UsedFacts
      <4>2. \A l \in Nat : l < u => l \in Used(u)
        BY <1>2, UsedFacts
      <4>3. \A l : l \in 0..(u - 1) <=> l \in Nat /\ l < u
        BY <1>0
      <4> QED
        BY <4>1, <4>2, <4>3
    <3> QED
      BY <1>0, <3>1, FS_Interval
  <2>2. PICK T : T = Used(u) \ {k}
    OBVIOUS
  <2>3. IsFiniteSet(T) /\ Cardinality(T) < u
    BY <1>0, <2>1, <2>2, FS_RemoveElement
  <2> DEFINE f == [p \in L |-> Place(m, L, p)]
  <2>4. \A p \in L : f[p] \in T
    BY <1>0, <1>3, <1>4, <1>5, <2>2
  <2>5. f \in [L -> T] /\ \A p \in L : f[p] = Place(m, L, p)
    BY <2>4
  <2> HIDE DEF f
  <2>6. IsFiniteSet(L) /\ Cardinality(L) = u
    BY <1>0, Counts DEF Filed
  <2>7. \E p, q \in L : p # q /\ f[p] = f[q]
    BY <2>3, <2>5, <2>6, FS_PigeonHole
  <2> QED
    BY <1>3, <2>5, <2>7
<1>6. \A k \in Used(u) : a[k] \in L /\ Place(m, L, a[k]) = k
  BY <1>5 DEF Filed, Used
<1>7. \A k \in Pages : k >= u => a[k] \in Pages \ L
  <2>1. \A k \in Pages : k < free /\ (k >= u => u <= k)
    BY <1>0, <1>2, SizesAssumption DEF Pages
  <2> QED
    BY <1>1, <2>1 DEF Filed
<1>8. Listed(a)
  <2>1. a \in [Pages -> Pages]
    <3>1. \A k \in Pages : a[k] \in Pages
      <4>1. \A k \in Pages : k \in Used(u) \/ k >= u
        BY <1>0 DEF Pages, Used
      <4> QED
        BY <1>0, <1>6, <1>7, <4>1
    <3> QED
      BY <3>1 DEF Filed
  <2>2. ASSUME NEW p \in Pages PROVE \E k \in Pages : a[k] = p
    <3>1. CASE p \in L
      BY <1>0, <1>3, <3>1
    <3>2. CASE p \notin L
      BY <1>1, <3>2 DEF Filed
    <3> QED
      BY <3>1, <3>2
  <2> QED
    BY <2>1, <2>2, OnceEach
<1>9. ASSUME NEW p \in L PROVE Chosen(m, p)
  <2>1. m[p].fcs /\ p \in Pages
    BY DEF Kept, Valid
  <2>2. ASSUME NEW q \in Pages, m[q].fcs, SamePage(m[q], m[p]) PROVE m[q].seq <= m[p].seq
    <3>1. m[q].seq \in Int /\ m[p].seq \in Int
      BY <1>0, <2>1, PageFields
    <3>2. CASE q \in L
      <4>1. q = p
        BY <1>0, <1>1, <2>2, <3>2 DEF Kept
      <4> QED
        BY <3>1, <4>1
    <3>3. CASE q \notin L
      <4>1. q \in Valid(m)
        BY <2>2 DEF Valid
      <4>2. PICK r \in L : SamePage(m[q], m[r]) /\ m[q].seq < m[r].seq
        BY <3>3, <4>1 DEF Kept
      <4>3. SamePage(m[r], m[p])
        BY <2>2, <4>2 DEF SamePage
      <4>4. r = p
        BY <1>0, <1>1, <4>2, <4>3 DEF Kept
      <4> QED
        BY <3>1, <4>2, <4>4
    <3> QED
      BY <3>2, <3>3
  <2> QED
    BY <2>1, <2>2 DEF Chosen, SamePage
<1> QED
  BY <1>0, <1>2, <1>3, <1>6, <1>7, <1>8, <1>9

\* ... and the array is as the file system keeps it.
LEMMA Arranged ==
  ASSUME NEW m, NEW L, NEW a, NEW u, NEW free, NEW h, h = InOrder(m, a),
         Kept(m, PageCnt, L), Filed(m, PageCnt, L, a, u, free), Whole(m)
  PROVE  /\ Listed(a) /\ ArrayOK(h, u)
         /\ \A k \in Used(u) : h[k].pgoff > 0 => h[k].data # <<>>
         /\ SumFunctionOnSet(Sizes(h), Used(u)) = SumFunctionOnSet(Sizes(m), L)
<1>0. /\ u \in 0..PageCnt /\ L \subseteq Pages /\ m \in [Pages -> AnyPage]
      /\ \A p \in L : Chosen(m, p) /\ Place(m, L, p) \in Used(u) /\ a[Place(m, L, p)] = p
      /\ \A k \in Used(u) : a[k] \in L /\ Place(m, L, a[k]) = k
      /\ \A k \in Pages : k >= u => a[k] \in Pages \ L
      /\ Listed(a)
  BY Complement
<1>1. h \in [Pages -> AnyPage] /\ Distinct(h) /\ \A k \in Pages : h[k] = m[a[k]]
  BY <1>0, Reorder DEF Kept
<1>2. /\ Used(u) \subseteq Pages /\ IsFiniteSet(Used(u))
      /\ \A k \in Used(u) : k \in Nat /\ k \in Pages /\ h[k] = m[a[k]] /\ h[k].pgoff \in Nat
  <2>1. /\ Used(u) \subseteq Pages /\ IsFiniteSet(Used(u)) /\ \A k \in Used(u) : k \in Nat
    BY <1>0, UsedFacts
  <2> QED
    BY <1>1, <2>1, PageFields
<1>3. Complete(m, L)
  BY DEF Kept
<1>4. \A k \in Used(u) : h[k].fcs
  BY <1>0, <1>2 DEF Chosen
<1>5. ASSUME NEW j \in Used(u), NEW k \in Used(u), j < k PROVE Before(h[j], h[k])
  <2>1. PICK p \in L, q \in L : /\ p = a[j] /\ q = a[k]
                                /\ Place(m, L, p) = j /\ Place(m, L, q) = k
    BY <1>0
  <2>2. ~SamePage(m[p], m[q]) /\ ~Before(m[q], m[p])
    <3>1. j \in Nat /\ k \in Nat
      BY <1>2
    <3>2. SamePage(m[p], m[q]) => j = k
      BY <1>3, <2>1, PlaceOrder
    <3>3. Before(m[q], m[p]) => k < j
      BY <1>3, <2>1, PlaceOrder
    <3> QED
      BY <1>5, <3>1, <3>2, <3>3
  <2>3. m[p].inode \in Nat /\ m[q].inode \in Nat /\ m[p].pgoff \in Nat /\ m[q].pgoff \in Nat
    BY <1>3, PlaceFacts
  <2>4. Before(m[p], m[q])
    BY <2>2, <2>3 DEF SamePage, Before
  <2> QED
    BY <1>2, <2>1, <2>4
<1>6. ASSUME NEW k \in Used(u), h[k].pgoff > 0
      PROVE  /\ k > 0 /\ h[k - 1].inode = h[k].inode /\ h[k].pgoff = h[k - 1].pgoff + 1
             /\ Len(h[k - 1].data) = DataSize /\ h[k].data # <<>>
  <2>1. PICK p \in L : p = a[k] /\ Place(m, L, p) = k /\ h[k] = m[p]
    BY <1>0, <1>2
  <2>2. PICK off \in Nat : off + 1 = m[p].pgoff /\ off < m[p].pgoff
    <3>1. m[p].pgoff \in Nat /\ m[p].pgoff > 0
      BY <1>2, <1>6, <2>1
    <3>2. m[p].pgoff - 1 \in Nat /\ (m[p].pgoff - 1) + 1 = m[p].pgoff /\ m[p].pgoff - 1 < m[p].pgoff
      BY <3>1
    <3> QED
      BY <3>2
  <2>3. PICK q \in L : m[q].inode = m[p].inode /\ m[q].pgoff = off
    BY <1>3, <2>2 DEF Complete
  <2>4. PICK low \in Nat : low = Cardinality(Lower(m, L, m[p].inode))
    BY <1>0, Counts
  <2>5. Place(m, L, q) = low + off /\ k = low + (off + 1)
    BY <2>1, <2>2, <2>3, <2>4 DEF Place
  <2>6. k > 0 /\ Place(m, L, q) = k - 1
    BY <1>2, <2>5
  <2>7. a[k - 1] = q /\ k - 1 \in Used(u) /\ h[k - 1] = m[q]
    BY <1>0, <1>2, <2>6
  <2>8. Chosen(m, p) /\ Chosen(m, q) /\ p \in Pages /\ q \in Pages
    BY <1>0
  <2>9. m[p].inode = m[q].inode /\ m[p].pgoff = m[q].pgoff + 1
    BY <2>2, <2>3
  <2>10. Len(m[q].data) = DataSize /\ m[p].data # <<>>
    BY <2>8, <2>9 DEF Whole
  <2> QED
    BY <2>1, <2>6, <2>7, <2>9, <2>10
<1>7. ASSUME NEW k \in Pages, k >= u, h[k].fcs
      PROVE  \E j \in Used(u) : SamePage(h[k], h[j]) /\ h[k].seq < h[j].seq
  <2>1. a[k] \in Pages \ L /\ h[k] = m[a[k]]
    BY <1>0, <1>1, <1>7
  <2>2. a[k] \in Valid(m)
    BY <1>7, <2>1 DEF Valid
  <2>3. PICK q \in L : SamePage(m[a[k]], m[q]) /\ m[a[k]].seq < m[q].seq
    BY <2>1, <2>2 DEF Kept
  <2>4. Place(m, L, q) \in Used(u) /\ h[Place(m, L, q)] = m[q]
    BY <1>0, <1>2
  <2> QED
    BY <2>1, <2>3, <2>4
<1>8. ArrayOK(h, u)
  <2>1. Ordered(h, u)
    BY <1>4, <1>5 DEF Ordered
  <2>2. Linked(h, u)
    BY <1>6 DEF Linked
  <2>3. Superseded(h, u)
    BY <1>7 DEF Superseded
  <2> QED
    BY <1>0, <1>1, <2>1, <2>2, <2>3 DEF ArrayOK
<1>9. SumFunctionOnSet(Sizes(h), Used(u)) = SumFunctionOnSet(Sizes(m), L)
  <2>1. {a[k] : k \in Used(u)} = L
    BY <1>0
  <2>2. \A j, k \in Used(u) : a[j] = a[k] => j = k
    BY <1>0
  <2>3. \A k \in Used(u) : Sizes(h)[k] \in Int /\ Sizes(h)[k] = Sizes(m)[a[k]]
    <3>1. \A k \in Used(u) : Sizes(h)[k] \in Int /\ Sizes(h)[k] = Len(h[k].data)
      BY <1>1, <1>2, SizesFacts
    <3>2. \A k \in Used(u) : a[k] \in Pages /\ Sizes(m)[a[k]] = Len(m[a[k]].data)
      BY <1>0, SizesFacts
    <3> QED
      BY <1>2, <3>1, <3>2
  <2>4. SumFunctionOnSet(Sizes(m), {a[k] : k \in Used(u)}) = SumFunctionOnSet(Sizes(h), Used(u))
    BY <1>2, <2>2, <2>3, SumImage
  <2> QED
    BY <2>1, <2>4
<1> QED
  BY <1>0, <1>6, <1>8, <1>9
-----------------------------------------------------------------------------
\* The state of the loop of fillPageArray() after n turns.
ScanState == [filelen : [Inodes -> Nat], start : Nat, free : Nat, bytes : Int,
              array : [Pages -> Pages \cup {Unset}], asserts : {TRUE}]

Scanning(filelen, start, free, bytes, array, asserts) ==
  [filelen |-> filelen, start |-> start, free |-> free, bytes |-> bytes,
   array |-> array, asserts |-> asserts]

\* Pages taken out of the count of a file.
OneLess(filelen, i) == [filelen EXCEPT ![i] = @ - 1]

Lengths(m, L) == [i \in Inodes |-> Cardinality(Mine(m, L, i))]

ScannedWith(m, n, s, L) ==
  /\ s \in ScanState /\ s.filelen = Lengths(m, L)
  /\ s.bytes = DataSize * PageCnt - SumFunctionOnSet(Sizes(m), L)
  /\ Kept(m, n, L) /\ Filed(m, n, L, s.array, s.start, s.free)

Scanned(m, n, s) == \E L : ScannedWith(m, n, s, L)

\* What the device answers.
Answers(m) == m \in [Pages -> AnyPage] /\ \A p \in Pages : BlockRead(dev, p) = m[p]

\* The fields of the state of a scan.
LEMMA ScanFields ==
  ASSUME NEW s \in ScanState
  PROVE  /\ s = Scanning(s.filelen, s.start, s.free, s.bytes, s.array, s.asserts)
         /\ s.filelen \in [Inodes -> Nat] /\ s.start \in Nat /\ s.free \in Nat /\ s.bytes \in Int
         /\ s.array \in [Pages -> Pages \cup {Unset}] /\ s.asserts = TRUE
BY DEF ScanState, Scanning

Consists(t, filelen, start, free, bytes, array) ==
  /\ t \in ScanState
  /\ t.filelen = filelen /\ t.start = start /\ t.free = free /\ t.bytes = bytes
  /\ t.array = array

\* A state made of such fields.
LEMMA ScanningState ==
  ASSUME NEW filelen \in [Inodes -> Nat], NEW start \in Nat, NEW free \in Nat, NEW bytes \in Int,
         NEW array \in [Pages -> Pages \cup {Unset}], NEW ok, ok = TRUE
  PROVE  Consists(Scanning(filelen, start, free, bytes, array, ok),
                  filelen, start, free, bytes, array)
BY DEF ScanState, Scanning, Consists

\* The lengths of files, summed by countPages(), give the place of a page.
LEMMA CountValue ==
  ASSUME NEW m, NEW n, NEW s, NEW L, ScannedWith(m, n, s, L), NEW p \in L
  PROVE  /\ CountPages(s.filelen, m[p].inode) = Cardinality(Lower(m, L, m[p].inode))
         /\ CountPages(s.filelen, m[p].inode) + m[p].pgoff = Place(m, L, p)
         /\ m[p].inode \in Inodes /\ p \in Pages
         /\ s.filelen[m[p].inode] = Cardinality(Mine(m, L, m[p].inode))
<1>0. L \subseteq Pages /\ m \in [Pages -> AnyPage] /\ \A q \in L : m[q].fcs /\ m[q].inode \in Inodes
  BY DEF ScannedWith, Kept, Complete, Distinct, Valid
<1>1. PICK i \in Inodes : i = m[p].inode
  BY <1>0
<1>2. i \in Nat
  BY InodesAssumption
<1> DEFINE c == [q \in L |-> m[q].inode]
<1>3. \A q \in L : c[q] = m[q].inode /\ c[q] \in Inodes
  BY <1>0
<1> HIDE DEF c
<1>4. \A j : Class(L, c, j) = Mine(m, L, j) /\ Under(L, c, j) = Lower(m, L, j)
  BY <1>3 DEF Mine, Lower, Class, Under
<1>5. \A j \in Inodes : s.filelen[j] = Cardinality(Mine(m, L, j))
  BY DEF ScannedWith, Lengths
<1>6. \A j \in Inodes : s.filelen[j] = Cardinality(Class(L, c, j))
  BY <1>4, <1>5
<1>7. IsFiniteSet(L)
  BY <1>0, Counts
<1>8. SumFunctionOnSet(s.filelen, Smaller(Inodes, i)) = Cardinality(Under(L, c, i))
  <2>1. PICK w : w = s.filelen
    OBVIOUS
  <2>2. \A q \in L : c[q] \in Inodes
    BY <1>3
  <2>3. \A j \in Inodes : w[j] = Cardinality(Class(L, c, j))
    BY <1>6, <2>1
  <2>4. SumFunctionOnSet(w, Smaller(Inodes, i)) = Cardinality(Under(L, c, i))
    BY <1>2, <1>7, <2>2, <2>3, InodesAssumption, CountByClass
  <2> QED
    BY <2>1, <2>4
<1>9. CountPages(s.filelen, i) = Cardinality(Lower(m, L, i))
  BY <1>4, <1>8 DEF CountPages, Smaller
<1> QED
  BY <1>0, <1>1, <1>5, <1>9 DEF Place

\* The three outcomes of a turn.
LEMMA FillBad ==
  ASSUME NEW m, Answers(m), NEW s \in ScanState, NEW n \in Pages, ~m[n].fcs
  PROVE  FillPage(s, n) = Scanning(s.filelen, s.start, s.free + 1, s.bytes,
                                   Put(s.array, s.free, n), s.array[s.free] = Unset)
<1>1. s = Scanning(s.filelen, s.start, s.free, s.bytes, s.array, s.asserts) /\ s.asserts = TRUE
      /\ s.array \in [Pages -> Pages \cup {Unset}]
  BY ScanFields
<1>2. BlockRead(dev, n) = m[n]
  BY DEF Answers
<1> QED
  BY <1>1, <1>2 DEF FillPage, Scanning, Put

\* fillPageArray() on the first copy of a page.
LEMMA FillFirst ==
  ASSUME NEW m, Answers(m), NEW s \in ScanState, NEW n \in Pages, m[n].fcs,
         NEW pos \in Pages, pos = CountPages(s.filelen, m[n].inode) + m[n].pgoff,
         s.array[pos] = Unset
  PROVE  FillPage(s, n) = Scanning(s.filelen, s.start, s.free, s.bytes, Put(s.array, pos, n), TRUE)
<1>1. s = Scanning(s.filelen, s.start, s.free, s.bytes, s.array, s.asserts) /\ s.asserts = TRUE
      /\ s.array \in [Pages -> Pages \cup {Unset}]
  BY ScanFields
<1>2. BlockRead(dev, n) = m[n]
  BY DEF Answers
<1> QED
  BY <1>1, <1>2 DEF FillPage, Scanning, Put

\* Copy q is in the way of page n: x is given up, y stays.
InTheWay(m, n, s, pos, q, x, y, end) ==
  /\ m[n].fcs /\ pos \in Pages /\ q \in Pages /\ q = s.array[pos] /\ q # Unset
  /\ pos = CountPages(s.filelen, m[n].inode) + m[n].pgoff
  /\ end = CountPages(s.filelen, m[n].inode) + s.filelen[m[n].inode]
  /\ IF m[n].seq > m[q].seq THEN x = q /\ y = n ELSE x = n /\ y = q

Sound(m, n, q, k1, end, free) ==
  /\ m[q].fcs /\ SamePage(m[n], m[q]) /\ m[n].seq # m[q].seq
  /\ MovePages(k1, end)[free - 1] = Unset

\* The last branch of FillPage.
Second(s, page, start, pos, hdr, prv) ==
  LET newer == hdr.seq > prv.seq
      moved == MovePages(KeepNewer(s.array, pos, page, newer), start + s.filelen[hdr.inode])
  IN [s EXCEPT
        !.asserts = /\ @
                    /\ prv.fcs /\ hdr.inode = prv.inode /\ hdr.pgoff = prv.pgoff /\ hdr.seq # prv.seq
                    /\ moved[s.free - 1] = Unset,
        !.bytes = @ + Len(IF newer THEN prv.data ELSE hdr.data),
        !.filelen[hdr.inode] = @ - 1,
        !.start = @ - 1,
        !.array = [moved EXCEPT ![s.free - 1] = IF newer THEN s.array[pos] ELSE page]]

\* fillPageArray() on the second one.
LEMMA FillSecond ==
  ASSUME NEW m, Answers(m), NEW s \in ScanState, NEW n \in Pages,
         NEW pos, NEW q, NEW x, NEW y, NEW end, InTheWay(m, n, s, pos, q, x, y, end),
         NEW k1, k1 = Takes(s.array, pos, y)
  PROVE  FillPage(s, n) =
           Scanning(OneLess(s.filelen, m[n].inode), s.start - 1, s.free,
                    s.bytes + Len(m[x].data), Gives(k1, end, s.free, x),
                    Sound(m, n, q, k1, end, s.free))
<1>0. s = Scanning(s.filelen, s.start, s.free, s.bytes, s.array, s.asserts) /\ s.asserts = TRUE
      /\ s.array \in [Pages -> Pages \cup {Unset}]
  BY ScanFields
<1>1. PICK start, hdr, prv :
        start = CountPages(s.filelen, hdr.inode) /\ hdr = BlockRead(dev, n) /\ prv = BlockRead(dev, q)
  OBVIOUS
<1>2. hdr = m[n] /\ prv = m[q]
  BY <1>1 DEF Answers, InTheWay
<1>3. /\ hdr.fcs /\ pos \in Pages /\ q # Unset /\ q = s.array[pos]
      /\ pos = start + hdr.pgoff /\ end = start + s.filelen[hdr.inode]
      /\ IF hdr.seq > prv.seq THEN x = q /\ y = n ELSE x = n /\ y = q
  BY <1>1, <1>2 DEF InTheWay
<1>4. FillPage(s, n) = Second(s, n, start, pos, hdr, prv)
  <2>1. PICK h : h = BlockRead(dev, n)
    OBVIOUS
  <2>2. h.fcs /\ CountPages(s.filelen, h.inode) + h.pgoff \in Pages
        /\ s.array[CountPages(s.filelen, h.inode) + h.pgoff] # Unset
    BY <1>1, <1>3, <2>1
  <2>3. FillPage(s, n) =
          Second(s, n, CountPages(s.filelen, h.inode), CountPages(s.filelen, h.inode) + h.pgoff,
                 h, BlockRead(dev, s.array[CountPages(s.filelen, h.inode) + h.pgoff]))
    BY <2>1, <2>2, Zenon DEF FillPage, Second
  <2> QED
    BY <1>1, <1>3, <2>1, <2>3
<1>5. KeepNewer(s.array, pos, n, hdr.seq > prv.seq) = k1
  <2>1. CASE hdr.seq > prv.seq
    BY <1>3, <2>1 DEF KeepNewer, Takes, Put
  <2>2. CASE ~(hdr.seq > prv.seq)
    <3>1. k1 = [s.array EXCEPT ![pos] = s.array[pos]]
      BY <1>3, <2>2 DEF Takes, Put
    <3>2. k1 = s.array
      BY <1>0, <3>1
    <3> QED
      BY <2>2, <3>2 DEF KeepNewer
  <2> QED
    BY <2>1, <2>2
<1>6. PICK moved : moved = MovePages(k1, end)
  OBVIOUS
<1>7. PICK good : good = (/\ prv.fcs /\ hdr.inode = prv.inode
                          /\ hdr.pgoff = prv.pgoff /\ hdr.seq # prv.seq
                          /\ moved[s.free - 1] = Unset)
  OBVIOUS
<1>8. PICK len, gone : /\ len = Len(IF hdr.seq > prv.seq THEN prv.data ELSE hdr.data)
                       /\ gone = IF hdr.seq > prv.seq THEN s.array[pos] ELSE n
  OBVIOUS
<1>9. len = Len(m[x].data) /\ gone = x
  BY <1>2, <1>3, <1>8
<1>10. Second(s, n, start, pos, hdr, prv) =
         [s EXCEPT !.asserts = @ /\ good, !.bytes = @ + len, !.filelen[hdr.inode] = @ - 1,
                   !.start = @ - 1, !.array = [moved EXCEPT ![s.free - 1] = gone]]
  <2>1. Second(s, n, start, pos, hdr, prv) =
         [s EXCEPT !.asserts = /\ @ /\ prv.fcs /\ hdr.inode = prv.inode /\ hdr.pgoff = prv.pgoff
                               /\ hdr.seq # prv.seq /\ moved[s.free - 1] = Unset,
                   !.bytes = @ + len, !.filelen[hdr.inode] = @ - 1,
                   !.start = @ - 1, !.array = [moved EXCEPT ![s.free - 1] = gone]]
    <3>1. PICK mm : mm = MovePages(KeepNewer(s.array, pos, n, hdr.seq > prv.seq),
                                   start + s.filelen[hdr.inode])
      OBVIOUS
    <3>2. mm = moved
      BY <1>3, <1>5, <1>6, <3>1
    <3> QED
      BY <1>8, <3>1, <3>2, Zenon DEF Second
  <2>2. good \in BOOLEAN
    BY <1>7
  <2> QED
    BY <1>0, <1>7, <2>1, <2>2
<1>11. PICK fl, g : fl = [s.filelen EXCEPT ![hdr.inode] = @ - 1] /\ g = Gives(k1, end, s.free, x)
  OBVIOUS
<1>12. g = [moved EXCEPT ![s.free - 1] = gone]
  BY <1>6, <1>9, <1>11 DEF Gives, Put
<1>13. FillPage(s, n) =
         [s EXCEPT !.asserts = @ /\ good, !.bytes = @ + len, !.filelen = fl,
                   !.start = @ - 1, !.array = g]
  BY <1>4, <1>10, <1>11, <1>12
<1>14. (TRUE /\ good) = good
  BY <1>7
<1>15. FillPage(s, n) = Scanning(fl, s.start - 1, s.free, s.bytes + len, g, good)
  BY <1>0, <1>13, <1>14 DEF Scanning
<1>16. good = Sound(m, n, q, k1, end, s.free)
  BY <1>2, <1>6, <1>7 DEF Sound, SamePage
<1>17. fl = OneLess(s.filelen, m[n].inode)
  BY <1>2, <1>11 DEF OneLess
<1> QED
  BY <1>9, <1>11, <1>15, <1>16, <1>17
-----------------------------------------------------------------------------
\* A turn of the loop keeps what the proof says of its state.
LEMMA TurnBad ==
  ASSUME NEW m, Answers(m), NEW n \in Pages, NEW s, NEW L, ScannedWith(m, n, s, L), ~m[n].fcs
  PROVE  Scanned(m, n + 1, FillPage(s, n))
<1>0. s \in ScanState /\ Kept(m, n, L) /\ Filed(m, n, L, s.array, s.start, s.free)
  BY DEF ScannedWith
<1>1. /\ s.filelen \in [Inodes -> Nat] /\ s.start \in Nat /\ s.free \in Nat /\ s.bytes \in Int
      /\ s.array \in [Pages -> Pages \cup {Unset}]
  BY <1>0, ScanFields
<1>2. /\ s.free \in Pages /\ s.array[s.free] = Unset
      /\ Kept(m, n + 1, L) /\ Filed(m, n + 1, L, Put(s.array, s.free, n), s.start, s.free + 1)
  BY <1>0, FiledBad
<1>3. PICK a : a = Put(s.array, s.free, n)
  OBVIOUS
<1>4. PICK ok : ok = (s.array[s.free] = Unset)
  OBVIOUS
<1>5. PICK t : t = Scanning(s.filelen, s.start, s.free + 1, s.bytes, a, ok)
  OBVIOUS
<1>6. FillPage(s, n) = t
  BY <1>0, <1>3, <1>4, <1>5, FillBad
<1>7. Consists(t, s.filelen, s.start, s.free + 1, s.bytes, a)
  <2>1. ok = TRUE
    BY <1>2, <1>4
  <2>2. a \in [Pages -> Pages \cup {Unset}] /\ s.free + 1 \in Nat
    BY <1>1, <1>2, <1>3 DEF Put
  <2> QED
    BY <1>1, <1>5, <2>1, <2>2, ScanningState
<1>8. ScannedWith(m, n + 1, t, L)
  BY <1>2, <1>3, <1>7 DEF ScannedWith, Consists
<1> QED
  BY <1>6, <1>8 DEF Scanned

\* One turn of fillPageArray(): the first copy of a page, ...
LEMMA TurnFirst ==
  ASSUME NEW m, Answers(m), NEW n \in Pages, NEW s, NEW L, ScannedWith(m, n, s, L), m[n].fcs,
         s.array[Place(m, L, n)] = Unset
  PROVE  Scanned(m, n + 1, FillPage(s, n))
<1>0. s \in ScanState /\ Kept(m, n, L) /\ Filed(m, n, L, s.array, s.start, s.free)
  BY DEF ScannedWith
<1>1. /\ s.filelen \in [Inodes -> Nat] /\ s.start \in Nat /\ s.free \in Nat /\ s.bytes \in Int
      /\ s.array \in [Pages -> Pages \cup {Unset}]
  BY <1>0, ScanFields
<1>2. n \in L
  BY <1>0, NextPage DEF Kept, Valid
<1>3. PICK pos \in Pages : pos = Place(m, L, n)
  BY <1>0, <1>2, FiledFacts
<1>4. CountPages(s.filelen, m[n].inode) + m[n].pgoff = pos
  BY <1>2, <1>3, CountValue
<1>5. Kept(m, n + 1, L) /\ Filed(m, n + 1, L, Put(s.array, pos, n), s.start, s.free)
  BY <1>0, <1>3, FiledFirst
<1>6. PICK a : a = Put(s.array, pos, n)
  OBVIOUS
<1>7. PICK t : t = Scanning(s.filelen, s.start, s.free, s.bytes, a, TRUE)
  OBVIOUS
<1>8. FillPage(s, n) = t
  <2>1. s.array[pos] = Unset
    BY <1>3
  <2> QED
    BY <1>0, <1>4, <1>6, <1>7, <2>1, FillFirst
<1>9. a \in [Pages -> Pages \cup {Unset}]
  BY <1>1, <1>3, <1>6 DEF Put
<1>10. Consists(t, s.filelen, s.start, s.free, s.bytes, a)
  BY <1>1, <1>7, <1>9, ScanningState
<1>11. ScannedWith(m, n + 1, t, L)
  BY <1>5, <1>6, <1>10 DEF ScannedWith, Consists
<1> QED
  BY <1>8, <1>11 DEF Scanned

\* The sums without copy x.
LEMMA CountsOne ==
  ASSUME NEW m \in [Pages -> AnyPage], NEW L, L \subseteq Pages, NEW x \in L, m[x].inode \in Inodes
  PROVE  /\ Lengths(m, L \ {x}) = OneLess(Lengths(m, L), m[x].inode)
         /\ Lengths(m, L \ {x}) \in [Inodes -> Nat]
         /\ SumFunctionOnSet(Sizes(m), L)
              = Len(m[x].data) + SumFunctionOnSet(Sizes(m), L \ {x})
         /\ SumFunctionOnSet(Sizes(m), L \ {x}) \in Int /\ Len(m[x].data) \in Int
<1>1. L \ {x} \subseteq Pages /\ x \in Pages
  OBVIOUS
<1>2. \A i \in Inodes : /\ Cardinality(Mine(m, L \ {x}, i)) \in Nat
                        /\ Cardinality(Mine(m, L, i)) \in Nat /\ IsFiniteSet(Mine(m, L, i))
  BY <1>1, Counts
<1>3. ASSUME NEW i \in Inodes
      PROVE  Lengths(m, L \ {x})[i] = OneLess(Lengths(m, L), m[x].inode)[i]
  <2>1. PICK A : A = Mine(m, L, i)
    OBVIOUS
  <2>2. Mine(m, L \ {x}, i) = A \ {x} /\ (x \in A <=> m[x].inode = i)
    BY <2>1 DEF Mine
  <2>3. IsFiniteSet(A)
    BY <1>2, <2>1
  <2>4. /\ x \in A => Cardinality(A \ {x}) = Cardinality(A) - 1
        /\ x \notin A => Cardinality(A \ {x}) = Cardinality(A)
    BY <2>3, FS_RemoveElement
  <2> QED
    BY <2>1, <2>2, <2>4 DEF Lengths, OneLess
<1>4. Lengths(m, L \ {x}) = OneLess(Lengths(m, L), m[x].inode)
  BY <1>3 DEF Lengths, OneLess
<1>5. Lengths(m, L \ {x}) \in [Inodes -> Nat]
  BY <1>2 DEF Lengths
<1>6. IsFiniteSet(L) /\ IsFiniteSet(L \ {x})
  BY <1>1, Counts
<1>7. \A p \in L : Sizes(m)[p] \in Int
  BY SizesFacts
<1>8. Sizes(m)[x] = Len(m[x].data) /\ Sizes(m)[x] \in Int
  BY <1>1, SizesFacts
<1>9. SumFunctionOnSet(Sizes(m), L) = Sizes(m)[x] + SumFunctionOnSet(Sizes(m), L \ {x})
  BY <1>6, <1>7, SumRemove
<1>10. SumFunctionOnSet(Sizes(m), L \ {x}) \in Int
  BY <1>6, <1>7, SumType
<1> QED
  BY <1>4, <1>5, <1>8, <1>9, <1>10

\* ... the second one, ...
LEMMA TurnOne ==
  ASSUME NEW m, Answers(m), NEW n \in Pages, NEW s, NEW L, ScannedWith(m, n, s, L), m[n].fcs,
         s.array[Place(m, L, n)] # Unset
  PROVE  Scanned(m, n + 1, FillPage(s, n))
<1>0. s \in ScanState /\ Kept(m, n, L) /\ Filed(m, n, L, s.array, s.start, s.free)
  BY DEF ScannedWith
<1>1. /\ s.filelen \in [Inodes -> Nat] /\ s.start \in Nat /\ s.free \in Nat /\ s.bytes \in Int
      /\ s.array \in [Pages -> Pages \cup {Unset}]
  BY <1>0, ScanFields
<1>2. L \subseteq Pages /\ m \in [Pages -> AnyPage] /\ \A p \in L : Place(m, L, p) \in Pages
  BY <1>0, FiledFacts
<1>3. PICK q : q = s.array[Place(m, L, n)]
  OBVIOUS
<1>4. /\ n \in L \ Used(n) /\ q \in L \cap Used(n) /\ SamePage(m[q], m[n]) /\ m[q].fcs
      /\ m[q].seq \in Nat /\ m[n].seq \in Nat /\ m[q].seq # m[n].seq
  BY <1>0, <1>3, Clash
<1>5. PICK pos \in Pages : pos = Place(m, L, n)
  BY <1>2, <1>4
<1>6. PICK x, y : IF m[n].seq > m[q].seq THEN x = q /\ y = n ELSE x = n /\ y = q
  OBVIOUS
<1>7. Choice(m, n, L, q, x, y)
  <2>1. m[x].seq < m[y].seq
    BY <1>4, <1>6
  <2>2. (x = n /\ y = q) \/ (x = q /\ y = n)
    BY <1>6
  <2> QED
    BY <1>4, <2>1, <2>2 DEF Choice
<1>8. Kept(m, n + 1, L \ {x})
  BY <1>0, <1>7, KeptOne
<1>9. PICK start, i : start = CountPages(s.filelen, i) /\ i = m[n].inode
  OBVIOUS
<1>10. /\ start = Cardinality(Lower(m, L, i)) /\ start + m[n].pgoff = pos
       /\ i \in Inodes /\ s.filelen[i] = Cardinality(Mine(m, L, i))
  BY <1>4, <1>5, <1>9, CountValue
<1>11. PICK end : end = start + s.filelen[i]
  OBVIOUS
<1>12. PICK k1 : k1 = Takes(s.array, pos, y)
  OBVIOUS
<1>13. Collides(m, n, L, s.array, s.start, s.free, q, x, y, end)
  BY <1>0, <1>3, <1>7, <1>9, <1>10, <1>11 DEF Collides
<1>14. /\ s.free - 1 \in Pages /\ MovePages(k1, end)[s.free - 1] = Unset
       /\ Filed(m, n + 1, L \ {x}, Gives(k1, end, s.free, x), s.start - 1, s.free)
  BY <1>5, <1>12, <1>13, FiledOne
<1>15. PICK a : a = Gives(k1, end, s.free, x)
  OBVIOUS
<1>16. PICK ok : ok = Sound(m, n, q, k1, end, s.free)
  OBVIOUS
<1>17. ok = TRUE
  BY <1>4, <1>14, <1>16 DEF SamePage, Sound
<1>18. PICK t : t = Scanning(OneLess(s.filelen, i), s.start - 1, s.free,
                             s.bytes + Len(m[x].data), a, ok)
  OBVIOUS
<1>19. FillPage(s, n) = t
  <2>1. InTheWay(m, n, s, pos, q, x, y, end)
    <3>1. q \in Pages /\ q # Unset
      BY <1>2, <1>3, <1>4
    <3> QED
      BY <1>3, <1>5, <1>6, <1>9, <1>10, <1>11, <3>1 DEF InTheWay
  <2>2. FillPage(s, n) =
          Scanning(OneLess(s.filelen, m[n].inode), s.start - 1, s.free,
                   s.bytes + Len(m[x].data), Gives(k1, end, s.free, x),
                   Sound(m, n, q, k1, end, s.free))
    BY <1>0, <1>12, <2>1, FillSecond
  <2> QED
    BY <1>9, <1>15, <1>16, <1>18, <2>2
<1>20. x \in L /\ m[x].inode = i
  BY <1>4, <1>6, <1>9 DEF SamePage
<1>21. /\ Lengths(m, L \ {x}) = OneLess(s.filelen, i) /\ OneLess(s.filelen, i) \in [Inodes -> Nat]
       /\ s.bytes + Len(m[x].data) = DataSize * PageCnt - SumFunctionOnSet(Sizes(m), L \ {x})
       /\ s.bytes + Len(m[x].data) \in Int
  <2>1. /\ Lengths(m, L \ {x}) = OneLess(Lengths(m, L), m[x].inode)
        /\ Lengths(m, L \ {x}) \in [Inodes -> Nat]
        /\ SumFunctionOnSet(Sizes(m), L) = Len(m[x].data) + SumFunctionOnSet(Sizes(m), L \ {x})
        /\ SumFunctionOnSet(Sizes(m), L \ {x}) \in Int /\ Len(m[x].data) \in Int
    BY <1>2, <1>10, <1>20, CountsOne
  <2>2. s.filelen = Lengths(m, L) /\ s.bytes = DataSize * PageCnt - SumFunctionOnSet(Sizes(m), L)
    BY DEF ScannedWith
  <2>3. DataSize * PageCnt \in Int
    BY SizesAssumption
  <2>4. PICK all \in Int, len \in Int, rest \in Int :
          /\ all = DataSize * PageCnt /\ len = Len(m[x].data)
          /\ rest = SumFunctionOnSet(Sizes(m), L \ {x})
    BY <2>1, <2>3
  <2>5. s.bytes = all - (len + rest)
    BY <2>1, <2>2, <2>4
  <2>6. (all - (len + rest)) + len = all - rest /\ all - rest \in Int
    OBVIOUS
  <2> QED
    BY <1>20, <2>1, <2>2, <2>4, <2>5, <2>6
<1>22. a \in [Pages -> Pages \cup {Unset}] /\ s.start - 1 \in Nat
  <2>1. L \ {x} \subseteq Pages
    BY <1>2
  <2>2. Cardinality(L \ {x}) \in Nat
    BY <1>2, <2>1, Counts
  <2>3. Filed(m, n + 1, L \ {x}, a, s.start - 1, s.free)
    BY <1>14, <1>15, Zenon
  <2>4. a \in [Pages -> Pages \cup {Unset}] /\ s.start - 1 = Cardinality(L \ {x})
    BY <2>3, Zenon DEF Filed
  <2> QED
    BY <2>2, <2>4
<1>23. Consists(t, OneLess(s.filelen, i), s.start - 1, s.free, s.bytes + Len(m[x].data), a)
  BY <1>1, <1>17, <1>18, <1>21, <1>22, ScanningState
<1>24. ScannedWith(m, n + 1, t, L \ {x})
  BY <1>8, <1>14, <1>15, <1>21, <1>23 DEF ScannedWith, Consists
<1> QED
  BY <1>19, <1>24 DEF Scanned

\* ... and any page.
LEMMA Turn ==
  ASSUME NEW m, Answers(m), NEW n \in Pages, NEW s, Scanned(m, n, s)
  PROVE  Scanned(m, n + 1, FillPage(s, n))
<1>1. PICK L : ScannedWith(m, n, s, L)
  BY DEF Scanned
<1> QED
  BY <1>1, TurnBad, TurnFirst, TurnOne
-----------------------------------------------------------------------------
\* The loop begins with the counts of countDiskFilePages().
CountDisk ==
  LET valid == {p \in Pages : BlockRead(dev, p).fcs} IN
  [filelen |-> [i \in Inodes |-> Cardinality({p \in valid : BlockRead(dev, p).inode = i})],
   start |-> Cardinality(valid),
   free |-> Cardinality(valid),
   bytes |-> DataSize * PageCnt
               - SumFunctionOnSet([p \in Pages |-> Len(BlockRead(dev, p).data)], valid),
   array |-> [k \in Pages |-> Unset],
   asserts |-> \A p \in valid : Len(BlockRead(dev, p).data) <= DataSize]

\* What countDiskFilePages() counts.
LEMMA ScannedFirst ==
  ASSUME NEW m, Answers(m), Distinct(m), Whole(m)
  PROVE  Scanned(m, 0, CountDisk)
<1> DEFINE L == Valid(m)
<1>0. /\ m \in [Pages -> AnyPage] /\ L \subseteq Pages
      /\ \A p \in Pages : BlockRead(dev, p) = m[p]
  BY DEF Answers, Valid
<1>1. PICK valid : valid = {p \in Pages : BlockRead(dev, p).fcs}
  OBVIOUS
<1>2. valid = L
  BY <1>0, <1>1 DEF Valid
<1>3. Used(0) = {}
  <2>1. \A k \in Pages : ~(k < 0)
    BY DEF Pages
  <2> QED
    BY <2>1 DEF Used
<1>4. Complete(m, L)
  BY <1>0 DEF Complete, Valid, Whole
<1>5. Kept(m, 0, L)
  <2>1. 0 \in 0..PageCnt
    BY SizesAssumption
  <2> QED
    BY <1>3, <1>4, <2>1 DEF Kept
<1>6. PICK u \in Nat : u = Cardinality(L)
  BY <1>0, Counts
<1>7. PICK a : a = [k \in Pages |-> Unset]
  OBVIOUS
<1>8. a \in [Pages -> Pages \cup {Unset}] /\ \A k \in Pages : a[k] = Unset
  BY <1>7
<1>9. Filed(m, 0, L, a, u, u)
  <2>1. u = Cardinality(L \cup Used(0))
    BY <1>3, <1>6
  <2>2. \A k \in Pages : ~(u <= k /\ k < u)
    BY <1>6 DEF Pages
  <2> QED
    BY <1>3, <1>6, <1>8, <2>1, <2>2 DEF Filed
<1>10. PICK fl : fl = [i \in Inodes |-> Cardinality({p \in valid : BlockRead(dev, p).inode = i})]
  OBVIOUS
<1>11. fl = Lengths(m, L) /\ Lengths(m, L) \in [Inodes -> Nat]
  <2>1. \A i \in Inodes : {p \in valid : BlockRead(dev, p).inode = i} = Mine(m, L, i)
    BY <1>0, <1>2 DEF Mine
  <2>2. \A i \in Inodes : Cardinality(Mine(m, L, i)) \in Nat
    BY <1>0, Counts
  <2> QED
    BY <1>10, <2>1, <2>2 DEF Lengths
<1>12. PICK w : w = [p \in Pages |-> Len(BlockRead(dev, p).data)]
  OBVIOUS
<1>13. w = Sizes(m)
  BY <1>0, <1>12 DEF Sizes
<1>14. PICK by : by = DataSize * PageCnt - SumFunctionOnSet(w, valid)
  OBVIOUS
<1>15. by = DataSize * PageCnt - SumFunctionOnSet(Sizes(m), L) /\ by \in Int
  <2>1. IsFiniteSet(L) /\ \A p \in L : Sizes(m)[p] \in Int
    BY <1>0, Counts, SizesFacts
  <2>2. SumFunctionOnSet(Sizes(m), L) \in Int
    BY <2>1, SumType
  <2>3. DataSize * PageCnt \in Int
    BY SizesAssumption
  <2>4. by = DataSize * PageCnt - SumFunctionOnSet(Sizes(m), L)
    BY <1>2, <1>13, <1>14
  <2> QED
    BY <2>2, <2>3, <2>4
<1>16. CountDisk = Scanning(fl, u, u, by, a, TRUE)
  <2>1. u = Cardinality(valid)
    BY <1>2, <1>6
  <2>2. PICK ok : ok = (\A p \in valid : Len(BlockRead(dev, p).data) <= DataSize)
    OBVIOUS
  <2>3. ok = TRUE
    <3>1. \A p \in valid : Len(BlockRead(dev, p).data) <= DataSize
      BY <1>0, <1>2, PageFields DEF Valid
    <3> QED
      BY <2>2, <3>1
  <2>4. CountDisk = Scanning(fl, u, u, by, a, ok)
    BY <1>1, <1>7, <1>10, <1>12, <1>14, <2>1, <2>2, Zenon DEF CountDisk, Scanning
  <2> QED
    BY <2>3, <2>4
<1> HIDE DEF L
<1>17. Consists(CountDisk, fl, u, u, by, a)
  BY <1>6, <1>8, <1>11, <1>15, <1>16, ScanningState
<1>18. ScannedWith(m, 0, CountDisk, L)
  BY <1>5, <1>9, <1>11, <1>15, <1>17 DEF ScannedWith, Consists
<1> QED
  BY <1>18 DEF Scanned

\* The recursion of fillPageArray() has a solution.
TurnBody(f, n) == IF n = 0 THEN CountDisk ELSE FillPage(f[n - 1], n - 1)

\* The recursion of the scan has a solution.
LEMMA ScanSolution ==
  \E f : (\A n \in 0..PageCnt : f[n] = TurnBody(f, n)) /\ Scan = f[PageCnt]
<1> DEFINE Upto(f, d) == \A n \in 0..PageCnt : n <= d => f[n] = TurnBody(f, n)
           Good == {d \in Nat : \E f : Upto(f, d)}
<1>0. PageCnt \in Nat
  BY SizesAssumption
<1>1. 0 \in Good
  <2> DEFINE f == [n \in 0..PageCnt |-> CountDisk]
  <2>1. \A n \in 0..PageCnt : n <= 0 => n = 0
    BY <1>0
  <2>2. f[0] = CountDisk
    BY <1>0
  <2> HIDE DEF f
  <2>3. Upto(f, 0)
    BY <2>1, <2>2 DEF TurnBody
  <2> QED
    BY <2>3
<1>2. ASSUME NEW d \in Nat, d \in Good PROVE d + 1 \in Good
  <2>1. PICK f : Upto(f, d)
    BY <1>2
  <2> DEFINE g == [n \in 0..PageCnt |-> TurnBody(f, n)]
  <2>2. \A n \in 0..PageCnt : g[n] = TurnBody(f, n)
    OBVIOUS
  <2> HIDE DEF g
  <2>3. ASSUME NEW n \in 0..PageCnt, n <= d + 1 PROVE g[n] = TurnBody(g, n)
    <3>1. CASE n = 0
      BY <2>2, <3>1 DEF TurnBody
    <3>2. CASE n # 0
      <4>1. n - 1 \in 0..PageCnt /\ n - 1 <= d
        BY <1>0, <2>3, <3>2
      <4>2. g[n - 1] = f[n - 1]
        BY <2>1, <2>2, <4>1
      <4> QED
        BY <2>2, <3>2, <4>2 DEF TurnBody
    <3> QED
      BY <3>1, <3>2
  <2>4. Upto(g, d + 1)
    BY <2>3
  <2> HIDE DEF Upto
  <2> QED
    BY <2>4
<1>3. \A d \in Nat : d \in Good
  <2> HIDE DEF Good
  <2> QED
    BY <1>1, <1>2, InductiveSet
<1>4. PICK f : Upto(f, PageCnt)
  BY <1>0, <1>3
<1>5. \A n \in 0..PageCnt : f[n] = TurnBody(f, n)
  BY <1>0, <1>4
<1> DEFINE g == [n \in 0..PageCnt |-> TurnBody(f, n)]
<1>6. \A n \in 0..PageCnt : g[n] = f[n]
  BY <1>5
<1>7. \A n \in 0..PageCnt : TurnBody(f, n) = TurnBody(g, n)
  <2> TAKE n \in 0..PageCnt
  <2>1. CASE n = 0
    BY <2>1 DEF TurnBody
  <2>2. CASE n # 0
    <3>1. n - 1 \in 0..PageCnt
      BY <1>0, <2>2
    <3>2. g[n - 1] = f[n - 1]
      BY <1>6, <3>1
    <3> HIDE DEF g
    <3> QED
      BY <2>2, <3>2 DEF TurnBody
  <2> QED
    BY <2>1, <2>2
<1>8. g = [n \in 0..PageCnt |-> TurnBody(g, n)]
  BY <1>7
<1> HIDE DEF g
<1>9. \E h : h = [n \in 0..PageCnt |-> TurnBody(h, n)] /\ Scan = h[PageCnt]
  BY <1>8 DEF Scan, TurnBody, CountDisk
<1>10. PICK h : h = [n \in 0..PageCnt |-> TurnBody(h, n)] /\ Scan = h[PageCnt]
  BY <1>9
<1>11. \A n \in 0..PageCnt : h[n] = TurnBody(h, n)
  BY <1>10
<1> QED
  BY <1>10, <1>11

\* So the loop ends with every copy filed, and no assertion failed.
LEMMA ScanResult ==
  ASSUME NEW m, Answers(m), Distinct(m), Whole(m)
  PROVE  Scanned(m, PageCnt, Scan)
<1>0. PageCnt \in Nat /\ PageCnt \in 0..PageCnt
  BY SizesAssumption
<1>1. PICK f : (\A n \in 0..PageCnt : f[n] = TurnBody(f, n)) /\ Scan = f[PageCnt]
  BY ScanSolution
<1> DEFINE Good == {n \in Nat : n <= PageCnt => Scanned(m, n, f[n])}
<1>2. 0 \in Good
  <2>1. f[0] = CountDisk
    BY <1>0, <1>1 DEF TurnBody
  <2> QED
    BY <2>1, ScannedFirst
<1>3. ASSUME NEW n \in Nat, n \in Good PROVE n + 1 \in Good
  <2> SUFFICES ASSUME n + 1 <= PageCnt PROVE Scanned(m, n + 1, f[n + 1])
    OBVIOUS
  <2>1. n <= PageCnt /\ n \in Pages /\ n + 1 \in 0..PageCnt /\ n + 1 # 0 /\ (n + 1) - 1 = n
    BY <1>0 DEF Pages
  <2>2. Scanned(m, n, f[n])
    BY <1>3, <2>1
  <2>3. f[n + 1] = FillPage(f[n], n)
    BY <1>1, <2>1 DEF TurnBody
  <2> QED
    BY <2>1, <2>2, <2>3, Turn
<1> HIDE DEF Good
<1>4. \A n \in Nat : n \in Good
  BY <1>2, <1>3, InductiveSet
<1>5. PageCnt <= PageCnt
  BY <1>0
<1> QED
  BY <1>0, <1>1, <1>4, <1>5 DEF Good

-----------------------------------------------------------------------------
\* What an unmounted memory is like.
LEMMA OffFacts ==
  ASSUME BattInv, ~mounted
  PROVE  /\ ~dev.dirty /\ ~failed /\ job = NoJob /\ file = [i \in Inodes |-> Closed]
         /\ dev \in AnyDevice /\ Clean(dev) /\ View(dev) = dev.media
         /\ Distinct(dev.media) /\ Whole(dev.media) /\ Answers(View(dev))
<1>1. DevOK /\ StateOK
  BY DEF BattInv
<1>2. /\ ~dev.dirty /\ ~failed /\ job = NoJob /\ file = [i \in Inodes |-> Closed]
  BY <1>1 DEF StateOK
<1>3. dev \in AnyDevice /\ Clean(dev) /\ Distinct(dev.media) /\ Whole(dev.media)
  BY <1>1 DEF DevOK, Clean
<1>4. View(dev) = dev.media
  BY <1>2, <1>3, ViewClean
<1>5. Answers(View(dev))
  BY <1>3, ViewType DEF Answers
<1> QED
  BY <1>2, <1>3, <1>4, <1>5

\* The assertions of fillPageArray() hold whenever the memory is mounted.
LEMMA MountableInv ==
  ASSUME BattInv PROVE Mountable
<1> SUFFICES ASSUME ~mounted PROVE Scan.asserts
  BY DEF Mountable
<1>1. Scanned(View(dev), PageCnt, Scan)
  BY OffFacts, ScanResult
<1>2. Scan \in ScanState
  BY <1>1 DEF Scanned, ScannedWith
<1> QED
  BY <1>2, ScanFields

\* battfs_mount(): a memory in order gives an array in order.
LEMMA MountInv ==
  ASSUME BattInv, Mount
  PROVE  BattInv'
<1>1. PICK s : s = Scan
  OBVIOUS
<1>2. /\ ~mounted /\ page_array' = s.array /\ free_page_start' = s.start /\ free_bytes' = s.bytes
      /\ mounted' = TRUE /\ dev' = dev /\ file' = file /\ job' = job /\ failed' = failed
  BY <1>1 DEF Mount, seen
<1>3. /\ ~dev.dirty /\ ~failed /\ job = NoJob /\ file = [i \in Inodes |-> Closed]
      /\ dev \in AnyDevice /\ Clean(dev) /\ View(dev) = dev.media
      /\ Distinct(dev.media) /\ Whole(dev.media) /\ Answers(View(dev))
  BY <1>2, OffFacts
<1>4. PICK m : m = View(dev)
  OBVIOUS
<1>5. Scanned(m, PageCnt, s)
  BY <1>1, <1>3, <1>4, ScanResult
<1>6. PICK L : ScannedWith(m, PageCnt, s, L)
  BY <1>5 DEF Scanned
<1>7. Kept(m, PageCnt, L) /\ Filed(m, PageCnt, L, s.array, s.start, s.free)
      /\ s.bytes = DataSize * PageCnt - SumFunctionOnSet(Sizes(m), L)
  BY <1>6 DEF ScannedWith
<1>8. PICK h : h = InOrder(m, s.array)
  OBVIOUS
<1>9. /\ Listed(s.array) /\ ArrayOK(h, s.start)
      /\ \A k \in Used(s.start) : h[k].pgoff > 0 => h[k].data # <<>>
      /\ SumFunctionOnSet(Sizes(h), Used(s.start)) = SumFunctionOnSet(Sizes(m), L)
  BY <1>3, <1>4, <1>7, <1>8, Arranged
<1>10. Now' = h
  BY <1>2, <1>4, <1>8 DEF Now
<1>11. SoundDisk(dev', page_array', free_page_start')
  BY <1>2, <1>3, <1>4, <1>8, <1>9 DEF SoundDisk
<1>12. file' \in [Inodes -> {Closed} \cup AnyHandle] /\ \A i \in Inodes : ~file'[i].open
  BY <1>2, <1>3, ClosedFacts
<1>13. LastOK'
  BY <1>2, <1>9, <1>10, SteadyLast
<1>14. FreeOK'
  BY <1>2, <1>7, <1>9, <1>10 DEF FreeOK
<1>15. mounted' /\ ~failed' /\ mounted' \in BOOLEAN /\ failed' \in BOOLEAN /\ job' = NoJob
  <2>1. failed \in BOOLEAN
    BY DEF BattInv, StateOK
  <2> QED
    BY <1>2, <1>3, <2>1
<1> QED
  BY <1>11, <1>12, <1>13, <1>14, <1>15, Conclude

-----------------------------------------------------------------------------
\* A step that changes nothing.
LEMMA StutterInv ==
  ASSUME BattInv, UNCHANGED battVars
  PROVE  BattInv'
<1>1. /\ dev' = dev /\ mounted' = mounted /\ file' = file /\ job' = job /\ failed' = failed
      /\ page_array' = page_array /\ free_page_start' = free_page_start /\ free_bytes' = free_bytes
  BY DEF battVars, disk, seen
<1>2. Now' = Now /\ Off' = Off
  BY <1>1 DEF Now, Off
<1>3. DevOK' /\ StateOK'
  BY <1>1 DEF BattInv, DevOK, StateOK
<1>4. ASSUME RunOK PROVE RunOK'
  <2>1. job' = NoJob \/ JobOK'
    BY <1>1, <1>2, <1>4 DEF RunOK, JobOK
  <2>2. LastOK' /\ FreeOK'
    BY <1>1, <1>2, <1>4 DEF RunOK, LastOK, Pending, FreeOK
  <2> QED
    BY <1>1, <1>2, <1>4, <2>1, <2>2 DEF RunOK
<1> QED
  BY <1>1, <1>3, <1>4 DEF BattInv

\* What the application writes.
LEMMA WriteArguments ==
  ASSUME NEW w \in Writes, NEW b \in Bytes
  PROVE  /\ w[1] \in Nat /\ [k \in 1..w[2] |-> b] \in Seq(Bytes)
         /\ [k \in 1..w[2] |-> b] # <<>>
<1>1. w \in Nat \X (Nat \ {0})
  BY WritesAssumption
<1>2. PICK n \in Nat \ {0} : n = w[2]
  BY <1>1
<1>3. [k \in 1..n |-> b] \in Seq(Bytes) /\ Len([k \in 1..n |-> b]) = n
  OBVIOUS
<1> QED
  BY <1>1, <1>2, <1>3

\* Every step of the file system.
LEMMA NextInv ==
  ASSUME BattInv, BattNext, {"full", "inplace", "errors"} \subseteq Avoids
  PROVE  BattInv'
<1>0. "full" \in Avoids /\ "inplace" \in Avoids /\ "errors" \in Avoids
  OBVIOUS
<1>a. job.phase # "none" => job # NoJob
  BY DEF NoJob
<1>1. CASE Mount
  BY <1>1, MountInv
<1>2. CASE Umount
  BY <1>0, <1>2, UmountInv
<1>3. CASE PowerCut
  BY <1>3, PowerCutInv
<1>4. ASSUME NEW i \in Inodes, Open(i) PROVE BattInv'
  BY <1>0, <1>4, OpenInv
<1>5. ASSUME NEW i \in Inodes, Create(i) PROVE BattInv'
  BY <1>0, <1>5, CreateInv
<1>6. ASSUME NEW i \in Inodes, NEW close \in BOOLEAN, Flush(i, close) PROVE BattInv'
  BY <1>0, <1>6, FlushInv
<1>7. ASSUME NEW i \in Inodes, NEW w \in Writes, NEW b \in Bytes,
             WriteBegin(i, w[1], [k \in 1..w[2] |-> b])
      PROVE  BattInv'
  BY <1>0, <1>7, WriteArguments, WriteBeginInv
<1>8. CASE WriteTail
  BY <1>a, <1>8, WriteTailInv DEF WriteTail
<1>9. CASE WriteZeros
  BY <1>a, <1>9, WriteZerosInv DEF WriteZeros
<1>10. CASE WriteNew
  BY <1>a, <1>10, WriteNewInv DEF WriteNew
<1>11. CASE WriteOld
  BY <1>a, <1>11, WriteOldInv DEF WriteOld
<1>12. CASE WriteNoSpace
  BY <1>12, WriteNoSpaceInv
<1>13. CASE WriteNewFails
  BY <1>13, WriteNewFailsInv
<1>14. CASE WriteOldFails
  BY <1>a, <1>14, WriteOldFailsInv DEF WriteOldFails
<1>15. CASE UmountFails
  BY <1>0, <1>15, UmountFailsInv
<1>16. CASE WriteTailSpoilt
  BY <1>a, <1>16, WriteTailSpoiltInv DEF WriteTailSpoilt
<1> QED
  BY <1>1, <1>2, <1>3, <1>4, <1>5, <1>6, <1>7, <1>8, <1>9, <1>10, <1>11, <1>12, <1>13, <1>14, <1>15, <1>16
  DEF BattNext

\* An application that takes the three precautions, whatever it writes, however
\* large the memory, wherever the power fails and the device does: the
\* inductive invariant.
THEOREM BattInvariant ==
  ASSUME {"full", "inplace", "errors"} \subseteq Avoids
  PROVE  BattSpec => []BattInv
<1>1. BattInit => BattInv
  BY InitInv
<1>2. BattInv /\ [BattNext]_battVars => BattInv'
  BY NextInv, StutterInv
<1> QED
  BY <1>1, <1>2, PTL DEF BattSpec

\* The types of what is seen from outside.
SeenOK == flushed \in BOOLEAN /\ spoiled \subseteq Inodes

\* Every step preserves them.
LEMMA SeenStep ==
  ASSUME BattInv, SeenOK, [BattNext]_battVars
  PROVE  SeenOK'
<1>1. CASE flushed' = flushed /\ spoiled' = spoiled
  BY <1>1 DEF SeenOK
<1>2. CASE flushed' \in BOOLEAN /\ spoiled' = spoiled
  BY <1>2 DEF SeenOK
<1>3. CASE UNCHANGED battVars
  BY <1>1, <1>3 DEF battVars, seen
<1>4. CASE PowerCut
  BY <1>4 DEF PowerCut, SeenOK
<1>5. CASE WriteTailSpoilt
  <2>1. flushed' = flushed /\ spoiled' = spoiled \cup {job.inode} /\ job # NoJob
    BY <1>5 DEF WriteTailSpoilt, NoJob
  <2>2. job.inode \in Inodes
    BY <2>1, JobFacts
  <2> QED
    BY <2>1, <2>2 DEF SeenOK
<1>6. CASE Mount \/ WriteTail \/ WriteZeros \/ WriteNew \/ WriteOld \/ WriteNoSpace
  BY <1>1, <1>6 DEF Mount, WriteTail, WriteZeros, WriteNew, WriteOld, WriteNoSpace, seen
<1>7. CASE Umount \/ UmountFails \/ WriteNewFails \/ WriteOldFails
  BY <1>2, <1>7 DEF Umount, UmountFails, WriteNewFails, WriteOldFails
<1>8. ASSUME NEW i \in Inodes, \/ Open(i) \/ Create(i) \/ \E close \in BOOLEAN : Flush(i, close)
                               \/ \E w \in Writes, b \in Bytes :
                                    WriteBegin(i, w[1], [k \in 1..w[2] |-> b])
      PROVE  SeenOK'
  BY <1>1, <1>2, <1>8 DEF Open, Create, Flush, WriteBegin, seen
<1> QED
  BY <1>3, <1>4, <1>5, <1>6, <1>7, <1>8 DEF BattNext

\* The parts of the invariant that are about types.
LEMMA InvTypeOK ==
  ASSUME BattInv, SeenOK PROVE BattTypeOK
<1>1. StateOK /\ DevOK
  BY DEF BattInv
<1>2. dev.curr \in Pages /\ dev.dirty \in BOOLEAN
  BY <1>1 DEF DevOK, AnyDevice
<1>3. mounted /\ ~failed => PageOnce
  BY DEF BattInv, RunOK, Listed, PageOnce
<1> QED
  BY <1>1, <1>2, <1>3 DEF BattTypeOK, StateOK, SeenOK

\* Two neighbours in the array are pages of two files or follow each other.
LEMMA InvFsck ==
  ASSUME BattInv PROVE FsckPasses
<1> SUFFICES ASSUME mounted, job = NoJob, ~failed PROVE Fsck
  BY DEF FsckPasses
<1>1. /\ RunOK /\ Now \in [Pages -> AnyPage] /\ Steady
      /\ \A k \in Pages : PageAt(k) = Now[k]
  BY NowSound, IdleSteady
<1>2. PICK u \in 0..PageCnt : u = free_page_start
  BY <1>1 DEF RunOK, ArrayOK
<1>3. PICK h \in [Pages -> AnyPage] : h = Now
  BY <1>1
<1>4. Ordered(h, u) /\ Linked(h, u)
  BY <1>1, <1>2, <1>3 DEF RunOK, ArrayOK
<1>5. PageCnt \in Nat
  BY SizesAssumption
<1>6. Used(u) = 0..(u - 1) /\ Used(u) \subseteq Pages
  BY <1>2, <1>5 DEF Used, Pages
<1>7. ASSUME NEW k \in 0..(u - 1)
      PROVE  /\ PageAt(k).fcs
             /\ IF k = 0 \/ PageAt(k).inode # PageAt(k - 1).inode
                THEN /\ k > 0 => PageAt(k).inode > PageAt(k - 1).inode
                     /\ PageAt(k).pgoff = 0
                ELSE /\ PageAt(k).data # <<>>
                     /\ Len(PageAt(k - 1).data) = DataSize
                     /\ PageAt(k).pgoff = PageAt(k - 1).pgoff + 1
  <2>1. k \in Used(u) /\ k \in Pages /\ k \in Nat
    BY <1>6
  <2>2. PageAt(k) = h[k] /\ h[k].fcs /\ h[k].pgoff \in Nat /\ h[k].inode \in Nat
    BY <1>1, <1>3, <1>4, <2>1, PageFields DEF Ordered
  <2>3. h[k].pgoff > 0 => h[k].data # <<>>
    BY <1>1, <1>2, <1>3, <2>1 DEF Steady
  <2>4. h[k].pgoff > 0 => /\ k > 0 /\ h[k - 1].inode = h[k].inode
                          /\ h[k].pgoff = h[k - 1].pgoff + 1
                          /\ Len(h[k - 1].data) = DataSize
    BY <1>4, <2>1 DEF Linked
  <2>5. CASE k = 0
    BY <2>2, <2>4, <2>5
  <2>6. CASE k # 0
    <3>1. k - 1 \in Used(u) /\ k - 1 \in Pages /\ k - 1 < k
      BY <1>6, <2>1, <2>6
    <3>2. PageAt(k - 1) = h[k - 1] /\ h[k - 1].pgoff \in Nat /\ h[k - 1].inode \in Nat
      BY <1>1, <1>3, <3>1, PageFields
    <3>3. \/ h[k - 1].inode < h[k].inode
          \/ h[k - 1].inode = h[k].inode /\ h[k - 1].pgoff < h[k].pgoff
      BY <1>4, <2>1, <3>1 DEF Ordered, Before
    <3>4. CASE h[k - 1].inode < h[k].inode
      <4>1. h[k].inode > h[k - 1].inode /\ h[k].inode # h[k - 1].inode
        BY <2>2, <3>2, <3>4
      <4>2. h[k].pgoff = 0
        BY <2>2, <2>4, <4>1
      <4> QED
        BY <2>2, <3>2, <4>1, <4>2, Zenon
    <3>5. CASE h[k - 1].inode = h[k].inode /\ h[k - 1].pgoff < h[k].pgoff
      <4>1. h[k].pgoff > 0
        BY <2>2, <3>2, <3>5
      <4> QED
        BY <2>2, <2>3, <2>4, <2>6, <3>2, <3>5, <4>1, Zenon
    <3> QED
      BY <3>3, <3>4, <3>5
  <2> QED
    BY <2>5, <2>6
<1>8. free_bytes = DataSize * PageCnt
        - SumFunctionOnSet([k \in Pages |-> Len(PageAt(k).data)], 0..(u - 1))
  <2>1. [k \in Pages |-> Len(PageAt(k).data)] = Sizes(Now)
    BY <1>1 DEF Sizes
  <2> QED
    BY <1>1, <1>2, <1>6, <2>1 DEF RunOK, FreeOK
<1> QED
  BY <1>2, <1>7, <1>8 DEF Fsck

\* The position and the size that a handle remembers are those a search finds.
LEMMA InvHandles ==
  ASSUME BattInv PROVE HandlesAgree
<1> SUFFICES ASSUME NEW i \in Inodes, file[i].open, ~failed
             PROVE  /\ FindFile(i) = [found |-> TRUE, start |-> file[i].start]
                    /\ FileSize(i, file[i].start) = file[i].size
  BY DEF HandlesAgree
<1>1. mounted
  BY ClosedFacts DEF BattInv, StateOK
<1>2. RunOK /\ dev \in AnyDevice /\ i \in Nat
  BY <1>1, NowSound, InodeFacts DEF DevOK
<1>3. Listed(page_array) /\ ArrayOK(Now, free_page_start)
      /\ HandleOK(Now, free_page_start, i, file[i])
  BY <1>2 DEF RunOK
<1>4. PICK n \in Nat \ {0} :
        /\ FileAt(Now, free_page_start, i, file[i].start, n)
        /\ file[i].size = (n - 1) * DataSize + Len(Now[file[i].start + n - 1].data)
  BY <1>3 DEF HandleOK
<1>5. n > 0
  OBVIOUS
<1>6. FindFile(i) = [found |-> TRUE, start |-> file[i].start]
  BY <1>2, <1>3, <1>4, <1>5, FindFileValue
<1>7. FileSize(i, file[i].start) = file[i].size
  BY <1>2, <1>3, <1>4, <1>5, FileSizeValue
<1> QED
  BY <1>6, <1>7

\* The variables keep their types: in particular free_bytes never becomes
\* negative or exceeds the memory, and no page is lost from the page array or
\* listed in it twice.
THEOREM BattTypes ==
  ASSUME {"full", "inplace", "errors"} \subseteq Avoids
  PROVE  BattSpec => []BattTypeOK
<1>1. BattSpec => []BattInv
  BY BattInvariant
<1>2. BattInv /\ SeenOK => BattTypeOK
  BY InvTypeOK
<1>3. BattInit => SeenOK
  BY DEF BattInit, SeenOK
<1>4. BattInv /\ SeenOK /\ [BattNext]_battVars => SeenOK'
  BY SeenStep
<1> QED
  BY <1>1, <1>2, <1>3, <1>4, PTL DEF BattSpec

\* battfs_fsck() succeeds between any two calls (battfs_test.c:63 and after
\* every other operation): the pages of the array are in order, no page is missing
\* in a file, only the last one may be short, and free_bytes is what is free.
THEOREM FsckAlwaysPasses ==
  ASSUME {"full", "inplace", "errors"} \subseteq Avoids
  PROVE  BattSpec => []FsckPasses
<1>1. BattSpec => []BattInv
  BY BattInvariant
<1>2. BattInv => FsckPasses
  BY InvFsck
<1> QED
  BY <1>1, <1>2, PTL

\* The position and the size in the context of every open file stay those that
\* findFile() and countFileSize() would give, whatever battfs_write() and
\* battfs_fileopen() insert before it.
THEOREM HandlesAlwaysAgree ==
  ASSUME {"full", "inplace", "errors"} \subseteq Avoids
  PROVE  BattSpec => []HandlesAgree
<1>1. BattSpec => []BattInv
  BY BattInvariant
<1>2. BattInv => HandlesAgree
  BY InvHandles
<1> QED
  BY <1>1, <1>2, PTL

\* Wherever the power failed, also while a block was stored, the assertions of
\* fillPageArray() hold when the memory is mounted again.
THEOREM AlwaysMountable ==
  ASSUME {"full", "inplace", "errors"} \subseteq Avoids
  PROVE  BattSpec => []Mountable
<1>1. BattSpec => []BattInv
  BY BattInvariant
<1>2. BattInv => Mountable
  BY MountableInv
<1> QED
  BY <1>1, <1>2, PTL

-----------------------------------------------------------------------------
\* The medium of e is that of d, but for the block that was in the buffer of d.
OnlyBuffer(d, e) ==
  \/ e.media = d.media
  \/ d.dirty /\ \E x : e.media = [d.media EXCEPT ![d.curr] = x]

\* The operations of the block device store its buffer or nothing.
LEMMA DeviceStores ==
  ASSUME NEW d \in AnyDevice, NEW p, NEW q, NEW page
  PROVE  /\ OnlyBuffer(d, d) /\ OnlyBuffer(d, BlockFlush(d)) /\ OnlyBuffer(d, BlockWrite(d, p, page))
         /\ OnlyBuffer(d, BlockWrite(BlockCopy(d, p, q), q, page))
<1>1. OnlyBuffer(d, d)
  BY DEF OnlyBuffer
<1>2. OnlyBuffer(d, BlockFlush(d))
  BY DEF OnlyBuffer, BlockFlush, AnyDevice
<1>3. PICK l : l = LoadPage(d, p)
  OBVIOUS
<1>4. /\ l.media = d.media \/ l.media = BlockFlush(d).media
      /\ [l EXCEPT !.buf = page, !.dirty = TRUE].media = l.media
      /\ [l EXCEPT !.curr = q, !.dirty = TRUE].media = l.media
      /\ [l EXCEPT !.curr = q, !.dirty = TRUE].curr = q
      /\ [[l EXCEPT !.curr = q, !.dirty = TRUE] EXCEPT !.buf = page, !.dirty = TRUE].media = l.media
  BY <1>3 DEF LoadPage, BlockFlush, AnyDevice
<1>5. OnlyBuffer(d, l)
  BY <1>2, <1>4 DEF OnlyBuffer
<1>6. BlockWrite(d, p, page).media = l.media
  BY <1>3, <1>4 DEF BlockWrite
<1>7. BlockWrite(BlockCopy(d, p, q), q, page).media = l.media
  BY <1>3, <1>4 DEF BlockWrite, BlockCopy, LoadPage
<1> QED
  BY <1>1, <1>2, <1>5, <1>6, <1>7 DEF OnlyBuffer

\* A step stores the buffer, or nothing.
LEMMA NextStores ==
  ASSUME dev \in AnyDevice, BattNext
  PROVE  OnlyBuffer(dev, dev')
<1>1. CASE dev' = dev
  BY <1>1, DeviceStores
<1>2. CASE dev' = BlockFlush(dev)
  BY <1>2, DeviceStores
<1>3. CASE \E p, page : dev' = BlockWrite(dev, p, page)
  BY <1>3, DeviceStores
<1>4. CASE \E p, q, page : dev' = BlockWrite(BlockCopy(dev, p, q), q, page)
  BY <1>4, DeviceStores
<1>5. CASE PowerCut
  <2>1. \/ dev' = PowerUp(dev.media)
        \/ dev.dirty /\ dev' = PowerUp([dev.media EXCEPT ![dev.curr] = Blank])
    BY <1>5 DEF PowerCut, PowerLost
  <2> QED
    BY <2>1 DEF PowerUp, OnlyBuffer
<1>6. CASE Mount \/ Umount \/ UmountFails \/ WriteNoSpace \/ WriteNewFails \/ WriteOldFails
  BY <1>1, <1>2, <1>6 DEF Mount, Umount, UmountFails, WriteNoSpace, WriteNewFails, WriteOldFails
<1>7. ASSUME NEW i \in Inodes, \/ Open(i) \/ Create(i) \/ \E close \in BOOLEAN : Flush(i, close)
                               \/ \E w \in Writes, b \in Bytes :
                                    WriteBegin(i, w[1], [k \in 1..w[2] |-> b])
      PROVE  OnlyBuffer(dev, dev')
  BY <1>1, <1>2, <1>3, <1>7 DEF Open, Create, Flush, WriteBegin
<1>8. ASSUME NEW pos, NEW page, NEW there, Rewrite(pos, page, there)
      PROVE  OnlyBuffer(dev, dev')
  BY <1>3, <1>4, <1>8 DEF Rewrite
<1>9. CASE WriteTail \/ WriteTailSpoilt \/ WriteOld
  BY <1>8, <1>9 DEF WriteTail, WriteTailSpoilt, FillTail, WriteOld
<1>10. CASE WriteZeros \/ WriteNew
  BY <1>3, <1>10 DEF WriteZeros, WriteNew
<1> QED
  BY <1>5, <1>6, <1>7, <1>9, <1>10 DEF BattNext

\* Nothing writes over the copy of a page that a mount would choose, before a
\* newer copy of the page is stored (battfs.c:592-597).
THEOREM AlwaysCopyOnWrite ==
  ASSUME {"full", "inplace", "errors"} \subseteq Avoids
  PROVE  BattSpec => CopyOnWrite
<1> DEFINE Spared == \A p \in Pages : Chosen(dev.media, p) => dev'.media[p] = dev.media[p]
                                        \/ ~Chosen(dev'.media, p)
<1>1. ASSUME BattInv, [BattNext]_battVars PROVE [Spared]_battVars
  <2>1. CASE UNCHANGED battVars
    BY <2>1
  <2>2. CASE BattNext
    <3>1. dev \in AnyDevice /\ (dev.dirty => ~Chosen(dev.media, dev.curr))
      BY <1>1 DEF BattInv, DevOK
    <3>2. OnlyBuffer(dev, dev')
      BY <2>2, <3>1, NextStores
    <3>3. ASSUME NEW p \in Pages, Chosen(dev.media, p) PROVE dev'.media[p] = dev.media[p]
      <4>1. p # dev.curr \/ ~dev.dirty
        BY <3>1, <3>3
      <4>2. dev.media \in [Pages -> AnyPage]
        BY <3>1 DEF AnyDevice
      <4> QED
        BY <3>2, <4>1, <4>2 DEF OnlyBuffer
    <3> QED
      BY <3>3
  <2> QED
    BY <1>1, <2>1, <2>2
<1>2. BattSpec => []BattInv
  BY BattInvariant
<1> QED
  BY <1>1, <1>2, PTL DEF BattSpec, CopyOnWrite
=============================================================================
