------------------------ MODULE SplitSnapshot_proofs ------------------------
(***************************************************************************)
(* What a frozen snapshot promises its readers, for every set of scenarios,*)
(* makers and tokenizers, and that it is published like a write-once cell. *)
(*                                                                         *)
(* The first part is about the operators: lists of lines and their chunks, *)
(* listing a finite set in the order of keys, the members of a readable    *)
(* source, recursion over sets, paths, numbers and lists, the union-find   *)
(* (ComponentsAreConnected), the partition of a source and its             *)
(* independence of the order of the members, and a count's bounds.  The    *)
(* second follows the reader (ReaderInv, CountInv), the third the copies   *)
(* that makers take of the source (CopyInv), and what that makes of their  *)
(* publication; the last (CalmInv) follows makers and reader of a snapshot *)
(* that nobody touches.                                                    *)
(***************************************************************************)
EXTENDS SplitSnapshot, SequenceTheorems, FiniteSetTheorems, WellFoundedInduction, TLAPS

-----------------------------------------------------------------------------
(* Files and their chunks *)

LEMMA SequenceIsFile ==
  ASSUME NEW S, NEW s \in Seq(S)
  PROVE  IsFile(s)
<1>1. Len(s) \in Nat /\ s \in [1..Len(s) -> S]
  BY LenProperties
<1>2. s \in [1..Len(s) -> Range(s)]
  BY <1>1 DEF Range
<1> HIDE DEF Range
<1> QED
  BY <1>1, <1>2, SeqDef DEF IsFile

LEMMA FileProperties ==
  ASSUME NEW s, IsFile(s)
  PROVE  /\ Len(s) \in Nat /\ DOMAIN s = 1..Len(s) /\ s = [k \in 1..Len(s) |-> s[k]]
         /\ \A k \in 1..Len(s) : s[k] \in Range(s)
         /\ s = <<>> <=> Len(s) = 0
<1> DEFINE S == Range(s)
<1>1. s \in Seq(S)
  BY DEF IsFile
<1> HIDE DEF S
<1>2. Len(s) \in Nat /\ s \in [1..Len(s) -> S] /\ DOMAIN s = 1..Len(s)
  BY <1>1, LenProperties
<1>3. s = <<>> <=> Len(s) = 0
  BY <1>1, <1>2, EmptySeq
<1> QED
  BY <1>2, <1>3 DEF S

LEMMA FunctionIsFile ==
  ASSUME NEW n \in Nat, NEW f, f = [k \in 1..n |-> f[k]]
  PROVE  IsFile(f) /\ Len(f) = n
<1>1. f \in [1..n -> Range(f)]
  BY DEF Range
<1> HIDE DEF Range
<1>2. f \in Seq(Range(f))
  BY <1>1
<1> QED
  BY <1>1, <1>2, LenProperties, SequenceIsFile

LEMMA Concatenated ==
  ASSUME NEW s, IsFile(s), NEW t, IsFile(t)
  PROVE  /\ IsFile(s \o t) /\ Len(s \o t) = Len(s) + Len(t)
         /\ \A k \in 1..Len(s) + Len(t) :
               (s \o t)[k] = IF k <= Len(s) THEN s[k] ELSE t[k - Len(s)]
<1> DEFINE S == Range(s) \cup Range(t)
<1>1. s \in Seq(Range(s)) /\ t \in Seq(Range(t))
  BY DEF IsFile
<1>2. s \in Seq(S) /\ t \in Seq(S)
  <2> DEFINE A == Range(s)
             B == Range(t)
  <2>1. s \in Seq(A) /\ t \in Seq(B) /\ A \subseteq S /\ B \subseteq S
    BY <1>1
  <2> HIDE DEF A, B, S
  <2> QED
    BY <2>1, SeqMonotonic
<1> HIDE DEF S
<1> QED
  BY <1>2, ConcatProperties, SequenceIsFile

\* A file is its two chunks, and files of one length are cut at one place.
LEMMA Chunks ==
  ASSUME NEW v, IsFile(v)
  PROVE  /\ IsFile(FirstChunk(v)) /\ IsFile(LastChunk(v))
         /\ Len(FirstChunk(v)) = Len(v) \div 2
         /\ FirstChunk(v) \o LastChunk(v) = v
<1> DEFINE n == Len(v)
           h == n \div 2
           S == Range(v)
           first == FirstChunk(v)
           last == LastChunk(v)
<1>1. n \in Nat /\ \A k \in 1..n : v[k] \in S
  BY FileProperties
<1>2. h \in Nat /\ h <= n /\ h + 1 \in Int
  BY <1>1
<1>3. v \in Seq(S)
  BY DEF IsFile
<1> HIDE DEF S, n, h
<1>4. /\ SubSeq(v, 1, h) \in Seq(S) /\ Len(SubSeq(v, 1, h)) = h
      /\ \A i \in 1..h : SubSeq(v, 1, h)[i] = v[i]
  <2>1. \A i \in 1..h : v[i] \in S
    BY <1>1, <1>2
  <2>2. /\ SubSeq(v, 1, h) \in Seq(S)
        /\ Len(SubSeq(v, 1, h)) = IF 1 <= h THEN h - 1 + 1 ELSE 0
        /\ \A i \in 1..h - 1 + 1 : SubSeq(v, 1, h)[i] = v[1 + i - 1]
    BY <1>2, <2>1, SubSeqProperties
  <2> QED
    BY <1>2, <2>2
<1>5. /\ SubSeq(v, h + 1, n) \in Seq(S) /\ Len(SubSeq(v, h + 1, n)) = n - h
      /\ \A i \in 1..n - h : SubSeq(v, h + 1, n)[i] = v[h + i]
  <2>1. \A i \in h + 1..n : v[i] \in S
    BY <1>1, <1>2
  <2>2. /\ SubSeq(v, h + 1, n) \in Seq(S)
        /\ Len(SubSeq(v, h + 1, n)) = IF h + 1 <= n THEN n - (h + 1) + 1 ELSE 0
        /\ \A i \in 1..n - (h + 1) + 1 : SubSeq(v, h + 1, n)[i] = v[(h + 1) + i - 1]
    BY <1>1, <1>2, <2>1, SubSeqProperties
  <2> QED
    BY <1>1, <1>2, <2>2
<1>6. first = SubSeq(v, 1, h) /\ last = SubSeq(v, h + 1, n)
  BY DEF FirstChunk, LastChunk, n, h
<1> HIDE DEF first, last
<1>7. first \o last = v
  <2>1. /\ first \o last \in Seq(S) /\ Len(first \o last) = h + (n - h)
        /\ \A i \in 1..h + (n - h) :
              (first \o last)[i] = IF i <= h THEN first[i] ELSE last[i - h]
    <3>1. /\ first \in Seq(S) /\ last \in Seq(S)
          /\ Len(first) = h /\ Len(last) = n - h
      BY <1>4, <1>5, <1>6
    <3> QED
      BY <3>1, ConcatProperties
  <2>2. ASSUME NEW i \in 1..n PROVE (first \o last)[i] = v[i]
    <3>1. CASE i <= h
      BY <1>1, <1>2, <1>4, <1>6, <2>1, <3>1
    <3>2. CASE i > h
      <4>1. i - h \in 1..n - h /\ h + (i - h) = i
        BY <1>1, <1>2, <3>2
      <4>2. (first \o last)[i] = last[i - h]
        BY <1>1, <1>2, <2>1, <3>2
      <4> QED
        BY <4>1, <4>2, <1>5, <1>6
    <3>3. i <= h \/ i > h
      BY <1>1, <1>2
    <3> QED
      BY <3>1, <3>2, <3>3
  <2>3. Len(first \o last) = n
    BY <1>1, <1>2, <2>1
  <2> HIDE DEF first, last
  <2> QED
    BY <1>3, <2>1, <2>2, <2>3, SeqEqual DEF n
<1>8. IsFile(first) /\ IsFile(last) /\ Len(first) = h
  BY <1>4, <1>5, <1>6, SequenceIsFile
<1> QED
  BY <1>7, <1>8 DEF first, last, h, n

\* Two chunks of files of one length begin like the first of them.
LEMMA SamePrefix ==
  ASSUME NEW v, IsFile(v), NEW w, IsFile(w), NEW x, IsFile(x), Len(v) = Len(w),
         FirstChunk(v) \o LastChunk(w) = FirstChunk(w) \o LastChunk(x)
  PROVE  FirstChunk(v) \o LastChunk(w) = w
<1> DEFINE a == FirstChunk(v)
           b == FirstChunk(w)
           c == LastChunk(w)
           d == LastChunk(x)
<1>1. /\ IsFile(a) /\ IsFile(b) /\ IsFile(c) /\ IsFile(d)
      /\ Len(a) = Len(b) /\ b \o c = w /\ a \o c = b \o d
  BY Chunks
<1> HIDE DEF a, b, c, d
<1>2. Len(a) \in Nat /\ Len(c) \in Nat /\ Len(d) \in Nat
  BY <1>1, FileProperties
<1>3. ASSUME NEW k \in 1..Len(a) PROVE a[k] = b[k]
  <2>1. k \in 1..Len(a) + Len(c) /\ k \in 1..Len(b) + Len(d) /\ k <= Len(a) /\ k <= Len(b)
    BY <1>1, <1>2
  <2>2. (a \o c)[k] = a[k] /\ (b \o d)[k] = b[k]
    BY <1>1, <2>1, Concatenated
  <2> QED
    BY <1>1, <2>2
<1>4. a = b
  <2>1. a \in Seq(Range(a) \cup Range(b)) /\ b \in Seq(Range(a) \cup Range(b))
    <3> DEFINE A == Range(a)
               B == Range(b)
               S == A \cup B
    <3>1. a \in Seq(A) /\ b \in Seq(B) /\ A \subseteq S /\ B \subseteq S
      BY <1>1 DEF IsFile
    <3> HIDE DEF A, B, S
    <3>2. a \in Seq(S) /\ b \in Seq(S)
      BY <3>1, SeqMonotonic
    <3> QED
      BY <3>2 DEF S, A, B
  <2> HIDE DEF a, b
  <2> QED
    BY <1>1, <1>3, <2>1, SeqEqual
<1> QED
  BY <1>1, <1>4 DEF a, c

-----------------------------------------------------------------------------
(* Listing a set in the order of keys *)

\* A function that maps one set onto another, element by element.
OneToOne(pi, J, I) ==
    /\ pi \in [J -> I]
    /\ \A x, y \in J : pi[x] = pi[y] => x = y
    /\ \A z \in I : \E x \in J : pi[x] = z

LEMMA SameSize ==
  ASSUME NEW J, IsFiniteSet(J), NEW I, NEW pi, OneToOne(pi, J, I)
  PROVE  IsFiniteSet(I) /\ Cardinality(I) = Cardinality(J)
<1>1. pi \in Surjection(J, I) /\ pi \in Injection(J, I)
  BY DEF OneToOne, Surjection, Injection, IsInjective
<1> QED
  BY <1>1, FS_Surjection

Place(S, key, x) == 1 + Cardinality({y \in S : key[y] < key[x]})

\* InOrder puts every element in its place, and no two have the same.
LEMMA OrderedByPlace ==
  ASSUME NEW S, IsFiniteSet(S), NEW key, \A x \in S : key[x] \in Int,
         \A x, y \in S : x # y => key[x] # key[y]
  PROVE  /\ \A x \in S : Place(S, key, x) \in 1..Cardinality(S)
         /\ \A x, y \in S : x # y => Place(S, key, x) # Place(S, key, y)
         /\ InOrder(S, key) = [p \in 1..Cardinality(S) |-> InOrder(S, key)[p]]
         /\ \A p \in 1..Cardinality(S) : InOrder(S, key)[p] \in S
                                         /\ Place(S, key, InOrder(S, key)[p]) = p
<1> DEFINE n == Cardinality(S)
           Below(x) == {y \in S : key[y] < key[x]}
           place(x) == 1 + Cardinality(Below(x))
           order == InOrder(S, key)
           f == [x \in S |-> place(x)]
<1>1. n \in Nat
  BY FS_CardinalityType
<1>2. ASSUME NEW x \in S
      PROVE  IsFiniteSet(Below(x)) /\ Cardinality(Below(x)) \in Nat /\ place(x) \in 1..n
  <2>1. IsFiniteSet(S \ {x}) /\ Cardinality(S \ {x}) = n - 1
    BY <1>2, FS_RemoveElement
  <2>2. Below(x) \subseteq S \ {x}
    BY <1>2
  <2> HIDE DEF Below, n
  <2>3. IsFiniteSet(Below(x)) /\ Cardinality(Below(x)) <= n - 1
    BY <2>1, <2>2, FS_Subset
  <2>4. Cardinality(Below(x)) \in Nat
    BY <2>3, FS_CardinalityType
  <2> QED
    BY <1>1, <2>3, <2>4
<1>3. ASSUME NEW x \in S, NEW y \in S, key[x] < key[y]
      PROVE  place(x) < place(y)
  <2>1. Below(x) \subseteq Below(y) /\ x \in Below(y) /\ x \notin Below(x)
    BY <1>3
  <2>2. IsFiniteSet(Below(x)) /\ IsFiniteSet(Below(y))
        /\ Cardinality(Below(x)) \in Nat /\ Cardinality(Below(y)) \in Nat
    BY <1>2
  <2> HIDE DEF Below
  <2>3. Cardinality(Below(x)) <= Cardinality(Below(y))
    BY <2>1, <2>2, FS_Subset
  <2>4. Cardinality(Below(x)) # Cardinality(Below(y))
    BY <2>1, <2>2, FS_Subset
  <2> QED
    BY <2>2, <2>3, <2>4
<1>4. ASSUME NEW x \in S, NEW y \in S, x # y
      PROVE  place(x) # place(y)
  <2>1. key[x] < key[y] \/ key[y] < key[x]
    BY <1>4
  <2>2. place(x) \in 1..n /\ place(y) \in 1..n
    BY <1>2
  <2>3. place(x) < place(y) \/ place(y) < place(x)
    BY <1>3, <2>1
  <2> HIDE DEF place
  <2> QED
    BY <1>1, <2>2, <2>3
<1>a. \A x \in S : place(x) = Place(S, key, x)
  BY DEF Place
<1> HIDE DEF place, n
<1>5. \A p \in 1..n : \E x \in S : place(x) = p
  <2>1. f \in [S -> 1..n] /\ \A x, y \in S : f[x] = f[y] => x = y
    BY <1>2, <1>4
  <2>2. f \in Injection(S, 1..n)
    BY <2>1 DEF Injection, IsInjective
  <2>3. IsFiniteSet(1..n) /\ Cardinality(1..n) = n
    BY <1>1, FS_Interval
  <2>4. f \in Surjection(S, 1..n)
    BY <2>2, <2>3, FS_Injection DEF n
  <2>5. \A p \in 1..n : \E x \in S : f[x] = p
    BY <2>4 DEF Surjection
  <2> QED
    BY <2>5
<1>6. order = [p \in 1..n |-> CHOOSE x \in S : place(x) = p]
  BY DEF InOrder, place, n
<1> HIDE DEF order
<1>7. ASSUME NEW p \in 1..n PROVE order[p] \in S /\ place(order[p]) = p
  BY <1>5, <1>6
<1>8. \A x \in S : place(x) \in 1..n
  BY <1>2
<1>9. order = [p \in 1..n |-> order[p]]
  BY <1>6
<1> QED
  BY <1>4, <1>7, <1>8, <1>9, <1>a DEF order, n

\* InOrder lists every element once.
LEMMA Ordered ==
  ASSUME NEW S, IsFiniteSet(S), NEW key, \A x \in S : key[x] \in Int,
         \A x, y \in S : x # y => key[x] # key[y]
  PROVE  /\ IsFile(InOrder(S, key)) /\ Len(InOrder(S, key)) = Cardinality(S)
         /\ \A p \in 1..Len(InOrder(S, key)) : InOrder(S, key)[p] \in S
         /\ \A p, q \in 1..Len(InOrder(S, key)) : InOrder(S, key)[p] = InOrder(S, key)[q] => p = q
         /\ \A x \in S : \E p \in 1..Len(InOrder(S, key)) : InOrder(S, key)[p] = x
<1> DEFINE n == Cardinality(S)
           order == InOrder(S, key)
<1>1. n \in Nat
  BY FS_CardinalityType
<1>2. /\ \A x \in S : Place(S, key, x) \in 1..n
      /\ \A x, y \in S : x # y => Place(S, key, x) # Place(S, key, y)
      /\ order = [p \in 1..n |-> order[p]]
      /\ \A p \in 1..n : order[p] \in S /\ Place(S, key, order[p]) = p
  BY OrderedByPlace
<1> HIDE DEF order, n
<1>3. IsFile(order) /\ Len(order) = n
  BY <1>1, <1>2, FunctionIsFile
<1>4. ASSUME NEW x \in S PROVE \E p \in 1..n : order[p] = x
  BY <1>2
<1> QED
  BY <1>2, <1>3, <1>4 DEF order, n

\* Sets with the same keys are listed alike.
LEMMA OrderedAlike ==
  ASSUME NEW J, IsFiniteSet(J), NEW I, NEW pi, OneToOne(pi, J, I), NEW k, NEW l,
         \A j \in J : k[j] \in Int /\ l[pi[j]] = k[j],
         \A x, y \in J : x # y => k[x] # k[y]
  PROVE  /\ Cardinality(I) = Cardinality(J)
         /\ \A p \in 1..Cardinality(J) : InOrder(I, l)[p] = pi[InOrder(J, k)[p]]
<1>1. IsFiniteSet(I) /\ Cardinality(I) = Cardinality(J)
  BY SameSize
<1>2. \A z \in I : l[z] \in Int
  BY DEF OneToOne
<1>3. \A w, z \in I : w # z => l[w] # l[z]
  BY DEF OneToOne
<1>4. ASSUME NEW j \in J PROVE Place(I, l, pi[j]) = Place(J, k, j)
  <2> DEFINE A == {y \in J : k[y] < k[j]}
             B == {z \in I : l[z] < l[pi[j]]}
             g == [y \in A |-> pi[y]]
  <2>1. \A y \in A : pi[y] \in B
    BY DEF OneToOne
  <2>2. OneToOne(g, A, B)
    <3>1. \A z \in B : \E y \in A : pi[y] = z
      BY DEF OneToOne
    <3>2. \A x, y \in A : pi[x] = pi[y] => x = y
      BY DEF OneToOne
    <3> HIDE DEF A, B
    <3> QED
      BY <2>1, <3>1, <3>2 DEF OneToOne
  <2>3. IsFiniteSet(A)
    BY FS_Subset
  <2> HIDE DEF A, B, g
  <2>4. Cardinality(B) = Cardinality(A)
    BY <2>2, <2>3, SameSize
  <2> QED
    BY <2>4 DEF Place, A, B
<1>5. ASSUME NEW p \in 1..Cardinality(J) PROVE InOrder(I, l)[p] = pi[InOrder(J, k)[p]]
  <2> DEFINE x == InOrder(J, k)[p]
             z == InOrder(I, l)[p]
  <2>1. x \in J /\ Place(J, k, x) = p
    BY OrderedByPlace
  <2>2. z \in I /\ Place(I, l, z) = p
    BY <1>1, <1>2, <1>3, OrderedByPlace
  <2>3. \A w, y \in I : w # y => Place(I, l, w) # Place(I, l, y)
    BY <1>1, <1>2, <1>3, OrderedByPlace
  <2> HIDE DEF x, z
  <2>4. pi[x] \in I /\ Place(I, l, pi[x]) = p
    BY <1>4, <2>1 DEF OneToOne
  <2>5. pi[x] = z
    BY <2>2, <2>3, <2>4
  <2> QED
    BY <2>5 DEF x, z
<1> QED
  BY <1>1, <1>5

\* A run of numbers is listed as it is.
LEMMA NumbersInOrder ==
  ASSUME NEW n \in Nat
  PROVE  InOrder(1..n, [k \in 1..n |-> k]) = [k \in 1..n |-> k]
<1> DEFINE key == [k \in 1..n |-> k]
<1>1. IsFiniteSet(1..n) /\ Cardinality(1..n) = n
  BY FS_Interval
<1>2. /\ \A x \in 1..n : key[x] \in Int
      /\ \A x, y \in 1..n : x # y => key[x] # key[y]
  OBVIOUS
<1>3. ASSUME NEW x \in 1..n PROVE Place(1..n, key, x) = x
  <2>1. {y \in 1..n : key[y] < key[x]} = 1..x - 1
    OBVIOUS
  <2>2. Cardinality(1..x - 1) = x - 1
    <3>1. x - 1 \in Int
      OBVIOUS
    <3>2. Cardinality(1..x - 1) = IF 1 > x - 1 THEN 0 ELSE x - 1 - 1 + 1
      BY <3>1, FS_Interval
    <3> QED
      BY <3>2
  <2> DEFINE B == {y \in 1..n : key[y] < key[x]}
  <2>3. Place(1..n, key, x) = 1 + Cardinality(B)
    BY DEF Place
  <2>4. B = 1..x - 1
    BY <2>1
  <2> HIDE DEF B
  <2> QED
    BY <2>2, <2>3, <2>4
<1> HIDE DEF key
<1>4. /\ InOrder(1..n, key) = [p \in 1..n |-> InOrder(1..n, key)[p]]
      /\ \A p \in 1..n : InOrder(1..n, key)[p] \in 1..n /\ Place(1..n, key, InOrder(1..n, key)[p]) = p
  <2> DEFINE S == 1..n
  <2> HIDE DEF S
  <2>1. /\ InOrder(S, key) = [p \in 1..Cardinality(S) |-> InOrder(S, key)[p]]
        /\ \A p \in 1..Cardinality(S) : InOrder(S, key)[p] \in S /\ Place(S, key, InOrder(S, key)[p]) = p
    <3>1. /\ IsFiniteSet(S) /\ \A x \in S : key[x] \in Int
          /\ \A x, y \in S : x # y => key[x] # key[y]
      BY <1>1, <1>2 DEF S
    <3> QED
      BY <3>1, OrderedByPlace
  <2> QED
    BY <1>1, <2>1 DEF S
<1>5. \A p \in 1..n : InOrder(1..n, key)[p] = p
  BY <1>3, <1>4
<1>6. InOrder(1..n, key) = [p \in 1..n |-> p]
  BY <1>4, <1>5
<1> QED
  BY <1>6 DEF key

\* The line numbers of the records are those of the lines that are not blank,
\* and no two are the same.
LEMMA LinesOfRecords ==
  ASSUME NEW lines, IsFile(lines)
  PROVE  LET numbers == RecordLines(lines)
         IN  /\ IsFile(numbers)
             /\ \A k \in 1..Len(numbers) : numbers[k] \in 1..Len(lines)
             /\ \A j, k \in 1..Len(numbers) : numbers[j] = numbers[k] => j = k
             /\ \A k \in 1..Len(numbers) : lines[numbers[k]].form # "blank"
<1> DEFINE held == {n \in 1..Len(lines) : lines[n].form # "blank"}
           key == [n \in held |-> n]
<1>1. RecordLines(lines) = InOrder(held, key)
  BY DEF RecordLines
<1>2. Len(lines) \in Nat
  BY FileProperties
<1>3. IsFiniteSet(held) /\ held \subseteq 1..Len(lines)
  <2>1. IsFiniteSet(1..Len(lines))
    BY <1>2, FS_Interval
  <2>2. held \subseteq 1..Len(lines)
    OBVIOUS
  <2> HIDE DEF held
  <2> QED
    BY <2>1, <2>2, FS_Subset
<1>4. /\ \A x \in held : key[x] \in Int
      /\ \A x, y \in held : x # y => key[x] # key[y]
  BY <1>2
<1> HIDE DEF held, key
<1>5. /\ IsFile(InOrder(held, key))
      /\ \A p \in 1..Len(InOrder(held, key)) : InOrder(held, key)[p] \in held
      /\ \A p, q \in 1..Len(InOrder(held, key)) :
            InOrder(held, key)[p] = InOrder(held, key)[q] => p = q
  BY <1>3, <1>4, Ordered
<1> QED
  BY <1>1, <1>3, <1>5 DEF held

-----------------------------------------------------------------------------
(* Members of a source *)

LEMMA MembersOfRecords ==
  ASSUME NEW lines, IsFile(lines)
  PROVE  LET numbers == RecordLines(lines)
             members == MembersOf(lines)
         IN  /\ IsFile(members) /\ Len(members) = Len(numbers)
             /\ \A k \in 1..Len(numbers) : members[k] = MemberOf(lines[numbers[k]], numbers[k])
<1> DEFINE numbers == RecordLines(lines)
           members == MembersOf(lines)
<1>1. Len(numbers) \in Nat
  BY LinesOfRecords, FileProperties
<1>2. members = [k \in 1..Len(numbers) |-> MemberOf(lines[numbers[k]], numbers[k])]
  BY DEF MembersOf
<1> HIDE DEF numbers, members
<1>3. IsFile(members) /\ Len(members) = Len(numbers)
  BY <1>1, <1>2, FunctionIsFile
<1> QED
  BY <1>2, <1>3 DEF numbers, members

\* The ids of a readable source are numbers, and name its members.
LEMMA ReadableMembers ==
  ASSUME NEW lines, IsFile(lines), NEW required, Readable(lines, required)
  PROVE  LET members == MembersOf(lines)
         IN  /\ \A k \in 1..Len(members) : members[k].id \in Int
             /\ \A j, k \in 1..Len(members) : members[j].id = members[k].id => j = k
<1> DEFINE numbers == RecordLines(lines)
           members == MembersOf(lines)
<1>1. /\ IsFile(numbers) /\ Len(members) = Len(numbers)
      /\ \A k \in 1..Len(numbers) : numbers[k] \in 1..Len(lines)
      /\ \A j, k \in 1..Len(numbers) : numbers[j] = numbers[k] => j = k
      /\ \A k \in 1..Len(numbers) : members[k] = MemberOf(lines[numbers[k]], numbers[k])
  BY LinesOfRecords, MembersOfRecords
<1>2. Len(lines) \in Nat /\ Len(numbers) \in Nat /\ DOMAIN numbers = 1..Len(numbers)
  BY <1>1, FileProperties
<1>3. \A k \in 1..Len(numbers) : members[k].id = lines[numbers[k]].id
  <2> HIDE DEF numbers, members
  <2>1. \A row, n : MemberOf(row, n).id = row.id
    BY DEF MemberOf
  <2> QED
    BY <1>1, <2>1
<1>4. \A n \in ToSet(numbers) : HasIdentity(lines[n], required) /\ IsFirstWithId(lines, n)
  BY DEF Readable
<1> HIDE DEF numbers, members
<1>5. \A k \in 1..Len(numbers) : numbers[k] \in ToSet(numbers)
  BY <1>2 DEF ToSet
<1>6. \A k \in 1..Len(members) : members[k].id \in Int
  BY <1>1, <1>3, <1>4, <1>5 DEF HasIdentity
<1>7. ASSUME NEW j \in 1..Len(numbers), NEW k \in 1..Len(numbers), numbers[j] < numbers[k]
      PROVE  lines[numbers[j]].id # lines[numbers[k]].id
  BY <1>4, <1>5, <1>7 DEF IsFirstWithId, numbers
<1>8. ASSUME NEW j \in 1..Len(members), NEW k \in 1..Len(members), members[j].id = members[k].id
      PROVE  j = k
  <2>1. numbers[j] \in Int /\ numbers[k] \in Int
    BY <1>1, <1>2
  <2>2. ~(numbers[j] < numbers[k]) /\ ~(numbers[k] < numbers[j])
    BY <1>1, <1>3, <1>7, <1>8
  <2> QED
    BY <1>1, <2>1, <2>2
<1> QED
  BY <1>6, <1>8 DEF members

\* The indexes of a split: those of the components whose anchor it owns.
OwnedIndexes(members, bucket, split) ==
    UNION {c \in AtomicComponents(members) : bucket[ComponentAnchor(members, c)] = split}

\* Assignment lists the members of each split's components, each of them once.
LEMMA OwnedAreListed ==
  ASSUME NEW members, IsFile(members),
         \A k \in 1..Len(members) : members[k].id \in Int,
         \A j, k \in 1..Len(members) : members[j].id = members[k].id => j = k,
         NEW bucket, NEW split \in Splits
  PROVE  LET owned == OwnedMembers(members, bucket)[split]
             indexes == OwnedIndexes(members, bucket, split)
         IN  /\ indexes \subseteq 1..Len(members) /\ IsFiniteSet(indexes)
             /\ IsFile(owned) /\ Len(owned) = Cardinality(indexes)
             /\ \A p \in 1..Len(owned) : \E k \in indexes : owned[p] = members[k]
             /\ \A k \in indexes : \E p \in 1..Len(owned) : owned[p] = members[k]
<1> DEFINE indexes == OwnedIndexes(members, bucket, split)
           key == [k \in indexes |-> members[k].id]
           assigned == InOrder(indexes, key)
           owned == OwnedMembers(members, bucket)[split]
<1>1. \A c \in AtomicComponents(members) : c \subseteq 1..Len(members)
  BY DEF AtomicComponents
<1>2. indexes \subseteq 1..Len(members)
  BY <1>1 DEF OwnedIndexes
<1>3. Len(members) \in Nat
  BY FileProperties
<1>4. AssignRecords(members, bucket)[split] = assigned
  BY DEF AssignRecords, SortedById, OwnedIndexes
<1>5. owned = [p \in DOMAIN assigned |-> members[assigned[p]]]
  BY <1>4 DEF OwnedMembers
<1> HIDE DEF indexes
<1>6. IsFiniteSet(indexes)
  <2>1. IsFiniteSet(1..Len(members))
    BY <1>3, FS_Interval
  <2> QED
    BY <1>2, <2>1, FS_Subset
<1>7. /\ \A x \in indexes : key[x] \in Int
      /\ \A x, y \in indexes : x # y => key[x] # key[y]
  BY <1>2
<1> HIDE DEF key, owned
<1>8. /\ IsFile(assigned) /\ Len(assigned) = Cardinality(indexes)
      /\ \A p \in 1..Len(assigned) : assigned[p] \in indexes
      /\ \A x \in indexes : \E p \in 1..Len(assigned) : assigned[p] = x
  BY <1>6, <1>7, Ordered
<1> HIDE DEF assigned
<1>9. Len(assigned) \in Nat /\ DOMAIN assigned = 1..Len(assigned)
  BY <1>8, FileProperties
<1>10. IsFile(owned) /\ Len(owned) = Len(assigned)
  BY <1>5, <1>9, FunctionIsFile
<1>11. \A p \in 1..Len(owned) : owned[p] = members[assigned[p]]
  BY <1>5, <1>9, <1>10
<1> QED
  BY <1>2, <1>6, <1>8, <1>10, <1>11 DEF owned, indexes

\* Assignment gives out members of its source, and no others.
LEMMA OwnedAreMembers ==
  ASSUME NEW members, IsFile(members),
         \A k \in 1..Len(members) : members[k].id \in Int,
         \A j, k \in 1..Len(members) : members[j].id = members[k].id => j = k,
         NEW bucket, NEW split \in Splits
  PROVE  LET owned == OwnedMembers(members, bucket)[split]
         IN  /\ IsFile(owned)
             /\ \A p \in 1..Len(owned) : \E k \in 1..Len(members) : owned[p] = members[k]
<1> DEFINE owned == OwnedMembers(members, bucket)[split]
           indexes == OwnedIndexes(members, bucket, split)
<1>1. /\ indexes \subseteq 1..Len(members) /\ IsFile(owned)
      /\ \A p \in 1..Len(owned) : \E k \in indexes : owned[p] = members[k]
  BY OwnedAreListed
<1> HIDE DEF owned, indexes
<1>2. \A p \in 1..Len(owned) : \E k \in 1..Len(members) : owned[p] = members[k]
  BY <1>1
<1> QED
  BY <1>1, <1>2 DEF owned

-----------------------------------------------------------------------------
(* Recursion over finite data *)

NatOrder == OpToRel(<, Nat)

\* Induction over the naturals, for a set of them.
LEMMA AllNaturals ==
  ASSUME NEW A, 0 \in A, \A n \in Nat : n \in A => n + 1 \in A
  PROVE  \A n \in Nat : n \in A
<1> SUFFICES ASSUME NEW q \in Nat, q \notin A PROVE FALSE
  OBVIOUS
<1> DEFINE T == {n \in Nat : n \notin A}
<1>1. T \subseteq Nat /\ T # {}
  OBVIOUS
<1>2. IsWellFoundedOn(NatOrder, Nat)
  BY NatLessThanWellFounded DEF NatOrder
<1>3. \E m \in T : \A n \in T : <<n, m>> \notin NatOrder
  <2> HIDE DEF T
  <2> QED
    BY <1>1, <1>2, WFMin
<1>4. PICK m \in T : \A n \in T : ~(n < m)
  BY <1>1, <1>3 DEF NatOrder, OpToRel
<1>5. CASE m = 0
  BY <1>4, <1>5
<1>6. CASE m # 0
  <2>1. m - 1 \in Nat /\ m - 1 < m /\ (m - 1) + 1 = m
    BY <1>4, <1>6
  <2>2. m - 1 \in A
    BY <1>4, <2>1
  <2> QED
    BY <1>4, <2>1, <2>2
<1> QED
  BY <1>5, <1>6

\* A function over the naturals can be defined by its first value and a step.
LEMMA NaturalRecursion ==
  ASSUME NEW V, NEW b \in V, NEW E \in [V -> V]
  PROVE  \E f \in [Nat -> V] : f[0] = b /\ \A n \in Nat : f[n + 1] = E[f[n]]
<1> DEFINE Begins(n, g) == /\ g \in [0..n -> V] /\ g[0] = b
                           /\ \A k \in Nat : k < n => g[k + 1] = E[g[k]]
           A == {n \in Nat : \E g : Begins(n, g)}
           G(n) == CHOOSE g : Begins(n, g)
           f == [n \in Nat |-> G(n)[n]]
<1>1. 0 \in A
  <2>1. Begins(0, [k \in 0..0 |-> b])
    OBVIOUS
  <2> QED
    BY <2>1
<1>2. ASSUME NEW n \in Nat, n \in A PROVE n + 1 \in A
  <2>1. PICK g : Begins(n, g)
    BY <1>2
  <2> DEFINE h == [k \in 0..n + 1 |-> IF k = n + 1 THEN E[g[n]] ELSE g[k]]
  <2>2. h \in [0..n + 1 -> V]
    <3>1. g[n] \in V
      BY <2>1
    <3> QED
      BY <2>1, <3>1
  <2>3. h[0] = b
    BY <2>1
  <2>4. ASSUME NEW k \in Nat, k < n + 1 PROVE h[k + 1] = E[h[k]]
    <3>1. CASE k = n
      <4>1. h[k + 1] = E[g[n]] /\ h[k] = g[k]
        BY <3>1
      <4> QED
        BY <3>1, <4>1
    <3>2. CASE k # n
      <4>1. k < n /\ k + 1 <= n /\ k + 1 \in 0..n + 1 /\ k + 1 # n + 1 /\ k \in 0..n + 1
        BY <2>4, <3>2
      <4>2. h[k + 1] = g[k + 1] /\ h[k] = g[k]
        BY <3>2, <4>1
      <4>3. g[k + 1] = E[g[k]]
        BY <2>1, <4>1
      <4> QED
        BY <4>2, <4>3
    <3> QED
      BY <3>1, <3>2
  <2>5. Begins(n + 1, h)
    <3> HIDE DEF h
    <3> QED
      BY <2>2, <2>3, <2>4
  <2> QED
    <3> HIDE DEF Begins, h
    <3> QED
      BY <2>5
<1>3. ASSUME NEW n \in Nat PROVE Begins(n, G(n))
  <2>1. n \in A
    <3> HIDE DEF A
    <3> QED
      BY <1>1, <1>2, AllNaturals
  <2> QED
    BY <2>1
<1>4. ASSUME NEW m \in Nat, NEW n \in Nat, m <= n, NEW g, NEW h, Begins(m, g), Begins(n, h)
      PROVE  g[m] = h[m]
  <2> DEFINE S == {k \in Nat : k <= m => g[k] = h[k]}
  <2>1. 0 \in S
    BY <1>4
  <2>2. ASSUME NEW k \in Nat, k \in S PROVE k + 1 \in S
    <3> SUFFICES ASSUME k + 1 <= m PROVE g[k + 1] = h[k + 1]
      OBVIOUS
    <3>1. k < m /\ k < n /\ g[k] = h[k]
      BY <1>4, <2>2
    <3>2. g[k + 1] = E[g[k]] /\ h[k + 1] = E[h[k]]
      BY <1>4, <3>1
    <3> QED
      BY <3>1, <3>2
  <2>3. m \in S
    <3> HIDE DEF S
    <3> QED
      BY <2>1, <2>2, AllNaturals
  <2> QED
    BY <2>3
<1>5. f \in [Nat -> V]
  BY <1>3
<1>6. f[0] = b
  BY <1>3
<1>7. ASSUME NEW n \in Nat PROVE f[n + 1] = E[f[n]]
  <2>1. G(n)[n] = G(n + 1)[n]
    <3> HIDE DEF Begins, G
    <3> QED
      BY <1>3, <1>4
  <2>2. G(n + 1)[n + 1] = E[G(n + 1)[n]]
    <3>1. Begins(n + 1, G(n + 1))
      <4> HIDE DEF Begins, G
      <4> QED
        BY <1>3
    <3> HIDE DEF G
    <3> QED
      BY <3>1
  <2>3. f[n] = G(n)[n] /\ f[n + 1] = G(n + 1)[n + 1]
    OBVIOUS
  <2> QED
    BY <2>1, <2>2, <2>3
<1> QED
  BY <1>5, <1>6, <1>7

\* A fold over the subsets of D that takes an element at a time.
Picks(pick, D) == \A s \in SUBSET D : s # {} => pick[s] \in s
Maps(op, D, W) == \A x \in D, w \in W : op[<<x, w>>] \in W
FoldsOver(iter, op, pick, b, D, W) ==
  iter \in [SUBSET D -> W] /\ \A s \in SUBSET D : iter[s] = IF s = {} THEN b ELSE op[<<pick[s], iter[s \ {pick[s]}]>>]

\* Such a fold of a finite set exists, for any operation on it.
LEMMA SubsetRecursion ==
  ASSUME NEW D, IsFiniteSet(D), NEW W, NEW b \in W, NEW pick, NEW op,
         Picks(pick, D), Maps(op, D, W)
  PROVE  \E iter : FoldsOver(iter, op, pick, b, D, W)
<1> USE DEF Picks, Maps
<1> DEFINE V == [SUBSET D -> W]
           Next1(F) == [s \in SUBSET D |-> IF s = {} THEN b ELSE op[<<pick[s], F[s \ {pick[s]}]>>]]
           E == [F \in V |-> Next1(F)]
           start == [s \in SUBSET D |-> b]
<1>1. start \in V
  OBVIOUS
<1>2. ASSUME NEW F \in V PROVE Next1(F) \in V
  OBVIOUS
<1>3. ASSUME NEW F \in V PROVE E[F] = Next1(F)
  OBVIOUS
<1>3a. E \in [V -> V]
  <2> HIDE DEF V, Next1
  <2> QED
    BY <1>2
<1>4. PICK f \in [Nat -> V] : f[0] = start /\ \A n \in Nat : f[n + 1] = E[f[n]]
  <2> HIDE DEF V, Next1, E, start
  <2> QED
    BY <1>1, <1>3a, NaturalRecursion
<1>5. ASSUME NEW n \in Nat PROVE f[n] \in V /\ f[n + 1] = Next1(f[n])
  <2> HIDE DEF V, Next1, E, start
  <2> QED
    BY <1>3, <1>4
<1>5a. ASSUME NEW n \in Nat, NEW s \in SUBSET D
       PROVE  f[n + 1][s] = IF s = {} THEN b ELSE op[<<pick[s], f[n][s \ {pick[s]}]>>]
  <2>1. f[n + 1] = Next1(f[n])
    BY <1>5
  <2> QED
    BY <2>1
<1> DEFINE Same(n) == \A s \in SUBSET D : Cardinality(s) <= n => f[n + 1][s] = f[n][s]
           A == {n \in Nat : Same(n)}
<1>6. ASSUME NEW s \in SUBSET D PROVE IsFiniteSet(s) /\ Cardinality(s) \in Nat /\ Cardinality(s) <= Cardinality(D)
  BY FS_Subset, FS_CardinalityType
<1>7. 0 \in A
  <2> SUFFICES ASSUME NEW s \in SUBSET D, Cardinality(s) <= 0 PROVE f[0 + 1][s] = f[0][s]
    OBVIOUS
  <2>1. s = {}
    BY <1>6, FS_EmptySet
  <2>2. f[1][s] = b
    BY <1>5a, <2>1, 0 + 1 = 1
  <2> QED
    BY <1>4, <2>1, <2>2
<1>8. ASSUME NEW n \in Nat, n \in A PROVE n + 1 \in A
  <2> SUFFICES ASSUME NEW s \in SUBSET D, Cardinality(s) <= n + 1
               PROVE  f[(n + 1) + 1][s] = f[n + 1][s]
    OBVIOUS
  <2>0. n + 1 \in Nat
    OBVIOUS
  <2>1. CASE s = {}
    BY <1>5a, <2>0, <2>1
  <2>2. CASE s # {}
    <3> DEFINE t == s \ {pick[s]}
    <3>1. pick[s] \in s /\ t \in SUBSET D
      BY <2>2
    <3>2. Cardinality(t) = Cardinality(s) - 1
      BY <1>6, <3>1, FS_RemoveElement
    <3>3. f[n + 1][t] = f[n][t]
      BY <1>6, <1>8, <3>1, <3>2
    <3>4. f[(n + 1) + 1][s] = op[<<pick[s], f[n + 1][t]>>]
      BY <1>5a, <2>0, <2>2
    <3>5. f[n + 1][s] = op[<<pick[s], f[n][t]>>]
      BY <1>5a, <2>2
    <3> QED
      BY <3>3, <3>4, <3>5
  <2> QED
    BY <2>1, <2>2
<1>9. Cardinality(D) \in A
  <2>1. Cardinality(D) \in Nat
    BY FS_CardinalityType
  <2> HIDE DEF A
  <2> QED
    BY <1>7, <1>8, <2>1, AllNaturals
<1> DEFINE iter == f[Cardinality(D)]
<1>10. Cardinality(D) \in Nat /\ iter \in V
  BY <1>5, FS_CardinalityType
<1>11. f[Cardinality(D) + 1] = iter
  <2>1. f[Cardinality(D) + 1] \in V
    BY <1>5, <1>10
  <2>2. \A s \in SUBSET D : f[Cardinality(D) + 1][s] = iter[s]
    BY <1>6, <1>9
  <2> QED
    BY <1>10, <2>1, <2>2
<1>12. ASSUME NEW s \in SUBSET D
       PROVE  iter[s] = IF s = {} THEN b ELSE op[<<pick[s], iter[s \ {pick[s]}]>>]
  <2>1. f[Cardinality(D) + 1][s] =
           IF s = {} THEN b ELSE op[<<pick[s], f[Cardinality(D)][s \ {pick[s]}]>>]
    BY <1>5a, <1>10
  <2>2. f[Cardinality(D)] = iter
    OBVIOUS
  <2> HIDE DEF iter
  <2> QED
    BY <1>11, <2>1, <2>2
<1>13. FoldsOver(iter, op, pick, b, D, W)
  <2> HIDE DEF iter
  <2> QED
    BY <1>10, <1>12 DEF FoldsOver
<1> HIDE DEF iter
<1> QED
  BY <1>13

\* A function can be defined by following a path until it stops: what it is on
\* the paths that never stop is of no account.
PathTo(v, o, T, Stop, out, V) ==
  \E n \in Nat : \E g \in [0..n -> V] :
     /\ g[0] = v /\ g[n] \in Stop /\ o = out[g[n]]
     /\ \A k \in Nat : k < n => g[k] \notin Stop /\ g[k + 1] = T[g[k]]

FollowsPaths(f, T, Stop, out, V) ==
  \A v \in V : f[v] = IF v \in Stop THEN out[v] ELSE f[T[v]]

\* A function that follows a step until it stops exists: what a loop written as
\* a recursive function needs before its equation can be used.
LEMMA PathRecursion ==
  ASSUME NEW V, NEW T \in [V -> V], NEW Stop, NEW out
  PROVE  \E f : f = [v \in V |-> f[v]] /\ FollowsPaths(f, T, Stop, out, V)
<1> DEFINE P(v, o) == PathTo(v, o, T, Stop, out, V)
           f == [v \in V |-> CHOOSE o : P(v, o)]
<1>1. ASSUME NEW v \in V, v \in Stop, NEW o PROVE P(v, o) <=> o = out[v]
  <2>1. ASSUME P(v, o) PROVE o = out[v]
    <3>1. PICK n \in Nat : \E g \in [0..n -> V] :
               /\ g[0] = v /\ g[n] \in Stop /\ o = out[g[n]]
               /\ \A k \in Nat : k < n => g[k] \notin Stop /\ g[k + 1] = T[g[k]]
      BY <2>1 DEF PathTo
    <3>2. PICK g \in [0..n -> V] :
               /\ g[0] = v /\ g[n] \in Stop /\ o = out[g[n]]
               /\ \A k \in Nat : k < n => g[k] \notin Stop /\ g[k + 1] = T[g[k]]
      BY <3>1
    <3>3. n = 0
      BY <1>1, <3>2
    <3> QED
      BY <3>2, <3>3
  <2>2. ASSUME o = out[v] PROVE P(v, o)
    <3> DEFINE g == [k \in 0..0 |-> v]
    <3>1. /\ g \in [0..0 -> V] /\ g[0] = v /\ g[0] \in Stop /\ o = out[g[0]]
          /\ \A k \in Nat : k < 0 => g[k] \notin Stop /\ g[k + 1] = T[g[k]]
      BY <1>1, <2>2
    <3> HIDE DEF g
    <3> QED
      BY <3>1 DEF PathTo
  <2> QED
    BY <2>1, <2>2
<1>2. ASSUME NEW v \in V, v \notin Stop, NEW o PROVE P(v, o) <=> P(T[v], o)
  <2>1. ASSUME P(v, o) PROVE P(T[v], o)
    <3>1. PICK n \in Nat : \E g \in [0..n -> V] :
               /\ g[0] = v /\ g[n] \in Stop /\ o = out[g[n]]
               /\ \A k \in Nat : k < n => g[k] \notin Stop /\ g[k + 1] = T[g[k]]
      BY <2>1 DEF PathTo
    <3>2. PICK g \in [0..n -> V] :
               /\ g[0] = v /\ g[n] \in Stop /\ o = out[g[n]]
               /\ \A k \in Nat : k < n => g[k] \notin Stop /\ g[k + 1] = T[g[k]]
      BY <3>1
    <3> DEFINE m == n - 1
               h == [k \in 0..m |-> g[k + 1]]
    <3>3. m \in Nat /\ m + 1 = n
      BY <1>2, <3>2
    <3>4. h \in [0..m -> V] /\ h[0] = T[v] /\ h[m] = g[n]
      BY <3>2, <3>3
    <3>5. ASSUME NEW k \in Nat, k < m PROVE h[k] \notin Stop /\ h[k + 1] = T[h[k]]
      <4>1. h[k] = g[k + 1] /\ h[k + 1] = g[(k + 1) + 1]
        BY <3>3, <3>5
      <4>2. k + 1 \in Nat /\ k + 1 < n
        BY <3>3, <3>5
      <4> QED
        BY <3>2, <4>1, <4>2
    <3> HIDE DEF h, m
    <3> QED
      BY <3>2, <3>3, <3>4, <3>5 DEF PathTo
  <2>2. ASSUME P(T[v], o) PROVE P(v, o)
    <3>1. PICK n \in Nat : \E g \in [0..n -> V] :
               /\ g[0] = T[v] /\ g[n] \in Stop /\ o = out[g[n]]
               /\ \A k \in Nat : k < n => g[k] \notin Stop /\ g[k + 1] = T[g[k]]
      BY <2>2 DEF PathTo
    <3>2. PICK g \in [0..n -> V] :
               /\ g[0] = T[v] /\ g[n] \in Stop /\ o = out[g[n]]
               /\ \A k \in Nat : k < n => g[k] \notin Stop /\ g[k + 1] = T[g[k]]
      BY <3>1
    <3> DEFINE m == n + 1
               h == [k \in 0..m |-> IF k = 0 THEN v ELSE g[k - 1]]
    <3>3. m \in Nat /\ m - 1 = n /\ m # 0
      OBVIOUS
    <3>4. h \in [0..m -> V] /\ h[0] = v /\ h[m] = g[n]
      <4>1. \A k \in 0..m : k # 0 => k - 1 \in 0..n
        OBVIOUS
      <4> QED
        BY <3>2, <3>3, <4>1
    <3>5. ASSUME NEW k \in Nat, k < m PROVE h[k] \notin Stop /\ h[k + 1] = T[h[k]]
      <4>1. CASE k = 0
        <5>1. h[0] = v /\ h[0 + 1] = g[0]
          BY <3>3
        <5> QED
          BY <1>2, <3>2, <4>1, <5>1
      <4>2. CASE k # 0
        <5>1. k - 1 \in Nat /\ k - 1 < n /\ (k - 1) + 1 = k
          BY <3>5, <4>2
        <5>2. h[k] = g[k - 1] /\ h[k + 1] = g[k]
          BY <3>5, <4>2
        <5> QED
          BY <3>2, <5>1, <5>2
      <4> QED
        BY <4>1, <4>2
    <3> HIDE DEF h, m
    <3> QED
      BY <3>2, <3>3, <3>4, <3>5 DEF PathTo
  <2> QED
    BY <2>1, <2>2
<1>3. ASSUME NEW v \in V PROVE f[v] = IF v \in Stop THEN out[v] ELSE f[T[v]]
  <2> HIDE DEF P
  <2>1. CASE v \in Stop
    <3>1. (CHOOSE o : P(v, o)) = out[v]
      BY <1>1, <2>1
    <3> QED
      BY <2>1, <3>1
  <2>2. CASE v \notin Stop
    <3>1. (CHOOSE o : P(v, o)) = (CHOOSE o : P(T[v], o))
      BY <1>2, <2>2
    <3>2. T[v] \in V
      OBVIOUS
    <3>3. f[v] = (CHOOSE o : P(v, o)) /\ f[T[v]] = (CHOOSE o : P(T[v], o))
      BY <3>2
    <3> HIDE DEF f
    <3> QED
      BY <2>2, <3>1, <3>3
  <2> QED
    BY <2>1, <2>2
<1> HIDE DEF f
<1>4. f = [v \in V |-> f[v]]
  BY DEF f
<1> QED
  BY <1>3, <1>4 DEF FollowsPaths

\* As NaturalRecursion, with a step that knows its number.
Counts(f, b, E, V) == /\ f \in [Nat -> V] /\ f[0] = b
                      /\ \A n \in Nat : f[n + 1] = E[<<n, f[n]>>]

\* The same with the number of the step at hand.
LEMMA CountedRecursion ==
  ASSUME NEW V, NEW b \in V, NEW E, \A n \in Nat, v \in V : E[<<n, v>>] \in V
  PROVE  \E f : Counts(f, b, E, V)
<1> DEFINE W == Nat \X V
           F == [w \in W |-> <<w[1] + 1, E[<<w[1], w[2]>>]>>]
           start == <<0, b>>
<1>1. start \in W /\ F \in [W -> W]
  OBVIOUS
<1>2. PICK h \in [Nat -> W] : h[0] = start /\ \A n \in Nat : h[n + 1] = F[h[n]]
  <2> HIDE DEF W, F, start
  <2> QED
    BY <1>1, NaturalRecursion, SMTT(30)
<1>3. ASSUME NEW n \in Nat PROVE h[n] \in W /\ h[n + 1] = <<h[n][1] + 1, E[<<h[n][1], h[n][2]>>]>>
  BY <1>2
<1> DEFINE A == {n \in Nat : h[n][1] = n}
<1>4. 0 \in A
  BY <1>2
<1>5. ASSUME NEW n \in Nat, n \in A PROVE n + 1 \in A
  BY <1>3, <1>5
<1>6. \A n \in Nat : n \in A
  <2> HIDE DEF A
  <2> QED
    BY <1>4, <1>5, AllNaturals
<1> DEFINE f == [n \in Nat |-> h[n][2]]
<1>7. f \in [Nat -> V] /\ f[0] = b
  BY <1>2, <1>3
<1>8. ASSUME NEW n \in Nat PROVE f[n + 1] = E[<<n, f[n]>>]
  <2>1. h[n][1] = n /\ f[n] = h[n][2] /\ f[n + 1] = h[n + 1][2]
    BY <1>6
  <2> HIDE DEF f
  <2> QED
    BY <1>3, <2>1
<1> HIDE DEF f
<1> QED
  BY <1>7, <1>8 DEF Counts

-----------------------------------------------------------------------------
(* Union-find *)

\* Parent pointers and what they stand for: R names the root an item leads to,
\* and d falls along every pointer.
Leads(p, R, d, Items) ==
  /\ p \in [Items -> Items] /\ R \in [Items -> Items] /\ d \in [Items -> Nat]
  /\ \A i \in Items : /\ R[p[i]] = R[i]
                      /\ p[i] = i => R[i] = i
                      /\ p[i] # i => d[p[i]] < d[i]

\* _UnionFind.find is a walk: it stops at an item that is its own parent, and
\* otherwise halves the path and goes on.
LEMMA FoundEquation ==
  ASSUME NEW Items, NEW p \in [Items -> Items], NEW i \in Items
  PROVE  Found(p, i) = IF p[i] = i THEN [parents |-> p, root |-> i]
                       ELSE Found([p EXCEPT ![i] = p[p[i]]], p[p[i]])
<1> DEFINE V == [parents : [Items -> Items], root : Items]
           Halved(v) == [parents |-> [v.parents EXCEPT ![v.root] = v.parents[v.parents[v.root]]],
                         root |-> v.parents[v.parents[v.root]]]
           walk[at \in V] ==
             LET q == at.parents
                 j == at.root
             IN  IF q[j] = j THEN at
                 ELSE walk[[parents |-> [q EXCEPT ![j] = q[q[j]]], root |-> q[q[j]]]]
<1>1. ASSUME NEW q \in [Items -> Items], NEW j \in Items
      PROVE  Found(q, j) = walk[[parents |-> q, root |-> j]]
  <2>1. DOMAIN q = Items
    OBVIOUS
  <2> QED
    BY <2>1 DEF Found
<1>2. \E f : f = [v \in V |-> IF v.parents[v.root] = v.root THEN v ELSE f[Halved(v)]]
  <2> DEFINE T == [v \in V |-> Halved(v)]
             out == [v \in V |-> v]
             Stop == {v \in V : v.parents[v.root] = v.root}
  <2>1. T \in [V -> V]
    OBVIOUS
  <2>2. PICK f : f = [v \in V |-> f[v]] /\ FollowsPaths(f, T, Stop, out, V)
    <3> HIDE DEF V, T, out, Stop
    <3> QED
      BY <2>1, PathRecursion
  <2>3. ASSUME NEW v \in V PROVE f[v] = IF v.parents[v.root] = v.root THEN v ELSE f[Halved(v)]
    <3>1. f[v] = IF v \in Stop THEN out[v] ELSE f[T[v]]
      BY <2>2 DEF FollowsPaths
    <3>2. v \in Stop <=> v.parents[v.root] = v.root
      OBVIOUS
    <3>3. out[v] = v /\ T[v] = Halved(v)
      OBVIOUS
    <3> HIDE DEF V, T, out, Stop, Halved
    <3> QED
      BY <3>1, <3>2, <3>3
  <2>4. f = [v \in V |-> IF v.parents[v.root] = v.root THEN v ELSE f[Halved(v)]]
    <3> HIDE DEF V, Halved
    <3> QED
      BY <2>2, <2>3
  <2> QED
    <3> HIDE DEF V, Halved
    <3> QED
      BY <2>4, Zenon
<1>3. walk = [v \in V |-> IF v.parents[v.root] = v.root THEN v ELSE walk[Halved(v)]]
  <2> HIDE DEF V
  <2> QED
    BY <1>2, Zenon DEF walk
<1> DEFINE v == [parents |-> p, root |-> i]
<1>4. v \in V /\ v.parents[v.root] = p[i] /\ v.root = i
  OBVIOUS
<1>5. Halved(v) = [parents |-> [p EXCEPT ![i] = p[p[i]]], root |-> p[p[i]]]
  OBVIOUS
<1>6. walk[v] = IF p[i] = i THEN v ELSE walk[Halved(v)]
  <2> HIDE DEF V, Halved, v, walk
  <2> QED
    BY <1>3, <1>4
<1>7. [p EXCEPT ![i] = p[p[i]]] \in [Items -> Items] /\ p[p[i]] \in Items
  OBVIOUS
<1>8. Found(p, i) = walk[v]
  <2> HIDE DEF walk
  <2> QED
    BY <1>1
<1>9. Found([p EXCEPT ![i] = p[p[i]]], p[p[i]]) = walk[Halved(v)]
  <2> DEFINE h == [p EXCEPT ![i] = p[p[i]]]
  <2>1. h \in [Items -> Items] /\ p[p[i]] \in Items
    BY <1>7
  <2> HIDE DEF walk, h, V
  <2>2. Found(h, p[p[i]]) = walk[[parents |-> h, root |-> p[p[i]]]]
    BY <1>1, <2>1
  <2>3. Halved(v) = [parents |-> h, root |-> p[p[i]]]
    BY <1>5 DEF h
  <2> HIDE DEF Halved
  <2> QED
    BY <2>2, <2>3 DEF h
<1> HIDE DEF walk, Halved
<1> QED
  BY <1>6, <1>8, <1>9

\* find returns the root an item leads to, leaves every item leading where it
\* led, and the root its own parent.
FindsRoot(p, R, d, Items, i) ==
  /\ Found(p, i).root = R[i]
  /\ Leads(Found(p, i).parents, R, d, Items)
  /\ Found(p, i).parents[R[i]] = R[i]

\* find returns the root of its item, and halving the path on the way leaves
\* every item under the root it had.
LEMMA FoundRoot ==
  ASSUME NEW Items, NEW p, NEW R, NEW d, Leads(p, R, d, Items), NEW i \in Items
  PROVE  FindsRoot(p, R, d, Items, i)
<1> DEFINE A == {n \in Nat : \A q, j : Leads(q, R, d, Items) /\ j \in Items /\ d[j] < n
                                          => FindsRoot(q, R, d, Items, j)}
<1>1. 0 \in A
  BY DEF Leads
<1>2. ASSUME NEW n \in Nat, n \in A PROVE n + 1 \in A
  <2> SUFFICES ASSUME NEW q, NEW j \in Items, Leads(q, R, d, Items), d[j] < n + 1
               PROVE  FindsRoot(q, R, d, Items, j)
    OBVIOUS
  <2>1. CASE q[j] = j
    <3>1. Found(q, j) = [parents |-> q, root |-> j]
      BY <2>1, FoundEquation DEF Leads
    <3>2. R[j] = j
      BY <2>1 DEF Leads
    <3> QED
      BY <2>1, <3>1, <3>2 DEF FindsRoot
  <2>2. CASE q[j] # j
    <3> DEFINE h == [q EXCEPT ![j] = q[q[j]]]
               k == q[q[j]]
    <3>1. /\ q \in [Items -> Items] /\ q[j] \in Items /\ k \in Items
          /\ d[q[j]] < d[j] /\ R[q[j]] = R[j] /\ R[k] = R[j]
          /\ q[q[j]] # q[j] => d[k] < d[q[j]]
          /\ d[j] \in Nat /\ d[k] \in Nat /\ d[q[j]] \in Nat
      BY <2>2 DEF Leads
    <3>2. d[k] < d[j] /\ d[k] < n /\ k # j
      BY <3>1
    <3>3. Leads(h, R, d, Items)
      <4>1. h \in [Items -> Items] /\ h[j] = k /\ \A i2 \in Items : i2 # j => h[i2] = q[i2]
        BY <3>1
      <4> HIDE DEF h, k
      <4> QED
        BY <3>1, <3>2, <4>1 DEF Leads
    <3>4. FindsRoot(h, R, d, Items, k)
      BY <1>2, <3>1, <3>2, <3>3
    <3>5. Found(q, j) = Found(h, k)
      BY <2>2, <3>1, FoundEquation
    <3> HIDE DEF h, k
    <3> QED
      BY <3>1, <3>4, <3>5 DEF FindsRoot
  <2> QED
    BY <2>1, <2>2
<1>3. d[i] \in Nat /\ d[i] + 1 \in Nat /\ d[i] < d[i] + 1
  BY DEF Leads
<1>4. d[i] + 1 \in A
  <2> HIDE DEF A
  <2> QED
    BY <1>1, <1>2, <1>3, AllNaturals
<1> QED
  BY <1>3, <1>4

\* Both classes in one, under the left one's root.
Merged(R, l, r, Items) == [j \in Items |-> IF R[j] = R[r] THEN R[l] ELSE R[j]]

\* union makes one class of two, and disturbs no other.
LEMMA JoinedClasses ==
  ASSUME NEW Items, NEW p, NEW R, NEW d, Leads(p, R, d, Items), NEW l \in Items, NEW r \in Items
  PROVE  \E e : Leads(Joined(p, l, r), Merged(R, l, r, Items), e, Items)
<1> DEFINE left == Found(p, l)
           right == Found(left.parents, r)
           q == right.parents
           a == R[l]
           b == R[r]
<1>1. left.root = a /\ Leads(left.parents, R, d, Items) /\ left.parents[a] = a
  BY FoundRoot DEF FindsRoot
<1>2. right.root = b /\ Leads(q, R, d, Items) /\ q[b] = b
  <2> HIDE DEF left
  <2> QED
    BY <1>1, FoundRoot DEF FindsRoot
<1> HIDE DEF left, right, q
<1>3. a \in Items /\ b \in Items /\ R[a] = a /\ R[b] = b
  BY <1>1, <1>2 DEF Leads
<1>4. Joined(p, l, r) = IF a = b THEN q ELSE [q EXCEPT ![b] = a]
  BY <1>1, <1>2 DEF Joined, left, right, q
<1>5. CASE a = b
  <2>1. Merged(R, l, r, Items) = R
    BY <1>2, <1>5 DEF Merged, Leads
  <2> QED
    BY <1>2, <1>4, <1>5, <2>1
<1>6. CASE a # b
  <2> DEFINE e == [j \in Items |-> IF R[j] = b THEN d[j] + d[a] + 1 ELSE d[j]]
             S == Merged(R, l, r, Items)
             t == [q EXCEPT ![b] = a]
  <2>1. S \in [Items -> Items] /\ \A j \in Items : S[j] = IF R[j] = b THEN a ELSE R[j]
    BY <1>2, <1>3 DEF Merged, Leads
  <2>2. e \in [Items -> Nat]
    BY <1>2, <1>3 DEF Leads
  <2>3. t \in [Items -> Items] /\ t[b] = a /\ \A j \in Items : j # b => t[j] = q[j]
    BY <1>2, <1>3 DEF Leads
  <2>4. ASSUME NEW j \in Items
        PROVE  /\ S[t[j]] = S[j]
               /\ t[j] = j => S[j] = j
               /\ t[j] # j => e[t[j]] < e[j]
    <3>1. CASE j = b
      <4>1. S[t[j]] = a /\ S[j] = a
        BY <1>3, <1>6, <2>1, <2>3, <3>1
      <4>2. e[a] = d[a] /\ e[b] = d[b] + d[a] + 1
        BY <1>3, <1>6
      <4>3. d[a] \in Nat /\ d[b] \in Nat
        BY <1>2, <1>3 DEF Leads
      <4>4. e[t[j]] < e[j]
        BY <2>3, <3>1, <4>2, <4>3
      <4> HIDE DEF e, S, t
      <4> QED
        BY <1>6, <2>3, <3>1, <4>1, <4>4
    <3>2. CASE j # b
      <4>1. t[j] = q[j] /\ q[j] \in Items /\ R[q[j]] = R[j]
        BY <1>2, <2>3, <3>2 DEF Leads
      <4>2. S[t[j]] = S[j]
        BY <2>1, <4>1
      <4>3. ASSUME t[j] = j PROVE S[j] = j
        <5>1. R[j] = j
          BY <1>2, <4>1, <4>3 DEF Leads
        <5> QED
          BY <2>1, <3>2, <5>1
      <4>4. ASSUME t[j] # j PROVE e[t[j]] < e[j]
        <5>1. d[q[j]] < d[j] /\ d[q[j]] \in Nat /\ d[j] \in Nat /\ d[a] \in Nat
          BY <1>2, <1>3, <4>1, <4>4 DEF Leads
        <5>2. e[t[j]] = IF R[j] = b THEN d[q[j]] + d[a] + 1 ELSE d[q[j]]
          BY <4>1
        <5>3. e[j] = IF R[j] = b THEN d[j] + d[a] + 1 ELSE d[j]
          OBVIOUS
        <5> HIDE DEF e
        <5> QED
          BY <5>1, <5>2, <5>3
      <4> HIDE DEF e, S, t
      <4> QED
        BY <4>2, <4>3, <4>4
    <3> QED
      BY <3>1, <3>2
  <2>5. Joined(p, l, r) = t
    BY <1>4, <1>6
  <2> HIDE DEF e, S, t
  <2>6. Leads(t, S, e, Items)
    BY <2>1, <2>2, <2>3, <2>4 DEF Leads
  <2> QED
    BY <2>5, <2>6 DEF S
<1> QED
  BY <1>5, <1>6

-----------------------------------------------------------------------------
(* Folds and lists of lists *)

\* FlattenSeq appends the lists to each other, first to last.
Gathers(f, seqs) ==
  /\ \A i \in 1..Len(seqs) : f[i] = IF i = 1 THEN seqs[i] ELSE f[i - 1] \o seqs[i]
  /\ FlattenSeq(seqs) = f[Len(seqs)]

\* The partial results of concatenating a list of lists exist.
LEMMA FlatteningUnrolls ==
  ASSUME NEW X, NEW seqs \in Seq(Seq(X)), Len(seqs) # 0
  PROVE  \E f : Gathers(f, seqs)
<1> DEFINE n == Len(seqs)
           flatten[i \in 1..n] == IF i = 1 THEN seqs[i] ELSE flatten[i - 1] \o seqs[i]
<1>0. n \in Nat /\ \A k \in 1..n : seqs[k] \in Seq(X)
  BY LenProperties, ElementOfSeq
<1>1. FlattenSeq(seqs) = flatten[n]
  BY DEF FlattenSeq
<1>2. \E f : f = [i \in 1..n |-> IF i = 1 THEN seqs[i] ELSE f[i - 1] \o seqs[i]]
  <2> DEFINE V == Seq(X)
             E == [w \in Nat \X V |-> IF w[1] + 1 \in 1..n THEN w[2] \o seqs[w[1] + 1] ELSE w[2]]
  <2>1. <<>> \in V
    OBVIOUS
  <2>2. \A k \in Nat, v \in V : E[<<k, v>>] \in V
    <3> SUFFICES ASSUME NEW k \in Nat, NEW v \in V PROVE E[<<k, v>>] \in V
      OBVIOUS
    <3>1. CASE k + 1 \in 1..n
      <4>1. v \o seqs[k + 1] \in Seq(X)
        BY <1>0, <3>1, ConcatProperties
      <4> QED
        BY <3>1, <4>1
    <3>2. CASE k + 1 \notin 1..n
      BY <3>2
    <3> QED
      BY <3>1, <3>2
  <2>3. PICK g : Counts(g, <<>>, E, V)
    <3> HIDE DEF V, E
    <3> QED
      BY <2>1, <2>2, CountedRecursion
  <2>4. g \in [Nat -> V] /\ g[0] = <<>> /\ \A k \in Nat : g[k + 1] = E[<<k, g[k]>>]
    BY <2>3 DEF Counts
  <2>5. ASSUME NEW k \in 1..n PROVE g[k] = g[k - 1] \o seqs[k] /\ g[k - 1] \in Seq(X)
    <3>1. k - 1 \in Nat /\ (k - 1) + 1 = k /\ g[k - 1] \in V
      BY <2>4
    <3>2. g[(k - 1) + 1] = E[<<k - 1, g[k - 1]>>]
      BY <2>4, <3>1
    <3>3. E[<<k - 1, g[k - 1]>>] = g[k - 1] \o seqs[k]
      BY <3>1
    <3> HIDE DEF E
    <3> QED
      BY <3>1, <3>2, <3>3
  <2>6. \A s \in Seq(X) : <<>> \o s = s
    BY ConcatEmptySeq
  <2> DEFINE f == [i \in 1..n |-> g[i]]
  <2>7. ASSUME NEW i \in 1..n PROVE f[i] = IF i = 1 THEN seqs[i] ELSE f[i - 1] \o seqs[i]
    <3>1. CASE i = 1
      <4>1. g[i] = g[i - 1] \o seqs[i] /\ seqs[i] \in Seq(X)
        BY <1>0, <2>5
      <4>2. g[i - 1] = <<>>
        BY <2>4, <3>1
      <4>3. g[i] = seqs[i]
        <5> HIDE DEF V, E
        <5> QED
          BY <2>6, <4>1, <4>2
      <4> QED
        BY <3>1, <4>3
    <3>2. CASE i # 1
      <4>1. i - 1 \in 1..n
        BY <3>2
      <4> QED
        BY <2>5, <3>2, <4>1
    <3> QED
      BY <3>1, <3>2
  <2>8. f = [i \in 1..n |-> IF i = 1 THEN seqs[i] ELSE f[i - 1] \o seqs[i]]
    BY <2>7
  <2> HIDE DEF n, f
  <2> QED
    BY <2>8, Zenon
<1>3. flatten = [i \in 1..n |-> IF i = 1 THEN seqs[i] ELSE flatten[i - 1] \o seqs[i]]
  <2> HIDE DEF n
  <2> QED
    BY <1>2, Zenon DEF flatten
<1> HIDE DEF flatten
<1>4. \A i \in 1..n : flatten[i] = IF i = 1 THEN seqs[i] ELSE flatten[i - 1] \o seqs[i]
  BY <1>3
<1>5. Gathers(flatten, seqs)
  BY <1>1, <1>4 DEF Gathers
<1> QED
  BY <1>5

\* Concatenating the lists of a list gives a list of their elements.
LEMMA Flattened ==
  ASSUME NEW X, NEW seqs \in Seq(Seq(X))
  PROVE  /\ FlattenSeq(seqs) \in Seq(X)
         /\ ToSet(FlattenSeq(seqs)) = UNION {ToSet(seqs[k]) : k \in 1..Len(seqs)}
<1> DEFINE n == Len(seqs)
<1>1. n \in Nat /\ \A k \in 1..n : seqs[k] \in Seq(X)
  BY LenProperties, ElementOfSeq
<1>2. CASE n = 0
  <2>1. seqs = <<>>
    BY <1>2, EmptySeq
  <2>2. FlattenSeq(seqs) = <<>> /\ Len(<<>>) = 0
    BY <1>2, <2>1, EmptySeq DEF FlattenSeq
  <2>3. <<>> \in Seq(X) /\ ToSet(<<>>) = {}
    BY DEF ToSet
  <2>4. UNION {ToSet(seqs[k]) : k \in 1..n} = {}
    BY <1>2
  <2> QED
    BY <2>2, <2>3, <2>4
<1>3. CASE n # 0
  <2>1. PICK flatten : Gathers(flatten, seqs)
    BY <1>3, FlatteningUnrolls
  <2>3. /\ \A i \in 1..n : flatten[i] = IF i = 1 THEN seqs[i] ELSE flatten[i - 1] \o seqs[i]
        /\ FlattenSeq(seqs) = flatten[n]
    BY <2>1 DEF Gathers
  <2> DEFINE Holds(i) == flatten[i] \in Seq(X) /\ ToSet(flatten[i]) = UNION {ToSet(seqs[k]) : k \in 1..i}
             A == {k \in Nat : k < n => Holds(k + 1)}
  <2>4. 0 \in A
    <3>1. flatten[1] = seqs[1] /\ 1 \in 1..n
      BY <1>1, <1>3, <2>3
    <3>2. UNION {ToSet(seqs[k]) : k \in 1..1} = ToSet(seqs[1])
      OBVIOUS
    <3>3. Holds(1)
      BY <1>1, <3>1, <3>2
    <3> HIDE DEF Holds
    <3> QED
      BY <3>3, 0 + 1 = 1
  <2>5. ASSUME NEW k \in Nat, k \in A PROVE k + 1 \in A
    <3> SUFFICES ASSUME k + 1 < n PROVE Holds((k + 1) + 1)
      OBVIOUS
    <3> DEFINE j == k + 1
    <3>1. j \in Nat /\ j + 1 \in 1..n /\ j + 1 # 1 /\ (j + 1) - 1 = j /\ Holds(j)
      BY <1>1, <2>5
    <3> HIDE DEF j
    <3>2. flatten[j + 1] = flatten[j] \o seqs[j + 1] /\ seqs[j + 1] \in Seq(X)
      BY <1>1, <2>3, <3>1
    <3>3. flatten[j + 1] \in Seq(X)
      BY <3>1, <3>2, ConcatProperties
    <3>4. ToSet(flatten[j + 1]) = ToSet(flatten[j]) \cup ToSet(seqs[j + 1])
      <4>1. \A s, t \in Seq(X) : Range(s \o t) = Range(s) \cup Range(t)
        BY RangeConcatenation
      <4>2. Range(flatten[j + 1]) = Range(flatten[j]) \cup Range(seqs[j + 1])
        BY <3>1, <3>2, <4>1
      <4>3. \A s : Range(s) = ToSet(s)
        BY DEF ToSet, Range
      <4> QED
        BY <4>2, <4>3
    <3>5. UNION {ToSet(seqs[i]) : i \in 1..(j + 1)}
             = (UNION {ToSet(seqs[i]) : i \in 1..j}) \cup ToSet(seqs[j + 1])
      <4>1. 1..(j + 1) = (1..j) \cup {j + 1}
        BY <3>1
      <4> QED
        BY <4>1
    <3> QED
      BY <3>1, <3>3, <3>4, <3>5 DEF j
  <2>6. n - 1 \in A
    <3>1. n - 1 \in Nat
      BY <1>1, <1>3
    <3> HIDE DEF A
    <3> QED
      BY <2>4, <2>5, <3>1, AllNaturals
  <2>7. Holds(n)
    <3>1. n - 1 \in Nat /\ n - 1 < n /\ (n - 1) + 1 = n
      BY <1>1, <1>3
    <3> HIDE DEF Holds, n
    <3> QED
      BY <2>6, <3>1
  <2> QED
    BY <2>3, <2>7
<1> QED
  BY <1>2, <1>3

\* Three lists are concatenated into one as long as all of them.
LEMMA FlattenedThree ==
  ASSUME NEW X, NEW seqs \in Seq(Seq(X)), Len(seqs) = 3
  PROVE  Len(FlattenSeq(seqs)) = Len(seqs[1]) + Len(seqs[2]) + Len(seqs[3])
<1>1. PICK f : Gathers(f, seqs)
  BY FlatteningUnrolls
<1>2. FlattenSeq(seqs) = f[3] /\ f[1] = seqs[1] /\ f[2] = f[1] \o seqs[2] /\ f[3] = f[2] \o seqs[3]
  BY <1>1 DEF Gathers
<1>3. seqs[1] \in Seq(X) /\ seqs[2] \in Seq(X) /\ seqs[3] \in Seq(X)
  BY ElementOfSeq
<1>4. f[2] \in Seq(X) /\ Len(f[2]) = Len(seqs[1]) + Len(seqs[2])
  BY <1>2, <1>3, ConcatProperties
<1>5. Len(f[3]) = Len(f[2]) + Len(seqs[3])
  BY <1>2, <1>3, <1>4, ConcatProperties
<1> QED
  BY <1>2, <1>4, <1>5

\* The greatest of a bounded set of numbers.
LEMMA GreatestIsThere ==
  ASSUME NEW n \in Nat, NEW S, S \subseteq 1..n, S # {}
  PROVE  Max(S) \in S /\ \A t \in S : t <= Max(S)
<1> DEFINE T == {m \in Nat : n - m \in S}
<1>1. T \subseteq Nat
  OBVIOUS
<1>2. T # {}
  <2>1. PICK s \in S : TRUE
    OBVIOUS
  <2>2. n - s \in Nat /\ n - (n - s) = s
    BY <2>1
  <2> QED
    BY <2>1, <2>2
<1>3. IsWellFoundedOn(NatOrder, Nat)
  BY NatLessThanWellFounded DEF NatOrder
<1>4. \E m \in T : \A k \in T : <<k, m>> \notin NatOrder
  <2> HIDE DEF T
  <2> QED
    BY <1>1, <1>2, <1>3, WFMin
<1>5. PICK m \in T : \A k \in T : ~(k < m)
  BY <1>1, <1>4 DEF NatOrder, OpToRel
<1>6. \A t \in S : t <= n - m
  <2> SUFFICES ASSUME NEW t \in S PROVE t <= n - m
    OBVIOUS
  <2>1. n - t \in Nat /\ n - (n - t) = t
    OBVIOUS
  <2>2. n - t \in T
    BY <2>1
  <2> QED
    BY <1>5, <2>1, <2>2
<1> QED
  BY <1>5, <1>6 DEF Max

\* A fold over a list takes the last element first: the one that exists.
TheGreatest(n) == [s \in SUBSET (1..n) |-> Max(s)]

\* The recursive function inside a fold over a list exists.
LEMMA ListFoldExists ==
  ASSUME NEW n \in Nat, NEW W, NEW start \in W, NEW E, Maps(E, 1..n, W)
  PROVE  \E it : FoldsOver(it, E, TheGreatest(n), start, 1..n, W)
<1>1. Picks(TheGreatest(n), 1..n)
  BY GreatestIsThere DEF Picks, TheGreatest
<1>2. IsFiniteSet(1..n)
  BY FS_Interval
<1> QED
  BY <1>1, <1>2, SubsetRecursion

\* What such a fold comes to is reached by the operation, from the first element
\* to the last.
Unrolls(g, start, E, n, W) ==
  /\ g[0] = start
  /\ \A k \in Nat : k < n => g[k + 1] = E[<<k + 1, g[k]>>]
  /\ \A k \in 0..n : g[k] \in W

FoldsInside(iter, start, E, n, W) ==
  /\ iter[{}] = start
  /\ \A s \in SUBSET (1..n) : s # {} /\ iter[s \ {Max(s)}] \in W
        => iter[s] = E[<<Max(s), iter[s \ {Max(s)}]>>]

\* A fold over a list is a sequence of partial results, first to last.
LEMMA ListFoldUnrolls ==
  ASSUME NEW n \in Nat, NEW W, NEW start \in W, NEW E, Maps(E, 1..n, W),
         NEW iter, FoldsInside(iter, start, E, n, W)
  PROVE  \E g : Unrolls(g, start, E, n, W) /\ g[n] = iter[1..n]
<1> DEFINE g == [k \in 0..n |-> iter[1..k]]
           A == {k \in Nat : k <= n => g[k] \in W}
<1>1. g[0] = start
  <2>1. 1..0 = {} /\ g[0] = iter[1..0]
    OBVIOUS
  <2> HIDE DEF g
  <2> QED
    BY <2>1 DEF FoldsInside
<1>2. ASSUME NEW k \in Nat, k < n, g[k] \in W
      PROVE  g[k + 1] = E[<<k + 1, g[k]>>] /\ g[k + 1] \in W
  <2>1. k + 1 \in 1..k + 1 /\ 1..k + 1 \subseteq 1..n /\ k + 1 \in 1..n
    BY <1>2
  <2>2. Max(1..k + 1) \in 1..k + 1 /\ k + 1 <= Max(1..k + 1)
    BY <2>1, GreatestIsThere
  <2>3. Max(1..k + 1) = k + 1
    BY <2>2
  <2>4. (1..k + 1) \ {k + 1} = 1..k
    OBVIOUS
  <2>5. g[k + 1] = iter[1..k + 1] /\ g[k] = iter[1..k]
    BY <1>2
  <2> HIDE DEF g
  <2>6. iter[1..k + 1] = E[<<k + 1, iter[1..k]>>]
    BY <1>2, <2>1, <2>3, <2>4, <2>5 DEF FoldsInside
  <2> QED
    BY <1>2, <2>1, <2>5, <2>6 DEF Maps
<1>3. \A k \in Nat : k \in A
  <2>1. 0 \in A
    BY <1>1
  <2>2. ASSUME NEW k \in Nat, k \in A PROVE k + 1 \in A
    <3> SUFFICES ASSUME k + 1 <= n PROVE g[k + 1] \in W
      OBVIOUS
    <3>1. k < n /\ g[k] \in W
      BY <2>2
    <3> HIDE DEF g
    <3> QED
      BY <1>2, <3>1
  <2> HIDE DEF A
  <2> QED
    BY <2>1, <2>2, AllNaturals
<1>4. ASSUME NEW k \in 0..n PROVE g[k] \in W
  <2>1. k \in Nat /\ k <= n
    OBVIOUS
  <2> HIDE DEF g
  <2> QED
    BY <1>3, <2>1
<1>5. g[n] = iter[1..n]
  OBVIOUS
<1> HIDE DEF g
<1>6. Unrolls(g, start, E, n, W)
  BY <1>1, <1>2, <1>4 DEF Unrolls
<1> QED
  BY <1>5, <1>6

ForestFrom(start, keyed) ==
  FoldLeft(LAMBDA forest, step : Observed(forest, step[1], step[2]), start, keyed)

ObservingKeeps(W, X) == \A w \in W, x \in X : Observed(w, x[1], x[2]) \in W

BuildsForest(g, start, keyed) ==
  /\ g[0] = start
  /\ \A k \in Nat : k < Len(keyed) => g[k + 1] = Observed(g[k], keyed[k + 1][1], keyed[k + 1][2])
  /\ ForestFrom(start, keyed) = g[Len(keyed)]

\* The whole forest is built one keyed step at a time.
LEMMA ForestFold ==
  ASSUME NEW X, NEW keyed \in Seq(X), NEW W, NEW start \in W, ObservingKeeps(W, X)
  PROVE  \E g : BuildsForest(g, start, keyed)
<1> DEFINE n == Len(keyed)
           op(k, w) == Observed(w, keyed[k][1], keyed[k][2])
           E == [p \in (1..n) \X W |-> op(p[1], p[2])]
           iter[s \in SUBSET DOMAIN keyed] ==
             IF s = {} THEN start
             ELSE LET x == Max(s) IN Observed(iter[s \ {x}], keyed[x][1], keyed[x][2])
<1>1. ForestFrom(start, keyed) = iter[DOMAIN keyed]
  BY DEF ForestFrom, FoldLeft, MapThenFoldSet
<1>2. n \in Nat /\ DOMAIN keyed = 1..n /\ \A k \in 1..n : keyed[k] \in X
  BY LenProperties, ElementOfSeq
<1>3. ASSUME NEW k \in 1..n, NEW w \in W PROVE op(k, w) \in W /\ E[<<k, w>>] = op(k, w)
  BY <1>2 DEF ObservingKeeps
<1>4. Maps(E, 1..n, W)
  <2> HIDE DEF E, op, n
  <2> QED
    BY <1>3 DEF Maps
<1>5. PICK it : FoldsOver(it, E, TheGreatest(n), start, 1..n, W)
  <2> HIDE DEF E, n
  <2> QED
    BY <1>2, <1>4, ListFoldExists
<1>6. ASSUME NEW s \in SUBSET (1..n)
      PROVE  it[s] = IF s = {} THEN start ELSE op(Max(s), it[s \ {Max(s)}])
  <2>1. CASE s = {}
    BY <1>5, <2>1 DEF FoldsOver
  <2>2. CASE s # {}
    <3>1. Max(s) \in 1..n /\ it[s \ {Max(s)}] \in W
      BY <1>2, <1>5, <2>2, GreatestIsThere DEF FoldsOver
    <3>2. it[s] = E[<<Max(s), it[s \ {Max(s)}]>>]
      <4> HIDE DEF E
      <4> QED
        BY <1>5, <2>2 DEF FoldsOver, TheGreatest
    <3> HIDE DEF E, op
    <3> QED
      BY <1>3, <2>2, <3>1, <3>2
  <2> QED
    BY <2>1, <2>2
<1>7. it = [s \in SUBSET DOMAIN keyed |-> IF s = {} THEN start ELSE op(Max(s), it[s \ {Max(s)}])]
  <2> HIDE DEF op, n, E
  <2> QED
    BY <1>2, <1>5, <1>6 DEF FoldsOver
<1>8. iter = [s \in SUBSET DOMAIN keyed |-> IF s = {} THEN start ELSE op(Max(s), iter[s \ {Max(s)}])]
  <2>1. \E f : f = [s \in SUBSET DOMAIN keyed |-> IF s = {} THEN start ELSE op(Max(s), f[s \ {Max(s)}])]
    <3> HIDE DEF op
    <3> QED
      BY <1>7, Zenon
  <2> QED
    BY <2>1, Zenon DEF iter
<1>9. FoldsInside(iter, start, E, n, W)
  <2> HIDE DEF iter, op, E, n
  <2>1. ASSUME NEW s \in SUBSET (1..n)
        PROVE  iter[s] = IF s = {} THEN start ELSE op(Max(s), iter[s \ {Max(s)}])
    BY <1>2, <1>8
  <2>2. iter[{}] = start
    BY <2>1
  <2>3. ASSUME NEW s \in SUBSET (1..n), s # {}, iter[s \ {Max(s)}] \in W
        PROVE  iter[s] = E[<<Max(s), iter[s \ {Max(s)}]>>]
    <3>1. Max(s) \in 1..n
      BY <1>2, <2>3, GreatestIsThere
    <3> QED
      BY <1>3, <2>1, <2>3, <3>1
  <2> QED
    BY <2>2, <2>3 DEF FoldsInside
<1>10. PICK g : Unrolls(g, start, E, n, W) /\ g[n] = iter[1..n]
  <2> HIDE DEF iter, E, n
  <2> QED
    BY <1>2, <1>4, <1>9, ListFoldUnrolls
<1>11. ASSUME NEW k \in Nat, k < n PROVE g[k + 1] = op(k + 1, g[k])
  <2>1. k + 1 \in 1..n /\ k \in 0..n
    BY <1>2, <1>11
  <2> HIDE DEF op, E, n, iter
  <2> QED
    BY <1>3, <1>10, <1>11, <2>1 DEF Unrolls
<1> HIDE DEF iter, E
<1> QED
  BY <1>1, <1>2, <1>10, <1>11 DEF Unrolls, BuildsForest

-----------------------------------------------------------------------------
(* Connected components *)

Items(members) == 1..Len(members)

\* The items that share a key with one of a set.
Near(members, S) == {k \in Items(members) : \E s \in S : Shares(members[k], members[s])}

Closed(members, S) == S \subseteq Items(members) /\ Near(members, S) \subseteq S

\* The least closed set around an item, as the reference definition computes it.
Reach(members, k) == FoldLeft(LAMBDA S, member : Near(members, S), {k}, members)

\* The closure grows one neighbourhood at a time, as often as there are items.
LEMMA ReachUnrolls ==
  ASSUME NEW X, NEW members \in Seq(X), NEW k0 \in Items(members)
  PROVE  \E g : /\ g[0] = {k0}
                /\ \A k \in Nat : k < Len(members) => g[k + 1] = Near(members, g[k])
                /\ \A k \in 0..Len(members) : g[k] \in SUBSET Items(members)
                /\ Reach(members, k0) = g[Len(members)]
<1> DEFINE n == Len(members)
           W == SUBSET Items(members)
           start == {k0}
           op(w) == Near(members, w)
           E == [p \in (1..n) \X W |-> op(p[2])]
           iter[s \in SUBSET DOMAIN members] ==
             IF s = {} THEN start
             ELSE LET x == Max(s) IN Near(members, iter[s \ {x}])
<1>1. Reach(members, k0) = iter[DOMAIN members]
  BY DEF Reach, FoldLeft, MapThenFoldSet
<1>2. n \in Nat /\ DOMAIN members = 1..n /\ start \in W
  BY LenProperties DEF Items
<1>3. ASSUME NEW k \in 1..n, NEW w \in W PROVE op(w) \in W /\ E[<<k, w>>] = op(w)
  BY DEF Near
<1>4. Maps(E, 1..n, W)
  <2> HIDE DEF E, op, n, W
  <2> QED
    BY <1>3 DEF Maps
<1>5. PICK it : FoldsOver(it, E, TheGreatest(n), start, 1..n, W)
  <2> HIDE DEF E, n, W, start
  <2> QED
    BY <1>2, <1>4, ListFoldExists
<1>6. ASSUME NEW s \in SUBSET (1..n)
      PROVE  it[s] = IF s = {} THEN start ELSE op(it[s \ {Max(s)}])
  <2> HIDE DEF E, op, W, start
  <2>1. CASE s = {}
    BY <1>5, <2>1 DEF FoldsOver
  <2>2. CASE s # {}
    <3>1. Max(s) \in 1..n /\ it[s \ {Max(s)}] \in W
      BY <1>2, <1>5, <2>2, GreatestIsThere DEF FoldsOver
    <3>2. it[s] = E[<<Max(s), it[s \ {Max(s)}]>>]
      BY <1>5, <2>2 DEF FoldsOver, TheGreatest
    <3> QED
      BY <1>3, <2>2, <3>1, <3>2
  <2> QED
    BY <2>1, <2>2
<1>7. it = [s \in SUBSET DOMAIN members |-> IF s = {} THEN start ELSE op(it[s \ {Max(s)}])]
  <2> HIDE DEF op, n, E, W, start
  <2> QED
    BY <1>2, <1>5, <1>6 DEF FoldsOver
<1>8. iter = [s \in SUBSET DOMAIN members |-> IF s = {} THEN start ELSE op(iter[s \ {Max(s)}])]
  <2>1. \E f : f = [s \in SUBSET DOMAIN members |-> IF s = {} THEN start ELSE op(f[s \ {Max(s)}])]
    <3> HIDE DEF op, start
    <3> QED
      BY <1>7, Zenon
  <2> QED
    BY <2>1, Zenon DEF iter
<1>9. FoldsInside(iter, start, E, n, W)
  <2> HIDE DEF iter, op, E, n, W, start
  <2>1. ASSUME NEW s \in SUBSET (1..n)
        PROVE  iter[s] = IF s = {} THEN start ELSE op(iter[s \ {Max(s)}])
    BY <1>2, <1>8
  <2>2. iter[{}] = start
    BY <2>1
  <2>3. ASSUME NEW s \in SUBSET (1..n), s # {}, iter[s \ {Max(s)}] \in W
        PROVE  iter[s] = E[<<Max(s), iter[s \ {Max(s)}]>>]
    <3>1. Max(s) \in 1..n
      BY <1>2, <2>3, GreatestIsThere
    <3> QED
      BY <1>3, <2>1, <2>3, <3>1
  <2> QED
    BY <2>2, <2>3 DEF FoldsInside
<1>10. PICK g : Unrolls(g, start, E, n, W) /\ g[n] = iter[1..n]
  <2> HIDE DEF iter, E, n, W, start
  <2> QED
    BY <1>2, <1>4, <1>9, ListFoldUnrolls
<1>11. ASSUME NEW k \in Nat, k < n PROVE g[k + 1] = op(g[k])
  <2>1. k + 1 \in 1..n /\ k \in 0..n
    BY <1>2, <1>11
  <2> HIDE DEF op, E, n, iter, W, start
  <2> QED
    BY <1>3, <1>10, <1>11, <2>1 DEF Unrolls
<1> HIDE DEF iter, E
<1> QED
  BY <1>1, <1>2, <1>10, <1>11 DEF Unrolls

\* As many steps as there are items are enough: a set that still grows has one
\* more item at every step.
LEMMA ReachIsClosure ==
  ASSUME NEW X, NEW members \in Seq(X), NEW k0 \in Items(members)
  PROVE  /\ k0 \in Reach(members, k0) /\ Closed(members, Reach(members, k0))
         /\ \A S : Closed(members, S) /\ k0 \in S => Reach(members, k0) \subseteq S
<1> DEFINE n == Len(members)
<1>1. PICK g : /\ g[0] = {k0}
               /\ \A k \in Nat : k < n => g[k + 1] = Near(members, g[k])
               /\ \A k \in 0..n : g[k] \in SUBSET Items(members)
               /\ Reach(members, k0) = g[n]
  BY ReachUnrolls
<1>2. n \in Nat /\ IsFiniteSet(Items(members)) /\ Cardinality(Items(members)) = n
  BY LenProperties, FS_Interval DEF Items
<1>3. ASSUME NEW S \in SUBSET Items(members)
      PROVE  /\ S \subseteq Near(members, S) /\ Near(members, S) \in SUBSET Items(members)
             /\ IsFiniteSet(S) /\ Cardinality(S) \in Nat /\ Cardinality(S) <= n
  <2>1. \A k \in S : Shares(members[k], members[k])
    BY DEF Shares
  <2>2. S \subseteq Near(members, S) /\ Near(members, S) \in SUBSET Items(members)
    BY <2>1 DEF Near
  <2> QED
    BY <1>2, <2>2, FS_Subset, FS_CardinalityType
<1> DEFINE Grown(k) == k0 \in g[k] /\ (Closed(members, g[k]) \/ Cardinality(g[k]) >= k + 1)
           A == {k \in Nat : k <= n => Grown(k)}
<1>4. 0 \in A
  <2>1. Cardinality({k0}) = 1
    BY FS_Singleton
  <2>2. k0 \in g[0] /\ Cardinality(g[0]) >= 0 + 1
    BY <1>1, <2>1
  <2> HIDE DEF n
  <2> QED
    BY <2>2
<1>5. ASSUME NEW k \in Nat, k \in A PROVE k + 1 \in A
  <2> SUFFICES ASSUME k + 1 <= n PROVE Grown(k + 1)
    OBVIOUS
  <2>1. k < n /\ k \in 0..n /\ k + 1 \in 0..n /\ Grown(k)
    BY <1>2, <1>5
  <2>2. g[k + 1] = Near(members, g[k]) /\ g[k] \in SUBSET Items(members) /\ g[k + 1] \in SUBSET Items(members)
    BY <1>1, <2>1
  <2>3. g[k] \subseteq g[k + 1]
    BY <1>3, <2>2
  <2>4. CASE Closed(members, g[k])
    <3>1. g[k + 1] = g[k]
      BY <2>2, <2>3, <2>4 DEF Closed
    <3> HIDE DEF n
    <3> QED
      BY <2>1, <2>4, <3>1
  <2>5. CASE ~Closed(members, g[k])
    <3>1. g[k] # g[k + 1]
      BY <2>2, <2>5 DEF Closed
    <3>2. Cardinality(g[k]) < Cardinality(g[k + 1])
      <4>1. IsFiniteSet(g[k + 1]) /\ Cardinality(g[k]) \in Nat /\ Cardinality(g[k + 1]) \in Nat
        BY <1>3, <2>2
      <4>2. /\ Cardinality(g[k]) <= Cardinality(g[k + 1])
            /\ Cardinality(g[k + 1]) = Cardinality(g[k]) => g[k + 1] = g[k]
        BY <2>3, <4>1, FS_Subset
      <4> QED
        BY <3>1, <4>1, <4>2
    <3>3. Cardinality(g[k]) \in Nat /\ Cardinality(g[k + 1]) \in Nat /\ Cardinality(g[k]) >= k + 1
      BY <1>3, <2>1, <2>2, <2>5
    <3>4. Cardinality(g[k + 1]) >= (k + 1) + 1
      BY <3>2, <3>3
    <3> HIDE DEF n
    <3> QED
      BY <2>1, <2>3, <3>4
  <2> QED
    BY <2>4, <2>5
<1>6. n \in A
  <2> HIDE DEF A, n
  <2> QED
    BY <1>2, <1>4, <1>5, AllNaturals
<1>7. k0 \in g[n] /\ Closed(members, g[n])
  <2>1. Grown(n) /\ g[n] \in SUBSET Items(members)
    BY <1>1, <1>2, <1>6
  <2>2. Cardinality(g[n]) \in Nat /\ Cardinality(g[n]) <= n
    BY <1>3, <2>1
  <2> HIDE DEF n
  <2> QED
    BY <1>2, <2>1, <2>2
<1>8. ASSUME NEW S, Closed(members, S), k0 \in S PROVE g[n] \subseteq S
  <2> DEFINE B == {k \in Nat : k <= n => g[k] \subseteq S}
  <2>1. 0 \in B
    BY <1>1, <1>8
  <2>2. ASSUME NEW k \in Nat, k \in B PROVE k + 1 \in B
    <3> SUFFICES ASSUME k + 1 <= n PROVE g[k + 1] \subseteq S
      OBVIOUS
    <3>1. k < n /\ g[k] \subseteq S
      BY <1>2, <2>2
    <3>2. g[k + 1] = Near(members, g[k])
      BY <1>1, <3>1
    <3>3. Near(members, g[k]) \subseteq Near(members, S)
      BY <3>1 DEF Near
    <3> QED
      BY <1>8, <3>2, <3>3 DEF Closed
  <2>3. n \in B
    <3> HIDE DEF B, n
    <3> QED
      BY <1>2, <2>1, <2>2, AllNaturals
  <2> QED
    BY <1>2, <2>3
<1> QED
  BY <1>1, <1>7, <1>8

KeysOf(m) == ToSet(ComponentKeys(m))

\* The keys of a member are a list, of two or three.
LEMMA KeysAreList ==
  ASSUME NEW m
  PROVE  /\ ComponentKeys(m) \in Seq(KeysOf(m))
         /\ KeysOf(m) = {<<"lineage", m.lineage>>, <<"content", m.content>>}
                           \cup (IF m.group = Absent THEN {} ELSE {<<"group", m.group>>})
<1> DEFINE S == {<<"lineage", m.lineage>>, <<"content", m.content>>, <<"group", m.group>>}
           s == <<<<"lineage", m.lineage>>, <<"content", m.content>>>>
           t == IF m.group = Absent THEN <<>> ELSE <<<<"group", m.group>>>>
<1>1. s \in Seq(S) /\ Range(s) = {<<"lineage", m.lineage>>, <<"content", m.content>>}
  BY DEF Range
<1>2. t \in Seq(S) /\ Range(t) = IF m.group = Absent THEN {} ELSE {<<"group", m.group>>}
  BY DEF Range
<1>3. ComponentKeys(m) = s \o t
  BY DEF ComponentKeys
<1> HIDE DEF s, t, S
<1>4. Range(s \o t) = Range(s) \cup Range(t)
  BY <1>1, <1>2, RangeConcatenation
<1>5. \A q : Range(q) = ToSet(q)
  BY DEF ToSet, Range
<1>6. ComponentKeys(m) \in Seq(S)
  BY <1>1, <1>2, <1>3, ConcatProperties
<1>7. ComponentKeys(m) \in Seq(Range(ComponentKeys(m)))
  BY <1>6, SeqOfRange
<1> QED
  BY <1>1, <1>2, <1>3, <1>4, <1>5, <1>7 DEF KeysOf

\* Two members share a key when one of the keys of the one is a key of the other.
LEMMA SharedKey ==
  ASSUME NEW a, NEW b
  PROVE  Shares(a, b) <=> \E key : key \in KeysOf(a) /\ key \in KeysOf(b)
<1>1. ASSUME NEW m, NEW key
      PROVE  key \in KeysOf(m) <=> \/ key = <<"lineage", m.lineage>>
                                   \/ key = <<"content", m.content>>
                                   \/ m.group # Absent /\ key = <<"group", m.group>>
  BY KeysAreList
<1>2. ASSUME Shares(a, b) PROVE \E key : key \in KeysOf(a) /\ key \in KeysOf(b)
  <2>1. CASE a.lineage = b.lineage
    <3>1. <<"lineage", a.lineage>> = <<"lineage", b.lineage>>
      BY <2>1
    <3> QED
      BY <1>1, <3>1
  <2>2. CASE a.content = b.content
    <3>1. <<"content", a.content>> = <<"content", b.content>>
      BY <2>2
    <3> QED
      BY <1>1, <3>1
  <2>3. CASE a.group # Absent /\ a.group = b.group
    <3>1. <<"group", a.group>> = <<"group", b.group>> /\ b.group # Absent
      BY <2>3
    <3> QED
      BY <1>1, <2>3, <3>1
  <2> QED
    BY <1>2, <2>1, <2>2, <2>3 DEF Shares
<1>3. ASSUME NEW key, key \in KeysOf(a), key \in KeysOf(b) PROVE Shares(a, b)
  <2>1. CASE key = <<"lineage", a.lineage>>
    BY <1>1, <1>3, <2>1 DEF Shares
  <2>2. CASE key = <<"content", a.content>>
    BY <1>1, <1>3, <2>2 DEF Shares
  <2>3. CASE a.group # Absent /\ key = <<"group", a.group>>
    BY <1>1, <1>3, <2>3 DEF Shares
  <2> QED
    BY <1>1, <1>3, <2>1, <2>2, <2>3
<1> QED
  BY <1>2, <1>3

Linked(members, i, j) == j \in Reach(members, i)

\* Being connected is an equivalence, and sharing a key connects.
LEMMA LinkedIsEquivalence ==
  ASSUME NEW X, NEW members \in Seq(X)
  PROVE  /\ \A i \in Items(members) : Linked(members, i, i)
         /\ \A i, j \in Items(members) : Linked(members, i, j) => Linked(members, j, i)
         /\ \A i, j, k \in Items(members) :
               Linked(members, i, j) /\ Linked(members, j, k) => Linked(members, i, k)
         /\ \A i, j \in Items(members) : Shares(members[i], members[j]) => Linked(members, i, j)
<1> DEFINE I == Items(members)
           L(i, j) == Linked(members, i, j)
<1>1. ASSUME NEW i \in I
      PROVE  /\ L(i, i) /\ Closed(members, Reach(members, i))
             /\ \A S : Closed(members, S) /\ i \in S => Reach(members, i) \subseteq S
  BY ReachIsClosure DEF Linked
<1>2. ASSUME NEW i \in I, NEW j \in I, L(i, j) PROVE Reach(members, j) \subseteq Reach(members, i)
  BY <1>1, <1>2 DEF Linked
<1>3. ASSUME NEW i \in I, NEW j \in I, L(i, j) PROVE L(j, i)
  <2> SUFFICES ASSUME i \notin Reach(members, j) PROVE FALSE
    BY DEF Linked
  <2> DEFINE S == I \ Reach(members, j)
  <2>1. Near(members, S) \subseteq S
    <3> SUFFICES ASSUME NEW k \in I, NEW s \in S, Shares(members[k], members[s]), k \in Reach(members, j)
                 PROVE  FALSE
      BY DEF Near
    <3>1. Shares(members[s], members[k])
      BY DEF Shares
    <3>2. s \in Near(members, Reach(members, j))
      BY <3>1 DEF Near
    <3> QED
      BY <1>1, <3>2 DEF Closed
  <2>2. Reach(members, i) \subseteq S
    BY <1>1, <2>1 DEF Closed
  <2>3. j \in Reach(members, i) /\ j \in Reach(members, j)
    BY <1>1, <1>3 DEF Linked
  <2> QED
    BY <2>2, <2>3
<1>4. ASSUME NEW i \in I, NEW j \in I, Shares(members[i], members[j]) PROVE L(i, j)
  <2>1. Shares(members[j], members[i])
    BY <1>4 DEF Shares
  <2>2. i \in Reach(members, i)
    BY <1>1 DEF Linked
  <2>3. j \in Near(members, Reach(members, i))
    BY <2>1, <2>2 DEF Near
  <2> QED
    BY <1>1, <2>3 DEF Closed, Linked
<1>5. ASSUME NEW i \in I, NEW j \in I, NEW k \in I, L(i, j), L(j, k) PROVE L(i, k)
  BY <1>2, <1>5 DEF Linked
<1> QED
  BY <1>1, <1>3, <1>4, <1>5

\* A step of the loop: an item and one of its keys.
KeyedSteps(members) == {<<k, key>> : k \in Items(members), key \in UNION {KeysOf(members[i]) : i \in Items(members)}}
KeySteps(members) == {step \in KeyedSteps(members) : step[2] \in KeysOf(members[step[1]])}

IsForest(f) == f \in [parents : {f.parents}, seen : {f.seen}]

\* The forest after the steps P: pointers lead to roots, only connected items
\* have one root, a key is seen with one item that has it, and every step's item
\* has the root of the item its key is seen with.
Stands(forest, R, d, P, members) ==
  /\ IsForest(forest)
  /\ Leads(forest.parents, R, d, Items(members))
  /\ \A i, j \in Items(members) : R[i] = R[j] => Linked(members, i, j)
  /\ \A pair \in forest.seen :
        /\ pair = <<pair[1], pair[2]>> /\ pair[2] \in Items(members)
        /\ pair[1] \in KeysOf(members[pair[2]])
  /\ \A pair, other \in forest.seen : pair[1] = other[1] => pair = other
  /\ \A step \in P : \E pair \in forest.seen : pair[1] = step[2] /\ R[pair[2]] = R[step[1]]

StandsAfter(forest, P, members) == \E R, d : Stands(forest, R, d, P, members)

\* Changing one field of a forest leaves the other.
LEMMA ForestUpdate ==
  ASSUME NEW f, IsForest(f), NEW q
  PROVE  /\ [f EXCEPT !.seen = q] = [parents |-> f.parents, seen |-> q]
         /\ [f EXCEPT !.parents = q] = [parents |-> q, seen |-> f.seen]
BY DEF IsForest

\* Every step of the loop keeps the forest so.
LEMMA ObservedStands ==
  ASSUME NEW X, NEW members \in Seq(X), NEW forest, NEW P,
         P \subseteq KeySteps(members), NEW step \in KeySteps(members),
         StandsAfter(forest, P, members)
  PROVE  StandsAfter(Observed(forest, step[1], step[2]), P \cup {step}, members)
<1> DEFINE I == Items(members)
           index == step[1]
           key == step[2]
           earlier == {pair \in forest.seen : pair[1] = key}
<1>1. PICK R, d : Stands(forest, R, d, P, members)
  BY DEF StandsAfter
<1>2. index \in I /\ key \in KeysOf(members[index])
  BY DEF KeySteps, KeyedSteps
<1>3. CASE earlier = {}
  <2> DEFINE after == [forest EXCEPT !.seen = @ \cup {<<key, index>>}]
  <2>1. Observed(forest, index, key) = after
    BY <1>3 DEF Observed
  <2>2. after = [parents |-> forest.parents, seen |-> forest.seen \cup {<<key, index>>}]
    <3>1. IsForest(forest)
      BY <1>1 DEF Stands
    <3> QED
      BY <3>1, ForestUpdate, Zenon
  <2>3. /\ after.parents = forest.parents /\ after.seen = forest.seen \cup {<<key, index>>}
        /\ IsForest(after)
    BY <2>2 DEF IsForest
  <2> HIDE DEF after
  <2>4. ASSUME NEW pair \in after.seen, NEW other \in after.seen, pair[1] = other[1] PROVE pair = other
    BY <1>1, <1>3, <2>3, <2>4 DEF Stands
  <2>5. ASSUME NEW s \in P \cup {step}
        PROVE  \E pair \in after.seen : pair[1] = s[2] /\ R[pair[2]] = R[s[1]]
    <3>1. CASE s = step
      <4>1. <<key, index>> \in after.seen /\ <<key, index>>[1] = s[2] /\ R[<<key, index>>[2]] = R[s[1]]
        BY <2>3, <3>1
      <4> QED
        BY <4>1
    <3>2. CASE s \in P
      BY <1>1, <2>3, <3>2 DEF Stands
    <3> QED
      BY <3>1, <3>2
  <2>6. \A pair \in after.seen :
        /\ pair = <<pair[1], pair[2]>> /\ pair[2] \in Items(members)
        /\ pair[1] \in KeysOf(members[pair[2]])
    BY <1>1, <1>2, <2>3 DEF Stands
  <2>7. Stands(after, R, d, P \cup {step}, members)
    BY <1>1, <2>3, <2>4, <2>5, <2>6 DEF Stands
  <2> QED
    BY <2>1, <2>7 DEF StandsAfter
<1>4. CASE earlier # {}
  <2> DEFINE first == CHOOSE pair \in earlier : TRUE
             S == Merged(R, index, first[2], I)
             after == [forest EXCEPT !.parents = Joined(@, index, first[2])]
  <2>1. Observed(forest, index, key) = after
    BY <1>4 DEF Observed
  <2>2. first \in forest.seen /\ first[1] = key
    BY <1>4
  <2> HIDE DEF first
  <2>3. first[2] \in I /\ key \in KeysOf(members[first[2]])
    BY <1>1, <2>2 DEF Stands
  <2>4. PICK e : Leads(Joined(forest.parents, index, first[2]), S, e, I)
    BY <1>1, <1>2, <2>3, JoinedClasses DEF Stands
  <2>5. after = [parents |-> Joined(forest.parents, index, first[2]), seen |-> forest.seen]
    <3>1. IsForest(forest)
      BY <1>1 DEF Stands
    <3> QED
      BY <3>1, ForestUpdate, Zenon
  <2>6. /\ after.parents = Joined(forest.parents, index, first[2]) /\ after.seen = forest.seen
        /\ IsForest(after)
    BY <2>5 DEF IsForest
  <2> HIDE DEF after
  <2>7. \A j \in I : S[j] = IF R[j] = R[first[2]] THEN R[index] ELSE R[j]
    BY DEF Merged
  <2>8. Shares(members[index], members[first[2]])
    BY <1>2, <2>3, SharedKey
  <2>9. Linked(members, index, first[2]) /\ Linked(members, first[2], index)
    BY <1>2, <2>3, <2>8, LinkedIsEquivalence
  <2>10. \A i, j \in I : R[i] = R[j] => Linked(members, i, j)
    BY <1>1 DEF Stands
  <2> HIDE DEF S, index, key
  <2>11. ASSUME NEW i \in I, NEW j \in I, S[i] = S[j] PROVE Linked(members, i, j)
    <3>1. CASE R[i] = R[j]
      BY <2>10, <3>1
    <3>2. CASE R[i] # R[j]
      <4>1. \/ R[i] = R[first[2]] /\ R[j] = R[index]
            \/ R[i] = R[index] /\ R[j] = R[first[2]]
        BY <1>2, <2>3, <2>7, <2>11, <3>2
      <4>2. CASE R[i] = R[first[2]] /\ R[j] = R[index]
        <5>1. Linked(members, i, first[2]) /\ Linked(members, index, j)
          BY <1>2, <2>3, <2>10, <4>2
        <5>2. Linked(members, i, index)
          BY <1>2, <2>3, <2>9, <5>1, LinkedIsEquivalence
        <5> QED
          BY <1>2, <5>1, <5>2, LinkedIsEquivalence
      <4>3. CASE R[i] = R[index] /\ R[j] = R[first[2]]
        <5>1. Linked(members, i, index) /\ Linked(members, first[2], j)
          BY <1>2, <2>3, <2>10, <4>3
        <5>2. Linked(members, i, first[2])
          BY <1>2, <2>3, <2>9, <5>1, LinkedIsEquivalence
        <5> QED
          BY <2>3, <5>1, <5>2, LinkedIsEquivalence
      <4> QED
        BY <4>1, <4>2, <4>3
    <3> QED
      BY <3>1, <3>2
  <2>12. ASSUME NEW s \in P \cup {step}
         PROVE  \E pair \in after.seen : pair[1] = s[2] /\ S[pair[2]] = S[s[1]]
    <3>1. CASE s = step
      <4>1. S[first[2]] = R[index] /\ S[index] = R[index]
        BY <1>2, <2>3, <2>7
      <4> QED
        BY <2>2, <2>6, <3>1, <4>1 DEF index, key
    <3>2. CASE s \in P
      <4>1. s[1] \in I
        BY <3>2 DEF KeySteps, KeyedSteps
      <4>2. PICK pair \in forest.seen : pair[1] = s[2] /\ R[pair[2]] = R[s[1]]
        BY <1>1, <3>2 DEF Stands
      <4>3. pair[2] \in I
        BY <1>1, <4>2 DEF Stands
      <4>4. S[pair[2]] = S[s[1]]
        BY <2>7, <4>1, <4>2, <4>3
      <4> QED
        BY <2>6, <4>2, <4>4
    <3> QED
      BY <3>1, <3>2
  <2>13. Stands(after, S, e, P \cup {step}, members)
    BY <1>1, <2>4, <2>6, <2>11, <2>12 DEF Stands
  <2> QED
    BY <2>1, <2>13 DEF StandsAfter, index, key
<1> QED
  BY <1>3, <1>4

\* The steps of the loop, as _atomic_components takes them.
KeyedList(members) ==
  FlattenSeq([k \in 1..Len(members) |->
                LET keys == ComponentKeys(members[k])
                IN  [j \in 1..Len(keys) |-> <<k, keys[j]>>]])

\* The loop of _atomic_components tries every key of every member, and nothing
\* else.
LEMMA EveryKeyIsTried ==
  ASSUME NEW X, NEW members \in Seq(X)
  PROVE  /\ KeyedList(members) \in Seq(KeySteps(members))
         /\ ToSet(KeyedList(members)) = KeySteps(members)
<1> DEFINE n == Len(members)
           keys(k) == ComponentKeys(members[k])
           row(k) == [j \in 1..Len(keys(k)) |-> <<k, keys(k)[j]>>]
           seqs == [k \in 1..n |-> row(k)]
           Y == KeySteps(members)
<1>1. n \in Nat /\ Items(members) = 1..n
  BY LenProperties DEF Items
<1>2. ASSUME NEW k \in 1..n
      PROVE  /\ Len(keys(k)) \in Nat /\ DOMAIN keys(k) = 1..Len(keys(k))
             /\ KeysOf(members[k]) = {keys(k)[j] : j \in 1..Len(keys(k))}
  <2>1. keys(k) \in Seq(KeysOf(members[k]))
    BY KeysAreList
  <2>2. Len(keys(k)) \in Nat /\ DOMAIN keys(k) = 1..Len(keys(k))
    BY <2>1, LenProperties
  <2> QED
    BY <2>2 DEF KeysOf, ToSet
<1>3. ASSUME NEW k \in 1..n
      PROVE  /\ row(k) \in Seq(Y) /\ ToSet(row(k)) = {<<k, key>> : key \in KeysOf(members[k])}
  <2>1. \A key \in KeysOf(members[k]) : <<k, key>> \in Y
    BY <1>1 DEF KeySteps, KeyedSteps
  <2>2. \A j \in 1..Len(keys(k)) : <<k, keys(k)[j]>> \in Y
    BY <1>2, <2>1
  <2>3. row(k) \in [1..Len(keys(k)) -> Y]
    BY <2>2
  <2>4. row(k) \in Seq(Y) /\ DOMAIN row(k) = 1..Len(keys(k))
    <3> HIDE DEF row, Y, keys
    <3> QED
      BY <1>2, <2>3, SeqDef
  <2>5. ToSet(row(k)) = {<<k, key>> : key \in KeysOf(members[k])}
    <3>1. ToSet(row(k)) = {row(k)[j] : j \in 1..Len(keys(k))}
      BY <2>4 DEF ToSet
    <3>2. \A j \in 1..Len(keys(k)) : row(k)[j] = <<k, keys(k)[j]>>
      OBVIOUS
    <3>3. ToSet(row(k)) = {<<k, keys(k)[j]>> : j \in 1..Len(keys(k))}
      <4> HIDE DEF row, keys
      <4> QED
        BY <3>1, <3>2
    <3> HIDE DEF row, keys
    <3> QED
      BY <1>2, <3>3
  <2> QED
    BY <2>4, <2>5
<1>4. seqs \in Seq(Seq(Y)) /\ Len(seqs) = n
  <2>1. seqs \in [1..n -> Seq(Y)]
    <3> HIDE DEF row
    <3> QED
      BY <1>3
  <2> HIDE DEF seqs
  <2>2. seqs \in Seq(Seq(Y))
    BY <1>1, <2>1, SeqDef
  <2>3. DOMAIN seqs = 1..n /\ DOMAIN seqs = 1..Len(seqs) /\ Len(seqs) \in Nat
    BY <2>1, <2>2, LenProperties
  <2> QED
    BY <1>1, <2>1, <2>2, LenProperties
<1>5. KeyedList(members) = FlattenSeq(seqs)
  BY DEF KeyedList
<1>6. /\ FlattenSeq(seqs) \in Seq(Y)
      /\ ToSet(FlattenSeq(seqs)) = UNION {ToSet(seqs[k]) : k \in 1..n}
  <2> HIDE DEF seqs, Y
  <2> QED
    BY <1>4, Flattened
<1>7. \A k \in 1..n : ToSet(seqs[k]) = {<<k, key>> : key \in KeysOf(members[k])}
  <2> HIDE DEF row
  <2> QED
    BY <1>3
<1>8. Y = UNION {{<<k, key>> : key \in KeysOf(members[k])} : k \in 1..n}
  BY <1>1 DEF KeySteps, KeyedSteps
<1> HIDE DEF seqs, Y
<1>9. UNION {ToSet(seqs[k]) : k \in 1..n} = UNION {{<<k, key>> : key \in KeysOf(members[k])} : k \in 1..n}
  BY <1>7
<1> QED
  BY <1>5, <1>6, <1>8, <1>9 DEF Y

\* The forest has taken every step.
LEMMA ForestStands ==
  ASSUME NEW X, NEW members \in Seq(X)
  PROVE  StandsAfter(Forest(members), KeySteps(members), members)
<1> DEFINE I == Items(members)
           K == UNION {KeysOf(members[i]) : i \in I}
           Y == KeySteps(members)
           keyed == KeyedList(members)
           n == Len(keyed)
           W == {w \in [parents : [I -> I], seen : SUBSET (K \X I)] : StandsAfter(w, {}, members)}
           start == [parents |-> [k \in 1..Len(members) |-> k], seen |-> {}]
<1>1. keyed \in Seq(Y) /\ ToSet(keyed) = Y /\ n \in Nat /\ DOMAIN keyed = 1..n
  BY EveryKeyIsTried, LenProperties
<1>2. Forest(members) = ForestFrom(start, keyed)
  BY DEF Forest, KeyedList, ForestFrom
<1>3. StandsAfter(start, {}, members)
  <2> DEFINE R == [k \in I |-> k]
             d == [k \in I |-> 0]
  <2>1. Leads(start.parents, R, d, I)
    BY DEF Leads, Items
  <2>2. IsForest(start) /\ start.seen = {}
    BY DEF IsForest
  <2>3. \A i, j \in I : R[i] = R[j] => Linked(members, i, j)
    BY LinkedIsEquivalence
  <2> HIDE DEF start, R, d
  <2>4. Stands(start, R, d, {}, members)
    BY <2>1, <2>2, <2>3 DEF Stands
  <2> QED
    BY <2>4 DEF StandsAfter
<1>4. ASSUME NEW w, StandsAfter(w, {}, members) PROVE w \in W
  <2>1. PICK R, d : Stands(w, R, d, {}, members)
    BY <1>4 DEF StandsAfter
  <2>2. w \in [parents : {w.parents}, seen : {w.seen}]
    BY <2>1 DEF Stands, IsForest
  <2>3. w.parents \in [I -> I]
    BY <2>1 DEF Stands, Leads
  <2>4. w.seen \in SUBSET (K \X I)
    <3> SUFFICES ASSUME NEW pair \in w.seen PROVE pair \in K \X I
      OBVIOUS
    <3>1. pair = <<pair[1], pair[2]>> /\ pair[2] \in I /\ pair[1] \in KeysOf(members[pair[2]])
      BY <2>1 DEF Stands
    <3> QED
      BY <3>1
  <2>5. w \in [parents : [I -> I], seen : SUBSET (K \X I)]
    BY <2>2, <2>3, <2>4
  <2> QED
    BY <1>4, <2>5
<1>5. start \in W
  <2> HIDE DEF W, start
  <2> QED
    BY <1>3, <1>4
<1>6. ASSUME NEW w \in W, NEW x \in Y PROVE Observed(w, x[1], x[2]) \in W
  <2>1. StandsAfter(w, {}, members)
    OBVIOUS
  <2>2. StandsAfter(Observed(w, x[1], x[2]), {} \cup {x}, members)
    BY <2>1, ObservedStands
  <2>3. StandsAfter(Observed(w, x[1], x[2]), {}, members)
    BY <2>2 DEF StandsAfter, Stands
  <2> HIDE DEF W
  <2> QED
    BY <1>4, <2>3
<1>7a. ObservingKeeps(W, Y)
  <2> HIDE DEF W, Y
  <2> QED
    BY <1>6 DEF ObservingKeeps
<1>7. PICK g : BuildsForest(g, start, keyed)
  <2> HIDE DEF W, Y, start, keyed
  <2> QED
    BY <1>1, <1>5, <1>7a, ForestFold
<1> DEFINE Done(k) == {keyed[j] : j \in 1..k}
           A == {k \in Nat : k <= n => StandsAfter(g[k], Done(k), members)}
<1>8. 0 \in A
  <2>1. Done(0) = {}
    OBVIOUS
  <2>2. StandsAfter(g[0], Done(0), members)
    <3> HIDE DEF Done, start
    <3> QED
      BY <1>3, <1>7, <2>1 DEF BuildsForest
  <2> HIDE DEF Done
  <2> QED
    BY <2>2
<1>9. ASSUME NEW k \in Nat, k \in A PROVE k + 1 \in A
  <2> SUFFICES ASSUME k + 1 <= n PROVE StandsAfter(g[k + 1], Done(k + 1), members)
    OBVIOUS
  <2>1. k < n /\ StandsAfter(g[k], Done(k), members) /\ k + 1 \in 1..n
    BY <1>1, <1>9
  <2>2. keyed[k + 1] \in Y /\ Done(k) \subseteq Y
    <3>1. \A j \in 1..n : keyed[j] \in Y
      BY <1>1, ElementOfSeq
    <3> HIDE DEF keyed, Y
    <3> QED
      BY <1>1, <2>1, <3>1
  <2>3. Done(k + 1) = Done(k) \cup {keyed[k + 1]}
    <3>1. 1..k + 1 = (1..k) \cup {k + 1}
      OBVIOUS
    <3> HIDE DEF keyed
    <3> QED
      BY <3>1
  <2>4. g[k + 1] = Observed(g[k], keyed[k + 1][1], keyed[k + 1][2])
    BY <1>7, <2>1 DEF BuildsForest
  <2> HIDE DEF Done, keyed
  <2> QED
    BY <2>1, <2>2, <2>3, <2>4, ObservedStands
<1>10. StandsAfter(g[n], Done(n), members)
  <2>1. n \in A
    <3> HIDE DEF A, n
    <3> QED
      BY <1>1, <1>8, <1>9, AllNaturals
  <2> HIDE DEF Done, n
  <2> QED
    BY <1>1, <2>1
<1>11. Done(n) = Y
  <2> HIDE DEF keyed, Y, n
  <2> QED
    BY <1>1 DEF ToSet
<1> QED
  BY <1>2, <1>7, <1>10, <1>11 DEF BuildsForest

\* The union-find of _atomic_components finds exactly the connected components
\* of sharing a lineage, content or declared group, for every list of members:
\* whatever the order of the rows, halving the paths and joining under the left
\* root lose no relation and make none up.
THEOREM ComponentsAreConnected ==
  ASSUME NEW X, NEW members \in Seq(X)
  PROVE  AtomicComponents(members) = ConnectedComponents(members)
<1> DEFINE I == Items(members)
           parents == Forest(members).parents
           rootOf(k) == Found(parents, k).root
<1>1. PICK R, d : Stands(Forest(members), R, d, KeySteps(members), members)
  BY ForestStands DEF StandsAfter
<1>2. \A k \in I : rootOf(k) = R[k]
  BY <1>1, FoundRoot DEF Stands, FindsRoot
<1>3. ASSUME NEW i \in I, NEW j \in I, Shares(members[j], members[i]) PROVE R[i] = R[j]
  <2>1. PICK key : key \in KeysOf(members[i]) /\ key \in KeysOf(members[j])
    BY <1>3, SharedKey
  <2>2. <<i, key>> \in KeySteps(members) /\ <<j, key>> \in KeySteps(members)
    BY <2>1 DEF KeySteps, KeyedSteps
  <2>3. PICK a \in Forest(members).seen : a[1] = key /\ R[a[2]] = R[i]
    BY <1>1, <2>2 DEF Stands
  <2>4. PICK b \in Forest(members).seen : b[1] = key /\ R[b[2]] = R[j]
    BY <1>1, <2>2 DEF Stands
  <2>5. a = b
    BY <1>1, <2>3, <2>4 DEF Stands
  <2> QED
    BY <2>3, <2>4, <2>5
<1>4. ASSUME NEW k \in I PROVE {j \in I : R[j] = R[k]} = Reach(members, k)
  <2> DEFINE S == {j \in I : R[j] = R[k]}
  <2>1. S \subseteq Reach(members, k)
    BY <1>1 DEF Stands, Linked
  <2>2. Closed(members, S)
    BY <1>3 DEF Closed, Near
  <2>3. Reach(members, k) \subseteq S
    BY <2>2, ReachIsClosure
  <2> QED
    BY <2>1, <2>3
<1>5. AtomicComponents(members) = {{k \in I : rootOf(k) = root} : root \in {rootOf(k) : k \in I}}
  BY DEF AtomicComponents, Items
<1>6. ConnectedComponents(members) = {Reach(members, k) : k \in I}
  BY DEF ConnectedComponents, Reach, Near, Items
<1> HIDE DEF rootOf
<1>7. {{k \in I : rootOf(k) = root} : root \in {rootOf(k) : k \in I}} = {Reach(members, k) : k \in I}
  <2>1. ASSUME NEW k \in I PROVE {j \in I : rootOf(j) = rootOf(k)} = Reach(members, k)
    BY <1>2, <1>4
  <2> DEFINE L == {{k \in I : rootOf(k) = root} : root \in {rootOf(k) : k \in I}}
             M == {Reach(members, k) : k \in I}
  <2>2. ASSUME NEW T PROVE T \in L <=> \E k \in I : T = {j \in I : rootOf(j) = rootOf(k)}
    OBVIOUS
  <2>3. ASSUME NEW T PROVE T \in M <=> \E k \in I : T = Reach(members, k)
    OBVIOUS
  <2> HIDE DEF L, M, I
  <2>4. ASSUME NEW T PROVE T \in L <=> T \in M
    <3>1. ASSUME NEW k \in I, T = {j \in I : rootOf(j) = rootOf(k)} PROVE T = Reach(members, k)
      BY <2>1, <3>1
    <3>2. ASSUME NEW k \in I, T = Reach(members, k) PROVE T = {j \in I : rootOf(j) = rootOf(k)}
      BY <2>1, <3>2
    <3> QED
      BY <2>2, <2>3, <3>1, <3>2
  <2>5. L = M
    BY <2>4
  <2> QED
    BY <2>5 DEF L, M
<1> QED
  BY <1>5, <1>6, <1>7

-----------------------------------------------------------------------------
(* Owning components *)

\* Of finitely many numbers one is the least.
LEMMA LeastEntry ==
  ASSUME NEW n \in Nat, NEW c, c \subseteq 1..n, c # {}, NEW f, \A k \in c : f[k] \in Int
  PROVE  \E k \in c : \A j \in c : f[k] <= f[j]
<1> DEFINE Minimal(d) == \E k \in d : \A j \in d : f[k] <= f[j]
           A == {m \in Nat : \A d \in SUBSET c : d # {} /\ d \subseteq 1..m => Minimal(d)}
<1>1. 0 \in A
  <2>1. \A d : d \subseteq 1..0 => d = {}
    OBVIOUS
  <2> HIDE DEF Minimal
  <2> QED
    BY <2>1
<1>2. ASSUME NEW m \in Nat, m \in A PROVE m + 1 \in A
  <2> SUFFICES ASSUME NEW d \in SUBSET c, d # {}, d \subseteq 1..(m + 1) PROVE Minimal(d)
    <3> HIDE DEF Minimal
    <3> QED
      OBVIOUS
  <2> DEFINE rest == d \ {m + 1}
  <2>1. rest \in SUBSET c /\ rest \subseteq 1..m
    BY <1>2
  <2>2. CASE rest = {}
    <3>1. d = {m + 1}
      BY <2>2
    <3>2. f[m + 1] \in Int
      BY <3>1
    <3> QED
      BY <3>1, <3>2
  <2>3. CASE rest # {}
    <3>1. PICK k \in rest : \A j \in rest : f[k] <= f[j]
      <4>1. Minimal(rest)
        <5> HIDE DEF rest, Minimal
        <5> QED
          BY <1>2, <2>1, <2>3
      <4> QED
        BY <4>1
    <3>2. f[k] \in Int
      BY <2>1
    <3>3. CASE m + 1 \in d /\ f[m + 1] < f[k]
      <4>1. f[m + 1] \in Int
        BY <3>3
      <4>2. \A j \in d : f[j] \in Int /\ f[m + 1] <= f[j]
        BY <3>1, <3>2, <3>3, <4>1
      <4> QED
        BY <3>3, <4>2
    <3>4. CASE ~(m + 1 \in d /\ f[m + 1] < f[k])
      <4>1. \A j \in d : f[j] \in Int /\ f[k] <= f[j]
        BY <3>1, <3>2, <3>4
      <4> QED
        BY <4>1
    <3> QED
      BY <3>3, <3>4
  <2> QED
    BY <2>2, <2>3
<1>3. n \in A
  <2> HIDE DEF A
  <2> QED
    BY <1>1, <1>2, AllNaturals
<1>4. Minimal(c)
  <2> HIDE DEF Minimal
  <2> QED
    BY <1>3
<1> QED
  BY <1>4

LEMMA LeastIsThere ==
  ASSUME NEW n \in Nat, NEW c, c \subseteq 1..n, c # {}, NEW f, \A k \in c : f[k] \in Int
  PROVE  \E k \in c : Least({f[j] : j \in c}) = f[k]
<1>1. PICK k \in c : \A j \in c : f[k] <= f[j]
  BY LeastEntry
<1> DEFINE S == {f[j] : j \in c}
<1>2. f[k] \in S /\ \A y \in S : f[k] <= y /\ y \in Int
  BY <1>1
<1>3. \E x \in S : \A y \in S : x <= y
  BY <1>2
<1>4. Least(S) \in S /\ \A y \in S : Least(S) <= y
  BY <1>3 DEF Least
<1> QED
  BY <1>4

\* The numbers and names an anchor is taken from.
Named(m) ==
    /\ m.lineage \in Int /\ <<"lineage", m.lineage>> \in Anchors
    /\ m.group # Absent => m.group \in Int /\ <<"group", m.group>> \in Anchors

\* A component is hashed under the lineage or the group of one of its members.
LEMMA AnchorIsAName ==
  ASSUME NEW n \in Nat, NEW members, \A k \in 1..n : Named(members[k]),
         NEW c, c \subseteq 1..n, c # {}
  PROVE  ComponentAnchor(members, c) \in Anchors
<1> DEFINE groups == {members[k].group : k \in c} \ {Absent}
           grouped == {k \in c : members[k].group # Absent}
           lineageOf == [k \in c |-> members[k].lineage]
           groupOf == [k \in grouped |-> members[k].group]
<1>1. CASE groups # {}
  <2>1. grouped # {} /\ grouped \subseteq 1..n
    BY <1>1
  <2>2. \A k \in grouped : groupOf[k] \in Int /\ <<"group", groupOf[k]>> \in Anchors
    BY DEF Named
  <2>3. groups = {groupOf[k] : k \in grouped}
    OBVIOUS
  <2> HIDE DEF groups, grouped, groupOf
  <2>4. PICK k \in grouped : Least({groupOf[j] : j \in grouped}) = groupOf[k]
    BY <2>1, <2>2, LeastIsThere
  <2>5. ComponentAnchor(members, c) = <<"group", Least(groups)>>
    BY <1>1 DEF ComponentAnchor, groups
  <2> QED
    BY <2>2, <2>3, <2>4, <2>5
<1>2. CASE groups = {}
  <2>1. \A k \in c : lineageOf[k] \in Int /\ <<"lineage", lineageOf[k]>> \in Anchors
    BY DEF Named
  <2>2. {members[k].lineage : k \in c} = {lineageOf[k] : k \in c}
    OBVIOUS
  <2>3. ComponentAnchor(members, c) = <<"lineage", Least({members[k].lineage : k \in c})>>
    BY <1>2 DEF ComponentAnchor
  <2> HIDE DEF lineageOf
  <2>4. PICK k \in c : Least({lineageOf[j] : j \in c}) = lineageOf[k]
    BY <2>1, LeastIsThere
  <2> QED
    BY <2>1, <2>2, <2>3, <2>4
<1> QED
  BY <1>1, <1>2

\* The components are classes: none is empty, two have nothing in common, and
\* every index is in one.
LEMMA ComponentsAreClasses ==
  ASSUME NEW members
  PROVE  /\ \A c \in AtomicComponents(members) : c # {} /\ c \subseteq 1..Len(members)
         /\ \A c, d \in AtomicComponents(members) : \A k : k \in c /\ k \in d => c = d
         /\ \A k \in 1..Len(members) : \E c \in AtomicComponents(members) : k \in c
<1> DEFINE parents == Forest(members).parents
           rootOf(k) == Found(parents, k).root
           class(root) == {k \in 1..Len(members) : rootOf(k) = root}
<1>1. AtomicComponents(members) = {class(root) : root \in {rootOf(k) : k \in 1..Len(members)}}
  BY DEF AtomicComponents
<1> HIDE DEF rootOf
<1>2. ASSUME NEW c \in AtomicComponents(members)
      PROVE  c # {} /\ c \subseteq 1..Len(members)
             /\ \A k \in c : c = class(rootOf(k))
  <2>1. PICK k \in 1..Len(members) : c = class(rootOf(k))
    BY <1>1
  <2> QED
    BY <2>1
<1>3. \A k \in 1..Len(members) : k \in class(rootOf(k))
  OBVIOUS
<1>4. \A k \in 1..Len(members) : class(rootOf(k)) \in AtomicComponents(members)
  BY <1>1
<1> HIDE DEF class
<1> QED
  BY <1>2, <1>3, <1>4

\* Whether every component of a source has an owner.
AllOwned(members, bucket) ==
    \A c \in AtomicComponents(members) : bucket[ComponentAnchor(members, c)] \in Splits

\* Every index is given to one split, and with it its whole component.
LEMMA OwnersDivide ==
  ASSUME NEW members, NEW bucket, AllOwned(members, bucket)
  PROVE  /\ \A k \in 1..Len(members) : \E split \in Splits : k \in OwnedIndexes(members, bucket, split)
         /\ \A s, t \in Splits : \A k : k \in OwnedIndexes(members, bucket, s)
                                          /\ k \in OwnedIndexes(members, bucket, t) => s = t
         /\ \A c \in AtomicComponents(members) : \E split \in Splits :
               c \subseteq OwnedIndexes(members, bucket, split)
<1> DEFINE owner(c) == bucket[ComponentAnchor(members, c)]
           C == AtomicComponents(members)
<1>1. \A split, k : k \in OwnedIndexes(members, bucket, split)
                     <=> \E c \in C : k \in c /\ owner(c) = split
  BY DEF OwnedIndexes
<1>2. \A c \in C : owner(c) \in Splits
  BY DEF AllOwned
<1>3. /\ \A c, d \in C : \A k : k \in c /\ k \in d => c = d
      /\ \A k \in 1..Len(members) : \E c \in C : k \in c
  BY ComponentsAreClasses
<1> HIDE DEF owner, C
<1>4. \A k \in 1..Len(members) : \E split \in Splits : k \in OwnedIndexes(members, bucket, split)
  BY <1>1, <1>2, <1>3
<1>5. \A s, t \in Splits : \A k : k \in OwnedIndexes(members, bucket, s)
                                     /\ k \in OwnedIndexes(members, bucket, t) => s = t
  BY <1>1, <1>3
<1>6. ASSUME NEW c \in C PROVE \E split \in Splits : c \subseteq OwnedIndexes(members, bucket, split)
  <2>1. owner(c) \in Splits
    BY <1>2
  <2>2. c \subseteq OwnedIndexes(members, bucket, owner(c))
    BY <1>1
  <2> QED
    BY <2>1, <2>2
<1> QED
  BY <1>4, <1>5, <1>6 DEF C

\* The line of a record tells which record it is: ids are unique.
LEMMA LinesTellMembers ==
  ASSUME NEW lines, IsFile(lines), \A row \in Range(lines) : IsRow(row), Readable(lines, TRUE)
  PROVE  LET members == MembersOf(lines)
         IN  /\ \A k \in 1..Len(members) : Named(members[k])
             /\ \A j, k \in 1..Len(members) : members[j].line = members[k].line => j = k
<1> DEFINE numbers == RecordLines(lines)
           members == MembersOf(lines)
<1>1. /\ IsFile(numbers) /\ Len(members) = Len(numbers)
      /\ \A k \in 1..Len(numbers) : numbers[k] \in 1..Len(lines)
      /\ \A k \in 1..Len(numbers) : members[k] = MemberOf(lines[numbers[k]], numbers[k])
  BY LinesOfRecords, MembersOfRecords
<1>2. /\ \A k \in 1..Len(lines) : lines[k] \in Range(lines)
      /\ DOMAIN numbers = 1..Len(numbers)
  BY <1>1, FileProperties
<1>3. \A k \in 1..Len(numbers) : IsRow(lines[numbers[k]])
  BY <1>1, <1>2
<1>4. \A k \in 1..Len(numbers) : lines[numbers[k]].form # "blank"
  BY LinesOfRecords
<1>5. \A row, n : /\ MemberOf(row, n).lineage = LineageOf(row) /\ MemberOf(row, n).group = row.group
                  /\ MemberOf(row, n).line = Canonical(row) /\ MemberOf(row, n).id = row.id
  BY DEF MemberOf
<1>6. ASSUME NEW row, IsRow(row) PROVE Canonical(row).id = row.id
  BY <1>6 DEF IsRow, Canonical
<1>7. /\ \A k \in 1..Len(members) : members[k].id \in Int
      /\ \A j, k \in 1..Len(members) : members[j].id = members[k].id => j = k
  BY ReadableMembers
<1> HIDE DEF members, numbers
<1>8. \A k \in 1..Len(members) : Named(members[k])
  <2>1. ASSUME NEW row, IsRow(row), row.form # "blank"
        PROVE  /\ LineageOf(row) \in Int /\ <<"lineage", LineageOf(row)>> \in Anchors
               /\ row.group # Absent => row.group \in Int /\ <<"group", row.group>> \in Anchors
    <3> HIDE DEF LineageOf
    <3> QED
      BY <2>1 DEF IsRow
  <2>2. ASSUME NEW k \in 1..Len(members) PROVE Named(members[k])
    <3>1. /\ IsRow(lines[numbers[k]]) /\ lines[numbers[k]].form # "blank"
          /\ members[k] = MemberOf(lines[numbers[k]], numbers[k])
      BY <1>1, <1>3, <1>4
    <3>2. /\ members[k].lineage = LineageOf(lines[numbers[k]])
          /\ members[k].group = lines[numbers[k]].group
      BY <1>5, <3>1
    <3> QED
      BY <2>1, <3>1, <3>2 DEF Named
  <2> QED
    BY <2>2
<1>9. \A k \in 1..Len(members) : members[k].line.id = members[k].id
  BY <1>1, <1>3, <1>5, <1>6
<1>10. \A j, k \in 1..Len(members) : members[j].line = members[k].line => j = k
  BY <1>7, <1>9
<1> QED
  BY <1>8, <1>10 DEF members

\* The three splits list as many members as the source has.
LEMMA NothingIsLost ==
  ASSUME NEW lines, IsFile(lines), Readable(lines, TRUE), NEW bucket,
         AllOwned(MembersOf(lines), bucket)
  PROVE  Len(InSplitOrder(Materialized(lines, bucket).manifest)) = Len(MembersOf(lines))
<1> DEFINE members == MembersOf(lines)
           manifest == Materialized(lines, bucket).manifest
           owned == OwnedMembers(members, bucket)
           mine(split) == OwnedIndexes(members, bucket, split)
           X == Range(members)
           seqs == [k \in 1..3 |-> manifest.splits[SplitOrder[k]]]
<1>1. manifest.splits = owned
  BY DEF Materialized, ManifestOf
<1>2. IsFile(members)
  BY MembersOfRecords
<1>3. /\ \A k \in 1..Len(members) : members[k].id \in Int
      /\ \A j, k \in 1..Len(members) : members[j].id = members[k].id => j = k
  BY ReadableMembers
<1>4. Len(members) \in Nat /\ \A k \in 1..Len(members) : members[k] \in X
  BY <1>2, FileProperties
<1> HIDE DEF members, manifest, X
<1>5. ASSUME NEW split \in Splits
      PROVE  /\ mine(split) \subseteq 1..Len(members) /\ IsFiniteSet(mine(split))
             /\ Len(owned[split]) = Cardinality(mine(split)) /\ owned[split] \in Seq(X)
  <2> HIDE DEF owned, mine
  <2>1. /\ mine(split) \subseteq 1..Len(members) /\ IsFiniteSet(mine(split))
        /\ IsFile(owned[split]) /\ Len(owned[split]) = Cardinality(mine(split))
        /\ \A p \in 1..Len(owned[split]) : \E k \in mine(split) : owned[split][p] = members[k]
    BY <1>2, <1>3, OwnedAreListed DEF owned, mine
  <2>2. /\ Len(owned[split]) \in Nat
        /\ owned[split] = [k \in 1..Len(owned[split]) |-> owned[split][k]]
    BY <2>1, FileProperties
  <2>3. \A p \in 1..Len(owned[split]) : owned[split][p] \in X
    BY <1>4, <2>1
  <2>4. owned[split] \in [1..Len(owned[split]) -> X]
    BY <2>2, <2>3
  <2>5. owned[split] \in Seq(X)
    BY <2>2, <2>4, SeqDef
  <2> QED
    BY <2>1, <2>5
<1>6. /\ \A k \in 1..Len(members) : \E split \in Splits : k \in mine(split)
      /\ \A s, t \in Splits : \A k : k \in mine(s) /\ k \in mine(t) => s = t
  BY OwnersDivide DEF members
<1> HIDE DEF owned, mine
<1> DEFINE T == mine("train")
           V == mine("validation")
           H == mine("held_out")
<1>7. "train" \in Splits /\ "validation" \in Splits /\ "held_out" \in Splits
      /\ \A split \in Splits : split \in {"train", "validation", "held_out"}
  BY DEF Splits
<1>8. Cardinality(T) + Cardinality(V) + Cardinality(H) = Len(members)
  <2>1. IsFiniteSet(T) /\ IsFiniteSet(V) /\ IsFiniteSet(H)
    BY <1>5, <1>7
  <2>2. T \cap V = {} /\ (T \cup V) \cap H = {} /\ (T \cup V) \cup H = 1..Len(members)
    BY <1>5, <1>6, <1>7
  <2> HIDE DEF T, V, H
  <2>3. IsFiniteSet(T \cup V)
        /\ Cardinality(T \cup V) = Cardinality(T) + Cardinality(V) - Cardinality(T \cap V)
    BY <2>1, FS_Union
  <2>4. Cardinality((T \cup V) \cup H)
          = Cardinality(T \cup V) + Cardinality(H) - Cardinality((T \cup V) \cap H)
    BY <2>1, <2>3, FS_Union
  <2>5. Cardinality({}) = 0 /\ Cardinality(1..Len(members)) = Len(members)
    <3>1. Cardinality(1..Len(members)) = IF 1 > Len(members) THEN 0 ELSE Len(members) - 1 + 1
      BY <1>4, FS_Interval
    <3> QED
      BY <1>4, <3>1, FS_EmptySet
  <2>6. Cardinality(T) \in Int /\ Cardinality(V) \in Int /\ Cardinality(H) \in Int
    BY <2>1, FS_CardinalityType
  <2>7. Cardinality(T \cup V) = Cardinality(T) + Cardinality(V)
    <3>1. Cardinality(T \cup V) = Cardinality(T) + Cardinality(V) - 0
      BY <2>2, <2>3, <2>5
    <3> QED
      BY <2>6, <3>1
  <2>8. Len(members) = Cardinality(T \cup V) + Cardinality(H)
    <3>1. Len(members) = Cardinality(T \cup V) + Cardinality(H) - 0
      BY <2>2, <2>4, <2>5
    <3>2. Cardinality(T \cup V) \in Int
      BY <2>6, <2>7
    <3> QED
      BY <2>6, <3>1, <3>2
  <2> QED
    BY <2>7, <2>8
<1>9. seqs[1] = owned["train"] /\ seqs[2] = owned["validation"] /\ seqs[3] = owned["held_out"]
  BY <1>1 DEF SplitOrder
<1>10. seqs \in Seq(Seq(X)) /\ Len(seqs) = 3
  <2>1. \A k \in 1..3 : seqs[k] \in Seq(X)
    <3>1. \A k \in 1..3 : k = 1 \/ k = 2 \/ k = 3
      OBVIOUS
    <3> HIDE DEF seqs
    <3> QED
      BY <1>5, <1>7, <1>9, <3>1
  <2>2. seqs = [k \in 1..3 |-> seqs[k]]
    OBVIOUS
  <2> HIDE DEF seqs
  <2>3. seqs \in [1..3 -> Seq(X)]
    BY <2>1, <2>2
  <2> DEFINE Y == Seq(X)
  <2> HIDE DEF Y
  <2>4. seqs \in Seq(Y) /\ Len(seqs) = 3
    <3>1. seqs \in [1..3 -> Y] /\ 3 \in Nat
      BY <2>3 DEF Y
    <3>2. seqs \in Seq(Y)
      BY <3>1, SeqDef
    <3> QED
      BY <3>1, <3>2, LenProperties
  <2> QED
    BY <2>4 DEF Y
<1>11. InSplitOrder(manifest) = FlattenSeq(seqs)
  BY DEF InSplitOrder
<1> HIDE DEF seqs
<1>12. Len(FlattenSeq(seqs)) = Len(seqs[1]) + Len(seqs[2]) + Len(seqs[3])
  BY <1>10, FlattenedThree
<1>13. /\ Len(owned["train"]) = Cardinality(T) /\ Len(owned["validation"]) = Cardinality(V)
       /\ Len(owned["held_out"]) = Cardinality(H)
  BY <1>5, <1>7
<1> HIDE DEF T, V, H
<1>14. Len(InSplitOrder(manifest)) = Len(members)
  BY <1>8, <1>9, <1>11, <1>12, <1>13
<1> QED
  BY <1>14 DEF members, manifest

\* What is materialized is a partition of its source by connected components.
LEMMA MaterializedIsPartition ==
  ASSUME NEW lines, IsFile(lines), \A row \in Range(lines) : IsRow(row),
         NEW bucket \in [Anchors -> Splits], Materializable(lines, bucket)
  PROVE  IsPartition(Materialized(lines, bucket))
<1> DEFINE members == MembersOf(lines)
           snapshot == Materialized(lines, bucket)
           owned == OwnedMembers(members, bucket)
           mine(split) == OwnedIndexes(members, bucket, split)
           homes(k) == {split \in Splits : members[k].line \in ToSet(snapshot.files[split].rows)}
           I == 1..Len(members)
<1>1. Readable(lines, TRUE)
  BY DEF Materializable
<1>2. IsFile(members)
  BY MembersOfRecords
<1>3. /\ \A k \in I : members[k].id \in Int
      /\ \A j, k \in I : members[j].id = members[k].id => j = k
  BY <1>1, ReadableMembers
<1>4. /\ \A k \in I : Named(members[k])
      /\ \A j, k \in I : members[j].line = members[k].line => j = k
  BY <1>1, LinesTellMembers
<1>5. snapshot.manifest.source = lines
      /\ \A split \in Splits : snapshot.files[split].rows = [k \in DOMAIN owned[split] |-> owned[split][k].line]
  BY DEF Materialized, ManifestOf, ArtifactRows
<1> HIDE DEF members
<1>6. Len(members) \in Nat /\ members \in Seq(Range(members))
  BY <1>2, FileProperties DEF IsFile
<1>7. AtomicComponents(members) = ConnectedComponents(members)
  <2> DEFINE X == Range(members)
  <2>1. members \in Seq(X)
    BY <1>6
  <2> HIDE DEF X
  <2> QED
    BY <2>1, ComponentsAreConnected
<1>8. \A c \in AtomicComponents(members) : c # {} /\ c \subseteq I
  BY ComponentsAreClasses
<1>9. AllOwned(members, bucket)
  <2> SUFFICES ASSUME NEW c \in AtomicComponents(members)
               PROVE  bucket[ComponentAnchor(members, c)] \in Splits
    BY DEF AllOwned
  <2>1. c # {} /\ c \subseteq 1..Len(members)
    BY <1>8
  <2>2. ComponentAnchor(members, c) \in Anchors
    BY <1>4, <1>6, <2>1, AnchorIsAName
  <2> QED
    BY <2>2
<1>10. /\ \A k \in I : \E split \in Splits : k \in mine(split)
       /\ \A s, t \in Splits : \A k : k \in mine(s) /\ k \in mine(t) => s = t
       /\ \A c \in AtomicComponents(members) : \E split \in Splits : c \subseteq mine(split)
  BY <1>9, OwnersDivide
<1>11. ASSUME NEW split \in Splits, NEW k \in I
       PROVE  members[k].line \in ToSet(snapshot.files[split].rows) <=> k \in mine(split)
  <2> HIDE DEF owned, mine, snapshot
  <2> DEFINE list == owned[split]
             rows == [p \in DOMAIN list |-> list[p].line]
  <2>1. /\ IsFile(list) /\ mine(split) \subseteq I
        /\ \A p \in 1..Len(list) : \E j \in mine(split) : list[p] = members[j]
        /\ \A j \in mine(split) : \E p \in 1..Len(list) : list[p] = members[j]
    BY <1>2, <1>3, OwnedAreListed DEF owned, mine
  <2>2. DOMAIN list = 1..Len(list)
    BY <2>1, FileProperties
  <2>3. snapshot.files[split].rows = rows
    BY <1>5
  <2> HIDE DEF list
  <2>4. ToSet(rows) = {list[p].line : p \in 1..Len(list)}
    BY <2>2 DEF ToSet
  <2>5. members[k].line \in ToSet(rows) <=> \E j \in mine(split) : members[j].line = members[k].line
    <3>1. ASSUME NEW p \in 1..Len(list), list[p].line = members[k].line
          PROVE  \E j \in mine(split) : members[j].line = members[k].line
      <4>1. PICK j \in mine(split) : list[p] = members[j]
        BY <2>1
      <4> QED
        BY <3>1, <4>1
    <3>2. ASSUME NEW j \in mine(split), members[j].line = members[k].line
          PROVE  members[k].line \in ToSet(rows)
      <4>1. PICK p \in 1..Len(list) : list[p] = members[j]
        BY <2>1 DEF list
      <4>2. list[p].line = members[k].line
        BY <3>2, <4>1
      <4> QED
        BY <2>4, <4>2
    <3> QED
      BY <2>4, <3>1, <3>2
  <2>6. (\E j \in mine(split) : members[j].line = members[k].line) <=> k \in mine(split)
    BY <1>4, <2>1
  <2> QED
    BY <2>3, <2>5, <2>6
<1> HIDE DEF mine, owned, snapshot
<1>12. ASSUME NEW c \in ConnectedComponents(members)
       PROVE  \E split \in Splits : \A k \in c : homes(k) = {split}
  <2>1. c \in AtomicComponents(members) /\ c \subseteq I
    BY <1>7, <1>8
  <2>2. PICK split \in Splits : c \subseteq mine(split)
    BY <1>10, <2>1
  <2>3. ASSUME NEW k \in c PROVE homes(k) = {split}
    <3>1. k \in I /\ k \in mine(split)
      BY <2>1, <2>2
    <3>2. \A s \in Splits : members[k].line \in ToSet(snapshot.files[s].rows) <=> s = split
      BY <1>10, <1>11, <3>1
    <3> QED
      BY <3>2
  <2> QED
    BY <2>3
<1>13. Len(InSplitOrder(snapshot.manifest)) = Len(members)
  BY <1>1, <1>9, NothingIsLost DEF members, snapshot
<1> QED
  BY <1>5, <1>7, <1>12, <1>13 DEF IsPartition, members, snapshot

-----------------------------------------------------------------------------
(* Ownership does not depend on the order of the members *)

\* One list has the members of another, in some order.
Rearranges(pi, N, P) ==
    OneToOne(pi, Items(N), Items(P)) /\ \A i \in Items(N) : N[i] = P[pi[i]]

LEMMA ReachRearranged ==
  ASSUME NEW X, NEW N \in Seq(X), NEW P \in Seq(X), NEW pi, Rearranges(pi, N, P), NEW i \in Items(N)
  PROVE  \A j \in Items(N) : j \in Reach(N, i) <=> pi[j] \in Reach(P, pi[i])
<1>1. /\ \A j \in Items(N) : pi[j] \in Items(P) /\ N[j] = P[pi[j]]
      /\ \A j, k \in Items(N) : pi[j] = pi[k] => j = k
      /\ \A m \in Items(P) : \E j \in Items(N) : pi[j] = m
  BY DEF Rearranges, OneToOne
<1> DEFINE A == {j \in Items(N) : pi[j] \in Reach(P, pi[i])}
           B == {pi[j] : j \in Reach(N, i)}
<1>2. /\ i \in Reach(N, i) /\ Closed(N, Reach(N, i))
      /\ \A S : Closed(N, S) /\ i \in S => Reach(N, i) \subseteq S
  BY ReachIsClosure
<1>3. /\ pi[i] \in Reach(P, pi[i]) /\ Closed(P, Reach(P, pi[i]))
      /\ \A S : Closed(P, S) /\ pi[i] \in S => Reach(P, pi[i]) \subseteq S
  <2>1. pi[i] \in Items(P)
    BY <1>1
  <2> QED
    BY <2>1, ReachIsClosure
<1>4. Closed(N, A)
  BY <1>1, <1>3 DEF Closed, Near
<1>5. Closed(P, B)
  <2>1. B \subseteq Items(P)
    BY <1>1, <1>2 DEF Closed
  <2>2. ASSUME NEW m \in Items(P), NEW j \in Reach(N, i), Shares(P[m], P[pi[j]]) PROVE m \in B
    <3>1. PICK k \in Items(N) : pi[k] = m
      BY <1>1
    <3>2. j \in Items(N)
      BY <1>2 DEF Closed
    <3>3. Shares(N[k], N[j])
      BY <1>1, <2>2, <3>1, <3>2
    <3>4. k \in Reach(N, i)
      BY <1>2, <3>3 DEF Closed, Near
    <3> QED
      BY <3>1, <3>4
  <2>3. ASSUME NEW m \in Items(P), NEW s \in B, Shares(P[m], P[s]) PROVE m \in B
    BY <2>2, <2>3
  <2> HIDE DEF B
  <2> QED
    BY <2>1, <2>3 DEF Closed, Near
<1>6. Reach(N, i) \subseteq A
  BY <1>2, <1>3, <1>4
<1>7. Reach(P, pi[i]) \subseteq B
  BY <1>2, <1>3, <1>5
<1>8. ASSUME NEW j \in Items(N), pi[j] \in Reach(P, pi[i]) PROVE j \in Reach(N, i)
  <2>1. PICK k \in Reach(N, i) : pi[k] = pi[j]
    BY <1>7, <1>8
  <2>2. k \in Items(N)
    BY <1>2 DEF Closed
  <2> QED
    BY <1>1, <2>1, <2>2
<1> QED
  BY <1>6, <1>8

\* A member belongs to the split that owns the anchor of what it reaches.
LEMMA OwnerOfIndex ==
  ASSUME NEW X, NEW members \in Seq(X), NEW bucket, NEW split
  PROVE  \A k \in Items(members) :
            k \in OwnedIndexes(members, bucket, split)
              <=> bucket[ComponentAnchor(members, Reach(members, k))] = split
<1> SUFFICES ASSUME NEW k \in Items(members)
             PROVE  k \in OwnedIndexes(members, bucket, split)
                      <=> bucket[ComponentAnchor(members, Reach(members, k))] = split
  OBVIOUS
<1> DEFINE C == AtomicComponents(members)
<1>1. C = {Reach(members, j) : j \in Items(members)}
  <2>1. C = ConnectedComponents(members)
    BY ComponentsAreConnected
  <2> QED
    BY <2>1 DEF ConnectedComponents, Reach, Near, Items
<1>2. \A c, d \in C : \A j : j \in c /\ j \in d => c = d
  BY ComponentsAreClasses
<1>3. k \in Reach(members, k)
  BY ReachIsClosure
<1>4. k \in OwnedIndexes(members, bucket, split)
        <=> \E c \in C : k \in c /\ bucket[ComponentAnchor(members, c)] = split
  BY DEF OwnedIndexes
<1>5. Reach(members, k) \in C
  BY <1>1
<1> HIDE DEF C
<1> QED
  BY <1>2, <1>3, <1>4, <1>5

\* Rearranged components have the same anchors.
LEMMA AnchorRearranged ==
  ASSUME NEW N, NEW P, NEW pi, Rearranges(pi, N, P), NEW c \in SUBSET Items(N), NEW d \in SUBSET Items(P),
         \A j \in Items(N) : j \in c <=> pi[j] \in d
  PROVE  ComponentAnchor(N, c) = ComponentAnchor(P, d)
<1>1. /\ \A j \in c : pi[j] \in d /\ N[j] = P[pi[j]]
      /\ \A m \in d : \E j \in c : pi[j] = m
  BY DEF Rearranges, OneToOne
<1>2. {N[k].group : k \in c} = {P[k].group : k \in d}
  BY <1>1
<1>3. {N[k].lineage : k \in c} = {P[k].lineage : k \in d}
  BY <1>1
<1> QED
  BY <1>2, <1>3 DEF ComponentAnchor

LEMMA OwnershipRearranged ==
  ASSUME NEW X, NEW N \in Seq(X), NEW P \in Seq(X), NEW pi, Rearranges(pi, N, P), NEW bucket, NEW split
  PROVE  \A j \in Items(N) :
            j \in OwnedIndexes(N, bucket, split) <=> pi[j] \in OwnedIndexes(P, bucket, split)
<1> SUFFICES ASSUME NEW j \in Items(N)
             PROVE  j \in OwnedIndexes(N, bucket, split) <=> pi[j] \in OwnedIndexes(P, bucket, split)
  OBVIOUS
<1>1. pi[j] \in Items(P)
  BY DEF Rearranges, OneToOne
<1>2. Reach(N, j) \in SUBSET Items(N) /\ Reach(P, pi[j]) \in SUBSET Items(P)
  BY <1>1, ReachIsClosure DEF Closed
<1>3. \A i \in Items(N) : i \in Reach(N, j) <=> pi[i] \in Reach(P, pi[j])
  BY ReachRearranged
<1>4. ComponentAnchor(N, Reach(N, j)) = ComponentAnchor(P, Reach(P, pi[j]))
  BY <1>2, <1>3, AnchorRearranged
<1>5. j \in OwnedIndexes(N, bucket, split) <=> bucket[ComponentAnchor(N, Reach(N, j))] = split
  BY OwnerOfIndex
<1>6. pi[j] \in OwnedIndexes(P, bucket, split) <=> bucket[ComponentAnchor(P, Reach(P, pi[j]))] = split
  BY <1>1, OwnerOfIndex
<1> QED
  BY <1>4, <1>5, <1>6

\* The ids of a split's members, and how many there are, do not depend on the
\* order of the members.
LEMMA IdsRearranged ==
  ASSUME NEW X, NEW N \in Seq(X), NEW P \in Seq(X), NEW pi, Rearranges(pi, N, P), NEW bucket,
         \A k \in Items(P) : P[k].id \in Int,
         \A j, k \in Items(P) : P[j].id = P[k].id => j = k,
         NEW split \in Splits
  PROVE  LET a == AssignRecords(N, bucket)[split]
             b == AssignRecords(P, bucket)[split]
         IN  /\ DOMAIN a = DOMAIN b
             /\ \A p \in DOMAIN a : N[a[p]].id = P[b[p]].id
<1> DEFINE J == OwnedIndexes(N, bucket, split)
           I == OwnedIndexes(P, bucket, split)
           k == [j \in J |-> N[j].id]
           l == [i \in I |-> P[i].id]
           g == [j \in J |-> pi[j]]
           a == AssignRecords(N, bucket)[split]
           b == AssignRecords(P, bucket)[split]
<1>1. a = InOrder(J, k) /\ b = InOrder(I, l)
  BY DEF AssignRecords, SortedById, OwnedIndexes
<1>2. J \subseteq Items(N) /\ I \subseteq Items(P)
  <2>1. /\ \A c \in AtomicComponents(N) : c \subseteq Items(N)
        /\ \A c \in AtomicComponents(P) : c \subseteq Items(P)
    BY ComponentsAreClasses DEF Items
  <2> QED
    BY <2>1 DEF OwnedIndexes
<1>3. /\ \A j \in Items(N) : pi[j] \in Items(P) /\ N[j] = P[pi[j]]
      /\ \A x, y \in Items(N) : pi[x] = pi[y] => x = y
      /\ \A m \in Items(P) : \E j \in Items(N) : pi[j] = m
  BY DEF Rearranges, OneToOne
<1>4. \A j \in Items(N) : j \in J <=> pi[j] \in I
  BY OwnershipRearranged
<1> HIDE DEF I, J
<1>5. IsFiniteSet(J)
  <2>1. IsFiniteSet(Items(N))
    BY LenProperties, FS_Interval DEF Items
  <2> QED
    BY <1>2, <2>1, FS_Subset
<1>6. OneToOne(g, J, I)
  <2>1. g \in [J -> I]
    BY <1>2, <1>4
  <2>2. \A x, y \in J : g[x] = g[y] => x = y
    BY <1>2, <1>3
  <2>3. \A z \in I : \E x \in J : g[x] = z
    BY <1>2, <1>3, <1>4
  <2> QED
    BY <2>1, <2>2, <2>3 DEF OneToOne
<1>7. \A j \in J : k[j] \in Int /\ l[g[j]] = k[j] /\ k[j] = N[j].id
  BY <1>2, <1>3, <1>4
<1>8. \A x, y \in J : x # y => k[x] # k[y]
  BY <1>2, <1>3
<1>9. \A i \in I : l[i] \in Int /\ l[i] = P[i].id
  BY <1>2
<1>10. \A x, y \in I : x # y => l[x] # l[y]
  BY <1>2
<1> HIDE DEF g, k, l
<1>11. /\ Cardinality(I) = Cardinality(J) /\ IsFiniteSet(I)
       /\ \A p \in 1..Cardinality(J) : InOrder(I, l)[p] = g[InOrder(J, k)[p]]
  BY <1>5, <1>6, <1>7, <1>8, OrderedAlike, SameSize
<1>12. /\ DOMAIN InOrder(J, k) = 1..Cardinality(J)
       /\ \A p \in 1..Cardinality(J) : InOrder(J, k)[p] \in J
  BY <1>5, <1>7, <1>8, OrderedByPlace
<1>13. /\ DOMAIN InOrder(I, l) = 1..Cardinality(I)
       /\ \A p \in 1..Cardinality(I) : InOrder(I, l)[p] \in I
  BY <1>9, <1>10, <1>11, OrderedByPlace
<1>14. ASSUME NEW p \in 1..Cardinality(J) PROVE N[a[p]].id = P[b[p]].id
  <2> DEFINE x == InOrder(J, k)[p]
             y == InOrder(I, l)[p]
  <2>1. x \in J /\ y \in I /\ y = g[x]
    BY <1>11, <1>12, <1>13
  <2> HIDE DEF x, y
  <2>2. N[x].id = P[y].id
    BY <1>7, <1>9, <2>1
  <2> QED
    BY <1>1, <2>2 DEF x, y
<1> HIDE DEF a, b
<1>15. DOMAIN a = 1..Cardinality(J) /\ DOMAIN b = 1..Cardinality(J)
  BY <1>1, <1>11, <1>12, <1>13
<1> QED
  BY <1>14, <1>15 DEF a, b

-----------------------------------------------------------------------------
(* What a source that can be materialized gives its readers *)

\* The members in split order are those of the three splits.
LEMMA SplitsInOrder ==
  ASSUME NEW X, NEW manifest, \A split \in Splits : manifest.splits[split] \in Seq(X)
  PROVE  LET listed == InSplitOrder(manifest)
         IN  /\ listed \in Seq(X) /\ ToSet(listed) = ManifestMembers(manifest)
             /\ Len(listed) = Len(manifest.splits["train"]) + Len(manifest.splits["validation"])
                                + Len(manifest.splits["held_out"])
<1> DEFINE owned(split) == manifest.splits[split]
           seqs == [k \in 1..3 |-> owned(SplitOrder[k])]
<1>1. "train" \in Splits /\ "validation" \in Splits /\ "held_out" \in Splits
      /\ \A split \in Splits : split \in {"train", "validation", "held_out"}
  BY DEF Splits
<1>2. \A split \in Splits : owned(split) \in Seq(X)
  OBVIOUS
<1>3. ManifestMembers(manifest) = UNION {ToSet(owned(split)) : split \in Splits}
  BY DEF ManifestMembers
<1>4. InSplitOrder(manifest) = FlattenSeq(seqs)
  BY DEF InSplitOrder
<1> HIDE DEF owned
<1>5. seqs[1] = owned("train") /\ seqs[2] = owned("validation") /\ seqs[3] = owned("held_out")
  BY DEF SplitOrder
<1>6. seqs = [k \in 1..3 |-> seqs[k]]
  OBVIOUS
<1> HIDE DEF seqs
<1>7. \A k \in 1..3 : k = 1 \/ k = 2 \/ k = 3
  OBVIOUS
<1>8. seqs \in Seq(Seq(X)) /\ Len(seqs) = 3
  <2>1. \A k \in 1..3 : seqs[k] \in Seq(X)
    BY <1>1, <1>2, <1>5, <1>7
  <2> DEFINE Y == Seq(X)
  <2>2. seqs \in [1..3 -> Y] /\ 3 \in Nat
    BY <1>6, <2>1
  <2> HIDE DEF Y
  <2>3. seqs \in Seq(Y)
    BY <2>2, SeqDef
  <2>4. Len(seqs) = 3
    BY <2>2, <2>3, LenProperties
  <2> QED
    BY <2>3, <2>4 DEF Y
<1>9. /\ FlattenSeq(seqs) \in Seq(X)
      /\ ToSet(FlattenSeq(seqs)) = UNION {ToSet(seqs[k]) : k \in 1..Len(seqs)}
  BY <1>8, Flattened
<1>10. Len(FlattenSeq(seqs)) = Len(seqs[1]) + Len(seqs[2]) + Len(seqs[3])
  BY <1>8, FlattenedThree
<1>11. UNION {ToSet(seqs[k]) : k \in 1..3} = UNION {ToSet(owned(split)) : split \in Splits}
  <2>1. \A k \in 1..3 : \E split \in Splits : seqs[k] = owned(split)
    BY <1>1, <1>5, <1>7
  <2>2. \A split \in Splits : \E k \in 1..3 : seqs[k] = owned(split)
    <3>1. 1 \in 1..3 /\ 2 \in 1..3 /\ 3 \in 1..3
      OBVIOUS
    <3> QED
      BY <1>1, <1>5, <3>1
  <2> HIDE <1>5
  <2> QED
    BY <2>1, <2>2
<1>12. ToSet(FlattenSeq(seqs)) = ManifestMembers(manifest)
  BY <1>3, <1>8, <1>9, <1>11
<1>13. Len(FlattenSeq(seqs)) = Len(owned("train")) + Len(owned("validation")) + Len(owned("held_out"))
  BY <1>5, <1>10
<1> QED
  BY <1>4, <1>9, <1>12, <1>13 DEF owned

\* A source as a scenario has it, with a hash, that can be materialized.
Sound(lines, bucket) ==
    /\ IsFile(lines) /\ \A row \in Range(lines) : IsRow(row)
    /\ bucket \in [Anchors -> Splits]
    /\ Materializable(lines, bucket)

\* What assignment works on and what it promises, in one place.
LEMMA SoundMembers ==
  ASSUME NEW lines, NEW bucket, Sound(lines, bucket)
  PROVE  LET members == MembersOf(lines)
         IN  /\ IsFile(lines) /\ Readable(lines, TRUE) /\ Assignable(members, bucket)
             /\ IsFile(members) /\ members \in Seq(ToSet(members)) /\ Len(members) \in Nat
             /\ DOMAIN members = 1..Len(members)
             /\ \A k \in 1..Len(members) : members[k].id \in Int
             /\ \A j, k \in 1..Len(members) : members[j].id = members[k].id => j = k
             /\ AllOwned(members, bucket)
<1> DEFINE members == MembersOf(lines)
<1>1. /\ IsFile(lines) /\ Readable(lines, TRUE) /\ Assignable(members, bucket)
      /\ bucket \in [Anchors -> Splits]
  BY DEF Sound, Materializable
<1>2. IsFile(members)
  BY <1>1, MembersOfRecords
<1>3. /\ \A k \in 1..Len(members) : members[k].id \in Int
      /\ \A j, k \in 1..Len(members) : members[j].id = members[k].id => j = k
  BY <1>1, ReadableMembers
<1>4. \A k \in 1..Len(members) : Named(members[k])
  BY <1>1, LinesTellMembers DEF Sound
<1> HIDE DEF members
<1>5. Len(members) \in Nat /\ members \in Seq(ToSet(members)) /\ DOMAIN members = 1..Len(members)
  <2>1. Range(members) = ToSet(members)
    BY DEF Range, ToSet
  <2>2. members \in Seq(Range(members))
    BY <1>2 DEF IsFile
  <2> QED
    BY <1>2, <2>1, <2>2, FileProperties
<1>6. AllOwned(members, bucket)
  <2> SUFFICES ASSUME NEW c \in AtomicComponents(members)
               PROVE  bucket[ComponentAnchor(members, c)] \in Splits
    BY DEF AllOwned
  <2>1. c # {} /\ c \subseteq 1..Len(members)
    BY ComponentsAreClasses
  <2>2. ComponentAnchor(members, c) \in Anchors
    BY <1>4, <1>5, <2>1, AnchorIsAName
  <2> QED
    BY <1>1, <2>2
<1> QED
  BY <1>1, <1>2, <1>3, <1>5, <1>6 DEF members

LEMMA ManifestFields ==
  ASSUME NEW lines, NEW bucket
  PROVE  LET manifest == Materialized(lines, bucket).manifest
         IN  /\ manifest.source = lines
             /\ manifest.splits = OwnedMembers(MembersOf(lines), bucket)
             /\ manifest.splits = [split \in Splits |-> manifest.splits[split]]
             /\ manifest.count = Len(RecordLines(lines))
             /\ \A split \in Splits : manifest.digests[split] = ArtifactRows(manifest.splits[split])
<1> DEFINE owned == OwnedMembers(MembersOf(lines), bucket)
<1>1. owned = [split \in Splits |-> owned[split]]
  BY DEF OwnedMembers
<1> HIDE DEF owned
<1>2. Materialized(lines, bucket).manifest = ManifestOf(lines, owned)
  BY DEF Materialized, owned
<1> QED
  BY <1>1, <1>2 DEF ManifestOf, owned

\* The members in split order are the source's own, in some other order.
LEMMA SplitOrderRearranges ==
  ASSUME NEW lines, NEW bucket, Sound(lines, bucket)
  PROVE  LET members == MembersOf(lines)
             manifest == Materialized(lines, bucket).manifest
             listed == InSplitOrder(manifest)
         IN  /\ listed \in Seq(ToSet(members)) /\ Len(listed) = Len(members)
             /\ ToSet(listed) = ToSet(members) /\ ManifestMembers(manifest) = ToSet(members)
             /\ \A split \in Splits : manifest.splits[split] \in Seq(ToSet(members))
             /\ \E pi : Rearranges(pi, listed, members)
<1> DEFINE members == MembersOf(lines)
           manifest == Materialized(lines, bucket).manifest
           listed == InSplitOrder(manifest)
           owned(split) == manifest.splits[split]
           X == ToSet(members)
           mine(split) == OwnedIndexes(members, bucket, split)
<1>1. /\ IsFile(lines) /\ Readable(lines, TRUE) /\ IsFile(members) /\ members \in Seq(X) /\ Len(members) \in Nat
      /\ DOMAIN members = 1..Len(members)
      /\ \A k \in 1..Len(members) : members[k].id \in Int
      /\ \A j, k \in 1..Len(members) : members[j].id = members[k].id => j = k
      /\ AllOwned(members, bucket)
  BY SoundMembers
<1>2. manifest.splits = OwnedMembers(members, bucket)
  BY ManifestFields
<1>3. Len(listed) = Len(members)
  BY <1>1, NothingIsLost
<1> HIDE DEF members, manifest
<1>4. ASSUME NEW split \in Splits
      PROVE  /\ IsFile(owned(split)) /\ mine(split) \subseteq 1..Len(members)
             /\ \A p \in 1..Len(owned(split)) : \E k \in mine(split) : owned(split)[p] = members[k]
             /\ \A k \in mine(split) : \E p \in 1..Len(owned(split)) : owned(split)[p] = members[k]
  BY <1>1, <1>2, OwnedAreListed
<1>5. \A k \in 1..Len(members) : \E split \in Splits : k \in mine(split)
  BY <1>1, OwnersDivide
<1>6. X = {members[k] : k \in 1..Len(members)}
  BY <1>1 DEF ToSet
<1> HIDE DEF mine, X
<1>7. ASSUME NEW split \in Splits
      PROVE  /\ owned(split) \in Seq(X) /\ ToSet(owned(split)) = {members[k] : k \in mine(split)}
  <2> HIDE DEF owned
  <2>1. /\ Len(owned(split)) \in Nat /\ DOMAIN owned(split) = 1..Len(owned(split))
        /\ owned(split) = [k \in 1..Len(owned(split)) |-> owned(split)[k]]
    BY <1>4, FileProperties
  <2>2. \A p \in 1..Len(owned(split)) : owned(split)[p] \in X
    BY <1>4, <1>6
  <2>3. owned(split) \in [1..Len(owned(split)) -> X]
    BY <2>1, <2>2
  <2>4. owned(split) \in Seq(X)
    BY <2>1, <2>3, SeqDef
  <2>5. ToSet(owned(split)) = {owned(split)[p] : p \in 1..Len(owned(split))}
    BY <2>1 DEF ToSet
  <2>6. ToSet(owned(split)) = {members[k] : k \in mine(split)}
    BY <1>4, <2>5
  <2> QED
    BY <2>4, <2>6
<1>8. listed \in Seq(X) /\ ToSet(listed) = ManifestMembers(manifest)
  <2>1. \A split \in Splits : manifest.splits[split] \in Seq(X)
    BY <1>7
  <2> QED
    BY <2>1, SplitsInOrder
<1>9. ManifestMembers(manifest) = X
  <2>1. ManifestMembers(manifest) = UNION {ToSet(owned(split)) : split \in Splits}
    BY DEF ManifestMembers
  <2> HIDE DEF owned
  <2>2. \A x : x \in ManifestMembers(manifest) <=> \E split \in Splits : \E k \in mine(split) : x = members[k]
    BY <1>7, <2>1
  <2>3. \A x : x \in X <=> \E k \in 1..Len(members) : x = members[k]
    BY <1>6
  <2> QED
    BY <1>4, <1>5, <2>2, <2>3
<1>10. /\ Len(listed) \in Nat /\ DOMAIN listed = 1..Len(listed)
  BY <1>8, LenProperties
<1> HIDE DEF listed
<1>11. \E pi : Rearranges(pi, listed, members)
  <2> DEFINE pi == [i \in 1..Len(listed) |-> CHOOSE k \in 1..Len(members) : listed[i] = members[k]]
  <2>1. ASSUME NEW i \in 1..Len(listed) PROVE \E k \in 1..Len(members) : listed[i] = members[k]
    <3>1. listed[i] \in X
      BY <1>8, <1>9, <1>10 DEF ToSet
    <3> QED
      BY <1>6, <3>1
  <2>2. \A i \in 1..Len(listed) : pi[i] \in 1..Len(members) /\ listed[i] = members[pi[i]]
    BY <2>1
  <2>3. pi \in [Items(listed) -> Items(members)]
    BY <2>2 DEF Items
  <2> HIDE DEF pi
  <2>4. ASSUME NEW k \in 1..Len(members) PROVE \E i \in 1..Len(listed) : pi[i] = k
    <3>1. members[k] \in ToSet(listed)
      BY <1>6, <1>8, <1>9
    <3>2. PICK i \in 1..Len(listed) : listed[i] = members[k]
      BY <1>10, <3>1 DEF ToSet
    <3>3. members[pi[i]] = members[k]
      BY <2>2, <3>2
    <3>4. pi[i] = k
      BY <1>1, <2>2, <3>3
    <3> QED
      BY <3>4
  <2>5. \A z \in Items(members) : \E x \in Items(listed) : pi[x] = z
    BY <2>4 DEF Items
  <2>6. pi \in Surjection(Items(listed), Items(members))
    BY <2>3, <2>5 DEF Surjection
  <2>7. /\ IsFiniteSet(Items(listed)) /\ IsFiniteSet(Items(members))
        /\ Cardinality(Items(listed)) = Cardinality(Items(members))
    BY <1>1, <1>3, FS_Interval DEF Items
  <2>8. pi \in Injection(Items(listed), Items(members))
    BY <2>6, <2>7, FS_SurjSameCardinalityImpliesInj
  <2>9. \A x, y \in Items(listed) : pi[x] = pi[y] => x = y
    BY <2>8 DEF Injection, IsInjective
  <2>10. OneToOne(pi, Items(listed), Items(members))
    BY <2>3, <2>5, <2>9 DEF OneToOne
  <2>11. \A i \in Items(listed) : listed[i] = members[pi[i]]
    BY <2>2 DEF Items
  <2> QED
    BY <2>10, <2>11 DEF Rearranges
<1> QED
  BY <1>3, <1>7, <1>8, <1>9, <1>11 DEF listed, members, manifest, X

\* A split lists members of the source, each of them once, and has one at least.
Lists(a, owned, members) ==
    /\ IsFile(owned) /\ Len(owned) # 0
    /\ \A p \in 1..Len(owned) : a[p] \in 1..Len(members) /\ owned[p] = members[a[p]]
    /\ \A p, q \in 1..Len(owned) : a[p] = a[q] => p = q

LEMMA SplitLists ==
  ASSUME NEW lines, NEW bucket, Sound(lines, bucket), NEW split \in Splits
  PROVE  /\ \E a : Lists(a, Materialized(lines, bucket).manifest.splits[split], MembersOf(lines))
         /\ AssignRecords(MembersOf(lines), bucket)[split] # <<>>
         /\ IsFile(AssignRecords(MembersOf(lines), bucket)[split])
<1> DEFINE members == MembersOf(lines)
           owned == Materialized(lines, bucket).manifest.splits[split]
           indexes == OwnedIndexes(members, bucket, split)
           key == [k \in indexes |-> members[k].id]
           assigned == InOrder(indexes, key)
<1>1. /\ Assignable(members, bucket) /\ Len(members) \in Nat
      /\ \A k \in 1..Len(members) : members[k].id \in Int
      /\ \A j, k \in 1..Len(members) : members[j].id = members[k].id => j = k
  BY SoundMembers
<1>2. owned = OwnedMembers(members, bucket)[split]
  <2>1. Materialized(lines, bucket).manifest.splits = OwnedMembers(members, bucket)
    BY ManifestFields
  <2> QED
    BY <2>1
<1> HIDE DEF members
<1>3. AssignRecords(members, bucket)[split] = assigned
  BY DEF AssignRecords, SortedById, OwnedIndexes
<1>4. owned = [p \in DOMAIN assigned |-> members[assigned[p]]]
  BY <1>2, <1>3 DEF OwnedMembers
<1>5. indexes \subseteq 1..Len(members)
  <2>1. \A c \in AtomicComponents(members) : c \subseteq 1..Len(members)
    BY ComponentsAreClasses
  <2> QED
    BY <2>1 DEF OwnedIndexes
<1>6. assigned # <<>>
  <2> HIDE DEF assigned
  <2> QED
    BY <1>1, <1>3 DEF Assignable
<1> HIDE DEF owned, indexes
<1>7. IsFiniteSet(indexes)
  <2>1. IsFiniteSet(1..Len(members))
    BY <1>1, FS_Interval
  <2> QED
    BY <1>5, <2>1, FS_Subset
<1>8. /\ \A x \in indexes : key[x] \in Int
      /\ \A x, y \in indexes : x # y => key[x] # key[y]
  BY <1>1, <1>5
<1> HIDE DEF key
<1>9. /\ IsFile(assigned)
      /\ \A p \in 1..Len(assigned) : assigned[p] \in indexes
      /\ \A p, q \in 1..Len(assigned) : assigned[p] = assigned[q] => p = q
  BY <1>7, <1>8, Ordered
<1> HIDE DEF assigned
<1>10. Len(assigned) \in Nat /\ DOMAIN assigned = 1..Len(assigned) /\ Len(assigned) # 0
  BY <1>6, <1>9, FileProperties
<1>11. IsFile(owned) /\ Len(owned) = Len(assigned)
  BY <1>4, <1>10, FunctionIsFile
<1>12. \A p \in 1..Len(owned) : owned[p] = members[assigned[p]] /\ assigned[p] \in 1..Len(members)
  BY <1>4, <1>5, <1>9, <1>10, <1>11
<1>13. Lists(assigned, owned, members)
  BY <1>9, <1>10, <1>11, <1>12 DEF Lists
<1> QED
  BY <1>3, <1>6, <1>9, <1>13 DEF owned, members

\* A manifest that was materialized passes its schema.
LEMMA MaterializedSchema ==
  ASSUME NEW lines, NEW bucket, Sound(lines, bucket)
  PROVE  SchemaHolds(Materialized(lines, bucket).manifest)
<1> DEFINE members == MembersOf(lines)
           numbers == RecordLines(lines)
           manifest == Materialized(lines, bucket).manifest
           listed == InSplitOrder(manifest)
<1>1. /\ IsFile(lines) /\ Len(members) \in Nat
      /\ \A j, k \in 1..Len(members) : members[j].id = members[k].id => j = k
  BY SoundMembers
<1>2. /\ Len(listed) = Len(members) /\ ManifestMembers(manifest) = ToSet(members)
      /\ \A split \in Splits : manifest.splits[split] \in Seq(ToSet(members))
  BY SplitOrderRearranges
<1>3. PICK pi : Rearranges(pi, listed, members)
  BY SplitOrderRearranges
<1>4. /\ manifest.splits = [split \in Splits |-> manifest.splits[split]]
      /\ manifest.count = Len(numbers)
  BY ManifestFields
<1>5. /\ Len(members) = Len(numbers)
      /\ \A k \in 1..Len(numbers) : members[k] = MemberOf(lines[numbers[k]], numbers[k])
      /\ \A j, k \in 1..Len(numbers) : numbers[j] = numbers[k] => j = k
  BY <1>1, LinesOfRecords, MembersOfRecords
<1>6. ASSUME NEW split \in Splits PROVE manifest.splits[split] # <<>>
  <2>1. PICK a : Lists(a, manifest.splits[split], members)
    BY SplitLists
  <2> QED
    BY <2>1, FileProperties DEF Lists
<1> HIDE DEF members, numbers, manifest, listed
<1>7. manifest.splits \in [Splits -> Seq(ManifestMembers(manifest)) \ {<<>>}]
  BY <1>2, <1>4, <1>6
<1>8. \A j, k \in 1..Len(members) : members[j].coordinate = members[k].coordinate => j = k
  <2>1. \A row, n : MemberOf(row, n).coordinate = n
    BY DEF MemberOf
  <2> QED
    BY <1>5, <2>1
<1>9. ASSUME NEW j \in 1..Len(listed), NEW k \in 1..Len(listed), j # k
      PROVE  listed[j].id # listed[k].id /\ listed[j].coordinate # listed[k].coordinate
  <2>1. /\ pi[j] \in 1..Len(members) /\ pi[k] \in 1..Len(members)
        /\ listed[j] = members[pi[j]] /\ listed[k] = members[pi[k]]
    BY <1>3 DEF Rearranges, OneToOne, Items
  <2>2. pi[j] # pi[k]
    BY <1>3, <1>9 DEF Rearranges, OneToOne, Items
  <2> QED
    BY <1>1, <1>8, <2>1, <2>2
<1>10. Len(listed) = manifest.count
  BY <1>2, <1>4, <1>5
<1>11. SchemaHolds(manifest)
  BY <1>7, <1>9, <1>10 DEF SchemaHolds, listed
<1> QED
  BY <1>11 DEF manifest

\* A source that has to declare lineages is readable by one that does not.
LEMMA ReadableAnyhow ==
  ASSUME NEW lines, Readable(lines, TRUE)
  PROVE  Readable(lines, FALSE)
BY DEF Readable, HasIdentity

\* A materialized manifest matches its source.
LEMMA MaterializedSource ==
  ASSUME NEW lines, Sound(lines, scenario.bucket)
  PROVE  SourceMatches(Materialized(lines, scenario.bucket).manifest, lines)
<1> DEFINE members == MembersOf(lines)
           manifest == Materialized(lines, scenario.bucket).manifest
<1>1. Readable(lines, TRUE) /\ Assignable(members, scenario.bucket)
  BY SoundMembers
<1>2. Readable(lines, FALSE)
  BY <1>1, ReadableAnyhow
<1>3. manifest.source = lines /\ manifest.splits = OwnedMembers(members, scenario.bucket)
  BY ManifestFields
<1>4. ToSet(members) = ManifestMembers(manifest)
  BY SplitOrderRearranges
<1> HIDE DEF members, manifest
<1>5. OwnershipHolds(manifest, members)
  BY <1>1, <1>3 DEF OwnershipHolds
<1>6. SourceMatches(manifest, lines)
  BY <1>2, <1>3, <1>4, <1>5 DEF SourceMatches, members
<1> QED
  BY <1>6 DEF manifest

\* Nothing of a materialized manifest leaks from one split to another.
LEMMA MaterializedAudit ==
  ASSUME NEW lines, NEW bucket, Sound(lines, bucket)
  PROVE  AuditPasses(Materialized(lines, bucket).manifest.splits)
BY ManifestFields DEF Sound, Materializable

\* Recomputed from the members in split order, ownership is the same.
LEMMA MaterializedOwnership ==
  ASSUME NEW lines, Sound(lines, scenario.bucket)
  PROVE  LET manifest == Materialized(lines, scenario.bucket).manifest
         IN  OwnershipHolds(manifest, InSplitOrder(manifest))
<1> DEFINE bucket == scenario.bucket
           members == MembersOf(lines)
           manifest == Materialized(lines, bucket).manifest
           listed == InSplitOrder(manifest)
           X == ToSet(members)
<1>1. /\ members \in Seq(X)
      /\ \A k \in 1..Len(members) : members[k].id \in Int
      /\ \A j, k \in 1..Len(members) : members[j].id = members[k].id => j = k
  BY SoundMembers
<1>2. listed \in Seq(X)
  BY SplitOrderRearranges
<1>3. PICK pi : Rearranges(pi, listed, members)
  BY SplitOrderRearranges
<1>4. \A split \in Splits :
        AssignRecords(members, bucket)[split] # <<>> /\ IsFile(AssignRecords(members, bucket)[split])
  BY SplitLists
<1>5. manifest.splits = OwnedMembers(members, bucket)
  BY ManifestFields
<1> HIDE DEF members, manifest, listed, X
<1>6. ASSUME NEW split \in Splits
      PROVE  /\ DOMAIN AssignRecords(listed, bucket)[split] = DOMAIN AssignRecords(members, bucket)[split]
             /\ \A p \in DOMAIN AssignRecords(listed, bucket)[split] :
                   listed[AssignRecords(listed, bucket)[split][p]].id
                     = members[AssignRecords(members, bucket)[split][p]].id
  <2>1. /\ \A k \in Items(members) : members[k].id \in Int
        /\ \A j, k \in Items(members) : members[j].id = members[k].id => j = k
    BY <1>1 DEF Items
  <2> QED
    BY <1>1, <1>2, <1>3, <2>1, IdsRearranged
<1>7. ASSUME NEW split \in Splits PROVE AssignRecords(listed, bucket)[split] # <<>>
  <2> DEFINE a == AssignRecords(listed, bucket)[split]
             b == AssignRecords(members, bucket)[split]
  <2>1. DOMAIN a = DOMAIN b /\ b # <<>> /\ IsFile(b)
    BY <1>4, <1>6
  <2> HIDE DEF a, b
  <2>2. Len(b) \in Nat /\ Len(b) # 0 /\ DOMAIN b = 1..Len(b)
    BY <2>1, FileProperties
  <2>3. 1 \in DOMAIN a
    BY <2>1, <2>2
  <2>4. a # <<>>
    BY <2>3
  <2> QED
    BY <2>4 DEF a
<1>8. Assignable(listed, bucket)
  BY <1>7 DEF Assignable
<1>9. IdsOf(OwnedMembers(listed, bucket)) = IdsOf(OwnedMembers(members, bucket))
  <2> DEFINE ids(list, split) ==
               [k \in DOMAIN OwnedMembers(list, bucket)[split] |-> OwnedMembers(list, bucket)[split][k].id]
  <2>1. ASSUME NEW list, NEW split \in Splits
        PROVE  LET a == AssignRecords(list, bucket)[split]
               IN  ids(list, split) = [k \in DOMAIN a |-> list[a[k]].id]
    <3> DEFINE a == AssignRecords(list, bucket)[split]
    <3>1. OwnedMembers(list, bucket)[split] = [k \in DOMAIN a |-> list[a[k]]]
      BY DEF OwnedMembers
    <3> HIDE DEF a
    <3> QED
      BY <3>1 DEF a
  <2>2. \A list : IdsOf(OwnedMembers(list, bucket)) = [split \in Splits |-> ids(list, split)]
    BY DEF IdsOf
  <2>3. ASSUME NEW split \in Splits PROVE ids(listed, split) = ids(members, split)
    <3> HIDE DEF ids
    <3> QED
      BY <1>6, <2>1
  <2> HIDE DEF ids
  <2> QED
    BY <2>2, <2>3
<1>10. OwnershipHolds(manifest, listed)
  BY <1>5, <1>8, <1>9 DEF OwnershipHolds
<1> QED
  BY <1>10 DEF manifest, listed

\* A source without blank lines.
Unbroken(lines) == \A k \in DOMAIN lines : lines[k].form # "blank"

LEMMA UnbrokenRecords ==
  ASSUME NEW lines, IsFile(lines), Unbroken(lines)
  PROVE  RecordLines(lines) = [k \in 1..Len(lines) |-> k]
<1>1. Len(lines) \in Nat /\ DOMAIN lines = 1..Len(lines)
  BY FileProperties
<1>2. {n \in 1..Len(lines) : lines[n].form # "blank"} = 1..Len(lines)
  BY <1>1 DEF Unbroken
<1>3. RecordLines(lines) = InOrder(1..Len(lines), [n \in 1..Len(lines) |-> n])
  BY <1>2 DEF RecordLines
<1>4. InOrder(1..Len(lines), [n \in 1..Len(lines) |-> n]) = [k \in 1..Len(lines) |-> k]
  BY <1>1, NumbersInOrder
<1> QED
  BY <1>3, <1>4

\* Encoding a row canonically changes nothing else, and is done once.
LEMMA CanonicalRow ==
  ASSUME NEW row, IsRow(row)
  PROVE  /\ Canonical(row).id = row.id /\ Canonical(row).lineage = row.lineage
         /\ Canonical(row).group = row.group /\ Canonical(row).text = row.text
         /\ Canonical(row).form = row.form
         /\ Canonical(Canonical(row)) = Canonical(row)
         /\ row.canonical => Canonical(row) = row
<1> DEFINE i == row.id
           l == row.lineage
           g == row.group
           t == row.text
           c == row.canonical
           f == row.form
<1>1. row = [id |-> i, lineage |-> l, group |-> g, text |-> t, canonical |-> c, form |-> f]
      /\ c \in BOOLEAN
  BY DEF IsRow
<1> HIDE DEF i, l, g, t, c, f
<1>2. Canonical(row) = [id |-> i, lineage |-> l, group |-> g, text |-> t, canonical |-> TRUE, form |-> f]
  <2> DEFINE R == [id |-> i, lineage |-> l, group |-> g, text |-> t, canonical |-> c, form |-> f]
  <2>1. [R EXCEPT !.canonical = TRUE]
          = [id |-> i, lineage |-> l, group |-> g, text |-> t, canonical |-> TRUE, form |-> f]
    <3> DEFINE N == [id |-> i, lineage |-> l, group |-> g, text |-> t, canonical |-> TRUE, form |-> f]
               E == [R EXCEPT !.canonical = TRUE]
               F == {"id", "lineage", "group", "text", "canonical", "form"}
    <3>1. E = [x \in F |-> E[x]] /\ N = [x \in F |-> N[x]]
      OBVIOUS
    <3>2. E.id = N.id /\ E.lineage = N.lineage /\ E.group = N.group
      OBVIOUS
    <3>3. E.text = N.text /\ E.form = N.form
      OBVIOUS
    <3>4. E.canonical = N.canonical
      OBVIOUS
    <3> HIDE DEF E, N
    <3>5. \A x \in F : E[x] = N[x]
      BY <3>2, <3>3, <3>4
    <3>6. E = N
      BY <3>1, <3>5
    <3> QED
      BY <3>6 DEF E, N
  <2>2. row = R
    BY <1>1
  <2> HIDE DEF R
  <2> QED
    BY <2>1, <2>2 DEF Canonical
<1>3. Canonical(Canonical(row)) = Canonical(row)
  BY <1>2 DEF Canonical
<1>4. c => c = TRUE
  BY <1>1
<1>5. c => Canonical(row) = row
  BY <1>1, <1>2, <1>4
<1>6. /\ Canonical(row).id = i /\ Canonical(row).lineage = l /\ Canonical(row).group = g
      /\ Canonical(row).text = t /\ Canonical(row).form = f
  BY <1>2
<1> QED
  BY <1>3, <1>5, <1>6 DEF i, l, g, t, c, f

\* An artifact's row, and the member it was written for.
LEMMA WrittenRow ==
  ASSUME NEW row, IsRow(row), NEW n, NEW k
  PROVE  IdentityOf(MemberOf(Canonical(row), k)) = IdentityOf(MemberOf(row, n))
<1> DEFINE actual == MemberOf(Canonical(row), k)
           expected == MemberOf(row, n)
           F == {"id", "lineage", "group", "content", "line"}
<1>1. LineageOf(Canonical(row)) = LineageOf(row)
  BY CanonicalRow DEF LineageOf
<1>2. actual.id = expected.id
  BY CanonicalRow DEF MemberOf
<1>3. actual.lineage = expected.lineage
  BY <1>1 DEF MemberOf
<1>4. actual.group = expected.group
  BY CanonicalRow DEF MemberOf
<1>5. actual.content = expected.content
  BY CanonicalRow DEF MemberOf, ContentOf
<1>6. actual.line = expected.line
  BY CanonicalRow DEF MemberOf
<1> HIDE DEF actual, expected
<1>7. \A f \in F : actual[f] = expected[f]
  BY <1>2, <1>3, <1>4, <1>5, <1>6
<1>8. IdentityOf(actual) = IdentityOf(expected)
  BY <1>7 DEF IdentityOf
<1> QED
  BY <1>8 DEF actual, expected

LEMMA DigestOfSplit ==
  ASSUME NEW lines, NEW bucket, NEW split \in Splits
  PROVE  LET manifest == Materialized(lines, bucket).manifest
         IN  manifest.digests[split] = ArtifactRows(manifest.splits[split])
BY DEF Materialized, ManifestOf

\* What the lines of a source, its members, a split and its artifact have to do
\* with each other.
LEMMA ArtifactOfSplit ==
  ASSUME NEW lines, NEW bucket, Sound(lines, bucket), Unbroken(lines), NEW split \in Splits
  PROVE  LET manifest == Materialized(lines, bucket).manifest
             rows == manifest.digests[split]
             owned == manifest.splits[split]
         IN  /\ IsFile(rows) /\ Len(rows) = Len(owned) /\ DOMAIN owned = 1..Len(owned)
             /\ Len(rows) \in Nat /\ Len(rows) # 0 /\ Unbroken(rows)
             /\ \E a : /\ Lists(a, owned, MembersOf(lines))
                       /\ \A p \in 1..Len(owned) :
                             /\ a[p] \in 1..Len(lines) /\ IsRow(lines[a[p]])
                             /\ owned[p] = MemberOf(lines[a[p]], a[p])
                             /\ rows[p] = Canonical(lines[a[p]])
<1> DEFINE members == MembersOf(lines)
           manifest == Materialized(lines, bucket).manifest
           rows == manifest.digests[split]
           owned == manifest.splits[split]
           numbers == RecordLines(lines)
<1>1. IsFile(lines) /\ \A row \in Range(lines) : IsRow(row)
  BY DEF Sound
<1>2. Len(lines) \in Nat /\ \A k \in 1..Len(lines) : IsRow(lines[k])
  BY <1>1, FileProperties
<1>3. numbers = [k \in 1..Len(lines) |-> k]
  BY <1>1, UnbrokenRecords
<1>4. Len(numbers) = Len(lines)
  BY <1>2, <1>3, FunctionIsFile
<1>5. /\ Len(members) = Len(numbers)
      /\ \A k \in 1..Len(numbers) : members[k] = MemberOf(lines[numbers[k]], numbers[k])
  BY <1>1, MembersOfRecords
<1>6. PICK a : Lists(a, owned, members)
  BY SplitLists
<1>7. rows = ArtifactRows(owned)
  BY DigestOfSplit
<1> HIDE DEF members, manifest, rows, owned, numbers
<1>8. Len(members) = Len(lines) /\ \A k \in 1..Len(lines) : members[k] = MemberOf(lines[k], k)
  BY <1>3, <1>4, <1>5
<1>9. IsFile(owned) /\ Len(owned) # 0 /\ Len(owned) \in Nat /\ DOMAIN owned = 1..Len(owned)
  BY <1>6, FileProperties DEF Lists
<1>10. IsFile(rows) /\ Len(rows) = Len(owned) /\ \A p \in 1..Len(owned) : rows[p] = owned[p].line
  <2>1. rows = [k \in 1..Len(owned) |-> owned[k].line]
    BY <1>7, <1>9 DEF ArtifactRows
  <2> QED
    BY <1>9, <2>1, FunctionIsFile
<1>11. \A row, n : MemberOf(row, n).line = Canonical(row)
  BY DEF MemberOf
<1>12. ASSUME NEW p \in 1..Len(owned)
       PROVE  /\ a[p] \in 1..Len(lines) /\ IsRow(lines[a[p]])
              /\ owned[p] = MemberOf(lines[a[p]], a[p])
              /\ rows[p] = Canonical(lines[a[p]])
              /\ rows[p].form # "blank"
  <2>1. a[p] \in 1..Len(lines) /\ owned[p] = members[a[p]]
    BY <1>6, <1>8 DEF Lists
  <2>2. /\ IsRow(lines[a[p]]) /\ owned[p] = MemberOf(lines[a[p]], a[p])
    BY <1>2, <1>8, <2>1
  <2>3. rows[p] = Canonical(lines[a[p]])
    BY <1>10, <1>11, <2>2
  <2>4. rows[p].form = lines[a[p]].form
    BY <2>2, <2>3, CanonicalRow
  <2>5. lines[a[p]].form # "blank"
    <3>1. DOMAIN lines = 1..Len(lines)
      BY <1>1, FileProperties
    <3> QED
      BY <2>1, <3>1 DEF Unbroken
  <2> QED
    BY <2>1, <2>2, <2>3, <2>4, <2>5
<1>13. Unbroken(rows)
  <2>1. DOMAIN rows = 1..Len(owned)
    BY <1>10, FileProperties
  <2> QED
    BY <1>12, <2>1 DEF Unbroken
<1>14. \E b : /\ Lists(b, owned, members)
              /\ \A p \in 1..Len(owned) :
                    /\ b[p] \in 1..Len(lines) /\ IsRow(lines[b[p]])
                    /\ owned[p] = MemberOf(lines[b[p]], b[p])
                    /\ rows[p] = Canonical(lines[b[p]])
  BY <1>6, <1>12
<1> QED
  BY <1>9, <1>10, <1>13, <1>14 DEF members, manifest, rows, owned

\* Every artifact of a materialized snapshot matches the manifest, and without
\* the source too when the source was canonical.
LEMMA MaterializedArtifact ==
  ASSUME NEW lines, NEW bucket, Sound(lines, bucket), Unbroken(lines), NEW split \in Splits, NEW withSource,
         withSource \/ \A k \in DOMAIN lines : lines[k].canonical
  PROVE  LET manifest == Materialized(lines, bucket).manifest
         IN  ArtifactMatches(manifest, split, manifest.digests[split], withSource)
<1> DEFINE members == MembersOf(lines)
           manifest == Materialized(lines, bucket).manifest
           rows == manifest.digests[split]
           owned == manifest.splits[split]
<1>1. /\ IsFile(lines) /\ Readable(lines, TRUE) /\ Len(members) \in Nat
      /\ \A k \in 1..Len(members) : members[k].id \in Int
      /\ \A j, k \in 1..Len(members) : members[j].id = members[k].id => j = k
  BY SoundMembers
<1>2. /\ IsFile(rows) /\ Len(rows) = Len(owned) /\ DOMAIN owned = 1..Len(owned)
      /\ Len(rows) \in Nat /\ Len(rows) # 0 /\ Unbroken(rows)
  BY ArtifactOfSplit
<1>3. PICK a : /\ Lists(a, owned, members)
               /\ \A p \in 1..Len(owned) :
                     /\ a[p] \in 1..Len(lines) /\ IsRow(lines[a[p]])
                     /\ owned[p] = MemberOf(lines[a[p]], a[p])
                     /\ rows[p] = Canonical(lines[a[p]])
  BY ArtifactOfSplit
<1>4. manifest.count = Len(RecordLines(lines))
  BY ManifestFields
<1> HIDE DEF members, manifest, rows, owned
<1>5. /\ Len(lines) \in Nat /\ DOMAIN lines = 1..Len(lines)
  BY <1>1, FileProperties
<1>6. RecordLines(lines) = [k \in 1..Len(lines) |-> k] /\ Len(RecordLines(lines)) = Len(lines)
      /\ ToSet(RecordLines(lines)) = 1..Len(lines)
  <2>1. RecordLines(lines) = [k \in 1..Len(lines) |-> k]
    BY <1>1, UnbrokenRecords
  <2>2. Len(RecordLines(lines)) = Len(lines)
    BY <1>5, <2>1, FunctionIsFile
  <2> QED
    BY <2>1, <2>2 DEF ToSet
<1>7. RecordLines(rows) = [k \in 1..Len(rows) |-> k] /\ Len(RecordLines(rows)) = Len(rows)
      /\ ToSet(RecordLines(rows)) = 1..Len(rows) /\ RecordLines(rows) # <<>>
  <2>1. RecordLines(rows) = [k \in 1..Len(rows) |-> k]
    BY <1>2, UnbrokenRecords
  <2>2. Len(RecordLines(rows)) = Len(rows) /\ IsFile(RecordLines(rows))
    BY <1>2, <2>1, FunctionIsFile
  <2>3. RecordLines(rows) # <<>>
    BY <1>2, <2>2, FileProperties
  <2> QED
    BY <2>1, <2>2, <2>3 DEF ToSet
<1>8. /\ Len(MembersOf(rows)) = Len(rows) /\ DOMAIN MembersOf(rows) = 1..Len(rows)
      /\ \A k \in 1..Len(rows) : MembersOf(rows)[k] = MemberOf(rows[k], k)
  <2>1. /\ IsFile(MembersOf(rows)) /\ Len(MembersOf(rows)) = Len(RecordLines(rows))
        /\ \A k \in 1..Len(RecordLines(rows)) :
              MembersOf(rows)[k] = MemberOf(rows[RecordLines(rows)[k]], RecordLines(rows)[k])
    BY <1>2, MembersOfRecords
  <2>2. DOMAIN MembersOf(rows) = 1..Len(MembersOf(rows))
    BY <2>1, FileProperties
  <2> QED
    BY <1>7, <2>1, <2>2
<1>9. ASSUME NEW p \in 1..Len(rows)
      PROVE  /\ a[p] \in 1..Len(lines) /\ IsRow(lines[a[p]])
             /\ owned[p] = MemberOf(lines[a[p]], a[p]) /\ rows[p] = Canonical(lines[a[p]])
             /\ rows[p].id = owned[p].id /\ rows[p].id = lines[a[p]].id
             /\ rows[p].form = lines[a[p]].form
  <2>1. /\ a[p] \in 1..Len(lines) /\ IsRow(lines[a[p]])
        /\ owned[p] = MemberOf(lines[a[p]], a[p]) /\ rows[p] = Canonical(lines[a[p]])
    BY <1>2, <1>3
  <2>2. rows[p].id = lines[a[p]].id /\ rows[p].form = lines[a[p]].form
    BY <2>1, CanonicalRow
  <2>3. owned[p].id = lines[a[p]].id
    BY <2>1 DEF MemberOf
  <2> QED
    BY <2>1, <2>2, <2>3
<1>10. \A j, k \in 1..Len(rows) : rows[j].id = rows[k].id => j = k
  <2> SUFFICES ASSUME NEW j \in 1..Len(rows), NEW k \in 1..Len(rows), rows[j].id = rows[k].id PROVE j = k
    OBVIOUS
  <2>1. /\ a[j] \in 1..Len(members) /\ a[k] \in 1..Len(members)
        /\ owned[j] = members[a[j]] /\ owned[k] = members[a[k]]
    BY <1>2, <1>3 DEF Lists
  <2>2. members[a[j]].id = members[a[k]].id
    BY <1>9, <2>1
  <2>3. a[j] = a[k]
    BY <1>1, <2>1, <2>2
  <2> QED
    BY <1>2, <1>3, <2>3 DEF Lists
<1>11. \A n \in 1..Len(lines) : /\ lines[n].form # "torn" /\ lines[n].form # "padded"
                               /\ lines[n].form # "messages" /\ lines[n].id \in Int
  BY <1>1, <1>6 DEF Readable, Decodes, HasIdentity, HasTrainingText
<1>12. Readable(rows, FALSE)
  <2>1. ASSUME NEW n \in 1..Len(rows)
        PROVE  Decodes(rows[n]) /\ HasIdentity(rows[n], FALSE) /\ HasTrainingText(rows[n])
    BY <1>9, <1>11 DEF Decodes, HasIdentity, HasTrainingText
  <2>2. ASSUME NEW n \in 1..Len(rows) PROVE IsFirstWithId(rows, n)
    <3>1. ASSUME NEW earlier \in 1..Len(rows), earlier < n PROVE rows[earlier].id # rows[n].id
      BY <1>2, <1>10, <3>1
    <3> QED
      BY <1>7, <3>1 DEF IsFirstWithId
  <2> QED
    BY <1>7, <2>1, <2>2 DEF Readable
<1>13. ASSUME NEW k \in DOMAIN owned
       PROVE  MemberMatches(MembersOf(rows)[k], owned[k], manifest, withSource)
  <2>1. k \in 1..Len(rows)
    BY <1>2
  <2>2. MembersOf(rows)[k] = MemberOf(Canonical(lines[a[k]]), k) /\ owned[k] = MemberOf(lines[a[k]], a[k])
        /\ IsRow(lines[a[k]]) /\ a[k] \in 1..Len(lines)
    BY <1>8, <1>9, <2>1
  <2>3. IdentityOf(MembersOf(rows)[k]) = IdentityOf(owned[k])
    BY <2>2, WrittenRow
  <2>4. owned[k].coordinate \in 1..manifest.count
    <3>1. owned[k].coordinate = a[k]
      BY <2>2 DEF MemberOf
    <3> QED
      BY <1>4, <1>6, <2>2, <3>1
  <2>5. withSource \/ owned[k].raw = MembersOf(rows)[k].raw
    <3>1. ASSUME ~withSource PROVE owned[k].raw = MembersOf(rows)[k].raw
      <4>1. lines[a[k]].canonical
        BY <1>5, <2>2, <3>1
      <4>2. Canonical(lines[a[k]]) = lines[a[k]]
        BY <2>2, <4>1, CanonicalRow
      <4>3. \A row, n : MemberOf(row, n).raw = row
        BY DEF MemberOf
      <4> QED
        BY <2>2, <4>2, <4>3
    <3> QED
      BY <3>1
  <2> QED
    BY <2>3, <2>4, <2>5 DEF MemberMatches
<1>14. ArtifactMatches(manifest, split, rows, withSource)
  <2>1. DOMAIN MembersOf(rows) = DOMAIN owned
    BY <1>2, <1>8
  <2> QED
    BY <1>12, <1>13, <2>1 DEF ArtifactMatches, owned
<1> QED
  BY <1>14 DEF manifest, rows

-----------------------------------------------------------------------------
(* The counter's bounds *)

SumOf(list) == FoldLeft(LAMBDA a, b : a + b, 0, list)

AddsUp(g, list) ==
  /\ g[0] = 0
  /\ \A k \in Nat : k < Len(list) => g[k + 1] = g[k] + list[k + 1]
  /\ SumOf(list) = g[Len(list)]

\* A sum over a list is the last of its partial sums.
LEMMA SumUnrolls ==
  ASSUME NEW list \in Seq(Nat)
  PROVE  \E g : AddsUp(g, list) /\ \A k \in 0..Len(list) : g[k] \in Nat
<1> DEFINE n == Len(list)
           op(k, w) == w + list[k]
           E == [p \in (1..n) \X Nat |-> op(p[1], p[2])]
           iter[s \in SUBSET DOMAIN list] ==
             IF s = {} THEN 0
             ELSE LET x == Max(s) IN iter[s \ {x}] + list[x]
<1>1. SumOf(list) = iter[DOMAIN list]
  BY DEF SumOf, FoldLeft, MapThenFoldSet
<1>2. n \in Nat /\ DOMAIN list = 1..n /\ \A k \in 1..n : list[k] \in Nat
  BY LenProperties, ElementOfSeq
<1>3. ASSUME NEW k \in 1..n, NEW w \in Nat PROVE op(k, w) \in Nat /\ E[<<k, w>>] = op(k, w)
  <2>1. list[k] \in Nat
    BY <1>2
  <2> QED
    BY <2>1
<1>4. Maps(E, 1..n, Nat)
  <2> HIDE DEF E, op, n
  <2> QED
    BY <1>3 DEF Maps
<1>5. PICK it : FoldsOver(it, E, TheGreatest(n), 0, 1..n, Nat)
  <2> HIDE DEF E, n
  <2> QED
    BY <1>2, <1>4, ListFoldExists
<1>6. ASSUME NEW s \in SUBSET (1..n)
      PROVE  it[s] = IF s = {} THEN 0 ELSE op(Max(s), it[s \ {Max(s)}])
  <2>1. CASE s = {}
    BY <1>5, <2>1 DEF FoldsOver
  <2>2. CASE s # {}
    <3>1. Max(s) \in 1..n /\ it[s \ {Max(s)}] \in Nat
      BY <1>2, <1>5, <2>2, GreatestIsThere DEF FoldsOver
    <3>2. it[s] = E[<<Max(s), it[s \ {Max(s)}]>>]
      <4> HIDE DEF E
      <4> QED
        BY <1>5, <2>2 DEF FoldsOver, TheGreatest
    <3> HIDE DEF E, op
    <3> QED
      BY <1>3, <2>2, <3>1, <3>2
  <2> QED
    BY <2>1, <2>2
<1>7. it = [s \in SUBSET DOMAIN list |-> IF s = {} THEN 0 ELSE op(Max(s), it[s \ {Max(s)}])]
  <2> HIDE DEF op, n, E
  <2> QED
    BY <1>2, <1>5, <1>6 DEF FoldsOver
<1>8. iter = [s \in SUBSET DOMAIN list |-> IF s = {} THEN 0 ELSE op(Max(s), iter[s \ {Max(s)}])]
  <2>1. \E f : f = [s \in SUBSET DOMAIN list |-> IF s = {} THEN 0 ELSE op(Max(s), f[s \ {Max(s)}])]
    <3> HIDE DEF op
    <3> QED
      BY <1>7, Zenon
  <2> QED
    BY <2>1, Zenon DEF iter
<1>9. FoldsInside(iter, 0, E, n, Nat)
  <2> HIDE DEF iter, op, E, n
  <2>1. ASSUME NEW s \in SUBSET (1..n)
        PROVE  iter[s] = IF s = {} THEN 0 ELSE op(Max(s), iter[s \ {Max(s)}])
    BY <1>2, <1>8
  <2>2. iter[{}] = 0
    BY <2>1
  <2>3. ASSUME NEW s \in SUBSET (1..n), s # {}, iter[s \ {Max(s)}] \in Nat
        PROVE  iter[s] = E[<<Max(s), iter[s \ {Max(s)}]>>]
    <3>1. Max(s) \in 1..n
      BY <1>2, <2>3, GreatestIsThere
    <3> QED
      BY <1>3, <2>1, <2>3, <3>1
  <2> QED
    BY <2>2, <2>3 DEF FoldsInside
<1>10. PICK g : Unrolls(g, 0, E, n, Nat) /\ g[n] = iter[1..n]
  <2> DEFINE W == Nat
             zero == 0
  <2>1. n \in Nat /\ zero \in W /\ Maps(E, 1..n, W) /\ FoldsInside(iter, zero, E, n, W)
    BY <1>2, <1>4, <1>9
  <2> HIDE DEF iter, E, n, W, zero
  <2>2. \E g : Unrolls(g, zero, E, n, W) /\ g[n] = iter[1..n]
    BY <2>1, ListFoldUnrolls
  <2> QED
    BY <2>2 DEF W, zero
<1>11. ASSUME NEW k \in Nat, k < n PROVE g[k + 1] = g[k] + list[k + 1]
  <2>1. k + 1 \in 1..n /\ k \in 0..n
    BY <1>2, <1>11
  <2>2. g[k + 1] = op(k + 1, g[k])
    <3> HIDE DEF op, E, n, iter
    <3> QED
      BY <1>3, <1>10, <1>11, <2>1 DEF Unrolls
  <2> QED
    BY <2>2
<1> HIDE DEF iter, E
<1> QED
  BY <1>1, <1>2, <1>10, <1>11 DEF Unrolls, AddsUp

\* One more entry of at least, or at most, a value.
LEMMA OneMore ==
  ASSUME NEW a \in Nat, NEW k \in Nat
  PROVE  a * (k + 1) = a * k + a /\ a * k \in Nat
OBVIOUS

\* A number of entries none of which is below one value nor above another.
Within(list, least, most) ==
  /\ \A k \in 1..Len(list) : list[k] \in Nat /\ least <= list[k] /\ list[k] <= most
  /\ \E k \in 1..Len(list) : list[k] = least
  /\ \E k \in 1..Len(list) : list[k] = most

LEMMA SumBounds ==
  ASSUME NEW list \in Seq(Nat), NEW least \in Nat, NEW most \in Nat, Within(list, least, most)
  PROVE  /\ SumOf(list) \in Nat
         /\ most + least * (Len(list) - 1) <= SumOf(list)
         /\ SumOf(list) <= least + most * (Len(list) - 1)
<1> DEFINE n == Len(list)
<1>1. n \in Nat
  BY LenProperties
<1>2. PICK g : AddsUp(g, list) /\ \A k \in 0..n : g[k] \in Nat
  BY SumUnrolls
<1>3. PICK low \in 1..n : list[low] = least
  BY DEF Within
<1>4. PICK high \in 1..n : list[high] = most
  BY DEF Within
<1>5. \A k \in 1..n : list[k] \in Nat /\ least <= list[k] /\ list[k] <= most
  BY DEF Within
<1>6. g[0] = 0 /\ SumOf(list) = g[n] /\ \A k \in Nat : k < n => g[k + 1] = g[k] + list[k + 1]
  BY <1>2 DEF AddsUp
<1> DEFINE Low(k) == IF k < high THEN least * k <= g[k] ELSE most + least * (k - 1) <= g[k]
           High(k) == IF k < low THEN g[k] <= most * k ELSE g[k] <= least + most * (k - 1)
           A == {k \in Nat : k <= n => Low(k) /\ High(k)}
<1> HIDE DEF n
<1>7. 0 \in A
  <2>1. 0 < high /\ 0 < low /\ least * 0 = 0 /\ most * 0 = 0
    OBVIOUS
  <2> QED
    BY <1>6, <2>1
<1>8. ASSUME NEW k \in Nat, k \in A PROVE k + 1 \in A
  <2> SUFFICES ASSUME k + 1 <= n PROVE Low(k + 1) /\ High(k + 1)
    OBVIOUS
  <2>1. /\ k <= n /\ k < n /\ k + 1 \in 1..n /\ k \in 0..n /\ k + 1 \in 0..n
        /\ (k + 1) - 1 = k
    BY <1>1, <1>8
  <2>2. Low(k) /\ High(k)
    BY <1>8, <2>1
  <2>3. /\ g[k] \in Nat /\ g[k + 1] = g[k] + list[k + 1] /\ list[k + 1] \in Nat
        /\ least <= list[k + 1] /\ list[k + 1] <= most
    BY <1>2, <1>5, <1>6, <2>1
  <2> DEFINE m == list[k + 1]
  <2>4. least * (k + 1) = least * k + least /\ most * (k + 1) = most * k + most
        /\ least * k \in Nat /\ most * k \in Nat
    BY OneMore
  <2>5. k > 0 => /\ least * k = least * (k - 1) + least /\ most * k = most * (k - 1) + most
                 /\ least * (k - 1) \in Nat /\ most * (k - 1) \in Nat
    <3> SUFFICES ASSUME k > 0
                 PROVE  /\ least * k = least * (k - 1) + least /\ most * k = most * (k - 1) + most
                        /\ least * (k - 1) \in Nat /\ most * (k - 1) \in Nat
      OBVIOUS
    <3>1. k - 1 \in Nat /\ (k - 1) + 1 = k
      OBVIOUS
    <3>2. least * ((k - 1) + 1) = least * (k - 1) + least /\ most * ((k - 1) + 1) = most * (k - 1) + most
          /\ least * (k - 1) \in Nat /\ most * (k - 1) \in Nat
      BY <3>1, OneMore
    <3> QED
      BY <3>1, <3>2
  <2> DEFINE lk == least * k
             mk == most * k
             lp == least * (k - 1)
             mp == most * (k - 1)
             x == g[k]
             y == g[k + 1]
  <2>6. /\ k < high => lk <= x
        /\ ~(k < high) => most + lp <= x
        /\ k < low => x <= mk
        /\ ~(k < low) => x <= least + mp
    BY <2>2
  <2>7. /\ least * (k + 1) = lk + least /\ most * (k + 1) = mk + most
        /\ least * ((k + 1) - 1) = lk /\ most * ((k + 1) - 1) = mk
        /\ lk \in Nat /\ mk \in Nat
    BY <2>1, <2>4
  <2>8. k > 0 => lk = lp + least /\ mk = mp + most /\ lp \in Nat /\ mp \in Nat
    BY <2>5
  <2>9. y = x + m /\ x \in Nat /\ m \in Nat /\ least <= m /\ m <= most
    BY <2>3
  <2>10. (k + 1 = high => m = most) /\ (k + 1 = low => m = least)
    BY <1>3, <1>4
  <2>11. high \in Nat /\ low \in Nat /\ high > 0 /\ low > 0
    BY <1>1
  <2> HIDE DEF m, lk, mk, lp, mp, x, y
  <2>12. IF k + 1 < high THEN lk + least <= y ELSE most + lk <= y
    <3>1. CASE k + 1 < high
      BY <2>6, <2>7, <2>9, <2>11, <3>1
    <3>2. CASE k + 1 = high
      BY <2>6, <2>7, <2>9, <2>10, <2>11, <3>2
    <3>3. CASE k >= high
      BY <2>6, <2>7, <2>8, <2>9, <2>11, <3>3
    <3> QED
      BY <2>11, <3>1, <3>2, <3>3
  <2>13. IF k + 1 < low THEN y <= mk + most ELSE y <= least + mk
    <3>1. CASE k + 1 < low
      BY <2>6, <2>7, <2>9, <2>11, <3>1
    <3>2. CASE k + 1 = low
      BY <2>6, <2>7, <2>9, <2>10, <2>11, <3>2
    <3>3. CASE k >= low
      BY <2>6, <2>7, <2>8, <2>9, <2>11, <3>3
    <3> QED
      BY <2>11, <3>1, <3>2, <3>3
  <2>14. Low(k + 1)
    <3>1. y = g[k + 1]
      BY DEF y
    <3> QED
      BY <2>7, <2>12, <3>1
  <2>15. High(k + 1)
    <3>1. y = g[k + 1]
      BY DEF y
    <3> QED
      BY <2>7, <2>13, <3>1
  <2> QED
    BY <2>14, <2>15
<1>9. n \in A
  <2> HIDE DEF A
  <2> QED
    BY <1>1, <1>7, <1>8, AllNaturals
<1>10. Low(n) /\ High(n)
  <2> HIDE DEF Low, High
  <2> QED
    BY <1>1, <1>9
<1>11. /\ ~(n < high) /\ ~(n < low)
  BY <1>1
<1>12. g[n] \in Nat
  BY <1>1, <1>2
<1> QED
  BY <1>6, <1>10, <1>11, <1>12 DEF n

\* A list of numbers has a least and a greatest.
LEMMA LeastAndMost ==
  ASSUME NEW list \in Seq(Nat), Len(list) # 0
  PROVE  /\ Within(list, Min(ToSet(list)), Max(ToSet(list)))
         /\ Min(ToSet(list)) \in Nat /\ Max(ToSet(list)) \in Nat
<1> DEFINE n == Len(list)
           S == ToSet(list)
           f == [k \in 1..n |-> list[k]]
           h == [k \in 1..n |-> 0 - list[k]]
<1>1. n \in Nat /\ n # 0 /\ DOMAIN list = 1..n /\ \A k \in 1..n : list[k] \in Nat
  BY LenProperties, ElementOfSeq
<1>2. S = {list[k] : k \in 1..n}
  BY <1>1 DEF ToSet
<1> HIDE DEF S, n
<1>3. 1..n # {}
  <2>1. 1 \in 1..n
    BY <1>1
  <2> QED
    BY <2>1
<1>4. \A k \in 1..n : f[k] \in Int /\ h[k] \in Int /\ f[k] = list[k] /\ h[k] = 0 - list[k]
  <2> SUFFICES ASSUME NEW k \in 1..n
               PROVE  f[k] \in Int /\ h[k] \in Int /\ f[k] = list[k] /\ h[k] = 0 - list[k]
    OBVIOUS
  <2>1. f[k] = list[k] /\ h[k] = 0 - list[k]
    OBVIOUS
  <2> HIDE DEF f, h
  <2>2. list[k] \in Nat
    BY <1>1
  <2>3. list[k] \in Int /\ 0 - list[k] \in Int
    BY <2>2
  <2> QED
    BY <2>1, <2>3
<1> HIDE DEF f, h
<1>5. PICK low \in 1..n : \A j \in 1..n : f[low] <= f[j]
  BY <1>1, <1>3, <1>4, LeastEntry
<1>6. PICK high \in 1..n : \A j \in 1..n : h[high] <= h[j]
  BY <1>1, <1>3, <1>4, LeastEntry
<1>7. list[low] \in S /\ \A y \in S : y \in Nat /\ list[low] <= y
  BY <1>1, <1>2, <1>4, <1>5
<1>8. list[high] \in S /\ \A y \in S : y <= list[high]
  <2>1. \A j \in 1..n : list[j] <= list[high]
    BY <1>1, <1>4, <1>6
  <2> QED
    BY <1>2, <2>1
<1>9. Min(S) = list[low]
  <2>1. Min(S) \in S /\ \A y \in S : Min(S) <= y
    <3>1. \E x \in S : \A y \in S : x <= y
      BY <1>7
    <3> QED
      BY <3>1 DEF Min
  <2> QED
    BY <1>7, <2>1
<1>10. Max(S) = list[high]
  <2>1. Max(S) \in S /\ \A y \in S : y <= Max(S)
    <3>1. \E x \in S : \A y \in S : x >= y
      BY <1>7, <1>8
    <3>2. Max(S) \in S /\ \A y \in S : Max(S) >= y
      BY <3>1 DEF Max
    <3> QED
      BY <1>7, <3>2
  <2> QED
    BY <1>7, <1>8, <2>1
<1>11. \A k \in 1..n : list[k] \in S
  BY <1>2
<1>12. Within(list, list[low], list[high])
  BY <1>1, <1>7, <1>8, <1>11 DEF Within, n
<1> QED
  BY <1>1, <1>9, <1>10, <1>12 DEF S

\* The bounds the counter checks of itself hold of any lengths.
LEMMA CountsAreBounded ==
  ASSUME NEW rows, IsFile(rows), Len(rows) # 0, Unbroken(rows), NEW behaviour,
         \A k \in 1..Len(rows) : Length(behaviour, rows[k].text) \in Nat
  PROVE  BoundsHold(CountsOf(RecordsOf(rows), behaviour))
<1> DEFINE records == RecordsOf(rows)
           n == Len(rows)
           lengths == [k \in DOMAIN records |-> Length(behaviour, records[k].text)]
           c == CountsOf(records, behaviour)
<1>1. n \in Nat /\ n # 0 /\ n >= 1
  BY FileProperties
<1>2. RecordLines(rows) = [k \in 1..n |-> k] /\ Len(RecordLines(rows)) = n
  <2>1. RecordLines(rows) = [k \in 1..n |-> k]
    BY UnbrokenRecords
  <2> QED
    BY <1>1, <2>1, FunctionIsFile
<1>3. records = [k \in 1..n |-> rows[k]]
  BY <1>2 DEF RecordsOf
<1> HIDE DEF records, n
<1>4. DOMAIN records = 1..n /\ Len(records) = n /\ \A k \in 1..n : records[k] = rows[k]
  <2>1. \A k \in 1..n : records[k] = rows[k]
    BY <1>3
  <2>2. DOMAIN records = 1..n
    BY <1>3
  <2>3. records = [k \in 1..n |-> records[k]]
    BY <1>3, <2>1
  <2> QED
    BY <1>1, <2>1, <2>2, <2>3, FunctionIsFile
<1>5. lengths \in [1..n -> Nat]
  <2>1. \A k \in 1..n : Length(behaviour, records[k].text) \in Nat
    BY <1>4 DEF n
  <2> QED
    BY <1>4, <2>1
<1>6. c = [records |-> n, total |-> SumOf(lengths), least |-> Min(ToSet(lengths)), most |-> Max(ToSet(lengths))]
  BY <1>4 DEF CountsOf, SumOf
<1> HIDE DEF lengths
<1>7. lengths \in Seq(Nat)
  BY <1>1, <1>5, SeqDef
<1>8. Len(lengths) = n
  BY <1>1, <1>5, <1>7, LenProperties
<1> DEFINE least == Min(ToSet(lengths))
           most == Max(ToSet(lengths))
           total == SumOf(lengths)
<1>9. Within(lengths, least, most) /\ least \in Nat /\ most \in Nat
  BY <1>1, <1>7, <1>8, LeastAndMost
<1> HIDE DEF least, most, total
<1>10. total \in Nat /\ most + least * (n - 1) <= total /\ total <= least + most * (n - 1)
  BY <1>7, <1>8, <1>9, SumBounds DEF total
<1>11. least <= most
  <2>1. PICK k \in 1..Len(lengths) : lengths[k] = least
    BY <1>9 DEF Within
  <2>2. lengths[k] <= most
    BY <1>9 DEF Within
  <2> QED
    BY <2>1, <2>2
<1>12. c.records = n /\ c.total = total /\ c.least = least /\ c.most = most
  BY <1>6 DEF least, most, total
<1> HIDE DEF c
<1>13. least * (n - 1) \in Int /\ most * (n - 1) \in Int
  BY <1>1, <1>9
<1>14. total \in (most + least * (n - 1))..(least + most * (n - 1))
  <2> DEFINE low == most + least * (n - 1)
             high == least + most * (n - 1)
  <2>1. low \in Int /\ high \in Int /\ low <= total /\ total <= high /\ total \in Int
    BY <1>9, <1>10, <1>13
  <2> HIDE DEF low, high
  <2>2. total \in low..high
    BY <2>1
  <2> QED
    BY <2>2 DEF low, high
<1>15. BoundsHold(c)
  BY <1>1, <1>11, <1>12, <1>14 DEF BoundsHold
<1> QED
  BY <1>15 DEF c, records

\* Whatever split of a scenario's source is counted, the counter is satisfied.
LEMMA MaterializedCounts ==
  ASSUME NEW s \in Scenarios, NEW bucket, Sound(s.source, bucket), Unbroken(s.source),
         NEW t \in Tokenizers, NEW split \in Splits
  PROVE  BoundsHold(CountsOf(RecordsOf(Materialized(s.source, bucket).manifest.digests[split]), t.behaviour))
<1> DEFINE lines == s.source
           rows == Materialized(lines, bucket).manifest.digests[split]
           owned == Materialized(lines, bucket).manifest.splits[split]
<1>1. /\ IsFile(rows) /\ Len(rows) = Len(owned) /\ Len(rows) # 0 /\ Unbroken(rows)
  BY ArtifactOfSplit
<1>2. PICK a : /\ Lists(a, owned, MembersOf(lines))
               /\ \A p \in 1..Len(owned) :
                     /\ a[p] \in 1..Len(lines) /\ IsRow(lines[a[p]])
                     /\ owned[p] = MemberOf(lines[a[p]], a[p])
                     /\ rows[p] = Canonical(lines[a[p]])
  BY ArtifactOfSplit
<1>3. IsFile(lines)
  BY DEF Sound
<1> HIDE DEF owned, rows
<1>4. ASSUME NEW k \in 1..Len(rows) PROVE Length(t.behaviour, rows[k].text) \in Nat
  <2>1. a[k] \in 1..Len(lines) /\ IsRow(lines[a[k]]) /\ rows[k] = Canonical(lines[a[k]])
    BY <1>1, <1>2
  <2>2. rows[k].text = lines[a[k]].text
    BY <2>1, CanonicalRow
  <2>3. lines[a[k]] \in Range(lines)
    BY <1>3, <2>1, FileProperties
  <2>4. Length(t.behaviour, lines[a[k]].text) \in Nat
    BY <2>3, LengthsAreNumbers
  <2> QED
    BY <2>2, <2>4
<1>5. BoundsHold(CountsOf(RecordsOf(rows), t.behaviour))
  BY <1>1, <1>4, CountsAreBounded
<1> QED
  BY <1>5 DEF rows

-----------------------------------------------------------------------------
(* What a validated manifest says *)

\* Rows that match their members have the members' contents and lineages, which
\* the audit keeps out of the other splits.
LEMMA TrainIsApart ==
  ASSUME NEW manifest, NEW withSource,
         ArtifactMatches(manifest, "train", manifest.digests["train"], withSource),
         AuditPasses(manifest.splits)
  PROVE  \A row \in ToSet(RecordsOf(manifest.digests["train"])), split \in {"validation", "held_out"} :
            \A m \in ToSet(manifest.splits[split]) :
               m.content # row.text /\ m.lineage # LineageOf(row)
<1> DEFINE rows == manifest.digests["train"]
           numbers == RecordLines(rows)
           expected == manifest.splits["train"]
<1>1. /\ DOMAIN MembersOf(rows) = DOMAIN expected
      /\ \A k \in DOMAIN expected : IdentityOf(MembersOf(rows)[k]) = IdentityOf(expected[k])
  BY DEF ArtifactMatches, MemberMatches
<1>2. /\ DOMAIN MembersOf(rows) = 1..Len(numbers)
      /\ \A k \in 1..Len(numbers) : MembersOf(rows)[k] = MemberOf(rows[numbers[k]], numbers[k])
  BY DEF MembersOf
<1>3. /\ DOMAIN RecordsOf(rows) = 1..Len(numbers)
      /\ \A k \in 1..Len(numbers) : RecordsOf(rows)[k] = rows[numbers[k]]
  BY DEF RecordsOf
<1> HIDE DEF rows, numbers
<1>4. ASSUME NEW m, NEW n, IdentityOf(m) = IdentityOf(n)
      PROVE  m.content = n.content /\ m.lineage = n.lineage
  <2>1. IdentityOf(m)["content"] = IdentityOf(n)["content"]
        /\ IdentityOf(m)["lineage"] = IdentityOf(n)["lineage"]
    BY <1>4
  <2> QED
    BY <2>1 DEF IdentityOf
<1>5. \A row, n : MemberOf(row, n).content = row.text /\ MemberOf(row, n).lineage = LineageOf(row)
  BY DEF MemberOf, ContentOf
<1>6. ASSUME NEW k \in 1..Len(numbers)
      PROVE  /\ expected[k] \in ToSet(expected)
             /\ expected[k].content = RecordsOf(rows)[k].text
             /\ expected[k].lineage = LineageOf(RecordsOf(rows)[k])
  <2>1. IdentityOf(MembersOf(rows)[k]) = IdentityOf(expected[k]) /\ k \in DOMAIN expected
    BY <1>1, <1>2
  <2>2. MembersOf(rows)[k].content = RecordsOf(rows)[k].text
        /\ MembersOf(rows)[k].lineage = LineageOf(RecordsOf(rows)[k])
    BY <1>2, <1>3, <1>5
  <2> QED
    BY <1>4, <2>1, <2>2 DEF ToSet
<1>7. ASSUME NEW split \in {"validation", "held_out"}, NEW m \in ToSet(manifest.splits[split]),
             NEW e \in ToSet(expected)
      PROVE  m.content # e.content /\ m.lineage # e.lineage
  <2>1. SplitValues(manifest.splits, "train") \cap SplitValues(manifest.splits, split) = {}
    BY DEF AuditPasses, Splits
  <2>2. /\ AuditedValues(e) \subseteq SplitValues(manifest.splits, "train")
        /\ AuditedValues(m) \subseteq SplitValues(manifest.splits, split)
    BY DEF SplitValues
  <2>3. \A x : <<"content", x.content>> \in AuditedValues(x) /\ <<"lineage", x.lineage>> \in AuditedValues(x)
    BY DEF AuditedValues
  <2> QED
    BY <2>1, <2>2, <2>3
<1>8. ASSUME NEW row \in ToSet(RecordsOf(rows))
      PROVE  \E k \in 1..Len(numbers) : row = RecordsOf(rows)[k]
  BY <1>3, <1>8 DEF ToSet
<1> HIDE DEF expected
<1>9. ASSUME NEW row \in ToSet(RecordsOf(rows)), NEW split \in {"validation", "held_out"},
             NEW m \in ToSet(manifest.splits[split])
      PROVE  m.content # row.text /\ m.lineage # LineageOf(row)
  <2>1. PICK k \in 1..Len(numbers) : row = RecordsOf(rows)[k]
    BY <1>8
  <2> QED
    BY <1>6, <1>7, <2>1
<1> QED
  BY <1>9 DEF rows

\* Members with the ids that the assignment gives, all of them the source's own,
\* are what the assignment gives.
LEMMA OwnershipIsMembership ==
  ASSUME NEW manifest, SchemaHolds(manifest), IsFile(manifest.source),
         SourceMatches(manifest, manifest.source)
  PROVE  manifest.splits = OwnedMembers(MembersOf(manifest.source), scenario.bucket)
<1> DEFINE lines == manifest.source
           members == MembersOf(lines)
           owned == OwnedMembers(members, scenario.bucket)
           kept == manifest.splits
           M == ManifestMembers(manifest)
<1>1. /\ Readable(lines, FALSE)
      /\ IdsOf(owned) = IdsOf(kept)
      /\ ToSet(members) = M
  BY DEF SourceMatches, OwnershipHolds
<1>2. kept \in [Splits -> Seq(M) \ {<<>>}]
  BY DEF SchemaHolds
<1>3. /\ IsFile(members)
      /\ \A k \in 1..Len(members) : members[k].id \in Int
      /\ \A j, k \in 1..Len(members) : members[j].id = members[k].id => j = k
  BY <1>1, MembersOfRecords, ReadableMembers
<1> HIDE DEF members, M, kept
<1>4. ASSUME NEW split \in Splits
      PROVE  /\ IsFile(owned[split])
             /\ \A p \in 1..Len(owned[split]) : \E k \in 1..Len(members) : owned[split][p] = members[k]
  BY <1>3, OwnedAreMembers
<1>5. owned = [split \in Splits |-> owned[split]]
  BY DEF OwnedMembers
<1> HIDE DEF owned
<1>6. Len(members) \in Nat /\ DOMAIN members = 1..Len(members)
  BY <1>3, FileProperties
<1>7. ASSUME NEW split \in Splits PROVE kept[split] = owned[split]
  <2>1. IdsOf(owned)[split] = IdsOf(kept)[split]
    BY <1>1
  <2>2. [k \in DOMAIN owned[split] |-> owned[split][k].id] = [k \in DOMAIN kept[split] |-> kept[split][k].id]
    BY <2>1 DEF IdsOf
  <2>3. /\ DOMAIN owned[split] = DOMAIN kept[split]
        /\ \A k \in DOMAIN kept[split] : owned[split][k].id = kept[split][k].id
    BY <2>2
  <2>4. kept[split] \in Seq(M)
    BY <1>2
  <2>5. /\ kept[split] = [k \in DOMAIN kept[split] |-> kept[split][k]]
        /\ \A k \in DOMAIN kept[split] : kept[split][k] \in M
    BY <2>4, LenProperties
  <2>6. /\ DOMAIN owned[split] = 1..Len(owned[split])
        /\ owned[split] = [k \in DOMAIN owned[split] |-> owned[split][k]]
    BY <1>4, FileProperties
  <2>7. ASSUME NEW k \in DOMAIN kept[split] PROVE owned[split][k] = kept[split][k]
    <3>1. PICK i \in 1..Len(members) : owned[split][k] = members[i]
      BY <1>4, <2>3, <2>6
    <3>2. PICK j \in 1..Len(members) : kept[split][k] = members[j]
      BY <1>1, <1>6, <2>5 DEF ToSet
    <3>3. members[i].id = members[j].id
      BY <2>3, <3>1, <3>2
    <3> QED
      BY <1>3, <3>1, <3>2, <3>3
  <2> QED
    BY <2>3, <2>5, <2>6, <2>7
<1>8. kept = [split \in Splits |-> kept[split]]
  BY <1>2
<1> QED
  BY <1>5, <1>7, <1>8 DEF kept, owned, members

\* Rows that match their members have the members' canonical lines.
LEMMA RowsAreLines ==
  ASSUME NEW manifest, NEW split, NEW withSource,
         ArtifactMatches(manifest, split, manifest.digests[split], withSource)
  PROVE  ArtifactRows(MembersOf(manifest.digests[split])) = ArtifactRows(manifest.splits[split])
<1> DEFINE actual == MembersOf(manifest.digests[split])
           expected == manifest.splits[split]
<1>1. /\ DOMAIN actual = DOMAIN expected
      /\ \A k \in DOMAIN expected : IdentityOf(actual[k]) = IdentityOf(expected[k])
  BY DEF ArtifactMatches, MemberMatches
<1> HIDE DEF actual, expected
<1>2. ASSUME NEW m, NEW n, IdentityOf(m) = IdentityOf(n) PROVE m.line = n.line
  <2>1. IdentityOf(m)["line"] = IdentityOf(n)["line"]
    BY <1>2
  <2> QED
    BY <2>1 DEF IdentityOf
<1>3. \A k \in DOMAIN expected : actual[k].line = expected[k].line
  BY <1>1, <1>2
<1>4. ArtifactRows(actual) = ArtifactRows(expected)
  BY <1>1, <1>3 DEF ArtifactRows
<1> QED
  BY <1>4 DEF actual, expected

-----------------------------------------------------------------------------
(* The reader's steps, field by field *)

ReaderFields == {"pc", "kind", "phase", "manifest", "bound", "copy", "todo", "stamp", "rows",
                 "out", "spec", "counts"}
Visiting == {"visit", "rest", "verify", "release"}
Kinds == {"source", "bare", "load", "stats"}

ReaderType ==
    /\ DOMAIN reader = ReaderFields
    /\ reader.pc \in {"idle", "source", "generate", "accepted", "rejected"} \cup Visiting
    /\ reader.pc = "idle" => reader = NewReader
    /\ reader.pc \notin {"idle", "rejected"} =>
          reader.kind \in Kinds /\ reader.phase \in {"validate", "load", "count"}

Keeps(fields) == \A field \in ReaderFields \ fields : reader'[field] = reader[field]

Rejecting == reader'.pc = "rejected" /\ Keeps({"pc"})

\* Enter, for a reader of the kind.
Entering(kind, phase, manifest) ==
    /\ reader'.phase = phase /\ reader'.manifest = manifest /\ reader'.todo = Visits(phase)
    /\ reader'.pc \in {"rejected", IF kind = "source" THEN "source" ELSE "visit"}
    /\ reader'.pc # "rejected" => SchemaHolds(manifest)

Beginning ==
    /\ reader = NewReader /\ reader'.kind \in Kinds
    /\ \/ /\ reader'.pc = "rejected" /\ Keeps({"pc", "kind"})
       \/ /\ Entering(reader'.kind, "validate", dest.manifest)
          /\ reader'.kind = "stats" => reader'.spec = Provenance(tokenizer)
          /\ Keeps({"pc", "kind", "spec", "phase", "manifest", "todo"})

Copying ==
    /\ reader.pc = "source" /\ reader'.copy = CopyStep(reader.copy) /\ Keeps({"pc", "copy"})
    /\ \/ reader'.pc = "source" /\ reader'.copy.step \notin {"copied", "changed"}
       \/ /\ reader'.pc = "visit" /\ reader'.copy.step = "copied"
          /\ SourceMatches(reader.manifest, reader'.copy.bytes)

Opening ==
    \/ /\ reader.pc = "visit" /\ reader.todo # <<>> /\ reader'.pc = "rest"
       /\ Keeps({"pc", "stamp", "rows"})
    \/ reader.pc = "rest" /\ reader'.pc = "verify" /\ Keeps({"pc", "rows"})

Rows(split) == reader.manifest.digests[split]

Matching ==
    /\ reader.pc = "verify" /\ reader.phase = "validate" /\ reader'.pc = "release"
    /\ ArtifactMatches(reader.manifest, Head(reader.todo), Rows(Head(reader.todo)),
                       reader.kind = "source")
    /\ Keeps({"pc"})

Loading ==
    /\ reader.pc = "verify" /\ reader.phase = "load" /\ reader'.pc = "release"
    /\ reader'.out = RecordsOf(Rows(Head(reader.todo)))
    /\ Keeps({"pc", "out"})

Counting ==
    /\ reader.pc = "verify" /\ reader.phase = "count" /\ reader'.pc = "release"
    /\ reader'.counts = Append(reader.counts, CountsOf(RecordsOf(Rows(Head(reader.todo))),
                                                       tokenizer.behaviour))
    /\ Keeps({"pc", "counts"})

Releasing ==
    /\ reader.pc = "release" /\ reader'.pc = "visit" /\ reader'.todo = Tail(reader.todo)
    /\ Keeps({"pc", "todo"})

Concluding ==
    /\ reader.pc = "visit" /\ reader.todo = <<>> /\ reader.phase = "validate"
    /\ AuditPasses(reader.manifest.splits)
    /\ \/ reader.kind \in {"source", "bare"} /\ reader'.pc = "accepted" /\ Keeps({"pc"})
       \/ /\ reader.kind = "load" /\ reader.bound = None
          /\ reader'.pc = "generate" /\ reader'.bound = reader.manifest /\ Keeps({"pc", "bound"})
       \/ /\ reader.kind = "load" /\ reader.bound # None
          /\ Entering(reader.kind, "load", reader.manifest)
          /\ Keeps({"pc", "phase", "manifest", "todo"})
       \/ /\ reader.kind = "stats"
          /\ Entering(reader.kind, "count", reader.manifest)
          /\ Keeps({"pc", "phase", "manifest", "todo"})

Generating ==
    /\ reader.pc = "generate"
    /\ Entering(reader.kind, "validate", reader.bound)
    /\ Keeps({"pc", "phase", "manifest", "todo"})

Ending ==
    /\ reader.pc = "visit" /\ reader.todo = <<>> /\ reader.phase \in {"load", "count"}
    /\ reader'.pc = "accepted" /\ Keeps({"pc"})

LEMMA Entered ==
  ASSUME NEW r, DOMAIN r = ReaderFields, NEW phase, NEW manifest
  PROVE  LET e == Enter(r, phase, manifest)
         IN  /\ e.phase = phase /\ e.manifest = manifest /\ e.todo = Visits(phase)
             /\ e.pc \in {"rejected", IF r.kind = "source" THEN "source" ELSE "visit"}
             /\ e.pc # "rejected" => SchemaHolds(manifest)
             /\ DOMAIN e = ReaderFields
             /\ \A field \in ReaderFields \ {"pc", "phase", "manifest", "todo"} : e[field] = r[field]
<1> DEFINE todo == Visits(phase)
           schema == SchemaHolds(manifest)
<1> HIDE DEF todo, schema
<1>1. Enter(r, phase, manifest) =
         [r EXCEPT !.phase = phase, !.manifest = manifest, !.todo = todo,
                   !.pc = IF ~schema THEN "rejected" ELSE IF r.kind = "source" THEN "source" ELSE "visit"]
  BY DEF Enter, todo, schema
<1> DEFINE e == Enter(r, phase, manifest)
<1>2. /\ e.phase = phase /\ e.manifest = manifest /\ e.todo = todo
      /\ e.pc = IF ~schema THEN "rejected" ELSE IF r.kind = "source" THEN "source" ELSE "visit"
      /\ DOMAIN e = ReaderFields
  BY <1>1 DEF ReaderFields
<1>3. \A field \in ReaderFields \ {"pc", "phase", "manifest", "todo"} : e[field] = r[field]
  BY <1>1 DEF ReaderFields
<1> HIDE DEF e
<1>4. /\ e.pc \in {"rejected", IF r.kind = "source" THEN "source" ELSE "visit"}
      /\ e.pc # "rejected" => schema
  BY <1>2
<1> QED
  BY <1>2, <1>3, <1>4 DEF e, todo, schema

LEMMA BeginEffect ==
  ASSUME ReaderType, NEW kind \in Kinds, Begin(kind)
  PROVE  Beginning /\ DOMAIN reader' = ReaderFields
<1> DEFINE r == [reader EXCEPT !.kind = kind,
                               !.spec = IF kind = "stats" THEN Provenance(tokenizer) ELSE None]
<1>1. DOMAIN reader = ReaderFields /\ reader = NewReader
  BY DEF ReaderType, Begin
<1>2. CASE reader' = [Rejects EXCEPT !.kind = kind]
  <2>1. /\ reader'.pc = "rejected" /\ reader'.kind = kind /\ Keeps({"pc", "kind"})
        /\ DOMAIN reader' = ReaderFields
    BY <1>1, <1>2 DEF Rejects, Keeps, ReaderFields
  <2> QED
    BY <1>1, <2>1 DEF Beginning
<1>3. CASE reader' = Enter(r, "validate", dest.manifest)
  <2>1. /\ DOMAIN r = ReaderFields /\ r.kind = kind
        /\ kind = "stats" => r.spec = Provenance(tokenizer)
        /\ \A field \in ReaderFields \ {"kind", "spec"} : r[field] = reader[field]
    BY <1>1 DEF ReaderFields
  <2> HIDE DEF r
  <2>2. /\ Entering(kind, "validate", dest.manifest) /\ DOMAIN reader' = ReaderFields
        /\ \A field \in ReaderFields \ {"pc", "phase", "manifest", "todo"} : reader'[field] = r[field]
    BY <1>3, <2>1, Entered DEF Entering
  <2>3. reader'.kind = kind /\ reader'.spec = r.spec
    BY <2>1, <2>2 DEF ReaderFields
  <2>4. Keeps({"pc", "kind", "spec", "phase", "manifest", "todo"})
    BY <2>1, <2>2 DEF Keeps
  <2> QED
    BY <1>1, <2>1, <2>2, <2>3, <2>4 DEF Beginning
<1> QED
  BY <1>2, <1>3 DEF Begin


LEMMA RejectEffect ==
  ASSUME ReaderType, reader' = Rejects
  PROVE  Rejecting /\ DOMAIN reader' = ReaderFields
<1>1. DOMAIN reader = ReaderFields
  BY DEF ReaderType
<1>2. /\ DOMAIN reader' = ReaderFields /\ reader'.pc = "rejected"
      /\ \A field \in ReaderFields \ {"pc"} : reader'[field] = reader[field]
  BY <1>1 DEF Rejects, ReaderFields
<1> QED
  BY <1>2 DEF Rejecting, Keeps

LEMMA CopySourceEffect ==
  ASSUME ReaderType, CopySource
  PROVE  (Rejecting \/ Copying) /\ DOMAIN reader' = ReaderFields
<1> DEFINE copy == CopyStep(reader.copy)
<1> HIDE DEF copy
<1>1. /\ DOMAIN reader = ReaderFields /\ reader.pc = "source"
      /\ reader' = CASE copy.step = "changed" \/ ~StagingWritable -> Rejects
                     [] copy.step = "copied" ->
                          IF SourceMatches(reader.manifest, copy.bytes)
                          THEN [reader EXCEPT !.copy = copy, !.pc = "visit"] ELSE Rejects
                     [] OTHER -> [reader EXCEPT !.copy = copy]
  BY DEF ReaderType, CopySource, copy
<1>2. \/ reader' = Rejects
      \/ /\ copy.step = "copied" /\ SourceMatches(reader.manifest, copy.bytes)
         /\ reader' = [reader EXCEPT !.copy = copy, !.pc = "visit"]
      \/ /\ copy.step \notin {"copied", "changed"}
         /\ reader' = [reader EXCEPT !.copy = copy]
  BY <1>1
<1>3. CASE reader' = Rejects
  BY <1>3, RejectEffect
<1>4. CASE /\ copy.step = "copied" /\ SourceMatches(reader.manifest, copy.bytes)
           /\ reader' = [reader EXCEPT !.copy = copy, !.pc = "visit"]
  <2>1. /\ DOMAIN reader' = ReaderFields /\ reader'.copy = copy /\ reader'.pc = "visit"
        /\ \A field \in ReaderFields \ {"pc", "copy"} : reader'[field] = reader[field]
    BY <1>1, <1>4 DEF ReaderFields
  <2> QED
    BY <1>1, <1>4, <2>1 DEF Copying, Keeps, copy
<1>5. CASE copy.step \notin {"copied", "changed"} /\ reader' = [reader EXCEPT !.copy = copy]
  <2>1. /\ DOMAIN reader' = ReaderFields /\ reader'.copy = copy /\ reader'.pc = "source"
        /\ \A field \in ReaderFields \ {"pc", "copy"} : reader'[field] = reader[field]
    BY <1>1, <1>5 DEF ReaderFields
  <2> QED
    BY <1>1, <1>5, <2>1 DEF Copying, Keeps, copy
<1> QED
  BY <1>2, <1>3, <1>4, <1>5

LEMMA ArtifactEffect ==
  ASSUME ReaderType, Open \/ CopyRest \/ Release
  PROVE  /\ Rejecting \/ Opening \/ Releasing
         /\ DOMAIN reader' = ReaderFields
<1>1. DOMAIN reader = ReaderFields
  BY DEF ReaderType
<1>2. CASE reader' = Rejects
  BY <1>2, RejectEffect
<1>3. CASE Open /\ reader' # Rejects
  <2>1. /\ reader.pc = "visit" /\ reader.todo # <<>>
        /\ reader' = [reader EXCEPT !.pc = "rest", !.stamp = Live.stamp,
                                    !.rows = FirstChunk(Live.rows)]
    BY <1>3 DEF Open
  <2>2. /\ DOMAIN reader' = ReaderFields /\ reader'.pc = "rest"
        /\ \A field \in ReaderFields \ {"pc", "stamp", "rows"} : reader'[field] = reader[field]
    BY <1>1, <2>1 DEF ReaderFields
  <2> QED
    BY <2>1, <2>2 DEF Opening, Keeps
<1>4. CASE CopyRest
  <2>1. /\ reader.pc = "rest"
        /\ reader' = [reader EXCEPT !.pc = "verify", !.rows = @ \o LastChunk(Live.rows)]
    BY <1>4 DEF CopyRest
  <2>2. /\ DOMAIN reader' = ReaderFields /\ reader'.pc = "verify"
        /\ \A field \in ReaderFields \ {"pc", "rows"} : reader'[field] = reader[field]
    BY <1>1, <2>1 DEF ReaderFields
  <2> QED
    BY <2>1, <2>2 DEF Opening, Keeps
<1>5. CASE Release /\ reader' # Rejects
  <2>1. reader.pc = "release" /\ reader' = [reader EXCEPT !.pc = "visit", !.todo = Tail(@)]
    BY <1>5 DEF Release
  <2>2. /\ DOMAIN reader' = ReaderFields /\ reader'.pc = "visit"
        /\ reader'.todo = Tail(reader.todo)
        /\ \A field \in ReaderFields \ {"pc", "todo"} : reader'[field] = reader[field]
    BY <1>1, <2>1 DEF ReaderFields
  <2> QED
    BY <2>1, <2>2 DEF Releasing, Keeps
<1> QED
  BY <1>2, <1>3, <1>4, <1>5

LEMMA UseEffect ==
  ASSUME ReaderType, Use
  PROVE  /\ Rejecting \/ Matching \/ Loading \/ Counting
         /\ DOMAIN reader' = ReaderFields
<1> DEFINE split == Head(reader.todo)
           used == [reader EXCEPT !.pc = "release"]
           counts == CountsOf(RecordsOf(reader.rows), tokenizer.behaviour)
<1>1. /\ DOMAIN reader = ReaderFields /\ reader.pc = "verify"
      /\ reader.phase \in {"validate", "load", "count"}
      /\ reader' # Rejects => reader.rows = Rows(split)
  BY DEF ReaderType, Use, Rows
<1> HIDE DEF split, counts
<1>2. CASE reader' = Rejects
  BY <1>2, RejectEffect
<1>3. CASE reader' # Rejects /\ reader.phase = "validate"
  <2>1. reader' = used /\ ArtifactMatches(reader.manifest, split, reader.rows, reader.kind = "source")
    BY <1>3 DEF Use, split
  <2>2. /\ DOMAIN reader' = ReaderFields /\ reader'.pc = "release"
        /\ \A field \in ReaderFields \ {"pc"} : reader'[field] = reader[field]
    BY <1>1, <2>1 DEF ReaderFields
  <2> QED
    BY <1>1, <1>3, <2>1, <2>2 DEF Matching, Keeps, split
<1>4. CASE reader' # Rejects /\ reader.phase = "load"
  <2>1. reader' = [used EXCEPT !.out = RecordsOf(reader.rows)]
    BY <1>4 DEF Use
  <2>2. /\ DOMAIN reader' = ReaderFields /\ reader'.pc = "release"
        /\ reader'.out = RecordsOf(reader.rows)
        /\ \A field \in ReaderFields \ {"pc", "out"} : reader'[field] = reader[field]
    BY <1>1, <2>1 DEF ReaderFields
  <2> QED
    BY <1>1, <1>4, <2>2 DEF Loading, Keeps, split
<1>5. CASE reader' # Rejects /\ reader.phase = "count"
  <2>1. reader' = [used EXCEPT !.counts = Append(@, counts)]
    BY <1>5 DEF Use, counts
  <2>2. /\ DOMAIN reader' = ReaderFields /\ reader'.pc = "release"
        /\ reader'.counts = Append(reader.counts, counts)
        /\ \A field \in ReaderFields \ {"pc", "counts"} : reader'[field] = reader[field]
    BY <1>1, <2>1 DEF ReaderFields
  <2> QED
    BY <1>1, <1>5, <2>2 DEF Counting, Keeps, split, counts
<1> QED
  BY <1>1, <1>2, <1>3, <1>4, <1>5

LEMMA ConcludeEffect ==
  ASSUME ReaderType, Conclude
  PROVE  (Rejecting \/ Concluding) /\ DOMAIN reader' = ReaderFields
<1>1. /\ DOMAIN reader = ReaderFields /\ reader.pc = "visit" /\ reader.todo = <<>>
      /\ reader.phase = "validate" /\ reader.kind \in Kinds
      /\ reader' # Rejects => AuditPasses(reader.manifest.splits)
  BY DEF ReaderType, Conclude
<1>2. CASE reader' = Rejects
  BY <1>2, RejectEffect
<1>3. CASE reader' # Rejects /\ reader.kind \in {"source", "bare"}
  <2>1. reader' = [reader EXCEPT !.pc = "accepted"]
    BY <1>3 DEF Conclude
  <2>2. /\ DOMAIN reader' = ReaderFields /\ reader'.pc = "accepted"
        /\ \A field \in ReaderFields \ {"pc"} : reader'[field] = reader[field]
    BY <1>1, <2>1 DEF ReaderFields
  <2> QED
    BY <1>1, <1>3, <2>2 DEF Concluding, Keeps
<1>4. CASE reader' # Rejects /\ reader.kind = "load" /\ reader.bound = None
  <2>1. reader' = [reader EXCEPT !.pc = "generate", !.bound = reader.manifest]
    BY <1>4 DEF Conclude
  <2>2. /\ DOMAIN reader' = ReaderFields /\ reader'.pc = "generate"
        /\ reader'.bound = reader.manifest
        /\ \A field \in ReaderFields \ {"pc", "bound"} : reader'[field] = reader[field]
    BY <1>1, <2>1 DEF ReaderFields
  <2> QED
    BY <1>1, <1>4, <2>2 DEF Concluding, Keeps
<1>5. CASE reader' # Rejects /\ reader.kind = "load" /\ reader.bound # None
  <2>1. reader' = Enter(reader, "load", reader.manifest)
    BY <1>5 DEF Conclude
  <2>2. Entering(reader.kind, "load", reader.manifest) /\ DOMAIN reader' = ReaderFields
    BY <1>1, <2>1, Entered DEF Entering
  <2>3. Keeps({"pc", "phase", "manifest", "todo"})
    BY <1>1, <2>1, Entered DEF Keeps
  <2> QED
    BY <1>1, <1>5, <2>2, <2>3 DEF Concluding
<1>6. CASE reader' # Rejects /\ reader.kind = "stats"
  <2>1. reader' = Enter(reader, "count", reader.manifest)
    BY <1>6 DEF Conclude
  <2>2. Entering(reader.kind, "count", reader.manifest) /\ DOMAIN reader' = ReaderFields
    BY <1>1, <2>1, Entered DEF Entering
  <2>3. Keeps({"pc", "phase", "manifest", "todo"})
    BY <1>1, <2>1, Entered DEF Keeps
  <2> QED
    BY <1>1, <1>6, <2>2, <2>3 DEF Concluding
<1> QED
  BY <1>1, <1>2, <1>3, <1>4, <1>5, <1>6 DEF Kinds

LEMMA EndEffect ==
  ASSUME ReaderType, Generate \/ Exhaust \/ WriteSidecar
  PROVE  (Rejecting \/ Generating \/ Ending) /\ DOMAIN reader' = ReaderFields
<1>1. DOMAIN reader = ReaderFields
  BY DEF ReaderType
<1>2. CASE reader' = Rejects
  BY <1>2, RejectEffect
<1>3. CASE Generate /\ reader' # Rejects
  <2>1. reader.pc = "generate" /\ reader' = Enter(reader, "validate", reader.bound)
    BY <1>3 DEF Generate
  <2>2. Entering(reader.kind, "validate", reader.bound) /\ DOMAIN reader' = ReaderFields
    BY <1>1, <2>1, Entered DEF Entering
  <2>3. Keeps({"pc", "phase", "manifest", "todo"})
    BY <1>1, <2>1, Entered DEF Keeps
  <2> QED
    BY <2>1, <2>2, <2>3 DEF Generating
<1>4. CASE (Exhaust \/ WriteSidecar) /\ reader' # Rejects
  <2>1. /\ reader.pc = "visit" /\ reader.todo = <<>> /\ reader.phase \in {"load", "count"}
        /\ reader' = [reader EXCEPT !.pc = "accepted"]
    BY <1>4 DEF Exhaust, WriteSidecar
  <2>2. /\ DOMAIN reader' = ReaderFields /\ reader'.pc = "accepted"
        /\ \A field \in ReaderFields \ {"pc"} : reader'[field] = reader[field]
    BY <1>1, <2>1 DEF ReaderFields
  <2> QED
    BY <2>1, <2>2 DEF Ending, Keeps
<1> QED
  BY <1>2, <1>3, <1>4

Stepping == \/ Rejecting \/ Copying \/ Opening \/ Releasing \/ Matching \/ Loading \/ Counting
            \/ Concluding \/ Generating \/ Ending

\* What any step of the reader, the sidecar aside, does.
LEMMA ReadEffect ==
  ASSUME ReaderType, Read
  PROVE  Stepping /\ DOMAIN reader' = ReaderFields
<1>1. CASE CopySource
  BY <1>1, CopySourceEffect DEF Stepping
<1>2. CASE Open \/ CopyRest \/ Release
  BY <1>2, ArtifactEffect DEF Stepping
<1>3. CASE Use
  BY <1>3, UseEffect DEF Stepping
<1>4. CASE Conclude
  BY <1>4, ConcludeEffect DEF Stepping
<1>5. CASE Generate \/ Exhaust \/ WriteSidecar
  BY <1>5, EndEffect DEF Stepping
<1> QED
  BY <1>1, <1>2, <1>3, <1>4, <1>5 DEF Read

-----------------------------------------------------------------------------
(* What the reader knows at each point *)

CopySteps == {"open", "rest", "identity", "rehash", "rehash_rest"}

CopyTyped(copy) ==
    /\ DOMAIN copy = {"step", "stamp", "bytes", "live"}
    /\ copy.step \in CopySteps \cup {"copied", "changed"} /\ IsFile(copy.bytes)

Active == Visiting \cup {"source", "generate", "accepted"}

\* What is still to visit: the rest of the phase's artifacts.
Remaining(phase) ==
    IF phase = "load" THEN {<<"train">>, <<>>}
    ELSE {SplitOrder, <<"validation", "held_out">>, <<"held_out">>, <<>>}

\* The artifacts a validation has matched.
Matched(split) == ArtifactMatches(reader.manifest, split, Rows(split), reader.kind = "source")

Validated == AuditPasses(reader.manifest.splits) /\ \A split \in Splits : Matched(split)

AgreesWithSource ==
    IsFile(reader.manifest.source) /\ SourceMatches(reader.manifest, reader.manifest.source)

CopyHeld ==
    /\ CopyTyped(reader.copy)
    /\ reader.pc \in {"idle", "source"} => reader.copy.step \in CopySteps

PhaseHeld ==
    /\ reader.pc \in Active => SchemaHolds(reader.manifest)
    /\ reader.pc \in Active /\ reader.phase = "load" =>
          reader.kind = "load" /\ reader.bound = reader.manifest
    /\ reader.pc \in Active /\ reader.phase = "count" => reader.kind = "stats"
    /\ reader.pc = "source" => reader.kind = "source" /\ reader.phase = "validate"
    /\ reader.pc = "generate" =>
          reader.kind = "load" /\ reader.bound = reader.manifest /\ reader.phase = "validate"
    /\ reader.bound # None => reader.bound = reader.manifest /\ reader.kind = "load"

TodoHeld ==
    /\ reader.pc = "source" => reader.todo = SplitOrder
    /\ reader.pc \in Visiting => reader.todo \in Remaining(reader.phase)
    /\ reader.pc \in Visiting \ {"visit"} => reader.todo # <<>>

\* The artifacts out of the list, and the first of it once it has been used.
MatchedHeld ==
    reader.pc \in Visiting /\ reader.phase = "validate" =>
        \A split \in Splits :
            \/ split \notin ToSet(reader.todo)
            \/ reader.pc = "release" /\ split = Head(reader.todo)
            => Matched(split)

ValidatedHeld ==
    /\ reader.pc \in {"generate", "accepted"} => Validated
    /\ reader.pc \in Visiting /\ reader.phase \in {"load", "count"} => Validated

AgreementHeld ==
    reader.pc \in Visiting \cup {"accepted"} /\ reader.kind = "source" => AgreesWithSource

OutHeld ==
    reader.out # None =>
        /\ reader.phase = "load" /\ reader.bound = reader.manifest
        /\ reader.out = RecordsOf(Rows("train")) /\ Validated

ReaderInv ==
    /\ ReaderType /\ CopyHeld /\ PhaseHeld /\ TodoHeld /\ MatchedHeld /\ ValidatedHeld
    /\ AgreementHeld /\ OutHeld

LinesInv ==
    /\ scenario \in Scenarios
    /\ IsFile(source.lines)

LEMMA CopyStaysTyped ==
  ASSUME NEW copy, CopyTyped(copy), copy.step \in CopySteps, LinesInv
  PROVE  CopyTyped(CopyStep(copy))
<1> DEFINE first == FirstChunk(source.lines)
           last == LastChunk(source.lines)
<1>1. IsFile(first) /\ IsFile(last)
  BY Chunks DEF LinesInv
<1>2. IsFile(copy.bytes) /\ IsFile(copy.bytes \o last)
  BY <1>1, Concatenated DEF CopyTyped
<1> HIDE DEF first, last
<1>3. CASE copy.step = "open"
  <2>1. CopyStep(copy) = [copy EXCEPT !.step = "rest", !.stamp = source.stamp, !.bytes = first]
    BY <1>3 DEF CopyStep, first
  <2> QED
    BY <1>1, <2>1 DEF CopyTyped, CopySteps
<1>4. CASE copy.step = "rest"
  <2>1. CopyStep(copy) = [copy EXCEPT !.step = "identity", !.bytes = copy.bytes \o last]
    BY <1>4 DEF CopyStep, last, CopyTyped
  <2> QED
    BY <1>2, <2>1 DEF CopyTyped, CopySteps
<1>5. CASE copy.step = "identity"
  <2>1. CopyStep(copy) =
           [copy EXCEPT !.step = IF copy.stamp = source.stamp THEN "rehash" ELSE "changed"]
    BY <1>5 DEF CopyStep
  <2> QED
    BY <1>2, <2>1 DEF CopyTyped, CopySteps
<1>6. CASE copy.step = "rehash"
  <2>1. CopyStep(copy) = [copy EXCEPT !.step = "rehash_rest", !.live = first]
    BY <1>6 DEF CopyStep, first
  <2> QED
    BY <1>2, <2>1 DEF CopyTyped, CopySteps
<1>7. CASE copy.step = "rehash_rest"
  <2>1. CopyStep(copy) =
           [copy EXCEPT !.live = copy.live \o last,
                        !.step = IF copy.bytes = copy.live \o last THEN "copied" ELSE "changed"]
    BY <1>7 DEF CopyStep, last, CopyTyped
  <2> QED
    BY <1>2, <2>1 DEF CopyTyped, CopySteps
<1> QED
  BY <1>3, <1>4, <1>5, <1>6, <1>7 DEF CopySteps

LEMMA NewCopyTyped == CopyTyped(NoCopy) /\ NoCopy.step \in CopySteps
<1>1. IsFile(<<>>)
  BY SequenceIsFile, EmptySeq
<1> QED
  BY <1>1 DEF CopyTyped, NoCopy, CopySteps

LEMMA AgreementKept ==
  ASSUME AgreesWithSource, reader'.manifest = reader.manifest, scenario' = scenario
  PROVE  AgreesWithSource'
BY DEF AgreesWithSource, SourceMatches, OwnershipHolds

LEMMA MatchedKept ==
  ASSUME reader'.manifest = reader.manifest, reader'.kind = reader.kind
  PROVE  /\ \A split \in Splits : Matched(split) => Matched(split)'
         /\ Validated => Validated'
BY DEF Matched, Validated, Rows

LEMMA RejectingKeeps ==
  ASSUME ReaderInv, Rejecting, DOMAIN reader' = ReaderFields, scenario' = scenario
  PROVE  ReaderInv'
<1>1. /\ reader'.pc = "rejected" /\ reader'.kind = reader.kind /\ reader'.phase = reader.phase
      /\ reader'.manifest = reader.manifest /\ reader'.bound = reader.bound
      /\ reader'.out = reader.out /\ reader'.copy = reader.copy
  BY DEF Rejecting, Keeps, ReaderFields
<1>2. ReaderType' /\ CopyHeld' /\ PhaseHeld' /\ TodoHeld'
  BY <1>1 DEF ReaderInv, ReaderType, CopyHeld, PhaseHeld, TodoHeld, Active, Visiting
<1>3. MatchedHeld' /\ ValidatedHeld' /\ AgreementHeld'
  BY <1>1 DEF MatchedHeld, ValidatedHeld, AgreementHeld, Visiting
<1>4. OutHeld'
  BY <1>1, MatchedKept DEF ReaderInv, OutHeld, Rows
<1> QED
  BY <1>2, <1>3, <1>4 DEF ReaderInv

LEMMA BeginningKeeps ==
  ASSUME ReaderInv, Beginning, DOMAIN reader' = ReaderFields
  PROVE  ReaderInv'
<1>1. /\ reader.bound = None /\ reader.out = None /\ reader.copy = NoCopy
      /\ reader'.bound = reader.bound /\ reader'.out = reader.out /\ reader'.copy = reader.copy
      /\ reader'.kind \in Kinds
  BY DEF Beginning, Keeps, ReaderFields, NewReader
<1>2. \/ reader'.pc = "rejected"
      \/ /\ reader'.pc = (IF reader'.kind = "source" THEN "source" ELSE "visit")
         /\ reader'.phase = "validate" /\ SchemaHolds(reader'.manifest)
         /\ reader'.todo = SplitOrder
  BY DEF Beginning, Entering, Visits
<1>3. \A split \in Splits : split \in ToSet(SplitOrder)
  BY DEF ToSet, Splits, SplitOrder
<1>4. ReaderType' /\ CopyHeld'
  BY <1>1, <1>2, NewCopyTyped DEF ReaderType, CopyHeld, Visiting
<1>5. PhaseHeld' /\ OutHeld'
  BY <1>1, <1>2 DEF PhaseHeld, OutHeld, Active, Visiting
<1>6. TodoHeld'
  BY <1>2 DEF TodoHeld, Remaining, Visiting, SplitOrder
<1>7. MatchedHeld' /\ ValidatedHeld' /\ AgreementHeld'
  BY <1>2, <1>3 DEF MatchedHeld, ValidatedHeld, AgreementHeld, Visiting
<1> QED
  BY <1>4, <1>5, <1>6, <1>7 DEF ReaderInv

LEMMA CopyingKeeps ==
  ASSUME ReaderInv, Copying, DOMAIN reader' = ReaderFields, scenario' = scenario, LinesInv
  PROVE  ReaderInv'
<1>1. /\ reader.pc = "source" /\ reader'.pc \in {"source", "visit"}
      /\ reader'.kind = reader.kind /\ reader'.phase = reader.phase
      /\ reader'.manifest = reader.manifest /\ reader'.bound = reader.bound
      /\ reader'.out = reader.out /\ reader'.todo = reader.todo
      /\ reader'.copy = CopyStep(reader.copy)
      /\ reader'.pc = "source" => reader'.copy.step \notin {"copied", "changed"}
      /\ reader'.pc = "visit" => SourceMatches(reader.manifest, reader'.copy.bytes)
  BY DEF Copying, Keeps, ReaderFields
<1>2. CopyTyped(reader'.copy)
  BY <1>1, CopyStaysTyped DEF ReaderInv, CopyHeld
<1>3. CopyHeld'
  BY <1>1, <1>2 DEF CopyHeld, CopyTyped
<1>4. ReaderType' /\ PhaseHeld' /\ TodoHeld'
  BY <1>1 DEF ReaderInv, ReaderType, PhaseHeld, TodoHeld, Active, Visiting, Remaining
<1>5. OutHeld' /\ ValidatedHeld'
  BY <1>1, MatchedKept DEF ReaderInv, OutHeld, PhaseHeld, ValidatedHeld, Visiting, Rows
<1>6. MatchedHeld'
  <2>1. reader'.todo = SplitOrder
    BY <1>1 DEF ReaderInv, TodoHeld
  <2>2. \A split \in Splits : split \in ToSet(SplitOrder)
    BY DEF ToSet, Splits, SplitOrder
  <2> QED
    BY <1>1, <2>1, <2>2 DEF MatchedHeld
<1>7. AgreementHeld'
  <2>1. CASE reader'.pc = "visit"
    <3>1. AgreesWithSource
      BY <1>1, <1>2, <2>1 DEF AgreesWithSource, SourceMatches, CopyTyped
    <3> QED
      BY <1>1, <3>1, AgreementKept DEF AgreementHeld
  <2> QED
    BY <1>1, <2>1 DEF AgreementHeld, Visiting
<1> QED
  BY <1>3, <1>4, <1>5, <1>6, <1>7 DEF ReaderInv

\* The steps on one artifact: only the list of what is matched can grow.
LEMMA VisitingKeeps ==
  ASSUME ReaderInv, DOMAIN reader' = ReaderFields, scenario' = scenario,
         Opening \/ Matching \/ Counting \/ Loading
  PROVE  ReaderInv'
<1>1. /\ reader.pc \in Visiting /\ reader'.pc \in Visiting \ {"visit"}
      /\ reader'.pc = "release" <=> reader.pc = "verify"
      /\ reader.pc # "release"
      /\ reader'.kind = reader.kind /\ reader'.phase = reader.phase
      /\ reader'.manifest = reader.manifest /\ reader'.bound = reader.bound
      /\ reader'.todo = reader.todo /\ reader'.copy = reader.copy
      /\ reader.pc = "visit" => reader.todo # <<>>
  BY DEF Opening, Matching, Counting, Loading, Keeps, ReaderFields, Visiting
<1>2. ReaderType' /\ CopyHeld' /\ PhaseHeld' /\ TodoHeld'
  BY <1>1 DEF ReaderInv, ReaderType, CopyHeld, PhaseHeld, TodoHeld, Active, Visiting, Remaining
<1>3. ValidatedHeld' /\ AgreementHeld'
  BY <1>1, MatchedKept, AgreementKept DEF ReaderInv, ValidatedHeld, AgreementHeld, Visiting
<1>4. MatchedHeld'
  <2>1. \A split \in Splits : Matched(split) => Matched(split)'
    BY <1>1, MatchedKept
  <2>2. reader.phase = "validate" /\ reader'.pc = "release" => Matched(Head(reader.todo))
    BY <1>1 DEF Opening, Matching, Loading, Counting, Matched
  <2> QED
    BY <1>1, <2>1, <2>2 DEF ReaderInv, MatchedHeld
<1>5. CASE reader'.out = reader.out
  BY <1>1, <1>2, <1>3, <1>4, <1>5, MatchedKept DEF ReaderInv, OutHeld, Rows
<1>6. CASE Loading
  <2>1. reader.phase = "load" /\ reader'.out = RecordsOf(Rows(Head(reader.todo)))
        /\ reader.pc = "verify"
    BY <1>6 DEF Loading
  <2>2. Head(reader.todo) = "train"
    BY <1>1, <2>1 DEF ReaderInv, TodoHeld, Remaining, Visiting
  <2>3. reader.bound = reader.manifest /\ Validated
    BY <2>1 DEF ReaderInv, PhaseHeld, ValidatedHeld, Active, Visiting
  <2>4. OutHeld'
    BY <1>1, <2>1, <2>2, <2>3, MatchedKept DEF OutHeld, Rows
  <2> QED
    BY <1>2, <1>3, <1>4, <2>4 DEF ReaderInv
<1>7. reader'.out = reader.out \/ Loading
  BY DEF Opening, Matching, Counting, Keeps, ReaderFields
<1> QED
  BY <1>5, <1>6, <1>7

LEMMA ReleasingKeeps ==
  ASSUME ReaderInv, Releasing, DOMAIN reader' = ReaderFields, scenario' = scenario
  PROVE  ReaderInv'
<1>1. /\ reader.pc = "release" /\ reader'.pc = "visit"
      /\ reader'.kind = reader.kind /\ reader'.phase = reader.phase
      /\ reader'.manifest = reader.manifest /\ reader'.bound = reader.bound
      /\ reader'.todo = Tail(reader.todo) /\ reader'.copy = reader.copy
      /\ reader'.out = reader.out
  BY DEF Releasing, Keeps, ReaderFields
<1>2. ReaderType' /\ CopyHeld' /\ PhaseHeld'
  BY <1>1 DEF ReaderInv, ReaderType, CopyHeld, PhaseHeld, Active, Visiting
<1>3. ValidatedHeld' /\ AgreementHeld' /\ OutHeld'
  BY <1>1, MatchedKept, AgreementKept
     DEF ReaderInv, ValidatedHeld, AgreementHeld, OutHeld, Visiting, Rows
<1>4. reader.todo \in Remaining(reader.phase) /\ reader.todo # <<>>
  BY <1>1 DEF ReaderInv, TodoHeld, Visiting
<1>5. /\ Tail(SplitOrder) = <<"validation", "held_out">>
      /\ Tail(<<"validation", "held_out">>) = <<"held_out">>
      /\ Tail(<<"held_out">>) = <<>> /\ Tail(<<"train">>) = <<>>
  BY DEF SplitOrder
<1>6. reader'.todo \in Remaining(reader.phase)
  BY <1>1, <1>4, <1>5 DEF Remaining
<1>7. TodoHeld'
  BY <1>1, <1>6 DEF TodoHeld, Visiting, Remaining
<1>8. MatchedHeld'
  <2>1. SUFFICES ASSUME reader.phase = "validate", NEW split \in Splits,
                        split \notin ToSet(Tail(reader.todo))
                 PROVE  Matched(split)
    BY <1>1, MatchedKept DEF MatchedHeld
  <2>2. split \notin ToSet(reader.todo) \/ split = Head(reader.todo)
    <3>1. reader.todo \in {SplitOrder, <<"validation", "held_out">>, <<"held_out">>}
      BY <1>4, <2>1 DEF Remaining
    <3>2. /\ Head(SplitOrder) = "train" /\ Head(<<"validation", "held_out">>) = "validation"
          /\ Head(<<"held_out">>) = "held_out"
      BY DEF SplitOrder
    <3>3. /\ ToSet(SplitOrder) = {"train", "validation", "held_out"}
          /\ ToSet(<<"validation", "held_out">>) = {"validation", "held_out"}
          /\ ToSet(<<"held_out">>) = {"held_out"}
      BY DEF ToSet, SplitOrder
    <3> QED
      BY <2>1, <3>1, <3>2, <3>3, <1>5
  <2> QED
    BY <1>1, <2>1, <2>2 DEF ReaderInv, MatchedHeld, Visiting
<1> QED
  BY <1>2, <1>3, <1>7, <1>8 DEF ReaderInv

LEMMA ConcludingKeeps ==
  ASSUME ReaderInv, Concluding, DOMAIN reader' = ReaderFields, scenario' = scenario
  PROVE  ReaderInv'
<1>1. /\ reader.pc = "visit" /\ reader.todo = <<>> /\ reader.phase = "validate"
      /\ AuditPasses(reader.manifest.splits)
      /\ reader'.kind = reader.kind /\ reader'.manifest = reader.manifest
      /\ reader'.copy = reader.copy /\ reader'.out = reader.out
  BY DEF Concluding, Entering, Keeps, ReaderFields
<1>2. Validated
  <2>1. \A split \in Splits : split \notin ToSet(reader.todo)
    BY <1>1 DEF ToSet
  <2> QED
    BY <1>1, <2>1 DEF ReaderInv, MatchedHeld, Validated, Visiting
<1>3. Validated'
  BY <1>1, <1>2, MatchedKept
<1>4. AgreementHeld'
  BY <1>1, AgreementKept DEF ReaderInv, AgreementHeld, Visiting
<1>5. SchemaHolds(reader.manifest) /\ reader.kind \in Kinds
  BY <1>1 DEF ReaderInv, PhaseHeld, ReaderType, Active, Visiting
<1>6. reader.out = None
  BY <1>1 DEF ReaderInv, OutHeld
<1>7. CASE reader.kind \in {"source", "bare"}
  <2>1. reader'.pc = "accepted" /\ reader'.phase = "validate" /\ reader'.bound = reader.bound
        /\ reader'.todo = reader.todo
    BY <1>1, <1>7 DEF Concluding, Keeps, ReaderFields
  <2>2. ReaderType' /\ CopyHeld' /\ PhaseHeld' /\ TodoHeld'
    BY <1>1, <1>5, <1>7, <2>1
       DEF ReaderInv, ReaderType, CopyHeld, PhaseHeld, TodoHeld, Active, Visiting, Kinds
  <2>3. MatchedHeld' /\ ValidatedHeld' /\ OutHeld'
    BY <1>1, <1>3, <1>6, <2>1 DEF MatchedHeld, ValidatedHeld, OutHeld, Visiting
  <2> QED
    BY <1>4, <2>2, <2>3 DEF ReaderInv
<1>8. CASE reader.kind = "load" /\ reader.bound = None
  <2>1. reader'.pc = "generate" /\ reader'.phase = "validate" /\ reader'.bound = reader.manifest
        /\ reader'.todo = reader.todo
    BY <1>1, <1>8 DEF Concluding, Keeps, ReaderFields
  <2>2. ReaderType' /\ CopyHeld' /\ PhaseHeld' /\ TodoHeld'
    BY <1>1, <1>5, <1>8, <2>1
       DEF ReaderInv, ReaderType, CopyHeld, PhaseHeld, TodoHeld, Active, Visiting, Kinds
  <2>3. MatchedHeld' /\ ValidatedHeld' /\ OutHeld'
    BY <1>1, <1>3, <1>6, <2>1 DEF MatchedHeld, ValidatedHeld, OutHeld, Visiting
  <2> QED
    BY <1>4, <2>2, <2>3 DEF ReaderInv
<1>9. CASE reader.kind = "stats" \/ (reader.kind = "load" /\ reader.bound # None)
  <2>1. /\ reader'.pc \in {"rejected", "visit"} /\ reader'.bound = reader.bound
        /\ reader'.phase = IF reader.kind = "load" THEN "load" ELSE "count"
        /\ reader'.todo = Visits(reader'.phase)
    BY <1>1, <1>9 DEF Concluding, Entering, Keeps, ReaderFields
  <2>2. reader'.todo \in Remaining(reader'.phase)
    BY <2>1 DEF Visits, Remaining
  <2>3. reader.bound # None => reader.bound = reader.manifest /\ reader.kind = "load"
    BY DEF ReaderInv, PhaseHeld
  <2>4. ReaderType' /\ CopyHeld'
    BY <1>1, <1>5, <1>9, <2>1 DEF ReaderInv, ReaderType, CopyHeld, Visiting, Kinds
  <2>5. PhaseHeld' /\ TodoHeld'
    BY <1>1, <1>5, <1>9, <2>1, <2>2, <2>3 DEF PhaseHeld, TodoHeld, Active, Visiting
  <2>6. MatchedHeld' /\ ValidatedHeld' /\ OutHeld'
    BY <1>1, <1>3, <1>6, <2>1 DEF MatchedHeld, ValidatedHeld, OutHeld, Visiting
  <2> QED
    BY <1>4, <2>4, <2>5, <2>6 DEF ReaderInv
<1> QED
  BY <1>5, <1>7, <1>8, <1>9 DEF Kinds

LEMMA GeneratingKeeps ==
  ASSUME ReaderInv, Generating, DOMAIN reader' = ReaderFields, scenario' = scenario
  PROVE  ReaderInv'
<1>1. /\ reader.pc = "generate" /\ reader.kind = "load" /\ reader.bound = reader.manifest
      /\ reader.phase = "validate"
  BY DEF Generating, ReaderInv, PhaseHeld
<1>2. /\ reader'.kind = "load" /\ reader'.manifest = reader.manifest
      /\ reader'.bound = reader.bound /\ reader'.phase = "validate"
      /\ reader'.copy = reader.copy /\ reader'.out = reader.out
      /\ reader'.pc \in {"rejected", "visit"} /\ reader'.todo = SplitOrder
      /\ reader'.pc # "rejected" => SchemaHolds(reader'.manifest)
  BY <1>1 DEF Generating, Entering, Keeps, ReaderFields, Visits
<1>3. reader.out = None
  BY <1>1 DEF ReaderInv, OutHeld
<1>4. ReaderType' /\ CopyHeld'
  BY <1>1, <1>2 DEF ReaderInv, ReaderType, CopyHeld, Visiting, Kinds
<1>5. PhaseHeld' /\ OutHeld' /\ ValidatedHeld' /\ AgreementHeld'
  BY <1>1, <1>2, <1>3 DEF PhaseHeld, OutHeld, ValidatedHeld, AgreementHeld, Active, Visiting
<1>6. TodoHeld'
  BY <1>2 DEF TodoHeld, Remaining, Visiting, SplitOrder
<1>7. MatchedHeld'
  <2>1. \A split \in Splits : split \in ToSet(SplitOrder)
    BY DEF ToSet, Splits, SplitOrder
  <2> QED
    BY <1>2, <2>1 DEF MatchedHeld
<1> QED
  BY <1>4, <1>5, <1>6, <1>7 DEF ReaderInv

LEMMA EndingKeeps ==
  ASSUME ReaderInv, Ending, DOMAIN reader' = ReaderFields, scenario' = scenario
  PROVE  ReaderInv'
<1>1. /\ reader.pc = "visit" /\ reader'.pc = "accepted" /\ reader.phase \in {"load", "count"}
      /\ reader'.kind = reader.kind /\ reader'.phase = reader.phase
      /\ reader'.manifest = reader.manifest /\ reader'.bound = reader.bound
      /\ reader'.todo = reader.todo /\ reader'.copy = reader.copy
      /\ reader'.out = reader.out
  BY DEF Ending, Keeps, ReaderFields
<1>2. Validated
  BY <1>1 DEF ReaderInv, ValidatedHeld, Visiting
<1>3. Validated'
  BY <1>1, <1>2, MatchedKept
<1>4. ReaderType' /\ CopyHeld' /\ PhaseHeld' /\ TodoHeld'
  BY <1>1 DEF ReaderInv, ReaderType, CopyHeld, PhaseHeld, TodoHeld, Active, Visiting
<1>5. MatchedHeld' /\ ValidatedHeld'
  BY <1>1, <1>3 DEF MatchedHeld, ValidatedHeld, Visiting
<1>6. AgreementHeld' /\ OutHeld'
  BY <1>1, <1>3, AgreementKept DEF ReaderInv, AgreementHeld, OutHeld, Visiting, Rows
<1> QED
  BY <1>4, <1>5, <1>6 DEF ReaderInv

LEMMA ReaderSteps ==
  ASSUME ReaderInv, LinesInv, Stepping, DOMAIN reader' = ReaderFields, scenario' = scenario
  PROVE  ReaderInv'
<1>1. CASE Opening \/ Matching \/ Counting \/ Loading
  BY <1>1, VisitingKeeps
<1> QED
  BY <1>1, RejectingKeeps, CopyingKeeps, ReleasingKeeps, ConcludingKeeps, GeneratingKeeps,
     EndingKeeps DEF Stepping

LEMMA ReaderStays ==
  ASSUME ReaderInv, reader' = reader, scenario' = scenario
  PROVE  ReaderInv'
<1>1. ReaderType' /\ CopyHeld' /\ PhaseHeld' /\ TodoHeld'
  BY DEF ReaderInv, ReaderType, CopyHeld, PhaseHeld, TodoHeld
<1>2. MatchedHeld' /\ ValidatedHeld' /\ OutHeld'
  BY MatchedKept DEF ReaderInv, MatchedHeld, ValidatedHeld, OutHeld, Rows
<1>3. AgreementHeld'
  BY AgreementKept DEF ReaderInv, AgreementHeld
<1> QED
  BY <1>1, <1>2, <1>3 DEF ReaderInv

-----------------------------------------------------------------------------
(* The source and its history *)

SourceInv ==
    /\ scenario \in Scenarios
    /\ DOMAIN source = {"lines", "stamp", "edits"}
    /\ source.stamp \in Nat /\ source.edits \in Nat
    /\ MaxSourceEdits \in Nat => source.edits <= MaxSourceEdits
    /\ source.lines \in versions /\ \A v \in versions : IsFile(v)
    /\ \A v \in versions : \A row \in Range(v) : IsRow(row)

LEMMA SourceStarts == Init => SourceInv
<1> SUFFICES ASSUME Init PROVE SourceInv
  OBVIOUS
<1>1. /\ scenario \in Scenarios /\ versions = {scenario.source}
      /\ source = [lines |-> scenario.source, stamp |-> 0, edits |-> 0]
  BY DEF Init
<1>2. IsFile(scenario.source) /\ \A row \in Range(scenario.source) : IsRow(row)
  BY <1>1, ScenariosAreTyped
<1> QED
  BY <1>1, <1>2 DEF SourceInv

\* What an edit of the source does.
LEMMA SourceEdited ==
  ASSUME SourceInv, NEW loud \in BOOLEAN, EditSource(loud)
  PROVE  /\ SourceInv' /\ versions \subseteq versions'
         /\ source'.edits = source.edits + 1
         /\ \/ source'.stamp = source.stamp + 1
            \/ /\ source'.stamp = source.stamp
               /\ Len(source'.lines) = Len(source.lines)
<1>1. PICK lines \in scenario.edits :
         /\ loud \/ Len(lines) = Len(source.lines)
         /\ source' = [lines |-> lines, edits |-> source.edits + 1,
                       stamp |-> IF loud THEN source.stamp + 1 ELSE source.stamp]
         /\ versions' = versions \cup {lines}
  BY DEF EditSource
<1>2. IsFile(lines) /\ \A row \in Range(lines) : IsRow(row)
  BY ScenariosAreTyped DEF SourceInv
<1>3. /\ source'.lines = lines /\ source'.edits = source.edits + 1
      /\ source'.stamp = IF loud THEN source.stamp + 1 ELSE source.stamp
      /\ DOMAIN source' = {"lines", "stamp", "edits"}
  BY <1>1
<1>4. scenario' = scenario /\ source.edits < MaxSourceEdits
  BY DEF EditSource
<1>5. MaxSourceEdits \in Nat => source'.edits <= MaxSourceEdits
  BY <1>3, <1>4 DEF SourceInv
<1>6. SourceInv'
  BY <1>1, <1>2, <1>3, <1>4, <1>5 DEF SourceInv
<1> QED
  BY <1>1, <1>3, <1>6

LEMMA SourceSteps ==
  ASSUME SourceInv, [Next]_vars
  PROVE  SourceInv' /\ scenario' = scenario
<1>1. CASE \E loud \in BOOLEAN : EditSource(loud)
  BY <1>1, SourceEdited DEF EditSource
<1>2. CASE UNCHANGED <<scenario, source, versions>>
  BY <1>2 DEF SourceInv
<1>3. Next => UNCHANGED <<scenario, source, versions>> \/ \E loud \in BOOLEAN : EditSource(loud)
  <2>1. \A p \in Makers : Work(p) \/ Fail(p) => UNCHANGED <<scenario, source, versions>>
    BY DEF Work, Start, Copy, Stage, Publish, Fail
  <2>2. Read => UNCHANGED <<scenario, source, versions>>
    BY DEF Read, CopySource, Open, CopyRest, Use, Release, Conclude, Generate, Exhaust, WriteSidecar
  <2>3. Tamper \/ MutateTokenizer => UNCHANGED <<scenario, source, versions>>
    BY DEF Tamper, MutateTokenizer
  <2>4. \A kind : Begin(kind) => UNCHANGED <<scenario, source, versions>>
    BY DEF Begin
  <2> QED
    BY <2>1, <2>2, <2>3, <2>4 DEF Next
<1> QED
  BY <1>1, <1>2, <1>3 DEF vars

LEMMA ReaderNext ==
  ASSUME SourceInv, ReaderInv, [Next]_vars
  PROVE  ReaderInv'
<1>1. LinesInv /\ scenario' = scenario
  BY SourceSteps DEF SourceInv, LinesInv
<1>2. CASE reader' = reader
  BY <1>1, <1>2, ReaderStays
<1>3. CASE Read
  BY <1>1, <1>3, ReadEffect, ReaderSteps DEF ReaderInv
<1>4. ASSUME NEW kind \in Kinds, Begin(kind)
      PROVE  ReaderInv'
  BY <1>4, BeginEffect, BeginningKeeps DEF ReaderInv
<1>5. Next => reader' = reader \/ Read \/ \E kind \in Kinds : Begin(kind)
  <2>1. \A p \in Makers : Work(p) \/ Fail(p) => reader' = reader
    BY DEF Work, Start, Copy, Stage, Publish, Fail
  <2>2. Tamper \/ MutateTokenizer \/ (\E loud \in BOOLEAN : EditSource(loud)) => reader' = reader
    BY DEF Tamper, MutateTokenizer, EditSource
  <2> QED
    BY <2>1, <2>2 DEF Next, Kinds
<1> QED
  BY <1>2, <1>3, <1>4, <1>5 DEF vars

LEMMA ReaderStarts == Init => ReaderInv
<1> SUFFICES ASSUME Init PROVE ReaderInv
  OBVIOUS
<1>1. /\ DOMAIN reader = ReaderFields /\ reader.pc = "idle" /\ reader.copy = NoCopy
      /\ reader.bound = None /\ reader.out = None /\ reader = NewReader
  BY DEF Init, NewReader, ReaderFields
<1>2. ReaderType /\ CopyHeld /\ PhaseHeld /\ TodoHeld
  BY <1>1, NewCopyTyped DEF ReaderType, CopyHeld, PhaseHeld, TodoHeld, Active, Visiting
<1>3. MatchedHeld /\ ValidatedHeld /\ AgreementHeld /\ OutHeld
  BY <1>1 DEF MatchedHeld, ValidatedHeld, AgreementHeld, OutHeld, Visiting
<1> QED
  BY <1>2, <1>3 DEF ReaderInv

\* At every point of a validation, a load or a count, the reader is as far as
\* it believes: it has a manifest whose schema holds, every artifact it has
\* left behind agrees with its recorded members, a load or a count starts on a
\* manifest validated in full, and a source it has copied is the pinned one
\* (validate_split_manifest, load_frozen_split, write_token_statistics).
THEOREM ReaderIsAsFarAsItBelieves == Spec => [](SourceInv /\ ReaderInv)
<1>1. Init => SourceInv /\ ReaderInv
  BY SourceStarts, ReaderStarts
<1>2. SourceInv /\ ReaderInv /\ [Next]_vars => SourceInv' /\ ReaderInv'
  BY SourceSteps, ReaderNext
<1> QED
  BY <1>1, <1>2, PTL DEF Spec

\* Every row the training loader hands out, however much later than the
\* binding and whatever is edited in between, is the bound train artifact's,
\* and shares no content and no lineage with the bound validation and held-out
\* members (load_frozen_split, _iter_snapshot_records).
THEOREM LoadersGetTrain == Spec => []LoadedRowsAreTrain
<1>1. ReaderInv => LoadedRowsAreTrain
  <2> SUFFICES ASSUME ReaderInv, reader.out # None PROVE LoadedRowsAreTrain
    BY DEF LoadedRowsAreTrain
  <2>1. /\ reader.bound = reader.manifest /\ reader.out = RecordsOf(reader.manifest.digests["train"])
        /\ AuditPasses(reader.manifest.splits)
        /\ ArtifactMatches(reader.manifest, "train", reader.manifest.digests["train"],
                           reader.kind = "source")
    BY DEF ReaderInv, OutHeld, Validated, Matched, Rows, Splits
  <2> HIDE DEF ReaderInv
  <2> QED
    BY <2>1, TrainIsApart DEF LoadedRowsAreTrain
<1> QED
  BY <1>1, ReaderIsAsFarAsItBelieves, PTL

\* A snapshot accepted against a source is the one materializing that source
\* gives, whatever was done to the snapshot or the source before or during the
\* validation (validate_split_manifest, _validate_source, _validate_artifact).
THEOREM SourceVerdicts == Spec => []SourceVerdictIsTrue
<1>1. ReaderInv => SourceVerdictIsTrue
  <2> SUFFICES ASSUME ReaderInv, reader.pc = "accepted", reader.kind = "source"
               PROVE  LET true == Materialized(reader.manifest.source, scenario.bucket).manifest
                      IN  /\ reader.manifest.splits = true.splits
                          /\ \A split \in Splits :
                               ArtifactRows(MembersOf(reader.manifest.digests[split])) =
                               true.digests[split]
    BY DEF SourceVerdictIsTrue
  <2>1. /\ SchemaHolds(reader.manifest)
        /\ IsFile(reader.manifest.source) /\ SourceMatches(reader.manifest, reader.manifest.source)
        /\ \A split \in Splits :
              ArtifactMatches(reader.manifest, split, reader.manifest.digests[split],
                              reader.kind = "source")
    BY DEF ReaderInv, PhaseHeld, AgreementHeld, AgreesWithSource, ValidatedHeld, Validated,
           Matched, Rows, Active
  <2> DEFINE owned == OwnedMembers(MembersOf(reader.manifest.source), scenario.bucket)
  <2>2. reader.manifest.splits = owned
    BY <2>1, OwnershipIsMembership
  <2>3. \A split \in Splits : ArtifactRows(MembersOf(reader.manifest.digests[split])) =
                              ArtifactRows(reader.manifest.splits[split])
    BY <2>1, RowsAreLines
  <2>4. Materialized(reader.manifest.source, scenario.bucket).manifest =
           ManifestOf(reader.manifest.source, owned)
    BY DEF Materialized
  <2>5. /\ ManifestOf(reader.manifest.source, owned).splits = owned
        /\ ManifestOf(reader.manifest.source, owned).digests =
             [split \in Splits |-> ArtifactRows(owned[split])]
    BY DEF ManifestOf
  <2> HIDE DEF owned
  <2> QED
    BY <2>2, <2>3, <2>4, <2>5
<1> QED
  BY <1>1, ReaderIsAsFarAsItBelieves, PTL

-----------------------------------------------------------------------------
(* What the sidecar's writer has counted *)

\* What is left of SplitOrder after each number of artifacts.
Rests == <<SplitOrder, <<"validation", "held_out">>, <<"held_out">>, <<>>>>

\* The artifact in use has been counted once it waits for its release.
Done == IF reader.pc = "release" THEN Len(reader.counts) - 1 ELSE Len(reader.counts)

CountedBy(k, behaviour) ==
    reader.counts[k] = CountsOf(RecordsOf(Rows(SplitOrder[k])), behaviour)

\* With one change at most, the tokenizer is the one whose provenance was
\* derived or has been another since: each count is under one of the two.
CountHeld ==
    /\ IsFile(reader.counts)
    /\ reader.pc \in Active /\ reader.phase # "count" => reader.counts = <<>>
    /\ reader.pc \in Active /\ reader.kind = "stats" /\ tampers = 0 =>
          reader.spec.sha = tokenizer.behaviour
    /\ reader.pc \in Active /\ reader.kind = "stats" =>
          \A k \in 1..Len(reader.counts) :
              CountedBy(k, reader.spec.sha) \/ CountedBy(k, tokenizer.behaviour)
    /\ reader.pc \in Visiting /\ reader.phase = "count" =>
          Done \in 0..3 /\ reader.todo = Rests[Done + 1]

TamperInv == tampers \in Nat /\ (MaxTampers \in Nat => tampers <= MaxTampers)

CountInv == TamperInv /\ CountHeld /\ SidecarIsTrue

LEMMA EmptyIsFile == IsFile(<<>>) /\ Len(<<>>) = 0
<1>1. IsFile(<<>>)
  BY SequenceIsFile, EmptySeq
<1> QED
  BY <1>1, FileProperties

\* Steps that count nothing and keep to the phase.
LEMMA CountsKept ==
  ASSUME CountHeld, reader'.counts = reader.counts, reader'.kind = reader.kind,
         reader'.spec = reader.spec, reader'.manifest = reader.manifest,
         reader'.phase = reader.phase, reader'.pc \in Active => reader.pc \in Active,
         reader'.pc \in Visiting => reader.pc \in Visiting \/ reader.phase # "count",
         reader'.pc \in Visiting /\ reader.phase = "count" =>
            (Done' = Done /\ reader'.todo = reader.todo)
            \/ (Done' = Done + 1 /\ reader'.todo = Tail(reader.todo) /\ reader.todo # <<>>),
         tokenizer' = tokenizer, tampers' = tampers
  PROVE  CountHeld'
<1>1. /\ IsFile(reader'.counts)
      /\ reader'.pc \in Active /\ reader'.phase # "count" => reader'.counts = <<>>
      /\ reader'.pc \in Active /\ reader'.kind = "stats" /\ tampers' = 0 =>
            reader'.spec.sha = tokenizer'.behaviour
  BY DEF CountHeld
<1>2. reader'.pc \in Active /\ reader'.kind = "stats" =>
          \A k \in 1..Len(reader'.counts) :
              CountedBy(k, reader.spec.sha)' \/ CountedBy(k, tokenizer.behaviour)'
  BY DEF CountHeld, CountedBy, Rows
<1>3. ASSUME reader'.pc \in Visiting, reader'.phase = "count"
      PROVE  Done' \in 0..3 /\ reader'.todo = Rests[Done' + 1]
  <2>1. Done \in 0..3 /\ reader.todo = Rests[Done + 1]
    BY <1>3 DEF CountHeld
  <2>2. /\ Tail(Rests[1]) = Rests[2] /\ Tail(Rests[2]) = Rests[3] /\ Tail(Rests[3]) = Rests[4]
        /\ Rests[4] = <<>>
    BY DEF Rests, SplitOrder
  <2>3. Done = 0 \/ Done = 1 \/ Done = 2 \/ Done = 3
    BY <2>1
  <2>4. CASE Done' = Done + 1 /\ reader'.todo = Tail(reader.todo) /\ reader.todo # <<>>
    <3>1. Done # 3
      BY <2>1, <2>2, <2>4
    <3>2. Tail(Rests[Done + 1]) = Rests[Done + 2]
      <4>1. \/ Done + 1 = 1 /\ Done + 2 = 2
            \/ Done + 1 = 2 /\ Done + 2 = 3
            \/ Done + 1 = 3 /\ Done + 2 = 4
        BY <2>3, <3>1
      <4> QED
        BY <2>2, <4>1
    <3>3. Done \in 0..2 /\ Done' + 1 = Done + 2
      BY <2>1, <2>4, <3>1
    <3> QED
      BY <2>1, <2>4, <3>2, <3>3
  <2> QED
    BY <1>3, <2>1, <2>4
<1> QED
  BY <1>1, <1>2, <1>3 DEF CountHeld

LEMMA RejectingKeepsCounts ==
  ASSUME CountHeld, reader'.pc = "rejected", reader'.counts = reader.counts
  PROVE  CountHeld'
BY DEF CountHeld, Active, Visiting

LEMMA CountingKeepsCounts ==
  ASSUME ReaderInv, CountHeld, Counting, tokenizer' = tokenizer, tampers' = tampers
  PROVE  CountHeld'
<1> SUFFICES ASSUME NEW n, n = Len(reader.counts), NEW c,
                    c = CountsOf(RecordsOf(Rows(Head(reader.todo))), tokenizer.behaviour)
             PROVE  CountHeld'
  OBVIOUS
<1>1. /\ reader.pc = "verify" /\ reader.phase = "count" /\ reader'.pc = "release"
      /\ reader'.counts = Append(reader.counts, c)
      /\ reader'.kind = reader.kind /\ reader'.phase = reader.phase
      /\ reader'.manifest = reader.manifest /\ reader'.todo = reader.todo
      /\ reader'.spec = reader.spec
  BY DEF Counting, Keeps, ReaderFields
<1>2. /\ n \in Nat /\ IsFile(reader'.counts) /\ Len(reader'.counts) = n + 1
      /\ \A k \in 1..n : reader'.counts[k] = reader.counts[k]
      /\ reader'.counts[n + 1] = c
  <2> DEFINE S == Range(reader.counts) \cup {c}
  <2>1. reader.counts \in Seq(S)
    <3>1. reader.counts \in Seq(Range(reader.counts))
      BY DEF CountHeld, IsFile
    <3> QED
      BY <3>1
  <2>2. c \in S
    OBVIOUS
  <2> HIDE DEF S
  <2>3. /\ Append(reader.counts, c) \in Seq(S) /\ Len(Append(reader.counts, c)) = n + 1
        /\ \A k \in 1..n : Append(reader.counts, c)[k] = reader.counts[k]
        /\ Append(reader.counts, c)[n + 1] = c
    BY <2>1, <2>2, AppendProperties
  <2>4. IsFile(Append(reader.counts, c)) /\ n \in Nat
    BY <2>1, <2>3, SequenceIsFile, LenProperties
  <2> QED
    BY <1>1, <2>3, <2>4
<1>3. n \in 0..3 /\ reader.todo = Rests[n + 1] /\ reader.todo # <<>>
  BY <1>1 DEF CountHeld, Done, ReaderInv, TodoHeld, Visiting
<1>4. Head(reader.todo) = SplitOrder[n + 1] /\ n \in 0..2
  <2>1. n + 1 = 1 \/ n + 1 = 2 \/ n + 1 = 3 \/ (n = 3 /\ n + 1 = 4)
    <3>1. n \in 0..3
      BY <1>3
    <3>2. n = 0 \/ n = 1 \/ n = 2 \/ n = 3
      BY ONLY <3>1
    <3> QED
      BY ONLY <3>2
  <2>2. /\ Head(Rests[1]) = SplitOrder[1] /\ Head(Rests[2]) = SplitOrder[2]
        /\ Head(Rests[3]) = SplitOrder[3] /\ Rests[4] = <<>>
    BY DEF Rests, SplitOrder
  <2>3. Head(reader.todo) = SplitOrder[n + 1] /\ n # 3
    <3>1. reader.todo = Rests[n + 1] /\ reader.todo # <<>>
      BY <1>3
    <3>2. n + 1 # 4
      BY ONLY <2>2, <3>1
    <3> QED
      BY ONLY <2>1, <2>2, <3>1, <3>2
  <2>4. n \in 0..2
    <3>1. n \in 0..3 /\ n # 3
      BY <1>3, <2>3
    <3> QED
      BY ONLY <3>1
  <2> QED
    BY <2>3, <2>4
<1>5. CountedBy(n + 1, tokenizer.behaviour)'
  BY <1>1, <1>2, <1>4 DEF CountedBy, Rows
<1>6. reader.pc \in Active /\ reader'.pc \in Active \cap Visiting
  BY <1>1 DEF Active, Visiting
<1>7. ASSUME NEW k \in 1..n, reader.kind = "stats"
      PROVE  CountedBy(k, reader.spec.sha)' \/ CountedBy(k, tokenizer.behaviour)'
  <2>1. CountedBy(k, reader.spec.sha) \/ CountedBy(k, tokenizer.behaviour)
    BY <1>6, <1>7 DEF CountHeld
  <2> QED
    BY <1>1, <1>2, <2>1 DEF CountedBy, Rows
<1>8. Done' = n /\ (reader'.todo = Rests[n + 1])
  BY <1>1, <1>2, <1>3 DEF Done
<1>9. \A k \in 1..n + 1 : k \in 1..n \/ k = n + 1
  BY <1>2
<1>10. reader'.kind = "stats" =>
          \A k \in 1..Len(reader'.counts) :
              CountedBy(k, reader.spec.sha)' \/ CountedBy(k, tokenizer.behaviour)'
  BY <1>1, <1>2, <1>5, <1>7, <1>9
<1> QED
  BY <1>1, <1>2, <1>3, <1>6, <1>8, <1>10 DEF CountHeld

LEMMA ReadKeepsCounts ==
  ASSUME ReaderInv, CountHeld, Stepping, tokenizer' = tokenizer, tampers' = tampers
  PROVE  CountHeld'
<1>1. CASE Rejecting
  BY <1>1, RejectingKeepsCounts DEF Rejecting, Keeps, ReaderFields
<1>2. CASE Copying \/ Opening \/ Matching \/ Loading
  <2>1. /\ reader.pc \in {"source", "visit", "rest", "verify"}
        /\ reader'.pc \in Active
        /\ reader'.counts = reader.counts /\ reader'.kind = reader.kind
        /\ reader'.spec = reader.spec /\ reader'.manifest = reader.manifest
        /\ reader'.phase = reader.phase /\ reader'.todo = reader.todo
        /\ reader'.pc = "release" => reader.phase # "count"
        /\ reader.pc = "source" => reader.phase # "count"
    BY <1>2 DEF Copying, Opening, Matching, Loading, Keeps, ReaderFields, Active, Visiting,
                ReaderInv, PhaseHeld
  <2>2. reader'.phase = "count" => Done' = Done
    BY <2>1 DEF Done
  <2>3. /\ reader.pc \in Active
        /\ reader.phase = "count" => reader.pc \in Visiting
    BY <2>1 DEF Active, Visiting
  <2> QED
    BY <2>1, <2>2, <2>3, CountsKept
<1>3. CASE Counting
  BY <1>3, CountingKeepsCounts
<1>4. CASE Releasing
  <2>1. /\ reader.pc = "release" /\ reader'.pc = "visit"
        /\ reader'.counts = reader.counts /\ reader'.kind = reader.kind
        /\ reader'.spec = reader.spec /\ reader'.manifest = reader.manifest
        /\ reader'.phase = reader.phase /\ reader'.todo = Tail(reader.todo)
    BY <1>4 DEF Releasing, Keeps, ReaderFields
  <2>2. reader.pc \in Active /\ reader.pc \in Visiting /\ reader.todo # <<>>
    BY <2>1 DEF Active, Visiting, ReaderInv, TodoHeld
  <2>3. Done' = Done + 1
    <3>1. Len(reader.counts) \in Nat
      BY FileProperties DEF CountHeld
    <3> QED
      BY <2>1, <3>1 DEF Done
  <2> QED
    BY <2>1, <2>2, <2>3, CountsKept
<1>5. CASE Concluding \/ Generating
  <2>1. /\ reader'.counts = reader.counts /\ reader'.kind = reader.kind
        /\ reader'.spec = reader.spec
        /\ reader.pc \in Active /\ reader.phase = "validate"
        /\ reader'.phase = "count" => reader'.todo = SplitOrder
        /\ reader'.pc # "release"
    BY <1>5 DEF Concluding, Generating, Entering, Keeps, ReaderFields, Active, Visiting, Visits,
                ReaderInv, PhaseHeld
  <2>2. reader.counts = <<>> /\ Len(reader.counts) = 0
    BY <2>1, EmptyIsFile DEF CountHeld
  <2>3. Done' = 0 /\ Rests[0 + 1] = SplitOrder
    BY <2>1, <2>2 DEF Done, Rests
  <2> QED
    BY <2>1, <2>2, <2>3, EmptyIsFile DEF CountHeld
<1>6. CASE Ending
  <2>1. /\ reader.pc = "visit" /\ reader'.pc = "accepted"
        /\ reader'.counts = reader.counts /\ reader'.kind = reader.kind
        /\ reader'.spec = reader.spec /\ reader'.manifest = reader.manifest
        /\ reader'.phase = reader.phase
    BY <1>6 DEF Ending, Keeps, ReaderFields
  <2>2. reader.pc \in Active /\ reader'.pc \notin Visiting
    BY <2>1 DEF Active, Visiting
  <2> QED
    BY <2>1, <2>2, CountsKept
<1> QED
  BY <1>1, <1>2, <1>3, <1>4, <1>5, <1>6 DEF Stepping

LEMMA BeginKeepsCounts ==
  ASSUME Beginning, tokenizer' = tokenizer, tampers' = tampers
  PROVE  CountHeld'
<1>1. reader'.counts = <<>> /\ Len(<<>>) = 0 /\ IsFile(<<>>)
  BY EmptyIsFile DEF Beginning, NewReader, Keeps, ReaderFields
<1>2. reader'.pc = "rejected" \/ reader'.phase = "validate"
  BY DEF Beginning, Entering
<1>3. reader'.pc \in Active /\ reader'.kind = "stats" => reader'.spec.sha = tokenizer.behaviour
  BY DEF Beginning, Active, Visiting, Provenance
<1> QED
  BY <1>1, <1>2, <1>3 DEF CountHeld, Active, Visiting

\* The tokenizer changes: what has been counted was under the derived one.
LEMMA MutationKeepsCounts ==
  ASSUME CountHeld, MaxTampers \in 0..1, TamperInv, MutateTokenizer
  PROVE  CountHeld'
<1>1. tampers = 0 /\ tampers' = 1 /\ reader' = reader
  BY DEF TamperInv, MutateTokenizer
<1>2. reader.pc \in Active /\ reader.kind = "stats" =>
         \A k \in 1..Len(reader.counts) : CountedBy(k, reader.spec.sha)
  BY <1>1 DEF CountHeld
<1>3. reader'.pc \in Active /\ reader'.kind = "stats" =>
         \A k \in 1..Len(reader'.counts) : CountedBy(k, reader.spec.sha)'
  BY <1>1, <1>2 DEF CountedBy, Rows
<1> QED
  BY <1>1, <1>3 DEF CountHeld, Done

LEMMA SidecarStaysTrue ==
  ASSUME ReaderInv, CountInv, [Next]_vars
  PROVE  SidecarIsTrue'
<1>1. CASE sidecar' = sidecar
  BY <1>1 DEF CountInv, SidecarIsTrue
<1>2. CASE WriteSidecar /\ sidecar' # sidecar
  <2>1. /\ reader.pc = "visit" /\ reader.todo = <<>> /\ reader.phase = "count"
        /\ Provenance(tokenizer) = reader.spec
        /\ sidecar' = [manifest |-> reader.manifest, provenance |-> reader.spec,
                       counts |-> [k \in 1..3 |-> reader.counts[k]]]
    BY <1>2 DEF WriteSidecar
  <2>2. reader.spec.sha = tokenizer.behaviour
    BY <2>1 DEF Provenance
  <2>3. reader.pc \in Visiting \cap Active /\ reader.kind = "stats"
    BY <2>1 DEF ReaderInv, PhaseHeld, Active, Visiting
  <2>4. Len(reader.counts) = 3
    <3>1. Len(reader.counts) \in 0..3 /\ Rests[Len(reader.counts) + 1] = <<>>
      BY <2>1, <2>3 DEF CountInv, CountHeld, Done
    <3>2. \/ Len(reader.counts) + 1 = 1 \/ Len(reader.counts) + 1 = 2
          \/ Len(reader.counts) + 1 = 3 \/ Len(reader.counts) = 3
      <4>1. \A n \in 0..3 : n + 1 = 1 \/ n + 1 = 2 \/ n + 1 = 3 \/ n = 3
        OBVIOUS
      <4> HIDE DEF Rests
      <4> QED
        BY <3>1, <4>1
    <3>3. Rests[1] # <<>> /\ Rests[2] # <<>> /\ Rests[3] # <<>>
      BY DEF Rests, SplitOrder
    <3> QED
      BY <3>1, <3>2, <3>3
  <2>5. \A k \in 1..3 : CountedBy(k, reader.spec.sha)
    BY <2>2, <2>3, <2>4 DEF CountInv, CountHeld
  <2> QED
    BY <2>1, <2>5 DEF SidecarIsTrue, CountedBy, Rows
<1>3. [Next]_vars => sidecar' = sidecar \/ WriteSidecar
  <2>1. \A p \in Makers : Work(p) \/ Fail(p) => sidecar' = sidecar
    BY DEF Work, Start, Copy, Stage, Publish, Fail
  <2>2. Tamper \/ MutateTokenizer \/ (\E loud \in BOOLEAN : EditSource(loud)) => sidecar' = sidecar
    BY DEF Tamper, MutateTokenizer, EditSource
  <2>3. \A kind : Begin(kind) => sidecar' = sidecar
    BY DEF Begin
  <2>4. Read => sidecar' = sidecar \/ WriteSidecar
    BY DEF Read, CopySource, Open, CopyRest, Use, Release, Conclude, Generate, Exhaust
  <2> QED
    BY <2>1, <2>2, <2>3, <2>4 DEF Next, vars
<1> QED
  BY <1>1, <1>2, <1>3

LEMMA CountNext ==
  ASSUME MaxTampers \in 0..1, ReaderInv, CountInv, [Next]_vars
  PROVE  CountInv'
<1>1. SidecarIsTrue'
  BY SidecarStaysTrue
<1> DEFINE steady == tokenizer' = tokenizer /\ tampers' = tampers
<1>2. Next => steady \/ Tamper \/ MutateTokenizer
  <2>1. \A p \in Makers : Work(p) \/ Fail(p) => steady
    BY DEF Work, Start, Copy, Stage, Publish, Fail
  <2>2. Read => steady
    BY DEF Read, CopySource, Open, CopyRest, Use, Release, Conclude, Generate, Exhaust, WriteSidecar
  <2>3. \A kind, loud : Begin(kind) \/ EditSource(loud) => steady
    BY DEF Begin, EditSource
  <2> QED
    BY <2>1, <2>2, <2>3 DEF Next
<1>3. TamperInv'
  <2>1. steady \/ (tampers' = tampers + 1 /\ tampers < MaxTampers)
    BY <1>2 DEF Tamper, MutateTokenizer, vars
  <2> QED
    BY <2>1 DEF CountInv, TamperInv
<1>4. CountHeld'
  <2>1. CASE reader' = reader /\ steady
    BY <2>1 DEF CountInv, CountHeld, CountedBy, Done, Rows
  <2>2. CASE Tamper
    <3>1. reader' = reader /\ tokenizer' = tokenizer /\ tampers' = tampers + 1 /\ tampers \in Nat
      BY <2>2 DEF Tamper, CountInv, TamperInv
    <3> QED
      BY <3>1 DEF CountInv, CountHeld, CountedBy, Done, Rows
  <2>3. CASE MutateTokenizer
    BY <2>3, MutationKeepsCounts DEF CountInv
  <2>4. CASE Read
    <3>1. steady
      BY <2>4 DEF Read, CopySource, Open, CopyRest, Use, Release, Conclude, Generate, Exhaust,
                  WriteSidecar
    <3> QED
      BY <2>4, <3>1, ReadEffect, ReadKeepsCounts DEF ReaderInv, CountInv
  <2>5. ASSUME NEW kind \in Kinds, Begin(kind)
        PROVE  CountHeld'
    <3>1. steady
      BY <2>5 DEF Begin
    <3> QED
      BY <2>5, <3>1, BeginEffect, BeginKeepsCounts DEF ReaderInv
  <2>6. Next => \/ reader' = reader /\ steady
                \/ Tamper \/ MutateTokenizer \/ Read \/ \E kind \in Kinds : Begin(kind)
    <3>1. \A p \in Makers : Work(p) \/ Fail(p) => reader' = reader /\ steady
      BY DEF Work, Start, Copy, Stage, Publish, Fail
    <3>2. \A loud : EditSource(loud) => reader' = reader /\ steady
      BY DEF EditSource
    <3> QED
      BY <3>1, <3>2 DEF Next, Kinds
  <2> QED
    BY <2>1, <2>2, <2>3, <2>4, <2>5, <2>6 DEF vars
<1> QED
  BY <1>1, <1>3, <1>4 DEF CountInv

\* A published sidecar counts what its pins name: the rows of the pinned
\* manifest's artifacts under the pinned tokenizer, whatever happens to the
\* artifacts while it counts, and if the tokenizer changes at most once.  (One
\* that changes and changes back leaves nothing to see: _verified_spec is called
\* before the artifacts are opened and after they are counted.)
THEOREM SidecarsAreTrue == MaxTampers \in 0..1 /\ Spec => []SidecarIsTrue
<1> SUFFICES ASSUME MaxTampers \in 0..1
             PROVE  Spec => []SidecarIsTrue
  OBVIOUS
<1>1. Init => CountInv
  <2> SUFFICES ASSUME Init PROVE CountInv
    OBVIOUS
  <2>1. reader.counts = <<>> /\ reader.pc = "idle" /\ sidecar = None /\ tampers = 0
    BY DEF Init, NewReader
  <2>2. TamperInv /\ SidecarIsTrue
    BY <2>1 DEF TamperInv, SidecarIsTrue
  <2>3. CountHeld
    BY <2>1, EmptyIsFile DEF CountHeld, Active, Visiting
  <2> QED
    BY <2>2, <2>3 DEF CountInv
<1>2. ReaderInv /\ CountInv /\ [Next]_vars => CountInv'
  BY CountNext
<1>3. CountInv => SidecarIsTrue
  BY DEF CountInv
<1> QED
  BY <1>1, <1>2, <1>3, ReaderIsAsFarAsItBelieves, PTL DEF Spec

-----------------------------------------------------------------------------
(* The copies makers take of a source that is edited while they read it *)

\* Half of one content and half of another, of the same size.
Mixed(bytes, v, w) == bytes = FirstChunk(v) \o LastChunk(w) /\ Len(v) = Len(w)

\* What a copy can hold at each step when the source is edited twice at most.
\* A mixture needs an edit before its second half is read; for the second
\* reading to agree with it, that reading would need two more.
CopyInv(copy, src, seen) ==
    /\ CopyTyped(copy)
    /\ copy.step \in {"rest", "identity"} => copy.stamp \in 0..src.stamp
    /\ copy.step = "rest" /\ copy.stamp = src.stamp =>
          \/ copy.bytes = FirstChunk(src.lines)
          \/ /\ src.edits >= 1
             /\ \E v \in seen : copy.bytes = FirstChunk(v) /\ Len(v) = Len(src.lines)
    /\ \/ copy.step = "identity" /\ copy.stamp = src.stamp
       \/ copy.step = "rehash"
       => \/ copy.bytes \in seen
          \/ src.edits = 2
          \/ src.edits = 1 /\ \E v \in seen : Mixed(copy.bytes, v, src.lines)
    /\ copy.step = "rehash_rest" =>
          \/ copy.bytes \in seen
          \/ src.edits = 2 /\ copy.live = FirstChunk(src.lines)
          \/ \E v, w \in seen : Mixed(copy.bytes, v, w) /\ copy.live = FirstChunk(w)
    /\ copy.step = "copied" => copy.bytes \in seen

MakerInv(p) ==
    /\ DOMAIN makers[p] = {"pc", "copy", "staged"}
    /\ makers[p].pc \in {"start", "copy", "stage", "publish", "published", "refused"}
    /\ CopyInv(makers[p].copy, source, versions)
    /\ makers[p].pc \in {"start", "copy"} => makers[p].copy.step \in CopySteps
    /\ makers[p].pc \in {"stage", "publish"} => makers[p].copy.bytes \in versions
    /\ makers[p].pc = "publish" =>
          \E lines \in versions :
             Materializable(lines, scenario.bucket)
             /\ makers[p].staged = Materialized(lines, scenario.bucket)

MakersInv ==
    /\ DOMAIN makers = Makers /\ \A p \in Makers : MakerInv(p)
    /\ dest # Free => DOMAIN dest = {"manifest", "files"}

LEMMA CopyAdvances ==
  ASSUME SourceInv, MaxSourceEdits \in 0..2, NEW copy, CopyInv(copy, source, versions),
         copy.step \in CopySteps
  PROVE  CopyInv(CopyStep(copy), source, versions)
<1> DEFINE s == source.lines
           first == FirstChunk(s)
           last == LastChunk(s)
<1> SUFFICES ASSUME NEW next, next = CopyStep(copy)
             PROVE  CopyInv(next, source, versions)
  OBVIOUS
<1>1. /\ s \in versions /\ IsFile(s) /\ \A v \in versions : IsFile(v)
      /\ source.edits \in 0..2 /\ source.stamp \in Nat
  BY DEF SourceInv
<1>2. first \o last = s
  BY <1>1, Chunks
<1>3. CopyTyped(next)
  <2>1. LinesInv
    BY DEF LinesInv, SourceInv
  <2> QED
    BY <2>1, CopyStaysTyped DEF CopyInv
<1>4. DOMAIN copy = {"step", "stamp", "bytes", "live"}
  BY DEF CopyInv, CopyTyped
<1>5. CASE copy.step = "open"
  <2>1. next.step = "rest" /\ next.stamp = source.stamp /\ next.bytes = first
    BY <1>4, <1>5 DEF CopyStep
  <2> QED
    BY <1>1, <1>3, <2>1 DEF CopyInv
<1>6. CASE copy.step = "rest"
  <2>1. next.step = "identity" /\ next.stamp = copy.stamp /\ next.bytes = copy.bytes \o last
    BY <1>4, <1>6 DEF CopyStep
  <2>2. copy.stamp \in 0..source.stamp
    BY <1>6 DEF CopyInv
  <2>3. ASSUME copy.stamp = source.stamp
        PROVE  \/ next.bytes \in versions
               \/ source.edits = 2
               \/ source.edits = 1 /\ \E v \in versions : Mixed(next.bytes, v, s)
    <3>1. CASE copy.bytes = first
      BY <1>1, <1>2, <2>1, <3>1
    <3>2. CASE source.edits >= 1 /\ \E v \in versions : copy.bytes = FirstChunk(v) /\ Len(v) = Len(s)
      <4>1. PICK v \in versions : copy.bytes = FirstChunk(v) /\ Len(v) = Len(s)
        BY <3>2
      <4>2. Mixed(next.bytes, v, s)
        BY <2>1, <4>1 DEF Mixed
      <4>3. source.edits = 1 \/ source.edits = 2
        BY <1>1, <3>2
      <4> QED
        BY <4>2, <4>3
    <3> QED
      BY <1>6, <2>3, <3>1, <3>2 DEF CopyInv
  <2> HIDE DEF s, last
  <2> QED
    BY <1>3, <2>1, <2>2, <2>3 DEF CopyInv, s
<1>7. CASE copy.step = "identity"
  <2>1. /\ next.step = IF copy.stamp = source.stamp THEN "rehash" ELSE "changed"
        /\ next.bytes = copy.bytes
    BY <1>4, <1>7 DEF CopyStep
  <2> QED
    BY <1>3, <1>7, <2>1 DEF CopyInv
<1>8. CASE copy.step = "rehash"
  <2>1. next.step = "rehash_rest" /\ next.bytes = copy.bytes /\ next.live = first
    BY <1>4, <1>8 DEF CopyStep
  <2>2. \/ next.bytes \in versions
        \/ source.edits = 2 /\ next.live = first
        \/ \E v, w \in versions : Mixed(next.bytes, v, w) /\ next.live = FirstChunk(w)
    BY <1>1, <1>8, <2>1 DEF CopyInv
  <2> QED
    BY <1>3, <2>1, <2>2 DEF CopyInv
<1>9. CASE copy.step = "rehash_rest"
  <2>1. /\ next.step = IF copy.bytes = copy.live \o last THEN "copied" ELSE "changed"
        /\ next.bytes = copy.bytes
    BY <1>4, <1>9 DEF CopyStep
  <2>2. ASSUME copy.bytes = copy.live \o last
        PROVE  copy.bytes \in versions
    <3>1. CASE copy.live = first
      BY <1>1, <1>2, <2>2, <3>1
    <3>2. CASE \E v, w \in versions : Mixed(copy.bytes, v, w) /\ copy.live = FirstChunk(w)
      <4>1. PICK v \in versions, w \in versions :
                Mixed(copy.bytes, v, w) /\ copy.live = FirstChunk(w)
        BY <3>2
      <4>2. FirstChunk(v) \o LastChunk(w) = FirstChunk(w) \o LastChunk(s) /\ Len(v) = Len(w)
        BY <2>2, <4>1 DEF Mixed
      <4>3. FirstChunk(v) \o LastChunk(w) = w
        BY <1>1, <4>2, SamePrefix
      <4> QED
        BY <4>1, <4>3 DEF Mixed
    <3> QED
      BY <1>9, <3>1, <3>2 DEF CopyInv
  <2> QED
    BY <1>3, <2>1, <2>2 DEF CopyInv
<1> QED
  BY <1>5, <1>6, <1>7, <1>8, <1>9 DEF CopySteps

\* An edit, loud or silent, between two steps of a copy.
LEMMA CopySurvivesEdit ==
  ASSUME SourceInv, MaxSourceEdits \in 0..2, NEW copy, CopyInv(copy, source, versions),
         NEW loud \in BOOLEAN, EditSource(loud)
  PROVE  CopyInv(copy, source', versions')
<1>1. /\ versions \subseteq versions' /\ source.lines \in versions
      /\ source.stamp \in Nat
      /\ source.edits \in 0..1 /\ source'.edits = source.edits + 1
      /\ \/ source'.stamp = source.stamp + 1
         \/ source'.stamp = source.stamp /\ Len(source'.lines) = Len(source.lines)
  <2>1. source.edits < MaxSourceEdits /\ source.edits \in Nat
    BY DEF EditSource, SourceInv
  <2> QED
    BY <2>1, SourceEdited DEF SourceInv
<1>2. copy.step \in {"rest", "identity"} => copy.stamp \in 0..source.stamp
  BY DEF CopyInv
<1>3. copy.step \in {"rest", "identity"} => copy.stamp \in 0..source'.stamp
  BY <1>1, <1>2
<1>4. ASSUME copy.step = "rest", copy.stamp = source'.stamp
      PROVE  /\ source'.edits >= 1
             /\ \E v \in versions' : copy.bytes = FirstChunk(v) /\ Len(v) = Len(source'.lines)
  <2>1. copy.stamp = source.stamp /\ Len(source'.lines) = Len(source.lines)
    BY <1>1, <1>2, <1>4
  <2>2. \E v \in versions : copy.bytes = FirstChunk(v) /\ Len(v) = Len(source.lines)
    BY <1>1, <1>4, <2>1 DEF CopyInv
  <2> QED
    BY <1>1, <2>1, <2>2
<1>5. ASSUME \/ copy.step = "identity" /\ copy.stamp = source'.stamp
             \/ copy.step = "rehash"
      PROVE  \/ copy.bytes \in versions'
             \/ source'.edits = 2
             \/ source'.edits = 1 /\ \E v \in versions' : Mixed(copy.bytes, v, source'.lines)
  <2>1. copy.step = "identity" => copy.stamp = source.stamp
    BY <1>1, <1>2, <1>5
  <2>2. \/ copy.bytes \in versions
        \/ source.edits = 1
    BY <1>1, <1>5, <2>1 DEF CopyInv
  <2> QED
    BY <1>1, <2>2
<1>6. ASSUME copy.step = "rehash_rest"
      PROVE  \/ copy.bytes \in versions'
             \/ \E v, w \in versions' : Mixed(copy.bytes, v, w) /\ copy.live = FirstChunk(w)
  <2>1. source.edits # 2
    BY <1>1
  <2> QED
    BY <1>1, <1>6, <2>1 DEF CopyInv
<1>7. CopyTyped(copy) /\ (copy.step = "copied" => copy.bytes \in versions')
  BY <1>1 DEF CopyInv
<1> QED
  BY <1>3, <1>4, <1>5, <1>6, <1>7 DEF CopyInv

Whole(content) == DOMAIN content = {"manifest", "files"}

LEMMA WholeIsNotFree ==
  ASSUME NEW content, Whole(content)
  PROVE  content # Free
<1>1. DOMAIN Free = {"kind"}
  BY DEF Free
<1> QED
  BY <1>1 DEF Whole

LEMMA MaterializedIsWhole ==
  ASSUME NEW lines, NEW bucket
  PROVE  Whole(Materialized(lines, bucket))
BY DEF Materialized, Whole

LEMMA TamperedIsWhole ==
  ASSUME Tamper, Whole(dest)
  PROVE  Whole(dest')
<1>1. PICK split \in Splits :
        dest' \in {EditArtifact(split, TRUE), EditArtifact(split, FALSE), ForgeText(split),
                   Relabel(split), Reencode(split), Space(split)}
                  \cup {MoveMember(split, to) : to \in Splits \ {split}}
  BY DEF Tamper
<1>2. \A splits : Whole(WithSplits(splits))
  BY DEF WithSplits, Whole
<1>3. \A loud : Whole(EditArtifact(split, loud))
  BY DEF EditArtifact, Whole
<1>4. Whole(Relabel(split)) /\ Whole(Reencode(split)) /\ Whole(Space(split))
  BY DEF Relabel, Reencode, Space, Whole
<1>5. Whole(ForgeText(split)) /\ \A to : Whole(MoveMember(split, to))
  BY <1>2 DEF ForgeText, MoveMember
<1> QED
  BY <1>1, <1>3, <1>4, <1>5

LEMMA MakerStays ==
  ASSUME NEW p, MakerInv(p), makers'[p] = makers[p], UNCHANGED <<scenario, source, versions>>
  PROVE  MakerInv(p)'
BY DEF MakerInv

\* What a maker's step does to its own record.
MakerMoves(p, pc) ==
    /\ DOMAIN makers' = Makers /\ \A q \in Makers \ {p} : makers'[q] = makers[q]
    /\ DOMAIN makers'[p] = {"pc", "copy", "staged"} /\ makers'[p].pc = pc
    /\ UNCHANGED <<scenario, source, versions>>

LEMMA StartEffect ==
  ASSUME MakersInv, NEW p \in Makers, Start(p) \/ Fail(p)
  PROVE  \E pc \in {"copy", "refused"} :
            /\ MakerMoves(p, pc) /\ makers'[p].copy = makers[p].copy
            /\ pc = "copy" => makers[p].pc = "start"
<1>1. DOMAIN makers = Makers /\ DOMAIN makers[p] = {"pc", "copy", "staged"}
  BY DEF MakersInv, MakerInv
<1>2. PICK pc \in {"copy", "refused"} :
         /\ makers' = [makers EXCEPT ![p].pc = pc]
         /\ pc = "copy" => makers[p].pc = "start"
  BY DEF Start, Fail
<1> QED
  BY <1>1, <1>2 DEF MakerMoves, Start, Fail

LEMMA StartKeeps ==
  ASSUME MakersInv, NEW p \in Makers, Start(p) \/ Fail(p)
  PROVE  \A q \in Makers : MakerInv(q)'
<1>1. PICK pc \in {"copy", "refused"} :
         /\ MakerMoves(p, pc) /\ makers'[p].copy = makers[p].copy
         /\ pc = "copy" => makers[p].pc = "start"
  BY StartEffect
<1>2. MakerInv(p)'
  BY <1>1 DEF MakersInv, MakerInv, MakerMoves
<1> QED
  BY <1>1, <1>2, MakerStays DEF MakersInv, MakerMoves

LEMMA CopyKeeps ==
  ASSUME SourceInv, MaxSourceEdits \in 0..2, MakersInv, NEW p \in Makers, Copy(p)
  PROVE  \A q \in Makers : MakerInv(q)'
<1> SUFFICES ASSUME NEW copy, copy = CopyStep(makers[p].copy)
             PROVE  \A q \in Makers : MakerInv(q)'
  OBVIOUS
<1>1. DOMAIN makers = Makers /\ DOMAIN makers[p] = {"pc", "copy", "staged"}
      /\ makers[p].pc = "copy" /\ UNCHANGED <<scenario, source, versions>>
  BY DEF MakersInv, MakerInv, Copy
<1>2. CopyInv(copy, source, versions)
  BY <1>1, CopyAdvances DEF MakersInv, MakerInv
<1>3. PICK pc :
         /\ makers' = [makers EXCEPT ![p].copy = copy, ![p].pc = pc]
         /\ pc = CASE copy.step = "copied" -> "stage"
                   [] copy.step = "changed" -> "refused"
                   [] OTHER -> "copy"
  BY DEF Copy
<1>4. MakerMoves(p, pc) /\ makers'[p].copy = copy
  BY <1>1, <1>3 DEF MakerMoves
<1>5. /\ pc \in {"stage", "refused", "copy"}
      /\ pc = "stage" => copy.bytes \in versions
      /\ pc = "copy" => copy.step \in CopySteps
  BY <1>2, <1>3 DEF CopyInv, CopyTyped
<1>6. MakerInv(p)'
  BY <1>2, <1>4, <1>5 DEF MakerInv, MakerMoves
<1> QED
  BY <1>4, <1>6, MakerStays DEF MakersInv, MakerMoves

LEMMA StageKeeps ==
  ASSUME MakersInv, NEW p \in Makers, Stage(p)
  PROVE  \A q \in Makers : MakerInv(q)'
<1>1. DOMAIN makers = Makers /\ DOMAIN makers[p] = {"pc", "copy", "staged"}
      /\ makers[p].pc = "stage" /\ UNCHANGED <<scenario, source, versions>>
  BY DEF MakersInv, MakerInv, Stage
<1>2. makers[p].copy.bytes \in versions
  BY <1>1 DEF MakersInv, MakerInv
<1> DEFINE lines == makers[p].copy.bytes
           out == Materialized(lines, scenario.bucket)
<1>3. CASE makers' = [makers EXCEPT ![p] = [@ EXCEPT !.pc = "refused"]]
  <2>1. MakerMoves(p, "refused") /\ makers'[p].copy = makers[p].copy
    BY <1>1, <1>3 DEF MakerMoves
  <2>2. MakerInv(p)'
    BY <2>1 DEF MakersInv, MakerInv, MakerMoves
  <2> QED
    BY <2>1, <2>2, MakerStays DEF MakersInv, MakerMoves
<1>4. CASE /\ Materializable(lines, scenario.bucket)
           /\ makers' = [makers EXCEPT ![p] = [@ EXCEPT !.pc = "publish", !.staged = out]]
  <2> HIDE DEF out
  <2>1. MakerMoves(p, "publish") /\ makers'[p].copy = makers[p].copy /\ makers'[p].staged = out
    BY <1>1, <1>4 DEF MakerMoves
  <2>2. out = Materialized(lines, scenario.bucket)
    BY DEF out
  <2>3. MakerInv(p)'
    BY <1>2, <1>4, <2>1, <2>2 DEF MakersInv, MakerInv, MakerMoves
  <2> QED
    BY <2>1, <2>3, MakerStays DEF MakersInv, MakerMoves
<1> QED
  BY <1>3, <1>4 DEF Stage

LEMMA PublishKeeps ==
  ASSUME MakersInv, NEW p \in Makers, Publish(p)
  PROVE  /\ \A q \in Makers : MakerInv(q)'
         /\ dest' # Free => Whole(dest')
<1>1. DOMAIN makers = Makers /\ DOMAIN makers[p] = {"pc", "copy", "staged"}
      /\ makers[p].pc = "publish" /\ UNCHANGED <<scenario, source, versions>>
  BY DEF MakersInv, MakerInv, Publish
<1>2. PICK pc \in {"published", "refused"} : makers' = [makers EXCEPT ![p].pc = pc]
  BY DEF Publish
<1>3. MakerMoves(p, pc) /\ makers'[p].copy = makers[p].copy
  BY <1>1, <1>2 DEF MakerMoves
<1>4. MakerInv(p)'
  BY <1>2, <1>3 DEF MakersInv, MakerInv, MakerMoves
<1>5. dest' = dest \/ Whole(dest')
  <2>1. Whole(makers[p].staged)
    BY <1>1, MaterializedIsWhole DEF MakersInv, MakerInv
  <2> QED
    BY <2>1 DEF Publish
<1> QED
  BY <1>3, <1>4, <1>5, MakerStays DEF MakersInv, MakerMoves, Whole

LEMMA EditKeepsMakers ==
  ASSUME SourceInv, MaxSourceEdits \in 0..2, MakersInv, NEW loud \in BOOLEAN, EditSource(loud)
  PROVE  \A p \in Makers : MakerInv(p)'
<1>1. versions \subseteq versions' /\ makers' = makers /\ scenario' = scenario
  BY DEF EditSource
<1>2. SUFFICES ASSUME NEW p \in Makers PROVE MakerInv(p)'
  OBVIOUS
<1>3. CopyInv(makers[p].copy, source, versions)
  BY DEF MakersInv, MakerInv
<1>4. CopyInv(makers[p].copy, source', versions')
  BY <1>3, CopySurvivesEdit
<1> QED
  BY <1>1, <1>4 DEF MakersInv, MakerInv

\* What a step can touch of the source, the makers and the destination.
LEMMA StepKinds ==
  ASSUME [Next]_vars
  PROVE  \/ \E p \in Makers : Start(p) \/ Copy(p) \/ Stage(p) \/ Fail(p) \/ Publish(p)
         \/ \E loud \in BOOLEAN : EditSource(loud)
         \/ Tamper
         \/ UNCHANGED <<scenario, source, versions, dest, makers>>
<1>1. Read => UNCHANGED <<scenario, source, versions, dest, makers>>
  BY DEF Read, CopySource, Open, CopyRest, Use, Release, Conclude, Generate, Exhaust, WriteSidecar
<1>2. \A kind : Begin(kind) => UNCHANGED <<scenario, source, versions, dest, makers>>
  BY DEF Begin
<1>3. MutateTokenizer => UNCHANGED <<scenario, source, versions, dest, makers>>
  BY DEF MutateTokenizer
<1> QED
  BY <1>1, <1>2, <1>3 DEF Next, Work, vars

LEMMA MakersNext ==
  ASSUME SourceInv, MaxSourceEdits \in 0..2, MakersInv, [Next]_vars
  PROVE  MakersInv'
<1>1. ASSUME NEW p \in Makers, Start(p) \/ Copy(p) \/ Stage(p) \/ Fail(p)
      PROVE  MakersInv'
  <2>1. DOMAIN makers' = Makers /\ dest' = dest
    BY <1>1 DEF MakersInv, Start, Copy, Stage, Fail
  <2> QED
    BY <1>1, <2>1, StartKeeps, CopyKeeps, StageKeeps DEF MakersInv
<1>2. ASSUME NEW p \in Makers, Publish(p)
      PROVE  MakersInv'
  <2>1. DOMAIN makers' = Makers
    BY <1>2 DEF MakersInv, Publish
  <2> QED
    BY <1>2, <2>1, PublishKeeps DEF MakersInv, Whole
<1>3. ASSUME NEW loud \in BOOLEAN, EditSource(loud)
      PROVE  MakersInv'
  <2>1. makers' = makers /\ dest' = dest
    BY <1>3 DEF EditSource
  <2> QED
    BY <1>3, <2>1, EditKeepsMakers DEF MakersInv
<1>4. CASE Tamper
  <2>1. makers' = makers /\ UNCHANGED <<scenario, source, versions>> /\ dest # Free
    BY <1>4 DEF Tamper
  <2>2. Whole(dest')
    BY <1>4, <2>1, TamperedIsWhole DEF MakersInv, Whole
  <2> QED
    BY <2>1, <2>2, MakerStays DEF MakersInv, Whole
<1>5. CASE UNCHANGED <<scenario, source, versions, dest, makers>>
  BY <1>5, MakerStays DEF MakersInv
<1> QED
  BY <1>1, <1>2, <1>3, <1>4, <1>5, StepKinds

LEMMA MakersStart == Init => MakersInv
<1> SUFFICES ASSUME Init PROVE MakersInv
  OBVIOUS
<1>1. makers = [p \in Makers |-> NewMaker] /\ dest = Free
  BY DEF Init
<1>2. NewMaker.pc = "start" /\ NewMaker.copy = NoCopy /\ DOMAIN NewMaker = {"pc", "copy", "staged"}
  BY DEF NewMaker
<1>3. CopyInv(NoCopy, source, versions) /\ NoCopy.step \in CopySteps
  BY NewCopyTyped DEF CopyInv, NoCopy
<1> QED
  BY <1>1, <1>2, <1>3 DEF MakersInv, MakerInv

-----------------------------------------------------------------------------
(* Publication is a write to a write-once cell *)

Offered == {<<lines, scenario.bucket>> : lines \in versions}

LEMMA OutcomeMoves ==
  ASSUME MakersInv, NEW p \in Makers, ~Ended(p), NEW pc, MakerMoves(p, pc)
  PROVE  [q \in Makers |-> OutcomeOf(q)]' =
           [[q \in Makers |-> OutcomeOf(q)] EXCEPT
              ![p] = IF pc \in {"published", "refused"} THEN pc ELSE "pending"]
<1>1. \A q \in Makers \ {p} : OutcomeOf(q)' = OutcomeOf(q)
  BY DEF MakerMoves, OutcomeOf, Ended
<1>2. OutcomeOf(p)' = IF pc \in {"published", "refused"} THEN pc ELSE "pending"
  BY DEF MakerMoves, OutcomeOf, Ended
<1> QED
  BY <1>1, <1>2

LEMMA Pending ==
  ASSUME NEW p \in Makers, ~Ended(p)
  PROVE  [q \in Makers |-> OutcomeOf(q)][p] = "pending"
BY DEF OutcomeOf

\* A maker that goes on without ending changes nothing others can see; one that
\* ends without publishing is refused.
LEMMA MovesAreRefusals ==
  ASSUME MakersInv, NEW p \in Makers, ~Ended(p), NEW pc, MakerMoves(p, pc), dest' = dest,
         pc # "published"
  PROVE  Publication!Refuse(p) \/ UNCHANGED Publication!vars
<1>1. Offered' = Offered
  BY DEF MakerMoves, Offered
<1>2. CASE pc = "refused"
  BY <1>1, <1>2, OutcomeMoves, Pending DEF Publication!Refuse, Offered
<1>3. CASE pc # "refused"
  <2>1. [q \in Makers |-> OutcomeOf(q)]' = [q \in Makers |-> OutcomeOf(q)]
    BY <1>3, OutcomeMoves, Pending
  <2> QED
    BY <1>1, <2>1 DEF Publication!vars, Offered
<1> QED
  BY <1>2, <1>3

LEMMA WorkMoves ==
  ASSUME MakersInv, NEW p \in Makers, Start(p) \/ Copy(p) \/ Stage(p) \/ Fail(p)
  PROVE  ~Ended(p) /\ dest' = dest /\ \E pc : pc # "published" /\ MakerMoves(p, pc)
<1>1. DOMAIN makers = Makers /\ DOMAIN makers[p] = {"pc", "copy", "staged"}
  BY DEF MakersInv, MakerInv
<1>2. ~Ended(p) /\ dest' = dest
  BY DEF Start, Copy, Stage, Fail, Ended
<1>3. CASE Start(p) \/ Fail(p)
  BY <1>2, <1>3, StartEffect
<1>4. CASE Copy(p)
  <2>1. PICK copy, pc :
          /\ makers' = [makers EXCEPT ![p].copy = copy, ![p].pc = pc]
          /\ pc # "published" /\ UNCHANGED <<scenario, source, versions>>
    <3> DEFINE copy == CopyStep(makers[p].copy)
               pc == CASE copy.step = "copied" -> "stage"
                       [] copy.step = "changed" -> "refused"
                       [] OTHER -> "copy"
    <3>1. makers' = [makers EXCEPT ![p].copy = copy, ![p].pc = pc]
          /\ UNCHANGED <<scenario, source, versions>>
      BY <1>4 DEF Copy
    <3> HIDE DEF copy
    <3>2. pc # "published"
      OBVIOUS
    <3> HIDE DEF pc
    <3> QED
      BY <3>1, <3>2
  <2>2. MakerMoves(p, pc)
    BY <1>1, <2>1 DEF MakerMoves
  <2> QED
    BY <1>2, <2>1, <2>2
<1>5. CASE Stage(p)
  <2> DEFINE out == Materialized(makers[p].copy.bytes, scenario.bucket)
  <2>1. /\ UNCHANGED <<scenario, source, versions>>
        /\ \/ makers' = [makers EXCEPT ![p] = [@ EXCEPT !.pc = "refused"]]
           \/ makers' = [makers EXCEPT ![p] = [@ EXCEPT !.pc = "publish", !.staged = out]]
    BY <1>5 DEF Stage
  <2> HIDE DEF out
  <2>2. CASE makers' = [makers EXCEPT ![p] = [@ EXCEPT !.pc = "refused"]]
    <3>1. MakerMoves(p, "refused")
      BY <1>1, <2>1, <2>2 DEF MakerMoves
    <3> QED
      BY <1>2, <3>1
  <2>3. CASE makers' = [makers EXCEPT ![p] = [@ EXCEPT !.pc = "publish", !.staged = out]]
    <3>1. MakerMoves(p, "publish")
      BY <1>1, <2>1, <2>3 DEF MakerMoves
    <3> QED
      BY <1>2, <3>1
  <2> QED
    BY <2>1, <2>2, <2>3
<1> QED
  BY <1>3, <1>4, <1>5

\* rename_noreplace over nothing publishes the whole output of one content the
\* source has had; over anything it refuses.
LEMMA PublishMaps ==
  ASSUME MakersInv, NEW p \in Makers, Publish(p)
  PROVE  Publication!Publish(p) \/ Publication!Refuse(p) \/ UNCHANGED Publication!vars
<1>1. /\ DOMAIN makers = Makers /\ DOMAIN makers[p] = {"pc", "copy", "staged"}
      /\ makers[p].pc = "publish" /\ ~Ended(p) /\ UNCHANGED <<scenario, source, versions>>
  BY DEF MakersInv, MakerInv, Publish, Ended
<1>2. CASE dest = Free
  <2>1. makers' = [makers EXCEPT ![p].pc = "published"] /\ dest' = makers[p].staged
    BY <1>2 DEF Publish
  <2>2. MakerMoves(p, "published")
    BY <1>1, <2>1 DEF MakerMoves
  <2>3. PICK lines \in versions :
          /\ Materializable(lines, scenario.bucket)
          /\ dest' = Materialized(lines, scenario.bucket)
    BY <1>1, <2>1 DEF MakersInv, MakerInv
  <2>4. dest' # Free
    BY <2>3, MaterializedIsWhole, WholeIsNotFree
  <2>5. \E input \in Offered : InputMaterializable(input) /\ dest' = InputMaterialized(input)
    <3>1. <<lines, scenario.bucket>> \in Offered
      BY DEF Offered
    <3> QED
      BY <2>3, <3>1 DEF InputMaterializable, InputMaterialized
  <2>6. Offered' = Offered
    BY <1>1 DEF Offered
  <2>7. [q \in Makers |-> OutcomeOf(q)]' =
           [[q \in Makers |-> OutcomeOf(q)] EXCEPT ![p] = "published"]
    BY <1>1, <2>2, OutcomeMoves
  <2> QED
    BY <1>1, <1>2, <2>4, <2>5, <2>6, <2>7, Pending DEF Publication!Publish, Offered
<1>3. CASE dest # Free
  <2>1. makers' = [makers EXCEPT ![p].pc = "refused"] /\ dest' = dest
    BY <1>3 DEF Publish
  <2>2. MakerMoves(p, "refused")
    BY <1>1, <2>1 DEF MakerMoves
  <2> QED
    BY <1>1, <2>1, <2>2, MovesAreRefusals
<1> QED
  BY <1>2, <1>3

LEMMA OutcomesStay ==
  makers' = makers => [p \in Makers |-> OutcomeOf(p)]' = [p \in Makers |-> OutcomeOf(p)]
BY DEF OutcomeOf, Ended

LEMMA StepsArePublication ==
  ASSUME SourceInv, MakersInv, [Next]_vars
  PROVE  [Publication!Next]_(Publication!vars)
<1>1. ASSUME NEW p \in Makers, Start(p) \/ Copy(p) \/ Stage(p) \/ Fail(p)
      PROVE  [Publication!Next]_(Publication!vars)
  BY <1>1, WorkMoves, MovesAreRefusals DEF Publication!Next
<1>2. ASSUME NEW p \in Makers, Publish(p)
      PROVE  [Publication!Next]_(Publication!vars)
  BY <1>2, PublishMaps DEF Publication!Next
<1>3. ASSUME NEW loud \in BOOLEAN, EditSource(loud)
      PROVE  [Publication!Next]_(Publication!vars)
  <2>1. versions \subseteq versions' /\ scenario' = scenario /\ dest' = dest /\ makers' = makers
    BY <1>3 DEF EditSource
  <2>2. Offered \subseteq Offered'
    BY <2>1 DEF Offered
  <2>3. Publication!Offer
    BY <2>1, <2>2, OutcomesStay DEF Publication!Offer, Offered
  <2> QED
    BY <2>3 DEF Publication!Next
<1>4. CASE Tamper
  <2>1. UNCHANGED <<scenario, versions, makers>> /\ dest # Free
    BY <1>4 DEF Tamper
  <2>2. dest' # Free
    BY <1>4, <2>1, TamperedIsWhole, WholeIsNotFree DEF MakersInv, Whole
  <2>3. Publication!Spoil
    BY <2>1, <2>2, OutcomesStay DEF Publication!Spoil
  <2> QED
    BY <2>3 DEF Publication!Next
<1>5. CASE UNCHANGED <<scenario, source, versions, dest, makers>>
  BY <1>5, OutcomesStay DEF Publication!vars
<1> QED
  BY <1>1, <1>2, <1>3, <1>4, <1>5, StepKinds

\* Concurrent materializations of a source that is edited at most twice while
\* they read it publish like a write-once cell: what appears is whole, is the
\* materialization of one content the source has had and not of a mixture, is
\* never replaced, and the losers are refused (rename_noreplace,
\* copy_source_snapshot).  (With a third edit, silent like the others, a copy
\* and the re-hash of the source can read the same mixture.)
THEOREM MaterializationsPublishAtomically ==
  MaxSourceEdits \in 0..2 /\ Spec => PublishesAtomically
<1> SUFFICES ASSUME MaxSourceEdits \in 0..2
             PROVE  Spec => PublishesAtomically
  OBVIOUS
<1>1. Init => Publication!Init
  BY DEF Init, Publication!Init, OutcomeOf, Ended, NewMaker
<1>2. Init => MakersInv
  BY MakersStart
<1>3. SourceInv /\ MakersInv /\ [Next]_vars => MakersInv'
  BY MakersNext
<1>4. SourceInv /\ MakersInv /\ [Next]_vars => [Publication!Next]_(Publication!vars)
  BY StepsArePublication
<1> QED
  BY <1>1, <1>2, <1>3, <1>4, ReaderIsAsFarAsItBelieves, PTL
     DEF Spec, PublishesAtomically, Publication!Spec

\* The published partition loses and invents nothing, and keeps related records
\* together, whatever the source, its edits and the hash: every record is in
\* exactly one artifact, and records related through any chain of lineages,
\* groups and equal content are in the same one (_atomic_components,
\* assign_records).
THEOREM RelatedRecordsStayTogether ==
  MaxSourceEdits \in 0..2 /\ Spec => RelatedStayTogether
<1> SUFFICES ASSUME MaxSourceEdits \in 0..2
             PROVE  Spec => RelatedStayTogether
  OBVIOUS
<1>1. Init => MakersInv
  BY MakersStart
<1>2. SourceInv /\ MakersInv /\ [Next]_vars => MakersInv'
  BY MakersNext
<1>3. SourceInv /\ MakersInv /\ [Next]_vars => [dest = Free /\ dest' # Free => IsPartition(dest')]_dest
  <2> SUFFICES ASSUME SourceInv, MakersInv, [Next]_vars, dest = Free, dest' # Free
               PROVE  IsPartition(dest')
    OBVIOUS
  <2>1. PICK p \in Makers : Publish(p)
    <3>1. \A p \in Makers : Start(p) \/ Copy(p) \/ Stage(p) \/ Fail(p) => dest' = dest
      BY DEF Start, Copy, Stage, Fail
    <3>2. \A loud \in BOOLEAN : EditSource(loud) => dest' = dest
      BY DEF EditSource
    <3>3. Tamper => dest # Free
      BY DEF Tamper
    <3> QED
      BY StepKinds, <3>1, <3>2, <3>3
  <2>2. dest' = makers[p].staged /\ makers[p].pc = "publish"
    BY <2>1 DEF Publish
  <2>3. PICK lines \in versions : Materializable(lines, scenario.bucket)
                                  /\ makers[p].staged = Materialized(lines, scenario.bucket)
    BY <2>2 DEF MakersInv, MakerInv
  <2>4. IsFile(lines) /\ (\A row \in Range(lines) : IsRow(row))
        /\ scenario.bucket \in [Anchors -> Splits]
    BY ScenariosAreTyped DEF SourceInv
  <2>5. IsPartition(Materialized(lines, scenario.bucket))
    BY <2>3, <2>4, MaterializedIsPartition
  <2> QED
    BY <2>2, <2>3, <2>5
<1> QED
  BY <1>1, <1>2, <1>3, ReaderIsAsFarAsItBelieves, PTL DEF Spec, RelatedStayTogether

-----------------------------------------------------------------------------
(* A snapshot nobody touches *)

Original == scenario.source
Expected == Materialized(Original, scenario.bucket)
Rightful == Expected.manifest

\* A copy of the unchanged source, at each step.
CleanCopy(copy) ==
    /\ DOMAIN copy = {"step", "stamp", "bytes", "live"}
    /\ copy.step \in CopySteps
    /\ copy.step # "open" => copy.stamp = 0
    /\ copy.step = "rest" => copy.bytes = FirstChunk(Original)
    /\ copy.step \in {"identity", "rehash", "rehash_rest"} => copy.bytes = Original
    /\ copy.step = "rehash_rest" => copy.live = FirstChunk(Original)

IsPublished(content) == content = Expected /\ Materializable(Original, scenario.bucket)

CalmMaker(p) ==
    /\ DOMAIN makers[p] = {"pc", "copy", "staged"}
    /\ makers[p].pc = "start" => makers[p].copy = NoCopy
    /\ makers[p].pc = "copy" => CleanCopy(makers[p].copy)
    /\ makers[p].pc = "stage" => makers[p].copy.bytes = Original
    /\ makers[p].pc = "publish" => IsPublished(makers[p].staged)

\* Neither the source, nor the snapshot, nor the tokenizer has been changed.
Calm == tampers = 0 /\ source.edits = 0

\* The circumstances under which a reader of the kind has nothing to object to.
Favoured(kind) ==
    /\ scenario.writable
    /\ kind = "stats" => Derivable(scenario.tokenizer)
    /\ Unbroken(Original)
    /\ kind # "source" => \A k \in DOMAIN Original : Original[k].canonical

\* A reader that has objected to nothing, and what it holds at each point.
CalmReader ==
    /\ reader.pc # "rejected"
    /\ reader.pc # "idle" => dest # Free /\ reader.manifest = Rightful
    /\ reader.pc = "source" => CleanCopy(reader.copy)
    /\ reader.pc \in {"rest", "verify", "release"} => reader.stamp = 0
    /\ reader.pc = "rest" => reader.rows = FirstChunk(Rightful.digests[Head(reader.todo)])
    /\ reader.pc = "verify" => reader.rows = Rightful.digests[Head(reader.todo)]
    /\ reader.pc # "idle" /\ reader.kind = "stats" => reader.spec = Provenance(tokenizer)

CalmMakers == DOMAIN makers = Makers /\ \A p \in Makers : CalmMaker(p)

Undisturbed ==
    /\ source.lines = Original /\ source.stamp = 0 /\ tokenizer = scenario.tokenizer
    /\ CalmMakers
    /\ dest # Free => IsPublished(dest)
    /\ Favoured(reader.kind) => CalmReader

CalmInv == TamperInv /\ (Calm => Undisturbed)

LEMMA NewCopyIsClean == CleanCopy(NoCopy)
BY DEF CleanCopy, NoCopy, CopySteps

\* A copy of an unchanged source goes through, and is the source.
LEMMA CleanCopyGoesOn ==
  ASSUME SourceInv, source.lines = Original, source.stamp = 0, NEW copy, CleanCopy(copy)
  PROVE  LET next == CopyStep(copy)
         IN  /\ DOMAIN next = {"step", "stamp", "bytes", "live"}
             /\ CleanCopy(next) \/ (next.step = "copied" /\ next.bytes = Original)
<1> DEFINE first == FirstChunk(Original)
           last == LastChunk(Original)
           next == CopyStep(copy)
<1>1. first \o last = Original
  <2>1. IsFile(Original)
    BY DEF SourceInv
  <2> QED
    BY <2>1, Chunks
<1>2. FirstChunk(source.lines) = first /\ LastChunk(source.lines) = last
  OBVIOUS
<1> HIDE DEF first, last
<1>3. DOMAIN copy = {"step", "stamp", "bytes", "live"} /\ copy.step \in CopySteps
  BY DEF CleanCopy
<1>4. CASE copy.step = "open"
  <2>1. next = [copy EXCEPT !.step = "rest", !.stamp = 0, !.bytes = first]
    BY <1>2, <1>4 DEF CopyStep
  <2>2. /\ DOMAIN next = {"step", "stamp", "bytes", "live"} /\ next.step = "rest"
        /\ next.stamp = 0 /\ next.bytes = first
    BY <1>3, <2>1
  <2> HIDE DEF next
  <2>3. CleanCopy(next)
    BY <2>2 DEF CleanCopy, CopySteps, first
  <2> QED
    BY <2>2, <2>3 DEF next
<1>5. CASE copy.step = "rest"
  <2>1. next = [copy EXCEPT !.step = "identity", !.bytes = copy.bytes \o last]
    BY <1>2, <1>3, <1>5 DEF CopyStep
  <2>2. copy.bytes = first /\ copy.stamp = 0
    BY <1>5 DEF CleanCopy, first
  <2>3. DOMAIN next = DOMAIN copy /\ next.step = "identity" /\ next.stamp = 0 /\ next.bytes = Original
    BY <1>1, <1>3, <2>1, <2>2
  <2> HIDE DEF next
  <2>4. CleanCopy(next)
    BY <1>3, <2>3 DEF CleanCopy, CopySteps
  <2> QED
    BY <1>3, <2>3, <2>4 DEF next
<1>6. CASE copy.step = "identity"
  <2>1. copy.stamp = 0 /\ copy.bytes = Original
    BY <1>6 DEF CleanCopy
  <2>2. next = [copy EXCEPT !.step = "rehash"]
    BY <1>6, <2>1 DEF CopyStep
  <2>3. DOMAIN next = DOMAIN copy /\ next.step = "rehash" /\ next.stamp = 0 /\ next.bytes = Original
    BY <1>3, <2>1, <2>2
  <2> HIDE DEF next
  <2>4. CleanCopy(next)
    BY <1>3, <2>3 DEF CleanCopy, CopySteps
  <2> QED
    BY <1>3, <2>3, <2>4 DEF next
<1>7. CASE copy.step = "rehash"
  <2>1. copy.stamp = 0 /\ copy.bytes = Original
    BY <1>7 DEF CleanCopy
  <2>2. next = [copy EXCEPT !.step = "rehash_rest", !.live = first]
    BY <1>2, <1>7 DEF CopyStep
  <2>3. /\ DOMAIN next = DOMAIN copy /\ next.step = "rehash_rest" /\ next.stamp = 0
        /\ next.bytes = Original /\ next.live = first
    BY <1>3, <2>1, <2>2
  <2> HIDE DEF next
  <2>4. CleanCopy(next)
    BY <1>3, <2>3 DEF CleanCopy, CopySteps, first
  <2> QED
    BY <1>3, <2>3, <2>4 DEF next
<1>8. CASE copy.step = "rehash_rest"
  <2>1. copy.bytes = Original /\ copy.live = first
    BY <1>8 DEF CleanCopy, first
  <2>2. next = [copy EXCEPT !.live = copy.live \o last,
                            !.step = IF copy.bytes = copy.live \o last THEN "copied" ELSE "changed"]
    BY <1>2, <1>3, <1>8 DEF CopyStep
  <2>3. next = [copy EXCEPT !.live = Original, !.step = "copied"]
    BY <1>1, <2>1, <2>2
  <2>4. DOMAIN next = DOMAIN copy /\ next.step = "copied" /\ next.bytes = Original
    BY <1>3, <2>1, <2>3
  <2> QED
    BY <1>3, <2>4
<1> QED
  BY <1>3, <1>4, <1>5, <1>6, <1>7, <1>8 DEF CopySteps

\* What a published snapshot has, whoever reads it.
LEMMA PublishedIsSound ==
  ASSUME SourceInv, Materializable(Original, scenario.bucket)
  PROVE  Sound(Original, scenario.bucket)
BY ScenariosAreTyped DEF SourceInv, Original, Sound

\* An artifact of it, as it lies in the directory.
LEMMA PublishedFile ==
  ASSUME SourceInv, IsPublished(dest), NEW split \in Splits
  PROVE  dest.files[split].rows = Rightful.digests[split] /\ dest.files[split].stamp = 0
BY DEF IsPublished, Rightful, Expected, Materialized

-----------------------------------------------------------------------------
(* The makers, while nothing changes *)

LEMMA CalmMakerStays ==
  ASSUME NEW p, CalmMaker(p), makers'[p] = makers[p], scenario' = scenario
  PROVE  CalmMaker(p)'
BY DEF CalmMaker, CleanCopy, IsPublished, Expected, Original

LEMMA CalmWork ==
  ASSUME SourceInv, source.lines = Original, source.stamp = 0, CalmMakers,
         dest # Free => IsPublished(dest),
         NEW p \in Makers, Work(p) \/ Fail(p)
  PROVE  /\ CalmMakers' /\ UNCHANGED <<scenario, source, reader, tokenizer, tampers>>
         /\ dest' # Free => IsPublished(dest')
         /\ dest # Free => dest' = dest
<1>1. DOMAIN makers = Makers /\ DOMAIN makers[p] = {"pc", "copy", "staged"} /\ CalmMaker(p)
  BY DEF CalmMakers, CalmMaker
<1>2. UNCHANGED <<scenario, source, reader, tokenizer, tampers>>
  BY DEF Work, Start, Copy, Stage, Publish, Fail
<1>3. SUFFICES /\ DOMAIN makers' = Makers /\ \A q \in Makers \ {p} : makers'[q] = makers[q]
               /\ CalmMaker(p)'
               /\ dest' # Free => IsPublished(dest')
               /\ dest # Free => dest' = dest
  BY <1>2, CalmMakerStays DEF CalmMakers
<1>4. IsPublished(dest)' <=> IsPublished(dest')
  BY <1>2 DEF IsPublished, Expected, Original
<1>5. CASE Start(p) \/ Fail(p)
  <2>1. PICK pc \in {"copy", "refused"} :
           /\ makers' = [makers EXCEPT ![p].pc = pc]
           /\ pc = "copy" => makers[p].pc = "start"
    BY <1>5 DEF Start, Fail
  <2>2. /\ DOMAIN makers' = Makers /\ \A q \in Makers \ {p} : makers'[q] = makers[q]
        /\ DOMAIN makers'[p] = {"pc", "copy", "staged"} /\ makers'[p].pc = pc
        /\ makers'[p].copy = makers[p].copy
    BY <1>1, <2>1
  <2>3. pc = "copy" => CleanCopy(makers'[p].copy)
    BY <1>1, <2>1, <2>2, NewCopyIsClean DEF CalmMaker
  <2>4. CalmMaker(p)'
    BY <1>2, <2>2, <2>3 DEF CalmMaker, CleanCopy, Original
  <2>5. dest' = dest
    BY <1>5 DEF Start, Fail
  <2> QED
    BY <2>2, <2>4, <2>5
<1>6. CASE Copy(p)
  <2> DEFINE copy == CopyStep(makers[p].copy)
  <2>1. CleanCopy(copy) \/ (copy.step = "copied" /\ copy.bytes = Original)
    BY <1>1, <1>6, CleanCopyGoesOn DEF CalmMaker, Copy
  <2> HIDE DEF copy
  <2>2. PICK pc : /\ makers' = [makers EXCEPT ![p].copy = copy, ![p].pc = pc]
                  /\ pc = CASE copy.step = "copied" -> "stage"
                            [] copy.step = "changed" -> "refused"
                            [] OTHER -> "copy"
    BY <1>6 DEF Copy, copy
  <2>3. /\ DOMAIN makers' = Makers /\ \A q \in Makers \ {p} : makers'[q] = makers[q]
        /\ DOMAIN makers'[p] = {"pc", "copy", "staged"} /\ makers'[p].pc = pc
        /\ makers'[p].copy = copy
    BY <1>1, <2>2
  <2>4. \/ pc = "stage" /\ copy.bytes = Original
        \/ pc = "copy" /\ CleanCopy(copy)
    BY <2>1, <2>2 DEF CleanCopy, CopySteps
  <2>5. CalmMaker(p)'
    BY <1>2, <2>3, <2>4 DEF CalmMaker, CleanCopy, Original
  <2>6. dest' = dest
    BY <1>6 DEF Copy
  <2> QED
    BY <2>3, <2>5, <2>6
<1>7. CASE Stage(p)
  <2>1. makers[p].pc = "stage" /\ makers[p].copy.bytes = Original /\ dest' = dest
    BY <1>1, <1>7 DEF CalmMaker, Stage
  <2>2. CASE makers' = [makers EXCEPT ![p] = [@ EXCEPT !.pc = "refused"]]
    <3>1. /\ DOMAIN makers' = Makers /\ \A q \in Makers \ {p} : makers'[q] = makers[q]
          /\ DOMAIN makers'[p] = {"pc", "copy", "staged"} /\ makers'[p].pc = "refused"
      BY <1>1, <2>2
    <3>2. CalmMaker(p)'
      BY <3>1 DEF CalmMaker
    <3> QED
      BY <2>1, <3>1, <3>2
  <2>3. CASE /\ Materializable(Original, scenario.bucket)
             /\ makers' = [makers EXCEPT ![p] = [@ EXCEPT !.pc = "publish", !.staged = Expected]]
    <3>1. /\ DOMAIN makers' = Makers /\ \A q \in Makers \ {p} : makers'[q] = makers[q]
          /\ DOMAIN makers'[p] = {"pc", "copy", "staged"} /\ makers'[p].pc = "publish"
          /\ makers'[p].staged = Expected
      BY <1>1, <2>3
    <3>2. CalmMaker(p)'
      BY <1>2, <2>3, <3>1 DEF CalmMaker, IsPublished, Expected, Original
    <3> QED
      BY <2>1, <3>1, <3>2
  <2> QED
    BY <1>7, <2>1, <2>2, <2>3 DEF Stage, Expected
<1>8. CASE Publish(p)
  <2>1. makers[p].pc = "publish" /\ IsPublished(makers[p].staged)
    BY <1>1, <1>8 DEF CalmMaker, Publish
  <2>2. PICK pc \in {"published", "refused"} : makers' = [makers EXCEPT ![p].pc = pc]
    BY <1>8 DEF Publish
  <2>3. /\ DOMAIN makers' = Makers /\ \A q \in Makers \ {p} : makers'[q] = makers[q]
        /\ DOMAIN makers'[p] = {"pc", "copy", "staged"} /\ makers'[p].pc = pc
    BY <1>1, <2>2
  <2>4. CalmMaker(p)'
    BY <2>3 DEF CalmMaker
  <2>5. dest' = makers[p].staged \/ dest' = dest
    BY <1>8 DEF Publish
  <2>6. dest # Free => dest' = dest
    BY <1>8 DEF Publish
  <2> QED
    BY <2>1, <2>3, <2>4, <2>5, <2>6
<1> QED
  BY <1>5, <1>6, <1>7, <1>8 DEF Work

-----------------------------------------------------------------------------
(* The reader, while nothing changes *)

\* What a reader of the kind looks at, and finds in order.
InOrderFor(kind) ==
    /\ dest.manifest = Rightful /\ SchemaHolds(Rightful) /\ SourceMatches(Rightful, Original)
    /\ AuditPasses(Rightful.splits) /\ OwnershipHolds(Rightful, InSplitOrder(Rightful))
    /\ \A split \in Splits :
          /\ dest.files[split].rows = Rightful.digests[split] /\ dest.files[split].stamp = 0
          /\ IsFile(Rightful.digests[split])
          /\ ArtifactMatches(Rightful, split, Rightful.digests[split], kind = "source")
          /\ BoundsHold(CountsOf(RecordsOf(Rightful.digests[split]), tokenizer.behaviour))

LEMMA AllIsInOrder ==
  ASSUME SourceInv, Undisturbed, dest # Free, NEW kind, Favoured(kind)
  PROVE  InOrderFor(kind)
<1>1. IsPublished(dest) /\ Sound(Original, scenario.bucket) /\ Unbroken(Original)
  BY PublishedIsSound DEF Undisturbed, IsPublished, Favoured
<1>2. Rightful = Materialized(Original, scenario.bucket).manifest
  BY DEF Rightful, Expected
<1>3. dest.manifest = Rightful
  BY <1>1 DEF IsPublished, Rightful
<1>4. SchemaHolds(Rightful) /\ SourceMatches(Rightful, Original) /\ AuditPasses(Rightful.splits)
  BY <1>1, <1>2, MaterializedSchema, MaterializedSource, MaterializedAudit
<1>5. OwnershipHolds(Rightful, InSplitOrder(Rightful))
  BY <1>1, <1>2, MaterializedOwnership
<1>6. ASSUME NEW split \in Splits
      PROVE  /\ dest.files[split].rows = Rightful.digests[split] /\ dest.files[split].stamp = 0
             /\ IsFile(Rightful.digests[split])
             /\ ArtifactMatches(Rightful, split, Rightful.digests[split], kind = "source")
             /\ BoundsHold(CountsOf(RecordsOf(Rightful.digests[split]), tokenizer.behaviour))
  <2>1. dest.files[split].rows = Rightful.digests[split] /\ dest.files[split].stamp = 0
    BY <1>1, PublishedFile
  <2>2. IsFile(Rightful.digests[split])
    BY <1>1, <1>2, ArtifactOfSplit
  <2>3. (kind = "source") \/ \A k \in DOMAIN Original : Original[k].canonical
    BY DEF Favoured
  <2>4. ArtifactMatches(Rightful, split, Rightful.digests[split], kind = "source")
    BY <1>1, <1>2, <2>3, MaterializedArtifact
  <2>5. scenario \in Scenarios /\ tokenizer \in Tokenizers
    BY ScenariosAreTyped DEF SourceInv, Undisturbed
  <2>6. BoundsHold(CountsOf(RecordsOf(Materialized(scenario.source, scenario.bucket).manifest.digests[split]),
                            tokenizer.behaviour))
    BY <1>1, <2>5, MaterializedCounts DEF Original
  <2> QED
    BY <1>2, <2>1, <2>2, <2>4, <2>6 DEF Original
<1> QED
  BY <1>3, <1>4, <1>5, <1>6 DEF InOrderFor

\* A reader that goes on without objecting.
LEMMA CalmGoesOn ==
  ASSUME reader.pc # "idle", CalmReader, UNCHANGED <<scenario, dest, tokenizer>>,
         reader'.kind = reader.kind, reader'.manifest = reader.manifest, reader'.spec = reader.spec,
         reader'.pc \notin {"idle", "rejected"},
         reader'.pc = "source" => CleanCopy(reader'.copy),
         reader'.pc \in {"rest", "verify", "release"} => reader'.stamp = 0,
         reader'.pc = "rest" => reader'.rows = FirstChunk(Rightful.digests[Head(reader'.todo)]),
         reader'.pc = "verify" => reader'.rows = Rightful.digests[Head(reader'.todo)]
  PROVE  CalmReader'
<1>1. Rightful' = Rightful /\ (CleanCopy(reader.copy)' <=> CleanCopy(reader'.copy))
  BY DEF Rightful, Expected, CleanCopy, Original
<1> QED
  BY <1>1 DEF CalmReader

\* The next artifact.
LEMMA NextArtifact ==
  ASSUME ReaderInv, reader.pc \in Visiting, reader.todo # <<>>
  PROVE  Head(reader.todo) \in Splits
<1>1. reader.todo \in {SplitOrder, <<"validation", "held_out">>, <<"held_out">>, <<"train">>}
  BY DEF ReaderInv, TodoHeld, Remaining
<1>2. /\ Head(SplitOrder) = "train" /\ Head(<<"validation", "held_out">>) = "validation"
      /\ Head(<<"held_out">>) = "held_out" /\ Head(<<"train">>) = "train"
  BY DEF SplitOrder
<1> QED
  BY <1>1, <1>2 DEF Splits

\* A phase entered on the published manifest.
LEMMA CalmEnter ==
  ASSUME NEW r, DOMAIN r = ReaderFields, NEW phase, SchemaHolds(Rightful)
  PROVE  LET e == Enter(r, phase, Rightful)
         IN  /\ e.pc = (IF r.kind = "source" THEN "source" ELSE "visit")
             /\ e.kind = r.kind /\ e.manifest = Rightful /\ e.spec = r.spec /\ e.copy = r.copy
<1> DEFINE e == Enter(r, phase, Rightful)
           todo == Visits(phase)
<1>1. e = [r EXCEPT !.phase = phase, !.manifest = Rightful, !.todo = todo,
                    !.pc = IF r.kind = "source" THEN "source" ELSE "visit"]
  BY DEF Enter
<1> HIDE DEF todo
<1>2. "pc" \in DOMAIN r /\ "kind" \in DOMAIN r /\ "manifest" \in DOMAIN r /\ "spec" \in DOMAIN r
      /\ "copy" \in DOMAIN r
  BY DEF ReaderFields
<1> QED
  BY <1>1, <1>2

LEMMA CalmBegin ==
  ASSUME SourceInv, ReaderInv, Undisturbed, NEW kind \in Kinds, Begin(kind), Favoured(reader'.kind)
  PROVE  CalmReader'
<1> DEFINE spec == IF kind = "stats" THEN Provenance(tokenizer) ELSE None
           r == [reader EXCEPT !.kind = kind, !.spec = spec]
<1>1. /\ reader = NewReader /\ dest # Free /\ UNCHANGED <<scenario, dest, tokenizer>>
      /\ DOMAIN reader = ReaderFields
  BY DEF Begin, ReaderInv, ReaderType
<1>2. reader'.kind = kind
  <2>1. CASE reader' = [Rejects EXCEPT !.kind = kind]
    BY <1>1, <2>1 DEF Rejects, ReaderFields
  <2>2. CASE reader' = Enter(r, "validate", dest.manifest)
    BY <1>1, <2>2 DEF Enter, ReaderFields
  <2> QED
    BY <2>1, <2>2 DEF Begin
<1>3. Favoured(kind)
  BY <1>2
<1>4. InOrderFor(kind) /\ dest.manifest = Rightful /\ SchemaHolds(Rightful)
  BY <1>1, <1>3, AllIsInOrder DEF InOrderFor
<1>5. kind = "stats" => Derivable(tokenizer)
  BY <1>3 DEF Favoured, Undisturbed
<1>6. reader' = Enter(r, "validate", Rightful)
  BY <1>4, <1>5 DEF Begin
<1>7. /\ DOMAIN r = ReaderFields /\ r.kind = kind /\ r.copy = NoCopy
      /\ kind = "stats" => r.spec = Provenance(tokenizer)
  BY <1>1 DEF ReaderFields, NewReader
<1> HIDE DEF r
<1>8. /\ reader'.pc = (IF kind = "source" THEN "source" ELSE "visit")
      /\ reader'.manifest = Rightful /\ reader'.copy = NoCopy
      /\ kind = "stats" => reader'.spec = Provenance(tokenizer)
  BY <1>4, <1>6, <1>7, CalmEnter
<1>9. Rightful' = Rightful /\ CleanCopy(NoCopy)' /\ Provenance(tokenizer)' = Provenance(tokenizer)
  BY <1>1, NewCopyIsClean DEF Rightful, Expected, CleanCopy, Original, NoCopy, CopySteps
<1>10. CleanCopy(reader.copy)'
  BY <1>8, <1>9
<1> QED
  BY <1>1, <1>2, <1>8, <1>9, <1>10 DEF CalmReader

\* The circumstances of the reader's other steps.
Unhindered ==
    /\ SourceInv /\ ReaderInv /\ Undisturbed /\ Favoured(reader.kind) /\ reader.pc # "idle"

LEMMA UnhinderedReader ==
  ASSUME Unhindered
  PROVE  /\ CalmReader /\ InOrderFor(reader.kind) /\ scenario.writable
         /\ reader.manifest = Rightful /\ DOMAIN reader = ReaderFields
<1>1. CalmReader /\ dest # Free
  BY DEF Unhindered, Undisturbed, CalmReader
<1> QED
  BY <1>1, AllIsInOrder DEF Unhindered, Undisturbed, CalmReader, Favoured, ReaderInv, ReaderType

LEMMA CalmCopySource ==
  ASSUME Unhindered, CopySource
  PROVE  CalmReader' /\ reader'.kind = reader.kind
<1> DEFINE copy == CopyStep(reader.copy)
<1>1. /\ reader.pc = "source" /\ UNCHANGED <<scenario, dest, tokenizer>>
      /\ CalmReader /\ CleanCopy(reader.copy) /\ DOMAIN reader = ReaderFields
      /\ SourceMatches(reader.manifest, Original) /\ scenario.writable
  BY UnhinderedReader DEF CopySource, CalmReader, InOrderFor
<1>2. CleanCopy(copy) \/ (copy.step = "copied" /\ copy.bytes = Original)
  BY <1>1, CleanCopyGoesOn DEF Unhindered, Undisturbed
<1>3. /\ reader' = CASE copy.step = "changed" \/ ~StagingWritable -> Rejects
                     [] copy.step = "copied" ->
                          IF SourceMatches(reader.manifest, copy.bytes)
                          THEN [reader EXCEPT !.copy = copy, !.pc = "visit"] ELSE Rejects
                     [] OTHER -> [reader EXCEPT !.copy = copy]
  BY DEF CopySource
<1> HIDE DEF copy
<1>4. CASE CleanCopy(copy)
  <2>1. copy.step \notin {"changed", "copied"}
    BY <1>4 DEF CleanCopy, CopySteps
  <2>2. reader' = [reader EXCEPT !.copy = copy]
    BY <1>1, <1>3, <2>1 DEF StagingWritable
  <2>3. /\ reader'.pc = "source" /\ reader'.kind = reader.kind /\ reader'.manifest = reader.manifest
        /\ reader'.spec = reader.spec /\ reader'.copy = copy
    BY <1>1, <2>2 DEF ReaderFields
  <2> QED
    BY <1>1, <1>4, <2>3, CalmGoesOn
<1>5. CASE copy.step = "copied" /\ copy.bytes = Original
  <2>1. reader' = [reader EXCEPT !.copy = copy, !.pc = "visit"]
    BY <1>1, <1>3, <1>5 DEF StagingWritable
  <2>2. /\ reader'.pc = "visit" /\ reader'.kind = reader.kind /\ reader'.manifest = reader.manifest
        /\ reader'.spec = reader.spec
    BY <1>1, <2>1 DEF ReaderFields
  <2> QED
    BY <1>1, <2>2, CalmGoesOn
<1> QED
  BY <1>2, <1>4, <1>5

\* The artifact the reader is at.
LEMMA CalmFile ==
  ASSUME Unhindered, reader.pc \in Visiting, reader.todo # <<>>
  PROVE  /\ Head(reader.todo) \in Splits
         /\ Live.rows = Rightful.digests[Head(reader.todo)] /\ Live.stamp = 0
         /\ FirstChunk(Live.rows) \o LastChunk(Live.rows) = Rightful.digests[Head(reader.todo)]
<1>1. Head(reader.todo) \in Splits
  BY NextArtifact DEF Unhindered
<1>2. /\ Live.rows = Rightful.digests[Head(reader.todo)] /\ Live.stamp = 0
      /\ IsFile(Rightful.digests[Head(reader.todo)])
  BY <1>1, UnhinderedReader DEF InOrderFor, Live
<1> QED
  BY <1>1, <1>2, Chunks

LEMMA CalmOpen ==
  ASSUME Unhindered, Open
  PROVE  CalmReader' /\ reader'.kind = reader.kind
<1>1. /\ reader.pc = "visit" /\ reader.todo # <<>> /\ UNCHANGED <<scenario, dest, tokenizer>>
      /\ CalmReader /\ DOMAIN reader = ReaderFields
      /\ reader' = [reader EXCEPT !.pc = "rest", !.stamp = Live.stamp,
                                  !.rows = FirstChunk(Live.rows)]
  BY UnhinderedReader DEF Open, StagingWritable
<1>2. /\ Live.rows = Rightful.digests[Head(reader.todo)] /\ Live.stamp = 0
  BY <1>1, CalmFile DEF Visiting
<1>3. /\ reader'.pc = "rest" /\ reader'.kind = reader.kind /\ reader'.manifest = reader.manifest
      /\ reader'.spec = reader.spec /\ reader'.todo = reader.todo
      /\ reader'.stamp = 0 /\ reader'.rows = FirstChunk(Rightful.digests[Head(reader.todo)])
  BY <1>1, <1>2 DEF ReaderFields
<1> QED
  BY <1>1, <1>3, CalmGoesOn

LEMMA CalmCopyRest ==
  ASSUME Unhindered, CopyRest
  PROVE  CalmReader' /\ reader'.kind = reader.kind
<1> DEFINE last == LastChunk(Live.rows)
           digest == Rightful.digests[Head(reader.todo)]
<1>1. /\ reader.pc = "rest" /\ reader.todo # <<>> /\ UNCHANGED <<scenario, dest, tokenizer>>
      /\ CalmReader /\ DOMAIN reader = ReaderFields
      /\ reader' = [reader EXCEPT !.pc = "verify", !.rows = @ \o last]
  BY UnhinderedReader DEF CopyRest, Unhindered, ReaderInv, TodoHeld, Visiting
<1>2. reader.rows \o last = digest /\ reader.stamp = 0
  BY <1>1, CalmFile DEF Visiting, CalmReader
<1> HIDE DEF last
<1>3. /\ reader'.pc = "verify" /\ reader'.kind = reader.kind /\ reader'.manifest = reader.manifest
      /\ reader'.spec = reader.spec /\ reader'.todo = reader.todo
      /\ reader'.stamp = reader.stamp /\ reader'.rows = reader.rows \o last
  BY <1>1 DEF ReaderFields
<1> QED
  BY <1>1, <1>2, <1>3, CalmGoesOn

LEMMA CalmUse ==
  ASSUME Unhindered, Use
  PROVE  CalmReader' /\ reader'.kind = reader.kind
<1> DEFINE split == Head(reader.todo)
           used == [reader EXCEPT !.pc = "release"]
           counts == CountsOf(RecordsOf(reader.rows), tokenizer.behaviour)
<1>1. /\ reader.pc = "verify" /\ reader.todo # <<>> /\ UNCHANGED <<scenario, dest, tokenizer>>
      /\ CalmReader /\ DOMAIN reader = ReaderFields /\ reader.manifest = Rightful
      /\ reader.phase \in {"validate", "load", "count"}
  BY UnhinderedReader DEF Use, Unhindered, ReaderInv, TodoHeld, ReaderType, Visiting
<1>2. /\ split \in Splits /\ Live.stamp = 0
      /\ reader.stamp = 0 /\ reader.rows = Rightful.digests[split]
  BY <1>1, CalmFile DEF Visiting, CalmReader
<1>3. /\ ArtifactMatches(reader.manifest, split, reader.rows, reader.kind = "source")
      /\ BoundsHold(counts)
  BY <1>1, <1>2, UnhinderedReader DEF InOrderFor
<1>4. reader' = CASE reader.phase = "validate" -> used
                  [] reader.phase = "load" -> [used EXCEPT !.out = RecordsOf(reader.rows)]
                  [] reader.phase = "count" -> [used EXCEPT !.counts = Append(@, counts)]
  <2> HIDE DEF counts
  <2>1. reader.stamp = Live.stamp /\ reader.rows = reader.manifest.digests[split]
    BY <1>1, <1>2
  <2> QED
    BY <1>1, <1>3, <2>1 DEF Use, counts
<1> HIDE DEF counts, split
<1>5. /\ reader'.pc = "release" /\ reader'.kind = reader.kind /\ reader'.manifest = reader.manifest
      /\ reader'.spec = reader.spec /\ reader'.stamp = reader.stamp
  BY <1>1, <1>4 DEF ReaderFields
<1> QED
  BY <1>1, <1>2, <1>5, CalmGoesOn

LEMMA CalmRelease ==
  ASSUME Unhindered, Release
  PROVE  CalmReader' /\ reader'.kind = reader.kind
<1>1. /\ reader.pc = "release" /\ reader.todo # <<>> /\ UNCHANGED <<scenario, dest, tokenizer>>
      /\ CalmReader /\ DOMAIN reader = ReaderFields
  BY UnhinderedReader DEF Release, Unhindered, ReaderInv, TodoHeld, Visiting
<1>2. Live.stamp = 0 /\ reader.stamp = 0
  BY <1>1, CalmFile DEF Visiting, CalmReader
<1>3. reader' = [reader EXCEPT !.pc = "visit", !.todo = Tail(@)]
  BY <1>2 DEF Release
<1>4. /\ reader'.pc = "visit" /\ reader'.kind = reader.kind /\ reader'.manifest = reader.manifest
      /\ reader'.spec = reader.spec
  BY <1>1, <1>3 DEF ReaderFields
<1> QED
  BY <1>1, <1>4, CalmGoesOn

\* A later phase, which is never the first of a reader with a source.
LEMMA CalmPhase ==
  ASSUME Unhindered, reader.kind # "source", NEW phase, reader' = Enter(reader, phase, Rightful),
         UNCHANGED <<scenario, dest, tokenizer>>
  PROVE  CalmReader' /\ reader'.kind = reader.kind
<1>1. /\ CalmReader /\ DOMAIN reader = ReaderFields /\ SchemaHolds(Rightful)
      /\ reader.manifest = Rightful
  BY UnhinderedReader DEF InOrderFor
<1>2. /\ reader'.pc = "visit" /\ reader'.kind = reader.kind /\ reader'.manifest = reader.manifest
      /\ reader'.spec = reader.spec
  BY <1>1, CalmEnter
<1> QED
  BY <1>1, <1>2, CalmGoesOn DEF Unhindered

LEMMA CalmConclude ==
  ASSUME Unhindered, Conclude
  PROVE  CalmReader' /\ reader'.kind = reader.kind
<1>1. /\ reader.pc = "visit" /\ UNCHANGED <<scenario, dest, tokenizer>>
      /\ CalmReader /\ DOMAIN reader = ReaderFields /\ reader.manifest = Rightful
      /\ reader.kind \in Kinds
  BY UnhinderedReader DEF Conclude, Unhindered, ReaderInv, ReaderType
<1>2. /\ AuditPasses(reader.manifest.splits)
      /\ OwnershipHolds(reader.manifest, InSplitOrder(reader.manifest))
  BY <1>1, UnhinderedReader DEF InOrderFor
<1>3. reader' = CASE reader.kind \in {"source", "bare"} -> [reader EXCEPT !.pc = "accepted"]
                  [] reader.kind = "load" ->
                       IF reader.bound = None
                       THEN [reader EXCEPT !.pc = "generate", !.bound = reader.manifest]
                       ELSE Enter(reader, "load", reader.manifest)
                  [] reader.kind = "stats" -> Enter(reader, "count", reader.manifest)
  BY <1>2 DEF Conclude
<1>4. CASE reader.kind \in {"source", "bare"} \/ (reader.kind = "load" /\ reader.bound = None)
  <2>1. /\ reader'.pc \in {"accepted", "generate"} /\ reader'.kind = reader.kind
        /\ reader'.manifest = reader.manifest /\ reader'.spec = reader.spec
    BY <1>1, <1>3, <1>4 DEF ReaderFields
  <2> QED
    BY <1>1, <2>1, CalmGoesOn
<1>5. CASE reader.kind = "stats" \/ (reader.kind = "load" /\ reader.bound # None)
  <2>1. \E phase : reader' = Enter(reader, phase, Rightful)
    BY <1>1, <1>3, <1>5
  <2> QED
    BY <1>1, <1>5, <2>1, CalmPhase
<1> QED
  BY <1>1, <1>4, <1>5 DEF Kinds

LEMMA CalmGenerate ==
  ASSUME Unhindered, Generate
  PROVE  CalmReader' /\ reader'.kind = reader.kind
<1>1. /\ reader.pc = "generate" /\ UNCHANGED <<scenario, dest, tokenizer>>
      /\ reader.manifest = Rightful /\ dest.manifest = Rightful
  BY UnhinderedReader DEF Generate, InOrderFor
<1>2. reader.kind # "source" /\ reader.bound = Rightful
  BY <1>1 DEF Unhindered, ReaderInv, PhaseHeld
<1> QED
  BY <1>1, <1>2, CalmPhase DEF Generate

LEMMA CalmEnd ==
  ASSUME Unhindered, Exhaust \/ WriteSidecar
  PROVE  CalmReader' /\ reader'.kind = reader.kind
<1>1. /\ reader.pc = "visit" /\ UNCHANGED <<scenario, dest, tokenizer>>
      /\ CalmReader /\ DOMAIN reader = ReaderFields
  BY UnhinderedReader DEF Exhaust, WriteSidecar
<1>2. WriteSidecar => Derivable(tokenizer) /\ Provenance(tokenizer) = reader.spec
  <2>1. WriteSidecar => reader.kind = "stats"
    BY DEF WriteSidecar, Unhindered, ReaderInv, PhaseHeld, Active, Visiting
  <2> QED
    BY <1>1, <2>1 DEF Unhindered, Favoured, Undisturbed, CalmReader
<1>3. reader' = [reader EXCEPT !.pc = "accepted"]
  BY <1>2 DEF Exhaust, WriteSidecar
<1>4. /\ reader'.pc = "accepted" /\ reader'.kind = reader.kind /\ reader'.manifest = reader.manifest
      /\ reader'.spec = reader.spec
  BY <1>1, <1>3 DEF ReaderFields
<1> QED
  BY <1>1, <1>4, CalmGoesOn

-----------------------------------------------------------------------------
(* An untouched snapshot is accepted *)

LEMMA CalmStarts == Init => CalmInv
<1> SUFFICES ASSUME Init PROVE CalmInv
  OBVIOUS
<1>1. /\ source = [lines |-> scenario.source, stamp |-> 0, edits |-> 0] /\ dest = Free
      /\ makers = [p \in Makers |-> NewMaker] /\ reader = NewReader
      /\ tokenizer = scenario.tokenizer /\ tampers = 0
  BY DEF Init
<1>2. /\ NewMaker.pc = "start" /\ NewMaker.copy = NoCopy /\ DOMAIN NewMaker = {"pc", "copy", "staged"}
      /\ reader.pc = "idle"
  BY <1>1 DEF NewMaker, NewReader
<1>3. CalmMakers
  BY <1>1, <1>2 DEF CalmMakers, CalmMaker
<1>4. CalmReader
  BY <1>2 DEF CalmReader
<1>5. Undisturbed
  BY <1>1, <1>3, <1>4 DEF Undisturbed, Original
<1> QED
  BY <1>1, <1>5 DEF CalmInv, TamperInv

LEMMA TamperSteps ==
  ASSUME TamperInv, [Next]_vars
  PROVE  /\ TamperInv'
         /\ tampers' = 0 => tampers = 0 /\ ~Tamper /\ ~MutateTokenizer
<1>1. tampers' = tampers \/ (tampers' = tampers + 1 /\ tampers < MaxTampers)
  <2>1. \A p \in Makers : Work(p) \/ Fail(p) => tampers' = tampers
    BY DEF Work, Start, Copy, Stage, Publish, Fail
  <2>2. Read => tampers' = tampers
    BY DEF Read, CopySource, Open, CopyRest, Use, Release, Conclude, Generate, Exhaust, WriteSidecar
  <2>3. \A kind, loud : Begin(kind) \/ EditSource(loud) => tampers' = tampers
    BY DEF Begin, EditSource
  <2> QED
    BY <2>1, <2>2, <2>3 DEF Next, Tamper, MutateTokenizer, vars
<1>2. tampers' = 0 => ~Tamper /\ ~MutateTokenizer
  <2>1. Tamper \/ MutateTokenizer => tampers' = tampers + 1
    BY DEF Tamper, MutateTokenizer
  <2>2. tampers \in Nat
    BY DEF TamperInv
  <2> QED
    BY ONLY <2>1, <2>2
<1> QED
  BY <1>1, <1>2 DEF TamperInv

\* What the makers and the reader see stays, and so do they.
LEMMA CalmStays ==
  ASSUME Undisturbed, UNCHANGED <<scenario, source, tokenizer, reader>>,
         CalmMakers', dest' # Free => IsPublished(dest'), dest # Free => dest' = dest
  PROVE  Undisturbed'
<1>1. Original' = Original /\ Rightful' = Rightful /\ (dest' # Free => IsPublished(dest)')
  BY DEF Original, Rightful, Expected, IsPublished
<1>2. Favoured(reader.kind)' <=> Favoured(reader.kind)
  BY DEF Favoured, Unbroken, Original
<1>3. CalmReader => CalmReader'
  BY <1>1 DEF CalmReader, CleanCopy, Original
<1> QED
  BY <1>1, <1>2, <1>3 DEF Undisturbed

\* The reader has moved, and has objected to nothing.
LEMMA CalmReads ==
  ASSUME Undisturbed, UNCHANGED <<scenario, source, tokenizer, makers, dest>>,
         Favoured(reader'.kind) => CalmReader'
  PROVE  Undisturbed'
<1>1. Original' = Original /\ (IsPublished(dest)' <=> IsPublished(dest))
  BY DEF Original, Rightful, Expected, IsPublished
<1>2. Favoured(reader.kind)' <=> Favoured(reader'.kind)
  BY DEF Favoured, Unbroken, Original
<1>3. CalmMakers'
  BY CalmMakerStays DEF Undisturbed, CalmMakers
<1> QED
  BY <1>1, <1>2, <1>3 DEF Undisturbed

LEMMA CalmNext ==
  ASSUME SourceInv, ReaderInv, CalmInv, [Next]_vars
  PROVE  CalmInv'
<1>1. TamperInv' /\ (tampers' = 0 => tampers = 0 /\ ~Tamper /\ ~MutateTokenizer)
  BY TamperSteps DEF CalmInv
<1>2. SUFFICES ASSUME Calm' PROVE Undisturbed'
  BY <1>1 DEF CalmInv
<1>3. tampers' = 0 /\ source'.edits = 0
  BY <1>2 DEF Calm
<1>4. ASSUME NEW loud \in BOOLEAN, EditSource(loud)
      PROVE  FALSE
  BY <1>3, <1>4, SourceEdited DEF SourceInv
<1>5. source' = source
  <2>1. \A p \in Makers : Work(p) \/ Fail(p) => source' = source
    BY DEF Work, Start, Copy, Stage, Publish, Fail
  <2>2. Read => source' = source
    BY DEF Read, CopySource, Open, CopyRest, Use, Release, Conclude, Generate, Exhaust, WriteSidecar
  <2>3. \A kind : Begin(kind) => source' = source
    BY DEF Begin
  <2> QED
    BY <1>1, <1>3, <1>4, <2>1, <2>2, <2>3 DEF Next, vars
<1>6. Undisturbed
  BY <1>1, <1>3, <1>5 DEF CalmInv, Calm
<1>7. ASSUME NEW p \in Makers, Work(p) \/ Fail(p)
      PROVE  Undisturbed'
  <2>1. /\ CalmMakers' /\ UNCHANGED <<scenario, source, reader, tokenizer, tampers>>
        /\ dest' # Free => IsPublished(dest')
        /\ dest # Free => dest' = dest
    BY <1>6, <1>7, CalmWork DEF Undisturbed
  <2> QED
    BY <1>6, <2>1, CalmStays
<1>8. ASSUME NEW kind \in Kinds, Begin(kind)
      PROVE  Undisturbed'
  <2>1. UNCHANGED <<scenario, source, tokenizer, makers, dest>>
    BY <1>8 DEF Begin
  <2> QED
    BY <1>6, <1>8, <2>1, CalmBegin, CalmReads
<1>9. CASE Read
  <2>1. UNCHANGED <<scenario, source, tokenizer, makers, dest>>
    BY <1>9 DEF Read, CopySource, Open, CopyRest, Use, Release, Conclude, Generate, Exhaust,
                WriteSidecar
  <2>2. reader.pc # "idle"
    BY <1>9 DEF Read, CopySource, Open, CopyRest, Use, Release, Conclude, Generate, Exhaust,
                WriteSidecar
  <2>3. reader'.kind = reader.kind
    <3>1. Stepping
      BY <1>9, ReadEffect DEF ReaderInv
    <3> QED
      BY <3>1 DEF Stepping, Rejecting, Copying, Opening, Releasing, Matching, Loading, Counting,
                  Concluding, Generating, Ending, Keeps, ReaderFields
  <2>4. ASSUME Favoured(reader'.kind)
        PROVE  CalmReader'
    <3>1. Unhindered
      BY <1>6, <2>2, <2>3, <2>4 DEF Unhindered
    <3> QED
      BY <1>9, <3>1, CalmCopySource, CalmOpen, CalmCopyRest, CalmUse, CalmRelease, CalmConclude,
         CalmGenerate, CalmEnd DEF Read
  <2> QED
    BY <1>6, <2>1, <2>4, CalmReads
<1>10. CASE UNCHANGED vars
  <2>1. /\ UNCHANGED <<scenario, source, tokenizer, reader, makers>> /\ dest' = dest
    BY <1>10 DEF vars
  <2>2. CalmMakers'
    BY <1>6, <2>1, CalmMakerStays DEF Undisturbed, CalmMakers
  <2> QED
    BY <1>6, <2>1, <2>2, CalmStays DEF Undisturbed
<1> QED
  BY <1>1, <1>3, <1>4, <1>7, <1>8, <1>9, <1>10 DEF Next, Kinds

\* A snapshot nobody touched, of an unchanged source without blank lines, is never
\* refused where copies can be staged, by a validation, by the loader before or
\* after it generates, or by a count under a tokenizer whose provenance can be
\* derived; a reader without the source needs its lines to be canonical too.
\* The manifest satisfies its schema, the artifacts agree with its members, the
\* audit passes again, and ownership recomputed from the members in split order
\* is the one recorded (validate_split_manifest, load_frozen_split,
\* write_token_statistics, assign_records).  Of other sources nothing is said:
\* with blank or, without the source, non-canonical lines they are refused.
THEOREM UntouchedAreAccepted == Spec => []UntouchedIsAccepted
<1>1. Init => CalmInv
  BY CalmStarts
<1>2. SourceInv /\ ReaderInv /\ CalmInv /\ [Next]_vars => CalmInv'
  BY CalmNext
<1>3. CalmInv => UntouchedIsAccepted
  <2> SUFFICES ASSUME CalmInv, tampers = 0, source.edits = 0, scenario.writable,
                      reader.kind = "stats" => Derivable(scenario.tokenizer),
                      \A k \in DOMAIN scenario.source :
                         /\ scenario.source[k].form # "blank"
                         /\ reader.kind # "source" => scenario.source[k].canonical
               PROVE  reader.pc # "rejected"
    BY DEF UntouchedIsAccepted
  <2>1. Undisturbed /\ Favoured(reader.kind)
    BY DEF CalmInv, Calm, Favoured, Unbroken, Original
  <2> QED
    BY <2>1 DEF Undisturbed, CalmReader
<1> QED
  BY <1>1, <1>2, <1>3, ReaderIsAsFarAsItBelieves, PTL DEF Spec

-----------------------------------------------------------------------------
(* One winner *)

\* OneWinner as it is kept: a filled cell stays filled, so that a second
\* publisher finds it so.
WinnerInv ==
    /\ [p \in Makers |-> OutcomeOf(p)] \in [Makers -> {"pending", "published", "refused"}]
    /\ Publication!OneWinner

LEMMA WinnerStep == WinnerInv /\ [Publication!Next]_(Publication!vars) => WinnerInv'
<1> SUFFICES ASSUME WinnerInv, [Publication!Next]_(Publication!vars) PROVE WinnerInv'
  OBVIOUS
<1> USE DEF WinnerInv, Publication!OneWinner
<1>1. CASE Publication!Offer
  BY <1>1 DEF Publication!Offer
<1>2. CASE Publication!Spoil
  BY <1>2 DEF Publication!Spoil
<1>3. ASSUME NEW p \in Makers, Publication!Publish(p) PROVE WinnerInv'
  \* The destination was free, so nobody had published.
  <2>1. \A q \in Makers : [r \in Makers |-> OutcomeOf(r)][q] # "published"
    BY <1>3 DEF Publication!Publish
  <2> QED
    BY <1>3, <2>1 DEF Publication!Publish
<1>4. ASSUME NEW p \in Makers, Publication!Refuse(p) PROVE WinnerInv'
  BY <1>4 DEF Publication!Refuse
<1>5. CASE UNCHANGED Publication!vars
  BY <1>5 DEF Publication!vars
<1> QED
  BY <1>1, <1>2, <1>3, <1>4, <1>5 DEF Publication!Next

\* What follows from the promise of a no-replace publication alone: two publishers
\* that race for one destination are never both told that they made it, and
\* whoever is told so finds it there (_atomic_directory.rename_noreplace).
LEMMA OneWinnerHolds == Publication!Spec => []Publication!OneWinner
<1>1. Publication!Init => WinnerInv
  BY DEF Publication!Init, WinnerInv, Publication!OneWinner
<1>2. WinnerInv => Publication!OneWinner
  BY DEF WinnerInv
<1> QED
  BY <1>1, <1>2, WinnerStep, PTL DEF Publication!Spec

\* Of the materializations that race for a destination one at most reports
\* success, and then the snapshot is there (materialize_split).
COROLLARY OneMakerPublishes ==
  MaxSourceEdits \in 0..2 /\ Spec => []Publication!OneWinner
<1>1. PublishesAtomically => Publication!Spec
  BY DEF PublishesAtomically
<1> QED
  BY <1>1, MaterializationsPublishAtomically, OneWinnerHolds, PTL
=============================================================================
