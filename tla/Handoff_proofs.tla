--------------------------- MODULE Handoff_proofs ---------------------------
(***************************************************************************)
(* The hand-over file for any number of threads and requests, and texts of *)
(* every length cut anywhere.                                              *)
(***************************************************************************)
EXTENDS Handoff, FiniteSetTheorems, TLAPS

(***************************************************************************)
(* The elements of a set of numbers, in their order.                       *)
(***************************************************************************)
Rank(S, i) == Cardinality({j \in S : j <= i})

LEMMA RanksDiffer ==
  ASSUME NEW S \in SUBSET Nat, IsFiniteSet(S), NEW i \in S, NEW j \in S, i < j
  PROVE  Rank(S, i) # Rank(S, j)
<1>. DEFINE Upto(x) == {y \in S : y <= x}
<1>1. /\ Upto(j) \in SUBSET S /\ Upto(i) \in SUBSET Upto(j)
  <2>1. \A y \in S : y <= i => y <= j
    OBVIOUS
  <2>. QED
    BY <2>1
<1>2. j \in Upto(j) /\ j \notin Upto(i)
  OBVIOUS
<1>. HIDE DEF Upto
<1>3. IsFiniteSet(Upto(j))
  BY <1>1, FS_Subset
<1>4. Cardinality(Upto(j)) # Cardinality(Upto(i))
  BY <1>1, <1>2, <1>3, FS_Subset
<1>. QED
  BY <1>4 DEF Rank, Upto

LEMMA RankIsNumber ==
  ASSUME NEW S \in SUBSET Nat, IsFiniteSet(S), NEW i \in S
  PROVE  Rank(S, i) \in 1 .. Cardinality(S)
<1>. DEFINE T == {y \in S : y <= i}
<1>1. IsFiniteSet(T) /\ T \in SUBSET S /\ i \in T
  BY FS_Subset
<1>. HIDE DEF T
<1>2. Cardinality(T) \in Nat /\ Cardinality(S) \in Nat /\ Cardinality(T) <= Cardinality(S)
  BY <1>1, FS_Subset, FS_CardinalityType
<1>3. Cardinality(T) # 0
  BY <1>1, FS_EmptySet
<1>. QED
  BY <1>2, <1>3 DEF Rank, T

LEMMA Numbering ==
  ASSUME NEW S \in SUBSET Nat, IsFiniteSet(S)
  PROVE  /\ \A k \in 1 .. Cardinality(S) : Nth(S, k) \in S /\ Rank(S, Nth(S, k)) = k
         /\ \A i \in S : \E k \in 1 .. Cardinality(S) : Nth(S, k) = i
<1>. DEFINE n == Cardinality(S)
            f == [i \in S |-> Rank(S, i)]
<1>1. n \in Nat /\ IsFiniteSet(1 .. n) /\ Cardinality(1 .. n) = n
  BY FS_CardinalityType, FS_Interval
<1>2. f \in [S -> 1 .. n]
  BY RankIsNumber
<1>3. \A i, j \in S : Rank(S, i) = Rank(S, j) => i = j
  BY RanksDiffer
<1>4. f \in Injection(S, 1 .. n)
  BY <1>2, <1>3 DEF Injection, IsInjective
<1>5. f \in Surjection(S, 1 .. n)
  BY <1>1, <1>4, FS_Injection
<1>6. \A k \in 1 .. n : \E i \in S : Rank(S, i) = k
  BY <1>5 DEF Surjection
<1>7. \A k \in 1 .. n : Nth(S, k) \in S /\ Rank(S, Nth(S, k)) = k
  BY <1>6 DEF Nth, Rank
<1>8. ASSUME NEW i \in S PROVE Rank(S, i) \in 1 .. n /\ Nth(S, Rank(S, i)) = i
  BY <1>3, <1>7, RankIsNumber
<1>. QED
  BY <1>7, <1>8

-----------------------------------------------------------------------------
(***************************************************************************)
(* Tracer.buildMergedSteps.                                                *)
(***************************************************************************)
LEMMA PickedShape ==
  ASSUME NEW V, NEW seq \in Seq(V), NEW S \in SUBSET (1 .. Len(seq))
  PROVE  /\ IsFiniteSet(S) /\ Cardinality(S) \in Nat
         /\ Picked(seq, S) \in Seq(V)
         /\ Len(Picked(seq, S)) = Cardinality(S)
         /\ \A k \in 1 .. Cardinality(S) : \E i \in S : Picked(seq, S)[k] = seq[i]
         /\ \A i \in S : \E k \in 1 .. Cardinality(S) : Picked(seq, S)[k] = seq[i]
<1>1. IsFiniteSet(S) /\ Cardinality(S) \in Nat /\ S \in SUBSET Nat
  <2>1. Len(seq) \in Nat /\ IsFiniteSet(1 .. Len(seq))
    BY FS_Interval
  <2>2. IsFiniteSet(S)
    BY <2>1, FS_Subset
  <2>. QED
    BY <2>1, <2>2, FS_CardinalityType
<1>2. /\ \A k \in 1 .. Cardinality(S) : Nth(S, k) \in S
      /\ \A i \in S : \E k \in 1 .. Cardinality(S) : Nth(S, k) = i
  BY <1>1, Numbering
<1>3. \A k \in 1 .. Cardinality(S) : seq[Nth(S, k)] \in V
  <2>1. \A i \in S : seq[i] \in V
    OBVIOUS
  <2>. QED
    BY <1>2, <2>1
<1>4. Picked(seq, S) \in Seq(V) /\ Len(Picked(seq, S)) = Cardinality(S)
  BY <1>1, <1>3 DEF Picked
<1>5. \A k \in 1 .. Cardinality(S) : Picked(seq, S)[k] = seq[Nth(S, k)]
  BY DEF Picked
<1>. QED
  BY <1>1, <1>2, <1>4, <1>5

LEMMA Complement ==
  ASSUME NEW m \in Nat, NEW R \in SUBSET (1 .. m)
  PROVE  /\ Cardinality(R) \in 0 .. m
         /\ Cardinality((1 .. m) \ R) = m - Cardinality(R)
<1>1. IsFiniteSet(1 .. m) /\ Cardinality(1 .. m) = m
  BY FS_Interval
<1>2. Cardinality((1 .. m) \cap R) = Cardinality(R)
  <2>1. (1 .. m) \cap R = R
    OBVIOUS
  <2>. QED
    BY <2>1
<1>3. Cardinality((1 .. m) \ R) = Cardinality(1 .. m) - Cardinality((1 .. m) \cap R)
  BY <1>1, FS_Difference
<1>4. IsFiniteSet(R) /\ Cardinality(R) <= Cardinality(1 .. m)
  BY <1>1, FS_Subset
<1>5. Cardinality(R) \in Nat
  BY <1>4, FS_CardinalityType
<1>. DEFINE r == Cardinality(R)
            o == Cardinality((1 .. m) \ R)
<1>6. r \in Nat /\ r <= m /\ o = m - r
  BY <1>1, <1>2, <1>3, <1>4, <1>5
<1>. HIDE DEF r, o
<1>7. r \in 0 .. m /\ o = m - r
  BY <1>6
<1>. QED
  BY <1>7 DEF r, o

Entries(V, W) == {KernelEntry(x) : x \in V} \cup {JvmEntry(y) : y \in W}

(* The kernel's steps outside of the response, the application's spans,    *)
(* the steps of the response; and every kernel step is among them.         *)
MergeShape(ks, js, s, q) ==
  LET m == Len(ks)
      l == Len(js)
  IN  /\ q \in 0 .. m /\ Len(s) = m + l
      /\ \A k \in 1 .. m - q : \E i \in 1 .. m :
           s[k] = KernelEntry(ks[i]) /\ s[k].section # "Response path"
      /\ \A k \in 1 .. l : s[m - q + k] = JvmEntry(js[k])
      /\ \A k \in m - q + l + 1 .. m + l : \E i \in 1 .. m :
           s[k] = KernelEntry(ks[i]) /\ s[k].section = "Response path"
      /\ \A i \in 1 .. m : \E k \in 1 .. m + l : s[k] = KernelEntry(ks[i])

LEMMA MergedSteps ==
  ASSUME NEW V, NEW W, NEW ks \in Seq(V), NEW js \in Seq(W)
  PROVE  /\ buildMergedSteps(ks, js) \in Seq(Entries(V, W))
         /\ \E q : MergeShape(ks, js, buildMergedSteps(ks, js), q)
<1>. DEFINE m == Len(ks)
            E == Entries(V, W)
            kernel == [k \in 1 .. m |-> KernelEntry(ks[k])]
            jvm == [k \in 1 .. Len(js) |-> JvmEntry(js[k])]
            R == {k \in 1 .. Len(kernel) : kernel[k].section = "Response path"}
            O == (1 .. Len(kernel)) \ R
            q == Cardinality(R)
            l == Len(js)
            a == Picked(kernel, O)
            c == Picked(kernel, R)
            s == buildMergedSteps(ks, js)
<1>1. m \in Nat /\ l \in Nat /\ m = Len(ks) /\ l = Len(js)
  OBVIOUS
<1>2. kernel \in Seq(E) /\ Len(kernel) = m /\ \A k \in 1 .. m : kernel[k] = KernelEntry(ks[k])
  BY <1>1 DEF Entries
<1>3. jvm \in Seq(E) /\ Len(jvm) = l /\ \A k \in 1 .. l : jvm[k] = JvmEntry(js[k])
  BY <1>1 DEF Entries
<1>4. s = a \o jvm \o c
  BY <1>2 DEF buildMergedSteps
<1>. HIDE DEF m, l, E, kernel, jvm, a, c, s, q
<1>5. R \in SUBSET (1 .. Len(kernel)) /\ O \in SUBSET (1 .. Len(kernel))
  OBVIOUS
<1>6. /\ IsFiniteSet(R) /\ q \in Nat
      /\ c \in Seq(E) /\ Len(c) = q
      /\ \A k \in 1 .. q : \E i \in R : c[k] = kernel[i]
      /\ \A i \in R : \E k \in 1 .. q : c[k] = kernel[i]
  BY <1>2, <1>5, PickedShape DEF c, q
<1>7. Cardinality(O) = m - q /\ q \in 0 .. m
  <2>1. m \in Nat /\ R \in SUBSET (1 .. m) /\ O = (1 .. m) \ R
    BY <1>1, <1>2
  <2>. HIDE DEF R, O
  <2>. QED
    BY <2>1, Complement DEF q
<1>. HIDE DEF R, O
<1>8. /\ a \in Seq(E) /\ Len(a) = m - q
      /\ \A k \in 1 .. m - q : \E i \in O : a[k] = kernel[i]
      /\ \A i \in O : \E k \in 1 .. m - q : a[k] = kernel[i]
  <2>1. /\ a \in Seq(E) /\ Len(a) = Cardinality(O)
        /\ \A k \in 1 .. Cardinality(O) : \E i \in O : a[k] = kernel[i]
        /\ \A i \in O : \E k \in 1 .. Cardinality(O) : a[k] = kernel[i]
    BY <1>2, <1>5, PickedShape DEF a
  <2>. QED
    BY <1>7, <2>1
<1>9. /\ s \in Seq(E) /\ Len(s) = Len(a) + Len(jvm) + Len(c)
      /\ \A k \in 1 .. Len(a) : s[k] = a[k]
      /\ \A k \in 1 .. Len(jvm) : s[Len(a) + k] = jvm[k]
      /\ \A k \in 1 .. Len(c) : s[Len(a) + Len(jvm) + k] = c[k]
  <2>1. a \in Seq(E) /\ jvm \in Seq(E) /\ c \in Seq(E)
    BY <1>3, <1>6, <1>8
  <2>. QED
    BY <1>4, <2>1
<1>10. q \in 0 .. m /\ Len(s) = m + l
  BY <1>1, <1>3, <1>6, <1>7, <1>8, <1>9
<1>11. ASSUME NEW k \in 1 .. m - q
       PROVE  \E i \in 1 .. m : s[k] = KernelEntry(ks[i]) /\ s[k].section # "Response path"
  <2>1. PICK i \in O : a[k] = kernel[i]
    BY <1>8, <1>11
  <2>2. i \in 1 .. m /\ kernel[i].section # "Response path"
    BY <1>2, <2>1 DEF O, R
  <2>. QED
    BY <1>2, <1>8, <1>9, <1>11, <2>1, <2>2
<1>12. \A k \in 1 .. l : s[m - q + k] = JvmEntry(js[k])
  BY <1>3, <1>8, <1>9
<1>13. ASSUME NEW k \in m - q + l + 1 .. m + l
       PROVE  \E i \in 1 .. m : s[k] = KernelEntry(ks[i]) /\ s[k].section = "Response path"
  <2>1. PICK x \in 1 .. q : k = m - q + l + x
    <3>1. k - (m - q + l) \in 1 .. q /\ k = m - q + l + (k - (m - q + l))
      BY <1>1, <1>6, <1>13
    <3>. QED
      BY <3>1
  <2>2. PICK i \in R : c[x] = kernel[i]
    BY <1>6
  <2>3. i \in 1 .. m /\ kernel[i].section = "Response path"
    BY <1>2, <2>2 DEF R
  <2>4. s[k] = c[x]
    BY <1>3, <1>6, <1>8, <1>9, <2>1
  <2>. QED
    BY <1>2, <2>2, <2>3, <2>4
<1>14. ASSUME NEW i \in 1 .. m
       PROVE  \E k \in 1 .. m + l : s[k] = KernelEntry(ks[i])
  <2>1. CASE i \in R
    <3>1. PICK k \in 1 .. q : c[k] = kernel[i]
      BY <1>6, <2>1
    <3>2. s[m - q + l + k] = kernel[i]
      BY <1>3, <1>6, <1>8, <1>9, <3>1
    <3>3. m - q + l + k \in 1 .. m + l
      BY <1>1, <1>10, <3>1
    <3>. QED
      BY <1>2, <3>2, <3>3
  <2>2. CASE i \in O
    <3>1. PICK k \in 1 .. m - q : a[k] = kernel[i]
      BY <1>8, <2>2
    <3>2. s[k] = kernel[i]
      BY <1>8, <1>9, <3>1
    <3>3. k \in 1 .. m + l
      BY <1>1, <1>7, <3>1
    <3>. QED
      BY <1>2, <3>2, <3>3
  <2>. QED
    BY <1>2, <2>1, <2>2 DEF O
<1>15. MergeShape(ks, js, s, q)
  BY <1>10, <1>11, <1>12, <1>13, <1>14 DEF MergeShape, m, l
<1>. QED
  BY <1>9, <1>15 DEF s, E

-----------------------------------------------------------------------------
(***************************************************************************)
(* Texts.                                                                  *)
(***************************************************************************)
Half == [request : Requests, line : Nat, tail : BOOLEAN]

(* Where a half line is in the text of its request.                        *)
Place(half) == IF half.tail THEN 2 * half.line ELSE 2 * half.line - 1

(* A half line of a text that was written.                                 *)
Genuine(half) == half \in Half /\ half.line \in 1 .. TotalLine(half.request)

LEMMA TotalLineIs ==
  ASSUME NEW r \in Requests
  PROVE  /\ Len(Steps[r]) \in Nat /\ Len(Steps[r]) >= 1
         /\ TotalLine(r) = Len(Steps[r]) + 1 /\ TotalLine(r) \in Nat
  BY HandoffAssumption DEF TotalLine

LEMMA Halves ==
  ASSUME NEW i \in Nat
  PROVE  /\ i % 2 \in {0, 1}
         /\ i % 2 = 0 => i = 2 * ((i + 1) \div 2)
         /\ i % 2 = 1 => i = 2 * ((i + 1) \div 2) - 1
         /\ (i + 1) \div 2 \in Nat
  OBVIOUS

LEMMA TextIs ==
  ASSUME NEW r \in Requests
  PROVE  /\ Text(r) \in Seq(Half) /\ Len(Text(r)) = 2 * TotalLine(r)
         /\ \A i \in 1 .. 2 * TotalLine(r) :
              Text(r)[i].request = r /\ Genuine(Text(r)[i]) /\ Place(Text(r)[i]) = i
<1>. DEFINE n == TotalLine(r)
            H(i) == [request |-> r, line |-> (i + 1) \div 2, tail |-> i % 2 = 0]
<1>1. n \in Nat /\ n >= 2
  BY TotalLineIs
<1>2. Text(r) = [i \in 1 .. 2 * n |-> H(i)]
  BY DEF Text
<1>. HIDE DEF n
<1>3. ASSUME NEW i \in 1 .. 2 * n
      PROVE  H(i).request = r /\ H(i) \in Half /\ H(i).line \in 1 .. n /\ Place(H(i)) = i
  <2>. DEFINE h == (i + 1) \div 2
  <2>1. /\ i % 2 \in {0, 1} /\ h \in Nat
        /\ i % 2 = 0 => i = 2 * h
        /\ i % 2 = 1 => i = 2 * h - 1
    BY <1>1, <1>3, Halves
  <2>. HIDE DEF h
  <2>2. h \in 1 .. n
    BY <1>1, <1>3, <2>1
  <2>3. Place(H(i)) = i
    BY <2>1 DEF Place, h
  <2>. QED
    BY <2>2, <2>3 DEF Half, h
<1>. HIDE DEF H
<1>4. Text(r) \in Seq(Half) /\ Len(Text(r)) = 2 * n
  <2>1. \A i \in 1 .. 2 * n : H(i) \in Half
    BY <1>3
  <2>2. 2 * n \in Nat
    BY <1>1
  <2>. QED
    BY <1>2, <2>1, <2>2
<1>5. \A i \in 1 .. 2 * n : Text(r)[i] = H(i)
  BY <1>2
<1>. QED
  BY <1>3, <1>4, <1>5 DEF Genuine, n

(* A half line is known by its request and its place.                      *)
LEMMA HalfAt ==
  ASSUME NEW x \in Half, NEW y \in Half, x.request = y.request, Place(x) = Place(y)
  PROVE  x = y
<1>1. x.line \in Nat /\ y.line \in Nat /\ x.tail \in BOOLEAN /\ y.tail \in BOOLEAN
  BY DEF Half
<1>2. x.line = y.line /\ x.tail = y.tail
  BY <1>1 DEF Place
<1>. QED
  BY <1>2 DEF Half

-----------------------------------------------------------------------------
(***************************************************************************)
(* The inductive invariant of the hand-over.                               *)
(***************************************************************************)

(* A text is a beginning of the one that is written of a request.          *)
Beginning(text, r) ==
  /\ Len(text) <= 2 * TotalLine(r)
  /\ \A i \in 1 .. Len(text) : text[i] = Text(r)[i]

(* However often the file was replaced during a read: what stands between  *)
(* two half lines of one request is what stands between them in its text.  *)
Coherent(text) ==
  \A i, j \in 1 .. Len(text) : i <= j /\ text[i].request = text[j].request =>
    \A k \in i .. j : /\ text[k].request = text[i].request
                      /\ Place(text[k]) = Place(text[i]) + (k - i)

(* A request is written once: those that are still to be written, those    *)
(* that have been, and the one that the file shows or is about to show.    *)
Waiting == {pending[k] : k \in (IF writing = NoRequest THEN 1 ELSE 2) .. Len(pending)}
Past == (Earlier \cup sent) \ Waiting
Current == {file[i].request : i \in 1 .. Len(file)} \cup {writing}

QueueInv ==
  /\ pending \in Seq(sent)
  /\ \A k, l \in 1 .. Len(pending) : pending[k] = pending[l] => k = l
  /\ sent \subseteq begun /\ begun \subseteq Requests \ Earlier
  /\ writing # NoRequest => pending # <<>> /\ writing = pending[1]

FileInv ==
  /\ file \in Seq(Half)
  /\ file # <<>> => \E r \in Past : Beginning(file, r) /\ writing \in {r, NoRequest}

Reads == [open : BOOLEAN, at : Nat, lost : BOOLEAN, text : Seq(Half), overwritten : BOOLEAN]

(* A read of file f, after the requests in past were written, those in     *)
(* current last.  A read that lost its position has nothing of the file    *)
(* that is there now; one that has a position has just read what is before *)
(* it; and until the file is replaced, it has all of it.                   *)
ReadOf(read, f, past, current) ==
  /\ Coherent(read.text)
  /\ \A i \in 1 .. Len(read.text) : Genuine(read.text[i]) /\ read.text[i].request \in past
  /\ read.at = 0 => read.text = <<>> /\ ~ read.lost
  /\ read.lost => \A i \in 1 .. Len(read.text) : read.text[i].request \notin current
  /\ read.at > 0 /\ ~ read.lost =>
       /\ read.text # <<>> /\ read.at <= Len(f)
       /\ read.text[Len(read.text)] = f[read.at]
  /\ ~ read.overwritten =>
       /\ ~ read.lost /\ Len(read.text) = read.at /\ read.at <= Len(f)
       /\ \A i \in 1 .. read.at : read.text[i] = f[i]

ReadersInv ==
  /\ serving \in [Threads -> Requests \cup {NoRequest}]
  /\ reader \in [Threads -> Reads]
  /\ \A t \in Threads : /\ ReadOf(reader[t], file, Past, Current)
                        /\ reader[t].open => serving[t] # NoRequest
                        /\ ~ reader[t].open => reader[t] = NoRead

HandoffInv == QueueInv /\ FileInv /\ ReadersInv

-----------------------------------------------------------------------------
(* What each step does to a read.                                          *)

LEMMA NothingRead ==
  ASSUME NEW read, read.at = 0, read.text = <<>>, ~ read.lost, ~ read.overwritten,
         NEW f, Len(f) \in Nat, NEW past, NEW current
  PROVE  ReadOf(read, f, past, current)
<1>1. Len(<<>>) = 0
  OBVIOUS
<1>. QED
  BY <1>1 DEF ReadOf, Coherent

LEMMA NoReadIs ==
  /\ NoRead \in Reads /\ ~ NoRead.open
  /\ NoRead.at = 0 /\ NoRead.text = <<>> /\ ~ NoRead.lost /\ ~ NoRead.overwritten
<1>1. <<>> \in Seq(Half)
  OBVIOUS
<1>. QED
  BY <1>1 DEF NoRead, Reads

(* The file grows, and other requests are sent and skipped.                *)
LEMMA ReadStays ==
  ASSUME NEW read \in Reads, NEW f \in Seq(Half), NEW g \in Seq(Half),
         NEW past, NEW past2, NEW current, NEW current2,
         ReadOf(read, f, past, current),
         Len(f) <= Len(g), \A i \in 1 .. Len(f) : g[i] = f[i],
         past \subseteq past2, \A r \in current2 : r \in current \/ r \notin past
  PROVE  ReadOf(read, g, past2, current2)
<1>. DEFINE text == read.text
            at == read.at
            n == Len(text)
<1>1. text \in Seq(Half) /\ n \in Nat /\ at \in Nat /\ Len(f) \in Nat /\ Len(g) \in Nat
  BY DEF Reads
<1>2. /\ Coherent(text)
      /\ \A i \in 1 .. n : Genuine(text[i]) /\ text[i].request \in past2
      /\ at = 0 => text = <<>> /\ ~ read.lost
  BY DEF ReadOf
<1>3. read.lost => \A i \in 1 .. n : text[i].request \notin current2
  BY DEF ReadOf
<1>4. at > 0 /\ ~ read.lost => text # <<>> /\ at <= Len(g) /\ text[n] = g[at]
  BY <1>1 DEF ReadOf
<1>5. ~ read.overwritten => /\ ~ read.lost /\ n = at /\ at <= Len(g)
                            /\ \A i \in 1 .. at : text[i] = g[i]
  <2>. SUFFICES ASSUME ~ read.overwritten
                PROVE  /\ ~ read.lost /\ n = at /\ at <= Len(g)
                       /\ \A i \in 1 .. at : text[i] = g[i]
    OBVIOUS
  <2>1. ~ read.lost /\ n = at /\ at <= Len(f) /\ \A i \in 1 .. at : text[i] = f[i]
    BY DEF ReadOf
  <2>2. \A i \in 1 .. at : i \in 1 .. Len(f)
    BY <1>1, <2>1
  <2>. QED
    BY <1>1, <2>1, <2>2
<1>. QED
  BY <1>2, <1>3, <1>4, <1>5 DEF ReadOf

(* The file is truncated, for a request of which nothing was read.         *)
LEMMA ReadOverwritten ==
  ASSUME NEW read \in Reads, NEW f \in Seq(Half), NEW past, NEW past2, NEW current, NEW current2,
         ReadOf(read, f, past, current), ~ read.open => read = NoRead,
         past \subseteq past2, \A r \in current2 : r \notin past
  PROVE  /\ Overwritten(read) \in Reads
         /\ ReadOf(Overwritten(read), <<>>, past2, current2)
         /\ Overwritten(read).open = read.open
         /\ ~ read.open => Overwritten(read) = NoRead
<1>1. CASE ~ read.open
  <2>1. Overwritten(read) = read /\ read = NoRead
    BY <1>1 DEF Overwritten
  <2>2. Len(<<>>) \in Nat
    OBVIOUS
  <2>3. ReadOf(read, <<>>, past2, current2)
    BY <2>1, <2>2, NoReadIs, NothingRead
  <2>. QED
    BY <2>1, <2>3
<1>2. CASE read.open
  <2>. DEFINE new == Overwritten(read)
  <2>1. /\ new \in Reads /\ new.open = read.open /\ new.text = read.text /\ new.at = read.at
        /\ new.lost = (read.at > 0) /\ new.overwritten = TRUE
    <3>1. new = [read EXCEPT !.lost = (read.at > 0), !.overwritten = TRUE]
      BY <1>2 DEF Overwritten
    <3>2. new = [open |-> read.open, at |-> read.at, lost |-> (read.at > 0),
                 text |-> read.text, overwritten |-> TRUE]
      BY <3>1 DEF Reads
    <3>3. (read.at > 0) \in BOOLEAN
      OBVIOUS
    <3>. QED
      BY <3>2, <3>3 DEF Reads
  <2>2. read.at \in Nat
    BY DEF Reads
  <2>. HIDE DEF new
  <2>. QED
    BY <1>2, <2>1, <2>2 DEF ReadOf, new
<1>. QED
  BY <1>1, <1>2

LEMMA BeginningIs ==
  ASSUME NEW f \in Seq(Half), NEW r \in Requests, Beginning(f, r)
  PROVE  \A i \in 1 .. Len(f) : f[i].request = r /\ Genuine(f[i]) /\ Place(f[i]) = i
<1>1. Len(f) \in Nat /\ Len(f) <= 2 * TotalLine(r) /\ TotalLine(r) \in Nat
  BY TotalLineIs DEF Beginning
<1>2. \A i \in 1 .. Len(f) : i \in 1 .. 2 * TotalLine(r) /\ f[i] = Text(r)[i]
  BY <1>1 DEF Beginning
<1>. QED
  BY <1>2, TextIs

(* read(2): the file from p on, which is where the read has come to, or    *)
(* anywhere if it has lost its position.                                   *)
LEMMA ReadText ==
  ASSUME NEW text \in Seq(Half), NEW f \in Seq(Half), NEW p \in Nat, p < Len(f)
  PROVE  \A s : s = text \o SubSeq(f, p + 1, Len(f)) =>
           /\ s \in Seq(Half) /\ Len(s) = Len(text) + (Len(f) - p)
           /\ \A i \in 1 .. Len(text) : s[i] = text[i]
           /\ \A i \in Len(text) + 1 .. Len(text) + (Len(f) - p) : s[i] = f[p + (i - Len(text))]
<1>. DEFINE q == SubSeq(f, p + 1, Len(f))
            s == text \o q
            n == Len(text)
            m == Len(f)
<1>1. n \in Nat /\ m \in Nat /\ p < m
  OBVIOUS
<1>2. /\ q \in Seq(Half) /\ Len(q) = m - p
      /\ \A i \in 1 .. m - p : q[i] = f[p + i]
  OBVIOUS
<1>3. q \in Seq(Half) /\ s = text \o q /\ n = Len(text)
  BY <1>2
<1>. HIDE DEF q, m, s, n
<1>4. /\ s \in Seq(Half) /\ Len(s) = n + Len(q)
      /\ \A i \in 1 .. n : s[i] = text[i]
      /\ \A i \in 1 .. Len(q) : s[n + i] = q[i]
  BY <1>3
<1>5. ASSUME NEW i \in n + 1 .. n + (m - p) PROVE s[i] = f[p + (i - n)]
  <2>1. i - n \in 1 .. m - p /\ i = n + (i - n)
    BY <1>1, <1>5
  <2>2. s[i] = q[i - n]
    BY <1>2, <1>4, <2>1
  <2>. QED
    BY <1>2, <2>1, <2>2
<1>. QED
  BY <1>2, <1>4, <1>5 DEF s, n, m, q

LEMMA ReadMore ==
  ASSUME NEW read \in Reads, NEW f \in Seq(Half), NEW past, NEW current, NEW r \in Requests,
         ReadOf(read, f, past, current), read.open,
         Beginning(f, r), r \in past, r \in current,
         NEW p \in Nat, p < Len(f), ~ read.lost => p = read.at,
         NEW new, new.at = Len(f), ~ new.lost, new.overwritten = read.overwritten,
         NEW s \in Seq(Half), new.text = s, Len(s) = Len(read.text) + (Len(f) - p),
         \A i \in 1 .. Len(read.text) : s[i] = read.text[i],
         \A i \in Len(read.text) + 1 .. Len(read.text) + (Len(f) - p) :
           s[i] = f[p + (i - Len(read.text))]
  PROVE  ReadOf(new, f, past, current)
<1>. DEFINE text == read.text
            n == Len(text)
            m == Len(f)
<1>1. /\ text \in Seq(Half) /\ n \in Nat /\ m \in Nat /\ m > 0 /\ p < m
      /\ read.at \in Nat
  BY DEF Reads
<1>2. /\ s \in Seq(Half) /\ Len(s) = n + (m - p)
      /\ \A i \in 1 .. n : s[i] = text[i]
      /\ \A i \in n + 1 .. n + (m - p) : s[i] = f[p + (i - n)]
  OBVIOUS
<1>4. \A i \in 1 .. m : f[i].request = r /\ Genuine(f[i]) /\ Place(f[i]) = i
  BY BeginningIs
<1>. HIDE DEF n, m, text
<1>5. ASSUME NEW i \in n + 1 .. n + (m - p)
      PROVE  /\ s[i] = f[p + (i - n)] /\ p + (i - n) \in 1 .. m
             /\ s[i].request = r /\ Genuine(s[i]) /\ Place(s[i]) = p + (i - n)
  <2>1. p + (i - n) \in 1 .. m
    BY <1>1, <1>5
  <2>2. s[i] = f[p + (i - n)]
    BY <1>2
  <2>. QED
    BY <1>4, <2>1, <2>2
<1>6. ASSUME NEW i \in 1 .. n, text[i].request = r, NEW k \in i .. n
      PROVE  text[k].request = r /\ Place(text[k]) = p - (n - k)
  <2>1. ~ read.lost
    BY <1>6 DEF ReadOf, n, text
  <2>2. read.at > 0
    BY <1>1, <1>6 DEF ReadOf, n, text
  <2>3. p = read.at /\ text[n] = f[p] /\ p \in 1 .. m
    BY <1>1, <2>1, <2>2 DEF ReadOf, n, text
  <2>4. text[n].request = r /\ Place(text[n]) = p
    BY <1>4, <2>3
  <2>5. n \in 1 .. n /\ i <= n /\ n \in i .. n
    BY <1>1, <1>6
  <2>6. Coherent(text)
    BY DEF ReadOf, text
  <2>7. \A x \in i .. n : /\ text[x].request = r
                          /\ Place(text[x]) = Place(text[i]) + (x - i)
    <3>1. text[i].request = text[n].request /\ text[i].request = r
      BY <1>6, <2>4
    <3>2. i \in 1 .. Len(text) /\ n \in 1 .. Len(text) /\ i <= n
      BY <2>5, <1>6 DEF n
    <3>3. \A u, v \in 1 .. Len(text) : u <= v /\ text[u].request = text[v].request =>
            \A x \in u .. v : /\ text[x].request = text[u].request
                              /\ Place(text[x]) = Place(text[u]) + (x - u)
      BY <2>6 DEF Coherent
    <3>4. \A x \in i .. n : /\ text[x].request = text[i].request
                            /\ Place(text[x]) = Place(text[i]) + (x - i)
      BY <3>1, <3>2, <3>3, Zenon
    <3>. QED
      BY <3>1, <3>4
  <2>8. Place(text[i]) \in Int
    <3>1. Genuine(text[i])
      BY <1>6 DEF ReadOf, text, n
    <3>. QED
      BY <3>1 DEF Genuine, Half, Place
  <2>9. p = Place(text[i]) + (n - i)
    BY <2>4, <2>5, <2>7
  <2>10. Place(text[k]) = Place(text[i]) + (k - i)
    BY <1>6, <2>7
  <2>11. Place(text[k]) = p - (n - k)
    BY <1>1, <1>6, <2>3, <2>8, <2>9, <2>10
  <2>. QED
    BY <1>6, <2>7, <2>11
<1>7. ASSUME NEW i \in 1 .. n + (m - p), NEW j \in 1 .. n + (m - p), i <= j,
             s[i].request = s[j].request, NEW k \in i .. j
      PROVE  s[k].request = s[i].request /\ Place(s[k]) = Place(s[i]) + (k - i)
  <2>1. CASE j <= n
    <3>1. i \in 1 .. n /\ j \in 1 .. n /\ k \in 1 .. n
      BY <1>1, <1>7, <2>1
    <3>2. Coherent(text)
      BY DEF ReadOf, text
    <3>3. text[i].request = text[j].request
      BY <1>2, <1>7, <3>1
    <3>4. text[k].request = text[i].request /\ Place(text[k]) = Place(text[i]) + (k - i)
      BY <1>7, <3>1, <3>2, <3>3 DEF Coherent, n
    <3>. QED
      BY <1>2, <3>1, <3>4
  <2>2. CASE i > n
    <3>1. i \in n + 1 .. n + (m - p) /\ k \in n + 1 .. n + (m - p)
      BY <1>1, <1>7, <2>2
    <3>2. /\ s[i].request = r /\ Place(s[i]) = p + (i - n)
          /\ s[k].request = r /\ Place(s[k]) = p + (k - n)
      BY <1>5, <3>1
    <3>. QED
      BY <1>1, <1>7, <3>2
  <2>3. CASE i <= n /\ j > n
    <3>1. i \in 1 .. n /\ j \in n + 1 .. n + (m - p) /\ i \in i .. n
      BY <1>1, <1>7, <2>3
    <3>2. s[i] = text[i] /\ text[i].request = r
      BY <1>2, <1>5, <1>7, <3>1
    <3>3. Place(s[i]) = p - (n - i)
      BY <1>6, <3>1, <3>2
    <3>4. CASE k <= n
      <4>1. k \in i .. n /\ k \in 1 .. n
        BY <1>1, <1>7, <3>1, <3>4
      <4>2. s[k].request = r /\ Place(s[k]) = p - (n - k)
        BY <1>2, <1>6, <3>1, <3>2, <4>1
      <4>3. p - (n - k) = (p - (n - i)) + (k - i) /\ p + (k - n) = (p - (n - i)) + (k - i)
        <5>1. p \in Int /\ n \in Int /\ i \in Int /\ k \in Int
          BY <1>1, <3>1, <4>1
        <5>. QED
          BY <5>1
      <4>. QED
        BY <3>2, <3>3, <4>2, <4>3
    <3>5. CASE k > n
      <4>1. k \in n + 1 .. n + (m - p)
        BY <1>1, <1>7, <3>5
      <4>2. s[k].request = r /\ Place(s[k]) = p + (k - n)
        BY <1>5, <4>1
      <4>3. p - (n - k) = (p - (n - i)) + (k - i) /\ p + (k - n) = (p - (n - i)) + (k - i)
        <5>1. p \in Int /\ n \in Int /\ i \in Int /\ k \in Int
          BY <1>1, <3>1, <4>1
        <5>. QED
          BY <5>1
      <4>. QED
        BY <3>2, <3>3, <4>2, <4>3
    <3>. QED
      BY <1>1, <1>7, <3>4, <3>5
  <2>. QED
    BY <1>1, <1>7, <2>1, <2>2, <2>3
<1>8. Coherent(s)
  BY <1>2, <1>7 DEF Coherent
<1>9. ASSUME NEW i \in 1 .. Len(s) PROVE Genuine(s[i]) /\ s[i].request \in past
  <2>1. CASE i \in 1 .. n
    BY <1>2, <2>1 DEF ReadOf, n, text
  <2>2. CASE i \in n + 1 .. n + (m - p)
    BY <1>5, <2>2
  <2>. QED
    BY <1>1, <1>2, <1>9, <2>1, <2>2
<1>10. s # <<>> /\ s[Len(s)] = f[m]
  <2>1. Len(s) \in n + 1 .. n + (m - p) /\ p + (Len(s) - n) = m
    BY <1>1, <1>2
  <2>2. s[Len(s)] = f[m]
    BY <1>5, <2>1
  <2>. QED
    BY <1>1, <1>2, <2>1, <2>2
<1>11. ASSUME ~ read.overwritten PROVE Len(s) = m /\ \A i \in 1 .. m : s[i] = f[i]
  <2>1. p = n /\ \A i \in 1 .. n : text[i] = f[i]
    BY <1>1, <1>11 DEF ReadOf, n, text
  <2>2. ASSUME NEW i \in 1 .. m PROVE s[i] = f[i]
    <3>1. CASE i \in 1 .. n
      BY <1>2, <2>1, <3>1
    <3>2. CASE i \in n + 1 .. n + (m - p)
      BY <1>1, <1>5, <2>1, <3>2
    <3>. QED
      BY <1>1, <2>1, <2>2, <3>1, <3>2
  <2>3. Len(s) = m
    <3>1. p = n /\ Len(s) = n + (m - p)
      BY <1>2, <2>1
    <3>2. n + (m - n) = m
      BY <1>1
    <3>. QED
      BY <3>1, <3>2
  <2>. QED
    BY <2>2, <2>3
<1>12. /\ new.at = m /\ ~ new.lost /\ new.overwritten = read.overwritten /\ new.text = s
       /\ m = Len(f)
  BY DEF m
<1>13. /\ Coherent(new.text)
       /\ \A i \in 1 .. Len(new.text) : Genuine(new.text[i]) /\ new.text[i].request \in past
       /\ new.text # <<>> /\ new.text[Len(new.text)] = f[new.at]
       /\ new.at > 0 /\ new.at <= Len(f)
  BY <1>1, <1>8, <1>9, <1>10, <1>12
<1>14. ~ new.overwritten => Len(new.text) = new.at /\ \A i \in 1 .. new.at : new.text[i] = f[i]
  BY <1>11, <1>12
<1>. QED
  BY <1>1, <1>2, <1>12, <1>13, <1>14 DEF ReadOf

-----------------------------------------------------------------------------
(* What each step does to the readers, the queue and the file.             *)

LEMMA ReadersKept ==
  ASSUME ReadersInv, file \in Seq(Half), file' \in Seq(Half), UNCHANGED reader,
         Len(file) <= Len(file'), \A i \in 1 .. Len(file) : file'[i] = file[i],
         Past \subseteq Past', \A r \in Current' : r \in Current \/ r \notin Past,
         serving' \in [Threads -> Requests \cup {NoRequest}],
         \A t \in Threads : serving[t] # NoRequest => serving'[t] # NoRequest
  PROVE  ReadersInv'
<1>1. ASSUME NEW t \in Threads PROVE ReadOf(reader[t], file', Past', Current')
  <2>1. reader[t] \in Reads /\ ReadOf(reader[t], file, Past, Current)
    BY DEF ReadersInv
  <2>. QED
    BY <2>1, ReadStays
<1>2. reader \in [Threads -> Reads]
  BY DEF ReadersInv
<1>3. \A t \in Threads : /\ reader[t].open => serving'[t] # NoRequest
                         /\ ~ reader[t].open => reader[t] = NoRead
  BY DEF ReadersInv
<1>. QED
  BY <1>1, <1>2, <1>3 DEF ReadersInv

(* One reader goes on.                                                     *)
LEMMA OneReads ==
  ASSUME ReadersInv, UNCHANGED <<sent, pending, writing, file>>,
         NEW t \in Threads, NEW read \in Reads, ReadOf(read, file, Past, Current),
         reader' = [reader EXCEPT ![t] = read],
         serving' \in [Threads -> Requests \cup {NoRequest}],
         \A x \in Threads \ {t} : serving'[x] = serving[x],
         read.open => serving'[t] # NoRequest, ~ read.open => read = NoRead
  PROVE  ReadersInv'
<1>1. Past' = Past /\ Current' = Current
  BY DEF Past, Waiting, Current
<1>2. reader' \in [Threads -> Reads]
  BY DEF ReadersInv
<1>3. ASSUME NEW x \in Threads
      PROVE  /\ ReadOf(reader'[x], file, Past, Current)
             /\ reader'[x].open => serving'[x] # NoRequest
             /\ ~ reader'[x].open => reader'[x] = NoRead
  <2>1. CASE x = t
    BY <2>1 DEF ReadersInv
  <2>2. CASE x # t
    <3>1. reader'[x] = reader[x] /\ serving'[x] = serving[x]
      BY <1>3, <2>2 DEF ReadersInv
    <3>. QED
      BY <3>1 DEF ReadersInv
  <2>. QED
    BY <2>1, <2>2
<1>. QED
  BY <1>1, <1>2, <1>3 DEF ReadersInv

LEMMA QueueFacts ==
  ASSUME QueueInv
  PROVE  /\ pending \in Seq(Requests) /\ Len(pending) \in Nat
         /\ sent \subseteq Requests /\ Earlier \subseteq Requests
         /\ Past \subseteq Requests /\ NoRequest \notin Requests
         /\ \A k \in 1 .. Len(pending) : pending[k] \in sent
         /\ writing \in Requests \cup {NoRequest}
         /\ writing # NoRequest => writing \in Past
<1>1. sent \subseteq Requests /\ Earlier \subseteq Requests /\ NoRequest \notin Requests
  BY HandoffAssumption DEF QueueInv
<1>2. pending \in Seq(sent) /\ Len(pending) \in Nat
  BY DEF QueueInv
<1>3. \A k \in 1 .. Len(pending) : pending[k] \in sent
  BY <1>2
<1>4. pending \in Seq(Requests)
  BY <1>1, <1>2, <1>3
<1>5. writing # NoRequest => writing \in sent /\ writing \notin Waiting
  <2>. SUFFICES ASSUME writing # NoRequest PROVE writing \in sent /\ writing \notin Waiting
    OBVIOUS
  <2>1. 1 \in 1 .. Len(pending) /\ writing = pending[1]
    BY <1>2 DEF QueueInv
  <2>2. \A k \in 2 .. Len(pending) : pending[k] # pending[1]
    BY <1>2, <2>1 DEF QueueInv
  <2>. QED
    BY <1>3, <2>1, <2>2 DEF Waiting
<1>6. writing # NoRequest => writing \in Past
  BY <1>5 DEF Past
<1>. QED
  BY <1>1, <1>2, <1>3, <1>4, <1>5, <1>6 DEF Past

LEMMA HandoffInitInv == HandoffInit => HandoffInv
<1>. SUFFICES ASSUME HandoffInit PROVE HandoffInv
  OBVIOUS
<1>1. QueueInv
  BY DEF HandoffInit, QueueInv
<1>2. FileInv /\ Len(file) \in Nat
  <2>1. CASE file = <<>>
    BY <2>1 DEF FileInv
  <2>2. ASSUME NEW r \in Earlier, file = Text(r) PROVE FileInv /\ Len(file) \in Nat
    <3>1. r \in Requests
      BY <2>2, HandoffAssumption
    <3>2. Text(r) \in Seq(Half) /\ Len(Text(r)) = 2 * TotalLine(r) /\ TotalLine(r) \in Nat
      BY <3>1, TextIs, TotalLineIs
    <3>3. Beginning(file, r)
      BY <2>2, <3>2 DEF Beginning
    <3>4. r \in Past /\ writing = NoRequest
      BY <2>2 DEF HandoffInit, Past, Waiting
    <3>. QED
      BY <2>2, <3>2, <3>3, <3>4 DEF FileInv
  <2>. QED
    BY <2>1, <2>2 DEF HandoffInit
<1>3. ReadersInv
  <2>1. ReadOf(NoRead, file, Past, Current)
    BY <1>2, NoReadIs, NothingRead
  <2>. QED
    BY <2>1, NoReadIs DEF HandoffInit, ReadersInv
<1>. QED
  BY <1>1, <1>2, <1>3 DEF HandoffInv

LEMMA ServeInv == ASSUME HandoffInv, NEW t \in Threads, Serve(t) PROVE HandoffInv'
<1>1. PICK r \in Requests \ (begun \cup Earlier) :
        begun' = begun \cup {r} /\ serving' = [serving EXCEPT ![t] = r]
  BY DEF Serve
<1>2. UNCHANGED <<reader, sent, pending, writing, file>> /\ serving[t] = NoRequest
  BY DEF Serve, collectorSide
<1>3. QueueInv /\ FileInv /\ ReadersInv
  BY DEF HandoffInv
<1>4. QueueInv'
  BY <1>1, <1>2, <1>3 DEF QueueInv
<1>5. Past' = Past /\ Current' = Current
  BY <1>2 DEF Past, Waiting, Current
<1>6. FileInv'
  BY <1>2, <1>3, <1>5 DEF FileInv, Beginning
<1>7. serving \in [Threads -> Requests \cup {NoRequest}] /\ r # NoRequest
  BY <1>1, <1>3, HandoffAssumption DEF ReadersInv
<1>8. /\ serving' \in [Threads -> Requests \cup {NoRequest}]
      /\ \A x \in Threads : serving[x] # NoRequest => serving'[x] # NoRequest
  BY <1>1, <1>2, <1>7
<1>9. file \in Seq(Half) /\ file' = file
  BY <1>2, <1>3 DEF FileInv
<1>10. ReadersInv'
  BY <1>2, <1>3, <1>5, <1>8, <1>9, ReadersKept
<1>. QED
  BY <1>4, <1>6, <1>10 DEF HandoffInv

(* Of a request that has just been sent nothing was written.               *)
LEMMA RespondInv == ASSUME HandoffInv, NEW r \in Requests, Respond(r) PROVE HandoffInv'
<1>1. /\ r \in begun \ sent /\ sent' = sent \cup {r} /\ pending' = Append(pending, r)
      /\ UNCHANGED <<begun, writing, file, serving, reader>>
  BY DEF Respond, agentSide
<1>2. QueueInv /\ FileInv /\ ReadersInv
  BY DEF HandoffInv
<1>3. pending \in Seq(sent) /\ Len(pending) \in Nat
  BY <1>2 DEF QueueInv
<1>. DEFINE n == Len(pending)
<1>4. /\ pending' \in Seq(sent') /\ Len(pending') = n + 1 /\ pending'[n + 1] = r
      /\ \A k \in 1 .. n : pending'[k] = pending[k] /\ pending[k] \in sent
  <2>1. \A k \in 1 .. n : pending[k] \in sent
    BY <1>3
  <2>2. pending \in Seq(sent') /\ r \in sent'
    BY <1>1, <1>3, <2>1
  <2>. QED
    BY <1>1, <2>1, <2>2
<1>5. QueueInv'
  <2>1. ASSUME NEW k \in 1 .. n + 1, NEW l \in 1 .. n + 1, pending'[k] = pending'[l]
        PROVE  k = l
    <3>1. CASE k \in 1 .. n /\ l \in 1 .. n
      BY <1>2, <1>4, <2>1, <3>1 DEF QueueInv
    <3>2. \A x \in 1 .. n : pending'[x] # r
      BY <1>1, <1>4
    <3>. QED
      BY <1>3, <1>4, <2>1, <3>1, <3>2
  <2>2. sent' \subseteq begun' /\ begun' \subseteq Requests \ Earlier
    BY <1>1, <1>2 DEF QueueInv
  <2>3. writing' # NoRequest => pending' # <<>> /\ writing' = pending'[1]
    <3>. SUFFICES ASSUME writing # NoRequest PROVE pending' # <<>> /\ writing = pending'[1]
      BY <1>1
    <3>1. pending # <<>> /\ writing = pending[1]
      BY <1>2 DEF QueueInv
    <3>2. 1 \in 1 .. n
      BY <1>3, <3>1
    <3>. QED
      BY <1>3, <1>4, <3>1, <3>2
  <2>. QED
    BY <1>4, <2>1, <2>2, <2>3 DEF QueueInv
<1>6. Past \subseteq Past' /\ Current' = Current
  <2>1. ASSUME NEW q \in Waiting' PROVE q \in Waiting \/ q = r
    <3>1. PICK k \in (IF writing = NoRequest THEN 1 ELSE 2) .. n + 1 : q = pending'[k]
      BY <1>1, <1>4, <2>1 DEF Waiting
    <3>2. CASE k \in (IF writing = NoRequest THEN 1 ELSE 2) .. n
      <4>1. k \in 1 .. n
        BY <1>3, <3>2
      <4>. QED
        BY <1>4, <3>1, <3>2, <4>1 DEF Waiting
    <3>. QED
      BY <1>3, <1>4, <3>1, <3>2
  <2>2. r \notin Past
    BY <1>1, <1>2 DEF Past, QueueInv
  <2>. QED
    BY <1>1, <2>1, <2>2 DEF Past, Current
<1>7. FileInv'
  BY <1>1, <1>2, <1>6 DEF FileInv, Beginning
<1>8. file \in Seq(Half) /\ file' = file /\ serving' \in [Threads -> Requests \cup {NoRequest}]
  BY <1>1, <1>2 DEF FileInv, ReadersInv
<1>9. ReadersInv'
  BY <1>1, <1>2, <1>6, <1>8, ReadersKept
<1>. QED
  BY <1>5, <1>7, <1>9 DEF HandoffInv

(* fopen truncates the file; nobody has read anything of the request whose *)
(* text comes next.                                                        *)
LEMMA OpenForWritingInv == ASSUME HandoffInv, OpenForWriting PROVE HandoffInv'
<1>1. /\ writing = NoRequest /\ pending # <<>> /\ writing' = Head(pending) /\ file' = <<>>
      /\ reader' = [t \in Threads |-> Overwritten(reader[t])]
      /\ UNCHANGED <<serving, begun, sent, pending>>
  BY DEF OpenForWriting
<1>2. QueueInv /\ FileInv /\ ReadersInv
  BY DEF HandoffInv
<1>3. /\ Len(pending) \in Nat /\ 1 \in 1 .. Len(pending) /\ Head(pending) = pending[1]
      /\ pending[1] \in sent
  BY <1>1, <1>2, QueueFacts
<1>4. QueueInv' /\ FileInv'
  <2>1. <<>> \in Seq(Half)
    OBVIOUS
  <2>. QED
    BY <1>1, <1>2, <1>3, <2>1 DEF QueueInv, FileInv
<1>5. pending[1] \in Waiting
  BY <1>1, <1>3 DEF Waiting
<1>6. Past \subseteq Past'
  <2>1. Waiting' \subseteq Waiting
    BY <1>1, <1>3 DEF Waiting
  <2>. QED
    BY <1>1, <2>1 DEF Past
<1>7. \A r \in Current' : r \notin Past
  <2>1. Len(<<>>) = 0 /\ 1 .. 0 = {}
    OBVIOUS
  <2>2. Current' = {pending[1]}
    BY <1>1, <1>3, <2>1 DEF Current
  <2>. QED
    BY <1>5, <2>2 DEF Past
<1>8. ASSUME NEW t \in Threads
      PROVE  /\ Overwritten(reader[t]) \in Reads
             /\ ReadOf(Overwritten(reader[t]), <<>>, Past', Current')
             /\ Overwritten(reader[t]).open => serving[t] # NoRequest
             /\ ~ Overwritten(reader[t]).open => Overwritten(reader[t]) = NoRead
  <2>1. /\ reader[t] \in Reads /\ ReadOf(reader[t], file, Past, Current)
        /\ reader[t].open => serving[t] # NoRequest
        /\ ~ reader[t].open => reader[t] = NoRead
    BY <1>2 DEF ReadersInv
  <2>2. file \in Seq(Half)
    BY <1>2 DEF FileInv
  <2>3. /\ Overwritten(reader[t]) \in Reads
        /\ ReadOf(Overwritten(reader[t]), <<>>, Past', Current')
        /\ Overwritten(reader[t]).open = reader[t].open
        /\ ~ reader[t].open => Overwritten(reader[t]) = NoRead
    BY <1>6, <1>7, <2>1, <2>2, ReadOverwritten
  <2>. QED
    BY <2>1, <2>3
<1>9. ReadersInv'
  BY <1>1, <1>2, <1>8 DEF ReadersInv
<1>. QED
  BY <1>4, <1>9 DEF HandoffInv

LEMMA OpenFailsInv == ASSUME HandoffInv, OpenFails PROVE HandoffInv'
<1>1. /\ writing = NoRequest /\ pending # <<>> /\ pending' = Tail(pending)
      /\ UNCHANGED <<begun, sent, writing, file, serving, reader>>
  BY DEF OpenFails, agentSide
<1>2. QueueInv /\ FileInv /\ ReadersInv
  BY DEF HandoffInv
<1>. DEFINE n == Len(pending)
<1>3. /\ pending \in Seq(sent) /\ n \in Nat /\ n > 0
      /\ pending' \in Seq(sent) /\ Len(pending') = n - 1
      /\ \A k \in 1 .. n - 1 : pending'[k] = pending[k + 1]
  BY <1>1, <1>2 DEF QueueInv
<1>4. QueueInv'
  <2>1. ASSUME NEW k \in 1 .. n - 1, NEW l \in 1 .. n - 1, pending'[k] = pending'[l]
        PROVE  k = l
    <3>1. k + 1 \in 1 .. n /\ l + 1 \in 1 .. n /\ pending[k + 1] = pending[l + 1]
      BY <1>3, <2>1
    <3>2. k + 1 = l + 1
      BY <1>2, <3>1 DEF QueueInv
    <3>. QED
      BY <3>2
  <2>. QED
    BY <1>1, <1>2, <1>3, <2>1 DEF QueueInv
<1>5. Waiting' \subseteq Waiting
  <2>1. ASSUME NEW k \in 1 .. n - 1 PROVE pending'[k] \in Waiting
    <3>1. k + 1 \in 1 .. n /\ pending'[k] = pending[k + 1]
      BY <1>3, <2>1
    <3>. QED
      BY <1>1, <3>1 DEF Waiting
  <2>. QED
    BY <1>1, <1>3, <2>1 DEF Waiting
<1>6. Past \subseteq Past' /\ Current' = Current
  BY <1>1, <1>5 DEF Past, Current
<1>7. FileInv'
  BY <1>1, <1>2, <1>6 DEF FileInv, Beginning
<1>8. file \in Seq(Half) /\ file' = file /\ serving' \in [Threads -> Requests \cup {NoRequest}]
  BY <1>1, <1>2 DEF FileInv, ReadersInv
<1>9. ReadersInv'
  BY <1>1, <1>2, <1>6, <1>8, ReadersKept
<1>. QED
  BY <1>4, <1>7, <1>9 DEF HandoffInv

(* Of the request that is being written the file shows nothing yet, or     *)
(* its beginning.                                                          *)
LEMMA FileOfWriting ==
  ASSUME QueueInv, FileInv, writing # NoRequest
  PROVE  /\ writing \in Requests /\ writing \in Past
         /\ file # <<>> => Beginning(file, writing)
         /\ Text(writing) \in Seq(Half) /\ Len(Text(writing)) \in Nat
         /\ Len(file) <= Len(Text(writing))
         /\ \A i \in 1 .. Len(file) : file[i] = Text(writing)[i]
<1>1. writing \in Requests /\ writing \in Past
  BY QueueFacts
<1>2. /\ Text(writing) \in Seq(Half) /\ Len(Text(writing)) = 2 * TotalLine(writing)
      /\ TotalLine(writing) \in Nat
  BY <1>1, TextIs, TotalLineIs
<1>3. file # <<>> => Beginning(file, writing)
  BY DEF FileInv
<1>4. CASE file = <<>>
  <2>1. Len(file) = 0
    BY <1>4
  <2>. QED
    BY <1>1, <1>2, <1>4, <2>1
<1>5. CASE file # <<>>
  BY <1>1, <1>2, <1>3, <1>5 DEF Beginning
<1>. QED
  BY <1>4, <1>5

LEMMA FlushBufferInv == ASSUME HandoffInv, FlushBuffer PROVE HandoffInv'
<1>1. /\ writing \in Long /\ file = <<>>
      /\ UNCHANGED <<begun, sent, pending, writing, serving, reader>>
  BY DEF FlushBuffer, agentSide
<1>2. PICK n \in 3 .. Len(Text(writing)) - 1 : file' = SubSeq(Text(writing), 1, n)
  BY DEF FlushBuffer
<1>3. QueueInv /\ FileInv /\ ReadersInv
  BY DEF HandoffInv
<1>4. writing # NoRequest
  BY <1>1, HandoffAssumption
<1>5. /\ writing \in Requests /\ writing \in Past
      /\ Text(writing) \in Seq(Half) /\ Len(Text(writing)) \in Nat
      /\ Len(Text(writing)) = 2 * TotalLine(writing)
  BY <1>3, <1>4, FileOfWriting, TextIs
<1>6. n \in Nat /\ n <= Len(Text(writing)) /\ n > 0
  BY <1>2, <1>5
<1>7. /\ file' \in Seq(Half) /\ Len(file') = n
      /\ \A i \in 1 .. n : file'[i] = Text(writing)[i]
  BY <1>2, <1>5, <1>6
<1>8. QueueInv' /\ Past' = Past
  BY <1>1, <1>3 DEF QueueInv, Past, Waiting
<1>9. Beginning(file', writing)
  BY <1>5, <1>6, <1>7 DEF Beginning
<1>10. FileInv'
  <2>1. Beginning(file, writing)'
    BY <1>1, <1>9 DEF Beginning
  <2>. QED
    BY <1>1, <1>5, <1>7, <1>8, <2>1 DEF FileInv
<1>11. \A i \in 1 .. n : file'[i].request = writing
  BY <1>5, <1>7, <1>9, BeginningIs
<1>12. \A r \in Current' : r \in Current
  BY <1>1, <1>7, <1>11 DEF Current
<1>13. /\ file \in Seq(Half) /\ Len(file) = 0 /\ serving' \in [Threads -> Requests \cup {NoRequest}]
       /\ \A i \in 1 .. Len(file) : file'[i] = file[i]
  BY <1>1, <1>3 DEF FileInv, ReadersInv
<1>14. ReadersInv'
  BY <1>1, <1>3, <1>6, <1>7, <1>8, <1>12, <1>13, ReadersKept
<1>. QED
  BY <1>8, <1>10, <1>14 DEF HandoffInv

LEMMA CloseFileInv == ASSUME HandoffInv, CloseFile PROVE HandoffInv'
<1>1. /\ writing # NoRequest /\ file' = Text(writing) /\ writing' = NoRequest
      /\ pending' = Tail(pending) /\ UNCHANGED <<begun, sent, serving, reader>>
  BY DEF CloseFile, agentSide
<1>2. QueueInv /\ FileInv /\ ReadersInv
  BY DEF HandoffInv
<1>. DEFINE n == Len(pending)
<1>3. /\ pending \in Seq(sent) /\ n \in Nat /\ n > 0
      /\ pending' \in Seq(sent) /\ Len(pending') = n - 1
      /\ \A k \in 1 .. n - 1 : pending'[k] = pending[k + 1]
  BY <1>1, <1>2 DEF QueueInv
<1>4. /\ writing \in Requests /\ writing \in Past
      /\ Text(writing) \in Seq(Half) /\ Len(Text(writing)) \in Nat
      /\ Len(Text(writing)) = 2 * TotalLine(writing)
      /\ Len(file) <= Len(Text(writing))
      /\ \A i \in 1 .. Len(file) : file[i] = Text(writing)[i]
  BY <1>1, <1>2, FileOfWriting, TextIs
<1>5. QueueInv'
  <2>1. ASSUME NEW k \in 1 .. n - 1, NEW l \in 1 .. n - 1, pending'[k] = pending'[l]
        PROVE  k = l
    <3>1. k + 1 \in 1 .. n /\ l + 1 \in 1 .. n /\ pending[k + 1] = pending[l + 1]
      BY <1>3, <2>1
    <3>2. k + 1 = l + 1
      BY <1>2, <3>1 DEF QueueInv
    <3>. QED
      BY <3>2
  <2>. QED
    BY <1>1, <1>2, <1>3, <2>1 DEF QueueInv
<1>6. Past \subseteq Past'
  <2>1. ASSUME NEW k \in 1 .. n - 1 PROVE pending'[k] \in Waiting
    <3>1. k + 1 \in 2 .. n /\ pending'[k] = pending[k + 1]
      BY <1>3, <2>1
    <3>. QED
      BY <1>1, <3>1 DEF Waiting
  <2>2. Waiting' \subseteq Waiting
    BY <1>1, <1>3, <2>1 DEF Waiting
  <2>. QED
    BY <1>1, <2>2 DEF Past
<1>7. FileInv'
  <2>1. Beginning(file', writing)
    BY <1>1, <1>4 DEF Beginning
  <2>2. \E r \in Past' : Beginning(file', r)
    BY <1>4, <1>6, <2>1
  <2>. QED
    BY <1>1, <1>4, <2>2 DEF FileInv, Beginning
<1>8. ASSUME NEW r \in Current' PROVE r \in Current \/ r \notin Past
  <2>1. CASE r = NoRequest
    BY <1>2, <2>1, QueueFacts
  <2>2. ASSUME NEW i \in 1 .. Len(file'), r = file'[i].request PROVE r = writing
    BY <1>1, <1>4, <2>2, TextIs
  <2>3. writing \in Current
    BY DEF Current
  <2>. QED
    BY <1>1, <1>8, <2>1, <2>2, <2>3 DEF Current
<1>9. /\ file \in Seq(Half) /\ serving' \in [Threads -> Requests \cup {NoRequest}]
      /\ \A i \in 1 .. Len(file) : file'[i] = file[i]
  BY <1>1, <1>2, <1>4 DEF FileInv, ReadersInv
<1>10. ReadersInv'
  BY <1>1, <1>2, <1>4, <1>6, <1>8, <1>9, ReadersKept
<1>. QED
  BY <1>5, <1>7, <1>10 DEF HandoffInv

(* The collector ends and is started again; the text stays.                *)
LEMMA RestartInv == ASSUME HandoffInv, Restart PROVE HandoffInv'
<1>1. /\ pending' = <<>> /\ writing' = NoRequest
      /\ UNCHANGED <<begun, sent, file, serving, reader>>
  BY DEF Restart
<1>2. QueueInv /\ FileInv /\ ReadersInv
  BY DEF HandoffInv
<1>3. QueueInv'
  BY <1>1, <1>2 DEF QueueInv
<1>4. Past \subseteq Past'
  <2>1. Waiting' = {}
    BY <1>1 DEF Waiting
  <2>. QED
    BY <1>1, <2>1 DEF Past
<1>5. FileInv'
  BY <1>1, <1>2, <1>4 DEF FileInv, Beginning
<1>6. \A r \in Current' : r \in Current \/ r \notin Past
  BY <1>1, <1>2, QueueFacts DEF Current
<1>7. file \in Seq(Half) /\ file' = file /\ serving' \in [Threads -> Requests \cup {NoRequest}]
  BY <1>1, <1>2 DEF FileInv, ReadersInv
<1>8. ReadersInv'
  BY <1>1, <1>2, <1>4, <1>6, <1>7, ReadersKept
<1>. QED
  BY <1>3, <1>5, <1>8 DEF HandoffInv

LEMMA OpenForReadingInv == ASSUME HandoffInv, NEW t \in Threads, OpenForReading(t) PROVE HandoffInv'
<1>. DEFINE read == [NoRead EXCEPT !.open = TRUE]
<1>1. /\ serving[t] # NoRequest /\ reader' = [reader EXCEPT ![t] = read]
      /\ UNCHANGED <<serving, begun, sent, pending, writing, file>>
  BY DEF OpenForReading, collectorSide
<1>2. QueueInv /\ FileInv /\ ReadersInv
  BY DEF HandoffInv
<1>3. /\ read \in Reads /\ read.open /\ read.at = 0 /\ read.text = <<>>
      /\ ~ read.lost /\ ~ read.overwritten
  <2>1. NoRead \in Reads
    BY NoReadIs
  <2>2. read = [open |-> TRUE, at |-> NoRead.at, lost |-> NoRead.lost, text |-> NoRead.text,
                overwritten |-> NoRead.overwritten]
    <3>1. ASSUME NEW a \in Reads, NEW b, b = [a EXCEPT !.open = TRUE]
          PROVE  b = [open |-> TRUE, at |-> a.at, lost |-> a.lost, text |-> a.text,
                      overwritten |-> a.overwritten]
      <4>1. a \in [open : BOOLEAN, at : Nat, lost : BOOLEAN, text : Seq(Half), overwritten : BOOLEAN]
        BY DEF Reads
      <4>. QED
        BY <3>1, <4>1
    <3>. QED
      BY <2>1, <3>1
  <2>. HIDE DEF read
  <2>3. /\ read.open = TRUE /\ read.at = NoRead.at /\ read.lost = NoRead.lost
        /\ read.text = NoRead.text /\ read.overwritten = NoRead.overwritten
    BY <2>2
  <2>4. read \in Reads
    BY <2>1, <2>2 DEF Reads
  <2>. QED
    BY <2>3, <2>4, NoReadIs
<1>4. Len(file) \in Nat
  BY <1>2 DEF FileInv
<1>. HIDE DEF read
<1>5. ReadOf(read, file, Past, Current)
  BY <1>3, <1>4, NothingRead
<1>6. QueueInv' /\ FileInv'
  BY <1>1, <1>2 DEF QueueInv, FileInv, Past, Waiting, Beginning
<1>7. ReadersInv'
  <2>1. serving' \in [Threads -> Requests \cup {NoRequest}]
    BY <1>1, <1>2 DEF ReadersInv
  <2>. QED
    BY <1>1, <1>2, <1>3, <1>5, <2>1, OneReads
<1>. QED
  BY <1>6, <1>7 DEF HandoffInv

LEMMA ReadInv == ASSUME HandoffInv, NEW t \in Threads, Read(t) PROVE HandoffInv'
<1>. DEFINE read == reader[t]
<1>1. /\ read.open /\ UNCHANGED <<serving, begun, sent, pending, writing, file>>
  BY DEF Read, collectorSide
<1>2. PICK p \in (IF read.lost THEN 1 .. Len(file) - 1 ELSE {read.at}) :
        /\ p < Len(file)
        /\ reader' = [reader EXCEPT ![t] =
             [read EXCEPT !.at = Len(file), !.lost = FALSE,
                          !.text = read.text \o SubSeq(file, p + 1, Len(file))]]
  BY DEF Read
<1>3. QueueInv /\ FileInv /\ ReadersInv
  BY DEF HandoffInv
<1>4. /\ read \in Reads /\ ReadOf(read, file, Past, Current) /\ serving[t] # NoRequest
      /\ serving \in [Threads -> Requests \cup {NoRequest}]
  BY <1>1, <1>3 DEF ReadersInv
<1>5. /\ read.text \in Seq(Half) /\ read.at \in Nat /\ file \in Seq(Half) /\ Len(file) \in Nat
      /\ p \in Nat /\ p < Len(file) /\ (~ read.lost => p = read.at)
  BY <1>2, <1>3, <1>4 DEF Reads, FileInv
<1>6. PICK r \in Past : Beginning(file, r)
  BY <1>3, <1>5 DEF FileInv
<1>7. r \in Requests /\ r \in Current
  <2>1. r \in Requests
    BY <1>3, <1>6, QueueFacts
  <2>2. 1 \in 1 .. Len(file) /\ file[1].request = r
    BY <1>5, <1>6, <2>1, BeginningIs
  <2>. QED
    BY <2>1, <2>2 DEF Current
<1>. DEFINE s == read.text \o SubSeq(file, p + 1, Len(file))
            new == [read EXCEPT !.at = Len(file), !.lost = FALSE, !.text = s]
<1>8. /\ s \in Seq(Half) /\ Len(s) = Len(read.text) + (Len(file) - p)
      /\ \A i \in 1 .. Len(read.text) : s[i] = read.text[i]
      /\ \A i \in Len(read.text) + 1 .. Len(read.text) + (Len(file) - p) :
           s[i] = file[p + (i - Len(read.text))]
  <2>. DEFINE x == read.text
  <2>1. x \in Seq(Half) /\ s = x \o SubSeq(file, p + 1, Len(file)) /\ x = read.text
    BY <1>5
  <2>2. file \in Seq(Half) /\ p \in Nat /\ p < Len(file)
    BY <1>5
  <2>. HIDE DEF read, s, x
  <2>3. \A z : z = x \o SubSeq(file, p + 1, Len(file)) =>
          /\ z \in Seq(Half) /\ Len(z) = Len(x) + (Len(file) - p)
          /\ \A i \in 1 .. Len(x) : z[i] = x[i]
          /\ \A i \in Len(x) + 1 .. Len(x) + (Len(file) - p) : z[i] = file[p + (i - Len(x))]
    <3>1. x \in Seq(Half)
      BY <2>1
    <3>. QED
      BY <2>2, <3>1, ReadText, Zenon
  <2>. QED
    BY <2>1, <2>3
<1>9. reader' = [reader EXCEPT ![t] = new]
  BY <1>2
<1>. HIDE DEF s
<1>10. /\ new \in Reads /\ new.open = read.open /\ new.at = Len(file) /\ new.lost = FALSE
       /\ new.overwritten = read.overwritten /\ new.text = s
  BY <1>4, <1>5, <1>8 DEF Reads
<1>. HIDE DEF new, read
<1>11. ReadOf(new, file, Past, Current)
  BY <1>1, <1>4, <1>5, <1>6, <1>7, <1>8, <1>10, ReadMore
<1>12. QueueInv' /\ FileInv'
  BY <1>1, <1>3 DEF QueueInv, FileInv, Past, Waiting, Beginning
<1>13. ReadersInv'
  BY <1>1, <1>3, <1>4, <1>9, <1>10, <1>11, OneReads
<1>. QED
  BY <1>12, <1>13 DEF HandoffInv

LEMMA WriteMergedInv == ASSUME HandoffInv, NEW t \in Threads, WriteMerged(t) PROVE HandoffInv'
<1>1. /\ serving' = [serving EXCEPT ![t] = NoRequest]
      /\ reader' = [reader EXCEPT ![t] = NoRead]
      /\ UNCHANGED <<begun, sent, pending, writing, file>>
  BY DEF WriteMerged, collectorSide
<1>2. QueueInv /\ FileInv /\ ReadersInv
  BY DEF HandoffInv
<1>3. QueueInv' /\ FileInv'
  BY <1>1, <1>2 DEF QueueInv, FileInv, Past, Waiting, Beginning
<1>4. ReadOf(NoRead, file, Past, Current)
  <2>1. Len(file) \in Nat
    BY <1>2 DEF FileInv
  <2>. QED
    BY <2>1, NoReadIs, NothingRead
<1>5. /\ serving' \in [Threads -> Requests \cup {NoRequest}]
      /\ \A x \in Threads \ {t} : serving'[x] = serving[x]
  BY <1>1, <1>2 DEF ReadersInv
<1>6. ReadersInv'
  BY <1>1, <1>2, <1>4, <1>5, NoReadIs, OneReads
<1>. QED
  BY <1>3, <1>6 DEF HandoffInv

LEMMA HandoffNextInv == HandoffInv /\ [HandoffNext]_handoffVars => HandoffInv'
<1>. SUFFICES ASSUME HandoffInv, [HandoffNext]_handoffVars PROVE HandoffInv'
  OBVIOUS
<1>1. CASE Collector
  BY <1>1, OpenForWritingInv, OpenFailsInv, FlushBufferInv, CloseFileInv, RestartInv DEF Collector
<1>2. CASE \E r \in Requests : Respond(r)
  BY <1>2, RespondInv
<1>3. CASE \E t \in Threads : Serve(t) \/ Dump(t)
  BY <1>3, ServeInv, OpenForReadingInv, ReadInv, WriteMergedInv DEF Dump
<1>4. CASE UNCHANGED handoffVars
  <2>1. UNCHANGED <<serving, reader, begun, sent, pending, writing, file>>
    BY <1>4 DEF handoffVars
  <2>2. QueueInv /\ FileInv /\ ReadersInv
    BY DEF HandoffInv
  <2>3. Past' = Past /\ Current' = Current
    BY <2>1 DEF Past, Waiting, Current
  <2>4. QueueInv'
    BY <2>1, <2>2 DEF QueueInv
  <2>5. FileInv'
    BY <2>1, <2>2, <2>3 DEF FileInv, Beginning
  <2>6. ReadersInv'
    BY <2>1, <2>2, <2>3 DEF ReadersInv
  <2>. QED
    BY <2>4, <2>5, <2>6 DEF HandoffInv
<1>. QED
  BY <1>1, <1>2, <1>3, <1>4 DEF HandoffNext

-----------------------------------------------------------------------------
(***************************************************************************)
(* Counting.                                                               *)
(***************************************************************************)
LEMMA SameNumber ==
  ASSUME NEW S, IsFiniteSet(S), NEW T, NEW f \in [S -> T],
         \A i, j \in S : f[i] = f[j] => i = j,
         \A y \in T : \E i \in S : f[i] = y
  PROVE  IsFiniteSet(T) /\ Cardinality(T) = Cardinality(S)
<1>1. f \in Injection(S, T)
  BY DEF Injection, IsInjective
<1>2. f \in Surjection(S, T)
  BY DEF Surjection
<1>. QED
  BY <1>1, <1>2, FS_Surjection

LEMMA IntervalIs ==
  ASSUME NEW a \in Int, NEW n \in Nat
  PROVE  IsFiniteSet(a + 1 .. a + n) /\ Cardinality(a + 1 .. a + n) = n
<1>1. a + 1 \in Int /\ a + n \in Int
  OBVIOUS
<1>2. /\ IsFiniteSet(a + 1 .. a + n)
      /\ Cardinality(a + 1 .. a + n) = IF a + 1 > a + n THEN 0 ELSE (a + n) - (a + 1) + 1
  BY <1>1, FS_Interval
<1>3. (IF a + 1 > a + n THEN 0 ELSE (a + n) - (a + 1) + 1) = n
  OBVIOUS
<1>. QED
  BY <1>2, <1>3

(* A set of positive numbers that has all below each of its elements.      *)
LEMMA InitialSegment ==
  ASSUME NEW D \in SUBSET (Nat \ {0}), IsFiniteSet(D),
         \A d \in D : \A e \in 1 .. d : e \in D
  PROVE  D = 1 .. Cardinality(D)
<1>. DEFINE c == Cardinality(D)
<1>1. c \in Nat
  BY FS_CardinalityType
<1>2. IsFiniteSet(1 .. c) /\ Cardinality(1 .. c) = c
  BY <1>1, FS_Interval
<1>3. ASSUME NEW d \in D PROVE d \in 1 .. c
  <2>1. d \in Nat /\ d >= 1 /\ 1 .. d \in SUBSET D
    OBVIOUS
  <2>2. Cardinality(1 .. d) = d
    BY <2>1, FS_Interval
  <2>3. Cardinality(1 .. d) <= c
    BY <2>1, FS_Subset
  <2>. QED
    BY <1>1, <2>1, <2>2, <2>3
<1>4. D \in SUBSET (1 .. c)
  BY <1>3
<1>. QED
  BY <1>2, <1>4, FS_Subset

LEMMA MaxIs ==
  ASSUME NEW S \in SUBSET Nat, IsFiniteSet(S), S # {}
  PROVE  Max(S) \in S /\ \A j \in S : j <= Max(S)
<1>. DEFINE c == Cardinality(S)
            m == Nth(S, c)
            T == {j \in S : j <= m}
<1>1. c \in Nat /\ c # 0
  BY FS_CardinalityType, FS_EmptySet
<1>2. m \in S /\ Rank(S, m) = c
  BY <1>1, Numbering
<1>. HIDE DEF m
<1>3. T \in SUBSET S /\ Cardinality(T) = c
  BY <1>2 DEF Rank
<1>4. S = T
  <2>. HIDE DEF T
  <2>. QED
    BY <1>3, FS_Subset
<1>5. m \in S /\ \A j \in S : j <= m
  BY <1>2, <1>4
<1>6. \A j \in S : m >= j
  BY <1>5
<1>7. Max(S) \in S /\ \A j \in S : Max(S) >= j
  BY <1>2, <1>6 DEF Max
<1>. QED
  BY <1>7

LEMMA DisjointUnion ==
  ASSUME NEW S, IsFiniteSet(S), NEW T, IsFiniteSet(T), S \cap T = {}
  PROVE  /\ IsFiniteSet(S \cup T) /\ Cardinality(S) \in Nat /\ Cardinality(T) \in Nat
         /\ Cardinality(S \cup T) = Cardinality(S) + Cardinality(T)
<1>1. Cardinality(S \cap T) = 0
  BY FS_EmptySet
<1>2. Cardinality(S) \in Nat /\ Cardinality(T) \in Nat
  BY FS_CardinalityType
<1>3. /\ IsFiniteSet(S \cup T)
      /\ Cardinality(S \cup T) = Cardinality(S) + Cardinality(T) - Cardinality(S \cap T)
  BY FS_Union
<1>. QED
  BY <1>1, <1>2, <1>3

(* Every step is counted under one section.                                *)
LEMMA SectionsAddUp ==
  ASSUME NEW steps, Len(steps) \in Nat, \A k \in 1 .. Len(steps) : steps[k].section \in Sections
  PROVE  /\ StepsOfSection(steps) \in [Sections -> Nat]
         /\ StepsOfSection(steps)["Network layer"] + StepsOfSection(steps)["Kernel socket layer"]
            + StepsOfSection(steps)["Web server"] + StepsOfSection(steps)["Application"]
            + StepsOfSection(steps)["Database"] + StepsOfSection(steps)["Response path"]
            = Len(steps)
<1>. DEFINE n == Len(steps)
            Of(s) == {k \in 1 .. n : steps[k].section = s}
            C(s) == Cardinality(Of(s))
            A2 == Of("Network layer") \cup Of("Kernel socket layer")
            A3 == A2 \cup Of("Web server")
            A4 == A3 \cup Of("Application")
            A5 == A4 \cup Of("Database")
            A6 == A5 \cup Of("Response path")
<1>1. n \in Nat /\ IsFiniteSet(1 .. n) /\ Cardinality(1 .. n) = n
  BY FS_Interval
<1>2. \A s : IsFiniteSet(Of(s)) /\ C(s) \in Nat
  <2>1. \A s : Of(s) \in SUBSET (1 .. n)
    OBVIOUS
  <2>2. \A s : IsFiniteSet(Of(s))
    <3>. HIDE DEF Of
    <3>. QED
      BY <1>1, <2>1, FS_Subset
  <2>. QED
    BY <2>2, FS_CardinalityType
<1>3. A6 = 1 .. n
  BY DEF Sections
<1>4. /\ Of("Network layer") \cap Of("Kernel socket layer") = {}
      /\ A2 \cap Of("Web server") = {} /\ A3 \cap Of("Application") = {}
      /\ A4 \cap Of("Database") = {} /\ A5 \cap Of("Response path") = {}
  OBVIOUS
<1>5. \A s \in Sections : StepsOfSection(steps)[s] = C(s)
  BY DEF StepsOfSection
<1>6. StepsOfSection(steps) \in [Sections -> Nat]
  <2>1. StepsOfSection(steps) = [s \in Sections |-> C(s)]
    BY DEF StepsOfSection
  <2>. HIDE DEF C
  <2>. QED
    BY <1>2, <2>1
<1>. HIDE DEF Of, A2, A3, A4, A5, A6
<1>7. IsFiniteSet(A2) /\ Cardinality(A2) = C("Network layer") + C("Kernel socket layer")
  <2>1. IsFiniteSet(Of("Network layer")) /\ IsFiniteSet(Of("Kernel socket layer"))
    BY <1>2
  <2>. QED
    BY <1>4, <2>1, DisjointUnion DEF A2
<1>8. IsFiniteSet(A3) /\ Cardinality(A3) = Cardinality(A2) + C("Web server")
        /\ Cardinality(A2) \in Nat
  <2>1. IsFiniteSet(A2) /\ IsFiniteSet(Of("Web server"))
    BY <1>2, <1>7
  <2>. QED
    BY <1>4, <2>1, DisjointUnion DEF A3
<1>9. IsFiniteSet(A4) /\ Cardinality(A4) = Cardinality(A3) + C("Application")
        /\ Cardinality(A3) \in Nat
  <2>1. IsFiniteSet(A3) /\ IsFiniteSet(Of("Application"))
    BY <1>2, <1>8
  <2>. QED
    BY <1>4, <2>1, DisjointUnion DEF A4
<1>10. IsFiniteSet(A5) /\ Cardinality(A5) = Cardinality(A4) + C("Database")
        /\ Cardinality(A4) \in Nat
  <2>1. IsFiniteSet(A4) /\ IsFiniteSet(Of("Database"))
    BY <1>2, <1>9
  <2>. QED
    BY <1>4, <2>1, DisjointUnion DEF A5
<1>11. IsFiniteSet(A6) /\ Cardinality(A6) = Cardinality(A5) + C("Response path")
        /\ Cardinality(A5) \in Nat
  <2>1. IsFiniteSet(A5) /\ IsFiniteSet(Of("Response path"))
    BY <1>2, <1>10
  <2>. QED
    BY <1>4, <2>1, DisjointUnion DEF A6
<1>. HIDE DEF C
<1>12. C("Network layer") + C("Kernel socket layer") + C("Web server") + C("Application")
       + C("Database") + C("Response path") = n
  BY <1>1, <1>2, <1>3, <1>7, <1>8, <1>9, <1>10, <1>11
<1>. QED
  BY <1>5, <1>6, <1>12 DEF Sections

-----------------------------------------------------------------------------
(***************************************************************************)
(* Tracer.readKernelSteps, on a text that reads of the file can give.      *)
(***************************************************************************)
ReadableTexts ==
  {text \in Seq(Half) : Coherent(text) /\ \A i \in 1 .. Len(text) : Genuine(text[i])}

(* The types that were recorded, and the name that a broken line can get.  *)
Events ==
  {"EVENT_UNKNOWN"} \cup UNION {{Steps[r][k] : k \in 1 .. Len(Steps[r])} : r \in Requests}

KernelSteps == [request : Requests, line : Nat, right : BOOLEAN, event : Events]

Throwing(text, how) ==
  {i \in Whole(text) : <<text[i].request, text[i].line>> \in Wrapped}
  \cup {i \in DOMAIN how : how[i] = "throws"}

Accepted(text, how) ==
  {i \in Whole(text) \cup {j \in DOMAIN how : how[j] # "skipped"} :
     \A j \in Throwing(text, how) : i < j}

Totals(text, how) == {i \in Accepted(text, how) : IsTotal(text[i])}
Shown(text, how) == Accepted(text, how) \ Totals(text, how)

StepAt(text, how, i) ==
  [request |-> text[i].request, line |-> text[i].line, right |-> i \in Whole(text),
   event |-> IF i \notin Whole(text) /\ how[i] = "renamed" THEN "EVENT_UNKNOWN"
             ELSE Steps[text[i].request][text[i].line]]

LEMMA ReadIs ==
  ASSUME NEW text, NEW how
  PROVE  /\ readKernelSteps(text, how).steps =
              [k \in 1 .. Cardinality(Shown(text, how)) |->
                 StepAt(text, how, Nth(Shown(text, how), k))]
         /\ readKernelSteps(text, how).total =
              IF Totals(text, how) = {} THEN "none"
              ELSE IF Max(Totals(text, how)) \in Whole(text)
                   THEN text[Max(Totals(text, how))].request
                   ELSE "garbled"
  BY Zenon DEF readKernelSteps, Shown, Totals, Accepted, Throwing, StepAt

(* A line that is read begins at its head.                                 *)
LEMMA HeadIs ==
  ASSUME NEW text \in ReadableTexts, NEW i \in Lines(text)
  PROVE  /\ i \in 1 .. Len(text) /\ text[i] \in Half /\ text[i].request \in Requests
         /\ text[i].line \in 1 .. TotalLine(text[i].request) /\ ~ text[i].tail
         /\ text[i].line \in Nat /\ TotalLine(text[i].request) \in Nat
         /\ Place(text[i]) = 2 * text[i].line - 1
<1>1. i \in 1 .. Len(text) /\ ~ text[i].tail
  BY DEF Lines
<1>2. Genuine(text[i])
  BY <1>1 DEF ReadableTexts
<1>3. text[i] \in Half /\ text[i].request \in Requests /\ text[i].line \in Nat
  BY <1>2 DEF Genuine, Half
<1>. QED
  BY <1>1, <1>2, <1>3, TotalLineIs DEF Genuine, Place

(* No line of a request is read twice.                                     *)
LEMMA HeadsDiffer ==
  ASSUME NEW text \in ReadableTexts, NEW i \in Lines(text), NEW j \in Lines(text),
         text[i].request = text[j].request, text[i].line = text[j].line
  PROVE  i = j
<1>1. /\ i \in 1 .. Len(text) /\ j \in 1 .. Len(text) /\ Len(text) \in Nat
      /\ text[i].line \in Nat
      /\ Place(text[i]) = 2 * text[i].line - 1 /\ Place(text[j]) = 2 * text[i].line - 1
  BY HeadIs DEF ReadableTexts
<1>2. Coherent(text)
  BY DEF ReadableTexts
<1>3. CASE i <= j
  <2>1. j \in i .. j
    BY <1>1, <1>3
  <2>2. Place(text[j]) = Place(text[i]) + (j - i)
    BY <1>1, <1>2, <1>3, <2>1 DEF Coherent
  <2>. QED
    BY <1>1, <2>2
<1>4. CASE j <= i
  <2>1. i \in j .. i
    BY <1>1, <1>4
  <2>2. Place(text[i]) = Place(text[j]) + (i - j)
    BY <1>1, <1>2, <1>4, <2>1 DEF Coherent
  <2>. QED
    BY <1>1, <2>2
<1>. QED
  BY <1>1, <1>3, <1>4

LEMMA ShownAre ==
  ASSUME NEW text \in ReadableTexts, NEW how \in Readings(text)
  PROVE  /\ Accepted(text, how) \in SUBSET Lines(text)
         /\ Lines(text) \in SUBSET (1 .. Len(text)) /\ Len(text) \in Nat
         /\ \A S \in SUBSET Lines(text) : S \in SUBSET Nat /\ IsFiniteSet(S)
         /\ \A i \in Shown(text, how) :
              /\ i \in Lines(text) /\ i \in Accepted(text, how)
              /\ text[i].line \in 1 .. Len(Steps[text[i].request])
              /\ StepAt(text, how, i) \in KernelSteps
<1>1. DOMAIN how = Broken(text)
  BY DEF Readings
<1>2. Accepted(text, how) \in SUBSET Lines(text)
  BY <1>1 DEF Accepted, Broken, Whole
<1>3. Len(text) \in Nat /\ IsFiniteSet(1 .. Len(text))
  BY FS_Interval DEF ReadableTexts
<1>4. Lines(text) \in SUBSET (1 .. Len(text))
  BY DEF Lines
<1>5. ASSUME NEW S \in SUBSET Lines(text) PROVE S \in SUBSET Nat /\ IsFiniteSet(S)
  <2>1. S \in SUBSET (1 .. Len(text))
    BY <1>4
  <2>2. IsFiniteSet(S)
    BY <1>3, <2>1, FS_Subset
  <2>. QED
    BY <1>3, <2>1, <2>2
<1>6. ASSUME NEW i \in Shown(text, how)
      PROVE  /\ i \in Lines(text) /\ i \in Accepted(text, how)
             /\ text[i].line \in 1 .. Len(Steps[text[i].request])
             /\ StepAt(text, how, i) \in KernelSteps
  <2>. DEFINE r == text[i].request
              l == text[i].line
  <2>1. i \in Accepted(text, how) /\ ~ IsTotal(text[i]) /\ i \in Lines(text)
    BY <1>2 DEF Shown, Totals
  <2>2. r \in Requests /\ l \in Nat /\ l \in 1 .. TotalLine(r) /\ l # TotalLine(r)
    BY <2>1, HeadIs DEF IsTotal
  <2>3. l \in 1 .. Len(Steps[r])
    BY <2>2, TotalLineIs
  <2>4. Steps[r][l] \in Events
    BY <2>2, <2>3 DEF Events
  <2>. HIDE DEF r, l
  <2>5. StepAt(text, how, i) \in KernelSteps
    <3>. DEFINE e == IF i \notin Whole(text) /\ how[i] = "renamed" THEN "EVENT_UNKNOWN"
                     ELSE Steps[r][l]
                right == i \in Whole(text)
    <3>1. e \in Events
      <4>1. "EVENT_UNKNOWN" \in Events
        BY DEF Events
      <4>. QED
        BY <2>4, <4>1, Zenon
    <3>3. right \in BOOLEAN
      OBVIOUS
    <3>2. StepAt(text, how, i) = [request |-> r, line |-> l, right |-> right, event |-> e]
      BY Zenon DEF StepAt, r, l
    <3>. HIDE DEF e, right
    <3>. QED
      BY <2>2, <3>1, <3>2, <3>3 DEF KernelSteps
  <2>. QED
    BY <2>1, <2>3, <2>5 DEF r, l
<1>. QED
  BY <1>2, <1>3, <1>4, <1>5, <1>6

LEMMA ReadSteps ==
  ASSUME NEW text \in ReadableTexts, NEW how \in Readings(text)
  PROVE  LET S == Shown(text, how)
             ks == readKernelSteps(text, how).steps
         IN  /\ IsFiniteSet(S) /\ Cardinality(S) \in Nat
             /\ ks \in Seq(KernelSteps) /\ Len(ks) = Cardinality(S)
             /\ \A k \in 1 .. Cardinality(S) : \E i \in S : ks[k] = StepAt(text, how, i)
             /\ \A i \in S : \E k \in 1 .. Cardinality(S) : ks[k] = StepAt(text, how, i)
<1>. DEFINE S == Shown(text, how)
            n == Cardinality(S)
            ks == readKernelSteps(text, how).steps
            At(i) == StepAt(text, how, i)
<1>1. S \in SUBSET Nat /\ IsFiniteSet(S) /\ \A i \in S : At(i) \in KernelSteps
  <2>1. S \in SUBSET Lines(text)
    BY ShownAre
  <2>. QED
    BY <2>1, ShownAre
<1>2. n \in Nat
  BY <1>1, FS_CardinalityType
<1>3. ks = [k \in 1 .. n |-> At(Nth(S, k))]
  BY ReadIs
<1>. HIDE DEF At, S, n, ks
<1>4. /\ \A k \in 1 .. n : Nth(S, k) \in S
      /\ \A i \in S : \E k \in 1 .. n : Nth(S, k) = i
  BY <1>1, Numbering DEF n
<1>5. \A k \in 1 .. n : At(Nth(S, k)) \in KernelSteps
  BY <1>1, <1>4
<1>6. ks \in Seq(KernelSteps) /\ Len(ks) = n
  BY <1>2, <1>3, <1>5
<1>7. \A k \in 1 .. n : ks[k] = At(Nth(S, k))
  BY <1>3
<1>8. /\ \A k \in 1 .. n : \E i \in S : ks[k] = At(i)
      /\ \A i \in S : \E k \in 1 .. n : ks[k] = At(i)
  BY <1>4, <1>7
<1>. QED
  BY <1>1, <1>2, <1>6, <1>8 DEF At, S, n, ks

-----------------------------------------------------------------------------
(***************************************************************************)
(* A record of merged_requests.jsonl.                                      *)
(***************************************************************************)
LEMMA SectionIs ==
  ASSUME NEW event, NEW stage
  PROVE  /\ kernelSection(event) = event_section(event)
         /\ kernelSection(event) \in Sections
         /\ jvmSection(stage) \in Sections /\ jvmSection(stage) # "Response path"
<1>1. kernelSection(event) = event_section(event)
  BY DEF kernelSection, event_section
<1>2. kernelSection(event) \in Sections
  BY DEF kernelSection, Sections
<1>3. jvmSection(stage) \in Sections /\ jvmSection(stage) # "Response path"
  BY DEF jvmSection, Sections
<1>. QED
  BY <1>1, <1>2, <1>3

LEMMA EntryIs ==
  ASSUME NEW x
  PROVE  /\ KernelEntry(x).layer = "kernel" /\ KernelEntry(x).of = x
         /\ KernelEntry(x).section = event_section(x.event)
         /\ KernelEntry(x).section \in Sections
         /\ JvmEntry(x).layer = "jvm" /\ JvmEntry(x).of = x
         /\ JvmEntry(x).section \in Sections /\ JvmEntry(x).section # "Response path"
  BY SectionIs DEF KernelEntry, JvmEntry

(* The parts of a merged sequence, told apart by what they show.           *)
MergeParts(ks, js, s, q) ==
  LET m == Len(ks)
      l == Len(js)
      jvm == {k \in 1 .. Len(s) : s[k].layer = "jvm"}
      response == {k \in 1 .. Len(s) : s[k].section = "Response path"}
  IN  /\ m \in Nat /\ l \in Nat /\ q \in Nat /\ q <= m /\ Len(s) = m + l
      /\ jvm = (m - q) + 1 .. (m - q) + l /\ Cardinality(jvm) = l
      /\ response = (m - q + l) + 1 .. (m - q + l) + q /\ Cardinality(response) = q
      /\ \A k \in 1 .. Len(s) : s[k].section \in Sections
      /\ {s[k].of : k \in {j \in 1 .. Len(s) : s[j].layer = "kernel"}} = {ks[i] : i \in 1 .. m}

LEMMA MergeShows ==
  ASSUME NEW V, NEW W, NEW ks \in Seq(V), NEW js \in Seq(W), NEW s, NEW q, MergeShape(ks, js, s, q)
  PROVE  MergeParts(ks, js, s, q)
<1>. DEFINE m == Len(ks)
            l == Len(js)
            jvm == {k \in 1 .. Len(s) : s[k].layer = "jvm"}
            response == {k \in 1 .. Len(s) : s[k].section = "Response path"}
            kernel == {k \in 1 .. Len(s) : s[k].layer = "kernel"}
<1>1. m \in Nat /\ l \in Nat /\ q \in Nat /\ q <= m /\ Len(s) = m + l
  <2>1. m \in Nat /\ l \in Nat
    OBVIOUS
  <2>2. q \in 0 .. m /\ Len(s) = m + l
    BY DEF MergeShape
  <2>. QED
    BY <2>1, <2>2
<1>2. /\ q \in 0 .. m /\ Len(s) = m + l
      /\ \A k \in 1 .. m - q : \E i \in 1 .. m :
           s[k] = KernelEntry(ks[i]) /\ s[k].section # "Response path"
      /\ \A k \in 1 .. l : s[m - q + k] = JvmEntry(js[k])
      /\ \A k \in m - q + l + 1 .. m + l : \E i \in 1 .. m :
           s[k] = KernelEntry(ks[i]) /\ s[k].section = "Response path"
      /\ \A i \in 1 .. m : \E k \in 1 .. m + l : s[k] = KernelEntry(ks[i])
  BY DEF MergeShape
<1>. HIDE DEF m, l
<1>3. ASSUME NEW k \in 1 .. m - q
      PROVE  /\ s[k].layer = "kernel" /\ s[k].section \in Sections
             /\ s[k].section # "Response path"
             /\ \E i \in 1 .. m : s[k].of = ks[i]
  <2>1. PICK i \in 1 .. m : s[k] = KernelEntry(ks[i]) /\ s[k].section # "Response path"
    BY <1>2
  <2>2. /\ KernelEntry(ks[i]).layer = "kernel" /\ KernelEntry(ks[i]).of = ks[i]
        /\ KernelEntry(ks[i]).section \in Sections
    BY EntryIs
  <2>. QED
    BY <2>1, <2>2
<1>4. ASSUME NEW k \in (m - q) + 1 .. (m - q) + l
      PROVE  /\ s[k].layer = "jvm" /\ s[k].section \in Sections
             /\ s[k].section # "Response path"
  <2>1. k - (m - q) \in 1 .. l /\ k = m - q + (k - (m - q))
    BY <1>1
  <2>. DEFINE y == js[k - (m - q)]
  <2>2. s[k] = JvmEntry(y)
    BY <1>2, <2>1
  <2>. HIDE DEF y
  <2>3. /\ JvmEntry(y).layer = "jvm" /\ JvmEntry(y).section \in Sections
        /\ JvmEntry(y).section # "Response path"
    BY EntryIs
  <2>. QED
    BY <2>2, <2>3
<1>5. ASSUME NEW k \in (m - q + l) + 1 .. (m - q + l) + q
      PROVE  /\ s[k].layer = "kernel" /\ s[k].section \in Sections
             /\ s[k].section = "Response path"
             /\ \E i \in 1 .. m : s[k].of = ks[i]
  <2>1. k \in m - q + l + 1 .. m + l
    BY <1>1
  <2>2. PICK i \in 1 .. m : s[k] = KernelEntry(ks[i]) /\ s[k].section = "Response path"
    BY <1>2, <2>1
  <2>3. /\ KernelEntry(ks[i]).layer = "kernel" /\ KernelEntry(ks[i]).of = ks[i]
        /\ KernelEntry(ks[i]).section \in Sections
    BY EntryIs
  <2>. QED
    BY <2>2, <2>3
<1>6. \A k \in 1 .. Len(s) : \/ k \in 1 .. m - q
                             \/ k \in (m - q) + 1 .. (m - q) + l
                             \/ k \in (m - q + l) + 1 .. (m - q + l) + q
  BY <1>1
<1>7. /\ \A k \in (m - q) + 1 .. (m - q) + l : k \in 1 .. Len(s)
      /\ \A k \in (m - q + l) + 1 .. (m - q + l) + q : k \in 1 .. Len(s)
  BY <1>1
<1>8. jvm = (m - q) + 1 .. (m - q) + l
  BY <1>3, <1>4, <1>5, <1>6, <1>7
<1>9. response = (m - q + l) + 1 .. (m - q + l) + q
  BY <1>3, <1>4, <1>5, <1>6, <1>7
<1>10. Cardinality(jvm) = l /\ Cardinality(response) = q
  <2>1. m - q \in Int /\ m - q + l \in Int /\ q \in Nat
    BY <1>1
  <2>. HIDE DEF jvm, response
  <2>. QED
    BY <1>1, <1>8, <1>9, <2>1, IntervalIs
<1>11. \A k \in 1 .. Len(s) : s[k].section \in Sections
  BY <1>3, <1>4, <1>5, <1>6
<1>12. ASSUME NEW k \in kernel PROVE \E i \in 1 .. m : s[k].of = ks[i]
  BY <1>3, <1>4, <1>5, <1>6
<1>13. ASSUME NEW i \in 1 .. m PROVE \E k \in kernel : s[k].of = ks[i]
  <2>1. PICK k \in 1 .. m + l : s[k] = KernelEntry(ks[i])
    BY <1>2
  <2>2. KernelEntry(ks[i]).layer = "kernel" /\ KernelEntry(ks[i]).of = ks[i]
    BY EntryIs
  <2>3. k \in 1 .. Len(s) /\ s[k].layer = "kernel" /\ s[k].of = ks[i]
    BY <1>1, <2>1, <2>2
  <2>. QED
    BY <2>3
<1>14. {s[k].of : k \in kernel} = {ks[i] : i \in 1 .. m}
  <2>. HIDE DEF kernel
  <2>. QED
    BY <1>12, <1>13
<1>. QED
  BY <1>1, <1>8, <1>9, <1>10, <1>11, <1>14 DEF m, l, MergeParts

(* What a half line is follows from its place.                             *)
LEMMA PlaceTells ==
  ASSUME NEW x \in Half, NEW d \in Nat
  PROVE  /\ Place(x) = 2 * d - 1 => ~ x.tail /\ x.line = d
         /\ Place(x) = 2 * d => x.tail /\ x.line = d
<1>1. x.line \in Nat /\ x.tail \in BOOLEAN
  BY DEF Half
<1>2. CASE x.tail
  <2>1. Place(x) = 2 * x.line
    BY <1>2 DEF Place
  <2>. QED
    BY <1>1, <1>2, <2>1
<1>3. CASE ~ x.tail
  <2>1. Place(x) = 2 * x.line - 1
    BY <1>3 DEF Place
  <2>. QED
    BY <1>1, <1>3, <2>1
<1>. QED
  BY <1>2, <1>3

LEMMA HeadAtPlace ==
  ASSUME NEW text \in ReadableTexts, NEW j \in 1 .. Len(text), NEW d \in Nat,
         Place(text[j]) = 2 * d - 1,
         j > 1 => Place(text[j - 1]) = 2 * (d - 1) /\ d > 0
  PROVE  j \in Lines(text) /\ text[j].line = d
<1>1. text \in Seq(Half) /\ Len(text) \in Nat /\ \A i \in 1 .. Len(text) : text[i] \in Half
  BY DEF ReadableTexts
<1>2. ~ text[j].tail /\ text[j].line = d
  BY <1>1, PlaceTells
<1>3. j = 1 \/ text[j - 1].tail
  <2>. SUFFICES ASSUME j # 1 PROVE text[j - 1].tail
    OBVIOUS
  <2>1. j > 1 /\ j - 1 \in 1 .. Len(text)
    BY <1>1
  <2>2. Place(text[j - 1]) = 2 * (d - 1) /\ d - 1 \in Nat
    BY <2>1
  <2>. QED
    BY <1>1, <2>1, <2>2, PlaceTells
<1>. QED
  BY <1>2, <1>3 DEF Lines

LEMMA WholeAtPlace ==
  ASSUME NEW text \in ReadableTexts, NEW j \in Lines(text), j < Len(text),
         text[j + 1].request = text[j].request,
         Place(text[j + 1]) = Place(text[j]) + 1
  PROVE  j \in Whole(text)
<1>. DEFINE x == text[j]
            y == text[j + 1]
<1>1. j \in 1 .. Len(text) /\ Len(text) \in Nat /\ j + 1 \in 1 .. Len(text)
  BY HeadIs DEF ReadableTexts
<1>2. x \in Half /\ y \in Half
  BY <1>1 DEF ReadableTexts
<1>3. ~ x.tail /\ x.line \in Nat /\ Place(x) = 2 * x.line - 1
  BY HeadIs
<1>4. y.request = x.request /\ Place(y) = 2 * x.line
  BY <1>3
<1>. HIDE DEF x, y
<1>5. y.tail /\ y.line = x.line
  BY <1>2, <1>3, <1>4, PlaceTells
<1>6. y.tail = TRUE
  BY <1>2, <1>5 DEF Half
<1>7. y = [x EXCEPT !.tail = TRUE]
  BY <1>2, <1>4, <1>5, <1>6 DEF Half
<1>. QED
  BY <1>1, <1>7 DEF Whole, x, y

(* A text that is a beginning of the one that was written of a request.    *)
LEMMA OneText ==
  ASSUME NEW text \in ReadableTexts, NEW r \in Requests, Beginning(text, r)
  PROVE  /\ \A i \in Lines(text) : /\ text[i].request = r /\ i = 2 * text[i].line - 1
                                   /\ i < Len(text) => i \in Whole(text)
         /\ \A d \in Nat \ {0} : 2 * d - 1 <= Len(text) =>
              2 * d - 1 \in Lines(text) /\ text[2 * d - 1].line = d
<1>1. text \in Seq(Half) /\ Len(text) \in Nat
  BY DEF ReadableTexts
<1>2. \A i \in 1 .. Len(text) : text[i].request = r /\ Place(text[i]) = i
  BY <1>1, BeginningIs
<1>3. ASSUME NEW i \in Lines(text)
      PROVE  /\ text[i].request = r /\ i = 2 * text[i].line - 1
             /\ i < Len(text) => i \in Whole(text)
  <2>1. i \in 1 .. Len(text) /\ Place(text[i]) = 2 * text[i].line - 1
    BY HeadIs
  <2>2. ASSUME i < Len(text) PROVE i \in Whole(text)
    <3>1. i + 1 \in 1 .. Len(text)
      BY <1>1, <2>1, <2>2
    <3>2. text[i + 1].request = text[i].request /\ Place(text[i + 1]) = Place(text[i]) + 1
      BY <1>2, <2>1, <3>1
    <3>. QED
      BY <2>2, <3>2, WholeAtPlace
  <2>. QED
    BY <1>2, <2>1, <2>2
<1>4. ASSUME NEW d \in Nat \ {0}, 2 * d - 1 <= Len(text)
      PROVE  2 * d - 1 \in Lines(text) /\ text[2 * d - 1].line = d
  <2>. DEFINE j == 2 * d - 1
  <2>1. j \in 1 .. Len(text) /\ (j > 1 => j - 1 \in 1 .. Len(text) /\ j - 1 = 2 * (d - 1) /\ d > 0)
    BY <1>1, <1>4
  <2>2. Place(text[j]) = 2 * d - 1
    BY <1>2, <2>1
  <2>3. j > 1 => Place(text[j - 1]) = 2 * (d - 1) /\ d > 0
    <3>. SUFFICES ASSUME j > 1 PROVE Place(text[j - 1]) = 2 * (d - 1) /\ d > 0
      OBVIOUS
    <3>1. j - 1 \in 1 .. Len(text) /\ j - 1 = 2 * (d - 1) /\ d > 0
      BY <2>1
    <3>. QED
      BY <1>2, <3>1
  <2>. HIDE DEF j
  <2>4. j \in Lines(text) /\ text[j].line = d
    BY <2>1, <2>2, <2>3, HeadAtPlace
  <2>. QED
    BY <2>4 DEF j
<1>. QED
  BY <1>3, <1>4

(* What writeMergedRequest makes of a text.                                *)
IsRecord(rec, text, how) ==
  LET kernel == readKernelSteps(text, how)
  IN  /\ rec.request \in Requests
      /\ rec.steps = buildMergedSteps(kernel.steps, Spans[rec.request])
      /\ rec.sections = StepsOfSection(rec.steps)
      /\ rec.kernel_total = IF kernel.steps = <<>> THEN "none" ELSE kernel.total
      /\ ~ rec.overwritten => \E r \in Requests : Beginning(text, r)

JvmSpans == [stage : STRING, k : Nat]

LEMMA RecordMerges ==
  ASSUME NEW text \in ReadableTexts, NEW how \in Readings(text), NEW rec, IsRecord(rec, text, how)
  PROVE  LET ks == readKernelSteps(text, how).steps
             js == Spans[rec.request]
         IN  /\ ks \in Seq(KernelSteps) /\ js \in Seq(JvmSpans)
             /\ Len(ks) = Cardinality(Shown(text, how))
             /\ rec.steps \in Seq(Entries(KernelSteps, JvmSpans))
             /\ \E q : MergeShape(ks, js, rec.steps, q)
             /\ {ks[i] : i \in 1 .. Len(ks)} = {StepAt(text, how, i) : i \in Shown(text, how)}
<1>. DEFINE ks == readKernelSteps(text, how).steps
            js == Spans[rec.request]
            S == Shown(text, how)
            At(i) == StepAt(text, how, i)
<1>1. js \in Seq(JvmSpans) /\ rec.steps = buildMergedSteps(ks, js)
  BY HandoffAssumption DEF IsRecord, JvmSpans
<1>2. /\ ks \in Seq(KernelSteps) /\ Len(ks) = Cardinality(S)
      /\ \A k \in 1 .. Cardinality(S) : \E i \in S : ks[k] = At(i)
      /\ \A i \in S : \E k \in 1 .. Cardinality(S) : ks[k] = At(i)
  BY ReadSteps
<1>. HIDE DEF ks, js, S, At
<1>3. rec.steps \in Seq(Entries(KernelSteps, JvmSpans)) /\ \E q : MergeShape(ks, js, rec.steps, q)
  BY <1>1, <1>2, MergedSteps
<1>4. {ks[i] : i \in 1 .. Len(ks)} = {At(i) : i \in S}
  BY <1>2
<1>. QED
  BY <1>1, <1>2, <1>3, <1>4 DEF ks, js, S, At

LEMMA PartIs ==
  ASSUME NEW text \in ReadableTexts, NEW how \in Readings(text), NEW rec, IsRecord(rec, text, how)
  PROVE  /\ KernelPart(rec) = {StepAt(text, how, i) : i \in Shown(text, how)}
         /\ \A i, j \in Shown(text, how) :
              text[i].request = text[j].request /\ text[i].line = text[j].line => i = j
         /\ Cardinality(KernelPart(rec)) = Cardinality(Shown(text, how))
         /\ Cardinality(Shown(text, how)) \in Nat
         /\ Len(rec.steps) = Cardinality(Shown(text, how)) + Len(Spans[rec.request])
<1>. DEFINE ks == readKernelSteps(text, how).steps
            js == Spans[rec.request]
            S == Shown(text, how)
            At(i) == StepAt(text, how, i)
            f == [i \in S |-> At(i)]
<1>1. /\ ks \in Seq(KernelSteps) /\ js \in Seq(JvmSpans) /\ Len(ks) = Cardinality(S)
      /\ \E q : MergeShape(ks, js, rec.steps, q)
      /\ {ks[i] : i \in 1 .. Len(ks)} = {At(i) : i \in S}
  BY RecordMerges
<1>2. PICK q : MergeShape(ks, js, rec.steps, q)
  BY <1>1
<1>. HIDE DEF ks, js
<1>3. /\ Len(rec.steps) = Len(ks) + Len(js)
      /\ {rec.steps[k].of : k \in {j \in 1 .. Len(rec.steps) : rec.steps[j].layer = "kernel"}}
           = {ks[i] : i \in 1 .. Len(ks)}
  <2>1. MergeParts(ks, js, rec.steps, q)
    BY <1>1, <1>2, MergeShows
  <2>. QED
    BY <2>1 DEF MergeParts
<1>4. KernelPart(rec) = {At(i) : i \in S}
  BY <1>1, <1>3 DEF KernelPart
<1>5. \A i, j \in S : text[i].request = text[j].request /\ text[i].line = text[j].line => i = j
  <2>1. \A i \in S : i \in Lines(text)
    BY ShownAre
  <2>. QED
    BY <2>1, HeadsDiffer
<1>6. \A i \in S : At(i).request = text[i].request /\ At(i).line = text[i].line
  BY DEF StepAt
<1>7. IsFiniteSet(S) /\ Cardinality(S) \in Nat
  BY ReadSteps
<1>. HIDE DEF S, At
<1>8. \A i, j \in S : At(i) = At(j) => i = j
  BY <1>5, <1>6
<1>9. Cardinality({At(i) : i \in S}) = Cardinality(S)
  <2>. DEFINE T == {At(i) : i \in S}
  <2>1. f \in [S -> T] /\ \A i \in S : f[i] = At(i)
    OBVIOUS
  <2>2. \A y \in T : \E i \in S : At(i) = y
    OBVIOUS
  <2>. HIDE DEF f, T
  <2>3. (\A i, j \in S : f[i] = f[j] => i = j) /\ \A y \in T : \E i \in S : f[i] = y
    BY <1>8, <2>1, <2>2
  <2>4. Cardinality(T) = Cardinality(S)
    BY <1>7, <2>1, <2>3, SameNumber
  <2>. QED
    BY <2>4 DEF T
<1>. QED
  BY <1>1, <1>3, <1>4, <1>5, <1>7, <1>9 DEF S, At, js

(* Before a replacement, what is read is accepted from the start of the    *)
(* text on, and only its last line can be broken.                          *)
LEMMA AcceptedFromStart ==
  ASSUME NEW text \in ReadableTexts, NEW how \in Readings(text),
         NEW r \in Requests, Beginning(text, r),
         NEW i \in Accepted(text, how), NEW j \in Lines(text), j < i
  PROVE  j \in Whole(text) /\ j \in Accepted(text, how)
<1>1. i \in Lines(text) /\ i \in 1 .. Len(text) /\ j \in 1 .. Len(text) /\ Len(text) \in Nat
  BY ShownAre, HeadIs
<1>2. j < Len(text)
  BY <1>1
<1>3. j \in Whole(text)
  BY <1>2, OneText
<1>4. \A k \in Throwing(text, how) : k \in Lines(text)
  BY DEF Throwing, Readings, Whole, Broken
<1>5. \A k \in Throwing(text, how) : k \in 1 .. Len(text) /\ i < k
  BY <1>4, HeadIs DEF Accepted
<1>6. \A k \in Throwing(text, how) : j < k
  BY <1>1, <1>5
<1>. QED
  BY <1>3, <1>6 DEF Accepted

LEMMA RecordFirstOnes ==
  ASSUME NEW text \in ReadableTexts, NEW how \in Readings(text), NEW rec, IsRecord(rec, text, how)
  PROVE  FirstOnes(rec)
<1>. DEFINE S == Shown(text, how)
            At(i) == StepAt(text, how, i)
            part == KernelPart(rec)
            c == Cardinality(S)
<1>1. /\ part = {At(i) : i \in S} /\ Cardinality(part) = c /\ c \in Nat
      /\ \A i, j \in S :
           text[i].request = text[j].request /\ text[i].line = text[j].line => i = j
      /\ Len(rec.steps) = c + Len(Spans[rec.request])
  BY PartIs
<1>2. \A i \in S : /\ At(i).request = text[i].request /\ At(i).line = text[i].line
                   /\ At(i).right <=> i \in Whole(text)
  BY DEF StepAt
<1>3. /\ \A i \in S : i \in Accepted(text, how) /\ i \in Lines(text)
      /\ \A i \in S : ~ IsTotal(text[i])
      /\ \A i \in Accepted(text, how) : ~ IsTotal(text[i]) => i \in S
  BY ShownAre DEF Shown, Totals
<1>4. IsFiniteSet(S)
  BY ReadSteps
<1>. HIDE DEF S, At, part, c
<1>5. \A x, y \in part : x.request = y.request /\ x.line = y.line => x = y
  BY <1>1, <1>2
<1>6. ASSUME ~ rec.overwritten
      PROVE  /\ \A x, y \in part : x.request = y.request
             /\ {x.line : x \in part} = 1 .. c
             /\ \A x \in part : x.line < c => x.right
  <2>1. PICK r \in Requests : Beginning(text, r)
    BY <1>6 DEF IsRecord
  <2>2. /\ \A i \in Lines(text) : /\ text[i].request = r /\ i = 2 * text[i].line - 1
                                  /\ i < Len(text) => i \in Whole(text)
        /\ \A d \in Nat \ {0} : 2 * d - 1 <= Len(text) =>
              2 * d - 1 \in Lines(text) /\ text[2 * d - 1].line = d
    BY <2>1, OneText
  <2>3. \A i \in Lines(text) : /\ i \in 1 .. Len(text) /\ text[i].line \in 1 .. TotalLine(r)
                               /\ text[i].line \in Nat
    BY <2>2, HeadIs
  <2>4. Len(text) \in Nat /\ TotalLine(r) \in Nat
    BY TotalLineIs DEF ReadableTexts
  <2>. DEFINE D == {text[i].line : i \in S}
  <2>5. D \in SUBSET (Nat \ {0})
    BY <1>3, <2>3, <2>4
  <2>6. ASSUME NEW i \in S, NEW e \in Nat \ {0}, e < text[i].line
        PROVE  2 * e - 1 \in S /\ text[2 * e - 1].line = e
    <3>1. i \in Lines(text) /\ i = 2 * text[i].line - 1 /\ i \in 1 .. Len(text)
          /\ text[i].line \in 1 .. TotalLine(r)
      BY <1>3, <2>2, <2>3
    <3>. DEFINE j == 2 * e - 1
    <3>2. j \in Nat /\ j < i /\ j <= Len(text) /\ j = 2 * e - 1
      BY <2>4, <2>6, <3>1
    <3>3. j \in Lines(text) /\ text[j].line = e
      BY <2>2, <3>2
    <3>. HIDE DEF j
    <3>4. j \in Accepted(text, how)
      <4>1. i \in Accepted(text, how)
        BY <1>3
      <4>. QED
        BY <2>1, <3>2, <3>3, <4>1, AcceptedFromStart
    <3>5. ~ IsTotal(text[j])
      <4>1. text[j].request = r
        BY <2>2, <3>3
      <4>2. text[j].line < TotalLine(r)
        BY <2>4, <2>6, <3>1, <3>3
      <4>. QED
        BY <2>4, <4>1, <4>2, <3>3 DEF IsTotal
    <3>. QED
      BY <1>3, <3>3, <3>4, <3>5 DEF j
  <2>7. ASSUME NEW d \in D, NEW e \in 1 .. d PROVE e \in D
    <3>1. PICK i \in S : d = text[i].line
      OBVIOUS
    <3>2. CASE e = d
      BY <3>2
    <3>3. CASE e # d
      <4>. HIDE DEF D
      <4>1. d \in Nat /\ d # 0
        BY <2>5
      <4>3. e \in Nat \ {0} /\ e < d
        BY <2>7, <3>3, <4>1
      <4>2. 2 * e - 1 \in S /\ text[2 * e - 1].line = e
        BY <2>6, <3>1, <4>3
      <4>. QED
        BY <4>2 DEF D
    <3>. QED
      BY <3>2, <3>3
  <2>8. IsFiniteSet(D) /\ Cardinality(D) = c
    <3>. DEFINE f == [i \in S |-> text[i].line]
    <3>1. f \in [S -> D] /\ \A i \in S : f[i] = text[i].line
      OBVIOUS
    <3>2. \A y \in D : \E i \in S : text[i].line = y
      OBVIOUS
    <3>3. \A i, j \in S : text[i].line = text[j].line => i = j
      BY <1>1, <1>3, <2>2
    <3>. HIDE DEF f, D
    <3>4. (\A i, j \in S : f[i] = f[j] => i = j) /\ \A y \in D : \E i \in S : f[i] = y
      BY <3>1, <3>2, <3>3
    <3>. QED
      BY <1>4, <3>1, <3>4, SameNumber DEF c
  <2>9. D = 1 .. c
    <3>. HIDE DEF D
    <3>. QED
      BY <2>5, <2>7, <2>8, InitialSegment
  <2>10. {x.line : x \in part} = D
    BY <1>1, <1>2
  <2>11. \A x, y \in part : x.request = y.request
    BY <1>1, <1>2, <1>3, <2>2
  <2>12. ASSUME NEW x \in part, x.line < c PROVE x.right
    <3>1. PICK i \in S : x = At(i)
      BY <1>1
    <3>2. text[i].line < c /\ text[i].line \in Nat
      BY <1>2, <1>3, <2>3, <2>12, <3>1
    <3>3. text[i].line + 1 \in D
      <4>1. text[i].line + 1 \in 1 .. c
        BY <1>1, <3>2
      <4>. HIDE DEF D
      <4>. QED
        BY <2>9, <4>1
    <3>4. PICK j \in S : text[j].line = text[i].line + 1
      BY <3>3
    <3>5. i \in Lines(text) /\ j \in Lines(text) /\ i = 2 * text[i].line - 1 /\ j = 2 * text[j].line - 1
      BY <1>3, <2>2
    <3>6. j \in 1 .. Len(text)
      BY <2>3, <3>5
    <3>7. i < Len(text)
      BY <2>4, <3>2, <3>4, <3>5, <3>6
    <3>8. i \in Whole(text)
      BY <2>2, <3>5, <3>7
    <3>. QED
      BY <1>2, <3>1, <3>8
  <2>. QED
    BY <2>9, <2>10, <2>11, <2>12
<1>. QED
  BY <1>1, <1>5, <1>6 DEF FirstOnes, part

(* The line whose number is reported as the total.                         *)
LEMMA TotalIs ==
  ASSUME NEW text \in ReadableTexts, NEW how \in Readings(text), NEW rec, IsRecord(rec, text, how),
         rec.kernel_total \in Requests
  PROVE  \E m \in Accepted(text, how) :
           /\ m \in Whole(text) /\ m \in Lines(text)
           /\ text[m].request = rec.kernel_total
           /\ text[m].line = TotalLine(rec.kernel_total)
<1>. DEFINE T == Totals(text, how)
            m == Max(T)
            q == rec.kernel_total
<1>1. q # "none" /\ q # "garbled"
  BY HandoffAssumption
<1>2. q = readKernelSteps(text, how).total
  BY <1>1 DEF IsRecord
<1>3. readKernelSteps(text, how).total =
        IF T = {} THEN "none" ELSE IF m \in Whole(text) THEN text[m].request ELSE "garbled"
  BY ReadIs
<1>. HIDE DEF T, m, q
<1>4. T # {} /\ m \in Whole(text) /\ text[m].request = q
  BY <1>1, <1>2, <1>3
<1>5. T \in SUBSET Nat /\ IsFiniteSet(T)
  <2>1. T \in SUBSET Lines(text)
    BY ShownAre DEF T, Totals
  <2>. QED
    BY <2>1, ShownAre
<1>6. m \in T
  BY <1>4, <1>5, MaxIs DEF m
<1>7. m \in Accepted(text, how) /\ IsTotal(text[m])
  BY <1>6 DEF T, Totals
<1>8. m \in Lines(text) /\ text[m].line = TotalLine(q)
  BY <1>4, <1>7, ShownAre DEF IsTotal
<1>. QED
  BY <1>4, <1>7, <1>8 DEF q

(* What stands between a line of a request and its total is shown.         *)
LEMMA BeforeTotal ==
  ASSUME NEW text \in ReadableTexts, NEW how \in Readings(text),
         NEW m \in Accepted(text, how), NEW q \in Requests,
         text[m].request = q, text[m].line = TotalLine(q),
         NEW i \in Shown(text, how), text[i].request = q,
         NEW y \in text[i].line .. Len(Steps[q])
  PROVE  \E j \in Shown(text, how) :
           text[j].request = q /\ text[j].line = y /\ j \in Whole(text)
<1>. DEFINE a == text[i].line
            t == TotalLine(q)
            n == Len(text)
            j == i + 2 * (y - a)
<1>1. /\ m \in Lines(text) /\ i \in Lines(text) /\ n \in Nat /\ n = Len(text)
      /\ i \in 1 .. n /\ m \in 1 .. n
  BY ShownAre, HeadIs
<1>2. /\ Place(text[i]) = 2 * a - 1 /\ Place(text[m]) = 2 * t - 1
      /\ a \in Nat /\ a > 0 /\ ~ text[i].tail
  BY <1>1, HeadIs
<1>3. Len(Steps[q]) \in Nat /\ t = Len(Steps[q]) + 1 /\ t \in Nat /\ a <= Len(Steps[q])
  BY TotalLineIs, ShownAre
<1>. HIDE DEF j
<1>4. \A u, v \in 1 .. Len(text) : u <= v /\ text[u].request = text[v].request =>
        \A k \in u .. v : /\ text[k].request = text[u].request
                          /\ Place(text[k]) = Place(text[u]) + (k - u)
  BY DEF ReadableTexts, Coherent
<1>5. i < m
  <2>. SUFFICES ASSUME m <= i PROVE FALSE
    BY <1>1
  <2>1. i \in m .. i
    BY <1>1
  <2>2. Place(text[i]) = Place(text[m]) + (i - m)
    BY <1>1, <1>4, <2>1
  <2>3. 2 * a - 1 = 2 * t - 1 + (i - m)
    BY <1>2, <2>2
  <2>4. i \in Int /\ m \in Int /\ m <= i
    BY <1>1
  <2>. HIDE DEF a, t
  <2>. QED
    BY <1>2, <1>3, <2>3, <2>4
<1>6. \A k \in i .. m : text[k].request = q /\ Place(text[k]) = 2 * a - 1 + (k - i)
  <2>1. text[i].request = text[m].request /\ text[i].request = q /\ i <= m
    BY <1>1, <1>5
  <2>2. i \in 1 .. Len(text) /\ m \in 1 .. Len(text)
    BY <1>1
  <2>3. \A k \in i .. m : /\ text[k].request = text[i].request
                          /\ Place(text[k]) = Place(text[i]) + (k - i)
    BY <1>4, <2>1, <2>2
  <2>. QED
    BY <1>2, <2>1, <2>3
<1>. HIDE DEF a, t, n
<1>7. m = i + 2 * (t - a)
  <2>1. m \in i .. m
    BY <1>1, <1>5
  <2>2. 2 * t - 1 = 2 * a - 1 + (m - i)
    BY <1>2, <1>6, <2>1
  <2>3. m \in Int /\ i \in Int
    BY <1>1
  <2>. QED
    BY <1>2, <1>3, <2>2, <2>3
<1>8. y \in Nat /\ a <= y /\ y < t /\ y > 0
  BY <1>2, <1>3 DEF a
<1>9. j \in i .. m /\ j < m /\ j + 1 \in i .. m /\ j \in 1 .. n /\ j < n /\ j = i + 2 * (y - a)
  <2>1. i \in Nat /\ m \in Nat /\ i >= 1 /\ m <= n
    BY <1>1
  <2>2. j = i + 2 * (y - a)
    BY DEF j
  <2>3. j \in Nat /\ i <= j /\ j < m
    BY <1>2, <1>3, <1>7, <1>8, <2>1, <2>2
  <2>. QED
    BY <1>1, <2>1, <2>2, <2>3
<1>10. /\ text[j].request = q /\ Place(text[j]) = 2 * y - 1
       /\ text[j + 1].request = q /\ Place(text[j + 1]) = 2 * y
  <2>1. 2 * a - 1 + (j - i) = 2 * y - 1 /\ 2 * a - 1 + ((j + 1) - i) = 2 * y
    BY <1>1, <1>2, <1>8, <1>9
  <2>. QED
    BY <1>6, <1>9, <2>1
<1>11. j \in Lines(text) /\ text[j].line = y
  <2>1. CASE y = a
    <3>1. j = i
      BY <1>1, <1>2, <1>9, <2>1
    <3>. QED
      BY <1>1, <2>1, <3>1 DEF a
  <2>2. CASE y # a
    <3>1. j - 1 \in i .. m
      BY <1>1, <1>2, <1>8, <1>9, <2>2
    <3>2. 2 * a - 1 + ((j - 1) - i) = 2 * (y - 1)
      BY <1>1, <1>2, <1>8, <1>9
    <3>3. Place(text[j - 1]) = 2 * (y - 1) /\ y > 0
      BY <1>6, <1>8, <3>1, <3>2
    <3>4. j \in 1 .. Len(text)
      BY <1>9 DEF n
    <3>. QED
      BY <1>8, <1>10, <3>3, <3>4, HeadAtPlace
  <2>. QED
    BY <2>1, <2>2
<1>12. j \in Whole(text)
  <2>1. Place(text[j + 1]) = Place(text[j]) + 1
    BY <1>8, <1>10
  <2>2. j < Len(text)
    BY <1>9 DEF n
  <2>. QED
    BY <1>10, <1>11, <2>1, <2>2, WholeAtPlace
<1>13. j \in Accepted(text, how)
  <2>1. \A k \in Throwing(text, how) : k \in Lines(text) /\ m < k
    BY DEF Throwing, Readings, Whole, Broken, Accepted
  <2>2. \A k \in Throwing(text, how) : k \in 1 .. n /\ m < k
    BY <2>1, HeadIs DEF n
  <2>3. \A k \in Throwing(text, how) : j < k
    BY <1>1, <1>9, <2>2
  <2>. QED
    BY <1>12, <2>3 DEF Accepted
<1>14. ~ IsTotal(text[j])
  BY <1>8, <1>10, <1>11, <1>3 DEF IsTotal, t
<1>. QED
  BY <1>10, <1>11, <1>12, <1>13, <1>14 DEF Shown, Totals

LEMMA RecordShowsAll ==
  ASSUME NEW text \in ReadableTexts, NEW how \in Readings(text), NEW rec, IsRecord(rec, text, how)
  PROVE  ShowsAll(rec)
<1>. SUFFICES ASSUME rec.kernel_total \in Requests PROVE ShowsAll(rec)
  BY DEF ShowsAll
<1>. DEFINE S == Shown(text, how)
            At(i) == StepAt(text, how, i)
            part == KernelPart(rec)
            q == rec.kernel_total
            shown == {x.line : x \in {y \in part : y.request = q /\ y.right}}
<1>1. part = {At(i) : i \in S}
  BY PartIs
<1>2. \A i \in S : /\ At(i).request = text[i].request /\ At(i).line = text[i].line
                   /\ At(i).right <=> i \in Whole(text)
  BY DEF StepAt
<1>3. /\ \A i \in S : i \in Accepted(text, how) /\ i \in Lines(text)
      /\ \A i \in S : text[i].line \in 1 .. Len(Steps[text[i].request]) /\ ~ IsTotal(text[i])
      /\ \A i \in Accepted(text, how) : ~ IsTotal(text[i]) => i \in S
  BY ShownAre DEF Shown, Totals
<1>4. PICK m \in Accepted(text, how) :
        /\ m \in Whole(text) /\ m \in Lines(text)
        /\ text[m].request = q /\ text[m].line = TotalLine(q)
  BY TotalIs
<1>5. Len(Steps[q]) \in Nat /\ Len(Steps[q]) >= 1 /\ TotalLine(q) = Len(Steps[q]) + 1
  BY TotalLineIs
<1>6. \A i \in S : text[i].request = q =>
        \A y \in text[i].line .. Len(Steps[q]) :
          \E j \in S : text[j].request = q /\ text[j].line = y /\ j \in Whole(text)
  BY <1>4, BeforeTotal
<1>. HIDE DEF S, At, part
<1>7. \A y : y \in shown <=>
        \E j \in S : text[j].request = q /\ text[j].line = y /\ j \in Whole(text)
  BY <1>1, <1>2
<1>. HIDE DEF shown
<1>8. ASSUME NEW x \in shown PROVE x .. Len(Steps[q]) \subseteq shown
  <2>1. PICK i \in S : text[i].request = q /\ text[i].line = x /\ i \in Whole(text)
    BY <1>7
  <2>. QED
    BY <1>6, <1>7, <2>1
<1>9. ASSUME ~ rec.overwritten
      PROVE  shown = 1 .. Len(Steps[q]) /\ \A x \in part : x.request = q /\ x.right
  <2>1. PICK r \in Requests : Beginning(text, r)
    BY <1>9 DEF IsRecord
  <2>2. /\ \A i \in Lines(text) : /\ text[i].request = r /\ i = 2 * text[i].line - 1
                                  /\ i < Len(text) => i \in Whole(text)
        /\ \A d \in Nat \ {0} : 2 * d - 1 <= Len(text) =>
              2 * d - 1 \in Lines(text) /\ text[2 * d - 1].line = d
    BY <2>1, OneText
  <2>3. r = q /\ m = 2 * TotalLine(q) - 1 /\ m \in 1 .. Len(text) /\ Len(text) \in Nat
    BY <1>4, <2>2, HeadIs DEF ReadableTexts
  <2>4. ASSUME NEW i \in S PROVE text[i].request = q /\ i \in Whole(text)
    <3>1. /\ i \in Lines(text) /\ i = 2 * text[i].line - 1 /\ text[i].request = q
          /\ text[i].line \in 1 .. Len(Steps[q])
      BY <1>3, <2>2, <2>3
    <3>2. i < Len(text)
      BY <1>5, <2>3, <3>1
    <3>. QED
      BY <2>2, <3>1, <3>2
  <2>5. 1 \in S /\ text[1].request = q /\ text[1].line = 1
    <3>1. 2 * 1 - 1 = 1 /\ 1 <= Len(text) /\ 1 < m
      BY <1>5, <2>3
    <3>2. 1 \in Lines(text) /\ text[1].line = 1 /\ text[1].request = q
      BY <2>2, <2>3, <3>1
    <3>3. 1 \in Accepted(text, how)
      BY <2>1, <3>1, <3>2, AcceptedFromStart
    <3>4. ~ IsTotal(text[1])
      BY <1>5, <3>2 DEF IsTotal
    <3>. QED
      BY <1>3, <3>2, <3>3, <3>4
  <2>6. 1 \in shown
    BY <1>7, <2>4, <2>5
  <2>7. \A y \in shown : y \in 1 .. Len(Steps[q])
    BY <1>3, <1>7
  <2>8. shown = 1 .. Len(Steps[q])
    BY <1>8, <2>6, <2>7
  <2>. QED
    BY <1>1, <1>2, <2>4, <2>8
<1>. QED
  BY <1>8, <1>9 DEF ShowsAll, shown, part

LEMMA RecordWellMerged ==
  ASSUME NEW text \in ReadableTexts, NEW how \in Readings(text), NEW rec, IsRecord(rec, text, how)
  PROVE  WellMerged(rec)
<1>. DEFINE s == rec.steps
            ks == readKernelSteps(text, how).steps
            js == Spans[rec.request]
            n == Len(s)
            m == Len(ks)
            l == Len(js)
            jvm == {k \in 1 .. n : s[k].layer = "jvm"}
            response == {k \in 1 .. n : s[k].section = "Response path"}
            part == KernelPart(rec)
<1>1. /\ ks \in Seq(KernelSteps) /\ js \in Seq(JvmSpans) /\ s \in Seq(Entries(KernelSteps, JvmSpans))
      /\ \E q : MergeShape(ks, js, s, q)
      /\ {ks[i] : i \in 1 .. m} = {StepAt(text, how, i) : i \in Shown(text, how)}
  BY RecordMerges
<1>2. PICK q : MergeShape(ks, js, s, q)
  BY <1>1
<1>. HIDE DEF ks, js, s
<1>3. MergeParts(ks, js, s, q)
  BY <1>1, <1>2, MergeShows
<1>4. /\ m \in Nat /\ l \in Nat /\ q \in Nat /\ q <= m /\ n = m + l
      /\ jvm = (m - q) + 1 .. (m - q) + l /\ Cardinality(jvm) = l
      /\ response = (m - q + l) + 1 .. (m - q + l) + q /\ Cardinality(response) = q
      /\ \A k \in 1 .. n : s[k].section \in Sections
  BY <1>3 DEF MergeParts
<1>5. part = {ks[i] : i \in 1 .. m}
  BY <1>3 DEF MergeParts, KernelPart, s
<1>6. /\ \A k \in 1 .. l : s[m - q + k] = JvmEntry(js[k])
      /\ \A i \in 1 .. m : \E k \in 1 .. m + l : s[k] = KernelEntry(ks[i])
  BY <1>2 DEF MergeShape
<1>. HIDE DEF n, m, jvm, response, part
<1>7. [k \in 1 .. Cardinality(jvm) |-> s[n - Cardinality(response) - Cardinality(jvm) + k].of] = js
  <2>1. \A k \in 1 .. l : n - q - l + k = m - q + k
    BY <1>4
  <2>2. ASSUME NEW k \in 1 .. l PROVE s[n - q - l + k].of = js[k]
    <3>1. s[n - q - l + k] = JvmEntry(js[k])
      BY <1>6, <2>1
    <3>2. JvmEntry(js[k]).of = js[k]
      BY EntryIs
    <3>. QED
      BY <3>1, <3>2
  <2>3. [k \in 1 .. l |-> s[n - q - l + k].of] = [k \in 1 .. l |-> js[k]]
    BY <2>2
  <2>4. js = [k \in 1 .. l |-> js[k]]
    BY <1>1
  <2>. QED
    BY <1>4, <2>3, <2>4
<1>8. response = n - Cardinality(response) + 1 .. n
  <2>1. n - q + 1 = (m - q + l) + 1 /\ n = (m - q + l) + q
    BY <1>4
  <2>. QED
    BY <1>4, <2>1
<1>9. rec.sections["Network layer"] + rec.sections["Kernel socket layer"]
      + rec.sections["Web server"] + rec.sections["Application"]
      + rec.sections["Database"] + rec.sections["Response path"] = n
  <2>1. Len(s) \in Nat /\ \A k \in 1 .. Len(s) : s[k].section \in Sections
    BY <1>4 DEF n
  <2>2. rec.sections = StepsOfSection(s)
    BY DEF IsRecord, s
  <2>. QED
    BY <2>1, <2>2, SectionsAddUp DEF n
<1>10. ASSUME NEW x \in part
       PROVE  \E k \in 1 .. n : /\ s[k].of = x
                                /\ s[k].section = event_section(x.event)
  <2>1. PICK i \in 1 .. m : x = ks[i]
    BY <1>5
  <2>2. PICK k \in 1 .. m + l : s[k] = KernelEntry(x)
    BY <1>6, <2>1
  <2>3. KernelEntry(x).of = x /\ KernelEntry(x).section = event_section(x.event)
    BY EntryIs
  <2>. QED
    BY <1>4, <2>2, <2>3
<1>11. ASSUME rec.kernel_total \in Requests, ~ rec.overwritten,
              NEW k \in 1 .. Len(Steps[rec.kernel_total]),
              event_section(Steps[rec.kernel_total][k]) = "Response path"
       PROVE  \E j \in response : s[j].of.line = k
  <2>. DEFINE r == rec.kernel_total
  <2>1. ShowsAll(rec)
    BY RecordShowsAll
  <2>2. k \in {x.line : x \in {y \in KernelPart(rec) : y.request = r /\ y.right}}
    BY <1>11, <2>1 DEF ShowsAll
  <2>3. PICK x \in part : x.request = r /\ x.right /\ x.line = k
    BY <2>2 DEF part
  <2>4. PICK i \in Shown(text, how) : x = StepAt(text, how, i)
    BY <1>1, <1>5
  <2>5. x.event = Steps[r][k]
    BY <2>3, <2>4 DEF StepAt
  <2>6. PICK j \in 1 .. n : s[j].of = x /\ s[j].section = event_section(x.event)
    BY <1>10
  <2>. QED
    BY <1>11, <2>3, <2>5, <2>6 DEF response
<1>. QED
  BY <1>7, <1>8, <1>9, <1>10, <1>11 DEF WellMerged, s, js, n, jvm, response, part

-----------------------------------------------------------------------------
(***************************************************************************)
(* The theorems of the hand-over.                                          *)
(***************************************************************************)
RecordType ==
  [request : Requests, steps : Seq(Entries(KernelSteps, JvmSpans)), sections : [Sections -> Nat],
   kernel_total : Requests \cup {"none", "garbled"}, overwritten : BOOLEAN]

MergedInv ==
  /\ merged \in Seq(RecordType)
  /\ \A k \in 1 .. Len(merged) :
       FirstOnes(merged[k]) /\ ShowsAll(merged[k]) /\ WellMerged(merged[k])

(* What a read gives is readable, and is a beginning of one text while the *)
(* file was not replaced.                                                  *)
LEMMA ReadGives ==
  ASSUME HandoffInv, NEW t \in Threads, reader[t].open
  PROVE  /\ reader[t].text \in ReadableTexts
         /\ serving[t] \in Requests /\ reader[t].overwritten \in BOOLEAN
         /\ ~ reader[t].overwritten => \E r \in Requests : Beginning(reader[t].text, r)
<1>. DEFINE read == reader[t]
            text == read.text
<1>1. QueueInv /\ FileInv /\ ReadersInv
  BY DEF HandoffInv
<1>2. /\ read \in Reads /\ ReadOf(read, file, Past, Current)
      /\ serving[t] \in Requests \cup {NoRequest} /\ serving[t] # NoRequest
  BY <1>1 DEF ReadersInv
<1>3. text \in ReadableTexts /\ read.overwritten \in BOOLEAN
  BY <1>2 DEF Reads, ReadOf, ReadableTexts
<1>4. ASSUME ~ read.overwritten PROVE \E r \in Requests : Beginning(text, r)
  <2>. DEFINE n == Len(text)
  <2>1. n \in Nat /\ n <= Len(file) /\ Len(file) \in Nat /\ \A i \in 1 .. n : text[i] = file[i]
    BY <1>1, <1>2, <1>3, <1>4 DEF ReadOf, ReadableTexts, FileInv
  <2>2. CASE file = <<>>
    <3>1. Len(file) = 0
      BY <2>2
    <3>2. n = 0 /\ TotalLine(serving[t]) \in Nat
      BY <1>2, <2>1, <3>1, TotalLineIs
    <3>. QED
      BY <1>2, <3>2 DEF Beginning
  <2>3. CASE file # <<>>
    <3>1. PICK r \in Past : Beginning(file, r)
      BY <1>1, <2>3 DEF FileInv
    <3>2. r \in Requests /\ TotalLine(r) \in Nat
      BY <1>1, <3>1, QueueFacts, TotalLineIs
    <3>. HIDE DEF text
    <3>. QED
      BY <2>1, <3>1, <3>2 DEF Beginning
  <2>. QED
    BY <2>2, <2>3
<1>. QED
  BY <1>2, <1>3, <1>4

LEMMA NewRecord ==
  ASSUME HandoffInv, NEW t \in Threads, reader[t].open, NEW how \in Readings(reader[t].text)
  PROVE  LET rec == MergedRequest(t, how)
         IN  rec \in RecordType /\ FirstOnes(rec) /\ ShowsAll(rec) /\ WellMerged(rec)
<1>. DEFINE text == reader[t].text
            kernel == readKernelSteps(text, how)
            rec == MergedRequest(t, how)
            total == IF kernel.steps = <<>> THEN "none" ELSE kernel.total
            steps == buildMergedSteps(kernel.steps, Spans[serving[t]])
<1>1. /\ text \in ReadableTexts /\ serving[t] \in Requests /\ reader[t].overwritten \in BOOLEAN
      /\ ~ reader[t].overwritten => \E r \in Requests : Beginning(text, r)
  BY ReadGives
<1>2. rec = [request |-> serving[t], steps |-> steps, sections |-> StepsOfSection(steps),
             kernel_total |-> total, overwritten |-> reader[t].overwritten]
  BY Zenon DEF MergedRequest
<1>3. /\ rec.request = serving[t] /\ rec.steps = steps /\ rec.sections = StepsOfSection(steps)
      /\ rec.kernel_total = total /\ rec.overwritten = reader[t].overwritten
  <2>. HIDE DEF rec, steps, total
  <2>. QED
    BY <1>2
<1>. HIDE DEF rec
<1>4. IsRecord(rec, text, how)
  BY <1>1, <1>3 DEF IsRecord
<1>5. how \in Readings(text)
  OBVIOUS
<1>6. total \in Requests \cup {"none", "garbled"}
  <2>1. kernel.total = IF Totals(text, how) = {} THEN "none"
                       ELSE IF Max(Totals(text, how)) \in Whole(text)
                            THEN text[Max(Totals(text, how))].request ELSE "garbled"
    BY ReadIs
  <2>2. \A i \in Whole(text) : text[i].request \in Requests
    <3>1. \A i \in Whole(text) : i \in Lines(text)
      BY DEF Whole
    <3>. QED
      BY <1>1, <3>1, HeadIs
  <2>. HIDE DEF kernel, text
  <2>. QED
    BY <2>1, <2>2
<1>. HIDE DEF text, kernel, total, steps
<1>7. steps \in Seq(Entries(KernelSteps, JvmSpans)) /\ StepsOfSection(steps) \in [Sections -> Nat]
  <2>1. /\ rec.steps \in Seq(Entries(KernelSteps, JvmSpans))
    BY <1>1, <1>4, <1>5, RecordMerges
  <2>2. steps \in Seq(Entries(KernelSteps, JvmSpans))
    BY <1>3, <2>1
  <2>3. Len(steps) \in Nat /\ \A k \in 1 .. Len(steps) : steps[k].section \in Sections
    <3>1. \A e \in Entries(KernelSteps, JvmSpans) : e.section \in Sections
      <4>1. \A x : KernelEntry(x).section \in Sections
        BY EntryIs
      <4>2. \A x : JvmEntry(x).section \in Sections
        BY EntryIs
      <4>. QED
        BY <4>1, <4>2 DEF Entries
    <3>. QED
      BY <2>2, <3>1
  <2>. QED
    BY <2>2, <2>3, SectionsAddUp
<1>8. rec \in RecordType
  BY <1>1, <1>2, <1>6, <1>7 DEF RecordType
<1>. QED
  BY <1>1, <1>4, <1>5, <1>8, RecordFirstOnes, RecordShowsAll, RecordWellMerged DEF rec

LEMMA MergedNextInv == HandoffInv /\ MergedInv /\ [HandoffNext]_handoffVars => MergedInv'
<1>. SUFFICES ASSUME HandoffInv, MergedInv, [HandoffNext]_handoffVars PROVE MergedInv'
  OBVIOUS
<1>1. CASE merged' = merged
  BY <1>1 DEF MergedInv
<1>2. CASE Restart
  <2>1. merged' = <<>>
    BY <1>2 DEF Restart
  <2>2. <<>> \in Seq(RecordType) /\ Len(<<>>) = 0
    OBVIOUS
  <2>. QED
    BY <2>1, <2>2 DEF MergedInv
<1>3. ASSUME NEW t \in Threads, WriteMerged(t) PROVE MergedInv'
  <2>1. PICK how \in Readings(reader[t].text) : merged' = Append(merged, MergedRequest(t, how))
    BY <1>3 DEF WriteMerged
  <2>. DEFINE rec == MergedRequest(t, how)
              n == Len(merged)
  <2>2. reader[t].open
    BY <1>3 DEF WriteMerged
  <2>3. rec \in RecordType /\ FirstOnes(rec) /\ ShowsAll(rec) /\ WellMerged(rec)
    BY <2>2, NewRecord
  <2>. HIDE DEF rec
  <2>4. merged' = Append(merged, rec)
    BY <2>1 DEF rec
  <2>5. merged \in Seq(RecordType) /\ n \in Nat
    BY DEF MergedInv
  <2>6. /\ merged' \in Seq(RecordType) /\ Len(merged') = n + 1 /\ merged'[n + 1] = rec
        /\ \A k \in 1 .. n : merged'[k] = merged[k]
    BY <2>3, <2>4, <2>5
  <2>7. ASSUME NEW k \in 1 .. n + 1
        PROVE  FirstOnes(merged'[k]) /\ ShowsAll(merged'[k]) /\ WellMerged(merged'[k])
    <3>1. CASE k = n + 1
      BY <2>3, <2>6, <3>1
    <3>2. CASE k # n + 1
      <4>1. k \in 1 .. n
        BY <2>5, <3>2
      <4>. QED
        BY <2>6, <4>1 DEF MergedInv
    <3>. QED
      BY <3>1, <3>2
  <2>. QED
    BY <2>6, <2>7 DEF MergedInv
<1>4. CASE HandoffNext
  BY <1>1, <1>2, <1>3, <1>4
  DEF HandoffNext, Collector, OpenForWriting, OpenFails, FlushBuffer, CloseFile, Respond, Serve, Dump,
      OpenForReading, Read, agentSide
<1>5. CASE UNCHANGED handoffVars
  BY <1>1, <1>5 DEF handoffVars
<1>. QED
  BY <1>4, <1>5

(* The invariant of which the three theorems below are consequences.       *)
THEOREM HandoffInvariant == HandoffSpec => [](HandoffInv /\ MergedInv)
<1>1. HandoffInit => HandoffInv /\ MergedInv
  <2>. SUFFICES ASSUME HandoffInit PROVE HandoffInv /\ MergedInv
    OBVIOUS
  <2>1. HandoffInv
    BY HandoffInitInv
  <2>2. merged = <<>> /\ <<>> \in Seq(RecordType) /\ Len(<<>>) = 0
    BY DEF HandoffInit
  <2>. QED
    BY <2>1, <2>2 DEF MergedInv
<1>2. HandoffInv /\ MergedInv /\ [HandoffNext]_handoffVars => (HandoffInv /\ MergedInv)'
  BY HandoffNextInv, MergedNextInv
<1>. QED
  BY <1>1, <1>2, PTL DEF HandoffSpec

(* The steps that the agent reads while the collector replaces the file    *)
(* are never doubled, and are the first ones of one request without a gap  *)
(* when the file was not replaced.                                         *)
THEOREM ReadsAreFirstSteps == HandoffSpec => []StepsAreFirstOnes
<1>1. HandoffInv /\ MergedInv => StepsAreFirstOnes
  BY DEF MergedInv, StepsAreFirstOnes, Records
<1>. QED
  BY <1>1, HandoffInvariant, PTL

(* A record that shows the kernel's duration of a request shows the steps  *)
(* of that request to the last.                                            *)
THEOREM TotalShowsTheSteps == HandoffSpec => []TotalMeansComplete
<1>1. HandoffInv /\ MergedInv => TotalMeansComplete
  BY DEF MergedInv, TotalMeansComplete, Records
<1>. QED
  BY <1>1, HandoffInvariant, PTL

(* buildMergedSteps and writeMergedRequest lose and double nothing.        *)
THEOREM MergingLosesNothing == HandoffSpec => []MergedIsComplete
<1>1. HandoffInv /\ MergedInv => MergedIsComplete
  BY DEF MergedInv, MergedIsComplete, Records
<1>. QED
  BY <1>1, HandoffInvariant, PTL
=============================================================================
