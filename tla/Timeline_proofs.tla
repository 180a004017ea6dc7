-------------------------- MODULE Timeline_proofs --------------------------
(***************************************************************************)
(* The timelines of collector/timeline.c for every table size, hash,       *)
(* recording limit, number of sockets and choice of files that fail.       *)
(***************************************************************************)
EXTENDS Timeline, SequenceTheorems, FiniteSetTheorems, FunctionTheorems, NaturalsInduction,
        WellFoundedInduction, TLAPS

-----------------------------------------------------------------------------
(* What a probe through the table returns, for every size and every hash.  *)

(* A set of natural numbers that is not empty has a least element.         *)
LEMMA LeastElement ==
  ASSUME NEW S \in SUBSET Nat, S # {}
  PROVE  \E d \in S : \A x \in S : d <= x
<1>1. PICK d \in S : \A x \in S : <<x, d>> \notin OpToRel(<, Nat)
  BY WFMin, NatLessThanWellFounded, Zenon
<1>2. ASSUME NEW x \in S PROVE d <= x
  <2>1. ~ (x < d)
    BY <1>1, <1>2, Zenon DEF OpToRel
  <2>2. x \in Nat /\ d \in Nat
    OBVIOUS
  <2>. QED
    BY <2>1, <2>2
<1>. QED
  BY <1>2

(* Probing terminates with one of the accepted slots if there is any: the  *)
(* smallest distance exists, because distances are natural numbers.        *)
LEMMA ProbeFinds ==
  ASSUME NEW s \in Sockets, NEW Accepted \in SUBSET Slots, Accepted # {}
  PROVE  FirstProbed(s, Accepted) \in Accepted
<1>. DEFINE Distances == {Distance(s, i) : i \in Accepted}
<1>1. \A i \in Accepted : Distance(s, i) \in Nat
  BY TableSizeAssumption, HashAssumption DEF Distance, Slots
<1>2. Distances \in SUBSET Nat /\ Distances # {}
  BY <1>1
<1>3. PICK d \in Distances : \A x \in Distances : d <= x
  <2>. HIDE DEF Distances
  <2>. QED
    BY <1>2, LeastElement
<1>4. PICK i \in Accepted : d = Distance(s, i)
  BY <1>3
<1>5. \A j \in Accepted : Distance(s, i) <= Distance(s, j)
  BY <1>3, <1>4
<1>. QED
  BY <1>5 DEF FirstProbed

(* What the callers of a probe rely on: a slot that is returned was        *)
(* acceptable, and NULL means that none was.                               *)
LEMMA ProbeResult ==
  ASSUME NEW s \in Sockets, NEW Accepted \in SUBSET Slots
  PROVE  /\ FirstProbed(s, Accepted) \in Accepted \cup {NoSlot}
         /\ FirstProbed(s, Accepted) = NoSlot <=> Accepted = {}
<1>1. NoSlot \notin Slots
  BY TableSizeAssumption DEF NoSlot, Slots
<1>2. CASE Accepted = {}
  BY <1>2 DEF FirstProbed
<1>3. CASE Accepted # {}
  BY <1>1, <1>3, ProbeFinds
<1>. QED
  BY <1>2, <1>3

-----------------------------------------------------------------------------
(* Arithmetic modulo 2^64.                                                 *)

LEMMA Division ==
  ASSUME NEW U \in Nat \ {0}, NEW n \in Int
  PROVE  \E q \in Int : \E r \in 0 .. U - 1 : n = U * q + r /\ n % U = r
<1>1. n = U * (n \div U) + (n % U) /\ n % U \in 0 .. U - 1 /\ n \div U \in Int
  OBVIOUS
<1>. QED
  BY <1>1

LEMMA RemainderUnique ==
  ASSUME NEW U \in Nat \ {0}, NEW d \in Int,
         NEW r \in 0 .. U - 1, NEW t \in 0 .. U - 1, r = t + U * d
  PROVE  r = t
<1>1. CASE d >= 1
  <2>1. U * d >= U
    BY <1>1
  <2>. QED
    BY <2>1
<1>2. CASE d <= -1
  <2>1. U * d <= -U
    BY <1>2
  <2>. QED
    BY <2>1
<1>. QED
  BY <1>1, <1>2

(* A multiple of the modulus does not show.                                *)
LEMMA Shift ==
  ASSUME NEW U \in Nat \ {0}, NEW n \in Int, NEW m \in Int, NEW k \in Int,
         m = n + U * k
  PROVE  m % U = n % U
<1>1. PICK q \in Int, r \in 0 .. U - 1 : n = U * q + r /\ n % U = r
  BY Division
<1>2. PICK p \in Int, s \in 0 .. U - 1 : m = U * p + s /\ m % U = s
  BY Division
<1>3. s = r + U * (q + k - p)
  <2>1. U * (q + k - p) = U * q + U * k - U * p
    OBVIOUS
  <2>2. U * q \in Int /\ U * k \in Int /\ U * p \in Int
    OBVIOUS
  <2>. QED
    BY <1>1, <1>2, <2>1, <2>2
<1>. QED
  BY <1>1, <1>2, <1>3, RemainderUnique

(* Remainders may be added in place of the numbers: the differences from   *)
(* one point to the next, wrapped or not, telescope.                       *)
LEMMA Telescope ==
  ASSUME NEW U \in Nat \ {0}, NEW a \in Int,
         NEW u \in Int, NEW v \in Int, a % U = u % U
  PROVE  (a + (v % U)) % U = (u + v) % U
<1>1. PICK q \in Int, r \in 0 .. U - 1 : a = U * q + r /\ a % U = r
  BY Division
<1>2. PICK p \in Int, s \in 0 .. U - 1 : u = U * p + s /\ u % U = s
  BY Division
<1>3. PICK c \in Int, t \in 0 .. U - 1 : v = U * c + t /\ v % U = t
  BY Division
<1>. DEFINE b == a + t
            w == u + v
            d == q - p - c
<1>4. b \in Int /\ w \in Int /\ d \in Int
  OBVIOUS
<1>5. b = w + U * d
  <2>1. U * (q - p - c) = U * q - U * p - U * c
    OBVIOUS
  <2>2. U * q \in Int /\ U * c \in Int /\ U * p \in Int
    OBVIOUS
  <2>. QED
    BY <1>1, <1>2, <1>3, <2>1, <2>2
<1>. HIDE DEF b, w, d
<1>6. b % U = w % U
  BY <1>4, <1>5, Shift, Zenon
<1>. QED
  BY <1>3, <1>6 DEF b, w

(* The same for the deltas of timestamps.                                  *)
LEMMA DeltaExtends ==
  ASSUME NEW a \in Nat, NEW x \in Int, NEW y \in Int, NEW z \in Int,
         a % U64 = (y - x) % U64
  PROVE  (a + ((z - y) % U64)) % U64 = (z - x) % U64
<1>1. PICK u \in Int, v \in Int : u = y - x /\ v = z - y /\ u + v = z - x
  OBVIOUS
<1>2. (a + (v % U64)) % U64 = (u + v) % U64
  <2>1. a \in Int /\ a % U64 = u % U64 /\ U64 \in Nat \ {0}
    BY <1>1, U64Assumption
  <2>. QED
    BY <2>1, Telescope, ZenonT(60)
<1>. QED
  BY <1>1, <1>2, Zenon

(* A sum may be reduced after every addition.                              *)
LEMMA SumModulo ==
  ASSUME NEW U \in Nat \ {0}, NEW a \in Int, NEW t \in Int
  PROVE  ((a % U) + t) % U = (a + t) % U
<1>1. PICK q \in Int, r \in 0 .. U - 1 : a = U * q + r /\ a % U = r
  BY Division
<1>. DEFINE w == a + t
            v == r + t
<1>2. w \in Int /\ v \in Int /\ w = v + U * q
  BY <1>1
<1>. HIDE DEF w, v
<1>3. w % U = v % U
  BY <1>1, <1>2, Shift, Zenon
<1>. QED
  BY <1>1, <1>3 DEF w, v

LEMMA SumWraps ==
  ASSUME NEW a \in Nat, NEW t \in Nat
  PROVE  ((a % U64) + t) % U64 = (a + t) % U64
<1>1. a \in Int /\ t \in Int
  OBVIOUS
<1>. QED
  BY <1>1, U64Assumption, SumModulo, Zenon

-----------------------------------------------------------------------------
(* Sums of sequences.  The partial sums are a recursive function, and that *)
(* there is one is shown by the least beginning without one.               *)

(* A function without arguments is the empty sequence.                     *)
LEMMA NoFunction ==
  ASSUME NEW f, f = [x \in DOMAIN f |-> f[x]], DOMAIN f = {}
  PROVE  f = <<>>
<1>1. <<>> \in Seq({}) /\ Len(<<>>) = 0
  BY EmptySeq
<1>2. <<>> \in [1 .. 0 -> {}]
  BY <1>1, LenProperties
<1>3. 1 .. 0 = {}
  OBVIOUS
<1>. QED
  BY <1>2, <1>3

(* A function on 1 .. n is a sequence of length n.                         *)
LEMMA FunctionIsSeq ==
  ASSUME NEW S, NEW n \in Nat, NEW f \in [1 .. n -> S]
  PROVE  f \in Seq(S) /\ Len(f) = n
  BY SeqDef

(* Sequences that agree up to the last element of the longer one.          *)
LEMMA OneMore ==
  ASSUME NEW S, NEW f \in Seq(S), NEW g \in Seq(S), NEW x \in S,
         Len(g) = Len(f) + 1, g[Len(f) + 1] = x, \A k \in 1 .. Len(f) : g[k] = f[k]
  PROVE  g = Append(f, x)
<1>1. PICK n \in Nat : n = Len(f)
  OBVIOUS
<1>2. PICK h \in Seq(S) : h = Append(f, x)
  OBVIOUS
<1>3. Len(h) = n + 1 /\ h[n + 1] = x /\ \A k \in 1 .. n : h[k] = f[k]
  BY <1>1, <1>2
<1>4. \A k \in 1 .. n + 1 : g[k] = h[k]
  <2>1. \A k \in 1 .. n + 1 : k \in 1 .. n \/ k = n + 1
    BY <1>1
  <2>. QED
    BY <1>1, <1>3, <2>1, Zenon
<1>. QED
  BY <1>1, <1>2, <1>3, <1>4, SeqEqual

(* The equation that defines p as the partial sums of the first n numbers. *)
Sums(p, f, n) ==
  p = [k \in 0 .. n |-> IF k = 0 THEN 0 ELSE p[k - 1] + f[k]]

LEMMA SumsExist ==
  ASSUME NEW f \in Seq(Nat), NEW n \in 0 .. Len(f)
  PROVE  \E p \in [0 .. n -> Nat] : Sums(p, f, n)
<1>. DEFINE Missing == {m \in 0 .. Len(f) : ~ \E p \in [0 .. m -> Nat] : Sums(p, f, m)}
<1>1. Missing \in SUBSET Nat /\ Missing \subseteq 0 .. Len(f)
  OBVIOUS
<1>2. ASSUME NEW m \in Missing, \A x \in Missing : m <= x PROVE FALSE
  <2>1. m \in Nat /\ m <= Len(f) /\ ~ \E p \in [0 .. m -> Nat] : Sums(p, f, m)
    OBVIOUS
  <2>2. m # 0
    <3>. DEFINE p == [k \in 0 .. 0 |-> 0]
    <3>1. p \in [0 .. 0 -> Nat] /\ Sums(p, f, 0)
      BY DEF Sums
    <3>. HIDE DEF p
    <3>. QED
      BY <2>1, <3>1
  <2>3. m - 1 \in 0 .. Len(f) /\ m - 1 \notin Missing
    <3>1. m - 1 \in 0 .. Len(f) /\ ~ (m <= m - 1)
      BY <2>1, <2>2
    <3>. HIDE DEF Missing
    <3>. QED
      BY <1>2, <3>1
  <2>4. PICK p \in [0 .. m - 1 -> Nat] : Sums(p, f, m - 1)
    BY <2>3
  <2>. DEFINE g == [k \in 0 .. m |-> IF k = m THEN p[m - 1] + f[m] ELSE p[k]]
  <2>5. f[m] \in Nat /\ p[m - 1] \in Nat
    BY <2>1, <2>2
  <2>6. g \in [0 .. m -> Nat]
    BY <2>1, <2>5
  <2>7. \A k \in 0 .. m : g[k] = IF k = 0 THEN 0 ELSE g[k - 1] + f[k]
    <3>1. \A k \in 0 .. m - 1 : p[k] = IF k = 0 THEN 0 ELSE p[k - 1] + f[k]
      BY <2>4 DEF Sums
    <3>. QED
      BY <2>1, <2>2, <3>1
  <2>8. Sums(g, f, m)
    <3>1. g = [k \in 0 .. m |-> g[k]]
      OBVIOUS
    <3>. HIDE DEF g
    <3>. QED
      BY <2>7, <3>1 DEF Sums
  <2>. HIDE DEF g
  <2>. QED
    BY <2>1, <2>6, <2>8
<1>. HIDE DEF Missing
<1>3. Missing = {}
  BY <1>1, <1>2, LeastElement
<1>. QED
  BY <1>3 DEF Missing

LEMMA SumsAgree ==
  ASSUME NEW f \in Seq(Nat), NEW g \in Seq(Nat), NEW n \in Nat, NEW m \in Nat, NEW p, NEW q,
         Sums(p, f, n), Sums(q, g, m), n <= m, \A k \in 1 .. n : f[k] = g[k]
  PROVE  \A k \in 0 .. n : p[k] = q[k]
<1>. DEFINE Differ == {k \in 0 .. n : p[k] # q[k]}
<1>1. Differ \in SUBSET Nat
  OBVIOUS
<1>2. ASSUME NEW k \in Differ, \A x \in Differ : k <= x PROVE FALSE
  <2>1. k \in Nat /\ k <= n /\ p[k] # q[k]
    OBVIOUS
  <2>2. /\ p[k] = IF k = 0 THEN 0 ELSE p[k - 1] + f[k]
        /\ q[k] = IF k = 0 THEN 0 ELSE q[k - 1] + g[k]
    BY <2>1 DEF Sums
  <2>3. k # 0
    BY <2>1, <2>2
  <2>4. k - 1 \notin Differ /\ k - 1 \in 0 .. n
    BY <1>2, <2>1, <2>3
  <2>5. p[k - 1] = q[k - 1] /\ f[k] = g[k]
    BY <2>1, <2>3, <2>4
  <2>. QED
    BY <2>1, <2>2, <2>3, <2>5
<1>. HIDE DEF Differ
<1>3. Differ = {}
  BY <1>1, <1>2, LeastElement
<1>. QED
  BY <1>3 DEF Differ

LEMMA PartialSumsDef ==
  ASSUME NEW f \in Seq(Nat)
  PROVE  /\ Sums(PartialSums(f), f, Len(f))
         /\ PartialSums(f) \in [0 .. Len(f) -> Nat]
<1>1. PICK p \in [0 .. Len(f) -> Nat] : Sums(p, f, Len(f))
  BY SumsExist
<1>2. PartialSums(f) = CHOOSE s : Sums(s, f, Len(f))
  BY Zenon DEF PartialSums, Sums
<1>3. Sums(PartialSums(f), f, Len(f))
  BY <1>1, <1>2
<1>4. \A k \in 0 .. Len(f) : PartialSums(f)[k] = p[k]
  BY <1>1, <1>3, SumsAgree
<1>. QED
  BY <1>1, <1>3, <1>4 DEF Sums

LEMMA TotalOfNothing == TotalOf(<<>>) = 0
<1>1. <<>> \in Seq(Nat) /\ Len(<<>>) = 0
  OBVIOUS
<1>2. Sums(PartialSums(<<>>), <<>>, 0)
  BY <1>1, PartialSumsDef
<1>3. PartialSums(<<>>)[0] = 0
  BY <1>2 DEF Sums
<1>. QED
  BY <1>1, <1>3 DEF TotalOf

LEMMA TotalOfAppend ==
  ASSUME NEW f \in Seq(Nat), NEW x \in Nat
  PROVE  /\ TotalOf(f) \in Nat
         /\ TotalOf(Append(f, x)) = TotalOf(f) + x
<1>1. PICK g : g = Append(f, x)
  OBVIOUS
<1>1a. g \in Seq(Nat) /\ Len(g) = Len(f) + 1 /\ g[Len(f) + 1] = x /\ \A k \in 1 .. Len(f) : g[k] = f[k]
  BY <1>1
<1>2. /\ Sums(PartialSums(f), f, Len(f)) /\ PartialSums(f) \in [0 .. Len(f) -> Nat]
      /\ Sums(PartialSums(g), g, Len(g))
  BY <1>1a, PartialSumsDef
<1>3. PartialSums(f)[Len(f)] = PartialSums(g)[Len(f)]
  <2>1. PICK p, q : p = PartialSums(f) /\ q = PartialSums(g)
    OBVIOUS
  <2>2. PICK n \in Nat, m \in Nat : n = Len(f) /\ m = Len(g)
    BY <1>1a
  <2>3. /\ Sums(p, f, n) /\ Sums(q, g, m) /\ n <= m
        /\ \A k \in 1 .. n : f[k] = g[k]
    BY <1>1a, <1>2, <2>1, <2>2
  <2>4. \A k \in 0 .. n : p[k] = q[k]
    BY <1>1a, <2>3, SumsAgree, SMTT(60)
  <2>. QED
    BY <2>1, <2>2, <2>4
<1>4. PartialSums(g)[Len(f) + 1] = PartialSums(g)[Len(f)] + x
  BY <1>1a, <1>2 DEF Sums
<1>. QED
  BY <1>1, <1>1a, <1>2, <1>3, <1>4 DEF TotalOf

-----------------------------------------------------------------------------
(* The timelines.                                                          *)

USE TimelineAssumption, TableSizeAssumption, HashAssumption, SocketsAssumption,
    U64Assumption

-----------------------------------------------------------------------------
(* The values that the operations compute.                                 *)

(* The difference of two timestamps is a timestamp again.                  *)
LEMMA Minus64Type ==
  ASSUME NEW a \in Timestamp, NEW b \in Timestamp
  PROVE  Minus64(a, b) \in Timestamp
  BY DEF Minus64, Timestamp

(* append() keeps what is there and adds at most the new event.            *)
LEMMA AppendEffect ==
  ASSUME NEW entries \in Seq(Entry), NEW e \in Event
  PROVE  LET new == append(entries, e)
         IN  /\ new \in Seq(Entry)
             /\ \A k \in 1 .. Len(entries) : new[k] = entries[k]
             /\ \/ Len(entries) >= TIMELINE_MAX_EVENTS /\ new = entries
                \/ /\ Len(entries) < TIMELINE_MAX_EVENTS
                   /\ Len(new) = Len(entries) + 1
                   /\ new[Len(new)].e = e
<1>. DEFINE te == [e |-> e,
                   delta_ns |-> IF entries = <<>> THEN 0
                                ELSE Minus64(e.timestamp,
                                             entries[Len(entries)].e.timestamp)]
<1>1. te \in Entry /\ te.e = e
  <2>1. 0 \in Timestamp /\ e.timestamp \in Timestamp
    BY DEF Timestamp, Event
  <2>2. ASSUME entries # <<>>
        PROVE  entries[Len(entries)].e.timestamp \in Timestamp
    <3>1. entries[Len(entries)] \in Entry
      BY <2>2, EmptySeq, ElementOfSeq
    <3>. QED
      BY <3>1 DEF Entry, Event
  <2>3. te.delta_ns \in Timestamp
    BY <2>1, <2>2, Minus64Type
  <2>. QED
    BY <2>3 DEF Entry
<1>2. CASE Len(entries) >= TIMELINE_MAX_EVENTS
  BY <1>2 DEF append
<1>3. CASE ~ (Len(entries) >= TIMELINE_MAX_EVENTS)
  <2>1. append(entries, e) = Append(entries, te)
    BY <1>3 DEF append
  <2>. HIDE DEF te
  <2>. QED
    BY <1>1, <1>3, <2>1
<1>. QED
  BY <1>2, <1>3

(* The first event of a recording goes into an empty array.                *)
LEMMA AppendFirst ==
  ASSUME NEW e \in Event
  PROVE  LET new == append(<<>>, e)
         IN  new \in Seq(Entry) /\ Len(new) = 1 /\ new[1].e = e
<1>1. <<>> \in Seq(Entry) /\ Len(<<>>) = 0
  OBVIOUS
<1>2. ~ (Len(<<>>) >= TIMELINE_MAX_EVENTS)
  BY <1>1
<1>3. /\ append(<<>>, e) \in Seq(Entry)
      /\ Len(append(<<>>, e)) = Len(<<>>) + 1
      /\ append(<<>>, e)[Len(append(<<>>, e))].e = e
  BY <1>1, <1>2, AppendEffect, Zenon
<1>. QED
  BY <1>1, <1>3

LEMMA TotalType ==
  ASSUME NEW entries \in Seq(Entry)
  PROVE  timeline_total_ns(entries) \in Timestamp
<1>1. CASE Len(entries) < 2
  BY <1>1 DEF timeline_total_ns, Timestamp
<1>2. CASE ~ (Len(entries) < 2)
  <2>1. entries[1] \in Entry /\ entries[Len(entries)] \in Entry
    BY <1>2, ElementOfSeq
  <2>. QED
    BY <1>2, <2>1, Minus64Type DEF timeline_total_ns, Entry, Event
<1>. QED
  BY <1>1, <1>2

-----------------------------------------------------------------------------
(* Which slot an operation works on.                                       *)

TableInv ==
  /\ timelines \in [Slots -> Slot]
  /\ OneSlotPerSocket
  /\ RecordingsWellFormed

(* NoSlot is not a slot number, so the early returns are unambiguous.      *)
LEMMA NoSlotOutside == NoSlot \notin Slots
  BY DEF NoSlot, Slots

LEMMA FindResult ==
  ASSUME NEW s \in Sockets
  PROVE  /\ timeline_find(s) \in Holding(s) \cup {NoSlot}
         /\ timeline_find(s) = NoSlot <=> Holding(s) = {}
<1>1. Holding(s) \in SUBSET Slots
  BY DEF Holding
<1>. QED
  BY <1>1, ProbeResult DEF timeline_find

(* A recording starts in the socket's own slot, or in a slot nobody holds  *)
(* when no slot is the socket's.                                           *)
LEMMA StartSlotResult ==
  ASSUME NEW s \in Sockets \cup {NoSocket}, StartSlot(s) # NoSlot
  PROVE  /\ s \in Sockets
         /\ StartSlot(s) \in Slots
         /\ \/ StartSlot(s) \in Holding(s)
            \/ StartSlot(s) \in Free /\ Holding(s) = {}
<1>1. s \in Sockets /\ StartSlot(s) = find_or_create(s)
  BY DEF StartSlot
<1>2. Free \in SUBSET Slots /\ Holding(s) \in SUBSET Slots
  BY DEF Free, Holding
<1>3. CASE timeline_find(s) # NoSlot
  BY <1>1, <1>2, <1>3, FindResult DEF find_or_create
<1>4. CASE timeline_find(s) = NoSlot
  <2>1. Holding(s) = {}
    BY <1>1, <1>4, FindResult
  <2>2. StartSlot(s) \in Free
    BY <1>1, <1>2, <1>4, ProbeResult DEF find_or_create
  <2>. QED
    BY <1>1, <1>2, <2>1, <2>2
<1>. QED
  BY <1>3, <1>4

(* An event goes to the slot that its socket holds, and only when that     *)
(* slot is recording.                                                      *)
LEMMA ActiveSlotResult ==
  ASSUME NEW s \in Sockets \cup {NoSocket}, ActiveSlot(s) # NoSlot
  PROVE  /\ s \in Sockets
         /\ ActiveSlot(s) \in Slots
         /\ timelines[ActiveSlot(s)].occupied
         /\ timelines[ActiveSlot(s)].socket = s
         /\ timelines[ActiveSlot(s)].active
<1>1. /\ s \in Sockets
      /\ ActiveSlot(s) = timeline_find(s)
      /\ timelines[timeline_find(s)].active
      /\ timeline_find(s) # NoSlot
  BY DEF ActiveSlot
<1>2. ActiveSlot(s) \in Holding(s)
  BY <1>1, FindResult
<1>. QED
  BY <1>1, <1>2 DEF Holding

-----------------------------------------------------------------------------
(* The table invariant is inductive.                                       *)

LEMMA InputsAreEvents ==
  ASSUME NEW e \in Inputs
  PROVE  e \in Event /\ e.socket_ptr \in Sockets \cup {NoSocket}
  BY DEF Event

LEMMA FreshTable ==
  ASSUME timelines = [i \in Slots |-> FreeSlot]
  PROVE  TableInv
<1>1. FreeSlot \in Slot
  BY DEF FreeSlot, Slot, Timestamp
<1>2. \A i \in Slots : timelines[i] = FreeSlot
  OBVIOUS
<1>3. ~ FreeSlot.occupied /\ ~ FreeSlot.active /\ FreeSlot.entries = <<>>
  BY DEF FreeSlot
<1>. QED
  BY <1>1, <1>2, <1>3 DEF TableInv, OneSlotPerSocket, RecordingsWellFormed

(* The argument that all operations share: a slot is rewritten for its own *)
(* socket, or is taken from the free ones for a socket that has none.      *)
LEMMA TableUpdate ==
  ASSUME TableInv,
         NEW i \in Slots, NEW new \in Slot,
         timelines' = [timelines EXCEPT ![i] = new],
         new.occupied, new.socket # NoSocket,
         IF new.active THEN RecordingOf(new) ELSE new.entries = <<>>,
         \/ timelines[i].occupied /\ timelines[i].socket = new.socket
         \/ ~ timelines[i].occupied /\ Holding(new.socket) = {}
  PROVE  TableInv'
<1>1. timelines \in [Slots -> Slot]
  BY DEF TableInv
<1>2. /\ timelines' \in [Slots -> Slot]
      /\ timelines'[i] = new
      /\ \A j \in Slots \ {i} : timelines'[j] = timelines[j]
  BY <1>1
<1>3. OneSlotPerSocket'
  <2>1. \A j \in Slots \ {i} : timelines[j].occupied => timelines[j].socket # new.socket
    BY DEF TableInv, OneSlotPerSocket, Holding
  <2>2. ASSUME NEW j \in Slots, NEW k \in Slots,
               timelines'[j].occupied, timelines'[k].occupied,
               timelines'[j].socket = timelines'[k].socket
        PROVE  j = k
    <3>1. CASE j = i
      BY <1>2, <2>1, <2>2, <3>1
    <3>2. CASE k = i
      BY <1>2, <2>1, <2>2, <3>2
    <3>3. CASE j # i /\ k # i
      BY <1>2, <2>2, <3>3 DEF TableInv, OneSlotPerSocket
    <3>. QED
      BY <3>1, <3>2, <3>3
  <2>3. \A j \in Slots : IF timelines'[j].occupied THEN timelines'[j].socket # NoSocket
                                                ELSE timelines'[j] = FreeSlot
    BY <1>2 DEF TableInv, OneSlotPerSocket
  <2>. QED
    BY <2>2, <2>3 DEF OneSlotPerSocket
<1>4. RecordingsWellFormed'
  <2>1. \A j \in Slots : IF timelines'[j].active THEN RecordingOf(timelines'[j])
                                              ELSE timelines'[j].entries = <<>>
    BY <1>2 DEF TableInv, RecordingsWellFormed
  <2>. QED
    BY <2>1, Zenon DEF RecordingsWellFormed
<1>. QED
  BY <1>2, <1>3, <1>4 DEF TableInv

LEMMA StartKeepsTable ==
  ASSUME TableInv, NEW e \in Event, e.socket_ptr \in Sockets \cup {NoSocket},
         e.event = "EVENT_TCP_V4_RCV", timeline_start(e)
  PROVE  TableInv'
<1>. DEFINE s == e.socket_ptr
            i == StartSlot(s)
            new == [occupied |-> TRUE, socket |-> s, active |-> TRUE,
                    start_ts |-> e.timestamp, entries |-> append(<<>>, e)]
<1>1. CASE i = NoSlot
  <2>1. timelines' = timelines
    BY <1>1, NoSlotOutside DEF timeline_start, tlVars
  <2>. QED
    BY <2>1 DEF TableInv, OneSlotPerSocket, RecordingsWellFormed, Slots
<1>2. CASE i # NoSlot
  <2>1. /\ s \in Sockets /\ i \in Slots
        /\ i \in Holding(s) \/ (i \in Free /\ Holding(s) = {})
    BY <1>2, StartSlotResult
  <2>2. timelines' = [timelines EXCEPT ![i] = new]
    BY <1>2 DEF timeline_start
  <2>3. /\ append(<<>>, e) \in Seq(Entry)
        /\ Len(append(<<>>, e)) = 1
        /\ append(<<>>, e)[1].e = e
    BY AppendFirst
  <2>4. e.timestamp \in Timestamp
    BY DEF Event
  <2>5. new \in Slot
    BY <2>1, <2>3, <2>4 DEF Slot
  <2>6. RecordingOf(new)
    <3>1. new.entries = append(<<>>, e) /\ new.socket = s /\ new.start_ts = e.timestamp
      OBVIOUS
    <3>. HIDE DEF new
    <3>. QED
      BY <2>3, <3>1 DEF RecordingOf
  <2>7. /\ new.occupied /\ new.active /\ new.socket = s /\ new.socket # NoSocket
    BY <2>1
  <2>8. \/ timelines[i].occupied /\ timelines[i].socket = new.socket
        \/ ~ timelines[i].occupied /\ Holding(new.socket) = {}
    BY <2>1, <2>7 DEF Holding, Free
  <2>. HIDE DEF new, i, s
  <2>. QED
    BY <2>1, <2>2, <2>5, <2>6, <2>7, <2>8, TableUpdate
<1>. QED
  BY <1>1, <1>2

(* An event in the middle of a request extends a well-formed recording.    *)
LEMMA RecordingExtended ==
  ASSUME NEW slot \in Slot, RecordingOf(slot), NEW e \in Event,
         e.socket_ptr = slot.socket,
         e.event \notin {"EVENT_TCP_V4_RCV", "EVENT_TCP_SENDMSG"},
         NEW new \in Slot, new.socket = slot.socket, new.start_ts = slot.start_ts,
         new.entries = append(slot.entries, e)
  PROVE  RecordingOf(new)
<1>. DEFINE es == slot.entries
            ne == new.entries
<1>1. es \in Seq(Entry)
  BY DEF Slot
<1>2. /\ ne \in Seq(Entry)
      /\ \A k \in 1 .. Len(es) : ne[k] = es[k]
      /\ \/ ne = es
         \/ /\ Len(es) < TIMELINE_MAX_EVENTS
            /\ Len(ne) = Len(es) + 1
            /\ ne[Len(ne)].e = e
  BY <1>1, AppendEffect
<1>3. /\ Len(es) \in 1 .. TIMELINE_MAX_EVENTS
      /\ es[1].e.event = "EVENT_TCP_V4_RCV"
      /\ es[1].e.timestamp = slot.start_ts
      /\ \A k \in 1 .. Len(es) : es[k].e.socket_ptr = slot.socket
      /\ \A k \in 2 .. Len(es) :
           es[k].e.event \notin {"EVENT_TCP_V4_RCV", "EVENT_TCP_SENDMSG"}
  BY DEF RecordingOf
<1>. SUFFICES /\ Len(ne) \in 1 .. TIMELINE_MAX_EVENTS
              /\ ne[1].e.event = "EVENT_TCP_V4_RCV"
              /\ ne[1].e.timestamp = slot.start_ts
              /\ \A k \in 1 .. Len(ne) : ne[k].e.socket_ptr = slot.socket
              /\ \A k \in 2 .. Len(ne) :
                   ne[k].e.event \notin {"EVENT_TCP_V4_RCV", "EVENT_TCP_SENDMSG"}
  BY DEF RecordingOf
<1>4. CASE ne = es
  BY <1>3, <1>4
<1>5. CASE /\ Len(es) < TIMELINE_MAX_EVENTS
           /\ Len(ne) = Len(es) + 1
           /\ ne[Len(ne)].e = e
  <2>. HIDE DEF es, ne
  <2>. QED
    BY <1>1, <1>2, <1>3, <1>5
<1>. QED
  BY <1>2, <1>4, <1>5

LEMMA AddKeepsTable ==
  ASSUME TableInv, NEW e \in Event, e.socket_ptr \in Sockets \cup {NoSocket},
         e.event \notin {"EVENT_TCP_V4_RCV", "EVENT_TCP_SENDMSG"},
         timeline_add_event(e)
  PROVE  TableInv'
<1>. DEFINE s == e.socket_ptr
            i == ActiveSlot(s)
            new == [timelines[i] EXCEPT !.entries = append(timelines[i].entries, e)]
<1>1. CASE i = NoSlot
  <2>1. timelines' = timelines
    BY <1>1, NoSlotOutside DEF timeline_add_event, tlVars
  <2>. QED
    BY <2>1 DEF TableInv, OneSlotPerSocket, RecordingsWellFormed, Slots
<1>2. CASE i # NoSlot
  <2>1. /\ s \in Sockets /\ i \in Slots
        /\ timelines[i].occupied /\ timelines[i].socket = s /\ timelines[i].active
    BY <1>2, ActiveSlotResult
  <2>2. timelines[i] \in Slot /\ RecordingOf(timelines[i])
    BY <2>1 DEF TableInv, RecordingsWellFormed
  <2>3. timelines' = [timelines EXCEPT ![i] = new]
    <3>1. timelines' = [timelines EXCEPT ![i].entries = append(@, e)]
      BY <1>2 DEF timeline_add_event
    <3>. QED
      BY <3>1, Zenon
  <2>4. timelines[i].entries \in Seq(Entry)
    BY <2>2 DEF Slot
  <2>5. append(timelines[i].entries, e) \in Seq(Entry)
    BY <2>4, AppendEffect
  <2>6. new \in Slot
    BY <2>2, <2>5 DEF Slot
  <2>7. /\ new.occupied /\ new.active /\ new.socket = s
        /\ new.start_ts = timelines[i].start_ts
        /\ new.entries = append(timelines[i].entries, e)
    BY <2>1, <2>2 DEF Slot
  <2>. HIDE DEF new
  <2>8. RecordingOf(new)
    BY <2>1, <2>2, <2>6, <2>7, RecordingExtended
  <2>. QED
    BY <2>1, <2>3, <2>6, <2>7, <2>8, TableUpdate
<1>. QED
  BY <1>1, <1>2

(* Closing a slot keeps its owner and empties its recording.               *)
LEMMA ClosedEffect ==
  ASSUME NEW slot \in Slot
  PROVE  /\ Closed(slot) \in Slot
         /\ Closed(slot).occupied = slot.occupied
         /\ Closed(slot).socket = slot.socket
         /\ Closed(slot).active = FALSE
         /\ Closed(slot).entries = <<>>
<1>. DEFINE idle == [slot EXCEPT !.active = FALSE]
<1>1. /\ idle \in Slot
      /\ idle.occupied = slot.occupied /\ idle.socket = slot.socket /\ idle.active = FALSE
  BY DEF Slot
<1>2. Closed(slot) = [idle EXCEPT !.entries = <<>>]
  BY Zenon DEF Closed
<1>3. <<>> \in Seq(Entry)
  OBVIOUS
<1>. HIDE DEF idle
<1>. QED
  BY <1>1, <1>2, <1>3 DEF Slot

LEMMA FinishKeepsTable ==
  ASSUME TableInv, NEW e \in Event, e.socket_ptr \in Sockets \cup {NoSocket},
         timeline_finish(e)
  PROVE  TableInv'
<1>. DEFINE s == e.socket_ptr
            i == ActiveSlot(s)
            new == Closed(timelines[i])
<1>1. CASE i = NoSlot
  <2>1. timelines' = timelines
    BY <1>1, NoSlotOutside DEF timeline_finish, tlVars
  <2>. QED
    BY <2>1 DEF TableInv, OneSlotPerSocket, RecordingsWellFormed, Slots
<1>2. CASE i # NoSlot
  <2>1. /\ s \in Sockets /\ i \in Slots
        /\ timelines[i].occupied /\ timelines[i].socket = s
    BY <1>2, ActiveSlotResult
  <2>2. timelines[i] \in Slot
    BY <2>1 DEF TableInv
  <2>3. timelines' = [timelines EXCEPT ![i] = new]
    BY <1>2, Zenon DEF timeline_finish
  <2>4. /\ new \in Slot
        /\ new.occupied /\ ~ new.active /\ new.socket = s /\ new.entries = <<>>
    BY <2>1, <2>2, ClosedEffect
  <2>. HIDE DEF new
  <2>. QED
    BY <2>1, <2>3, <2>4, TableUpdate
<1>. QED
  BY <1>1, <1>2

LEMMA TableInvInductive ==
  /\ TimelineInit => TableInv
  /\ TableInv /\ [TimelineNext]_tlVars => TableInv'
<1>1. TimelineInit => TableInv
  BY FreshTable DEF TimelineInit
<1>2. ASSUME TableInv, [TimelineNext]_tlVars PROVE TableInv'
  <2>1. ASSUME NEW e \in Inputs, e.event = "EVENT_TCP_V4_RCV", timeline_start(e)
        PROVE  TableInv'
    BY <1>2, <2>1, InputsAreEvents, StartKeepsTable
  <2>2. ASSUME NEW e \in Inputs, e.event = "EVENT_TCP_SENDMSG", timeline_finish(e)
        PROVE  TableInv'
    BY <1>2, <2>2, InputsAreEvents, FinishKeepsTable
  <2>3. ASSUME NEW e \in Inputs, timeline_add_event(e),
               e.event \notin {"EVENT_TCP_V4_RCV", "EVENT_TCP_SENDMSG"}
        PROVE  TableInv'
    BY <1>2, <2>3, InputsAreEvents, AddKeepsTable
  <2>4. ASSUME timeline_init PROVE TableInv'
    <3>1. timelines' = [i \in Slots |-> FreeSlot]
      BY <2>4 DEF timeline_init
    <3>2. (timelines = [i \in Slots |-> FreeSlot] => TableInv)'
      BY FreshTable, PTL
    <3>. QED
      BY <3>1, <3>2
  <2>5. ASSUME UNCHANGED tlVars PROVE TableInv'
    BY <1>2, <2>5 DEF tlVars, TableInv, OneSlotPerSocket, RecordingsWellFormed
  <2>. QED
    BY <1>2, <2>1, <2>2, <2>3, <2>4, <2>5 DEF TimelineNext
<1>. QED
  BY <1>1, <1>2

(* However the table fills up and whatever collides, no socket ever has    *)
(* two timelines (timeline_find, find_or_create).                          *)
THEOREM OneTimelinePerSocket == TimelineSpec => []OneSlotPerSocket
<1>1. TableInv => OneSlotPerSocket
  BY DEF TableInv
<1>. QED
  BY <1>1, TableInvInductive, PTL DEF TimelineSpec

(* A recording begins with its TCP_V4_RCV, stays within the array, holds   *)
(* one socket's events only, and nothing of it outlives timeline_finish.   *)
THEOREM RecordingsAreWellFormed == TimelineSpec => []RecordingsWellFormed
<1>1. TableInv => RecordingsWellFormed
  BY DEF TableInv
<1>. QED
  BY <1>1, TableInvInductive, PTL DEF TimelineSpec

-----------------------------------------------------------------------------
(* What a call does to the table, for those who compose it with others.    *)

(* Slot i is now the one of socket s, and no other slot has changed.       *)
GoesTo(i, s) ==
  /\ timelines'[i].occupied /\ timelines'[i].socket = s
  /\ \A j \in Slots \ {i} : timelines'[j] = timelines[j]

(* timeline_start records e as the first event of its socket, or finds no  *)
(* slot for a socket without a timeline.                                   *)
LEMMA StartEffect ==
  ASSUME TableInv, NEW e \in Event, timeline_start(e)
  PROVE  /\ UNCHANGED requests_jsonl
         /\ \/ /\ UNCHANGED timelines
               /\ \A i \in Slots : timelines[i].occupied => timelines[i].socket # e.socket_ptr
            \/ /\ e.socket_ptr \in Sockets
               /\ \E i \in Slots : /\ GoesTo(i, e.socket_ptr)
                                   /\ timelines'[i].entries = append(<<>>, e)
                                   /\ Len(timelines'[i].entries) = 1
                                   /\ timelines'[i].entries[1].e = e
<1>. DEFINE s == e.socket_ptr
            i == StartSlot(s)
            new == [occupied |-> TRUE, socket |-> s, active |-> TRUE,
                    start_ts |-> e.timestamp, entries |-> append(<<>>, e)]
<1>1. s \in Sockets \cup {NoSocket}
  BY DEF Event
<1>2. CASE i = NoSlot
  <2>1. UNCHANGED <<timelines, requests_jsonl>>
    BY <1>2, NoSlotOutside DEF timeline_start, tlVars, files
  <2>2. ASSUME NEW j \in Slots, timelines[j].occupied, timelines[j].socket = s
        PROVE  FALSE
    <3>1. s \in Sockets
      BY <1>1, <2>2 DEF TableInv, OneSlotPerSocket
    <3>2. j \in Holding(s)
      BY <2>2 DEF Holding
    <3>3. timeline_find(s) # NoSlot
      BY <3>1, <3>2, FindResult
    <3>4. i = timeline_find(s)
      BY <3>1, <3>3 DEF StartSlot, find_or_create
    <3>. QED
      BY <1>2, <3>3, <3>4
  <2>. QED
    BY <2>1, <2>2
<1>3. CASE i # NoSlot
  <2>1. s \in Sockets /\ i \in Slots
    BY <1>1, <1>3, StartSlotResult
  <2>2. timelines' = [timelines EXCEPT ![i] = new] /\ UNCHANGED requests_jsonl
    BY <1>3 DEF timeline_start, files
  <2>3. /\ new.occupied /\ new.socket = s /\ new.entries = append(<<>>, e)
        /\ Len(new.entries) = 1 /\ new.entries[1].e = e
    BY AppendFirst
  <2>. HIDE DEF new, i
  <2>4. GoesTo(i, s) /\ timelines'[i] = new
    BY <2>1, <2>2, <2>3 DEF GoesTo, TableInv
  <2>. QED
    BY <2>1, <2>2, <2>3, <2>4
<1>. QED
  BY <1>2, <1>3

(* No slot of a socket that no recording is open for is active.            *)
LEMMA NoActiveSlot ==
  ASSUME TableInv, NEW s \in Sockets \cup {NoSocket}, ActiveSlot(s) = NoSlot,
         NEW i \in Slots, timelines[i].occupied, timelines[i].socket = s
  PROVE  ~ timelines[i].active
<1>1. s \in Sockets
  BY DEF TableInv, OneSlotPerSocket
<1>2. i \in Holding(s)
  BY DEF Holding
<1>3. timeline_find(s) \in Holding(s) /\ timeline_find(s) # NoSlot
  BY <1>1, <1>2, FindResult
<1>4. timeline_find(s) = i
  BY <1>3 DEF Holding, TableInv, OneSlotPerSocket
<1>. QED
  BY <1>1, <1>3, <1>4, SocketsAssumption, NoSlotOutside DEF ActiveSlot

(* timeline_add_event appends e to the open recording of its socket, or    *)
(* finds none.                                                             *)
LEMMA AddEffect ==
  ASSUME TableInv, NEW e \in Event, timeline_add_event(e)
  PROVE  /\ UNCHANGED requests_jsonl
         /\ \/ /\ UNCHANGED timelines
               /\ \A i \in Slots : timelines[i].occupied /\ timelines[i].socket = e.socket_ptr
                                   => ~ timelines[i].active
            \/ /\ e.socket_ptr \in Sockets
               /\ \E i \in Slots :
                    /\ GoesTo(i, e.socket_ptr)
                    /\ timelines[i].occupied /\ timelines[i].socket = e.socket_ptr
                    /\ timelines[i].active /\ RecordingOf(timelines[i])
                    /\ timelines[i].entries \in Seq(Entry)
                    /\ timelines'[i].entries = append(timelines[i].entries, e)
<1>. DEFINE s == e.socket_ptr
            i == ActiveSlot(s)
            new == [timelines[i] EXCEPT !.entries = append(timelines[i].entries, e)]
<1>1. s \in Sockets \cup {NoSocket}
  BY DEF Event
<1>2. CASE i = NoSlot
  <2>1. UNCHANGED <<timelines, requests_jsonl>>
    BY <1>2, NoSlotOutside DEF timeline_add_event, tlVars, files
  <2>2. \A j \in Slots : timelines[j].occupied /\ timelines[j].socket = s => ~ timelines[j].active
    BY <1>1, <1>2, NoActiveSlot
  <2>. QED
    BY <2>1, <2>2
<1>3. CASE i # NoSlot
  <2>1. /\ s \in Sockets /\ i \in Slots
        /\ timelines[i].occupied /\ timelines[i].socket = s /\ timelines[i].active
    BY <1>1, <1>3, ActiveSlotResult
  <2>2. timelines[i] \in Slot /\ RecordingOf(timelines[i]) /\ timelines[i].entries \in Seq(Entry)
    BY <2>1 DEF TableInv, RecordingsWellFormed, Slot
  <2>3. timelines' = [timelines EXCEPT ![i] = new] /\ UNCHANGED requests_jsonl
    <3>1. timelines' = [timelines EXCEPT ![i].entries = append(@, e)]
      BY <1>3 DEF timeline_add_event
    <3>2. UNCHANGED requests_jsonl
      BY <1>3 DEF timeline_add_event, files
    <3>. QED
      BY <3>1, <3>2, Zenon
  <2>4. /\ new.occupied /\ new.socket = s
        /\ new.entries = append(timelines[i].entries, e)
    BY <2>1, <2>2 DEF Slot
  <2>. HIDE DEF new, i
  <2>5. GoesTo(i, s) /\ timelines'[i] = new
    BY <2>1, <2>3, <2>4 DEF GoesTo, TableInv
  <2>. QED
    BY <2>1, <2>2, <2>3, <2>4, <2>5
<1>. QED
  BY <1>2, <1>3

(* timeline_finish closes the recording of its socket and may append it to *)
(* requests.jsonl, or finds none.                                          *)
LEMMA FinishEffect ==
  ASSUME TableInv, NEW e \in Event, timeline_finish(e)
  PROVE  \/ /\ UNCHANGED <<timelines, requests_jsonl>>
            /\ \A i \in Slots : timelines[i].occupied /\ timelines[i].socket = e.socket_ptr
                                => ~ timelines[i].active
         \/ /\ e.socket_ptr \in Sockets
            /\ \E i \in Slots :
                 /\ GoesTo(i, e.socket_ptr)
                 /\ timelines[i].occupied /\ timelines[i].socket = e.socket_ptr
                 /\ timelines[i].active /\ RecordingOf(timelines[i])
                 /\ timelines[i].entries \in Seq(Entry)
                 /\ ~ timelines'[i].active /\ timelines'[i].entries = <<>>
                 /\ \/ UNCHANGED requests_jsonl
                    \/ requests_jsonl' =
                         Append(requests_jsonl,
                                JournalRecord(e.socket_ptr, append(timelines[i].entries, e)))
<1>. DEFINE s == e.socket_ptr
            i == ActiveSlot(s)
            new == Closed(timelines[i])
<1>1. s \in Sockets \cup {NoSocket}
  BY DEF Event
<1>2. CASE i = NoSlot
  <2>1. UNCHANGED <<timelines, requests_jsonl>>
    BY <1>2, NoSlotOutside DEF timeline_finish, tlVars, files
  <2>2. \A j \in Slots : timelines[j].occupied /\ timelines[j].socket = s => ~ timelines[j].active
    BY <1>1, <1>2, NoActiveSlot
  <2>. QED
    BY <2>1, <2>2
<1>3. CASE i # NoSlot
  <2>1. /\ s \in Sockets /\ i \in Slots
        /\ timelines[i].occupied /\ timelines[i].socket = s /\ timelines[i].active
    BY <1>1, <1>3, ActiveSlotResult
  <2>2. timelines[i] \in Slot /\ RecordingOf(timelines[i]) /\ timelines[i].entries \in Seq(Entry)
    BY <2>1 DEF TableInv, RecordingsWellFormed, Slot
  <2>3. timelines' = [timelines EXCEPT ![i] = new]
    BY <1>3, Zenon DEF timeline_finish
  <2>4. \/ UNCHANGED requests_jsonl
        \/ requests_jsonl' = Append(requests_jsonl,
                                    JournalRecord(s, append(timelines[i].entries, e)))
    BY <1>3 DEF timeline_finish, files, export
  <2>5. /\ new \in Slot
        /\ new.occupied /\ ~ new.active /\ new.socket = s /\ new.entries = <<>>
    BY <2>1, <2>2, ClosedEffect
  <2>. HIDE DEF new, i
  <2>6. GoesTo(i, s) /\ timelines'[i] = new
    BY <2>1, <2>3, <2>5 DEF GoesTo, TableInv
  <2>. QED
    BY <2>1, <2>2, <2>4, <2>5, <2>6
<1>. QED
  BY <1>2, <1>3

-----------------------------------------------------------------------------
(* The same calls in full, with the files, by the slot that they work on.  *)

(* Sockets that are no more than the slots all find one.                   *)
LEMMA RoomForAll ==
  ASSUME TableInv, IsFiniteSet(Sockets), Cardinality(Sockets) <= TABLE_SIZE, NEW s \in Sockets
  PROVE  StartSlot(s) # NoSlot
<1>. SUFFICES ASSUME StartSlot(s) = NoSlot PROVE FALSE
  OBVIOUS
<1>1. StartSlot(s) = find_or_create(s)
  BY SocketsAssumption DEF StartSlot
<1>2. timeline_find(s) = NoSlot
  BY <1>1 DEF find_or_create
<1>3. Holding(s) = {} /\ FirstProbed(s, Free) = NoSlot
  BY <1>1, <1>2, FindResult DEF find_or_create
<1>4. Free = {}
  <2>1. Free \in SUBSET Slots
    BY DEF Free
  <2>. QED
    BY <1>3, <2>1, ProbeResult
<1>. DEFINE owner == [j \in Slots |-> timelines[j].socket]
            others == Sockets \ {s}
<1>5. \A j \in Slots : timelines[j].occupied /\ timelines[j].socket \in others
  BY <1>3, <1>4 DEF Free, Holding, TableInv, OneSlotPerSocket, Slot
<1>6. owner \in Injection(Slots, others)
  <2>1. owner \in [Slots -> others]
    BY <1>5
  <2>2. \A i, j \in Slots : owner[i] = owner[j] => i = j
    BY <1>5 DEF TableInv, OneSlotPerSocket
  <2>. HIDE DEF owner, others
  <2>. QED
    BY <2>1, <2>2, Fun_IsInj
<1>7. /\ IsFiniteSet(others) /\ Cardinality(others) = Cardinality(Sockets) - 1
      /\ Cardinality(Sockets) \in Nat
  BY FS_RemoveElement, FS_CardinalityType
<1>8. IsFiniteSet(Slots) /\ Cardinality(Slots) = TABLE_SIZE
  <2>1. /\ IsFiniteSet(0 .. TABLE_SIZE - 1)
        /\ Cardinality(0 .. TABLE_SIZE - 1) = TABLE_SIZE
    BY FS_Interval
  <2>. QED
    BY <2>1 DEF Slots
<1>9. Cardinality(Slots) <= Cardinality(others)
  <2>. HIDE DEF owner, others
  <2>. QED
    BY <1>6, <1>7, FS_Injection
<1>. QED
  BY <1>7, <1>8, <1>9

(* Without a slot a call does nothing.                                     *)
LEMMA WithoutSlot ==
  ASSUME NEW e,
         \/ timeline_start(e) /\ StartSlot(e.socket_ptr) = NoSlot
         \/ timeline_add_event(e) /\ ActiveSlot(e.socket_ptr) = NoSlot
         \/ timeline_finish(e) /\ ActiveSlot(e.socket_ptr) = NoSlot
  PROVE  UNCHANGED <<timelines, requests_jsonl, kernel_request>>
  BY DEF timeline_start, timeline_add_event, timeline_finish, tlVars, files

LEMMA StartRecords ==
  ASSUME TableInv, NEW e \in Event, timeline_start(e), StartSlot(e.socket_ptr) # NoSlot
  PROVE  LET i == StartSlot(e.socket_ptr)
         IN  /\ i \in Slots /\ e.socket_ptr \in Sockets
             /\ timelines[i].occupied => timelines[i].socket = e.socket_ptr
             /\ GoesTo(i, e.socket_ptr) /\ timelines'[i].active
             /\ timelines'[i].entries = append(<<>>, e)
             /\ UNCHANGED <<requests_jsonl, kernel_request>>
<1>. DEFINE s == e.socket_ptr
            i == StartSlot(s)
            new == [occupied |-> TRUE, socket |-> s, active |-> TRUE,
                    start_ts |-> e.timestamp, entries |-> append(<<>>, e)]
<1>1. /\ s \in Sockets /\ i \in Slots
      /\ i \in Holding(s) \/ (i \in Free /\ Holding(s) = {})
  BY StartSlotResult DEF Event
<1>2. timelines' = [timelines EXCEPT ![i] = new] /\ UNCHANGED <<requests_jsonl, kernel_request>>
  BY DEF timeline_start, files
<1>3. timelines[i].occupied => timelines[i].socket = s
  BY <1>1 DEF Holding, Free
<1>4. new.occupied /\ new.socket = s /\ new.active /\ new.entries = append(<<>>, e)
  OBVIOUS
<1>. HIDE DEF new, i
<1>5. GoesTo(i, s) /\ timelines'[i] = new
  BY <1>1, <1>2, <1>4 DEF GoesTo, TableInv
<1>. QED
  BY <1>1, <1>2, <1>3, <1>4, <1>5 DEF i

LEMMA AddRecords ==
  ASSUME TableInv, NEW e \in Event, timeline_add_event(e), ActiveSlot(e.socket_ptr) # NoSlot
  PROVE  LET i == ActiveSlot(e.socket_ptr)
         IN  /\ GoesTo(i, e.socket_ptr) /\ timelines'[i].active
             /\ timelines'[i].entries = append(timelines[i].entries, e)
             /\ UNCHANGED <<requests_jsonl, kernel_request>>
<1>. DEFINE s == e.socket_ptr
            i == ActiveSlot(s)
            new == [timelines[i] EXCEPT !.entries = append(timelines[i].entries, e)]
<1>1. /\ s \in Sockets /\ i \in Slots
      /\ timelines[i].occupied /\ timelines[i].socket = s /\ timelines[i].active
  BY ActiveSlotResult DEF Event
<1>2. timelines' = [timelines EXCEPT ![i].entries = append(@, e)]
      /\ UNCHANGED <<requests_jsonl, kernel_request>>
  BY DEF timeline_add_event, files
<1>3. timelines' = [timelines EXCEPT ![i] = new]
  BY <1>2, Zenon
<1>4. timelines[i] \in Slot
  BY <1>1 DEF TableInv
<1>5. /\ new.occupied /\ new.socket = s /\ new.active
      /\ new.entries = append(timelines[i].entries, e)
  BY <1>1, <1>4 DEF Slot
<1>. HIDE DEF new, i
<1>6. GoesTo(i, s) /\ timelines'[i] = new
  BY <1>1, <1>3, <1>5 DEF GoesTo, TableInv
<1>. QED
  BY <1>2, <1>5, <1>6 DEF i

LEMMA FinishRecords ==
  ASSUME TableInv, NEW e \in Event, timeline_finish(e), ActiveSlot(e.socket_ptr) # NoSlot
  PROVE  LET i == ActiveSlot(e.socket_ptr)
             es == append(timelines[i].entries, e)
         IN  /\ GoesTo(i, e.socket_ptr) /\ ~ timelines'[i].active
             /\ \/ Len(es) < MIN_STEPS /\ UNCHANGED <<requests_jsonl, kernel_request>>
                \/ /\ Len(es) >= MIN_STEPS
                   /\ \/ requests_jsonl' = Append(requests_jsonl,
                                                  JournalRecord(e.socket_ptr, es))
                      \/ "requests" \in Faulty
                   /\ \/ kernel_request' = KernelRequest(e.socket_ptr, es)
                      \/ "kernel_request" \in Faulty
<1>. DEFINE s == e.socket_ptr
            i == ActiveSlot(s)
            new == Closed(timelines[i])
<1>1. /\ s \in Sockets /\ i \in Slots
      /\ timelines[i].occupied /\ timelines[i].socket = s /\ timelines[i].active
  BY ActiveSlotResult DEF Event
<1>2. timelines' = [timelines EXCEPT ![i] = new]
  BY Zenon DEF timeline_finish
<1>3. \/ /\ Len(append(timelines[i].entries, e)) < MIN_STEPS
         /\ UNCHANGED <<requests_jsonl, kernel_request>>
      \/ /\ Len(append(timelines[i].entries, e)) >= MIN_STEPS
         /\ export(s, append(timelines[i].entries, e))
  BY DEF timeline_finish, files
<1>4. timelines[i] \in Slot
  BY <1>1 DEF TableInv
<1>5. new.occupied /\ ~ new.active /\ new.socket = s
  BY <1>1, <1>4, ClosedEffect
<1>. HIDE DEF new
<1>6. GoesTo(i, s) /\ timelines'[i] = new
  BY <1>1, <1>2, <1>5 DEF GoesTo, TableInv
<1>7. ASSUME NEW es, export(s, es)
      PROVE  /\ \/ requests_jsonl' = Append(requests_jsonl, JournalRecord(s, es))
                \/ "requests" \in Faulty
             /\ kernel_request' = KernelRequest(s, es) \/ "kernel_request" \in Faulty
  BY <1>7 DEF export
<1>. HIDE DEF i, s
<1>8. /\ ~ timelines'[i].active /\ GoesTo(i, s)
      /\ \/ /\ Len(append(timelines[i].entries, e)) < MIN_STEPS
            /\ UNCHANGED <<requests_jsonl, kernel_request>>
         \/ /\ Len(append(timelines[i].entries, e)) >= MIN_STEPS
            /\ \/ requests_jsonl' = Append(requests_jsonl,
                       JournalRecord(s, append(timelines[i].entries, e)))
               \/ "requests" \in Faulty
            /\ \/ kernel_request' = KernelRequest(s, append(timelines[i].entries, e))
               \/ "kernel_request" \in Faulty
  BY <1>3, <1>5, <1>6, <1>7, Zenon
<1>. QED
  BY <1>8 DEF i, s

-----------------------------------------------------------------------------
(* Slots are never handed over.                                            *)

(* What every operation but a restart leaves of the claimed slots.         *)
SlotsKept ==
  \A i \in Slots : timelines[i].occupied =>
    \/ timelines'[i].occupied /\ timelines'[i].socket = timelines[i].socket
    \/ timelines' = [j \in Slots |-> FreeSlot]

LEMMA SlotRewriteKeeps ==
  ASSUME TableInv,
         NEW i \in Slots, NEW new \in Slot,
         timelines' = [timelines EXCEPT ![i] = new],
         timelines[i].occupied => new.occupied /\ new.socket = timelines[i].socket
  PROVE  SlotsKept
  BY DEF TableInv, SlotsKept

LEMMA StepsKeepSlots == TableInv /\ TimelineNext => SlotsKept
<1>. SUFFICES ASSUME TableInv, TimelineNext PROVE SlotsKept
  OBVIOUS
<1>. USE DEF TableInv
<1>1. ASSUME NEW e \in Inputs, timeline_start(e) PROVE SlotsKept
  <2>. DEFINE i == StartSlot(e.socket_ptr)
  <2>1. CASE i = NoSlot
    <3>1. timelines' = timelines
      BY <1>1, <2>1, NoSlotOutside DEF timeline_start, tlVars
    <3>. QED
      BY <3>1 DEF SlotsKept
  <2>2. CASE i # NoSlot
    <3>1. /\ i \in Slots
          /\ i \in Holding(e.socket_ptr) \/ i \in Free
      BY <1>1, <2>2, InputsAreEvents, StartSlotResult
    <3>2. timelines' = [timelines EXCEPT ![i] =
                          [occupied |-> TRUE, socket |-> e.socket_ptr, active |-> TRUE,
                           start_ts |-> e.timestamp, entries |-> append(<<>>, e)]]
      BY <1>1, <2>2 DEF timeline_start
    <3>3. /\ timelines'[i].occupied /\ timelines'[i].socket = e.socket_ptr
          /\ \A j \in Slots \ {i} : timelines'[j] = timelines[j]
      BY <3>1, <3>2
    <3>4. timelines[i].occupied => timelines[i].socket = e.socket_ptr
      BY <3>1 DEF Holding, Free
    <3>. QED
      BY <3>1, <3>3, <3>4 DEF SlotsKept
  <2>. QED
    BY <2>1, <2>2
<1>2. ASSUME NEW e \in Inputs, timeline_finish(e) PROVE SlotsKept
  <2>. DEFINE i == ActiveSlot(e.socket_ptr)
              new == Closed(timelines[i])
  <2>1. CASE i = NoSlot
    <3>1. timelines' = timelines
      BY <1>2, <2>1, NoSlotOutside DEF timeline_finish, tlVars
    <3>. QED
      BY <3>1 DEF SlotsKept
  <2>2. CASE i # NoSlot
    <3>1. i \in Slots /\ timelines[i] \in Slot
      BY <1>2, <2>2, InputsAreEvents, ActiveSlotResult
    <3>2. timelines' = [timelines EXCEPT ![i] = new]
      BY <1>2, <2>2, Zenon DEF timeline_finish
    <3>3. new \in Slot /\ new.occupied = timelines[i].occupied
                       /\ new.socket = timelines[i].socket
      BY <3>1, ClosedEffect
    <3>. HIDE DEF new, TableInv
    <3>. QED
      BY <3>1, <3>2, <3>3, SlotRewriteKeeps
  <2>. QED
    BY <2>1, <2>2
<1>3. ASSUME NEW e \in Inputs, timeline_add_event(e) PROVE SlotsKept
  <2>. DEFINE i == ActiveSlot(e.socket_ptr)
  <2>1. CASE i = NoSlot
    <3>1. timelines' = timelines
      BY <1>3, <2>1, NoSlotOutside DEF timeline_add_event, tlVars
    <3>. QED
      BY <3>1 DEF SlotsKept
  <2>2. CASE i # NoSlot
    <3>1. i \in Slots /\ timelines[i] \in Slot
      BY <1>3, <2>2, InputsAreEvents, ActiveSlotResult
    <3>2. timelines' = [timelines EXCEPT ![i].entries = append(@, e)]
      BY <1>3, <2>2 DEF timeline_add_event
    <3>3. /\ timelines'[i] = [timelines[i] EXCEPT !.entries = append(@, e)]
          /\ \A j \in Slots \ {i} : timelines'[j] = timelines[j]
      BY <3>1, <3>2
    <3>4. /\ timelines'[i].occupied = timelines[i].occupied
          /\ timelines'[i].socket = timelines[i].socket
      BY <3>1, <3>3 DEF Slot
    <3>. QED
      BY <3>1, <3>3, <3>4 DEF SlotsKept
  <2>. QED
    BY <2>1, <2>2
<1>4. ASSUME timeline_init PROVE SlotsKept
  BY <1>4 DEF timeline_init, SlotsKept
<1>. QED
  BY <1>1, <1>2, <1>3, <1>4 DEF TimelineNext

(* A claimed slot stays its socket's until the collector is restarted.     *)
THEOREM SlotsNeverChangeHands == TimelineSpec => SlotsAreKept
<1>1. TableInv /\ [TimelineNext]_tlVars => [SlotsKept]_tlVars
  BY StepsKeepSlots
<1>. QED
  BY <1>1, TableInvInductive, PTL DEF TimelineSpec, SlotsAreKept, SlotsKept

-----------------------------------------------------------------------------
(* What an exported request leaves in the files has the type of the files. *)

Requests == [client : Endpoint, server : Endpoint, socket : Sockets,
             steps : Seq(Entry), total_ns : Timestamp]
Journal == [socket : Sockets, total_ns : Timestamp, timeline : Seq(Entry)]
Stack == [socket : Sockets, frames : Seq(EventTypes \X (Nat \ {0}))]

LEMMA EntryFields ==
  ASSUME NEW entries \in Seq(Entry), NEW k \in 1 .. Len(entries)
  PROVE  /\ entries[k] \in Entry
         /\ entries[k].e.event \in EventTypes
         /\ entries[k].e.addr \in Addr
         /\ entries[k].delta_ns \in Timestamp
<1>1. entries[k] \in Entry
  BY ElementOfSeq
<1>2. entries[k].e \in Event /\ entries[k].delta_ns \in Timestamp
  BY <1>1 DEF Entry
<1>. QED
  BY <1>1, <1>2 DEF Event

LEMMA KernelRequestType ==
  ASSUME NEW s \in Sockets, NEW entries \in Seq(Entry), Len(entries) >= 1
  PROVE  KernelRequest(s, entries) \in Requests
<1>. DEFINE a == entries[1].e.addr
<1>1. a \in Addr
  <2>1. 1 \in 1 .. Len(entries)
    OBVIOUS
  <2>. QED
    BY <2>1, EntryFields
<1>2. Client(a) \in Endpoint /\ Server(a) \in Endpoint
  <2>1. Local(a) \in Endpoint /\ Peer(a) \in Endpoint
    BY <1>1 DEF Addr, Local, Peer, Endpoint
  <2>. QED
    BY <2>1 DEF Client, Server
<1>3. timeline_total_ns(entries) \in Timestamp
  BY TotalType
<1>. HIDE DEF a
<1>4. KernelRequest(s, entries) =
        [client |-> Client(a), server |-> Server(a), socket |-> s,
         steps |-> entries, total_ns |-> timeline_total_ns(entries)]
  BY DEF KernelRequest, a
<1>. QED
  BY <1>2, <1>3, <1>4 DEF Requests

LEMMA JournalRecordType ==
  ASSUME NEW s \in Sockets, NEW entries \in Seq(Entry)
  PROVE  JournalRecord(s, entries) \in Journal
  BY TotalType DEF JournalRecord, Journal

LEMMA FlameStackType ==
  ASSUME NEW s \in Sockets, NEW entries \in Seq(Entry)
  PROVE  FlameStack(s, entries) \in Stack
<1>. DEFINE frames == [k \in 1 .. Len(entries) |->
                        <<entries[k].e.event, Weight(entries[k].delta_ns)>>]
<1>1. ASSUME NEW ns \in Timestamp PROVE Weight(ns) \in Nat \ {0}
  <2>1. ns \in Nat
    BY DEF Timestamp
  <2>2. ns \div NS_PER_US \in Nat
    BY <2>1
  <2>. QED
    BY <2>2 DEF Weight
<1>2. \A k \in 1 .. Len(entries) :
        <<entries[k].e.event, Weight(entries[k].delta_ns)>> \in EventTypes \X (Nat \ {0})
  BY <1>1, EntryFields
<1>3. Len(entries) \in Nat
  OBVIOUS
<1>4. frames \in [1 .. Len(entries) -> EventTypes \X (Nat \ {0})]
  BY <1>2
<1>5. frames \in Seq(EventTypes \X (Nat \ {0}))
  BY <1>3, <1>4, SeqDef
<1>. HIDE DEF frames
<1>6. FlameStack(s, entries) = [socket |-> s, frames |-> frames]
  BY DEF FlameStack, frames
<1>. QED
  BY <1>5, <1>6 DEF Stack

LEMMA ArrowsType ==
  ASSUME NEW entries \in Seq(Entry), Len(entries) >= 2
  PROVE  Arrows(entries) \in Seq(Actors \X Actors)
<1>. DEFINE n == Len(entries) - 1
<1>1. \A type : seq_actor(type) \in Actors
  BY Zenon DEF seq_actor, Actors
<1>2. n \in Nat
  OBVIOUS
<1>3. Arrows(entries) \in [1 .. n -> Actors \X Actors]
  BY <1>1 DEF Arrows
<1>. QED
  BY <1>2, <1>3, SeqDef

LEMMA MetricsType ==
  ASSUME metrics \in Metrics, NEW entries \in Seq(Entry)
  PROVE  update_metrics(entries) \in Metrics
<1>. DEFINE total == timeline_total_ns(entries)
            m == metrics
<1>1. total \in Timestamp
  BY TotalType
<1>2. /\ m.request_count \in Nat /\ m.total_latency_ns \in Timestamp
      /\ m.max_latency_ns \in Timestamp /\ m.min_latency_ns \in Timestamp
      /\ m.total_events \in Nat
  BY DEF Metrics
<1>. HIDE DEF total
<1>3. /\ m.request_count + 1 \in Nat
      /\ (m.total_latency_ns + total) % U64 \in Timestamp
      /\ m.total_events + Len(entries) \in Nat
  <2>1. m.total_latency_ns + total \in Nat /\ Len(entries) \in Nat
    BY <1>1, <1>2 DEF Timestamp
  <2>2. (m.total_latency_ns + total) % U64 \in 0 .. U64 - 1
    BY <2>1
  <2>. QED
    BY <1>2, <2>1, <2>2 DEF Timestamp
<1>. QED
  BY <1>1, <1>2, <1>3 DEF update_metrics, Metrics, total

-----------------------------------------------------------------------------
(* The files.                                                              *)

(* The recording that timeline_finish exports.                             *)
LEMMA ExportedRecording ==
  ASSUME TableInv, NEW e \in Event, e.event = "EVENT_TCP_SENDMSG",
         e.socket_ptr \in Sockets \cup {NoSocket},
         ActiveSlot(e.socket_ptr) # NoSlot
  PROVE  LET i  == ActiveSlot(e.socket_ptr)
             es == append(timelines[i].entries, e)
         IN  /\ e.socket_ptr \in Sockets
             /\ es \in Seq(Entry)
             /\ Len(es) \in 1 .. TIMELINE_MAX_EVENTS
             /\ es[1].e.event = "EVENT_TCP_V4_RCV"
             /\ \A k \in 1 .. Len(es) : es[k].e.socket_ptr = e.socket_ptr
             /\ \A k \in 2 .. Len(es) :
                  \/ es[k].e.event \notin {"EVENT_TCP_V4_RCV", "EVENT_TCP_SENDMSG"}
                  \/ k = Len(es) /\ es[k].e.event = "EVENT_TCP_SENDMSG"
             /\ \/ es[Len(es)].e.event = "EVENT_TCP_SENDMSG"
                \/ Len(es) = TIMELINE_MAX_EVENTS
<1>. DEFINE i  == ActiveSlot(e.socket_ptr)
            es == timelines[i].entries
            ne == append(es, e)
<1>1. /\ e.socket_ptr \in Sockets /\ i \in Slots
      /\ timelines[i].socket = e.socket_ptr /\ timelines[i].active
  BY ActiveSlotResult
<1>2. timelines[i] \in Slot /\ RecordingOf(timelines[i])
  BY <1>1 DEF TableInv, RecordingsWellFormed
<1>3. es \in Seq(Entry)
  BY <1>2 DEF Slot
<1>4. /\ Len(es) \in 1 .. TIMELINE_MAX_EVENTS
      /\ es[1].e.event = "EVENT_TCP_V4_RCV"
      /\ \A k \in 1 .. Len(es) : es[k].e.socket_ptr = e.socket_ptr
      /\ \A k \in 2 .. Len(es) :
           es[k].e.event \notin {"EVENT_TCP_V4_RCV", "EVENT_TCP_SENDMSG"}
  BY <1>1, <1>2 DEF RecordingOf
<1>5. /\ ne \in Seq(Entry)
      /\ \A k \in 1 .. Len(es) : ne[k] = es[k]
      /\ \/ Len(es) >= TIMELINE_MAX_EVENTS /\ ne = es
         \/ /\ Len(es) < TIMELINE_MAX_EVENTS
            /\ Len(ne) = Len(es) + 1
            /\ ne[Len(ne)].e = e
  BY <1>3, AppendEffect
<1>. HIDE DEF es, ne
<1>6. CASE Len(es) >= TIMELINE_MAX_EVENTS /\ ne = es
  BY <1>1, <1>3, <1>4, <1>6 DEF i, es, ne
<1>7. CASE /\ Len(es) < TIMELINE_MAX_EVENTS
           /\ Len(ne) = Len(es) + 1
           /\ ne[Len(ne)].e = e
  <2>1. /\ Len(ne) \in 1 .. TIMELINE_MAX_EVENTS
        /\ ne[1].e.event = "EVENT_TCP_V4_RCV"
        /\ \A k \in 1 .. Len(ne) : ne[k].e.socket_ptr = e.socket_ptr
        /\ \A k \in 2 .. Len(ne) :
             \/ ne[k].e.event \notin {"EVENT_TCP_V4_RCV", "EVENT_TCP_SENDMSG"}
             \/ k = Len(ne) /\ ne[k].e.event = "EVENT_TCP_SENDMSG"
        /\ ne[Len(ne)].e.event = "EVENT_TCP_SENDMSG"
    <3>. DEFINE n == Len(es)
    <3>1. /\ n \in Nat /\ n >= 1 /\ n + 1 <= TIMELINE_MAX_EVENTS /\ Len(ne) = n + 1
          /\ ne[n + 1].e.event = "EVENT_TCP_SENDMSG"
          /\ ne[n + 1].e.socket_ptr = e.socket_ptr
      BY <1>3, <1>4, <1>7
    <3>2. \A k \in 1 .. n : ne[k] = es[k]
      BY <1>5
    <3>3. /\ es[1].e.event = "EVENT_TCP_V4_RCV"
          /\ \A k \in 1 .. n : es[k].e.socket_ptr = e.socket_ptr
          /\ \A k \in 2 .. n :
               es[k].e.event \notin {"EVENT_TCP_V4_RCV", "EVENT_TCP_SENDMSG"}
      BY <1>4
    <3>. HIDE DEF n
    <3>. QED
      BY <3>1, <3>2, <3>3
  <2>. QED
    BY <1>1, <1>5, <2>1 DEF i, es, ne
<1>. QED
  BY <1>5, <1>6, <1>7

(* What ExportWellFormed says of one record.                               *)
GoodExport(r) ==
  LET es == r.timeline
  IN  /\ Len(es) \in MIN_STEPS .. TIMELINE_MAX_EVENTS
      /\ es[1].e.event = "EVENT_TCP_V4_RCV"
      /\ \A k \in 1 .. Len(es) : es[k].e.socket_ptr = r.socket
      /\ \A k \in 2 .. Len(es) :
           \/ es[k].e.event \notin {"EVENT_TCP_V4_RCV", "EVENT_TCP_SENDMSG"}
           \/ k = Len(es) /\ es[k].e.event = "EVENT_TCP_SENDMSG"
      /\ \/ es[Len(es)].e.event = "EVENT_TCP_SENDMSG"
         \/ Len(es) = TIMELINE_MAX_EVENTS

FilesInv ==
  /\ metrics \in Metrics
  /\ kernel_request \in {NoFile, OldFile} \cup Requests
  /\ metrics_json \in {NoFile} \cup Metrics
  /\ requests_jsonl \in Seq(Journal)
  /\ flame_folded \in Seq(Stack)
  /\ sequence_mmd \in Seq(Seq(Actors \X Actors))

JournalInv == \A n \in 1 .. Len(requests_jsonl) : GoodExport(requests_jsonl[n])

LEMMA ZeroMetricsType == ZeroMetrics \in Metrics
<1>1. 0 \in Nat /\ 0 \in Timestamp
  BY DEF Timestamp
<1>. QED
  BY <1>1 DEF ZeroMetrics, Metrics

LEMMA TruncatedSeq ==
  ASSUME NEW S, NEW q \in Seq(S), NEW new \in {q, <<>>}
  PROVE  new \in Seq(S)
<1>1. <<>> \in Seq(S)
  OBVIOUS
<1>. QED
  BY <1>1, Zenon

LEMMA AppendedSeq ==
  ASSUME NEW S, NEW q \in Seq(S), NEW x \in S
  PROVE  /\ Append(q, x) \in Seq(S)
         /\ Len(Append(q, x)) = Len(q) + 1
         /\ Append(q, x)[Len(q) + 1] = x
         /\ \A n \in 1 .. Len(q) : Append(q, x)[n] = q[n]
  OBVIOUS

LEMMA FinishKeepsFiles ==
  ASSUME TableInv, FilesInv, JournalInv, NEW e \in Event,
         e.event = "EVENT_TCP_SENDMSG",
         e.socket_ptr \in Sockets \cup {NoSocket}, timeline_finish(e)
  PROVE  FilesInv' /\ JournalInv'
<1>. DEFINE s  == e.socket_ptr
            i  == ActiveSlot(s)
            es == append(timelines[i].entries, e)
            kr == KernelRequest(s, es)
            jr == JournalRecord(s, es)
            fs == FlameStack(s, es)
<1>1. CASE UNCHANGED <<metrics, files>>
  BY <1>1 DEF FilesInv, JournalInv, files
<1>2. CASE i # NoSlot /\ Len(es) >= MIN_STEPS /\ export(s, es)
  <2>1. /\ s \in Sockets /\ es \in Seq(Entry)
        /\ Len(es) \in 1 .. TIMELINE_MAX_EVENTS
        /\ es[1].e.event = "EVENT_TCP_V4_RCV"
        /\ \A k \in 1 .. Len(es) : es[k].e.socket_ptr = s
        /\ \A k \in 2 .. Len(es) :
             \/ es[k].e.event \notin {"EVENT_TCP_V4_RCV", "EVENT_TCP_SENDMSG"}
             \/ k = Len(es) /\ es[k].e.event = "EVENT_TCP_SENDMSG"
        /\ \/ es[Len(es)].e.event = "EVENT_TCP_SENDMSG"
           \/ Len(es) = TIMELINE_MAX_EVENTS
    BY <1>2, ExportedRecording
  <2>. HIDE DEF s, i, es
  <2>2. update_metrics(es) \in Metrics
    BY <2>1, MetricsType DEF FilesInv
  <2>3. kr \in Requests /\ jr \in Journal /\ fs \in Stack
    BY <2>1, KernelRequestType, JournalRecordType, FlameStackType
  <2>4. GoodExport(jr)
    <3>1. jr.timeline = es /\ jr.socket = s
      BY DEF JournalRecord
    <3>2. Len(es) \in MIN_STEPS .. TIMELINE_MAX_EVENTS
      BY <1>2, <2>1
    <3>. HIDE DEF jr
    <3>. QED
      BY <2>1, <3>1, <3>2 DEF GoodExport
  <2>5. Len(es) >= 2 => Arrows(es) \in Seq(Actors \X Actors)
    BY <2>1, ArrowsType
  <2>. HIDE DEF kr, jr, fs
  <2>6. metrics' = update_metrics(es)
    BY <1>2 DEF export
  <2>7. PICK failed \in SUBSET Faulty :
          /\ kernel_request' = IF "kernel_request" \in failed THEN kernel_request ELSE kr
          /\ metrics_json' = IF "metrics" \in failed THEN metrics_json ELSE metrics'
          /\ requests_jsonl' = IF "requests" \in failed THEN requests_jsonl
                               ELSE Append(requests_jsonl, jr)
          /\ flame_folded' = IF "flame" \in failed THEN flame_folded
                             ELSE Append(flame_folded, fs)
          /\ sequence_mmd' = IF "sequence" \in failed \/ Len(es) < 2
                             THEN sequence_mmd ELSE Append(sequence_mmd, Arrows(es))
    BY <1>2 DEF export, kr, jr, fs
  <2>8. metrics' \in Metrics /\ metrics_json' \in {NoFile} \cup Metrics
    BY <2>2, <2>6, <2>7 DEF FilesInv
  <2>9. kernel_request' \in {NoFile, OldFile} \cup Requests
    BY <2>3, <2>7 DEF FilesInv
  <2>10. requests_jsonl' \in Seq(Journal) /\ JournalInv'
    <3>1. requests_jsonl \in Seq(Journal)
      BY DEF FilesInv
    <3>2. CASE requests_jsonl' = requests_jsonl
      BY <3>1, <3>2 DEF JournalInv
    <3>3. CASE requests_jsonl' = Append(requests_jsonl, jr)
      <4>1. /\ requests_jsonl' \in Seq(Journal)
            /\ Len(requests_jsonl') = Len(requests_jsonl) + 1
            /\ requests_jsonl'[Len(requests_jsonl) + 1] = jr
            /\ \A n \in 1 .. Len(requests_jsonl) : requests_jsonl'[n] = requests_jsonl[n]
        BY <2>3, <3>1, <3>3, AppendedSeq
      <4>2. \A n \in 1 .. Len(requests_jsonl') :
              n \in 1 .. Len(requests_jsonl) \/ n = Len(requests_jsonl) + 1
        BY <3>1, <4>1
      <4>3. \A n \in 1 .. Len(requests_jsonl') : GoodExport(requests_jsonl'[n])
        BY <2>4, <4>1, <4>2 DEF JournalInv
      <4>4. JournalInv'
        BY <4>3, Zenon DEF JournalInv, GoodExport
      <4>. QED
        BY <4>1, <4>4
    <3>. QED
      BY <2>7, <3>2, <3>3
  <2>11. flame_folded' \in Seq(Stack)
    <3>1. flame_folded \in Seq(Stack)
      BY DEF FilesInv
    <3>. QED
      BY <2>3, <2>7, <3>1, AppendedSeq
  <2>12. sequence_mmd' \in Seq(Seq(Actors \X Actors))
    <3>1. sequence_mmd \in Seq(Seq(Actors \X Actors))
      BY DEF FilesInv
    <3>2. CASE Len(es) < 2
      BY <2>7, <3>1, <3>2
    <3>3. CASE ~ (Len(es) < 2)
      <4>1. Arrows(es) \in Seq(Actors \X Actors)
        BY <2>1, <2>5, <3>3
      <4>. QED
        BY <2>7, <3>1, <4>1, AppendedSeq
    <3>. QED
      BY <3>2, <3>3
  <2>. QED
    BY <2>8, <2>9, <2>10, <2>11, <2>12 DEF FilesInv
<1>. QED
  BY <1>1, <1>2, Zenon DEF timeline_finish, tlVars

LEMMA FilesInvInductive ==
  /\ TimelineInit => FilesInv /\ JournalInv
  /\ TableInv /\ FilesInv /\ JournalInv /\ [TimelineNext]_tlVars => FilesInv' /\ JournalInv'
<1>1. ASSUME TimelineInit PROVE FilesInv /\ JournalInv
  BY <1>1, ZeroMetricsType DEF TimelineInit, FilesInv, JournalInv
<1>2. ASSUME TableInv, FilesInv, JournalInv, [TimelineNext]_tlVars
      PROVE  FilesInv' /\ JournalInv'
  <2>1. ASSUME UNCHANGED <<metrics, files>> PROVE FilesInv' /\ JournalInv'
    BY <1>2, <2>1 DEF FilesInv, JournalInv, files
  <2>2. ASSUME NEW e \in Inputs, timeline_start(e) \/ timeline_add_event(e)
        PROVE  FilesInv' /\ JournalInv'
    BY <2>1, <2>2 DEF timeline_start, timeline_add_event, tlVars
  <2>3. ASSUME NEW e \in Inputs, e.event = "EVENT_TCP_SENDMSG", timeline_finish(e)
        PROVE  FilesInv' /\ JournalInv'
    BY <1>2, <2>3, InputsAreEvents, FinishKeepsFiles
  <2>4. ASSUME timeline_init PROVE FilesInv' /\ JournalInv'
    <3>1. metrics' = ZeroMetrics /\ kernel_request' = kernel_request
      BY <2>4 DEF timeline_init
    <3>2. /\ metrics_json' \in {metrics_json, NoFile}
          /\ requests_jsonl' \in {requests_jsonl, <<>>}
          /\ flame_folded' \in {flame_folded, <<>>}
          /\ sequence_mmd' \in {sequence_mmd, <<>>}
      BY <2>4 DEF timeline_init
    <3>3. metrics' \in Metrics
      BY <3>1, ZeroMetricsType
    <3>4. /\ kernel_request' \in {NoFile, OldFile} \cup Requests
          /\ metrics_json' \in {NoFile} \cup Metrics
      BY <1>2, <3>1, <3>2 DEF FilesInv
    <3>5. requests_jsonl' \in Seq(Journal) /\ JournalInv'
      <4>1. CASE requests_jsonl' = requests_jsonl
        BY <1>2, <4>1 DEF FilesInv, JournalInv
      <4>2. CASE requests_jsonl' = <<>>
        BY <4>2 DEF JournalInv
      <4>. QED
        BY <3>2, <4>1, <4>2
    <3>6. flame_folded' \in Seq(Stack)
      BY <1>2, <3>2, TruncatedSeq DEF FilesInv
    <3>7. sequence_mmd' \in Seq(Seq(Actors \X Actors))
      BY <1>2, <3>2, TruncatedSeq DEF FilesInv
    <3>. QED
      BY <3>3, <3>4, <3>5, <3>6, <3>7 DEF FilesInv
  <2>5. ASSUME UNCHANGED tlVars PROVE FilesInv' /\ JournalInv'
    BY <2>1, <2>5 DEF tlVars
  <2>. QED
    BY <1>2, <2>2, <2>3, <2>4, <2>5 DEF TimelineNext
<1>. QED
  BY <1>1, <1>2

(* Every value that the timelines, the metrics and the exported files ever *)
(* hold has its declared type, for every choice of files that fail.        *)
THEOREM TimelineTypeCorrect == TimelineSpec => []TimelineTypeOK
<1>1. TableInv /\ FilesInv => TimelineTypeOK
  BY DEF TableInv, FilesInv, TimelineTypeOK, Requests, Journal, Stack
<1>. QED
  BY <1>1, TableInvInductive, FilesInvInductive, PTL DEF TimelineSpec

(* A record of requests.jsonl is one exchange of one socket: it opens with *)
(* the TCP_V4_RCV and ends with the TCP_SENDMSG, or at the full array.     *)
THEOREM ExportsAreWellFormed == TimelineSpec => []ExportWellFormed
<1>1. JournalInv => ExportWellFormed
  BY Zenon DEF JournalInv, GoodExport, ExportWellFormed
<1>. QED
  BY <1>1, TableInvInductive, FilesInvInductive, PTL DEF TimelineSpec

-----------------------------------------------------------------------------
(* The deltas of a recording add up to its duration.                       *)

LEMMA DeltasType ==
  ASSUME NEW entries \in Seq(Entry)
  PROVE  Deltas(entries) \in Seq(Nat) /\ Len(Deltas(entries)) = Len(entries)
<1>1. \A k \in 1 .. Len(entries) : entries[k].delta_ns \in Nat
  BY EntryFields DEF Timestamp
<1>2. Len(entries) \in Nat
  OBVIOUS
<1>3. Deltas(entries) \in [1 .. Len(entries) -> Nat]
  BY <1>1 DEF Deltas
<1>. QED
  BY <1>2, <1>3, SeqDef

(* An empty recording has no deltas and lasts no time.                     *)
LEMMA NothingAddsUp == AddsUp(<<>>, timeline_total_ns(<<>>))
<1>1. <<>> \in Seq(Entry) /\ Len(<<>>) = 0
  OBVIOUS
<1>2. Deltas(<<>>) = <<>>
  <2>1. Deltas(<<>>) \in Seq(Nat) /\ Len(Deltas(<<>>)) = 0
    BY <1>1, DeltasType, Zenon
  <2>. QED
    BY <2>1, EmptySeq
<1>3. timeline_total_ns(<<>>) = 0
  BY <1>1 DEF timeline_total_ns
<1>. QED
  BY <1>2, <1>3, TotalOfNothing DEF AddsUp

(* append() computes the delta that the duration grows by, whatever the    *)
(* order of the two timestamps.                                            *)
LEMMA AppendAddsUp ==
  ASSUME NEW entries \in Seq(Entry), NEW e \in Event,
         AddsUp(entries, timeline_total_ns(entries))
  PROVE  AddsUp(append(entries, e), timeline_total_ns(append(entries, e)))
<1>1. CASE Len(entries) >= TIMELINE_MAX_EVENTS
  BY <1>1 DEF append
<1>2. CASE ~ (Len(entries) >= TIMELINE_MAX_EVENTS)
  <2>1. PICK new : new = append(entries, e)
    OBVIOUS
  <2>2. PICK d : d = IF entries = <<>> THEN 0
                     ELSE Minus64(e.timestamp, entries[Len(entries)].e.timestamp)
    OBVIOUS
  <2>3. /\ new = Append(entries, [e |-> e, delta_ns |-> d])
        /\ new \in Seq(Entry) /\ Len(new) = Len(entries) + 1
        /\ \A k \in 1 .. Len(entries) : new[k] = entries[k]
        /\ new[Len(entries) + 1].e = e /\ new[Len(entries) + 1].delta_ns = d
    <3>1. new = Append(entries, [e |-> e, delta_ns |-> d])
      BY <1>2, <2>1, <2>2 DEF append
    <3>2. PICK te : te = [e |-> e, delta_ns |-> d]
      OBVIOUS
    <3>3. new \in Seq(Entry) /\ \A k \in 1 .. Len(entries) : new[k] = entries[k]
      BY <2>1, AppendEffect
    <3>4. Len(new) = Len(entries) + 1 /\ new[Len(entries) + 1] = te
      BY <3>1, <3>2
    <3>. QED
      BY <3>1, <3>2, <3>3, <3>4
  <2>4. Deltas(entries) \in Seq(Nat) /\ Deltas(new) \in Seq(Nat)
        /\ Len(Deltas(entries)) = Len(entries) /\ Len(Deltas(new)) = Len(entries) + 1
    BY <2>3, DeltasType
  <2>5. d \in Nat
    <3>1. Len(entries) + 1 \in 1 .. Len(new)
      BY <2>3
    <3>2. new[Len(entries) + 1].delta_ns \in Timestamp
      BY <2>3, <3>1, EntryFields, Zenon
    <3>. QED
      BY <2>3, <3>2 DEF Timestamp
  <2>6. Deltas(new) = Append(Deltas(entries), d)
    <3>1. PICK f \in Seq(Nat), g \in Seq(Nat) : f = Deltas(entries) /\ g = Deltas(new)
      BY <2>4
    <3>2. Len(f) = Len(entries) /\ Len(g) = Len(entries) + 1
      BY <2>4, <3>1
    <3>3. \A k \in 1 .. Len(f) : g[k] = f[k]
      BY <2>3, <2>4, <3>1, <3>2 DEF Deltas
    <3>4. g[Len(f) + 1] = d
      BY <2>3, <2>4, <3>1, <3>2 DEF Deltas
    <3>. QED
      BY <2>5, <3>1, <3>2, <3>3, <3>4, OneMore
  <2>7. PICK a \in Nat : a = TotalOf(Deltas(entries)) /\ TotalOf(Deltas(new)) = a + d
    BY <2>4, <2>5, <2>6, TotalOfAppend
  <2>8. CASE entries = <<>>
    <3>1. a = 0 /\ d = 0 /\ Len(new) = 1
      <4>1. Deltas(entries) = <<>>
        BY <2>4, <2>8, EmptySeq
      <4>. QED
        BY <2>2, <2>3, <2>7, <2>8, <4>1, TotalOfNothing
    <3>2. timeline_total_ns(new) = 0
      BY <3>1 DEF timeline_total_ns
    <3>3. TotalOf(Deltas(new)) % U64 = 0
      BY <2>7, <3>1
    <3>. QED
      BY <2>1, <3>2, <3>3 DEF AddsUp
  <2>9. CASE entries # <<>>
    <3>1. PICK n \in Nat : n = Len(entries) /\ n >= 1
      BY <2>9, EmptySeq
    <3>2. PICK x \in Int, y \in Int, z \in Int :
            x = entries[1].e.timestamp /\ y = entries[n].e.timestamp /\ z = e.timestamp
      <4>1. entries[1] \in Entry /\ entries[n] \in Entry
        BY <3>1, ElementOfSeq
      <4>2. /\ entries[1].e.timestamp \in Int /\ entries[n].e.timestamp \in Int
            /\ e.timestamp \in Int
        BY <4>1 DEF Entry, Event, Timestamp
      <4>. QED
        BY <4>2
    <3>3. d = (z - y) % U64
      BY <2>2, <2>9, <3>1, <3>2 DEF Minus64
    <3>4. timeline_total_ns(entries) = (y - x) % U64
      <4>1. CASE n < 2
        <5>1. n = 1 /\ y - x = 0
          BY <3>1, <3>2, <4>1
        <5>. QED
          BY <3>1, <4>1, <5>1 DEF timeline_total_ns
      <4>2. CASE ~ (n < 2)
        BY <3>1, <3>2, <4>2 DEF timeline_total_ns, Minus64
      <4>. QED
        BY <4>1, <4>2
    <3>5. timeline_total_ns(new) = (z - x) % U64
      <4>1. /\ ~ (Len(new) < 2) /\ new[Len(new)].e.timestamp = z
            /\ new[1].e.timestamp = x
        BY <2>3, <3>1, <3>2
      <4>. QED
        BY <4>1 DEF timeline_total_ns, Minus64
    <3>6. a % U64 = (y - x) % U64
      BY <2>7, <3>4 DEF AddsUp
    <3>7. (a + ((z - y) % U64)) % U64 = (z - x) % U64
      BY <3>6, DeltaExtends, ZenonT(60)
    <3>8. TotalOf(Deltas(new)) % U64 = (z - x) % U64
      BY <2>7, <3>3, <3>7, Zenon
    <3>. QED
      BY <2>1, <3>5, <3>8, Zenon DEF AddsUp
  <2>. QED
    BY <2>8, <2>9
<1>. QED
  BY <1>1, <1>2

(* Open recordings and the request that the Java agent reads add up.       *)
OpenAddUp ==
  \A i \in Slots : timelines[i].active =>
    AddsUp(timelines[i].entries, timeline_total_ns(timelines[i].entries))

RequestAddsUp ==
  kernel_request \notin {NoFile, OldFile} =>
    AddsUp(kernel_request.steps, kernel_request.total_ns)

LEMMA DeltasInductive ==
  /\ TimelineInit => OpenAddUp /\ RequestAddsUp
  /\ TableInv /\ OpenAddUp /\ RequestAddsUp /\ [TimelineNext]_tlVars
     => OpenAddUp' /\ RequestAddsUp'
<1>0. /\ timelines = [i \in Slots |-> FreeSlot] => OpenAddUp
      /\ timelines' = [i \in Slots |-> FreeSlot] => OpenAddUp'
  BY DEF OpenAddUp, FreeSlot
<1>1. ASSUME TimelineInit PROVE OpenAddUp /\ RequestAddsUp
  BY <1>0, <1>1 DEF TimelineInit, RequestAddsUp
<1>2. ASSUME TableInv, OpenAddUp, RequestAddsUp, [TimelineNext]_tlVars
      PROVE  OpenAddUp' /\ RequestAddsUp'
  <2>1. ASSUME UNCHANGED timelines PROVE OpenAddUp'
    BY <1>2, <2>1, Zenon DEF OpenAddUp, AddsUp, timeline_total_ns, Slots
  <2>2. ASSUME UNCHANGED kernel_request PROVE RequestAddsUp'
    BY <1>2, <2>2, Zenon DEF RequestAddsUp
  <2>3. ASSUME NEW i \in Slots, NEW s, GoesTo(i, s),
               timelines'[i].active =>
                 AddsUp(timelines'[i].entries, timeline_total_ns(timelines'[i].entries))
        PROVE  OpenAddUp'
    <3>1. ASSUME NEW j \in Slots, timelines'[j].active
          PROVE  AddsUp(timelines'[j].entries, timeline_total_ns(timelines'[j].entries))
      <4>1. CASE j = i
        BY <2>3, <3>1, <4>1
      <4>2. CASE j # i
        <5>1. timelines'[j] = timelines[j]
          BY <2>3, <4>2 DEF GoesTo
        <5>. QED
          BY <1>2, <3>1, <5>1, Zenon DEF OpenAddUp
      <4>. QED
        BY <4>1, <4>2
    <3>. QED
      BY <3>1, Zenon DEF OpenAddUp
  <2>4. ASSUME NEW e \in Inputs, timeline_start(e) PROVE OpenAddUp' /\ RequestAddsUp'
    <3>1. UNCHANGED kernel_request
      BY <2>4 DEF timeline_start, tlVars, files
    <3>2. CASE UNCHANGED timelines
      BY <2>1, <2>2, <3>1, <3>2
    <3>3. ASSUME NEW i \in Slots, GoesTo(i, e.socket_ptr),
                 timelines'[i].entries = append(<<>>, e)
          PROVE  OpenAddUp'
      <4>1. <<>> \in Seq(Entry) /\ e \in Event
        BY InputsAreEvents
      <4>2. AddsUp(append(<<>>, e), timeline_total_ns(append(<<>>, e)))
        BY <4>1, NothingAddsUp, AppendAddsUp, Zenon
      <4>. QED
        BY <2>3, <3>3, <4>2, Zenon
    <3>. QED
      BY <1>2, <2>2, <2>4, <3>1, <3>2, <3>3, StartEffect, InputsAreEvents
  <2>5. ASSUME NEW e \in Inputs, timeline_add_event(e) PROVE OpenAddUp' /\ RequestAddsUp'
    <3>1. UNCHANGED kernel_request
      BY <2>5 DEF timeline_add_event, tlVars, files
    <3>2. CASE UNCHANGED timelines
      BY <2>1, <2>2, <3>1, <3>2
    <3>3. ASSUME NEW i \in Slots, GoesTo(i, e.socket_ptr), timelines[i].active,
                 timelines[i].entries \in Seq(Entry),
                 timelines'[i].entries = append(timelines[i].entries, e)
          PROVE  OpenAddUp'
      <4>1. PICK es \in Seq(Entry) : es = timelines[i].entries
        BY <3>3
      <4>2. AddsUp(es, timeline_total_ns(es)) /\ e \in Event
        BY <1>2, <3>3, <4>1, InputsAreEvents DEF OpenAddUp
      <4>3. AddsUp(append(es, e), timeline_total_ns(append(es, e)))
        BY <4>2, AppendAddsUp, Zenon
      <4>. QED
        BY <2>3, <3>3, <4>1, <4>3, Zenon
    <3>. QED
      BY <1>2, <2>2, <2>5, <3>1, <3>2, <3>3, AddEffect, InputsAreEvents
  <2>6. ASSUME NEW e \in Inputs, timeline_finish(e) PROVE OpenAddUp' /\ RequestAddsUp'
    <3>1. OpenAddUp'
      <4>1. CASE UNCHANGED timelines
        BY <2>1, <4>1
      <4>2. ASSUME NEW i \in Slots, GoesTo(i, e.socket_ptr), ~ timelines'[i].active
            PROVE  OpenAddUp'
        BY <2>3, <4>2, Zenon
      <4>. QED
        BY <1>2, <2>6, <4>1, <4>2, FinishEffect, InputsAreEvents
    <3>2. RequestAddsUp'
      <4>1. CASE UNCHANGED kernel_request
        BY <2>2, <4>1
      <4>2. CASE ~ UNCHANGED kernel_request
        <5>1. PICK i, es : /\ i = ActiveSlot(e.socket_ptr) /\ i # NoSlot
                           /\ es = append(timelines[i].entries, e)
                           /\ kernel_request' = KernelRequest(e.socket_ptr, es)
          <6>1. \/ UNCHANGED kernel_request
                \/ /\ ActiveSlot(e.socket_ptr) # NoSlot
                   /\ export(e.socket_ptr, append(timelines[ActiveSlot(e.socket_ptr)].entries, e))
            BY <2>6, Zenon DEF timeline_finish, tlVars, files
          <6>. QED
            BY <4>2, <6>1, Zenon DEF export
        <5>2. i \in Slots /\ timelines[i].active
          BY <5>1, ActiveSlotResult, InputsAreEvents
        <5>3. PICK old \in Seq(Entry) : old = timelines[i].entries
          BY <1>2, <5>2 DEF TableInv, Slot
        <5>4. AddsUp(old, timeline_total_ns(old)) /\ e \in Event
          BY <1>2, <5>2, <5>3, InputsAreEvents DEF OpenAddUp
        <5>5. AddsUp(es, timeline_total_ns(es))
          <6>1. es = append(old, e)
            BY <5>1, <5>3, Zenon
          <6>2. AddsUp(append(old, e), timeline_total_ns(append(old, e)))
            BY <5>4, AppendAddsUp, Zenon
          <6>. QED
            BY <6>1, <6>2, Zenon
        <5>6. /\ kernel_request'.steps = es
              /\ kernel_request'.total_ns = timeline_total_ns(es)
          BY <5>1 DEF KernelRequest
        <5>. QED
          BY <5>5, <5>6, Zenon DEF RequestAddsUp
      <4>. QED
        BY <4>1, <4>2
    <3>. QED
      BY <3>1, <3>2
  <2>7. ASSUME timeline_init PROVE OpenAddUp' /\ RequestAddsUp'
    BY <1>0, <2>2, <2>7 DEF timeline_init
  <2>8. ASSUME UNCHANGED tlVars PROVE OpenAddUp' /\ RequestAddsUp'
    BY <2>1, <2>2, <2>8 DEF tlVars, files
  <2>. QED
    BY <1>2, <2>4, <2>5, <2>6, <2>7, <2>8 DEF TimelineNext
<1>. QED
  BY <1>1, <1>2

(* The per-step deltas of every open recording, and of every request in    *)
(* kernel_request.txt, add up to the duration that timeline_total_ns       *)
(* computes from the two ends, modulo the width of a timestamp.            *)
THEOREM StepsAddUpToTotal == TimelineSpec => []DeltasAddUp
<1>1. OpenAddUp /\ RequestAddsUp => DeltasAddUp
  BY DEF OpenAddUp, RequestAddsUp, DeltasAddUp
<1>. QED
  BY <1>1, TableInvInductive, DeltasInductive, PTL DEF TimelineSpec

-----------------------------------------------------------------------------
(* The metrics are those of the journal.                                   *)

LatenciesOf(j) == [n \in 1 .. Len(j) |-> j[n].total_ns]
CountsOf(j) == [n \in 1 .. Len(j) |-> Len(j[n].timeline)]

(* The metrics m are those of the records in j: what MetricsMatchJournal   *)
(* says, and that the maximum starts at zero.                              *)
Matches(m, j) ==
  /\ m.request_count = Len(j)
  /\ m.total_latency_ns = TotalOf(LatenciesOf(j)) % U64
  /\ m.total_events = TotalOf(CountsOf(j))
  /\ j = <<>> => m.max_latency_ns = 0
  /\ j # <<>> =>
       /\ \E n \in 1 .. Len(j) : m.max_latency_ns = LatenciesOf(j)[n]
       /\ \E n \in 1 .. Len(j) : m.min_latency_ns = LatenciesOf(j)[n]
       /\ \A n \in 1 .. Len(j) : LatenciesOf(j)[n] \in m.min_latency_ns .. m.max_latency_ns

MetricsInv == "requests" \notin Faulty => Matches(metrics, requests_jsonl)

(* update_metrics as a function of the metrics and the new record.         *)
Updated(m, r) ==
  [request_count    |-> m.request_count + 1,
   total_latency_ns |-> (m.total_latency_ns + r.total_ns) % U64,
   max_latency_ns   |-> IF r.total_ns > m.max_latency_ns THEN r.total_ns ELSE m.max_latency_ns,
   min_latency_ns   |-> IF m.request_count + 1 = 1 \/ r.total_ns < m.min_latency_ns
                        THEN r.total_ns ELSE m.min_latency_ns,
   total_events     |-> m.total_events + Len(r.timeline)]

LEMMA UpdateIsUpdated ==
  ASSUME NEW s, NEW es
  PROVE  update_metrics(es) = Updated(metrics, JournalRecord(s, es))
<1>1. /\ JournalRecord(s, es).total_ns = timeline_total_ns(es)
      /\ JournalRecord(s, es).timeline = es
  BY DEF JournalRecord
<1>. QED
  BY <1>1, Zenon DEF update_metrics, Updated

LEMMA NothingMatches == Matches(ZeroMetrics, <<>>)
<1>1. LatenciesOf(<<>>) = <<>> /\ CountsOf(<<>>) = <<>>
  <2>1. \A f : f = [n \in 1 .. 0 |-> f[n]] => f = <<>>
    BY NoFunction
  <2>. QED
    BY NoFunction DEF LatenciesOf, CountsOf
<1>2. 0 % U64 = 0
  OBVIOUS
<1>. QED
  BY <1>1, <1>2, TotalOfNothing DEF Matches, ZeroMetrics

(* The numbers of a journal with one more record.                          *)
LEMMA JournalNumbers ==
  ASSUME NEW j \in Seq(Journal), NEW r \in Journal
  PROVE  /\ LatenciesOf(j) \in Seq(Nat) /\ CountsOf(j) \in Seq(Nat)
         /\ Len(LatenciesOf(j)) = Len(j)
         /\ LatenciesOf(Append(j, r)) = Append(LatenciesOf(j), r.total_ns)
         /\ CountsOf(Append(j, r)) = Append(CountsOf(j), Len(r.timeline))
         /\ r.total_ns \in Nat /\ Len(r.timeline) \in Nat
<1>1. \A x \in Journal : x.total_ns \in Nat /\ Len(x.timeline) \in Nat
  <2>1. ASSUME NEW x \in Journal PROVE x.total_ns \in Nat /\ Len(x.timeline) \in Nat
    <3>1. x.total_ns \in Timestamp /\ x.timeline \in Seq(Entry)
      BY DEF Journal
    <3>. QED
      BY <3>1 DEF Timestamp
  <2>. QED
    BY <2>1
<1>2. PICK n \in Nat : n = Len(j)
  OBVIOUS
<1>3. PICK q \in Seq(Journal) : q = Append(j, r)
  BY AppendProperties
<1>4. Len(q) = n + 1 /\ q[n + 1] = r /\ \A k \in 1 .. n : q[k] = j[k]
  BY <1>2, <1>3
<1>5. \A k \in 1 .. n : j[k] \in Journal
  BY <1>2
<1>. DEFINE lj == LatenciesOf(j)
            cj == CountsOf(j)
            lq == LatenciesOf(q)
            cq == CountsOf(q)
<1>6. /\ lj \in [1 .. n -> Nat] /\ cj \in [1 .. n -> Nat]
      /\ lq \in [1 .. n + 1 -> Nat] /\ cq \in [1 .. n + 1 -> Nat]
  <2>1. \A k \in 1 .. n + 1 : q[k] \in Journal
    BY <1>4
  <2>. QED
    BY <1>1, <1>2, <1>4, <1>5, <2>1 DEF LatenciesOf, CountsOf
<1>7. /\ lj \in Seq(Nat) /\ cj \in Seq(Nat) /\ lq \in Seq(Nat) /\ cq \in Seq(Nat)
      /\ Len(lj) = n /\ Len(cj) = n /\ Len(lq) = n + 1 /\ Len(cq) = n + 1
  <2>. HIDE DEF lj, cj, lq, cq
  <2>1. n + 1 \in Nat
    OBVIOUS
  <2>. QED
    BY <1>6, <2>1, FunctionIsSeq, Zenon
<1>8. /\ \A k \in 1 .. n : lq[k] = lj[k] /\ cq[k] = cj[k]
      /\ lq[n + 1] = r.total_ns /\ cq[n + 1] = Len(r.timeline)
  BY <1>2, <1>4 DEF LatenciesOf, CountsOf
<1>9. r.total_ns \in Nat /\ Len(r.timeline) \in Nat
  BY <1>1
<1>. HIDE DEF lj, cj, lq, cq
<1>10. lq = Append(lj, r.total_ns) /\ cq = Append(cj, Len(r.timeline))
  BY <1>7, <1>8, <1>9, OneMore
<1>. QED
  BY <1>2, <1>3, <1>7, <1>9, <1>10 DEF lj, cj, lq, cq

(* Every exported request is counted once.                                 *)
LEMMA RecordCounted ==
  ASSUME NEW m \in Metrics, NEW j \in Seq(Journal), NEW r \in Journal, Matches(m, j)
  PROVE  Matches(Updated(m, r), Append(j, r))
<1>1. PICK q \in Seq(Journal) : q = Append(j, r)
  BY AppendProperties
<1>2. PICK n \in Nat : n = Len(j)
  OBVIOUS
<1>3. Len(q) = n + 1 /\ q # <<>>
  BY <1>1, <1>2
<1>4. PICK lj \in Seq(Nat), cj \in Seq(Nat) : lj = LatenciesOf(j) /\ cj = CountsOf(j)
  BY JournalNumbers, Zenon
<1>5. PICK t \in Nat, c \in Nat : t = r.total_ns /\ c = Len(r.timeline)
  BY JournalNumbers, Zenon
<1>6. PICK lq \in Seq(Nat), cq \in Seq(Nat) : lq = Append(lj, t) /\ cq = Append(cj, c)
  BY AppendProperties
<1>7. /\ Len(lj) = n /\ lq = LatenciesOf(q) /\ cq = CountsOf(q)
  BY <1>1, <1>2, <1>4, <1>5, <1>6, JournalNumbers, Zenon
<1>8. PICK u : u = Updated(m, r)
  OBVIOUS
<1>9. /\ u.request_count = m.request_count + 1
      /\ u.total_latency_ns = (m.total_latency_ns + t) % U64
      /\ u.max_latency_ns = IF t > m.max_latency_ns THEN t ELSE m.max_latency_ns
      /\ u.min_latency_ns = IF m.request_count + 1 = 1 \/ t < m.min_latency_ns
                            THEN t ELSE m.min_latency_ns
      /\ u.total_events = m.total_events + c
  BY <1>5, <1>8 DEF Updated
<1>10. /\ m.request_count \in Nat /\ m.max_latency_ns \in Nat /\ m.min_latency_ns \in Nat
  BY DEF Metrics, Timestamp
<1>11. u.request_count = Len(q)
  BY <1>2, <1>3, <1>9 DEF Matches
<1>12. u.total_latency_ns = TotalOf(lq) % U64
  <2>1. PICK a \in Nat : a = TotalOf(lj) /\ TotalOf(lq) = a + t
    BY <1>6, TotalOfAppend
  <2>2. m.total_latency_ns = a % U64
    BY <1>4, <2>1 DEF Matches
  <2>3. ((a % U64) + t) % U64 = (a + t) % U64
    BY SumWraps, Zenon
  <2>. QED
    BY <1>9, <2>1, <2>2, <2>3, Zenon
<1>13. u.total_events = TotalOf(cq)
  BY <1>4, <1>6, <1>9, TotalOfAppend DEF Matches
<1>14. /\ Len(lq) = n + 1 /\ lq[n + 1] = t
       /\ \A k \in 1 .. n : lq[k] = lj[k] /\ lj[k] \in Nat
  <2>1. /\ Len(lq) = Len(lj) + 1 /\ lq[Len(lj) + 1] = t
        /\ \A k \in 1 .. Len(lj) : lq[k] = lj[k]
    BY <1>6
  <2>2. \A k \in 1 .. Len(lj) : lj[k] \in Nat
    BY ElementOfSeq
  <2>. QED
    BY <1>7, <2>1, <2>2
<1>15. /\ j = <<>> <=> n = 0
       /\ m.request_count = n
       /\ n = 0 => m.max_latency_ns = 0
       /\ n # 0 => /\ \E k \in 1 .. n : m.max_latency_ns = lj[k]
                   /\ \E k \in 1 .. n : m.min_latency_ns = lj[k]
                   /\ \A k \in 1 .. n : lj[k] \in m.min_latency_ns .. m.max_latency_ns
  BY <1>2, <1>4, EmptySeq DEF Matches
<1>16. /\ \E k \in 1 .. n + 1 : u.max_latency_ns = lq[k]
       /\ \E k \in 1 .. n + 1 : u.min_latency_ns = lq[k]
       /\ \A k \in 1 .. n + 1 : lq[k] \in u.min_latency_ns .. u.max_latency_ns
  <2>0. PICK hi2, lo2 : hi2 = u.max_latency_ns /\ lo2 = u.min_latency_ns
    OBVIOUS
  <2>1. PICK hi \in Nat, lo \in Nat :
          /\ hi = m.max_latency_ns /\ lo = m.min_latency_ns
          /\ hi2 = u.max_latency_ns /\ lo2 = u.min_latency_ns
    BY <1>10, <2>0
  <2>2. /\ hi2 = IF t > hi THEN t ELSE hi
        /\ lo2 = IF n = 0 \/ t < lo THEN t ELSE lo
    BY <1>9, <1>15, <2>1
  <2>3. CASE n = 0
    BY <1>14, <1>15, <2>1, <2>2, <2>3
  <2>4. CASE n # 0
    <3>1. PICK i \in 1 .. n, k \in 1 .. n : hi = lj[i] /\ lo = lj[k]
      BY <1>15, <2>1, <2>4
    <3>2. \A x \in 1 .. n : lj[x] \in lo .. hi
      BY <1>15, <2>1, <2>4
    <3>3. \E x \in 1 .. n + 1 : hi2 = lq[x]
      BY <1>14, <2>2, <3>1
    <3>4. \E x \in 1 .. n + 1 : lo2 = lq[x]
      BY <1>14, <2>2, <2>4, <3>1
    <3>5. ASSUME NEW x \in 1 .. n + 1 PROVE lq[x] \in lo2 .. hi2
      <4>1. CASE x = n + 1
        BY <1>14, <2>2, <2>4, <4>1
      <4>2. CASE x # n + 1
        <5>1. x \in 1 .. n
          BY <4>2
        <5>2. lq[x] = lj[x] /\ lj[x] \in Nat /\ lj[x] \in lo .. hi
          BY <1>14, <3>2, <5>1
        <5>. QED
          BY <2>2, <2>4, <5>2, SMTT(60)
      <4>. QED
        BY <4>1, <4>2
    <3>. QED
      BY <2>1, <3>3, <3>4, <3>5
  <2>. QED
    BY <2>3, <2>4
<1>17. Matches(u, q)
  BY <1>3, <1>7, <1>11, <1>12, <1>13, <1>16, Zenon DEF Matches
<1>. QED
  BY <1>1, <1>8, <1>17

LEMMA MetricsInductive ==
  /\ TimelineInit => MetricsInv
  /\ TableInv /\ FilesInv /\ MetricsInv /\ [TimelineNext]_tlVars => MetricsInv'
<1>0. MetricsInv' <=> ("requests" \notin Faulty => Matches(metrics', requests_jsonl'))
  BY Zenon DEF MetricsInv, Matches, LatenciesOf, CountsOf
<1>1. ASSUME TimelineInit PROVE MetricsInv
  BY <1>1, NothingMatches, Zenon DEF TimelineInit, MetricsInv
<1>2. ASSUME TableInv, FilesInv, MetricsInv, [TimelineNext]_tlVars PROVE MetricsInv'
  <2>1. ASSUME UNCHANGED <<metrics, files>> PROVE MetricsInv'
    <3>1. metrics' = metrics /\ requests_jsonl' = requests_jsonl
      BY <2>1 DEF files
    <3>. QED
      BY <1>0, <1>2, <3>1, Zenon DEF MetricsInv
  <2>2. ASSUME NEW e \in Inputs, timeline_start(e) \/ timeline_add_event(e) PROVE MetricsInv'
    BY <2>1, <2>2 DEF timeline_start, timeline_add_event, tlVars
  <2>3. ASSUME NEW e \in Inputs, e.event = "EVENT_TCP_SENDMSG", timeline_finish(e)
        PROVE  MetricsInv'
    <3>1. PICK s, es : /\ s = e.socket_ptr
                       /\ es = append(timelines[ActiveSlot(s)].entries, e)
      OBVIOUS
    <3>2. CASE UNCHANGED <<metrics, files>>
      BY <2>1, <3>2
    <3>3. CASE ActiveSlot(s) # NoSlot /\ export(s, es)
      <4>1. s \in Sockets /\ es \in Seq(Entry)
        BY <1>2, <2>3, <3>1, <3>3, ExportedRecording, InputsAreEvents
      <4>2. JournalRecord(s, es) \in Journal
        BY <4>1, JournalRecordType
      <4>3. metrics' = Updated(metrics, JournalRecord(s, es))
        BY <3>3, UpdateIsUpdated, Zenon DEF export
      <4>4. "requests" \notin Faulty
            => requests_jsonl' = Append(requests_jsonl, JournalRecord(s, es))
        BY <3>3 DEF export
      <4>5. metrics \in Metrics /\ requests_jsonl \in Seq(Journal)
        BY <1>2 DEF FilesInv
      <4>. QED
        BY <1>0, <1>2, <4>2, <4>3, <4>4, <4>5, RecordCounted, Zenon DEF MetricsInv
    <3>. QED
      BY <2>3, <3>1, <3>2, <3>3, Zenon DEF timeline_finish, tlVars
  <2>4. ASSUME timeline_init PROVE MetricsInv'
    <3>1. metrics' = ZeroMetrics /\ ("requests" \notin Faulty => requests_jsonl' = <<>>)
      BY <2>4 DEF timeline_init
    <3>. QED
      BY <1>0, <3>1, NothingMatches, Zenon
  <2>5. ASSUME UNCHANGED tlVars PROVE MetricsInv'
    BY <2>1, <2>5 DEF tlVars
  <2>. QED
    BY <1>2, <2>2, <2>3, <2>4, <2>5 DEF TimelineNext
<1>. QED
  BY <1>1, <1>2

(* While requests.jsonl can be opened, the aggregate metrics count exactly *)
(* the requests in it, their latencies and their events, across restarts.  *)
THEOREM MetricsAreThoseOfJournal == TimelineSpec => []MetricsMatchJournal
<1>1. MetricsInv => MetricsMatchJournal
  BY Zenon DEF MetricsInv, Matches, LatenciesOf, CountsOf,
               MetricsMatchJournal, Latencies, EventCounts
<1>. QED
  BY <1>1, TableInvInductive, FilesInvInductive, MetricsInductive, PTL DEF TimelineSpec

-----------------------------------------------------------------------------
(***************************************************************************)
(* The table implements RequestRecorder: hashing, probing and the fixed    *)
(* number of slots are invisible, whatever collides.                       *)
(***************************************************************************)

(* The state of the recorder, read off the table and the journal.          *)

RecordingAt(s) == EventsOf(timelines[timeline_find(s)].entries)
Recordings == [s \in Known |-> RecordingAt(s)]
PublishedAt(n) == [socket |-> requests_jsonl[n].socket,
                   events |-> EventsOf(requests_jsonl[n].timeline)]
Publications == [n \in 1 .. Len(requests_jsonl) |-> PublishedAt(n)]

LEMMA EventsOfSeq ==
  ASSUME NEW entries \in Seq(Entry)
  PROVE  /\ EventsOf(entries) \in Seq(Event)
         /\ Len(EventsOf(entries)) = Len(entries)
         /\ \A k \in 1 .. Len(entries) : EventsOf(entries)[k] = entries[k].e
<1>1. \A k \in 1 .. Len(entries) : entries[k] \in Entry
  BY ElementOfSeq
<1>2. \A k \in 1 .. Len(entries) : entries[k].e \in Event
  BY <1>1 DEF Entry
<1>3. Len(entries) \in Nat
  OBVIOUS
<1>. QED
  BY <1>2, <1>3 DEF EventsOf

LEMMA EventsOfNothing == EventsOf(<<>>) = <<>>
<1>1. <<>> \in Seq(Entry) /\ Len(<<>>) = 0
  BY EmptySeq
<1>2. EventsOf(<<>>) \in Seq(Event) /\ Len(EventsOf(<<>>)) = 0
  BY <1>1, EventsOfSeq
<1>. QED
  BY <1>2, EmptySeq

(* append() is the recorder's Keep: the deltas that it adds do not show.   *)
LEMMA AppendKeeps ==
  ASSUME NEW entries \in Seq(Entry), NEW e \in Event
  PROVE  EventsOf(append(entries, e)) = Recorder!Keep(EventsOf(entries), e)
<1>. DEFINE new == append(entries, e)
            old == EventsOf(entries)
<1>1. /\ new \in Seq(Entry)
      /\ \A k \in 1 .. Len(entries) : new[k] = entries[k]
      /\ \/ Len(entries) >= TIMELINE_MAX_EVENTS /\ new = entries
         \/ /\ Len(entries) < TIMELINE_MAX_EVENTS
            /\ Len(new) = Len(entries) + 1
            /\ new[Len(new)].e = e
  BY AppendEffect
<1>2. /\ old \in Seq(Event) /\ Len(old) = Len(entries)
      /\ \A k \in 1 .. Len(entries) : old[k] = entries[k].e
  BY EventsOfSeq
<1>3. /\ EventsOf(new) \in Seq(Event) /\ Len(EventsOf(new)) = Len(new)
      /\ \A k \in 1 .. Len(new) : EventsOf(new)[k] = new[k].e
  BY <1>1, EventsOfSeq
<1>. HIDE DEF new, old
<1>4. CASE Len(entries) >= TIMELINE_MAX_EVENTS /\ new = entries
  <2>1. EventsOf(new) = old
    BY <1>4 DEF old
  <2>2. Recorder!Keep(old, e) = old
    <3>1. Len(entries) \in Nat
      OBVIOUS
    <3>. QED
      BY <1>2, <1>4, <3>1 DEF Recorder!Keep
  <2>. QED
    BY <2>1, <2>2 DEF old, new
<1>5. CASE /\ Len(entries) < TIMELINE_MAX_EVENTS
           /\ Len(new) = Len(entries) + 1
           /\ new[Len(new)].e = e
  <2>1. /\ Append(old, e) \in Seq(Event)
        /\ Len(Append(old, e)) = Len(entries) + 1
        /\ Append(old, e)[Len(entries) + 1] = e
        /\ \A k \in 1 .. Len(entries) : Append(old, e)[k] = old[k]
    BY <1>2, AppendedSeq
  <2>2. Len(entries) \in Nat
    OBVIOUS
  <2>3. \A k \in 1 .. Len(new) : EventsOf(new)[k] = Append(old, e)[k]
    BY <1>1, <1>2, <1>3, <1>5, <2>1, <2>2
  <2>4. EventsOf(new) = Append(old, e)
    BY <1>3, <1>5, <2>1, <2>3, SeqEqual
  <2>. QED
    BY <1>2, <1>5, <2>4 DEF Recorder!Keep, old, new
<1>. QED
  BY <1>1, <1>4, <1>5

-----------------------------------------------------------------------------
(* One slot per known socket, and timeline_find finds it.                  *)

SlotsAreFound ==
  \A i \in Slots : timelines[i].occupied =>
    /\ timelines[i].socket \in Known
    /\ timelines[i].socket \in Sockets
    /\ timeline_find(timelines[i].socket) = i

LEMMA TableFinds == TableInv => SlotsAreFound
<1>. SUFFICES ASSUME TableInv, NEW i \in Slots, timelines[i].occupied
              PROVE  /\ timelines[i].socket \in Known
                     /\ timelines[i].socket \in Sockets
                     /\ timeline_find(timelines[i].socket) = i
  BY DEF SlotsAreFound
<1>1. timelines[i].socket \in Sockets
  BY DEF TableInv, OneSlotPerSocket, Slot
<1>2. Holding(timelines[i].socket) = {i}
  BY DEF Holding, TableInv, OneSlotPerSocket
<1>3. timeline_find(timelines[i].socket) = i
  BY <1>1, <1>2, FindResult
<1>. QED
  BY <1>1, <1>3 DEF Known

(* The slot of every known socket.                                         *)
LEMMA SlotOfKnown ==
  ASSUME TableInv, NEW t \in Known
  PROVE  /\ t \in Sockets
         /\ timeline_find(t) \in Slots
         /\ timelines[timeline_find(t)].occupied
         /\ timelines[timeline_find(t)].socket = t
<1>1. PICK i \in Slots : timelines[i].occupied /\ timelines[i].socket = t
  BY DEF Known
<1>. QED
  BY <1>1, TableFinds DEF SlotsAreFound

(* Rewriting a slot for its socket changes that socket's recording only.   *)
LEMMA RewriteRecords ==
  ASSUME TableInv, TableInv',
         NEW i \in Slots, NEW new \in Slot,
         timelines' = [timelines EXCEPT ![i] = new],
         new.occupied,
         timelines[i].occupied => timelines[i].socket = new.socket
  PROVE  Recorder!Record(new.socket, EventsOf(new.entries))
<1>. DEFINE s == new.socket
<1>1. timelines \in [Slots -> Slot]
  BY DEF TableInv
<1>2. /\ timelines'[i] = new
      /\ \A j \in Slots \ {i} : timelines'[j] = timelines[j]
  BY <1>1
<1>3. SlotsAreFound /\ SlotsAreFound'
  <2>1. (TableInv => SlotsAreFound)'
    BY TableFinds, PTL
  <2>. QED
    BY <2>1, TableFinds
<1>4. Slots' = Slots
  BY DEF Slots
<1>5. Known' = Known \cup {s}
  <2>1. Known' = {timelines'[j].socket : j \in {k \in Slots : timelines'[k].occupied}}
    BY <1>4 DEF Known
  <2>2. ASSUME NEW t \in Known' PROVE t \in Known \cup {s}
    <3>1. PICK j \in Slots : timelines'[j].occupied /\ timelines'[j].socket = t
      BY <2>1, <2>2
    <3>. QED
      BY <1>2, <3>1 DEF Known
  <2>3. s \in Known'
    BY <1>2, <2>1
  <2>4. ASSUME NEW t \in Known PROVE t \in Known'
    <3>1. PICK j \in Slots : timelines[j].occupied /\ timelines[j].socket = t
      BY DEF Known
    <3>2. CASE j = i
      BY <2>3, <3>1, <3>2
    <3>3. CASE j # i
      <4>1. timelines'[j] = timelines[j]
        BY <1>2, <3>3
      <4>. QED
        BY <2>1, <3>1, <4>1
    <3>. QED
      BY <3>2, <3>3
  <2>. QED
    BY <2>2, <2>3, <2>4
<1>6. ASSUME NEW t \in Known'
      PROVE  RecordingAt(t)' = IF t = s THEN EventsOf(new.entries) ELSE RecordingAt(t)
  <2>1. CASE t = s
    <3>1. timeline_find(t)' = i
      BY <1>2, <1>3, <1>4, <2>1 DEF SlotsAreFound
    <3>. QED
      BY <1>2, <2>1, <3>1 DEF RecordingAt, EventsOf
  <2>2. CASE t # s
    <3>1. t \in Known
      BY <1>5, <2>2
    <3>2. PICK j \in Slots : timelines[j].occupied /\ timelines[j].socket = t
      BY <3>1 DEF Known
    <3>3. j # i
      BY <2>2, <3>2
    <3>4. timelines'[j] = timelines[j]
      BY <1>2, <3>3
    <3>5. timeline_find(t) = j /\ timeline_find(t)' = j
      BY <1>3, <1>4, <3>2, <3>4 DEF SlotsAreFound
    <3>. QED
      BY <2>2, <3>4, <3>5 DEF RecordingAt, EventsOf
  <2>. QED
    BY <2>1, <2>2
<1>7. Recordings' = [t \in Known \cup {s} |->
                      IF t = s THEN EventsOf(new.entries) ELSE Recordings[t]]
  <2>1. Recordings' = [t \in Known' |-> RecordingAt(t)']
    BY DEF Recordings
  <2>2. \A t \in Known : Recordings[t] = RecordingAt(t)
    BY DEF Recordings
  <2>3. \A t \in Known' : RecordingAt(t)' = IF t = s THEN EventsOf(new.entries)
                                                     ELSE Recordings[t]
    BY <1>5, <1>6, <2>2
  <2>. HIDE DEF s
  <2>. QED
    BY <1>5, <2>1, <2>3
<1>8. DOMAIN Recordings = Known
  BY DEF Recordings
<1>. QED
  BY <1>7, <1>8 DEF Recorder!Record, Recorder!Known, Recordings, RecordingAt

(* While a slot is free, fewer sockets are known than there are slots.     *)
LEMMA FreeSlotMeansRoom ==
  ASSUME TableInv, NEW i \in Slots, ~ timelines[i].occupied
  PROVE  Cardinality(Known) < TABLE_SIZE
<1>. DEFINE Occupied == {j \in Slots : timelines[j].occupied}
            owner == [j \in Occupied |-> timelines[j].socket]
<1>1. IsFiniteSet(Slots) /\ Cardinality(Slots) = TABLE_SIZE
  <2>1. /\ IsFiniteSet(0 .. TABLE_SIZE - 1)
        /\ Cardinality(0 .. TABLE_SIZE - 1) = TABLE_SIZE
    BY FS_Interval
  <2>. QED
    BY <2>1 DEF Slots
<1>2. /\ IsFiniteSet(Slots \ {i})
      /\ Cardinality(Slots \ {i}) = TABLE_SIZE - 1
  BY <1>1, FS_RemoveElement
<1>3. Occupied \in SUBSET (Slots \ {i})
  OBVIOUS
<1>4. IsFiniteSet(Occupied) /\ Cardinality(Occupied) <= TABLE_SIZE - 1
  <2>. HIDE DEF Occupied
  <2>. QED
    BY <1>2, <1>3, FS_Subset
<1>5. owner \in Surjection(Occupied, Known)
  <2>1. owner \in [Occupied -> Known]
    BY DEF Known
  <2>2. ASSUME NEW t \in Known PROVE \E j \in Occupied : owner[j] = t
    BY DEF Known
  <2>. HIDE DEF Occupied, owner
  <2>. QED
    BY <2>1, <2>2, Fun_IsSurj
<1>6. IsFiniteSet(Known) /\ Cardinality(Known) <= Cardinality(Occupied)
  <2>. HIDE DEF Occupied, owner
  <2>. QED
    BY <1>4, <1>5, FS_Surjection
<1>7. Cardinality(Known) \in Nat /\ Cardinality(Occupied) \in Nat
  <2>. HIDE DEF Occupied
  <2>. QED
    BY <1>4, <1>6, FS_CardinalityType
<1>. HIDE DEF Occupied
<1>. QED
  BY <1>4, <1>6, <1>7

-----------------------------------------------------------------------------
(* The journal.                                                            *)

LEMMA JournalFields ==
  ASSUME FilesInv, NEW n \in 1 .. Len(requests_jsonl)
  PROVE  /\ requests_jsonl[n].timeline \in Seq(Entry)
         /\ PublishedAt(n) \in [socket : Sockets, events : Seq(Event)]
<1>1. requests_jsonl[n] \in Journal
  BY ElementOfSeq DEF FilesInv
<1>2. requests_jsonl[n].timeline \in Seq(Entry) /\ requests_jsonl[n].socket \in Sockets
  BY <1>1 DEF Journal
<1>3. EventsOf(requests_jsonl[n].timeline) \in Seq(Event)
  BY <1>2, EventsOfSeq
<1>. QED
  BY <1>2, <1>3 DEF PublishedAt

LEMMA PublicationsSeq ==
  ASSUME FilesInv
  PROVE  /\ Publications \in Seq([socket : Sockets, events : Seq(Event)])
         /\ Len(Publications) = Len(requests_jsonl)
         /\ \A n \in 1 .. Len(requests_jsonl) : Publications[n] = PublishedAt(n)
<1>1. Len(requests_jsonl) \in Nat
  BY DEF FilesInv
<1>. QED
  BY <1>1, JournalFields DEF Publications

(* A request that is appended to requests.jsonl is published.              *)
LEMMA ExportPublishes ==
  ASSUME FilesInv, FilesInv', NEW s \in Sockets, NEW es \in Seq(Entry),
         requests_jsonl' = Append(requests_jsonl, JournalRecord(s, es))
  PROVE  Publications' = Append(Publications, [socket |-> s, events |-> EventsOf(es)])
<1>. DEFINE P == [socket : Sockets, events : Seq(Event)]
            r == JournalRecord(s, es)
            p == [socket |-> s, events |-> EventsOf(es)]
            N == Len(requests_jsonl)
<1>1. r.socket = s /\ r.timeline = es /\ r \in Journal
  BY TotalType DEF JournalRecord, Journal
<1>2. EventsOf(es) \in Seq(Event) /\ p \in P
  BY EventsOfSeq
<1>3. N \in Nat /\ requests_jsonl \in Seq(Journal)
  BY DEF FilesInv
<1>4. /\ Len(requests_jsonl') = N + 1
      /\ requests_jsonl'[N + 1] = r
      /\ \A n \in 1 .. N : requests_jsonl'[n] = requests_jsonl[n]
  <2>. HIDE DEF r, N
  <2>1. requests_jsonl' = Append(requests_jsonl, r)
    BY DEF r
  <2>. QED
    BY <1>1, <1>3, <2>1, AppendedSeq DEF N
<1>5. /\ Publications \in Seq(P) /\ Len(Publications) = N
      /\ \A n \in 1 .. N : Publications[n] = PublishedAt(n)
  BY PublicationsSeq
<1>6. /\ Publications' \in Seq(P) /\ Len(Publications') = N + 1
      /\ \A n \in 1 .. N + 1 : Publications'[n] = PublishedAt(n)'
  <2>1. (FilesInv => /\ Publications \in Seq([socket : Sockets, events : Seq(Event)])
                     /\ Len(Publications) = Len(requests_jsonl)
                     /\ \A n \in 1 .. Len(requests_jsonl) :
                          Publications[n] = PublishedAt(n))'
    BY PublicationsSeq, PTL
  <2>. QED
    BY <1>4, <2>1
<1>7. /\ Append(Publications, p) \in Seq(P)
      /\ Len(Append(Publications, p)) = N + 1
      /\ Append(Publications, p)[N + 1] = p
      /\ \A n \in 1 .. N : Append(Publications, p)[n] = Publications[n]
  <2>. HIDE DEF P, p, N
  <2>. QED
    BY <1>2, <1>5, AppendedSeq
<1>8. \A n \in 1 .. N : PublishedAt(n)' = PublishedAt(n)
  BY <1>4 DEF PublishedAt, EventsOf
<1>9. \A n : n = N + 1 => PublishedAt(n)' = p
  BY <1>1, <1>4 DEF PublishedAt, EventsOf
<1>10. \A n \in 1 .. N + 1 : Publications'[n] = Append(Publications, p)[n]
  <2>. HIDE DEF P, p, N, r
  <2>. QED
    BY <1>3, <1>5, <1>6, <1>7, <1>8, <1>9
<1>11. Publications' = Append(Publications, p)
  <2>. HIDE DEF P, p, N, r
  <2>. QED
    BY <1>6, <1>7, <1>10, SeqEqual
<1>. QED
  BY <1>11

-----------------------------------------------------------------------------
(* Every operation is a step of the recorder, or none.                     *)

LEMMA NothingHappens ==
  ASSUME UNCHANGED <<timelines, requests_jsonl>>
  PROVE  UNCHANGED Recorder!recVars
<1>1. Known' = Known
  BY DEF Known, Slots
<1>2. \A t : timeline_find(t)' = timeline_find(t)
  BY DEF timeline_find, Holding, FirstProbed, Distance, Slots, NoSlot
<1>3. Recordings' = Recordings
  BY <1>1, <1>2 DEF Recordings, RecordingAt, EventsOf
<1>4. Publications' = Publications
  BY DEF Publications, PublishedAt, EventsOf
<1>. QED
  BY <1>3, <1>4 DEF Recorder!recVars, Recordings, RecordingAt, Publications, PublishedAt

LEMMA JournalUntouched ==
  ASSUME UNCHANGED requests_jsonl
  PROVE  Publications' = Publications
  BY DEF Publications, PublishedAt, EventsOf

(* The slot of an open recording, and what the recorder knows of it.       *)
LEMMA OpenRecording ==
  ASSUME TableInv, NEW s \in Sockets \cup {NoSocket}, ActiveSlot(s) # NoSlot
  PROVE  LET i == ActiveSlot(s)
         IN  /\ s \in Sockets /\ i \in Slots
             /\ timelines[i] \in Slot /\ timelines[i].entries \in Seq(Entry)
             /\ timelines[i].occupied /\ timelines[i].socket = s
             /\ s \in Known
             /\ Recordings[s] = EventsOf(timelines[i].entries)
             /\ Recordings[s] # <<>>
<1>. DEFINE i == ActiveSlot(s)
<1>1. /\ s \in Sockets /\ i \in Slots
      /\ timelines[i].occupied /\ timelines[i].socket = s /\ timelines[i].active
  BY ActiveSlotResult
<1>2. timelines[i] \in Slot /\ RecordingOf(timelines[i])
  BY <1>1 DEF TableInv, RecordingsWellFormed
<1>3. timelines[i].entries \in Seq(Entry)
  BY <1>2 DEF Slot
<1>4. Len(timelines[i].entries) >= 1
  BY <1>2 DEF RecordingOf
<1>5. s \in Known /\ timeline_find(s) = i
  BY <1>1, TableFinds DEF SlotsAreFound
<1>6. Recordings[s] = EventsOf(timelines[i].entries)
  BY <1>5 DEF Recordings, RecordingAt
<1>7. Len(Recordings[s]) >= 1
  BY <1>3, <1>4, <1>6, EventsOfSeq
<1>8. Recordings[s] # <<>>
  BY <1>7, EmptySeq
<1>. QED
  BY <1>1, <1>2, <1>3, <1>5, <1>6, <1>8

LEMMA StartOpens ==
  ASSUME TableInv, TableInv', NEW e \in Event,
         e.socket_ptr \in Sockets \cup {NoSocket}, timeline_start(e)
  PROVE  \/ UNCHANGED Recorder!recVars
         \/ e.socket_ptr # NoSocket /\ Recorder!Open(e.socket_ptr, e)
<1>. DEFINE s == e.socket_ptr
            i == StartSlot(s)
            new == [occupied |-> TRUE, socket |-> s, active |-> TRUE,
                    start_ts |-> e.timestamp, entries |-> append(<<>>, e)]
<1>1. CASE i = NoSlot
  <2>1. UNCHANGED <<timelines, requests_jsonl>>
    BY <1>1 DEF timeline_start, tlVars, files
  <2>. QED
    BY <2>1, NothingHappens
<1>2. CASE i # NoSlot
  <2>1. /\ s \in Sockets /\ i \in Slots
        /\ i \in Holding(s) \/ (i \in Free /\ Holding(s) = {})
    BY <1>2, StartSlotResult
  <2>2. /\ timelines' = [timelines EXCEPT ![i] = new]
        /\ UNCHANGED requests_jsonl
    BY <1>2 DEF timeline_start, files
  <2>3. /\ append(<<>>, e) \in Seq(Entry)
        /\ Len(append(<<>>, e)) = 1
        /\ append(<<>>, e)[1].e = e
    BY AppendFirst
  <2>4. new \in Slot
    BY <2>1, <2>3 DEF Slot, Event
  <2>5. new.occupied /\ new.socket = s /\ new.entries = append(<<>>, e)
    OBVIOUS
  <2>6. EventsOf(new.entries) = <<e>>
    <3>1. /\ EventsOf(append(<<>>, e)) \in Seq(Event)
          /\ Len(EventsOf(append(<<>>, e))) = 1
          /\ EventsOf(append(<<>>, e))[1] = e
      BY <2>3, EventsOfSeq
    <3>2. <<e>> \in Seq(Event) /\ Len(<<e>>) = 1 /\ <<e>>[1] = e
      OBVIOUS
    <3>3. EventsOf(append(<<>>, e)) = <<e>>
      BY <3>1, <3>2, SeqEqual
    <3>. QED
      BY <2>5, <3>3
  <2>7. timelines[i].occupied => timelines[i].socket = s
    BY <2>1 DEF Holding, Free
  <2>8. s \in Known \/ Cardinality(Known) < TABLE_SIZE
    <3>1. CASE i \in Holding(s)
      BY <3>1 DEF Holding, Known
    <3>2. CASE i \in Free
      <4>1. ~ timelines[i].occupied
        BY <3>2 DEF Free
      <4>. QED
        BY <2>1, <4>1, FreeSlotMeansRoom
    <3>. QED
      BY <2>1, <3>1, <3>2
  <2>. HIDE DEF new, i, s
  <2>9. Recorder!Record(s, <<e>>)
    BY <2>1, <2>2, <2>4, <2>5, <2>6, <2>7, RewriteRecords
  <2>10. s \in Recorder!Known \/ Recorder!Cardinality(Recorder!Known) < TABLE_SIZE
    <3>1. Recorder!Known = Known
      BY DEF Recorder!Known
    <3>2. Recorder!Cardinality(Known) = Cardinality(Known)
      BY DEF Recorder!Cardinality, Cardinality
    <3>. QED
      BY <2>8, <3>1, <3>2
  <2>11. Publications' = Publications
    BY <2>2, JournalUntouched
  <2>12. Recorder!Open(s, e)
    BY <2>9, <2>10, <2>11
       DEF Recorder!Open, Publications, PublishedAt
  <2>. QED
    BY <2>1, <2>12 DEF s
<1>. QED
  BY <1>1, <1>2

LEMMA AddNotes ==
  ASSUME TableInv, TableInv', NEW e \in Event,
         e.socket_ptr \in Sockets \cup {NoSocket}, timeline_add_event(e)
  PROVE  \/ UNCHANGED Recorder!recVars
         \/ e.socket_ptr # NoSocket /\ Recorder!Note(e.socket_ptr, e)
<1>. DEFINE s == e.socket_ptr
            i == ActiveSlot(s)
            new == [timelines[i] EXCEPT !.entries = append(timelines[i].entries, e)]
<1>1. CASE i = NoSlot
  <2>1. UNCHANGED <<timelines, requests_jsonl>>
    BY <1>1 DEF timeline_add_event, tlVars, files
  <2>. QED
    BY <2>1, NothingHappens
<1>2. CASE i # NoSlot
  <2>1. /\ s \in Sockets /\ i \in Slots
        /\ timelines[i] \in Slot /\ timelines[i].entries \in Seq(Entry)
        /\ timelines[i].occupied /\ timelines[i].socket = s
        /\ s \in Known
        /\ Recordings[s] = EventsOf(timelines[i].entries)
        /\ Recordings[s] # <<>>
    BY <1>2, OpenRecording
  <2>2. timelines' = [timelines EXCEPT ![i] = new] /\ UNCHANGED requests_jsonl
    <3>1. /\ timelines' = [timelines EXCEPT ![i].entries = append(@, e)]
          /\ UNCHANGED files
      BY <1>2 DEF timeline_add_event
    <3>2. timelines' = [timelines EXCEPT ![i] = new]
      BY <3>1, Zenon
    <3>. QED
      BY <3>1, <3>2 DEF files
  <2>3. append(timelines[i].entries, e) \in Seq(Entry)
    BY <2>1, AppendEffect
  <2>4. /\ new \in Slot /\ new.occupied /\ new.socket = s
        /\ new.entries = append(timelines[i].entries, e)
    BY <2>1, <2>3 DEF Slot
  <2>. HIDE DEF new
  <2>5. EventsOf(new.entries) = Recorder!Keep(Recordings[s], e)
    BY <2>1, <2>4, AppendKeeps
  <2>6. Recorder!Record(s, EventsOf(new.entries))
    BY <2>1, <2>2, <2>4, RewriteRecords
  <2>7. Publications' = Publications
    BY <2>2, JournalUntouched
  <2>8. DOMAIN Recordings = Known
    BY DEF Recordings
  <2>9. s # NoSocket
    BY <2>1
  <2>. HIDE DEF i, s
  <2>10. Recorder!Record(s, Recorder!Keep(Recordings[s], e))
    BY <2>5, <2>6
  <2>11. Recorder!Recording(s)
    BY <2>1, <2>8 DEF Recorder!Recording, Recorder!Known, Recordings, RecordingAt
  <2>12. Recorder!Note(s, e)
    BY <2>7, <2>10, <2>11
       DEF Recorder!Note, Recordings, RecordingAt, Publications, PublishedAt
  <2>. QED
    BY <2>9, <2>12 DEF s
<1>. QED
  BY <1>1, <1>2

LEMMA FinishCloses ==
  ASSUME TableInv, TableInv', FilesInv, FilesInv', NEW e \in Event,
         e.socket_ptr \in Sockets \cup {NoSocket}, timeline_finish(e)
  PROVE  \/ UNCHANGED Recorder!recVars
         \/ e.socket_ptr # NoSocket /\ Recorder!Close(e.socket_ptr, e)
<1>. DEFINE s == e.socket_ptr
            i == ActiveSlot(s)
            es == append(timelines[i].entries, e)
            new == Closed(timelines[i])
            events == Recorder!Keep(Recordings[s], e)
<1>1. CASE i = NoSlot
  <2>1. UNCHANGED <<timelines, requests_jsonl>>
    BY <1>1 DEF timeline_finish, tlVars, files
  <2>. QED
    BY <2>1, NothingHappens
<1>2. CASE i # NoSlot
  <2>1. /\ s \in Sockets /\ i \in Slots
        /\ timelines[i] \in Slot /\ timelines[i].entries \in Seq(Entry)
        /\ timelines[i].occupied /\ timelines[i].socket = s
        /\ s \in Known
        /\ Recordings[s] = EventsOf(timelines[i].entries)
        /\ Recordings[s] # <<>>
    BY <1>2, OpenRecording
  <2>2. es \in Seq(Entry) /\ EventsOf(es) = events /\ Len(es) \in Nat
    <3>1. es \in Seq(Entry)
      BY <2>1, AppendEffect
    <3>2. EventsOf(es) = events
      BY <2>1, AppendKeeps
    <3>. QED
      BY <3>1, <3>2
  <2>3. Len(events) = Len(es)
    BY <2>2, EventsOfSeq
  <2>4. timelines' = [timelines EXCEPT ![i] = new]
    BY <1>2, Zenon DEF timeline_finish
  <2>5. new \in Slot /\ new.occupied /\ new.socket = s /\ new.entries = <<>>
    BY <2>1, ClosedEffect
  <2>6. \/ Len(es) < MIN_STEPS /\ UNCHANGED requests_jsonl
        \/ /\ Len(es) >= MIN_STEPS
           /\ \/ requests_jsonl' = Append(requests_jsonl, JournalRecord(s, es))
              \/ "requests" \in Faulty /\ UNCHANGED requests_jsonl
    BY <1>2 DEF timeline_finish, export, files
  <2>7. DOMAIN Recordings = Known
    BY DEF Recordings
  <2>. HIDE DEF new, i, s, es, events
  <2>8. Recorder!Record(s, <<>>)
    <3>1. Recorder!Record(s, EventsOf(new.entries))
      BY <2>1, <2>4, <2>5, RewriteRecords
    <3>. QED
      BY <2>5, <3>1, EventsOfNothing
  <2>9. \/ /\ Len(events) >= MIN_STEPS
           /\ Publications' = Append(Publications, [socket |-> s, events |-> events])
        \/ /\ Len(events) < MIN_STEPS \/ "requests" \in Faulty
           /\ Publications' = Publications
    BY <2>1, <2>2, <2>3, <2>6, ExportPublishes, JournalUntouched
  <2>10. Recorder!Recording(s)
    BY <2>1, <2>7 DEF Recorder!Recording, Recorder!Known, Recordings, RecordingAt
  <2>11. Recorder!Close(s, e)
    BY <2>8, <2>9, <2>10
       DEF Recorder!Close, events, Recordings, RecordingAt, Publications, PublishedAt
  <2>. QED
    BY <2>1, <2>11 DEF s
<1>. QED
  BY <1>1, <1>2

LEMMA InitForgets == timeline_init => Recorder!Forget
<1>. SUFFICES ASSUME timeline_init PROVE Recorder!Forget
  OBVIOUS
<1>1. /\ timelines' = [j \in Slots |-> FreeSlot]
      /\ \/ requests_jsonl' = <<>>
         \/ "requests" \in Faulty /\ UNCHANGED requests_jsonl
  BY DEF timeline_init
<1>2. Recordings' = <<>>
  <2>1. \A i \in Slots : ~ timelines'[i].occupied
    BY <1>1 DEF FreeSlot
  <2>2. Known' = {}
    BY <2>1 DEF Known, Slots
  <2>3. DOMAIN Recordings' = {} /\ Recordings' = [x \in DOMAIN Recordings' |-> Recordings'[x]]
    BY <2>2 DEF Recordings
  <2>. QED
    BY <2>3, NoFunction
<1>3. \/ Publications' = <<>>
      \/ "requests" \in Faulty /\ Publications' = Publications
  <2>1. CASE requests_jsonl' = <<>>
    <3>1. DOMAIN Publications' = {}
          /\ Publications' = [x \in DOMAIN Publications' |-> Publications'[x]]
      BY <2>1, EmptySeq DEF Publications
    <3>. QED
      BY <3>1, NoFunction
  <2>. QED
    BY <1>1, <2>1, JournalUntouched
<1>. QED
  BY <1>2, <1>3
     DEF Recorder!Forget, Recordings, RecordingAt, Publications, PublishedAt

LEMMA InitMaps == TimelineInit => Recorder!RecorderInit
<1>. SUFFICES ASSUME TimelineInit PROVE Recorder!RecorderInit
  OBVIOUS
<1>1. timelines = [j \in Slots |-> FreeSlot] /\ requests_jsonl = <<>>
  BY DEF TimelineInit
<1>2. Recordings = <<>>
  <2>1. \A i \in Slots : ~ timelines[i].occupied
    BY <1>1 DEF FreeSlot
  <2>2. Known = {}
    BY <2>1 DEF Known
  <2>3. DOMAIN Recordings = {} /\ Recordings = [x \in DOMAIN Recordings |-> Recordings[x]]
    BY <2>2 DEF Recordings
  <2>. QED
    BY <2>3, NoFunction
<1>3. Publications = <<>>
  <2>1. DOMAIN Publications = {}
        /\ Publications = [x \in DOMAIN Publications |-> Publications[x]]
    BY <1>1, EmptySeq DEF Publications
  <2>. QED
    BY <2>1, NoFunction
<1>. QED
  BY <1>2, <1>3
     DEF Recorder!RecorderInit, Recordings, RecordingAt, Publications, PublishedAt

(* timeline_start, timeline_add_event, timeline_finish and timeline_init   *)
(* are the steps Open, Note, Close and Forget of a recorder that keeps one *)
(* recording per socket for as many sockets as the table has slots: which  *)
(* slots collided, and in which order they filled, never shows.            *)
THEOREM TimelineImplementsRecorder == TimelineSpec => ImplementsRecorder
<1>1. /\ TableInv /\ TableInv' /\ FilesInv /\ FilesInv' /\ [TimelineNext]_tlVars
      => [Recorder!RecorderNext]_(Recorder!recVars)
  <2>. SUFFICES ASSUME TableInv, TableInv', FilesInv, FilesInv', [TimelineNext]_tlVars
                PROVE  Recorder!RecorderNext \/ UNCHANGED Recorder!recVars
    OBVIOUS
  <2>1. ASSUME NEW e \in Inputs, e.event = "EVENT_TCP_V4_RCV", timeline_start(e)
        PROVE  Recorder!RecorderNext \/ UNCHANGED Recorder!recVars
    BY <2>1, InputsAreEvents, StartOpens DEF Recorder!RecorderNext
  <2>2. ASSUME NEW e \in Inputs, e.event = "EVENT_TCP_SENDMSG", timeline_finish(e)
        PROVE  Recorder!RecorderNext \/ UNCHANGED Recorder!recVars
    BY <2>2, InputsAreEvents, FinishCloses DEF Recorder!RecorderNext
  <2>3. ASSUME NEW e \in Inputs, timeline_add_event(e),
               e.event \notin {"EVENT_TCP_V4_RCV", "EVENT_TCP_SENDMSG"}
        PROVE  Recorder!RecorderNext \/ UNCHANGED Recorder!recVars
    BY <2>3, InputsAreEvents, AddNotes DEF Recorder!RecorderNext
  <2>4. ASSUME timeline_init PROVE Recorder!RecorderNext
    BY <2>4, InitForgets DEF Recorder!RecorderNext
  <2>5. ASSUME UNCHANGED tlVars PROVE UNCHANGED Recorder!recVars
    BY <2>5, NothingHappens DEF tlVars, files
  <2>. QED
    BY <2>1, <2>2, <2>3, <2>4, <2>5 DEF TimelineNext
<1>. QED
  BY InitMaps, TableInvInductive, FilesInvInductive, <1>1, PTL
     DEF TimelineSpec, ImplementsRecorder, Recorder!RecorderSpec
==============================================================================
