------------------------- MODULE ContinuationProofs -------------------------
(***************************************************************************)
(* Proofs about the context of a request.  First about Transcript, for     *)
(* every sequence of messages: InOrder counts a set, what build_context    *)
(* cuts from a well-formed sequence is well formed, and what               *)
(* continue_transcript makes of any history is well formed and complete.   *)
(* Then about Continuation: what the runs of the service recorded is such  *)
(* a history, so that every context is one a provider accepts and a run is *)
(* told what the runs before it committed.                                 *)
(***************************************************************************)
EXTENDS Continuation, AgentRuntimeProofs

-----------------------------------------------------------------------------
(* Induction, as a statement about sets *)

\* A set of numbers with no least element is empty.
LEMMA LeastNumber ==
  ASSUME NEW T \in SUBSET Nat, T # {}
  PROVE  \E n \in T : \A k \in T : n <= k
<1> DEFINE R == {pair \in Nat \X Nat : pair[1] < pair[2]}
<1>1. IsWellFoundedOn(R, Nat)
  BY NatLessThanWellFounded DEF OpToRel
<1>2. \A k, n \in T : <<k, n>> \in R <=> k < n
  OBVIOUS
<1> HIDE DEF R
<1>3. PICK n \in T : \A k \in T : <<k, n>> \notin R
  BY <1>1, WFMin
<1>4. T \subseteq Nat
  OBVIOUS
<1>5. \A k \in T : ~(k < n) /\ k \in Nat /\ n \in Nat
  BY <1>2, <1>3, <1>4
<1>6. QED BY <1>5

\* A set of numbers that has 0 and the successor of each number it has, has
\* them all.
LEMMA AllNumbers ==
  ASSUME NEW S, 0 \in S, \A n \in Nat : n \in S => n + 1 \in S
  PROVE  \A n \in Nat : n \in S
<1> SUFFICES ASSUME Nat \ S # {} PROVE FALSE
  OBVIOUS
<1>1. PICK n \in Nat \ S : \A k \in Nat \ S : n <= k
  BY LeastNumber
<1>2. n # 0 /\ n - 1 \in Nat /\ n - 1 < n
  BY <1>1
<1>3. n - 1 \in S
  BY <1>1, <1>2
<1>4. (n - 1) + 1 \in S
  BY <1>2, <1>3
<1>5. QED BY <1>1, <1>4

-----------------------------------------------------------------------------
(* The order of a set of numbers *)

\* f counts the elements of S, smallest first.
Counts(f, S) ==
  /\ \A x \in S : \E n \in DOMAIN f : f[n] = x
  /\ \A n \in DOMAIN f : f[n] \in S
  /\ \A i, j \in DOMAIN f : i < j => f[i] < f[j]

UpTo(S, x) == {y \in S : y <= x}

\* A larger number has more numbers up to itself.
LEMMA UpToGrows ==
  ASSUME NEW S \in SUBSET Nat, IsFiniteSet(S)
  PROVE  /\ \A x \in S : /\ IsFiniteSet(UpTo(S, x))
                         /\ Cardinality(UpTo(S, x)) \in 1 .. Cardinality(S)
         /\ \A x, y \in S :
              x < y => Cardinality(UpTo(S, x)) < Cardinality(UpTo(S, y))
         /\ \A x, y \in S :
              Cardinality(UpTo(S, x)) = Cardinality(UpTo(S, y)) => x = y
<1>1. Cardinality(S) \in Nat
  BY FS_CardinalityType
<1>2. ASSUME NEW x \in S
      PROVE  /\ IsFiniteSet(UpTo(S, x))
             /\ Cardinality(UpTo(S, x)) \in 1 .. Cardinality(S)
  <2>1. UpTo(S, x) \in SUBSET S /\ x \in UpTo(S, x)
    BY DEF UpTo
  <2>2. IsFiniteSet(UpTo(S, x)) /\ Cardinality(UpTo(S, x)) <= Cardinality(S)
    BY <2>1, FS_Subset
  <2>3. Cardinality(UpTo(S, x)) \in Nat /\ Cardinality(UpTo(S, x)) # 0
    BY <2>1, <2>2, FS_CardinalityType, FS_EmptySet
  <2>4. QED BY <1>1, <2>2, <2>3
<1>3. ASSUME NEW x \in S, NEW y \in S, x < y
      PROVE  Cardinality(UpTo(S, x)) < Cardinality(UpTo(S, y))
  <2>1. /\ UpTo(S, x) \in SUBSET UpTo(S, y)
        /\ y \in UpTo(S, y) /\ y \notin UpTo(S, x)
    <3>1. x \in Nat /\ y \in Nat /\ S \subseteq Nat
      OBVIOUS
    <3>2. \A z \in Nat : z <= x => z <= y
      BY <1>3, <3>1
    <3>3. y <= y /\ ~(y <= x)
      BY <1>3, <3>1
    <3>4. QED BY <3>1, <3>2, <3>3 DEF UpTo
  <2>2. /\ Cardinality(UpTo(S, x)) <= Cardinality(UpTo(S, y))
        /\ Cardinality(UpTo(S, x)) # Cardinality(UpTo(S, y))
    BY <1>2, <2>1, FS_Subset
  <2>3. QED BY <1>1, <1>2, <2>2
<1>4. ASSUME NEW x \in S, NEW y \in S,
             Cardinality(UpTo(S, x)) = Cardinality(UpTo(S, y))
      PROVE  x = y
  <2>1. x < y \/ y < x \/ x = y
    OBVIOUS
  <2>2. QED BY <1>1, <1>2, <1>3, <1>4, <2>1
<1>5. QED BY <1>2, <1>3, <1>4

\* InOrder counts every finite set of numbers.
LEMMA InOrderCounts ==
  ASSUME NEW S \in SUBSET Nat, IsFiniteSet(S)
  PROVE  /\ Cardinality(S) \in Nat
         /\ InOrder(S) \in [1 .. Cardinality(S) -> S]
         /\ Counts(InOrder(S), S)
         /\ \A x \in S : InOrder(S)[Cardinality(UpTo(S, x))] = x
<1> DEFINE size == Cardinality(S)
           rank == [x \in S |-> Cardinality(UpTo(S, x))]
           order == InOrder(S)
<1>1. size \in Nat
  BY FS_CardinalityType
<1>2. rank \in Injection(S, 1 .. size)
  BY UpToGrows DEF Injection, IsInjective
<1>3. IsFiniteSet(1 .. size) /\ Cardinality(1 .. size) = size
  BY <1>1, FS_Interval
<1>4. rank \in Surjection(S, 1 .. size)
  BY <1>2, <1>3, FS_Injection
<1>5. \A n \in 1 .. size : \E x \in S : Cardinality(UpTo(S, x)) = n
  BY <1>4 DEF Surjection
<1>6. \A n \in 1 .. size :
        order[n] \in S /\ Cardinality(UpTo(S, order[n])) = n
  BY <1>5 DEF InOrder, UpTo
<1>7. order = [n \in 1 .. size |-> order[n]] /\ DOMAIN order = 1 .. size
  BY DEF InOrder
<1> HIDE DEF order, size
<1>8. order \in [1 .. size -> S]
  BY <1>6, <1>7
<1>9. \A x \in S : order[Cardinality(UpTo(S, x))] = x
  <2> TAKE x \in S
  <2>1. Cardinality(UpTo(S, x)) \in 1 .. size
    BY UpToGrows DEF size
  <2>2. /\ order[Cardinality(UpTo(S, x))] \in S
        /\ Cardinality(UpTo(S, order[Cardinality(UpTo(S, x))]))
             = Cardinality(UpTo(S, x))
    BY <1>6, <2>1
  <2>3. \A y \in S :
          Cardinality(UpTo(S, y)) = Cardinality(UpTo(S, x)) => y = x
    BY UpToGrows
  <2>4. QED BY <2>2, <2>3
<1>10. \A x \in S : \E n \in DOMAIN order : order[n] = x
  BY <1>7, <1>9, UpToGrows DEF size
<1>11. ASSUME NEW i \in 1 .. size, NEW j \in 1 .. size, i < j
       PROVE  order[i] < order[j]
  <2>1. PICK x \in S, y \in S : /\ x = order[i] /\ y = order[j]
                                /\ Cardinality(UpTo(S, x)) = i
                                /\ Cardinality(UpTo(S, y)) = j
    BY <1>6
  <2>2. x \in Nat /\ y \in Nat /\ i \in Nat /\ j \in Nat
    BY <1>1
  <2>3. y < x => j < i
    BY <2>1, UpToGrows
  <2>4. x # y
    BY <1>11, <2>1, <2>2
  <2>5. x < y
    BY <1>11, <2>2, <2>3, <2>4
  <2>6. QED BY <2>1, <2>5
<1>12. QED BY <1>1, <1>6, <1>7, <1>8, <1>9, <1>10, <1>11 DEF Counts, order, size

\* Nothing else counts it.
LEMMA CountsOnce ==
  ASSUME NEW S, S \subseteq Nat, NEW n \in Nat, NEW f \in [1 .. n -> S],
         Counts(f, S)
  PROVE  IsFiniteSet(S) /\ Cardinality(S) = n /\ InOrder(S) = f
<1>1. \A i, j \in 1 .. n : /\ f[i] \in S /\ f[j] \in S
                           /\ i < j => f[i] < f[j]
  BY DEF Counts
<1>2. \A i, j \in 1 .. n : f[i] <= f[j] <=> i <= j
  <2> TAKE i, j \in 1 .. n
  <2>1. f[i] \in Nat /\ f[j] \in Nat /\ i \in Nat /\ j \in Nat
    <3>1. f[i] \in S /\ f[j] \in S
      OBVIOUS
    <3>2. f[i] \in Nat /\ f[j] \in Nat
      BY <3>1
    <3>3. i \in Nat /\ j \in Nat
      OBVIOUS
    <3>4. QED BY <3>2, <3>3
  <2>2. (i < j => f[i] < f[j]) /\ (j < i => f[j] < f[i])
    BY <1>1
  <2>3. QED BY <2>1, <2>2
<1>3. \A i, j \in 1 .. n : f[i] = f[j] => i = j
  <2> SUFFICES ASSUME NEW i \in 1 .. n, NEW j \in 1 .. n, f[i] = f[j]
               PROVE  i = j
    OBVIOUS
  <2>1. f[i] \in Nat
    BY <1>1
  <2>2. f[i] <= f[j] /\ f[j] <= f[i]
    BY <2>1
  <2>3. i <= j /\ j <= i
    BY <1>2, <2>2
  <2>4. QED BY <2>3
<1>4. ASSUME NEW i \in 1 .. n
      PROVE  Cardinality(UpTo(S, f[i])) = i
  <2> DEFINE g == [k \in 1 .. i |-> f[k]]
  <2>1. \A y \in UpTo(S, f[i]) : \E k \in 1 .. i : f[k] = y
    <3> TAKE y \in UpTo(S, f[i])
    <3>1. PICK k \in 1 .. n : f[k] = y
      BY DEF Counts, UpTo
    <3>2. f[k] <= f[i]
      BY <3>1 DEF UpTo
    <3>3. k <= i
      BY <1>2, <3>2
    <3>4. k \in 1 .. i
      BY <3>3
    <3>5. QED BY <3>1, <3>4
  <2>2. \A k \in 1 .. i : k \in 1 .. n /\ f[k] \in UpTo(S, f[i])
    <3> TAKE k \in 1 .. i
    <3>1. k \in 1 .. n /\ k <= i
      OBVIOUS
    <3>2. f[k] <= f[i]
      BY <1>2, <3>1
    <3>3. QED BY <1>1, <3>1, <3>2 DEF UpTo
  <2>3. g \in Bijection(1 .. i, UpTo(S, f[i]))
    BY <1>3, <2>1, <2>2
    DEF Bijection, Injection, Surjection, IsInjective
  <2>4. QED BY <2>3, FS_CountingElements DEF ExistsBijection
<1>5. f \in Bijection(1 .. n, S)
  BY <1>1, <1>3 DEF Bijection, Injection, Surjection, IsInjective, Counts
<1>6. IsFiniteSet(S) /\ Cardinality(S) = n
  BY <1>5, FS_CountingElements, FS_NatBijection DEF ExistsBijection
<1>7. /\ InOrder(S) \in [1 .. n -> S]
      /\ \A x \in S : InOrder(S)[Cardinality(UpTo(S, x))] = x
  BY <1>6, InOrderCounts
<1>8. \A i \in 1 .. n : InOrder(S)[i] = f[i]
  BY <1>1, <1>4, <1>7
<1>9. QED BY <1>6, <1>7, <1>8

\* Nothing is in the order of no numbers, and consecutive numbers are in their
\* order.
LEMMA InOrderInterval ==
  ASSUME NEW a \in Nat, NEW n \in Nat
  PROVE  /\ a + 1 .. a + n \subseteq Nat /\ IsFiniteSet(a + 1 .. a + n)
         /\ Cardinality(a + 1 .. a + n) = n
         /\ InOrder(a + 1 .. a + n) = [i \in 1 .. n |-> a + i]
<1> DEFINE f == [i \in 1 .. n |-> a + i]
           S == a + 1 .. a + n
<1>1. S \subseteq Nat /\ f \in [1 .. n -> S] /\ DOMAIN f = 1 .. n
  OBVIOUS
<1>2. \A x \in S : x - a \in 1 .. n /\ f[x - a] = x
  OBVIOUS
<1>3. \A i \in 1 .. n : f[i] \in S
  OBVIOUS
<1>4. \A i, j \in 1 .. n : i < j => f[i] < f[j]
  OBVIOUS
<1> HIDE DEF f, S
<1>5. Counts(f, S)
  BY <1>1, <1>2, <1>3, <1>4 DEF Counts
<1>6. QED BY <1>1, <1>5, CountsOnce DEF f, S

\* There is nothing to put in order in the empty set.
LEMMA InOrderNothing ==
  IsFiniteSet({}) /\ Cardinality({}) = 0 /\ DOMAIN InOrder({}) = 1 .. 0
BY FS_EmptySet DEF InOrder

\* A number above all others comes last.
LEMMA InOrderMore ==
  ASSUME NEW S \in SUBSET Nat, IsFiniteSet(S),
         NEW x \in Nat, \A y \in S : y < x
  PROVE  LET n == Cardinality(S) IN
         /\ IsFiniteSet(S \cup {x}) /\ Cardinality(S \cup {x}) = n + 1
         /\ \A i \in 1 .. n : InOrder(S \cup {x})[i] = InOrder(S)[i]
         /\ InOrder(S \cup {x})[n + 1] = x
<1> DEFINE n == Cardinality(S)
           f == InOrder(S)
           g == [i \in 1 .. n + 1 |-> IF i = n + 1 THEN x ELSE f[i]]
           T == S \cup {x}
<1>1. n \in Nat /\ f \in [1 .. n -> S] /\ Counts(f, S)
  BY InOrderCounts
<1>2. T \subseteq Nat /\ S \subseteq T
  OBVIOUS
<1> HIDE DEF n, f, T
<1>3. \A i \in 1 .. n : i # n + 1 /\ i \in 1 .. n + 1 /\ f[i] \in S
  BY <1>1
<1>4. \A i \in 1 .. n + 1 : i \in 1 .. n \/ i = n + 1
  BY <1>1
<1>5. n + 1 \in 1 .. n + 1 /\ n + 1 \in Nat
  BY <1>1
<1>6. (\A i \in 1 .. n : g[i] = f[i]) /\ g[n + 1] = x
  BY <1>3, <1>5
<1>7. g \in [1 .. n + 1 -> T]
  BY <1>2, <1>3, <1>4 DEF T
<1>8. DOMAIN g = 1 .. n + 1
  OBVIOUS
<1> HIDE DEF g
<1>9. \A y \in T : \E i \in DOMAIN g : g[i] = y
  BY <1>1, <1>3, <1>5, <1>6, <1>8 DEF Counts, T
<1>10. ASSUME NEW i \in DOMAIN g, NEW j \in DOMAIN g, i < j
       PROVE  g[i] < g[j]
  <2>1. i \in 1 .. n
    BY <1>1, <1>8, <1>10
  <2>2. CASE j \in 1 .. n
    BY <1>1, <1>6, <1>10, <2>1, <2>2 DEF Counts
  <2>3. CASE j = n + 1
    BY <1>1, <1>6, <2>1, <2>3
  <2>4. QED BY <1>4, <1>8, <2>2, <2>3
<1>11. Counts(g, T)
  BY <1>7, <1>8, <1>9, <1>10 DEF Counts
<1>12. IsFiniteSet(T) /\ Cardinality(T) = n + 1 /\ InOrder(T) = g
  BY <1>2, <1>5, <1>7, <1>11, CountsOnce
<1>13. QED BY <1>6, <1>12 DEF n, f, T

-----------------------------------------------------------------------------
(* Transcripts that a provider accepts *)

\* The messages of a transcript: only a tool answers, and one call at a time;
\* users and final answers call no tool.
Texts(Names) ==
  {e \in [role : {"user", "calls", "final", "tool"}, run : Names,
          calls : SUBSET Nat, marker : BOOLEAN] :
     /\ IsFiniteSet(e.calls)
     /\ e.role = "tool" => \E c \in Nat : e.calls = {c}
     /\ e.role \in {"user", "final"} => e.calls = {}}

\* The two halves of WellFormed, by numbers.
CallsAnswered(msgs) ==
  \A i \in 1 .. Len(msgs) : msgs[i].role = "calls" =>
    /\ i + Cardinality(msgs[i].calls) <= Len(msgs)
    /\ \A k \in 1 .. Cardinality(msgs[i].calls) :
         /\ msgs[i + k].role = "tool"
         /\ msgs[i + k].calls = {InOrder(msgs[i].calls)[k]}
RepliesCalled(msgs) ==
  \A i \in 1 .. Len(msgs) : msgs[i].role = "tool" =>
    \E p \in 1 .. i - 1 :
      /\ msgs[p].role = "calls"
      /\ \A k \in p + 1 .. i : msgs[k].role = "tool"
      /\ i - p <= Cardinality(msgs[p].calls)

\* The order of the calls of a message.
LEMMA CallsInOrder ==
  ASSUME NEW Names, NEW e \in Texts(Names)
  PROVE  /\ e.calls \in SUBSET Nat /\ IsFiniteSet(e.calls)
         /\ Cardinality(e.calls) \in Nat
         /\ DOMAIN InOrder(e.calls) = 1 .. Cardinality(e.calls)
         /\ Len(InOrder(e.calls)) = Cardinality(e.calls)
         /\ \A k \in 1 .. Cardinality(e.calls) : InOrder(e.calls)[k] \in e.calls
         /\ \A c \in e.calls : \E k \in 1 .. Cardinality(e.calls) :
                                 InOrder(e.calls)[k] = c
<1>1. e.calls \in SUBSET Nat /\ IsFiniteSet(e.calls)
  BY DEF Texts
<1>2. PICK n : n = Cardinality(e.calls)
  OBVIOUS
<1>3. n \in Nat /\ InOrder(e.calls) \in [1 .. n -> e.calls]
      /\ Counts(InOrder(e.calls), e.calls)
  BY <1>1, <1>2, InOrderCounts
<1>4. PICK f \in [1 .. n -> e.calls] : f = InOrder(e.calls)
  BY <1>3
<1>5. f \in Seq(e.calls) /\ DOMAIN f = 1 .. n
  BY <1>3
<1>6. Len(f) = n
  BY <1>3, <1>5, LenProperties
<1>7. QED BY <1>1, <1>2, <1>3, <1>4, <1>5, <1>6 DEF Counts

\* WellFormed says two things: calls are answered, and replies are called for.
LEMMA WellFormedParts ==
  ASSUME NEW Names, NEW msgs \in Seq(Texts(Names))
  PROVE  WellFormed(msgs) <=> CallsAnswered(msgs) /\ RepliesCalled(msgs)
<1>1. DOMAIN msgs = 1 .. Len(msgs) /\ Len(msgs) \in Nat
  BY LenProperties
<1>2. \A i \in 1 .. Len(msgs) : msgs[i] \in Texts(Names)
  BY ElementOfSeq
<1>3. \A i \in 1 .. Len(msgs) :
        /\ Len(InOrder(msgs[i].calls)) = Cardinality(msgs[i].calls)
        /\ DOMAIN InOrder(msgs[i].calls) = 1 .. Cardinality(msgs[i].calls)
  BY <1>2, CallsInOrder
<1>4. (\A i \in DOMAIN msgs : msgs[i].role = "calls" =>
         LET order == InOrder(msgs[i].calls) IN
         /\ i + Len(order) <= Len(msgs)
         /\ \A n \in DOMAIN order :
              msgs[i + n].role = "tool" /\ msgs[i + n].calls = {order[n]})
      <=> CallsAnswered(msgs)
  BY <1>1, <1>3 DEF CallsAnswered
<1>5. \A i \in 1 .. Len(msgs), p \in 1 .. Len(msgs) :
        i \in Following(msgs, p) <=>
          p < i /\ \A k \in p + 1 .. i : msgs[k].role = "tool"
  BY <1>1 DEF Following
<1>6. (\A i \in DOMAIN msgs : msgs[i].role = "tool" =>
         \E p \in 1 .. i - 1 :
           /\ msgs[p].role = "calls"
           /\ i \in Following(msgs, p)
           /\ i - p <= Cardinality(msgs[p].calls))
      <=> RepliesCalled(msgs)
  <2>1. \A i \in 1 .. Len(msgs) : \A p \in 1 .. i - 1 :
          p \in 1 .. Len(msgs) /\ p < i
    BY <1>1
  <2>2. \A i \in 1 .. Len(msgs) : \A p \in 1 .. i - 1 :
          i \in Following(msgs, p) <=>
            \A k \in p + 1 .. i : msgs[k].role = "tool"
    BY <1>5, <2>1
  <2>3. QED BY <1>1, <2>2 DEF RepliesCalled
<1>7. QED BY <1>4, <1>6 DEF WellFormed

\* Nothing is well formed.
LEMMA NothingWellFormed ==
  ASSUME NEW Names
  PROVE  <<>> \in Seq(Texts(Names)) /\ WellFormed(<<>>)
<1>1. <<>> \in Seq(Texts(Names)) /\ Len(<<>>) = 0
  BY EmptySeq
<1>2. PICK none \in Seq(Texts(Names)) : none = <<>> /\ Len(none) = 0
  BY <1>1
<1>3. CallsAnswered(none) /\ RepliesCalled(none)
  BY <1>2 DEF CallsAnswered, RepliesCalled
<1>4. QED BY <1>2, <1>3, WellFormedParts

\* One transcript behind another.
LEMMA JoinedWellFormed ==
  ASSUME NEW Names, NEW x \in Seq(Texts(Names)), NEW y \in Seq(Texts(Names)),
         WellFormed(x), WellFormed(y)
  PROVE  x \o y \in Seq(Texts(Names)) /\ WellFormed(x \o y)
<1> DEFINE z == x \o y
           m == Len(x)
           n == Len(y)
<1>1. /\ z \in Seq(Texts(Names)) /\ Len(z) = m + n /\ m \in Nat /\ n \in Nat
      /\ \A i \in 1 .. m + n : z[i] = IF i <= m THEN x[i] ELSE y[i - m]
  BY ConcatProperties, LenProperties
<1>2. \A i \in 1 .. m : i \in 1 .. m + n /\ z[i] = x[i]
  BY <1>1
<1>3. \A j \in 1 .. n : m + j \in 1 .. m + n /\ z[m + j] = y[j]
  <2> TAKE j \in 1 .. n
  <2>1. m + j \in 1 .. m + n /\ ~(m + j <= m) /\ (m + j) - m = j
    BY <1>1
  <2>2. QED BY <1>1, <2>1
<1>4. /\ CallsAnswered(x) /\ RepliesCalled(x)
      /\ CallsAnswered(y) /\ RepliesCalled(y)
  BY WellFormedParts
<1>5. /\ \A i \in 1 .. m : /\ x[i] \in Texts(Names)
                           /\ Cardinality(x[i].calls) \in Nat
      /\ \A j \in 1 .. n : /\ y[j] \in Texts(Names)
                           /\ Cardinality(y[j].calls) \in Nat
  BY ElementOfSeq, CallsInOrder
<1>6. \A i \in 1 .. m + n : i \in 1 .. m \/ \E j \in 1 .. n : i = m + j
  <2> TAKE i \in 1 .. m + n
  <2>1. CASE i <= m
    BY <1>1, <2>1
  <2>2. CASE ~(i <= m)
    <3>1. i - m \in 1 .. n /\ i = m + (i - m)
      BY <1>1, <2>2
    <3>2. QED BY <3>1
  <2>3. QED BY <2>1, <2>2
<1> HIDE DEF z, m, n
<1>7. CallsAnswered(z)
  <2> DEFINE CallAt(i) ==
        /\ i + Cardinality(z[i].calls) <= m + n
        /\ \A k \in 1 .. Cardinality(z[i].calls) :
             /\ z[i + k].role = "tool"
             /\ z[i + k].calls = {InOrder(z[i].calls)[k]}
  <2>1. ASSUME NEW i \in 1 .. m, z[i].role = "calls" PROVE CallAt(i)
    <3>1. PICK c : c = Cardinality(x[i].calls)
      OBVIOUS
    <3>2. c \in Nat /\ i + c <= m
      BY <1>2, <1>4, <1>5, <2>1, <3>1 DEF CallsAnswered, m
    <3>3. i + c <= m + n /\ \A k \in 1 .. c : i + k \in 1 .. m
      BY <1>1, <3>2
    <3>4. \A k \in 1 .. c : /\ x[i + k].role = "tool"
                            /\ x[i + k].calls = {InOrder(x[i].calls)[k]}
      BY <1>2, <1>4, <2>1, <3>1 DEF CallsAnswered, m
    <3>5. QED BY <1>2, <3>1, <3>3, <3>4
  <2>2. ASSUME NEW j \in 1 .. n, z[m + j].role = "calls" PROVE CallAt(m + j)
    <3>1. PICK c : c = Cardinality(y[j].calls)
      OBVIOUS
    <3>2. c \in Nat /\ j + c <= n
      BY <1>3, <1>4, <1>5, <2>2, <3>1 DEF CallsAnswered, n
    <3>3. (m + j) + c <= m + n
          /\ \A k \in 1 .. c : j + k \in 1 .. n /\ (m + j) + k = m + (j + k)
      BY <1>1, <3>2
    <3>4. \A k \in 1 .. c : /\ y[j + k].role = "tool"
                            /\ y[j + k].calls = {InOrder(y[j].calls)[k]}
      BY <1>3, <1>4, <2>2, <3>1 DEF CallsAnswered, n
    <3>5. \A k \in 1 .. c : z[(m + j) + k] = y[j + k]
      BY <1>3, <3>3
    <3>6. z[m + j] = y[j]
      BY <1>3
    <3>7. QED BY <3>1, <3>3, <3>4, <3>5, <3>6
  <2> HIDE DEF CallAt
  <2>3. \A i \in 1 .. m + n : z[i].role = "calls" => CallAt(i)
    BY <1>6, <2>1, <2>2
  <2>4. QED BY <1>1, <2>3 DEF CallsAnswered, CallAt
<1>8. RepliesCalled(z)
  <2> DEFINE ReplyAt(i) ==
        \E p \in 1 .. i - 1 :
          /\ z[p].role = "calls"
          /\ \A k \in p + 1 .. i : z[k].role = "tool"
          /\ i - p <= Cardinality(z[p].calls)
  <2>1. ASSUME NEW i \in 1 .. m, z[i].role = "tool" PROVE ReplyAt(i)
    <3>1. PICK p \in 1 .. i - 1 :
            /\ x[p].role = "calls"
            /\ \A k \in p + 1 .. i : x[k].role = "tool"
            /\ i - p <= Cardinality(x[p].calls)
      BY <1>2, <1>4, <2>1 DEF RepliesCalled, m
    <3>2. p \in 1 .. m /\ \A k \in p + 1 .. i : k \in 1 .. m
      BY <1>1
    <3>3. QED BY <1>2, <3>1, <3>2
  <2>2. ASSUME NEW j \in 1 .. n, z[m + j].role = "tool" PROVE ReplyAt(m + j)
    <3>1. PICK p \in 1 .. j - 1 :
            /\ y[p].role = "calls"
            /\ \A k \in p + 1 .. j : y[k].role = "tool"
            /\ j - p <= Cardinality(y[p].calls)
      BY <1>3, <1>4, <2>2 DEF RepliesCalled, n
    <3>2. /\ p \in 1 .. n /\ m + p \in 1 .. (m + j) - 1
          /\ (m + j) - (m + p) = j - p
      BY <1>1
    <3>3. \A k \in (m + p) + 1 .. m + j :
            k - m \in p + 1 .. j /\ k - m \in 1 .. n /\ k = m + (k - m)
      BY <1>1
    <3>4. \A k \in (m + p) + 1 .. m + j : z[k] = y[k - m]
      BY <1>3, <3>3
    <3>5. \A k \in (m + p) + 1 .. m + j : z[k].role = "tool"
      BY <3>1, <3>3, <3>4
    <3>6. z[m + p] = y[p]
      BY <1>3, <3>2
    <3>7. QED BY <3>1, <3>2, <3>5, <3>6
  <2> HIDE DEF ReplyAt
  <2>3. \A i \in 1 .. m + n : z[i].role = "tool" => ReplyAt(i)
    BY <1>6, <2>1, <2>2
  <2>4. QED BY <1>1, <2>3 DEF RepliesCalled, ReplyAt
<1>9. QED BY <1>1, <1>7, <1>8, WellFormedParts DEF z

\* What is left of a transcript when it is cut where a group begins.
LEMMA CutWellFormed ==
  ASSUME NEW Names, NEW msgs \in Seq(Texts(Names)), WellFormed(msgs),
         NEW first \in GroupStarts(msgs)
  PROVE  WellFormed(SubSeq(msgs, first, Len(msgs)))
<1> DEFINE n == Len(msgs)
           y == SubSeq(msgs, first, n)
           m == n - first + 1
<1>1. DOMAIN msgs = 1 .. n /\ n \in Nat
  BY LenProperties
<1>2. /\ first \in 1 .. n /\ first \in Nat /\ m \in Nat /\ m = n - first + 1
      /\ msgs[first].role = "tool" =>
           ~\E p \in 1 .. first - 1 :
              msgs[p].role = "calls" /\ first \in Following(msgs, p)
  BY <1>1 DEF GroupStarts
<1>3. \A i \in 1 .. n : /\ msgs[i] \in Texts(Names)
                        /\ Cardinality(msgs[i].calls) \in Nat
  BY ElementOfSeq, CallsInOrder
<1>4. y \in Seq(Texts(Names)) /\ Len(y) = m
      /\ \A i \in 1 .. m : y[i] = msgs[first + i - 1]
  <2>1. \A i \in first .. n : msgs[i] \in Texts(Names)
    BY <1>2, <1>3
  <2>2. first \in Int /\ n \in Int /\ first <= n
    BY <1>1, <1>2
  <2>3. QED BY <2>1, <2>2, SubSeqProperties
<1>5. CallsAnswered(msgs) /\ RepliesCalled(msgs)
  BY WellFormedParts
<1> HIDE DEF y, m
<1>6. \A i \in 1 .. m : first + i - 1 \in 1 .. n /\ y[i] = msgs[first + i - 1]
  BY <1>1, <1>2, <1>4
<1>7. \A j \in first .. n : j - first + 1 \in 1 .. m /\ y[j - first + 1] = msgs[j]
  <2> TAKE j \in first .. n
  <2>1. j - first + 1 \in 1 .. m /\ first + (j - first + 1) - 1 = j
    BY <1>1, <1>2
  <2>2. QED BY <1>6, <2>1
<1>8. CallsAnswered(y)
  <2> SUFFICES ASSUME NEW i \in 1 .. m, y[i].role = "calls"
               PROVE  /\ i + Cardinality(y[i].calls) <= m
                      /\ \A k \in 1 .. Cardinality(y[i].calls) :
                           /\ y[i + k].role = "tool"
                           /\ y[i + k].calls = {InOrder(y[i].calls)[k]}
    BY <1>4 DEF CallsAnswered
  <2>1. PICK j \in first .. n : j = first + i - 1
    BY <1>1, <1>2
  <2>2. y[i] = msgs[j] /\ j \in 1 .. n
    BY <1>2, <1>6, <2>1
  <2>3. PICK c : c = Cardinality(msgs[j].calls)
    OBVIOUS
  <2>4. /\ c \in Nat /\ j + c <= n
        /\ \A k \in 1 .. c : /\ msgs[j + k].role = "tool"
                             /\ msgs[j + k].calls = {InOrder(msgs[j].calls)[k]}
    BY <1>3, <1>5, <2>2, <2>3 DEF CallsAnswered
  <2>5. i + c <= m /\ \A k \in 1 .. c : /\ j + k \in first .. n
                                        /\ (j + k) - first + 1 = i + k
    BY <1>1, <1>2, <2>1, <2>4
  <2>6. \A k \in 1 .. c : y[i + k] = msgs[j + k]
    BY <1>7, <2>5
  <2>7. QED BY <2>2, <2>3, <2>4, <2>5, <2>6
<1>9. RepliesCalled(y)
  <2> SUFFICES ASSUME NEW i \in 1 .. m, y[i].role = "tool"
               PROVE  \E p \in 1 .. i - 1 :
                        /\ y[p].role = "calls"
                        /\ \A k \in p + 1 .. i : y[k].role = "tool"
                        /\ i - p <= Cardinality(y[p].calls)
    BY <1>4 DEF RepliesCalled
  <2>1. PICK j \in first .. n : j = first + i - 1
    BY <1>1, <1>2
  <2>2. y[i] = msgs[j] /\ j \in 1 .. n
    BY <1>2, <1>6, <2>1
  <2>3. PICK p \in 1 .. j - 1 :
          /\ msgs[p].role = "calls"
          /\ \A k \in p + 1 .. j : msgs[k].role = "tool"
          /\ j - p <= Cardinality(msgs[p].calls)
    BY <1>5, <2>2 DEF RepliesCalled
  <2>4. p >= first
    <3> SUFFICES ASSUME p < first PROVE FALSE
      BY <1>2, <2>3
    <3>1. /\ p \in 1 .. first - 1 /\ first \in p + 1 .. n
          /\ \A k \in p + 1 .. first : k \in p + 1 .. j
      BY <1>1, <1>2, <2>1
    <3>2. first \in p + 1 .. j
      BY <1>2, <2>1, <3>1
    <3>3. msgs[first].role = "tool" /\ first \in Following(msgs, p)
      BY <2>3, <3>1, <3>2 DEF Following
    <3>4. QED BY <1>2, <2>3, <3>1, <3>3
  <2>5. PICK q \in 1 .. i - 1 : q = p - first + 1
    <3>1. p - first + 1 \in 1 .. i - 1
      BY <1>1, <1>2, <2>1, <2>2, <2>4
    <3>2. QED BY <3>1
  <2>6. y[q] = msgs[p] /\ i - q = j - p
    BY <1>1, <1>2, <1>7, <2>1, <2>4, <2>5
  <2>7. \A k \in q + 1 .. i : /\ k \in 1 .. m /\ first + k - 1 \in p + 1 .. j
    BY <1>2, <2>1, <2>5
  <2>8. \A k \in q + 1 .. i : y[k].role = "tool"
    BY <1>6, <2>3, <2>7
  <2>9. QED BY <2>3, <2>6, <2>8
<1>10. QED BY <1>4, <1>8, <1>9, WellFormedParts DEF y

\* Every context that build_context may cut from a well-formed transcript is
\* well formed.
THEOREM ContextsOfWellFormed ==
  ASSUME NEW Names, NEW msgs \in Seq(Texts(Names)), WellFormed(msgs)
  PROVE  \A context \in Contexts(msgs) : WellFormed(context)
BY CutWellFormed DEF Contexts

-----------------------------------------------------------------------------
(* FlattenSeq *)

\* The function that FlattenSeq is defined with.
LEMMA FlattenedSoFar ==
  ASSUME NEW seqs
  PROVE  \A n \in Nat : \E f :
           f = [i \in 1 .. n |-> IF i = 1 THEN seqs[i] ELSE f[i - 1] \o seqs[i]]
<1> DEFINE S == {n \in Nat : \E f :
             f = [i \in 1 .. n |->
                    IF i = 1 THEN seqs[i] ELSE f[i - 1] \o seqs[i]]}
<1>1. 0 \in S
  <2>1. [i \in 1 .. 0 |-> 0] =
          [i \in 1 .. 0 |-> IF i = 1 THEN seqs[i]
                            ELSE [j \in 1 .. 0 |-> 0][i - 1] \o seqs[i]]
    OBVIOUS
  <2>2. QED BY <2>1
<1>2. ASSUME NEW n \in Nat, n \in S PROVE n + 1 \in S
  <2>1. PICK f : f = [i \in 1 .. n |->
                        IF i = 1 THEN seqs[i] ELSE f[i - 1] \o seqs[i]]
    BY <1>2
  <2> DEFINE g == [i \in 1 .. n + 1 |->
                     IF i <= n THEN f[i]
                     ELSE IF i = 1 THEN seqs[i] ELSE f[i - 1] \o seqs[i]]
  <2>2. \A i \in 1 .. n + 1 :
          g[i] = IF i = 1 THEN seqs[i] ELSE g[i - 1] \o seqs[i]
    <3> TAKE i \in 1 .. n + 1
    <3>1. i # 1 => i - 1 \in 1 .. n + 1 /\ i - 1 <= n /\ g[i - 1] = f[i - 1]
      OBVIOUS
    <3>2. CASE i <= n
      <4>1. i \in 1 .. n /\ g[i] = f[i]
        BY <3>2
      <4>2. f[i] = IF i = 1 THEN seqs[i] ELSE f[i - 1] \o seqs[i]
        BY <2>1, <4>1
      <4>3. QED BY <3>1, <4>1, <4>2
    <3>3. CASE ~(i <= n)
      <4>1. g[i] = IF i = 1 THEN seqs[i] ELSE f[i - 1] \o seqs[i]
        BY <3>3
      <4>2. QED BY <3>1, <4>1
    <3>4. QED BY <3>2, <3>3
  <2>3. g = [i \in 1 .. n + 1 |-> g[i]]
    OBVIOUS
  <2> HIDE DEF g
  <2>4. g = [i \in 1 .. n + 1 |->
               IF i = 1 THEN seqs[i] ELSE g[i - 1] \o seqs[i]]
    BY <2>2, <2>3
  <2>5. \E h : h = [i \in 1 .. n + 1 |->
                      IF i = 1 THEN seqs[i] ELSE h[i - 1] \o seqs[i]]
    BY <2>4
  <2>6. n + 1 \in Nat
    OBVIOUS
  <2>7. QED BY <2>5, <2>6
<1> HIDE DEF S
<1>3. \A n \in Nat : n \in S
  BY <1>1, <1>2, AllNumbers
<1>4. QED BY <1>3 DEF S

\* Message e is one of these.
Says(msgs, e) == \E k \in 1 .. Len(msgs) : msgs[k] = e

\* Well formed blocks, one behind the other, are well formed, and what they say
\* is what the blocks say.
LEMMA Flattened ==
  ASSUME NEW Names, NEW N \in Nat,
         NEW seqs \in [1 .. N -> Seq(Texts(Names))],
         \A i \in 1 .. N : WellFormed(seqs[i])
  PROVE  LET flat == FlattenSeq(seqs) IN
         /\ flat \in Seq(Texts(Names))
         /\ WellFormed(flat)
         /\ \A e : Says(flat, e) <=> \E i \in 1 .. N : Says(seqs[i], e)
<1>1. seqs \in Seq(Seq(Texts(Names))) /\ Len(seqs) = N
  <2>1. seqs \in Seq(Seq(Texts(Names))) /\ DOMAIN seqs = 1 .. N
    OBVIOUS
  <2>2. QED BY <2>1, LenProperties
<1>2. CASE N = 0
  <2>1. FlattenSeq(seqs) = seqs /\ seqs = <<>>
    BY <1>1, <1>2, EmptySeq DEF FlattenSeq
  <2>2. \A e : ~Says(seqs, e) /\ ~\E i \in 1 .. N : Says(seqs[i], e)
    BY <1>1, <1>2 DEF Says
  <2>3. QED BY <2>1, <2>2, NothingWellFormed
<1>3. CASE N # 0
  <2>1. PICK f : /\ f = [i \in 1 .. N |->
                           IF i = 1 THEN seqs[i] ELSE f[i - 1] \o seqs[i]]
                 /\ FlattenSeq(seqs) = f[N]
    <3> DEFINE R(g) == g = [i \in 1 .. N |->
                              IF i = 1 THEN seqs[i] ELSE g[i - 1] \o seqs[i]]
               f == CHOOSE g : R(g)
    <3>1. \E g : R(g)
      BY FlattenedSoFar
    <3> HIDE DEF R
    <3>2. R(f)
      BY <3>1
    <3>3. FlattenSeq(seqs) = f[N]
      BY <1>1, <1>3 DEF FlattenSeq, R
    <3> HIDE DEF f
    <3>4. QED BY <3>2, <3>3 DEF R
  <2>2. f[1] = seqs[1] /\ \A i \in 2 .. N : f[i] = f[i - 1] \o seqs[i]
    <3>1. \A i \in 1 .. N :
            f[i] = IF i = 1 THEN seqs[i] ELSE f[i - 1] \o seqs[i]
      BY <2>1
    <3>2. 1 \in 1 .. N /\ \A i \in 2 .. N : i \in 1 .. N /\ i # 1
      BY <1>3
    <3>3. QED BY <3>1, <3>2
  <2> DEFINE GoodAs(g, n) ==
               /\ g \in Seq(Texts(Names))
               /\ WellFormed(g)
               /\ \A i \in 1 .. n : \A k \in 1 .. Len(seqs[i]) :
                    \E j \in 1 .. Len(g) : g[j] = seqs[i][k]
               /\ \A j \in 1 .. Len(g) :
                    \E i \in 1 .. n : Says(seqs[i], g[j])
             Good(n) == GoodAs(f[n], n)
             S == {n \in Nat : n + 1 <= N => Good(n + 1)}
  <2>3. Good(1)
    <3>1. 1 \in 1 .. N /\ \A i \in 1 .. 1 : i = 1
      BY <1>3
    <3>2. f[1] \in Seq(Texts(Names)) /\ WellFormed(f[1])
      BY <2>2, <3>1
    <3>3. \A j \in 1 .. Len(f[1]) : Says(seqs[1], f[1][j])
      BY <2>2 DEF Says
    <3>4. \A i \in 1 .. 1 : \A k \in 1 .. Len(seqs[i]) :
            \E j \in 1 .. Len(f[1]) : f[1][j] = seqs[i][k]
      BY <2>2, <3>1
    <3>5. 1 \in 1 .. 1
      OBVIOUS
    <3>6. QED BY <3>2, <3>3, <3>4, <3>5
  <2>4. ASSUME NEW n \in 1 .. N, n + 1 <= N, Good(n) PROVE Good(n + 1)
    <3>1. PICK x \in Seq(Texts(Names)) : x = f[n]
      BY <2>4
    <3>2. PICK y \in Seq(Texts(Names)) : y = seqs[n + 1] /\ WellFormed(y)
      <4>1. n + 1 \in 1 .. N
        BY <2>4
      <4>2. QED BY <4>1
    <3>3. f[n + 1] = x \o y
      <4>1. n + 1 \in 2 .. N /\ (n + 1) - 1 = n
        BY <2>4
      <4>2. QED BY <2>2, <3>1, <3>2, <4>1
    <3>4. x \o y \in Seq(Texts(Names)) /\ WellFormed(x \o y)
      BY <2>4, <3>1, <3>2, JoinedWellFormed
    <3>5. PICK z \in Seq(Texts(Names)) : z = x \o y
      BY <3>4
    <3>6. /\ Len(x) \in Nat /\ Len(y) \in Nat /\ Len(z) = Len(x) + Len(y)
          /\ \A i \in 1 .. Len(x) + Len(y) :
               z[i] = IF i <= Len(x) THEN x[i] ELSE y[i - Len(x)]
      BY <3>5, ConcatProperties, LenProperties
    <3>7. \A j \in 1 .. Len(x) : j \in 1 .. Len(z) /\ z[j] = x[j]
      BY <3>6
    <3>8. \A k \in 1 .. Len(y) : Len(x) + k \in 1 .. Len(z) /\ z[Len(x) + k] = y[k]
      <4> TAKE k \in 1 .. Len(y)
      <4>1. /\ Len(x) + k \in 1 .. Len(x) + Len(y) /\ ~(Len(x) + k <= Len(x))
            /\ (Len(x) + k) - Len(x) = k
        BY <3>6
      <4>2. QED BY <3>6, <4>1
    <3>9. \A j \in 1 .. Len(z) :
            j \in 1 .. Len(x) \/ \E k \in 1 .. Len(y) : j = Len(x) + k
      <4> TAKE j \in 1 .. Len(z)
      <4>1. CASE j <= Len(x)
        BY <3>6, <4>1
      <4>2. CASE ~(j <= Len(x))
        <5>1. j - Len(x) \in 1 .. Len(y) /\ j = Len(x) + (j - Len(x))
          BY <3>6, <4>2
        <5>2. QED BY <5>1
      <4>3. QED BY <4>1, <4>2
    <3>10. \A i \in 1 .. n + 1 : i \in 1 .. n \/ i = n + 1
      OBVIOUS
    <3>11. ASSUME NEW i \in 1 .. n + 1, NEW k \in 1 .. Len(seqs[i])
           PROVE  \E j \in 1 .. Len(z) : z[j] = seqs[i][k]
      <4>1. CASE i \in 1 .. n
        <5>1. PICK j \in 1 .. Len(x) : x[j] = seqs[i][k]
          BY <2>4, <3>1, <4>1
        <5>2. QED BY <3>7, <5>1
      <4>2. CASE i = n + 1
        BY <3>2, <3>8, <4>2
      <4>3. QED BY <3>10, <4>1, <4>2
    <3>12. ASSUME NEW j \in 1 .. Len(z)
           PROVE  \E i \in 1 .. n + 1 : Says(seqs[i], z[j])
      <4>1. CASE j \in 1 .. Len(x)
        <5>1. PICK i \in 1 .. n : Says(seqs[i], x[j])
          BY <2>4, <3>1, <4>1
        <5>2. i \in 1 .. n + 1
          OBVIOUS
        <5>3. QED BY <3>7, <4>1, <5>1, <5>2
      <4>2. ASSUME NEW k \in 1 .. Len(y), j = Len(x) + k
            PROVE  Says(seqs[n + 1], z[j])
        BY <3>2, <3>8, <4>2 DEF Says
      <4>3. n + 1 \in 1 .. n + 1
        OBVIOUS
      <4>4. QED BY <3>9, <4>1, <4>2, <4>3
    <3>13. z = f[n + 1] /\ WellFormed(z)
      BY <3>3, <3>4, <3>5
    <3>14. /\ f[n + 1] \in Seq(Texts(Names)) /\ WellFormed(f[n + 1])
           /\ \A j \in 1 .. Len(f[n + 1]) :
                \E i \in 1 .. n + 1 : Says(seqs[i], f[n + 1][j])
      BY <3>12, <3>13
    <3>15. \A i \in 1 .. n + 1 : \A k \in 1 .. Len(seqs[i]) :
             \E j \in 1 .. Len(f[n + 1]) : f[n + 1][j] = seqs[i][k]
      BY <3>11, <3>13
    <3>16. QED BY <3>14, <3>15
  <2> HIDE DEF Good, GoodAs
  <2>5. 0 \in S /\ \A n \in Nat : n \in S => n + 1 \in S
    <3>1. 0 \in S
      BY <2>3
    <3>2. ASSUME NEW n \in Nat, n \in S PROVE n + 1 \in S
      <4> SUFFICES ASSUME n + 1 + 1 <= N PROVE Good(n + 1 + 1)
        OBVIOUS
      <4>1. n + 1 \in 1 .. N /\ n + 1 <= N
        OBVIOUS
      <4>2. Good(n + 1)
        BY <3>2, <4>1
      <4>3. QED BY <2>4, <4>1, <4>2
    <3>3. QED BY <3>1, <3>2
  <2>6. N - 1 \in S
    <3>1. N - 1 \in Nat
      BY <1>3
    <3> HIDE DEF S
    <3>2. QED BY <2>5, <3>1, AllNumbers
  <2>7. Good(N)
    <3>1. N - 1 \in Nat /\ (N - 1) + 1 = N /\ N <= N
      BY <1>3
    <3>2. QED BY <2>6, <3>1
  <2>8. PICK flat : flat = FlattenSeq(seqs) /\ flat = f[N]
    BY <2>1
  <2>9. GoodAs(flat, N)
    BY <2>7, <2>8 DEF Good
  <2>10. ASSUME NEW e PROVE Says(flat, e) <=> \E i \in 1 .. N : Says(seqs[i], e)
    <3> USE DEF GoodAs
    <3>1. ASSUME Says(flat, e) PROVE \E i \in 1 .. N : Says(seqs[i], e)
      <4>1. PICK j \in 1 .. Len(flat) : flat[j] = e
        BY <3>1 DEF Says
      <4>2. QED BY <2>9, <4>1
    <3>2. ASSUME NEW i \in 1 .. N, Says(seqs[i], e) PROVE Says(flat, e)
      <4>1. PICK k \in 1 .. Len(seqs[i]) : seqs[i][k] = e
        BY <3>2 DEF Says
      <4>2. QED BY <2>9, <4>1 DEF Says
    <3>3. QED BY <3>1, <3>2
  <2>11. QED BY <2>8, <2>9, <2>10 DEF GoodAs
<1>4. QED BY <1>2, <1>3

-----------------------------------------------------------------------------
(* continue_transcript *)

\* A bounded set of numbers has a greatest one.
LEMMA GreatestNumber ==
  ASSUME NEW T \in SUBSET Nat, T # {}, NEW N \in Nat, \A k \in T : k <= N
  PROVE  \E n \in T : \A k \in T : k <= n
<1> DEFINE U == {N - k : k \in T}
<1>1. T \subseteq Nat
  OBVIOUS
<1>2. U \in SUBSET Nat /\ U # {}
  BY <1>1
<1>3. PICK u \in U : \A v \in U : u <= v
  BY <1>2, LeastNumber
<1>4. PICK n \in T : u = N - n
  OBVIOUS
<1>5. \A k \in T : N - n <= N - k
  BY <1>3, <1>4
<1>6. \A k \in T : k \in Nat /\ n \in Nat
  BY <1>1
<1>7. QED BY <1>5, <1>6

\* A reply answers the call it is for: it is a recorded one that follows the
\* call, or a marker.
LEMMA ReplyToFields ==
  ASSUME NEW Names, NEW msgs \in Seq(Texts(Names)), NEW i \in 1 .. Len(msgs),
         NEW call \in Nat
  PROVE  LET e == ReplyTo(msgs, i, call) IN
         e \in Texts(Names) /\ e.role = "tool" /\ e.calls = {call}
<1>1. Len(msgs) \in Nat /\ \A j \in 1 .. Len(msgs) : msgs[j] \in Texts(Names)
  BY LenProperties, ElementOfSeq
<1> DEFINE found == {j \in Following(msgs, i) : call \in msgs[j].calls}
           marker == [role |-> "tool", run |-> msgs[i].run, calls |-> {call},
                      marker |-> TRUE]
<1>2. CASE found = {}
  <2>1. ReplyTo(msgs, i, call) = marker
    BY <1>2 DEF ReplyTo
  <2>2. msgs[i].run \in Names
    BY <1>1 DEF Texts
  <2>3. IsFiniteSet({call})
    BY FS_Singleton
  <2>4. marker \in Texts(Names)
    BY <2>2, <2>3 DEF Texts
  <2>5. QED BY <2>1, <2>4
<1>3. CASE found # {}
  <2>1. \A j \in found : /\ j \in 1 .. Len(msgs) /\ msgs[j].role = "tool"
                         /\ call \in msgs[j].calls
    BY <1>1 DEF Following
  <2>2. found \in SUBSET Nat /\ \A k \in found : k <= Len(msgs)
    BY <1>1, <2>1
  <2>3. \E j \in found : \A k \in found : k <= j
    BY <1>1, <1>3, <2>2, GreatestNumber
  <2>4. PICK j \in found : ReplyTo(msgs, i, call) = msgs[j]
    BY <1>3, <2>3 DEF ReplyTo
  <2>5. msgs[j] \in Texts(Names) /\ msgs[j].role = "tool" /\ call \in msgs[j].calls
    BY <1>1, <2>1
  <2>6. \E c \in Nat : msgs[j].calls = {c}
    BY <2>5 DEF Texts
  <2>7. QED BY <2>4, <2>5, <2>6
<1>4. QED BY <1>2, <1>3

\* A function on the first n numbers is a sequence of n elements.
LEMMA NumberedSequence ==
  ASSUME NEW T, NEW n \in Nat, NEW f \in [1 .. n -> T]
  PROVE  f \in Seq(T) /\ Len(f) = n
<1>1. f \in Seq(T) /\ DOMAIN f = 1 .. n
  OBVIOUS
<1>2. QED BY <1>1, LenProperties

\* What continue_transcript makes of one message.
Block(msgs, i) ==
  IF msgs[i].role = "tool" THEN <<>>
  ELSE LET order == InOrder(msgs[i].calls) IN
       <<msgs[i]>> \o [n \in DOMAIN order |-> ReplyTo(msgs, i, order[n])]

\* It is well formed, and says the message and a reply to each of its calls.
LEMMA BlockWellFormed ==
  ASSUME NEW Names, NEW msgs \in Seq(Texts(Names)), NEW i \in 1 .. Len(msgs)
  PROVE  LET b == Block(msgs, i) IN
         /\ b \in Seq(Texts(Names)) /\ WellFormed(b)
         /\ msgs[i].role # "tool" =>
              /\ Says(b, msgs[i])
              /\ \A c \in msgs[i].calls : Says(b, ReplyTo(msgs, i, c))
         /\ \A e : Says(b, e) /\ e.role # "tool" => e = msgs[i]
<1>1. CASE msgs[i].role = "tool"
  <2>1. Block(msgs, i) = <<>>
    BY <1>1 DEF Block
  <2>2. <<>> \in Seq(Texts(Names)) /\ WellFormed(<<>>) /\ Len(<<>>) = 0
    BY NothingWellFormed, EmptySeq
  <2>3. \A e : ~Says(<<>>, e)
    BY <2>2 DEF Says
  <2>4. QED BY <1>1, <2>1, <2>2, <2>3
<1>2. CASE msgs[i].role # "tool"
  <2>1. PICK e \in Texts(Names) : e = msgs[i] /\ e.role # "tool"
    BY <1>2, ElementOfSeq
  <2>2. PICK n : n = Cardinality(e.calls)
    OBVIOUS
  <2>3. /\ n \in Nat /\ e.calls \in SUBSET Nat
        /\ DOMAIN InOrder(e.calls) = 1 .. n
        /\ \A k \in 1 .. n : InOrder(e.calls)[k] \in e.calls
        /\ \A c \in e.calls : \E k \in 1 .. n : InOrder(e.calls)[k] = c
    BY <2>2, CallsInOrder
  <2>4. PICK replies : replies =
          [k \in 1 .. n |-> ReplyTo(msgs, i, InOrder(e.calls)[k])]
    OBVIOUS
  <2>5. \A k \in 1 .. n :
          /\ replies[k] = ReplyTo(msgs, i, InOrder(e.calls)[k])
          /\ replies[k] \in Texts(Names) /\ replies[k].role = "tool"
          /\ replies[k].calls = {InOrder(e.calls)[k]}
    <3> TAKE k \in 1 .. n
    <3>1. PICK c \in Nat : c = InOrder(e.calls)[k]
      <4>1. InOrder(e.calls)[k] \in e.calls
        BY <2>3
      <4>2. QED BY <2>3, <4>1
    <3>2. replies[k] = ReplyTo(msgs, i, c)
      BY <2>4, <3>1
    <3>3. QED BY <3>1, <3>2, ReplyToFields
  <2>6. replies \in Seq(Texts(Names)) /\ Len(replies) = n
    <3>1. replies \in [1 .. n -> Texts(Names)]
      BY <2>4, <2>5
    <3>2. QED BY <2>3, <3>1, NumberedSequence
  <2>7. Block(msgs, i) = <<e>> \o replies
    BY <1>2, <2>1, <2>3, <2>4 DEF Block
  <2>8. <<e>> \in Seq(Texts(Names)) /\ Len(<<e>>) = 1 /\ <<e>>[1] = e
    OBVIOUS
  <2>9. PICK b \in Seq(Texts(Names)) :
          /\ b = Block(msgs, i) /\ Len(b) = 1 + n
          /\ \A k \in 1 .. 1 + n : b[k] = IF k <= 1 THEN e ELSE replies[k - 1]
    <3>1. PICK one \in Seq(Texts(Names)) : one = <<e>>
      BY <2>8
    <3>2. PICK b \in Seq(Texts(Names)) : b = one \o replies
      BY <2>6, <3>1, ConcatProperties
    <3>3. /\ Len(b) = 1 + n
          /\ \A k \in 1 .. 1 + n :
               b[k] = IF k <= 1 THEN one[k] ELSE replies[k - 1]
      BY <2>6, <2>8, <3>1, <3>2, ConcatProperties
    <3>4. \A k \in 1 .. 1 + n : k <= 1 => one[k] = e
      BY <2>8, <3>1
    <3>5. QED BY <2>7, <3>1, <3>2, <3>3, <3>4
  <2>10. 1 \in 1 .. 1 + n /\ b[1] = e
    <3>1. 1 \in 1 .. 1 + n /\ 1 <= 1
      BY <2>3
    <3>2. QED BY <2>9, <3>1
  <2>11. \A k \in 1 .. n : 1 + k \in 1 .. 1 + n /\ b[1 + k] = replies[k]
    <3> TAKE k \in 1 .. n
    <3>1. 1 + k \in 1 .. 1 + n /\ ~(1 + k <= 1) /\ (1 + k) - 1 = k
      BY <2>3
    <3>2. QED BY <2>9, <3>1
  <2>12. \A j \in 1 .. 1 + n : j = 1 \/ \E k \in 1 .. n : j = 1 + k
    <3> TAKE j \in 1 .. 1 + n
    <3>1. j # 1 => j - 1 \in 1 .. n /\ j = 1 + (j - 1)
      BY <2>3
    <3>2. QED BY <3>1
  <2>13. CallsAnswered(b)
    <3> SUFFICES ASSUME NEW j \in 1 .. 1 + n, b[j].role = "calls"
                 PROVE  /\ j + Cardinality(b[j].calls) <= 1 + n
                        /\ \A k \in 1 .. Cardinality(b[j].calls) :
                             /\ b[j + k].role = "tool"
                             /\ b[j + k].calls = {InOrder(b[j].calls)[k]}
      BY <2>9 DEF CallsAnswered
    <3>1. j = 1
      BY <2>5, <2>11, <2>12
    <3>2. Cardinality(b[j].calls) = n /\ b[j] = e /\ j + n <= 1 + n
      BY <2>2, <2>3, <2>10, <3>1
    <3>3. QED BY <2>5, <2>11, <3>1, <3>2
  <2>14. RepliesCalled(b)
    <3> SUFFICES ASSUME NEW j \in 1 .. 1 + n, b[j].role = "tool"
                 PROVE  \E p \in 1 .. j - 1 :
                          /\ b[p].role = "calls"
                          /\ \A k \in p + 1 .. j : b[k].role = "tool"
                          /\ j - p <= Cardinality(b[p].calls)
      BY <2>9 DEF RepliesCalled
    <3>1. j # 1
      BY <2>1, <2>10
    <3>2. e.role = "calls"
      <4>1. n # 0
        BY <2>3, <3>1
      <4>2. e.calls # {}
        BY <2>2, <4>1, FS_EmptySet
      <4>3. QED BY <2>1, <4>2 DEF Texts
    <3>3. 1 \in 1 .. j - 1 /\ j - 1 <= n
      BY <2>3, <3>1
    <3>4. \A k \in 1 + 1 .. j : b[k].role = "tool"
      <4> TAKE k \in 1 + 1 .. j
      <4>1. k \in 1 .. 1 + n /\ k # 1
        BY <2>3
      <4>2. QED BY <2>5, <2>11, <2>12, <4>1
    <3>5. QED BY <2>2, <2>10, <3>2, <3>3, <3>4
  <2>15. WellFormed(b)
    BY <2>13, <2>14, WellFormedParts
  <2>16. \A c \in e.calls : Says(b, ReplyTo(msgs, i, c))
    <3> TAKE c \in e.calls
    <3>1. PICK k \in 1 .. n : InOrder(e.calls)[k] = c
      BY <2>3
    <3>2. b[1 + k] = ReplyTo(msgs, i, c) /\ 1 + k \in 1 .. 1 + n
      BY <2>5, <2>11, <3>1
    <3>3. QED BY <2>9, <3>2 DEF Says
  <2>17. \A k \in 1 .. Len(b) : b[k].role # "tool" => b[k] = e
    BY <2>5, <2>9, <2>10, <2>11, <2>12
  <2>18. Says(b, e) /\ \A d : Says(b, d) /\ d.role # "tool" => d = e
    BY <2>9, <2>10, <2>17 DEF Says
  <2>19. QED BY <2>1, <2>9, <2>15, <2>16, <2>18
<1>3. QED BY <1>1, <1>2

\* Whatever transcript an earlier run left, continue_transcript makes one of it
\* that a provider accepts.
THEOREM ContinuedWellFormed ==
  ASSUME NEW Names, NEW msgs \in Seq(Texts(Names))
  PROVE  LET out == Continued(msgs) IN
         /\ out \in Seq(Texts(Names)) /\ WellFormed(out)
         /\ \A i \in 1 .. Len(msgs) : msgs[i].role # "tool" =>
              /\ Says(out, msgs[i])
              /\ \A c \in msgs[i].calls : Says(out, ReplyTo(msgs, i, c))
         /\ \A e : Says(out, e) /\ e.role # "tool" => Says(msgs, e)
<1>1. PICK N \in Nat : N = Len(msgs) /\ DOMAIN msgs = 1 .. N
  BY LenProperties
<1>2. PICK seqs : seqs = [i \in 1 .. N |-> Block(msgs, i)]
  OBVIOUS
<1>3. PICK out : out = Continued(msgs) /\ out = FlattenSeq(seqs)
  BY <1>1, <1>2 DEF Continued, Block
<1>4. ASSUME NEW i \in 1 .. N
      PROVE  /\ seqs[i] \in Seq(Texts(Names)) /\ WellFormed(seqs[i])
             /\ msgs[i].role # "tool" =>
                  /\ Says(seqs[i], msgs[i])
                  /\ \A c \in msgs[i].calls :
                       Says(seqs[i], ReplyTo(msgs, i, c))
             /\ \A e : Says(seqs[i], e) /\ e.role # "tool" => e = msgs[i]
  <2>1. i \in 1 .. Len(msgs) /\ seqs[i] = Block(msgs, i)
    BY <1>1, <1>2
  <2>2. QED BY <2>1, BlockWellFormed
<1>5. seqs \in [1 .. N -> Seq(Texts(Names))]
  BY <1>2, <1>4
<1>6. /\ out \in Seq(Texts(Names)) /\ WellFormed(out)
      /\ \A e : Says(out, e) <=> \E i \in 1 .. N : Says(seqs[i], e)
  <2>1. PICK fs \in [1 .. N -> Seq(Texts(Names))] :
          fs = seqs /\ \A i \in 1 .. N : WellFormed(fs[i])
    BY <1>4, <1>5
  <2>2. /\ FlattenSeq(fs) \in Seq(Texts(Names)) /\ WellFormed(FlattenSeq(fs))
        /\ \A e : Says(FlattenSeq(fs), e) <=> \E i \in 1 .. N : Says(fs[i], e)
    <3> HIDE DEF Says
    <3>1. QED BY <2>1, Flattened
  <2>3. QED BY <1>3, <2>1, <2>2
<1>7. \A i \in 1 .. N : msgs[i].role # "tool" =>
        /\ Says(out, msgs[i])
        /\ \A c \in msgs[i].calls : Says(out, ReplyTo(msgs, i, c))
  BY <1>4, <1>6
<1>8. \A e : Says(out, e) /\ e.role # "tool" => Says(msgs, e)
  <2> SUFFICES ASSUME NEW e, Says(out, e), e.role # "tool"
               PROVE  Says(msgs, e)
    OBVIOUS
  <2>1. PICK i \in 1 .. N : Says(seqs[i], e)
    BY <1>6
  <2>2. e = msgs[i]
    BY <1>4, <2>1
  <2>3. QED BY <1>1, <2>2 DEF Says
<1>9. QED BY <1>1, <1>3, <1>6, <1>7, <1>8

-----------------------------------------------------------------------------
(* The messages of the table as a transcript *)

\* A row of the table, and the rows at some positions, as a provider is given
\* them.
Line(e) == [role |-> e.role, run |-> e.run, calls |-> e.calls, marker |-> FALSE]
Lines(table, S) ==
  LET chosen == InOrder(S) IN [i \in DOMAIN chosen |-> Line(table[chosen[i]])]

\* Only calls and replies name calls: a reply names one, calls are numbered on.
CallsNamed(e) ==
  /\ e.role \in {"user", "final"} => e.calls = {}
  /\ e.role = "tool" => \E c \in Nat : e.calls = {c}
  /\ e.role = "calls" => \E a, n \in Nat : e.calls = a + 1 .. a + n

\* Entries and Own read the present table.
LEMMA EntriesAreLines ==
  /\ \A S : Entries(S) = Lines(messages, S)
  /\ \A r : Own(r) = Lines(messages,
                           {m \in DOMAIN messages : /\ messages[m].run = r
                                                    /\ messages[m].role # "user"})
BY DEF Entries, Own, Lines, Line, Entry

\* A row that names its calls is a text.
LEMMA LineTyped ==
  ASSUME NEW e \in MessageRows, CallsNamed(e)
  PROVE  Line(e) \in Texts(Runs)
<1>1. e.role \in {"user", "calls", "final", "tool"} /\ e.run \in Runs
  BY DEF MessageRows, Roles
<1>2. e.calls \in SUBSET Nat /\ IsFiniteSet(e.calls)
  <2>1. CASE e.role \in {"user", "final"}
    BY <2>1, FS_EmptySet DEF CallsNamed
  <2>2. CASE e.role = "tool"
    BY <2>2, FS_Singleton DEF CallsNamed
  <2>3. CASE e.role = "calls"
    <3>1. PICK a, n \in Nat : e.calls = a + 1 .. a + n
      BY <2>3 DEF CallsNamed
    <3>2. QED BY <3>1, InOrderInterval
  <2>4. QED BY <1>1, <2>1, <2>2, <2>3
<1>3. Line(e) \in [role : {"user", "calls", "final", "tool"}, run : Runs,
                   calls : SUBSET Nat, marker : BOOLEAN]
  BY <1>1, <1>2 DEF Line
<1>4. /\ Line(e).role = e.role /\ Line(e).calls = e.calls
  BY DEF Line
<1>5. QED BY <1>2, <1>3, <1>4 DEF Texts, CallsNamed

\* The rows at some positions, one by one.
LEMMA LinesInOrder ==
  ASSUME NEW table \in Seq(MessageRows),
         \A m \in DOMAIN table : CallsNamed(table[m]),
         NEW S \in SUBSET (DOMAIN table)
  PROVE  /\ S \in SUBSET Nat /\ IsFiniteSet(S) /\ Cardinality(S) \in Nat
         /\ Lines(table, S) \in Seq(Texts(Runs))
         /\ Len(Lines(table, S)) = Cardinality(S)
         /\ InOrder(S) \in [1 .. Cardinality(S) -> S]
         /\ Counts(InOrder(S), S)
         /\ \A i \in 1 .. Cardinality(S) :
              Lines(table, S)[i] = Line(table[InOrder(S)[i]])
<1> DEFINE n == Cardinality(S)
           order == InOrder(S)
<1>1. DOMAIN table = 1 .. Len(table) /\ Len(table) \in Nat
  BY LenProperties
<1>2. S \in SUBSET Nat /\ IsFiniteSet(S)
  <2>1. IsFiniteSet(1 .. Len(table))
    BY <1>1, FS_Interval
  <2>2. QED BY <1>1, <2>1, FS_Subset
<1>3. n \in Nat /\ order \in [1 .. n -> S] /\ Counts(order, S)
  BY <1>2, InOrderCounts
<1>4. \A m \in DOMAIN table : Line(table[m]) \in Texts(Runs)
  <2> TAKE m \in DOMAIN table
  <2>1. table[m] \in MessageRows
    BY <1>1, ElementOfSeq
  <2>2. QED BY <2>1, LineTyped
<1>5. Lines(table, S) = [i \in 1 .. n |-> Line(table[order[i]])]
  BY <1>3 DEF Lines
<1> HIDE DEF n, order
<1>6. \A i \in 1 .. n : Line(table[order[i]]) \in Texts(Runs)
  BY <1>3, <1>4
<1>7. Lines(table, S) \in [1 .. n -> Texts(Runs)]
  BY <1>5, <1>6
<1>8. Lines(table, S) \in Seq(Texts(Runs)) /\ DOMAIN Lines(table, S) = 1 .. n
  BY <1>3, <1>7
<1>9. Len(Lines(table, S)) = n
  BY <1>3, <1>8, LenProperties
<1>10. \A i \in 1 .. n : Lines(table, S)[i] = Line(table[order[i]])
  BY <1>5
<1>11. QED BY <1>2, <1>3, <1>8, <1>9, <1>10 DEF n, order

\* A row that is appended comes last among those it belongs to.
LEMMA LinesAppended ==
  ASSUME NEW table \in Seq(MessageRows),
         \A m \in DOMAIN table : CallsNamed(table[m]),
         NEW S \in SUBSET (DOMAIN table),
         NEW e \in MessageRows, CallsNamed(e)
  PROVE  /\ Lines(Append(table, e), S) = Lines(table, S)
         /\ Lines(Append(table, e), S \cup {Len(table) + 1})
              = Append(Lines(table, S), Line(e))
<1> DEFINE n == Cardinality(S)
           order == InOrder(S)
           new == Len(table) + 1
           T == S \cup {new}
           after == Append(table, e)
           old == Lines(table, S)
<1>1. /\ DOMAIN table = 1 .. Len(table) /\ Len(table) \in Nat
      /\ after \in Seq(MessageRows) /\ DOMAIN after = 1 .. Len(table) + 1
      /\ \A m \in 1 .. Len(table) : after[m] = table[m]
      /\ after[new] = e
  BY LenProperties, AppendFacts
<1> HIDE DEF after
<1>2. /\ S \in SUBSET Nat /\ IsFiniteSet(S) /\ n \in Nat
      /\ old \in Seq(Texts(Runs)) /\ Len(old) = n
      /\ order \in [1 .. n -> S]
      /\ \A i \in 1 .. n : old[i] = Line(table[order[i]])
  BY LinesInOrder
<1>3. Lines(after, S) = old
  <2>1. \A i \in 1 .. n : order[i] \in 1 .. Len(table)
    BY <1>1, <1>2
  <2>2. /\ Lines(after, S) = [i \in 1 .. n |-> Line(after[order[i]])]
        /\ old = [i \in 1 .. n |-> Line(table[order[i]])]
    BY <1>2 DEF Lines
  <2>3. \A i \in 1 .. n : Line(after[order[i]]) = Line(table[order[i]])
    BY <1>1, <2>1
  <2> HIDE DEF old, order
  <2>4. QED BY <2>2, <2>3
<1>4. new \in Nat /\ \A y \in S : y < new
  BY <1>1
<1>5. /\ IsFiniteSet(T) /\ Cardinality(T) = n + 1
      /\ \A i \in 1 .. n : InOrder(T)[i] = order[i]
      /\ InOrder(T)[n + 1] = new
  BY <1>2, <1>4, InOrderMore
<1>6. \A m \in DOMAIN after : CallsNamed(after[m])
  BY <1>1
<1>7. T \in SUBSET (DOMAIN after)
  BY <1>1
<1>8. /\ Lines(after, T) \in Seq(Texts(Runs)) /\ Len(Lines(after, T)) = n + 1
      /\ \A i \in 1 .. n + 1 : Lines(after, T)[i] = Line(after[InOrder(T)[i]])
  BY <1>1, <1>5, <1>6, <1>7, LinesInOrder
<1>9. Line(e) \in Texts(Runs)
  BY LineTyped
<1> HIDE DEF order, old, T, new, n
<1>10. /\ Append(old, Line(e)) \in Seq(Texts(Runs))
       /\ Len(Append(old, Line(e))) = n + 1
       /\ \A i \in 1 .. n : Append(old, Line(e))[i] = old[i]
       /\ Append(old, Line(e))[n + 1] = Line(e)
  BY <1>2, <1>9, AppendFacts
<1>11. ASSUME NEW i \in 1 .. n + 1
       PROVE  Lines(after, T)[i] = Append(old, Line(e))[i]
  <2>1. CASE i = n + 1
    BY <1>1, <1>5, <1>8, <1>10, <2>1
  <2>2. CASE i # n + 1
    <3>1. i \in 1 .. n
      BY <1>2, <2>2
    <3>2. order[i] \in DOMAIN table
      BY <1>2, <3>1
    <3>3. after[order[i]] = table[order[i]]
      BY <1>1, <3>2
    <3>4. QED BY <1>2, <1>5, <1>8, <1>10, <3>1, <3>3
  <2>3. QED BY <2>1, <2>2
<1>12. Lines(after, T) = Append(old, Line(e))
  <2>1. PICK x \in Seq(Texts(Runs)) : x = Lines(after, T) /\ Len(x) = n + 1
    BY <1>8
  <2>2. PICK y \in Seq(Texts(Runs)) : y = Append(old, Line(e)) /\ Len(y) = n + 1
    BY <1>10
  <2>3. \A i \in 1 .. n + 1 : x[i] = y[i]
    BY <1>11, <2>1, <2>2
  <2>4. x = y
    BY <2>1, <2>2, <2>3, SeqEqual
  <2>5. QED BY <2>1, <2>2, <2>4
<1>13. QED BY <1>3, <1>12 DEF after, old, T, new

-----------------------------------------------------------------------------
(* The replies a run still owes *)

ToolReply(r, c) == [role |-> "tool", run |-> r, calls |-> {c}, marker |-> FALSE]
\* The replies to the n calls of run r after call c.
Replies(r, c, n) == [i \in 1 .. n |-> ToolReply(r, c + i)]

\* A transcript of one message, and one behind another.
LEMMA OneMessage ==
  ASSUME NEW S, NEW e \in S
  PROVE  <<e>> \in Seq(S) /\ Len(<<e>>) = 1 /\ <<e>>[1] = e
OBVIOUS

\* x \o y, element by element.
Joins(S, x, y, m, n) ==
  /\ x \o y \in Seq(S) /\ Len(x \o y) = m + n
  /\ \A i \in 1 .. m + n : (x \o y)[i] = IF i <= m THEN x[i] ELSE y[i - m]

\* The messages of one sequence, and then those of the other.
LEMMA Joined ==
  ASSUME NEW S, NEW x \in Seq(S), NEW y \in Seq(S), NEW m \in Nat,
         NEW n \in Nat, Len(x) = m, Len(y) = n
  PROVE  Joins(S, x, y, m, n)
BY ConcatProperties DEF Joins

\* They are a transcript, and the first of them can be split off.
LEMMA RepliesFields ==
  ASSUME NEW r \in Runs, NEW c \in Nat, NEW n \in Nat
  PROVE  /\ Replies(r, c, n) \in Seq(Texts(Runs)) /\ Len(Replies(r, c, n)) = n
         /\ \A i \in 1 .. n : Replies(r, c, n)[i] = ToolReply(r, c + i)
         /\ n # 0 => Replies(r, c, n)
                       = <<ToolReply(r, c + 1)>> \o Replies(r, c + 1, n - 1)
<1>1. ASSUME NEW d \in Nat
      PROVE  ToolReply(r, d) \in Texts(Runs)
  <2>1. IsFiniteSet({d})
    BY FS_Singleton
  <2>2. QED BY <2>1 DEF ToolReply, Texts
<1>2. ASSUME NEW d \in Nat, NEW k \in Nat
      PROVE  /\ Replies(r, d, k) \in Seq(Texts(Runs)) /\ Len(Replies(r, d, k)) = k
             /\ \A i \in 1 .. k : Replies(r, d, k)[i] = ToolReply(r, d + i)
  <2>1. \A i \in 1 .. k : ToolReply(r, d + i) \in Texts(Runs)
    BY <1>1
  <2>2. Replies(r, d, k) \in [1 .. k -> Texts(Runs)]
    BY <2>1 DEF Replies
  <2>3. Replies(r, d, k) \in Seq(Texts(Runs)) /\ DOMAIN Replies(r, d, k) = 1 .. k
    BY <2>2
  <2>4. Len(Replies(r, d, k)) = k
    BY <2>3, LenProperties
  <2>5. QED BY <2>3, <2>4 DEF Replies
<1>3. ASSUME n # 0
      PROVE  Replies(r, c, n) = <<ToolReply(r, c + 1)>> \o Replies(r, c + 1, n - 1)
  <2>1. n - 1 \in Nat /\ c + 1 \in Nat
    BY <1>3
  <2>2. PICK x \in Seq(Texts(Runs)) : x = Replies(r, c, n)
    BY <1>2
  <2>3. PICK y \in Seq(Texts(Runs)) : y = Replies(r, c + 1, n - 1)
    BY <1>2, <2>1
  <2>4. PICK z \in Seq(Texts(Runs)) : z = <<ToolReply(r, c + 1)>> /\ Len(z) = 1
                                      /\ z[1] = ToolReply(r, c + 1)
    <3>1. ToolReply(r, c + 1) \in Texts(Runs)
      BY <1>1, <2>1
    <3>2. QED BY <3>1, OneMessage
  <2>5. Len(x) = n /\ \A i \in 1 .. n : x[i] = ToolReply(r, c + i)
    BY <1>2, <2>2
  <2>6. Len(y) = n - 1 /\ \A i \in 1 .. n - 1 : y[i] = ToolReply(r, c + 1 + i)
    BY <1>2, <2>1, <2>3
  <2>7. /\ z \o y \in Seq(Texts(Runs)) /\ Len(z \o y) = n
        /\ \A i \in 1 .. n : (z \o y)[i] = IF i <= 1 THEN z[i] ELSE y[i - 1]
    <3>1. /\ z \o y \in Seq(Texts(Runs)) /\ Len(z \o y) = 1 + (n - 1)
          /\ \A i \in 1 .. 1 + (n - 1) :
               (z \o y)[i] = IF i <= 1 THEN z[i] ELSE y[i - 1]
      BY <2>4, <2>6, Joined DEF Joins
    <3>2. 1 + (n - 1) = n
      OBVIOUS
    <3>3. QED BY <3>1, <3>2
  <2>8. ASSUME NEW i \in 1 .. n PROVE x[i] = (z \o y)[i]
    <3>1. CASE i = 1
      BY <2>4, <2>5, <2>7, <3>1
    <3>2. CASE i # 1
      <4>1. i - 1 \in 1 .. n - 1 /\ ~(i <= 1) /\ c + 1 + (i - 1) = c + i
        BY <3>2
      <4>2. y[i - 1] = ToolReply(r, c + 1 + (i - 1))
        BY <2>6, <4>1
      <4>3. QED BY <2>5, <2>7, <4>1, <4>2
    <3>3. QED BY <3>1, <3>2
  <2>9. x = z \o y
    BY <2>5, <2>7, <2>8, SeqEqual
  <2>10. QED BY <2>2, <2>3, <2>4, <2>9
<1>4. QED BY <1>2, <1>3

\* The calls of a response and a reply to each are well formed.
LEMMA AnnouncedWellFormed ==
  ASSUME NEW r \in Runs, NEW c \in Nat, NEW n \in Nat,
         NEW e \in Texts(Runs), e.role = "calls", e.calls = c + 1 .. c + n
  PROVE  LET whole == <<e>> \o Replies(r, c, n) IN
         whole \in Seq(Texts(Runs)) /\ WellFormed(whole)
<1>1. PICK z \in Seq(Texts(Runs)) : z = <<e>> /\ Len(z) = 1 /\ z[1] = e
  BY OneMessage
<1>2. PICK y \in Seq(Texts(Runs)) :
        /\ y = Replies(r, c, n) /\ Len(y) = n
        /\ \A i \in 1 .. n : y[i] = ToolReply(r, c + i)
  BY RepliesFields
<1>3. PICK w \in Seq(Texts(Runs)) :
        /\ w = z \o y /\ Len(w) = n + 1
        /\ \A i \in 1 .. n + 1 : w[i] = IF i <= 1 THEN z[i] ELSE y[i - 1]
  <2>1. /\ z \o y \in Seq(Texts(Runs)) /\ Len(z \o y) = 1 + n
        /\ \A i \in 1 .. 1 + n : (z \o y)[i] = IF i <= 1 THEN z[i] ELSE y[i - 1]
    BY <1>1, <1>2, Joined DEF Joins
  <2>2. 1 + n = n + 1
    OBVIOUS
  <2>3. QED BY <2>1, <2>2
<1>4. w[1] = e
  BY <1>1, <1>3
<1>5. ASSUME NEW i \in 1 .. n
      PROVE  w[1 + i] = ToolReply(r, c + i) /\ 1 + i \in 1 .. n + 1
  <2>1. 1 + i \in 1 .. n + 1 /\ ~(1 + i <= 1) /\ (1 + i) - 1 = i
    OBVIOUS
  <2>2. QED BY <1>2, <1>3, <2>1
<1>6. \A d : ToolReply(r, d).role = "tool" /\ ToolReply(r, d).calls = {d}
  BY DEF ToolReply
<1>7. \A i \in 2 .. n + 1 : w[i].role = "tool"
  <2> TAKE i \in 2 .. n + 1
  <2>1. i - 1 \in 1 .. n /\ 1 + (i - 1) = i
    OBVIOUS
  <2>2. w[1 + (i - 1)] = ToolReply(r, c + (i - 1))
    BY <1>5, <2>1
  <2>3. QED BY <1>6, <2>1, <2>2
<1>8. Cardinality(e.calls) = n /\ InOrder(e.calls) = [i \in 1 .. n |-> c + i]
  BY InOrderInterval
<1>9. CallsAnswered(w)
  <2> SUFFICES ASSUME NEW i \in 1 .. Len(w), w[i].role = "calls"
               PROVE  /\ i + Cardinality(w[i].calls) <= Len(w)
                      /\ \A k \in 1 .. Cardinality(w[i].calls) :
                           /\ w[i + k].role = "tool"
                           /\ w[i + k].calls = {InOrder(w[i].calls)[k]}
    BY DEF CallsAnswered
  <2>1. i = 1
    <3>1. i \in 1 .. n + 1
      BY <1>3
    <3>2. i \notin 2 .. n + 1
      BY <1>7
    <3>3. QED BY <3>1, <3>2
  <2>2. w[i] = e
    BY <1>4, <2>1
  <2>3. ASSUME NEW k \in 1 .. n
        PROVE  w[i + k].role = "tool" /\ w[i + k].calls = {InOrder(e.calls)[k]}
    BY <1>5, <1>6, <1>8, <2>1
  <2>4. i + n <= Len(w)
    BY <1>3, <2>1
  <2>5. QED BY <1>8, <2>2, <2>3, <2>4
<1>10. RepliesCalled(w)
  <2>1. ASSUME NEW i \in 1 .. Len(w), w[i].role = "tool"
        PROVE  /\ 1 \in 1 .. i - 1 /\ w[1].role = "calls"
               /\ \A k \in 1 + 1 .. i : w[k].role = "tool"
               /\ i - 1 <= Cardinality(w[1].calls)
    <3>1. i \in 1 .. n + 1 /\ i # 1
      BY <1>3, <1>4, <2>1
    <3>2. i \in 2 .. n + 1 /\ 1 \in 1 .. i - 1 /\ i - 1 <= n
      BY <3>1
    <3>3. \A k \in 1 + 1 .. i : k \in 2 .. n + 1
      BY <3>2
    <3>4. \A k \in 1 + 1 .. i : w[k].role = "tool"
      BY <1>7, <3>3
    <3>5. QED BY <1>4, <1>8, <3>2, <3>4
  <2>2. QED BY <2>1 DEF RepliesCalled
<1>11. WellFormed(w)
  BY <1>9, <1>10, WellFormedParts
<1>12. QED BY <1>1, <1>2, <1>3, <1>11

-----------------------------------------------------------------------------
(* What a step says *)

\* The points at which a run converses with the model: before them it has not
\* begun, and behind them it only records how it ends.
InTalk == (Reading \cup InHarness) \ {"cancel_event", "ending"}
\* Those at which it records a message.
Speaking == {"response_calls", "response_final", "tool_reply"}
\* While a run is in one of these statuses its messages are accepted.
Going == {"queued", "running"}

\* How many replies a task owes to the calls of the last response.
Owed(t) == IF t.pc \in InCall \cup {"tool_reply"} THEN t.left + 1 ELSE 0

\* A task stays in conversation: the calls of a response are owed, a recorded
\* reply is not owed any more, and nothing else changes the debt.
Follows(t, u) ==
  /\ t.pc \in InTalk /\ t.pc # "response_final"
  /\ t.pc \in {"response_calls", "tool_reply"} =>
       Owed(u) = t.left /\ (t.left # 0 => u.calls = t.calls + 1)
  /\ t.pc \notin Speaking =>
       Owed(u) = Owed(t) /\ (Owed(t) # 0 => u.calls = t.calls)

\* What Leads says about a task in conversation.
LEMMA LeadsFollows ==
  ASSUME NEW r, NEW t, NEW u, Shape(t), t.pc \in Live, Leads(r, t, u),
         u.pc \in InTalk
  PROVE  Follows(t, u)
<1>1. NextPoint(r, t, u) /\ NextOwed(t, u) /\ t.left \in Nat
  BY LimitsAssumption DEF Leads, Shape, Tasks
<1>2. u.pc # "cancel_event" /\ u.pc # "ending"
  BY DEF InTalk
<1>3. t.pc \in InTalk /\ t.pc # "response_final"
  BY <1>1
  DEF NextPoint, Live, InTalk, InHarness, InLoop, Reading, Recording, Waiting,
      Forced
<1>4. CASE t.pc \in InCall
  <2>1. /\ u.pc \in InCall \cup {"tool_reply"}
        /\ u.pc # "tool_call_requested"
    BY <1>1, <1>2, <1>4 DEF NextOwed, InCall
  <2>2. u.left = t.left /\ u.calls = t.calls
    BY <1>1, <2>1 DEF NextOwed
  <2>3. Owed(u) = Owed(t)
    BY <1>4, <2>1, <2>2 DEF Owed
  <2>4. t.pc \notin {"response_calls", "tool_reply"}
    BY <1>4 DEF InCall
  <2>5. QED BY <1>3, <2>2, <2>3, <2>4 DEF Follows
<1>5. CASE t.pc \in {"response_calls", "tool_reply"} /\ t.left # 0
  <2>1. u.pc = "tool_call_requested"
    BY <1>1, <1>2, <1>5 DEF NextOwed
  <2>2. u.left = t.left - 1 /\ u.calls = t.calls + 1
    BY <1>1, <2>1 DEF NextOwed
  <2>3. Owed(u) = t.left
    BY <1>1, <2>1, <2>2 DEF Owed, InCall
  <2>4. QED BY <1>3, <1>5, <2>2, <2>3 DEF Follows, Speaking
<1>6. ASSUME t.pc \notin InCall, u.pc # "tool_call_requested"
      PROVE  Owed(u) = 0
  BY <1>1, <1>6 DEF NextOwed, Owed
<1>7. CASE t.pc = "tool_reply" /\ t.left = 0
  <2>1. t.pc \notin InCall /\ u.pc # "tool_call_requested"
    BY <1>1, <1>7 DEF NextOwed, InCall
  <2>2. QED BY <1>3, <1>6, <1>7, <2>1 DEF Follows, Speaking
<1>8. CASE t.pc \notin InCall \cup {"response_calls", "tool_reply"}
  <2>1. u.pc # "tool_call_requested"
    BY <1>1, <1>8 DEF NextOwed
  <2>2. Owed(u) = 0 /\ Owed(t) = 0
    BY <1>6, <1>8, <2>1 DEF Owed
  <2>3. QED BY <1>3, <1>8, <2>2 DEF Follows
<1>9. t.pc = "response_calls" => t.left # 0
  BY DEF Shape
<1>10. QED BY <1>4, <1>5, <1>7, <1>8, <1>9

\* Message e is the one that task t of run r records.
MessageOf(r, t, e) ==
  /\ t.pc \in Speaking
  /\ e \in MessageRows
  /\ e.run = r /\ e.role = RoleOf(t) /\ e.calls = CallsIn(t, RoleOf(t))

\* A transaction of a task appends its message, if it has one.
Utters(r) ==
  /\ session' = session
  /\ \A q \in Runs \ {r} : status'[q] = status[q]
  /\ status'[r] = "absent" => status[r] = "absent"
  /\ status'[r] \in Going => status[r] \in Going
  /\ \/ messages' = messages /\ task[r].pc \notin Speaking
     \/ \E e : /\ messages' = Append(messages, e)
               /\ MessageOf(r, task[r], e)
               /\ e.accepted <=> status'[r] \in Going

\* Every transaction that a task of the runtime commits is one.
LEMMA CommitsUtters ==
  ASSUME TypeOK, Control, NEW r \in Runs, Commits(r)
  PROVE  Utters(r)
<1> DEFINE t == task[r]
           kind == KindOf(t)
           role == RoleOf(t)
           calls == CallsIn(t, role)
           next == StatusAfter(r, kind)
<1>1. Shape(t)
  BY DEF Control
<1>2. Speaking \subseteq Reports
      /\ Speaking \cap (Reading \cup Waiting \cup {"begin_attempt",
                        "end_attempt", "forced_cancel"}) = {}
  BY DEF Speaking, Reports, Recording, Reading, Waiting
<1>3. role = "none" <=> t.pc \notin Speaking
  BY DEF RoleOf, Speaking
<1>4. CASE t.pc \in Reports /\ Recorded(r)
  <2>1. /\ \A q \in Runs \ {r} : status'[q] = status[q]
        /\ status'[r] # "absent"
        /\ status'[r] \in Going => status[r] \in Going
    BY <1>4, RecordedAnswer DEF Going
  <2>2. /\ RecordEvent(r, Logical(kind), role, calls, OwnRun(t))
        /\ Logical(kind).kind = kind
    BY <1>4 DEF Recorded, Logical, Event
  <2>3. session' = session /\ status' = [status EXCEPT ![r] = next]
    BY <2>2 DEF RecordEvent
  <2>4. status'[r] = next
    BY <2>3 DEF TypeOK
  <2>5. CASE role = "none"
    <3>1. messages' = messages
      BY <2>2, <2>5 DEF RecordEvent
    <3>2. QED BY <1>3, <2>1, <2>3, <2>5, <3>1 DEF Utters
  <2>6. CASE role # "none"
    <3>1. PICK seen \in BOOLEAN :
            messages' = Append(messages,
              [run |-> r, role |-> role, calls |-> calls, observed |-> seen,
               accepted |-> Accepts(next)])
      <4> DEFINE seen == Accepts(next)
                         /\ KindWritten(r, kind) = "tool_execution_completed"
      <4>1. messages' = Append(messages,
              [run |-> r, role |-> role, calls |-> calls, observed |-> seen,
               accepted |-> Accepts(next)])
        BY <2>2, <2>6 DEF RecordEvent
      <4>2. seen \in BOOLEAN
        OBVIOUS
      <4> HIDE DEF seen, calls, role, kind, next
      <4>3. QED BY <4>1, <4>2
    <3>2. PICK yes \in BOOLEAN : yes = Accepts(next)
      <4>1. Accepts(next) \in BOOLEAN
        BY DEF Accepts
      <4>2. QED BY <4>1, Zenon
    <3>3. yes <=> next \in Going
      BY <3>2 DEF Accepts, Active, Going
    <3>4. role \in Roles
      BY <2>6 DEF RoleOf, Roles
    <3>5. calls \in SUBSET Executions
      BY <1>1, CallsRecorded DEF CallsOf, RoleOf
    <3> DEFINE e == [run |-> r, role |-> role, calls |-> calls,
                     observed |-> seen, accepted |-> yes]
    <3> HIDE DEF role, calls, next, kind
    <3>6. e \in MessageRows
      BY <3>4, <3>5 DEF MessageRows
    <3>7. /\ e.run = r /\ e.role = role /\ e.calls = calls
          /\ e.accepted <=> status'[r] \in Going
      BY <2>4, <3>3
    <3>8. messages' = Append(messages, e)
      BY <3>1, <3>2
    <3> HIDE DEF e
    <3>9. MessageOf(r, t, e)
      BY <1>3, <2>6, <3>6, <3>7 DEF MessageOf, role, calls
    <3>10. QED BY <2>1, <2>3, <3>7, <3>8, <3>9 DEF Utters
  <2>7. QED BY <2>5, <2>6
<1>5. CASE ~(t.pc \in Reports /\ Recorded(r))
  <2>1. t.pc \notin Speaking
    BY <1>2, <1>5 DEF Commits
  <2>2. CASE UNCHANGED <<dbVars, snapshot>> \/ Begun(r)
             \/ EndAttempt(t.row, t.code, t.unknown)
    BY <2>1, <2>2 DEF Utters, dbVars, Begun, BeginAttempt, EndAttempt
  <2>3. CASE CancelRun(r)
    BY <2>1, <2>3 DEF Utters, CancelRun, TypeOK, Going
  <2>4. QED BY <1>5, <2>2, <2>3 DEF Commits
<1>6. QED BY <1>4, <1>5

\* A step of task r: a message it records at the point it leaves, or nothing.
Talks(r) ==
  /\ session' = session
  /\ \A q \in Runs \ {r} : task'[q] = task[q] /\ status'[q] = status[q]
  /\ status[r] # "absent" /\ status'[r] # "absent"
  /\ status'[r] \in Going => status[r] \in Going
  /\ task'[r].pc \in InTalk => Follows(task[r], task'[r])
  /\ \/ /\ messages' = messages
        /\ task'[r].pc \in InTalk => task[r].pc \notin Speaking
     \/ \E e : /\ messages' = Append(messages, e)
               /\ MessageOf(r, task[r], e)
               /\ e.accepted <=> status'[r] \in Going

\* Every step of a task is one, also one that raises or is interrupted.
LEMMA TaskTalks ==
  ASSUME TypeOK, Control, UsageOK, NEW r \in Runs, TaskStep(r)
  PROVE  Talks(r)
<1> DEFINE t == task[r]
<1>1. Shape(t) /\ t.pc \in Live \cup Over
  BY TaskStepPoint DEF Control
<1>2. status[r] # "absent"
  <2>1. t.pc # "absent"
    BY <1>1 DEF Live, Over, Reading, Recording, Waiting, Forced
  <2>2. QED BY <2>1 DEF UsageOK, RowMatches
<1>3. ASSUME NEW u, Advances(r, u) PROVE Talks(r)
  <2>1. Utters(r)
    BY <1>3, CommitsUtters DEF Advances
  <2>2. task'[r] = u /\ \A q \in Runs \ {r} : task'[q] = task[q]
    BY <1>3 DEF Advances, Becomes, Control
  <2>3. t.pc \in Live /\ Leads(r, t, u)
    BY <1>3 DEF Advances, Commits, Live, Reports, Forced, Recording
  <2>4. u.pc \in InTalk => Follows(t, u)
    BY <1>1, <2>3, LeadsFollows
  <2>5. QED BY <1>2, <2>1, <2>2, <2>4 DEF Talks, Utters
<1>4. ASSUME Commits(r) \/ UNCHANGED <<dbVars, snapshot>>,
             NEW u, task' = [task EXCEPT ![r] = u], u.pc \notin InTalk
      PROVE  Talks(r)
  <2>1. task'[r] = u /\ \A q \in Runs \ {r} : task'[q] = task[q]
    BY <1>4 DEF Control
  <2>2. CASE Commits(r)
    <3>1. Utters(r)
      BY <2>2, CommitsUtters
    <3>2. QED BY <1>2, <1>4, <2>1, <3>1 DEF Talks, Utters
  <2>3. CASE UNCHANGED <<dbVars, snapshot>>
    BY <1>2, <1>4, <2>1, <2>3 DEF Talks, dbVars
  <2>4. QED BY <1>4, <2>2, <2>3
<1>5. InTalk \cap {"raised", "done"} = {}
  BY DEF InTalk, Reading, InHarness, Recording, Waiting
<1>6. ASSUME Raises(r) PROVE Talks(r)
  <2>1. task' = [task EXCEPT ![r] = At(t, "raised")]
        /\ At(t, "raised").pc = "raised"
    BY <1>1, <1>6, GoesTo DEF Raises, Becomes
  <2>2. Commits(r) \/ UNCHANGED <<dbVars, snapshot>>
    BY <1>6 DEF Raises
  <2>3. QED BY <1>4, <1>5, <2>1, <2>2
<1>7. ASSUME Interrupts(r) PROVE Talks(r)
  <2>1. task' = [task EXCEPT ![r] = Unwound(t)]
        /\ Unwound(t).pc \notin Reading \cup InHarness
    BY <1>1, <1>7, UnwoundFields DEF Interrupts, Becomes
  <2>2. Commits(r) \/ UNCHANGED <<dbVars, snapshot>>
    BY <1>7 DEF Interrupts
  <2>3. QED BY <1>4, <2>1, <2>2 DEF InTalk
<1>8. ASSUME Observe(r) PROVE Talks(r)
  <2>1. task' = [task EXCEPT ![r] = At(NoTask, "done")]
        /\ At(NoTask, "done").pc = "done"
    BY <1>8, DoneFields DEF Observe
  <2>2. UNCHANGED <<dbVars, snapshot>>
    BY <1>8 DEF Observe, storeVars, dbVars
  <2>3. QED BY <1>4, <1>5, <2>1, <2>2
<1>9. QED BY <1>3, <1>6, <1>7, <1>8 DEF TaskStep

\* The message that begins a run.
UserRow(r) == [run |-> r, role |-> "user", calls |-> {}, observed |-> FALSE,
               accepted |-> TRUE]

\* A run begins: its row, its session, the request of the user, and its task
\* unless the acknowledgement was lost.
Asks(r) ==
  /\ status[r] = "absent" /\ status' = [status EXCEPT ![r] = "queued"]
  /\ \E s \in Sessions : session' = [session EXCEPT ![r] = s]
  /\ messages' = Append(messages, UserRow(r))
  /\ task' = task \/ task' = [task EXCEPT ![r] = NewTask]

\* Nothing is said, and no task enters the conversation.
Hushed ==
  /\ messages' = messages /\ session' = session
  /\ \A q \in Runs :
       /\ task'[q] = task[q] \/ task'[q].pc \notin InTalk
       /\ status'[q] = "absent" => status[q] = "absent"
       /\ status'[q] \in Going => status[q] \in Going

\* Whatever the service does, a task speaks, a run begins, or nothing is said.
LEMMA StepTalks ==
  ASSUME Base, [Next]_vars
  PROVE  Hushed \/ \E r \in Runs : Talks(r) \/ Asks(r)
<1> USE DEF Base
<1>1. ASSUME NEW r \in Runs, RunTask(r) PROVE Talks(r)
  BY <1>1, RunTaskStep, TaskTalks
<1>2. ASSUME UNCHANGED <<messages, session, status, task>> PROVE Hushed
  BY <1>2 DEF Hushed
<1>3. ASSUME \/ \E s \in Sessions : Submit(s)
             \/ SubmitGetSession \/ SubmitGetTaskState \/ SubmitConflict
             \/ SubmitFails
             \/ \E r \in Runs : RequestCancel(r)
             \/ ShutdownBegins \/ ShutdownForces \/ ShutdownEnds
             \/ \E a \in DOMAIN attempts : Reconcile(a)
             \/ UNCHANGED vars
      PROVE  Hushed
  <2>1. UNCHANGED <<messages, session, status, task>>
    BY <1>3
    DEF Submit, SubmitGetSession, SubmitGetTaskState, GetTaskState,
        SubmitConflict, SubmitFails, RequestCancel, ShutdownBegins,
        ShutdownForces, ShutdownEnds, Reconcile, ResolveAttempt, vars,
        storeVars, dbVars, taskVars
  <2>2. QED BY <1>2, <2>1
<1>4. ASSUME NEW r \in Runs, SubmitCreate(r) PROVE Asks(r)
  <2>1. /\ sub.session \in Sessions /\ CreateRun(r, sub.session)
        /\ task' = task \/ task' = [task EXCEPT ![r] = NewTask]
    BY <1>4 DEF SubmitCreate, SubmitTurn, Control
  <2>2. QED BY <2>1 DEF CreateRun, Asks, UserRow
<1>5. ASSUME NEW r \in Runs, CancelCommits(r) \/ CancelFails, task' = task
      PROVE  Hushed
  BY <1>5 DEF CancelCommits, CancelRun, CancelFails, dbVars, TypeOK, Hushed, Going
<1>6. ASSUME NEW r \in Runs, CancelAnswered(r) PROVE Hushed
  BY <1>5, <1>6 DEF CancelAnswered
<1>7. ASSUME ShutdownCancels PROVE Hushed
  BY <1>5, <1>7 DEF ShutdownCancels, Control
<1>8. ASSUME ProcessEnds PROVE Hushed
  <2>1. /\ UNCHANGED <<messages, session, status>>
        /\ \A q \in Runs : task'[q].pc = "absent"
    BY <1>8, DoneFields DEF ProcessEnds, dbVars
  <2>2. "absent" \notin InTalk
    BY DEF InTalk, Reading, InHarness, Recording, Waiting
  <2>3. QED BY <2>1, <2>2 DEF Hushed
<1>9. ASSUME Start PROVE Hushed
  <2>1. /\ messages' = messages /\ session' = session /\ task' = task
        /\ \A q \in Runs : status'[q] = IF status[q] \in Active
                                        THEN RecoveredStatus(status[q])
                                        ELSE status[q]
    BY <1>9 DEF Start, Recover, taskVars
  <2>2. QED BY <2>1 DEF Hushed, RecoveredStatus, Active, Going
<1>10. QED
  BY <1>1, <1>3, <1>4, <1>6, <1>7, <1>8, <1>9 DEF Next, Submission, Shutdown

-----------------------------------------------------------------------------
(* A run in conversation is well formed with the replies it owes *)

\* What the message of a task is.
LEMMA MessageFields ==
  ASSUME NEW r, NEW t, Shape(t), NEW e, MessageOf(r, t, e)
  PROVE  /\ e \in MessageRows /\ e.run = r /\ e.role # "user" /\ CallsNamed(e)
         /\ t.calls \in Nat /\ t.left \in Nat
         /\ t.pc = "response_calls" =>
              e.role = "calls" /\ e.calls = t.calls + 1 .. t.calls + t.left
         /\ t.pc = "tool_reply" <=> e.role = "tool"
         /\ t.pc = "tool_reply" => e.calls = {t.calls} /\ t.calls # 0
         /\ t.pc = "response_calls" <=> e.role = "calls"
         /\ t.pc = "response_final" <=> e.role = "final"
<1>1. t.calls \in Nat /\ t.left \in Nat
  BY LimitsAssumption DEF Shape, Tasks
<1>2. /\ t.pc \in Speaking /\ e \in MessageRows /\ e.run = r
      /\ e.role = RoleOf(t) /\ e.calls = CallsIn(t, RoleOf(t))
  BY DEF MessageOf
<1>3. CASE t.pc = "response_calls"
  BY <1>1, <1>2, <1>3 DEF RoleOf, CallsIn, CallsNamed
<1>4. CASE t.pc = "tool_reply"
  BY <1>1, <1>2, <1>4 DEF RoleOf, CallsIn, CallsNamed, Shape
<1>5. CASE t.pc = "response_final"
  BY <1>1, <1>2, <1>5 DEF RoleOf, CallsIn, CallsNamed
<1>6. QED BY <1>2, <1>3, <1>4, <1>5 DEF Speaking

\* Messages belong to runs that exist, and name the calls they should.
Named ==
  \A m \in DOMAIN messages :
    status[messages[m].run] # "absent" /\ CallsNamed(messages[m])

\* What run r said, and the replies its task owes behind that.
Spoken(table, r) ==
  {m \in DOMAIN table : table[m].run = r /\ table[m].role # "user"}
Debt(r, t) == IF Owed(t) = 0 THEN <<>> ELSE Replies(r, t.calls - 1, Owed(t))
Talk(table, r, t) == Lines(table, Spoken(table, r)) \o Debt(r, t)

\* Every prefix of a conversation is on its way to be well formed.
Conversation ==
  \A r \in Runs :
    task[r].pc \in InTalk => WellFormed(Talk(messages, r, task[r]))

\* Every table names calls only as it should.
AllNamed(table) == \A m \in DOMAIN table : CallsNamed(table[m])

\* What a run said after one more message.
LEMMA SpokenAppended ==
  ASSUME NEW table \in Seq(MessageRows), AllNamed(table),
         NEW e \in MessageRows, CallsNamed(e), NEW r
  PROVE  /\ Lines(table, Spoken(table, r)) \in Seq(Texts(Runs))
         /\ Append(table, e) \in Seq(MessageRows) /\ AllNamed(Append(table, e))
         /\ Lines(Append(table, e), Spoken(Append(table, e), r)) =
              IF e.run = r /\ e.role # "user"
              THEN Append(Lines(table, Spoken(table, r)), Line(e))
              ELSE Lines(table, Spoken(table, r))
<1> DEFINE S == Spoken(table, r)
           after == Append(table, e)
           new == Len(table) + 1
<1>1. /\ DOMAIN table = 1 .. Len(table) /\ Len(table) \in Nat
      /\ after \in Seq(MessageRows) /\ DOMAIN after = 1 .. Len(table) + 1
      /\ \A m \in 1 .. Len(table) : after[m] = table[m]
      /\ after[new] = e
  BY LenProperties, AppendFacts
<1>2. 1 .. Len(table) + 1 = (1 .. Len(table)) \cup {new}
      /\ new \notin 1 .. Len(table)
  BY <1>1
<1>3. S \in SUBSET (DOMAIN table)
  BY DEF Spoken
<1> HIDE DEF after, new
<1>4. Spoken(after, r) = IF e.run = r /\ e.role # "user"
                         THEN S \cup {new} ELSE S
  BY <1>1, <1>2 DEF Spoken
<1>5. AllNamed(after)
  BY <1>1, <1>2 DEF AllNamed
<1> HIDE DEF S
<1>6. /\ Lines(after, S) = Lines(table, S)
      /\ Lines(after, S \cup {new}) = Append(Lines(table, S), Line(e))
  BY <1>3, LinesAppended DEF AllNamed, after, new
<1>7. Lines(table, S) \in Seq(Texts(Runs))
  BY <1>3, LinesInOrder DEF AllNamed
<1>8. QED BY <1>1, <1>4, <1>5, <1>6, <1>7 DEF S, after

\* The debt is a transcript.
LEMMA DebtTyped ==
  ASSUME NEW r \in Runs, NEW t, Shape(t)
  PROVE  /\ Owed(t) \in Nat /\ Debt(r, t) \in Seq(Texts(Runs))
         /\ Owed(t) # 0 => t.calls \in Nat /\ t.calls - 1 \in Nat
         /\ t.pc \notin InCall \cup {"tool_reply"} => Owed(t) = 0
<1>1. t.left \in Nat /\ t.calls \in Nat
  BY LimitsAssumption DEF Shape, Tasks
<1>2. Owed(t) \in Nat
  BY <1>1 DEF Owed
<1>3. Owed(t) # 0 => t.calls # 0
  BY DEF Owed, Shape
<1>4. Owed(t) # 0 => t.calls - 1 \in Nat
  BY <1>1, <1>3
<1>5. CASE Owed(t) = 0
  BY <1>1, <1>5, EmptySeq DEF Debt, Owed
<1>6. CASE Owed(t) # 0
  <2>1. Replies(r, t.calls - 1, Owed(t)) \in Seq(Texts(Runs))
    BY <1>2, <1>4, <1>6, RepliesFields
  <2>2. QED BY <1>1, <1>2, <1>4, <1>6, <2>1 DEF Debt, Owed
<1>7. QED BY <1>5, <1>6

\* The debt of a task that goes on from a response with n calls, or from a
\* reply with n calls behind it.
LEMMA DebtTaken ==
  ASSUME NEW r \in Runs, NEW u, NEW c \in Nat, NEW n \in Nat,
         Owed(u) = n, n # 0 => u.calls = c + 1
  PROVE  Debt(r, u) = Replies(r, c, n)
<1>1. CASE n = 0
  <2>1. Len(Replies(r, c, n)) = 0 /\ Replies(r, c, n) \in Seq(Texts(Runs))
    BY <1>1, RepliesFields
  <2>2. Replies(r, c, n) = <<>>
    BY <2>1, EmptySeq
  <2>3. QED BY <1>1, <2>2 DEF Debt
<1>2. CASE n # 0
  <2>1. u.calls - 1 = c
    BY <1>2
  <2>2. QED BY <1>2, <2>1 DEF Debt
<1>3. QED BY <1>1, <1>2

\* A message in front of what is owed behind it.
LEMMA AppendJoined ==
  ASSUME NEW S, NEW x \in Seq(S), NEW e \in S, NEW y \in Seq(S)
  PROVE  Append(x, e) \o y = x \o (<<e>> \o y)
<1>m. PICK m \in Nat : m = Len(x)
  BY LenProperties
<1>n. PICK n \in Nat : n = Len(y)
  BY LenProperties
<1>z. PICK z \in Seq(S) : z = <<e>> /\ Len(z) = 1 /\ z[1] = e
  BY OneMessage
<1>v. PICK v \in Seq(S) : /\ v = Append(x, e) /\ Len(v) = m + 1
                          /\ v[m + 1] = e /\ \A i \in 1 .. m : v[i] = x[i]
  <2>1. /\ Append(x, e) \in Seq(S) /\ Len(Append(x, e)) = m + 1
        /\ Append(x, e)[m + 1] = e
        /\ \A i \in 1 .. m : Append(x, e)[i] = x[i]
    BY <1>m, AppendFacts
  <2>2. QED BY <2>1
<1>2. /\ z \o y \in Seq(S) /\ Len(z \o y) = 1 + n
      /\ \A i \in 1 .. 1 + n : (z \o y)[i] = IF i <= 1 THEN z[i] ELSE y[i - 1]
  <2>1. 1 \in Nat /\ Len(z) = 1 /\ Len(y) = n
    BY <1>n, <1>z
  <2>2. Joins(S, z, y, 1, n)
    BY <2>1, Joined
  <2>3. QED BY <2>2 DEF Joins
<1>3. PICK w \in Seq(S) :
        /\ w = z \o y /\ Len(w) = 1 + n /\ w[1] = e
        /\ \A i \in 2 .. 1 + n : w[i] = y[i - 1]
  <2>1. \A i \in 2 .. 1 + n : ~(i <= 1) /\ i \in 1 .. 1 + n
    OBVIOUS
  <2>2. 1 \in 1 .. 1 + n
    OBVIOUS
  <2>3. PICK w \in Seq(S) : w = z \o y
    BY <1>2
  <2>4. /\ Len(w) = 1 + n
        /\ \A i \in 1 .. 1 + n : w[i] = IF i <= 1 THEN z[i] ELSE y[i - 1]
    BY <1>2, <2>3
  <2>5. w[1] = e
    BY <1>z, <2>2, <2>4
  <2>6. \A i \in 2 .. 1 + n : w[i] = y[i - 1]
    BY <2>1, <2>4
  <2>7. QED BY <2>3, <2>4, <2>5, <2>6
<1>4. /\ v \o y \in Seq(S) /\ Len(v \o y) = m + 1 + n
      /\ \A i \in 1 .. m + 1 + n :
           (v \o y)[i] = IF i <= m + 1 THEN v[i] ELSE y[i - (m + 1)]
  <2>1. PICK k \in Nat : k = m + 1
    OBVIOUS
  <2>2. Len(v) = k /\ Len(y) = n /\ v \in Seq(S) /\ y \in Seq(S)
        /\ k \in Nat /\ n \in Nat
    BY <1>v, <1>n, <2>1
  <2>3. Joins(S, v, y, k, n)
    BY <2>2, Joined
  <2>4. QED BY <2>1, <2>3 DEF Joins
<1>5. /\ x \o w \in Seq(S) /\ Len(x \o w) = m + (1 + n)
      /\ \A i \in 1 .. m + (1 + n) :
           (x \o w)[i] = IF i <= m THEN x[i] ELSE w[i - m]
  <2>1. PICK k \in Nat : k = 1 + n
    OBVIOUS
  <2>2. Len(x) = m /\ Len(w) = k /\ x \in Seq(S) /\ w \in Seq(S)
        /\ m \in Nat /\ k \in Nat
    BY <1>m, <1>3, <2>1
  <2>3. Joins(S, x, w, m, k)
    BY <2>2, Joined
  <2>4. QED BY <2>1, <2>3 DEF Joins
<1>6. m + 1 + n = m + (1 + n)
  OBVIOUS
<1>7. ASSUME NEW i \in 1 .. m + 1 + n PROVE (v \o y)[i] = (x \o w)[i]
  <2>1. CASE i <= m
    <3>1. i \in 1 .. m /\ i <= m + 1
      BY <2>1
    <3>2. QED BY <1>v, <1>4, <1>5, <1>6, <2>1, <3>1
  <2>2. CASE i = m + 1
    <3>1. ~(i <= m) /\ i <= m + 1 /\ i - m = 1
      BY <2>2
    <3>2. QED BY <1>v, <1>3, <1>4, <1>5, <1>6, <2>2, <3>1
  <2>3. CASE i > m + 1
    <3>1. /\ ~(i <= m) /\ ~(i <= m + 1) /\ i - m \in 2 .. 1 + n
          /\ (i - m) - 1 = i - (m + 1)
      BY <2>3
    <3>2. (x \o w)[i] = w[i - m] /\ w[i - m] = y[(i - m) - 1]
      BY <1>3, <1>5, <1>6, <3>1
    <3>3. QED BY <1>4, <3>1, <3>2
  <2>4. i <= m \/ i = m + 1 \/ i > m + 1
    OBVIOUS
  <2>5. QED BY <2>1, <2>2, <2>3, <2>4
<1>8. v \o y = x \o w
  BY <1>4, <1>5, <1>6, <1>7, SeqEqual
<1>9. QED BY <1>z, <1>v, <1>3, <1>8

\* A step keeps messages named.
LEMMA StepNamed ==
  ASSUME Base, Named, [Next]_vars
  PROVE  Named'
<1>1. messages \in Seq(MessageRows) /\ DOMAIN messages = 1 .. Len(messages)
      /\ \A m \in DOMAIN messages : messages[m].run \in Runs
  <2>1. messages \in Seq(MessageRows)
    BY DEF Base, TypeOK
  <2>2. DOMAIN messages = 1 .. Len(messages)
    BY <2>1, LenProperties
  <2>3. \A m \in 1 .. Len(messages) : messages[m] \in MessageRows
    BY <2>1, ElementOfSeq
  <2>4. QED BY <2>1, <2>2, <2>3 DEF MessageRows
<1>2. CASE Hushed
  BY <1>1, <1>2 DEF Hushed, Named
<1>3. ASSUME NEW e \in MessageRows, messages' = Append(messages, e),
             CallsNamed(e), status'[e.run] # "absent",
             \A q \in Runs : status[q] # "absent" => status'[q] # "absent"
      PROVE  Named'
  <2>1. /\ DOMAIN messages' = 1 .. Len(messages) + 1 /\ Len(messages) \in Nat
        /\ \A m \in 1 .. Len(messages) : messages'[m] = messages[m]
        /\ messages'[Len(messages) + 1] = e
    BY <1>1, <1>3, AppendFacts, LenProperties
  <2>2. ASSUME NEW m \in DOMAIN messages'
        PROVE  status'[messages'[m].run] # "absent" /\ CallsNamed(messages'[m])
    <3>1. CASE m = Len(messages) + 1
      BY <1>3, <2>1, <3>1
    <3>2. CASE m # Len(messages) + 1
      <4>1. m \in DOMAIN messages /\ messages'[m] = messages[m]
        BY <1>1, <2>1, <3>2
      <4>2. messages[m].run \in Runs /\ status[messages[m].run] # "absent"
            /\ CallsNamed(messages[m])
        BY <1>1, <4>1 DEF Named
      <4>3. QED BY <1>3, <4>1, <4>2
    <3>3. QED BY <3>1, <3>2
  <2>3. QED BY <2>2 DEF Named, CallsNamed
<1>4. ASSUME NEW r \in Runs, Talks(r) PROVE Named'
  <2>1. Shape(task[r])
    BY DEF Base, Control
  <2>2. \A q \in Runs : status[q] # "absent" => status'[q] # "absent"
    BY <1>4 DEF Talks
  <2>3. CASE messages' = messages
    BY <1>1, <2>2, <2>3 DEF Named
  <2>4. ASSUME NEW e, messages' = Append(messages, e), MessageOf(r, task[r], e)
        PROVE  Named'
    <3>1. e \in MessageRows /\ e.run = r /\ CallsNamed(e)
      BY <2>1, <2>4, MessageFields DEF MessageOf
    <3>2. status'[r] # "absent"
      BY <1>4 DEF Talks
    <3>3. QED BY <1>3, <2>2, <2>4, <3>1, <3>2
  <2>5. QED BY <1>4, <2>3, <2>4 DEF Talks
<1>5. ASSUME NEW r \in Runs, Asks(r) PROVE Named'
  <2>1. /\ UserRow(r) \in MessageRows /\ UserRow(r).run = r
        /\ CallsNamed(UserRow(r))
    BY DEF UserRow, MessageRows, Roles, CallsNamed
  <2>2. /\ status'[r] # "absent"
        /\ \A q \in Runs : status[q] # "absent" => status'[q] # "absent"
    BY <1>5 DEF Asks, Base, TypeOK
  <2>3. QED BY <1>3, <1>5, <2>1, <2>2 DEF Asks
<1>6. QED BY <1>2, <1>4, <1>5, StepTalks

\* The message of another run leaves the conversation of a run as it is, and so
\* does the request of a user.
LEMMA TalkKept ==
  ASSUME TypeOK, Named, NEW r, NEW e \in MessageRows, CallsNamed(e),
         e.run # r \/ e.role = "user"
  PROVE  \A t : Talk(Append(messages, e), r, t) = Talk(messages, r, t)
<1>1. messages \in Seq(MessageRows) /\ AllNamed(messages)
  BY DEF TypeOK, Named, AllNamed
<1>2. Lines(Append(messages, e), Spoken(Append(messages, e), r))
        = Lines(messages, Spoken(messages, r))
  BY <1>1, SpokenAppended
<1>3. QED BY <1>2 DEF Talk

\* A task that begins has said nothing and owes nothing.
LEMMA TalkBegins ==
  ASSUME TypeOK, Named, NEW r, status[r] = "absent"
  PROVE  WellFormed(Talk(messages, r, NewTask))
<1>1. Spoken(messages, r) = {}
  BY DEF Spoken, Named
<1>2. Owed(NewTask) = 0
  BY DoneFields DEF Owed, InCall
<1>3. messages \in Seq(MessageRows) /\ {} \in SUBSET (DOMAIN messages)
      /\ \A m \in DOMAIN messages : CallsNamed(messages[m])
  BY DEF TypeOK, Named
<1>4. Lines(messages, {}) \in Seq(Texts(Runs)) /\ Len(Lines(messages, {})) = 0
  BY <1>3, LinesInOrder, FS_EmptySet
<1>5. Lines(messages, {}) = <<>>
  BY <1>4, EmptySeq
<1>6. Debt(r, NewTask) = <<>>
  BY <1>2 DEF Debt
<1>7. Talk(messages, r, NewTask) = <<>> \o <<>>
  BY <1>1, <1>5, <1>6 DEF Talk
<1>8. <<>> \o <<>> = <<>>
  OBVIOUS
<1>9. QED BY <1>7, <1>8, NothingWellFormed

\* A task that records its message stays on the way to be well formed.
LEMMA TalkSpoken ==
  ASSUME TypeOK, Named, NEW r \in Runs, NEW t, Shape(t), NEW u, Follows(t, u),
         NEW e, MessageOf(r, t, e), WellFormed(Talk(messages, r, t))
  PROVE  WellFormed(Talk(Append(messages, e), r, u))
<1>1. /\ e \in MessageRows /\ e.run = r /\ e.role # "user" /\ CallsNamed(e)
      /\ t.calls \in Nat /\ t.left \in Nat
      /\ t.pc = "response_calls" =>
           e.role = "calls" /\ e.calls = t.calls + 1 .. t.calls + t.left
      /\ t.pc = "tool_reply" <=> e.role = "tool"
      /\ t.pc = "tool_reply" => e.calls = {t.calls} /\ t.calls # 0
  BY MessageFields
<1>2. messages \in Seq(MessageRows) /\ AllNamed(messages)
  BY DEF TypeOK, Named, AllNamed
<1>3. PICK x \in Seq(Texts(Runs)) : x = Lines(messages, Spoken(messages, r))
  BY <1>1, <1>2, SpokenAppended
<1>4. Lines(Append(messages, e), Spoken(Append(messages, e), r))
        = Append(x, Line(e))
  BY <1>1, <1>2, <1>3, SpokenAppended
<1>5. PICK f \in Texts(Runs) : f = Line(e)
  BY <1>1, LineTyped
<1>6. f.role = e.role /\ f.calls = e.calls
  BY <1>5 DEF Line
<1>7. PICK y \in Seq(Texts(Runs)) : y = Replies(r, t.calls, t.left)
  BY <1>1, RepliesFields
<1>8. t.pc \in {"response_calls", "tool_reply"}
      /\ Owed(u) = t.left /\ (t.left # 0 => u.calls = t.calls + 1)
  BY DEF MessageOf, Speaking, Follows
<1>9. Debt(r, u) = y
  BY <1>1, <1>7, <1>8, DebtTaken
<1>10. Talk(Append(messages, e), r, u) = x \o (<<f>> \o y)
  <2>1. Talk(Append(messages, e), r, u) = Append(x, f) \o y
    BY <1>4, <1>5, <1>9 DEF Talk
  <2>2. QED BY <2>1, AppendJoined
<1>11. Talk(messages, r, t) = x \o Debt(r, t)
  BY <1>3 DEF Talk
<1>12. CASE t.pc = "response_calls"
  <2>1. Debt(r, t) = <<>>
    BY <1>12 DEF Debt, Owed, InCall
  <2>2. WellFormed(x)
    BY <1>11, <2>1
  <2>3. <<f>> \o y \in Seq(Texts(Runs)) /\ WellFormed(<<f>> \o y)
    BY <1>1, <1>6, <1>7, <1>12, AnnouncedWellFormed
  <2>4. QED BY <1>10, <2>2, <2>3, JoinedWellFormed
<1>13. CASE t.pc = "tool_reply"
  <2>1. Owed(t) = t.left + 1
    BY <1>13 DEF Owed
  <2>2. PICK c \in Nat : t.calls = c + 1
    <3>1. t.calls - 1 \in Nat /\ t.calls = (t.calls - 1) + 1
      BY <1>1, <1>13
    <3>2. QED BY <3>1
  <2>3. PICK n \in Nat : n = t.left + 1 /\ n # 0 /\ n - 1 = t.left
    BY <1>1
  <2>4. Debt(r, t) = Replies(r, c, n)
    BY <2>1, <2>2, <2>3 DEF Debt
  <2>5. Replies(r, c, n) = <<ToolReply(r, c + 1)>> \o Replies(r, c + 1, n - 1)
    BY <2>3, RepliesFields
  <2>6. f = ToolReply(r, c + 1)
    BY <1>1, <1>5, <1>13, <2>2 DEF Line, ToolReply
  <2>7. Debt(r, t) = <<f>> \o y
    BY <1>7, <2>2, <2>3, <2>4, <2>5, <2>6
  <2>8. QED BY <1>10, <1>11, <2>7
<1>14. QED BY <1>8, <1>12, <1>13

\* Every step keeps conversations on the way to be well formed.
LEMMA StepConversation ==
  ASSUME Base, Named, Conversation, [Next]_vars
  PROVE  Conversation'
<1> SUFFICES ASSUME NEW r \in Runs, task'[r].pc \in InTalk
             PROVE  WellFormed(Talk(messages', r, task'[r]))
  BY DEF Conversation, Talk, Spoken, Lines, Line
<1>1. CASE Hushed
  <2>1. messages' = messages /\ task'[r] = task[r]
    BY <1>1 DEF Hushed
  <2>2. QED BY <2>1 DEF Conversation
<1>2. ASSUME NEW q \in Runs, Asks(q)
      PROVE  WellFormed(Talk(messages', r, task'[r]))
  <2>1. /\ UserRow(q) \in MessageRows /\ UserRow(q).role = "user"
        /\ CallsNamed(UserRow(q))
    BY DEF UserRow, MessageRows, Roles, CallsNamed
  <2>2. \A t : Talk(messages', r, t) = Talk(messages, r, t)
    BY <1>2, <2>1, TalkKept DEF Asks, Base
  <2>3. CASE task'[r] = task[r]
    BY <2>2, <2>3 DEF Conversation
  <2>4. CASE task'[r] # task[r]
    <3>1. r = q /\ task'[r] = NewTask /\ status[r] = "absent"
      BY <1>2, <2>4 DEF Asks, Base, Control
    <3>2. QED BY <2>2, <3>1, TalkBegins DEF Base
  <2>5. QED BY <2>3, <2>4
<1>3. ASSUME NEW q \in Runs, Talks(q)
      PROVE  WellFormed(Talk(messages', r, task'[r]))
  <2>1. Shape(task[q]) /\ TypeOK
    BY DEF Base, Control
  <2>2. CASE q # r
    <3>1. task'[r] = task[r]
      BY <1>3, <2>2 DEF Talks
    <3>2. CASE messages' = messages
      BY <3>1, <3>2 DEF Conversation
    <3>3. ASSUME NEW e, messages' = Append(messages, e),
                 MessageOf(q, task[q], e)
          PROVE  WellFormed(Talk(messages', r, task'[r]))
      <4>1. e \in MessageRows /\ e.run = q /\ CallsNamed(e)
        BY <2>1, <3>3, MessageFields DEF MessageOf
      <4>2. Talk(messages', r, task[r]) = Talk(messages, r, task[r])
        BY <2>1, <2>2, <3>3, <4>1, TalkKept
      <4>3. QED BY <3>1, <4>2 DEF Conversation
    <3>4. QED BY <1>3, <3>2, <3>3 DEF Talks
  <2>3. CASE q = r
    <3>1. Follows(task[r], task'[r])
      BY <1>3, <2>3 DEF Talks
    <3>2. WellFormed(Talk(messages, r, task[r]))
      BY <3>1 DEF Follows, Conversation
    <3>3. CASE messages' = messages /\ task[r].pc \notin Speaking
      <4>1. Owed(task'[r]) = Owed(task[r])
            /\ (Owed(task[r]) # 0 => task'[r].calls = task[r].calls)
        BY <3>1, <3>3 DEF Follows
      <4>2. Debt(r, task'[r]) = Debt(r, task[r])
        BY <4>1 DEF Debt
      <4>3. QED BY <3>2, <3>3, <4>2 DEF Talk
    <3>4. ASSUME NEW e, messages' = Append(messages, e),
                 MessageOf(r, task[r], e)
          PROVE  WellFormed(Talk(messages', r, task'[r]))
      BY <2>1, <2>3, <3>1, <3>2, <3>4, TalkSpoken
    <3>5. QED BY <1>3, <2>3, <3>3, <3>4 DEF Talks
  <2>4. QED BY <2>2, <2>3
<1>4. QED BY <1>1, <1>2, <1>3, StepTalks

\* No message, and no task.
LEMMA InitTalks == Init => Named /\ Conversation
<1> SUFFICES ASSUME Init PROVE Named /\ Conversation
  OBVIOUS
<1>1. messages = <<>> /\ \A r \in Runs : task[r].pc = "absent"
  BY DoneFields DEF Init, StoreInit
<1>2. "absent" \notin InTalk
  BY DEF InTalk, Reading, InHarness, Recording, Waiting
<1>3. QED BY <1>1, <1>2 DEF Named, Conversation

\* Every message names the calls it should, and what a run in conversation has
\* recorded is well formed as soon as the replies it owes are behind it.
THEOREM ConversationsHold == Spec => [](Named /\ Conversation)
<1>1. Base /\ (Named /\ Conversation) /\ [Next]_vars => (Named /\ Conversation)'
  BY StepNamed, StepConversation
<1>2. QED BY <1>1, InitTalks, BaseHolds, PTL DEF Spec

-----------------------------------------------------------------------------
(* The context of a request *)

\* What is read from the table is a transcript.
LEMMA EntriesTyped ==
  ASSUME TypeOK, Named, NEW S \in SUBSET (DOMAIN messages)
  PROVE  Entries(S) \in Seq(Texts(Runs))
<1>1. messages \in Seq(MessageRows)
      /\ \A m \in DOMAIN messages : CallsNamed(messages[m])
  BY DEF TypeOK, Named
<1>2. Entries(S) = Lines(messages, S)
  BY EntriesAreLines
<1>3. QED BY <1>1, <1>2, LinesInOrder

\* A task that is about to ask the model owes no reply: what its run said is
\* well formed.
LEMMA OwnWellFormed ==
  ASSUME Base, Named, Conversation,
         NEW r \in Runs, task[r].pc = "model_request_started"
  PROVE  Own(r) \in Seq(Texts(Runs)) /\ WellFormed(Own(r))
<1>1. TypeOK
  BY DEF Base
<1>2. Own(r) = Entries(Spoken(messages, r))
  BY DEF Own, Spoken
<1>3. Spoken(messages, r) \in SUBSET (DOMAIN messages)
  BY DEF Spoken
<1>4. PICK x \in Seq(Texts(Runs)) : x = Own(r)
  BY <1>1, <1>2, <1>3, EntriesTyped
<1>5. x = Lines(messages, Spoken(messages, r))
  BY <1>2, <1>4, EntriesAreLines
<1>6. Debt(r, task[r]) = <<>>
  BY DEF Debt, Owed, InCall
<1>7. "model_request_started" \in InTalk
  BY DEF InTalk, InHarness, Recording
<1>8. WellFormed(x \o <<>>)
  BY <1>5, <1>6, <1>7 DEF Conversation, Talk
<1>9. x \o <<>> = x
  OBVIOUS
<1>10. QED BY <1>4, <1>8, <1>9

\* Wherever the budget cuts it, the context of a request is well formed, after
\* whatever happened to earlier runs of the session.
THEOREM ContextsWellFormed == Spec => []ContextWellFormed
<1>1. Base /\ Named /\ Conversation => ContextWellFormed
  <2> SUFFICES ASSUME Base, Named, Conversation, NEW r \in Runs,
                      task[r].pc = "model_request_started"
               PROVE  \A context \in Contexts(WorkingMessages(r)) :
                        WellFormed(context)
    BY DEF ContextWellFormed
  <2> DEFINE S == {m \in DOMAIN messages :
                     InSession(m, session[r]) /\ m <= CreatedAt(r)}
  <2>1. PICK history \in Seq(Texts(Runs)) : history = Entries(S)
    BY EntriesTyped DEF Base
  <2>2. PICK before \in Seq(Texts(Runs)) :
          before = Continued(history) /\ WellFormed(before)
    BY ContinuedWellFormed
  <2>3. PICK own \in Seq(Texts(Runs)) : own = Own(r) /\ WellFormed(own)
    BY OwnWellFormed
  <2>4. /\ before \o own \in Seq(Texts(Runs))
        /\ WellFormed(before \o own)
    BY <2>2, <2>3, JoinedWellFormed
  <2>5. WorkingMessages(r) = before \o own
    BY <2>1, <2>2, <2>3 DEF WorkingMessages
  <2> HIDE DEF S
  <2>6. QED BY <2>4, <2>5, ContextsOfWellFormed
<1>2. QED BY <1>1, BaseHolds, ConversationsHold, PTL

-----------------------------------------------------------------------------
(* Replies follow their calls *)

\* The accepted messages of a session.
Heard(table, sess, s) ==
  {m \in DOMAIN table : table[m].accepted /\ sess[table[m].run] = s}

\* The runs of a table are in the same sessions.
SameSessions(table, sess, sess2) ==
  \A m \in DOMAIN table : sess2[table[m].run] = sess[table[m].run]

\* Reply m has its call in an earlier message of its run, and nothing but
\* replies to other calls is heard in the session between the two.
PairedAt(table, sess, m) ==
  \E p \in DOMAIN table :
    /\ p < m
    /\ table[p].run = table[m].run /\ table[p].role = "calls"
    /\ table[p].accepted
    /\ table[m].calls \subseteq table[p].calls
    /\ \A k \in Heard(table, sess, sess[table[m].run]) :
         p < k /\ k < m =>
           table[k].role = "tool" /\ table[k].calls \cap table[m].calls = {}
Paired ==
  \A m \in DOMAIN messages :
    messages[m].accepted /\ messages[m].role = "tool" =>
      PairedAt(messages, session, m)

\* The calls that task t of run r owes a reply to are those of an earlier
\* message, and nothing but replies to calls before them is heard since.
PendingAt(table, sess, r, t) ==
  \E p \in DOMAIN table :
    /\ table[p].run = r /\ table[p].role = "calls" /\ table[p].accepted
    /\ t.calls .. t.calls + t.left \subseteq table[p].calls
    /\ \A k \in Heard(table, sess, sess[r]) :
         p < k => table[k].role = "tool" /\ \A c \in table[k].calls : c < t.calls
Pending ==
  \A r \in Runs : status[r] \in Going /\ Owed(task[r]) # 0 =>
    PendingAt(messages, session, r, task[r])

\* What is heard after one more message.
LEMMA HeardAppended ==
  ASSUME NEW table \in Seq(MessageRows), NEW e \in MessageRows,
         NEW sess, NEW sess2, SameSessions(table, sess, sess2)
  PROVE  /\ DOMAIN table = 1 .. Len(table) /\ Len(table) \in Nat
         /\ DOMAIN Append(table, e) = (DOMAIN table) \cup {Len(table) + 1}
         /\ \A m \in DOMAIN table : Append(table, e)[m] = table[m] /\ m \in Nat
                                    /\ m < Len(table) + 1
         /\ Append(table, e)[Len(table) + 1] = e
         /\ \A s : Heard(Append(table, e), sess2, s)
                     \subseteq Heard(table, sess, s) \cup {Len(table) + 1}
         /\ \A s : ~(e.accepted /\ sess2[e.run] = s) =>
              Heard(Append(table, e), sess2, s) \subseteq Heard(table, sess, s)
<1> DEFINE new == Len(table) + 1
           after == Append(table, e)
<1>1. /\ DOMAIN table = 1 .. Len(table) /\ Len(table) \in Nat
      /\ DOMAIN after = 1 .. Len(table) + 1
      /\ \A m \in 1 .. Len(table) : after[m] = table[m]
      /\ after[new] = e
  BY LenProperties, AppendFacts
<1> HIDE DEF after
<1>2. DOMAIN after = (DOMAIN table) \cup {new}
  BY <1>1
<1>3. \A m \in DOMAIN table : m \in Nat /\ m < new
  BY <1>1
<1> HIDE DEF new
<1>4. ASSUME NEW s, NEW m \in Heard(after, sess2, s), m # new
      PROVE  m \in Heard(table, sess, s)
  <2>1. m \in DOMAIN table /\ after[m] = table[m]
    BY <1>1, <1>2, <1>4 DEF Heard
  <2>2. QED BY <1>4, <2>1 DEF Heard, SameSessions
<1>5. ASSUME NEW s, new \in Heard(after, sess2, s)
      PROVE  e.accepted /\ sess2[e.run] = s
  BY <1>1, <1>5 DEF Heard
<1>6. QED BY <1>1, <1>2, <1>3, <1>4, <1>5 DEF after, new

\* A reply that has its call keeps it.
LEMMA PairedKept ==
  ASSUME NEW table \in Seq(MessageRows), NEW e \in MessageRows,
         NEW sess, NEW sess2, SameSessions(table, sess, sess2),
         NEW m \in DOMAIN table, PairedAt(table, sess, m)
  PROVE  PairedAt(Append(table, e), sess2, m)
<1> DEFINE new == Len(table) + 1
           s == sess[table[m].run]
<1>1. PICK after : after = Append(table, e)
  OBVIOUS
<1>2. /\ DOMAIN after = (DOMAIN table) \cup {new}
      /\ \A k \in DOMAIN table : after[k] = table[k] /\ k \in Nat /\ k < new
      /\ Heard(after, sess2, s) \subseteq Heard(table, sess, s) \cup {new}
      /\ new \in Nat
  BY <1>1, HeardAppended
<1>3. PICK p \in DOMAIN table :
        /\ p < m
        /\ table[p].run = table[m].run /\ table[p].role = "calls"
        /\ table[p].accepted
        /\ table[m].calls \subseteq table[p].calls
        /\ \A k \in Heard(table, sess, s) :
             p < k /\ k < m =>
               table[k].role = "tool" /\ table[k].calls \cap table[m].calls = {}
  BY DEF PairedAt
<1>4. sess2[after[m].run] = s /\ after[m] = table[m] /\ after[p] = table[p]
      /\ p \in DOMAIN after /\ m < new /\ m \in Nat
  BY <1>2, <1>3 DEF SameSessions
<1> HIDE DEF new, s
<1>5. ASSUME NEW k \in Heard(after, sess2, s), p < k, k < m
      PROVE  after[k].role = "tool" /\ after[k].calls \cap after[m].calls = {}
  <2>1. k # new
    BY <1>2, <1>4, <1>5
  <2>2. k \in Heard(table, sess, s)
    BY <1>2, <2>1
  <2>3. after[k] = table[k]
    BY <1>2, <2>2 DEF Heard
  <2>4. QED BY <1>3, <1>4, <1>5, <2>2, <2>3
<1>6. PairedAt(after, sess2, m)
  BY <1>3, <1>4, <1>5 DEF PairedAt
<1>7. QED BY <1>1, <1>6

\* A message that is not heard in the session of a run leaves what it owes.
LEMMA PendingKept ==
  ASSUME NEW table \in Seq(MessageRows), NEW e \in MessageRows,
         NEW sess, NEW sess2, SameSessions(table, sess, sess2),
         NEW r, NEW t, PendingAt(table, sess, r, t), sess2[r] = sess[r],
         ~(e.accepted /\ sess2[e.run] = sess[r])
  PROVE  PendingAt(Append(table, e), sess2, r, t)
<1> DEFINE new == Len(table) + 1
           s == sess[r]
<1>1. PICK after : after = Append(table, e)
  OBVIOUS
<1>2. /\ DOMAIN after = (DOMAIN table) \cup {new}
      /\ \A k \in DOMAIN table : after[k] = table[k]
      /\ Heard(after, sess2, s) \subseteq Heard(table, sess, s)
  BY <1>1, HeardAppended
<1>3. PICK p \in DOMAIN table :
        /\ table[p].run = r /\ table[p].role = "calls" /\ table[p].accepted
        /\ t.calls .. t.calls + t.left \subseteq table[p].calls
        /\ \A k \in Heard(table, sess, s) :
             p < k => /\ table[k].role = "tool"
                      /\ \A c \in table[k].calls : c < t.calls
  BY DEF PendingAt
<1>4. sess2[r] = s /\ after[p] = table[p] /\ p \in DOMAIN after
  BY <1>2, <1>3
<1> HIDE DEF new, s
<1>5. ASSUME NEW k \in Heard(after, sess2, s), p < k
      PROVE  after[k].role = "tool" /\ \A c \in after[k].calls : c < t.calls
  <2>1. k \in Heard(table, sess, s)
    BY <1>2
  <2>2. after[k] = table[k]
    BY <1>2, <2>1 DEF Heard
  <2>3. QED BY <1>3, <1>5, <2>1, <2>2
<1>6. PendingAt(after, sess2, r, t)
  BY <1>3, <1>4, <1>5 DEF PendingAt
<1>7. QED BY <1>1, <1>6

\* The runs that messages belong to keep their sessions.
LEMMA SessionsKept ==
  ASSUME Base, Named, NEW r \in Runs, Talks(r) \/ Asks(r)
  PROVE  SameSessions(messages, session, session')
<1>1. CASE Talks(r)
  BY <1>1 DEF Talks, SameSessions
<1>2. CASE Asks(r)
  <2>1. session \in [Runs -> Sessions \cup {NoSession}]
    BY DEF Base, TypeOK
  <2>2. PICK s \in Sessions : session' = [session EXCEPT ![r] = s]
    BY <1>2 DEF Asks
  <2>3. \A q : q # r => session'[q] = session[q]
    BY <2>1, <2>2
  <2>4. \A m \in DOMAIN messages : messages[m].run # r
    BY <1>2 DEF Asks, Named
  <2>5. QED BY <2>3, <2>4 DEF SameSessions
<1>3. QED BY <1>1, <1>2

\* A reply that is recorded has its call.
LEMMA PairedNew ==
  ASSUME Base, Named, Pending, NEW q \in Runs, Talks(q),
         NEW e, messages' = Append(messages, e), MessageOf(q, task[q], e),
         e.accepted <=> status'[q] \in Going,
         e.accepted, e.role = "tool"
  PROVE  PairedAt(Append(messages, e), session', Len(messages) + 1)
<1> DEFINE new == Len(messages) + 1
           s == session[q]
<1>0. PICK t : t = task[q]
  OBVIOUS
<1>1. Shape(t) /\ messages \in Seq(MessageRows) /\ MessageOf(q, t, e)
  BY <1>0 DEF Base, Control, TypeOK
<1>2. /\ e \in MessageRows /\ e.run = q
      /\ t.calls \in Nat /\ t.left \in Nat
      /\ t.pc = "tool_reply" /\ e.calls = {t.calls}
  BY <1>1, MessageFields
<1>3. SameSessions(messages, session, session') /\ session'[q] = session[q]
  BY SessionsKept DEF Talks
<1>4. status[q] \in Going
  BY DEF Talks
<1>5. Owed(t) = t.left + 1 /\ Owed(t) # 0
  BY <1>2 DEF Owed
<1>6. PendingAt(messages, session, q, t)
  BY <1>0, <1>4, <1>5 DEF Pending
<1>7. PICK p \in DOMAIN messages :
        /\ messages[p].run = q /\ messages[p].role = "calls"
        /\ messages[p].accepted
        /\ t.calls .. t.calls + t.left \subseteq messages[p].calls
        /\ \A k \in Heard(messages, session, s) :
             p < k => /\ messages[k].role = "tool"
                      /\ \A c \in messages[k].calls : c < t.calls
  BY <1>6 DEF PendingAt
<1>8. PICK after : after = Append(messages, e)
  OBVIOUS
<1>9. /\ DOMAIN after = (DOMAIN messages) \cup {new}
      /\ \A k \in DOMAIN messages : after[k] = messages[k] /\ k \in Nat /\ k < new
      /\ after[new] = e
      /\ Heard(after, session', s) \subseteq Heard(messages, session, s) \cup {new}
      /\ new \in Nat
  BY <1>1, <1>2, <1>3, <1>8, HeardAppended
<1>10. e.calls \subseteq messages[p].calls
  <2>1. t.calls \in t.calls .. t.calls + t.left
    BY <1>2
  <2>2. QED BY <1>2, <1>7, <2>1
<1> HIDE DEF new, s
<1>11. ASSUME NEW k \in Heard(after, session', s), p < k, k < new
       PROVE  after[k].role = "tool" /\ after[k].calls \cap after[new].calls = {}
  <2>1. k # new
    BY <1>9, <1>11
  <2>2. k \in Heard(messages, session, s)
    BY <1>9, <2>1
  <2>3. after[k] = messages[k]
    BY <1>9, <2>2 DEF Heard
  <2>4. messages[k].role = "tool" /\ \A c \in messages[k].calls : c < t.calls
    BY <1>7, <1>11, <2>2
  <2>5. t.calls \notin messages[k].calls
    BY <1>2, <2>4
  <2>6. QED BY <1>2, <1>9, <2>3, <2>4, <2>5
<1>12. session'[after[new].run] = s
  BY <1>2, <1>3, <1>9 DEF s
<1>13. after[p] = messages[p] /\ p \in DOMAIN after /\ p < new
  BY <1>9
<1>14. PairedAt(after, session', new)
  BY <1>2, <1>7, <1>9, <1>10, <1>11, <1>12, <1>13 DEF PairedAt
<1>15. QED BY <1>8, <1>14 DEF new

\* A step keeps replies paired.
LEMMA StepPaired ==
  ASSUME Base, Named, Paired, Pending, [Next]_vars
  PROVE  Paired'
<1> SUFFICES ASSUME NEW m \in DOMAIN messages', messages'[m].accepted,
                    messages'[m].role = "tool"
             PROVE  PairedAt(messages', session', m)
  BY DEF Paired, PairedAt, Heard
<1>1. messages \in Seq(MessageRows)
  BY DEF Base, TypeOK
<1>2. CASE messages' = messages /\ session' = session
  BY <1>2 DEF Paired
<1>3. ASSUME NEW q \in Runs, Talks(q) \/ Asks(q),
             NEW e \in MessageRows, messages' = Append(messages, e),
             m = Len(messages) + 1 =>
               PairedAt(Append(messages, e), session', m)
      PROVE  PairedAt(messages', session', m)
  <2>1. SameSessions(messages, session, session')
    BY <1>3, SessionsKept
  <2>2. /\ DOMAIN messages' = (DOMAIN messages) \cup {Len(messages) + 1}
        /\ \A k \in DOMAIN messages : messages'[k] = messages[k]
    BY <1>1, <1>3, <2>1, HeardAppended
  <2>3. CASE m \in DOMAIN messages
    <3>1. PairedAt(messages, session, m)
      BY <2>2, <2>3 DEF Paired
    <3>2. QED BY <1>1, <1>3, <2>1, <2>3, <3>1, PairedKept
  <2>4. QED BY <1>3, <2>2, <2>3
<1>4. ASSUME NEW q \in Runs, Asks(q) PROVE PairedAt(messages', session', m)
  <2>1. UserRow(q) \in MessageRows /\ UserRow(q).role = "user"
        /\ messages' = Append(messages, UserRow(q))
    BY <1>4 DEF Asks, UserRow, MessageRows, Roles
  <2>2. messages'[Len(messages) + 1] = UserRow(q)
    BY <1>1, <2>1, HeardAppended, SessionsKept, <1>4
  <2>3. m # Len(messages) + 1
    BY <2>1, <2>2
  <2>4. QED BY <1>3, <1>4, <2>1, <2>3
<1>5. ASSUME NEW q \in Runs, Talks(q) PROVE PairedAt(messages', session', m)
  <2>1. CASE messages' = messages
    BY <1>2, <1>5, <2>1 DEF Talks
  <2>2. ASSUME NEW e, messages' = Append(messages, e),
               MessageOf(q, task[q], e), e.accepted <=> status'[q] \in Going
        PROVE  PairedAt(messages', session', m)
    <3>1. e \in MessageRows
      BY <2>2 DEF MessageOf
    <3>2. messages'[Len(messages) + 1] = e
      BY <1>1, <1>5, <2>2, <3>1, HeardAppended, SessionsKept
    <3>3. m = Len(messages) + 1 => PairedAt(Append(messages, e), session', m)
      BY <1>5, <2>2, <3>2, PairedNew
    <3>4. QED BY <1>3, <1>5, <2>2, <3>1, <3>3
  <2>3. QED BY <1>5, <2>1, <2>2 DEF Talks
<1>6. QED BY <1>2, <1>4, <1>5, StepTalks DEF Hushed

\* The message of a task is what it owed, and nothing else that it owes is
\* touched.
LEMMA PendingSpoken ==
  ASSUME Base, Named, Pending, NEW r \in Runs, Talks(r),
         NEW e, messages' = Append(messages, e), MessageOf(r, task[r], e),
         e.accepted <=> status'[r] \in Going,
         status'[r] \in Going, Owed(task'[r]) # 0, [Next]_vars,
         Follows(task[r], task'[r])
  PROVE  PendingAt(Append(messages, e), session', r, task'[r])
<1> DEFINE new == Len(messages) + 1
           s == session[r]
<1>0. PICK t, u : t = task[r] /\ u = task'[r]
  OBVIOUS
<1>1. /\ Shape(t) /\ messages \in Seq(MessageRows)
      /\ MessageOf(r, t, e) /\ Follows(t, u)
  BY <1>0 DEF Base, Control, TypeOK
<1>2. /\ e \in MessageRows /\ e.run = r /\ e.accepted
      /\ t.calls \in Nat /\ t.left \in Nat
      /\ t.pc = "response_calls" =>
           e.role = "calls" /\ e.calls = t.calls + 1 .. t.calls + t.left
      /\ t.pc = "tool_reply" => e.role = "tool" /\ e.calls = {t.calls}
  BY <1>1, MessageFields
<1>3. SameSessions(messages, session, session') /\ session'[r] = s
      /\ status[r] \in Going
  BY SessionsKept DEF Talks
<1>4. t.pc \in {"response_calls", "tool_reply"}
  BY <1>1 DEF MessageOf, Speaking, Follows
<1>5. Owed(u) = t.left /\ Owed(u) # 0 /\ u.calls = t.calls + 1
  BY <1>0, <1>1, <1>4 DEF Follows
<1>6. u.left \in Nat /\ t.left = u.left + 1
  <2>1. Owed(u) = u.left + 1
    BY <1>5 DEF Owed
  <2>2. Shape(u)
    BY <1>0, StepControl DEF Base, Control
  <2>3. u.left \in Nat
    BY <2>2, LimitsAssumption DEF Shape, Tasks
  <2>4. QED BY <1>5, <2>1, <2>3
<1>7. PICK after : after = Append(messages, e)
  OBVIOUS
<1>8. /\ DOMAIN after = (DOMAIN messages) \cup {new}
      /\ \A k \in DOMAIN messages : after[k] = messages[k] /\ k \in Nat /\ k < new
      /\ after[new] = e
      /\ Heard(after, session', s) \subseteq Heard(messages, session, s) \cup {new}
      /\ new \in Nat
  BY <1>1, <1>2, <1>3, <1>7, HeardAppended
<1> HIDE DEF new, s
<1>9. CASE t.pc = "response_calls"
  <2>1. u.calls .. u.calls + u.left \subseteq e.calls
    BY <1>2, <1>5, <1>6, <1>9
  <2>2. \A k \in Heard(after, session', s) : ~(new < k)
    BY <1>8 DEF Heard
  <2>3. PendingAt(after, session', r, u)
    BY <1>2, <1>3, <1>8, <1>9, <2>1, <2>2 DEF PendingAt
  <2>4. QED BY <1>0, <1>7, <2>3
<1>10. CASE t.pc = "tool_reply"
  <2>1. Owed(t) # 0
    BY <1>2, <1>10 DEF Owed
  <2>2. PendingAt(messages, session, r, t)
    BY <1>0, <1>3, <2>1 DEF Pending
  <2>3. PICK p \in DOMAIN messages :
          /\ messages[p].run = r /\ messages[p].role = "calls"
          /\ messages[p].accepted
          /\ t.calls .. t.calls + t.left \subseteq messages[p].calls
          /\ \A k \in Heard(messages, session, s) :
               p < k => /\ messages[k].role = "tool"
                        /\ \A c \in messages[k].calls : c < t.calls
    BY <2>2 DEF PendingAt, s
  <2>4. u.calls .. u.calls + u.left \subseteq messages[p].calls
    <3>1. u.calls .. u.calls + u.left \subseteq t.calls .. t.calls + t.left
      BY <1>2, <1>5, <1>6
    <3>2. QED BY <2>3, <3>1
  <2>5. ASSUME NEW k \in Heard(after, session', s), p < k
        PROVE  after[k].role = "tool" /\ \A c \in after[k].calls : c < u.calls
    <3>1. CASE k = new
      BY <1>2, <1>5, <1>8, <1>10, <3>1
    <3>2. CASE k # new
      <4>1. k \in Heard(messages, session, s)
        BY <1>8, <3>2
      <4>2. k \in DOMAIN messages /\ after[k] = messages[k]
        BY <1>8, <4>1 DEF Heard
      <4>3. messages[k].role = "tool" /\ \A c \in messages[k].calls : c < t.calls
        BY <2>3, <2>5, <4>1
      <4>4. messages[k].calls \subseteq Nat
        BY <4>2, <4>3 DEF Named, CallsNamed
      <4>5. \A c \in messages[k].calls : c < u.calls
        BY <1>2, <1>5, <4>3, <4>4
      <4>6. QED BY <4>2, <4>3, <4>5
    <3>3. QED BY <3>1, <3>2
  <2>6. after[p] = messages[p] /\ p \in DOMAIN after
    BY <1>8
  <2>7. PendingAt(after, session', r, u)
    BY <1>3, <2>3, <2>4, <2>5, <2>6 DEF PendingAt
  <2>8. QED BY <1>0, <1>7, <2>7
<1>11. QED BY <1>4, <1>9, <1>10

\* A step keeps what tasks owe.
LEMMA StepPending ==
  ASSUME Base, Named, Pending, OneActiveRun', [Next]_vars
  PROVE  Pending'
<1> SUFFICES ASSUME NEW r \in Runs, status'[r] \in Going, Owed(task'[r]) # 0
             PROVE  PendingAt(messages', session', r, task'[r])
  BY DEF Pending, PendingAt, Heard
<1>1. messages \in Seq(MessageRows)
  BY DEF Base, TypeOK
<1>2. task'[r].pc \in InTalk
  BY DEF Owed, InTalk, InCall, Reading, InHarness, Recording, Waiting
<1>3. ASSUME messages' = messages, session' = session, status[r] \in Going,
             Owed(task'[r]) = Owed(task[r]), task'[r].calls = task[r].calls
      PROVE  PendingAt(messages', session', r, task'[r])
  <2>1. PendingAt(messages, session, r, task[r])
    BY <1>3 DEF Pending
  <2>2. task'[r].left = task[r].left
    <3>1. task'[r].left + 1 = task[r].left + 1
      BY <1>3 DEF Owed
    <3>2. task'[r].left \in Nat /\ task[r].left \in Nat
      <4>1. Shape(task'[r]) /\ Shape(task[r])
        BY StepControl DEF Base, Control
      <4>2. QED BY <4>1, LimitsAssumption DEF Shape, Tasks
    <3>3. QED BY <3>1, <3>2
  <2>3. QED BY <1>3, <2>1, <2>2 DEF PendingAt
<1>4. ASSUME NEW q \in Runs, q # r, Talks(q) \/ Asks(q),
             status[r] \in Going, task'[r] = task[r],
             NEW e \in MessageRows, messages' = Append(messages, e),
             e.run = q, e.accepted => status'[q] \in Going
      PROVE  PendingAt(messages', session', r, task'[r])
  <2>1. PendingAt(messages, session, r, task[r])
    BY <1>4 DEF Pending
  <2>2. SameSessions(messages, session, session')
    BY <1>4, SessionsKept
  <2>3. session'[r] = session[r]
    BY <1>4 DEF Talks, Asks, Base, TypeOK
  <2>4. ~(e.accepted /\ session'[e.run] = session[r])
    BY <1>4, <2>3 DEF OneActiveRun, Active, Going
  <2>5. QED BY <1>1, <1>4, <2>1, <2>2, <2>3, <2>4, PendingKept
<1>5. CASE Hushed
  BY <1>2, <1>3, <1>5 DEF Hushed
<1>6. ASSUME NEW q \in Runs, Asks(q)
      PROVE  PendingAt(messages', session', r, task'[r])
  <2>1. UserRow(q) \in MessageRows /\ UserRow(q).run = q
        /\ messages' = Append(messages, UserRow(q))
    BY <1>6 DEF Asks, UserRow, MessageRows, Roles
  <2>2. CASE q = r
    <3>1. task[r].pc = "absent"
      BY <1>6, <2>2 DEF Asks, Base, UsageOK, RowMatches
    <3>2. Owed(task[r]) = 0 /\ Owed(NewTask) = 0
      BY <3>1, DoneFields DEF Owed, InCall
    <3>3. task'[r] = task[r] \/ task'[r] = NewTask
      BY <1>6, <2>2 DEF Asks, Base, Control
    <3>4. QED BY <3>2, <3>3
  <2>3. CASE q # r
    <3>1. task'[r] = task[r] \/ task'[r] = task[r]
      BY <1>6, <2>3 DEF Asks, Base, Control
    <3>2. status[r] \in Going /\ status'[q] \in Going
      BY <1>6, <2>3 DEF Asks, Base, TypeOK, Going
    <3>3. QED BY <1>4, <1>6, <2>1, <2>3, <3>1, <3>2
  <2>4. QED BY <2>2, <2>3
<1>7. ASSUME NEW q \in Runs, Talks(q)
      PROVE  PendingAt(messages', session', r, task'[r])
  <2>1. CASE q # r
    <3>1. task'[r] = task[r] /\ status[r] \in Going
      BY <1>7, <2>1 DEF Talks
    <3>2. CASE messages' = messages
      BY <1>3, <1>7, <3>1, <3>2 DEF Talks
    <3>3. ASSUME NEW e, messages' = Append(messages, e),
                 MessageOf(q, task[q], e), e.accepted <=> status'[q] \in Going
          PROVE  PendingAt(messages', session', r, task'[r])
      <4>1. e \in MessageRows /\ e.run = q
        BY <3>3 DEF MessageOf
      <4>2. QED BY <1>4, <1>7, <2>1, <3>1, <3>3, <4>1
    <3>4. QED BY <1>7, <3>2, <3>3 DEF Talks
  <2>2. CASE q = r
    <3>1. Follows(task[r], task'[r]) /\ status[r] \in Going
      BY <1>2, <1>7, <2>2 DEF Talks
    <3>2. CASE messages' = messages /\ task[r].pc \notin Speaking
      <4>1. Owed(task'[r]) = Owed(task[r]) /\ task'[r].calls = task[r].calls
        BY <3>1, <3>2 DEF Follows
      <4>2. QED BY <1>3, <1>7, <3>1, <3>2, <4>1 DEF Talks
    <3>3. ASSUME NEW e, messages' = Append(messages, e),
                 MessageOf(r, task[r], e), e.accepted <=> status'[r] \in Going
          PROVE  PendingAt(messages', session', r, task'[r])
      BY <1>7, <2>2, <3>1, <3>3, PendingSpoken
    <3>4. QED BY <1>2, <1>7, <2>2, <3>2, <3>3 DEF Talks
  <2>3. QED BY <2>1, <2>2
<1>8. QED BY <1>5, <1>6, <1>7, StepTalks

\* Every accepted reply follows its call, with nothing but replies to other
\* calls heard in the session between them, and what a task owes can follow so.
THEOREM RepliesHold == Spec => [](Paired /\ Pending)
<1>1. Init => Paired /\ Pending
  <2> SUFFICES ASSUME Init PROVE Paired /\ Pending
    OBVIOUS
  <2>1. messages = <<>> /\ \A r \in Runs : task[r].pc = "absent"
    BY DoneFields DEF Init, StoreInit
  <2>2. \A r \in Runs : Owed(task[r]) = 0
    BY <2>1 DEF Owed, InCall
  <2>3. QED BY <2>1, <2>2 DEF Paired, Pending
<1>2. /\ Base /\ Named /\ OneActiveRun' /\ (Paired /\ Pending) /\ [Next]_vars
      => (Paired /\ Pending)'
  BY StepPaired, StepPending
<1>3. Spec => []OneActiveRun
  BY RuntimeUsesStore, OneRunPerSession
<1>4. QED BY <1>1, <1>2, <1>3, BaseHolds, ConversationsHold, PTL DEF Spec

-----------------------------------------------------------------------------
(* The history of a session *)

\* The messages that get_session reads.
Recalled(s) == {m \in DOMAIN messages : InSession(m, s)}

\* Where they are in the history.
LEMMA HistoryFields ==
  ASSUME Base, Named, NEW s
  PROVE  /\ History(s) \in Seq(Texts(Runs)) /\ Len(History(s)) \in Nat
         /\ Recalled(s) \subseteq Heard(messages, session, s)
         /\ Recalled(s) \subseteq Nat
         /\ \E order \in [1 .. Len(History(s)) -> Recalled(s)] :
              /\ Counts(order, Recalled(s))
              /\ \A i \in 1 .. Len(History(s)) :
                   History(s)[i] = Line(messages[order[i]])
<1>1. messages \in Seq(MessageRows)
      /\ \A m \in DOMAIN messages : CallsNamed(messages[m])
  BY DEF Base, TypeOK, Named
<1>2. Recalled(s) \in SUBSET (DOMAIN messages)
  BY DEF Recalled
<1>3. History(s) = Lines(messages, Recalled(s))
  BY EntriesAreLines DEF History, Recalled
<1>4. PICK S \in SUBSET (DOMAIN messages) : S = Recalled(s)
  BY <1>2
<1>5. /\ S \in SUBSET Nat /\ Cardinality(S) \in Nat
      /\ Lines(messages, S) \in Seq(Texts(Runs))
      /\ Len(Lines(messages, S)) = Cardinality(S)
      /\ InOrder(S) \in [1 .. Cardinality(S) -> S]
      /\ Counts(InOrder(S), S)
      /\ \A i \in 1 .. Cardinality(S) :
           Lines(messages, S)[i] = Line(messages[InOrder(S)[i]])
  BY <1>1, LinesInOrder
<1>6. Recalled(s) \subseteq Heard(messages, session, s)
  BY DEF Recalled, InSession, Heard
<1>7. QED BY <1>3, <1>4, <1>5, <1>6

\* What a run is told is what the completed history says.
LEMMA ToldSays ==
  ASSUME Base, Named, NEW s
  PROVE  \A e : e \in Told(s) <=> Says(Continued(History(s)), e)
<1>1. PICK h \in Seq(Texts(Runs)) : h = History(s)
  BY HistoryFields
<1>2. PICK out \in Seq(Texts(Runs)) : out = Continued(h)
  BY ContinuedWellFormed
<1>3. DOMAIN out = 1 .. Len(out)
  BY LenProperties
<1>4. Told(s) = {out[i] : i \in DOMAIN out}
  BY <1>1, <1>2 DEF Told
<1>5. QED BY <1>1, <1>2, <1>3, <1>4 DEF Says

\* All of the history but replies is told, and nothing else but replies.
LEMMA TextsTold ==
  ASSUME Base, Named, NEW s
  PROVE  /\ \A m \in Recalled(s) :
              messages[m].role # "tool" => Line(messages[m]) \in Told(s)
         /\ \A e \in Told(s) : e.role # "tool" =>
              \E m \in Recalled(s) : e = Line(messages[m])
<1>1. PICK h \in Seq(Texts(Runs)) : h = History(s)
  BY HistoryFields
<1>2. PICK order \in [1 .. Len(h) -> Recalled(s)] :
        /\ Counts(order, Recalled(s))
        /\ \A i \in 1 .. Len(h) : h[i] = Line(messages[order[i]])
  BY <1>1, HistoryFields
<1>3. PICK out : out = Continued(h)
  OBVIOUS
<1>4. /\ \A i \in 1 .. Len(h) : h[i].role # "tool" => Says(out, h[i])
      /\ \A e : Says(out, e) /\ e.role # "tool" => Says(h, e)
  BY <1>3, ContinuedWellFormed
<1>5. \A e : e \in Told(s) <=> Says(out, e)
  BY <1>1, <1>3, ToldSays
<1>6. ASSUME NEW m \in Recalled(s), messages[m].role # "tool"
      PROVE  Line(messages[m]) \in Told(s)
  <2>1. PICK i \in 1 .. Len(h) : order[i] = m
    BY <1>2 DEF Counts
  <2>2. h[i] = Line(messages[m]) /\ h[i].role = messages[m].role
    BY <1>2, <2>1 DEF Line
  <2>3. QED BY <1>4, <1>5, <1>6, <2>2
<1>7. ASSUME NEW e \in Told(s), e.role # "tool"
      PROVE  \E m \in Recalled(s) : e = Line(messages[m])
  <2>1. PICK i \in 1 .. Len(h) : h[i] = e
    BY <1>4, <1>5, <1>7 DEF Says
  <2>2. QED BY <1>2, <2>1
<1>8. QED BY <1>6, <1>7

\* A reply is found behind its call, and no later one in its place.
LEMMA ReplyTold ==
  ASSUME Base, Named, Paired, NEW s, NEW m \in Recalled(s),
         messages[m].role = "tool"
  PROVE  Line(messages[m]) \in Told(s)
<1> DEFINE S == Recalled(s)
<1>1. PICK h \in Seq(Texts(Runs)) :
        h = History(s) /\ Len(h) \in Nat
        /\ S \subseteq Heard(messages, session, s) /\ S \subseteq Nat
  BY HistoryFields
<1>2. PICK order \in [1 .. Len(h) -> S] :
        /\ Counts(order, S)
        /\ \A i \in 1 .. Len(h) : h[i] = Line(messages[order[i]])
  BY <1>1, HistoryFields
<1>3. \A i \in 1 .. Len(h) :
        /\ h[i].role = messages[order[i]].role
        /\ h[i].calls = messages[order[i]].calls
        /\ order[i] \in S /\ order[i] \in Heard(messages, session, s)
  <2> TAKE i \in 1 .. Len(h)
  <2>1. h[i] = Line(messages[order[i]])
    BY <1>2
  <2>2. h[i].role = messages[order[i]].role /\ h[i].calls = messages[order[i]].calls
    BY <2>1 DEF Line
  <2>3. order[i] \in S
    BY <1>2
  <2>4. QED BY <1>1, <2>2, <2>3
<1>4. \A i, j \in 1 .. Len(h) : order[i] < order[j] <=> i < j
  <2> TAKE i, j \in 1 .. Len(h)
  <2>1. i < j => order[i] < order[j]
    BY <1>2 DEF Counts
  <2>2. j < i => order[j] < order[i]
    BY <1>2 DEF Counts
  <2>3. order[i] \in Nat /\ order[j] \in Nat
    BY <1>1, <1>3
  <2>4. QED BY <2>1, <2>2, <2>3
<1>5. m \in DOMAIN messages /\ messages[m].accepted
      /\ session[messages[m].run] = s
  BY DEF Recalled, InSession
<1>6. PICK c \in Nat : messages[m].calls = {c}
  BY <1>5 DEF Named, CallsNamed
<1>7. PICK p \in DOMAIN messages :
        /\ p < m
        /\ messages[p].run = messages[m].run /\ messages[p].role = "calls"
        /\ messages[p].accepted /\ messages[m].calls \subseteq messages[p].calls
        /\ \A k \in Heard(messages, session, s) :
             p < k /\ k < m => messages[k].role = "tool"
  BY <1>5 DEF Paired, PairedAt
<1>8. p \in S
  BY <1>5, <1>7 DEF Recalled, InSession
<1>9. PICK i \in 1 .. Len(h) : order[i] = p
  BY <1>2, <1>8 DEF Counts
<1>10. PICK j \in 1 .. Len(h) : order[j] = m
  BY <1>2 DEF Counts
<1>11. i < j /\ h[i].role = "calls" /\ c \in h[i].calls /\ h[j].calls = {c}
       /\ h[j].role = "tool"
  BY <1>3, <1>4, <1>6, <1>7, <1>9, <1>10
<1> HIDE DEF S
<1>12. j \in Following(h, i)
  <2>1. ASSUME NEW k \in i + 1 .. j PROVE h[k].role = "tool"
    <3>1. k \in 1 .. Len(h) /\ i < k
      BY <1>1
    <3>2. CASE k = j
      BY <1>11, <3>2
    <3>3. CASE k # j
      <4>1. k < j
        BY <3>3
      <4>2. order[i] < order[k] /\ order[k] < order[j]
        BY <1>4, <3>1, <4>1
      <4>3. QED BY <1>3, <1>7, <1>9, <1>10, <3>1, <4>2
    <3>4. QED BY <3>2, <3>3
  <2>2. j \in i + 1 .. Len(h)
    BY <1>1, <1>11
  <2>3. QED BY <2>1, <2>2 DEF Following
<1> DEFINE found == {k \in Following(h, i) : c \in h[k].calls}
<1>13. j \in found
  BY <1>11, <1>12
<1>14. ASSUME NEW k \in found PROVE k \in Nat /\ k <= j
  <2>1. /\ k \in i + 1 .. Len(h) /\ c \in h[k].calls
        /\ \A x \in i + 1 .. k : h[x].role = "tool"
    BY DEF Following
  <2>2. k \in 1 .. Len(h) /\ k \in i + 1 .. k /\ k \in Nat
    BY <1>1, <2>1
  <2>3. SUFFICES ASSUME j < k PROVE FALSE
    BY <2>2
  <2>4. PICK n : n = order[k]
    OBVIOUS
  <2>5. /\ n \in S /\ m < n /\ messages[n].role = "tool"
        /\ c \in messages[n].calls
    BY <1>3, <1>4, <1>10, <2>1, <2>2, <2>3, <2>4
  <2>6. /\ n \in DOMAIN messages /\ messages[n].accepted
        /\ session[messages[n].run] = s
    BY <2>5 DEF S, Recalled, InSession
  <2>7. PICK q \in DOMAIN messages :
          /\ q < n
          /\ messages[q].run = messages[n].run /\ messages[q].role = "calls"
          /\ messages[q].accepted
          /\ \A x \in Heard(messages, session, s) :
               q < x /\ x < n =>
                 messages[x].calls \cap messages[n].calls = {}
    BY <2>5, <2>6 DEF Paired, PairedAt
  <2>8. q \in S
    BY <2>6, <2>7 DEF S, Recalled, InSession
  <2>9. PICK x \in 1 .. Len(h) : order[x] = q
    BY <1>2, <2>8 DEF Counts
  <2>10. ~(q < m)
    <3>1. m \in Heard(messages, session, s)
      BY <1>3, <1>10
    <3>2. c \in messages[m].calls \cap messages[n].calls
      BY <1>6, <2>5
    <3>3. QED BY <2>5, <2>7, <3>1, <3>2
  <2>11. m < q
    <3>1. m # q
      BY <2>7
    <3>2. m \in Nat /\ q \in Nat
      BY <1>1, <2>8 DEF S
    <3>3. QED BY <2>10, <3>1, <3>2
  <2>12. j < x /\ x < k
    BY <1>4, <1>10, <2>2, <2>4, <2>7, <2>9, <2>11
  <2>13. x \in i + 1 .. k
    BY <1>11, <2>1, <2>12
  <2>14. QED BY <1>3, <2>1, <2>7, <2>9, <2>13
<1>15. ReplyTo(h, i, c) = h[j]
  <2>1. found # {} /\ \A k \in found : k <= j
    BY <1>13, <1>14
  <2>2. ReplyTo(h, i, c) = h[CHOOSE x \in found : \A k \in found : k <= x]
    BY <2>1 DEF ReplyTo
  <2>3. PICK y : y = CHOOSE x \in found : \A k \in found : k <= x
    OBVIOUS
  <2>4. y \in found /\ \A k \in found : k <= y
    BY <1>13, <2>1, <2>3
  <2>5. y <= j /\ j <= y /\ y \in Nat /\ j \in Nat
    BY <1>13, <1>14, <2>4
  <2>6. QED BY <2>2, <2>3, <2>5
<1>16. Says(Continued(h), ReplyTo(h, i, c))
  BY <1>11, ContinuedWellFormed
<1>17. QED BY <1>1, <1>2, <1>10, <1>15, <1>16, ToldSays

\* A new run is told what the runs before it committed: every accepted result
\* itself, every request, and the answers of the runs that completed.
THEOREM HistoriesFaithful == Spec => []HistoryFaithful
<1>1. Base /\ Named /\ Paired /\ AnswersOK => HistoryFaithful
  <2> SUFFICES ASSUME Base, Named, Paired, AnswersOK, NEW r \in Runs
               PROVE  LET s == session[r] IN
                      /\ \A m \in DOMAIN messages :
                           /\ session[messages[m].run] = s
                           /\ messages[m].accepted
                           /\ messages[m].role \in {"user", "tool"}
                           => Entry(m) \in Told(s)
                      /\ \A q \in Runs : session[q] = s =>
                           (status[q] = "completed" <=>
                              \E e \in Told(s) : e.role = "final" /\ e.run = q)
    BY DEF HistoryFaithful
  <2>1. PICK s : s = session[r]
    OBVIOUS
  <2>2. \A m \in DOMAIN messages : Entry(m) = Line(messages[m])
    BY DEF Entry, Line
  <2>3. /\ \A m \in Recalled(s) :
             messages[m].role # "tool" => Line(messages[m]) \in Told(s)
        /\ \A e \in Told(s) : e.role # "tool" =>
             \E m \in Recalled(s) : e = Line(messages[m])
    BY TextsTold
  <2>4. ASSUME NEW m \in DOMAIN messages, session[messages[m].run] = s,
               messages[m].accepted, messages[m].role \in {"user", "tool"}
        PROVE  Entry(m) \in Told(s)
    <3>1. m \in Recalled(s)
      BY <2>4 DEF Recalled, InSession
    <3>2. Line(messages[m]) \in Told(s)
      BY <2>3, <2>4, <3>1, ReplyTold
    <3>3. QED BY <2>2, <3>2
  <2>5. ASSUME NEW q \in Runs, session[q] = s, status[q] = "completed"
        PROVE  \E e \in Told(s) : e.role = "final" /\ e.run = q
    <3>1. PICK m : m \in Finals(q)
      BY <2>5 DEF AnswersOK, AnswerOf, HasAnswer
    <3>2. /\ m \in DOMAIN messages /\ messages[m].run = q
          /\ messages[m].role = "final" /\ messages[m].accepted
      BY <3>1 DEF Finals
    <3>3. m \in Recalled(s)
      BY <2>5, <3>2 DEF Recalled, InSession
    <3>4. Line(messages[m]) \in Told(s)
      BY <2>3, <3>2, <3>3
    <3>5. Line(messages[m]).role = "final" /\ Line(messages[m]).run = q
      BY <3>2 DEF Line
    <3>6. QED BY <3>4, <3>5
  <2>6. ASSUME NEW q \in Runs, NEW e \in Told(s), e.role = "final", e.run = q
        PROVE  status[q] = "completed"
    <3>1. PICK m \in Recalled(s) : e = Line(messages[m])
      BY <2>3, <2>6
    <3>2. messages[m].role = "final" /\ messages[m].run = q
      BY <2>6, <3>1 DEF Line
    <3>3. QED BY <3>2 DEF Recalled, InSession
  <2>7. QED BY <2>1, <2>4, <2>5, <2>6
<1>2. QED BY <1>1, BaseHolds, ConversationsHold, RepliesHold, AnswersHold, PTL
=============================================================================
