------------------------- MODULE RedisClientProofs -------------------------
(***************************************************************************)
(* Theorems about RedisClient.  Facts about loops over the arguments of a  *)
(* request are proved by induction on the turns of the loop (ByInduction), *)
(* those about the body of a reply by induction from its end.              *)
(***************************************************************************)
EXTENDS RedisClient, SequenceTheorems, WellFoundedInduction, TLAPS

-----------------------------------------------------------------------------
(* Induction and loops.                                                    *)

\* A set of naturals has a least element.
LEMMA LeastNat ==
    ASSUME NEW T, T \subseteq Nat, T # {}
    PROVE  \E m \in T : \A k \in T : m <= k
  <1> DEFINE R == OpToRel(<, Nat)
  <1>1. \E x \in T : \A y \in T : <<y, x>> \notin R
    <2>1. IsWellFoundedOn(R, Nat)
      BY NatLessThanWellFounded
    <2> HIDE DEF R
    <2> QED
      BY <2>1, WFMin
  <1>2. \A x, y \in T : <<y, x>> \in R <=> y < x
    BY DEF OpToRel
  <1> HIDE DEF R
  <1>3. PICK x \in T : \A y \in T : <<y, x>> \notin R
    BY <1>1
  <1>4. \A y \in T : ~(y < x)
    BY <1>2, <1>3
  <1> QED
    BY <1>4

\* Induction up to n, for a set instead of a predicate.
LEMMA ByInduction ==
    ASSUME NEW n \in Nat, NEW S, 0 \in S,
           \A k \in 1..n : k - 1 \in S => k \in S
    PROVE  0..n \subseteq S
  <1> SUFFICES ASSUME (0..n) \ S # {}
               PROVE  FALSE
    OBVIOUS
  <1>0. (0..n) \ S \subseteq Nat
    OBVIOUS
  <1>1. PICK m \in (0..n) \ S : \A k \in (0..n) \ S : m <= k
    <2> DEFINE T == (0..n) \ S
    <2> HIDE DEF T
    <2>1. T \subseteq Nat /\ T # {}
      BY <1>0 DEF T
    <2>2. \E m \in T : \A k \in T : m <= k
      BY <2>1, LeastNat
    <2> QED
      BY <2>2 DEF T
  <1>2. m \in 1..n /\ m - 1 \in 0..n /\ ~(m <= m - 1)
    BY <1>1
  <1> QED
    BY <1>1, <1>2

\* A loop of n turns: step[<<k, v>>] is what turn k makes of v.
Loop(n, V, v0, step) == n \in Nat /\ v0 \in V /\ step \in [(1..n) \X V -> V]

\* g[k] is the value after turn k.
Turned(g, n, V, v0, step) ==
    /\ g \in [0..n -> V]
    /\ g[0] = v0
    /\ \A k \in 1..n : g[k] = step[<<k, g[k - 1]>>]

\* A loop has a value after each turn.
LEMMA LoopExists ==
    ASSUME NEW n, NEW V, NEW v0, NEW step, Loop(n, V, v0, step)
    PROVE  \E g : Turned(g, n, V, v0, step)
  <1> DEFINE Upto(m, g) == g[0] = v0 /\ \A k \in 1..m : g[k] = step[<<k, g[k - 1]>>]
             S == {m \in 0..n : \E g \in [0..n -> V] : Upto(m, g)}
  <1> USE DEF Loop
  <1>1. 0 \in S
    <2> DEFINE g == [k \in 0..n |-> v0]
    <2>1. g \in [0..n -> V] /\ 0 \in 0..n /\ 1..0 = {}
      OBVIOUS
    <2>2. g[0] = v0
      BY <2>1
    <2> HIDE DEF g
    <2> QED
      BY <2>1, <2>2
  <1>2. ASSUME NEW m \in 1..n, m - 1 \in S
        PROVE  m \in S
    <2>1. PICK g \in [0..n -> V] : Upto(m - 1, g)
      BY <1>2
    <2> DEFINE h == [g EXCEPT ![m] = step[<<m, g[m - 1]>>]]
    <2>2. m \in 0..n /\ m - 1 \in 0..n /\ m # m - 1 /\ m # 0
      OBVIOUS
    <2>3. h \in [0..n -> V]
      BY <2>1, <2>2
    <2>4. h[0] = v0 /\ h[m] = step[<<m, h[m - 1]>>]
      <3>1. 0 \in 0..n /\ h[0] = g[0] /\ h[m - 1] = g[m - 1]
        BY <2>2
      <3>2. h[m] = step[<<m, g[m - 1]>>]
        BY <2>2
      <3> QED
        BY <2>1, <3>1, <3>2
    <2>5. ASSUME NEW k \in 1..m, k # m
          PROVE  h[k] = step[<<k, h[k - 1]>>]
      <3>1. k \in 1..(m - 1) /\ k \in 0..n /\ k - 1 \in 0..n /\ k # m /\ k - 1 # m
        BY <2>5
      <3>2. h[k] = g[k] /\ h[k - 1] = g[k - 1]
        BY <3>1
      <3> QED
        BY <2>1, <3>1, <3>2
    <2>6. Upto(m, h)
      BY <2>4, <2>5
    <2> QED
      BY <2>2, <2>3, <2>6
  <1> HIDE DEF S
  <1>3. 0..n \subseteq S
    BY <1>1, <1>2, ByInduction
  <1>4. n \in S
    BY <1>3
  <1> QED
    BY <1>4 DEF S, Turned

-----------------------------------------------------------------------------
(* The layout of a request.                                                *)

Cellseq == Seq(Nat)

\* The turns of the loop in Payload.
LEMMA PayloadTurns ==
    ASSUME NEW args \in Seq(Cellseq)
    PROVE  \E g \in [0..Len(args) -> Nat] :
               /\ g[0] = 1
               /\ \A k \in 1..Len(args) : g[k] = g[k - 1] + 1 + Len(args[k])
               /\ Payload(args) = g[Len(args)]
  <1> DEFINE n == Len(args)
             Turns(h) == h = [k \in 0..n |->
                                 IF k = 0 THEN 1 ELSE h[k - 1] + 1 + Len(args[k])]
             step == [p \in (1..n) \X Nat |-> p[2] + 1 + Len(args[p[1]])]
             h == CHOOSE x : Turns(x)
  <1>0. n \in Nat /\ \A k \in 1..n : Len(args[k]) \in Nat
    BY DEF Cellseq
  <1>1. Payload(args) = h[n]
    BY DEF Payload
  <1>2. step \in [(1..n) \X Nat -> Nat]
    BY <1>0
  <1>3. \A k \in 1..n, v \in Nat : step[<<k, v>>] = v + 1 + Len(args[k])
    OBVIOUS
  <1> HIDE DEF n, step
  <1>4. PICK g : Turned(g, n, Nat, 1, step)
    <2>1. Loop(n, Nat, 1, step)
      BY <1>0, <1>2 DEF Loop
    <2> QED
      BY <2>1, LoopExists, Zenon
  <1>5. \A k \in 1..n : k - 1 \in 0..n /\ k \in 0..n
    BY <1>0
  <1>6. \A k \in 1..n : g[k] = g[k - 1] + 1 + Len(args[k])
    BY <1>3, <1>4, <1>5 DEF Turned
  <1>7. Turns(g)
    <2>1. g = [k \in 0..n |-> g[k]]
      BY <1>4 DEF Turned
    <2>2. \A k \in 0..n : g[k] = IF k = 0 THEN 1 ELSE g[k - 1] + 1 + Len(args[k])
      BY <1>0, <1>4, <1>6 DEF Turned
    <2> QED
      BY <2>1, <2>2
  <1>8. Turns(h)
    <2> HIDE DEF Turns
    <2> QED
      BY <1>7, Zenon
  <1>9. h[n] = g[n]
    <2> HIDE DEF h
    <2> DEFINE S == {k \in 0..n : h[k] = g[k]}
    <2>1. 0 \in S
      BY <1>0, <1>4, <1>8 DEF Turned
    <2>2. \A k \in 1..n : h[k] = h[k - 1] + 1 + Len(args[k])
      BY <1>5, <1>8
    <2>3. \A k \in 1..n : k - 1 \in S => k \in S
      BY <1>5, <1>6, <2>2
    <2> HIDE DEF S
    <2>4. 0..n \subseteq S
      BY <1>0, <2>1, <2>3, ByInduction
    <2> QED
      BY <1>0, <2>4 DEF S
  <1> QED
    BY <1>1, <1>4, <1>6, <1>9 DEF n, Turned

\* The turns of the loop in Layout.
LEMMA LayoutTurns ==
    ASSUME NEW args \in Seq(Cellseq)
    PROVE  \E g \in [0..Len(args) -> Cellseq] :
               /\ g[0] = <<>>
               /\ \A k \in 1..Len(args) : g[k] = g[k - 1] \o <<Len(args[k])>> \o args[k]
               /\ Layout(args) = g[Len(args)]
  <1> DEFINE n == Len(args)
             Put(k, v) == v \o <<Len(args[k])>> \o args[k]
             Turns(h) == h = [k \in 0..n |-> IF k = 0 THEN <<>> ELSE Put(k, h[k - 1])]
             step == [p \in (1..n) \X Cellseq |-> Put(p[1], p[2])]
             h == CHOOSE x : Turns(x)
  <1>0. n \in Nat /\ <<>> \in Cellseq /\ \A k \in 1..n : args[k] \in Cellseq
    BY DEF Cellseq
  <1>1. Layout(args) = h[n]
    BY DEF Layout
  <1>2. \A v \in Cellseq, k \in 1..n : Put(k, v) \in Cellseq
    BY <1>0 DEF Cellseq
  <1> HIDE DEF Put
  <1>3. step \in [(1..n) \X Cellseq -> Cellseq]
    BY <1>2
  <1>4. \A k \in 1..n, v \in Cellseq : step[<<k, v>>] = Put(k, v)
    OBVIOUS
  <1> HIDE DEF n, step
  <1>5. PICK g : Turned(g, n, Cellseq, <<>>, step)
    <2>1. Loop(n, Cellseq, <<>>, step)
      BY <1>0, <1>3 DEF Loop
    <2> QED
      BY <2>1, LoopExists, Zenon
  <1>6. \A k \in 1..n : k - 1 \in 0..n /\ k \in 0..n /\ k # 0
    BY <1>0
  <1>7. \A k \in 1..n : g[k] = Put(k, g[k - 1])
    BY <1>4, <1>5, <1>6 DEF Turned
  <1>8. Turns(g)
    <2>1. g = [k \in 0..n |-> g[k]]
      BY <1>5 DEF Turned
    <2>2. \A k \in 0..n : g[k] = IF k = 0 THEN <<>> ELSE Put(k, g[k - 1])
      BY <1>0, <1>5, <1>7 DEF Turned
    <2> QED
      BY <2>1, <2>2
  <1>9. Turns(h)
    <2> HIDE DEF Turns
    <2> QED
      BY <1>8, Zenon
  <1>10. h[n] = g[n]
    <2> HIDE DEF h
    <2> DEFINE S == {k \in 0..n : h[k] = g[k]}
    <2>1. 0 \in S
      BY <1>0, <1>5, <1>9 DEF Turned
    <2>2. \A k \in 1..n : h[k] = Put(k, h[k - 1])
      BY <1>6, <1>9
    <2>3. \A k \in 1..n : k - 1 \in S => k \in S
      BY <1>6, <1>7, <2>2
    <2> HIDE DEF S
    <2>4. 0..n \subseteq S
      BY <1>0, <2>1, <2>3, ByInduction
    <2> QED
      BY <1>0, <2>4 DEF S
  <1> QED
    <2>1. /\ g \in [0..n -> Cellseq] /\ g[0] = <<>>
          /\ \A k \in 1..n : g[k] = g[k - 1] \o <<Len(args[k])>> \o args[k]
          /\ Layout(args) = g[n]
      BY <1>1, <1>5, <1>7, <1>10 DEF Turned, Put
    <2> QED
      BY <2>1 DEF n

\* The turns of the loop in ReadArgs.
LEMMA ReadTurns ==
    ASSUME NEW cells \in Cellseq, NEW n \in Nat
    PROVE  \E g \in [0..n -> Nat] :
               /\ g[0] = 0
               /\ \A k \in 1..n : g[k] = g[k - 1] + 1 + Cell(cells, g[k - 1])
               /\ ReadArgs(cells, n) =
                     [k \in 1..n |-> Cells(cells, g[k - 1] + 1, Cell(cells, g[k - 1]))]
  <1> DEFINE Put(v) == v + 1 + Cell(cells, v)
             Turns(h) == h = [k \in 0..n |-> IF k = 0 THEN 0 ELSE Put(h[k - 1])]
             step == [p \in (1..n) \X Nat |-> Put(p[2])]
             h == CHOOSE x : Turns(x)
  <1>1. ReadArgs(cells, n)
            = [k \in 1..n |-> Cells(cells, h[k - 1] + 1, Cell(cells, h[k - 1]))]
    BY DEF ReadArgs
  <1>2. \A v \in Nat : Put(v) \in Nat
    BY DEF Cellseq, Cell, Wild
  <1> HIDE DEF Put
  <1>3. step \in [(1..n) \X Nat -> Nat]
    BY <1>2
  <1>4. \A k \in 1..n, v \in Nat : step[<<k, v>>] = Put(v)
    OBVIOUS
  <1> HIDE DEF step
  <1>5. PICK g : Turned(g, n, Nat, 0, step)
    <2>1. Loop(n, Nat, 0, step)
      BY <1>3 DEF Loop
    <2> QED
      BY <2>1, LoopExists, Zenon
  <1>6. \A k \in 1..n : k - 1 \in 0..n /\ k \in 0..n /\ k # 0
    OBVIOUS
  <1>7. \A k \in 1..n : g[k] = Put(g[k - 1])
    BY <1>4, <1>5, <1>6 DEF Turned
  <1>8. Turns(g)
    <2>1. g = [k \in 0..n |-> g[k]]
      BY <1>5 DEF Turned
    <2>2. \A k \in 0..n : g[k] = IF k = 0 THEN 0 ELSE Put(g[k - 1])
      BY <1>5, <1>7 DEF Turned
    <2> QED
      BY <2>1, <2>2
  <1>9. Turns(h)
    <2> HIDE DEF Turns
    <2> QED
      BY <1>8, Zenon
  <1>10. \A k \in 0..n : h[k] = g[k]
    <2> HIDE DEF h
    <2> DEFINE S == {k \in 0..n : h[k] = g[k]}
    <2>1. 0 \in S
      BY <1>5, <1>9 DEF Turned
    <2>2. \A k \in 1..n : h[k] = Put(h[k - 1])
      BY <1>6, <1>9
    <2>3. \A k \in 1..n : k - 1 \in S => k \in S
      BY <1>6, <1>7, <2>2
    <2> HIDE DEF S
    <2>4. 0..n \subseteq S
      BY <2>1, <2>3, ByInduction
    <2> QED
      BY <2>4 DEF S
  <1> HIDE DEF h
  <1>11. ReadArgs(cells, n)
             = [k \in 1..n |-> Cells(cells, g[k - 1] + 1, Cell(cells, g[k - 1]))]
    <2>1. \A k \in 1..n : h[k - 1] = g[k - 1]
      BY <1>6, <1>10
    <2> QED
      BY <1>1, <2>1
  <1> QED
    <2>1. g \in [0..n -> Nat] /\ g[0] = 0
      BY <1>5 DEF Turned
    <2>2. \A k \in 1..n : g[k] = g[k - 1] + 1 + Cell(cells, g[k - 1])
      BY <1>7 DEF Put
    <2> QED
      BY <1>11, <2>1, <2>2

\* One turn: a length and an argument after what is there.
LEMMA PutFacts ==
    ASSUME NEW v \in Cellseq, NEW a \in Cellseq, NEW w, w = v \o <<Len(a)>> \o a
    PROVE  /\ w \in Cellseq
           /\ Len(v) \in Nat /\ Len(a) \in Nat
           /\ Len(w) = Len(v) + 1 + Len(a)
           /\ \A i \in 1..Len(v) : w[i] = v[i]
           /\ w[Len(v) + 1] = Len(a)
           /\ \A i \in 1..Len(a) : w[Len(v) + 1 + i] = a[i]
  <1>1. v \in Seq(Nat) /\ a \in Seq(Nat) /\ Len(v) \in Nat /\ Len(a) \in Nat
    BY DEF Cellseq
  <1> DEFINE u == v \o <<Len(a)>>
  <1>2. <<Len(a)>> \in Seq(Nat) /\ Len(<<Len(a)>>) = 1 /\ <<Len(a)>>[1] = Len(a)
    BY <1>1
  <1>3. /\ u \in Seq(Nat)
        /\ Len(u) = Len(v) + 1
        /\ \A i \in 1..Len(v) : u[i] = v[i]
        /\ u[Len(v) + 1] = Len(a)
    BY <1>1, <1>2, ConcatProperties
  <1> HIDE DEF u
  <1>4. /\ u \o a \in Seq(Nat)
        /\ Len(u \o a) = Len(u) + Len(a)
        /\ \A i \in 1..(Len(u) + Len(a)) :
              (u \o a)[i] = IF i <= Len(u) THEN u[i] ELSE a[i - Len(u)]
    BY <1>1, <1>3, ConcatProperties
  <1>5. w = u \o a
    BY DEF u
  <1> QED
    BY <1>1, <1>3, <1>4, <1>5 DEF Cellseq

\* What is laid out is as long as the length says, and reads back as the
\* arguments, whatever their number and lengths.
LEMMA LayoutReads ==
    ASSUME NEW args \in Seq(Cellseq)
    PROVE  /\ Layout(args) \in Cellseq
           /\ Payload(args) = 1 + Len(Layout(args))
           /\ ReadArgs(Layout(args), Len(args)) = args
  <1> DEFINE n == Len(args)
  <1>0. n \in Nat /\ \A k \in 1..n : args[k] \in Cellseq /\ Len(args[k]) \in Nat
    BY DEF Cellseq
  <1>1. PICK m \in [0..n -> Cellseq] :
               /\ m[0] = <<>>
               /\ \A k \in 1..n : m[k] = m[k - 1] \o <<Len(args[k])>> \o args[k]
               /\ Layout(args) = m[n]
    BY LayoutTurns
  <1>2. PICK s \in [0..n -> Nat] :
               /\ s[0] = 1
               /\ \A k \in 1..n : s[k] = s[k - 1] + 1 + Len(args[k])
               /\ Payload(args) = s[n]
    BY PayloadTurns
  <1>3. PICK o \in [0..n -> Nat] :
               /\ o[0] = 0
               /\ \A k \in 1..n : o[k] = o[k - 1] + 1 + Cell(m[n], o[k - 1])
               /\ ReadArgs(m[n], n) =
                     [k \in 1..n |-> Cells(m[n], o[k - 1] + 1, Cell(m[n], o[k - 1]))]
    <2>1. m[n] \in Cellseq
      BY <1>0, <1>1
    <2> QED
      BY <1>0, <2>1, ReadTurns
  <1> HIDE DEF n
  <1>4. \A k \in 1..n : k \in 0..n /\ k - 1 \in 0..n /\ k \in Nat /\ k - 1 \in Nat
    BY <1>0
  <1> DEFINE L(k) == Len(m[k])
             A(k) == Len(args[k])
  <1>5. /\ \A k \in 0..n : m[k] \in Cellseq /\ L(k) \in Nat
        /\ \A k \in 1..n : A(k) \in Nat
        /\ L(0) = 0 /\ 0 \in 0..n /\ n \in 0..n
    <2>1. \A v \in Cellseq : Len(v) \in Nat
      BY DEF Cellseq
    <2>2. Len(<<>>) = 0 /\ 0 \in 0..n /\ n \in 0..n
      BY <1>0
    <2>3. \A k \in 0..n : m[k] \in Cellseq
      BY <1>1
    <2> QED
      BY <1>0, <1>1, <2>1, <2>2, <2>3
  <1>6. ASSUME NEW k \in 1..n
        PROVE  /\ L(k) = L(k - 1) + 1 + A(k)
               /\ \A i \in 1..L(k - 1) : m[k][i] = m[k - 1][i]
               /\ m[k][L(k - 1) + 1] = A(k)
               /\ \A i \in 1..A(k) : m[k][L(k - 1) + 1 + i] = args[k][i]
    <2> DEFINE v == m[k - 1]
               a == args[k]
               w == m[k]
    <2>1. v \in Cellseq /\ a \in Cellseq
      BY <1>0, <1>4, <1>5
    <2>2. w = v \o <<Len(a)>> \o a
      BY <1>1
    <2> HIDE DEF v, a, w
    <2>3. /\ Len(w) = Len(v) + 1 + Len(a)
          /\ \A i \in 1..Len(v) : w[i] = v[i]
          /\ w[Len(v) + 1] = Len(a)
          /\ \A i \in 1..Len(a) : w[Len(v) + 1 + i] = a[i]
      BY <2>1, <2>2, PutFacts
    <2> QED
      BY <2>3 DEF v, a, w
  <1> HIDE DEF L, A
  <1>7. \A k \in 0..n : L(k) <= L(n) /\ \A i \in 1..L(k) : m[n][i] = m[k][i]
    <2> DEFINE Kept(j, k) == L(j) <= L(k) /\ \A i \in 1..L(j) : m[k][i] = m[j][i]
               S == {k \in 0..n : \A j \in 0..k : Kept(j, k)}
    <2>1. 0 \in S
      BY <1>5
    <2>2. ASSUME NEW k \in 1..n, k - 1 \in S
          PROVE  k \in S
      <3>1. Kept(k, k)
        BY <1>4, <1>5
      <3>2. ASSUME NEW j \in 0..(k - 1)
            PROVE  Kept(j, k)
        <4>1. L(j) <= L(k - 1) /\ \A i \in 1..L(j) : m[k - 1][i] = m[j][i]
          BY <2>2
        <4>2. L(j) \in Nat /\ L(k - 1) \in Nat /\ A(k) \in Nat
          BY <1>0, <1>4, <1>5
        <4>3. L(j) <= L(k) /\ \A i \in 1..L(j) : i \in 1..L(k - 1)
          BY <1>6, <4>1, <4>2
        <4> QED
          BY <1>6, <4>1, <4>3
      <3>3. \A j \in 0..k : j = k \/ j \in 0..(k - 1)
        BY <1>4
      <3> HIDE DEF Kept
      <3> QED
        BY <1>4, <3>1, <3>2, <3>3
    <2> HIDE DEF S
    <2>3. 0..n \subseteq S
      BY <1>0, <2>1, <2>2, ByInduction
    <2> QED
      BY <1>0, <2>3 DEF S
  <1>8. ASSUME NEW k \in 1..n, NEW i \in 1..(A(k) + 1)
        PROVE  Cell(m[n], L(k - 1) + i - 1) = m[k][L(k - 1) + i]
    <2>1. L(k - 1) \in Nat /\ L(k) \in Nat /\ L(n) \in Nat /\ A(k) \in Nat /\ k \in 0..n
      BY <1>4, <1>5
    <2>2. L(k - 1) + i \in 1..L(k) /\ L(k - 1) + i - 1 < L(n)
      BY <1>6, <1>7, <2>1
    <2>3. m[n][L(k - 1) + i] = m[k][L(k - 1) + i]
      BY <1>7, <2>1, <2>2
    <2>4. L(k - 1) + i - 1 + 1 = L(k - 1) + i /\ L(n) = Len(m[n])
      BY <2>1 DEF L
    <2> QED
      BY <2>2, <2>3, <2>4 DEF Cell
  <1>9. \A k \in 1..n : Cell(m[n], L(k - 1)) = A(k)
    <2> SUFFICES ASSUME NEW k \in 1..n
                 PROVE  Cell(m[n], L(k - 1)) = A(k)
      OBVIOUS
    <2>1. 1 \in 1..(A(k) + 1) /\ L(k - 1) + 1 - 1 = L(k - 1)
      BY <1>4, <1>5
    <2>2. Cell(m[n], L(k - 1) + 1 - 1) = m[k][L(k - 1) + 1]
      BY <1>8, <2>1
    <2> QED
      BY <1>6, <2>1, <2>2
  <1>10. \A k \in 0..n : o[k] = L(k) /\ s[k] = 1 + L(k)
    <2> DEFINE S == {k \in 0..n : o[k] = L(k) /\ s[k] = 1 + L(k)}
    <2>1. 0 \in S
      BY <1>2, <1>3, <1>5
    <2>2. ASSUME NEW k \in 1..n, k - 1 \in S
          PROVE  k \in S
      <3>1. o[k - 1] = L(k - 1) /\ s[k - 1] = 1 + L(k - 1)
        BY <2>2
      <3>2. o[k] = L(k - 1) + 1 + A(k)
        BY <1>3, <1>9, <3>1
      <3>3. s[k] = 1 + L(k - 1) + 1 + A(k)
        BY <1>2, <3>1 DEF A
      <3>4. L(k - 1) \in Nat /\ A(k) \in Nat /\ k \in 0..n
        BY <1>4, <1>5
      <3> QED
        BY <1>6, <3>2, <3>3, <3>4
    <2> HIDE DEF S
    <2>3. 0..n \subseteq S
      BY <1>0, <2>1, <2>2, ByInduction
    <2> QED
      BY <2>3 DEF S
  <1>11. ASSUME NEW k \in 1..n
         PROVE  Cells(m[n], o[k - 1] + 1, Cell(m[n], o[k - 1])) = args[k]
    <2> DEFINE a == args[k]
    <2>1. o[k - 1] = L(k - 1) /\ Cell(m[n], o[k - 1]) = A(k)
      BY <1>4, <1>9, <1>10
    <2>2. a = [i \in 1..A(k) |-> a[i]]
      <3>1. a \in Seq(Nat)
        BY <1>0 DEF Cellseq
      <3> HIDE DEF a
      <3>2. a = [i \in 1..Len(a) |-> a[i]]
        BY <3>1
      <3> QED
        BY <3>2 DEF a, A
    <2>3. Cells(m[n], L(k - 1) + 1, A(k)) = [i \in 1..A(k) |-> Cell(m[n], L(k - 1) + 1 + i - 1)]
      BY DEF Cells
    <2>4. ASSUME NEW i \in 1..A(k)
          PROVE  Cell(m[n], L(k - 1) + 1 + i - 1) = a[i]
      <3>1. L(k - 1) \in Nat /\ A(k) \in Nat
        BY <1>4, <1>5
      <3>2. i + 1 \in 1..(A(k) + 1)
            /\ L(k - 1) + 1 + i - 1 = L(k - 1) + (i + 1) - 1
            /\ L(k - 1) + (i + 1) = L(k - 1) + 1 + i
        BY <3>1
      <3>3. Cell(m[n], L(k - 1) + (i + 1) - 1) = m[k][L(k - 1) + (i + 1)]
        BY <1>8, <3>2
      <3> QED
        BY <1>6, <3>2, <3>3
    <2> HIDE DEF a
    <2>5. [i \in 1..A(k) |-> Cell(m[n], L(k - 1) + 1 + i - 1)] = [i \in 1..A(k) |-> a[i]]
      BY <2>4
    <2> QED
      BY <2>1, <2>2, <2>3, <2>5 DEF a
  <1>12. args = [k \in 1..n |-> args[k]]
    BY DEF n
  <1>13. ReadArgs(m[n], n) = args
    BY <1>3, <1>11, <1>12
  <1> QED
    BY <1>0, <1>1, <1>2, <1>5, <1>10, <1>13 DEF n, L

\* A request: its length, the number of its arguments, the arguments.
LEMMA RequestReads ==
    ASSUME NEW args \in Seq(Cellseq)
    PROVE  /\ Request(args) \in Cellseq
           /\ Len(Request(args)) \in Nat /\ Len(Request(args)) >= 2
           /\ Request(args)[1] = Len(Request(args)) - 1
           /\ Request(args)[1] \in Nat
           /\ ReadArgs(SubSeq(Request(args), 3, Len(Request(args))), Request(args)[2])
                = args
  <1> DEFINE m == Layout(args)
             r == Request(args)
             pre == <<Payload(args), Len(args)>>
  <1>1. m \in Seq(Nat) /\ Payload(args) = 1 + Len(m) /\ ReadArgs(m, Len(args)) = args
    BY LayoutReads DEF Cellseq
  <1>2. r = pre \o m
    BY DEF Request
  <1>3. Len(m) \in Nat /\ Len(args) \in Nat /\ Payload(args) \in Nat
    BY <1>1
  <1>4. pre \in Seq(Nat) /\ Len(pre) = 2 /\ pre[1] = Payload(args) /\ pre[2] = Len(args)
    BY <1>3
  <1> HIDE DEF m, r, pre
  <1>5. /\ r \in Seq(Nat)
        /\ Len(r) = 2 + Len(m)
        /\ \A i \in 1..(2 + Len(m)) : r[i] = IF i <= 2 THEN pre[i] ELSE m[i - 2]
    <2>1. /\ pre \o m \in Seq(Nat)
          /\ Len(pre \o m) = Len(pre) + Len(m)
          /\ \A i \in 1..(Len(pre) + Len(m)) :
                (pre \o m)[i] = IF i <= Len(pre) THEN pre[i] ELSE m[i - Len(pre)]
      BY <1>1, <1>4, ConcatProperties
    <2> QED
      BY <1>2, <1>4, <2>1
  <1>6. r[1] = Payload(args) /\ r[2] = Len(args)
    BY <1>3, <1>4, <1>5
  <1>7. SubSeq(r, 3, Len(r)) = m
    <2>1. SubSeq(r, 3, Len(r)) \in Seq(Nat) /\ Len(SubSeq(r, 3, Len(r))) = Len(m)
      BY <1>3, <1>5
    <2>2. \A i \in 1..Len(m) : SubSeq(r, 3, Len(r))[i] = m[i]
      BY <1>3, <1>5
    <2> QED
      BY <1>1, <2>1, <2>2, SeqEqual
  <1> QED
    <2>1. r \in Seq(Nat) /\ Len(r) \in Nat /\ Len(r) >= 2 /\ r[1] = Len(r) - 1 /\ r[1] \in Nat
      BY <1>1, <1>3, <1>5, <1>6
    <2>2. ReadArgs(SubSeq(r, 3, Len(r)), r[2]) = args
      BY <1>1, <1>6, <1>7, Zenon
    <2> QED
      BY <2>1, <2>2 DEF r, Cellseq

-----------------------------------------------------------------------------
(* A stream that is a number of requests, one after the other.             *)

\* c[k] is where request k of rs begins in the stream s.
Cut(c, s, rs) ==
    LET n == Len(rs)
    IN /\ c \in [1..(n + 1) -> Nat]
       /\ c[1] = 0
       /\ c[n + 1] = Len(s)
       /\ \A j, k \in 1..(n + 1) : j <= k => c[j] <= c[k]
       /\ \A k \in 1..n : /\ c[k + 1] = c[k] + Len(rs[k])
                          /\ \A i \in 1..Len(rs[k]) : s[c[k] + i] = rs[k][i]

Carries(s, rs) == \E c : Cut(c, s, rs)

LEMMA CarriesNone == Carries(<<>>, <<>>)
  <1> DEFINE c == [k \in 1..1 |-> 0]
  <1>1. Cut(c, <<>>, <<>>)
    BY DEF Cut
  <1> QED
    BY <1>1 DEF Carries

\* One more request at the end.
LEMMA CarriesMore ==
    ASSUME NEW s \in Cellseq, NEW rs \in Seq(Cellseq), NEW r \in Cellseq,
           Carries(s, rs)
    PROVE  Carries(s \o r, Append(rs, r))
  <1> DEFINE n == Len(rs)
             t == s \o r
             qs == Append(rs, r)
  <1>1. PICK c : Cut(c, s, rs)
    BY DEF Carries
  <1> DEFINE d == [k \in 1..(n + 2) |-> IF k = n + 2 THEN Len(s) + Len(r) ELSE c[k]]
  <1>2. /\ n \in Nat /\ Len(s) \in Nat /\ Len(r) \in Nat
        /\ Len(qs) = n + 1
        /\ qs[n + 1] = r
        /\ \A k \in 1..n : qs[k] = rs[k] /\ Len(rs[k]) \in Nat
    BY DEF Cellseq
  <1>3. /\ Len(t) = Len(s) + Len(r)
        /\ \A i \in 1..(Len(s) + Len(r)) :
              t[i] = IF i <= Len(s) THEN s[i] ELSE r[i - Len(s)]
    BY ConcatProperties DEF Cellseq
  <1> HIDE DEF n, t, qs
  <1>4. /\ c \in [1..(n + 1) -> Nat] /\ c[1] = 0 /\ c[n + 1] = Len(s)
        /\ \A j, k \in 1..(n + 1) : j <= k => c[j] <= c[k]
        /\ \A k \in 1..n : /\ c[k + 1] = c[k] + Len(rs[k])
                           /\ \A i \in 1..Len(rs[k]) : s[c[k] + i] = rs[k][i]
    BY <1>1 DEF Cut, n
  <1>5. /\ \A k \in 1..(n + 1) : d[k] = c[k] /\ d[k] <= Len(s) /\ d[k] \in Nat
        /\ d[n + 2] = Len(s) + Len(r)
    <2>1. \A k \in 1..(n + 1) : k # n + 2 /\ k \in 1..(n + 2) /\ n + 1 \in 1..(n + 1) /\ k <= n + 1
      BY <1>2
    <2>2. \A k \in 1..(n + 1) : c[k] <= Len(s) /\ c[k] \in Nat
      BY <1>4, <2>1
    <2>3. n + 2 \in 1..(n + 2)
      BY <1>2
    <2> QED
      BY <2>1, <2>2, <2>3
  <1>6. d \in [1..(n + 2) -> Nat]
    <2>1. \A k \in 1..(n + 2) : d[k] \in Nat
      <3>1. \A k \in 1..(n + 2) : k = n + 2 \/ k \in 1..(n + 1)
        BY <1>2
      <3> HIDE DEF d
      <3> QED
        BY <1>2, <1>5, <3>1
    <2>2. d = [k \in 1..(n + 2) |-> d[k]]
      OBVIOUS
    <2> HIDE DEF d
    <2> QED
      BY <2>1, <2>2
  <1> HIDE DEF d
  <1>7. \A j, k \in 1..(n + 2) : j <= k => d[j] <= d[k]
    <2> SUFFICES ASSUME NEW j \in 1..(n + 2), NEW k \in 1..(n + 2), j <= k
                 PROVE  d[j] <= d[k]
      OBVIOUS
    <2>1. CASE k = n + 2
      <3>1. j = n + 2 \/ j \in 1..(n + 1)
        BY <1>2
      <3> QED
        BY <1>2, <1>5, <2>1, <3>1
    <2>2. CASE k # n + 2
      <3>1. j \in 1..(n + 1) /\ k \in 1..(n + 1)
        BY <1>2, <2>2
      <3> QED
        BY <1>4, <1>5, <3>1
    <2> QED
      BY <2>1, <2>2
  <1>8. ASSUME NEW k \in 1..(n + 1)
        PROVE  /\ d[k + 1] = d[k] + Len(qs[k])
               /\ \A i \in 1..Len(qs[k]) : t[d[k] + i] = qs[k][i]
    <2>1. CASE k = n + 1
      <3>1. d[k] = Len(s) /\ d[k + 1] = Len(s) + Len(r) /\ qs[k] = r
        BY <1>2, <1>4, <1>5, <2>1
      <3> QED
        BY <1>2, <1>3, <3>1
    <2>2. CASE k # n + 1
      <3>1. k \in 1..n /\ k + 1 \in 1..(n + 1)
        BY <1>2, <2>2
      <3>2. d[k + 1] = c[k + 1] /\ d[k] = c[k] /\ qs[k] = rs[k] /\ d[k] \in Nat
            /\ d[k + 1] <= Len(s) /\ Len(rs[k]) \in Nat
        BY <1>2, <1>5, <3>1
      <3>3. c[k + 1] = c[k] + Len(rs[k]) /\ \A i \in 1..Len(rs[k]) : s[c[k] + i] = rs[k][i]
        BY <1>4, <3>1
      <3>4. \A i \in 1..Len(rs[k]) : t[d[k] + i] = s[d[k] + i]
        <4>1. \A i \in 1..Len(rs[k]) :
                 d[k] + i \in 1..(Len(s) + Len(r)) /\ d[k] + i <= Len(s)
          BY <1>2, <3>2, <3>3
        <4> QED
          BY <1>3, <4>1
      <3> QED
        BY <3>2, <3>3, <3>4
    <2> QED
      BY <2>1, <2>2
  <1>9. d[1] = 0
    BY <1>2, <1>4, <1>5
  <1>10. Cut(d, t, qs)
    <2>1. n + 1 + 1 = n + 2
      BY <1>2
    <2> QED
      BY <1>2, <1>3, <1>5, <1>6, <1>7, <1>8, <1>9, <2>1 DEF Cut
  <1> QED
    BY <1>10 DEF Carries, t, qs

\* What is left of a stream when p cells are taken.
LEMMA DropFacts ==
    ASSUME NEW s \in Cellseq, NEW p \in Nat, p <= Len(s)
    PROVE  LET t == SubSeq(s, p + 1, Len(s))
           IN /\ t \in Cellseq
              /\ Len(s) \in Nat
              /\ Len(t) = Len(s) - p
              /\ \A i \in 1..(Len(s) - p) : t[i] = s[p + i]
  <1> DEFINE t == SubSeq(s, p + 1, Len(s))
  <1>1. s \in Seq(Nat) /\ Len(s) \in Nat /\ \A i \in (p + 1)..Len(s) : s[i] \in Nat
    BY DEF Cellseq
  <1>2. /\ t \in Seq(Nat)
        /\ Len(t) = IF p + 1 <= Len(s) THEN Len(s) - (p + 1) + 1 ELSE 0
        /\ \A i \in 1..(Len(s) - (p + 1) + 1) : t[i] = s[(p + 1) + i - 1]
    BY <1>1, SubSeqProperties
  <1> HIDE DEF t
  <1>3. Len(t) = Len(s) - p /\ \A i \in 1..(Len(s) - p) : t[i] = s[p + i]
    BY <1>1, <1>2
  <1> QED
    BY <1>1, <1>2, <1>3 DEF t, Cellseq

\* The first request is a prefix, and the rest of the stream carries the others.
LEMMA CarriesFirst ==
    ASSUME NEW s \in Cellseq, NEW rs \in Seq(Cellseq), rs # <<>>, Carries(s, rs)
    PROVE  LET p == Len(rs[1])
           IN /\ p \in Nat /\ p <= Len(s)
              /\ \A i \in 1..p : s[i] = rs[1][i]
              /\ Carries(SubSeq(s, p + 1, Len(s)), Tail(rs))
  <1> DEFINE n == Len(rs)
             p == Len(rs[1])
             t == SubSeq(s, p + 1, Len(s))
             qs == Tail(rs)
  <1>1. PICK c : Cut(c, s, rs)
    BY DEF Carries
  <1> DEFINE d == [k \in 1..n |-> c[k + 1] - p]
  <1>2. /\ n \in Nat /\ n >= 1 /\ Len(s) \in Nat /\ p \in Nat
        /\ Len(qs) = n - 1
        /\ \A k \in 1..(n - 1) : qs[k] = rs[k + 1]
        /\ \A k \in 1..n : Len(rs[k]) \in Nat
    BY DEF Cellseq
  <1> HIDE DEF n, qs
  <1>4. /\ c \in [1..(n + 1) -> Nat] /\ c[1] = 0 /\ c[n + 1] = Len(s)
        /\ \A j, k \in 1..(n + 1) : j <= k => c[j] <= c[k]
        /\ \A k \in 1..n : /\ c[k + 1] = c[k] + Len(rs[k])
                           /\ \A i \in 1..Len(rs[k]) : s[c[k] + i] = rs[k][i]
    BY <1>1 DEF Cut, n
  <1>5. /\ \A k \in 1..n : k \in 1..(n + 1) /\ k + 1 \in 1..(n + 1) /\ 2 <= k + 1
        /\ 1 \in 1..n /\ 2 \in 1..(n + 1) /\ n + 1 \in 1..(n + 1) /\ 2 <= n + 1
    BY <1>2
  <1>6. c[2] = p /\ p <= Len(s) /\ \A i \in 1..p : s[i] = rs[1][i]
    <2>1. c[1 + 1] = c[1] + Len(rs[1]) /\ \A i \in 1..Len(rs[1]) : s[c[1] + i] = rs[1][i]
      BY <1>4, <1>5
    <2>2. c[2] = p
      BY <1>2, <1>4, <2>1
    <2>3. p <= Len(s)
      BY <1>4, <1>5, <2>2
    <2> QED
      BY <1>2, <1>4, <2>1, <2>2, <2>3
  <1> HIDE DEF p
  <1>3. /\ Len(t) = Len(s) - p
        /\ \A i \in 1..(Len(s) - p) : t[i] = s[p + i]
    BY <1>2, <1>6, DropFacts
  <1> HIDE DEF t
  <1>7. \A k \in 1..n : d[k] = c[k + 1] - p /\ d[k] \in Nat /\ c[k + 1] \in Nat
    <2>1. \A k \in 1..n : c[k + 1] \in Nat /\ c[2] <= c[k + 1]
      BY <1>4, <1>5
    <2> QED
      BY <1>2, <1>6, <2>1
  <1>8. d \in [1..n -> Nat]
    <2>1. d = [k \in 1..n |-> d[k]]
      OBVIOUS
    <2> HIDE DEF d
    <2> QED
      BY <1>7, <2>1
  <1> HIDE DEF d
  <1>9. d[1] = 0 /\ d[n] = Len(t)
    <2>1. n \in 1..n /\ 1 + 1 = 2
      BY <1>2
    <2>2. d[1] = c[2] - p /\ d[n] = c[n + 1] - p
      BY <1>5, <1>7, <2>1
    <2>3. d[n] = Len(s) - p
      BY <1>4, <2>2
    <2> QED
      BY <1>2, <1>3, <1>6, <2>2, <2>3
  <1>10. \A j, k \in 1..n : j <= k => d[j] <= d[k]
    <2> SUFFICES ASSUME NEW j \in 1..n, NEW k \in 1..n, j <= k
                 PROVE  d[j] <= d[k]
      OBVIOUS
    <2>1. c[j + 1] <= c[k + 1]
      <3>1. j + 1 <= k + 1
        OBVIOUS
      <3> QED
        BY <1>4, <1>5, <3>1
    <2> QED
      BY <1>2, <1>7, <2>1
  <1>11. ASSUME NEW k \in 1..(n - 1)
         PROVE  /\ d[k + 1] = d[k] + Len(qs[k])
                /\ \A i \in 1..Len(qs[k]) : t[d[k] + i] = qs[k][i]
    <2>1. k \in 1..n /\ k + 1 \in 1..n /\ qs[k] = rs[k + 1] /\ Len(rs[k + 1]) \in Nat
      BY <1>2
    <2>2. /\ c[k + 1 + 1] = c[k + 1] + Len(rs[k + 1])
          /\ \A i \in 1..Len(rs[k + 1]) : s[c[k + 1] + i] = rs[k + 1][i]
      BY <1>4, <2>1
    <2>6. /\ d[k] = c[k + 1] - p /\ d[k] \in Nat /\ c[k + 1] \in Nat
          /\ d[k + 1] = c[k + 1 + 1] - p
      BY <1>7, <2>1
    <2>7. Len(qs[k]) = Len(rs[k + 1]) /\ Len(qs[k]) \in Nat /\ p \in Nat
      BY <1>2, <2>1
    <2>8. d[k + 1] = c[k + 1] + Len(qs[k]) - p
      BY <2>2, <2>6, <2>7
    <2>3. d[k + 1] = d[k] + Len(qs[k])
      BY <2>6, <2>7, <2>8
    <2>4. d[k + 1] <= Len(s) - p
      <3>1. d[k + 1] <= d[n]
        <4>1. n \in 1..n /\ k + 1 <= n
          BY <1>2
        <4> QED
          BY <1>10, <2>1, <4>1
      <3> QED
        BY <1>3, <1>9, <3>1
    <2>5. ASSUME NEW i \in 1..Len(qs[k])
          PROVE  t[d[k] + i] = qs[k][i]
      <3>1. d[k] \in Nat /\ d[k] + i \in 1..(Len(s) - p) /\ p + (d[k] + i) = c[k + 1] + i
        <4>1. i \in Nat /\ 1 <= i /\ i <= Len(qs[k])
          BY <2>7
        <4>2. p + (d[k] + i) = c[k + 1] + i
          BY <2>6, <2>7, <4>1
        <4>3. d[k] + i <= Len(s) - p /\ 1 <= d[k] + i /\ d[k] + i \in Int
          <5>1. Len(s) - p \in Int /\ d[k] \in Nat
            BY <1>2, <2>6, <2>7
          <5>2. d[k] + Len(qs[k]) <= Len(s) - p
            BY <2>3, <2>4
          <5> QED
            BY <2>7, <4>1, <5>1, <5>2
        <4> QED
          BY <1>2, <2>6, <2>7, <4>2, <4>3
      <3> QED
        BY <1>3, <2>1, <2>2, <3>1
    <2> QED
      BY <2>3, <2>5
  <1>12. Cut(d, t, qs)
    <2>1. n - 1 + 1 = n
      BY <1>2
    <2> QED
      BY <1>2, <1>8, <1>9, <1>10, <1>11, <2>1 DEF Cut
  <1> QED
    BY <1>2, <1>6, <1>12 DEF Carries, t, p, qs

LEMMA CarriesNothing ==
    ASSUME NEW s \in Cellseq, Carries(s, <<>>)
    PROVE  s = <<>>
  <1>1. PICK c : Cut(c, s, <<>>)
    BY DEF Carries
  <1>2. c[1] = 0 /\ c[0 + 1] = Len(s)
    BY <1>1 DEF Cut
  <1> QED
    BY <1>2 DEF Cellseq

-----------------------------------------------------------------------------
(* The requests on the wire.                                               *)

\* The cells on their way to the server, the unwritten ones of send() too.
Stream(p, u, o) == IF p = "write" THEN u \o o ELSE u

\* The requests of numbers a, as send() laid them out.
Laid(a, s) == [k \in 1..Len(a) |-> Request(s[a[k]])]

LEMMA LaidFacts ==
    ASSUME NEW s \in Seq(Requests), NEW a \in Seq(1..Len(s))
    PROVE  /\ Laid(a, s) \in Seq(Cellseq)
           /\ Len(Laid(a, s)) = Len(a) /\ Len(a) \in Nat
           /\ \A k \in 1..Len(a) : /\ a[k] \in 1..Len(s)
                                   /\ s[a[k]] \in Seq(Cellseq)
                                   /\ Laid(a, s)[k] = Request(s[a[k]])
  <1>1. \A k \in 1..Len(a) : a[k] \in 1..Len(s)
    BY ElementOfSeq
  <1>2. \A k \in 1..Len(s) : s[k] \in Seq(Cellseq)
    BY ElementOfSeq, ClientAssumption DEF Cellseq
  <1>3. \A k \in 1..Len(a) : Request(s[a[k]]) \in Cellseq
    BY <1>1, <1>2, RequestReads
  <1>4. Len(a) \in Nat
    OBVIOUS
  <1>5. Laid(a, s) \in [1..Len(a) -> Cellseq]
    BY <1>3 DEF Laid
  <1>6. Laid(a, s) \in Seq(Cellseq) /\ Len(Laid(a, s)) = Len(a)
    BY <1>4, <1>5
  <1> QED
    BY <1>1, <1>2, <1>4, <1>6 DEF Laid

\* send() adds its request to a connection that is open ...
LEMMA LaidMore ==
    ASSUME NEW s \in Seq(Requests), NEW a \in Seq(1..Len(s)), NEW x \in Requests
    PROVE  /\ Append(a, Len(s) + 1) \in Seq(1..Len(Append(s, x)))
           /\ Laid(Append(a, Len(s) + 1), Append(s, x)) = Append(Laid(a, s), Request(x))
  <1> DEFINE n == Len(s)
             b == Append(a, n + 1)
             t == Append(s, x)
             l == Laid(a, s)
             r == Request(x)
  <1>1. n \in Nat /\ t \in Seq(Requests) /\ Len(t) = n + 1 /\ t[n + 1] = x
        /\ \A k \in 1..n : t[k] = s[k]
    OBVIOUS
  <1>2. Len(a) \in Nat /\ a \in Seq(1..(n + 1)) /\ n + 1 \in 1..(n + 1)
        /\ \A k \in 1..Len(a) : a[k] \in 1..n
    <2>1. 1..n \subseteq 1..(n + 1) /\ n + 1 \in 1..(n + 1)
      BY <1>1
    <2> QED
      BY <2>1, SeqMonotonic, ElementOfSeq
  <1>3. b \in Seq(1..(n + 1)) /\ Len(b) = Len(a) + 1 /\ b[Len(a) + 1] = n + 1
        /\ \A k \in 1..Len(a) : b[k] = a[k]
    BY <1>2, AppendProperties
  <1>4. b \in Seq(1..Len(t))
    BY <1>1, <1>3
  <1>5. /\ l \in Seq(Cellseq) /\ Len(l) = Len(a)
        /\ \A k \in 1..Len(a) : l[k] = Request(s[a[k]])
    BY LaidFacts
  <1>6. r \in Cellseq
    BY RequestReads, ClientAssumption DEF Cellseq
  <1>7. /\ Laid(b, t) \in Seq(Cellseq) /\ Len(Laid(b, t)) = Len(b)
        /\ \A k \in 1..Len(b) : Laid(b, t)[k] = Request(t[b[k]])
    <2> HIDE DEF b, t
    <2> QED
      BY <1>1, <1>4, LaidFacts
  <1> HIDE DEF b, t, l, r, n
  <1>8. /\ Append(l, r) \in Seq(Cellseq) /\ Len(Append(l, r)) = Len(a) + 1
        /\ \A k \in 1..Len(a) : Append(l, r)[k] = l[k]
        /\ Append(l, r)[Len(a) + 1] = r
    BY <1>5, <1>6, AppendProperties
  <1>9. \A k \in 1..(Len(a) + 1) : Laid(b, t)[k] = Append(l, r)[k]
    <2> SUFFICES ASSUME NEW k \in 1..(Len(a) + 1)
                 PROVE  Laid(b, t)[k] = Append(l, r)[k]
      OBVIOUS
    <2>1. CASE k = Len(a) + 1
      BY <1>1, <1>3, <1>7, <1>8, <2>1 DEF r
    <2>2. CASE k # Len(a) + 1
      <3>1. k \in 1..Len(a)
        BY <1>2, <2>2
      <3>2. t[b[k]] = s[a[k]]
        BY <1>1, <1>2, <1>3, <3>1
      <3> QED
        BY <1>3, <1>5, <1>7, <1>8, <3>1, <3>2
    <2> QED
      BY <2>1, <2>2
  <1>10. Laid(b, t) = Append(l, r)
    BY <1>3, <1>7, <1>8, <1>9, SeqEqual
  <1> QED
    BY <1>4, <1>10 DEF b, t, l, r, n

\* ... and to no other.
LEMMA LaidSame ==
    ASSUME NEW s \in Seq(Requests), NEW a \in Seq(1..Len(s)), NEW x \in Requests
    PROVE  /\ a \in Seq(1..Len(Append(s, x)))
           /\ Laid(a, Append(s, x)) = Laid(a, s)
  <1>1. Len(s) \in Nat /\ Len(Append(s, x)) = Len(s) + 1
        /\ \A k \in 1..Len(s) : Append(s, x)[k] = s[k]
    OBVIOUS
  <1>2. 1..Len(s) \subseteq 1..Len(Append(s, x))
    BY <1>1
  <1>3. \A k \in 1..Len(a) : a[k] \in 1..Len(s)
    BY ElementOfSeq
  <1>4. a \in Seq(1..Len(Append(s, x)))
    BY <1>2, SeqMonotonic
  <1>5. \A k \in 1..Len(a) : Append(s, x)[a[k]] = s[a[k]]
    BY <1>1, <1>3
  <1> QED
    BY <1>4, <1>5 DEF Laid

\* The server takes the first.
LEMMA LaidTail ==
    ASSUME NEW s \in Seq(Requests), NEW a \in Seq(1..Len(s)), a # <<>>
    PROVE  /\ Tail(a) \in Seq(1..Len(s))
           /\ Laid(Tail(a), s) = Tail(Laid(a, s))
  <1> DEFINE b == Tail(a)
             l == Laid(a, s)
             m == Laid(b, s)
  <1>1. b \in Seq(1..Len(s)) /\ Len(b) = Len(a) - 1 /\ Len(a) \in Nat \ {0}
        /\ \A k \in 1..Len(b) : b[k] = a[k + 1]
    BY HeadTailProperties
  <1>2. /\ l \in Seq(Cellseq) /\ Len(l) = Len(a)
        /\ \A k \in 1..Len(a) : l[k] = Request(s[a[k]])
    BY LaidFacts
  <1>3. /\ m \in Seq(Cellseq) /\ Len(m) = Len(b)
        /\ \A k \in 1..Len(b) : m[k] = Request(s[b[k]])
    <2> HIDE DEF b
    <2> QED
      BY <1>1, LaidFacts
  <1> HIDE DEF b, l, m
  <1>4. l # <<>>
    BY <1>1, <1>2
  <1>5. /\ Tail(l) \in Seq(Cellseq) /\ Len(Tail(l)) = Len(l) - 1
        /\ \A i \in 1..Len(Tail(l)) : Tail(l)[i] = l[i + 1]
    BY <1>2, <1>4, HeadTailProperties
  <1>6. \A k \in 1..Len(b) : m[k] = Tail(l)[k]
    <2> SUFFICES ASSUME NEW k \in 1..Len(b)
                 PROVE  m[k] = Tail(l)[k]
      OBVIOUS
    <2>1. k + 1 \in 1..Len(a) /\ Len(Tail(l)) = Len(b)
      BY <1>1, <1>2, <1>5
    <2> QED
      BY <1>1, <1>2, <1>3, <1>5, <2>1
  <1>7. m = Tail(l)
    BY <1>1, <1>2, <1>3, <1>5, <1>6, SeqEqual
  <1> QED
    BY <1>1, <1>7 DEF b, l, m

\* A concatenation, cell by cell.
LEMMA ConcatFacts ==
    ASSUME NEW s \in Cellseq, NEW t \in Cellseq
    PROVE  /\ s \o t \in Cellseq
           /\ Len(s) \in Nat /\ Len(t) \in Nat /\ Len(s \o t) = Len(s) + Len(t)
           /\ \A i \in 1..Len(s) : (s \o t)[i] = s[i]
           /\ \A i \in 1..Len(t) : (s \o t)[Len(s) + i] = t[i]
           /\ s \o <<>> = s
  <1>1. s \in Seq(Nat) /\ t \in Seq(Nat) /\ Len(s) \in Nat /\ Len(t) \in Nat
    BY DEF Cellseq
  <1>2. /\ s \o t \in Seq(Nat)
        /\ Len(s \o t) = Len(s) + Len(t)
        /\ \A i \in 1..(Len(s) + Len(t)) :
              (s \o t)[i] = IF i <= Len(s) THEN s[i] ELSE t[i - Len(s)]
    BY <1>1, ConcatProperties
  <1>3. \A i \in 1..Len(s) : i \in 1..(Len(s) + Len(t)) /\ i <= Len(s)
    BY <1>1
  <1>4. \A i \in 1..Len(t) : /\ Len(s) + i \in 1..(Len(s) + Len(t)) /\ ~(Len(s) + i <= Len(s))
                             /\ Len(s) + i - Len(s) = i
    BY <1>1
  <1>5. s \o <<>> = s
    BY <1>1, ConcatEmptySeq
  <1> QED
    BY <1>1, <1>2, <1>3, <1>4, <1>5 DEF Cellseq

LEMMA SameCells ==
    ASSUME NEW s \in Cellseq, NEW t \in Cellseq, Len(s) = Len(t),
           \A i \in 1..Len(s) : s[i] = t[i]
    PROVE  s = t
  BY SeqEqual DEF Cellseq

LEMMA ConcatThree ==
    ASSUME NEW u \in Cellseq, NEW x \in Cellseq, NEW w \in Cellseq
    PROVE  (u \o x) \o w = u \o (x \o w)
  <1> DEFINE v == u \o x
             y == x \o w
             l == v \o w
             r == u \o y
  <1>1. /\ v \in Cellseq /\ Len(u) \in Nat /\ Len(x) \in Nat /\ Len(v) = Len(u) + Len(x)
        /\ \A i \in 1..Len(u) : v[i] = u[i]
        /\ \A i \in 1..Len(x) : v[Len(u) + i] = x[i]
    BY ConcatFacts
  <1>2. /\ y \in Cellseq /\ Len(w) \in Nat /\ Len(y) = Len(x) + Len(w)
        /\ \A i \in 1..Len(x) : y[i] = x[i]
        /\ \A i \in 1..Len(w) : y[Len(x) + i] = w[i]
    BY ConcatFacts
  <1> HIDE DEF v, y
  <1>3. /\ l \in Cellseq /\ Len(l) = Len(v) + Len(w)
        /\ \A i \in 1..Len(v) : l[i] = v[i]
        /\ \A i \in 1..Len(w) : l[Len(v) + i] = w[i]
    BY <1>1, ConcatFacts
  <1>4. /\ r \in Cellseq /\ Len(r) = Len(u) + Len(y)
        /\ \A i \in 1..Len(u) : r[i] = u[i]
        /\ \A i \in 1..Len(y) : r[Len(u) + i] = y[i]
    BY <1>2, ConcatFacts
  <1> HIDE DEF l, r
  <1>5. Len(l) = Len(r)
    BY <1>1, <1>2, <1>3, <1>4
  <1>6. ASSUME NEW i \in 1..Len(l)
        PROVE  l[i] = r[i]
    <2>1. CASE i \in 1..Len(u)
      <3>1. i \in 1..Len(v)
        BY <1>1, <2>1
      <3> QED
        BY <1>1, <1>3, <1>4, <2>1, <3>1
    <2>2. ASSUME NEW j \in 1..Len(x), i = Len(u) + j
          PROVE  l[i] = r[i]
      <3>1. i \in 1..Len(v) /\ j \in 1..Len(y)
        BY <1>1, <1>2, <2>2
      <3>2. l[i] = x[j]
        BY <1>1, <1>3, <2>2, <3>1
      <3>3. r[i] = x[j]
        BY <1>2, <1>4, <2>2, <3>1
      <3> QED
        BY <3>2, <3>3
    <2>3. ASSUME NEW j \in 1..Len(w), i = Len(u) + (Len(x) + j)
          PROVE  l[i] = r[i]
      <3>1. i = Len(v) + j /\ Len(x) + j \in 1..Len(y)
        BY <1>1, <1>2, <2>3
      <3>2. l[i] = w[j]
        BY <1>3, <3>1
      <3>3. r[i] = w[j]
        BY <1>2, <1>4, <2>3, <3>1
      <3> QED
        BY <3>2, <3>3
    <2>4. \/ i \in 1..Len(u)
          \/ i - Len(u) \in 1..Len(x) /\ i = Len(u) + (i - Len(u))
          \/ /\ i - Len(u) - Len(x) \in 1..Len(w)
             /\ i = Len(u) + (Len(x) + (i - Len(u) - Len(x)))
      BY <1>1, <1>2, <1>3
    <2> QED
      BY <2>1, <2>2, <2>3, <2>4
  <1>7. l = r
    BY <1>3, <1>4, <1>5, <1>6, SameCells
  <1> QED
    BY <1>7 DEF l, r, v, y

\* A stream is what is taken of it and what is left.
LEMMA TakeDrop ==
    ASSUME NEW o \in Cellseq, NEW n \in 0..Len(o)
    PROVE  LET x == SubSeq(o, 1, n)
               rest == SubSeq(o, n + 1, Len(o))
           IN /\ x \in Cellseq /\ Len(x) = n /\ \A i \in 1..n : x[i] = o[i]
              /\ rest \in Cellseq /\ Len(o) \in Nat /\ Len(rest) = Len(o) - n
              /\ \A i \in 1..(Len(o) - n) : rest[i] = o[n + i]
              /\ x \o rest = o
  <1> DEFINE x == SubSeq(o, 1, n)
             rest == SubSeq(o, n + 1, Len(o))
  <1>1. o \in Seq(Nat) /\ Len(o) \in Nat
    BY DEF Cellseq
  <1>2. x \in Seq(Nat) /\ Len(x) = n /\ \A i \in 1..n : x[i] = o[i]
    <2>1. \A i \in 1..n : o[i] \in Nat
      BY <1>1
    <2>2. x \in Seq(Nat) /\ Len(x) = (IF 1 <= n THEN n - 1 + 1 ELSE 0)
          /\ \A i \in 1..(n - 1 + 1) : x[i] = o[1 + i - 1]
      BY <1>1, <2>1, SubSeqProperties
    <2> HIDE DEF x
    <2> QED
      BY <1>1, <2>2
  <1>3. x \o rest = o
    <2>1. 1 \in 1..(Len(o) + 1) /\ n \in (1 - 1)..Len(o) /\ Len(o) \in n..Len(o)
      BY <1>1
    <2>2. x \o rest = SubSeq(o, 1, Len(o))
      BY <1>1, <2>1, ConcatAdjacentSubSeq
    <2> QED
      BY <1>1, <2>2, SubSeqFull
  <1>4. /\ rest \in Cellseq /\ Len(rest) = Len(o) - n
        /\ \A i \in 1..(Len(o) - n) : rest[i] = o[n + i]
    <2>1. n \in Nat /\ n <= Len(o)
      BY <1>1
    <2> QED
      BY <2>1, DropFacts
  <1> QED
    BY <1>1, <1>2, <1>3, <1>4 DEF Cellseq

\* What ::send takes is what the server gets: the stream is the same.
LEMMA WriteKeeps ==
    ASSUME NEW u \in Cellseq, NEW o \in Cellseq, NEW n \in 1..Len(o)
    PROVE  LET rest == SubSeq(o, n + 1, Len(o))
               v == u \o SubSeq(o, 1, n)
           IN /\ v \in Cellseq /\ rest \in Cellseq
              /\ v \o rest = u \o o
              /\ rest = <<>> => v = u \o o
  <1> DEFINE x == SubSeq(o, 1, n)
             rest == SubSeq(o, n + 1, Len(o))
  <1>1. n \in 0..Len(o)
    BY DEF Cellseq
  <1>2. x \in Cellseq /\ rest \in Cellseq /\ x \o rest = o
    BY <1>1, TakeDrop
  <1> HIDE DEF x, rest
  <1>3. u \o x \in Cellseq /\ (u \o x) \o rest = u \o (x \o rest)
    <2>1. u \o x \in Cellseq
      BY <1>2, ConcatFacts
    <2>2. (u \o x) \o rest = u \o (x \o rest)
      BY <1>2, ConcatThree, Zenon
    <2> QED
      BY <2>1, <2>2
  <1>4. rest = <<>> => x \o rest = x
    BY <1>2, ConcatFacts
  <1> QED
    BY <1>2, <1>3, <1>4 DEF x, rest

\* The server has a whole request, the first of the stream u \o w, in u: it
\* reads the arguments send() was given and leaves the other requests.
LEMMA ServeReads ==
    ASSUME NEW s \in Seq(Requests), NEW a \in Seq(1..Len(s)),
           NEW u \in Cellseq, NEW w \in Cellseq,
           Carries(u \o w, Laid(a, s)), u # <<>>, Len(u) > u[1]
    PROVE  /\ a # <<>> /\ u[1] \in Nat
           /\ Len(Request(s[a[1]])) = u[1] + 1
           /\ ReadArgs(SubSeq(u, 3, u[1] + 1), u[2]) = s[a[1]]
           /\ SubSeq(u, u[1] + 2, Len(u)) \in Cellseq
           /\ Carries(SubSeq(u, u[1] + 2, Len(u)) \o w, Laid(Tail(a), s))
  <1> DEFINE t == u \o w
             rs == Laid(a, s)
             r == Request(s[a[1]])
             p == Len(r)
             v == SubSeq(u, p + 1, Len(u))
             x == SubSeq(t, p + 1, Len(t))
  <1>1. Len(u) \in Nat \ {0} /\ u[1] \in Nat
    BY DEF Cellseq
  <1>2. /\ t \in Cellseq /\ Len(w) \in Nat /\ Len(t) = Len(u) + Len(w)
        /\ \A i \in 1..Len(u) : t[i] = u[i]
        /\ \A i \in 1..Len(w) : t[Len(u) + i] = w[i]
    BY ConcatFacts
  <1>3. rs \in Seq(Cellseq) /\ Len(rs) = Len(a) /\ Len(a) \in Nat /\ Carries(t, rs)
    BY LaidFacts
  <1> HIDE DEF t, rs
  <1>4. a # <<>>
    <2> SUFFICES ASSUME a = <<>>
                 PROVE  FALSE
      OBVIOUS
    <2>1. rs = <<>>
      BY <1>3
    <2>2. t = <<>>
      BY <1>2, <1>3, <2>1, CarriesNothing
    <2> QED
      BY <1>1, <1>2, <2>2
  <1>5. 1 \in 1..Len(a) /\ rs # <<>>
    BY <1>3, <1>4
  <1>6. s[a[1]] \in Seq(Cellseq) /\ rs[1] = r
    BY <1>5, LaidFacts DEF rs
  <1>7. /\ r \in Cellseq /\ p \in Nat /\ p >= 2 /\ r[1] = p - 1
        /\ ReadArgs(SubSeq(r, 3, p), r[2]) = s[a[1]]
    BY <1>6, RequestReads
  <1>8. /\ p <= Len(t)
        /\ \A i \in 1..p : t[i] = r[i]
        /\ Carries(x, Tail(rs))
    <2> DEFINE q == Len(rs[1])
    <2> HIDE DEF r
    <2>1. /\ q <= Len(t)
          /\ \A i \in 1..q : t[i] = rs[1][i]
          /\ Carries(SubSeq(t, q + 1, Len(t)), Tail(rs))
      BY <1>2, <1>3, <1>5, CarriesFirst
    <2> QED
      BY <1>6, <2>1
  <1> HIDE DEF r, p, v, x
  <1>9. u[1] = p - 1 /\ p <= Len(u) /\ \A i \in 1..p : u[i] = r[i]
    <2>1. 1 \in 1..p /\ 1 \in 1..Len(u)
      BY <1>1, <1>7
    <2>2. u[1] = p - 1
      BY <1>2, <1>7, <1>8, <2>1
    <2>3. p <= Len(u)
      BY <1>1, <1>7, <2>2
    <2>4. \A i \in 1..p : i \in 1..Len(u)
      BY <1>1, <1>7, <2>3
    <2> QED
      BY <1>2, <1>8, <2>2, <2>3, <2>4
  <1>10. u[1] + 1 = p /\ u[1] + 2 = p + 1
    BY <1>7, <1>9
  <1>11. SubSeq(u, 3, p) = SubSeq(r, 3, p) /\ u[2] = r[2]
    <2>1. \A i \in 3..p : u[i] = r[i]
      BY <1>7, <1>9
    <2>2. SubSeq(u, 3, p) = SubSeq(r, 3, p)
      BY <2>1, <1>7
    <2>3. 2 \in 1..p
      BY <1>7
    <2> QED
      BY <1>9, <2>2, <2>3
  <1>12. v \in Cellseq /\ Len(v) = Len(u) - p /\ \A i \in 1..(Len(u) - p) : v[i] = u[p + i]
    BY <1>7, <1>9, DropFacts DEF v
  <1>13. x \in Cellseq /\ Len(x) = Len(t) - p /\ \A i \in 1..(Len(t) - p) : x[i] = t[p + i]
    BY <1>2, <1>7, <1>8, DropFacts DEF x
  <1>14. /\ v \o w \in Cellseq /\ Len(v \o w) = Len(v) + Len(w)
         /\ \A i \in 1..Len(v) : (v \o w)[i] = v[i]
         /\ \A i \in 1..Len(w) : (v \o w)[Len(v) + i] = w[i]
    BY <1>12, ConcatFacts
  <1>15. Len(x) = Len(v \o w) /\ Len(v) \in Nat
    BY <1>1, <1>2, <1>7, <1>9, <1>12, <1>13, <1>14
  <1>16. ASSUME NEW i \in 1..Len(x)
         PROVE  x[i] = (v \o w)[i]
    <2>1. i \in 1..(Len(t) - p) /\ x[i] = t[p + i]
      BY <1>13
    <2>2. CASE i \in 1..Len(v)
      <3>1. p + i \in 1..Len(u) /\ i \in 1..(Len(u) - p)
        BY <1>1, <1>7, <1>12, <1>15, <2>2
      <3> QED
        BY <1>2, <1>12, <1>14, <2>1, <2>2, <3>1
    <2>3. ASSUME NEW j \in 1..Len(w), i = Len(v) + j
          PROVE  x[i] = (v \o w)[i]
      <3>1. p + i = Len(u) + j
        BY <1>1, <1>2, <1>7, <1>12, <2>3
      <3>2. x[i] = w[j]
        BY <1>2, <2>1, <3>1
      <3> QED
        BY <1>14, <2>3, <3>2
    <2>4. i \in 1..Len(v) \/ (i - Len(v) \in 1..Len(w) /\ i = Len(v) + (i - Len(v)))
      BY <1>2, <1>14, <1>15
    <2> QED
      BY <2>2, <2>3, <2>4
  <1>17. x = v \o w
    BY <1>13, <1>14, <1>15, <1>16, SameCells
  <1>18. Carries(v \o w, Laid(Tail(a), s))
    BY <1>4, <1>8, <1>17, LaidTail DEF rs
  <1> QED
    BY <1>1, <1>4, <1>7, <1>10, <1>11, <1>12, <1>18 DEF p, r, v

-----------------------------------------------------------------------------
(* The inductive invariant.                                                *)

\* What send() can return.
Replies == {parse_value(b, 0) : b \in Cellseq}
              \cup {Failed("state"), Failed("system"), Failed("protocol")}

Heard == [args : Requests \cup {<<>>}, reply : Replies, shifted : BOOLEAN]

\* Types the model's TypeOK leaves open, and what each loop of send() is at.
Loops ==
    /\ heard \in Seq(Heard)
    /\ results \in Seq(Replies)
    /\ peer = "open" => fd = "connected"
    /\ pc = "write" => out # <<>>
    /\ pc = "header" => want = 1
    /\ pc \in {"header", "body"} => Len(got) < want
    /\ pc = "killed" => peer # "open"

\* What is on its way to the server is the requests asked stands for.
OnWire ==
    IF peer = "open" THEN Carries(Stream(pc, up, out), Laid(asked, sent))
    ELSE up = <<>> /\ asked = <<>>

\* A request the server has not answered yet is the one send() waits for, or
\* its answer will not be believed.
Pending ==
    /\ \A j, k \in 1..Len(asked) : j # k => asked[j] # asked[k]
    /\ \A k \in 1..Len(asked) : \/ asked[k] = Len(sent) /\ pc # "idle"
                                \/ heard[asked[k]].shifted
    /\ pc # "idle" => heard[Len(sent)].shifted = refused

\* down is the beginning of the frame of b, the answer to the last request.
FrameOf(b) ==
    /\ Len(b) <= MaxFrame
    /\ down[1] = Len(b)
    /\ Len(down) <= Len(b) + 1
    /\ \A i \in 1..Len(b) : i < Len(down) => down[i + 1] = b[i]
    /\ heard[Len(sent)].reply = parse_value(b, 0)

\* got and down are the beginning of b, the answer to the last request.
BodyOf(b) ==
    /\ want = Len(b)
    /\ Len(got) + Len(down) <= Len(b)
    /\ \A i \in 1..Len(got) : got[i] = b[i]
    /\ \A i \in 1..Len(down) : down[i] = b[Len(got) + i]
    /\ heard[Len(sent)].reply = parse_value(b, 0)

\* As long as no frame was refused, the stream from the server is what is
\* left of the answer to the last request, and nothing else.
Clean ==
    ~refused =>
        /\ pc = "idle" => asked = <<>> /\ down = <<>>
        /\ pc = "write" => asked \in {<<>>, <<Len(sent)>>} /\ down = <<>>
        /\ pc = "header" =>
              /\ got = <<>>
              /\ IF asked # <<>> THEN asked = <<Len(sent)>> /\ down = <<>>
                 ELSE \/ down = <<>>
                      \/ /\ down[1] = MaxFrame + 1
                         /\ heard[Len(sent)].reply = Failed("protocol")
                      \/ \E b \in Cellseq : FrameOf(b)
        /\ pc = "body" => asked = <<>> /\ \E b \in Cellseq : BodyOf(b)

IInv == ClientInv /\ OwnReply /\ Loops /\ OnWire /\ Pending /\ Clean

LEMMA TypeFacts ==
    ASSUME IInv
    PROVE  /\ out \in Cellseq /\ got \in Cellseq /\ up \in Cellseq /\ down \in Cellseq
           /\ Len(out) \in Nat /\ Len(got) \in Nat /\ Len(up) \in Nat /\ Len(down) \in Nat
           /\ want \in Nat /\ Len(sent) \in Nat /\ Len(asked) \in Nat
           /\ \A k \in 1..Len(asked) : asked[k] \in 1..Len(sent)
           /\ \A k \in 1..Len(sent) : sent[k] \in Requests /\ heard[k] \in Heard
           /\ pc # "idle" => Len(sent) \in 1..Len(sent)
  <1> USE DEF IInv, ClientInv, TypeOK, Loops, Cellseq
  <1>1. out \in Cellseq /\ got \in Cellseq /\ up \in Cellseq /\ down \in Cellseq
    OBVIOUS
  <1>2. want \in Nat
    BY ClientAssumption
  <1>3. Len(sent) \in Nat /\ Len(asked) \in Nat
        /\ \A k \in 1..Len(asked) : asked[k] \in 1..Len(sent)
    BY ElementOfSeq
  <1>4. \A k \in 1..Len(sent) : sent[k] \in Requests /\ heard[k] \in Heard
    BY ElementOfSeq
  <1>5. pc # "idle" => Len(sent) \in 1..Len(sent)
    <2>1. Len(results) \in Nat /\ Len(sent) \in Nat
      OBVIOUS
    <2> QED
      BY <2>1
  <1> QED
    BY <1>1, <1>2, <1>3, <1>4, <1>5

\* Return(r) in a call of send(): results has one entry per call again.
LEMMA ReturnFacts ==
    ASSUME IInv, pc # "idle", NEW r \in Replies, Return(r)
    PROVE  /\ pc' = "idle"
           /\ results' \in Seq(Replies)
           /\ Len(results') = Len(sent)
           /\ results'[Len(sent)] = r
           /\ \A i \in 1..Len(results) : results'[i] = results[i]
           /\ Len(sent) \in Nat /\ Len(results) = Len(sent) - 1
  <1>1. results \in Seq(Replies) /\ Len(results) = Len(sent) - 1 /\ Len(sent) \in Nat
    BY DEF IInv, Loops, ClientInv, TypeOK
  <1>2. pc' = "idle" /\ results' = Append(results, r)
    BY DEF Return
  <1>3. /\ Append(results, r) \in Seq(Replies)
        /\ Len(Append(results, r)) = Len(results) + 1
        /\ \A i \in 1..Len(results) : Append(results, r)[i] = results[i]
        /\ Append(results, r)[Len(results) + 1] = r
    BY <1>1, AppendProperties
  <1>4. Len(results) + 1 = Len(sent)
    BY <1>1
  <1> QED
    BY <1>1, <1>2, <1>3, <1>4

\* The reply a call returns is its own, or exempt.
LEMMA ReturnsOwn ==
    ASSUME IInv, pc # "idle", NEW r \in Replies, Return(r), UNCHANGED <<heard, sent>>,
           \/ heard[Len(sent)].shifted
           \/ r \in {Failed("state"), Failed("system"), heard[Len(sent)].reply}
    PROVE  OwnReply'
  <1>1. /\ Len(results') = Len(sent) /\ results'[Len(sent)] = r
        /\ \A i \in 1..Len(results) : results'[i] = results[i]
        /\ Len(sent) \in Nat /\ Len(results) = Len(sent) - 1
    BY ReturnFacts
  <1>2. SUFFICES ASSUME NEW i \in 1..Len(sent)
                 PROVE  heard[i].shifted \/ results'[i] \in {Failed("state"), Failed("system"),
                                                            heard[i].reply}
    BY <1>1 DEF OwnReply
  <1>3. CASE i = Len(sent)
    BY <1>1, <1>3
  <1>4. CASE i # Len(sent)
    <2>1. i \in 1..Len(results)
      BY <1>1, <1>4
    <2> QED
      BY <1>1, <2>1 DEF IInv, OwnReply
  <1> QED
    BY <1>3, <1>4

LEMMA NoneLaid == \A s : Laid(<<>>, s) = <<>>
  <1>1. \A s : Laid(<<>>, s) = [k \in 1..0 |-> Request(s[<<>>[k]])]
    BY DEF Laid
  <1>2. 1..0 = {}
    OBVIOUS
  <1> QED
    BY <1>1, <1>2

LEMMA InitHolds == Init => IInv
  <1> SUFFICES ASSUME Init
               PROVE  IInv
    OBVIOUS
  <1>1. TypeOK
    <2>1. MaxFrame \in Nat /\ MaxConnects \in Nat
      BY ClientAssumption
    <2>2. 0 \in Nat /\ 0 \in 0..MaxFrame /\ 0 \in 0..MaxConnects
      BY <2>1
    <2>3. /\ {<<>>} \subseteq Seq(Nat) /\ <<>> \in Seq(Requests) /\ <<>> \in Seq(1..Len(<<>>))
          /\ Len(<<>>) = 0
      OBVIOUS
    <2>4. Len(results) = Len(sent) - (IF pc = "idle" THEN 0 ELSE 1) /\ Len(heard) = Len(sent)
          /\ asked \in Seq(1..Len(sent)) /\ sent \in Seq(Requests) /\ Len(got) <= want
      BY <2>3 DEF Init
    <2>5. {out, got, up, down} \subseteq Seq(Nat)
      BY <2>3 DEF Init
    <2> QED
      BY <2>2, <2>4, <2>5 DEF Init, TypeOK
  <1>2. RequestIntact /\ NoDescriptorLeak /\ OwnReply
    BY DEF Init, RequestIntact, NoDescriptorLeak, OwnReply
  <1>3. Loops /\ OnWire /\ Pending /\ Clean
    BY DEF Init, Loops, OnWire, Pending, Clean
  <1> QED
    BY <1>1, <1>2, <1>3 DEF IInv, ClientInv

\* A new connection, or none: nothing is on the wire.
LEMMA ResetStep ==
    ASSUME IInv, pc = "idle", up' = <<>>, down' = <<>>, asked' = <<>>, refused' = FALSE,
           UNCHANGED <<pc, out, want, got, sent, heard, results>>,
           TypeOK', NoDescriptorLeak', peer' = "open" => fd' = "connected"
    PROVE  IInv'
  <1>1. RequestIntact' /\ OwnReply' /\ Loops'
    BY DEF IInv, ClientInv, RequestIntact, OwnReply, Loops
  <1>2. OnWire'
    BY CarriesNone, NoneLaid DEF OnWire, Stream
  <1>3. Pending' /\ Clean'
    BY DEF IInv, Pending, Clean
  <1> QED
    BY <1>1, <1>2, <1>3 DEF IInv, ClientInv

LEMMA ConnectStep ==
    ASSUME IInv, connect
    PROVE  IInv'
  <1>0. MaxConnects \in Nat
    BY ClientAssumption
  <1>1. CloseOld = 0 /\ connects \in Nat /\ connects' \in 0..MaxConnects
    BY <1>0 DEF connect, IInv, ClientInv, TypeOK, NoDescriptorLeak, CloseOld
  <1>2. /\ fd' \in {"none", "unconnected", "connected"} /\ peer' \in {"none", "open", "closed"}
        /\ opened' = (IF fd' = "none" THEN 0 ELSE 1)
        /\ peer' = "open" => fd' = "connected"
    BY <1>1 DEF connect
  <1>3. NoDescriptorLeak' /\ opened' \in Nat
    BY <1>2 DEF NoDescriptorLeak
  <1>4. {<<>>} \subseteq Seq(Nat) /\ <<>> \in Seq(1..Len(sent))
    OBVIOUS
  <1>5. TypeOK'
    BY <1>1, <1>2, <1>3, <1>4 DEF connect, IInv, ClientInv, TypeOK
  <1> QED
    BY <1>2, <1>3, <1>5, ResetStep DEF connect

LEMMA CloseStep ==
    ASSUME IInv, close
    PROVE  IInv'
  <1>1. opened' = 0 /\ fd' = "none" /\ peer' = "none"
    BY DEF close, IInv, ClientInv, NoDescriptorLeak, CloseOld
  <1>2. NoDescriptorLeak' /\ opened' \in Nat
    BY <1>1 DEF NoDescriptorLeak
  <1>3. {<<>>} \subseteq Seq(Nat) /\ <<>> \in Seq(1..Len(sent))
    OBVIOUS
  <1>4. TypeOK'
    BY <1>1, <1>2, <1>3 DEF close, IInv, ClientInv, TypeOK
  <1> QED
    BY <1>1, <1>2, <1>4, ResetStep DEF close

\* send() begins: a request more, and on an open connection one more to answer.
LEMMA SendStep ==
    ASSUME IInv, send
    PROVE  IInv'
  <1>1. PICK x \in Requests : sent' = Append(sent, x) /\ out' = Request(x)
    BY DEF send
  <1> DEFINE n == Len(sent)
             h == [args |-> <<>>, reply |-> Failed("system"), shifted |-> refused]
  <1>2. /\ pc = "idle" /\ heard' = Append(heard, h)
        /\ asked' = IF peer = "open" THEN Append(asked, n + 1) ELSE asked
        /\ UNCHANGED <<fd, opened, want, got, peer, up, down, connects, refused>>
    BY DEF send
  <1>3. \/ fd = "none" /\ pc' = "idle" /\ results' = Append(results, Failed("state"))
        \/ fd # "none" /\ pc' = "write" /\ results' = results
    BY DEF send, Return
  <1>4. /\ n \in Nat /\ sent \in Seq(Requests) /\ sent' \in Seq(Requests) /\ Len(sent') = n + 1
        /\ sent'[n + 1] = x /\ \A k \in 1..n : sent'[k] = sent[k]
    BY <1>1 DEF IInv, ClientInv, TypeOK
  <1>5. h \in Heard
    BY DEF Heard, Replies, IInv, ClientInv, TypeOK
  <1>6. /\ heard' \in Seq(Heard) /\ Len(heard') = n + 1
        /\ heard'[n + 1] = h /\ \A k \in 1..n : heard'[k] = heard[k]
    <2>1. heard \in Seq(Heard) /\ Len(heard) = n
      BY DEF IInv, ClientInv, TypeOK, Loops
    <2> HIDE DEF h
    <2> QED
      BY <1>2, <1>5, <2>1, AppendProperties
  <1>7. out' \in Cellseq /\ out' # <<>>
    <2>1. x \in Seq(Cellseq)
      BY ClientAssumption DEF Cellseq
    <2>2. Request(x) \in Cellseq /\ Len(Request(x)) >= 2
      BY <2>1, RequestReads
    <2> QED
      BY <1>1, <2>2
  <1>8. /\ asked \in Seq(1..n) /\ asked' \in Seq(1..(n + 1))
        /\ peer = "open" => Laid(asked', sent') = Append(Laid(asked, sent), Request(x))
        /\ peer # "open" => Laid(asked', sent') = Laid(asked, sent)
    <2>1. asked \in Seq(1..n)
      BY DEF IInv, ClientInv, TypeOK
    <2>2. CASE peer = "open"
      BY <1>1, <1>2, <1>4, <2>1, <2>2, LaidMore
    <2>3. CASE peer # "open"
      BY <1>1, <1>2, <1>4, <2>1, <2>3, LaidSame
    <2> QED
      BY <2>1, <2>2, <2>3
  <1>9. /\ results' \in Seq(Replies)
        /\ Len(results') = n + 1 - (IF pc' = "idle" THEN 0 ELSE 1)
        /\ \A i \in 1..n : results'[i] = results[i]
        /\ pc' = "idle" => results'[n + 1] = Failed("state")
        /\ Len(results) = n
    <2>1. results \in Seq(Replies) /\ Len(results) = n /\ Failed("state") \in Replies
      BY <1>2 DEF IInv, ClientInv, TypeOK, Loops, Replies
    <2>2. CASE pc' = "idle"
      <3>1. results' = Append(results, Failed("state"))
        BY <1>3, <2>2
      <3>2. /\ results' \in Seq(Replies) /\ Len(results') = n + 1
            /\ results'[n + 1] = Failed("state") /\ \A i \in 1..n : results'[i] = results[i]
        BY <2>1, <3>1, AppendProperties
      <3> QED
        BY <1>4, <2>1, <2>2, <3>2
    <2>3. CASE pc' # "idle"
      BY <1>3, <1>4, <2>1, <2>3
    <2> QED
      BY <2>2, <2>3
  <1> HIDE DEF n
  <1>10. TypeOK'
    <2>1. pc' \in {"idle", "write", "header", "body", "killed"}
      BY <1>3
    <2>2. {out', got', up', down'} \subseteq Seq(Nat)
      BY <1>2, <1>7, TypeFacts DEF Cellseq
    <2>3. Len(results') = Len(sent') - (IF pc' = "idle" THEN 0 ELSE 1)
          /\ sent' \in Seq(Requests) /\ asked' \in Seq(1..Len(sent')) /\ Len(heard') = Len(sent')
      BY <1>4, <1>6, <1>8, <1>9
    <2> QED
      BY <1>2, <2>1, <2>2, <2>3 DEF IInv, ClientInv, TypeOK
  <1>11. RequestIntact' /\ NoDescriptorLeak'
    <2>1. ASSUME NEW i \in 1..(n + 1)
          PROVE  heard'[i].args # <<>> => heard'[i].args = sent'[i]
      <3>1. CASE i = n + 1
        BY <1>6, <3>1
      <3>2. CASE i # n + 1
        <4>1. i \in 1..n /\ Len(heard) = n
          BY <1>4, <3>2 DEF n, IInv, ClientInv, TypeOK
        <4> QED
          BY <1>4, <1>6, <4>1 DEF IInv, ClientInv, RequestIntact
      <3> QED
        BY <3>1, <3>2
    <2> QED
      BY <1>2, <1>6, <2>1 DEF RequestIntact, NoDescriptorLeak, IInv, ClientInv
  <1>12. OwnReply'
    <2> SUFFICES ASSUME NEW i \in 1..Len(results')
                 PROVE  heard'[i].shifted \/ results'[i] \in {Failed("state"), Failed("system"),
                                                             heard'[i].reply}
      BY DEF OwnReply
    <2>1. i \in 1..n \/ (pc' = "idle" /\ i = n + 1)
      BY <1>4, <1>9
    <2>2. CASE i \in 1..n
      BY <1>6, <1>9, <2>2 DEF IInv, OwnReply
    <2> QED
      BY <1>9, <2>1, <2>2
  <1>13. Loops'
    BY <1>2, <1>3, <1>6, <1>7, <1>9 DEF IInv, Loops
  <1>14. OnWire'
    <2>1. CASE peer = "open"
      <3>1. Carries(up, Laid(asked, sent))
        BY <1>2, <2>1 DEF IInv, OnWire, Stream
      <3>2. fd = "connected"
        BY <2>1 DEF IInv, Loops
      <3>3. up \in Cellseq /\ Laid(asked, sent) \in Seq(Cellseq)
        BY <1>4, <1>8, LaidFacts, TypeFacts DEF n
      <3>4. Carries(up \o out', Append(Laid(asked, sent), out'))
        BY <1>7, <3>1, <3>3, CarriesMore
      <3> QED
        BY <1>1, <1>2, <1>3, <1>8, <2>1, <3>2, <3>4 DEF OnWire, Stream
    <2>2. CASE peer # "open"
      BY <1>2, <2>2 DEF IInv, OnWire
    <2> QED
      BY <2>1, <2>2
  <1>15. Pending'
    <2>1. /\ \A k \in 1..Len(asked) : asked[k] \in 1..n /\ heard[asked[k]].shifted
          /\ \A j, k \in 1..Len(asked) : j # k => asked[j] # asked[k]
          /\ Len(asked) \in Nat
      BY <1>2, TypeFacts DEF IInv, Pending, n
    <2>2. pc' # "idle" => heard'[Len(sent')].shifted = refused'
      BY <1>2, <1>4, <1>6
    <2>3. CASE peer = "open"
      <3> DEFINE m == Len(asked)
      <3>1. /\ Len(asked') = m + 1 /\ asked'[m + 1] = n + 1
            /\ \A k \in 1..m : asked'[k] = asked[k]
        BY <1>2, <1>8, <2>3
      <3>2. \A k \in 1..(m + 1) : k = m + 1 \/ k \in 1..m
        BY <2>1
      <3>3. n + 1 \notin 1..n /\ pc' # "idle"
        BY <1>3, <1>4, <2>3 DEF IInv, Loops
      <3>4. \A j, k \in 1..(m + 1) : j # k => asked'[j] # asked'[k]
        BY <2>1, <3>1, <3>2, <3>3
      <3>5. \A k \in 1..m : heard'[asked'[k]].shifted
        BY <1>6, <2>1, <3>1
      <3> HIDE DEF m
      <3> QED
        BY <1>4, <2>2, <3>1, <3>2, <3>3, <3>4, <3>5 DEF Pending
    <2>4. CASE peer # "open"
      <3>1. asked' = <<>>
        BY <1>2, <2>4 DEF IInv, OnWire
      <3> QED
        BY <2>2, <3>1 DEF Pending
    <2> QED
      BY <2>3, <2>4
  <1>16. Clean'
    <2> SUFFICES ASSUME ~refused
                 PROVE  Clean'
      BY <1>2 DEF Clean
    <2>1. asked = <<>> /\ down' = <<>>
      BY <1>2 DEF IInv, Clean
    <2>2. CASE peer = "open"
      <3>1. pc' = "write" /\ asked' = <<Len(sent')>>
        BY <1>2, <1>3, <1>4, <2>1, <2>2 DEF IInv, Loops
      <3> QED
        BY <2>1, <3>1 DEF Clean
    <2>3. CASE peer # "open"
      <3>1. pc' \in {"idle", "write"} /\ asked' = <<>>
        BY <1>2, <1>3, <2>1, <2>3
      <3> QED
        BY <2>1, <3>1 DEF Clean
    <2> QED
      BY <2>2, <2>3
  <1> QED
    BY <1>10, <1>11, <1>12, <1>13, <1>14, <1>15, <1>16 DEF IInv, ClientInv

LEMMA WriteStep ==
    ASSUME IInv, WriteSome
    PROVE  IInv'
  <1>1. /\ pc = "write"
        /\ UNCHANGED <<fd, opened, peer, down, asked, sent, heard, connects, refused>>
    BY DEF WriteSome
  <1>2. RequestIntact' /\ NoDescriptorLeak'
    BY <1>1 DEF IInv, ClientInv, RequestIntact, NoDescriptorLeak
  <1>3. MaxFrame \in Nat \ {0} /\ 1 \in 0..MaxFrame /\ Len(<<>>) = 0
    BY ClientAssumption
  <1>4. CASE peer # "none" /\ results' = results /\ pc' \in {"header", "write"}
    <2>1. PICK n \in 1..Len(out) :
             /\ up' = IF peer = "open" THEN up \o SubSeq(out, 1, n) ELSE up
             /\ out' = SubSeq(out, n + 1, Len(out))
             /\ pc' = IF out' = <<>> THEN "header" ELSE "write"
      BY <1>4 DEF WriteSome, Written, Return
    <2>2. want' = 1 /\ got' = <<>> /\ results' = results
      BY <1>4 DEF WriteSome, Return
    <2>3. /\ up' \in Cellseq /\ out' \in Cellseq
          /\ peer = "open" => up' \o out' = up \o out
          /\ peer = "open" /\ out' = <<>> => up' = up \o out
      BY <2>1, TypeFacts, WriteKeeps
    <2>4. /\ peer = "open" => Stream(pc', up', out') = Stream(pc, up, out)
          /\ pc' = "write" => out' # <<>>
      BY <1>1, <2>1, <2>3 DEF Stream
    <2>5. TypeOK'
      <3>1. {out', got', up', down'} \subseteq Seq(Nat) /\ Len(got') <= want' /\ want' \in 0..MaxFrame
        BY <1>1, <1>3, <2>2, <2>3, TypeFacts DEF Cellseq
      <3>2. Len(results') = Len(sent') - (IF pc' = "idle" THEN 0 ELSE 1)
        BY <1>1, <1>4 DEF IInv, ClientInv, TypeOK
      <3> QED
        BY <1>1, <1>4, <3>1, <3>2 DEF IInv, ClientInv, TypeOK
    <2>6. Loops' /\ OwnReply'
      BY <1>1, <1>3, <1>4, <2>2, <2>4 DEF IInv, Loops, OwnReply
    <2>7. OnWire' /\ Pending'
      <3>1. Pending'
        BY <1>1, <1>4 DEF IInv, Pending
      <3>2. OnWire'
        BY <1>1, <2>1, <2>4 DEF IInv, OnWire
      <3> QED
        BY <3>1, <3>2
    <2>8. Clean'
      BY <1>1, <1>4, <2>2 DEF IInv, Clean
    <2> QED
      BY <1>2, <2>5, <2>6, <2>7, <2>8 DEF IInv, ClientInv
  <1>5. ASSUME peer # "open", UNCHANGED <<up, out, want, got>>
        PROVE  /\ asked = <<>> /\ up = <<>> /\ down \in Cellseq
               /\ OnWire'
    BY <1>1, <1>5, TypeFacts DEF IInv, OnWire
  <1>6. CASE peer # "open" /\ Return(Failed("system")) /\ UNCHANGED <<up, out, want, got>>
    <2>1. Failed("system") \in Replies
      BY DEF Replies
    <2>2. /\ pc' = "idle" /\ results' \in Seq(Replies) /\ Len(results') = Len(sent)
          /\ Len(sent) \in Nat
      BY <1>1, <1>6, <2>1, ReturnFacts
    <2>3. OwnReply'
      BY <1>1, <1>6, <2>1, ReturnsOwn
    <2>4. TypeOK'
      BY <1>1, <1>6, <2>2 DEF IInv, ClientInv, TypeOK
    <2>5. Loops' /\ Pending' /\ Clean'
      BY <1>1, <1>5, <1>6, <2>2 DEF IInv, Loops, Pending, Clean
    <2> QED
      BY <1>2, <1>5, <1>6, <2>3, <2>4, <2>5 DEF IInv, ClientInv
  <1>7. CASE peer # "open" /\ pc' = "killed" /\ UNCHANGED <<up, out, want, got, results>>
    <2>1. TypeOK' /\ OwnReply'
      BY <1>1, <1>7 DEF IInv, ClientInv, TypeOK, OwnReply
    <2>2. Loops' /\ Pending' /\ Clean'
      BY <1>1, <1>5, <1>7 DEF IInv, Loops, Pending, Clean
    <2> QED
      BY <1>2, <1>5, <1>7, <2>1, <2>2 DEF IInv, ClientInv
  <1> QED
    BY <1>4, <1>6, <1>7 DEF WriteSome

\* A call that ends, on a stream that is clean or refused: what IInv says of
\* the wire is what it says of an idle client.
LEMMA ReturnStep ==
    ASSUME IInv, pc \in {"header", "body"}, NEW r \in Replies, Return(r),
           UNCHANGED <<fd, opened, out, peer, up, asked, sent, heard, connects>>,
           down' \in Cellseq, got' \in Cellseq, want' \in 0..MaxFrame, Len(got') <= want',
           refused' \in BOOLEAN, refused => refused',
           refused \/ r \in {Failed("system"), heard[Len(sent)].reply},
           ~refused => asked = <<>>,
           ~refused' => down' = <<>>
    PROVE  IInv'
  <1>1. /\ pc' = "idle" /\ results' \in Seq(Replies) /\ Len(results') = Len(sent)
        /\ Len(sent) \in Nat
    BY ReturnFacts
  <1>2. heard[Len(sent)].shifted = refused
    BY DEF IInv, Pending
  <1>3. OwnReply'
    BY <1>2, ReturnsOwn
  <1>4. RequestIntact' /\ NoDescriptorLeak'
    BY DEF IInv, ClientInv, RequestIntact, NoDescriptorLeak
  <1>5. TypeOK'
    <2>1. {out', got', up', down'} \subseteq Seq(Nat)
      BY TypeFacts DEF Cellseq
    <2> QED
      BY <1>1, <2>1 DEF IInv, ClientInv, TypeOK
  <1>6. Loops'
    BY <1>1 DEF IInv, Loops
  <1>7. OnWire'
    BY <1>1 DEF IInv, OnWire, Stream
  <1>8. Pending'
    <2>1. CASE refused
      BY <1>1, <1>2, <2>1 DEF IInv, Pending
    <2>2. CASE ~refused
      BY <1>1, <2>2 DEF IInv, Pending
    <2> QED
      BY <2>1, <2>2
  <1>9. Clean'
    BY <1>1 DEF Clean
  <1> QED
    BY <1>3, <1>4, <1>5, <1>6, <1>7, <1>8, <1>9 DEF IInv, ClientInv

LEMMA EndStep ==
    ASSUME IInv, ReadEnd
    PROVE  IInv'
  <1>1. /\ pc \in {"header", "body"} /\ down = <<>> /\ peer # "open"
        /\ Return(Failed("system"))
        /\ UNCHANGED <<fd, opened, out, want, got, wireVars, sent, heard, connects, refused>>
    BY DEF ReadEnd, EndIsError
  <1>2. asked = <<>> /\ Failed("system") \in Replies
    BY <1>1 DEF IInv, OnWire, Replies
  <1>3. /\ got \in Cellseq /\ down \in Cellseq /\ want \in 0..MaxFrame /\ Len(got) <= want
        /\ refused \in BOOLEAN
    BY TypeFacts DEF IInv, ClientInv, TypeOK
  <1>4. UNCHANGED <<peer, up, down, asked>>
    BY <1>1 DEF wireVars
  <1> QED
    BY <1>1, <1>2, <1>3, <1>4, ReturnStep

\* What n cells more make of got and leave of down.
Took(n, cells, rest) ==
    /\ cells \in Cellseq /\ rest \in Cellseq
    /\ Len(cells) = Len(got) + n /\ Len(rest) = Len(down) - n
    /\ \A i \in 1..Len(got) : cells[i] = got[i]
    /\ \A i \in 1..n : cells[Len(got) + i] = down[i]
    /\ \A i \in 1..(Len(down) - n) : rest[i] = down[n + i]

LEMMA ReadFacts ==
    ASSUME IInv, NEW n \in 1..Len(down)
    PROVE  Took(n, got \o SubSeq(down, 1, n), SubSeq(down, n + 1, Len(down)))
  <1> DEFINE x == SubSeq(down, 1, n)
             rest == SubSeq(down, n + 1, Len(down))
  <1>1. got \in Cellseq /\ down \in Cellseq /\ n \in 0..Len(down)
    BY TypeFacts
  <1>2. /\ x \in Cellseq /\ Len(x) = n /\ \A i \in 1..n : x[i] = down[i]
        /\ rest \in Cellseq /\ Len(rest) = Len(down) - n
        /\ \A i \in 1..(Len(down) - n) : rest[i] = down[n + i]
    BY <1>1, TakeDrop
  <1> HIDE DEF x, rest
  <1>3. /\ got \o x \in Cellseq /\ Len(got \o x) = Len(got) + Len(x)
        /\ \A i \in 1..Len(got) : (got \o x)[i] = got[i]
        /\ \A i \in 1..Len(x) : (got \o x)[Len(got) + i] = x[i]
    BY <1>1, <1>2, ConcatFacts
  <1> QED
    BY <1>2, <1>3 DEF x, rest, Took

\* The body is not complete yet.
LEMMA ReadOnStep ==
    ASSUME IInv, pc \in {"header", "body"}, NEW n \in 1..(want - Len(got)), n <= Len(down),
           Took(n, got', down'), Len(got') # want, UNCHANGED <<pc, want, results, refused>>,
           UNCHANGED <<fd, opened, out, peer, up, asked, sent, heard, connects>>
    PROVE  IInv'
  <1>1. /\ Len(got) \in Nat /\ want \in Nat /\ Len(down) \in Nat /\ n \in Nat
        /\ n \in 1..Len(down) /\ Len(got) < want
    BY TypeFacts DEF IInv, Loops
  <1>2. /\ got' \in Cellseq /\ down' \in Cellseq
        /\ Len(got') = Len(got) + n /\ Len(down') = Len(down) - n
        /\ \A i \in 1..Len(got) : got'[i] = got[i]
        /\ \A i \in 1..n : got'[Len(got) + i] = down[i]
        /\ \A i \in 1..(Len(down) - n) : down'[i] = down[n + i]
    BY DEF Took
  <1>3. Len(got') < want
    <2>1. Len(got') = Len(got) + n /\ n <= want - Len(got)
      BY <1>1, <1>2
    <2> QED
      BY <1>1, <2>1
  <1>4. pc = "body"
    BY <1>1, <1>2, <1>3 DEF IInv, Loops
  <1>5. RequestIntact' /\ NoDescriptorLeak' /\ OwnReply'
    BY DEF IInv, ClientInv, RequestIntact, NoDescriptorLeak, OwnReply
  <1>6. TypeOK'
    <2>1. {out', got', up', down'} \subseteq Seq(Nat) /\ Len(got') <= want'
      BY <1>1, <1>2, <1>3, TypeFacts DEF Cellseq
    <2> QED
      BY <2>1 DEF IInv, ClientInv, TypeOK
  <1>7. Loops' /\ OnWire' /\ Pending'
    BY <1>3, <1>4 DEF IInv, Loops, OnWire, Pending
  <1>8. Clean'
    <2> SUFFICES ASSUME ~refused
                 PROVE  asked = <<>> /\ \E b \in Cellseq : BodyOf(b)'
      BY <1>4 DEF Clean
    <2>1. asked = <<>>
      BY <1>4 DEF IInv, Clean
    <2>2. PICK b \in Cellseq : BodyOf(b)
      BY <1>4 DEF IInv, Clean
    <2>3. want = Len(b) /\ Len(got') + Len(down') <= Len(b) /\ heard[Len(sent)].reply = parse_value(b, 0)
      BY <1>1, <1>2, <2>2 DEF BodyOf
    <2>4. \A i \in 1..Len(got') : got'[i] = b[i]
      <3> SUFFICES ASSUME NEW i \in 1..Len(got')
                   PROVE  got'[i] = b[i]
        OBVIOUS
      <3>1. CASE i \in 1..Len(got)
        BY <1>2, <2>2, <3>1 DEF BodyOf
      <3>2. ASSUME NEW j \in 1..n, i = Len(got) + j
            PROVE  got'[i] = b[i]
        <4>1. j \in 1..Len(down)
          BY <1>1
        <4> QED
          BY <1>2, <2>2, <3>2, <4>1 DEF BodyOf
      <3>3. i \in 1..Len(got) \/ (i - Len(got) \in 1..n /\ i = Len(got) + (i - Len(got)))
        BY <1>1, <1>2
      <3> QED
        BY <3>1, <3>2, <3>3
    <2>5. \A i \in 1..Len(down') : down'[i] = b[Len(got') + i]
      <3> SUFFICES ASSUME NEW i \in 1..Len(down')
                   PROVE  down'[i] = b[Len(got') + i]
        OBVIOUS
      <3>1. i \in 1..(Len(down) - n) /\ n + i \in 1..Len(down)
            /\ Len(got) + (n + i) = Len(got') + i
        BY <1>1, <1>2
      <3>2. down'[i] = down[n + i] /\ down[n + i] = b[Len(got) + (n + i)]
        BY <1>2, <2>2, <3>1 DEF BodyOf
      <3> QED
        BY <3>1, <3>2
    <2>6. BodyOf(b)'
      BY <2>3, <2>4, <2>5 DEF BodyOf
    <2> QED
      BY <2>1, <2>6
  <1> QED
    BY <1>5, <1>6, <1>7, <1>8 DEF IInv, ClientInv

\* The header of a frame.
LEMMA HeaderStep ==
    ASSUME IInv, pc = "header", down # <<>>, NEW cells, Took(1, cells, down'),
           TakeHeader(down[1]),
           UNCHANGED <<fd, opened, out, peer, up, asked, sent, heard, connects>>
    PROVE  IInv'
  <1> DEFINE len == down[1]
  <1>1. /\ down \in Cellseq /\ Len(down) \in Nat /\ 1 <= Len(down) /\ len \in Nat
        /\ MaxFrame \in Nat /\ want = 1
    BY TypeFacts, ClientAssumption DEF IInv, Loops, Cellseq
  <1>2. /\ down' \in Cellseq /\ Len(down') = Len(down) - 1
        /\ \A i \in 1..(Len(down) - 1) : down'[i] = down[1 + i]
    BY DEF Took
  <1>3. ~refused => /\ asked = <<>>
                    /\ \/ len = MaxFrame + 1 /\ heard[Len(sent)].reply = Failed("protocol")
                       \/ \E b \in Cellseq : FrameOf(b)
    BY DEF IInv, Clean
  <1>4. got \in Cellseq /\ want \in 0..MaxFrame /\ Len(got) <= want /\ refused \in BOOLEAN
    BY TypeFacts DEF IInv, ClientInv, TypeOK
  <1>5. CASE len > MaxFrame
    <2>1. /\ Return(Failed("protocol")) /\ refused' = TRUE /\ UNCHANGED <<want, got>>
      BY <1>5 DEF TakeHeader
    <2>2. Failed("protocol") \in Replies
      BY DEF Replies
    <2>3. refused \/ heard[Len(sent)].reply = Failed("protocol")
      <3> SUFFICES ASSUME ~refused, NEW b \in Cellseq, FrameOf(b)
                   PROVE  FALSE
        BY <1>3
      <3>1. len = Len(b) /\ Len(b) <= MaxFrame /\ Len(b) \in Nat
        BY DEF FrameOf, Cellseq
      <3> QED
        BY <1>1, <1>5, <3>1
    <2> QED
      <3>1. /\ pc \in {"header", "body"} /\ refused' \in BOOLEAN /\ (refused => refused')
            /\ refused \/ Failed("protocol") \in {Failed("system"), heard[Len(sent)].reply}
            /\ ~refused => asked = <<>>
            /\ ~refused' => down' = <<>>
            /\ got' \in Cellseq /\ want' \in 0..MaxFrame /\ Len(got') <= want'
        BY <1>3, <1>4, <2>1, <2>3
      <3> QED
        BY <1>2, <2>1, <2>2, <3>1, ReturnStep
  <1>6. ASSUME ~(len > MaxFrame), ~refused
        PROVE  \E b \in Cellseq : FrameOf(b)
    BY <1>1, <1>3, <1>6
  <1>7. CASE len = 0
    <2>1. /\ want' = 0 /\ got' = <<>> /\ Return(parse_value(<<>>, 0)) /\ UNCHANGED refused
      BY <1>1, <1>7 DEF TakeHeader
    <2>2. <<>> \in Cellseq /\ parse_value(<<>>, 0) \in Replies /\ 0 \in 0..MaxFrame /\ Len(<<>>) = 0
      <3>1. <<>> \in Cellseq /\ 0 \in 0..MaxFrame /\ Len(<<>>) = 0
        BY <1>1 DEF Cellseq
      <3> QED
        BY <3>1 DEF Replies
    <2>3. ~refused => down' = <<>> /\ heard[Len(sent)].reply = parse_value(<<>>, 0)
      <3> SUFFICES ASSUME ~refused
                   PROVE  down' = <<>> /\ heard[Len(sent)].reply = parse_value(<<>>, 0)
        OBVIOUS
      <3>1. PICK b \in Cellseq : FrameOf(b)
        BY <1>1, <1>6, <1>7
      <3>2. Len(b) = 0 /\ Len(down) <= 1 /\ heard[Len(sent)].reply = parse_value(b, 0)
        BY <1>7, <3>1 DEF FrameOf
      <3>3. b = <<>>
        BY <3>2 DEF Cellseq
      <3>4. down' = <<>>
        BY <1>1, <1>2, <3>2 DEF Cellseq
      <3> QED
        BY <3>2, <3>3, <3>4
    <2>4. got' \in Cellseq /\ want' \in 0..MaxFrame /\ Len(got') <= want'
      BY <2>1, <2>2
    <2>5. /\ refused' \in BOOLEAN /\ (refused => refused')
          /\ ~refused => asked = <<>>
          /\ ~refused' => down' = <<>>
          /\ pc \in {"header", "body"}
      BY <1>3, <1>4, <2>1, <2>3
    <2> DEFINE r == parse_value(<<>>, 0)
    <2>6. /\ Return(r) /\ down' \in Cellseq /\ r \in Replies
          /\ refused \/ r \in {Failed("system"), heard[Len(sent)].reply}
      BY <1>2, <2>1, <2>2, <2>3
    <2> HIDE DEF r
    <2> QED
      BY <2>4, <2>5, <2>6, ReturnStep
  <1>8. CASE len # 0 /\ ~(len > MaxFrame)
    <2>1. /\ want' = len /\ got' = <<>> /\ pc' = "body" /\ UNCHANGED <<results, refused>>
      BY <1>8 DEF TakeHeader
    <2>2. RequestIntact' /\ NoDescriptorLeak' /\ OwnReply'
      BY <2>1 DEF IInv, ClientInv, RequestIntact, NoDescriptorLeak, OwnReply
    <2>3. Len(got') = 0 /\ got' \in Cellseq /\ want' \in 0..MaxFrame /\ Len(got') < want'
          /\ Len(got') <= want'
      BY <1>1, <1>8, <2>1 DEF Cellseq
    <2>4. TypeOK'
      <3>1. {out', got', up', down'} \subseteq Seq(Nat)
        BY <1>2, <2>3, TypeFacts DEF Cellseq
      <3> QED
        BY <2>1, <2>3, <3>1 DEF IInv, ClientInv, TypeOK
    <2>5. Loops' /\ OnWire' /\ Pending'
      BY <2>1, <2>3 DEF IInv, Loops, OnWire, Pending, Stream
    <2>6. Clean'
      <3> SUFFICES ASSUME ~refused
                   PROVE  \E b \in Cellseq : BodyOf(b)'
        BY <1>3, <2>1 DEF Clean
      <3>1. PICK b \in Cellseq : FrameOf(b)
        BY <1>6, <1>8
      <3>2. /\ len = Len(b) /\ Len(b) \in Nat /\ Len(down) <= Len(b) + 1
            /\ heard[Len(sent)].reply = parse_value(b, 0)
            /\ \A i \in 1..Len(b) : i < Len(down) => down[i + 1] = b[i]
        BY <3>1 DEF FrameOf, Cellseq
      <3>3. want' = Len(b) /\ Len(got') + Len(down') <= Len(b)
        BY <1>1, <1>2, <2>1, <2>3, <3>2
      <3>4. \A i \in 1..Len(got') : got'[i] = b[i]
        BY <2>3
      <3>5. ASSUME NEW i \in 1..Len(down')
            PROVE  down'[i] = b[Len(got') + i]
        <4>1. /\ i \in 1..(Len(down) - 1) /\ i \in 1..Len(b) /\ i < Len(down)
              /\ 1 + i = i + 1 /\ Len(got') + i = i
          BY <1>1, <1>2, <2>3, <3>2
        <4>2. down'[i] = down[i + 1] /\ down[i + 1] = b[i]
          BY <1>2, <3>2, <4>1
        <4> QED
          BY <4>1, <4>2
      <3>6. BodyOf(b)'
        BY <3>2, <3>3, <3>4, <3>5 DEF BodyOf
      <3> QED
        BY <3>6
    <2> QED
      BY <2>2, <2>4, <2>5, <2>6 DEF IInv, ClientInv
  <1> QED
    BY <1>1, <1>5, <1>7, <1>8

\* The whole body.
LEMMA BodyStep ==
    ASSUME IInv, pc = "body", NEW n \in 1..Len(down), NEW cells, Took(n, cells, down'),
           Len(cells) = want, Return(parse_value(cells, 0)),
           UNCHANGED <<want, got, refused>>,
           UNCHANGED <<fd, opened, out, peer, up, asked, sent, heard, connects>>
    PROVE  IInv'
  <1>1. /\ Len(got) \in Nat /\ want \in Nat /\ Len(down) \in Nat
        /\ got \in Cellseq /\ want \in 0..MaxFrame /\ Len(got) <= want /\ refused \in BOOLEAN
    BY TypeFacts DEF IInv, ClientInv, TypeOK
  <1>2. /\ cells \in Cellseq /\ down' \in Cellseq
        /\ Len(cells) = Len(got) + n /\ Len(down') = Len(down) - n
        /\ \A i \in 1..Len(got) : cells[i] = got[i]
        /\ \A i \in 1..n : cells[Len(got) + i] = down[i]
    BY DEF Took
  <1>3. parse_value(cells, 0) \in Replies
    BY <1>2 DEF Replies
  <1>4. ASSUME ~refused
        PROVE  asked = <<>> /\ down' = <<>> /\ heard[Len(sent)].reply = parse_value(cells, 0)
    <2>1. asked = <<>>
      BY <1>4 DEF IInv, Clean
    <2>2. PICK b \in Cellseq : BodyOf(b)
      BY <1>4 DEF IInv, Clean
    <2>3. /\ want = Len(b) /\ Len(got) + Len(down) <= Len(b)
          /\ heard[Len(sent)].reply = parse_value(b, 0)
          /\ \A i \in 1..Len(got) : got[i] = b[i]
          /\ \A i \in 1..Len(down) : down[i] = b[Len(got) + i]
      BY <2>2 DEF BodyOf
    <2>4. n = Len(down) /\ Len(down') = 0
      <3>1. n <= Len(down) /\ n \in Nat /\ Len(got) + n = want /\ Len(got) + Len(down) <= want
        <4>1. n <= Len(down) /\ n \in Nat
          BY <1>1
        <4>2. Len(got) + n = want
          BY <1>2
        <4>3. Len(got) + Len(down) <= want
          BY <2>3
        <4> QED
          BY <4>1, <4>2, <4>3
      <3>2. n = Len(down)
        BY <1>1, <3>1
      <3> QED
        BY <1>1, <1>2, <3>2
    <2>5. ASSUME NEW i \in 1..Len(cells)
          PROVE  cells[i] = b[i]
      <3>1. CASE i \in 1..Len(got)
        BY <1>2, <2>3, <3>1
      <3>2. ASSUME NEW j \in 1..n, i = Len(got) + j
            PROVE  cells[i] = b[i]
        BY <1>2, <2>3, <2>4, <3>2
      <3>3. i \in 1..Len(got) \/ (i - Len(got) \in 1..n /\ i = Len(got) + (i - Len(got)))
        BY <1>1, <1>2
      <3> QED
        BY <3>1, <3>2, <3>3
    <2>6. cells = b
      BY <1>2, <2>3, <2>5, SameCells
    <2>7. down' = <<>>
      BY <1>2, <2>4 DEF Cellseq
    <2> QED
      BY <2>1, <2>3, <2>6, <2>7
  <1> DEFINE r == parse_value(cells, 0)
  <1>5. /\ r \in Replies /\ Return(r) /\ refused' \in BOOLEAN /\ (refused => refused')
        /\ refused \/ r \in {Failed("system"), heard[Len(sent)].reply}
        /\ ~refused => asked = <<>>
        /\ ~refused' => down' = <<>>
        /\ got' \in Cellseq /\ want' \in 0..MaxFrame /\ Len(got') <= want'
    BY <1>1, <1>3, <1>4
  <1> HIDE DEF r
  <1> QED
    BY <1>2, <1>5, ReturnStep

LEMMA ReadStep ==
    ASSUME IInv, ReadSome
    PROVE  IInv'
  <1>1. /\ pc \in {"header", "body"}
        /\ UNCHANGED <<fd, opened, out, peer, up, asked, sent, heard, connects>>
    BY DEF ReadSome
  <1>2. PICK n \in 1..(want - Len(got)) :
          /\ n <= Len(down)
          /\ down' = SubSeq(down, n + 1, Len(down))
          /\ LET cells == got \o SubSeq(down, 1, n)
             IN IF ~ReadAll(cells)
                THEN got' = cells /\ UNCHANGED <<pc, want, results, refused>>
                ELSE IF pc = "header" THEN TakeHeader(cells[1])
                ELSE /\ Return(parse_value(cells, 0))
                     /\ UNCHANGED <<want, got, refused>>
    BY DEF ReadSome
  <1> DEFINE cells == got \o SubSeq(down, 1, n)
  <1>3. /\ Len(got) \in Nat /\ want \in Nat /\ Len(down) \in Nat /\ n \in 1..Len(down)
        /\ Len(got) < want
    BY <1>1, <1>2, TypeFacts DEF IInv, Loops
  <1>4. Took(n, cells, down')
    BY <1>2, <1>3, ReadFacts
  <1>5. CASE Len(cells) # want
    <2>1. got' = cells /\ UNCHANGED <<pc, want, results, refused>>
      BY <1>2, <1>5 DEF ReadAll
    <2> HIDE DEF cells
    <2> QED
      BY <1>1, <1>2, <1>4, <1>5, <2>1, ReadOnStep
  <1>6. CASE Len(cells) = want /\ pc = "header"
    <2>1. TakeHeader(cells[1])
      BY <1>2, <1>6 DEF ReadAll
    <2>2. want = 1 /\ Len(got) = 0 /\ n = 1 /\ Len(down) >= 1
      BY <1>2, <1>3, <1>6 DEF IInv, Loops
    <2> HIDE DEF cells
    <2>3. cells[1] = down[1]
      BY <1>4, <2>2 DEF Took
    <2>4. down # <<>> /\ TakeHeader(down[1]) /\ Took(1, cells, down')
      BY <1>4, <2>1, <2>2, <2>3
    <2> QED
      BY <1>1, <1>6, <2>4, HeaderStep
  <1>7. CASE Len(cells) = want /\ pc # "header"
    <2>1. Return(parse_value(cells, 0)) /\ UNCHANGED <<want, got, refused>> /\ pc = "body"
      BY <1>1, <1>2, <1>7 DEF ReadAll
    <2> HIDE DEF cells
    <2> QED
      BY <1>1, <1>3, <1>4, <1>7, <2>1, BodyStep
  <1> QED
    BY <1>5, <1>6, <1>7

\* w is v, a header c and a body a.
Framed(w, v, c, a) ==
    /\ w \in Cellseq /\ Len(w) = Len(v) + 1 + Len(a)
    /\ w[Len(v) + 1] = c
    /\ \A i \in 1..Len(a) : w[Len(v) + 1 + i] = a[i]

LEMMA FrameFacts ==
    ASSUME NEW v \in Cellseq, NEW c \in Nat, NEW a \in Cellseq, NEW w, w = v \o <<c>> \o a
    PROVE  Framed(w, v, c, a)
  <1> DEFINE u == v \o <<c>>
             o == <<c>>
  <1>1. o \in Cellseq /\ Len(o) = 1 /\ o[1] = c
    BY DEF Cellseq
  <1> HIDE DEF o
  <1>2. /\ v \o o \in Cellseq /\ Len(v) \in Nat /\ Len(v \o o) = Len(v) + Len(o)
        /\ \A i \in 1..Len(o) : (v \o o)[Len(v) + i] = o[i]
    BY <1>1, ConcatFacts
  <1>3. u \in Cellseq /\ Len(u) = Len(v) + 1 /\ u[Len(v) + 1] = c
    BY <1>1, <1>2 DEF o
  <1> HIDE DEF u
  <1>4. /\ u \o a \in Cellseq /\ Len(a) \in Nat /\ Len(u \o a) = Len(u) + Len(a)
        /\ \A i \in 1..Len(u) : (u \o a)[i] = u[i]
        /\ \A i \in 1..Len(a) : (u \o a)[Len(u) + i] = a[i]
    BY <1>3, ConcatFacts
  <1>5. w = u \o a
    BY DEF u
  <1>6. Len(v) + 1 \in 1..Len(u)
    BY <1>2, <1>3
  <1> QED
    BY <1>3, <1>4, <1>5, <1>6 DEF Framed

LEMMA ServeStep ==
    ASSUME IInv, Serve
    PROVE  IInv'
  <1> DEFINE m == Len(sent)
             w == IF pc = "write" THEN out ELSE <<>>
             q == asked[1]
             args == ReadArgs(SubSeq(up, 3, up[1] + 1), up[2])
  <1>1. /\ peer = "open" /\ up # <<>> /\ Len(up) > up[1]
        /\ up' = SubSeq(up, up[1] + 2, Len(up)) /\ asked' = Tail(asked)
        /\ UNCHANGED <<fd, opened, pc, out, want, got, peer, sent, results, connects, refused>>
    BY DEF Serve
  <1>2. PICK b \in Bodies, big \in BOOLEAN :
          /\ down' = down \o <<IF big THEN MaxFrame + 1 ELSE Len(b)>> \o b
          /\ heard' = [heard EXCEPT
                ![q].args = args,
                ![q].reply = IF big THEN Failed("protocol") ELSE parse_value(b, 0)]
    BY DEF Serve
  <1> DEFINE c == IF big THEN MaxFrame + 1 ELSE Len(b)
             rep == IF big THEN Failed("protocol") ELSE parse_value(b, 0)
  <1>3. /\ up \in Cellseq /\ w \in Cellseq /\ down \in Cellseq /\ m \in Nat
        /\ sent \in Seq(Requests) /\ asked \in Seq(1..m)
        /\ b \in Cellseq /\ Len(b) \in Nat /\ Len(b) <= MaxFrame /\ MaxFrame \in Nat /\ c \in Nat
    <2>1. b \in Cellseq /\ Len(b) <= MaxFrame /\ MaxFrame \in Nat /\ Len(b) \in Nat
      BY ClientAssumption DEF Cellseq
    <2>2. w \in Cellseq
      BY TypeFacts DEF Cellseq
    <2> QED
      BY <2>1, <2>2, TypeFacts DEF IInv, ClientInv, TypeOK
  <1>4. Carries(up \o w, Laid(asked, sent)) /\ Stream(pc, up, out) = up \o w
    BY <1>1, <1>3, ConcatFacts DEF IInv, OnWire, Stream
  <1> HIDE DEF w
  <1>5. /\ asked # <<>> /\ up[1] \in Nat
        /\ args = sent[q]
        /\ up' \in Cellseq
        /\ Carries(up' \o w, Laid(asked', sent))
    BY <1>1, <1>3, <1>4, ServeReads
  <1>6. /\ Len(asked) \in Nat /\ 1 \in 1..Len(asked) /\ q \in 1..m /\ sent[q] \in Requests
        /\ asked' \in Seq(1..m) /\ Len(asked') = Len(asked) - 1
        /\ \A k \in 1..Len(asked') : asked'[k] = asked[k + 1] /\ k + 1 \in 1..Len(asked) /\ k + 1 # 1
    <2>1. Len(asked) \in Nat /\ 1 \in 1..Len(asked) /\ asked' \in Seq(1..m)
          /\ Len(asked') = Len(asked) - 1 /\ \A k \in 1..Len(asked') : asked'[k] = asked[k + 1]
      BY <1>1, <1>3, <1>5, HeadTailProperties
    <2>2. \A k \in 1..Len(asked') : k + 1 \in 1..Len(asked) /\ k + 1 # 1
      BY <2>1
    <2>3. q \in 1..m /\ sent[q] \in Requests
      BY <2>1, TypeFacts
    <2> QED
      BY <2>1, <2>2, <2>3
  <1> HIDE DEF m, q, args
  <1>7. /\ heard' \in Seq(Heard) /\ Len(heard') = m /\ Len(heard) = m
        /\ heard'[q].args = args /\ heard'[q].reply = rep
        /\ heard'[q].shifted = heard[q].shifted
        /\ \A k \in 1..m : k # q => heard'[k] = heard[k]
    <2>1. heard \in Seq(Heard) /\ Len(heard) = m
      BY DEF IInv, Loops, ClientInv, TypeOK, m
    <2>2. rep \in Replies /\ args \in Requests
      BY <1>3, <1>5, <1>6 DEF Replies
    <2> HIDE DEF rep
    <2> DEFINE e == [heard[q] EXCEPT !.args = args, !.reply = rep]
    <2>3. heard[q] \in Heard
      BY <1>6, <2>1, ElementOfSeq
    <2>4. e \in Heard /\ e.args = args /\ e.reply = rep /\ e.shifted = heard[q].shifted
      BY <2>2, <2>3 DEF Heard
    <2>5. heard' = [heard EXCEPT ![q] = e]
      <3>1. heard' = [heard EXCEPT ![q].args = args, ![q].reply = rep]
        BY <1>2 DEF rep
      <3> QED
        BY <1>6, <2>1, <2>3, <3>1 DEF Heard
    <2> HIDE DEF e
    <2> QED
      BY <1>6, <2>1, <2>4, <2>5, ExceptSeq
  <1>8. /\ down' \in Cellseq /\ Len(down') = Len(down) + 1 + Len(b)
        /\ down'[Len(down) + 1] = c
        /\ \A i \in 1..Len(b) : down'[Len(down) + 1 + i] = b[i]
    <2> HIDE DEF c
    <2>1. down' = down \o <<c>> \o b
      BY <1>2 DEF c
    <2>2. down \in Cellseq /\ c \in Nat /\ b \in Cellseq
      BY <1>3 DEF c
    <2>3. Framed(down', down, c, b)
      BY <2>1, <2>2, FrameFacts, Zenon
    <2> QED
      BY <2>3 DEF Framed
  <1>9. TypeOK'
    <2>1. {out', got', up', down'} \subseteq Seq(Nat)
      BY <1>1, <1>5, <1>8, TypeFacts DEF Cellseq
    <2> QED
      BY <1>1, <1>6, <1>7, <2>1 DEF m, IInv, ClientInv, TypeOK
  <1>10. NoDescriptorLeak' /\ Loops'
    BY <1>1, <1>7 DEF IInv, ClientInv, NoDescriptorLeak, Loops
  <1>11. RequestIntact'
    <2>1. ASSUME NEW i \in 1..m
          PROVE  heard'[i].args # <<>> => heard'[i].args = sent[i]
      <3>1. CASE i = q
        BY <1>5, <1>7, <3>1
      <3>2. CASE i # q
        BY <1>7, <3>2 DEF IInv, ClientInv, RequestIntact
      <3> QED
        BY <3>1, <3>2
    <2> QED
      BY <1>1, <1>7, <2>1 DEF RequestIntact
  <1>12. \A k \in 1..m : heard'[k].shifted = heard[k].shifted
    BY <1>7
  <1>13. (q = m /\ pc # "idle") \/ heard[q].shifted
    BY <1>6 DEF q, m, IInv, Pending
  <1>14. OwnReply'
    <2> SUFFICES ASSUME NEW i \in 1..Len(results)
                 PROVE  heard'[i].shifted \/ results[i] \in {Failed("state"), Failed("system"),
                                                            heard'[i].reply}
      BY <1>1 DEF OwnReply
    <2>1. Len(results) = m - (IF pc = "idle" THEN 0 ELSE 1) /\ m \in Nat
      BY <1>3 DEF m, IInv, ClientInv, TypeOK
    <2>2. i \in 1..m
      BY <2>1
    <2>3. CASE i = q
      <3>1. heard[q].shifted
        BY <1>13, <2>1, <2>3
      <3> QED
        BY <1>7, <2>3, <3>1
    <2>4. CASE i # q
      BY <1>7, <2>2, <2>4 DEF IInv, OwnReply
    <2> QED
      BY <2>3, <2>4
  <1>15. OnWire'
    <2>1. Stream(pc', up', out') = up' \o w
      BY <1>1, <1>5, ConcatFacts DEF Stream, w
    <2> QED
      BY <1>1, <1>5, <2>1 DEF OnWire
  <1>16. Pending'
    <2>1. \A j, k \in 1..Len(asked') : j # k => asked'[j] # asked'[k]
      <3> SUFFICES ASSUME NEW j \in 1..Len(asked'), NEW k \in 1..Len(asked'), j # k
                   PROVE  asked'[j] # asked'[k]
        OBVIOUS
      <3>1. j + 1 # k + 1
        OBVIOUS
      <3> QED
        BY <1>6, <3>1 DEF IInv, Pending
    <2>2. \A k \in 1..Len(asked') : \/ asked'[k] = Len(sent) /\ pc # "idle"
                                    \/ heard'[asked'[k]].shifted
      <3> SUFFICES ASSUME NEW k \in 1..Len(asked')
                   PROVE  \/ asked'[k] = Len(sent) /\ pc # "idle"
                          \/ heard'[asked'[k]].shifted
        OBVIOUS
      <3>1. asked'[k] \in 1..m
        BY <1>6, ElementOfSeq
      <3> QED
        BY <1>6, <1>12, <3>1 DEF IInv, Pending
    <2>3. pc # "idle" => heard'[Len(sent)].shifted = refused
      BY <1>12, TypeFacts DEF m, IInv, Pending
    <2> QED
      BY <1>1, <2>1, <2>2, <2>3 DEF Pending
  <1>17. Clean'
    <2> SUFFICES ASSUME ~refused
                 PROVE  Clean'
      BY <1>1 DEF Clean
    <2>1. /\ pc \in {"write", "header"} /\ asked = <<m>> /\ down = <<>>
          /\ pc = "header" => got = <<>>
      BY <1>1, <1>5 DEF IInv, ClientInv, TypeOK, Clean, Loops, m
    <2>2. asked' = <<>>
      BY <1>1, <2>1
    <2>3. pc = "header"
      <3> SUFFICES ASSUME pc = "write"
                   PROVE  FALSE
        BY <2>1
      <3>1. Carries(up' \o w, <<>>)
        BY <1>5, <2>2, NoneLaid
      <3>2. up' \o w \in Cellseq /\ Len(up' \o w) = Len(up') + Len(w) /\ Len(up') \in Nat
            /\ Len(w) \in Nat
        BY <1>3, <1>5, ConcatFacts
      <3>3. up' \o w = <<>>
        BY <3>1, <3>2, CarriesNothing
      <3>4. Len(w) = 0 /\ w = out
        BY <3>2, <3>3 DEF w
      <3>5. out = <<>>
        BY <3>4, TypeFacts DEF Cellseq
      <3> QED
        BY <3>5 DEF IInv, Loops
    <2>4. q = m /\ Len(down) = 0
      BY <2>1 DEF q
    <2>5. CASE big
      <3>1. down'[1] = MaxFrame + 1 /\ heard'[Len(sent)].reply = Failed("protocol")
        BY <1>7, <1>8, <2>4, <2>5 DEF m
      <3> QED
        BY <1>1, <2>1, <2>2, <2>3, <3>1 DEF Clean
    <2>6. CASE ~big
      <3>1. heard'[Len(sent)].reply = parse_value(b, 0)
        BY <1>7, <2>4, <2>6 DEF m
      <3>2. down'[1] = Len(b) /\ Len(down') = Len(b) + 1
        BY <1>3, <1>8, <2>4, <2>6
      <3>3. \A i \in 1..Len(b) : down'[i + 1] = b[i]
        <4>1. \A i \in 1..Len(b) : Len(down) + 1 + i = i + 1
          BY <1>3, <2>4
        <4> QED
          BY <1>8, <4>1
      <3>4. FrameOf(b)'
        BY <1>1, <1>3, <3>1, <3>2, <3>3 DEF FrameOf
      <3> QED
        BY <1>1, <1>3, <2>1, <2>2, <2>3, <3>4 DEF Clean
    <2> QED
      BY <2>5, <2>6
  <1> QED
    BY <1>9, <1>10, <1>11, <1>14, <1>15, <1>16, <1>17 DEF IInv, ClientInv

LEMMA PeerStep ==
    ASSUME IInv, PeerCloses
    PROVE  IInv'
  <1>1. /\ peer' = "closed" /\ up' = <<>> /\ asked' = <<>>
        /\ UNCHANGED <<fd, opened, pc, out, want, got, sent, heard, results, connects, refused>>
    BY DEF PeerCloses
  <1>2. PICK n \in 0..Len(down) : down' = SubSeq(down, 1, n)
    BY DEF PeerCloses
  <1>3. Len(down) \in Nat /\ n \in Nat /\ n <= Len(down) /\ Len(got) \in Nat
    BY TypeFacts
  <1>4. down' \in Cellseq /\ Len(down') = n /\ \A i \in 1..n : down'[i] = down[i]
    BY <1>2, TypeFacts, TakeDrop
  <1>5. TypeOK'
    <2>1. {out', got', up', down'} \subseteq Seq(Nat) /\ asked' \in Seq(1..Len(sent'))
      <3>1. <<>> \in Seq(1..Len(sent)) /\ <<>> \in Seq(Nat)
        OBVIOUS
      <3> QED
        BY <1>1, <1>4, <3>1, TypeFacts DEF Cellseq
    <2> QED
      BY <1>1, <2>1 DEF IInv, ClientInv, TypeOK
  <1>6. RequestIntact' /\ NoDescriptorLeak' /\ OwnReply' /\ Loops' /\ OnWire'
    BY <1>1 DEF IInv, ClientInv, RequestIntact, NoDescriptorLeak, OwnReply, Loops, OnWire
  <1>7. Pending'
    BY <1>1 DEF IInv, Pending
  <1>8. Clean'
    <2> SUFFICES ASSUME ~refused
                 PROVE  Clean'
      BY <1>1 DEF Clean
    <2>0. down = <<>> => down' = <<>>
      BY <1>3, <1>4 DEF Cellseq
    <2>1. CASE pc \in {"idle", "write"}
      BY <1>1, <2>0, <2>1 DEF IInv, Clean
    <2>2. CASE pc = "header"
      <3>0. got = <<>>
        BY <2>2 DEF IInv, Clean
      <3>1. CASE down' = <<>>
        BY <1>1, <2>2, <3>0, <3>1 DEF Clean
      <3>2. CASE down' # <<>>
        <4>1. n >= 1 /\ down'[1] = down[1] /\ down # <<>>
          BY <1>3, <1>4, <2>0, <3>2 DEF Cellseq
        <4>2. \/ down[1] = MaxFrame + 1 /\ heard[Len(sent)].reply = Failed("protocol")
              \/ \E b \in Cellseq : FrameOf(b)
          BY <2>2, <4>1 DEF IInv, Clean
        <4>3. ASSUME NEW b \in Cellseq, FrameOf(b)
              PROVE  FrameOf(b)'
          <5>1. Len(b) \in Nat
            BY DEF Cellseq
          <5>2. /\ Len(b) <= MaxFrame /\ down[1] = Len(b) /\ Len(down) <= Len(b) + 1
                /\ \A i \in 1..Len(b) : i < Len(down) => down[i + 1] = b[i]
                /\ heard[Len(sent)].reply = parse_value(b, 0)
            BY <4>3 DEF FrameOf
          <5>3. Len(down') <= Len(b) + 1
            BY <1>3, <1>4, <5>1, <5>2
          <5>4. ASSUME NEW i \in 1..Len(b), i < Len(down')
                PROVE  down'[i + 1] = b[i]
            <6>1. i < Len(down) /\ i + 1 \in 1..n
              BY <1>3, <1>4, <5>1, <5>4
            <6> QED
              BY <1>4, <5>2, <6>1
          <5> QED
            BY <1>1, <4>1, <5>2, <5>3, <5>4 DEF FrameOf
        <4>4. \/ down'[1] = MaxFrame + 1 /\ heard'[Len(sent')].reply = Failed("protocol")
              \/ \E b \in Cellseq : FrameOf(b)'
          BY <1>1, <4>1, <4>2, <4>3
        <4> QED
          BY <1>1, <2>2, <3>0, <4>4 DEF Clean
      <3> QED
        BY <3>1, <3>2
    <2>3. CASE pc = "body"
      <3>1. PICK b \in Cellseq : BodyOf(b)
        BY <2>3 DEF IInv, Clean
      <3>2. /\ want = Len(b) /\ Len(got) + Len(down) <= Len(b)
            /\ \A i \in 1..Len(got) : got[i] = b[i]
            /\ \A i \in 1..Len(down) : down[i] = b[Len(got) + i]
            /\ heard[Len(sent)].reply = parse_value(b, 0)
        BY <3>1 DEF BodyOf
      <3>3. Len(b) \in Nat
        BY DEF Cellseq
      <3>4. Len(got) + Len(down') <= Len(b)
        BY <1>3, <1>4, <3>2, <3>3
      <3>5. \A i \in 1..Len(down') : down'[i] = b[Len(got) + i]
        <4>1. \A i \in 1..Len(down') : i \in 1..n /\ i \in 1..Len(down)
          BY <1>3, <1>4
        <4> QED
          BY <1>4, <3>2, <4>1
      <3>6. BodyOf(b)'
        BY <1>1, <3>2, <3>4, <3>5 DEF BodyOf
      <3> QED
        BY <1>1, <2>3, <3>6 DEF Clean
    <2>4. pc # "killed"
      BY DEF PeerCloses, IInv, Loops
    <2> QED
      BY <2>1, <2>2, <2>3, <2>4 DEF IInv, ClientInv, TypeOK
  <1> QED
    BY <1>5, <1>6, <1>7, <1>8 DEF IInv, ClientInv

LEMMA StutterStep ==
    ASSUME IInv, UNCHANGED vars
    PROVE  IInv'
  <1>1. UNCHANGED <<fd, opened, pc, out, want, got, peer, up, down, asked, sent, heard,
                    results, connects, refused>>
    BY DEF vars, wireVars
  <1>2. ClientInv' /\ OwnReply'
    BY <1>1 DEF IInv, ClientInv, TypeOK, RequestIntact, NoDescriptorLeak, OwnReply
  <1>3. Loops' /\ OnWire' /\ Pending'
    BY <1>1 DEF IInv, Loops, OnWire, Pending
  <1>4. Clean'
    BY <1>1 DEF IInv, Clean, FrameOf, BodyOf
  <1> QED
    BY <1>2, <1>3, <1>4 DEF IInv

-----------------------------------------------------------------------------
(* Theorems.                                                               *)

\* The inductive invariant: every action keeps it.
THEOREM ClientIInv == Spec => []IInv
  <1>1. ASSUME IInv, [Next]_vars
        PROVE  IInv'
    <2>1. CASE connect
      BY <1>1, <2>1, ConnectStep
    <2>2. CASE close
      BY <1>1, <2>2, CloseStep
    <2>3. CASE send
      BY <1>1, <2>3, SendStep
    <2>4. CASE WriteSome
      BY <1>1, <2>4, WriteStep
    <2>5. CASE ReadSome
      BY <1>1, <2>5, ReadStep
    <2>6. CASE ReadEnd
      BY <1>1, <2>6, EndStep
    <2>7. CASE Serve
      BY <1>1, <2>7, ServeStep
    <2>8. CASE PeerCloses
      BY <1>1, <2>8, PeerStep
    <2>9. CASE UNCHANGED vars
      BY <1>1, <2>9, StutterStep
    <2> QED
      BY <1>1, <2>1, <2>2, <2>3, <2>4, <2>5, <2>6, <2>7, <2>8, <2>9 DEF Next, Transfer
  <1> QED
    BY <1>1, InitHolds, PTL DEF Spec

\* For any requests, bodies, frame limit and number of calls and connections:
\* the server reads from the wire exactly the arguments send() was given, in
\* whatever pieces ::send took them and however many requests are in flight
\* after a refused frame; the object owns one descriptor or none; and every
\* call has one result (redis_client.cpp:42-145).
THEOREM ClientSafe == Spec => []ClientInv
  <1>1. IInv => ClientInv
    BY DEF IInv
  <1> QED
    BY <1>1, ClientIInv, PTL

\* What send() returns is the answer to this very request, for any pieces the
\* frames arrive in and any byte a connection breaks at; only the calls after a
\* refused frame on the same connection are exempt (redis_client.cpp:102-145).
THEOREM RepliesOwned == Spec => []OwnReply
  <1>1. IInv => OwnReply
    BY DEF IInv
  <1> QED
    BY <1>1, ClientIInv, PTL

-----------------------------------------------------------------------------
(* The body of a reply.                                                    *)

LEMMA ResultFacts ==
    /\ Err.ok = FALSE
    /\ \A v, q : Ok(v, q).ok = TRUE /\ Ok(v, q).value = v /\ Ok(v, q).pos = q
  BY DEF Err, Failed, Ok

\* An error, or a value that ends after at and within the first n cells.
Within(r, at, n) == r = Err \/ \E v : \E q \in (at + 1)..n : r = Ok(v, q)

LEMMA CellFacts ==
    ASSUME NEW buf \in Cellseq, NEW i \in Nat, i < Len(buf)
    PROVE  Cell(buf, i) \in Nat /\ Cell(buf, i) = buf[i + 1]
  <1>1. i + 1 \in 1..Len(buf)
    BY DEF Cellseq
  <1> QED
    BY <1>1 DEF Cell, Cellseq

LEMMA BytesWithin ==
    ASSUME NEW buf \in Cellseq, NEW pos \in Nat
    PROVE  Within(ParseBytes(buf, pos), pos, Len(buf))
  <1> DEFINE n == Len(buf)
             c == Cell(buf, pos)
  <1>0. n \in Nat
    BY DEF Cellseq
  <1>1. CASE Need(buf, pos, 1) /\ Need(buf, pos + 1, c)
    <2>1. pos < n /\ n - (pos + 1) >= c
      BY <1>0, <1>1 DEF Need
    <2>2. c \in Nat
      BY <2>1, CellFacts
    <2>3. ParseBytes(buf, pos) = Ok(Cells(buf, pos + 1, c), pos + 1 + c)
      BY <1>1 DEF ParseBytes
    <2> HIDE DEF c, n
    <2>4. pos + 1 + c \in (pos + 1)..n
      BY <1>0, <2>1, <2>2
    <2> QED
      BY <2>3, <2>4 DEF Within, n
  <1>2. CASE ~(Need(buf, pos, 1) /\ Need(buf, pos + 1, c))
    BY <1>2 DEF ParseBytes, Within
  <1> QED
    BY <1>1, <1>2

\* One turn of the loop over the elements of an array.
Element(value, arr) ==
    IF arr.ok /\ value[arr.pos].ok
    THEN Ok(Append(arr.value, value[arr.pos].value), value[arr.pos].pos) ELSE Err

\* What the loop may hold: an error, or the elements up to some cell.
Elements(value, p, n) ==
    {Err} \cup UNION {{Ok(w, q) : w \in Seq({value[k].value : k \in p..n})} : q \in (p + 1)..n}

IsElements(r, value, p, n) ==
    \/ r = Err
    \/ \E q \in (p + 1)..n : \E w \in Seq({value[k].value : k \in p..n}) : r = Ok(w, q)

LEMMA ElementsFacts ==
    ASSUME NEW value, NEW p, NEW n, NEW r
    PROVE  r \in Elements(value, p, n) <=> IsElements(r, value, p, n)
  <1> DEFINE W == Seq({value[k].value : k \in p..n})
             Q == (p + 1)..n
             At(q) == {Ok(w, q) : w \in W}
             U == UNION {At(q) : q \in Q}
  <1>1. \A q, x : x \in At(q) <=> \E w \in W : x = Ok(w, q)
    <2> HIDE DEF W
    <2> QED
      BY Zenon
  <1>2. Elements(value, p, n) = {Err} \cup U
    BY DEF Elements
  <1> HIDE DEF At, W, Q
  <1>3. \A x : x \in U <=> \E q \in Q : x \in At(q)
    OBVIOUS
  <1> HIDE DEF U
  <1>4. r \in Elements(value, p, n)
           <=> (r = Err \/ \E q \in Q : \E w \in W : r = Ok(w, q))
    <2>1. r \in U <=> \E q \in Q : \E w \in W : r = Ok(w, q)
      BY <1>1, <1>3
    <2>2. r \in Elements(value, p, n) <=> (r = Err \/ r \in U)
      BY <1>2
    <2> QED
      BY <2>1, <2>2, Zenon
  <1> QED
    BY <1>4 DEF W, Q, IsElements

LEMMA ElementWithin ==
    ASSUME NEW value, NEW p \in Nat, NEW n \in Nat, NEW arr \in Elements(value, p, n),
           \A q \in (p + 1)..n : Within(value[q], q, n)
    PROVE  /\ Element(value, arr) \in Elements(value, p, n)
           /\ arr = Err \/ (arr.ok = TRUE /\ arr.pos \in (p + 1)..n)
  <1> DEFINE Vals == {value[k].value : k \in p..n}
  <1>1. CASE arr = Err
    BY <1>1, ResultFacts, ElementsFacts DEF Element, IsElements
  <1>2. ASSUME NEW w \in Seq(Vals), NEW q \in (p + 1)..n, arr = Ok(w, q)
        PROVE  /\ Element(value, arr) \in Elements(value, p, n)
               /\ arr.ok = TRUE /\ arr.pos \in (p + 1)..n
    <2>1. arr.ok = TRUE /\ arr.pos = q /\ arr.value = w
      BY <1>2, ResultFacts
    <2>2. value[q].value \in Vals
      OBVIOUS
    <2> HIDE DEF Vals
    <2>3. CASE value[q] = Err
      BY <2>1, <2>3, ResultFacts, ElementsFacts DEF Element, IsElements
    <2>4. ASSUME NEW v, NEW r \in (q + 1)..n, value[q] = Ok(v, r)
          PROVE  Element(value, arr) \in Elements(value, p, n)
      <3>1. value[q].ok = TRUE /\ value[q].pos = r
        BY <2>4, ResultFacts
      <3>2. Element(value, arr) = Ok(Append(w, value[q].value), r)
        BY <2>1, <3>1 DEF Element
      <3>3. Append(w, value[q].value) \in Seq(Vals) /\ r \in (p + 1)..n
        BY <2>2
      <3> QED
        <4>1. IsElements(Element(value, arr), value, p, n)
          BY <3>2, <3>3 DEF IsElements, Vals
        <4> QED
          BY <4>1, ElementsFacts, Zenon
    <2>5. value[q] = Err \/ \E v : \E r \in (q + 1)..n : value[q] = Ok(v, r)
      BY DEF Within
    <2> QED
      BY <2>1, <2>3, <2>4, <2>5
  <1>3. arr = Err \/ \E q \in (p + 1)..n : \E w \in Seq(Vals) : arr = Ok(w, q)
    <2>1. IsElements(arr, value, p, n)
      BY ElementsFacts, Zenon
    <2> QED
      BY <2>1 DEF IsElements
  <1> QED
    BY <1>1, <1>2, <1>3

\* The turns of that loop.
ArrayTurns(g, buf, value, p) ==
    /\ g \in [0..Cell(buf, p) -> Elements(value, p, Len(buf))]
    /\ g[0] = Ok(<<>>, p + 1)
    /\ \A i \in 1..Cell(buf, p) : g[i] = Element(value, g[i - 1])
    /\ ParseArray(buf, value, p) = g[Cell(buf, p)]

LEMMA ArrayLoop ==
    ASSUME NEW buf \in Cellseq, NEW value, NEW p \in Nat, p < Len(buf),
           \A q \in (p + 1)..Len(buf) : Within(value[q], q, Len(buf))
    PROVE  \E g : ArrayTurns(g, buf, value, p)
  <1> DEFINE n == Len(buf)
             c == Cell(buf, p)
             V == Elements(value, p, n)
             v0 == Ok(<<>>, p + 1)
             Put(v) == Element(value, v)
             Turns(h) == h = [i \in 0..c |-> IF i = 0 THEN v0 ELSE Put(h[i - 1])]
             step == [x \in (1..c) \X V |-> Put(x[2])]
             h == CHOOSE x : Turns(x)
  <1>0. n \in Nat /\ c \in Nat
    BY CellFacts DEF Cellseq
  <1>1. ParseArray(buf, value, p) = h[c]
    BY DEF ParseArray, Element
  <1>2. v0 \in V
    <2>1. <<>> \in Seq({value[k].value : k \in p..n}) /\ p + 1 \in (p + 1)..n
      BY <1>0
    <2> QED
      BY <2>1, ElementsFacts DEF IsElements
  <1>3. \A v \in V : Put(v) \in V
    BY <1>0, ElementWithin
  <1> HIDE DEF n, c, V, v0, Put
  <1>4. step \in [(1..c) \X V -> V]
    BY <1>3
  <1>5. \A i \in 1..c, v \in V : step[<<i, v>>] = Put(v)
    OBVIOUS
  <1> HIDE DEF step
  <1>6. PICK g : Turned(g, c, V, v0, step)
    <2>1. Loop(c, V, v0, step)
      BY <1>0, <1>2, <1>4 DEF Loop
    <2> QED
      BY <2>1, LoopExists, Zenon
  <1>7. \A i \in 1..c : i - 1 \in 0..c /\ i \in 0..c /\ i # 0
    BY <1>0
  <1>8. \A i \in 1..c : g[i] = Put(g[i - 1])
    BY <1>5, <1>6, <1>7 DEF Turned
  <1>9. Turns(g)
    <2>1. g = [i \in 0..c |-> g[i]]
      BY <1>6 DEF Turned
    <2>2. \A i \in 0..c : g[i] = IF i = 0 THEN v0 ELSE Put(g[i - 1])
      BY <1>0, <1>6, <1>8 DEF Turned
    <2> QED
      BY <2>1, <2>2
  <1>10. Turns(h)
    <2> HIDE DEF Turns
    <2> QED
      BY <1>9, Zenon
  <1>11. h[c] = g[c]
    <2> HIDE DEF h
    <2> DEFINE S == {i \in 0..c : h[i] = g[i]}
    <2>1. 0 \in S
      BY <1>0, <1>6, <1>10 DEF Turned
    <2>2. \A i \in 1..c : h[i] = Put(h[i - 1])
      BY <1>7, <1>10
    <2>3. \A i \in 1..c : i - 1 \in S => i \in S
      BY <1>7, <1>8, <2>2
    <2> HIDE DEF S
    <2>4. 0..c \subseteq S
      BY <1>0, <2>1, <2>3, ByInduction
    <2> QED
      BY <1>0, <2>4 DEF S
  <1>12. /\ g \in [0..c -> V] /\ g[0] = v0 /\ \A i \in 1..c : g[i] = Put(g[i - 1])
         /\ ParseArray(buf, value, p) = g[c]
    BY <1>1, <1>6, <1>8, <1>11 DEF Turned
  <1>13. ArrayTurns(g, buf, value, p)
    BY <1>12 DEF ArrayTurns, n, c, V, v0, Put
  <1> QED
    BY <1>13

\* An array ends within the body, if the values behind its length do.
LEMMA ArrayWithin ==
    ASSUME NEW buf \in Cellseq, NEW value, NEW p \in Nat, p < Len(buf),
           \A q \in (p + 1)..Len(buf) : Within(value[q], q, Len(buf))
    PROVE  \/ ParseArray(buf, value, p) = Err
           \/ \E v : \E q \in (p + 1)..Len(buf) : ParseArray(buf, value, p) = Ok(v, q)
  <1>1. PICK g : ArrayTurns(g, buf, value, p)
    BY ArrayLoop
  <1>2. Cell(buf, p) \in Nat
    BY CellFacts
  <1>3. ParseArray(buf, value, p) \in Elements(value, p, Len(buf))
    BY <1>1, <1>2 DEF ArrayTurns
  <1> QED
    <2>1. IsElements(ParseArray(buf, value, p), value, p, Len(buf))
      BY <1>3, ElementsFacts, Zenon
    <2> QED
      BY <2>1, Zenon DEF IsElements

\* An array only depends on the values behind its length.
LEMMA ArraySame ==
    ASSUME NEW buf \in Cellseq, NEW value, NEW other, NEW p \in Nat, p < Len(buf),
           \A q \in (p + 1)..Len(buf) : Within(value[q], q, Len(buf)) /\ other[q] = value[q]
    PROVE  ParseArray(buf, value, p) = ParseArray(buf, other, p)
  <1> DEFINE n == Len(buf)
             c == Cell(buf, p)
  <1>0. n \in Nat /\ c \in Nat
    BY CellFacts DEF Cellseq
  <1>1. PICK g : ArrayTurns(g, buf, value, p)
    BY ArrayLoop
  <1>2. PICK h : ArrayTurns(h, buf, other, p)
    <2>1. \A q \in (p + 1)..n : Within(other[q], q, n)
      OBVIOUS
    <2> QED
      BY <2>1, ArrayLoop
  <1> DEFINE S == {i \in 0..c : g[i] = h[i]}
  <1>3. 0 \in S
    BY <1>0, <1>1, <1>2 DEF ArrayTurns
  <1>4. \A i \in 1..c : i - 1 \in S => i \in S
    <2> SUFFICES ASSUME NEW i \in 1..c, g[i - 1] = h[i - 1]
                 PROVE  i \in 0..c /\ g[i] = h[i]
      OBVIOUS
    <2>1. i \in 0..c /\ i - 1 \in 0..c
      BY <1>0
    <2>2. /\ g[i] = Element(value, g[i - 1]) /\ h[i] = Element(other, g[i - 1])
          /\ g[i - 1] \in Elements(value, p, n)
      BY <1>1, <1>2, <2>1 DEF ArrayTurns
    <2>3. g[i - 1] = Err \/ (g[i - 1].ok = TRUE /\ g[i - 1].pos \in (p + 1)..n)
      BY <1>0, <2>2, ElementWithin
    <2>4. CASE g[i - 1] = Err
      BY <2>1, <2>2, <2>4, ResultFacts DEF Element
    <2>5. CASE g[i - 1].pos \in (p + 1)..n
      BY <2>1, <2>2, <2>5 DEF Element
    <2> QED
      BY <2>3, <2>4, <2>5
  <1> HIDE DEF S
  <1>5. 0..c \subseteq S
    BY <1>0, <1>3, <1>4, ByInduction
  <1>6. g[c] = h[c]
    BY <1>0, <1>5 DEF S
  <1> QED
    BY <1>1, <1>2, <1>6 DEF ArrayTurns

\* parse_value, by the tag it meets.
LEMMA AtEnd ==
    ASSUME NEW buf \in Cellseq, NEW value, NEW at \in Nat, at >= Len(buf)
    PROVE  ParseAt(buf, value, at) = Err
  <1>1. Cell(buf, at) = -1
    BY DEF Cell, Wild, Cellseq
  <1> HIDE DEF Cell
  <1> QED
    BY <1>1 DEF ParseAt, Nil, Error, Str, Int64, Dbl, Arr

LEMMA AtNil ==
    ASSUME NEW buf \in Cellseq, NEW value, NEW at \in Nat, at < Len(buf),
           Cell(buf, at) = Nil
    PROVE  ParseAt(buf, value, at) = Ok([tag |-> Nil], at + 1)
  <1>1. ~(at >= Len(buf))
    BY DEF Cellseq
  <1> QED
    BY <1>1 DEF ParseAt, Nil, Error, Str, Int64, Dbl, Arr

LEMMA AtError ==
    ASSUME NEW buf \in Cellseq, NEW value, NEW at \in Nat, at < Len(buf),
           Cell(buf, at) = Error
    PROVE  LET msg == ParseBytes(buf, at + 1 + 1)
           IN ParseAt(buf, value, at) =
                 IF ~Need(buf, at + 1, 2) \/ ~msg.ok THEN Err
                 ELSE Ok([tag |-> Error, err_code |-> Cell(buf, at + 1),
                          err_msg |-> msg.value], msg.pos)
  <1>1. ~(at >= Len(buf))
    BY DEF Cellseq
  <1> QED
    BY <1>1 DEF ParseAt, Nil, Error, Str, Int64, Dbl, Arr

LEMMA AtStr ==
    ASSUME NEW buf \in Cellseq, NEW value, NEW at \in Nat, at < Len(buf),
           Cell(buf, at) = Str
    PROVE  LET s == ParseBytes(buf, at + 1)
           IN ParseAt(buf, value, at) =
                 IF ~s.ok THEN Err ELSE Ok([tag |-> Str, str |-> s.value], s.pos)
  <1>1. ~(at >= Len(buf))
    BY DEF Cellseq
  <1> QED
    BY <1>1 DEF ParseAt, Nil, Error, Str, Int64, Dbl, Arr

LEMMA AtNumber ==
    ASSUME NEW buf \in Cellseq, NEW value, NEW at \in Nat, at < Len(buf),
           Cell(buf, at) \in {Int64, Dbl}
    PROVE  ParseAt(buf, value, at) =
              IF ~Need(buf, at + 1, 2) THEN Err
              ELSE Ok([tag |-> Cell(buf, at), number |-> Cells(buf, at + 1, 2)], at + 1 + 2)
  <1>1. ~(at >= Len(buf))
    BY DEF Cellseq
  <1>2. Cell(buf, at) \in {3, 4}
    BY DEF Int64, Dbl
  <1> QED
    BY <1>1, <1>2 DEF ParseAt, Nil, Error, Str, Int64, Dbl, Arr

LEMMA AtArr ==
    ASSUME NEW buf \in Cellseq, NEW value, NEW at \in Nat, at < Len(buf),
           Cell(buf, at) = Arr
    PROVE  LET arr == ParseArray(buf, value, at + 1)
           IN ParseAt(buf, value, at) =
                 IF ~Need(buf, at + 1, 1) \/ ~arr.ok THEN Err
                 ELSE Ok([tag |-> Arr, arr |-> arr.value], arr.pos)
  <1>1. ~(at >= Len(buf))
    BY DEF Cellseq
  <1> QED
    BY <1>1 DEF ParseAt, Nil, Error, Str, Int64, Dbl, Arr

LEMMA AtOther ==
    ASSUME NEW buf \in Cellseq, NEW value, NEW at \in Nat,
           Cell(buf, at) \notin {Nil, Error, Str, Int64, Dbl, Arr}
    PROVE  ParseAt(buf, value, at) = Err
  <1>1. /\ ~(Cell(buf, at) = Nil) /\ ~(Cell(buf, at) = Error) /\ ~(Cell(buf, at) = Str)
        /\ ~(Cell(buf, at) \in {Int64, Dbl}) /\ ~(Cell(buf, at) = Arr)
    OBVIOUS
  <1> QED
    BY <1>1 DEF ParseAt

\* A value ends within the body and after it began, if those behind it do.
LEMMA ValueWithin ==
    ASSUME NEW buf \in Cellseq, NEW value, NEW at \in Nat,
           \A q \in (at + 1)..Len(buf) : Within(value[q], q, Len(buf))
    PROVE  Within(ParseAt(buf, value, at), at, Len(buf))
  <1> DEFINE n == Len(buf)
             tag == Cell(buf, at)
  <1>0. n \in Nat
    BY DEF Cellseq
  <1>a. ASSUME NEW r, NEW k \in {at + 1, at + 2}, Within(r, k, n)
        PROVE  r = Err \/ (r.ok = TRUE /\ r.pos \in (at + 1)..n)
    <2>1. CASE r = Err
      BY <2>1
    <2>2. ASSUME NEW v, NEW q \in (k + 1)..n, r = Ok(v, q)
          PROVE  r.ok = TRUE /\ r.pos \in (at + 1)..n
      <3>1. q \in (at + 1)..n
        BY <1>0
      <3> QED
        BY <2>2, <3>1, ResultFacts
    <2> QED
      BY <1>a, <2>2 DEF Within
  <1>b. \A v : \A q \in (at + 1)..n : Within(Ok(v, q), at, n)
    BY DEF Within
  <1>c. Within(Err, at, n)
    BY DEF Within
  <1>d. Err.ok = FALSE
    BY ResultFacts
  <1> HIDE DEF n, tag
  <1>1. CASE at >= n
    BY <1>1, <1>c, AtEnd DEF n
  <1>2. CASE at < n /\ tag = Nil
    <2>1. at + 1 \in (at + 1)..n
      BY <1>0, <1>2
    <2> QED
      BY <1>2, <1>b, <2>1, AtNil DEF n, tag
  <1>3. CASE at < n /\ tag = Error
    <2> DEFINE msg == ParseBytes(buf, at + 1 + 1)
    <2>1. Within(msg, at + 1 + 1, n) /\ at + 1 + 1 = at + 2
      BY BytesWithin DEF n
    <2>2. ParseAt(buf, value, at) =
                 IF ~Need(buf, at + 1, 2) \/ ~msg.ok THEN Err
                 ELSE Ok([tag |-> Error, err_code |-> Cell(buf, at + 1),
                          err_msg |-> msg.value], msg.pos)
      BY <1>3, AtError DEF n, tag
    <2> HIDE DEF msg
    <2>3. msg = Err \/ (msg.ok = TRUE /\ msg.pos \in (at + 1)..n)
      BY <1>a, <2>1
    <2> QED
      BY <2>2, <2>3, <1>b, <1>c, <1>d DEF n
  <1>4. CASE at < n /\ tag = Str
    <2> DEFINE s == ParseBytes(buf, at + 1)
    <2>1. Within(s, at + 1, n)
      BY BytesWithin DEF n
    <2>2. ParseAt(buf, value, at) =
                 IF ~s.ok THEN Err ELSE Ok([tag |-> Str, str |-> s.value], s.pos)
      BY <1>4, AtStr DEF n, tag
    <2> HIDE DEF s
    <2>3. s = Err \/ (s.ok = TRUE /\ s.pos \in (at + 1)..n)
      BY <1>a, <2>1
    <2> QED
      BY <2>2, <2>3, <1>b, <1>c, <1>d DEF n
  <1>5. CASE at < n /\ tag \in {Int64, Dbl}
    <2>1. ParseAt(buf, value, at) =
              IF ~Need(buf, at + 1, 2) THEN Err
              ELSE Ok([tag |-> tag, number |-> Cells(buf, at + 1, 2)], at + 1 + 2)
      BY <1>5, AtNumber DEF n, tag
    <2>2. Need(buf, at + 1, 2) => at + 1 + 2 \in (at + 1)..n
      BY <1>0 DEF Need, n
    <2> QED
      BY <2>1, <2>2, <1>b, <1>c DEF n
  <1>6. CASE at < n /\ tag = Arr
    <2> DEFINE arr == ParseArray(buf, value, at + 1)
    <2>1. ParseAt(buf, value, at) =
                 IF ~Need(buf, at + 1, 1) \/ ~arr.ok THEN Err
                 ELSE Ok([tag |-> Arr, arr |-> arr.value], arr.pos)
      BY <1>6, AtArr DEF n, tag
    <2>2. CASE Need(buf, at + 1, 1)
      <3>1. at + 1 \in Nat /\ at + 1 < n /\ \A q \in (at + 1 + 1)..n : q \in (at + 1)..n
        BY <1>0, <2>2 DEF Need, n
      <3>2. Within(arr, at + 1, n)
        BY <3>1, ArrayWithin DEF Within, n
      <3> HIDE DEF arr
      <3>3. arr = Err \/ (arr.ok = TRUE /\ arr.pos \in (at + 1)..n)
        BY <1>a, <3>2
      <3> QED
        BY <2>1, <3>3, <1>b, <1>c, <1>d DEF n
    <2>3. CASE ~Need(buf, at + 1, 1)
      BY <2>1, <2>3, <1>c DEF n
    <2> QED
      BY <2>2, <2>3
  <1>7. CASE tag \notin {Nil, Error, Str, Int64, Dbl, Arr}
    BY <1>7, <1>c, AtOther DEF n, tag
  <1>8. at >= n \/ at < n
    BY <1>0
  <1> QED
    BY <1>1, <1>2, <1>3, <1>4, <1>5, <1>6, <1>7, <1>8 DEF n

\* A value only depends on those behind it.
LEMMA ValueSame ==
    ASSUME NEW buf \in Cellseq, NEW value, NEW other, NEW at \in Nat,
           \A q \in (at + 1)..Len(buf) : Within(value[q], q, Len(buf)) /\ other[q] = value[q]
    PROVE  ParseAt(buf, value, at) = ParseAt(buf, other, at)
  <1> DEFINE n == Len(buf)
             tag == Cell(buf, at)
  <1>0. n \in Nat
    BY DEF Cellseq
  <1> HIDE DEF n, tag
  <1>1. CASE at >= n
    BY <1>1, AtEnd DEF n
  <1>2. CASE at < n /\ tag = Nil
    BY <1>2, AtNil DEF n, tag
  <1>3. CASE at < n /\ tag = Error
    BY <1>3, AtError DEF n, tag
  <1>4. CASE at < n /\ tag = Str
    BY <1>4, AtStr DEF n, tag
  <1>5. CASE at < n /\ tag \in {Int64, Dbl}
    BY <1>5, AtNumber DEF n, tag
  <1>6. CASE at < n /\ tag = Arr
    <2> DEFINE A(v) == ParseArray(buf, v, at + 1)
               P(v) == IF ~Need(buf, at + 1, 1) \/ ~A(v).ok THEN Err
                       ELSE Ok([tag |-> Arr, arr |-> A(v).value], A(v).pos)
    <2>1. ParseAt(buf, value, at) = P(value) /\ ParseAt(buf, other, at) = P(other)
      BY <1>6, AtArr DEF n, tag
    <2>2. CASE Need(buf, at + 1, 1)
      <3>1. at + 1 \in Nat /\ at + 1 < n /\ \A q \in (at + 1 + 1)..n : q \in (at + 1)..n
        BY <1>0, <2>2 DEF Need, n
      <3>2. A(value) = A(other)
        BY <3>1, ArraySame DEF n
      <3> HIDE DEF A
      <3> QED
        BY <2>1, <3>2
    <2>3. CASE ~Need(buf, at + 1, 1)
      BY <2>1, <2>3
    <2> QED
      BY <2>2, <2>3
  <1>7. CASE tag \notin {Nil, Error, Str, Int64, Dbl, Arr}
    BY <1>7, AtOther DEF n, tag
  <1>8. at >= n \/ at < n
    BY <1>0
  <1> QED
    BY <1>1, <1>2, <1>3, <1>4, <1>5, <1>6, <1>7, <1>8

\* What parse_value computes from at on: value[k] is the value at cell k.
Parsed(value, buf, at) ==
    \A k \in at..Len(buf) : /\ value[k] = ParseAt(buf, value, k)
                            /\ Within(value[k], k, Len(buf))

\* The values of a body can be computed from its end.
LEMMA ParsedExists ==
    ASSUME NEW buf \in Cellseq
    PROVE  \E value : DOMAIN value = 0..Len(buf) /\ value = [k \in 0..Len(buf) |-> value[k]]
                      /\ Parsed(value, buf, 0)
  <1> DEFINE n == Len(buf)
             Fn(f) == DOMAIN f = 0..n /\ f = [k \in 0..n |-> f[k]]
             S == {m \in 0..n : \E f : Fn(f) /\ Parsed(f, buf, n - m)}
  <1>0. n \in Nat
    BY DEF Cellseq
  <1>1. 0 \in S
    <2> DEFINE f == [k \in 0..n |-> Err]
    <2>1. ParseAt(buf, f, n) = Err
      BY <1>0, AtEnd
    <2>2. Fn(f) /\ f[n] = Err
      BY <1>0
    <2> HIDE DEF f
    <2>3. Parsed(f, buf, n)
      BY <1>0, <2>1, <2>2 DEF Parsed, Within
    <2>4. n - 0 = n /\ 0 \in 0..n
      BY <1>0
    <2> QED
      BY <2>2, <2>3, <2>4
  <1>2. ASSUME NEW m \in 1..n, m - 1 \in S
        PROVE  m \in S
    <2> DEFINE at == n - m
    <2>1. at \in Nat /\ at \in 0..n /\ n - (m - 1) = at + 1 /\ m \in 0..n
      BY <1>0
    <2>2. PICK f : Fn(f) /\ Parsed(f, buf, at + 1)
      BY <1>2, <2>1
    <2> DEFINE v == ParseAt(buf, f, at)
               g == [f EXCEPT ![at] = v]
    <2> HIDE DEF at, v
    <2>3. \A k \in (at + 1)..n : k \in 0..n /\ k # at
      BY <1>0, <2>1
    <2>4. Fn(g) /\ g[at] = v /\ \A k \in (at + 1)..n : g[k] = f[k]
      BY <2>1, <2>2, <2>3
    <2> HIDE DEF g
    <2>5. \A k \in (at + 1)..n : Within(f[k], k, n)
      BY <2>2 DEF Parsed
    <2>6. ASSUME NEW k \in at..n
          PROVE  ParseAt(buf, f, k) = ParseAt(buf, g, k)
      <3>1. k \in Nat /\ \A q \in (k + 1)..n : q \in (at + 1)..n
        BY <1>0, <2>1
      <3>2. \A q \in (k + 1)..n : Within(f[q], q, n) /\ g[q] = f[q]
        BY <2>4, <2>5, <3>1
      <3> QED
        BY <3>1, <3>2, ValueSame
    <2>7. Within(v, at, n)
      BY <2>1, <2>5, ValueWithin DEF v
    <2>8. Parsed(g, buf, at)
      <3> SUFFICES ASSUME NEW k \in at..n
                   PROVE  g[k] = ParseAt(buf, g, k) /\ Within(g[k], k, n)
        BY DEF Parsed
      <3>1. CASE k = at
        BY <2>4, <2>6, <2>7, <3>1 DEF v
      <3>2. CASE k # at
        <4>1. k \in (at + 1)..n
          BY <1>0, <2>1, <3>2
        <4> QED
          BY <2>2, <2>4, <2>6, <4>1 DEF Parsed
      <3> QED
        BY <3>1, <3>2
    <2> QED
      BY <2>1, <2>4, <2>8 DEF at
  <1> HIDE DEF S
  <1>3. n \in S
    <2>1. 0..n \subseteq S
      BY <1>0, <1>1, <1>2, ByInduction
    <2> QED
      BY <1>0, <2>1
  <1>4. n - n = 0
    BY <1>0
  <1> QED
    BY <1>3, <1>4 DEF S

\* A table that satisfies parse_value's equation has those values.
LEMMA ParsedAll ==
    ASSUME NEW buf \in Cellseq, NEW value,
           value = [at \in 0..Len(buf) |-> ParseAt(buf, value, at)]
    PROVE  \A at \in 0..Len(buf) : Within(value[at], at, Len(buf))
  <1> DEFINE n == Len(buf)
             S == {m \in 0..n : \A k \in (n - m)..n : Within(value[k], k, n)}
  <1>0. n \in Nat
    BY DEF Cellseq
  <1>a. \A k \in 0..n : value[k] = ParseAt(buf, value, k)
    OBVIOUS
  <1>1. 0 \in S
    <2>1. Within(value[n], n, n)
      BY <1>0, <1>a, AtEnd DEF Within
    <2>2. \A k \in (n - 0)..n : k = n
      BY <1>0
    <2> QED
      BY <1>0, <2>1, <2>2
  <1>2. ASSUME NEW m \in 1..n, m - 1 \in S
        PROVE  m \in S
    <2> DEFINE at == n - m
    <2>1. at \in Nat /\ at \in 0..n /\ n - (m - 1) = at + 1 /\ m \in 0..n
      BY <1>0
    <2>2. \A k \in (at + 1)..n : Within(value[k], k, n)
      BY <1>2, <2>1
    <2> HIDE DEF at
    <2>3. Within(value[at], at, n)
      BY <1>a, <2>1, <2>2, ValueWithin
    <2>4. \A k \in at..n : k = at \/ k \in (at + 1)..n
      BY <1>0, <2>1
    <2> QED
      BY <2>1, <2>2, <2>3, <2>4 DEF at
  <1> HIDE DEF S
  <1>3. n \in S
    <2>1. 0..n \subseteq S
      BY <1>0, <1>1, <1>2, ByInduction
    <2> QED
      BY <1>0, <2>1
  <1>4. n - n = 0
    BY <1>0
  <1> QED
    BY <1>3, <1>4 DEF S

\* parse_value (redis_client.cpp:149-223), given any body a server can send and
\* any place in it, returns an error, or a value and a pos that has moved on and
\* is still within the body.  So need()'s buf.size() - pos (line 151), which is
\* unsigned, never wraps around, in no element of an array however deeply
\* nested, and each call of parse_value works on a shorter rest of the body.
THEOREM ParseInside ==
    ASSUME NEW buf \in Cellseq, NEW pos \in 0..Len(buf)
    PROVE  \/ parse_value(buf, pos) = Err
           \/ \E v : \E q \in (pos + 1)..Len(buf) : parse_value(buf, pos) = Ok(v, q)
  <1> DEFINE Table(f) == f = [at \in 0..Len(buf) |-> ParseAt(buf, f, at)]
             value == CHOOSE f : Table(f)
  <1>1. parse_value(buf, pos) = value[pos]
    BY DEF parse_value
  <1>2. PICK f : /\ DOMAIN f = 0..Len(buf) /\ f = [k \in 0..Len(buf) |-> f[k]]
                 /\ Parsed(f, buf, 0)
    BY ParsedExists
  <1>3. Table(f)
    <2>1. \A k \in 0..Len(buf) : f[k] = ParseAt(buf, f, k)
      BY <1>2 DEF Parsed
    <2> QED
      BY <1>2, <2>1
  <1>4. Table(value)
    <2> HIDE DEF Table
    <2> QED
      BY <1>3, Zenon
  <1>5. Within(value[pos], pos, Len(buf))
    <2> HIDE DEF value
    <2> QED
      BY <1>4, ParsedAll
  <1> HIDE DEF value
  <1> QED
    BY <1>1, <1>5 DEF Within
=============================================================================
