-------------------------- MODULE TelemetryProofs --------------------------
(***************************************************************************)
(* Proofs about Telemetry, for any number of threads, events, jobs and     *)
(* lines of output, any limits of the log and any command line.            *)
(***************************************************************************)
EXTENDS Telemetry, FiniteSetTheorems, TLAPS

SeqT == INSTANCE SequenceTheorems

-----------------------------------------------------------------------------
(* Sequences, sets of numbers, and loops.                                  *)

\* What it means to be a suffix, element by element.
LEMMA SuffixByElement ==
    ASSUME NEW S, NEW s \in Seq(S), NEW t \in Seq(S)
    PROVE  IsSuffix(s, t) <=>
              /\ Len(s) <= Len(t)
              /\ \A i \in 1..Len(s) : s[i] = t[Len(t) - Len(s) + i]
  <1> DEFINE m == Len(s)
             n == Len(t)
             r == [i \in 1..m |-> s[(m - i) + 1]]
             q == [i \in 1..n |-> t[(n - i) + 1]]
  <1>1. m \in Nat /\ n \in Nat
    OBVIOUS
  <1>2. r \in Seq(S) /\ q \in Seq(S) /\ Len(r) = m /\ Len(q) = n
    BY <1>1
  <1>3. SubSeq(r, 1, m) = r
    BY <1>1, <1>2
  <1>4. ASSUME m <= n
        PROVE  SubSeq(q, 1, m) = r <=> \A i \in 1..m : s[i] = t[n - m + i]
    <2>1. SubSeq(q, 1, m) = [i \in 1..m |-> q[i]]
      BY <1>1, <1>2, <1>4
    <2>2. \A i \in 1..m : q[i] = t[(n - i) + 1]
      BY <1>1, <1>4
    <2>3. SubSeq(q, 1, m) = r <=> \A i \in 1..m : t[(n - i) + 1] = s[(m - i) + 1]
      <3> DEFINE u == SubSeq(q, 1, m)
      <3>1. /\ u = [i \in 1..m |-> q[i]] /\ DOMAIN u = 1..m /\ DOMAIN r = 1..m
            /\ \A i \in 1..m : u[i] = t[(n - i) + 1] /\ r[i] = s[(m - i) + 1]
        BY <2>1, <2>2
      <3>2. r = [i \in 1..m |-> r[i]] /\ u = [i \in 1..m |-> u[i]]
        BY <3>1
      <3>3. u = r <=> \A i \in 1..m : u[i] = r[i]
        <4> HIDE DEF u, r
        <4> QED
          BY <3>2
      <3>4. u = r <=> \A i \in 1..m : t[(n - i) + 1] = s[(m - i) + 1]
        <4>1. \A i \in 1..m : u[i] = t[(n - i) + 1] /\ r[i] = s[(m - i) + 1]
          BY <3>1
        <4> HIDE DEF u, r, m, n
        <4>2. ASSUME \A i \in 1..m : u[i] = r[i], NEW i \in 1..m
              PROVE  t[(n - i) + 1] = s[(m - i) + 1]
          BY <4>1, <4>2
        <4>3. ASSUME \A i \in 1..m : t[(n - i) + 1] = s[(m - i) + 1], NEW i \in 1..m
              PROVE  u[i] = r[i]
          BY <4>1, <4>3
        <4> QED
          BY <3>3, <4>2, <4>3, Zenon
      <3> QED
        BY <3>4, Zenon
    <2>4. ASSUME \A i \in 1..m : t[(n - i) + 1] = s[(m - i) + 1], NEW i \in 1..m
          PROVE  s[i] = t[n - m + i]
      <3>1. (m - i) + 1 \in 1..m
        BY <1>1
      <3>2. (m - ((m - i) + 1)) + 1 = i /\ (n - ((m - i) + 1)) + 1 = n - m + i
        BY <1>1
      <3> QED
        BY <2>4, <3>1, <3>2
    <2>5. ASSUME \A i \in 1..m : s[i] = t[n - m + i], NEW i \in 1..m
          PROVE  t[(n - i) + 1] = s[(m - i) + 1]
      <3>1. (m - i) + 1 \in 1..m
        BY <1>1
      <3>2. n - m + ((m - i) + 1) = (n - i) + 1
        BY <1>1
      <3> QED
        BY <2>5, <3>1, <3>2
    <2> QED
      BY <2>3, <2>4, <2>5
  <1>5. IsSuffix(s, t) <=> m <= n /\ r = SubSeq(q, 1, m)
    BY <1>2, <1>3 DEF IsSuffix, IsPrefix, Reverse
  <1> QED
    BY <1>4, <1>5

LEMMA EmptySuffix == IsSuffix(<<>>, <<>>)
  <1>1. \A s \in Seq(Nat) : IsSuffix(s, s)
    <2> SUFFICES ASSUME NEW s \in Seq(Nat)
                 PROVE  IsSuffix(s, s)
      OBVIOUS
    <2>1. Len(s) <= Len(s) /\ \A i \in 1..Len(s) : s[i] = s[Len(s) - Len(s) + i]
      OBVIOUS
    <2> QED
      BY <2>1, SuffixByElement
  <1>2. <<>> \in Seq(Nat)
    OBVIOUS
  <1> QED
    BY <1>1, <1>2, Zenon

\* A set of numbers has a smallest one.
LEMMA Smallest ==
    ASSUME NEW I, I \subseteq Nat, I # {}
    PROVE  Min(I) \in I /\ \A i \in I : Min(I) <= i
  <1>1. \E i \in I : \A j \in I : ~(<<j, i>> \in OpToRel(<, Nat))
    BY NatLessThanWellFounded, WFMin
  <1>2. \E i \in I : \A j \in I : i <= j
    <2>1. \A i, j \in Nat : j < i => <<j, i>> \in OpToRel(<, Nat)
      BY DEF OpToRel
    <2>2. \A i, j \in Nat : ~(j < i) => i <= j
      OBVIOUS
    <2> QED
      BY <1>1, <2>1, <2>2
  <1> QED
    BY <1>2 DEF Min

\* A bounded set of numbers has a greatest one.
LEMMA Greatest ==
    ASSUME NEW I, NEW n \in Nat, I \subseteq 0..n, I # {}
    PROVE  Max(I) \in I /\ \A i \in I : i <= Max(I)
  <1> DEFINE J == {n - i : i \in I}
  <1>1. J \subseteq Nat /\ J # {} /\ \A i \in I : n - i \in J
    <2>1. \A i \in I : n - i \in J
      OBVIOUS
    <2>2. \A i \in I : n - i \in Nat
      OBVIOUS
    <2> QED
      BY <2>1, <2>2
  <1>2. \A j \in J : \E i \in I : j = n - i
    OBVIOUS
  <1> HIDE DEF J
  <1>3. Min(J) \in J /\ \A j \in J : Min(J) <= j
    BY <1>1, Smallest
  <1>4. PICK i \in I : Min(J) = n - i
    BY <1>2, <1>3
  <1>5. \A k \in I : i >= k
    BY <1>1, <1>3, <1>4
  <1>6. Max(I) \in I /\ \A k \in I : Max(I) >= k
    BY <1>5 DEF Max
  <1> QED
    BY <1>6

\* Induction up to n, for a set instead of a predicate.
LEMMA ByInduction ==
    ASSUME NEW n \in Nat, NEW S, 0 \in S,
           \A k \in 1..n : k - 1 \in S => k \in S
    PROVE  0..n \subseteq S
  <1> DEFINE T == (0..n) \ S
  <1> SUFFICES ASSUME T # {}
               PROVE  FALSE
    OBVIOUS
  <1>1. T \subseteq Nat
    OBVIOUS
  <1>2. Min(T) \in T /\ \A k \in T : Min(T) <= k
    <2> HIDE DEF T
    <2> QED
      BY <1>1, Smallest
  <1>3. Min(T) \in 1..n /\ Min(T) - 1 \in 0..n /\ ~(Min(T) <= Min(T) - 1)
    BY <1>2
  <1> QED
    BY <1>2, <1>3

\* A loop of n turns: step[<<k, v>>] is what turn k makes of v.
Loop(n, V, v0, step) == n \in Nat /\ v0 \in V /\ step \in [(1..n) \X V -> V]

\* g[k] is the value after turn k.
Turned(g, n, V, v0, step) ==
    /\ g \in [0..n -> V]
    /\ g[0] = v0
    /\ \A k \in 1..n : g[k] = step[<<k, g[k - 1]>>]

\* A loop has a value after each turn.
LEMMA LoopExists ==
    ASSUME NEW n, NEW V, NEW v0, NEW step, Loop(n, V, v0, step)
    PROVE  \E g : Turned(g, n, V, v0, step)
  <1> DEFINE Upto(m, g) == g[0] = v0 /\ \A k \in 1..m : g[k] = step[<<k, g[k - 1]>>]
             S == {m \in 0..n : \E g \in [0..n -> V] : Upto(m, g)}
  <1> USE DEF Loop
  <1>1. 0 \in S
    <2> DEFINE g == [k \in 0..n |-> v0]
    <2>1. g \in [0..n -> V] /\ 0 \in 0..n /\ 1..0 = {}
      OBVIOUS
    <2>2. g[0] = v0
      BY <2>1
    <2> HIDE DEF g
    <2> QED
      BY <2>1, <2>2
  <1>2. ASSUME NEW m \in 1..n, m - 1 \in S
        PROVE  m \in S
    <2>1. PICK g \in [0..n -> V] : Upto(m - 1, g)
      BY <1>2
    <2> DEFINE h == [g EXCEPT ![m] = step[<<m, g[m - 1]>>]]
    <2>2. m \in 0..n /\ m - 1 \in 0..n /\ m # m - 1 /\ m # 0
      OBVIOUS
    <2>3. h \in [0..n -> V]
      BY <2>1, <2>2
    <2>4. h[0] = v0 /\ h[m] = step[<<m, h[m - 1]>>]
      <3>1. 0 \in 0..n /\ h[0] = g[0] /\ h[m - 1] = g[m - 1]
        BY <2>2
      <3>2. h[m] = step[<<m, g[m - 1]>>]
        BY <2>2
      <3> QED
        BY <2>1, <3>1, <3>2
    <2>5. ASSUME NEW k \in 1..m, k # m
          PROVE  h[k] = step[<<k, h[k - 1]>>]
      <3>1. k \in 1..(m - 1) /\ k \in 0..n /\ k - 1 \in 0..n /\ k # m /\ k - 1 # m
        BY <2>5
      <3>2. h[k] = g[k] /\ h[k - 1] = g[k - 1]
        BY <3>1
      <3> QED
        BY <2>1, <3>1, <3>2
    <2>6. Upto(m, h)
      BY <2>4, <2>5
    <2> QED
      BY <2>2, <2>3, <2>6
  <1> HIDE DEF S
  <1>3. 0..n \subseteq S
    BY <1>1, <1>2, ByInduction
  <1>4. n \in S
    BY <1>3
  <1> QED
    BY <1>4 DEF S, Turned

-----------------------------------------------------------------------------
(* The log.  A step of the daemon is one operation on it, or none.         *)

Pushes == [entry : Entries, raw : Seq(Tokens)]

LogTypes ==
    /\ entries \in Seq(Entries)
    /\ pushed \in Seq(Pushes)
    /\ max_entries \in Capacities /\ low \in Capacities /\ last \in Capacities

\* RawKept, for one line and the message made of it.
Fits(message, raw) ==
    \/ message = raw /\ (FirstSpace(raw) = 0 \/ ~Tagged(raw))
    \/ Tagged(raw) /\ raw = SubSeq(raw, 1, 1) \o <<Space>> \o message
    \/ Tagged(raw) /\ raw[2] # Space /\ IsSuffix(<<Space>> \o message, raw)

LogStep ==
    \/ \E entry \in Entries, raw \in Seq(Tokens) :
          Store(entry, raw) /\ Fits(entry.message, raw)
    \/ \E c \in Capacities : set_max_entries(c)
    \/ clear
    \/ UNCHANGED logVars

LEMMA LargestFacts == Largest \in Capacities /\ Capacities \subseteq Nat
  BY LogAssumption DEF Largest

\* Trimming keeps the newest entries, as many as the limit allows.
LEMMA TrimmedFacts ==
    ASSUME NEW log \in Seq(Entries), max_entries \in Nat
    PROVE  /\ Trimmed(log) \in Seq(Entries)
           /\ Len(Trimmed(log)) = IF Len(log) > max_entries THEN max_entries ELSE Len(log)
           /\ \A i \in 1..Len(Trimmed(log)) :
                 Trimmed(log)[i] = log[Len(log) - Len(Trimmed(log)) + i]
  <1>0. Len(log) \in Nat
    OBVIOUS
  <1>1. CASE Len(log) > max_entries
    <2> DEFINE m == Len(log) - max_entries + 1
               n == Len(log)
    <2>1. m \in Int /\ n \in Int /\ m \in 1..(n + 1) /\ n - m + 1 = max_entries
      BY <1>0, <1>1
    <2>2. \A i \in m..n : log[i] \in Entries
      BY <1>0, <2>1
    <2>3. /\ SubSeq(log, m, n) \in Seq(Entries)
          /\ Len(SubSeq(log, m, n)) = IF m <= n THEN n - m + 1 ELSE 0
          /\ \A i \in 1..(n - m + 1) : SubSeq(log, m, n)[i] = log[m + i - 1]
      BY <2>1, <2>2, SeqT!SubSeqProperties
    <2>4. Trimmed(log) = SubSeq(log, m, n)
      BY <1>1 DEF Trimmed
    <2>5. Len(Trimmed(log)) = max_entries
      BY <2>1, <2>3, <2>4
    <2>6. \A i \in 1..max_entries : Trimmed(log)[i] = log[Len(log) - max_entries + i]
      BY <1>0, <2>1, <2>3, <2>4
    <2> QED
      BY <1>1, <2>3, <2>4, <2>5, <2>6
  <1>2. CASE ~(Len(log) > max_entries)
    BY <1>0, <1>2 DEF Trimmed
  <1> QED
    BY <1>1, <1>2

LEMMA StoreRetained ==
    ASSUME LogTypes, Retained, NEW entry \in Entries, NEW raw \in Seq(Tokens),
           Store(entry, raw)
    PROVE  Retained'
  <1> DEFINE log == Append(entries, entry)
             P == [i \in DOMAIN pushed |-> pushed[i].entry]
             Q == [i \in DOMAIN pushed' |-> pushed'[i].entry]
             n == Len(pushed)
  <1>1. /\ entries \in Seq(Entries) /\ pushed \in Seq(Pushes)
        /\ max_entries \in Nat /\ low \in Nat /\ last \in Nat
        /\ Len(entries) \in Nat /\ n \in Nat
    BY LargestFacts DEF LogTypes
  <1>2. [entry |-> entry, raw |-> raw] \in Pushes
    BY DEF Pushes
  <1>3. /\ pushed' \in Seq(Pushes) /\ Len(pushed') = n + 1
        /\ \A i \in 1..n : pushed'[i] = pushed[i]
        /\ pushed'[n + 1] = [entry |-> entry, raw |-> raw]
    BY <1>1, <1>2 DEF Store
  <1>4. /\ P \in Seq(Entries) /\ Len(P) = n
        /\ \A i \in 1..n : P[i] = pushed[i].entry
    <2>1. DOMAIN pushed = 1..n /\ \A i \in 1..n : pushed[i].entry \in Entries
      <3>1. \A x \in Pushes : x.entry \in Entries
        BY DEF Pushes
      <3>2. DOMAIN pushed = 1..n /\ \A i \in 1..n : pushed[i] \in Pushes
        BY <1>1
      <3> QED
        BY <3>1, <3>2
    <2> QED
      BY <1>1, <2>1
  <1>5. /\ Q \in Seq(Entries) /\ Len(Q) = n + 1
        /\ \A i \in 1..(n + 1) : Q[i] = pushed'[i].entry
    <2>1. DOMAIN pushed' = 1..(n + 1) /\ \A i \in 1..(n + 1) : pushed'[i].entry \in Entries
      <3>1. \A x \in Pushes : x.entry \in Entries
        BY DEF Pushes
      <3>2. DOMAIN pushed' = 1..(n + 1) /\ \A i \in 1..(n + 1) : pushed'[i] \in Pushes
        <4> HIDE DEF n
        <4> QED
          BY <1>1, <1>3
      <3> QED
        BY <3>1, <3>2
    <2> QED
      BY <1>1, <2>1
  <1>6. /\ log \in Seq(Entries) /\ Len(log) = Len(entries) + 1
        /\ \A i \in 1..Len(entries) : log[i] = entries[i]
        /\ log[Len(entries) + 1] = entry
    BY <1>1
  <1>7. /\ entries' \in Seq(Entries)
        /\ Len(entries') = IF Len(log) > max_entries THEN max_entries ELSE Len(log)
        /\ \A i \in 1..Len(entries') : entries'[i] = log[Len(log) - Len(entries') + i]
    BY <1>1, <1>6, TrimmedFacts DEF Store
  <1>8. /\ Len(entries) <= n
        /\ \A i \in 1..Len(entries) : entries[i] = P[n - Len(entries) + i]
    <2>1. IsSuffix(entries, P)
      BY DEF Retained
    <2> HIDE DEF P, n
    <2> QED
      BY <1>1, <1>4, <2>1, SuffixByElement
  <1>9. /\ Len(entries') <= n + 1
        /\ \A i \in 1..Len(entries') : entries'[i] = Q[n + 1 - Len(entries') + i]
    <2> HIDE DEF log, P, Q, n
    <2>1. \A i \in 1..Len(log) : log[i] = Q[n + 1 - Len(log) + i]
      <3> SUFFICES ASSUME NEW i \in 1..Len(log)
                   PROVE  log[i] = Q[n + 1 - Len(log) + i]
        OBVIOUS
      <3>1. CASE i \in 1..Len(entries)
        <4>1. n - Len(entries) + i \in 1..n
          BY <1>1, <1>8, <3>1
        <4>2. log[i] = pushed[n - Len(entries) + i].entry
          BY <1>4, <1>6, <1>8, <3>1, <4>1
        <4>3. Q[n - Len(entries) + i] = pushed[n - Len(entries) + i].entry
          BY <1>1, <1>3, <1>5, <4>1
        <4>4. n + 1 - Len(log) + i = n - Len(entries) + i
          BY <1>1, <1>6
        <4> QED
          BY <4>2, <4>3, <4>4
      <3>2. CASE i = Len(entries) + 1
        <4>1. n + 1 - Len(log) + i = n + 1
          BY <1>1, <1>6, <3>2
        <4>2. Q[n + 1] = entry
          BY <1>1, <1>3, <1>5
        <4> QED
          BY <1>6, <3>2, <4>1, <4>2
      <3> QED
        BY <1>1, <1>6, <3>1, <3>2
    <2>2. Len(entries') \in Nat /\ Len(entries') <= Len(log)
      BY <1>1, <1>6, <1>7
    <2>3. Len(entries') <= n + 1
      BY <1>1, <1>6, <1>8, <2>2
    <2>4. ASSUME NEW i \in 1..Len(entries')
          PROVE  entries'[i] = Q[n + 1 - Len(entries') + i]
      <3>1. Len(log) - Len(entries') + i \in 1..Len(log)
        BY <1>1, <1>6, <2>2
      <3>2. n + 1 - Len(log) + (Len(log) - Len(entries') + i) = n + 1 - Len(entries') + i
        BY <1>1, <1>6, <2>2
      <3> QED
        BY <1>7, <2>1, <3>1, <3>2
    <2> QED
      BY <2>3, <2>4
  <1>10. IsSuffix(entries', Q)
    <2> HIDE DEF Q, n
    <2>1. /\ Len(entries') <= Len(Q)
          /\ \A i \in 1..Len(entries') : entries'[i] = Q[Len(Q) - Len(entries') + i]
      <3>1. Len(Q) = n + 1
        BY <1>5
      <3>2. Len(entries') <= Len(Q)
        BY <1>9, <3>1
      <3>3. ASSUME NEW i \in 1..Len(entries')
            PROVE  entries'[i] = Q[Len(Q) - Len(entries') + i]
        <4>1. entries'[i] = Q[n + 1 - Len(entries') + i]
          BY <1>9
        <4>2. Len(Q) - Len(entries') + i = n + 1 - Len(entries') + i
          BY <1>1, <1>7, <3>1
        <4> QED
          BY <4>1, <4>2, Zenon
      <3> QED
        BY <3>2, <3>3, Zenon
    <2> QED
      BY <1>5, <1>7, <2>1, SuffixByElement, Zenon
  <1>11. Len(entries') <= last'
    BY <1>1, <1>6, <1>7 DEF Store
  <1>12. Len(entries') >= IF Len(pushed') < low' THEN Len(pushed') ELSE low'
    <2>1. Len(entries) >= IF n < low THEN n ELSE low
      BY DEF Retained
    <2>2. low' = IF max_entries < low THEN max_entries ELSE low
      BY DEF Store
    <2> HIDE DEF n, log
    <2> QED
      BY <1>1, <1>3, <1>6, <1>7, <2>1, <2>2
  <1> QED
    BY <1>10, <1>11, <1>12 DEF Retained

LEMMA LogStepRetained ==
    ASSUME LogTypes, Retained, LogStep
    PROVE  Retained'
  <1>1. CASE UNCHANGED <<entries, pushed, low, last>>
    BY <1>1 DEF Retained
  <1>2. CASE clear
    <2>1. entries' = <<>> /\ pushed' = <<>> /\ low' \in Nat /\ last' \in Nat
      BY <1>2, LargestFacts DEF clear, LogTypes
    <2>2. [i \in DOMAIN pushed' |-> pushed'[i].entry] = <<>>
      BY <2>1
    <2>4. /\ Len(entries') <= last'
          /\ Len(entries') >= IF Len(pushed') < low' THEN Len(pushed') ELSE low'
      BY <2>1
    <2> QED
      BY <2>1, <2>2, <2>4, EmptySuffix DEF Retained
  <1> QED
    BY <1>1, <1>2, StoreRetained DEF LogStep, set_max_entries, logVars

LEMMA LogStepRawKept ==
    ASSUME LogTypes, RawKept, LogStep
    PROVE  RawKept'
  <1>1. CASE UNCHANGED pushed
    BY <1>1 DEF RawKept
  <1>2. CASE clear
    <2>1. DOMAIN pushed' = {}
      BY <1>2 DEF clear
    <2> QED
      BY <2>1 DEF RawKept
  <1>3. ASSUME NEW entry \in Entries, NEW raw \in Seq(Tokens),
               Store(entry, raw), Fits(entry.message, raw)
        PROVE  RawKept'
    <2>1. [entry |-> entry, raw |-> raw] \in Pushes /\ pushed \in Seq(Pushes)
      BY DEF Pushes, LogTypes
    <2>2. pushed' = Append(pushed, [entry |-> entry, raw |-> raw])
      BY <1>3 DEF Store
    <2>3. /\ DOMAIN pushed = 1..Len(pushed) /\ DOMAIN pushed' = 1..(Len(pushed) + 1)
          /\ \A i \in 1..Len(pushed) : pushed'[i] = pushed[i]
          /\ pushed'[Len(pushed) + 1] = [entry |-> entry, raw |-> raw]
      BY <2>1, <2>2
    <2>4. \A i \in DOMAIN pushed : Fits(pushed[i].entry.message, pushed[i].raw)
      BY DEF RawKept, Fits
    <2>5. \A i \in DOMAIN pushed' : Fits(pushed'[i].entry.message, pushed'[i].raw)
      <3> SUFFICES ASSUME NEW i \in DOMAIN pushed'
                   PROVE  Fits(pushed'[i].entry.message, pushed'[i].raw)
        OBVIOUS
      <3>1. Len(pushed) \in Nat
        BY <2>1
      <3>2. CASE i \in DOMAIN pushed
        BY <2>3, <2>4, <3>2
      <3>3. CASE i = Len(pushed) + 1
        BY <1>3, <2>3, <3>3
      <3> QED
        BY <2>3, <3>1, <3>2, <3>3
    <2> QED
      BY <2>5 DEF RawKept, Fits
  <1> QED
    BY <1>1, <1>2, <1>3 DEF LogStep, set_max_entries, logVars

\* find(' '): no space, or the first one.
LEMMA FirstSpaceFacts ==
    ASSUME NEW line \in Seq(Tokens)
    PROVE  \/ FirstSpace(line) = 0
           \/ /\ FirstSpace(line) \in 1..Len(line) /\ line[FirstSpace(line)] = Space
              /\ \A i \in 1..Len(line) : line[i] = Space => FirstSpace(line) <= i
  <1> DEFINE I == {i \in 1..Len(line) : line[i] = Space}
  <1>1. FirstSpace(line) = IF I # {} THEN Min(I) ELSE 0
    BY DEF FirstSpace, SelectInSeq
  <1>2. I \subseteq Nat
    OBVIOUS
  <1>3. I # {} => Min(I) \in I /\ \A i \in I : Min(I) <= i
    BY <1>2, Smallest
  <1> QED
    BY <1>1, <1>3

LEMMA TagIsNoSpace ==
    ASSUME NEW line \in Seq(Tokens), Tagged(line)
    PROVE  Len(line) \in Nat \ {0} /\ line[1] # Space
  <1>1. line # <<>> /\ line[1] \in DOMAIN Tags
    BY DEF Tagged
  <1>2. Len(line) \in Nat \ {0}
    BY <1>1
  <1>3. DOMAIN Tags = {"ERROR", "WARN", "DEBUG"}
    BY DEF Tags
  <1>4. Space \notin {"ERROR", "WARN", "DEBUG"}
    BY DEF Space
  <1> QED
    BY <1>1, <1>2, <1>3, <1>4, Zenon

LEMMA SpaceIsToken == Space \in Tokens
  BY DEF Tokens

\* What push_raw makes of a line is the line without its tag, or as much of it as
\* RawKept says.
LEMMA MessageFits ==
    ASSUME NEW line \in Seq(Tokens)
    PROVE  MessageOf(line) \in Seq(Tokens) /\ Fits(MessageOf(line), line)
  <1> DEFINE k == FirstSpace(line)
             n == Len(line)
             rest == SubSeq(line, k + 1, n)
  <1>1. CASE ~Tagged(line)
    BY <1>1 DEF MessageOf, Fits
  <1>2. CASE Tagged(line) /\ k = 0
    <2>1. MessageOf(line) = line
      BY <1>2 DEF MessageOf
    <2> QED
      BY <1>2, <2>1 DEF Fits
  <1>3. CASE Tagged(line) /\ k # 0
    <2>1. /\ n \in Nat \ {0} /\ k \in 1..n /\ line[k] = Space /\ k # 1
          /\ \A i \in 1..n : line[i] = Space => k <= i
      BY <1>3, FirstSpaceFacts, TagIsNoSpace
    <2>2. MessageOf(line) = rest
      BY <1>3 DEF MessageOf
    <2> HIDE DEF k, n
    <2>3. /\ rest \in Seq(Tokens) /\ Len(rest) = n - k
          /\ \A i \in 1..(n - k) : rest[i] = line[k + i]
      <3>1. k + 1 \in Int /\ n \in Int /\ \A i \in (k + 1)..n : line[i] \in Tokens
        BY <2>1 DEF n
      <3>2. /\ SubSeq(line, k + 1, n) \in Seq(Tokens)
            /\ Len(SubSeq(line, k + 1, n)) = IF k + 1 <= n THEN n - (k + 1) + 1 ELSE 0
            /\ \A i \in 1..(n - (k + 1) + 1) :
                  SubSeq(line, k + 1, n)[i] = line[(k + 1) + i - 1]
        BY <3>1, SeqT!SubSeqProperties
      <3>3. n - (k + 1) + 1 = n - k /\ (IF k + 1 <= n THEN n - k ELSE 0) = n - k
        BY <2>1
      <3>4. \A i \in 1..(n - k) : (k + 1) + i - 1 = k + i
        BY <2>1
      <3> QED
        BY <3>2, <3>3, <3>4
    <2> HIDE DEF rest
    <2>4. /\ <<Space>> \o rest \in Seq(Tokens) /\ Len(<<Space>> \o rest) = n - k + 1
          /\ \A i \in 1..(n - k + 1) : (<<Space>> \o rest)[i] = line[k + i - 1]
      <3>1. /\ <<Space>> \in Seq(Tokens) /\ Len(<<Space>>) = 1
            /\ \A i \in 1..1 : <<Space>>[i] = Space
        BY SpaceIsToken
      <3>2. /\ <<Space>> \o rest \in Seq(Tokens) /\ Len(<<Space>> \o rest) = 1 + (n - k)
            /\ \A i \in 1..(1 + (n - k)) : (<<Space>> \o rest)[i] =
                  IF i <= 1 THEN <<Space>>[i] ELSE rest[i - 1]
        <4> DEFINE head == <<Space>>
        <4>1. head \in Seq(Tokens) /\ Len(head) = 1
          BY <3>1
        <4> HIDE DEF head
        <4>2. /\ head \o rest \in Seq(Tokens) /\ Len(head \o rest) = Len(head) + Len(rest)
              /\ \A i \in 1..(Len(head) + Len(rest)) : (head \o rest)[i] =
                    IF i <= Len(head) THEN head[i] ELSE rest[i - Len(head)]
          BY <2>3, <4>1, SeqT!ConcatProperties, Zenon
        <4>3. /\ head \o rest \in Seq(Tokens) /\ Len(head \o rest) = 1 + (n - k)
              /\ \A i \in 1..(1 + (n - k)) : (head \o rest)[i] =
                    IF i <= 1 THEN head[i] ELSE rest[i - 1]
          BY <2>3, <4>1, <4>2
        <4> QED
          BY <4>3 DEF head
      <3> QED
        BY <2>1, <2>3, <3>1, <3>2
    <2>5. CASE k = 2
      <3> DEFINE whole == SubSeq(line, 1, 1) \o (<<Space>> \o rest)
      <3>1. /\ SubSeq(line, 1, 1) \in Seq(Tokens) /\ Len(SubSeq(line, 1, 1)) = 1
            /\ SubSeq(line, 1, 1)[1] = line[1]
        BY <2>1 DEF n
      <3>2. whole \in Seq(Tokens) /\ Len(whole) = n
        BY <2>1, <2>4, <2>5, <3>1
      <3>3. \A i \in 1..n : whole[i] = line[i]
        <4>1. \A i \in 1..n : whole[i] = IF i <= 1 THEN SubSeq(line, 1, 1)[i]
                                                 ELSE (<<Space>> \o rest)[i - 1]
          BY <2>1, <2>4, <2>5, <3>1
        <4> QED
          BY <2>1, <2>4, <2>5, <3>1, <4>1
      <3>4. whole = line
        BY <3>2, <3>3 DEF n
      <3>5. SubSeq(line, 1, 1) \o <<Space>> \o rest = whole
        BY <2>3, <3>1
      <3> QED
        BY <1>3, <2>2, <2>3, <3>4, <3>5 DEF Fits
    <2>6. CASE k # 2
      <3>1. line[2] # Space
        BY <2>1, <2>6
      <3>2. IsSuffix(<<Space>> \o rest, line)
        <4>1. /\ n - k + 1 <= n
              /\ \A i \in 1..(n - k + 1) :
                    (<<Space>> \o rest)[i] = line[n - (n - k + 1) + i]
          BY <2>1, <2>4
        <4> QED
          BY <2>4, <4>1, SuffixByElement DEF n
      <3> QED
        BY <1>3, <2>2, <2>3, <3>1, <3>2 DEF Fits
    <2> QED
      BY <2>5, <2>6
  <1> QED
    BY <1>1, <1>2, <1>3

LEMMA LogStepTypes ==
    ASSUME LogTypes, LogStep
    PROVE  LogTypes'
  <1>1. CASE UNCHANGED logVars
    BY <1>1 DEF LogTypes, logVars
  <1>2. CASE clear
    BY <1>2, LargestFacts DEF LogTypes, clear
  <1>3. CASE \E c \in Capacities : set_max_entries(c)
    BY <1>3 DEF LogTypes, set_max_entries
  <1>4. ASSUME NEW entry \in Entries, NEW raw \in Seq(Tokens), Store(entry, raw)
        PROVE  LogTypes'
    <2>1. [entry |-> entry, raw |-> raw] \in Pushes
      BY DEF Pushes
    <2>2. pushed' \in Seq(Pushes)
      BY <1>4, <2>1 DEF LogTypes, Store
    <2>3. Append(entries, entry) \in Seq(Entries) /\ max_entries \in Nat
      BY LargestFacts DEF LogTypes
    <2>4. entries' \in Seq(Entries)
      BY <1>4, <2>3, TrimmedFacts DEF Store
    <2>5. max_entries' \in Capacities /\ low' \in Capacities /\ last' \in Capacities
      BY <1>4 DEF LogTypes, Store
    <2> QED
      BY <2>2, <2>4, <2>5 DEF LogTypes
  <1> QED
    BY <1>1, <1>2, <1>3, <1>4 DEF LogStep

\* What the daemon itself logs has no tag.
LEMMA PushIsLogStep ==
    ASSUME NEW source \in {"scheduler", "supervisor"},
           NEW level \in {"info", "error"} \cup EventTypes,
           NEW word \in {"running", "PASSED", "FAILED", "pid"},
           push(source, level, <<word>>)
    PROVE  LogStep
  <1>1. word \in Words /\ word \notin DOMAIN Tags
    BY TelemetryAssumption DEF Tags
  <1>2. <<word>> \in Seq(Tokens) /\ <<word>>[1] = word
    BY <1>1 DEF Tokens
  <1>3. Entry(source, level, <<word>>) \in Entries
        /\ Entry(source, level, <<word>>).message = <<word>>
    BY <1>2 DEF Entry, Entries
  <1>4. Fits(<<word>>, <<word>>)
    BY <1>1, <1>2 DEF Fits, Tagged
  <1> QED
    BY <1>2, <1>3, <1>4 DEF push, LogStep

LEMMA PushRawIsLogStep ==
    ASSUME NEW line \in Lines, push_raw("sandbox", line)
    PROVE  LogStep
  <1>1. line \in Seq(Tokens)
    BY TelemetryAssumption
  <1>2. LevelOf(line) \in {"info", "error", "warn", "debug"}
    BY DEF LevelOf, Tagged, Tags
  <1>3. MessageOf(line) \in Seq(Tokens) /\ Fits(MessageOf(line), line)
    BY <1>1, MessageFits
  <1>4. /\ Entry("sandbox", LevelOf(line), MessageOf(line)) \in Entries
        /\ Entry("sandbox", LevelOf(line), MessageOf(line)).message = MessageOf(line)
    BY <1>2, <1>3 DEF Entry, Entries
  <1> QED
    BY <1>1, <1>3, <1>4 DEF push_raw, LogStep

LEMMA NextIsLogStep == [Next]_vars => LogStep
  <1>1. ASSUME GivenArg \/ Parse \/ StartServer \/ Connect \/ Shutdown \/ JobCounted
               \/ Completed \/ Duration \/ GaugeCompleted \/ GaugeFailed
               \/ (\E t \in Threads : EventCounted(t)) \/ UNCHANGED vars
        PROVE  LogStep
    <2>1. UNCHANGED logVars
      BY <1>1 DEF GivenArg, Parse, StartServer, Connect, Shutdown, JobCounted, Completed,
                  Duration, GaugeCompleted, GaugeFailed, EventCounted, vars
    <2> QED
      BY <2>1 DEF LogStep
  <1>2. CASE Leave
    BY <1>2 DEF Leave, LogStep
  <1>3. CASE LogUser
    BY <1>3 DEF LogUser, LogStep
  <1>4. CASE JobLogged
    BY <1>4, PushIsLogStep DEF JobLogged, Log
  <1>5. CASE Output
    BY <1>5, PushRawIsLogStep DEF Output
  <1>6. CASE Verdict
    BY <1>6, PushIsLogStep DEF Verdict, Log
  <1>7. CASE \E t \in Threads : EventLogged(t)
    BY <1>7, PushIsLogStep DEF EventLogged
  <1> QED
    BY <1>1, <1>2, <1>3, <1>4, <1>5, <1>6, <1>7 DEF Next

-----------------------------------------------------------------------------
(* main(), its counters and its listening socket.                          *)

Places == {"args", "server", "connect", "poll", "leave", "ended", "counting",
           "output", "duration", "verdict", "gauge_completed", "gauge_failed"}

\* TypeOK and NoListenerLeft, for the socket.
SocketInv ==
    /\ server_fd \in BOOLEAN /\ sockets \in Nat /\ at \in Places
    /\ NoListenerLeft
    /\ at \in {"args", "server"} => ~server_fd

\* TypeOK, for the job in hand and the counters.
CountInv ==
    /\ job \in [lines : 0..MaxLines, code : Codes \cup {0}]
    /\ tally \in [completed : 0..MaxJobs, failed : 0..MaxJobs]
    /\ at \in {"counting", "output", "duration", "verdict"} => Jobs < MaxJobs

\* TypeOK, for the events.
EventInv ==
    /\ event \in [Threads -> EventTypes \cup {None}]
    /\ logged \in [EventTypes -> Nat]

LEMMA TelemetryParts ==
    TelemetryInv <=> LogTypes /\ SocketInv /\ CountInv /\ EventInv
  BY DEF TelemetryInv, TypeOK, Underway, LogTypes, SocketInv, CountInv, EventInv, Places,
         Pushes

LEMMA TelemetryPartsNext ==
    TelemetryInv' <=> LogTypes' /\ SocketInv' /\ CountInv' /\ EventInv'
  BY DEF TelemetryInv, TypeOK, Underway, LogTypes, SocketInv, CountInv, EventInv, Places,
         Pushes

\* A step that neither opens nor closes the socket.
LEMMA SocketKept ==
    ASSUME SocketInv, UNCHANGED serverVars, at' \in Places,
           at' \in {"args", "server", "ended"} => at = at' \/ at = "args"
    PROVE  SocketInv'
  BY DEF SocketInv, NoListenerLeft, serverVars, Places

\* A step that opens or closes the socket.
LEMMA SocketSet ==
    ASSUME at' \in {"connect", "leave", "ended"},
           \/ server_fd' = FALSE /\ sockets' = 0
           \/ server_fd' = TRUE /\ sockets' = 1 /\ at' # "ended"
    PROVE  SocketInv'
  <1>1. CASE server_fd' = FALSE /\ sockets' = 0
    <2>1. server_fd' \in BOOLEAN /\ sockets' = IF server_fd' THEN 1 ELSE 0
      BY <1>1, Zenon
    <2>2. sockets' \in Nat /\ at' \in Places /\ at' \notin {"args", "server"}
      BY <1>1 DEF Places
    <2> QED
      BY <1>1, <2>1, <2>2 DEF SocketInv, NoListenerLeft
  <1>2. CASE server_fd' = TRUE /\ sockets' = 1 /\ at' # "ended"
    <2>1. server_fd' \in BOOLEAN /\ sockets' = IF server_fd' THEN 1 ELSE 0
      BY <1>2, Zenon
    <2>2. sockets' \in Nat /\ at' \in Places /\ at' \notin {"args", "server", "ended"}
      BY <1>2 DEF Places
    <2> QED
      BY <1>2, <2>1, <2>2 DEF SocketInv, NoListenerLeft
  <1> QED
    BY <1>1, <1>2

LEMMA SocketNext == SocketInv /\ [Next]_vars => SocketInv'
  <1> SUFFICES ASSUME SocketInv, [Next]_vars
               PROVE  SocketInv'
    OBVIOUS
  <1>1. CASE Shutdown \/ Leave
    <2>1. /\ server_fd' = FALSE /\ at' \in {"leave", "ended"}
          /\ sockets' = IF server_fd THEN sockets - 1 ELSE sockets
      BY <1>1 DEF Shutdown, Leave, Go, stop
    <2>2. sockets' = 0
      <3>1. CASE server_fd = TRUE
        BY <2>1, <3>1 DEF SocketInv, NoListenerLeft
      <3>2. CASE server_fd = FALSE
        BY <2>1, <3>2 DEF SocketInv, NoListenerLeft
      <3> QED
        BY <3>1, <3>2 DEF SocketInv
    <2> QED
      BY <2>1, <2>2, SocketSet
  <1>2. CASE StartServer
    <2>1. at = "server" /\ at' = "connect" /\ start
      BY <1>2 DEF StartServer, Go
    <2>2. server_fd = FALSE /\ sockets = 0
      BY <2>1 DEF SocketInv, NoListenerLeft
    <2>3. (server_fd' = FALSE /\ sockets' = 0) \/ (server_fd' = TRUE /\ sockets' = 1)
      <3>1. CASE server_fd' = FALSE /\ UNCHANGED sockets
        BY <2>2, <3>1
      <3>2. CASE server_fd' = TRUE /\ sockets' = SocketsAfter(TRUE)
        BY <2>2, <3>2 DEF SocketsAfter
      <3>3. CASE server_fd' = FALSE /\ sockets' = SocketsAfter(FALSE)
        BY <2>2, <3>3 DEF SocketsAfter
      <3>4. \/ server_fd' = FALSE /\ UNCHANGED sockets
            \/ \E ok \in BOOLEAN : server_fd' = ok /\ sockets' = SocketsAfter(ok)
        BY <2>1 DEF start
      <3> QED
        BY <3>1, <3>2, <3>3, <3>4, Zenon
    <2> QED
      BY <2>1, <2>3, SocketSet
  <1>3. CASE GivenArg \/ Parse \/ Connect \/ UNCHANGED vars
    BY <1>3, SocketKept
       DEF GivenArg, Parse, Connect, Go, vars, mainVars, SocketInv, Places
  <1>4. CASE JobLogged \/ JobCounted \/ Output \/ Completed \/ Duration \/ Verdict
             \/ GaugeCompleted \/ GaugeFailed
    BY <1>4, SocketKept
       DEF JobLogged, JobCounted, Output, Completed, Duration, Verdict, GaugeCompleted,
           GaugeFailed, Log, Go, SocketInv, Places
  <1>5. CASE (\E t \in Threads : EventLogged(t) \/ EventCounted(t)) \/ LogUser
    BY <1>5, SocketKept DEF EventLogged, EventCounted, LogUser, mainVars, SocketInv
  <1> QED
    BY <1>1, <1>2, <1>3, <1>4, <1>5 DEF Next

LEMMA CountNext == CountInv /\ [Next]_vars => CountInv'
  <1> SUFFICES ASSUME CountInv, [Next]_vars
               PROVE  CountInv'
    OBVIOUS
  <1>0. MaxLines \in Nat /\ MaxJobs \in Nat
    BY TelemetryAssumption
  <1>1. CASE Verdict
    <2>1. at = "verdict" /\ at' = "gauge_completed" /\ job' = job /\ tally' = Tallied
      BY <1>1 DEF Verdict, Log, Go
    <2>2. /\ tally.completed \in 0..MaxJobs /\ tally.failed \in 0..MaxJobs
          /\ tally.completed + tally.failed < MaxJobs
      BY <2>1 DEF CountInv, Jobs
    <2>3. /\ tally.completed + 1 \in 0..MaxJobs /\ tally.failed + 1 \in 0..MaxJobs
      BY <1>0, <2>2
    <2>4. tally' \in [completed : 0..MaxJobs, failed : 0..MaxJobs]
      BY <2>1, <2>3 DEF CountInv, Tallied
    <2> QED
      BY <2>1, <2>4 DEF CountInv
  <1>2. CASE Output
    <2>1. job' = [job EXCEPT !.lines = @ + 1] /\ job.lines < MaxLines /\ UNCHANGED <<at, tally>>
      BY <1>2 DEF Output
    <2>2. job.lines \in 0..MaxLines
      BY DEF CountInv
    <2>3. job' \in [lines : 0..MaxLines, code : Codes \cup {0}]
      <3>1. job.lines + 1 \in 0..MaxLines
        BY <1>0, <2>1, <2>2
      <3> QED
        BY <2>1, <3>1 DEF CountInv
    <2> QED
      BY <2>1, <2>3 DEF CountInv, Jobs
  <1>3. CASE Completed \/ GaugeFailed
    <2>1. /\ UNCHANGED tally /\ at' \in {"duration", "poll"}
          /\ at' = "duration" => at = "output"
      BY <1>3 DEF Completed, GaugeFailed, Go
    <2>2. job' \in [lines : 0..MaxLines, code : Codes \cup {0}]
      <3>1. \E c \in Codes \cup {0} : job' = [lines |-> 0, code |-> c]
        BY <1>3 DEF Completed, GaugeFailed
      <3>2. 0 \in 0..MaxLines
        BY <1>0
      <3> QED
        BY <3>1, <3>2
    <2> QED
      BY <2>1, <2>2 DEF CountInv, Jobs
  <1>4. CASE JobLogged \/ JobCounted \/ Duration \/ GaugeCompleted
    BY <1>4 DEF JobLogged, JobCounted, Duration, GaugeCompleted, Log, Go, CountInv, Jobs
  <1>5. CASE GivenArg \/ Parse \/ StartServer \/ Connect \/ Shutdown \/ Leave
    <2>1. UNCHANGED <<job, tally>>
          /\ (at' = at \/ at' \in {"server", "ended", "connect", "poll", "leave"})
      BY <1>5 DEF GivenArg, Parse, StartServer, Connect, Shutdown, Leave, Go
    <2> QED
      BY <2>1 DEF CountInv, Jobs
  <1>6. CASE (\E t \in Threads : EventLogged(t) \/ EventCounted(t)) \/ LogUser \/ UNCHANGED vars
    <2>1. UNCHANGED <<at, job, tally>>
      BY <1>6 DEF EventLogged, EventCounted, LogUser, mainVars, vars
    <2> QED
      BY <2>1 DEF CountInv, Jobs
  <1> QED
    BY <1>1, <1>2, <1>3, <1>4, <1>5, <1>6 DEF Next

LEMMA EventNext == EventInv /\ [Next]_vars => EventInv'
  <1> SUFFICES ASSUME EventInv, [Next]_vars
               PROVE  EventInv'
    OBVIOUS
  <1>1. CASE Leave
    BY <1>1 DEF Leave, EventInv
  <1>2. CASE \E t \in Threads : EventLogged(t) \/ EventCounted(t)
    BY <1>2 DEF EventLogged, EventCounted, EventInv
  <1>3. CASE GivenArg \/ Parse \/ StartServer \/ Connect \/ Shutdown \/ JobLogged \/ JobCounted
             \/ Output \/ Completed \/ Duration \/ Verdict \/ GaugeCompleted \/ GaugeFailed
             \/ LogUser \/ UNCHANGED vars
    <2>1. UNCHANGED eventVars
      BY <1>3 DEF GivenArg, Parse, StartServer, Connect, Shutdown, JobLogged, JobCounted,
                  Output, Completed, Duration, Verdict, GaugeCompleted, GaugeFailed, Log,
                  LogUser, vars
    <2> QED
      BY <2>1 DEF EventInv, eventVars
  <1> QED
    BY <1>1, <1>2, <1>3 DEF Next

LEMMA TelemetryInit == Init => TelemetryInv /\ Retained /\ RawKept
  <1> SUFFICES ASSUME Init
               PROVE  TelemetryInv /\ Retained /\ RawKept
    OBVIOUS
  <1>1. LogTypes
    BY LargestFacts DEF Init, LogInit, LogTypes
  <1>2. SocketInv
    BY DEF Init, MetricsInit, SocketInv, NoListenerLeft, Places
  <1>3. CountInv
    <2>1. MaxLines \in Nat /\ MaxJobs \in Nat
      BY TelemetryAssumption
    <2>2. 0 \in 0..MaxLines /\ 0 \in 0..MaxJobs
      BY <2>1
    <2> QED
      BY <2>2 DEF Init, CountInv
  <1>4. EventInv
    BY DEF Init, EventInv
  <1>5. Retained
    <2>1. entries = <<>> /\ pushed = <<>> /\ low \in Nat /\ last \in Nat
      BY LargestFacts DEF Init, LogInit
    <2>2. [i \in DOMAIN pushed |-> pushed[i].entry] = <<>>
      BY <2>1
    <2>3. /\ Len(entries) <= last
          /\ Len(entries) >= IF Len(pushed) < low THEN Len(pushed) ELSE low
      BY <2>1
    <2> QED
      BY <2>1, <2>2, <2>3, EmptySuffix DEF Retained
  <1>6. RawKept
    <2>1. DOMAIN pushed = {}
      BY DEF Init, LogInit
    <2> QED
      BY <2>1 DEF RawKept
  <1> QED
    BY <1>1, <1>2, <1>3, <1>4, <1>5, <1>6, TelemetryParts

LEMMA TelemetryNext == TelemetryInv /\ [Next]_vars => TelemetryInv'
  <1> SUFFICES ASSUME LogTypes, SocketInv, CountInv, EventInv, [Next]_vars
               PROVE  LogTypes' /\ SocketInv' /\ CountInv' /\ EventInv'
    BY TelemetryParts, TelemetryPartsNext
  <1> QED
    BY NextIsLogStep, LogStepTypes, SocketNext, CountNext, EventNext

\* Types, and the listening socket is the one in server_fd_ and closed when main()
\* returns, on whatever path (metrics.cpp:103-143, main.cpp:114-291).
THEOREM TelemetryInvariant == Spec => []TelemetryInv
  BY TelemetryInit, TelemetryNext, PTL DEF Spec

\* From push to retention no line is lost but the oldest, and no word but the tag's
\* and one glued to it, whatever limits are set, whenever the log is cleared, and
\* however many threads push (log_aggregator.cpp:15-40, 93-106).
THEOREM LogAlwaysKept == Spec => []LogKept
  <1>1. Init => TelemetryInv /\ Retained /\ RawKept
    BY TelemetryInit
  <1>2. TelemetryInv /\ Retained /\ RawKept /\ [Next]_vars
           => TelemetryInv' /\ Retained' /\ RawKept'
    BY NextIsLogStep, LogStepRetained, LogStepRawKept, TelemetryParts, TelemetryNext
  <1>3. Retained /\ RawKept => LogKept
    BY DEF LogKept
  <1> QED
    BY <1>1, <1>2, <1>3, PTL DEF Spec

LEMMA RecentIsLast ==
    ASSUME LogTypes, NEW count \in Nat
    PROVE  LastOnes(get_recent(count), entries, count)
  <1> DEFINE n == Len(entries)
             k == IF n > count THEN n - count ELSE 0
             recent == SubSeq(entries, k + 1, n)
  <1>1. entries \in Seq(Entries) /\ n \in Nat
    BY DEF LogTypes
  <1>2. k \in 0..n /\ n - k = IF count < n THEN count ELSE n
    BY <1>1
  <1>3. \A i \in 1..n : entries[i] \in Entries
    BY <1>1
  <1>4. get_recent(count) = recent
    BY DEF get_recent
  <1> HIDE DEF k, n
  <1>5. /\ recent \in Seq(Entries)
        /\ Len(recent) = IF k + 1 <= n THEN n - (k + 1) + 1 ELSE 0
        /\ \A i \in 1..(n - (k + 1) + 1) : recent[i] = entries[(k + 1) + i - 1]
    <2>1. k + 1 \in Int /\ n \in Int /\ \A i \in (k + 1)..n : entries[i] \in Entries
      BY <1>1, <1>2, <1>3
    <2> QED
      BY <2>1, SeqT!SubSeqProperties
  <1> HIDE DEF recent
  <1>6. Len(recent) = n - k
    BY <1>1, <1>2, <1>5
  <1>7. \A i \in 1..(n - k) : recent[i] = entries[n - (n - k) + i]
    <2>1. \A i \in 1..(n - k) : recent[i] = entries[(k + 1) + i - 1]
      BY <1>1, <1>2, <1>5
    <2>2. \A i \in 1..(n - k) : (k + 1) + i - 1 = n - (n - k) + i
      BY <1>1, <1>2
    <2> QED
      BY <2>1, <2>2
  <1>8. Len(recent) <= n /\ \A i \in 1..Len(recent) : recent[i] = entries[n - Len(recent) + i]
    BY <1>1, <1>2, <1>6, <1>7
  <1>9. IsSuffix(recent, entries)
    BY <1>1, <1>5, <1>8, SuffixByElement DEF n
  <1> QED
    BY <1>2, <1>4, <1>6, <1>9 DEF LastOnes, n

\* get_recent returns the newest entries in their order, exactly as many as were
\* asked for or as there are (log_aggregator.cpp:71-79).
THEOREM RecentAlwaysLast ==
    Spec => [](\A count \in Nat : LastOnes(get_recent(count), entries, count))
  <1>1. TelemetryInv => \A count \in Nat : LastOnes(get_recent(count), entries, count)
    BY TelemetryParts, RecentIsLast
  <1> QED
    BY <1>1, TelemetryInvariant, PTL

-----------------------------------------------------------------------------
(* The command line.                                                       *)

\* The numbers and flags an option may be made of.
LEMMA ArgFacts ==
    ASSUME NEW a \in Args
    PROVE  /\ a.flag \in DOMAIN Defaults \cup {"H", "?"}
           /\ a.flag \in {"p", "m", "r"} => a.arg \in Nat \/ a.arg = -1
  BY TelemetryAssumption DEF Junk

LEMMA FlagFacts == "H" \notin DOMAIN Defaults /\ "?" \notin DOMAIN Defaults
  BY DEF Defaults

\* What OptionsMeant refuses.
Wrong(option) ==
    CASE option.flag = "?" -> TRUE
      [] option.flag \in {"p", "m"} -> option.arg \notin 0..(Port16 - 1)
      [] option.flag = "r" -> option.arg \notin 0..(Restarts32 - 1)
      [] OTHER -> FALSE

\* The bounds of the code are those of the types, although --port is read as 64
\* bits wide, and the cast changes no number that passed them.
LEMMA WrongIsRejected ==
    ASSUME NEW a \in Args
    PROVE  /\ Rejected(a) <=> Wrong(a)
           /\ ~Wrong(a) => Stored(a) = a.arg
  <1>1. {Port16, Restarts32, Num64} \subseteq Nat /\ 0 < Port16 /\ Port16 < Num64
    BY OptionsAssumption
  <1>2. CASE a.flag \in {"p", "m"}
    <2>1. a.arg \in Nat \/ a.arg = -1
      BY <1>2, ArgFacts
    <2>2. PortAccepted(a.arg) <=> a.arg \in 0..(Port16 - 1)
      BY <1>1, <2>1 DEF PortAccepted, parse_num, Junk
    <2>3. (Rejected(a) <=> ~PortAccepted(a.arg)) /\ (Wrong(a) <=> a.arg \notin 0..(Port16 - 1))
      BY <1>2 DEF Rejected, Wrong
    <2>4. a.arg \in 0..(Port16 - 1) => a.arg % Port16 = a.arg
      BY <1>1
    <2> QED
      BY <1>2, <2>2, <2>3, <2>4 DEF Stored
  <1>3. CASE a.flag = "r"
    <2>1. a.arg \in Nat \/ a.arg = -1
      BY <1>3, ArgFacts
    <2>2. parse_num(a.arg, Restarts32) <=> a.arg \in 0..(Restarts32 - 1)
      BY <1>1, <2>1 DEF parse_num, Junk
    <2>3. (Rejected(a) <=> ~parse_num(a.arg, Restarts32))
          /\ (Wrong(a) <=> a.arg \notin 0..(Restarts32 - 1))
      BY <1>3 DEF Rejected, Wrong
    <2> QED
      BY <1>3, <2>2, <2>3 DEF Stored
  <1>4. CASE a.flag \notin {"p", "m", "r"}
    BY <1>4 DEF Rejected, Wrong, Stored
  <1> QED
    BY <1>2, <1>3, <1>4

\* An option that ends the parsing.
Final(option) == option.flag = "H" \/ Wrong(option)

FieldValues == {Defaults[f] : f \in DOMAIN Defaults} \cup {Stored(a) : a \in Args}

Results == [returned : {"no", "error", "help"}, o : [DOMAIN Defaults -> FieldValues]]

Unread == [returned |-> "no", o |-> Defaults]

LEMMA UnreadFacts == Unread \in Results /\ Unread.returned = "no" /\ Unread.o = Defaults
  <1>1. Defaults \in [DOMAIN Defaults -> FieldValues]
    <2>1. Defaults = [f \in DOMAIN Defaults |-> Defaults[f]]
      BY DEF Defaults
    <2>2. \A f \in DOMAIN Defaults : Defaults[f] \in FieldValues
      BY DEF FieldValues
    <2> HIDE DEF Defaults
    <2> QED
      BY <2>1, <2>2
  <1> QED
    BY <1>1 DEF Unread, Results

\* One turn of the loop.
LEMMA TakeFacts ==
    ASSUME NEW v \in Results, NEW a \in Args
    PROVE  /\ Take(v, a) \in Results
           /\ v.returned # "no" => Take(v, a) = v
           /\ v.returned = "no" /\ Final(a)
                 => Take(v, a).returned = IF Wrong(a) THEN "error" ELSE "help"
           /\ v.returned = "no" /\ ~Final(a)
                 => /\ a.flag \in DOMAIN Defaults
                    /\ Take(v, a).returned = "no"
                    /\ \A f \in DOMAIN Defaults :
                          Take(v, a).o[f] = IF f = a.flag THEN a.arg ELSE v.o[f]
  <1>1. /\ Rejected(a) <=> Wrong(a)
        /\ ~Wrong(a) => Stored(a) = a.arg
    BY WrongIsRejected
  <1>2. Stored(a) \in FieldValues
    BY DEF FieldValues
  <1>3. CASE v.returned # "no"
    BY <1>3 DEF Take
  <1>4. CASE v.returned = "no" /\ Wrong(a)
    <2>1. Take(v, a) = [v EXCEPT !.returned = "error"]
      BY <1>1, <1>4 DEF Take
    <2> QED
      BY <1>4, <2>1 DEF Results, Final
  <1>5. CASE v.returned = "no" /\ ~Wrong(a) /\ a.flag = "H"
    <2>1. Take(v, a) = [v EXCEPT !.returned = "help"]
      BY <1>1, <1>5 DEF Take
    <2> QED
      BY <1>5, <2>1 DEF Results, Final
  <1>6. CASE v.returned = "no" /\ ~Wrong(a) /\ a.flag # "H"
    <2>1. Take(v, a) = [v EXCEPT !.o[a.flag] = Stored(a)]
      BY <1>1, <1>6 DEF Take
    <2>2. a.flag \in DOMAIN Defaults
      <3>1. a.flag # "?"
        BY <1>6 DEF Wrong
      <3> QED
        BY <1>6, <3>1, ArgFacts
    <2>3. Take(v, a) \in Results
      BY <1>2, <2>1, <2>2 DEF Results
    <2>4. /\ Take(v, a).returned = "no"
          /\ \A f \in DOMAIN Defaults :
                Take(v, a).o[f] = IF f = a.flag THEN Stored(a) ELSE v.o[f]
      BY <1>6, <2>1, <2>2 DEF Results
    <2> QED
      BY <1>1, <1>6, <2>2, <2>3, <2>4 DEF Final
  <1> QED
    BY <1>3, <1>4, <1>5, <1>6

\* The turns of the loop in parse_args.
LEMMA ParseTurns ==
    ASSUME NEW options \in Seq(Args)
    PROVE  \E g \in [0..Len(options) -> Results] :
              /\ g[0] = Unread
              /\ \A k \in 1..Len(options) : g[k] = Take(g[k - 1], options[k])
              /\ parse_args(options) = g[Len(options)]
  <1> DEFINE n == Len(options)
             Turns(h) == h = [k \in 0..n |-> IF k = 0 THEN Unread ELSE Take(h[k - 1], options[k])]
             step == [p \in (1..n) \X Results |-> Take(p[2], options[p[1]])]
             h == CHOOSE x : Turns(x)
  <1>0. n \in Nat /\ Unread \in Results /\ \A k \in 1..n : options[k] \in Args
    BY UnreadFacts
  <1>1. parse_args(options) = h[n]
    BY DEF parse_args, Unread
  <1>2. \A v \in Results, k \in 1..n : Take(v, options[k]) \in Results
    BY <1>0, TakeFacts
  <1>3. step \in [(1..n) \X Results -> Results]
    BY <1>2
  <1>4. \A k \in 1..n, v \in Results : step[<<k, v>>] = Take(v, options[k])
    OBVIOUS
  <1> HIDE DEF n, step
  <1>5. PICK g : Turned(g, n, Results, Unread, step)
    <2>1. Loop(n, Results, Unread, step)
      BY <1>0, <1>3 DEF Loop
    <2> QED
      BY <2>1, LoopExists, Zenon
  <1>6. \A k \in 1..n : k - 1 \in 0..n /\ k \in 0..n /\ k # 0
    BY <1>0
  <1>7. \A k \in 1..n : g[k] = Take(g[k - 1], options[k])
    BY <1>4, <1>5, <1>6 DEF Turned
  <1>8. Turns(g)
    <2>1. g = [k \in 0..n |-> g[k]]
      BY <1>5 DEF Turned
    <2>2. \A k \in 0..n : g[k] = IF k = 0 THEN Unread ELSE Take(g[k - 1], options[k])
      BY <1>0, <1>5, <1>7 DEF Turned
    <2> QED
      BY <2>1, <2>2
  <1>9. Turns(h)
    <2> HIDE DEF Turns
    <2> QED
      BY <1>8, Zenon
  <1>10. h[n] = g[n]
    <2> HIDE DEF h
    <2> DEFINE S == {k \in 0..n : h[k] = g[k]}
    <2>1. 0 \in S
      BY <1>0, <1>5, <1>9 DEF Turned
    <2>2. \A k \in 1..n : h[k] = Take(h[k - 1], options[k])
      BY <1>6, <1>9
    <2>3. \A k \in 1..n : k - 1 \in S => k \in S
      BY <1>6, <1>7, <2>2
    <2> HIDE DEF S
    <2>4. 0..n \subseteq S
      BY <1>0, <2>1, <2>3, ByInduction
    <2> QED
      BY <1>0, <2>4 DEF S
  <1> QED
    <2>1. /\ g \in [0..n -> Results] /\ g[0] = Unread
          /\ \A k \in 1..n : g[k] = Take(g[k - 1], options[k])
          /\ parse_args(options) = g[n]
      BY <1>1, <1>5, <1>7, <1>10 DEF Turned
    <2> QED
      BY <2>1 DEF n

\* The options that end the parsing, and those for a field, among the first k.
FinalUpto(options, k) == {i \in 1..k : Final(options[i])}

GivenUpto(options, k, f) == {i \in 1..k : options[i].flag = f}

\* What the loop has made of the first k options.
ReadUpto(options, k, v) ==
    /\ FinalUpto(options, k) = {} =>
          /\ v.returned = "no"
          /\ \A f \in DOMAIN Defaults :
                /\ GivenUpto(options, k, f) = {} => v.o[f] = Defaults[f]
                /\ \A i \in GivenUpto(options, k, f) :
                      (\A j \in GivenUpto(options, k, f) : j <= i) => v.o[f] = options[i].arg
    /\ \A i \in FinalUpto(options, k) :
          (\A j \in FinalUpto(options, k) : i <= j)
             => v.returned = IF Wrong(options[i]) THEN "error" ELSE "help"

LEMMA ReadNothing ==
    ASSUME NEW options
    PROVE  ReadUpto(options, 0, Unread)
  <1>1. FinalUpto(options, 0) = {} /\ \A f \in DOMAIN Defaults : GivenUpto(options, 0, f) = {}
    BY DEF FinalUpto, GivenUpto
  <1> QED
    BY <1>1, UnreadFacts DEF ReadUpto

LEMMA ReadMore ==
    ASSUME NEW options \in Seq(Args), NEW k \in 1..Len(options), NEW v \in Results,
           ReadUpto(options, k - 1, v)
    PROVE  ReadUpto(options, k, Take(v, options[k]))
  <1> DEFINE E == FinalUpto(options, k - 1)
             F == FinalUpto(options, k)
             G(f) == GivenUpto(options, k - 1, f)
             H(f) == GivenUpto(options, k, f)
             a == options[k]
             w == Take(v, a)
  <1>0. a \in Args /\ k \in Nat /\ k >= 1
    OBVIOUS
  <1>1. /\ F = E \cup (IF Final(a) THEN {k} ELSE {})
        /\ E \subseteq 1..(k - 1)
    BY <1>0 DEF FinalUpto
  <1>2. ASSUME NEW f
        PROVE  /\ H(f) = G(f) \cup (IF a.flag = f THEN {k} ELSE {})
               /\ G(f) \subseteq 1..(k - 1)
    BY <1>0 DEF GivenUpto
  <1>3. /\ v.returned # "no" => w = v
        /\ v.returned = "no" /\ Final(a) => w.returned = IF Wrong(a) THEN "error" ELSE "help"
        /\ v.returned = "no" /\ ~Final(a)
              => /\ a.flag \in DOMAIN Defaults
                 /\ w.returned = "no"
                 /\ \A f \in DOMAIN Defaults : w.o[f] = IF f = a.flag THEN a.arg ELSE v.o[f]
    BY <1>0, TakeFacts
  <1>4. /\ E = {} =>
             /\ v.returned = "no"
             /\ \A f \in DOMAIN Defaults :
                  /\ G(f) = {} => v.o[f] = Defaults[f]
                  /\ \A i \in G(f) : (\A j \in G(f) : j <= i) => v.o[f] = options[i].arg
        /\ \A i \in E : (\A j \in E : i <= j)
             => v.returned = IF Wrong(options[i]) THEN "error" ELSE "help"
    BY DEF ReadUpto
  <1> HIDE DEF E, F, G, H, w
  <1>5. CASE E # {}
    <2>1. E \subseteq Nat
      BY <1>0, <1>1
    <2>2. Min(E) \in E /\ \A j \in E : Min(E) <= j
      BY <1>5, <2>1, Smallest
    <2>3. v.returned # "no"
      BY <1>4, <2>2
    <2>4. w = v
      BY <1>3, <2>3
    <2>5. F # {}
      BY <1>1, <1>5
    <2>6. ASSUME NEW i \in F, \A j \in F : i <= j
          PROVE  w.returned = IF Wrong(options[i]) THEN "error" ELSE "help"
      <3>1. i \in E
        <4>1. Min(E) \in F /\ Min(E) \in 1..(k - 1)
          BY <1>1, <2>2
        <4>2. i <= Min(E) /\ (i \in E \/ i = k)
          BY <1>1, <2>6, <4>1
        <4> QED
          BY <1>0, <4>1, <4>2
      <3>2. \A j \in E : i <= j
        BY <1>1, <2>6
      <3> QED
        BY <1>4, <2>4, <3>1, <3>2
    <2> QED
      BY <2>5, <2>6 DEF ReadUpto, F, w
  <1>6. CASE E = {} /\ Final(a)
    <2>1. F = {k}
      BY <1>1, <1>6
    <2>2. w.returned = IF Wrong(a) THEN "error" ELSE "help"
      BY <1>3, <1>4, <1>6
    <2> QED
      BY <2>1, <2>2 DEF ReadUpto, F, w
  <1>7. CASE E = {} /\ ~Final(a)
    <2>1. F = {}
      BY <1>1, <1>7
    <2>2. /\ w.returned = "no"
          /\ \A f \in DOMAIN Defaults : w.o[f] = IF f = a.flag THEN a.arg ELSE v.o[f]
      BY <1>3, <1>4, <1>7
    <2>3. ASSUME NEW f \in DOMAIN Defaults
          PROVE  /\ H(f) = {} => w.o[f] = Defaults[f]
                 /\ \A i \in H(f) : (\A j \in H(f) : j <= i) => w.o[f] = options[i].arg
      <3>1. CASE f = a.flag
        <4>1. H(f) = G(f) \cup {k} /\ G(f) \subseteq 1..(k - 1)
          BY <1>2, <3>1
        <4>2. ASSUME NEW i \in H(f), \A j \in H(f) : j <= i
              PROVE  i = k
          <5>1. k <= i /\ (i = k \/ i \in 1..(k - 1))
            BY <4>1, <4>2
          <5> QED
            BY <1>0, <5>1
        <4> QED
          BY <2>2, <3>1, <4>1, <4>2
      <3>2. CASE f # a.flag
        <4>1. H(f) = G(f)
          BY <1>2, <3>2
        <4> QED
          BY <1>4, <1>7, <2>2, <3>2, <4>1
      <3> QED
        BY <3>1, <3>2
    <2> QED
      BY <2>1, <2>2, <2>3 DEF ReadUpto, F, H, w
  <1> QED
    BY <1>5, <1>6, <1>7

\* The loop reads the whole command line.
LEMMA ReadAll ==
    ASSUME NEW options \in Seq(Args)
    PROVE  /\ ReadUpto(options, Len(options), parse_args(options))
           /\ parse_args(options) \in Results
  <1> DEFINE n == Len(options)
  <1>0. n \in Nat
    OBVIOUS
  <1>1. PICK g \in [0..n -> Results] :
              /\ g[0] = Unread
              /\ \A k \in 1..n : g[k] = Take(g[k - 1], options[k])
              /\ parse_args(options) = g[n]
    BY ParseTurns
  <1> DEFINE S == {k \in 0..n : ReadUpto(options, k, g[k])}
  <1>2. 0 \in S
    BY <1>0, <1>1, ReadNothing
  <1>3. \A k \in 1..n : k - 1 \in S => k \in S
    <2> SUFFICES ASSUME NEW k \in 1..n, k - 1 \in S
                 PROVE  k \in S
      OBVIOUS
    <2>1. k \in 0..n /\ k - 1 \in 0..n /\ g[k - 1] \in Results
      BY <1>0, <1>1
    <2>2. ReadUpto(options, k - 1, g[k - 1])
      OBVIOUS
    <2>3. ReadUpto(options, k, Take(g[k - 1], options[k]))
      BY <2>1, <2>2, ReadMore
    <2> QED
      BY <1>1, <2>1, <2>3
  <1> HIDE DEF S
  <1>4. 0..n \subseteq S
    BY <1>0, <1>2, <1>3, ByInduction
  <1>5. n \in S
    BY <1>0, <1>4
  <1> QED
    BY <1>0, <1>1, <1>5 DEF S

\* parse_args against its reference, for any command line.
LEMMA ParseMeans ==
    ASSUME NEW options \in Seq(Args)
    PROVE  /\ parse_args(options).returned = OptionsMeant(options).returned
           /\ parse_args(options).returned = "no"
                 => parse_args(options).o = OptionsMeant(options).o
  <1> DEFINE n == Len(options)
             E == FinalUpto(options, n)
             G(f) == GivenUpto(options, n, f)
             v == parse_args(options)
             fields == [f \in DOMAIN Defaults |->
                           IF G(f) = {} THEN Defaults[f] ELSE options[Max(G(f))].arg]
  <1>0. n \in Nat /\ DOMAIN options = 1..n
    OBVIOUS
  <1>1. v \in Results /\ ReadUpto(options, n, v)
    BY ReadAll
  <1>2. OptionsMeant(options)
          = IF E = {} THEN [returned |-> "no", o |-> fields]
            ELSE [returned |-> IF Wrong(options[Min(E)]) THEN "error" ELSE "help"]
    BY <1>0, Zenon DEF OptionsMeant, Wrong, Final, FinalUpto, GivenUpto
  <1>3. CASE E = {}
    <2>1. OptionsMeant(options).returned = "no" /\ OptionsMeant(options).o = fields
      BY <1>2, <1>3
    <2>2. v.returned = "no"
      BY <1>1, <1>3 DEF ReadUpto
    <2>3. ASSUME NEW f \in DOMAIN Defaults
          PROVE  v.o[f] = fields[f]
      <3>1. CASE G(f) = {}
        BY <1>1, <1>3, <3>1 DEF ReadUpto
      <3>2. CASE G(f) # {}
        <4>1. G(f) \subseteq 0..n
          BY <1>0 DEF GivenUpto
        <4>2. Max(G(f)) \in G(f) /\ \A i \in G(f) : i <= Max(G(f))
          BY <1>0, <3>2, <4>1, Greatest
        <4>3. v.o[f] = options[Max(G(f))].arg
          BY <1>1, <1>3, <4>2 DEF ReadUpto
        <4> QED
          BY <3>2, <4>3
      <3> QED
        BY <3>1, <3>2
    <2>4. v.o = fields
      <3>1. v.o \in [DOMAIN Defaults -> FieldValues]
        BY <1>1 DEF Results
      <3>2. v.o = [f \in DOMAIN Defaults |-> v.o[f]]
        BY <3>1
      <3>3. fields = [f \in DOMAIN Defaults |-> fields[f]]
        OBVIOUS
      <3> HIDE DEF fields, v
      <3> QED
        BY <2>3, <3>2, <3>3, Zenon
    <2> QED
      BY <2>1, <2>2, <2>4
  <1>4. CASE E # {}
    <2>1. E \subseteq Nat
      BY <1>0 DEF FinalUpto
    <2>2. Min(E) \in E /\ \A j \in E : Min(E) <= j
      BY <1>4, <2>1, Smallest
    <2>3. v.returned = IF Wrong(options[Min(E)]) THEN "error" ELSE "help"
      BY <1>1, <2>2 DEF ReadUpto
    <2>4. OptionsMeant(options).returned = IF Wrong(options[Min(E)]) THEN "error" ELSE "help"
      BY <1>2, <1>4
    <2> QED
      BY <2>3, <2>4
  <1> QED
    BY <1>3, <1>4

\* Whatever the command line is, parse_args returns what its options mean: the
\* first wrong option or --help decides, every number is taken as it was typed or
\* refused at the bound of its type, and the last option for a field wins
\* (main.cpp:39-112).
THEOREM OptionsAlwaysMeant == Spec => []OptionsAsMeant
  <1> DEFINE ArgsInv == args \in Seq(Args)
  <1>1. Init => ArgsInv
    BY DEF Init
  <1>2. ArgsInv /\ [Next]_vars => ArgsInv'
    <2> SUFFICES ASSUME ArgsInv, [Next]_vars
                 PROVE  ArgsInv'
      OBVIOUS
    <2>1. \/ UNCHANGED args
          \/ args' = <<>>
          \/ \E a \in Args : args' = Append(args, a)
      <3>1. CASE GivenArg \/ Parse \/ StartServer \/ Connect \/ Shutdown \/ Leave
        BY <3>1 DEF GivenArg, Parse, StartServer, Connect, Shutdown, Leave
      <3>2. CASE JobLogged \/ JobCounted \/ Output \/ Completed \/ Duration \/ Verdict
                 \/ GaugeCompleted \/ GaugeFailed
        BY <3>2 DEF JobLogged, JobCounted, Output, Completed, Duration, Verdict,
                    GaugeCompleted, GaugeFailed, Log
      <3>3. CASE (\E t \in Threads : EventLogged(t) \/ EventCounted(t)) \/ LogUser
                 \/ UNCHANGED vars
        BY <3>3 DEF EventLogged, EventCounted, LogUser, mainVars, vars
      <3> QED
        BY <3>1, <3>2, <3>3 DEF Next
    <2>2. ASSUME NEW a \in Args, args' = Append(args, a)
          PROVE  ArgsInv'
      BY <2>2
    <2>3. <<>> \in Seq(Args)
      OBVIOUS
    <2> QED
      BY <2>1, <2>2, <2>3
  <1>3. ArgsInv => OptionsAsMeant
    BY ParseMeans DEF OptionsAsMeant
  <1> QED
    BY <1>1, <1>2, <1>3, PTL DEF Spec

-----------------------------------------------------------------------------
(* The queries of the log.                                                 *)

LEMMA PrependFacts ==
    ASSUME NEW S, NEW s \in Seq(S), NEW e \in S
    PROVE  /\ <<e>> \o s \in Seq(S)
           /\ Len(<<e>> \o s) = Len(s) + 1
           /\ (<<e>> \o s)[1] = e
           /\ \A k \in 1..Len(s) : (<<e>> \o s)[k + 1] = s[k]
  OBVIOUS

\* One turn of the loop in Found.
Gather(v, e, by, words, limit) ==
    IF Len(v) < limit /\ Matches(e, by, words) THEN <<e>> \o v ELSE v

\* The turns of the loop in Found.
GatherTurns(g, by, words, limit) ==
    LET n == Len(entries) IN
    /\ g \in [0..n -> Seq(Entries)]
    /\ g[0] = <<>>
    /\ \A k \in 1..n : g[k] = Gather(g[k - 1], entries[n - k + 1], by, words, limit)
    /\ Found(by, words, limit) = g[n]

LEMMA FoundTurns ==
    ASSUME entries \in Seq(Entries), NEW by, NEW words, NEW limit \in Nat
    PROVE  \E g : GatherTurns(g, by, words, limit)
  <1> DEFINE n == Len(entries)
             V == Seq(Entries)
             Put(k, v) == Gather(v, entries[n - k + 1], by, words, limit)
             none == <<>>
             Turns(h) == h = [k \in 0..n |-> IF k = 0 THEN none ELSE Put(k, h[k - 1])]
             step == [p \in (1..n) \X V |-> Put(p[1], p[2])]
             h == CHOOSE x : Turns(x)
  <1>0. n \in Nat /\ none \in V /\ \A k \in 1..n : entries[n - k + 1] \in Entries
    OBVIOUS
  <1>1. Found(by, words, limit) = h[n]
    BY DEF Found, Gather
  <1>2. \A v \in V, k \in 1..n : Put(k, v) \in V
    BY <1>0, PrependFacts DEF Gather
  <1> HIDE DEF n, Put, none, V
  <1>3. step \in [(1..n) \X V -> V]
    BY <1>2
  <1>4. \A k \in 1..n, v \in V : step[<<k, v>>] = Put(k, v)
    OBVIOUS
  <1> HIDE DEF step
  <1>5. PICK g : Turned(g, n, V, none, step)
    <2>1. Loop(n, V, none, step)
      BY <1>0, <1>3 DEF Loop
    <2> QED
      BY <2>1, LoopExists, Zenon
  <1>6. \A k \in 1..n : k - 1 \in 0..n /\ k \in 0..n /\ k # 0
    BY <1>0
  <1>7. \A k \in 1..n : g[k] = Put(k, g[k - 1])
    BY <1>4, <1>5, <1>6 DEF Turned
  <1>8. Turns(g)
    <2>1. g = [k \in 0..n |-> g[k]]
      BY <1>5 DEF Turned
    <2>2. \A k \in 0..n : g[k] = IF k = 0 THEN none ELSE Put(k, g[k - 1])
      BY <1>0, <1>5, <1>7 DEF Turned
    <2> QED
      BY <2>1, <2>2
  <1>9. Turns(h)
    <2> HIDE DEF Turns
    <2> QED
      BY <1>8, Zenon
  <1>10. h[n] = g[n]
    <2> HIDE DEF h
    <2> DEFINE S == {k \in 0..n : h[k] = g[k]}
    <2>1. 0 \in S
      BY <1>0, <1>5, <1>9 DEF Turned
    <2>2. \A k \in 1..n : h[k] = Put(k, h[k - 1])
      BY <1>6, <1>9
    <2>3. \A k \in 1..n : k - 1 \in S => k \in S
      BY <1>6, <1>7, <2>2
    <2> HIDE DEF S
    <2>4. 0..n \subseteq S
      BY <1>0, <2>1, <2>3, ByInduction
    <2> QED
      BY <1>0, <2>4 DEF S
  <1> QED
    <2>1. /\ g \in [0..n -> V] /\ g[0] = none
          /\ \A k \in 1..n : g[k] = Put(k, g[k - 1])
          /\ Found(by, words, limit) = g[n]
      BY <1>1, <1>5, <1>7, <1>10 DEF Turned
    <2>2. GatherTurns(g, by, words, limit)
      BY <2>1 DEF GatherTurns, n, V, none, Put
    <2> QED
      BY <2>2

\* An older match is put in front, if there is room.
LEMMA LastOfMore ==
    ASSUME entries \in Seq(Entries), NEW limit \in Nat, NEW r \in Seq(Entries),
           NEW places, places \subseteq 1..Len(entries), LastOf(r, places, limit),
           NEW p \in 1..Len(entries), \A i \in places : p < i
    PROVE  LastOf(IF Len(r) < limit THEN <<entries[p]>> \o r ELSE r, places \cup {p}, limit)
  <1>1. PICK f \in [DOMAIN r -> places] :
          /\ \A k \in DOMAIN r : r[k] = entries[f[k]]
          /\ \A j, k \in DOMAIN r : j < k => f[j] < f[k]
          /\ \A i \in places : \/ \E k \in DOMAIN r : f[k] = i
                               \/ Len(r) = limit /\ \A k \in DOMAIN r : i < f[k]
    BY DEF LastOf
  <1> DEFINE m == Len(r)
  <1>2. m \in Nat /\ m <= limit /\ DOMAIN r = 1..m
    BY DEF LastOf
  <1> HIDE DEF m
  <1>3. CASE ~(m < limit)
    <2>1. m = limit
      BY <1>2, <1>3
    <2>2. f \in [DOMAIN r -> places \cup {p}] /\ \A k \in DOMAIN r : p < f[k]
      BY <1>1
    <2>3. \A i \in places \cup {p} : \/ \E k \in DOMAIN r : f[k] = i
                                     \/ m = limit /\ \A k \in DOMAIN r : i < f[k]
      <3>1. ASSUME NEW i \in places
            PROVE  \/ \E k \in DOMAIN r : f[k] = i
                   \/ m = limit /\ \A k \in DOMAIN r : i < f[k]
        BY <1>1 DEF m
      <3>2. m = limit /\ \A k \in DOMAIN r : p < f[k]
        BY <2>1, <2>2
      <3> QED
        BY <3>1, <3>2, Zenon
    <2>4. LastOf(r, places \cup {p}, limit)
      BY <1>1, <1>2, <2>2, <2>3 DEF LastOf, m
    <2> QED
      BY <1>3, <2>4 DEF m
  <1>4. CASE m < limit
    <2> DEFINE s == <<entries[p]>> \o r
               h == [k \in 1..(m + 1) |-> IF k = 1 THEN p ELSE f[k - 1]]
    <2>1. entries[p] \in Entries
      OBVIOUS
    <2>2. /\ s \in Seq(Entries) /\ Len(s) = m + 1 /\ DOMAIN s = 1..(m + 1)
          /\ s[1] = entries[p] /\ \A k \in 1..m : s[k + 1] = r[k]
      <3>1. /\ s \in Seq(Entries) /\ Len(s) = m + 1
            /\ s[1] = entries[p] /\ \A k \in 1..m : s[k + 1] = r[k]
        BY <2>1, PrependFacts DEF m
      <3> HIDE DEF s
      <3> QED
        BY <3>1
    <2>3. \A k \in 1..(m + 1) : k = 1 \/ (k - 1 \in 1..m /\ k # 1 /\ (k - 1) + 1 = k)
      BY <1>2
    <2>4. /\ h[1] = p /\ \A k \in 1..m : h[k + 1] = f[k]
      <3>1. 1 \in 1..(m + 1) /\ \A k \in 1..m : k + 1 \in 1..(m + 1) /\ k + 1 # 1 /\ (k + 1) - 1 = k
        BY <1>2
      <3> QED
        BY <3>1
    <2>5. h \in [1..(m + 1) -> places \cup {p}]
      BY <1>1, <1>2, <2>3
    <2> HIDE DEF s, h
    <2>6. \A k \in 1..(m + 1) : s[k] = entries[h[k]]
      <3> SUFFICES ASSUME NEW k \in 1..(m + 1)
                   PROVE  s[k] = entries[h[k]]
        OBVIOUS
      <3>1. CASE k = 1
        BY <2>2, <2>4, <3>1
      <3>2. CASE k # 1
        <4>1. k - 1 \in 1..m /\ (k - 1) + 1 = k
          BY <2>3, <3>2
        <4>2. s[k] = r[k - 1] /\ h[k] = f[k - 1]
          BY <2>2, <2>4, <4>1
        <4> QED
          BY <1>1, <1>2, <4>1, <4>2 DEF m
      <3> QED
        BY <3>1, <3>2
    <2>7. \A j, k \in 1..(m + 1) : j < k => h[j] < h[k]
      <3> SUFFICES ASSUME NEW j \in 1..(m + 1), NEW k \in 1..(m + 1), j < k
                   PROVE  h[j] < h[k]
        OBVIOUS
      <3>1. k - 1 \in 1..m /\ (k - 1) + 1 = k /\ k - 1 \in DOMAIN r
        BY <1>2, <2>3 DEF m
      <3>2. h[k] = f[k - 1] /\ f[k - 1] \in places
        BY <1>1, <2>4, <3>1
      <3>3. CASE j = 1
        BY <2>4, <3>2, <3>3
      <3>4. CASE j # 1
        <4>1. j - 1 \in 1..m /\ (j - 1) + 1 = j /\ j - 1 \in DOMAIN r /\ j - 1 < k - 1
          BY <1>2, <2>3, <3>4 DEF m
        <4>2. h[j] = f[j - 1]
          BY <2>4, <4>1
        <4> QED
          BY <1>1, <3>1, <3>2, <4>1, <4>2
      <3> QED
        BY <3>3, <3>4
    <2>8. \A i \in places \cup {p} : \E k \in 1..(m + 1) : h[k] = i
      <3>1. 1 \in 1..(m + 1) /\ \A k \in 1..m : k + 1 \in 1..(m + 1)
        BY <1>2 DEF m
      <3>2. ASSUME NEW i \in places
            PROVE  \E k \in 1..(m + 1) : h[k] = i
        <4>0. m # limit
          BY <1>2, <1>4
        <4>1. Len(r) # limit
          BY <4>0 DEF m
        <4>2. PICK k \in DOMAIN r : f[k] = i
          BY <1>1, <4>1
        <4>3. k \in 1..m
          BY <1>2, <4>2 DEF m
        <4> QED
          BY <2>4, <3>1, <4>2, <4>3
      <3> QED
        BY <2>4, <3>1, <3>2
    <2>9. Len(s) <= limit
      BY <1>2, <1>4, <2>2 DEF m
    <2>10. LastOf(s, places \cup {p}, limit)
      <3>1. \A i \in places \cup {p} : \/ \E k \in DOMAIN s : h[k] = i
                                       \/ Len(s) = limit /\ \A k \in DOMAIN s : i < h[k]
        BY <2>2, <2>8, Zenon
      <3>2. h \in [DOMAIN s -> places \cup {p}]
        BY <2>2, <2>5
      <3>3. /\ \A k \in DOMAIN s : s[k] = entries[h[k]]
            /\ \A j, k \in DOMAIN s : j < k => h[j] < h[k]
        BY <2>2, <2>6, <2>7
      <3> QED
        BY <2>9, <3>1, <3>2, <3>3, Zenon DEF LastOf
    <2> QED
      BY <1>4, <2>10 DEF s, m
  <1> QED
    BY <1>3, <1>4

\* A query returns the last matches, in their order.
LEMMA FoundIsLast ==
    ASSUME LogTypes, NEW by, NEW words, NEW limit \in Nat
    PROVE  LastOf(Found(by, words, limit),
                  {i \in DOMAIN entries : Matches(entries[i], by, words)}, limit)
  <1> DEFINE n == Len(entries)
             P(k) == {i \in 1..n : i > n - k /\ Matches(entries[i], by, words)}
  <1>0. entries \in Seq(Entries) /\ n \in Nat /\ DOMAIN entries = 1..n
    BY DEF LogTypes
  <1>1. PICK g : GatherTurns(g, by, words, limit)
    BY <1>0, FoundTurns
  <1> DEFINE S == {k \in 0..n : LastOf(g[k], P(k), limit)}
  <1>2. 0 \in S
    <2>1. P(0) = {}
      BY <1>0
    <2>2. g[0] = <<>> /\ Len(g[0]) = 0 /\ DOMAIN g[0] = {} /\ g[0] \in [{} -> {}]
      BY <1>1 DEF GatherTurns
    <2>3. LastOf(g[0], {}, limit)
      <3>1. Len(g[0]) <= limit /\ g[0] \in [DOMAIN g[0] -> {}]
        BY <2>2
      <3>2. \E f \in [DOMAIN g[0] -> {}] :
               /\ \A k \in DOMAIN g[0] : g[0][k] = entries[f[k]]
               /\ \A j, k \in DOMAIN g[0] : j < k => f[j] < f[k]
        BY <2>2, <3>1, Zenon
      <3> QED
        BY <3>1, <3>2, Zenon DEF LastOf
    <2> HIDE DEF P
    <2>4. LastOf(g[0], P(0), limit)
      BY <2>1, <2>3, Zenon
    <2> QED
      BY <1>0, <2>4
  <1>3. \A k \in 1..n : k - 1 \in S => k \in S
    <2> SUFFICES ASSUME NEW k \in 1..n, k - 1 \in S
                 PROVE  k \in S
      OBVIOUS
    <2> DEFINE p == n - k + 1
               r == g[k - 1]
    <2>1. k \in 0..n /\ k - 1 \in 0..n /\ p \in 1..n /\ n - (k - 1) = p /\ n - k = p - 1
      BY <1>0
    <2>2. r \in Seq(Entries) /\ LastOf(r, P(k - 1), limit)
      BY <1>1, <2>1 DEF GatherTurns
    <2>3. g[k] = Gather(r, entries[p], by, words, limit)
      BY <1>1 DEF GatherTurns
    <2>4. P(k - 1) \subseteq 1..n /\ \A i \in P(k - 1) : p < i
      BY <2>1
    <2>5. P(k) = P(k - 1) \cup (IF Matches(entries[p], by, words) THEN {p} ELSE {})
      <3> HIDE DEF p
      <3>1. \A i \in 1..n : i > p - 1 <=> (i > p \/ i = p)
        BY <1>0, <2>1
      <3> QED
        BY <2>1, <3>1
    <2> HIDE DEF P, p, r
    <2>6. CASE Matches(entries[p], by, words)
      <3>1. LastOf(IF Len(r) < limit THEN <<entries[p]>> \o r ELSE r, P(k - 1) \cup {p}, limit)
        BY <1>0, <2>1, <2>2, <2>4, LastOfMore
      <3>2. g[k] = IF Len(r) < limit THEN <<entries[p]>> \o r ELSE r
        BY <2>3, <2>6 DEF Gather
      <3>3. P(k) = P(k - 1) \cup {p}
        BY <2>5, <2>6
      <3>4. LastOf(g[k], P(k), limit)
        BY <3>1, <3>2, <3>3, Zenon
      <3> QED
        BY <2>1, <3>4
    <2>7. CASE ~Matches(entries[p], by, words)
      <3>1. g[k] = r /\ P(k) = P(k - 1)
        BY <2>3, <2>5, <2>7 DEF Gather
      <3>2. LastOf(g[k], P(k), limit)
        BY <2>2, <3>1, Zenon
      <3> QED
        BY <2>1, <3>2
    <2> QED
      BY <2>6, <2>7
  <1>4. P(n) = {i \in DOMAIN entries : Matches(entries[i], by, words)}
    BY <1>0
  <1> HIDE DEF S, P
  <1>5. 0..n \subseteq S
    BY <1>0, <1>2, <1>3, ByInduction
  <1>6. n \in S
    BY <1>0, <1>5
  <1> QED
    BY <1>1, <1>4, <1>6 DEF S, GatherTurns

\* search, search_regex, get_by_source and get_recent return the last matches in
\* the order they were logged, up to the limit (log_aggregator.cpp:42-91).
THEOREM QueriesAlwaysAgree == Spec => []QueriesAgree
  <1>1. ASSUME TelemetryInv
        PROVE  QueriesAgree
    <2>0. LogTypes /\ entries \in Seq(Entries) /\ \A l \in 0..Largest : l \in Nat
      BY <1>1, TelemetryParts, LargestFacts DEF LogTypes
    <2>1. ASSUME NEW l \in Nat, NEW s
          PROVE  LastOf(Found("source", {s}, l),
                        {i \in DOMAIN entries : entries[i].source = s}, l)
      <3>1. {i \in DOMAIN entries : entries[i].source = s}
              = {i \in DOMAIN entries : Matches(entries[i], "source", {s})}
        BY DEF Matches
      <3> QED
        BY <2>0, <3>1, FoundIsLast
    <2>2. ASSUME NEW l \in Nat, NEW words
          PROVE  LastOf(Found("message", words, l),
                        {i \in DOMAIN entries :
                           \E w \in words : Contains(entries[i].message, w)}, l)
      <3>1. \A i \in DOMAIN entries : DOMAIN entries[i].message = 1..Len(entries[i].message)
        BY <2>0 DEF Entries
      <3>2. \A i \in DOMAIN entries : Matches(entries[i], "message", words)
                                    <=> \E w \in words : Contains(entries[i].message, w)
        BY <3>1 DEF Matches, ToSet, Contains
      <3>3. {i \in DOMAIN entries : \E w \in words : Contains(entries[i].message, w)}
              = {i \in DOMAIN entries : Matches(entries[i], "message", words)}
        BY <3>2
      <3> QED
        BY <2>0, <3>3, FoundIsLast
    <2>3. \A l \in Nat : LastOnes(get_recent(l), entries, l)
      BY <2>0, RecentIsLast
    <2> QED
      BY <2>0, <2>1, <2>2, <2>3 DEF QueriesAgree
  <1> QED
    BY <1>1, TelemetryInvariant, PTL

-----------------------------------------------------------------------------
(* What the exporter holds.                                                *)

\* The names the daemon uses, each with one type.
MetricTypes ==
    [jobs_started_total |-> "counter", jobs_completed_total |-> "counter",
     execution_duration_ms |-> "histogram", jobs_completed |-> "gauge",
     jobs_failed |-> "gauge", events_total |-> "counter"]

\* What the daemon pushes.
Pushable ==
    {s \in [name : DOMAIN MetricTypes, type : {"counter", "gauge", "histogram"}, value : Nat,
            labels : Codes \cup EventTypes \cup {"", "target"}] :
        s.type = MetricTypes[s.name] /\ (s.type = "counter" => s.value = 1)}

LEMMA SampleFacts ==
    ASSUME NEW name, NEW type, NEW value, NEW labels
    PROVE  /\ Sample(name, type, value, labels).name = name
           /\ Sample(name, type, value, labels).type = type
           /\ Sample(name, type, value, labels).value = value
           /\ Sample(name, type, value, labels).labels = labels
  BY DEF Sample

\* The lines of a series, the samples of a name and the last gauge, in any
\* sequence of samples.
Adds(s, name, labels) == IF s.name = name /\ s.labels \in labels THEN 1 ELSE 0

RowsOf(ms, name, labels) == {i \in DOMAIN ms : ms[i].name = name /\ ms[i].labels \in labels}

LinesOf(ms, name, labels) == Cardinality(RowsOf(ms, name, labels))

PlacesOf(ms, name) == {i \in DOMAIN ms : ms[i].name = name}

LatestOf(ms, name) ==
    IF PlacesOf(ms, name) = {} THEN 0 ELSE ms[Max(PlacesOf(ms, name))].value

LEMMA AppendFacts ==
    ASSUME NEW ms \in Seq(Pushable), NEW s \in Pushable
    PROVE  /\ Append(ms, s) \in Seq(Pushable)
           /\ Len(ms) \in Nat /\ Len(Append(ms, s)) = Len(ms) + 1
           /\ Append(ms, s)[Len(ms) + 1] = s
           /\ \A i \in 1..Len(ms) : Append(ms, s)[i] = ms[i]
  OBVIOUS

\* A sample is one more line of its series, and of no other.
LEMMA LinesMore ==
    ASSUME NEW ms \in Seq(Pushable), NEW s \in Pushable, NEW name, NEW labels
    PROVE  /\ LinesOf(ms, name, labels) \in Int
           /\ LinesOf(Append(ms, s), name, labels)
                = LinesOf(ms, name, labels) + Adds(s, name, labels)
  <1> DEFINE n == Len(ms)
             ns == Append(ms, s)
             P == RowsOf(ms, name, labels)
             Q == RowsOf(ns, name, labels)
             Fit == s.name = name /\ s.labels \in labels
  <1>1. /\ ns \in Seq(Pushable) /\ n \in Nat /\ Len(ns) = n + 1
        /\ ns[n + 1] = s /\ \A i \in 1..n : ns[i] = ms[i]
    BY AppendFacts
  <1>2. DOMAIN ms = 1..n
    OBVIOUS
  <1> HIDE DEF ns
  <1>3. DOMAIN ns = 1..(n + 1)
    BY <1>1
  <1>4. P \subseteq 1..n /\ \A i : i \in Q <=> i \in P \/ (i = n + 1 /\ Fit)
    <2>1. \A i : i \in Q <=> i \in 1..(n + 1) /\ ns[i].name = name /\ ns[i].labels \in labels
      BY <1>3 DEF RowsOf
    <2>2. \A i : i \in P <=> i \in 1..n /\ ms[i].name = name /\ ms[i].labels \in labels
      BY <1>2 DEF RowsOf
    <2>3. \A i : i \in 1..(n + 1) <=> i \in 1..n \/ i = n + 1
      BY <1>1
    <2> HIDE DEF P, Q, n
    <2> QED
      BY <1>1, <2>1, <2>2, <2>3
  <1>5. IsFiniteSet(P) /\ Cardinality(P) \in Nat
    <2> HIDE DEF P, n
    <2>1. IsFiniteSet(1..n)
      <3>1. 1 \in Int /\ n \in Int
        BY <1>1
      <3> QED
        BY <3>1, FS_Interval
    <2>2. P \in SUBSET (1..n)
      BY <1>4
    <2>3. IsFiniteSet(P)
      BY <2>1, <2>2, FS_Subset
    <2> QED
      BY <2>3, FS_CardinalityType
  <1>6. Fit => Cardinality(Q) = Cardinality(P) + 1
    <2>1. n + 1 \notin P
      BY <1>1, <1>4
    <2> HIDE DEF P, Q, n, Fit
    <2>2. Fit => Q = P \cup {n + 1}
      BY <1>4
    <2>3. Cardinality(P \cup {n + 1}) = Cardinality(P) + 1
      BY <1>5, <2>1, FS_AddElement
    <2> QED
      BY <2>2, <2>3
  <1>7. ~Fit => Cardinality(Q) = Cardinality(P)
    <2> HIDE DEF P, Q, n, Fit
    <2>1. ~Fit => Q = P
      BY <1>4
    <2> QED
      BY <2>1
  <1>8. LinesOf(ms, name, labels) = Cardinality(P) /\ LinesOf(ns, name, labels) = Cardinality(Q)
    BY DEF LinesOf
  <1>9. Adds(s, name, labels) = IF Fit THEN 1 ELSE 0
    BY DEF Adds
  <1> HIDE DEF P, Q, Fit
  <1> QED
    BY <1>5, <1>6, <1>7, <1>8, <1>9 DEF ns

\* A sample has a place of its own, after all others.
LEMMA PlacesMore ==
    ASSUME NEW ms \in Seq(Pushable), NEW s \in Pushable, NEW name
    PROVE  /\ PlacesOf(Append(ms, s), name)
                = PlacesOf(ms, name) \cup (IF s.name = name THEN {Len(ms) + 1} ELSE {})
           /\ PlacesOf(ms, name) \subseteq 1..Len(ms)
           /\ IsFiniteSet(PlacesOf(ms, name))
           /\ Cardinality(PlacesOf(ms, name)) \in Nat
           /\ s.name = name => Cardinality(PlacesOf(Append(ms, s), name))
                                  = Cardinality(PlacesOf(ms, name)) + 1
           /\ s.name # name => Cardinality(PlacesOf(Append(ms, s), name))
                                  = Cardinality(PlacesOf(ms, name))
  <1> DEFINE n == Len(ms)
             ns == Append(ms, s)
             P == PlacesOf(ms, name)
             Q == PlacesOf(ns, name)
  <1>1. /\ ns \in Seq(Pushable) /\ n \in Nat /\ Len(ns) = n + 1
        /\ ns[n + 1] = s /\ \A i \in 1..n : ns[i] = ms[i]
    BY AppendFacts
  <1>2. DOMAIN ms = 1..n
    OBVIOUS
  <1> HIDE DEF ns
  <1>3. DOMAIN ns = 1..(n + 1)
    BY <1>1
  <1>4. P \subseteq 1..n /\ Q = P \cup (IF s.name = name THEN {n + 1} ELSE {})
    <2>1. P \subseteq 1..n
      BY <1>2 DEF PlacesOf
    <2>2. \A i : i \in Q <=> i \in P \/ (i = n + 1 /\ s.name = name)
      <3>1. \A i : i \in Q <=> i \in 1..(n + 1) /\ ns[i].name = name
        BY <1>3 DEF PlacesOf
      <3>2. \A i : i \in P <=> i \in 1..n /\ ms[i].name = name
        BY <1>2 DEF PlacesOf
      <3>3. \A i : i \in 1..(n + 1) <=> i \in 1..n \/ i = n + 1
        BY <1>1
      <3> HIDE DEF P, Q, n
      <3> QED
        BY <1>1, <3>1, <3>2, <3>3
    <2> QED
      BY <2>1, <2>2
  <1>5. IsFiniteSet(P) /\ Cardinality(P) \in Nat
    <2> HIDE DEF P, n
    <2>1. IsFiniteSet(1..n)
      <3>1. 1 \in Int /\ n \in Int
        BY <1>1
      <3> QED
        BY <3>1, FS_Interval
    <2>2. P \in SUBSET (1..n)
      BY <1>4
    <2>3. IsFiniteSet(P)
      BY <2>1, <2>2, FS_Subset
    <2> QED
      BY <2>3, FS_CardinalityType
  <1>6. n + 1 \notin P
    BY <1>1, <1>4
  <1>7. s.name = name => Cardinality(Q) = Cardinality(P) + 1
    <2>1. Cardinality(P \cup {n + 1}) = Cardinality(P) + 1
      <3> HIDE DEF P, n
      <3> QED
        BY <1>5, <1>6, FS_AddElement
    <2> HIDE DEF P, Q, n
    <2> QED
      BY <1>4, <2>1
  <1>8. s.name # name => Cardinality(Q) = Cardinality(P)
    <2> HIDE DEF P, Q, n
    <2>1. s.name # name => Q = P
      BY <1>4
    <2> QED
      BY <2>1
  <1> QED
    BY <1>4, <1>5, <1>7, <1>8 DEF ns

\* The last gauge of a name is the one that was set last.
LEMMA LatestMore ==
    ASSUME NEW ms \in Seq(Pushable), NEW s \in Pushable, NEW name
    PROVE  /\ s.name = name => LatestOf(Append(ms, s), name) = s.value
           /\ s.name # name => LatestOf(Append(ms, s), name) = LatestOf(ms, name)
  <1> DEFINE n == Len(ms)
             ns == Append(ms, s)
             P == PlacesOf(ms, name)
             Q == PlacesOf(ns, name)
  <1>1. /\ n \in Nat /\ ns[n + 1] = s /\ \A i \in 1..n : ns[i] = ms[i]
    BY AppendFacts
  <1>2. P \subseteq 1..n /\ Q = P \cup (IF s.name = name THEN {n + 1} ELSE {})
    BY PlacesMore
  <1> HIDE DEF n, ns, P, Q
  <1>3. CASE s.name = name
    <2>1. Q # {} /\ Q \subseteq 0..(n + 1) /\ n + 1 \in Q /\ n + 1 \in Nat
      BY <1>1, <1>2, <1>3
    <2>2. Max(Q) \in Q /\ \A i \in Q : i <= Max(Q)
      BY <2>1, Greatest
    <2>3. Max(Q) = n + 1
      <3>1. Max(Q) \in 0..(n + 1) /\ n + 1 <= Max(Q)
        BY <2>1, <2>2
      <3> QED
        BY <1>1, <3>1
    <2>4. LatestOf(ns, name) = ns[Max(Q)].value
      BY <2>1 DEF LatestOf, Q
    <2>5. ns[Max(Q)] = s
      BY <1>1, <2>3
    <2> QED
      BY <1>3, <2>4, <2>5 DEF ns
  <1>4. CASE s.name # name
    <2>1. Q = P
      BY <1>2, <1>4
    <2>2. ASSUME P # {}
          PROVE  ns[Max(P)] = ms[Max(P)]
      <3>1. P \subseteq 0..n
        BY <1>1, <1>2
      <3>2. Max(P) \in P
        BY <1>1, <2>2, <3>1, Greatest
      <3> QED
        BY <1>1, <1>2, <3>2
    <2> QED
      BY <1>4, <2>1, <2>2 DEF LatestOf, P, Q, ns
  <1> QED
    BY <1>3, <1>4

\* Before the first sample.
LEMMA NoSamples ==
    ASSUME NEW name, NEW labels
    PROVE  /\ LinesOf(<<>>, name, labels) = 0
           /\ PlacesOf(<<>>, name) = {}
           /\ Cardinality(PlacesOf(<<>>, name)) = 0
           /\ LatestOf(<<>>, name) = 0
  <1>1. PlacesOf(<<>>, name) = {}
    BY DEF PlacesOf
  <1>2. RowsOf(<<>>, name, labels) = {}
    BY DEF RowsOf
  <1>3. LinesOf(<<>>, name, labels) = 0
    BY <1>2, FS_EmptySet DEF LinesOf
  <1> QED
    BY <1>1, <1>3, FS_EmptySet DEF LatestOf

\* The series of main().
StartedCount == Cardinality(PlacesOf(metrics, "jobs_started_total"))
TimedCount == Cardinality(PlacesOf(metrics, "execution_duration_ms"))
CompletedLines == LinesOf(metrics, "jobs_completed_total", Codes)
PassedLines == LinesOf(metrics, "jobs_completed_total", Codes \cap {0})
FailedLines == LinesOf(metrics, "jobs_completed_total", Codes \ {0})
PassedGauge == LatestOf(metrics, "jobs_completed")
FailedGauge == LatestOf(metrics, "jobs_failed")

\* The series of the event callback, and the threads inside it.
EventLines(e) == LinesOf(metrics, "events_total", {e})
Holding(e) == {t \in Threads : event[t] = e}

\* Each name has one type.
SeriesTypes == metrics \in Seq(Pushable)

EventSums ==
    \A e \in EventTypes : EventLines(e) = logged[e] - Cardinality(Holding(e))

\* SeriesAgree at each step of main(): which series the job in hand has entered,
\* and which of them its tally and the gauges are still to follow.
Judging == at \in {"duration", "verdict"}

SeriesInv ==
    /\ StartedCount = CompletedLines + (IF at = "output" THEN 1 ELSE 0)
    /\ CompletedLines = TimedCount + (IF at = "duration" THEN 1 ELSE 0)
    /\ Judging => job.code \in Codes
    /\ at # "ended" =>
          /\ PassedLines = tally.completed + (IF Judging /\ job.code = 0 THEN 1 ELSE 0)
          /\ FailedLines = tally.failed + (IF Judging /\ job.code # 0 THEN 1 ELSE 0)
    /\ at \notin {"gauge_completed", "ended"} => PassedGauge = tally.completed
    /\ at \notin {"gauge_completed", "gauge_failed", "ended"} => FailedGauge = tally.failed

LEMMA SeriesNumbers ==
    ASSUME SeriesTypes
    PROVE  /\ StartedCount \in Nat /\ TimedCount \in Nat
           /\ CompletedLines \in Int /\ PassedLines \in Int /\ FailedLines \in Int
           /\ \A e \in EventTypes : EventLines(e) \in Int
  <1>1. PICK s : s \in Pushable
    <2>1. Sample("jobs_failed", "gauge", 0, "") \in Pushable
      BY DEF Pushable, Sample, MetricTypes
    <2> QED
      BY <2>1
  <1>2. \A name, labels : LinesOf(metrics, name, labels) \in Int
    BY <1>1, LinesMore DEF SeriesTypes
  <1>3. \A name : Cardinality(PlacesOf(metrics, name)) \in Nat
    BY <1>1, PlacesMore DEF SeriesTypes
  <1> QED
    BY <1>2, <1>3 DEF StartedCount, TimedCount, CompletedLines, PassedLines, FailedLines,
                      EventLines

\* What one more sample does to the series.
LEMMA SeriesMore ==
    ASSUME SeriesTypes, NEW s \in Pushable, metrics' = WithSample(s)
    PROVE  /\ SeriesTypes'
           /\ s.name = "jobs_started_total" => StartedCount' = StartedCount + 1
           /\ s.name # "jobs_started_total" => StartedCount' = StartedCount
           /\ s.name = "execution_duration_ms" => TimedCount' = TimedCount + 1
           /\ s.name # "execution_duration_ms" => TimedCount' = TimedCount
           /\ s.name = "jobs_completed" => PassedGauge' = s.value
           /\ s.name # "jobs_completed" => PassedGauge' = PassedGauge
           /\ s.name = "jobs_failed" => FailedGauge' = s.value
           /\ s.name # "jobs_failed" => FailedGauge' = FailedGauge
           /\ CompletedLines' = CompletedLines + Adds(s, "jobs_completed_total", Codes)
           /\ PassedLines' = PassedLines + Adds(s, "jobs_completed_total", Codes \cap {0})
           /\ FailedLines' = FailedLines + Adds(s, "jobs_completed_total", Codes \ {0})
           /\ \A e \in EventTypes : EventLines(e)' = EventLines(e) + Adds(s, "events_total", {e})
  <1> DEFINE ms == metrics
             ns == metrics'
  <1>1. ms \in Seq(Pushable) /\ ns = Append(ms, s)
    BY DEF SeriesTypes, WithSample
  <1>2. SeriesTypes'
    BY <1>1, AppendFacts DEF SeriesTypes
  <1>3. \A name : /\ s.name = name => Cardinality(PlacesOf(ns, name))
                                        = Cardinality(PlacesOf(ms, name)) + 1
                  /\ s.name # name => Cardinality(PlacesOf(ns, name))
                                        = Cardinality(PlacesOf(ms, name))
    BY <1>1, PlacesMore
  <1>4. \A name : /\ s.name = name => LatestOf(ns, name) = s.value
                  /\ s.name # name => LatestOf(ns, name) = LatestOf(ms, name)
    BY <1>1, LatestMore
  <1>5. \A name, labels : LinesOf(ns, name, labels)
                            = LinesOf(ms, name, labels) + Adds(s, name, labels)
    BY <1>1, LinesMore
  <1> QED
    BY <1>2, <1>3, <1>4, <1>5, Zenon
       DEF StartedCount, TimedCount, CompletedLines, PassedLines, FailedLines, PassedGauge,
           FailedGauge, EventLines

\* What the daemon pushes is pushable, and what each sample adds.
LEMMA StartedSample ==
    LET s == Sample("jobs_started_total", "counter", 1, "target")
    IN s \in Pushable /\ s.name = "jobs_started_total"
  BY DEF Pushable, Sample, MetricTypes

LEMMA CompletedSample ==
    ASSUME NEW c \in Codes
    PROVE  LET s == Sample("jobs_completed_total", "counter", 1, c)
           IN /\ s \in Pushable /\ s.name = "jobs_completed_total"
              /\ Adds(s, "jobs_completed_total", Codes) = 1
              /\ c = 0 => /\ Adds(s, "jobs_completed_total", Codes \cap {0}) = 1
                          /\ Adds(s, "jobs_completed_total", Codes \ {0}) = 0
              /\ c # 0 => /\ Adds(s, "jobs_completed_total", Codes \cap {0}) = 0
                          /\ Adds(s, "jobs_completed_total", Codes \ {0}) = 1
  BY DEF Pushable, Sample, MetricTypes, Adds

LEMMA DurationSample ==
    LET s == Sample("execution_duration_ms", "histogram", 1, "")
    IN s \in Pushable /\ s.name = "execution_duration_ms"
  BY DEF Pushable, Sample, MetricTypes

LEMMA GaugeSample ==
    ASSUME NEW name \in {"jobs_completed", "jobs_failed"}, NEW v \in Nat
    PROVE  LET s == Sample(name, "gauge", v, "")
           IN s \in Pushable /\ s.name = name /\ s.value = v
  <1>1. CASE name = "jobs_completed"
    BY <1>1 DEF Pushable, Sample, MetricTypes
  <1>2. CASE name = "jobs_failed"
    BY <1>2 DEF Pushable, Sample, MetricTypes
  <1> QED
    BY <1>1, <1>2

LEMMA EventSample ==
    ASSUME NEW e \in EventTypes
    PROVE  LET s == Sample("events_total", "counter", 1, e)
           IN /\ s \in Pushable /\ s.name = "events_total"
              /\ Adds(s, "events_total", {e}) = 1
              /\ \A d \in EventTypes \ {e} : Adds(s, "events_total", {d}) = 0
  BY DEF Pushable, Sample, MetricTypes, Adds

LEMMA OtherName ==
    ASSUME NEW s, NEW name, NEW labels, s.name # name
    PROVE  Adds(s, name, labels) = 0
  BY DEF Adds

LEMMA SeriesSame ==
    ASSUME UNCHANGED metrics
    PROVE  /\ SeriesTypes' = SeriesTypes
           /\ StartedCount' = StartedCount /\ TimedCount' = TimedCount
           /\ CompletedLines' = CompletedLines
           /\ PassedLines' = PassedLines /\ FailedLines' = FailedLines
           /\ PassedGauge' = PassedGauge /\ FailedGauge' = FailedGauge
           /\ \A e \in EventTypes : EventLines(e)' = EventLines(e)
  BY DEF SeriesTypes, StartedCount, TimedCount, CompletedLines, PassedLines, FailedLines,
         PassedGauge, FailedGauge, EventLines

\* A step of main() that touches no series, between places where none is behind.
LEMMA SeriesKept ==
    ASSUME SeriesInv, UNCHANGED <<job, tally>>,
           StartedCount' = StartedCount, TimedCount' = TimedCount,
           CompletedLines' = CompletedLines,
           PassedLines' = PassedLines, FailedLines' = FailedLines,
           PassedGauge' = PassedGauge, FailedGauge' = FailedGauge,
           \/ at' = at
           \/ /\ at \in {"args", "server", "connect", "poll"}
              /\ at' \in {"server", "connect", "poll", "leave", "counting", "ended"}
    PROVE  SeriesInv'
  <1>1. CASE at' = at
    BY <1>1 DEF SeriesInv, Judging
  <1>2. CASE /\ at \in {"args", "server", "connect", "poll"}
             /\ at' \in {"server", "connect", "poll", "leave", "counting", "ended"}
    <2>1. /\ at \notin {"output", "duration", "verdict", "gauge_completed", "gauge_failed", "ended"}
          /\ at' \notin {"output", "duration", "verdict", "gauge_completed", "gauge_failed"}
      BY <1>2
    <2>2. ~Judging /\ ~Judging'
      BY <2>1 DEF Judging
    <2> QED
      BY <2>1, <2>2 DEF SeriesInv
  <1> QED
    BY <1>1, <1>2

LEMMA JobCountedSeries ==
    ASSUME SeriesTypes, SeriesInv, JobCounted
    PROVE  SeriesTypes' /\ SeriesInv'
  <1> DEFINE s == Sample("jobs_started_total", "counter", 1, "target")
  <1>1. s \in Pushable /\ s.name = "jobs_started_total"
    BY StartedSample
  <1>2. /\ at = "counting" /\ at' = "output" /\ job' = job /\ tally' = tally
        /\ metrics' = WithSample(s)
    BY DEF JobCounted, Go, counter
  <1> HIDE DEF s
  <1>3. /\ SeriesTypes'
        /\ StartedCount' = StartedCount + 1 /\ TimedCount' = TimedCount
        /\ PassedGauge' = PassedGauge /\ FailedGauge' = FailedGauge
        /\ CompletedLines' = CompletedLines + 0
        /\ PassedLines' = PassedLines + 0 /\ FailedLines' = FailedLines + 0
    BY <1>1, <1>2, SeriesMore, OtherName
  <1>4. ~Judging /\ ~Judging'
    BY <1>2 DEF Judging
  <1> QED
    BY <1>2, <1>3, <1>4, SeriesNumbers DEF SeriesInv

LEMMA CompletedSeries ==
    ASSUME SeriesTypes, SeriesInv, CountInv, Completed
    PROVE  SeriesTypes' /\ SeriesInv'
  <1>1. PICK c \in Codes : /\ job' = [lines |-> 0, code |-> c]
                           /\ metrics' = WithSample(Sample("jobs_completed_total", "counter", 1, c))
    BY DEF Completed, counter
  <1> DEFINE s == Sample("jobs_completed_total", "counter", 1, c)
  <1>2. /\ s \in Pushable /\ s.name = "jobs_completed_total"
        /\ Adds(s, "jobs_completed_total", Codes) = 1
        /\ c = 0 => /\ Adds(s, "jobs_completed_total", Codes \cap {0}) = 1
                    /\ Adds(s, "jobs_completed_total", Codes \ {0}) = 0
        /\ c # 0 => /\ Adds(s, "jobs_completed_total", Codes \cap {0}) = 0
                    /\ Adds(s, "jobs_completed_total", Codes \ {0}) = 1
    BY CompletedSample
  <1>3. at = "output" /\ at' = "duration" /\ tally' = tally /\ job'.code = c
    BY <1>1 DEF Completed, Go
  <1>4. metrics' = WithSample(s)
    BY <1>1
  <1> HIDE DEF s
  <1>5. /\ SeriesTypes'
        /\ StartedCount' = StartedCount /\ TimedCount' = TimedCount
        /\ PassedGauge' = PassedGauge /\ FailedGauge' = FailedGauge
        /\ CompletedLines' = CompletedLines + 1
        /\ c = 0 => PassedLines' = PassedLines + 1 /\ FailedLines' = FailedLines + 0
        /\ c # 0 => PassedLines' = PassedLines + 0 /\ FailedLines' = FailedLines + 1
    BY <1>2, <1>4, SeriesMore
  <1>6. ~Judging /\ Judging'
    BY <1>3 DEF Judging
  <1>7. /\ StartedCount = CompletedLines + 1 /\ CompletedLines = TimedCount
        /\ PassedLines = tally.completed /\ FailedLines = tally.failed
        /\ PassedGauge = tally.completed /\ FailedGauge = tally.failed
    <2>1. tally.completed \in Nat /\ tally.failed \in Nat
      BY DEF CountInv
    <2> QED
      BY <1>3, <1>6, <2>1, SeriesNumbers DEF SeriesInv
  <1>8. CASE c = 0
    BY <1>3, <1>5, <1>6, <1>7, <1>8, SeriesNumbers DEF SeriesInv
  <1>9. CASE c # 0
    BY <1>3, <1>5, <1>6, <1>7, <1>9, SeriesNumbers DEF SeriesInv
  <1> QED
    BY <1>8, <1>9

LEMMA DurationSeries ==
    ASSUME SeriesTypes, SeriesInv, Duration
    PROVE  SeriesTypes' /\ SeriesInv'
  <1> DEFINE s == Sample("execution_duration_ms", "histogram", 1, "")
  <1>1. s \in Pushable /\ s.name = "execution_duration_ms"
    BY DurationSample
  <1>2. /\ at = "duration" /\ at' = "verdict" /\ job' = job /\ tally' = tally
        /\ metrics' = WithSample(s)
    BY DEF Duration, Go, histogram
  <1> HIDE DEF s
  <1>3. /\ SeriesTypes'
        /\ StartedCount' = StartedCount /\ TimedCount' = TimedCount + 1
        /\ PassedGauge' = PassedGauge /\ FailedGauge' = FailedGauge
        /\ CompletedLines' = CompletedLines + 0
        /\ PassedLines' = PassedLines + 0 /\ FailedLines' = FailedLines + 0
    BY <1>1, <1>2, SeriesMore, OtherName
  <1>4. Judging /\ Judging'
    BY <1>2 DEF Judging
  <1> QED
    BY <1>2, <1>3, <1>4, SeriesNumbers DEF SeriesInv

LEMMA VerdictSeries ==
    ASSUME SeriesTypes, SeriesInv, CountInv, Verdict
    PROVE  SeriesTypes' /\ SeriesInv'
  <1>1. /\ at = "verdict" /\ at' = "gauge_completed" /\ job' = job /\ tally' = Tallied
        /\ UNCHANGED metrics
    BY DEF Verdict, Log, Go, exporterVars
  <1>2. tally \in [completed : 0..MaxJobs, failed : 0..MaxJobs]
    BY DEF CountInv
  <1>3. /\ job.code = 0 => tally'.completed = tally.completed + 1 /\ tally'.failed = tally.failed
        /\ job.code # 0 => tally'.completed = tally.completed /\ tally'.failed = tally.failed + 1
    BY <1>1, <1>2 DEF Tallied
  <1>4. Judging /\ ~Judging'
    BY <1>1 DEF Judging
  <1>5. tally.completed \in Nat /\ tally.failed \in Nat
    BY <1>2
  <1>6. /\ job.code = 0 => PassedLines = tally.completed + 1 /\ FailedLines = tally.failed
        /\ job.code # 0 => PassedLines = tally.completed /\ FailedLines = tally.failed + 1
    BY <1>1, <1>4, <1>5, SeriesNumbers DEF SeriesInv
  <1>7. StartedCount = CompletedLines /\ CompletedLines = TimedCount
    BY <1>1, SeriesNumbers DEF SeriesInv
  <1>8. PassedLines = tally'.completed /\ FailedLines = tally'.failed
    BY <1>3, <1>6
  <1> QED
    BY <1>1, <1>4, <1>7, <1>8, SeriesSame, SeriesNumbers DEF SeriesInv

LEMMA GaugeSeries ==
    ASSUME SeriesTypes, SeriesInv, CountInv, GaugeCompleted \/ GaugeFailed
    PROVE  SeriesTypes' /\ SeriesInv'
  <1>0. tally.completed \in Nat /\ tally.failed \in Nat
    BY DEF CountInv
  <1>1. ~Judging /\ ~Judging'
    BY DEF Judging, GaugeCompleted, GaugeFailed, Go
  <1>2. CASE GaugeCompleted
    <2> DEFINE s == Sample("jobs_completed", "gauge", tally.completed, "")
    <2>1. s \in Pushable /\ s.name = "jobs_completed" /\ s.value = tally.completed
      BY <1>0, GaugeSample
    <2>2. /\ at = "gauge_completed" /\ at' = "gauge_failed" /\ tally' = tally
          /\ metrics' = WithSample(s)
      BY <1>2 DEF GaugeCompleted, Go, gauge
    <2> HIDE DEF s
    <2>3. /\ SeriesTypes'
          /\ StartedCount' = StartedCount /\ TimedCount' = TimedCount
          /\ PassedGauge' = tally.completed
          /\ CompletedLines' = CompletedLines + 0
          /\ PassedLines' = PassedLines + 0 /\ FailedLines' = FailedLines + 0
      BY <2>1, <2>2, SeriesMore, OtherName
    <2> QED
      BY <1>0, <1>1, <2>2, <2>3, SeriesNumbers DEF SeriesInv
  <1>3. CASE GaugeFailed
    <2> DEFINE s == Sample("jobs_failed", "gauge", tally.failed, "")
    <2>1. s \in Pushable /\ s.name = "jobs_failed" /\ s.value = tally.failed
      BY <1>0, GaugeSample
    <2>2. /\ at = "gauge_failed" /\ at' = "poll" /\ tally' = tally
          /\ metrics' = WithSample(s)
      BY <1>3 DEF GaugeFailed, Go, gauge
    <2> HIDE DEF s
    <2>3. /\ SeriesTypes'
          /\ StartedCount' = StartedCount /\ TimedCount' = TimedCount
          /\ PassedGauge' = PassedGauge /\ FailedGauge' = tally.failed
          /\ CompletedLines' = CompletedLines + 0
          /\ PassedLines' = PassedLines + 0 /\ FailedLines' = FailedLines + 0
      BY <2>1, <2>2, SeriesMore, OtherName
    <2> QED
      BY <1>0, <1>1, <2>2, <2>3, SeriesNumbers DEF SeriesInv
  <1> QED
    BY <1>2, <1>3

\* The objects of main() are gone.
LEMMA EmptySeries ==
    ASSUME metrics = <<>>
    PROVE  /\ SeriesTypes /\ StartedCount = 0 /\ TimedCount = 0 /\ CompletedLines = 0
           /\ PassedLines = 0 /\ FailedLines = 0 /\ PassedGauge = 0 /\ FailedGauge = 0
           /\ \A e \in EventTypes : EventLines(e) = 0
  <1>1. \A name, labels : LinesOf(metrics, name, labels) = 0
    BY NoSamples
  <1>2. \A name : Cardinality(PlacesOf(metrics, name)) = 0 /\ LatestOf(metrics, name) = 0
    BY NoSamples
  <1>3. SeriesTypes
    BY DEF SeriesTypes
  <1> QED
    BY <1>1, <1>2, <1>3, Zenon
       DEF StartedCount, TimedCount, CompletedLines, PassedLines, FailedLines, PassedGauge,
           FailedGauge, EventLines

LEMMA EmptySeriesNext ==
    ASSUME metrics' = <<>>
    PROVE  /\ SeriesTypes' /\ StartedCount' = 0 /\ TimedCount' = 0 /\ CompletedLines' = 0
           /\ \A e \in EventTypes : EventLines(e)' = 0
  <1>1. \A name, labels : LinesOf(metrics', name, labels) = 0
    BY NoSamples
  <1>2. \A name : Cardinality(PlacesOf(metrics', name)) = 0
    BY NoSamples
  <1>3. SeriesTypes'
    BY DEF SeriesTypes
  <1> QED
    BY <1>1, <1>2, <1>3, Zenon DEF StartedCount, TimedCount, CompletedLines, EventLines

LEMMA CountedSeries ==
    ASSUME SeriesTypes, SeriesInv, EventInv, NEW t \in Threads, EventCounted(t)
    PROVE  SeriesTypes' /\ SeriesInv'
  <1> DEFINE s == Sample("events_total", "counter", 1, event[t])
  <1>1. event[t] \in EventTypes
    BY DEF EventCounted, EventInv
  <1>2. s \in Pushable /\ s.name = "events_total"
    BY <1>1, EventSample
  <1>3. metrics' = WithSample(s) /\ UNCHANGED <<at, job, tally>>
    BY DEF EventCounted, counter, mainVars
  <1> HIDE DEF s
  <1>4. /\ SeriesTypes'
        /\ StartedCount' = StartedCount /\ TimedCount' = TimedCount
        /\ PassedGauge' = PassedGauge /\ FailedGauge' = FailedGauge
        /\ CompletedLines' = CompletedLines + 0
        /\ PassedLines' = PassedLines + 0 /\ FailedLines' = FailedLines + 0
    BY <1>2, <1>3, SeriesMore, OtherName
  <1> QED
    BY <1>3, <1>4, SeriesKept, SeriesNumbers

LEMMA SeriesNext ==
    ASSUME SeriesTypes, SeriesInv, CountInv, EventInv, [Next]_vars
    PROVE  SeriesTypes' /\ SeriesInv'
  <1>1. CASE GivenArg \/ Parse \/ StartServer \/ Connect \/ Shutdown \/ JobLogged
    <2>1. /\ UNCHANGED <<metrics, job, tally>>
          /\ \/ at' = at
             \/ /\ at \in {"args", "server", "connect", "poll"}
                /\ at' \in {"server", "connect", "poll", "leave", "counting", "ended"}
      BY <1>1 DEF GivenArg, Parse, StartServer, Connect, Shutdown, JobLogged, Log, Go,
                  exporterVars
    <2> QED
      BY <2>1, SeriesSame, SeriesKept
  <1>2. CASE Output
    <2>1. UNCHANGED <<metrics, at, tally>> /\ at = "output"
      BY <1>2 DEF Output, exporterVars
    <2>2. ~Judging /\ ~Judging'
      BY <2>1 DEF Judging
    <2> QED
      BY <2>1, <2>2, SeriesSame DEF SeriesInv
  <1>3. CASE Leave
    <2>1. metrics' = <<>> /\ at' = "ended"
      BY <1>3 DEF Leave, Go
    <2>2. ~Judging'
      BY <2>1 DEF Judging
    <2> QED
      BY <2>1, <2>2, EmptySeriesNext DEF SeriesInv
  <1>4. CASE (\E t \in Threads : EventLogged(t)) \/ LogUser \/ UNCHANGED vars
    <2>1. UNCHANGED <<metrics, at, job, tally>>
      BY <1>4 DEF EventLogged, LogUser, vars, exporterVars, mainVars
    <2> QED
      BY <2>1, SeriesSame, SeriesKept
  <1> QED
    BY <1>1, <1>2, <1>3, <1>4, JobCountedSeries, CompletedSeries, DurationSeries, VerdictSeries,
       GaugeSeries, CountedSeries DEF Next

\* The threads between the two halves of the callback, when one enters or leaves.
LEMMA HoldingFacts ==
    ASSUME EventInv, NEW t \in Threads, NEW e \in EventTypes
    PROVE  /\ IsFiniteSet(Holding(e)) /\ Cardinality(Holding(e)) \in Nat
           /\ \A d \in EventTypes : d # e /\ event' = [event EXCEPT ![t] = e] /\ event[t] = None
                 => Holding(d)' = Holding(d)
           /\ event' = [event EXCEPT ![t] = e] /\ event[t] = None =>
                 Cardinality(Holding(e)') = Cardinality(Holding(e)) + 1
           /\ \A d \in EventTypes : d # e /\ event' = [event EXCEPT ![t] = None] /\ event[t] = e
                 => Holding(d)' = Holding(d)
           /\ event' = [event EXCEPT ![t] = None] /\ event[t] = e =>
                 Cardinality(Holding(e)') = Cardinality(Holding(e)) - 1
  <1>0. None \notin EventTypes /\ IsFiniteSet(Threads)
    BY TelemetryAssumption
  <1>1. IsFiniteSet(Holding(e)) /\ Cardinality(Holding(e)) \in Nat
    <2>1. Holding(e) \in SUBSET Threads
      BY DEF Holding
    <2>2. IsFiniteSet(Holding(e))
      BY <1>0, <2>1, FS_Subset
    <2> QED
      BY <2>2, FS_CardinalityType
  <1>2. ASSUME event' = [event EXCEPT ![t] = e], event[t] = None
        PROVE  /\ \A d \in EventTypes : d # e => Holding(d)' = Holding(d)
               /\ Cardinality(Holding(e)') = Cardinality(Holding(e)) + 1
    <2>1. \A u \in Threads : event'[u] = IF u = t THEN e ELSE event[u]
      BY <1>2 DEF EventInv
    <2>2. \A d \in EventTypes : d # e => Holding(d)' = Holding(d)
      BY <1>0, <1>2, <2>1 DEF Holding
    <2>3. Holding(e)' = Holding(e) \cup {t} /\ t \notin Holding(e)
      BY <1>0, <1>2, <2>1 DEF Holding
    <2>4. Cardinality(Holding(e) \cup {t}) = Cardinality(Holding(e)) + 1
      BY <1>1, <2>3, FS_AddElement
    <2> QED
      BY <2>2, <2>3, <2>4
  <1>3. ASSUME event' = [event EXCEPT ![t] = None], event[t] = e
        PROVE  /\ \A d \in EventTypes : d # e => Holding(d)' = Holding(d)
               /\ Cardinality(Holding(e)') = Cardinality(Holding(e)) - 1
    <2>1. \A u \in Threads : event'[u] = IF u = t THEN None ELSE event[u]
      BY <1>3 DEF EventInv
    <2>2. \A d \in EventTypes : d # e => Holding(d)' = Holding(d)
      BY <1>0, <1>3, <2>1 DEF Holding
    <2>3. Holding(e)' = Holding(e) \ {t} /\ t \in Holding(e)
      BY <1>0, <1>3, <2>1 DEF Holding
    <2>4. Cardinality(Holding(e) \ {t}) = Cardinality(Holding(e)) - 1
      BY <1>1, <2>3, FS_RemoveElement
    <2> QED
      BY <2>2, <2>3, <2>4
  <1> QED
    BY <1>1, <1>2, <1>3

LEMMA LoggedSums ==
    ASSUME SeriesTypes, EventSums, EventInv, NEW t \in Threads, EventLogged(t)
    PROVE  EventSums'
  <1>1. PICK e \in EventTypes : /\ event' = [event EXCEPT ![t] = e]
                                /\ logged' = [logged EXCEPT ![e] = @ + 1]
    BY DEF EventLogged
  <1>2. event[t] = None /\ UNCHANGED metrics
    BY DEF EventLogged, exporterVars
  <1>3. \A d \in EventTypes : EventLines(d)' = EventLines(d)
    BY <1>2, SeriesSame
  <1>4. /\ Cardinality(Holding(e)) \in Nat
        /\ Cardinality(Holding(e)') = Cardinality(Holding(e)) + 1
        /\ \A d \in EventTypes : d # e => Holding(d)' = Holding(d)
    BY <1>1, <1>2, HoldingFacts
  <1>5. /\ logged[e] \in Nat /\ logged'[e] = logged[e] + 1
        /\ \A d \in EventTypes : d # e => logged'[d] = logged[d]
    BY <1>1 DEF EventInv
  <1>6. ASSUME NEW d \in EventTypes
        PROVE  EventLines(d)' = logged'[d] - Cardinality(Holding(d)')
    <2>1. EventLines(d)' = logged[d] - Cardinality(Holding(d))
      BY <1>3 DEF EventSums
    <2>2. CASE d # e
      BY <1>4, <1>5, <2>1, <2>2
    <2>3. CASE d = e
      BY <1>4, <1>5, <2>1, <2>3
    <2> QED
      BY <2>2, <2>3
  <1> QED
    BY <1>6 DEF EventSums

LEMMA CountedSums ==
    ASSUME SeriesTypes, EventSums, EventInv, NEW t \in Threads, EventCounted(t)
    PROVE  EventSums'
  <1>1. PICK e \in EventTypes : event[t] = e
    BY DEF EventCounted, EventInv
  <1> DEFINE s == Sample("events_total", "counter", 1, e)
  <1>2. /\ s \in Pushable
        /\ Adds(s, "events_total", {e}) = 1
        /\ \A d \in EventTypes \ {e} : Adds(s, "events_total", {d}) = 0
    BY <1>1, EventSample
  <1>3. /\ metrics' = WithSample(s) /\ UNCHANGED logged
        /\ event' = [event EXCEPT ![t] = None]
    BY <1>1 DEF EventCounted, counter
  <1> HIDE DEF s
  <1>4. \A d \in EventTypes : EventLines(d)' = EventLines(d) + Adds(s, "events_total", {d})
    BY <1>2, <1>3, SeriesMore
  <1>5. /\ Cardinality(Holding(e)) \in Nat
        /\ Cardinality(Holding(e)') = Cardinality(Holding(e)) - 1
        /\ \A d \in EventTypes : d # e => Holding(d)' = Holding(d)
    BY <1>1, <1>3, HoldingFacts
  <1>6. ASSUME NEW d \in EventTypes
        PROVE  EventLines(d)' = logged'[d] - Cardinality(Holding(d)')
    <2>1. EventLines(d) = logged[d] - Cardinality(Holding(d)) /\ EventLines(d) \in Int
          /\ logged'[d] = logged[d] /\ logged[d] \in Nat
      BY <1>3, SeriesNumbers DEF EventSums, EventInv
    <2>2. CASE d # e
      <3>1. EventLines(d)' = EventLines(d) + 0
        BY <1>2, <1>4, <2>2
      <3> QED
        BY <1>5, <2>1, <2>2, <3>1
    <2>3. CASE d = e
      <3>1. EventLines(d)' = EventLines(d) + 1
        BY <1>2, <1>4, <2>3
      <3> QED
        BY <1>5, <2>1, <2>3, <3>1
    <2> QED
      BY <2>2, <2>3
  <1> QED
    BY <1>6 DEF EventSums

\* A step that concerns no event.
LEMMA SumsKept ==
    ASSUME EventSums, UNCHANGED <<event, logged>>,
           \A e \in EventTypes : EventLines(e)' = EventLines(e)
    PROVE  EventSums'
  BY DEF EventSums, Holding

LEMMA NoneHolding ==
    ASSUME NEW ev, ev = [t \in Threads |-> None]
    PROVE  \A e \in EventTypes : Cardinality({t \in Threads : ev[t] = e}) = 0
  <1>1. \A e \in EventTypes : {t \in Threads : ev[t] = e} = {}
    BY TelemetryAssumption
  <1> QED
    BY <1>1, FS_EmptySet

LEMMA SumsNext ==
    ASSUME SeriesTypes, EventSums, CountInv, EventInv, [Next]_vars
    PROVE  EventSums'
  <1>1. ASSUME NEW s \in Pushable, s.name # "events_total", metrics' = WithSample(s),
               UNCHANGED eventVars
        PROVE  EventSums'
    <2>1. \A e \in EventTypes : EventLines(e)' = EventLines(e) + Adds(s, "events_total", {e})
      BY <1>1, SeriesMore
    <2>2. \A e \in EventTypes : EventLines(e)' = EventLines(e)
      <3>1. \A e \in EventTypes : Adds(s, "events_total", {e}) = 0
        BY <1>1, OtherName
      <3>2. ASSUME NEW e \in EventTypes
            PROVE  EventLines(e)' = EventLines(e)
        <4>1. EventLines(e)' = EventLines(e) + 0
          BY <2>1, <3>1
        <4>2. EventLines(e) \in Int
          BY SeriesNumbers
        <4> QED
          BY <4>1, <4>2
      <3> QED
        BY <3>2
    <2> QED
      BY <1>1, <2>2, SumsKept DEF eventVars
  <1>2. CASE JobCounted
    BY <1>1, <1>2, StartedSample DEF JobCounted, counter
  <1>3. CASE Completed
    BY <1>1, <1>3, CompletedSample DEF Completed, counter
  <1>4. CASE Duration
    BY <1>1, <1>4, DurationSample DEF Duration, histogram
  <1>5. CASE GaugeCompleted \/ GaugeFailed
    <2>1. tally.completed \in Nat /\ tally.failed \in Nat
      BY DEF CountInv
    <2> QED
      BY <1>1, <1>5, <2>1, GaugeSample DEF GaugeCompleted, GaugeFailed, gauge
  <1>6. CASE GivenArg \/ Parse \/ StartServer \/ Connect \/ Shutdown \/ JobLogged \/ Output
             \/ Verdict \/ LogUser \/ UNCHANGED vars
    <2>1. UNCHANGED <<metrics, event, logged>>
      BY <1>6 DEF GivenArg, Parse, StartServer, Connect, Shutdown, JobLogged, Output, Verdict,
                  LogUser, Log, vars, exporterVars, eventVars
    <2> QED
      BY <2>1, SeriesSame, SumsKept
  <1>7. CASE Leave
    <2>1. /\ metrics' = <<>> /\ event' = [t \in Threads |-> None]
          /\ logged' = [e \in EventTypes |-> 0]
      BY <1>7 DEF Leave
    <2>2. \A e \in EventTypes : EventLines(e)' = 0
      BY <2>1, EmptySeriesNext
    <2>3. \A e \in EventTypes : Cardinality(Holding(e)') = 0 /\ logged'[e] = 0
      BY <2>1, NoneHolding DEF Holding
    <2> QED
      BY <2>2, <2>3 DEF EventSums
  <1> QED
    BY <1>2, <1>3, <1>4, <1>5, <1>6, <1>7, LoggedSums, CountedSums DEF Next

LEMMA MetricsStart == Init => SeriesTypes /\ SeriesInv /\ EventSums
  <1> SUFFICES ASSUME Init
               PROVE  SeriesTypes /\ SeriesInv /\ EventSums
    OBVIOUS
  <1>1. /\ metrics = <<>> /\ at = "args" /\ tally.completed = 0 /\ tally.failed = 0
        /\ event = [t \in Threads |-> None] /\ logged = [e \in EventTypes |-> 0]
    BY DEF Init, MetricsInit
  <1>2. SeriesInv
    BY <1>1, EmptySeries DEF SeriesInv, Judging
  <1>3. \A e \in EventTypes : Cardinality(Holding(e)) = 0 /\ logged[e] = 0
    BY <1>1, NoneHolding DEF Holding
  <1> QED
    BY <1>1, <1>2, <1>3, EmptySeries DEF EventSums

\* What the invariant says of the metrics.
LEMMA MetricsFollow ==
    ASSUME SeriesTypes, SeriesInv, EventSums, CountInv
    PROVE  MetricsAgree
  <1>1. /\ \A name, labels : LinesPrinted(name, labels) = RowsOf(metrics, name, labels)
        /\ \A name : Samples(name) = PlacesOf(metrics, name)
    BY DEF LinesPrinted, RowsOf, Samples, PlacesOf
  <1>2. EventsAgree
    BY <1>1 DEF EventSums, EventLines, LinesOf, Holding, EventsAgree
  <1>3. SeriesAgree
    <2>1. StartedCount - CompletedLines \in {0, 1} /\ CompletedLines - TimedCount \in {0, 1}
      BY SeriesNumbers DEF SeriesInv
    <2>2. at = "poll" => PassedGauge = PassedLines /\ FailedGauge = FailedLines
      <3>1. tally.completed \in Nat /\ tally.failed \in Nat
        BY DEF CountInv
      <3>2. at = "poll" => ~Judging
        BY DEF Judging
      <3> QED
        BY <3>1, <3>2 DEF SeriesInv
    <2>3. \A i \in DOMAIN metrics : metrics[i].type = "counter" => metrics[i].value = 1
      <3>1. \A s \in Pushable : s.type = "counter" => s.value = 1
        BY DEF Pushable
      <3>2. \A i \in DOMAIN metrics : metrics[i] \in Pushable
        BY DEF SeriesTypes
      <3> QED
        BY <3>1, <3>2
    <2> QED
      BY <1>1, <2>1, <2>2, <2>3, Zenon
         DEF SeriesAgree, LinesOf, StartedCount, TimedCount, CompletedLines, PassedLines, FailedLines,
             PassedGauge, FailedGauge, LatestOf
  <1>4. TypesTruthful
    <2>1. \A i \in DOMAIN metrics : metrics[i].type = MetricTypes[metrics[i].name]
      <3>1. \A s \in Pushable : s.type = MetricTypes[s.name]
        BY DEF Pushable
      <3>2. \A i \in DOMAIN metrics : metrics[i] \in Pushable
        BY DEF SeriesTypes
      <3> QED
        BY <3>1, <3>2, Zenon
    <2>2. ASSUME NEW name \in {metrics[i].name : i \in DOMAIN metrics}
          PROVE  /\ Samples(name) # {} /\ Samples(name) \subseteq Nat
                 /\ \A i \in Samples(name) : i \in DOMAIN metrics /\ metrics[i].name = name
      BY DEF Samples, SeriesTypes
    <2>3. ASSUME NEW name \in {metrics[i].name : i \in DOMAIN metrics},
                 NEW i \in Samples(name)
          PROVE  metrics[i].type = metrics[Min(Samples(name))].type
      <3>1. Min(Samples(name)) \in Samples(name)
        BY <2>2, Smallest
      <3> QED
        BY <2>1, <2>2, <3>1
    <2> QED
      BY <2>3 DEF TypesTruthful, render_prometheus
  <1> QED
    BY <1>2, <1>3, <1>4 DEF MetricsAgree

\* Between any two steps of any thread, for any number of jobs, events and
\* threads: the lines of an event type are fewer than its log entries by the
\* callbacks under way, the series of the jobs fit together line by line, every
\* counter line says 1, and each name has one type (main.cpp:175-187, 234-271,
\* metrics.cpp:56-77).
THEOREM MetricsAlwaysAgree == Spec => []MetricsAgree
  <1> DEFINE Inv == TelemetryInv /\ SeriesTypes /\ SeriesInv /\ EventSums
  <1>1. Init => Inv
    BY TelemetryInit, MetricsStart
  <1>2. Inv /\ [Next]_vars => Inv'
    BY TelemetryParts, TelemetryNext, SeriesNext, SumsNext
  <1>3. Inv => MetricsAgree
    BY TelemetryParts, MetricsFollow
  <1> QED
    BY <1>1, <1>2, <1>3, PTL DEF Spec
=============================================================================
