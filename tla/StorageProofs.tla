--------------------------- MODULE StorageProofs ---------------------------
(***************************************************************************)
(* Theorems about what becomes of task events on their way into ClickHouse *)
(* and back.  RetryBuffer: where a batch is, how often ClickHouse has it   *)
(* and how often it was counted.  EventStore, TaskQueries, Dashboards and  *)
(* AlertConditions: what the store holds, what its views sum, what a list  *)
(* shows, what the pages count and what an alert takes from that.          *)
(***************************************************************************)
EXTENDS RetryBuffer, AlertConditions, SequenceTheorems, FiniteSetTheorems, TLAPS

-----------------------------------------------------------------------------
(* The retry buffer.                                                       *)

\* A batch the list or the drain holds.
Held(b) == b \in ToSet(buffer) \cup ToSet(hand)

\* A batch whose replay is stored and not counted yet.
Replayed(b) == drPc = "count" /\ b \in ToSet(hand)

\* A batch is held once at most, in the list or by the drain, and the batches
\* that wait for a trim can be counted.
Placed ==
    /\ IsInjective(buffer) /\ IsInjective(hand)
    /\ ToSet(buffer) \cap ToSet(hand) = {}
    /\ Len(hand) <= DrainPerCycle
    /\ IsFiniteSet(Untrimmed)

\* A batch held was pushed, one about to be counted as dropped although it is
\* held was not heard of, and one whose trim never came is beyond it.
StageInv(b) ==
    /\ Held(b) => /\ stage[b] \in {"trim", "drop", "done", "stopped"}
                  /\ stage[b] = "drop" => b \in unheard
    /\ b \in untrimmed => stage[b] \in {"drop", "done", "stopped"}

\* A batch still to be inserted has only the copies nobody heard of, and one
\* that was inserted is there.
CopiesInv(b) ==
    /\ \/ stage[b] \in {"waiting", "first", "second", "push"}
       \/ Held(b) /\ ~Replayed(b)
       => stored[b] <= unanswered[b]
    /\ stage[b] = "count" \/ Replayed(b) => stored[b] > 0
    /\ stored[b] <= 1 + unanswered[b]

\* A batch whose push went unheard may have been counted as dropped for it.
Twice(b) == IF b \in unheard /\ stage[b] # "drop" THEN 1 ELSE 0

\* Nothing is counted of a batch before its push or its insert, nor, unless its
\* push went unheard, of one that is held; afterwards it is counted once.
CountsInv(b) ==
    /\ stage[b] \in {"waiting", "first", "second", "push", "count"}
       => inserted[b] = 0 /\ dropped[b] = 0 /\ b \notin unheard
    /\ stage[b] = "trim" => b \notin unheard
    /\ stage[b] = "drop" /\ b \notin unheard => inserted[b] = 0 /\ dropped[b] = 0
    /\ Held(b) => inserted[b] = 0 /\ dropped[b] <= Twice(b)
    /\ inserted[b] + dropped[b] <= 1 + Twice(b)
    /\ stage[b] \in {"trim", "done"} \/ (stage[b] = "drop" /\ b \in unheard)
       => b \in lost \/ stored[b] > 0 \/ dropped[b] > 0 \/ Held(b)

BatchInv(b) == StageInv(b) /\ CopiesInv(b) /\ CountsInv(b)

IInv == TypeOK /\ Placed /\ \A b \in Batches : BatchInv(b)

-----------------------------------------------------------------------------
(* Lists.                                                                  *)

\* The elements of a list, by position.
LEMMA Elements ==
    ASSUME NEW S, NEW s \in Seq(S)
    PROVE  /\ Len(s) \in Nat /\ DOMAIN s = 1 .. Len(s)
           /\ \A i \in 1 .. Len(s) : s[i] \in S /\ s[i] \in ToSet(s)
           /\ ToSet(s) \subseteq S
           /\ \A x \in ToSet(s) : \E i \in 1 .. Len(s) : s[i] = x
           /\ s = <<>> <=> ToSet(s) = {}
           /\ s = <<>> <=> Len(s) = 0
<1>1. Len(s) \in Nat /\ DOMAIN s = 1 .. Len(s) /\ \A i \in 1 .. Len(s) : s[i] \in S
  BY LenProperties, ElementOfSeq
<1>2. s = <<>> <=> Len(s) = 0
  BY EmptySeq
<1>3. \A i \in 1 .. Len(s) : s[i] \in ToSet(s)
  BY <1>1 DEF ToSet
<1>4. \A x \in ToSet(s) : \E i \in 1 .. Len(s) : s[i] = x
  BY <1>1 DEF ToSet
<1>5. Len(s) # 0 => ToSet(s) # {}
  <2>1. Len(s) # 0 => 1 \in 1 .. Len(s)
    BY <1>1
  <2> QED
    BY <1>3, <2>1
<1>6. Len(s) = 0 => ToSet(s) = {}
  BY <1>4
<1>7. ToSet(s) \subseteq S
  BY <1>1, <1>4
<1> QED
  BY <1>1, <1>2, <1>3, <1>4, <1>5, <1>6, <1>7

\* A piece of a list without repetitions.
LEMMA Piece ==
    ASSUME NEW S, NEW s \in Seq(S), NEW m \in Nat \ {0}, NEW n \in Nat, n <= Len(s), m <= n + 1
    PROVE  /\ SubSeq(s, m, n) \in Seq(S) /\ Len(SubSeq(s, m, n)) = n - m + 1
           /\ \A i \in 1 .. n - m + 1 : SubSeq(s, m, n)[i] = s[m + i - 1]
           /\ ToSet(SubSeq(s, m, n)) = {s[i] : i \in m .. n}
           /\ IsInjective(s) => IsInjective(SubSeq(s, m, n))
<1> DEFINE p == SubSeq(s, m, n)
<1>1. Len(s) \in Nat /\ DOMAIN s = 1 .. Len(s) /\ \A i \in 1 .. Len(s) : s[i] \in S
  BY Elements
<1>2. \A i \in m .. n : s[i] \in S
  BY <1>1
<1>3. /\ p \in Seq(S) /\ Len(p) = n - m + 1
      /\ \A i \in 1 .. n - m + 1 : p[i] = s[m + i - 1]
  BY <1>1, <1>2, SubSeqProperties
<1> HIDE DEF p
<1>4. DOMAIN p = 1 .. n - m + 1
  BY <1>1, <1>3, Elements
<1>5. ToSet(p) = {s[i] : i \in m .. n}
  <2>1. ASSUME NEW i \in m .. n PROVE i - m + 1 \in DOMAIN p /\ p[i - m + 1] = s[i]
    BY <1>3, <1>4
  <2>2. ASSUME NEW i \in DOMAIN p PROVE m + i - 1 \in m .. n /\ p[i] = s[m + i - 1]
    BY <1>3, <1>4
  <2>3. ToSet(p) \subseteq {s[i] : i \in m .. n}
    BY <2>2 DEF ToSet
  <2>4. {s[i] : i \in m .. n} \subseteq ToSet(p)
    BY <2>1 DEF ToSet
  <2> QED
    BY <2>3, <2>4
<1>6. IsInjective(s) => IsInjective(p)
  <2> SUFFICES ASSUME IsInjective(s), NEW i \in DOMAIN p, NEW j \in DOMAIN p, p[i] = p[j]
               PROVE  i = j
    BY DEF IsInjective
  <2>1. /\ m + i - 1 \in DOMAIN s /\ m + j - 1 \in DOMAIN s
        /\ p[i] = s[m + i - 1] /\ p[j] = s[m + j - 1]
    BY <1>1, <1>3, <1>4
  <2>2. m + i - 1 = m + j - 1
    BY <2>1 DEF IsInjective
  <2> QED
    BY <1>4, <2>2
<1> QED
  BY <1>3, <1>5, <1>6 DEF p

\* Two lists, one after the other.
LEMMA Joined ==
    ASSUME NEW S, NEW s \in Seq(S), NEW t \in Seq(S)
    PROVE  /\ s \o t \in Seq(S) /\ Len(s \o t) = Len(s) + Len(t)
           /\ ToSet(s \o t) = ToSet(s) \cup ToSet(t)
           /\ IsInjective(s) /\ IsInjective(t) /\ ToSet(s) \cap ToSet(t) = {}
              => IsInjective(s \o t)
<1> DEFINE c == s \o t
<1>1. /\ Len(s) \in Nat /\ DOMAIN s = 1 .. Len(s) /\ Len(t) \in Nat /\ DOMAIN t = 1 .. Len(t)
  BY Elements
<1>2. /\ c \in Seq(S) /\ Len(c) = Len(s) + Len(t)
      /\ \A i \in 1 .. Len(s) + Len(t) : c[i] = IF i <= Len(s) THEN s[i] ELSE t[i - Len(s)]
  BY ConcatProperties
<1> HIDE DEF c
<1>3. DOMAIN c = 1 .. Len(s) + Len(t)
  BY <1>2, Elements
<1>4. \A i \in DOMAIN c : \/ i \in DOMAIN s /\ c[i] = s[i]
                          \/ i > Len(s) /\ i - Len(s) \in DOMAIN t /\ c[i] = t[i - Len(s)]
  BY <1>1, <1>2, <1>3
<1>5. /\ \A i \in DOMAIN s : i \in DOMAIN c /\ c[i] = s[i]
      /\ \A i \in DOMAIN t : i + Len(s) \in DOMAIN c /\ c[i + Len(s)] = t[i]
  BY <1>1, <1>2, <1>3
<1>6. ToSet(c) = ToSet(s) \cup ToSet(t)
  BY <1>4, <1>5 DEF ToSet
<1>7. IsInjective(s) /\ IsInjective(t) /\ ToSet(s) \cap ToSet(t) = {} => IsInjective(c)
  <2> SUFFICES ASSUME IsInjective(s), IsInjective(t), ToSet(s) \cap ToSet(t) = {},
                      NEW i \in DOMAIN c, NEW j \in DOMAIN c, c[i] = c[j]
               PROVE  i = j
    BY DEF IsInjective
  <2>1. CASE i \in DOMAIN s /\ c[i] = s[i] /\ j \in DOMAIN s /\ c[j] = s[j]
    BY <2>1 DEF IsInjective
  <2>2. CASE /\ i - Len(s) \in DOMAIN t /\ c[i] = t[i - Len(s)]
             /\ j - Len(s) \in DOMAIN t /\ c[j] = t[j - Len(s)]
    <3>1. i - Len(s) = j - Len(s)
      BY <2>2 DEF IsInjective
    <3> QED
      BY <1>1, <1>3, <3>1
  <2>3. CASE i \in DOMAIN s /\ c[i] = s[i] /\ j - Len(s) \in DOMAIN t /\ c[j] = t[j - Len(s)]
    BY <2>3 DEF ToSet
  <2>4. CASE j \in DOMAIN s /\ c[j] = s[j] /\ i - Len(s) \in DOMAIN t /\ c[i] = t[i - Len(s)]
    BY <2>4 DEF ToSet
  <2> QED
    BY <1>4, <2>1, <2>2, <2>3, <2>4
<1> QED
  BY <1>2, <1>6, <1>7 DEF c

\* A list, last first.
LEMMA Reversed ==
    ASSUME NEW S, NEW s \in Seq(S)
    PROVE  /\ Reverse(s) \in Seq(S) /\ Len(Reverse(s)) = Len(s)
           /\ ToSet(Reverse(s)) = ToSet(s)
           /\ IsInjective(s) => IsInjective(Reverse(s))
<1> DEFINE r == Reverse(s)
<1>1. Len(s) \in Nat /\ DOMAIN s = 1 .. Len(s) /\ \A i \in 1 .. Len(s) : s[i] \in S
  BY Elements
<1>2. DOMAIN r = 1 .. Len(s) /\ \A i \in 1 .. Len(s) : r[i] = s[(Len(s) - i) + 1]
  BY DEF Reverse
<1>3. \A i \in 1 .. Len(s) : (Len(s) - i) + 1 \in 1 .. Len(s)
  BY <1>1
<1>4. r \in [1 .. Len(s) -> S]
  BY <1>1, <1>3 DEF Reverse
<1> HIDE DEF r
<1>5. r \in Seq(S) /\ Len(r) = Len(s)
  BY <1>1, <1>4, IsASeq, LenProperties
<1>6. ToSet(r) = ToSet(s)
  <2>1. ASSUME NEW i \in DOMAIN s PROVE \E j \in DOMAIN r : r[j] = s[i]
    <3>1. (Len(s) - i) + 1 \in DOMAIN r /\ (Len(s) - ((Len(s) - i) + 1)) + 1 = i
      BY <1>1, <1>2
    <3> QED
      BY <1>2, <3>1
  <2>2. ASSUME NEW i \in DOMAIN r PROVE \E j \in DOMAIN s : r[i] = s[j]
    BY <1>1, <1>2, <1>3
  <2> QED
    BY <2>1, <2>2 DEF ToSet
<1>7. IsInjective(s) => IsInjective(r)
  <2> SUFFICES ASSUME IsInjective(s), NEW i \in DOMAIN r, NEW j \in DOMAIN r, r[i] = r[j]
               PROVE  i = j
    BY DEF IsInjective
  <2>1. (Len(s) - i) + 1 = (Len(s) - j) + 1
    BY <1>1, <1>2, <1>3 DEF IsInjective
  <2> QED
    BY <1>1, <1>2, <2>1
<1> QED
  BY <1>5, <1>6, <1>7 DEF r

\* A list without repetitions, less one of its places.
LEMMA Removed ==
    ASSUME NEW S, NEW s \in Seq(S), IsInjective(s), NEW i \in DOMAIN s
    PROVE  /\ RemoveAt(s, i) \in Seq(S) /\ Len(RemoveAt(s, i)) = Len(s) - 1
           /\ ToSet(RemoveAt(s, i)) = ToSet(s) \ {s[i]}
           /\ IsInjective(RemoveAt(s, i))
<1> DEFINE p == SubSeq(s, 1, i - 1)
           q == SubSeq(s, i + 1, Len(s))
<1>1. Len(s) \in Nat /\ DOMAIN s = 1 .. Len(s) /\ i \in 1 .. Len(s)
  BY Elements
<1>2. /\ p \in Seq(S) /\ Len(p) = (i - 1) - 1 + 1
      /\ ToSet(p) = {s[j] : j \in 1 .. i - 1} /\ IsInjective(p)
  <2>1. 1 \in Nat \ {0} /\ i - 1 \in Nat /\ i - 1 <= Len(s) /\ 1 <= (i - 1) + 1
    BY <1>1
  <2> QED
    BY <2>1, Piece
<1>3. /\ q \in Seq(S) /\ Len(q) = Len(s) - (i + 1) + 1
      /\ ToSet(q) = {s[j] : j \in i + 1 .. Len(s)} /\ IsInjective(q)
  <2>1. i + 1 \in Nat \ {0} /\ Len(s) \in Nat /\ Len(s) <= Len(s) /\ i + 1 <= Len(s) + 1
    BY <1>1
  <2> QED
    BY <2>1, Piece
<1> HIDE DEF p, q
<1>4. ToSet(p) \cap ToSet(q) = {}
  <2>1. \A j \in 1 .. i - 1, k \in i + 1 .. Len(s) : s[j] # s[k]
    BY <1>1 DEF IsInjective
  <2> QED
    BY <1>2, <1>3, <2>1
<1>5. ToSet(p) \cup ToSet(q) = ToSet(s) \ {s[i]}
  <2>1. \A j \in DOMAIN s : j = i \/ j \in 1 .. i - 1 \/ j \in i + 1 .. Len(s)
    BY <1>1
  <2>2. \A j \in DOMAIN s \ {i} : s[j] # s[i]
    BY DEF IsInjective
  <2>3. \A j \in (1 .. i - 1) \cup (i + 1 .. Len(s)) : j \in DOMAIN s \ {i}
    BY <1>1
  <2>4. ToSet(s) \ {s[i]} \subseteq ToSet(p) \cup ToSet(q)
    BY <1>2, <1>3, <2>1 DEF ToSet
  <2>5. \A j \in DOMAIN s \ {i} : s[j] \in ToSet(s) \ {s[i]}
    BY <2>2 DEF ToSet
  <2>6. ToSet(p) \cup ToSet(q) \subseteq ToSet(s) \ {s[i]}
    BY <1>2, <1>3, <2>3, <2>5
  <2> QED
    BY <2>4, <2>6
<1>6. RemoveAt(s, i) = p \o q
  BY DEF RemoveAt, p, q
<1>7. Len(p) + Len(q) = Len(s) - 1
  BY <1>1, <1>2, <1>3
<1>8. /\ p \o q \in Seq(S) /\ Len(p \o q) = Len(p) + Len(q)
      /\ ToSet(p \o q) = ToSet(p) \cup ToSet(q) /\ IsInjective(p \o q)
  <2>1. p \in Seq(S) /\ q \in Seq(S) /\ IsInjective(p) /\ IsInjective(q)
    BY <1>2, <1>3
  <2> QED
    BY <1>4, <2>1, Joined
<1> QED
  BY <1>5, <1>6, <1>7, <1>8

-----------------------------------------------------------------------------
(* The Redis list.                                                         *)

\* A batch pushed is the only one the list gains.
LEMMA Pushed ==
    ASSUME buffer \in Seq(Batches), IsInjective(buffer), NEW b \in Batches, b \notin ToSet(buffer)
    PROVE  /\ <<b>> \o buffer \in Seq(Batches) /\ IsInjective(<<b>> \o buffer)
           /\ Len(<<b>> \o buffer) = Len(buffer) + 1
           /\ ToSet(<<b>> \o buffer) = ToSet(buffer) \cup {b}
<1> DEFINE one == <<b>>
<1>1. one \in Seq(Batches) /\ ToSet(one) = {b} /\ IsInjective(one) /\ Len(one) = 1
  BY DEF ToSet, IsInjective
<1> HIDE DEF one
<1>2. Len(buffer) \in Nat
  BY Elements
<1>3. ToSet(one) \cap ToSet(buffer) = {}
  BY <1>1
<1>4. PICK s \in Seq(Batches), t \in Seq(Batches) :
         s = one /\ t = buffer /\ IsInjective(s) /\ IsInjective(t) /\ ToSet(s) \cap ToSet(t) = {}
  BY <1>1, <1>3
<1>5. /\ s \o t \in Seq(Batches) /\ IsInjective(s \o t) /\ Len(s \o t) = Len(s) + Len(t)
      /\ ToSet(s \o t) = ToSet(s) \cup ToSet(t)
  BY <1>4, Joined
<1> QED
  BY <1>1, <1>2, <1>4, <1>5 DEF one

\* A trimmed list is within its length, and who is in it no more is lost.
LEMMA Trimmed ==
    ASSUME buffer \in Seq(Batches), IsInjective(buffer), TrimBuffer
    PROVE  /\ buffer' \in Seq(Batches) /\ IsInjective(buffer') /\ Len(buffer') <= MaxQueueLen
           /\ ToSet(buffer') \subseteq ToSet(buffer)
           /\ lost' = lost \cup (ToSet(buffer) \ ToSet(buffer'))
           /\ untrimmed' = {}
<1> DEFINE n == IF Len(buffer) < MaxQueueLen THEN Len(buffer) ELSE MaxQueueLen
<1>1. Len(buffer) \in Nat /\ DOMAIN buffer = 1 .. Len(buffer) /\ MaxQueueLen \in Nat \ {0}
  BY Elements, BufferAssumption
<1>2. /\ buffer' = SubSeq(buffer, 1, n) /\ untrimmed' = {}
      /\ lost' = lost \cup (ToSet(buffer) \ ToSet(buffer'))
  BY DEF TrimBuffer, Trim
<1>3. n \in Nat /\ n <= Len(buffer) /\ n <= MaxQueueLen /\ 1 \in Nat \ {0} /\ 1 <= n + 1
  BY <1>1
<1> HIDE DEF n
<1>4. /\ buffer' \in Seq(Batches) /\ Len(buffer') = n - 1 + 1 /\ IsInjective(buffer')
      /\ ToSet(buffer') = {buffer[i] : i \in 1 .. n}
  BY <1>2, <1>3, Piece
<1>5. ToSet(buffer') \subseteq ToSet(buffer)
  <2>1. \A i \in 1 .. n : i \in DOMAIN buffer
    BY <1>1, <1>3
  <2>2. {buffer[i] : i \in 1 .. n} \subseteq ToSet(buffer)
    BY <2>1 DEF ToSet
  <2> QED
    BY <1>4, <2>2
<1> QED
  BY <1>1, <1>2, <1>3, <1>4, <1>5

\* What the drain pops and what it leaves are the list.
LEMMA Pops ==
    ASSUME TypeOK, IsInjective(buffer), PopCount > 0
    PROVE  /\ Remaining \in Seq(Batches) /\ IsInjective(Remaining)
           /\ Popped \in Seq(Batches) /\ IsInjective(Popped)
           /\ ToSet(Remaining) \cup ToSet(Popped) = ToSet(buffer)
           /\ ToSet(Remaining) \cap ToSet(Popped) = {}
           /\ Len(Remaining) + Len(Popped) = Len(buffer)
           /\ Len(Popped) <= DrainPerCycle /\ Popped # <<>>
<1> DEFINE m == Len(buffer) - PopCount
           tail == SubSeq(buffer, m + 1, Len(buffer))
<1>1. buffer \in Seq(Batches) /\ DrainPerCycle \in Nat \ {0}
  BY BufferAssumption DEF TypeOK
<1>2. Len(buffer) \in Nat /\ DOMAIN buffer = 1 .. Len(buffer)
  BY <1>1, Elements
<1>3. /\ PopCount \in Nat /\ PopCount <= DrainPerCycle /\ PopCount <= Len(buffer)
      /\ m \in Nat /\ m <= Len(buffer) /\ 1 <= m + 1 /\ 1 \in Nat \ {0}
      /\ m + 1 \in Nat \ {0} /\ Len(buffer) <= Len(buffer) /\ m + 1 <= Len(buffer) + 1
  <2>1. PopCount \in Nat /\ PopCount <= DrainPerCycle /\ PopCount <= Len(buffer)
    BY <1>1, <1>2 DEF PopCount
  <2> QED
    BY <1>2, <2>1
<1>4. Remaining = SubSeq(buffer, 1, m) /\ Popped = Reverse(tail)
  BY DEF Remaining, Popped
<1> HIDE DEF m
<1>5. /\ Remaining \in Seq(Batches) /\ Len(Remaining) = m - 1 + 1 /\ IsInjective(Remaining)
      /\ ToSet(Remaining) = {buffer[i] : i \in 1 .. m}
  BY <1>1, <1>3, <1>4, Piece
<1>6. /\ tail \in Seq(Batches) /\ Len(tail) = Len(buffer) - (m + 1) + 1 /\ IsInjective(tail)
      /\ ToSet(tail) = {buffer[i] : i \in m + 1 .. Len(buffer)}
  <2>1. /\ m + 1 \in Nat \ {0} /\ Len(buffer) \in Nat /\ Len(buffer) <= Len(buffer)
        /\ m + 1 <= Len(buffer) + 1
    BY <1>2, <1>3
  <2> QED
    BY <1>1, <2>1, Piece
<1> HIDE DEF tail
<1>7. /\ Popped \in Seq(Batches) /\ Len(Popped) = Len(tail) /\ IsInjective(Popped)
      /\ ToSet(Popped) = ToSet(tail)
  BY <1>4, <1>6, Reversed
<1>8. ToSet(Remaining) \cup ToSet(Popped) = ToSet(buffer)
  <2>1. \A i \in DOMAIN buffer : i \in 1 .. m \/ i \in m + 1 .. Len(buffer)
    BY <1>2, <1>3
  <2>2. \A i \in (1 .. m) \cup (m + 1 .. Len(buffer)) : i \in DOMAIN buffer
    BY <1>2, <1>3
  <2>3. ToSet(buffer) \subseteq ToSet(Remaining) \cup ToSet(Popped)
    BY <1>5, <1>6, <1>7, <2>1 DEF ToSet
  <2>4. ToSet(Remaining) \cup ToSet(Popped) \subseteq {buffer[i] : i \in DOMAIN buffer}
    BY <1>5, <1>6, <1>7, <2>2
  <2> QED
    BY <2>3, <2>4 DEF ToSet
<1>9. ToSet(Remaining) \cap ToSet(Popped) = {}
  <2>1. \A i \in 1 .. m, j \in m + 1 .. Len(buffer) : buffer[i] # buffer[j]
    BY <1>2, <1>3 DEF IsInjective
  <2> QED
    BY <1>5, <1>6, <1>7, <2>1
<1>10. Len(Popped) = PopCount /\ Len(Remaining) = m
  BY <1>2, <1>3, <1>5, <1>6, <1>7 DEF m
<1>11. Popped # <<>>
  BY <1>10, EmptySeq
<1> QED
  BY <1>2, <1>3, <1>5, <1>7, <1>8, <1>9, <1>10, <1>11 DEF m

\* What is put back and what was left are the list.
LEMMA PutBack ==
    ASSUME TypeOK, Placed
    PROVE  /\ Requeued \in Seq(Batches) /\ IsInjective(Requeued)
           /\ ToSet(Requeued) = ToSet(buffer) \cup ToSet(hand)
           /\ Len(Requeued) = Len(buffer) + Len(hand)
<1>1. buffer \in Seq(Batches) /\ hand \in Seq(Batches)
  BY DEF TypeOK
<1>2. /\ Reverse(hand) \in Seq(Batches) /\ Len(Reverse(hand)) = Len(hand)
      /\ ToSet(Reverse(hand)) = ToSet(hand) /\ IsInjective(Reverse(hand))
  BY <1>1, Reversed DEF Placed
<1>3. Len(buffer) \in Nat /\ Len(hand) \in Nat
  BY <1>1, Elements
<1> QED
  BY <1>1, <1>2, <1>3, Joined DEF Requeued, Placed

\* An empty list holds nothing.
LEMMA Nothing ==
    /\ <<>> \in Seq(Batches) /\ ToSet(<<>>) = {} /\ IsInjective(<<>>) /\ Len(<<>>) = 0
  BY EmptySeq DEF ToSet, IsInjective

-----------------------------------------------------------------------------
(* Counters.                                                               *)

LEMMA BatchCounted ==
    ASSUME NEW f \in [Batches -> Nat], NEW S
    PROVE  /\ OneMore(f, S) \in [Batches -> Nat]
           /\ \A b \in Batches : OneMore(f, S)[b] = IF b \in S THEN f[b] + 1 ELSE f[b]
  BY DEF OneMore

LEMMA FaultsBounded ==
    ASSUME TypeOK, NoFault \/ \E kind \in FaultKinds : Fault(kind)
    PROVE  faultsLeft' \in 0 .. MaxFaults
  BY BufferAssumption DEF TypeOK, NoFault, Fault

\* An insert: each batch of it is stored or not, heard of or not.
LEMMA Inserting ==
    ASSUME TypeOK, NEW S, InsertOk(S) \/ InsertFails(S)
    PROVE  /\ stored' \in [Batches -> Nat] /\ unanswered' \in [Batches -> Nat]
           /\ faultsLeft' \in 0 .. MaxFaults
           /\ \A b \in Batches : b \notin S => stored'[b] = stored[b] /\ unanswered'[b] = unanswered[b]
           /\ \A b \in S \cap Batches :
                 \/ InsertOk(S) /\ stored'[b] = stored[b] + 1 /\ unanswered'[b] = unanswered[b]
                 \/ InsertFails(S) /\ stored'[b] = stored[b] /\ unanswered'[b] = unanswered[b]
                 \/ InsertFails(S) /\ stored'[b] = stored[b] + 1 /\ unanswered'[b] = unanswered[b] + 1
<1>1. stored \in [Batches -> Nat] /\ unanswered \in [Batches -> Nat]
  BY DEF TypeOK
<1>2. CASE InsertOk(S)
  <2>1. stored' = OneMore(stored, S) /\ unanswered' = unanswered /\ NoFault
    BY <1>2 DEF InsertOk
  <2> QED
    BY <1>1, <1>2, <2>1, BatchCounted, FaultsBounded
<1>3. CASE InsertFails(S)
  <2>1. CASE stored' = stored /\ unanswered' = unanswered /\ NoFault
    BY <1>1, <1>3, <2>1, FaultsBounded
  <2>2. CASE /\ stored' = OneMore(stored, S) /\ unanswered' = OneMore(unanswered, S)
             /\ Fault("lost_reply")
    <3>1. faultsLeft' \in 0 .. MaxFaults
      BY <2>2, FaultsBounded DEF FaultKinds
    <3> QED
      BY <1>1, <1>3, <2>2, <3>1, BatchCounted
  <2> QED
    BY <1>3, <2>1, <2>2 DEF InsertFails
<1> QED
  BY <1>2, <1>3

-----------------------------------------------------------------------------
(* Ingestion.                                                              *)

\* The list, the drain and the trims are left alone, and the counters stay
\* counters: every batch but one stays as it is.
LEMMA OneBatch ==
    ASSUME IInv, UNCHANGED <<chUp, buffer, drVars, unheard, untrimmed>>, NEW b \in Batches,
           stage' \in [Batches -> Stages], stage[b] # "trim", stage'[b] # "trim",
           stored' \in [Batches -> Nat], unanswered' \in [Batches -> Nat],
           inserted' \in [Batches -> Nat], dropped' \in [Batches -> Nat],
           faultsLeft' \in 0 .. MaxFaults, lost \subseteq lost', lost' \subseteq lost \cup {b},
           \A q \in Batches \ {b} : /\ stage'[q] = stage[q] /\ stored'[q] = stored[q]
                                    /\ unanswered'[q] = unanswered[q]
                                    /\ inserted'[q] = inserted[q] /\ dropped'[q] = dropped[q],
           BatchInv(b)'
    PROVE  IInv'
<1>1. Untrimmed' = Untrimmed
  <2>1. \A q \in Batches : stage'[q] = "trim" <=> stage[q] = "trim"
    OBVIOUS
  <2> QED
    BY <2>1 DEF Untrimmed
<1>2. TypeOK'
  <2>1. lost' \subseteq Batches
    BY DEF IInv, TypeOK
  <2> QED
    BY <1>1, <2>1 DEF IInv, TypeOK, drVars
<1>3. Placed'
  BY <1>1 DEF IInv, Placed, drVars
<1>4. \A q \in Batches : (Held(q)' <=> Held(q)) /\ (Replayed(q)' <=> Replayed(q))
  BY DEF Held, Replayed, drVars
<1>5. \A q \in Batches \ {b} : BatchInv(q)'
  BY <1>4 DEF IInv, BatchInv, StageInv, CopiesInv, CountsInv, Twice
<1> QED
  BY <1>2, <1>3, <1>5 DEF IInv

LEMMA IngestSteps ==
    ASSUME IInv, NEW b \in Batches,
           Receive(b) \/ Insert(b) \/ InsertError(b) \/ CountInserted(b) \/ CountDropped(b)
    PROVE  IInv'
<1>1. UNCHANGED <<chUp, buffer, drVars, unheard, untrimmed>>
  BY DEF Receive, Insert, InsertError, CountInserted, CountDropped, counts, ghosts
<1>2. /\ TypeOK /\ BatchInv(b)
      /\ stored \in [Batches -> Nat] /\ unanswered \in [Batches -> Nat]
      /\ inserted \in [Batches -> Nat] /\ dropped \in [Batches -> Nat]
      /\ stored[b] \in Nat /\ unanswered[b] \in Nat
      /\ inserted[b] \in Nat /\ dropped[b] \in Nat
  BY DEF IInv, TypeOK
<1>3. (Held(b)' <=> Held(b)) /\ (Replayed(b)' <=> Replayed(b)) /\ (Replayed(b) => Held(b))
  BY <1>1 DEF Held, Replayed, drVars
<1>4. CASE Receive(b)
  <2>1. /\ stage[b] = "waiting" /\ stage' = [stage EXCEPT ![b] = "first"]
        /\ UNCHANGED <<stored, inserted, dropped, faultsLeft, unanswered, lost>>
    BY <1>4 DEF Receive, counts, ghosts
  <2>2. /\ stage' \in [Batches -> Stages] /\ stage'[b] = "first"
        /\ \A q \in Batches \ {b} : stage'[q] = stage[q]
    BY <1>2, <2>1 DEF TypeOK, Stages
  <2>3. ~Held(b)
    BY <1>2, <2>1 DEF BatchInv, StageInv
  <2>4. BatchInv(b)'
    BY <1>1, <1>2, <1>3, <2>1, <2>2, <2>3 DEF BatchInv, StageInv, CopiesInv, CountsInv, Twice
  <2>5. faultsLeft' \in 0 .. MaxFaults
    BY <1>2, <2>1 DEF TypeOK
  <2> QED
    BY <1>1, <1>2, <2>1, <2>2, <2>4, <2>5, OneBatch
<1>5. CASE Insert(b) \/ InsertError(b)
  <2>1. /\ UNCHANGED <<inserted, dropped, lost>> /\ stage[b] \in {"first", "second"}
        /\ InsertOk({b}) \/ InsertFails({b})
    BY <1>5 DEF Insert, InsertError, counts
  <2>2. /\ stored' \in [Batches -> Nat] /\ unanswered' \in [Batches -> Nat]
        /\ faultsLeft' \in 0 .. MaxFaults
        /\ \A q \in Batches \ {b} : stored'[q] = stored[q] /\ unanswered'[q] = unanswered[q]
    BY <1>2, <2>1, Inserting
  <2>3. /\ stage' \in [Batches -> Stages]
        /\ \A q \in Batches \ {b} : stage'[q] = stage[q]
    BY <1>2, <1>5 DEF Insert, InsertError, TypeOK, Stages
  <2>4. \/ /\ stage'[b] = "count"
           /\ stored'[b] = stored[b] + 1 /\ unanswered'[b] = unanswered[b]
        \/ /\ stage'[b] \in {"second", "push"}
           /\ \/ stored'[b] = stored[b] /\ unanswered'[b] = unanswered[b]
              \/ stored'[b] = stored[b] + 1 /\ unanswered'[b] = unanswered[b] + 1
    <3>1. CASE Insert(b)
      <4>1. InsertOk({b}) /\ stage'[b] = "count"
        BY <1>2, <3>1 DEF Insert, TypeOK
      <4>2. stored'[b] = stored[b] + 1 /\ unanswered'[b] = unanswered[b]
        BY <1>2, <4>1, BatchCounted DEF InsertOk
      <4> QED
        BY <4>1, <4>2
    <3>2. CASE InsertError(b)
      <4>1. /\ InsertFails({b})
            /\ stage'[b] = IF stage[b] = "first" THEN "second" ELSE "push"
        BY <1>2, <3>2 DEF InsertError, TypeOK
      <4>2. \/ stored'[b] = stored[b] /\ unanswered'[b] = unanswered[b]
            \/ stored'[b] = stored[b] + 1 /\ unanswered'[b] = unanswered[b] + 1
        BY <1>2, <4>1, BatchCounted DEF InsertFails
      <4> QED
        BY <4>1, <4>2
    <3> QED
      BY <1>5, <3>1, <3>2
  <2>5. ~Held(b)
    BY <1>2, <2>1 DEF BatchInv, StageInv
  <2>6. BatchInv(b)'
    BY <1>1, <1>2, <1>3, <2>1, <2>4, <2>5 DEF BatchInv, StageInv, CopiesInv, CountsInv, Twice
  <2> QED
    BY <1>1, <1>2, <2>1, <2>2, <2>3, <2>4, <2>6, OneBatch
<1>6. CASE CountInserted(b)
  <2>1. /\ stage[b] = "count" /\ stage' = [stage EXCEPT ![b] = "done"]
        /\ UNCHANGED <<stored, unanswered, dropped, lost>>
        /\ \/ NoFault /\ inserted' = OneMore(inserted, {b})
           \/ Fault("count") /\ UNCHANGED inserted
    BY <1>6 DEF CountInserted, ghosts
  <2>2. /\ stage' \in [Batches -> Stages] /\ stage'[b] = "done"
        /\ \A q \in Batches \ {b} : stage'[q] = stage[q]
    BY <1>2, <2>1 DEF TypeOK, Stages
  <2>3. /\ inserted' \in [Batches -> Nat] /\ inserted'[b] \in {inserted[b], inserted[b] + 1}
        /\ \A q \in Batches \ {b} : inserted'[q] = inserted[q]
    BY <1>2, <2>1, BatchCounted
  <2>4. faultsLeft' \in 0 .. MaxFaults
    BY <1>2, <2>1, FaultsBounded DEF FaultKinds
  <2>5. ~Held(b)
    BY <1>2, <2>1 DEF BatchInv, StageInv
  <2>6. BatchInv(b)'
    BY <1>1, <1>2, <1>3, <2>1, <2>2, <2>3, <2>5
       DEF BatchInv, StageInv, CopiesInv, CountsInv, Twice
  <2> QED
    BY <1>1, <1>2, <2>1, <2>2, <2>3, <2>4, <2>6, OneBatch
<1>7. CASE CountDropped(b)
  <2>1. /\ stage[b] = "drop" /\ stage' = [stage EXCEPT ![b] = "done"]
        /\ UNCHANGED <<stored, unanswered, inserted>>
        /\ \/ NoFault /\ dropped' = OneMore(dropped, {b}) /\ UNCHANGED lost
           \/ /\ Fault("count") /\ UNCHANGED dropped
              /\ lost' = IF b \in unheard THEN lost ELSE lost \cup {b}
    BY <1>7 DEF CountDropped
  <2>2. /\ stage' \in [Batches -> Stages] /\ stage'[b] = "done"
        /\ \A q \in Batches \ {b} : stage'[q] = stage[q]
    BY <1>2, <2>1 DEF TypeOK, Stages
  <2>3. /\ dropped' \in [Batches -> Nat]
        /\ \A q \in Batches \ {b} : dropped'[q] = dropped[q]
        /\ \/ dropped'[b] = dropped[b] + 1 /\ lost' = lost
           \/ dropped'[b] = dropped[b] /\ b \in unheard /\ lost' = lost
           \/ dropped'[b] = dropped[b] /\ b \in lost'
        /\ lost \subseteq lost' /\ lost' \subseteq lost \cup {b}
    BY <1>2, <2>1, BatchCounted
  <2>4. faultsLeft' \in 0 .. MaxFaults
    BY <1>2, <2>1, FaultsBounded DEF FaultKinds
  <2>5. StageInv(b)' /\ CopiesInv(b)'
    BY <1>1, <1>2, <1>3, <2>1, <2>2 DEF BatchInv, StageInv, CopiesInv
  <2>6. CountsInv(b)'
    BY <1>1, <1>2, <1>3, <2>1, <2>2, <2>3 DEF BatchInv, StageInv, CountsInv, Twice
  <2>7. BatchInv(b)'
    BY <2>5, <2>6 DEF BatchInv
  <2> QED
    BY <1>1, <1>2, <2>1, <2>2, <2>3, <2>4, <2>7, OneBatch
<1> QED
  BY <1>4, <1>5, <1>6, <1>7

\* A batch ClickHouse refused twice is pushed and the list trimmed, or one of
\* the two commands fails and it is about to be counted as dropped.
LEMMA BufferStep ==
    ASSUME IInv, NEW b \in Batches, Push(b) \/ TrimAfterPush(b)
    PROVE  IInv'
<1>1. /\ TypeOK /\ Placed /\ (\A q \in Batches : BatchInv(q))
      /\ buffer \in Seq(Batches) /\ hand \in Seq(Batches) /\ IsInjective(buffer)
      /\ Len(buffer) \in Nat /\ Len(hand) \in Nat /\ Len(hand) <= DrainPerCycle
      /\ ToSet(buffer) \subseteq Batches /\ lost \subseteq Batches
      /\ MaxQueueLen \in Nat /\ DrainPerCycle \in Nat
      /\ IsFiniteSet(Untrimmed) /\ Cardinality(Untrimmed) \in Nat
  BY Elements, BufferAssumption, FS_CardinalityType DEF IInv, TypeOK, Placed
<1>2. UNCHANGED <<chUp, stored, drVars, counts, unanswered>> /\ stage[b] \in {"push", "trim"}
  BY DEF Push, TrimAfterPush
<1>3. /\ stage' \in [Batches -> Stages] /\ stage'[b] \in {"trim", "drop", "done"}
      /\ \A q \in Batches \ {b} : stage'[q] = stage[q]
      /\ faultsLeft' \in 0 .. MaxFaults
      /\ unheard \subseteq unheard' /\ unheard' \subseteq unheard \cup {b}
  <2>1. faultsLeft' \in 0 .. MaxFaults
    BY <1>1, FaultsBounded DEF Push, TrimAfterPush, FaultKinds
  <2> QED
    BY <1>1, <2>1 DEF Push, TrimAfterPush, TypeOK, Stages
<1>4. \/ stage[b] = "push" => b \notin ToSet(buffer)
  BY <1>1 DEF BatchInv, StageInv, Held
\* how: what becomes of b; trims: what becomes of the list.
<1>5. \/ /\ stage[b] = "push" /\ stage'[b] = "trim" /\ buffer' = <<b>> \o buffer
         /\ UNCHANGED <<untrimmed, lost, unheard>>
      \/ /\ stage[b] = "push" /\ stage'[b] = "drop" /\ UNCHANGED unheard
         /\ TrimBuffer \/ UNCHANGED <<buffer, untrimmed, lost>>
      \/ /\ stage[b] = "trim" /\ stage'[b] = "done" /\ UNCHANGED unheard /\ TrimBuffer
      \/ /\ stage[b] = "trim" /\ stage'[b] = "drop" /\ unheard' = unheard \cup {b}
         /\ \/ TrimBuffer
            \/ untrimmed' = untrimmed \cup {b} /\ UNCHANGED <<buffer, lost>>
  BY <1>1 DEF Push, TrimAfterPush, TypeOK
<1>6. /\ buffer' \in Seq(Batches) /\ IsInjective(buffer')
      /\ ToSet(buffer') \subseteq ToSet(buffer) \cup {b}
      /\ b \in ToSet(buffer') /\ b \notin ToSet(buffer) => stage'[b] = "trim" /\ stage[b] = "push"
      /\ stage'[b] = "trim" => b \in ToSet(buffer')
      /\ lost \subseteq lost' /\ lost' \subseteq Batches
      /\ \A q \in ToSet(buffer) : q \in ToSet(buffer') \/ q \in lost'
  <2>1. CASE stage[b] = "push" /\ stage'[b] = "trim" /\ buffer' = <<b>> \o buffer /\ UNCHANGED lost
    BY <1>1, <1>4, <2>1, Pushed
  <2>2. CASE stage'[b] # "trim" /\ TrimBuffer
    BY <1>1, <2>2, Trimmed
  <2>3. CASE stage'[b] # "trim" /\ UNCHANGED <<buffer, lost>>
    BY <1>1, <2>3
  <2> QED
    BY <1>5, <2>1, <2>2, <2>3
<1>7. /\ IsFiniteSet(Untrimmed') /\ Cardinality(Untrimmed') \in Nat
      /\ Len(buffer') + Len(hand) <= MaxQueueLen + DrainPerCycle + Cardinality(Untrimmed')
      /\ untrimmed' \subseteq untrimmed \cup {b}
      /\ b \in untrimmed' => stage'[b] \in {"drop", "done"}
  <2>0. /\ Len(buffer') \in Nat /\ b \notin untrimmed
        /\ Len(buffer) + Len(hand) <= MaxQueueLen + DrainPerCycle + Cardinality(Untrimmed)
    BY <1>1, <1>2, <1>6, Elements DEF TypeOK, BatchInv, StageInv
  <2>1. CASE /\ stage[b] = "push" /\ stage'[b] = "trim" /\ buffer' = <<b>> \o buffer
             /\ UNCHANGED untrimmed
    <3>1. Untrimmed' = Untrimmed \cup {b} /\ b \notin Untrimmed
      BY <1>3, <2>0, <2>1 DEF Untrimmed
    <3>2. IsFiniteSet(Untrimmed') /\ Cardinality(Untrimmed') = Cardinality(Untrimmed) + 1
      BY <1>1, <3>1, FS_AddElement
    <3>3. Len(buffer') = Len(buffer) + 1
      BY <1>1, <1>4, <2>1, Pushed
    <3> QED
      BY <1>1, <2>0, <2>1, <3>2, <3>3
  <2>2. CASE stage'[b] # "trim" /\ TrimBuffer
    <3>1. Untrimmed' \subseteq Untrimmed /\ Len(buffer') <= MaxQueueLen /\ untrimmed' = {}
      BY <1>1, <1>3, <2>2, Trimmed DEF Untrimmed
    <3>2. IsFiniteSet(Untrimmed') /\ Cardinality(Untrimmed') \in Nat
      BY <1>1, <3>1, FS_Subset, FS_CardinalityType
    <3> QED
      BY <1>1, <2>0, <3>1, <3>2
  <2>3. CASE /\ stage[b] = "push" /\ stage'[b] = "drop" /\ UNCHANGED <<buffer, untrimmed>>
    <3>1. Untrimmed' = Untrimmed
      BY <1>3, <2>3 DEF Untrimmed
    <3> QED
      BY <1>1, <2>0, <2>3, <3>1
  <2>4. CASE /\ stage[b] = "trim" /\ stage'[b] = "drop" /\ untrimmed' = untrimmed \cup {b}
             /\ UNCHANGED buffer
    <3>1. Untrimmed' = Untrimmed
      BY <1>3, <2>4 DEF Untrimmed
    <3> QED
      BY <1>1, <2>0, <2>4, <3>1
  <2> QED
    BY <1>5, <2>1, <2>2, <2>3, <2>4
<1>8. TypeOK'
  <2>1. unheard' \subseteq Batches /\ untrimmed' \subseteq Batches
    BY <1>1, <1>3, <1>7 DEF TypeOK
  <2> QED
    BY <1>1, <1>2, <1>3, <1>6, <1>7, <2>1 DEF TypeOK, drVars, counts
<1>9. Placed'
  <2>1. b \in ToSet(buffer') => b \in ToSet(buffer) \/ b \notin ToSet(hand)
    BY <1>1, <1>6 DEF BatchInv, StageInv, Held
  <2> QED
    BY <1>1, <1>2, <1>6, <1>7, <2>1 DEF Placed, drVars
<1>10. \A q \in Batches : /\ Held(q)' => Held(q) \/ q = b
                          /\ Held(q) => Held(q)' \/ q \in lost'
                          /\ Replayed(q)' <=> Replayed(q)
  BY <1>2, <1>6 DEF Held, Replayed, drVars
<1>11. \A q \in Batches : /\ stored[q] \in Nat /\ unanswered[q] \in Nat
                          /\ inserted[q] \in Nat /\ dropped[q] \in Nat
                          /\ stored'[q] = stored[q] /\ unanswered'[q] = unanswered[q]
                          /\ inserted'[q] = inserted[q] /\ dropped'[q] = dropped[q]
  BY <1>1, <1>2 DEF TypeOK, counts
<1>12. ASSUME NEW q \in Batches \ {b} PROVE BatchInv(q)'
  <2>1. /\ BatchInv(q) /\ stage'[q] = stage[q] /\ (q \in unheard' <=> q \in unheard)
        /\ (q \in untrimmed' => q \in untrimmed) /\ (q \in lost => q \in lost')
    BY <1>1, <1>3, <1>6, <1>7
  <2> QED
    BY <1>10, <1>11, <2>1 DEF BatchInv, StageInv, CopiesInv, CountsInv, Twice
<1>13. BatchInv(b)'
  <2>1. CASE stage[b] = "push" /\ stage'[b] = "trim" /\ unheard' = unheard
    <3>1. ~Held(b) /\ ~Replayed(b) /\ Held(b)' /\ ~Replayed(b)'
      BY <1>1, <1>6, <1>10, <2>1 DEF BatchInv, StageInv, Held, Replayed
    <3>2. StageInv(b)' /\ CopiesInv(b)'
      BY <1>1, <1>7, <1>11, <2>1, <3>1 DEF BatchInv, StageInv, CopiesInv
    <3>3. CountsInv(b)'
      BY <1>1, <1>11, <2>1, <3>1 DEF BatchInv, CountsInv, Twice
    <3> QED
      BY <3>2, <3>3 DEF BatchInv
  <2>2. CASE stage[b] = "push" /\ stage'[b] = "drop" /\ unheard' = unheard
    <3>1. ~Held(b)
      BY <1>1, <2>2 DEF BatchInv, StageInv
    <3>2. ~Held(b)' /\ ~Replayed(b)'
      BY <1>2, <1>6, <2>2, <3>1 DEF Held, Replayed, drVars
    <3>3. StageInv(b)' /\ CopiesInv(b)'
      BY <1>1, <1>7, <1>11, <2>2, <3>2 DEF BatchInv, StageInv, CopiesInv
    <3>4. CountsInv(b)'
      BY <1>1, <1>11, <2>2, <3>2 DEF BatchInv, CountsInv, Twice
    <3> QED
      BY <3>3, <3>4 DEF BatchInv
  <2>3. CASE /\ stage[b] = "trim"
             /\ \/ stage'[b] = "done" /\ unheard' = unheard
                \/ stage'[b] = "drop" /\ unheard' = unheard \cup {b}
    <3>1. Held(b)' => Held(b)
      BY <1>2, <1>6, <2>3 DEF Held, drVars
    <3>2. StageInv(b)' /\ CopiesInv(b)'
      BY <1>1, <1>7, <1>10, <1>11, <2>3, <3>1 DEF BatchInv, StageInv, CopiesInv
    <3>3. CountsInv(b)'
      BY <1>1, <1>6, <1>10, <1>11, <2>3, <3>1 DEF BatchInv, CountsInv, Twice
    <3> QED
      BY <3>2, <3>3 DEF BatchInv
  <2> QED
    BY <1>5, <2>1, <2>2, <2>3
<1> QED
  BY <1>8, <1>9, <1>12, <1>13 DEF IInv

-----------------------------------------------------------------------------
(* The drain.                                                              *)

\* What IInv says of one state, for the steps below.
LEMMA InvParts ==
    ASSUME IInv
    PROVE  /\ TypeOK /\ Placed /\ \A b \in Batches : BatchInv(b)
           /\ buffer \in Seq(Batches) /\ hand \in Seq(Batches)
           /\ Len(buffer) \in Nat /\ Len(hand) \in Nat
           /\ ToSet(buffer) \subseteq Batches /\ ToSet(hand) \subseteq Batches
           /\ inserted \in [Batches -> Nat] /\ dropped \in [Batches -> Nat]
           /\ stored \in [Batches -> Nat] /\ unanswered \in [Batches -> Nat]
<1>1. TypeOK /\ Placed /\ \A b \in Batches : BatchInv(b)
  BY DEF IInv
<1>2. buffer \in Seq(Batches) /\ hand \in Seq(Batches)
  BY <1>1 DEF TypeOK
<1> QED
  BY <1>1, <1>2, Elements DEF TypeOK

\* While ingestion and the trims stand still, the bound on the list does.
LEMMA SameTrims ==
    ASSUME IInv, UNCHANGED <<stage, untrimmed>>
    PROVE  /\ Untrimmed' = Untrimmed /\ IsFiniteSet(Untrimmed)
           /\ Cardinality(Untrimmed) \in Nat /\ MaxQueueLen \in Nat /\ DrainPerCycle \in Nat
           /\ Len(buffer) + Len(hand) <= MaxQueueLen + DrainPerCycle + Cardinality(Untrimmed)
<1>1. IsFiniteSet(Untrimmed)
  BY DEF IInv, Placed
<1>2. Len(buffer) + Len(hand) <= MaxQueueLen + DrainPerCycle + Cardinality(Untrimmed)
  BY DEF IInv, TypeOK
<1>3. Untrimmed' = Untrimmed
  BY DEF Untrimmed
<1> QED
  BY <1>1, <1>2, <1>3, FS_CardinalityType, BufferAssumption

\* Batches popped are in hand, or lost with the reply.
LEMMA PopStep ==
    ASSUME IInv, PopBatches
    PROVE  IInv'
<1>1. /\ drPc = "idle" /\ PopCount > 0 /\ buffer' = Remaining
      /\ UNCHANGED <<stage, chUp, stored, counts, unanswered, unheard, untrimmed>>
      /\ \/ NoFault /\ hand' = Popped /\ drPc' = "insert" /\ UNCHANGED lost
         \/ /\ Fault("pop_reply") /\ lost' = lost \cup ToSet(Popped) /\ UNCHANGED <<drPc, hand>>
  BY DEF PopBatches, drVars
<1>2. /\ TypeOK /\ Placed /\ (\A b \in Batches : BatchInv(b))
      /\ Len(buffer) \in Nat /\ Len(hand) \in Nat /\ ToSet(buffer) \subseteq Batches
  BY InvParts
<1>3. hand = <<>> /\ ToSet(hand) = {} /\ Len(hand) = 0
  BY <1>1, <1>2, Nothing DEF TypeOK
<1>4. /\ Remaining \in Seq(Batches) /\ IsInjective(Remaining)
      /\ Popped \in Seq(Batches) /\ IsInjective(Popped)
      /\ ToSet(Remaining) \cup ToSet(Popped) = ToSet(buffer)
      /\ ToSet(Remaining) \cap ToSet(Popped) = {}
      /\ Len(Remaining) + Len(Popped) = Len(buffer)
      /\ Len(Popped) <= DrainPerCycle /\ Popped # <<>>
  BY <1>1, <1>2, Pops DEF Placed
<1>5. Len(Remaining) \in Nat /\ Len(Popped) \in Nat /\ DrainPerCycle \in Nat
  BY <1>4, Elements, BufferAssumption
<1>6. /\ hand' \in Seq(Batches) /\ IsInjective(hand') /\ Len(hand') <= Len(Popped)
      /\ ToSet(hand') \subseteq ToSet(Popped)
      /\ faultsLeft' \in 0 .. MaxFaults
      /\ lost \subseteq lost' /\ lost' \subseteq Batches
      /\ drPc' \in {"idle", "insert"} /\ (hand' = <<>> <=> drPc' = "idle")
      /\ \A b \in ToSet(Popped) : b \in ToSet(hand') \/ b \in lost'
  <2>1. lost \subseteq Batches /\ ToSet(Popped) \subseteq Batches /\ hand \in Seq(Batches)
    BY <1>2, <1>4 DEF TypeOK
  <2>2. faultsLeft' \in 0 .. MaxFaults
    BY <1>1, <1>2, FaultsBounded DEF FaultKinds
  <2>3. CASE hand' = Popped /\ drPc' = "insert" /\ UNCHANGED lost
    BY <1>4, <1>5, <2>1, <2>2, <2>3
  <2>4. CASE lost' = lost \cup ToSet(Popped) /\ UNCHANGED <<drPc, hand>>
    BY <1>1, <1>3, <1>5, <2>1, <2>2, <2>4, Nothing
  <2> QED
    BY <1>1, <2>3, <2>4
<1>7. /\ Untrimmed' = Untrimmed /\ IsFiniteSet(Untrimmed)
      /\ Cardinality(Untrimmed) \in Nat /\ MaxQueueLen \in Nat
      /\ Len(buffer) + Len(hand) <= MaxQueueLen + DrainPerCycle + Cardinality(Untrimmed)
  BY <1>1, SameTrims
<1>8. TypeOK' /\ Placed'
  <2>1. Len(hand') \in Nat /\ Len(buffer') = Len(Remaining)
    BY <1>1, <1>6, Elements
  <2>2. /\ Len(buffer') + Len(hand') <= MaxQueueLen + DrainPerCycle + Cardinality(Untrimmed')
        /\ Len(hand') <= DrainPerCycle
    BY <1>2, <1>3, <1>4, <1>5, <1>6, <1>7, <2>1
  <2>3. TypeOK'
    BY <1>1, <1>2, <1>4, <1>6, <2>2 DEF TypeOK, counts
  <2>4. Placed'
    BY <1>1, <1>4, <1>6, <1>7, <2>2 DEF Placed
  <2> QED
    BY <2>3, <2>4
<1>9. \A b \in Batches : BatchInv(b)'
  <2> SUFFICES ASSUME NEW b \in Batches PROVE BatchInv(b)'
    OBVIOUS
  <2>1. UNCHANGED <<stage[b], stored[b], inserted[b], dropped[b], unanswered[b], b \in unheard,
                    b \in untrimmed>>
    BY <1>1 DEF counts
  <2>2. ~Replayed(b) /\ ~Replayed(b)'
    BY <1>1, <1>6 DEF Replayed
  <2>3. /\ Held(b)' => Held(b)
        /\ Held(b) => Held(b)' \/ b \in lost'
        /\ b \in lost => b \in lost'
    BY <1>1, <1>3, <1>4, <1>6 DEF Held
  <2>4. BatchInv(b)
    BY <1>2
  <2>5. StageInv(b)' /\ CopiesInv(b)'
    BY <2>1, <2>2, <2>3, <2>4 DEF BatchInv, StageInv, CopiesInv
  <2>6. CountsInv(b)'
    BY <2>1, <2>3, <2>4 DEF BatchInv, CountsInv, Twice
  <2> QED
    BY <2>5, <2>6 DEF BatchInv
<1> QED
  BY <1>8, <1>9 DEF IInv

\* A batch that does not parse is found,
LEMMA UnreadableStep ==
    ASSUME IInv, Unreadable
    PROVE  IInv'
<1>1. /\ drPc = "insert" /\ drPc' = "discard" /\ Fault("unreadable")
      /\ UNCHANGED <<stage, chUp, stored, buffer, hand, counts, ghosts>>
  BY DEF Unreadable
<1>2. TypeOK /\ Placed /\ \A b \in Batches : BatchInv(b)
  BY InvParts
<1>3. faultsLeft' \in 0 .. MaxFaults
  BY <1>1, <1>2, FaultsBounded DEF FaultKinds
<1>4. Untrimmed' = Untrimmed
  BY <1>1, SameTrims DEF ghosts
<1>5. TypeOK' /\ Placed'
  BY <1>1, <1>2, <1>3, <1>4 DEF TypeOK, Placed, counts, ghosts
<1>6. \A b \in Batches : (Held(b)' <=> Held(b)) /\ ~Replayed(b) /\ ~Replayed(b)'
  BY <1>1 DEF Held, Replayed
<1>7. \A b \in Batches : BatchInv(b)'
  BY <1>1, <1>2, <1>6 DEF BatchInv, StageInv, CopiesInv, CountsInv, Twice, counts, ghosts
<1> QED
  BY <1>5, <1>7 DEF IInv

\* and is counted and forgotten, or forgotten and not counted.
LEMMA DiscardStep ==
    ASSUME IInv, Discard
    PROVE  IInv'
<1>1. /\ drPc = "discard" /\ drPc' = (IF hand' = <<>> THEN "idle" ELSE "insert")
      /\ UNCHANGED <<stage, chUp, stored, buffer, inserted, unanswered, unheard, untrimmed>>
  BY DEF Discard
<1>2. PICK bad \in DOMAIN hand :
         /\ hand' = RemoveAt(hand, bad)
         /\ \/ NoFault /\ dropped' = OneMore(dropped, {hand[bad]}) /\ UNCHANGED lost
            \/ Fault("count") /\ lost' = lost \cup {hand[bad]} /\ UNCHANGED dropped
  BY DEF Discard
<1>3. /\ TypeOK /\ Placed /\ (\A b \in Batches : BatchInv(b)) /\ hand \in Seq(Batches)
      /\ Len(buffer) \in Nat /\ Len(hand) \in Nat /\ ToSet(hand) \subseteq Batches
      /\ dropped \in [Batches -> Nat] /\ IsInjective(hand) /\ Len(hand) <= DrainPerCycle
  BY InvParts DEF Placed
<1>4. PICK x : x = hand[bad]
  OBVIOUS
<1>5. /\ hand' \in Seq(Batches) /\ Len(hand') = Len(hand) - 1 /\ IsInjective(hand')
      /\ ToSet(hand') = ToSet(hand) \ {x} /\ x \in ToSet(hand) /\ x \in Batches
  <2>1. /\ RemoveAt(hand, bad) \in Seq(Batches) /\ Len(RemoveAt(hand, bad)) = Len(hand) - 1
        /\ ToSet(RemoveAt(hand, bad)) = ToSet(hand) \ {hand[bad]}
        /\ IsInjective(RemoveAt(hand, bad))
    BY <1>3, Removed
  <2>2. hand[bad] \in ToSet(hand)
    BY DEF ToSet
  <2> QED
    BY <1>2, <1>3, <1>4, <2>1, <2>2
<1>6. /\ dropped' \in [Batches -> Nat] /\ lost \subseteq lost' /\ lost' \subseteq Batches
      /\ \A b \in Batches \ {x} : dropped'[b] = dropped[b]
      /\ \/ dropped'[x] = dropped[x] + 1
         \/ dropped'[x] = dropped[x] /\ x \in lost'
      /\ faultsLeft' \in 0 .. MaxFaults
  <2>1. faultsLeft' \in 0 .. MaxFaults
    BY <1>2, <1>3, FaultsBounded DEF FaultKinds
  <2>2. lost \subseteq Batches
    BY <1>3 DEF TypeOK
  <2>3. CASE dropped' = OneMore(dropped, {x}) /\ UNCHANGED lost
    BY <1>3, <1>5, <2>1, <2>2, <2>3, BatchCounted
  <2>4. CASE lost' = lost \cup {x} /\ UNCHANGED dropped
    BY <1>3, <1>5, <2>1, <2>2, <2>4
  <2> QED
    BY <1>2, <1>4, <2>3, <2>4
<1>7. /\ Untrimmed' = Untrimmed /\ IsFiniteSet(Untrimmed)
      /\ Cardinality(Untrimmed) \in Nat /\ MaxQueueLen \in Nat /\ DrainPerCycle \in Nat
      /\ Len(buffer) + Len(hand) <= MaxQueueLen + DrainPerCycle + Cardinality(Untrimmed)
  BY <1>1, SameTrims
<1>8. TypeOK' /\ Placed'
  <2>1. /\ Len(buffer') + Len(hand') <= MaxQueueLen + DrainPerCycle + Cardinality(Untrimmed')
        /\ Len(hand') <= DrainPerCycle
    BY <1>1, <1>3, <1>5, <1>7
  <2>2. TypeOK'
    BY <1>1, <1>3, <1>5, <1>6, <2>1 DEF TypeOK
  <2>3. Placed'
    BY <1>1, <1>3, <1>5, <1>7, <2>1 DEF Placed
  <2> QED
    BY <2>2, <2>3
<1>9. \A b \in Batches : BatchInv(b)'
  <2> SUFFICES ASSUME NEW b \in Batches PROVE BatchInv(b)'
    OBVIOUS
  <2>1. UNCHANGED <<stage[b], stored[b], inserted[b], unanswered[b], b \in unheard,
                    b \in untrimmed>>
    BY <1>1
  <2>2. ~Replayed(b) /\ ~Replayed(b)'
    BY <1>1 DEF Replayed
  <2>3. /\ Held(b)' => Held(b) /\ b # x
        /\ Held(b) => Held(b)' \/ b = x
        /\ Held(x)
        /\ b \in lost => b \in lost'
    BY <1>1, <1>3, <1>5, <1>6 DEF Held, Placed
  <2>4. BatchInv(b) /\ inserted[b] \in Nat /\ dropped[b] \in Nat
    BY <1>3 DEF TypeOK
  <2>5. StageInv(b)' /\ CopiesInv(b)'
    BY <2>1, <2>2, <2>3, <2>4 DEF BatchInv, StageInv, CopiesInv
  <2>6. CountsInv(b)'
    <3>1. CASE b = x
      <4>1. \/ dropped'[b] = dropped[b] + 1
            \/ dropped'[b] = dropped[b] /\ b \in lost'
        BY <1>6, <3>1
      <4>2. Held(b) /\ ~Held(b)'
        BY <2>3, <3>1
      <4> QED
        BY <2>1, <2>4, <4>1, <4>2 DEF BatchInv, StageInv, CountsInv, Twice
    <3>2. CASE b # x
      <4>1. dropped'[b] = dropped[b] /\ (Held(b)' <=> Held(b)) /\ (b \in lost => b \in lost')
        BY <1>6, <2>3, <3>2
      <4> QED
        BY <2>1, <2>4, <4>1 DEF BatchInv, CountsInv, Twice
    <3> QED
      BY <3>1, <3>2
  <2> QED
    BY <2>5, <2>6 DEF BatchInv
<1> QED
  BY <1>8, <1>9 DEF IInv

\* What is in hand is inserted, or not, and heard of, or not.
LEMMA ReplayStep ==
    ASSUME IInv, Replay
    PROVE  IInv'
<1>1. /\ drPc = "insert" /\ drPc' \in {"count", "requeue"}
      /\ \/ InsertOk(ToSet(hand)) /\ drPc' = "count"
         \/ InsertFails(ToSet(hand)) /\ drPc' = "requeue"
      /\ UNCHANGED <<stage, chUp, buffer, hand, counts, unheard, untrimmed, lost>>
  BY DEF Replay
<1>2. TypeOK /\ Placed /\ (\A b \in Batches : BatchInv(b)) /\ ToSet(hand) \subseteq Batches
  BY InvParts
<1>3. /\ stored' \in [Batches -> Nat] /\ unanswered' \in [Batches -> Nat]
      /\ faultsLeft' \in 0 .. MaxFaults
      /\ \A b \in Batches : b \notin ToSet(hand) =>
            stored'[b] = stored[b] /\ unanswered'[b] = unanswered[b]
  BY <1>1, <1>2, Inserting
<1>4. \A b \in ToSet(hand) \cap Batches :
         \/ drPc' = "count" /\ stored'[b] = stored[b] + 1 /\ unanswered'[b] = unanswered[b]
         \/ drPc' = "requeue" /\ stored'[b] = stored[b] /\ unanswered'[b] = unanswered[b]
         \/ /\ drPc' = "requeue"
            /\ stored'[b] = stored[b] + 1 /\ unanswered'[b] = unanswered[b] + 1
  <2>1. stored \in [Batches -> Nat] /\ unanswered \in [Batches -> Nat]
    BY InvParts
  <2>2. CASE InsertOk(ToSet(hand)) /\ drPc' = "count"
    BY <2>1, <2>2, BatchCounted DEF InsertOk
  <2>3. CASE InsertFails(ToSet(hand)) /\ drPc' = "requeue"
    BY <2>1, <2>3, BatchCounted DEF InsertFails
  <2> QED
    BY <1>1, <2>2, <2>3
<1>5. TypeOK' /\ Placed'
  <2>1. Untrimmed' = Untrimmed
    BY <1>1, SameTrims
  <2> QED
    BY <1>1, <1>2, <1>3, <2>1 DEF TypeOK, Placed, counts
<1>6. \A b \in Batches : BatchInv(b)'
  <2> SUFFICES ASSUME NEW b \in Batches PROVE BatchInv(b)'
    OBVIOUS
  <2>1. UNCHANGED <<stage[b], inserted[b], dropped[b], b \in unheard, b \in untrimmed, b \in lost>>
    BY <1>1 DEF counts
  <2>2. /\ Held(b)' <=> Held(b)
        /\ ~Replayed(b)
        /\ Replayed(b)' <=> drPc' = "count" /\ b \in ToSet(hand)
        /\ b \in ToSet(hand) => Held(b)
    BY <1>1 DEF Held, Replayed
  <2>3. BatchInv(b) /\ stored[b] \in Nat /\ unanswered[b] \in Nat
    BY <1>2 DEF TypeOK
  <2>4. \/ stored'[b] = stored[b] /\ unanswered'[b] = unanswered[b] /\ ~Replayed(b)'
        \/ /\ stored'[b] = stored[b] + 1 /\ unanswered'[b] = unanswered[b] + 1
           /\ ~Replayed(b)' /\ Held(b)
        \/ /\ stored'[b] = stored[b] + 1 /\ unanswered'[b] = unanswered[b]
           /\ Replayed(b)' /\ Held(b)
    BY <1>3, <1>4, <2>2
  <2> QED
    BY <2>1, <2>2, <2>3, <2>4 DEF BatchInv, StageInv, CopiesInv, CountsInv, Twice
<1> QED
  BY <1>5, <1>6 DEF IInv

\* What was replayed is counted, and nothing is in hand.
LEMMA CountStep ==
    ASSUME IInv, CountReplayed
    PROVE  IInv'
<1>1. /\ drPc = "count" /\ drPc' = "idle" /\ hand' = <<>>
      /\ \/ NoFault /\ inserted' = OneMore(inserted, ToSet(hand))
         \/ Fault("count") /\ UNCHANGED inserted
      /\ UNCHANGED <<stage, chUp, stored, buffer, dropped, ghosts>>
  BY DEF CountReplayed
<1>2. /\ TypeOK /\ Placed /\ (\A b \in Batches : BatchInv(b)) /\ inserted \in [Batches -> Nat]
      /\ Len(buffer) \in Nat /\ Len(hand) \in Nat
  BY InvParts
<1>3. /\ inserted' \in [Batches -> Nat]
      /\ \A b \in Batches : \/ inserted'[b] = inserted[b]
                            \/ inserted'[b] = inserted[b] + 1 /\ b \in ToSet(hand)
      /\ faultsLeft' \in 0 .. MaxFaults
  <2>1. faultsLeft' \in 0 .. MaxFaults
    BY <1>1, <1>2, FaultsBounded DEF FaultKinds
  <2>2. CASE inserted' = OneMore(inserted, ToSet(hand))
    BY <1>2, <2>1, <2>2, BatchCounted
  <2>3. CASE UNCHANGED inserted
    BY <1>2, <2>1, <2>3
  <2> QED
    BY <1>1, <2>2, <2>3
<1>4. hand' \in Seq(Batches) /\ ToSet(hand') = {} /\ IsInjective(hand') /\ Len(hand') = 0
  BY <1>1, Nothing
<1>5. TypeOK' /\ Placed'
  <2>0. /\ Untrimmed' = Untrimmed /\ IsFiniteSet(Untrimmed)
        /\ Cardinality(Untrimmed) \in Nat /\ MaxQueueLen \in Nat /\ DrainPerCycle \in Nat
        /\ Len(buffer) + Len(hand) <= MaxQueueLen + DrainPerCycle + Cardinality(Untrimmed)
    BY <1>1, SameTrims DEF ghosts
  <2>1. /\ Len(buffer') + Len(hand') <= MaxQueueLen + DrainPerCycle + Cardinality(Untrimmed')
        /\ Len(hand') <= DrainPerCycle
    BY <1>1, <1>2, <1>4, <2>0
  <2>2. TypeOK'
    BY <1>1, <1>2, <1>3, <1>4, <2>1 DEF TypeOK, ghosts
  <2>3. Placed'
    BY <1>1, <1>2, <1>3, <1>4, <2>0, <2>1 DEF Placed
  <2> QED
    BY <2>2, <2>3
<1>6. \A b \in Batches : BatchInv(b)'
  <2> SUFFICES ASSUME NEW b \in Batches PROVE BatchInv(b)'
    OBVIOUS
  <2>1. UNCHANGED <<stage[b], stored[b], unanswered[b], dropped[b],
                    b \in unheard, b \in untrimmed, b \in lost>>
    BY <1>1 DEF ghosts
  <2>2. /\ Held(b)' => Held(b) /\ ~Replayed(b) /\ b \notin ToSet(hand)
        /\ Held(b) => Held(b)' \/ Replayed(b)
        /\ ~Replayed(b)'
        /\ b \in ToSet(hand) => Held(b) /\ Replayed(b)
    BY <1>1, <1>2, <1>4 DEF Held, Replayed, Placed
  <2>3. BatchInv(b) /\ inserted[b] \in Nat /\ dropped[b] \in Nat
    BY <1>2 DEF TypeOK
  <2>4. inserted'[b] = inserted[b] \/ (inserted'[b] = inserted[b] + 1 /\ b \in ToSet(hand))
    BY <1>3
  <2>5. StageInv(b)'
    BY <2>1, <2>2, <2>3 DEF BatchInv, StageInv
  <2>6. CopiesInv(b)'
    BY <2>1, <2>2, <2>3 DEF BatchInv, CopiesInv
  <2>7. CountsInv(b)'
    <3>1. CASE b \in ToSet(hand)
      <4>1. stored[b] > 0 /\ ~Held(b)' /\ inserted[b] = 0 /\ dropped[b] <= Twice(b)
        BY <2>2, <2>3, <3>1 DEF BatchInv, CopiesInv, CountsInv
      <4>2. Twice(b)' = Twice(b) /\ stage[b] \in {"trim", "drop", "done", "stopped"}
            /\ (stage[b] = "drop" => b \in unheard) /\ Twice(b) \in {0, 1}
        BY <2>1, <2>2, <2>3, <3>1 DEF BatchInv, StageInv, Twice
      <4>3. inserted'[b] <= 1 /\ inserted'[b] \in Nat
        BY <2>3, <2>4, <4>1
      <4> QED
        BY <2>1, <2>2, <2>3, <4>1, <4>2, <4>3 DEF BatchInv, CountsInv
    <3>2. CASE b \notin ToSet(hand)
      <4>1. Held(b)' <=> Held(b)
        BY <2>2, <3>2 DEF Replayed
      <4>2. inserted'[b] = inserted[b] /\ Twice(b)' = Twice(b)
        BY <2>1, <2>4, <3>2 DEF Twice
      <4> QED
        BY <2>1, <2>3, <4>1, <4>2 DEF BatchInv, CountsInv
    <3> QED
      BY <3>1, <3>2
  <2> QED
    BY <2>5, <2>6, <2>7 DEF BatchInv
<1> QED
  BY <1>5, <1>6 DEF IInv

\* What is in hand is put back, or is lost.
LEMMA RequeueStep ==
    ASSUME IInv, Requeue
    PROVE  IInv'
<1>1. /\ drPc = "requeue" /\ drPc' = "idle" /\ hand' = <<>>
      /\ \/ NoFault /\ buffer' = Requeued /\ UNCHANGED lost
         \/ Fault("requeue") /\ lost' = lost \cup ToSet(hand) /\ UNCHANGED buffer
      /\ UNCHANGED <<stage, chUp, stored, counts, unanswered, unheard, untrimmed>>
  BY DEF Requeue
<1>2. /\ TypeOK /\ Placed /\ (\A b \in Batches : BatchInv(b)) /\ buffer \in Seq(Batches)
      /\ Len(buffer) \in Nat /\ Len(hand) \in Nat /\ ToSet(hand) \subseteq Batches
  BY InvParts
<1>3. hand' \in Seq(Batches) /\ ToSet(hand') = {} /\ IsInjective(hand') /\ Len(hand') = 0
  BY <1>1, Nothing
<1>4. /\ buffer' \in Seq(Batches) /\ IsInjective(buffer')
      /\ Len(buffer') <= Len(buffer) + Len(hand) /\ Len(buffer') \in Nat
      /\ \/ ToSet(buffer') = ToSet(buffer) \cup ToSet(hand) /\ lost' = lost
         \/ ToSet(buffer') = ToSet(buffer) /\ lost' = lost \cup ToSet(hand)
  <2>1. CASE buffer' = Requeued /\ UNCHANGED lost
    BY <1>2, <2>1, PutBack
  <2>2. CASE lost' = lost \cup ToSet(hand) /\ UNCHANGED buffer
    BY <1>2, <2>2 DEF Placed
  <2> QED
    BY <1>1, <2>1, <2>2
<1>5. faultsLeft' \in 0 .. MaxFaults
  BY <1>1, <1>2, FaultsBounded DEF FaultKinds
<1>6. TypeOK' /\ Placed'
  <2>0. /\ Untrimmed' = Untrimmed /\ IsFiniteSet(Untrimmed)
        /\ Cardinality(Untrimmed) \in Nat /\ MaxQueueLen \in Nat /\ DrainPerCycle \in Nat
        /\ Len(buffer) + Len(hand) <= MaxQueueLen + DrainPerCycle + Cardinality(Untrimmed)
    BY <1>1, SameTrims
  <2>1. /\ Len(buffer') + Len(hand') <= MaxQueueLen + DrainPerCycle + Cardinality(Untrimmed')
        /\ Len(hand') <= DrainPerCycle
    BY <1>1, <1>2, <1>3, <1>4, <2>0
  <2>2. TypeOK'
    BY <1>1, <1>2, <1>3, <1>4, <1>5, <2>1 DEF TypeOK, counts
  <2>3. Placed'
    BY <1>1, <1>2, <1>3, <1>4, <1>5, <2>0, <2>1 DEF Placed
  <2> QED
    BY <2>2, <2>3
<1>7. \A b \in Batches : BatchInv(b)'
  <2> SUFFICES ASSUME NEW b \in Batches PROVE BatchInv(b)'
    OBVIOUS
  <2>1. UNCHANGED <<stage[b], stored[b], unanswered[b], inserted[b], dropped[b],
                    b \in unheard, b \in untrimmed>>
    BY <1>1 DEF counts
  <2>2. /\ Held(b)' => Held(b)
        /\ Held(b) => Held(b)' \/ b \in lost'
        /\ b \in lost => b \in lost'
        /\ ~Replayed(b) /\ ~Replayed(b)'
    BY <1>1, <1>3, <1>4 DEF Held, Replayed
  <2>3. BatchInv(b)
    BY <1>2
  <2> QED
    BY <2>1, <2>2, <2>3 DEF BatchInv, StageInv, CopiesInv, CountsInv, Twice
<1> QED
  BY <1>6, <1>7 DEF IInv

\* The process stops: ingestion forgets its batches, the drain loses its.
LEMMA RestartStep ==
    ASSUME IInv, Restart
    PROVE  IInv'
<1>1. /\ stage' = [b \in Batches |-> IF Ingesting(b) THEN "stopped" ELSE stage[b]]
      /\ drPc' = "idle" /\ hand' = <<>> /\ lost' = lost \cup ToSet(hand) /\ Fault("restart")
      /\ untrimmed' = untrimmed \cup {b \in Batches : stage[b] = "trim"}
      /\ UNCHANGED <<chUp, stored, buffer, counts, unanswered, unheard>>
  BY DEF Restart
<1>2. /\ TypeOK /\ Placed /\ (\A b \in Batches : BatchInv(b))
      /\ Len(buffer) \in Nat /\ Len(hand) \in Nat /\ ToSet(hand) \subseteq Batches
  BY InvParts
<1>3. hand' \in Seq(Batches) /\ ToSet(hand') = {} /\ IsInjective(hand') /\ Len(hand') = 0
  BY <1>1, Nothing
<1>4. faultsLeft' \in 0 .. MaxFaults
  BY <1>1, <1>2, FaultsBounded DEF FaultKinds
<1>5. /\ stage' \in [Batches -> Stages]
      /\ \A b \in Batches : \/ stage'[b] = stage[b]
                            \/ stage'[b] = "stopped" /\ stage[b] \notin {"waiting", "done"}
      /\ \A b \in Batches : stage'[b] # "trim"
  BY <1>1, <1>2 DEF TypeOK, Stages, Ingesting
<1>8. /\ Untrimmed' = Untrimmed /\ untrimmed' \subseteq Batches
      /\ \A b \in Batches : b \in untrimmed' => b \in untrimmed \/ stage'[b] = "stopped"
  BY <1>1, <1>2, <1>5 DEF Untrimmed, TypeOK, Ingesting
<1>9. /\ IsFiniteSet(Untrimmed) /\ Cardinality(Untrimmed) \in Nat
      /\ MaxQueueLen \in Nat /\ DrainPerCycle \in Nat
      /\ Len(buffer) + Len(hand) <= MaxQueueLen + DrainPerCycle + Cardinality(Untrimmed)
  BY <1>2, BufferAssumption, FS_CardinalityType DEF TypeOK, Placed
<1>6. TypeOK' /\ Placed'
  <2>1. /\ Len(buffer') + Len(hand') <= MaxQueueLen + DrainPerCycle + Cardinality(Untrimmed')
        /\ Len(hand') <= DrainPerCycle
    BY <1>1, <1>2, <1>3, <1>8, <1>9
  <2>2. TypeOK'
    BY <1>1, <1>2, <1>3, <1>4, <1>5, <1>8, <2>1 DEF TypeOK, counts
  <2>3. Placed'
    BY <1>1, <1>2, <1>3, <1>8, <1>9, <2>1 DEF Placed
  <2> QED
    BY <2>2, <2>3
<1>7. \A b \in Batches : BatchInv(b)'
  <2> SUFFICES ASSUME NEW b \in Batches PROVE BatchInv(b)'
    OBVIOUS
  <2>1. UNCHANGED <<stored[b], unanswered[b], inserted[b], dropped[b],
                    b \in unheard>>
    BY <1>1 DEF counts
  <2>2. /\ Held(b)' => Held(b) /\ ~Replayed(b)
        /\ Held(b) => Held(b)' \/ b \in lost'
        /\ b \in lost => b \in lost'
        /\ ~Replayed(b)'
    BY <1>1, <1>2, <1>3 DEF Held, Replayed, Placed
  <2>3. /\ BatchInv(b)
        /\ \/ stage'[b] = stage[b]
           \/ stage'[b] = "stopped" /\ stage[b] \notin {"waiting", "done"}
        /\ b \in untrimmed' => b \in untrimmed \/ stage'[b] = "stopped"
        /\ inserted[b] \in Nat /\ dropped[b] \in Nat
    BY <1>2, <1>5, <1>8 DEF TypeOK
  <2>4. StageInv(b)' /\ CopiesInv(b)'
    BY <2>1, <2>2, <2>3 DEF BatchInv, StageInv, CopiesInv
  <2>5. CASE stage'[b] = stage[b]
    <3>1. CountsInv(b)'
      BY <2>1, <2>2, <2>3, <2>5 DEF BatchInv, CountsInv, Twice
    <3> QED
      BY <2>4, <3>1 DEF BatchInv
  <2>6. CASE stage'[b] = "stopped" /\ stage[b] \notin {"waiting", "done"}
    <3>1. CountsInv(b)'
      BY <2>1, <2>2, <2>3, <2>6 DEF BatchInv, CountsInv, Twice
    <3> QED
      BY <2>4, <3>1 DEF BatchInv
  <2> QED
    BY <2>3, <2>5, <2>6
<1> QED
  BY <1>6, <1>7 DEF IInv

-----------------------------------------------------------------------------
(* The invariant, and what it shows.                                       *)

LEMMA InitInv == Init => IInv
<1> SUFFICES ASSUME Init PROVE IInv
  OBVIOUS
<1>0. Untrimmed = {} /\ IsFiniteSet(Untrimmed) /\ Cardinality(Untrimmed) = 0
  <2>1. Untrimmed = {}
    BY DEF Init, Untrimmed
  <2> QED
    BY <2>1, FS_EmptySet
<1>1. TypeOK
  BY <1>0, Nothing, BufferAssumption DEF Init, TypeOK, Stages
<1>2. Placed /\ \A b \in Batches : ~Held(b) /\ ~Replayed(b)
  BY <1>0, Nothing, BufferAssumption DEF Init, Placed, Held, Replayed
<1>3. \A b \in Batches : BatchInv(b)
  BY <1>2 DEF Init, BatchInv, StageInv, CopiesInv, CountsInv, Twice
<1> QED
  BY <1>1, <1>2, <1>3 DEF IInv

LEMMA NextInv == IInv /\ [Next]_vars => IInv'
<1> SUFFICES ASSUME IInv, [Next]_vars PROVE IInv'
  OBVIOUS
<1>1. ASSUME NEW b \in Batches, Receive(b) \/ Ingest(b) PROVE IInv'
  BY <1>1, IngestSteps, BufferStep DEF Ingest
<1>2. CASE Drain
  BY <1>2, PopStep, UnreadableStep, DiscardStep, ReplayStep, CountStep, RequeueStep DEF Drain
<1>3. CASE Restart
  BY <1>3, RestartStep
<1>4. CASE Outage \/ UNCHANGED vars
  <2>1. chUp' \in BOOLEAN
        /\ UNCHANGED <<stage, stored, buffer, drVars, counts, faultsLeft, ghosts>>
    BY <1>4 DEF Outage, vars, IInv, TypeOK
  <2>2. TypeOK' /\ Placed'
    <3>1. Untrimmed' = Untrimmed
      BY <2>1, SameTrims DEF ghosts
    <3> QED
      BY <2>1, <3>1 DEF IInv, TypeOK, Placed, drVars, counts, ghosts
  <2>3. \A b \in Batches : (Held(b)' <=> Held(b)) /\ (Replayed(b)' <=> Replayed(b))
    BY <2>1 DEF Held, Replayed, drVars
  <2>4. \A b \in Batches : BatchInv(b)'
    BY <2>1, <2>3 DEF IInv, BatchInv, StageInv, CopiesInv, CountsInv, Twice, drVars, counts, ghosts
  <2> QED
    BY <2>2, <2>4 DEF IInv
<1> QED
  BY <1>1, <1>2, <1>3, <1>4 DEF Next

LEMMA InvHolds == Spec => []IInv
  BY InitInv, NextInv, PTL DEF Spec

\* The drain holds batches while it is at work on them, and what the list and
\* the drain hold together is bounded, by one more for each push whose trim is
\* under way or failed.
THEOREM ListIsBounded == Spec => []TypeOK
<1>1. IInv => TypeOK
  BY DEF IInv
<1> QED
  BY <1>1, InvHolds, PTL

\* However attempts, replays, outages and restarts interleave: ClickHouse has a
\* batch twice only when an insert succeeded and nobody heard of it.
THEOREM CopiesAreExplained == Spec => []StoredOnce
<1>1. IInv => StoredOnce
  BY DEF IInv, BatchInv, CopiesInv, StoredOnce
<1> QED
  BY <1>1, InvHolds, PTL

\* Batches are counted once, but for a push that went unheard, and none is gone
\* uncounted, but those the ghost variable lost names: trimmed off, popped
\* without an answer, refused when put back, in the drain's hands at a restart,
\* or dropped while Redis refused to count them.
THEOREM BatchesAreAccounted == Spec => []EveryBatchAccounted
<1>1. IInv => EveryBatchAccounted
  <2> SUFFICES ASSUME IInv, NEW b \in Batches
               PROVE  /\ inserted[b] + dropped[b] <= (IF stage[b] = "waiting" THEN 0 ELSE 1)
                                                     + (IF b \in unheard THEN 1 ELSE 0)
                      /\ b \notin lost /\ stage[b] = "done"
                         => \/ stored[b] > 0 \/ dropped[b] > 0
                            \/ b \in ToSet(buffer) \cup ToSet(hand)
    BY DEF EveryBatchAccounted
  <2>1. BatchInv(b) /\ stage[b] \in Stages /\ inserted[b] \in Nat /\ dropped[b] \in Nat
    BY DEF IInv, TypeOK
  <2>2. inserted[b] + dropped[b] <= (IF stage[b] = "waiting" THEN 0 ELSE 1)
                                    + (IF b \in unheard THEN 1 ELSE 0)
    BY <2>1 DEF BatchInv, CountsInv, Twice
  <2>3. b \notin lost /\ stage[b] = "done"
         => \/ stored[b] > 0 \/ dropped[b] > 0
            \/ b \in ToSet(buffer) \cup ToSet(hand)
    BY <2>1 DEF BatchInv, CountsInv, Held
  <2> QED
    BY <2>2, <2>3
<1> QED
  BY <1>1, InvHolds, PTL

-----------------------------------------------------------------------------
(* Finite sets.                                                            *)

\* A family of finite sets has a least member: what induction over finite sets
\* is made of here.
LEMMA LeastSet ==
    ASSUME NEW S, IsFiniteSet(S), NEW F \in SUBSET SUBSET S, F # {}
    PROVE  \E U \in F : \A V \in F : V \subseteq U => V = U
<1>1. IsWellFoundedOn(StrictSubsetOrdering(S), FiniteSubsetsOf(S))
  BY FS_StrictSubsetOrderingWellFounded
<1>2. FiniteSubsetsOf(S) = SUBSET S
  BY FS_FiniteSubsetsOfFinite
<1>3. PICK R, D : R = StrictSubsetOrdering(S) /\ D = FiniteSubsetsOf(S)
  OBVIOUS
<1>4. IsWellFoundedOn(R, D) /\ F \subseteq D
  BY <1>1, <1>2, <1>3
<1>5. \E U \in F : \A V \in F : ~ (<<V, U>> \in R)
  BY <1>4, WFMin, Zenon
<1> QED BY <1>3, <1>5 DEF StrictSubsetOrdering

\* The greatest of a finite set of numbers.
LEMMA MaxOf ==
    ASSUME NEW S, IsFiniteSet(S), S # {}
    PROVE  S \subseteq Int => Max(S) \in S /\ \A x \in S : Max(S) >= x
<1> DEFINE F == {U \in SUBSET S : \E m \in S : \A x \in S \ U : m >= x}
<1>1. F # {}
  <2>1. S \in F
    OBVIOUS
  <2> QED BY <2>1
<1>2. PICK U \in F : \A V \in F : V \subseteq U => V = U
  <2>1. F \in SUBSET SUBSET S
    OBVIOUS
  <2> HIDE DEF F
  <2> QED BY <1>1, <2>1, LeastSet
<1>3. PICK m \in S : \A x \in S \ U : m >= x
  BY <1>2
<1> HAVE S \subseteq Int
<1>4. ASSUME NEW x \in U, x > m PROVE FALSE
  <2>1. U \ {x} \in SUBSET S
    BY <1>2
  <2>2. \A y \in S \ (U \ {x}) : x >= y
    BY <1>2, <1>3, <1>4
  <2>3. U \ {x} \in F
    BY <2>1, <2>2, <1>2
  <2> QED BY <2>3, <1>2, <1>4
<1>5. \A x \in S : m >= x
  BY <1>3, <1>4, <1>2
<1> QED BY <1>5 DEF Max

\* The least of a finite set of numbers.
LEMMA MinOf ==
    ASSUME NEW S, IsFiniteSet(S), S # {}
    PROVE  S \subseteq Int => Min(S) \in S /\ \A x \in S : Min(S) <= x
<1> DEFINE F == {U \in SUBSET S : \E m \in S : \A x \in S \ U : m <= x}
<1>1. F # {}
  <2>1. S \in F
    OBVIOUS
  <2> QED BY <2>1
<1>2. PICK U \in F : \A V \in F : V \subseteq U => V = U
  <2>1. F \in SUBSET SUBSET S
    OBVIOUS
  <2> HIDE DEF F
  <2> QED BY <1>1, <2>1, LeastSet
<1>3. PICK m \in S : \A x \in S \ U : m <= x
  BY <1>2
<1> HAVE S \subseteq Int
<1>4. ASSUME NEW x \in U, x < m PROVE FALSE
  <2>1. U \ {x} \in SUBSET S
    BY <1>2
  <2>2. \A y \in S \ (U \ {x}) : x <= y
    BY <1>2, <1>3, <1>4
  <2>3. U \ {x} \in F
    BY <2>1, <2>2, <1>2
  <2> QED BY <2>3, <1>2, <1>4
<1>5. \A x \in S : m <= x
  BY <1>3, <1>4, <1>2
<1> QED BY <1>5 DEF Min

-----------------------------------------------------------------------------
(* Sums.                                                                   *)

Pick(s) == CHOOSE x \in s : TRUE

\* g[s] is the sum of f over s, as the community modules take it.
IsSum(g, f, S) == g = [s \in SUBSET S |-> IF s = {} THEN 0 ELSE f[Pick(s)] + g[s \ {Pick(s)}]]

\* The fold of the library is the recursive function of IsSum.
LEMMA SumIs ==
    ASSUME NEW f, NEW S
    PROVE  SumFunctionOnSet(f, S) = (CHOOSE g : IsSum(g, f, S))[S]
BY DEF SumFunctionOnSet, FoldFunctionOnSet, MapThenFoldSet, IsSum, Pick

\* Two sums of one function agree where both are defined.
LEMMA SumsAgree ==
    ASSUME NEW f, NEW S, IsFiniteSet(S), NEW T \in SUBSET S,
           NEW g, IsSum(g, f, S), NEW h, IsSum(h, f, T)
    PROVE  \A s \in SUBSET T : g[s] = h[s]
<1> DEFINE F == {s \in SUBSET T : g[s] # h[s]}
<1>1. SUFFICES ASSUME F # {} PROVE FALSE
  OBVIOUS
<1>2. IsFiniteSet(T)
  BY FS_Subset
<1>3. PICK U \in F : \A V \in F : V \subseteq U => V = U
  <2>1. F \in SUBSET SUBSET T
    OBVIOUS
  <2> HIDE DEF F
  <2> QED BY <1>1, <1>2, <2>1, LeastSet
<1>4. g[U] = IF U = {} THEN 0 ELSE f[Pick(U)] + g[U \ {Pick(U)}]
  <2>1. U \in SUBSET S
    BY <1>3
  <2> QED BY <2>1 DEF IsSum
<1>5. h[U] = IF U = {} THEN 0 ELSE f[Pick(U)] + h[U \ {Pick(U)}]
  BY <1>3 DEF IsSum
<1>6. U # {} => Pick(U) \in U
  BY DEF Pick
<1>7. U # {} => g[U \ {Pick(U)}] = h[U \ {Pick(U)}]
  BY <1>6, <1>3
<1> QED BY <1>3, <1>4, <1>5, <1>7

\* Every function has its sums over a finite set.
LEMMA SumExists ==
    ASSUME NEW f, NEW S, IsFiniteSet(S)
    PROVE  \E g : IsSum(g, f, S)
<1> DEFINE F == {T \in SUBSET S : ~ \E g : IsSum(g, f, T)}
<1>1. SUFFICES ASSUME F # {} PROVE FALSE
  OBVIOUS
<1>3. PICK U \in F : \A V \in F : V \subseteq U => V = U
  <2>1. F \in SUBSET SUBSET S
    OBVIOUS
  <2> HIDE DEF F
  <2> QED BY <1>1, <2>1, LeastSet
<1> DEFINE G(V) == CHOOSE g : IsSum(g, f, V)
           Less(s) == s \ {Pick(s)}
           h == [s \in SUBSET U |-> IF s = {} THEN 0 ELSE f[Pick(s)] + G(Less(s))[Less(s)]]
<1>4. \A V \in SUBSET U : V # U => IsSum(G(V), f, V)
  <2>1. ASSUME NEW V \in SUBSET U, V # U PROVE \E g : IsSum(g, f, V)
    BY <1>3, <2>1
  <2> QED BY <2>1
<1>5. \A s \in SUBSET U : s # {} => Pick(s) \in s /\ Less(s) \in SUBSET U /\ Less(s) # U
  BY DEF Pick
<1>6. ASSUME NEW w \in SUBSET U, w # U PROVE h[w] = G(w)[w]
  <2>1. IsSum(G(w), f, w)
    BY <1>4, <1>6
  <2>2. G(w)[w] = IF w = {} THEN 0 ELSE f[Pick(w)] + G(w)[Less(w)]
    <3> HIDE DEF G
    <3> QED BY <2>1 DEF IsSum
  <2>3. CASE w = {}
    BY <2>2, <2>3
  <2>4. CASE w # {}
    <3>1. IsSum(G(Less(w)), f, Less(w)) /\ Less(w) \in SUBSET w
      BY <1>4, <1>5, <2>4
    <3>2. IsFiniteSet(w)
      BY <1>3, <1>6, FS_Subset, w \in SUBSET S
    <3>3. G(w)[Less(w)] = G(Less(w))[Less(w)]
      <4> HIDE DEF G, Less
      <4> QED BY <2>1, <3>1, <3>2, SumsAgree
    <3> QED BY <2>2, <3>3, <2>4
  <2> QED BY <2>3, <2>4
<1>7. \A s \in SUBSET U : s # {} => h[Less(s)] = G(Less(s))[Less(s)]
  <2> HIDE DEF h, G, Less
  <2> QED BY <1>5, <1>6
<1>8. IsSum(h, f, U)
  <2>1. h = [s \in SUBSET U |-> IF s = {} THEN 0 ELSE f[Pick(s)] + h[Less(s)]]
    <3>1. \A s \in SUBSET U : h[s] = IF s = {} THEN 0 ELSE f[Pick(s)] + h[Less(s)]
      <4>1. \A s \in SUBSET U : h[s] = IF s = {} THEN 0 ELSE f[Pick(s)] + G(Less(s))[Less(s)]
        <5> HIDE DEF G, Less
        <5> QED OBVIOUS
      <4> HIDE DEF h, G, Less
      <4> QED BY <4>1, <1>7
    <3>2. h = [s \in SUBSET U |-> h[s]]
      <4> HIDE DEF G, Less
      <4> QED OBVIOUS
    <3> HIDE DEF h, G, Less
    <3> QED BY <3>1, <3>2, Zenon
  <2> HIDE DEF h
  <2> QED BY <2>1 DEF IsSum
<1> QED BY <1>8, <1>3

\* The sum over nothing is zero, and a sum over something is that of what Pick
\* leaves, with what it took.
LEMMA SumByPick ==
    ASSUME NEW f, NEW S, IsFiniteSet(S)
    PROVE  SumFunctionOnSet(f, S) = IF S = {} THEN 0
                ELSE f[Pick(S)] + SumFunctionOnSet(f, S \ {Pick(S)})
<1> DEFINE G(V) == CHOOSE g : IsSum(g, f, V)
           L == S \ {Pick(S)}
<1>1. IsFiniteSet(L) /\ L \in SUBSET S
  BY FS_Subset
<1>2. IsSum(G(S), f, S) /\ IsSum(G(L), f, L)
  <2> HIDE DEF L
  <2>1. (\E g : IsSum(g, f, S)) /\ \E g : IsSum(g, f, L)
    BY <1>1, SumExists
  <2> QED BY <2>1
<1>3. SumFunctionOnSet(f, S) = G(S)[S] /\ SumFunctionOnSet(f, L) = G(L)[L]
  BY SumIs
<1>4. G(S)[L] = G(L)[L]
  <2> HIDE DEF G, L
  <2> QED BY <1>1, <1>2, SumsAgree
<1>5. G(S)[S] = IF S = {} THEN 0 ELSE f[Pick(S)] + G(S)[L]
  <2> HIDE DEF G
  <2> QED BY <1>2 DEF IsSum
<1> HIDE DEF G
<1> QED BY <1>3, <1>4, <1>5

\* A sum of integers is an integer and may be taken from any element on.
LEMMA SumByAny ==
    ASSUME NEW f, NEW S, IsFiniteSet(S), \A x \in S : f[x] \in Int
    PROVE  /\ SumFunctionOnSet(f, {}) = 0
           /\ SumFunctionOnSet(f, S) \in Int
           /\ \A x \in S : SumFunctionOnSet(f, S) = f[x] + SumFunctionOnSet(f, S \ {x})
<1> DEFINE Total(s) == SumFunctionOnSet(f, s)
           Good(s) == /\ Total(s) \in Int
                      /\ \A x \in s : Total(s) = f[x] + Total(s \ {x})
           F == {T \in SUBSET S : ~ Good(T)}
<1>1. Total({}) = 0
  BY FS_EmptySet, SumByPick
<1>2. ASSUME NEW T \in SUBSET S, T # {} PROVE Pick(T) \in T /\ Total(T) = f[Pick(T)] + Total(T \ {Pick(T)})
  BY <1>2, SumByPick, FS_Subset DEF Pick
<1>3. ASSUME NEW U \in SUBSET S, \A V \in SUBSET U : V # U => Good(V) PROVE Good(U)
  <2>1. CASE U = {}
    BY <1>1, <2>1
  <2>2. CASE U # {}
    <3> DEFINE p == Pick(U)
    <3>1. p \in U /\ Total(U) = f[p] + Total(U \ {p})
      BY <1>2, <2>2
    <3>2. Total(U \ {p}) \in Int /\ \A x \in U \ {p} : Total(U \ {p}) = f[x] + Total((U \ {p}) \ {x})
      <4> HIDE DEF p, Total
      <4> QED BY <1>3, <3>1
    <3>3. ASSUME NEW x \in U, x # p PROVE Total(U) = f[x] + Total(U \ {x})
      <4>1. (U \ {p}) \ {x} = (U \ {x}) \ {p}
        OBVIOUS
      <4>2. Total(U \ {x}) = f[p] + Total((U \ {x}) \ {p})
        <5> HIDE DEF p, Total
        <5> QED BY <1>3, <3>1, <3>3
      <4>3. Total(U \ {p}) = f[x] + Total((U \ {x}) \ {p})
        <5> HIDE DEF p, Total
        <5> QED BY <3>2, <4>1, <3>3
      <4>4. f[x] \in Int /\ f[p] \in Int
        <5> HIDE DEF p
        <5> QED BY <3>1
      <4>5. Total((U \ {x}) \ {p}) \in Int
        <5>1. U \ {p} # U /\ (U \ {x}) \ {p} # U
          <6> HIDE DEF p
          <6> QED BY <3>1
        <5> HIDE DEF p, Total
        <5> QED BY <1>3, <5>1
      <4> HIDE DEF p, Total
      <4> QED BY <3>1, <4>2, <4>3, <4>4, <4>5
    <3>4. f[p] \in Int
      <4> HIDE DEF p
      <4> QED BY <3>1
    <3>5. Total(U) \in Int
      <4> HIDE DEF p, Total
      <4> QED BY <3>1, <3>2, <3>4
    <3>6. \A x \in U : Total(U) = f[x] + Total(U \ {x})
      <4> HIDE DEF p, Total
      <4> QED BY <3>1, <3>3
    <3> QED BY <3>5, <3>6
  <2> QED BY <2>1, <2>2
<1>4. F = {}
  <2>1. SUFFICES ASSUME F # {} PROVE FALSE
    OBVIOUS
  <2>2. PICK U \in F : \A V \in F : V \subseteq U => V = U
    <3>1. F \in SUBSET SUBSET S
      OBVIOUS
    <3> HIDE DEF F
    <3> QED BY <2>1, <3>1, LeastSet
  <2> HIDE DEF Good
  <2> QED BY <2>2, <1>3
<1>5. Good(S)
  <2> HIDE DEF Good
  <2> QED BY <1>4
<1> QED BY <1>1, <1>5

\* What holds of nothing, and of a set once it holds of the set without one of
\* its elements, holds of a finite set.
LEMMA ByElements ==
    ASSUME NEW S, IsFiniteSet(S), NEW Good, {} \in Good,
           \A T \in SUBSET S : \A x \in T : T \ {x} \in Good => T \in Good
    PROVE  S \in Good
<1> DEFINE F == (SUBSET S) \ Good
<1>1. SUFFICES ASSUME F # {} PROVE FALSE
  OBVIOUS
<1>2. PICK U \in F : \A V \in F : V \subseteq U => V = U
  <2>1. F \in SUBSET SUBSET S
    OBVIOUS
  <2> HIDE DEF F
  <2> QED BY <1>1, <2>1, LeastSet
<1>3. PICK x \in U : TRUE
  BY <1>2
<1>4. U \ {x} \in Good
  BY <1>2, <1>3
<1> QED BY <1>2, <1>3, <1>4

\* Equal terms, equal sums.
LEMMA SumOfEqual ==
    ASSUME NEW f, NEW g, NEW S, IsFiniteSet(S),
           \A x \in S : f[x] \in Int /\ g[x] = f[x]
    PROVE  SumFunctionOnSet(g, S) = SumFunctionOnSet(f, S)
<1> DEFINE Good == {T \in SUBSET S : SumFunctionOnSet(g, T) = SumFunctionOnSet(f, T)}
<1>1. {} \in Good
  BY SumByAny
<1>2. ASSUME NEW T \in SUBSET S, NEW x \in T, T \ {x} \in Good PROVE T \in Good
  <2>1. IsFiniteSet(T)
    BY FS_Subset
  <2>2. /\ SumFunctionOnSet(f, T) = f[x] + SumFunctionOnSet(f, T \ {x})
        /\ SumFunctionOnSet(g, T) = g[x] + SumFunctionOnSet(g, T \ {x})
    BY <2>1, SumByAny
  <2> QED BY <1>2, <2>2
<1>3. S \in Good
  <2> HIDE DEF Good
  <2> QED BY <1>1, <1>2, ByElements
<1> QED BY <1>3

\* A sum lies between the bounds of its terms, as often as there are terms.
LEMMA SumWithin ==
    ASSUME NEW f, NEW S, IsFiniteSet(S), NEW low \in Int, NEW high \in Int,
           \A x \in S : f[x] \in low .. high
    PROVE  /\ SumFunctionOnSet(f, S) \in Int
           /\ low * Cardinality(S) <= SumFunctionOnSet(f, S)
           /\ SumFunctionOnSet(f, S) <= high * Cardinality(S)
<1> DEFINE Good == {T \in SUBSET S : /\ low * Cardinality(T) <= SumFunctionOnSet(f, T)
                                     /\ SumFunctionOnSet(f, T) <= high * Cardinality(T)}
<1>0. \A x \in S : f[x] \in Int
  OBVIOUS
<1>1. {} \in Good
  <2>1. SumFunctionOnSet(f, {}) = 0
    BY <1>0, SumByAny
  <2> QED BY <2>1, FS_EmptySet
<1>2. ASSUME NEW T \in SUBSET S, NEW x \in T, T \ {x} \in Good PROVE T \in Good
  <2> DEFINE n == Cardinality(T \ {x})
             t == SumFunctionOnSet(f, T \ {x})
  <2>1. IsFiniteSet(T) /\ IsFiniteSet(T \ {x})
    BY FS_Subset
  <2>2. SumFunctionOnSet(f, T) = f[x] + t /\ t \in Int
    BY <1>0, <2>1, SumByAny
  <2>3. n \in Nat /\ Cardinality(T) = n + 1
    <3>1. Cardinality(T) \in Nat /\ Cardinality(T) # 0
      BY <2>1, FS_CardinalityType, FS_EmptySet
    <3> QED BY <3>1, <2>1, FS_RemoveElement, FS_CardinalityType
  <2>4. low * n <= t /\ t <= high * n
    BY <1>2
  <2>5. f[x] \in low .. high
    OBVIOUS
  <2>6. low * (n + 1) <= f[x] + t /\ f[x] + t <= high * (n + 1)
    <3>1. low * (n + 1) = low * n + low /\ high * (n + 1) = high * n + high
      <4> HIDE DEF n
      <4> QED BY <2>3
    <3>2. low * n \in Int /\ high * n \in Int
      <4> HIDE DEF n
      <4> QED BY <2>3
    <3> HIDE DEF n, t
    <3> QED BY <2>2, <2>4, <2>5, <3>1, <3>2
  <2> QED BY <2>2, <2>3, <2>6
<1>3. S \in Good
  <2> HIDE DEF Good
  <2> QED BY <1>1, <1>2, ByElements
<1> QED BY <1>0, <1>3, SumByAny

\* Sets that share nothing are as large together as their sizes add up to.
LEMMA DisjointUnion ==
    ASSUME NEW S, NEW T, IsFiniteSet(S), IsFiniteSet(T), S \cap T = {}
    PROVE  /\ IsFiniteSet(S \cup T)
           /\ Cardinality(S \cup T) = Cardinality(S) + Cardinality(T)
           /\ Cardinality(S) \in Nat /\ Cardinality(T) \in Nat
BY FS_Union, FS_EmptySet, FS_CardinalityType

\* The rows of some groups.
Having(R, key, groups) == {r \in R : key[r] \in groups}

\* A set grouped by a key: the sizes of the groups add up to the number of
\* elements that have one of the keys.
LEMMA SumOfGroups ==
    ASSUME NEW R, IsFiniteSet(R), NEW key, NEW D, IsFiniteSet(D), NEW size,
           \A k \in D : size[k] = Cardinality(Having(R, key, {k}))
    PROVE  SumFunctionOnSet(size, D) = Cardinality(Having(R, key, D))
<1> DEFINE In(E) == {r \in R : key[r] \in E}
           Good == {E \in SUBSET D : SumFunctionOnSet(size, E) = Cardinality(In(E))}
<1>1. ASSUME NEW k \in D PROVE size[k] \in Int
  <2> DEFINE one == Having(R, key, {k})
  <2>1. IsFiniteSet(one) /\ size[k] = Cardinality(one)
    BY FS_Subset DEF Having
  <2> HIDE DEF one
  <2> QED BY <2>1, FS_CardinalityType
<1>2. {} \in Good
  <2>1. SumFunctionOnSet(size, {}) = 0 /\ In({}) = {}
    BY <1>1, SumByAny
  <2> QED BY <2>1, FS_EmptySet
<1>3. ASSUME NEW E \in SUBSET D, NEW k \in E, E \ {k} \in Good PROVE E \in Good
  <2> DEFINE one == Having(R, key, {k})
             rest == In(E \ {k})
  <2>1. IsFiniteSet(E) /\ IsFiniteSet(one) /\ IsFiniteSet(rest)
    BY FS_Subset DEF Having
  <2>2. SumFunctionOnSet(size, E) = size[k] + SumFunctionOnSet(size, E \ {k})
    BY <2>1, <1>1, SumByAny
  <2>3. In(E) = one \cup rest /\ one \cap rest = {}
    BY DEF Having
  <2>4. Cardinality(In(E)) = Cardinality(one) + Cardinality(rest)
    <3> HIDE DEF one, rest, In
    <3> QED BY <2>1, <2>3, DisjointUnion
  <2>5. size[k] = Cardinality(one) /\ SumFunctionOnSet(size, E \ {k}) = Cardinality(rest)
    BY <1>3
  <2> HIDE DEF one, rest, In
  <2> QED BY <2>2, <2>4, <2>5
<1>4. D \in Good
  <2> HIDE DEF Good
  <2> QED BY <1>2, <1>3, ByElements
<1> QED BY <1>4 DEF Having

\* The image of a finite set is finite.
LEMMA ImageFinite ==
    ASSUME NEW S, IsFiniteSet(S), NEW f
    PROVE  IsFiniteSet({f[x] : x \in S})
<1> DEFINE Good == {T \in SUBSET S : IsFiniteSet({f[x] : x \in T})}
<1>1. {} \in Good
  <2>1. {f[x] : x \in {}} = {}
    OBVIOUS
  <2> QED BY <2>1, FS_EmptySet
<1>2. ASSUME NEW T \in SUBSET S, NEW x \in T, T \ {x} \in Good PROVE T \in Good
  <2> DEFINE rest == {f[y] : y \in T \ {x}}
  <2>1. {f[y] : y \in T} = rest \cup {f[x]}
    OBVIOUS
  <2>2. IsFiniteSet(rest \cup {f[x]})
    BY <1>2, FS_AddElement
  <2> QED BY <2>1, <2>2
<1>3. S \in Good
  <2> HIDE DEF Good
  <2> QED BY <1>1, <1>2, ByElements
<1> QED BY <1>3

-----------------------------------------------------------------------------
(* Views.                                                                  *)

\* One part: the rows of a group, counted by column.
Part(view, S, key, columns, all, g) ==
    [view |-> view, key |-> g[1], minute |-> g[2],
     count |-> [c \in all |-> Cardinality({r \in S : key[r] = g /\ c \in columns[r]})]]

\* A view of S: what TaskMetricsMv and QueueMetricsMv have in common.
Tally(view, S, key, columns, all) ==
    {Part(view, S, key, columns, all, g) : g \in {key[r] : r \in S}}

\* Two parts of one view that have one key are of one group, and their sum is
\* the part of the rows of both.
LEMMA PartsAdd ==
    ASSUME NEW view, NEW key, NEW columns, NEW all, NEW g,
           NEW S, NEW T, IsFiniteSet(S), IsFiniteSet(T), S \cap T = {}
    PROVE  LET p == Part(view, S, key, columns, all, g)
               q == Part(view, T, key, columns, all, g)
           IN  Part(view, S \cup T, key, columns, all, g) =
               [p EXCEPT !.count = [c \in DOMAIN @ |-> @[c] + q.count[c]]]
<1> DEFINE Of(X, c) == {r \in X : key[r] = g /\ c \in columns[r]}
<1>1. ASSUME NEW c \in all
      PROVE  Cardinality(Of(S \cup T, c)) = Cardinality(Of(S, c)) + Cardinality(Of(T, c))
  <2>1. Of(S \cup T, c) = Of(S, c) \cup Of(T, c) /\ Of(S, c) \cap Of(T, c) = {}
    OBVIOUS
  <2>2. IsFiniteSet(Of(S, c)) /\ IsFiniteSet(Of(T, c))
    BY FS_Subset
  <2> HIDE DEF Of
  <2> QED BY <2>1, <2>2, DisjointUnion
<1>2. [c \in all |-> Cardinality(Of(S \cup T, c))]
      = [c \in all |-> Cardinality(Of(S, c)) + Cardinality(Of(T, c))]
  <2> HIDE DEF Of
  <2> QED BY <1>1
<1> DEFINE cs == [c \in all |-> Cardinality(Of(S, c))]
           ct == [c \in all |-> Cardinality(Of(T, c))]
           p == [view |-> view, key |-> g[1], minute |-> g[2], count |-> cs]
           cu == [c \in all |-> Cardinality(Of(S \cup T, c))]
<1>3. /\ Part(view, S, key, columns, all, g) = p
      /\ Part(view, T, key, columns, all, g).count = ct
      /\ Part(view, S \cup T, key, columns, all, g)
         = [view |-> view, key |-> g[1], minute |-> g[2], count |-> cu]
  BY DEF Part
<1>6. [view |-> view, key |-> g[1], minute |-> g[2], count |-> cu] = [p EXCEPT !.count = cu]
  <2> HIDE DEF cu, cs
  <2> QED OBVIOUS
<1>4. [c \in DOMAIN cs |-> cs[c] + ct[c]] = cu
  <2> HIDE DEF Of
  <2> QED BY <1>2
<1>5. p.count = cs
  OBVIOUS
<1> HIDE DEF cs, ct, cu, p, Of
<1> QED BY <1>3, <1>4, <1>5, <1>6

\* Rows of no such group add nothing to a part.
LEMMA PartAlone ==
    ASSUME NEW view, NEW key, NEW columns, NEW all, NEW g, NEW S, NEW T,
           \A r \in T : key[r] # g
    PROVE  Part(view, S \cup T, key, columns, all, g) = Part(view, S, key, columns, all, g)
<1>1. \A c : {r \in S \cup T : key[r] = g /\ c \in columns[r]} = {r \in S : key[r] = g /\ c \in columns[r]}
  OBVIOUS
<1> QED BY <1>1 DEF Part

\* What SummingMergeTree makes of a view and of an insert into it is the view
\* of the rows of both.
LEMMA SummedTally ==
    ASSUME NEW view, NEW key, NEW columns, NEW all,
           NEW S, NEW T, IsFiniteSet(S), IsFiniteSet(T), S \cap T = {},
           \A r \in S \cup T : key[r] = <<key[r][1], key[r][2]>>
    PROVE  Summed(Tally(view, S, key, columns, all), Tally(view, T, key, columns, all))
           = Tally(view, S \cup T, key, columns, all)
<1> DEFINE P(X, g) == Part(view, X, key, columns, all, g)
           Keys(X) == {key[r] : r \in X}
           K(p) == <<p.view, p.key, p.minute>>
           ps == Tally(view, S, key, columns, all)
           qs == Tally(view, T, key, columns, all)
           plus(p, q) == [p EXCEPT !.count = [c \in DOMAIN @ |-> @[c] + q.count[c]]]
           alone == {p \in ps : {q \in qs : K(q) = K(p)} = {}}
           fresh == {q \in qs : \A p \in ps : K(p) # K(q)}
           both == UNION {{plus(p, q) : q \in {u \in qs : K(u) = K(p)}} : p \in ps}
<1>1. Summed(ps, qs) = alone \cup fresh \cup both
  BY DEF Summed
<1>2. \A X, g : K(P(X, g)) = <<view, g[1], g[2]>>
  BY DEF Part
<1>3. \A g, h \in Keys(S) \cup Keys(T) : <<view, g[1], g[2]>> = <<view, h[1], h[2]>> => g = h
  <2>1. \A g \in Keys(S) \cup Keys(T) : g = <<g[1], g[2]>>
    OBVIOUS
  <2> QED BY <2>1
<1>4. \A X, Y : \A g, h \in Keys(S) \cup Keys(T) : K(P(X, g)) = K(P(Y, h)) => g = h
  <2> HIDE DEF K, P, Keys
  <2> QED BY <1>2, <1>3
<1>5. /\ ps = {P(S, g) : g \in Keys(S)} /\ qs = {P(T, g) : g \in Keys(T)}
      /\ Tally(view, S \cup T, key, columns, all) = {P(S \cup T, g) : g \in Keys(S) \cup Keys(T)}
  <2>1. {key[r] : r \in S \cup T} = Keys(S) \cup Keys(T)
    OBVIOUS
  <2> QED BY <2>1 DEF Tally
<1>6. \A g \in Keys(S) \ Keys(T) : P(S \cup T, g) = P(S, g)
  <2>1. ASSUME NEW g \in Keys(S) \ Keys(T) PROVE P(S \cup T, g) = P(S, g)
    <3>1. \A r \in T : key[r] # g
      OBVIOUS
    <3>2. Part(view, S \cup T, key, columns, all, g) = Part(view, S, key, columns, all, g)
      <4> HIDE DEF Keys
      <4> QED BY <3>1, PartAlone
    <3> QED BY <3>2
  <2> HIDE DEF Keys, P
  <2> QED BY <2>1
<1>7. \A g \in Keys(T) \ Keys(S) : P(S \cup T, g) = P(T, g)
  <2>1. ASSUME NEW g \in Keys(T) \ Keys(S) PROVE P(S \cup T, g) = P(T, g)
    <3>1. \A r \in S : key[r] # g
      OBVIOUS
    <3>2. S \cup T = T \cup S
      OBVIOUS
    <3> QED BY <3>1, <3>2, PartAlone
  <2> HIDE DEF Keys, P
  <2> QED BY <2>1
<1>8. \A g \in Keys(S) \cap Keys(T) : P(S \cup T, g) = plus(P(S, g), P(T, g))
  <2> HIDE DEF Keys
  <2> QED BY PartsAdd
<1>9. alone = {P(S \cup T, g) : g \in Keys(S) \ Keys(T)}
  <2>1. alone = {P(S, g) : g \in Keys(S) \ Keys(T)}
    <3>1. ASSUME NEW g \in Keys(S)
          PROVE  {q \in qs : K(q) = K(P(S, g))} = {} <=> g \notin Keys(T)
      <4>1. CASE g \in Keys(T)
        <5>1. P(T, g) \in qs /\ K(P(T, g)) = K(P(S, g))
          BY <4>1, <1>5, <1>2
        <5> HIDE DEF K, P, Keys, qs
        <5> QED BY <4>1, <5>1
      <4>2. CASE g \notin Keys(T)
        <5> HIDE DEF K, P, Keys, qs
        <5> QED BY <4>2, <1>4, <1>5
      <4> QED BY <4>1, <4>2
    <3> HIDE DEF K, P, Keys, qs, ps
    <3> QED BY <3>1, <1>5
  <2> HIDE DEF K, P, Keys, qs, ps, alone
  <2> QED BY <2>1, <1>6
<1>10. fresh = {P(S \cup T, g) : g \in Keys(T) \ Keys(S)}
  <2>1. fresh = {P(T, g) : g \in Keys(T) \ Keys(S)}
    <3>1. ASSUME NEW g \in Keys(T)
          PROVE  (\A p \in ps : K(p) # K(P(T, g))) <=> g \notin Keys(S)
      <4>1. CASE g \in Keys(S)
        <5>1. P(S, g) \in ps /\ K(P(T, g)) = K(P(S, g))
          BY <4>1, <1>5, <1>2
        <5> HIDE DEF K, P, Keys, ps
        <5> QED BY <4>1, <5>1
      <4>2. CASE g \notin Keys(S)
        <5> HIDE DEF K, P, Keys, ps
        <5> QED BY <4>2, <1>4, <1>5
      <4> QED BY <4>1, <4>2
    <3> HIDE DEF K, P, Keys, qs, ps
    <3> QED BY <3>1, <1>5
  <2> HIDE DEF K, P, Keys, qs, ps, fresh
  <2> QED BY <2>1, <1>7
<1>11. both = {P(S \cup T, g) : g \in Keys(S) \cap Keys(T)}
  <2>1. both = {plus(P(S, g), P(T, g)) : g \in Keys(S) \cap Keys(T)}
    <3>1. ASSUME NEW x \in both PROVE \E g \in Keys(S) \cap Keys(T) : x = plus(P(S, g), P(T, g))
      <4>1. PICK p \in ps, q \in qs : K(q) = K(p) /\ x = plus(p, q)
        <5> HIDE DEF K, P, Keys, qs, ps, plus
        <5> QED BY <3>1
      <4>2. PICK g \in Keys(S) : p = P(S, g)
        BY <1>5
      <4>3. PICK h \in Keys(T) : q = P(T, h)
        BY <1>5
      <4>4. g = h
        <5> HIDE DEF K, P, Keys, qs, ps, plus
        <5> QED BY <4>1, <4>2, <4>3, <1>4
      <4> HIDE DEF K, P, Keys, qs, ps, plus
      <4> QED BY <4>1, <4>2, <4>3, <4>4
    <3>2. ASSUME NEW g \in Keys(S) \cap Keys(T) PROVE plus(P(S, g), P(T, g)) \in both
      <4>1. P(S, g) \in ps /\ P(T, g) \in qs /\ K(P(S, g)) = K(P(T, g))
        BY <1>5, <1>2
      <4> HIDE DEF K, P, Keys, qs, ps, plus
      <4> QED BY <4>1
    <3> HIDE DEF K, P, Keys, qs, ps, plus, both
    <3> QED BY <3>1, <3>2
  <2> HIDE DEF K, P, Keys, qs, ps, plus, both
  <2> QED BY <2>1, <1>8
<1>12. alone \cup fresh \cup both = {P(S \cup T, g) : g \in Keys(S) \cup Keys(T)}
  <2> HIDE DEF P, Keys, qs, ps, alone, fresh, both
  <2> QED BY <1>9, <1>10, <1>11
<1> HIDE DEF P, Keys, alone, fresh, both
<1> QED BY <1>1, <1>5, <1>12

\* Views do not mix.
InView(ps, view) == {p \in ps : p.view = view}

\* The two views are summed each on its own.
LEMMA SummedApart ==
    ASSUME NEW A, NEW B, \A p \in A : p.view \in {"tasks", "queues"},
           \A p \in B : p.view \in {"tasks", "queues"}
    PROVE  Summed(A, B) = Summed(InView(A, "tasks"), InView(B, "tasks"))
                          \cup Summed(InView(A, "queues"), InView(B, "queues"))
<1> DEFINE K(p) == <<p.view, p.key, p.minute>>
           plus(p, q) == [p EXCEPT !.count = [c \in DOMAIN @ |-> @[c] + q.count[c]]]
           alone(X, Y) == {p \in X : {q \in Y : K(q) = K(p)} = {}}
           fresh(X, Y) == {q \in Y : \A p \in X : K(p) # K(q)}
           both(X, Y) == UNION {{plus(p, q) : q \in {u \in Y : K(u) = K(p)}} : p \in X}
           At == InView(A, "tasks")
           Bt == InView(B, "tasks")
           Aq == InView(A, "queues")
           Bq == InView(B, "queues")
<1>1. \A X, Y : Summed(X, Y) = alone(X, Y) \cup fresh(X, Y) \cup both(X, Y)
  BY DEF Summed
<1>2. A = At \cup Aq /\ B = Bt \cup Bq
  BY DEF InView
<1>3. \A p \in At \cup Bt, q \in Aq \cup Bq : K(p) # K(q)
  BY DEF InView
<1>4. alone(A, B) = alone(At, Bt) \cup alone(Aq, Bq)
  <2> HIDE DEF K, At, Bt, Aq, Bq
  <2> QED BY <1>2, <1>3
<1>5. fresh(A, B) = fresh(At, Bt) \cup fresh(Aq, Bq)
  <2> HIDE DEF K, At, Bt, Aq, Bq
  <2> QED BY <1>2, <1>3
<1>6. both(A, B) = both(At, Bt) \cup both(Aq, Bq)
  <2> HIDE DEF K, plus, At, Bt, Aq, Bq
  <2> QED BY <1>2, <1>3
<1> HIDE DEF alone, fresh, both, At, Bt, Aq, Bq
<1>7. Summed(A, B) = Summed(At, Bt) \cup Summed(Aq, Bq)
  BY <1>1, <1>4, <1>5, <1>6
<1> QED BY <1>7 DEF At, Bt, Aq, Bq

-----------------------------------------------------------------------------
(* The store.                                                              *)

\* What each task is, or that it is not there yet.
LifeInv ==
    /\ life \in [Tasks -> Lives \cup {None}]
    /\ phase \in [Tasks -> {"born"} \cup EventTypes]
    /\ clock \in 0 .. MaxClock

\* An event of a task that exists, and the last one of a task revoked.
EventInv(e) ==
    /\ e.task \in Tasks /\ e.type \in EventTypes /\ e.at \in 0 .. clock
    /\ life[e.task] # None
    /\ e.type = "task-revoked" => phase[e.task] = "task-revoked"

\* Every earlier insert of an event has left a row.
Tried(x) ==
    /\ x.try \in Nat
    /\ \A k \in 0 .. x.try - 1 : \E r \in rows : KeyOf(r) = [KeyOf(x) EXCEPT !.try = k]

\* No insert of an event is still to come and in a row, or in two rows.
EventsInv ==
    /\ IsFiniteSet(wire) /\ IsFiniteSet(rows)
    /\ \A e \in wire : e = KeyOf(e) /\ EventInv(e) /\ Tried(e)
    /\ \A r \in rows : EventInv(r) /\ Tried(r) /\ KeyOf(r) \notin wire
    /\ \A r, s \in rows : KeyOf(r) = KeyOf(s) => r = s

\* The views are the sums of the rows.
ViewsInv == parts = TaskMetricsMv(rows) \cup QueueMetricsMv(rows)

\* A client is owed rows older than its cursor, and nothing once it is done.
PagerInv ==
    /\ DOMAIN pager = {"at", "list", "states", "cursor", "owed"}
    /\ pager.at \in {"idle", "reading", "done"}
    /\ pager.cursor \in 0 .. MaxClock + 1
    /\ pager.owed \subseteq Matching(pager.list, pager.states)
    /\ pager.at = "reading" => /\ pager.list \in {"events", "summary"}
                               /\ \A r \in pager.owed : r.at < pager.cursor
    /\ pager.at # "reading" => pager.owed = {}

QueriesInv == LifeInv /\ EventsInv /\ ViewsInv /\ PagerInv

\* The types of events and the state each stands for.
LEMMA StatesOfTypes ==
    /\ EventTypes = {"task-sent", "task-received", "task-started", "task-succeeded",
                     "task-failed", "task-retried", "task-revoked", "task-rejected",
                     "task-other"}
    /\ event_type_to_state["task-rejected"] = "REJECTED"
    /\ event_type_to_state["task-other"] = "PENDING"
    /\ event_type_to_state["task-sent"] = "PENDING"
    /\ event_type_to_state["task-received"] = "RECEIVED"
    /\ event_type_to_state["task-started"] = "STARTED"
    /\ event_type_to_state["task-succeeded"] = "SUCCESS"
    /\ event_type_to_state["task-failed"] = "FAILURE"
    /\ event_type_to_state["task-retried"] = "RETRY"
    /\ event_type_to_state["task-revoked"] = "REVOKED"
BY DEF EventTypes, event_type_to_state

\* What a worker reports next is an event type, and no revocation.
LEMMA NextTypesAre ==
    ASSUME NEW p
    PROVE  /\ NextTypes(p) \subseteq EventTypes \ {"task-revoked"}
           /\ NextTypes("task-revoked") = {}
<1>1. NextTypes("task-revoked") = {}
  BY DEF NextTypes
<1>2. NextTypes(p) \subseteq EventTypes \ {"task-revoked"}
  BY StatesOfTypes DEF NextTypes
<1> QED BY <1>1, <1>2

\* Of some rows one is as young as any.
LEMMA YoungestRow ==
    ASSUME NEW S, IsFiniteSet(S), S # {}, \A r \in S : r.at \in Int
    PROVE  /\ \E r \in S : \A s \in S : r.at >= s.at
           /\ Max({r.at : r \in S}) \in {r.at : r \in S}
           /\ \A s \in S : Max({r.at : r \in S}) >= s.at
           /\ Min({r.at : r \in S}) \in {r.at : r \in S}
           /\ \A s \in S : Min({r.at : r \in S}) <= s.at
<1> DEFINE at == [r \in S |-> r.at]
           A == {r.at : r \in S}
<1>1. A = {at[r] : r \in S} /\ A # {} /\ A \subseteq Int
  OBVIOUS
<1>2. IsFiniteSet(A)
  <2> HIDE DEF at, A
  <2> QED BY <1>1, ImageFinite
<1>3. Max(A) \in A /\ (\A x \in A : Max(A) >= x) /\ Min(A) \in A /\ \A x \in A : Min(A) <= x
  <2> HIDE DEF A
  <2> QED BY <1>1, <1>2, MaxOf, MinOf
<1>4. \A s \in S : s.at \in A
  OBVIOUS
<1>5. PICK r \in S : r.at = Max(A)
  <2>1. \A x \in A : \E r \in S : r.at = x
    OBVIOUS
  <2> HIDE DEF A
  <2> QED BY <1>3, <2>1
<1>6. \A s \in S : r.at >= s.at
  <2> HIDE DEF A
  <2> QED BY <1>3, <1>4, <1>5
<1>7. (\A s \in S : Max(A) >= s.at) /\ \A s \in S : Min(A) <= s.at
  <2> HIDE DEF A
  <2> QED BY <1>3, <1>4
<1> QED BY <1>3, <1>6, <1>7

\* The root that the rows of a task tell is a task or none.
LEMMA MergedRoot ==
    ASSUME LifeInv, EventsInv, NEW t
    PROVE  Merged(RowsOf(t), "root") \in Tasks \cup {None}
<1> DEFINE S == {r \in RowsOf(t) : Carried(r, "root") # None}
           c == CHOOSE r \in S : \A s \in S : r.at >= s.at
<1>1. ASSUME NEW r \in rows PROVE Carried(r, "root") \in Tasks \cup {None}
  <2>1. life[r.task] \in Lives
    BY EventStoreAssumption DEF LifeInv, EventsInv, EventInv
  <2> QED BY <2>1 DEF Lives, Carried
<1>2. S \subseteq rows /\ IsFiniteSet(S)
  BY FS_Subset DEF RowsOf, EventsInv
<1>3. \A r \in S : r.at \in Int
  BY <1>2 DEF EventsInv, EventInv, LifeInv
<1>4. S # {} => c \in S
  <2> HIDE DEF S
  <2>1. S # {} => \E r \in S : \A s \in S : r.at >= s.at
    BY <1>2, <1>3, YoungestRow
  <2> QED BY <2>1
<1>5. Merged(RowsOf(t), "root") = IF S = {} THEN None ELSE Carried(c, "root")
  BY DEF Merged
<1> HIDE DEF S, c
<1> QED BY <1>1, <1>2, <1>4, <1>5

\* A task retried by hand is one that was not there, and is a task like others.
LEMMA RetryIs ==
    ASSUME LifeInv, EventsInv, NEW t \in Tasks, NEW b \in Brokers, RetryTask(t, b)
    PROVE  \E n \in Tasks : /\ life[n] = None
                            /\ \E l \in Lives : life' = [life EXCEPT ![n] = l]
                            /\ wire' = wire \cup {Event(n, "task-sent")} \/ wire' = wire
<1> DEFINE n == CHOOSE n \in Tasks : life[n] = None
           l == publish_task(t, Merged(RowsOf(t), "root"), b)
<1>1. n \in Tasks /\ life[n] = None
  BY DEF RetryTask
<1>2. l \in Lives
  <2>1. life[t] \in Lives
    BY DEF RetryTask, LifeInv
  <2>2. Merged(RowsOf(t), "root") \in Tasks \cup {None}
    BY MergedRoot
  <2> HIDE DEF n
  <2> QED BY <2>1, <2>2 DEF publish_task, Lives
<1>3. /\ life' = [life EXCEPT ![n] = l]
      /\ wire' = wire \cup {Event(n, "task-sent")} \/ wire' = wire
  BY DEF RetryTask
<1> HIDE DEF n, l
<1> QED BY <1>1, <1>2, <1>3

\* An empty store.
LEMMA StoreBegins ==
    ASSUME StoreInit
    PROVE  LifeInv /\ EventsInv /\ ViewsInv
<1>1. LifeInv
  <2>1. PICK o \in Origins : life = [t \in Tasks |-> IF t \in DOMAIN o THEN o[t] ELSE None]
    BY DEF StoreInit
  <2>2. \A t \in DOMAIN o : o[t] \in Lives
    BY EventStoreAssumption
  <2>3. life \in [Tasks -> Lives \cup {None}]
    BY <2>1, <2>2
  <2>4. \A t \in Tasks : life[t] # None => life[t].phase \in {"born"} \cup EventTypes
    BY <2>3 DEF Lives
  <2>5. phase \in [Tasks -> {"born"} \cup EventTypes]
    BY <2>4 DEF StoreInit
  <2>6. clock \in 0 .. MaxClock
    BY EventStoreAssumption DEF StoreInit
  <2> QED BY <2>3, <2>5, <2>6 DEF LifeInv
<1>2. EventsInv
  BY FS_EmptySet DEF StoreInit, EventsInv
<1>3. ViewsInv
  BY DEF StoreInit, ViewsInv, TaskMetricsMv, QueueMetricsMv
<1> QED BY <1>1, <1>2, <1>3

\* A step leaves the tasks what a task may be.
LEMMA LifeKept ==
    ASSUME LifeInv, EventsInv, StoreNext
    PROVE  LifeInv'
<1>1. CASE Tick
  BY <1>1, EventStoreAssumption DEF Tick, LifeInv
<1>2. CASE InsertTaskEvents
  BY <1>2 DEF InsertTaskEvents, LifeInv
<1>3. ASSUME NEW t \in Tasks, Emit(t) PROVE LifeInv'
  BY <1>3, NextTypesAre DEF Emit, LifeInv
<1>4. ASSUME NEW t \in Tasks, RevokeTask(t) PROVE LifeInv'
  BY <1>4, StatesOfTypes DEF RevokeTask, LifeInv
<1>5. ASSUME NEW t \in Tasks, NEW b \in Brokers, RetryTask(t, b) PROVE LifeInv'
  <2>1. PICK n \in Tasks : \E l \in Lives : life' = [life EXCEPT ![n] = l]
    BY <1>5, RetryIs
  <2>2. UNCHANGED <<phase, clock>>
    BY <1>5 DEF RetryTask
  <2> QED BY <2>1, <2>2 DEF LifeInv
<1> QED BY <1>1, <1>2, <1>3, <1>4, <1>5 DEF StoreNext

\* An event not seen before joins those on the wire.
LEMMA EventAdded ==
    ASSUME LifeInv, EventsInv, NEW t \in Tasks, NEW type \in EventTypes,
           Unreported(Event(t, type)), wire' = wire \cup {Event(t, type)},
           rows' = rows, clock' = clock,
           \A u \in Tasks : life[u] # None => life'[u] # None,
           \A u \in Tasks : phase[u] = "task-revoked" => phase'[u] = "task-revoked",
           life'[t] # None,
           type = "task-revoked" => phase'[t] = "task-revoked"
    PROVE  EventsInv'
<1>0. PICK e : e = Event(t, type)
  OBVIOUS
<1>1. e = KeyOf(e) /\ e.task = t /\ e.type = type /\ e.at = clock /\ e.try = 0
  BY <1>0 DEF Event, KeyOf
<1>2. EventInv(e)'
  BY <1>1 DEF EventInv, LifeInv
<1>3. \A r \in wire \cup rows : EventInv(r)' /\ Tried(r)'
  BY DEF EventInv, EventsInv, Tried, KeyOf
<1>9. Tried(e)'
  BY <1>1 DEF Tried
<1>4. IsFiniteSet(wire') /\ IsFiniteSet(rows')
  BY FS_AddElement DEF EventsInv
<1>5. \A r \in rows : KeyOf(r) # e /\ KeyOf(r) \notin wire
  <2>1. ASSUME NEW r \in rows, KeyOf(r) = e PROVE FALSE
    <3>1. r.task = e.task /\ r.type = e.type /\ r.at = e.at
      BY <2>1 DEF KeyOf
    <3> QED BY <3>1, <1>0 DEF Unreported
  <2> QED BY <2>1 DEF EventsInv
<1>6. \A x \in wire' : x = KeyOf(x) /\ EventInv(x)' /\ Tried(x)'
  <2>1. wire' = wire \cup {e}
    BY <1>0
  <2>2. \A x \in wire : x = KeyOf(x)
    BY DEF EventsInv
  <2> QED BY <1>1, <1>2, <1>3, <1>9, <2>1, <2>2
<1>7. \A r \in rows' : EventInv(r)' /\ Tried(r)' /\ KeyOf(r) \notin wire'
  BY <1>0, <1>3, <1>5
<1>8. \A r, s \in rows' : KeyOf(r) = KeyOf(s) => r = s
  BY DEF EventsInv
<1> QED BY <1>4, <1>6, <1>7, <1>8 DEF EventsInv, KeyOf

\* What is to be inserted again has no row of that try yet.
LEMMA AgainIsNew ==
    ASSUME EventsInv, NEW e \in wire, NEW x \in wire \cup rows
    PROVE  KeyOf(x) # Again(e)
<1>1. e = [task |-> e.task, type |-> e.type, at |-> e.at, try |-> e.try] /\ e.try \in Nat
  BY DEF EventsInv, KeyOf, Tried
<1>2. Tried(x)
  BY DEF EventsInv
<1>3. ASSUME KeyOf(x) = Again(e) PROVE FALSE
  <2>1. x.task = e.task /\ x.type = e.type /\ x.at = e.at /\ x.try = e.try + 1
    BY <1>1, <1>3 DEF KeyOf, Again
  <2>2. e.try \in 0 .. x.try - 1
    BY <1>1, <2>1
  <2>3. PICK r \in rows : KeyOf(r) = [KeyOf(x) EXCEPT !.try = e.try]
    BY <1>2, <2>2 DEF Tried
  <2>4. [KeyOf(x) EXCEPT !.try = e.try] = e
    BY <1>1, <2>1 DEF KeyOf
  <2> QED BY <2>3, <2>4 DEF EventsInv
<1> QED BY <1>3

\* Where an event has been tried, more rows change nothing, and once it is stored
\* it may be tried again.
LEMMA TriedStays ==
    ASSUME NEW x, Tried(x), rows \subseteq rows'
    PROVE  /\ Tried(x)'
           /\ \A r : KeyOf(r) = KeyOf(x) => Tried(r)'
<1>1. Tried(x)'
  BY DEF Tried, KeyOf
<1>2. ASSUME NEW r, KeyOf(r) = KeyOf(x) PROVE Tried(r)'
  <2>1. r.try = x.try
    BY <1>2 DEF KeyOf
  <2> QED BY <1>1, <1>2, <2>1 DEF Tried
<1> QED BY <1>1, <1>2

LEMMA TriedAgain ==
    ASSUME NEW e, e = KeyOf(e), Tried(e), rows \subseteq rows', \E r \in rows' : KeyOf(r) = e
    PROVE  Again(e) = KeyOf(Again(e)) /\ Tried(Again(e))'
<1>1. PICK a : a = Again(e)
  OBVIOUS
<1>2. /\ e.try \in Nat
      /\ e = [task |-> e.task, type |-> e.type, at |-> e.at, try |-> e.try]
  BY DEF Tried, KeyOf
<1>3. a = [task |-> e.task, type |-> e.type, at |-> e.at, try |-> e.try + 1]
  BY <1>1, <1>2 DEF Again
<1>4. a = KeyOf(a) /\ a.try = e.try + 1
  BY <1>3 DEF KeyOf
<1>5. ASSUME NEW k \in 0 .. a.try - 1
      PROVE  \E r \in rows' : KeyOf(r) = [KeyOf(a) EXCEPT !.try = k]
  <2>1. [KeyOf(a) EXCEPT !.try = k] = [KeyOf(e) EXCEPT !.try = k]
    BY <1>2, <1>3 DEF KeyOf
  <2>2. CASE k = e.try
    <3>1. [KeyOf(e) EXCEPT !.try = k] = e
      BY <1>2, <2>2 DEF KeyOf
    <3> QED BY <2>1, <3>1
  <2>3. CASE k # e.try
    <3>1. k \in 0 .. e.try - 1
      BY <1>2, <1>4, <2>3
    <3>2. PICK r \in rows : KeyOf(r) = [KeyOf(e) EXCEPT !.try = k]
      BY <3>1 DEF Tried
    <3> QED BY <2>1, <3>2
  <2> QED BY <2>2, <2>3
<1>6. Tried(a)'
  <2>1. a.try \in Nat
    BY <1>2, <1>4
  <2> QED BY <1>5, <2>1 DEF Tried, KeyOf
<1> QED BY <1>1, <1>4, <1>6

\* An insert takes events off the wire and, when it is not heard of, puts them
\* back to be tried again.
LEMMA InsertKeeps ==
    ASSUME LifeInv, EventsInv, UNCHANGED <<life, phase, clock>>,
           NEW events \in SUBSET wire, NEW again \in SUBSET events, NEW batch,
           wire' = (wire \ events) \cup {Again(e) : e \in again},
           rows' = rows \cup batch,
           \A r \in batch : KeyOf(r) \in events,
           \A e \in events : \E r \in batch : KeyOf(r) = e,
           \A r, s \in batch : KeyOf(r) = KeyOf(s) => r = s,
           IsFiniteSet(batch)
    PROVE  EventsInv'
<1>1. rows \subseteq rows'
  OBVIOUS
<1>2. \A x \in wire \cup rows : EventInv(x)' /\ Tried(x)'
  <2>1. ASSUME NEW x \in wire \cup rows PROVE EventInv(x)' /\ Tried(x)'
    <3>1. EventInv(x) /\ Tried(x)
      BY DEF EventsInv
    <3> QED BY <1>1, <3>1, TriedStays DEF EventInv
  <2> QED BY <2>1
<1>3. ASSUME NEW r \in batch PROVE EventInv(r)' /\ Tried(r)' /\ KeyOf(r) \in events
  <2>1. PICK e \in events : KeyOf(r) = e
    OBVIOUS
  <2>2. e = KeyOf(e) /\ Tried(e) /\ EventInv(e)'
    BY <1>2 DEF EventsInv
  <2>3. r.task = e.task /\ r.type = e.type /\ r.at = e.at
    BY <2>1, <2>2 DEF KeyOf
  <2>4. EventInv(r)'
    BY <2>2, <2>3 DEF EventInv
  <2>5. Tried(r)'
    BY <1>1, <2>1, <2>2, TriedStays
  <2> QED BY <2>4, <2>5
<1>4. ASSUME NEW e \in again
      PROVE  Again(e) = KeyOf(Again(e)) /\ EventInv(Again(e))' /\ Tried(Again(e))'
  <2>1. e \in wire /\ e = KeyOf(e) /\ Tried(e) /\ EventInv(e)'
    BY <1>2 DEF EventsInv
  <2>2. Again(e) = KeyOf(Again(e)) /\ Tried(Again(e))'
    BY <1>1, <2>1, TriedAgain
  <2>3. /\ Again(e).task = e.task /\ Again(e).type = e.type /\ Again(e).at = e.at
    BY <2>1 DEF Again, KeyOf
  <2>4. EventInv(Again(e))'
    BY <2>1, <2>3 DEF EventInv
  <2> QED BY <2>2, <2>4
<1>5. IsFiniteSet(wire') /\ IsFiniteSet(rows')
  <2>1. IsFiniteSet(again) /\ IsFiniteSet(wire \ events)
    BY FS_Subset DEF EventsInv
  <2> DEFINE next == [e \in again |-> Again(e)]
  <2>2. IsFiniteSet({next[e] : e \in again})
    <3> HIDE DEF next
    <3> QED BY <2>1, ImageFinite
  <2>3. {next[e] : e \in again} = {Again(e) : e \in again}
    OBVIOUS
  <2> HIDE DEF next
  <2> QED BY <2>1, <2>2, <2>3, FS_Union DEF EventsInv
<1>6. \A x \in wire' : x = KeyOf(x) /\ EventInv(x)' /\ Tried(x)'
  BY <1>2, <1>4 DEF EventsInv
<1>7. ASSUME NEW r \in rows' PROVE EventInv(r)' /\ Tried(r)' /\ KeyOf(r) \notin wire'
  <2>1. EventInv(r)' /\ Tried(r)'
    BY <1>2, <1>3
  <2>2. KeyOf(r) \notin wire \ events
    BY <1>3 DEF EventsInv
  <2>3. ASSUME NEW e \in again PROVE KeyOf(r) # Again(e)
    <3>1. CASE r \in rows
      BY <3>1, AgainIsNew
    <3>2. CASE r \in batch
      <4>1. KeyOf(r) \in wire /\ KeyOf(KeyOf(r)) = KeyOf(r)
        BY <1>3, <3>2 DEF KeyOf
      <4>2. KeyOf(KeyOf(r)) # Again(e)
        BY <4>1, AgainIsNew
      <4> QED BY <4>1, <4>2
    <3> QED BY <3>1, <3>2
  <2> QED BY <2>1, <2>2, <2>3
<1>8. \A r, s \in rows' : KeyOf(r) = KeyOf(s) => r = s
  BY <1>3 DEF EventsInv
<1> QED BY <1>5, <1>6, <1>7, <1>8 DEF EventsInv, KeyOf

\* A step neither loses what an event is nor stores one try twice.
LEMMA EventsKept ==
    ASSUME LifeInv, EventsInv, StoreNext
    PROVE  EventsInv'
<1>1. CASE Tick
  BY <1>1 DEF Tick, LifeInv, EventsInv, EventInv, Tried, KeyOf
<1>2. CASE InsertTaskEvents
  <2>1. PICK events \in SUBSET wire, again \in SUBSET wire, blank \in SUBSET wire :
            /\ again \in SUBSET events
            /\ wire' = (wire \ events) \cup {Again(e) : e \in again}
            /\ rows' = rows \cup {Row(e, blank) : e \in events}
    <3>1. PICK events \in SUBSET wire :
            /\ wire' = wire \ events \/ wire' = (wire \ events) \cup {Again(e) : e \in events}
            /\ \E blank \in SUBSET {e \in events : e.type \in MayLackName} :
                  rows' = rows \cup {Row(e, blank) : e \in events}
      BY <1>2 DEF InsertTaskEvents
    <3>2. PICK blank \in SUBSET events : rows' = rows \cup {Row(e, blank) : e \in events}
      BY <3>1
    <3>3. \E again \in SUBSET wire : /\ again \in SUBSET events
                                    /\ wire' = (wire \ events) \cup {Again(e) : e \in again}
      <4>1. CASE wire' = wire \ events
        <5>1. {Again(e) : e \in {}} = {}
          OBVIOUS
        <5>2. wire' = (wire \ events) \cup {Again(e) : e \in {}}
          BY <4>1, <5>1
        <5>3. {} \in SUBSET wire /\ {} \in SUBSET events
          OBVIOUS
        <5> QED BY <5>2, <5>3
      <4>2. CASE wire' = (wire \ events) \cup {Again(e) : e \in events}
        BY <4>2
      <4> QED BY <3>1, <4>1, <4>2
    <3>4. blank \in SUBSET wire
      OBVIOUS
    <3> QED BY <3>2, <3>3, <3>4
  <2> DEFINE row == [e \in events |-> Row(e, blank)]
             batch == {Row(e, blank) : e \in events}
  <2>2. UNCHANGED <<life, phase, clock>>
    BY <1>2 DEF InsertTaskEvents
  <2>3. \A e \in events : Row(e, blank) \in batch /\ KeyOf(Row(e, blank)) = e
    BY DEF Row, EventsInv, KeyOf
  <2>4. IsFiniteSet(batch)
    <3>1. IsFiniteSet(events) /\ batch = {row[e] : e \in events}
      BY FS_Subset DEF EventsInv
    <3> HIDE DEF row, batch
    <3> QED BY <3>1, ImageFinite
  <2>5. \A r \in batch : \E e \in events : r = Row(e, blank)
    OBVIOUS
  <2>6. \A r, s \in batch : KeyOf(r) = KeyOf(s) => r = s
    <3> HIDE DEF batch
    <3> QED BY <2>3, <2>5
  <2>7. /\ \A r \in batch : KeyOf(r) \in events
        /\ \A e \in events : \E r \in batch : KeyOf(r) = e
    <3> HIDE DEF batch
    <3> QED BY <2>3, <2>5
  <2>8. rows' = rows \cup batch
    BY <2>1
  <2> HIDE DEF batch
  <2> QED BY <2>1, <2>2, <2>4, <2>6, <2>7, <2>8, InsertKeeps
<1>3. ASSUME NEW t \in Tasks, Emit(t) PROVE EventsInv'
  <2>1. PICK type \in NextTypes(phase[t]) :
          /\ Unreported(Event(t, type)) /\ wire' = wire \cup {Event(t, type)}
          /\ phase' = [phase EXCEPT ![t] = type]
    BY <1>3 DEF Emit
  <2>2. type \in EventTypes /\ type # "task-revoked" /\ phase[t] # "task-revoked"
    BY <2>1, NextTypesAre
  <2>3. life' = life /\ rows' = rows /\ clock' = clock /\ life[t] # None
    BY <1>3 DEF Emit
  <2> QED BY <2>1, <2>2, <2>3, EventAdded DEF LifeInv
<1>4. ASSUME NEW t \in Tasks, RevokeTask(t) PROVE EventsInv'
  <2>1. /\ life' = life /\ rows' = rows /\ clock' = clock /\ life[t] # None
        /\ wire' = wire \cup {Event(t, "task-revoked")}
        /\ phase' = [phase EXCEPT ![t] = "task-revoked"]
        /\ phase[t] # "task-revoked"
    BY <1>4 DEF RevokeTask
  <2>2. Unreported(Event(t, "task-revoked"))
    BY <2>1 DEF Unreported, Event, EventsInv, EventInv
  <2>3. "task-revoked" \in EventTypes
    BY StatesOfTypes
  <2> QED BY <2>1, <2>2, <2>3, EventAdded DEF LifeInv
<1>5. ASSUME NEW t \in Tasks, NEW b \in Brokers, RetryTask(t, b) PROVE EventsInv'
  <2>1. PICK n \in Tasks : /\ life[n] = None
                           /\ \E l \in Lives : life' = [life EXCEPT ![n] = l]
                           /\ wire' = wire \cup {Event(n, "task-sent")} \/ wire' = wire
    BY <1>5, RetryIs
  <2>2. phase' = phase /\ clock' = clock /\ rows' = rows
    BY <1>5 DEF RetryTask
  <2>3. /\ life'[n] # None
        /\ \A u \in Tasks : life[u] # None => life'[u] # None
    BY <2>1, EventStoreAssumption DEF LifeInv
  <2>4. Unreported(Event(n, "task-sent"))
    BY <2>1 DEF Unreported, Event, EventsInv, EventInv
  <2>5. CASE wire' = wire
    BY <2>2, <2>3, <2>5 DEF EventsInv, EventInv, Tried, KeyOf
  <2>6. CASE wire' = wire \cup {Event(n, "task-sent")}
    <3>1. "task-sent" \in EventTypes /\ "task-sent" # "task-revoked"
      BY StatesOfTypes
    <3> QED BY <2>2, <2>3, <2>4, <2>6, <3>1, EventAdded
  <2> QED BY <2>1, <2>5, <2>6
<1> QED BY <1>1, <1>2, <1>3, <1>4, <1>5 DEF StoreNext

\* The two views as tallies of the rows they count.
DoneRows(R) == {r \in R : StateOf(r) \in Finished}
TaskKey(U) == [r \in U |-> <<r.name, MinuteOf(r)>>]
TaskColumns(U) == [r \in U |-> {StateOf(r)}]
TaskView(U, R) == Tally("tasks", DoneRows(R), TaskKey(U), TaskColumns(U), Finished)

CountedRows(R) == {r \in R : \E c \in DOMAIN QueueColumn : QueueColumn[c] = r.type}
QueueKey(U) == [r \in U |-> <<Carried(r, "queue"), MinuteOf(r)>>]
QueueColumns(U) == [r \in U |-> {c \in DOMAIN QueueColumn : QueueColumn[c] = r.type}]
QueueView(U, R) == Tally("queues", CountedRows(R), QueueKey(U), QueueColumns(U), DOMAIN QueueColumn)

\* The view of the tasks, and that of the queues, as groups counted by column.
LEMMA TaskViewIs ==
    ASSUME NEW U, NEW R \in SUBSET U
    PROVE  TaskMetricsMv(R) = TaskView(U, R)
<1> DEFINE D == DoneRows(R)
           k == TaskKey(U)
           cs == TaskColumns(U)
           group(r) == <<r.name, MinuteOf(r)>>
           there(g) == [view |-> "tasks", key |-> g[1], minute |-> g[2],
                count |-> [s \in Finished |-> Cardinality({r \in D : group(r) = g /\ StateOf(r) = s})]]
<1>1. \A r \in D : k[r] = group(r) /\ \A s \in Finished : s \in cs[r] <=> StateOf(r) = s
  BY DEF DoneRows, TaskKey, TaskColumns
<1>2. \A g : \A s \in Finished : {r \in D : group(r) = g /\ StateOf(r) = s} = {r \in D : k[r] = g /\ s \in cs[r]}
  <2> HIDE DEF D, k, cs, group
  <2> QED BY <1>1
<1>3. ASSUME NEW g PROVE there(g) = Part("tasks", D, k, cs, Finished, g)
  <2> HIDE DEF D, k, cs, group
  <2> DEFINE one(s) == {r \in D : group(r) = g /\ StateOf(r) = s}
             other(s) == {r \in D : k[r] = g /\ s \in cs[r]}
  <2>1. [s \in Finished |-> Cardinality(one(s))] = [s \in Finished |-> Cardinality(other(s))]
    <3>1. \A s \in Finished : one(s) = other(s)
      BY <1>2
    <3> HIDE DEF one, other
    <3> QED BY <3>1
  <2> QED BY <2>1 DEF Part
<1>4. {group(r) : r \in D} = {k[r] : r \in D}
  <2> HIDE DEF D, k, cs, group
  <2> QED BY <1>1
<1>5. TaskMetricsMv(R) = {there(g) : g \in {group(r) : r \in D}}
  BY DEF TaskMetricsMv, DoneRows
<1>6. TaskView(U, R) = {Part("tasks", D, k, cs, Finished, g) : g \in {k[r] : r \in D}}
  BY DEF TaskView, Tally
<1> HIDE DEF there, D, k, cs, group
<1> QED BY <1>3, <1>4, <1>5, <1>6

LEMMA QueueViewIs ==
    ASSUME NEW U, NEW R \in SUBSET U
    PROVE  QueueMetricsMv(R) = QueueView(U, R)
<1> DEFINE D == CountedRows(R)
           k == QueueKey(U)
           cs == QueueColumns(U)
           all == DOMAIN QueueColumn
           group(r) == <<Carried(r, "queue"), MinuteOf(r)>>
           there(g) == [view |-> "queues", key |-> g[1], minute |-> g[2],
                count |-> [c \in all |-> Cardinality({r \in D : group(r) = g /\ r.type = QueueColumn[c]})]]
<1>1. \A r \in D : k[r] = group(r) /\ \A c \in all : c \in cs[r] <=> r.type = QueueColumn[c]
  BY DEF CountedRows, QueueKey, QueueColumns
<1>2. \A g : \A c \in all : {r \in D : group(r) = g /\ r.type = QueueColumn[c]} = {r \in D : k[r] = g /\ c \in cs[r]}
  <2> HIDE DEF D, k, cs, group, all
  <2> QED BY <1>1
<1>3. ASSUME NEW g PROVE there(g) = Part("queues", D, k, cs, all, g)
  <2> HIDE DEF D, k, cs, group, all
  <2>1. [c \in all |-> Cardinality({r \in D : group(r) = g /\ r.type = QueueColumn[c]})]
        = [c \in all |-> Cardinality({r \in D : k[r] = g /\ c \in cs[r]})]
    BY <1>2
  <2> QED BY <2>1 DEF Part
<1>4. {group(r) : r \in D} = {k[r] : r \in D}
  <2> HIDE DEF D, k, cs, group
  <2> QED BY <1>1
<1>5. QueueMetricsMv(R) = {there(g) : g \in {group(r) : r \in D}}
  BY DEF QueueMetricsMv, CountedRows
<1>6. QueueView(U, R) = {Part("queues", D, k, cs, all, g) : g \in {k[r] : r \in D}}
  BY DEF QueueView, Tally
<1> HIDE DEF there, D, k, cs, all, group
<1> QED BY <1>3, <1>4, <1>5, <1>6

\* An insert adds to the views what its rows add to the sums.
LEMMA ViewsAdd ==
    ASSUME NEW R, NEW B, IsFiniteSet(R), IsFiniteSet(B), R \cap B = {}
    PROVE  Summed(TaskMetricsMv(R) \cup QueueMetricsMv(R), TaskMetricsMv(B) \cup QueueMetricsMv(B))
           = TaskMetricsMv(R \cup B) \cup QueueMetricsMv(R \cup B)
<1> DEFINE U == R \cup B
<1>1. \A X \in SUBSET U : TaskMetricsMv(X) = TaskView(U, X) /\ QueueMetricsMv(X) = QueueView(U, X)
  BY TaskViewIs, QueueViewIs
<1>2. R \in SUBSET U /\ B \in SUBSET U /\ U \in SUBSET U
  OBVIOUS
<1>3. Summed(TaskView(U, R), TaskView(U, B)) = TaskView(U, U)
  <2>1. DoneRows(U) = DoneRows(R) \cup DoneRows(B) /\ DoneRows(R) \cap DoneRows(B) = {}
    BY DEF DoneRows
  <2>2. IsFiniteSet(DoneRows(R)) /\ IsFiniteSet(DoneRows(B))
    BY FS_Subset DEF DoneRows
  <2>3. \A r \in DoneRows(R) \cup DoneRows(B) : TaskKey(U)[r] = <<TaskKey(U)[r][1], TaskKey(U)[r][2]>>
    BY DEF DoneRows, TaskKey
  <2> HIDE DEF U
  <2> QED BY <2>1, <2>2, <2>3, SummedTally DEF TaskView
<1>4. Summed(QueueView(U, R), QueueView(U, B)) = QueueView(U, U)
  <2>1. CountedRows(U) = CountedRows(R) \cup CountedRows(B) /\ CountedRows(R) \cap CountedRows(B) = {}
    BY DEF CountedRows
  <2>2. IsFiniteSet(CountedRows(R)) /\ IsFiniteSet(CountedRows(B))
    BY FS_Subset DEF CountedRows
  <2>3. \A r \in CountedRows(R) \cup CountedRows(B) : QueueKey(U)[r] = <<QueueKey(U)[r][1], QueueKey(U)[r][2]>>
    BY DEF CountedRows, QueueKey
  <2> HIDE DEF U
  <2> QED BY <2>1, <2>2, <2>3, SummedTally DEF QueueView
<1>5. \A X : /\ \A p \in TaskView(U, X) : p.view = "tasks"
             /\ \A p \in QueueView(U, X) : p.view = "queues"
  BY DEF TaskView, QueueView, Tally, Part
<1>6. Summed(TaskView(U, R) \cup QueueView(U, R), TaskView(U, B) \cup QueueView(U, B))
      = TaskView(U, U) \cup QueueView(U, U)
  <2> HIDE DEF U
  <2>1. PICK ps : ps = TaskView(U, R) \cup QueueView(U, R)
    OBVIOUS
  <2>2. PICK qs : qs = TaskView(U, B) \cup QueueView(U, B)
    OBVIOUS
  <2>3. (\A p \in ps : p.view \in {"tasks", "queues"}) /\ \A p \in qs : p.view \in {"tasks", "queues"}
    BY <1>5, <2>1, <2>2
  <2>4. /\ InView(ps, "tasks") = TaskView(U, R) /\ InView(ps, "queues") = QueueView(U, R)
        /\ InView(qs, "tasks") = TaskView(U, B) /\ InView(qs, "queues") = QueueView(U, B)
    BY <1>5, <2>1, <2>2 DEF InView
  <2>5. Summed(ps, qs) = Summed(InView(ps, "tasks"), InView(qs, "tasks"))
                         \cup Summed(InView(ps, "queues"), InView(qs, "queues"))
    BY <2>3, SummedApart
  <2> QED BY <1>3, <1>4, <2>1, <2>2, <2>4, <2>5
<1> QED BY <1>1, <1>2, <1>6

\* The view of all rows, in this state and in the next one.
LEMMA QueueViewOfRows ==
    QueueMetricsMv(rows) = QueueView(rows, rows)
BY QueueViewIs

LEMMA QueueViewOfNextRows ==
    (QueueMetricsMv(rows) = QueueView(rows, rows))'
BY QueueViewOfRows, PTL

\* A view changes with its rows alone: what a row's task is does not change.
LEMMA ViewsStay ==
    ASSUME LifeInv, EventsInv, rows' = rows, NEW n \in Tasks, life[n] = None,
           \A t \in Tasks \ {n} : life'[t] = life[t]
    PROVE  TaskMetricsMv(rows)' = TaskMetricsMv(rows) /\ QueueMetricsMv(rows)' = QueueMetricsMv(rows)
<1>1. \A r \in rows : Carried(r, "queue")' = Carried(r, "queue")
  BY DEF EventsInv, EventInv, Carried
<1>2. TaskMetricsMv(rows)' = TaskMetricsMv(rows)
  BY DEF TaskMetricsMv, MinuteOf, StateOf
<1>3. CountedRows(rows)' = CountedRows(rows) /\ CountedRows(rows) \subseteq rows
  BY DEF CountedRows
<1>4. QueueKey(rows)' = QueueKey(rows) /\ QueueColumns(rows)' = QueueColumns(rows)
  BY <1>1 DEF QueueKey, QueueColumns, MinuteOf
<1>5. QueueView(rows, rows)' = QueueView(rows, rows)
  BY <1>3, <1>4 DEF QueueView, Tally, Part
<1> QED BY <1>2, <1>5, QueueViewOfRows, QueueViewOfNextRows

\* An insert adds to the views what its rows count; nothing else touches them.
LEMMA ViewsKept ==
    ASSUME LifeInv, EventsInv, ViewsInv, StoreNext
    PROVE  ViewsInv'
<1>1. CASE rows' = rows /\ parts' = parts /\ life' = life
  BY <1>1 DEF ViewsInv, TaskMetricsMv, QueueMetricsMv, MinuteOf, StateOf, Carried
<1>2. CASE InsertTaskEvents
  <2>1. PICK events \in SUBSET wire, blank \in SUBSET wire :
            LET batch == {Row(e, blank) : e \in events} IN
            /\ rows' = rows \cup batch
            /\ parts' = Summed(parts, TaskMetricsMv(batch) \cup QueueMetricsMv(batch))
    BY <1>2 DEF InsertTaskEvents
  <2>2. life' = life
    BY <1>2 DEF InsertTaskEvents
  <2> DEFINE row == [e \in events |-> Row(e, blank)]
             batch == {Row(e, blank) : e \in events}
  <2>3. IsFiniteSet(batch)
    <3>1. IsFiniteSet(events) /\ batch = {row[e] : e \in events}
      BY FS_Subset DEF EventsInv
    <3> HIDE DEF row, batch
    <3> QED BY <3>1, ImageFinite
  <2>4. rows \cap batch = {}
    BY DEF EventsInv, Row, KeyOf
  <2>5. PICK B : B = batch
    OBVIOUS
  <2>6. rows' = rows \cup B /\ parts' = Summed(parts, TaskMetricsMv(B) \cup QueueMetricsMv(B))
    BY <2>1, <2>5
  <2>7. PICK R : R = rows
    OBVIOUS
  <2>8. parts' = TaskMetricsMv(R \cup B) \cup QueueMetricsMv(R \cup B)
    <3> HIDE DEF batch
    <3> QED BY <2>3, <2>4, <2>5, <2>6, <2>7, ViewsAdd DEF ViewsInv, EventsInv
  <2>9. /\ TaskMetricsMv(R \cup B)' = TaskMetricsMv(R \cup B)
        /\ QueueMetricsMv(R \cup B)' = QueueMetricsMv(R \cup B)
    BY <2>2 DEF TaskMetricsMv, QueueMetricsMv, MinuteOf, StateOf, Carried
  <2>10. rows' = R \cup B
    BY <2>6, <2>7
  <2>11. TaskMetricsMv(rows)' = TaskMetricsMv(R \cup B)' /\ QueueMetricsMv(rows)' = QueueMetricsMv(R \cup B)'
    BY <2>10 DEF TaskMetricsMv, QueueMetricsMv
  <2> QED BY <2>8, <2>9, <2>11 DEF ViewsInv
<1>3. ASSUME NEW t \in Tasks, NEW b \in Brokers, RetryTask(t, b) PROVE ViewsInv'
  <2>1. PICK n \in Tasks : life[n] = None /\ \E l \in Lives : life' = [life EXCEPT ![n] = l]
    BY <1>3, RetryIs
  <2>2. rows' = rows /\ parts' = parts
    BY <1>3 DEF RetryTask
  <2>3. \A u \in Tasks \ {n} : life'[u] = life[u]
    BY <2>1 DEF LifeInv
  <2>4. TaskMetricsMv(rows)' = TaskMetricsMv(rows) /\ QueueMetricsMv(rows)' = QueueMetricsMv(rows)
    BY <2>1, <2>2, <2>3, ViewsStay
  <2> QED BY <2>2, <2>4 DEF ViewsInv
<1>4. CASE Tick
  BY <1>1, <1>4 DEF Tick
<1>5. ASSUME NEW t \in Tasks, Emit(t) \/ RevokeTask(t) PROVE ViewsInv'
  BY <1>1, <1>5 DEF Emit, RevokeTask
<1> QED BY <1>2, <1>3, <1>4, <1>5 DEF StoreNext

-----------------------------------------------------------------------------
(* Pages.                                                                  *)

\* A row has been stored at a tick that has come.
LEMMA RowsTimed ==
    ASSUME LifeInv, EventsInv, NEW r \in rows
    PROVE  r.at \in 0 .. clock /\ r.at \in 0 .. MaxClock /\ r.at \in Int
<1>1. EventInv(r)
  BY DEF EventsInv
<1> QED BY <1>1, EventStoreAssumption DEF EventInv, LifeInv

\* Rows that match do not stop to.
LEMMA MatchingGrows ==
    ASSUME NEW list, NEW states, rows \subseteq rows'
    PROVE  Matching(list, states) \subseteq Matching(list, states)'
BY DEF Matching, InScope, StateOf

\* The least of two.
LEMMA PairMin ==
    ASSUME NEW a \in Int, NEW b \in Int
    PROVE  Min({a, b}) = IF a <= b THEN a ELSE b
<1> DEFINE m == IF a <= b THEN a ELSE b
<1>1. m \in {a, b} /\ \A x \in {a, b} : m <= x
  OBVIOUS
<1>2. \A n \in {a, b} : (\A x \in {a, b} : n <= x) => n = m
  OBVIOUS
<1> QED BY <1>1, <1>2 DEF Min

\* A row a list leaves out is an older one of a task it has.
LEMMA ListedStands ==
    ASSUME NEW list \in {"events", "summary"}, NEW candidates, NEW set \in Listed(list, candidates)
    PROVE  /\ set \subseteq candidates
           /\ \A r \in candidates : r \in set \/ (list = "summary" /\ \E s \in set : s.task = r.task /\ s.at >= r.at)
<1>1. CASE list = "events"
  BY <1>1 DEF Listed
<1>2. CASE list = "summary"
  <2>1. /\ set \subseteq candidates
        /\ \A r \in candidates : \E s \in set : s.task = r.task
        /\ \A s \in set : \A r \in candidates : r.task = s.task => s.at >= r.at
    BY <1>2 DEF Listed
  <2>2. ASSUME NEW r \in candidates PROVE \E s \in set : s.task = r.task /\ s.at >= r.at
    BY <2>1
  <2> QED BY <2>1, <2>2, <1>2
<1> QED BY <1>1, <1>2

\* A page holds all there is or, if there is more, leaves out no younger row.
LEMMA PageIs ==
    ASSUME NEW set, IsFiniteSet(set), NEW page \in TopRows(set, PageLimit)
    PROVE  /\ page \subseteq set
           /\ IsFiniteSet(page)
           /\ ~(Cardinality(set) > PageLimit) => page = set
           /\ Cardinality(set) > PageLimit => page # {}
           /\ \A r \in page, s \in set \ page : r.at >= s.at
<1>1. PageLimit \in Nat \ {0}
  BY QueriesAssumption
<1>2. Cardinality(set) \in Nat
  BY FS_CardinalityType
<1>3. /\ page \subseteq set
      /\ Cardinality(page) = Min({PageLimit, Cardinality(set)})
      /\ \A r \in page, s \in set \ page : r.at >= s.at
  BY DEF TopRows
<1>4. Cardinality(page) = IF PageLimit <= Cardinality(set) THEN PageLimit ELSE Cardinality(set)
  BY <1>1, <1>2, <1>3, PairMin
<1>5. IsFiniteSet(page) /\ (Cardinality(set) = Cardinality(page) => page = set)
  BY <1>3, FS_Subset
<1>6. page = {} => Cardinality(page) = 0
  BY FS_EmptySet
<1> QED BY <1>1, <1>2, <1>3, <1>4, <1>5, <1>6

\* What is owed after a page is older than the new cursor; after the last one
\* nothing is.
LEMMA PageSettles ==
    ASSUME LifeInv, EventsInv, PagerInv, pager.at = "reading",
           NEW set \in Listed(pager.list, {r \in Matching(pager.list, pager.states) : r.at < pager.cursor}),
           NEW page \in TopRows(set, PageLimit)
    PROVE  /\ ~(Cardinality(set) > PageLimit) => pager.owed \ Settled(page) = {}
           /\ Cardinality(set) > PageLimit =>
                /\ Min({r.at : r \in page}) \in 0 .. MaxClock
                /\ \A r \in pager.owed \ Settled(page) : r.at < Min({s.at : s \in page})
<1> DEFINE candidates == {r \in Matching(pager.list, pager.states) : r.at < pager.cursor}
<1>1. candidates \subseteq rows /\ pager.owed \subseteq candidates /\ pager.list \in {"events", "summary"}
  BY DEF PagerInv, Matching
<1>2. /\ set \subseteq candidates
      /\ \A r \in candidates : r \in set \/ (pager.list = "summary" /\ \E s \in set : s.task = r.task /\ s.at >= r.at)
  <2> HIDE DEF candidates
  <2> QED BY <1>1, ListedStands DEF candidates
<1>3. IsFiniteSet(set) /\ \A r \in rows : r.at \in 0 .. MaxClock
  <2>1. IsFiniteSet(set)
    BY <1>1, <1>2, FS_Subset DEF EventsInv
  <2> QED BY <2>1, RowsTimed
<1>4. /\ page \subseteq set
      /\ IsFiniteSet(page)
      /\ ~(Cardinality(set) > PageLimit) => page = set
      /\ Cardinality(set) > PageLimit => page # {}
      /\ \A r \in page, s \in set \ page : r.at >= s.at
  BY <1>3, PageIs
<1>5. ASSUME ~(Cardinality(set) > PageLimit), NEW r \in pager.owed PROVE r \in Settled(page)
  <2>1. r \in page \/ (pager.list = "summary" /\ \E s \in page : s.task = r.task /\ s.at >= r.at)
    BY <1>1, <1>2, <1>4, <1>5
  <2> QED BY <2>1 DEF Settled
<1>6. ASSUME Cardinality(set) > PageLimit
      PROVE  /\ Min({r.at : r \in page}) \in 0 .. MaxClock
             /\ \A r \in pager.owed \ Settled(page) : r.at < Min({s.at : s \in page})
  <2> DEFINE cut == Min({r.at : r \in page})
  <2>1. page # {} /\ \A r \in page : r.at \in 0 .. MaxClock
    BY <1>1, <1>2, <1>3, <1>4, <1>6
  <2>2. cut \in {r.at : r \in page} /\ \A s \in page : cut <= s.at
    <3>1. \A r \in page : r.at \in Int
      BY <2>1
    <3> QED BY <2>1, <1>4, <3>1, YoungestRow
  <2>3. PICK q \in page : q.at = cut
    BY <2>2
  <2>4. ASSUME NEW r \in pager.owed \ Settled(page) PROVE r.at < cut
    <3>1. r \in candidates /\ r \notin page
      BY <1>1 DEF Settled
    <3>2. r.at \in 0 .. MaxClock /\ cut \in 0 .. MaxClock
      BY <1>1, <1>3, <2>1, <2>3
    <3>3. r.at # cut
      <4>1. r.at = cut => q.at = r.at /\ \A s \in page : s.at >= q.at
        BY <2>2, <2>3, <2>1, <3>2
      <4> HIDE DEF cut
      <4> QED BY <4>1, <2>3 DEF Settled
    <3>4. PICK s \in set : s.at >= r.at /\ (s = r \/ (pager.list = "summary" /\ s.task = r.task))
      <4>1. r.at >= r.at
        BY <3>2
      <4> QED BY <4>1, <3>1, <1>2
    <3>5. s \notin page
      BY <3>1, <3>4 DEF Settled
    <3>6. q.at >= s.at
      BY <3>5, <2>3, <1>4
    <3>7. s.at \in 0 .. MaxClock
      BY <1>1, <1>2, <1>3
    <3> HIDE DEF cut
    <3> QED BY <2>3, <3>2, <3>3, <3>4, <3>6, <3>7
  <2>5. cut \in 0 .. MaxClock
    BY <2>1, <2>3
  <2> QED BY <2>4, <2>5
<1> QED BY <1>5, <1>6

\* A page leaves owed only what the next one reads.
LEMMA PagerKept ==
    ASSUME LifeInv, EventsInv, PagerInv, [QueriesNext]_queriesVars
    PROVE  PagerInv'
<1>1. CASE StoreNext /\ UNCHANGED pager
  <2>1. rows \subseteq rows'
    BY <1>1 DEF StoreNext, Tick, InsertTaskEvents, Emit, RevokeTask, RetryTask
  <2> QED BY <1>1, <2>1, MatchingGrows DEF PagerInv
<1>2. CASE StartPaging
  <2>1. PICK list \in {"events", "summary"}, asked \in Asked :
            pager' = [NoPager EXCEPT !.at = "reading", !.list = list, !.states = ParsedStates(asked),
                                     !.owed = Matching(list, ParsedStates(asked))]
    BY <1>2 DEF StartPaging
  <2>2. /\ pager'.at = "reading" /\ pager'.list = list /\ pager'.cursor = MaxClock + 1
        /\ pager'.owed = Matching(pager'.list, pager'.states)
        /\ DOMAIN pager' = {"at", "list", "states", "cursor", "owed"}
    BY <2>1 DEF NoPager
  <2>3. rows' = rows
    BY <1>2 DEF StartPaging, storeVars
  <2>4. \A r \in pager'.owed : r.at < MaxClock + 1
    <3>1. \A r \in rows : r.at < MaxClock + 1
      BY RowsTimed, EventStoreAssumption
    <3>2. pager'.owed \subseteq rows
      BY <2>2 DEF Matching
    <3> QED BY <3>1, <3>2
  <2>5. MaxClock + 1 \in 0 .. MaxClock + 1
    BY EventStoreAssumption
  <2> QED BY <2>2, <2>3, <2>4, <2>5 DEF PagerInv, Matching, InScope, StateOf
<1>3. CASE NextPage
  <2>1. pager.at = "reading" /\ rows' = rows
    BY <1>3 DEF NextPage, storeVars
  <2>0. PICK set \in Listed(pager.list, {r \in Matching(pager.list, pager.states) : r.at < pager.cursor}) :
          \E page \in TopRows(set, PageLimit) :
          LET more == Cardinality(set) > PageLimit
              cut == Min({r.at : r \in page})
          IN  pager' = [pager EXCEPT !.owed = @ \ Settled(page),
                                     !.cursor = IF more THEN cut ELSE @,
                                     !.at = IF more THEN "reading" ELSE "done"]
    BY <1>3 DEF NextPage
  <2>2. PICK page \in TopRows(set, PageLimit) :
          LET more == Cardinality(set) > PageLimit
              cut == Min({r.at : r \in page})
          IN  pager' = [pager EXCEPT !.owed = @ \ Settled(page),
                                     !.cursor = IF more THEN cut ELSE @,
                                     !.at = IF more THEN "reading" ELSE "done"]
    BY <2>0
  <2>3. /\ ~(Cardinality(set) > PageLimit) => pager.owed \ Settled(page) = {}
        /\ Cardinality(set) > PageLimit =>
             /\ Min({r.at : r \in page}) \in 0 .. MaxClock
             /\ \A r \in pager.owed \ Settled(page) : r.at < Min({s.at : s \in page})
    BY <2>1, PageSettles
  <2> DEFINE cut == Min({r.at : r \in page})
  <2>4. /\ DOMAIN pager' = {"at", "list", "states", "cursor", "owed"}
        /\ pager'.owed = pager.owed \ Settled(page)
        /\ pager'.list = pager.list /\ pager'.states = pager.states
    BY <2>2 DEF PagerInv
  <2>5. CASE Cardinality(set) > PageLimit
    <3>1. pager'.at = "reading" /\ pager'.cursor = cut
      BY <2>2, <2>5 DEF PagerInv
    <3>2. cut \in 0 .. MaxClock + 1 /\ \A r \in pager'.owed : r.at < cut
      BY <2>3, <2>4, <2>5, EventStoreAssumption
    <3> HIDE DEF cut
    <3> QED BY <2>1, <2>4, <3>1, <3>2 DEF PagerInv, Matching, InScope, StateOf
  <2>6. CASE ~(Cardinality(set) > PageLimit)
    <3>1. pager'.at = "done" /\ pager'.cursor = pager.cursor
      BY <2>2, <2>6 DEF PagerInv
    <3>2. pager'.owed = {}
      BY <2>3, <2>4, <2>6
    <3> QED BY <2>1, <2>4, <3>1, <3>2 DEF PagerInv
  <2> QED BY <2>5, <2>6
<1>4. CASE UNCHANGED queriesVars
  BY <1>4 DEF queriesVars, storeVars, PagerInv, Matching, InScope, StateOf
<1> QED BY <1>1, <1>2, <1>3, <1>4 DEF QueriesNext

-----------------------------------------------------------------------------
(* The invariant.                                                          *)

\* The first states satisfy the invariant, and every step keeps it.
LEMMA QueriesBegin ==
    ASSUME QueriesInit
    PROVE  QueriesInv
<1>1. LifeInv /\ EventsInv /\ ViewsInv
  BY StoreBegins DEF QueriesInit
<1>2. PagerInv
  <2>1. pager = [at |-> "idle", list |-> "none", states |-> {}, cursor |-> MaxClock + 1, owed |-> {}]
    BY DEF QueriesInit, NoPager
  <2> QED BY <2>1, EventStoreAssumption DEF PagerInv
<1> QED BY <1>1, <1>2 DEF QueriesInv

LEMMA QueriesKept ==
    ASSUME QueriesInv, [QueriesNext]_queriesVars
    PROVE  QueriesInv'
<1>1. PagerInv'
  BY PagerKept DEF QueriesInv
<1>2. CASE StoreNext
  BY <1>1, <1>2, LifeKept, EventsKept, ViewsKept DEF QueriesInv
<1>3. CASE UNCHANGED storeVars
  <2>1. /\ life' = life /\ phase' = phase /\ clock' = clock
        /\ wire' = wire /\ rows' = rows /\ parts' = parts
    BY <1>3 DEF storeVars
  <2>2. LifeInv' /\ EventsInv'
    BY <2>1 DEF QueriesInv, LifeInv, EventsInv, EventInv, Tried, KeyOf
  <2>3. ViewsInv'
    BY <2>1 DEF QueriesInv, ViewsInv, TaskMetricsMv, QueueMetricsMv, Carried, StateOf, MinuteOf
  <2> QED BY <1>1, <2>2, <2>3 DEF QueriesInv
<1> QED BY <1>2, <1>3 DEF QueriesNext, StartPaging, NextPage, queriesVars

\* In every reachable state the invariant holds.
THEOREM StoreInvariant == QueriesSpec => []QueriesInv
BY QueriesBegin, QueriesKept, PTL DEF QueriesSpec

\* A part of a view counts something, and never more than there are rows.
LEMMA PartsCount ==
    ASSUME QueriesInv, NEW p \in parts
    PROVE  \E c \in DOMAIN p.count : p.count[c] \in 1 .. Cardinality(rows)
<1>1. IsFiniteSet(rows)
  BY DEF QueriesInv, EventsInv
<1>2. ASSUME NEW R \in SUBSET rows, R # {} PROVE Cardinality(R) \in 1 .. Cardinality(rows)
  BY <1>1, <1>2, FS_Subset, FS_EmptySet, FS_CardinalityType
<1>3. CASE p \in TaskMetricsMv(rows)
  <2> DEFINE done == {r \in rows : StateOf(r) \in Finished}
  <2>1. PICK g \in {<<r.name, MinuteOf(r)>> : r \in done} :
            p = [view |-> "tasks", key |-> g[1], minute |-> g[2],
                 count |-> [s \in Finished |->
                    Cardinality({r \in done : <<r.name, MinuteOf(r)>> = g /\ StateOf(r) = s})]]
    BY <1>3 DEF TaskMetricsMv
  <2>2. PICK r \in done : <<r.name, MinuteOf(r)>> = g
    OBVIOUS
  <2> DEFINE R == {q \in done : <<q.name, MinuteOf(q)>> = g /\ StateOf(q) = StateOf(r)}
  <2>3. R \in SUBSET rows /\ r \in R
    BY <2>2
  <2>4. StateOf(r) \in DOMAIN p.count /\ p.count[StateOf(r)] = Cardinality(R)
    BY <2>1, <2>2
  <2> HIDE DEF R
  <2> QED BY <1>2, <2>3, <2>4
<1>4. CASE p \in QueueMetricsMv(rows)
  <2> DEFINE counted == {r \in rows : \E c \in DOMAIN QueueColumn : QueueColumn[c] = r.type}
             group(r) == <<Carried(r, "queue"), MinuteOf(r)>>
  <2>1. PICK g \in {group(r) : r \in counted} :
            p = [view |-> "queues", key |-> g[1], minute |-> g[2],
                 count |-> [c \in DOMAIN QueueColumn |->
                    Cardinality({r \in counted : group(r) = g /\ r.type = QueueColumn[c]})]]
    BY <1>4 DEF QueueMetricsMv
  <2>2. PICK r \in counted : group(r) = g
    OBVIOUS
  <2>3. PICK c \in DOMAIN QueueColumn : QueueColumn[c] = r.type
    OBVIOUS
  <2> DEFINE R == {q \in counted : group(q) = g /\ q.type = QueueColumn[c]}
  <2>4. R \in SUBSET rows /\ r \in R
    BY <2>2, <2>3
  <2>5. c \in DOMAIN p.count /\ p.count[c] = Cardinality(R)
    BY <2>1
  <2> HIDE DEF R
  <2> QED BY <1>2, <2>4, <2>5
<1> QED BY <1>3, <1>4 DEF QueriesInv, ViewsInv

\* What the type invariant says follows.
LEMMA RowsTyped ==
    ASSUME QueriesInv
    PROVE  RowsTypeOK
<1>1. {KeyOf(r) : r \in rows} \cap wire = {}
  BY DEF QueriesInv, EventsInv
<1>2. ASSUME NEW x \in rows \cup wire
      PROVE  /\ life[x.task] # None /\ x.type \in EventTypes /\ x.at \in 0 .. clock
             /\ \A k \in 0 .. x.try - 1 : \E r \in rows : KeyOf(r) = [KeyOf(x) EXCEPT !.try = k]
  BY DEF QueriesInv, EventsInv, EventInv, Tried
<1>3. \A r, s \in rows : KeyOf(r) = KeyOf(s) => r = s
  BY DEF QueriesInv, EventsInv
<1>4. \A p \in parts : \E c \in DOMAIN p.count : p.count[c] \in 1 .. Cardinality(rows)
  BY PartsCount
<1>5. /\ pager.at \in {"idle", "reading", "done"}
      /\ pager.cursor \in 0 .. MaxClock + 1
      /\ pager.owed \subseteq Matching(pager.list, pager.states)
  BY DEF QueriesInv, PagerInv
<1> QED BY <1>1, <1>2, <1>3, <1>4, <1>5 DEF RowsTypeOK

\* In every reachable state, for any tasks, bounds and batches, an event is of a
\* task that exists, it has a row for each insert of it that was carried out and
\* not heard of, and one more for the one that was, and a part of a view counts
\* at least one row and no more than there are (insert_task_events,
\* synthetic_sent, task_metrics_mv, queue_metrics_mv).
THEOREM StoreTypeCorrect == QueriesSpec => []RowsTypeOK
<1>1. QueriesInv => RowsTypeOK
  BY RowsTyped
<1> QED BY <1>1, StoreInvariant, PTL

\* A client that follows next_cursor to the last page has been shown every row
\* it was owed, for any page size, any filter and whatever is inserted between
\* two of its requests (list_tasks, list_task_summary, paginate).
THEOREM PagesCoverTheList == QueriesSpec => []PagesCover
<1>1. QueriesInv => PagesCover
  BY DEF QueriesInv, PagerInv, PagesCover
<1> QED BY <1>1, StoreInvariant, PTL

\* However the events are batched, the parts that the inserts have added to the
\* views are those one insert of all the rows would have made
\* (SummingMergeTree under task_metrics_mv and queue_metrics_mv).
THEOREM ViewsSumTheRows == QueriesSpec => [](parts = TaskMetricsMv(rows) \cup QueueMetricsMv(rows))
<1>1. QueriesInv => parts = TaskMetricsMv(rows) \cup QueueMetricsMv(rows)
  BY DEF QueriesInv, ViewsInv
<1> QED BY <1>1, StoreInvariant, PTL

-----------------------------------------------------------------------------
(* What is counted.                                                        *)

\* A product grows with a factor.
LEMMA Times ==
    ASSUME NEW a \in Int, NEW b \in Int, NEW n \in Nat, a <= b
    PROVE  a * n <= b * n /\ a * n \in Int /\ b * n \in Int
OBVIOUS

\* A minute begins at most a minute before what happens in it.
LEMMA Minutes ==
    ASSUME NEW a \in Nat
    PROVE  /\ a - (a % MINUTE) \in Int
           /\ a - (a % MINUTE) <= a
           /\ a < a - (a % MINUTE) + MINUTE
<1>1. MINUTE \in Nat /\ MINUTE > 0
  BY EventStoreAssumption
<1> QED BY <1>1

\* A row is of a task that exists, and was stored at a tick that has come.
LEMMA RowIs ==
    ASSUME QueriesInv, NEW r \in rows
    PROVE  /\ r.at \in Nat /\ clock \in Nat /\ r.at <= clock
           /\ life[r.task] \in Lives
           /\ Runtime(r) \in Nat
           /\ MinuteOf(r) \in Int /\ MinuteOf(r) <= r.at /\ r.at < MinuteOf(r) + MINUTE
<1>1. EventInv(r)
  BY DEF QueriesInv, EventsInv
<1>2. r.at \in Nat /\ clock \in Nat /\ r.at <= clock
  BY <1>1, EventStoreAssumption DEF EventInv, QueriesInv, LifeInv
<1>3. life[r.task] \in Lives
  BY <1>1 DEF EventInv, QueriesInv, LifeInv
<1>4. Runtime(r) \in Nat
  BY <1>3 DEF Runtime, Lives
<1>5. MinuteOf(r) \in Int /\ MinuteOf(r) <= r.at /\ r.at < MinuteOf(r) + MINUTE
  BY <1>2, Minutes DEF MinuteOf
<1> QED BY <1>2, <1>3, <1>4, <1>5

\* Every set of rows is finite.
LEMMA RowsFinite ==
    ASSUME QueriesInv, NEW R \in SUBSET rows
    PROVE  IsFiniteSet(R) /\ Cardinality(R) \in Nat /\ (Cardinality(R) > 0 => R # {})
<1>1. IsFiniteSet(R)
  BY FS_Subset DEF QueriesInv, EventsInv
<1> QED BY <1>1, FS_CardinalityType, FS_EmptySet

\* A window begins at a whole tick.
LEMMA WindowIs ==
    ASSUME QueriesInv, NEW w \in Nat
    PROVE  w * MINUTE \in Nat /\ clock - w * MINUTE \in Int
BY EventStoreAssumption DEF QueriesInv, LifeInv

\* What the view of the tasks has of a window comes from its finished rows.
LEMMA PartsAreDone ==
    ASSUME QueriesInv, NEW w \in Nat, NEW p \in Parts("tasks", w)
    PROVE  \E r \in Since(w) : /\ StateOf(r) \in Finished
                               /\ r.name = p.key /\ MinuteOf(r) = p.minute
<1>1. p \in TaskMetricsMv(rows) /\ p.minute >= clock - w * MINUTE
  <2>1. p \in parts /\ p.view = "tasks" /\ p.minute >= clock - w * MINUTE
    BY DEF Parts
  <2>2. \A q \in QueueMetricsMv(rows) : q.view = "queues"
    BY DEF QueueMetricsMv
  <2> QED BY <2>1, <2>2 DEF QueriesInv, ViewsInv
<1>2. PICK r \in rows : StateOf(r) \in Finished /\ r.name = p.key /\ MinuteOf(r) = p.minute
  <2> DEFINE done == {r \in rows : StateOf(r) \in Finished}
  <2>1. PICK g \in {<<r.name, MinuteOf(r)>> : r \in done} :
            p = [view |-> "tasks", key |-> g[1], minute |-> g[2],
                 count |-> [s \in Finished |->
                    Cardinality({r \in done : <<r.name, MinuteOf(r)>> = g /\ StateOf(r) = s})]]
    BY <1>1 DEF TaskMetricsMv
  <2>2. PICK r \in done : g = <<r.name, MinuteOf(r)>>
    OBVIOUS
  <2>3. p.key = g[1] /\ p.minute = g[2]
    BY <2>1
  <2>4. g[1] = r.name /\ g[2] = MinuteOf(r)
    BY <2>2
  <2> QED BY <2>3, <2>4
<1>3. r.at >= clock - w * MINUTE
  BY <1>1, <1>2, RowIs, WindowIs
<1> QED BY <1>2, <1>3 DEF Since

\* A window is never empty.
LEMMA ClampIs ==
    ASSUME NEW n \in Nat, NEW top \in Nat \ {0}
    PROVE  Clamp(n, top) \in Nat \ {0}
<1>1. Min({n, top}) = IF n <= top THEN n ELSE top
  BY PairMin
<1> QED BY <1>1 DEF Clamp

\* What the provers of sets do not know.
LEMMA OneIsNotZero == 1 # 0
OBVIOUS

\* A pair is finite.
LEMMA PairFinite ==
    ASSUME NEW a, NEW b
    PROVE  IsFiniteSet({a, b})
<1>1. PICK S, T : S = {a} /\ T = {b}
  OBVIOUS
<1>2. IsFiniteSet(S) /\ IsFiniteSet(T)
  BY <1>1, FS_Singleton
<1>3. IsFiniteSet(S \cup T)
  BY <1>2, FS_Union
<1>4. S \cup T = {a, b}
  BY <1>1
<1> QED BY <1>3, <1>4

\* The sum of nothing.
LEMMA NothingSummed ==
    ASSUME NEW f, DOMAIN f = {}
    PROVE  SumFunction(f) = 0
<1>1. SumFunctionOnSet(f, {}) = 0
  BY FS_EmptySet, SumByAny
<1> QED BY <1>1 DEF SumFunction

\* The greatest of some naturals and zero is one of them, unless it is zero.
LEMMA MaxWithZero ==
    ASSUME NEW S, IsFiniteSet(S), \A x \in S : x \in Nat
    PROVE  /\ Max({0} \cup S) \in Nat
           /\ Max({0} \cup S) > 0 => Max({0} \cup S) \in S
<1>0. PICK T : T = {0} \cup S
  OBVIOUS
<1>1. IsFiniteSet(T) /\ T # {} /\ \A x \in T : x \in Nat
  <2>1. PICK Z : Z = {0}
    OBVIOUS
  <2>2. IsFiniteSet(Z)
    BY <2>1, FS_Singleton
  <2>3. IsFiniteSet(Z \cup S)
    BY <2>2, FS_Union
  <2> QED BY <1>0, <2>1, <2>3
<1>2. T \subseteq Int
  BY <1>1
<1>3. Max(T) \in T
  <2>1. T \subseteq Int => Max(T) \in T
    BY <1>1, MaxOf
  <2> QED BY <2>1, <1>2
<1> QED BY <1>0, <1>1, <1>3

\* If nothing of one kind is greater than anything of another, neither is its mean.
LEMMA NotSlower ==
    ASSUME NEW f, NEW g, NEW S, NEW T, IsFiniteSet(S), IsFiniteSet(T), T # {},
           \A x \in S : f[x] \in Nat, \A y \in T : g[y] \in Nat,
           \A x \in S, y \in T : f[x] <= g[y]
    PROVE  SumFunctionOnSet(f, S) * Cardinality(T) <= SumFunctionOnSet(g, T) * Cardinality(S)
<1> DEFINE G == {g[y] : y \in T}
<1>1. IsFiniteSet(G) /\ G # {} /\ \A n \in G : n \in Nat
  BY ImageFinite
<1>2. /\ Min(G) \in G /\ Max(G) \in G
      /\ \A n \in G : Min(G) <= n /\ Max(G) >= n
  <2> HIDE DEF G
  <2>1. G \subseteq Int => Min(G) \in G /\ \A n \in G : Min(G) <= n
    BY <1>1, MinOf
  <2>2. G \subseteq Int => Max(G) \in G /\ \A n \in G : Max(G) >= n
    BY <1>1, MaxOf
  <2>3. G \subseteq Int
    BY <1>1
  <2> QED BY <2>1, <2>2, <2>3
<1>3. PICK low \in Nat, high \in Nat : low = Min(G) /\ high = Max(G)
  BY <1>1, <1>2
<1>4. \A y \in T : g[y] \in low .. high
  <2>1. \A y \in T : g[y] \in G
    OBVIOUS
  <2> HIDE DEF G
  <2> QED BY <2>1, <1>1, <1>2, <1>3
<1>5. \A x \in S : f[x] \in 0 .. low
  <2>1. PICK y \in T : g[y] = low
    BY <1>2, <1>3
  <2> QED BY <2>1
<1>6. Cardinality(S) \in Nat /\ Cardinality(T) \in Nat
  BY FS_CardinalityType
<1>7. SumFunctionOnSet(f, S) \in Int /\ SumFunctionOnSet(f, S) <= low * Cardinality(S)
  BY <1>5, SumWithin
<1>8. SumFunctionOnSet(g, T) \in Int /\ low * Cardinality(T) <= SumFunctionOnSet(g, T)
  BY <1>4, SumWithin
<1>9. SumFunctionOnSet(f, S) * Cardinality(T) <= (low * Cardinality(S)) * Cardinality(T)
  BY <1>6, <1>7, Times
<1>10. (low * Cardinality(T)) * Cardinality(S) <= SumFunctionOnSet(g, T) * Cardinality(S)
  BY <1>6, <1>8, Times
<1> QED BY <1>6, <1>7, <1>8, <1>9, <1>10

-----------------------------------------------------------------------------
(* Conditions.                                                             *)

\* Finished rows are rows, and without a failure there is no failed one.
LEMMA DoneIs ==
    ASSUME QueriesInv, NEW w, NEW names
    PROVE  /\ Done(w, names) \subseteq rows
           /\ ~FailureIn(w, names) => {r \in Done(w, names) : StateOf(r) = "FAILURE"} = {}
           /\ \A R \in SUBSET Done(w, names) : IsFiniteSet(R) /\ Cardinality(R) \in Nat
<1>1. Done(w, names) \subseteq rows
  BY DEF Done, Since
<1>2. ~FailureIn(w, names) => {r \in Done(w, names) : StateOf(r) = "FAILURE"} = {}
  BY DEF FailureIn
<1>3. ASSUME NEW R \in SUBSET Done(w, names) PROVE IsFiniteSet(R) /\ Cardinality(R) \in Nat
  BY <1>1, RowsFinite
<1> QED BY <1>1, <1>2, <1>3

\* Without a failure the overview counts none, read or not.
LEMMA Overviews ==
    ASSUME QueriesInv, NEW failing, NEW w, NEW names, ~FailureIn(w, names)
    PROVE  /\ OverviewRead(failing, w, names).failure = 0
           /\ OverviewRead(failing, w, names).total \in Nat
<1>1. CountOf(Done(w, names), "FAILURE") = 0
  BY DoneIs, FS_EmptySet DEF CountOf
<1>2. Cardinality(Done(w, names)) \in Nat
  BY DoneIs
<1> QED BY <1>1, <1>2 DEF OverviewRead, Overview, NothingDone

\* Each condition, when it is met, has cause.
LEMMA FailureRateHasCause ==
    ASSUME QueriesInv, NEW c \in Conditions, c.on = "TaskFailureRate",
           NEW env, NEW failing, Met(c, failing, env)
    PROVE  Cause(c, env)
<1> DEFINE w == clamp_window(c.window)
<1>1. c.percent \in Nat
  BY ConditionsAssumption DEF AlertCondition
<1>2. LET o == OverviewRead(failing, w, c.names) IN o.total > 0 /\ 100 * o.failure > c.percent * o.total
  BY DEF Met
<1>3. Cause(c, env) <=> FailureIn(w, c.names)
  BY DEF Cause
<1> HIDE DEF w
<1> SUFFICES ASSUME ~FailureIn(w, c.names) PROVE FALSE
  BY <1>3
<1>4. /\ OverviewRead(failing, w, c.names).failure = 0
      /\ OverviewRead(failing, w, c.names).total \in Nat
  BY Overviews
<1>5. \A p, n \in Nat : ~(100 * 0 > p * n)
  OBVIOUS
<1> QED BY <1>1, <1>2, <1>4, <1>5

LEMMA FailedHasCause ==
    ASSUME QueriesInv, NEW c \in Conditions, c.on = "TaskFailed",
           NEW env, NEW failing, Met(c, failing, env)
    PROVE  Cause(c, env)
<1>1. OverviewRead(failing, DEFAULT_WINDOW_MINUTES, c.names).failure > 0
  BY DEF Met
<1>2. Cause(c, env) <=> FailureIn(DEFAULT_WINDOW_MINUTES, c.names)
  BY DEF Cause
<1> QED BY <1>1, <1>2, Overviews

LEMMA DurationHasCause ==
    ASSUME QueriesInv, NEW c \in Conditions, c.on = "TaskDuration",
           NEW env, NEW failing, Met(c, failing, env)
    PROVE  Cause(c, env)
<1> DEFINE rs == Done(DEFAULT_WINDOW_MINUTES, c.names)
           timed == OverviewRead(failing, DEFAULT_WINDOW_MINUTES, c.names).timed
           runs == {Runtime(r) : r \in timed}
<1>1. c.seconds \in Nat
  BY ConditionsAssumption DEF AlertCondition
<1>2. Max({0} \cup runs) > c.seconds
  BY DEF Met, Percentile
<1>3. timed \subseteq rs
  BY DEF OverviewRead, NothingDone, Overview, Timed
<1>4. timed \subseteq rows /\ IsFiniteSet(timed)
  <2> HIDE DEF timed
  <2> QED BY <1>3, DoneIs
<1>5. IsFiniteSet(runs)
  <2> DEFINE f == [r \in timed |-> Runtime(r)]
  <2>1. runs = {f[r] : r \in timed}
    OBVIOUS
  <2>2. IsFiniteSet({f[r] : r \in timed})
    <3> HIDE DEF f, timed
    <3> QED BY <1>4, ImageFinite
  <2> QED BY <2>1, <2>2
<1>6. \A n \in runs : n \in Nat
  <2> HIDE DEF timed
  <2> QED BY <1>4, RowIs
<1>7. /\ Max({0} \cup runs) \in Nat
      /\ Max({0} \cup runs) > 0 => Max({0} \cup runs) \in runs
  <2> HIDE DEF runs
  <2> QED BY <1>5, <1>6, MaxWithZero
<1>8. Max({0} \cup runs) \in runs
  BY <1>1, <1>2, <1>7
<1>9. PICK r \in timed : Runtime(r) = Max({0} \cup runs)
  BY <1>8
<1>10. \E q \in Done(DEFAULT_WINDOW_MINUTES, c.names) : Runtime(q) > c.seconds
  <2> HIDE DEF timed
  <2> QED BY <1>2, <1>3, <1>9
<1> QED BY <1>10 DEF Cause

LEMMA DepthHasCause ==
    ASSUME NEW c \in Conditions, c.on = "QueueDepth",
           NEW env \in Readings, NEW failing, Met(c, failing, env)
    PROVE  Cause(c, env)
<1> DEFINE depths == {env.depths[q] : q \in DOMAIN env.depths}
<1>1. c.depth \in Nat
  BY ConditionsAssumption DEF AlertCondition
<1>2. DepthFor(env.depths, c.queue) > c.depth
  BY DEF Met
<1>3. IsFiniteSet(DOMAIN env.depths) /\ \A q \in DOMAIN env.depths : env.depths[q] \in Nat
  BY ConditionsAssumption
<1>4. IsFiniteSet(depths) /\ \A n \in depths : n \in Nat
  BY <1>3, ImageFinite
<1>5. Max({0} \cup depths) \in Nat /\ (Max({0} \cup depths) > 0 => Max({0} \cup depths) \in depths)
  <2> HIDE DEF depths
  <2> QED BY <1>4, MaxWithZero
<1>6. \E q \in DOMAIN env.depths : env.depths[q] > c.depth
  BY <1>1, <1>2, <1>5 DEF DepthFor
<1> QED BY <1>6 DEF Cause

LEMMA OfflineHasCause ==
    ASSUME NEW c \in Conditions, c.on = "WorkerOffline", NEW env,
           NEW failing, "last seen" \notin failing, Met(c, failing, env)
    PROVE  Cause(c, env)
<1>1. WorkersOffline(c, failing, env)
  BY DEF Met
<1>2. (IF "liveness" \in failing THEN 1 ELSE env.live) = 0
  BY <1>1 DEF WorkersOffline
<1>3. env.live = 0
  BY <1>2, OneIsNotZero, Zenon
<1>4. env.seen = None \/ env.seen >= c.grace
  BY <1>1 DEF WorkersOffline
<1>5. env.active
  BY <1>1 DEF WorkersOffline, has_active_broker
<1> QED BY <1>3, <1>4, <1>5 DEF Cause

LEMMA BeatHasCause ==
    ASSUME NEW c \in Conditions, c.on = "BeatMissed", NEW env, NEW failing, Met(c, failing, env)
    PROVE  Cause(c, env)
BY DEF Met, Cause

LEMMA SilenceHasCause ==
    ASSUME QueriesInv, NEW c \in Conditions, c.on = "NoEvents",
           NEW env, NEW failing, Met(c, failing, env)
    PROVE  Cause(c, env)
<1> DEFINE known == {r \in rows : clock - r.at <= NO_EVENTS_LOOKBACK}
           age == IF known = {} THEN NO_EVENTS_LOOKBACK ELSE clock - Newest(known)
<1>1. env.active /\ age > c.silence
  <2>1. Silence(c, failing, env)
    BY DEF Met
  <2> QED BY <2>1 DEF Silence, has_active_broker
<1>2. NO_EVENTS_LOOKBACK \in Nat /\ clock \in Nat /\ c.silence \in Nat
  BY ConditionsAssumption, EventStoreAssumption DEF AlertCondition, QueriesInv, LifeInv
<1>3. IsFiniteSet(known) /\ \A r \in known : r.at \in Int
  <2>1. known \in SUBSET rows
    OBVIOUS
  <2> HIDE DEF known
  <2> QED BY <2>1, RowIs, RowsFinite
<1>4. known # {} => /\ Newest(known) \in {r.at : r \in known}
                    /\ \A r \in known : Newest(known) >= r.at
  <2> HIDE DEF known
  <2> QED BY <1>3, YoungestRow DEF Newest
<1>5. known # {} => clock - Newest(known) <= NO_EVENTS_LOOKBACK /\ Newest(known) \in Int
  BY <1>3, <1>4
<1>6. ASSUME NEW r \in rows PROVE clock - r.at > c.silence
  <2>1. r.at \in Nat
    BY RowIs
  <2>2. CASE r \in known
    <3>1. age = clock - Newest(known) /\ Newest(known) >= r.at
      BY <1>4, <2>2
    <3> QED BY <1>1, <1>2, <1>5, <2>1, <2>2, <3>1
  <2>3. CASE r \notin known
    <3>1. clock - r.at > NO_EVENTS_LOOKBACK
      BY <1>2, <2>1, <2>3
    <3>2. age <= NO_EVENTS_LOOKBACK /\ age \in Int
      BY <1>2, <1>5
    <3> HIDE DEF age
    <3> QED BY <1>1, <1>2, <2>1, <3>1, <3>2
  <2> QED BY <2>2, <2>3
<1> QED BY <1>1, <1>6 DEF Cause

LEMMA ThroughputHasCause ==
    ASSUME QueriesInv, NEW c \in Conditions, c.on = "ThroughputAnomaly",
           NEW env, NEW failing, Met(c, failing, env)
    PROVE  Cause(c, env)
<1> DEFINE w == clamp_window(c.window)
           n == ANOMALY_BASELINE \div w
           current == RecentCompleted(w, c.names)
           moments == Moments(w, ANOMALY_BASELINE, c.names)
<1>1. ThroughputBeyond(c.z, current, moments, n)
  BY DEF Met
<1>2. c.z \in Nat /\ c.window \in Nat
  BY ConditionsAssumption DEF AlertCondition
<1>3. w \in Nat \ {0} /\ ANOMALY_BASELINE \in Nat
  BY <1>2, ClampIs, ConditionsAssumption DEF clamp_window
<1>4. Cause(c, env) <=> Done(ANOMALY_BASELINE, c.names) \cup Done(w, c.names) # {}
  BY DEF Cause
<1> SUFFICES ASSUME Done(ANOMALY_BASELINE, c.names) \cup Done(w, c.names) = {}
             PROVE  FALSE
  BY <1>4
<1>5. ASSUME NEW v \in Nat, Done(v, c.names) = {}
      PROVE  {p \in Parts("tasks", v) : Matches(p.key, c.names)} = {}
  <2>1. \A p \in Parts("tasks", v) : ~Matches(p.key, c.names)
    BY <1>5, PartsAreDone DEF Done
  <2> QED BY <2>1
<1>6. current = 0
  <2>1. {p \in Parts("tasks", w) : Matches(p.key, c.names)} = {}
    <3> HIDE DEF w
    <3> QED BY <1>3, <1>5
  <2>2. Counted({}) = 0
    BY NothingSummed DEF Counted
  <2> QED BY <2>1, <2>2 DEF RecentCompleted
<1>7. moments.sum = 0 /\ moments.sumsq = 0
  <2> DEFINE start(m) == m - (m % (w * MINUTE))
             past == {p \in Parts("tasks", ANOMALY_BASELINE) : p.minute < start(clock) /\ Matches(p.key, c.names)}
             buckets == {start(p.minute) : p \in past}
             count == [b \in buckets |-> Counted({p \in past : start(p.minute) = b})]
  <2>1. past = {}
    BY <1>3, <1>5
  <2>2. moments = [sum |-> SumFunction(count), sumsq |-> SumFunction([b \in buckets |-> count[b] * count[b]])]
    BY DEF Moments
  <2>3. buckets = {}
    BY <2>1
  <2>4. \A f : DOMAIN f = {} => SumFunction(f) = 0
    BY NothingSummed
  <2>5. DOMAIN count = {} /\ DOMAIN [b \in buckets |-> count[b] * count[b]] = {}
    BY <2>3
  <2>6. moments.sum = SumFunction(count) /\ moments.sumsq = SumFunction([b \in buckets |-> count[b] * count[b]])
    <3> HIDE DEF moments, count, buckets
    <3> QED BY <2>2
  <2> QED BY <2>4, <2>5, <2>6
<1>8. n \in Int
  BY <1>3
<1>9. ThroughputBeyond(c.z, 0, moments, n)
  BY <1>1, <1>6
<1> HIDE DEF n, moments
<1> DEFINE spread == Max({n * moments.sumsq - moments.sum * moments.sum, moments.sum * n, n * n})
<1>10. (n * 0 - moments.sum) * (n * 0 - moments.sum) > c.z * c.z * spread /\ n >= 1
  BY <1>9 DEF ThroughputBeyond
<1>11. spread \in Nat
  <2>1. PICK S : S = {0, n * n}
    OBVIOUS
  <2>2. {n * moments.sumsq - moments.sum * moments.sum, moments.sum * n, n * n} = S
    BY <1>7, <1>8, <2>1
  <2>3. IsFiniteSet({0, n * n})
    BY PairFinite
  <2>4. S # {} /\ IsFiniteSet(S) /\ \A x \in S : x \in Nat
    <3>1. n * n \in Nat
      BY <1>8, <1>10
    <3> QED BY <2>1, <2>3, <3>1
  <2>5. S \subseteq Int => Max(S) \in S
    BY <2>4, MaxOf
  <2>6. S \subseteq Int
    BY <2>4
  <2> QED BY <2>2, <2>4, <2>5, <2>6
<1> HIDE DEF spread
<1>12. (n * 0 - moments.sum) * (n * 0 - moments.sum) = 0
  BY <1>7, <1>8
<1>13. c.z * c.z * spread \in Nat
  BY <1>2, <1>11
<1>14. 0 > c.z * c.z * spread
  BY <1>10, <1>12
<1>15. \A k \in Nat : ~(0 > k)
  OBVIOUS
<1> QED BY <1>13, <1>14, <1>15

LEMMA LatencyHasCause ==
    ASSUME QueriesInv, NEW c \in Conditions, c.on = "LatencyAnomaly",
           NEW env, NEW failing, Met(c, failing, env)
    PROVE  Cause(c, env)
<1> DEFINE w == clamp_window(c.window)
           a == Against(w, ANOMALY_BASELINE, c.names)
           cur == Timed(a.current)
           base == Timed(a.baseline)
           f == [r \in cur |-> Runtime(r)]
           g == [r \in base |-> Runtime(r)]
<1>1. LatencyBeyond(c.z, cur, base)
  BY DEF Met
<1>2. Cause(c, env) <=> \E r \in Done(w, c.names), s \in Timed(Done(ANOMALY_BASELINE, c.names)) :
                            Runtime(r) > Runtime(s)
  BY DEF Cause
<1>3. /\ cur \subseteq Done(w, c.names)
      /\ base \subseteq Timed(Done(ANOMALY_BASELINE, c.names))
  BY DEF Against, Timed, Done, Since
<1>4. /\ IsFiniteSet(cur) /\ Cardinality(cur) \in Nat
      /\ IsFiniteSet(base) /\ Cardinality(base) \in Nat
      /\ cur \subseteq rows /\ base \subseteq rows
  <2>1. base \subseteq Done(ANOMALY_BASELINE, c.names)
    BY <1>3 DEF Timed
  <2> HIDE DEF cur, base, w
  <2> QED BY <1>3, <2>1, DoneIs
<1>5. /\ Cardinality(base) >= MIN_BASELINE_SAMPLES
      /\ SumFunctionOnSet(f, cur) * Cardinality(base) - SumFunctionOnSet(g, base) * Cardinality(cur) > 0
  <2>1. SumFunction(f) = SumFunctionOnSet(f, cur) /\ SumFunction(g) = SumFunctionOnSet(g, base)
    BY DEF SumFunction
  <2>2. /\ Cardinality(base) >= MIN_BASELINE_SAMPLES
        /\ SumFunction(f) * Cardinality(base) - SumFunction(g) * Cardinality(cur) > 0
    <3> HIDE DEF cur, base
    <3> QED BY <1>1 DEF LatencyBeyond
  <2> HIDE DEF f, g, cur, base
  <2> QED BY <2>1, <2>2
<1>6. base # {}
  <2> HIDE DEF base
  <2> QED BY <1>4, <1>5, FS_EmptySet, ConditionsAssumption
<1>7. /\ \A r \in cur : f[r] = Runtime(r) /\ f[r] \in Nat
      /\ \A r \in base : g[r] = Runtime(r) /\ g[r] \in Nat
  <2> HIDE DEF cur, base
  <2> QED BY <1>4, RowIs
<1> SUFFICES ASSUME ~Cause(c, env) PROVE FALSE
  OBVIOUS
<1>8. ASSUME NEW r \in cur, NEW s \in base PROVE f[r] <= g[s]
  <2>1. ~(Runtime(r) > Runtime(s))
    <3> HIDE DEF cur, base, w
    <3> QED BY <1>2, <1>3
  <2> HIDE DEF cur, base, f, g
  <2> QED BY <1>7, <2>1
<1>9. SumFunctionOnSet(f, cur) * Cardinality(base) <= SumFunctionOnSet(g, base) * Cardinality(cur)
  <2> HIDE DEF cur, base, f, g
  <2> QED BY <1>4, <1>6, <1>7, <1>8, NotSlower
<1>10. SumFunctionOnSet(f, cur) \in Int /\ SumFunctionOnSet(g, base) \in Int
  <2> HIDE DEF cur, base, f, g
  <2> QED BY <1>4, <1>7, SumByAny
<1> HIDE DEF cur, base, f, g
<1>11. SumFunctionOnSet(f, cur) * Cardinality(base) \in Int /\ SumFunctionOnSet(g, base) * Cardinality(cur) \in Int
  BY <1>4, <1>10
<1> QED BY <1>5, <1>9, <1>11

LEMMA SpikeHasCause ==
    ASSUME QueriesInv, NEW c \in Conditions, c.on = "ErrorRateSpike",
           NEW env, NEW failing, Met(c, failing, env)
    PROVE  Cause(c, env)
<1> DEFINE b == Clamp(c.baseline, MAX_BASELINE)
           a == Against(DEFAULT_WINDOW_MINUTES, b, c.names)
           ct == Cardinality(a.current)
           cf == CountOf(a.current, "FAILURE")
           bt == Cardinality(a.baseline)
           bf == CountOf(a.baseline, "FAILURE")
<1>1. SpikeBeyond(c.factor, a.current, a.baseline)
  BY DEF Met
<1>2. Cause(c, env) <=> FailureIn(DEFAULT_WINDOW_MINUTES, c.names)
  BY DEF Cause
<1>3. a.current \subseteq Done(DEFAULT_WINDOW_MINUTES, c.names) /\ a.baseline \subseteq Done(b, c.names)
  BY DEF Against, Done, Since
<1> SUFFICES ASSUME ~FailureIn(DEFAULT_WINDOW_MINUTES, c.names) PROVE FALSE
  BY <1>2
<1>4. cf = 0
  <2>1. {r \in a.current : StateOf(r) = "FAILURE"} = {}
    <3> HIDE DEF a
    <3> QED BY <1>3 DEF FailureIn
  <2> QED BY <2>1, FS_EmptySet DEF CountOf
<1>5. ct \in Nat /\ bt \in Nat /\ bf \in Nat
  <2>1. {r \in a.baseline : StateOf(r) = "FAILURE"} \subseteq a.baseline
    OBVIOUS
  <2> HIDE DEF a, b
  <2> QED BY <1>3, <2>1, DoneIs DEF CountOf
<1>6. c.factor \in Nat
  BY ConditionsAssumption DEF AlertCondition
<1>7. IF bt = 0 THEN cf > 0 ELSE 2 * cf * bt > c.factor * ct * Max({2 * bf, 1})
  <2> HIDE DEF a
  <2> QED BY <1>1 DEF SpikeBeyond
<1> HIDE DEF ct, cf, bt, bf
<1>8. Max({2 * bf, 1}) \in Nat
  <2>1. PICK S : S = {2 * bf, 1}
    OBVIOUS
  <2>2. IsFiniteSet({2 * bf, 1})
    BY PairFinite
  <2>3. S # {} /\ IsFiniteSet(S) /\ \A x \in S : x \in Nat
    BY <1>5, <2>1, <2>2
  <2>4. S \subseteq Int => Max(S) \in S
    BY <2>3, MaxOf
  <2>5. S \subseteq Int
    BY <2>3
  <2> QED BY <2>1, <2>3, <2>4, <2>5
<1>9. \A k, m, p, q \in Nat : ~(2 * 0 * k > m * p * q)
  OBVIOUS
<1> QED BY <1>4, <1>5, <1>6, <1>7, <1>8, <1>9

\* Of the ten conditions, whichever it is.
LEMMA ConditionsHaveCause ==
    ASSUME QueriesInv, NEW c \in Conditions, NEW env \in ReadingsOf(c),
           NEW failing \in SUBSET (Reads \ {"last seen"}), Met(c, failing, env)
    PROVE  Cause(c, env)
<1>1. c.on \in {"TaskFailureRate", "TaskFailed", "TaskDuration", "QueueDepth", "WorkerOffline", "BeatMissed",
                "NoEvents", "ThroughputAnomaly", "LatencyAnomaly", "ErrorRateSpike"}
  <2>1. c \in AlertCondition
    BY ConditionsAssumption
  <2> QED BY <2>1 DEF AlertCondition
<1>2. c.on = "QueueDepth" => env \in Readings
  BY DEF ReadingsOf, ReadsOf
<1>3. "last seen" \notin failing
  OBVIOUS
<1> QED BY <1>1, <1>2, <1>3, FailureRateHasCause, FailedHasCause, DurationHasCause, DepthHasCause, OfflineHasCause,
           BeatHasCause, SilenceHasCause, ThroughputHasCause, LatencyHasCause, SpikeHasCause

\* Whichever reads but that of a worker's last heartbeat fail, no condition is
\* met without cause: for any rows, windows, thresholds, sample minimums and
\* readings (context_for, evaluate_condition, stats.rs).
THEOREM AlertsFailClosed == QueriesSpec => []FailsClosed
<1>1. ASSUME QueriesInv PROVE FailsClosed
  <2>1. ASSUME NEW c \in Conditions, NEW env \in ReadingsOf(c), ~Cause(c, env),
               NEW failing \in SUBSET (ReadsOf(c) \cap (Reads \ {"last seen"}))
        PROVE  ~Met(c, failing, env)
    <3>1. failing \in SUBSET (Reads \ {"last seen"})
      OBVIOUS
    <3> QED BY <1>1, <2>1, <3>1, ConditionsHaveCause
  <2> QED BY <2>1 DEF FailsClosed, MetForCause
<1> QED BY <1>1, StoreInvariant, PTL

-----------------------------------------------------------------------------
(* Dashboards.                                                             *)

\* The parts of a view of the tasks in a window count its finished rows.
LEMMA PartCounts ==
    ASSUME QueriesInv, NEW p \in TaskMetricsMv(rows)
    PROVE  SumFunction(p.count) =
               Cardinality({r \in rows : StateOf(r) \in Finished /\ <<r.name, MinuteOf(r)>> = <<p.key, p.minute>>})
<1> DEFINE done == {r \in rows : StateOf(r) \in Finished}
<1>1. PICK g \in {<<r.name, MinuteOf(r)>> : r \in done} :
          p = [view |-> "tasks", key |-> g[1], minute |-> g[2],
               count |-> [s \in Finished |->
                  Cardinality({r \in done : <<r.name, MinuteOf(r)>> = g /\ StateOf(r) = s})]]
  BY DEF TaskMetricsMv
<1>2. g = <<p.key, p.minute>>
  BY <1>1
<1> DEFINE R == {r \in done : <<r.name, MinuteOf(r)>> = g}
           state == [r \in R |-> StateOf(r)]
<1>3. IsFiniteSet(R)
  BY RowsFinite
<1>4. \A s \in Finished : p.count[s] = Cardinality(Having(R, state, {s}))
  <2>1. ASSUME NEW s \in Finished
        PROVE  Having(R, state, {s}) = {r \in done : <<r.name, MinuteOf(r)>> = g /\ StateOf(r) = s}
    BY DEF Having
  <2> QED BY <1>1, <2>1
<1>5. IsFiniteSet(Finished)
  <2>1. PICK S, T : S = {"SUCCESS", "FAILURE"} /\ T = {"RETRY", "REVOKED"}
    OBVIOUS
  <2>2. IsFiniteSet(S) /\ IsFiniteSet(T)
    BY <2>1, PairFinite
  <2>3. IsFiniteSet(S \cup T)
    BY <2>2, FS_Union
  <2>4. S \cup T = Finished
    BY <2>1 DEF Finished
  <2> QED BY <2>3, <2>4
<1>6. SumFunctionOnSet(p.count, Finished) = Cardinality(Having(R, state, Finished))
  <2> HIDE DEF R, state
  <2> QED BY <1>3, <1>4, <1>5, SumOfGroups
<1>7. Having(R, state, Finished) = R
  BY DEF Having
<1>8. DOMAIN p.count = Finished
  BY <1>1
<1>9. R = {r \in rows : StateOf(r) \in Finished /\ <<r.name, MinuteOf(r)>> = <<p.key, p.minute>>}
  BY <1>2
<1> QED BY <1>6, <1>7, <1>8, <1>9 DEF SumFunction

\* One part to a name and a minute.
LEMMA PartsApart ==
    ASSUME NEW R, NEW p \in TaskMetricsMv(R), NEW q \in TaskMetricsMv(R),
           p.key = q.key, p.minute = q.minute
    PROVE  p = q
<1> DEFINE done == {r \in R : StateOf(r) \in Finished}
           part(g) == [view |-> "tasks", key |-> g[1], minute |-> g[2],
                       count |-> [s \in Finished |->
                          Cardinality({r \in done : <<r.name, MinuteOf(r)>> = g /\ StateOf(r) = s})]]
<1>1. PICK g \in {<<r.name, MinuteOf(r)>> : r \in done} : p = part(g)
  BY DEF TaskMetricsMv
<1>2. PICK h \in {<<r.name, MinuteOf(r)>> : r \in done} : q = part(h)
  BY DEF TaskMetricsMv
<1>3. g[1] = h[1] /\ g[2] = h[2]
  BY <1>1, <1>2
<1>4. g = h
  BY <1>3
<1> QED BY <1>1, <1>2, <1>4

\* The number a window of the view shows is that of its finished rows, by the
\* minute they are in.
LEMMA ViewCounts ==
    ASSUME QueriesInv, NEW w \in Nat
    PROVE  RecentCompleted(w, AnyName) =
               Cardinality({r \in rows : StateOf(r) \in Finished /\ MinuteOf(r) >= clock - w * MINUTE})
<1> DEFINE D == {p \in Parts("tasks", w) : Matches(p.key, AnyName)}
           R == {r \in rows : StateOf(r) \in Finished}
           of == [r \in R |-> CHOOSE p \in TaskMetricsMv(rows) : p.key = r.name /\ p.minute = MinuteOf(r)]
           size == [p \in D |-> SumFunction(p.count)]
<1>1. D = {p \in TaskMetricsMv(rows) : p.minute >= clock - w * MINUTE}
  <2>1. \A p : p \in QueueMetricsMv(rows) => p.view = "queues"
    BY DEF QueueMetricsMv
  <2>2. \A p : p \in TaskMetricsMv(rows) => p.view = "tasks"
    BY DEF TaskMetricsMv
  <2>3. \A p : p \in parts /\ p.view = "tasks" <=> p \in TaskMetricsMv(rows)
    BY <2>1, <2>2 DEF QueriesInv, ViewsInv
  <2>4. \A p : p \in D <=> (p \in parts /\ p.view = "tasks" /\ p.minute >= clock - w * MINUTE)
    BY DEF Parts, Matches
  <2>5. \A p : p \in D <=> (p \in TaskMetricsMv(rows) /\ p.minute >= clock - w * MINUTE)
    <3> HIDE DEF D
    <3> QED BY <2>3, <2>4
  <2> HIDE DEF D
  <2> QED BY <2>5
<1>2. ASSUME NEW r \in R
      PROVE  of[r] \in TaskMetricsMv(rows) /\ of[r].key = r.name /\ of[r].minute = MinuteOf(r)
  <2>1. \E p \in TaskMetricsMv(rows) : p.key = r.name /\ p.minute = MinuteOf(r)
    <3> DEFINE g == <<r.name, MinuteOf(r)>>
               p == [view |-> "tasks", key |-> g[1], minute |-> g[2],
                     count |-> [s \in Finished |->
                        Cardinality({q \in R : <<q.name, MinuteOf(q)>> = g /\ StateOf(q) = s})]]
    <3>1. p \in TaskMetricsMv(rows)
      BY DEF TaskMetricsMv
    <3>2. p.key = r.name /\ p.minute = MinuteOf(r)
      OBVIOUS
    <3> QED BY <3>1, <3>2
  <2> QED BY <2>1
<1>3. ASSUME NEW p \in D
      PROVE  size[p] = Cardinality(Having(R, of, {p}))
  <2>1. p \in TaskMetricsMv(rows)
    <3> HIDE DEF D
    <3> QED BY <1>1
  <2>2. SumFunction(p.count) =
            Cardinality({r \in rows : StateOf(r) \in Finished /\ <<r.name, MinuteOf(r)>> = <<p.key, p.minute>>})
    BY <2>1, PartCounts
  <2>3. ASSUME NEW r \in R PROVE of[r] = p <=> <<r.name, MinuteOf(r)>> = <<p.key, p.minute>>
    <3>1. of[r] = p => r.name = p.key /\ MinuteOf(r) = p.minute
      BY <1>2
    <3>2. ASSUME r.name = p.key, MinuteOf(r) = p.minute PROVE of[r] = p
      <4> HIDE DEF of, R, D
      <4>1. of[r] \in TaskMetricsMv(rows) /\ of[r].key = p.key /\ of[r].minute = p.minute
        BY <1>2, <3>2
      <4> QED BY <2>1, <4>1, PartsApart
    <3> HIDE DEF of
    <3> QED BY <3>1, <3>2
  <2>4. Having(R, of, {p})
        = {r \in rows : StateOf(r) \in Finished /\ <<r.name, MinuteOf(r)>> = <<p.key, p.minute>>}
    <3> HIDE DEF of
    <3> QED BY <2>3 DEF Having
  <2>5. size[p] = SumFunction(p.count)
    OBVIOUS
  <2> QED BY <2>2, <2>4, <2>5
<1>4. IsFiniteSet(R)
  BY RowsFinite
<1>5. IsFiniteSet(D)
  <2>1. \A p \in D : \E r \in R : p = of[r]
    <3>1. ASSUME NEW p \in D PROVE \E r \in R : p = of[r]
      <4>1. p \in TaskMetricsMv(rows)
        <5> HIDE DEF D
        <5> QED BY <1>1
      <4>2. PICK r \in R : r.name = p.key /\ MinuteOf(r) = p.minute
        <5>1. PICK g \in {<<r.name, MinuteOf(r)>> : r \in R} :
                  p = [view |-> "tasks", key |-> g[1], minute |-> g[2],
                       count |-> [s \in Finished |->
                          Cardinality({r \in R : <<r.name, MinuteOf(r)>> = g /\ StateOf(r) = s})]]
          BY <4>1 DEF TaskMetricsMv
        <5>2. PICK r \in R : g = <<r.name, MinuteOf(r)>>
          OBVIOUS
        <5>3. p.key = g[1] /\ p.minute = g[2]
          BY <5>1
        <5>4. g[1] = r.name /\ g[2] = MinuteOf(r)
          BY <5>2
        <5> QED BY <5>3, <5>4
      <4> HIDE DEF of, R, D
      <4>3. of[r] \in TaskMetricsMv(rows) /\ of[r].key = p.key /\ of[r].minute = p.minute
        BY <1>2, <4>2
      <4>4. of[r] = p
        BY <4>1, <4>3, PartsApart
      <4> QED BY <4>4
    <3> HIDE DEF of
    <3> QED BY <3>1
  <2>2. IsFiniteSet({of[r] : r \in R})
    <3> HIDE DEF of, R
    <3> QED BY <1>4, ImageFinite
  <2>3. D \subseteq {of[r] : r \in R}
    <3> HIDE DEF of, R, D
    <3> QED BY <2>1
  <2> HIDE DEF of, R, D
  <2> QED BY <2>2, <2>3, FS_Subset
<1>6. SumFunctionOnSet(size, D) = Cardinality(Having(R, of, D))
  <2> HIDE DEF of, R, D, size
  <2> QED BY <1>3, <1>4, <1>5, SumOfGroups
<1>7. Having(R, of, D) = {r \in rows : StateOf(r) \in Finished /\ MinuteOf(r) >= clock - w * MINUTE}
  <2>1. ASSUME NEW r \in R PROVE of[r] \in D <=> MinuteOf(r) >= clock - w * MINUTE
    <3> HIDE DEF of, R, D
    <3> QED BY <1>1, <1>2
  <2> HIDE DEF of, D
  <2> QED BY <2>1 DEF Having
<1>8. RecentCompleted(w, AnyName) = SumFunctionOnSet(size, D)
  BY DEF RecentCompleted, Counted, SumFunction
<1> HIDE DEF of, R, D, size
<1> QED BY <1>6, <1>7, <1>8

\* What some parts of a view have in a column is the number of rows that they
\* count there.
ColumnSum(ps, c) == SumFunction([p \in ps |-> p.count[c]])
InColumn(T, cs, c) == {r \in T : c \in cs[r]}

LEMMA ColumnTotal ==
    ASSUME NEW D, IsFiniteSet(D), NEW key, NEW cs, NEW all, NEW c \in all, NEW view,
           \A r \in D : key[r] = <<key[r][1], key[r][2]>>,
           NEW ps, ps \subseteq Tally(view, D, key, cs, all),
           NEW T, T \subseteq D,
           \A r \in D : r \in T <=> Part(view, D, key, cs, all, key[r]) \in ps
    PROVE  ColumnSum(ps, c) = Cardinality(InColumn(T, cs, c))
<1> DEFINE R == {r \in D : c \in cs[r]}
           part == [r \in D |-> Part(view, D, key, cs, all, key[r])]
           of == [r \in R |-> Part(view, D, key, cs, all, key[r])]
           size == [p \in ps |-> p.count[c]]
<1>1. IsFiniteSet(R)
  BY FS_Subset
<1>2. \A p \in ps : \E r \in D : p = part[r]
  BY DEF Tally
<1>3. IsFiniteSet(ps)
  <2>1. IsFiniteSet({part[r] : r \in D})
    <3> HIDE DEF part
    <3> QED BY ImageFinite
  <2>2. ps \subseteq {part[r] : r \in D}
    <3> HIDE DEF part
    <3> QED BY <1>2
  <2> HIDE DEF part
  <2> QED BY <2>1, <2>2, FS_Subset
<1>4. ASSUME NEW p \in ps PROVE size[p] = Cardinality(Having(R, of, {p}))
  <2>1. PICK q \in D : p = part[q]
    BY <1>2
  <2>2. PICK g : g = key[q]
    OBVIOUS
  <2>3. p = Part(view, D, key, cs, all, g)
    BY <2>1, <2>2
  <2>4. p.key = g[1] /\ p.minute = g[2]
        /\ p.count = [k \in all |-> Cardinality({r \in D : key[r] = g /\ k \in cs[r]})]
    BY <2>3 DEF Part
  <2>5. size[p] = Cardinality({r \in D : key[r] = g /\ c \in cs[r]})
    BY <2>4
  <2>6. ASSUME NEW r \in R PROVE of[r] = p <=> key[r] = g
    <3>1. of[r] = Part(view, D, key, cs, all, key[r])
      OBVIOUS
    <3>2. of[r].key = key[r][1] /\ of[r].minute = key[r][2]
      <4> HIDE DEF of
      <4> QED BY <3>1 DEF Part
    <3>3. key[r] = <<key[r][1], key[r][2]>> /\ g = <<g[1], g[2]>>
      BY <2>2
    <3>4. of[r] = p => key[r] = g
      <4> HIDE DEF of
      <4> QED BY <2>4, <3>2, <3>3
    <3>5. key[r] = g => of[r] = p
      <4> HIDE DEF of
      <4> QED BY <2>3, <3>1
    <3> QED BY <3>4, <3>5
  <2>7. Having(R, of, {p}) = {r \in D : key[r] = g /\ c \in cs[r]}
    <3> HIDE DEF of
    <3> QED BY <2>6 DEF Having
  <2> QED BY <2>5, <2>7
<1>5. SumFunctionOnSet(size, ps) = Cardinality(Having(R, of, ps))
  <2> HIDE DEF R, of, size
  <2> QED BY <1>1, <1>3, <1>4, SumOfGroups
<1>6. Having(R, of, ps) = {r \in T : c \in cs[r]}
  <2>1. \A r \in R : of[r] \in ps <=> r \in T
    OBVIOUS
  <2> HIDE DEF of
  <2> QED BY <2>1 DEF Having
<1>7. SumFunction(size) = SumFunctionOnSet(size, ps)
  BY DEF SumFunction
<1> QED BY <1>5, <1>6, <1>7 DEF ColumnSum, InColumn

\* The parts of a window.
LEMMA PartsAre ==
    ASSUME QueriesInv, NEW m \in Nat, NEW p
    PROVE  /\ p \in Parts("tasks", m) <=>
                  p \in TaskView(rows, rows) /\ p.minute >= clock - m * MINUTE
           /\ p \in Parts("queues", m) <=>
                  p \in QueueView(rows, rows) /\ p.minute >= clock - m * MINUTE
<1>1. \A q \in TaskView(rows, rows) : q.view = "tasks"
  BY DEF TaskView, Tally, Part
<1>2. \A q \in QueueView(rows, rows) : q.view = "queues"
  BY DEF QueueView, Tally, Part
<1>3. parts = TaskView(rows, rows) \cup QueueView(rows, rows)
  BY TaskViewIs, QueueViewIs DEF QueriesInv, ViewsInv
<1> QED BY <1>1, <1>2, <1>3 DEF Parts

\* What the chart of the tasks shows of a state.
LEMMA EndedIs ==
    ASSUME QueriesInv, NEW m \in Nat, NEW s \in Finished
    PROVE  SumFunction([p \in ThroughputMetrics(m) |-> p.count[s]]) =
               Cardinality({r \in rows : StateOf(r) = s /\ MinuteOf(r) >= clock - m * MINUTE})
<1> DEFINE D == DoneRows(rows)
           key == TaskKey(rows)
           cs == TaskColumns(rows)
           ps == ThroughputMetrics(m)
           T == {r \in D : MinuteOf(r) >= clock - m * MINUTE}
<1>1. IsFiniteSet(D) /\ \A r \in D : r \in rows
  BY RowsFinite DEF DoneRows
<1>2. \A r \in D : key[r] = <<r.name, MinuteOf(r)>> /\ cs[r] = {StateOf(r)}
  BY DEF DoneRows, TaskKey, TaskColumns
<1>3. \A p : p \in ps <=> p \in TaskView(rows, rows) /\ p.minute >= clock - m * MINUTE
  BY PartsAre DEF ThroughputMetrics
<1>4. TaskView(rows, rows) = Tally("tasks", D, key, cs, Finished)
  BY DEF TaskView
<1>5. ASSUME NEW r \in D
      PROVE  r \in T <=> Part("tasks", D, key, cs, Finished, key[r]) \in ps
  <2>1. PICK p : p = Part("tasks", D, key, cs, Finished, key[r])
    OBVIOUS
  <2>2. p \in Tally("tasks", D, key, cs, Finished)
    BY <2>1 DEF Tally
  <2>3. p.minute = MinuteOf(r)
    <3> HIDE DEF key
    <3> QED BY <1>2, <2>1 DEF Part
  <2> HIDE DEF key, D, cs, ps
  <2> QED BY <1>3, <1>4, <2>1, <2>2, <2>3
<1>6. ColumnSum(ps, s) = Cardinality(InColumn(T, cs, s))
  <2>1. ps \subseteq Tally("tasks", D, key, cs, Finished)
    <3> HIDE DEF ps, D, key, cs
    <3> QED BY <1>3, <1>4
  <2>2. \A r \in D : key[r] = <<key[r][1], key[r][2]>>
    <3> HIDE DEF D, key
    <3> QED BY <1>2
  <2>3. T \subseteq D
    OBVIOUS
  <2> HIDE DEF ps, D, key, cs, T
  <2> QED BY <1>1, <1>5, <2>1, <2>2, <2>3, ColumnTotal
<1>7. InColumn(T, cs, s) = {r \in rows : StateOf(r) = s /\ MinuteOf(r) >= clock - m * MINUTE}
  <2>1. \A r \in D : s \in cs[r] <=> StateOf(r) = s
    BY <1>2
  <2> HIDE DEF cs
  <2> QED BY <2>1 DEF DoneRows, InColumn
<1> QED BY <1>6, <1>7 DEF ColumnSum

\* What the chart of a queue shows as enqueued.
EnqueuedOf(q, m) == IF q \in DOMAIN QueueOverview(m) THEN QueueOverview(m)[q].enqueued ELSE 0

LEMMA EnqueuedIs ==
    ASSUME QueriesInv, NEW m \in Nat, NEW q, q # None
    PROVE  EnqueuedOf(q, m) =
               Cardinality({r \in rows : /\ r.type = "task-sent" /\ Carried(r, "queue") = q
                                         /\ MinuteOf(r) >= clock - m * MINUTE})
<1> DEFINE D == CountedRows(rows)
           key == QueueKey(rows)
           cs == QueueColumns(rows)
           all == DOMAIN QueueColumn
           ps == QueueMetrics(q, m)
           T == {r \in D : Carried(r, "queue") = q /\ MinuteOf(r) >= clock - m * MINUTE}
           sent == {r \in rows : /\ r.type = "task-sent" /\ Carried(r, "queue") = q
                                 /\ MinuteOf(r) >= clock - m * MINUTE}
<1>1. IsFiniteSet(D) /\ D \subseteq rows
  BY RowsFinite DEF CountedRows
<1>2. "enqueued" \in all /\ QueueColumn["enqueued"] = "task-sent"
  BY DEF QueueColumn
<1>3. \A r \in D : /\ key[r] = <<Carried(r, "queue"), MinuteOf(r)>>
                   /\ "enqueued" \in cs[r] <=> r.type = "task-sent"
  BY <1>2 DEF CountedRows, QueueKey, QueueColumns
<1>4. \A p : p \in ps <=> /\ p \in QueueView(rows, rows)
                          /\ p.minute >= clock - m * MINUTE /\ p.key = q
  BY PartsAre DEF QueueMetrics
<1>5. QueueView(rows, rows) = Tally("queues", D, key, cs, all)
  BY DEF QueueView
<1>6. ASSUME NEW r \in D
      PROVE  r \in T <=> Part("queues", D, key, cs, all, key[r]) \in ps
  <2>1. PICK p : p = Part("queues", D, key, cs, all, key[r])
    OBVIOUS
  <2>2. p \in Tally("queues", D, key, cs, all)
    BY <2>1 DEF Tally
  <2>3. p.minute = MinuteOf(r) /\ p.key = Carried(r, "queue")
    <3> HIDE DEF key
    <3> QED BY <1>3, <2>1 DEF Part
  <2> HIDE DEF key, D, cs, ps, all
  <2> QED BY <1>4, <1>5, <2>1, <2>2, <2>3
<1>7. ColumnSum(ps, "enqueued") = Cardinality(InColumn(T, cs, "enqueued"))
  <2>1. ps \subseteq Tally("queues", D, key, cs, all)
    <3> HIDE DEF ps, D, key, cs, all
    <3> QED BY <1>4, <1>5
  <2>2. \A r \in D : key[r] = <<key[r][1], key[r][2]>>
    <3> HIDE DEF D, key
    <3> QED BY <1>3
  <2>3. T \subseteq D
    OBVIOUS
  <2> HIDE DEF ps, D, key, cs, T, all
  <2> QED BY <1>1, <1>2, <1>6, <2>1, <2>2, <2>3, ColumnTotal
<1>8. InColumn(T, cs, "enqueued") = sent
  <2>1. \A r \in rows : r.type = "task-sent" => r \in D
    BY <1>2 DEF CountedRows
  <2>2. \A r \in D : "enqueued" \in cs[r] <=> r.type = "task-sent"
    <3> HIDE DEF cs, D
    <3> QED BY <1>3
  <2> HIDE DEF cs, D
  <2> QED BY <1>1, <2>1, <2>2 DEF InColumn
<1>9. ASSUME q \in DOMAIN QueueOverview(m) PROVE EnqueuedOf(q, m) = Cardinality(sent)
  <2>1. QueueOverview(m)[q].enqueued = ColumnSum(ps, "enqueued")
    BY <1>9 DEF QueueOverview, ColumnSum
  <2> HIDE DEF ps, T, cs, sent
  <2> QED BY <1>7, <1>8, <1>9, <2>1 DEF EnqueuedOf
<1>10. ASSUME q \notin DOMAIN QueueOverview(m) PROVE EnqueuedOf(q, m) = Cardinality(sent)
  <2>1. DOMAIN QueueOverview(m) = {p.key : p \in {p \in Parts("queues", m) : p.key # None}}
    BY DEF QueueOverview
  <2>2. ASSUME NEW p \in ps PROVE FALSE
    <3>1. p \in Parts("queues", m) /\ p.key = q
      BY DEF QueueMetrics
    <3> QED BY <1>10, <2>1, <3>1
  <2>3. T = {}
    <3>1. ASSUME NEW r \in T PROVE FALSE
      <4>1. r \in D
        OBVIOUS
      <4> HIDE DEF T, ps, D, key, cs, all
      <4> QED BY <1>6, <2>2, <4>1
    <3> HIDE DEF T
    <3> QED BY <3>1
  <2>4. sent = {}
    <3> HIDE DEF T, cs, sent
    <3> QED BY <1>8, <2>3 DEF InColumn
  <2>5. Cardinality(sent) = 0
    <3> HIDE DEF sent
    <3> QED BY <2>4, FS_EmptySet
  <2> HIDE DEF sent
  <2> QED BY <1>10, <2>5 DEF EnqueuedOf
<1> QED BY <1>9, <1>10

\* The greatest of some groups are all of them when they are fewer than asked for.
LEMMA TopIs ==
    ASSUME NEW groups, NEW D, DOMAIN groups = D, IsFiniteSet(D), NEW n \in Nat,
           NEW top \in TopGroups(groups, n)
    PROVE  /\ DOMAIN top \subseteq D
           /\ \A k \in DOMAIN top : top[k] = groups[k]
           /\ Cardinality(DOMAIN top) < n => DOMAIN top = D
<1>1. PICK K \in SUBSET D : /\ Cardinality(K) = Min({n, Cardinality(D)})
                            /\ top = Restrict(groups, K)
  BY DEF TopGroups
<1>2. DOMAIN top = K /\ \A k \in K : top[k] = groups[k]
  BY <1>1 DEF Restrict
<1>3. Cardinality(D) \in Nat
  BY FS_CardinalityType
<1>4. Cardinality(K) = IF n <= Cardinality(D) THEN n ELSE Cardinality(D)
  BY <1>1, <1>3, PairMin
<1>5. Cardinality(K) = Cardinality(D) => K = D
  BY FS_Subset
<1> QED BY <1>2, <1>3, <1>4, <1>5

\* The greatest groups of some rows, and the rows that have no group.
Grouped(S, by) == [k \in {by[r] : r \in S} |-> {r \in S : by[r] = k}]

LEMMA TopAddsUp ==
    ASSUME NEW S, IsFiniteSet(S), NEW by, NEW groups, groups = Grouped(S, by),
           NEW n \in Nat, NEW top \in TopGroups(groups, n),
           NEW rest, IsFiniteSet(rest), S \cap rest = {}
    PROVE  AddsUp(top, n, rest, Cardinality(S \cup rest))
<1> DEFINE D == {by[r] : r \in S}
           K == DOMAIN top
           size == [k \in K |-> Cardinality(top[k])]
<1>1. IsFiniteSet(D) /\ DOMAIN groups = D
  <2>1. IsFiniteSet(D)
    BY ImageFinite
  <2> QED BY <2>1 DEF Grouped
<1>2. K \subseteq D /\ (\A k \in K : top[k] = groups[k]) /\ (Cardinality(K) < n => K = D)
  <2> HIDE DEF D
  <2> QED BY <1>1, TopIs
<1>3. IsFiniteSet(K)
  <2> HIDE DEF D, K
  <2> QED BY <1>1, <1>2, FS_Subset
<1>4. ASSUME NEW k \in K PROVE size[k] = Cardinality(Having(S, by, {k}))
  <2>1. groups[k] = {r \in S : by[r] = k}
    BY <1>2 DEF Grouped
  <2>2. groups[k] = Having(S, by, {k})
    BY <2>1 DEF Having
  <2>3. size[k] = Cardinality(top[k]) /\ top[k] = groups[k]
    BY <1>2
  <2> QED BY <2>2, <2>3
<1>5. SumFunctionOnSet(size, K) = Cardinality(Having(S, by, K))
  <2> HIDE DEF K, size
  <2> QED BY <1>3, <1>4, SumOfGroups
<1>6. GroupTotal(top) = SumFunctionOnSet(size, K)
  BY DEF GroupTotal, SumFunction
<1> HIDE DEF size
<1>7. /\ Having(S, by, K) \subseteq S
      /\ K = D => Having(S, by, K) = S
  BY DEF Having
<1>8. /\ Cardinality(Having(S, by, K)) <= Cardinality(S)
      /\ Cardinality(Having(S, by, K)) \in Nat
  <2> HIDE DEF K, D
  <2> QED BY <1>7, FS_Subset, FS_CardinalityType
<1>9. /\ Cardinality(S \cup rest) = Cardinality(S) + Cardinality(rest)
      /\ Cardinality(S) \in Nat /\ Cardinality(rest) \in Nat
  BY DisjointUnion
<1>10. /\ GroupTotal(top) + Cardinality(rest) <= Cardinality(S \cup rest)
       /\ Cardinality(K) < n => GroupTotal(top) + Cardinality(rest) = Cardinality(S \cup rest)
  <2> HIDE DEF K, D
  <2> QED BY <1>2, <1>5, <1>6, <1>7, <1>8, <1>9
<1> QED BY <1>10 DEF AddsUp

\* Some of some rows are no more than all.
LEMMA Fewer ==
    ASSUME QueriesInv, NEW R, NEW S, R \subseteq S, S \subseteq rows
    PROVE  /\ IsFiniteSet(R) /\ IsFiniteSet(S)
           /\ Cardinality(R) \in Nat /\ Cardinality(S) \in Nat
           /\ Cardinality(R) <= Cardinality(S)
<1>1. IsFiniteSet(S)
  BY RowsFinite
<1> QED BY <1>1, FS_Subset, FS_CardinalityType

\* A minute that begins in a window is in it, and what is in a window is in a
\* minute that begins in a window a minute longer.
LEMMA MinutesOfWindow ==
    ASSUME QueriesInv, NEW w \in Nat, NEW r \in rows
    PROVE  /\ MinuteOf(r) >= clock - w * MINUTE => r.at >= clock - w * MINUTE
           /\ r.at >= clock - w * MINUTE => MinuteOf(r) >= clock - (w + 1) * MINUTE
<1>1. /\ MinuteOf(r) \in Int /\ r.at \in Int /\ r.at < MinuteOf(r) + MINUTE
      /\ MinuteOf(r) <= r.at /\ clock \in Int /\ w * MINUTE \in Int
  BY RowIs, WindowIs
<1>2. (w + 1) * MINUTE = w * MINUTE + MINUTE /\ MINUTE \in Nat
  BY EventStoreAssumption
<1> QED BY <1>1, <1>2

\* What is counted by the minute lies between two windows.
LEMMA BetweenWindows ==
    ASSUME QueriesInv, NEW w \in Nat, NEW R, R \subseteq rows, NEW low, NEW n, NEW high,
           low = Cardinality({r \in R : MinuteOf(r) >= clock - w * MINUTE}),
           n = Cardinality({r \in R : r.at >= clock - w * MINUTE}),
           high = Cardinality({r \in R : MinuteOf(r) >= clock - (w + 1) * MINUTE})
    PROVE  low <= n /\ n <= high
<1> DEFINE A == {r \in R : MinuteOf(r) >= clock - w * MINUTE}
           B == {r \in R : r.at >= clock - w * MINUTE}
           C == {r \in R : MinuteOf(r) >= clock - (w + 1) * MINUTE}
<1>1. A \subseteq B /\ B \subseteq C
  BY MinutesOfWindow
<1>2. B \subseteq rows /\ C \subseteq rows
  OBVIOUS
<1>3. low = Cardinality(A) /\ n = Cardinality(B) /\ high = Cardinality(C)
  OBVIOUS
<1> HIDE DEF A, B, C
<1> QED BY <1>1, <1>2, <1>3, Fewer

\* The views against the events of a window.
LEMMA ViewsAgree ==
    ASSUME QueriesInv, NEW w \in Windows
    PROVE  ViewsFollow(w)
<1> DEFINE overview == Overview(w, AnyName)
           ended(s, m) == SumFunction([p \in ThroughputMetrics(m) |-> p.count[s]])
           sent(q) == {r \in Since(w) : r.type = "task-sent" /\ Carried(r, "queue") = q}
<1>1. w \in Nat /\ w + 1 \in Nat
  BY DashboardsAssumption
<1>2. /\ RecentCompleted(w, AnyName) <= overview.total
      /\ overview.total <= RecentCompleted(w + 1, AnyName)
  <2> DEFINE R == {r \in rows : StateOf(r) \in Finished}
             in(m) == {r \in R : MinuteOf(r) >= clock - m * MINUTE}
  <2>1. \A m \in Nat : {r \in rows : StateOf(r) \in Finished /\ MinuteOf(r) >= clock - m * MINUTE} = in(m)
    OBVIOUS
  <2>2. \A m \in Nat : RecentCompleted(m, AnyName) = Cardinality(in(m))
    BY <2>1, ViewCounts
  <2>3. Done(w, AnyName) = {r \in R : r.at >= clock - w * MINUTE}
    BY DEF Done, Since, Matches
  <2>4. overview.total = Cardinality({r \in R : r.at >= clock - w * MINUTE})
    BY <2>3 DEF Overview
  <2>5. R \subseteq rows
    OBVIOUS
  <2> HIDE DEF R, overview
  <2> QED BY <1>1, <2>2, <2>4, <2>5, BetweenWindows
<1>3. ASSUME NEW s \in {"SUCCESS", "FAILURE"}
      PROVE  ended(s, w) <= CountOf(Done(w, AnyName), s) /\ CountOf(Done(w, AnyName), s) <= ended(s, w + 1)
  <2> DEFINE R == {r \in rows : StateOf(r) = s}
             in(m) == {r \in R : MinuteOf(r) >= clock - m * MINUTE}
  <2>1. s \in Finished
    BY DEF Finished
  <2>2. \A m \in Nat : {r \in rows : StateOf(r) = s /\ MinuteOf(r) >= clock - m * MINUTE} = in(m)
    OBVIOUS
  <2>3. \A m \in Nat : ended(s, m) = Cardinality(in(m))
    BY <2>1, <2>2, EndedIs
  <2>4. {r \in Done(w, AnyName) : StateOf(r) = s} = {r \in R : r.at >= clock - w * MINUTE}
    BY <2>1 DEF Done, Since, Matches
  <2>5. CountOf(Done(w, AnyName), s) = Cardinality({r \in R : r.at >= clock - w * MINUTE})
    BY <2>4 DEF CountOf
  <2>6. R \subseteq rows
    OBVIOUS
  <2> HIDE DEF R, ended
  <2> QED BY <1>1, <2>3, <2>5, <2>6, BetweenWindows
<1>4. overview.success = CountOf(Done(w, AnyName), "SUCCESS") /\ overview.failure = CountOf(Done(w, AnyName), "FAILURE")
  BY DEF Overview
<1>5. ASSUME NEW q \in Given("queue") \ {None}
      PROVE  EnqueuedOf(q, w) <= Cardinality(sent(q)) /\ Cardinality(sent(q)) <= EnqueuedOf(q, w + 1)
  <2> DEFINE R == {r \in rows : r.type = "task-sent" /\ Carried(r, "queue") = q}
             in(m) == {r \in R : MinuteOf(r) >= clock - m * MINUTE}
  <2>1. \A m \in Nat : {r \in rows : /\ r.type = "task-sent" /\ Carried(r, "queue") = q
                                       /\ MinuteOf(r) >= clock - m * MINUTE} = in(m)
    OBVIOUS
  <2>2. \A m \in Nat : EnqueuedOf(q, m) = Cardinality(in(m))
    BY <2>1, EnqueuedIs
  <2>3. sent(q) = {r \in R : r.at >= clock - w * MINUTE}
    BY DEF Since
  <2>4. R \subseteq rows
    OBVIOUS
  <2> HIDE DEF R, sent
  <2> QED BY <1>1, <2>2, <2>3, <2>4, BetweenWindows
<1> QED BY <1>2, <1>3, <1>4, <1>5 DEF ViewsFollow, EnqueuedOf

\* The breakdowns against the overview of a window.
LEMMA BreakdownsAgree ==
    ASSUME QueriesInv, NEW w \in Windows
    PROVE  BreakdownsAddUp(w)
<1> DEFINE done == Done(w, AnyName)
           overview == Overview(w, AnyName)
           unnamed == {r \in done : r.name = None}
           unexplained == {r \in done : StateOf(r) = "FAILURE" /\ life[r.task].error = None}
<1>1. /\ overview.total = Cardinality(done)
      /\ overview.failure = Cardinality({r \in done : StateOf(r) = "FAILURE"})
  BY DEF Overview, CountOf
<1>2. done \subseteq rows
  BY DEF Done, Since
<1>3. ASSUME NEW stats \in TaskNameStats(w)
      PROVE  AddsUp(stats, TaskNameLimit, unnamed, overview.total)
  <2> DEFINE named == {r \in done : r.name # None}
             key == [r \in named |-> r.name]
  <2>1. PICK groups : /\ groups = [k \in {r.name : r \in named} |-> {r \in named : r.name = k}]
                      /\ stats \in TopGroups(groups, TaskNameLimit)
    BY DEF TaskNameStats, Groups
  <2>2. groups = Grouped(named, key)
    <3>1. {r.name : r \in named} = {key[r] : r \in named}
      OBVIOUS
    <3>2. \A k : {r \in named : r.name = k} = {r \in named : key[r] = k}
      OBVIOUS
    <3> QED BY <2>1, <3>1, <3>2 DEF Grouped
  <2>3. IsFiniteSet(named) /\ IsFiniteSet(unnamed)
    BY <1>2, RowsFinite
  <2>4. named \cap unnamed = {} /\ named \cup unnamed = done
    OBVIOUS
  <2>5. TaskNameLimit \in Nat
    BY DashboardsAssumption
  <2> HIDE DEF named, unnamed, done, key, overview
  <2>6. AddsUp(stats, TaskNameLimit, unnamed, Cardinality(named \cup unnamed))
    BY <2>1, <2>2, <2>3, <2>4, <2>5, TopAddsUp
  <2> QED BY <1>1, <2>4, <2>6
<1>4. ASSUME NEW n \in FailureLimits, NEW top \in FailureGroups(w, n)
      PROVE  AddsUp(top, n, unexplained, overview.failure)
  <2> DEFINE failed == {r \in Since(w) : StateOf(r) = "FAILURE" /\ life[r.task].error # None}
             key == [r \in failed |-> life[r.task].error]
  <2>1. PICK groups : /\ groups = [k \in {life[r.task].error : r \in failed} |->
                                        {r \in failed : life[r.task].error = k}]
                      /\ top \in TopGroups(groups, n)
    BY DEF FailureGroups, Groups
  <2>2. groups = Grouped(failed, key)
    <3>1. {life[r.task].error : r \in failed} = {key[r] : r \in failed}
      OBVIOUS
    <3>2. \A k : {r \in failed : life[r.task].error = k} = {r \in failed : key[r] = k}
      OBVIOUS
    <3> QED BY <2>1, <3>1, <3>2 DEF Grouped
  <2>3. failed \subseteq rows
    BY DEF Since
  <2>4. IsFiniteSet(failed) /\ IsFiniteSet(unexplained)
    <3> HIDE DEF failed
    <3> QED BY <1>2, <2>3, RowsFinite
  <2>5. failed \cap unexplained = {} /\ failed \cup unexplained = {r \in done : StateOf(r) = "FAILURE"}
    BY DEF Done, Matches, Finished
  <2>6. n \in Nat
    BY DashboardsAssumption
  <2> HIDE DEF failed, unexplained, key
  <2>7. AddsUp(top, n, unexplained, Cardinality(failed \cup unexplained))
    BY <2>1, <2>2, <2>4, <2>5, <2>6, TopAddsUp
  <2>8. overview.failure = Cardinality(failed \cup unexplained)
    BY <1>1, <2>5
  <2> QED BY <2>7, <2>8
<1> HIDE DEF unnamed, unexplained, overview, done
<1> QED BY <1>3, <1>4 DEF BreakdownsAddUp, unnamed, unexplained, overview, done

\* Every row is of one broker.
LEMMA OfBrokers ==
    ASSUME QueriesInv, NEW R \in SUBSET rows, NEW by, \A r \in rows : by[r] = life[r.task].broker,
           NEW size, DOMAIN size = Brokers,
           \A b \in Brokers : size[b] = Cardinality(Having(R, by, {b}))
    PROVE  SumFunction(size) = Cardinality(R)
<1>1. IsFiniteSet(R) /\ IsFiniteSet(Brokers)
  BY RowsFinite, EventStoreAssumption
<1>2. SumFunctionOnSet(size, Brokers) = Cardinality(Having(R, by, Brokers))
  BY <1>1, SumOfGroups
<1>3. Having(R, by, Brokers) = R
  BY RowIs DEF Lives, Having
<1> QED BY <1>2, <1>3 DEF SumFunction

LEMMA BrokersAgree ==
    ASSUME QueriesInv
    PROVE  BrokersAddUp
<1> DEFINE by == [r \in rows |-> life[r.task].broker]
           unlisted == {r \in rows : r.type \notin TASK_EVENT_TYPES_IN}
           listed == Matching("events", {})
           of(s) == {r \in rows : StateOf(r) = s}
           totals == [b \in Brokers |-> BrokerStats(b).total]
           successes == [b \in Brokers |-> BrokerStats(b).success]
           failures == [b \in Brokers |-> BrokerStats(b).failure]
<1>1. SumFunction(totals) = Cardinality(rows)
  <2>1. ASSUME NEW b \in Brokers PROVE totals[b] = Cardinality(Having(rows, by, {b}))
    <3>1. {r \in rows : life[r.task].broker = b} = Having(rows, by, {b})
      BY DEF Having
    <3> QED BY <3>1 DEF BrokerStats
  <2>2. DOMAIN totals = Brokers
    OBVIOUS
  <2> HIDE DEF totals
  <2> QED BY <2>1, <2>2, OfBrokers
<1>2. ASSUME NEW s, NEW b
      PROVE  CountOf({r \in rows : life[r.task].broker = b}, s) = Cardinality(Having(of(s), by, {b}))
  <2>1. {r \in {r \in rows : life[r.task].broker = b} : StateOf(r) = s} = Having(of(s), by, {b})
    BY DEF Having
  <2> QED BY <2>1 DEF CountOf
<1>3. \A s : of(s) \in SUBSET rows
  OBVIOUS
<1>4. SumFunction(successes) = Cardinality(of("SUCCESS"))
  <2>1. \A b \in Brokers : successes[b] = Cardinality(Having(of("SUCCESS"), by, {b}))
    <3> HIDE DEF by, of
    <3> QED BY <1>2 DEF BrokerStats
  <2>2. DOMAIN successes = Brokers
    OBVIOUS
  <2> HIDE DEF successes, of
  <2> QED BY <1>3, <2>1, <2>2, OfBrokers
<1>5. SumFunction(failures) = Cardinality(of("FAILURE"))
  <2>1. \A b \in Brokers : failures[b] = Cardinality(Having(of("FAILURE"), by, {b}))
    <3> HIDE DEF by, of
    <3> QED BY <1>2 DEF BrokerStats
  <2>2. DOMAIN failures = Brokers
    OBVIOUS
  <2> HIDE DEF failures, of
  <2> QED BY <1>3, <2>1, <2>2, OfBrokers
<1>6. Cardinality(rows) = TaskEventsTotal({}) + Cardinality(unlisted)
  <2>1. listed \cap unlisted = {} /\ listed \cup unlisted = rows
    BY DEF Matching, InScope
  <2>2. IsFiniteSet(listed) /\ IsFiniteSet(unlisted)
    <3> HIDE DEF listed, unlisted
    <3> QED BY <2>1, RowsFinite
  <2>3. Cardinality(listed \cup unlisted) = Cardinality(listed) + Cardinality(unlisted)
    <3> HIDE DEF listed, unlisted
    <3> QED BY <2>1, <2>2, DisjointUnion
  <2>4. TaskEventsTotal({}) = Cardinality(listed)
    BY DEF TaskEventsTotal
  <2> HIDE DEF listed, unlisted
  <2> QED BY <2>1, <2>3, <2>4
<1>7. ASSUME NEW s \in {"SUCCESS", "FAILURE"} PROVE TaskEventsTotal({s}) = Cardinality(of(s))
  <2>1. \A r \in rows : StateOf(r) = s => r.type \in TASK_EVENT_TYPES_IN
    <3>1. ASSUME NEW r \in rows, StateOf(r) = s PROVE r.type \in TASK_EVENT_TYPES_IN
      <4>1. r.type \in EventTypes
        BY DEF QueriesInv, EventsInv, EventInv
      <4> QED BY <3>1, <4>1, StatesOfTypes DEF StateOf, TASK_EVENT_TYPES_IN
    <3> QED BY <3>1
  <2>2. Matching("events", {s}) = of(s)
    BY <2>1 DEF Matching, InScope
  <2> QED BY <2>2 DEF TaskEventsTotal
<1> HIDE DEF of, unlisted, totals, successes, failures
<1> QED BY <1>1, <1>4, <1>5, <1>6, <1>7 DEF BrokersAddUp, unlisted, totals, successes, failures

\* The numbers that pages show side by side agree, for any windows and limits and
\* however the events came: the views and the events, the breakdowns and the
\* overview, the brokers and the list (aggregations.rs, count_task_events).
THEOREM NumbersAgree == QueriesSpec => []DashboardsAgree
<1>1. QueriesInv => DashboardsAgree
  BY ViewsAgree, BreakdownsAgree, BrokersAgree DEF DashboardsAgree
<1> QED BY <1>1, StoreInvariant, PTL

-----------------------------------------------------------------------------
(* The retry chain, upwards.                                               *)

\* A set of numbers has a least one.
LEMMA LeastNumber ==
    ASSUME NEW T \in SUBSET Nat, T # {}
    PROVE  \E x \in T : \A y \in T : x <= y
<1>1. PICK R : R = OpToRel(<, Nat)
  BY Zenon
<1>2. IsWellFoundedOn(R, Nat)
  BY <1>1, NatLessThanWellFounded, Zenon
<1>3. PICK x \in T : \A y \in T : ~ (<<y, x>> \in R)
  BY <1>2, WFMin, Zenon
<1>4. \A y \in T : ~(y < x)
  BY <1>1, <1>3 DEF OpToRel
<1> QED BY <1>4

NameOf(t) == MergedName(RowsOf(t))

\* Whether the loop finds one more task above a chain of t, and the chain then.
Rises(t, c) ==
    /\ Parent(Head(c)) # None /\ Parent(Head(c)) \notin ToSet(c)
    /\ Parent(Head(c)) \in Stored /\ NameOf(Parent(Head(c))) = NameOf(t)
Risen(t, c) == IF Rises(t, c) THEN <<Parent(Head(c))>> \o c ELSE c

Climbs(t, n, up) ==
    up = [k \in 0 .. n |-> IF k = 0 THEN <<t>> ELSE Risen(t, up[k - 1])]

LEMMA ClimbExists ==
    ASSUME NEW t, NEW n \in Nat
    PROVE  \E up : Climbs(t, n, up)
<1> DEFINE T == {l \in Nat : ~ \E up : Climbs(t, l, up)}
<1> SUFFICES T = {}
  OBVIOUS
<1> SUFFICES ASSUME T # {} PROVE FALSE
  OBVIOUS
<1>1. PICK l \in T : \A y \in T : l <= y
  <2>1. T \in SUBSET Nat
    OBVIOUS
  <2> HIDE DEF T
  <2> QED BY <2>1, LeastNumber
<1>2. CASE l = 0
  <2>1. PICK up : up = [i \in {0} |-> <<t>>]
    OBVIOUS
  <2>2. 0 .. l = {0}
    BY <1>2
  <2>3. Climbs(t, l, up)
    BY <2>1, <2>2 DEF Climbs
  <2> QED BY <1>1, <2>3
<1>3. CASE l # 0
  <2>1. PICK j \in Nat : j = l - 1 /\ l = j + 1
    BY <1>1, <1>3
  <2>2. j \notin T
    BY <1>1, <2>1
  <2>3. PICK up : Climbs(t, j, up)
    BY <2>2
  <2>4. PICK d : d = [i \in 0 .. l |-> IF i = l THEN Risen(t, up[j]) ELSE up[i]]
    OBVIOUS
  <2>5. \A i \in 0 .. j : up[i] = IF i = 0 THEN <<t>> ELSE Risen(t, up[i - 1])
    BY <2>3 DEF Climbs
  <2>6. \A i \in 0 .. l : d[i] = IF i = 0 THEN <<t>> ELSE Risen(t, d[i - 1])
    <3> TAKE i \in 0 .. l
    <3>1. CASE i = l
      <4>1. i # 0 /\ i - 1 = j /\ j \in 0 .. l /\ j # l /\ i \in 0 .. l
        BY <2>1, <3>1
      <4>2. d[i] = Risen(t, up[j]) /\ d[j] = up[j]
        BY <2>4, <3>1, <4>1
      <4> QED BY <3>1, <4>1, <4>2
    <3>2. CASE i # l /\ i # 0
      <4>1. i \in 0 .. j /\ i - 1 \in 0 .. j /\ i - 1 \in 0 .. l /\ i - 1 # l
        BY <2>1, <3>2
      <4>2. d[i] = up[i] /\ d[i - 1] = up[i - 1]
        BY <2>4, <3>2, <4>1
      <4> QED BY <2>5, <3>2, <4>1, <4>2
    <3>3. CASE i = 0 /\ i # l
      BY <2>1, <2>4, <2>5, <3>3
    <3> QED BY <3>1, <3>2, <3>3
  <2>7. Climbs(t, l, d)
    <3>1. d = [i \in 0 .. l |-> d[i]]
      BY <2>4
    <3> QED BY <2>6, <3>1 DEF Climbs
  <2> QED BY <1>1, <2>7
<1> QED BY <1>2, <1>3

\* The chain after k rounds: it ends in t, every task in it once, each the
\* parent the next one names, all of one name; a round that adds nothing was
\* the last that could.
Ascent(t, k, c) ==
    /\ c \in Seq(Stored) /\ Len(c) \in 1 .. k + 1
    /\ c[Len(c)] = t
    /\ \A i, j \in 1 .. Len(c) : c[i] = c[j] => i = j
    /\ \A i \in 1 .. Len(c) : NameOf(c[i]) = NameOf(t)
    /\ \A i \in 1 .. Len(c) - 1 : Parent(c[i + 1]) = c[i]
    /\ Len(c) <= k => ~Rises(t, c)

LEMMA AscentGoesOn ==
    ASSUME NEW t, NEW k \in Nat, NEW c, Ascent(t, k, c)
    PROVE  Ascent(t, k + 1, Risen(t, c))
<1>1. CASE ~Rises(t, c)
  <2>1. Risen(t, c) = c
    BY <1>1 DEF Risen
  <2>2. Len(c) \in 1 .. (k + 1) + 1
    BY DEF Ascent
  <2> QED BY <1>1, <2>1, <2>2 DEF Ascent
<1>2. CASE Rises(t, c)
  <2>1. PICK n \in Nat : n = Len(c) /\ n = k + 1
    BY <1>2 DEF Ascent
  <2>2. PICK p \in Stored : p = Parent(Head(c)) /\ p \notin ToSet(c) /\ NameOf(p) = NameOf(t)
    BY <1>2 DEF Rises
  <2>3. c \in Seq(Stored) /\ DOMAIN c = 1 .. n /\ Head(c) = c[1] /\ n >= 1
    <3>0. c \in Seq(Stored) /\ n >= 1
      BY <2>1 DEF Ascent
    <3>1. c \in Seq(Stored) /\ DOMAIN c = 1 .. n /\ n >= 1
      BY <2>1, <3>0, LenProperties
    <3>2. c # <<>>
      BY <2>1, <3>1, EmptySeq
    <3> QED BY <3>1, <3>2, HeadTailProperties
  <2>4. PICK d : d = <<p>> \o c
    OBVIOUS
  <2>5. <<p>> \in Seq(Stored) /\ Len(<<p>>) = 1 /\ <<p>>[1] = p
    OBVIOUS
  <2>6. /\ d \in Seq(Stored) /\ Len(d) = n + 1
        /\ d[1] = p /\ \A i \in 1 .. n : d[i + 1] = c[i]
    <3>1. /\ d \in Seq(Stored) /\ Len(d) = Len(<<p>>) + Len(c)
          /\ \A i \in 1 .. Len(<<p>>) + Len(c) :
                d[i] = IF i <= Len(<<p>>) THEN <<p>>[i] ELSE c[i - Len(<<p>>)]
      BY <2>3, <2>4, <2>5, ConcatProperties
    <3>2. \A i \in 1 .. n : i + 1 \in 1 .. n + 1 /\ ~(i + 1 <= 1) /\ (i + 1) - 1 = i
      OBVIOUS
    <3>3. Len(d) = n + 1 /\ \A i \in 1 .. n + 1 : d[i] = IF i <= 1 THEN <<p>>[i] ELSE c[i - 1]
      <4>1. PICK h \in Nat : h = Len(<<p>>) /\ h = 1
        BY <2>5
      <4>2. PICK q : q = <<p>>
        OBVIOUS
      <4>3. Len(d) = h + n /\ \A i \in 1 .. h + n : d[i] = IF i <= h THEN q[i] ELSE c[i - h]
        BY <2>1, <3>1, <4>1, <4>2, Zenon
      <4> QED BY <4>1, <4>2, <4>3
    <3>4. d[1] = p
      BY <2>5, <3>3
    <3>5. \A i \in 1 .. n : d[i + 1] = c[i]
      BY <3>2, <3>3
    <3> QED BY <3>1, <3>3, <3>4, <3>5
  <2>7. \A i \in 2 .. n + 1 : i - 1 \in 1 .. n /\ d[i] = c[i - 1]
    <3> TAKE i \in 2 .. n + 1
    <3>1. i - 1 \in 1 .. n /\ (i - 1) + 1 = i
      OBVIOUS
    <3> QED BY <2>6, <3>1
  <2>8. \A i \in 1 .. n + 1 : i = 1 \/ i \in 2 .. n + 1
    OBVIOUS
  <2>9. \A i \in 1 .. n : c[i] # p
    BY <2>2, <2>3 DEF ToSet
  <2>10. d[n + 1] = t
    BY <2>1, <2>3, <2>6 DEF Ascent
  <2>11. ASSUME NEW i \in 1 .. n + 1, NEW j \in 1 .. n + 1, d[i] = d[j] PROVE i = j
    <3>1. CASE i = 1 /\ j \in 2 .. n + 1
      BY <2>6, <2>7, <2>9, <2>11, <3>1
    <3>2. CASE j = 1 /\ i \in 2 .. n + 1
      BY <2>6, <2>7, <2>9, <2>11, <3>2
    <3>3. CASE i \in 2 .. n + 1 /\ j \in 2 .. n + 1
      <4>1. c[i - 1] = c[j - 1] /\ i - 1 \in 1 .. n /\ j - 1 \in 1 .. n
        BY <2>7, <2>11, <3>3
      <4>2. i - 1 = j - 1
        BY <2>1, <4>1 DEF Ascent
      <4> QED BY <4>2
    <3> QED BY <2>8, <3>1, <3>2, <3>3
  <2>12. \A i \in 1 .. n + 1 : NameOf(d[i]) = NameOf(t)
    <3>1. \A i \in 1 .. n : NameOf(c[i]) = NameOf(t)
      BY <2>1 DEF Ascent
    <3> QED BY <2>2, <2>6, <2>7, <2>8, <3>1
  <2>13. ASSUME NEW i \in 1 .. n PROVE Parent(d[i + 1]) = d[i]
    <3>1. d[i + 1] = c[i]
      BY <2>6
    <3>2. CASE i = 1
      BY <2>2, <2>3, <2>6, <3>1, <3>2
    <3>3. CASE i # 1
      <4>1. PICK j \in 1 .. n - 1 : j = i - 1 /\ j + 1 = i /\ i \in 2 .. n + 1
        BY <3>3
      <4>2. Parent(c[j + 1]) = c[j]
        BY <2>1, <4>1 DEF Ascent
      <4>3. d[i] = c[j]
        BY <2>7, <4>1
      <4> QED BY <3>1, <4>1, <4>2, <4>3
    <3> QED BY <3>2, <3>3
  <2>14. PICK m \in Nat : m = n + 1 /\ m - 1 = n /\ m \in 1 .. (k + 1) + 1 /\ ~(m <= k + 1)
    BY <2>1
  <2>15. Ascent(t, k + 1, d)
    BY <2>6, <2>10, <2>11, <2>12, <2>13, <2>14 DEF Ascent
  <2> QED BY <1>2, <2>2, <2>4, <2>15 DEF Risen
<1> QED BY <1>1, <1>2

\* get_retry_chain going up.  Whatever parents the rows name, cycles and tasks
\* that hang on themselves included, the loop lists no task twice, each one the
\* parent the next names, all of the task's name and down to the task itself;
\* and it stops short of MAX_DEPTH only where there is nothing more to add.
THEOREM ClimbIsALineage ==
    ASSUME NEW t \in Stored
    PROVE  /\ Climb(t) \in Seq(Stored) /\ Climb(t)[Len(Climb(t))] = t
           /\ \A i, j \in 1 .. Len(Climb(t)) : Climb(t)[i] = Climb(t)[j] => i = j
           /\ \A i \in 1 .. Len(Climb(t)) - 1 : <<Climb(t)[i], Climb(t)[i + 1]>> \in RetryLinks
           /\ Len(Climb(t)) \in 1 .. MAX_DEPTH + 1
           /\ Len(Climb(t)) <= MAX_DEPTH =>
                 \A u \in Stored : <<u, Head(Climb(t))>> \in RetryLinks => u \in ToSet(Climb(t)) \cup {None}
<1>1. PICK up : Climb(t) = up[MAX_DEPTH] /\ Climbs(t, MAX_DEPTH, up)
  <2> DEFINE best == CHOOSE d : Climbs(t, MAX_DEPTH, d)
  <2>1. \E d : Climbs(t, MAX_DEPTH, d)
    BY ClimbExists, QueriesAssumption
  <2>2. Climbs(t, MAX_DEPTH, best)
    BY <2>1
  <2>3. Climb(t) = best[MAX_DEPTH]
    BY DEF Climb, Climbs, Risen, Rises, NameOf
  <2> QED BY <2>2, <2>3
<1>2. PICK n \in Nat : n = MAX_DEPTH
  BY QueriesAssumption
<1>3. \A i \in 0 .. n : up[i] = IF i = 0 THEN <<t>> ELSE Risen(t, up[i - 1])
  BY <1>1, <1>2 DEF Climbs
<1> DEFINE T == {l \in 0 .. n : ~Ascent(t, l, up[l])}
<1>4. ASSUME T # {} PROVE FALSE
  <2>1. PICK l \in T : \A y \in T : l <= y
    <3>1. T \in SUBSET Nat
      OBVIOUS
    <3> HIDE DEF T
    <3> QED BY <1>4, <3>1, LeastNumber
  <2>2. CASE l = 0
    <3>1. PICK c : c = <<t>>
      OBVIOUS
    <3>2. up[0] = c
      BY <1>3, <2>1, <2>2, <3>1
    <3>3. c \in Seq(Stored) /\ Len(c) = 1 /\ c[1] = t
      BY <3>1
    <3>4. 1 .. 1 = {1} /\ 1 .. 1 - 1 = {} /\ ~(1 <= 0) /\ 1 \in 1 .. 0 + 1
      OBVIOUS
    <3>5. Ascent(t, 0, c)
      BY <3>3, <3>4 DEF Ascent
    <3> QED BY <2>1, <2>2, <3>2, <3>5
  <2>3. CASE l # 0
    <3>1. PICK j \in Nat : j = l - 1 /\ l = j + 1 /\ j \in 0 .. n /\ ~(l <= j)
      BY <2>1, <2>3
    <3>2. PICK c : c = up[j]
      OBVIOUS
    <3>3. Ascent(t, j, c)
      BY <2>1, <3>1, <3>2
    <3>4. Ascent(t, j + 1, Risen(t, c))
      BY <3>3, AscentGoesOn
    <3>5. up[l] = Risen(t, c)
      BY <1>3, <2>1, <2>3, <3>1, <3>2
    <3> QED BY <2>1, <3>1, <3>4, <3>5
  <2> QED BY <2>2, <2>3
<1>5. PICK c : c = Climb(t) /\ Ascent(t, n, c)
  BY <1>1, <1>2, <1>4
<1>6. c \in Seq(Stored) /\ Len(c) \in Nat /\ Len(c) >= 1
  BY <1>5, LenProperties DEF Ascent
<1>7. \A i \in 1 .. Len(c) : c[i] \in Stored /\ NameOf(c[i]) = NameOf(t)
  BY <1>5, <1>6, ElementOfSeq DEF Ascent
<1>8. ASSUME NEW i \in 1 .. Len(c) - 1 PROVE <<c[i], c[i + 1]>> \in RetryLinks
  <2>1. i \in 1 .. Len(c) /\ i + 1 \in 1 .. Len(c)
    BY <1>6
  <2>2. Parent(c[i + 1]) = c[i]
    BY <1>5 DEF Ascent
  <2>3. PICK a \in Stored, b \in Stored : a = c[i] /\ b = c[i + 1]
    BY <1>7, <2>1
  <2>4. Parent(b) = a /\ NameOf(a) = NameOf(b)
    BY <1>7, <2>1, <2>2, <2>3
  <2>5. <<a, b>> \in RetryLinks
    BY <2>4 DEF RetryLinks, NameOf
  <2> QED BY <2>3, <2>5
<1>9. ASSUME Len(c) <= n, NEW u \in Stored, <<u, Head(c)>> \in RetryLinks
      PROVE  u \in ToSet(c) \cup {None}
  <2>1. Parent(Head(c)) = u /\ NameOf(u) = NameOf(Head(c))
    BY <1>9 DEF RetryLinks, NameOf
  <2>2. Head(c) = c[1] /\ 1 \in 1 .. Len(c)
    <3>1. c # <<>>
      BY <1>6, EmptySeq
    <3> QED BY <1>6, <3>1, HeadTailProperties
  <2>3. NameOf(u) = NameOf(t)
    BY <1>7, <2>1, <2>2
  <2>4. ~Rises(t, c)
    BY <1>5, <1>9 DEF Ascent
  <2> QED BY <2>1, <2>3, <2>4 DEF Rises
<1> QED BY <1>2, <1>5, <1>6, <1>8, <1>9 DEF Ascent

=============================================================================
