------------------------------- MODULE Listas -------------------------------
(***************************************************************************)
(* Lemmas about the lists of the commons library as the models use them,   *)
(* sequences of distinct elements: what list_add, list_remove, queue_pop   *)
(* and queue_push do to the set of elements and to their being distinct.   *)
(***************************************************************************)
EXTENDS Integers, SequencesExt, SequenceTheorems, FiniteSetTheorems, TLAPS

\* The elements of a sequence, by position.
LEMMA ToSetPosiciones ==
  ASSUME NEW S, NEW s \in Seq(S)
  PROVE  /\ ToSet(s) = {s[i] : i \in 1 .. Len(s)} /\ ToSet(s) \subseteq S
         /\ DOMAIN s = 1 .. Len(s) /\ Len(s) \in Nat
BY DEF ToSet

LEMMA ListaVacia ==
  ToSet(<< >>) = {} /\ IsInjective(<< >>)
BY DEF ToSet, IsInjective

LEMMA ListaUno ==
  ASSUME NEW p
  PROVE  ToSet(<<p>>) = {p} /\ IsInjective(<<p>>)
BY DEF ToSet, IsInjective

\* list_add and queue_push.
LEMMA ListaAgrega ==
  ASSUME NEW S, NEW s \in Seq(S), NEW p \in S
  PROVE  /\ Append(s, p) \in Seq(S) /\ Len(Append(s, p)) = Len(s) + 1
         /\ ToSet(Append(s, p)) = ToSet(s) \cup {p}
         /\ IsInjective(s) /\ p \notin ToSet(s) => IsInjective(Append(s, p))
         /\ s # << >> => Append(s, p) # << >> /\ Head(Append(s, p)) = Head(s)
<1>. DEFINE t == Append(s, p)
<1>1. /\ t \in Seq(S) /\ Len(t) = Len(s) + 1 /\ t[Len(s) + 1] = p
      /\ \A i \in 1 .. Len(s) : t[i] = s[i]
  BY AppendProperties
<1>. HIDE DEF t
<1>2. 1 .. Len(t) = 1 .. Len(s) \cup {Len(s) + 1} /\ Len(s) \in Nat
  BY <1>1
<1>3. ToSet(t) = ToSet(s) \cup {p}
  BY <1>1, <1>2, ToSetPosiciones
<1>4. ASSUME IsInjective(s), p \notin ToSet(s) PROVE IsInjective(t)
  <2>. SUFFICES ASSUME NEW i \in 1 .. Len(t), NEW j \in 1 .. Len(t), t[i] = t[j] PROVE i = j
    BY <1>1, ToSetPosiciones DEF IsInjective
  <2>1. \A k \in 1 .. Len(s) : s[k] # p
    BY <1>4, ToSetPosiciones
  <2>2. \A k, l \in 1 .. Len(s) : s[k] = s[l] => k = l
    BY <1>4, ToSetPosiciones DEF IsInjective
  <2>3. CASE i \in 1 .. Len(s) /\ j \in 1 .. Len(s)
    BY <1>1, <2>2, <2>3
  <2>4. CASE i = Len(s) + 1 \/ j = Len(s) + 1
    BY <1>1, <1>2, <2>1, <2>4
  <2>. QED  BY <1>2, <2>3, <2>4
<1>5. s # << >> => t # << >> /\ Head(t) = Head(s)
  BY <1>1
<1>. QED  BY <1>1, <1>3, <1>4, <1>5 DEF t

\* queue_pop: the first of a list of distinct elements.
LEMMA ListaPrimero ==
  ASSUME NEW S, NEW s \in Seq(S), s # << >>
  PROVE  /\ Head(s) \in ToSet(s) /\ Head(s) \in S
         /\ Tail(s) \in Seq(S) /\ Len(Tail(s)) = Len(s) - 1
         /\ ToSet(Tail(s)) \subseteq ToSet(s)
         /\ ToSet(s) = ToSet(Tail(s)) \cup {Head(s)}
         /\ IsInjective(s) => IsInjective(Tail(s)) /\ ToSet(Tail(s)) = ToSet(s) \ {Head(s)}
<1>. DEFINE t == Tail(s)
<1>0. Len(s) \in Nat /\ Len(s) > 0 /\ Head(s) = s[1]
  BY EmptySeq
<1>1. /\ t \in Seq(S) /\ Len(t) = Len(s) - 1 /\ Head(s) \in S
      /\ \A i \in 1 .. Len(t) : t[i] = s[i + 1]
  BY HeadTailProperties
<1>. HIDE DEF t
<1>2. ToSet(t) = {s[i] : i \in 2 .. Len(s)}
  <2>1. \A i \in 2 .. Len(s) : i - 1 \in 1 .. Len(t) /\ t[i - 1] = s[i]
    BY <1>0, <1>1
  <2>2. \A i \in 1 .. Len(t) : i + 1 \in 2 .. Len(s) /\ t[i] = s[i + 1]
    BY <1>0, <1>1
  <2>3. ToSet(t) = {t[i] : i \in 1 .. Len(t)}
    BY <1>1, ToSetPosiciones
  <2>4. ToSet(t) \subseteq {s[i] : i \in 2 .. Len(s)}
    BY <2>2, <2>3
  <2>5. {s[i] : i \in 2 .. Len(s)} \subseteq ToSet(t)
    BY <2>1, <2>3
  <2>. QED  BY <2>4, <2>5
<1>3. 1 .. Len(s) = {1} \cup 2 .. Len(s)
  BY <1>0
<1>4. ToSet(s) = {s[i] : i \in 1 .. Len(s)}
  BY ToSetPosiciones
<1>5. ToSet(s) = ToSet(t) \cup {Head(s)}
  BY <1>0, <1>2, <1>3, <1>4
<1>6. ASSUME IsInjective(s) PROVE IsInjective(t) /\ ToSet(t) = ToSet(s) \ {Head(s)}
  <2>1. \A k, l \in 1 .. Len(s) : s[k] = s[l] => k = l
    BY <1>6, ToSetPosiciones DEF IsInjective
  <2>2. IsInjective(t)
    <3>. SUFFICES ASSUME NEW i \in 1 .. Len(t), NEW j \in 1 .. Len(t), t[i] = t[j] PROVE i = j
      BY <1>1, ToSetPosiciones DEF IsInjective
    <3>1. i + 1 \in 1 .. Len(s) /\ j + 1 \in 1 .. Len(s) /\ s[i + 1] = s[j + 1]
      BY <1>0, <1>1
    <3>2. i + 1 = j + 1
      BY <2>1, <3>1
    <3>. QED  BY <3>2
  <2>3. \A k \in 2 .. Len(s) : s[k] # s[1]
    BY <1>0, <2>1
  <2>4. Head(s) \notin ToSet(t)
    BY <1>0, <1>2, <2>3
  <2>. QED  BY <1>5, <2>2, <2>4
<1>. QED  BY <1>0, <1>1, <1>4, <1>5, <1>6 DEF t

\* list_remove takes the element at an index out of a list.
LEMMA ListaSaca ==
  ASSUME NEW S, NEW s \in Seq(S), NEW i \in DOMAIN s
  PROVE  /\ RemoveAt(s, i) \in Seq(S) /\ Len(RemoveAt(s, i)) = Len(s) - 1
         /\ s[i] \in ToSet(s) /\ s[i] \in S
         /\ ToSet(RemoveAt(s, i)) \subseteq ToSet(s)
         /\ IsInjective(s) => /\ IsInjective(RemoveAt(s, i))
                              /\ ToSet(RemoveAt(s, i)) = ToSet(s) \ {s[i]}
<1>1. i \in 1 .. Len(s) /\ Len(s) \in Nat
  OBVIOUS
<1>. DEFINE a == SubSeq(s, 1, i-1)
            b == SubSeq(s, i+1, Len(s))
            t == a \o b
            viejo(j) == IF j < i THEN j ELSE j + 1
<1>2. a \in Seq(S) /\ Len(a) = i - 1 /\ \A j \in 1 .. i - 1 : a[j] = s[j]
  BY <1>1, SubSeqProperties
<1>3. b \in Seq(S) /\ Len(b) = Len(s) - i /\ \A j \in 1 .. Len(s) - i : b[j] = s[i + j]
  BY <1>1, SubSeqProperties
<1>. HIDE DEF a, b
<1>4. /\ t \in Seq(S) /\ Len(t) = Len(a) + Len(b)
      /\ \A j \in 1 .. Len(a) : t[j] = a[j]
      /\ \A j \in Len(a) + 1 .. Len(a) + Len(b) : t[j] = b[j - Len(a)]
  BY <1>2, <1>3, ConcatProperties, SMTT(60)
<1>. HIDE DEF t
<1>5. Len(t) = Len(s) - 1
  BY <1>1, <1>2, <1>3, <1>4
<1>6. \A j \in 1 .. Len(t) : viejo(j) \in 1 .. Len(s) \ {i} /\ t[j] = s[viejo(j)]
  <2>. TAKE j \in 1 .. Len(t)
  <2>1. CASE j < i
    BY <1>1, <1>2, <1>4, <1>5, <2>1
  <2>2. CASE ~(j < i)
    <3>0. j \in Nat /\ i <= j /\ j <= Len(s) - 1
      BY <1>1, <1>5, <2>2
    <3>1. j \in Len(a) + 1 .. Len(a) + Len(b) /\ j - Len(a) \in 1 .. Len(s) - i
      <4>1. Len(a) = i - 1 /\ Len(b) = Len(s) - i
        BY <1>2, <1>3
      <4>. QED  BY <1>1, <3>0, <4>1
    <3>2a. t[j] = s[i + (j - Len(a))]
      BY <1>3, <1>4, <3>1
    <3>2. t[j] = s[j + 1]
      <4>1. i + (j - Len(a)) = j + 1
        BY <1>1, <1>2, <3>0
      <4>. QED  BY <3>2a, <4>1
    <3>. QED  BY <1>1, <1>5, <2>2, <3>2
  <2>. QED  BY <2>1, <2>2
<1>7. \A k \in 1 .. Len(s) \ {i} : \E j \in 1 .. Len(t) : k = viejo(j)
  <2>. TAKE k \in 1 .. Len(s) \ {i}
  <2>1. CASE k < i
    <3>1. k \in 1 .. Len(t) /\ k = viejo(k)
      BY <1>1, <1>5, <2>1
    <3>. QED  BY <3>1
  <2>2. CASE k > i
    <3>1. k - 1 \in 1 .. Len(t) /\ k = viejo(k - 1)
      BY <1>1, <1>5, <2>2
    <3>. QED  BY <3>1
  <2>. QED  BY <1>1, <2>1, <2>2
<1>8. \A j, k \in 1 .. Len(t) : viejo(j) = viejo(k) => j = k
  BY <1>1
<1>. HIDE DEF viejo
<1>9. /\ ToSet(t) = {t[j] : j \in 1 .. Len(t)} /\ ToSet(s) = {s[k] : k \in 1 .. Len(s)}
      /\ DOMAIN t = 1 .. Len(t) /\ DOMAIN s = 1 .. Len(s)
  BY <1>4, ToSetPosiciones
<1>10. ToSet(t) = {s[k] : k \in 1 .. Len(s) \ {i}}
  BY <1>6, <1>7, <1>9
<1>11. ASSUME IsInjective(s) PROVE IsInjective(t) /\ ToSet(t) = ToSet(s) \ {s[i]}
  <2>1. \A k, l \in 1 .. Len(s) : s[k] = s[l] => k = l
    BY <1>9, <1>11 DEF IsInjective
  <2>2. ToSet(t) = ToSet(s) \ {s[i]}
    <3>1. \A k \in 1 .. Len(s) \ {i} : s[k] # s[i]
      BY <1>1, <2>1
    <3>2. ToSet(t) \subseteq ToSet(s) \ {s[i]}
      BY <1>9, <1>10, <3>1
    <3>3. ToSet(s) \ {s[i]} \subseteq ToSet(t)
      BY <1>9, <1>10
    <3>. QED  BY <3>2, <3>3
  <2>3. \A j, k \in 1 .. Len(t) : t[j] = t[k] => j = k
    BY <1>6, <1>8, <2>1
  <2>. QED  BY <1>9, <2>2, <2>3 DEF IsInjective
<1>12. RemoveAt(s, i) = t
  BY DEF RemoveAt, t, a, b
<1>13. s[i] \in S /\ s[i] \in ToSet(s) /\ ToSet(t) \subseteq ToSet(s)
  BY <1>1, <1>9, <1>10
<1>. QED  BY <1>4, <1>5, <1>11, <1>12, <1>13

\* Two lists one after the other.
LEMMA ListaConcatena ==
  ASSUME NEW S, NEW s \in Seq(S), NEW t \in Seq(S)
  PROVE  /\ s \o t \in Seq(S) /\ Len(s \o t) = Len(s) + Len(t)
         /\ ToSet(s \o t) = ToSet(s) \cup ToSet(t)
         /\ IsInjective(s) /\ IsInjective(t) /\ ToSet(s) \cap ToSet(t) = {}
              => IsInjective(s \o t)
<1>. DEFINE u == s \o t
<1>1. /\ u \in Seq(S) /\ Len(u) = Len(s) + Len(t)
      /\ \A i \in 1 .. Len(s) : u[i] = s[i]
      /\ \A i \in Len(s) + 1 .. Len(s) + Len(t) : u[i] = t[i - Len(s)]
  BY ConcatProperties
<1>. HIDE DEF u
<1>2. /\ ToSet(s) = {s[i] : i \in 1 .. Len(s)} /\ ToSet(t) = {t[i] : i \in 1 .. Len(t)}
      /\ ToSet(u) = {u[i] : i \in 1 .. Len(u)} /\ DOMAIN u = 1 .. Len(u)
      /\ DOMAIN s = 1 .. Len(s) /\ DOMAIN t = 1 .. Len(t)
      /\ Len(s) \in Nat /\ Len(t) \in Nat
  BY <1>1, ToSetPosiciones
<1>3. \A i \in 1 .. Len(u) :
        \/ i \in 1 .. Len(s) /\ u[i] = s[i]
        \/ i - Len(s) \in 1 .. Len(t) /\ u[i] = t[i - Len(s)]
  BY <1>1, <1>2
<1>4. /\ \A i \in 1 .. Len(s) : i \in 1 .. Len(u) /\ u[i] = s[i]
      /\ \A i \in 1 .. Len(t) : i + Len(s) \in 1 .. Len(u) /\ u[i + Len(s)] = t[i]
  <2>1. \A i \in 1 .. Len(t) : i + Len(s) \in Len(s) + 1 .. Len(s) + Len(t)
                                /\ (i + Len(s)) - Len(s) = i
    BY <1>2
  <2>2. \A i \in 1 .. Len(t) : i + Len(s) \in 1 .. Len(u)
    BY <1>1, <1>2
  <2>3. \A i \in 1 .. Len(t) : u[i + Len(s)] = t[i]
    <3>. TAKE i \in 1 .. Len(t)
    <3>1. u[i + Len(s)] = t[(i + Len(s)) - Len(s)]
      BY <1>1, <2>1
    <3>. QED  BY <2>1, <3>1
  <2>4. \A i \in 1 .. Len(s) : i \in 1 .. Len(u) /\ u[i] = s[i]
    BY <1>1, <1>2
  <2>. QED  BY <2>2, <2>3, <2>4
<1>5. ToSet(u) = ToSet(s) \cup ToSet(t)
  <2>1. ToSet(u) \subseteq ToSet(s) \cup ToSet(t)
    BY <1>2, <1>3
  <2>2. ToSet(s) \subseteq ToSet(u)
    BY <1>2, <1>4
  <2>3. ToSet(t) \subseteq ToSet(u)
    BY <1>2, <1>4
  <2>. QED  BY <2>1, <2>2, <2>3
<1>6. ASSUME IsInjective(s), IsInjective(t), ToSet(s) \cap ToSet(t) = {} PROVE IsInjective(u)
  <2>. SUFFICES ASSUME NEW i \in 1 .. Len(u), NEW j \in 1 .. Len(u), u[i] = u[j] PROVE i = j
    BY <1>2 DEF IsInjective
  <2>1. \A k \in 1 .. Len(s), l \in 1 .. Len(t) : s[k] # t[l]
    BY <1>2, <1>6
  <2>2. \A k, l \in 1 .. Len(s) : s[k] = s[l] => k = l
    BY <1>2, <1>6 DEF IsInjective
  <2>3. \A k, l \in 1 .. Len(t) : t[k] = t[l] => k = l
    BY <1>2, <1>6 DEF IsInjective
  <2>4. CASE i \in 1 .. Len(s) /\ u[i] = s[i]
    BY <1>3, <2>1, <2>2, <2>4
  <2>5. CASE i - Len(s) \in 1 .. Len(t) /\ u[i] = t[i - Len(s)]
    <3>1. CASE j \in 1 .. Len(s) /\ u[j] = s[j]
      BY <2>1, <2>5, <3>1
    <3>2. CASE j - Len(s) \in 1 .. Len(t) /\ u[j] = t[j - Len(s)]
      <4>1. i - Len(s) = j - Len(s)
        BY <2>3, <2>5, <3>2
      <4>. QED  BY <1>2, <4>1
    <3>. QED  BY <1>3, <3>1, <3>2
  <2>. QED  BY <1>3, <2>4, <2>5
<1>. QED  BY <1>1, <1>5, <1>6 DEF u
-----------------------------------------------------------------------------
(* A stream, as what is sent over a connection piece by piece              *)

\* s is the pieces of q one after the other; d[i] is where the i-th one ends.
Une(q, s) ==
  \E d \in [0 .. Len(q) -> 0 .. Len(s)] :
    /\ d[0] = 0 /\ d[Len(q)] = Len(s)
    /\ \A i, j \in 0 .. Len(q) : i <= j => d[i] <= d[j]
    /\ \A i \in 1 .. Len(q) :
         /\ d[i] = d[i - 1] + Len(q[i])
         /\ \A j \in 1 .. Len(q[i]) : s[d[i - 1] + j] = q[i][j]

\* Of nothing, nothing.
LEMMA UneNada ==
  ASSUME NEW S, NEW s \in Seq(S)
  PROVE  Une(<< >>, s) <=> s = << >>
<1>1. ASSUME Une(<< >>, s) PROVE s = << >>
  BY <1>1, EmptySeq DEF Une
<1>2. ASSUME s = << >> PROVE Une(<< >>, s)
  <2>. DEFINE d == [i \in 0 .. 0 |-> 0]
  <2>1. d \in [0 .. Len(<< >>) -> 0 .. Len(s)] /\ d[0] = 0 /\ Len(s) = 0 /\ Len(<< >>) = 0
    BY <1>2
  <2>. HIDE DEF d
  <2>2. \A i, j \in 0 .. Len(<< >>) : i <= j => d[i] <= d[j]
    BY <2>1
  <2>. QED  BY <2>1, <2>2 DEF Une
<1>. QED  BY <1>1, <1>2

\* A send: one piece more, at the end.
LEMMA UneAgrega ==
  ASSUME NEW S, NEW s \in Seq(S), NEW R, R \subseteq Seq(S), NEW q \in Seq(R),
         NEW x \in R, Une(q, s)
  PROVE  Une(Append(q, x), s \o x)
<1>. DEFINE t == s \o x
            p == Append(q, x)
            n == Len(q)
<1>1. /\ x \in Seq(S) /\ Len(x) \in Nat /\ Len(s) \in Nat /\ n \in Nat
      /\ t \in Seq(S) /\ Len(t) = Len(s) + Len(x)
      /\ \A i \in 1 .. Len(s) : t[i] = s[i]
      /\ \A i \in 1 .. Len(x) : t[Len(s) + i] = x[i]
  <2>1. x \in Seq(S)
    OBVIOUS
  <2>2. Len(x) \in Nat /\ Len(s) \in Nat /\ n \in Nat
    BY <2>1
  <2>3. /\ t \in Seq(S) /\ Len(t) = Len(s) + Len(x)
        /\ \A i \in 1 .. Len(s) : t[i] = s[i]
        /\ \A i \in Len(s) + 1 .. Len(s) + Len(x) : t[i] = x[i - Len(s)]
    BY <2>1, ConcatProperties
  <2>4. \A i \in 1 .. Len(x) : Len(s) + i \in Len(s) + 1 .. Len(s) + Len(x)
                                /\ (Len(s) + i) - Len(s) = i
    BY <2>2
  <2>. HIDE DEF t
  <2>5. \A i \in 1 .. Len(x) : t[Len(s) + i] = x[i]
    <3>. TAKE i \in 1 .. Len(x)
    <3>1. t[Len(s) + i] = x[(Len(s) + i) - Len(s)]
      BY <2>3, <2>4
    <3>. QED  BY <2>4, <3>1
  <2>. QED  BY <2>1, <2>2, <2>3, <2>5
<1>2. /\ Len(p) = n + 1 /\ p[n + 1] = x
      /\ \A i \in 1 .. n : p[i] = q[i]
  BY AppendProperties
<1>. HIDE DEF t, p
<1>3. PICK d \in [0 .. n -> 0 .. Len(s)] :
        /\ d[0] = 0 /\ d[n] = Len(s)
        /\ \A i, j \in 0 .. n : i <= j => d[i] <= d[j]
        /\ \A i \in 1 .. n :
             /\ d[i] = d[i - 1] + Len(q[i])
             /\ \A j \in 1 .. Len(q[i]) : s[d[i - 1] + j] = q[i][j]
  BY DEF Une
<1>. DEFINE e == [i \in 0 .. n + 1 |-> IF i = n + 1 THEN Len(t) ELSE d[i]]
<1>4. /\ e \in [0 .. n + 1 -> 0 .. Len(t)]
      /\ e[n + 1] = Len(t) /\ \A i \in 0 .. n : e[i] = d[i] /\ e[i] \in 0 .. Len(s)
  <2>1. n + 1 \in 0 .. n + 1 /\ Len(t) \in 0 .. Len(t)
    BY <1>1
  <2>2. \A i \in 0 .. n : i \in 0 .. n + 1 /\ i # n + 1
    BY <1>1
  <2>3. \A i \in 0 .. n + 1 : i # n + 1 => i \in 0 .. n
    BY <1>1
  <2>4. \A i \in 0 .. n : d[i] \in 0 .. Len(s) /\ d[i] \in 0 .. Len(t)
    <3>. TAKE i \in 0 .. n
    <3>1. d[i] \in 0 .. Len(s)
      BY <1>3
    <3>. QED  BY <1>1, <3>1
  <2>5. e[n + 1] = Len(t)
    BY <2>1
  <2>6. \A i \in 0 .. n : e[i] = d[i]
    BY <2>2
  <2>7. e \in [0 .. n + 1 -> 0 .. Len(t)]
    BY <2>1, <2>3, <2>4
  <2>. QED  BY <2>4, <2>5, <2>6, <2>7
<1>. HIDE DEF e
<1>5. \A i, j \in 0 .. n + 1 : i <= j => e[i] <= e[j]
  <2>. TAKE i, j \in 0 .. n + 1
  <2>1. CASE j = n + 1
    <3>1. e[i] \in 0 .. Len(t) /\ e[j] = Len(t)
      BY <1>4, <2>1
    <3>. QED  BY <1>1, <3>1
  <2>2. CASE j # n + 1
    <3>. SUFFICES ASSUME i <= j PROVE e[i] <= e[j]
      OBVIOUS
    <3>1. i \in 0 .. n /\ j \in 0 .. n
      BY <1>1, <2>2
    <3>2. d[i] <= d[j]
      BY <1>3, <3>1
    <3>. QED  BY <1>4, <3>1, <3>2
  <2>. QED  BY <2>1, <2>2
<1>6. ASSUME NEW i \in 1 .. n + 1
      PROVE  /\ e[i] = e[i - 1] + Len(p[i])
             /\ \A j \in 1 .. Len(p[i]) : t[e[i - 1] + j] = p[i][j]
  <2>1. CASE i = n + 1
    <3>1. i - 1 = n /\ n \in 0 .. n /\ e[i - 1] = Len(s) /\ p[i] = x /\ e[i] = Len(t)
      BY <1>1, <1>2, <1>3, <1>4, <2>1
    <3>. QED  BY <1>1, <3>1
  <2>2. CASE i # n + 1
    <3>1. i \in 1 .. n /\ i \in 0 .. n /\ i - 1 \in 0 .. n /\ p[i] = q[i]
      BY <1>1, <1>2, <2>2
    <3>2. e[i] = d[i] /\ e[i - 1] = d[i - 1] /\ d[i] \in 0 .. Len(s) /\ d[i - 1] \in 0 .. Len(s)
      BY <1>3, <1>4, <3>1
    <3>3. d[i] = d[i - 1] + Len(q[i]) /\ \A j \in 1 .. Len(q[i]) : s[d[i - 1] + j] = q[i][j]
      BY <1>3, <3>1
    <3>4. q[i] \in Seq(S) /\ Len(q[i]) \in Nat
      BY <3>1
    <3>5. \A j \in 1 .. Len(q[i]) : d[i - 1] + j \in 1 .. Len(s)
      BY <1>1, <3>2, <3>3, <3>4, SMTT(60)
    <3>6. \A j \in 1 .. Len(q[i]) : t[d[i - 1] + j] = q[i][j]
      BY <1>1, <3>3, <3>5
    <3>. QED  BY <3>1, <3>2, <3>3, <3>6
  <2>. QED  BY <2>1, <2>2
<1>7. e[0] = 0 /\ e[Len(p)] = Len(t)
  BY <1>1, <1>2, <1>3, <1>4
<1>8. \E g \in [0 .. Len(p) -> 0 .. Len(t)] :
        /\ g[0] = 0 /\ g[Len(p)] = Len(t)
        /\ \A i, j \in 0 .. Len(p) : i <= j => g[i] <= g[j]
        /\ \A i \in 1 .. Len(p) :
             /\ g[i] = g[i - 1] + Len(p[i])
             /\ \A j \in 1 .. Len(p[i]) : t[g[i - 1] + j] = p[i][j]
  <2>1. Len(p) = n + 1
    BY <1>2
  <2>2. /\ e \in [0 .. Len(p) -> 0 .. Len(t)]
        /\ \A i, j \in 0 .. Len(p) : i <= j => e[i] <= e[j]
        /\ \A i \in 1 .. Len(p) :
             /\ e[i] = e[i - 1] + Len(p[i])
             /\ \A j \in 1 .. Len(p[i]) : t[e[i - 1] + j] = p[i][j]
    BY <1>4, <1>5, <1>6, <2>1
  <2>. QED  BY <1>7, <2>2
<1>9. Une(p, t)
  BY <1>8 DEF Une
<1>. QED  BY <1>9 DEF p, t

\* What is left of a sequence after its first k elements.
LEMMA Sufijo ==
  ASSUME NEW S, NEW s \in Seq(S), NEW k \in 0 .. Len(s)
  PROVE  /\ SubSeq(s, k + 1, Len(s)) \in Seq(S)
         /\ Len(SubSeq(s, k + 1, Len(s))) = Len(s) - k
         /\ \A j \in 1 .. Len(s) - k : SubSeq(s, k + 1, Len(s))[j] = s[k + j]
<1>. DEFINE m == k + 1
            n == Len(s)
            t == SubSeq(s, m, n)
<1>0. m \in Int /\ n \in Int /\ k \in Nat
  OBVIOUS
<1>1. m \in Int /\ n \in Int /\ n - m + 1 = n - k /\ k \in Nat
  OBVIOUS
<1>2. \A j \in m .. n : s[j] \in S
  <2>. TAKE j \in m .. n
  <2>1. j \in 1 .. Len(s)
    BY <1>1
  <2>. QED  BY <2>1
<1>3. \A j \in 1 .. n - k : m + j - 1 = k + j
  BY <1>1
<1>4. m <= n \/ n = k
  BY <1>0
<1>5. m <= n => n - m + 1 = n - k
  BY <1>1
<1>. HIDE DEF m, n
<1>6. /\ t \in Seq(S) /\ Len(t) = IF m <= n THEN n - m + 1 ELSE 0
      /\ \A j \in 1 .. n - m + 1 : t[j] = s[m + j - 1]
  BY <1>1, <1>2, SubSeqProperties
<1>. HIDE DEF t
<1>7. Len(t) = n - k
  <2>1. CASE m <= n
    BY <1>5, <1>6, <2>1
  <2>2. CASE ~(m <= n)
    BY <1>0, <1>4, <1>6, <2>2
  <2>. QED  BY <2>1, <2>2
<1>8. \A j \in 1 .. n - k : t[j] = s[k + j]
  <2>. TAKE j \in 1 .. n - k
  <2>1. t[j] = s[m + j - 1]
    BY <1>1, <1>6
  <2>. QED  BY <1>3, <2>1
<1>. QED  BY <1>6, <1>7, <1>8 DEF m, n, t

\* A recv of as many units as the first piece has: it is the first piece.
LEMMA UneSaca ==
  ASSUME NEW S, NEW s \in Seq(S), NEW R, R \subseteq Seq(S), NEW q \in Seq(R),
         q # << >>, Une(q, s)
  PROVE  /\ Len(Head(q)) \in 0 .. Len(s)
         /\ SubSeq(s, 1, Len(Head(q))) = Head(q)
         /\ SubSeq(s, Len(Head(q)) + 1, Len(s)) \in Seq(S)
         /\ Une(Tail(q), SubSeq(s, Len(Head(q)) + 1, Len(s)))
<1>. DEFINE x == Head(q)
            k == Len(x)
            p == Tail(q)
            t == SubSeq(s, k + 1, Len(s))
            n == Len(p)
<1>1. /\ Len(q) \in Nat /\ Len(q) >= 1 /\ x = q[1] /\ x \in Seq(S) /\ k \in Nat
      /\ Len(s) \in Nat
  BY EmptySeq
<1>2. /\ n = Len(q) - 1 /\ n \in Nat
      /\ \A i \in 1 .. n : p[i] = q[i + 1]
  BY <1>1, HeadTailProperties
<1>3. PICK d \in [0 .. Len(q) -> 0 .. Len(s)] :
        /\ d[0] = 0 /\ d[Len(q)] = Len(s)
        /\ \A i, j \in 0 .. Len(q) : i <= j => d[i] <= d[j]
        /\ \A i \in 1 .. Len(q) :
             /\ d[i] = d[i - 1] + Len(q[i])
             /\ \A j \in 1 .. Len(q[i]) : s[d[i - 1] + j] = q[i][j]
  BY DEF Une
<1>4. d[1] = k /\ k \in 0 .. Len(s) /\ \A j \in 1 .. k : s[j] = x[j]
  <2>1. /\ 1 \in 1 .. Len(q) /\ 1 \in 0 .. Len(q) /\ 1 - 1 = 0
    BY <1>1
  <2>2. d[1] = 0 + Len(q[1]) /\ \A j \in 1 .. Len(q[1]) : s[0 + j] = q[1][j]
    BY <1>3, <2>1
  <2>3. \A j \in 1 .. k : 0 + j = j
    BY <1>1
  <2>. QED  BY <1>1, <1>3, <2>1, <2>2, <2>3
<1>5. SubSeq(s, 1, k) = x
  <2>. DEFINE u == SubSeq(s, 1, k)
  <2>1. u \in Seq(S) /\ Len(u) = k /\ \A j \in 1 .. k : u[j] = s[j]
    BY <1>1, <1>4, SubSeqProperties
  <2>. HIDE DEF u
  <2>2. \A j \in 1 .. k : u[j] = x[j]
    BY <1>4, <2>1
  <2>3. u = x
    BY <1>1, <2>1, <2>2, SeqEqual
  <2>. QED  BY <2>3 DEF u
<1>6. /\ t \in Seq(S) /\ Len(t) = Len(s) - k
      /\ \A j \in 1 .. Len(s) - k : t[j] = s[k + j]
  BY <1>1, <1>4, Sufijo
<1>. HIDE DEF x, k, p, t, n
<1>. DEFINE e == [i \in 0 .. n |-> d[i + 1] - k]
<1>7. \A i \in 0 .. n : i + 1 \in 0 .. Len(q) /\ d[i + 1] \in k .. Len(s)
  <2>. TAKE i \in 0 .. n
  <2>1. i + 1 \in 0 .. Len(q) /\ 1 \in 0 .. Len(q) /\ 1 <= i + 1
    BY <1>1, <1>2
  <2>2. d[1] <= d[i + 1] /\ d[i + 1] \in 0 .. Len(s)
    BY <1>3, <2>1
  <2>. QED  BY <1>1, <1>4, <2>1, <2>2
<1>8. /\ e \in [0 .. n -> 0 .. Len(t)] /\ \A i \in 0 .. n : e[i] = d[i + 1] - k
  BY <1>1, <1>4, <1>6, <1>7
<1>. HIDE DEF e
<1>9. e[0] = 0 /\ e[n] = Len(t)
  <2>1. 0 \in 0 .. n /\ n \in 0 .. n /\ 0 + 1 = 1 /\ n + 1 = Len(q)
    BY <1>1, <1>2
  <2>2. e[0] = d[1] - k /\ e[n] = d[Len(q)] - k
    BY <1>8, <2>1
  <2>. QED  BY <1>1, <1>3, <1>4, <1>6, <2>2
<1>10. \A i, j \in 0 .. n : i <= j => e[i] <= e[j]
  <2>. SUFFICES ASSUME NEW i \in 0 .. n, NEW j \in 0 .. n, i <= j PROVE e[i] <= e[j]
    OBVIOUS
  <2>1. d[i + 1] <= d[j + 1]
    BY <1>2, <1>3, <1>7
  <2>. QED  BY <1>1, <1>7, <1>8, <2>1
<1>11. ASSUME NEW i \in 1 .. n
       PROVE  /\ e[i] = e[i - 1] + Len(p[i])
              /\ \A j \in 1 .. Len(p[i]) : t[e[i - 1] + j] = p[i][j]
  <2>1. /\ i + 1 \in 1 .. Len(q) /\ i \in 0 .. n /\ i - 1 \in 0 .. n
        /\ (i + 1) - 1 = i /\ (i - 1) + 1 = i
    BY <1>1, <1>2
  <2>2. e[i] = d[i + 1] - k /\ e[i - 1] = d[i] - k
    BY <1>8, <2>1
  <2>3. p[i] = q[i + 1] /\ p[i] \in Seq(S) /\ Len(p[i]) \in Nat
    BY <1>2, <2>1
  <2>4. d[i + 1] = d[i] + Len(p[i]) /\ \A j \in 1 .. Len(p[i]) : s[d[i] + j] = p[i][j]
    BY <1>3, <2>1, <2>3
  <2>5. d[i] \in k .. Len(s) /\ d[i + 1] \in k .. Len(s)
    BY <1>7, <2>1
  <2>6. e[i] = e[i - 1] + Len(p[i])
    BY <1>1, <2>2, <2>3, <2>4, <2>5, SMTT(60)
  <2>7. \A j \in 1 .. Len(p[i]) : /\ e[i - 1] + j \in 1 .. Len(s) - k
                                   /\ k + (e[i - 1] + j) = d[i] + j
    <3>1. PICK u \in Nat : u = d[i]
      BY <1>1, <2>5
    <3>2. PICK w \in Nat : w = Len(p[i])
      BY <2>3
    <3>3. e[i - 1] = u - k /\ u >= k /\ u + w <= Len(s)
      BY <1>1, <2>2, <2>4, <2>5, <3>1, <3>2
    <3>. TAKE j \in 1 .. Len(p[i])
    <3>4. j \in Nat /\ 1 <= j /\ j <= w
      BY <3>2
    <3>5. PICK z \in Nat : z = e[i - 1]
      BY <1>1, <3>1, <3>3
    <3>6a. \A a, b, c, l, o \in Nat :
             c = a - b /\ a >= b /\ a + l <= o => b + c = a /\ c + l <= o - b
      OBVIOUS
    <3>6. k + z = u /\ z + j \in Nat /\ 1 <= z + j /\ z + j <= Len(s) - k
      <4>1. u + j <= Len(s) /\ j \in Nat
        BY <1>1, <3>1, <3>2, <3>3, <3>4, SMTT(60)
      <4>2. k + z = u /\ z + j <= Len(s) - k
        BY <1>1, <3>1, <3>3, <3>4, <3>5, <3>6a, <4>1, ZenonT(60)
      <4>. QED  BY <3>4, <3>5, <4>2
    <3>7. k + (z + j) = u + j
      BY <1>1, <3>1, <3>4, <3>5, <3>6, SMTT(60)
    <3>8. z + j \in 1 .. Len(s) - k
      BY <1>1, <3>6
    <3>. QED  BY <3>1, <3>5, <3>7, <3>8
  <2>8. \A j \in 1 .. Len(p[i]) : t[e[i - 1] + j] = p[i][j]
    <3>. TAKE j \in 1 .. Len(p[i])
    <3>1. t[e[i - 1] + j] = s[k + (e[i - 1] + j)]
      BY <1>6, <2>7
    <3>. QED  BY <2>4, <2>7, <3>1
  <2>. QED  BY <2>6, <2>8
<1>12. Une(p, t)
  <2>1. \E g \in [0 .. Len(p) -> 0 .. Len(t)] :
          /\ g[0] = 0 /\ g[Len(p)] = Len(t)
          /\ \A i, j \in 0 .. Len(p) : i <= j => g[i] <= g[j]
          /\ \A i \in 1 .. Len(p) :
               /\ g[i] = g[i - 1] + Len(p[i])
               /\ \A j \in 1 .. Len(p[i]) : t[g[i - 1] + j] = p[i][j]
    BY <1>8, <1>9, <1>10, <1>11 DEF n
  <2>. QED  BY <2>1 DEF Une
<1>. QED  BY <1>4, <1>5, <1>6, <1>12 DEF x, k, p, t

\* A piece that goes from one part of the stream to the part before it leaves the
\* whole as it was: received, or sent.
LEMMA Primero ==
  ASSUME NEW S, NEW q \in Seq(S), q # << >>
  PROVE  Head(q) \in S /\ Tail(q) \in Seq(S) /\ <<Head(q)>> \in Seq(S) /\ <<Head(q)>> \o Tail(q) = q
<1>. DEFINE a == <<Head(q)>>
            b == Tail(q)
            t == a \o b
<1>1. /\ Len(q) \in Nat /\ Len(q) >= 1 /\ Head(q) = q[1] /\ Head(q) \in S
      /\ b \in Seq(S) /\ Len(b) = Len(q) - 1 /\ \A i \in 1 .. Len(b) : b[i] = q[i + 1]
  BY EmptySeq, HeadTailProperties
<1>2. a \in Seq(S) /\ Len(a) = 1 /\ a[1] = q[1]
  BY <1>1
<1>. HIDE DEF a, b
<1>3. /\ t \in Seq(S) /\ Len(t) = 1 + Len(b)
      /\ \A i \in 1 .. 1 + Len(b) : t[i] = IF i <= 1 THEN a[i] ELSE b[i - 1]
  <2>0. a \in Seq(S) /\ b \in Seq(S)
    BY <1>1, <1>2
  <2>1. /\ t \in Seq(S) /\ Len(t) = Len(a) + Len(b)
        /\ \A i \in 1 .. Len(a) + Len(b) : t[i] = IF i <= Len(a) THEN a[i] ELSE b[i - Len(a)]
    BY <2>0, ConcatProperties
  <2>. HIDE DEF t
  <2>. QED  BY <1>2, <2>1
<1>. HIDE DEF t
<1>4. Len(t) = Len(q)
  BY <1>1, <1>3
<1>5. \A i \in 1 .. Len(t) : t[i] = q[i]
  <2>. TAKE i \in 1 .. Len(t)
  <2>1. CASE i = 1
    BY <1>1, <1>2, <1>3, <2>1
  <2>2. CASE i # 1
    <3>1. i - 1 \in 1 .. Len(b) /\ (i - 1) + 1 = i /\ ~(i <= 1)
      BY <1>1, <1>3, <2>2
    <3>. QED  BY <1>1, <1>3, <3>1
  <2>. QED  BY <2>1, <2>2
<1>6. t = q
  BY <1>3, <1>4, <1>5, SeqEqual
<1>. QED  BY <1>1, <1>2, <1>6 DEF t, a, b

LEMMA Manda ==
  ASSUME NEW S, NEW q \in Seq(S), NEW f \in Seq(S), f # << >>
  PROVE  Append(q, Head(f)) \o Tail(f) = q \o f
<1>1. /\ Head(f) \in S /\ Tail(f) \in Seq(S) /\ <<Head(f)>> \in Seq(S)
      /\ <<Head(f)>> \o Tail(f) = f
  BY Primero
<1>2. Append(q, Head(f)) = q \o <<Head(f)>>
  BY <1>1, AppendIsConcat
<1>3. (q \o <<Head(f)>>) \o Tail(f) = q \o (<<Head(f)>> \o Tail(f))
  BY <1>1, ConcatAssociative
<1>. QED  BY <1>1, <1>2, <1>3

LEMMA Recoge ==
  ASSUME NEW S, NEW s \in Seq(S), NEW q \in Seq(S), NEW f \in Seq(S), q # << >>
  PROVE  Append(s, Head(q)) \o (Tail(q) \o f) = s \o (q \o f)
<1>1. /\ Head(q) \in S /\ Tail(q) \in Seq(S) /\ <<Head(q)>> \in Seq(S)
      /\ <<Head(q)>> \o Tail(q) = q
  BY Primero
<1>2. Append(s, Head(q)) \o Tail(q) = s \o q
  BY Manda
<1>3. Append(s, Head(q)) \in Seq(S)
  BY <1>1
<1>4. (Append(s, Head(q)) \o Tail(q)) \o f = Append(s, Head(q)) \o (Tail(q) \o f)
  BY <1>1, <1>3, ConcatAssociative
<1>5. (s \o q) \o f = s \o (q \o f)
  BY ConcatAssociative
<1>. QED  BY <1>2, <1>4, <1>5

\* The two halves of a concatenation.
LEMMA Mitades ==
  ASSUME NEW S, NEW s \in Seq(S), NEW w \in Seq(S)
  PROVE  /\ SubSeq(s \o w, 1, Len(s)) = s
         /\ SubSeq(s \o w, Len(s) + 1, Len(s \o w)) = w
<1>. DEFINE t == s \o w
            a == SubSeq(t, 1, Len(s))
            b == SubSeq(t, Len(s) + 1, Len(t))
<1>0. Len(s) \in Nat /\ Len(w) \in Nat
  OBVIOUS
<1>1. /\ t \in Seq(S) /\ Len(t) = Len(s) + Len(w)
      /\ \A i \in 1 .. Len(s) + Len(w) : t[i] = IF i <= Len(s) THEN s[i] ELSE w[i - Len(s)]
  BY ConcatProperties
<1>. HIDE DEF t
<1>2. Len(s) \in 0 .. Len(t) /\ Len(t) - Len(s) = Len(w)
  BY <1>0, <1>1
<1>3. /\ b \in Seq(S) /\ Len(b) = Len(t) - Len(s)
      /\ \A j \in 1 .. Len(t) - Len(s) : b[j] = t[Len(s) + j]
  BY <1>1, <1>2, Sufijo
<1>4. /\ a \in Seq(S) /\ Len(a) = Len(s) /\ \A i \in 1 .. Len(s) : a[i] = t[i]
  <2>1. \A i \in 1 .. Len(s) : t[i] \in S
    BY <1>0, <1>1
  <2>. QED  BY <1>0, <2>1, SubSeqProperties
<1>. HIDE DEF a, b
<1>5. a = s
  <2>1. \A i \in 1 .. Len(a) : a[i] = s[i]
    BY <1>0, <1>1, <1>4
  <2>. QED  BY <1>4, <2>1, SeqEqual
<1>6. b = w
  <2>1. \A i \in 1 .. Len(b) : b[i] = w[i]
    <3>. TAKE i \in 1 .. Len(b)
    <3>1. /\ Len(s) + i \in 1 .. Len(s) + Len(w) /\ ~(Len(s) + i <= Len(s))
          /\ (Len(s) + i) - Len(s) = i
      BY <1>0, <1>2, <1>3
    <3>. QED  BY <1>1, <1>3, <3>1
  <2>. QED  BY <1>2, <1>3, <2>1, SeqEqual
<1>. QED  BY <1>5, <1>6 DEF t, a, b
=============================================================================
