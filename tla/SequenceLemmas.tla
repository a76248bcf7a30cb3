---------------------------- MODULE SequenceLemmas ---------------------------
(***************************************************************************)
(* What the proofs of several modules need of sequences: induction over    *)
(* them, sequences without repetition, FlattenSeq, and Only.               *)
(***************************************************************************)
EXTENDS Lists, SequenceTheorems, NaturalsInduction, WellFoundedInduction, TLAPS

-----------------------------------------------------------------------------
(* Sequences without repetition: the shape of a line in which nobody       *)
(* stands twice, as the waiters of a semaphore are.                        *)

(* Leaving the line at place i takes one place and keeps the others' order. *)
LEMMA RemoveAtFacts ==
  ASSUME NEW S, NEW s \in Seq(S), NEW i \in DOMAIN s
  PROVE  /\ RemoveAt(s, i) \in Seq(S)
         /\ Len(RemoveAt(s, i)) = Len(s) - 1
         /\ \A k \in 1..Len(s)-1 : RemoveAt(s, i)[k] = IF k < i THEN s[k] ELSE s[k+1]
<1> DEFINE a == SubSeq(s, 1, i-1)
           b == SubSeq(s, i+1, Len(s))
<1>1. i \in 1..Len(s) /\ Len(s) \in Nat /\ \A k \in 1..Len(s) : s[k] \in S
  BY LenProperties, ElementOfSeq
<1>2. /\ a \in Seq(S) /\ Len(a) = i-1
      /\ \A k \in 1..i-1 : a[k] = s[k]
  <2>1. \A k \in 1..i-1 : s[k] \in S  BY <1>1
  <2>2. i-1 \in Int /\ 1 \in Int  BY <1>1
  <2> HIDE DEF a
  <2>3. /\ a \in Seq(S)
        /\ Len(a) = IF 1 <= i-1 THEN i-1-1+1 ELSE 0
        /\ \A k \in 1..i-1-1+1 : a[k] = s[1+k-1]
    BY <2>1, <2>2, SubSeqProperties DEF a
  <2> QED  BY <2>3, <1>1
<1>3. /\ b \in Seq(S) /\ Len(b) = Len(s) - i
      /\ \A k \in 1..Len(s)-i : b[k] = s[i+k]
  <2>1. \A k \in i+1..Len(s) : s[k] \in S  BY <1>1
  <2>2. i+1 \in Int /\ Len(s) \in Int  BY <1>1
  <2> HIDE DEF b
  <2>3. /\ b \in Seq(S)
        /\ Len(b) = IF i+1 <= Len(s) THEN Len(s)-(i+1)+1 ELSE 0
        /\ \A k \in 1..Len(s)-(i+1)+1 : b[k] = s[i+1+k-1]
    BY <2>1, <2>2, SubSeqProperties DEF b
  <2> QED  BY <2>3, <1>1
<1>4. RemoveAt(s, i) = a \o b  BY DEF RemoveAt
<1> HIDE DEF a, b
<1>5. /\ a \o b \in Seq(S)
      /\ Len(a \o b) = Len(a) + Len(b)
      /\ \A k \in 1..Len(a)+Len(b) : (a \o b)[k] = IF k <= Len(a) THEN a[k] ELSE b[k - Len(a)]
  BY <1>2, <1>3, ConcatProperties
<1> QED
  <2>1. ASSUME NEW k \in 1..Len(s)-1
        PROVE  (a \o b)[k] = IF k < i THEN s[k] ELSE s[k+1]
    <3>1. (a \o b)[k] = IF k <= i-1 THEN a[k] ELSE b[k - (i-1)]
      <4>1. Len(a) = i-1 /\ Len(a) + Len(b) = Len(s)-1  BY <1>1, <1>2, <1>3
      <4>2. k \in 1..Len(a)+Len(b)  BY <4>1
      <4>3. (a \o b)[k] = IF k <= Len(a) THEN a[k] ELSE b[k - Len(a)]  BY <4>2, <1>5
      <4> QED  BY <4>1, <4>3
    <3>2. CASE k < i  BY <3>1, <3>2, <1>1, <1>2
    <3>3. CASE ~(k < i)
      <4>1. k - (i-1) \in 1..Len(s)-i  BY <3>3, <1>1
      <4>2. b[k - (i-1)] = s[i + (k - (i-1))]  BY <4>1, <1>3
      <4> QED  BY <4>2, <3>1, <3>3, <1>1
    <3> QED  BY <3>2, <3>3
  <2> QED  BY <2>1, <1>1, <1>2, <1>3, <1>4, <1>5

(* Somebody new at the end leaves a sequence without repetition.           *)
LEMMA AppendInjectiveSeq ==
  ASSUME NEW S, NEW s \in Seq(S), IsInjective(s), NEW e \in S, e \notin ToSet(s)
  PROVE  /\ Append(s, e) \in Seq(S)
         /\ IsInjective(Append(s, e))
         /\ ToSet(Append(s, e)) = ToSet(s) \cup {e}
         /\ \A i \in DOMAIN Append(s, e) :
              (i \in DOMAIN s /\ Append(s, e)[i] = s[i]) \/ Append(s, e)[i] = e
<1>1. /\ Append(s, e) \in Seq(S) /\ Len(Append(s, e)) = Len(s) + 1
      /\ \A i \in 1..Len(s) : Append(s, e)[i] = s[i]
      /\ Append(s, e)[Len(s)+1] = e
  BY AppendProperties
<1>2. /\ Len(s) \in Nat /\ DOMAIN s = 1..Len(s)
      /\ DOMAIN Append(s, e) = 1..Len(s)+1
  BY <1>1, LenProperties
<1>3. \A i \in 1..Len(s)+1 : i \in 1..Len(s) \/ i = Len(s)+1  BY <1>2
<1>4. \A i \in DOMAIN s : s[i] # e  BY DEF ToSet
<1>5. IsInjective(Append(s, e))
  BY <1>1, <1>2, <1>3, <1>4 DEF IsInjective
<1>6. ToSet(Append(s, e)) = ToSet(s) \cup {e}
  <2>1. Len(s)+1 \in 1..Len(s)+1  BY <1>2
  <2>2. 1..Len(s) \subseteq 1..Len(s)+1  BY <1>2
  <2> QED  BY <1>1, <1>2, <1>3, <2>1, <2>2, Zenon DEF ToSet
<1> QED  BY <1>1, <1>2, <1>3, <1>5, <1>6

(* Taking the oldest out.                                                  *)
LEMMA TailInjectiveSeq ==
  ASSUME NEW S, NEW s \in Seq(S), IsInjective(s), s # <<>>
  PROVE  /\ Head(s) \in S /\ Head(s) \in ToSet(s)
         /\ Tail(s) \in Seq(S)
         /\ IsInjective(Tail(s))
         /\ ToSet(Tail(s)) = ToSet(s) \ {Head(s)}
         /\ \A i \in DOMAIN Tail(s) : i+1 \in DOMAIN s /\ Tail(s)[i] = s[i+1]
         /\ Head(s) = s[1] /\ 1 \in DOMAIN s
<1>1. /\ Head(s) \in S /\ Tail(s) \in Seq(S) /\ Len(Tail(s)) = Len(s)-1
      /\ \A i \in 1..Len(Tail(s)) : Tail(s)[i] = s[i+1]
  BY HeadTailProperties
<1>2. Len(s) \in Nat /\ Len(s) # 0 /\ DOMAIN s = 1..Len(s) /\ DOMAIN Tail(s) = 1..Len(s)-1
  BY <1>1, LenProperties, EmptySeq
<1>3. Head(s) = s[1] /\ 1 \in DOMAIN s  BY <1>2
<1>4. \A i \in 1..Len(s)-1 : i+1 \in 1..Len(s) /\ i+1 # 1  BY <1>2
<1>5. \A i \in 1..Len(s) : i = 1 \/ (i-1 \in 1..Len(s)-1 /\ (i-1)+1 = i)  BY <1>2
<1>6. IsInjective(Tail(s))
  <2> SUFFICES ASSUME NEW i \in 1..Len(s)-1, NEW k \in 1..Len(s)-1, Tail(s)[i] = Tail(s)[k]
               PROVE  i = k
    BY <1>2 DEF IsInjective
  <2>1. s[i+1] = s[k+1] /\ i+1 \in DOMAIN s /\ k+1 \in DOMAIN s  BY <1>1, <1>2, <1>4
  <2>2. i+1 = k+1  BY <2>1 DEF IsInjective
  <2> QED  BY <2>2, <1>2
<1>7. ToSet(Tail(s)) = ToSet(s) \ {Head(s)}
  <2>1. ASSUME NEW x \in ToSet(Tail(s)) PROVE x \in ToSet(s) /\ x # Head(s)
    <3>1. PICK i \in 1..Len(s)-1 : x = Tail(s)[i]  BY <1>2 DEF ToSet
    <3>2. x = s[i+1] /\ i+1 \in DOMAIN s /\ i+1 # 1  BY <3>1, <1>1, <1>2, <1>4
    <3> QED  BY <3>2, <1>3 DEF ToSet, IsInjective
  <2>2. ASSUME NEW x \in ToSet(s), x # Head(s) PROVE x \in ToSet(Tail(s))
    <3>1. PICK i \in 1..Len(s) : x = s[i]  BY <1>2 DEF ToSet
    <3>2. i-1 \in 1..Len(s)-1 /\ (i-1)+1 = i  BY <3>1, <2>2, <1>3, <1>5
    <3>3. Tail(s)[i-1] = x  BY <3>1, <3>2, <1>1, <1>2
    <3> QED  BY <3>2, <3>3, <1>2 DEF ToSet
  <2> QED  BY <2>1, <2>2
<1>8. Head(s) \in ToSet(s)  BY <1>3 DEF ToSet
<1> QED  BY <1>1, <1>2, <1>3, <1>4, <1>6, <1>7, <1>8

(* Leaving the line from any place.                                        *)
LEMMA RemoveInjectiveSeq ==
  ASSUME NEW S, NEW s \in Seq(S), IsInjective(s), NEW i \in DOMAIN s
  PROVE  /\ RemoveAt(s, i) \in Seq(S)
         /\ IsInjective(RemoveAt(s, i))
         /\ ToSet(RemoveAt(s, i)) = ToSet(s) \ {s[i]}
<1> DEFINE t == RemoveAt(s, i)
           at(k) == IF k < i THEN k ELSE k+1
<1>1. t \in Seq(S) /\ Len(t) = Len(s) - 1
      /\ \A k \in 1..Len(s)-1 : t[k] = IF k < i THEN s[k] ELSE s[k+1]
  BY RemoveAtFacts
<1>2. Len(s) \in Nat /\ DOMAIN s = 1..Len(s) /\ DOMAIN t = 1..Len(s)-1 /\ i \in 1..Len(s)
  BY <1>1, LenProperties
<1> HIDE DEF t
<1>3. \A k \in 1..Len(s)-1 : t[k] = s[at(k)] /\ at(k) \in 1..Len(s) /\ at(k) # i
  BY <1>1, <1>2
<1>4. \A k, m \in 1..Len(s)-1 : at(k) = at(m) => k = m
  BY <1>2
<1>5. \A n \in 1..Len(s) : n # i => \E k \in 1..Len(s)-1 : at(k) = n
  <2> SUFFICES ASSUME NEW n \in 1..Len(s), n # i
               PROVE  \E k \in 1..Len(s)-1 : at(k) = n
    OBVIOUS
  <2>1. CASE n < i
    <3>1. n \in 1..Len(s)-1 /\ at(n) = n  BY <2>1, <1>2
    <3> QED  BY <3>1
  <2>2. CASE n > i
    <3>1. n-1 \in 1..Len(s)-1 /\ at(n-1) = n  BY <2>2, <1>2
    <3> QED  BY <3>1
  <2> QED  BY <2>1, <2>2, <1>2
<1> HIDE DEF at
<1>6. IsInjective(t)
  <2> SUFFICES ASSUME NEW k \in 1..Len(s)-1, NEW m \in 1..Len(s)-1, t[k] = t[m]
               PROVE  k = m
    BY <1>2 DEF IsInjective
  <2>1. at(k) = at(m)  BY <1>2, <1>3 DEF IsInjective
  <2> QED  BY <2>1, <1>4
<1>7. ToSet(t) = ToSet(s) \ {s[i]}
  <2>1. ASSUME NEW x \in ToSet(t) PROVE x \in ToSet(s) /\ x # s[i]
    <3>1. PICK k \in 1..Len(s)-1 : x = t[k]  BY <1>2 DEF ToSet
    <3> QED  BY <3>1, <1>2, <1>3 DEF ToSet, IsInjective
  <2>2. ASSUME NEW x \in ToSet(s), x # s[i] PROVE x \in ToSet(t)
    <3>1. PICK n \in 1..Len(s) : x = s[n] /\ n # i  BY <2>2, <1>2 DEF ToSet
    <3>2. PICK k \in 1..Len(s)-1 : at(k) = n  BY <3>1, <1>5
    <3> QED  BY <3>1, <3>2, <1>2, <1>3 DEF ToSet
  <2> QED  BY <2>1, <2>2
<1> QED  BY <1>1, <1>6, <1>7 DEF t

-----------------------------------------------------------------------------
(* Induction over numbers, said of sets: a set of numbers that is not empty *)
(* has a least one, so a set that holds 0 and with n also n+1 holds all.    *)

\* A set of numbers has a least one.
LEMMA LeastNumber ==
  ASSUME NEW T, T \subseteq Nat, T # {}
  PROVE  \E m \in T : \A k \in T : m <= k
<1>1. IsWellFoundedOn(OpToRel(<, Nat), Nat)  BY NatLessThanWellFounded
<1>2. OpToRel(<, Nat) = {ss \in Nat \X Nat : ss[1] < ss[2]}  BY DEF OpToRel
<1>3. PICK m \in T : \A k \in T : ~(<<k, m>> \in OpToRel(<, Nat))  BY <1>1, WFMin
<1>4. ASSUME NEW k \in T PROVE m <= k
  <2>1. <<k, m>> \in Nat \X Nat /\ <<k, m>>[1] = k /\ <<k, m>>[2] = m  OBVIOUS
  <2>2. ~(k < m)  BY <1>2, <1>3, <2>1
  <2> QED  BY <2>2
<1> QED  BY <1>4

\* Induction over the numbers of a set.
LEMMA Induction ==
  ASSUME NEW T, 0 \in T, \A n \in Nat : n \in T => n + 1 \in T
  PROVE  \A n \in Nat : n \in T
<1> SUFFICES ASSUME {n \in Nat : n \notin T} # {}  PROVE FALSE
  OBVIOUS
<1>1. PICK m \in {n \in Nat : n \notin T} : \A k \in {n \in Nat : n \notin T} : m <= k
  BY LeastNumber
<1>2. m \in Nat \ {0}  BY <1>1
<1>3. m - 1 \in T  BY <1>1, <1>2
<1> QED  BY <1>1, <1>2, <1>3

-----------------------------------------------------------------------------
(* FlattenSeq, one sequence at a time.                                     *)

\* What the recursive function in FlattenSeq says of itself.
Flattens(f, s, n) == f = [i \in 1..n |-> IF i = 1 THEN s[i] ELSE f[i-1] \o s[i]]

\* Nothing, flattened.
LEMMA FlattenEmpty == FlattenSeq(<<>>) = <<>>
BY DEF FlattenSeq

\* The flattening of the first n goes on to the next.
LEMMA FlattensExtended ==
  ASSUME NEW s, NEW n \in Nat, NEW f, Flattens(f, s, n)
  PROVE  \E g : Flattens(g, s, n + 1)
<1> DEFINE g == [i \in 1..n+1 |-> IF i = 1 THEN s[i] ELSE f[i-1] \o s[i]]
           h == [i \in 1..n+1 |-> IF i = 1 THEN s[i] ELSE g[i-1] \o s[i]]
<1>1. f = [i \in 1..n |-> IF i = 1 THEN s[i] ELSE f[i-1] \o s[i]]  BY DEF Flattens
<1>2. ASSUME NEW i \in 1..n PROVE g[i] = f[i]
  <2>1. f[i] = IF i = 1 THEN s[i] ELSE f[i-1] \o s[i]  BY <1>1, Zenon
  <2>2. i \in 1..n+1  OBVIOUS
  <2> QED  BY <2>1, <2>2
<1>3. ASSUME NEW i \in 1..n+1 PROVE g[i] = h[i]
  <2>1. g[i] = IF i = 1 THEN s[i] ELSE f[i-1] \o s[i]  OBVIOUS
  <2> HIDE DEF g
  <2>2. h[i] = IF i = 1 THEN s[i] ELSE g[i-1] \o s[i]  OBVIOUS
  <2>3. i # 1 => i - 1 \in 1..n  OBVIOUS
  <2>4. i # 1 => g[i-1] = f[i-1]  BY <1>2, <2>3
  <2> HIDE DEF h
  <2> QED  BY <2>1, <2>2, <2>4
<1>4. g = [i \in 1..n+1 |-> g[i]]  OBVIOUS
<1>5. h = [i \in 1..n+1 |-> h[i]]
  <2> HIDE DEF g
  <2> QED  OBVIOUS
<1>6. g = h
  <2> HIDE DEF g, h
  <2> QED  BY <1>3, <1>4, <1>5
<1>7. Flattens(g, s, n + 1)
  <2> HIDE DEF g
  <2> QED  BY <1>6 DEF Flattens
<1> QED  BY <1>7

\* There is a function that flattens the first n.
LEMMA FlattensExists ==
  ASSUME NEW s, NEW n \in Nat
  PROVE  \E f : Flattens(f, s, n)
<1> DEFINE N == {m \in Nat : \E f : Flattens(f, s, m)}
<1>1. 0 \in N
  <2> DEFINE f == [i \in 1..0 |-> s[i]]
  <2>1. f = [i \in 1..0 |-> IF i = 1 THEN s[i] ELSE f[i-1] \o s[i]]  OBVIOUS
  <2>2. Flattens(f, s, 0)
    <3> HIDE DEF f
    <3> QED  BY <2>1 DEF Flattens
  <2> QED  BY <2>2
<1>2. ASSUME NEW m \in Nat, m \in N PROVE m + 1 \in N
  <2>1. PICK f : Flattens(f, s, m)  BY <1>2
  <2>2. \E g : Flattens(g, s, m + 1)  BY <2>1, FlattensExtended
  <2> QED  BY <2>2
<1> HIDE DEF N
<1>3. n \in N  BY <1>1, <1>2, Induction
<1> QED  BY <1>3 DEF N

\* So FlattenSeq is what such a function ends with.
LEMMA FlattenFunction ==
  ASSUME NEW s, Len(s) \in Nat \ {0}
  PROVE  \E f : /\ FlattenSeq(s) = f[Len(s)]
                /\ f[1] = s[1]
                /\ \A i \in 1..Len(s)-1 : f[i+1] = f[i] \o s[i+1]
<1> DEFINE F == CHOOSE f : f = [i \in 1..Len(s) |-> IF i = 1 THEN s[i] ELSE f[i-1] \o s[i]]
<1>1. \E f : f = [i \in 1..Len(s) |-> IF i = 1 THEN s[i] ELSE f[i-1] \o s[i]]
  BY FlattensExists DEF Flattens
<1>2. F = [i \in 1..Len(s) |-> IF i = 1 THEN s[i] ELSE F[i-1] \o s[i]]  BY <1>1
<1>3. FlattenSeq(s) = F[Len(s)]  BY DEF FlattenSeq
<1> HIDE DEF F
<1>4. \A i \in 1..Len(s) : F[i] = IF i = 1 THEN s[i] ELSE F[i-1] \o s[i]  BY <1>2, Zenon
<1>5. F[1] = s[1]  BY <1>4
<1>6. ASSUME NEW i \in 1..Len(s)-1 PROVE F[i+1] = F[i] \o s[i+1]
  <2>1. PICK j \in 1..Len(s) : j = i + 1 /\ j # 1 /\ j - 1 = i  OBVIOUS
  <2>2. F[j] = F[j-1] \o s[j]  BY <1>4, <2>1, Zenon
  <2> QED  BY <2>1, <2>2
<1> QED  BY <1>3, <1>5, <1>6

\* One more sequence is flattened behind the others.
LEMMA FlattenAppend ==
  ASSUME NEW T, NEW s \in Seq(Seq(T)), NEW e \in Seq(T)
  PROVE  FlattenSeq(Append(s, e)) = FlattenSeq(s) \o e
<1> DEFINE t == Append(s, e)
<1>1. /\ Len(t) = Len(s) + 1 /\ Len(s) \in Nat
      /\ t[Len(s) + 1] = e
      /\ \A i \in 1..Len(s) : t[i] = s[i]
  BY AppendProperties, LenProperties
<1> HIDE DEF t
<1>2. PICK g : /\ FlattenSeq(t) = g[Len(t)]
               /\ g[1] = t[1]
               /\ \A i \in 1..Len(t)-1 : g[i+1] = g[i] \o t[i+1]
  <2>1. Len(t) \in Nat \ {0}  BY <1>1
  <2> QED  BY <2>1, FlattenFunction
<1>3. CASE Len(s) = 0
  <2>1. s = <<>>  BY <1>3, EmptySeq
  <2>2. FlattenSeq(s) = <<>>  BY <2>1, FlattenEmpty
  <2>3. <<>> \o e = e  BY ConcatEmptySeq
  <2> QED  BY <1>1, <1>2, <1>3, <2>2, <2>3 DEF t
<1>4. CASE Len(s) # 0
  <2>1. PICK f : /\ FlattenSeq(s) = f[Len(s)]
                 /\ f[1] = s[1]
                 /\ \A i \in 1..Len(s)-1 : f[i+1] = f[i] \o s[i+1]
    <3>1. Len(s) \in Nat \ {0}  BY <1>1, <1>4
    <3> QED  BY <3>1, FlattenFunction
  <2> DEFINE N == {n \in Nat : n \in 1..Len(s) => f[n] = g[n]}
  <2>2. 0 \in N  OBVIOUS
  <2>3. ASSUME NEW n \in Nat, n \in N PROVE n + 1 \in N
    <3>1. CASE n = 0
      <4>1. n + 1 = 1 /\ 1 \in 1..Len(s)  BY <3>1, <1>1, <1>4
      <4>2. f[1] = g[1]  BY <4>1, <1>1, <1>2, <2>1
      <4> QED  BY <4>1, <4>2
    <3>2. CASE n # 0 /\ n + 1 \in 1..Len(s)
      <4>1. n \in 1..Len(s)-1 /\ n \in 1..Len(t)-1 /\ n \in 1..Len(s)  BY <3>2, <1>1
      <4>2. f[n] = g[n]  BY <2>3, <4>1
      <4>3. f[n+1] = f[n] \o s[n+1]  BY <4>1, <2>1
      <4>4. g[n+1] = g[n] \o t[n+1]  BY <4>1, <1>2
      <4>5. t[n+1] = s[n+1]  BY <3>2, <1>1
      <4>6. f[n+1] = g[n+1]  BY <4>2, <4>3, <4>4, <4>5
      <4> QED  BY <4>6
    <3> QED  BY <3>1, <3>2
  <2> HIDE DEF N
  <2>4. Len(s) \in N  BY <2>2, <2>3, <1>1, Induction
  <2>5. f[Len(s)] = g[Len(s)]
    <3>1. Len(s) \in 1..Len(s)  BY <1>1, <1>4
    <3> QED  BY <2>4, <3>1 DEF N
  <2>6. g[Len(s) + 1] = g[Len(s)] \o t[Len(s) + 1]
    <3>1. Len(s) \in 1..Len(t)-1  BY <1>1, <1>4
    <3> QED  BY <3>1, <1>2
  <2> QED  BY <1>1, <1>2, <2>1, <2>5, <2>6 DEF t
<1> QED  BY <1>3, <1>4

\* Induction over the sequences of a set.
LEMMA SequenceInduction ==
  ASSUME NEW S, NEW T, <<>> \in T,
         \A s \in Seq(S) : \A e \in S : s \in T => Append(s, e) \in T
  PROVE  \A s \in Seq(S) : s \in T
<1> DEFINE N == {n \in Nat : \A s \in Seq(S) : Len(s) = n => s \in T}
<1>1. 0 \in N
  <2>1. \A s \in Seq(S) : Len(s) = 0 => s = <<>>  BY EmptySeq
  <2> QED  BY <2>1
<1>2. ASSUME NEW n \in Nat, n \in N PROVE n + 1 \in N
  <2> SUFFICES ASSUME NEW s \in Seq(S), Len(s) = n + 1 PROVE s \in T  OBVIOUS
  <2>1. s # <<>>  BY EmptySeq
  <2>2. PICK u \in Seq(S), e \in S : s = Append(u, e)  BY <2>1, SequenceEmptyOrAppend
  <2>3. Len(u) = n  BY <2>2, AppendProperties, LenProperties
  <2>4. u \in T  BY <1>2, <2>3
  <2> QED  BY <2>2, <2>4
<1> HIDE DEF N
<1>3. \A n \in Nat : n \in N  BY <1>1, <1>2, Induction
<1> QED  BY <1>3, LenProperties DEF N

\* What is flattened has the elements of its parts.
LEMMA FlattenType ==
  ASSUME NEW T
  PROVE  \A s \in Seq(Seq(T)) : FlattenSeq(s) \in Seq(T)
<1> DEFINE N == {s \in Seq(Seq(T)) : FlattenSeq(s) \in Seq(T)}
<1>1. <<>> \in N  BY FlattenEmpty, EmptySeq
<1>2. ASSUME NEW s \in Seq(Seq(T)), NEW e \in Seq(T), s \in N PROVE Append(s, e) \in N
  <2>1. FlattenSeq(Append(s, e)) = FlattenSeq(s) \o e  BY FlattenAppend
  <2>2. FlattenSeq(s) \o e \in Seq(T)  BY <1>2, ConcatProperties
  <2>3. Append(s, e) \in Seq(Seq(T))  BY AppendProperties
  <2> QED  BY <2>1, <2>2, <2>3
<1> HIDE DEF N
<1>3. \A s \in Seq(Seq(T)) : s \in N  BY <1>1, <1>2, SequenceInduction
<1> QED  BY <1>3 DEF N

\* Appending to the second is appending to both.
LEMMA ConcatAppend ==
  ASSUME NEW S, NEW s \in Seq(S), NEW t \in Seq(S), NEW e \in S
  PROVE  s \o Append(t, e) = Append(s \o t, e)
<1>1. Append(t, e) = t \o <<e>> /\ <<e>> \in Seq(S)  BY AppendIsConcat
<1>2. s \o t \in Seq(S)  BY ConcatProperties
<1>3. Append(s \o t, e) = (s \o t) \o <<e>>  BY <1>2, AppendIsConcat
<1>4. (s \o t) \o <<e>> = s \o (t \o <<e>>)  BY <1>1, ConcatAssociative
<1> QED  BY <1>1, <1>3, <1>4

\* Two lists are flattened one behind the other.
LEMMA FlattenConcat ==
  ASSUME NEW T, NEW s \in Seq(Seq(T))
  PROVE  \A t \in Seq(Seq(T)) : FlattenSeq(s \o t) = FlattenSeq(s) \o FlattenSeq(t)
<1> DEFINE N == {t \in Seq(Seq(T)) : FlattenSeq(s \o t) = FlattenSeq(s) \o FlattenSeq(t)}
<1>1. FlattenSeq(s) \in Seq(T)  BY FlattenType
<1>2. <<>> \in N
  <2>1. s \o <<>> = s  BY ConcatEmptySeq
  <2>2. FlattenSeq(s) \o <<>> = FlattenSeq(s)  BY <1>1, ConcatEmptySeq
  <2> QED  BY <2>1, <2>2, FlattenEmpty, EmptySeq
<1>3. ASSUME NEW t \in Seq(Seq(T)), NEW e \in Seq(T), t \in N PROVE Append(t, e) \in N
  <2>1. s \o Append(t, e) = Append(s \o t, e)  BY ConcatAppend
  <2>2. s \o t \in Seq(Seq(T)) /\ Append(t, e) \in Seq(Seq(T))
    BY ConcatProperties, AppendProperties
  <2>3. FlattenSeq(Append(s \o t, e)) = FlattenSeq(s \o t) \o e  BY <2>2, FlattenAppend
  <2>4. FlattenSeq(t) \in Seq(T)  BY FlattenType
  <2>5. (FlattenSeq(s) \o FlattenSeq(t)) \o e = FlattenSeq(s) \o (FlattenSeq(t) \o e)
    BY <1>1, <2>4, ConcatAssociative
  <2>6. FlattenSeq(Append(t, e)) = FlattenSeq(t) \o e  BY FlattenAppend
  <2>7. FlattenSeq(s \o t) = FlattenSeq(s) \o FlattenSeq(t)  BY <1>3
  <2> QED  BY <2>1, <2>2, <2>3, <2>5, <2>6, <2>7
<1> HIDE DEF N
<1>4. \A t \in Seq(Seq(T)) : t \in N  BY <1>2, <1>3, SequenceInduction
<1> QED  BY <1>4 DEF N

\* A function on the first numbers is a sequence.
LEMMA FunctionIsSequence ==
  ASSUME NEW S, NEW n \in Nat, NEW f \in [1..n -> S]
  PROVE  f \in Seq(S) /\ Len(f) = n
OBVIOUS

\* The sequences are often the values of a function on the first numbers.
LEMMA FlattenNext ==
  ASSUME NEW T, NEW n \in Nat, NEW f, \A k \in 1..n+1 : f[k] \in Seq(T)
  PROVE  /\ [k \in 1..n |-> f[k]] \in Seq(Seq(T))
         /\ FlattenSeq([k \in 1..n+1 |-> f[k]]) = FlattenSeq([k \in 1..n |-> f[k]]) \o f[n+1]
<1> DEFINE a == [k \in 1..n |-> f[k]]
           b == [k \in 1..n+1 |-> f[k]]
<1>1. a \in Seq(Seq(T)) /\ Len(a) = n /\ \A k \in 1..n : a[k] = f[k]
  <2>1. \A k \in 1..n : k \in 1..n+1  OBVIOUS
  <2>2. a \in [1..n -> Seq(T)]  BY <2>1
  <2> QED  BY <2>2, FunctionIsSequence
<1>2. b \in Seq(Seq(T)) /\ Len(b) = n + 1 /\ \A k \in 1..n+1 : b[k] = f[k]
  <2>1. b \in [1..n+1 -> Seq(T)]  OBVIOUS
  <2>2. n + 1 \in Nat  OBVIOUS
  <2> QED  BY <2>1, <2>2, FunctionIsSequence
<1>3. f[n+1] \in Seq(T)  OBVIOUS
<1> HIDE DEF a, b
<1>4. /\ Append(a, f[n+1]) \in Seq(Seq(T)) /\ Len(Append(a, f[n+1])) = n + 1
      /\ Append(a, f[n+1])[n+1] = f[n+1]
      /\ \A k \in 1..n : Append(a, f[n+1])[k] = a[k]
  BY <1>1, <1>3, AppendProperties
<1>5. \A k \in 1..n+1 : b[k] = Append(a, f[n+1])[k]
  <2>1. \A k \in 1..n+1 : k \in 1..n \/ k = n + 1  OBVIOUS
  <2> QED  BY <1>1, <1>2, <1>4, <2>1
<1>6. b = Append(a, f[n+1])  BY <1>2, <1>4, <1>5, SeqEqual
<1>7. FlattenSeq(b) = FlattenSeq(a) \o f[n+1]  BY <1>1, <1>3, <1>6, FlattenAppend
<1> QED  BY <1>1, <1>7 DEF a, b

(* An element is added at the end.                                         *)
LEMMA AppendHolds ==
  ASSUME NEW S, NEW s \in Seq(S), NEW e \in S
  PROVE  ToSet(Append(s, e)) = ToSet(s) \cup {e}
<1>1. /\ Len(Append(s, e)) = Len(s) + 1 /\ Append(s, e) \in Seq(S)
      /\ \A i \in 1..Len(s) : Append(s, e)[i] = s[i]
      /\ Append(s, e)[Len(s)+1] = e
  BY AppendProperties
<1>2. /\ Len(s) \in Nat /\ DOMAIN s = 1..Len(s)
      /\ DOMAIN Append(s, e) = 1..Len(s)+1
  BY <1>1, LenProperties
<1>3. \A i \in 1..Len(s)+1 : i \in 1..Len(s) \/ i = Len(s)+1  BY <1>2
<1>4. Len(s)+1 \in 1..Len(s)+1  BY <1>2
<1>5. 1..Len(s) \subseteq 1..Len(s)+1  BY <1>2
<1> QED  BY <1>1, <1>2, <1>3, <1>4, <1>5, Zenon DEF ToSet

-----------------------------------------------------------------------------
(* Only: what is picked out of a list, element by element.                 *)

\* What Only flattens.
LEMMA OnlyPieces ==
  ASSUME NEW S, NEW s \in Seq(S), NEW wanted
  PROVE  /\ [n \in DOMAIN s |-> IF s[n] \in wanted THEN <<s[n]>> ELSE <<>>] \in Seq(Seq(S))
         /\ Len([n \in DOMAIN s |-> IF s[n] \in wanted THEN <<s[n]>> ELSE <<>>]) = Len(s)
<1> DEFINE a == [n \in DOMAIN s |-> IF s[n] \in wanted THEN <<s[n]>> ELSE <<>>]
<1>1. Len(s) \in Nat /\ DOMAIN s = 1..Len(s)  BY LenProperties
<1>2. ASSUME NEW n \in 1..Len(s) PROVE (IF s[n] \in wanted THEN <<s[n]>> ELSE <<>>) \in Seq(S)
  <2>1. s[n] \in S  BY <1>2, ElementOfSeq
  <2>2. <<s[n]>> \in Seq(S) /\ <<>> \in Seq(S)  BY <2>1
  <2> QED  BY <2>2
<1>3. a \in [1..Len(s) -> Seq(S)]  BY <1>1, <1>2
<1> QED  BY <1>1, <1>3, FunctionIsSequence

\* Of nothing, nothing is picked.
LEMMA OnlyEmpty == \A wanted : Only(<<>>, wanted) = <<>>
<1> TAKE wanted
<1>1. [n \in DOMAIN <<>> |-> IF <<>>[n] \in wanted THEN <<(<<>>)[n]>> ELSE <<>>] = <<>>  OBVIOUS
<1> QED  BY <1>1, FlattenEmpty DEF Only

\* What is picked is of the sequence.
LEMMA OnlyType ==
  ASSUME NEW S, NEW s \in Seq(S), NEW wanted
  PROVE  Only(s, wanted) \in Seq(S)
BY OnlyPieces, FlattenType DEF Only

(* One more element is picked or not.                                      *)
LEMMA OnlyAppend ==
  ASSUME NEW S, NEW s \in Seq(S), NEW e \in S, NEW wanted
  PROVE  Only(Append(s, e), wanted)
           = IF e \in wanted THEN Append(Only(s, wanted), e) ELSE Only(s, wanted)
<1> DEFINE t == Append(s, e)
           a == [n \in DOMAIN s |-> IF s[n] \in wanted THEN <<s[n]>> ELSE <<>>]
           b == [n \in DOMAIN t |-> IF t[n] \in wanted THEN <<t[n]>> ELSE <<>>]
           p == IF e \in wanted THEN <<e>> ELSE <<>>
<1>1. /\ t \in Seq(S) /\ Len(t) = Len(s) + 1 /\ Len(s) \in Nat
      /\ t[Len(s) + 1] = e /\ \A i \in 1..Len(s) : t[i] = s[i]
      /\ DOMAIN s = 1..Len(s) /\ DOMAIN t = 1..Len(s)+1
  BY AppendProperties, LenProperties
<1>2. a \in Seq(Seq(S)) /\ Len(a) = Len(s)  BY OnlyPieces
<1>3. b \in Seq(Seq(S)) /\ Len(b) = Len(s) + 1
  <2> HIDE DEF t, a
  <2>1. b \in Seq(Seq(S)) /\ Len(b) = Len(t)  BY <1>1, OnlyPieces
  <2> QED  BY <1>1, <2>1
<1>4. p \in Seq(S)
  <2>1. <<e>> \in Seq(S) /\ <<>> \in Seq(S)  OBVIOUS
  <2> QED  BY <2>1
<1>5. \A i \in 1..Len(s) : b[i] = a[i]
  <2> HIDE DEF t
  <2> QED  BY <1>1
<1>6. b[Len(s) + 1] = p
  <2> HIDE DEF t
  <2> QED  BY <1>1
<1> HIDE DEF t, a, b, p
<1>7. /\ Append(a, p) \in Seq(Seq(S)) /\ Len(Append(a, p)) = Len(s) + 1
      /\ Append(a, p)[Len(s) + 1] = p /\ \A i \in 1..Len(s) : Append(a, p)[i] = a[i]
  BY <1>2, <1>4, AppendProperties
<1>8. \A i \in 1..Len(s)+1 : b[i] = Append(a, p)[i]
  <2>1. \A i \in 1..Len(s)+1 : i \in 1..Len(s) \/ i = Len(s) + 1  BY <1>1
  <2> QED  BY <1>5, <1>6, <1>7, <2>1
<1>9. b = Append(a, p)  BY <1>3, <1>7, <1>8, SeqEqual
<1>10. FlattenSeq(b) = FlattenSeq(a) \o p  BY <1>2, <1>4, <1>9, FlattenAppend
<1>11. FlattenSeq(a) \in Seq(S)  BY <1>2, FlattenType
<1>12. FlattenSeq(a) \o <<e>> = Append(FlattenSeq(a), e) /\ FlattenSeq(a) \o <<>> = FlattenSeq(a)
  BY <1>11, AppendIsConcat, ConcatEmptySeq
<1> QED  BY <1>10, <1>12 DEF Only, t, a, b, p

(* What is picked is what is wanted and there.                             *)
LEMMA OnlyHolds ==
  ASSUME NEW S, NEW wanted
  PROVE  \A s \in Seq(S) : ToSet(Only(s, wanted)) = ToSet(s) \cap wanted
<1> DEFINE N == {s \in Seq(S) : ToSet(Only(s, wanted)) = ToSet(s) \cap wanted}
<1>1. <<>> \in N
  <2>1. ToSet(<<>>) = {}  BY DEF ToSet
  <2> QED  BY <2>1, OnlyEmpty, EmptySeq
<1>2. ASSUME NEW s \in Seq(S), NEW e \in S, s \in N PROVE Append(s, e) \in N
  <2>1. ToSet(Append(s, e)) = ToSet(s) \cup {e}  BY AppendHolds
  <2>2. Only(s, wanted) \in Seq(S)  BY OnlyType
  <2>3. ToSet(Append(Only(s, wanted), e)) = ToSet(Only(s, wanted)) \cup {e}  BY <2>2, AppendHolds
  <2>4. ToSet(Only(s, wanted)) = ToSet(s) \cap wanted  BY <1>2
  <2>5. CASE e \in wanted
    <3>1. Only(Append(s, e), wanted) = Append(Only(s, wanted), e)  BY <2>5, OnlyAppend
    <3>2. (ToSet(s) \cap wanted) \cup {e} = (ToSet(s) \cup {e}) \cap wanted  BY <2>5
    <3>3. Append(s, e) \in Seq(S)  BY AppendProperties
    <3> QED  BY <2>1, <2>3, <2>4, <3>1, <3>2, <3>3
  <2>6. CASE e \notin wanted
    <3>1. Only(Append(s, e), wanted) = Only(s, wanted)  BY <2>6, OnlyAppend
    <3>2. ToSet(s) \cap wanted = (ToSet(s) \cup {e}) \cap wanted  BY <2>6
    <3>3. Append(s, e) \in Seq(S)  BY AppendProperties
    <3> QED  BY <2>1, <2>4, <3>1, <3>2, <3>3
  <2> QED  BY <2>5, <2>6
<1> HIDE DEF N
<1>3. \A s \in Seq(S) : s \in N  BY <1>1, <1>2, SequenceInduction
<1> QED  BY <1>3 DEF N

(* Picking twice is picking what is wanted both times.                     *)
LEMMA OnlyTwice ==
  ASSUME NEW S, NEW first, NEW wanted
  PROVE  \A s \in Seq(S) : Only(Only(s, first), wanted) = Only(s, first \cap wanted)
<1> DEFINE N == {s \in Seq(S) : Only(Only(s, first), wanted) = Only(s, first \cap wanted)}
<1>1. <<>> \in N
  <2>1. Only(<<>>, first) = <<>> /\ Only(<<>>, wanted) = <<>> /\ Only(<<>>, first \cap wanted) = <<>>
    BY OnlyEmpty
  <2>2. <<>> \in Seq(S)  BY EmptySeq
  <2> QED  BY <2>1, <2>2
<1>2. ASSUME NEW s \in Seq(S), NEW e \in S, s \in N PROVE Append(s, e) \in N
  <2> DEFINE o == Only(s, first)
  <2>1. o \in Seq(S)  BY OnlyType
  <2>2. Append(s, e) \in Seq(S)  BY AppendProperties
  <2>3. Only(o, wanted) = Only(s, first \cap wanted)  BY <1>2
  <2>4. Only(Append(s, e), first) = IF e \in first THEN Append(o, e) ELSE o  BY OnlyAppend
  <2>5. Only(Append(s, e), first \cap wanted)
          = IF e \in first \cap wanted THEN Append(Only(s, first \cap wanted), e)
            ELSE Only(s, first \cap wanted)
    BY OnlyAppend
  <2> HIDE DEF o
  <2>6. Only(Append(o, e), wanted) = IF e \in wanted THEN Append(Only(o, wanted), e) ELSE Only(o, wanted)
    BY <2>1, OnlyAppend
  <2>7. Only(Only(Append(s, e), first), wanted) = Only(Append(s, e), first \cap wanted)
    <3>1. CASE e \in first /\ e \in wanted
      <4>1. e \in first \cap wanted  BY <3>1
      <4> QED  BY <2>3, <2>4, <2>5, <2>6, <3>1, <4>1
    <3>2. CASE e \in first /\ e \notin wanted
      <4>1. e \notin first \cap wanted  BY <3>2
      <4> QED  BY <2>3, <2>4, <2>5, <2>6, <3>2, <4>1
    <3>3. CASE e \notin first
      <4>1. e \notin first \cap wanted  BY <3>3
      <4> QED  BY <2>3, <2>4, <2>5, <3>3, <4>1
    <3> QED  BY <3>1, <3>2, <3>3
  <2> QED  BY <2>2, <2>7
<1> HIDE DEF N
<1>3. \A s \in Seq(S) : s \in N  BY <1>1, <1>2, SequenceInduction
<1> QED  BY <1>3 DEF N

(* Picking out of one list behind another.                                 *)
LEMMA OnlyConcat ==
  ASSUME NEW S, NEW s \in Seq(S), NEW wanted
  PROVE  \A t \in Seq(S) : Only(s \o t, wanted) = Only(s, wanted) \o Only(t, wanted)
<1> DEFINE N == {t \in Seq(S) : Only(s \o t, wanted) = Only(s, wanted) \o Only(t, wanted)}
<1>1. Only(s, wanted) \in Seq(S)  BY OnlyType
<1>2. <<>> \in N
  <2>1. s \o <<>> = s /\ Only(s, wanted) \o <<>> = Only(s, wanted)  BY <1>1, ConcatEmptySeq
  <2> QED  BY <2>1, OnlyEmpty, EmptySeq
<1>3. ASSUME NEW t \in Seq(S), NEW e \in S, t \in N PROVE Append(t, e) \in N
  <2>1. /\ s \o Append(t, e) = Append(s \o t, e)
        /\ s \o t \in Seq(S) /\ Append(t, e) \in Seq(S) /\ Only(t, wanted) \in Seq(S)
    BY ConcatAppend, ConcatProperties, AppendProperties, OnlyType
  <2>2. Only(s \o t, wanted) = Only(s, wanted) \o Only(t, wanted)  BY <1>3
  <2>3. CASE e \in wanted
    <3>1. Only(Append(s \o t, e), wanted) = Append(Only(s \o t, wanted), e)
      BY <2>1, <2>3, OnlyAppend
    <3>2. Only(Append(t, e), wanted) = Append(Only(t, wanted), e)  BY <2>3, OnlyAppend
    <3>3. Only(s, wanted) \o Append(Only(t, wanted), e)
            = Append(Only(s, wanted) \o Only(t, wanted), e)
      BY <1>1, <2>1, ConcatAppend
    <3> QED  BY <2>1, <2>2, <3>1, <3>2, <3>3
  <2>4. CASE e \notin wanted
    <3>1. Only(Append(s \o t, e), wanted) = Only(s \o t, wanted)  BY <2>1, <2>4, OnlyAppend
    <3>2. Only(Append(t, e), wanted) = Only(t, wanted)  BY <2>4, OnlyAppend
    <3> QED  BY <2>1, <2>2, <3>1, <3>2
  <2> QED  BY <2>3, <2>4
<1> HIDE DEF N
<1>4. \A t \in Seq(S) : t \in N  BY <1>2, <1>3, SequenceInduction
<1> QED  BY <1>4 DEF N

(* Picking out of a list of one.                                           *)
LEMMA OnlyOne ==
  ASSUME NEW S, NEW e \in S, NEW wanted
  PROVE  Only(<<e>>, wanted) = IF e \in wanted THEN <<e>> ELSE <<>>
<1>1. <<>> \in Seq(S) /\ Append(<<>>, e) = <<e>>  BY EmptySeq
<1>2. Only(Append(<<>>, e), wanted) = IF e \in wanted THEN Append(<<>>, e) ELSE <<>>
  BY <1>1, OnlyAppend, OnlyEmpty
<1> QED  BY <1>1, <1>2

(* Only what is in the list matters of what is wanted.                     *)
LEMMA OnlySame ==
  ASSUME NEW s, NEW v, NEW w, \A x \in ToSet(s) : x \in v <=> x \in w
  PROVE  Only(s, v) = Only(s, w)
<1>1. \A n \in DOMAIN s : s[n] \in v <=> s[n] \in w  BY DEF ToSet
<1>2. [n \in DOMAIN s |-> IF s[n] \in v THEN <<s[n]>> ELSE <<>>]
      = [n \in DOMAIN s |-> IF s[n] \in w THEN <<s[n]>> ELSE <<>>]
  BY <1>1
<1> QED  BY <1>2 DEF Only

(* One list behind the other holds what both hold, and nothing twice if     *)
(* neither does and they share nothing.                                     *)
LEMMA ConcatHolds ==
  ASSUME NEW S, NEW s \in Seq(S), NEW t \in Seq(S)
  PROVE  /\ s \o t \in Seq(S) /\ ToSet(s \o t) = ToSet(s) \cup ToSet(t)
         /\ IsInjective(s) /\ IsInjective(t) /\ ToSet(s) \cap ToSet(t) = {}
              => IsInjective(s \o t)
<1> DEFINE c == s \o t
           m == Len(s)
           n == Len(t)
<1>1. /\ m \in Nat /\ n \in Nat /\ c \in Seq(S) /\ Len(c) = m + n
      /\ DOMAIN s = 1..m /\ DOMAIN t = 1..n
      /\ \A i \in 1..m+n : c[i] = IF i <= m THEN s[i] ELSE t[i - m]
  BY ConcatProperties, LenProperties
<1>2. DOMAIN c = 1..m+n  BY <1>1, LenProperties
<1> HIDE DEF c, m, n
<1>3. /\ \A i \in 1..m : i \in 1..m+n /\ c[i] = s[i]
      /\ \A i \in 1..n : i + m \in 1..m+n /\ ~(i + m <= m) /\ (i + m) - m = i
  BY <1>1
<1>4. \A i \in 1..n : c[i + m] = t[i]  BY <1>1, <1>3
<1>5. \A i \in 1..m+n : i \in 1..m \/ \E j \in 1..n : i = j + m
  <2> SUFFICES ASSUME NEW i \in 1..m+n, i \notin 1..m PROVE \E j \in 1..n : i = j + m
    OBVIOUS
  <2>1. i - m \in 1..n /\ i = (i - m) + m  BY <1>1
  <2> QED  BY <2>1
<1>6. ToSet(c) = ToSet(s) \cup ToSet(t)
  <2>1. ASSUME NEW x \in ToSet(c) PROVE x \in ToSet(s) \cup ToSet(t)
    <3>1. PICK i \in 1..m+n : x = c[i]  BY <1>2 DEF ToSet
    <3>2. CASE i \in 1..m  BY <1>1, <1>3, <3>1, <3>2 DEF ToSet
    <3>3. ASSUME NEW j \in 1..n, i = j + m PROVE x \in ToSet(t)
      BY <1>1, <1>4, <3>1, <3>3 DEF ToSet
    <3> QED  BY <1>5, <3>2, <3>3
  <2>2. ASSUME NEW x \in ToSet(s) PROVE x \in ToSet(c)
    <3>1. PICK i \in 1..m : x = s[i]  BY <1>1 DEF ToSet
    <3> QED  BY <1>2, <1>3, <3>1 DEF ToSet
  <2>3. ASSUME NEW x \in ToSet(t) PROVE x \in ToSet(c)
    <3>1. PICK i \in 1..n : x = t[i]  BY <1>1 DEF ToSet
    <3>2. i + m \in 1..m+n /\ c[i + m] = x  BY <1>3, <1>4, <3>1
    <3> QED  BY <1>2, <3>2 DEF ToSet
  <2> QED  BY <2>1, <2>2, <2>3
<1>7. ASSUME IsInjective(s), IsInjective(t), ToSet(s) \cap ToSet(t) = {} PROVE IsInjective(c)
  <2>1. \A i \in 1..m, j \in 1..n : s[i] # t[j]
    <3> SUFFICES ASSUME NEW i \in 1..m, NEW j \in 1..n, s[i] = t[j] PROVE FALSE  OBVIOUS
    <3>1. s[i] \in ToSet(s) /\ t[j] \in ToSet(t)  BY <1>1 DEF ToSet
    <3> QED  BY <1>7, <3>1
  <2> SUFFICES ASSUME NEW i \in 1..m+n, NEW j \in 1..m+n, c[i] = c[j] PROVE i = j
    BY <1>2 DEF IsInjective
  <2>2. CASE i \in 1..m /\ j \in 1..m  BY <1>1, <1>3, <1>7, <2>2 DEF IsInjective
  <2>3. CASE i \in 1..m /\ j \notin 1..m
    <3>1. PICK q \in 1..n : j = q + m  BY <1>5, <2>3
    <3>2. s[i] = t[q]  BY <1>3, <1>4, <2>3, <3>1
    <3> QED  BY <2>1, <2>3, <3>2
  <2>4. CASE i \notin 1..m /\ j \in 1..m
    <3>1. PICK p \in 1..n : i = p + m  BY <1>5, <2>4
    <3>2. s[j] = t[p]  BY <1>3, <1>4, <2>4, <3>1
    <3> QED  BY <2>1, <2>4, <3>2
  <2>5. CASE i \notin 1..m /\ j \notin 1..m
    <3>1. PICK p \in 1..n : i = p + m  BY <1>5, <2>5
    <3>2. PICK q \in 1..n : j = q + m  BY <1>5, <2>5
    <3>3. t[p] = t[q]  BY <1>4, <3>1, <3>2
    <3>4. p = q  BY <1>1, <1>7, <3>3 DEF IsInjective
    <3> QED  BY <3>1, <3>2, <3>4
  <2> QED  BY <2>2, <2>3, <2>4, <2>5
<1> QED  BY <1>1, <1>6, <1>7 DEF c

(* What a list of lists holds is what its lists hold.                      *)
LEMMA FlattenHolds ==
  ASSUME NEW T
  PROVE  \A s \in Seq(Seq(T)) : \A x : x \in ToSet(FlattenSeq(s)) <=>
                                        \E i \in DOMAIN s : x \in ToSet(s[i])
<1> DEFINE Holds(s) == \A x : x \in ToSet(FlattenSeq(s)) <=> \E i \in DOMAIN s : x \in ToSet(s[i])
           N == {s \in Seq(Seq(T)) : Holds(s)}
<1>1. <<>> \in N
  <2>1. Holds(<<>>)  BY FlattenEmpty DEF ToSet
  <2>2. <<>> \in Seq(Seq(T))  BY EmptySeq
  <2> QED  BY <2>1, <2>2
<1>2. ASSUME NEW s \in Seq(Seq(T)), NEW e \in Seq(T), s \in N PROVE Append(s, e) \in N
  <2> DEFINE t == Append(s, e)
  <2>1. /\ t \in Seq(Seq(T)) /\ Len(t) = Len(s) + 1 /\ Len(s) \in Nat
        /\ t[Len(s) + 1] = e /\ \A i \in 1..Len(s) : t[i] = s[i]
        /\ DOMAIN s = 1..Len(s) /\ DOMAIN t = 1..Len(s)+1
    BY AppendProperties, LenProperties
  <2> HIDE DEF t
  <2>2. /\ \A i \in 1..Len(s)+1 : i \in 1..Len(s) \/ i = Len(s)+1
        /\ \A i \in 1..Len(s) : i \in 1..Len(s)+1
        /\ Len(s)+1 \in 1..Len(s)+1
    BY <2>1
  <2>3. FlattenSeq(s) \in Seq(T) /\ FlattenSeq(t) = FlattenSeq(s) \o e
    BY FlattenType, FlattenAppend DEF t
  <2>4. ToSet(FlattenSeq(s) \o e) = ToSet(FlattenSeq(s)) \cup ToSet(e)  BY <2>3, ConcatHolds
  <2>5. Holds(s)  BY <1>2
  <2>6. Holds(t)
    <3> SUFFICES ASSUME NEW x
                 PROVE  x \in ToSet(FlattenSeq(t)) <=> \E i \in DOMAIN t : x \in ToSet(t[i])
      OBVIOUS
    <3>1. x \in ToSet(FlattenSeq(t))
          <=> (\E i \in DOMAIN s : x \in ToSet(s[i])) \/ x \in ToSet(e)
      BY <2>3, <2>4, <2>5
    <3>2. (\E i \in DOMAIN t : x \in ToSet(t[i]))
          <=> (\E i \in DOMAIN s : x \in ToSet(s[i])) \/ x \in ToSet(e)
      BY <2>1, <2>2
    <3> QED  BY <3>1, <3>2
  <2> HIDE DEF Holds
  <2> QED  BY <2>1, <2>6 DEF t
<1> HIDE DEF N
<1>3. \A s \in Seq(Seq(T)) : s \in N  BY <1>1, <1>2, SequenceInduction
<1> QED  BY <1>3 DEF N

(* What is picked out of a list without repetition has none.               *)
LEMMA OnlyInjective ==
  ASSUME NEW S, NEW wanted
  PROVE  \A s \in Seq(S) : IsInjective(s) => IsInjective(Only(s, wanted))
<1> DEFINE N == {s \in Seq(S) : IsInjective(s) => IsInjective(Only(s, wanted))}
<1>1. <<>> \in N
  <2>1. IsInjective(<<>>)  BY DEF IsInjective
  <2> QED  BY <2>1, OnlyEmpty, EmptySeq
<1>2. ASSUME NEW s \in Seq(S), NEW e \in S, s \in N PROVE Append(s, e) \in N
  <2>1. Append(s, e) \in Seq(S)  BY AppendProperties
  <2>2. ASSUME IsInjective(Append(s, e)) PROVE IsInjective(Only(Append(s, e), wanted))
    <3>1. /\ Len(Append(s, e)) = Len(s) + 1 /\ Len(s) \in Nat
          /\ \A i \in 1..Len(s) : Append(s, e)[i] = s[i]
          /\ Append(s, e)[Len(s)+1] = e
          /\ DOMAIN s = 1..Len(s) /\ DOMAIN Append(s, e) = 1..Len(s)+1
      BY <2>1, AppendProperties, LenProperties
    <3>2. \A i \in 1..Len(s) : i \in 1..Len(s)+1 /\ i # Len(s)+1  BY <3>1
    <3>3. Len(s)+1 \in 1..Len(s)+1  BY <3>1
    <3>4. IsInjective(s)  BY <2>2, <3>1, <3>2 DEF IsInjective
    <3>5. e \notin ToSet(s)  BY <2>2, <3>1, <3>2, <3>3 DEF IsInjective, ToSet
    <3>6. IsInjective(Only(s, wanted))  BY <1>2, <3>4
    <3>7. e \notin ToSet(Only(s, wanted)) /\ Only(s, wanted) \in Seq(S)
      BY <3>5, OnlyHolds, OnlyType
    <3>8. IsInjective(Append(Only(s, wanted), e))  BY <3>6, <3>7, AppendInjectiveSeq
    <3> QED  BY <3>6, <3>8, OnlyAppend
  <2> QED  BY <2>1, <2>2
<1> HIDE DEF N
<1>3. \A s \in Seq(S) : s \in N  BY <1>1, <1>2, SequenceInduction
<1> QED  BY <1>3 DEF N

(* Picking out of two lists of one length, where what is wanted of the one  *)
(* is beside what is wanted of the other: what is picked is side by side.   *)
LEMMA OnlyBeside ==
  ASSUME NEW S, NEW T, NEW v, NEW w, NEW R,
         NEW s \in Seq(S), NEW t \in Seq(T), Len(s) = Len(t),
         \A n \in DOMAIN s : (s[n] \in v <=> t[n] \in w) /\ (s[n] \in v => <<s[n], t[n]>> \in R)
  PROVE  /\ Len(Only(s, v)) = Len(Only(t, w))
         /\ \A j \in DOMAIN Only(s, v) : <<Only(s, v)[j], Only(t, w)[j]>> \in R
<1> DEFINE Left(z) == [n \in DOMAIN z |-> z[n][1]]
           Right(z) == [n \in DOMAIN z |-> z[n][2]]
           Beside(z) == \A n \in DOMAIN z : /\ z[n][1] \in v <=> z[n][2] \in w
                                            /\ z[n][1] \in v => <<z[n][1], z[n][2]>> \in R
           Paired(a, b) == Len(a) = Len(b) /\ \A j \in DOMAIN a : <<a[j], b[j]>> \in R
           N == {z \in Seq(S \X T) : Beside(z) => Paired(Only(Left(z), v), Only(Right(z), w))}
<1>1. <<>> \in N
  <2>1. Left(<<>>) = <<>> /\ Right(<<>>) = <<>>  OBVIOUS
  <2>2. Only(<<>>, v) = <<>> /\ Only(<<>>, w) = <<>>  BY OnlyEmpty
  <2>3. Paired(<<>>, <<>>)  OBVIOUS
  <2>4. <<>> \in Seq(S \X T)  BY EmptySeq
  <2> HIDE DEF Left, Right, Paired
  <2> QED  BY <2>1, <2>2, <2>3, <2>4
<1>2. ASSUME NEW z \in Seq(S \X T), NEW e \in S \X T, z \in N PROVE Append(z, e) \in N
  <2> DEFINE y == Append(z, e)
  <2>1. /\ y \in Seq(S \X T) /\ Len(y) = Len(z) + 1 /\ Len(z) \in Nat
        /\ y[Len(z) + 1] = e /\ \A i \in 1..Len(z) : y[i] = z[i]
        /\ DOMAIN z = 1..Len(z) /\ DOMAIN y = 1..Len(z)+1
        /\ \A i \in 1..Len(z) : z[i] \in S \X T
    BY AppendProperties, LenProperties, ElementOfSeq
  <2> HIDE DEF y
  <2>2. /\ \A i \in 1..Len(z)+1 : i \in 1..Len(z) \/ i = Len(z)+1
        /\ \A i \in 1..Len(z) : i \in 1..Len(z)+1
        /\ Len(z)+1 \in 1..Len(z)+1
    BY <2>1
  <2>3. e[1] \in S /\ e[2] \in T /\ \A i \in 1..Len(z) : z[i][1] \in S /\ z[i][2] \in T
    BY <2>1
  <2>4. /\ Left(z) \in Seq(S) /\ Right(z) \in Seq(T) /\ Len(Left(z)) = Len(z)
        /\ Len(Right(z)) = Len(z)
        /\ \A i \in 1..Len(z) : Left(z)[i] = z[i][1] /\ Right(z)[i] = z[i][2]
    <3>1. Left(z) \in [1..Len(z) -> S] /\ Right(z) \in [1..Len(z) -> T]  BY <2>1, <2>3
    <3> QED  BY <2>1, <3>1, FunctionIsSequence
  <2>5. /\ Left(y) \in Seq(S) /\ Right(y) \in Seq(T) /\ Len(Left(y)) = Len(z) + 1
        /\ Len(Right(y)) = Len(z) + 1
        /\ \A i \in 1..Len(z)+1 : Left(y)[i] = y[i][1] /\ Right(y)[i] = y[i][2]
    <3>1. Left(y) \in [1..Len(z)+1 -> S] /\ Right(y) \in [1..Len(z)+1 -> T]
      BY <2>1, <2>2, <2>3
    <3> QED  BY <2>1, <3>1, FunctionIsSequence
  <2> DEFINE l == Left(z)
             r == Right(z)
  <2>6. Left(y) = Append(l, e[1]) /\ Right(y) = Append(r, e[2])
    <3>1. /\ Append(l, e[1]) \in Seq(S) /\ Append(r, e[2]) \in Seq(T)
          /\ Len(Append(l, e[1])) = Len(z) + 1 /\ Len(Append(r, e[2])) = Len(z) + 1
          /\ Append(l, e[1])[Len(z) + 1] = e[1] /\ Append(r, e[2])[Len(z) + 1] = e[2]
          /\ \A i \in 1..Len(z) : Append(l, e[1])[i] = l[i] /\ Append(r, e[2])[i] = r[i]
      <4> HIDE DEF Left, Right
      <4> QED  BY <2>3, <2>4, AppendProperties
    <3> HIDE DEF Left, Right
    <3>2. \A i \in 1..Len(z)+1 : Left(y)[i] = Append(l, e[1])[i]
                                 /\ Right(y)[i] = Append(r, e[2])[i]
      BY <2>1, <2>2, <2>4, <2>5, <3>1
    <3> QED  BY <2>5, <3>1, <3>2, SeqEqual
  <2>7. ASSUME Beside(y) PROVE Paired(Only(Left(y), v), Only(Right(y), w))
    <3>1. Beside(z)  BY <2>1, <2>2, <2>7
    <3>2. (e[1] \in v <=> e[2] \in w) /\ (e[1] \in v => <<e[1], e[2]>> \in R)
      BY <2>1, <2>2, <2>7
    <3> DEFINE a == Only(l, v)
               b == Only(r, w)
    <3>3. Paired(a, b)  BY <1>2, <3>1
    <3> HIDE DEF Beside, Left, Right
    <3>4. a \in Seq(S) /\ b \in Seq(T)  BY <2>4, OnlyType
    <3>5. /\ Only(Append(l, e[1]), v) = IF e[1] \in v THEN Append(a, e[1]) ELSE a
          /\ Only(Append(r, e[2]), w) = IF e[2] \in w THEN Append(b, e[2]) ELSE b
      BY <2>3, <2>4, OnlyAppend
    <3> HIDE DEF a, b
    <3>6. CASE e[1] \in v
      <4>1. /\ Len(a) \in Nat /\ DOMAIN a = 1..Len(a)
            /\ Len(Append(a, e[1])) = Len(a) + 1 /\ Len(Append(b, e[2])) = Len(b) + 1
            /\ DOMAIN Append(a, e[1]) = 1..Len(a)+1
            /\ Append(a, e[1])[Len(a)+1] = e[1] /\ Append(b, e[2])[Len(b)+1] = e[2]
            /\ \A i \in 1..Len(a) : Append(a, e[1])[i] = a[i]
            /\ \A i \in 1..Len(b) : Append(b, e[2])[i] = b[i]
        BY <2>3, <3>4, AppendProperties, LenProperties
      <4>2. \A i \in 1..Len(a)+1 : i \in 1..Len(a) \/ i = Len(a)+1  BY <4>1
      <4>3. Paired(Append(a, e[1]), Append(b, e[2]))  BY <3>2, <3>3, <3>6, <4>1, <4>2
      <4> QED  BY <2>6, <3>2, <3>5, <3>6, <4>3
    <3>7. CASE e[1] \notin v  BY <2>6, <3>2, <3>3, <3>5, <3>7
    <3> QED  BY <3>6, <3>7
  <2> HIDE DEF Beside, Paired, Left, Right
  <2> QED  BY <2>1, <2>7 DEF y
<1> HIDE DEF N
<1>3. \A z \in Seq(S \X T) : z \in N  BY <1>1, <1>2, SequenceInduction
<1> DEFINE both == [n \in DOMAIN s |-> <<s[n], t[n]>>]
<1>4. /\ Len(s) \in Nat /\ DOMAIN s = 1..Len(s) /\ DOMAIN t = DOMAIN s
      /\ \A n \in DOMAIN s : s[n] \in S /\ t[n] \in T
      /\ s = [n \in DOMAIN s |-> s[n]] /\ t = [n \in DOMAIN t |-> t[n]]
  BY LenProperties, ElementOfSeq
<1>5. both \in Seq(S \X T)
  <2>1. both \in [1..Len(s) -> S \X T]  BY <1>4
  <2> QED  BY <1>4, <2>1, FunctionIsSequence
<1>6. DOMAIN both = DOMAIN s /\ \A n \in DOMAIN both : both[n][1] = s[n] /\ both[n][2] = t[n]
  OBVIOUS
<1> HIDE DEF both
<1>7. Left(both) = s /\ Right(both) = t  BY <1>4, <1>6
<1>8. Beside(both)  BY <1>6
<1> HIDE DEF Left, Right, Beside, Paired
<1>9. Paired(Only(Left(both), v), Only(Right(both), w))  BY <1>3, <1>5, <1>8 DEF N
<1>10. Paired(Only(s, v), Only(t, w))  BY <1>7, <1>9
<1> QED  BY <1>10 DEF Paired

-----------------------------------------------------------------------------
(* Parts of a list, and lists one after the other.                         *)

\* A part of a list.
LEMMA PartFacts ==
  ASSUME NEW W, NEW s \in Seq(W), NEW m \in Nat \ {0}, NEW n \in Nat, m <= n, n <= Len(s)
  PROVE  /\ SubSeq(s, m, n) \in Seq(W) /\ Len(SubSeq(s, m, n)) = n - m + 1
         /\ \A i \in 1..n - m + 1 : SubSeq(s, m, n)[i] = s[m + i - 1]
<1>1. Len(s) \in Nat /\ \A i \in 1..Len(s) : s[i] \in W  BY LenProperties, ElementOfSeq
<1>2. m \in Int /\ n \in Int /\ \A i \in m..n : s[i] \in W  BY <1>1
<1> QED  BY <1>2, SubSeqProperties

\* A part of a part.
LEMMA PartOfPart ==
  ASSUME NEW W, NEW s \in Seq(W), NEW m \in Nat \ {0}, NEW n \in Nat, n <= Len(s),
         NEW i \in Nat \ {0}, NEW j \in Nat, i <= j, j <= n - m + 1, m <= n
  PROVE  SubSeq(SubSeq(s, m, n), i, j) = SubSeq(s, m + i - 1, m + j - 1)
<1> DEFINE a == SubSeq(s, m, n)
           b == SubSeq(a, i, j)
           d == SubSeq(s, m + i - 1, m + j - 1)
<1>1. /\ a \in Seq(W) /\ Len(a) = n - m + 1
      /\ \A k \in 1..n - m + 1 : a[k] = s[m + k - 1]
  BY PartFacts
<1> HIDE DEF a
<1>2. /\ b \in Seq(W) /\ Len(b) = j - i + 1 /\ \A k \in 1..j - i + 1 : b[k] = a[i + k - 1]
  BY <1>1, PartFacts
<1>3. /\ d \in Seq(W) /\ Len(d) = j - i + 1 /\ \A k \in 1..j - i + 1 : d[k] = s[m + i - 1 + k - 1]
  <2>1. /\ m + i - 1 \in Nat \ {0} /\ m + j - 1 \in Nat /\ m + i - 1 <= m + j - 1
        /\ m + j - 1 <= Len(s) /\ (m + j - 1) - (m + i - 1) + 1 = j - i + 1
    BY LenProperties
  <2> DEFINE x == m + i - 1
             y == m + j - 1
  <2> HIDE DEF x, y
  <2>2. x \in Nat \ {0} /\ y \in Nat /\ x <= y /\ y <= Len(s) /\ y - x + 1 = j - i + 1
    BY <2>1 DEF x, y
  <2>3. /\ SubSeq(s, x, y) \in Seq(W) /\ Len(SubSeq(s, x, y)) = y - x + 1
        /\ \A k \in 1..y - x + 1 : SubSeq(s, x, y)[k] = s[x + k - 1]
    <3> HIDE DEF b, d
    <3>1. \A u \in Nat \ {0} : \A v \in Nat : u <= v /\ v <= Len(s) =>
            /\ SubSeq(s, u, v) \in Seq(W) /\ Len(SubSeq(s, u, v)) = v - u + 1
            /\ \A k \in 1..v - u + 1 : SubSeq(s, u, v)[k] = s[u + k - 1]
      BY PartFacts
    <3> QED  BY <2>2, <3>1
  <2>4. d = SubSeq(s, x, y)  BY DEF x, y
  <2> HIDE DEF d
  <2>5. /\ d \in Seq(W) /\ Len(d) = j - i + 1 /\ \A k \in 1..j - i + 1 : d[k] = s[x + k - 1]
    BY <2>2, <2>3, <2>4
  <2> QED  BY <2>5 DEF x
<1> HIDE DEF b, d
<1>4. \A k \in 1..j - i + 1 : b[k] = d[k]
  <2> TAKE k \in 1..j - i + 1
  <2> DEFINE l == i + k - 1
  <2>1. l \in 1..n - m + 1 /\ m + l - 1 = m + i - 1 + k - 1  OBVIOUS
  <2> HIDE DEF l
  <2>2. a[l] = s[m + i - 1 + k - 1]  BY <1>1, <2>1
  <2>3. b[k] = a[l] /\ d[k] = s[m + i - 1 + k - 1]  BY <1>2, <1>3 DEF l
  <2> QED  BY <2>2, <2>3
<1>5. b = d  BY <1>2, <1>3, <1>4, SeqEqual
<1> QED  BY <1>5 DEF a, b, d

\* Two lists, one after the other, and their items.
Joined(W, all, s, t) ==
  /\ all \in Seq(W) /\ Len(s) \in Nat /\ Len(t) \in Nat /\ Len(all) = Len(s) + Len(t)
  /\ \A x \in 1..Len(s) : all[x] = s[x]
  /\ \A x \in 1..Len(t) : all[Len(s) + x] = t[x]

\* They are what \o makes of them.
LEMMA ConcatItems ==
  ASSUME NEW W, NEW s \in Seq(W), NEW t \in Seq(W), NEW all, all = s \o t
  PROVE  Joined(W, all, s, t)
<1>1. /\ all \in Seq(W) /\ Len(all) = Len(s) + Len(t)
      /\ \A x \in 1..Len(s) + Len(t) : all[x] = IF x <= Len(s) THEN s[x] ELSE t[x - Len(s)]
  BY ConcatProperties
<1>2. Len(s) \in Nat /\ Len(t) \in Nat  BY LenProperties
<1>3. \A x \in 1..Len(s) : x \in 1..Len(s) + Len(t) /\ x <= Len(s)  BY <1>2
<1>4. \A x \in 1..Len(t) : /\ Len(s) + x \in 1..Len(s) + Len(t) /\ ~(Len(s) + x <= Len(s))
                           /\ (Len(s) + x) - Len(s) = x
  BY <1>2
<1>5. \A x \in 1..Len(s) : all[x] = s[x]  BY <1>1, <1>3
<1>6. \A x \in 1..Len(t) : all[Len(s) + x] = t[x]  BY <1>1, <1>4
<1> QED  BY <1>1, <1>2, <1>5, <1>6 DEF Joined

\* What stands in the middle of three lists.
LEMMA MiddleOf ==
  ASSUME NEW W, NEW a \in Seq(W), NEW s \in Seq(W), NEW b \in Seq(W), NEW n \in Nat \ {0},
         Len(s) = n, NEW t, Joined(W, t, a, s), NEW all, Joined(W, all, t, b)
  PROVE  /\ Len(a) \in Nat /\ Len(a) + n <= Len(all)
         /\ SubSeq(all, Len(a) + 1, Len(a) + n) = s
<1> DEFINE k == Len(a)
<1>1. /\ t \in Seq(W) /\ Len(t) = k + n /\ k \in Nat
      /\ \A x \in 1..n : t[k + x] = s[x]
  BY DEF Joined
<1> HIDE DEF k
<1>2. /\ all \in Seq(W) /\ Len(all) = Len(t) + Len(b) /\ Len(b) \in Nat
      /\ \A x \in 1..Len(t) : all[x] = t[x]
  BY <1>1 DEF Joined
<1>3. DEFINE m == k + 1
             z == k + n
<1>4. m \in Nat \ {0} /\ z \in Nat /\ m <= z /\ z <= Len(all) /\ z - m + 1 = n
  BY <1>1, <1>2
<1> HIDE DEF m, z
<1>5. /\ SubSeq(all, m, z) \in Seq(W) /\ Len(SubSeq(all, m, z)) = z - m + 1
      /\ \A x \in 1..(z - m + 1) : SubSeq(all, m, z)[x] = all[m + x - 1]
  BY <1>2, <1>4, PartFacts
<1>6. \A x \in 1..n : m + x - 1 = k + x /\ k + x \in 1..Len(t)  BY <1>1 DEF m
<1>7. \A x \in 1..n : SubSeq(all, m, z)[x] = s[x]
  <2> SUFFICES ASSUME NEW x \in 1..n PROVE SubSeq(all, m, z)[x] = s[x]  OBVIOUS
  <2>1. SubSeq(all, m, z)[x] = all[m + x - 1]  BY <1>4, <1>5
  <2>2. all[k + x] = t[k + x] /\ t[k + x] = s[x]  BY <1>1, <1>2, <1>6
  <2> QED  BY <1>6, <2>1, <2>2
<1>8. SubSeq(all, m, z) = s  BY <1>4, <1>5, <1>7, SeqEqual
<1> QED  BY <1>1, <1>4, <1>8 DEF k, m, z

(* A text that is part of another one.                                     *)
Within(W, s, text) == \E a, b \in Seq(W) : text = (a \o s) \o b

\* A text is part of itself.
LEMMA WithinSelf == ASSUME NEW W, NEW s \in Seq(W) PROVE Within(W, s, s)
<1>1. <<>> \in Seq(W) /\ <<>> \o s = s /\ s \o <<>> = s  BY EmptySeq, ConcatEmptySeq
<1>2. s = (<<>> \o s) \o <<>>  BY <1>1
<1> QED  BY <1>1, <1>2 DEF Within

\* A part of a text is part of it with more behind.
LEMMA WithinLeft ==
  ASSUME NEW W, NEW s \in Seq(W), NEW t \in Seq(W), Within(W, s, t), NEW u \in Seq(W)
  PROVE  Within(W, s, t \o u)
<1>1. PICK a \in Seq(W), b \in Seq(W) : t = (a \o s) \o b  BY DEF Within
<1>2. a \o s \in Seq(W) /\ b \o u \in Seq(W)  BY ConcatProperties
<1>3. ((a \o s) \o b) \o u = (a \o s) \o (b \o u)  BY <1>2, ConcatAssociative, SMTT(30)
<1> QED  BY <1>1, <1>2, <1>3 DEF Within

\* How lists are grouped makes no difference.
LEMMA Regroup ==
  ASSUME NEW W, NEW x \in Seq(W), NEW a \in Seq(W), NEW s \in Seq(W), NEW b \in Seq(W)
  PROVE  x \o ((a \o s) \o b) = ((x \o a) \o s) \o b
<1>1. (x \o a) \o s = x \o (a \o s)  BY ConcatAssociative, SMTT(30)
<1>2. a \o s \in Seq(W)  BY ConcatProperties
<1>3. (x \o (a \o s)) \o b = x \o ((a \o s) \o b)  BY <1>2, ConcatAssociative, SMTT(30)
<1> QED  BY <1>1, <1>3

\* A part of a text is part of it with more before.
LEMMA WithinRight ==
  ASSUME NEW W, NEW s \in Seq(W), NEW t \in Seq(W), Within(W, s, t), NEW x \in Seq(W)
  PROVE  Within(W, s, x \o t)
<1>1. PICK a \in Seq(W), b \in Seq(W) : t = (a \o s) \o b  BY DEF Within
<1>2. x \o a \in Seq(W)  BY ConcatProperties
<1>3. x \o t = ((x \o a) \o s) \o b  BY <1>1, Regroup, SMTT(30)
<1> QED  BY <1>1, <1>2, <1>3 DEF Within

\* A part of a part is a part.
LEMMA WithinTwice ==
  ASSUME NEW W, NEW s \in Seq(W), NEW t \in Seq(W), NEW u, Within(W, s, t), Within(W, t, u)
  PROVE  Within(W, s, u)
<1>1. PICK a \in Seq(W), b \in Seq(W) : u = (a \o t) \o b  BY DEF Within
<1>2. Within(W, s, a \o t) /\ a \o t \in Seq(W)  BY WithinRight, ConcatProperties
<1> QED  BY <1>1, <1>2, WithinLeft

(* Each list is part of what they are flattened to.                        *)
LEMMA FlattenWithin ==
  ASSUME NEW W
  PROVE  \A f \in Seq(Seq(W)) : \A i \in DOMAIN f : Within(W, f[i], FlattenSeq(f))
<1> DEFINE N == {f \in Seq(Seq(W)) : \A i \in DOMAIN f : Within(W, f[i], FlattenSeq(f))}
<1>1. <<>> \in N  BY EmptySeq
<1>2. ASSUME NEW f \in Seq(Seq(W)), NEW e \in Seq(W), f \in N PROVE Append(f, e) \in N
  <2> DEFINE g == Append(f, e)
  <2>1. /\ g \in Seq(Seq(W)) /\ Len(g) = Len(f) + 1 /\ Len(f) \in Nat
        /\ g[Len(f) + 1] = e /\ \A i \in 1..Len(f) : g[i] = f[i]
        /\ DOMAIN f = 1..Len(f) /\ DOMAIN g = 1..Len(f)+1
    BY AppendProperties, LenProperties
  <2>2. FlattenSeq(g) = FlattenSeq(f) \o e /\ FlattenSeq(f) \in Seq(W)
    BY FlattenAppend, FlattenType
  <2> HIDE DEF g
  <2>3. ASSUME NEW i \in DOMAIN g PROVE Within(W, g[i], FlattenSeq(g))
    <3>1. CASE i = Len(f) + 1  BY <2>1, <2>2, <3>1, WithinSelf, WithinRight
    <3>2. CASE i # Len(f) + 1
      <4>1. i \in DOMAIN f /\ g[i] = f[i]  BY <2>1, <3>2
      <4>2. Within(W, f[i], FlattenSeq(f)) /\ f[i] \in Seq(W)  BY <1>2, <4>1, ElementOfSeq
      <4> QED  BY <2>2, <4>1, <4>2, WithinLeft
    <3> QED  BY <3>1, <3>2
  <2> QED  BY <2>1, <2>3 DEF g
<1> HIDE DEF N
<1>3. \A f \in Seq(Seq(W)) : f \in N  BY <1>1, <1>2, SequenceInduction
<1> QED  BY <1>3 DEF N

(* What stands between two places of a text is part of it.                 *)
LEMMA PartWithin ==
  ASSUME NEW W, NEW text \in Seq(W), NEW i \in Nat \ {0}, NEW j \in Nat, i <= j, j <= Len(text)
  PROVE  Within(W, SubSeq(text, i, j), text)
<1> DEFINE n == Len(text)
           s == SubSeq(text, i, j)
           a == [x \in 1..(i - 1) |-> text[x]]
           b == [x \in 1..(n - j) |-> text[j + x]]
           as == a \o s
           all == as \o b
<1>1. n \in Nat /\ \A x \in 1..n : text[x] \in W  BY LenProperties, ElementOfSeq
<1>2. i - 1 \in Nat /\ n - j \in Nat  BY <1>1
<1>3. a \in [1..(i - 1) -> W] /\ b \in [1..(n - j) -> W]  BY <1>1, <1>2
<1>4. a \in Seq(W) /\ Len(a) = i - 1 /\ \A x \in 1..(i - 1) : a[x] = text[x]
  BY <1>2, <1>3, FunctionIsSequence
<1>5. b \in Seq(W) /\ Len(b) = n - j /\ \A x \in 1..(n - j) : b[x] = text[j + x]
  BY <1>2, <1>3, FunctionIsSequence
<1>6. s \in Seq(W) /\ Len(s) = j - i + 1 /\ \A x \in 1..(j - i + 1) : s[x] = text[i + x - 1]
  BY PartFacts
<1> HIDE DEF a, b, s, n
<1>7. Joined(W, as, a, s)  BY <1>4, <1>6, ConcatItems
<1>8. as \in Seq(W) /\ Len(as) = j  BY <1>2, <1>4, <1>6, <1>7 DEF Joined
<1> HIDE DEF as
<1>9. Joined(W, all, as, b)  BY <1>5, <1>8, ConcatItems
<1> HIDE DEF all
<1>10. all \in Seq(W) /\ Len(all) = n  BY <1>1, <1>5, <1>8, <1>9 DEF Joined
<1>11. ASSUME NEW x \in 1..n PROVE all[x] = text[x]
  <2>1. CASE x <= i - 1
    <3>1. x \in 1..Len(a) /\ x \in 1..Len(as)  BY <1>1, <1>2, <1>4, <1>8, <2>1
    <3>2. all[x] = as[x] /\ as[x] = a[x]  BY <1>7, <1>9, <3>1 DEF Joined
    <3> QED  BY <1>4, <3>1, <3>2
  <2>2. CASE i <= x /\ x <= j
    <3> DEFINE y == x - (i - 1)
    <3>1. /\ y \in 1..Len(s) /\ Len(a) + y = x /\ x \in 1..Len(as) /\ i + y - 1 = x
          /\ y \in 1..(j - i + 1)
      BY <1>1, <1>4, <1>6, <1>8, <2>2
    <3> HIDE DEF y
    <3>2. all[x] = as[x] /\ as[Len(a) + y] = s[y]  BY <1>7, <1>9, <3>1 DEF Joined
    <3>3. s[y] = text[i + y - 1]  BY <1>6, <3>1
    <3> QED  BY <3>1, <3>2, <3>3
  <2>3. CASE j < x
    <3> DEFINE y == x - j
    <3>1. y \in 1..Len(b) /\ Len(as) + y = x /\ j + y = x  BY <1>1, <1>5, <1>8, <2>3
    <3> HIDE DEF y
    <3>2. all[Len(as) + y] = b[y]  BY <1>9, <3>1 DEF Joined
    <3>3. b[y] = text[j + y]  BY <1>5, <3>1
    <3> QED  BY <3>1, <3>2, <3>3
  <2> QED  BY <1>1, <2>1, <2>2, <2>3
<1>12. Len(all) = Len(text)  BY <1>10 DEF n
<1>13. \A x \in 1..Len(all) : all[x] = text[x]  BY <1>10, <1>11
<1>14. all = text  BY <1>10, <1>12, <1>13, SeqEqual
<1> QED  BY <1>4, <1>5, <1>14 DEF Within, all, as, s
=============================================================================
