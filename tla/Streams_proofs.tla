---------------------------- MODULE Streams_proofs ---------------------------
(***************************************************************************)
(* Proofs about the two streams: PiiStream, for texts of any length in any  *)
(* pieces and any bounds that hold a number, and SseRedactor, for any       *)
(* indices, any contents of chunks and streams of any length.               *)
(*                                                                         *)
(* The first part shows that a cut at an accepted position commutes with    *)
(* redaction (CutSafe): first for what one pattern matches on both sides,   *)
(* then for what each replaces, then for the three after one another.       *)
(***************************************************************************)
EXTENDS SseRedactor, PiiStream, SequenceLemmas, FiniteSetTheorems

-----------------------------------------------------------------------------
(* Recursion from the end of a text to its beginning.                      *)

\* What such a function says of itself, from k on.
Goes(f, k, n, V, last, next, step) ==
  /\ f \in [k..n + 1 -> V]
  /\ f[n + 1] = last
  /\ \A i \in k..n : f[i] = step[<<i, f[next[i]]>>]

\* It goes on to the position before.
LEMMA GoesExtended ==
  ASSUME NEW n \in Nat, NEW V, NEW last \in V,
         NEW next \in [1..n -> 1..n + 1], \A i \in 1..n : next[i] > i,
         NEW step \in [(1..n) \X V -> V],
         NEW k \in 1..n, NEW f, Goes(f, k + 1, n, V, last, next, step)
  PROVE  \E g : Goes(g, k, n, V, last, next, step)
<1> DEFINE v == step[<<k, f[next[k]]>>]
           g == [i \in k..n + 1 |-> IF i = k THEN v ELSE f[i]]
<1>1. /\ f \in [k + 1..n + 1 -> V] /\ f[n + 1] = last
      /\ \A i \in k + 1..n : f[i] = step[<<i, f[next[i]]>>]
  BY DEF Goes
<1>2. next[k] \in k + 1..n + 1  OBVIOUS
<1>3. v \in V
  <2>1. f[next[k]] \in V  BY <1>1, <1>2
  <2>2. <<k, f[next[k]]>> \in (1..n) \X V  BY <2>1
  <2> QED  BY <2>2
<1> HIDE DEF v
<1>4. g[k] = v /\ \A i \in k + 1..n + 1 : g[i] = f[i]  OBVIOUS
<1>5. g \in [k..n + 1 -> V]
  <2>1. \A i \in k..n + 1 : i = k \/ i \in k + 1..n + 1  OBVIOUS
  <2>2. \A i \in k..n + 1 : (IF i = k THEN v ELSE f[i]) \in V  BY <1>1, <1>3, <2>1
  <2> QED  BY <2>2
<1> HIDE DEF g
<1>6. g[n + 1] = last  BY <1>1, <1>4
<1>7. ASSUME NEW i \in k..n PROVE g[i] = step[<<i, g[next[i]]>>]
  <2>1. next[i] \in k + 1..n + 1  OBVIOUS
  <2>2. g[next[i]] = f[next[i]]  BY <1>4, <2>1
  <2>3. CASE i = k  BY <1>4, <2>2, <2>3 DEF v
  <2>4. CASE i \in k + 1..n  BY <1>1, <1>4, <2>2, <2>4
  <2> QED  BY <2>3, <2>4
<1> QED  BY <1>5, <1>6, <1>7 DEF Goes

\* So there is one.
LEMMA Backward ==
  ASSUME NEW n \in Nat, NEW V, NEW last \in V,
         NEW next \in [1..n -> 1..n + 1], \A i \in 1..n : next[i] > i,
         NEW step \in [(1..n) \X V -> V]
  PROVE  \E f : Goes(f, 1, n, V, last, next, step)
<1> DEFINE N == {k \in Nat : k <= n => \E f : Goes(f, n + 1 - k, n, V, last, next, step)}
<1>1. 0 \in N
  <2> DEFINE f == [i \in n + 1..n + 1 |-> last]
  <2>1. f \in [n + 1..n + 1 -> V] /\ f[n + 1] = last  OBVIOUS
  <2> HIDE DEF f
  <2>2. Goes(f, n + 1, n, V, last, next, step)  BY <2>1 DEF Goes
  <2>3. n + 1 - 0 = n + 1  OBVIOUS
  <2> QED  BY <2>2, <2>3
<1>2. ASSUME NEW k \in Nat, k \in N PROVE k + 1 \in N
  <2> SUFFICES ASSUME k + 1 <= n
               PROVE  \E f : Goes(f, n + 1 - (k + 1), n, V, last, next, step)
    OBVIOUS
  <2>1. n - k \in 1..n /\ n + 1 - k = (n - k) + 1 /\ n + 1 - (k + 1) = n - k  OBVIOUS
  <2>2. PICK f : Goes(f, (n - k) + 1, n, V, last, next, step)  BY <1>2, <2>1
  <2>3. \E g : Goes(g, n - k, n, V, last, next, step)  BY <2>1, <2>2, GoesExtended
  <2> QED  BY <2>1, <2>3
<1> HIDE DEF N
<1>3. n \in N  BY <1>1, <1>2, Induction
<1>4. n + 1 - n = 1  OBVIOUS
<1> QED  BY <1>3, <1>4 DEF N

-----------------------------------------------------------------------------
(* What find_iter finds, position by position.                             *)

PatternNames == {"email", "card", "bearer"}

\* A set of numbers below a bound that is not empty has a greatest one.
LEMMA MaxOf ==
  ASSUME NEW n \in Nat, NEW S, S \subseteq 0..n, S # {}
  PROVE  Max(S) \in S /\ \A x \in S : x <= Max(S)
<1> DEFINE T == {n - x : x \in S}
<1>1. T \subseteq Nat /\ T # {}
  <2>1. \A x \in S : x \in 0..n  OBVIOUS
  <2>2. \A x \in 0..n : n - x \in Nat  OBVIOUS
  <2>3. \A x \in S : n - x \in Nat  BY <2>1, <2>2
  <2> QED  BY <2>3
<1>2. PICK m \in T : \A k \in T : m <= k
  <2> HIDE DEF T
  <2> QED  BY <1>1, LeastNumber
<1>3. PICK y \in S : m = n - y  OBVIOUS
<1>4. ASSUME NEW x \in S PROVE y >= x
  <2>1. n - x \in T  OBVIOUS
  <2>2. n - y <= n - x  BY <1>2, <1>3, <2>1
  <2> QED  BY <2>2
<1>5. \E z \in S : \A x \in S : z >= x  BY <1>4
<1>6. Max(S) \in S /\ \A x \in S : Max(S) >= x  BY <1>5 DEF Max
<1>7. \A x \in S : x \in Int  OBVIOUS
<1> QED  BY <1>6, <1>7

\* Where matches end.
LEMMA EndsRange ==
  ASSUME NEW q, NEW t \in Seq(Characters), NEW i \in 1..Len(t)
  PROVE  /\ \A e \in Ends(q, t, i) : e \in i + 1..Len(t) + 1
         /\ Ends(q, t, i) # {} =>
              /\ Max(Ends(q, t, i)) \in Ends(q, t, i)
              /\ Max(Ends(q, t, i)) \in i + 1..Len(t) + 1
              /\ \A e \in Ends(q, t, i) : e <= Max(Ends(q, t, i))
<1>1. Len(t) \in Nat  BY LenProperties
<1>2. \A e \in Ends(q, t, i) : e \in i + 1..Len(t) + 1  BY DEF Ends
<1>3. Ends(q, t, i) \subseteq 0..Len(t) + 1  BY <1>1, <1>2
<1>4. Ends(q, t, i) # {} =>
        /\ Max(Ends(q, t, i)) \in Ends(q, t, i)
        /\ \A e \in Ends(q, t, i) : e <= Max(Ends(q, t, i))
  BY <1>1, <1>3, MaxOf
<1> QED  BY <1>2, <1>4

\* What the recursive function in Matches says of itself.
Found(f, q, t) ==
  /\ f \in [1..Len(t) + 1 -> SUBSET (Nat \X Nat)]
  /\ f[Len(t) + 1] = {}
  /\ \A i \in 1..Len(t) :
       /\ Ends(q, t, i) = {} => f[i] = f[i + 1]
       /\ Ends(q, t, i) # {} =>
            f[i] = {<<i, Max(Ends(q, t, i))>>} \cup f[Max(Ends(q, t, i))]

\* Where find_iter goes on.
Next(q, t) ==
  [i \in 1..Len(t) |-> IF Ends(q, t, i) = {} THEN i + 1 ELSE Max(Ends(q, t, i))]

\* It goes forward.
LEMMA NextType ==
  ASSUME NEW q, NEW t \in Seq(Characters)
  PROVE  /\ Len(t) \in Nat
         /\ Next(q, t) \in [1..Len(t) -> 1..Len(t) + 1]
         /\ \A i \in 1..Len(t) : Next(q, t)[i] > i
<1>1. Len(t) \in Nat  BY LenProperties
<1>2. ASSUME NEW i \in 1..Len(t)
      PROVE  (IF Ends(q, t, i) = {} THEN i + 1 ELSE Max(Ends(q, t, i))) \in i + 1..Len(t) + 1
  BY <1>1, EndsRange
<1>3. \A i \in 1..Len(t) : i + 1..Len(t) + 1 \subseteq 1..Len(t) + 1  BY <1>1
<1> QED  BY <1>1, <1>2, <1>3 DEF Next

\* There is such a function, and Matches is what it begins with.
LEMMA MatchesFound ==
  ASSUME NEW q, NEW t \in Seq(Characters)
  PROVE  \E f : Found(f, q, t) /\ Matches(q, t) = f[1]
<1> DEFINE n == Len(t)
           V == SUBSET (Nat \X Nat)
           Body(g, i) == IF i > Len(t) THEN {}
                         ELSE IF Ends(q, t, i) = {} THEN g[i + 1]
                         ELSE {<<i, Max(Ends(q, t, i))>>} \cup g[Max(Ends(q, t, i))]
           F == CHOOSE g : g = [i \in 1..(Len(t) + 1) |-> Body(g, i)]
           step == [z \in (1..n) \X V |->
                      IF Ends(q, t, z[1]) = {} THEN z[2]
                      ELSE {<<z[1], Max(Ends(q, t, z[1]))>>} \cup z[2]]
<1>1. n \in Nat  BY LenProperties
<1>2. step \in [(1..n) \X V -> V]
  <2>1. ASSUME NEW i \in 1..n, NEW v \in V
        PROVE  (IF Ends(q, t, i) = {} THEN v ELSE {<<i, Max(Ends(q, t, i))>>} \cup v) \in V
    <3>1. Ends(q, t, i) # {} => Max(Ends(q, t, i)) \in Nat  BY <1>1, EndsRange
    <3> QED  BY <1>1, <3>1
  <2>2. \A z \in (1..n) \X V : z[1] \in 1..n /\ z[2] \in V  OBVIOUS
  <2>3. ASSUME NEW z \in (1..n) \X V
        PROVE  (IF Ends(q, t, z[1]) = {} THEN z[2]
                ELSE {<<z[1], Max(Ends(q, t, z[1]))>>} \cup z[2]) \in V
    <3>1. z[1] \in 1..n /\ z[2] \in V  BY <2>2
    <3> HIDE DEF n, V
    <3> QED  BY <2>1, <3>1
  <2> HIDE DEF n, V
  <2> QED  BY <2>3, Zenon
<1>3. {} \in V  OBVIOUS
<1>4. /\ Next(q, t) \in [1..n -> 1..n + 1]
      /\ \A i \in 1..n : Next(q, t)[i] > i
  BY NextType
<1>5. ASSUME NEW i \in 1..n, NEW v \in V
      PROVE  step[<<i, v>>] =
               IF Ends(q, t, i) = {} THEN v ELSE {<<i, Max(Ends(q, t, i))>>} \cup v
  OBVIOUS
<1>6. \A i \in 1..n : Next(q, t)[i] = IF Ends(q, t, i) = {} THEN i + 1 ELSE Max(Ends(q, t, i))
  BY DEF Next
<1>7. PICK f : Goes(f, 1, n, V, {}, Next(q, t), step)
  <2> HIDE DEF n, V, step
  <2> QED  BY <1>1, <1>2, <1>3, <1>4, Backward
<1> HIDE DEF step
<1>8. /\ f \in [1..n + 1 -> V] /\ f[n + 1] = {}
      /\ \A i \in 1..n : f[i] = step[<<i, f[Next(q, t)[i]]>>]
  BY <1>7 DEF Goes
<1>9. ASSUME NEW i \in 1..n + 1 PROVE f[i] = Body(f, i)
  <2>1. CASE i = n + 1
    <3>1. i > Len(t) /\ f[i] = {}  BY <1>1, <1>8, <2>1
    <3> QED  BY <3>1
  <2>2. CASE i \in 1..n
    <3>1. Next(q, t)[i] \in 1..n + 1  BY <1>4, <2>2
    <3>2. f[Next(q, t)[i]] \in V  BY <1>8, <3>1
    <3>3. f[i] = step[<<i, f[Next(q, t)[i]]>>]  BY <1>8, <2>2
    <3>4. f[i] = IF Ends(q, t, i) = {} THEN f[Next(q, t)[i]]
                 ELSE {<<i, Max(Ends(q, t, i))>>} \cup f[Next(q, t)[i]]
      BY <1>5, <2>2, <3>2, <3>3
    <3>5. ~(i > n)  BY <1>1, <2>2
    <3> QED  BY <1>6, <2>2, <3>4, <3>5
  <2>3. i = n + 1 \/ i \in 1..n  BY <1>1
  <2> QED  BY <2>1, <2>2, <2>3
<1>10. f = [i \in 1..(Len(t) + 1) |-> Body(f, i)]
  <2>1. f = [i \in 1..n + 1 |-> f[i]]  BY <1>8
  <2> HIDE DEF Body
  <2> QED  BY <1>9, <2>1
<1>11. F = [i \in 1..(Len(t) + 1) |-> Body(F, i)]
  <2> HIDE DEF Body
  <2> QED  BY <1>10
<1>12. Matches(q, t) = F[1]  BY DEF Matches
<1> HIDE DEF F
<1>13. \A i \in 1..n + 1 : F[i] = Body(F, i)
  <2> HIDE DEF Body
  <2> QED  BY <1>11
<1>14. F[n + 1] = {}
  <2>1. n + 1 \in 1..n + 1 /\ n + 1 > Len(t)  BY <1>1
  <2>2. F[n + 1] = Body(F, n + 1)  BY <1>13, <2>1
  <2> QED  BY <2>1, <2>2
<1>15. ASSUME NEW i \in 1..n
       PROVE  /\ Ends(q, t, i) = {} => F[i] = F[i + 1]
              /\ Ends(q, t, i) # {} =>
                   F[i] = {<<i, Max(Ends(q, t, i))>>} \cup F[Max(Ends(q, t, i))]
  <2>1. i \in 1..n + 1 /\ ~(i > Len(t))  BY <1>1
  <2>2. F[i] = Body(F, i)  BY <1>13, <2>1
  <2> QED  BY <2>1, <2>2
<1> HIDE DEF Body
<1> DEFINE N == {k \in Nat : k <= n => \A i \in n + 1 - k..n + 1 : F[i] \in V}
<1>16. 0 \in N
  <2>1. \A i \in n + 1 - 0..n + 1 : i = n + 1  BY <1>1
  <2> QED  BY <1>1, <1>14, <2>1
<1>17. ASSUME NEW k \in Nat, k \in N PROVE k + 1 \in N
  <2> SUFFICES ASSUME k + 1 <= n, NEW i \in n + 1 - (k + 1)..n + 1 PROVE F[i] \in V
    OBVIOUS
  <2>1. \A j \in n + 1 - k..n + 1 : F[j] \in V  BY <1>1, <1>17
  <2>2. i \in n + 1 - k..n + 1 \/ (i = n - k /\ i \in 1..n)  BY <1>1
  <2>3. CASE i = n - k /\ i \in 1..n
    <3>1. i + 1 \in n + 1 - k..n + 1  BY <1>1, <2>3
    <3>2. Ends(q, t, i) # {} => Max(Ends(q, t, i)) \in n + 1 - k..n + 1
      <4>1. Ends(q, t, i) # {} => Max(Ends(q, t, i)) \in i + 1..n + 1  BY <2>3, EndsRange
      <4> QED  BY <1>1, <2>3, <4>1
    <3>3. Ends(q, t, i) # {} => <<i, Max(Ends(q, t, i))>> \in Nat \X Nat  BY <1>1, <2>3, <3>2
    <3>4. Ends(q, t, i) = {} => F[i] = F[i + 1]  BY <1>15, <2>3
    <3>5. Ends(q, t, i) # {} =>
            F[i] = {<<i, Max(Ends(q, t, i))>>} \cup F[Max(Ends(q, t, i))]
      BY <1>15, <2>3
    <3>6. CASE Ends(q, t, i) = {}  BY <2>1, <3>1, <3>4, <3>6
    <3>7. CASE Ends(q, t, i) # {}
      <4>1. F[Max(Ends(q, t, i))] \in V  BY <2>1, <3>2, <3>7
      <4> HIDE DEF n
      <4> QED  BY <3>3, <3>5, <3>7, <4>1
    <3> QED  BY <3>6, <3>7
  <2> QED  BY <2>1, <2>2, <2>3
<1> HIDE DEF N
<1>18. n \in N  BY <1>1, <1>16, <1>17, Induction
<1>19. \A i \in 1..n + 1 : F[i] \in V  BY <1>1, <1>18 DEF N
<1>20. F \in [1..n + 1 -> V]
  <2> HIDE DEF V
  <2>1. F = [i \in 1..n + 1 |-> Body(F, i)]  BY <1>11
  <2>2. \A i \in 1..n + 1 : Body(F, i) \in V  BY <1>13, <1>19
  <2> QED  BY <2>1, <2>2
<1>21. Found(F, q, t)  BY <1>14, <1>15, <1>20 DEF Found
<1> QED  BY <1>12, <1>21

\* What is found from a position on begins there or behind it, and is as long
\* as it gets.
LEMMA FoundRange ==
  ASSUME NEW q, NEW t \in Seq(Characters), NEW f, Found(f, q, t)
  PROVE  \A i \in 1..Len(t) + 1 : \A m \in f[i] :
           /\ m[1] \in i..Len(t) /\ m = <<m[1], m[2]>>
           /\ Ends(q, t, m[1]) # {} /\ m[2] = Max(Ends(q, t, m[1]))
<1> DEFINE n == Len(t)
           Good(i) == \A m \in f[i] :
                        /\ m[1] \in i..n /\ m = <<m[1], m[2]>>
                        /\ Ends(q, t, m[1]) # {} /\ m[2] = Max(Ends(q, t, m[1]))
           N == {k \in Nat : k <= n => \A i \in n + 1 - k..n + 1 : Good(i)}
<1>1. n \in Nat  BY LenProperties
<1>2. f[n + 1] = {}  BY DEF Found
<1>3. ASSUME NEW i \in 1..n
      PROVE  /\ Ends(q, t, i) = {} => f[i] = f[i + 1]
             /\ Ends(q, t, i) # {} =>
                  f[i] = {<<i, Max(Ends(q, t, i))>>} \cup f[Max(Ends(q, t, i))]
  BY DEF Found
<1>4. 0 \in N
  <2>1. \A i \in n + 1 - 0..n + 1 : i = n + 1  BY <1>1
  <2>2. Good(n + 1)  BY <1>2
  <2> HIDE DEF Good
  <2> QED  BY <1>1, <2>1, <2>2
<1>5. ASSUME NEW k \in Nat, k \in N PROVE k + 1 \in N
  <2> SUFFICES ASSUME k + 1 <= n, NEW i \in n + 1 - (k + 1)..n + 1 PROVE Good(i)
    BY DEF N
  <2>1. \A j \in n + 1 - k..n + 1 : Good(j)
    <3> HIDE DEF Good
    <3> QED  BY <1>1, <1>5
  <2>2. i \in n + 1 - k..n + 1 \/ (i = n - k /\ i \in 1..n)  BY <1>1
  <2>3. CASE i = n - k /\ i \in 1..n
    <3>1. CASE Ends(q, t, i) = {}
      <4>1. i + 1 \in n + 1 - k..n + 1 /\ i + 1..n \subseteq i..n  BY <1>1, <2>3
      <4>2. f[i] = f[i + 1]  BY <1>3, <2>3, <3>1
      <4>3. Good(i + 1)  BY <2>1, <4>1
      <4> QED  BY <4>1, <4>2, <4>3
    <3>2. CASE Ends(q, t, i) # {}
      <4> DEFINE e == Max(Ends(q, t, i))
      <4>1. e \in i + 1..n + 1  BY <2>3, <3>2, EndsRange
      <4>2. f[i] = {<<i, e>>} \cup f[e]  BY <1>3, <2>3, <3>2
      <4>3. e \in n + 1 - k..n + 1 /\ e..n \subseteq i..n  BY <1>1, <2>3, <4>1
      <4>4. Good(e)
        <5> HIDE DEF Good, e
        <5> QED  BY <2>1, <4>3
      <4>5. i \in i..n  BY <1>1, <2>3
      <4> QED  BY <3>2, <4>2, <4>3, <4>4, <4>5
    <3> QED  BY <3>1, <3>2
  <2> HIDE DEF Good
  <2> QED  BY <2>1, <2>2, <2>3
<1> HIDE DEF N
<1>6. n \in N  BY <1>1, <1>4, <1>5, Induction
<1>7. \A i \in 1..n + 1 : Good(i)
  <2> HIDE DEF Good
  <2> QED  BY <1>1, <1>6 DEF N
<1> QED  BY <1>7

\* No match that begins before k gets beyond it.
Stops(q, t, k) == \A i \in 1..k - 1 : \A e \in Ends(q, t, i) : e <= k

\* Such a position is reached.
LEMMA FoundReached ==
  ASSUME NEW q, NEW t \in Seq(Characters), NEW f, Found(f, q, t),
         NEW k \in 1..Len(t) + 1, Stops(q, t, k)
  PROVE  f[k] \subseteq f[1] /\ \A m \in f[1] : m[1] >= k => m \in f[k]
<1> DEFINE n == Len(t)
           Good(i) == f[k] \subseteq f[i] /\ \A m \in f[i] : m[1] >= k => m \in f[k]
           N == {j \in Nat : j < k => \A i \in k - j..k : Good(i)}
<1>1. n \in Nat /\ k \in Nat  BY LenProperties
<1>7. \A i \in 1..k - 1 : \A e \in Ends(q, t, i) : e <= k  BY DEF Stops
<1>2. ASSUME NEW i \in 1..n
      PROVE  /\ Ends(q, t, i) = {} => f[i] = f[i + 1]
             /\ Ends(q, t, i) # {} =>
                  f[i] = {<<i, Max(Ends(q, t, i))>>} \cup f[Max(Ends(q, t, i))]
  BY DEF Found
<1>3. 0 \in N
  <2>1. \A i \in k - 0..k : i = k  BY <1>1
  <2>2. Good(k)  OBVIOUS
  <2> HIDE DEF Good
  <2> QED  BY <1>1, <2>1, <2>2
<1>4. ASSUME NEW j \in Nat, j \in N PROVE j + 1 \in N
  <2> SUFFICES ASSUME j + 1 < k, NEW i \in k - (j + 1)..k PROVE Good(i)
    BY DEF N
  <2>1. \A l \in k - j..k : Good(l)
    <3> HIDE DEF Good
    <3> QED  BY <1>1, <1>4
  <2>2. i \in k - j..k \/ (i = k - j - 1 /\ i \in 1..n /\ i \in 1..k - 1)  BY <1>1
  <2>3. CASE i = k - j - 1 /\ i \in 1..n /\ i \in 1..k - 1
    <3>1. CASE Ends(q, t, i) = {}
      <4>1. i + 1 \in k - j..k  BY <1>1, <2>3
      <4>2. f[i] = f[i + 1]  BY <1>2, <2>3, <3>1
      <4>3. Good(i + 1)  BY <2>1, <4>1
      <4> QED  BY <4>2, <4>3
    <3>2. CASE Ends(q, t, i) # {}
      <4> DEFINE e == Max(Ends(q, t, i))
      <4>1. e \in i + 1..n + 1 /\ e \in Ends(q, t, i)  BY <2>3, <3>2, EndsRange
      <4>2. f[i] = {<<i, e>>} \cup f[e]  BY <1>2, <2>3, <3>2
      <4>3. e <= k  BY <1>7, <2>3, <4>1
      <4>4. e \in k - j..k /\ ~(i >= k)  BY <1>1, <2>3, <4>1, <4>3
      <4>5. Good(e)
        <5> HIDE DEF Good, e
        <5> QED  BY <2>1, <4>4
      <4> HIDE DEF e
      <4> QED  BY <4>2, <4>4, <4>5
    <3> QED  BY <3>1, <3>2
  <2> HIDE DEF Good
  <2> QED  BY <2>1, <2>2, <2>3
<1> HIDE DEF N
<1>5. k - 1 \in N  BY <1>1, <1>3, <1>4, Induction
<1>6. \A i \in 1..k : Good(i)
  <2> HIDE DEF Good
  <2>1. k - 1 < k /\ k - (k - 1) = 1  BY <1>1
  <2>2. \A i \in k - (k - 1)..k : Good(i)  BY <1>5, <2>1 DEF N
  <2> QED  BY <2>1, <2>2
<1> QED  BY <1>1, <1>6

\* What find_iter finds is a match, as long as it gets.
LEMMA MatchesRange ==
  ASSUME NEW q, NEW t \in Seq(Characters), NEW m \in Matches(q, t)
  PROVE  /\ m[1] \in 1..Len(t) /\ m[2] \in m[1] + 1..Len(t) + 1
         /\ m = <<m[1], m[2]>> /\ m[2] \in Ends(q, t, m[1])
         /\ m[2] = Max(Ends(q, t, m[1]))
         /\ \A e \in Ends(q, t, m[1]) : e <= m[2]
<1>1. PICK f : Found(f, q, t) /\ Matches(q, t) = f[1]  BY MatchesFound
<1>2. Len(t) \in Nat /\ 1 \in 1..Len(t) + 1  BY LenProperties
<1>3. /\ m[1] \in 1..Len(t) /\ m = <<m[1], m[2]>>
      /\ Ends(q, t, m[1]) # {} /\ m[2] = Max(Ends(q, t, m[1]))
  <2>1. \A i \in 1..Len(t) + 1 : \A l \in f[i] :
          /\ l[1] \in i..Len(t) /\ l = <<l[1], l[2]>>
          /\ Ends(q, t, l[1]) # {} /\ l[2] = Max(Ends(q, t, l[1]))
    BY <1>1, FoundRange
  <2>2. m \in f[1]  BY <1>1
  <2> QED  BY <1>2, <2>1, <2>2
<1>4. \A i \in 1..Len(t) :
        Ends(q, t, i) # {} =>
          /\ Max(Ends(q, t, i)) \in Ends(q, t, i)
          /\ Max(Ends(q, t, i)) \in i + 1..Len(t) + 1
          /\ \A e \in Ends(q, t, i) : e <= Max(Ends(q, t, i))
  BY EndsRange
<1> QED  BY <1>3, <1>4

\* A match that nothing before it gets beyond is found.
LEMMA MatchesReached ==
  ASSUME NEW q, NEW t \in Seq(Characters), NEW k \in 1..Len(t),
         \A i \in 1..k - 1 : \A e \in Ends(q, t, i) : e <= k,
         Ends(q, t, k) # {}
  PROVE  <<k, Max(Ends(q, t, k))>> \in Matches(q, t)
<1>1. PICK f : Found(f, q, t) /\ Matches(q, t) = f[1]  BY MatchesFound
<1>2. Len(t) \in Nat /\ 1 \in 1..k /\ k \in 1..Len(t) + 1  BY LenProperties
<1>3. f[k] \subseteq f[1]
  <2>1. Stops(q, t, k)  BY DEF Stops
  <2> QED  BY <1>1, <1>2, <2>1, FoundReached
<1>4. f[k] = {<<k, Max(Ends(q, t, k))>>} \cup f[Max(Ends(q, t, k))]  BY <1>1 DEF Found
<1> QED  BY <1>1, <1>3, <1>4

-----------------------------------------------------------------------------
(* What is put in the place of the matches.                                *)

\* The matches that are replaced.
Valid(q, t) ==
  {m \in Matches(q, t) : q = "card" => LuhnValid(SubSeq(t, m[1], m[2] - 1))}

Begins(q, t, i) == \E m \in Valid(q, t) : m[1] = i

\* What the recursive function in Replaced says of itself.
Written(r, q, t) ==
  /\ r \in [1..Len(t) + 1 -> Seq(Characters)]
  /\ r[Len(t) + 1] = <<>>
  /\ \A i \in 1..Len(t) :
       /\ ~Begins(q, t, i) => r[i] = <<t[i]>> \o r[i + 1]
       /\ Begins(q, t, i) =>
            /\ Max(Ends(q, t, i)) \in i + 1..Len(t) + 1
            /\ r[i] = <<"#">> \o r[Max(Ends(q, t, i))]

\* There is such a function, and Replaced is what it begins with.
LEMMA ReplacedWritten ==
  ASSUME NEW q, NEW t \in Seq(Characters)
  PROVE  \E r : Written(r, q, t) /\ Replaced(q, t) = r[1]
<1> DEFINE n == Len(t)
           V == Seq(Characters)
           valid == Valid(q, t)
           Behind(i) == (CHOOSE m \in valid : m[1] = i)[2]
           Body(g, i) == IF i > Len(t) THEN <<>>
                         ELSE IF \E m \in valid : m[1] = i THEN <<"#">> \o g[Behind(i)]
                         ELSE <<t[i]>> \o g[i + 1]
           F == CHOOSE g : g = [i \in 1..(Len(t) + 1) |-> Body(g, i)]
           next == [i \in 1..n |-> IF Begins(q, t, i) THEN Max(Ends(q, t, i)) ELSE i + 1]
           step == [z \in (1..n) \X V |->
                      IF Begins(q, t, z[1]) THEN <<"#">> \o z[2] ELSE <<t[z[1]]>> \o z[2]]
<1>1. n \in Nat /\ \A i \in 1..n : t[i] \in Characters  BY LenProperties, ElementOfSeq
<1>2. ASSUME NEW i \in 1..n, Begins(q, t, i)
      PROVE  Max(Ends(q, t, i)) \in i + 1..n + 1 /\ Behind(i) = Max(Ends(q, t, i))
  <2>1. ASSUME NEW m \in Matches(q, t), m[1] = i
        PROVE  m[2] = Max(Ends(q, t, i)) /\ m[2] \in i + 1..n + 1
    BY <2>1, MatchesRange
  <2>2. valid \subseteq Matches(q, t) /\ \E m \in valid : m[1] = i  BY <1>2 DEF Begins, Valid
  <2> HIDE DEF valid
  <2>3. (CHOOSE m \in valid : m[1] = i) \in valid /\ (CHOOSE m \in valid : m[1] = i)[1] = i
    BY <2>2
  <2> QED  BY <2>1, <2>2, <2>3
<1>3. \A i \in 1..n : Begins(q, t, i) <=> \E m \in valid : m[1] = i  BY DEF Begins
<1> HIDE DEF valid, Behind
<1>4. ASSUME NEW i \in 1..n, NEW v \in V
      PROVE  <<"#">> \o v \in V /\ <<t[i]>> \o v \in V
  <2>1. "#" \in Characters /\ t[i] \in Characters  BY <1>1 DEF Characters
  <2>2. <<"#">> \in V /\ <<t[i]>> \in V  BY <2>1
  <2> QED  BY <2>2, ConcatProperties
<1>5. step \in [(1..n) \X V -> V]
  <2>1. ASSUME NEW z \in (1..n) \X V
        PROVE  (IF Begins(q, t, z[1]) THEN <<"#">> \o z[2] ELSE <<t[z[1]]>> \o z[2]) \in V
    <3>1. z[1] \in 1..n /\ z[2] \in V  OBVIOUS
    <3> HIDE DEF n, V
    <3> QED  BY <1>4, <3>1
  <2> HIDE DEF n, V
  <2> QED  BY <2>1, Zenon
<1>6. next \in [1..n -> 1..n + 1] /\ \A i \in 1..n : next[i] > i
  <2>1. ASSUME NEW i \in 1..n
        PROVE  (IF Begins(q, t, i) THEN Max(Ends(q, t, i)) ELSE i + 1) \in i + 1..n + 1
    BY <1>1, <1>2
  <2>2. \A i \in 1..n : i + 1..n + 1 \subseteq 1..n + 1  BY <1>1
  <2> QED  BY <1>1, <2>1, <2>2
<1>7. \A i \in 1..n : next[i] = IF Begins(q, t, i) THEN Max(Ends(q, t, i)) ELSE i + 1
  OBVIOUS
<1>8. \A i \in 1..n : \A v \in V :
        step[<<i, v>>] = IF Begins(q, t, i) THEN <<"#">> \o v ELSE <<t[i]>> \o v
  OBVIOUS
<1>9. <<>> \in V  OBVIOUS
<1> HIDE DEF step, next
<1>10. PICK f : Goes(f, 1, n, V, <<>>, next, step)
  <2> HIDE DEF n, V
  <2> QED  BY <1>1, <1>5, <1>6, <1>9, Backward
<1>11. /\ f \in [1..n + 1 -> V] /\ f[n + 1] = <<>>
       /\ \A i \in 1..n : f[i] = step[<<i, f[next[i]]>>]
  BY <1>10 DEF Goes
<1>12. ASSUME NEW i \in 1..n + 1 PROVE f[i] = Body(f, i)
  <2>1. CASE i = n + 1
    <3>1. i > Len(t) /\ f[i] = <<>>  BY <1>1, <1>11, <2>1
    <3> QED  BY <3>1
  <2>2. CASE i \in 1..n
    <3>1. next[i] \in 1..n + 1  BY <1>6, <2>2
    <3>2. f[next[i]] \in V  BY <1>11, <3>1
    <3>3. f[i] = step[<<i, f[next[i]]>>]  BY <1>11, <2>2
    <3>4. f[i] = IF Begins(q, t, i) THEN <<"#">> \o f[next[i]] ELSE <<t[i]>> \o f[next[i]]
      BY <1>8, <2>2, <3>2, <3>3
    <3>5. ~(i > n)  BY <1>1, <2>2
    <3>6. CASE Begins(q, t, i)
      <4>1. next[i] = Behind(i)  BY <1>2, <1>7, <2>2, <3>6
      <4>2. \E m \in valid : m[1] = i  BY <1>3, <2>2, <3>6
      <4> QED  BY <3>4, <3>5, <3>6, <4>1, <4>2
    <3>7. CASE ~Begins(q, t, i)
      <4>1. next[i] = i + 1  BY <1>7, <2>2, <3>7
      <4>2. ~\E m \in valid : m[1] = i  BY <1>3, <2>2, <3>7
      <4> QED  BY <3>4, <3>5, <3>7, <4>1, <4>2
    <3> QED  BY <3>6, <3>7
  <2>3. i = n + 1 \/ i \in 1..n  BY <1>1
  <2> QED  BY <2>1, <2>2, <2>3
<1>13. f = [i \in 1..(Len(t) + 1) |-> Body(f, i)]
  <2>1. f = [i \in 1..n + 1 |-> f[i]]  BY <1>11
  <2> HIDE DEF Body
  <2> QED  BY <1>12, <2>1
<1>14. F = [i \in 1..(Len(t) + 1) |-> Body(F, i)]
  <2> HIDE DEF Body
  <2> QED  BY <1>13
<1>15. Replaced(q, t) = F[1]  BY DEF Replaced, valid, Valid, Behind
<1> HIDE DEF F
<1>16. \A i \in 1..n + 1 : F[i] = Body(F, i)
  <2> HIDE DEF Body
  <2> QED  BY <1>14
<1>17. F[n + 1] = <<>>
  <2>1. n + 1 \in 1..n + 1 /\ n + 1 > Len(t)  BY <1>1
  <2>2. F[n + 1] = Body(F, n + 1)  BY <1>16, <2>1
  <2> QED  BY <2>1, <2>2
<1>18. ASSUME NEW i \in 1..n
       PROVE  /\ ~Begins(q, t, i) => F[i] = <<t[i]>> \o F[i + 1]
              /\ Begins(q, t, i) =>
                   /\ Max(Ends(q, t, i)) \in i + 1..n + 1
                   /\ F[i] = <<"#">> \o F[Max(Ends(q, t, i))]
  <2>1. i \in 1..n + 1 /\ ~(i > Len(t))  BY <1>1
  <2>2. F[i] = Body(F, i)  BY <1>16, <2>1
  <2>3. CASE Begins(q, t, i)
    <3>1. \E m \in valid : m[1] = i  BY <1>3, <2>3
    <3>2. F[i] = <<"#">> \o F[Behind(i)]  BY <2>1, <2>2, <3>1
    <3> QED  BY <1>2, <2>3, <3>2
  <2>4. CASE ~Begins(q, t, i)
    <3>1. ~\E m \in valid : m[1] = i  BY <1>3, <2>4
    <3>2. F[i] = <<t[i]>> \o F[i + 1]  BY <2>1, <2>2, <3>1
    <3> QED  BY <2>4, <3>2
  <2> QED  BY <2>3, <2>4
<1> DEFINE N == {k \in Nat : k <= n => \A i \in n + 1 - k..n + 1 : F[i] \in V}
<1>19. 0 \in N
  <2>1. \A i \in n + 1 - 0..n + 1 : i = n + 1  BY <1>1
  <2> QED  BY <1>1, <1>9, <1>17, <2>1
<1> HIDE DEF Body, V
<1>20. ASSUME NEW k \in Nat, k \in N PROVE k + 1 \in N
  <2> SUFFICES ASSUME k + 1 <= n, NEW i \in n + 1 - (k + 1)..n + 1 PROVE F[i] \in V
    OBVIOUS
  <2>1. \A j \in n + 1 - k..n + 1 : F[j] \in V  BY <1>1, <1>20
  <2>2. i \in n + 1 - k..n + 1 \/ (i = n - k /\ i \in 1..n)  BY <1>1
  <2>3. CASE i = n - k /\ i \in 1..n
    <3>1. CASE Begins(q, t, i)
      <4>1. Max(Ends(q, t, i)) \in n + 1 - k..n + 1
        <5>1. Max(Ends(q, t, i)) \in i + 1..n + 1  BY <1>18, <2>3, <3>1
        <5> QED  BY <1>1, <2>3, <5>1
      <4>2. F[Max(Ends(q, t, i))] \in V  BY <2>1, <4>1
      <4>3. F[i] = <<"#">> \o F[Max(Ends(q, t, i))]  BY <1>18, <2>3, <3>1
      <4> QED  BY <1>4, <2>3, <4>2, <4>3
    <3>2. CASE ~Begins(q, t, i)
      <4>1. i + 1 \in n + 1 - k..n + 1  BY <1>1, <2>3
      <4>2. F[i + 1] \in V  BY <2>1, <4>1
      <4>3. F[i] = <<t[i]>> \o F[i + 1]  BY <1>18, <2>3, <3>2
      <4> QED  BY <1>4, <2>3, <4>2, <4>3
    <3> QED  BY <3>1, <3>2
  <2> QED  BY <2>1, <2>2, <2>3
<1> HIDE DEF N
<1>21. n \in N  BY <1>1, <1>19, <1>20, Induction
<1>22. \A i \in 1..n + 1 : F[i] \in V  BY <1>1, <1>21 DEF N
<1>23. F \in [1..n + 1 -> V]
  <2>1. \A i \in 1..n + 1 : Body(F, i) \in V  BY <1>16, <1>22
  <2> QED  BY <1>14, <2>1
<1>24. Written(F, q, t)  BY <1>17, <1>18, <1>23 DEF Written, V
<1> QED  BY <1>15, <1>24

\* It is a text again.
LEMMA ReplacedType ==
  ASSUME NEW q, NEW t \in Seq(Characters)
  PROVE  Replaced(q, t) \in Seq(Characters)
<1>1. PICK r : Written(r, q, t) /\ Replaced(q, t) = r[1]  BY ReplacedWritten
<1>2. 1 \in 1..Len(t) + 1  BY LenProperties
<1> QED  BY <1>1, <1>2 DEF Written

-----------------------------------------------------------------------------
(* What the patterns describe, position by position.                       *)

\* The characters of a match.
LEMMA MatchText ==
  ASSUME NEW t \in Seq(Characters), NEW i \in 1..Len(t), NEW e \in i + 1..Len(t) + 1
  PROVE  /\ SubSeq(t, i, e - 1) \in Seq(Characters) /\ Len(SubSeq(t, i, e - 1)) = e - i
         /\ \A j \in 1..e - i : SubSeq(t, i, e - 1)[j] = t[i + j - 1]
<1>1. Len(t) \in Nat  BY LenProperties
<1>2. i \in Nat \ {0} /\ e - 1 \in Nat /\ i <= e - 1 /\ e - 1 <= Len(t)  BY <1>1
<1>3. (e - 1) - i + 1 = e - i  BY <1>1
<1> DEFINE l == e - 1
<1>4. l \in Nat /\ i <= l /\ l <= Len(t) /\ l - i + 1 = e - i  BY <1>2, <1>3
<1> HIDE DEF l
<1>5. /\ SubSeq(t, i, l) \in Seq(Characters) /\ Len(SubSeq(t, i, l)) = l - i + 1
      /\ \A j \in 1..l - i + 1 : SubSeq(t, i, l)[j] = t[i + j - 1]
  BY <1>2, <1>4, PartFacts
<1> QED  BY <1>4, <1>5 DEF l

\* All characters of a part.
LEMMA AllPart ==
  ASSUME NEW w \in Seq(Characters), NEW m \in Nat \ {0}, NEW n \in Nat, n <= Len(w), NEW S
  PROVE  MadeOf(SubSeq(w, m, n), S) <=> \A j \in m..n : w[j] \in S
<1>1. Len(w) \in Nat /\ \A j \in 1..Len(w) : w[j] \in Characters
  BY LenProperties, ElementOfSeq
<1> DEFINE u == SubSeq(w, m, n)
<1>2. /\ u \in Seq(Characters) /\ Len(u) = IF m <= n THEN n - m + 1 ELSE 0
      /\ \A i \in 1..n - m + 1 : u[i] = w[m + i - 1]
  <2>1. m \in Int /\ n \in Int /\ \A j \in m..n : w[j] \in Characters  BY <1>1
  <2> QED  BY <2>1, SubSeqProperties
<1>3. DOMAIN u = 1..Len(u)  BY <1>2, LenProperties
<1> HIDE DEF u
<1>4. DOMAIN u = 1..n - m + 1  BY <1>2, <1>3
<1>5. ASSUME MadeOf(u, S), NEW j \in m..n PROVE w[j] \in S
  <2>1. j - m + 1 \in 1..n - m + 1 /\ m + (j - m + 1) - 1 = j  OBVIOUS
  <2>2. u[j - m + 1] = w[m + (j - m + 1) - 1]  BY <1>2, <2>1
  <2>3. u[j - m + 1] \in S  BY <1>4, <1>5, <2>1 DEF MadeOf
  <2> QED  BY <2>1, <2>2, <2>3
<1>6. ASSUME \A j \in m..n : w[j] \in S, NEW i \in 1..n - m + 1 PROVE u[i] \in S
  <2>1. m + i - 1 \in m..n  OBVIOUS
  <2> QED  BY <1>2, <1>6, <2>1
<1> QED  BY <1>4, <1>5, <1>6 DEF MadeOf, u

\* An e-mail address.
LEMMA EmailEnds ==
  ASSUME NEW t \in Seq(Characters), NEW i \in 1..Len(t), NEW e \in i + 1..Len(t) + 1
  PROVE  e \in Ends("email", t, i) <=>
           \E k \in i + 1..e - 2 :
             /\ t[k] = "@"
             /\ \A j \in i..k - 1 : t[j] \in {"d", "t"}
             /\ \A j \in k + 1..e - 1 : t[j] = "t"
<1> DEFINE w == SubSeq(t, i, e - 1)
           Here(k) == /\ w[k] = "@" /\ MadeOf(SubSeq(w, 1, k - 1), {"d", "t"})
                      /\ MadeOf(SubSeq(w, k + 1, Len(w)), {"t"})
           There(k) == /\ t[k] = "@"
                       /\ \A j \in i..k - 1 : t[j] \in {"d", "t"}
                       /\ \A j \in k + 1..e - 1 : t[j] = "t"
<1>1. Len(t) \in Nat /\ i \in Nat /\ e \in Nat  BY LenProperties
<1>2. /\ w \in Seq(Characters) /\ Len(w) = e - i /\ \A j \in 1..e - i : w[j] = t[i + j - 1]
  BY MatchText
<1>3. e \in Ends("email", t, i) <=> Describes("email", w)  BY DEF Ends
<1>4. Describes("email", w) <=> \E k \in 2..(Len(w) - 1) : Here(k)  BY DEF Describes
<1> HIDE DEF w
<1>5. ASSUME NEW k \in 2..(e - i) - 1 PROVE Here(k) <=> There(i + k - 1)
  <2>1. w[k] = t[i + k - 1]  BY <1>1, <1>2
  <2>2. MadeOf(SubSeq(w, 1, k - 1), {"d", "t"}) <=> \A j \in 1..k - 1 : w[j] \in {"d", "t"}
    <3>1. 1 \in Nat \ {0} /\ k - 1 \in Nat /\ k - 1 <= Len(w)  BY <1>1, <1>2
    <3> QED  BY <1>2, <3>1, AllPart
  <2>3. MadeOf(SubSeq(w, k + 1, Len(w)), {"t"}) <=> \A j \in k + 1..Len(w) : w[j] \in {"t"}
    <3>1. k + 1 \in Nat \ {0} /\ Len(w) \in Nat /\ Len(w) <= Len(w)  BY <1>1, <1>2
    <3> QED  BY <1>2, <3>1, AllPart
  <2>4. (\A j \in 1..k - 1 : w[j] \in {"d", "t"}) <=> \A j \in i..i + k - 2 : t[j] \in {"d", "t"}
    <3>1. \A j \in 1..k - 1 : w[j] = t[i + j - 1] /\ i + j - 1 \in i..i + k - 2  BY <1>1, <1>2
    <3>2. \A j \in i..i + k - 2 : j - i + 1 \in 1..k - 1 /\ i + (j - i + 1) - 1 = j  BY <1>1
    <3> QED  BY <3>1, <3>2
  <2>5. (\A j \in k + 1..Len(w) : w[j] \in {"t"}) <=> \A j \in i + k..e - 1 : t[j] = "t"
    <3>1. \A j \in k + 1..Len(w) : w[j] = t[i + j - 1] /\ i + j - 1 \in i + k..e - 1
      BY <1>1, <1>2
    <3>2. \A j \in i + k..e - 1 : j - i + 1 \in k + 1..Len(w) /\ i + (j - i + 1) - 1 = j
      BY <1>1, <1>2
    <3> QED  BY <3>1, <3>2
  <2>6. (i + k - 1) - 1 = i + k - 2 /\ (i + k - 1) + 1 = i + k  BY <1>1
  <2> QED  BY <2>1, <2>2, <2>3, <2>4, <2>5, <2>6
<1> HIDE DEF Here, There
<1>6. ASSUME NEW k \in 2..(Len(w) - 1), Here(k) PROVE \E l \in i + 1..e - 2 : There(l)
  <2>1. k \in 2..(e - i) - 1 /\ i + k - 1 \in i + 1..e - 2  BY <1>1, <1>2
  <2> QED  BY <1>5, <1>6, <2>1
<1>7. ASSUME NEW l \in i + 1..e - 2, There(l) PROVE \E k \in 2..(Len(w) - 1) : Here(k)
  <2>1. l - i + 1 \in 2..(e - i) - 1 /\ i + (l - i + 1) - 1 = l /\ Len(w) - 1 = (e - i) - 1
    BY <1>1, <1>2
  <2>2. There(i + (l - i + 1) - 1)  BY <1>7, <2>1
  <2>3. Here(l - i + 1)  BY <1>5, <2>1, <2>2
  <2> QED  BY <2>1, <2>3
<1>8. e \in Ends("email", t, i) <=> \E k \in i + 1..e - 2 : There(k)
  BY <1>3, <1>4, <1>6, <1>7
<1> QED  BY <1>8 DEF There

\* A token behind the word Bearer.
LEMMA BearerEnds ==
  ASSUME NEW t \in Seq(Characters), NEW i \in 1..Len(t), NEW e \in i + 1..Len(t) + 1
  PROVE  e \in Ends("bearer", t, i) <=>
           /\ t[i] = "B"
           /\ \E k \in i + 1..e - 3 :
                /\ \A j \in i + 1..k : t[j] = " "
                /\ \A j \in k + 1..e - 1 : t[j] \in {"d", "t"}
<1> DEFINE w == SubSeq(t, i, e - 1)
           Here(k) == /\ MadeOf(SubSeq(w, 2, k), {" "}) /\ MadeOf(SubSeq(w, k + 1, Len(w)), {"d", "t"})
           There(k) == /\ \A j \in i + 1..k : t[j] = " "
                       /\ \A j \in k + 1..e - 1 : t[j] \in {"d", "t"}
<1>1. Len(t) \in Nat /\ i \in Nat /\ e \in Nat  BY LenProperties
<1>2. /\ w \in Seq(Characters) /\ Len(w) = e - i /\ \A j \in 1..e - i : w[j] = t[i + j - 1]
  BY MatchText
<1>3. e \in Ends("bearer", t, i) <=> Describes("bearer", w)  BY DEF Ends
<1>4. Describes("bearer", w) <=> w[1] = "B" /\ \E k \in 2..(Len(w) - 2) : Here(k)
  BY DEF Describes
<1> HIDE DEF w
<1>5. ASSUME NEW k \in 2..(e - i) - 2 PROVE Here(k) <=> There(i + k - 1)
  <2>1. MadeOf(SubSeq(w, 2, k), {" "}) <=> \A j \in 2..k : w[j] \in {" "}
    <3>1. 2 \in Nat \ {0} /\ k \in Nat /\ k <= Len(w)  BY <1>1, <1>2
    <3> QED  BY <1>2, <3>1, AllPart
  <2>2. MadeOf(SubSeq(w, k + 1, Len(w)), {"d", "t"}) <=>
          \A j \in k + 1..Len(w) : w[j] \in {"d", "t"}
    <3>1. k + 1 \in Nat \ {0} /\ Len(w) \in Nat /\ Len(w) <= Len(w)  BY <1>1, <1>2
    <3> QED  BY <1>2, <3>1, AllPart
  <2>3. (\A j \in 2..k : w[j] \in {" "}) <=> \A j \in i + 1..i + k - 1 : t[j] = " "
    <3>1. \A j \in 2..k : w[j] = t[i + j - 1] /\ i + j - 1 \in i + 1..i + k - 1  BY <1>1, <1>2
    <3>2. \A j \in i + 1..i + k - 1 : j - i + 1 \in 2..k /\ i + (j - i + 1) - 1 = j  BY <1>1
    <3> QED  BY <3>1, <3>2
  <2>4. (\A j \in k + 1..Len(w) : w[j] \in {"d", "t"}) <=>
          \A j \in i + k..e - 1 : t[j] \in {"d", "t"}
    <3>1. \A j \in k + 1..Len(w) : w[j] = t[i + j - 1] /\ i + j - 1 \in i + k..e - 1
      BY <1>1, <1>2
    <3>2. \A j \in i + k..e - 1 : j - i + 1 \in k + 1..Len(w) /\ i + (j - i + 1) - 1 = j
      BY <1>1, <1>2
    <3> QED  BY <3>1, <3>2
  <2>5. (i + k - 1) + 1 = i + k  BY <1>1
  <2> QED  BY <2>1, <2>2, <2>3, <2>4, <2>5
<1> HIDE DEF Here, There
<1>6. ASSUME NEW k \in 2..(Len(w) - 2), Here(k) PROVE \E l \in i + 1..e - 3 : There(l)
  <2>1. k \in 2..(e - i) - 2 /\ i + k - 1 \in i + 1..e - 3  BY <1>1, <1>2
  <2> QED  BY <1>5, <1>6, <2>1
<1>7. ASSUME NEW l \in i + 1..e - 3, There(l) PROVE \E k \in 2..(Len(w) - 2) : Here(k)
  <2>1. l - i + 1 \in 2..(e - i) - 2 /\ i + (l - i + 1) - 1 = l /\ Len(w) - 2 = (e - i) - 2
    BY <1>1, <1>2
  <2>2. There(i + (l - i + 1) - 1)  BY <1>7, <2>1
  <2>3. Here(l - i + 1)  BY <1>5, <2>1, <2>2
  <2> QED  BY <2>1, <2>3
<1>8. w[1] = t[i]
  <2>1. 1 \in 1..e - i /\ i + 1 - 1 = i  BY <1>1
  <2> QED  BY <1>2, <2>1
<1>9. e \in Ends("bearer", t, i) <=> t[i] = "B" /\ \E k \in i + 1..e - 3 : There(k)
  BY <1>3, <1>4, <1>6, <1>7, <1>8
<1> QED  BY <1>9 DEF There

\* A set that holds four things has more than three.
LEMMA FourItems ==
  ASSUME NEW D, IsFiniteSet(D), NEW a \in D, NEW b \in D, NEW c \in D, NEW d \in D,
         a # b, a # c, a # d, b # c, b # d, c # d
  PROVE  Cardinality(D) \notin 2..3
<1>1. ASSUME NEW S, NEW x, IsFiniteSet(S), x \notin S
      PROVE  IsFiniteSet(S \cup {x}) /\ Cardinality(S \cup {x}) = Cardinality(S) + 1
  BY <1>1, FS_AddElement
<1> DEFINE p == {d} \cup {c}
           q == p \cup {b}
           r == q \cup {a}
<1>2. IsFiniteSet({d}) /\ Cardinality({d}) = 1  BY FS_Singleton
<1>3. c \notin {d} /\ b \notin p /\ a \notin q /\ r \in SUBSET D  OBVIOUS
<1>4. IsFiniteSet(p) /\ Cardinality(p) = Cardinality({d}) + 1  BY <1>1, <1>2, <1>3
<1> HIDE DEF p
<1>5. IsFiniteSet(q) /\ Cardinality(q) = Cardinality(p) + 1  BY <1>1, <1>3, <1>4
<1> HIDE DEF q
<1>6. Cardinality(r) = Cardinality(q) + 1  BY <1>1, <1>3, <1>5
<1> HIDE DEF r
<1>7. Cardinality(r) = 4  BY <1>2, <1>4, <1>5, <1>6
<1>8. Cardinality(r) <= Cardinality(D) /\ Cardinality(D) \in Nat
  BY <1>3, FS_Subset, FS_CardinalityType
<1> QED  BY <1>7, <1>8

\* A number is short: three digits at most, and no two spaces in a row.
LEMMA CardShort ==
  ASSUME NEW w \in Seq(Characters), Describes("card", w)
  PROVE  Len(w) <= LongestNumber
<1> SUFFICES ASSUME Len(w) >= 7 PROVE FALSE
  BY LenProperties DEF LongestNumber
<1> DEFINE D == {j \in DOMAIN w : w[j] = "d"}
<1>1. Len(w) \in Nat /\ DOMAIN w = 1..Len(w)  BY LenProperties
<1>2. /\ \A j \in 1..Len(w) : w[j] \in {"d", " "}
      /\ w[1] = "d" /\ Cardinality(D) \in 2..3
      /\ \A j \in 1..(Len(w) - 1) : w[j] = " " => w[j + 1] # " "
  BY <1>1 DEF Describes, MadeOf, Digits
<1>3. \A j \in {2, 4, 6} : w[j] = "d" \/ w[j + 1] = "d"
  <2> TAKE j \in {2, 4, 6}
  <2>1. j \in 1..(Len(w) - 1) /\ j \in 1..Len(w) /\ j + 1 \in 1..Len(w)  BY <1>1
  <2> QED  BY <1>2, <2>1
<1>4. PICK a \in {2, 3} : w[a] = "d"  BY <1>3
<1>5. PICK b \in {4, 5} : w[b] = "d"  BY <1>3
<1>6. PICK c \in {6, 7} : w[c] = "d"  BY <1>3
<1>7. 1 \in D /\ a \in D /\ b \in D /\ c \in D
  <2>1. 1 \in 1..Len(w) /\ a \in 1..Len(w) /\ b \in 1..Len(w) /\ c \in 1..Len(w)  BY <1>1
  <2> QED  BY <1>1, <1>2, <1>4, <1>5, <1>6, <2>1
<1>8. IsFiniteSet(D)
  <2>1. IsFiniteSet(1..Len(w))  BY <1>1, FS_Interval
  <2>2. D \in SUBSET (1..Len(w))  BY <1>1
  <2> HIDE DEF D
  <2> QED  BY <2>1, <2>2, FS_Subset
<1>9. Cardinality(D) \in 2..3  BY <1>2
<1> HIDE DEF D
<1>10. 1 # a /\ 1 # b /\ 1 # c /\ a # b /\ a # c /\ b # c  OBVIOUS
<1>11. Cardinality(D) \notin 2..3  BY <1>7, <1>8, <1>10, FourItems
<1> QED  BY <1>9, <1>11

\* A number.
LEMMA CardEnds ==
  ASSUME NEW t \in Seq(Characters), NEW i \in 1..Len(t), NEW e \in Ends("card", t, i)
  PROVE  /\ e \in i + 1..Len(t) + 1 /\ e <= i + LongestNumber
         /\ t[i] = "d" /\ \A j \in i..e - 1 : t[j] \in {"d", " "}
         /\ Boundary(t, i) /\ Boundary(t, e)
<1> DEFINE w == SubSeq(t, i, e - 1)
<1>1. Len(t) \in Nat /\ i \in Nat /\ e \in i + 1..Len(t) + 1  BY LenProperties, EndsRange
<1>2. Describes("card", w) /\ Boundary(t, i) /\ Boundary(t, e)  BY DEF Ends
<1>3. /\ w \in Seq(Characters) /\ Len(w) = e - i /\ \A j \in 1..e - i : w[j] = t[i + j - 1]
  BY <1>1, MatchText
<1> HIDE DEF w
<1>4. Len(w) <= LongestNumber  BY <1>2, <1>3, CardShort
<1>5. (\A j \in 1..Len(w) : w[j] \in {"d", " "}) /\ w[1] = "d"
  <2>1. DOMAIN w = 1..Len(w)  BY <1>3, LenProperties
  <2> QED  BY <1>2, <2>1 DEF Describes, MadeOf
<1>6. \A j \in i..e - 1 : t[j] = w[j - i + 1] /\ j - i + 1 \in 1..Len(w)
  <2> TAKE j \in i..e - 1
  <2>1. j - i + 1 \in 1..e - i /\ i + (j - i + 1) - 1 = j  BY <1>1
  <2> QED  BY <1>3, <2>1
<1>7. t[i] = w[1]
  <2>1. 1 \in 1..e - i /\ i + 1 - 1 = i  BY <1>1
  <2> QED  BY <1>3, <2>1
<1>8. e <= i + LongestNumber  BY <1>1, <1>3, <1>4 DEF LongestNumber
<1> QED  BY <1>1, <1>2, <1>5, <1>6, <1>7, <1>8

-----------------------------------------------------------------------------
(* A text that is cut behind a space, and the matches in its parts.        *)

\* The first part ends with a space.
CutAtSpace(A, B) ==
  /\ A \in Seq(Characters) /\ B \in Seq(Characters)
  /\ Len(A) \in Nat \ {0} /\ A[Len(A)] = " "

\* The second part, character by character.
LEMMA CutRest ==
  ASSUME NEW A, NEW B, CutAtSpace(A, B), NEW k \in 1..Len(B)
  PROVE  (A \o B)[k + Len(A)] = B[k]
<1>1. A \in Seq(Characters) /\ B \in Seq(Characters)  BY DEF CutAtSpace
<1>2. Len(A) \in Nat /\ Len(B) \in Nat  BY <1>1, LenProperties
<1>3. \A i \in 1..Len(A) + Len(B) :
        (A \o B)[i] = IF i <= Len(A) THEN A[i] ELSE B[i - Len(A)]
  BY <1>1, ConcatProperties
<1>4. /\ k + Len(A) \in 1..Len(A) + Len(B) /\ ~(k + Len(A) <= Len(A))
      /\ k + Len(A) - Len(A) = k
  BY <1>2
<1> QED  BY <1>3, <1>4

\* The whole and its parts.
LEMMA CutParts ==
  ASSUME NEW A, NEW B, CutAtSpace(A, B)
  PROVE  /\ A \o B \in Seq(Characters) /\ Len(A) \in Nat \ {0} /\ Len(B) \in Nat
         /\ Len(A \o B) = Len(A) + Len(B)
         /\ \A i \in 1..Len(A) : (A \o B)[i] = A[i]
         /\ \A i \in 1..Len(B) : (A \o B)[i + Len(A)] = B[i]
         /\ (A \o B)[Len(A)] = " "
<1>1. /\ A \in Seq(Characters) /\ B \in Seq(Characters)
      /\ Len(A) \in Nat \ {0} /\ A[Len(A)] = " "
  BY DEF CutAtSpace
<1>2. Len(A) \in Nat \ {0} /\ Len(B) \in Nat  BY <1>1, LenProperties
<1>3. /\ A \o B \in Seq(Characters) /\ Len(A \o B) = Len(A) + Len(B)
      /\ \A i \in 1..Len(A) + Len(B) :
           (A \o B)[i] = IF i <= Len(A) THEN A[i] ELSE B[i - Len(A)]
  BY <1>1, ConcatProperties
<1>4. \A i \in 1..Len(A) : (A \o B)[i] = A[i]
  <2>1. \A i \in 1..Len(A) : i \in 1..Len(A) + Len(B) /\ i <= Len(A)  BY <1>2
  <2> QED  BY <1>3, <2>1
<1>5. \A i \in 1..Len(B) : (A \o B)[i + Len(A)] = B[i]  BY CutRest
<1>6. Len(A) \in 1..Len(A)  BY <1>2
<1>7. (A \o B)[Len(A)] = " "  BY <1>1, <1>4, <1>6
<1> QED  BY <1>2, <1>3, <1>4, <1>5, <1>7

\* Two texts that agree on the characters of a match.
LEMMA SameText ==
  ASSUME NEW s \in Seq(Characters), NEW t \in Seq(Characters),
         NEW i \in 1..Len(s), NEW e \in i + 1..Len(s) + 1,
         NEW j \in 1..Len(t), NEW d \in j + 1..Len(t) + 1, d - j = e - i,
         \A k \in 0..e - i - 1 : s[i + k] = t[j + k]
  PROVE  SubSeq(s, i, e - 1) = SubSeq(t, j, d - 1)
<1> DEFINE u == SubSeq(s, i, e - 1)
           v == SubSeq(t, j, d - 1)
<1>1. Len(s) \in Nat /\ Len(t) \in Nat  BY LenProperties
<1>2. /\ u \in Seq(Characters) /\ Len(u) = e - i /\ \A k \in 1..e - i : u[k] = s[i + k - 1]
  BY MatchText
<1>3. /\ v \in Seq(Characters) /\ Len(v) = d - j /\ \A k \in 1..d - j : v[k] = t[j + k - 1]
  BY MatchText
<1> HIDE DEF u, v
<1>4. ASSUME NEW k \in 1..Len(u) PROVE u[k] = v[k]
  <2>1. k - 1 \in 0..e - i - 1 /\ i + k - 1 = i + (k - 1) /\ j + k - 1 = j + (k - 1)
    BY <1>1, <1>2
  <2>2. s[i + (k - 1)] = t[j + (k - 1)]  BY <2>1
  <2> QED  BY <1>2, <1>3, <2>1, <2>2
<1>5. u = v  BY <1>2, <1>3, <1>4, SeqEqual
<1> QED  BY <1>5 DEF u, v

\* Boundaries in the first part, but for its end.
LEMMA BoundaryFront ==
  ASSUME NEW A, NEW B, CutAtSpace(A, B), NEW i \in 1..Len(A)
  PROVE  Boundary(A, i) <=> Boundary(A \o B, i)
<1>1. /\ Len(A) \in Nat /\ Len(B) \in Nat /\ Len(A \o B) = Len(A) + Len(B)
      /\ \A j \in 1..Len(A) : (A \o B)[j] = A[j]
  BY CutParts
<1>2. i <= Len(A) /\ i <= Len(A \o B) /\ (i > 1 => i - 1 \in 1..Len(A))  BY <1>1
<1>3. (A \o B)[i] = A[i] /\ (i > 1 => (A \o B)[i - 1] = A[i - 1])  BY <1>1, <1>2
<1> QED  BY <1>2, <1>3 DEF Boundary

\* Boundaries in the second part.
LEMMA BoundaryRest ==
  ASSUME NEW A, NEW B, CutAtSpace(A, B), NEW i \in 1..Len(B) + 1
  PROVE  Boundary(B, i) <=> Boundary(A \o B, i + Len(A))
<1>0. /\ Len(A) \in Nat \ {0} /\ Len(B) \in Nat /\ Len(A \o B) = Len(A) + Len(B)
  BY CutParts
<1>1. /\ \A k \in 1..Len(B) : (A \o B)[k + Len(A)] = B[k]
      /\ (A \o B)[Len(A)] = " "
  <2>1. ASSUME NEW k \in 1..Len(B) PROVE (A \o B)[k + Len(A)] = B[k]
    BY CutRest
  <2>2. (A \o B)[Len(A)] = " "  BY CutParts
  <2> QED  BY <2>1, <2>2
<1>2. /\ i <= Len(B) <=> i + Len(A) <= Len(A \o B)
      /\ i <= Len(B) => i \in 1..Len(B)
      /\ i > 1 => i - 1 \in 1..Len(B) /\ (i - 1) + Len(A) = i + Len(A) - 1
      /\ i + Len(A) > 1
  <2>1. \A a \in Nat \ {0} : \A b \in Nat : \A n \in Nat :
          n = a + b /\ i \in 1..b + 1 =>
            /\ i <= b <=> i + a <= n
            /\ i <= b => i \in 1..b
            /\ i > 1 => i - 1 \in 1..b /\ (i - 1) + a = i + a - 1
            /\ i + a > 1
    OBVIOUS
  <2>2. Len(A \o B) \in Nat  BY <1>0
  <2> QED  BY <1>0, <2>1, <2>2
<1>3. i <= Len(B) => (A \o B)[i + Len(A)] = B[i]  BY <1>1, <1>2
<1>4. CASE i > 1
  <2>1. (A \o B)[i + Len(A) - 1] = B[i - 1]  BY <1>1, <1>2, <1>4
  <2> QED  BY <1>2, <1>3, <1>4, <2>1 DEF Boundary
<1>5. CASE ~(i > 1)
  <2>1. i + Len(A) - 1 = Len(A)
    <3>1. \A a \in Nat : \A b \in Nat : i \in 1..b + 1 => i + a - 1 = a  BY <1>5
    <3> QED  BY <1>0, <3>1
  <2>2. ~IsWord((A \o B)[i + Len(A) - 1])  BY <1>1, <2>1 DEF IsWord
  <2> QED  BY <1>2, <1>3, <1>5, <2>2 DEF Boundary
<1> QED  BY <1>4, <1>5

EndsWithSpace(t) == Len(t) \in Nat \ {0} /\ t[Len(t)] = " "

\* No match of a text that ends with a space takes that space.
LEMMA NoneAtSpace ==
  ASSUME NEW q \in PatternNames, NEW t \in Seq(Characters),
         EndsWithSpace(t),
         NEW i \in 1..Len(t), NEW e \in Ends(q, t, i)
  PROVE  e \in i + 1..Len(t)
<1> DEFINE n == Len(t)
<1>1. n \in Nat \ {0} /\ i \in 1..n  BY DEF EndsWithSpace
<1> HIDE DEF n
<1>2. PICK d \in i + 1..n + 1 : d = n + 1  BY <1>1
<1>3. d - 1 = n /\ ~(d <= n) /\ d > 1  BY <1>1, <1>2
<1>4. d \in i + 1..Len(t) + 1 /\ i \in 1..Len(t) /\ t[n] = " "  BY <1>1, <1>2 DEF n, EndsWithSpace
<1>5. d \notin Ends(q, t, i)
  <2>1. ASSUME d \in Ends("email", t, i) PROVE FALSE
    <3>1. PICK k \in i + 1..d - 2 : \A j \in k + 1..d - 1 : t[j] = "t"
      BY <1>4, <2>1, EmailEnds
    <3>2. n \in k + 1..d - 1  BY <1>1, <1>3, <3>1
    <3> QED  BY <1>4, <3>1, <3>2
  <2>2. ASSUME d \in Ends("bearer", t, i) PROVE FALSE
    <3>1. PICK k \in i + 1..d - 3 : \A j \in k + 1..d - 1 : t[j] \in {"d", "t"}
      BY <1>4, <2>2, BearerEnds
    <3>2. n \in k + 1..d - 1  BY <1>1, <1>3, <3>1
    <3> QED  BY <1>4, <3>1, <3>2
  <2>3. ASSUME d \in Ends("card", t, i) PROVE FALSE
    <3>1. Boundary(t, d)  BY <1>4, <2>3, CardEnds
    <3>2. ~IsWord(t[d - 1]) /\ ~(d <= Len(t))  BY <1>3, <1>4 DEF IsWord, n
    <3> QED  BY <1>3, <3>1, <3>2 DEF Boundary
  <2> QED  BY <2>1, <2>2, <2>3 DEF PatternNames
<1>7. e \in i + 1..n + 1 /\ e # n + 1  BY <1>2, <1>5, EndsRange DEF n
<1>8. e \in i + 1..n
  <2>1. \A y \in i + 1..n + 1 : y # n + 1 => y \in i + 1..n  BY <1>1
  <2> QED  BY <1>7, <2>1
<1> QED  BY <1>8 DEF n

\* The matches in the first part are those of the whole that end there.
LEMMA EndsFront ==
  ASSUME NEW q \in PatternNames, NEW A, NEW B, CutAtSpace(A, B), NEW i \in 1..Len(A), NEW e
  PROVE  e \in Ends(q, A, i) <=> e \in Ends(q, A \o B, i) /\ e <= Len(A)
<1>1. /\ Len(A) \in Nat \ {0} /\ Len(B) \in Nat /\ Len(A \o B) = Len(A) + Len(B)
      /\ A \o B \in Seq(Characters)
      /\ \A j \in 1..Len(A) : (A \o B)[j] = A[j]
  BY CutParts
<1>2. A \in Seq(Characters) /\ A[Len(A)] = " "  BY DEF CutAtSpace
<1>3. i \in 1..Len(A \o B)  BY <1>1
<1>4. ASSUME NEW d \in i + 1..Len(A)
      PROVE  d \in Ends(q, A, i) <=> d \in Ends(q, A \o B, i)
  <2>1. d \in i + 1..Len(A) + 1 /\ d \in i + 1..Len(A \o B) + 1 /\ d \in 1..Len(A)  BY <1>1
  <2>2. SubSeq(A, i, d - 1) = SubSeq(A \o B, i, d - 1)
    <3>1. \A k \in 0..d - i - 1 : i + k \in 1..Len(A)  BY <1>1
    <3>2. \A k \in 0..d - i - 1 : A[i + k] = (A \o B)[i + k]  BY <1>1, <3>1
    <3> QED  BY <1>1, <1>2, <1>3, <2>1, <3>2, SameText
  <2>3. Boundary(A, i) <=> Boundary(A \o B, i)  BY BoundaryFront
  <2>4. Boundary(A, d) <=> Boundary(A \o B, d)  BY <2>1, BoundaryFront
  <2> QED  BY <2>1, <2>2, <2>3, <2>4 DEF Ends
<1>5. ASSUME e \in Ends(q, A, i) PROVE e \in i + 1..Len(A)
  BY <1>1, <1>2, <1>5, NoneAtSpace DEF EndsWithSpace
<1>6. ASSUME e \in Ends(q, A \o B, i), e <= Len(A) PROVE e \in i + 1..Len(A)
  <2>1. e \in i + 1..Len(A \o B) + 1  BY <1>1, <1>3, <1>6, EndsRange
  <2> QED  BY <1>1, <1>6, <2>1
<1>7. e \in i + 1..Len(A) => e <= Len(A)  BY <1>1
<1> QED  BY <1>4, <1>5, <1>6, <1>7

\* The matches in the second part are those of the whole that begin there.
LEMMA EndsRest ==
  ASSUME NEW q \in PatternNames, NEW A, NEW B, CutAtSpace(A, B), NEW i \in 1..Len(B)
  PROVE  \A e \in Nat :
           e \in Ends(q, B, i) <=> e + Len(A) \in Ends(q, A \o B, i + Len(A))
<1>1. /\ Len(A) \in Nat \ {0} /\ Len(B) \in Nat /\ Len(A \o B) = Len(A) + Len(B)
      /\ A \o B \in Seq(Characters)
  BY CutParts
<1>2. B \in Seq(Characters)  BY DEF CutAtSpace
<1>3. i + Len(A) \in 1..Len(A \o B)  BY <1>1
<1>4. ASSUME NEW d \in i + 1..Len(B) + 1
      PROVE  d \in Ends(q, B, i) <=> d + Len(A) \in Ends(q, A \o B, i + Len(A))
  <2>1. /\ d + Len(A) \in i + Len(A) + 1..Len(A \o B) + 1
        /\ d \in 1..Len(B) + 1 /\ i \in 1..Len(B) + 1
        /\ (d + Len(A)) - (i + Len(A)) = d - i
    BY <1>1
  <2>2. SubSeq(B, i, d - 1) = SubSeq(A \o B, i + Len(A), (d + Len(A)) - 1)
    <3>1. ASSUME NEW k \in 0..d - i - 1 PROVE B[i + k] = (A \o B)[(i + Len(A)) + k]
      <4>1. i + k \in 1..Len(B) /\ (i + k) + Len(A) = (i + Len(A)) + k  BY <1>1
      <4>2. (A \o B)[(i + k) + Len(A)] = B[i + k]  BY <4>1, CutRest
      <4> QED  BY <4>1, <4>2
    <3> DEFINE c == d + Len(A)
               l == i + Len(A)
    <3>2. /\ c \in l + 1..Len(A \o B) + 1 /\ c - l = d - i /\ l \in 1..Len(A \o B)
          /\ \A k \in 0..d - i - 1 : B[i + k] = (A \o B)[l + k]
      BY <1>3, <2>1, <3>1
    <3> HIDE DEF c, l
    <3>3. SubSeq(B, i, d - 1) = SubSeq(A \o B, l, c - 1)
      BY <1>1, <1>2, <3>2, SameText
    <3> QED  BY <3>3 DEF c, l
  <2>3. Boundary(B, i) <=> Boundary(A \o B, i + Len(A))  BY <2>1, BoundaryRest
  <2>4. Boundary(B, d) <=> Boundary(A \o B, d + Len(A))  BY <2>1, BoundaryRest
  <2> QED  BY <2>1, <2>2, <2>3, <2>4 DEF Ends
<1> TAKE e \in Nat
<1>5. e \in Ends(q, B, i) => e \in i + 1..Len(B) + 1  BY <1>2, EndsRange
<1>6. ASSUME e + Len(A) \in Ends(q, A \o B, i + Len(A)) PROVE e \in i + 1..Len(B) + 1
  <2>1. e + Len(A) \in i + Len(A) + 1..Len(A \o B) + 1  BY <1>1, <1>3, <1>6, EndsRange
  <2> QED  BY <1>1, <2>1
<1> QED  BY <1>4, <1>5, <1>6

\* So the longest match is the same.
LEMMA MaxRest ==
  ASSUME NEW q \in PatternNames, NEW A, NEW B, CutAtSpace(A, B), NEW i \in 1..Len(B)
  PROVE  /\ Ends(q, B, i) = {} <=> Ends(q, A \o B, i + Len(A)) = {}
         /\ Ends(q, B, i) # {} =>
              Max(Ends(q, A \o B, i + Len(A))) = Max(Ends(q, B, i)) + Len(A)
<1> DEFINE E == Ends(q, B, i)
           S == Ends(q, A \o B, i + Len(A))
           a == Len(A)
<1>1. /\ a \in Nat \ {0} /\ Len(B) \in Nat /\ Len(A \o B) = a + Len(B)
      /\ A \o B \in Seq(Characters) /\ B \in Seq(Characters)
  BY CutParts DEF CutAtSpace
<1>2. i + a \in 1..Len(A \o B)  BY <1>1
<1>3. \A e \in Nat : e \in E <=> e + a \in S  BY EndsRest
<1>4. /\ \A e \in E : e \in Nat
      /\ E # {} => Max(E) \in E /\ \A e \in E : e <= Max(E)
  <2>1. \A e \in E : e \in i + 1..Len(B) + 1  BY <1>1, EndsRange
  <2> QED  BY <1>1, <2>1, EndsRange
<1>5. /\ \A e \in S : e \in i + a + 1..Len(A \o B) + 1
      /\ S # {} => Max(S) \in S /\ \A e \in S : e <= Max(S)
  BY <1>1, <1>2, EndsRange
<1> HIDE DEF E, S, a
<1>6. ASSUME NEW e \in S PROVE e - a \in E /\ e - a \in Nat
  <2>1. e - a \in Nat /\ (e - a) + a = e
    <3>1. e \in i + a + 1..Len(A \o B) + 1  BY <1>5
    <3> QED  BY <1>1, <3>1
  <2> QED  BY <1>3, <2>1
<1>7. E = {} <=> S = {}  BY <1>3, <1>4, <1>6
<1>8. ASSUME E # {} PROVE Max(S) = Max(E) + a
  <2>1. Max(E) \in E /\ Max(S) \in S /\ Max(E) \in Nat  BY <1>4, <1>5, <1>7, <1>8
  <2>2. Max(E) + a \in S /\ Max(S) - a \in E /\ Max(S) - a \in Nat  BY <1>3, <1>6, <2>1
  <2>3. Max(S) - a <= Max(E)  BY <1>4, <1>8, <2>2
  <2>4. Max(E) + a <= Max(S)  BY <1>5, <2>2
  <2>5. Max(S) \in Int
    <3>1. Max(S) \in i + a + 1..Len(A \o B) + 1  BY <1>5, <2>1
    <3> QED  BY <3>1
  <2> QED  BY <1>1, <2>1, <2>3, <2>4, <2>5
<1> QED  BY <1>7, <1>8 DEF E, S, a

\* No match that is found gets beyond the first part.
Apart(q, A, B) == \A m \in Matches(q, A \o B) : m[1] <= Len(A) => m[2] <= Len(A)

Moved(S, a) == {<<m[1] + a, m[2] + a>> : m \in S}

\* From the end of the first part on, what is found is what is found in the
\* second.
LEMMA FoundRest ==
  ASSUME NEW q \in PatternNames, NEW A, NEW B, CutAtSpace(A, B),
         NEW f, Found(f, q, A \o B), NEW h, Found(h, q, B)
  PROVE  \A i \in 1..Len(B) + 1 : f[i + Len(A)] = Moved(h[i], Len(A))
<1> DEFINE a == Len(A)
           b == Len(B)
           s == A \o B
           Good(i) == f[i + a] = Moved(h[i], a)
           N == {k \in Nat : k <= b => \A i \in b + 1 - k..b + 1 : Good(i)}
<1>1. a \in Nat \ {0} /\ b \in Nat /\ Len(s) = a + b  BY CutParts
<1>2. B \in Seq(Characters)  BY DEF CutAtSpace
<1>3. f[a + b + 1] = {} /\ h[b + 1] = {}
  <2>1. Len(s) + 1 = a + b + 1  BY <1>1
  <2> QED  BY <2>1 DEF Found
<1>4. ASSUME NEW i \in 1..b
      PROVE  /\ Ends(q, B, i) = {} => f[i + a] = f[(i + 1) + a] /\ h[i] = h[i + 1]
             /\ Ends(q, B, i) # {} =>
                  /\ f[i + a] = {<<i + a, Max(Ends(q, B, i)) + a>>}
                                  \cup f[Max(Ends(q, B, i)) + a]
                  /\ h[i] = {<<i, Max(Ends(q, B, i))>>} \cup h[Max(Ends(q, B, i))]
  <2>1. i + a \in 1..Len(s) /\ (i + 1) + a = (i + a) + 1  BY <1>1
  <2>2. /\ Ends(q, B, i) = {} <=> Ends(q, s, i + a) = {}
        /\ Ends(q, B, i) # {} => Max(Ends(q, s, i + a)) = Max(Ends(q, B, i)) + a
    BY MaxRest
  <2> DEFINE l == i + a
  <2>3. /\ Ends(q, s, l) = {} => f[l] = f[l + 1]
        /\ Ends(q, s, l) # {} =>
             f[l] = {<<l, Max(Ends(q, s, l))>>} \cup f[Max(Ends(q, s, l))]
    BY <2>1 DEF Found
  <2>4. /\ Ends(q, B, i) = {} => h[i] = h[i + 1]
        /\ Ends(q, B, i) # {} =>
             h[i] = {<<i, Max(Ends(q, B, i))>>} \cup h[Max(Ends(q, B, i))]
    BY DEF Found
  <2> HIDE DEF s, a, b
  <2> QED  BY <2>1, <2>2, <2>3, <2>4
<1>5. ASSUME NEW S, NEW T PROVE Moved(S \cup T, a) = Moved(S, a) \cup Moved(T, a)
  BY DEF Moved
<1>6. ASSUME NEW x, NEW y PROVE Moved({<<x, y>>}, a) = {<<x + a, y + a>>}
  BY DEF Moved
<1>7. Moved({}, a) = {}  BY DEF Moved
<1>8. 0 \in N
  <2>1. \A i \in b + 1 - 0..b + 1 : i = b + 1  BY <1>1
  <2>2. Good(b + 1)
    <3>1. (b + 1) + a = a + b + 1  BY <1>1
    <3> QED  BY <1>3, <1>7, <3>1
  <2> HIDE DEF Good
  <2> QED  BY <1>1, <2>1, <2>2
<1>9. ASSUME NEW k \in Nat, k \in N PROVE k + 1 \in N
  <2> SUFFICES ASSUME k + 1 <= b, NEW i \in b + 1 - (k + 1)..b + 1 PROVE Good(i)
    BY DEF N
  <2> HIDE DEF a, b, s
  <2>1. \A j \in b + 1 - k..b + 1 : Good(j)
    <3> HIDE DEF Good
    <3> QED  BY <1>1, <1>9
  <2>2. i \in b + 1 - k..b + 1 \/ (i = b - k /\ i \in 1..b)  BY <1>1
  <2>3. CASE i = b - k /\ i \in 1..b
    <3>1. CASE Ends(q, B, i) = {}
      <4>1. i + 1 \in b + 1 - k..b + 1  BY <1>1, <2>3
      <4>2. Good(i + 1)  BY <2>1, <4>1
      <4> QED  BY <1>4, <2>3, <3>1, <4>2
    <3>2. CASE Ends(q, B, i) # {}
      <4> DEFINE e == Max(Ends(q, B, i))
      <4>1. e \in i + 1..b + 1  BY <1>2, <2>3, <3>2, EndsRange DEF b
      <4>2. e \in b + 1 - k..b + 1  BY <1>1, <2>3, <4>1
      <4>3. f[i + a] = {<<i + a, e + a>>} \cup f[e + a] /\ h[i] = {<<i, e>>} \cup h[e]
        BY <1>4, <2>3, <3>2
      <4> HIDE DEF e
      <4>4. Good(e)  BY <2>1, <4>2
      <4>5. Moved({<<i, e>>} \cup h[e], a) = Moved({<<i, e>>}, a) \cup Moved(h[e], a)
        BY <1>5
      <4>6. Moved({<<i, e>>}, a) = {<<i + a, e + a>>}  BY <1>6
      <4> QED  BY <4>3, <4>4, <4>5, <4>6
    <3> QED  BY <3>1, <3>2
  <2> HIDE DEF Good
  <2> QED  BY <2>1, <2>2, <2>3
<1> HIDE DEF N
<1>10. b \in N  BY <1>1, <1>8, <1>9, Induction
<1>11. \A i \in 1..b + 1 : Good(i)
  <2> HIDE DEF Good
  <2>1. b + 1 - b = 1  BY <1>1
  <2> QED  BY <1>1, <1>10, <2>1 DEF N
<1> QED  BY <1>11

\* Before it, what is found in the first part comes on top.
LEMMA FoundFront ==
  ASSUME NEW q \in PatternNames, NEW A, NEW B, CutAtSpace(A, B), Apart(q, A, B),
         NEW f, Found(f, q, A \o B), Matches(q, A \o B) = f[1], NEW g, Found(g, q, A)
  PROVE  f[1] = g[1] \cup f[Len(A) + 1]
<1> DEFINE a == Len(A)
           s == A \o B
           Stays(i) == \A m \in f[i] : m[1] <= a => m[2] <= a
           Good(i) == Stays(i) => f[i] = g[i] \cup f[a + 1]
           N == {k \in Nat : k <= a => \A i \in a + 1 - k..a + 1 : Good(i)}
<1>1. a \in Nat \ {0} /\ Len(B) \in Nat /\ Len(s) = a + Len(B) /\ s \in Seq(Characters)
  BY CutParts
<1>2. A \in Seq(Characters)  BY DEF CutAtSpace
<1>3. g[a + 1] = {}  BY DEF Found
<1>4. ASSUME NEW i \in 1..a
      PROVE  /\ Ends(q, s, i) = {} => f[i] = f[i + 1] /\ g[i] = g[i + 1]
             /\ Ends(q, s, i) # {} /\ Max(Ends(q, s, i)) <= a =>
                  /\ Max(Ends(q, s, i)) \in i + 1..a
                  /\ f[i] = {<<i, Max(Ends(q, s, i))>>} \cup f[Max(Ends(q, s, i))]
                  /\ g[i] = {<<i, Max(Ends(q, s, i))>>} \cup g[Max(Ends(q, s, i))]
             /\ Ends(q, s, i) # {} => <<i, Max(Ends(q, s, i))>> \in f[i]
  <2>1. i \in 1..Len(s)  BY <1>1
  <2>2. /\ Ends(q, s, i) = {} => f[i] = f[i + 1]
        /\ Ends(q, s, i) # {} =>
             f[i] = {<<i, Max(Ends(q, s, i))>>} \cup f[Max(Ends(q, s, i))]
    BY <2>1 DEF Found
  <2>3. /\ Ends(q, A, i) = {} => g[i] = g[i + 1]
        /\ Ends(q, A, i) # {} =>
             g[i] = {<<i, Max(Ends(q, A, i))>>} \cup g[Max(Ends(q, A, i))]
    BY DEF Found
  <2>4. \A e : e \in Ends(q, A, i) <=> e \in Ends(q, s, i) /\ e <= a  BY EndsFront
  <2>5. ASSUME Ends(q, s, i) # {}, Max(Ends(q, s, i)) <= a
        PROVE  /\ Max(Ends(q, s, i)) \in i + 1..a
               /\ Ends(q, A, i) # {} /\ Max(Ends(q, A, i)) = Max(Ends(q, s, i))
    <3> DEFINE e == Max(Ends(q, s, i))
               d == Max(Ends(q, A, i))
    <3>1. e \in Ends(q, s, i) /\ e \in i + 1..Len(s) + 1 /\ \A x \in Ends(q, s, i) : x <= e
      BY <1>1, <2>1, <2>5, EndsRange
    <3>2. e \in Ends(q, A, i)  BY <2>4, <2>5, <3>1
    <3>3. d \in Ends(q, A, i) /\ d \in i + 1..a + 1 /\ \A x \in Ends(q, A, i) : x <= d
      BY <1>2, <3>2, EndsRange
    <3>4. d <= e /\ e <= d  BY <2>4, <3>1, <3>2, <3>3
    <3>5. e <= a  BY <2>5
    <3> HIDE DEF e, d
    <3>6. d = e /\ e \in i + 1..a  BY <1>1, <3>1, <3>3, <3>4, <3>5
    <3> QED  BY <3>2, <3>6 DEF e, d
  <2>6. Ends(q, s, i) = {} => Ends(q, A, i) = {}  BY <2>4
  <2>7. Ends(q, s, i) # {} => <<i, Max(Ends(q, s, i))>> \in f[i]  BY <2>2
  <2> HIDE DEF s, a
  <2> QED  BY <2>2, <2>3, <2>5, <2>6, <2>7
<1>5. 0 \in N
  <2>1. \A i \in a + 1 - 0..a + 1 : i = a + 1  BY <1>1
  <2>2. Good(a + 1)  BY <1>3
  <2> HIDE DEF Good
  <2> QED  BY <1>1, <2>1, <2>2
<1>6. ASSUME NEW k \in Nat, k \in N PROVE k + 1 \in N
  <2> SUFFICES ASSUME k + 1 <= a, NEW i \in a + 1 - (k + 1)..a + 1 PROVE Good(i)
    BY DEF N
  <2> HIDE DEF a, s
  <2>1. \A j \in a + 1 - k..a + 1 : Good(j)
    <3> HIDE DEF Good
    <3> QED  BY <1>1, <1>6
  <2>2. i \in a + 1 - k..a + 1 \/ (i = a - k /\ i \in 1..a)  BY <1>1
  <2>3. CASE i = a - k /\ i \in 1..a
    <3> SUFFICES ASSUME Stays(i) PROVE f[i] = g[i] \cup f[a + 1]
      OBVIOUS
    <3>1. CASE Ends(q, s, i) = {}
      <4>1. i + 1 \in a + 1 - k..a + 1  BY <1>1, <2>3
      <4>2. f[i] = f[i + 1] /\ g[i] = g[i + 1]  BY <1>4, <2>3, <3>1
      <4>3. Good(i + 1)  BY <2>1, <4>1
      <4> QED  BY <4>2, <4>3
    <3>2. CASE Ends(q, s, i) # {}
      <4> DEFINE e == Max(Ends(q, s, i))
      <4>1. <<i, e>> \in f[i]  BY <1>4, <2>3, <3>2
      <4>2. i <= a /\ <<i, e>>[1] = i /\ <<i, e>>[2] = e  BY <1>1, <2>3
      <4>3. e <= a  BY <4>1, <4>2
      <4>4. /\ e \in i + 1..a /\ f[i] = {<<i, e>>} \cup f[e] /\ g[i] = {<<i, e>>} \cup g[e]
        BY <1>4, <2>3, <3>2, <4>3
      <4> HIDE DEF e
      <4>5. e \in a + 1 - k..a + 1  BY <1>1, <2>3, <4>4
      <4>6. Good(e)  BY <2>1, <4>5
      <4>7. Stays(e)  BY <4>4
      <4> QED  BY <4>4, <4>6, <4>7
    <3> QED  BY <3>1, <3>2
  <2> HIDE DEF Good
  <2> QED  BY <2>1, <2>2, <2>3
<1> HIDE DEF N
<1>7. a \in N  BY <1>1, <1>5, <1>6, Induction
<1>8. Good(1)
  <2> HIDE DEF Good
  <2>1. a + 1 - a = 1 /\ 1 \in a + 1 - a..a + 1  BY <1>1
  <2> QED  BY <1>1, <1>7, <2>1 DEF N
<1>9. Stays(1)  BY DEF Apart
<1> QED  BY <1>8, <1>9

\* What is found in the whole is what is found in its parts.
LEMMA MatchesSplit ==
  ASSUME NEW q \in PatternNames, NEW A, NEW B, CutAtSpace(A, B), Apart(q, A, B)
  PROVE  Matches(q, A \o B) = Matches(q, A) \cup Moved(Matches(q, B), Len(A))
<1>1. /\ A \o B \in Seq(Characters) /\ Len(A) \in Nat /\ Len(B) \in Nat
      /\ A \in Seq(Characters) /\ B \in Seq(Characters)
  BY CutParts DEF CutAtSpace
<1>2. PICK f : Found(f, q, A \o B) /\ Matches(q, A \o B) = f[1]  BY <1>1, MatchesFound
<1>3. PICK g : Found(g, q, A) /\ Matches(q, A) = g[1]  BY <1>1, MatchesFound
<1>4. PICK h : Found(h, q, B) /\ Matches(q, B) = h[1]  BY <1>1, MatchesFound
<1>5. f[1] = g[1] \cup f[Len(A) + 1]  BY <1>2, <1>3, FoundFront
<1>6. f[Len(A) + 1] = Moved(h[1], Len(A))
  <2>1. \A i \in 1..Len(B) + 1 : f[i + Len(A)] = Moved(h[i], Len(A))
    BY <1>2, <1>4, FoundRest
  <2>2. 1 \in 1..Len(B) + 1 /\ 1 + Len(A) = Len(A) + 1  BY <1>1
  <2> QED  BY <2>1, <2>2
<1> QED  BY <1>2, <1>3, <1>4, <1>5, <1>6

\* A match of the first part, and of the second, has the same text in the whole.
LEMMA TextFront ==
  ASSUME NEW A, NEW B, CutAtSpace(A, B), NEW i \in 1..Len(A), NEW e \in i + 1..Len(A)
  PROVE  SubSeq(A, i, e - 1) = SubSeq(A \o B, i, e - 1)
<1>1. /\ Len(A) \in Nat \ {0} /\ Len(B) \in Nat /\ Len(A \o B) = Len(A) + Len(B)
      /\ A \o B \in Seq(Characters)
      /\ \A j \in 1..Len(A) : (A \o B)[j] = A[j]
  BY CutParts
<1>2. A \in Seq(Characters)  BY DEF CutAtSpace
<1>3. e \in i + 1..Len(A) + 1 /\ e \in i + 1..Len(A \o B) + 1 /\ i \in 1..Len(A \o B)  BY <1>1
<1>4. \A k \in 0..e - i - 1 : i + k \in 1..Len(A)  BY <1>1
<1>5. \A k \in 0..e - i - 1 : A[i + k] = (A \o B)[i + k]  BY <1>1, <1>4
<1> QED  BY <1>1, <1>2, <1>3, <1>5, SameText

\* The text behind a cut, seen in the whole.
LEMMA TextRest ==
  ASSUME NEW A, NEW B, CutAtSpace(A, B), NEW i \in 1..Len(B), NEW e \in i + 1..Len(B) + 1
  PROVE  SubSeq(B, i, e - 1) = SubSeq(A \o B, i + Len(A), (e + Len(A)) - 1)
<1>1. /\ Len(A) \in Nat \ {0} /\ Len(B) \in Nat /\ Len(A \o B) = Len(A) + Len(B)
      /\ A \o B \in Seq(Characters)
  BY CutParts
<1>2. B \in Seq(Characters)  BY DEF CutAtSpace
<1>3. ASSUME NEW k \in 0..e - i - 1 PROVE B[i + k] = (A \o B)[(i + Len(A)) + k]
  <2>1. i + k \in 1..Len(B) /\ (i + k) + Len(A) = (i + Len(A)) + k  BY <1>1
  <2>2. (A \o B)[(i + k) + Len(A)] = B[i + k]  BY <2>1, CutRest
  <2> QED  BY <2>1, <2>2
<1> DEFINE c == e + Len(A)
           l == i + Len(A)
<1>4. /\ c \in l + 1..Len(A \o B) + 1 /\ c - l = e - i /\ l \in 1..Len(A \o B)
      /\ \A k \in 0..e - i - 1 : B[i + k] = (A \o B)[l + k]
  BY <1>1, <1>3
<1> HIDE DEF c, l
<1>5. SubSeq(B, i, e - 1) = SubSeq(A \o B, l, c - 1)  BY <1>1, <1>2, <1>4, SameText
<1> QED  BY <1>5 DEF c, l

\* What is replaced in the whole is what is replaced in its parts.
LEMMA ConcatAll ==
  ASSUME NEW x \in Seq(Characters), NEW y \in Seq(Characters), NEW z \in Seq(Characters)
  PROVE  (x \o y) \o z = x \o (y \o z)
BY ConcatAssociative, SMTT(20)

\* Whether a valid match begins at a position of the whole.
LEMMA BeginsSplit ==
  ASSUME NEW q \in PatternNames, NEW A, NEW B, CutAtSpace(A, B), Apart(q, A, B)
  PROVE  /\ \A i \in 1..Len(A) : Begins(q, A \o B, i) <=> Begins(q, A, i)
         /\ \A i \in 1..Len(B) : Begins(q, A \o B, i + Len(A)) <=> Begins(q, B, i)
<1> DEFINE a == Len(A)
           s == A \o B
<1>1. /\ a \in Nat \ {0} /\ Len(B) \in Nat /\ s \in Seq(Characters)
      /\ A \in Seq(Characters) /\ B \in Seq(Characters) /\ EndsWithSpace(A)
  BY CutParts DEF CutAtSpace, EndsWithSpace
<1>2. Matches(q, s) = Matches(q, A) \cup Moved(Matches(q, B), a)  BY MatchesSplit
<1>3. ASSUME NEW m \in Matches(q, A)
      PROVE  /\ m[1] \in 1..a
             /\ SubSeq(A, m[1], m[2] - 1) = SubSeq(s, m[1], m[2] - 1)
  <2>1. m[1] \in 1..a /\ m[2] \in Ends(q, A, m[1])  BY <1>1, MatchesRange
  <2>2. m[2] \in m[1] + 1..a  BY <1>1, <2>1, NoneAtSpace
  <2> QED  BY <2>1, <2>2, TextFront
<1>4. ASSUME NEW m \in Matches(q, B)
      PROVE  /\ m[1] \in 1..Len(B) /\ m[2] \in Nat
             /\ SubSeq(B, m[1], m[2] - 1) = SubSeq(s, m[1] + a, (m[2] + a) - 1)
  <2>1. m[1] \in 1..Len(B) /\ m[2] \in m[1] + 1..Len(B) + 1  BY <1>1, MatchesRange
  <2>2. SubSeq(B, m[1], m[2] - 1) = SubSeq(s, m[1] + a, (m[2] + a) - 1)  BY <2>1, TextRest
  <2>3. m[2] \in Nat
    <3> HIDE DEF a, s
    <3> QED  BY <1>1, <2>1
  <2> QED  BY <2>1, <2>2, <2>3
<1> HIDE DEF a, s
<1>5. ASSUME NEW i \in 1..a PROVE Begins(q, s, i) <=> Begins(q, A, i)
  <2>1. ASSUME NEW m \in Valid(q, s), m[1] = i PROVE \E l \in Valid(q, A) : l[1] = i
    <3>1. m \in Matches(q, s) /\ (q = "card" => LuhnValid(SubSeq(s, m[1], m[2] - 1)))
      BY <2>1 DEF Valid
    <3>2. m \in Matches(q, A)
      <4>1. ASSUME m \in Moved(Matches(q, B), a) PROVE FALSE
        <5>1. PICK l \in Matches(q, B) : m = <<l[1] + a, l[2] + a>>  BY <4>1 DEF Moved
        <5>2. l[1] \in 1..Len(B) /\ m[1] = l[1] + a  BY <1>4, <5>1
        <5> QED  BY <1>1, <2>1, <5>2
      <4> QED  BY <1>2, <3>1, <4>1
    <3>3. m \in Valid(q, A)  BY <1>3, <3>1, <3>2 DEF Valid
    <3> QED  BY <2>1, <3>3
  <2>2. ASSUME NEW m \in Valid(q, A), m[1] = i PROVE \E l \in Valid(q, s) : l[1] = i
    <3>1. m \in Matches(q, A) /\ (q = "card" => LuhnValid(SubSeq(A, m[1], m[2] - 1)))
      BY <2>2 DEF Valid
    <3>2. m \in Matches(q, s)  BY <1>2, <3>1
    <3>3. m \in Valid(q, s)  BY <1>3, <3>1, <3>2 DEF Valid
    <3> QED  BY <2>2, <3>3
  <2> QED  BY <2>1, <2>2 DEF Begins
<1>6. ASSUME NEW i \in 1..Len(B) PROVE Begins(q, s, i + a) <=> Begins(q, B, i)
  <2>1. ASSUME NEW m \in Valid(q, s), m[1] = i + a PROVE \E l \in Valid(q, B) : l[1] = i
    <3>1. m \in Matches(q, s) /\ (q = "card" => LuhnValid(SubSeq(s, m[1], m[2] - 1)))
      BY <2>1 DEF Valid
    <3>2. m \in Moved(Matches(q, B), a)
      <4>1. ASSUME m \in Matches(q, A) PROVE FALSE
        <5>1. m[1] \in 1..a  BY <1>3, <4>1
        <5> QED  BY <1>1, <2>1, <5>1
      <4> QED  BY <1>2, <3>1, <4>1
    <3>3. PICK l \in Matches(q, B) : m = <<l[1] + a, l[2] + a>>  BY <3>2 DEF Moved
    <3>4. /\ l[1] \in 1..Len(B) /\ m[1] = l[1] + a /\ m[2] = l[2] + a
          /\ SubSeq(B, l[1], l[2] - 1) = SubSeq(s, l[1] + a, (l[2] + a) - 1)
      BY <1>4, <3>3
    <3>5. l[1] = i  BY <1>1, <2>1, <3>4
    <3>6. q = "card" => LuhnValid(SubSeq(B, l[1], l[2] - 1))  BY <3>1, <3>4
    <3>7. l \in Valid(q, B)  BY <3>6 DEF Valid
    <3> QED  BY <3>5, <3>7
  <2>2. ASSUME NEW l \in Valid(q, B), l[1] = i PROVE \E m \in Valid(q, s) : m[1] = i + a
    <3> DEFINE m == <<l[1] + a, l[2] + a>>
    <3>1. l \in Matches(q, B) /\ (q = "card" => LuhnValid(SubSeq(B, l[1], l[2] - 1)))
      BY <2>2 DEF Valid
    <3>2. m \in Matches(q, s) /\ m[1] = l[1] + a /\ m[2] = l[2] + a
      BY <1>2, <3>1 DEF Moved
    <3>3. SubSeq(B, l[1], l[2] - 1) = SubSeq(s, l[1] + a, (l[2] + a) - 1)  BY <1>4, <3>1
    <3> HIDE DEF m
    <3>4. q = "card" => LuhnValid(SubSeq(s, m[1], m[2] - 1))  BY <3>1, <3>2, <3>3
    <3>5. m \in Valid(q, s)  BY <3>2, <3>4 DEF Valid
    <3> QED  BY <2>2, <3>2, <3>5
  <2> QED  BY <2>1, <2>2 DEF Begins
<1> QED  BY <1>5, <1>6 DEF a, s

\* The replacement of the whole is that of its parts.
LEMMA ReplacedSplit ==
  ASSUME NEW q \in PatternNames, NEW A, NEW B, CutAtSpace(A, B), Apart(q, A, B)
  PROVE  Replaced(q, A \o B) = Replaced(q, A) \o Replaced(q, B)
<1> DEFINE a == Len(A)
           b == Len(B)
           s == A \o B
<1>1. /\ a \in Nat \ {0} /\ b \in Nat /\ s \in Seq(Characters) /\ Len(s) = a + b
      /\ A \in Seq(Characters) /\ B \in Seq(Characters) /\ EndsWithSpace(A)
  BY CutParts DEF CutAtSpace, EndsWithSpace
<1>2. PICK r : Written(r, q, s) /\ Replaced(q, s) = r[1]  BY <1>1, ReplacedWritten
<1>3. PICK u : Written(u, q, A) /\ Replaced(q, A) = u[1]  BY <1>1, ReplacedWritten
<1>4. PICK v : Written(v, q, B) /\ Replaced(q, B) = v[1]  BY <1>1, ReplacedWritten
<1>5. /\ \A i \in 1..a + b + 1 : r[i] \in Seq(Characters)
      /\ \A i \in 1..a + 1 : u[i] \in Seq(Characters)
      /\ \A i \in 1..b + 1 : v[i] \in Seq(Characters)
      /\ r[a + b + 1] = <<>> /\ u[a + 1] = <<>> /\ v[b + 1] = <<>>
  <2>1. Len(s) + 1 = a + b + 1  BY <1>1
  <2> QED  BY <1>2, <1>3, <1>4, <2>1 DEF Written
<1>6. ASSUME NEW i \in 1..b
      PROVE  /\ ~Begins(q, B, i) =>
                  r[i + a] = <<B[i]>> \o r[(i + 1) + a] /\ v[i] = <<B[i]>> \o v[i + 1]
             /\ Begins(q, B, i) =>
                  /\ Max(Ends(q, B, i)) \in i + 1..b + 1
                  /\ r[i + a] = <<"#">> \o r[Max(Ends(q, B, i)) + a]
                  /\ v[i] = <<"#">> \o v[Max(Ends(q, B, i))]
  <2> DEFINE l == i + a
  <2>1. l \in 1..Len(s) /\ (i + 1) + a = l + 1  BY <1>1
  <2>2. s[l] = B[i]  BY CutRest
  <2>3. Begins(q, s, l) <=> Begins(q, B, i)  BY BeginsSplit
  <2>4. Ends(q, B, i) # {} => Max(Ends(q, s, l)) = Max(Ends(q, B, i)) + a  BY MaxRest
  <2>5. Begins(q, B, i) => Ends(q, B, i) # {}
    <3>1. ASSUME NEW m \in Matches(q, B), m[1] = i PROVE Ends(q, B, i) # {}
      BY <1>1, <3>1, MatchesRange
    <3> QED  BY <3>1 DEF Begins, Valid
  <2>6. /\ ~Begins(q, s, l) => r[l] = <<s[l]>> \o r[l + 1]
        /\ Begins(q, s, l) => r[l] = <<"#">> \o r[Max(Ends(q, s, l))]
    BY <1>2, <2>1 DEF Written
  <2>7. /\ ~Begins(q, B, i) => v[i] = <<B[i]>> \o v[i + 1]
        /\ Begins(q, B, i) =>
             /\ Max(Ends(q, B, i)) \in i + 1..b + 1
             /\ v[i] = <<"#">> \o v[Max(Ends(q, B, i))]
    BY <1>4 DEF Written
  <2> HIDE DEF l, s, a, b
  <2>8. l = i + a  BY DEF l
  <2> QED  BY <2>1, <2>2, <2>3, <2>4, <2>5, <2>6, <2>7, <2>8
<1>7. ASSUME NEW i \in 1..a
      PROVE  /\ ~Begins(q, A, i) => r[i] = <<A[i]>> \o r[i + 1] /\ u[i] = <<A[i]>> \o u[i + 1]
             /\ Begins(q, A, i) =>
                  /\ Max(Ends(q, A, i)) \in i + 1..a + 1
                  /\ r[i] = <<"#">> \o r[Max(Ends(q, A, i))]
                  /\ u[i] = <<"#">> \o u[Max(Ends(q, A, i))]
  <2>1. i \in 1..Len(s)  BY <1>1
  <2>2. s[i] = A[i]  BY CutParts
  <2>3. Begins(q, s, i) <=> Begins(q, A, i)  BY BeginsSplit
  <2>4. ASSUME Begins(q, A, i) PROVE Max(Ends(q, s, i)) = Max(Ends(q, A, i))
    <3>1. PICK m \in Matches(q, A) : m[1] = i  BY <2>4 DEF Begins, Valid
    <3>2. m \in Matches(q, s)  BY <3>1, MatchesSplit
    <3>3. m[2] = Max(Ends(q, A, i))  BY <1>1, <3>1, MatchesRange
    <3>4. m[2] = Max(Ends(q, s, i))  BY <1>1, <3>1, <3>2, MatchesRange
    <3> QED  BY <3>3, <3>4
  <2>5. /\ ~Begins(q, s, i) => r[i] = <<s[i]>> \o r[i + 1]
        /\ Begins(q, s, i) => r[i] = <<"#">> \o r[Max(Ends(q, s, i))]
    BY <1>2, <2>1 DEF Written
  <2>6. /\ ~Begins(q, A, i) => u[i] = <<A[i]>> \o u[i + 1]
        /\ Begins(q, A, i) =>
             /\ Max(Ends(q, A, i)) \in i + 1..a + 1
             /\ u[i] = <<"#">> \o u[Max(Ends(q, A, i))]
    BY <1>3 DEF Written
  <2> HIDE DEF s, a, b
  <2> QED  BY <2>2, <2>3, <2>4, <2>5, <2>6
<1> HIDE DEF s, a, b
<1> DEFINE Same(i) == r[i + a] = v[i]
           M == {k \in Nat : k <= b => \A i \in b + 1 - k..b + 1 : Same(i)}
<1>8. 0 \in M
  <2>1. \A i \in b + 1 - 0..b + 1 : i = b + 1  BY <1>1
  <2>2. (b + 1) + a = a + b + 1  BY <1>1
  <2>3. Same(b + 1)  BY <1>5, <2>2
  <2> HIDE DEF Same
  <2> QED  BY <1>1, <2>1, <2>3
<1>9. ASSUME NEW k \in Nat, k \in M PROVE k + 1 \in M
  <2> SUFFICES ASSUME k + 1 <= b, NEW i \in b + 1 - (k + 1)..b + 1 PROVE Same(i)
    BY DEF M
  <2>1. \A j \in b + 1 - k..b + 1 : Same(j)
    <3> HIDE DEF Same
    <3> QED  BY <1>1, <1>9
  <2>2. i \in b + 1 - k..b + 1 \/ (i = b - k /\ i \in 1..b)  BY <1>1
  <2>3. CASE i = b - k /\ i \in 1..b
    <3>1. CASE ~Begins(q, B, i)
      <4>1. i + 1 \in b + 1 - k..b + 1  BY <1>1, <2>3
      <4>2. Same(i + 1)  BY <2>1, <4>1
      <4> QED  BY <1>6, <2>3, <3>1, <4>2
    <3>2. CASE Begins(q, B, i)
      <4> DEFINE e == Max(Ends(q, B, i))
      <4>1. e \in i + 1..b + 1 /\ r[i + a] = <<"#">> \o r[e + a] /\ v[i] = <<"#">> \o v[e]
        BY <1>6, <2>3, <3>2
      <4> HIDE DEF e
      <4>2. e \in b + 1 - k..b + 1  BY <1>1, <2>3, <4>1
      <4>3. Same(e)  BY <2>1, <4>2
      <4> QED  BY <4>1, <4>3
    <3> QED  BY <3>1, <3>2
  <2> HIDE DEF Same
  <2> QED  BY <2>1, <2>2, <2>3
<1> HIDE DEF M
<1>10. b \in M  BY <1>1, <1>8, <1>9, Induction
<1>11. r[a + 1] = v[1]
  <2>1. b + 1 - b = 1 /\ 1 \in b + 1 - b..b + 1 /\ 1 + a = a + 1  BY <1>1
  <2>2. Same(1)
    <3> HIDE DEF Same
    <3> QED  BY <1>1, <1>10, <2>1 DEF M
  <2> QED  BY <2>1, <2>2
<1> HIDE DEF Same
<1> DEFINE Good(i) == r[i] = u[i] \o v[1]
           N == {k \in Nat : k <= a => \A i \in a + 1 - k..a + 1 : Good(i)}
<1>12. v[1] \in Seq(Characters)  BY <1>1, <1>5
<1>13. 0 \in N
  <2>1. \A i \in a + 1 - 0..a + 1 : i = a + 1  BY <1>1
  <2>2. Good(a + 1)  BY <1>5, <1>11, <1>12, ConcatEmptySeq
  <2> HIDE DEF Good
  <2> QED  BY <1>1, <2>1, <2>2
<1>14. ASSUME NEW k \in Nat, k \in N PROVE k + 1 \in N
  <2> HIDE DEF Good
  <2> SUFFICES ASSUME k + 1 <= a, NEW i \in a + 1 - (k + 1)..a + 1 PROVE Good(i)
    BY DEF N
  <2> USE DEF Good
  <2>1. \A j \in a + 1 - k..a + 1 : Good(j)
    <3> HIDE DEF Good
    <3> QED  BY <1>1, <1>14
  <2>2. i \in a + 1 - k..a + 1 \/ (i = a - k /\ i \in 1..a)  BY <1>1
  <2>3. CASE i = a - k /\ i \in 1..a
    <3>1. CASE ~Begins(q, A, i)
      <4>1. i + 1 \in a + 1 - k..a + 1 /\ i + 1 \in 1..a + 1  BY <1>1, <2>3
      <4>2. Good(i + 1)  BY <2>1, <4>1
      <4>3. u[i + 1] \in Seq(Characters)  BY <1>5, <4>1
      <4>4. <<A[i]>> \in Seq(Characters)
        <5>1. A[i] \in Characters  BY <1>1, <2>3, ElementOfSeq DEF a
        <5> QED  BY <5>1
      <4> DEFINE x == <<A[i]>>
                 y == u[i + 1]
                 z == v[1]
      <4> HIDE DEF x, y, z
      <4>7. x \in Seq(Characters) /\ y \in Seq(Characters) /\ z \in Seq(Characters)
        BY <1>12, <4>3, <4>4 DEF x, y, z
      <4>8. (x \o y) \o z = x \o (y \o z)  BY <4>7, ConcatAll
      <4>5. (<<A[i]>> \o u[i + 1]) \o v[1] = <<A[i]>> \o (u[i + 1] \o v[1])
        BY <4>8 DEF x, y, z
      <4>6. r[i] = <<A[i]>> \o r[i + 1] /\ u[i] = <<A[i]>> \o u[i + 1]  BY <1>7, <2>3, <3>1
      <4> QED  BY <4>2, <4>5, <4>6
    <3>2. CASE Begins(q, A, i)
      <4> DEFINE e == Max(Ends(q, A, i))
      <4>1. e \in i + 1..a + 1 /\ r[i] = <<"#">> \o r[e] /\ u[i] = <<"#">> \o u[e]
        BY <1>7, <2>3, <3>2
      <4> HIDE DEF e
      <4>2. e \in a + 1 - k..a + 1 /\ e \in 1..a + 1  BY <1>1, <2>3, <4>1
      <4>3. Good(e)  BY <2>1, <4>2
      <4>4. u[e] \in Seq(Characters)  BY <1>5, <4>2
      <4>5. <<"#">> \in Seq(Characters)
        <5>1. "#" \in Characters  BY DEF Characters
        <5> QED  BY <5>1
      <4> DEFINE x == <<"#">>
                 y == u[e]
                 z == v[1]
      <4> HIDE DEF x, y, z
      <4>7. x \in Seq(Characters) /\ y \in Seq(Characters) /\ z \in Seq(Characters)
        BY <1>12, <4>4, <4>5 DEF x, y, z
      <4>8. (x \o y) \o z = x \o (y \o z)  BY <4>7, ConcatAll
      <4>6. (<<"#">> \o u[e]) \o v[1] = <<"#">> \o (u[e] \o v[1])
        BY <4>8 DEF x, y, z
      <4> QED  BY <4>1, <4>3, <4>6
    <3> QED  BY <3>1, <3>2
  <2> HIDE DEF Good
  <2> QED  BY <2>1, <2>2, <2>3
<1> HIDE DEF N
<1>15. a \in N  BY <1>1, <1>13, <1>14, Induction
<1>16. Good(1)
  <2> HIDE DEF Good
  <2>1. a + 1 - a = 1 /\ 1 \in a + 1 - a..a + 1  BY <1>1
  <2> QED  BY <1>1, <1>15, <2>1 DEF N
<1>17. Replaced(q, s) = Replaced(q, A) \o Replaced(q, B)  BY <1>2, <1>3, <1>4, <1>16
<1> QED  BY <1>17 DEF s

-----------------------------------------------------------------------------
(* The three passes, and what they leave of a text's end and beginning.    *)

\* One pattern after the other.
LEMMA RedactSteps ==
  ASSUME NEW t
  PROVE  Redact(t) = Replaced("bearer", Replaced("card", Replaced("email", t)))
<1> DEFINE one == Replaced("email", t)
           two == Replaced("card", one)
           three == Replaced("bearer", two)
           Body(g, p) == IF p = 0 THEN t ELSE Replaced(Patterns[p], g[p - 1])
           F == CHOOSE g : g = [p \in 0..Len(Patterns) |-> Body(g, p)]
           f == [p \in 0..3 |-> IF p = 0 THEN t ELSE IF p = 1 THEN one ELSE IF p = 2 THEN two ELSE three]
<1>1. /\ Len(Patterns) = 3
      /\ Patterns[1] = "email" /\ Patterns[2] = "card" /\ Patterns[3] = "bearer"
  BY DEF Patterns
<1>2. ASSUME NEW p \in 0..3 PROVE f[p] = Body(f, p)
  <2>1. f[0] = t /\ f[1] = one /\ f[2] = two /\ f[3] = three  OBVIOUS
  <2> HIDE DEF f
  <2>2. CASE p = 0  BY <2>1, <2>2
  <2>3. CASE p = 1  BY <1>1, <2>1, <2>3
  <2>4. CASE p = 2  BY <1>1, <2>1, <2>4
  <2>5. CASE p = 3  BY <1>1, <2>1, <2>5
  <2> QED  BY <2>2, <2>3, <2>4, <2>5
<1>3. f = [p \in 0..Len(Patterns) |-> Body(f, p)]
  <2> HIDE DEF Body
  <2>1. f = [p \in 0..3 |-> f[p]]  OBVIOUS
  <2> HIDE DEF f
  <2> QED  BY <1>1, <1>2, <2>1
<1>4. F = [p \in 0..Len(Patterns) |-> Body(F, p)]
  <2> HIDE DEF Body, f
  <2> QED  BY <1>3
<1>5. Redact(t) = F[3]
  <2>1. Redact(t) = F[Len(Patterns)]  BY DEF Redact
  <2> QED  BY <1>1, <2>1
<1> HIDE DEF F
<1>6. \A p \in 0..3 : F[p] = Body(F, p)
  <2> HIDE DEF Body
  <2> QED  BY <1>1, <1>4
<1>7. F[0] = t  BY <1>6
<1>8. F[1] = one
  <2>1. F[1] = Body(F, 1) /\ 1 - 1 = 0 /\ ~(1 = 0)  BY <1>6
  <2> QED  BY <1>1, <1>7, <2>1
<1>9. F[2] = two
  <2>1. F[2] = Body(F, 2) /\ 2 - 1 = 1 /\ ~(2 = 0)  BY <1>6
  <2> QED  BY <1>1, <1>8, <2>1
<1>10. F[3] = three
  <2>1. F[3] = Body(F, 3) /\ 3 - 1 = 2 /\ ~(3 = 0)  BY <1>6
  <2> QED  BY <1>1, <1>9, <2>1
<1> QED  BY <1>5, <1>10

\* It is a text again.
LEMMA RedactType ==
  ASSUME NEW t \in Seq(Characters)
  PROVE  Redact(t) \in Seq(Characters)
BY RedactSteps, ReplacedType

\* Nothing comes of nothing.
LEMMA RedactEmpty == Redact(<<>>) = <<>>
<1>1. <<>> \in Seq(Characters) /\ Len(<<>>) = 0  BY EmptySeq
<1>2. ASSUME NEW q PROVE Replaced(q, <<>>) = <<>>
  <2>1. PICK r : Written(r, q, <<>>) /\ Replaced(q, <<>>) = r[1]  BY <1>1, ReplacedWritten
  <2>2. r[Len(<<>>) + 1] = <<>>  BY <2>1 DEF Written
  <2>3. Len(<<>>) + 1 = 1  BY <1>1
  <2> QED  BY <2>1, <2>2, <2>3
<1> QED  BY <1>2, RedactSteps

\* A character in front of a text.
LEMMA Prepended ==
  ASSUME NEW c \in Characters, NEW v \in Seq(Characters), NEW w, w = <<c>> \o v
  PROVE  /\ Len(v) \in Nat /\ Len(w) = Len(v) + 1 /\ w[1] = c
         /\ \A k \in 1..Len(v) : w[k + 1] = v[k]
         /\ \A k \in 0..Len(v) - 1 : w[Len(w) - k] = v[Len(v) - k]
<1>1. <<c>> \in Seq(Characters) /\ Len(<<c>>) = 1 /\ <<c>>[1] = c  OBVIOUS
<1>2. Len(v) \in Nat  BY LenProperties
<1> DEFINE x == <<c>>
<1> HIDE DEF x
<1>3. x \in Seq(Characters) /\ Len(x) = 1 /\ x[1] = c /\ w = x \o v  BY <1>1 DEF x
<1>4. /\ Len(w) = Len(x) + Len(v)
      /\ \A i \in 1..Len(x) + Len(v) : w[i] = IF i <= Len(x) THEN x[i] ELSE v[i - Len(x)]
  BY <1>3, ConcatProperties
<1>5. Len(w) = Len(v) + 1 /\ w[1] = c  BY <1>2, <1>3, <1>4
<1>6. ASSUME NEW k \in 1..Len(v) PROVE w[k + 1] = v[k]
  <2>1. k + 1 \in 1..Len(x) + Len(v) /\ ~(k + 1 <= Len(x)) /\ (k + 1) - Len(x) = k  BY <1>2, <1>3
  <2> QED  BY <1>4, <2>1
<1>7. ASSUME NEW k \in 0..Len(v) - 1 PROVE w[Len(w) - k] = v[Len(v) - k]
  <2>1. PICK l : l = Len(v) - k  OBVIOUS
  <2>2. l \in 1..Len(v) /\ Len(w) - k = l + 1  BY <1>2, <1>5, <2>1
  <2> QED  BY <1>6, <2>1, <2>2
<1> QED  BY <1>2, <1>5, <1>6, <1>7

\* No match gets into the last n characters.
Ended(q, t, n) == \A i \in 1..Len(t) : \A e \in Ends(q, t, i) : e <= Len(t) + 1 - n

\* The last n characters of w are those of t.
SameEnd(w, t, n) == Len(w) >= n /\ \A k \in 0..n - 1 : w[Len(w) - k] = t[Len(t) - k]

\* What stands before the last n characters stood there, or has replaced a match
\* that ended there.
Before(w, q, t, n) ==
  \/ w[Len(w) - n] = t[Len(t) - n]
  \/ w[Len(w) - n] = "#" /\ \E m \in Matches(q, t) : m[2] = Len(t) + 1 - n

\* An end without a match is kept.
LEMMA TailKept ==
  ASSUME NEW q, NEW t \in Seq(Characters), NEW n \in 1..Len(t), Ended(q, t, n)
  PROVE  LET w == Replaced(q, t) IN
           /\ w \in Seq(Characters) /\ SameEnd(w, t, n)
           /\ Len(t) = n <=> Len(w) = n
           /\ Len(t) > n => Before(w, q, t, n)
<1> DEFINE a == Len(t)
           j == a + 1 - n
<1>1. a \in Nat /\ j \in 1..a /\ n \in 1..a  BY LenProperties
<1>2. PICK u : Written(u, q, t) /\ Replaced(q, t) = u[1]  BY ReplacedWritten
<1>3. \A i \in 1..a + 1 : u[i] \in Seq(Characters) /\ Len(u[i]) \in Nat
  BY <1>2, LenProperties DEF Written
<1>4. u[a + 1] = <<>>  BY <1>2 DEF Written
<1>5. ASSUME NEW i \in 1..a
      PROVE  \E m \in i + 1..a + 1 : \E c \in Characters :
               /\ u[i] = <<c>> \o u[m]
               /\ \/ m = i + 1 /\ c = t[i]
                  \/ c = "#" /\ m \in Ends(q, t, i) /\ \E l \in Matches(q, t) : l[2] = m
  <2>1. CASE ~Begins(q, t, i)
    <3>1. u[i] = <<t[i]>> \o u[i + 1]  BY <1>2, <2>1 DEF Written
    <3>2. i + 1 \in i + 1..a + 1  BY <1>1
    <3>3. t[i] \in Characters  BY ElementOfSeq
    <3> QED  BY <3>1, <3>2, <3>3
  <2>2. CASE Begins(q, t, i)
    <3>1. u[i] = <<"#">> \o u[Max(Ends(q, t, i))]  BY <1>2, <2>2 DEF Written
    <3>2. PICK l \in Matches(q, t) : l[1] = i  BY <2>2 DEF Begins, Valid
    <3>3. /\ Max(Ends(q, t, i)) \in Ends(q, t, i) /\ Max(Ends(q, t, i)) \in i + 1..a + 1
          /\ l[2] = Max(Ends(q, t, i))
      BY <3>2, MatchesRange
    <3>4. "#" \in Characters  BY DEF Characters
    <3> QED  BY <3>1, <3>3, <3>4
  <2> QED  BY <2>1, <2>2
<1>6. \A i \in 1..a : \A e \in Ends(q, t, i) : e <= j  BY DEF Ended
<1>7. \A i \in 1..a : \A e \in Ends(q, t, i) : e \in i + 1..a + 1  BY EndsRange
<1> DEFINE Kept(i) == Len(u[i]) = a + 1 - i /\ \A k \in 0..a - i : u[i][Len(u[i]) - k] = t[a - k]
           Over(i) ==
             /\ Len(u[i]) > n /\ \A k \in 0..n - 1 : u[i][Len(u[i]) - k] = t[a - k]
             /\ \/ u[i][Len(u[i]) - n] = t[a - n]
                \/ u[i][Len(u[i]) - n] = "#" /\ \E l \in Matches(q, t) : l[2] = j
           Good(i) == (i >= j => Kept(i)) /\ (i < j => Over(i))
           N == {k \in Nat : k <= a => \A i \in a + 1 - k..a + 1 : Good(i)}
<1> HIDE DEF a, j
<1>8. a = Len(t) /\ j = a + 1 - n  BY DEF a, j
<1>9. 0 \in N
  <2>1. \A i \in a + 1 - 0..a + 1 : i = a + 1  BY <1>1
  <2>2. Len(u[a + 1]) = 0  BY <1>4
  <2>3. Kept(a + 1)  BY <1>1, <2>2
  <2>4. a + 1 >= j /\ ~(a + 1 < j)  BY <1>1
  <2> HIDE DEF Kept, Over
  <2>5. Good(a + 1)  BY <2>3, <2>4
  <2> HIDE DEF Good
  <2> QED  BY <1>1, <2>1, <2>5
<1>10. ASSUME NEW k \in Nat, k \in N PROVE k + 1 \in N
  <2> HIDE DEF Good
  <2> SUFFICES ASSUME k + 1 <= a, NEW i \in a + 1 - (k + 1)..a + 1 PROVE Good(i)
    BY DEF N
  <2>1. \A l \in a + 1 - k..a + 1 : Good(l)  BY <1>1, <1>10
  <2>2. i \in a + 1 - k..a + 1 \/ (i = a - k /\ i \in 1..a)  BY <1>1
  <2>3. ASSUME i = a - k, i \in 1..a PROVE Good(i)
    <3>1. PICK m \in i + 1..a + 1 : \E c \in Characters :
               /\ u[i] = <<c>> \o u[m]
               /\ \/ m = i + 1 /\ c = t[i]
                  \/ c = "#" /\ m \in Ends(q, t, i) /\ \E l \in Matches(q, t) : l[2] = m
      BY <1>5, <2>3
    <3>2. PICK c \in Characters :
               /\ u[i] = <<c>> \o u[m]
               /\ \/ m = i + 1 /\ c = t[i]
                  \/ c = "#" /\ m \in Ends(q, t, i) /\ \E l \in Matches(q, t) : l[2] = m
      BY <3>1
    <3>3. m \in a + 1 - k..a + 1 /\ m \in 1..a + 1 /\ m \in Nat /\ m > i  BY <1>1, <2>3
    <3>4. Good(m)  BY <2>1, <3>3
    <3> DEFINE w == u[i]
               v == u[m]
    <3>5. v \in Seq(Characters) /\ Len(v) \in Nat  BY <1>3, <3>3
    <3> HIDE DEF w, v
    <3>6. w = <<c>> \o v  BY <3>2 DEF w, v
    <3>7. /\ Len(w) = Len(v) + 1 /\ w[1] = c
          /\ \A x \in 0..Len(v) - 1 : w[Len(w) - x] = v[Len(v) - x]
      BY <3>5, <3>6, Prepended
    <3>8. CASE i >= j
      <4>1. m = i + 1 /\ c = t[i]
        <5>1. m \in Ends(q, t, i) => m <= j  BY <1>6, <2>3
        <5> QED  BY <1>1, <2>3, <3>2, <3>3, <3>8, <5>1
      <4>2. m >= j  BY <1>1, <2>3, <3>8, <4>1
      <4>3. Len(v) = a + 1 - m /\ \A x \in 0..a - m : v[Len(v) - x] = t[a - x]
        BY <3>4, <4>2 DEF Good, v
      <4>4. Len(w) = a + 1 - i /\ Len(v) = a - i  BY <1>1, <2>3, <3>7, <4>1, <4>3
      <4>5. ASSUME NEW x \in 0..a - i PROVE w[Len(w) - x] = t[a - x]
        <5>1. CASE x \in 0..a - m
          <6>1. x \in 0..Len(v) - 1  BY <1>1, <2>3, <4>1, <4>4, <5>1
          <6> QED  BY <3>7, <4>3, <5>1, <6>1
        <5>2. CASE x = a - i
          <6>1. Len(w) - x = 1 /\ a - x = i  BY <1>1, <2>3, <4>4, <5>2
          <6> QED  BY <3>7, <4>1, <6>1
        <5>3. x \in 0..a - m \/ x = a - i  BY <1>1, <2>3, <4>1
        <5> QED  BY <5>1, <5>2, <5>3
      <4>6. Kept(i)  BY <4>4, <4>5 DEF w
      <4>7. ~(i < j)  BY <1>1, <2>3, <3>8
      <4> HIDE DEF Kept, Over
      <4> QED  BY <4>6, <4>7 DEF Good
    <3>9. CASE i < j
      <4>1. m <= j
        <5>1. m \in Ends(q, t, i) => m <= j  BY <1>6, <2>3
        <5> QED  BY <1>1, <2>3, <3>2, <3>3, <3>9, <5>1
      <4>2. CASE m = j
        <5>1. Len(v) = n /\ \A x \in 0..n - 1 : v[Len(v) - x] = t[a - x]
          <6>1. a + 1 - m = n /\ a - m = n - 1 /\ m >= j  BY <1>1, <1>8, <4>2
          <6>2. Len(v) = a + 1 - m /\ \A x \in 0..a - m : v[Len(v) - x] = t[a - x]
            BY <3>4, <6>1 DEF Good, v
          <6> QED  BY <6>1, <6>2
        <5>2. Len(w) > n /\ Len(w) - n = 1  BY <1>1, <3>7, <5>1
        <5>3. \A x \in 0..n - 1 : w[Len(w) - x] = t[a - x]  BY <3>7, <5>1
        <5>4. c = t[a - n] \/ (c = "#" /\ \E l \in Matches(q, t) : l[2] = j)
          <6>1. m = i + 1 => i = a - n  BY <1>1, <1>8, <2>3, <4>2
          <6> QED  BY <3>2, <4>2, <6>1
        <5>5. \/ w[Len(w) - n] = t[a - n]
              \/ w[Len(w) - n] = "#" /\ \E l \in Matches(q, t) : l[2] = j
          BY <2>3, <3>7, <5>2, <5>4
        <5>6. Over(i)  BY <5>2, <5>3, <5>5 DEF w
        <5>7. ~(i >= j)  BY <1>1, <2>3, <3>9
        <5> HIDE DEF Kept, Over
        <5> QED  BY <5>6, <5>7 DEF Good
      <4>3. CASE m < j
        <5>1. /\ Len(v) > n /\ \A x \in 0..n - 1 : v[Len(v) - x] = t[a - x]
              /\ \/ v[Len(v) - n] = t[a - n]
                 \/ v[Len(v) - n] = "#" /\ \E l \in Matches(q, t) : l[2] = j
          BY <3>4, <4>3 DEF Good, v
        <5>2. Len(w) > n /\ n \in 0..Len(v) - 1 /\ \A x \in 0..n - 1 : x \in 0..Len(v) - 1
          BY <1>1, <3>5, <3>7, <5>1
        <5>3. \A x \in 0..n - 1 : w[Len(w) - x] = t[a - x]  BY <3>7, <5>1, <5>2
        <5>4. w[Len(w) - n] = v[Len(v) - n]  BY <3>7, <5>2
        <5>5. Over(i)  BY <5>1, <5>2, <5>3, <5>4 DEF w
        <5>6. ~(i >= j)  BY <1>1, <2>3, <3>9
        <5> HIDE DEF Kept, Over
        <5> QED  BY <5>5, <5>6 DEF Good
      <4> QED  BY <1>1, <3>3, <4>1, <4>2, <4>3
    <3> QED  BY <1>1, <2>3, <3>8, <3>9
  <2> QED  BY <2>1, <2>2, <2>3
<1> HIDE DEF N
<1>11. a \in N  BY <1>1, <1>9, <1>10, Induction
<1>12. Good(1)
  <2> HIDE DEF Good
  <2>1. a + 1 - a = 1 /\ 1 \in a + 1 - a..a + 1  BY <1>1
  <2> QED  BY <1>1, <1>11, <2>1 DEF N
<1>13. u[1] \in Seq(Characters) /\ Len(u[1]) \in Nat  BY <1>1, <1>3
<1>14. CASE j = 1
  <2>1. a = n /\ 1 >= j /\ a - 1 = n - 1  BY <1>1, <1>8, <1>14
  <2>2. Kept(1)
    <3> HIDE DEF Kept, Over
    <3> QED  BY <1>12, <2>1
  <2>3. Len(u[1]) = n /\ \A k \in 0..n - 1 : u[1][Len(u[1]) - k] = t[a - k]
    BY <1>1, <2>1, <2>2
  <2>4. ~(Len(t) > n)  BY <1>1, <1>8, <2>1
  <2>5. Len(t) = n /\ Len(u[1]) = n  BY <1>1, <1>8, <2>1, <2>3
  <2>6. Len(u[1]) >= n  BY <1>1, <2>5
  <2>7. SameEnd(u[1], t, n)  BY <1>8, <2>3, <2>6 DEF SameEnd
  <2> QED  BY <1>2, <1>13, <2>4, <2>5, <2>7
<1>15. CASE j > 1
  <2>1. a > n /\ 1 < j  BY <1>1, <1>8, <1>15
  <2>2. Over(1)
    <3> HIDE DEF Kept, Over
    <3> QED  BY <1>12, <2>1
  <2>6. Len(u[1]) > n /\ \A k \in 0..n - 1 : u[1][Len(u[1]) - k] = t[a - k]  BY <2>2
  <2>7. Len(u[1]) >= n  BY <1>1, <1>13, <2>6
  <2>3. SameEnd(u[1], t, n)  BY <1>8, <2>6, <2>7 DEF SameEnd
  <2>4. Before(u[1], q, t, n)  BY <1>8, <2>2 DEF Before
  <2>5. ~(Len(t) = n) /\ ~(Len(u[1]) = n)  BY <1>1, <1>8, <1>13, <2>1, <2>6
  <2> QED  BY <1>2, <1>13, <2>3, <2>4, <2>5
<1> QED  BY <1>1, <1>14, <1>15

\* A beginning without a replacement is kept, and what comes next is kept or
\* has been replaced.
LEMMA HeadKept ==
  ASSUME NEW q, NEW t \in Seq(Characters), NEW n \in 0..Len(t) - 1,
         \A i \in 1..n : ~Begins(q, t, i)
  PROVE  LET w == Replaced(q, t) IN
           /\ Len(w) \in Nat /\ Len(w) > n
           /\ \A i \in 1..n : w[i] = t[i]
           /\ w[n + 1] = IF Begins(q, t, n + 1) THEN "#" ELSE t[n + 1]
<1> DEFINE a == Len(t)
<1>1. a \in Nat /\ n \in Nat /\ n + 1 \in 1..a  BY LenProperties
<1>2. PICK u : Written(u, q, t) /\ Replaced(q, t) = u[1]  BY ReplacedWritten
<1>3. \A i \in 1..a + 1 : u[i] \in Seq(Characters) /\ Len(u[i]) \in Nat
  BY <1>2, LenProperties DEF Written
<1>4. ASSUME NEW i \in 1..a, ~Begins(q, t, i)
      PROVE  /\ u[i] = <<t[i]>> \o u[i + 1] /\ t[i] \in Characters
             /\ u[i + 1] \in Seq(Characters)
  <2>1. u[i] = <<t[i]>> \o u[i + 1]  BY <1>2, <1>4 DEF Written
  <2>2. i + 1 \in 1..a + 1  BY <1>1
  <2>3. t[i] \in Characters  BY ElementOfSeq
  <2> QED  BY <1>3, <2>1, <2>2, <2>3
<1>5. ASSUME Begins(q, t, n + 1)
      PROVE  \E v \in Seq(Characters) : u[n + 1] = <<"#">> \o v
  <2> DEFINE d == n + 1
  <2>1. d \in 1..a  BY <1>1
  <2>2. /\ Max(Ends(q, t, d)) \in d + 1..a + 1
        /\ u[d] = <<"#">> \o u[Max(Ends(q, t, d))]
    BY <1>2, <1>5, <2>1 DEF Written
  <2> DEFINE e == Max(Ends(q, t, d))
  <2> HIDE DEF e
  <2>3. e \in d + 1..a + 1 /\ u[d] = <<"#">> \o u[e]  BY <2>2 DEF e
  <2> HIDE DEF d
  <2>4. e \in 1..a + 1  BY <1>1, <2>1, <2>3
  <2>5. u[e] \in Seq(Characters)  BY <1>3, <2>4
  <2>6. u[d] = <<"#">> \o u[e]  BY <2>3
  <2> QED  BY <2>5, <2>6 DEF d
<1> HIDE DEF a
<1>6. /\ Len(u[n + 1]) > 0
      /\ u[n + 1][1] = IF Begins(q, t, n + 1) THEN "#" ELSE t[n + 1]
  <2> DEFINE d == n + 1
  <2>1. d \in 1..a  BY <1>1
  <2> HIDE DEF d
  <2>2. CASE Begins(q, t, n + 1)
    <3>1. PICK v \in Seq(Characters) : u[d] = <<"#">> \o v  BY <1>5, <2>2 DEF d
    <3>2. "#" \in Characters  BY DEF Characters
    <3>3. Len(v) \in Nat /\ Len(u[d]) = Len(v) + 1 /\ u[d][1] = "#"  BY <3>1, <3>2, Prepended
    <3>4. Len(u[d]) > 0  BY <3>3
    <3> QED  BY <2>2, <3>3, <3>4 DEF d
  <2>3. CASE ~Begins(q, t, n + 1)
    <3>1. ~Begins(q, t, d)  BY <2>3 DEF d
    <3>2. u[d] = <<t[d]>> \o u[d + 1] /\ t[d] \in Characters /\ u[d + 1] \in Seq(Characters)
      BY <1>4, <2>1, <3>1
    <3> DEFINE c == t[d]
               v == u[d + 1]
    <3> HIDE DEF c, v
    <3>3. u[d] = <<c>> \o v /\ c \in Characters /\ v \in Seq(Characters)  BY <3>2 DEF c, v
    <3>4. Len(v) \in Nat /\ Len(u[d]) = Len(v) + 1 /\ u[d][1] = c  BY <3>3, Prepended
    <3>5. Len(u[d]) > 0 /\ u[d][1] = t[d]  BY <3>4 DEF c
    <3> QED  BY <2>3, <3>5 DEF d
  <2> QED  BY <2>2, <2>3
<1> DEFINE Good(l) == /\ Len(u[1]) = l + Len(u[l + 1])
                      /\ \A i \in 1..l : u[1][i] = t[i]
                      /\ \A k \in 1..Len(u[l + 1]) : u[1][l + k] = u[l + 1][k]
           N == {l \in Nat : l <= n => Good(l)}
<1>7. 0 \in N
  <2>1. Len(u[1]) \in Nat /\ 0 + 1 = 1  BY <1>1, <1>3
  <2>2. \A k \in 1..Len(u[1]) : 0 + k = k  OBVIOUS
  <2>3. Good(0)  BY <2>1, <2>2
  <2> HIDE DEF Good
  <2> QED  BY <2>3
<1>8. ASSUME NEW l \in Nat, l \in N PROVE l + 1 \in N
  <2> HIDE DEF Good
  <2> SUFFICES ASSUME l + 1 <= n PROVE Good(l + 1)
    BY DEF N
  <2>1. Good(l)  BY <1>1, <1>8
  <2> DEFINE d == l + 1
             w == u[1]
             c == t[d]
             v == u[d + 1]
  <2>2. d \in 1..a /\ d \in 1..n /\ d + 1 \in 1..a + 1  BY <1>1
  <2>3. ~Begins(q, t, d)  BY <2>2
  <2> HIDE DEF d
  <2>4. u[d] = <<c>> \o v /\ c \in Characters /\ v \in Seq(Characters)  BY <1>4, <2>2, <2>3
  <2> DEFINE x == u[d]
  <2> HIDE DEF w, c, v, x
  <2>5. x = <<c>> \o v  BY <2>4 DEF x
  <2>6. /\ Len(v) \in Nat /\ Len(x) = Len(v) + 1 /\ x[1] = c
        /\ \A k \in 1..Len(v) : x[k + 1] = v[k]
    BY <2>4, <2>5, Prepended
  <2>7. /\ Len(w) = l + Len(x)
        /\ \A i \in 1..l : w[i] = t[i]
        /\ \A k \in 1..Len(x) : w[l + k] = x[k]
    BY <2>1 DEF Good, w, x, d
  <2>8. d = l + 1  BY DEF d
  <2>9. Len(w) = d + Len(v)  BY <2>6, <2>7, <2>8
  <2>10. ASSUME NEW i \in 1..d PROVE w[i] = t[i]
    <3>1. w[l + 1] = c  BY <2>6, <2>7
    <3>2. w[d] = t[d]  BY <2>8, <3>1 DEF c
    <3>3. i \in 1..l \/ i = d  BY <2>8
    <3> QED  BY <2>7, <3>2, <3>3
  <2>11. ASSUME NEW k \in 1..Len(v) PROVE w[d + k] = v[k]
    <3>1. k + 1 \in 1..Len(x) /\ l + (k + 1) = d + k  BY <2>6, <2>8
    <3> QED  BY <2>6, <2>7, <3>1
  <2>12. Good(d)  BY <2>9, <2>10, <2>11 DEF Good, w, v
  <2> QED  BY <2>8, <2>12
<1> HIDE DEF N
<1>9. n \in N  BY <1>1, <1>7, <1>8, Induction
<1>10. Good(n)
  <2> HIDE DEF Good
  <2>1. n <= n  BY <1>1
  <2> QED  BY <1>9, <2>1 DEF N
<1>11. /\ Len(u[1]) \in Nat /\ Len(u[1]) > n
       /\ \A i \in 1..n : u[1][i] = t[i]
       /\ u[1][n + 1] = u[n + 1][1]
  <2> DEFINE x == u[n + 1]
             w == u[1]
  <2>1. /\ Len(w) = n + Len(x) /\ \A i \in 1..n : w[i] = t[i]
        /\ \A k \in 1..Len(x) : w[n + k] = x[k]
    BY <1>10
  <2>2. Len(x) \in Nat /\ Len(x) > 0  BY <1>1, <1>3, <1>6
  <2> HIDE DEF x, w
  <2>3. Len(w) \in Nat /\ Len(w) > n /\ 1 \in 1..Len(x)  BY <1>1, <2>1, <2>2
  <2>4. w[n + 1] = x[1]  BY <2>1, <2>3
  <2> QED  BY <2>1, <2>3, <2>4 DEF w, x
<1> HIDE DEF Good
<1> QED  BY <1>2, <1>6, <1>11

\* So where no replacement shows none has been made.
LEMMA HeadShown ==
  ASSUME NEW q, NEW t \in Seq(Characters), NEW n \in 0..Len(t),
         \A i \in 1..n : Replaced(q, t)[i] # "#"
  PROVE  /\ \A i \in 1..n : ~Begins(q, t, i) /\ Replaced(q, t)[i] = t[i]
<1>1. n \in Nat /\ Len(t) \in Nat  BY LenProperties
<1> DEFINE T == {i \in 1..n : Begins(q, t, i)}
<1>2. T = {}
  <2> SUFFICES ASSUME T # {} PROVE FALSE
    OBVIOUS
  <2>1. T \subseteq Nat  OBVIOUS
  <2>2. PICK m \in T : \A k \in T : m <= k
    <3> HIDE DEF T
    <3> QED  BY <2>1, LeastNumber
  <2>3. m \in 1..n /\ Begins(q, t, m)  OBVIOUS
  <2>4. \A i \in 1..m - 1 : ~Begins(q, t, i)
    <3>1. \A i \in 1..m - 1 : i \in 1..n /\ ~(m <= i)  BY <1>1, <2>3
    <3> QED  BY <2>2, <3>1
  <2>5. PICK l : l = m - 1  OBVIOUS
  <2>6. l \in 0..Len(t) - 1 /\ m = l + 1 /\ l \in Nat  BY <1>1, <2>3, <2>5
  <2>7. \A i \in 1..l : ~Begins(q, t, i)  BY <2>4, <2>5
  <2>8. Replaced(q, t)[l + 1] = "#"  BY <2>3, <2>6, <2>7, HeadKept
  <2> QED  BY <2>3, <2>6, <2>8
<1>3. \A i \in 1..n : ~Begins(q, t, i)  BY <1>2
<1> HIDE DEF T
<1>4. CASE n = 0  BY <1>4
<1>5. CASE n > 0
  <2>1. PICK l : l = n - 1  OBVIOUS
  <2>2. l \in 0..Len(t) - 1 /\ n = l + 1 /\ l \in Nat  BY <1>1, <1>5, <2>1
  <2>3. \A i \in 1..l : ~Begins(q, t, i)  BY <1>1, <1>3, <2>2
  <2>4. ~Begins(q, t, l + 1)  BY <1>1, <1>3, <1>5, <2>2
  <2>5. /\ \A i \in 1..l : Replaced(q, t)[i] = t[i]
        /\ Replaced(q, t)[l + 1] = t[l + 1]
    BY <2>2, <2>3, <2>4, HeadKept
  <2>6. \A i \in 1..n : i \in 1..l \/ i = l + 1  BY <2>2
  <2> QED  BY <1>3, <2>5, <2>6
<1> QED  BY <1>1, <1>4, <1>5

-----------------------------------------------------------------------------
(* No pass makes a match that gets beyond the cut.                         *)

Space == " "

\* The name of a space says nothing else.
LEMMA SpaceOnly ==
  /\ Space # "d" /\ Space # "t" /\ Space # "B" /\ Space # "#" /\ Space # "@"
  /\ ~IsWord(Space)
BY DEF Space, IsWord

\* CutAtSpace, BearerEnds and CardEnds of a space that has a name.
LEMMA CutSpace ==
  ASSUME NEW A, NEW B, CutAtSpace(A, B)
  PROVE  /\ A \in Seq(Characters) /\ B \in Seq(Characters)
         /\ Len(A) \in Nat \ {0} /\ A[Len(A)] = Space /\ (A \o B)[Len(A)] = Space
<1>1. (A \o B)[Len(A)] = " "  BY CutParts
<1> QED  BY <1>1 DEF CutAtSpace, Space

\* The whole text, position by position.
LEMMA CutConcat ==
  ASSUME NEW A, NEW B, CutAtSpace(A, B)
  PROVE  /\ A \o B \in Seq(Characters) /\ Len(A) \in Nat \ {0} /\ Len(B) \in Nat
         /\ Len(A \o B) = Len(A) + Len(B)
         /\ \A i \in 1..Len(A) : (A \o B)[i] = A[i]
         /\ \A i \in 1..Len(B) : (A \o B)[i + Len(A)] = B[i]
<1>1. A \o B \in Seq(Characters) /\ Len(A \o B) = Len(A) + Len(B)  BY CutParts
<1>2. Len(A) \in Nat \ {0} /\ Len(B) \in Nat  BY CutParts
<1>3. \A i \in 1..Len(A) : (A \o B)[i] = A[i]  BY CutParts
<1>4. ASSUME NEW i \in 1..Len(B) PROVE (A \o B)[i + Len(A)] = B[i]  BY CutRest
<1> QED  BY <1>1, <1>2, <1>3, <1>4

\* What a bearer token looks like.
LEMMA BearerShape ==
  ASSUME NEW t \in Seq(Characters), NEW i \in 1..Len(t), NEW e \in i + 1..Len(t) + 1
  PROVE  e \in Ends("bearer", t, i) <=>
           /\ t[i] = "B"
           /\ \E k \in i + 1..e - 3 :
                /\ \A j \in i + 1..k : t[j] = Space
                /\ \A j \in k + 1..e - 1 : t[j] \in {"d", "t"}
BY BearerEnds DEF Space

\* What a card number looks like.
LEMMA CardShape ==
  ASSUME NEW t \in Seq(Characters), NEW i \in 1..Len(t), NEW e \in Ends("card", t, i)
  PROVE  /\ e \in i + 1..Len(t) + 1 /\ e <= i + LongestNumber
         /\ t[i] = "d" /\ \A j \in i..e - 1 : t[j] \in {"d", Space}
         /\ Boundary(t, i) /\ Boundary(t, e)
BY CardEnds DEF Space

\* The longest end of a text whose characters are all in S.
LEMMA LongestEnd ==
  ASSUME NEW t \in Seq(Characters), NEW S, Len(t) > 0, t[Len(t)] \in S
  PROVE  \E n \in 1..Len(t) :
           /\ \A k \in 0..n - 1 : t[Len(t) - k] \in S
           /\ n < Len(t) => t[Len(t) - n] \notin S
<1> DEFINE a == Len(t)
           T == {n \in 1..a : n < a => t[a - n] \notin S}
<1>1. a \in Nat /\ a > 0  BY LenProperties
<1> HIDE DEF a
<1>2. a \in T /\ T \subseteq Nat  BY <1>1
<1>3. PICK n \in T : \A k \in T : n <= k
  <2> HIDE DEF T
  <2> QED  BY <1>2, LeastNumber
<1>4. n \in 1..a /\ (n < a => t[a - n] \notin S)  OBVIOUS
<1>5. ASSUME NEW k \in 0..n - 1 PROVE t[a - k] \in S
  <2>1. CASE k = 0  BY <1>1, <2>1 DEF a
  <2>2. CASE k > 0
    <3>1. k \in 1..a /\ ~(n <= k)  BY <1>1, <1>4, <2>2
    <3>2. k \notin T
      <4> HIDE DEF T
      <4> QED  BY <1>3, <3>1
    <3> QED  BY <3>1, <3>2
  <2> QED  BY <1>4, <2>1, <2>2
<1> QED  BY <1>4, <1>5 DEF a

\* No match gets into the spaces a text ends with.
LEMMA SpacesEnded ==
  ASSUME NEW q \in PatternNames, NEW t \in Seq(Characters), NEW n \in 1..Len(t),
         \A k \in 0..n - 1 : t[Len(t) - k] = Space
  PROVE  Ended(q, t, n)
<1> DEFINE a == Len(t)
<1>1. a \in Nat /\ n \in 1..a  BY LenProperties
<1> HIDE DEF a
<1>2. ASSUME NEW x \in a + 1 - n..a PROVE t[x] = Space
  <2>1. PICK k : k = a - x  OBVIOUS
  <2>2. k \in 0..n - 1 /\ a - k = x  BY <1>1, <2>1
  <2>3. t[a - k] = Space  BY <2>2 DEF a
  <2> QED  BY <2>2, <2>3
<1>3. ASSUME NEW i \in 1..a, NEW e \in Ends(q, t, i), e > a + 1 - n PROVE FALSE
  <2>1. i \in 1..Len(t) /\ e \in i + 1..a + 1 /\ e \in i + 1..Len(t) + 1  BY EndsRange DEF a
  <2>2. PICK d : d = e - 1  OBVIOUS
  <2>3. d \in a + 1 - n..a  BY <1>1, <1>3, <2>1, <2>2
  <2>4. t[d] = Space  BY <1>2, <2>3
  <2>5. CASE q = "email"
    <3>1. PICK k \in i + 1..e - 2 : \A l \in k + 1..e - 1 : t[l] = "t"
      BY <1>3, <2>1, <2>5, EmailEnds
    <3>2. d \in k + 1..e - 1  BY <1>1, <2>1, <2>2
    <3> QED  BY <2>4, <3>1, <3>2, SpaceOnly
  <2>6. CASE q = "bearer"
    <3>1. PICK k \in i + 1..e - 3 : \A l \in k + 1..e - 1 : t[l] \in {"d", "t"}
      BY <1>3, <2>1, <2>6, BearerShape
    <3>2. d \in k + 1..e - 1  BY <1>1, <2>1, <2>2
    <3> QED  BY <2>4, <3>1, <3>2, SpaceOnly
  <2>7. CASE q = "card"
    <3>1. Boundary(t, e)  BY <1>3, <2>1, <2>7, CardShape
    <3>2. e <= a => t[e] = Space
      <4>1. e <= a => e \in a + 1 - n..a  BY <1>1, <1>3, <2>1
      <4> QED  BY <1>2, <4>1
    <3>3. t[e - 1] = Space  BY <2>2, <2>4
    <3> QED  BY <3>1, <3>2, <3>3, SpaceOnly DEF Boundary, a
  <2> QED  BY <2>5, <2>6, <2>7 DEF PatternNames
<1>4. ASSUME NEW i \in 1..a, NEW e \in Ends(q, t, i) PROVE e <= a + 1 - n
  <2>1. e \in i + 1..a + 1  BY EndsRange DEF a
  <2> QED  BY <1>1, <1>3, <2>1
<1> QED  BY <1>4 DEF Ended, a

\* A pass keeps the cut.
LEMMA CutKept ==
  ASSUME NEW q \in PatternNames, NEW A, NEW B, CutAtSpace(A, B)
  PROVE  CutAtSpace(Replaced(q, A), Replaced(q, B))
<1>1. /\ A \in Seq(Characters) /\ B \in Seq(Characters)
      /\ Len(A) \in Nat \ {0} /\ A[Len(A)] = Space
  BY CutSpace
<1>2. \A k \in 0..1 - 1 : A[Len(A) - k] = Space
  <2>1. \A k \in 0..1 - 1 : Len(A) - k = Len(A)  BY <1>1
  <2> QED  BY <1>1, <2>1
<1>3. 1 \in 1..Len(A)  BY <1>1
<1>4. Ended(q, A, 1)  BY <1>1, <1>2, <1>3, SpacesEnded
<1> DEFINE w == Replaced(q, A)
<1>5. w \in Seq(Characters) /\ SameEnd(w, A, 1)  BY <1>1, <1>3, <1>4, TailKept
<1> HIDE DEF w
<1>6. Len(w) \in Nat  BY <1>5, LenProperties
<1>7. Len(w) >= 1 /\ w[Len(w) - 0] = A[Len(A) - 0]  BY <1>5 DEF SameEnd
<1>8. Len(w) - 0 = Len(w) /\ Len(A) - 0 = Len(A) /\ Len(w) \in Nat \ {0}  BY <1>1, <1>6, <1>7
<1>9. Replaced(q, B) \in Seq(Characters)  BY <1>1, ReplacedType
<1>10. w[Len(w)] = Space  BY <1>1, <1>7, <1>8
<1> QED  BY <1>5, <1>8, <1>9, <1>10 DEF CutAtSpace, Space, w

\* No e-mail address gets beyond the cut.
LEMMA EmailApart ==
  ASSUME NEW A, NEW B, CutAtSpace(A, B)
  PROVE  Apart("email", A, B)
<1> DEFINE s == A \o B
           a == Len(A)
<1>1. /\ s \in Seq(Characters) /\ a \in Nat \ {0} /\ s[a] = Space /\ Len(s) \in Nat
  BY CutConcat, CutSpace, LenProperties
<1> HIDE DEF s, a
<1>2. ASSUME NEW m \in Matches("email", s), m[1] <= a, m[2] > a PROVE FALSE
  <2> DEFINE i == m[1]
             e == m[2]
  <2>1. i \in 1..Len(s) /\ e \in i + 1..Len(s) + 1 /\ e \in Ends("email", s, i)
    BY <1>1, MatchesRange
  <2>2. i <= a /\ e > a  BY <1>2
  <2> HIDE DEF i, e
  <2>3. PICK k \in i + 1..e - 2 :
          /\ s[k] = "@"
          /\ \A j \in i..k - 1 : s[j] \in {"d", "t"}
          /\ \A j \in k + 1..e - 1 : s[j] = "t"
    BY <1>1, <2>1, EmailEnds
  <2>4. a \in i..k - 1 \/ a = k \/ a \in k + 1..e - 1  BY <1>1, <2>1, <2>2
  <2> QED  BY <1>1, <2>3, <2>4, SpaceOnly
<1>3. ASSUME NEW m \in Matches("email", s), m[1] <= a PROVE m[2] <= a
  <2>1. m[1] \in 1..Len(s) /\ m[2] \in m[1] + 1..Len(s) + 1  BY <1>1, MatchesRange
  <2>2. m[2] \in Int  BY <1>1, <2>1
  <2> QED  BY <1>1, <1>2, <1>3, <2>2
<1> QED  BY <1>3 DEF Apart, s, a

\* R is what has come behind the cut so far, and B goes on with it.
Continued(A, R, B) ==
  /\ CutAtSpace(A, R) /\ CutAtSpace(A, B) /\ B[1] # Space
  /\ LongestNumber <= Len(R) /\ Len(R) <= Len(B) /\ \A i \in 1..Len(R) : B[i] = R[i]

Uncrossed(q, A, R) == ~\E m \in Matches(q, A \o R) : m[1] <= Len(A) /\ m[2] > Len(A)

\* The second character, when the first is kept.
LEMMA SecondKept ==
  ASSUME NEW q, NEW t \in Seq(Characters), Len(t) > 1, ~Begins(q, t, 1)
  PROVE  /\ Len(Replaced(q, t)) > 1
         /\ Replaced(q, t)[2] = IF Begins(q, t, 2) THEN "#" ELSE t[2]
<1>1. Len(t) \in Nat  BY LenProperties
<1>2. 1 \in 0..Len(t) - 1 /\ 1 + 1 = 2  BY <1>1
<1>3. \A i \in 1..1 : ~Begins(q, t, i)  OBVIOUS
<1> QED  BY <1>2, <1>3, HeadKept

\* No token gets beyond the cut.
LEMMA BearerApart ==
  ASSUME NEW A, NEW R, NEW B, Continued(A, R, B), Uncrossed("bearer", A, R),
         NEW A1, A1 = Replaced("email", A), NEW A2, A2 = Replaced("card", A1),
         NEW B1, B1 = Replaced("email", B), NEW B2, B2 = Replaced("card", B1)
  PROVE  Apart("bearer", A2, B2)
<1>1. "email" \in PatternNames /\ "card" \in PatternNames /\ "bearer" \in PatternNames
  BY DEF PatternNames
<1>2. CutAtSpace(A, R) /\ CutAtSpace(A, B) /\ B[1] # Space /\ Len(R) >= 6 /\ Len(B) >= Len(R)
      /\ \A i \in 1..Len(R) : B[i] = R[i]
  BY DEF Continued, LongestNumber
<1>3. CutAtSpace(A1, B1)  BY <1>1, <1>2, CutKept
<1>4. CutAtSpace(A2, B2)  BY <1>1, <1>3, CutKept
<1>5. /\ A \in Seq(Characters) /\ Len(A) \in Nat /\ Len(A) > 0 /\ A[Len(A)] \in {Space}
      /\ B \in Seq(Characters) /\ Len(B) \in Nat /\ Len(R) \in Nat
      /\ A1 \in Seq(Characters) /\ Len(A1) \in Nat /\ B1 \in Seq(Characters) /\ Len(B1) \in Nat
      /\ A2 \in Seq(Characters) /\ Len(A2) \in Nat /\ B2 \in Seq(Characters) /\ Len(B2) \in Nat
  BY <1>2, <1>3, <1>4, CutSpace, LenProperties
<1>6. PICK n \in 1..Len(A) :
        /\ \A k \in 0..n - 1 : A[Len(A) - k] \in {Space}
        /\ n < Len(A) => A[Len(A) - n] \notin {Space}
  BY <1>5, LongestEnd
<1>7. /\ SameEnd(A1, A, n) /\ (Len(A) = n <=> Len(A1) = n)
      /\ Len(A) > n => A1[Len(A1) - n] \in {A[Len(A) - n], "#"}
  <2>1. \A k \in 0..n - 1 : A[Len(A) - k] = Space  BY <1>6
  <2>2. Ended("email", A, n)  BY <1>1, <1>5, <2>1, SpacesEnded
  <2> QED  BY <1>5, <2>2, TailKept DEF Before
<1>8. /\ n \in 1..Len(A1) /\ \A k \in 0..n - 1 : A1[Len(A1) - k] = Space
  <2>1. n \in 1..Len(A1)  BY <1>5, <1>7 DEF SameEnd
  <2>2. \A k \in 0..n - 1 : A[Len(A) - k] = Space  BY <1>6
  <2> QED  BY <1>7, <2>1, <2>2 DEF SameEnd
<1>9. /\ SameEnd(A2, A1, n) /\ (Len(A1) = n <=> Len(A2) = n)
      /\ Len(A1) > n => A2[Len(A2) - n] \in {A1[Len(A1) - n], "#"}
  <2>1. Ended("card", A1, n)  BY <1>1, <1>5, <1>8, SpacesEnded
  <2> QED  BY <1>5, <1>8, <2>1, TailKept DEF Before
<1>10. /\ Len(A2) >= n /\ \A k \in 0..n - 1 : A2[Len(A2) - k] = Space
       /\ (Len(A2) > n => Len(A) > n /\ A2[Len(A2) - n] \in {A[Len(A) - n], "#"})
  <2>1. Len(A2) >= n /\ \A k \in 0..n - 1 : A2[Len(A2) - k] = Space
    BY <1>8, <1>9 DEF SameEnd
  <2>2. Len(A2) > n => Len(A1) > n  BY <1>5, <1>8, <1>9
  <2>3. Len(A1) > n => Len(A) > n  BY <1>5, <1>6, <1>7
  <2> QED  BY <1>7, <1>9, <2>1, <2>2, <2>3
<1>11. /\ Len(B1) > 0 /\ Len(B2) > 0
       /\ B1[1] = IF Begins("email", B, 1) THEN "#" ELSE B[1]
       /\ B2[1] = IF Begins("card", B1, 1) THEN "#" ELSE B1[1]
       /\ ~Begins("email", B, 1) =>
            Len(B1) > 1 /\ B1[2] = IF Begins("email", B, 2) THEN "#" ELSE B[2]
       /\ ~Begins("card", B1, 1) /\ Len(B1) > 1 =>
            B2[2] = IF Begins("card", B1, 2) THEN "#" ELSE B1[2]
  <2>1. 0 \in 0..Len(B) - 1 /\ 1 \in 0..Len(B) - 1 /\ 0 + 1 = 1 /\ 1 + 1 = 2  BY <1>2, <1>5
  <2>2. Len(B1) > 0 /\ B1[1] = IF Begins("email", B, 1) THEN "#" ELSE B[1]
    BY <1>5, <2>1, HeadKept
  <2>3. 0 \in 0..Len(B1) - 1  BY <1>5, <2>2
  <2>4. Len(B2) > 0 /\ B2[1] = IF Begins("card", B1, 1) THEN "#" ELSE B1[1]
    BY <1>5, <2>1, <2>3, HeadKept
  <2>5. ASSUME ~Begins("email", B, 1)
        PROVE  Len(B1) > 1 /\ B1[2] = IF Begins("email", B, 2) THEN "#" ELSE B[2]
    <3>1. Len(B) > 1  BY <1>2, <1>5
    <3> QED  BY <1>5, <2>5, <3>1, SecondKept
  <2>6. ASSUME ~Begins("card", B1, 1), Len(B1) > 1
        PROVE  B2[2] = IF Begins("card", B1, 2) THEN "#" ELSE B1[2]
    <3> QED  BY <1>5, <2>6, SecondKept
  <2> QED  BY <2>2, <2>4, <2>5, <2>6
<1> DEFINE a == Len(A)
           c == Len(A2)
           s == A2 \o B2
           b == A \o R
<1>12. /\ s \in Seq(Characters) /\ Len(s) = c + Len(B2)
       /\ \A x \in 1..c : s[x] = A2[x]
       /\ \A x \in 1..Len(B2) : s[x + c] = B2[x]
  BY <1>4, CutConcat
<1>13. /\ b \in Seq(Characters) /\ Len(b) = a + Len(R)
       /\ \A x \in 1..a : b[x] = A[x]
       /\ \A x \in 1..Len(R) : b[x + a] = R[x]
  BY <1>2, CutConcat
<1>14. ~\E m \in Matches("bearer", b) : m[1] <= a /\ m[2] > a  BY DEF Uncrossed
<1> HIDE DEF a, c, s, b
<1>15. a \in Nat /\ c \in Nat /\ a = Len(A) /\ c = Len(A2) /\ c >= n  BY <1>5, <1>10 DEF a, c
<1>16. ASSUME NEW m \in Matches("bearer", s), m[1] <= c, m[2] > c PROVE FALSE
  <2> DEFINE i == m[1]
             e == m[2]
  <2>1. i \in 1..Len(s) /\ e \in i + 1..Len(s) + 1 /\ e \in Ends("bearer", s, i)
    BY <1>12, MatchesRange
  <2>2. i <= c /\ e > c  BY <1>16
  <2> HIDE DEF i, e
  <2>25. s[i] = "B" /\ \E k \in i + 1..e - 3 :
           /\ \A j \in i + 1..k : s[j] = Space
           /\ \A j \in k + 1..e - 1 : s[j] \in {"d", "t"}
    BY <1>12, <2>1, BearerShape
  <2>3. PICK k \in i + 1..e - 3 :
          /\ s[i] = "B"
          /\ \A j \in i + 1..k : s[j] = Space
          /\ \A j \in k + 1..e - 1 : s[j] \in {"d", "t"}
    BY <2>25
  <2>4. Len(s) \in Nat /\ i \in Nat /\ e \in Nat /\ k \in Nat  BY <1>5, <1>12, <1>15, <2>1
  <2>5. s[c] = Space
    <3>2. 0 \in 0..n - 1 /\ c - 0 = c /\ c \in 1..c  BY <1>15
    <3>1. A2[c - 0] = Space  BY <1>10, <1>15, <3>2
    <3> QED  BY <1>12, <3>1, <3>2
  <2>6. s[c + 1] = B2[1] /\ B2[1] # Space
    <3>1. 1 \in 1..Len(B2) /\ 1 + c = c + 1  BY <1>5, <1>11, <1>15
    <3>2. s[1 + c] = B2[1]  BY <1>12, <3>1
    <3> QED  BY <1>2, <1>11, <3>1, <3>2, SpaceOnly
  <2>7. c = k
    <3>1. c # i  BY <2>3, <2>5, SpaceOnly
    <3>2. ~(c \in k + 1..e - 1)  BY <2>3, <2>5, SpaceOnly
    <3>3. ~(c + 1 \in i + 1..k)  BY <2>3, <2>6
    <3> QED  BY <1>15, <2>1, <2>2, <2>4, <3>1, <3>2, <3>3
  <2>8. c + 1 \in k + 1..e - 1 /\ c + 2 \in k + 1..e - 1  BY <1>15, <2>1, <2>3, <2>4, <2>7
  <2>9. B2[1] \in {"d", "t"}  BY <2>3, <2>6, <2>8
  <2>10. B2[2] \in {"d", "t"}
    <3>1. 2 \in 1..Len(B2) /\ 2 + c = c + 2  BY <1>5, <1>12, <1>15, <2>1, <2>4, <2>8
    <3>2. s[2 + c] = B2[2]  BY <1>12, <3>1
    <3> QED  BY <2>3, <2>8, <3>1, <3>2
  <2>11. R[1] \in {"d", "t"} /\ R[2] \in {"d", "t"}
    <3>1. ~Begins("card", B1, 1) /\ B1[1] \in {"d", "t"}  BY <1>11, <2>9
    <3>2. ~Begins("email", B, 1) /\ B[1] \in {"d", "t"}  BY <1>11, <3>1
    <3>3. B1[2] \in {"d", "t"}  BY <1>11, <2>10, <3>1, <3>2
    <3>4. B[2] \in {"d", "t"}  BY <1>11, <3>2, <3>3
    <3>5. 1 \in 1..Len(R) /\ 2 \in 1..Len(R)  BY <1>2, <1>5
    <3> QED  BY <1>2, <3>2, <3>4, <3>5
  <2>12. i = c - n /\ c > n
    <3>1. ASSUME i > c - n PROVE FALSE
      <4>1. PICK x : x = c - i  OBVIOUS
      <4>2. x \in 0..n - 1 /\ c - x = i /\ i \in 1..c  BY <1>15, <2>1, <2>2, <2>4, <3>1, <4>1
      <4>3. A2[i] = Space  BY <1>10, <1>15, <4>2
      <4>4. s[i] = Space  BY <1>12, <4>2, <4>3
      <4> QED  BY <2>3, <4>4, SpaceOnly
    <3>2. ASSUME i < c - n PROVE FALSE
      <4>1. PICK x : x = c - n  OBVIOUS
      <4>2. x \in i + 1..k /\ x \in 1..c /\ c > n  BY <1>15, <2>1, <2>4, <2>7, <3>2, <4>1
      <4>3. A2[x] \in {A[a - n], "#"} /\ a > n  BY <1>10, <1>15, <4>1, <4>2
      <4>4. A[a - n] # Space  BY <1>6, <1>15, <4>3
      <4>5. s[x] # Space  BY <1>12, <4>2, <4>3, <4>4, SpaceOnly
      <4> QED  BY <2>3, <4>2, <4>5
    <3> QED  BY <1>15, <2>1, <2>4, <3>1, <3>2
  <2>13. PICK p : p = a - n  OBVIOUS
  <2>14. a > n /\ A[p] = "B"
    <3>1. A2[i] \in {A[a - n], "#"} /\ a > n  BY <1>10, <1>15, <2>12
    <3>2. i \in 1..c  BY <1>15, <2>1, <2>2, <2>4
    <3>3. A2[i] = "B"  BY <1>12, <2>3, <3>2
    <3> QED  BY <2>13, <3>1, <3>3
  <2>15. p \in 1..a /\ p + n = a /\ b[p] = "B"
    <3>1. p \in 1..a /\ p + n = a  BY <1>15, <2>13, <2>14
    <3> QED  BY <1>13, <2>14, <3>1
  <2>16. \A j \in p + 1..a : b[j] = Space
    <3>1. ASSUME NEW j \in p + 1..a PROVE b[j] = Space
      <4>1. PICK x : x = a - j  OBVIOUS
      <4>2. x \in 0..n - 1 /\ a - x = j /\ j \in 1..a  BY <1>15, <2>15, <4>1
      <4>3. A[a - x] \in {Space}  BY <1>6, <1>15, <4>2
      <4> QED  BY <1>13, <4>2, <4>3
    <3> QED  BY <3>1
  <2>17. \A j \in a + 1..(a + 3) - 1 : b[j] \in {"d", "t"}
    <3>1. 1 \in 1..Len(R) /\ 2 \in 1..Len(R)  BY <1>2, <1>5
    <3>2. b[1 + a] \in {"d", "t"} /\ b[2 + a] \in {"d", "t"}  BY <1>13, <2>11, <3>1
    <3>3. \A j \in a + 1..(a + 3) - 1 : j = 1 + a \/ j = 2 + a  BY <1>15
    <3> QED  BY <3>2, <3>3
  <2>18. PICK d : d = a + 3  OBVIOUS
  <2>19. d \in Ends("bearer", b, p)
    <3>1. /\ p \in 1..Len(b) /\ d \in p + 1..Len(b) + 1 /\ a \in p + 1..d - 3
      BY <1>2, <1>5, <1>13, <1>15, <2>15, <2>18, SMTT(20)
    <3>2. \A j \in a + 1..d - 1 : b[j] \in {"d", "t"}  BY <2>17, <2>18
    <3> QED  BY <1>13, <2>15, <2>16, <3>1, <3>2, BearerShape
  <2>20. \A l \in 1..p - 1 : \A x \in Ends("bearer", b, l) : x <= p
    <3>1. ASSUME NEW l \in 1..p - 1, NEW x \in Ends("bearer", b, l), x > p PROVE FALSE
      <4>1. l \in 1..Len(b)  BY <1>2, <1>5, <1>13, <1>15, <2>15
      <4>2. x \in l + 1..Len(b) + 1  BY <1>13, <4>1, EndsRange
      <4>6. b[l] = "B" /\ \E y \in l + 1..x - 3 :
              /\ \A j \in l + 1..y : b[j] = Space
              /\ \A j \in y + 1..x - 1 : b[j] \in {"d", "t"}
        BY <1>13, <3>1, <4>1, <4>2, BearerShape
      <4>3. PICK y \in l + 1..x - 3 :
              /\ \A j \in l + 1..y : b[j] = Space
              /\ \A j \in y + 1..x - 1 : b[j] \in {"d", "t"}
        BY <4>6
      <4>4. Len(b) \in Nat  BY <1>13, LenProperties
      <4>5. p \in l + 1..y \/ p \in y + 1..x - 1  BY <1>15, <2>15, <3>1, <4>2, <4>4
      <4> QED  BY <2>15, <4>3, <4>5, SpaceOnly
    <3>2. ASSUME NEW l \in 1..p - 1, NEW x \in Ends("bearer", b, l) PROVE x <= p
      <4>1. l \in 1..Len(b) /\ Len(b) \in Nat  BY <1>2, <1>5, <1>13, <1>15, <2>15
      <4>2. x \in l + 1..Len(b) + 1  BY <1>13, <4>1, EndsRange
      <4>3. x \in Int /\ p \in Int  BY <1>15, <2>15, <4>1, <4>2
      <4> QED  BY <3>1, <4>3
    <3> QED  BY <3>2
  <2>21. p \in 1..Len(b)  BY <1>2, <1>5, <1>13, <1>15, <2>15
  <2> DEFINE M == Max(Ends("bearer", b, p))
  <2>22. <<p, M>> \in Matches("bearer", b)  BY <1>13, <2>19, <2>20, <2>21, MatchesReached
  <2>23. M \in p + 1..Len(b) + 1 /\ d <= M  BY <1>13, <2>19, <2>21, EndsRange
  <2> HIDE DEF M
  <2>24. p <= a /\ M > a
    <3>1. Len(b) \in Nat  BY <1>13, LenProperties
    <3> QED  BY <1>15, <2>15, <2>18, <2>23, <3>1
  <2> QED  BY <1>14, <2>22, <2>24
<1>17. ASSUME NEW m \in Matches("bearer", s), m[1] <= c PROVE m[2] <= c
  <2>1. m[1] \in 1..Len(s) /\ m[2] \in m[1] + 1..Len(s) + 1  BY <1>12, MatchesRange
  <2>2. Len(s) \in Nat  BY <1>12, LenProperties
  <2>3. m[2] \in Int  BY <2>1, <2>2
  <2> QED  BY <1>15, <1>16, <1>17, <2>3
<1> QED  BY <1>17 DEF Apart, s, c

\* No number that begins in front of something that is neither a digit nor a
\* space gets beyond it.
LEMMA CardStops ==
  ASSUME NEW t \in Seq(Characters), NEW j \in 1..Len(t), j > 1 => t[j - 1] \notin {"d", Space}
  PROVE  Stops("card", t, j)
<1>1. Len(t) \in Nat /\ j \in Nat  BY LenProperties
<1> SUFFICES ASSUME NEW i \in 1..j - 1, NEW e \in Ends("card", t, i), e > j PROVE FALSE
  <2>1. ASSUME NEW i \in 1..j - 1, NEW e \in Ends("card", t, i) PROVE e \in Int
    <3>1. i \in 1..Len(t)  BY <1>1
    <3>2. e \in i + 1..Len(t) + 1  BY <3>1, EndsRange
    <3> QED  BY <1>1, <3>1, <3>2
  <2> QED  BY <1>1, <2>1 DEF Stops
<1>2. i \in 1..Len(t) /\ j > 1  BY <1>1
<1>3. e \in i + 1..Len(t) + 1 /\ \A x \in i..e - 1 : t[x] \in {"d", Space}  BY <1>2, CardShape
<1>4. j - 1 \in i..e - 1  BY <1>1, <1>2, <1>3
<1> QED  BY <1>2, <1>3, <1>4

\* The last n characters of A are digits and spaces, the one before them is
\* neither.
Block(A, n) ==
  /\ n \in 1..Len(A)
  /\ \A k \in 0..n - 1 : A[Len(A) - k] \in {"d", Space}
  /\ n < Len(A) => A[Len(A) - n] \notin {"d", Space}

\* No e-mail address ends in there.
LEMMA BlockEnded ==
  ASSUME NEW A \in Seq(Characters), NEW n, Block(A, n)
  PROVE  Ended("email", A, n)
<1> DEFINE a == Len(A)
<1>1. a \in Nat /\ n \in 1..a  BY LenProperties DEF Block
<1> HIDE DEF a
<1>2. ASSUME NEW i \in 1..a, NEW e \in Ends("email", A, i), e > a + 1 - n PROVE FALSE
  <2>1. i \in 1..Len(A) /\ e \in i + 1..Len(A) + 1 /\ e \in i + 1..a + 1  BY EndsRange DEF a
  <2>2. PICK k \in i + 1..e - 2 : \A l \in k + 1..e - 1 : A[l] = "t"  BY <1>2, <2>1, EmailEnds
  <2>3. PICK x : x = a - (e - 1)  OBVIOUS
  <2>4. x \in 0..n - 1 /\ a - x = e - 1 /\ e - 1 \in k + 1..e - 1  BY <1>1, <1>2, <2>1, <2>3
  <2>5. A[a - x] \in {"d", Space}  BY <2>4 DEF Block, a
  <2>6. A[a - x] = "t"  BY <2>2, <2>4
  <2> QED  BY <2>5, <2>6, SpaceOnly
<1>3. ASSUME NEW i \in 1..a, NEW e \in Ends("email", A, i) PROVE e <= a + 1 - n
  <2>1. e \in i + 1..a + 1  BY EndsRange DEF a
  <2> QED  BY <1>1, <1>2, <2>1
<1> QED  BY <1>3 DEF Ended, a

\* Two texts, A with R behind it and A1 with B1 behind it, that agree on n
\* characters before the cut.
SameBlock(A, A1, n) ==
  /\ n \in 1..Len(A) /\ n \in 1..Len(A1)
  /\ \A k \in 0..n - 1 : A1[Len(A1) - k] = A[Len(A) - k] /\ A[Len(A) - k] \in {"d", Space}

\* They have the same boundaries in there, ...
LEMMA BoundaryBlock ==
  ASSUME NEW A, NEW R, CutAtSpace(A, R), NEW A1, NEW B1, CutAtSpace(A1, B1),
         NEW n, SameBlock(A, A1, n), NEW k \in 0..n - 2
  PROVE  Boundary(A \o R, Len(A) - k) <=> Boundary(A1 \o B1, Len(A1) - k)
<1> DEFINE a == Len(A)
           c == Len(A1)
           b == A \o R
           s == A1 \o B1
           x == a - k
           y == c - k
<1>1. /\ a \in Nat \ {0} /\ c \in Nat \ {0} /\ Len(R) \in Nat /\ Len(B1) \in Nat
      /\ Len(b) = a + Len(R) /\ Len(s) = c + Len(B1)
      /\ \A i \in 1..a : b[i] = A[i]
      /\ \A i \in 1..c : s[i] = A1[i]
  BY CutConcat
<1>2. n \in 1..a /\ n \in 1..c /\ \A l \in 0..n - 1 : A1[c - l] = A[a - l]  BY DEF SameBlock
<1> HIDE DEF a, c, b, s, x, y
<1>3. /\ x = a - k /\ y = c - k /\ x \in 2..a /\ y \in 2..c
      /\ x - 1 = a - (k + 1) /\ y - 1 = c - (k + 1)
      /\ k \in 0..n - 1 /\ k + 1 \in 0..n - 1
  BY <1>1, <1>2 DEF x, y
<1>4. b[x] = A[x] /\ s[y] = A1[y] /\ b[x - 1] = A[x - 1] /\ s[y - 1] = A1[y - 1]
  <2>1. x \in 1..a /\ y \in 1..c /\ x - 1 \in 1..a /\ y - 1 \in 1..c  BY <1>1, <1>3
  <2> QED  BY <1>1, <2>1
<1>5. A1[c - k] = A[a - k] /\ A1[c - (k + 1)] = A[a - (k + 1)]  BY <1>2, <1>3
<1>6. b[x] = s[y] /\ b[x - 1] = s[y - 1]  BY <1>3, <1>4, <1>5
<1>7. x > 1 /\ y > 1 /\ x <= Len(b) /\ y <= Len(s)  BY <1>1, <1>3
<1>8. Boundary(b, x) <=> Boundary(s, y)  BY <1>6, <1>7 DEF Boundary
<1> QED  BY <1>8 DEF b, s, x, y, a, c

\* ... and, where numbers begin, also at its beginning.
SameBegin(A, R, A1, B1, n) ==
  \A k \in 0..n - 1 :
    A[Len(A) - k] = "d" => (Boundary(A \o R, Len(A) - k) <=> Boundary(A1 \o B1, Len(A1) - k))

\* So they have the same numbers in there.
LEMMA CardBlock ==
  ASSUME NEW A, NEW R, CutAtSpace(A, R), NEW A1, NEW B1, CutAtSpace(A1, B1),
         NEW n, SameBlock(A, A1, n), SameBegin(A, R, A1, B1, n),
         NEW k \in 0..n - 1, NEW l \in 0..k - 1
  PROVE  Len(A) - l \in Ends("card", A \o R, Len(A) - k)
           <=> Len(A1) - l \in Ends("card", A1 \o B1, Len(A1) - k)
<1> DEFINE a == Len(A)
           c == Len(A1)
           b == A \o R
           s == A1 \o B1
           i == a - k
           e == a - l
           j == c - k
           d == c - l
<1>1. /\ a \in Nat \ {0} /\ c \in Nat \ {0} /\ Len(R) \in Nat /\ Len(B1) \in Nat
      /\ b \in Seq(Characters) /\ s \in Seq(Characters)
      /\ Len(b) = a + Len(R) /\ Len(s) = c + Len(B1)
      /\ \A x \in 1..a : b[x] = A[x]
      /\ \A x \in 1..c : s[x] = A1[x]
  BY CutConcat
<1>2. n \in 1..a /\ n \in 1..c /\ \A x \in 0..n - 1 : A1[c - x] = A[a - x]  BY DEF SameBlock
<1>3. Boundary(b, e) <=> Boundary(s, d)
  <2>1. l \in 0..n - 2  BY <1>1, <1>2
  <2> QED  BY <2>1, BoundaryBlock
<1>4. A[i] = "d" => (Boundary(b, i) <=> Boundary(s, j))  BY DEF SameBegin
<1> HIDE DEF a, c, b, s, i, j, e, d
<1>5. /\ i = a - k /\ j = c - k /\ e = a - l /\ d = c - l
      /\ i \in 1..a /\ j \in 1..c /\ i \in 1..Len(b) /\ j \in 1..Len(s)
      /\ e \in i + 1..Len(b) + 1 /\ d \in j + 1..Len(s) + 1 /\ d - j = e - i
  BY <1>1, <1>2 DEF i, j, e, d
<1>6. ASSUME NEW o \in 0..e - i - 1 PROVE b[i + o] = s[j + o]
  <2>1. PICK x : x = k - o  OBVIOUS
  <2>2. /\ x \in 0..n - 1 /\ i + o = a - x /\ j + o = c - x
        /\ i + o \in 1..a /\ j + o \in 1..c
    BY <1>1, <1>2, <1>5, <2>1
  <2>3. A1[c - x] = A[a - x]  BY <1>2, <2>2
  <2>4. b[i + o] = A[i + o] /\ s[j + o] = A1[j + o]  BY <1>1, <2>2
  <2> QED  BY <2>2, <2>3, <2>4
<1>7. SubSeq(b, i, e - 1) = SubSeq(s, j, d - 1)
  <2>1. \A o \in 0..e - i - 1 : b[i + o] = s[j + o]  BY <1>6
  <2>2. b \in Seq(Characters) /\ s \in Seq(Characters)  BY <1>1
  <2>3. /\ i \in 1..Len(b) /\ j \in 1..Len(s)
        /\ e \in i + 1..Len(b) + 1 /\ d \in j + 1..Len(s) + 1 /\ d - j = e - i
    BY <1>5
  <2> QED  BY <2>1, <2>2, <2>3, SameText
<1>8. 0 \in 0..e - i - 1 /\ i + 0 = i /\ j + 0 = j  BY <1>1, <1>5
<1>9. b[i] = s[j] /\ b[i] = A[i]
  <2>1. b[i + 0] = s[j + 0]  BY <1>6, <1>8
  <2> QED  BY <1>1, <1>5, <1>8, <2>1
<1>10. ASSUME e \in Ends("card", b, i) PROVE d \in Ends("card", s, j)
  <2>1. b[i] = "d" /\ Boundary(b, i) /\ Boundary(b, e) /\ Describes("card", SubSeq(b, i, e - 1))
    <3>1. b[i] = "d" /\ Boundary(b, i) /\ Boundary(b, e)  BY <1>1, <1>5, <1>10, CardShape
    <3>2. Describes("card", SubSeq(b, i, e - 1))  BY <1>10 DEF Ends
    <3> QED  BY <3>1, <3>2
  <2>2. Boundary(s, j) /\ Boundary(s, d)  BY <1>3, <1>4, <1>9, <2>1
  <2>3. Describes("card", SubSeq(s, j, d - 1))  BY <1>7, <2>1
  <2> QED  BY <1>5, <2>2, <2>3 DEF Ends
<1>11. ASSUME d \in Ends("card", s, j) PROVE e \in Ends("card", b, i)
  <2>1. s[j] = "d" /\ Boundary(s, j) /\ Boundary(s, d) /\ Describes("card", SubSeq(s, j, d - 1))
    <3>1. s[j] = "d" /\ Boundary(s, j) /\ Boundary(s, d)  BY <1>1, <1>5, <1>11, CardShape
    <3>2. Describes("card", SubSeq(s, j, d - 1))  BY <1>11 DEF Ends
    <3> QED  BY <3>1, <3>2
  <2>2. Boundary(b, i) /\ Boundary(b, e)  BY <1>3, <1>4, <1>9, <2>1
  <2>3. Describes("card", SubSeq(b, i, e - 1))  BY <1>7, <2>1
  <2> QED  BY <1>5, <2>2, <2>3 DEF Ends
<1> QED  BY <1>10, <1>11 DEF a, c, b, s, i, j, e, d

\* Where nothing is replaced no address begins.
LEMMA NoneBegun ==
  ASSUME NEW t \in Seq(Characters), NEW n \in 0..Len(t),
         \A i \in 1..n : ~Begins("email", t, i)
  PROVE  \A i \in 1..n : Ends("email", t, i) = {}
<1>1. n \in Nat /\ Len(t) \in Nat  BY LenProperties
<1> DEFINE T == {i \in 1..n : Ends("email", t, i) # {}}
<1> SUFFICES ASSUME T # {} PROVE FALSE
  OBVIOUS
<1>2. T \subseteq Nat  OBVIOUS
<1>3. PICK m \in T : \A k \in T : m <= k
  <2> HIDE DEF T
  <2> QED  BY <1>2, LeastNumber
<1>4. m \in 1..n /\ Ends("email", t, m) # {}  OBVIOUS
<1>5. m \in 1..Len(t)  BY <1>1, <1>4
<1>6. \A i \in 1..m - 1 : \A e \in Ends("email", t, i) : e <= m
  <2>1. \A i \in 1..m - 1 : i \in 1..n /\ ~(m <= i)  BY <1>1, <1>4
  <2>2. \A i \in 1..m - 1 : i \notin T  BY <1>3, <2>1
  <2>3. \A i \in 1..m - 1 : Ends("email", t, i) = {}  BY <2>1, <2>2
  <2> QED  BY <2>3
<1> HIDE DEF T
<1> DEFINE l == <<m, Max(Ends("email", t, m))>>
<1>7. l \in Matches("email", t)  BY <1>4, <1>5, <1>6, MatchesReached
<1>8. l[1] = m /\ "email" # "card"  OBVIOUS
<1> HIDE DEF l
<1>9. l \in Valid("email", t)  BY <1>7, <1>8 DEF Valid
<1>10. Begins("email", t, m)  BY <1>8, <1>9 DEF Begins
<1> QED  BY <1>4, <1>10

\* An address could have begun a digit earlier.
LEMMA EmailEarlier ==
  ASSUME NEW t \in Seq(Characters), NEW i \in 1..Len(t) - 1, t[i] = "d",
         NEW e \in Ends("email", t, i + 1)
  PROVE  e \in Ends("email", t, i)
<1>1. PICK d : d = i + 1  OBVIOUS
<1>2. Len(t) \in Nat  BY LenProperties
<1>3. d \in 1..Len(t) /\ i \in 1..Len(t) /\ i \in Nat  BY <1>1, <1>2
<1>4. e \in Ends("email", t, d)  BY <1>1
<1>5. e \in d + 1..Len(t) + 1  BY <1>3, <1>4, EndsRange
<1>6. PICK k \in d + 1..e - 2 :
        /\ t[k] = "@"
        /\ \A j \in d..k - 1 : t[j] \in {"d", "t"}
        /\ \A j \in k + 1..e - 1 : t[j] = "t"
  BY <1>3, <1>4, <1>5, EmailEnds
<1>7. e \in i + 1..Len(t) + 1 /\ k \in i + 1..e - 2  BY <1>1, <1>2, <1>3, <1>5
<1>8. \A j \in i..k - 1 : t[j] \in {"d", "t"}
  <2>1. \A j \in i..k - 1 : j = i \/ j \in d..k - 1  BY <1>1, <1>2, <1>3, <1>5
  <2> QED  BY <1>6, <2>1
<1> QED  BY <1>3, <1>6, <1>7, <1>8, EmailEnds

\* A number that gets beyond the cut got there before the pass, too.
LEMMA CardSpan ==
  ASSUME NEW A, NEW R, NEW B, Continued(A, R, B), NEW A1, NEW B1, CutAtSpace(A1, B1),
         B1 = Replaced("email", B),
         NEW n, SameBlock(A, A1, n), SameBegin(A, R, A1, B1, n), NEW k \in 0..n - 1,
         NEW d \in Ends("card", A1 \o B1, Len(A1) - k), d > Len(A1)
  PROVE  \E e \in Ends("card", A \o R, Len(A) - k) : e > Len(A)
<1> DEFINE a == Len(A)
           c == Len(A1)
           b == A \o R
           s == A1 \o B1
           i == a - k
           j == c - k
           h == d - c - 1
           e == a + h + 1
<1>1. /\ CutAtSpace(A, R) /\ CutAtSpace(A, B) /\ Len(R) >= 6 /\ Len(B) >= Len(R)
      /\ \A x \in 1..Len(R) : B[x] = R[x]
  BY DEF Continued, LongestNumber
<1>2. /\ a \in Nat \ {0} /\ c \in Nat \ {0} /\ Len(R) \in Nat /\ Len(B1) \in Nat
      /\ b \in Seq(Characters) /\ s \in Seq(Characters)
      /\ Len(b) = a + Len(R) /\ Len(s) = c + Len(B1)
      /\ \A x \in 1..a : b[x] = A[x]
      /\ \A x \in 1..c : s[x] = A1[x]
      /\ \A x \in 1..Len(R) : b[x + a] = R[x]
      /\ \A x \in 1..Len(B1) : s[x + c] = B1[x]
  BY <1>1, CutConcat
<1>3. B \in Seq(Characters) /\ Len(B) \in Nat  BY <1>1, CutConcat, CutSpace
<1>4. s[c] = Space /\ b[a] = Space  BY <1>1, CutSpace
<1>5. n \in 1..a /\ n \in 1..c
      /\ \A x \in 0..n - 1 : A1[c - x] = A[a - x] /\ A[a - x] \in {"d", Space}
  BY DEF SameBlock
<1>6. d \in Ends("card", s, j) /\ d > c  OBVIOUS
<1>7. A[i] = "d" => (Boundary(b, i) <=> Boundary(s, j))  BY DEF SameBegin
<1> HIDE DEF a, c, b, s, i, j, h, e
<1>8. i = a - k /\ j = c - k /\ i \in 1..a /\ j \in 1..c /\ i \in 1..Len(b) /\ j \in 1..Len(s)
  BY <1>2, <1>5 DEF i, j
<1>9. /\ d \in j + 1..Len(s) + 1 /\ d <= j + 6
      /\ s[j] = "d" /\ \A x \in j..d - 1 : s[x] \in {"d", Space}
      /\ Boundary(s, j) /\ Boundary(s, d)
  BY <1>2, <1>6, <1>8, CardShape DEF LongestNumber
<1>10. j < c
  <2>1. j # c  BY <1>4, <1>9, SpaceOnly
  <2> QED  BY <1>2, <1>8, <2>1
<1>11. /\ h \in 0..4 /\ d = c + h + 1 /\ e = a + h + 1
       /\ h \in 0..Len(B) - 1 /\ h \in 0..Len(B) /\ h \in 0..Len(B1) /\ h + 1 \in 1..Len(R)
  BY <1>1, <1>2, <1>3, <1>6, <1>8, <1>9, <1>10, SMTT(20) DEF h, e
<1>12. ASSUME NEW x \in 1..h PROVE s[x + c] = B1[x] /\ B1[x] \in {"d", Space}
  <2>1. x \in 1..Len(B1) /\ x + c \in j..d - 1  BY <1>2, <1>8, <1>11
  <2> QED  BY <1>2, <1>9, <2>1
<1>13. \A x \in 1..h : ~Begins("email", B, x) /\ B1[x] = B[x]
  <2>1. \A x \in 1..h : Replaced("email", B)[x] # "#"  BY <1>12, SpaceOnly
  <2> QED  BY <1>3, <1>11, <2>1, HeadShown
<1>14. /\ Len(B1) > h
       /\ B1[h + 1] = IF Begins("email", B, h + 1) THEN "#" ELSE B[h + 1]
  BY <1>3, <1>11, <1>13, HeadKept
<1>15. s[d] = B1[h + 1] /\ b[e] = B[h + 1] /\ d <= Len(s) /\ e <= Len(b)
  <2>1. /\ h + 1 \in 1..Len(B1) /\ h + 1 \in 1..Len(R) /\ (h + 1) + c = d /\ (h + 1) + a = e
        /\ d <= Len(s) /\ e <= Len(b)
    BY <1>2, <1>11, <1>14
  <2> QED  BY <1>1, <1>2, <2>1
<1>16. \A x \in 1..h : b[x + a] = s[x + c]
  <2>1. \A x \in 1..h : x \in 1..Len(R)  BY <1>2, <1>11
  <2> QED  BY <1>1, <1>2, <1>12, <1>13, <2>1
<1>17. \A x \in 0..k : b[a - x] = s[c - x] /\ b[a - x] = A[a - x]
  <2>1. \A x \in 0..k : x \in 0..n - 1 /\ a - x \in 1..a /\ c - x \in 1..c  BY <1>2, <1>5
  <2> QED  BY <1>2, <1>5, <2>1
<1>18. e \in i + 1..Len(b) + 1 /\ e - i = d - j /\ e > a  BY <1>2, <1>8, <1>11, <1>15
<1>19. ASSUME NEW o \in 0..e - i - 1 PROVE b[i + o] = s[j + o]
  <2>1. CASE o <= k
    <3>1. PICK x : x = k - o  OBVIOUS
    <3>2. x \in 0..k /\ i + o = a - x /\ j + o = c - x  BY <1>2, <1>5, <1>8, <2>1, <3>1
    <3> QED  BY <1>17, <3>2
  <2>2. CASE o > k
    <3>1. PICK x : x = o - k  OBVIOUS
    <3>2. x \in 1..h /\ i + o = x + a /\ j + o = x + c
      BY <1>2, <1>5, <1>8, <1>11, <2>2, <3>1
    <3> QED  BY <1>16, <3>2
  <2>3. o \in Int /\ k \in Int  BY <1>2, <1>8, <1>18
  <2> QED  BY <2>1, <2>2, <2>3
<1>20. SubSeq(b, i, e - 1) = SubSeq(s, j, d - 1)
  <2>1. \A o \in 0..e - i - 1 : b[i + o] = s[j + o]  BY <1>19
  <2>2. b \in Seq(Characters) /\ s \in Seq(Characters)  BY <1>2
  <2>3. /\ i \in 1..Len(b) /\ j \in 1..Len(s)
        /\ e \in i + 1..Len(b) + 1 /\ d \in j + 1..Len(s) + 1 /\ d - j = e - i
    BY <1>8, <1>9, <1>18
  <2> QED  BY <2>1, <2>2, <2>3, SameText
<1>21. Describes("card", SubSeq(s, j, d - 1))  BY <1>6 DEF Ends
<1>22. Boundary(b, i)
  <2>1. k \in 0..k /\ a - k = i /\ c - k = j  BY <1>8
  <2>2. b[i] = s[j] /\ b[i] = A[i]  BY <1>17, <2>1
  <2> QED  BY <1>7, <1>9, <2>2
<1>23. b[e - 1] = s[d - 1] /\ s[d - 1] \in {"d", Space} /\ d > 1 /\ e > 1
       /\ (s[d - 1] = "d" => h \in 1..Len(B) - 1 /\ B[h] = "d")
  <2>1. d - 1 \in j..d - 1 /\ d > 1 /\ e > 1 /\ d - 1 = h + c /\ e - 1 = h + a
    BY <1>2, <1>8, <1>9, <1>11
  <2>2. CASE h = 0
    <3>1. d - 1 = c /\ e - 1 = a  BY <1>2, <2>1, <2>2
    <3> QED  BY <1>4, <2>1, <3>1, SpaceOnly
  <2>3. CASE h \in 1..4
    <3>1. h \in 1..h /\ h \in 1..Len(B) - 1  BY <1>11, <2>3
    <3>2. b[h + a] = s[h + c] /\ s[h + c] = B1[h] /\ B1[h] \in {"d", Space} /\ B1[h] = B[h]
      BY <1>12, <1>13, <1>16, <3>1
    <3> QED  BY <2>1, <3>1, <3>2
  <2> QED  BY <1>11, <2>2, <2>3
<1>24. IsWord(s[d]) <=> IsWord(b[e])
  <2>1. CASE ~Begins("email", B, h + 1)  BY <1>14, <1>15, <2>1
  <2>2. CASE Begins("email", B, h + 1)
    <3>1. s[d] = "#"  BY <1>14, <1>15, <2>2
    <3>2. ~IsWord("#")  BY DEF IsWord
    <3>3. IsWord(s[d - 1])  BY <1>9, <1>15, <3>1, <3>2 DEF Boundary
    <3>4. s[d - 1] = "d"  BY <1>23, <3>3, SpaceOnly
    <3>5. h \in 1..Len(B) - 1 /\ B[h] = "d"  BY <1>23, <3>4
    <3>6. PICK m \in Matches("email", B) : m[1] = h + 1  BY <2>2 DEF Begins, Valid
    <3>7. m[2] \in Ends("email", B, h + 1)  BY <1>3, <3>6, MatchesRange
    <3>8. m[2] \in Ends("email", B, h)  BY <1>3, <3>5, <3>7, EmailEarlier
    <3>9. Ends("email", B, h) = {}
      <4>1. h \in 1..h  BY <3>5
      <4> QED  BY <1>3, <1>11, <1>13, <4>1, NoneBegun
    <3> QED  BY <3>8, <3>9
  <2> QED  BY <2>1, <2>2
<1>25. Boundary(b, e)  BY <1>9, <1>15, <1>23, <1>24 DEF Boundary
<1>26. e \in Ends("card", b, i)  BY <1>18, <1>20, <1>21, <1>22, <1>25 DEF Ends
<1> QED  BY <1>18, <1>26 DEF a, b, i

\* From a position on, a match has been found that gets beyond a.
Crosses(f, i, a) == \E m \in f[i] : m[1] <= a /\ m[2] > a

\* If, from a place in the block on, a number is found that gets beyond the cut
\* behind the pass, one is found from there on before the pass.
LEMMA CardCrosses ==
  ASSUME NEW A, NEW R, NEW B, Continued(A, R, B), NEW A1, NEW B1, CutAtSpace(A1, B1),
         B1 = Replaced("email", B),
         NEW n, SameBlock(A, A1, n), SameBegin(A, R, A1, B1, n),
         NEW f, Found(f, "card", A \o R), NEW g, Found(g, "card", A1 \o B1)
  PROVE  \A k \in 0..n - 1 : Crosses(g, Len(A1) - k, Len(A1)) => Crosses(f, Len(A) - k, Len(A))
<1> DEFINE a == Len(A)
           c == Len(A1)
           b == A \o R
           s == A1 \o B1
           Good(k) == Crosses(g, c - k, c) => Crosses(f, a - k, a)
           N == {k \in Nat : k < n => \A l \in 0..k : Good(l)}
<1>1. CutAtSpace(A, R)  BY DEF Continued
<1>2. /\ a \in Nat \ {0} /\ c \in Nat \ {0} /\ Len(R) \in Nat /\ Len(B1) \in Nat
      /\ b \in Seq(Characters) /\ s \in Seq(Characters)
      /\ Len(b) = a + Len(R) /\ Len(s) = c + Len(B1)
  BY <1>1, CutConcat
<1>3. n \in 1..a /\ n \in 1..c /\ n \in Nat  BY <1>2 DEF SameBlock
<1>4. s[c] = Space  BY CutSpace
<1>5. ASSUME NEW k \in 0..n - 1, NEW d \in Ends("card", s, c - k), d > c
      PROVE  \E e \in Ends("card", b, a - k) : e > a
  BY <1>5, CardSpan
<1>6. ASSUME NEW k \in 0..n - 1, NEW l \in 0..k - 1
      PROVE  a - l \in Ends("card", b, a - k) <=> c - l \in Ends("card", s, c - k)
  BY <1>1, CardBlock
<1>7. Found(f, "card", b) /\ Found(g, "card", s)  OBVIOUS
<1> HIDE DEF a, c, b, s
<1>8. ASSUME NEW k \in 0..n - 1
      PROVE  /\ a - k \in 1..Len(b) /\ c - k \in 1..Len(s) /\ a - k \in 1..a /\ c - k \in 1..c
             /\ \A e \in Ends("card", b, a - k) : e \in (a - k) + 1..Len(b) + 1
             /\ \A d \in Ends("card", s, c - k) : d \in (c - k) + 1..Len(s) + 1
  <2>1. a - k \in 1..Len(b) /\ c - k \in 1..Len(s) /\ a - k \in 1..a /\ c - k \in 1..c
    BY <1>2, <1>3
  <2> DEFINE i == a - k
             j == c - k
  <2>2. i \in 1..Len(b) /\ j \in 1..Len(s)  BY <2>1
  <2> HIDE DEF i, j
  <2>3. /\ \A e \in Ends("card", b, i) : e \in i + 1..Len(b) + 1
        /\ \A d \in Ends("card", s, j) : d \in j + 1..Len(s) + 1
    BY <1>2, <2>2, EndsRange
  <2> QED  BY <2>1, <2>3 DEF i, j
<1>9. 0 \in N
  <2>1. Good(0)
    <3>1. c - 0 = c /\ c \in 1..Len(s) /\ c + 1 \in 1..Len(s) + 1  BY <1>2
    <3>2. Ends("card", s, c) = {}
      <4>1. ASSUME NEW d \in Ends("card", s, c) PROVE FALSE
        <5>1. s[c] = "d"  BY <1>2, <3>1, CardShape
        <5> QED  BY <1>4, <5>1, SpaceOnly
      <4> QED  BY <4>1
    <3>3. g[c] = g[c + 1]  BY <1>7, <3>1, <3>2 DEF Found
    <3>4. \A m \in g[c + 1] : m[1] \in c + 1..Len(s)  BY <1>2, <1>7, <3>1, FoundRange
    <3>5. ~Crosses(g, c, c)  BY <1>2, <3>3, <3>4 DEF Crosses
    <3> QED  BY <3>1, <3>5
  <2> HIDE DEF Good
  <2>2. \A l \in 0..0 : l = 0  OBVIOUS
  <2> QED  BY <2>1, <2>2
<1>10. ASSUME NEW x \in Nat, x \in N PROVE x + 1 \in N
  <2> DEFINE k == x + 1
  <2> HIDE DEF Good, k
  <2>1. k = x + 1 /\ k \in Nat  BY DEF k
  <2> SUFFICES ASSUME k < n PROVE Good(k)
    <3>1. ASSUME k < n, NEW l \in 0..k PROVE Good(l)
      <4>1. x < n /\ (l \in 0..x \/ l = k)  BY <1>3, <2>1, <3>1
      <4>2. Good(k)  BY <3>1
      <4> QED  BY <1>10, <4>1, <4>2
    <3> QED  BY <2>1, <3>1
  <2>2. k \in 0..n - 1 /\ x < n  BY <1>3, <2>1
  <2>3. ASSUME NEW l \in 0..k - 1 PROVE Good(l)
    <3>1. l \in 0..x  BY <2>1
    <3> QED  BY <1>10, <2>2, <3>1
  <2> DEFINE i == a - k
             j == c - k
             E == Ends("card", b, i)
             D == Ends("card", s, j)
  <2>4. /\ i \in 1..Len(b) /\ j \in 1..Len(s) /\ i \in 1..a /\ j \in 1..c
        /\ \A e \in E : e \in i + 1..Len(b) + 1
        /\ \A d \in D : d \in j + 1..Len(s) + 1
    BY <1>8, <2>2
  <2>5. \A d \in D : d > c => \E e \in E : e > a  BY <1>5, <2>2
  <2>6. \A l \in 0..k - 1 : a - l \in E <=> c - l \in D  BY <1>6, <2>2
  <2> HIDE DEF i, j
  <2>7. i = a - k /\ j = c - k  BY DEF i, j
  <2>8. /\ E = {} => f[i] = f[i + 1]
        /\ E # {} => f[i] = {<<i, Max(E)>>} \cup f[Max(E)]
    BY <1>7, <2>4 DEF Found
  <2>9. /\ D = {} => g[j] = g[j + 1]
        /\ D # {} => g[j] = {<<j, Max(D)>>} \cup g[Max(D)]
    BY <1>7, <2>4 DEF Found
  <2>10. E # {} => Max(E) \in E /\ \A e \in E : e <= Max(E)  BY <1>2, <2>4, EndsRange
  <2>11. D # {} => Max(D) \in D /\ \A d \in D : d <= Max(D)  BY <1>2, <2>4, EndsRange
  <2>12. i \in Nat /\ j \in Nat /\ i <= a /\ j <= c  BY <1>2, <2>4
  <2> HIDE DEF E, D
  <2> SUFFICES ASSUME Crosses(g, j, c) PROVE Crosses(f, i, a)
    BY <2>7 DEF Good
  <2>13. CASE \E e \in E : e > a
    <3>1. PICK e \in E : e > a  BY <2>13
    <3> DEFINE M == Max(E)
    <3>2. E # {} /\ M \in E /\ e <= M  BY <2>10, <3>1
    <3>3. <<i, M>> \in f[i]  BY <2>8, <3>2
    <3> HIDE DEF M
    <3>4. M > a
      <4>1. Len(b) \in Nat /\ M \in i + 1..Len(b) + 1 /\ e \in i + 1..Len(b) + 1
        BY <1>2, <2>4, <3>1, <3>2, LenProperties
      <4> QED  BY <1>2, <2>12, <3>1, <3>2, <4>1
    <3> QED  BY <2>12, <3>3, <3>4 DEF Crosses
  <2>14. CASE ~\E e \in E : e > a
    <3>1. \A d \in D : ~(d > c)  BY <2>5, <2>14
    <3>2. ASSUME NEW d \in D PROVE \E l \in 0..k - 1 : d = c - l /\ a - l \in E
      <4>1. PICK l : l = c - d  OBVIOUS
      <4>2. d \in j + 1..Len(s) + 1 /\ Len(s) \in Nat /\ ~(d > c)  BY <1>2, <2>4, <3>1
      <4>3. l \in 0..k - 1 /\ d = c - l  BY <1>2, <2>1, <2>7, <2>12, <4>1, <4>2
      <4> QED  BY <2>6, <4>3
    <3>3. ASSUME NEW e \in E PROVE \E l \in 0..k - 1 : e = a - l /\ c - l \in D
      <4>1. PICK l : l = a - e  OBVIOUS
      <4>2. e \in i + 1..Len(b) + 1 /\ Len(b) \in Nat /\ ~(e > a)  BY <1>2, <2>4, <2>14
      <4>3. l \in 0..k - 1 /\ e = a - l  BY <1>2, <2>1, <2>7, <2>12, <4>1, <4>2
      <4> QED  BY <2>6, <4>3
    <3>4. CASE E = {}
      <4>1. D = {}  BY <3>2, <3>4
      <4>2. i + 1 = a - x /\ j + 1 = c - x /\ x \in 0..k - 1  BY <1>2, <2>1, <2>7
      <4>3. f[i] = f[a - x] /\ g[j] = g[c - x]  BY <2>8, <2>9, <3>4, <4>1, <4>2
      <4>4. Crosses(g, c - x, c)  BY <4>3 DEF Crosses
      <4>5. Crosses(f, a - x, a)  BY <2>3, <4>2, <4>4 DEF Good
      <4> QED  BY <4>3, <4>5 DEF Crosses
    <3>5. CASE E # {}
      <4> DEFINE M == Max(E)
      <4>1. M \in E /\ \A e \in E : e <= M  BY <2>10, <3>5
      <4>2. f[i] = {<<i, M>>} \cup f[M]  BY <2>8, <3>5
      <4> HIDE DEF M
      <4>3. PICK l \in 0..k - 1 : M = a - l /\ c - l \in D  BY <3>3, <4>1
      <4> DEFINE L == Max(D)
      <4>4. D # {} /\ L \in D /\ \A d \in D : d <= L  BY <2>11, <4>3
      <4>5. g[j] = {<<j, L>>} \cup g[L]  BY <2>9, <4>4
      <4> HIDE DEF L
      <4>6. PICK y \in 0..k - 1 : L = c - y /\ a - y \in E  BY <3>2, <4>4
      <4>7. y = l
        <5>1. a - y <= a - l  BY <4>1, <4>3, <4>6
        <5>2. c - l <= c - y  BY <4>3, <4>4, <4>6
        <5> QED  BY <1>2, <2>1, <5>1, <5>2
      <4>8. PICK m \in g[j] : m[1] <= c /\ m[2] > c  BY DEF Crosses
      <4>9. m # <<j, L>>
        <5>1. L <= c  BY <1>2, <2>1, <4>6
        <5>2. L \in Int  BY <1>2, <2>1, <4>6
        <5> SUFFICES ASSUME m = <<j, L>> PROVE FALSE
          OBVIOUS
        <5>3. m[2] = L  OBVIOUS
        <5> QED  BY <1>2, <4>8, <5>1, <5>2, <5>3
      <4>10. m \in g[c - l]  BY <4>5, <4>6, <4>7, <4>8, <4>9
      <4>11. Crosses(g, c - l, c)  BY <4>8, <4>10 DEF Crosses
      <4>12. Crosses(f, a - l, a)  BY <2>3, <4>11 DEF Good
      <4> QED  BY <4>2, <4>3, <4>12 DEF Crosses
    <3> QED  BY <3>4, <3>5
  <2> QED  BY <2>13, <2>14
<1> HIDE DEF N
<1>11. \A x \in Nat : x \in N
  <2> HIDE DEF Good
  <2> QED  BY <1>9, <1>10, Induction
<1>12. ASSUME NEW k \in 0..n - 1 PROVE Good(k)
  <2> HIDE DEF Good
  <2>1. k \in Nat /\ k < n /\ k \in 0..k  BY <1>3
  <2> QED  BY <1>11, <2>1 DEF N
<1> QED  BY <1>12 DEF a, c

\* In a block that ends at the cut numbers begin where they began before the
\* pass, unless an address stood right in front of it.
LEMMA BlockBegin ==
  ASSUME NEW A, NEW R, NEW B, Continued(A, R, B), ~Glued(A \o B),
         NEW A1, NEW B1, CutAtSpace(A1, B1), NEW n, Block(A, n), SameBlock(A, A1, n),
         Len(A) = n <=> Len(A1) = n,
         Len(A) > n => Before(A1, "email", A, n)
  PROVE  /\ SameBegin(A, R, A1, B1, n)
         /\ n < Len(A1) => A1[Len(A1) - n] \notin {"d", Space}
<1> DEFINE a == Len(A)
           c == Len(A1)
           b == A \o R
           s == A1 \o B1
           w == A \o B
<1>1. CutAtSpace(A, R) /\ CutAtSpace(A, B)  BY DEF Continued
<1>2. /\ a \in Nat \ {0} /\ c \in Nat \ {0} /\ Len(R) \in Nat /\ Len(B1) \in Nat
      /\ Len(b) = a + Len(R) /\ Len(s) = c + Len(B1)
      /\ \A x \in 1..a : b[x] = A[x]
      /\ \A x \in 1..c : s[x] = A1[x]
  BY <1>1, CutConcat
<1>3. Len(B) \in Nat /\ Len(w) = a + Len(B) /\ \A x \in 1..a : w[x] = A[x]
  BY <1>1, CutConcat
<1>4. n \in 1..a /\ n \in 1..c /\ n \in Nat
      /\ \A x \in 0..n - 1 : A1[c - x] = A[a - x] /\ A[a - x] \in {"d", Space}
  BY <1>2 DEF SameBlock
<1>5. n < a => A[a - n] \notin {"d", Space}  BY DEF Block
<1>6. a = n <=> c = n  OBVIOUS
<1>7. a > n =>
        \/ A1[c - n] = A[a - n]
        \/ A1[c - n] = "#" /\ \E m \in Matches("email", A) : m[2] = a + 1 - n
  BY DEF Before
<1>8. Matches("email", A) \subseteq Matches("email", w)
  <2>1. "email" \in PatternNames  BY DEF PatternNames
  <2> QED  BY <1>1, <2>1, EmailApart, MatchesSplit
<1>9. ~Glued(w)  OBVIOUS
<1>10. \A k \in 0..n - 2 : Boundary(b, a - k) <=> Boundary(s, c - k)  BY <1>1, BoundaryBlock
<1> HIDE DEF a, c, b, s, w
<1>11. ASSUME A[a - (n - 1)] = "d" PROVE Boundary(b, a - (n - 1)) <=> Boundary(s, c - (n - 1))
  <2> DEFINE x == a - (n - 1)
             y == c - (n - 1)
  <2>1. A1[y] = A[x]
    <3>1. n - 1 \in 0..n - 1  BY <1>4
    <3> QED  BY <1>4, <3>1
  <2>2. A[x] = "d"  BY <1>11
  <2> HIDE DEF x, y
  <2>3. x = a + 1 - n /\ y = c + 1 - n /\ x \in 1..a /\ y \in 1..c  BY <1>2, <1>4 DEF x, y
  <2>4. b[x] = A[x] /\ s[y] = A1[y] /\ x <= Len(b) /\ y <= Len(s)  BY <1>2, <2>3
  <2>5. CASE a = n
    <3>1. ~(x > 1) /\ ~(y > 1)  BY <1>4, <1>6, <2>3, <2>5
    <3>2. Boundary(b, x) <=> Boundary(s, y)  BY <2>1, <2>4, <3>1 DEF Boundary
    <3> QED  BY <3>2 DEF x, y
  <2>6. CASE a > n
    <3>1. A1[c - n] = A[a - n]
      <4> SUFFICES ASSUME NEW m \in Matches("email", A), m[2] = a + 1 - n PROVE FALSE
        BY <1>7, <2>6
      <4>1. m \in Matches("email", w) /\ m[2] = x  BY <1>8, <2>3
      <4>2. x <= Len(w) /\ w[x] = "d"  BY <1>2, <1>3, <2>2, <2>3
      <4> QED  BY <1>9, <4>1, <4>2 DEF Glued
    <3>2. x - 1 = a - n /\ y - 1 = c - n /\ x - 1 \in 1..a /\ y - 1 \in 1..c
      BY <1>2, <1>4, <1>6, <2>3, <2>6
    <3>3. b[x - 1] = s[y - 1]  BY <1>2, <3>1, <3>2
    <3>4. x > 1 /\ y > 1  BY <1>2, <1>4, <1>6, <2>3, <2>6
    <3>5. Boundary(b, x) <=> Boundary(s, y)  BY <2>1, <2>4, <3>3, <3>4 DEF Boundary
    <3> QED  BY <3>5 DEF x, y
  <2> QED  BY <1>2, <1>4, <2>5, <2>6
<1>12. ASSUME NEW k \in 0..n - 1, A[a - k] = "d"
       PROVE  Boundary(b, a - k) <=> Boundary(s, c - k)
  <2>1. k \in 0..n - 2 \/ k = n - 1  BY <1>4
  <2> QED  BY <1>10, <1>11, <1>12, <2>1
<1>13. SameBegin(A, R, A1, B1, n)  BY <1>12 DEF SameBegin, a, c, b, s
<1>14. n < c => A1[c - n] \notin {"d", Space}
  <2>1. n < c => n < a  BY <1>2, <1>4, <1>6
  <2> QED  BY <1>2, <1>4, <1>5, <1>7, <2>1, SpaceOnly
<1> QED  BY <1>13, <1>14 DEF c

\* What crosses the cut does so from a position that is reached, and the other
\* way round.
LEMMA CrossesReached ==
  ASSUME NEW q, NEW t \in Seq(Characters), NEW f, Found(f, q, t),
         NEW j \in 1..Len(t), NEW c \in Nat, j <= c, Stops(q, t, j)
  PROVE  Crosses(f, 1, c) <=> Crosses(f, j, c)
<1>1. Len(t) \in Nat  BY LenProperties
<1>2. 1 \in 1..j /\ j \in 1..Len(t) + 1 /\ 1 \in 1..Len(t) + 1  BY <1>1
<1>3. f[j] \subseteq f[1] /\ \A m \in f[1] : m[1] >= j => m \in f[j]  BY <1>2, FoundReached
<1>5. ASSUME NEW m \in f[1], m[2] > c PROVE m[1] >= j
  <2>6. m[1] \in 1..Len(t)  BY <1>2, FoundRange
  <2>7. Ends(q, t, m[1]) # {} /\ m[2] = Max(Ends(q, t, m[1]))  BY <1>2, FoundRange
  <2> DEFINE i == m[1]
             e == m[2]
  <2> HIDE DEF i, e
  <2>2. i \in 1..Len(t) /\ Ends(q, t, i) # {} /\ e = Max(Ends(q, t, i)) /\ e > c
    BY <1>5, <2>6, <2>7 DEF i, e
  <2>3. e \in Ends(q, t, i) /\ e \in i + 1..Len(t) + 1  BY <2>2, EndsRange
  <2> SUFFICES ASSUME ~(i >= j) PROVE FALSE
    BY DEF i
  <2>4. i \in 1..j - 1  BY <1>1, <2>2
  <2>5. e <= j  BY <2>3, <2>4 DEF Stops
  <2> QED  BY <1>1, <2>2, <2>3, <2>5
<1> QED  BY <1>3, <1>5 DEF Crosses

\* No number gets beyond the cut.
LEMMA CardApart ==
  ASSUME NEW A, NEW R, NEW B, Continued(A, R, B), ~Glued(A \o B), Uncrossed("card", A, R),
         NEW A1, A1 = Replaced("email", A), NEW B1, B1 = Replaced("email", B)
  PROVE  Apart("card", A1, B1)
<1>1. CutAtSpace(A, R) /\ CutAtSpace(A, B)  BY DEF Continued
<1>2. CutAtSpace(A1, B1)
  <2>1. "email" \in PatternNames  BY DEF PatternNames
  <2> QED  BY <1>1, <2>1, CutKept
<1>3. /\ A \in Seq(Characters) /\ Len(A) \in Nat \ {0} /\ A[Len(A)] = Space
      /\ A1 \in Seq(Characters)
  BY <1>1, <1>2, CutSpace
<1>4. PICK n \in 1..Len(A) :
        /\ \A k \in 0..n - 1 : A[Len(A) - k] \in {"d", Space}
        /\ n < Len(A) => A[Len(A) - n] \notin {"d", Space}
  <2>1. Len(A) > 0 /\ A[Len(A)] \in {"d", Space}  BY <1>3
  <2> QED  BY <1>3, <2>1, LongestEnd
<1>5. Block(A, n)  BY <1>4 DEF Block
<1>6. /\ SameEnd(A1, A, n) /\ (Len(A) = n <=> Len(A1) = n)
      /\ Len(A) > n => Before(A1, "email", A, n)
  <2>1. Ended("email", A, n)  BY <1>3, <1>5, BlockEnded
  <2> QED  BY <1>3, <2>1, TailKept
<1>7. SameBlock(A, A1, n)
  <2>1. Len(A1) \in Nat  BY <1>3, LenProperties
  <2>2. Len(A1) >= n /\ \A k \in 0..n - 1 : A1[Len(A1) - k] = A[Len(A) - k]
    BY <1>6 DEF SameEnd
  <2>3. n \in 1..Len(A1)  BY <1>3, <2>1, <2>2
  <2> QED  BY <1>4, <2>2, <2>3 DEF SameBlock
<1>8. /\ SameBegin(A, R, A1, B1, n)
      /\ n < Len(A1) => A1[Len(A1) - n] \notin {"d", Space}
  BY <1>2, <1>5, <1>6, <1>7, BlockBegin
<1> DEFINE a == Len(A)
           c == Len(A1)
           b == A \o R
           s == A1 \o B1
<1>9. /\ a \in Nat \ {0} /\ c \in Nat \ {0} /\ Len(R) \in Nat /\ Len(B1) \in Nat
      /\ b \in Seq(Characters) /\ s \in Seq(Characters)
      /\ Len(b) = a + Len(R) /\ Len(s) = c + Len(B1)
      /\ \A x \in 1..a : b[x] = A[x]
      /\ \A x \in 1..c : s[x] = A1[x]
  BY <1>1, <1>2, CutConcat
<1>10. PICK f : Found(f, "card", b) /\ Matches("card", b) = f[1]
  <2> HIDE DEF b
  <2> QED  BY <1>9, MatchesFound
<1>11. PICK g : Found(g, "card", s) /\ Matches("card", s) = g[1]
  <2> HIDE DEF s
  <2> QED  BY <1>9, MatchesFound
<1>12. \A k \in 0..n - 1 : Crosses(g, c - k, c) => Crosses(f, a - k, a)
  BY <1>2, <1>7, <1>8, <1>10, <1>11, CardCrosses
<1>13. n < a => A[a - n] \notin {"d", Space}  BY <1>4
<1>14. n < c => A1[c - n] \notin {"d", Space}  BY <1>8
<1>15. n \in 1..a /\ n \in 1..c  BY <1>4, <1>7 DEF SameBlock
<1>16. ~Crosses(f, 1, a)  BY <1>10 DEF Uncrossed, Crosses
<1> HIDE DEF a, c, b, s
<1>17. ASSUME Crosses(g, 1, c) PROVE FALSE
  <2> DEFINE x == a - (n - 1)
             y == c - (n - 1)
  <2>1. n - 1 \in 0..n - 1  BY <1>9, <1>15
  <2>2. Crosses(g, y, c) => Crosses(f, x, a)  BY <1>12, <2>1
  <2> HIDE DEF x, y
  <2>3. /\ x \in 1..a /\ y \in 1..c /\ x \in 1..Len(b) /\ y \in 1..Len(s)
        /\ x - 1 = a - n /\ y - 1 = c - n /\ (x > 1 => n < a) /\ (y > 1 => n < c)
    BY <1>9, <1>15 DEF x, y
  <2>4. x > 1 => b[x - 1] \notin {"d", Space}
    <3>1. x > 1 => x - 1 \in 1..a  BY <1>9, <2>3
    <3> QED  BY <1>9, <1>13, <2>3, <3>1
  <2>5. y > 1 => s[y - 1] \notin {"d", Space}
    <3>1. y > 1 => y - 1 \in 1..c  BY <1>9, <2>3
    <3> QED  BY <1>9, <1>14, <2>3, <3>1
  <2>6. Stops("card", b, x)  BY <1>9, <2>3, <2>4, CardStops
  <2>7. Stops("card", s, y)  BY <1>9, <2>3, <2>5, CardStops
  <2>8. x <= a /\ y <= c /\ a \in Nat /\ c \in Nat  BY <1>9, <2>3
  <2>9. Crosses(g, y, c)  BY <1>9, <1>11, <1>17, <2>3, <2>7, <2>8, CrossesReached
  <2>10. Crosses(f, x, a)  BY <2>2, <2>9
  <2>11. Crosses(f, 1, a)  BY <1>9, <1>10, <2>3, <2>6, <2>8, <2>10, CrossesReached
  <2> QED  BY <1>16, <2>11
<1>18. ASSUME NEW m \in Matches("card", s), m[1] <= c PROVE m[2] <= c
  <2>1. m[1] \in 1..Len(s) /\ m[2] \in m[1] + 1..Len(s) + 1  BY <1>9, MatchesRange
  <2>2. m[2] \in Int  BY <1>9, <2>1
  <2>3. ~(m[2] > c)  BY <1>11, <1>17, <1>18 DEF Crosses
  <2> QED  BY <1>9, <2>2, <2>3
<1> QED  BY <1>18 DEF Apart, s, c

-----------------------------------------------------------------------------
(* A cut that is accepted is one, whatever comes behind it.                *)

\* A text and its two sides.
LEMMA Sides ==
  ASSUME NEW b \in Seq(Characters), NEW p \in 0..Len(b)
  PROVE  /\ UpTo(b, p) \in Seq(Characters) /\ Len(UpTo(b, p)) = p
         /\ Rest(b, p) \in Seq(Characters) /\ Len(Rest(b, p)) = Len(b) - p
         /\ UpTo(b, p) \o Rest(b, p) = b
         /\ \A i \in 1..p : UpTo(b, p)[i] = b[i]
         /\ \A i \in 1..Len(b) - p : Rest(b, p)[i] = b[i + p]
<1> DEFINE A == UpTo(b, p)
           R == Rest(b, p)
           n == Len(b)
<1>1. n \in Nat /\ p \in Nat /\ p <= n  BY LenProperties
<1>2. \A i \in 1..n : b[i] \in Characters  BY ElementOfSeq
<1>3. /\ A \in Seq(Characters) /\ Len(A) = p /\ \A i \in 1..p : A[i] = b[i]
  <2>1. \A i \in 1..p : b[i] \in Characters  BY <1>1, <1>2
  <2>2. /\ SubSeq(b, 1, p) \in Seq(Characters)
        /\ Len(SubSeq(b, 1, p)) = IF 1 <= p THEN p - 1 + 1 ELSE 0
        /\ \A i \in 1..p - 1 + 1 : SubSeq(b, 1, p)[i] = b[1 + i - 1]
    BY <1>1, <2>1, SubSeqProperties
  <2>3. A = SubSeq(b, 1, p)  BY DEF UpTo
  <2> HIDE DEF A
  <2> QED  BY <1>1, <2>2, <2>3
<1>4. /\ R \in Seq(Characters) /\ Len(R) = n - p /\ \A i \in 1..n - p : R[i] = b[i + p]
  <2> DEFINE m == p + 1
  <2>1. m \in Int /\ m = p + 1 /\ \A i \in m..n : b[i] \in Characters  BY <1>1, <1>2
  <2> HIDE DEF m, n
  <2>2. /\ SubSeq(b, m, n) \in Seq(Characters)
        /\ Len(SubSeq(b, m, n)) = IF m <= n THEN n - m + 1 ELSE 0
        /\ \A i \in 1..n - m + 1 : SubSeq(b, m, n)[i] = b[m + i - 1]
    BY <1>1, <2>1, SubSeqProperties
  <2>3. R = SubSeq(b, m, n)  BY DEF Rest, m, n
  <2> HIDE DEF R
  <2>4. \A i \in 1..n - p : i \in 1..n - m + 1 /\ m + i - 1 = i + p  BY <1>1, <2>1
  <2> QED  BY <1>1, <2>1, <2>2, <2>3, <2>4
<1> HIDE DEF A, R, n
<1>5. /\ A \o R \in Seq(Characters) /\ Len(A \o R) = Len(A) + Len(R)
      /\ \A i \in 1..Len(A) + Len(R) : (A \o R)[i] = IF i <= Len(A) THEN A[i] ELSE R[i - Len(A)]
  <2>1. A \in Seq(Characters) /\ R \in Seq(Characters)  BY <1>3, <1>4
  <2> QED  BY <2>1, ConcatProperties
<1>6. A \o R = b
  <2> DEFINE w == A \o R
  <2> HIDE DEF w
  <2>1. w \in Seq(Characters) /\ Len(w) = n /\ n = Len(b)  BY <1>1, <1>3, <1>4, <1>5 DEF w, n
  <2>2. ASSUME NEW i \in 1..n PROVE w[i] = b[i]
    <3>1. i \in 1..Len(A) + Len(R)  BY <1>1, <1>3, <1>4
    <3>2. w[i] = IF i <= p THEN A[i] ELSE R[i - p]  BY <1>3, <1>5, <3>1 DEF w
    <3>3. CASE i <= p  BY <1>1, <1>3, <3>2, <3>3
    <3>4. CASE ~(i <= p)
      <4>1. PICK k : k = i - p  OBVIOUS
      <4>2. k \in 1..n - p /\ k + p = i  BY <1>1, <3>4, <4>1
      <4> QED  BY <1>4, <3>2, <3>4, <4>1, <4>2
    <3> QED  BY <3>3, <3>4
  <2>3. w = b  BY <2>1, <2>2, SeqEqual
  <2> QED  BY <2>3 DEF w
<1> QED  BY <1>3, <1>4, <1>6 DEF A, R, n

\* What makes a position fit for a cut.
Cuttable(b, p) ==
  /\ p \in 1..Len(b) /\ p + LongestNumber <= Len(b)
  /\ b[p] = Space /\ b[p + 1] # Space
  /\ ~\E m \in RawMatches(b) : m[1] <= p /\ m[2] > p

(* Redacting the two sides of such a position is redacting the whole,       *)
(* whatever follows: safe_cut has only seen what has arrived.              *)
THEOREM CutSafe ==
  ASSUME NEW b \in Seq(Characters), NEW p, Cuttable(b, p), NEW x \in Seq(Characters),
         ~Glued(b \o x)
  PROVE  Redact(b \o x) = Redact(UpTo(b, p)) \o Redact(Rest(b, p) \o x)
<1> DEFINE A == UpTo(b, p)
           R == Rest(b, p)
           B == R \o x
<1>1. /\ p \in 1..Len(b) /\ p + 6 <= Len(b) /\ b[p] = Space /\ b[p + 1] # Space
      /\ Len(b) \in Nat
  BY LenProperties DEF Cuttable, LongestNumber
<1>2. p \in 0..Len(b) /\ p \in Nat  BY <1>1
<1>3. /\ A \in Seq(Characters) /\ Len(A) = p
      /\ R \in Seq(Characters) /\ Len(R) = Len(b) - p
      /\ A \o R = b
      /\ \A i \in 1..p : A[i] = b[i]
      /\ \A i \in 1..Len(b) - p : R[i] = b[i + p]
  BY <1>2, Sides
<1> HIDE DEF A, R
<1>4. /\ B \in Seq(Characters) /\ Len(B) = Len(R) + Len(x) /\ Len(x) \in Nat /\ Len(R) \in Nat
      /\ \A i \in 1..Len(R) : B[i] = R[i]
  <2>1. Len(x) \in Nat /\ Len(R) \in Nat  BY <1>3, LenProperties
  <2>2. /\ B \in Seq(Characters) /\ Len(B) = Len(R) + Len(x)
        /\ \A i \in 1..Len(R) + Len(x) : B[i] = IF i <= Len(R) THEN R[i] ELSE x[i - Len(R)]
    <3>1. R \in Seq(Characters) /\ x \in Seq(Characters)  BY <1>3
    <3> QED  BY <3>1, ConcatProperties
  <2> HIDE DEF B
  <2>3. \A i \in 1..Len(R) : i \in 1..Len(R) + Len(x) /\ i <= Len(R)  BY <2>1
  <2> QED  BY <2>1, <2>2, <2>3
<1>5. A \o B = b \o x
  <2>1. (A \o R) \o x = A \o (R \o x)
    <3>1. A \in Seq(Characters) /\ R \in Seq(Characters)  BY <1>3
    <3> QED  BY <3>1, ConcatAll
  <2> QED  BY <1>3, <2>1
<1> HIDE DEF B
<1>6. Continued(A, R, B)
  <2>1. A[p] = Space /\ Len(A) \in Nat \ {0}  BY <1>1, <1>3
  <2>2. CutAtSpace(A, R) /\ CutAtSpace(A, B)  BY <1>3, <1>4, <2>1 DEF CutAtSpace, Space
  <2>3. Len(R) >= 6 /\ 1 \in 1..Len(R) /\ 1 \in 1..Len(b) - p /\ 1 + p = p + 1  BY <1>1, <1>3
  <2>4. B[1] # Space  BY <1>1, <1>3, <1>4, <2>3
  <2>5. LongestNumber <= Len(R) /\ Len(R) <= Len(B)  BY <1>4, <2>3 DEF LongestNumber
  <2> QED  BY <1>4, <2>2, <2>4, <2>5 DEF Continued
<1>7. \A q \in PatternNames : Uncrossed(q, A, R)
  <2>1. ~\E m \in RawMatches(b) : m[1] <= p /\ m[2] > p  BY DEF Cuttable
  <2>2. \A q \in PatternNames : Matches(q, b) \subseteq RawMatches(b)
    <3>1. /\ DOMAIN Patterns = 1..3
          /\ Patterns[1] = "email" /\ Patterns[2] = "card" /\ Patterns[3] = "bearer"
      BY DEF Patterns
    <3>2. \A q \in PatternNames : \E i \in DOMAIN Patterns : Patterns[i] = q
      BY <3>1 DEF PatternNames
    <3> QED  BY <3>2 DEF RawMatches
  <2> QED  BY <1>3, <2>1, <2>2 DEF Uncrossed
<1>8. /\ "email" \in PatternNames /\ "card" \in PatternNames /\ "bearer" \in PatternNames
  BY DEF PatternNames
<1> DEFINE A1 == Replaced("email", A)
           B1 == Replaced("email", B)
           A2 == Replaced("card", A1)
           B2 == Replaced("card", B1)
<1>9. CutAtSpace(A, B)  BY <1>6 DEF Continued
<1>10. Replaced("email", A \o B) = A1 \o B1  BY <1>8, <1>9, EmailApart, ReplacedSplit
<1>11. CutAtSpace(A1, B1)  BY <1>8, <1>9, CutKept
<1>12. Apart("card", A1, B1)
  <2>1. ~Glued(A \o B)  BY <1>5
  <2> QED  BY <1>6, <1>7, <1>8, <2>1, CardApart
<1>13. Apart("bearer", A2, B2)  BY <1>6, <1>7, <1>8, BearerApart
<1>14. CutAtSpace(A2, B2)  BY <1>8, <1>11, CutKept
<1> HIDE DEF A1, B1
<1>15. Replaced("card", A1 \o B1) = A2 \o B2  BY <1>8, <1>11, <1>12, ReplacedSplit
<1> HIDE DEF A2, B2
<1>16. Replaced("bearer", A2 \o B2) = Replaced("bearer", A2) \o Replaced("bearer", B2)
  BY <1>8, <1>13, <1>14, ReplacedSplit
<1>17. Redact(A \o B) = Replaced("bearer", A2 \o B2)  BY <1>10, <1>15, RedactSteps
<1>18. Redact(A) = Replaced("bearer", A2) /\ Redact(B) = Replaced("bearer", B2)
  BY RedactSteps DEF A1, A2, B1, B2
<1>19. Redact(A \o B) = Redact(A) \o Redact(B)  BY <1>16, <1>17, <1>18
<1> QED  BY <1>5, <1>19 DEF A, R, B

-----------------------------------------------------------------------------
(* Which cut is made.                                                      *)

\* Where words start.
LEMMA WordStart ==
  ASSUME NEW b, NEW n
  PROVE  \A p : p \in WordStarts(b, n) <=> p \in 1..n /\ b[p] = Space /\ b[p + 1] # Space
BY DEF WordStarts, Space

\* What is assumed of the constants.
LEMMA Bounds ==
  /\ HoldBack \in Nat /\ MaxCarry \in Nat /\ RetryAfter \in Nat /\ MaxCutAttempts \in Nat
  /\ 6 <= HoldBack /\ HoldBack < MaxCarry /\ 0 < MaxCutAttempts
BY StreamAssumption DEF LongestNumber

\* Candidates stand behind enough text, at the begin of a word.
LEMMA CandidateRange ==
  ASSUME NEW b \in Seq(Characters)
  PROVE  /\ Candidates(b) \subseteq 1..Len(b)
         /\ \A p \in 1..Len(b) :
              p \in Candidates(b) <=> p + HoldBack <= Len(b) /\ b[p] = Space /\ b[p + 1] # Space
<1>1. Len(b) \in Nat  BY LenProperties
<1>2. ASSUME NEW p
      PROVE  p \in Candidates(b) <=>
               /\ p \in 1..Len(b) /\ p + HoldBack <= Len(b) /\ b[p] = Space /\ b[p + 1] # Space
  <2>1. CASE Len(b) <= HoldBack
    <3>1. Candidates(b) = {}  BY <2>1 DEF Candidates
    <3>2. p \in 1..Len(b) => ~(p + HoldBack <= Len(b))  BY <1>1, <2>1, Bounds
    <3> QED  BY <3>1, <3>2
  <2>2. CASE ~(Len(b) <= HoldBack)
    <3>1. Candidates(b) = WordStarts(b, Limit(b))  BY <2>2 DEF Candidates
    <3>2. p \in 1..Limit(b) <=> p \in 1..Len(b) /\ p + HoldBack <= Len(b)
      BY <1>1, <2>2, Bounds DEF Limit
    <3> QED  BY <3>1, <3>2, WordStart
  <2> QED  BY <2>1, <2>2
<1> QED  BY <1>2

\* A cut that is not forced is no cut at all or one at a fit position.
LEMMA SafeCutFit ==
  ASSUME NEW b \in Seq(Characters)
  PROVE  /\ SafeCut(b) \in 0..Len(b)
         /\ ~Forced(b) => SafeCut(b) = 0 \/ Cuttable(b, SafeCut(b))
<1> DEFINE good == {p \in Tried(b) : Acceptable(b, p)}
<1>1. Len(b) \in Nat  BY LenProperties
<1>2. SafeCut(b) = IF Forced(b) THEN Limit(b) ELSE IF good = {} THEN 0 ELSE Max(good)
  BY DEF SafeCut
<1>3. good \subseteq Candidates(b) /\ good \subseteq 0..Len(b)
  <2>1. good \subseteq Candidates(b)  BY DEF Tried
  <2>2. Candidates(b) \subseteq 1..Len(b)  BY CandidateRange
  <2> HIDE DEF good
  <2> QED  BY <1>1, <2>1, <2>2
<1>4. CASE Forced(b)
  <2>1. Limit(b) \in 0..Len(b)  BY <1>1, <1>4, Bounds DEF Forced, Limit
  <2> QED  BY <1>2, <1>4, <2>1
<1>5. CASE ~Forced(b) /\ good = {}
  <2>1. SafeCut(b) = 0  BY <1>2, <1>5
  <2> QED  BY <1>1, <2>1
<1>6. CASE ~Forced(b) /\ good # {}
  <2> DEFINE p == Max(good)
  <2>1. SafeCut(b) = p  BY <1>2, <1>6
  <2>2. p \in good
    <3> HIDE DEF good
    <3> QED  BY <1>1, <1>3, <1>6, MaxOf
  <2> HIDE DEF p
  <2>3. Acceptable(b, p)  BY <2>2
  <2> HIDE DEF good
  <2>4. p \in Candidates(b) /\ p \in 1..Len(b)
    <3>1. p \in Candidates(b)  BY <1>3, <2>2
    <3> QED  BY <3>1, CandidateRange
  <2>5. p + HoldBack <= Len(b) /\ b[p] = Space /\ b[p + 1] # Space  BY <2>4, CandidateRange
  <2>6. p + LongestNumber <= Len(b)  BY <1>1, <2>4, <2>5, Bounds DEF LongestNumber
  <2>7. ~\E m \in RawMatches(b) : m[1] <= p /\ m[2] > p  BY <2>3 DEF Acceptable
  <2>8. Cuttable(b, p)  BY <2>4, <2>5, <2>6, <2>7 DEF Cuttable
  <2>9. p \in 0..Len(b)  BY <1>1, <2>4
  <2> QED  BY <2>1, <2>8, <2>9
<1> QED  BY <1>4, <1>5, <1>6

\* An address a digit follows stays one with text before the cut.
LEMMA GluedRest ==
  ASSUME NEW A, NEW B, CutAtSpace(A, B), Glued(B)
  PROVE  Glued(A \o B)
<1>1. PICK m \in Matches("email", B) : m[2] <= Len(B) /\ B[m[2]] = "d"  BY DEF Glued
<1>2. "email" \in PatternNames  BY DEF PatternNames
<1>3. Moved(Matches("email", B), Len(A)) \subseteq Matches("email", A \o B)
  BY <1>2, EmailApart, MatchesSplit
<1> DEFINE l == <<m[1] + Len(A), m[2] + Len(A)>>
<1>4. l \in Matches("email", A \o B) /\ l[2] = m[2] + Len(A)  BY <1>1, <1>3 DEF Moved
<1>5. B \in Seq(Characters)  BY CutSpace
<1>6. m[1] \in 1..Len(B) /\ m[2] \in m[1] + 1..Len(B) + 1  BY <1>1, <1>5, MatchesRange
<1> HIDE DEF l
<1>7. Len(A) \in Nat \ {0} /\ Len(B) \in Nat /\ Len(A \o B) = Len(A) + Len(B)
      /\ \A i \in 1..Len(B) : (A \o B)[i + Len(A)] = B[i]
  BY CutConcat
<1>8. m[2] \in 1..Len(B)
  <2>1. m[2] <= Len(B)  BY <1>1
  <2> QED  BY <1>6, <1>7, <2>1
<1>9. l[2] <= Len(A \o B) /\ (A \o B)[l[2]] = "d"
  <2>1. (A \o B)[m[2] + Len(A)] = B[m[2]]  BY <1>7, <1>8
  <2>2. m[2] + Len(A) <= Len(A \o B)  BY <1>7, <1>8
  <2> QED  BY <1>1, <1>4, <2>1, <2>2
<1> QED  BY <1>4, <1>9 DEF Glued

-----------------------------------------------------------------------------
(* Text without a match.                                                   *)

\* Nothing matches, but for a number at the very end.
Clear(t) ==
  \A q \in PatternNames : \A i \in 1..Len(t) : \A e \in Ends(q, t, i) :
    q = "card" /\ e = Len(t) + 1

\* Where find_iter finds nothing there is no match at all.
LEMMA RawClear ==
  ASSUME NEW t \in Seq(Characters), RawMatches(t) = {}
  PROVE  Clear(t)
<1>1. Len(t) \in Nat  BY LenProperties
<1>2. ASSUME NEW q \in PatternNames PROVE Matches(q, t) = {}
  <2>1. /\ DOMAIN Patterns = 1..3
        /\ Patterns[1] = "email" /\ Patterns[2] = "card" /\ Patterns[3] = "bearer"
    BY DEF Patterns
  <2>2. \E i \in DOMAIN Patterns : Patterns[i] = q  BY <2>1 DEF PatternNames
  <2> QED  BY <2>2 DEF RawMatches
<1>3. ASSUME NEW q \in PatternNames PROVE \A i \in 1..Len(t) : Ends(q, t, i) = {}
  <2> DEFINE T == {i \in 1..Len(t) : Ends(q, t, i) # {}}
  <2> SUFFICES ASSUME T # {} PROVE FALSE
    OBVIOUS
  <2>1. T \subseteq Nat  OBVIOUS
  <2>2. PICK m \in T : \A k \in T : m <= k
    <3> HIDE DEF T
    <3> QED  BY <2>1, LeastNumber
  <2>3. m \in 1..Len(t) /\ Ends(q, t, m) # {}  OBVIOUS
  <2>4. \A i \in 1..m - 1 : i \in 1..Len(t) /\ ~(m <= i)  BY <1>1, <2>3
  <2>5. \A i \in 1..m - 1 : i \notin T
    <3> HIDE DEF T
    <3> QED  BY <2>2, <2>4
  <2>6. \A i \in 1..m - 1 : Ends(q, t, i) = {}  BY <2>4, <2>5
  <2>7. \A i \in 1..m - 1 : \A e \in Ends(q, t, i) : e <= m  BY <2>6
  <2>8. <<m, Max(Ends(q, t, m))>> \in Matches(q, t)  BY <2>3, <2>7, MatchesReached
  <2> QED  BY <1>2, <2>8
<1> QED  BY <1>3 DEF Clear

\* Nor was there in what had come before.
LEMMA ClearBefore ==
  ASSUME NEW t \in Seq(Characters), NEW y \in Seq(Characters), Clear(t \o y)
  PROVE  Clear(t)
<1> DEFINE w == t \o y
           n == Len(t)
<1>1. n \in Nat /\ Len(y) \in Nat  BY LenProperties
<1>2. /\ w \in Seq(Characters) /\ Len(w) = n + Len(y)
      /\ \A i \in 1..n + Len(y) : w[i] = IF i <= n THEN t[i] ELSE y[i - n]
  BY ConcatProperties
<1> HIDE DEF w
<1>3. \A i \in 1..n : w[i] = t[i]
  <2>1. \A i \in 1..n : i \in 1..n + Len(y) /\ i <= n  BY <1>1
  <2> QED  BY <1>2, <2>1
<1>4. ASSUME NEW q \in PatternNames, NEW i \in 1..n, NEW e \in Ends(q, t, i)
      PROVE  q = "card" /\ e = n + 1
  <2>1. e \in i + 1..n + 1 /\ i \in 1..Len(t) /\ e \in i + 1..Len(t) + 1  BY EndsRange
  <2>2. Describes(q, SubSeq(t, i, e - 1))
        /\ (q = "card" => Boundary(t, i) /\ Boundary(t, e))
    BY DEF Ends
  <2> HIDE DEF n
  <2>3. SubSeq(t, i, e - 1) = SubSeq(w, i, e - 1)
    <3>1. i \in 1..Len(w) /\ e \in i + 1..Len(w) + 1 /\ e - i = e - i  BY <1>1, <1>2, <2>1
    <3>2. \A k \in 0..e - i - 1 : i + k \in 1..n  BY <1>1, <2>1
    <3>3. \A k \in 0..e - i - 1 : t[i + k] = w[i + k]  BY <1>3, <3>2
    <3> QED  BY <1>2, <2>1, <3>1, <3>3, SameText
  <2>4. ASSUME NEW x \in 1..n PROVE Boundary(t, x) <=> Boundary(w, x)
    <3>1. x <= n /\ x <= Len(w) /\ n = Len(t)  BY <1>1, <1>2 DEF n
    <3>2. w[x] = t[x]  BY <1>3
    <3>3. x > 1 => w[x - 1] = t[x - 1]
      <4>1. x > 1 => x - 1 \in 1..n  BY <1>1
      <4> QED  BY <1>3, <4>1
    <3> QED  BY <3>1, <3>2, <3>3 DEF Boundary
  <2>5. ASSUME q # "card" \/ e <= n PROVE FALSE
    <3>1. q = "card" => Boundary(w, i) /\ Boundary(w, e)
      <4>1. q = "card" => e \in 1..n  BY <1>1, <2>1, <2>5
      <4> QED  BY <2>2, <2>4, <4>1
    <3>2. e \in i + 1..Len(w) + 1  BY <1>1, <1>2, <2>1
    <3>3. e \in Ends(q, w, i)  BY <2>2, <2>3, <3>1, <3>2 DEF Ends
    <3>4. i \in 1..Len(w)  BY <1>1, <1>2
    <3>5. q = "card" /\ e = Len(w) + 1  BY <3>3, <3>4 DEF Clear, w
    <3> QED  BY <1>1, <1>2, <2>5, <3>5
  <2> QED  BY <1>1, <2>1, <2>5
<1> QED  BY <1>4 DEF Clear

\* Nor is there behind a cut.
LEMMA ClearBehind ==
  ASSUME NEW A, NEW B, CutAtSpace(A, B), Clear(A \o B)
  PROVE  Clear(B)
<1>1. /\ Len(A) \in Nat \ {0} /\ Len(B) \in Nat /\ Len(A \o B) = Len(A) + Len(B)
      /\ B \in Seq(Characters)
  BY CutConcat, CutSpace
<1>2. ASSUME NEW q \in PatternNames, NEW i \in 1..Len(B), NEW e \in Ends(q, B, i)
      PROVE  q = "card" /\ e = Len(B) + 1
  <2>1. e \in i + 1..Len(B) + 1  BY <1>1, EndsRange
  <2>2. e \in Nat  BY <1>1, <2>1
  <2>3. e + Len(A) \in Ends(q, A \o B, i + Len(A))  BY <2>2, EndsRest
  <2>4. i + Len(A) \in 1..Len(A \o B)  BY <1>1
  <2>5. q = "card" /\ e + Len(A) = Len(A \o B) + 1  BY <2>3, <2>4 DEF Clear
  <2> QED  BY <1>1, <2>2, <2>5
<1> QED  BY <1>2 DEF Clear

\* So every candidate is accepted.
LEMMA ClearAccepted ==
  ASSUME NEW b \in Seq(Characters), Clear(b), NEW p \in Candidates(b)
  PROVE  Acceptable(b, p)
<1>1. Len(b) \in Nat  BY LenProperties
<1>2. p \in 1..Len(b)  BY CandidateRange
<1>3. p + HoldBack <= Len(b) /\ b[p] = Space /\ b[p + 1] # Space  BY <1>2, CandidateRange
<1>4. ASSUME NEW m \in RawMatches(b), m[1] <= p PROVE FALSE
  <2>1. PICK q \in PatternNames : m \in Matches(q, b)
    <3>1. /\ DOMAIN Patterns = 1..3
          /\ Patterns[1] = "email" /\ Patterns[2] = "card" /\ Patterns[3] = "bearer"
      BY DEF Patterns
    <3>2. \A i \in DOMAIN Patterns : Patterns[i] \in PatternNames  BY <3>1 DEF PatternNames
    <3> QED  BY <3>2 DEF RawMatches
  <2> DEFINE i == m[1]
             e == m[2]
  <2>2. i \in 1..Len(b) /\ e \in Ends(q, b, i) /\ i <= p  BY <1>4, <2>1, MatchesRange
  <2> HIDE DEF i, e
  <2>3. q = "card" /\ e = Len(b) + 1  BY <2>2 DEF Clear
  <2>4. e <= i + 6  BY <2>2, <2>3, CardShape DEF LongestNumber
  <2> QED  BY <1>1, <1>2, <1>3, <2>2, <2>3, <2>4, Bounds
<1>5. Cuttable(b, p)
  <2>1. p + LongestNumber <= Len(b)  BY <1>1, <1>2, <1>3, Bounds DEF LongestNumber
  <2> QED  BY <1>2, <1>3, <1>4, <2>1 DEF Cuttable
<1>6. ~Glued(b)
  <2> SUFFICES ASSUME NEW m \in Matches("email", b) PROVE FALSE
    BY DEF Glued
  <2>1. m[1] \in 1..Len(b) /\ m[2] \in Ends("email", b, m[1])  BY MatchesRange
  <2>2. "email" \in PatternNames /\ "email" # "card"  BY DEF PatternNames
  <2> QED  BY <2>1, <2>2 DEF Clear
<1>7. b \o <<>> = b /\ Rest(b, p) \o <<>> = Rest(b, p) /\ <<>> \in Seq(Characters)
  <2>1. p \in 0..Len(b)  BY <1>1, <1>2
  <2>2. Rest(b, p) \in Seq(Characters)  BY <2>1, Sides
  <2> QED  BY <2>2, ConcatEmptySeq, EmptySeq
<1>8. Redact(b) = Redact(UpTo(b, p)) \o Redact(Rest(b, p))
  <2>1. ~Glued(b \o <<>>)  BY <1>6, <1>7
  <2>2. Redact(b \o <<>>) = Redact(UpTo(b, p)) \o Redact(Rest(b, p) \o <<>>)
    BY <1>5, <1>7, <2>1, CutSafe
  <2> QED  BY <1>7, <2>2
<1> QED  BY <1>4, <1>8 DEF Acceptable

\* And the last one is where the text is cut.
LEMMA ClearCut ==
  ASSUME NEW b \in Seq(Characters), Clear(b), ~Forced(b)
  PROVE  \A p \in Candidates(b) : p <= SafeCut(b)
<1> SUFFICES ASSUME NEW p \in Candidates(b) PROVE p <= SafeCut(b)
  OBVIOUS
<1> DEFINE C == Candidates(b)
           c == Max(C)
           good == {x \in Tried(b) : Acceptable(b, x)}
<1>1. Len(b) \in Nat /\ C \subseteq 1..Len(b)  BY LenProperties, CandidateRange
<1>2. C \subseteq 0..Len(b) /\ p \in C  BY <1>1
<1> HIDE DEF C
<1>3. c \in C /\ \A x \in C : x <= c  BY <1>1, <1>2, MaxOf
<1> HIDE DEF c
<1>4. {q \in C : q > c} = {}
  <2>1. \A q \in C : q \in Int /\ c \in Int /\ q <= c  BY <1>1, <1>3
  <2> QED  BY <2>1
<1>5. c \in Tried(b)
  <2>1. Cardinality({q \in C : q > c}) < MaxCutAttempts  BY <1>4, FS_EmptySet, Bounds
  <2> QED  BY <1>3, <2>1 DEF Tried, C
<1>6. c \in good
  <2>1. Acceptable(b, c)  BY <1>3, ClearAccepted DEF C
  <2> QED  BY <1>5, <2>1
<1>7. good \subseteq C  BY DEF Tried, C
<1>8. SafeCut(b) = Max(good)  BY <1>6 DEF SafeCut
<1> HIDE DEF good
<1>9. Max(good) \in C /\ c <= Max(good)
  <2>1. good \subseteq 0..Len(b) /\ good # {}  BY <1>2, <1>6, <1>7
  <2>2. Max(good) \in good /\ \A x \in good : x <= Max(good)  BY <1>1, <2>1, MaxOf
  <2> QED  BY <1>6, <1>7, <2>2
<1>10. p <= c  BY <1>2, <1>3
<1> DEFINE g == Max(good)
<1>11. g \in C /\ c <= g  BY <1>9
<1> HIDE DEF g
<1>12. \A y \in C : y \in 1..Len(b)  BY <1>1
<1>13. p \in 1..Len(b) /\ c \in 1..Len(b) /\ g \in 1..Len(b)  BY <1>2, <1>3, <1>11, <1>12
<1>14. p <= g  BY <1>1, <1>10, <1>11, <1>13
<1> QED  BY <1>8, <1>14 DEF g

-----------------------------------------------------------------------------
(* The invariant of the stream.                                            *)

StreamType ==
  /\ carry \in Seq(Characters) /\ arrived \in Seq(Characters) /\ released \in Seq(Characters)
  /\ nextAttempt \in Nat /\ forced \in BOOLEAN /\ finished \in BOOLEAN
  /\ finished => carry = <<>>

\* What is held back is the end of what has arrived, from the last cut on.
CarryIsRest ==
  ~finished /\ ~forced =>
    \E A \in Seq(Characters) : arrived = A \o carry /\ (A = <<>> \/ CutAtSpace(A, carry))

\* What is released stays right whatever arrives.
ReleasedForGood ==
  ~forced =>
    \A x \in Seq(Characters) :
      (finished => x = <<>>) /\ ~Glued(arrived \o x) =>
        Redact(arrived \o x) = released \o Redact(carry \o x)

\* The same of any three texts.
RightFor(a, r, c) ==
  \A x \in Seq(Characters) : ~Glued(a \o x) => Redact(a \o x) = r \o Redact(c \o x)

\* An attempt is made once enough has come since the last one.
AttemptDue ==
  ~finished =>
    /\ nextAttempt <= Len(carry) + RetryAfter
    /\ \/ Len(carry) <= HoldBack
       \/ Len(carry) < nextAttempt
       \/ Len(carry) + RetryAfter = nextAttempt

\* The last attempt left no word that had begun before its hold-back.
WordsFresh ==
  ~finished /\ ~forced /\ Clear(arrived) =>
    \A p \in WordStarts(carry, Limit(carry)) : nextAttempt < p + HoldBack + RetryAfter

StreamInv == StreamType /\ CarryIsRest /\ ReleasedForGood /\ AttemptDue /\ WordsFresh

\* No word begins before the hold-back of a short text.
LEMMA NoStart ==
  ASSUME NEW b \in Seq(Characters), Len(b) <= HoldBack
  PROVE  WordStarts(b, Limit(b)) = {}
<1>1. Len(b) \in Nat /\ HoldBack \in Nat  BY Bounds, LenProperties
<1>2. \A p \in 1..Limit(b) : FALSE  BY <1>1 DEF Limit
<1> QED  BY <1>2, WordStart

\* What holds at first.
LEMMA StreamBegins ==
  ASSUME StreamInit
  PROVE  StreamInv
<1>1. <<>> \in Seq(Characters) /\ Len(<<>>) = 0  BY EmptySeq
<1>2. StreamType  BY <1>1 DEF StreamInit, StreamType
<1>3. CarryIsRest
  <2>1. <<>> \o <<>> = <<>>  BY <1>1, ConcatEmptySeq
  <2> QED  BY <1>1, <2>1 DEF StreamInit, CarryIsRest
<1>4. ReleasedForGood
  <2> SUFFICES ASSUME NEW x \in Seq(Characters)
               PROVE  Redact(arrived \o x) = released \o Redact(carry \o x)
    BY DEF ReleasedForGood
  <2>1. arrived = <<>> /\ released = <<>> /\ carry = <<>>  BY DEF StreamInit
  <2>2. <<>> \o x = x /\ Redact(x) \in Seq(Characters)  BY ConcatEmptySeq, RedactType
  <2>3. <<>> \o Redact(x) = Redact(x)  BY <2>2, ConcatEmptySeq
  <2> QED  BY <2>1, <2>2, <2>3
<1>5. AttemptDue
  <2>1. Len(carry) = 0 /\ nextAttempt = 0  BY <1>1 DEF StreamInit
  <2> QED  BY <2>1, Bounds DEF AttemptDue
<1>6. WordsFresh
  <2>1. carry \in Seq(Characters) /\ Len(carry) <= HoldBack  BY <1>1, Bounds DEF StreamInit
  <2> QED  BY <2>1, NoStart DEF WordsFresh
<1> QED  BY <1>2, <1>3, <1>4, <1>5, <1>6 DEF StreamInv

\* What a piece adds.
LEMMA PieceAdded ==
  ASSUME StreamInv, NEW piece \in Pieces, StreamPush(piece)
  PROVE  /\ piece \in Seq(Characters) /\ carry \o piece \in Seq(Characters)
         /\ Len(carry \o piece) = Len(carry) + Len(piece)
         /\ Len(carry) \in Nat /\ Len(piece) \in Nat
         /\ \A i \in 1..Len(carry) : (carry \o piece)[i] = carry[i]
         /\ arrived' = arrived \o piece /\ arrived' \in Seq(Characters)
         /\ ~finished /\ ~finished'
<1>1. piece \in Seq(Characters)  BY StreamAssumption
<1>2. carry \in Seq(Characters) /\ arrived \in Seq(Characters)  BY DEF StreamInv, StreamType
<1>3. Len(carry) \in Nat /\ Len(piece) \in Nat  BY <1>1, <1>2, LenProperties
<1>4. /\ carry \o piece \in Seq(Characters)
      /\ Len(carry \o piece) = Len(carry) + Len(piece)
      /\ \A i \in 1..Len(carry) + Len(piece) :
           (carry \o piece)[i] = IF i <= Len(carry) THEN carry[i] ELSE piece[i - Len(carry)]
  BY <1>1, <1>2, ConcatProperties
<1>5. \A i \in 1..Len(carry) : i \in 1..Len(carry) + Len(piece) /\ i <= Len(carry)  BY <1>3
<1>6. \A i \in 1..Len(carry) : (carry \o piece)[i] = carry[i]  BY <1>4, <1>5
<1>7. arrived \o piece \in Seq(Characters)  BY <1>1, <1>2, ConcatProperties
<1>8. arrived' = arrived \o piece /\ ~finished /\ ~finished'  BY DEF StreamPush
<1> QED  BY <1>1, <1>3, <1>4, <1>6, <1>7, <1>8

\* The text so far with what is still to come, seen from the next piece on.
LEMMA PieceJoined ==
  ASSUME NEW a \in Seq(Characters), NEW c \in Seq(Characters), NEW r \in Seq(Characters),
         NEW piece \in Seq(Characters), NEW x \in Seq(Characters),
         RightFor(a, r, c), ~Glued((a \o piece) \o x)
  PROVE  Redact((a \o piece) \o x) = r \o Redact((c \o piece) \o x)
<1> DEFINE y == piece \o x
<1>1. y \in Seq(Characters)  BY ConcatProperties
<1>2. (a \o piece) \o x = a \o y /\ (c \o piece) \o x = c \o y  BY ConcatAll, SMTT(20)
<1> HIDE DEF y
<1>3. ~Glued(a \o y)  BY <1>2
<1>4. Redact(a \o y) = r \o Redact(c \o y)  BY <1>1, <1>3 DEF RightFor
<1> QED  BY <1>2, <1>4

\* Where the text is held, the part in front stays where it was.
LEMMA RestExtended ==
  ASSUME NEW A \in Seq(Characters), NEW c \in Seq(Characters), NEW piece \in Seq(Characters),
         A = <<>> \/ CutAtSpace(A, c)
  PROVE  /\ (A \o c) \o piece = A \o (c \o piece)
         /\ A = <<>> \/ CutAtSpace(A, c \o piece)
<1>1. (A \o c) \o piece = A \o (c \o piece)  BY ConcatAll
<1>2. c \o piece \in Seq(Characters)  BY ConcatProperties
<1> QED  BY <1>1, <1>2 DEF CutAtSpace

\* A push that holds everything back.
LEMMA HoldKeeps ==
  ASSUME StreamInv, NEW piece \in Pieces, StreamPush(piece), Hold(carry \o piece)
  PROVE  StreamInv'
<1> DEFINE b == carry \o piece
<1>1. /\ piece \in Seq(Characters) /\ b \in Seq(Characters)
      /\ Len(b) = Len(carry) + Len(piece)
      /\ Len(carry) \in Nat /\ Len(piece) \in Nat
      /\ \A i \in 1..Len(carry) : b[i] = carry[i]
      /\ arrived' = arrived \o piece /\ arrived' \in Seq(Characters)
      /\ ~finished /\ ~finished'
  BY PieceAdded
<1>2. /\ Len(b) < Max({nextAttempt, HoldBack + 1}) /\ carry' = b
      /\ nextAttempt' = nextAttempt /\ released' = released /\ forced' = forced
  BY DEF Hold
<1>3. /\ carry \in Seq(Characters) /\ arrived \in Seq(Characters)
      /\ released \in Seq(Characters) /\ nextAttempt \in Nat /\ forced \in BOOLEAN
  BY DEF StreamInv, StreamType
<1>4. StreamType'
  <2>1. finished' \in BOOLEAN /\ (finished' => carry' = <<>>)
    BY <1>1 DEF StreamPush, StreamInv, StreamType
  <2>2. forced' \in BOOLEAN  BY <1>2, <1>3
  <2> HIDE DEF b
  <2>3. carry' \in Seq(Characters) /\ released' \in Seq(Characters) /\ nextAttempt' \in Nat
    BY <1>1, <1>2, <1>3
  <2> QED  BY <1>1, <2>1, <2>2, <2>3 DEF StreamType
<1>5. CarryIsRest'
  <2> SUFFICES ASSUME ~forced'
               PROVE  \E A \in Seq(Characters) :
                        arrived' = A \o carry' /\ (A = <<>> \/ CutAtSpace(A, carry'))
    BY DEF CarryIsRest
  <2>1. PICK A \in Seq(Characters) : arrived = A \o carry /\ (A = <<>> \/ CutAtSpace(A, carry))
    BY <1>1, <1>2 DEF StreamInv, CarryIsRest
  <2>2. (A \o carry) \o piece = A \o b /\ (A = <<>> \/ CutAtSpace(A, b))
    BY <1>1, <1>3, <2>1, RestExtended
  <2> QED  BY <1>1, <1>2, <2>1, <2>2
<1>6. ReleasedForGood'
  <2> SUFFICES ASSUME ~forced', NEW x \in Seq(Characters), ~Glued(arrived' \o x)
               PROVE  Redact(arrived' \o x) = released' \o Redact(carry' \o x)
    BY DEF ReleasedForGood
  <2>1. RightFor(arrived, released, carry)
    BY <1>1, <1>2 DEF StreamInv, ReleasedForGood, RightFor
  <2>2. ~Glued((arrived \o piece) \o x)  BY <1>1
  <2>3. Redact((arrived \o piece) \o x) = released \o Redact((carry \o piece) \o x)
    BY <1>1, <1>3, <2>1, <2>2, PieceJoined
  <2> QED  BY <1>1, <1>2, <2>3
<1> HIDE DEF b
<1>7. AttemptDue /\ WordsFresh  BY DEF StreamInv
<1>8. Len(b) <= HoldBack \/ Len(b) < nextAttempt
  <2> DEFINE M == {nextAttempt, HoldBack + 1}
             m == nextAttempt + HoldBack + 1
  <2>1. M \subseteq 0..m /\ M # {} /\ m \in Nat  BY <1>3, Bounds
  <2>2. Max(M) \in M
    <3> HIDE DEF M, m
    <3> QED  BY <2>1, MaxOf
  <2>3. Max(M) = nextAttempt \/ Max(M) = HoldBack + 1  BY <2>2
  <2> DEFINE g == Max(M)
  <2>4. (g = nextAttempt \/ g = HoldBack + 1) /\ Len(b) < g  BY <1>2, <2>3
  <2> HIDE DEF g
  <2> QED  BY <1>1, <1>3, <2>4, Bounds
<1>9. AttemptDue'
  <2>1. nextAttempt <= Len(b) + RetryAfter  BY <1>1, <1>3, <1>7, Bounds DEF AttemptDue
  <2> QED  BY <1>2, <1>8, <2>1 DEF AttemptDue
<1>10. WordsFresh'
  <2> SUFFICES ASSUME ~forced', Clear(arrived'), NEW p \in WordStarts(carry', Limit(carry'))
               PROVE  nextAttempt' < p + HoldBack + RetryAfter
    BY DEF WordsFresh
  <2>1. Clear(arrived)  BY <1>1, <1>3, ClearBefore
  <2>2. p \in 1..Limit(b) /\ b[p] = Space /\ b[p + 1] # Space  BY <1>2, WordStart
  <2>3. p \in 1..Len(b) /\ p + HoldBack <= Len(b)  BY <1>1, <2>2, Bounds DEF Limit
  <2>4. CASE p + HoldBack <= Len(carry)
    <3>1. p \in 1..Limit(carry) /\ p \in 1..Len(carry) /\ p + 1 \in 1..Len(carry)
      BY <1>1, <2>3, <2>4, Bounds DEF Limit
    <3>2. carry[p] = Space /\ carry[p + 1] # Space  BY <1>1, <2>2, <3>1
    <3>3. p \in WordStarts(carry, Limit(carry))  BY <3>1, <3>2, WordStart
    <3> QED  BY <1>1, <1>2, <1>7, <2>1, <3>3 DEF WordsFresh
  <2>5. CASE ~(p + HoldBack <= Len(carry))
    <3>1. nextAttempt <= Len(carry) + RetryAfter  BY <1>1, <1>7 DEF AttemptDue
    <3> QED  BY <1>1, <1>2, <1>3, <2>3, <2>5, <3>1, Bounds
  <2> QED  BY <2>4, <2>5
<1> QED  BY <1>4, <1>5, <1>6, <1>9, <1>10 DEF StreamInv

\* A push that looks for a cut.
LEMMA ReleaseKeeps ==
  ASSUME StreamInv, NEW piece \in Pieces, StreamPush(piece), Release(carry \o piece)
  PROVE  StreamInv'
<1> DEFINE b == carry \o piece
           c == SafeCut(b)
           U == UpTo(b, c)
           R == Rest(b, c)
<1>1. /\ piece \in Seq(Characters) /\ b \in Seq(Characters)
      /\ arrived' = arrived \o piece /\ arrived' \in Seq(Characters)
      /\ ~finished /\ ~finished'
  BY PieceAdded
<1>2. /\ carry' = R /\ released' = released \o Redact(U)
      /\ forced' = (forced \/ Forced(b))
      /\ nextAttempt' = Len(carry') + RetryAfter
  BY DEF Release
<1>3. /\ carry \in Seq(Characters) /\ arrived \in Seq(Characters)
      /\ released \in Seq(Characters) /\ nextAttempt \in Nat /\ forced \in BOOLEAN
  BY DEF StreamInv, StreamType
<1> DEFINE a == arrived \o piece
<1>4. ~forced => \E A \in Seq(Characters) : a = A \o b /\ (A = <<>> \/ CutAtSpace(A, b))
  <2> SUFFICES ASSUME ~forced
               PROVE  \E A \in Seq(Characters) : a = A \o b /\ (A = <<>> \/ CutAtSpace(A, b))
    OBVIOUS
  <2>1. PICK A \in Seq(Characters) : arrived = A \o carry /\ (A = <<>> \/ CutAtSpace(A, carry))
    BY <1>1 DEF StreamInv, CarryIsRest
  <2>2. (A \o carry) \o piece = A \o b /\ (A = <<>> \/ CutAtSpace(A, b))
    BY <1>1, <1>3, <2>1, RestExtended
  <2> QED  BY <2>1, <2>2
<1>5. ~forced => \A x \in Seq(Characters) :
                   ~Glued(a \o x) => Redact(a \o x) = released \o Redact(b \o x)
  <2> SUFFICES ASSUME ~forced, NEW x \in Seq(Characters), ~Glued(a \o x)
               PROVE  Redact(a \o x) = released \o Redact(b \o x)
    OBVIOUS
  <2>1. RightFor(arrived, released, carry)  BY <1>1 DEF StreamInv, ReleasedForGood, RightFor
  <2> QED  BY <1>1, <1>3, <2>1, PieceJoined
<1>6. arrived' = a  BY <1>1
<1> HIDE DEF a, b
<1>7. c \in 0..Len(b) /\ (~Forced(b) => c = 0 \/ Cuttable(b, c))  BY <1>1, SafeCutFit
<1> HIDE DEF c
<1>8. /\ U \in Seq(Characters) /\ Len(U) = c
      /\ R \in Seq(Characters) /\ Len(R) = Len(b) - c
      /\ U \o R = b
      /\ \A i \in 1..c : U[i] = b[i]
      /\ \A i \in 1..Len(b) - c : R[i] = b[i + c]
  BY <1>1, <1>7, Sides
<1>9. Len(b) \in Nat /\ c \in Nat /\ Len(R) \in Nat  BY <1>1, <1>7, <1>8, LenProperties
<1>10. c = 0 => U = <<>> /\ R = b
  <2>1. c = 0 => U = <<>>  BY <1>8, EmptySeq
  <2> HIDE DEF U, R
  <2>2. <<>> \o R = R  BY <1>8, ConcatEmptySeq
  <2> QED  BY <1>8, <2>1, <2>2
<1>11. ~Forced(b) /\ c # 0 => CutAtSpace(U, R)
  <2> SUFFICES ASSUME ~Forced(b), c # 0 PROVE CutAtSpace(U, R)
    OBVIOUS
  <2>1. c \in 1..Len(b) /\ b[c] = Space  BY <1>7 DEF Cuttable
  <2> HIDE DEF U, R
  <2>2. U[c] = Space /\ c \in Nat \ {0}
    <3>1. c \in 1..c /\ c \in Nat \ {0}  BY <1>9, <2>1
    <3> QED  BY <1>8, <2>1, <3>1
  <2>3. U[Len(U)] = Space /\ Len(U) \in Nat \ {0}  BY <1>8, <2>2
  <2> QED  BY <1>8, <2>3 DEF CutAtSpace, Space
<1> HIDE DEF U, R
<1>12. Redact(U) \in Seq(Characters) /\ Redact(R) \in Seq(Characters)  BY <1>8, RedactType
<1>13. StreamType'
  <2>1. released \o Redact(U) \in Seq(Characters)  BY <1>3, <1>12, ConcatProperties
  <2>2. Len(R) + RetryAfter \in Nat  BY <1>9, Bounds
  <2>3. forced' \in BOOLEAN  BY <1>2
  <2>4. finished' \in BOOLEAN /\ (finished' => carry' = <<>>)
    BY <1>1 DEF StreamPush, StreamInv, StreamType
  <2>5. carry' \in Seq(Characters) /\ released' \in Seq(Characters) /\ nextAttempt' \in Nat
    BY <1>2, <1>8, <2>1, <2>2
  <2> QED  BY <1>1, <2>3, <2>4, <2>5 DEF StreamType
<1>14. ~forced' => ~forced /\ ~Forced(b)  BY <1>2
<1>15. CarryIsRest'
  <2> SUFFICES ASSUME ~forced'
               PROVE  \E A \in Seq(Characters) :
                        arrived' = A \o carry' /\ (A = <<>> \/ CutAtSpace(A, carry'))
    BY DEF CarryIsRest
  <2>1. PICK A \in Seq(Characters) : a = A \o b /\ (A = <<>> \/ CutAtSpace(A, b))
    BY <1>4, <1>14
  <2>2. CASE c = 0  BY <1>2, <1>6, <1>10, <2>1, <2>2
  <2>3. CASE c # 0
    <3> DEFINE AU == A \o U
    <3>1. AU \in Seq(Characters)  BY <1>8, ConcatProperties
    <3>2. a = AU \o R
      <4>1. (A \o U) \o R = A \o (U \o R)  BY <1>8, ConcatAll
      <4> QED  BY <1>8, <2>1, <4>1
    <3>3. CutAtSpace(U, R)  BY <1>11, <1>14, <2>3
    <3>4. CutAtSpace(AU, R)
      <4>1. U \in Seq(Characters) /\ Len(U) \in Nat \ {0} /\ U[Len(U)] = Space
        BY <3>3 DEF CutAtSpace, Space
      <4>2. Len(A) \in Nat  BY LenProperties
      <4>3. /\ Len(AU) = Len(A) + Len(U)
            /\ \A i \in 1..Len(A) + Len(U) : AU[i] = IF i <= Len(A) THEN A[i] ELSE U[i - Len(A)]
        BY <4>1, ConcatProperties
      <4> HIDE DEF AU
      <4>4. AU[Len(AU)] = Space /\ Len(AU) \in Nat \ {0}
        <5>1. PICK n : n = Len(A) + Len(U)  OBVIOUS
        <5>2. n \in 1..Len(A) + Len(U) /\ ~(n <= Len(A)) /\ n - Len(A) = Len(U) /\ n \in Nat \ {0}
          BY <4>1, <4>2, <5>1
        <5> QED  BY <4>1, <4>3, <5>1, <5>2
      <4> QED  BY <1>8, <3>1, <4>4 DEF CutAtSpace, Space
    <3> QED  BY <1>2, <1>6, <3>1, <3>2, <3>4
  <2> QED  BY <2>2, <2>3
<1>16. ReleasedForGood'
  <2> SUFFICES ASSUME ~forced', NEW x \in Seq(Characters), ~Glued(a \o x)
               PROVE  Redact(a \o x) = released' \o Redact(carry' \o x)
    BY <1>6 DEF ReleasedForGood
  <2>1. Redact(a \o x) = released \o Redact(b \o x)  BY <1>5, <1>14
  <2>2. CASE c = 0
    <3>1. Redact(U) = <<>> /\ R = b  BY <1>10, <2>2, RedactEmpty
    <3>2. released \o <<>> = released  BY <1>3, ConcatEmptySeq
    <3> QED  BY <1>2, <2>1, <3>1, <3>2
  <2>3. CASE c # 0
    <3>1. Cuttable(b, c)  BY <1>7, <1>14, <2>3
    <3>2. ~Glued(b \o x)
      <4>1. PICK A \in Seq(Characters) : a = A \o b /\ (A = <<>> \/ CutAtSpace(A, b))
        BY <1>4, <1>14
      <4>2. a \o x = A \o (b \o x)  BY <1>1, <4>1, ConcatAll
      <4>3. b \o x \in Seq(Characters)  BY <1>1, ConcatProperties
      <4>4. CASE A = <<>>
        <5>1. A \o (b \o x) = b \o x  BY <4>3, <4>4, ConcatEmptySeq
        <5> QED  BY <4>2, <5>1
      <4>5. CASE CutAtSpace(A, b)
        <5>1. CutAtSpace(A, b \o x)  BY <4>3, <4>5 DEF CutAtSpace
        <5> QED  BY <4>2, <5>1, GluedRest
      <4> QED  BY <4>1, <4>4, <4>5
    <3>3. Redact(b \o x) = Redact(U) \o Redact(R \o x)  BY <1>1, <3>1, <3>2, CutSafe DEF U, R
    <3>4. R \o x \in Seq(Characters)  BY <1>8, ConcatProperties
    <3>5. Redact(R \o x) \in Seq(Characters)  BY <3>4, RedactType
    <3>6. (released \o Redact(U)) \o Redact(R \o x) = released \o (Redact(U) \o Redact(R \o x))
      BY <1>3, <1>12, <3>5, ConcatAll
    <3> QED  BY <1>2, <2>1, <3>3, <3>6
  <2> QED  BY <2>2, <2>3
<1>17. AttemptDue'
  <2>1. nextAttempt' <= Len(carry') + RetryAfter  BY <1>2, <1>9, Bounds
  <2> QED  BY <1>2, <2>1 DEF AttemptDue
<1>18. WordsFresh'
  <2> SUFFICES ASSUME ~forced', Clear(a), NEW p \in WordStarts(R, Limit(R))
               PROVE  FALSE
    BY <1>2, <1>6 DEF WordsFresh
  <2>1. PICK A \in Seq(Characters) : a = A \o b /\ (A = <<>> \/ CutAtSpace(A, b))
    BY <1>4, <1>14
  <2>2. Clear(b)
    <3>1. CASE A = <<>>
      <4>1. A \o b = b  BY <1>1, <3>1, ConcatEmptySeq
      <4> QED  BY <2>1, <4>1
    <3>2. CASE CutAtSpace(A, b)  BY <2>1, <3>2, ClearBehind
    <3> QED  BY <2>1, <3>1, <3>2
  <2>3. \A q \in Candidates(b) : q <= c  BY <1>1, <1>14, <2>2, ClearCut DEF c
  <2>4. p \in 1..Limit(R) /\ R[p] = Space /\ R[p + 1] # Space  BY WordStart
  <2>5. p \in Nat \ {0} /\ p + HoldBack <= Len(b) - c  BY <1>8, <1>9, <2>4, Bounds DEF Limit
  <2>6. PICK q : q = p + c  OBVIOUS
  <2>7. /\ p \in 1..Len(b) - c /\ p + 1 \in 1..Len(b) - c
        /\ q \in 1..Len(b) /\ q + HoldBack <= Len(b) /\ ~(q <= c) /\ (p + 1) + c = q + 1
    BY <1>9, <2>5, <2>6, Bounds
  <2>8. b[q] = Space /\ b[q + 1] # Space
    <3>1. R[p] = b[p + c] /\ R[p + 1] = b[(p + 1) + c]  BY <1>8, <2>7
    <3> QED  BY <2>4, <2>6, <2>7, <3>1
  <2>9. q \in Candidates(b)  BY <1>1, <2>7, <2>8, CandidateRange
  <2> QED  BY <2>3, <2>7, <2>9
<1> QED  BY <1>13, <1>15, <1>16, <1>17, <1>18 DEF StreamInv

\* `finish`.
LEMMA StreamFinishKeeps ==
  ASSUME StreamInv, StreamFinish
  PROVE  StreamInv'
<1>1. /\ ~finished /\ released' = released \o Redact(carry) /\ carry' = <<>>
      /\ finished' = TRUE /\ nextAttempt' = nextAttempt /\ arrived' = arrived
      /\ forced' = forced
  BY DEF StreamFinish
<1>2. /\ carry \in Seq(Characters) /\ arrived \in Seq(Characters)
      /\ released \in Seq(Characters) /\ nextAttempt \in Nat /\ forced \in BOOLEAN
  BY DEF StreamInv, StreamType
<1>3. <<>> \in Seq(Characters)  BY EmptySeq
<1>4. Redact(carry) \in Seq(Characters)  BY <1>2, RedactType
<1>5. released \o Redact(carry) \in Seq(Characters)  BY <1>2, <1>4, ConcatProperties
<1>6. StreamType'  BY <1>1, <1>2, <1>3, <1>5 DEF StreamType
<1>7. ReleasedForGood'
  <2> SUFFICES ASSUME ~forced', ~Glued(arrived' \o <<>>)
               PROVE  Redact(arrived' \o <<>>) = released' \o Redact(carry' \o <<>>)
    BY <1>1 DEF ReleasedForGood
  <2>1. /\ <<>> \o <<>> = <<>> /\ carry \o <<>> = carry
        /\ (released \o Redact(carry)) \o <<>> = released \o Redact(carry)
    BY <1>2, <1>3, <1>5, ConcatEmptySeq
  <2>2. Redact(arrived \o <<>>) = released \o Redact(carry \o <<>>)
    BY <1>1, <1>3 DEF StreamInv, ReleasedForGood
  <2>3. Redact(carry' \o <<>>) = <<>>  BY <1>1, <2>1, RedactEmpty
  <2> QED  BY <1>1, <2>1, <2>2, <2>3
<1>8. CarryIsRest' /\ AttemptDue' /\ WordsFresh'
  BY <1>1 DEF CarryIsRest, AttemptDue, WordsFresh
<1> QED  BY <1>6, <1>7, <1>8 DEF StreamInv

\* Every step.
LEMMA StreamKept == StreamInv /\ [StreamNext]_streamVars => StreamInv'
<1> SUFFICES ASSUME StreamInv, [StreamNext]_streamVars PROVE StreamInv'
  OBVIOUS
<1>1. ASSUME NEW piece \in Pieces, StreamPush(piece) PROVE StreamInv'
  <2>1. Hold(carry \o piece) \/ Release(carry \o piece)  BY <1>1 DEF StreamPush
  <2> QED  BY <1>1, <2>1, HoldKeeps, ReleaseKeeps
<1>2. CASE StreamFinish  BY <1>2, StreamFinishKeeps
<1>3. CASE UNCHANGED streamVars
  BY <1>3 DEF streamVars, StreamInv, StreamType, CarryIsRest, ReleasedForGood, AttemptDue,
              WordsFresh
<1> QED  BY <1>1, <1>2, <1>3 DEF StreamNext

(* StreamContractApart for any pieces and any bounds: what is released,     *)
(* with what `finish` would release now, is the redaction of all that has   *)
(* arrived, until a cut is forced.                                         *)
THEOREM PiiStreamContractApart == StreamSpec => []StreamContractApart
<1>1. StreamInit => StreamInv  BY StreamBegins
<1>2. StreamInv /\ [StreamNext]_streamVars => StreamInv'  BY StreamKept
<1>3. StreamInv => StreamContractApart
  <2> SUFFICES ASSUME StreamInv, ~Glued(arrived), ~forced
               PROVE  released \o Redact(carry) = Redact(arrived)
    BY DEF StreamContractApart, StreamContract
  <2>1. carry \in Seq(Characters) /\ arrived \in Seq(Characters) /\ <<>> \in Seq(Characters)
    BY EmptySeq DEF StreamInv, StreamType
  <2>2. carry \o <<>> = carry /\ arrived \o <<>> = arrived  BY <2>1, ConcatEmptySeq
  <2>3. ~Glued(arrived \o <<>>)  BY <2>2
  <2>4. Redact(arrived \o <<>>) = released \o Redact(carry \o <<>>)
    BY <2>1, <2>3 DEF StreamInv, ReleasedForGood
  <2> QED  BY <2>2, <2>4
<1> QED  BY <1>1, <1>2, <1>3, PTL DEF StreamSpec

(* Prompt for any pieces and any bounds: text without anything to redact    *)
(* waits for the hold-back and one retry, and no longer.                   *)
THEOREM PiiStreamPrompt == StreamSpec => []Prompt
<1>1. StreamInit => StreamInv  BY StreamBegins
<1>2. StreamInv /\ [StreamNext]_streamVars => StreamInv'  BY StreamKept
<1>3. StreamInv => Prompt
  <2> SUFFICES ASSUME StreamInv, ~forced, RawMatches(arrived) = {},
                      NEW p \in WordStarts(carry, Limit(carry))
               PROVE  Len(carry) - p < HoldBack + RetryAfter
    BY DEF Prompt
  <2>1. /\ carry \in Seq(Characters) /\ arrived \in Seq(Characters) /\ nextAttempt \in Nat
        /\ (finished => carry = <<>>)
    BY DEF StreamInv, StreamType
  <2>2. Clear(arrived)  BY <2>1, RawClear
  <2>3. Len(carry) \in Nat /\ p \in 1..Limit(carry)  BY <2>1, LenProperties, WordStart
  <2>4. HoldBack < Len(carry) /\ p \in Nat  BY <2>3, Bounds DEF Limit
  <2>5. ~finished
    <3>1. Len(<<>>) = 0  BY EmptySeq
    <3> QED  BY <2>1, <2>4, <3>1, Bounds
  <2>6. nextAttempt < p + HoldBack + RetryAfter  BY <2>2, <2>5 DEF StreamInv, WordsFresh
  <2>7. Len(carry) < nextAttempt \/ Len(carry) + RetryAfter = nextAttempt
    BY <2>3, <2>4, <2>5, Bounds DEF StreamInv, AttemptDue
  <2> QED  BY <2>1, <2>3, <2>4, <2>6, <2>7, Bounds
<1> QED  BY <1>1, <1>2, <1>3, PTL DEF StreamSpec

-----------------------------------------------------------------------------
(* What the events of a sequence bring together, event by event.           *)

SentEvents == [event : Nat, text : [Indices -> Seq(Nat)]]

Each(g, s) == [n \in DOMAIN s |-> g[s[n]]]

Together(g, s) == FlattenSeq(Each(g, s))

\* What is taken from each event is put together to a sequence.
LEMMA TogetherType ==
  ASSUME NEW g \in [SentEvents -> Seq(Nat)]
  PROVE  \A s \in Seq(SentEvents) :
           /\ Each(g, s) \in Seq(Seq(Nat)) /\ Len(Each(g, s)) = Len(s)
           /\ Together(g, s) \in Seq(Nat)
<1> TAKE s \in Seq(SentEvents)
<1>1. Len(s) \in Nat /\ DOMAIN s = 1..Len(s)  BY LenProperties
<1>2. \A n \in 1..Len(s) : s[n] \in SentEvents  BY ElementOfSeq
<1>3. Each(g, s) \in [1..Len(s) -> Seq(Nat)]  BY <1>1, <1>2 DEF Each
<1>4. Each(g, s) \in Seq(Seq(Nat)) /\ Len(Each(g, s)) = Len(s)
  BY <1>1, <1>3, FunctionIsSequence
<1> QED  BY <1>4, FlattenType DEF Together

\* Of two lists together it is that of one behind that of the other.
LEMMA TogetherConcat ==
  ASSUME NEW g \in [SentEvents -> Seq(Nat)],
         NEW s \in Seq(SentEvents), NEW t \in Seq(SentEvents)
  PROVE  Together(g, s \o t) = Together(g, s) \o Together(g, t)
<1> DEFINE a == Each(g, s)
           b == Each(g, t)
           c == Each(g, s \o t)
<1>1. /\ s \o t \in Seq(SentEvents) /\ Len(s \o t) = Len(s) + Len(t)
      /\ \A i \in 1..Len(s) + Len(t) :
           (s \o t)[i] = IF i <= Len(s) THEN s[i] ELSE t[i - Len(s)]
  BY ConcatProperties
<1>2. /\ Len(s) \in Nat /\ DOMAIN s = 1..Len(s)
      /\ Len(t) \in Nat /\ DOMAIN t = 1..Len(t)
      /\ DOMAIN (s \o t) = 1..Len(s) + Len(t)
  BY <1>1, LenProperties
<1>3. /\ a \in Seq(Seq(Nat)) /\ Len(a) = Len(s)
      /\ b \in Seq(Seq(Nat)) /\ Len(b) = Len(t)
      /\ c \in Seq(Seq(Nat)) /\ Len(c) = Len(s) + Len(t)
  <2>1. a \in Seq(Seq(Nat)) /\ Len(a) = Len(s)  BY TogetherType
  <2>2. b \in Seq(Seq(Nat)) /\ Len(b) = Len(t)  BY TogetherType
  <2>3. c \in Seq(Seq(Nat)) /\ Len(c) = Len(s \o t)  BY <1>1, TogetherType
  <2> HIDE DEF a, b, c
  <2> QED  BY <1>1, <2>1, <2>2, <2>3
<1>4. /\ a \o b \in Seq(Seq(Nat)) /\ Len(a \o b) = Len(s) + Len(t)
      /\ \A i \in 1..Len(s) + Len(t) :
           (a \o b)[i] = IF i <= Len(s) THEN a[i] ELSE b[i - Len(s)]
  <2> HIDE DEF a, b, c
  <2>1. a \in Seq(Seq(Nat)) /\ b \in Seq(Seq(Nat))  BY <1>3
  <2>2. /\ a \o b \in Seq(Seq(Nat)) /\ Len(a \o b) = Len(a) + Len(b)
        /\ \A i \in 1..Len(a) + Len(b) : (a \o b)[i] = IF i <= Len(a) THEN a[i] ELSE b[i - Len(a)]
    BY <2>1, ConcatProperties
  <2> QED  BY <1>3, <2>2
<1>5. ASSUME NEW i \in 1..Len(s) + Len(t) PROVE c[i] = (a \o b)[i]
  <2>1. CASE i <= Len(s)
    <3>1. i \in 1..Len(s)  BY <1>2, <2>1
    <3>2. c[i] = g[s[i]] /\ a[i] = g[s[i]]  BY <1>1, <1>2, <2>1, <3>1 DEF Each
    <3> HIDE DEF a, b, c
    <3> QED  BY <1>4, <2>1, <3>2
  <2>2. CASE ~(i <= Len(s))
    <3>1. i - Len(s) \in 1..Len(t)  BY <1>2, <2>2
    <3>2. c[i] = g[t[i - Len(s)]] /\ b[i - Len(s)] = g[t[i - Len(s)]]
      BY <1>1, <1>2, <2>2, <3>1 DEF Each
    <3> HIDE DEF a, b, c
    <3> QED  BY <1>4, <2>2, <3>2
  <2> QED  BY <2>1, <2>2
<1> HIDE DEF a, b, c
<1>6. c = a \o b  BY <1>3, <1>4, <1>5, SeqEqual
<1>7. FlattenSeq(c) = FlattenSeq(a) \o FlattenSeq(b)  BY <1>3, <1>6, FlattenConcat
<1> QED  BY <1>7 DEF Together, a, b, c

\* Of one event it is what is taken from it.
LEMMA TogetherOne ==
  ASSUME NEW g \in [SentEvents -> Seq(Nat)], NEW e \in SentEvents
  PROVE  Together(g, <<e>>) = g[e]
<1> DEFINE a == Each(g, <<e>>)
<1>1. a = Append(<<>>, g[e])  BY DEF Each
<1>2. g[e] \in Seq(Nat) /\ <<>> \in Seq(Seq(Nat))  BY EmptySeq
<1> HIDE DEF a
<1>3. FlattenSeq(a) = FlattenSeq(<<>>) \o g[e]  BY <1>1, <1>2, FlattenAppend
<1>4. <<>> \o g[e] = g[e]  BY <1>2, ConcatEmptySeq
<1> QED  BY <1>3, <1>4, FlattenEmpty DEF Together, a

\* Of none it is nothing.
LEMMA TogetherNone ==
  ASSUME NEW g
  PROVE  Together(g, <<>>) = <<>>
<1>1. Each(g, <<>>) = <<>>  BY DEF Each
<1> QED  BY <1>1, FlattenEmpty DEF Together

-----------------------------------------------------------------------------
(* What was sent: the text for an index, and the events of the upstream.   *)

TextOf(i) == [e \in SentEvents |-> e.text[i]]

NumberOf == [e \in SentEvents |-> IF e.event = 0 THEN <<>> ELSE <<e.event>>]

\* The text of an index is the events' texts together.
LEMMA TextTogether ==
  ASSUME NEW i \in Indices, NEW s \in Seq(SentEvents)
  PROVE  TextOf(i) \in [SentEvents -> Seq(Nat)] /\ Text(s, i) = Together(TextOf(i), s)
<1>1. TextOf(i) \in [SentEvents -> Seq(Nat)]  BY DEF TextOf, SentEvents
<1>2. \A n \in DOMAIN s : s[n] \in SentEvents  BY ElementOfSeq, LenProperties
<1>3. [n \in DOMAIN s |-> s[n].text[i]] = [n \in DOMAIN s |-> TextOf(i)[s[n]]]
  BY <1>2 DEF TextOf
<1> QED  BY <1>1, <1>3 DEF Text, Together, Each

\* So are the upstream's own events.
LEMMA OriginalsTogether ==
  ASSUME NEW s \in Seq(SentEvents)
  PROVE  NumberOf \in [SentEvents -> Seq(Nat)] /\ Originals(s) = Together(NumberOf, s)
<1>1. NumberOf \in [SentEvents -> Seq(Nat)]
  <2>1. ASSUME NEW e \in SentEvents PROVE (IF e.event = 0 THEN <<>> ELSE <<e.event>>) \in Seq(Nat)
    BY DEF SentEvents
  <2> QED  BY <2>1 DEF NumberOf
<1>2. \A n \in DOMAIN s : s[n] \in SentEvents  BY ElementOfSeq, LenProperties
<1>3. [n \in DOMAIN s |-> IF s[n].event = 0 THEN <<>> ELSE <<s[n].event>>]
        = [n \in DOMAIN s |-> NumberOf[s[n]]]
  BY <1>2 DEF NumberOf
<1> QED  BY <1>1, <1>3 DEF Originals, Together, Each

\* Nothing is sent at first.
LEMMA SentNothing ==
  /\ Originals(<<>>) = <<>>
  /\ \A i \in Indices : Text(<<>>, i) = <<>>
<1>1. <<>> \in Seq(SentEvents)  OBVIOUS
<1> QED  BY <1>1, TextTogether, OriginalsTogether, TogetherNone

\* Events are sent after others.
LEMMA SentMore ==
  ASSUME NEW s \in Seq(SentEvents), NEW t \in Seq(SentEvents)
  PROVE  /\ s \o t \in Seq(SentEvents)
         /\ Originals(s) \in Seq(Nat) /\ Originals(t) \in Seq(Nat)
         /\ Originals(s \o t) = Originals(s) \o Originals(t)
         /\ \A i \in Indices : /\ Text(s, i) \in Seq(Nat) /\ Text(t, i) \in Seq(Nat)
                               /\ Text(s \o t, i) = Text(s, i) \o Text(t, i)
<1>1. s \o t \in Seq(SentEvents)  BY ConcatProperties
<1>2. /\ Originals(s) \in Seq(Nat) /\ Originals(t) \in Seq(Nat)
      /\ Originals(s \o t) = Originals(s) \o Originals(t)
  BY <1>1, OriginalsTogether, TogetherType, TogetherConcat
<1>3. ASSUME NEW i \in Indices
      PROVE  /\ Text(s, i) \in Seq(Nat) /\ Text(t, i) \in Seq(Nat)
             /\ Text(s \o t, i) = Text(s, i) \o Text(t, i)
  <2>1. TextOf(i) \in [SentEvents -> Seq(Nat)]  BY <1>1, TextTogether
  <2>2. /\ Text(s, i) = Together(TextOf(i), s) /\ Text(t, i) = Together(TextOf(i), t)
        /\ Text(s \o t, i) = Together(TextOf(i), s \o t)
    BY <1>1, TextTogether
  <2> QED  BY <2>1, <2>2, TogetherType, TogetherConcat
<1> QED  BY <1>1, <1>2, <1>3

\* One event.
LEMMA SentOne ==
  ASSUME NEW e \in SentEvents
  PROVE  /\ <<e>> \in Seq(SentEvents)
         /\ Originals(<<e>>) = IF e.event = 0 THEN <<>> ELSE <<e.event>>
         /\ \A i \in Indices : Text(<<e>>, i) = e.text[i]
<1>1. <<e>> \in Seq(SentEvents)  OBVIOUS
<1>2. Originals(<<e>>) = NumberOf[e]  BY <1>1, OriginalsTogether, TogetherOne
<1>3. \A i \in Indices : Text(<<e>>, i) = TextOf(i)[e]  BY <1>1, TextTogether, TogetherOne
<1> QED  BY <1>1, <1>2, <1>3 DEF NumberOf, TextOf

-----------------------------------------------------------------------------
(* `flush_into` for some indices sends what they hold, and nothing else.   *)

Streams == [Indices -> Seq(Nat)]

\* A synthetic chunk is nobody else's event and has the text of one index.
LEMMA SyntheticType ==
  ASSUME held \in Streams, NEW i \in Indices
  PROVE  /\ Synthetic(i) \in SentEvents /\ Synthetic(i).event = 0
         /\ \A j \in Indices : Synthetic(i).text[j] = IF j = i THEN held[i] ELSE <<>>
<1> DEFINE t == [NoText EXCEPT ![i] = held[i]]
<1>1. /\ t \in [Indices -> Seq(Nat)]
      /\ \A j \in Indices : t[j] = IF j = i THEN held[i] ELSE <<>>
  <2>1. \A j \in Indices : held[j] \in Seq(Nat) /\ <<>> \in Seq(Nat)  BY DEF Streams
  <2>2. t = [j \in Indices |-> IF j = i THEN held[i] ELSE <<>>]  BY DEF NoText
  <2> HIDE DEF t
  <2> QED  BY <2>1, <2>2
<1>2. Synthetic(i) = [event |-> 0, text |-> t]  BY DEF Synthetic, Sent
<1> HIDE DEF t
<1> QED  BY <1>1, <1>2 DEF SentEvents

\* What is flushed is what was held, of the indices that are flushed.
LEMMA FlushedText ==
  ASSUME held \in Streams, NEW S \in SUBSET Indices
  PROVE  /\ Flushed(S) \in Seq(SentEvents)
         /\ Originals(Flushed(S)) = <<>>
         /\ \A n \in DOMAIN Flushed(S) : Flushed(S)[n].event = 0
         /\ \A i \in Indices : Text(Flushed(S), i) = IF i \in S THEN held[i] ELSE <<>>
<1> DEFINE F == [n \in 1..MaxIndex+1 |->
                   IF n-1 \in S /\ held[n-1] # <<>> THEN <<Synthetic(n-1)>> ELSE <<>>]
           P(m) == FlattenSeq([k \in 1..m |-> F[k]])
           Good(m) == /\ P(m) \in Seq(SentEvents)
                      /\ Originals(P(m)) = <<>>
                      /\ \A n \in DOMAIN P(m) : P(m)[n].event = 0
                      /\ \A i \in Indices :
                           Text(P(m), i) = IF i < m /\ i \in S THEN held[i] ELSE <<>>
           N == {m \in Nat : m <= MaxIndex + 1 => Good(m)}
<1>0. MaxIndex \in Nat /\ Indices \subseteq 0..MaxIndex  BY SseAssumption
<1>1. ASSUME NEW n \in 1..MaxIndex+1
      PROVE  /\ F[n] \in Seq(SentEvents)
             /\ Originals(F[n]) = <<>>
             /\ \A m \in DOMAIN F[n] : F[n][m].event = 0
             /\ \A i \in Indices : Text(F[n], i) = IF i = n-1 /\ i \in S THEN held[i] ELSE <<>>
  <2>1. CASE n-1 \in S /\ held[n-1] # <<>>
    <3>1. F[n] = <<Synthetic(n-1)>>  BY <2>1
    <3>2. n-1 \in Indices  BY <2>1
    <3>3. /\ Synthetic(n-1) \in SentEvents /\ Synthetic(n-1).event = 0
          /\ \A j \in Indices : Synthetic(n-1).text[j] = IF j = n-1 THEN held[n-1] ELSE <<>>
      BY <3>2, SyntheticType
    <3> HIDE DEF F
    <3>4. \A m \in DOMAIN F[n] : F[n][m] = Synthetic(n-1)  BY <3>1
    <3> QED  BY <2>1, <3>1, <3>3, <3>4, SentOne
  <2>2. CASE ~(n-1 \in S /\ held[n-1] # <<>>)
    <3>1. F[n] = <<>>  BY <2>2
    <3> HIDE DEF F
    <3>2. \A i \in Indices : i = n-1 /\ i \in S => held[i] = <<>>  BY <2>2
    <3> QED  BY <3>1, <3>2, SentNothing
  <2> QED  BY <2>1, <2>2
<1>2. 0 \in N
  <2>1. [k \in 1..0 |-> F[k]] = <<>>  OBVIOUS
  <2>2. P(0) = <<>>  BY <2>1, FlattenEmpty
  <2> HIDE DEF P
  <2>3. \A i \in Indices : ~(i < 0)  BY <1>0
  <2>4. P(0) \in Seq(SentEvents) /\ \A n \in DOMAIN P(0) : P(0)[n].event = 0
    <3>1. DOMAIN <<>> = {} /\ <<>> \in Seq(SentEvents)  OBVIOUS
    <3>2. P(0) \in Seq(SentEvents) /\ DOMAIN P(0) = {}  BY <2>2, <3>1
    <3> QED  BY <3>2
  <2>5. Good(0)  BY <2>2, <2>3, <2>4, SentNothing
  <2> HIDE DEF Good
  <2> QED  BY <2>5
<1>3. ASSUME NEW m \in Nat, m \in N PROVE m + 1 \in N
  <2> SUFFICES ASSUME m + 1 <= MaxIndex + 1 PROVE Good(m + 1)  OBVIOUS
  <2>1. Good(m)
    <3> HIDE DEF Good
    <3> QED  BY <1>0, <1>3
  <2>2. m + 1 \in 1..MaxIndex+1 /\ \A k \in 1..m+1 : k \in 1..MaxIndex+1  BY <1>0
  <2>3. P(m + 1) = P(m) \o F[m+1]
    <3>1. \A k \in 1..m+1 : F[k] \in Seq(SentEvents)  BY <1>1, <2>2
    <3> HIDE DEF F
    <3> QED  BY <3>1, FlattenNext
  <2> DEFINE a == P(m)
             b == F[m+1]
             c == P(m+1)
  <2>4. /\ a \in Seq(SentEvents) /\ Originals(a) = <<>>
        /\ \A n \in DOMAIN a : a[n].event = 0
        /\ \A i \in Indices : Text(a, i) = IF i < m /\ i \in S THEN held[i] ELSE <<>>
    BY <2>1
  <2>5. /\ b \in Seq(SentEvents) /\ Originals(b) = <<>>
        /\ \A n \in DOMAIN b : b[n].event = 0
        /\ \A i \in Indices : Text(b, i) = IF i = m /\ i \in S THEN held[i] ELSE <<>>
    <3>1. m + 1 - 1 = m  OBVIOUS
    <3> HIDE DEF F
    <3> QED  BY <1>1, <2>2, <3>1
  <2>6. c = a \o b  BY <2>3
  <2> HIDE DEF a, b, c, P, F
  <2>7. c \in Seq(SentEvents) /\ Originals(c) = <<>> \o <<>>
    BY <2>4, <2>5, <2>6, SentMore
  <2>8. \A n \in DOMAIN c : c[n].event = 0
    <3>1. /\ Len(c) = Len(a) + Len(b)
          /\ \A i \in 1..Len(a) + Len(b) : c[i] = IF i <= Len(a) THEN a[i] ELSE b[i - Len(a)]
      BY <2>4, <2>5, <2>6, ConcatProperties
    <3>2. /\ Len(a) \in Nat /\ DOMAIN a = 1..Len(a) /\ Len(b) \in Nat /\ DOMAIN b = 1..Len(b)
          /\ DOMAIN c = 1..Len(c)
      BY <2>4, <2>5, <2>7, LenProperties
    <3> SUFFICES ASSUME NEW n \in DOMAIN c PROVE c[n].event = 0  OBVIOUS
    <3>3. n <= Len(a) => n \in DOMAIN a  BY <3>1, <3>2
    <3>4. ~(n <= Len(a)) => n - Len(a) \in DOMAIN b  BY <3>1, <3>2
    <3>5. c[n] = IF n <= Len(a) THEN a[n] ELSE b[n - Len(a)]  BY <3>1, <3>2
    <3> QED  BY <2>4, <2>5, <3>3, <3>4, <3>5
  <2>9. ASSUME NEW i \in Indices
        PROVE  Text(c, i) = IF i < m + 1 /\ i \in S THEN held[i] ELSE <<>>
    <3>1. i \in Nat /\ held[i] \in Seq(Nat)  BY <1>0 DEF Streams
    <3>2. Text(c, i) = Text(a, i) \o Text(b, i)  BY <2>4, <2>5, <2>6, SentMore
    <3>3. held[i] \o <<>> = held[i] /\ <<>> \o held[i] = held[i] /\ <<>> \o <<>> = <<>>
      BY <3>1, ConcatEmptySeq, EmptySeq
    <3>4. i < m + 1 <=> i < m \/ i = m  BY <3>1
    <3>5. ~(i < m /\ i = m)  BY <3>1
    <3> QED  BY <2>4, <2>5, <3>2, <3>3, <3>4, <3>5
  <2>10. <<>> \o <<>> = <<>>  OBVIOUS
  <2> QED  BY <2>7, <2>8, <2>9, <2>10 DEF c
<1> HIDE DEF N
<1>4. MaxIndex + 1 \in N  BY <1>0, <1>2, <1>3, Induction
<1>5. Good(MaxIndex + 1)  BY <1>0, <1>4 DEF N
<1>6. Flushed(S) = P(MaxIndex + 1)
  <2>1. [k \in 1..MaxIndex+1 |-> F[k]] = F  OBVIOUS
  <2>2. Flushed(S) = FlattenSeq(F)  BY DEF Flushed
  <2> QED  BY <2>1, <2>2
<1>7. \A i \in Indices : i < MaxIndex + 1  BY <1>0
<1> HIDE DEF P
<1> QED  BY <1>5, <1>6, <1>7

-----------------------------------------------------------------------------
(* The bytes of the wire, and what of them is in the buffer.               *)

ByteSet == {"event", "nl", "cr"} \X Nat

Size == IF ending = "crlf" THEN 8 ELSE 5

\* The bytes of an event, for either kind of line end.
LEMMA BytesType ==
  ASSUME NEW k \in Nat
  PROVE  /\ Bytes(k) \in Seq(ByteSet)
         /\ Len(Bytes(k)) = Size
         /\ Size = 8 => /\ \A j \in {1, 4} : Bytes(k)[j] = <<"event", k>>
                        /\ \A j \in {2, 5, 7} : Bytes(k)[j] = CR
                        /\ \A j \in {3, 6, 8} : Bytes(k)[j] = NL
         /\ Size = 5 => /\ \A j \in {1, 3} : Bytes(k)[j] = <<"event", k>>
                        /\ \A j \in {2, 4, 5} : Bytes(k)[j] = NL
<1>1. NL \in ByteSet /\ CR \in ByteSet /\ <<"event", k>> \in ByteSet  BY DEF NL, CR, ByteSet
<1>2. Size \in {5, 8}  BY DEF Size
<1> DEFINE line == <<"event", k>>
<1> HIDE DEF line
<1>3. CASE Size = 8
  <2>1. Bytes(k) = <<line, CR, NL, line, CR, NL, CR, NL>>  BY <1>3 DEF Bytes, Size, line
  <2>2. line \in ByteSet  BY <1>1 DEF line
  <2>3. Bytes(k) \in Seq(ByteSet) /\ Len(Bytes(k)) = 8  BY <1>1, <2>1, <2>2
  <2>4. /\ \A j \in {1, 4} : Bytes(k)[j] = line
        /\ \A j \in {2, 5, 7} : Bytes(k)[j] = CR
        /\ \A j \in {3, 6, 8} : Bytes(k)[j] = NL
    BY <2>1
  <2> QED  BY <1>3, <2>3, <2>4 DEF line
<1>4. CASE Size = 5
  <2>1. Bytes(k) = <<line, NL, line, NL, NL>>  BY <1>4 DEF Bytes, Size, line
  <2>2. line \in ByteSet  BY <1>1 DEF line
  <2>3. Bytes(k) \in Seq(ByteSet) /\ Len(Bytes(k)) = 5  BY <1>1, <2>1, <2>2
  <2>4. /\ \A j \in {1, 3} : Bytes(k)[j] = line
        /\ \A j \in {2, 4, 5} : Bytes(k)[j] = NL
    BY <2>1
  <2> QED  BY <1>4, <2>3, <2>4 DEF line
<1> QED  BY <1>2, <1>3, <1>4

\* Its bytes are told apart from the ends of lines.
LEMMA BytesDiffer ==
  ASSUME NEW k \in Nat
  PROVE  NL # CR /\ <<"event", k>> # NL /\ <<"event", k>> # CR
BY DEF NL, CR

\* Byte j of event k is in its place on the wire.
LEMMA WireBytes ==
  ASSUME Len(stream) \in Nat, DOMAIN stream = 1..Len(stream)
  PROVE  /\ Wire \in Seq(ByteSet)
         /\ Len(Wire) = Len(stream) * Size
         /\ \A k \in 1..Len(stream) : \A j \in 1..Size : Wire[(k-1) * Size + j] = Bytes(k)[j]
<1> DEFINE F == [k \in 1..Len(stream) |-> Bytes(k)]
           P(n) == FlattenSeq([k \in 1..n |-> F[k]])
           Good(n) == /\ P(n) \in Seq(ByteSet)
                      /\ Len(P(n)) = n * Size
                      /\ \A k \in 1..n : \A j \in 1..Size : P(n)[(k-1) * Size + j] = Bytes(k)[j]
           N == {n \in Nat : n <= Len(stream) => Good(n)}
<1>1. Size \in {5, 8}  BY DEF Size
<1>2. \A k \in 1..Len(stream) : F[k] = Bytes(k) /\ Bytes(k) \in Seq(ByteSet) /\ Len(Bytes(k)) = Size
  BY BytesType
<1>3. 0 \in N
  <2>1. [k \in 1..0 |-> F[k]] = <<>>  OBVIOUS
  <2>2. P(0) = <<>>  BY <2>1, FlattenEmpty
  <2> HIDE DEF P
  <2>3. P(0) \in Seq(ByteSet) /\ Len(P(0)) = 0  BY <2>2, EmptySeq
  <2>4. 0 * Size = 0  BY <1>1
  <2>5. Good(0)  BY <2>3, <2>4
  <2> HIDE DEF Good
  <2> QED  BY <2>5
<1>4. ASSUME NEW n \in Nat, n \in N PROVE n + 1 \in N
  <2> HIDE DEF Good
  <2> SUFFICES ASSUME n + 1 <= Len(stream) PROVE Good(n + 1)  OBVIOUS
  <2> USE DEF Good
  <2>1. Good(n)
    <3> HIDE DEF Good
    <3> QED  BY <1>4
  <2>2. n + 1 \in 1..Len(stream) /\ \A k \in 1..n+1 : k \in 1..Len(stream)  OBVIOUS
  <2>3. P(n + 1) = P(n) \o F[n+1]
    <3>1. \A k \in 1..n+1 : F[k] \in Seq(ByteSet)  BY <1>2, <2>2
    <3> HIDE DEF F
    <3> QED  BY <3>1, FlattenNext
  <2> DEFINE a == P(n)
             b == F[n+1]
             c == P(n+1)
  <2>4. /\ a \in Seq(ByteSet) /\ Len(a) = n * Size
        /\ \A k \in 1..n : \A j \in 1..Size : a[(k-1) * Size + j] = Bytes(k)[j]
    BY <2>1
  <2>5. b \in Seq(ByteSet) /\ Len(b) = Size /\ b = Bytes(n+1)  BY <1>2, <2>2
  <2>6. c = a \o b  BY <2>3
  <2> HIDE DEF a, b, c, P, F
  <2>7. /\ c \in Seq(ByteSet) /\ Len(c) = Len(a) + Len(b)
        /\ \A i \in 1..Len(a) + Len(b) : c[i] = IF i <= Len(a) THEN a[i] ELSE b[i - Len(a)]
    BY <2>4, <2>5, <2>6, ConcatProperties
  <2>8. Len(c) = (n + 1) * Size
    <3>1. (n + 1) * Size = n * Size + Size  BY <1>1
    <3> QED  BY <2>4, <2>5, <2>7, <3>1
  <2>9. ASSUME NEW k \in 1..n+1, NEW j \in 1..Size PROVE c[(k-1) * Size + j] = Bytes(k)[j]
    <3> DEFINE i == (k-1) * Size + j
    <3>1. CASE k \in 1..n
      <4>1. i \in 1..n * Size /\ n * Size + Size \in Nat /\ n * Size \in Nat  BY <1>1, <3>1
      <4>2. a[i] = Bytes(k)[j]  BY <2>4, <3>1
      <4> HIDE DEF i
      <4>3. i \in 1..Len(a) + Len(b) /\ i <= Len(a)  BY <1>1, <2>4, <2>5, <4>1
      <4>4. c[i] = a[i]  BY <2>7, <4>3
      <4> QED  BY <4>2, <4>4 DEF i
    <3>2. CASE k = n + 1
      <4>1. i = n * Size + j /\ n * Size \in Nat /\ Size \in Nat  BY <1>1, <3>2
      <4> HIDE DEF i
      <4>2. i \in 1..Len(a) + Len(b) /\ ~(i <= Len(a)) /\ i - Len(a) = j
        BY <1>1, <2>4, <2>5, <4>1
      <4>3. c[i] = b[j]  BY <2>7, <4>2
      <4> QED  BY <2>5, <3>2, <4>3 DEF i
    <3> QED  BY <3>1, <3>2
  <2> QED  BY <2>7, <2>8, <2>9 DEF c
<1> HIDE DEF N
<1>5. Len(stream) \in N  BY <1>3, <1>4, Induction
<1>6. Good(Len(stream))
  <2> HIDE DEF Good
  <2> QED  BY <1>5 DEF N
<1>7. Wire = P(Len(stream))
  <2>1. [k \in 1..Len(stream) |-> F[k]] = F  OBVIOUS
  <2>2. Wire = FlattenSeq(F)  BY DEF Wire
  <2> QED  BY <2>1, <2>2
<1> HIDE DEF P
<1> QED  BY <1>6, <1>7

\* What is left of a part when its first d elements are taken.
LEMMA LaterPart ==
  ASSUME NEW S, NEW s \in Seq(S), NEW m \in Nat, NEW p \in Nat, NEW d \in Nat,
         m + d <= p, p <= Len(s)
  PROVE  /\ SubSeq(s, m+1, p) \in Seq(S) /\ Len(SubSeq(s, m+1, p)) = p - m
         /\ \A i \in 1..p-m : SubSeq(s, m+1, p)[i] = s[m+i]
         /\ SubSeq(SubSeq(s, m+1, p), d+1, p-m) = SubSeq(s, m+d+1, p)
<1>0. Len(s) \in Nat /\ \A i \in 1..Len(s) : s[i] \in S  BY LenProperties, ElementOfSeq
<1> DEFINE b == SubSeq(s, m+1, p)
           x == SubSeq(b, d+1, p-m)
           y == SubSeq(s, m+d+1, p)
<1>1. b \in Seq(S) /\ Len(b) = p - m /\ \A i \in 1..p-m : b[i] = s[m+i]
  <2>1. m + 1 \in Int /\ p \in Int /\ \A i \in m+1..p : s[i] \in S  BY <1>0
  <2> HIDE DEF b
  <2>2. /\ b \in Seq(S) /\ Len(b) = IF m+1 <= p THEN p-(m+1)+1 ELSE 0
        /\ \A i \in 1..p-(m+1)+1 : b[i] = s[m+1+i-1]
    BY <2>1, SubSeqProperties DEF b
  <2>3. Len(b) = p - m  BY <2>2
  <2>4. ASSUME NEW i \in 1..p-m PROVE b[i] = s[m+i]
    <3>1. i \in 1..p-(m+1)+1 /\ m+1+i-1 = m+i  OBVIOUS
    <3> QED  BY <2>2, <3>1
  <2> QED  BY <2>2, <2>3, <2>4
<1> HIDE DEF b
<1>2. x \in Seq(S) /\ Len(x) = p - m - d /\ \A i \in 1..p-m-d : x[i] = b[d+i]
  <2>1. d + 1 \in Int /\ p - m \in Int /\ \A i \in d+1..p-m : b[i] \in S  BY <1>0, <1>1
  <2> HIDE DEF x
  <2>2. /\ x \in Seq(S) /\ Len(x) = IF d+1 <= p-m THEN p-m-(d+1)+1 ELSE 0
        /\ \A i \in 1..p-m-(d+1)+1 : x[i] = b[d+1+i-1]
    BY <2>1, SubSeqProperties DEF x
  <2>3. Len(x) = p - m - d  BY <2>2
  <2>4. ASSUME NEW i \in 1..p-m-d PROVE x[i] = b[d+i]
    <3>1. i \in 1..p-m-(d+1)+1 /\ d+1+i-1 = d+i  OBVIOUS
    <3> QED  BY <2>2, <3>1
  <2> QED  BY <2>2, <2>3, <2>4
<1>3. y \in Seq(S) /\ Len(y) = p - m - d /\ \A i \in 1..p-m-d : y[i] = s[m+d+i]
  <2>1. m + d + 1 \in Int /\ p \in Int /\ \A i \in m+d+1..p : s[i] \in S  BY <1>0
  <2> HIDE DEF y
  <2>2. /\ y \in Seq(S) /\ Len(y) = IF m+d+1 <= p THEN p-(m+d+1)+1 ELSE 0
        /\ \A i \in 1..p-(m+d+1)+1 : y[i] = s[m+d+1+i-1]
    BY <2>1, SubSeqProperties DEF y
  <2>3. Len(y) = p - m - d  BY <2>2
  <2>4. ASSUME NEW i \in 1..p-m-d PROVE y[i] = s[m+d+i]
    <3>1. i \in 1..p-(m+d+1)+1 /\ m+d+1+i-1 = m+d+i  OBVIOUS
    <3> QED  BY <2>2, <3>1
  <2> QED  BY <2>2, <2>3, <2>4
<1> HIDE DEF x, y
<1>4. ASSUME NEW i \in 1..p-m-d PROVE x[i] = y[i]
  <2>1. d + i \in 1..p-m /\ m + (d + i) = m + d + i  OBVIOUS
  <2>2. b[d+i] = s[m+d+i]  BY <1>1, <2>1
  <2> QED  BY <1>2, <1>3, <2>2
<1>5. x = y  BY <1>2, <1>3, <1>4, SeqEqual
<1> QED  BY <1>1, <1>5 DEF b, x, y

\* A separator ends at the last byte of an event, and none before it.
At(b, i, len) == i + len - 1 <= Len(b) /\ Separator(b, i, len)

FirstAt(b, i, len) ==
  /\ i + len = Size + 1
  /\ Len(b) < Size => \A j \in 1..Len(b)-1 : \A n \in {2, 3} : ~At(b, j, n)
  /\ Size <= Len(b) => /\ i \in 1..Len(b)-1 /\ At(b, i, len)
                       /\ \A n \in {2, 3} : At(b, i, n) => n = len
                       /\ \A j \in 1..i-1 : \A n \in {2, 3} : ~At(b, j, n)

\* With CRLF the first event ends behind its eighth byte.
LEMMA FirstAtCrLf ==
  ASSUME Size = 8, NEW k \in Nat, NEW b \in Seq(ByteSet),
         \A j \in 1..Size : j <= Len(b) => b[j] = Bytes(k)[j]
  PROVE  FirstAt(b, 6, 3)
<1>0. Len(b) \in Nat  BY LenProperties
<1>1. NL # CR /\ <<"event", k>> # NL /\ <<"event", k>> # CR  BY BytesDiffer
<1>2. \A j \in 1..8 : j <= Len(b) => /\ j \in {1, 4} => b[j] = <<"event", k>>
                                     /\ j \in {2, 5, 7} => b[j] = CR
                                     /\ j \in {3, 6, 8} => b[j] = NL
  BY BytesType
<1>3. ASSUME NEW i \in 1..5, NEW n \in {2, 3}, At(b, i, n) PROVE FALSE
  <2>1. i <= Len(b) /\ i + 1 <= Len(b) /\ b[i] = NL /\ (b[i+1] = NL \/ b[i+1] = CR)
    BY <1>0, <1>3 DEF At, Separator
  <2>2. i \in 1..8 /\ i \in {1, 2, 3, 4, 5}  OBVIOUS
  <2>3. (i \in {1, 4} => b[i] = <<"event", k>>) /\ (i \in {2, 5, 7} => b[i] = CR)
    BY <1>2, <2>1, <2>2
  <2>4. i = 3  BY <1>1, <2>1, <2>2, <2>3
  <2>5. 4 <= Len(b) /\ (b[4] = NL \/ b[4] = CR)  BY <2>1, <2>4
  <2>6. b[4] = <<"event", k>>  BY <1>2, <2>5
  <2> QED  BY <1>1, <2>5, <2>6
<1>4. ASSUME Len(b) < 8, NEW i \in 1..Len(b)-1, NEW n \in {2, 3}, At(b, i, n) PROVE FALSE
  <2>1. i = 6  BY <1>0, <1>3, <1>4
  <2>2. 7 <= Len(b) /\ b[7] = NL  BY <1>0, <1>4, <2>1 DEF At, Separator
  <2> QED  BY <1>1, <1>2, <2>2
<1>5. ASSUME 8 <= Len(b)
      PROVE  6 \in 1..Len(b)-1 /\ At(b, 6, 3) /\ ~At(b, 6, 2)
  <2>1. b[6] = NL /\ b[7] = CR /\ b[8] = NL  BY <1>0, <1>2, <1>5
  <2> QED  BY <1>0, <1>1, <1>5, <2>1 DEF At, Separator
<1> QED  BY <1>3, <1>4, <1>5 DEF FirstAt

\* With LF it ends behind its fifth.
LEMMA FirstAtLf ==
  ASSUME Size = 5, NEW k \in Nat, NEW b \in Seq(ByteSet),
         \A j \in 1..Size : j <= Len(b) => b[j] = Bytes(k)[j]
  PROVE  FirstAt(b, 4, 2)
<1>0. Len(b) \in Nat  BY LenProperties
<1>1. NL # CR /\ <<"event", k>> # NL /\ <<"event", k>> # CR  BY BytesDiffer
<1>2. \A j \in 1..5 : j <= Len(b) => /\ j \in {1, 3} => b[j] = <<"event", k>>
                                     /\ j \in {2, 4, 5} => b[j] = NL
  BY BytesType
<1>3. ASSUME NEW i \in 1..3, NEW n \in {2, 3}, At(b, i, n) PROVE FALSE
  <2>1. i <= Len(b) /\ i + 1 <= Len(b) /\ b[i] = NL /\ (b[i+1] = NL \/ b[i+1] = CR)
    BY <1>0, <1>3 DEF At, Separator
  <2>2. i \in 1..5 /\ i \in {1, 2, 3}  OBVIOUS
  <2>3. i \in {1, 3} => b[i] = <<"event", k>>  BY <1>2, <2>1, <2>2
  <2>4. i = 2  BY <1>1, <2>1, <2>2, <2>3
  <2>5. 3 <= Len(b) /\ (b[3] = NL \/ b[3] = CR)  BY <2>1, <2>4
  <2>6. b[3] = <<"event", k>>  BY <1>2, <2>5
  <2> QED  BY <1>1, <2>5, <2>6
<1>4. ASSUME Len(b) < 5, NEW i \in 1..Len(b)-1, NEW n \in {2, 3}, At(b, i, n) PROVE FALSE
  BY <1>0, <1>3, <1>4
<1>5. ASSUME 5 <= Len(b)
      PROVE  4 \in 1..Len(b)-1 /\ At(b, 4, 2) /\ ~At(b, 4, 3)
  <2>1. b[4] = NL /\ b[5] = NL  BY <1>0, <1>2, <1>5
  <2> QED  BY <1>0, <1>1, <1>5, <2>1 DEF At, Separator
<1> QED  BY <1>3, <1>4, <1>5 DEF FirstAt

\* So `find_event_end` finds the first event, when it is whole.
LEMMA FirstEventEnds ==
  ASSUME NEW k \in Nat, NEW b \in Seq(ByteSet),
         \A j \in 1..Size : j <= Len(b) => b[j] = Bytes(k)[j]
  PROVE  /\ Len(b) < Size => EventEnds(b) = {}
         /\ Size <= Len(b) => /\ EventEnds(b) # {}
                              /\ b[1] = <<"event", k>>
                              /\ AfterEvent(b) = SubSeq(b, Size + 1, Len(b))
<1>0. Len(b) \in Nat /\ Size \in {5, 8}  BY LenProperties DEF Size
<1>1. PICK e \in Nat, len \in {2, 3} : FirstAt(b, e, len)
  BY <1>0, FirstAtCrLf, FirstAtLf
<1>2. EventEnds(b) = {i \in 1..(Len(b) - 1) : \E n \in {2, 3} : At(b, i, n)}
  BY DEF EventEnds, At
<1>3. Len(b) < Size => EventEnds(b) = {}  BY <1>1, <1>2 DEF FirstAt
<1>4. ASSUME Size <= Len(b)
      PROVE  /\ EventEnds(b) # {}
             /\ b[1] = <<"event", k>>
             /\ AfterEvent(b) = SubSeq(b, Size + 1, Len(b))
  <2>1. /\ e \in 1..Len(b)-1 /\ At(b, e, len) /\ e + len = Size + 1
        /\ \A n \in {2, 3} : At(b, e, n) => n = len
        /\ \A j \in 1..e-1 : \A n \in {2, 3} : ~At(b, j, n)
    BY <1>1, <1>4 DEF FirstAt
  <2>2. e \in EventEnds(b)  BY <1>2, <2>1
  <2>3. \A j \in EventEnds(b) : e <= j  BY <1>0, <1>2, <2>1
  <2>4. EventEnds(b) \subseteq Nat  BY <1>2
  <2>5. FirstEnd(b) = e  BY <2>2, <2>3, <2>4 DEF FirstEnd
  <2>6. (CHOOSE n \in {2, 3} : At(b, e, n)) = len  BY <2>1
  <2>7. AfterEvent(b) = SubSeq(b, e + len, Len(b))  BY <2>5, <2>6 DEF AfterEvent, At
  <2>8. b[1] = Bytes(k)[1]  BY <1>0, <1>4
  <2>9. Bytes(k)[1] = <<"event", k>>  BY <1>0, BytesType
  <2> QED  BY <2>1, <2>2, <2>7, <2>8, <2>9
<1> QED  BY <1>3, <1>4

\* Where the buffer begins with event t+1: if it has come whole, it is found.
LEMMA BufferEvents ==
  ASSUME Len(stream) \in Nat, DOMAIN stream = 1..Len(stream),
         NEW t \in Nat, NEW p \in Nat, t * Size <= p, p <= Len(Wire)
  PROVE  LET b == SubSeq(Wire, t * Size + 1, p) IN
         /\ b \in Seq(ByteSet) /\ Len(b) = p - t * Size
         /\ p < (t+1) * Size => EventEnds(b) = {}
         /\ (t+1) * Size <= p => /\ t + 1 \in 1..Len(stream)
                                 /\ EventEnds(b) # {}
                                 /\ b[1] = <<"event", t+1>>
                                 /\ AfterEvent(b) = SubSeq(Wire, (t+1) * Size + 1, p)
<1> DEFINE b == SubSeq(Wire, t * Size + 1, p)
           m == t * Size
<1>0. /\ Size \in {5, 8} /\ m \in Nat /\ (t+1) * Size = m + Size /\ (t+1-1) * Size = m
      /\ Len(stream) * Size \in Nat
  BY DEF Size
<1>1. /\ Wire \in Seq(ByteSet) /\ Len(Wire) = Len(stream) * Size
      /\ \A k \in 1..Len(stream) : \A j \in 1..Size : Wire[(k-1) * Size + j] = Bytes(k)[j]
  BY WireBytes
<1>2. m < p => t + 1 \in 1..Len(stream)  BY <1>0, <1>1
<1> HIDE DEF m
<1>3. m <= p /\ p <= Len(Wire) /\ b = SubSeq(Wire, m + 1, p)  BY DEF m
<1> HIDE DEF b
<1>4. b \in Seq(ByteSet) /\ Len(b) = p - m /\ \A i \in 1..p-m : b[i] = Wire[m+i]
  <2>1. 0 \in Nat /\ m + 0 <= p  BY <1>0, <1>3
  <2> QED  BY <1>0, <1>1, <1>3, <2>1, LaterPart
<1>5. \A j \in 1..Size : j <= Len(b) => b[j] = Bytes(t+1)[j]
  <2> SUFFICES ASSUME NEW j \in 1..Size, j <= Len(b) PROVE b[j] = Bytes(t+1)[j]  OBVIOUS
  <2>1. m < p /\ j \in 1..p-m  BY <1>0, <1>4
  <2>2. b[j] = Wire[m+j]  BY <1>4, <2>1
  <2>3. Wire[(t+1-1) * Size + j] = Bytes(t+1)[j]  BY <1>1, <1>2, <2>1
  <2> QED  BY <1>0, <2>2, <2>3
<1>6. /\ Len(b) < Size => EventEnds(b) = {}
      /\ Size <= Len(b) => /\ EventEnds(b) # {}
                           /\ b[1] = <<"event", t+1>>
                           /\ AfterEvent(b) = SubSeq(b, Size + 1, Len(b))
  <2>1. t + 1 \in Nat  OBVIOUS
  <2> QED  BY <1>4, <1>5, <2>1, FirstEventEnds
<1>7. Size <= Len(b) => SubSeq(b, Size + 1, Len(b)) = SubSeq(Wire, m + Size + 1, p)
  <2> SUFFICES ASSUME Size <= Len(b)
               PROVE  SubSeq(b, Size + 1, p - m) = SubSeq(Wire, m + Size + 1, p)
    BY <1>4
  <2>1. Size \in Nat /\ m + Size <= p  BY <1>0, <1>4
  <2> QED  BY <1>0, <1>1, <1>3, <2>1, LaterPart
<1>8. p < (t+1) * Size <=> Len(b) < Size  BY <1>0, <1>3, <1>4
<1>9. (t+1) * Size <= p <=> Size <= Len(b)  BY <1>0, <1>3, <1>4
<1>10. (t+1) * Size <= p => m < p  BY <1>0
<1> QED  BY <1>0, <1>2, <1>4, <1>6, <1>7, <1>8, <1>9, <1>10 DEF b, m

-----------------------------------------------------------------------------
(* What is kept as events are sent, said of the values of the variables:   *)
(* o was sent, h is held and the first t of the events have been handled.   *)

Came(events, t, i) == FlattenSeq([k \in 1..t |-> IF HasText(events[k], i) THEN <<k>> ELSE <<>>])

InTime(o, events) ==
  \A n \in DOMAIN o : o[n].event # 0 =>
    \A i \in Indices :
      Finishes(events[o[n].event], i) => Text(SubSeq(o, 1, n), i) = Came(events, o[n].event, i)

Kept(o, h, events, t) ==
  /\ o \in Seq(SentEvents) /\ h \in Streams
  /\ Originals(o) = [n \in 1..t |-> n]
  /\ \A i \in Indices : Text(o, i) \o h[i] = Came(events, t, i)
  /\ InTime(o, events)

\* What the next event brings for an index comes behind what came before.
LEMMA CameNext ==
  ASSUME NEW events, NEW t \in Nat, NEW i
  PROVE  /\ Came(events, 0, i) = <<>>
         /\ Came(events, t, i) \in Seq(Nat)
         /\ Came(events, t+1, i)
              = Came(events, t, i) \o (IF HasText(events[t+1], i) THEN <<t+1>> ELSE <<>>)
<1> DEFINE f == [k \in 1..t+1 |-> IF HasText(events[k], i) THEN <<k>> ELSE <<>>]
<1>1. \A k \in 1..t+1 : f[k] \in Seq(Nat)
  <2> SUFFICES ASSUME NEW k \in 1..t+1 PROVE f[k] \in Seq(Nat)  OBVIOUS
  <2>1. <<k>> \in Seq(Nat) /\ <<>> \in Seq(Nat)  OBVIOUS
  <2> QED  BY <2>1
<1>2. f[t+1] = IF HasText(events[t+1], i) THEN <<t+1>> ELSE <<>>  OBVIOUS
<1>3. Came(events, t+1, i) = FlattenSeq([k \in 1..t+1 |-> f[k]])
  <2>1. f = [k \in 1..t+1 |-> f[k]]  OBVIOUS
  <2>2. Came(events, t+1, i) = FlattenSeq(f)  BY DEF Came
  <2> QED  BY <2>1, <2>2
<1>4. Came(events, t, i) = FlattenSeq([k \in 1..t |-> f[k]])
  <2>1. [k \in 1..t |-> f[k]] = [k \in 1..t |-> IF HasText(events[k], i) THEN <<k>> ELSE <<>>]
    OBVIOUS
  <2> QED  BY <2>1 DEF Came
<1> HIDE DEF f
<1>5. /\ [k \in 1..t |-> f[k]] \in Seq(Seq(Nat))
      /\ FlattenSeq([k \in 1..t+1 |-> f[k]]) = FlattenSeq([k \in 1..t |-> f[k]]) \o f[t+1]
  BY <1>1, FlattenNext
<1>6. Came(events, t, i) \in Seq(Nat)  BY <1>4, <1>5, FlattenType
<1>7. Came(events, 0, i) = <<>>
  <2>1. [k \in 1..0 |-> IF HasText(events[k], i) THEN <<k>> ELSE <<>>] = <<>>  OBVIOUS
  <2> QED  BY <2>1, FlattenEmpty DEF Came
<1> QED  BY <1>2, <1>3, <1>4, <1>5, <1>6, <1>7

\* Texts are put together in any grouping.
LEMMA TextConcat ==
  ASSUME NEW s \in Seq(Nat), NEW t \in Seq(Nat), NEW u \in Seq(Nat)
  PROVE  (s \o t) \o u = s \o (t \o u)
BY ConcatAssociative, SMTT(20)

\* In the beginning nothing is held and nothing is kept back.
LEMMA KeptFirst ==
  ASSUME NEW events
  PROVE  Kept(<<>>, NoText, events, 0)
<1>1. <<>> \in Seq(SentEvents) /\ DOMAIN <<>> = {} /\ <<>> = [n \in 1..0 |-> n]  OBVIOUS
<1>2. NoText \in Streams /\ \A i \in Indices : NoText[i] = <<>>  BY DEF NoText, Streams
<1>3. ASSUME NEW i \in Indices PROVE Text(<<>>, i) \o NoText[i] = Came(events, 0, i)
  <2>1. Came(events, 0, i) = <<>>  BY CameNext
  <2>2. Text(<<>>, i) = <<>>  BY SentNothing
  <2>3. <<>> \o <<>> = <<>>  OBVIOUS
  <2> QED  BY <1>2, <2>1, <2>2, <2>3
<1>4. InTime(<<>>, events)  BY <1>1 DEF InTime
<1> QED  BY <1>1, <1>2, <1>3, <1>4, SentNothing DEF Kept

\* What is sent later does not change what was said of events before it.
LEMMA InTimeMore ==
  ASSUME NEW o \in Seq(SentEvents), NEW mid \in Seq(SentEvents), NEW events, InTime(o, events),
         \A n \in DOMAIN mid : mid[n].event # 0 =>
           \A i \in Indices : Finishes(events[mid[n].event], i) =>
             Text(SubSeq(o \o mid, 1, Len(o) + n), i) = Came(events, mid[n].event, i)
  PROVE  InTime(o \o mid, events)
<1>1. /\ o \o mid \in Seq(SentEvents) /\ Len(o \o mid) = Len(o) + Len(mid)
      /\ \A n \in 1..Len(o) + Len(mid) :
           (o \o mid)[n] = IF n <= Len(o) THEN o[n] ELSE mid[n - Len(o)]
  BY ConcatProperties
<1>2. /\ Len(o) \in Nat /\ DOMAIN o = 1..Len(o) /\ Len(mid) \in Nat /\ DOMAIN mid = 1..Len(mid)
      /\ DOMAIN (o \o mid) = 1..Len(o) + Len(mid)
  BY <1>1, LenProperties
<1> SUFFICES ASSUME NEW n \in 1..Len(o) + Len(mid), (o \o mid)[n].event # 0, NEW i \in Indices,
                    Finishes(events[(o \o mid)[n].event], i)
             PROVE  Text(SubSeq(o \o mid, 1, n), i) = Came(events, (o \o mid)[n].event, i)
  BY <1>2 DEF InTime
<1>3. CASE n <= Len(o)
  <2>1. n \in DOMAIN o /\ (o \o mid)[n] = o[n]  BY <1>1, <1>2, <1>3
  <2>2. SubSeq(o \o mid, 1, n) = SubSeq(o, 1, n)
    <3>1. 1 \in 1..Len(o) /\ n \in 1..Len(o)  BY <1>2, <1>3
    <3> QED  BY <3>1, SubSeqOfConcat1
  <2> QED  BY <2>1, <2>2 DEF InTime
<1>4. CASE ~(n <= Len(o))
  <2>1. n - Len(o) \in DOMAIN mid /\ Len(o) + (n - Len(o)) = n  BY <1>2, <1>4
  <2>2. (o \o mid)[n] = mid[n - Len(o)]  BY <1>1, <1>4
  <2> QED  BY <2>1, <2>2
<1> QED  BY <1>3, <1>4

\* Synthetic chunks move held text out, and nothing is lost.
LEMMA KeptFlushed ==
  ASSUME NEW o, NEW h, NEW events, NEW t \in Nat, Kept(o, h, events, t),
         NEW mid \in Seq(SentEvents), NEW h2 \in Streams,
         Originals(mid) = <<>>, \A n \in DOMAIN mid : mid[n].event = 0,
         \A i \in Indices : Text(mid, i) \o h2[i] = h[i]
  PROVE  Kept(o \o mid, h2, events, t)
<1>1. /\ o \in Seq(SentEvents) /\ h \in Streams
      /\ Originals(o) = [n \in 1..t |-> n]
      /\ \A i \in Indices : Text(o, i) \o h[i] = Came(events, t, i)
      /\ InTime(o, events)
  BY DEF Kept
<1>2. /\ o \o mid \in Seq(SentEvents) /\ Originals(o \o mid) = Originals(o) \o <<>>
      /\ Originals(o) \in Seq(Nat)
  BY <1>1, SentMore
<1>3. Originals(o \o mid) = [n \in 1..t |-> n]  BY <1>1, <1>2, ConcatEmptySeq
<1>4. ASSUME NEW i \in Indices PROVE Text(o \o mid, i) \o h2[i] = Came(events, t, i)
  <2>1. /\ Text(o, i) \in Seq(Nat) /\ Text(mid, i) \in Seq(Nat) /\ h2[i] \in Seq(Nat)
        /\ Text(o \o mid, i) = Text(o, i) \o Text(mid, i)
    BY <1>1, SentMore DEF Streams
  <2>2. (Text(o, i) \o Text(mid, i)) \o h2[i] = Text(o, i) \o (Text(mid, i) \o h2[i])
    BY <2>1, TextConcat
  <2> QED  BY <1>1, <2>1, <2>2
<1>5. InTime(o \o mid, events)  BY <1>1, InTimeMore
<1> QED  BY <1>2, <1>3, <1>4, <1>5 DEF Kept

\* The first t numbers and the next.
LEMMA OneMore ==
  ASSUME NEW t \in Nat
  PROVE  [n \in 1..t |-> n] \o <<t+1>> = [n \in 1..t+1 |-> n]
<1> DEFINE a == [n \in 1..t |-> n]
           b == [n \in 1..t+1 |-> n]
<1>1. a \in Seq(Nat) /\ Len(a) = t /\ b \in Seq(Nat) /\ Len(b) = t+1
  <2>1. a \in [1..t -> Nat] /\ b \in [1..t+1 -> Nat] /\ t+1 \in Nat  OBVIOUS
  <2> HIDE DEF a, b
  <2> QED  BY <2>1, FunctionIsSequence
<1>2. \A n \in 1..t : a[n] = n  OBVIOUS
<1>3. \A n \in 1..t+1 : b[n] = n  OBVIOUS
<1> HIDE DEF a, b
<1>4. <<t+1>> \in Seq(Nat) /\ Len(<<t+1>>) = 1 /\ <<t+1>>[1] = t+1  OBVIOUS
<1>5. /\ a \o <<t+1>> \in Seq(Nat) /\ Len(a \o <<t+1>>) = t+1
      /\ \A n \in 1..t+1 : (a \o <<t+1>>)[n] = IF n <= t THEN a[n] ELSE <<t+1>>[n - t]
  BY <1>1, <1>4, ConcatProperties
<1>6. ASSUME NEW n \in 1..t+1 PROVE (a \o <<t+1>>)[n] = b[n]
  <2>0. n \in 1..t \/ n = t + 1  OBVIOUS
  <2>1. CASE n \in 1..t
    <3>1. n <= t  BY <2>1
    <3>2. (a \o <<t+1>>)[n] = a[n]  BY <1>5, <3>1
    <3> QED  BY <1>2, <1>3, <2>1, <3>2
  <2>2. CASE n = t+1
    <3>1. n - t = 1 /\ ~(n <= t)  BY <2>2
    <3>2. (a \o <<t+1>>)[n] = <<t+1>>[1]  BY <1>5, <3>1
    <3> QED  BY <1>3, <1>4, <2>2, <3>2
  <2> QED  BY <2>0, <2>1, <2>2
<1>7. a \o <<t+1>> = b  BY <1>1, <1>5, <1>6, SeqEqual
<1> QED  BY <1>7 DEF a, b

\* An event that is rewritten lets go a part of what is held and its own.
LEMMA KeptSent ==
  ASSUME NEW o, NEW h, NEW events, NEW t \in Nat, Kept(o, h, events, t),
         NEW text \in Streams, NEW h2 \in Streams,
         \A i \in Indices :
           /\ text[i] \o h2[i] = h[i] \o (IF HasText(events[t+1], i) THEN <<t+1>> ELSE <<>>)
           /\ Finishes(events[t+1], i) => h2[i] = <<>>
  PROVE  Kept(Append(o, Sent(t+1, text)), h2, events, t+1)
<1> DEFINE e == Sent(t+1, text)
           new(i) == IF HasText(events[t+1], i) THEN <<t+1>> ELSE <<>>
<1>1. /\ o \in Seq(SentEvents) /\ h \in Streams
      /\ Originals(o) = [n \in 1..t |-> n]
      /\ \A i \in Indices : Text(o, i) \o h[i] = Came(events, t, i)
      /\ InTime(o, events)
  BY DEF Kept
<1>2. e \in SentEvents /\ e.event = t+1 /\ e.event # 0 /\ e.text = text
  BY DEF Sent, SentEvents, Streams
<1> HIDE DEF e
<1>3. Append(o, e) = o \o <<e>>  BY <1>1, <1>2, AppendIsConcat
<1>4. /\ <<e>> \in Seq(SentEvents)
      /\ Originals(<<e>>) = <<t+1>>
      /\ \A i \in Indices : Text(<<e>>, i) = text[i]
  BY <1>2, SentOne
<1>5. /\ o \o <<e>> \in Seq(SentEvents) /\ Originals(o \o <<e>>) = Originals(o) \o <<t+1>>
      /\ Originals(o) \in Seq(Nat)
  BY <1>1, <1>4, SentMore
<1>6. [n \in 1..t |-> n] \o <<t+1>> = [n \in 1..t+1 |-> n]  BY OneMore
<1>7. ASSUME NEW i \in Indices PROVE Text(o \o <<e>>, i) \o h2[i] = Came(events, t+1, i)
  <2>0. text[i] \in Seq(Nat) /\ h2[i] \in Seq(Nat) /\ h[i] \in Seq(Nat)  BY <1>1 DEF Streams
  <2>1. Text(o, i) \in Seq(Nat) /\ Text(o \o <<e>>, i) = Text(o, i) \o text[i]
    <3>1. Text(o, i) \in Seq(Nat) /\ Text(o \o <<e>>, i) = Text(o, i) \o Text(<<e>>, i)
      BY <1>1, <1>4, SentMore
    <3> QED  BY <1>4, <3>1
  <2>2. new(i) \in Seq(Nat)
    <3>1. <<t+1>> \in Seq(Nat) /\ <<>> \in Seq(Nat)  OBVIOUS
    <3> QED  BY <3>1
  <2>3. text[i] \o h2[i] = h[i] \o new(i)  OBVIOUS
  <2>4. Came(events, t+1, i) = Came(events, t, i) \o new(i)  BY CameNext
  <2> HIDE DEF new
  <2>5. (Text(o, i) \o text[i]) \o h2[i] = Text(o, i) \o (text[i] \o h2[i])
    BY <2>0, <2>1, TextConcat
  <2>6. (Text(o, i) \o h[i]) \o new(i) = Text(o, i) \o (h[i] \o new(i))
    BY <2>0, <2>1, <2>2, TextConcat
  <2> QED  BY <1>1, <2>1, <2>3, <2>4, <2>5, <2>6
<1>8. InTime(o \o <<e>>, events)
  <2>1. SubSeq(o \o <<e>>, 1, Len(o) + 1) = o \o <<e>>
    <3>1. Len(o \o <<e>>) = Len(o) + 1  BY <1>1, <1>4, ConcatProperties
    <3> QED  BY <1>5, <3>1, SubSeqFull
  <2>2. ASSUME NEW i \in Indices, Finishes(events[t+1], i)
        PROVE  Text(o \o <<e>>, i) = Came(events, t+1, i)
    <3>1. h2[i] = <<>>  BY <2>2
    <3>2. Text(o \o <<e>>, i) \in Seq(Nat)  BY <1>4, <1>5, SentMore
    <3>3. Text(o \o <<e>>, i) \o <<>> = Text(o \o <<e>>, i)  BY <3>2, ConcatEmptySeq
    <3> QED  BY <1>7, <3>1, <3>3
  <2>3. DOMAIN <<e>> = {1} /\ <<e>>[1] = e  OBVIOUS
  <2>4. \A n \in DOMAIN <<e>> : <<e>>[n].event # 0 =>
          \A i \in Indices : Finishes(events[<<e>>[n].event], i) =>
            Text(SubSeq(o \o <<e>>, 1, Len(o) + n), i) = Came(events, <<e>>[n].event, i)
    BY <1>2, <2>1, <2>2, <2>3
  <2> QED  BY <1>1, <1>4, <2>4, InTimeMore
<1>9. Originals(o \o <<e>>) = [n \in 1..t+1 |-> n]  BY <1>1, <1>5, <1>6
<1> QED  BY <1>3, <1>5, <1>7, <1>8, <1>9 DEF Kept, e

-----------------------------------------------------------------------------
(* The inductive invariant: some number t of events has been handled, what *)
(* they brought is written or held, and the buffer is what came after them; *)
(* and the client has what was written when it was last given something.   *)

SseTypeOK ==
  /\ format \in {"openai", "anthropic"} /\ ending \in {"lf", "crlf"}
  /\ stream \in Seq(Events(format))
  /\ pos \in 0..Len(Wire)
  /\ held \in Streams
  /\ made \in Seq(SentEvents) /\ out \in Seq(SentEvents)
  /\ over \in {"no", "failed", "finished", "panicked"}

Handled(t) ==
  /\ t \in 0..Len(stream)
  /\ over # "panicked" => Kept(Rewritten, held, stream, t)
  /\ over # "no" => made = <<>>
  /\ over \in {"no", "failed"} =>
       t * Size <= pos /\ buf = SubSeq(Wire, t * Size + 1, pos)
  /\ over = "finished" =>
       /\ buf = <<>> /\ held = NoText
       /\ t * Size <= pos /\ pos < (t+1) * Size
       /\ tail = SubSeq(Wire, t * Size + 1, pos)

Given(t) == \E h \in Streams : Kept(out, h, stream, t)

SseIInv ==
  /\ SseTypeOK
  /\ \E t \in 0..Len(stream) : Handled(t)
  /\ \E t \in Nat : Given(t)

\* What is written behind what was written.
LEMMA WrittenMore ==
  ASSUME SseTypeOK, NEW mid \in Seq(SentEvents), NEW e \in SentEvents
  PROVE  /\ out \o (made \o mid) = Rewritten \o mid
         /\ out \o Append(made \o mid, e) = Append(Rewritten \o mid, e)
         /\ out \o Append(made, e) = Append(Rewritten, e)
         /\ Rewritten \in Seq(SentEvents) /\ made \o mid \in Seq(SentEvents)
<1>1. /\ out \in Seq(SentEvents) /\ made \in Seq(SentEvents) /\ <<e>> \in Seq(SentEvents)
      /\ Rewritten = out \o made
  BY DEF SseTypeOK, Rewritten
<1>2. /\ Rewritten \in Seq(SentEvents) /\ made \o mid \in Seq(SentEvents)
      /\ Rewritten \o mid \in Seq(SentEvents)
  BY <1>1, ConcatProperties
<1>3. out \o (made \o mid) = Rewritten \o mid  BY <1>1, ConcatAssociative, SMTT(20)
<1>4. /\ Append(made \o mid, e) = (made \o mid) \o <<e>>
      /\ Append(Rewritten \o mid, e) = (Rewritten \o mid) \o <<e>>
      /\ Append(made, e) = made \o <<e>>
      /\ Append(Rewritten, e) = Rewritten \o <<e>>
  BY <1>1, <1>2, AppendIsConcat
<1>5. out \o ((made \o mid) \o <<e>>) = (out \o (made \o mid)) \o <<e>>
  BY <1>1, <1>2, ConcatAssociative, SMTT(20)
<1>6. out \o (made \o <<e>>) = (out \o made) \o <<e>>
  BY <1>1, ConcatAssociative, SMTT(20)
<1> QED  BY <1>1, <1>2, <1>3, <1>4, <1>5, <1>6

\* What is passed on is an event with its text.
LEMMA SentType ==
  ASSUME NEW k \in Nat \ {0}, NEW text \in Streams
  PROVE  Sent(k, text) \in SentEvents
BY DEF Sent, SentEvents, Streams

\* The wire does not change.
LEMMA WireStays ==
  ASSUME stream' = stream, ending' = ending
  PROVE  Wire' = Wire /\ Size' = Size
BY DEF Wire, Size, Bytes, NL, CR

\* What the types say of the stream and its bytes.
LEMMA StreamLength ==
  ASSUME SseTypeOK
  PROVE  /\ Len(stream) \in Nat /\ DOMAIN stream = 1..Len(stream)
         /\ \A k \in DOMAIN stream : stream[k] \in Events(format)
         /\ pos \in Nat /\ pos <= Len(Wire) /\ Len(Wire) \in Nat
         /\ Wire \in Seq(ByteSet)
<1>1. Len(stream) \in Nat /\ DOMAIN stream = 1..Len(stream)  BY LenProperties DEF SseTypeOK
<1>2. \A k \in DOMAIN stream : stream[k] \in Events(format)
  BY <1>1, ElementOfSeq DEF SseTypeOK
<1>3. Wire \in Seq(ByteSet)  BY <1>1, WireBytes
<1>4. Len(Wire) \in Nat  BY <1>3, LenProperties
<1> QED  BY <1>1, <1>2, <1>3, <1>4 DEF SseTypeOK

\* The invariant holds before the first byte.
LEMMA SseInitIInv == SseInit => SseIInv
<1> SUFFICES ASSUME SseInit PROVE SseIInv  OBVIOUS
<1>1. PICK n \in 0..MaxEvents : stream \in [1..n -> Events(format)]  BY DEF SseInit
<1>2. stream \in Seq(Events(format)) /\ Len(stream) = n
  <2>1. n \in Nat  BY SseAssumption
  <2> QED  BY <1>1, <2>1, FunctionIsSequence
<1>3. Wire \in Seq(ByteSet)  BY <1>2, LenProperties, WireBytes
<1>4. Len(Wire) \in Nat  BY <1>3, LenProperties
<1>5. /\ out = <<>> /\ made = <<>> /\ Rewritten = <<>>
      /\ Kept(Rewritten, held, stream, 0) /\ Kept(out, held, stream, 0)
  <2>1. out = <<>> /\ made = <<>> /\ held = NoText  BY DEF SseInit
  <2>2. Rewritten = <<>>  BY <2>1 DEF Rewritten
  <2> QED  BY <2>1, <2>2, KeptFirst
<1>6. held \in Streams /\ out \in Seq(SentEvents) /\ made \in Seq(SentEvents)
  BY <1>5 DEF Kept
<1>7. pos \in 0..Len(Wire)  BY <1>4 DEF SseInit
<1>8. SseTypeOK  BY <1>2, <1>6, <1>7 DEF SseTypeOK, SseInit
<1>9. 0 * Size = 0 /\ 0 \in 0..Len(stream)  BY <1>2, SseAssumption DEF Size
<1>10. SubSeq(Wire, 1, 0) = <<>>  BY SubSeqEmpty
<1>11. Handled(0)  BY <1>5, <1>9, <1>10 DEF Handled, SseInit
<1>12. Given(0)  BY <1>5, <1>6 DEF Given
<1> QED  BY <1>8, <1>9, <1>11, <1>12 DEF SseIInv

\* `push` only adds to the buffer what the wire has next.
LEMMA PushKeeps ==
  ASSUME SseTypeOK, NEW t \in 0..Len(stream), Handled(t), Push
  PROVE  SseTypeOK' /\ Handled(t)'
<1>0. /\ Len(Wire) \in Nat /\ pos \in Nat /\ pos <= Len(Wire) /\ Wire \in Seq(ByteSet)
      /\ t \in Nat /\ t * Size \in Nat
  BY StreamLength DEF Size
<1>1. Wire' = Wire /\ Size' = Size  BY WireStays DEF Push
<1>2. PICK upto \in (pos+1)..Len(Wire) :
        buf' = buf \o SubSeq(Wire, pos + 1, upto) /\ pos' = upto
  BY DEF Push
<1>3. over = "no" /\ t * Size <= pos /\ buf = SubSeq(Wire, t * Size + 1, pos)
  BY DEF Push, Idle, Handled
<1>4. SubSeq(Wire, t * Size + 1, pos) \o SubSeq(Wire, pos + 1, upto)
        = SubSeq(Wire, t * Size + 1, upto)
  <2>1. /\ t * Size + 1 \in 1..Len(Wire)+1
        /\ pos \in (t * Size + 1) - 1..Len(Wire)
        /\ upto \in pos..Len(Wire)
    BY <1>0, <1>3
  <2> QED  BY <1>0, <2>1, ConcatAdjacentSubSeq
<1>5. pos' \in 0..Len(Wire) /\ t * Size <= pos'  BY <1>0, <1>2, <1>3
<1>6. SseTypeOK'  BY <1>1, <1>5 DEF SseTypeOK, Push
<1>7. buf' = SubSeq(Wire, t * Size + 1, pos')  BY <1>2, <1>3, <1>4
<1> QED  BY <1>1, <1>3, <1>5, <1>6, <1>7 DEF Handled, Push, Rewritten

\* Returning moves what was written to the client.
LEMMA ReturnKeeps ==
  ASSUME SseTypeOK, NEW t \in 0..Len(stream), Handled(t), Return
  PROVE  SseTypeOK' /\ Handled(t)'
<1>1. Wire' = Wire /\ Size' = Size  BY WireStays DEF Return
<1>2. /\ out' = Rewritten /\ made' = <<>> /\ over = "no" /\ over' = over /\ held' = held
      /\ Kept(Rewritten, held, stream, t)
  BY DEF Return, Rewritten, Handled
<1>3. Rewritten \in Seq(SentEvents)  BY <1>2 DEF Kept
<1>4. Rewritten' = Rewritten
  <2>1. Rewritten' = Rewritten \o <<>>  BY <1>2 DEF Rewritten
  <2> QED  BY <1>3, <2>1, ConcatEmptySeq
<1>5. SseTypeOK'  BY <1>1, <1>2, <1>3 DEF SseTypeOK, Return
<1> QED  BY <1>1, <1>2, <1>4, <1>5 DEF Handled, Return

\* The event that is taken is the one after those handled.
LEMMA TakeNext ==
  ASSUME SseTypeOK, NEW t \in 0..Len(stream), Handled(t), NEW k, NEW kinds, Take(k, kinds)
  PROVE  /\ k = t + 1 /\ t \in Nat /\ t + 1 \in 0..Len(stream)
         /\ stream[k] \in Events(format) /\ stream[k].kind \in kinds
         /\ Kept(Rewritten, held, stream, t)
         /\ (t+1) * Size <= pos /\ buf' = SubSeq(Wire, (t+1) * Size + 1, pos)
<1>0. /\ Len(stream) \in Nat /\ DOMAIN stream = 1..Len(stream)
      /\ pos \in Nat /\ pos <= Len(Wire) /\ t \in Nat
      /\ \A n \in DOMAIN stream : stream[n] \in Events(format)
  BY StreamLength
<1>1. over = "no" /\ t * Size <= pos /\ buf = SubSeq(Wire, t * Size + 1, pos)
  BY DEF Take, Handled
<1>2. /\ pos < (t+1) * Size => EventEnds(buf) = {}
      /\ (t+1) * Size <= pos => /\ t + 1 \in 1..Len(stream)
                                /\ buf[1] = <<"event", t+1>>
                                /\ AfterEvent(buf) = SubSeq(Wire, (t+1) * Size + 1, pos)
  BY <1>0, <1>1, BufferEvents
<1>3. (t+1) * Size \in Nat  BY <1>0 DEF Size
<1>4. (t+1) * Size <= pos  BY <1>0, <1>2, <1>3 DEF Take
<1>5. k = t + 1  BY <1>2, <1>4 DEF Take
<1> QED  BY <1>0, <1>2, <1>4, <1>5 DEF Take, Handled

\* So it is enough to see to what is kept.
LEMMA EventKeeps ==
  ASSUME SseTypeOK, NEW t \in 0..Len(stream), Handled(t), NEW k, NEW kinds, Take(k, kinds),
         over' = over, made' \in Seq(SentEvents), Kept(Rewritten', held', stream, t + 1)
  PROVE  SseTypeOK' /\ Handled(t+1)'
<1>1. Wire' = Wire /\ Size' = Size  BY WireStays DEF Take
<1>2. /\ t + 1 \in 0..Len(stream)
      /\ (t+1) * Size <= pos /\ buf' = SubSeq(Wire, (t+1) * Size + 1, pos)
  BY TakeNext
<1>3. /\ format' = format /\ stream' = stream /\ ending' = ending /\ pos' = pos
      /\ over = "no" /\ out' = out
  BY DEF Take
<1>4. held' \in Streams  BY DEF Kept
<1>5. SseTypeOK'  BY <1>1, <1>3, <1>4 DEF SseTypeOK
<1> QED  BY <1>1, <1>2, <1>3, <1>5 DEF Handled

\* An event without text is passed through.
LEMMA PassThroughKeeps ==
  ASSUME SseTypeOK, NEW t \in 0..Len(stream), Handled(t), NEW k, PassThrough(k)
  PROVE  SseTypeOK' /\ Handled(t+1)'
<1> DEFINE kinds == IF format = "openai" THEN {"other"} ELSE {"other", "scalar"}
<1>1. Take(k, kinds)  BY DEF PassThrough
<1>2. k = t + 1 /\ stream[k].kind \in kinds /\ t \in Nat /\ Kept(Rewritten, held, stream, t)
  <2> HIDE DEF kinds
  <2> QED  BY <1>1, TakeNext
<1>3. \A i \in Indices : ~HasText(stream[t+1], i) /\ ~Finishes(stream[t+1], i)
  BY <1>2 DEF HasText, Finishes
<1>4. NoText \in Streams /\ held \in Streams /\ \A i \in Indices : NoText[i] = <<>>
  BY <1>2 DEF NoText, Streams, Kept
<1>5. \A i \in Indices : NoText[i] \o held[i] = held[i] \o <<>>
  BY <1>4, ConcatEmptySeq DEF Streams
<1>6. Kept(Append(Rewritten, Sent(t+1, NoText)), held, stream, t+1)
  BY <1>2, <1>3, <1>4, <1>5, KeptSent
<1>7. made' = Append(made, Sent(t+1, NoText)) /\ held' = held /\ over' = over
  BY <1>2 DEF PassThrough
<1>8. made' \in Seq(SentEvents) /\ Rewritten' = Append(Rewritten, Sent(t+1, NoText))
  <2>1. Sent(t+1, NoText) \in SentEvents /\ <<>> \in Seq(SentEvents)  BY <1>2, <1>4, SentType
  <2>2. out' = out  BY <1>1 DEF Take
  <2>3. made' \in Seq(SentEvents)  BY <1>7, <2>1, AppendProperties DEF SseTypeOK
  <2>4. Rewritten' = out \o Append(made, Sent(t+1, NoText))  BY <1>7, <2>2 DEF Rewritten
  <2> HIDE DEF kinds
  <2> QED  BY <2>1, <2>3, <2>4, WrittenMore
<1> HIDE DEF kinds
<1> QED  BY <1>1, <1>6, <1>7, <1>8, EventKeeps

\* The event [DONE] ends every index.
LEMMA DoneKeeps ==
  ASSUME SseTypeOK, NEW t \in 0..Len(stream), Handled(t), NEW k, Done(k)
  PROVE  SseTypeOK' /\ Handled(t+1)'
<1>1. Take(k, {"done"})  BY DEF Done
<1>2. k = t + 1 /\ stream[k].kind = "done" /\ t \in Nat /\ Kept(Rewritten, held, stream, t)
  BY <1>1, TakeNext
<1>3. \A i \in Indices : ~HasText(stream[t+1], i)  BY <1>2 DEF HasText
<1>4. NoText \in Streams /\ held \in Streams /\ \A i \in Indices : NoText[i] = <<>>
  BY <1>2 DEF NoText, Streams, Kept
<1>5. Kept(Rewritten \o Flushed(Indices), NoText, stream, t)
  <2>1. \A i \in Indices : Text(Flushed(Indices), i) \o NoText[i] = held[i]
    BY <1>4, FlushedText, ConcatEmptySeq DEF Streams
  <2> QED  BY <1>2, <1>4, <2>1, FlushedText, KeptFlushed
<1>6. \A i \in Indices : NoText[i] \o NoText[i] = NoText[i] \o <<>>  BY <1>4
<1>7. Kept(Append(Rewritten \o Flushed(Indices), Sent(t+1, NoText)), NoText, stream, t+1)
  BY <1>2, <1>3, <1>4, <1>5, <1>6, KeptSent
<1>8. /\ made' = Append(made \o Flushed(Indices), Sent(t+1, NoText))
      /\ held' = NoText /\ over' = over
  BY <1>2 DEF Done
<1>9. /\ made' \in Seq(SentEvents)
      /\ Rewritten' = Append(Rewritten \o Flushed(Indices), Sent(t+1, NoText))
  <2>1. Sent(t+1, NoText) \in SentEvents  BY <1>2, <1>4, SentType
  <2>2. out' = out  BY <1>1 DEF Take
  <2>3. Flushed(Indices) \in Seq(SentEvents)  BY <1>4, FlushedText
  <2>4. Rewritten' = out \o Append(made \o Flushed(Indices), Sent(t+1, NoText))
    BY <1>8, <2>2 DEF Rewritten
  <2>5. made' \in Seq(SentEvents)  BY <1>8, <2>1, <2>3, WrittenMore, AppendProperties
  <2> QED  BY <2>1, <2>3, <2>4, <2>5, WrittenMore
<1> QED  BY <1>1, <1>7, <1>8, <1>9, EventKeeps

\* The end of a block ends its own index.
LEMMA StopBlockKeeps ==
  ASSUME SseTypeOK, NEW t \in 0..Len(stream), Handled(t), NEW k, StopBlock(k)
  PROVE  SseTypeOK' /\ Handled(t+1)'
<1> DEFINE b == stream[k].index
<1>1. Take(k, {"stop"})  BY DEF StopBlock
<1>2. /\ k = t + 1 /\ stream[k].kind = "stop" /\ t \in Nat /\ Kept(Rewritten, held, stream, t)
      /\ stream[k] \in Events(format)
  BY <1>1, TakeNext
<1>3. b \in Indices  BY <1>2 DEF Events
<1>4. \A i \in Indices : ~HasText(stream[t+1], i) /\ (Finishes(stream[t+1], i) => i = b)
  BY <1>2 DEF HasText, Finishes
<1>5. /\ NoText \in Streams /\ held \in Streams /\ Emptied({b}) \in Streams
      /\ \A i \in Indices : NoText[i] = <<>>
      /\ \A i \in Indices : Emptied({b})[i] = IF i = b THEN <<>> ELSE held[i]
  <2>1. NoText \in Streams /\ held \in Streams /\ \A i \in Indices : NoText[i] = <<>>
    BY <1>2 DEF NoText, Streams, Kept
  <2>2. \A i \in Indices : (IF i \in {b} THEN <<>> ELSE held[i]) \in Seq(Nat)
    BY <2>1 DEF Streams
  <2>3. Emptied({b}) \in Streams  BY <2>2 DEF Emptied, Streams
  <2> QED  BY <2>1, <2>3 DEF Emptied
<1> HIDE DEF b
<1>6. Kept(Rewritten \o Flushed({b}), Emptied({b}), stream, t)
  <2>1. /\ Flushed({b}) \in Seq(SentEvents) /\ Originals(Flushed({b})) = <<>>
        /\ \A n \in DOMAIN Flushed({b}) : Flushed({b})[n].event = 0
        /\ \A i \in Indices : Text(Flushed({b}), i) = IF i \in {b} THEN held[i] ELSE <<>>
    BY <1>3, <1>5, FlushedText
  <2>2. \A i \in Indices : Text(Flushed({b}), i) \o Emptied({b})[i] = held[i]
    BY <1>5, <2>1, ConcatEmptySeq DEF Streams
  <2> QED  BY <1>2, <1>5, <2>1, <2>2, KeptFlushed
<1>7. \A i \in Indices : NoText[i] \o Emptied({b})[i] = Emptied({b})[i] \o <<>>
  BY <1>5, ConcatEmptySeq DEF Streams
<1>8. Kept(Append(Rewritten \o Flushed({b}), Sent(t+1, NoText)), Emptied({b}), stream, t+1)
  BY <1>2, <1>4, <1>5, <1>6, <1>7, KeptSent
<1>9. /\ made' = Append(made \o Flushed({b}), Sent(t+1, NoText))
      /\ held' = Emptied({b}) /\ over' = over
  BY <1>2 DEF StopBlock, b
<1>10. /\ made' \in Seq(SentEvents)
       /\ Rewritten' = Append(Rewritten \o Flushed({b}), Sent(t+1, NoText))
  <2>1. Sent(t+1, NoText) \in SentEvents  BY <1>2, <1>5, SentType
  <2>2. out' = out  BY <1>1 DEF Take
  <2>3. Flushed({b}) \in Seq(SentEvents)  BY <1>3, <1>5, FlushedText
  <2>4. Rewritten' = out \o Append(made \o Flushed({b}), Sent(t+1, NoText))
    BY <1>9, <2>2 DEF Rewritten
  <2>5. made' \in Seq(SentEvents)  BY <1>9, <2>1, <2>3, WrittenMore, AppendProperties
  <2> QED  BY <2>1, <2>3, <2>4, <2>5, WrittenMore
<1> QED  BY <1>1, <1>8, <1>9, <1>10, EventKeeps

\* Panicking, nothing is sent for the event.
LEMMA PanicKeeps ==
  ASSUME SseTypeOK, NEW t \in 0..Len(stream), Handled(t), NEW k, Panic(k)
  PROVE  SseTypeOK' /\ Handled(t)'
<1>1. Take(k, {"scalar"})  BY DEF Panic
<1>2. Wire' = Wire /\ Size' = Size  BY <1>1, WireStays DEF Take
<1>3. /\ format' = format /\ stream' = stream /\ ending' = ending /\ pos' = pos
      /\ held' = held /\ made' = <<>> /\ out' = out /\ over' = "panicked"
  BY <1>1 DEF Take, Panic
<1>4. SseTypeOK'  BY <1>2, <1>3 DEF SseTypeOK
<1> QED  BY <1>3, <1>4 DEF Handled

\* What `rewrite_openai` sends for an index and what it holds is what there was.
LEMMA RewriteSplits ==
  ASSUME held \in Streams, NEW k \in Nat, NEW keep \in Keeps(k), NEW i \in Indices
  PROVE  LET all  == All(k, i)
             rest == SubSeq(all, Len(all) - keep[i] + 1, Len(all))
         IN /\ all = held[i] \o (IF HasText(stream[k], i) THEN <<k>> ELSE <<>>)
            /\ Freed(k, keep)[i] \in Seq(Nat) /\ rest \in Seq(Nat)
            /\ Freed(k, keep)[i] \o rest = all
            /\ Finishes(stream[k], i) => rest = <<>>
<1> DEFINE new  == IF HasText(stream[k], i) THEN <<k>> ELSE <<>>
           all  == All(k, i)
           n    == Len(all) - keep[i]
           rest == SubSeq(all, n + 1, Len(all))
<1>1. all = held[i] \o new  BY DEF All, Incoming
<1>2. held[i] \in Seq(Nat) /\ new \in Seq(Nat)
  <2>1. <<k>> \in Seq(Nat) /\ <<>> \in Seq(Nat)  OBVIOUS
  <2> QED  BY <2>1 DEF Streams
<1> HIDE DEF new
<1>3. all \in Seq(Nat) /\ Len(all) = Len(held[i]) + Len(new) /\ Len(held[i]) \in Nat /\ Len(new) \in Nat
  BY <1>1, <1>2, ConcatProperties, LenProperties
<1>4. /\ Finishes(stream[k], i) => keep[i] = 0
      /\ ~Finishes(stream[k], i) /\ HasText(stream[k], i) => keep[i] <= Len(all)
      /\ ~Finishes(stream[k], i) /\ ~HasText(stream[k], i) => keep[i] = Len(held[i])
      /\ keep[i] \in Nat
  <2>1. MaxEvents \in Nat  BY SseAssumption
  <2> QED  BY <2>1 DEF Keeps
<1>5. Freed(k, keep)[i] = SubSeq(all, 1, n)  BY DEF Freed
<1> HIDE DEF all
<1>6. Len(all) \in Nat /\ n \in 0..Len(all)  BY <1>3, <1>4
<1>7. keep[i] = 0 => n = Len(all)  BY <1>6
<1> HIDE DEF n
<1>8. SubSeq(all, 1, n) \o rest = all
  <2>1. 1 \in 1..Len(all)+1 /\ n \in 1-1..Len(all) /\ Len(all) \in n..Len(all)  BY <1>6
  <2>2. SubSeq(all, 1, n) \o SubSeq(all, n + 1, Len(all)) = SubSeq(all, 1, Len(all))
    BY <1>3, <2>1, ConcatAdjacentSubSeq
  <2>3. SubSeq(all, 1, Len(all)) = all  BY <1>3, SubSeqFull
  <2> QED  BY <2>2, <2>3
<1>9. SubSeq(all, 1, n) \in Seq(Nat) /\ rest \in Seq(Nat)
  <2>1. \A j \in 1..Len(all) : all[j] \in Nat  BY <1>3, ElementOfSeq
  <2>2. \A j \in 1..n : all[j] \in Nat  BY <1>6, <2>1
  <2>3. \A j \in n+1..Len(all) : all[j] \in Nat  BY <1>6, <2>1
  <2>4. 1 \in Int /\ n \in Int /\ n + 1 \in Int /\ Len(all) \in Int  BY <1>6
  <2>5. SubSeq(all, 1, n) \in Seq(Nat)  BY <2>2, <2>4, SubSeqProperties
  <2>6. SubSeq(all, n + 1, Len(all)) \in Seq(Nat)  BY <2>3, <2>4, SubSeqProperties
  <2> QED  BY <2>5, <2>6
<1>10. Finishes(stream[k], i) => rest = <<>>
  <2>1. n = Len(all) => n + 1 \in Int /\ Len(all) \in Int /\ Len(all) < n + 1  BY <1>6
  <2> QED  BY <1>4, <1>7, <2>1, SubSeqEmpty
<1> HIDE DEF rest
<1> QED  BY <1>1, <1>5, <1>8, <1>9, <1>10 DEF all, n, rest, new

\* An event with texts is rewritten.
LEMMA RewriteKeeps ==
  ASSUME SseTypeOK, NEW t \in 0..Len(stream), Handled(t), NEW k, Rewrite(k)
  PROVE  SseTypeOK' /\ Handled(t+1)'
<1>1. Take(k, {"chunk", "delta"})  BY DEF Rewrite
<1>2. k = t + 1 /\ t \in Nat /\ k \in Nat /\ Kept(Rewritten, held, stream, t)  BY <1>1, TakeNext
<1>3. PICK keep \in Keeps(k) :
        /\ held' = [i \in Indices |-> SubSeq(All(k, i), Len(All(k, i)) - keep[i] + 1, Len(All(k, i)))]
        /\ made' = Append(made, Sent(k, IF Changed(k, Freed(k, keep)) THEN Freed(k, keep) ELSE Incoming(k)))
  BY DEF Rewrite
<1> DEFINE text == IF Changed(k, Freed(k, keep)) THEN Freed(k, keep) ELSE Incoming(k)
<1>4. held \in Streams  BY <1>2 DEF Kept
<1>5. ASSUME NEW i \in Indices
      PROVE  /\ Freed(k, keep)[i] \in Seq(Nat) /\ held'[i] \in Seq(Nat)
             /\ Freed(k, keep)[i] \o held'[i]
                  = held[i] \o (IF HasText(stream[k], i) THEN <<k>> ELSE <<>>)
             /\ Finishes(stream[k], i) => held'[i] = <<>>
  <2>1. held'[i] = SubSeq(All(k, i), Len(All(k, i)) - keep[i] + 1, Len(All(k, i)))  BY <1>3
  <2> QED  BY <1>2, <1>4, <2>1, RewriteSplits
<1>6. DOMAIN Freed(k, keep) = Indices /\ DOMAIN Incoming(k) = Indices  BY DEF Freed, Incoming
<1>7. /\ DOMAIN text = Indices /\ text = [i \in Indices |-> text[i]]
      /\ \A i \in Indices : text[i] = Freed(k, keep)[i]
  <2>1. CASE Changed(k, Freed(k, keep))
    <3>1. text = Freed(k, keep)  BY <2>1
    <3> HIDE DEF text
    <3> QED  BY <1>6, <3>1 DEF Freed
  <2>2. CASE ~Changed(k, Freed(k, keep))
    <3>1. text = Incoming(k)  BY <2>2
    <3>2. \A i \in Indices : Freed(k, keep)[i] = Incoming(k)[i]  BY <2>2 DEF Changed
    <3> HIDE DEF text
    <3>3. Incoming(k) = [i \in Indices |-> Incoming(k)[i]]  BY DEF Incoming
    <3> QED  BY <1>6, <3>1, <3>2, <3>3
  <2> QED  BY <2>1, <2>2
<1>8. made' = Append(made, Sent(t+1, text)) /\ over' = over  BY <1>2, <1>3 DEF Rewrite
<1> HIDE DEF text
<1>9. text \in Streams  BY <1>5, <1>7 DEF Streams
<1>10. held' = [i \in Indices |-> held'[i]]  BY <1>3
<1>11. held' \in Streams  BY <1>5, <1>10 DEF Streams
<1> DEFINE h == held'
<1>12. \A i \in Indices :
         /\ text[i] \o h[i] = held[i] \o (IF HasText(stream[t+1], i) THEN <<t+1>> ELSE <<>>)
         /\ Finishes(stream[t+1], i) => h[i] = <<>>
  BY <1>2, <1>5, <1>7
<1>13. h \in Streams  BY <1>11
<1> HIDE DEF h
<1>14. Kept(Append(Rewritten, Sent(t+1, text)), h, stream, t+1)
  BY <1>2, <1>9, <1>12, <1>13, KeptSent
<1>15. made' \in Seq(SentEvents) /\ Rewritten' = Append(Rewritten, Sent(t+1, text))
  <2>1. Sent(t+1, text) \in SentEvents /\ <<>> \in Seq(SentEvents)  BY <1>2, <1>9, SentType
  <2>2. out' = out  BY <1>1 DEF Take
  <2>3. made' \in Seq(SentEvents)  BY <1>8, <2>1, AppendProperties DEF SseTypeOK
  <2>4. Rewritten' = out \o Append(made, Sent(t+1, text))  BY <1>8, <2>2 DEF Rewritten
  <2> QED  BY <2>1, <2>3, <2>4, WrittenMore
<1>16. Kept(Rewritten', held', stream, t+1)  BY <1>14, <1>15 DEF h
<1> QED  BY <1>1, <1>8, <1>15, <1>16, EventKeeps

\* The stream ends and what is held is flushed.
LEMMA FinishKeeps ==
  ASSUME SseTypeOK, NEW t \in 0..Len(stream), Handled(t), Finish
  PROVE  SseTypeOK' /\ Handled(t)'
<1>0. /\ Len(stream) \in Nat /\ DOMAIN stream = 1..Len(stream)
      /\ pos \in Nat /\ pos <= Len(Wire) /\ t \in Nat /\ (t+1) * Size \in Nat
  BY StreamLength DEF Size
<1>1. Wire' = Wire /\ Size' = Size  BY WireStays DEF Finish
<1>2. /\ Kept(Rewritten, held, stream, t) /\ over = "no" /\ EventEnds(buf) = {}
      /\ t * Size <= pos /\ buf = SubSeq(Wire, t * Size + 1, pos)
  BY DEF Finish, Idle, Handled
<1>3. pos < (t+1) * Size
  <2>1. (t+1) * Size <= pos => EventEnds(buf) # {}  BY <1>0, <1>2, BufferEvents
  <2> QED  BY <1>0, <1>2, <2>1
<1>4. NoText \in Streams /\ held \in Streams /\ \A i \in Indices : NoText[i] = <<>>
  BY <1>2 DEF NoText, Streams, Kept
<1>5. Kept(Rewritten \o Flushed(Indices), NoText, stream, t)
  <2>1. \A i \in Indices : Text(Flushed(Indices), i) \o NoText[i] = held[i]
    BY <1>4, FlushedText, ConcatEmptySeq DEF Streams
  <2> QED  BY <1>0, <1>2, <1>4, <2>1, FlushedText, KeptFlushed
<1>6. Rewritten \o Flushed(Indices) \in Seq(SentEvents)  BY <1>5 DEF Kept
<1>7. /\ format' = format /\ stream' = stream /\ ending' = ending /\ pos' = pos
      /\ out' = out \o Flushed(Indices) /\ held' = NoText /\ NoText' = NoText
      /\ tail' = buf /\ buf' = <<>> /\ over' = "finished"
      /\ made = <<>> /\ made' = <<>>
  BY DEF Finish, Idle, NoText
<1>8. out' = Rewritten \o Flushed(Indices) /\ Rewritten' = Rewritten \o Flushed(Indices)
  <2>1. Rewritten = out
    <3>1. Rewritten = out \o <<>>  BY <1>7 DEF Rewritten
    <3> QED  BY <3>1, ConcatEmptySeq DEF SseTypeOK
  <2>2. out' = Rewritten \o Flushed(Indices)  BY <1>7, <2>1
  <2>3. Rewritten' = out' \o <<>>  BY <1>7 DEF Rewritten
  <2> QED  BY <1>6, <2>2, <2>3, ConcatEmptySeq
<1>9. SseTypeOK'  BY <1>1, <1>4, <1>6, <1>7, <1>8 DEF SseTypeOK
<1> QED  BY <1>1, <1>2, <1>3, <1>5, <1>7, <1>8, <1>9 DEF Handled

\* The upstream breaks off.
LEMMA FailKeeps ==
  ASSUME SseTypeOK, NEW t \in 0..Len(stream), Handled(t), Fail
  PROVE  SseTypeOK' /\ Handled(t)'
<1>1. Wire' = Wire /\ Size' = Size  BY WireStays DEF Fail
<1>2. SseTypeOK'  BY <1>1 DEF SseTypeOK, Fail
<1> QED  BY <1>1, <1>2 DEF Handled, Fail, Idle, Rewritten

\* Nothing happens.
LEMMA SseStutterKeeps ==
  ASSUME SseTypeOK, NEW t \in 0..Len(stream), Handled(t), UNCHANGED sseVars
  PROVE  SseTypeOK' /\ Handled(t)'
<1>1. Wire' = Wire /\ Size' = Size  BY WireStays DEF sseVars
<1>2. SseTypeOK'  BY <1>1 DEF SseTypeOK, sseVars
<1> QED  BY <1>1, <1>2 DEF Handled, sseVars, Rewritten

\* What the client was given stays what was written then.
LEMMA GivenKeeps ==
  ASSUME SseIInv, [SseNext]_sseVars
  PROVE  \E t \in Nat : Given(t)'
<1>1. PICK t \in 0..Len(stream) : SseTypeOK /\ Handled(t)  BY DEF SseIInv
<1>2. t \in Nat  BY <1>1, StreamLength
<1>3. CASE Return
  <2>1. Handled(t)' /\ out' = Rewritten /\ over = "no" /\ stream' = stream /\ held' = held
    BY <1>1, <1>3, ReturnKeeps DEF Return, Rewritten
  <2>2. Kept(out', held, stream', t) /\ held \in Streams  BY <1>1, <2>1 DEF Handled, Kept
  <2> QED  BY <1>2, <2>2 DEF Given
<1>4. CASE Finish
  <2>1. /\ SseTypeOK' /\ Handled(t)' /\ made' = <<>> /\ over' = "finished" /\ stream' = stream
        /\ made = <<>>
    BY <1>1, <1>4, FinishKeeps DEF Finish, Idle
  <2>2. Rewritten' = out'
    <3>1. Rewritten' = out' \o <<>>  BY <2>1 DEF Rewritten
    <3> QED  BY <2>1, <3>1, ConcatEmptySeq DEF SseTypeOK
  <2>3. Kept(out', held', stream', t) /\ held' \in Streams  BY <2>1, <2>2 DEF Handled, Kept
  <2> QED  BY <1>2, <2>3 DEF Given
<1>5. CASE out' = out /\ stream' = stream
  <2>1. PICK u \in Nat : Given(u)  BY DEF SseIInv
  <2>2. Given(u)'  BY <1>5, <2>1 DEF Given
  <2> QED  BY <2>2
<1>6. CASE UNCHANGED sseVars  BY <1>5, <1>6 DEF sseVars
<1>7. CASE Push  BY <1>5, <1>7 DEF Push
<1>8. CASE Fail  BY <1>5, <1>8 DEF Fail
<1>9. CASE HandleEvent
  <2>1. PICK k : PassThrough(k) \/ Panic(k) \/ Done(k) \/ Rewrite(k) \/ StopBlock(k)
    BY <1>9 DEF HandleEvent
  <2>2. \E kinds : Take(k, kinds)  BY <2>1 DEF PassThrough, Panic, Done, Rewrite, StopBlock
  <2> QED  BY <1>5, <2>2 DEF Take
<1> QED  BY <1>3, <1>4, <1>6, <1>7, <1>8, <1>9 DEF SseNext

\* Every step of the redactor keeps the invariant.
LEMMA SseNextIInv == SseIInv /\ [SseNext]_sseVars => SseIInv'
<1> SUFFICES ASSUME SseIInv, [SseNext]_sseVars PROVE SseIInv'  OBVIOUS
<1>1. PICK t \in 0..Len(stream) : SseTypeOK /\ Handled(t)  BY DEF SseIInv
<1>2. ASSUME SseTypeOK', NEW u, Handled(u)' PROVE SseIInv'
  BY <1>2, GivenKeeps DEF SseIInv, Handled
<1>3. CASE Push  BY <1>1, <1>2, <1>3, PushKeeps
<1>4. CASE HandleEvent
  <2>1. PICK k : PassThrough(k) \/ Panic(k) \/ Done(k) \/ Rewrite(k) \/ StopBlock(k)
    BY <1>4 DEF HandleEvent
  <2>2. CASE PassThrough(k)  BY <1>1, <1>2, <2>2, PassThroughKeeps
  <2>3. CASE Panic(k)  BY <1>1, <1>2, <2>3, PanicKeeps
  <2>4. CASE Done(k)  BY <1>1, <1>2, <2>4, DoneKeeps
  <2>5. CASE Rewrite(k)  BY <1>1, <1>2, <2>5, RewriteKeeps
  <2>6. CASE StopBlock(k)  BY <1>1, <1>2, <2>6, StopBlockKeeps
  <2> QED  BY <2>1, <2>2, <2>3, <2>4, <2>5, <2>6
<1>5. CASE Finish  BY <1>1, <1>2, <1>5, FinishKeeps
<1>6. CASE Fail  BY <1>1, <1>2, <1>6, FailKeeps
<1>7. CASE Return  BY <1>1, <1>2, <1>7, ReturnKeeps
<1>8. CASE UNCHANGED sseVars  BY <1>1, <1>2, <1>8, SseStutterKeeps
<1> QED  BY <1>3, <1>4, <1>5, <1>6, <1>7, <1>8 DEF SseNext

\* The inductive invariant always holds.
LEMMA SseAlwaysIInv == SseSpec => []SseIInv
BY SseInitIInv, SseNextIInv, PTL DEF SseSpec

-----------------------------------------------------------------------------
(* What the invariant says.                                                *)

\* What the property calls brought is what came.
LEMMA BroughtCame ==
  ASSUME NEW i \in Indices, NEW n
  PROVE  Brought(n, i) = Came(stream, n, i)
<1>1. [k \in 1..n |-> Incoming(k)[i]]
        = [k \in 1..n |-> IF HasText(stream[k], i) THEN <<k>> ELSE <<>>]
  BY DEF Incoming
<1> QED  BY <1>1 DEF Brought, Came

\* The events that came whole, from the number of bytes.
LEMMA WholeIs ==
  ASSUME NEW t \in Nat, pos \in Nat, t * Size <= pos, pos < (t+1) * Size
  PROVE  Whole = t /\ Len(Bytes(1)) = Size
<1>1. Len(Bytes(1)) = Size  BY BytesType
<1>2. Size \in {5, 8}  BY DEF Size
<1>3. CASE Size = 5
  <2>1. t * 5 <= pos /\ pos < (t+1) * 5  BY <1>3
  <2>2. pos \div 5 = t  BY <2>1
  <2> QED  BY <1>1, <1>3, <2>2 DEF Whole
<1>4. CASE Size = 8
  <2>1. t * 8 <= pos /\ pos < (t+1) * 8  BY <1>4
  <2>2. pos \div 8 = t  BY <2>1
  <2> QED  BY <1>1, <1>4, <2>2 DEF Whole
<1> QED  BY <1>2, <1>3, <1>4

\* What was written of the upstream's events are the first.
LEMMA KeptCount ==
  ASSUME NEW o, NEW h, NEW t \in Nat, Kept(o, h, stream, t)
  PROVE  /\ Len(Originals(o)) = t /\ DOMAIN Originals(o) = 1..t
         /\ \A n \in 1..t : Originals(o)[n] = n
<1>1. Originals(o) = [n \in 1..t |-> n]  BY DEF Kept
<1> QED  BY <1>1

\* What is written when nothing waits to be returned is what the client has.
LEMMA WrittenOut ==
  ASSUME SseTypeOK, made = <<>>
  PROVE  Rewritten = out
<1>1. Rewritten = out \o <<>>  BY DEF Rewritten
<1> QED  BY <1>1, ConcatEmptySeq DEF SseTypeOK

\* The invariant gives the order of events,
LEMMA IInvEventsInOrder == SseIInv => EventsInOrder
<1> SUFFICES ASSUME SseIInv PROVE EventsInOrder  OBVIOUS
<1>1. PICK t \in 0..Len(stream) : SseTypeOK /\ Handled(t)  BY DEF SseIInv
<1>2. t \in Nat  BY <1>1, StreamLength
<1>3. \A n \in DOMAIN Originals(Rewritten) : Originals(Rewritten)[n] = n
  <2>1. CASE over = "panicked"
    <3>1. Rewritten = out  BY <1>1, <2>1, WrittenOut DEF Handled
    <3>2. PICK u \in Nat : Given(u)  BY DEF SseIInv
    <3>3. PICK h : Kept(out, h, stream, u)  BY <3>2 DEF Given
    <3> QED  BY <3>1, <3>3, KeptCount
  <2>2. CASE over # "panicked"
    <3>1. Kept(Rewritten, held, stream, t)  BY <1>1, <2>2 DEF Handled
    <3> QED  BY <1>2, <3>1, KeptCount
  <2> QED  BY <2>1, <2>2
<1>4. ASSUME EventEnds(buf) = {}, made = <<>>, over # "panicked"
      PROVE  Len(Originals(out)) = Whole
  <2>0. /\ Len(stream) \in Nat /\ DOMAIN stream = 1..Len(stream)
        /\ pos \in Nat /\ pos <= Len(Wire) /\ (t+1) * Size \in Nat
    BY <1>1, <1>2, StreamLength DEF Size
  <2>1. Len(Originals(out)) = t
    <3>1. Kept(out, held, stream, t)  BY <1>1, <1>4, WrittenOut DEF Handled
    <3> QED  BY <1>2, <3>1, KeptCount
  <2>2. CASE over \in {"no", "failed"}
    <3>1. t * Size <= pos /\ buf = SubSeq(Wire, t * Size + 1, pos)  BY <1>1, <2>2 DEF Handled
    <3>2. (t+1) * Size <= pos => EventEnds(buf) # {}  BY <1>2, <2>0, <3>1, BufferEvents
    <3>3. pos < (t+1) * Size  BY <1>4, <2>0, <3>2
    <3> QED  BY <1>2, <2>0, <2>1, <3>1, <3>3, WholeIs
  <2>3. CASE over = "finished"
    <3>1. t * Size <= pos /\ pos < (t+1) * Size  BY <1>1, <2>3 DEF Handled
    <3> QED  BY <1>2, <2>0, <2>1, <3>1, WholeIs
  <2> QED  BY <1>1, <1>4, <2>2, <2>3 DEF SseTypeOK
<1> QED  BY <1>3, <1>4 DEF EventsInOrder

\* A first part of a sequence is a prefix of it.
LEMMA FrontIsPrefix ==
  ASSUME NEW s \in Seq(Nat), NEW t \in Seq(Nat)
  PROVE  IsPrefix(s, s \o t)
<1>1. Len(s) \in Nat /\ Len(t) \in Nat /\ Len(s \o t) = Len(s) + Len(t)
  BY LenProperties, ConcatProperties
<1>2. SubSeq(s \o t, 1, Len(s)) = SubSeq(s, 1, Len(s))
  <2>1. CASE Len(s) = 0
    <3>1. SubSeq(s \o t, 1, 0) = <<>> /\ SubSeq(s, 1, 0) = <<>>  BY SubSeqEmpty
    <3> QED  BY <2>1, <3>1
  <2>2. CASE Len(s) # 0
    <3>1. 1 \in 1..Len(s) /\ Len(s) \in 1..Len(s)  BY <1>1, <2>2
    <3> QED  BY <3>1, SubSeqOfConcat1
  <2> QED  BY <2>1, <2>2
<1> QED  BY <1>1, <1>2 DEF IsPrefix

\* that no text is lost,
LEMMA IInvTextKept == SseIInv => TextKept
<1> SUFFICES ASSUME SseIInv, NEW i \in Indices
             PROVE  /\ IsPrefix(Text(out, i), Brought(Len(Originals(out)), i))
                    /\ over # "panicked" =>
                         Text(Rewritten, i) \o held[i] = Brought(Len(Originals(Rewritten)), i)
  BY DEF TextKept
<1>1. PICK t \in 0..Len(stream) : SseTypeOK /\ Handled(t)  BY DEF SseIInv
<1>2. t \in Nat  BY <1>1, StreamLength
<1>3. IsPrefix(Text(out, i), Brought(Len(Originals(out)), i))
  <2>1. PICK u \in Nat : Given(u)  BY DEF SseIInv
  <2>2. PICK h \in Streams : Kept(out, h, stream, u)  BY <2>1 DEF Given
  <2>3. /\ Len(Originals(out)) = u /\ out \in Seq(SentEvents)
        /\ Text(out, i) \o h[i] = Came(stream, u, i)
    BY <2>2, KeptCount DEF Kept
  <2>4. Text(out, i) \in Seq(Nat) /\ h[i] \in Seq(Nat)  BY <2>3, SentMore DEF Streams
  <2> QED  BY <2>3, <2>4, BroughtCame, FrontIsPrefix
<1>4. ASSUME over # "panicked"
      PROVE  Text(Rewritten, i) \o held[i] = Brought(Len(Originals(Rewritten)), i)
  <2>1. Kept(Rewritten, held, stream, t)  BY <1>1, <1>4 DEF Handled
  <2>2. Len(Originals(Rewritten)) = t  BY <1>2, <2>1, KeptCount
  <2>3. Text(Rewritten, i) \o held[i] = Came(stream, t, i)  BY <2>1 DEF Kept
  <2> QED  BY <2>2, <2>3, BroughtCame
<1> QED  BY <1>3, <1>4

\* that none comes behind its end,
LEMMA IInvTextBeforeEnd == SseIInv => TextBeforeEnd
<1> SUFFICES ASSUME SseIInv PROVE TextBeforeEnd  OBVIOUS
<1>1. InTime(out, stream)  BY DEF SseIInv, Given, Kept
<1> QED  BY <1>1, BroughtCame DEF TextBeforeEnd, InTime

\* and that nothing is held in the end.
LEMMA IInvEndedInFull == SseIInv => EndedInFull
<1> SUFFICES ASSUME SseIInv, over = "finished"
             PROVE  /\ \A i \in Indices : Text(out, i) = Brought(Whole, i)
                    /\ tail = SubSeq(Wire, Whole * Len(Bytes(1)) + 1, pos)
  BY DEF EndedInFull
<1>1. PICK t \in 0..Len(stream) : SseTypeOK /\ Handled(t)  BY DEF SseIInv
<1>2. /\ t \in Nat /\ pos \in Nat /\ out \in Seq(SentEvents)  BY <1>1, StreamLength DEF SseTypeOK
<1>3. /\ held = NoText /\ t * Size <= pos /\ pos < (t+1) * Size
      /\ tail = SubSeq(Wire, t * Size + 1, pos)
      /\ Kept(out, held, stream, t)
  <2>1. Rewritten = out  BY <1>1, WrittenOut DEF Handled
  <2> QED  BY <1>1, <2>1 DEF Handled
<1>4. Whole = t /\ Len(Bytes(1)) = Size  BY <1>2, <1>3, WholeIs
<1>5. ASSUME NEW i \in Indices PROVE Text(out, i) = Brought(t, i)
  <2>1. held[i] = <<>> /\ Text(out, i) \o held[i] = Came(stream, t, i)
    BY <1>3 DEF NoText, Kept
  <2>2. Text(out, i) \in Seq(Nat)  BY <1>2, SentMore
  <2>3. Text(out, i) \o <<>> = Text(out, i)  BY <2>2, ConcatEmptySeq
  <2> QED  BY <2>1, <2>3, BroughtCame
<1> QED  BY <1>3, <1>4, <1>5

(* The rewriter's variables keep their types: text is kept per index, the   *)
(* client gets whole events, and no more bytes come than the wire has.      *)
THEOREM SseTypes == SseSpec => []SseTypeOK
<1>1. SseIInv => SseTypeOK  BY DEF SseIInv
<1> QED  BY <1>1, SseAlwaysIInv, PTL

(* However the bytes of the upstream are split, its events are sent on once *)
(* each and in its order, and none that is whole stays in the buffer.       *)
THEOREM SseEventsInOrder == SseSpec => []EventsInOrder
BY SseAlwaysIInv, IInvEventsInOrder, PTL

(* The client only ever has a first part of an index's text, whatever the   *)
(* streaming redactors hold back, and nothing is lost unless `push` panics. *)
THEOREM SseTextKept == SseSpec => []TextKept
BY SseAlwaysIInv, IInvTextKept, PTL

(* The text of an index is with the client before it learns that no more    *)
(* comes for that index.                                                    *)
THEOREM SseTextBeforeEnd == SseSpec => []TextBeforeEnd
BY SseAlwaysIInv, IInvTextBeforeEnd, PTL

(* A response that ends with its upstream has sent all text and then the    *)
(* bytes that made no whole event.                                          *)
THEOREM SseEndedInFull == SseSpec => []EndedInFull
BY SseAlwaysIInv, IInvEndedInFull, PTL
=============================================================================
