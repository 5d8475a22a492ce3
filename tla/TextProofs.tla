----------------------------- MODULE TextProofs -----------------------------
(***************************************************************************)
(* Theorems about TextFix and SpeakText, for texts of every length: a      *)
(* repair keeps the tags and is final, the words of a text say all of it,  *)
(* markers stand where their words are, and chunks are the text.           *)
(*                                                                         *)
(* The walks over a text are recursive functions.  What they compute is    *)
(* proved by induction on the length of a prefix, with the set of lengths  *)
(* for which a statement holds in the place of the statement.              *)
(***************************************************************************)
EXTENDS SpeakText, TLAPS, WellFoundedInduction, SequenceTheorems, FiniteSetTheorems

-----------------------------------------------------------------------------
(* Induction and recursion over a prefix of the natural numbers, with sets  *)
(* and functions in the place of predicates and operators.                  *)

\* A set of natural numbers that is not empty has a least one.
LEMMA LeastNat ==
  ASSUME NEW T \in SUBSET Nat, T # {}
  PROVE  \E n \in T : \A m \in T : n <= m
<1> DEFINE R == OpToRel(<, Nat)
<1>1. IsWellFoundedOn(R, Nat)
  BY NatLessThanWellFounded
<1>2. \A x, y \in Nat : (<<x, y>> \in R) <=> (x < y)
  BY DEF OpToRel
<1>3. PICK n \in T : \A m \in T : ~ (<<m, n>> \in R)
  <2> HIDE DEF R
  <2> QED BY <1>1, WFMin
<1>4. \A m \in T : n \in Nat /\ m \in Nat /\ ~(m < n)
  BY <1>2, <1>3
<1>5. \A m \in T : n <= m
  BY <1>4
<1> QED BY <1>5

\* A set with 0 and, with every number, the next, has all numbers.
LEMMA SetInduction ==
  ASSUME NEW S, 0 \in S, \A n \in Nat : n \in S => n + 1 \in S
  PROVE  \A n \in Nat : n \in S
<1> DEFINE T == {n \in Nat : n \notin S}
<1>1. SUFFICES ASSUME T # {} PROVE FALSE
  OBVIOUS
<1>2. T \in SUBSET Nat
  OBVIOUS
<1>3. PICK n \in T : \A m \in T : n <= m
  <2> HIDE DEF T
  <2> QED BY <1>1, <1>2, LeastNat
<1>4. n # 0 /\ n \in Nat
  OBVIOUS
<1>5. n - 1 \in Nat /\ n - 1 \notin T
  BY <1>3, <1>4
<1>6. (n - 1) + 1 \in S
  BY <1>5
<1> QED BY <1>6, <1>4

\* The same up to N.
LEMMA UpToInduction ==
  ASSUME NEW N \in Nat, NEW S, 0 \in S, \A n \in 0..(N - 1) : n \in S => n + 1 \in S
  PROVE  \A n \in 0..N : n \in S
<1> DEFINE U == {n \in Nat : n <= N => n \in S}
<1>1. 0 \in U
  OBVIOUS
<1>2. \A n \in Nat : n \in U => n + 1 \in U
  OBVIOUS
<1>3. \A n \in Nat : n \in U
  <2> HIDE DEF U
  <2> QED BY <1>1, <1>2, SetInduction
<1> QED BY <1>3

\* f begins with zero and goes on by step.
Repeats(f, zero, step, N) == f[0] = zero /\ \A n \in 1..N : f[n] = step[<<f[n - 1], n>>]

\* A step that stays in X can be repeated N times.
LEMMA Recursion ==
  ASSUME NEW N \in Nat, NEW X, NEW zero \in X, NEW step \in [X \X (1..N) -> X]
  PROVE  \E f \in [0..N -> X] : Repeats(f, zero, step, N)
<1> DEFINE Good(f, k) == Repeats(f, zero, step, k)
           S == {k \in 0..N : \E f \in [0..k -> X] : Good(f, k)}
<1>1. 0 \in S
  <2>1. [i \in 0..0 |-> zero] \in [0..0 -> X] /\ Good([i \in 0..0 |-> zero], 0)
    BY DEF Repeats
  <2>2. \E h \in [0..0 -> X] : Good(h, 0)
    <3> HIDE DEF Good
    <3> QED BY <2>1
  <2> QED BY <2>2
<1>2. ASSUME NEW k \in 0..(N - 1), k \in S PROVE k + 1 \in S
  <2>1. PICK f \in [0..k -> X] : Good(f, k)
    BY <1>2
  <2> DEFINE new == step[<<f[k], k + 1>>]
             g   == [i \in 0..(k + 1) |-> IF i = k + 1 THEN new ELSE f[i]]
  <2>2. new \in X
    <3>1. <<f[k], k + 1>> \in X \X (1..N)
      OBVIOUS
    <3> QED BY <3>1
  <2>3. g \in [0..(k + 1) -> X]
    BY <2>2
  <2>4. g[k + 1] = new /\ \A i \in 0..k : g[i] = f[i]
    OBVIOUS
  <2>5. Good(g, k + 1)
    <3> HIDE DEF g
    <3>1. g[0] = zero
      BY <2>1, <2>4 DEF Repeats
    <3>2. ASSUME NEW n \in 1..(k + 1) PROVE g[n] = step[<<g[n - 1], n>>]
      <4>1. CASE n = k + 1
        <5>1. n - 1 = k /\ k \in 0..k
          BY <4>1
        <5>2. g[n] = new /\ g[n - 1] = f[k]
          BY <5>1, <4>1, <2>4
        <5> QED BY <5>2, <4>1
      <4>2. CASE n # k + 1
        <5>1. n \in 1..k /\ n - 1 \in 0..k /\ n \in 0..k
          BY <4>2
        <5>2. g[n] = f[n] /\ g[n - 1] = f[n - 1]
          BY <5>1, <2>4
        <5> QED BY <5>1, <5>2, <2>1 DEF Repeats
      <4> QED BY <4>1, <4>2
    <3> QED BY <3>1, <3>2 DEF Repeats
  <2>6. \E h \in [0..(k + 1) -> X] : Good(h, k + 1)
    <3> HIDE DEF g, Good
    <3> QED BY <2>3, <2>5
  <2> QED BY <2>6
<1>3. \A n \in 0..N : n \in S
  <2> HIDE DEF S
  <2> QED BY <1>1, <1>2, UpToInduction
<1>4. N \in S
  BY <1>3
<1> QED BY <1>4

-----------------------------------------------------------------------------
(* The two walks over a text that everything else is built from.            *)

PartNames == {"content", "escape", "escaped", "opens", "in", "closes"}

Before(part, n) == IF n = 1 THEN "content" ELSE part[n - 1]

LEMMA PartAfterType == \A before, s, n : PartAfter(before, s, n) \in PartNames
  BY DEF PartAfter, Starts, PartNames

\* Parts is the one sequence in which every character plays the part that follows the one
\* before it.
LEMMA PartsRule ==
  ASSUME NEW s \in Text
  PROVE  /\ Parts(s) \in [1..Len(s) -> PartNames]
         /\ \A n \in 1..Len(s) : Parts(s)[n] = PartAfter(Before(Parts(s), n), s, n)
<1> DEFINE N == Len(s)
           More(parts, n) == Append(parts, PartAfter(Before(parts, n), s, n))
           IsUpTo(f) == f = [n \in 0..N |-> IF n = 0 THEN <<>> ELSE More(f[n - 1], n)]
           X == Seq(PartNames)
           step == [p \in X \X (1..N) |-> More(p[1], p[2])]
           upTo == CHOOSE f : IsUpTo(f)
<1>1. N \in Nat
  BY DEF Text
<1>2. \A parts \in X : \A n : More(parts, n) \in X
  BY PartAfterType
<1>3. step \in [X \X (1..N) -> X] /\ <<>> \in X
  BY <1>2
<1>4. \A parts \in X, n \in 1..N : step[<<parts, n>>] = More(parts, n)
  OBVIOUS
<1>5. PICK g \in [0..N -> X] : g[0] = <<>> /\ \A n \in 1..N : g[n] = step[<<g[n - 1], n>>]
  <2> HIDE DEF N, X, step
  <2>1. \E g \in [0..N -> X] : Repeats(g, <<>>, step, N)
    BY <1>1, <1>3, Recursion
  <2> QED BY <2>1 DEF Repeats
<1>6. \A n \in 1..N : g[n] = More(g[n - 1], n)
  <2> HIDE DEF More, step, X, N
  <2> SUFFICES ASSUME NEW n \in 1..N PROVE g[n] = More(g[n - 1], n)
    OBVIOUS
  <2>1. n - 1 \in 0..N
    BY <1>1
  <2>2. g[n - 1] \in X
    BY <2>1, <1>5
  <2> QED BY <1>4, <1>5, <2>2
<1>7. IsUpTo(g)
  <2> HIDE DEF More, step, X, N
  <2> QED BY <1>1, <1>5, <1>6
<1>8. IsUpTo(upTo)
  <2> HIDE DEF IsUpTo
  <2> QED BY <1>7
<1>9. Parts(s) = upTo[N]
  BY DEF Parts, Before
<1>10. upTo[0] = <<>> /\ \A n \in 1..N : upTo[n] = More(upTo[n - 1], n)
  <2> HIDE DEF More, upTo, N
  <2> QED BY <1>1, <1>8
<1> DEFINE Good(p, k) == p \in X /\ Len(p) = k
                         /\ \A n \in 1..k : p[n] = PartAfter(Before(p, n), s, n)
           S == {k \in 0..N : Good(upTo[k], k)}
<1>11. 0 \in S
  <2> HIDE DEF upTo
  <2>1. Good(<<>>, 0)
    OBVIOUS
  <2> HIDE DEF Good, N
  <2> QED BY <1>1, <1>10, <2>1
<1>12. ASSUME NEW k \in 0..(N - 1), k \in S PROVE k + 1 \in S
  <2> HIDE DEF upTo
  <2> DEFINE p == upTo[k]
             q == upTo[k + 1]
  <2>1. Good(p, k)
    BY <1>12
  <2>2. q = More(p, k + 1)
    BY <1>10, <1>1
  <2> HIDE DEF p, q, N
  <2>3. q \in X /\ Len(q) = k + 1 /\ \A n \in 1..k : q[n] = p[n]
    BY <2>1, <2>2, PartAfterType, <1>1
  <2>4. q[k + 1] = PartAfter(Before(p, k + 1), s, k + 1)
    BY <2>1, <2>2, PartAfterType, <1>1
  <2>5. \A n \in 1..(k + 1) : Before(q, n) = Before(p, n)
    BY <2>3, <2>1, <1>1 DEF Before
  <2>6. ASSUME NEW n \in 1..(k + 1) PROVE q[n] = PartAfter(Before(q, n), s, n)
    <3>1. CASE n = k + 1
      BY <3>1, <2>4, <2>5
    <3>2. CASE n # k + 1
      BY <3>2, <2>1, <2>3, <2>5, <1>1
    <3> QED BY <3>1, <3>2
  <2>7. Good(q, k + 1) /\ k + 1 \in 0..N
    BY <2>3, <2>6, <1>1
  <2> QED BY <2>7 DEF q
<1>13. \A k \in 0..N : k \in S
  <2> HIDE DEF S, N
  <2> QED BY <1>1, <1>11, <1>12, UpToInduction
<1>14. Good(upTo[N], N)
  <2>1. N \in S
    <3> HIDE DEF S, N
    <3> QED BY <1>13, <1>1
  <2> HIDE DEF Good, N, upTo
  <2> QED BY <2>1
<1> QED
  <2> HIDE DEF upTo
  <2> QED BY <1>14, <1>9

\* Where no pair of backslashes and no tag is open.
Ended == {"content", "escaped", "closes"}

EndedAt(s, n) == Before(Parts(s), n + 1) \in Ended

Closed(s) == EndedAt(s, Len(s))

LEMMA PartsType ==
  ASSUME NEW s \in Text
  PROVE  /\ DOMAIN Parts(s) = 1..Len(s)
         /\ \A i \in 1..Len(s) : Parts(s)[i] \in PartNames
         /\ Len(s) \in Nat
  BY PartsRule DEF Text

\* The n characters of s from a on and those of t from b on have their backslashes at the
\* same places and begin alike; and they play the same parts.
Alike(s, a, t, b, n) ==
  /\ a + n <= Len(s) /\ b + n <= Len(t)
  /\ n > 0 => \/ EndedAt(s, a) /\ EndedAt(t, b)
              \/ Before(Parts(s), a + 1) = Before(Parts(t), b + 1)
  /\ \A i \in 1..n : /\ (s[a + i] = Backslash) <=> (t[b + i] = Backslash)
                     /\ Before(Parts(s), a + i) \in Ended => Starts(s, a + i) = Starts(t, b + i)

Agree(s, a, t, b, n) == \A i \in 1..n : Parts(s)[a + i] = Parts(t)[b + i]

LEMMA PartsAgree ==
  ASSUME NEW s \in Text, NEW t \in Text, NEW a \in Nat, NEW b \in Nat, NEW n \in Nat,
         Alike(s, a, t, b, n)
  PROVE  Agree(s, a, t, b, n)
<1> DEFINE Same(i) == Parts(s)[a + i] = Parts(t)[b + i]
           S == {k \in 0..n : k > 0 => Same(k)}
<1>1. ASSUME NEW i \in 1..n,
             \/ Before(Parts(s), a + i) \in Ended /\ Before(Parts(t), b + i) \in Ended
             \/ Before(Parts(s), a + i) = Before(Parts(t), b + i)
      PROVE  Same(i)
  <2>1. a + i \in 1..Len(s) /\ b + i \in 1..Len(t)
    BY PartsType DEF Alike
  <2>2. /\ Parts(s)[a + i] = PartAfter(Before(Parts(s), a + i), s, a + i)
        /\ Parts(t)[b + i] = PartAfter(Before(Parts(t), b + i), t, b + i)
    BY <2>1, PartsRule
  <2>3. Before(Parts(s), a + i) \in PartNames /\ Before(Parts(t), b + i) \in PartNames
    BY <2>1, PartsType DEF Before, PartNames
  <2> QED BY <1>1, <2>2, <2>3 DEF PartAfter, Ended, PartNames, Alike
<1>2. 0 \in S
  OBVIOUS
<1>3. ASSUME NEW k \in 0..(n - 1), k \in S PROVE k + 1 \in S
  <2>1. CASE k = 0
    BY <2>1, <1>1 DEF EndedAt, Alike
  <2>2. CASE k > 0
    <3>1. Same(k)
      BY <1>3, <2>2
    <3>2. Before(Parts(s), a + (k + 1)) = Parts(s)[a + k]
      BY <2>2 DEF Before
    <3>3. Before(Parts(t), b + (k + 1)) = Parts(t)[b + k]
      BY <2>2 DEF Before
    <3>4. Same(k + 1)
      <4>1. Before(Parts(s), a + (k + 1)) = Before(Parts(t), b + (k + 1)) /\ k + 1 \in 1..n
        BY <3>1, <3>2, <3>3
      <4> HIDE DEF Same
      <4> QED BY <1>1, <4>1
    <3> QED BY <3>4
  <2> QED BY <2>1, <2>2
<1>4. \A k \in 0..n : k \in S
  <2> HIDE DEF S
  <2> QED BY <1>2, <1>3, UpToInduction
<1>5. \A i \in 1..n : i \in 0..n /\ i > 0
  OBVIOUS
<1>6. \A i \in 1..n : Same(i)
  BY <1>4, <1>5
<1> QED BY <1>6 DEF Agree

\* Behind a text in which nothing is open every text plays the parts it plays alone.
LEMMA PartsConcat ==
  ASSUME NEW s \in Text, NEW t \in Text, Closed(s)
  PROVE  /\ \A i \in 1..Len(s) : Parts(s \o t)[i] = Parts(s)[i]
         /\ \A j \in 1..Len(t) : Parts(s \o t)[Len(s) + j] = Parts(t)[j]
         /\ Closed(s \o t) <=> Closed(t)
<1> DEFINE st == s \o t
<1>1. /\ st \in Text /\ Len(st) = Len(s) + Len(t) /\ Len(s) \in Nat /\ Len(t) \in Nat
      /\ \A i \in 1..Len(s) : st[i] = s[i]
      /\ \A j \in 1..Len(t) : st[Len(s) + j] = t[j]
  BY DEF Text
<1> HIDE DEF st
<1>2. ASSUME NEW i \in 1..Len(s) PROVE Parts(st)[i] = Parts(s)[i]
  <2>1. ASSUME NEW k \in 1..Len(s), Before(Parts(s), k) \in Ended
        PROVE  Starts(s, k) = Starts(st, k)
    <3>1. CASE k < Len(s)
      BY <3>1, <1>1 DEF Starts
    <3>2. CASE k = Len(s)
      <4>1. Parts(s)[k] \in Ended
        BY <3>2 DEF Closed, EndedAt, Before
      <4>2. Parts(s)[k] = Starts(s, k)
        BY <2>1, PartsRule DEF PartAfter, Ended
      <4>3. s[k] # Backslash
        BY <4>1, <4>2 DEF Starts, Ended
      <4> QED BY <4>3, <1>1 DEF Starts
    <3> QED BY <3>1, <3>2
  <2>2. Alike(s, 0, st, 0, Len(s))
    BY <2>1, <1>1 DEF Alike, Before
  <2>3. Agree(s, 0, st, 0, Len(s))
    BY <2>2, <1>1, PartsAgree
  <2> QED BY <2>3 DEF Agree
<1>3. EndedAt(st, Len(s)) /\ EndedAt(t, 0)
  BY <1>2, <1>1 DEF Closed, EndedAt, Before, Ended
<1>4. ASSUME NEW j \in 1..Len(t) PROVE Parts(st)[Len(s) + j] = Parts(t)[j]
  <2>1. \A k \in 1..Len(t) : Starts(st, Len(s) + k) = Starts(t, 0 + k)
    BY <1>1 DEF Starts
  <2>2. Alike(st, Len(s), t, 0, Len(t))
    BY <2>1, <1>1, <1>3 DEF Alike
  <2>3. Agree(st, Len(s), t, 0, Len(t))
    BY <2>2, <1>1, PartsAgree
  <2> QED BY <2>3 DEF Agree
<1>5. Closed(st) <=> Closed(t)
  <2>1. CASE Len(t) = 0
    BY <2>1, <1>1, <1>3 DEF Closed, EndedAt
  <2>2. CASE Len(t) > 0
    <3>1. Parts(st)[Len(st)] = Parts(t)[Len(t)]
      BY <2>2, <1>1, <1>4
    <3> QED BY <2>2, <3>1, <1>1 DEF Closed, EndedAt, Before
  <2> QED BY <2>1, <2>2, <1>1
<1> QED BY <1>2, <1>4, <1>5 DEF st

\* A stretch that begins and ends where nothing is open plays the parts it plays alone.
LEMMA PartsSub ==
  ASSUME NEW s \in Text, NEW a \in 0..Len(s), NEW b \in a..Len(s),
         EndedAt(s, a), EndedAt(s, b) \/ b = Len(s)
  PROVE  /\ SubSeq(s, a + 1, b) \in Text
         /\ Len(SubSeq(s, a + 1, b)) = b - a
         /\ \A i \in 1..(b - a) : /\ SubSeq(s, a + 1, b)[i] = s[a + i]
                                  /\ Parts(SubSeq(s, a + 1, b))[i] = Parts(s)[a + i]
         /\ EndedAt(s, b) => Closed(SubSeq(s, a + 1, b))
<1> DEFINE u == SubSeq(s, a + 1, b)
           n == b - a
<1>0. Len(s) \in Nat /\ a \in Nat /\ b \in Nat /\ n \in Nat
  BY DEF Text
<1>1. u \in Text /\ Len(u) = n /\ \A i \in 1..n : u[i] = s[a + i]
  <2>1. \A i \in (a + 1)..b : s[i] \in Char
    BY <1>0 DEF Text
  <2> QED BY <2>1, <1>0, SubSeqProperties DEF Text
<1> HIDE DEF u
<1>2. ASSUME NEW k \in 1..n, Before(Parts(s), a + k) \in Ended
      PROVE  Starts(s, a + k) = Starts(u, 0 + k)
  <2>1. CASE k < n
    <3>1. u[k + 1] = s[a + k + 1] /\ u[k] = s[a + k] /\ a + k < Len(s)
      BY <2>1, <1>1, <1>0
    <3> QED BY <2>1, <3>1, <1>1, <1>0 DEF Starts
  <2>2. CASE k = n /\ b = Len(s)
    BY <2>2, <1>0, <1>1 DEF Starts
  <2>3. CASE k = n /\ EndedAt(s, b)
    <3>1. Parts(s)[a + k] \in Ended
      BY <2>3, <1>0 DEF EndedAt, Before
    <3>2. Parts(s)[a + k] = Starts(s, a + k)
      BY <1>2, <1>0, PartsRule DEF PartAfter, Ended
    <3>3. s[a + k] # Backslash
      BY <3>1, <3>2 DEF Starts, Ended
    <3> QED BY <3>3, <1>1 DEF Starts
  <2> QED BY <2>1, <2>2, <2>3
<1>3. EndedAt(u, 0)
  BY DEF EndedAt, Before, Ended
<1>4. Alike(s, a, u, 0, n)
  BY <1>0, <1>1, <1>2, <1>3 DEF Alike
<1>5. \A k \in 1..n : Parts(s)[a + k] = Parts(u)[k]
  <2> HIDE DEF n
  <2>1. Agree(s, a, u, 0, n)
    BY <1>0, <1>1, <1>4, PartsAgree
  <2> QED BY <2>1 DEF Agree
<1>6. ASSUME EndedAt(s, b) PROVE Closed(u)
  <2>1. CASE n = 0
    BY <2>1, <1>1, <1>3 DEF Closed
  <2>2. CASE n > 0
    <3>1. Parts(u)[n] = Parts(s)[b]
      BY <2>2, <1>0, <1>5
    <3> QED BY <2>2, <3>1, <1>6, <1>0, <1>1 DEF Closed, EndedAt, Before
  <2> QED BY <2>1, <2>2, <1>0
<1> QED BY <1>1, <1>5, <1>6 DEF u


-----------------------------------------------------------------------------
(* The characters of a text at some of its positions.                       *)

\* f has what is kept of the first characters of s.
KeepsUpTo(f, s, K) ==
  f[0] = <<>> /\ \A n \in 1..Len(s) : f[n] = IF n \in K THEN Append(f[n - 1], s[n]) ELSE f[n - 1]

\* Kept is Append at the positions kept.
LEMMA KeptRule ==
  ASSUME NEW s \in Text, NEW K
  PROVE  \E f \in [0..Len(s) -> Text] : KeepsUpTo(f, s, K) /\ Kept(s, K) = f[Len(s)]
<1> DEFINE N == Len(s)
           More(sofar, n) == IF n \in K THEN Append(sofar, s[n]) ELSE sofar
           IsUpTo(f) == f = [n \in 0..N |-> IF n = 0 THEN <<>> ELSE More(f[n - 1], n)]
           step == [p \in Text \X (1..N) |-> More(p[1], p[2])]
           upTo == CHOOSE f : IsUpTo(f)
<1>1. N \in Nat /\ \A n \in 1..N : s[n] \in Char
  BY DEF Text
<1>2. \A sofar \in Text, n \in 1..N : More(sofar, n) \in Text
  BY <1>1, AppendProperties DEF Text
<1>3. step \in [Text \X (1..N) -> Text] /\ <<>> \in Text
  BY <1>2 DEF Text
<1>4. \A sofar \in Text, n \in 1..N : step[<<sofar, n>>] = More(sofar, n)
  OBVIOUS
<1>5. PICK g \in [0..N -> Text] : Repeats(g, <<>>, step, N)
  <2> HIDE DEF N, step
  <2> QED BY <1>1, <1>3, Recursion
<1>6. \A n \in 1..N : g[n] = More(g[n - 1], n)
  <2> HIDE DEF More, step, N
  <2> SUFFICES ASSUME NEW n \in 1..N PROVE g[n] = More(g[n - 1], n)
    OBVIOUS
  <2>1. n - 1 \in 0..N
    BY <1>1
  <2>2. g[n - 1] \in Text
    BY <2>1, <1>5
  <2> QED BY <1>4, <1>5, <2>2 DEF Repeats
<1>7. IsUpTo(g)
  <2> HIDE DEF More, step, N
  <2> QED BY <1>1, <1>5, <1>6 DEF Repeats
<1>8. IsUpTo(upTo)
  <2> HIDE DEF IsUpTo
  <2> QED BY <1>7
<1>9. Kept(s, K) = upTo[N]
  BY DEF Kept
<1>10. upTo[0] = <<>> /\ (\A n \in 1..N : upTo[n] = More(upTo[n - 1], n)) /\ DOMAIN upTo = 0..N
  <2> HIDE DEF More, upTo, N
  <2> QED BY <1>1, <1>8
<1>11. \A n \in 0..N : upTo[n] \in Text
  <2> DEFINE S == {n \in 0..N : upTo[n] \in Text}
  <2> HIDE DEF More, upTo, N
  <2>1. 0 \in S
    BY <1>1, <1>3, <1>10
  <2>2. \A n \in 0..(N - 1) : n \in S => n + 1 \in S
    BY <1>1, <1>2, <1>10
  <2>3. \A n \in 0..N : n \in S
    <3> HIDE DEF S
    <3> QED BY <1>1, <2>1, <2>2, UpToInduction
  <2> QED BY <2>3
<1>12. upTo \in [0..N -> Text]
  <2> HIDE DEF More, N
  <2>1. upTo = [n \in 0..N |-> IF n = 0 THEN <<>> ELSE More(upTo[n - 1], n)]
    BY <1>8
  <2> HIDE DEF upTo
  <2>2. upTo = [n \in 0..N |-> upTo[n]]
    BY <2>1, Zenon
  <2> QED BY <1>11, <2>2
<1> QED
  <2> HIDE DEF upTo, IsUpTo
  <2>1. KeepsUpTo(upTo, s, K)
    BY <1>10 DEF KeepsUpTo
  <2> QED BY <1>9, <1>12, <2>1


LEMMA KeptType == ASSUME NEW s \in Text, NEW K PROVE Kept(s, K) \in Text
<1>1. Len(s) \in Nat
  BY DEF Text
<1> QED BY <1>1, KeptRule

LEMMA KeptEmpty == \A K : Kept(<<>>, K) = <<>>
<1>1. <<>> \in Text /\ Len(<<>>) = 0
  BY DEF Text
<1> QED BY <1>1, KeptRule

LEMMA KeptAppend ==
  ASSUME NEW s \in Text, NEW c \in Char, NEW K
  PROVE  Kept(Append(s, c), K) = IF Len(s) + 1 \in K THEN Append(Kept(s, K), c) ELSE Kept(s, K)
<1> DEFINE t == Append(s, c)
           N == Len(s)
<1>1. t \in Text /\ Len(t) = N + 1 /\ t[N + 1] = c /\ N \in Nat /\ \A n \in 1..N : t[n] = s[n]
  <2>1. s \in Seq(Char)
    BY DEF Text
  <2>2. N \in Nat
    BY <2>1
  <2> QED BY <2>1, <2>2, AppendProperties DEF Text
<1> HIDE DEF t
<1>2. PICK f \in [0..N -> Text] : KeepsUpTo(f, s, K) /\ Kept(s, K) = f[N]
  BY KeptRule
<1>3. PICK g \in [0..Len(t) -> Text] : KeepsUpTo(g, t, K) /\ Kept(t, K) = g[Len(t)]
  BY <1>1, KeptRule
<1> DEFINE S == {n \in 0..N : f[n] = g[n]}
<1> HIDE DEF N
<1>4. 0 \in S
  BY <1>1, <1>2, <1>3 DEF KeepsUpTo
<1>5. ASSUME NEW n \in 0..(N - 1), n \in S PROVE n + 1 \in S
  <2>1. f[n] = g[n] /\ n + 1 \in 1..N /\ n + 1 \in 1..Len(t) /\ t[n + 1] = s[n + 1] /\ (n + 1) - 1 = n
    BY <1>1, <1>5
  <2>2. f[n + 1] = IF n + 1 \in K THEN Append(f[n], s[n + 1]) ELSE f[n]
    BY <2>1, <1>2 DEF KeepsUpTo, N
  <2>3. g[n + 1] = IF n + 1 \in K THEN Append(g[n], t[n + 1]) ELSE g[n]
    BY <2>1, <1>3 DEF KeepsUpTo
  <2> QED BY <2>1, <2>2, <2>3
<1>6. \A n \in 0..N : n \in S
  <2> HIDE DEF S
  <2> QED BY <1>1, <1>4, <1>5, UpToInduction
<1>7. f[N] = g[N]
  BY <1>1, <1>6
<1>8. g[N + 1] = IF N + 1 \in K THEN Append(g[N], t[N + 1]) ELSE g[N]
  <2>1. N + 1 \in 1..Len(t) /\ (N + 1) - 1 = N
    BY <1>1
  <2> QED BY <2>1, <1>3 DEF KeepsUpTo
<1> QED BY <1>1, <1>2, <1>3, <1>7, <1>8 DEF t, N

\* A text is its beginning of n characters and the next.
LEMMA Prefix ==
  ASSUME NEW t \in Text, NEW n \in 0..(Len(t) - 1)
  PROVE  /\ SubSeq(t, 1, n) \in Text /\ Len(SubSeq(t, 1, n)) = n
         /\ t[n + 1] \in Char
         /\ SubSeq(t, 1, n + 1) = Append(SubSeq(t, 1, n), t[n + 1])
<1>1. Len(t) \in Nat /\ \A i \in 1..Len(t) : t[i] \in Char
  BY DEF Text
<1>2. /\ SubSeq(t, 1, n) \in Text /\ Len(SubSeq(t, 1, n)) = n
      /\ \A i \in 1..n : SubSeq(t, 1, n)[i] = t[i]
  BY <1>1, SubSeqProperties DEF Text
<1>3. /\ SubSeq(t, 1, n + 1) \in Text /\ Len(SubSeq(t, 1, n + 1)) = n + 1
      /\ \A i \in 1..(n + 1) : SubSeq(t, 1, n + 1)[i] = t[i]
  BY <1>1, SubSeqProperties DEF Text
<1> DEFINE u == SubSeq(t, 1, n)
           v == SubSeq(t, 1, n + 1)
<1> HIDE DEF u, v
<1>4. t[n + 1] \in Char
  BY <1>1
<1>5. /\ Append(u, t[n + 1]) \in Text /\ Len(Append(u, t[n + 1])) = n + 1
      /\ \A i \in 1..(n + 1) : Append(u, t[n + 1])[i] = t[i]
  BY <1>2, <1>4, AppendProperties DEF Text, u
<1>6. v = Append(u, t[n + 1])
  BY <1>3, <1>5, SeqEqual DEF Text, v
<1> QED BY <1>2, <1>4, <1>6 DEF u, v

LEMMA WholePrefix ==
  ASSUME NEW t \in Text
  PROVE  SubSeq(t, 1, 0) = <<>> /\ SubSeq(t, 1, Len(t)) = t /\ Len(t) \in Nat
  BY SubSeqFull, SubSeqEmpty DEF Text

LEMMA KeptPrefix ==
  ASSUME NEW s \in Text, NEW K, NEW n \in 0..(Len(s) - 1)
  PROVE  /\ Kept(SubSeq(s, 1, n), K) \in Text
         /\ Kept(SubSeq(s, 1, n + 1), K) =
              IF n + 1 \in K THEN Append(Kept(SubSeq(s, 1, n), K), s[n + 1])
              ELSE Kept(SubSeq(s, 1, n), K)
<1> DEFINE u == SubSeq(s, 1, n)
           c == s[n + 1]
<1>1. u \in Text /\ Len(u) = n /\ c \in Char /\ SubSeq(s, 1, n + 1) = Append(u, c)
  BY Prefix
<1> HIDE DEF u, c
<1>2. Kept(Append(u, c), K) = IF n + 1 \in K THEN Append(Kept(u, K), c) ELSE Kept(u, K)
  BY <1>1, KeptAppend
<1>3. Kept(u, K) \in Text
  BY <1>1, KeptType
<1> QED BY <1>1, <1>2, <1>3 DEF u, c

LEMMA ConcatAppend ==
  ASSUME NEW S, NEW s \in Seq(S), NEW t \in Seq(S), NEW c \in S
  PROVE  s \o Append(t, c) = Append(s \o t, c)
<1>1. /\ s \o t \in Seq(S) /\ Append(t, c) \in Seq(S) /\ <<c>> \in Seq(S)
      /\ Append(t, c) = t \o <<c>> /\ Append(s \o t, c) = (s \o t) \o <<c>>
  BY AppendIsConcat, AppendProperties, ConcatProperties
<1> QED BY <1>1, ConcatAssociative

LEMMA KeptConcat ==
  ASSUME NEW s \in Text, NEW t \in Text, NEW K, NEW L,
         \A j \in 1..Len(t) : Len(s) + j \in K <=> j \in L
  PROVE  Kept(s \o t, K) = Kept(s, K) \o Kept(t, L)
<1> DEFINE u(n) == SubSeq(t, 1, n)
           Good(n) == Kept(s \o u(n), K) = Kept(s, K) \o Kept(u(n), L)
           S == {n \in 0..Len(t) : Good(n)}
<1>1. Kept(s, K) \in Text /\ Len(t) \in Nat /\ Len(s) \in Nat
  BY KeptType DEF Text
<1>2. 0 \in S
  <2>1. s \o <<>> = s /\ Kept(s, K) \o <<>> = Kept(s, K)
    BY <1>1 DEF Text
  <2>2. Good(0)
    BY <2>1, WholePrefix, KeptEmpty
  <2> QED BY <2>2, <1>1
<1>3. ASSUME NEW n \in 0..(Len(t) - 1), n \in S PROVE n + 1 \in S
  <2> DEFINE v == u(n)
             c == t[n + 1]
  <2>1. v \in Text /\ Len(v) = n /\ c \in Char /\ u(n + 1) = Append(v, c)
    BY Prefix
  <2>2. Kept(s \o v, K) = Kept(s, K) \o Kept(v, L)
    BY <1>3
  <2> HIDE DEF v, c, u
  <2>3. s \o v \in Text /\ Len(s \o v) = Len(s) + n /\ Kept(v, L) \in Text
    BY <2>1, KeptType DEF Text
  <2>4. s \o Append(v, c) = Append(s \o v, c)
    BY <2>1, ConcatAppend DEF Text
  <2>5. Kept(Append(s \o v, c), K) =
          IF Len(s) + n + 1 \in K THEN Append(Kept(s \o v, K), c) ELSE Kept(s \o v, K)
    BY <2>1, <2>3, KeptAppend
  <2>6. Kept(Append(v, c), L) = IF n + 1 \in L THEN Append(Kept(v, L), c) ELSE Kept(v, L)
    BY <2>1, KeptAppend
  <2>7. Len(s) + n + 1 \in K <=> n + 1 \in L
    <3>1. n + 1 \in 1..Len(t) /\ Len(s) + n + 1 = Len(s) + (n + 1)
      BY <1>1
    <3> QED BY <3>1
  <2>8. Kept(s, K) \o Append(Kept(v, L), c) = Append(Kept(s, K) \o Kept(v, L), c)
    <3> DEFINE p == Kept(s, K)
               q == Kept(v, L)
    <3>1. p \in Seq(Char) /\ q \in Seq(Char) /\ c \in Char
      BY <1>1, <2>1, <2>3 DEF Text
    <3> HIDE DEF p, q
    <3>2. p \o Append(q, c) = Append(p \o q, c)
      BY <3>1, ConcatAppend
    <3> QED BY <3>2 DEF p, q
  <2>9. Good(n + 1)
    BY <2>1, <2>2, <2>4, <2>5, <2>6, <2>7, <2>8
  <2> QED BY <2>9, <1>1
<1>4. \A n \in 0..Len(t) : n \in S
  <2> HIDE DEF S
  <2> QED BY <1>1, <1>2, <1>3, UpToInduction
<1>5. Good(Len(t))
  <2> HIDE DEF Good
  <2> QED BY <1>4, <1>1
<1> QED BY <1>5, WholePrefix


\* What is kept depends on the positions kept and on what stands there.
LEMMA KeptSame ==
  ASSUME NEW s \in Text, NEW t \in Text, NEW K, NEW L, Len(s) = Len(t),
         \A i \in 1..Len(s) : (i \in K <=> i \in L) /\ (i \in K => s[i] = t[i])
  PROVE  Kept(s, K) = Kept(t, L)
<1> DEFINE S == {n \in 0..Len(s) : Kept(SubSeq(s, 1, n), K) = Kept(SubSeq(t, 1, n), L)}
<1>1. Len(s) \in Nat
  BY DEF Text
<1>2. 0 \in S
  <2>1. SubSeq(s, 1, 0) = SubSeq(t, 1, 0) /\ SubSeq(s, 1, 0) = <<>>
    BY WholePrefix
  <2>2. Kept(SubSeq(s, 1, 0), K) = Kept(SubSeq(t, 1, 0), L)
    BY <2>1, KeptEmpty
  <2> QED BY <1>1, <2>2
<1>3. ASSUME NEW n \in 0..(Len(s) - 1), n \in S PROVE n + 1 \in S
  <2>1. n + 1 \in 1..Len(s)
    BY <1>1
  <2>2. Kept(SubSeq(s, 1, n + 1), K) =
          IF n + 1 \in K THEN Append(Kept(SubSeq(s, 1, n), K), s[n + 1])
          ELSE Kept(SubSeq(s, 1, n), K)
    BY KeptPrefix
  <2>3. Kept(SubSeq(t, 1, n + 1), L) =
          IF n + 1 \in L THEN Append(Kept(SubSeq(t, 1, n), L), t[n + 1])
          ELSE Kept(SubSeq(t, 1, n), L)
    BY KeptPrefix
  <2>4. Kept(SubSeq(s, 1, n + 1), K) = Kept(SubSeq(t, 1, n + 1), L)
    BY <1>3, <2>1, <2>2, <2>3
  <2> QED BY <2>1, <2>4
<1>4. \A n \in 0..Len(s) : n \in S
  <2> HIDE DEF S
  <2> QED BY <1>1, <1>2, <1>3, UpToInduction
<1>5. Len(s) \in S
  <2> HIDE DEF S
  <2> QED BY <1>1, <1>4
<1>6. SubSeq(s, 1, Len(s)) = s /\ SubSeq(t, 1, Len(s)) = t
  BY WholePrefix
<1> QED BY <1>5, <1>6

LEMMA KeptNone ==
  ASSUME NEW s \in Text, NEW K, \A i \in 1..Len(s) : i \notin K
  PROVE  Kept(s, K) = <<>>
<1>1. Kept(s, K) = Kept(s, {})
  BY KeptSame
<1> DEFINE S == {n \in 0..Len(s) : Kept(SubSeq(s, 1, n), {}) = <<>>}
<1>2. Len(s) \in Nat
  BY DEF Text
<1>3. 0 \in S
  <2>1. Kept(SubSeq(s, 1, 0), {}) = <<>>
    BY WholePrefix, KeptEmpty
  <2> QED BY <1>2, <2>1
<1>4. ASSUME NEW n \in 0..(Len(s) - 1), n \in S PROVE n + 1 \in S
  <2>1. Kept(SubSeq(s, 1, n + 1), {}) =
          IF n + 1 \in {} THEN Append(Kept(SubSeq(s, 1, n), {}), s[n + 1])
          ELSE Kept(SubSeq(s, 1, n), {})
    BY KeptPrefix
  <2> QED BY <1>2, <1>4, <2>1
<1>5. \A n \in 0..Len(s) : n \in S
  <2> HIDE DEF S
  <2> QED BY <1>2, <1>3, <1>4, UpToInduction
<1>6. Len(s) \in S
  <2> HIDE DEF S
  <2> QED BY <1>2, <1>5
<1> QED BY <1>1, <1>6, WholePrefix

\* Something is kept only if a position is.
LEMMA KeptSome ==
  ASSUME NEW s \in Text, NEW K, NEW i \in 1..Len(s), i \in K
  PROVE  Kept(s, K) # <<>>
<1> DEFINE S == {n \in 0..Len(s) : n >= i => Kept(SubSeq(s, 1, n), K) # <<>>}
<1>1. Len(s) \in Nat
  BY DEF Text
<1>2. 0 \in S
  BY <1>1
<1>3. ASSUME NEW n \in 0..(Len(s) - 1), n \in S PROVE n + 1 \in S
  <2> DEFINE p == Kept(SubSeq(s, 1, n), K)
             c == s[n + 1]
  <2>1. p \in Text /\ Kept(SubSeq(s, 1, n + 1), K) = IF n + 1 \in K THEN Append(p, c) ELSE p
    BY KeptPrefix
  <2>2. n >= i => p # <<>>
    BY <1>3
  <2>3. n + 1 \in 0..Len(s) /\ (n + 1 >= i => n >= i \/ n + 1 = i) /\ c \in Char
    BY <1>1 DEF Text
  <2> HIDE DEF p, c
  <2>4. Append(p, c) # <<>>
    BY <2>1, <2>3, AppendProperties DEF Text
  <2>5. n + 1 >= i => Kept(SubSeq(s, 1, n + 1), K) # <<>>
    BY <2>1, <2>2, <2>3, <2>4
  <2> QED BY <2>5, <2>3
<1>4. \A n \in 0..Len(s) : n \in S
  <2> HIDE DEF S
  <2> QED BY <1>1, <1>2, <1>3, UpToInduction
<1>5. Len(s) \in S
  <2> HIDE DEF S
  <2> QED BY <1>1, <1>4
<1>6. Kept(SubSeq(s, 1, Len(s)), K) # <<>>
  BY <1>1, <1>5
<1> QED BY <1>6, WholePrefix

-----------------------------------------------------------------------------
(* Texts one after the other.                                               *)

JoinsUpTo(f, q) == f[0] = <<>> /\ \A n \in 1..Len(q) : f[n] = f[n - 1] \o q[n]

LEMMA FlattenRule ==
  ASSUME NEW q \in Seq(Text)
  PROVE  \E f \in [0..Len(q) -> Text] : JoinsUpTo(f, q) /\ FlattenSeq(q) = f[Len(q)]
<1> DEFINE N == Len(q)
           IsFlat(h) == h = [i \in 1..N |-> IF i = 1 THEN q[i] ELSE h[i - 1] \o q[i]]
           step == [p \in Text \X (1..N) |-> p[1] \o q[p[2]]]
           flatten == CHOOSE h : IsFlat(h)
<1>1. N \in Nat /\ (\A n \in 1..N : q[n] \in Text) /\ <<>> \in Text
  BY DEF Text
<1>2. \A sofar \in Text, n \in 1..N : sofar \o q[n] \in Text
  BY <1>1, ConcatProperties DEF Text
<1>3. step \in [Text \X (1..N) -> Text]
  BY <1>2
<1>4. \A sofar \in Text, n \in 1..N : step[<<sofar, n>>] = sofar \o q[n]
  OBVIOUS
<1>5. PICK f \in [0..N -> Text] : Repeats(f, <<>>, step, N)
  <2> HIDE DEF N, step
  <2> QED BY <1>1, <1>3, Recursion
<1>6. f[0] = <<>> /\ \A n \in 1..N : f[n] = f[n - 1] \o q[n]
  <2> HIDE DEF step, N
  <2> SUFFICES ASSUME NEW n \in 1..N PROVE f[n] = f[n - 1] \o q[n]
    BY <1>5 DEF Repeats
  <2>1. n - 1 \in 0..N
    BY <1>1
  <2>2. f[n - 1] \in Text
    BY <2>1, <1>5
  <2> QED BY <1>4, <1>5, <2>2 DEF Repeats
<1> DEFINE h == [i \in 1..N |-> f[i]]
<1>7. IsFlat(h)
  <2> HIDE DEF step, N
  <2>1. ASSUME NEW i \in 1..N PROVE h[i] = IF i = 1 THEN q[i] ELSE h[i - 1] \o q[i]
    <3>1. CASE i = 1
      <4>1. <<>> \o q[i] = q[i] /\ i - 1 = 0
        BY <3>1, <1>1, ConcatEmptySeq DEF Text
      <4> QED BY <4>1, <3>1, <1>6
    <3>2. CASE i # 1
      <4>1. i - 1 \in 1..N
        BY <3>2, <1>1
      <4>2. h[i] = f[i] /\ h[i - 1] = f[i - 1]
        BY <4>1
      <4> HIDE DEF h
      <4> QED BY <4>2, <3>2, <1>6
    <3> QED BY <3>1, <3>2
  <2> QED BY <2>1
<1>8. IsFlat(flatten)
  <2> HIDE DEF IsFlat, h
  <2> QED BY <1>7
<1>9. CASE N = 0
  <2>1. FlattenSeq(q) = q /\ q = <<>>
    BY <1>9 DEF FlattenSeq
  <2> QED BY <2>1, <1>6, <1>9 DEF JoinsUpTo
<1>10. CASE N # 0
  <2>1. FlattenSeq(q) = flatten[N]
    BY <1>10 DEF FlattenSeq
  <2> DEFINE S == {n \in 0..N : n > 0 => flatten[n] = f[n]}
  <2>2. \A i \in 1..N : flatten[i] = IF i = 1 THEN q[i] ELSE flatten[i - 1] \o q[i]
    <3> HIDE DEF flatten, N
    <3> QED BY <1>8
  <2>3. 0 \in S
    BY <1>1
  <2>4. ASSUME NEW n \in 0..(N - 1), n \in S PROVE n + 1 \in S
    <3> HIDE DEF flatten, N, IsFlat
    <3>1. n + 1 \in 1..N /\ (n + 1) - 1 = n
      BY <1>1
    <3>2. f[n + 1] = f[n] \o q[n + 1]
      BY <3>1, <1>6
    <3>3. CASE n = 0
      <4>1. <<>> \o q[1] = q[1]
        BY <3>1, <3>3, <1>1, ConcatEmptySeq DEF Text
      <4> QED BY <4>1, <3>1, <3>2, <3>3, <2>2, <1>6
    <3>4. CASE n # 0
      <4>1. flatten[n] = f[n] /\ n + 1 # 1
        BY <3>4, <2>4
      <4>2. flatten[n + 1] = flatten[n] \o q[n + 1]
        BY <3>1, <4>1, <2>2
      <4>3. n + 1 \in 0..N /\ flatten[n + 1] = f[n + 1]
        BY <3>1, <3>2, <4>1, <4>2, <1>1
      <4> QED BY <4>3
    <3> QED BY <3>3, <3>4
  <2>5. \A n \in 0..N : n \in S
    <3> HIDE DEF S, N
    <3> QED BY <1>1, <2>3, <2>4, UpToInduction
  <2>6. flatten[N] = f[N]
    <3> HIDE DEF flatten, N
    <3> QED BY <1>1, <1>10, <2>5
  <2> HIDE DEF flatten
  <2> QED BY <2>1, <2>6, <1>6 DEF JoinsUpTo
<1> QED BY <1>9, <1>10


LEMMA FlattenType == ASSUME NEW q \in Seq(Text) PROVE FlattenSeq(q) \in Text
<1>1. Len(q) \in Nat
  OBVIOUS
<1> QED BY <1>1, FlattenRule

LEMMA FlattenEmpty == FlattenSeq(<<>>) = <<>>
  BY DEF FlattenSeq

LEMMA FlattenAppend ==
  ASSUME NEW q \in Seq(Text), NEW t \in Text
  PROVE  FlattenSeq(Append(q, t)) = FlattenSeq(q) \o t
<1> DEFINE r == Append(q, t)
           N == Len(q)
<1>1. r \in Seq(Text) /\ Len(r) = N + 1 /\ r[N + 1] = t /\ N \in Nat /\ \A n \in 1..N : r[n] = q[n]
  BY AppendProperties
<1> HIDE DEF r
<1>2. PICK f \in [0..N -> Text] : JoinsUpTo(f, q) /\ FlattenSeq(q) = f[N]
  BY FlattenRule
<1>3. PICK g \in [0..Len(r) -> Text] : JoinsUpTo(g, r) /\ FlattenSeq(r) = g[Len(r)]
  BY <1>1, FlattenRule
<1> DEFINE S == {n \in 0..N : f[n] = g[n]}
<1>4. 0 \in S
  BY <1>1, <1>2, <1>3 DEF JoinsUpTo
<1>5. ASSUME NEW n \in 0..(N - 1), n \in S PROVE n + 1 \in S
  <2>1. /\ f[n] = g[n] /\ n + 1 \in 1..Len(q) /\ n + 1 \in 1..Len(r) /\ r[n + 1] = q[n + 1]
        /\ (n + 1) - 1 = n
    BY <1>1, <1>5
  <2>2. f[n + 1] = f[n] \o q[n + 1] /\ g[n + 1] = g[n] \o r[n + 1]
    BY <2>1, <1>2, <1>3 DEF JoinsUpTo
  <2>3. n + 1 \in 0..N /\ f[n + 1] = g[n + 1]
    BY <2>1, <2>2, <1>1
  <2> QED BY <2>3
<1>6. \A n \in 0..N : n \in S
  <2> HIDE DEF S, N
  <2> QED BY <1>1, <1>4, <1>5, UpToInduction
<1>7. f[N] = g[N]
  <2> HIDE DEF N
  <2> QED BY <1>1, <1>6
<1>8. g[N + 1] = g[N] \o r[N + 1]
  <2>1. N + 1 \in 1..Len(r) /\ (N + 1) - 1 = N
    BY <1>1
  <2> HIDE DEF N
  <2> QED BY <2>1, <1>3 DEF JoinsUpTo
<1> QED BY <1>1, <1>2, <1>3, <1>7, <1>8 DEF r, N


-----------------------------------------------------------------------------
(* What a part of a text consists of.                                       *)

Chosen(s, parts, C) == {i \in 1..Len(s) : Parts(s)[i] \in parts /\ s[i] \in C}

LEMMA ThoseAreKept == \A s, parts, C : Those(s, parts, C) = Kept(s, Chosen(s, parts, C))
  BY DEF Those, Chosen

LEMMA ThoseType == ASSUME NEW s \in Text, NEW parts, NEW C PROVE Those(s, parts, C) \in Text
  BY ThoseAreKept, KeptType

\* Texts that differ only where other parts are played have the same characters in these.
LEMMA ThoseSame ==
  ASSUME NEW s \in Text, NEW t \in Text, NEW parts, NEW C, Len(s) = Len(t),
         \A i \in 1..Len(s) : /\ Parts(s)[i] = Parts(t)[i]
                              /\ Parts(s)[i] \in parts => s[i] = t[i]
  PROVE  Those(s, parts, C) = Those(t, parts, C)
<1> DEFINE K == Chosen(s, parts, C)
           L == Chosen(t, parts, C)
<1>1. \A i \in 1..Len(s) : (i \in K <=> i \in L) /\ (i \in K => s[i] = t[i])
  BY DEF Chosen
<1> HIDE DEF K, L
<1>2. Kept(s, K) = Kept(t, L)
  BY <1>1, KeptSame
<1> QED BY <1>2, ThoseAreKept DEF K, L

LEMMA ThoseNone ==
  ASSUME NEW s \in Text, NEW parts, NEW C,
         \A i \in 1..Len(s) : Parts(s)[i] \in parts => s[i] \notin C
  PROVE  Those(s, parts, C) = <<>>
<1>1. \A i \in 1..Len(s) : i \notin Chosen(s, parts, C)
  BY DEF Chosen
<1> QED BY <1>1, KeptNone, ThoseAreKept

LEMMA ThoseSome ==
  ASSUME NEW s \in Text, NEW parts, NEW C, NEW i \in 1..Len(s),
         Parts(s)[i] \in parts, s[i] \in C
  PROVE  Those(s, parts, C) # <<>>
<1>1. i \in Chosen(s, parts, C)
  BY DEF Chosen
<1> QED BY <1>1, KeptSome, ThoseAreKept

\* Behind a text in which nothing is open the characters of the next follow.
LEMMA ThoseConcat ==
  ASSUME NEW s \in Text, NEW t \in Text, NEW parts, NEW C, Closed(s)
  PROVE  Those(s \o t, parts, C) = Those(s, parts, C) \o Those(t, parts, C)
<1> DEFINE st == s \o t
           K == Chosen(st, parts, C)
           L == Chosen(t, parts, C)
           M == Chosen(s, parts, C)
<1>1. /\ st \in Text /\ Len(st) = Len(s) + Len(t) /\ Len(s) \in Nat /\ Len(t) \in Nat
      /\ \A i \in 1..Len(s) : st[i] = s[i]
      /\ \A j \in 1..Len(t) : st[Len(s) + j] = t[j]
  BY DEF Text
<1>2. /\ \A i \in 1..Len(s) : Parts(st)[i] = Parts(s)[i]
      /\ \A j \in 1..Len(t) : Parts(st)[Len(s) + j] = Parts(t)[j]
  BY PartsConcat
<1> HIDE DEF st
<1>3. \A j \in 1..Len(t) : Len(s) + j \in K <=> j \in L
  BY <1>1, <1>2 DEF Chosen
<1>4. \A i \in 1..Len(s) : (i \in K <=> i \in M) /\ (i \in K => s[i] = s[i])
  BY <1>1, <1>2 DEF Chosen
<1> HIDE DEF K, L, M
<1>5. Kept(st, K) = Kept(s, K) \o Kept(t, L)
  BY <1>3, KeptConcat DEF st
<1>6. Kept(s, K) = Kept(s, M)
  BY <1>4, KeptSame
<1> QED BY <1>5, <1>6, ThoseAreKept DEF K, L, M, st

-----------------------------------------------------------------------------
(* The last content of a text.                                              *)

\* A set of whole numbers with bounds has a greatest if it is not empty.
LEMMA MaxRule ==
  ASSUME NEW b \in Nat, NEW S \in SUBSET (0..b), S # {}
  PROVE  Max(S) \in S /\ \A x \in S : x <= Max(S)
<1> DEFINE T == {b - x : x \in S}
<1>1. T \in SUBSET Nat /\ T # {}
  <2>1. \A x \in S : x \in 0..b /\ b - x \in Nat
    OBVIOUS
  <2>2. PICK x \in S : TRUE
    OBVIOUS
  <2>3. b - x \in T
    OBVIOUS
  <2> QED BY <2>1, <2>3
<1>2. PICK n \in T : \A m \in T : n <= m
  <2> HIDE DEF T
  <2> QED BY <1>1, LeastNat
<1>3. PICK x \in S : n = b - x
  BY <1>2
<1>4. \A y \in S : b - x <= b - y
  BY <1>2, <1>3
<1>5. \A y \in S : x >= y
  <2>1. \A y \in S : x \in 0..b /\ y \in 0..b
    OBVIOUS
  <2> QED BY <1>4, <2>1
<1>6. Max(S) \in S /\ \A y \in S : Max(S) >= y
  BY <1>5 DEF Max
<1> QED BY <1>6

Counts(s, i) == Parts(s)[i] = "escape" \/ (Parts(s)[i] = "content" /\ s[i] # Space)

LEMMA LastContentRule ==
  ASSUME NEW s \in Text
  PROVE  /\ LastContent(s) \in 0..Len(s)
         /\ LastContent(s) > 0 => Counts(s, LastContent(s))
         /\ \A i \in 1..Len(s) : i > LastContent(s) => ~Counts(s, i)
<1> DEFINE S == {0} \cup {i \in 1..Len(s) : Counts(s, i)}
<1>1. Len(s) \in Nat
  BY DEF Text
<1>2. S \in SUBSET (0..Len(s)) /\ S # {} /\ LastContent(s) = Max(S)
  BY <1>1 DEF LastContent, Counts
<1>3. Max(S) \in S /\ \A x \in S : x <= Max(S)
  <2> HIDE DEF S
  <2> QED BY <1>1, <1>2, MaxRule
<1> QED BY <1>1, <1>2, <1>3

LEMMA LastContentIs ==
  ASSUME NEW s \in Text, NEW k \in 0..Len(s), k > 0 => Counts(s, k),
         \A i \in 1..Len(s) : i > k => ~Counts(s, i)
  PROVE  LastContent(s) = k
<1>1. Len(s) \in Nat
  BY DEF Text
<1>2. LastContent(s) \in 0..Len(s) /\ ~(LastContent(s) > k) /\ ~(k > LastContent(s))
  BY <1>1, LastContentRule
<1> QED BY <1>1, <1>2


-----------------------------------------------------------------------------
(* terminate and the repair of the content.                                 *)

LEMMA CharFacts ==
  /\ Backslash \in Char /\ Space \in Char /\ Stop \in Char /\ "a" \in Char
  /\ Backslash # Space /\ Backslash # Stop /\ Space # Stop
  /\ Backslash \notin Letters /\ Space \notin Letters /\ Stop \notin Letters
<1>1. Backslash \in Char /\ Space \in Char /\ Stop \in Char /\ "a" \in Char
  BY DEF Backslash, Space, Stop, Char, Letters
<1>2. Backslash # Space /\ Backslash # Stop /\ Space # Stop
  BY DEF Backslash, Space, Stop
<1>3. Backslash \notin Letters
  BY DEF Backslash, Letters
<1>4. Space \notin Letters
  BY DEF Space, Letters
<1>5. Stop \notin Letters
  BY DEF Stop, Letters
<1> QED BY <1>1, <1>2, <1>3, <1>4, <1>5

\* Content is no backslash, and what is escaped, opens or closes a tag is one.
LEMMA PartsChars ==
  ASSUME NEW s \in Text, NEW i \in 1..Len(s)
  PROVE  /\ Parts(s)[i] = "content" => s[i] # Backslash
         /\ Parts(s)[i] \in {"escape", "opens", "closes"} => s[i] = Backslash
<1>1. Parts(s)[i] = PartAfter(Before(Parts(s), i), s, i)
  BY PartsRule
<1> QED BY <1>1 DEF PartAfter, Starts

LEMMA RepairContentParts ==
  ASSUME NEW s \in Text, NEW p
  PROVE  /\ RepairContent(s, p) \in Text
         /\ Len(RepairContent(s, p)) = Len(s)
         /\ \A i \in 1..Len(s) :
              /\ Parts(RepairContent(s, p))[i] = Parts(s)[i]
              /\ RepairContent(s, p)[i] = IF Parts(s)[i] = "content" THEN RepairChar(s[i], p) ELSE s[i]
<1> DEFINE r == RepairContent(s, p)
<1>1. Len(s) \in Nat /\ \A i \in 1..Len(s) : s[i] \in Char
  BY DEF Text
<1>2. \A c \in Char : RepairChar(c, p) \in Char /\ (c # Backslash => RepairChar(c, p) # Backslash)
  BY CharFacts DEF RepairChar, Backslash, Space
<1>3. \A i \in 1..Len(s) : (IF Parts(s)[i] = "content" THEN RepairChar(s[i], p) ELSE s[i]) \in Char
  BY <1>1, <1>2
<1>4. r \in [1..Len(s) -> Char]
  BY <1>3 DEF RepairContent
<1>5. r \in Text /\ Len(r) = Len(s)
  BY <1>1, <1>4 DEF Text
<1>6. \A i \in 1..Len(s) : r[i] = IF Parts(s)[i] = "content" THEN RepairChar(s[i], p) ELSE s[i]
  BY DEF RepairContent
<1> HIDE DEF r
<1>7. \A i \in 1..Len(s) : s[i] = Backslash <=> r[i] = Backslash
  BY <1>1, <1>2, <1>6, PartsChars
<1>8. \A i \in 1..Len(s) : Starts(s, i) = Starts(r, i)
  BY <1>1, <1>5, <1>7 DEF Starts
<1>9. Alike(s, 0, r, 0, Len(s))
  BY <1>1, <1>5, <1>7, <1>8 DEF Alike, Before
<1>10. Agree(s, 0, r, 0, Len(s))
  BY <1>1, <1>5, <1>9, PartsAgree
<1> QED BY <1>5, <1>6, <1>10, <1>1 DEF Agree, r

\* A text without content to repair.
Repaired(s, p) == \A i \in 1..Len(s) : Parts(s)[i] = "content" => RepairChar(s[i], p) = s[i]

LEMMA RepairedStays ==
  ASSUME NEW s \in Text, NEW p, Repaired(s, p)
  PROVE  RepairContent(s, p) = s
<1>1. /\ RepairContent(s, p) \in Seq(Char) /\ Len(RepairContent(s, p)) = Len(s) /\ s \in Seq(Char)
      /\ \A i \in 1..Len(s) : RepairContent(s, p)[i] = s[i]
  BY RepairContentParts DEF Repaired, Text
<1> HIDE DEF Repaired
<1> QED BY <1>1, SeqEqual

LEMMA RepairContentRepairs ==
  ASSUME NEW s \in Text, NEW p \in Nat
  PROVE  Repaired(RepairContent(s, p), p)
<1>1. \A c : RepairChar(RepairChar(c, p), p) = RepairChar(c, p)
  BY DEF RepairChar, isSafeInPass2, isAlwaysRejected, Space
<1> QED BY <1>1, RepairContentParts DEF Repaired

LEMMA RepairedConcat ==
  ASSUME NEW s \in Text, NEW t \in Text, NEW p, Closed(s)
  PROVE  Repaired(s \o t, p) <=> Repaired(s, p) /\ Repaired(t, p)
<1> DEFINE st == s \o t
<1>1. /\ st \in Text /\ Len(st) = Len(s) + Len(t) /\ Len(s) \in Nat /\ Len(t) \in Nat
      /\ \A i \in 1..Len(s) : st[i] = s[i]
      /\ \A j \in 1..Len(t) : st[Len(s) + j] = t[j]
  BY DEF Text
<1>2. /\ \A i \in 1..Len(s) : Parts(st)[i] = Parts(s)[i]
      /\ \A j \in 1..Len(t) : Parts(st)[Len(s) + j] = Parts(t)[j]
  BY PartsConcat
<1> HIDE DEF st
<1>3. ASSUME Repaired(st, p) PROVE Repaired(s, p) /\ Repaired(t, p)
  <2>1. \A j \in 1..Len(t) : Len(s) + j \in 1..Len(st)
    BY <1>1
  <2>2. \A i \in 1..Len(s) : i \in 1..Len(st)
    BY <1>1
  <2> QED BY <1>1, <1>2, <1>3, <2>1, <2>2 DEF Repaired
<1>4. ASSUME Repaired(s, p), Repaired(t, p) PROVE Repaired(st, p)
  <2> SUFFICES ASSUME NEW i \in 1..Len(st), Parts(st)[i] = "content"
               PROVE  RepairChar(st[i], p) = st[i]
    BY DEF Repaired
  <2>1. CASE i \in 1..Len(s)
    BY <2>1, <1>1, <1>2, <1>4 DEF Repaired
  <2>2. CASE i \notin 1..Len(s)
    <3> DEFINE j == i - Len(s)
    <3>1. j \in 1..Len(t) /\ i = Len(s) + j
      BY <2>2, <1>1
    <3> HIDE DEF j
    <3> QED BY <3>1, <1>1, <1>2, <1>4 DEF Repaired
  <2> QED BY <2>1, <2>2
<1> QED BY <1>3, <1>4 DEF st


LEMMA StopAlone ==
  /\ <<Stop>> \in Text /\ Len(<<Stop>>) = 1 /\ <<Stop>>[1] = Stop
  /\ Parts(<<Stop>>)[1] = "content" /\ Closed(<<Stop>>)
  /\ \A p : Repaired(<<Stop>>, p)
<1>1. <<Stop>> \in Text /\ Len(<<Stop>>) = 1 /\ <<Stop>>[1] = Stop
  BY CharFacts DEF Text
<1> DEFINE t == <<Stop>>
<1> HIDE DEF t
<1>2. Parts(t)[1] = PartAfter(Before(Parts(t), 1), t, 1)
  BY <1>1, PartsRule DEF t
<1>3. Parts(t)[1] = "content"
  BY <1>1, <1>2, CharFacts DEF PartAfter, Starts, Before, t
<1>4. Closed(t)
  BY <1>1, <1>3 DEF Closed, EndedAt, Before, Ended, t
<1>5. \A p : RepairChar(Stop, p) = Stop
  BY DEF RepairChar, isSafeInPass2, isAlwaysRejected, Stop
<1>6. \A p : Repaired(t, p)
  BY <1>1, <1>5 DEF Repaired, t
<1> QED BY <1>1, <1>3, <1>4, <1>6 DEF t

\* A text cut where nothing is open.
LEMMA Halves ==
  ASSUME NEW s \in Text, NEW k \in 0..Len(s), EndedAt(s, k)
  PROVE  \E u, v \in Text :
           /\ u = SubSeq(s, 1, k) /\ v = SubSeq(s, k + 1, Len(s))
           /\ s = u \o v /\ Closed(u) /\ Len(u) = k /\ Len(v) = Len(s) - k
           /\ \A i \in 1..k : Parts(u)[i] = Parts(s)[i] /\ u[i] = s[i]
           /\ \A i \in 1..(Len(s) - k) : Parts(v)[i] = Parts(s)[k + i] /\ v[i] = s[k + i]
<1> DEFINE u == SubSeq(s, 1, k)
           v == SubSeq(s, k + 1, Len(s))
<1>1. Len(s) \in Nat /\ k \in Nat /\ s \in Seq(Char)
  BY DEF Text
<1>2. EndedAt(s, 0)
  BY DEF EndedAt, Before, Ended
<1>3. /\ u \in Text /\ Len(u) = k /\ Closed(u)
      /\ \A i \in 1..k : Parts(u)[i] = Parts(s)[i] /\ u[i] = s[i]
  <2>1. 0 \in 0..Len(s) /\ k \in 0..Len(s)
    BY <1>1
  <2>2. /\ SubSeq(s, 0 + 1, k) \in Text /\ Len(SubSeq(s, 0 + 1, k)) = k - 0
        /\ Closed(SubSeq(s, 0 + 1, k))
        /\ \A i \in 1..(k - 0) : /\ SubSeq(s, 0 + 1, k)[i] = s[0 + i]
                                 /\ Parts(SubSeq(s, 0 + 1, k))[i] = Parts(s)[0 + i]
    BY <1>2, <2>1, PartsSub
  <2>3. 0 + 1 = 1 /\ k - 0 = k /\ \A i \in 1..k : 0 + i = i
    BY <1>1
  <2> QED BY <2>2, <2>3
<1>4. /\ v \in Text /\ Len(v) = Len(s) - k
      /\ \A i \in 1..(Len(s) - k) : Parts(v)[i] = Parts(s)[k + i] /\ v[i] = s[k + i]
  <2>1. Len(s) \in k..Len(s)
    BY <1>1
  <2> QED BY <2>1, PartsSub
<1>5. s = u \o v
  <2>1. 1 \in 1..(Len(s) + 1) /\ k \in (1 - 1)..Len(s) /\ Len(s) \in k..Len(s)
    BY <1>1
  <2>2. u \o v = SubSeq(s, 1, Len(s))
    BY <1>1, <2>1, ConcatAdjacentSubSeq
  <2> QED BY <1>1, <2>2, SubSeqFull
<1> HIDE DEF u, v
<1> QED BY <1>3, <1>4, <1>5 DEF u, v

\* terminate leaves a text alone or puts an end of sentence after its last content.
LEMMA TerminateRule ==
  ASSUME NEW s \in Text
  PROVE  LET last == LastContent(s) IN
         /\ last = 0 \/ s[last] = Stop => terminate(s) = s
         /\ ~(last = 0 \/ s[last] = Stop) =>
              terminate(s) = (SubSeq(s, 1, last) \o <<Stop>>) \o SubSeq(s, last + 1, Len(s))
<1> DEFINE last == LastContent(s)
<1>1. last \in Nat
  BY LastContentRule, PartsType
<1>2. (last + 1) - 1 = last
  BY <1>1
<1>3. InsertAt(s, last + 1, Stop) = (SubSeq(s, 1, last) \o <<Stop>>) \o SubSeq(s, last + 1, Len(s))
  BY <1>2 DEF InsertAt
<1> QED BY <1>3 DEF terminate, isSentenceEnd

\* What terminate does to a text that is not terminated and does not end in an escaped
\* backslash.
LEMMA TerminateHalves ==
  ASSUME NEW s \in Text, LastContent(s) # 0, s[LastContent(s)] # Stop, ~EndsInEscape(s)
  PROVE  \E u, v \in Text :
           /\ s = u \o v /\ Closed(u)
           /\ terminate(s) = (u \o <<Stop>>) \o v
           /\ \A i \in 1..Len(v) : ~Counts(v, i)
<1> DEFINE last == LastContent(s)
<1>1. last \in 1..Len(s) /\ Len(s) \in Nat /\ Counts(s, last)
  BY LastContentRule, PartsType
<1>2. Parts(s)[last] = "content"
  BY <1>1, PartsChars DEF Counts, EndsInEscape
<1>3. EndedAt(s, last)
  BY <1>1, <1>2 DEF EndedAt, Before, Ended
<1> HIDE DEF last
<1>4. last \in 0..Len(s)
  BY <1>1
<1>5. PICK u, v \in Text :
           /\ u = SubSeq(s, 1, last) /\ v = SubSeq(s, last + 1, Len(s))
           /\ s = u \o v /\ Closed(u) /\ Len(u) = last /\ Len(v) = Len(s) - last
           /\ \A i \in 1..last : Parts(u)[i] = Parts(s)[i] /\ u[i] = s[i]
           /\ \A i \in 1..(Len(s) - last) : Parts(v)[i] = Parts(s)[last + i] /\ v[i] = s[last + i]
  BY <1>3, <1>4, Halves
<1>6. ASSUME NEW i \in 1..Len(v) PROVE ~Counts(v, i)
  <2>1. last + i \in 1..Len(s) /\ last + i > last /\ i \in 1..(Len(s) - last)
    BY <1>1, <1>5
  <2>2. ~Counts(s, last + i)
    BY <2>1, LastContentRule DEF last
  <2>3. Parts(v)[i] = Parts(s)[last + i] /\ v[i] = s[last + i]
    BY <1>5, <2>1
  <2> QED BY <2>2, <2>3 DEF Counts
<1>7. terminate(s) = (u \o <<Stop>>) \o v
  BY <1>5, TerminateRule DEF last
<1> QED BY <1>5, <1>6, <1>7


LEMMA ConcatType == ASSUME NEW s \in Text, NEW t \in Text PROVE s \o t \in Text
  BY ConcatProperties DEF Text

LEMMA ConcatRule ==
  ASSUME NEW s \in Text, NEW t \in Text
  PROVE  /\ Len(s) \in Nat /\ Len(t) \in Nat /\ Len(s \o t) = Len(s) + Len(t)
         /\ \A i \in 1..Len(s) : (s \o t)[i] = s[i]
         /\ \A j \in 1..Len(t) : (s \o t)[Len(s) + j] = t[j]
  BY DEF Text

\* A text in which nothing is open, with an end of sentence behind it.
LEMMA StopBehind ==
  ASSUME NEW u \in Text, Closed(u)
  PROVE  /\ u \o <<Stop>> \in Text /\ Closed(u \o <<Stop>>)
         /\ Len(u \o <<Stop>>) = Len(u) + 1 /\ Len(u) \in Nat
         /\ (u \o <<Stop>>)[Len(u) + 1] = Stop
         /\ Parts(u \o <<Stop>>)[Len(u) + 1] = "content"
<1> DEFINE t == <<Stop>>
<1>1. t \in Text /\ Closed(t) /\ Len(t) = 1 /\ t[1] = Stop /\ Parts(t)[1] = "content"
  BY StopAlone
<1> HIDE DEF t
<1>2. 1 \in 1..Len(t)
  BY <1>1
<1>3. Len(u \o t) = Len(u) + 1 /\ (u \o t)[Len(u) + 1] = Stop /\ Len(u) \in Nat
  BY <1>1, <1>2, ConcatRule
<1>4. Parts(u \o t)[Len(u) + 1] = "content" /\ Closed(u \o t)
  BY <1>1, <1>2, PartsConcat
<1>5. u \o t \in Text
  BY <1>1, ConcatType
<1> QED BY <1>3, <1>4, <1>5 DEF t

LEMMA TerminateType == ASSUME NEW s \in Text PROVE terminate(s) \in Text
<1> DEFINE last == LastContent(s)
           u == SubSeq(s, 1, last)
           v == SubSeq(s, last + 1, Len(s))
<1>1. Len(s) \in Nat /\ last \in 0..Len(s) /\ \A i \in 1..Len(s) : s[i] \in Char
  BY LastContentRule DEF Text
<1>2. u \in Text /\ v \in Text
  <2> HIDE DEF last
  <2> QED BY <1>1, SubSeqProperties DEF Text
<1>3. (u \o <<Stop>>) \o v \in Text
  <2> HIDE DEF u, v
  <2>1. u \o <<Stop>> \in Text
    BY <1>2, StopAlone, ConcatType
  <2> QED BY <2>1, <1>2, ConcatType
<1> QED BY <1>3, TerminateRule

\* terminate keeps every part but the content, and of the content all but the ends of
\* sentences.
LEMMA TerminateThose ==
  ASSUME NEW s \in Text, NEW parts, NEW C, ~EndsInEscape(s),
         "content" \notin parts \/ Stop \notin C
  PROVE  Those(terminate(s), parts, C) = Those(s, parts, C)
<1>1. CASE LastContent(s) = 0 \/ s[LastContent(s)] = Stop
  BY <1>1, TerminateRule
<1>2. CASE LastContent(s) # 0 /\ s[LastContent(s)] # Stop
  <2>1. PICK u, v \in Text :
           /\ s = u \o v /\ Closed(u)
           /\ terminate(s) = (u \o <<Stop>>) \o v
    BY <1>2, TerminateHalves
  <2> DEFINE t == <<Stop>>
             Of(x) == Those(x, parts, C)
  <2>2. t \in Text /\ Closed(t) /\ Of(t) = <<>>
    <3>1. \A i \in 1..Len(t) : Parts(t)[i] \in parts => t[i] \notin C
      BY StopAlone
    <3>2. t \in Text /\ Closed(t)
      BY StopAlone
    <3> HIDE DEF t
    <3> QED BY <3>1, <3>2, ThoseNone
  <2> HIDE DEF t
  <2>3. u \o t \in Text /\ Closed(u \o t)
    BY <2>1, <2>2, PartsConcat, ConcatType
  <2> DEFINE ut == u \o t
  <2>5. Of(ut) = Of(u) \o Of(t)
    <3>1. u \in Text /\ t \in Text /\ Closed(u)
      BY <2>1, <2>2
    <3> QED BY <3>1, ThoseConcat
  <2>8. ut \in Text /\ Closed(ut)
    BY <2>3
  <2> HIDE DEF ut
  <2>4. Of(ut \o v) = Of(ut) \o Of(v)
    BY <2>1, <2>8, ThoseConcat
  <2>6. Of(u) \o Of(t) = Of(u)
    BY <2>1, <2>2, ThoseType, ConcatEmptySeq DEF Text
  <2>7. Of(s) = Of(u) \o Of(v)
    BY <2>1, ThoseConcat
  <2> QED BY <2>1, <2>4, <2>5, <2>6, <2>7 DEF t, ut
<1> QED BY <1>1, <1>2

\* What terminate returns is terminated.
LEMMA TerminateOnce ==
  ASSUME NEW s \in Text, NEW p, ~EndsInEscape(s), Repaired(s, p)
  PROVE  terminate(terminate(s)) = terminate(s) /\ Repaired(terminate(s), p)
<1>1. CASE LastContent(s) = 0 \/ s[LastContent(s)] = Stop
  BY <1>1, TerminateRule
<1>2. CASE LastContent(s) # 0 /\ s[LastContent(s)] # Stop
  <2>1. PICK u, v \in Text :
           /\ s = u \o v /\ Closed(u)
           /\ terminate(s) = (u \o <<Stop>>) \o v
           /\ \A i \in 1..Len(v) : ~Counts(v, i)
    BY <1>2, TerminateHalves
  <2> DEFINE t == <<Stop>>
             ut == u \o t
             o == ut \o v
             k == Len(u) + 1
  <2>2. t \in Text /\ Closed(t) /\ Repaired(t, p)
    BY StopAlone
  <2>3. Len(u) \in Nat /\ Len(v) \in Nat
    BY DEF Text
  <2>4. ut \in Text /\ Closed(ut) /\ Len(ut) = k /\ ut[k] = Stop /\ Parts(ut)[k] = "content"
    BY <2>1, StopBehind
  <2> HIDE DEF t
  <2>5. Repaired(ut, p) /\ Repaired(v, p)
    BY <2>1, <2>2, RepairedConcat
  <2> HIDE DEF ut
  <2>6. o \in Text /\ Repaired(o, p)
    BY <2>4, <2>5, RepairedConcat, ConcatType
  <2>7. Len(o) = k + Len(v) /\ o[k] = Stop /\ \A i \in 1..Len(v) : o[k + i] = v[i]
    <3>1. k \in 1..Len(ut)
      BY <2>3, <2>4
    <3> HIDE DEF k
    <3>2. ut \in Text /\ v \in Text /\ Len(ut) = k
      BY <2>4
    <3>3. Len(ut \o v) = k + Len(v) /\ (ut \o v)[k] = ut[k] /\ \A i \in 1..Len(v) : (ut \o v)[k + i] = v[i]
      BY <3>1, <3>2, ConcatRule
    <3> QED BY <3>3, <2>4
  <2>8. Parts(o)[k] = "content" /\ \A i \in 1..Len(v) : Parts(o)[k + i] = Parts(v)[i]
    <3>1. k \in 1..Len(ut)
      BY <2>3, <2>4
    <3> HIDE DEF k
    <3>2. ut \in Text /\ v \in Text /\ Len(ut) = k /\ Closed(ut)
      BY <2>4
    <3>3. Parts(ut \o v)[k] = Parts(ut)[k] /\ \A i \in 1..Len(v) : Parts(ut \o v)[k + i] = Parts(v)[i]
      BY <3>1, <3>2, PartsConcat
    <3> QED BY <3>3, <2>4
  <2> HIDE DEF o
  <2>9. LastContent(o) = k
    <3>1. k \in 0..Len(o) /\ Counts(o, k)
      BY <2>3, <2>7, <2>8, CharFacts DEF Counts
    <3>2. ASSUME NEW i \in 1..Len(o), i > k PROVE ~Counts(o, i)
      <4>1. i - k \in 1..Len(v) /\ i = k + (i - k)
        BY <3>2, <2>3, <2>7
      <4>2. Parts(o)[i] = Parts(v)[i - k] /\ o[i] = v[i - k]
        BY <4>1, <2>7, <2>8
      <4> QED BY <4>1, <4>2, <2>1 DEF Counts
    <3> HIDE DEF k
    <3> QED BY <3>1, <3>2, <2>6, LastContentIs
  <2>10. terminate(o) = o
    BY <2>6, <2>7, <2>9, TerminateRule
  <2> QED BY <2>1, <2>6, <2>10 DEF o, ut, t
<1> QED BY <1>1, <1>2

-----------------------------------------------------------------------------
(* The two promises of a repair, for every text.                            *)

LEMMA RepairKeeps ==
  ASSUME NEW s \in Text, NEW p, ~EndsInEscape(RepairContent(s, p)), repairText(s, p) # <<>>
  PROVE  Tags(repairText(s, p)) = Tags(s) /\ Escapes(repairText(s, p)) = Escapes(s)
<1> DEFINE r == RepairContent(s, p)
<1>1. /\ r \in Text /\ Len(r) = Len(s)
      /\ \A i \in 1..Len(s) :
              /\ Parts(r)[i] = Parts(s)[i]
              /\ r[i] = IF Parts(s)[i] = "content" THEN RepairChar(s[i], p) ELSE s[i]
  BY RepairContentParts
<1> HIDE DEF r
<1>2. repairText(s, p) = terminate(r)
  BY DEF repairText, r
<1>3. \A parts, C : "content" \notin parts => Those(r, parts, C) = Those(s, parts, C)
  <2> SUFFICES ASSUME NEW parts, NEW C, "content" \notin parts
               PROVE  Those(r, parts, C) = Those(s, parts, C)
    OBVIOUS
  <2>1. \A i \in 1..Len(s) : Parts(s)[i] = Parts(r)[i] /\ (Parts(s)[i] \in parts => s[i] = r[i])
    BY <1>1
  <2> QED BY <1>1, <2>1, ThoseSame
<1>4. \A parts, C : "content" \notin parts => Those(terminate(r), parts, C) = Those(r, parts, C)
  BY <1>1, TerminateThose DEF r
<1>5. "content" \notin {"opens", "in", "closes"} /\ "content" \notin {"escape", "escaped"}
  OBVIOUS
<1> QED BY <1>2, <1>3, <1>4, <1>5 DEF Tags, Escapes

LEMMA RepairOnceLemma ==
  ASSUME NEW s \in Text, NEW p \in Nat, ~EndsInEscape(RepairContent(s, p)), repairText(s, p) # <<>>
  PROVE  repairText(repairText(s, p), p) = <<>>
<1> DEFINE r == RepairContent(s, p)
           o == terminate(r)
<1>1. r \in Text /\ Repaired(r, p)
  BY RepairContentParts, RepairContentRepairs
<1>2. repairText(s, p) = o
  BY DEF repairText
<1>3. ~EndsInEscape(r)
  OBVIOUS
<1> HIDE DEF r
<1>4. terminate(o) = o /\ Repaired(o, p) /\ o \in Text
  BY <1>1, <1>3, TerminateOnce, TerminateType
<1> HIDE DEF o
<1>5. RepairContent(o, p) = o
  BY <1>4, RepairedStays
<1> QED BY <1>2, <1>4, <1>5 DEF repairText


-----------------------------------------------------------------------------
(* splitIntoWords: a walk whose words are, in order, what the text says.    *)

\* What the words are, one after the other.
AllOf(ws, parts, C) == FlattenSeq([i \in 1..Len(ws) |-> Those(ws[i], parts, C)])

LEMMA AllOfType ==
  ASSUME NEW ws \in Seq(Text), NEW parts, NEW C
  PROVE  [i \in 1..Len(ws) |-> Those(ws[i], parts, C)] \in Seq(Text)
<1>1. Len(ws) \in Nat /\ \A i \in 1..Len(ws) : Those(ws[i], parts, C) \in Text
  BY ThoseType
<1> QED BY <1>1

LEMMA AllOfNone == \A parts, C : AllOf(<<>>, parts, C) = <<>>
<1> SUFFICES ASSUME NEW parts, NEW C PROVE AllOf(<<>>, parts, C) = <<>>
  OBVIOUS
<1> DEFINE q == [i \in 1..Len(<<>>) |-> Those(<<>>[i], parts, C)]
<1>1. q = <<>>
  OBVIOUS
<1> QED BY <1>1, FlattenEmpty DEF AllOf

LEMMA AllOfAppend ==
  ASSUME NEW ws \in Seq(Text), NEW t \in Text, NEW parts, NEW C
  PROVE  AllOf(Append(ws, t), parts, C) = AllOf(ws, parts, C) \o Those(t, parts, C)
<1> DEFINE xs == Append(ws, t)
           q == [i \in 1..Len(ws) |-> Those(ws[i], parts, C)]
           r == [i \in 1..Len(xs) |-> Those(xs[i], parts, C)]
           e == Those(t, parts, C)
           N == Len(ws)
<1>1. /\ xs \in Seq(Text) /\ Len(xs) = N + 1 /\ xs[N + 1] = t /\ N \in Nat
      /\ \A i \in 1..N : xs[i] = ws[i]
  BY AppendProperties
<1> HIDE DEF xs
<1>2. q \in Seq(Text) /\ r \in Seq(Text) /\ e \in Text
  BY <1>1, AllOfType, ThoseType
<1>3. Len(q) = N /\ Len(r) = N + 1 /\ r[N + 1] = e /\ \A i \in 1..N : r[i] = q[i]
  BY <1>1
<1> HIDE DEF q, r, e, N
<1>4. /\ Append(q, e) \in Seq(Text) /\ Len(Append(q, e)) = N + 1
      /\ \A i \in 1..(N + 1) : Append(q, e)[i] = r[i]
  BY <1>1, <1>2, <1>3, AppendProperties
<1>5. r = Append(q, e)
  BY <1>2, <1>3, <1>4, SeqEqual
<1>6. FlattenSeq(Append(q, e)) = FlattenSeq(q) \o e
  BY <1>2, FlattenAppend
<1> QED BY <1>5, <1>6 DEF AllOf, q, r, e, xs

\* xs is ws with the last word longer by t.
IsLonger(xs, ws, t) == xs = [ws EXCEPT ![Len(ws)] = @ \o t]

LEMMA AllOfLonger ==
  ASSUME NEW ws \in Seq(Text), ws # <<>>, NEW t \in Text, NEW parts, NEW C, Closed(ws[Len(ws)]),
         NEW xs, IsLonger(xs, ws, t)
  PROVE  AllOf(xs, parts, C) = AllOf(ws, parts, C) \o Those(t, parts, C)
<1> DEFINE front == SubSeq(ws, 1, Len(ws) - 1)
           w == ws[Len(ws)]
           Of(x) == Those(x, parts, C)
<1>1. Len(ws) \in Nat \ {0} /\ w \in Text /\ \A i \in 1..Len(ws) : ws[i] \in Text
  OBVIOUS
<1>2. /\ front \in Seq(Text) /\ Len(front) = Len(ws) - 1
      /\ \A i \in 1..(Len(ws) - 1) : front[i] = ws[i]
  <2> DEFINE m == Len(ws) - 1
  <2>1. m \in Nat /\ \A i \in 1..m : ws[i] \in Text
    BY <1>1
  <2> HIDE DEF m
  <2>2. /\ SubSeq(ws, 1, m) \in Seq(Text) /\ Len(SubSeq(ws, 1, m)) = m
        /\ \A i \in 1..m : SubSeq(ws, 1, m)[i] = ws[i]
    BY <2>1, SubSeqProperties
  <2> QED BY <2>2 DEF m
<1>3. w \o t \in Text
  BY <1>1, ConcatType
<1>4. /\ xs \in Seq(Text) /\ Len(xs) = Len(ws)
      /\ \A i \in 1..Len(ws) : xs[i] = IF i = Len(ws) THEN w \o t ELSE ws[i]
  BY <1>1, <1>3, ExceptSeq DEF IsLonger
<1> HIDE DEF front, w
<1>5. ws = Append(front, w)
  <2>1. /\ Append(front, w) \in Seq(Text) /\ Len(Append(front, w)) = Len(ws)
        /\ \A i \in 1..Len(ws) : ws[i] = Append(front, w)[i]
    BY <1>1, <1>2, AppendProperties DEF w
  <2> QED BY <2>1, SeqEqual
<1>6. xs = Append(front, w \o t)
  <2> DEFINE wt == w \o t
  <2>0. wt \in Text /\ \A i \in 1..Len(ws) : xs[i] = IF i = Len(ws) THEN wt ELSE ws[i]
    BY <1>3, <1>4
  <2> HIDE DEF wt
  <2>1. /\ Append(front, wt) \in Seq(Text) /\ Len(Append(front, wt)) = Len(xs)
        /\ \A i \in 1..Len(xs) : xs[i] = Append(front, wt)[i]
    BY <1>1, <1>2, <1>4, <2>0, AppendProperties
  <2>2. xs = Append(front, wt)
    BY <1>4, <2>1, SeqEqual
  <2> QED BY <2>2 DEF wt
<1>7. AllOf(ws, parts, C) = AllOf(front, parts, C) \o Of(w)
  BY <1>1, <1>2, <1>5, AllOfAppend
<1>8. AllOf(xs, parts, C) = AllOf(front, parts, C) \o Of(w \o t)
  <2> DEFINE wt == w \o t
  <2>0. wt \in Text /\ xs = Append(front, wt)
    BY <1>3, <1>6
  <2> HIDE DEF wt
  <2>1. AllOf(xs, parts, C) = AllOf(front, parts, C) \o Of(wt)
    BY <1>2, <2>0, AllOfAppend
  <2> QED BY <2>1 DEF wt
<1>9. Of(w \o t) = Of(w) \o Of(t)
  BY <1>1, ThoseConcat DEF w
<1>10. AllOf(front, parts, C) \in Seq(Char) /\ Of(w) \in Seq(Char) /\ Of(t) \in Seq(Char)
  <2>1. AllOf(front, parts, C) \in Text
    BY <1>2, AllOfType, FlattenType DEF AllOf
  <2> QED BY <1>1, <2>1, ThoseType DEF Text
<1> DEFINE x == AllOf(front, parts, C)
           y == Of(w)
           z == Of(t)
<1> HIDE DEF Of, x
<1>11. (x \o y) \o z = x \o (y \o z)
  <2>1. x \in Seq(Char) /\ y \in Seq(Char) /\ z \in Seq(Char)
    BY <1>10 DEF x
  <2> HIDE DEF y, z
  <2> QED BY <2>1, ConcatAssociative
<1> QED BY <1>7, <1>8, <1>9, <1>11 DEF x, Of


\* terminate splits an escaped backslash that ends a text: "\\" becomes "\.\", a tag.  What is
\* open or closed behind it is the same, and so is what is spoken.
LEMMA PairAlone ==
  LET t == <<Backslash, Backslash>> IN
  t \in Text /\ Closed(t) /\ \A i \in 1..Len(t) : Parts(t)[i] # "content"
<1> DEFINE t == <<Backslash, Backslash>>
<1>1. t \in Text /\ Len(t) = 2 /\ t[1] = Backslash /\ t[2] = Backslash
  BY CharFacts DEF Text
<1> HIDE DEF t
<1>2. /\ Parts(t)[1] = PartAfter(Before(Parts(t), 1), t, 1)
      /\ Parts(t)[2] = PartAfter(Before(Parts(t), 2), t, 2)
  BY <1>1, PartsRule
<1>3. Parts(t)[1] = "escape"
  BY <1>1, <1>2 DEF PartAfter, Starts, Before
<1>4. Parts(t)[2] = "escaped"
  BY <1>1, <1>2, <1>3 DEF PartAfter, Before
<1>5. Closed(t) /\ \A i \in 1..Len(t) : Parts(t)[i] # "content"
  BY <1>1, <1>3, <1>4 DEF Closed, EndedAt, Before, Ended
<1> QED BY <1>1, <1>5 DEF t

LEMMA SplitPairAlone ==
  LET t == <<Backslash, Stop, Backslash>> IN
  t \in Text /\ Closed(t) /\ \A i \in 1..Len(t) : Parts(t)[i] # "content"
<1> DEFINE t == <<Backslash, Stop, Backslash>>
<1>1. t \in Text /\ Len(t) = 3 /\ t[1] = Backslash /\ t[2] = Stop /\ t[3] = Backslash
  BY CharFacts DEF Text
<1> HIDE DEF t
<1>2. /\ Parts(t)[1] = PartAfter(Before(Parts(t), 1), t, 1)
      /\ Parts(t)[2] = PartAfter(Before(Parts(t), 2), t, 2)
      /\ Parts(t)[3] = PartAfter(Before(Parts(t), 3), t, 3)
  BY <1>1, PartsRule
<1>3. Parts(t)[1] = "opens"
  BY <1>1, <1>2, CharFacts DEF PartAfter, Starts, Before
<1>4. Parts(t)[2] = "in"
  BY <1>1, <1>2, <1>3, CharFacts DEF PartAfter, Before
<1>5. Parts(t)[3] = "closes"
  BY <1>1, <1>2, <1>4, CharFacts DEF PartAfter, Before
<1>6. Closed(t) /\ \A i \in 1..Len(t) : Parts(t)[i] # "content"
  BY <1>1, <1>3, <1>4, <1>5 DEF Closed, EndedAt, Before, Ended
<1> QED BY <1>1, <1>6 DEF t

LEMMA TerminateEscape ==
  ASSUME NEW s \in Text, EndsInEscape(s)
  PROVE  \E u, v \in Text :
           /\ Closed(u)
           /\ s = (u \o <<Backslash, Backslash>>) \o v
           /\ terminate(s) = (u \o <<Backslash, Stop, Backslash>>) \o v
<1> DEFINE last == LastContent(s)
<1>1. /\ last \in 1..Len(s) /\ Len(s) \in Nat /\ Counts(s, last) /\ s[last] = Backslash
      /\ s \in Seq(Char)
  BY LastContentRule, PartsType DEF EndsInEscape, Text
<1>2. Parts(s)[last] = "escape"
  BY <1>1, PartsChars DEF Counts
<1>3. last < Len(s) /\ s[last + 1] = Backslash /\ EndedAt(s, last - 1)
  <2>1. Parts(s)[last] = PartAfter(Before(Parts(s), last), s, last)
    BY <1>1, PartsRule
  <2>2. Starts(s, last) = "escape" /\ Before(Parts(s), last) \notin {"escape", "opens", "in"}
    BY <1>2, <2>1 DEF PartAfter
  <2>3. Before(Parts(s), last) \in PartNames
    BY <1>1, PartsType DEF Before, PartNames
  <2>4. (last - 1) + 1 = last
    BY <1>1
  <2> QED BY <1>1, <2>2, <2>3, <2>4 DEF Starts, EndedAt, Ended, PartNames
<1>4. EndedAt(s, last + 1)
  <2>1. last + 1 \in 1..Len(s) /\ (last + 1) - 1 = last /\ last + 1 # 1
    BY <1>1, <1>3
  <2>2. Before(Parts(s), last + 1) = "escape"
    BY <1>2, <2>1 DEF Before
  <2>3. Parts(s)[last + 1] = "escaped"
    BY <2>1, <2>2, PartsRule DEF PartAfter
  <2> QED BY <2>1, <2>3 DEF EndedAt, Before, Ended
<1> DEFINE u == SubSeq(s, 1, last - 1)
           v == SubSeq(s, last + 2, Len(s))
           b == <<Backslash>>
<1> HIDE DEF last
<1>5. u \in Text /\ Closed(u)
  <2>1. last - 1 \in 0..Len(s)
    BY <1>1
  <2> QED BY <1>3, <2>1, Halves
<1>6. v \in Text
  <2>1. \A i \in (last + 2)..Len(s) : s[i] \in Char
    BY <1>1
  <2> QED BY <1>1, <2>1, SubSeqProperties DEF Text
<1>7. SubSeq(s, 1, last) = u \o b
  <2>1. 1 \in 1..Len(s) /\ last \in 1..Len(s)
    BY <1>1
  <2> QED BY <1>1, <2>1, SubSeqRecursiveSecond
<1>8. SubSeq(s, last + 1, Len(s)) = b \o v
  <2> DEFINE m == last + 1
  <2>1. m \in 1..Len(s) /\ Len(s) \in m..Len(s) /\ m + 1 = last + 2 /\ s[m] = Backslash
    BY <1>1, <1>3
  <2> HIDE DEF m
  <2>2. SubSeq(s, m, Len(s)) = <<s[m]>> \o SubSeq(s, m + 1, Len(s))
    BY <1>1, <2>1, SubSeqRecursiveFirst
  <2> QED BY <2>1, <2>2 DEF m
<1>9. s = SubSeq(s, 1, last) \o SubSeq(s, last + 1, Len(s))
  <2>1. /\ 1 \in 1..(Len(s) + 1) /\ last \in (1 - 1)..Len(s) /\ Len(s) \in last..Len(s)
    BY <1>1
  <2>2. SubSeq(s, 1, last) \o SubSeq(s, last + 1, Len(s)) = SubSeq(s, 1, Len(s))
    BY <1>1, <2>1, ConcatAdjacentSubSeq
  <2> QED BY <1>1, <2>2, SubSeqFull
<1>10. terminate(s) = (SubSeq(s, 1, last) \o <<Stop>>) \o SubSeq(s, last + 1, Len(s))
  <2>1. ~(last = 0 \/ s[last] = Stop)
    BY <1>1, CharFacts
  <2> QED BY <2>1, TerminateRule DEF last
<1> HIDE DEF u, v
<1>11. (u \o b) \o (b \o v) = (u \o <<Backslash, Backslash>>) \o v
  BY <1>5, <1>6, CharFacts DEF Text
<1>12. ((u \o b) \o <<Stop>>) \o (b \o v) = (u \o <<Backslash, Stop, Backslash>>) \o v
  BY <1>5, <1>6, CharFacts DEF Text
<1> QED BY <1>5, <1>6, <1>7, <1>8, <1>9, <1>10, <1>11, <1>12


\* terminate keeps what is spoken, whatever the text ends in, and leaves nothing open.
LEMMA TerminateSpoken ==
  ASSUME NEW s \in Text
  PROVE  Spoken(terminate(s)) = Spoken(s)
<1>1. CASE ~EndsInEscape(s)
  BY <1>1, TerminateThose, CharFacts DEF Spoken
<1>2. CASE EndsInEscape(s)
  <2>1. PICK u, v \in Text :
           /\ Closed(u)
           /\ s = (u \o <<Backslash, Backslash>>) \o v
           /\ terminate(s) = (u \o <<Backslash, Stop, Backslash>>) \o v
    BY <1>2, TerminateEscape
  <2>2. ASSUME NEW t \in Text, Closed(t), \A i \in 1..Len(t) : Parts(t)[i] # "content"
        PROVE  Spoken((u \o t) \o v) = Spoken(u) \o Spoken(v)
    <3> DEFINE ut == u \o t
    <3>1. u \in Text /\ v \in Text /\ Closed(u)
      BY <2>1
    <3>2. ut \in Text /\ Closed(ut)
      BY <2>2, <3>1, PartsConcat, ConcatType
    <3>3. Spoken(t) = <<>>
      BY <2>2, ThoseNone DEF Spoken
    <3>4. Spoken(ut) = Spoken(u) \o Spoken(t)
      BY <2>2, <3>1, ThoseConcat DEF Spoken
    <3>5. Spoken(u) \in Text
      BY <3>1, ThoseType DEF Spoken
    <3>6. Spoken(u) \o <<>> = Spoken(u)
      BY <3>5, ConcatEmptySeq DEF Text
    <3> HIDE DEF ut
    <3>7. Spoken(ut \o v) = Spoken(ut) \o Spoken(v)
      BY <3>1, <3>2, ThoseConcat DEF Spoken
    <3> QED BY <3>3, <3>4, <3>6, <3>7 DEF ut
  <2>3. Spoken(s) = Spoken(u) \o Spoken(v)
    BY <2>1, <2>2, PairAlone
  <2>4. Spoken(terminate(s)) = Spoken(u) \o Spoken(v)
    BY <2>1, <2>2, SplitPairAlone
  <2> QED BY <2>3, <2>4
<1> QED BY <1>1, <1>2

LEMMA ClosedConcat ==
  ASSUME NEW u \in Text, NEW t \in Text, NEW v \in Text, Closed(u), Closed(t)
  PROVE  Closed((u \o t) \o v) <=> Closed(v)
<1> DEFINE ut == u \o t
<1>1. ut \in Text /\ Closed(ut)
  BY PartsConcat, ConcatType
<1> HIDE DEF ut
<1>2. Closed(ut \o v) <=> Closed(v)
  BY <1>1, PartsConcat
<1> QED BY <1>2 DEF ut

LEMMA TerminateCloses ==
  ASSUME NEW s \in Text, Closed(s)
  PROVE  Closed(terminate(s))
<1>1. CASE LastContent(s) = 0 \/ s[LastContent(s)] = Stop
  BY <1>1, TerminateRule
<1>2. CASE ~EndsInEscape(s) /\ LastContent(s) # 0 /\ s[LastContent(s)] # Stop
  <2>1. PICK u, v \in Text :
           /\ s = u \o v /\ Closed(u)
           /\ terminate(s) = (u \o <<Stop>>) \o v
    BY <1>2, TerminateHalves
  <2>2. Closed(v)
    BY <2>1, PartsConcat
  <2> QED BY <2>1, <2>2, StopAlone, ClosedConcat
<1>3. CASE EndsInEscape(s)
  <2>1. PICK u, v \in Text :
           /\ Closed(u)
           /\ s = (u \o <<Backslash, Backslash>>) \o v
           /\ terminate(s) = (u \o <<Backslash, Stop, Backslash>>) \o v
    BY <1>3, TerminateEscape
  <2>2. Closed(v)
    BY <2>1, PairAlone, ClosedConcat
  <2> DEFINE t == <<Backslash, Stop, Backslash>>
  <2>3. u \in Text /\ v \in Text /\ t \in Text /\ Closed(u) /\ Closed(t)
    BY <2>1, SplitPairAlone
  <2> HIDE DEF t
  <2>4. Closed((u \o t) \o v)
    BY <2>2, <2>3, ClosedConcat
  <2> QED BY <2>1, <2>4 DEF t
<1> QED BY <1>1, <1>2, <1>3


SplitState == [words : Seq(Text), current : Text, has : BOOLEAN]

\* What flush and ReadChar make of a state.
LEMMA FlushRule ==
  ASSUME NEW st \in SplitState
  PROVE  /\ flush(st) \in SplitState
         /\ flush(st).current = <<>> /\ flush(st).has = FALSE
         /\ st.has => flush(st).words = Append(st.words, terminate(st.current))
         /\ ~st.has /\ st.words = <<>> => flush(st).words = <<>>
         /\ ~st.has /\ st.words # <<>> =>
              flush(st).words = [st.words EXCEPT ![Len(st.words)] = @ \o st.current]
<1> DEFINE ws == st.words
           t == st.current
<1>1. ws \in Seq(Text) /\ t \in Text /\ <<>> \in Seq(Text) /\ <<>> \in Text
  BY DEF SplitState, Text
<1>2. Append(ws, terminate(t)) \in Seq(Text)
  <2>1. terminate(t) \in Text
    BY <1>1, TerminateType
  <2> QED BY <1>1, <2>1, AppendProperties
<1>3. ws # <<>> => [ws EXCEPT ![Len(ws)] = @ \o t] \in Seq(Text)
  <2> SUFFICES ASSUME ws # <<>> PROVE [ws EXCEPT ![Len(ws)] = @ \o t] \in Seq(Text)
    OBVIOUS
  <2> HIDE DEF ws, t
  <2>1. Len(ws) \in 1..Len(ws) /\ ws[Len(ws)] \in Text
    BY <1>1
  <2>2. ws[Len(ws)] \o t \in Text
    BY <1>1, <2>1, ConcatType
  <2> QED BY <1>1, <2>1, <2>2, ExceptSeq
<1> QED BY <1>1, <1>2, <1>3 DEF flush, SplitState

\* nx is what ReadChar makes of st.
ReadsBy(nx, st, c, part) ==
  /\ part = "content" /\ c = Space /\ st.has => nx = flush(st)
  /\ part = "opens" /\ st.has => nx.words = flush(st).words /\ nx.current = <<c>> /\ nx.has = FALSE
  /\ ~(part = "content" /\ c = Space /\ st.has) /\ ~(part = "opens" /\ st.has) =>
       /\ nx.words = st.words /\ nx.current = Append(st.current, c)
       /\ nx.has = (st.has \/ part = "escape" \/ (part = "content" /\ c \in Letters))

LEMMA ReadCharRule ==
  ASSUME NEW st \in SplitState, NEW c \in Char, NEW part
  PROVE  ReadChar(st, c, part) \in SplitState /\ ReadsBy(ReadChar(st, c, part), st, c, part)
<1> DEFINE fl == flush(st)
           t == st.current
<1>1. fl \in SplitState /\ fl.has = FALSE /\ st.has \in BOOLEAN
  BY FlushRule DEF SplitState
<1>2. <<c>> \in Text /\ t \in Text /\ Append(t, c) \in Text
  <2>1. t \in Seq(Char)
    BY DEF SplitState, Text
  <2> HIDE DEF t
  <2> QED BY <2>1, AppendProperties DEF Text
<1>3. CASE part = "content" /\ c = Space /\ st.has
  BY <1>1, <1>3 DEF ReadChar, ReadsBy
<1>4. CASE part = "opens" /\ st.has
  <2>1. ReadChar(st, c, part) = [fl EXCEPT !.current = <<c>>]
    BY <1>4 DEF ReadChar
  <2> HIDE DEF fl
  <2>2. /\ [fl EXCEPT !.current = <<c>>] \in SplitState
        /\ [fl EXCEPT !.current = <<c>>].words = fl.words
        /\ [fl EXCEPT !.current = <<c>>].current = <<c>>
        /\ [fl EXCEPT !.current = <<c>>].has = FALSE
    BY <1>1, <1>2 DEF SplitState
  <2> QED BY <1>4, <2>1, <2>2 DEF fl, ReadsBy
<1>5. CASE ~(part = "content" /\ c = Space /\ st.has) /\ ~(part = "opens" /\ st.has)
  <2> DEFINE h == st.has \/ part = "escape" \/ (part = "content" /\ c \in Letters)
             nx == [st EXCEPT !.current = Append(t, c), !.has = h]
  <2>1. ReadChar(st, c, part) = nx
    BY <1>5 DEF ReadChar
  <2>2. h \in BOOLEAN
    BY <1>1
  <2> HIDE DEF h
  <2>3. nx \in SplitState /\ nx.words = st.words /\ nx.current = Append(t, c) /\ nx.has = h
    BY <1>2, <2>2 DEF SplitState
  <2> HIDE DEF nx
  <2> QED BY <1>5, <2>1, <2>3 DEF h, ReadsBy
<1> QED BY <1>3, <1>4, <1>5

\* f has the states of a walk over s.
Walks(f, s) ==
  /\ f[0] = [words |-> <<>>, current |-> <<>>, has |-> FALSE]
  /\ \A n \in 1..Len(s) : f[n] = ReadChar(f[n - 1], s[n], Parts(s)[n])

LEMMA SplitRule ==
  ASSUME NEW s \in Text
  PROVE  \E f \in [0..Len(s) -> SplitState] :
           Walks(f, s) /\ splitIntoWords(s) = flush(f[Len(s)]).words
<1> DEFINE N == Len(s)
           part == Parts(s)
           zero == [words |-> <<>>, current |-> <<>>, has |-> FALSE]
           More(st, n) == ReadChar(st, s[n], part[n])
           IsRead(f) == f = [n \in 0..N |-> IF n = 0 THEN zero ELSE More(f[n - 1], n)]
           step == [p \in SplitState \X (1..N) |-> More(p[1], p[2])]
           read == CHOOSE f : IsRead(f)
<1>1. N \in Nat /\ \A n \in 1..N : s[n] \in Char
  BY DEF Text
<1>2. \A st \in SplitState, n \in 1..N : More(st, n) \in SplitState
  <2> SUFFICES ASSUME NEW st \in SplitState, NEW n \in 1..N PROVE More(st, n) \in SplitState
    OBVIOUS
  <2>1. s[n] \in Char
    BY <1>1
  <2> QED BY <2>1, ReadCharRule
<1>3. zero \in SplitState
  BY DEF SplitState, Text
<1>4. step \in [SplitState \X (1..N) -> SplitState]
  <2> HIDE DEF More, N
  <2> QED BY <1>2
<1>5. \A st \in SplitState, n \in 1..N : step[<<st, n>>] = More(st, n)
  OBVIOUS
<1>6. PICK g \in [0..N -> SplitState] : Repeats(g, zero, step, N)
  <2> HIDE DEF N, step, zero
  <2> QED BY <1>1, <1>3, <1>4, Recursion
<1>7. \A n \in 1..N : g[n] = More(g[n - 1], n)
  <2> HIDE DEF More, step, N, zero
  <2> SUFFICES ASSUME NEW n \in 1..N PROVE g[n] = More(g[n - 1], n)
    OBVIOUS
  <2>1. n - 1 \in 0..N
    BY <1>1
  <2>2. g[n - 1] \in SplitState
    BY <2>1, <1>6
  <2> QED BY <1>5, <1>6, <2>2 DEF Repeats
<1>8. IsRead(g)
  <2> HIDE DEF More, step, N, zero
  <2> QED BY <1>1, <1>6, <1>7 DEF Repeats
<1>9. IsRead(read)
  <2> HIDE DEF IsRead
  <2> QED BY <1>8
<1>10. splitIntoWords(s) = flush(read[N]).words
  BY DEF splitIntoWords
<1>11. read[0] = zero /\ (\A n \in 1..N : read[n] = More(read[n - 1], n))
  <2> HIDE DEF More, read, N, zero
  <2> QED BY <1>1, <1>9
<1>12. \A n \in 0..N : read[n] \in SplitState
  <2> DEFINE S == {n \in 0..N : read[n] \in SplitState}
  <2> HIDE DEF More, read, N, zero
  <2>1. 0 \in S
    BY <1>1, <1>3, <1>11
  <2>2. \A n \in 0..(N - 1) : n \in S => n + 1 \in S
    <3> SUFFICES ASSUME NEW n \in 0..(N - 1), n \in S PROVE n + 1 \in S
      OBVIOUS
    <3>1. n + 1 \in 1..N /\ n + 1 \in 0..N /\ (n + 1) - 1 = n
      BY <1>1
    <3>2. read[n + 1] = More(read[n], n + 1)
      BY <1>11, <3>1
    <3> QED BY <1>2, <3>1, <3>2
  <2>3. \A n \in 0..N : n \in S
    <3> HIDE DEF S
    <3> QED BY <1>1, <2>1, <2>2, UpToInduction
  <2> QED BY <2>3
<1>13. read \in [0..N -> SplitState]
  <2> HIDE DEF More, N, zero
  <2>1. read = [n \in 0..N |-> IF n = 0 THEN zero ELSE More(read[n - 1], n)]
    BY <1>9
  <2> HIDE DEF read
  <2>2. read = [n \in 0..N |-> read[n]]
    BY <2>1, Zenon
  <2> QED BY <1>12, <2>2
<1> QED
  <2>1. Walks(read, s)
    <3> HIDE DEF read
    <3> QED BY <1>11 DEF Walks
  <2> HIDE DEF read
  <2> QED BY <1>10, <1>13, <2>1


LEMMA ThoseSub ==
  ASSUME NEW s \in Text, NEW b \in 0..Len(s), NEW c \in b..Len(s), NEW parts, NEW C,
         EndedAt(s, b), EndedAt(s, c) \/ c = Len(s)
  PROVE  /\ SubSeq(s, 1, b) \in Text /\ SubSeq(s, b + 1, c) \in Text
         /\ Those(SubSeq(s, 1, c), parts, C) =
              Those(SubSeq(s, 1, b), parts, C) \o Those(SubSeq(s, b + 1, c), parts, C)
<1> DEFINE u == SubSeq(s, 1, b)
           v == SubSeq(s, b + 1, c)
<1>1. Len(s) \in Nat /\ s \in Seq(Char) /\ 0 \in 0..Len(s) /\ b \in 0..Len(s) /\ 0 + 1 = 1
  BY DEF Text
<1>2. EndedAt(s, 0)
  BY DEF EndedAt, Before, Ended
<1>3. u \in Text /\ Closed(u)
  <2>1. SubSeq(s, 0 + 1, b) \in Text /\ Closed(SubSeq(s, 0 + 1, b))
    BY <1>1, <1>2, PartsSub
  <2> QED BY <1>1, <2>1
<1>4. v \in Text
  BY <1>1, PartsSub
<1>5. u \o v = SubSeq(s, 1, c)
  <2>1. 1 \in 1..(Len(s) + 1) /\ b \in (1 - 1)..Len(s) /\ c \in b..Len(s)
    BY <1>1
  <2> QED BY <1>1, <2>1, ConcatAdjacentSubSeq
<1> HIDE DEF u, v
<1>6. Those(u \o v, parts, C) = Those(u, parts, C) \o Those(v, parts, C)
  BY <1>3, <1>4, ThoseConcat
<1> QED BY <1>3, <1>4, <1>5, <1>6 DEF u, v

\* Content and tags begin where nothing is open.
LEMMA BeginsAt ==
  ASSUME NEW s \in Text, NEW n \in 0..(Len(s) - 1)
  PROVE  /\ Parts(s)[n + 1] \in {"content", "escape", "opens"} => EndedAt(s, n)
         /\ Parts(s)[n + 1] = "content" => EndedAt(s, n + 1)
         /\ Parts(s)[n + 1] = "opens" => s[n + 1] = Backslash
         /\ Parts(s)[n + 1] = "in" => Before(Parts(s), n + 1) \in {"opens", "in"}
         /\ Before(Parts(s), n + 2) = Parts(s)[n + 1]
         /\ Parts(s)[n + 1] = "escape" => n + 1 < Len(s)
<1>1. Len(s) \in Nat /\ n \in Nat /\ n + 1 \in 1..Len(s) /\ n + 2 # 1 /\ (n + 2) - 1 = n + 1
  BY DEF Text
<1>2. Parts(s)[n + 1] = PartAfter(Before(Parts(s), n + 1), s, n + 1)
  BY <1>1, PartsRule
<1>3. Before(Parts(s), n + 1) \in PartNames
  BY <1>1, PartsType DEF Before, PartNames
<1>4. Before(Parts(s), n + 2) = Parts(s)[n + 1]
  BY <1>1 DEF Before
<1>5. (n + 1) + 1 = n + 2
  BY <1>1
<1> QED BY <1>1, <1>2, <1>3, <1>4, <1>5, PartsChars DEF PartAfter, Starts, EndedAt, Ended, PartNames

\* No word loses what terminate must not take from it.
PiecesKeep(s, parts, C) ==
  \A a \in 0..Len(s) : \A b \in a..Len(s) :
    EndedAt(s, a) /\ EndedAt(s, b) =>
      Those(terminate(SubSeq(s, a + 1, b)), parts, C) = Those(SubSeq(s, a + 1, b), parts, C)

\* The state of the walk after n characters: the words say the first b, the piece being read is
\* the rest.
SaysUpTo(st, s, n, b, parts, C) ==
  /\ b \in 0..n /\ EndedAt(s, b)
  /\ st.current = SubSeq(s, b + 1, n)
  /\ \A i \in 1..Len(st.words) : Closed(st.words[i])
  /\ st.words = <<>> => b = 0
  /\ AllOf(st.words, parts, C) = Those(SubSeq(s, 1, b), parts, C)
  /\ st.has => Before(Parts(s), n + 1) \notin {"opens", "in"}

LEMMA SaysFlush ==
  ASSUME NEW s \in Text, NEW n \in 0..Len(s), NEW b, NEW parts, NEW C, NEW st \in SplitState,
         SaysUpTo(st, s, n, b, parts, C), PiecesKeep(s, parts, C), st.has, EndedAt(s, n)
  PROVE  /\ flush(st).words # <<>>
         /\ \A i \in 1..Len(flush(st).words) : Closed(flush(st).words[i])
         /\ AllOf(flush(st).words, parts, C) = Those(SubSeq(s, 1, n), parts, C)
<1> DEFINE ws == st.words
           w == SubSeq(s, b + 1, n)
           t == terminate(w)
<1>1. Len(s) \in Nat /\ n \in Nat /\ b \in 0..Len(s) /\ n \in b..Len(s)
  BY DEF SaysUpTo, Text
<1>2. EndedAt(s, b) /\ st.current = w /\ AllOf(ws, parts, C) = Those(SubSeq(s, 1, b), parts, C)
      /\ \A i \in 1..Len(ws) : Closed(ws[i])
  BY DEF SaysUpTo
<1>3. w \in Text /\ Closed(w)
  BY <1>1, <1>2, PartsSub
<1>4. ws \in Seq(Text)
  BY DEF SplitState
<1>5. flush(st).words = Append(ws, t)
  BY <1>2, FlushRule
<1>6. Those(t, parts, C) = Those(w, parts, C)
  BY <1>1, <1>2 DEF PiecesKeep
<1>7. Those(SubSeq(s, 1, n), parts, C) = Those(SubSeq(s, 1, b), parts, C) \o Those(w, parts, C)
  BY <1>1, <1>2, ThoseSub
<1> HIDE DEF w
<1>8. t \in Text /\ Closed(t)
  BY <1>3, TerminateType, TerminateCloses
<1> HIDE DEF t, ws
<1>9. AllOf(Append(ws, t), parts, C) = AllOf(ws, parts, C) \o Those(t, parts, C)
  BY <1>4, <1>8, AllOfAppend
<1>10. /\ Append(ws, t) # <<>>
       /\ \A i \in 1..Len(Append(ws, t)) : Closed(Append(ws, t)[i])
  <2>1. /\ Len(Append(ws, t)) = Len(ws) + 1 /\ Len(ws) \in Nat /\ Append(ws, t) # <<>>
        /\ \A i \in 1..Len(ws) : Append(ws, t)[i] = ws[i]
        /\ Append(ws, t)[Len(ws) + 1] = t
    BY <1>4, <1>8, AppendProperties
  <2>2. \A i \in 1..(Len(ws) + 1) : i \in 1..Len(ws) \/ i = Len(ws) + 1
    BY <2>1
  <2> QED BY <1>2, <1>8, <2>1, <2>2
<1> QED BY <1>2, <1>5, <1>6, <1>7, <1>9, <1>10


\* One character more.
LEMMA SaysStep ==
  ASSUME NEW s \in Text, NEW n \in 0..(Len(s) - 1), NEW b, NEW parts, NEW C,
         NEW st \in SplitState, SaysUpTo(st, s, n, b, parts, C), PiecesKeep(s, parts, C),
         "content" \notin parts \/ Space \notin C
  PROVE  \E k \in 0..(n + 1) :
           SaysUpTo(ReadChar(st, s[n + 1], Parts(s)[n + 1]), s, n + 1, k, parts, C)
<1> DEFINE c == s[n + 1]
           p == Parts(s)[n + 1]
           nx == ReadChar(st, c, p)
<1>1. /\ Len(s) \in Nat /\ n \in Nat /\ n \in 0..Len(s) /\ n + 1 \in 1..Len(s) /\ c \in Char
      /\ n + 1 \in 0..(n + 1) /\ n \in 0..(n + 1) /\ (n + 1) + 1 = n + 2 /\ n + 1 \in n..Len(s)
      /\ n + 1 \in 0..Len(s)
  BY DEF Text
<1>2. /\ p \in {"content", "escape", "opens"} => EndedAt(s, n)
      /\ p = "content" => EndedAt(s, n + 1)
      /\ p = "opens" => c = Backslash
      /\ p = "in" => Before(Parts(s), n + 1) \in {"opens", "in"}
      /\ Before(Parts(s), n + 2) = p
  BY BeginsAt
<1>3. b \in 0..n /\ EndedAt(s, b) /\ st.current = SubSeq(s, b + 1, n)
      /\ (\A i \in 1..Len(st.words) : Closed(st.words[i]))
      /\ (st.words = <<>> => b = 0)
      /\ AllOf(st.words, parts, C) = Those(SubSeq(s, 1, b), parts, C)
      /\ (st.has => Before(Parts(s), n + 1) \notin {"opens", "in"})
  BY DEF SaysUpTo
<1>4. st.has /\ EndedAt(s, n) =>
        /\ flush(st).words # <<>>
        /\ \A i \in 1..Len(flush(st).words) : Closed(flush(st).words[i])
        /\ AllOf(flush(st).words, parts, C) = Those(SubSeq(s, 1, n), parts, C)
  BY <1>1, SaysFlush
<1>5. SubSeq(s, n + 1, n + 1) = <<c>>
  <2>1. s \in Seq(Char) /\ n + 1 \in Int
    BY <1>1 DEF Text
  <2> DEFINE m == n + 1
  <2>2. m \in 1..Len(s) /\ Len(s) \in Nat
    BY <1>1
  <2>3. m \in m..Len(s) /\ m \in Int /\ m - 1 \in Int /\ m - 1 < m /\ s[m] \in Char
    BY <2>1, <2>2
  <2> HIDE DEF m
  <2>4. SubSeq(s, m, m) = SubSeq(s, m, m - 1) \o <<s[m]>>
    BY <2>1, <2>2, <2>3, SubSeqRecursiveSecond
  <2>5. SubSeq(s, m, m - 1) = <<>>
    BY <2>3, SubSeqEmpty
  <2>6. <<s[m]>> \in Seq(Char)
    BY <2>3
  <2>7. <<>> \o <<s[m]>> = <<s[m]>>
    BY <2>6, ConcatEmptySeq
  <2> QED BY <2>4, <2>5, <2>7 DEF m
<1> HIDE DEF c, p
<1>9. ReadsBy(nx, st, c, p)
  <2>1. c \in Char
    BY <1>1
  <2> QED BY <2>1, ReadCharRule
<1> HIDE DEF nx
<1>6. CASE p = "content" /\ c = Space /\ st.has
  <2>1. nx.current = <<>> /\ nx.words = flush(st).words /\ nx.has = FALSE
    BY <1>6, <1>9, FlushRule DEF ReadsBy
  <2>2. EndedAt(s, n) /\ EndedAt(s, n + 1)
    BY <1>2, <1>6
  <2>3. SubSeq(s, (n + 1) + 1, n + 1) = <<>>
    BY <1>1, SubSeqEmpty
  <2>4. Those(SubSeq(s, 1, n + 1), parts, C) = Those(SubSeq(s, 1, n), parts, C)
    <3>1. Those(<<c>>, parts, C) = <<>>
      <4>1. <<c>> \in Text /\ Len(<<c>>) = 1 /\ <<c>>[1] = Space
        BY <1>1, <1>6 DEF Text
      <4>2. Parts(<<c>>)[1] = "content"
        BY <4>1, PartsRule, CharFacts DEF PartAfter, Before, Starts
      <4>3. \A i \in 1..Len(<<c>>) : i = 1
        BY <4>1
      <4> DEFINE t == <<c>>
      <4>4. \A i \in 1..Len(t) : Parts(t)[i] \in parts => t[i] \notin C
        BY <4>1, <4>2, <4>3
      <4> HIDE DEF t
      <4>5. t \in Text => Those(t, parts, C) = <<>>
        BY <4>4, ThoseNone
      <4> QED BY <4>1, <4>5 DEF t
    <3>2. Those(SubSeq(s, 1, n + 1), parts, C)
            = Those(SubSeq(s, 1, n), parts, C) \o Those(SubSeq(s, n + 1, n + 1), parts, C)
      BY <1>1, <2>2, ThoseSub
    <3>3. Those(SubSeq(s, 1, n), parts, C) \in Seq(Char)
      BY <1>1, <2>2, ThoseSub, ThoseType DEF Text
    <3> QED BY <1>5, <3>1, <3>2, <3>3, ConcatEmptySeq
  <2>5. SaysUpTo(nx, s, n + 1, n + 1, parts, C)
    BY <1>1, <1>4, <1>6, <2>1, <2>2, <2>3, <2>4 DEF SaysUpTo
  <2> QED BY <1>1, <2>5 DEF c, p, nx
<1>7. CASE p = "opens" /\ st.has
  <2>1. nx.current = <<c>> /\ nx.words = flush(st).words /\ nx.has = FALSE
    BY <1>7, <1>9 DEF ReadsBy
  <2>2. EndedAt(s, n)
    BY <1>2, <1>7
  <2>3. SaysUpTo(nx, s, n + 1, n, parts, C)
    BY <1>1, <1>4, <1>5, <1>7, <2>1, <2>2 DEF SaysUpTo
  <2> QED BY <1>1, <2>3 DEF c, p, nx
<1>8. CASE ~(p = "content" /\ c = Space /\ st.has) /\ ~(p = "opens" /\ st.has)
  <2>1. /\ nx.words = st.words /\ nx.current = Append(st.current, c)
        /\ nx.has = (st.has \/ p = "escape" \/ (p = "content" /\ c \in Letters))
    BY <1>8, <1>9 DEF ReadsBy
  <2>2. Append(SubSeq(s, b + 1, n), c) = SubSeq(s, b + 1, n + 1)
    <3> DEFINE m == b + 1
               k == n + 1
               u == SubSeq(s, m, n)
    <3>0. b \in 0..n
      BY <1>3
    <3>1. m \in 1..Len(s) /\ k \in m..Len(s) /\ k - 1 = n /\ s \in Seq(Char)
      BY <1>1, <3>0 DEF Text
    <3>2. u \in Seq(Char)
      <4>1. \A i \in m..n : s[i] \in Char
        BY <1>1, <3>1
      <4>2. m \in Int /\ n \in Int
        BY <1>1, <3>1
      <4> HIDE DEF m
      <4> QED BY <3>1, <4>1, <4>2, SubSeqProperties
    <3> HIDE DEF m, k
    <3>3. SubSeq(s, m, k) = SubSeq(s, m, k - 1) \o <<s[k]>>
      BY <3>1, SubSeqRecursiveSecond
    <3>4. SubSeq(s, m, k) = u \o <<c>>
      BY <3>1, <3>3 DEF c, k
    <3> HIDE DEF u
    <3>5. u \o <<c>> = Append(u, c)
      BY <3>2, <1>1 
    <3> QED BY <3>4, <3>5 DEF u, m, k
  <2>3. nx.has => p \notin {"opens", "in"}
    BY <1>2, <1>3, <1>8, <2>1
  <2>4. b \in 0..(n + 1)
    BY <1>1, <1>3
  <2>5. SaysUpTo(nx, s, n + 1, b, parts, C)
    BY <1>1, <1>2, <1>3, <2>1, <2>2, <2>3, <2>4 DEF SaysUpTo
  <2> QED BY <2>4, <2>5 DEF c, p, nx
<1> QED BY <1>6, <1>7, <1>8


\* The words say the text, if there are any.
LEMMA SplitSays ==
  ASSUME NEW s \in Text, NEW parts, NEW C, PiecesKeep(s, parts, C),
         "content" \notin parts \/ Space \notin C, splitIntoWords(s) # <<>>
  PROVE  AllOf(splitIntoWords(s), parts, C) = Those(s, parts, C)
<1> DEFINE N == Len(s)
           S(f) == {n \in 0..N : \E k \in 0..n : SaysUpTo(f[n], s, n, k, parts, C)}
<1>1. N \in Nat /\ (\A n \in 1..N : s[n] \in Char) /\ SubSeq(s, 1, N) = s /\ <<>> \in Text
  BY WholePrefix DEF Text
<1>2. PICK f \in [0..N -> SplitState] : Walks(f, s) /\ splitIntoWords(s) = flush(f[N]).words
  BY SplitRule
<1>3. 0 \in S(f)
  <2> DEFINE zero == [words |-> <<>>, current |-> <<>>, has |-> FALSE]
  <2>1. f[0] = zero
    BY <1>2 DEF Walks
  <2>2. 0 \in 0..0 /\ 0 \in 0..N /\ EndedAt(s, 0)
    BY <1>1 DEF EndedAt, Before, Ended
  <2>3. SubSeq(s, 0 + 1, 0) = <<>> /\ SubSeq(s, 1, 0) = <<>>
    BY SubSeqEmpty
  <2>4. Those(<<>>, parts, C) = <<>>
    BY KeptEmpty, ThoseAreKept
  <2>5. SaysUpTo(zero, s, 0, 0, parts, C)
    BY <2>2, <2>3, <2>4, AllOfNone DEF SaysUpTo
  <2> HIDE DEF zero
  <2> QED BY <2>1, <2>2, <2>5
<1>4. \A n \in 0..(N - 1) : n \in S(f) => n + 1 \in S(f)
  <2> SUFFICES ASSUME NEW n \in 0..(N - 1), n \in S(f) PROVE n + 1 \in S(f)
    OBVIOUS
  <2>1. n + 1 \in 1..N /\ n + 1 \in 0..N /\ (n + 1) - 1 = n /\ n \in 0..N
    BY <1>1
  <2>2. PICK b : SaysUpTo(f[n], s, n, b, parts, C)
    OBVIOUS
  <2>3. f[n] \in SplitState
    BY <2>1
  <2>4. f[n + 1] = ReadChar(f[n], s[n + 1], Parts(s)[n + 1])
    BY <1>2, <2>1 DEF Walks
  <2>5. \E k \in 0..(n + 1) :
          SaysUpTo(ReadChar(f[n], s[n + 1], Parts(s)[n + 1]), s, n + 1, k, parts, C)
    BY <2>2, <2>3, SaysStep
  <2> QED BY <2>1, <2>4, <2>5
<1>5. N \in S(f)
  <2>1. N \in 0..N
    BY <1>1
  <2> HIDE DEF S
  <2> QED BY <1>1, <1>3, <1>4, <2>1, UpToInduction
<1> DEFINE st == f[N]
<1>6. st \in SplitState
  BY <1>1
<1>7. PICK b \in 0..N : SaysUpTo(st, s, N, b, parts, C)
  BY <1>5
<1> HIDE DEF st
<1>8. CASE st.has
  <2>1. EndedAt(s, N)
    <3>1. CASE N = 0
      BY <3>1 DEF EndedAt, Before, Ended
    <3>2. CASE N # 0
      <4> DEFINE m == N - 1
      <4>1. m \in 0..(N - 1) /\ m + 1 = N /\ m + 2 = N + 1
        BY <1>1, <3>2
      <4>2. Before(Parts(s), N + 1) \notin {"opens", "in"}
        BY <1>7, <1>8 DEF SaysUpTo
      <4> HIDE DEF m
      <4>3. Before(Parts(s), N + 1) = Parts(s)[N] /\ (Parts(s)[N] = "escape" => N < N)
        BY <4>1, BeginsAt
      <4>4. Parts(s)[N] \in PartNames
        <5>1. N \in 1..N
          BY <1>1, <3>2
        <5> QED BY <5>1, PartsType
      <4> QED BY <1>1, <4>2, <4>3, <4>4 DEF EndedAt, Ended, PartNames
    <3> QED BY <3>1, <3>2
  <2>2. N \in 0..Len(s)
    BY <1>1
  <2>3. AllOf(flush(st).words, parts, C) = Those(SubSeq(s, 1, N), parts, C)
    BY <1>6, <1>7, <1>8, <2>1, <2>2, SaysFlush
  <2> QED BY <1>1, <1>2, <2>3 DEF st
<1>9. CASE ~st.has
  <2> DEFINE ws == st.words
             t == SubSeq(s, b + 1, N)
  <2>1. ws # <<>> /\ splitIntoWords(s) = [ws EXCEPT ![Len(ws)] = @ \o t]
    <3>1. splitIntoWords(s) = flush(st).words /\ st.current = t
      BY <1>2, <1>7 DEF st, SaysUpTo
    <3> QED BY <1>6, <1>9, <3>1, FlushRule
  <2>2. ws \in Seq(Text)
    BY <1>6 DEF SplitState
  <2>3. /\ EndedAt(s, b) /\ AllOf(ws, parts, C) = Those(SubSeq(s, 1, b), parts, C)
        /\ \A i \in 1..Len(ws) : Closed(ws[i])
    BY <1>7 DEF SaysUpTo
  <2>4. b \in 0..Len(s) /\ N \in b..Len(s)
    BY <1>1
  <2>5. t \in Text /\ Those(SubSeq(s, 1, N), parts, C)
                        = Those(SubSeq(s, 1, b), parts, C) \o Those(t, parts, C)
    BY <2>3, <2>4, ThoseSub
  <2> HIDE DEF ws, t
  <2>6. Closed(ws[Len(ws)])
    <3>1. Len(ws) \in 1..Len(ws)
      BY <2>1, <2>2
    <3> QED BY <2>3, <3>1
  <2>7. AllOf(splitIntoWords(s), parts, C) = AllOf(ws, parts, C) \o Those(t, parts, C)
    <3> DEFINE xs == splitIntoWords(s)
    <3>1. IsLonger(xs, ws, t)
      BY <2>1 DEF IsLonger
    <3>2. ws # <<>>
      BY <2>1
    <3> HIDE DEF xs
    <3>3. AllOf(xs, parts, C) = AllOf(ws, parts, C) \o Those(t, parts, C)
      BY <2>2, <2>5, <2>6, <3>1, <3>2, AllOfLonger
    <3> QED BY <3>3 DEF xs
  <2> QED BY <1>1, <2>1, <2>3, <2>5, <2>7
<1> QED BY <1>8, <1>9

\* No letter is lost, and without an escaped backslash no tag.
LEMMA WordsSpeak ==
  ASSUME NEW s \in Text, splitIntoWords(s) # <<>>
  PROVE  AllOf(splitIntoWords(s), {"content"}, Letters) = Spoken(s)
<1>1. PiecesKeep(s, {"content"}, Letters)
  <2> SUFFICES ASSUME NEW a \in 0..Len(s), NEW b \in a..Len(s), EndedAt(s, a), EndedAt(s, b)
               PROVE  Those(terminate(SubSeq(s, a + 1, b)), {"content"}, Letters)
                        = Those(SubSeq(s, a + 1, b), {"content"}, Letters)
    BY DEF PiecesKeep
  <2>1. SubSeq(s, a + 1, b) \in Text
    BY PartsSub
  <2> QED BY <2>1, TerminateSpoken DEF Spoken
<1> QED BY <1>1, CharFacts, SplitSays DEF Spoken

LEMMA WordsKeepTags ==
  ASSUME NEW s \in Text, splitIntoWords(s) # <<>>, Escapes(s) = <<>>
  PROVE  AllOf(splitIntoWords(s), {"opens", "in", "closes"}, {Backslash, "m", Stop, Space}) = Tags(s)
<1> DEFINE P == {"opens", "in", "closes"}
           C == {Backslash, "m", Stop, Space}
<1>1. \A i \in 1..Len(s) : Parts(s)[i] # "escape"
  <2> SUFFICES ASSUME NEW i \in 1..Len(s), Parts(s)[i] = "escape" PROVE FALSE
    OBVIOUS
  <2>1. s[i] \in {Backslash} /\ Parts(s)[i] \in {"escape", "escaped"}
    BY PartsChars
  <2> QED BY <2>1, ThoseSome DEF Escapes
<1>2. PiecesKeep(s, P, C)
  <2> SUFFICES ASSUME NEW a \in 0..Len(s), NEW b \in a..Len(s), EndedAt(s, a), EndedAt(s, b)
               PROVE  Those(terminate(SubSeq(s, a + 1, b)), P, C) = Those(SubSeq(s, a + 1, b), P, C)
    BY DEF PiecesKeep
  <2> DEFINE w == SubSeq(s, a + 1, b)
  <2>1. w \in Text /\ Len(w) = b - a /\ \A i \in 1..(b - a) : Parts(w)[i] = Parts(s)[a + i]
    BY PartsSub
  <2>2. Len(s) \in Nat /\ \A i \in 1..(b - a) : a + i \in 1..Len(s)
    BY DEF Text
  <2> HIDE DEF w
  <2>3. ~EndsInEscape(w)
    <3> SUFFICES ASSUME EndsInEscape(w) PROVE FALSE
      OBVIOUS
    <3>1. LastContent(w) \in 1..Len(w) /\ w[LastContent(w)] = Backslash /\ Counts(w, LastContent(w))
      BY <2>1, LastContentRule DEF EndsInEscape
    <3>2. Parts(w)[LastContent(w)] # "content"
      BY <2>1, <3>1, PartsChars
    <3> QED BY <1>1, <2>1, <2>2, <3>1, <3>2 DEF Counts
  <2>4. Those(terminate(w), P, C) = Those(w, P, C)
    BY <2>1, <2>3, TerminateThose
  <2> QED BY <2>4 DEF w
<1>3. AllOf(splitIntoWords(s), P, C) = Those(s, P, C)
  <2> HIDE DEF C
  <2> QED BY <1>2, SplitSays
<1> QED BY <1>3 DEF Tags

\* A letter to say is in a word.
LEMMA SpeakableSplits ==
  ASSUME NEW s \in Text, hasSpeakableContent(s)
  PROVE  splitIntoWords(s) # <<>>
<1> DEFINE N == Len(s)
           Letter(i) == Parts(s)[i] = "content" /\ s[i] \in Letters
           Met(st, n) == (\E i \in 1..n : Letter(i)) => st.has \/ st.words # <<>>
           S(f) == {n \in 0..N : Met(f[n], n)}
<1>1. N \in Nat /\ \A n \in 1..N : s[n] \in Char
  BY DEF Text
<1>2. PICK f \in [0..N -> SplitState] : Walks(f, s) /\ splitIntoWords(s) = flush(f[N]).words
  BY SplitRule
<1>3. \E i \in 1..N : Letter(i)
  <2> SUFFICES ASSUME \A i \in 1..N : ~Letter(i) PROVE FALSE
    OBVIOUS
  <2>1. \A i \in 1..Len(s) : Parts(s)[i] \in {"content"} => s[i] \notin Letters
    OBVIOUS
  <2>2. Those(s, {"content"}, Letters) = <<>>
    BY <2>1, ThoseNone
  <2> QED BY <2>2 DEF hasSpeakableContent
<1>4. 0 \in S(f)
  BY <1>1
<1>5. \A n \in 0..(N - 1) : n \in S(f) => n + 1 \in S(f)
  <2> SUFFICES ASSUME NEW n \in 0..(N - 1), n \in S(f) PROVE n + 1 \in S(f)
    OBVIOUS
  <2> DEFINE st == f[n]
             nx == f[n + 1]
             c == s[n + 1]
             p == Parts(s)[n + 1]
  <2>1. n + 1 \in 1..N /\ n + 1 \in 0..N /\ (n + 1) - 1 = n /\ n \in 0..N /\ c \in Char
    BY <1>1
  <2>2. st \in SplitState /\ st.has \in BOOLEAN /\ Met(st, n)
    BY <2>1 DEF SplitState
  <2>3. ReadsBy(nx, st, c, p)
    <3>1. nx = ReadChar(st, c, p)
      BY <1>2, <2>1 DEF Walks
    <3> HIDE DEF nx, st, c, p
    <3> QED BY <2>1, <2>2, <3>1, ReadCharRule
  <2>4. Letter(n + 1) <=> p = "content" /\ c \in Letters
    OBVIOUS
  <2>5. \A i \in 1..(n + 1) : i \in 1..n \/ i = n + 1
    BY <2>1
  <2> HIDE DEF nx, st, c, p, Letter
  <2>6. st.has => flush(st).words # <<>>
    <3> SUFFICES ASSUME st.has PROVE flush(st).words # <<>>
      OBVIOUS
    <3> DEFINE ws == st.words
               t == terminate(st.current)
    <3>1. ws \in Seq(Text) /\ t \in Text /\ flush(st).words = Append(ws, t)
      BY <2>2, FlushRule, TerminateType DEF SplitState
    <3> HIDE DEF ws, t
    <3> QED BY <3>1, AppendProperties
  <2>7. Met(nx, n + 1)
    <3>1. SUFFICES ASSUME \E i \in 1..(n + 1) : Letter(i) PROVE nx.has \/ nx.words # <<>>
      OBVIOUS
    <3>2. st.has \/ st.words # <<>> \/ (p = "content" /\ c \in Letters)
      BY <2>2, <2>4, <2>5, <3>1
    <3>3. CASE p = "content" /\ c = Space /\ st.has
      BY <2>3, <2>6, <3>3 DEF ReadsBy
    <3>4. CASE p = "opens" /\ st.has
      BY <2>3, <2>6, <3>4 DEF ReadsBy
    <3>5. CASE ~(p = "content" /\ c = Space /\ st.has) /\ ~(p = "opens" /\ st.has)
      BY <2>3, <3>2, <3>5 DEF ReadsBy
    <3> QED BY <3>3, <3>4, <3>5
  <2> QED BY <2>1, <2>7 DEF nx, Letter
<1>6. N \in S(f)
  <2>1. N \in 0..N
    BY <1>1
  <2> HIDE DEF S
  <2> QED BY <1>1, <1>4, <1>5, <2>1, UpToInduction
<1> DEFINE st == f[N]
<1>7. st \in SplitState /\ (st.has \/ st.words # <<>>)
  BY <1>1, <1>3, <1>6
<1> HIDE DEF st
<1> DEFINE ws == st.words
           t == terminate(st.current)
           x == st.current
<1>8. ws \in Seq(Text) /\ t \in Text /\ x \in Text
  BY <1>7, TerminateType DEF SplitState
<1>9. \/ flush(st).words = Append(ws, t)
      \/ ws # <<>> /\ flush(st).words = [ws EXCEPT ![Len(ws)] = @ \o x]
  BY <1>7, FlushRule
<1> HIDE DEF ws, t, x
<1>10. Append(ws, t) # <<>>
  BY <1>8, AppendProperties
<1>11. ws # <<>> => [ws EXCEPT ![Len(ws)] = @ \o x] # <<>>
  BY <1>8
<1> QED BY <1>2, <1>9, <1>10, <1>11 DEF st


-----------------------------------------------------------------------------
(* What a run of the repairs holds, for every text that can be put together. *)

TextInv ==
  /\ text \in Text /\ pass \in 0..4
  /\ out = IF pass \in 1..3 THEN repairText(text, pass) ELSE <<>>
  /\ words = IF pass = 4 THEN splitIntoWords(text) ELSE <<>>

LEMMA PiecesAreText == Pieces \subseteq Text
<1>1. \A c, d \in Char : <<c, d>> \in Seq(Char)
  OBVIOUS
<1>2. \A c \in Char : <<c>> \in Seq(Char)
  OBVIOUS
<1>3. \A c, d, e, f, g \in Char : <<c, d, e, f, g>> \in Seq(Char)
  OBVIOUS
<1>4. Pieces = {<<"a">>, <<"A">>, <<Stop>>, <<"%">>, <<"&">>, <<Space>>, <<Backslash, Backslash>>,
               <<Space, Backslash, "m", Backslash, Space>>}
  BY DEF Pieces, Escape, Tag
<1>5. /\ {"a", "A", "%", "&", "m", Stop, Space, Backslash} \subseteq Char
  BY DEF Char, Letters
<1> QED BY <1>1, <1>2, <1>3, <1>4, <1>5 DEF Text

\* A text is only ever put together from characters, and what is tried is what speak tries.
THEOREM TextHolds == Spec => []TextInv
<1>1. Init => TextInv
  <2>1. <<>> \in Text
    BY DEF Text
  <2> QED BY <2>1 DEF Init, TextInv
<1>2. TextInv /\ [Next]_vars => TextInv'
  <2> SUFFICES ASSUME TextInv, [Next]_vars PROVE TextInv'
    OBVIOUS
  <2>1. CASE AddPiece
    <3>1. pass = 0 /\ pass' = 0 /\ out' = <<>> /\ words' = <<>>
      BY <2>1 DEF AddPiece, TextInv
    <3>2. PICK p \in Pieces : text' = text \o p
      BY <2>1 DEF AddPiece
    <3>3. text \in Text /\ p \in Text
      BY PiecesAreText DEF TextInv
    <3>4. text' \in Text
      BY <3>2, <3>3, ConcatType
    <3> QED BY <3>1, <3>4 DEF TextInv
  <2>2. CASE NextPass
    BY <2>2 DEF NextPass, TextInv
  <2>3. CASE Split
    BY <2>3 DEF Split, TextInv
  <2>4. CASE UNCHANGED vars
    BY <2>4 DEF vars, TextInv
  <2> QED BY <2>1, <2>2, <2>3, <2>4 DEF Next, Tried
<1> QED BY <1>1, <1>2, PTL DEF Spec

\* A repair leaves the tags and the escaped backslashes of any text as they are, unless what it
\* terminates ends in an escaped backslash (skipTagOrEscape, terminate).
THEOREM RepairsKeepTags == Spec => []RepairKeepsTagsIfEndsWell
<1>1. TextInv => RepairKeepsTagsIfEndsWell
  <2> SUFFICES ASSUME TextInv, EndsWell, out # <<>>
               PROVE  Tags(out) = Tags(text) /\ Escapes(out) = Escapes(text)
    BY DEF RepairKeepsTagsIfEndsWell, RepairKeepsTags
  <2>1. pass \in 1..3 /\ text \in Text /\ out = repairText(text, pass)
    BY DEF TextInv
  <2>2. ~EndsInEscape(RepairContent(text, pass))
    BY <2>1 DEF EndsWell
  <2> QED BY <2>1, <2>2, RepairKeeps
<1> QED BY <1>1, TextHolds, PTL

\* Repairing any text once more changes nothing (repairText, terminate).
THEOREM RepairsOnce == Spec => []RepairOnce
<1>1. TextInv => RepairOnce
  <2> SUFFICES ASSUME TextInv, out # <<>>, pass \in 1..3, EndsWell
               PROVE  repairText(out, pass) = <<>>
    BY DEF RepairOnce
  <2>1. pass \in Nat /\ text \in Text /\ out = repairText(text, pass)
    BY DEF TextInv
  <2>2. ~EndsInEscape(RepairContent(text, pass))
    BY DEF EndsWell
  <2> QED BY <2>1, <2>2, RepairOnceLemma
<1> QED BY <1>1, TextHolds, PTL

\* The words of any text say its letters and tags, each once and in order (splitIntoWords).
THEOREM WordsSay == Spec => []WordsSayItAll
<1>1. TextInv => WordsSayItAll
  <2> SUFFICES ASSUME TextInv, pass = 4, words # <<>>
      PROVE  /\ FlattenSeq([i \in 1..Len(words) |-> Spoken(words[i])]) = Spoken(text)
             /\ Escapes(text) = <<>> =>
                  FlattenSeq([i \in 1..Len(words) |-> Tags(words[i])]) = Tags(text)
    BY DEF WordsSayItAll
  <2>1. text \in Text /\ words = splitIntoWords(text) /\ splitIntoWords(text) # <<>>
    BY DEF TextInv
  <2>2. AllOf(words, {"content"}, Letters) = Spoken(text)
    BY <2>1, WordsSpeak
  <2>3. Escapes(text) = <<>> =>
          AllOf(words, {"opens", "in", "closes"}, {Backslash, "m", Stop, Space}) = Tags(text)
    BY <2>1, WordsKeepTags
  <2>4. FlattenSeq([i \in 1..Len(words) |-> Spoken(words[i])]) = AllOf(words, {"content"}, Letters)
    BY DEF AllOf, Spoken
  <2>5. FlattenSeq([i \in 1..Len(words) |-> Tags(words[i])])
          = AllOf(words, {"opens", "in", "closes"}, {Backslash, "m", Stop, Space})
    BY DEF AllOf, Tags
  <2> QED BY <2>2, <2>3, <2>4, <2>5
<1> QED BY <1>1, TextHolds, PTL

\* Whatever text is worth repairing has words to fall back on (hasSpeakableContent).
THEOREM SpeakableWords == Spec => []SpeakableHasWords
<1>1. TextInv => SpeakableHasWords
  BY SpeakableSplits DEF TextInv, SpeakableHasWords
<1> QED BY <1>1, TextHolds, PTL


-----------------------------------------------------------------------------
(* Speak's text: its tags and what lies behind them.                        *)

\* The tags of markers in s, by the place of their "m"; the i-th character is that of the n-th.
Ms(s) == {i \in 1..Len(s) : Parts(s)[i] = "in" /\ s[i] = "m"}
Nth(s, i, n) == i \in Ms(s) /\ Cardinality({j \in Ms(s) : j <= i}) = n

\* Only spaces are said from lo to hi.
Quiet(s, lo, hi) == \A i \in lo..hi : Parts(s)[i] \in {"content", "escape"} => s[i] = Space

\* Nothing is said between the n-th tag and the place at.
Marked(s, n, at) == at \in 0..Len(s) /\ \E i \in Ms(s) : Nth(s, i, n) /\ Quiet(s, i + 3, at)

\* A tag is one of Speak's: a letter and the backslash that closes it.
Shaped(s) ==
  \A i \in 1..Len(s) : Parts(s)[i] = "in" => s[i] \in {"m", "p"} /\ i < Len(s) /\ s[i + 1] = Backslash

LEMMA MsType ==
  ASSUME NEW s \in Text
  PROVE  /\ Ms(s) \in SUBSET (1..Len(s)) /\ IsFiniteSet(Ms(s)) /\ Cardinality(Ms(s)) \in Nat
         /\ \A i : {j \in Ms(s) : j <= i} \in SUBSET Ms(s)
<1>1. Len(s) \in Nat
  BY PartsType
<1>2. IsFiniteSet(1..Len(s))
  BY <1>1, FS_Interval
<1>3. Ms(s) \in SUBSET (1..Len(s))
  BY DEF Ms
<1>4. IsFiniteSet(Ms(s))
  BY <1>2, <1>3, FS_Subset
<1> QED BY <1>3, <1>4, FS_CardinalityType

\* There is one n-th tag at most.
LEMMA NthOnce ==
  ASSUME NEW s \in Text, NEW n, NEW i, NEW k, Nth(s, i, n), Nth(s, k, n)
  PROVE  i = k
<1> DEFINE To(x) == {j \in Ms(s) : j <= x}
<1>1. i \in Ms(s) /\ k \in Ms(s) /\ Cardinality(To(i)) = Cardinality(To(k))
  BY DEF Nth
<1>2. i \in Int /\ k \in Int /\ \A j \in Ms(s) : j \in Int
  BY <1>1, MsType
<1>3. \A x : IsFiniteSet(To(x))
  BY MsType, FS_Subset
<1>4. \A x, y \in Ms(s) : x <= y /\ Cardinality(To(x)) = Cardinality(To(y)) => x = y
  <2> SUFFICES ASSUME NEW x \in Ms(s), NEW y \in Ms(s), x <= y,
                      Cardinality(To(x)) = Cardinality(To(y))
               PROVE  x = y
    OBVIOUS
  <2>1. x \in Int /\ y \in Int
    BY <1>2
  <2>2. To(x) \in SUBSET To(y)
    <3>1. \A j \in Ms(s) : j <= x => j <= y
      BY <1>2, <2>1
    <3> QED BY <3>1
  <2>3. To(y) = To(x)
    <3> DEFINE A == To(x)
               B == To(y)
    <3>1. A \in SUBSET B /\ IsFiniteSet(B) /\ Cardinality(B) = Cardinality(A)
      BY <1>3, <2>2
    <3> HIDE DEF A, B
    <3>2. B = A
      BY <3>1, FS_Subset
    <3> QED BY <3>2 DEF A, B
  <2>4. y \in To(y)
    BY <2>1
  <2>5. y \in To(x)
    BY <2>3, <2>4
  <2> QED BY <2>1, <2>5
<1> HIDE DEF To
<1>5. i <= k \/ k <= i
  BY <1>2
<1> QED BY <1>1, <1>4, <1>5

\* Text put behind s leaves its tags where they were.
LEMMA MsConcat ==
  ASSUME NEW s \in Text, NEW t \in Text, Closed(s)
  PROVE  /\ \A i \in 1..Len(s) : i \in Ms(s \o t) <=> i \in Ms(s)
         /\ \A j \in 1..Len(t) : Len(s) + j \in Ms(s \o t) <=> j \in Ms(t)
         /\ \A i \in Ms(s \o t) : i \in 1..Len(s) \/ \E j \in 1..Len(t) : i = Len(s) + j
<1> DEFINE st == s \o t
<1>1. /\ Len(s) \in Nat /\ Len(t) \in Nat /\ Len(st) = Len(s) + Len(t)
      /\ \A i \in 1..Len(s) : st[i] = s[i]
      /\ \A j \in 1..Len(t) : st[Len(s) + j] = t[j]
  BY ConcatRule
<1>2. /\ \A i \in 1..Len(s) : Parts(st)[i] = Parts(s)[i]
      /\ \A j \in 1..Len(t) : Parts(st)[Len(s) + j] = Parts(t)[j]
  BY PartsConcat
<1> HIDE DEF st
<1>3. \A i \in 1..Len(s) : i \in Ms(st) <=> i \in Ms(s)
  BY <1>1, <1>2 DEF Ms
<1>4. \A j \in 1..Len(t) : Len(s) + j \in Ms(st) <=> j \in Ms(t)
  BY <1>1, <1>2 DEF Ms
<1>5. \A i \in Ms(st) : i \in 1..Len(s) \/ \E j \in 1..Len(t) : i = Len(s) + j
  <2> SUFFICES ASSUME NEW i \in Ms(st), i \notin 1..Len(s) PROVE \E j \in 1..Len(t) : i = Len(s) + j
    OBVIOUS
  <2>1. i \in 1..Len(st)
    BY DEF Ms
  <2>2. i - Len(s) \in 1..Len(t) /\ i = Len(s) + (i - Len(s))
    BY <1>1, <2>1
  <2> QED BY <2>2
<1> QED BY <1>3, <1>4, <1>5 DEF st

LEMMA NthKept ==
  ASSUME NEW s \in Text, NEW t \in Text, Closed(s), NEW i, NEW n, Nth(s, i, n)
  PROVE  Nth(s \o t, i, n)
<1> DEFINE st == s \o t
<1>1. i \in Ms(s) /\ i \in 1..Len(s) /\ Len(s) \in Nat /\ st \in Text
  BY MsType, PartsType, ConcatType DEF Nth
<1>2. (\A k \in 1..Len(s) : k \in Ms(st) <=> k \in Ms(s)) /\ Ms(st) \in SUBSET (1..Len(st))
  BY <1>1, MsConcat, MsType
<1>3. Ms(s) \in SUBSET (1..Len(s)) /\ Len(st) \in Nat
  BY <1>1, MsType, PartsType
<1> HIDE DEF st
<1>4. {j \in Ms(st) : j <= i} = {j \in Ms(s) : j <= i}
  <2>1. \A j \in Ms(st) : j <= i => j \in 1..Len(s)
    BY <1>1, <1>2, <1>3
  <2> QED BY <1>1, <1>2, <1>3, <2>1
<1>5. i \in Ms(st)
  BY <1>1, <1>2
<1>6. Cardinality({j \in Ms(s) : j <= i}) = n
  BY DEF Nth
<1>7. Nth(st, i, n)
  BY <1>4, <1>5, <1>6 DEF Nth
<1> QED BY <1>7 DEF st

LEMMA MarkedKept ==
  ASSUME NEW s \in Text, NEW t \in Text, Closed(s), NEW n, NEW at, Marked(s, n, at)
  PROVE  /\ Marked(s \o t, n, at)
         /\ at = Len(s) /\ Quiet(t, 1, Len(t)) => Marked(s \o t, n, Len(s \o t))
<1> DEFINE st == s \o t
<1>1. PICK i \in Ms(s) : at \in 0..Len(s) /\ Nth(s, i, n) /\ Quiet(s, i + 3, at)
  BY DEF Marked
<1>2. Nth(st, i, n) /\ i \in Ms(st) /\ i \in 1..Len(s)
  <2>1. Nth(st, i, n)
    BY <1>1, NthKept
  <2> QED BY <1>1, <2>1, MsType DEF Nth
<1>3. /\ Len(s) \in Nat /\ Len(t) \in Nat /\ Len(st) = Len(s) + Len(t)
      /\ \A k \in 1..Len(s) : st[k] = s[k]
      /\ \A j \in 1..Len(t) : st[Len(s) + j] = t[j]
  BY ConcatRule
<1>4. /\ \A k \in 1..Len(s) : Parts(st)[k] = Parts(s)[k]
      /\ \A j \in 1..Len(t) : Parts(st)[Len(s) + j] = Parts(t)[j]
  BY PartsConcat
<1> HIDE DEF st
<1>5. Quiet(st, i + 3, at)
  <2>1. \A k \in (i + 3)..at : k \in 1..Len(s)
    BY <1>1, <1>2, <1>3
  <2> QED BY <1>1, <1>3, <1>4, <2>1 DEF Quiet
<1>6. Marked(st, n, at)
  <2>1. at \in 0..Len(st)
    BY <1>1, <1>3
  <2> QED BY <1>2, <1>5, <2>1 DEF Marked
<1>7. ASSUME at = Len(s), Quiet(t, 1, Len(t)) PROVE Marked(st, n, Len(st))
  <2>1. ASSUME NEW k \in (i + 3)..Len(st), Parts(st)[k] \in {"content", "escape"}
        PROVE  st[k] = Space
    <3>1. CASE k <= Len(s)
      <4>1. k \in (i + 3)..at
        BY <1>2, <1>3, <1>7, <3>1
      <4> QED BY <1>5, <2>1, <4>1 DEF Quiet
    <3>2. CASE k > Len(s)
      <4> DEFINE j == k - Len(s)
      <4>1. j \in 1..Len(t) /\ k = Len(s) + j
        BY <1>2, <1>3, <3>2
      <4> HIDE DEF j
      <4>2. Parts(t)[j] = Parts(st)[k] /\ st[k] = t[j]
        BY <1>3, <1>4, <4>1
      <4> QED BY <1>7, <2>1, <4>1, <4>2 DEF Quiet
    <3> QED BY <1>2, <1>3, <3>1, <3>2
  <2>2. Quiet(st, i + 3, Len(st))
    BY <2>1 DEF Quiet
  <2>3. Len(st) \in 0..Len(st)
    BY <1>3
  <2> QED BY <1>2, <2>2, <2>3 DEF Marked
<1> QED BY <1>6, <1>7 DEF st

LEMMA ShapedConcat ==
  ASSUME NEW s \in Text, NEW t \in Text, Closed(s), Shaped(s), Shaped(t)
  PROVE  Shaped(s \o t)
<1> DEFINE st == s \o t
<1>1. /\ Len(s) \in Nat /\ Len(t) \in Nat /\ Len(st) = Len(s) + Len(t)
      /\ \A k \in 1..Len(s) : st[k] = s[k]
      /\ \A j \in 1..Len(t) : st[Len(s) + j] = t[j]
  BY ConcatRule
<1>2. /\ \A k \in 1..Len(s) : Parts(st)[k] = Parts(s)[k]
      /\ \A j \in 1..Len(t) : Parts(st)[Len(s) + j] = Parts(t)[j]
  BY PartsConcat
<1> HIDE DEF st
<1>3. ASSUME NEW i \in 1..Len(st), Parts(st)[i] = "in"
      PROVE  st[i] \in {"m", "p"} /\ i < Len(st) /\ st[i + 1] = Backslash
  <2>1. CASE i <= Len(s)
    <3>1. i \in 1..Len(s) /\ Parts(s)[i] = "in"
      BY <1>1, <1>2, <1>3, <2>1
    <3>2. s[i] \in {"m", "p"} /\ i < Len(s) /\ s[i + 1] = Backslash
      BY <3>1 DEF Shaped
    <3>3. i + 1 \in 1..Len(s) /\ i < Len(st)
      BY <1>1, <3>1, <3>2
    <3> QED BY <1>1, <3>1, <3>2, <3>3
  <2>2. CASE i > Len(s)
    <3> DEFINE j == i - Len(s)
    <3>1. j \in 1..Len(t) /\ i = Len(s) + j /\ i + 1 = Len(s) + (j + 1)
      BY <1>1, <2>2
    <3> HIDE DEF j
    <3>2. Parts(t)[j] = "in"
      BY <1>2, <1>3, <3>1
    <3>3. t[j] \in {"m", "p"} /\ j < Len(t) /\ t[j + 1] = Backslash
      BY <3>1, <3>2 DEF Shaped
    <3>4. j + 1 \in 1..Len(t) /\ i < Len(st)
      BY <1>1, <3>1, <3>3
    <3> QED BY <1>1, <3>1, <3>3, <3>4
  <2> QED BY <1>1, <2>1, <2>2
<1> QED BY <1>3 DEF Shaped, st


\* The tag of a marker, or of a pause.
LEMMA TagAlone ==
  ASSUME NEW c \in {"m", "p"}, NEW t, t = <<Space, Backslash, c, Backslash, Space>>
  PROVE  /\ t \in Text /\ Len(t) = 5 /\ Closed(t) /\ Shaped(t) /\ Quiet(t, 1, Len(t))
         /\ Ms(t) = IF c = "m" THEN {3} ELSE {}
<1>1. /\ t \in Text /\ Len(t) = 5
      /\ t[1] = Space /\ t[2] = Backslash /\ t[3] = c /\ t[4] = Backslash /\ t[5] = Space
  <2>1. \A v, w, x, y, z \in Char : <<v, w, x, y, z>> \in Seq(Char)
    OBVIOUS
  <2>2. Space \in Char /\ Backslash \in Char /\ c \in Char
    BY DEF Char
  <2> QED BY <2>1, <2>2 DEF Text
<1>2. c # Backslash
  BY DEF Backslash
<1>3. /\ Parts(t)[1] = PartAfter(Before(Parts(t), 1), t, 1)
      /\ Parts(t)[2] = PartAfter(Before(Parts(t), 2), t, 2)
      /\ Parts(t)[3] = PartAfter(Before(Parts(t), 3), t, 3)
      /\ Parts(t)[4] = PartAfter(Before(Parts(t), 4), t, 4)
      /\ Parts(t)[5] = PartAfter(Before(Parts(t), 5), t, 5)
  BY <1>1, PartsRule
<1>4. Parts(t)[1] = "content"
  BY <1>1, <1>3, CharFacts DEF PartAfter, Starts, Before
<1>5. Parts(t)[2] = "opens"
  BY <1>1, <1>2, <1>3, <1>4, CharFacts DEF PartAfter, Starts, Before
<1>6. Parts(t)[3] = "in"
  BY <1>1, <1>2, <1>3, <1>5 DEF PartAfter, Before
<1>7. Parts(t)[4] = "closes"
  BY <1>1, <1>3, <1>6 DEF PartAfter, Before
<1>8. Parts(t)[5] = "content"
  BY <1>1, <1>3, <1>7, CharFacts DEF PartAfter, Starts, Before
<1>9. \A i \in 1..5 : i = 1 \/ i = 2 \/ i = 3 \/ i = 4 \/ i = 5
  OBVIOUS
<1>10. Closed(t)
  BY <1>1, <1>8 DEF Closed, EndedAt, Before, Ended
<1>11. Shaped(t)
  BY <1>1, <1>4, <1>5, <1>6, <1>7, <1>8, <1>9 DEF Shaped
<1>12. Quiet(t, 1, Len(t))
  BY <1>1, <1>4, <1>5, <1>6, <1>7, <1>8, <1>9 DEF Quiet
<1>13. Ms(t) = IF c = "m" THEN {3} ELSE {}
  <2>1. \A i \in 1..5 : Parts(t)[i] = "in" /\ t[i] = "m" <=> i = 3 /\ c = "m"
    BY <1>1, <1>4, <1>5, <1>6, <1>7, <1>8, <1>9
  <2> QED BY <1>1, <2>1 DEF Ms
<1> QED BY <1>1, <1>10, <1>11, <1>12, <1>13

\* What append_escaped appends.
Escaped(c) == IF c = Backslash THEN Escape ELSE <<c>>

LEMMA EscapedAlone ==
  ASSUME NEW c \in Char
  PROVE  /\ Escaped(c) \in Text /\ Closed(Escaped(c)) /\ Shaped(Escaped(c)) /\ Ms(Escaped(c)) = {}
         /\ c = Space => Quiet(Escaped(c), 1, Len(Escaped(c)))
<1>1. CASE c = Backslash
  <2> DEFINE t == <<Backslash, Backslash>>
  <2>1. Escaped(c) = t
    BY <1>1 DEF Escaped, Escape
  <2>2. t \in Text /\ Closed(t) /\ Len(t) = 2 /\ t[1] = Backslash /\ t[2] = Backslash
    BY PairAlone
  <2> HIDE DEF t
  <2>3. Parts(t)[1] = "escape" /\ Parts(t)[2] = "escaped"
    <3>1. /\ Parts(t)[1] = PartAfter(Before(Parts(t), 1), t, 1)
          /\ Parts(t)[2] = PartAfter(Before(Parts(t), 2), t, 2)
      BY <2>2, PartsRule
    <3>2. Parts(t)[1] = "escape"
      BY <2>2, <3>1 DEF PartAfter, Starts, Before
    <3> QED BY <3>1, <3>2 DEF PartAfter, Before
  <2>4. \A i \in 1..Len(t) : Parts(t)[i] # "in"
    <3>1. \A i \in 1..Len(t) : i = 1 \/ i = 2
      BY <2>2
    <3> QED BY <2>3, <3>1
  <2> QED BY <1>1, <2>1, <2>2, <2>4, CharFacts DEF Shaped, Ms
<1>2. CASE c # Backslash
  <2> DEFINE t == <<c>>
  <2>1. Escaped(c) = t
    BY <1>2 DEF Escaped
  <2>2. t \in Text /\ Len(t) = 1 /\ t[1] = c
    BY DEF Text
  <2> HIDE DEF t
  <2>3. Parts(t)[1] = "content"
    <3>1. Parts(t)[1] = PartAfter(Before(Parts(t), 1), t, 1)
      BY <2>2, PartsRule
    <3> QED BY <1>2, <2>2, <3>1 DEF PartAfter, Starts, Before
  <2>4. \A i \in 1..Len(t) : i = 1
    BY <2>2
  <2>5. Closed(t)
    BY <2>2, <2>3 DEF Closed, EndedAt, Before, Ended
  <2> QED BY <2>1, <2>2, <2>3, <2>4, <2>5 DEF Shaped, Ms, Quiet
<1> QED BY <1>1, <1>2

-----------------------------------------------------------------------------
(* The text as it is built.                                                 *)

Built == [text : Text, marks : Seq([tag : Nat, at : Nat]), tags : Nat, last : Nat, have : BOOLEAN]

\* As many tags of markers as have been numbered, and for every marker one with nothing said
\* between it and the marker's place.
Sound(b) ==
  /\ b \in Built /\ Closed(b.text) /\ Shaped(b.text)
  /\ Cardinality(Ms(b.text)) = b.tags
  /\ \A k \in 1..Len(b.marks) : Marked(b.text, b.marks[k].tag, b.marks[k].at)

\* Nothing has been said since the tag that the next marker would share.
Behind(b) == b.last # 0 => Marked(b.text, b.last, Len(b.text))

Good == {b \in Built : Sound(b) /\ Behind(b)}

\* bb is b with t behind its text.
IsExtended(bb, b, t) == bb = [b EXCEPT !.text = @ \o t]

LEMMA ExtendedSound ==
  ASSUME NEW b, Sound(b), NEW t \in Text, Closed(t), Shaped(t), Ms(t) = {},
         NEW bb, IsExtended(bb, b, t)
  PROVE  Sound(bb) /\ (Behind(b) /\ Quiet(t, 1, Len(t)) => Behind(bb))
<1> DEFINE s == b.text
           st == s \o t
<1>1. b \in Built /\ s \in Text /\ Closed(s) /\ Shaped(s) /\ Cardinality(Ms(s)) = b.tags
      /\ \A k \in 1..Len(b.marks) : Marked(s, b.marks[k].tag, b.marks[k].at)
  BY DEF Sound, Built
<1>2. st \in Text
  BY <1>1, ConcatType
<1>3. bb \in Built /\ bb.text = st /\ bb.marks = b.marks /\ bb.tags = b.tags /\ bb.last = b.last
  BY <1>1, <1>2 DEF IsExtended, Built
<1> HIDE DEF s
<1>4. Closed(st) /\ Shaped(st)
  BY <1>1, PartsConcat, ShapedConcat
<1>5. Ms(st) = Ms(s)
  <2>1. /\ \A i \in 1..Len(s) : i \in Ms(st) <=> i \in Ms(s)
        /\ \A i \in Ms(st) : i \in 1..Len(s)
    BY <1>1, MsConcat
  <2>2. Ms(s) \in SUBSET (1..Len(s))
    BY <1>1, MsType
  <2> QED BY <2>1, <2>2
<1>6. \A k \in 1..Len(b.marks) : Marked(st, b.marks[k].tag, b.marks[k].at)
  BY <1>1, MarkedKept
<1>7. Sound(bb)
  BY <1>1, <1>3, <1>4, <1>5, <1>6 DEF Sound
<1>8. ASSUME Behind(b), Quiet(t, 1, Len(t)), b.last # 0 PROVE Marked(st, b.last, Len(st))
  <2>1. Marked(s, b.last, Len(s))
    BY <1>8 DEF Behind, s
  <2> QED BY <1>1, <1>8, <2>1, MarkedKept
<1> QED BY <1>3, <1>7, <1>8 DEF Behind


LEMMA AppendEscapedSound ==
  ASSUME NEW b, Sound(b), NEW c \in Char
  PROVE  /\ Sound(append_escaped(b, c))
         /\ c = Space /\ Behind(b) => Behind(append_escaped(b, c))
<1> DEFINE s == b.text
           bb == append_escaped(b, c)
           t == Escaped(c)
<1>1. s \in Seq(Char)
  BY DEF Sound, Built, Text
<1>2. IsExtended(bb, b, t)
  <2>1. CASE c = Backslash
    BY <2>1 DEF append_escaped, Escaped, IsExtended
  <2>2. CASE c # Backslash
    <3>1. bb = [b EXCEPT !.text = Append(s, c)] /\ t = <<c>>
      BY <2>2 DEF append_escaped, Escaped
    <3>2. Append(s, c) = s \o <<c>>
      <4> HIDE DEF s
      <4> QED BY <1>1
    <3> QED BY <3>1, <3>2 DEF IsExtended
  <2> QED BY <2>1, <2>2
<1>3. /\ t \in Text /\ Closed(t) /\ Shaped(t) /\ Ms(t) = {}
      /\ c = Space => Quiet(t, 1, Len(t))
  BY EscapedAlone
<1> HIDE DEF bb, t
<1>4. Sound(bb) /\ (Behind(b) /\ Quiet(t, 1, Len(t)) => Behind(bb))
  BY <1>2, <1>3, ExtendedSound
<1> QED BY <1>3, <1>4 DEF bb

LEMMA SaidGood ==
  ASSUME NEW b, Sound(b)
  PROVE  Said(b) \in Good
<1> DEFINE bb == Said(b)
<1>1. b \in Built
  BY DEF Sound
<1>2. bb \in Built /\ bb.text = b.text /\ bb.marks = b.marks /\ bb.tags = b.tags /\ bb.last = 0
  BY <1>1 DEF Said, Built
<1> HIDE DEF bb
<1> QED BY <1>2 DEF Sound, Behind, Good, bb

\* One tag more: it is the last, and nothing lies behind it.
LEMMA MarkerTagCounts ==
  ASSUME NEW s \in Text, Closed(s)
  PROVE  /\ s \o MarkerTag \in Text /\ Closed(s \o MarkerTag)
         /\ Shaped(s) => Shaped(s \o MarkerTag)
         /\ Cardinality(Ms(s \o MarkerTag)) = Cardinality(Ms(s)) + 1
         /\ Marked(s \o MarkerTag, Cardinality(Ms(s)) + 1, Len(s \o MarkerTag))
<1> DEFINE t == MarkerTag
           st == s \o t
           k == Len(s) + 3
<1>1. t \in Text /\ Len(t) = 5 /\ Closed(t) /\ Shaped(t) /\ Ms(t) = {3}
  <2>1. t = <<Space, Backslash, "m", Backslash, Space>>
    BY DEF MarkerTag, Tag
  <2> HIDE DEF t
  <2> QED BY <2>1, TagAlone
<1> HIDE DEF t
<1>2. st \in Text /\ Closed(st) /\ (Shaped(s) => Shaped(st))
  BY <1>1, ConcatType, PartsConcat, ShapedConcat
<1>3. Len(s) \in Nat /\ Len(st) = Len(s) + 5
  <2>1. t \in Text
    BY <1>1
  <2>2. Len(s) \in Nat /\ Len(s \o t) = Len(s) + Len(t)
    BY <2>1, ConcatRule
  <2> QED BY <1>1, <2>2
<1>4. /\ \A i \in 1..Len(s) : i \in Ms(st) <=> i \in Ms(s)
      /\ \A j \in 1..Len(t) : Len(s) + j \in Ms(st) <=> j \in Ms(t)
      /\ \A i \in Ms(st) : i \in 1..Len(s) \/ \E j \in 1..Len(t) : i = Len(s) + j
  BY <1>1, MsConcat
<1> HIDE DEF st
<1>5. Ms(s) \in SUBSET (1..Len(s)) /\ IsFiniteSet(Ms(s)) /\ Cardinality(Ms(s)) \in Nat
  BY MsType
<1>6. k \in Ms(st) /\ k \notin Ms(s)
  <2>1. 3 \in 1..Len(t)
    BY <1>1
  <2> QED BY <1>1, <1>3, <1>4, <1>5, <2>1
<1>7. Ms(st) = Ms(s) \cup {k}
  <2>1. \A i \in Ms(st) : i \in Ms(s) \/ i = k
    <3> SUFFICES ASSUME NEW i \in Ms(st), i \notin 1..Len(s) PROVE i = k
      BY <1>4
    <3>1. PICK j \in 1..Len(t) : i = Len(s) + j
      BY <1>4
    <3>2. j \in Ms(t)
      BY <1>4, <3>1
    <3> QED BY <1>1, <3>1, <3>2
  <2>2. \A i \in Ms(s) : i \in Ms(st)
    BY <1>4, <1>5
  <2> QED BY <1>6, <2>1, <2>2
<1>8. Cardinality(Ms(st)) = Cardinality(Ms(s)) + 1
  <2> HIDE DEF k
  <2> QED BY <1>5, <1>6, <1>7, FS_AddElement
<1>9. {j \in Ms(st) : j <= k} = Ms(st)
  BY <1>3, <1>5, <1>7
<1>10. Nth(st, k, Cardinality(Ms(s)) + 1)
  BY <1>6, <1>8, <1>9 DEF Nth
<1>11. Quiet(st, k + 3, Len(st))
  BY <1>3 DEF Quiet
<1>12. Marked(st, Cardinality(Ms(s)) + 1, Len(st))
  <2>1. Len(st) \in 0..Len(st)
    BY <1>3
  <2> QED BY <1>6, <1>10, <1>11, <2>1 DEF Marked
<1> QED BY <1>2, <1>8, <1>12 DEF st, t

LEMMA AddMarkerGood ==
  ASSUME NEW b \in Good
  PROVE  add_marker(b) \in Good
<1> DEFINE s == b.text
           new == b.last = 0
           id == IF new THEN b.tags + 1 ELSE b.last
           txt == IF new THEN s \o MarkerTag ELSE s
           m == [tag |-> id, at |-> Len(txt)]
           bb == add_marker(b)
           marks == Append(b.marks, m)
<1>1. /\ b \in Built /\ s \in Text /\ Closed(s) /\ Shaped(s) /\ Cardinality(Ms(s)) = b.tags
      /\ \A k \in 1..Len(b.marks) : Marked(s, b.marks[k].tag, b.marks[k].at)
      /\ b.marks \in Seq([tag : Nat, at : Nat]) /\ b.tags \in Nat /\ b.last \in Nat
      /\ Behind(b)
  BY DEF Good, Sound, Built
<1>2. /\ txt \in Text /\ Closed(txt) /\ Shaped(txt) /\ id \in Nat \ {0}
      /\ Cardinality(Ms(txt)) = IF new THEN id ELSE b.tags
      /\ Marked(txt, id, Len(txt))
  <2>1. CASE new
    <3>1. txt = s \o MarkerTag /\ id = Cardinality(Ms(s)) + 1
      BY <1>1, <2>1
    <3> HIDE DEF txt, id, s, new
    <3>2. /\ s \o MarkerTag \in Text /\ Closed(s \o MarkerTag) /\ Shaped(s \o MarkerTag)
          /\ Cardinality(Ms(s \o MarkerTag)) = Cardinality(Ms(s)) + 1
          /\ Marked(s \o MarkerTag, Cardinality(Ms(s)) + 1, Len(s \o MarkerTag))
      BY <1>1, MarkerTagCounts
    <3> QED BY <1>1, <2>1, <3>1, <3>2
  <2>2. CASE ~new
    BY <1>1, <2>2 DEF Behind
  <2> QED BY <2>1, <2>2
<1>3. \A k \in 1..Len(b.marks) : Marked(txt, b.marks[k].tag, b.marks[k].at)
  <2>1. CASE new
    <3>0. MarkerTag \in Text
      <4>1. MarkerTag = <<Space, Backslash, "m", Backslash, Space>>
        BY DEF MarkerTag, Tag
      <4> QED BY <4>1, TagAlone
    <3>1. txt = s \o MarkerTag
      BY <2>1
    <3> HIDE DEF txt, s, new
    <3> QED BY <1>1, <3>0, <3>1, MarkedKept
  <2>2. CASE ~new
    BY <1>1, <2>2
  <2> QED BY <2>1, <2>2
<1>4. Len(txt) \in Nat
  BY <1>2, PartsType
<1>5. m \in [tag : Nat, at : Nat] /\ m.tag = id /\ m.at = Len(txt)
  <2> HIDE DEF id, txt
  <2> QED BY <1>2, <1>4
<1>6. bb = [b EXCEPT !.text = txt, !.tags = IF new THEN id ELSE @, !.last = id, !.marks = marks]
  BY DEF add_marker
<1> HIDE DEF id, txt, m, new, bb, s
<1>7. /\ marks \in Seq([tag : Nat, at : Nat]) /\ Len(b.marks) \in Nat
      /\ Len(marks) = Len(b.marks) + 1
      /\ marks[Len(b.marks) + 1] = m /\ \A k \in 1..Len(b.marks) : marks[k] = b.marks[k]
  BY <1>1, <1>5, AppendProperties
<1> HIDE DEF marks
<1>8. /\ bb \in Built /\ bb.text = txt /\ bb.last = id /\ bb.marks = marks
      /\ bb.tags = IF new THEN id ELSE b.tags
  BY <1>1, <1>2, <1>6, <1>7 DEF Built
<1>9. \A k \in 1..Len(marks) : Marked(txt, marks[k].tag, marks[k].at)
  <2>1. \A k \in 1..Len(marks) : k \in 1..Len(b.marks) \/ k = Len(b.marks) + 1
    BY <1>7
  <2> QED BY <1>2, <1>3, <1>5, <1>7, <2>1
<1>10. Sound(bb)
  BY <1>2, <1>8, <1>9 DEF Sound
<1>11. Behind(bb)
  BY <1>2, <1>8 DEF Behind
<1> QED BY <1>8, <1>10, <1>11 DEF Good, bb


LEMMA MarkIfGood ==
  ASSUME NEW b \in Good, NEW what
  PROVE  MarkIf(b, what) \in Good
BY AddMarkerGood DEF MarkIf

LEMMA SpeaksCharGood ==
  ASSUME NEW b \in Good, NEW s \in Text, NEW i \in 1..Len(s)
  PROVE  SpeaksChar(b, s, i) \in Good /\ SpellsChar(b, s, i) \in Good
<1> DEFINE c == s[i]
           m == MarkIf(b, "word")
           first == i = 1 \/ ~isWordChar(s[i - 1])
           bm == IF first THEN m ELSE b
<1>1. c \in Char
  BY DEF Text
<1>2. m \in Good /\ bm \in Good
  BY MarkIfGood
<1> HIDE DEF c, m, first
<1>3. \A d \in Good : Sound(d) /\ Behind(d) /\ d \in Built
  BY DEF Good
<1>4. Said(append_escaped(bm, c)) \in Good
  <2> HIDE DEF bm
  <2>1. Sound(append_escaped(bm, c))
    BY <1>1, <1>2, <1>3, AppendEscapedSound
  <2> QED BY <2>1, SaidGood
<1>5. Said(append_escaped(b, c)) \in Good /\ (c = Space => append_escaped(b, c) \in Good)
  <2> DEFINE d == append_escaped(b, c)
  <2>1. Sound(b) /\ Behind(b)
    BY <1>3
  <2>2. Sound(d) /\ (c = Space => Behind(d))
    BY <1>1, <2>1, AppendEscapedSound
  <2> HIDE DEF d
  <2>3. d \in Built
    BY <2>2 DEF Sound
  <2>4. Said(d) \in Good
    BY <2>2, SaidGood
  <2>5. c = Space => d \in Good
    BY <2>2, <2>3 DEF Good
  <2> QED BY <2>4, <2>5 DEF d
<1>6. Said(append_escaped(append_escaped(m, c), Space)) \in Good
  <2> DEFINE d == append_escaped(m, c)
  <2>1. Sound(d)
    BY <1>1, <1>2, <1>3, AppendEscapedSound
  <2> HIDE DEF d
  <2>2. Sound(append_escaped(d, Space))
    BY <2>1, CharFacts, AppendEscapedSound
  <2>3. Said(append_escaped(d, Space)) \in Good
    BY <2>2, SaidGood
  <2> QED BY <2>3 DEF d
<1>7. SpeaksChar(b, s, i) =
        IF isWordChar(c) THEN Said(append_escaped(bm, c))
        ELSE IF c = Space THEN append_escaped(b, c) ELSE Said(append_escaped(b, c))
  BY DEF SpeaksChar, c, bm, first, m
<1>8. SpellsChar(b, s, i) =
        IF c = Space THEN b ELSE Said(append_escaped(append_escaped(m, c), Space))
  BY DEF SpellsChar, c, m
<1> HIDE DEF bm
<1> QED BY <1>4, <1>5, <1>6, <1>7, <1>8

\* Reading a fragment leaves what is built good.
LEMMA ReadsGood ==
  ASSUME NEW b \in Good, NEW s \in Text, NEW spells \in BOOLEAN
  PROVE  Reads(b, s, spells) \in Good
<1> DEFINE N == Len(s)
           zero == MarkIf(b, "sentence")
           More(d, n) == IF spells THEN SpellsChar(d, s, n) ELSE SpeaksChar(d, s, n)
           IsRead(f) == f = [n \in 0..N |-> IF n = 0 THEN zero
                                            ELSE IF spells THEN SpellsChar(f[n - 1], s, n)
                                            ELSE SpeaksChar(f[n - 1], s, n)]
           step == [p \in Good \X (1..N) |-> More(p[1], p[2])]
           read == CHOOSE f : IsRead(f)
<1>1. N \in Nat
  BY DEF Text
<1>2. \A d \in Good, n \in 1..N : More(d, n) \in Good
  BY SpeaksCharGood
<1>3. zero \in Good
  BY MarkIfGood
<1>4. step \in [Good \X (1..N) -> Good]
  <2> HIDE DEF More, N
  <2> QED BY <1>2
<1>5. \A d \in Good, n \in 1..N : step[<<d, n>>] = More(d, n)
  OBVIOUS
<1>6. PICK g \in [0..N -> Good] : Repeats(g, zero, step, N)
  <2> HIDE DEF N, step, zero
  <2> QED BY <1>1, <1>3, <1>4, Recursion
<1>7. \A n \in 1..N : g[n] = More(g[n - 1], n)
  <2> HIDE DEF More, step, N, zero
  <2> SUFFICES ASSUME NEW n \in 1..N PROVE g[n] = More(g[n - 1], n)
    OBVIOUS
  <2>1. n - 1 \in 0..N
    BY <1>1
  <2>2. g[n - 1] \in Good
    BY <2>1, <1>6
  <2> QED BY <1>5, <1>6, <2>2 DEF Repeats
<1>8. \A f : IsRead(f) <=> f = [n \in 0..N |-> IF n = 0 THEN zero ELSE More(f[n - 1], n)]
  OBVIOUS
<1>9. IsRead(g)
  <2> HIDE DEF More, step, N, zero, IsRead
  <2>1. g = [n \in 0..N |-> IF n = 0 THEN zero ELSE More(g[n - 1], n)]
    BY <1>1, <1>6, <1>7 DEF Repeats
  <2> QED BY <1>8, <2>1
<1>10. IsRead(read)
  <2> HIDE DEF IsRead
  <2> QED BY <1>9
<1>11. Reads(b, s, spells) = append_escaped(read[N], Space)
  BY DEF Reads
<1>12. read[0] = zero /\ (\A n \in 1..N : read[n] = More(read[n - 1], n))
  <2> HIDE DEF More, read, N, zero, IsRead
  <2>1. read = [n \in 0..N |-> IF n = 0 THEN zero ELSE More(read[n - 1], n)]
    BY <1>8, <1>10
  <2> QED BY <1>1, <2>1
<1>13. read[N] \in Good
  <2> DEFINE S == {n \in 0..N : read[n] \in Good}
  <2> HIDE DEF More, read, N, zero
  <2>1. 0 \in S
    BY <1>1, <1>3, <1>12
  <2>2. \A n \in 0..(N - 1) : n \in S => n + 1 \in S
    <3> SUFFICES ASSUME NEW n \in 0..(N - 1), n \in S PROVE n + 1 \in S
      OBVIOUS
    <3>1. n + 1 \in 1..N /\ n + 1 \in 0..N /\ (n + 1) - 1 = n
      BY <1>1
    <3>2. read[n + 1] = More(read[n], n + 1)
      BY <1>12, <3>1
    <3> QED BY <1>2, <3>1, <3>2
  <2>3. N \in S
    <3>1. N \in 0..N
      BY <1>1
    <3> HIDE DEF S
    <3> QED BY <1>1, <2>1, <2>2, <3>1, UpToInduction
  <2> QED BY <2>3
<1> DEFINE d == read[N]
           e == append_escaped(d, Space)
<1> HIDE DEF d
<1>14. d \in Good /\ Sound(d) /\ Behind(d)
  BY <1>13 DEF d, Good
<1>15. Sound(e) /\ Behind(e)
  BY <1>14, CharFacts, AppendEscapedSound
<1> HIDE DEF e
<1>16. e \in Good
  BY <1>15 DEF Good, Sound
<1> QED BY <1>11, <1>16 DEF d, e

\* A pause, too, is a tag of Speak's and says nothing.
LEMMA PauseGood ==
  ASSUME NEW b \in Good
  PROVE  [b EXCEPT !.text = @ \o PauseTag] \in Good
<1> DEFINE t == PauseTag
           bb == [b EXCEPT !.text = @ \o t]
<1>1. t \in Text /\ Closed(t) /\ Shaped(t) /\ Ms(t) = {} /\ Quiet(t, 1, Len(t))
  <2>1. t = <<Space, Backslash, "p", Backslash, Space>>
    BY DEF PauseTag
  <2> HIDE DEF t
  <2> QED BY <2>1, TagAlone
<1>2. IsExtended(bb, b, t)
  BY DEF IsExtended
<1>3. Sound(b) /\ Behind(b)
  BY DEF Good
<1> HIDE DEF t, bb
<1>4. Sound(bb) /\ Behind(bb)
  BY <1>1, <1>2, <1>3, ExtendedSound
<1>5. bb \in Good
  BY <1>4 DEF Good, Sound
<1> QED BY <1>5 DEF bb, t


\* However the fragments come, what is built is good.
THEOREM BuildsGood == SpeakTextSpec => [](built \in Good)
<1>1. SpeakTextInit => built \in Good
  <2> SUFFICES ASSUME SpeakTextInit PROVE built \in Good
    OBVIOUS
  <2> DEFINE b == [text |-> <<>>, marks |-> <<>>, tags |-> 0, last |-> 0, have |-> FALSE]
  <2>1. built = b
    BY DEF SpeakTextInit
  <2>2. <<>> \in Text /\ Len(<<>>) = 0 /\ <<>> \in Seq([tag : Nat, at : Nat])
    BY DEF Text
  <2>3. b \in Built
    BY <2>2 DEF Built
  <2>4. Closed(<<>>) /\ Shaped(<<>>)
    BY <2>2 DEF Closed, EndedAt, Before, Ended, Shaped
  <2>5. Cardinality(Ms(<<>>)) = 0
    <3>1. Ms(<<>>) = {}
      BY <2>2, MsType
    <3> QED BY <3>1, FS_EmptySet
  <2>6. Sound(b) /\ Behind(b)
    BY <2>2, <2>3, <2>4, <2>5 DEF Sound, Behind
  <2> HIDE DEF b
  <2> QED BY <2>1, <2>3, <2>6 DEF Good
<1>2. built \in Good /\ [SpeakTextNext]_speakTextVars => (built \in Good)'
  <2> SUFFICES ASSUME built \in Good, [SpeakTextNext]_speakTextVars PROVE built' \in Good
    OBVIOUS
  <2>1. CASE Fragment
    <3>1. CASE built' = add_marker(built)
      BY <3>1, AddMarkerGood
    <3>2. CASE built' = [built EXCEPT !.text = @ \o PauseTag]
      BY <3>2, PauseGood
    <3>3. CASE \E s \in Contents, spells \in BOOLEAN : built' = Reads(built, s, spells)
      <4>1. PICK s \in Contents, spells \in BOOLEAN : built' = Reads(built, s, spells)
        BY <3>3
      <4>2. s \in Text
        BY FragmentAssumption
      <4> QED BY <4>1, <4>2, ReadsGood
    <3> QED BY <2>1, <3>1, <3>2, <3>3 DEF Fragment
  <2>2. CASE Finish
    BY <2>2 DEF Finish
  <2>3. CASE Chunk
    BY <2>3 DEF Chunk
  <2>4. CASE UNCHANGED speakTextVars
    BY <2>4 DEF speakTextVars
  <2> QED BY <2>1, <2>2, <2>3, <2>4 DEF SpeakTextNext
<1> QED BY <1>1, <1>2, PTL DEF SpeakTextSpec

\* The n-th tag is the one CHOOSE finds.
LEMMA NthChosen ==
  ASSUME NEW s \in Text, NEW i, NEW n, Nth(s, i, n)
  PROVE  (CHOOSE x \in Ms(s) : Cardinality({j \in Ms(s) : j <= x}) = n) = i
<1> DEFINE P(x) == Cardinality({j \in Ms(s) : j <= x}) = n
           y == CHOOSE x \in Ms(s) : P(x)
<1>1. i \in Ms(s) /\ P(i)
  BY DEF Nth
<1>2. y \in Ms(s) /\ P(y)
  <2> HIDE DEF P
  <2> QED BY <1>1
<1>3. Nth(s, y, n)
  BY <1>2 DEF Nth
<1> HIDE DEF y
<1>4. y = i
  BY <1>3, NthOnce
<1> QED BY <1>4 DEF y

\* The engine sees Speak's tags and no others, and between the tag of any marker and the
\* marker's place nothing is said, whatever the user wrote and the site asked for (Speak,
\* append_escaped, add_marker).
THEOREM EventsComeInText == SpeakTextSpec => []EventsInText
<1>1. built \in Good => EventsInText
  <2> SUFFICES ASSUME built \in Good PROVE EventsInText
    OBVIOUS
  <2> DEFINE s == built.text
             part == Parts(s)
             ms == {i \in 1..Len(s) : part[i] = "in" /\ s[i] = "m"}
  <2>1. s \in Text /\ built.marks \in Seq([tag : Nat, at : Nat])
    BY DEF Good, Built
  <2>2. /\ Cardinality(Ms(s)) = built.tags
        /\ \A k \in 1..Len(built.marks) : Marked(s, built.marks[k].tag, built.marks[k].at)
    BY DEF Good, Sound
  <2>3. DOMAIN part = 1..Len(s) /\ DOMAIN built.marks = 1..Len(built.marks)
    BY <2>1, PartsType
  <2>4. {i \in DOMAIN part : part[i] = "in" /\ s[i] = "m"} = Ms(s) /\ ms = Ms(s)
    BY <2>3 DEF Ms
  <2>5. ASSUME NEW k \in DOMAIN built.marks,
               NEW i \in (TagEnd(built.marks[k].tag) + 1)..built.marks[k].at,
               part[i] \in {"content", "escape"}
        PROVE  s[i] = Space
    <3> DEFINE n == built.marks[k].tag
               at == built.marks[k].at
    <3>1. PICK x \in Ms(s) : Nth(s, x, n) /\ Quiet(s, x + 3, at)
      BY <2>2, <2>3 DEF Marked
    <3>2. TagEnd(n) = (CHOOSE y \in ms : Cardinality({j \in ms : j <= y}) = n) + 2
      BY DEF TagEnd
    <3> DEFINE c == CHOOSE y \in Ms(s) : Cardinality({j \in Ms(s) : j <= y}) = n
    <3>3. TagEnd(n) = c + 2
      BY <2>4, <3>2
    <3> HIDE DEF n, at, s
    <3>4. c = x
      BY <2>1, <3>1, NthChosen
    <3>5. x \in Int
      BY <2>1, MsType
    <3>6. (x + 2) + 1 = x + 3 /\ TagEnd(n) = x + 2
      <4> HIDE DEF c
      <4> QED BY <3>3, <3>4, <3>5
    <3>7. i \in (x + 3)..at
      BY <3>6 DEF n, at
    <3> QED BY <2>5, <3>1, <3>7 DEF Quiet
  <2> QED BY <2>2, <2>4, <2>5 DEF EventsInText
<1> QED BY <1>1, BuildsGood, PTL


-----------------------------------------------------------------------------
(* The text cut into chunks.                                                *)

\* A cut is behind where the chunk begins, no further than a chunk is long, and within a tag
\* or an escaped backslash only where the half chunk before it has no space to cut at.
LEMMA CutRule ==
  ASSUME NEW s \in Text, Closed(s), Shaped(s), NEW b \in 0..(Len(s) - 1)
  PROVE  /\ Cut(s, b) \in (b + 1)..Len(s) /\ Cut(s, b) - b \in 1..ChunkSize
         /\ Parts(s)[Cut(s, b)] \in {"escape", "opens", "in"} =>
              \A i \in (Cut(s, b) - (ChunkSize - ChunkSize \div 2) + 1)..Cut(s, b) : ~BeforeSpace(s, i)
<1> DEFINE h == ChunkSize \div 2
           c == Cut(s, b)
           sentences == {i \in SecondHalf(b) : AfterSentence(s, i)}
           spaces == {i \in SecondHalf(b) : BeforeSpace(s, i)}
           open == Parts(s)[c] \in {"escape", "opens", "in"}
<1>1. /\ Len(s) \in Nat /\ b \in Nat /\ b < Len(s)
      /\ ChunkSize \in Nat /\ ChunkSize > 1
  BY PartsType, FragmentAssumption
<1>2. h \in 0..ChunkSize
  BY <1>1
<1>3. SecondHalf(b) = (b + h + 1)..(b + ChunkSize)
  BY DEF SecondHalf
<1>4. \A i \in 1..Len(s) :
        Parts(s)[i] \in {"escape", "opens", "in"} => /\ ~AfterSentence(s, i)
                                                     /\ ~BeforeSpace(s, i)
  <2> SUFFICES ASSUME NEW i \in 1..Len(s), Parts(s)[i] \in {"escape", "opens", "in"}
               PROVE  ~AfterSentence(s, i) /\ ~BeforeSpace(s, i)
    OBVIOUS
  <2>1. CASE Parts(s)[i] \in {"escape", "opens"}
    BY <2>1, PartsChars, CharFacts DEF AfterSentence, BeforeSpace
  <2>2. CASE Parts(s)[i] = "in"
    <3>1. s[i] \in {"m", "p"} /\ s[i + 1] = Backslash
      BY <2>2 DEF Shaped
    <3>2. Stop \notin {"m", "p"}
      BY DEF Stop
    <3> QED BY <3>1, <3>2, CharFacts DEF AfterSentence, BeforeSpace
  <2> QED BY <2>1, <2>2
<1>5. \A S \in SUBSET SecondHalf(b) : S # {} => Max(S) \in S
  <2> SUFFICES ASSUME NEW S \in SUBSET SecondHalf(b), S # {} PROVE Max(S) \in S
    OBVIOUS
  <2> DEFINE k == b + ChunkSize
  <2>1. k \in Nat /\ S \in SUBSET (0..k)
    BY <1>1, <1>2, <1>3
  <2> HIDE DEF k
  <2> QED BY <2>1, MaxRule
<1> HIDE DEF h
<1>6. CASE Len(s) - b <= ChunkSize
  <2>1. c = Len(s)
    BY <1>6 DEF Cut
  <2>2. ~open
    <3>1. Len(s) + 1 # 1 /\ (Len(s) + 1) - 1 = Len(s)
      BY <1>1
    <3>2. Parts(s)[Len(s)] \in Ended
      BY <3>1 DEF Closed, EndedAt, Before
    <3> QED BY <2>1, <3>2 DEF Ended
  <2> HIDE DEF c
  <2> QED BY <1>1, <1>6, <2>1, <2>2 DEF c
<1>7. CASE Len(s) - b > ChunkSize
  <2>1. \A i \in SecondHalf(b) : i \in (b + 1)..Len(s) /\ i - b \in 1..ChunkSize /\ i \in 1..Len(s)
    BY <1>1, <1>2, <1>3, <1>7
  <2>2. c = IF sentences # {} THEN Max(sentences)
            ELSE IF spaces # {} THEN Max(spaces) ELSE b + ChunkSize
    BY <1>1, <1>7 DEF Cut
  <2> HIDE DEF c
  <2>3. CASE sentences # {}
    <3>1. c \in sentences
      BY <1>5, <2>2, <2>3
    <3>2. c \in SecondHalf(b) /\ AfterSentence(s, c)
      BY <3>1
    <3>3. ~open
      BY <1>4, <2>1, <3>2
    <3> QED BY <2>1, <3>2, <3>3 DEF c
  <2>4. CASE sentences = {} /\ spaces # {}
    <3>1. c \in spaces
      BY <1>5, <2>2, <2>4
    <3>2. c \in SecondHalf(b) /\ BeforeSpace(s, c)
      BY <3>1
    <3>3. ~open
      BY <1>4, <2>1, <3>2
    <3> QED BY <2>1, <3>2, <3>3 DEF c
  <2>5. CASE sentences = {} /\ spaces = {}
    <3>1. c = b + ChunkSize
      BY <2>2, <2>5
    <3>2. c \in (b + 1)..Len(s) /\ c - b \in 1..ChunkSize
      BY <1>1, <1>7, <3>1
    <3>3. (c - (ChunkSize - h) + 1)..c = SecondHalf(b)
      BY <1>1, <1>2, <1>3, <3>1
    <3>4. \A i \in (c - (ChunkSize - h) + 1)..c : ~BeforeSpace(s, i)
      BY <2>5, <3>3
    <3> QED BY <3>2, <3>4 DEF c, h
  <2> QED BY <2>3, <2>4, <2>5
<1> QED BY <1>1, <1>6, <1>7

\* The chunks so far, beside ChunksWhole.
ChunkInv ==
  /\ start \in -1..Len(built.text) /\ chunks \in Seq(Text)
  /\ start = -1 => chunks = <<>>
  /\ ChunksWhole

\* The chunks of any text are the text, in order and of the size asked for, and a tag is only
\* cut where there is nothing else to cut at (split_chunks).
THEOREM ChunksAreWhole == SpeakTextSpec => []ChunksWhole
<1>1. SpeakTextInit /\ built \in Good => ChunkInv
  <2> SUFFICES ASSUME SpeakTextInit, built \in Good PROVE ChunkInv
    OBVIOUS
  <2>1. built.text \in Text /\ Len(built.text) \in Nat
    BY PartsType DEF Good, Built
  <2> QED BY <2>1 DEF SpeakTextInit, ChunkInv, ChunksWhole
<1>2. ChunkInv /\ built \in Good /\ (built \in Good)' /\ [SpeakTextNext]_speakTextVars => ChunkInv'
  <2> SUFFICES ASSUME ChunkInv, built \in Good, built' \in Good, [SpeakTextNext]_speakTextVars
               PROVE  ChunkInv'
    OBVIOUS
  <2> DEFINE s == built.text
  <2>1. s \in Text /\ built'.text \in Text /\ Closed(s) /\ Shaped(s)
    BY DEF Good, Built, Sound
  <2>2. Len(s) \in Nat /\ Len(built'.text) \in Nat
    BY <2>1, PartsType
  <2>3. CASE Fragment
    <3>1. start' = -1 /\ chunks' = <<>>
      BY <2>3 DEF Fragment, ChunkInv
    <3> QED BY <2>2, <3>1 DEF ChunkInv, ChunksWhole
  <2>4. CASE Finish
    <3>1. start' = 0 /\ chunks' = <<>> /\ built' = built
      BY <2>4 DEF Finish, ChunkInv
    <3>2. SubSeq(built'.text, 1, 0) = <<>>
      BY SubSeqEmpty
    <3>3. chunks' \in Seq(Text) /\ \A i \in DOMAIN chunks' : FALSE
      BY <3>1
    <3>4. FlattenSeq(chunks') = SubSeq(built'.text, 1, start')
      BY <3>1, <3>2, FlattenEmpty
    <3>5. ChunksWhole'
      BY <3>1, <3>3, <3>4 DEF ChunksWhole
    <3>6. start' \in -1..Len(built'.text) /\ start' # -1
      BY <2>2, <3>1
    <3> QED BY <3>3, <3>5, <3>6 DEF ChunkInv
  <2>5. CASE Chunk
    <3> DEFINE c == Cut(s, start)
               t == SubSeq(s, start + 1, c)
    <3>1. /\ start \in 0..(Len(s) - 1) /\ start' = c /\ built' = built
          /\ chunks' = Append(chunks, t)
      BY <2>5 DEF Chunk
    <3>2. /\ c \in (start + 1)..Len(s) /\ c - start \in 1..ChunkSize
          /\ Parts(s)[c] \in {"escape", "opens", "in"} =>
               \A i \in (c - (ChunkSize - ChunkSize \div 2) + 1)..c : ~BeforeSpace(s, i)
      BY <2>1, <3>1, CutRule
    <3> HIDE DEF c, s
    <3>3. t \in Text /\ Len(t) = c - start
      <4>1. \A i \in (start + 1)..c : s[i] \in Char
        BY <2>1, <2>2, <3>1, <3>2 DEF Text
      <4>2. start + 1 \in Int /\ c \in Int
        BY <2>2, <3>1, <3>2
      <4> DEFINE m == start + 1
      <4>3. m \in Int /\ (\A i \in m..c : s[i] \in Char) /\ c - m + 1 = c - start /\ m <= c + 1
        BY <2>2, <3>1, <3>2, <4>1
      <4> HIDE DEF m
      <4>4. SubSeq(s, m, c) \in Seq(Char) /\ Len(SubSeq(s, m, c)) = IF m <= c THEN c - m + 1 ELSE 0
        BY <4>2, <4>3, SubSeqProperties
      <4> QED BY <2>2, <3>1, <3>2, <4>3, <4>4 DEF m, Text
    <3>4. /\ chunks \in Seq(Text) /\ FlattenSeq(chunks) = SubSeq(s, 1, start)
          /\ \A i \in DOMAIN chunks : Len(chunks[i]) \in 1..ChunkSize
      BY <3>1 DEF ChunkInv, ChunksWhole, s
    <3>5. SubSeq(s, 1, start) \o t = SubSeq(s, 1, c)
      <4>1. 1 \in 1..(Len(s) + 1) /\ start \in (1 - 1)..Len(s) /\ c \in start..Len(s) /\ s \in Seq(Char)
        BY <2>1, <2>2, <3>1, <3>2 DEF Text
      <4> QED BY <4>1, ConcatAdjacentSubSeq
    <3> HIDE DEF t
    <3>6. FlattenSeq(Append(chunks, t)) = SubSeq(s, 1, c)
      BY <3>3, <3>4, <3>5, FlattenAppend
    <3>7. /\ Append(chunks, t) \in Seq(Text)
          /\ \A i \in DOMAIN Append(chunks, t) : Len(Append(chunks, t)[i]) \in 1..ChunkSize
      <4>1. /\ Append(chunks, t) \in Seq(Text) /\ Len(Append(chunks, t)) = Len(chunks) + 1
            /\ Len(chunks) \in Nat /\ Append(chunks, t)[Len(chunks) + 1] = t
            /\ \A i \in 1..Len(chunks) : Append(chunks, t)[i] = chunks[i]
        BY <3>3, <3>4, AppendProperties
      <4>2. \A i \in DOMAIN Append(chunks, t) : i \in DOMAIN chunks \/ i = Len(chunks) + 1
        BY <3>4, <4>1
      <4> QED BY <3>2, <3>3, <3>4, <4>1, <4>2
    <3>8. ChunksWhole'
      BY <3>1, <3>2, <3>6, <3>7 DEF ChunksWhole, s
    <3>9. start' \in -1..Len(built'.text) /\ start' # -1
      BY <2>2, <3>1, <3>2 DEF s
    <3> QED BY <3>1, <3>7, <3>8, <3>9 DEF ChunkInv
  <2>6. CASE UNCHANGED speakTextVars
    BY <2>6 DEF speakTextVars, ChunkInv, ChunksWhole
  <2> QED BY <2>3, <2>4, <2>5, <2>6 DEF SpeakTextNext
<1>3. ChunkInv => ChunksWhole
  BY DEF ChunkInv
<1> QED BY <1>1, <1>2, <1>3, BuildsGood, PTL DEF SpeakTextSpec
=============================================================================
