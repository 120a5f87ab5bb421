----------------------------- MODULE RingProofs -----------------------------
(***************************************************************************)
(* The surface of a builder, for any sequence of Euler operators: every    *)
(* edge is walked once along and once against, every loop closes, and      *)
(* around every vertex there is one umbrella.                              *)
(***************************************************************************)
EXTENDS BuilderProofs

-----------------------------------------------------------------------------
(***************************************************************************)
(* A ring of uses by its halves: an edge and the way it is walked.         *)
(***************************************************************************)

Half(u) == <<u.edge, u.dir>>
HalvesIn(s) == {Half(s[i]) : i \in 1 .. Len(s)}
\* No half is walked twice.
Apart(s) == \A i, j \in 1 .. Len(s) : Half(s[i]) = Half(s[j]) => i = j
\* The halves that follow each other, and around the ring.
Steps(s) == {<<Half(s[i]), Half(s[i + 1])>> : i \in 1 .. (Len(s) - 1)}
Round(s) == IF s = <<>> THEN {} ELSE Steps(s) \cup {<<Half(s[Len(s)]), Half(s[1])>>}
\* The same ring, begun elsewhere.
Alike(s, t) == HalvesIn(s) = HalvesIn(t) /\ (Apart(s) <=> Apart(t)) /\ Round(s) = Round(t)

\* Where one piece ends and another begins, if both have a use.
Seam(p, q) == IF p = <<>> \/ q = <<>> THEN {} ELSE {<<Half(p[Len(p)]), Half(q[1])>>}

LEMMA JoinedHalves ==
    ASSUME NEW S, NEW p \in Seq(S), NEW q \in Seq(S)
    PROVE  /\ HalvesIn(p \o q) = HalvesIn(p) \cup HalvesIn(q)
           /\ Apart(p \o q) <=> Apart(p) /\ Apart(q) /\ HalvesIn(p) \cap HalvesIn(q) = {}
<1> DEFINE m == Len(p)
           n == Len(q)
           t == p \o q
<1>1. m \in Nat /\ n \in Nat
  OBVIOUS
<1>2. /\ Len(t) = m + n
      /\ \A i \in 1 .. (m + n) : t[i] = IF i <= m THEN p[i] ELSE q[i - m]
  BY ConcatProperties
<1> HIDE DEF t, m, n
<1>3. \A i \in 1 .. m : t[i] = p[i] /\ i \in 1 .. (m + n)
  BY <1>1, <1>2
<1>4. \A i \in 1 .. n : t[m + i] = q[i] /\ m + i \in 1 .. (m + n)
  BY <1>1, <1>2
<1>5. \A k \in 1 .. (m + n) : k \in 1 .. m \/ \E i \in 1 .. n : k = m + i
  <2> SUFFICES ASSUME NEW k \in 1 .. (m + n), k \notin 1 .. m
               PROVE  \E i \in 1 .. n : k = m + i
    OBVIOUS
  <2>1. k - m \in 1 .. n /\ k = m + (k - m)
    BY <1>1
  <2> QED
    BY <2>1
<1>6. HalvesIn(t) = HalvesIn(p) \cup HalvesIn(q)
  <2>1. ASSUME NEW k \in 1 .. Len(t) PROVE Half(t[k]) \in HalvesIn(p) \cup HalvesIn(q)
    BY <1>2, <1>3, <1>4, <1>5 DEF HalvesIn, m, n
  <2>2. ASSUME NEW i \in 1 .. Len(p) PROVE Half(p[i]) \in HalvesIn(t)
    BY <1>2, <1>3 DEF HalvesIn, m
  <2>3. ASSUME NEW i \in 1 .. Len(q) PROVE Half(q[i]) \in HalvesIn(t)
    <3>1. t[m + i] = q[i] /\ m + i \in 1 .. Len(t)
      BY <1>2, <1>4 DEF n
    <3> QED
      BY <3>1 DEF HalvesIn
  <2> QED
    BY <2>1, <2>2, <2>3 DEF HalvesIn
<1>7. ASSUME Apart(t) PROVE Apart(p) /\ Apart(q) /\ HalvesIn(p) \cap HalvesIn(q) = {}
  <2>1. Apart(p)
    BY <1>2, <1>3, <1>7 DEF Apart, m
  <2>2. ASSUME NEW i \in 1 .. n, NEW j \in 1 .. n, Half(q[i]) = Half(q[j]) PROVE i = j
    <3>1. m + i = m + j
      BY <1>2, <1>4, <1>7, <2>2 DEF Apart
    <3> QED
      BY <1>1, <3>1
  <2>3. ASSUME NEW i \in 1 .. m, NEW j \in 1 .. n, Half(p[i]) = Half(q[j]) PROVE FALSE
    <3>1. i = m + j
      BY <1>2, <1>3, <1>4, <1>7, <2>3 DEF Apart
    <3> QED
      BY <1>1, <3>1
  <2> QED
    BY <2>1, <2>2, <2>3 DEF Apart, HalvesIn, m, n
<1>8. ASSUME Apart(p), Apart(q), HalvesIn(p) \cap HalvesIn(q) = {} PROVE Apart(t)
  <2>1. \A i \in 1 .. m, j \in 1 .. n : Half(p[i]) # Half(q[j])
    BY <1>8 DEF HalvesIn, m, n
  <2>2. \A i, j \in 1 .. m : Half(p[i]) = Half(p[j]) => i = j
    BY <1>8 DEF Apart, m
  <2>3. \A i, j \in 1 .. n : Half(q[i]) = Half(q[j]) => i = j
    BY <1>8 DEF Apart, n
  <2> SUFFICES ASSUME NEW i \in 1 .. (m + n), NEW j \in 1 .. (m + n), Half(t[i]) = Half(t[j])
               PROVE  i = j
    BY <1>2 DEF Apart
  <2>4. CASE i \in 1 .. m /\ j \in 1 .. m
    BY <1>3, <2>2, <2>4
  <2>5. CASE i \in 1 .. m /\ j \notin 1 .. m
    BY <1>3, <1>4, <1>5, <2>1, <2>5
  <2>6. CASE i \notin 1 .. m /\ j \in 1 .. m
    BY <1>3, <1>4, <1>5, <2>1, <2>6
  <2>7. CASE i \notin 1 .. m /\ j \notin 1 .. m
    BY <1>4, <1>5, <2>3, <2>7
  <2> QED
    BY <2>4, <2>5, <2>6, <2>7
<1> QED
  BY <1>6, <1>7, <1>8 DEF t

LEMMA JoinedSteps ==
    ASSUME NEW S, NEW p \in Seq(S), NEW q \in Seq(S)
    PROVE  Steps(p \o q) = Steps(p) \cup Seam(p, q) \cup Steps(q)
<1> DEFINE m == Len(p)
           n == Len(q)
           t == p \o q
<1>1. m \in Nat /\ n \in Nat /\ (p = <<>> <=> m = 0) /\ (q = <<>> <=> n = 0)
  OBVIOUS
<1>2. /\ Len(t) = m + n
      /\ \A i \in 1 .. (m + n) : t[i] = IF i <= m THEN p[i] ELSE q[i - m]
  BY ConcatProperties
<1> HIDE DEF t, m, n
<1>13. Steps(t) = {<<Half(t[i]), Half(t[i + 1])>> : i \in 1 .. (m + n - 1)}
  <2> DEFINE last == Len(t) - 1
             after == m + n - 1
  <2>1. last = after
    BY <1>1, <1>2
  <2>2. Steps(t) = {<<Half(t[i]), Half(t[i + 1])>> : i \in 1 .. last}
    BY DEF Steps
  <2> HIDE DEF last, after
  <2>3. Steps(t) = {<<Half(t[i]), Half(t[i + 1])>> : i \in 1 .. after}
    BY <2>1, <2>2
  <2> QED
    BY <2>3 DEF after
<1>3. \A i \in 1 .. m : t[i] = p[i]
  BY <1>1, <1>2
<1>4. \A i \in 1 .. n : t[m + i] = q[i]
  BY <1>1, <1>2
<1>5. ASSUME NEW i \in 1 .. (m + n - 1)
      PROVE  <<Half(t[i]), Half(t[i + 1])>> \in Steps(p) \cup Seam(p, q) \cup Steps(q)
  <2>1. CASE i < m
    <3>1. i \in 1 .. (m - 1) /\ i \in 1 .. m /\ i + 1 \in 1 .. m
      BY <1>1, <2>1
    <3> QED
      BY <1>3, <3>1 DEF Steps, m
  <2>2. CASE i = m
    <3>1. i \in 1 .. m /\ 1 \in 1 .. n /\ m # 0 /\ n # 0
      BY <1>1, <2>2
    <3>2. t[i] = p[m] /\ t[i + 1] = q[1]
      BY <1>3, <1>4, <2>2, <3>1
    <3> QED
      BY <1>1, <3>1, <3>2 DEF Seam, m
  <2>3. CASE i > m
    <3> DEFINE k == i - m
    <3>1. k \in 1 .. (n - 1) /\ k \in 1 .. n /\ k + 1 \in 1 .. n /\ i = m + k /\ i + 1 = m + (k + 1)
      BY <1>1, <2>3
    <3> HIDE DEF k
    <3>2. t[i] = q[k] /\ t[i + 1] = q[k + 1]
      BY <1>4, <3>1
    <3> QED
      BY <3>1, <3>2 DEF Steps, n
  <2> QED
    BY <1>1, <2>1, <2>2, <2>3
<1>6. ASSUME NEW i \in 1 .. (m - 1) PROVE <<Half(p[i]), Half(p[i + 1])>> \in Steps(t)
  <2>1. i \in 1 .. m /\ i + 1 \in 1 .. m /\ i \in 1 .. (m + n - 1)
    BY <1>1
  <2>2. t[i] = p[i] /\ t[i + 1] = p[i + 1]
    BY <1>3, <2>1
  <2> QED
    BY <1>13, <2>1, <2>2
<1>7. ASSUME NEW i \in 1 .. (n - 1) PROVE <<Half(q[i]), Half(q[i + 1])>> \in Steps(t)
  <2>1. i \in 1 .. n /\ i + 1 \in 1 .. n /\ m + i \in 1 .. (m + n - 1) /\ m + (i + 1) = (m + i) + 1
    BY <1>1
  <2>2. t[m + i] = q[i] /\ t[(m + i) + 1] = q[i + 1]
    BY <1>4, <2>1
  <2> QED
    BY <1>13, <2>1, <2>2
<1>8. ASSUME m # 0, n # 0 PROVE <<Half(p[m]), Half(q[1])>> \in Steps(t)
  <2>1. m \in 1 .. m /\ 1 \in 1 .. n /\ m \in 1 .. (m + n - 1)
    BY <1>1, <1>8
  <2>2. t[m] = p[m] /\ t[m + 1] = q[1]
    BY <1>3, <1>4, <2>1
  <2> QED
    BY <1>13, <2>1, <2>2
<1>9. Steps(t) \subseteq Steps(p) \cup Seam(p, q) \cup Steps(q)
  BY <1>5, <1>13
<1>10. Steps(p) \subseteq Steps(t) /\ Steps(q) \subseteq Steps(t)
  BY <1>6, <1>7 DEF Steps, m, n
<1>11. Seam(p, q) \subseteq Steps(t)
  BY <1>1, <1>8 DEF Seam, m
<1> QED
  BY <1>9, <1>10, <1>11 DEF t

\* A ring of two pieces is that of the second and the first.
LEMMA JoinedRound ==
    ASSUME NEW S, NEW p \in Seq(S), NEW q \in Seq(S)
    PROVE  /\ p = <<>> => p \o q = q
           /\ q = <<>> => p \o q = p
           /\ p # <<>> /\ q # <<>> =>
                Round(p \o q) = Steps(p) \cup Steps(q) \cup Seam(p, q) \cup Seam(q, p)
<1> DEFINE m == Len(p)
           n == Len(q)
           t == p \o q
<1>0. (p = <<>> => p \o q = q) /\ (q = <<>> => p \o q = p)
  BY ConcatEmptySeq
<1>1. m \in Nat /\ n \in Nat /\ (p = <<>> <=> m = 0) /\ (q = <<>> <=> n = 0)
  OBVIOUS
<1>2. /\ t \in Seq(S) /\ Len(t) = m + n
      /\ \A i \in 1 .. (m + n) : t[i] = IF i <= m THEN p[i] ELSE q[i - m]
  BY ConcatProperties
<1>3. Steps(t) = Steps(p) \cup Seam(p, q) \cup Steps(q)
  BY JoinedSteps
<1> HIDE DEF t, m, n
<1>4. ASSUME p # <<>>, q # <<>>
      PROVE  Round(t) = Steps(p) \cup Steps(q) \cup Seam(p, q) \cup Seam(q, p)
  <2>1. m > 0 /\ n > 0
    BY <1>1, <1>4
  <2>2. t[1] = p[1]
    BY <1>1, <1>2, <2>1
  <2>3. m + n - m = n /\ m + n \in 1 .. (m + n) /\ ~ (m + n <= m)
    BY <1>1, <2>1
  <2>4. t[m + n] = q[n]
    <3> DEFINE k == m + n
    <3>1. k \in 1 .. (m + n) /\ ~ (k <= m) /\ k - m = n
      BY <1>1, <2>3
    <3> HIDE DEF k
    <3>2. t[k] = q[k - m]
      BY <1>2, <3>1
    <3> QED
      BY <3>1, <3>2 DEF k
  <2>5. t # <<>>
    BY <1>1, <1>2, <2>1
  <2>6. Seam(q, p) = {<<Half(t[Len(t)]), Half(t[1])>>}
    BY <1>2, <1>4, <2>2, <2>4 DEF Seam, n
  <2> QED
    BY <1>3, <2>5, <2>6 DEF Round
<1> QED
  BY <1>0, <1>4 DEF t

LEMMA TurnedAlike ==
    ASSUME NEW S, NEW p \in Seq(S), NEW q \in Seq(S)
    PROVE  Alike(p \o q, q \o p)
<1> DEFINE t == p \o q
           r == q \o p
<1>3. HalvesIn(t) = HalvesIn(p) \cup HalvesIn(q)
      /\ (Apart(t) <=> Apart(p) /\ Apart(q) /\ HalvesIn(p) \cap HalvesIn(q) = {})
  BY JoinedHalves
<1>4. HalvesIn(r) = HalvesIn(q) \cup HalvesIn(p)
      /\ (Apart(r) <=> Apart(q) /\ Apart(p) /\ HalvesIn(q) \cap HalvesIn(p) = {})
  BY JoinedHalves
<1>5. /\ p = <<>> => t = q
      /\ q = <<>> => t = p
      /\ p # <<>> /\ q # <<>> =>
           Round(t) = Steps(p) \cup Steps(q) \cup Seam(p, q) \cup Seam(q, p)
  BY JoinedRound
<1>6. /\ q = <<>> => r = p
      /\ p = <<>> => r = q
      /\ q # <<>> /\ p # <<>> =>
           Round(r) = Steps(q) \cup Steps(p) \cup Seam(q, p) \cup Seam(p, q)
  BY JoinedRound
<1> HIDE DEF t, r
<1>1. HalvesIn(t) = HalvesIn(r) /\ (Apart(t) <=> Apart(r))
  <2>1. HalvesIn(p) \cap HalvesIn(q) = HalvesIn(q) \cap HalvesIn(p)
    OBVIOUS
  <2> QED
    BY <1>3, <1>4, <2>1
<1>2. Round(t) = Round(r)
  <2>1. CASE p = <<>>
    BY <1>5, <1>6, <2>1
  <2>2. CASE q = <<>>
    BY <1>5, <1>6, <2>2
  <2>3. CASE p # <<>> /\ q # <<>>
    BY <1>5, <1>6, <2>3
  <2> QED
    BY <2>1, <2>2, <2>3
<1> QED
  BY <1>1, <1>2 DEF Alike, t, r

LEMMA OneUse ==
    ASSUME NEW u
    PROVE  /\ HalvesIn(<<u>>) = {Half(u)} /\ Apart(<<u>>)
           /\ Steps(<<u>>) = {} /\ Round(<<u>>) = {<<Half(u), Half(u)>>}
           /\ <<u>> # <<>> /\ Len(<<u>>) = 1 /\ <<u>>[1] = u
<1> DEFINE s == <<u>>
<1>1. Len(s) = 1 /\ s[1] = u /\ s # <<>>
  OBVIOUS
<1> HIDE DEF s
<1>2. HalvesIn(s) = {Half(u)} /\ Apart(s)
  BY <1>1 DEF HalvesIn, Apart
<1>3. Steps(s) = {}
  <2>1. \A i \in 1 .. (Len(s) - 1) : FALSE
    BY <1>1
  <2> QED
    BY <2>1 DEF Steps
<1>4. Round(s) = {<<Half(u), Half(u)>>}
  BY <1>1, <1>3 DEF Round
<1> QED
  BY <1>1, <1>2, <1>3, <1>4 DEF s

LEMMA NoUse ==
    HalvesIn(<<>>) = {} /\ Apart(<<>>) /\ Steps(<<>>) = {} /\ Round(<<>>) = {}
BY DEF HalvesIn, Apart, Steps, Round

LEMMA CutAt ==
    ASSUME NEW S, NEW s \in Seq(S), NEW i \in 0 .. Len(s)
    PROVE  /\ SubSeq(s, 1, i) \in Seq(S) /\ SubSeq(s, i + 1, Len(s)) \in Seq(S)
           /\ SubSeq(s, 1, i) \o SubSeq(s, i + 1, Len(s)) = s
<1> DEFINE n == Len(s)
           p == SubSeq(s, 1, i)
           q == SubSeq(s, i + 1, n)
<1>1. n \in Nat /\ i \in Nat /\ i <= n
  OBVIOUS
<1>2. p \in Seq(S) /\ Len(p) = i /\ \A k \in 1 .. i : p[k] = s[k]
  BY <1>1
<1>3. q \in Seq(S) /\ Len(q) = n - i /\ \A k \in 1 .. (n - i) : q[k] = s[i + k]
  BY <1>1
<1> HIDE DEF p, q, n
<1>4. /\ p \o q \in Seq(S) /\ Len(p \o q) = Len(p) + Len(q)
      /\ \A k \in 1 .. (Len(p) + Len(q)) :
           (p \o q)[k] = IF k <= Len(p) THEN p[k] ELSE q[k - Len(p)]
  BY <1>2, <1>3, ConcatProperties
<1>5. Len(p \o q) = n
  BY <1>1, <1>2, <1>3, <1>4
<1>6. ASSUME NEW k \in 1 .. n PROVE (p \o q)[k] = s[k]
  <2>1. CASE k <= i
    BY <1>1, <1>2, <1>3, <1>4, <2>1
  <2>2. CASE ~ (k <= i)
    <3>1. k - i \in 1 .. (n - i) /\ i + (k - i) = k
      BY <1>1, <2>2
    <3>2. (p \o q)[k] = q[k - i]
      BY <1>1, <1>2, <1>3, <1>4, <2>2
    <3> QED
      BY <1>3, <3>1, <3>2
  <2> QED
    BY <2>1, <2>2
<1>7. p \o q = s
  <2> DEFINE t == p \o q
  <2>1. t \in Seq(S) /\ Len(t) = Len(s) /\ \A k \in 1 .. Len(s) : t[k] = s[k]
    BY <1>4, <1>5, <1>6 DEF n
  <2> HIDE DEF t
  <2>2. t = s
    BY <2>1
  <2> QED
    BY <2>2 DEF t
<1> QED
  BY <1>2, <1>3, <1>7 DEF p, q, n

LEMMA AllFromAlike ==
    ASSUME NEW S, NEW s \in Seq(S), NEW i \in 0 .. Len(s)
    PROVE  Alike(AllFrom(s, i), s)
<1> DEFINE p == SubSeq(s, 1, i)
           q == SubSeq(s, i + 1, Len(s))
<1>1. p \in Seq(S) /\ q \in Seq(S) /\ p \o q = s /\ AllFrom(s, i) = q \o p
  BY CutAt DEF AllFrom
<1> HIDE DEF p, q
<1>2. Alike(q \o p, p \o q)
  BY <1>1, TurnedAlike
<1> QED
  BY <1>1, <1>2

LEMMA RotateAlike ==
    ASSUME NEW S, NEW s \in Seq(S), NEW k \in 1 .. Len(s)
    PROVE  Alike(RotateTo(s, k), s)
<1> DEFINE i == k - 1
<1>1. i \in 0 .. Len(s) /\ i + 1 = k
  OBVIOUS
<1>2. AllFrom(s, i) = RotateTo(s, k)
  BY <1>1 DEF AllFrom, RotateTo
<1> HIDE DEF i
<1> QED
  BY <1>1, <1>2, AllFromAlike

LEMMA RotatedAlike ==
    ASSUME NEW E \in SUBSET Nat, NEW s \in Seq(UsesOn(E))
    PROVE  Alike(Rotated(s), s)
<1>1. CASE s = <<>>
  BY <1>1, RotatedIs DEF Alike
<1>2. CASE s # <<>>
  <2>1. PICK k \in 1 .. Len(s) : Rotated(s) = RotateTo(s, k)
    BY <1>2, RotatedIs
  <2> QED
    BY <2>1, RotateAlike
<1> QED
  BY <1>1, <1>2

-----------------------------------------------------------------------------
(***************************************************************************)
(* The two moves of the operators, of an edge whose uses are a and c: two  *)
(* rings p and q and the ring of a, p, c and q; and one ring of p and q    *)
(* and the rings of a and p and of c and q.                                *)
(***************************************************************************)

Bridged(a, p, c, q) == <<a>> \o p \o (<<c>> \o q)

\* The way from u over the piece t to w.
Via(u, t, w) ==
    IF t = <<>> THEN {<<Half(u), Half(w)>>}
    ELSE {<<Half(u), Half(t[1])>>, <<Half(t[Len(t)]), Half(w)>>}

LEMMA BehindIs ==
    ASSUME NEW S, NEW a \in S, NEW p \in Seq(S)
    PROVE  LET t == <<a>> \o p IN
           /\ t \in Seq(S) /\ t # <<>> /\ t[1] = a
           /\ t[Len(t)] = IF p = <<>> THEN a ELSE p[Len(p)]
           /\ HalvesIn(t) = {Half(a)} \cup HalvesIn(p)
           /\ Apart(t) <=> Apart(p) /\ Half(a) \notin HalvesIn(p)
           /\ Steps(t) = Steps(p) \cup Seam(<<a>>, p)
           /\ Round(t) = Steps(p) \cup Via(a, p, a)
<1> DEFINE h == <<a>>
           t == h \o p
<1>1. h \in Seq(S) /\ Len(h) = 1 /\ h[1] = a /\ h # <<>>
  OBVIOUS
<1>2. HalvesIn(h) = {Half(a)} /\ Apart(h) /\ Steps(h) = {}
  BY OneUse
<1> HIDE DEF h
<1>3. /\ t \in Seq(S) /\ Len(t) = Len(p) + 1 /\ Len(p) \in Nat
      /\ \A k \in 1 .. Len(t) : t[k] = IF k <= 1 THEN h[k] ELSE p[k - 1]
  <2>1. /\ t \in Seq(S) /\ Len(t) = Len(h) + Len(p) /\ Len(p) \in Nat
        /\ \A k \in 1 .. (Len(h) + Len(p)) : t[k] = IF k <= Len(h) THEN h[k] ELSE p[k - Len(h)]
    <3>1. h \in Seq(S)
      BY <1>1
    <3> QED
      BY <3>1, ConcatProperties
  <2> HIDE DEF t
  <2> QED
    BY <1>1, <2>1
<1>4. HalvesIn(t) = {Half(a)} \cup HalvesIn(p)
      /\ (Apart(t) <=> Apart(p) /\ Half(a) \notin HalvesIn(p))
  <2>1. HalvesIn(t) = HalvesIn(h) \cup HalvesIn(p)
        /\ (Apart(t) <=> Apart(h) /\ Apart(p) /\ HalvesIn(h) \cap HalvesIn(p) = {})
    BY <1>1, JoinedHalves
  <2> QED
    BY <1>2, <2>1
<1>5. Steps(t) = Steps(p) \cup Seam(h, p)
  <2>1. Steps(t) = Steps(h) \cup Seam(h, p) \cup Steps(p)
    BY <1>1, JoinedSteps
  <2> QED
    BY <1>2, <2>1
<1> HIDE DEF t
<1>6. t # <<>> /\ t[1] = a
  BY <1>1, <1>3
<1>7. t[Len(t)] = IF p = <<>> THEN a ELSE p[Len(p)]
  <2>1. CASE p = <<>>
    BY <1>3, <1>6, <2>1
  <2>2. CASE p # <<>>
    <3>1. Len(p) > 0
      BY <2>2
    <3>2. Len(t) \in 1 .. Len(t) /\ ~ (Len(t) <= 1) /\ Len(t) - 1 = Len(p)
      BY <1>3, <3>1
    <3> QED
      BY <1>3, <2>2, <3>2
  <2> QED
    BY <2>1, <2>2
<1>8. Round(t) = Steps(p) \cup Via(a, p, a)
  <2>1. Round(t) = Steps(t) \cup {<<Half(t[Len(t)]), Half(t[1])>>}
    BY <1>6 DEF Round
  <2>2. CASE p = <<>>
    <3>1. Seam(h, p) = {} /\ Via(a, p, a) = {<<Half(a), Half(a)>>}
      BY <2>2 DEF Seam, Via
    <3> QED
      BY <1>5, <1>6, <1>7, <2>1, <2>2, <3>1
  <2>3. CASE p # <<>>
    <3>1. Seam(h, p) = {<<Half(a), Half(p[1])>>}
      BY <1>1, <2>3 DEF Seam
    <3>2. Via(a, p, a) = {<<Half(a), Half(p[1])>>, <<Half(p[Len(p)]), Half(a)>>}
      BY <2>3 DEF Via
    <3> QED
      BY <1>5, <1>6, <1>7, <2>1, <2>3, <3>1, <3>2
  <2> QED
    BY <2>2, <2>3
<1> QED
  BY <1>3, <1>4, <1>5, <1>6, <1>7, <1>8 DEF t, h

LEMMA BridgedIs ==
    ASSUME NEW S, NEW a \in S, NEW c \in S, NEW p \in Seq(S), NEW q \in Seq(S)
    PROVE  LET t == Bridged(a, p, c, q) IN
           /\ t \in Seq(S) /\ t # <<>>
           /\ HalvesIn(t) = {Half(a), Half(c)} \cup HalvesIn(p) \cup HalvesIn(q)
           /\ Apart(t) <=> /\ Apart(p) /\ Apart(q) /\ HalvesIn(p) \cap HalvesIn(q) = {}
                           /\ {Half(a), Half(c)} \cap (HalvesIn(p) \cup HalvesIn(q)) = {}
                           /\ Half(a) # Half(c)
           /\ Round(t) = Steps(p) \cup Steps(q) \cup Via(a, p, c) \cup Via(c, q, a)
<1> DEFINE g == <<a>> \o p
           h == <<c>> \o q
           t == g \o h
<1>1. /\ g \in Seq(S) /\ g # <<>> /\ g[1] = a
      /\ g[Len(g)] = IF p = <<>> THEN a ELSE p[Len(p)]
      /\ HalvesIn(g) = {Half(a)} \cup HalvesIn(p)
      /\ Apart(g) <=> Apart(p) /\ Half(a) \notin HalvesIn(p)
      /\ Steps(g) = Steps(p) \cup Seam(<<a>>, p)
  BY BehindIs
<1>2. /\ h \in Seq(S) /\ h # <<>> /\ h[1] = c
      /\ h[Len(h)] = IF q = <<>> THEN c ELSE q[Len(q)]
      /\ HalvesIn(h) = {Half(c)} \cup HalvesIn(q)
      /\ Apart(h) <=> Apart(q) /\ Half(c) \notin HalvesIn(q)
      /\ Steps(h) = Steps(q) \cup Seam(<<c>>, q)
  BY BehindIs
<1> HIDE DEF g, h
<1>3. /\ t \in Seq(S) /\ HalvesIn(t) = HalvesIn(g) \cup HalvesIn(h)
      /\ Apart(t) <=> Apart(g) /\ Apart(h) /\ HalvesIn(g) \cap HalvesIn(h) = {}
      /\ Round(t) = Steps(g) \cup Steps(h) \cup Seam(g, h) \cup Seam(h, g)
  <2>1. t \in Seq(S)
    BY <1>1, <1>2, ConcatProperties
  <2>2. /\ HalvesIn(t) = HalvesIn(g) \cup HalvesIn(h)
        /\ Apart(t) <=> Apart(g) /\ Apart(h) /\ HalvesIn(g) \cap HalvesIn(h) = {}
    BY <1>1, <1>2, JoinedHalves
  <2>3. Round(t) = Steps(g) \cup Steps(h) \cup Seam(g, h) \cup Seam(h, g)
    BY <1>1, <1>2, JoinedRound
  <2> QED
    BY <2>1, <2>2, <2>3
<1>4. t # <<>>
  BY <1>1, <1>2, ConcatEqualIffEmpty
<1> HIDE DEF t
<1>5. HalvesIn(t) = {Half(a), Half(c)} \cup HalvesIn(p) \cup HalvesIn(q)
  BY <1>1, <1>2, <1>3
<1>6. Apart(t) <=> /\ Apart(p) /\ Apart(q) /\ HalvesIn(p) \cap HalvesIn(q) = {}
                   /\ {Half(a), Half(c)} \cap (HalvesIn(p) \cup HalvesIn(q)) = {}
                   /\ Half(a) # Half(c)
  <2> DEFINE P == HalvesIn(p)
             Q == HalvesIn(q)
             k == Half(a)
             l == Half(c)
  <2>1. HalvesIn(g) \cap HalvesIn(h) = {} <=> ({k} \cup P) \cap ({l} \cup Q) = {}
    BY <1>1, <1>2
  <2>2. /\ Apart(g) <=> Apart(p) /\ k \notin P
        /\ Apart(h) <=> Apart(q) /\ l \notin Q
        /\ Apart(t) <=> Apart(g) /\ Apart(h) /\ HalvesIn(g) \cap HalvesIn(h) = {}
    BY <1>1, <1>2, <1>3
  <2> HIDE DEF P, Q, k, l
  <2>3. ({k} \cup P) \cap ({l} \cup Q) = {} <=>
            k # l /\ k \notin Q /\ l \notin P /\ P \cap Q = {}
    OBVIOUS
  <2>4. {k, l} \cap (P \cup Q) = {} <=> k \notin P /\ k \notin Q /\ l \notin P /\ l \notin Q
    OBVIOUS
  <2> QED
    BY <2>1, <2>2, <2>3, <2>4 DEF P, Q, k, l
<1>7. Seam(<<a>>, p) \cup Seam(g, h) = Via(a, p, c)
  <2>1. Seam(g, h) = {<<Half(g[Len(g)]), Half(c)>>}
    BY <1>1, <1>2 DEF Seam
  <2>2. CASE p = <<>>
    BY <1>1, <2>1, <2>2 DEF Seam, Via
  <2>3. CASE p # <<>>
    <3>1. Seam(<<a>>, p) = {<<Half(a), Half(p[1])>>}
      BY <2>3, OneUse DEF Seam
    <3> QED
      BY <1>1, <2>1, <2>3, <3>1 DEF Via
  <2> QED
    BY <2>2, <2>3
<1>8. Seam(<<c>>, q) \cup Seam(h, g) = Via(c, q, a)
  <2>1. Seam(h, g) = {<<Half(h[Len(h)]), Half(a)>>}
    BY <1>1, <1>2 DEF Seam
  <2>2. CASE q = <<>>
    BY <1>2, <2>1, <2>2 DEF Seam, Via
  <2>3. CASE q # <<>>
    <3>1. Seam(<<c>>, q) = {<<Half(c), Half(q[1])>>}
      BY <2>3, OneUse DEF Seam
    <3> QED
      BY <1>2, <2>1, <2>3, <3>1 DEF Via
  <2> QED
    BY <2>2, <2>3
<1>9. Round(t) = Steps(p) \cup Steps(q) \cup Via(a, p, c) \cup Via(c, q, a)
  BY <1>1, <1>2, <1>3, <1>7, <1>8
<1> QED
  BY <1>3, <1>4, <1>5, <1>6, <1>9 DEF t, Bridged, g, h

-----------------------------------------------------------------------------
(***************************************************************************)
(* A ring closes: each half ends where the next begins.                    *)
(***************************************************************************)

TailOf(x, h) == IF h[2] = FORWARD THEN x.e.at[h[1]].start ELSE x.e.at[h[1]].end
HeadOf(x, h) == IF h[2] = FORWARD THEN x.e.at[h[1]].end ELSE x.e.at[h[1]].start
Fits(x, R) == \A l \in R : HeadOf(x, l[1]) = TailOf(x, l[2])

LEMMA FitsOne ==
    ASSUME NEW x, NEW h, NEW k
    PROVE  Fits(x, {<<h, k>>}) <=> HeadOf(x, h) = TailOf(x, k)
<1>1. \A l \in {<<h, k>>} : l[1] = h /\ l[2] = k
  OBVIOUS
<1>2. <<h, k>> \in {<<h, k>>}
  OBVIOUS
<1> QED
  BY <1>1, <1>2 DEF Fits

LEMMA FitsUnion ==
    ASSUME NEW x, NEW P, NEW Q
    PROVE  Fits(x, P \cup Q) <=> Fits(x, P) /\ Fits(x, Q)
BY DEF Fits

LEMMA FitsFour ==
    ASSUME NEW x, NEW P, NEW Q, NEW R, NEW T
    PROVE  Fits(x, P \cup Q \cup R \cup T) <=>
              Fits(x, P) /\ Fits(x, Q) /\ Fits(x, R) /\ Fits(x, T)
BY DEF Fits

\* What a piece asks of its neighbours.
LEMMA FitsVia ==
    ASSUME NEW x, NEW u, NEW t, NEW w
    PROVE  /\ t = <<>> => (Fits(x, Via(u, t, w)) <=> HeadOf(x, Half(u)) = TailOf(x, Half(w)))
           /\ t # <<>> => (Fits(x, Via(u, t, w)) <=>
                             /\ HeadOf(x, Half(u)) = TailOf(x, Half(t[1]))
                             /\ HeadOf(x, Half(t[Len(t)])) = TailOf(x, Half(w)))
<1>1. CASE t = <<>>
  <2>1. Via(u, t, w) = {<<Half(u), Half(w)>>}
    BY <1>1 DEF Via
  <2> QED
    BY <1>1, <2>1, FitsOne
<1>2. CASE t # <<>>
  <2> DEFINE P == {<<Half(u), Half(t[1])>>}
             Q == {<<Half(t[Len(t)]), Half(w)>>}
  <2>1. Via(u, t, w) = P \cup Q
    BY <1>2 DEF Via
  <2>2. Fits(x, P) <=> HeadOf(x, Half(u)) = TailOf(x, Half(t[1]))
    BY FitsOne
  <2>3. Fits(x, Q) <=> HeadOf(x, Half(t[Len(t)])) = TailOf(x, Half(w))
    BY FitsOne
  <2> HIDE DEF P, Q
  <2>4. Fits(x, Via(u, t, w)) <=> Fits(x, P) /\ Fits(x, Q)
    BY <2>1, FitsUnion
  <2> QED
    BY <1>2, <2>2, <2>3, <2>4
<1> QED
  BY <1>1, <1>2

LEMMA FitsRound ==
    ASSUME NEW x, NEW t
    PROVE  Fits(x, Round(t)) <=>
              Fits(x, Steps(t)) /\ (t # <<>> => HeadOf(x, Half(t[Len(t)])) = TailOf(x, Half(t[1])))
<1>1. CASE t = <<>>
  BY <1>1, NoUse DEF Fits
<1>2. CASE t # <<>>
  <2> DEFINE P == Steps(t)
             Q == {<<Half(t[Len(t)]), Half(t[1])>>}
  <2>1. Round(t) = P \cup Q
    BY <1>2 DEF Round
  <2>2. Fits(x, Q) <=> HeadOf(x, Half(t[Len(t)])) = TailOf(x, Half(t[1]))
    BY FitsOne
  <2> HIDE DEF P, Q
  <2>3. Fits(x, Round(t)) <=> Fits(x, P) /\ Fits(x, Q)
    BY <2>1, FitsUnion
  <2> QED
    BY <1>2, <2>2, <2>3 DEF P
<1> QED
  BY <1>1, <1>2

LEMMA BridgeFits ==
    ASSUME NEW x, NEW S, NEW a \in S, NEW c \in S, NEW p \in Seq(S), NEW q \in Seq(S),
           HeadOf(x, Half(a)) = TailOf(x, Half(c)), HeadOf(x, Half(c)) = TailOf(x, Half(a))
    PROVE  Fits(x, Round(Bridged(a, p, c, q))) <=>
              /\ Fits(x, Round(p)) /\ Fits(x, Round(q))
              /\ p # <<>> => TailOf(x, Half(p[1])) = HeadOf(x, Half(a))
              /\ q # <<>> => TailOf(x, Half(q[1])) = TailOf(x, Half(a))
<1>1. Round(Bridged(a, p, c, q)) = Steps(p) \cup Steps(q) \cup Via(a, p, c) \cup Via(c, q, a)
  BY BridgedIs
<1>2. Fits(x, Round(Bridged(a, p, c, q))) <=>
         /\ Fits(x, Steps(p)) /\ Fits(x, Steps(q))
         /\ Fits(x, Via(a, p, c)) /\ Fits(x, Via(c, q, a))
  BY <1>1, FitsFour
<1> QED
  BY <1>2, FitsVia, FitsRound

LEMMA SplitFits ==
    ASSUME NEW x, NEW S, NEW a \in S, NEW c \in S, NEW p \in Seq(S), NEW q \in Seq(S),
           HeadOf(x, Half(a)) = TailOf(x, Half(c)), HeadOf(x, Half(c)) = TailOf(x, Half(a))
    PROVE  Fits(x, Round(<<a>> \o p)) /\ Fits(x, Round(<<c>> \o q)) <=>
              /\ Fits(x, Round(p \o q))
              /\ p # <<>> => TailOf(x, Half(p[1])) = HeadOf(x, Half(a))
              /\ q # <<>> => TailOf(x, Half(q[1])) = TailOf(x, Half(a))
              /\ p = <<>> \/ q = <<>> => HeadOf(x, Half(a)) = TailOf(x, Half(a))
<1> DEFINE g == <<a>> \o p
           h == <<c>> \o q
           t == p \o q
           meets == /\ p # <<>> => TailOf(x, Half(p[1])) = HeadOf(x, Half(a))
                    /\ q # <<>> => TailOf(x, Half(q[1])) = TailOf(x, Half(a))
                    /\ p = <<>> \/ q = <<>> => HeadOf(x, Half(a)) = TailOf(x, Half(a))
<1>1. Round(g) = Steps(p) \cup Via(a, p, a)
  BY BehindIs
<1>2. Round(h) = Steps(q) \cup Via(c, q, c)
  BY BehindIs
<1>3. /\ p = <<>> => t = q
      /\ q = <<>> => t = p
      /\ p # <<>> /\ q # <<>> => Round(t) = Steps(p) \cup Steps(q) \cup Seam(p, q) \cup Seam(q, p)
  BY JoinedRound
<1> HIDE DEF g, h, t
<1>4. /\ Fits(x, Round(g)) <=> Fits(x, Steps(p)) /\ Fits(x, Via(a, p, a))
      /\ Fits(x, Round(h)) <=> Fits(x, Steps(q)) /\ Fits(x, Via(c, q, c))
  BY <1>1, <1>2, FitsUnion
<1>5. Fits(x, Steps(<<>>))
  BY NoUse DEF Fits
<1>6. ASSUME p = <<>> \/ q = <<>>
      PROVE  Fits(x, Round(g)) /\ Fits(x, Round(h)) <=> Fits(x, Round(t)) /\ meets
  BY <1>3, <1>4, <1>5, <1>6, FitsVia, FitsRound
<1>7. ASSUME p # <<>>, q # <<>>
      PROVE  Fits(x, Round(g)) /\ Fits(x, Round(h)) <=> Fits(x, Round(t)) /\ meets
  <2>1. /\ Seam(p, q) = {<<Half(p[Len(p)]), Half(q[1])>>}
        /\ Seam(q, p) = {<<Half(q[Len(q)]), Half(p[1])>>}
    BY <1>7 DEF Seam
  <2>2. /\ Fits(x, Seam(p, q)) <=> HeadOf(x, Half(p[Len(p)])) = TailOf(x, Half(q[1]))
        /\ Fits(x, Seam(q, p)) <=> HeadOf(x, Half(q[Len(q)])) = TailOf(x, Half(p[1]))
    BY <2>1, FitsOne
  <2>3. Fits(x, Round(t)) <=>
           Fits(x, Steps(p)) /\ Fits(x, Steps(q)) /\ Fits(x, Seam(p, q)) /\ Fits(x, Seam(q, p))
    BY <1>3, <1>7, FitsFour
  <2> QED
    BY <1>4, <1>7, <2>2, <2>3, FitsVia
<1> QED
  BY <1>6, <1>7 DEF g, h, t

-----------------------------------------------------------------------------
(***************************************************************************)
(* What rings together walk: their halves, how these follow each other,    *)
(* and the halves walked twice.                                            *)
(***************************************************************************)

None == [halves |-> {}, links |-> {}, twice |-> {}]
Ring(s) == [halves |-> HalvesIn(s), links |-> Round(s),
            twice |-> IF Apart(s) THEN {} ELSE HalvesIn(s)]
Join(c, d) == [halves |-> c.halves \cup d.halves, links |-> c.links \cup d.links,
               twice |-> c.twice \cup d.twice \cup (c.halves \cap d.halves)]
\* What the members of a family walk together.
Total(I, c) ==
    [halves |-> UNION {c[i].halves : i \in I},
     links  |-> UNION {c[i].links : i \in I},
     twice  |-> (UNION {c[i].twice : i \in I})
                  \cup UNION {UNION {c[i].halves \cap c[j].halves : j \in I \ {i}} : i \in I}]

LEMMA JoinCommutes ==
    ASSUME NEW c, NEW d
    PROVE  Join(c, d) = Join(d, c)
<1>1. /\ c.halves \cup d.halves = d.halves \cup c.halves
      /\ c.links \cup d.links = d.links \cup c.links
      /\ c.twice \cup d.twice \cup (c.halves \cap d.halves)
           = d.twice \cup c.twice \cup (d.halves \cap c.halves)
  OBVIOUS
<1> QED
  BY <1>1, Zenon DEF Join

LEMMA JoinAssociates ==
    ASSUME NEW c, NEW d, NEW g
    PROVE  Join(Join(c, d), g) = Join(c, Join(d, g))
<1> DEFINE l == Join(c, d)
           r == Join(d, g)
<1>1. /\ l.halves = c.halves \cup d.halves /\ l.links = c.links \cup d.links
      /\ l.twice = c.twice \cup d.twice \cup (c.halves \cap d.halves)
  BY DEF Join
<1>2. /\ r.halves = d.halves \cup g.halves /\ r.links = d.links \cup g.links
      /\ r.twice = d.twice \cup g.twice \cup (d.halves \cap g.halves)
  BY DEF Join
<1> HIDE DEF l, r
<1>3. /\ l.halves \cup g.halves = c.halves \cup r.halves
      /\ l.links \cup g.links = c.links \cup r.links
      /\ l.twice \cup g.twice \cup (l.halves \cap g.halves)
           = c.twice \cup r.twice \cup (c.halves \cap r.halves)
  BY <1>1, <1>2
<1>4. Join(l, g) = Join(c, r)
  BY <1>3, Zenon DEF Join
<1> QED
  BY <1>4 DEF l, r

LEMMA JoinNone ==
    ASSUME NEW h, NEW k, NEW t
    PROVE  LET c == [halves |-> h, links |-> k, twice |-> t] IN
           Join(c, None) = c /\ Join(None, c) = c
<1> DEFINE c == [halves |-> h, links |-> k, twice |-> t]
<1>1. /\ c.halves = h /\ c.links = k /\ c.twice = t
      /\ None.halves = {} /\ None.links = {} /\ None.twice = {}
  BY DEF None
<1> HIDE DEF c
<1>2. Join(c, None) = [halves |-> h, links |-> k, twice |-> t]
  <2>1. /\ c.halves \cup None.halves = h /\ c.links \cup None.links = k
        /\ c.twice \cup None.twice \cup (c.halves \cap None.halves) = t
    BY <1>1
  <2> QED
    BY <2>1, Zenon DEF Join
<1> QED
  BY <1>2, JoinCommutes DEF c

LEMMA TotalOfNone == ASSUME NEW c PROVE Total({}, c) = None
<1>1. /\ UNION {c[i].halves : i \in {}} = {} /\ UNION {c[i].links : i \in {}} = {}
      /\ (UNION {c[i].twice : i \in {}})
           \cup UNION {UNION {c[i].halves \cap c[j].halves : j \in {} \ {i}} : i \in {}} = {}
  OBVIOUS
<1> QED
  BY <1>1, Zenon DEF Total, None

\* What is in a total, member by member.
LEMMA TotalIs ==
    ASSUME NEW I, NEW c
    PROVE  LET t == Total(I, c) IN
           /\ \A h : h \in t.halves <=> \E i \in I : h \in c[i].halves
           /\ \A l : l \in t.links <=> \E i \in I : l \in c[i].links
           /\ \A h : h \in t.twice <=>
                \/ \E i \in I : h \in c[i].twice
                \/ \E i, j \in I : i # j /\ h \in c[i].halves /\ h \in c[j].halves
<1> DEFINE t == Total(I, c)
<1>1. /\ t.halves = UNION {c[i].halves : i \in I} /\ t.links = UNION {c[i].links : i \in I}
      /\ t.twice = (UNION {c[i].twice : i \in I})
           \cup UNION {UNION {c[i].halves \cap c[j].halves : j \in I \ {i}} : i \in I}
  BY DEF Total
<1> HIDE DEF t
<1>2. \A h : h \in t.halves <=> \E i \in I : h \in c[i].halves
  BY <1>1
<1>3. \A l : l \in t.links <=> \E i \in I : l \in c[i].links
  BY <1>1
<1>4. \A h : h \in t.twice <=>
                \/ \E i \in I : h \in c[i].twice
                \/ \E i, j \in I : i # j /\ h \in c[i].halves /\ h \in c[j].halves
  BY <1>1
<1> QED
  BY <1>2, <1>3, <1>4 DEF t

\* Three fields make a content.
LEMMA SameContent ==
    ASSUME NEW I, NEW c, NEW h, NEW k, NEW t,
           Total(I, c).halves = h, Total(I, c).links = k, Total(I, c).twice = t
    PROVE  Total(I, c) = [halves |-> h, links |-> k, twice |-> t]
BY Zenon DEF Total

LEMMA TotalSplit ==
    ASSUME NEW I, NEW c, NEW i \in I
    PROVE  Total(I, c) = Join(c[i], Total(I \ {i}, c))
<1> DEFINE t == Total(I, c)
           s == Total(I \ {i}, c)
<1>1. /\ \A h : h \in t.halves <=> \E j \in I : h \in c[j].halves
      /\ \A l : l \in t.links <=> \E j \in I : l \in c[j].links
      /\ \A h : h \in t.twice <=>
                \/ \E j \in I : h \in c[j].twice
                \/ \E j, k \in I : j # k /\ h \in c[j].halves /\ h \in c[k].halves
  BY TotalIs
<1>2. /\ \A h : h \in s.halves <=> \E j \in I \ {i} : h \in c[j].halves
      /\ \A l : l \in s.links <=> \E j \in I \ {i} : l \in c[j].links
      /\ \A h : h \in s.twice <=>
                \/ \E j \in I \ {i} : h \in c[j].twice
                \/ \E j, k \in I \ {i} : j # k /\ h \in c[j].halves /\ h \in c[k].halves
  BY TotalIs
<1> DEFINE h == c[i].halves \cup s.halves
           l == c[i].links \cup s.links
           w == c[i].twice \cup s.twice \cup (c[i].halves \cap s.halves)
<1>3. Join(c[i], s) = [halves |-> h, links |-> l, twice |-> w]
  BY DEF Join
<1> HIDE DEF t, s
<1>4. t.halves = h
  BY <1>1, <1>2
<1>5. t.links = l
  BY <1>1, <1>2
<1>6. t.twice = w
  <2>1. ASSUME NEW g \in t.twice PROVE g \in w
    BY <1>1, <1>2, <2>1
  <2>2. ASSUME NEW g \in w PROVE g \in t.twice
    BY <1>1, <1>2, <2>2
  <2> QED
    BY <2>1, <2>2
<1> HIDE DEF h, l, w
<1>7. t = [halves |-> h, links |-> l, twice |-> w]
  BY <1>4, <1>5, <1>6, SameContent DEF t
<1> QED
  BY <1>3, <1>7 DEF t, s

\* A family told again in another order.
LEMMA TotalSame ==
    ASSUME NEW I, NEW J, NEW c, NEW d, NEW r \in Bijection(J, I), \A j \in J : d[j] = c[r[j]]
    PROVE  Total(J, d) = Total(I, c)
<1> DEFINE t == Total(I, c)
           s == Total(J, d)
<1>1. /\ \A h : h \in t.halves <=> \E j \in I : h \in c[j].halves
      /\ \A l : l \in t.links <=> \E j \in I : l \in c[j].links
      /\ \A h : h \in t.twice <=>
                \/ \E j \in I : h \in c[j].twice
                \/ \E j, k \in I : j # k /\ h \in c[j].halves /\ h \in c[k].halves
  BY TotalIs
<1>2. /\ \A h : h \in s.halves <=> \E j \in J : h \in d[j].halves
      /\ \A l : l \in s.links <=> \E j \in J : l \in d[j].links
      /\ \A h : h \in s.twice <=>
                \/ \E j \in J : h \in d[j].twice
                \/ \E j, k \in J : j # k /\ h \in d[j].halves /\ h \in d[k].halves
  BY TotalIs
<1>3. /\ \A j \in J : r[j] \in I /\ d[j] = c[r[j]]
      /\ \A i \in I : \E j \in J : r[j] = i
      /\ \A j, k \in J : r[j] = r[k] => j = k
  <2>1. /\ r \in [J -> I] /\ \A j, k \in J : r[j] = r[k] => j = k
        /\ \A i \in I : \E j \in J : r[j] = i
    BY Fun_BijectionProperties
  <2> QED
    BY <2>1
<1> HIDE DEF t, s
<1>4. t.halves = s.halves
  <2>1. ASSUME NEW g \in t.halves PROVE g \in s.halves
    <3>1. PICK i \in I : g \in c[i].halves
      BY <1>1
    <3>2. PICK j \in J : r[j] = i
      BY <1>3
    <3>3. g \in d[j].halves
      BY <1>3, <3>1, <3>2
    <3> QED
      BY <1>2, <3>3
  <2>2. ASSUME NEW g \in s.halves PROVE g \in t.halves
    <3>1. PICK j \in J : g \in d[j].halves
      BY <1>2
    <3>2. r[j] \in I /\ g \in c[r[j]].halves
      BY <1>3, <3>1
    <3> QED
      BY <1>1, <3>2
  <2> QED
    BY <2>1, <2>2
<1>5. t.links = s.links
  <2>1. ASSUME NEW g \in t.links PROVE g \in s.links
    <3>1. PICK i \in I : g \in c[i].links
      BY <1>1
    <3>2. PICK j \in J : r[j] = i
      BY <1>3
    <3>3. g \in d[j].links
      BY <1>3, <3>1, <3>2
    <3> QED
      BY <1>2, <3>3
  <2>2. ASSUME NEW g \in s.links PROVE g \in t.links
    <3>1. PICK j \in J : g \in d[j].links
      BY <1>2
    <3>2. r[j] \in I /\ g \in c[r[j]].links
      BY <1>3, <3>1
    <3> QED
      BY <1>1, <3>2
  <2> QED
    BY <2>1, <2>2
<1>6. t.twice = s.twice
  <2>1. ASSUME NEW g \in t.twice PROVE g \in s.twice
    <3>1. CASE \E i \in I : g \in c[i].twice
      BY <1>2, <1>3, <3>1
    <3>2. CASE \E i, k \in I : i # k /\ g \in c[i].halves /\ g \in c[k].halves
      <4>1. PICK i \in I, k \in I : i # k /\ g \in c[i].halves /\ g \in c[k].halves
        BY <3>2
      <4>2. PICK p \in J : r[p] = i
        BY <1>3
      <4>3. PICK q \in J : r[q] = k
        BY <1>3
      <4>4. p # q /\ g \in d[p].halves /\ g \in d[q].halves
        BY <1>3, <4>1, <4>2, <4>3
      <4> QED
        BY <1>2, <4>4
    <3> QED
      BY <1>1, <3>1, <3>2
  <2>2. ASSUME NEW g \in s.twice PROVE g \in t.twice
    <3>1. CASE \E j \in J : g \in d[j].twice
      BY <1>1, <1>3, <3>1
    <3>2. CASE \E j, k \in J : j # k /\ g \in d[j].halves /\ g \in d[k].halves
      <4>1. PICK p \in J, q \in J : p # q /\ g \in d[p].halves /\ g \in d[q].halves
        BY <3>2
      <4>2. r[p] \in I /\ r[q] \in I /\ r[p] # r[q] /\ g \in c[r[p]].halves /\ g \in c[r[q]].halves
        BY <1>3, <4>1
      <4> QED
        BY <1>1, <4>2
    <3> QED
      BY <1>2, <3>1, <3>2
  <2> QED
    BY <2>1, <2>2
<1>7. t = [halves |-> s.halves, links |-> s.links, twice |-> s.twice]
  BY <1>4, <1>5, <1>6, SameContent DEF t
<1>8. s = [halves |-> s.halves, links |-> s.links, twice |-> s.twice]
  BY SameContent DEF s
<1> QED
  BY <1>7, <1>8 DEF t, s

\* The pieces a ring is joined of are those of either.
LEMMA AlikeRings ==
    ASSUME NEW s, NEW t, Alike(s, t)
    PROVE  Ring(s) = Ring(t)
<1>1. /\ HalvesIn(s) = HalvesIn(t) /\ Round(s) = Round(t)
      /\ (IF Apart(s) THEN {} ELSE HalvesIn(s)) = (IF Apart(t) THEN {} ELSE HalvesIn(t))
  BY DEF Alike
<1> QED
  BY <1>1, Zenon DEF Ring

LEMMA RingIs ==
    ASSUME NEW s
    PROVE  /\ Ring(s).halves = HalvesIn(s) /\ Ring(s).links = Round(s)
           /\ Ring(s).twice = {} <=> Apart(s)
           /\ Ring(s).twice \subseteq HalvesIn(s)
           /\ Join(Ring(s), None) = Ring(s) /\ Join(None, Ring(s)) = Ring(s)
           /\ Ring(<<>>) = None
<1>1. Join(Ring(s), None) = Ring(s) /\ Join(None, Ring(s)) = Ring(s)
  BY JoinNone DEF Ring
<1>2. Ring(<<>>) = None
  <2>1. HalvesIn(<<>>) = {} /\ Round(<<>>) = {} /\ Apart(<<>>)
    BY NoUse
  <2>2. (IF Apart(<<>>) THEN {} ELSE HalvesIn(<<>>)) = {}
    BY <2>1
  <2> QED
    BY <2>1, <2>2, Zenon DEF Ring, None
<1>3. Ring(s).twice = {} <=> Apart(s)
  <2>1. ASSUME ~ Apart(s) PROVE HalvesIn(s) # {}
    <3>1. PICK i \in 1 .. Len(s) : TRUE
      BY <2>1 DEF Apart
    <3> QED
      BY <3>1 DEF HalvesIn
  <2> QED
    BY <2>1 DEF Ring
<1>4. /\ Ring(s).halves = HalvesIn(s) /\ Ring(s).links = Round(s)
      /\ Ring(s).twice \subseteq HalvesIn(s)
  BY DEF Ring
<1> QED
  BY <1>1, <1>2, <1>3, <1>4

-----------------------------------------------------------------------------
(***************************************************************************)
(* A face: the total of its loops, in whatever order they stand and        *)
(* wherever they begin.  A loop counts for its sides, the halves it walks, *)
(* or for the spot it is, its seed, when it has none: o says which.        *)
(***************************************************************************)

Sides == "sides"
Spots == "spots"
Dot(v) == [halves |-> {v}, links |-> {}, twice |-> {}]
Spot(s, v) == IF s = <<>> THEN Dot(v) ELSE None
Drawn(o, l) == IF o = Sides THEN Ring(l.uses) ELSE Spot(l.uses, l.seed)

LEMMA DrawnIs ==
    ASSUME NEW l
    PROVE  Drawn(Sides, l) = Ring(l.uses) /\ Drawn(Spots, l) = Spot(l.uses, l.seed)
BY DEF Drawn, Sides, Spots

LEMMA DrawnNone ==
    ASSUME NEW o, NEW l
    PROVE  Join(Drawn(o, l), None) = Drawn(o, l) /\ Join(None, Drawn(o, l)) = Drawn(o, l)
<1>1. Join(Ring(l.uses), None) = Ring(l.uses) /\ Join(None, Ring(l.uses)) = Ring(l.uses)
  BY RingIs
<1>2. Join(Dot(l.seed), None) = Dot(l.seed) /\ Join(None, Dot(l.seed)) = Dot(l.seed)
  BY JoinNone DEF Dot
<1>3. Join(None, None) = None
  BY RingIs
<1> QED
  BY <1>1, <1>2, <1>3 DEF Drawn, Spot

RingsOf(o, ls) == [i \in 1 .. Len(ls) |-> Drawn(o, ls[i])]
\* The loops of a sequence but those at the places J.
Besides(o, ls, J) == Total((1 .. Len(ls)) \ J, RingsOf(o, ls))
Walked(o, ls) == Besides(o, ls, {})

LEMMA SameFamily ==
    ASSUME NEW I, NEW c, NEW d, \A i \in I : d[i] = c[i]
    PROVE  Total(I, d) = Total(I, c)
<1> DEFINE r == [i \in I |-> i]
<1>1. r \in [I -> I] /\ \A i \in I : r[i] = i
  OBVIOUS
<1> HIDE DEF r
<1>2. /\ \A i, j \in I : r[i] = r[j] => i = j
      /\ \A i \in I : \E j \in I : r[j] = i
  BY <1>1
<1>3. r \in Bijection(I, I)
  <2>1. r \in Injection(I, I)
    BY <1>1, <1>2, Fun_IsInj
  <2>2. r \in Surjection(I, I)
    BY <1>1, <1>2, Fun_IsSurj
  <2> QED
    BY <2>1, <2>2 DEF Bijection
<1>4. \A i \in I : d[i] = c[r[i]]
  BY <1>1
<1> QED
  BY <1>3, <1>4, TotalSame

LEMMA BesidesSplit ==
    ASSUME NEW o, NEW S, NEW ls \in Seq(S), NEW J, NEW i \in 1 .. Len(ls), i \notin J
    PROVE  Besides(o, ls, J) = Join(Drawn(o, ls[i]), Besides(o, ls, J \cup {i}))
<1> DEFINE I == (1 .. Len(ls)) \ J
           c == RingsOf(o, ls)
<1>1. c[i] = Drawn(o, ls[i])
  BY DEF RingsOf
<1>2. I \ {i} = (1 .. Len(ls)) \ (J \cup {i}) /\ i \in I
  OBVIOUS
<1>3. Besides(o, ls, J) = Total(I, c) /\ Besides(o, ls, J \cup {i}) = Total(I \ {i}, c)
  BY <1>2 DEF Besides
<1> HIDE DEF I, c
<1>4. Total(I, c) = Join(c[i], Total(I \ {i}, c))
  BY <1>2, TotalSplit
<1> QED
  BY <1>1, <1>3, <1>4

\* Places J with other loops leave the rest as it is.
LEMMA BesidesPut ==
    ASSUME NEW o, NEW S, NEW ls \in Seq(S), NEW ks \in Seq(S), Len(ks) = Len(ls), NEW J,
           \A i \in (1 .. Len(ls)) \ J : ks[i] = ls[i]
    PROVE  Besides(o, ks, J) = Besides(o, ls, J)
<1> DEFINE I == (1 .. Len(ls)) \ J
           c == RingsOf(o, ls)
           d == RingsOf(o, ks)
<1>1. \A i \in I : d[i] = c[i]
  BY DEF RingsOf
<1>2. Besides(o, ls, J) = Total(I, c) /\ Besides(o, ks, J) = Total(I, d)
  BY DEF Besides
<1> HIDE DEF I, c, d
<1> QED
  BY <1>1, <1>2, SameFamily

LEMMA WalkedAppend ==
    ASSUME NEW o, NEW S, NEW ls \in Seq(S), NEW l \in S
    PROVE  Walked(o, Append(ls, l)) = Join(Drawn(o, l), Walked(o, ls))
<1> DEFINE n == Len(ls)
           ks == Append(ls, l)
           c == RingsOf(o, ls)
           d == RingsOf(o, ks)
<1>1. /\ n \in Nat /\ Len(ks) = n + 1 /\ ks \in Seq(S) /\ ks[n + 1] = l
      /\ \A i \in 1 .. n : ks[i] = ls[i]
  OBVIOUS
<1>2. 1 .. (n + 1) = (1 .. n) \cup {n + 1} /\ n + 1 \notin 1 .. n /\ n + 1 \in 1 .. (n + 1)
  BY <1>1
<1>3. Besides(o, ks, {}) = Join(Drawn(o, ks[n + 1]), Besides(o, ks, {} \cup {n + 1}))
  <2> DEFINE m == n + 1
             none == {}
  <2> HIDE DEF ks
  <2>1. m \in 1 .. Len(ks) /\ m \notin none
    BY <1>1, <1>2
  <2> HIDE DEF m, none
  <2>2. Besides(o, ks, none) = Join(Drawn(o, ks[m]), Besides(o, ks, none \cup {m}))
    BY <1>1, <2>1, BesidesSplit
  <2> QED
    BY <2>2 DEF m, none
<1>4. \A i \in 1 .. n : d[i] = c[i]
  <2> HIDE DEF ks
  <2>1. \A i \in 1 .. n : i \in 1 .. (n + 1)
    BY <1>2
  <2> QED
    BY <1>1, <2>1 DEF RingsOf
<1> HIDE DEF ks
<1>5. Besides(o, ks, {} \cup {n + 1}) = Besides(o, ls, {})
  <2>1. (1 .. Len(ks)) \ ({} \cup {n + 1}) = 1 .. n /\ (1 .. Len(ls)) \ {} = 1 .. n
    BY <1>1, <1>2
  <2>2. Besides(o, ks, {} \cup {n + 1}) = Total(1 .. n, d) /\ Besides(o, ls, {}) = Total(1 .. n, c)
    <3> HIDE DEF n
    <3> QED
      BY <2>1 DEF Besides
  <2> HIDE DEF c, d
  <2> QED
    BY <1>4, <2>2, SameFamily
<1> QED
  BY <1>1, <1>3, <1>5 DEF Walked, ks

LEMMA WalkedOne ==
    ASSUME NEW o, NEW l
    PROVE  Walked(o, <<l>>) = Drawn(o, l)
<1> DEFINE S == {l}
           e == <<>>
<1>1. e \in Seq(S) /\ l \in S /\ Append(e, l) = <<l>> /\ (1 .. Len(e)) \ {} = {}
  OBVIOUS
<1>2. Walked(o, Append(e, l)) = Join(Drawn(o, l), Walked(o, e))
  <2> HIDE DEF e, S
  <2> QED
    BY <1>1, WalkedAppend
<1>3. Walked(o, e) = None
  BY <1>1, TotalOfNone DEF Walked, Besides
<1> QED
  BY <1>1, <1>2, <1>3, DrawnNone

LEMMA WalkedRemoved ==
    ASSUME NEW o, NEW S, NEW ls \in Seq(S), NEW i \in 1 .. Len(ls)
    PROVE  Walked(o, RemoveAt(ls, i)) = Besides(o, ls, {i})
<1> DEFINE n == Len(ls)
           ks == RemoveAt(ls, i)
           c == RingsOf(o, ls)
           d == RingsOf(o, ks)
           J == 1 .. (n - 1)
           I == (1 .. n) \ {i}
           r == [k \in J |-> IF k < i THEN k ELSE k + 1]
<1>1. n \in Nat /\ i \in Nat /\ 1 <= i /\ i <= n
  OBVIOUS
<1>2. /\ ks \in Seq(S) /\ Len(ks) = n - 1
      /\ \A k \in J : ks[k] = IF k < i THEN ls[k] ELSE ls[k + 1]
  BY RemoveAtIs
<1>3. \A k \in J : r[k] = IF k < i THEN k ELSE k + 1
  OBVIOUS
<1>4. r \in [J -> I]
  <2>1. \A k \in J : (IF k < i THEN k ELSE k + 1) \in I
    BY <1>1
  <2> QED
    BY <2>1
<1> HIDE DEF r, ks
<1>5. \A k \in J : r[k] \in I /\ d[k] = c[r[k]]
  <2> SUFFICES ASSUME NEW k \in J PROVE r[k] \in I /\ d[k] = c[r[k]]
    OBVIOUS
  <2>1. r[k] \in 1 .. n /\ r[k] \in I
    BY <1>4
  <2>2. ks[k] = ls[r[k]]
    BY <1>2, <1>3
  <2>3. c[r[k]] = Drawn(o, ls[r[k]])
    BY <2>1 DEF RingsOf
  <2>4. d[k] = Drawn(o, ks[k])
    BY <1>2 DEF RingsOf
  <2> QED
    BY <2>1, <2>2, <2>3, <2>4
<1>6. \A j, k \in J : r[j] = r[k] => j = k
  <2> SUFFICES ASSUME NEW j \in J, NEW k \in J, r[j] = r[k] PROVE j = k
    OBVIOUS
  <2>1. /\ j \in Nat /\ k \in Nat
        /\ r[j] = IF j < i THEN j ELSE j + 1
        /\ r[k] = IF k < i THEN k ELSE k + 1
    BY <1>1, <1>3
  <2>2. \A p, q \in Nat : (IF p < i THEN p ELSE p + 1) = (IF q < i THEN q ELSE q + 1) => p = q
    BY <1>1
  <2> QED
    BY <2>1, <2>2
<1>7. ASSUME NEW m \in I PROVE \E k \in J : r[k] = m
  <2>1. m \in Nat /\ 1 <= m /\ m <= n /\ m # i
    BY <1>1
  <2>2. CASE m < i
    <3>1. m \in J
      BY <1>1, <2>1, <2>2
    <3>2. r[m] = m
      BY <1>3, <2>2, <3>1
    <3> QED
      BY <3>1, <3>2
  <2>3. CASE ~ (m < i)
    <3>1. m - 1 \in J /\ ~ (m - 1 < i) /\ (m - 1) + 1 = m
      BY <1>1, <2>1, <2>3
    <3>2. r[m - 1] = m
      BY <1>3, <3>1
    <3> QED
      BY <3>1, <3>2
  <2> QED
    BY <2>2, <2>3
<1>8. r \in Bijection(J, I)
  <2> HIDE DEF I, J
  <2>1. r \in Injection(J, I)
    BY <1>4, <1>6, Fun_IsInj
  <2>2. r \in Surjection(J, I)
    BY <1>4, <1>7, Fun_IsSurj
  <2> QED
    BY <2>1, <2>2 DEF Bijection
<1>9. (1 .. Len(ks)) \ {} = J
  BY <1>2
<1>10. Walked(o, ks) = Total(J, d) /\ Besides(o, ls, {i}) = Total(I, c)
  BY <1>9 DEF Walked, Besides
<1> HIDE DEF I, J, c, d
<1>11. Total(J, d) = Total(I, c)
  BY <1>5, <1>8, TotalSame
<1> QED
  BY <1>10, <1>11 DEF ks

\* The seed of a loop without uses is kept, and no other is read.
LEMMA DrawnRotated ==
    ASSUME NEW o, NEW S, NEW l, l.uses \in Seq(S), Alike(Rotated(l.uses), l.uses)
    PROVE  Drawn(o, Loop(Rotated(l.uses), l.seed)) = Drawn(o, l)
<1> DEFINE m == Loop(Rotated(l.uses), l.seed)
           r == Rotated(l.uses)
<1>1. m.uses = r /\ m.seed = IF r = <<>> THEN l.seed ELSE 0
  BY DEF Loop
<1>2. Ring(r) = Ring(l.uses)
  BY AlikeRings
<1>3. l.uses = <<>> => r = <<>>
  BY DEF Rotated
<1>4. l.uses # <<>> => r # <<>>
  <2>1. HalvesIn(r) = HalvesIn(l.uses)
    BY DEF Alike
  <2>2. l.uses # <<>> => 1 \in 1 .. Len(l.uses)
    OBVIOUS
  <2>3. l.uses # <<>> => HalvesIn(l.uses) # {}
    BY <2>2 DEF HalvesIn
  <2>4. HalvesIn(<<>>) = {}
    BY NoUse
  <2> QED
    BY <2>1, <2>3, <2>4
<1> HIDE DEF m, r
<1>5. Spot(m.uses, m.seed) = Spot(l.uses, l.seed)
  BY <1>1, <1>3, <1>4 DEF Spot
<1>6. Ring(m.uses) = Ring(l.uses)
  BY <1>1, <1>2
<1>7. Drawn(o, m) = Drawn(o, l)
  BY <1>5, <1>6 DEF Drawn
<1> QED
  BY <1>7 DEF m

LEMMA WalkedCanonical ==
    ASSUME NEW o, NEW E \in SUBSET Nat, NEW V \in SUBSET Nat, NEW ls \in Seq(LoopsOn(E, V))
    PROVE  Walked(o, CanonicalLoops(ls)) = Walked(o, ls)
<1> DEFINE n == Len(ls)
           ks == CanonicalLoops(ls)
           I == 1 .. n
           c == RingsOf(o, ls)
           d == RingsOf(o, ks)
<1>1. PICK r \in Bijection(I, I) : \A k \in I :
            ks[k] = Loop(Rotated(ls[r[k]].uses), ls[r[k]].seed)
  BY CanonicalIs
<1>2. Len(ks) = n
  BY CanonicalIs
<1> HIDE DEF ks
<1>3. \A k \in I : d[k] = c[r[k]]
  <2> SUFFICES ASSUME NEW k \in I PROVE d[k] = c[r[k]]
    OBVIOUS
  <2>1. r[k] \in I
    <3> HIDE DEF I
    <3> QED
      BY Fun_BijectionProperties
  <2> DEFINE l == ls[r[k]]
  <2>2. l \in LoopsOn(E, V)
    BY <2>1
  <2>3. l.uses \in Seq(UsesOn(E))
    BY <2>2 DEF LoopsOn
  <2> DEFINE m == Loop(Rotated(l.uses), l.seed)
  <2>4. ks[k] = m
    BY <1>1
  <2>5. c[r[k]] = Drawn(o, l)
    BY <2>1 DEF RingsOf
  <2>6. d[k] = Drawn(o, ks[k])
    BY <1>2 DEF RingsOf
  <2> HIDE DEF l
  <2>7. Alike(Rotated(l.uses), l.uses)
    BY <2>3, RotatedAlike
  <2>8. Drawn(o, m) = Drawn(o, l)
    BY <2>3, <2>7, DrawnRotated
  <2> QED
    BY <2>4, <2>5, <2>6, <2>8
<1>4. (1 .. Len(ks)) \ {} = I /\ (1 .. Len(ls)) \ {} = I
  BY <1>2
<1>5. Walked(o, ks) = Total(I, d) /\ Walked(o, ls) = Total(I, c)
  BY <1>4 DEF Walked, Besides
<1> HIDE DEF I, c, d
<1> QED
  BY <1>1, <1>3, <1>5, TotalSame DEF ks

-----------------------------------------------------------------------------
(***************************************************************************)
(* A builder: the total of its faces.                                      *)
(***************************************************************************)

FacesOf(o, x) == [f \in LiveSlots(x.f) |-> Walked(o, LoopsOf(x, f))]
\* The faces of a builder but those of K.
Elsewhere(o, x, K) == Total(LiveSlots(x.f) \ K, FacesOf(o, x))
Content(o, x) == Elsewhere(o, x, {})

LEMMA FaceSplit ==
    ASSUME NEW o, NEW x, NEW K, NEW f \in LiveSlots(x.f), f \notin K
    PROVE  Elsewhere(o, x, K) = Join(Walked(o, LoopsOf(x, f)), Elsewhere(o, x, K \cup {f}))
<1> DEFINE I == LiveSlots(x.f) \ K
           c == FacesOf(o, x)
<1>1. c[f] = Walked(o, LoopsOf(x, f))
  BY DEF FacesOf
<1>2. I \ {f} = LiveSlots(x.f) \ (K \cup {f}) /\ f \in I
  OBVIOUS
<1>3. Elsewhere(o, x, K) = Total(I, c) /\ Elsewhere(o, x, K \cup {f}) = Total(I \ {f}, c)
  BY <1>2 DEF Elsewhere
<1> HIDE DEF I, c
<1>4. Total(I, c) = Join(c[f], Total(I \ {f}, c))
  BY <1>2, TotalSplit
<1> QED
  BY <1>1, <1>3, <1>4

LEMMA FacesSame ==
    ASSUME NEW o, NEW x, NEW y, NEW K, NEW L, LiveSlots(y.f) \ L = LiveSlots(x.f) \ K,
           \A f \in LiveSlots(x.f) \ K : LoopsOf(y, f) = LoopsOf(x, f)
    PROVE  Elsewhere(o, y, L) = Elsewhere(o, x, K)
<1> DEFINE I == LiveSlots(x.f) \ K
           c == FacesOf(o, x)
           d == FacesOf(o, y)
<1>1. \A f \in I : d[f] = c[f]
  BY DEF FacesOf
<1>2. Elsewhere(o, x, K) = Total(I, c) /\ Elsewhere(o, y, L) = Total(I, d)
  BY DEF Elsewhere
<1> HIDE DEF I, c, d
<1> QED
  BY <1>1, <1>2, SameFamily

\* One face edited.
LEMMA OneFaceEdited ==
    ASSUME NEW x, NEW y, NEW f \in LiveSlots(x.f), LiveSlots(y.f) = LiveSlots(x.f),
           \A g \in LiveSlots(x.f) \ {f} : LoopsOf(y, g) = LoopsOf(x, g)
    PROVE  \A o :
             LET R == Elsewhere(o, x, {f}) IN
             /\ Content(o, x) = Join(Walked(o, LoopsOf(x, f)), R)
             /\ Content(o, y) = Join(Walked(o, LoopsOf(y, f)), R)
<1> TAKE o
<1> DEFINE none == {}
           one == {f}
<1>1. f \in LiveSlots(y.f) /\ f \notin none /\ none \cup {f} = one
  OBVIOUS
<1>2. LiveSlots(y.f) \ one = LiveSlots(x.f) \ one
  OBVIOUS
<1>3. Content(o, x) = Elsewhere(o, x, none) /\ Content(o, y) = Elsewhere(o, y, none)
  BY DEF Content
<1>4. \A g \in LiveSlots(x.f) \ one : LoopsOf(y, g) = LoopsOf(x, g)
  OBVIOUS
<1> HIDE DEF none, one
<1>5. Elsewhere(o, x, none) = Join(Walked(o, LoopsOf(x, f)), Elsewhere(o, x, none \cup {f}))
  BY <1>1, FaceSplit
<1>6. Elsewhere(o, y, none) = Join(Walked(o, LoopsOf(y, f)), Elsewhere(o, y, none \cup {f}))
  BY <1>1, FaceSplit
<1>7. Elsewhere(o, y, one) = Elsewhere(o, x, one)
  BY <1>2, <1>4, FacesSame
<1> QED
  BY <1>1, <1>3, <1>5, <1>6, <1>7 DEF one

\* One face edited and another made.
LEMMA FaceMade ==
    ASSUME NEW x, NEW y, NEW f \in LiveSlots(x.f), NEW n, n \notin LiveSlots(x.f),
           LiveSlots(y.f) = LiveSlots(x.f) \cup {n},
           \A g \in LiveSlots(x.f) \ {f} : LoopsOf(y, g) = LoopsOf(x, g)
    PROVE  \A o :
             LET R == Elsewhere(o, x, {f}) IN
             /\ Content(o, x) = Join(Walked(o, LoopsOf(x, f)), R)
             /\ Content(o, y) = Join(Join(Walked(o, LoopsOf(y, n)), Walked(o, LoopsOf(y, f))), R)
<1> TAKE o
<1> DEFINE none == {}
           one == {f}
           new == {n}
           two == {n, f}
<1>1. /\ f \in LiveSlots(y.f) /\ n \in LiveSlots(y.f) /\ n \notin none /\ f \notin none
      /\ f \notin new /\ none \cup {f} = one /\ none \cup {n} = new /\ new \cup {f} = two
  OBVIOUS
<1>2. LiveSlots(y.f) \ two = LiveSlots(x.f) \ one
  OBVIOUS
<1>3. Content(o, x) = Elsewhere(o, x, none) /\ Content(o, y) = Elsewhere(o, y, none)
  BY DEF Content
<1>4. \A g \in LiveSlots(x.f) \ one : LoopsOf(y, g) = LoopsOf(x, g)
  OBVIOUS
<1> HIDE DEF none, one, new, two
<1>5. Elsewhere(o, x, none) = Join(Walked(o, LoopsOf(x, f)), Elsewhere(o, x, none \cup {f}))
  BY <1>1, FaceSplit
<1>6. Elsewhere(o, y, none) = Join(Walked(o, LoopsOf(y, n)), Elsewhere(o, y, none \cup {n}))
  BY <1>1, FaceSplit
<1>7. Elsewhere(o, y, new) = Join(Walked(o, LoopsOf(y, f)), Elsewhere(o, y, new \cup {f}))
  BY <1>1, FaceSplit
<1>8. Elsewhere(o, y, two) = Elsewhere(o, x, one)
  BY <1>2, <1>4, FacesSame
<1>9. Content(o, y) = Join(Walked(o, LoopsOf(y, n)), Join(Walked(o, LoopsOf(y, f)), Elsewhere(o, x, one)))
  BY <1>1, <1>3, <1>6, <1>7, <1>8
<1> QED
  BY <1>1, <1>3, <1>5, <1>9, JoinAssociates DEF one

\* A loop of a face.
LEMMA LoopSplit ==
    ASSUME NEW o, NEW S, NEW ls \in Seq(S), NEW i \in 1 .. Len(ls)
    PROVE  Walked(o, ls) = Join(Drawn(o, ls[i]), Besides(o, ls, {i}))
<1> DEFINE none == {}
           one == {i}
<1>1. i \notin none /\ none \cup {i} = one
  OBVIOUS
<1> HIDE DEF none, one
<1>2. Besides(o, ls, none) = Join(Drawn(o, ls[i]), Besides(o, ls, none \cup {i}))
  BY <1>1, BesidesSplit
<1> QED
  BY <1>1, <1>2 DEF Walked, none, one

-----------------------------------------------------------------------------
(***************************************************************************)
(* Every half there is is walked once, and every ring closes.              *)
(***************************************************************************)

Halves(x) == LiveSlots(x.e) \X {FORWARD, REVERSED}
Paired(x) ==
    LET c == Content(Sides, x) IN
    /\ c.halves = Halves(x) /\ c.twice = {}
    /\ Fits(x, c.links)

Linked(c) == c.links \subseteq c.halves \X c.halves

LEMMA RingLinks == ASSUME NEW s, Len(s) \in Nat, s = <<>> <=> Len(s) = 0 PROVE Linked(Ring(s))
<1>1. \A i \in 1 .. Len(s) : Half(s[i]) \in HalvesIn(s)
  BY DEF HalvesIn
<1>2. \A i \in 1 .. (Len(s) - 1) : i \in 1 .. Len(s) /\ i + 1 \in 1 .. Len(s)
  OBVIOUS
<1>3. s # <<>> => 1 \in 1 .. Len(s) /\ Len(s) \in 1 .. Len(s)
  OBVIOUS
<1>4. Steps(s) \subseteq HalvesIn(s) \X HalvesIn(s)
  BY <1>1, <1>2 DEF Steps
<1>5. Round(s) \subseteq HalvesIn(s) \X HalvesIn(s)
  BY <1>1, <1>3, <1>4 DEF Round
<1> QED
  BY <1>5 DEF Ring, Linked

LEMMA TotalLinks ==
    ASSUME NEW I, NEW c, \A i \in I : Linked(c[i])
    PROVE  Linked(Total(I, c))
<1> DEFINE t == Total(I, c)
<1>1. /\ \A h : h \in t.halves <=> \E i \in I : h \in c[i].halves
      /\ \A l : l \in t.links <=> \E i \in I : l \in c[i].links
  BY TotalIs
<1> HIDE DEF t
<1>2. ASSUME NEW l \in t.links PROVE l \in t.halves \X t.halves
  <2>1. PICK i \in I : l \in c[i].links
    BY <1>1
  <2>2. l \in c[i].halves \X c[i].halves
    BY <2>1 DEF Linked
  <2>3. c[i].halves \subseteq t.halves
    BY <1>1
  <2> QED
    BY <2>2, <2>3
<1> QED
  BY <1>2 DEF Linked, t

LEMMA ElsewhereLinks == ASSUME NEW x, Sound(x), NEW K PROVE Linked(Elsewhere(Sides, x, K))
<1> DEFINE c == FacesOf(Sides, x)
<1>1. ASSUME NEW f \in LiveSlots(x.f) PROVE Linked(c[f])
  <2> DEFINE ls == LoopsOf(x, f)
             I == (1 .. Len(ls)) \ {}
             d == RingsOf(Sides, ls)
  <2>1. ASSUME NEW i \in I PROVE Linked(d[i])
    <3>1. d[i] = Ring(UsesAt(x, f, i))
      BY DrawnIs DEF RingsOf, UsesAt
    <3>2. Len(UsesAt(x, f, i)) \in Nat /\ UsesAt(x, f, i) \in Seq(UsesOn(LiveSlots(x.e)))
      BY UsesTyped
    <3> HIDE DEF d
    <3>3. UsesAt(x, f, i) = <<>> <=> Len(UsesAt(x, f, i)) = 0
      BY <3>2
    <3> QED
      BY <3>1, <3>2, <3>3, RingLinks
  <2>2. c[f] = Total(I, d)
    BY DEF FacesOf, Walked, Besides
  <2> HIDE DEF I, d, c
  <2> QED
    BY <2>1, <2>2, TotalLinks
<1> HIDE DEF c
<1>2. \A f \in LiveSlots(x.f) \ K : Linked(c[f])
  BY <1>1
<1> QED
  BY <1>2, TotalLinks DEF Elsewhere, c

\* Edges whose ends stay leave what closes closed.
LEMMA FitsSame ==
    ASSUME NEW x, NEW y, NEW D, NEW L, L \subseteq D \X D,
           \A h \in D : TailOf(y, h) = TailOf(x, h) /\ HeadOf(y, h) = HeadOf(x, h)
    PROVE  Fits(y, L) <=> Fits(x, L)
<1>1. \A l \in L : l[1] \in D /\ l[2] \in D
  OBVIOUS
<1> QED
  BY <1>1 DEF Fits

LEMMA JoinIs ==
    ASSUME NEW c, NEW d
    PROVE  /\ Join(c, d).halves = c.halves \cup d.halves
           /\ Join(c, d).links = c.links \cup d.links
           /\ Join(c, d).twice = {} <=>
                c.twice = {} /\ d.twice = {} /\ c.halves \cap d.halves = {}
BY DEF Join

LEMMA FitsJoin ==
    ASSUME NEW x, NEW c, NEW d
    PROVE  Fits(x, Join(c, d).links) <=> Fits(x, c.links) /\ Fits(x, d.links)
BY JoinIs, FitsUnion

-----------------------------------------------------------------------------
(***************************************************************************)
(* The two moves, made and taken back, keep a builder paired.              *)
(***************************************************************************)

LEMMA HalvesMore ==
    ASSUME NEW x, NEW y, NEW e, EdgeMore(x, y, e)
    PROVE  LET h == <<e, FORWARD>>
               k == <<e, REVERSED>>
           IN  /\ Halves(y) = Halves(x) \cup {h, k} /\ h # k
               /\ h \notin Halves(x) /\ k \notin Halves(x)
               /\ \A g \in Halves(x) : TailOf(y, g) = TailOf(x, g) /\ HeadOf(y, g) = HeadOf(x, g)
               /\ TailOf(y, h) = y.e.at[e].start /\ HeadOf(y, h) = y.e.at[e].end
               /\ TailOf(y, k) = y.e.at[e].end /\ HeadOf(y, k) = y.e.at[e].start
<1> DEFINE h == <<e, FORWARD>>
           k == <<e, REVERSED>>
<1>1. h # k /\ h[1] = e /\ h[2] = FORWARD /\ k[1] = e /\ k[2] = REVERSED /\ FORWARD # REVERSED
  BY DEF FORWARD, REVERSED
<1>2. Halves(y) = Halves(x) \cup {h, k}
  BY DEF Halves, EdgeMore
<1>3. h \notin Halves(x) /\ k \notin Halves(x)
  BY DEF Halves, EdgeMore
<1>4. \A g \in Halves(x) : TailOf(y, g) = TailOf(x, g) /\ HeadOf(y, g) = HeadOf(x, g)
  <2>1. \A g \in Halves(x) : g[1] \in LiveSlots(x.e)
    BY DEF Halves
  <2> QED
    BY <2>1 DEF EdgeMore, TailOf, HeadOf
<1> HIDE DEF h, k
<1>5. /\ TailOf(y, h) = y.e.at[e].start /\ HeadOf(y, h) = y.e.at[e].end
      /\ TailOf(y, k) = y.e.at[e].end /\ HeadOf(y, k) = y.e.at[e].start
  BY <1>1 DEF TailOf, HeadOf
<1> QED
  BY <1>1, <1>2, <1>3, <1>4, <1>5 DEF h, k

LEMMA PairedJoin ==
    ASSUME NEW x, NEW O, NEW R, Content(Sides, x) = Join(O, R)
    PROVE  Paired(x) <=> /\ O.halves \cup R.halves = Halves(x)
                         /\ O.twice = {} /\ R.twice = {} /\ O.halves \cap R.halves = {}
                         /\ Fits(x, O.links) /\ Fits(x, R.links)
<1> DEFINE c == Content(Sides, x)
           j == Join(O, R)
<1>1. /\ j.halves = O.halves \cup R.halves
      /\ j.twice = {} <=> O.twice = {} /\ R.twice = {} /\ O.halves \cap R.halves = {}
  BY JoinIs
<1>2. Fits(x, j.links) <=> Fits(x, O.links) /\ Fits(x, R.links)
  BY FitsJoin
<1>3. Paired(x) <=> c.halves = Halves(x) /\ c.twice = {} /\ Fits(x, c.links)
  BY DEF Paired
<1>4. c = j
  OBVIOUS
<1> HIDE DEF c, j
<1> QED
  BY <1>1, <1>2, <1>3, <1>4

\* B walks what O does and the halves h and k.
Grown(O, B, h, k) ==
    /\ B.halves = {h, k} \cup O.halves
    /\ B.twice = {} <=> O.twice = {} /\ h \notin O.halves /\ k \notin O.halves
    /\ Linked(O)

LEMMA EdgeMade ==
    ASSUME NEW x, NEW y, NEW e, EdgeMore(x, y, e), Paired(x),
           NEW O, NEW B, NEW R, Grown(O, B, <<e, FORWARD>>, <<e, REVERSED>>), Linked(R),
           Content(Sides, x) = Join(O, R), Content(Sides, y) = Join(B, R),
           Fits(y, O.links) => Fits(y, B.links)
    PROVE  Paired(y)
<1> DEFINE h == <<e, FORWARD>>
           k == <<e, REVERSED>>
<1>1. /\ Halves(y) = Halves(x) \cup {h, k} /\ h \notin Halves(x) /\ k \notin Halves(x)
      /\ \A g \in Halves(x) : TailOf(y, g) = TailOf(x, g) /\ HeadOf(y, g) = HeadOf(x, g)
  BY HalvesMore
<1>2. /\ B.halves = {h, k} \cup O.halves
      /\ B.twice = {} <=> O.twice = {} /\ h \notin O.halves /\ k \notin O.halves
      /\ Linked(O)
  BY DEF Grown
<1> HIDE DEF h, k
<1>3. /\ O.halves \cup R.halves = Halves(x)
      /\ O.twice = {} /\ R.twice = {} /\ O.halves \cap R.halves = {}
      /\ Fits(x, O.links) /\ Fits(x, R.links)
  BY PairedJoin
<1>4. B.halves \cup R.halves = Halves(y)
  BY <1>1, <1>2, <1>3
<1>5. B.twice = {}
  BY <1>1, <1>2, <1>3
<1>6. B.halves \cap R.halves = {}
  BY <1>1, <1>2, <1>3
<1>7. O.links \subseteq Halves(x) \X Halves(x) /\ R.links \subseteq Halves(x) \X Halves(x)
  BY <1>2, <1>3 DEF Linked
<1>8. Fits(y, O.links)
  BY <1>1, <1>3, <1>7, FitsSame
<1>9. Fits(y, R.links)
  BY <1>1, <1>3, <1>7, FitsSame
<1> QED
  BY <1>3, <1>4, <1>5, <1>6, <1>8, <1>9, PairedJoin

LEMMA EdgeKilled ==
    ASSUME NEW x, NEW y, NEW e, EdgeMore(y, x, e), Paired(x),
           NEW O, NEW B, NEW R, Grown(O, B, <<e, FORWARD>>, <<e, REVERSED>>), Linked(R),
           Content(Sides, x) = Join(B, R), Content(Sides, y) = Join(O, R),
           Fits(x, B.links) => Fits(x, O.links)
    PROVE  Paired(y)
<1> DEFINE h == <<e, FORWARD>>
           k == <<e, REVERSED>>
<1>1. /\ Halves(x) = Halves(y) \cup {h, k} /\ h \notin Halves(y) /\ k \notin Halves(y)
      /\ \A g \in Halves(y) : TailOf(x, g) = TailOf(y, g) /\ HeadOf(x, g) = HeadOf(y, g)
  BY HalvesMore
<1>2. /\ B.halves = {h, k} \cup O.halves
      /\ B.twice = {} <=> O.twice = {} /\ h \notin O.halves /\ k \notin O.halves
      /\ Linked(O)
  BY DEF Grown
<1> HIDE DEF h, k
<1>3. /\ B.halves \cup R.halves = Halves(x)
      /\ B.twice = {} /\ R.twice = {} /\ B.halves \cap R.halves = {}
      /\ Fits(x, B.links) /\ Fits(x, R.links)
  BY PairedJoin
<1>4. O.twice = {} /\ h \notin O.halves /\ k \notin O.halves
  BY <1>2, <1>3
<1>5. O.halves \cap R.halves = {} /\ h \notin R.halves /\ k \notin R.halves
  BY <1>2, <1>3
<1>6. O.halves \cup R.halves = Halves(y)
  <2>1. {h, k} \cup (O.halves \cup R.halves) = {h, k} \cup Halves(y)
    BY <1>1, <1>2, <1>3
  <2> QED
    BY <1>1, <1>4, <1>5, <2>1
<1>7. O.links \subseteq Halves(y) \X Halves(y) /\ R.links \subseteq Halves(y) \X Halves(y)
  BY <1>2, <1>6 DEF Linked
<1>8. Fits(y, O.links)
  <2>1. Fits(x, O.links)
    BY <1>3
  <2> QED
    BY <1>1, <1>7, <2>1, FitsSame
<1>9. Fits(y, R.links)
  BY <1>1, <1>3, <1>7, FitsSame
<1> QED
  BY <1>3, <1>4, <1>5, <1>6, <1>8, <1>9, PairedJoin

LEMMA SeqLinks == ASSUME NEW S, NEW s \in Seq(S) PROVE Linked(Ring(s))
<1>1. Len(s) \in Nat /\ (s = <<>> <=> Len(s) = 0)
  OBVIOUS
<1> QED
  BY <1>1, RingLinks

LEMMA JoinLinks == ASSUME NEW c, NEW d, Linked(c), Linked(d) PROVE Linked(Join(c, d))
BY JoinIs DEF Linked

LEMMA BridgeGrows ==
    ASSUME NEW S, NEW a \in S, NEW c \in S, NEW p \in Seq(S), NEW q \in Seq(S),
           Half(a) # Half(c)
    PROVE  Grown(Join(Ring(p), Ring(q)), Ring(Bridged(a, p, c, q)), Half(a), Half(c))
<1> DEFINE h == Half(a)
           k == Half(c)
           P == HalvesIn(p)
           Q == HalvesIn(q)
           t == Bridged(a, p, c, q)
           B == Ring(t)
           O == Join(Ring(p), Ring(q))
<1>1. /\ HalvesIn(t) = {h, k} \cup P \cup Q
      /\ Apart(t) <=> /\ Apart(p) /\ Apart(q) /\ P \cap Q = {}
                      /\ {h, k} \cap (P \cup Q) = {} /\ h # k
  <2>1. HalvesIn(Bridged(a, p, c, q)) = {Half(a), Half(c)} \cup HalvesIn(p) \cup HalvesIn(q)
    BY BridgedIs
  <2>2. Apart(Bridged(a, p, c, q)) <=>
              /\ Apart(p) /\ Apart(q) /\ HalvesIn(p) \cap HalvesIn(q) = {}
              /\ {Half(a), Half(c)} \cap (HalvesIn(p) \cup HalvesIn(q)) = {}
              /\ Half(a) # Half(c)
    BY BridgedIs
  <2> QED
    BY <2>1, <2>2
<1>2. /\ Ring(p).halves = P /\ (Ring(p).twice = {} <=> Apart(p))
      /\ Ring(q).halves = Q /\ (Ring(q).twice = {} <=> Apart(q))
      /\ B.halves = HalvesIn(t) /\ (B.twice = {} <=> Apart(t))
  BY RingIs
<1>3. /\ O.halves = Ring(p).halves \cup Ring(q).halves
      /\ O.twice = {} <=> Ring(p).twice = {} /\ Ring(q).twice = {}
                            /\ Ring(p).halves \cap Ring(q).halves = {}
  BY JoinIs
<1>4. h # k
  OBVIOUS
<1>5. Linked(O)
  BY SeqLinks, JoinLinks
<1> HIDE DEF h, k, P, Q, t, B, O
<1>6. O.halves = P \cup Q /\ (O.twice = {} <=> Apart(p) /\ Apart(q) /\ P \cap Q = {})
  BY <1>2, <1>3
<1>7. B.halves = {h, k} \cup O.halves
  BY <1>1, <1>2, <1>6
<1>8. B.twice = {} <=> O.twice = {} /\ h \notin O.halves /\ k \notin O.halves
  <2>1. {h, k} \cap (P \cup Q) = {} <=> h \notin O.halves /\ k \notin O.halves
    BY <1>6
  <2> QED
    BY <1>1, <1>2, <1>4, <1>6, <2>1
<1> QED
  BY <1>5, <1>7, <1>8 DEF Grown, t, B, O, h, k

LEMMA SplitGrows ==
    ASSUME NEW S, NEW a \in S, NEW c \in S, NEW p \in Seq(S), NEW q \in Seq(S),
           Half(a) # Half(c)
    PROVE  Grown(Ring(p \o q), Join(Ring(<<a>> \o p), Ring(<<c>> \o q)), Half(a), Half(c))
<1> DEFINE h == Half(a)
           k == Half(c)
           P == HalvesIn(p)
           Q == HalvesIn(q)
           g == <<a>> \o p
           l == <<c>> \o q
           t == p \o q
           B == Join(Ring(g), Ring(l))
           O == Ring(t)
<1>1. HalvesIn(g) = {h} \cup P /\ (Apart(g) <=> Apart(p) /\ h \notin P)
  BY BehindIs
<1>2. HalvesIn(l) = {k} \cup Q /\ (Apart(l) <=> Apart(q) /\ k \notin Q)
  BY BehindIs
<1>3. HalvesIn(t) = P \cup Q /\ (Apart(t) <=> Apart(p) /\ Apart(q) /\ P \cap Q = {})
  BY JoinedHalves
<1>4. /\ Ring(g).halves = HalvesIn(g) /\ (Ring(g).twice = {} <=> Apart(g))
      /\ Ring(l).halves = HalvesIn(l) /\ (Ring(l).twice = {} <=> Apart(l))
      /\ O.halves = HalvesIn(t) /\ (O.twice = {} <=> Apart(t))
  BY RingIs
<1>5. /\ B.halves = Ring(g).halves \cup Ring(l).halves
      /\ B.twice = {} <=> Ring(g).twice = {} /\ Ring(l).twice = {}
                            /\ Ring(g).halves \cap Ring(l).halves = {}
  BY JoinIs
<1>6. h # k
  OBVIOUS
<1>7. Linked(O)
  <2>1. t \in Seq(S)
    BY ConcatProperties
  <2> HIDE DEF t
  <2> QED
    BY <2>1, SeqLinks
<1> HIDE DEF h, k, P, Q, g, l, t, B, O
<1>8. B.halves = {h, k} \cup O.halves
  BY <1>1, <1>2, <1>3, <1>4, <1>5
<1>9. B.twice = {} <=> O.twice = {} /\ h \notin O.halves /\ k \notin O.halves
  <2>1. ({h} \cup P) \cap ({k} \cup Q) = {} <=> h # k /\ h \notin Q /\ k \notin P /\ P \cap Q = {}
    OBVIOUS
  <2>2. h \notin O.halves /\ k \notin O.halves <=>
           h \notin P /\ h \notin Q /\ k \notin P /\ k \notin Q
    BY <1>3, <1>4
  <2> QED
    BY <1>1, <1>2, <1>3, <1>4, <1>5, <1>6, <2>1, <2>2
<1> QED
  BY <1>7, <1>8, <1>9 DEF Grown, t, B, O, g, l, h, k

-----------------------------------------------------------------------------
(***************************************************************************)
(* The pieces of a loop that the operators take and join.                  *)
(***************************************************************************)

LEMMA PiecesMeet ==
    ASSUME NEW S, NEW s \in Seq(S), NEW i \in Nat, NEW k \in Nat, NEW j \in Nat,
           i >= 1, i <= k + 1, k <= j, j <= Len(s)
    PROVE  /\ SubSeq(s, i, k) \in Seq(S) /\ SubSeq(s, k + 1, j) \in Seq(S)
           /\ SubSeq(s, i, j) \in Seq(S)
           /\ SubSeq(s, i, k) \o SubSeq(s, k + 1, j) = SubSeq(s, i, j)
<1> DEFINE p == SubSeq(s, i, k)
           q == SubSeq(s, k + 1, j)
           t == SubSeq(s, i, j)
           r == p \o q
<1>1. Len(s) \in Nat
  OBVIOUS
<1>2. p \in Seq(S) /\ Len(p) = k - i + 1 /\ \A l \in 1 .. (k - i + 1) : p[l] = s[i + l - 1]
  <2>1. /\ p \in Seq(S) /\ Len(p) = IF i <= k THEN k - i + 1 ELSE 0
        /\ \A l \in 1 .. (k - i + 1) : p[l] = s[i + l - 1]
    BY <1>1, PieceIs
  <2> HIDE DEF p
  <2> QED
    BY <2>1
<1>3. q \in Seq(S) /\ Len(q) = j - k /\ \A l \in 1 .. (j - k) : q[l] = s[k + l]
  <2>1. /\ q \in Seq(S) /\ Len(q) = IF k + 1 <= j THEN j - (k + 1) + 1 ELSE 0
        /\ \A l \in 1 .. (j - (k + 1) + 1) : q[l] = s[k + 1 + l - 1]
    BY <1>1, PieceIs
  <2> HIDE DEF q
  <2>2. \A l \in 1 .. (j - k) : l \in 1 .. (j - (k + 1) + 1) /\ k + 1 + l - 1 = k + l
    BY <1>1
  <2> QED
    BY <2>1, <2>2
<1>4. t \in Seq(S) /\ Len(t) = j - i + 1 /\ \A l \in 1 .. (j - i + 1) : t[l] = s[i + l - 1]
  <2>1. /\ t \in Seq(S) /\ Len(t) = IF i <= j THEN j - i + 1 ELSE 0
        /\ \A l \in 1 .. (j - i + 1) : t[l] = s[i + l - 1]
    BY <1>1, PieceIs
  <2> HIDE DEF t
  <2> QED
    BY <2>1
<1> HIDE DEF p, q, t
<1>5. /\ r \in Seq(S) /\ Len(r) = Len(p) + Len(q)
      /\ \A l \in 1 .. (Len(p) + Len(q)) : r[l] = IF l <= Len(p) THEN p[l] ELSE q[l - Len(p)]
  BY <1>2, <1>3, ConcatProperties
<1> HIDE DEF r
<1>6. Len(r) = Len(t)
  BY <1>2, <1>3, <1>4, <1>5
<1>7. ASSUME NEW l \in 1 .. Len(t) PROVE r[l] = t[l]
  <2>1. CASE l <= k - i + 1
    BY <1>2, <1>3, <1>4, <1>5, <2>1
  <2>2. CASE ~ (l <= k - i + 1)
    <3> DEFINE o == l - (k - i + 1)
    <3>1. o \in 1 .. (j - k) /\ k + o = i + l - 1
      BY <1>4, <2>2
    <3>2. r[l] = q[o]
      BY <1>2, <1>3, <1>4, <1>5, <2>2
    <3> HIDE DEF o
    <3> QED
      BY <1>3, <1>4, <3>1, <3>2
  <2> QED
    BY <2>1, <2>2
<1>8. r = t
  BY <1>4, <1>5, <1>6, <1>7
<1> QED
  BY <1>2, <1>3, <1>4, <1>8 DEF r, p, q, t

\* A piece by its first use.
LEMMA PieceBegins ==
    ASSUME NEW S, NEW s \in Seq(S), NEW k \in 1 .. Len(s)
    PROVE  /\ SubSeq(s, k + 1, Len(s)) \in Seq(S)
           /\ SubSeq(s, k, Len(s)) = <<s[k]>> \o SubSeq(s, k + 1, Len(s))
<1> DEFINE n == Len(s)
<1>1. n \in Nat /\ k \in Nat /\ k >= 1 /\ k <= k + 1 /\ k <= n
  OBVIOUS
<1>2. SubSeq(s, k, k) = <<s[k]>>
  <2> DEFINE p == SubSeq(s, k, k)
  <2>1. p \in Seq(S) /\ Len(p) = 1 /\ p[1] = s[k]
    BY <1>1
  <2> HIDE DEF p
  <2>2. p = <<p[1]>>
    BY <2>1
  <2> QED
    BY <2>1, <2>2 DEF p
<1> HIDE DEF n
<1>3. /\ SubSeq(s, k + 1, n) \in Seq(S)
      /\ SubSeq(s, k, k) \o SubSeq(s, k + 1, n) = SubSeq(s, k, n)
  BY <1>1, PiecesMeet DEF n
<1> QED
  BY <1>2, <1>3 DEF n

\* Around the ring of the pieces p and q, from q on.
LEMMA TurnedRing ==
    ASSUME NEW S, NEW p \in Seq(S), NEW q \in Seq(S)
    PROVE  Ring(p \o q) = Ring(q \o p)
BY TurnedAlike, AlikeRings

Regroups(s, t, u) == (s \o t) \o u = s \o (t \o u)

LEMMA Regroup ==
    ASSUME NEW S, NEW s \in Seq(S), NEW t \in Seq(S), NEW u \in Seq(S)
    PROVE  /\ Regroups(s, t, u)
           /\ s \o t \in Seq(S) /\ t \o u \in Seq(S)
<1>1. Regroups(s, t, u)
  BY ConcatAssociative DEF Regroups
<1>2. s \o t \in Seq(S) /\ t \o u \in Seq(S)
  BY ConcatProperties
<1> QED
  BY <1>1, <1>2

LEMMA OnePiece ==
    ASSUME NEW S, NEW a \in S, NEW c \in S
    PROVE  /\ <<a>> \in Seq(S) /\ <<c>> \in Seq(S)
           /\ <<a>> \o <<c>> = <<a, c>> /\ <<a>> \o <<>> = <<a>>
           /\ <<>> \in Seq(S)
<1>1. <<a>> \in Seq(S) /\ <<c>> \in Seq(S) /\ <<>> \in Seq(S)
  OBVIOUS
<1>2. <<a>> \o <<c>> = <<a, c>>
  <2> DEFINE p == <<a>>
             q == <<c>>
             r == p \o q
  <2>1. p \in Seq(S) /\ Len(p) = 1 /\ p[1] = a /\ q \in Seq(S) /\ Len(q) = 1 /\ q[1] = c
    OBVIOUS
  <2> HIDE DEF p, q
  <2>2. /\ r \in Seq(S) /\ Len(r) = Len(p) + Len(q)
        /\ \A i \in 1 .. (Len(p) + Len(q)) : r[i] = IF i <= Len(p) THEN p[i] ELSE q[i - Len(p)]
    BY <2>1, ConcatProperties
  <2> HIDE DEF r
  <2>3. r \in Seq(S) /\ Len(r) = 2 /\ r[1] = a /\ r[2] = c
    BY <2>1, <2>2
  <2>4. r = <<a, c>>
    BY <2>3
  <2> QED
    BY <2>4 DEF r, p, q
<1>3. <<a>> \o <<>> = <<a>>
  BY <1>1, ConcatEmptySeq
<1> QED
  BY <1>1, <1>2, <1>3

LEMMA StruttedRing ==
    ASSUME NEW S, NEW s \in Seq(S), NEW i \in 0 .. Len(s), NEW a \in S, NEW c \in S
    PROVE  /\ AllFrom(s, i) \in Seq(S)
           /\ Ring(Strutted(s, i, a, c)) = Ring(Bridged(a, <<>>, c, AllFrom(s, i)))
<1> DEFINE p == SubSeq(s, 1, i)
           q == SubSeq(s, i + 1, Len(s))
           h == <<a>>
           k == <<c>>
           w == h \o k
<1>1. p \in Seq(S) /\ q \in Seq(S)
  BY CutAt
<1>2. h \in Seq(S) /\ k \in Seq(S) /\ h \o k = <<a, c>> /\ h \o <<>> = h
  BY OnePiece
<1>3. AllFrom(s, i) = q \o p
  BY DEF AllFrom
<1>4. Strutted(s, i, a, c) = (p \o w) \o q
  BY <1>2 DEF Strutted
<1>5. Bridged(a, <<>>, c, q \o p) = h \o (k \o (q \o p))
  BY <1>2 DEF Bridged
<1> HIDE DEF p, q, h, k
<1>6. w \in Seq(S) /\ q \o p \in Seq(S)
  BY <1>1, <1>2, Regroup
<1>7. h \o (k \o (q \o p)) = w \o (q \o p)
  <2>1. Regroups(h, k, q \o p)
    BY <1>1, <1>2, <1>6, Regroup
  <2> QED
    BY <2>1 DEF Regroups
<1> HIDE DEF w
<1>8. (p \o w) \o q = p \o (w \o q) /\ w \o q \in Seq(S)
  <2>1. Regroups(p, w, q) /\ w \o q \in Seq(S)
    BY <1>1, <1>6, Regroup
  <2> QED
    BY <2>1 DEF Regroups
<1>9. (w \o q) \o p = w \o (q \o p)
  <2>1. Regroups(w, q, p)
    BY <1>1, <1>6, Regroup
  <2> QED
    BY <2>1 DEF Regroups
<1> DEFINE r == w \o q
<1>10. r \in Seq(S)
  BY <1>8
<1> HIDE DEF r
<1>11. Ring(p \o r) = Ring(r \o p)
  BY <1>1, <1>10, TurnedRing
<1>12. Strutted(s, i, a, c) = p \o r /\ Bridged(a, <<>>, c, q \o p) = r \o p
  BY <1>4, <1>5, <1>7, <1>8, <1>9 DEF r
<1> QED
  BY <1>3, <1>6, <1>11, <1>12

LEMMA JoinedRing ==
    ASSUME NEW S, NEW s \in Seq(S), NEW i \in 0 .. Len(s), NEW r \in Seq(S), NEW j \in 0 .. Len(r),
           NEW a \in S, NEW c \in S
    PROVE  /\ AllFrom(s, i) \in Seq(S) /\ AllFrom(r, j) \in Seq(S)
           /\ Ring(Joined(s, i, r, j, a, c)) = Ring(Bridged(a, AllFrom(r, j), c, AllFrom(s, i)))
<1> DEFINE p == SubSeq(s, 1, i)
           q == SubSeq(s, i + 1, Len(s))
           t == AllFrom(r, j)
           h == <<a>>
           k == <<c>>
           g == h \o t
           w == k \o q
           z == g \o w
<1>1. p \in Seq(S) /\ q \in Seq(S)
  BY CutAt
<1>2. h \in Seq(S) /\ k \in Seq(S)
  BY OnePiece
<1>3. AllFrom(s, i) = q \o p
  BY DEF AllFrom
<1>4. t \in Seq(S)
  BY AllFromIs
<1>5. Joined(s, i, r, j, a, c) = (((p \o h) \o t) \o k) \o q
  BY DEF Joined
<1>6. Bridged(a, t, c, q \o p) = (h \o t) \o (k \o (q \o p))
  BY DEF Bridged
<1> HIDE DEF p, q, t, h, k
<1>7. g \in Seq(S) /\ w \in Seq(S) /\ q \o p \in Seq(S)
  BY <1>1, <1>2, <1>4, Regroup
<1>8. (p \o h) \o t = p \o g
  <2>1. Regroups(p, h, t)
    BY <1>1, <1>2, <1>4, Regroup
  <2> QED
    BY <2>1 DEF Regroups
<1>9. k \o (q \o p) = w \o p
  <2>1. Regroups(k, q, p)
    BY <1>1, <1>2, Regroup
  <2> QED
    BY <2>1 DEF Regroups
<1> HIDE DEF g
<1> DEFINE v == p \o g
<1>10. v \in Seq(S)
  BY <1>1, <1>7, Regroup
<1> HIDE DEF v
<1>11. (v \o k) \o q = v \o w
  <2>1. Regroups(v, k, q)
    BY <1>1, <1>2, <1>10, Regroup
  <2> QED
    BY <2>1 DEF Regroups
<1> HIDE DEF w
<1>12. z \in Seq(S)
  BY <1>7, Regroup
<1>13. (p \o g) \o w = p \o z
  <2>1. Regroups(p, g, w)
    BY <1>1, <1>7, Regroup
  <2> QED
    BY <2>1 DEF Regroups
<1>14. g \o (w \o p) = z \o p
  <2>1. Regroups(g, w, p)
    BY <1>1, <1>7, Regroup
  <2> QED
    BY <2>1 DEF Regroups
<1> HIDE DEF z
<1>15. Ring(p \o z) = Ring(z \o p)
  BY <1>1, <1>12, TurnedRing
<1>16. Joined(s, i, r, j, a, c) = p \o z
  BY <1>5, <1>8, <1>11, <1>13 DEF v
<1>17. Bridged(a, t, c, q \o p) = z \o p
  BY <1>6, <1>9, <1>14 DEF g
<1> QED
  BY <1>3, <1>4, <1>7, <1>15, <1>16, <1>17 DEF t

LEMMA FirstUseRing ==
    ASSUME NEW S, NEW s \in Seq(S), NEW p \in Nat, p + 1 \in 1 .. Len(s)
    PROVE  /\ WithoutUse(s, p) \in Seq(S)
           /\ Ring(s) = Ring(<<s[p + 1]>> \o WithoutUse(s, p))
<1> DEFINE n == Len(s)
           k == p + 1
           r == RotateTo(s, k)
           one == 1
<1>1. k \in 1 .. n /\ n \in Nat
  OBVIOUS
<1>2. k - 1 + 1 = k /\ Wrap(1 + k - 1, n) = k
  BY <1>1 DEF Wrap
<1>3. WithoutUse(s, p) = SubSeq(r, one + 1, n)
  BY DEF WithoutUse
<1> HIDE DEF k
<1>4. r \in Seq(S) /\ Len(r) = n /\ r[one] = s[k]
  <2>1. /\ r \in Seq(S) /\ Len(r) = n
        /\ \A i \in 1 .. n : r[i] = s[Wrap(i + k - 1, n)]
    BY <1>1, RotateToIs
  <2>2. r[1] = s[Wrap(1 + k - 1, n)]
    BY <1>1, <2>1
  <2> QED
    BY <1>2, <2>1, <2>2
<1>5. Ring(r) = Ring(s)
  BY <1>1, RotateAlike, AlikeRings
<1> HIDE DEF r, n
<1>6. one \in 1 .. Len(r) /\ SubSeq(r, one, Len(r)) = r
  BY <1>1, <1>4
<1> HIDE DEF one
<1>7. /\ SubSeq(r, one + 1, Len(r)) \in Seq(S)
      /\ SubSeq(r, one, Len(r)) = <<r[one]>> \o SubSeq(r, one + 1, Len(r))
  BY <1>4, <1>6, PieceBegins
<1> QED
  BY <1>3, <1>4, <1>5, <1>6, <1>7 DEF k

LEMMA DropFirst ==
    ASSUME NEW S, NEW a \in S, NEW p \in Seq(S), NEW q \in Seq(S), <<a>> \o p = <<a>> \o q
    PROVE  p = q
<1> DEFINE u == <<a>> \o p
           w == <<a>> \o q
<1>1. Len(u) = Len(p) + 1 /\ \A k \in 1 .. Len(p) : u[k + 1] = p[k]
  BY UseThen
<1>2. Len(w) = Len(q) + 1 /\ \A k \in 1 .. Len(q) : w[k + 1] = q[k]
  BY UseThen
<1>3. u = w
  OBVIOUS
<1> HIDE DEF u, w
<1>4. Len(p) = Len(q)
  BY <1>1, <1>2, <1>3
<1>5. \A k \in 1 .. Len(p) : p[k] = q[k]
  BY <1>1, <1>2, <1>3, <1>4
<1> QED
  BY <1>4, <1>5

\* kev: away along the strut, back, and the rest.
LEMMA StrutRing ==
    ASSUME NEW S, NEW s \in Seq(S), NEW p \in Nat, NEW m \in Nat,
           p + 1 \in 1 .. Len(s), m + 1 \in 1 .. Len(s), p # m, (p + 1) % Len(s) = m
    PROVE  /\ WithoutStrut(s, p) \in Seq(S)
           /\ Ring(s) = Ring(Bridged(s[p + 1], <<>>, s[m + 1], WithoutStrut(s, p)))
<1> DEFINE n == Len(s)
           k == p + 1
           r == RotateTo(s, k)
           a == s[p + 1]
           c == s[m + 1]
           one == 1
           two == 2
           q == SubSeq(r, 3, n)
<1>1. n \in Nat /\ p + 1 <= n /\ m + 1 <= n /\ n >= 2 /\ k \in 1 .. n
  OBVIOUS
<1>2. m = IF p + 1 = n THEN 0 ELSE p + 1
  <2> HIDE DEF n
  <2>1. CASE p + 1 = n
    BY <1>1, <2>1 DEF n
  <2>2. CASE p + 1 # n
    BY <1>1, <2>2 DEF n
  <2> QED
    BY <2>1, <2>2
<1>3. /\ r \in Seq(S) /\ Len(r) = n
      /\ \A i \in 1 .. n : r[i] = s[Wrap(i + k - 1, n)]
  BY <1>1, RotateToIs
<1>4. Ring(r) = Ring(s)
  BY <1>1, RotateAlike, AlikeRings
<1>5. a \in S /\ c \in S
  OBVIOUS
<1>6. Wrap(1 + k - 1, n) = p + 1 /\ Wrap(2 + k - 1, n) = m + 1
  <2> HIDE DEF n
  <2> QED
    BY <1>1, <1>2 DEF Wrap
<1>7. WithoutStrut(s, p) = q
  BY DEF WithoutStrut
<1> HIDE DEF r, n
<1>8. r[one] = a /\ r[two] = c
  <2>1. 1 \in 1 .. n /\ 2 \in 1 .. n
    BY <1>1
  <2> HIDE DEF k
  <2>2. r[1] = s[Wrap(1 + k - 1, n)] /\ r[2] = s[Wrap(2 + k - 1, n)]
    BY <1>3, <2>1
  <2> QED
    BY <1>6, <2>2
<1>9. one \in 1 .. Len(r) /\ two \in 1 .. Len(r) /\ SubSeq(r, one, Len(r)) = r
      /\ one + 1 = two /\ SubSeq(r, two + 1, Len(r)) = q
  BY <1>1, <1>3
<1> HIDE DEF one, two, a, c, q
<1>10. SubSeq(r, one, Len(r)) = <<r[one]>> \o SubSeq(r, one + 1, Len(r))
  BY <1>3, <1>9, PieceBegins
<1>11. /\ SubSeq(r, two + 1, Len(r)) \in Seq(S)
       /\ SubSeq(r, two, Len(r)) = <<r[two]>> \o SubSeq(r, two + 1, Len(r))
  BY <1>3, <1>9, PieceBegins
<1>12. r = <<a>> \o (<<c>> \o q) /\ q \in Seq(S)
  BY <1>8, <1>9, <1>10, <1>11
<1>13. Bridged(a, <<>>, c, q) = <<a>> \o (<<c>> \o q)
  BY <1>5, OnePiece DEF Bridged
<1> QED
  BY <1>4, <1>7, <1>12, <1>13 DEF a, c

\* kef: the uses t in the place of one use.
LEMMA SplicedRing ==
    ASSUME NEW S, NEW s \in Seq(S), NEW t \in Seq(S), NEW m \in Nat, m + 1 \in 1 .. Len(s)
    PROVE  Ring(Spliced(s, m, t)) = Ring(t \o WithoutUse(s, m))
<1> DEFINE n == Len(s)
           k == m + 1
           a == s[k]
           p == SubSeq(s, 1, m)
           q == SubSeq(s, k + 1, n)
           r == RotateTo(s, k)
           w == WithoutUse(s, m)
           one == 1
<1>1. n \in Nat /\ k \in 1 .. n /\ k - 1 = m /\ k + 1 = m + 2 /\ m \in 0 .. n
  OBVIOUS
<1>2. Spliced(s, m, t) = (p \o t) \o q
  BY <1>1 DEF Spliced
<1>3. r = SubSeq(s, k, n) \o p
  BY <1>1 DEF RotateTo
<1>4. a \in S
  OBVIOUS
<1>5. p \in Seq(S)
  BY <1>1, CutAt
<1>6. w \in Seq(S) /\ w = SubSeq(r, 2, n)
  BY WithoutUseIs DEF WithoutUse
<1>7. r \in Seq(S) /\ Len(r) = n /\ r[1] = a
  <2>1. /\ r \in Seq(S) /\ Len(r) = n
        /\ \A i \in 1 .. n : r[i] = s[Wrap(i + k - 1, n)]
    BY <1>1, RotateToIs
  <2>2. Wrap(1 + k - 1, n) = k
    BY <1>1 DEF Wrap
  <2> HIDE DEF k, r, n
  <2>3. r[1] = s[Wrap(1 + k - 1, n)]
    BY <1>1, <2>1
  <2> QED
    BY <2>1, <2>2, <2>3
<1> HIDE DEF k, a, r, w, p
<1>8. q \in Seq(S) /\ SubSeq(s, k, n) = <<a>> \o q
  BY <1>1, PieceBegins DEF a
<1>9. one \in 1 .. Len(r) /\ SubSeq(r, one, Len(r)) = r /\ SubSeq(r, one + 1, Len(r)) = w
      /\ r[one] = a
  BY <1>1, <1>6, <1>7
<1> HIDE DEF one, q, n
<1>10. SubSeq(r, one, Len(r)) = <<r[one]>> \o SubSeq(r, one + 1, Len(r))
  BY <1>7, <1>9, PieceBegins
<1>11. r = <<a>> \o w /\ r = (<<a>> \o q) \o p
  BY <1>3, <1>8, <1>9, <1>10
<1>12. w = q \o p
  <2> DEFINE h == <<a>>
  <2>1. h \in Seq(S)
    BY <1>4
  <2> HIDE DEF h
  <2>2. Regroups(h, q, p) /\ q \o p \in Seq(S)
    BY <1>5, <1>8, <2>1, Regroup
  <2>3. h \o w = h \o (q \o p)
    BY <1>11, <2>2 DEF Regroups, h
  <2> QED
    BY <1>4, <1>6, <2>2, <2>3, DropFirst DEF h
<1>13. Regroups(p, t, q) /\ Regroups(t, q, p) /\ t \o q \in Seq(S)
  BY <1>5, <1>8, Regroup
<1> DEFINE z == t \o q
<1> HIDE DEF z
<1>14. Ring(p \o z) = Ring(z \o p)
  BY <1>5, <1>13, TurnedRing DEF z
<1> QED
  BY <1>2, <1>12, <1>13, <1>14 DEF z, w, Regroups

\* kemr: a loop is the edge away, what stands between, the edge back, the rest.
LEMMA BridgedTurns ==
    ASSUME NEW S, NEW a \in S, NEW c \in S, NEW p \in Seq(S), NEW q \in Seq(S)
    PROVE  Ring(Bridged(a, p, c, q)) = Ring(Bridged(c, q, a, p))
<1> DEFINE h == <<a>>
           k == <<c>>
           u == h \o p
           w == k \o q
<1>1. h \in Seq(S) /\ k \in Seq(S)
  BY OnePiece
<1>2. Bridged(a, p, c, q) = u \o w /\ Bridged(c, q, a, p) = w \o u
  BY DEF Bridged
<1> HIDE DEF h, k
<1>3. u \in Seq(S) /\ w \in Seq(S)
  BY <1>1, Regroup
<1> HIDE DEF u, w
<1> QED
  BY <1>2, <1>3, TurnedRing

LEMMA BetweenPieces ==
    ASSUME NEW S, NEW s \in Seq(S), NEW p \in Nat, NEW m \in Nat,
           p + 1 \in 1 .. Len(s), m + 1 \in 1 .. Len(s), p < m
    PROVE  LET B == SubSeq(s, p + 2, m)
               Q == SubSeq(s, m + 2, Len(s)) \o SubSeq(s, 1, p) IN
           /\ B \in Seq(S) /\ Q \in Seq(S)
           /\ Ring(s) = Ring(Bridged(s[p + 1], B, s[m + 1], Q))
<1> DEFINE n == Len(s)
           i == p + 1
           j == m + 1
           g == i + 1
           o == j + 1
           A == SubSeq(s, 1, p)
           B == SubSeq(s, g, m)
           C == SubSeq(s, o, n)
           D == SubSeq(s, i, n)
           F == SubSeq(s, g, n)
           G == SubSeq(s, j, n)
           h == <<s[i]>>
           k == <<s[j]>>
<1>1. /\ n \in Nat /\ i \in 1 .. n /\ j \in 1 .. n /\ g \in Nat /\ g >= 1 /\ g <= j /\ m <= n
      /\ p \in 0 .. n /\ i = p + 1 /\ j = m + 1 /\ g = p + 2 /\ o = m + 2
  OBVIOUS
<1>2. A \in Seq(S) /\ D \in Seq(S) /\ s = A \o D
  BY <1>1, CutAt
<1>3. h \in Seq(S) /\ k \in Seq(S)
  OBVIOUS
<1> HIDE DEF n, i, A, D
<1>4. F \in Seq(S) /\ D = h \o F
  BY <1>1, PieceBegins DEF n, D
<1> HIDE DEF g
<1>5. B \in Seq(S) /\ G \in Seq(S) /\ F = B \o G
  <2> HIDE DEF j, o, h, k, C
  <2>1. g \in Nat /\ m \in Nat /\ Len(s) \in Nat /\ g >= 1 /\ g <= m + 1 /\ m <= Len(s)
    BY <1>1 DEF n
  <2>2. /\ SubSeq(s, g, m) \in Seq(S) /\ SubSeq(s, m + 1, Len(s)) \in Seq(S)
        /\ SubSeq(s, g, m) \o SubSeq(s, m + 1, Len(s)) = SubSeq(s, g, Len(s))
    <3> HIDE DEF B, F, G, n
    <3> QED
      BY <2>1, PiecesMeet
  <2>3. SubSeq(s, m + 1, Len(s)) = G
    BY <1>1 DEF n
  <2>4. SubSeq(s, g, Len(s)) = F
    BY DEF n
  <2> HIDE DEF F, G
  <2>5. B = SubSeq(s, g, m)
    OBVIOUS
  <2> HIDE DEF B
  <2> QED
    BY <2>2, <2>3, <2>4, <2>5
<1> HIDE DEF j, B, F, G
<1>6. C \in Seq(S) /\ G = k \o C
  BY <1>1, PieceBegins DEF n, G
<1> HIDE DEF C, h, k
<1> DEFINE u == h \o B
           w == k \o C
<1>7. Regroups(h, B, w) /\ u \in Seq(S) /\ w \in Seq(S)
  <2>1. w \in Seq(S)
    BY <1>3, <1>6, Regroup
  <2> HIDE DEF w
  <2> QED
    BY <1>3, <1>5, <2>1, Regroup
<1>8. Regroups(k, C, A) /\ C \o A \in Seq(S)
  BY <1>2, <1>3, <1>6, Regroup
<1>9. D = u \o w
  BY <1>4, <1>5, <1>6, <1>7 DEF Regroups
<1>10. Bridged(s[i], B, s[j], C \o A) = u \o (k \o (C \o A))
  BY DEF Bridged, h, k
<1>11. k \o (C \o A) = w \o A
  BY <1>8 DEF Regroups
<1> HIDE DEF u, w
<1>12. Regroups(u, w, A) /\ u \o w \in Seq(S)
  BY <1>2, <1>7, Regroup
<1>13. Ring(A \o D) = Ring(D \o A)
  BY <1>2, TurnedRing
<1>14. Bridged(s[i], B, s[j], C \o A) = D \o A
  BY <1>9, <1>10, <1>11, <1>12 DEF Regroups
<1> QED
  BY <1>1, <1>2, <1>5, <1>8, <1>13, <1>14 DEF n, A, B, C

LEMMA BetweenForward ==
    ASSUME NEW S, NEW s \in Seq(S), NEW p \in Nat, NEW m \in Nat,
           p + 1 \in 1 .. Len(s), m + 1 \in 1 .. Len(s), p < m
    PROVE  LET B == Around(s, (p + 1) % Len(s), m)
               Q == Around(s, (m + 1) % Len(s), p) IN
           /\ B \in Seq(S) /\ Q \in Seq(S)
           /\ Ring(s) = Ring(Bridged(s[p + 1], B, s[m + 1], Q))
<1> DEFINE n == Len(s)
           A == SubSeq(s, 1, p)
           B == SubSeq(s, p + 2, m)
           C == SubSeq(s, m + 2, n)
<1>1. n \in Nat /\ p + 1 < n /\ m + 1 <= n /\ p + 1 <= m
  OBVIOUS
<1>2. /\ B \in Seq(S) /\ C \o A \in Seq(S)
      /\ Ring(s) = Ring(Bridged(s[p + 1], B, s[m + 1], C \o A))
  BY BetweenPieces
<1>3. A \in Seq(S)
  BY <1>1, CutAt
<1>4. Around(s, (p + 1) % n, m) = B
  <2>1. (p + 1) % n = p + 1 /\ (p + 1) + 1 = p + 2
    <3> HIDE DEF n
    <3> QED
      BY <1>1
  <2>2. Around(s, p + 1, m) = SubSeq(s, (p + 1) + 1, m)
    BY <1>1 DEF Around
  <2> QED
    BY <2>1, <2>2
<1>5. Around(s, (m + 1) % n, p) = C \o A
  <2>1. CASE m + 1 = n
    <3>1. (m + 1) % n = 0
      <4> HIDE DEF n
      <4> QED
        BY <1>1, <2>1
    <3>2. Around(s, 0, p) = SubSeq(s, 0 + 1, p)
      BY DEF Around
    <3>3. C = <<>>
      BY <2>1
    <3>4. 0 + 1 = 1
      OBVIOUS
    <3> HIDE DEF C
    <3>5. <<>> \o A = A
      <4> HIDE DEF A
      <4> QED
        BY <1>3, ConcatEmptySeq
    <3> QED
      BY <3>1, <3>2, <3>3, <3>4, <3>5
  <2>2. CASE m + 1 # n
    <3>1. (m + 1) % n = m + 1 /\ (m + 1) + 1 = m + 2 /\ ~ (m + 1 <= p)
      <4> HIDE DEF n
      <4> QED
        BY <1>1, <2>2
    <3>2. Around(s, m + 1, p) = SubSeq(s, (m + 1) + 1, n) \o A
      BY <3>1 DEF Around
    <3> QED
      BY <3>1, <3>2
  <2> QED
    BY <2>1, <2>2
<1> QED
  BY <1>2, <1>4, <1>5

LEMMA BetweenRing ==
    ASSUME NEW S, NEW s \in Seq(S), NEW p \in Nat, NEW m \in Nat,
           p + 1 \in 1 .. Len(s), m + 1 \in 1 .. Len(s), p # m
    PROVE  LET B == Around(s, (p + 1) % Len(s), m)
               Q == Around(s, (m + 1) % Len(s), p) IN
           /\ B \in Seq(S) /\ Q \in Seq(S)
           /\ Ring(s) = Ring(Bridged(s[p + 1], B, s[m + 1], Q))
<1> DEFINE B == Around(s, (p + 1) % Len(s), m)
           Q == Around(s, (m + 1) % Len(s), p)
           a == s[p + 1]
           c == s[m + 1]
<1>1. a \in S /\ c \in S
  OBVIOUS
<1>2. CASE p < m
  BY <1>2, BetweenForward
<1>3. CASE m < p
  <2>1. B \in Seq(S) /\ Q \in Seq(S) /\ Ring(s) = Ring(Bridged(c, Q, a, B))
    BY <1>3, BetweenForward
  <2> HIDE DEF B, Q, a, c
  <2>2. Ring(Bridged(c, Q, a, B)) = Ring(Bridged(a, B, c, Q))
    BY <1>1, <2>1, BridgedTurns
  <2>3. B \in Seq(S) /\ Q \in Seq(S) /\ Ring(s) = Ring(Bridged(a, B, c, Q))
    BY <2>1, <2>2
  <2> QED
    BY <2>3 DEF B, Q, a, c
<1> QED
  BY <1>2, <1>3

\* mef: what moves and what stays is the loop.
LEMMA SplitRing ==
    ASSUME NEW S, NEW s \in Seq(S), NEW i, NEW j \in 0 .. Len(s),
           i \in 0 .. Len(s) \/ IsTurn(s, i, j)
    PROVE  Ring(Moved(s, i, j) \o Stay(s, i, j)) = Ring(s)
<1> DEFINE n == Len(s)
           M == Moved(s, i, j)
           T == Stay(s, i, j)
<1>1. AllFrom(s, j) \in Seq(S) /\ Ring(AllFrom(s, j)) = Ring(s)
  BY AllFromIs, AllFromAlike, AlikeRings
<1>2. CASE IsTurn(s, i, j)
  <2>1. M = AllFrom(s, j) /\ T = <<>>
    BY <1>2 DEF Moved, Stay
  <2> HIDE DEF M, T
  <2>2. M \o <<>> = M
    BY <1>1, <2>1, ConcatEmptySeq
  <2> QED
    BY <1>1, <2>1, <2>2 DEF M, T
<1>3. CASE ~ IsTurn(s, i, j) /\ i = j
  <2>1. M = <<>> /\ T = AllFrom(s, j)
    BY <1>3 DEF Moved, Stay
  <2> HIDE DEF M, T
  <2>2. <<>> \o T = T
    BY <1>1, <2>1, ConcatEmptySeq
  <2> QED
    BY <1>1, <2>1, <2>2 DEF M, T
<1>4. CASE ~ IsTurn(s, i, j) /\ i # j
  <2>1. M = Around(s, j, i) /\ T = Around(s, i, j) /\ i \in 0 .. n
    BY <1>4 DEF Moved, Stay
  <2>2. AllFrom(s, j) = SubSeq(s, j + 1, n) \o SubSeq(s, 1, j)
    BY DEF AllFrom
  <2> DEFINE one == 1
             A == SubSeq(s, one, i)
             B == SubSeq(s, i + 1, j)
             C == SubSeq(s, j + 1, n)
             D == SubSeq(s, one, j)
             F == SubSeq(s, j + 1, i)
             G == SubSeq(s, i + 1, n)
  <2>3. one \in Nat /\ one >= 1 /\ n \in Nat /\ i \in Nat /\ j \in Nat /\ i <= n /\ j <= n
        /\ one <= i + 1 /\ one <= j + 1 /\ n <= Len(s) /\ C \in Seq(S) /\ one = 1
    BY <2>1, CutAt
  <2>4. CASE i < j
    <3>0. i <= j /\ ~ (j <= i)
      BY <2>3, <2>4
    <3>1. M = C \o A /\ T = B
      BY <2>1, <3>0 DEF Around
    <3> HIDE DEF one, n, M, T, C
    <3>2. A \in Seq(S) /\ B \in Seq(S) /\ A \o B = D
      BY <2>3, <2>4, PiecesMeet
    <3> HIDE DEF A, B, D
    <3>3. Regroups(C, A, B)
      BY <2>3, <3>2, Regroup
    <3>4. M \o T = C \o D
      BY <3>1, <3>2, <3>3 DEF Regroups
    <3> QED
      BY <1>1, <2>2, <2>3, <3>4 DEF M, T, C, D, one
  <2>5. CASE j < i
    <3>0. j <= i /\ ~ (i <= j)
      BY <2>3, <2>5
    <3>1. M = F /\ T = G \o D
      BY <2>1, <3>0 DEF Around
    <3>2. D \in Seq(S)
      BY <2>3, CutAt
    <3> HIDE DEF one, n, M, T, D
    <3>3. F \in Seq(S) /\ G \in Seq(S) /\ F \o G = C
      <4> DEFINE k == j + 1
      <4>1. k \in Nat /\ k >= 1 /\ k <= i + 1 /\ i <= n
        BY <2>3, <2>5
      <4> HIDE DEF k
      <4>2. /\ SubSeq(s, k, i) \in Seq(S) /\ G \in Seq(S)
            /\ SubSeq(s, k, i) \o G = SubSeq(s, k, n)
        BY <2>3, <4>1, PiecesMeet
      <4> QED
        BY <4>2 DEF k
    <3> HIDE DEF F, G, C
    <3>4. Regroups(F, G, D)
      BY <3>2, <3>3, Regroup
    <3>5. M \o T = C \o D
      BY <3>1, <3>3, <3>4 DEF Regroups
    <3> QED
      BY <1>1, <2>2, <2>3, <3>5 DEF M, T, C, D, one
  <2> QED
    BY <1>4, <2>3, <2>4, <2>5
<1> QED
  BY <1>2, <1>3, <1>4

-----------------------------------------------------------------------------
(***************************************************************************)
(* The vertices of the junctions where the pieces begin.                   *)
(***************************************************************************)

LEMMA EndsAre ==
    ASSUME NEW x, NEW u
    PROVE  TailOf(x, Half(u)) = StartOf(x, u) /\ HeadOf(x, Half(u)) = EndOf(x, u)
BY DEF TailOf, HeadOf, Half, StartOf, EndOf

LEMMA VertexOfUse ==
    ASSUME NEW x, NEW at, LoopAt(x, at).uses # <<>>
    PROVE  LET s == LoopAt(x, at).uses IN
           TailOf(x, Half(s[(at.ci % Len(s)) + 1])) = VertexAt(x, at)
BY EndsAre DEF VertexAt

LEMMA WrapIs ==
    ASSUME NEW n \in Nat, n > 0, NEW i \in 0 .. n
    PROVE  Wrap(i + 1, n) = (i % n) + 1 /\ (i + n) % n = i % n
<1>1. CASE i = n
  <2>1. n % n = 0 /\ (n + n) % n = 0
    OBVIOUS
  <2>2. Wrap(n + 1, n) = 1
    BY DEF Wrap
  <2> QED
    BY <1>1, <2>1, <2>2
<1>2. CASE i # n
  <2>1. i % n = i /\ (i + n) % n = i
    BY <1>2
  <2>2. Wrap(i + 1, n) = i + 1
    BY <1>2 DEF Wrap
  <2> QED
    BY <2>1, <2>2
<1> QED
  BY <1>1, <1>2

LEMMA FirstFrom ==
    ASSUME NEW S, NEW s \in Seq(S), NEW i \in 0 .. Len(s)
    PROVE  /\ AllFrom(s, i) = <<>> <=> s = <<>>
           /\ s # <<>> => AllFrom(s, i)[1] = s[(i % Len(s)) + 1]
<1> DEFINE t == AllFrom(s, i)
           n == Len(s)
<1>1. t \in Seq(S) /\ Len(t) = n /\ \A k \in 1 .. n : t[k] = s[Wrap(i + k, n)]
  BY AllFromIs
<1>2. n \in Nat /\ (s = <<>> <=> n = 0) /\ i \in 0 .. n
  OBVIOUS
<1> HIDE DEF t, n
<1>3. t = <<>> <=> n = 0
  BY <1>1, <1>2
<1>4. ASSUME n # 0 PROVE t[1] = s[(i % n) + 1]
  <2>1. n > 0 /\ 1 \in 1 .. n
    BY <1>2, <1>4
  <2>2. Wrap(i + 1, n) = (i % n) + 1
    BY <1>2, <2>1, WrapIs
  <2>3. t[1] = s[Wrap(i + 1, n)]
    BY <1>1, <2>1
  <2> QED
    BY <2>2, <2>3
<1> QED
  BY <1>2, <1>3, <1>4 DEF t, n

LEMMA FirstAround ==
    ASSUME NEW S, NEW s \in Seq(S), NEW i \in 0 .. Len(s), NEW j \in 0 .. Len(s), i # j
    PROVE  LET t == Around(s, i, j) IN
           /\ s # <<>>
           /\ t # <<>> => t[1] = s[(i % Len(s)) + 1]
           /\ t = <<>> => i % Len(s) = j % Len(s)
<1> DEFINE t == Around(s, i, j)
           n == Len(s)
<1>1. /\ t \in Seq(S) /\ Len(t) = IF i <= j THEN j - i ELSE n - i + j
      /\ \A k \in 1 .. Len(t) : t[k] = s[Wrap(i + k, n)]
  BY AroundIs
<1>2. n \in Nat /\ (s = <<>> <=> n = 0) /\ i \in 0 .. n /\ j \in 0 .. n
  OBVIOUS
<1> HIDE DEF t, n
<1>3. n > 0
  BY <1>2
<1>4. ASSUME t # <<>> PROVE t[1] = s[(i % n) + 1]
  <2>1. 1 \in 1 .. Len(t)
    BY <1>1, <1>4
  <2>2. Wrap(i + 1, n) = (i % n) + 1
    BY <1>2, <1>3, WrapIs
  <2>3. t[1] = s[Wrap(i + 1, n)]
    BY <1>1, <2>1
  <2> QED
    BY <2>2, <2>3
<1>5. ASSUME t = <<>> PROVE i % n = j % n
  <2>1. i = n /\ j = 0
    BY <1>1, <1>2, <1>5
  <2>2. n % n = 0 /\ 0 % n = 0
    BY <1>2, <1>3
  <2> QED
    BY <2>1, <2>2
<1> QED
  BY <1>2, <1>3, <1>4, <1>5 DEF t, n

LEMMA PiecesBegin ==
    ASSUME NEW S, NEW s \in Seq(S), NEW i, NEW j \in 0 .. Len(s),
           i \in 0 .. Len(s) \/ IsTurn(s, i, j)
    PROVE  LET n == Len(s)
               M == Moved(s, i, j)
               T == Stay(s, i, j) IN
           /\ M # <<>> => s # <<>> /\ M[1] = s[(j % n) + 1]
           /\ T # <<>> => s # <<>> /\ T[1] = s[(i % n) + 1]
           /\ M = <<>> \/ T = <<>> => s = <<>> \/ i % n = j % n
<1> DEFINE n == Len(s)
           M == Moved(s, i, j)
           T == Stay(s, i, j)
<1>1. CASE IsTurn(s, i, j)
  <2>1. M = AllFrom(s, j) /\ T = <<>>
    BY <1>1 DEF Moved, Stay
  <2>2. n > 0 /\ n \in Nat /\ i = j + n
    BY <1>1 DEF IsTurn
  <2>3. i % n = j % n
    <3> HIDE DEF n
    <3>1. j \in 0 .. n
      BY DEF n
    <3> QED
      BY <2>2, <3>1, WrapIs
  <2>4. s # <<>> /\ M[1] = s[(j % n) + 1]
    BY <2>1, <2>2, FirstFrom
  <2> HIDE DEF M, T, n
  <2> QED
    BY <2>1, <2>3, <2>4 DEF M, T, n
<1>2. CASE ~ IsTurn(s, i, j) /\ i = j
  <2>1. M = <<>> /\ T = AllFrom(s, i)
    BY <1>2 DEF Moved, Stay
  <2>2. T # <<>> => s # <<>> /\ T[1] = s[(i % n) + 1]
    BY <1>2, <2>1, FirstFrom
  <2> HIDE DEF M, T, n
  <2> QED
    BY <1>2, <2>1, <2>2 DEF M, T, n
<1>3. CASE ~ IsTurn(s, i, j) /\ i # j
  <2>1. M = Around(s, j, i) /\ T = Around(s, i, j) /\ i \in 0 .. n
    BY <1>3 DEF Moved, Stay
  <2>2. /\ s # <<>> /\ (M # <<>> => M[1] = s[(j % n) + 1])
        /\ (M = <<>> => j % n = i % n)
    BY <1>3, <2>1, FirstAround
  <2>3. (T # <<>> => T[1] = s[(i % n) + 1]) /\ (T = <<>> => i % n = j % n)
    BY <1>3, <2>1, FirstAround
  <2> HIDE DEF M, T, n
  <2> QED
    BY <2>2, <2>3 DEF M, T, n
<1> QED
  BY <1>1, <1>2, <1>3

-----------------------------------------------------------------------------
(***************************************************************************)
(* A new edge walked away and back between two pieces, or across a loop,   *)
(* and the same edge killed.                                               *)
(***************************************************************************)

\* a walks the new edge from v to w, c walks it back.
NewPair(y, e, a, c, v, w) ==
    EdgeFrom(y, e, v, w) /\ Half(a) = <<e, FORWARD>> /\ Half(c) = <<e, REVERSED>>
OldPair(e, a, c) == Half(a) = <<e, FORWARD>> /\ Half(c) = <<e, REVERSED>>

LEMMA FirstHalf ==
    ASSUME NEW S, NEW s \in Seq(S), s # <<>>
    PROVE  Half(s[1]) \in Ring(s).halves
<1>1. 1 \in 1 .. Len(s)
  OBVIOUS
<1> QED
  BY <1>1, RingIs DEF HalvesIn

LEMMA PairEnds ==
    ASSUME NEW x, NEW y, NEW e, EdgeMore(x, y, e), NEW a, NEW c, NEW v, NEW w,
           NewPair(y, e, a, c, v, w)
    PROVE  /\ TailOf(y, Half(a)) = v /\ HeadOf(y, Half(a)) = w
           /\ TailOf(y, Half(c)) = w /\ HeadOf(y, Half(c)) = v
           /\ Half(a) # Half(c)
<1> DEFINE h == <<e, FORWARD>>
           k == <<e, REVERSED>>
<1>1. /\ h # k /\ TailOf(y, h) = y.e.at[e].start /\ HeadOf(y, h) = y.e.at[e].end
      /\ TailOf(y, k) = y.e.at[e].end /\ HeadOf(y, k) = y.e.at[e].start
  <2>1. h # k /\ h[1] = e /\ h[2] = FORWARD /\ k[1] = e /\ k[2] = REVERSED /\ FORWARD # REVERSED
    BY DEF FORWARD, REVERSED
  <2> HIDE DEF h, k
  <2> QED
    BY <2>1 DEF TailOf, HeadOf
<1>2. Half(a) = h /\ Half(c) = k /\ y.e.at[e].start = v /\ y.e.at[e].end = w
  BY DEF NewPair, EdgeFrom
<1> HIDE DEF h, k
<1> QED
  BY <1>1, <1>2

\* A use of x begins where it did.
LEMMA TailStays ==
    ASSUME NEW x, NEW y, NEW e, EdgeMore(x, y, e), Paired(x), NEW O, NEW R,
           Content(Sides, x) = Join(O, R), NEW h \in O.halves
    PROVE  TailOf(y, h) = TailOf(x, h)
<1>1. \A g \in Halves(x) : TailOf(y, g) = TailOf(x, g)
  <2>1. \A g \in Halves(x) : g[1] \in LiveSlots(x.e)
    BY DEF Halves
  <2> QED
    BY <2>1 DEF EdgeMore, TailOf
<1>2. O.halves \cup R.halves = Halves(x)
  BY PairedJoin
<1> QED
  BY <1>1, <1>2

LEMMA BridgeMade ==
    ASSUME NEW x, NEW y, NEW e, EdgeMore(x, y, e), Paired(x),
           NEW S, NEW a \in S, NEW c \in S, NEW p \in Seq(S), NEW q \in Seq(S),
           NEW v, NEW w, NewPair(y, e, a, c, v, w),
           p # <<>> => TailOf(x, Half(p[1])) = w,
           q # <<>> => TailOf(x, Half(q[1])) = v,
           NEW R, Linked(R),
           Content(Sides, x) = Join(Join(Ring(p), Ring(q)), R),
           Content(Sides, y) = Join(Ring(Bridged(a, p, c, q)), R)
    PROVE  Paired(y)
<1> DEFINE O == Join(Ring(p), Ring(q))
           B == Ring(Bridged(a, p, c, q))
<1>1. /\ TailOf(y, Half(a)) = v /\ HeadOf(y, Half(a)) = w
      /\ TailOf(y, Half(c)) = w /\ HeadOf(y, Half(c)) = v
      /\ Half(a) # Half(c)
  BY PairEnds
<1>2. Half(a) = <<e, FORWARD>> /\ Half(c) = <<e, REVERSED>>
  BY DEF NewPair
<1>3. Grown(O, B, Half(a), Half(c))
  BY <1>1, BridgeGrows
<1>4. O.halves = Ring(p).halves \cup Ring(q).halves
  BY JoinIs
<1>5. Fits(y, O.links) <=> Fits(y, Ring(p).links) /\ Fits(y, Ring(q).links)
  BY FitsJoin
<1>6. Ring(p).links = Round(p) /\ Ring(q).links = Round(q) /\ B.links = Round(Bridged(a, p, c, q))
  BY RingIs
<1>7. Fits(y, Round(Bridged(a, p, c, q))) <=>
         /\ Fits(y, Round(p)) /\ Fits(y, Round(q))
         /\ p # <<>> => TailOf(y, Half(p[1])) = HeadOf(y, Half(a))
         /\ q # <<>> => TailOf(y, Half(q[1])) = TailOf(y, Half(a))
  BY <1>1, BridgeFits
<1> HIDE DEF O, B
<1>8. ASSUME p # <<>> PROVE TailOf(y, Half(p[1])) = w
  <2>1. Half(p[1]) \in O.halves
    BY <1>4, <1>8, FirstHalf
  <2> DEFINE h == Half(p[1])
  <2> HIDE DEF h
  <2>2. TailOf(y, h) = TailOf(x, h)
    BY <2>1, TailStays DEF h, O
  <2> QED
    BY <1>8, <2>2 DEF h
<1>9. ASSUME q # <<>> PROVE TailOf(y, Half(q[1])) = v
  <2>1. Half(q[1]) \in O.halves
    BY <1>4, <1>9, FirstHalf
  <2> DEFINE h == Half(q[1])
  <2> HIDE DEF h
  <2>2. TailOf(y, h) = TailOf(x, h)
    BY <2>1, TailStays DEF h, O
  <2> QED
    BY <1>9, <2>2 DEF h
<1>10. Fits(y, O.links) => Fits(y, B.links)
  BY <1>1, <1>5, <1>6, <1>7, <1>8, <1>9
<1>11. Grown(O, B, <<e, FORWARD>>, <<e, REVERSED>>)
  BY <1>2, <1>3
<1>12. Content(Sides, x) = Join(O, R) /\ Content(Sides, y) = Join(B, R)
  BY DEF O, B
<1> QED
  BY <1>10, <1>11, <1>12, EdgeMade

LEMMA BridgeKilled ==
    ASSUME NEW x, NEW y, NEW e, EdgeMore(y, x, e), Paired(x),
           NEW S, NEW a \in S, NEW c \in S, NEW p \in Seq(S), NEW q \in Seq(S),
           OldPair(e, a, c), NEW R, Linked(R),
           Content(Sides, x) = Join(Ring(Bridged(a, p, c, q)), R),
           Content(Sides, y) = Join(Join(Ring(p), Ring(q)), R)
    PROVE  Paired(y)
<1> DEFINE O == Join(Ring(p), Ring(q))
           B == Ring(Bridged(a, p, c, q))
           v == x.e.at[e].start
           w == x.e.at[e].end
<1>0. NewPair(x, e, a, c, v, w)
  BY DEF NewPair, OldPair, EdgeFrom
<1> HIDE DEF v, w
<1>1. /\ TailOf(x, Half(a)) = v /\ HeadOf(x, Half(a)) = w
      /\ TailOf(x, Half(c)) = w /\ HeadOf(x, Half(c)) = v
      /\ Half(a) # Half(c)
  BY <1>0, PairEnds
<1>3. Grown(O, B, Half(a), Half(c))
  BY <1>1, BridgeGrows
<1>5. Fits(x, O.links) <=> Fits(x, Ring(p).links) /\ Fits(x, Ring(q).links)
  BY FitsJoin
<1>6. Ring(p).links = Round(p) /\ Ring(q).links = Round(q) /\ B.links = Round(Bridged(a, p, c, q))
  BY RingIs
<1>7. Fits(x, Round(Bridged(a, p, c, q))) => Fits(x, Round(p)) /\ Fits(x, Round(q))
  BY <1>1, BridgeFits
<1> HIDE DEF O, B
<1>10. Fits(x, B.links) => Fits(x, O.links)
  BY <1>5, <1>6, <1>7
<1>11. Grown(O, B, <<e, FORWARD>>, <<e, REVERSED>>)
  BY <1>3 DEF OldPair
<1>12. Content(Sides, y) = Join(O, R) /\ Content(Sides, x) = Join(B, R)
  BY DEF O, B
<1> QED
  BY <1>10, <1>11, <1>12, EdgeKilled

LEMMA SplitMade ==
    ASSUME NEW x, NEW y, NEW e, EdgeMore(x, y, e), Paired(x),
           NEW S, NEW a \in S, NEW c \in S, NEW p \in Seq(S), NEW q \in Seq(S),
           NEW v, NEW w, NewPair(y, e, a, c, v, w),
           p # <<>> => TailOf(x, Half(p[1])) = w,
           q # <<>> => TailOf(x, Half(q[1])) = v,
           p = <<>> \/ q = <<>> => v = w,
           NEW R, Linked(R),
           Content(Sides, x) = Join(Ring(p \o q), R),
           Content(Sides, y) = Join(Join(Ring(<<a>> \o p), Ring(<<c>> \o q)), R)
    PROVE  Paired(y)
<1> DEFINE O == Ring(p \o q)
           B == Join(Ring(<<a>> \o p), Ring(<<c>> \o q))
<1>1. /\ TailOf(y, Half(a)) = v /\ HeadOf(y, Half(a)) = w
      /\ TailOf(y, Half(c)) = w /\ HeadOf(y, Half(c)) = v
      /\ Half(a) # Half(c)
  BY PairEnds
<1>2. Half(a) = <<e, FORWARD>> /\ Half(c) = <<e, REVERSED>>
  BY DEF NewPair
<1>3. Grown(O, B, Half(a), Half(c))
  BY <1>1, SplitGrows
<1>4. O.halves = Ring(p).halves \cup Ring(q).halves
  BY JoinedHalves, RingIs
<1>5. Fits(y, B.links) <=> Fits(y, Ring(<<a>> \o p).links) /\ Fits(y, Ring(<<c>> \o q).links)
  BY FitsJoin
<1>6. /\ Ring(<<a>> \o p).links = Round(<<a>> \o p) /\ Ring(<<c>> \o q).links = Round(<<c>> \o q)
      /\ O.links = Round(p \o q)
  BY RingIs
<1>7. Fits(y, Round(<<a>> \o p)) /\ Fits(y, Round(<<c>> \o q)) <=>
         /\ Fits(y, Round(p \o q))
         /\ p # <<>> => TailOf(y, Half(p[1])) = HeadOf(y, Half(a))
         /\ q # <<>> => TailOf(y, Half(q[1])) = TailOf(y, Half(a))
         /\ p = <<>> \/ q = <<>> => HeadOf(y, Half(a)) = TailOf(y, Half(a))
  BY <1>1, SplitFits
<1> HIDE DEF O, B
<1>8. ASSUME p # <<>> PROVE TailOf(y, Half(p[1])) = w
  <2>1. Half(p[1]) \in O.halves
    BY <1>4, <1>8, FirstHalf
  <2> DEFINE h == Half(p[1])
  <2> HIDE DEF h
  <2>2. TailOf(y, h) = TailOf(x, h)
    BY <2>1, TailStays DEF h, O
  <2> QED
    BY <1>8, <2>2 DEF h
<1>9. ASSUME q # <<>> PROVE TailOf(y, Half(q[1])) = v
  <2>1. Half(q[1]) \in O.halves
    BY <1>4, <1>9, FirstHalf
  <2> DEFINE h == Half(q[1])
  <2> HIDE DEF h
  <2>2. TailOf(y, h) = TailOf(x, h)
    BY <2>1, TailStays DEF h, O
  <2> QED
    BY <1>9, <2>2 DEF h
<1>10. Fits(y, O.links) => Fits(y, B.links)
  BY <1>1, <1>5, <1>6, <1>7, <1>8, <1>9
<1>11. Grown(O, B, <<e, FORWARD>>, <<e, REVERSED>>)
  BY <1>2, <1>3
<1>12. Content(Sides, x) = Join(O, R) /\ Content(Sides, y) = Join(B, R)
  BY DEF O, B
<1> QED
  BY <1>10, <1>11, <1>12, EdgeMade

LEMMA SplitKilled ==
    ASSUME NEW x, NEW y, NEW e, EdgeMore(y, x, e), Paired(x),
           NEW S, NEW a \in S, NEW c \in S, NEW p \in Seq(S), NEW q \in Seq(S),
           OldPair(e, a, c), NEW R, Linked(R),
           Content(Sides, x) = Join(Join(Ring(<<a>> \o p), Ring(<<c>> \o q)), R),
           Content(Sides, y) = Join(Ring(p \o q), R)
    PROVE  Paired(y)
<1> DEFINE O == Ring(p \o q)
           B == Join(Ring(<<a>> \o p), Ring(<<c>> \o q))
           v == x.e.at[e].start
           w == x.e.at[e].end
<1>0. NewPair(x, e, a, c, v, w)
  BY DEF NewPair, OldPair, EdgeFrom
<1> HIDE DEF v, w
<1>1. /\ TailOf(x, Half(a)) = v /\ HeadOf(x, Half(a)) = w
      /\ TailOf(x, Half(c)) = w /\ HeadOf(x, Half(c)) = v
      /\ Half(a) # Half(c)
  BY <1>0, PairEnds
<1>3. Grown(O, B, Half(a), Half(c))
  BY <1>1, SplitGrows
<1>5. Fits(x, B.links) <=> Fits(x, Ring(<<a>> \o p).links) /\ Fits(x, Ring(<<c>> \o q).links)
  BY FitsJoin
<1>6. /\ Ring(<<a>> \o p).links = Round(<<a>> \o p) /\ Ring(<<c>> \o q).links = Round(<<c>> \o q)
      /\ O.links = Round(p \o q)
  BY RingIs
<1>7. Fits(x, Round(<<a>> \o p)) /\ Fits(x, Round(<<c>> \o q)) => Fits(x, Round(p \o q))
  BY <1>1, SplitFits
<1> HIDE DEF O, B
<1>10. Fits(x, B.links) => Fits(x, O.links)
  BY <1>5, <1>6, <1>7
<1>11. Grown(O, B, <<e, FORWARD>>, <<e, REVERSED>>)
  BY <1>3 DEF OldPair
<1>12. Content(Sides, y) = Join(O, R) /\ Content(Sides, x) = Join(B, R)
  BY DEF O, B
<1> QED
  BY <1>10, <1>11, <1>12, EdgeKilled

-----------------------------------------------------------------------------
(***************************************************************************)
(* Around a vertex: from a half to the one that follows its opposite.      *)
(***************************************************************************)

Opp(h) == <<h[1], 1 - h[2]>>
\* No step around a vertex leaves S.
Closed(L, S) == \A l \in L : Opp(l[1]) \in S => l[2] \in S
\* S has all the halves that leave a vertex, or none.
Fills(x, S) == \A g, h \in Halves(x) : TailOf(x, g) = TailOf(x, h) /\ g \in S => h \in S
Turned(x) == \A S : Closed(Content(Sides, x).links, S) => Fills(x, S)
Bare(x, v) == \A h \in Halves(x) : TailOf(x, h) # v
\* The seeds of the loops that walk nothing are the vertices on no edge.
Spotted(x) ==
    LET c == Content(Spots, x) IN
    c.twice = {} /\ c.halves = {v \in LiveSlots(x.v) : Bare(x, v)}
Fanned(x) == Turned(x) /\ Spotted(x)

\* A piece begins with its lead, and away leaves where it ends.
Lead(t) == Half(t[1])
Away(t) == Opp(Half(t[Len(t)]))
\* A step around a vertex, from g to h.
Onto(S, g, h) == g \in S => h \in S

LEMMA TurnedAt ==
    ASSUME NEW x, Turned(x), NEW S, Closed(Content(Sides, x).links, S)
    PROVE  Fills(x, S)
BY DEF Turned

LEMMA OppIs ==
    ASSUME NEW x, NEW h \in Halves(x)
    PROVE  /\ Opp(h) \in Halves(x) /\ Opp(Opp(h)) = h /\ Opp(h) # h
           /\ TailOf(x, Opp(h)) = HeadOf(x, h) /\ HeadOf(x, Opp(h)) = TailOf(x, h)
<1>1. PICK e \in LiveSlots(x.e), d \in {FORWARD, REVERSED} : h = <<e, d>>
  BY DEF Halves
<1>2. /\ h[1] = e /\ h[2] = d /\ Opp(h) = <<e, 1 - d>> /\ 1 - d \in {FORWARD, REVERSED}
      /\ 1 - (1 - d) = d /\ 1 - d # d /\ (d = FORWARD <=> 1 - d # FORWARD)
  BY <1>1 DEF Opp, FORWARD, REVERSED
<1>3. Opp(h)[1] = e /\ Opp(h)[2] = 1 - d
  BY <1>2
<1>4. Opp(Opp(h)) = <<e, 1 - (1 - d)>>
  BY <1>3 DEF Opp
<1>5. Opp(h) \in Halves(x) /\ Opp(Opp(h)) = h /\ Opp(h) # h
  BY <1>1, <1>2, <1>3, <1>4 DEF Halves
<1>6. TailOf(x, Opp(h)) = HeadOf(x, h) /\ HeadOf(x, Opp(h)) = TailOf(x, h)
  BY <1>2, <1>3 DEF TailOf, HeadOf
<1> QED
  BY <1>5, <1>6

LEMMA OppPair ==
    ASSUME NEW e, NEW a, NEW c, OldPair(e, a, c)
    PROVE  Opp(Half(a)) = Half(c) /\ Opp(Half(c)) = Half(a)
<1> DEFINE h == <<e, FORWARD>>
           k == <<e, REVERSED>>
<1>1. Opp(h) = k /\ Opp(k) = h
  BY DEF Opp, FORWARD, REVERSED
<1>2. Half(a) = h /\ Half(c) = k
  BY DEF OldPair
<1> HIDE DEF h, k
<1> QED
  BY <1>1, <1>2

LEMMA ClosedOne ==
    ASSUME NEW S, NEW h, NEW k
    PROVE  Closed({<<h, k>>}, S) <=> Onto(S, Opp(h), k)
<1>1. \A l \in {<<h, k>>} : l[1] = h /\ l[2] = k
  OBVIOUS
<1>2. <<h, k>> \in {<<h, k>>}
  OBVIOUS
<1> QED
  BY <1>1, <1>2 DEF Closed, Onto

LEMMA ClosedUnion ==
    ASSUME NEW S, NEW P, NEW Q
    PROVE  Closed(P \cup Q, S) <=> Closed(P, S) /\ Closed(Q, S)
BY DEF Closed

LEMMA ClosedFour ==
    ASSUME NEW S, NEW P, NEW Q, NEW R, NEW T
    PROVE  Closed(P \cup Q \cup R \cup T, S) <=>
              Closed(P, S) /\ Closed(Q, S) /\ Closed(R, S) /\ Closed(T, S)
BY DEF Closed

LEMMA ClosedNone == ASSUME NEW S PROVE Closed({}, S)
BY DEF Closed

LEMMA ClosedVia ==
    ASSUME NEW S, NEW u, NEW t, NEW w
    PROVE  /\ t = <<>> => (Closed(Via(u, t, w), S) <=> Onto(S, Opp(Half(u)), Half(w)))
           /\ t # <<>> => (Closed(Via(u, t, w), S) <=>
                             Onto(S, Opp(Half(u)), Lead(t)) /\ Onto(S, Away(t), Half(w)))
<1>1. CASE t = <<>>
  <2>1. Via(u, t, w) = {<<Half(u), Half(w)>>}
    BY <1>1 DEF Via
  <2> QED
    BY <1>1, <2>1, ClosedOne
<1>2. CASE t # <<>>
  <2> DEFINE P == {<<Half(u), Half(t[1])>>}
             Q == {<<Half(t[Len(t)]), Half(w)>>}
  <2>1. Via(u, t, w) = P \cup Q
    BY <1>2 DEF Via
  <2>2. Closed(P, S) <=> Onto(S, Opp(Half(u)), Lead(t))
    BY ClosedOne DEF Lead
  <2>3. Closed(Q, S) <=> Onto(S, Away(t), Half(w))
    BY ClosedOne DEF Away
  <2> HIDE DEF P, Q
  <2>4. Closed(Via(u, t, w), S) <=> Closed(P, S) /\ Closed(Q, S)
    BY <2>1, ClosedUnion
  <2> QED
    BY <1>2, <2>2, <2>3, <2>4
<1> QED
  BY <1>1, <1>2

LEMMA ClosedRound ==
    ASSUME NEW S, NEW t
    PROVE  Closed(Round(t), S) <=> Closed(Steps(t), S) /\ (t # <<>> => Onto(S, Away(t), Lead(t)))
<1>1. CASE t = <<>>
  BY <1>1, NoUse, ClosedNone
<1>2. CASE t # <<>>
  <2> DEFINE P == Steps(t)
             Q == {<<Half(t[Len(t)]), Half(t[1])>>}
  <2>1. Round(t) = P \cup Q
    BY <1>2 DEF Round
  <2>2. Closed(Q, S) <=> Onto(S, Away(t), Lead(t))
    BY ClosedOne DEF Away, Lead
  <2> HIDE DEF P, Q
  <2>3. Closed(Round(t), S) <=> Closed(P, S) /\ Closed(Q, S)
    BY <2>1, ClosedUnion
  <2> QED
    BY <1>2, <2>2, <2>3 DEF P
<1> QED
  BY <1>1, <1>2

LEMMA ClosedJoin ==
    ASSUME NEW S, NEW c, NEW d
    PROVE  Closed(Join(c, d).links, S) <=> Closed(c.links, S) /\ Closed(d.links, S)
BY JoinIs, ClosedUnion

LEMMA ClosedSame ==
    ASSUME NEW D, NEW L, L \subseteq D \X D, NEW S, NEW T,
           \A h \in D : h \in S <=> h \in T,
           \A h \in D : Opp(h) \in D
    PROVE  Closed(L, S) <=> Closed(L, T)
<1>1. \A l \in L : l[1] \in D /\ l[2] \in D
  OBVIOUS
<1> QED
  BY <1>1 DEF Closed

\* What the pieces p and q and the rest ask of S, wherever p and q are.
Inside(p, q, R, S) == Closed(Steps(p), S) /\ Closed(Steps(q), S) /\ Closed(R.links, S)

LEMMA RingsClose ==
    ASSUME NEW p, NEW q, NEW R, NEW S
    PROVE  Closed(Join(Join(Ring(p), Ring(q)), R).links, S) <=>
              /\ Inside(p, q, R, S)
              /\ p # <<>> => Onto(S, Away(p), Lead(p))
              /\ q # <<>> => Onto(S, Away(q), Lead(q))
<1> DEFINE O == Join(Ring(p), Ring(q))
<1>1. Closed(O.links, S) <=> Closed(Ring(p).links, S) /\ Closed(Ring(q).links, S)
  BY ClosedJoin
<1> HIDE DEF O
<1>2. Closed(Join(O, R).links, S) <=> Closed(O.links, S) /\ Closed(R.links, S)
  BY ClosedJoin
<1>3. Ring(p).links = Round(p) /\ Ring(q).links = Round(q)
  BY RingIs
<1>4. Closed(Round(p), S) <=> Closed(Steps(p), S) /\ (p # <<>> => Onto(S, Away(p), Lead(p)))
  BY ClosedRound
<1>5. Closed(Round(q), S) <=> Closed(Steps(q), S) /\ (q # <<>> => Onto(S, Away(q), Lead(q)))
  BY ClosedRound
<1> QED
  BY <1>1, <1>2, <1>3, <1>4, <1>5 DEF Inside, O

\* The turns at the ends of an edge with halves h and k, between p and q.
Across(p, q, R, S, h, k) ==
    /\ Inside(p, q, R, S)
    /\ p # <<>> => Onto(S, Away(p), k) /\ Onto(S, k, Lead(p))
    /\ q # <<>> => Onto(S, Away(q), h) /\ Onto(S, h, Lead(q))

LEMMA BridgeCloses ==
    ASSUME NEW V, NEW a \in V, NEW c \in V, NEW p \in Seq(V), NEW q \in Seq(V), NEW R, NEW S,
           NEW h, NEW k, Half(a) = h, Half(c) = k, Opp(h) = k, Opp(k) = h
    PROVE  Closed(Join(Ring(Bridged(a, p, c, q)), R).links, S) <=> Across(p, q, R, S, h, k)
<1> DEFINE B == Ring(Bridged(a, p, c, q))
           P == Via(a, p, c)
           Q == Via(c, q, a)
<1>1. B.links = Steps(p) \cup Steps(q) \cup P \cup Q
  <2>1. Round(Bridged(a, p, c, q)) = Steps(p) \cup Steps(q) \cup P \cup Q
    BY BridgedIs
  <2> QED
    BY <2>1, RingIs
<1>2. Closed(P, S) <=> (p # <<>> => Onto(S, Away(p), k) /\ Onto(S, k, Lead(p)))
  BY ClosedVia DEF Onto
<1>3. Closed(Q, S) <=> (q # <<>> => Onto(S, Away(q), h) /\ Onto(S, h, Lead(q)))
  BY ClosedVia DEF Onto
<1> HIDE DEF B, P, Q
<1>4. Closed(B.links, S) <=>
         Closed(Steps(p), S) /\ Closed(Steps(q), S) /\ Closed(P, S) /\ Closed(Q, S)
  BY <1>1, ClosedFour
<1>5. Closed(Join(B, R).links, S) <=> Closed(B.links, S) /\ Closed(R.links, S)
  BY ClosedJoin
<1> QED
  BY <1>2, <1>3, <1>4, <1>5 DEF Across, Inside, B

LEMMA LoopCloses ==
    ASSUME NEW V, NEW p \in Seq(V), NEW q \in Seq(V), NEW R, NEW S
    PROVE  Closed(Join(Ring(p \o q), R).links, S) <=>
              /\ Inside(p, q, R, S)
              /\ p # <<>> /\ q # <<>> => Onto(S, Away(p), Lead(q)) /\ Onto(S, Away(q), Lead(p))
              /\ p # <<>> /\ q = <<>> => Onto(S, Away(p), Lead(p))
              /\ p = <<>> /\ q # <<>> => Onto(S, Away(q), Lead(q))
<1> DEFINE t == p \o q
           O == Ring(t)
<1>1. /\ p = <<>> => t = q
      /\ q = <<>> => t = p
      /\ p # <<>> /\ q # <<>> => Round(t) = Steps(p) \cup Steps(q) \cup Seam(p, q) \cup Seam(q, p)
  BY JoinedRound
<1>2. O.links = Round(t)
  BY RingIs
<1> HIDE DEF t, O
<1>3. Closed(Join(O, R).links, S) <=> Closed(Round(t), S) /\ Closed(R.links, S)
  BY <1>2, ClosedJoin
<1>4. Closed(Steps(<<>>), S)
  BY NoUse, ClosedNone
<1>5. CASE p = <<>>
  <2>1. Closed(Round(q), S) <=> Closed(Steps(q), S) /\ (q # <<>> => Onto(S, Away(q), Lead(q)))
    BY ClosedRound
  <2>2. t = q
    BY <1>1, <1>5
  <2> QED
    BY <1>3, <1>4, <1>5, <2>1, <2>2 DEF Inside, t, O
<1>6. CASE q = <<>>
  <2>1. Closed(Round(p), S) <=> Closed(Steps(p), S) /\ (p # <<>> => Onto(S, Away(p), Lead(p)))
    BY ClosedRound
  <2>2. t = p
    BY <1>1, <1>6
  <2> QED
    BY <1>3, <1>4, <1>6, <2>1, <2>2 DEF Inside, t, O
<1>7. CASE p # <<>> /\ q # <<>>
  <2> DEFINE P == Seam(p, q)
             Q == Seam(q, p)
  <2>1. /\ P = {<<Half(p[Len(p)]), Half(q[1])>>}
        /\ Q = {<<Half(q[Len(q)]), Half(p[1])>>}
    BY <1>7 DEF Seam
  <2>2. Closed(P, S) <=> Onto(S, Away(p), Lead(q))
    BY <2>1, ClosedOne DEF Away, Lead
  <2>3. Closed(Q, S) <=> Onto(S, Away(q), Lead(p))
    BY <2>1, ClosedOne DEF Away, Lead
  <2>4. Round(t) = Steps(p) \cup Steps(q) \cup P \cup Q
    BY <1>1, <1>7
  <2> HIDE DEF P, Q
  <2>5. Closed(Round(t), S) <=>
           Closed(Steps(p), S) /\ Closed(Steps(q), S) /\ Closed(P, S) /\ Closed(Q, S)
    BY <2>4, ClosedFour
  <2> QED
    BY <1>3, <1>7, <2>2, <2>3, <2>5 DEF Inside, t, O
<1> QED
  BY <1>5, <1>6, <1>7

\* Around the ends of an edge h, with k against it, that splits a loop in two.
Threads(S, p, q, h, k) ==
    /\ IF p = <<>> THEN Onto(S, k, h) ELSE Onto(S, Away(p), h) /\ Onto(S, k, Lead(p))
    /\ IF q = <<>> THEN Onto(S, h, k) ELSE Onto(S, Away(q), k) /\ Onto(S, h, Lead(q))

LEMMA SplitCloses ==
    ASSUME NEW V, NEW a \in V, NEW c \in V, NEW p \in Seq(V), NEW q \in Seq(V), NEW R, NEW S,
           NEW h, NEW k, Half(a) = h, Half(c) = k, Opp(h) = k, Opp(k) = h
    PROVE  Closed(Join(Join(Ring(<<a>> \o p), Ring(<<c>> \o q)), R).links, S) <=>
              /\ Inside(p, q, R, S)
              /\ Threads(S, p, q, h, k)
<1> DEFINE s == <<a>> \o p
           t == <<c>> \o q
           M == Ring(s)
           N == Ring(t)
           B == Join(M, N)
           P == Via(a, p, a)
           Q == Via(c, q, c)
<1>1. M.links = Steps(p) \cup P
  BY RingIs, BehindIs
<1>2. N.links = Steps(q) \cup Q
  BY RingIs, BehindIs
<1>3. Closed(P, S) <=> IF p = <<>> THEN Onto(S, k, h) ELSE Onto(S, Away(p), h) /\ Onto(S, k, Lead(p))
  BY ClosedVia
<1>4. Closed(Q, S) <=> IF q = <<>> THEN Onto(S, h, k) ELSE Onto(S, Away(q), k) /\ Onto(S, h, Lead(q))
  BY ClosedVia
<1> HIDE DEF M, N, P, Q
<1>5. Closed(M.links, S) <=> Closed(Steps(p), S) /\ Closed(P, S)
  BY <1>1, ClosedUnion
<1>6. Closed(N.links, S) <=> Closed(Steps(q), S) /\ Closed(Q, S)
  BY <1>2, ClosedUnion
<1>7. Closed(B.links, S) <=> Closed(M.links, S) /\ Closed(N.links, S)
  BY ClosedJoin
<1> HIDE DEF B
<1>8. Closed(Join(B, R).links, S) <=> Closed(B.links, S) /\ Closed(R.links, S)
  BY ClosedJoin
<1>9. Closed(Join(B, R).links, S) <=> Inside(p, q, R, S) /\ Closed(P, S) /\ Closed(Q, S)
  BY <1>5, <1>6, <1>7, <1>8 DEF Inside
<1> QED
  BY <1>3, <1>4, <1>9 DEF Threads, B, M, N

LEMMA FillsPair ==
    ASSUME NEW x, NEW S, Fills(x, S), NEW g \in Halves(x), NEW h \in Halves(x),
           TailOf(x, g) = TailOf(x, h)
    PROVE  g \in S <=> h \in S
BY DEF Fills

\* k is in S as the halves of x that leave w are.
Along(x, S, w, k) == Bare(x, w) \/ \E g \in Halves(x) : TailOf(x, g) = w /\ (g \in S <=> k \in S)

LEMMA FillsMade ==
    ASSUME NEW x, NEW y, NEW h, NEW k, NEW v, NEW w, NEW S, Fills(x, S),
           Halves(y) = Halves(x) \cup {h, k},
           \A g \in Halves(x) : TailOf(y, g) = TailOf(x, g),
           TailOf(y, h) = v, TailOf(y, k) = w,
           Along(x, S, v, h), Along(x, S, w, k), v = w => (h \in S <=> k \in S)
    PROVE  Fills(y, S)
<1>1. \A g \in Halves(x) : TailOf(x, g) = v => (g \in S <=> h \in S)
  BY FillsPair DEF Along, Bare
<1>2. \A g \in Halves(x) : TailOf(x, g) = w => (g \in S <=> k \in S)
  BY FillsPair DEF Along, Bare
<1>3. \A g, l \in Halves(x) : TailOf(x, g) = TailOf(x, l) => (g \in S <=> l \in S)
  BY FillsPair
<1> QED
  BY <1>1, <1>2, <1>3 DEF Fills

LEMMA FillsKilled ==
    ASSUME NEW x, NEW y, NEW S, NEW T, Fills(x, T), Halves(y) \subseteq Halves(x),
           \A g \in Halves(y) : TailOf(x, g) = TailOf(y, g),
           \A g \in Halves(y) : g \in T <=> g \in S
    PROVE  Fills(y, S)
BY DEF Fills

LEMMA PieceEnds ==
    ASSUME NEW x, NEW V, NEW t \in Seq(V), t # <<>>, HalvesIn(t) \subseteq Halves(x)
    PROVE  /\ Lead(t) \in Halves(x) /\ Away(t) \in Halves(x)
           /\ TailOf(x, Away(t)) = HeadOf(x, Half(t[Len(t)]))
<1> DEFINE g == Half(t[Len(t)])
<1>1. 1 \in 1 .. Len(t) /\ Len(t) \in 1 .. Len(t)
  OBVIOUS
<1>2. Lead(t) \in HalvesIn(t) /\ g \in HalvesIn(t)
  BY <1>1 DEF HalvesIn, Lead
<1>3. g \in Halves(x) /\ Away(t) = Opp(g)
  BY <1>2 DEF Away
<1> HIDE DEF g
<1>4. Opp(g) \in Halves(x) /\ TailOf(x, Opp(g)) = HeadOf(x, g)
  BY <1>3, OppIs
<1> QED
  BY <1>2, <1>3, <1>4 DEF g

LEMMA RingEnds ==
    ASSUME NEW x, NEW V, NEW t \in Seq(V), t # <<>>, HalvesIn(t) \subseteq Halves(x),
           Fits(x, Round(t))
    PROVE  TailOf(x, Away(t)) = TailOf(x, Lead(t))
<1>1. HeadOf(x, Half(t[Len(t)])) = TailOf(x, Half(t[1]))
  BY FitsRound
<1>2. TailOf(x, Away(t)) = HeadOf(x, Half(t[Len(t)]))
  BY PieceEnds
<1> QED
  BY <1>1, <1>2 DEF Lead

LEMMA LoopEnds ==
    ASSUME NEW x, NEW V, NEW p \in Seq(V), NEW q \in Seq(V), p # <<>>, q # <<>>,
           HalvesIn(p) \cup HalvesIn(q) \subseteq Halves(x), Fits(x, Round(p \o q))
    PROVE  /\ TailOf(x, Away(p)) = TailOf(x, Lead(q))
           /\ TailOf(x, Away(q)) = TailOf(x, Lead(p))
<1> DEFINE t == p \o q
           P == Seam(p, q)
           Q == Seam(q, p)
<1>1. Round(t) = Steps(p) \cup Steps(q) \cup P \cup Q
  BY JoinedRound
<1>2. /\ P = {<<Half(p[Len(p)]), Half(q[1])>>}
      /\ Q = {<<Half(q[Len(q)]), Half(p[1])>>}
  BY DEF Seam
<1>3. Fits(x, P) <=> HeadOf(x, Half(p[Len(p)])) = TailOf(x, Half(q[1]))
  BY <1>2, FitsOne
<1>4. Fits(x, Q) <=> HeadOf(x, Half(q[Len(q)])) = TailOf(x, Half(p[1]))
  BY <1>2, FitsOne
<1> HIDE DEF P, Q
<1>5. Fits(x, P) /\ Fits(x, Q)
  BY <1>1, FitsFour
<1>6. TailOf(x, Away(p)) = HeadOf(x, Half(p[Len(p)]))
  BY PieceEnds
<1>7. TailOf(x, Away(q)) = HeadOf(x, Half(q[Len(q)]))
  BY PieceEnds
<1> QED
  BY <1>3, <1>4, <1>5, <1>6, <1>7 DEF Lead

\* What a new edge adds, with its halves named.
LEMMA NewHalves ==
    ASSUME NEW x, NEW y, NEW e, EdgeMore(x, y, e), NEW a, NEW c, NEW v, NEW w,
           NewPair(y, e, a, c, v, w), NEW h, NEW k, Half(a) = h, Half(c) = k
    PROVE  /\ Halves(y) = Halves(x) \cup {h, k} /\ h # k
           /\ h \notin Halves(x) /\ k \notin Halves(x)
           /\ \A g \in Halves(x) : TailOf(y, g) = TailOf(x, g) /\ HeadOf(y, g) = HeadOf(x, g)
           /\ TailOf(y, h) = v /\ TailOf(y, k) = w /\ HeadOf(y, h) = w /\ HeadOf(y, k) = v
           /\ Opp(h) = k /\ Opp(k) = h
           /\ \A u : Bare(y, u) <=> Bare(x, u) /\ u # v /\ u # w
<1> DEFINE i == <<e, FORWARD>>
           j == <<e, REVERSED>>
<1>1. /\ Halves(y) = Halves(x) \cup {i, j} /\ i # j
      /\ i \notin Halves(x) /\ j \notin Halves(x)
      /\ \A g \in Halves(x) : TailOf(y, g) = TailOf(x, g) /\ HeadOf(y, g) = HeadOf(x, g)
  BY HalvesMore
<1>2. h = i /\ k = j
  BY DEF NewPair
<1> HIDE DEF i, j
<1>3. TailOf(y, h) = v /\ TailOf(y, k) = w /\ HeadOf(y, h) = w /\ HeadOf(y, k) = v
  BY PairEnds
<1>4. Opp(h) = k /\ Opp(k) = h
  <2>1. OldPair(e, a, c)
    BY DEF OldPair, NewPair
  <2> QED
    BY <2>1, OppPair
<1>5. \A u : Bare(y, u) <=> Bare(x, u) /\ u # v /\ u # w
  BY <1>1, <1>2, <1>3 DEF Bare
<1> QED
  BY <1>1, <1>2, <1>3, <1>4, <1>5

LEMMA BridgeTurned ==
    ASSUME NEW x, NEW y, NEW e, EdgeMore(x, y, e), Paired(x), Turned(x),
           NEW V, NEW a \in V, NEW c \in V, NEW p \in Seq(V), NEW q \in Seq(V),
           NEW v, NEW w, NewPair(y, e, a, c, v, w),
           p # <<>> => TailOf(x, Half(p[1])) = w, p = <<>> => Bare(x, w),
           q # <<>> => TailOf(x, Half(q[1])) = v, q = <<>> => Bare(x, v),
           p = <<>> /\ q = <<>> => v # w,
           NEW R, Content(Sides, x) = Join(Join(Ring(p), Ring(q)), R),
           Content(Sides, y) = Join(Ring(Bridged(a, p, c, q)), R)
    PROVE  Turned(y)
<1> DEFINE h == Half(a)
           k == Half(c)
           O == Join(Ring(p), Ring(q))
           C == Content(Sides, x)
           D == Content(Sides, y)
<1>1. /\ Halves(y) = Halves(x) \cup {h, k}
      /\ \A g \in Halves(x) : TailOf(y, g) = TailOf(x, g)
      /\ TailOf(y, h) = v /\ TailOf(y, k) = w
      /\ Opp(h) = k /\ Opp(k) = h
  BY NewHalves
<1>2. HalvesIn(p) \subseteq Halves(x) /\ HalvesIn(q) \subseteq Halves(x)
      /\ Fits(x, Round(p)) /\ Fits(x, Round(q))
  <2>1. O.halves \cup R.halves = Halves(x) /\ Fits(x, O.links)
    <3> HIDE DEF O
    <3>1. C = Join(O, R)
      BY DEF O
    <3> QED
      BY <3>1, PairedJoin
  <2>2. O.halves = HalvesIn(p) \cup HalvesIn(q)
    BY JoinIs, RingIs
  <2>3. Fits(x, O.links) <=> Fits(x, Ring(p).links) /\ Fits(x, Ring(q).links)
    BY FitsJoin
  <2>4. Ring(p).links = Round(p) /\ Ring(q).links = Round(q)
    BY RingIs
  <2> HIDE DEF O, C
  <2> QED
    BY <2>1, <2>2, <2>3, <2>4
<1>3. p # <<>> => /\ Lead(p) \in Halves(x) /\ Away(p) \in Halves(x)
                  /\ TailOf(x, Lead(p)) = w /\ TailOf(x, Away(p)) = w
  <2>1. ASSUME p # <<>> PROVE TailOf(x, Away(p)) = TailOf(x, Lead(p))
    BY <1>2, <2>1, RingEnds
  <2>2. ASSUME p # <<>> PROVE Lead(p) \in Halves(x) /\ Away(p) \in Halves(x)
    BY <1>2, <2>2, PieceEnds
  <2> QED
    BY <2>1, <2>2 DEF Lead
<1>4. q # <<>> => /\ Lead(q) \in Halves(x) /\ Away(q) \in Halves(x)
                  /\ TailOf(x, Lead(q)) = v /\ TailOf(x, Away(q)) = v
  <2>1. ASSUME q # <<>> PROVE TailOf(x, Away(q)) = TailOf(x, Lead(q))
    BY <1>2, <2>1, RingEnds
  <2>2. ASSUME q # <<>> PROVE Lead(q) \in Halves(x) /\ Away(q) \in Halves(x)
    BY <1>2, <2>2, PieceEnds
  <2> QED
    BY <2>1, <2>2 DEF Lead
<1>14. ASSUME NEW T
       PROVE  Closed(D.links, T) <=>
                /\ Inside(p, q, R, T)
                /\ p # <<>> => Onto(T, Away(p), k) /\ Onto(T, k, Lead(p))
                /\ q # <<>> => Onto(T, Away(q), h) /\ Onto(T, h, Lead(q))
  <2> DEFINE E == Join(Ring(Bridged(a, p, c, q)), R)
  <2>1. Half(a) = h /\ Half(c) = k /\ Opp(h) = k /\ Opp(k) = h
    BY <1>1
  <2> HIDE DEF h, k, O, C
  <2>2. Closed(E.links, T) <=> Across(p, q, R, T, h, k)
    <3> HIDE DEF D
    <3> QED
      BY <2>1, BridgeCloses
  <2>3. D = E
    OBVIOUS
  <2> HIDE DEF D, E
  <2> QED
    BY <2>2, <2>3 DEF Across
<1> SUFFICES ASSUME NEW T, Closed(D.links, T) PROVE Fills(y, T)
  BY DEF Turned
<1>5. /\ Inside(p, q, R, T)
      /\ p # <<>> => Onto(T, Away(p), k) /\ Onto(T, k, Lead(p))
      /\ q # <<>> => Onto(T, Away(q), h) /\ Onto(T, h, Lead(q))
  <2> HIDE DEF h, k, D
  <2> QED
    BY <1>14
<1>6. Closed(C.links, T)
  <2>1. /\ p # <<>> => Onto(T, Away(p), Lead(p))
        /\ q # <<>> => Onto(T, Away(q), Lead(q))
    BY <1>5 DEF Onto
  <2>2. Closed(Join(Join(Ring(p), Ring(q)), R).links, T)
    BY <1>5, <2>1, RingsClose
  <2> QED
    BY <2>2
<1>7. Fills(x, T)
  BY <1>6, TurnedAt
<1> HIDE DEF h, k, O, C, D
<1>8. p # <<>> => (Lead(p) \in T <=> k \in T)
  <2>1. ASSUME p # <<>> PROVE Away(p) \in T <=> Lead(p) \in T
    BY <1>3, <1>7, <2>1, FillsPair
  <2> QED
    BY <1>5, <2>1 DEF Onto
<1>9. q # <<>> => (Lead(q) \in T <=> h \in T)
  <2>1. ASSUME q # <<>> PROVE Away(q) \in T <=> Lead(q) \in T
    BY <1>4, <1>7, <2>1, FillsPair
  <2> QED
    BY <1>5, <2>1 DEF Onto
<1>10. v = w => (h \in T <=> k \in T)
  <2>1. ASSUME v = w, p # <<>>, q # <<>> PROVE Lead(p) \in T <=> Lead(q) \in T
    BY <1>3, <1>4, <1>7, <2>1, FillsPair
  <2>2. v = w => p # <<>> /\ q # <<>>
    BY <1>3, <1>4 DEF Bare
  <2> QED
    BY <1>8, <1>9, <2>1, <2>2
<1>11. Along(x, T, w, k)
  BY <1>3, <1>8 DEF Along
<1>12. Along(x, T, v, h)
  BY <1>4, <1>9 DEF Along
<1> QED
  BY <1>1, <1>7, <1>10, <1>11, <1>12, FillsMade

LEMMA StepsIn ==
    ASSUME NEW V, NEW p \in Seq(V), NEW D, HalvesIn(p) \subseteq D
    PROVE  Steps(p) \subseteq D \X D
<1>1. \A i \in 1 .. (Len(p) - 1) : i \in 1 .. Len(p) /\ i + 1 \in 1 .. Len(p)
  OBVIOUS
<1>2. \A i \in 1 .. Len(p) : Half(p[i]) \in D
  BY DEF HalvesIn
<1> QED
  BY <1>1, <1>2 DEF Steps

\* What keeps to the halves of x.
Within(x, p, q, R) ==
    HalvesIn(p) \subseteq Halves(x) /\ HalvesIn(q) \subseteq Halves(x)
      /\ R.links \subseteq Halves(x) \X Halves(x)

LEMMA InsideSame ==
    ASSUME NEW x, NEW V, NEW p \in Seq(V), NEW q \in Seq(V), NEW R, Within(x, p, q, R),
           NEW S, NEW T, \A h \in Halves(x) : h \in S <=> h \in T
    PROVE  Inside(p, q, R, S) <=> Inside(p, q, R, T)
<1> DEFINE D == Halves(x)
<1>1. \A h \in D : Opp(h) \in D
  BY OppIs
<1>2. /\ Steps(p) \subseteq D \X D /\ Steps(q) \subseteq D \X D /\ R.links \subseteq D \X D
      /\ \A h \in D : h \in S <=> h \in T
  BY StepsIn DEF Within
<1> HIDE DEF D
<1>3. Closed(Steps(p), S) <=> Closed(Steps(p), T)
  BY <1>1, <1>2, ClosedSame
<1>4. Closed(Steps(q), S) <=> Closed(Steps(q), T)
  BY <1>1, <1>2, ClosedSame
<1>5. Closed(R.links, S) <=> Closed(R.links, T)
  BY <1>1, <1>2, ClosedSame
<1> QED
  BY <1>3, <1>4, <1>5 DEF Inside

LEMMA InsideApart ==
    ASSUME NEW x, NEW V, NEW p \in Seq(V), NEW q \in Seq(V), NEW R, Within(x, p, q, R),
           NEW S, \A h \in Halves(x) : h \notin S
    PROVE  Inside(p, q, R, S)
<1> DEFINE T == {}
<1>1. \A h \in Halves(x) : h \in S <=> h \in T
  OBVIOUS
<1>2. Inside(p, q, R, T)
  BY DEF Inside, Closed
<1> HIDE DEF T
<1> QED
  BY <1>1, <1>2, InsideSame

LEMMA RingsWithin ==
    ASSUME NEW x, Paired(x), NEW p, NEW q, NEW R, Linked(R),
           Content(Sides, x) = Join(Join(Ring(p), Ring(q)), R)
    PROVE  Within(x, p, q, R) /\ Fits(x, Round(p)) /\ Fits(x, Round(q))
<1> DEFINE O == Join(Ring(p), Ring(q))
           C == Content(Sides, x)
<1>1. O.halves \cup R.halves = Halves(x) /\ Fits(x, O.links)
  <2> HIDE DEF O
  <2>1. C = Join(O, R)
    BY DEF O
  <2> QED
    BY <2>1, PairedJoin
<1>2. O.halves = HalvesIn(p) \cup HalvesIn(q)
  BY JoinIs, RingIs
<1>3. Fits(x, O.links) <=> Fits(x, Ring(p).links) /\ Fits(x, Ring(q).links)
  BY FitsJoin
<1>4. Ring(p).links = Round(p) /\ Ring(q).links = Round(q)
  BY RingIs
<1>5. R.links \subseteq R.halves \X R.halves
  BY DEF Linked
<1> HIDE DEF O, C
<1>6. R.links \subseteq Halves(x) \X Halves(x)
  BY <1>1, <1>5
<1>7. HalvesIn(p) \subseteq Halves(x) /\ HalvesIn(q) \subseteq Halves(x)
  BY <1>1, <1>2
<1> QED
  BY <1>1, <1>3, <1>4, <1>6, <1>7 DEF Within

LEMMA LoopWithin ==
    ASSUME NEW x, Paired(x), NEW V, NEW p \in Seq(V), NEW q \in Seq(V), NEW R, Linked(R),
           Content(Sides, x) = Join(Ring(p \o q), R)
    PROVE  Within(x, p, q, R) /\ Fits(x, Round(p \o q))
<1> DEFINE O == Ring(p \o q)
           C == Content(Sides, x)
<1>1. O.halves \cup R.halves = Halves(x) /\ Fits(x, O.links)
  <2> HIDE DEF O
  <2>1. C = Join(O, R)
    BY DEF O
  <2> QED
    BY <2>1, PairedJoin
<1>2. O.halves = HalvesIn(p) \cup HalvesIn(q)
  BY JoinedHalves, RingIs
<1>3. O.links = Round(p \o q)
  BY RingIs
<1>4. R.links \subseteq R.halves \X R.halves
  BY DEF Linked
<1> HIDE DEF O, C
<1>5. R.links \subseteq Halves(x) \X Halves(x)
  BY <1>1, <1>4
<1>6. HalvesIn(p) \subseteq Halves(x) /\ HalvesIn(q) \subseteq Halves(x)
  BY <1>1, <1>2
<1> QED
  BY <1>1, <1>3, <1>5, <1>6 DEF Within

\* S, but with the halves h and k as they are told.
Told(S, h, k, g, l) == (S \ {h, k}) \cup (IF g THEN {h} ELSE {}) \cup (IF l THEN {k} ELSE {})

LEMMA ToldIs ==
    ASSUME NEW S, NEW h, NEW k, h # k, NEW g \in BOOLEAN, NEW l \in BOOLEAN
    PROVE  LET T == Told(S, h, k, g, l) IN
           /\ h \in T <=> g
           /\ k \in T <=> l
           /\ \A i : i # h /\ i # k => (i \in T <=> i \in S)
BY DEF Told

LEMMA BridgeUnturned ==
    ASSUME NEW x, NEW y, NEW e, EdgeMore(y, x, e), Paired(x), Paired(y), Turned(x),
           NEW V, NEW a \in V, NEW c \in V, NEW p \in Seq(V), NEW q \in Seq(V),
           NEW v, NEW w, NewPair(x, e, a, c, v, w), NEW R, Linked(R),
           Content(Sides, x) = Join(Ring(Bridged(a, p, c, q)), R),
           Content(Sides, y) = Join(Join(Ring(p), Ring(q)), R)
    PROVE  /\ Turned(y) /\ (Bare(y, w) <=> p = <<>>) /\ (Bare(y, v) <=> q = <<>>)
           /\ p = <<>> \/ q = <<>> => v # w
<1> DEFINE h == Half(a)
           k == Half(c)
           B == Bridged(a, p, c, q)
           C == Content(Sides, x)
           D == Content(Sides, y)
<1>1. /\ Halves(x) = Halves(y) \cup {h, k} /\ h # k /\ h \notin Halves(y) /\ k \notin Halves(y)
      /\ \A g \in Halves(y) : TailOf(x, g) = TailOf(y, g)
      /\ TailOf(x, h) = v /\ TailOf(x, k) = w /\ HeadOf(x, h) = w /\ HeadOf(x, k) = v
      /\ Opp(h) = k /\ Opp(k) = h
  BY NewHalves
<1>2. Within(y, p, q, R) /\ Fits(y, Round(p)) /\ Fits(y, Round(q))
  BY RingsWithin
<1>3. /\ p # <<>> => Lead(p) \in Halves(y) /\ Away(p) \in Halves(y)
      /\ q # <<>> => Lead(q) \in Halves(y) /\ Away(q) \in Halves(y)
  BY <1>2, PieceEnds DEF Within
<1>4. /\ p # <<>> => TailOf(x, Lead(p)) = w
      /\ q # <<>> => TailOf(x, Lead(q)) = v
  <2>1. Fits(x, Round(B))
    <3> DEFINE G == Ring(B)
    <3>1. G.links = Round(B)
      BY RingIs
    <3> HIDE DEF G, C, B
    <3>2. C = Join(G, R)
      BY DEF G, B, C
    <3> QED
      BY <3>1, <3>2, PairedJoin DEF C
  <2> QED
    BY <1>1, <2>1, BridgeFits DEF Lead
<1>5. ASSUME NEW T
      PROVE  /\ Closed(C.links, T) <=>
                  /\ Inside(p, q, R, T)
                  /\ p # <<>> => Onto(T, Away(p), k) /\ Onto(T, k, Lead(p))
                  /\ q # <<>> => Onto(T, Away(q), h) /\ Onto(T, h, Lead(q))
             /\ Closed(D.links, T) <=>
                  /\ Inside(p, q, R, T)
                  /\ p # <<>> => Onto(T, Away(p), Lead(p))
                  /\ q # <<>> => Onto(T, Away(q), Lead(q))
  <2>1. Half(a) = h /\ Half(c) = k /\ Opp(h) = k /\ Opp(k) = h
    BY <1>1 DEF h, k
  <2>2. Closed(Join(Ring(Bridged(a, p, c, q)), R).links, T) <=> Across(p, q, R, T, h, k)
    <3> HIDE DEF h, k
    <3> QED
      BY <2>1, BridgeCloses
  <2>3. Closed(Join(Join(Ring(p), Ring(q)), R).links, T) <=>
           /\ Inside(p, q, R, T)
           /\ p # <<>> => Onto(T, Away(p), Lead(p))
           /\ q # <<>> => Onto(T, Away(q), Lead(q))
    BY RingsClose
  <2> QED
    BY <2>2, <2>3 DEF Across
<1> HIDE DEF h, k, B, C, D
<1>6. Turned(y)
  <2> SUFFICES ASSUME NEW S, Closed(D.links, S) PROVE Fills(y, S)
    BY DEF Turned, D
  <2> DEFINE g == q # <<>> /\ Lead(q) \in S
             l == p # <<>> /\ Lead(p) \in S
             T == Told(S, h, k, g, l)
  <2>1. /\ h \in T <=> g
        /\ k \in T <=> l
        /\ \A i : i # h /\ i # k => (i \in T <=> i \in S)
    <3>1. g \in BOOLEAN /\ l \in BOOLEAN
      OBVIOUS
    <3> HIDE DEF g, l
    <3> QED
      BY <1>1, <3>1, ToldIs
  <2> HIDE DEF T
  <2>2. \A i \in Halves(y) : i \in T <=> i \in S
    BY <1>1, <2>1
  <2>3. Inside(p, q, R, S) => Inside(p, q, R, T)
    BY <1>2, <2>2, InsideSame
  <2>4. /\ Inside(p, q, R, S)
        /\ p # <<>> => Onto(S, Away(p), Lead(p))
        /\ q # <<>> => Onto(S, Away(q), Lead(q))
    BY <1>5
  <2>5. /\ p # <<>> => Onto(T, Away(p), k) /\ Onto(T, k, Lead(p))
        /\ q # <<>> => Onto(T, Away(q), h) /\ Onto(T, h, Lead(q))
    BY <1>3, <2>1, <2>2, <2>4 DEF Onto
  <2>6. Closed(C.links, T)
    BY <1>5, <2>3, <2>4, <2>5
  <2>7. Fills(x, T)
    BY <2>6, TurnedAt DEF C
  <2>8. Halves(y) \subseteq Halves(x)
    BY <1>1
  <2> QED
    BY <1>1, <2>2, <2>7, <2>8, FillsKilled
<1>7. ASSUME p = <<>> PROVE Bare(y, w) /\ v # w
  <2> DEFINE T == {k}
  <2>1. \A i \in Halves(y) : i \notin T
    BY <1>1
  <2>2. Inside(p, q, R, T)
    BY <1>2, <2>1, InsideApart
  <2>3. q # <<>> => Onto(T, Away(q), h) /\ Onto(T, h, Lead(q))
    BY <1>1, <1>3, <2>1 DEF Onto
  <2>4. Closed(C.links, T)
    BY <1>5, <1>7, <2>2, <2>3
  <2>5. Fills(x, T)
    BY <2>4, TurnedAt DEF C
  <2>6. \A i \in Halves(x) : TailOf(x, i) = w => i = k
    BY <1>1, <2>5 DEF Fills
  <2> QED
    BY <1>1, <2>6 DEF Bare
<1>8. ASSUME q = <<>> PROVE Bare(y, v) /\ v # w
  <2> DEFINE T == {h}
  <2>1. \A i \in Halves(y) : i \notin T
    BY <1>1
  <2>2. Inside(p, q, R, T)
    BY <1>2, <2>1, InsideApart
  <2>3. p # <<>> => Onto(T, Away(p), k) /\ Onto(T, k, Lead(p))
    BY <1>1, <1>3, <2>1 DEF Onto
  <2>4. Closed(C.links, T)
    BY <1>5, <1>8, <2>2, <2>3
  <2>5. Fills(x, T)
    BY <2>4, TurnedAt DEF C
  <2>6. \A i \in Halves(x) : TailOf(x, i) = v => i = h
    BY <1>1, <2>5 DEF Fills
  <2> QED
    BY <1>1, <2>6 DEF Bare
<1>9. (p # <<>> => ~ Bare(y, w)) /\ (q # <<>> => ~ Bare(y, v))
  BY <1>1, <1>3, <1>4 DEF Bare
<1> QED
  BY <1>6, <1>7, <1>8, <1>9

LEMMA SplitTurned ==
    ASSUME NEW x, NEW y, NEW e, EdgeMore(x, y, e), Paired(x), Turned(x),
           NEW V, NEW a \in V, NEW c \in V, NEW p \in Seq(V), NEW q \in Seq(V),
           NEW v, NEW w, NewPair(y, e, a, c, v, w),
           p # <<>> => TailOf(x, Half(p[1])) = w,
           q # <<>> => TailOf(x, Half(q[1])) = v,
           p = <<>> \/ q = <<>> => v = w,
           p = <<>> /\ q = <<>> => Bare(x, v),
           NEW R, Linked(R), Content(Sides, x) = Join(Ring(p \o q), R),
           Content(Sides, y) = Join(Join(Ring(<<a>> \o p), Ring(<<c>> \o q)), R)
    PROVE  Turned(y)
<1> DEFINE h == Half(a)
           k == Half(c)
           B == Join(Ring(<<a>> \o p), Ring(<<c>> \o q))
           C == Content(Sides, x)
           D == Content(Sides, y)
<1>1. /\ Halves(y) = Halves(x) \cup {h, k}
      /\ \A g \in Halves(x) : TailOf(y, g) = TailOf(x, g)
      /\ TailOf(y, h) = v /\ TailOf(y, k) = w
      /\ Opp(h) = k /\ Opp(k) = h
  BY NewHalves
<1>2. Within(x, p, q, R) /\ Fits(x, Round(p \o q))
  BY LoopWithin
<1>3. /\ p # <<>> => Lead(p) \in Halves(x) /\ Away(p) \in Halves(x) /\ TailOf(x, Lead(p)) = w
      /\ q # <<>> => Lead(q) \in Halves(x) /\ Away(q) \in Halves(x) /\ TailOf(x, Lead(q)) = v
  BY <1>2, PieceEnds DEF Within, Lead
<1>4. ASSUME p # <<>>, q # <<>>
      PROVE  TailOf(x, Away(p)) = TailOf(x, Lead(q)) /\ TailOf(x, Away(q)) = TailOf(x, Lead(p))
  <2>1. HalvesIn(p) \cup HalvesIn(q) \subseteq Halves(x)
    BY <1>2 DEF Within
  <2> QED
    BY <1>2, <1>4, <2>1, LoopEnds
<1>5. /\ p # <<>> /\ q = <<>> => TailOf(x, Away(p)) = TailOf(x, Lead(p))
      /\ p = <<>> /\ q # <<>> => TailOf(x, Away(q)) = TailOf(x, Lead(q))
  <2>1. (q = <<>> => p \o q = p) /\ (p = <<>> => p \o q = q)
    BY JoinedRound
  <2>2. ASSUME p # <<>>, q = <<>> PROVE TailOf(x, Away(p)) = TailOf(x, Lead(p))
    <3>1. Fits(x, Round(p))
      BY <1>2, <2>1, <2>2
    <3> QED
      BY <1>2, <2>2, <3>1, RingEnds DEF Within
  <2>3. ASSUME p = <<>>, q # <<>> PROVE TailOf(x, Away(q)) = TailOf(x, Lead(q))
    <3>1. Fits(x, Round(q))
      BY <1>2, <2>1, <2>3
    <3> QED
      BY <1>2, <2>3, <3>1, RingEnds DEF Within
  <2> QED
    BY <2>2, <2>3
<1> SUFFICES ASSUME NEW T, Closed(D.links, T) PROVE Fills(y, T)
  BY DEF Turned
<1>6. /\ Inside(p, q, R, T)
      /\ Threads(T, p, q, h, k)
  <2>1. Half(a) = h /\ Half(c) = k /\ Opp(h) = k /\ Opp(k) = h
    BY <1>1 DEF h, k
  <2>2. Closed(Join(Join(Ring(<<a>> \o p), Ring(<<c>> \o q)), R).links, T) <=>
           /\ Inside(p, q, R, T)
           /\ Threads(T, p, q, h, k)
    <3> HIDE DEF h, k
    <3> QED
      BY <2>1, SplitCloses
  <2>3. D = Join(B, R)
    OBVIOUS
  <2> HIDE DEF D
  <2> QED
    BY <2>2, <2>3 DEF B
<1> HIDE DEF h, k, B, D
<1>7. Closed(C.links, T)
  <2>1. /\ p # <<>> /\ q # <<>> => Onto(T, Away(p), Lead(q)) /\ Onto(T, Away(q), Lead(p))
        /\ p # <<>> /\ q = <<>> => Onto(T, Away(p), Lead(p))
        /\ p = <<>> /\ q # <<>> => Onto(T, Away(q), Lead(q))
    BY <1>6 DEF Threads, Onto
  <2>2. Closed(Join(Ring(p \o q), R).links, T)
    BY <1>6, <2>1, LoopCloses
  <2> QED
    BY <2>2
<1>8. Fills(x, T)
  BY <1>7, TurnedAt
<1> HIDE DEF C
<1>9. CASE p # <<>> /\ q # <<>>
  <2>1. Away(p) \in T <=> Lead(q) \in T
    BY <1>3, <1>4, <1>8, <1>9, FillsPair
  <2>2. Away(q) \in T <=> Lead(p) \in T
    BY <1>3, <1>4, <1>8, <1>9, FillsPair
  <2>3. (Lead(q) \in T <=> h \in T) /\ (Lead(p) \in T <=> k \in T)
    BY <1>6, <1>9, <2>1, <2>2 DEF Threads, Onto
  <2>4. v = w => (Lead(p) \in T <=> Lead(q) \in T)
    BY <1>3, <1>8, <1>9, FillsPair
  <2>5. Along(x, T, w, k) /\ Along(x, T, v, h)
    BY <1>3, <1>9, <2>3 DEF Along
  <2>6. v = w => (h \in T <=> k \in T)
    BY <2>3, <2>4
  <2> QED
    BY <1>1, <1>8, <2>5, <2>6, FillsMade
<1>10. CASE p # <<>> /\ q = <<>>
  <2>1. Away(p) \in T <=> Lead(p) \in T
    BY <1>3, <1>5, <1>8, <1>10, FillsPair
  <2>2. (Lead(p) \in T <=> h \in T) /\ (h \in T <=> k \in T)
    BY <1>6, <1>10, <2>1 DEF Threads, Onto
  <2>3. Along(x, T, w, k) /\ Along(x, T, v, h)
    BY <1>3, <1>10, <2>2 DEF Along
  <2> QED
    BY <1>1, <1>8, <2>2, <2>3, FillsMade
<1>11. CASE p = <<>> /\ q # <<>>
  <2>1. Away(q) \in T <=> Lead(q) \in T
    BY <1>3, <1>5, <1>8, <1>11, FillsPair
  <2>2. (Lead(q) \in T <=> h \in T) /\ (h \in T <=> k \in T)
    BY <1>6, <1>11, <2>1 DEF Threads, Onto
  <2>3. Along(x, T, w, k) /\ Along(x, T, v, h)
    BY <1>3, <1>11, <2>2 DEF Along
  <2> QED
    BY <1>1, <1>8, <2>2, <2>3, FillsMade
<1>12. CASE p = <<>> /\ q = <<>>
  <2>1. h \in T <=> k \in T
    BY <1>6, <1>12 DEF Threads, Onto
  <2>2. Along(x, T, w, k) /\ Along(x, T, v, h)
    BY <1>12 DEF Along
  <2> QED
    BY <1>1, <1>8, <2>1, <2>2, FillsMade
<1> QED
  BY <1>9, <1>10, <1>11, <1>12

LEMMA SplitUnturned ==
    ASSUME NEW x, NEW y, NEW e, EdgeMore(y, x, e), Paired(x), Paired(y), Turned(x),
           NEW V, NEW a \in V, NEW c \in V, NEW p \in Seq(V), NEW q \in Seq(V),
           NEW v, NEW w, NewPair(x, e, a, c, v, w), NEW R, Linked(R),
           Content(Sides, x) = Join(Join(Ring(<<a>> \o p), Ring(<<c>> \o q)), R),
           Content(Sides, y) = Join(Ring(p \o q), R)
    PROVE  /\ Turned(y) /\ (Bare(y, w) <=> p = <<>> /\ q = <<>>)
           /\ Bare(y, v) <=> p = <<>> /\ q = <<>>
           /\ p = <<>> \/ q = <<>> => v = w
<1> DEFINE h == Half(a)
           k == Half(c)
           M == Ring(<<a>> \o p)
           N == Ring(<<c>> \o q)
           B == Join(M, N)
           C == Content(Sides, x)
           D == Content(Sides, y)
<1>1. /\ Halves(x) = Halves(y) \cup {h, k} /\ h # k /\ h \notin Halves(y) /\ k \notin Halves(y)
      /\ \A g \in Halves(y) : TailOf(x, g) = TailOf(y, g)
      /\ TailOf(x, h) = v /\ TailOf(x, k) = w /\ HeadOf(x, h) = w /\ HeadOf(x, k) = v
      /\ Opp(h) = k /\ Opp(k) = h
  BY NewHalves
<1>2. Within(y, p, q, R)
  BY LoopWithin
<1>3. /\ p # <<>> => Lead(p) \in Halves(y) /\ Away(p) \in Halves(y)
      /\ q # <<>> => Lead(q) \in Halves(y) /\ Away(q) \in Halves(y)
  BY <1>2, PieceEnds DEF Within
<1>4. /\ p # <<>> => TailOf(x, Lead(p)) = w
      /\ q # <<>> => TailOf(x, Lead(q)) = v
      /\ p = <<>> \/ q = <<>> => v = w
  <2>1. Fits(x, Round(<<a>> \o p)) /\ Fits(x, Round(<<c>> \o q))
    <3>1. M.links = Round(<<a>> \o p) /\ N.links = Round(<<c>> \o q)
      BY RingIs
    <3> HIDE DEF M, N, C
    <3>2. Fits(x, B.links) <=> Fits(x, M.links) /\ Fits(x, N.links)
      BY FitsJoin
    <3> HIDE DEF B
    <3>3. C = Join(B, R)
      BY DEF C, B, M, N
    <3> QED
      BY <3>1, <3>2, <3>3, PairedJoin DEF C
  <2>2. /\ p # <<>> => TailOf(x, Half(p[1])) = HeadOf(x, h)
        /\ q # <<>> => TailOf(x, Half(q[1])) = TailOf(x, h)
        /\ p = <<>> \/ q = <<>> => HeadOf(x, h) = TailOf(x, h)
    BY <1>1, <2>1, SplitFits
  <2> QED
    BY <1>1, <2>2 DEF Lead
<1>5. ASSUME NEW T
      PROVE  /\ Closed(C.links, T) <=>
                  /\ Inside(p, q, R, T)
                  /\ Threads(T, p, q, h, k)
             /\ Closed(D.links, T) <=>
                  /\ Inside(p, q, R, T)
                  /\ p # <<>> /\ q # <<>> => Onto(T, Away(p), Lead(q)) /\ Onto(T, Away(q), Lead(p))
                  /\ p # <<>> /\ q = <<>> => Onto(T, Away(p), Lead(p))
                  /\ p = <<>> /\ q # <<>> => Onto(T, Away(q), Lead(q))
  <2>1. Half(a) = h /\ Half(c) = k /\ Opp(h) = k /\ Opp(k) = h
    BY <1>1 DEF h, k
  <2>2. Closed(Join(Join(Ring(<<a>> \o p), Ring(<<c>> \o q)), R).links, T) <=>
           /\ Inside(p, q, R, T)
           /\ Threads(T, p, q, h, k)
    <3> HIDE DEF h, k
    <3> QED
      BY <2>1, SplitCloses
  <2>3. Closed(Join(Ring(p \o q), R).links, T) <=>
           /\ Inside(p, q, R, T)
           /\ p # <<>> /\ q # <<>> => Onto(T, Away(p), Lead(q)) /\ Onto(T, Away(q), Lead(p))
           /\ p # <<>> /\ q = <<>> => Onto(T, Away(p), Lead(p))
           /\ p = <<>> /\ q # <<>> => Onto(T, Away(q), Lead(q))
    BY LoopCloses
  <2>4. C = Join(B, R) /\ D = Join(Ring(p \o q), R)
    OBVIOUS
  <2> HIDE DEF C, D
  <2> QED
    BY <2>2, <2>3, <2>4 DEF B, M, N
<1> HIDE DEF h, k, B, M, N, C, D
<1>6. Turned(y)
  <2> SUFFICES ASSUME NEW S, Closed(D.links, S) PROVE Fills(y, S)
    BY DEF Turned, D
  <2> DEFINE g == (q # <<>> /\ Lead(q) \in S) \/ (q = <<>> /\ p # <<>> /\ Lead(p) \in S)
             l == (p # <<>> /\ Lead(p) \in S) \/ (p = <<>> /\ q # <<>> /\ Lead(q) \in S)
             T == Told(S, h, k, g, l)
  <2>1. /\ h \in T <=> g
        /\ k \in T <=> l
        /\ \A i : i # h /\ i # k => (i \in T <=> i \in S)
    <3>1. g \in BOOLEAN /\ l \in BOOLEAN
      OBVIOUS
    <3> HIDE DEF g, l
    <3> QED
      BY <1>1, <3>1, ToldIs
  <2> HIDE DEF T
  <2>2. \A i \in Halves(y) : i \in T <=> i \in S
    BY <1>1, <2>1
  <2>3. Inside(p, q, R, S) => Inside(p, q, R, T)
    BY <1>2, <2>2, InsideSame
  <2>4. /\ Inside(p, q, R, S)
        /\ p # <<>> /\ q # <<>> => Onto(S, Away(p), Lead(q)) /\ Onto(S, Away(q), Lead(p))
        /\ p # <<>> /\ q = <<>> => Onto(S, Away(p), Lead(p))
        /\ p = <<>> /\ q # <<>> => Onto(S, Away(q), Lead(q))
    BY <1>5
  <2>5. /\ p # <<>> => (Lead(p) \in T <=> Lead(p) \in S) /\ (Away(p) \in T <=> Away(p) \in S)
        /\ q # <<>> => (Lead(q) \in T <=> Lead(q) \in S) /\ (Away(q) \in T <=> Away(q) \in S)
    BY <1>3, <2>2
  <2>6. /\ Threads(T, p, q, h, k)
    BY <2>1, <2>4, <2>5 DEF Threads, Onto
  <2>7. Closed(C.links, T)
    BY <1>5, <2>3, <2>4, <2>6
  <2>8. Fills(x, T)
    BY <2>7, TurnedAt DEF C
  <2>9. Halves(y) \subseteq Halves(x)
    BY <1>1
  <2> QED
    BY <1>1, <2>2, <2>8, <2>9, FillsKilled
<1>7. ASSUME p = <<>>, q = <<>> PROVE Bare(y, v) /\ Bare(y, w)
  <2> DEFINE T == {h, k}
  <2>1. \A i \in Halves(y) : i \notin T
    BY <1>1
  <2>2. Inside(p, q, R, T)
    BY <1>2, <2>1, InsideApart
  <2>3. Threads(T, p, q, h, k)
    BY <1>7 DEF Threads, Onto
  <2>4. Closed(C.links, T)
    BY <1>5, <1>7, <2>2, <2>3
  <2>5. Fills(x, T)
    BY <2>4, TurnedAt DEF C
  <2>6. \A i \in Halves(x) : TailOf(x, i) = v => i \in T
    BY <1>1, <2>5 DEF Fills
  <2>7. v = w
    BY <1>4, <1>7
  <2> QED
    BY <1>1, <2>1, <2>6, <2>7 DEF Bare
<1>8. (p # <<>> => ~ Bare(y, w)) /\ (q # <<>> => ~ Bare(y, v))
  BY <1>1, <1>3, <1>4 DEF Bare
<1> QED
  BY <1>4, <1>6, <1>7, <1>8

-----------------------------------------------------------------------------
(***************************************************************************)
(* One loop of one face edited: what the rest of the builder walks.        *)
(***************************************************************************)

LEMMA BesidesLinks ==
    ASSUME NEW E, NEW V, NEW ls \in Seq(LoopsOn(E, V)), NEW J
    PROVE  Linked(Besides(Sides, ls, J))
<1> DEFINE I == (1 .. Len(ls)) \ J
           d == RingsOf(Sides, ls)
<1>1. ASSUME NEW i \in I PROVE Linked(d[i])
  <2>1. d[i] = Ring(ls[i].uses)
    BY DrawnIs DEF RingsOf
  <2>2. ls[i] \in LoopsOn(E, V)
    OBVIOUS
  <2> DEFINE s == ls[i].uses
  <2>3. s \in Seq(UsesOn(E))
    BY <2>2 DEF LoopsOn
  <2> HIDE DEF d, s
  <2> QED
    BY <2>1, <2>3, SeqLinks DEF s
<1>2. Besides(Sides, ls, J) = Total(I, d)
  BY DEF Besides
<1> HIDE DEF I, d
<1> QED
  BY <1>1, <1>2, TotalLinks

\* What a builder walks beside loop li of face f.
Aside(o, x, f, li) == Join(Besides(o, LoopsOf(x, f), {li}), Elsewhere(o, x, {f}))

LEMMA AsideLinks ==
    ASSUME NEW x, Sound(x), NEW f \in LiveSlots(x.f), NEW li
    PROVE  Linked(Aside(Sides, x, f, li))
<1> DEFINE E == LiveSlots(x.e)
           V == LiveSlots(x.v)
           ls == LoopsOf(x, f)
           J == {li}
           b1 == Besides(Sides, ls, J)
           K == {f}
           r1 == Elsewhere(Sides, x, K)
<1>1. ls \in Seq(LoopsOn(E, V))
  BY LoopsOfFace
<1>2. Aside(Sides, x, f, li) = Join(b1, r1)
  BY DEF Aside
<1> HIDE DEF E, V, ls, J, K
<1>3. Linked(b1)
  BY <1>1, BesidesLinks
<1>4. Linked(r1)
  BY ElsewhereLinks
<1> HIDE DEF b1, r1
<1> QED
  BY <1>2, <1>3, <1>4, JoinLinks

\* Loops ks, as ls but at place li.
Replaced(ls, ks, li) ==
    Len(ks) = Len(ls) /\ \A j \in 1 .. Len(ls) : j # li => ks[j] = ls[j]

LEMMA LoopReplaced ==
    ASSUME NEW o, NEW S, NEW ls \in Seq(S), NEW ks \in Seq(S), NEW li \in 1 .. Len(ls),
           Replaced(ls, ks, li)
    PROVE  LET B == Besides(o, ls, {li}) IN
           /\ Walked(o, ls) = Join(Drawn(o, ls[li]), B)
           /\ Walked(o, ks) = Join(Drawn(o, ks[li]), B)
<1> DEFINE J == {li}
<1>1. li \in 1 .. Len(ks) /\ Len(ks) = Len(ls)
  BY DEF Replaced
<1>2. Walked(o, ls) = Join(Drawn(o, ls[li]), Besides(o, ls, J))
  BY LoopSplit
<1>3. Walked(o, ks) = Join(Drawn(o, ks[li]), Besides(o, ks, J))
  BY <1>1, LoopSplit
<1>4. \A i \in (1 .. Len(ls)) \ J : ks[i] = ls[i]
  BY DEF Replaced
<1> HIDE DEF J
<1>5. Besides(o, ks, J) = Besides(o, ls, J)
  BY <1>1, <1>4, BesidesPut
<1> QED
  BY <1>2, <1>3, <1>5 DEF J

\* Loops over the edges and vertices of z.
Typed(z, ls) == ls \in Seq(LoopsOn(LiveSlots(z.e), LiveSlots(z.v)))

LEMMA WalkedAsIs ==
    ASSUME NEW o, NEW x, NEW y, NEW z, Sound(z), NEW f, NEW ls, Edited(x, y, f, ls), Typed(z, ls)
    PROVE  Walked(o, LoopsOf(y, f)) = Walked(o, ls)
<1> DEFINE E == LiveSlots(z.e)
           V == LiveSlots(z.v)
<1>1. E \in SUBSET Nat /\ V \in SUBSET Nat
  BY DEF Sound, IsPool
<1>2. ls \in Seq(LoopsOn(E, V)) /\ LoopsOf(y, f) = CanonicalLoops(ls)
  BY DEF Typed, Edited
<1> HIDE DEF E, V
<1>3. Walked(o, CanonicalLoops(ls)) = Walked(o, ls)
  BY <1>1, <1>2, WalkedCanonical
<1> QED
  BY <1>2, <1>3

LEMMA LoopOfFaceEdited ==
    ASSUME NEW x, NEW y, NEW z, Sound(z), NEW f \in LiveSlots(x.f), LiveSlots(y.f) = LiveSlots(x.f),
           NEW ks, Edited(x, y, f, ks), Typed(z, ks), Typed(z, LoopsOf(x, f)),
           NEW li \in 1 .. Len(LoopsOf(x, f)), Replaced(LoopsOf(x, f), ks, li)
    PROVE  \A o :
             /\ Content(o, x) = Join(Drawn(o, LoopsOf(x, f)[li]), Aside(o, x, f, li))
             /\ Content(o, y) = Join(Drawn(o, ks[li]), Aside(o, x, f, li))
<1> TAKE o
<1> DEFINE ls == LoopsOf(x, f)
           S == LoopsOn(LiveSlots(z.e), LiveSlots(z.v))
           R == Elsewhere(o, x, {f})
           B == Besides(o, ls, {li})
<1>0. \A g \in LiveSlots(x.f) \ {f} : LoopsOf(y, g) = LoopsOf(x, g)
  BY DEF Edited
<1>1. Content(o, x) = Join(Walked(o, ls), R) /\ Content(o, y) = Join(Walked(o, LoopsOf(y, f)), R)
  BY <1>0, OneFaceEdited
<1>2. Walked(o, LoopsOf(y, f)) = Walked(o, ks)
  BY WalkedAsIs
<1>3. ls \in Seq(S) /\ ks \in Seq(S)
  BY DEF Typed
<1>4. li \in 1 .. Len(ls) /\ Replaced(ls, ks, li)
  OBVIOUS
<1>5. Aside(o, x, f, li) = Join(B, R) /\ LoopsOf(x, f) = ls
  BY DEF Aside
<1> HIDE DEF ls, S, R
<1>6. Walked(o, ls) = Join(Drawn(o, ls[li]), B) /\ Walked(o, ks) = Join(Drawn(o, ks[li]), B)
  BY <1>3, <1>4, LoopReplaced
<1> HIDE DEF B
<1>7. Join(Join(Drawn(o, ls[li]), B), R) = Join(Drawn(o, ls[li]), Join(B, R))
  BY JoinAssociates
<1>8. Join(Join(Drawn(o, ks[li]), B), R) = Join(Drawn(o, ks[li]), Join(B, R))
  BY JoinAssociates
<1> QED
  BY <1>1, <1>2, <1>5, <1>6, <1>7, <1>8

LEMMA LoopAtPut ==
    ASSUME NEW S, NEW ls \in Seq(S), NEW li \in 1 .. Len(ls), NEW l
    PROVE  LET ks == [ls EXCEPT ![li] = l] IN Replaced(ls, ks, li) /\ ks[li] = l
<1> DEFINE T == S \cup {l}
           ks == [ls EXCEPT ![li] = l]
<1>1. l \in T /\ \A j \in 1 .. Len(ls) : j # li => ls[j] \in T
  OBVIOUS
<1> HIDE DEF T
<1>2. /\ Len(ks) = Len(ls) /\ ks[li] = l
      /\ \A j \in 1 .. Len(ls) : j # li => ks[j] = ls[j]
  BY <1>1, LoopPut
<1> HIDE DEF ks
<1>3. Replaced(ls, ks, li) /\ ks[li] = l
  BY <1>2 DEF Replaced
<1> QED
  BY <1>3 DEF ks

WithUses(ls, li, t) == [ls EXCEPT ![li].uses = t]

LEMMA UsesAtPut ==
    ASSUME NEW z, NEW ls, Typed(z, ls), NEW li \in 1 .. Len(ls), NEW t,
           NEW ks, ks = WithUses(ls, li, t)
    PROVE  Replaced(ls, ks, li) /\ ks[li].uses = t
<1> DEFINE S == LoopsOn(LiveSlots(z.e), LiveSlots(z.v))
           l == [ls[li] EXCEPT !.uses = t]
           js == [ls EXCEPT ![li] = l]
<1>1. ks = js
  BY DEF WithUses
<1>2. ls \in Seq(S)
  BY DEF Typed
<1>3. l.uses = t
  <2>1. ls[li] \in S
    BY <1>2
  <2> QED
    BY <2>1 DEF LoopsOn
<1> HIDE DEF S, l
<1>4. Replaced(ls, js, li) /\ js[li] = l
  BY <1>2, LoopAtPut
<1> QED
  BY <1>1, <1>3, <1>4

LEMMA LoopUses ==
    ASSUME NEW u, NEW v
    PROVE  Loop(u, v).uses = u /\ (u = <<>> => Loop(u, v).seed = v)
BY DEF Loop

LEMMA LoopSpot ==
    ASSUME NEW u, NEW v
    PROVE  Drawn(Spots, Loop(u, v)) = Spot(u, v)
<1> DEFINE l == Loop(u, v)
<1>1. l.uses = u /\ (u = <<>> => l.seed = v)
  BY LoopUses
<1> HIDE DEF l
<1>2. Drawn(Spots, l) = Spot(u, l.seed)
  BY <1>1, DrawnIs
<1>3. Spot(u, l.seed) = Spot(u, v)
  BY <1>1 DEF Spot
<1> QED
  BY <1>2, <1>3 DEF l

\* The junction at of a builder.
LEMMA JunctionIs ==
    ASSUME NEW x, Sound(x), NEW at, IsJunction(x, at)
    PROVE  /\ at.face \in LiveSlots(x.f) /\ at.li \in 1 .. Len(LoopsOf(x, at.face))
           /\ LoopAt(x, at).uses = UsesAt(x, at.face, at.li)
           /\ at.ci \in 0 .. Len(UsesAt(x, at.face, at.li))
           /\ LoopsOf(x, at.face)[at.li].uses = UsesAt(x, at.face, at.li)
BY LoopsOfFace DEF IsJunction, IsLoop, LoopAt, UsesAt

LEMMA NewUseHalf ==
    ASSUME NEW x, NEW y, EdgeMore(x, y, NewSlot(x.e)), NEW s \in Struts \cup Splits \cup Joins
    PROVE  /\ NewUse(x, FORWARD, s) \in UsesOn(LiveSlots(y.e))
           /\ NewUse(x, REVERSED, s) \in UsesOn(LiveSlots(y.e))
           /\ Half(NewUse(x, FORWARD, s)) = <<NewSlot(x.e), FORWARD>>
           /\ Half(NewUse(x, REVERSED, s)) = <<NewSlot(x.e), REVERSED>>
<1> DEFINE e == NewSlot(x.e)
           E == LiveSlots(y.e)
<1>1. e \in E
  BY DEF EdgeMore
<1>2. /\ NewUse(x, FORWARD, s) = Use(e, FORWARD, s.pcs[1])
      /\ NewUse(x, REVERSED, s) = Use(e, REVERSED, s.pcs[2])
  BY DEF NewUse, FORWARD, REVERSED
<1>3. Half(Use(e, FORWARD, s.pcs[1])) = <<e, FORWARD>>
      /\ Half(Use(e, REVERSED, s.pcs[2])) = <<e, REVERSED>>
  BY DEF Half, Use
<1> DEFINE one == 1
           two == 2
           d == FORWARD
           g == REVERSED
<1>4. one \in {1, 2} /\ two \in {1, 2} /\ d \in {FORWARD, REVERSED} /\ g \in {FORWARD, REVERSED}
  OBVIOUS
<1> HIDE DEF e, E, one, two, d, g
<1>5. Use(e, d, s.pcs[one]) \in UsesOn(E)
  BY <1>1, <1>4, NewUseIs
<1>6. Use(e, g, s.pcs[two]) \in UsesOn(E)
  BY <1>1, <1>4, NewUseIs
<1> QED
  BY <1>2, <1>3, <1>5, <1>6 DEF e, E, one, two, d, g

-----------------------------------------------------------------------------
(***************************************************************************)
(* The seeds of the loops that walk nothing are the vertices on no edge.   *)
(***************************************************************************)

\* Those of v and w that are on no edge of x.
Bares(x, v, w) == {u \in {v, w} : u \in LiveSlots(x.v) /\ Bare(x, u)}

LEMMA SpotsChange ==
    ASSUME NEW x, NEW y, Spotted(x), NEW v, NEW w,
           \A u : u # v /\ u # w => (Bare(y, u) <=> Bare(x, u)),
           LiveSlots(y.v) \cup {w} = LiveSlots(x.v) \cup {w},
           NEW A, NEW B, NEW N, Content(Spots, x) = Join(A, N), Content(Spots, y) = Join(B, N),
           A.halves = Bares(x, v, w), B.halves = Bares(y, v, w), B.twice = {}
    PROVE  Spotted(y)
<1> DEFINE C == Content(Spots, x)
           D == Content(Spots, y)
<1>1. /\ C.halves = A.halves \cup N.halves /\ D.halves = B.halves \cup N.halves
      /\ C.twice = {} <=> A.twice = {} /\ N.twice = {} /\ A.halves \cap N.halves = {}
      /\ D.twice = {} <=> B.twice = {} /\ N.twice = {} /\ B.halves \cap N.halves = {}
  BY JoinIs
<1>2. C.twice = {} /\ \A u : u \in C.halves <=> u \in LiveSlots(x.v) /\ Bare(x, u)
  BY DEF Spotted
<1>3. /\ \A u : u \in A.halves <=> (u = v \/ u = w) /\ u \in LiveSlots(x.v) /\ Bare(x, u)
      /\ \A u : u \in B.halves <=> (u = v \/ u = w) /\ u \in LiveSlots(y.v) /\ Bare(y, u)
  BY DEF Bares
<1> HIDE DEF C, D
<1>4. \A u : u \in N.halves <=> u # v /\ u # w /\ u \in LiveSlots(x.v) /\ Bare(x, u)
  BY <1>1, <1>2, <1>3
<1>5. \A u : u # v /\ u # w => (u \in LiveSlots(y.v) <=> u \in LiveSlots(x.v))
  OBVIOUS
<1>6. D.twice = {}
  BY <1>1, <1>2, <1>3, <1>4
<1>7. \A u : u \in D.halves <=> u \in LiveSlots(y.v) /\ Bare(y, u)
  BY <1>1, <1>3, <1>4, <1>5
<1>8. D.halves = {u \in LiveSlots(y.v) : Bare(y, u)}
  BY <1>7
<1> QED
  BY <1>6, <1>8 DEF Spotted, D

LEMMA SpotIs ==
    ASSUME NEW s, NEW v
    PROVE  /\ Spot(s, v).twice = {}
           /\ s = <<>> => Spot(s, v).halves = {v}
           /\ s # <<>> => Spot(s, v).halves = {}
BY DEF Spot, Dot, None

\* A make covers the spots at the ends of the edge it makes.
LEMMA SpotsTaken ==
    ASSUME NEW x, NEW y, NEW e, EdgeMore(x, y, e), NEW a, NEW c, NEW v, NEW w,
           NewPair(y, e, a, c, v, w), Spotted(x),
           LiveSlots(y.v) \cup {w} = LiveSlots(x.v) \cup {w},
           NEW A, NEW B, NEW N, Content(Spots, x) = Join(A, N), Content(Spots, y) = Join(B, N),
           A.halves = Bares(x, v, w), B.halves = {}, B.twice = {}
    PROVE  Spotted(y)
<1> DEFINE h == Half(a)
           k == Half(c)
<1>1. \A u : Bare(y, u) <=> Bare(x, u) /\ u # v /\ u # w
  <2>1. Half(a) = h /\ Half(c) = k
    OBVIOUS
  <2> HIDE DEF h, k
  <2> QED
    BY <2>1, NewHalves
<1>2. B.halves = Bares(y, v, w)
  BY <1>1 DEF Bares
<1>3. \A u : u # v /\ u # w => (Bare(y, u) <=> Bare(x, u))
  BY <1>1
<1> QED
  BY <1>2, <1>3, SpotsChange

\* A kill uncovers those at the ends of the edge it takes away.
LEMMA SpotsGiven ==
    ASSUME NEW x, NEW y, NEW e, EdgeMore(y, x, e), NEW a, NEW c, NEW v, NEW w,
           NewPair(x, e, a, c, v, w), Spotted(x),
           LiveSlots(y.v) \cup {w} = LiveSlots(x.v) \cup {w},
           NEW A, NEW B, NEW N, Content(Spots, x) = Join(A, N), Content(Spots, y) = Join(B, N),
           A.halves = {}, B.halves = Bares(y, v, w), B.twice = {}
    PROVE  Spotted(y)
<1> DEFINE h == Half(a)
           k == Half(c)
<1>1. \A u : Bare(x, u) <=> Bare(y, u) /\ u # v /\ u # w
  <2>1. Half(a) = h /\ Half(c) = k
    OBVIOUS
  <2> HIDE DEF h, k
  <2> QED
    BY <2>1, NewHalves
<1>2. A.halves = Bares(x, v, w)
  BY <1>1 DEF Bares
<1>3. \A u : u # v /\ u # w => (Bare(y, u) <=> Bare(x, u))
  BY <1>1
<1> QED
  BY <1>2, <1>3, SpotsChange

LEMMA NotBare ==
    ASSUME NEW x, NEW h \in Halves(x)
    PROVE  ~ Bare(x, TailOf(x, h))
BY DEF Bare

LEMMA NoHalf ==
    ASSUME NEW S, NEW s \in Seq(S)
    PROVE  HalvesIn(s) = {} <=> s = <<>>
<1>1. s = <<>> => HalvesIn(s) = {}
  BY NoUse
<1>2. ASSUME s # <<>> PROVE HalvesIn(s) # {}
  <2>1. 1 \in 1 .. Len(s)
    BY <1>2
  <2>2. Half(s[1]) \in HalvesIn(s)
    BY <2>1 DEF HalvesIn
  <2> QED
    BY <2>2
<1> QED
  BY <1>1, <1>2

LEMMA SameEmpty ==
    ASSUME NEW S, NEW T, NEW s \in Seq(S), NEW t \in Seq(T), Ring(s) = Ring(t)
    PROVE  s = <<>> <=> t = <<>>
<1>1. HalvesIn(s) = HalvesIn(t)
  BY RingIs
<1>2. HalvesIn(s) = {} <=> s = <<>>
  BY NoHalf
<1>3. HalvesIn(t) = {} <=> t = <<>>
  BY NoHalf
<1> QED
  BY <1>1, <1>2, <1>3

LEMMA LoopInContent ==
    ASSUME NEW x, Sound(x), NEW f \in LiveSlots(x.f), NEW li \in 1 .. Len(LoopsOf(x, f))
    PROVE  \A o : Content(o, x) = Join(Drawn(o, LoopsOf(x, f)[li]), Aside(o, x, f, li))
<1> TAKE o
<1> DEFINE ls == LoopsOf(x, f)
           S == LoopsOn(LiveSlots(x.e), LiveSlots(x.v))
           R == Elsewhere(o, x, {f})
           B == Besides(o, ls, {li})
           D == Drawn(o, ls[li])
<1>1. Content(o, x) = Join(Walked(o, ls), R)
  BY OneFaceEdited
<1>2. ls \in Seq(S) /\ li \in 1 .. Len(ls)
  BY LoopsOfFace
<1>3. Aside(o, x, f, li) = Join(B, R) /\ LoopsOf(x, f) = ls
  BY DEF Aside
<1> HIDE DEF ls, S, R
<1>4. Walked(o, ls) = Join(D, B)
  BY <1>2, LoopSplit
<1> HIDE DEF B
<1>5. Drawn(o, LoopsOf(x, f)[li]) = D
  BY <1>3
<1> HIDE DEF D
<1>6. Join(Join(D, B), R) = Join(D, Join(B, R))
  BY JoinAssociates
<1> QED
  BY <1>1, <1>3, <1>4, <1>5, <1>6

\* The vertex of a junction is on no edge exactly when its loop walks nothing,
\* and then it is the spot the loop is.
LEMMA SpotAt ==
    ASSUME NEW x, Sound(x), Paired(x), Spotted(x), NEW at, IsLoop(x, at), at.ci \in Nat,
           NEW A, A = Drawn(Spots, LoopAt(x, at)), NEW v, v = VertexAt(x, at)
    PROVE  /\ v \in LiveSlots(x.v) /\ (Bare(x, v) <=> LoopAt(x, at).uses = <<>>)
           /\ A.twice = {} /\ \A u : u \in A.halves <=> u = v /\ Bare(x, u)
<1> DEFINE f == at.face
           li == at.li
           l == LoopsOf(x, f)[li]
           s == UsesAt(x, f, li)
           N == Aside(Spots, x, f, li)
           R == Aside(Sides, x, f, li)
<1>1. f \in LiveSlots(x.f) /\ li \in 1 .. Len(LoopsOf(x, f)) /\ LoopAt(x, at) = l /\ l.uses = s
  BY LoopsOfFace DEF IsLoop, LoopAt, UsesAt
<1>2. v \in LiveSlots(x.v)
  BY VertexAtIsLive
<1>3. s \in Seq(UsesOn(LiveSlots(x.e)))
  BY <1>1, UsesTyped
<1>4. Content(Spots, x) = Join(A, N) /\ Content(Sides, x) = Join(Drawn(Sides, l), R)
  BY <1>1, LoopInContent
<1> HIDE DEF f, li, l, s, N, R
<1>5. A = Spot(s, l.seed) /\ Drawn(Sides, l) = Ring(s)
  BY <1>1, DrawnIs
<1>6. A.twice = {} /\ (s = <<>> => A.halves = {l.seed}) /\ (s # <<>> => A.halves = {})
  BY <1>5, SpotIs
<1>7. ASSUME s = <<>> PROVE v = l.seed /\ Bare(x, v)
  <2>1. v = l.seed
    BY <1>1, <1>7 DEF VertexAt
  <2>2. v \in Content(Spots, x).halves
    BY <1>4, <1>6, <1>7, <2>1, JoinIs
  <2> QED
    BY <2>1, <2>2 DEF Spotted
<1>8. ASSUME s # <<>> PROVE ~ Bare(x, v)
  <2> DEFINE k == (at.ci % Len(s)) + 1
             h == Half(s[k])
  <2>1. k \in 1 .. Len(s)
    <3>1. Len(s) \in Nat /\ Len(s) > 0
      BY <1>3, <1>8
    <3> QED
      BY <3>1
  <2>2. TailOf(x, h) = v
    BY <1>1, <1>8, VertexOfUse
  <2> HIDE DEF k
  <2>3. h \in HalvesIn(s)
    BY <2>1 DEF HalvesIn
  <2>4. h \in Halves(x)
    <3>1. HalvesIn(s) \subseteq Content(Sides, x).halves
      BY <1>4, <1>5, JoinIs, RingIs
    <3> QED
      BY <2>3, <3>1 DEF Paired
  <2> QED
    BY <2>2, <2>4, NotBare
<1> QED
  BY <1>1, <1>2, <1>6, <1>7, <1>8

LEMMA BareUnused ==
    ASSUME NEW x, Sound(x), NEW v, v \notin LiveSlots(x.v)
    PROVE  Bare(x, v)
<1>1. ASSUME NEW h \in Halves(x) PROVE TailOf(x, h) \in LiveSlots(x.v)
  <2>1. h[1] \in LiveSlots(x.e)
    BY DEF Halves
  <2> QED
    BY <2>1 DEF Sound, TailOf
<1> QED
  BY <1>1 DEF Bare

LEMMA BridgedSome ==
    ASSUME NEW S, NEW a \in S, NEW c \in S, NEW p \in Seq(S), NEW q \in Seq(S),
           NEW T, NEW t \in Seq(T), Ring(t) = Ring(Bridged(a, p, c, q))
    PROVE  t # <<>>
<1> DEFINE r == Bridged(a, p, c, q)
<1>1. r \in Seq(S) /\ r # <<>>
  BY BridgedIs
<1> HIDE DEF r
<1>2. t = <<>> <=> r = <<>>
  BY <1>1, SameEmpty DEF r
<1> QED
  BY <1>1, <1>2

-----------------------------------------------------------------------------
(***************************************************************************)
(* Every operator keeps a builder paired and fanned.                       *)
(***************************************************************************)

LEMMA MevKeeps ==
    ASSUME NEW x, Sound(x), Paired(x), Fanned(x), NEW at, NEW s \in Struts, CanMev(x, at, s)
    PROVE  Paired(Mev(x, at, s)) /\ Fanned(Mev(x, at, s))
<1> DEFINE y == Mev(x, at, s)
           e == NewSlot(x.e)
           f == at.face
           li == at.li
           v == VertexAt(x, at)
           w == NewSlot(x.v)
           ls == LoopsOf(x, f)
           uses == UsesAt(x, f, li)
           a == NewUse(x, FORWARD, s)
           c == NewUse(x, REVERSED, s)
           q == AllFrom(uses, at.ci)
           t == Strutted(uses, at.ci, a, c)
           ks == MevLoops(x, at, s)
           E == LiveSlots(y.e)
           V == LiveSlots(y.v)
           S == UsesOn(E)
           R == Aside(Sides, x, f, li)
<1>1. /\ Sound(y) /\ LiveSlots(y.f) = LiveSlots(x.f)
      /\ EdgeMore(x, y, e) /\ EdgeFrom(y, e, v, w) /\ Edited(x, y, f, ks)
      /\ LiveSlots(x.e) \subseteq E /\ LiveSlots(x.v) \subseteq V
      /\ V \cup {w} = LiveSlots(x.v) \cup {w} /\ w \notin LiveSlots(x.v)
  BY MevIs DEF SameFaces
<1>2. /\ f \in LiveSlots(x.f) /\ li \in 1 .. Len(ls) /\ at.ci \in 0 .. Len(uses)
      /\ LoopAt(x, at).uses = uses /\ ls[li].uses = uses
  BY JunctionIs DEF CanMev
<1>3. IsLoop(x, at) /\ at.ci \in Nat /\ ls[li] = LoopAt(x, at)
  BY <1>2 DEF CanMev, IsJunction, LoopAt
<1>4. Typed(y, ls) /\ uses \in Seq(S)
  <2>1. ls \in Seq(LoopsOn(LiveSlots(x.e), LiveSlots(x.v)))
    BY <1>2, LoopsOfFace
  <2>2. uses \in Seq(UsesOn(LiveSlots(x.e)))
    BY <1>2, UsesTyped
  <2> HIDE DEF ls, uses, E, V, y
  <2> QED
    BY <1>1, <2>1, <2>2, LoopSeqGrows, UsesGrow DEF Typed, E, V
<1>5. a \in S /\ c \in S /\ NewPair(y, e, a, c, v, w)
  BY <1>1, NewUseHalf DEF NewPair
<1>6. Typed(y, ks)
  BY <1>1 DEF Edited, Typed
<1>7. Replaced(ls, ks, li) /\ ks[li].uses = t
  <2>1. ks = WithUses(ls, li, t)
    BY <1>2 DEF MevLoops, WithUses
  <2> HIDE DEF ls, ks, t, y, li
  <2> QED
    BY <1>2, <1>4, <2>1, UsesAtPut
<1>8. Linked(R)
  BY <1>2, AsideLinks
<1> DEFINE A == Drawn(Spots, ls[li])
           B == Drawn(Spots, ks[li])
           N == Aside(Spots, x, f, li)
<1>18. /\ v \in LiveSlots(x.v) /\ (Bare(x, v) <=> uses = <<>>)
       /\ \A u : u \in A.halves <=> u = v /\ Bare(x, u)
  <2>1. A = Drawn(Spots, LoopAt(x, at)) /\ Spotted(x)
    BY <1>3 DEF Fanned
  <2> HIDE DEF A, v
  <2> QED
    BY <1>2, <1>3, <2>1, SpotAt DEF v
<1> HIDE DEF y, ls, uses, ks, E, V, R, t, a, c, e, v, w, A, B, N
<1>9. /\ Content(Sides, x) = Join(Ring(uses), R) /\ Content(Sides, y) = Join(Ring(ks[li].uses), R)
      /\ Content(Spots, x) = Join(A, N) /\ Content(Spots, y) = Join(B, N)
  <2> HIDE DEF f, li
  <2>1. /\ Content(Sides, x) = Join(Drawn(Sides, ls[li]), R)
        /\ Content(Sides, y) = Join(Drawn(Sides, ks[li]), R)
    BY <1>1, <1>2, <1>4, <1>6, <1>7, LoopOfFaceEdited DEF ls, R
  <2>2. /\ Content(Spots, x) = Join(Drawn(Spots, ls[li]), N)
        /\ Content(Spots, y) = Join(Drawn(Spots, ks[li]), N)
    BY <1>1, <1>2, <1>4, <1>6, <1>7, LoopOfFaceEdited DEF ls, N
  <2> QED
    BY <1>2, <2>1, <2>2, DrawnIs DEF A, B
<1>10. q \in Seq(S) /\ Ring(t) = Ring(Bridged(a, <<>>, c, q))
  BY <1>2, <1>4, <1>5, StruttedRing DEF t
<1>11. Ring(q) = Ring(uses)
  BY <1>2, <1>4, AllFromAlike, AlikeRings
<1>12. ASSUME q # <<>> PROVE TailOf(x, Half(q[1])) = v
  <2>1. uses # <<>> /\ q[1] = uses[(at.ci % Len(uses)) + 1]
    BY <1>2, <1>4, <1>12, FirstFrom
  <2>2. TailOf(x, Half(uses[(at.ci % Len(uses)) + 1])) = v
    BY <1>2, <2>1, VertexOfUse DEF v
  <2> QED
    BY <2>1, <2>2
<1> DEFINE p == <<>>
<1>13. p \in Seq(S) /\ (p # <<>> => TailOf(x, Half(p[1])) = w)
  OBVIOUS
<1>14. Join(Ring(p), Ring(q)) = Ring(uses)
  <2>1. Ring(p) = None /\ Join(None, Ring(q)) = Ring(q)
    BY RingIs
  <2> QED
    BY <1>11, <2>1
<1>19. q = <<>> => Bare(x, v)
  BY <1>2, <1>4, <1>18, FirstFrom
<1>20. ks[li].uses # <<>>
  <2>1. ks[li].uses \in Seq(S)
    <3>1. ks \in Seq(LoopsOn(E, V)) /\ li \in 1 .. Len(ks)
      BY <1>2, <1>6, <1>7 DEF Typed, Replaced, E, V
    <3>2. ks[li] \in LoopsOn(E, V)
      BY <3>1
    <3> QED
      BY <3>2 DEF LoopsOn
  <2> HIDE DEF q, S
  <2>2. p \in Seq(S) /\ Ring(ks[li].uses) = Ring(Bridged(a, p, c, q))
    BY <1>7, <1>10, <1>13
  <2> HIDE DEF p
  <2> QED
    BY <1>5, <1>10, <2>1, <2>2, BridgedSome
<1> HIDE DEF p, q, S
<1>15. Content(Sides, x) = Join(Join(Ring(p), Ring(q)), R)
  BY <1>9, <1>14
<1>16. Content(Sides, y) = Join(Ring(Bridged(a, p, c, q)), R)
  BY <1>7, <1>9, <1>10 DEF p
<1>17. Paired(y)
  BY <1>1, <1>5, <1>8, <1>10, <1>12, <1>13, <1>15, <1>16, BridgeMade
<1>21. Bare(x, w) /\ v # w
  BY <1>1, <1>18, BareUnused
<1>22. Turned(y)
  <2>1. Turned(x) /\ (q # <<>> => TailOf(x, Half(q[1])) = v)
    BY <1>12 DEF Fanned
  <2> QED
    BY <1>1, <1>5, <1>10, <1>13, <1>15, <1>16, <1>19, <1>21, <2>1, BridgeTurned
<1>23. B.halves = {} /\ B.twice = {}
  BY <1>20, DrawnIs, SpotIs DEF B
<1>24. A.halves = Bares(x, v, w)
  BY <1>1, <1>18 DEF Bares
<1>25. Spotted(y)
  <2>1. Spotted(x) /\ LiveSlots(y.v) \cup {w} = LiveSlots(x.v) \cup {w}
    BY <1>1 DEF Fanned, V
  <2> QED
    BY <1>1, <1>5, <1>9, <1>23, <1>24, <2>1, SpotsTaken
<1> QED
  BY <1>17, <1>22, <1>25 DEF y, Fanned

WithLoop(ls, li, l) == [ls EXCEPT ![li] = l]

LEMMA LoopAtWith ==
    ASSUME NEW z, NEW ls, Typed(z, ls), NEW li \in 1 .. Len(ls), NEW l, NEW ks, ks = WithLoop(ls, li, l)
    PROVE  Replaced(ls, ks, li) /\ ks[li] = l
<1> DEFINE S == LoopsOn(LiveSlots(z.e), LiveSlots(z.v))
           js == [ls EXCEPT ![li] = l]
<1>1. ks = js
  BY DEF WithLoop
<1>2. ls \in Seq(S)
  BY DEF Typed
<1> HIDE DEF S
<1>3. Replaced(ls, js, li) /\ js[li] = l
  BY <1>2, LoopAtPut
<1> QED
  BY <1>1, <1>3

LEMMA JoinFour ==
    ASSUME NEW P, NEW Q, NEW B, NEW R
    PROVE  /\ Join(Join(P, Join(Q, B)), R) = Join(Join(P, Q), Join(B, R))
           /\ Join(Join(Q, Join(P, B)), R) = Join(Join(P, Q), Join(B, R))
<1>1. Join(Join(P, Join(Q, B)), R) = Join(Join(Join(P, Q), B), R)
  BY JoinAssociates
<1>2. Join(Join(Join(P, Q), B), R) = Join(Join(P, Q), Join(B, R))
  BY JoinAssociates
<1>3. Join(Join(Q, Join(P, B)), R) = Join(Join(Join(Q, P), B), R)
  BY JoinAssociates
<1>4. Join(Q, P) = Join(P, Q)
  BY JoinCommutes
<1> QED
  BY <1>1, <1>2, <1>3, <1>4

\* The loop an edge is walked along in, and against.
LEMMA UsesOfEdge ==
    ASSUME NEW x, Sound(x), NEW e, UsedBothWays(x, e)
    PROVE  LET plus == UseOf(x, e, FORWARD)
               minus == UseOf(x, e, REVERSED)
               S == UsesOn(LiveSlots(x.e)) IN
           /\ plus.face \in LiveSlots(x.f) /\ plus.li \in 1 .. Len(LoopsOf(x, plus.face))
           /\ plus.ci \in Nat /\ plus.ci + 1 \in 1 .. Len(UsesAt(x, plus.face, plus.li))
           /\ UsesAt(x, plus.face, plus.li) \in Seq(S)
           /\ minus.face \in LiveSlots(x.f) /\ minus.li \in 1 .. Len(LoopsOf(x, minus.face))
           /\ minus.ci \in Nat /\ minus.ci + 1 \in 1 .. Len(UsesAt(x, minus.face, minus.li))
           /\ UsesAt(x, minus.face, minus.li) \in Seq(S)
           /\ OldPair(e, UsesAt(x, plus.face, plus.li)[plus.ci + 1],
                         UsesAt(x, minus.face, minus.li)[minus.ci + 1])
<1> DEFINE d == FORWARD
           g == REVERSED
           plus == UseOf(x, e, d)
           minus == UseOf(x, e, g)
<1>1. d \in {FORWARD, REVERSED} /\ g \in {FORWARD, REVERSED}
  OBVIOUS
<1> HIDE DEF d, g
<1>2. /\ plus.face \in LiveSlots(x.f) /\ plus.li \in 1 .. Len(LoopsOf(x, plus.face))
      /\ plus.ci \in Nat /\ plus.ci + 1 \in 1 .. Len(UsesAt(x, plus.face, plus.li))
      /\ UsesAt(x, plus.face, plus.li)[plus.ci + 1].edge = e
      /\ UsesAt(x, plus.face, plus.li)[plus.ci + 1].dir = d
  BY <1>1, BothUses
<1>3. /\ minus.face \in LiveSlots(x.f) /\ minus.li \in 1 .. Len(LoopsOf(x, minus.face))
      /\ minus.ci \in Nat /\ minus.ci + 1 \in 1 .. Len(UsesAt(x, minus.face, minus.li))
      /\ UsesAt(x, minus.face, minus.li)[minus.ci + 1].edge = e
      /\ UsesAt(x, minus.face, minus.li)[minus.ci + 1].dir = g
  BY <1>1, BothUses
<1> HIDE DEF plus, minus
<1>4. /\ UsesAt(x, plus.face, plus.li) \in Seq(UsesOn(LiveSlots(x.e)))
      /\ UsesAt(x, minus.face, minus.li) \in Seq(UsesOn(LiveSlots(x.e)))
  BY <1>2, <1>3, UsesTyped
<1>5. OldPair(e, UsesAt(x, plus.face, plus.li)[plus.ci + 1],
                 UsesAt(x, minus.face, minus.li)[minus.ci + 1])
  BY <1>2, <1>3 DEF OldPair, Half, d, g
<1> QED
  BY <1>2, <1>3, <1>4, <1>5 DEF plus, minus, d, g

\* Loops over the edges and vertices left are over those there were.
LEMMA TypedBefore ==
    ASSUME NEW x, NEW y, NEW ls, Typed(y, ls),
           LiveSlots(y.e) \subseteq LiveSlots(x.e), LiveSlots(y.v) \subseteq LiveSlots(x.v)
    PROVE  Typed(x, ls)
<1> DEFINE D == LiveSlots(y.e)
           W == LiveSlots(y.v)
           E == LiveSlots(x.e)
           V == LiveSlots(x.v)
<1>1. D \subseteq E /\ W \subseteq V /\ ls \in Seq(LoopsOn(D, W))
  BY DEF Typed
<1> HIDE DEF D, W, E, V
<1>2. ls \in Seq(LoopsOn(E, V))
  BY <1>1, LoopSeqGrows
<1> QED
  BY <1>2 DEF Typed, E, V

LEMMA FaceTyped ==
    ASSUME NEW x, Sound(x), NEW f \in LiveSlots(x.f)
    PROVE  Typed(x, LoopsOf(x, f))
BY LoopsOfFace DEF Typed

LEMMA KevKeeps ==
    ASSUME NEW x, Sound(x), Paired(x), Fanned(x), NEW e, CanKev(x, e)
    PROVE  Paired(Kev(x, e)) /\ Fanned(Kev(x, e))
<1> DEFINE y == Kev(x, e)
           plus == UseOf(x, e, FORWARD)
           minus == UseOf(x, e, REVERSED)
           f == plus.face
           li == plus.li
           m == minus.ci
           pi == plus.ci
           uses == UsesAt(x, f, li)
           ls == LoopsOf(x, f)
           a == uses[pi + 1]
           c == uses[m + 1]
           q == WithoutStrut(uses, pi)
           start == x.e.at[e].start
           end == x.e.at[e].end
           ks == KevLoops(x, e)
           S == UsesOn(LiveSlots(x.e))
           R == Aside(Sides, x, f, li)
           A == Drawn(Spots, ls[li])
           B == Drawn(Spots, ks[li])
           N == Aside(Spots, x, f, li)
<1>1. /\ LiveSlots(y.f) = LiveSlots(x.f)
      /\ LiveSlots(y.v) \subseteq LiveSlots(x.v) /\ LiveSlots(y.e) \subseteq LiveSlots(x.e)
      /\ EdgeMore(y, x, e) /\ Edited(x, y, f, ks)
      /\ LiveSlots(y.v) \cup {end} = LiveSlots(x.v) \cup {end}
      /\ start \in LiveSlots(y.v) /\ end \notin LiveSlots(y.v)
  <2>1. /\ SameFaces(x, y) /\ LiveSlots(y.v) = LiveSlots(x.v) \ {end}
        /\ LiveSlots(y.e) = LiveSlots(x.e) \ {e}
        /\ EdgeMore(y, x, e) /\ Edited(x, y, f, ks)
        /\ start \in LiveSlots(x.v) /\ start # end
    BY KevIs
  <2> HIDE DEF y, f, ks, start, end
  <2> QED
    BY <2>1 DEF SameFaces
<1>2. /\ UsedBothWays(x, e) /\ f = minus.face /\ li = minus.li
      /\ pi # m /\ (pi + 1) % Len(uses) = m
  BY TheStrut
<1>3. /\ f \in LiveSlots(x.f) /\ li \in 1 .. Len(ls)
      /\ pi \in Nat /\ pi + 1 \in 1 .. Len(uses) /\ uses \in Seq(S)
      /\ m \in Nat /\ m + 1 \in 1 .. Len(uses) /\ OldPair(e, a, c)
  BY <1>2, UsesOfEdge
<1>4. Typed(x, ks)
  <2>1. Typed(y, ks)
    BY <1>1 DEF Edited, Typed
  <2> HIDE DEF y, ks
  <2> QED
    BY <1>1, <2>1, TypedBefore
<1>5. Typed(x, ls)
  BY <1>3, FaceTyped
<1>6. ks = WithLoop(ls, li, Loop(q, start))
  BY DEF KevLoops, WithLoop
<1>17. NewPair(x, e, a, c, start, end)
  <2> HIDE DEF a, c
  <2> QED
    BY <1>1, <1>3 DEF NewPair, OldPair, EdgeFrom, EdgeMore
<1> HIDE DEF y, plus, minus, f, li, m, pi, ls, ks, uses, start, end, S, R, A, B, N
<1>7. Replaced(ls, ks, li) /\ ks[li].uses = q /\ B = Spot(q, start)
  <2> DEFINE l == Loop(q, start)
  <2>1. ks = WithLoop(ls, li, l) /\ l.uses = q /\ Drawn(Spots, l) = Spot(q, start)
    BY <1>6, LoopUses, LoopSpot
  <2> HIDE DEF l, q
  <2>2. Replaced(ls, ks, li) /\ ks[li] = l
    BY <1>3, <1>5, <2>1, LoopAtWith
  <2> QED
    BY <2>1, <2>2 DEF B
<1>8. Linked(R)
  BY <1>3, AsideLinks DEF R
<1>9. /\ Content(Sides, x) = Join(Ring(uses), R) /\ Content(Sides, y) = Join(Ring(ks[li].uses), R)
      /\ Content(Spots, x) = Join(A, N) /\ Content(Spots, y) = Join(B, N) /\ A.halves = {}
  <2>1. /\ Content(Sides, x) = Join(Drawn(Sides, ls[li]), R)
        /\ Content(Sides, y) = Join(Drawn(Sides, ks[li]), R)
    BY <1>1, <1>3, <1>4, <1>5, <1>7, LoopOfFaceEdited DEF ls, R
  <2>2. /\ Content(Spots, x) = Join(Drawn(Spots, ls[li]), N)
        /\ Content(Spots, y) = Join(Drawn(Spots, ks[li]), N)
    BY <1>1, <1>3, <1>4, <1>5, <1>7, LoopOfFaceEdited DEF ls, N
  <2>3. ls[li].uses = uses /\ uses # <<>>
    BY <1>3 DEF ls, uses, UsesAt
  <2> QED
    BY <2>1, <2>2, <2>3, DrawnIs, SpotIs DEF A, B
<1>10. q \in Seq(S) /\ Ring(uses) = Ring(Bridged(a, <<>>, c, q))
  BY <1>2, <1>3, StrutRing
<1>11. a \in S /\ c \in S
  BY <1>3
<1> DEFINE p == <<>>
<1>12. p \in Seq(S)
  OBVIOUS
<1>13. Join(Ring(p), Ring(q)) = Ring(q)
  <2>1. Ring(p) = None /\ Join(None, Ring(q)) = Ring(q)
    BY RingIs
  <2> QED
    BY <2>1
<1> HIDE DEF p, q, a, c
<1>14. Content(Sides, y) = Join(Join(Ring(p), Ring(q)), R)
  BY <1>7, <1>9, <1>13
<1>15. Content(Sides, x) = Join(Ring(Bridged(a, p, c, q)), R)
  BY <1>9, <1>10 DEF p
<1>16. Paired(y)
  BY <1>1, <1>3, <1>8, <1>10, <1>11, <1>12, <1>14, <1>15, BridgeKilled
<1>18. Turned(y) /\ (Bare(y, start) <=> q = <<>>)
  <2>1. Turned(x)
    BY DEF Fanned
  <2> QED
    BY <1>1, <1>8, <1>10, <1>11, <1>12, <1>14, <1>15, <1>16, <1>17, <2>1, BridgeUnturned
<1>19. B.halves = Bares(y, start, end) /\ B.twice = {}
  <2>1. B.twice = {} /\ (q = <<>> => B.halves = {start}) /\ (q # <<>> => B.halves = {})
    BY <1>7, SpotIs
  <2> QED
    BY <1>1, <1>18, <2>1 DEF Bares
<1>20. Spotted(y)
  <2>1. Spotted(x)
    BY DEF Fanned
  <2> QED
    BY <1>1, <1>9, <1>17, <1>19, <2>1, SpotsGiven
<1> QED
  BY <1>16, <1>18, <1>20 DEF y, Fanned

\* kemr: the loop of the edge is put, and the ring added.
LEMMA FaceRingAdded ==
    ASSUME NEW x, NEW y, Sound(x), NEW f \in LiveSlots(x.f), LiveSlots(y.f) = LiveSlots(x.f),
           NEW ks, Typed(x, ks), NEW l \in LoopsOn(LiveSlots(x.e), LiveSlots(x.v)),
           Edited(x, y, f, Append(ks, l)),
           NEW li \in 1 .. Len(LoopsOf(x, f)), Replaced(LoopsOf(x, f), ks, li)
    PROVE  \A o :
             /\ Content(o, x) = Join(Drawn(o, LoopsOf(x, f)[li]), Aside(o, x, f, li))
             /\ Content(o, y) = Join(Join(Drawn(o, l), Drawn(o, ks[li])), Aside(o, x, f, li))
<1> TAKE o
<1> DEFINE ls == LoopsOf(x, f)
           S == LoopsOn(LiveSlots(x.e), LiveSlots(x.v))
           R == Elsewhere(o, x, {f})
           B == Besides(o, ls, {li})
           js == Append(ks, l)
<1>0. \A g \in LiveSlots(x.f) \ {f} : LoopsOf(y, g) = LoopsOf(x, g)
  BY DEF Edited
<1>1. Content(o, x) = Join(Walked(o, ls), R) /\ Content(o, y) = Join(Walked(o, LoopsOf(y, f)), R)
  BY <1>0, OneFaceEdited
<1>2. ls \in Seq(S) /\ ks \in Seq(S) /\ l \in S
  BY FaceTyped DEF Typed
<1>3. Typed(x, js)
  <2> HIDE DEF S
  <2>1. js \in Seq(S)
    BY <1>2
  <2> HIDE DEF js
  <2> QED
    BY <2>1 DEF Typed, S
<1>4. Edited(x, y, f, js)
  OBVIOUS
<1>5. li \in 1 .. Len(ls) /\ Replaced(ls, ks, li)
  OBVIOUS
<1>6. Aside(o, x, f, li) = Join(B, R) /\ LoopsOf(x, f) = ls
  BY DEF Aside
<1> HIDE DEF ls, S, R
<1>7. Walked(o, js) = Join(Drawn(o, l), Walked(o, ks))
  BY <1>2, WalkedAppend
<1> HIDE DEF js
<1>8. Walked(o, LoopsOf(y, f)) = Walked(o, js)
  BY <1>3, <1>4, WalkedAsIs
<1>9. Walked(o, ls) = Join(Drawn(o, ls[li]), B) /\ Walked(o, ks) = Join(Drawn(o, ks[li]), B)
  BY <1>2, <1>5, LoopReplaced
<1> HIDE DEF B
<1> DEFINE P == Drawn(o, l)
           Q == Drawn(o, ks[li])
           O == Drawn(o, ls[li])
<1>10. Content(o, x) = Join(Join(O, B), R) /\ Content(o, y) = Join(Join(P, Join(Q, B)), R)
  BY <1>1, <1>7, <1>8, <1>9
<1>11. Aside(o, x, f, li) = Join(B, R) /\ Drawn(o, LoopsOf(x, f)[li]) = O
  BY <1>6
<1> HIDE DEF P, Q, O
<1>12. Join(Join(O, B), R) = Join(O, Join(B, R))
  BY JoinAssociates
<1>13. Join(Join(P, Join(Q, B)), R) = Join(Join(P, Q), Join(B, R))
  BY JoinFour
<1>14. Content(o, x) = Join(O, Aside(o, x, f, li)) /\ Content(o, y) = Join(Join(P, Q), Aside(o, x, f, li))
  BY <1>10, <1>11, <1>12, <1>13
<1> QED
  BY <1>11, <1>14 DEF P, Q

LEMMA LoopGrows ==
    ASSUME NEW x, NEW y, NEW l \in LoopsOn(LiveSlots(y.e), LiveSlots(y.v)),
           LiveSlots(y.e) \subseteq LiveSlots(x.e), LiveSlots(y.v) \subseteq LiveSlots(x.v)
    PROVE  l \in LoopsOn(LiveSlots(x.e), LiveSlots(x.v))
<1> DEFINE D == LiveSlots(y.e)
           W == LiveSlots(y.v)
           E == LiveSlots(x.e)
           V == LiveSlots(x.v)
<1>1. D \subseteq E /\ W \subseteq V /\ l \in LoopsOn(D, W)
  OBVIOUS
<1> HIDE DEF D, W, E, V
<1>2. l \in LoopsOn(E, V)
  BY <1>1, LoopsGrow
<1> QED
  BY <1>2 DEF E, V

LEMMA KemrKeeps ==
    ASSUME NEW x, Sound(x), Paired(x), Fanned(x), NEW e, CanKemr(x, e)
    PROVE  Paired(Kemr(x, e)) /\ Fanned(Kemr(x, e))
<1> DEFINE y == Kemr(x, e)
           plus == UseOf(x, e, FORWARD)
           minus == UseOf(x, e, REVERSED)
           f == plus.face
           li == plus.li
           m == minus.ci
           pi == plus.ci
           uses == UsesAt(x, f, li)
           ls == LoopsOf(x, f)
           a == uses[pi + 1]
           c == uses[m + 1]
           p == KemrRing(x, e)
           q == KemrRest(x, e)
           start == x.e.at[e].start
           end == x.e.at[e].end
           l == Loop(p, end)
           ks == KemrPut(x, e)
           S == UsesOn(LiveSlots(x.e))
           R == Aside(Sides, x, f, li)
           A == Drawn(Spots, ls[li])
           P == Drawn(Spots, l)
           Q == Drawn(Spots, ks[li])
           N == Aside(Spots, x, f, li)
<1>1. /\ LiveSlots(y.f) = LiveSlots(x.f)
      /\ LiveSlots(y.v) \subseteq LiveSlots(x.v) /\ LiveSlots(y.e) \subseteq LiveSlots(x.e)
      /\ EdgeMore(y, x, e) /\ Edited(x, y, f, Append(ks, l))
      /\ Typed(y, ks) /\ l \in LoopsOn(LiveSlots(y.e), LiveSlots(y.v))
      /\ LiveSlots(y.v) = LiveSlots(x.v)
  <2>1. /\ LiveSlots(y.f) = LiveSlots(x.f) /\ y.v = x.v
        /\ LiveSlots(y.e) = LiveSlots(x.e) \ {e}
        /\ EdgeMore(y, x, e)
        /\ ks \in Seq(LoopsOn(LiveSlots(y.e), LiveSlots(y.v)))
        /\ l \in LoopsOn(LiveSlots(y.e), LiveSlots(y.v))
        /\ Edited(x, y, f, Append(ks, l))
    BY KemrIs
  <2> HIDE DEF y, f, ks, l
  <2> QED
    BY <2>1 DEF Typed
<1>2. /\ UsedBothWays(x, e) /\ f = minus.face /\ li = minus.li
  BY DEF CanKemr
<1>3. /\ f \in LiveSlots(x.f) /\ li \in 1 .. Len(ls)
      /\ pi \in Nat /\ pi + 1 \in 1 .. Len(uses) /\ uses \in Seq(S)
      /\ m \in Nat /\ m + 1 \in 1 .. Len(uses) /\ OldPair(e, a, c)
  BY <1>2, UsesOfEdge
<1>0. pi # m
  <2>1. Half(a) # Half(c)
    <3> DEFINE h == <<e, FORWARD>>
               k == <<e, REVERSED>>
    <3>1. h # k
      BY <1>1, HalvesMore
    <3> QED
      BY <1>3, <3>1 DEF OldPair
  <2> QED
    BY <2>1
<1>4. Typed(x, ks) /\ l \in LoopsOn(LiveSlots(x.e), LiveSlots(x.v))
  <2> HIDE DEF y, ks, l
  <2> QED
    BY <1>1, TypedBefore, LoopGrows
<1>5. Typed(x, ls)
  BY <1>3, FaceTyped
<1>6. ks = WithLoop(ls, li, Loop(q, start)) /\ l.uses = p /\ P = Spot(p, end)
  BY LoopUses, LoopSpot DEF KemrPut, WithLoop
<1>10. p = Around(uses, (pi + 1) % Len(uses), m) /\ q = Around(uses, (m + 1) % Len(uses), pi)
  BY DEF KemrRing, KemrRest
<1>17. NewPair(x, e, a, c, start, end)
  <2> HIDE DEF a, c
  <2> QED
    BY <1>1, <1>3 DEF NewPair, OldPair, EdgeFrom, EdgeMore
<1>18. start \in LiveSlots(x.v) /\ end \in LiveSlots(x.v)
  <2>1. e \in LiveSlots(x.e)
    BY <1>2 DEF UsedBothWays
  <2> QED
    BY <2>1 DEF Sound
<1> HIDE DEF y, plus, minus, f, li, m, pi, ls, ks, uses, start, end, S, R, p, q, l, A, P, Q, N
<1>7. Replaced(ls, ks, li) /\ ks[li].uses = q /\ Q = Spot(q, start)
  <2> DEFINE k == Loop(q, start)
  <2>1. ks = WithLoop(ls, li, k) /\ k.uses = q /\ Drawn(Spots, k) = Spot(q, start)
    BY <1>6, LoopUses, LoopSpot
  <2> HIDE DEF k
  <2>2. Replaced(ls, ks, li) /\ ks[li] = k
    BY <1>3, <1>5, <2>1, LoopAtWith
  <2> QED
    BY <2>1, <2>2 DEF Q
<1>8. Linked(R)
  BY <1>3, AsideLinks DEF R
<1>9. /\ Content(Sides, x) = Join(Ring(uses), R)
      /\ Content(Sides, y) = Join(Join(Ring(l.uses), Ring(ks[li].uses)), R)
      /\ Content(Spots, x) = Join(A, N) /\ Content(Spots, y) = Join(Join(P, Q), N)
      /\ A.halves = {}
  <2>1. /\ Content(Sides, x) = Join(Drawn(Sides, ls[li]), R)
        /\ Content(Sides, y) = Join(Join(Drawn(Sides, l), Drawn(Sides, ks[li])), R)
    BY <1>1, <1>3, <1>4, <1>5, <1>7, FaceRingAdded DEF ls, R
  <2>2. /\ Content(Spots, x) = Join(Drawn(Spots, ls[li]), N)
        /\ Content(Spots, y) = Join(Join(Drawn(Spots, l), Drawn(Spots, ks[li])), N)
    BY <1>1, <1>3, <1>4, <1>5, <1>7, FaceRingAdded DEF ls, N
  <2>3. ls[li].uses = uses /\ uses # <<>>
    BY <1>3 DEF ls, uses, UsesAt
  <2> QED
    BY <2>1, <2>2, <2>3, DrawnIs, SpotIs DEF A, P, Q
<1>11. p \in Seq(S) /\ q \in Seq(S) /\ Ring(uses) = Ring(Bridged(a, p, c, q))
  BY <1>0, <1>3, <1>10, BetweenRing
<1>12. a \in S /\ c \in S
  BY <1>3
<1> HIDE DEF a, c
<1>14. Content(Sides, y) = Join(Join(Ring(p), Ring(q)), R)
  BY <1>6, <1>7, <1>9
<1>15. Content(Sides, x) = Join(Ring(Bridged(a, p, c, q)), R)
  BY <1>9, <1>11
<1>16. Paired(y)
  BY <1>1, <1>3, <1>8, <1>11, <1>12, <1>14, <1>15, BridgeKilled
<1>19. /\ Turned(y) /\ (Bare(y, end) <=> p = <<>>) /\ (Bare(y, start) <=> q = <<>>)
       /\ p = <<>> \/ q = <<>> => start # end
  <2>1. Turned(x)
    BY DEF Fanned
  <2> QED
    BY <1>1, <1>8, <1>11, <1>12, <1>14, <1>15, <1>16, <1>17, <2>1, BridgeUnturned
<1> DEFINE B == Join(P, Q)
<1>20. B.halves = Bares(y, start, end) /\ B.twice = {}
  <2>1. P.twice = {} /\ (p = <<>> => P.halves = {end}) /\ (p # <<>> => P.halves = {})
    BY <1>6, SpotIs
  <2>2. Q.twice = {} /\ (q = <<>> => Q.halves = {start}) /\ (q # <<>> => Q.halves = {})
    BY <1>7, SpotIs
  <2>3. B.halves = P.halves \cup Q.halves /\ (B.twice = {} <=> P.halves \cap Q.halves = {})
    BY <2>1, <2>2, JoinIs
  <2> HIDE DEF B
  <2> QED
    BY <1>1, <1>18, <1>19, <2>1, <2>2, <2>3 DEF Bares
<1>21. Spotted(y)
  <2>1. Spotted(x) /\ Content(Spots, y) = Join(B, N)
    BY <1>9 DEF Fanned
  <2> HIDE DEF B
  <2> QED
    BY <1>1, <1>9, <1>17, <1>20, <2>1, SpotsGiven
<1> QED
  BY <1>16, <1>19, <1>21 DEF y, Fanned

\* What a builder walks beside loops i and j of face f.
AsideBoth(o, x, f, i, j) == Join(Besides(o, LoopsOf(x, f), {i} \cup {j}), Elsewhere(o, x, {f}))

LEMMA AsideBothLinks ==
    ASSUME NEW x, Sound(x), NEW f \in LiveSlots(x.f), NEW i, NEW j
    PROVE  Linked(AsideBoth(Sides, x, f, i, j))
<1> DEFINE E == LiveSlots(x.e)
           V == LiveSlots(x.v)
           ls == LoopsOf(x, f)
           J == {i} \cup {j}
           b1 == Besides(Sides, ls, J)
           K == {f}
           r1 == Elsewhere(Sides, x, K)
<1>1. ls \in Seq(LoopsOn(E, V))
  BY LoopsOfFace
<1>2. AsideBoth(Sides, x, f, i, j) = Join(b1, r1)
  BY DEF AsideBoth
<1> HIDE DEF E, V, ls, J, K
<1>3. Linked(b1)
  BY <1>1, BesidesLinks
<1>4. Linked(r1)
  BY ElsewhereLinks
<1> HIDE DEF b1, r1
<1> QED
  BY <1>2, <1>3, <1>4, JoinLinks

\* Loop i put and loop j taken away.
LEMMA LoopsJoined ==
    ASSUME NEW o, NEW S, NEW ls \in Seq(S), NEW ks \in Seq(S), NEW i \in 1 .. Len(ls), NEW j \in 1 .. Len(ls),
           i # j, Replaced(ls, ks, i)
    PROVE  LET B == Besides(o, ls, {i} \cup {j}) IN
           /\ Walked(o, ls) = Join(Drawn(o, ls[i]), Join(Drawn(o, ls[j]), B))
           /\ Walked(o, RemoveAt(ks, j)) = Join(Drawn(o, ks[i]), B)
<1> DEFINE I == {i}
           J == {j}
           K == {i} \cup {j}
<1>1. /\ Len(ks) = Len(ls) /\ i \in 1 .. Len(ks) /\ j \in 1 .. Len(ks)
      /\ j \notin I /\ i \notin J /\ I \cup {j} = K /\ J \cup {i} = K
  BY DEF Replaced
<1>2. \A k \in (1 .. Len(ls)) \ K : ks[k] = ls[k]
  BY DEF Replaced
<1>3. Walked(o, ls) = Join(Drawn(o, ls[i]), Besides(o, ls, I))
  BY LoopSplit
<1>4. Walked(o, RemoveAt(ks, j)) = Besides(o, ks, J)
  BY <1>1, WalkedRemoved
<1> HIDE DEF I, J, K
<1>5. Besides(o, ls, I) = Join(Drawn(o, ls[j]), Besides(o, ls, I \cup {j}))
  BY <1>1, BesidesSplit
<1>6. Besides(o, ks, J) = Join(Drawn(o, ks[i]), Besides(o, ks, J \cup {i}))
  BY <1>1, BesidesSplit
<1>7. Besides(o, ks, K) = Besides(o, ls, K)
  BY <1>1, <1>2, BesidesPut
<1> QED
  BY <1>1, <1>3, <1>4, <1>5, <1>6, <1>7 DEF K

LEMMA FaceRingJoined ==
    ASSUME NEW x, NEW y, NEW z, Sound(z), NEW f \in LiveSlots(x.f), LiveSlots(y.f) = LiveSlots(x.f),
           NEW ks, Typed(z, ks), Typed(z, LoopsOf(x, f)),
           NEW i \in 1 .. Len(LoopsOf(x, f)), NEW j \in 1 .. Len(LoopsOf(x, f)), i # j,
           Replaced(LoopsOf(x, f), ks, i), Edited(x, y, f, RemoveAt(ks, j))
    PROVE  \A o :
             LET R == AsideBoth(o, x, f, i, j) IN
             /\ Content(o, x) = Join(Join(Drawn(o, LoopsOf(x, f)[j]), Drawn(o, LoopsOf(x, f)[i])), R)
             /\ Content(o, y) = Join(Drawn(o, ks[i]), R)
<1> TAKE o
<1> DEFINE ls == LoopsOf(x, f)
           S == LoopsOn(LiveSlots(z.e), LiveSlots(z.v))
           R == Elsewhere(o, x, {f})
           B == Besides(o, ls, {i} \cup {j})
           js == RemoveAt(ks, j)
<1>0. \A g \in LiveSlots(x.f) \ {f} : LoopsOf(y, g) = LoopsOf(x, g)
  BY DEF Edited
<1>1. Content(o, x) = Join(Walked(o, ls), R) /\ Content(o, y) = Join(Walked(o, LoopsOf(y, f)), R)
  BY <1>0, OneFaceEdited
<1>2. ls \in Seq(S) /\ ks \in Seq(S)
  BY DEF Typed
<1>4. Edited(x, y, f, js)
  OBVIOUS
<1>5. i \in 1 .. Len(ls) /\ j \in 1 .. Len(ls) /\ Replaced(ls, ks, i) /\ j \in 1 .. Len(ks)
  BY DEF Replaced
<1>3. Typed(z, js)
  <2> HIDE DEF S, ls
  <2>1. js \in Seq(S)
    BY <1>2, <1>5, RemoveAtIs
  <2> HIDE DEF js
  <2> QED
    BY <2>1 DEF Typed, S
<1>6. AsideBoth(o, x, f, i, j) = Join(B, R) /\ LoopsOf(x, f) = ls
  BY DEF AsideBoth
<1> HIDE DEF ls, S, R
<1>7. /\ Walked(o, ls) = Join(Drawn(o, ls[i]), Join(Drawn(o, ls[j]), B))
      /\ Walked(o, js) = Join(Drawn(o, ks[i]), B)
  BY <1>2, <1>5, LoopsJoined
<1> HIDE DEF js, B
<1>8. Walked(o, LoopsOf(y, f)) = Walked(o, js)
  BY <1>3, <1>4, WalkedAsIs
<1> DEFINE P == Drawn(o, ls[j])
           Q == Drawn(o, ls[i])
           O == Drawn(o, ks[i])
           Z == Join(B, R)
<1>9. Content(o, x) = Join(Join(Q, Join(P, B)), R) /\ Content(o, y) = Join(Join(O, B), R)
  BY <1>1, <1>7, <1>8
<1>10. /\ AsideBoth(o, x, f, i, j) = Z
       /\ Drawn(o, LoopsOf(x, f)[i]) = Q /\ Drawn(o, LoopsOf(x, f)[j]) = P
  BY <1>6
<1> HIDE DEF P, Q
<1>12. Join(Join(O, B), R) = Join(O, Join(B, R))
  BY JoinAssociates
<1>13. Join(Join(Q, Join(P, B)), R) = Join(Join(P, Q), Join(B, R))
  BY JoinFour
<1>14. Content(o, x) = Join(Join(P, Q), Z) /\ Content(o, y) = Join(O, Z)
  BY <1>9, <1>12, <1>13
<1> HIDE DEF Z, O
<1> QED
  BY <1>10, <1>14 DEF O

LEMMA MekrKeeps ==
    ASSUME NEW x, Sound(x), Paired(x), Fanned(x), NEW from, NEW to, NEW s \in Joins,
           CanMekr(x, from, to, s)
    PROVE  Paired(Mekr(x, from, to, s)) /\ Fanned(Mekr(x, from, to, s))
<1> DEFINE y == Mekr(x, from, to, s)
           e == NewSlot(x.e)
           f == from.face
           i == from.li
           j == to.li
           v == VertexAt(x, from)
           w == VertexAt(x, to)
           ls == LoopsOf(x, f)
           uses == UsesAt(x, f, i)
           ring == UsesAt(x, f, j)
           a == NewUse(x, FORWARD, s)
           c == NewUse(x, REVERSED, s)
           p == AllFrom(ring, to.ci)
           q == AllFrom(uses, from.ci)
           t == Joined(uses, from.ci, ring, to.ci, a, c)
           ks == MekrPut(x, from, to, s)
           S == UsesOn(LiveSlots(y.e))
           R == AsideBoth(Sides, x, f, i, j)
           P == Drawn(Spots, ls[j])
           Q == Drawn(Spots, ls[i])
           B == Drawn(Spots, ks[i])
           N == AsideBoth(Spots, x, f, i, j)
<1>1. /\ Sound(y) /\ LiveSlots(y.f) = LiveSlots(x.f) /\ LiveSlots(y.v) = LiveSlots(x.v)
      /\ LiveSlots(x.v) \subseteq LiveSlots(y.v) /\ LiveSlots(x.e) \subseteq LiveSlots(y.e)
      /\ EdgeMore(x, y, e) /\ EdgeFrom(y, e, v, w) /\ Edited(x, y, f, RemoveAt(ks, j))
      /\ Typed(y, ks)
  <2>1. /\ Sound(y) /\ LiveSlots(y.f) = LiveSlots(x.f) /\ y.v = x.v
        /\ LiveSlots(y.e) = LiveSlots(x.e) \cup {e}
        /\ EdgeMore(x, y, e) /\ EdgeFrom(y, e, v, w)
        /\ ks \in Seq(LoopsOn(LiveSlots(y.e), LiveSlots(y.v)))
        /\ Edited(x, y, f, RemoveAt(ks, j))
    BY MekrIs
  <2> HIDE DEF y, f, j, ks, e, v, w
  <2> QED
    BY <2>1 DEF Typed
<1>2. /\ f \in LiveSlots(x.f) /\ i \in 1 .. Len(ls) /\ from.ci \in 0 .. Len(uses)
      /\ LoopAt(x, from).uses = uses /\ ls[i].uses = uses
  BY JunctionIs DEF CanMekr
<1>3. /\ j \in 1 .. Len(ls) /\ to.ci \in 0 .. Len(ring)
      /\ LoopAt(x, to).uses = ring /\ ls[j].uses = ring /\ i # j
  <2>1. IsJunction(x, to) /\ to.face = f /\ i # j
    BY DEF CanMekr
  <2> HIDE DEF f
  <2> QED
    BY <2>1, JunctionIs
<1>4. Typed(y, ls) /\ uses \in Seq(S) /\ ring \in Seq(S)
  <2>1. Typed(x, ls)
    BY <1>2, FaceTyped
  <2>2. uses \in Seq(UsesOn(LiveSlots(x.e))) /\ ring \in Seq(UsesOn(LiveSlots(x.e)))
    BY <1>2, <1>3, UsesTyped
  <2> HIDE DEF ls, uses, ring, y
  <2>3. Typed(y, ls)
    BY <1>1, <2>1, TypedBefore
  <2>4. uses \in Seq(S)
    BY <1>1, <2>2, UsesGrow
  <2>5. ring \in Seq(S)
    BY <1>1, <2>2, UsesGrow
  <2> QED
    BY <2>3, <2>4, <2>5
<1>5. a \in S /\ c \in S /\ NewPair(y, e, a, c, v, w)
  BY <1>1, NewUseHalf DEF NewPair
<1>7. Replaced(ls, ks, i) /\ ks[i].uses = t
  <2>1. ks = WithUses(ls, i, t)
    BY <1>2, <1>3 DEF MekrPut, WithUses
  <2> HIDE DEF ls, ks, t, y, i
  <2> QED
    BY <1>2, <1>4, <2>1, UsesAtPut
<1>8. Linked(R)
  BY <1>2, AsideBothLinks
<1>6. /\ IsLoop(x, from) /\ from.ci \in Nat /\ ls[i] = LoopAt(x, from)
      /\ IsLoop(x, to) /\ to.ci \in Nat /\ ls[j] = LoopAt(x, to)
  <2>1. IsJunction(x, from) /\ IsJunction(x, to) /\ to.face = f
    BY DEF CanMekr
  <2> QED
    BY <1>2, <1>3, <2>1 DEF IsJunction, LoopAt
<1>18. /\ v \in LiveSlots(x.v) /\ (Bare(x, v) <=> uses = <<>>)
       /\ \A u : u \in Q.halves <=> u = v /\ Bare(x, u)
  <2>1. Q = Drawn(Spots, LoopAt(x, from)) /\ Spotted(x)
    BY <1>6 DEF Fanned
  <2> HIDE DEF Q, v
  <2> QED
    BY <1>2, <1>6, <2>1, SpotAt DEF v
<1>19. /\ w \in LiveSlots(x.v) /\ (Bare(x, w) <=> ring = <<>>)
       /\ \A u : u \in P.halves <=> u = w /\ Bare(x, u)
  <2>1. P = Drawn(Spots, LoopAt(x, to)) /\ Spotted(x)
    BY <1>6 DEF Fanned
  <2> HIDE DEF P, w
  <2> QED
    BY <1>3, <1>6, <2>1, SpotAt DEF w
<1> HIDE DEF y, ls, uses, ring, ks, S, R, t, a, c, e, v, w, P, Q, B, N
<1>9. /\ Content(Sides, x) = Join(Join(Ring(ring), Ring(uses)), R)
      /\ Content(Sides, y) = Join(Ring(ks[i].uses), R)
      /\ Content(Spots, x) = Join(Join(P, Q), N) /\ Content(Spots, y) = Join(B, N)
  <2> HIDE DEF f, i, j
  <2>1. /\ Content(Sides, x) = Join(Join(Drawn(Sides, ls[j]), Drawn(Sides, ls[i])), R)
        /\ Content(Sides, y) = Join(Drawn(Sides, ks[i]), R)
    BY <1>1, <1>2, <1>3, <1>4, <1>7, FaceRingJoined DEF ls, R
  <2>2. /\ Content(Spots, x) = Join(Join(Drawn(Spots, ls[j]), Drawn(Spots, ls[i])), N)
        /\ Content(Spots, y) = Join(Drawn(Spots, ks[i]), N)
    BY <1>1, <1>2, <1>3, <1>4, <1>7, FaceRingJoined DEF ls, N
  <2> QED
    BY <1>2, <1>3, <2>1, <2>2, DrawnIs DEF P, Q, B
<1>10. p \in Seq(S) /\ q \in Seq(S) /\ Ring(t) = Ring(Bridged(a, p, c, q))
  BY <1>2, <1>3, <1>4, <1>5, JoinedRing DEF t
<1>11. Ring(q) = Ring(uses) /\ Ring(p) = Ring(ring)
  BY <1>2, <1>3, <1>4, AllFromAlike, AlikeRings
<1>12. ASSUME q # <<>> PROVE TailOf(x, Half(q[1])) = v
  <2>1. uses # <<>> /\ q[1] = uses[(from.ci % Len(uses)) + 1]
    BY <1>2, <1>4, <1>12, FirstFrom
  <2>2. TailOf(x, Half(uses[(from.ci % Len(uses)) + 1])) = v
    BY <1>2, <2>1, VertexOfUse DEF v
  <2> QED
    BY <2>1, <2>2
<1>13. ASSUME p # <<>> PROVE TailOf(x, Half(p[1])) = w
  <2>1. ring # <<>> /\ p[1] = ring[(to.ci % Len(ring)) + 1]
    BY <1>3, <1>4, <1>13, FirstFrom
  <2>2. TailOf(x, Half(ring[(to.ci % Len(ring)) + 1])) = w
    BY <1>3, <2>1, VertexOfUse DEF w
  <2> QED
    BY <2>1, <2>2
<1>20. (q = <<>> => Bare(x, v)) /\ (p = <<>> => Bare(x, w))
  <2>1. q = <<>> => Bare(x, v)
    BY <1>2, <1>4, <1>18, FirstFrom
  <2>2. p = <<>> => Bare(x, w)
    BY <1>3, <1>4, <1>19, FirstFrom
  <2> QED
    BY <2>1, <2>2
<1>21. ks[i].uses # <<>>
  <2> DEFINE E == LiveSlots(y.e)
             V == LiveSlots(y.v)
  <2>1. ks[i].uses \in Seq(S)
    <3>1. ks \in Seq(LoopsOn(E, V)) /\ i \in 1 .. Len(ks)
      BY <1>1, <1>2, <1>7 DEF Typed, Replaced
    <3> HIDE DEF E, V, i
    <3>2. ks[i] \in LoopsOn(E, V)
      BY <3>1
    <3> QED
      BY <3>2 DEF LoopsOn, E, S
  <2> HIDE DEF p, q, S, E, V, i
  <2>2. Ring(ks[i].uses) = Ring(Bridged(a, p, c, q))
    BY <1>7, <1>10
  <2> QED
    BY <1>5, <1>10, <2>1, <2>2, BridgedSome
<1> HIDE DEF p, q
<1>15. Content(Sides, x) = Join(Join(Ring(p), Ring(q)), R)
  BY <1>9, <1>11
<1>16. Content(Sides, y) = Join(Ring(Bridged(a, p, c, q)), R)
  BY <1>7, <1>9, <1>10
<1>17. Paired(y)
  BY <1>1, <1>5, <1>8, <1>10, <1>12, <1>13, <1>15, <1>16, BridgeMade
<1> DEFINE A == Join(P, Q)
<1>22. A.halves = P.halves \cup Q.halves /\ P.halves \cap Q.halves = {}
  <2>1. Content(Spots, x).twice = {}
    BY DEF Fanned, Spotted
  <2> QED
    BY <1>9, <2>1, JoinIs
<1>23. Content(Spots, x) = Join(A, N)
  BY <1>9
<1> HIDE DEF A
<1>24. A.halves = Bares(x, v, w)
  BY <1>18, <1>19, <1>22 DEF Bares
<1>25. p = <<>> /\ q = <<>> => v # w
  BY <1>18, <1>19, <1>20, <1>22
<1>26. Turned(y)
  <2>1. /\ Turned(x) /\ (q # <<>> => TailOf(x, Half(q[1])) = v)
        /\ p # <<>> => TailOf(x, Half(p[1])) = w
    BY <1>12, <1>13 DEF Fanned
  <2> QED
    BY <1>1, <1>5, <1>10, <1>15, <1>16, <1>20, <1>25, <2>1, BridgeTurned
<1>27. B.halves = {} /\ B.twice = {}
  BY <1>21, DrawnIs, SpotIs DEF B
<1>28. Spotted(y)
  <2>1. Spotted(x) /\ LiveSlots(y.v) \cup {w} = LiveSlots(x.v) \cup {w}
    BY <1>1 DEF Fanned
  <2> QED
    BY <1>1, <1>5, <1>9, <1>23, <1>24, <1>27, <2>1, SpotsTaken
<1> QED
  BY <1>17, <1>26, <1>28 DEF y, Fanned

LEMMA WalkedAsMade ==
    ASSUME NEW o, NEW y, Sound(y), NEW f, NEW l, MadeOf(y, f, <<l>>)
    PROVE  Walked(o, LoopsOf(y, f)) = Drawn(o, l)
<1> DEFINE E == LiveSlots(y.e)
           V == LiveSlots(y.v)
           ls == <<l>>
<1>1. E \in SUBSET Nat /\ V \in SUBSET Nat
  BY DEF Sound, IsPool
<1>2. ls \in Seq(LoopsOn(E, V)) /\ LoopsOf(y, f) = CanonicalLoops(ls)
  BY DEF MadeOf
<1>3. Walked(o, ls) = Drawn(o, l)
  BY WalkedOne
<1> HIDE DEF E, V, ls
<1>4. Walked(o, CanonicalLoops(ls)) = Walked(o, ls)
  BY <1>1, <1>2, WalkedCanonical
<1> QED
  BY <1>2, <1>3, <1>4

\* One loop of face f put, and face m made of one loop.
LoopMore(x, y, m, l) ==
    /\ m \notin LiveSlots(x.f) /\ LiveSlots(y.f) = LiveSlots(x.f) \cup {m}
    /\ MadeOf(y, m, <<l>>)

LEMMA FaceOfLoopMade ==
    ASSUME NEW x, NEW y, Sound(y), NEW f \in LiveSlots(x.f), NEW m, NEW l, LoopMore(x, y, m, l),
           NEW ks, Edited(x, y, f, ks), Typed(y, ks), Typed(y, LoopsOf(x, f)),
           NEW li \in 1 .. Len(LoopsOf(x, f)), Replaced(LoopsOf(x, f), ks, li)
    PROVE  \A o :
             /\ Content(o, x) = Join(Drawn(o, LoopsOf(x, f)[li]), Aside(o, x, f, li))
             /\ Content(o, y) = Join(Join(Drawn(o, l), Drawn(o, ks[li])), Aside(o, x, f, li))
<1> TAKE o
<1> DEFINE ls == LoopsOf(x, f)
           S == LoopsOn(LiveSlots(y.e), LiveSlots(y.v))
           R == Elsewhere(o, x, {f})
           B == Besides(o, ls, {li})
<1>0. \A g \in LiveSlots(x.f) \ {f} : LoopsOf(y, g) = LoopsOf(x, g)
  BY DEF Edited, LoopMore
<1>1. /\ Content(o, x) = Join(Walked(o, ls), R)
      /\ Content(o, y) = Join(Join(Walked(o, LoopsOf(y, m)), Walked(o, LoopsOf(y, f))), R)
  BY <1>0, FaceMade DEF LoopMore
<1>2. Walked(o, LoopsOf(y, f)) = Walked(o, ks)
  BY WalkedAsIs
<1>3. Walked(o, LoopsOf(y, m)) = Drawn(o, l)
  BY WalkedAsMade DEF LoopMore
<1>4. ls \in Seq(S) /\ ks \in Seq(S)
  BY DEF Typed
<1>5. li \in 1 .. Len(ls) /\ Replaced(ls, ks, li)
  OBVIOUS
<1>6. Aside(o, x, f, li) = Join(B, R) /\ LoopsOf(x, f) = ls
  BY DEF Aside
<1> HIDE DEF ls, S, R
<1>7. Walked(o, ls) = Join(Drawn(o, ls[li]), B) /\ Walked(o, ks) = Join(Drawn(o, ks[li]), B)
  BY <1>4, <1>5, LoopReplaced
<1> HIDE DEF B
<1> DEFINE P == Drawn(o, l)
           Q == Drawn(o, ks[li])
           O == Drawn(o, ls[li])
           Z == Join(B, R)
<1>8. Content(o, x) = Join(Join(O, B), R) /\ Content(o, y) = Join(Join(P, Join(Q, B)), R)
  BY <1>1, <1>2, <1>3, <1>7
<1>9. Aside(o, x, f, li) = Z /\ Drawn(o, LoopsOf(x, f)[li]) = O
  BY <1>6
<1> HIDE DEF P, Q, O
<1>10. Join(Join(O, B), R) = Join(O, Join(B, R))
  BY JoinAssociates
<1>11. Join(Join(P, Join(Q, B)), R) = Join(Join(P, Q), Join(B, R))
  BY JoinFour
<1>12. Content(o, x) = Join(O, Z) /\ Content(o, y) = Join(Join(P, Q), Z)
  BY <1>8, <1>10, <1>11
<1> HIDE DEF Z
<1> QED
  BY <1>9, <1>12 DEF P, Q

LEMMA SplitAt ==
    ASSUME NEW x, Sound(x), NEW from, NEW to, NEW s \in Splits, CanMef(x, from, to, s)
    PROVE  LET f == from.face
               li == from.li
               uses == UsesAt(x, f, li) IN
           /\ f \in LiveSlots(x.f) /\ li \in 1 .. Len(LoopsOf(x, f)) /\ to.face = f /\ to.li = li
           /\ LoopAt(x, from).uses = uses /\ LoopAt(x, to).uses = uses
           /\ LoopAt(x, to) = LoopAt(x, from)
           /\ LoopsOf(x, f)[li].uses = uses
           /\ to.ci \in 0 .. Len(uses)
           /\ from.ci \in 0 .. Len(uses) \/ IsTurn(uses, from.ci, to.ci)
           /\ uses \in Seq(UsesOn(LiveSlots(x.e)))
<1> DEFINE f == from.face
           li == from.li
           uses == UsesAt(x, f, li)
<1>1. IsJunction(x, to) /\ to.face = f /\ to.li = li
  BY DEF CanMef
<1>2. /\ to.face \in LiveSlots(x.f) /\ to.li \in 1 .. Len(LoopsOf(x, to.face))
      /\ LoopAt(x, to).uses = UsesAt(x, to.face, to.li)
      /\ to.ci \in 0 .. Len(UsesAt(x, to.face, to.li))
      /\ LoopsOf(x, to.face)[to.li].uses = UsesAt(x, to.face, to.li)
  BY <1>1, JunctionIs
<1>3. LoopAt(x, from).uses = uses /\ LoopAt(x, to) = LoopAt(x, from)
  BY <1>1 DEF LoopAt, UsesAt
<1>4. from.ci \in 0 .. Len(uses) \/ IsTurn(uses, from.ci, to.ci)
  <2>1. CASE IsJunction(x, from)
    BY <2>1, <1>3 DEF IsJunction
  <2>2. CASE FullTurn(Len(LoopAt(x, from).uses), from, to)
    BY <2>2, <1>3 DEF FullTurn, IsTurn
  <2> QED
    BY <2>1, <2>2 DEF CanMef
<1>5. uses \in Seq(UsesOn(LiveSlots(x.e)))
  BY <1>1, <1>2, UsesTyped
<1> HIDE DEF f, li, uses
<1>6. /\ f \in LiveSlots(x.f) /\ li \in 1 .. Len(LoopsOf(x, f))
      /\ LoopAt(x, to).uses = uses /\ to.ci \in 0 .. Len(uses) /\ LoopsOf(x, f)[li].uses = uses
  BY <1>1, <1>2 DEF uses
<1> QED
  BY <1>1, <1>3, <1>4, <1>5, <1>6 DEF f, li, uses

LEMMA MefKeeps ==
    ASSUME NEW x, Sound(x), Paired(x), Fanned(x), NEW from, NEW to, NEW s \in Splits,
           CanMef(x, from, to, s)
    PROVE  Paired(Mef(x, from, to, s)) /\ Fanned(Mef(x, from, to, s))
<1> DEFINE y == Mef(x, from, to, s)
           e == NewSlot(x.e)
           n == NewSlot(x.f)
           f == from.face
           li == from.li
           v == VertexAt(x, from)
           w == VertexAt(x, to)
           ls == LoopsOf(x, f)
           uses == UsesAt(x, f, li)
           a == NewUse(x, FORWARD, s)
           c == NewUse(x, REVERSED, s)
           p == Moved(uses, from.ci, to.ci)
           q == Stay(uses, from.ci, to.ci)
           t == <<c>> \o q
           l == Loop(<<a>> \o p, w)
           ks == MefLoops(x, from, to, s)
           S == UsesOn(LiveSlots(y.e))
           R == Aside(Sides, x, f, li)
           A == Drawn(Spots, ls[li])
           P == Drawn(Spots, l)
           Q == Drawn(Spots, ks[li])
           N == Aside(Spots, x, f, li)
<1>1. /\ Sound(y) /\ LiveSlots(y.f) = LiveSlots(x.f) \cup {n} /\ n \notin LiveSlots(x.f)
      /\ LiveSlots(y.v) = LiveSlots(x.v)
      /\ LiveSlots(x.v) \subseteq LiveSlots(y.v) /\ LiveSlots(x.e) \subseteq LiveSlots(y.e)
      /\ EdgeMore(x, y, e) /\ EdgeFrom(y, e, v, w) /\ Edited(x, y, f, ks)
      /\ Typed(y, ks) /\ MadeOf(y, n, MefMade(x, from, to, s))
  <2>1. /\ Sound(y) /\ y.v = x.v
        /\ LiveSlots(y.e) = LiveSlots(x.e) \cup {e}
        /\ LiveSlots(y.f) = LiveSlots(x.f) \cup {n} /\ n \notin LiveSlots(x.f)
        /\ MefEdits(x, y, from, to, s)
    BY MefIs
  <2>2. /\ EdgeMore(x, y, e) /\ EdgeFrom(y, e, v, w) /\ Edited(x, y, f, ks)
        /\ MadeOf(y, n, MefMade(x, from, to, s))
    BY <2>1 DEF MefEdits
  <2> HIDE DEF y, f, ks, e, v, w, n
  <2>3. Typed(y, ks)
    BY <2>2 DEF Edited, Typed
  <2> QED
    BY <2>1, <2>2, <2>3
<1>2. /\ f \in LiveSlots(x.f) /\ li \in 1 .. Len(ls) /\ to.face = f /\ to.li = li
      /\ LoopAt(x, from).uses = uses /\ LoopAt(x, to).uses = uses
      /\ LoopAt(x, to) = LoopAt(x, from) /\ ls[li].uses = uses
      /\ to.ci \in 0 .. Len(uses)
      /\ from.ci \in 0 .. Len(uses) \/ IsTurn(uses, from.ci, to.ci)
      /\ uses \in Seq(UsesOn(LiveSlots(x.e)))
  BY SplitAt
<1>3. <<l>> = MefMade(x, from, to, s) /\ ks = WithUses(ls, li, t)
  BY <1>2 DEF MefMade, MefLoops, WithUses
<1>4. Typed(y, ls) /\ uses \in Seq(S)
  <2>1. Typed(x, ls)
    BY <1>2, FaceTyped
  <2> HIDE DEF ls, uses, y
  <2>3. Typed(y, ls)
    BY <1>1, <2>1, TypedBefore
  <2>4. uses \in Seq(S)
    BY <1>1, <1>2, UsesGrow
  <2> QED
    BY <2>3, <2>4
<1>5. a \in S /\ c \in S /\ NewPair(y, e, a, c, v, w)
  BY <1>1, NewUseHalf DEF NewPair
<1>6. l.uses = <<a>> \o p
  BY LoopUses
<1> HIDE DEF l
<1>19. /\ IsLoop(x, from) /\ from.ci \in Nat /\ ls[li] = LoopAt(x, from)
       /\ IsLoop(x, to) /\ to.ci \in Nat /\ ls[li] = LoopAt(x, to)
  <2>1. IsLoop(x, from) /\ IsLoop(x, to)
    BY DEF CanMef, IsJunction
  <2>2. to.ci \in Nat /\ from.ci \in Nat
    <3> HIDE DEF uses
    <3>1. Len(uses) \in Nat
      BY <1>4
    <3> QED
      BY <1>2, <3>1 DEF IsTurn
  <2> QED
    BY <1>2, <2>1, <2>2 DEF LoopAt
<1>20. /\ v \in LiveSlots(x.v) /\ (Bare(x, v) <=> uses = <<>>)
       /\ \A u : u \in A.halves <=> u = v /\ Bare(x, u)
  <2>1. A = Drawn(Spots, LoopAt(x, from)) /\ Spotted(x)
    BY <1>19 DEF Fanned
  <2> HIDE DEF A, v
  <2> QED
    BY <1>2, <1>19, <2>1, SpotAt DEF v
<1>21. /\ w \in LiveSlots(x.v) /\ (Bare(x, w) <=> uses = <<>>)
       /\ \A u : u \in A.halves <=> u = w /\ Bare(x, u)
  <2>1. A = Drawn(Spots, LoopAt(x, to)) /\ Spotted(x)
    BY <1>19 DEF Fanned
  <2> HIDE DEF A, w
  <2> QED
    BY <1>2, <1>19, <2>1, SpotAt DEF w
<1>7. Replaced(ls, ks, li) /\ ks[li].uses = t
  <2> HIDE DEF ls, ks, t, y, li
  <2> QED
    BY <1>2, <1>3, <1>4, UsesAtPut
<1>8. Linked(R)
  BY <1>1, <1>2, AsideLinks
<1>13. p = <<>> \/ q = <<>> => v = w
  <2>1. ASSUME p = <<>> \/ q = <<>> PROVE uses = <<>> \/ from.ci % Len(uses) = to.ci % Len(uses)
    <3> HIDE DEF uses, S
    <3> QED
      BY <1>2, <1>4, <2>1, PiecesBegin
  <2> HIDE DEF uses, p, q
  <2> QED
    BY <1>2, <2>1 DEF VertexAt
<1> HIDE DEF y, ls, uses, ks, S, R, t, a, c, e, v, w, n, A, P, Q, N
<1>9. /\ Content(Sides, x) = Join(Ring(uses), R)
      /\ Content(Sides, y) = Join(Join(Ring(l.uses), Ring(ks[li].uses)), R)
      /\ Content(Spots, x) = Join(A, N) /\ Content(Spots, y) = Join(Join(P, Q), N)
  <2> HIDE DEF f, li
  <2>1. LoopMore(x, y, n, l) /\ Sound(y) /\ Edited(x, y, f, ks) /\ Typed(y, ks)
    BY <1>1, <1>3 DEF LoopMore
  <2>2. f \in LiveSlots(x.f) /\ li \in 1 .. Len(LoopsOf(x, f)) /\ Typed(y, LoopsOf(x, f))
        /\ Replaced(LoopsOf(x, f), ks, li)
    BY <1>2, <1>4, <1>7 DEF ls
  <2>3. Content(Sides, x) = Join(Drawn(Sides, LoopsOf(x, f)[li]), Aside(Sides, x, f, li))
        /\ Content(Sides, y) = Join(Join(Drawn(Sides, l), Drawn(Sides, ks[li])), Aside(Sides, x, f, li))
    BY <2>1, <2>2, FaceOfLoopMade
  <2>4. LoopsOf(x, f)[li].uses = uses
    BY DEF uses, UsesAt
  <2>5. Content(Spots, x) = Join(Drawn(Spots, LoopsOf(x, f)[li]), Aside(Spots, x, f, li))
        /\ Content(Spots, y) = Join(Join(Drawn(Spots, l), Drawn(Spots, ks[li])), Aside(Spots, x, f, li))
    BY <2>1, <2>2, FaceOfLoopMade
  <2>6. Content(Spots, x) = Join(A, N) /\ Content(Spots, y) = Join(Join(P, Q), N)
    BY <2>5 DEF ls, A, P, Q, N
  <2> QED
    BY <2>3, <2>4, <2>6, DrawnIs DEF R
<1>10. p \in Seq(S) /\ q \in Seq(S)
  BY <1>2, <1>4, SplitIs
<1>11. Ring(p \o q) = Ring(uses)
  BY <1>2, <1>4, SplitRing
<1>12. /\ p # <<>> => uses # <<>> /\ p[1] = uses[(to.ci % Len(uses)) + 1]
       /\ q # <<>> => uses # <<>> /\ q[1] = uses[(from.ci % Len(uses)) + 1]
  BY <1>2, <1>4, PiecesBegin
<1> HIDE DEF p, q
<1>22. p = <<>> /\ q = <<>> => Bare(x, v)
  <2> DEFINE r == p \o q
  <2>1. r \in Seq(S) /\ (p = <<>> /\ q = <<>> => r = <<>>)
    BY <1>10
  <2> HIDE DEF r
  <2>2. r = <<>> <=> uses = <<>>
    BY <1>4, <1>11, <2>1, SameEmpty DEF r
  <2> QED
    BY <1>20, <2>1, <2>2
<1>23. l.uses # <<>> /\ ks[li].uses # <<>>
  BY <1>5, <1>6, <1>7, <1>10 DEF t
<1>14. ASSUME p # <<>> PROVE TailOf(x, Half(p[1])) = w
  <2>1. uses # <<>> /\ p[1] = uses[(to.ci % Len(uses)) + 1]
    BY <1>12, <1>14
  <2>2. TailOf(x, Half(uses[(to.ci % Len(uses)) + 1])) = w
    BY <1>2, <2>1, VertexOfUse DEF w
  <2> QED
    BY <2>1, <2>2
<1>15. ASSUME q # <<>> PROVE TailOf(x, Half(q[1])) = v
  <2>1. uses # <<>> /\ q[1] = uses[(from.ci % Len(uses)) + 1]
    BY <1>12, <1>15
  <2>2. TailOf(x, Half(uses[(from.ci % Len(uses)) + 1])) = v
    BY <1>2, <2>1, VertexOfUse DEF v
  <2> QED
    BY <2>1, <2>2
<1>16. Content(Sides, x) = Join(Ring(p \o q), R)
  BY <1>9, <1>11
<1>17. Content(Sides, y) = Join(Join(Ring(<<a>> \o p), Ring(<<c>> \o q)), R)
  BY <1>6, <1>7, <1>9 DEF t
<1>18. Paired(y)
  BY <1>1, <1>5, <1>8, <1>10, <1>13, <1>14, <1>15, <1>16, <1>17, SplitMade
<1>24. Turned(y)
  <2>1. /\ Turned(x) /\ (q # <<>> => TailOf(x, Half(q[1])) = v)
        /\ p # <<>> => TailOf(x, Half(p[1])) = w
    BY <1>14, <1>15 DEF Fanned
  <2> QED
    BY <1>1, <1>5, <1>8, <1>10, <1>13, <1>16, <1>17, <1>22, <2>1, SplitTurned
<1>25. A.halves = Bares(x, v, w)
  BY <1>20, <1>21 DEF Bares
<1> DEFINE B == Join(P, Q)
<1>26. B.halves = {} /\ B.twice = {}
  <2>1. P.halves = {} /\ P.twice = {}
    BY <1>23, DrawnIs, SpotIs DEF P
  <2>2. Q.halves = {} /\ Q.twice = {}
    BY <1>23, DrawnIs, SpotIs DEF Q
  <2> QED
    BY <2>1, <2>2, JoinIs
<1>27. Content(Spots, y) = Join(B, N)
  BY <1>9
<1> HIDE DEF B
<1>28. Spotted(y)
  <2>1. Spotted(x) /\ LiveSlots(y.v) \cup {w} = LiveSlots(x.v) \cup {w}
    BY <1>1 DEF Fanned
  <2> QED
    BY <1>1, <1>5, <1>9, <1>25, <1>26, <1>27, <2>1, SpotsTaken
<1> QED
  BY <1>18, <1>24, <1>28 DEF y, Fanned

\* kef: one loop of face f put, and face g, of one loop, gone.
AsideAfter(o, x, y, f, li) == Join(Besides(o, LoopsOf(x, f), {li}), Elsewhere(o, y, {f}))

LEMMA AsideAfterLinks ==
    ASSUME NEW x, Sound(x), NEW y, Sound(y), NEW f \in LiveSlots(x.f), NEW li
    PROVE  Linked(AsideAfter(Sides, x, y, f, li))
<1> DEFINE E == LiveSlots(x.e)
           V == LiveSlots(x.v)
           ls == LoopsOf(x, f)
           J == {li}
           K == {f}
<1>1. E \in SUBSET Nat /\ ls \in Seq(LoopsOn(E, V))
  BY FaceTyped DEF Sound, IsPool, Typed
<1> HIDE DEF E, V, ls, J
<1>2. Linked(Besides(Sides, ls, J))
  BY <1>1, BesidesLinks
<1> HIDE DEF K
<1>3. Linked(Elsewhere(Sides, y, K))
  BY ElsewhereLinks
<1> QED
  BY <1>2, <1>3, JoinLinks DEF AsideAfter, ls, J, K

LoopLess(x, y, g) ==
    /\ g \in LiveSlots(x.f) /\ LiveSlots(y.f) = LiveSlots(x.f) \ {g}
    /\ Len(LoopsOf(x, g)) = 1

LEMMA WalkedOfOne ==
    ASSUME NEW x, Sound(x), NEW g \in LiveSlots(x.f), Len(LoopsOf(x, g)) = 1, NEW i \in 1 .. Len(LoopsOf(x, g))
    PROVE  \A o : Walked(o, LoopsOf(x, g)) = Drawn(o, LoopsOf(x, g)[i])
<1> TAKE o
<1> DEFINE ls == LoopsOf(x, g)
           l == ls[i]
           one == <<l>>
<1>1. ls \in Seq(LoopsOn(LiveSlots(x.e), LiveSlots(x.v))) /\ Len(ls) = 1 /\ i = 1
  BY FaceTyped DEF Typed
<1>2. ls = one
  <2> HIDE DEF ls
  <2> QED
    BY <1>1
<1>3. Walked(o, one) = Drawn(o, l)
  <2> HIDE DEF l
  <2> QED
    BY WalkedOne
<1> QED
  BY <1>2, <1>3

LEMMA FaceOfLoopGone ==
    ASSUME NEW x, NEW y, Sound(x), NEW f \in LiveSlots(y.f), NEW g, LoopLess(x, y, g),
           NEW i \in 1 .. Len(LoopsOf(x, g)),
           NEW ks, Edited(x, y, f, ks), Typed(x, ks), Typed(x, LoopsOf(x, f)),
           NEW li \in 1 .. Len(LoopsOf(x, f)), Replaced(LoopsOf(x, f), ks, li)
    PROVE  \A o :
             /\ Content(o, x) = Join(Join(Drawn(o, LoopsOf(x, g)[i]), Drawn(o, LoopsOf(x, f)[li])),
                                  AsideAfter(o, x, y, f, li))
             /\ Content(o, y) = Join(Drawn(o, ks[li]), AsideAfter(o, x, y, f, li))
<1> TAKE o
<1> DEFINE ls == LoopsOf(x, f)
           S == LoopsOn(LiveSlots(x.e), LiveSlots(x.v))
           R == Elsewhere(o, y, {f})
           B == Besides(o, ls, {li})
<1>0. /\ \A h \in LiveSlots(y.f) \ {f} : LoopsOf(x, h) = LoopsOf(y, h)
      /\ g \notin LiveSlots(y.f) /\ LiveSlots(x.f) = LiveSlots(y.f) \cup {g}
  BY DEF Edited, LoopLess
<1>1. /\ Content(o, y) = Join(Walked(o, LoopsOf(y, f)), R)
      /\ Content(o, x) = Join(Join(Walked(o, LoopsOf(x, g)), Walked(o, LoopsOf(x, f))), R)
  BY <1>0, FaceMade
<1>2. Walked(o, LoopsOf(y, f)) = Walked(o, ks)
  BY WalkedAsIs
<1>3. Walked(o, LoopsOf(x, g)) = Drawn(o, LoopsOf(x, g)[i])
  BY WalkedOfOne DEF LoopLess
<1>4. ls \in Seq(S) /\ ks \in Seq(S)
  BY DEF Typed
<1>5. li \in 1 .. Len(ls) /\ Replaced(ls, ks, li)
  OBVIOUS
<1>6. AsideAfter(o, x, y, f, li) = Join(B, R) /\ LoopsOf(x, f) = ls
  BY DEF AsideAfter
<1> HIDE DEF ls, S, R
<1>7. Walked(o, ls) = Join(Drawn(o, ls[li]), B) /\ Walked(o, ks) = Join(Drawn(o, ks[li]), B)
  BY <1>4, <1>5, LoopReplaced
<1> HIDE DEF B
<1> DEFINE P == Drawn(o, LoopsOf(x, g)[i])
           Q == Drawn(o, ks[li])
           O == Drawn(o, ls[li])
           Z == Join(B, R)
<1>8. Content(o, y) = Join(Join(Q, B), R) /\ Content(o, x) = Join(Join(P, Join(O, B)), R)
  BY <1>1, <1>2, <1>3, <1>7 DEF ls
<1>9. AsideAfter(o, x, y, f, li) = Z /\ Drawn(o, LoopsOf(x, f)[li]) = O
  BY <1>6
<1> HIDE DEF P, Q, O
<1>10. Join(Join(Q, B), R) = Join(Q, Join(B, R))
  BY JoinAssociates
<1>11. Join(Join(P, Join(O, B)), R) = Join(Join(P, O), Join(B, R))
  BY JoinFour
<1>12. Content(o, y) = Join(Q, Z) /\ Content(o, x) = Join(Join(P, O), Z)
  BY <1>8, <1>10, <1>11
<1> HIDE DEF Z
<1> QED
  BY <1>9, <1>12 DEF P, Q

LEMMA KefKeeps ==
    ASSUME NEW x, Sound(x), Paired(x), Fanned(x), NEW e, CanKef(x, e)
    PROVE  Paired(Kef(x, e)) /\ Fanned(Kef(x, e))
<1> DEFINE y == Kef(x, e)
           plus == UseOf(x, e, FORWARD)
           minus == UseOf(x, e, REVERSED)
           g == plus.face
           f == minus.face
           li == minus.li
           i == plus.li
           m == minus.ci
           k == plus.ci
           gone == UsesAt(x, g, i)
           uses == UsesAt(x, f, li)
           ls == LoopsOf(x, f)
           a == gone[k + 1]
           c == uses[m + 1]
           p == WithoutUse(gone, k)
           q == WithoutUse(uses, m)
           start == x.e.at[e].start
           end == x.e.at[e].end
           ks == KefLoops(x, e)
           S == UsesOn(LiveSlots(x.e))
           R == AsideAfter(Sides, x, y, f, li)
           P == Drawn(Spots, LoopsOf(x, g)[i])
           Q == Drawn(Spots, LoopsOf(x, f)[li])
           B == Drawn(Spots, ks[li])
           N == AsideAfter(Spots, x, y, f, li)
<1>1. /\ Sound(y) /\ EdgeMore(y, x, e) /\ Edited(x, y, f, ks) /\ LoopLess(x, y, g)
      /\ LiveSlots(y.v) = LiveSlots(x.v)
      /\ f # g /\ LiveSlots(y.v) \subseteq LiveSlots(x.v)
      /\ LiveSlots(y.e) \subseteq LiveSlots(x.e)
  <2>1. /\ Sound(y) /\ y.v = x.v
        /\ LiveSlots(y.e) = LiveSlots(x.e) \ {e}
        /\ LiveSlots(y.f) = LiveSlots(x.f) \ {g} /\ g \in LiveSlots(x.f)
        /\ Len(LoopsOf(x, g)) = 1
        /\ EdgeMore(y, x, e) /\ f # g /\ Edited(x, y, f, ks)
    BY KefIs
  <2> HIDE DEF y, f, ks, g
  <2> QED
    BY <2>1 DEF LoopLess
<1>2. UsedBothWays(x, e)
  BY DEF CanKef
<1>3. /\ i \in 1 .. Len(LoopsOf(x, g))
      /\ k \in Nat /\ k + 1 \in 1 .. Len(gone) /\ gone \in Seq(S)
      /\ f \in LiveSlots(x.f) /\ li \in 1 .. Len(ls)
      /\ m \in Nat /\ m + 1 \in 1 .. Len(uses) /\ uses \in Seq(S)
      /\ OldPair(e, a, c)
  BY <1>2, UsesOfEdge
<1>4. Typed(x, ks)
  <2>1. Typed(y, ks)
    BY <1>1 DEF Edited, Typed
  <2> HIDE DEF y, ks
  <2> QED
    BY <1>1, <2>1, TypedBefore
<1>5. Typed(x, ls)
  BY <1>3, FaceTyped
<1>6. ks = WithLoop(ls, li, Loop(Spliced(uses, m, p), start))
  BY DEF KefLoops, WithLoop
<1>7. f \in LiveSlots(y.f)
  BY <1>1 DEF Edited
<1>17. NewPair(x, e, a, c, start, end)
  <2> HIDE DEF a, c
  <2> QED
    BY <1>1, <1>3 DEF NewPair, OldPair, EdgeFrom, EdgeMore
<1>18. start \in LiveSlots(x.v)
  <2>1. e \in LiveSlots(x.e)
    BY <1>2 DEF UsedBothWays
  <2> QED
    BY <2>1 DEF Sound
<1>19. gone # <<>> /\ uses # <<>>
  <2> HIDE DEF gone, uses
  <2> QED
    BY <1>3
<1> HIDE DEF y, plus, minus, g, f, li, i, m, k, gone, uses, ls, start, end, ks, S, R, P, Q, B, N
<1>8. p \in Seq(S) /\ Ring(gone) = Ring(<<a>> \o p)
  BY <1>3, FirstUseRing
<1>9. q \in Seq(S) /\ Ring(uses) = Ring(<<c>> \o q)
  BY <1>3, FirstUseRing
<1>10. a \in S /\ c \in S
  BY <1>3
<1> HIDE DEF p, a, c
<1>11. Ring(Spliced(uses, m, p)) = Ring(p \o q)
  BY <1>3, <1>8, SplicedRing DEF q
<1> HIDE DEF q
<1>12. Replaced(ls, ks, li) /\ Ring(ks[li].uses) = Ring(p \o q) /\ B = Spot(ks[li].uses, start)
  <2> DEFINE t == Spliced(uses, m, p)
             l == Loop(t, start)
  <2>1. ks = WithLoop(ls, li, l) /\ Ring(t) = Ring(p \o q)
    BY <1>6, <1>11
  <2>2. l.uses = t /\ Drawn(Spots, l) = Spot(t, start)
    <3> HIDE DEF t
    <3> QED
      BY LoopUses, LoopSpot
  <2> HIDE DEF l, t
  <2>3. Replaced(ls, ks, li) /\ ks[li] = l
    BY <1>3, <1>5, <2>1, LoopAtWith
  <2> QED
    BY <2>1, <2>2, <2>3 DEF B
<1>13. Linked(R)
  BY <1>1, <1>3, AsideAfterLinks DEF R
<1>14. /\ Content(Sides, x) = Join(Join(Ring(gone), Ring(uses)), R)
       /\ Content(Sides, y) = Join(Ring(ks[li].uses), R)
  <2>1. LoopLess(x, y, g) /\ Edited(x, y, f, ks) /\ Typed(x, ks) /\ Typed(x, LoopsOf(x, f))
    BY <1>1, <1>4, <1>5 DEF ls
  <2>2. li \in 1 .. Len(LoopsOf(x, f)) /\ i \in 1 .. Len(LoopsOf(x, g)) /\ f \in LiveSlots(y.f)
        /\ Replaced(LoopsOf(x, f), ks, li)
    BY <1>3, <1>7, <1>12 DEF ls
  <2>3. /\ Content(Sides, x) = Join(Join(Drawn(Sides, LoopsOf(x, g)[i]),
                                          Drawn(Sides, LoopsOf(x, f)[li])),
                                     AsideAfter(Sides, x, y, f, li))
        /\ Content(Sides, y) = Join(Drawn(Sides, ks[li]), AsideAfter(Sides, x, y, f, li))
    BY <2>1, <2>2, FaceOfLoopGone
  <2>4. LoopsOf(x, g)[i].uses = gone /\ LoopsOf(x, f)[li].uses = uses
    BY DEF gone, uses, UsesAt
  <2> QED
    BY <2>3, <2>4, DrawnIs DEF R
<1>20. Content(Spots, x) = Join(Join(P, Q), N) /\ Content(Spots, y) = Join(B, N)
  <2>1. LoopLess(x, y, g) /\ Edited(x, y, f, ks) /\ Typed(x, ks) /\ Typed(x, LoopsOf(x, f))
    BY <1>1, <1>4, <1>5 DEF ls
  <2>2. li \in 1 .. Len(LoopsOf(x, f)) /\ i \in 1 .. Len(LoopsOf(x, g)) /\ f \in LiveSlots(y.f)
        /\ Replaced(LoopsOf(x, f), ks, li)
    BY <1>3, <1>7, <1>12 DEF ls
  <2>3. /\ Content(Spots, x) = Join(Join(Drawn(Spots, LoopsOf(x, g)[i]),
                                          Drawn(Spots, LoopsOf(x, f)[li])),
                                     AsideAfter(Spots, x, y, f, li))
        /\ Content(Spots, y) = Join(Drawn(Spots, ks[li]), AsideAfter(Spots, x, y, f, li))
    BY <2>1, <2>2, FaceOfLoopGone
  <2> QED
    BY <2>3 DEF P, Q, B, N
<1>21. ks[li].uses = <<>> <=> p = <<>> /\ q = <<>>
  <2> DEFINE r == p \o q
             E == LiveSlots(x.e)
             V == LiveSlots(x.v)
  <2>1. ks[li].uses \in Seq(S)
    <3>1. ks \in Seq(LoopsOn(E, V)) /\ li \in 1 .. Len(ks)
      BY <1>3, <1>4, <1>12 DEF Typed, Replaced
    <3> HIDE DEF E, V
    <3>2. ks[li] \in LoopsOn(E, V)
      BY <3>1
    <3> QED
      BY <3>2 DEF LoopsOn, E, S
  <2>2. r \in Seq(S) /\ (p = <<>> /\ q = <<>> <=> r = <<>>)
    <3>1. Len(p) \in Nat /\ Len(q) \in Nat /\ (p = <<>> <=> Len(p) = 0) /\ (q = <<>> <=> Len(q) = 0)
      BY <1>8, <1>9
    <3>2. r \in Seq(S) /\ Len(r) = Len(p) + Len(q)
      BY <1>8, <1>9
    <3>3. r = <<>> <=> Len(r) = 0
      BY <3>2
    <3> HIDE DEF r
    <3> QED
      BY <3>1, <3>2, <3>3
  <2> HIDE DEF r, E, V
  <2>3. ks[li].uses = <<>> <=> r = <<>>
    BY <1>12, <2>1, <2>2, SameEmpty DEF r
  <2> QED
    BY <2>2, <2>3
<1>15. /\ Content(Sides, x) = Join(Join(Ring(<<a>> \o p), Ring(<<c>> \o q)), R)
       /\ Content(Sides, y) = Join(Ring(p \o q), R)
  BY <1>8, <1>9, <1>12, <1>14
<1>16. Paired(y)
  BY <1>1, <1>3, <1>8, <1>9, <1>10, <1>13, <1>15, SplitKilled
<1>22. /\ Turned(y) /\ (Bare(y, end) <=> p = <<>> /\ q = <<>>)
       /\ Bare(y, start) <=> p = <<>> /\ q = <<>>
       /\ p = <<>> \/ q = <<>> => start = end
  <2>1. Turned(x)
    BY DEF Fanned
  <2> QED
    BY <1>1, <1>8, <1>9, <1>10, <1>13, <1>15, <1>16, <1>17, <2>1, SplitUnturned
<1>23. B.halves = Bares(y, start, end) /\ B.twice = {}
  <2>1. /\ B.twice = {} /\ (ks[li].uses = <<>> => B.halves = {start})
        /\ ks[li].uses # <<>> => B.halves = {}
    BY <1>12, SpotIs
  <2> QED
    BY <1>1, <1>18, <1>21, <1>22, <2>1 DEF Bares
<1> DEFINE A == Join(P, Q)
<1>24. A.halves = {} /\ Content(Spots, x) = Join(A, N)
  <2>1. P.halves = {} /\ Q.halves = {}
    BY <1>19, DrawnIs, SpotIs DEF P, Q, gone, uses, UsesAt
  <2> QED
    BY <1>20, <2>1, JoinIs
<1> HIDE DEF A
<1>25. Spotted(y)
  <2>1. Spotted(x) /\ LiveSlots(y.v) \cup {end} = LiveSlots(x.v) \cup {end}
    BY <1>1 DEF Fanned
  <2> QED
    BY <1>1, <1>17, <1>20, <1>23, <1>24, <2>1, SpotsGiven
<1> QED
  BY <1>16, <1>22, <1>25 DEF y, Fanned

-----------------------------------------------------------------------------
(***************************************************************************)
(* The operators that make and kill no edge walk what was walked.          *)
(***************************************************************************)

LEMMA AsWalkedKeeps ==
    ASSUME NEW x, Paired(x), Fanned(x), NEW y, y.e = x.e, y.v = x.v,
           Content(Sides, y) = Content(Sides, x), Content(Spots, y) = Content(Spots, x)
    PROVE  Paired(y) /\ Fanned(y)
<1>1. Halves(y) = Halves(x)
  BY DEF Halves
<1>2. \A h : HeadOf(y, h) = HeadOf(x, h) /\ TailOf(y, h) = TailOf(x, h)
  BY DEF HeadOf, TailOf
<1>3. Paired(y)
  BY <1>1, <1>2 DEF Paired, Fits
<1>4. \A v : Bare(y, v) <=> Bare(x, v)
  BY <1>1, <1>2 DEF Bare
<1>5. Spotted(y)
  BY <1>4 DEF Fanned, Spotted
<1>6. Turned(y)
  BY <1>1, <1>2 DEF Fanned, Turned, Fills
<1> QED
  BY <1>3, <1>5, <1>6 DEF Fanned

LEMMA KfmrhWalks ==
    ASSUME NEW o, NEW x, Sound(x), NEW kill, NEW f, CanKfmrh(x, kill, f)
    PROVE  Content(o, Kfmrh(x, kill, f)) = Content(o, x)
<1> DEFINE y == Kfmrh(x, kill, f)
           ls == LoopsOf(x, f)
           i == 1
           l == LoopsOf(x, kill)[i]
           ks == Append(ls, l)
           S == LoopsOn(LiveSlots(x.e), LiveSlots(x.v))
           R == Elsewhere(o, y, {f})
<1>1. /\ Sound(y) /\ y.v = x.v /\ y.e = x.e
      /\ LiveSlots(y.f) = LiveSlots(x.f) \ {kill} /\ kill \in LiveSlots(x.f)
      /\ f \in LiveSlots(x.f) /\ f \in LiveSlots(y.f) /\ Len(LoopsOf(x, kill)) = 1
      /\ Edited(x, y, f, ks)
  BY KfmrhIs
<1>2. ls \in Seq(S) /\ LoopsOf(x, kill) \in Seq(S) /\ i \in 1 .. Len(LoopsOf(x, kill))
  BY <1>1, FaceTyped DEF Typed
<1>3. l \in S
  <2> HIDE DEF i, S
  <2> QED
    BY <1>2
<1>4. Typed(y, ks)
  BY <1>1 DEF Edited, Typed
<1>5. Drawn(o, LoopsOf(x, kill)[i]) = Drawn(o, l)
  OBVIOUS
<1> HIDE DEF y, i, l
<1>6. Walked(o, ks) = Join(Drawn(o, l), Walked(o, ls))
  <2> HIDE DEF ls, S
  <2> QED
    BY <1>2, <1>3, WalkedAppend
<1> HIDE DEF ks
<1>7. Walked(o, LoopsOf(y, f)) = Walked(o, ks)
  BY <1>1, <1>4, WalkedAsIs
<1>8. Walked(o, LoopsOf(x, kill)) = Drawn(o, LoopsOf(x, kill)[i])
  <2> HIDE DEF ls, S, R
  <2>1. kill \in LiveSlots(x.f) /\ Len(LoopsOf(x, kill)) = 1 /\ i \in 1 .. Len(LoopsOf(x, kill))
    BY <1>1, <1>2
  <2> QED
    BY <2>1, WalkedOfOne
<1>9. /\ \A h \in LiveSlots(y.f) \ {f} : LoopsOf(x, h) = LoopsOf(y, h)
      /\ kill \notin LiveSlots(y.f) /\ LiveSlots(x.f) = LiveSlots(y.f) \cup {kill}
  BY <1>1 DEF Edited
<1>10. /\ Content(o, y) = Join(Walked(o, LoopsOf(y, f)), R)
       /\ Content(o, x) = Join(Join(Walked(o, LoopsOf(x, kill)), Walked(o, LoopsOf(x, f))), R)
  <2>1. f \in LiveSlots(y.f)
    BY <1>1
  <2> HIDE DEF ls
  <2> QED
    BY <2>1, <1>9, FaceMade
<1>11. Content(o, y) = Content(o, x)
  BY <1>5, <1>6, <1>7, <1>8, <1>10
<1> QED
  BY <1>11 DEF y

LEMMA MfkrhWalks ==
    ASSUME NEW o, NEW x, Sound(x), NEW f, NEW ring, CanMfkrh(x, f, ring)
    PROVE  Content(o, Mfkrh(x, f, ring)) = Content(o, x)
<1> DEFINE y == Mfkrh(x, f, ring)
           m == NewSlot(x.f)
           ls == LoopsOf(x, f)
           l == ls[ring]
           ks == RemoveAt(ls, ring)
           S == LoopsOn(LiveSlots(x.e), LiveSlots(x.v))
           R == Elsewhere(o, x, {f})
<1>1. /\ Sound(y) /\ y.v = x.v /\ y.e = x.e
      /\ LiveSlots(y.f) = LiveSlots(x.f) \cup {m} /\ m \notin LiveSlots(x.f)
      /\ f \in LiveSlots(x.f) /\ ring \in 1 .. Len(ls)
      /\ Edited(x, y, f, ks) /\ MadeOf(y, m, MfkrhMade(x, f, ring))
  BY MfkrhIs
<1>2. ls \in Seq(S)
  BY <1>1, FaceTyped DEF Typed
<1>3. MadeOf(y, m, <<l>>)
  BY <1>1 DEF MfkrhMade
<1>4. Typed(y, ks)
  BY <1>1 DEF Edited, Typed
<1>5. ring \in 1 .. Len(ls)
  BY <1>1
<1> HIDE DEF y, m, ls, S
<1>6. Walked(o, ks) = Besides(o, ls, {ring})
  BY <1>2, <1>5, WalkedRemoved
<1>7. Walked(o, ls) = Join(Drawn(o, ls[ring]), Besides(o, ls, {ring}))
  BY <1>2, <1>5, LoopSplit
<1> HIDE DEF ks, l
<1>8. Walked(o, LoopsOf(y, f)) = Walked(o, ks)
  BY <1>1, <1>4, WalkedAsIs
<1>9. Walked(o, LoopsOf(y, m)) = Drawn(o, l)
  BY <1>1, <1>3, WalkedAsMade
<1>10. \A h \in LiveSlots(x.f) \ {f} : LoopsOf(y, h) = LoopsOf(x, h)
  BY <1>1 DEF Edited
<1>11. /\ Content(o, x) = Join(Walked(o, LoopsOf(x, f)), R)
       /\ Content(o, y) = Join(Join(Walked(o, LoopsOf(y, m)), Walked(o, LoopsOf(y, f))), R)
  BY <1>1, <1>10, FaceMade
<1>12. Content(o, y) = Content(o, x)
  BY <1>6, <1>7, <1>8, <1>9, <1>11 DEF ls, l
<1> QED
  BY <1>12 DEF y

LEMMA SameWalkRing ==
    ASSUME NEW s, NEW t, SameWalk(s, t), Len(s) \in Nat,
           s = <<>> <=> Len(s) = 0, t = <<>> <=> Len(t) = 0
    PROVE  Ring(t) = Ring(s)
<1>1. Len(t) = Len(s) /\ \A i \in 1 .. Len(s) : Half(t[i]) = Half(s[i])
  BY DEF SameWalk, Half
<1>2. HalvesIn(t) = HalvesIn(s)
  BY <1>1 DEF HalvesIn
<1>3. Apart(t) <=> Apart(s)
  BY <1>1 DEF Apart
<1>4. Round(t) = Round(s)
  <2>1. CASE s = <<>>
    BY <1>1, <2>1 DEF Round
  <2>2. CASE s # <<>>
    <3>1. Len(s) \in Nat /\ Len(s) # 0 /\ t # <<>>
      BY <1>1, <2>2
    <3>2. /\ Half(t[1]) = Half(s[1]) /\ Half(t[Len(t)]) = Half(s[Len(s)])
          /\ \A i \in 1 .. (Len(s) - 1) : Half(t[i]) = Half(s[i]) /\ Half(t[i + 1]) = Half(s[i + 1])
      BY <1>1, <3>1
    <3>3. Steps(t) = Steps(s)
      BY <1>1, <3>2 DEF Steps
    <3> QED
      BY <2>2, <3>1, <3>2, <3>3 DEF Round
  <2> QED
    BY <2>1, <2>2
<1> QED
  BY <1>2, <1>3, <1>4 DEF Ring

LEMMA PcurveWalks ==
    ASSUME NEW o, NEW x, Sound(x), NEW at, NEW pc \in Pcurves, CanSetPcurve(x, at)
    PROVE  Content(o, SetPcurve(x, at, pc)) = Content(o, x)
<1> DEFINE y == SetPcurve(x, at, pc)
<1>1. /\ Sound(y) /\ SameFaces(x, y) /\ y.e = x.e
      /\ \A g \in LiveSlots(x.f) : \A i \in 1 .. Len(LoopsOf(x, g)) :
           /\ SameWalk(UsesAt(x, g, i), UsesAt(y, g, i))
           /\ LoopsOf(y, g)[i].seed = LoopsOf(x, g)[i].seed
  BY PcurveIs
<1> HIDE DEF y
<1>2. ASSUME NEW g \in LiveSlots(x.f) PROVE Walked(o, LoopsOf(y, g)) = Walked(o, LoopsOf(x, g))
  <2> DEFINE ls == LoopsOf(x, g)
             ks == LoopsOf(y, g)
             c == RingsOf(o, ls)
             d == RingsOf(o, ks)
             I == (1 .. Len(ls)) \ {}
  <2>1. Len(ks) = Len(ls) /\ g \in LiveSlots(y.f)
    BY <1>1 DEF SameFaces
  <2>2. ASSUME NEW i \in 1 .. Len(ls) PROVE Drawn(o, ks[i]) = Drawn(o, ls[i])
    <3> DEFINE s == UsesAt(x, g, i)
               t == UsesAt(y, g, i)
    <3>1. s \in Seq(UsesOn(LiveSlots(x.e))) /\ t \in Seq(UsesOn(LiveSlots(y.e)))
      BY <1>1, <2>1, UsesTyped
    <3>2. SameWalk(s, t)
      BY <1>1
    <3> HIDE DEF s, t
    <3>3. Len(s) \in Nat /\ (s = <<>> <=> Len(s) = 0) /\ (t = <<>> <=> Len(t) = 0)
      BY <3>1
    <3>4. Ring(t) = Ring(s)
      BY <3>2, <3>3, SameWalkRing
    <3>5. s = <<>> <=> t = <<>>
      BY <3>2, <3>3 DEF SameWalk
    <3>6. ks[i].uses = t /\ ls[i].uses = s /\ ks[i].seed = ls[i].seed
      BY <1>1 DEF s, t, UsesAt
    <3> HIDE DEF ks, ls
    <3>7. Spot(t, ks[i].seed) = Spot(s, ls[i].seed)
      BY <3>5, <3>6 DEF Spot
    <3> QED
      BY <3>4, <3>6, <3>7 DEF Drawn
  <2>3. \A i \in I : d[i] = c[i]
    BY <2>1, <2>2 DEF RingsOf
  <2>4. Walked(o, ls) = Total(I, c) /\ Walked(o, ks) = Total(I, d)
    BY <2>1 DEF Walked, Besides
  <2> HIDE DEF I, c, d
  <2>5. Total(I, d) = Total(I, c)
    BY <2>3, SameFamily
  <2> QED
    BY <2>4, <2>5
<1>3. Content(o, y) = Content(o, x)
  <2> DEFINE I == LiveSlots(x.f) \ {}
             c == FacesOf(o, x)
             d == FacesOf(o, y)
  <2>1. LiveSlots(y.f) = LiveSlots(x.f)
    BY <1>1 DEF SameFaces
  <2>2. \A g \in I : d[g] = c[g]
    BY <1>2, <2>1 DEF FacesOf
  <2>3. Content(o, x) = Total(I, c) /\ Content(o, y) = Total(I, d)
    BY <2>1 DEF Content, Elsewhere
  <2> HIDE DEF I, c, d
  <2>4. Total(I, d) = Total(I, c)
    BY <2>2, SameFamily
  <2> QED
    BY <2>3, <2>4
<1> QED
  BY <1>3 DEF y

LEMMA AsWalked ==
    ASSUME NEW x, Sound(x)
    PROVE  /\ \A kill, f : CanKfmrh(x, kill, f) =>
                LET y == Kfmrh(x, kill, f) IN y.e = x.e /\ y.v = x.v
           /\ \A f, ring : CanMfkrh(x, f, ring) =>
                LET y == Mfkrh(x, f, ring) IN y.e = x.e /\ y.v = x.v
           /\ \A at : \A pc \in Pcurves : CanSetPcurve(x, at) =>
                LET y == SetPcurve(x, at, pc) IN y.e = x.e /\ y.v = x.v
<1>1. ASSUME NEW kill, NEW f, CanKfmrh(x, kill, f)
      PROVE  LET y == Kfmrh(x, kill, f) IN y.e = x.e /\ y.v = x.v
  BY <1>1, KfmrhIs
<1>2. ASSUME NEW f, NEW ring, CanMfkrh(x, f, ring)
      PROVE  LET y == Mfkrh(x, f, ring) IN y.e = x.e /\ y.v = x.v
  BY <1>2, MfkrhIs
<1>3. ASSUME NEW at, NEW pc \in Pcurves, CanSetPcurve(x, at)
      PROVE  LET y == SetPcurve(x, at, pc) IN y.e = x.e /\ y.v = x.v
  BY <1>3, PcurveIs
<1> QED
  BY <1>1, <1>2, <1>3

LEMMA NoneIsPaired ==
    ASSUME NEW y, LiveSlots(y.e) = {}, Content(Sides, y) = None,
           Content(Spots, y).halves = LiveSlots(y.v), Content(Spots, y).twice = {}
    PROVE  Paired(y) /\ Fanned(y)
<1>1. Halves(y) = {}
  BY DEF Halves
<1>2. Paired(y)
  BY <1>1 DEF Paired, Fits, None
<1>3. Turned(y) /\ \A v : Bare(y, v)
  BY <1>1 DEF Turned, Fills, Bare
<1>4. Spotted(y)
  BY <1>3 DEF Spotted
<1> QED
  BY <1>2, <1>3, <1>4 DEF Fanned

LEMMA MvfsKeeps ==
    ASSUME NEW x, Sound(x), NEW seed, CanMvfs(x)
    PROVE  Paired(Mvfs(x, seed)) /\ Fanned(Mvfs(x, seed))
<1> DEFINE y == Mvfs(x, seed)
           m == NewSlot(x.f)
           v == NewSlot(x.v)
           l == Loop(<<>>, v)
           none == {}
<1>1. /\ Sound(y) /\ LiveSlots(y.f) = {m} /\ y.e = x.e /\ LiveSlots(x.e) = {}
      /\ LiveSlots(y.v) = {v} /\ MadeOf(y, m, MvfsMade(x))
  BY MvfsIs
<1>2. MadeOf(y, m, <<l>>)
  BY <1>1 DEF MvfsMade
<1>3. Drawn(Sides, l) = None /\ Drawn(Spots, l).halves = {v} /\ Drawn(Spots, l).twice = {}
  <2> DEFINE s == <<>>
             k == Loop(s, v)
  <2>1. s = <<>>
    OBVIOUS
  <2> HIDE DEF s
  <2>2. k.uses = s /\ Drawn(Spots, k) = Spot(s, v)
    BY LoopUses, LoopSpot
  <2>3. Drawn(Sides, k) = None
    BY <2>1, <2>2, DrawnIs, RingIs
  <2>4. Spot(s, v).halves = {v} /\ Spot(s, v).twice = {}
    BY <2>1, SpotIs
  <2> QED
    BY <2>2, <2>3, <2>4 DEF s
<1> HIDE DEF y, m, l, v
<1>4. ASSUME NEW o PROVE Content(o, y) = Drawn(o, l)
  <2>1. Walked(o, LoopsOf(y, m)) = Drawn(o, l)
    BY <1>1, <1>2, WalkedAsMade
  <2> DEFINE K == none \cup {m}
  <2>2. m \in LiveSlots(y.f) /\ m \notin none /\ LiveSlots(y.f) \ K = {}
    BY <1>1
  <2>3. Elsewhere(o, y, none) = Join(Walked(o, LoopsOf(y, m)), Elsewhere(o, y, K))
    <3> HIDE DEF none
    <3> QED
      BY <2>2, FaceSplit
  <2>4. Elsewhere(o, y, K) = None
    BY <2>2, TotalOfNone DEF Elsewhere
  <2>5. Join(Drawn(o, l), None) = Drawn(o, l)
    BY DrawnNone
  <2> QED
    BY <2>1, <2>3, <2>4, <2>5 DEF Content
<1>5. Content(Sides, y) = None
  BY <1>3, <1>4
<1>6. Content(Spots, y).halves = {v} /\ Content(Spots, y).twice = {}
  BY <1>3, <1>4
<1>7. Paired(y) /\ Fanned(y)
  BY <1>1, <1>5, <1>6, NoneIsPaired
<1> QED
  BY <1>7 DEF y

LEMMA EmptyIsPaired == Paired(EmptyBuilder) /\ Fanned(EmptyBuilder)
<1> DEFINE y == EmptyBuilder
<1>1. LiveSlots(y.e) = {} /\ LiveSlots(y.f) = {} /\ LiveSlots(y.v) = {}
  BY EmptyBuilderIs
<1> HIDE DEF y
<1>2. Content(Sides, y) = None
  BY <1>1, TotalOfNone DEF Content, Elsewhere
<1>3. Content(Spots, y) = None
  BY <1>1, TotalOfNone DEF Content, Elsewhere
<1>4. None.halves = {} /\ None.twice = {}
  BY DEF None
<1>5. Paired(y) /\ Fanned(y)
  BY <1>1, <1>2, <1>3, <1>4, NoneIsPaired
<1> QED
  BY <1>5 DEF y

LEMMA PairedStep ==
    Sound(b) /\ Paired(b) /\ Fanned(b) /\ [Next]_b => Paired(b') /\ Fanned(b')
<1> SUFFICES ASSUME Sound(b), Paired(b), Fanned(b), [Next]_b PROVE Paired(b') /\ Fanned(b')
  OBVIOUS
<1>1. CASE MVFS
  BY <1>1, MvfsKeeps DEF MVFS
<1>2. CASE KVFS
  BY <1>2, EmptyIsPaired DEF KVFS, Kvfs
<1>3. CASE MEV
  BY <1>3, MevKeeps DEF MEV
<1>4. CASE KEV
  BY <1>4, KevKeeps DEF KEV
<1>5. CASE MEF
  BY <1>5, MefKeeps DEF MEF
<1>6. CASE KEF
  BY <1>6, KefKeeps DEF KEF
<1>7. CASE MEKR
  BY <1>7, MekrKeeps DEF MEKR
<1>8. CASE KEMR
  BY <1>8, KemrKeeps DEF KEMR
<1>9. CASE KFMRH
  BY <1>9, KfmrhWalks, AsWalked, AsWalkedKeeps DEF KFMRH
<1>10. CASE MFKRH
  BY <1>10, MfkrhWalks, AsWalked, AsWalkedKeeps DEF MFKRH
<1>11. CASE SET_PCURVE
  BY <1>11, PcurveWalks, AsWalked, AsWalkedKeeps DEF SET_PCURVE
<1>12. CASE UNCHANGED b
  BY <1>12
<1> QED
  BY <1>1, <1>2, <1>3, <1>4, <1>5, <1>6, <1>7, <1>8, <1>9, <1>10, <1>11, <1>12 DEF Next

-----------------------------------------------------------------------------
(***************************************************************************)
(* What is paired is used both ways, and closes.                           *)
(***************************************************************************)

IsPlace(x, f, li, k) ==
    /\ f \in LiveSlots(x.f) /\ li \in 1 .. Len(LoopsOf(x, f))
    /\ k \in 1 .. Len(UsesAt(x, f, li))
HalfAt(x, f, li, k) == Half(UsesAt(x, f, li)[k])

LEMMA WalkedFace ==
    ASSUME NEW o, NEW x, NEW f \in LiveSlots(x.f)
    PROVE  LET c == Content(o, x)
               w == Walked(o, LoopsOf(x, f)) IN
           /\ w.halves \subseteq c.halves /\ w.links \subseteq c.links
           /\ w.twice \subseteq c.twice
           /\ \A g \in LiveSlots(x.f) :
                f # g => w.halves \cap Walked(o, LoopsOf(x, g)).halves \subseteq c.twice
<1> DEFINE I == LiveSlots(x.f) \ {}
           c == FacesOf(o, x)
           t == Total(I, c)
<1>1. /\ \A h : h \in t.halves <=> \E i \in I : h \in c[i].halves
      /\ \A l : l \in t.links <=> \E i \in I : l \in c[i].links
      /\ \A h : h \in t.twice <=>
           \/ \E i \in I : h \in c[i].twice
           \/ \E i, j \in I : i # j /\ h \in c[i].halves /\ h \in c[j].halves
  <2> HIDE DEF I, c
  <2> QED
    BY TotalIs
<1>2. Content(o, x) = t
  BY DEF Content, Elsewhere
<1>3. \A g \in LiveSlots(x.f) : g \in I /\ c[g] = Walked(o, LoopsOf(x, g))
  BY DEF FacesOf
<1> HIDE DEF I, c, t
<1> QED
  BY <1>1, <1>2, <1>3

LEMMA FaceOfHalf ==
    ASSUME NEW o, NEW x, NEW h \in Content(o, x).halves
    PROVE  \E f \in LiveSlots(x.f) : h \in Walked(o, LoopsOf(x, f)).halves
<1> DEFINE I == LiveSlots(x.f) \ {}
           c == FacesOf(o, x)
<1>1. h \in Total(I, c).halves
  BY DEF Content, Elsewhere
<1>2. \E i \in I : h \in c[i].halves
  <2> HIDE DEF I, c
  <2> QED
    BY <1>1, TotalIs
<1> QED
  BY <1>2 DEF FacesOf

LEMMA WalkedLoop ==
    ASSUME NEW o, NEW ls, NEW i \in 1 .. Len(ls)
    PROVE  LET w == Walked(o, ls)
               r == Drawn(o, ls[i]) IN
           /\ r.halves \subseteq w.halves /\ r.links \subseteq w.links /\ r.twice \subseteq w.twice
           /\ \A j \in 1 .. Len(ls) : i # j => r.halves \cap Drawn(o, ls[j]).halves \subseteq w.twice
<1> DEFINE I == (1 .. Len(ls)) \ {}
           c == RingsOf(o, ls)
           t == Total(I, c)
<1>1. /\ \A h : h \in t.halves <=> \E k \in I : h \in c[k].halves
      /\ \A l : l \in t.links <=> \E k \in I : l \in c[k].links
      /\ \A h : h \in t.twice <=>
           \/ \E k \in I : h \in c[k].twice
           \/ \E k, j \in I : k # j /\ h \in c[k].halves /\ h \in c[j].halves
  <2> HIDE DEF I, c
  <2> QED
    BY TotalIs
<1>2. Walked(o, ls) = t
  BY DEF Walked, Besides
<1>3. \A j \in 1 .. Len(ls) : j \in I /\ c[j] = Drawn(o, ls[j])
  BY DEF RingsOf
<1> HIDE DEF I, c, t
<1> QED
  BY <1>1, <1>2, <1>3

LEMMA LoopOfHalf ==
    ASSUME NEW o, NEW ls, NEW h \in Walked(o, ls).halves
    PROVE  \E i \in 1 .. Len(ls) : h \in Drawn(o, ls[i]).halves
<1> DEFINE I == (1 .. Len(ls)) \ {}
           c == RingsOf(o, ls)
<1>1. h \in Total(I, c).halves
  BY DEF Walked, Besides
<1>2. \E i \in I : h \in c[i].halves
  <2> HIDE DEF I, c
  <2> QED
    BY <1>1, TotalIs
<1>3. \A i \in I : c[i] = Drawn(o, ls[i]) /\ i \in 1 .. Len(ls)
  BY DEF RingsOf
<1> QED
  BY <1>2, <1>3

\* Each half is somewhere.
LEMMA PlaceOfHalf ==
    ASSUME NEW x, Paired(x), NEW h \in Halves(x)
    PROVE  \E f, li, k : IsPlace(x, f, li, k) /\ HalfAt(x, f, li, k) = h
<1>1. h \in Content(Sides, x).halves
  BY DEF Paired
<1>2. PICK f \in LiveSlots(x.f) : h \in Walked(Sides, LoopsOf(x, f)).halves
  BY <1>1, FaceOfHalf
<1>3. PICK li \in 1 .. Len(LoopsOf(x, f)) : h \in HalvesIn(UsesAt(x, f, li))
  <2>1. PICK li \in 1 .. Len(LoopsOf(x, f)) : h \in Drawn(Sides, LoopsOf(x, f)[li]).halves
    BY <1>2, LoopOfHalf
  <2>2. Drawn(Sides, LoopsOf(x, f)[li]) = Ring(UsesAt(x, f, li))
    BY DrawnIs DEF UsesAt
  <2> QED
    BY <2>1, <2>2, RingIs
<1>4. PICK k \in 1 .. Len(UsesAt(x, f, li)) : h = HalfAt(x, f, li, k)
  BY <1>3 DEF HalvesIn, HalfAt
<1>5. IsPlace(x, f, li, k)
  BY <1>2, <1>3, <1>4 DEF IsPlace
<1> QED
  BY <1>4, <1>5

\* And at no other place.
LEMMA OnePlace ==
    ASSUME NEW x, Paired(x), NEW f, NEW li, NEW k, NEW g, NEW lj, NEW m,
           IsPlace(x, f, li, k), IsPlace(x, g, lj, m),
           HalfAt(x, f, li, k) = HalfAt(x, g, lj, m)
    PROVE  f = g /\ li = lj /\ k = m
<1> DEFINE h == HalfAt(x, f, li, k)
           c == Content(Sides, x)
           r == Ring(UsesAt(x, f, li))
           q == Ring(UsesAt(x, g, lj))
<1>1. /\ f \in LiveSlots(x.f) /\ li \in 1 .. Len(LoopsOf(x, f)) /\ k \in 1 .. Len(UsesAt(x, f, li))
      /\ g \in LiveSlots(x.f) /\ lj \in 1 .. Len(LoopsOf(x, g)) /\ m \in 1 .. Len(UsesAt(x, g, lj))
      /\ c.twice = {}
  BY DEF IsPlace, Paired
<1>2. h \in r.halves /\ h \in q.halves
  BY <1>1, RingIs DEF HalvesIn, HalfAt
<1> DEFINE ls == LoopsOf(x, f)
           ks == LoopsOf(x, g)
<1>10. Drawn(Sides, ls[li]) = r /\ Drawn(Sides, ks[lj]) = q
  BY DrawnIs DEF UsesAt
<1>11. /\ Drawn(Sides, ls[li]).halves \subseteq Walked(Sides, ls).halves
       /\ Drawn(Sides, ls[li]).twice \subseteq Walked(Sides, ls).twice
       /\ \A j \in 1 .. Len(ls) :
            li # j => Drawn(Sides, ls[li]).halves \cap Drawn(Sides, ls[j]).halves
                        \subseteq Walked(Sides, ls).twice
  BY <1>1, WalkedLoop
<1>3. r.halves \subseteq Walked(Sides, ls).halves /\ r.twice \subseteq Walked(Sides, ls).twice
  BY <1>10, <1>11
<1>4. q.halves \subseteq Walked(Sides, ks).halves
  <2>1. Drawn(Sides, ks[lj]).halves \subseteq Walked(Sides, ks).halves
    BY <1>1, WalkedLoop
  <2> QED
    BY <2>1, <1>10
<1>5. f = g
  <2>1. f # g => Walked(Sides, LoopsOf(x, f)).halves \cap Walked(Sides, LoopsOf(x, g)).halves \subseteq c.twice
    BY <1>1, WalkedFace
  <2> HIDE DEF h, r, q, c
  <2> QED
    BY <1>1, <1>2, <1>3, <1>4, <2>1
<1>6. Walked(Sides, LoopsOf(x, f)).twice = {}
  <2>1. Walked(Sides, LoopsOf(x, f)).twice \subseteq c.twice
    BY <1>1, WalkedFace
  <2> QED
    BY <1>1, <2>1
<1>7. li = lj
  <2>1. li # lj => r.halves \cap q.halves \subseteq Walked(Sides, LoopsOf(x, f)).twice
    BY <1>1, <1>5, <1>10, <1>11
  <2> HIDE DEF h, r, q, c
  <2> QED
    BY <1>2, <1>6, <2>1
<1>8. Apart(UsesAt(x, f, li))
  BY <1>3, <1>6, RingIs
<1>9. k = m
  BY <1>1, <1>5, <1>7, <1>8 DEF Apart, HalfAt
<1> QED
  BY <1>5, <1>7, <1>9

\* A use of a loop ends where the next begins.
LEMMA NextAt ==
    ASSUME NEW x, Sound(x), Paired(x), NEW f, NEW li, NEW k, IsPlace(x, f, li, k)
    PROVE  LET s == UsesAt(x, f, li)
               n == IF k = Len(s) THEN 1 ELSE k + 1 IN
           EndOf(x, s[k]) = StartOf(x, s[n])
<1> DEFINE s == UsesAt(x, f, li)
           n == IF k = Len(s) THEN 1 ELSE k + 1
           c == Content(Sides, x)
<1>1. /\ f \in LiveSlots(x.f) /\ li \in 1 .. Len(LoopsOf(x, f)) /\ k \in 1 .. Len(s)
      /\ Fits(x, c.links) /\ s \in Seq(UsesOn(LiveSlots(x.e)))
  BY UsesTyped DEF IsPlace, Paired
<1>2. Round(s) \subseteq c.links
  <2>1. Ring(s).links \subseteq Walked(Sides, LoopsOf(x, f)).links
    <3>1. Drawn(Sides, LoopsOf(x, f)[li]).links \subseteq Walked(Sides, LoopsOf(x, f)).links
      BY <1>1, WalkedLoop
    <3> QED
      BY <3>1, DrawnIs DEF UsesAt
  <2>2. Walked(Sides, LoopsOf(x, f)).links \subseteq c.links
    BY <1>1, WalkedFace
  <2>3. Ring(s).links = Round(s)
    BY RingIs
  <2> QED
    BY <2>1, <2>2, <2>3
<1> DEFINE l == <<Half(s[k]), Half(s[n])>>
<1>3. l \in Round(s)
  <2> HIDE DEF s
  <2>1. CASE k = Len(s)
    BY <1>1, <2>1 DEF Round
  <2>2. CASE k # Len(s)
    <3>1. k \in 1 .. (Len(s) - 1) /\ n = k + 1 /\ s # <<>>
      BY <1>1, <2>2
    <3> QED
      BY <3>1 DEF Round, Steps
  <2> QED
    BY <2>1, <2>2
<1>4. HeadOf(x, Half(s[k])) = TailOf(x, Half(s[n]))
  <2>1. HeadOf(x, l[1]) = TailOf(x, l[2])
    <3> HIDE DEF l, s, n, c
    <3> QED
      BY <1>1, <1>2, <1>3 DEF Fits
  <2> HIDE DEF s, n
  <2> QED
    BY <2>1
<1> HIDE DEF s, n
<1>5. EndOf(x, s[k]) = StartOf(x, s[n])
  BY <1>4, EndsAre
<1> QED
  BY <1>5 DEF s, n

LEMMA PairedBothWays ==
    ASSUME NEW x, Sound(x), Paired(x), NEW e \in LiveSlots(x.e)
    PROVE  UsedBothWays(x, e)
<1> DEFINE U == UsesOf(x, e)
<1>1. <<e, FORWARD>> \in Halves(x) /\ <<e, REVERSED>> \in Halves(x)
  BY DEF Halves
<1>2. PICK f, li, k : IsPlace(x, f, li, k) /\ HalfAt(x, f, li, k) = <<e, FORWARD>>
  BY <1>1, PlaceOfHalf
<1>3. PICK g, lj, m : IsPlace(x, g, lj, m) /\ HalfAt(x, g, lj, m) = <<e, REVERSED>>
  BY <1>1, PlaceOfHalf
<1> DEFINE P == Place(f, li, k, FORWARD)
           M == Place(g, lj, m, REVERSED)
<1>4. \A h, lk, n, d : IsUseAt(x, h, lk, n, e, d) <=>
          IsPlace(x, h, lk, n) /\ HalfAt(x, h, lk, n) = <<e, d>>
  BY DEF IsUseAt, IsPlace, HalfAt, Half
<1>5. P \in U /\ M \in U
  BY <1>2, <1>3, <1>4, PlacesOf
<1>6. ASSUME NEW u \in U PROVE u \in {P, M}
  <2>1. PICK h, lk, n, d : IsUseAt(x, h, lk, n, e, d) /\ u = Place(h, lk, n, d)
    BY PlacesOf
  <2>2. IsPlace(x, h, lk, n) /\ HalfAt(x, h, lk, n) = <<e, d>> /\ d \in {FORWARD, REVERSED}
    <3>1. d \in {FORWARD, REVERSED}
      BY <2>1, UsesTyped DEF IsUseAt
    <3> QED
      BY <1>4, <2>1, <3>1
  <2>3. CASE d = FORWARD
    <3>1. HalfAt(x, h, lk, n) = HalfAt(x, f, li, k)
      BY <1>2, <2>2, <2>3
    <3>2. h = f /\ lk = li /\ n = k
      BY <1>2, <2>2, <3>1, OnePlace
    <3> QED
      BY <2>1, <2>3, <3>2
  <2>4. CASE d = REVERSED
    <3>1. HalfAt(x, h, lk, n) = HalfAt(x, g, lj, m)
      BY <1>3, <2>2, <2>4
    <3>2. h = g /\ lk = lj /\ n = m
      BY <1>3, <2>2, <3>1, OnePlace
    <3> QED
      BY <2>1, <2>4, <3>2
  <2> QED
    BY <2>2, <2>3, <2>4
<1>7. P.dir = FORWARD /\ M.dir = REVERSED /\ P # M
  BY DEF Place, FORWARD, REVERSED
<1> HIDE DEF P, M, U
<1> DEFINE one == {P}
<1>8. IsFiniteSet(one) /\ Cardinality(one) = 1
  BY FS_Singleton
<1>9. M \notin one /\ U = one \cup {M}
  BY <1>5, <1>6, <1>7
<1>10. Cardinality(U) = 2
  <2> HIDE DEF one
  <2>1. Cardinality(U) = Cardinality(one) + 1
    BY <1>8, <1>9, OneMore
  <2> QED
    BY <1>8, <2>1
<1>11. {u.dir : u \in U} = {FORWARD, REVERSED}
  BY <1>7, <1>9
<1> QED
  BY <1>10, <1>11 DEF UsedBothWays, U

LEMMA PairedIsPairedUp == Sound(b) /\ Paired(b) => EdgesPairUp
<1> SUFFICES ASSUME Sound(b), Paired(b) PROVE EdgesPairUp
  OBVIOUS
<1>1. ASSUME NEW e \in LiveSlots(b.e) PROVE UsedBothWays(b, e)
  BY PairedBothWays
<1>2. ASSUME NEW u \in UsesAll(b)
      PROVE  EndOf(b, TheUse(b, u)) = StartOf(b, TheUse(b, NextUse(b, u)))
  <2>1. PICK at \in AllLoops(b) : \E ci \in DOMAIN UsesAt(b, at[1], at[2]) :
            u = [face |-> at[1], li |-> at[2], ci |-> ci]
    BY DEF UsesAll, UsesAt
  <2>2. PICK ci \in DOMAIN UsesAt(b, at[1], at[2]) : u = [face |-> at[1], li |-> at[2], ci |-> ci]
    BY <2>1
  <2> DEFINE f == at[1]
             li == at[2]
             s == UsesAt(b, f, li)
             n == IF ci = Len(s) THEN 1 ELSE ci + 1
  <2>3. f \in LiveSlots(b.f) /\ li \in 1 .. Len(LoopsOf(b, f))
    BY LoopsMembers
  <2> HIDE DEF f, li
  <2>4. DOMAIN s = 1 .. Len(s)
    BY <2>3, UsesTyped
  <2>5. IsPlace(b, f, li, ci)
    BY <2>2, <2>3, <2>4 DEF IsPlace, f, li
  <2>6. EndOf(b, s[ci]) = StartOf(b, s[n])
    BY <2>5, NextAt
  <2>7. u = [face |-> f, li |-> li, ci |-> ci]
    BY <2>2 DEF f, li
  <2>8. TheUse(b, u) = s[ci]
    BY <2>7 DEF TheUse, UsesAt
  <2>9. NextUse(b, u) = [face |-> f, li |-> li, ci |-> n]
    BY <2>7 DEF NextUse, UsesAt
  <2>10. TheUse(b, NextUse(b, u)) = s[n]
    BY <2>9 DEF TheUse, UsesAt
  <2> QED
    BY <2>6, <2>8, <2>10
<1> QED
  BY <1>1, <1>2 DEF EdgesPairUp

-----------------------------------------------------------------------------
(***************************************************************************)
(* What turns and is spotted is one umbrella at each vertex.               *)
(***************************************************************************)

HalfOf(x, u) == Half(TheUse(x, u))

LEMMA UsesMembers ==
    ASSUME NEW x, Sound(x)
    PROVE  /\ \A f, li, k : IsPlace(x, f, li, k) =>
                /\ Position(f, li, k) \in UsesAll(x)
                /\ HalfOf(x, Position(f, li, k)) = HalfAt(x, f, li, k)
           /\ \A u \in UsesAll(x) : \E f, li, k :
                IsPlace(x, f, li, k) /\ u = Position(f, li, k)
<1>1. ASSUME NEW f, NEW li, NEW k, IsPlace(x, f, li, k)
      PROVE  /\ Position(f, li, k) \in UsesAll(x)
             /\ HalfOf(x, Position(f, li, k)) = HalfAt(x, f, li, k)
  <2>1. /\ <<f, li>> \in AllLoops(x) /\ k \in DOMAIN LoopsOf(x, f)[li].uses
    <3>1. /\ f \in LiveSlots(x.f) /\ li \in 1 .. Len(LoopsOf(x, f))
          /\ k \in 1 .. Len(UsesAt(x, f, li))
      BY <1>1 DEF IsPlace
    <3>2. DOMAIN UsesAt(x, f, li) = 1 .. Len(UsesAt(x, f, li))
      BY <3>1, UsesTyped
    <3> QED
      BY <3>1, <3>2, LoopsMembers DEF UsesAt
  <2> DEFINE at == <<f, li>>
  <2>2. at[1] = f /\ at[2] = li /\ at \in AllLoops(x)
    BY <2>1
  <2> HIDE DEF at
  <2>3. Position(f, li, k) = [face |-> at[1], li |-> at[2], ci |-> k]
    BY <2>2 DEF Position
  <2>4. Position(f, li, k) \in UsesAll(x)
    BY <2>1, <2>2, <2>3 DEF UsesAll
  <2>5. HalfOf(x, Position(f, li, k)) = HalfAt(x, f, li, k)
    BY DEF HalfOf, HalfAt, TheUse, UsesAt, Position
  <2> QED
    BY <2>4, <2>5
<1>2. ASSUME NEW u \in UsesAll(x)
      PROVE  \E f, li, k : IsPlace(x, f, li, k) /\ u = Position(f, li, k)
  <2>1. PICK at \in AllLoops(x) : \E ci \in DOMAIN UsesAt(x, at[1], at[2]) :
            u = [face |-> at[1], li |-> at[2], ci |-> ci]
    BY DEF UsesAll, UsesAt
  <2>2. PICK ci \in DOMAIN UsesAt(x, at[1], at[2]) : u = [face |-> at[1], li |-> at[2], ci |-> ci]
    BY <2>1
  <2> DEFINE f == at[1]
             li == at[2]
  <2>3. f \in LiveSlots(x.f) /\ li \in 1 .. Len(LoopsOf(x, f))
    BY LoopsMembers
  <2>4. u = Position(f, li, ci) /\ ci \in DOMAIN UsesAt(x, f, li)
    BY <2>2 DEF Position
  <2> HIDE DEF f, li
  <2>5. DOMAIN UsesAt(x, f, li) = 1 .. Len(UsesAt(x, f, li))
    BY <2>3, UsesTyped
  <2>6. IsPlace(x, f, li, ci)
    BY <2>3, <2>4, <2>5 DEF IsPlace
  <2> QED
    BY <2>4, <2>6
<1> QED
  BY <1>1, <1>2

\* Uses and halves stand for each other.
LEMMA UsesAreHalves ==
    ASSUME NEW x, Sound(x), Paired(x)
    PROVE  /\ \A u \in UsesAll(x) : /\ HalfOf(x, u) \in Halves(x)
                                    /\ StartOf(x, TheUse(x, u)) = TailOf(x, HalfOf(x, u))
           /\ \A h \in Halves(x) : \E u \in UsesAll(x) : HalfOf(x, u) = h
           /\ \A u, w \in UsesAll(x) : HalfOf(x, u) = HalfOf(x, w) => u = w
<1>1. ASSUME NEW u \in UsesAll(x)
      PROVE  HalfOf(x, u) \in Halves(x) /\ StartOf(x, TheUse(x, u)) = TailOf(x, HalfOf(x, u))
  <2>1. PICK f, li, k : IsPlace(x, f, li, k) /\ u = Position(f, li, k)
    BY UsesMembers
  <2>2. HalfOf(x, u) = Half(UsesAt(x, f, li)[k])
    BY <2>1, UsesMembers DEF HalfAt
  <2>3. UsesAt(x, f, li)[k] \in UsesOn(LiveSlots(x.e))
    BY <2>1, UsesTyped DEF IsPlace
  <2>4. HalfOf(x, u) \in Halves(x)
    BY <2>2, <2>3 DEF UsesOn, Half, Halves
  <2> QED
    BY <2>4, EndsAre DEF HalfOf
<1>2. ASSUME NEW h \in Halves(x) PROVE \E u \in UsesAll(x) : HalfOf(x, u) = h
  <2>1. PICK f, li, k : IsPlace(x, f, li, k) /\ HalfAt(x, f, li, k) = h
    BY PlaceOfHalf
  <2> QED
    BY <2>1, UsesMembers
<1>3. ASSUME NEW u \in UsesAll(x), NEW w \in UsesAll(x), HalfOf(x, u) = HalfOf(x, w)
      PROVE  u = w
  <2>1. PICK f, li, k : IsPlace(x, f, li, k) /\ u = Position(f, li, k)
    BY UsesMembers
  <2>2. PICK g, lj, m : IsPlace(x, g, lj, m) /\ w = Position(g, lj, m)
    BY UsesMembers
  <2>3. HalfAt(x, f, li, k) = HalfAt(x, g, lj, m)
    BY <1>3, <2>1, <2>2, UsesMembers
  <2>4. f = g /\ li = lj /\ k = m
    BY <2>1, <2>2, <2>3, OnePlace
  <2> QED
    BY <2>1, <2>2, <2>4
<1> QED
  BY <1>1, <1>2, <1>3

LEMMA NextIs ==
    ASSUME NEW x, Sound(x), NEW f, NEW li, NEW k, IsPlace(x, f, li, k)
    PROVE  LET n == IF k = Len(UsesAt(x, f, li)) THEN 1 ELSE k + 1 IN
           IsPlace(x, f, li, n) /\ NextUse(x, Position(f, li, k)) = Position(f, li, n)
<1> DEFINE s == UsesAt(x, f, li)
           n == IF k = Len(s) THEN 1 ELSE k + 1
<1>1. /\ f \in LiveSlots(x.f) /\ li \in 1 .. Len(LoopsOf(x, f)) /\ k \in 1 .. Len(s)
      /\ Len(s) \in Nat
  BY UsesTyped DEF IsPlace
<1>2. NextUse(x, Position(f, li, k)) = Position(f, li, n)
  BY DEF NextUse, Position, UsesAt
<1> HIDE DEF s
<1>3. n \in 1 .. Len(s)
  BY <1>1
<1> HIDE DEF n
<1>4. IsPlace(x, f, li, n)
  BY <1>1, <1>3 DEF IsPlace, s
<1> QED
  BY <1>2, <1>4 DEF n, s

LEMMA FaceOfLink ==
    ASSUME NEW o, NEW x, NEW l \in Content(o, x).links
    PROVE  \E f \in LiveSlots(x.f) : l \in Walked(o, LoopsOf(x, f)).links
<1> DEFINE I == LiveSlots(x.f) \ {}
           c == FacesOf(o, x)
<1>1. l \in Total(I, c).links
  BY DEF Content, Elsewhere
<1>2. \E i \in I : l \in c[i].links
  <2> HIDE DEF I, c
  <2> QED
    BY <1>1, TotalIs
<1> QED
  BY <1>2 DEF FacesOf

LEMMA LoopOfLink ==
    ASSUME NEW o, NEW ls, NEW l \in Walked(o, ls).links
    PROVE  \E i \in 1 .. Len(ls) : l \in Drawn(o, ls[i]).links
<1> DEFINE I == (1 .. Len(ls)) \ {}
           c == RingsOf(o, ls)
<1>1. l \in Total(I, c).links
  BY DEF Walked, Besides
<1>2. \E i \in I : l \in c[i].links
  <2> HIDE DEF I, c
  <2> QED
    BY <1>1, TotalIs
<1>3. \A i \in I : c[i] = Drawn(o, ls[i]) /\ i \in 1 .. Len(ls)
  BY DEF RingsOf
<1> QED
  BY <1>2, <1>3

\* What follows what around the loops is a use and the next.
LEMMA LinksAreNext ==
    ASSUME NEW x, Sound(x), NEW l \in Content(Sides, x).links
    PROVE  \E u \in UsesAll(x) : /\ NextUse(x, u) \in UsesAll(x)
                                 /\ l[1] = HalfOf(x, u) /\ l[2] = HalfOf(x, NextUse(x, u))
<1>1. PICK f \in LiveSlots(x.f) : l \in Walked(Sides, LoopsOf(x, f)).links
  BY FaceOfLink
<1>2. PICK li \in 1 .. Len(LoopsOf(x, f)) : l \in Drawn(Sides, LoopsOf(x, f)[li]).links
  BY <1>1, LoopOfLink
<1> DEFINE s == UsesAt(x, f, li)
<1>3. l \in Round(s)
  <2>1. Drawn(Sides, LoopsOf(x, f)[li]) = Ring(s)
    BY DrawnIs DEF UsesAt
  <2> QED
    BY <1>2, <2>1, RingIs
<1>4. Len(s) \in Nat /\ s \in Seq(UsesOn(LiveSlots(x.e)))
  BY UsesTyped
<1>5. \E k \in 1 .. Len(s) :
        LET n == IF k = Len(s) THEN 1 ELSE k + 1 IN l = <<Half(s[k]), Half(s[n])>>
  <2> HIDE DEF s
  <2>1. s # <<>> /\ Len(s) \in 1 .. Len(s)
    BY <1>3, <1>4 DEF Round
  <2>2. CASE l \in Steps(s)
    <3>1. PICK k \in 1 .. (Len(s) - 1) : l = <<Half(s[k]), Half(s[k + 1])>>
      BY <2>2 DEF Steps
    <3>2. k \in 1 .. Len(s) /\ k # Len(s)
      BY <1>4, <3>1
    <3> QED
      BY <3>1, <3>2
  <2>3. CASE l = <<Half(s[Len(s)]), Half(s[1])>>
    BY <2>1, <2>3
  <2> QED
    BY <1>3, <2>1, <2>2, <2>3 DEF Round
<1>6. PICK k \in 1 .. Len(s) :
        LET n == IF k = Len(s) THEN 1 ELSE k + 1 IN l = <<Half(s[k]), Half(s[n])>>
  BY <1>5
<1> DEFINE n == IF k = Len(s) THEN 1 ELSE k + 1
           u == Position(f, li, k)
           w == Position(f, li, n)
<1>7. IsPlace(x, f, li, k)
  BY DEF IsPlace
<1>8. IsPlace(x, f, li, n) /\ NextUse(x, u) = w
  BY <1>7, NextIs
<1>9. l[1] = Half(s[k]) /\ l[2] = Half(s[n])
  BY <1>6
<1> HIDE DEF n
<1>10. /\ u \in UsesAll(x) /\ HalfOf(x, u) = Half(s[k])
       /\ w \in UsesAll(x) /\ HalfOf(x, w) = Half(s[n])
  BY <1>7, <1>8, UsesMembers DEF HalfAt
<1> HIDE DEF u, w, s
<1> QED
  BY <1>8, <1>9, <1>10

\* To turn is to go to the use of the opposite half and on to the next.
LEMMA TurnIs ==
    ASSUME NEW x, Sound(x), Paired(x), NEW u \in UsesAll(x)
    PROVE  \E t \in UsesAll(x) : HalfOf(x, t) = Opp(HalfOf(x, u)) /\ Turn(x, u) = NextUse(x, t)
<1> DEFINE here == TheUse(x, u)
           e == here.edge
           d == 1 - here.dir
           back == UseOf(x, e, d)
<1>1. HalfOf(x, u) = <<e, here.dir>> /\ HalfOf(x, u) \in Halves(x)
  BY UsesAreHalves DEF HalfOf, Half
<1>2. Opp(HalfOf(x, u)) = <<e, d>>
  BY <1>1 DEF Opp
<1>3. e \in LiveSlots(x.e) /\ d \in {FORWARD, REVERSED}
  <2>1. e \in LiveSlots(x.e) /\ here.dir \in {FORWARD, REVERSED}
    <3> HIDE DEF e, here
    <3> QED
      BY <1>1 DEF Halves
  <2> QED
    BY <2>1 DEF FORWARD, REVERSED
<1>4. Turn(x, u) = NextUse(x, [face |-> back.face, li |-> back.li, ci |-> back.ci + 1])
  BY DEF Turn
<1> HIDE DEF e, d, here
<1>5. \E w \in UsesOf(x, e) : w.dir = d
  BY <1>3, PairedBothWays DEF UsedBothWays
<1>6. back \in UsesOf(x, e) /\ back.dir = d
  BY <1>5 DEF UseOf
<1> HIDE DEF back
<1>7. PICK g, lj, m, c : IsUseAt(x, g, lj, m, e, c) /\ back = Place(g, lj, m, c)
  BY <1>6, PlacesOf
<1>8. c = d /\ back.face = g /\ back.li = lj /\ back.ci = m - 1
  BY <1>6, <1>7 DEF Place
<1>9. IsPlace(x, g, lj, m) /\ HalfAt(x, g, lj, m) = <<e, d>>
  BY <1>7, <1>8 DEF IsUseAt, IsPlace, HalfAt, Half
<1>10. m \in Int
  BY <1>9 DEF IsPlace
<1>11. back.ci + 1 = m
  BY <1>8, <1>10
<1>12. [face |-> back.face, li |-> back.li, ci |-> back.ci + 1] = Position(g, lj, m)
  BY <1>8, <1>11 DEF Position
<1>13. Position(g, lj, m) \in UsesAll(x) /\ HalfOf(x, Position(g, lj, m)) = <<e, d>>
  BY <1>9, UsesMembers
<1> QED
  BY <1>2, <1>4, <1>12, <1>13

LEMMA LeavingIs ==
    ASSUME NEW x, Sound(x), Paired(x), NEW v, NEW u \in Leaving(x, v)
    PROVE  u \in UsesAll(x) /\ HalfOf(x, u) \in Halves(x) /\ TailOf(x, HalfOf(x, u)) = v
BY UsesAreHalves DEF Leaving

LEMMA UmbrellaIsWhole ==
    ASSUME NEW x, Sound(x), Paired(x), Turned(x), NEW v,
           NEW S \in SUBSET Leaving(x, v), ClosedUnder(x, S)
    PROVE  S \in {{}, Leaving(x, v)}
<1> DEFINE T == {HalfOf(x, u) : u \in S}
<1>1. ASSUME NEW l \in Content(Sides, x).links, Opp(l[1]) \in T PROVE l[2] \in T
  <2>1. PICK w \in UsesAll(x) : l[1] = HalfOf(x, w) /\ l[2] = HalfOf(x, NextUse(x, w))
    BY LinksAreNext
  <2>2. PICK u \in S : HalfOf(x, u) = Opp(l[1])
    BY <1>1
  <2>3. u \in UsesAll(x)
    BY LeavingIs
  <2>4. PICK t \in UsesAll(x) : HalfOf(x, t) = Opp(HalfOf(x, u)) /\ Turn(x, u) = NextUse(x, t)
    BY <2>3, TurnIs
  <2>5. HalfOf(x, w) \in Halves(x)
    BY UsesAreHalves
  <2>6. Opp(Opp(l[1])) = l[1]
    BY <2>1, <2>5, OppIs
  <2>7. t = w
    <3>1. HalfOf(x, t) = HalfOf(x, w)
      BY <2>1, <2>2, <2>4, <2>6
    <3> QED
      BY <3>1, UsesAreHalves
  <2>8. NextUse(x, w) \in S
    BY <2>4, <2>7 DEF ClosedUnder
  <2> QED
    BY <2>1, <2>8
<1>2. Closed(Content(Sides, x).links, T)
  <2> HIDE DEF T
  <2> QED
    BY <1>1 DEF Closed
<1>3. Fills(x, T)
  <2> HIDE DEF T
  <2> QED
    BY <1>2, TurnedAt
<1>4. ASSUME NEW u \in S, NEW w \in Leaving(x, v) PROVE w \in S
  <2>1. /\ HalfOf(x, u) \in Halves(x) /\ TailOf(x, HalfOf(x, u)) = v
    BY LeavingIs
  <2>2. w \in UsesAll(x) /\ HalfOf(x, w) \in Halves(x) /\ TailOf(x, HalfOf(x, w)) = v
    BY LeavingIs
  <2>3. HalfOf(x, u) \in T
    OBVIOUS
  <2>4. HalfOf(x, w) \in T
    <3> HIDE DEF T
    <3> QED
      BY <1>3, <2>1, <2>2, <2>3 DEF Fills
  <2>5. PICK s \in S : HalfOf(x, s) = HalfOf(x, w)
    BY <2>4
  <2>6. s \in UsesAll(x)
    BY LeavingIs
  <2>7. s = w
    BY <2>2, <2>5, <2>6, UsesAreHalves
  <2> QED
    BY <2>7
<1> QED
  BY <1>4

\* A vertex that no use leaves is on no edge.
LEMMA NothingLeaves ==
    ASSUME NEW x, Sound(x), Paired(x), NEW v
    PROVE  Leaving(x, v) = {} <=> Bare(x, v)
<1>1. ASSUME NEW u \in Leaving(x, v) PROVE ~ Bare(x, v)
  BY LeavingIs DEF Bare
<1>2. ASSUME NEW h \in Halves(x), TailOf(x, h) = v PROVE Leaving(x, v) # {}
  <2>1. PICK u \in UsesAll(x) : HalfOf(x, u) = h
    BY UsesAreHalves
  <2>2. StartOf(x, TheUse(x, u)) = v
    BY <1>2, <2>1, UsesAreHalves
  <2>3. u \in Leaving(x, v)
    BY <2>2 DEF Leaving
  <2> QED
    BY <2>3
<1> QED
  BY <1>1, <1>2 DEF Bare

\* A loop is a seed at v when v is the spot it draws.
LEMMA SeedIsSpot ==
    ASSUME NEW x, Sound(x), NEW v, NEW f \in LiveSlots(x.f), NEW li \in 1 .. Len(LoopsOf(x, f))
    PROVE  LoopsOf(x, f)[li] = Loop(<<>>, v) <=> v \in Drawn(Spots, LoopsOf(x, f)[li]).halves
<1> DEFINE l == LoopsOf(x, f)[li]
           none == <<>>
<1>1. l \in LoopsOn(LiveSlots(x.e), LiveSlots(x.v))
  BY UsesTyped
<1>2. l = [uses |-> l.uses, seed |-> l.seed]
  <2> HIDE DEF l
  <2> QED
    BY <1>1 DEF LoopsOn
<1>3. Drawn(Spots, l) = Spot(l.uses, l.seed)
  BY DrawnIs
<1>4. Loop(none, v) = [uses |-> none, seed |-> v]
  BY DEF Loop
<1> HIDE DEF l
<1>5. ASSUME l = Loop(none, v) PROVE v \in Drawn(Spots, l).halves
  <2>1. l.uses = <<>> /\ l.seed = v
    BY <1>4, <1>5
  <2> QED
    BY <1>3, <2>1, SpotIs
<1>6. ASSUME v \in Drawn(Spots, l).halves PROVE l = Loop(none, v)
  <2>1. l.uses = <<>> /\ l.seed = v
    BY <1>3, <1>6, SpotIs
  <2> QED
    BY <1>2, <1>4, <2>1
<1> QED
  BY <1>5, <1>6 DEF l

LEMMA OneSeed ==
    ASSUME NEW x, Sound(x), Spotted(x), NEW v \in LiveSlots(x.v)
    PROVE  IF Bare(x, v) THEN Cardinality(Seeded(x, v)) = 1 ELSE Seeded(x, v) = {}
<1> DEFINE c == Content(Spots, x)
           D(f, li) == Drawn(Spots, LoopsOf(x, f)[li]).halves
<1>1. c.twice = {} /\ (v \in c.halves <=> Bare(x, v))
  BY DEF Spotted
<1>2. \A at : at \in Seeded(x, v) <=> at \in AllLoops(x) /\ LoopsOf(x, at[1])[at[2]] = Loop(<<>>, v)
  BY DEF Seeded
<1>3. ASSUME NEW f \in LiveSlots(x.f), NEW li \in 1 .. Len(LoopsOf(x, f)), v \in D(f, li)
      PROVE  v \in Walked(Spots, LoopsOf(x, f)).halves /\ v \in c.halves
  <2>1. v \in Walked(Spots, LoopsOf(x, f)).halves
    BY <1>3, WalkedLoop
  <2>2. Walked(Spots, LoopsOf(x, f)).halves \subseteq c.halves
    BY WalkedFace
  <2> QED
    BY <2>1, <2>2
<1>4. ASSUME NEW f \in LiveSlots(x.f), NEW li \in 1 .. Len(LoopsOf(x, f)), v \in D(f, li),
             NEW g \in LiveSlots(x.f), NEW lj \in 1 .. Len(LoopsOf(x, g)), v \in D(g, lj)
      PROVE  f = g /\ li = lj
  <2>1. v \in Walked(Spots, LoopsOf(x, f)).halves /\ v \in Walked(Spots, LoopsOf(x, g)).halves
    BY <1>3, <1>4
  <2>2. f = g
    <3>1. f # g => Walked(Spots, LoopsOf(x, f)).halves \cap Walked(Spots, LoopsOf(x, g)).halves \subseteq c.twice
      BY WalkedFace
    <3> QED
      BY <1>1, <2>1, <3>1
  <2>3. Walked(Spots, LoopsOf(x, f)).twice = {}
    <3>1. Walked(Spots, LoopsOf(x, f)).twice \subseteq c.twice
      BY WalkedFace
    <3> QED
      BY <1>1, <3>1
  <2>4. li # lj => D(f, li) \cap D(f, lj) \subseteq Walked(Spots, LoopsOf(x, f)).twice
    BY <2>2, WalkedLoop
  <2>5. v \in D(f, li) /\ v \in D(f, lj)
    BY <1>4, <2>2
  <2> HIDE DEF D
  <2>6. li = lj
    BY <2>3, <2>4, <2>5
  <2> QED
    BY <2>2, <2>6
<1>5. ASSUME NEW at \in Seeded(x, v)
      PROVE  /\ at = <<at[1], at[2]>> /\ at[1] \in LiveSlots(x.f)
             /\ at[2] \in 1 .. Len(LoopsOf(x, at[1])) /\ v \in D(at[1], at[2])
  <2>1. /\ at \in AllLoops(x) /\ LoopsOf(x, at[1])[at[2]] = Loop(<<>>, v)
    BY <1>2
  <2>2. at = <<at[1], at[2]>> /\ at[1] \in LiveSlots(x.f) /\ at[2] \in 1 .. Len(LoopsOf(x, at[1]))
    BY <2>1, LoopsMembers
  <2> DEFINE f == at[1]
             li == at[2]
  <2>3. f \in LiveSlots(x.f) /\ li \in 1 .. Len(LoopsOf(x, f)) /\ LoopsOf(x, f)[li] = Loop(<<>>, v)
    BY <2>1, <2>2
  <2> HIDE DEF f, li
  <2>4. v \in D(f, li)
    BY <2>3, SeedIsSpot
  <2> QED
    BY <2>2, <2>4 DEF f, li
<1>6. ASSUME ~ Bare(x, v) PROVE Seeded(x, v) = {}
  <2> SUFFICES ASSUME NEW at \in Seeded(x, v) PROVE FALSE
    OBVIOUS
  <2> DEFINE f == at[1]
             li == at[2]
  <2>1. f \in LiveSlots(x.f) /\ li \in 1 .. Len(LoopsOf(x, f)) /\ v \in D(f, li)
    BY <1>5
  <2> HIDE DEF f, li, D, c
  <2> QED
    BY <1>1, <1>3, <1>6, <2>1
<1>7. ASSUME Bare(x, v) PROVE Cardinality(Seeded(x, v)) = 1
  <2>1. PICK f \in LiveSlots(x.f) : v \in Walked(Spots, LoopsOf(x, f)).halves
    BY <1>1, <1>7, FaceOfHalf
  <2>2. PICK li \in 1 .. Len(LoopsOf(x, f)) : v \in D(f, li)
    BY <2>1, LoopOfHalf
  <2> DEFINE at == <<f, li>>
  <2>3. at \in AllLoops(x) /\ at[1] = f /\ at[2] = li
    BY LoopsMembers
  <2>4. LoopsOf(x, f)[li] = Loop(<<>>, v)
    BY <2>2, SeedIsSpot
  <2>5. at \in Seeded(x, v)
    <3> HIDE DEF at
    <3> QED
      BY <1>2, <2>3, <2>4
  <2>6. ASSUME NEW to \in Seeded(x, v) PROVE to = at
    <3> DEFINE g == to[1]
               lj == to[2]
    <3>1. /\ to = <<g, lj>> /\ g \in LiveSlots(x.f) /\ lj \in 1 .. Len(LoopsOf(x, g))
          /\ v \in D(g, lj)
      BY <1>5
    <3> HIDE DEF g, lj, D, c
    <3>2. f = g /\ li = lj
      BY <1>4, <2>2, <3>1
    <3> QED
      BY <3>1, <3>2
  <2>7. Seeded(x, v) = {at}
    <3> HIDE DEF at
    <3> QED
      BY <2>5, <2>6
  <2> HIDE DEF at
  <2> QED
    BY <2>7, FS_Singleton
<1> QED
  BY <1>6, <1>7

LEMMA FannedIsManifold == Sound(b) /\ Paired(b) /\ Fanned(b) => VerticesAreManifold
<1> SUFFICES ASSUME Sound(b), Paired(b), Fanned(b), NEW v \in LiveSlots(b.v)
             PROVE  OneUmbrella(b, v)
  BY DEF VerticesAreManifold
<1>1. Turned(b) /\ Spotted(b)
  BY DEF Fanned
<1>2. Leaving(b, v) = {} <=> Bare(b, v)
  BY NothingLeaves
<1>3. IF Bare(b, v) THEN Cardinality(Seeded(b, v)) = 1 ELSE Seeded(b, v) = {}
  BY <1>1, OneSeed
<1>4. \A S \in SUBSET Leaving(b, v) : ClosedUnder(b, S) => S \in {{}, Leaving(b, v)}
  BY <1>1, UmbrellaIsWhole
<1>5. CASE Leaving(b, v) = {}
  BY <1>2, <1>3, <1>5 DEF OneUmbrella
<1>6. CASE Leaving(b, v) # {}
  BY <1>2, <1>3, <1>4, <1>6 DEF OneUmbrella
<1> QED
  BY <1>5, <1>6

AllPaired == Paired(b) /\ Fanned(b)

\* What every operator keeps of an empty builder.
THEOREM AlwaysPairedAndFanned ==
    ASSUME Starts = {EmptyBuilder}
    PROVE  Spec => [](AllSound /\ AllPaired)
<1>1. Init => AllSound /\ AllPaired
  BY EmptyBuilderIs, EmptyIsPaired DEF Init, AllSound, AllPaired
<1>2. AllSound /\ [Next]_b => AllSound'
  BY SoundStep DEF AllSound
<1>3. AllSound /\ AllPaired /\ [Next]_b => AllPaired'
  BY PairedStep DEF AllSound, AllPaired
<1> QED
  BY <1>1, <1>2, <1>3, PTL DEF Spec

\* BuildError::EdgeUses, "the operators never make one": after any sequence
\* of operators from an empty builder every live edge is used once Forward,
\* once Reversed and no other way, and every loop closes - each use ends at
\* the vertex where the next one begins.
THEOREM EdgesAlwaysPairUp ==
    ASSUME Starts = {EmptyBuilder}
    PROVE  Spec => []EdgesPairUp
<1>1. AllSound /\ AllPaired => EdgesPairUp
  BY PairedIsPairedUp DEF AllSound, AllPaired
<1> QED
  BY <1>1, AlwaysPairedAndFanned, PTL

\* After any sequence of operators from an empty builder the surface is a
\* closed manifold: no reference dangles and no freed slot is used twice, the
\* edges pair up, and the uses that leave a vertex make one umbrella - a turn
\* from one of them to what follows its edge's other use reaches them all - or
\* the vertex is the seed of one loop and on no edge.  Of the operators only kev
\* asks what else stands at a vertex it touches.
THEOREM BuilderIsAClosedManifold ==
    ASSUME Starts = {EmptyBuilder}
    PROVE  Spec => []ClosedManifold
<1>1. AllSound => TypeOK
  BY SoundIsTyped DEF AllSound
<1>2. AllSound /\ AllPaired => EdgesPairUp
  BY PairedIsPairedUp DEF AllSound, AllPaired
<1>3. AllSound /\ AllPaired => VerticesAreManifold
  BY FannedIsManifold DEF AllSound, AllPaired
<1>4. AllSound /\ AllPaired => ClosedManifold
  BY <1>1, <1>2, <1>3 DEF ClosedManifold
<1> QED
  BY <1>4, AlwaysPairedAndFanned, PTL
=============================================================================
