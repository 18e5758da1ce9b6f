------------------------ MODULE MessageStreamProofs -------------------------
(***************************************************************************)
(* Proofs about MessageStream, for any messages and splits of writes.      *)
(*                                                                         *)
(* The statuses are counted against what was dispatched (StatusInv), for   *)
(* any sender.  For a sender that waits for each write, the units the      *)
(* reader has of its message, those in the socket and those still to be    *)
(* written are one sequence, Flow; writing and reading move units within   *)
(* it, and a lost connection cuts it.  In Flow the units of a message      *)
(* follow one another (Runs) up to the last unit of the last message sent  *)
(* (Whole), and its first is the first of the next message to be dispatched*)
(* (NextToArrive), so the reader never takes a unit for another.           *)
(***************************************************************************)
EXTENDS MessageStream, TLAPS
-----------------------------------------------------------------------------
(***************************************************************************)
(* Sequences that are cut and joined.                                      *)
(***************************************************************************)
LEMMA SameElements ==
  ASSUME NEW S, NEW s \in Seq(S), NEW t \in Seq(S), Len(s) = Len(t),
         \A i \in 1 .. Len(s) : s[i] = t[i]
  PROVE  s = t
OBVIOUS

LEMMA AppendIs ==
  ASSUME NEW S, NEW s \in Seq(S), NEW e \in S
  PROVE  /\ Append(s, e) \in Seq(S) /\ Append(s, e) # <<>> /\ Len(Append(s, e)) = Len(s) + 1
         /\ Append(s, e)[Len(s) + 1] = e
OBVIOUS

LEMMA HeadTailAre ==
  ASSUME NEW S, NEW s \in Seq(S), s # <<>>
  PROVE  Head(s) \in S /\ Tail(s) \in Seq(S)
OBVIOUS

LEMMA ConcatIs ==
  ASSUME NEW S, NEW s \in Seq(S), NEW t \in Seq(S)
  PROVE  /\ s \o t \in Seq(S) /\ Len(s \o t) = Len(s) + Len(t)
         /\ \A i \in 1 .. Len(s) + Len(t) : (s \o t)[i] = IF i <= Len(s) THEN s[i] ELSE t[i - Len(s)]
OBVIOUS

LEMMA CutProperties ==
  ASSUME NEW S, NEW s \in Seq(S), NEW n \in 0 .. Len(s)
  PROVE  /\ SubSeq(s, 1, n) \in Seq(S) /\ Len(SubSeq(s, 1, n)) = n
         /\ \A i \in 1 .. n : SubSeq(s, 1, n)[i] = s[i]
         /\ SubSeq(s, n + 1, Len(s)) \in Seq(S) /\ Len(SubSeq(s, n + 1, Len(s))) = Len(s) - n
         /\ \A i \in 1 .. Len(s) - n : SubSeq(s, n + 1, Len(s))[i] = s[n + i]
OBVIOUS

\* The provers know \o too well to see that it is associative.
Join(s, t) == s \o t

IsJoin(p, s, t) ==
  /\ Len(p) = Len(s) + Len(t)
  /\ \A i \in 1 .. Len(s) : p[i] = s[i]
  /\ \A i \in 1 .. Len(t) : p[Len(s) + i] = t[i]

LEMMA JoinProperties ==
  ASSUME NEW S, NEW s \in Seq(S), NEW t \in Seq(S)
  PROVE  Join(s, t) \in Seq(S) /\ Len(Join(s, t)) = Len(s) + Len(t) /\ IsJoin(Join(s, t), s, t)
<1>1. /\ s \o t \in Seq(S) /\ Len(s \o t) = Len(s) + Len(t)
      /\ \A i \in 1 .. Len(s) + Len(t) : (s \o t)[i] = IF i <= Len(s) THEN s[i] ELSE t[i - Len(s)]
  BY ConcatIs
<1>2. Len(s) \in Nat /\ Len(t) \in Nat
  OBVIOUS
<1> DEFINE p == s \o t
<1>3. /\ p \in Seq(S) /\ Len(p) = Len(s) + Len(t)
      /\ \A i \in 1 .. Len(s) + Len(t) : p[i] = IF i <= Len(s) THEN s[i] ELSE t[i - Len(s)]
  BY <1>1
<1> HIDE DEF p
<1>4. ASSUME NEW i \in 1 .. Len(s) PROVE p[i] = s[i]
  BY <1>2, <1>3
<1>5. ASSUME NEW i \in 1 .. Len(t) PROVE p[Len(s) + i] = t[i]
  <2>1. Len(s) + i \in 1 .. Len(s) + Len(t) /\ ~(Len(s) + i <= Len(s)) /\ Len(s) + i - Len(s) = i
    BY <1>2
  <2> QED
    BY <1>3, <2>1
<1> QED
  BY <1>3, <1>4, <1>5 DEF p, Join, IsJoin

LEMMA JoinAssociative ==
  ASSUME NEW S, NEW s \in Seq(S), NEW t \in Seq(S), NEW u \in Seq(S)
  PROVE  Join(Join(s, t), u) = Join(s, Join(t, u))
BY DEF Join

LEMMA JoinEmpty ==
  ASSUME NEW S, NEW s \in Seq(S)
  PROVE  Join(s, <<>>) = s /\ Join(<<>>, s) = s
BY DEF Join

LEMMA CutJoins ==
  ASSUME NEW S, NEW s \in Seq(S), NEW n \in 0 .. Len(s)
  PROVE  Join(SubSeq(s, 1, n), SubSeq(s, n + 1, Len(s))) = s
<1> DEFINE a == SubSeq(s, 1, n)
           b == SubSeq(s, n + 1, Len(s))
           r == Join(a, b)
<1>1. /\ a \in Seq(S) /\ Len(a) = n /\ \A i \in 1 .. n : a[i] = s[i]
      /\ b \in Seq(S) /\ Len(b) = Len(s) - n /\ \A i \in 1 .. Len(s) - n : b[i] = s[n + i]
  BY CutProperties
<1> HIDE DEF a, b
<1>2. r \in Seq(S) /\ Len(r) = Len(a) + Len(b) /\ IsJoin(r, a, b)
  BY Zenon, <1>1, JoinProperties
<1> HIDE DEF r
<1>3. /\ Len(r) = Len(s) /\ \A i \in 1 .. n : r[i] = a[i]
      /\ \A i \in 1 .. Len(s) - n : r[n + i] = b[i]
  BY <1>1, <1>2 DEF IsJoin
<1>4. ASSUME NEW i \in 1 .. Len(s) PROVE r[i] = s[i]
  <2>1. CASE i <= n
    BY <1>1, <1>3, <2>1
  <2>2. CASE ~(i <= n)
    <3>1. i - n \in 1 .. Len(s) - n /\ n + (i - n) = i
      BY <2>2
    <3>2. r[n + (i - n)] = b[i - n] /\ b[i - n] = s[n + (i - n)]
      BY Zenon, <1>1, <1>3, <3>1
    <3> QED
      BY <3>1, <3>2
  <2> QED
    BY <2>1, <2>2
<1>5. r = s
  BY <1>2, <1>3, <1>4, SameElements
<1> QED
  BY Zenon, <1>5 DEF r, a, b

\* The first element of s goes to the end of t.
LEMMA MoveFirst ==
  ASSUME NEW S, NEW t \in Seq(S), NEW s \in Seq(S), NEW u \in Seq(S), s # <<>>
  PROVE  Join(Append(t, Head(s)), Join(Tail(s), u)) = Join(t, Join(s, u))
<1> DEFINE x == <<Head(s)>>
           y == Tail(s)
<1>1. x \in Seq(S) /\ y \in Seq(S)
  OBVIOUS
<1>2. Append(t, Head(s)) = Join(t, x)
  BY DEF Join
<1>3. Join(x, y) = s
  BY DEF Join
<1> HIDE DEF x, y
<1>4. Join(y, u) \in Seq(S)
  BY <1>1, JoinProperties
<1>5. Join(Join(t, x), Join(y, u)) = Join(t, Join(x, Join(y, u)))
  BY <1>1, <1>4, JoinAssociative
<1>6. Join(x, Join(y, u)) = Join(s, u)
  BY <1>1, <1>3, JoinAssociative
<1> QED
  BY Zenon, <1>2, <1>5, <1>6 DEF y

\* The first n elements of h go to the end of s.
LEMMA MoveSome ==
  ASSUME NEW S, NEW s \in Seq(S), NEW h \in Seq(S), NEW n \in 1 .. Len(h)
  PROVE  Join(Join(s, SubSeq(h, 1, n)), SubSeq(h, n + 1, Len(h))) = Join(s, h)
<1> DEFINE x == SubSeq(h, 1, n)
           y == SubSeq(h, n + 1, Len(h))
<1>1. x \in Seq(S) /\ y \in Seq(S)
  BY CutProperties
<1>2. Join(x, y) = h
  BY CutJoins
<1> HIDE DEF x, y
<1>3. Join(Join(s, x), y) = Join(s, Join(x, y))
  BY <1>1, JoinAssociative
<1> QED
  BY <1>2, <1>3 DEF x, y

LEMMA CutAtJoin ==
  ASSUME NEW S, NEW f \in Seq(S), NEW r \in Seq(S)
  PROVE  /\ f = SubSeq(Join(f, r), 1, Len(f))
         /\ r = SubSeq(Join(f, r), Len(f) + 1, Len(Join(f, r)))
<1> DEFINE p == Join(f, r)
<1>1. /\ p \in Seq(S) /\ Len(p) = Len(f) + Len(r) /\ Len(f) \in Nat /\ Len(r) \in Nat
      /\ \A i \in 1 .. Len(f) : p[i] = f[i]
      /\ \A i \in 1 .. Len(r) : p[Len(f) + i] = r[i]
  <2>1. p \in Seq(S) /\ Len(p) = Len(f) + Len(r) /\ IsJoin(p, f, r)
    BY JoinProperties
  <2> HIDE DEF p
  <2> QED
    BY <2>1 DEF IsJoin
<1> HIDE DEF p
<1>2. Len(f) \in 0 .. Len(p) /\ Len(p) - Len(f) = Len(r)
  BY <1>1
<1> DEFINE c == SubSeq(p, 1, Len(f))
           d == SubSeq(p, Len(f) + 1, Len(p))
<1>3. /\ c \in Seq(S) /\ Len(c) = Len(f) /\ \A i \in 1 .. Len(f) : c[i] = p[i]
      /\ d \in Seq(S) /\ Len(d) = Len(r) /\ \A i \in 1 .. Len(r) : d[i] = p[Len(f) + i]
  <2>1. /\ c \in Seq(S) /\ Len(c) = Len(f) /\ \A i \in 1 .. Len(f) : c[i] = p[i]
        /\ d \in Seq(S) /\ Len(d) = Len(p) - Len(f)
        /\ \A i \in 1 .. Len(p) - Len(f) : d[i] = p[Len(f) + i]
    BY <1>1, <1>2, CutProperties
  <2> HIDE DEF c, d
  <2> QED
    BY <1>2, <2>1
<1> HIDE DEF c, d
<1>4. f = c
  BY <1>1, <1>3, SameElements
<1>5. r = d
  BY <1>1, <1>3, SameElements
<1> QED
  BY <1>4, <1>5 DEF c, d, p

\* n elements of s, behind t, are taken or are left.
IsCut(p, t, s, u, n) ==
  /\ Len(t) + n \in 0 .. Len(p)
  /\ Join(t, SubSeq(s, 1, n)) = SubSeq(p, 1, Len(t) + n)
  /\ Join(SubSeq(s, n + 1, Len(s)), u) = SubSeq(p, Len(t) + n + 1, Len(p))

LEMMA CutInside ==
  ASSUME NEW S, NEW t \in Seq(S), NEW s \in Seq(S), NEW u \in Seq(S), NEW n \in 0 .. Len(s),
         NEW p, p = Join(t, Join(s, u))
  PROVE  IsCut(p, t, s, u, n)
<1> DEFINE a == SubSeq(s, 1, n)
           b == SubSeq(s, n + 1, Len(s))
<1>1. a \in Seq(S) /\ b \in Seq(S) /\ Len(a) = n
  BY CutProperties
<1>2. Join(a, b) = s
  BY CutJoins
<1> HIDE DEF a, b
<1>3. /\ Join(t, a) \in Seq(S) /\ Join(b, u) \in Seq(S) /\ Len(Join(t, a)) = Len(t) + n
  BY Zenon, <1>1, JoinProperties
<1>4. p = Join(Join(t, a), Join(b, u))
  BY <1>1, <1>2, <1>3, JoinAssociative
<1>5. /\ p \in Seq(S) /\ Len(p) = Len(t) + n + Len(Join(b, u))
  BY Zenon, <1>3, <1>4, JoinProperties
<1>6. /\ Join(t, a) = SubSeq(p, 1, Len(t) + n)
      /\ Join(b, u) = SubSeq(p, Len(t) + n + 1, Len(p))
  <2> DEFINE f == Join(t, a)
             r == Join(b, u)
  <2>1. f \in Seq(S) /\ r \in Seq(S) /\ p = Join(f, r) /\ Len(f) = Len(t) + n
    BY <1>3, <1>4
  <2> HIDE DEF f, r
  <2>2. /\ f = SubSeq(Join(f, r), 1, Len(f))
        /\ r = SubSeq(Join(f, r), Len(f) + 1, Len(Join(f, r)))
    BY Zenon, <2>1, CutAtJoin
  <2> QED
    BY <2>1, <2>2 DEF f, r
<1>7. Len(t) + n \in 0 .. Len(p)
  BY <1>3, <1>5
<1> QED
  BY <1>6, <1>7 DEF a, b, IsCut
-----------------------------------------------------------------------------
(***************************************************************************)
(* Units in the order in which the messages of s are written: the units of *)
(* a message follow one another, and after the last comes the first of the *)
(* next message.                                                           *)
(***************************************************************************)
LastUnit(m) == BodySize[m] + 1

Sound(p, s) ==
  \A i \in 1 .. Len(p) : \E j \in 1 .. Len(s), k \in Nat : k <= LastUnit(s[j]) /\ p[i] = <<s[j], k>>

RunsAt(p, s, i, j, k) ==
  /\ \A d \in Nat : i + d <= Len(p) /\ k + d <= LastUnit(s[j]) => p[i + d] = <<s[j], k + d>>
  /\ \A e \in 1 .. Len(p) : e = i + LastUnit(s[j]) + 1 - k => j < Len(s) /\ p[e] = <<s[j + 1], 0>>

Runs(p, s) ==
  \A i \in 1 .. Len(p), j \in 1 .. Len(s), k \in Nat : p[i] = <<s[j], k>> => RunsAt(p, s, i, j, k)

\* All of each message, to the last of them.
WholeAt(p, s, i, j, k) ==
  /\ i + LastUnit(s[j]) - k <= Len(p)
  /\ i + LastUnit(s[j]) - k = Len(p) => j = Len(s)

Whole(p, s) ==
  \A i \in 1 .. Len(p), j \in 1 .. Len(s), k \in Nat : p[i] = <<s[j], k>> => WholeAt(p, s, i, j, k)

LEMMA LastUnitNat ==
  ASSUME NEW s \in Seq(Msgs)
  PROVE  \A j \in 1 .. Len(s) : s[j] \in Msgs /\ LastUnit(s[j]) \in Nat /\ LastUnit(s[j]) >= 1
BY MessageStreamAssumption DEF LastUnit

LEMMA ShiftedEnd ==
  ASSUME NEW n \in Nat, NEW e \in Nat, NEW i \in Nat, NEW l \in Nat, NEW k \in Nat,
         e = i + l + 1 - k
  PROVE  n + e = n + i + l + 1 - k
OBVIOUS

LEMMA SuffixFlows ==
  ASSUME NEW s \in Seq(Msgs), NEW p, NEW q, NEW n \in Nat, Len(p) \in Nat, Len(q) \in Nat,
         Len(q) = Len(p) - n, \A i \in 1 .. Len(q) : q[i] = p[n + i],
         Sound(p, s), Runs(p, s)
  PROVE  Sound(q, s) /\ Runs(q, s) /\ (Whole(p, s) => Whole(q, s))
<1>1. \A i \in 1 .. Len(q) : n + i \in 1 .. Len(p)
  OBVIOUS
<1>2. ASSUME NEW i \in 1 .. Len(q)
      PROVE  \E j \in 1 .. Len(s), k \in Nat : k <= LastUnit(s[j]) /\ q[i] = <<s[j], k>>
  <2>1. n + i \in 1 .. Len(p) /\ q[i] = p[n + i]
    BY Zenon, <1>1
  <2>2. \E j \in 1 .. Len(s), k \in Nat : k <= LastUnit(s[j]) /\ p[n + i] = <<s[j], k>>
    BY Zenon, <2>1 DEF Sound
  <2> QED
    BY Zenon, <2>1, <2>2
<1>3. ASSUME NEW i \in 1 .. Len(q), NEW j \in 1 .. Len(s), NEW k \in Nat, q[i] = <<s[j], k>>
      PROVE  RunsAt(q, s, i, j, k) /\ (Whole(p, s) => WholeAt(q, s, i, j, k))
  <2>1. n + i \in 1 .. Len(p) /\ p[n + i] = <<s[j], k>> /\ LastUnit(s[j]) \in Nat
    BY <1>1, <1>3, LastUnitNat
  <2>2. /\ \A d \in Nat : n + i + d <= Len(p) /\ k + d <= LastUnit(s[j]) => p[n + i + d] = <<s[j], k + d>>
        /\ \A e \in 1 .. Len(p) : e = n + i + LastUnit(s[j]) + 1 - k => j < Len(s) /\ p[e] = <<s[j + 1], 0>>
    BY Zenon, <2>1 DEF Runs, RunsAt
  <2>3. ASSUME NEW d \in Nat, i + d <= Len(q), k + d <= LastUnit(s[j]) PROVE q[i + d] = <<s[j], k + d>>
    <3>1. i + d \in 1 .. Len(q) /\ n + (i + d) = n + i + d /\ n + i + d <= Len(p)
      BY <2>3
    <3> QED
      BY Zenon, <2>2, <2>3, <3>1
  <2>4. ASSUME NEW e \in 1 .. Len(q), e = i + LastUnit(s[j]) + 1 - k
        PROVE  j < Len(s) /\ q[e] = <<s[j + 1], 0>>
    <3>1. n + e \in 1 .. Len(p)
      BY <1>1
    <3>2. n + e = n + i + LastUnit(s[j]) + 1 - k
      <4>1. i \in Nat /\ e \in Nat /\ LastUnit(s[j]) \in Nat
        BY <2>1
      <4>2. e = i + LastUnit(s[j]) + 1 - k
        BY <2>4
      <4>3. n \in Nat /\ k \in Nat
        OBVIOUS
      <4> QED
        BY SMTT(30), <4>1, <4>2, <4>3, ShiftedEnd
    <3> QED
      BY Zenon, <2>2, <3>1, <3>2
  <2>5. ASSUME Whole(p, s) PROVE /\ i + LastUnit(s[j]) - k <= Len(q)
                                 /\ i + LastUnit(s[j]) - k = Len(q) => j = Len(s)
    <3>1. /\ n + i + LastUnit(s[j]) - k <= Len(p)
          /\ n + i + LastUnit(s[j]) - k = Len(p) => j = Len(s)
      BY Zenon, <2>1, <2>5 DEF Whole, WholeAt
    <3> QED
      BY <2>1, <3>1
  <2> QED
    BY Zenon, <2>3, <2>4, <2>5 DEF RunsAt, WholeAt
<1>4. Runs(q, s)
  BY <1>3 DEF Runs
<1>5. Whole(p, s) => Whole(q, s)
  BY Zenon, <1>3 DEF Whole
<1>6. Sound(q, s)
  BY Zenon, <1>2 DEF Sound
<1> QED
  BY <1>4, <1>5, <1>6

LEMMA PrefixFlows ==
  ASSUME NEW s \in Seq(Msgs), NEW p, NEW q, Len(p) \in Nat, Len(q) \in Nat,
         Len(q) <= Len(p), \A i \in 1 .. Len(q) : q[i] = p[i],
         Sound(p, s), Runs(p, s)
  PROVE  Sound(q, s) /\ Runs(q, s)
<1>1. \A i \in 1 .. Len(q) : i \in 1 .. Len(p)
  OBVIOUS
<1>2. Sound(q, s)
  BY <1>1 DEF Sound
<1>3. ASSUME NEW i \in 1 .. Len(q), NEW j \in 1 .. Len(s), NEW k \in Nat, q[i] = <<s[j], k>>
      PROVE  RunsAt(q, s, i, j, k)
  <2>1. i \in 1 .. Len(p) /\ p[i] = <<s[j], k>>
    BY <1>1, <1>3
  <2>2. /\ \A d \in Nat : i + d <= Len(p) /\ k + d <= LastUnit(s[j]) => p[i + d] = <<s[j], k + d>>
        /\ \A e \in 1 .. Len(p) : e = i + LastUnit(s[j]) + 1 - k => j < Len(s) /\ p[e] = <<s[j + 1], 0>>
    BY Zenon, <2>1 DEF Runs, RunsAt
  <2>3. \A d \in Nat : i + d <= Len(q) => i + d \in 1 .. Len(q) /\ i + d <= Len(p)
    OBVIOUS
  <2> QED
    BY Zenon, <1>1, <2>2, <2>3 DEF RunsAt
<1> QED
  BY <1>2, <1>3 DEF Runs
\* A message that was not sent before has no units yet.
NewTo(p, s, m, z) ==
  /\ z \in Seq(Msgs) /\ Len(s) \in Nat /\ Len(z) = Len(s) + 1 /\ z[Len(s) + 1] = m
  /\ \A j \in 1 .. Len(s) : j \in 1 .. Len(z) /\ z[j] = s[j]
  /\ \A i \in 1 .. Len(p), j \in 1 .. Len(z), k \in Nat : p[i] = <<z[j], k>> => j \in 1 .. Len(s)

LEMMA OldUnits ==
  ASSUME NEW s \in Seq(Msgs), NEW m \in Msgs, \A j \in 1 .. Len(s) : s[j] # m,
         NEW z, z = Append(s, m), NEW p, Len(p) \in Nat, Sound(p, s)
  PROVE  NewTo(p, s, m, z)
<1>1. z \in Seq(Msgs) /\ Len(s) \in Nat /\ Len(z) = Len(s) + 1 /\ z[Len(s) + 1] = m
  OBVIOUS
<1>2. \A j \in 1 .. Len(s) : j \in 1 .. Len(z) /\ z[j] = s[j]
  OBVIOUS
<1>3. ASSUME NEW i \in 1 .. Len(p), NEW j \in 1 .. Len(z), NEW k \in Nat, p[i] = <<z[j], k>>
      PROVE  j \in 1 .. Len(s)
  <2>1. PICK x \in 1 .. Len(s), y \in Nat : p[i] = <<s[x], y>>
    BY DEF Sound
  <2>2. z[j] = s[x]
    BY <1>3, <2>1
  <2>3. j # Len(s) + 1
    BY <1>1, <2>2
  <2> QED
    BY <1>1, <2>3
<1> QED
  BY <1>1, <1>2, <1>3 DEF NewTo

LEMMA GrownFlows ==
  ASSUME NEW s \in Seq(Msgs), NEW m \in Msgs, \A j \in 1 .. Len(s) : s[j] # m,
         NEW z, z = Append(s, m), NEW p, Len(p) \in Nat, Sound(p, s), Runs(p, s)
  PROVE  Sound(p, z) /\ Runs(p, z)
<1>1. /\ z \in Seq(Msgs) /\ Len(z) = Len(s) + 1
      /\ \A j \in 1 .. Len(s) : j \in 1 .. Len(z) /\ z[j] = s[j]
      /\ \A i \in 1 .. Len(p), j \in 1 .. Len(z), k \in Nat :
           p[i] = <<z[j], k>> => j \in 1 .. Len(s)
  <2>1. NewTo(p, s, m, z)
    BY Zenon, OldUnits
  <2> QED
    BY <2>1 DEF NewTo
<1>2. Sound(p, z)
  BY Zenon, <1>1 DEF Sound
<1>3. ASSUME NEW i \in 1 .. Len(p), NEW j \in 1 .. Len(z), NEW k \in Nat, p[i] = <<z[j], k>>
      PROVE  RunsAt(p, z, i, j, k)
  <2>1. j \in 1 .. Len(s) /\ z[j] = s[j] /\ p[i] = <<s[j], k>>
    BY <1>1, <1>3
  <2>2. RunsAt(p, s, i, j, k)
    BY <2>1 DEF Runs
  <2>3. j < Len(s) => z[j + 1] = s[j + 1] /\ j < Len(z)
    BY <1>1, <2>1
  <2> QED
    BY Zenon, <2>1, <2>2, <2>3 DEF RunsAt
<1> QED
  BY <1>2, <1>3 DEF Runs

LEMMA UnitsOf ==
  ASSUME NEW m \in Msgs
  PROVE  /\ Units(m) \in Seq(Msgs \X Nat) /\ Len(Units(m)) = LastUnit(m) + 1
         /\ LastUnit(m) \in Nat /\ LastUnit(m) >= 1
         /\ \A i \in 1 .. LastUnit(m) + 1 : Units(m)[i] = <<m, i - 1>>
<1>1. BodySize[m] \in Nat /\ BodySize[m] + 2 = LastUnit(m) + 1
  BY MessageStreamAssumption DEF LastUnit
<1>2. Units(m) = [i \in 1 .. LastUnit(m) + 1 |-> <<m, i - 1>>]
  BY <1>1 DEF Units
<1>3. LastUnit(m) \in Nat /\ LastUnit(m) >= 1
  BY <1>1 DEF LastUnit
<1>4. \A i \in 1 .. LastUnit(m) + 1 : i - 1 \in Nat
  BY <1>3
<1>5. \A i \in 1 .. LastUnit(m) + 1 : <<m, i - 1>> \in Msgs \X Nat
  BY <1>4
<1>6. Units(m) \in [1 .. LastUnit(m) + 1 -> Msgs \X Nat]
  BY <1>2, <1>5
<1>7. Units(m) \in Seq(Msgs \X Nat) /\ Len(Units(m)) = LastUnit(m) + 1
  BY <1>3, <1>6
<1> QED
  BY <1>2, <1>3, <1>7

LEMMA SentFlows ==
  ASSUME NEW s \in Seq(Msgs), NEW m \in Msgs, \A j \in 1 .. Len(s) : s[j] # m,
         NEW z, z = Append(s, m), NEW p, Len(p) \in Nat, Sound(p, s), Runs(p, s), Whole(p, s),
         NEW q, IsJoin(q, p, Units(m))
  PROVE  Sound(q, z) /\ Runs(q, z) /\ Whole(q, z)
<1> DEFINE l == LastUnit(m)
           n == Len(p)
<1>1. /\ z \in Seq(Msgs) /\ Len(s) \in Nat /\ Len(z) = Len(s) + 1 /\ z[Len(s) + 1] = m
      /\ \A j \in 1 .. Len(s) : j \in 1 .. Len(z) /\ z[j] = s[j]
      /\ \A i \in 1 .. n, j \in 1 .. Len(z), k \in Nat : p[i] = <<z[j], k>> => j \in 1 .. Len(s)
  <2>1. NewTo(p, s, m, z)
    BY Zenon, OldUnits
  <2> QED
    BY <2>1 DEF NewTo
<1>2. /\ l \in Nat /\ n \in Nat /\ Len(q) = n + l + 1
      /\ \A i \in 1 .. n : q[i] = p[i]
      /\ \A i \in 1 .. l + 1 : q[n + i] = <<m, i - 1>>
  <2> DEFINE u == Units(m)
  <2>1. l \in Nat /\ Len(u) = l + 1 /\ \A i \in 1 .. l + 1 : u[i] = <<m, i - 1>>
    BY Zenon, UnitsOf
  <2>2. IsJoin(q, p, u)
    OBVIOUS
  <2> HIDE DEF l, u
  <2>3. /\ Len(q) = n + Len(u) /\ \A i \in 1 .. n : q[i] = p[i]
        /\ \A i \in 1 .. Len(u) : q[n + i] = u[i]
    BY Zenon, <2>2 DEF IsJoin
  <2>4. n \in Nat
    OBVIOUS
  <2> HIDE DEF n
  <2>5. Len(q) = n + l + 1
    BY <2>1, <2>3, <2>4
  <2>6. ASSUME NEW i \in 1 .. l + 1 PROVE q[n + i] = <<m, i - 1>>
    BY <2>1, <2>3
  <2> QED
    BY ZenonT(30), <2>1, <2>3, <2>4, <2>5, <2>6
<1> HIDE DEF l, n
<1>3. ASSUME NEW i \in 1 .. Len(q), ~(i <= n)
      PROVE  i - n - 1 \in Nat /\ i - n - 1 <= l /\ q[i] = <<m, i - n - 1>>
  <2>1. i - n \in 1 .. l + 1 /\ n + (i - n) = i /\ i - n - 1 \in Nat /\ i - n - 1 <= l
    BY <1>2, <1>3
  <2> QED
    BY Zenon, <1>2, <2>1
<1>4. ASSUME NEW i \in 1 .. Len(q)
      PROVE  \E j \in 1 .. Len(z), k \in Nat : k <= LastUnit(z[j]) /\ q[i] = <<z[j], k>>
  <2>1. CASE i <= n
    <3>1. i \in 1 .. n
      BY <1>2, <2>1
    <3>2. PICK j \in 1 .. Len(s), k \in Nat : k <= LastUnit(s[j]) /\ p[i] = <<s[j], k>>
      BY <3>1 DEF Sound, n
    <3> QED
      BY Zenon, <1>1, <1>2, <3>1, <3>2
  <2>2. CASE ~(i <= n)
    <3>1. Len(s) + 1 \in 1 .. Len(z) /\ i - n - 1 \in Nat
      BY <1>1, <1>3, <2>2
    <3> QED
      BY <1>1, <1>3, <2>2, <3>1 DEF l
  <2> QED
    BY ZenonT(30), <2>1, <2>2
<1>5. ASSUME NEW i \in 1 .. Len(q), NEW j \in 1 .. Len(z), NEW k \in Nat, q[i] = <<z[j], k>>
      PROVE  RunsAt(q, z, i, j, k) /\ WholeAt(q, z, i, j, k)
  <2>1. CASE i <= n
    <3>1. i \in 1 .. n /\ p[i] = <<z[j], k>>
      BY <1>2, <1>5, <2>1
    <3>2. j \in 1 .. Len(s) /\ z[j] = s[j] /\ p[i] = <<s[j], k>>
      BY <1>1, <3>1
    <3>3. RunsAt(p, s, i, j, k) /\ WholeAt(p, s, i, j, k)
      BY <3>1, <3>2 DEF Runs, Whole, n
    <3>4. LastUnit(s[j]) \in Nat
      BY <3>2, LastUnitNat
    <3>5. ASSUME NEW d \in Nat, k + d <= LastUnit(z[j]) PROVE q[i + d] = <<z[j], k + d>>
      <4>1. i + d \in 1 .. n
        <5> DEFINE u == LastUnit(s[j])
        <5>1. i + u - k <= n
          BY <3>3 DEF WholeAt, n
        <5>2. i \in 1 .. n /\ k \in Nat /\ u \in Nat /\ n \in Nat /\ k + d <= u
          BY <1>2, <3>1, <3>2, <3>4, <3>5
        <5> HIDE DEF u
        <5> QED
          BY <5>1, <5>2
      <4> QED
        BY <1>2, <3>2, <3>3, <3>5, <4>1 DEF RunsAt, n
    <3>6. ASSUME NEW e \in 1 .. Len(q), e = i + LastUnit(z[j]) + 1 - k
          PROVE  j < Len(z) /\ q[e] = <<z[j + 1], 0>>
      <4>1. j < Len(z)
        BY <1>1, <3>2
      <4>2. e = i + LastUnit(s[j]) + 1 - k
        BY <3>2, <3>6
      <4>3. e <= n + 1 /\ (e = n + 1 => j = Len(s))
        <5> DEFINE u == LastUnit(s[j])
        <5>1. i + u - k <= n /\ (i + u - k = n => j = Len(s))
          BY <3>3 DEF WholeAt, n
        <5>2. i \in Nat /\ k \in Nat /\ u \in Nat /\ n \in Nat /\ e = i + u + 1 - k
          BY <1>2, <3>1, <3>4, <4>2
        <5> HIDE DEF u
        <5> QED
          BY <5>1, <5>2
      <4>4. CASE e <= n
        <5>1. e \in 1 .. n
          BY <1>2, <4>4
        <5>2. j < Len(s) /\ p[e] = <<s[j + 1], 0>>
          BY <3>3, <4>2, <5>1 DEF RunsAt, n
        <5>3. z[j + 1] = s[j + 1]
          BY <1>1, <3>2, <5>2
        <5> QED
          BY <1>2, <4>1, <5>1, <5>2, <5>3
      <4>5. CASE e = n + 1
        <5>1. 1 \in 1 .. l + 1 /\ 1 - 1 = 0
          BY <1>2
        <5>2. q[n + 1] = <<m, 0>>
          BY <1>2, <5>1
        <5> QED
          BY <1>1, <4>1, <4>3, <4>5, <5>2
      <4> QED
        BY SMTT(30), <1>2, <4>3, <4>4, <4>5
    <3>7. WholeAt(q, z, i, j, k)
      BY <1>2, <3>2, <3>3, <3>4 DEF WholeAt, n
    <3> QED
      BY Zenon, <3>5, <3>6, <3>7 DEF RunsAt
  <2>2. CASE ~(i <= n)
    <3>1. z[j] = m /\ k = i - n - 1
      BY <1>3, <1>5, <2>2
    <3>2. j = Len(s) + 1
      BY <1>1, <3>1
    <3>3. ASSUME NEW d \in Nat, i + d <= Len(q) PROVE q[i + d] = <<z[j], k + d>>
      <4>1. i + d \in 1 .. Len(q) /\ ~(i + d <= n) /\ (i + d) - n - 1 = k + d
        BY <1>2, <2>2, <3>1, <3>3
      <4> QED
        BY <1>3, <3>1, <4>1
    <3>4. i + LastUnit(z[j]) - k = Len(q) /\ j = Len(z)
      BY <1>1, <1>2, <3>1, <3>2 DEF l
    <3>5. i + LastUnit(z[j]) + 1 - k = Len(q) + 1
      <4>1. LastUnit(z[j]) = l /\ l \in Nat /\ n \in Nat /\ Len(q) = n + l + 1 /\ i \in Int
        BY <1>2, <3>1 DEF l
      <4>2. i + l + 1 - (i - n - 1) = n + l + 1 + 1
        BY <4>1
      <4> QED
        BY <3>1, <4>1, <4>2
    <3>6. ~(\E e \in 1 .. Len(q) : e = i + LastUnit(z[j]) + 1 - k)
      BY <1>2, <3>5
    <3>7. RunsAt(q, z, i, j, k)
      BY Zenon, <3>3, <3>6 DEF RunsAt
    <3>8. WholeAt(q, z, i, j, k)
      BY <1>2, <3>4 DEF WholeAt
    <3> QED
      BY <3>7, <3>8
  <2> QED
    BY <2>1, <2>2
<1> QED
  BY Zenon, <1>4, <1>5 DEF Sound, Runs, Whole

\* What is read first is the first message, and the next begins behind it.
StartsWith(p, s, j, n) ==
  /\ SubSeq(p, 1, n) = Units(s[j])
  /\ n < Len(p) => j < Len(s) /\ p[n + 1] = <<s[j + 1], 0>>

LEMMA FirstMessage ==
  ASSUME NEW s \in Seq(Msgs), NEW p \in Seq(Msgs \X Nat), NEW j \in 1 .. Len(s),
         NEW n \in Nat, n = LastUnit(s[j]) + 1, n <= Len(p),
         p[1] = <<s[j], 0>>, Runs(p, s)
  PROVE  StartsWith(p, s, j, n)
<1>1. LastUnit(s[j]) \in Nat /\ s[j] \in Msgs /\ Len(p) \in Nat /\ 1 \in 1 .. Len(p) /\ 0 \in Nat
  BY LastUnitNat
<1>2. RunsAt(p, s, 1, j, 0)
  BY <1>1 DEF Runs
<1>3. \A d \in Nat : 1 + d <= Len(p) /\ 0 + d <= LastUnit(s[j]) => p[1 + d] = <<s[j], 0 + d>>
  BY <1>2 DEF RunsAt
<1> DEFINE a == SubSeq(p, 1, n)
           u == Units(s[j])
<1>4. a \in Seq(Msgs \X Nat) /\ Len(a) = n /\ \A i \in 1 .. n : a[i] = p[i]
  <2>1. n \in 0 .. Len(p)
    BY <1>1
  <2> QED
    BY <2>1, CutProperties
<1>5. u \in Seq(Msgs \X Nat) /\ Len(u) = n /\ \A i \in 1 .. n : u[i] = <<s[j], i - 1>>
  BY Zenon, <1>1, UnitsOf
<1> HIDE DEF a, u
<1>6. ASSUME NEW i \in 1 .. n PROVE a[i] = u[i]
  <2>1. /\ i - 1 \in Nat /\ 1 + (i - 1) = i /\ 0 + (i - 1) = i - 1 /\ i <= Len(p)
        /\ i - 1 <= LastUnit(s[j])
    BY <1>1
  <2>2. p[i] = <<s[j], i - 1>>
    BY <1>3, <2>1
  <2> QED
    BY Zenon, <1>4, <1>5, <2>2
<1>7. a = u
  BY <1>4, <1>5, <1>6, SameElements
<1>8. ASSUME n < Len(p) PROVE j < Len(s) /\ p[n + 1] = <<s[j + 1], 0>>
  <2>1. n + 1 \in 1 .. Len(p) /\ n + 1 = 1 + LastUnit(s[j]) + 1 - 0
    BY SMTT(30), <1>1, <1>8
  <2>2. \A e \in 1 .. Len(p) :
          e = 1 + LastUnit(s[j]) + 1 - 0 => j < Len(s) /\ p[e] = <<s[j + 1], 0>>
    BY Zenon, <1>2 DEF RunsAt
  <2> QED
    BY Zenon, <2>1, <2>2
<1> QED
  BY <1>7, <1>8 DEF a, u, StartsWith

LEMMA LastMessage ==
  ASSUME NEW s \in Seq(Msgs), NEW p \in Seq(Msgs \X Nat), NEW j \in 1 .. Len(s),
         p # <<>>, p[1] = <<s[j], 0>>, Whole(p, s)
  PROVE  Len(p) = LastUnit(s[j]) + 1 => j = Len(s)
<1>1. LastUnit(s[j]) \in Nat /\ Len(p) \in Nat /\ 1 \in 1 .. Len(p) /\ 0 \in Nat
  BY LastUnitNat
<1>2. WholeAt(p, s, 1, j, 0)
  BY <1>1 DEF Whole
<1> QED
  BY <1>1, <1>2 DEF WholeAt
-----------------------------------------------------------------------------
(***************************************************************************)
(* Types, and the statuses: one success for each message dispatched, and   *)
(* then the error of the read that stops the reader.                       *)
(***************************************************************************)
StatusesCount ==
  /\ Len(statuses) = IF phase = "stopped" THEN Len(received) + 1 ELSE Len(received)
  /\ \A i \in 1 .. Len(statuses) : statuses[i] = IF i <= Len(received) THEN "success" ELSE "error"

StatusInv ==
  /\ StreamTypeOK
  /\ phase \in {"size", "content"} => taken # <<>>
  /\ StatusesCount

LEMMA StatusInit == StreamInit => StatusInv
<1> SUFFICES ASSUME StreamInit PROVE StatusInv
  OBVIOUS
<1>1. StreamTypeOK
  <2>1. /\ <<>> \in Seq(Msgs) /\ <<>> \in Seq(Msgs \X Nat) /\ <<>> \in Seq(Seq(Msgs \X Nat))
        /\ <<>> \in Seq(Msgs \cup {Garbage}) /\ <<>> \in Seq({"success", "error"}) /\ 0 \in Nat
    OBVIOUS
  <2>2. /\ sent = <<>> /\ writes = <<>> /\ stream = <<>> /\ written = {} /\ phase = "idle"
        /\ taken = <<>> /\ need = 0 /\ received = <<>> /\ statuses = <<>> /\ broken = FALSE
    BY DEF StreamInit
  <2>3. sent \in Seq(Msgs) /\ writes \in Seq(Seq(Msgs \X Nat)) /\ stream \in Seq(Msgs \X Nat)
    BY <2>1, <2>2, Zenon
  <2>4. /\ taken \in Seq(Msgs \X Nat) /\ need \in Nat /\ received \in Seq(Msgs \cup {Garbage})
        /\ statuses \in Seq({"success", "error"})
    BY <2>1, <2>2, Zenon
  <2>5. written \subseteq Msgs /\ phase \in {"idle", "type", "size", "content", "stopped"}
    BY <2>2
  <2>6. broken \in BOOLEAN
    BY Zenon, <2>2
  <2> QED
    BY <2>3, <2>4, <2>5, <2>6 DEF StreamTypeOK
<1>2. Len(received) = 0 /\ Len(statuses) = 0 /\ phase = "idle"
  BY DEF StreamInit
<1> QED
  BY <1>1, <1>2 DEF StatusInv, StatusesCount

\* A read that fails is the last, with an error after the successes.
LEMMA ErrorStatus ==
  ASSUME StreamTypeOK, StatusesCount, phase # "stopped", ReadError, UNCHANGED received
  PROVE  statuses' \in Seq({"success", "error"}) /\ StatusesCount'
<1>1. Len(received) \in Nat /\ statuses \in Seq({"success", "error"})
  BY DEF StreamTypeOK
<1>2. statuses' = Append(statuses, "error") /\ phase' = "stopped" /\ received' = received
  BY DEF ReadError
<1>3. Len(statuses) = Len(received) /\ \A i \in 1 .. Len(received) : statuses[i] = "success"
  BY <1>1 DEF StatusesCount
<1>4. /\ statuses' \in Seq({"success", "error"}) /\ Len(statuses') = Len(received) + 1
      /\ \A i \in 1 .. Len(received) : statuses'[i] = "success"
      /\ statuses'[Len(received) + 1] = "error"
  BY <1>1, <1>2, <1>3
<1> QED
  BY <1>1, <1>2, <1>4 DEF StatusesCount

LEMMA SuccessStatus ==
  ASSUME StreamTypeOK, StatusesCount, phase # "stopped", phase' = "idle",
         NEW m \in Msgs \cup {Garbage}, received' = Append(received, m),
         statuses' = Append(statuses, "success")
  PROVE  /\ received' \in Seq(Msgs \cup {Garbage}) /\ statuses' \in Seq({"success", "error"})
         /\ StatusesCount'
<1>1. /\ Len(received) \in Nat /\ received \in Seq(Msgs \cup {Garbage})
      /\ statuses \in Seq({"success", "error"})
  BY DEF StreamTypeOK
<1>2. Len(statuses) = Len(received) /\ \A i \in 1 .. Len(received) : statuses[i] = "success"
  BY <1>1 DEF StatusesCount
<1>3. Len(received') = Len(received) + 1 /\ received' \in Seq(Msgs \cup {Garbage})
  BY <1>1
<1>4. /\ statuses' \in Seq({"success", "error"}) /\ Len(statuses') = Len(received) + 1
      /\ \A i \in 1 .. Len(received) + 1 : statuses'[i] = "success"
  BY <1>1, <1>2
<1> QED
  BY <1>1, <1>3, <1>4 DEF StatusesCount

LEMMA StatusWriter ==
  ASSUME StatusInv, (\E m \in Msgs : write_message(m)) \/ Write \/ Disconnected
  PROVE  StatusInv'
<1> USE DEF StatusInv
<1>1. /\ sent \in Seq(Msgs) /\ written \subseteq Msgs
      /\ writes \in Seq(Seq(Msgs \X Nat)) /\ stream \in Seq(Msgs \X Nat) /\ broken \in BOOLEAN
  BY DEF StreamTypeOK
<1>2. ASSUME UNCHANGED reader
      PROVE  /\ phase' \in {"size", "content"} => taken' # <<>>
             /\ StatusesCount'
             /\ phase' \in {"idle", "type", "size", "content", "stopped"}
             /\ taken' \in Seq(Msgs \X Nat) /\ need' \in Nat
             /\ received' \in Seq(Msgs \cup {Garbage})
             /\ statuses' \in Seq({"success", "error"})
  <2>1. phase' = phase /\ taken' = taken /\ need' = need /\ received' = received /\ statuses' = statuses
    BY <1>2 DEF reader
  <2> QED
    BY <2>1 DEF StatusesCount, StreamTypeOK
<1>3. UNCHANGED reader
  BY DEF write_message, Write, WriteSome, WriteFails, Disconnected
<1>4. /\ sent' \in Seq(Msgs) /\ written' \subseteq Msgs
      /\ writes' \in Seq(Seq(Msgs \X Nat)) /\ stream' \in Seq(Msgs \X Nat) /\ broken' \in BOOLEAN
  <2>1. ASSUME NEW m \in Msgs, write_message(m) PROVE <1>4!:
    <3>1. Units(m) \in Seq(Msgs \X Nat)
      BY UnitsOf
    <3>2. /\ sent' = Append(sent, m) /\ writes' = Append(writes, Units(m))
          /\ stream' = stream /\ written' = written /\ broken' = broken
      BY <2>1 DEF write_message
    <3>3. writes' \in Seq(Seq(Msgs \X Nat))
      BY <1>1, <3>1, <3>2, AppendIs
    <3> QED
      BY <1>1, <3>2, <3>3
  <2>2. ASSUME WriteSome PROVE <1>4!:
    <3> DEFINE h == Head(writes)
    <3>1. /\ writes # <<>> /\ sent' = sent /\ broken' = broken
      BY <2>2 DEF WriteSome
    <3>2. PICK n \in 1 .. Len(h) :
            LET left == SubSeq(h, n + 1, Len(h)) IN
            /\ stream' = stream \o SubSeq(h, 1, n)
            /\ writes' = IF left = <<>> THEN Tail(writes) ELSE Append(Tail(writes), left)
            /\ written' = IF left = <<>> THEN written \cup {Head(h)[1]} ELSE written
      BY Zenon, <2>2 DEF WriteSome
    <3>3. h \in Seq(Msgs \X Nat) /\ Tail(writes) \in Seq(Seq(Msgs \X Nat))
      BY <1>1, <3>1, HeadTailAre
    <3> HIDE DEF h
    <3>4. n \in 0 .. Len(h) /\ h # <<>> /\ Head(h) \in Msgs \X Nat
      BY <3>3
    <3>5. SubSeq(h, 1, n) \in Seq(Msgs \X Nat) /\ SubSeq(h, n + 1, Len(h)) \in Seq(Msgs \X Nat)
      BY Zenon, <3>3, <3>4, CutProperties
    <3>6. stream' \in Seq(Msgs \X Nat)
      BY <1>1, <3>2, <3>5, ConcatIs
    <3>7. Append(Tail(writes), SubSeq(h, n + 1, Len(h))) \in Seq(Seq(Msgs \X Nat))
      BY <3>3, <3>5, AppendIs
    <3>8. Head(h)[1] \in Msgs
      BY <3>4
    <3> QED
      BY Zenon, <1>1, <3>1, <3>2, <3>3, <3>6, <3>7, <3>8
  <2>3. ASSUME WriteFails PROVE <1>4!:
    <3>1. Tail(writes) \in Seq(Seq(Msgs \X Nat))
      BY <1>1, <2>3, HeadTailAre DEF WriteFails
    <3> QED
      BY <1>1, <2>3, <3>1 DEF WriteFails
  <2>4. ASSUME Disconnected PROVE <1>4!:
    <3>1. PICK n \in 0 .. Len(stream) : stream' = SubSeq(stream, 1, n)
      BY <2>4 DEF Disconnected
    <3>2. stream' \in Seq(Msgs \X Nat)
      BY <1>1, <3>1, CutProperties
    <3> QED
      BY <1>1, <2>4, <3>2 DEF Disconnected, writer
  <2> QED
    BY <2>1, <2>2, <2>3, <2>4 DEF Write
<1> QED
  BY <1>2, <1>3, <1>4 DEF StreamTypeOK
LEMMA StatusReader ==
  ASSUME StatusInv, Read
  PROVE  StatusInv'
<1> USE DEF StatusInv
<1>1. /\ sent \in Seq(Msgs) /\ written \subseteq Msgs
      /\ writes \in Seq(Seq(Msgs \X Nat)) /\ stream \in Seq(Msgs \X Nat) /\ broken \in BOOLEAN
      /\ taken \in Seq(Msgs \X Nat) /\ need \in Nat /\ received \in Seq(Msgs \cup {Garbage})
      /\ statuses \in Seq({"success", "error"})
  BY DEF StreamTypeOK
<1>2. UNCHANGED writer /\ UNCHANGED broken
  BY Zenon DEF Read, read_message, ReadFails, after_read_message_type, after_read_message_content,
         after_read_message_size
<1>3. sent' = sent /\ writes' = writes /\ written' = written /\ broken' = broken
  BY <1>2 DEF writer
<1>4. stream # <<>> => Head(stream) \in Msgs \X Nat /\ Tail(stream) \in Seq(Msgs \X Nat)
  BY <1>1
<1> DEFINE Result == /\ stream' \in Seq(Msgs \X Nat) /\ taken' \in Seq(Msgs \X Nat) /\ need' \in Nat
                     /\ phase' \in {"idle", "type", "size", "content", "stopped"}
                     /\ received' \in Seq(Msgs \cup {Garbage})
                     /\ statuses' \in Seq({"success", "error"})
                     /\ phase' \in {"size", "content"} => taken' # <<>>
                     /\ StatusesCount'
<1>5. ASSUME phase # "stopped", phase' # "stopped", UNCHANGED <<received, statuses>>
      PROVE  StatusesCount'
  BY <1>5 DEF StatusesCount
<1>6. ASSUME read_message PROVE Result
  <2>1. /\ phase = "idle" /\ phase' = "type" /\ taken' = <<>>
        /\ need' = need /\ received' = received /\ statuses' = statuses /\ stream' = stream
    BY <1>6 DEF read_message
  <2>2. StatusesCount'
    BY <1>5, <2>1
  <2> QED
    BY <1>1, <2>1, <2>2
<1>7. ASSUME ReadFails PROVE Result
  <2>1. /\ phase # "stopped" /\ ReadError /\ phase' = "stopped" /\ taken' = taken
        /\ need' = need /\ received' = received /\ stream' = stream
    BY <1>7 DEF ReadFails, ReadError
  <2>2. statuses' \in Seq({"success", "error"}) /\ StatusesCount'
    BY <2>1, ErrorStatus
  <2> QED
    BY <1>1, <2>1, <2>2
<1>8. ASSUME NEW ok \in BOOLEAN, after_read_message_type(ok) PROVE Result
  <2>1. /\ phase = "type" /\ stream # <<>> /\ stream' = Tail(stream) /\ taken' = <<Head(stream)>>
        /\ need' = need /\ received' = received
        /\ IF ok THEN phase' = "size" /\ UNCHANGED statuses ELSE ReadError
    BY <1>8 DEF after_read_message_type
  <2>2. taken' \in Seq(Msgs \X Nat) /\ taken' # <<>>
    BY <1>4, <2>1
  <2>3. CASE ok
    BY <1>1, <1>4, <1>5, <2>1, <2>2, <2>3
  <2>4. CASE ~ok
    <3>1. phase # "stopped" /\ ReadError /\ phase' = "stopped" /\ received' = received
      BY <2>1, <2>4 DEF ReadError
    <3>2. statuses' \in Seq({"success", "error"}) /\ StatusesCount'
      BY <3>1, ErrorStatus
    <3> QED
      BY <1>1, <1>4, <2>1, <2>2, <3>1, <3>2
  <2> QED
    BY <2>3, <2>4
<1>9. ASSUME NEW size \in Sizes, after_read_message_size(size) PROVE Result
  <2>1. /\ phase = "size" /\ stream # <<>> /\ stream' = Tail(stream)
        /\ taken' = Append(taken, Head(stream)) /\ need' = size /\ received' = received
        /\ IF size > MaxSize THEN ReadError ELSE phase' = "content" /\ UNCHANGED statuses
    BY <1>9 DEF after_read_message_size
  <2>2. taken' \in Seq(Msgs \X Nat) /\ taken' # <<>>
    <3> DEFINE x == Head(stream)
    <3>1. x \in Msgs \X Nat /\ taken' = Append(taken, x)
      BY <1>4, <2>1
    <3> HIDE DEF x
    <3> QED
      BY <1>1, <3>1, AppendIs
  <2>3. size \in Nat
    BY MessageStreamAssumption DEF Sizes
  <2>4. CASE ~(size > MaxSize)
    BY SMTT(30), <1>1, <1>4, <1>5, <2>1, <2>2, <2>3, <2>4
  <2>5. CASE size > MaxSize
    <3>1. phase # "stopped" /\ ReadError /\ phase' = "stopped" /\ received' = received
      BY <2>1, <2>5 DEF ReadError
    <3>2. statuses' \in Seq({"success", "error"}) /\ StatusesCount'
      BY SMTT(30), <3>1, ErrorStatus
    <3> QED
      BY <1>1, <1>4, <2>1, <2>2, <2>3, <3>1, <3>2
  <2> QED
    BY <2>4, <2>5
<1>10. ASSUME NEW ok \in BOOLEAN, after_read_message_content(ok) PROVE Result
  <2> DEFINE all == taken \o SubSeq(stream, 1, need)
             m == Head(all)[1]
             r == IF all = Units(m) THEN m ELSE Garbage
  <2>1. /\ phase = "content" /\ Len(stream) >= need /\ taken' = taken /\ need' = need
        /\ stream' = SubSeq(stream, need + 1, Len(stream))
    BY <1>10 DEF after_read_message_content
  <2>2. IF ok THEN /\ received' = Append(received, r)
                   /\ statuses' = Append(statuses, "success")
                   /\ phase' = "idle"
              ELSE ReadError /\ UNCHANGED received
    BY Zenon, <1>10 DEF after_read_message_content
  <2>3. need \in 0 .. Len(stream)
    BY <1>1, <2>1
  <2>4. SubSeq(stream, 1, need) \in Seq(Msgs \X Nat) /\ stream' \in Seq(Msgs \X Nat)
    BY Zenon, <1>1, <2>1, <2>3, CutProperties
  <2>5. all \in Seq(Msgs \X Nat) /\ all # <<>>
    <3> DEFINE x == SubSeq(stream, 1, need)
    <3>1. x \in Seq(Msgs \X Nat) /\ taken # <<>> /\ taken \in Seq(Msgs \X Nat)
      BY <1>1, <2>1, <2>4
    <3> HIDE DEF x
    <3>2. taken \o x \in Seq(Msgs \X Nat) /\ taken \o x # <<>>
      BY <3>1
    <3> QED
      BY <3>2 DEF x
  <2> HIDE DEF all
  <2>6. m \in Msgs
    BY <2>5
  <2> HIDE DEF m
  <2>7. r \in Msgs \cup {Garbage}
    BY <2>6
  <2> HIDE DEF r
  <2>8. CASE ok
    <3>1. /\ received' = Append(received, r) /\ statuses' = Append(statuses, "success")
          /\ phase' = "idle" /\ phase # "stopped"
      BY <2>1, <2>2, <2>8
    <3>2. /\ received' \in Seq(Msgs \cup {Garbage}) /\ statuses' \in Seq({"success", "error"})
          /\ StatusesCount'
      BY <2>7, <3>1, SuccessStatus
    <3> QED
      BY <1>1, <2>1, <2>4, <3>1, <3>2
  <2>9. CASE ~ok
    <3>1. phase # "stopped" /\ ReadError /\ phase' = "stopped" /\ received' = received
      BY <2>1, <2>2, <2>9 DEF ReadError
    <3>2. statuses' \in Seq({"success", "error"}) /\ StatusesCount'
      BY <3>1, ErrorStatus
    <3> QED
      BY <1>1, <2>1, <2>4, <3>1, <3>2
  <2> QED
    BY <2>8, <2>9
<1>11. Result
  BY <1>6, <1>7, <1>8, <1>9, <1>10 DEF Read
<1> QED
  BY <1>1, <1>3, <1>11 DEF StreamTypeOK

LEMMA StatusStep == StatusInv /\ [StreamNext]_streamVars => StatusInv'
<1> SUFFICES ASSUME StatusInv, [StreamNext]_streamVars PROVE StatusInv'
  OBVIOUS
<1>1. CASE UNCHANGED streamVars
  BY <1>1 DEF streamVars, StatusInv, StreamTypeOK, StatusesCount
<1>2. CASE StreamNext
  BY <1>2, StatusWriter, StatusReader DEF StreamNext
<1> QED
  BY <1>1, <1>2

LEMMA StatusAlways == StreamSpec => []StatusInv
BY StatusInit, StatusStep, PTL DEF StreamSpec
-----------------------------------------------------------------------------
(***************************************************************************)
(* The units on their way to the reader: those it has of the message it is *)
(* reading, those in the socket, and those still to be written.            *)
(***************************************************************************)
Front == IF phase \in {"size", "content"} THEN taken ELSE <<>>
Pending == IF broken \/ writes = <<>> THEN <<>> ELSE Head(writes)
Flow == Join(Front, Join(stream, Pending))

Distinct(s) == \A i, j \in 1 .. Len(s) : s[i] = s[j] => i = j

\* The first unit under way is the first of the next message to be dispatched.
NextToArrive ==
  IF Flow = <<>> THEN broken \/ Len(received) = Len(sent)
                 ELSE Len(received) < Len(sent) /\ Flow[1] = <<sent[Len(received) + 1], 0>>

Reading ==
  /\ phase = "size" => Len(taken) = 1
  /\ phase = "content" => Len(taken) = 2 /\ need = BodySize[sent[Len(received) + 1]]

Flowing ==
  /\ Sound(Flow, sent) /\ Runs(Flow, sent)
  /\ ~broken => Whole(Flow, sent)
  /\ NextToArrive
  /\ Reading

\* The sender waits for a write before the next.
OneWrite == Len(writes) <= 1 /\ (writes # <<>> => Head(writes) # <<>>)

StreamInv ==
  /\ OneWrite
  /\ Distinct(sent)
  /\ ReceivedAsSent
  /\ phase # "stopped" => Flowing

LEMMA FlowTypes ==
  StatusInv => /\ Front \in Seq(Msgs \X Nat) /\ Pending \in Seq(Msgs \X Nat)
               /\ stream \in Seq(Msgs \X Nat) /\ Join(stream, Pending) \in Seq(Msgs \X Nat)
               /\ Flow \in Seq(Msgs \X Nat) /\ Len(Flow) = Len(Front) + Len(Join(stream, Pending))
               /\ sent \in Seq(Msgs)
<1> SUFFICES ASSUME StatusInv PROVE FlowTypes!2
  OBVIOUS
<1>1. /\ taken \in Seq(Msgs \X Nat) /\ stream \in Seq(Msgs \X Nat) /\ writes \in Seq(Seq(Msgs \X Nat))
      /\ sent \in Seq(Msgs)
  BY DEF StatusInv, StreamTypeOK
<1>2. Front \in Seq(Msgs \X Nat)
  BY <1>1 DEF Front
<1>3. Pending \in Seq(Msgs \X Nat)
  BY <1>1, HeadTailAre DEF Pending
<1>4. Join(stream, Pending) \in Seq(Msgs \X Nat)
  BY <1>1, <1>3, JoinProperties
<1> QED
  BY <1>1, <1>2, <1>3, <1>4, JoinProperties DEF Flow

LEMMA SameFlow ==
  ASSUME Flowing, Flow' = Flow, sent' = sent, received' = received, broken' = broken, Reading'
  PROVE  Flowing'
<1>1. Sound(Flow', sent') /\ Runs(Flow', sent') /\ (~broken' => Whole(Flow', sent')) /\ NextToArrive'
  BY DEF Flowing, NextToArrive
<1> QED
  BY <1>1 DEF Flowing

\* While a message is read, there is one to be dispatched.
LEMMA ReadingOne ==
  ASSUME StatusInv, Flowing, phase \in {"size", "content"}
  PROVE  /\ taken # <<>> /\ Flow # <<>> /\ Len(Flow) >= Len(taken) /\ Front = taken
         /\ Len(received) \in Nat /\ Len(received) + 1 \in 1 .. Len(sent)
         /\ Flow[1] = <<sent[Len(received) + 1], 0>>
<1>1. Front = taken /\ taken # <<>>
  BY DEF Front, StatusInv
<1>2. Len(received) \in Nat /\ Len(sent) \in Nat /\ taken \in Seq(Msgs \X Nat)
  BY DEF StatusInv, StreamTypeOK
<1>3. Len(Flow) >= Len(taken) /\ Len(taken) > 0
  BY SMTT(30), <1>1, <1>2, FlowTypes
<1>4. Flow # <<>>
  BY <1>2, <1>3
<1>5. Len(received) < Len(sent) /\ Flow[1] = <<sent[Len(received) + 1], 0>>
  BY <1>4 DEF Flowing, NextToArrive
<1> QED
  BY <1>1, <1>2, <1>3, <1>4, <1>5

LEMMA FlowInit == StreamInit => StreamInv
<1> SUFFICES ASSUME StreamInit PROVE StreamInv
  OBVIOUS
<1>1. /\ sent = <<>> /\ writes = <<>> /\ stream = <<>> /\ received = <<>> /\ phase = "idle"
      /\ Len(sent) = 0 /\ Len(received) = 0 /\ Len(writes) = 0
  BY DEF StreamInit
<1>2. Flow = <<>> /\ Len(Flow) = 0
  BY <1>1 DEF Flow, Front, Pending, Join
<1>3. Flowing
  BY <1>1, <1>2 DEF Flowing, Sound, Runs, Whole, NextToArrive, Reading
<1> QED
  BY <1>1, <1>3 DEF StreamInv, Distinct, ReceivedAsSent, OneWrite
LEMMA FlowSend ==
  ASSUME OneAtATime, StatusInv, StreamInv, NEW m \in Msgs, write_message(m)
  PROVE  StreamInv'
<1>1. /\ sent' = Append(sent, m) /\ writes = <<>> /\ writes' = Append(writes, Units(m))
      /\ \A j \in 1 .. Len(sent) : sent[j] # m
      /\ stream' = stream /\ broken' = broken /\ phase' = phase /\ taken' = taken /\ need' = need
      /\ received' = received
  BY DEF write_message, Range, reader
<1>2. /\ Units(m) \in Seq(Msgs \X Nat) /\ Len(Units(m)) >= 1 /\ Units(m)[1] = <<m, 0>>
  <2>1. 1 - 1 = 0
    OBVIOUS
  <2> DEFINE u == Units(m)
             l == LastUnit(m)
  <2>2. /\ u \in Seq(Msgs \X Nat) /\ Len(u) = l + 1 /\ l \in Nat
        /\ \A i \in 1 .. l + 1 : u[i] = <<m, i - 1>>
    BY Zenon, UnitsOf
  <2> HIDE DEF u, l
  <2>3. u \in Seq(Msgs \X Nat) /\ Len(u) >= 1 /\ u[1] = <<m, 0>>
    BY <2>1, <2>2
  <2> QED
    BY <2>3 DEF u
<1>3. writes' = <<Units(m)>> /\ Head(writes') = Units(m) /\ writes' # <<>> /\ Len(writes') = 1
  <2> DEFINE u == Units(m)
  <2>1. writes' = Append(<<>>, u)
    BY <1>1
  <2> HIDE DEF u
  <2>2. writes' = <<u>> /\ Head(writes') = u /\ writes' # <<>> /\ Len(writes') = 1
    BY <2>1
  <2> QED
    BY <2>2 DEF u
<1>4. OneWrite'
  <2>1. Units(m) # <<>>
    BY <1>2
  <2> QED
    BY <1>3, <2>1 DEF OneWrite
<1>5. /\ sent \in Seq(Msgs) /\ Len(sent) \in Nat /\ Len(received) \in Nat /\ broken \in BOOLEAN
      /\ Distinct(sent) /\ Len(received) <= Len(sent)
      /\ \A i \in 1 .. Len(received) : received[i] = sent[i]
  BY DEF StatusInv, StreamTypeOK, StreamInv, ReceivedAsSent
<1>6. /\ Len(sent') = Len(sent) + 1 /\ sent'[Len(sent) + 1] = m
      /\ \A j \in 1 .. Len(sent) : sent'[j] = sent[j]
  BY <1>1, <1>5
<1>7. Distinct(sent')
  BY <1>1, <1>5, <1>6 DEF Distinct
<1>8. ReceivedAsSent'
  BY <1>1, <1>5, <1>6 DEF ReceivedAsSent
<1>9. ASSUME phase' # "stopped" PROVE Flowing'
  <2>1. Flowing
    BY <1>1, <1>9 DEF StreamInv
  <2>2. Sound(Flow, sent) /\ Runs(Flow, sent) /\ (~broken => Whole(Flow, sent)) /\ NextToArrive /\ Reading
    BY <2>1 DEF Flowing
  <2>3. Flow \in Seq(Msgs \X Nat) /\ Front \in Seq(Msgs \X Nat) /\ stream \in Seq(Msgs \X Nat)
    BY FlowTypes
  <2>4. Front' = Front /\ Pending = <<>> /\ Pending' = IF broken THEN <<>> ELSE Units(m)
    BY <1>1, <1>3 DEF Front, Pending
  <2>5. Flow' = Join(Front, Join(stream, Pending'))
    BY <1>1, <2>4 DEF Flow
  <2>6. Flow = Join(Front, stream)
    BY <2>3, <2>4, JoinEmpty DEF Flow
  <2>7. Reading'
    <3>1. phase = "content" => sent'[Len(received) + 1] = sent[Len(received) + 1]
      BY <1>6, <2>1, ReadingOne
    <3> QED
      BY Zenon, <1>1, <2>2, <3>1 DEF Reading
  <2>8. CASE broken
    <3>1. Flow' = Flow
      BY <2>4, <2>5, <2>8 DEF Flow
    <3>2. Sound(Flow', sent') /\ Runs(Flow', sent')
      <4>1. Len(Flow) \in Nat
        BY <2>3
      <4>2. Sound(Flow, sent') /\ Runs(Flow, sent')
        <5> DEFINE z == sent'
        <5>1. z = Append(sent, m) /\ \A j \in 1 .. Len(sent) : sent[j] # m
          BY <1>1
        <5> HIDE DEF z
        <5>2. Sound(Flow, z) /\ Runs(Flow, z)
          BY Zenon, <1>5, <2>2, <4>1, <5>1, GrownFlows
        <5> QED
          BY <5>2 DEF z
      <4> QED
        BY <3>1, <4>2
    <3>3. NextToArrive'
      <4>1. CASE Flow = <<>>
        BY <1>1, <2>8, <3>1, <4>1 DEF NextToArrive
      <4>2. CASE Flow # <<>>
        <5>1. Len(received) < Len(sent) /\ Flow[1] = <<sent[Len(received) + 1], 0>>
          BY <2>2, <4>2 DEF NextToArrive
        <5>2. Len(received) < Len(sent') /\ sent'[Len(received) + 1] = sent[Len(received) + 1]
          BY <1>5, <1>6, <5>1
        <5> QED
          BY <1>1, <3>1, <4>2, <5>1, <5>2 DEF NextToArrive
      <4> QED
        BY <4>1, <4>2
    <3> QED
      BY <1>1, <2>7, <2>8, <3>2, <3>3 DEF Flowing
  <2>9. CASE ~broken
    <3>1. Flow' = Join(Flow, Units(m))
      <4>1. Flow' = Join(Front, Join(stream, Units(m)))
        BY <2>4, <2>5, <2>9
      <4>2. Join(Join(Front, stream), Units(m)) = Join(Front, Join(stream, Units(m)))
        BY <1>2, <2>3, JoinAssociative
      <4> QED
        BY <2>6, <4>1, <4>2
    <3>2. /\ Flow' \in Seq(Msgs \X Nat) /\ Len(Flow') = Len(Flow) + Len(Units(m))
          /\ IsJoin(Flow', Flow, Units(m))
      BY <1>2, <2>3, <3>1, JoinProperties
    <3>3. Sound(Flow', sent') /\ Runs(Flow', sent') /\ Whole(Flow', sent')
      <4> DEFINE z == sent'
                 q == Flow'
      <4>1. /\ z = Append(sent, m) /\ \A j \in 1 .. Len(sent) : sent[j] # m
            /\ IsJoin(q, Flow, Units(m)) /\ Whole(Flow, sent)
        BY <1>1, <2>2, <2>9, <3>2
      <4>2. Len(Flow) \in Nat
        BY <2>3
      <4> HIDE DEF z, q
      <4>3. Sound(q, z) /\ Runs(q, z) /\ Whole(q, z)
        BY Zenon, <1>5, <2>2, <4>1, <4>2, SentFlows
      <4> QED
        BY <4>3 DEF q, z
    <3>4. Len(Flow) \in Nat /\ Flow' # <<>>
      BY <1>2, <2>3, <3>2
    <3>5. NextToArrive'
      <4>1. CASE Flow = <<>>
        <5>1. Len(received) = Len(sent)
          BY <2>2, <2>9, <4>1 DEF NextToArrive
        <5>2. Flow' = Units(m)
          BY <1>2, <3>1, <4>1, JoinEmpty
        <5> QED
          BY <1>1, <1>2, <1>5, <1>6, <3>4, <5>1, <5>2 DEF NextToArrive
      <4>2. CASE Flow # <<>>
        <5>1. Len(received) < Len(sent) /\ Flow[1] = <<sent[Len(received) + 1], 0>>
          BY <2>2, <4>2 DEF NextToArrive
        <5>2. Len(received) < Len(sent') /\ sent'[Len(received) + 1] = sent[Len(received) + 1]
          BY <1>5, <1>6, <5>1
        <5>3. 1 \in 1 .. Len(Flow)
          BY <2>3, <4>2
        <5>4. Flow'[1] = Flow[1]
          BY <3>2, <5>3 DEF IsJoin
        <5> QED
          BY <1>1, <3>4, <5>1, <5>2, <5>4 DEF NextToArrive
      <4> QED
        BY <4>1, <4>2
    <3> QED
      BY <2>7, <3>3, <3>5 DEF Flowing
  <2> QED
    BY <2>8, <2>9
<1> QED
  BY <1>4, <1>7, <1>8, <1>9 DEF StreamInv

LEMMA OneElement ==
  ASSUME NEW S, NEW s \in Seq(S), s # <<>>, Len(s) <= 1
  PROVE  Tail(s) = <<>> /\ Head(s) \in S
OBVIOUS

LEMMA FlowWrite ==
  ASSUME StatusInv, StreamInv, Write
  PROVE  StreamInv'
<1>1. /\ sent' = sent /\ broken' = broken /\ writes # <<>> /\ phase' = phase /\ taken' = taken
      /\ need' = need /\ received' = received
  BY DEF Write, WriteSome, WriteFails, reader
<1>2. Front' = Front /\ Reading' = Reading
  BY <1>1 DEF Front, Reading
<1>3. writes \in Seq(Seq(Msgs \X Nat)) /\ stream \in Seq(Msgs \X Nat)
  BY DEF StatusInv, StreamTypeOK
<1>4. Tail(writes) = <<>> /\ Head(writes) \in Seq(Msgs \X Nat)
  <2>1. Len(writes) <= 1
    BY DEF StreamInv, OneWrite
  <2> QED
    BY <1>1, <1>3, <2>1, OneElement
<1>5. OneWrite' /\ Flow' = Flow
  <2>1. CASE WriteSome
    <3> DEFINE h == Head(writes)
    <3>1. PICK n \in 1 .. Len(h) :
            LET left == SubSeq(h, n + 1, Len(h)) IN
            /\ stream' = stream \o SubSeq(h, 1, n)
            /\ writes' = IF left = <<>> THEN Tail(writes) ELSE Append(Tail(writes), left)
      BY Zenon, <2>1 DEF WriteSome
    <3> DEFINE a == SubSeq(h, 1, n)
               b == SubSeq(h, n + 1, Len(h))
    <3>2. stream' = Join(stream, a) /\ writes' = IF b = <<>> THEN <<>> ELSE Append(<<>>, b)
      BY Zenon, <1>4, <3>1 DEF Join
    <3>3. h \in Seq(Msgs \X Nat)
      BY <1>4
    <3>4. ~broken
      BY <2>1 DEF WriteSome
    <3>5. Pending = h
      BY <1>1, <3>4 DEF Pending
    <3> HIDE DEF h
    <3>6. Join(Join(stream, a), b) = Join(stream, h)
      BY <1>3, <3>3, MoveSome
    <3> HIDE DEF a, b
    <3>7. Pending' = b
      BY <1>1, <3>2, <3>4 DEF Pending
    <3>8. OneWrite'
      BY <3>2 DEF OneWrite
    <3>9. Flow' = Flow
      BY <1>2, <3>2, <3>5, <3>6, <3>7 DEF Flow
    <3> QED
      BY <3>8, <3>9
  <2>2. CASE WriteFails
    <3>1. broken /\ writes' = <<>> /\ stream' = stream
      BY <1>4, <2>2 DEF WriteFails
    <3>2. Pending' = Pending
      BY <1>1, <3>1 DEF Pending
    <3> QED
      BY <1>2, <3>1, <3>2 DEF Flow, OneWrite
  <2> QED
    BY <2>1, <2>2 DEF Write
<1>6. Distinct(sent') /\ ReceivedAsSent'
  BY <1>1 DEF StreamInv, ReceivedAsSent
<1>7. ASSUME phase' # "stopped" PROVE Flowing'
  <2>1. Flowing /\ Reading'
    BY <1>1, <1>2, <1>7 DEF StreamInv, Flowing
  <2> QED
    BY <1>1, <1>5, <2>1, SameFlow
<1> QED
  BY <1>5, <1>6, <1>7 DEF StreamInv

LEMMA FlowDisconnected ==
  ASSUME StatusInv, StreamInv, Disconnected
  PROVE  StreamInv'
<1>1. /\ sent' = sent /\ broken' = TRUE /\ writes' = writes /\ phase' = phase /\ taken' = taken
      /\ need' = need /\ received' = received
  BY DEF Disconnected, writer, reader
<1>2. Front' = Front /\ Reading' = Reading /\ Pending' = <<>>
  BY <1>1 DEF Front, Reading, Pending
<1>3. PICK n \in 0 .. Len(stream) : stream' = SubSeq(stream, 1, n)
  BY DEF Disconnected
<1>4. /\ Front \in Seq(Msgs \X Nat) /\ Pending \in Seq(Msgs \X Nat) /\ stream \in Seq(Msgs \X Nat)
      /\ Flow \in Seq(Msgs \X Nat) /\ sent \in Seq(Msgs)
  BY FlowTypes
<1>5. stream' \in Seq(Msgs \X Nat)
  BY <1>3, <1>4, CutProperties
<1>6. Flow' = Join(Front, stream')
  BY <1>2, <1>5, JoinEmpty DEF Flow
<1>7. Len(Front) + n \in 0 .. Len(Flow) /\ Flow' = SubSeq(Flow, 1, Len(Front) + n)
  <2>1. Flow = Join(Front, Join(stream, Pending))
    BY DEF Flow
  <2>2. /\ Len(Front) + n \in 0 .. Len(Flow)
        /\ Join(Front, SubSeq(stream, 1, n)) = SubSeq(Flow, 1, Len(Front) + n)
    <3>1. IsCut(Flow, Front, stream, Pending, n)
      BY <1>4, <2>1, CutInside
    <3> QED
      BY <3>1 DEF IsCut
  <2> QED
    BY <1>3, <1>6, <2>2
<1>8. /\ Flow' \in Seq(Msgs \X Nat) /\ Len(Flow') <= Len(Flow) /\ Len(Flow') \in Nat /\ Len(Flow) \in Nat
      /\ \A i \in 1 .. Len(Flow') : Flow'[i] = Flow[i]
  <2> DEFINE k == Len(Front) + n
             q == SubSeq(Flow, 1, k)
  <2>1. k \in 0 .. Len(Flow) /\ Flow' = q
    BY <1>7
  <2> HIDE DEF k
  <2>2. q \in Seq(Msgs \X Nat) /\ Len(q) = k /\ \A i \in 1 .. k : q[i] = Flow[i]
    BY <1>4, <2>1, CutProperties
  <2> HIDE DEF q
  <2> QED
    BY <1>4, <2>1, <2>2
<1>9. Distinct(sent') /\ ReceivedAsSent' /\ OneWrite'
  BY <1>1 DEF StreamInv, ReceivedAsSent, OneWrite
<1>10. ASSUME phase' # "stopped" PROVE Flowing'
  <2>1. Sound(Flow, sent) /\ Runs(Flow, sent) /\ NextToArrive /\ Reading
    BY <1>1, <1>10 DEF StreamInv, Flowing
  <2>2. Sound(Flow', sent) /\ Runs(Flow', sent)
    BY <1>4, <1>8, <2>1, PrefixFlows
  <2>3. NextToArrive'
    <3>1. CASE Flow' = <<>>
      BY <1>1, <3>1 DEF NextToArrive
    <3>2. CASE Flow' # <<>>
      <4>1. 1 \in 1 .. Len(Flow')
        BY <1>8, <3>2
      <4>2. Flow # <<>> /\ Flow'[1] = Flow[1]
        BY <1>8, <4>1
      <4> QED
        BY <1>1, <2>1, <3>2, <4>2 DEF NextToArrive
    <3> QED
      BY <3>1, <3>2
  <2> QED
    BY <1>1, <1>2, <2>1, <2>2, <2>3 DEF Flowing
<1> QED
  BY <1>9, <1>10 DEF StreamInv
LEMMA FlowStopped ==
  ASSUME StreamInv, phase' = "stopped", UNCHANGED <<sent, writes, received>>
  PROVE  StreamInv'
BY DEF StreamInv, OneWrite, ReceivedAsSent

LEMMA FlowReads ==
  ASSUME StreamInv, UNCHANGED <<sent, writes, received, broken>>, phase # "stopped",
         Flow' = Flow, Reading'
  PROVE  StreamInv'
<1>1. Flowing'
  BY SameFlow DEF StreamInv
<1> QED
  BY <1>1 DEF StreamInv, OneWrite, ReceivedAsSent

LEMMA FlowReadMessage ==
  ASSUME StatusInv, StreamInv, read_message
  PROVE  StreamInv'
<1>1. /\ phase = "idle" /\ phase' = "type" /\ stream' = stream
      /\ UNCHANGED <<sent, writes, received, broken>>
  BY DEF read_message, writer
<1>2. Flow' = Flow
  BY <1>1 DEF Flow, Front, Pending
<1>3. Reading'
  BY <1>1 DEF Reading
<1> QED
  BY <1>1, <1>2, <1>3, FlowReads

LEMMA FlowType ==
  ASSUME StatusInv, StreamInv, NEW ok \in BOOLEAN, after_read_message_type(ok)
  PROVE  StreamInv'
<1>1. /\ phase = "type" /\ stream # <<>> /\ stream' = Tail(stream) /\ taken' = <<Head(stream)>>
      /\ UNCHANGED <<sent, writes, received, broken>>
      /\ phase' = "size" \/ phase' = "stopped"
  BY DEF after_read_message_type, writer, ReadError
<1>2. CASE phase' = "stopped"
  BY <1>1, <1>2, FlowStopped
<1>3. CASE phase' = "size"
  <2>1. stream \in Seq(Msgs \X Nat) /\ Pending \in Seq(Msgs \X Nat) /\ <<>> \in Seq(Msgs \X Nat)
    BY FlowTypes
  <2>2. Front = <<>> /\ Front' = Append(<<>>, Head(stream)) /\ Pending' = Pending
    BY <1>1, <1>3 DEF Front, Pending
  <2>3. Join(Append(<<>>, Head(stream)), Join(Tail(stream), Pending)) = Join(<<>>, Join(stream, Pending))
    <3> DEFINE t == <<>>
    <3>1. t \in Seq(Msgs \X Nat)
      OBVIOUS
    <3> HIDE DEF t
    <3>2. Join(Append(t, Head(stream)), Join(Tail(stream), Pending)) = Join(t, Join(stream, Pending))
      BY <1>1, <2>1, <3>1, MoveFirst
    <3> QED
      BY <3>2 DEF t
  <2>4. Flow' = Flow
    BY <1>1, <2>2, <2>3 DEF Flow
  <2>5. Reading'
    BY <1>1, <1>3 DEF Reading
  <2> QED
    BY <1>1, <2>4, <2>5, FlowReads
<1> QED
  BY <1>1, <1>2, <1>3

\* A reader that waits for the type of a message has the first unit of the next one before it.
LEMMA TypeIsNext ==
  ASSUME StatusInv, StreamInv, phase = "type", stream # <<>>
  PROVE  Head(stream)[2] = 0
<1>1. /\ stream \in Seq(Msgs \X Nat) /\ Pending \in Seq(Msgs \X Nat)
      /\ Join(stream, Pending) \in Seq(Msgs \X Nat)
  BY FlowTypes
<1> DEFINE r == Join(stream, Pending)
<1>2. IsJoin(r, stream, Pending)
  BY <1>1, JoinProperties
<1>3. Flow = r
  <2>1. Front = <<>>
    BY DEF Front
  <2> QED
    BY <1>1, <2>1, JoinEmpty DEF Flow
<1>4. r \in Seq(Msgs \X Nat)
  BY <1>1
<1> HIDE DEF r
<1>5. Len(stream) >= 1 /\ Head(stream) = stream[1] /\ Len(Pending) \in Nat /\ Len(stream) \in Nat
  BY <1>1
<1>6. r[1] = Head(stream) /\ Len(r) >= 1
  BY <1>2, <1>5 DEF IsJoin
<1>7. Flow # <<>>
  BY <1>3, <1>4, <1>6
<1>8. Flow[1] = <<sent[Len(received) + 1], 0>>
  BY <1>7 DEF StreamInv, Flowing, NextToArrive
<1>9. Head(stream) = <<sent[Len(received) + 1], 0>>
  BY <1>3, <1>6, <1>8
<1> QED
  BY <1>9

\* A reader that waits for a size has the size of the message it is reading before it.
LEMMA SizeIsNext ==
  ASSUME StatusInv, StreamInv, phase = "size", stream # <<>>
  PROVE  /\ Len(received) + 1 \in 1 .. Len(sent)
         /\ Head(stream) = <<sent[Len(received) + 1], 1>>
<1>1. /\ stream \in Seq(Msgs \X Nat) /\ Pending \in Seq(Msgs \X Nat) /\ sent \in Seq(Msgs)
      /\ Front \in Seq(Msgs \X Nat) /\ Join(stream, Pending) \in Seq(Msgs \X Nat)
  BY FlowTypes
<1>2. Front = taken
  BY DEF Front
<1>3. Flowing /\ Len(taken) = 1
  BY DEF StreamInv, Flowing, Reading
<1> DEFINE j == Len(received) + 1
<1>4. j \in 1 .. Len(sent) /\ Flow[1] = <<sent[j], 0>> /\ Flow # <<>>
  BY <1>3, ReadingOne
<1> HIDE DEF j
<1>5. Head(stream) = Flow[2] /\ 2 <= Len(Flow) /\ Len(Flow) \in Nat
  <2> DEFINE r == Join(stream, Pending)
  <2>1. IsJoin(r, stream, Pending) /\ IsJoin(Flow, taken, r) /\ r \in Seq(Msgs \X Nat)
    BY <1>1, <1>2, JoinProperties DEF Flow
  <2> HIDE DEF r
  <2>2. Len(stream) >= 1 /\ Head(stream) = stream[1] /\ Len(Pending) \in Nat /\ Len(stream) \in Nat
    BY <1>1
  <2>3. r[1] = stream[1] /\ Len(r) >= 1 /\ Len(r) \in Nat
    BY <2>1, <2>2 DEF IsJoin
  <2>4. Flow[1 + 1] = r[1] /\ Len(Flow) = 1 + Len(r)
    BY <1>3, <2>1, <2>3 DEF IsJoin
  <2> QED
    BY <2>2, <2>3, <2>4
<1>6. Flow[2] = <<sent[j], 1>>
  <2>1. RunsAt(Flow, sent, 1, j, 0)
    <3>1. 1 \in 1 .. Len(Flow) /\ 0 \in Nat /\ Runs(Flow, sent)
      BY <1>3, <1>5 DEF Flowing
    <3> QED
      BY <1>4, <3>1 DEF Runs
  <2>2. 1 \in Nat /\ 1 + 1 <= Len(Flow) /\ 0 + 1 <= LastUnit(sent[j]) /\ 1 + 1 = 2 /\ 0 + 1 = 1
    BY <1>1, <1>4, <1>5, LastUnitNat
  <2>3. Flow[1 + 1] = <<sent[j], 0 + 1>>
    BY <2>1, <2>2 DEF RunsAt
  <2> QED
    BY <2>2, <2>3
<1> QED
  BY <1>4, <1>5, <1>6 DEF j

LEMMA FlowSize ==
  ASSUME StatusInv, StreamInv, NEW size \in Sizes, after_read_message_size(size)
  PROVE  StreamInv'
<1>1. /\ phase = "size" /\ stream # <<>> /\ stream' = Tail(stream)
      /\ taken' = Append(taken, Head(stream)) /\ need' = size
      /\ UNCHANGED <<sent, writes, received, broken>>
      /\ Head(stream)[2] = 1 => size = BodySize[Head(stream)[1]]
      /\ phase' = "content" \/ phase' = "stopped"
  BY DEF after_read_message_size, writer, ReadError
<1>2. CASE phase' = "stopped"
  BY <1>1, <1>2, FlowStopped
<1>3. CASE phase' = "content"
  <2>1. /\ stream \in Seq(Msgs \X Nat) /\ Pending \in Seq(Msgs \X Nat)
        /\ Front \in Seq(Msgs \X Nat)
    BY FlowTypes
  <2>2. Front = taken /\ Front' = Append(taken, Head(stream)) /\ Pending' = Pending
    BY <1>1, <1>3 DEF Front, Pending
  <2>3. Join(Append(taken, Head(stream)), Join(Tail(stream), Pending)) = Join(taken, Join(stream, Pending))
    BY <1>1, <2>1, <2>2, MoveFirst
  <2>4. Flow' = Flow
    BY <1>1, <2>2, <2>3 DEF Flow
  <2> DEFINE j == Len(received) + 1
  <2>5. need' = BodySize[sent[j]]
    <3>1. Head(stream) = <<sent[j], 1>>
      BY <1>1, SizeIsNext
    <3>2. Head(stream)[2] = 1 /\ Head(stream)[1] = sent[j]
      BY <3>1
    <3> QED
      BY <1>1, <3>2
  <2>6. Len(taken') = 2
    <3> DEFINE x == Head(stream)
    <3>1. taken' = Append(taken, x) /\ taken \in Seq(Msgs \X Nat) /\ x \in Msgs \X Nat
      BY <1>1, <2>1, <2>2
    <3> HIDE DEF x
    <3>2. Len(taken') = Len(taken) + 1
      BY <3>1, AppendIs
    <3>3. Len(taken) = 1
      BY <1>1 DEF StreamInv, Flowing, Reading
    <3> QED
      BY <3>2, <3>3
  <2>7. Reading'
    BY <1>1, <1>3, <2>5, <2>6 DEF Reading
  <2> QED
    BY <1>1, <2>4, <2>7, FlowReads
<1> QED
  BY <1>1, <1>2, <1>3

\* A body that was read whole is the one that was sent, and parses.
LEMMA FlowContent ==
  ASSUME StatusInv, StreamInv, NEW ok \in BOOLEAN, after_read_message_content(ok)
  PROVE  StreamInv' /\ phase' = "idle"
<1> DEFINE j == Len(received) + 1
           m == sent[j]
           n == LastUnit(m) + 1
           all == Join(taken, SubSeq(stream, 1, need))
<1>1. /\ phase = "content" /\ Len(stream) >= need
      /\ stream' = SubSeq(stream, need + 1, Len(stream))
      /\ UNCHANGED <<sent, writes, broken>>
  BY DEF after_read_message_content, writer
<1>2. /\ all = Units(Head(all)[1]) => ok
      /\ ok => /\ received' = Append(received, IF all = Units(Head(all)[1]) THEN Head(all)[1] ELSE Garbage)
               /\ phase' = "idle"
  BY Zenon DEF after_read_message_content, Join
<1>3. /\ stream \in Seq(Msgs \X Nat) /\ Pending \in Seq(Msgs \X Nat) /\ sent \in Seq(Msgs)
      /\ Front \in Seq(Msgs \X Nat) /\ Join(stream, Pending) \in Seq(Msgs \X Nat)
      /\ Flow \in Seq(Msgs \X Nat)
  BY FlowTypes
<1>4. Flowing /\ Len(taken) = 2 /\ need = BodySize[m]
  BY <1>1 DEF StreamInv, Flowing, Reading
<1>5. /\ Len(received) \in Nat /\ j \in 1 .. Len(sent) /\ Flow[1] = <<m, 0>> /\ Flow # <<>>
      /\ Front = taken
  BY <1>1, <1>4, ReadingOne
<1>6. m \in Msgs /\ LastUnit(m) \in Nat /\ n \in Nat /\ need \in Nat /\ 2 + need = n
  <2>1. m \in Msgs
    BY <1>3, <1>5
  <2> HIDE DEF m
  <2>2. BodySize[m] \in Nat
    BY <2>1, MessageStreamAssumption
  <2> QED
    BY <1>4, <2>1, <2>2 DEF LastUnit
<1>7. /\ n \in 0 .. Len(Flow) /\ all = SubSeq(Flow, 1, n)
      /\ Join(stream', Pending) = SubSeq(Flow, n + 1, Len(Flow))
  <2>1. need \in 0 .. Len(stream)
    BY <1>1, <1>3, <1>6
  <2>2. Flow = Join(Front, Join(stream, Pending))
    BY DEF Flow
  <2>3. IsCut(Flow, Front, stream, Pending, need)
    BY <1>3, <2>1, <2>2, CutInside
  <2> HIDE DEF n
  <2> QED
    BY Zenon, <1>1, <1>4, <1>5, <1>6, <2>3 DEF IsCut
<1>8. /\ all = Units(m)
      /\ n < Len(Flow) => j < Len(sent) /\ Flow[n + 1] = <<sent[j + 1], 0>>
  <2>1. n <= Len(Flow) /\ Runs(Flow, sent)
    BY <1>3, <1>4, <1>7 DEF Flowing
  <2>2. /\ SubSeq(Flow, 1, n) = Units(m)
        /\ n < Len(Flow) => j < Len(sent) /\ Flow[n + 1] = <<sent[j + 1], 0>>
    <3>1. n = LastUnit(sent[j]) + 1 /\ Flow[1] = <<sent[j], 0>>
      BY <1>5
    <3> HIDE DEF n, j, m
    <3>2. StartsWith(Flow, sent, j, n)
      BY Zenon, <1>3, <1>5, <1>6, <2>1, <3>1, FirstMessage
    <3> QED
      BY <3>2 DEF StartsWith, m
  <2> QED
    BY <1>7, <2>2
<1> HIDE DEF n, all
<1>9. Head(all)[1] = m
  <2> DEFINE u == Units(m)
             l == LastUnit(m)
  <2>1. /\ u \in Seq(Msgs \X Nat) /\ Len(u) = l + 1 /\ l \in Nat
        /\ \A i \in 1 .. l + 1 : u[i] = <<m, i - 1>>
    BY Zenon, <1>6, UnitsOf
  <2>2. all = u
    BY <1>8
  <2> HIDE DEF u, l, m
  <2>3. 1 \in 1 .. l + 1 /\ Head(u) = u[1]
    BY <2>1
  <2>4. Head(u) = <<m, 1 - 1>>
    BY <2>1, <2>3
  <2> QED
    BY <2>2, <2>4
<1>10. received' = Append(received, m) /\ phase' = "idle"
  BY <1>2, <1>8, <1>9
<1>11. /\ Len(received') = Len(received) + 1 /\ received'[j] = m
       /\ \A i \in 1 .. Len(received) : received'[i] = received[i]
  <2>1. received \in Seq(Msgs \cup {Garbage})
    BY DEF StatusInv, StreamTypeOK
  <2> HIDE DEF m
  <2> QED
    BY <1>10, <2>1
<1>12. ReceivedAsSent'
  <2>1. Len(received) <= Len(sent) /\ \A i \in 1 .. Len(received) : received[i] = sent[i]
    BY DEF StreamInv, ReceivedAsSent
  <2>2. ASSUME NEW i \in 1 .. Len(received) + 1 PROVE received'[i] = sent[i]
    <3>1. CASE i = j
      BY <1>11, <3>1
    <3>2. CASE i # j
      BY <1>5, <1>11, <2>1, <3>2
    <3> QED
      BY <3>1, <3>2
  <2>3. Len(received) + 1 <= Len(sent)
    BY <1>3, <1>5
  <2> QED
    BY <1>1, <1>11, <2>2, <2>3 DEF ReceivedAsSent
<1>13. Flow' = SubSeq(Flow, n + 1, Len(Flow))
  <2>1. Front' = <<>> /\ Pending' = Pending
    BY <1>1, <1>10 DEF Front, Pending
  <2>2. stream' \in Seq(Msgs \X Nat)
    <3>1. need \in 0 .. Len(stream)
      BY <1>1, <1>3, <1>6
    <3> QED
      BY ZenonT(30), <1>1, <1>3, <3>1, CutProperties
  <2>3. Join(stream', Pending) \in Seq(Msgs \X Nat)
    BY <1>3, <2>2, JoinProperties
  <2>4. Flow' = Join(<<>>, Join(stream', Pending))
    BY <2>1 DEF Flow
  <2> QED
    BY Zenon, <1>7, <2>3, <2>4, JoinEmpty
<1>14. /\ Flow' \in Seq(Msgs \X Nat) /\ Len(Flow') = Len(Flow) - n
       /\ Len(Flow') \in Nat /\ Len(Flow) \in Nat
       /\ \A i \in 1 .. Len(Flow') : Flow'[i] = Flow[n + i]
  <2> DEFINE q == SubSeq(Flow, n + 1, Len(Flow))
  <2>1. q \in Seq(Msgs \X Nat) /\ Len(q) = Len(Flow) - n /\ \A i \in 1 .. Len(Flow) - n : q[i] = Flow[n + i]
    <3>1. n \in 0 .. Len(Flow)
      BY <1>3, <1>7
    <3> QED
      BY ZenonT(40), <1>3, <3>1, CutProperties
  <2>2. Flow' = q
    BY <1>13
  <2> HIDE DEF q
  <2> QED
    BY <1>3, <2>1, <2>2
<1>15. Flowing'
  <2>1. Sound(Flow, sent) /\ Runs(Flow, sent) /\ (~broken => Whole(Flow, sent))
    BY <1>4 DEF Flowing
  <2>2. Sound(Flow', sent) /\ Runs(Flow', sent) /\ (Whole(Flow, sent) => Whole(Flow', sent))
    BY Zenon, <1>3, <1>6, <1>14, <2>1, SuffixFlows
  <2>3. NextToArrive'
    <3>1. CASE Flow' = <<>>
      <4>1. Len(Flow) = n
        BY <1>6, <1>14, <3>1
      <4>2. ~broken => j = Len(sent)
        <5>1. Len(Flow) = LastUnit(sent[j]) + 1 /\ Flow[1] = <<sent[j], 0>>
          BY <1>5, <4>1 DEF n
        <5> HIDE DEF j
        <5> QED
          BY Zenon, <1>3, <1>5, <2>1, <5>1, LastMessage
      <4> QED
        BY <1>1, <1>11, <3>1, <4>2 DEF NextToArrive
    <3>2. CASE Flow' # <<>>
      <4>1. 1 \in 1 .. Len(Flow')
        BY <1>14, <3>2
      <4>2. n < Len(Flow) /\ Flow'[1] = Flow[n + 1]
        BY <1>6, <1>14, <4>1
      <4>3. j < Len(sent) /\ Flow'[1] = <<sent[j + 1], 0>>
        BY <1>8, <4>2
      <4> QED
        BY <1>1, <1>11, <3>2, <4>3 DEF NextToArrive
    <3> QED
      BY <3>1, <3>2
  <2>4. Reading'
    BY <1>10 DEF Reading
  <2> QED
    BY <1>1, <2>1, <2>2, <2>3, <2>4 DEF Flowing
<1>16. Distinct(sent') /\ OneWrite'
  BY <1>1 DEF StreamInv, OneWrite
<1> QED
  BY <1>10, <1>12, <1>15, <1>16 DEF StreamInv

LEMMA FlowStep ==
  ASSUME OneAtATime
  PROVE  StatusInv /\ StreamInv /\ [StreamNext]_streamVars => StreamInv'
<1> SUFFICES ASSUME StatusInv, StreamInv, [StreamNext]_streamVars PROVE StreamInv'
  OBVIOUS
<1>1. CASE UNCHANGED streamVars
  <2>1. UNCHANGED <<sent, writes, stream, phase, taken, need, received, broken>>
    BY <1>1 DEF streamVars
  <2>2. Flow' = Flow /\ Reading' = Reading
    BY <2>1 DEF Flow, Front, Pending, Reading
  <2>3. Flowing' = Flowing
    BY <2>1, <2>2 DEF Flowing, NextToArrive
  <2> QED
    BY <2>1, <2>3 DEF StreamInv, OneWrite, ReceivedAsSent
<1>2. ASSUME NEW m \in Msgs, write_message(m) PROVE StreamInv'
  BY <1>2, FlowSend
<1>3. CASE Write
  BY <1>3, FlowWrite
<1>4. CASE Disconnected
  BY <1>4, FlowDisconnected
<1>5. CASE read_message
  BY <1>5, FlowReadMessage
<1>6. CASE ReadFails
  BY <1>6, FlowStopped DEF ReadFails, ReadError, writer
<1>7. ASSUME NEW ok \in BOOLEAN, after_read_message_type(ok) PROVE StreamInv'
  BY <1>7, FlowType
<1>8. ASSUME NEW ok \in BOOLEAN, after_read_message_content(ok) PROVE StreamInv'
  BY <1>8, FlowContent
<1>9. ASSUME NEW size \in Sizes, after_read_message_size(size) PROVE StreamInv'
  BY <1>9, FlowSize
<1> QED
  BY <1>1, <1>2, <1>3, <1>4, <1>5, <1>6, <1>7, <1>8, <1>9 DEF StreamNext, Read

(***************************************************************************)
(* When a sender waits for each write before the next, what the other end  *)
(* dispatches is a prefix of what was given to write_message, however the  *)
(* socket splits the writes and wherever the connection breaks.            *)
(***************************************************************************)
THEOREM MessagesArriveAsSent ==
  ASSUME OneAtATime
  PROVE  StreamSpec => []ReceivedAsSent
<1>1. StatusInv /\ StreamInv /\ [StreamNext]_streamVars => StreamInv'
  BY FlowStep
<1>2. StreamInv => ReceivedAsSent
  BY DEF StreamInv
<1> QED
  BY <1>1, <1>2, FlowInit, StatusAlways, PTL DEF StreamSpec

-----------------------------------------------------------------------------
\* What a step does to the messages sent and dispatched.
LEMMA EndsOfStep ==
  ASSUME StatusInv, [StreamNext]_streamVars
  PROVE  \/ \E m \in Msgs : sent' = Append(sent, m) /\ received' = received
         \/ sent' = sent /\ \E x : received' = Append(received, x)
         \/ sent' = sent /\ received' = received
<1>1. ASSUME NEW m \in Msgs, write_message(m)
      PROVE  sent' = Append(sent, m) /\ received' = received
  BY <1>1 DEF write_message, reader
<1>2. CASE Write
  BY <1>2 DEF Write, WriteSome, WriteFails, reader
<1>3. CASE Disconnected
  BY <1>3 DEF Disconnected, writer, reader
<1>4. CASE read_message \/ ReadFails
  BY <1>4 DEF read_message, ReadFails, writer
<1>5. ASSUME NEW ok \in BOOLEAN, after_read_message_type(ok)
      PROVE  sent' = sent /\ received' = received
  BY <1>5 DEF after_read_message_type, writer
<1>6. ASSUME NEW size \in Sizes, after_read_message_size(size)
      PROVE  sent' = sent /\ received' = received
  BY <1>6 DEF after_read_message_size, writer
<1>7. ASSUME NEW ok \in BOOLEAN, after_read_message_content(ok)
      PROVE  sent' = sent /\ (received' = received \/ \E x : received' = Append(received, x))
  <2>1. sent' = sent
    BY <1>7 DEF after_read_message_content, writer
  <2>2. received' = received \/ \E x : received' = Append(received, x)
    BY <1>7, Zenon DEF after_read_message_content
  <2> QED
    BY <2>1, <2>2
<1>8. CASE UNCHANGED streamVars
  BY <1>8 DEF streamVars
<1> QED
  BY <1>1, <1>2, <1>3, <1>4, <1>5, <1>6, <1>7, <1>8, Zenon DEF StreamNext, Read

LEMMA AppendLast ==
  ASSUME NEW S, NEW s \in Seq(S), NEW x, NEW t \in Seq(S), t = Append(s, x)
  PROVE  Len(t) = Len(s) + 1 /\ t[Len(s) + 1] = x
OBVIOUS

\* A message that is dispatched is the next one of those that were sent.
LEMMA DispatchIsReceive ==
  ASSUME StatusInv, StatusInv', ReceivedAsSent', sent' = sent, NEW x, received' = Append(received, x)
  PROVE  Channel!Receive
<1> DEFINE s == received
           t == received'
<1>1. s \in Seq(Msgs \cup {Garbage}) /\ t \in Seq(Msgs \cup {Garbage}) /\ sent \in Seq(Msgs)
  BY DEF StatusInv, StreamTypeOK
<1>2. Len(t) <= Len(sent) /\ \A i \in 1 .. Len(t) : t[i] = sent[i]
  BY DEF ReceivedAsSent
<1>3. t = Append(s, x)
  OBVIOUS
<1> HIDE DEF s, t
<1>4. Len(t) = Len(s) + 1 /\ t[Len(s) + 1] = x
  BY <1>1, <1>3, AppendLast
<1>5. Len(s) \in Nat /\ Len(sent) \in Nat
  BY <1>1
<1>6. Len(s) < Len(sent) /\ Len(s) + 1 \in 1 .. Len(t)
  BY <1>2, <1>4, <1>5
<1>7. x = sent[Len(s) + 1]
  BY <1>2, <1>4, <1>6
<1> QED
  BY <1>3, <1>6, <1>7 DEF Channel!Receive, s, t

(***************************************************************************)
(* When a sender waits for each write before the next, the two ends see a  *)
(* channel of whole messages: each step of the framing is the sending of a *)
(* message, the receipt of the next one, or invisible.                     *)
(***************************************************************************)
THEOREM StreamIsChannel ==
  ASSUME OneAtATime
  PROVE  StreamSpec => ImplementsChannel
<1>1. StreamInit => Channel!Init
  BY DEF StreamInit, Channel!Init
<1>2. StatusInv /\ StatusInv' /\ ReceivedAsSent' /\ [StreamNext]_streamVars => [Channel!Next]_(Channel!vars)
  <2> SUFFICES ASSUME StatusInv, StatusInv', ReceivedAsSent', [StreamNext]_streamVars
               PROVE  [Channel!Next]_(Channel!vars)
    OBVIOUS
  <2>1. ASSUME NEW m \in Msgs, sent' = Append(sent, m), received' = received PROVE Channel!Next
    BY <2>1 DEF Channel!Next, Channel!Send
  <2>2. ASSUME NEW x, sent' = sent, received' = Append(received, x) PROVE Channel!Next
    BY <2>2, DispatchIsReceive DEF Channel!Next
  <2>3. ASSUME sent' = sent, received' = received PROVE UNCHANGED Channel!vars
    BY <2>3 DEF Channel!vars
  <2> QED
    BY <2>1, <2>2, <2>3, EndsOfStep
<1> QED
  BY <1>1, <1>2, StatusAlways, MessagesArriveAsSent, PTL DEF StreamSpec, ImplementsChannel, Channel!Spec

-----------------------------------------------------------------------------
(***************************************************************************)
(* What the end of the reads tells the caller.                             *)
(***************************************************************************)
\* The reader gives up only when the connection is lost or a message is too large.
StopsForCause == phase = "stopped" => broken \/ NextTooLarge

\* Nothing is under way: no write, nothing in the socket, no message half read.
NothingUnderWay ==
  ~broken /\ phase \in {"idle", "type"} /\ writes = <<>> /\ stream = <<>>

\* A message is not lost on a connection that is up.
NothingIsLost == NothingUnderWay => received = sent

LEMMA CauseKept ==
  ASSUME StatusInv, StopsForCause, phase' = phase, received' = received, broken => broken',
         sent' = sent \/ \E m \in Msgs : sent' = Append(sent, m)
  PROVE  StopsForCause'
<1>1. sent \in Seq(Msgs) /\ Len(received) \in Nat
  BY DEF StatusInv, StreamTypeOK
<1>2. NextTooLarge => NextTooLarge'
  <2>1. CASE sent' = sent
    BY <2>1 DEF NextTooLarge
  <2>2. ASSUME NEW m \in Msgs, sent' = Append(sent, m) PROVE NextTooLarge => NextTooLarge'
    <3> DEFINE z == sent'
               j == Len(received) + 1
    <3>1. z = Append(sent, m) /\ j \in Nat
      BY <1>1, <2>2
    <3> HIDE DEF z, j
    <3>2. j \in 1 .. Len(sent) => j \in 1 .. Len(z) /\ z[j] = sent[j]
      BY <1>1, <3>1
    <3> QED
      BY <3>2 DEF NextTooLarge, z, j
  <2> QED
    BY <2>1, <2>2
<1> QED
  BY <1>2 DEF StopsForCause

LEMMA CauseStep ==
  ASSUME OneAtATime
  PROVE  StatusInv /\ StreamInv /\ StopsForCause /\ [StreamNext]_streamVars => StopsForCause'
<1> SUFFICES ASSUME StatusInv, StreamInv, StopsForCause, [StreamNext]_streamVars
             PROVE  StopsForCause'
  OBVIOUS
<1>1. CASE UNCHANGED streamVars
  BY <1>1, CauseKept DEF streamVars
<1>2. ASSUME NEW m \in Msgs, write_message(m) PROVE StopsForCause'
  BY <1>2, CauseKept DEF write_message, reader
<1>3. CASE Write
  BY <1>3, CauseKept DEF Write, WriteSome, WriteFails, reader
<1>4. CASE Disconnected
  BY <1>4, CauseKept DEF Disconnected, writer, reader
<1>5. CASE read_message
  BY <1>5 DEF read_message, StopsForCause
<1>6. CASE ReadFails
  BY <1>6 DEF ReadFails, StopsForCause
<1>7. ASSUME NEW ok \in BOOLEAN, after_read_message_type(ok) PROVE StopsForCause'
  <2>1. /\ phase = "type" /\ stream # <<>>
        /\ Head(stream)[2] = 0 => ok
        /\ ok => phase' = "size"
    BY <1>7 DEF after_read_message_type
  <2>2. phase' = "size"
    BY <2>1, TypeIsNext
  <2> QED
    BY <2>2 DEF StopsForCause
<1>8. ASSUME NEW ok \in BOOLEAN, after_read_message_content(ok) PROVE StopsForCause'
  BY <1>8, FlowContent DEF StopsForCause
<1>9. ASSUME NEW size \in Sizes, after_read_message_size(size) PROVE StopsForCause'
  <2> DEFINE m == sent[Len(received) + 1]
  <2>1. /\ phase = "size" /\ stream # <<>> /\ UNCHANGED <<sent, received>>
        /\ Head(stream)[2] = 1 => size = BodySize[Head(stream)[1]]
        /\ ~(size > MaxSize) => phase' = "content"
    BY <1>9 DEF after_read_message_size, writer
  <2>2. Len(received) + 1 \in 1 .. Len(sent) /\ Head(stream) = <<m, 1>>
    BY <2>1, SizeIsNext
  <2>3. size = BodySize[m]
    <3> HIDE DEF m
    <3> QED
      BY <2>1, <2>2
  <2>4. size > MaxSize => NextTooLarge'
    BY <2>1, <2>2, <2>3 DEF NextTooLarge
  <2> QED
    BY <2>1, <2>4 DEF StopsForCause
<1> QED
  BY <1>1, <1>2, <1>3, <1>4, <1>5, <1>6, <1>7, <1>8, <1>9 DEF StreamNext, Read

LEMMA StreamAlways ==
  ASSUME OneAtATime
  PROVE  StreamSpec => [](StatusInv /\ StreamInv)
<1>1. StatusInv /\ StreamInv /\ [StreamNext]_streamVars => StreamInv'
  BY FlowStep
<1> QED
  BY <1>1, FlowInit, StatusAlways, PTL DEF StreamSpec

LEMMA ErrorStops == StatusInv /\ "error" \in Range(statuses) => phase = "stopped"
<1> SUFFICES ASSUME StatusInv, NEW i \in 1 .. Len(statuses), statuses[i] = "error"
             PROVE  phase = "stopped"
  <2>1. statuses \in Seq({"success", "error"}) => DOMAIN statuses = 1 .. Len(statuses)
    OBVIOUS
  <2> QED
    BY <2>1 DEF Range, StatusInv, StreamTypeOK
<1>1. Len(received) \in Nat /\ Len(statuses) \in Nat
  BY DEF StatusInv, StreamTypeOK
<1> QED
  BY <1>1 DEF StatusInv, StatusesCount

(***************************************************************************)
(* on_read_error is called with a sender that waits for each write only    *)
(* after the connection was lost, or for a message larger than             *)
(* max_message_size, which is then not dispatched: the framing never makes *)
(* a type, a size or a body of anything else.                              *)
(***************************************************************************)
THEOREM ReadsStopForCause ==
  ASSUME OneAtATime
  PROVE  StreamSpec => []ErrorsHaveCause
<1>1. StreamInit => StopsForCause
  BY DEF StreamInit, StopsForCause
<1>2. StatusInv /\ StreamInv /\ StopsForCause /\ [StreamNext]_streamVars => StopsForCause'
  BY CauseStep
<1>3. StatusInv /\ StopsForCause => ErrorsHaveCause
  BY ErrorStops DEF StopsForCause, ErrorsHaveCause
<1> QED
  BY <1>1, <1>2, <1>3, StreamAlways, PTL DEF StreamSpec

(***************************************************************************)
(* While the connection is up and nothing is under way, every message      *)
(* given to write_message has been dispatched: what is not written, not in *)
(* the socket and not being read has arrived.                              *)
(***************************************************************************)
THEOREM QuietMeansDelivered ==
  ASSUME OneAtATime
  PROVE  StreamSpec => []NothingIsLost
<1>1. StatusInv /\ StreamInv => NothingIsLost
  <2> SUFFICES ASSUME StatusInv, StreamInv, NothingUnderWay PROVE received = sent
    BY DEF NothingIsLost
  <2>1. Flow = <<>>
    <3>1. Front = <<>> /\ Pending = <<>> /\ stream = <<>>
      BY DEF NothingUnderWay, Front, Pending
    <3> QED
      BY <3>1 DEF Flow, Join
  <2>2. Len(received) = Len(sent)
    BY <2>1 DEF NothingUnderWay, StreamInv, Flowing, NextToArrive
  <2>3. \A i \in 1 .. Len(received) : received[i] = sent[i]
    BY DEF StreamInv, ReceivedAsSent
  <2>4. received \in Seq(Msgs \cup {Garbage}) /\ sent \in Seq(Msgs \cup {Garbage})
    BY DEF StatusInv, StreamTypeOK
  <2> QED
    BY <2>2, <2>3, <2>4, SameElements
<1> QED
  BY <1>1, StreamAlways, PTL
=============================================================================
