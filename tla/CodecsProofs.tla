----------------------------- MODULE CodecsProofs -----------------------------
(***************************************************************************)
(* Proofs about Codecs, for every limit and every input.                   *)
(*                                                                         *)
(* A value is followed through the writer and the reader from the bottom   *)
(* up: numbers, strings and lists, then layouts by how deep their parts    *)
(* nest.  At each level, what was written is read back wherever it stands, *)
(* exactly if it is allowed (Decodes), and what was read from a prefix is  *)
(* read from the whole (Extends).  That the reader of each message and of  *)
(* each record makes the calls of its writer is a lemma of its own         *)
(* (encode_x_Same, write_x_Same).  Above the layouts stand the checksum,   *)
(* which one changed byte always changes, the frame, the canonical order   *)
(* of a state, the image and the loop that reads its records one by one.   *)
(* The inductive invariant of the specification follows from these.        *)
(***************************************************************************)
EXTENDS Codecs, LeastNumber, SequenceTheorems, FiniteSetTheorems

Cat(a, b) == a \o b

\* Adding keeps an upper bound.
LEMMA AddLeq == \A a, b, c \in Nat : a <= b => a <= b + c
  OBVIOUS

\* A place among b that follow a.
LEMMA AddIn == \A a, b \in Nat : \A j \in 1..b : a + j \in 1..(a + b)
  OBVIOUS

\* c bytes from a on, among t that begin at s, among l.
Inside(s, a, c, t, l) ==
    /\ s + a \in 0..l /\ s + (a + c) \in 0..l /\ (s + a) + c <= l
    /\ (s + a) + c = s + (a + c)
    /\ \A j \in 1..c : a + j \in 1..t /\ s + (a + j) = (s + a) + j

\* A part of a part lies inside the whole.
LEMMA Within ==
    ASSUME NEW s \in Nat, NEW a \in Nat, NEW c \in Nat, NEW t \in Nat, NEW l \in Nat,
           a + c <= t, s + t <= l
    PROVE  Inside(s, a, c, t, l)
  BY DEF Inside

\* c is a followed by b.
Joined(S, a, b, c) ==
    /\ c \in Seq(S)
    /\ Len(c) = Len(a) + Len(b)
    /\ \A j \in 1..Len(a) : c[j] = a[j]
    /\ \A j \in 1..Len(b) : c[Len(a) + j] = b[j]

\* A sequence followed by another.
LEMMA CatJoins ==
    ASSUME NEW S, NEW a \in Seq(S), NEW b \in Seq(S)
    PROVE  Cat(a, b) \in Seq(S) /\ Joined(S, a, b, Cat(a, b))
  BY DEF Cat, Joined

\* Concat puts the parts one after the other.
LEMMA ConcatSteps ==
    ASSUME NEW S, NEW parts \in Seq(Seq(S))
    PROVE  \E u \in [0..Len(parts) -> Seq(S)] :
               /\ u[0] = <<>> /\ \A i \in 1..Len(parts) : u[i] = Cat(u[i - 1], parts[i])
               /\ Concat(parts) = u[Len(parts)]
  <1> DEFINE n == Len(parts)
             V == Seq(S)
             g == [i \in 1..n |-> [v \in V |-> Cat(v, parts[i])]]
  <1>1. n \in Nat /\ <<>> \in V /\ parts \in [1..n -> V]
    OBVIOUS
  <1>2. ASSUME NEW v \in V, NEW i \in 1..n PROVE Cat(v, parts[i]) \in V
    BY <1>1, CatJoins
  <1>3. g \in Steps(n, V)
    BY <1>2 DEF Steps
  <1>4. PICK f : Recursion(n, V, <<>>, g, f)
    <2> HIDE DEF V, g, n
    <2> QED
      BY <1>1, <1>3, RecursionExists
  <1>5. f = [i \in 0..n |-> IF i = 0 THEN <<>> ELSE Cat(f[i - 1], parts[i])]
    <2> HIDE DEF V, n
    <2>1. f \in [0..n -> V] /\ f[0] = <<>> /\ \A i \in 1..n : f[i] = g[i][f[i - 1]]
      BY <1>4 DEF Recursion
    <2>2. ASSUME NEW i \in 1..n PROVE g[i][f[i - 1]] = Cat(f[i - 1], parts[i])
      <3>1. f[i - 1] \in V
        BY <1>1, <2>1
      <3> QED
        BY <3>1
    <2> HIDE DEF g
    <2>3. \A i \in 0..n : f[i] = IF i = 0 THEN <<>> ELSE Cat(f[i - 1], parts[i])
      BY <1>1, <2>1, <2>2
    <2> QED
      BY <2>1, <2>3
  <1> HIDE DEF g
  <1>6. PICK u : u = [i \in 0..n |-> IF i = 0 THEN <<>> ELSE Cat(u[i - 1], parts[i])]
                 /\ Concat(parts) = u[n]
    BY <1>5 DEF Concat, Cat
  <1> HIDE DEF V, n
  <1>7. u[0] = <<>> /\ \A i \in 1..n : u[i] = Cat(u[i - 1], parts[i])
    BY <1>1, <1>6
  <1>8. \A i \in 0..n : u[i] \in V
    <2> DEFINE T == {i \in 0..n : u[i] \in V}
    <2>1. 0 \in T
      BY <1>1, <1>7
    <2>2. ASSUME NEW k \in 0..(n - 1), k \in T PROVE k + 1 \in T
      <3>1. k + 1 \in 1..n /\ (k + 1) - 1 = k /\ u[k] \in V
        BY <1>1, <2>2
      <3> QED
        BY <1>1, <1>2, <1>7, <3>1
    <2> HIDE DEF T
    <2>3. \A k \in 0..(n - 1) : k \in T => k + 1 \in T
      BY <2>2
    <2>4. \A k \in 0..n : k \in T
      BY <1>1, <2>1, <2>3, SetInduction
    <2> QED
      BY <2>4 DEF T
  <1>9. u \in [0..n -> V]
    BY <1>6, <1>8
  <1> QED
    BY <1>6, <1>7, <1>9 DEF V, n

\* Where each part begins.
Placed(parts, w) ==
    /\ w \in [0..Len(parts) -> Nat] /\ w[0] = 0 /\ w[Len(parts)] = Len(Concat(parts))
    /\ \A i \in 1..Len(parts) :
          /\ w[i] = w[i - 1] + Len(parts[i]) /\ w[i] <= Len(Concat(parts))
          /\ \A j \in 1..Len(parts[i]) : Concat(parts)[w[i - 1] + j] = parts[i][j]

\* Concat puts each part where the ones before it end.
LEMMA ConcatPlaces ==
    ASSUME NEW S, NEW parts \in Seq(Seq(S))
    PROVE  Concat(parts) \in Seq(S) /\ \E w : Placed(parts, w)
  <1> DEFINE n == Len(parts)
  <1>1. PICK u : /\ u \in [0..n -> Seq(S)] /\ u[0] = <<>> /\ Concat(parts) = u[n]
                 /\ \A i \in 1..n : u[i] = Cat(u[i - 1], parts[i])
    BY ConcatSteps
  <1>2. n \in Nat /\ \A i \in 1..n : parts[i] \in Seq(S) /\ Len(parts[i]) \in Nat
    OBVIOUS
  <1>2a. \A i \in 0..n : u[i] \in Seq(S) /\ Len(u[i]) \in Nat
    BY <1>1, SMTT(30)
  <1> HIDE DEF n
  <1>3. ASSUME NEW i \in 1..n PROVE Joined(S, u[i - 1], parts[i], u[i])
    <2>1. i \in 0..n /\ i - 1 \in 0..n
      BY <1>2
    <2>2. u[i - 1] \in Seq(S) /\ parts[i] \in Seq(S) /\ u[i] = Cat(u[i - 1], parts[i])
      BY <1>1, <1>2, <1>2a, <2>1, Zenon
    <2>3. Joined(S, u[i - 1], parts[i], Cat(u[i - 1], parts[i]))
      BY <2>2, CatJoins
    <2> QED
      BY <2>2, <2>3, Zenon
  <1>4. ASSUME NEW i \in 0..n
        PROVE  Len(u[i]) <= Len(u[n]) /\ \A j \in 1..Len(u[i]) : u[n][j] = u[i][j]
    <2> DEFINE T == {k \in 0..n : k >= i =>
                        Len(u[i]) <= Len(u[k]) /\ \A j \in 1..Len(u[i]) : u[k][j] = u[i][j]}
    <2>0. u[i] \in Seq(S) /\ Len(u[i]) \in Nat
      BY <1>2a
    <2>1. 0 \in T
      BY <1>2, <2>0
    <2>2. ASSUME NEW k \in 0..(n - 1), k \in T PROVE k + 1 \in T
      <3>1. k + 1 \in 1..n /\ (k + 1) - 1 = k /\ k + 1 \in 0..n
        BY <1>2
      <3>2. Joined(S, u[k], parts[k + 1], u[k + 1])
        BY <1>3, <3>1, Zenon
      <3>2a. Len(u[k + 1]) = Len(u[k]) + Len(parts[k + 1])
        BY <3>2 DEF Joined
      <3>2b. \A j \in 1..Len(u[k]) : u[k + 1][j] = u[k][j]
        BY <3>2 DEF Joined
      <3>3. Len(u[k]) \in Nat /\ Len(parts[k + 1]) \in Nat
        BY <1>2, <1>2a, <3>1
      <3>4. CASE k >= i
        <4>1. Len(u[i]) <= Len(u[k]) /\ \A j \in 1..Len(u[i]) : u[k][j] = u[i][j]
          BY <2>2, <3>4
        <4>2. Len(u[i]) <= Len(u[k + 1])
          <5>1. Len(u[i]) \in Nat /\ Len(u[i]) <= Len(u[k])
            BY <2>0, <4>1, Zenon
          <5>2. Len(u[i]) <= Len(u[k]) + Len(parts[k + 1])
            BY <3>3, <5>1, AddLeq
          <5> QED
            BY <3>2a, <5>2, Zenon
        <4>3. \A j \in 1..Len(u[i]) : j \in 1..Len(u[k])
          BY <2>0, <3>3, <4>1
        <4>4. \A j \in 1..Len(u[i]) : u[k + 1][j] = u[i][j]
          BY <3>2b, <4>1, <4>3
        <4> QED
          BY <3>1, <4>2, <4>4
      <3>5. CASE ~(k >= i)
        <4>1. k + 1 = i \/ ~(k + 1 >= i)
          BY <3>5
        <4> QED
          BY <2>0, <3>1, <4>1
      <3> QED
        BY <3>4, <3>5
    <2> HIDE DEF T
    <2>3. \A k \in 0..(n - 1) : k \in T => k + 1 \in T
      BY <2>2
    <2>4. \A k \in 0..n : k \in T
      BY <1>2, <2>1, <2>3, SetInduction
    <2>5. n \in T /\ n >= i
      BY <1>2, <2>4
    <2> QED
      BY <2>5 DEF T
  <1> DEFINE w == [i \in 0..n |-> Len(u[i])]
  <1>5. w \in [0..n -> Nat] /\ w[0] = 0 /\ w[n] = Len(Concat(parts))
    <2>1. 0 \in 0..n /\ n \in 0..n /\ Len(<<>>) = 0
      BY <1>2
    <2> QED
      BY <1>1, <1>2a, <2>1
  <1>6. ASSUME NEW i \in 1..n
        PROVE  /\ w[i] = w[i - 1] + Len(parts[i]) /\ w[i] <= Len(Concat(parts))
               /\ \A j \in 1..Len(parts[i]) : Concat(parts)[w[i - 1] + j] = parts[i][j]
    <2>1. i \in 0..n /\ i - 1 \in 0..n
      BY <1>2
    <2>2. w[i] = Len(u[i]) /\ w[i - 1] = Len(u[i - 1])
      BY <2>1
    <2>3. Len(u[i - 1]) \in Nat /\ Len(parts[i]) \in Nat
      BY <1>2, <1>2a, <2>1
    <2>3a. Len(u[i]) = Len(u[i - 1]) + Len(parts[i])
      BY <1>3 DEF Joined
    <2>3b. \A j \in 1..Len(parts[i]) : u[i][Len(u[i - 1]) + j] = parts[i][j]
      BY <1>3 DEF Joined
    <2> HIDE DEF w
    <2>4. ASSUME NEW j \in 1..Len(parts[i]) PROVE Concat(parts)[w[i - 1] + j] = parts[i][j]
      <3>1. Len(u[i - 1]) + j \in 1..(Len(u[i - 1]) + Len(parts[i]))
        BY <2>3, AddIn
      <3>2. u[n][Len(u[i - 1]) + j] = u[i][Len(u[i - 1]) + j]
        BY <1>4, <2>1, <2>3a, <3>1
      <3>3. u[i][Len(u[i - 1]) + j] = parts[i][j]
        BY <2>3b
      <3> QED
        BY <1>1, <2>2, <3>2, <3>3
    <2>5. w[i] <= Len(Concat(parts))
      BY <1>1, <1>4, <2>1, <2>2
    <2>6. w[i] = w[i - 1] + Len(parts[i])
      BY <2>2, <2>3a
    <2> QED
      BY <2>4, <2>5, <2>6
  <1>7. Concat(parts) \in Seq(S)
    BY <1>1, <1>2
  <1> HIDE DEF w
  <1>8. Placed(parts, w)
    BY <1>5, <1>6 DEF Placed, n
  <1> QED
    BY <1>7, <1>8

\* A function on 1..n is a sequence of length n.
LEMMA SequenceOf ==
    ASSUME NEW n \in Nat, NEW f, f = [i \in 1..n |-> f[i]]
    PROVE  f \in Seq({f[i] : i \in 1..n}) /\ Len(f) = n /\ DOMAIN f = 1..n
  <1> DEFINE S == {f[i] : i \in 1..n}
  <1>1. f \in [1..n -> S]
    OBVIOUS
  <1> HIDE DEF S
  <1>2. f \in Seq(S) /\ Len(f) = n /\ DOMAIN f = 1..n
    BY <1>1
  <1> QED
    BY <1>2 DEF S

\* The reader makes its calls one after the other.
After(calls, names, i, r) ==
    IF r.ok /\ calls[i][r.off].ok
    THEN Put(r, names[i], calls[i][r.off].val, calls[i][r.off].off)
    ELSE [ok |-> FALSE, off |-> r.off, val |-> r.val]

Ran(calls, names, start, n, u) ==
    /\ u[0] = Read(<<>>, start) /\ InOrder(calls, names, start) = u[n]
    /\ \A i \in 1..n : u[i] = After(calls, names, i, u[i - 1])

\* The calls of InOrder one by one.
LEMMA InOrderSteps ==
    ASSUME NEW calls, NEW names, NEW start, Len(calls) \in Nat
    PROVE  \E u : Ran(calls, names, start, Len(calls), u)
  <1> DEFINE n == Len(calls)
             N(i, r) == After(calls, names, i, r)
             B == Read(<<>>, start)
             S == {k \in 0..n : \E f : f = [i \in 0..k |-> IF i = 0 THEN B ELSE N(i, f[i - 1])]}
  <1>0. n \in Nat
    OBVIOUS
  <1> HIDE DEF n, N, B
  <1>1. 0 \in S
    <2> DEFINE f == [i \in 0..0 |-> B]
    <2>1. f = [i \in 0..0 |-> IF i = 0 THEN B ELSE N(i, f[i - 1])]
      <3>1. f = [i \in 0..0 |-> f[i]] /\ \A i \in 0..0 : i = 0 /\ f[i] = B
        OBVIOUS
      <3> HIDE DEF f
      <3> QED
        BY <3>1
    <2> HIDE DEF f
    <2> QED
      BY <1>0, <2>1
  <1>2. ASSUME NEW k \in 0..(n - 1), k \in S PROVE k + 1 \in S
    <2>1. PICK f : f = [i \in 0..k |-> IF i = 0 THEN B ELSE N(i, f[i - 1])]
      BY <1>2
    <2> DEFINE h == [i \in 0..(k + 1) |-> IF i = k + 1 THEN N(k + 1, f[k]) ELSE f[i]]
    <2>2. ASSUME NEW i \in 0..(k + 1) PROVE h[i] = IF i = 0 THEN B ELSE N(i, h[i - 1])
      <3>1. CASE i = k + 1
        <4>1. h[i - 1] = f[k] /\ i # 0
          BY <3>1
        <4> QED
          BY <3>1, <4>1
      <3>2. CASE i # k + 1
        <4>1. i \in 0..k /\ h[i] = f[i]
          BY <3>2
        <4>2. CASE i = 0
          BY <2>1, <4>1, <4>2
        <4>3. CASE i # 0
          <5>1. i - 1 \in 0..(k + 1) /\ i - 1 # k + 1
            BY <4>1, <4>3
          <5>2. h[i - 1] = f[i - 1]
            BY <5>1
          <5> QED
            BY <2>1, <4>1, <4>3, <5>2
        <4> QED
          BY <4>2, <4>3
      <3> QED
        BY <3>1, <3>2
    <2>3. h = [i \in 0..(k + 1) |-> IF i = 0 THEN B ELSE N(i, h[i - 1])]
      <3>1. DOMAIN h = 0..(k + 1) /\ h = [i \in 0..(k + 1) |-> h[i]]
        OBVIOUS
      <3> HIDE DEF h
      <3> QED
        BY <2>2, <3>1
    <2> HIDE DEF h
    <2>4. k + 1 \in 0..n
      BY <1>0
    <2> QED
      BY <2>3, <2>4
  <1>3. n \in S
    <2> HIDE DEF S
    <2>1. \A k \in 0..(n - 1) : k \in S => k + 1 \in S
      BY <1>2
    <2>2. \A k \in 0..n : k \in S
      BY <1>0, <1>1, <2>1, SetInduction
    <2> QED
      BY <1>0, <2>2
  <1>4. PICK f : f = [i \in 0..n |-> IF i = 0 THEN B ELSE N(i, f[i - 1])]
    BY <1>3
  <1>5. PICK u : u = [i \in 0..n |-> IF i = 0 THEN B ELSE N(i, u[i - 1])]
                 /\ InOrder(calls, names, start) = u[n]
    BY <1>4 DEF InOrder, After, n, N, B
  <1>6. u[0] = B /\ \A i \in 1..n : u[i] = N(i, u[i - 1])
    BY <1>0, <1>5
  <1> QED
    BY <1>5, <1>6 DEF n, N, B, Ran

\* The bytes c stand in bs from offset o on.
At(bs, o, c) == o + Len(c) <= Len(bs) /\ \A j \in 1..Len(c) : bs[o + j] = c[j]

\* Wherever the call meets the bytes c it reads v from them, or fails.
Reads(call, bs, c, v) == \A o \in 0..Len(bs) : At(bs, o, c) => call[o] = Read(v, o + Len(c))
Refuses(call, bs, c) == \A o \in 0..Len(bs) : At(bs, o, c) => ~call[o].ok

\* A part of what stands somewhere stands where it begins.
Stands(bs, start, before, chunk, after) ==
    /\ start + before \in 0..Len(bs) /\ start + after \in 0..Len(bs)
    /\ (start + before) + Len(chunk) = start + after
    /\ At(bs, start + before, chunk)

\* A part of the bytes that stand at o stands where it begins.
LEMMA PartAt ==
    ASSUME NEW bs \in Seq(Byte), NEW chunks \in Seq(Seq(Byte)), NEW w, Placed(chunks, w),
           NEW start \in 0..Len(bs), At(bs, start, Concat(chunks)), NEW i \in 1..Len(chunks)
    PROVE  Stands(bs, start, w[i - 1], chunks[i], w[i])
  <1>1. /\ Len(chunks) \in Nat /\ Len(bs) \in Nat /\ Len(chunks[i]) \in Nat
        /\ i - 1 \in 0..Len(chunks) /\ i \in 0..Len(chunks)
    OBVIOUS
  <1>2. w[i] \in Nat /\ w[i - 1] \in Nat /\ w[i] = w[i - 1] + Len(chunks[i])
    BY <1>1 DEF Placed
  <1>3. w[i] <= Len(Concat(chunks)) /\ Len(Concat(chunks)) \in Nat
    <2>1. Len(chunks) \in 0..Len(chunks)
      BY <1>1
    <2> QED
      BY <1>1, <2>1 DEF Placed
  <1>4. start + Len(Concat(chunks)) <= Len(bs)
    BY DEF At
  <1>5. w[i - 1] + Len(chunks[i]) <= Len(Concat(chunks)) /\ start \in Nat
    BY <1>1, <1>2, <1>3
  <1>6a. Inside(start, w[i - 1], Len(chunks[i]), Len(Concat(chunks)), Len(bs))
    BY <1>1, <1>2, <1>3, <1>4, <1>5, Within
  <1>6. /\ start + w[i - 1] \in 0..Len(bs) /\ start + (w[i - 1] + Len(chunks[i])) \in 0..Len(bs)
        /\ (start + w[i - 1]) + Len(chunks[i]) <= Len(bs)
        /\ (start + w[i - 1]) + Len(chunks[i]) = start + (w[i - 1] + Len(chunks[i]))
        /\ \A j \in 1..Len(chunks[i]) : /\ w[i - 1] + j \in 1..Len(Concat(chunks))
                                        /\ start + (w[i - 1] + j) = (start + w[i - 1]) + j
    BY <1>6a, Zenon DEF Inside
  <1>7. ASSUME NEW j \in 1..Len(chunks[i]) PROVE bs[(start + w[i - 1]) + j] = chunks[i][j]
    <2>1. /\ w[i - 1] + j \in 1..Len(Concat(chunks))
          /\ start + (w[i - 1] + j) = (start + w[i - 1]) + j
      BY <1>6, Zenon
    <2>2. Concat(chunks)[w[i - 1] + j] = chunks[i][j]
      BY DEF Placed
    <2>3. bs[start + (w[i - 1] + j)] = Concat(chunks)[w[i - 1] + j]
      BY <2>1 DEF At
    <2> QED
      BY <2>1, <2>2, <2>3, Zenon
  <1> QED
    BY <1>2, <1>6, <1>7, Zenon DEF At, Stands

\* The fields of m are the first n names.
Named(m, names, n) == m = [x \in {names[i] : i \in 1..n} |-> m[x]]

ReadsAll(calls, bs, chunks, m, names) ==
    \A i \in 1..Len(chunks) : Reads(calls[i], bs, chunks[i], m[names[i]])
ReadsOrRefuses(calls, bs, chunks, m, names) ==
    \A i \in 1..Len(chunks) : \/ Reads(calls[i], bs, chunks[i], m[names[i]])
                              \/ Refuses(calls[i], bs, chunks[i])

\* Calls that each read their part read the whole.
LEMMA InOrderReads ==
    ASSUME NEW bs \in Seq(Byte), NEW chunks \in Seq(Seq(Byte)), NEW calls, NEW names, NEW m,
           Len(calls) = Len(chunks), Named(m, names, Len(chunks)),
           ReadsAll(calls, bs, chunks, m, names),
           NEW start \in 0..Len(bs), At(bs, start, Concat(chunks))
    PROVE  InOrder(calls, names, start) = Read(m, start + Len(Concat(chunks)))
  <1> DEFINE n == Len(chunks)
             V(k) == [x \in {names[i] : i \in 1..k} |-> m[x]]
  <1>1. n \in Nat /\ n = Len(calls)
    OBVIOUS
  <1>2. PICK w : Placed(chunks, w)
    BY ConcatPlaces
  <1>3. PICK u : /\ u[0] = Read(<<>>, start) /\ InOrder(calls, names, start) = u[n]
                 /\ \A i \in 1..n : u[i] = After(calls, names, i, u[i - 1])
    <2>1. PICK u : Ran(calls, names, start, Len(calls), u)
      <3>1. Len(calls) \in Nat
        OBVIOUS
      <3> QED
        BY <3>1, InOrderSteps
    <2> HIDE DEF n
    <2> QED
      BY <1>1, <2>1, Zenon DEF Ran
  <1> HIDE DEF n
  <1> DEFINE T == {k \in 0..n : u[k] = Read(V(k), start + w[k])}
  <1>4. 0 \in T
    <2>1. V(0) = <<>>
      <3>1. {names[i] : i \in 1..0} = {}
        OBVIOUS
      <3> QED
        BY <3>1
    <2> HIDE DEF V
    <2>2. start + w[0] = start
      BY <1>2 DEF Placed
    <2> QED
      BY <1>1, <1>3, <2>1, <2>2
  <1>5. ASSUME NEW k \in 0..(n - 1), k \in T PROVE k + 1 \in T
    <2>1. k + 1 \in 1..n /\ (k + 1) - 1 = k /\ k + 1 \in 0..n
      BY <1>1
    <2>2. k + 1 \in 1..Len(chunks)
      BY <2>1 DEF n
    <2>3. /\ start + w[k] \in 0..Len(bs)
          /\ (start + w[k]) + Len(chunks[k + 1]) = start + w[k + 1]
          /\ At(bs, start + w[k], chunks[k + 1])
      <3>1. Stands(bs, start, w[(k + 1) - 1], chunks[k + 1], w[k + 1])
        BY <1>2, <2>2, PartAt
      <3> QED
        BY <2>1, <3>1, Zenon DEF Stands
    <2>4. calls[k + 1][start + w[k]]
            = Read(m[names[k + 1]], (start + w[k]) + Len(chunks[k + 1]))
      <3>1. Reads(calls[k + 1], bs, chunks[k + 1], m[names[k + 1]])
        BY <2>2 DEF ReadsAll
      <3> QED
        BY <2>3, <3>1 DEF Reads
    <2>6. u[k] = Read(V(k), start + w[k]) /\ u[k + 1] = After(calls, names, k + 1, u[k])
      BY <1>3, <1>5, <2>1
    <2>7. u[k + 1] = Put(u[k], names[k + 1], m[names[k + 1]], start + w[k + 1])
      <3> HIDE DEF V
      <3>1. u[k].ok = TRUE /\ u[k].off = start + w[k]
        BY <2>6 DEF Read
      <3>2. calls[k + 1][u[k].off] = Read(m[names[k + 1]], start + w[k + 1])
        BY <2>3, <2>4, <3>1, Zenon
      <3>3. /\ calls[k + 1][u[k].off].ok = TRUE
            /\ calls[k + 1][u[k].off].val = m[names[k + 1]]
            /\ calls[k + 1][u[k].off].off = start + w[k + 1]
        BY <3>2 DEF Read
      <3> QED
        BY <2>6, <3>1, <3>3 DEF After
    <2>8. Put(u[k], names[k + 1], m[names[k + 1]], start + w[k + 1])
            = Read(V(k + 1), start + w[k + 1])
      <3>1. u[k].val = V(k)
        BY <2>6 DEF Read
      <3>2. DOMAIN V(k) \cup {names[k + 1]} = {names[i] : i \in 1..(k + 1)}
        <4>1. 1..(k + 1) = 1..k \cup {k + 1}
          OBVIOUS
        <4> QED
          BY <4>1
      <3>3. [x \in DOMAIN V(k) \cup {names[k + 1]} |->
                IF x = names[k + 1] THEN m[names[k + 1]] ELSE V(k)[x]] = V(k + 1)
        BY <3>2
      <3> HIDE DEF V
      <3> QED
        BY <3>1, <3>3 DEF Put
    <2> HIDE DEF V
    <2> QED
      BY <2>1, <2>7, <2>8
  <1>6. n \in T
    <2> HIDE DEF T
    <2>1. \A k \in 0..(n - 1) : k \in T => k + 1 \in T
      BY <1>5
    <2>2. \A k \in 0..n : k \in T
      BY <1>1, <1>4, <2>1, SetInduction
    <2> QED
      BY <1>1, <2>2
  <1>7. V(n) = m
    BY DEF n, Named
  <1>8. w[n] = Len(Concat(chunks))
    BY <1>2 DEF Placed, n
  <1> HIDE DEF V
  <1> QED
    BY <1>3, <1>6, <1>7, <1>8

\* If one of the calls refuses its part, the reader fails.
LEMMA InOrderRefuses ==
    ASSUME NEW bs \in Seq(Byte), NEW chunks \in Seq(Seq(Byte)), NEW calls, NEW names, NEW m,
           Len(calls) = Len(chunks), ReadsOrRefuses(calls, bs, chunks, m, names),
           NEW bad \in 1..Len(chunks), Refuses(calls[bad], bs, chunks[bad]),
           NEW start \in 0..Len(bs), At(bs, start, Concat(chunks))
    PROVE  ~InOrder(calls, names, start).ok
  <1> DEFINE n == Len(chunks)
  <1>1. n \in Nat /\ n = Len(calls) /\ bad \in 1..n
    OBVIOUS
  <1>2. PICK w : Placed(chunks, w)
    BY ConcatPlaces
  <1>3. PICK u : /\ u[0] = Read(<<>>, start) /\ InOrder(calls, names, start) = u[n]
                 /\ \A i \in 1..n : u[i] = After(calls, names, i, u[i - 1])
    <2>1. PICK u : Ran(calls, names, start, Len(calls), u)
      <3>1. Len(calls) \in Nat
        OBVIOUS
      <3> QED
        BY <3>1, InOrderSteps
    <2> HIDE DEF n
    <2> QED
      BY <1>1, <2>1, Zenon DEF Ran
  <1> HIDE DEF n
  <1> DEFINE T == {k \in 0..n : u[k].ok => u[k].off = start + w[k] /\ k < bad}
  <1>4. 0 \in T
    <2>1. start + w[0] = start
      BY <1>2 DEF Placed
    <2> QED
      BY <1>1, <1>3, <2>1 DEF Read
  <1>5. ASSUME NEW k \in 0..(n - 1), k \in T PROVE k + 1 \in T
    <2>1. k + 1 \in 1..n /\ (k + 1) - 1 = k /\ k + 1 \in 0..n
      BY <1>1
    <2>2. k + 1 \in 1..Len(chunks)
      BY <2>1 DEF n
    <2>3. u[k + 1] = After(calls, names, k + 1, u[k])
      BY <1>3, <2>1
    <2> SUFFICES ASSUME u[k + 1].ok PROVE u[k + 1].off = start + w[k + 1] /\ k + 1 < bad
      BY <2>1
    <2>4. /\ u[k].ok /\ calls[k + 1][u[k].off].ok
          /\ u[k + 1].off = calls[k + 1][u[k].off].off
      BY <2>3 DEF After, Put, Read
    <2>5. u[k].off = start + w[k] /\ k < bad
      BY <1>5, <2>4
    <2>6. /\ start + w[k] \in 0..Len(bs)
          /\ (start + w[k]) + Len(chunks[k + 1]) = start + w[k + 1]
          /\ At(bs, start + w[k], chunks[k + 1])
      <3>1. Stands(bs, start, w[(k + 1) - 1], chunks[k + 1], w[k + 1])
        BY <1>2, <2>2, PartAt
      <3> QED
        BY <2>1, <3>1, Zenon DEF Stands
    <2>7. ~Refuses(calls[k + 1], bs, chunks[k + 1])
      BY <2>4, <2>5, <2>6 DEF Refuses
    <2>8. k + 1 < bad
      <3>1. k + 1 # bad
        BY <2>7
      <3> QED
        BY <1>1, <2>5, <3>1
    <2>9. Reads(calls[k + 1], bs, chunks[k + 1], m[names[k + 1]])
      BY <2>2, <2>7 DEF ReadsOrRefuses
    <2>10. calls[k + 1][start + w[k]]
             = Read(m[names[k + 1]], (start + w[k]) + Len(chunks[k + 1]))
      BY <2>6, <2>9, Zenon DEF Reads
    <2>11. calls[k + 1][start + w[k]].off = (start + w[k]) + Len(chunks[k + 1])
      BY <2>10 DEF Read
    <2> QED
      BY <2>4, <2>5, <2>6, <2>8, <2>11, Zenon
  <1>6. n \in T
    <2> HIDE DEF T
    <2>1. \A k \in 0..(n - 1) : k \in T => k + 1 \in T
      BY <1>5
    <2>2. \A k \in 0..n : k \in T
      BY <1>1, <1>4, <2>1, SetInduction
    <2> QED
      BY <1>1, <2>2
  <1> QED
    BY <1>1, <1>3, <1>6

\* Where a call succeeds it stops inside its first `size' bytes, and more bytes after
\* them change nothing.
Extends(call, more, size) ==
    \A o \in 0..size : call[o].ok => call[o].off \in o..size /\ more[o] = call[o]

\* Calls that go on as before when bytes follow do so one after the other.
LEMMA InOrderExtends ==
    ASSUME NEW n \in Nat, NEW size \in Nat, NEW calls, NEW more, NEW names,
           Len(calls) = n, Len(more) = n,
           \A i \in 1..n : Extends(calls[i], more[i], size),
           NEW start \in 0..size, InOrder(calls, names, start).ok
    PROVE  /\ InOrder(more, names, start) = InOrder(calls, names, start)
           /\ InOrder(calls, names, start).off \in start..size
  <1>1. PICK u : Ran(calls, names, start, n, u)
    BY InOrderSteps
  <1>2. PICK x : Ran(more, names, start, n, x)
    BY InOrderSteps
  <1> DEFINE T == {k \in 0..n : u[k].ok => x[k] = u[k] /\ u[k].off \in start..size}
  <1>3. 0 \in T
    <2>1. u[0] = Read(<<>>, start) /\ x[0] = u[0]
      BY <1>1, <1>2 DEF Ran
    <2>2. u[0].off = start
      BY <2>1 DEF Read
    <2> QED
      BY <2>1, <2>2
  <1>4. ASSUME NEW k \in 0..(n - 1), k \in T PROVE k + 1 \in T
    <2>1. k + 1 \in 1..n /\ (k + 1) - 1 = k /\ k + 1 \in 0..n
      OBVIOUS
    <2>2. u[k + 1] = After(calls, names, k + 1, u[k]) /\ x[k + 1] = After(more, names, k + 1, x[k])
      BY <1>1, <1>2, <2>1 DEF Ran
    <2> SUFFICES ASSUME u[k + 1].ok
                 PROVE  x[k + 1] = u[k + 1] /\ u[k + 1].off \in start..size
      BY <2>1
    <2>3. /\ u[k].ok /\ calls[k + 1][u[k].off].ok
          /\ u[k + 1].off = calls[k + 1][u[k].off].off
      BY <2>2 DEF After, Put, Read
    <2>4. x[k] = u[k] /\ u[k].off \in start..size
      BY <1>4, <2>3
    <2>5. u[k].off \in 0..size
      BY <2>4
    <2>6. Extends(calls[k + 1], more[k + 1], size)
      BY <2>1
    <2>7. /\ more[k + 1][u[k].off] = calls[k + 1][u[k].off]
          /\ calls[k + 1][u[k].off].off \in (u[k].off)..size
      BY <2>3, <2>5, <2>6 DEF Extends
    <2>8. x[k + 1] = u[k + 1]
      BY <2>2, <2>4, <2>7 DEF After
    <2>9. u[k + 1].off \in start..size
      BY <2>3, <2>4, <2>7
    <2> QED
      BY <2>8, <2>9
  <1>5. n \in T
    <2> HIDE DEF T
    <2>1. \A k \in 0..(n - 1) : k \in T => k + 1 \in T
      BY <1>4
    <2>2. \A k \in 0..n : k \in T
      BY <1>3, <2>1, SetInduction
    <2> QED
      BY <2>2
  <1> QED
    BY <1>1, <1>2, <1>5 DEF Ran

-----------------------------------------------------------------------------
(***************************************************************************)
(* Numbers.                                                                *)
(***************************************************************************)
LEMMA ByteIs == \A b \in Byte : b \in Nat /\ b <= 255 /\ 255 - b \in Byte
  BY DEF Byte

\* Huge as a bound, without its digits.
LEMMA HugeNat == Huge \in Nat
  BY SMT DEF Huge

\* Up to Huge is below 2^31.
LEMMA HugeIs == \A v \in Nat : (v <= Huge) = (v < 2147483648)
  BY SMT DEF Huge

\* A word is a number below Huge.
LEMMA WordIs == Word \in Nat /\ Word <= Huge /\ Word = 65535
  BY SMT DEF Huge, Word

\* The four digits of a number below 2^31.
LEMMA FourDigits ==
    ASSUME NEW v \in 0..Huge
    PROVE  /\ (v \div 1) % 256 \in Byte /\ (v \div 256) % 256 \in Byte
           /\ (v \div 65536) % 256 \in Byte /\ (v \div 16777216) % 256 \in Byte
           /\ (v \div 16777216) % 256 < 128
           /\ v = ((v \div 1) % 256) + 256 * ((v \div 256) % 256)
                  + 65536 * ((v \div 65536) % 256) + 16777216 * ((v \div 16777216) % 256)
  <1>0. v \in Nat /\ v < 2147483648
    <2>1. v \in Nat /\ v <= Huge
      BY HugeNat, SMT
    <2> QED
      BY <2>1, HugeIs, SMT
  <1>1. v \div 1 = v
    BY <1>0, SMT
  <1>1a. v \div 16777216 \in Nat /\ 16777216 * (v \div 16777216) <= v
    BY <1>0, SMT
  <1>1b. v \div 16777216 \in 0..127
    BY <1>0, <1>1a, SMT
  <1>2. (v \div 256) \div 256 = v \div 65536
    BY <1>0, SMT
  <1>3. (v \div 65536) \div 256 = v \div 16777216
    BY <1>0, SMT
  <1>4. v = 256 * (v \div 256) + (v % 256)
    BY <1>0, SMT
  <1>5. v \div 256 = 256 * ((v \div 256) \div 256) + ((v \div 256) % 256)
    BY <1>0, SMT
  <1>6. v \div 65536 = 256 * ((v \div 65536) \div 256) + ((v \div 65536) % 256)
    BY <1>0, SMT
  <1>7. (v \div 16777216) % 256 = v \div 16777216
    BY <1>1b, SMT
  <1>8. /\ (v \div 1) % 256 \in Byte /\ (v \div 256) % 256 \in Byte
        /\ (v \div 65536) % 256 \in Byte
    BY <1>0, <1>1, SMT DEF Byte
  <1>9. v = (v % 256) + 256 * ((v \div 256) % 256)
            + 65536 * ((v \div 65536) % 256) + 16777216 * (v \div 16777216)
    BY <1>2, <1>3, <1>4, <1>5, <1>6, SMT
  <1> QED
    BY <1>1, <1>1b, <1>7, <1>8, <1>9, SMT DEF Byte

\* What fits in `width' bytes.
InWidth(v, width) == (width = 1 => v <= 255) /\ (width = 2 => v <= Word)

Value(d) == Digit(d, 1) + 256 * Digit(d, 2) + 65536 * Digit(d, 3) + 16777216 * Digit(d, 4)

\* The `width' bytes d hold v.
Holds(d, v, width) ==
    /\ d \in [1..width -> Byte] /\ (4 <= width => d[4] < 128)
    /\ \A i \in 1..width : i > 4 => d[i] = 0
    /\ InWidth(v, width) => v = Value(d)

\* A number written in a width that holds it.
LEMMA MagnitudeBytes ==
    ASSUME NEW v \in 0..Huge, NEW width \in {1, 2, 4, 8}
    PROVE  Holds(Magnitude(v, width), v, width)
  <1> DEFINE a == (v \div 1) % 256
             b == (v \div 256) % 256
             c == (v \div 65536) % 256
             e == (v \div 16777216) % 256
             d == Magnitude(v, width)
  <1>0. a \in Byte /\ b \in Byte /\ c \in Byte /\ e \in Byte /\ e < 128
        /\ v = a + 256 * b + 65536 * c + 16777216 * e
    BY FourDigits
  <1>1. \A i \in 1..width : d[i] = IF i > 4 THEN 0 ELSE (v \div Place[i]) % 256
    BY DEF Magnitude
  <1>2. Place[1] = 1 /\ Place[2] = 256 /\ Place[3] = 65536 /\ Place[4] = 16777216
    BY SMT DEF Place
  <1>2a. DOMAIN d = 1..width /\ d = [i \in 1..width |-> d[i]]
    BY DEF Magnitude
  <1> HIDE DEF a, b, c, e, d
  <1>3. /\ d[1] = a
        /\ 2 <= width => d[2] = b
        /\ 4 <= width => d[3] = c /\ d[4] = e
    <2>1. d[1] = (v \div Place[1]) % 256 /\ (2 <= width => d[2] = (v \div Place[2]) % 256)
          /\ (4 <= width => d[3] = (v \div Place[3]) % 256 /\ d[4] = (v \div Place[4]) % 256)
      BY <1>1
    <2> QED
      BY <1>2, <2>1 DEF a, b, c, e
  <1>4. \A i \in 1..width : i > 4 => d[i] = 0
    BY <1>1
  <1>5. \A i \in 1..width : d[i] \in Byte
    <2>1. \A i \in 1..width : i = 1 \/ (i = 2 /\ 2 <= width) \/ (i \in {3, 4} /\ 4 <= width) \/ i > 4
      OBVIOUS
    <2> QED
      BY <1>0, <1>3, <1>4, <2>1 DEF Byte
  <1>6. d \in [1..width -> Byte]
    BY <1>2a, <1>5
  <1>7. Len(d) = width
    BY <1>6
  <1>8. ASSUME InWidth(v, width)
        PROVE  v = Value(d)
    <2>1. a \in Int /\ b \in Int /\ c \in Int /\ e \in Int /\ a >= 0 /\ b >= 0 /\ c >= 0 /\ e >= 0
      BY <1>0 DEF Byte
    <2>2. CASE width = 1
      <3>1. v <= 255
        BY <1>8, <2>2 DEF InWidth
      <3>2. b = 0 /\ c = 0 /\ e = 0
        BY <1>0, <2>1, <3>1, SMT
      <3>3. Digit(d, 1) = a /\ Digit(d, 2) = 0 /\ Digit(d, 3) = 0 /\ Digit(d, 4) = 0
        BY <1>3, <1>7, <2>2 DEF Digit
      <3> QED
        BY <1>0, <3>2, <3>3, SMT DEF Value
    <2>3. CASE width = 2
      <3>1. v <= 65535
        BY <1>8, <2>3, WordIs, SMT DEF InWidth
      <3>2. c = 0 /\ e = 0
        BY <1>0, <2>1, <3>1, SMT
      <3>3. Digit(d, 1) = a /\ Digit(d, 2) = b /\ Digit(d, 3) = 0 /\ Digit(d, 4) = 0
        BY <1>3, <1>7, <2>3 DEF Digit
      <3> QED
        BY <1>0, <3>2, <3>3, SMT DEF Value
    <2>4. CASE width \in {4, 8}
      <3>3. Digit(d, 1) = a /\ Digit(d, 2) = b /\ Digit(d, 3) = c /\ Digit(d, 4) = e
        BY <1>3, <1>7, <2>4 DEF Digit
      <3> QED
        BY <1>0, <3>3, SMT DEF Value
    <2> QED
      BY <2>2, <2>3, <2>4
  <1>9. 4 <= width => d[4] < 128
    BY <1>0, <1>3
  <1>10. Holds(d, v, width)
    BY <1>4, <1>6, <1>8, <1>9, Zenon DEF Holds
  <1> QED
    BY <1>10 DEF d

\* A number is read back from the bytes it was written in.
LEMMA PutBytes ==
    ASSUME NEW v \in (-Huge)..Huge, NEW width \in {1, 2, 4, 8}
    PROVE  put_int(v, width) \in [1..width -> Byte] /\ put_int(v, width) \in Seq(Byte)
           /\ Len(put_int(v, width)) = width
  <1>1. CASE v >= 0
    <2>1. v \in 0..Huge
      BY <1>1, HugeNat
    <2>2. put_int(v, width) = Magnitude(v, width)
      BY <1>1 DEF put_int
    <2>3. Magnitude(v, width) \in [1..width -> Byte]
      <3>1. Holds(Magnitude(v, width), v, width)
        BY <2>1, MagnitudeBytes
      <3> QED
        BY <3>1, Zenon DEF Holds
    <2> QED
      BY <2>2, <2>3
  <1>2. CASE ~(v >= 0)
    <2>1. -v - 1 \in 0..Huge
      BY <1>2, HugeNat
    <2>2. put_int(v, width) = [i \in 1..width |-> 255 - Magnitude(-v - 1, width)[i]]
      BY <1>2 DEF put_int
    <2>3. Magnitude(-v - 1, width) \in [1..width -> Byte]
      <3>1. Holds(Magnitude(-v - 1, width), -v - 1, width)
        BY <2>1, MagnitudeBytes
      <3> QED
        BY <3>1, Zenon DEF Holds
    <2> DEFINE d == Magnitude(-v - 1, width)
    <2>4. put_int(v, width) \in [1..width -> Byte]
      <3> HIDE DEF d
      <3>0. d \in [1..width -> Byte]
        BY <2>3 DEF d
      <3>1. \A i \in 1..width : 255 - d[i] \in Byte
        BY <3>0, ByteIs
      <3>2. [i \in 1..width |-> 255 - d[i]] \in [1..width -> Byte]
        BY <3>1
      <3> QED
        BY <2>2, <3>2 DEF d
    <2> QED
      BY <2>4
  <1> QED
    BY <1>1, <1>2

\* Unsigned puts the digits together again.
LEMMA UnsignedReads ==
    ASSUME NEW v \in 0..Huge, NEW width \in {1, 2, 4, 8}, InWidth(v, width)
    PROVE  Unsigned(Magnitude(v, width)) = v
  <1> DEFINE d == Magnitude(v, width)
  <1>1. /\ d \in [1..width -> Byte] /\ (4 <= width => d[4] < 128)
        /\ \A i \in 1..width : i > 4 => d[i] = 0
        /\ v = Value(d)
    <2>1. Holds(d, v, width)
      BY MagnitudeBytes
    <2> QED
      BY <2>1, Zenon DEF Holds
  <1> HIDE DEF d
  <1>2. Len(d) = width
    BY <1>1
  <1>3. ~(Digit(d, 4) >= 128) /\ ~\E i \in 5..Len(d) : d[i] # 0
    <2>1. \A i \in 5..Len(d) : d[i] = 0
      BY <1>1, <1>2
    <2>2. Digit(d, 4) < 128
      <3>1. CASE 4 <= width
        BY <1>1, <1>2, <3>1, Zenon DEF Digit
      <3>2. CASE ~(4 <= width)
        BY <1>2, <3>2 DEF Digit
      <3> QED
        BY <3>1, <3>2
    <2>3. Digit(d, 4) \in Int
      <3>1. CASE 4 <= width
        <4>1. d[4] \in Byte
          BY <1>1, <3>1
        <4> QED
          BY <1>2, <3>1, <4>1, ByteIs DEF Digit
      <3>2. CASE ~(4 <= width)
        BY <1>2, <3>2 DEF Digit
      <3> QED
        BY <3>1, <3>2
    <2> QED
      BY <2>1, <2>2, <2>3
  <1>4. Unsigned(d) = Value(d)
    BY <1>3, SMT DEF Unsigned, Value
  <1> QED
    BY <1>1, <1>4 DEF d

\* put_u8 .. put_u64 and get_u8 .. get_u64: an unsigned number is read back.
LEMMA UnsignedBack ==
    ASSUME NEW v \in 0..Huge, NEW width \in {1, 2, 4, 8}, InWidth(v, width)
    PROVE  get_int(put_int(v, width), FALSE) = v
  <1>1. v >= 0
    BY HugeNat
  <1> QED
    BY <1>1, UnsignedReads DEF get_int, put_int

\* put_i64 and get_i64: a number below zero, in two's complement, is read back.
LEMMA SignedBack ==
    ASSUME NEW v \in (-Huge)..Huge
    PROVE  get_int(put_int(v, 8), TRUE) = v
  <1>0. put_int(v, 8) \in [1..8 -> Byte] /\ Len(put_int(v, 8)) = 8
    BY PutBytes
  <1>1. CASE v >= 0
    <2>1. v \in 0..Huge
      BY <1>1, HugeNat
    <2>2. put_int(v, 8) = Magnitude(v, 8)
      BY <1>1 DEF put_int
    <2>3. put_int(v, 8)[8] = 0
      <3>1. Holds(Magnitude(v, 8), v, 8)
        BY <2>1, MagnitudeBytes
      <3> QED
        BY <2>2, <3>1 DEF Holds
    <2>4. Unsigned(put_int(v, 8)) = v
      BY <2>1, <2>2, UnsignedReads DEF InWidth
    <2>5. PICK bs : bs = put_int(v, 8)
      OBVIOUS
    <2>6. bs[8] = 0 /\ Len(bs) = 8 /\ Unsigned(bs) = v
      BY <1>0, <2>3, <2>4, <2>5, Zenon
    <2>7. ~(bs[Len(bs)] >= 128)
      BY <2>6
    <2> QED
      BY <2>5, <2>6, <2>7, Zenon DEF get_int
  <1>2. CASE ~(v >= 0)
    <2> DEFINE u == -v - 1
               d == Magnitude(u, 8)
    <2>1. u \in 0..Huge /\ -u - 1 = v
      BY <1>2, HugeNat
    <2>2. put_int(v, 8) = [i \in 1..8 |-> 255 - d[i]]
      BY <1>2 DEF put_int
    <2>3. d \in [1..8 -> Byte] /\ d[8] = 0
      <3>1. Holds(Magnitude(u, 8), u, 8)
        BY <2>1, MagnitudeBytes
      <3> HIDE DEF u
      <3> QED
        BY <3>1 DEF Holds
    <2>4. put_int(v, 8)[8] = 255
      BY <2>2, <2>3
    <2>5. Unsigned(d) = u
      BY <2>1, UnsignedReads DEF InWidth
    <2> HIDE DEF d
    <2>6. [i \in DOMAIN put_int(v, 8) |-> 255 - put_int(v, 8)[i]] = d
      <3>1. DOMAIN put_int(v, 8) = 1..8
        BY <1>0
      <3>2. \A i \in 1..8 : 255 - put_int(v, 8)[i] = d[i]
        BY <2>2, <2>3 DEF Byte
      <3> QED
        BY <2>3, <3>1, <3>2
    <2> HIDE DEF u
    <2>7. get_int(put_int(v, 8), TRUE) = -Unsigned(d) - 1
      BY <1>0, <2>4, <2>6, SMTT(30) DEF get_int
    <2> QED
      BY <2>1, <2>5, <2>7
  <1> QED
    BY <1>1, <1>2

-----------------------------------------------------------------------------
(***************************************************************************)
(* Reading back what was written: numbers, strings and lists.              *)
(***************************************************************************)
\* Two sequences with the same members in the same places are the same.
LEMMA SameSeq ==
    ASSUME NEW S, NEW a \in Seq(S), NEW b \in Seq(S), Len(a) = Len(b),
           \A j \in 1..Len(a) : a[j] = b[j]
    PROVE  a = b
  <1>1. DOMAIN a = 1..Len(a) /\ DOMAIN b = 1..Len(a)
    OBVIOUS
  <1>2. a = [j \in 1..Len(a) |-> a[j]] /\ b = [j \in 1..Len(a) |-> b[j]]
    BY <1>1
  <1> QED
    BY <1>2

\* The bytes from o on.
Holding(bs, o, w, c) ==
    c \in Seq(Byte) /\ Len(c) = w /\ \A j \in 1..w : c[j] = bs[o + j]

\* The bytes of a field.
LEMMA FieldHolds ==
    ASSUME NEW bs \in Seq(Byte), NEW o \in Nat, NEW w \in Nat, o + w <= Len(bs)
    PROVE  Holding(bs, o, w, field(bs, o, w))
  <1> DEFINE c == field(bs, o, w)
  <1>0. Len(bs) \in Nat
    OBVIOUS
  <1>1. c \in Seq(Byte) /\ Len(c) = w
    BY <1>0 DEF field
  <1>2. ASSUME NEW j \in 1..w PROVE c[j] = bs[o + j]
    <2>1. (o + 1) + j - 1 = o + j
      OBVIOUS
    <2>2. c[j] = bs[(o + 1) + j - 1]
      BY <1>0 DEF field
    <2> QED
      BY <2>1, <2>2
  <1> HIDE DEF c
  <1>3. Holding(bs, o, w, c)
    BY <1>1, <1>2 DEF Holding
  <1> QED
    BY <1>3 DEF c

\* What stands at o is the field at o.
LEMMA FieldAt ==
    ASSUME NEW bs \in Seq(Byte), NEW o \in Nat, NEW c \in Seq(Byte), At(bs, o, c)
    PROVE  field(bs, o, Len(c)) = c
  <1>0. Len(c) \in Nat /\ o + Len(c) <= Len(bs) /\ \A j \in 1..Len(c) : bs[o + j] = c[j]
    BY DEF At
  <1>1. Holding(bs, o, Len(c), field(bs, o, Len(c)))
    BY <1>0, FieldHolds
  <1> DEFINE d == field(bs, o, Len(c))
  <1>2. d \in Seq(Byte) /\ Len(d) = Len(c) /\ \A j \in 1..Len(d) : d[j] = c[j]
    BY <1>0, <1>1, Zenon DEF Holding
  <1> HIDE DEF d
  <1>3. d = c
    BY <1>2, SameSeq
  <1> QED
    BY <1>3 DEF d

\* Room for two parts, one after the other.
LEMMA AddTwo == \A o, a, b, l \in Nat : o + (a + b) <= l =>
                    /\ o + a <= l /\ o + a \in 0..l /\ (o + a) + b <= l
                    /\ (o + a) + b = o + (a + b)
  OBVIOUS

\* Offsets add up.
LEMMA AddThree == \A o, a, j \in Nat : (o + a) + j = o + (a + j)
  OBVIOUS

\* A place in the first of two parts is one in both.
LEMMA ShortIn == \A a, b \in Nat : \A j \in 1..a : j \in 1..(a + b)
  OBVIOUS

\* What stands after something else stands where that ends.
Split(bs, o, a, b) ==
    /\ At(bs, o, a) /\ o + Len(a) \in 0..Len(bs) /\ At(bs, o + Len(a), b)
    /\ (o + Len(a)) + Len(b) = o + Len(Cat(a, b)) /\ Len(Cat(a, b)) = Len(a) + Len(b)

\* Where two parts stand, each stands in its place.
LEMMA CatAt ==
    ASSUME NEW bs \in Seq(Byte), NEW o \in 0..Len(bs), NEW a \in Seq(Byte),
           NEW b \in Seq(Byte), At(bs, o, Cat(a, b))
    PROVE  Split(bs, o, a, b)
  <1>1. Joined(Byte, a, b, Cat(a, b))
    BY CatJoins
  <1> DEFINE c == Cat(a, b)
  <1>2. Len(a) \in Nat /\ Len(b) \in Nat /\ Len(bs) \in Nat /\ o \in Nat
    OBVIOUS
  <1> HIDE DEF c
  <1>3. /\ Len(c) = Len(a) + Len(b) /\ \A j \in 1..Len(a) : c[j] = a[j]
        /\ \A j \in 1..Len(b) : c[Len(a) + j] = b[j]
    BY <1>1, Zenon DEF Joined, c
  <1>4. o + Len(c) <= Len(bs) /\ \A j \in 1..Len(c) : bs[o + j] = c[j]
    BY Zenon DEF At, c
  <1>5. o + (Len(a) + Len(b)) <= Len(bs)
    BY <1>3, <1>4, Zenon
  <1>6. /\ o + Len(a) <= Len(bs) /\ o + Len(a) \in 0..Len(bs)
        /\ (o + Len(a)) + Len(b) <= Len(bs)
        /\ (o + Len(a)) + Len(b) = o + (Len(a) + Len(b))
    BY <1>2, <1>5, AddTwo, ZenonT(60)
  <1>7. ASSUME NEW j \in 1..Len(a) PROVE bs[o + j] = a[j]
    <2>1. j \in 1..(Len(a) + Len(b))
      BY <1>2, ShortIn, Zenon
    <2> QED
      BY <1>3, <1>4, <2>1, Zenon
  <1>8. ASSUME NEW j \in 1..Len(b) PROVE bs[(o + Len(a)) + j] = b[j]
    <2>1. Len(a) + j \in 1..(Len(a) + Len(b)) /\ j \in Nat
      BY <1>2
    <2>2. (o + Len(a)) + j = o + (Len(a) + j)
      BY <1>2, <2>1, AddThree, Zenon
    <2>3. bs[o + (Len(a) + j)] = c[Len(a) + j]
      BY <1>3, <1>4, <2>1, Zenon
    <2> QED
      BY <1>3, <2>2, <2>3, Zenon
  <1>9. At(bs, o, a)
    BY <1>6, <1>7, Zenon DEF At
  <1>10. At(bs, o + Len(a), b)
    BY <1>6, <1>8, Zenon DEF At
  <1> QED
    BY <1>3, <1>6, <1>9, <1>10, Zenon DEF Split, c

\* The call reads v from c wherever it meets it if `ok', and fails otherwise.
Decodes(call, bs, c, v, ok) ==
    IF ok THEN Reads(call, bs, c, v) ELSE Refuses(call, bs, c)

NumberKinds == {"u8", "u16", "u32", "u64", "i64", "bool"}
IsNumber(f) ==
    \/ f.kind \in NumberKinds
    \/ f.kind = "enum" /\ f.width \in {1, 2} /\ f.count \in Nat

\* A number of a field fits the width the field is written in.
LEMMA NumberWidth ==
    ASSUME NEW f, IsNumber(f), NEW x \in Numbers(f)
    PROVE  /\ x \in (-Huge)..Huge /\ Width(f) \in {1, 2, 4, 8}
           /\ f.kind = "i64" => Width(f) = 8
           /\ f.kind = "bool" => x \in {0, 1} /\ Width(f) = 1
           /\ f.kind # "i64" => x \in 0..Huge /\ InWidth(x, Width(f))
  <1>0. Huge \in Nat /\ Word \in Nat /\ Word <= Huge
    BY HugeNat, WordIs
  <1>0a. 255 <= Huge /\ 255 <= Word
    BY SMT DEF Huge, Word
  <1>1. CASE f.kind = "u8"
    BY <1>0, <1>0a, <1>1 DEF Numbers, Width, InWidth
  <1>2. CASE f.kind = "u16"
    <2>1. x \in 0..Word /\ Width(f) = 2
      BY <1>2 DEF Numbers, Width
    <2>2. InWidth(x, 2)
      <3>1. x <= Word /\ 2 # 1
        BY <1>0, <2>1
      <3> QED
        BY <3>1, Zenon DEF InWidth
    <2> QED
      BY <1>0, <1>2, <2>1, <2>2
  <1>3. CASE f.kind = "u32"
    BY <1>0, <1>3 DEF Numbers, Width, InWidth
  <1>4. CASE f.kind = "u64"
    BY <1>0, <1>4 DEF Numbers, Width, InWidth
  <1>5. CASE f.kind = "i64"
    BY <1>0, <1>5 DEF Numbers, Width, InWidth
  <1>6. CASE f.kind = "bool"
    BY <1>0, <1>0a, <1>6 DEF Numbers, Width, InWidth
  <1>7. CASE f.kind = "enum"
    <2>1. f.width \in {1, 2} /\ Width(f) = f.width
      BY <1>7 DEF Width, IsNumber, NumberKinds
    <2>2. CASE f.width = 1
      <3>1. x \in 0..255
        BY <1>7, <2>2 DEF Numbers
      <3>2. x \in 0..Huge /\ InWidth(x, 1)
        BY <1>0, <1>0a, <3>1 DEF InWidth
      <3> QED
        BY <1>0, <1>7, <2>1, <2>2, <3>2
    <2>3. CASE f.width = 2
      <3>1. x \in 0..Word
        BY <1>7, <2>3 DEF Numbers
      <3>2. InWidth(x, 2)
        <4>1. x <= Word /\ 2 # 1
          BY <1>0, <3>1
        <4> QED
          BY <4>1, Zenon DEF InWidth
      <3>3. x \in 0..Huge
        BY <1>0, <3>1
      <3> QED
        BY <1>0, <1>7, <2>1, <2>3, <3>2, <3>3
    <2> QED
      BY <2>1, <2>2, <2>3
  <1> QED
    BY <1>1, <1>2, <1>3, <1>4, <1>5, <1>6, <1>7 DEF IsNumber, NumberKinds

\* A number of a field is read back from the bytes it was written in.
LEMMA ScalarBack ==
    ASSUME NEW f, IsNumber(f), NEW x \in Numbers(f)
    PROVE  get_scalar(f, put_int(x, Width(f))) = x
  <1>1. /\ x \in (-Huge)..Huge /\ Width(f) \in {1, 2, 4, 8}
        /\ f.kind = "i64" => Width(f) = 8
        /\ f.kind = "bool" => x \in {0, 1} /\ Width(f) = 1
        /\ f.kind # "i64" => x \in 0..Huge /\ InWidth(x, Width(f))
    BY NumberWidth
  <1>2. CASE f.kind = "i64"
    <2>1. get_int(put_int(x, 8), TRUE) = x
      BY <1>1, SignedBack
    <2>2. Width(f) = 8 /\ (f.kind = "i64") = TRUE /\ f.kind # "bool"
      BY <1>1, <1>2
    <2>3. get_scalar(f, put_int(x, Width(f))) = get_int(put_int(x, 8), TRUE)
      BY <2>2 DEF get_scalar
    <2> QED
      BY <2>1, <2>3
  <1>3. CASE f.kind = "bool"
    <2>1. put_int(x, 1)[1] = x
      <3>1. x >= 0 /\ x \div 1 = x /\ x % 256 = x
        BY <1>1, <1>3
      <3>2. put_int(x, 1) = Magnitude(x, 1)
        BY <3>1 DEF put_int
      <3>3. Magnitude(x, 1)[1] = (x \div Place[1]) % 256
        BY DEF Magnitude
      <3>4. Place[1] = 1
        BY SMT DEF Place
      <3> QED
        BY <3>1, <3>2, <3>3, <3>4
    <2>2. get_scalar(f, put_int(x, Width(f))) = IF put_int(x, 1)[1] = 0 THEN 0 ELSE 1
      BY <1>1, <1>3 DEF get_scalar
    <2> QED
      BY <1>1, <1>3, <2>1, <2>2
  <1>4. CASE f.kind # "i64" /\ f.kind # "bool"
    <2>1. get_int(put_int(x, Width(f)), FALSE) = x
      BY <1>1, <1>4, UnsignedBack
    <2>2. (f.kind = "i64") = FALSE
      BY <1>4
    <2>3. get_scalar(f, put_int(x, Width(f))) = get_int(put_int(x, Width(f)), FALSE)
      BY <1>4, <2>2 DEF get_scalar
    <2> QED
      BY <2>1, <2>3
  <1> QED
    BY <1>2, <1>3, <1>4

\* require(), as a bound on the end.
LEMMA RoomFor == \A o, w, l \in Nat : (l - o >= w) = (o + w <= l)
  OBVIOUS

\* A number is read back exactly if it is below the count of its enumeration.
LEMMA NumberDecodes ==
    ASSUME NEW f, IsNumber(f), NEW x \in Numbers(f), NEW bs \in Seq(Byte)
    PROVE  Decodes([o \in 0..Len(bs) |-> get_number(f, bs, o)], bs, put_int(x, Width(f)), x,
                   f.kind = "enum" => x < f.count)
  <1> DEFINE c == put_int(x, Width(f))
             call == [o \in 0..Len(bs) |-> get_number(f, bs, o)]
             fine == f.kind = "enum" => x < f.count
  <1>1. x \in (-Huge)..Huge /\ Width(f) \in {1, 2, 4, 8} /\ (f.kind = "enum" => x \in 0..Huge)
    BY NumberWidth
  <1>2. c \in Seq(Byte) /\ Len(c) = Width(f)
    BY <1>1, PutBytes
  <1>3. get_scalar(f, c) = x
    BY ScalarBack
  <1>4. fine = ~(f.kind = "enum" /\ x >= f.count)
    <2>1. CASE f.kind = "enum"
      <3>1. f.count \in Nat /\ x \in Int
        BY <1>1, <2>1, HugeNat DEF IsNumber, NumberKinds
      <3> QED
        BY <2>1, <3>1
    <2>2. CASE f.kind # "enum"
      BY <2>2
    <2> QED
      BY <2>1, <2>2
  <1> HIDE DEF c, fine
  <1>5. ASSUME NEW o \in 0..Len(bs), At(bs, o, c)
        PROVE  call[o] = IF fine THEN Read(x, o + Len(c)) ELSE Failure
    <2>1. o \in Nat /\ Len(bs) \in Nat /\ Width(f) \in Nat
      BY <1>1
    <2>2. field(bs, o, Width(f)) = c
      <3>1. field(bs, o, Len(c)) = c
        BY <1>2, <1>5, <2>1, FieldAt
      <3> QED
        BY <1>2, <3>1
    <2>3. Len(bs) - o >= Width(f)
      <3>1. o + Width(f) <= Len(bs)
        BY <1>2, <1>5 DEF At
      <3> QED
        BY <2>1, <3>1, RoomFor
    <2>4. call[o] = get_number(f, bs, o)
      OBVIOUS
    <2> HIDE DEF call
    <2>5. get_number(f, bs, o) = IF fine THEN Read(x, o + Width(f)) ELSE Failure
      BY <1>3, <1>4, <2>2, <2>3, Zenon DEF get_number, require
    <2> QED
      BY <1>2, <2>4, <2>5
  <1> HIDE DEF call
  <1>6. ~Failure.ok
    BY DEF Failure
  <1>7. Decodes(call, bs, c, x, fine)
    BY <1>5, <1>6 DEF Decodes, Reads, Refuses
  <1> QED
    BY <1>7 DEF call, c, fine

\* A length, and what it is the length of.
LEMMA LengthAt ==
    ASSUME NEW bs \in Seq(Byte), NEW o \in 0..Len(bs), NEW n \in 0..Huge, NEW c \in Seq(Byte),
           At(bs, o, Cat(put_int(n, 4), c))
    PROVE  /\ number(bs, o, 4) = n /\ require(bs, o, 4) /\ o + 4 \in 0..Len(bs)
           /\ At(bs, o + 4, c) /\ (o + 4) + Len(c) = o + Len(Cat(put_int(n, 4), c))
           /\ (o + 4) + Len(c) <= Len(bs)
  <1> DEFINE a == put_int(n, 4)
  <1>1. n \in (-Huge)..Huge
    BY HugeNat
  <1>2. a \in Seq(Byte) /\ Len(a) = 4
    BY <1>1, PutBytes
  <1>3. get_int(a, FALSE) = n
    <2>1. InWidth(n, 4)
      <3>1. 4 # 1 /\ 4 # 2
        OBVIOUS
      <3> QED
        BY <3>1, Zenon DEF InWidth
    <2> QED
      BY <2>1, UnsignedBack
  <1> HIDE DEF a
  <1>4. Split(bs, o, a, c)
    BY <1>2, CatAt DEF a
  <1>5. At(bs, o, a) /\ o + 4 \in 0..Len(bs) /\ At(bs, o + 4, c)
        /\ (o + 4) + Len(c) = o + Len(Cat(a, c))
    BY <1>2, <1>4, Zenon DEF Split
  <1>6. field(bs, o, 4) = a
    <2>1. o \in Nat
      OBVIOUS
    <2> QED
      BY <1>2, <1>5, <2>1, FieldAt
  <1>7. Len(bs) - o >= 4
    <2>1. Len(bs) \in Nat /\ o \in Nat
      OBVIOUS
    <2> QED
      BY <1>5, <2>1
  <1>8. (o + 4) + Len(c) <= Len(bs)
    BY <1>5, Zenon DEF At
  <1> QED
    BY <1>3, <1>5, <1>6, <1>7, <1>8, Zenon DEF number, require, a

\* Every limit is a number below Huge.
LEMMA LimitIs == \A l \in LimitNames : limits[l] \in 0..Huge /\ limits[l] \in Nat /\ limits[l] < Huge
  BY LimitsAssumption, HugeNat

\* A string is read back exactly if it keeps max_string_bytes.
LEMMA StringDecodes ==
    ASSUME NEW x \in Seq(Byte), Len(x) <= Huge, NEW bs \in Seq(Byte)
    PROVE  Decodes([o \in 0..Len(bs) |-> get_string(bs, o, limits)], bs,
                   Cat(put_int(Len(x), 4), x), x, Len(x) <= limits.max_string_bytes)
  <1> DEFINE c == Cat(put_int(Len(x), 4), x)
             call == [o \in 0..Len(bs) |-> get_string(bs, o, limits)]
             fine == Len(x) <= limits.max_string_bytes
  <1>1. Len(x) \in 0..Huge
    BY HugeNat
  <1> HIDE DEF c, fine
  <1>2. ASSUME NEW o \in 0..Len(bs), At(bs, o, c)
        PROVE  call[o] = IF fine THEN Read(x, o + Len(c)) ELSE Failure
    <2>1. /\ number(bs, o, 4) = Len(x) /\ require(bs, o, 4) /\ o + 4 \in 0..Len(bs)
          /\ At(bs, o + 4, x) /\ (o + 4) + Len(x) = o + Len(c)
          /\ (o + 4) + Len(x) <= Len(bs)
      BY <1>1, <1>2, LengthAt DEF c
    <2>2. o + 4 \in Nat /\ Len(bs) \in Nat /\ Len(x) \in Nat
      OBVIOUS
    <2>3. field(bs, o + 4, Len(x)) = x
      BY <2>1, <2>2, FieldAt
    <2>4. Len(bs) - (o + 4) >= Len(x)
      BY <2>1, <2>2, RoomFor
    <2>5. call[o] = get_string(bs, o, limits)
      OBVIOUS
    <2> HIDE DEF call
    <2> QED
      BY <2>1, <2>3, <2>4, <2>5, Zenon DEF get_string, require, fine
  <1> HIDE DEF call
  <1>3. ~Failure.ok
    BY DEF Failure
  <1>4. Decodes(call, bs, c, x, fine)
    BY <1>2, <1>3 DEF Decodes, Reads, Refuses
  <1> QED
    BY <1>4 DEF call, c, fine

\* Calls in order decode parts in order.
DecodesAll(calls, bs, chunks, m, names, good) ==
    \A i \in 1..Len(chunks) : Decodes(calls[i], bs, chunks[i], m[names[i]], i \in good)

DecodesInOrder(calls, names, bs, chunks, m, good) ==
    Decodes([o \in 0..Len(bs) |-> InOrder(calls, names, o)], bs, Concat(chunks), m,
            \A i \in 1..Len(chunks) : i \in good)

\* Calls that read back their parts read back all of them, or fail at the first that
\* fails.
LEMMA InOrderDecodes ==
    ASSUME NEW bs \in Seq(Byte), NEW chunks \in Seq(Seq(Byte)), NEW calls, NEW names, NEW m,
           NEW good, Len(calls) = Len(chunks), Named(m, names, Len(chunks)),
           DecodesAll(calls, bs, chunks, m, names, good)
    PROVE  DecodesInOrder(calls, names, bs, chunks, m, good)
  <1> DEFINE call == [o \in 0..Len(bs) |-> InOrder(calls, names, o)]
             all == \A i \in 1..Len(chunks) : i \in good
             c == Concat(chunks)
  <1>0. \A o \in 0..Len(bs) : call[o] = InOrder(calls, names, o)
    OBVIOUS
  <1> HIDE DEF call
  <1>1. CASE all
    <2>1. ReadsAll(calls, bs, chunks, m, names)
      BY <1>1, Zenon DEF DecodesAll, ReadsAll, Decodes
    <2>2. ASSUME NEW o \in 0..Len(bs), At(bs, o, c) PROVE call[o] = Read(m, o + Len(c))
      <3>1. InOrder(calls, names, o) = Read(m, o + Len(Concat(chunks)))
        BY <2>1, <2>2, InOrderReads
      <3> QED
        BY <1>0, <3>1
    <2>3. Reads(call, bs, c, m)
      BY <2>2, Zenon DEF Reads
    <2> QED
      BY <1>1, <2>3, Zenon DEF Decodes, call, DecodesInOrder
  <1>2. CASE ~all
    <2>1. PICK bad : bad \in 1..Len(chunks) /\ bad \notin good
      BY <1>2
    <2>2. ReadsOrRefuses(calls, bs, chunks, m, names)
      BY Zenon DEF DecodesAll, ReadsOrRefuses, Decodes
    <2>3. Refuses(calls[bad], bs, chunks[bad])
      BY <2>1, Zenon DEF DecodesAll, Decodes
    <2>4. ASSUME NEW o \in 0..Len(bs), At(bs, o, c) PROVE ~call[o].ok
      <3>1. ~InOrder(calls, names, o).ok
        BY <2>1, <2>2, <2>3, <2>4, InOrderRefuses
      <3> QED
        BY <1>0, <3>1
    <2>5. Refuses(call, bs, c)
      BY <2>4, Zenon DEF Refuses
    <2> QED
      BY <1>2, <2>5, Zenon DEF Decodes, call, DecodesInOrder
  <1> QED
    BY <1>1, <1>2

\* The calls a list makes.
LEMMA Repeated ==
    ASSUME NEW n \in Nat, NEW part
    PROVE  Len([k \in 1..n |-> part]) = n /\ \A k \in 1..n : [j \in 1..n |-> part][k] = part
  <1> DEFINE f == [k \in 1..n |-> part]
  <1>1. f = [k \in 1..n |-> f[k]] /\ \A k \in 1..n : f[k] = part
    OBVIOUS
  <1> HIDE DEF f
  <1>2. Len(f) = n
    BY <1>1, SequenceOf
  <1> QED
    BY <1>1, <1>2 DEF f

IsListOf(x, n) == x = [k \in 1..n |-> x[k]]
DecodesEach(part, bs, parts, x, n, good) ==
    \A k \in 1..n : Decodes(part, bs, parts[k], x[k], k \in good)
DecodesList(part, bs, parts, x, n, limit, good) ==
    Decodes([o \in 0..Len(bs) |-> get_list(part, bs, o, limit)], bs,
            Cat(put_int(n, 4), Concat(parts)), x, n <= limit /\ \A k \in 1..n : k \in good)

\* A list is read back exactly if its count keeps the limit and each of its parts is.
LEMMA ListDecodes ==
    ASSUME NEW x, NEW n \in 0..Huge, IsListOf(x, n),
           NEW parts \in Seq(Seq(Byte)), Len(parts) = n, NEW bs \in Seq(Byte),
           NEW part, NEW limit \in Nat, NEW good, DecodesEach(part, bs, parts, x, n, good)
    PROVE  DecodesList(part, bs, parts, x, n, limit, good)
  <1> DEFINE body == Concat(parts)
             c == Cat(put_int(n, 4), body)
             call == [o \in 0..Len(bs) |-> get_list(part, bs, o, limit)]
             calls == [k \in 1..n |-> part]
             names == [k \in 1..n |-> k]
             all == \A k \in 1..n : k \in good
  <1>1. body \in Seq(Byte)
    BY ConcatPlaces
  <1>2. n \in Nat
    BY HugeNat
  <1>3. Len(calls) = Len(parts) /\ \A k \in 1..n : calls[k] = part
    BY <1>2, Repeated
  <1>4. \A k \in 1..n : names[k] = k
    OBVIOUS
  <1>4a. x = [y \in {names[k] : k \in 1..n} |-> x[y]]
    <2>1. {names[k] : k \in 1..n} = 1..n
      OBVIOUS
    <2> QED
      BY <2>1 DEF IsListOf
  <1> HIDE DEF body, c, calls, names, all
  <1>5. ASSUME NEW o \in 0..Len(bs), At(bs, o, c)
        PROVE  IF n <= limit /\ all THEN call[o] = Read(x, o + Len(c)) ELSE ~call[o].ok
    <2>1. /\ number(bs, o, 4) = n /\ require(bs, o, 4) /\ o + 4 \in 0..Len(bs)
          /\ At(bs, o + 4, body) /\ (o + 4) + Len(body) = o + Len(c)
      BY <1>1, <1>5, LengthAt DEF c
    <2>2. call[o] = get_list(part, bs, o, limit)
      OBVIOUS
    <2> HIDE DEF call
    <2>3. CASE ~(n <= limit)
      <3>1. call[o] = Failure
        BY <2>1, <2>2, <2>3, Zenon DEF get_list
      <3> QED
        BY <2>3, <3>1 DEF Failure
    <2>4. CASE n <= limit
      <3>1. call[o] = InOrder(calls, names, o + 4)
        BY <2>1, <2>2, <2>4, Zenon DEF get_list, calls, names
      <3>2. Len(calls) = Len(parts) /\ Named(x, names, Len(parts))
        BY <1>3, <1>4a DEF Named
      <3>3. DecodesAll(calls, bs, parts, x, names, good)
        BY <1>3, <1>4, Zenon DEF DecodesAll, DecodesEach
      <3>4. DecodesInOrder(calls, names, bs, parts, x, good)
        BY <3>2, <3>3, InOrderDecodes
      <3> DEFINE run == [a \in 0..Len(bs) |-> InOrder(calls, names, a)]
      <3>5. Decodes(run, bs, body, x, all)
        BY <3>4, Zenon DEF DecodesInOrder, body, all
      <3>6. run[o + 4] = InOrder(calls, names, o + 4)
        BY <2>1
      <3> HIDE DEF run
      <3>7. CASE all
        <4>1. Reads(run, bs, body, x)
          BY <3>5, <3>7, Zenon DEF Decodes
        <4>2. run[o + 4] = Read(x, (o + 4) + Len(body))
          BY <2>1, <4>1, Zenon DEF Reads
        <4> QED
          BY <2>1, <2>4, <3>1, <3>6, <3>7, <4>2, Zenon
      <3>8. CASE ~all
        <4>1. Refuses(run, bs, body)
          BY <3>5, <3>8, Zenon DEF Decodes
        <4>2. ~run[o + 4].ok
          BY <2>1, <4>1, Zenon DEF Refuses
        <4> QED
          BY <3>1, <3>6, <3>8, <4>2, Zenon
      <3> QED
        BY <3>7, <3>8
    <2> QED
      BY <2>3, <2>4
  <1> HIDE DEF call
  <1>6. Decodes(call, bs, c, x, n <= limit /\ all)
    BY <1>5, Zenon DEF Decodes, Reads, Refuses
  <1> QED
    BY <1>6, Zenon DEF call, c, body, all, DecodesList

-----------------------------------------------------------------------------
(***************************************************************************)
(* Layouts, from the ones without parts to the ones that nest three deep.  *)
(***************************************************************************)
IsString(f) == f.kind = "string"
Scalar(f) == IsString(f) \/ IsNumber(f)
Shaped(s) == s \in Seq(Elements(s))

Layout_0(fields) == Shaped(fields) /\ \A f \in Elements(fields) : Scalar(f)

Part_1(f, kind) == f.kind = kind /\ Layout_0(f.fields)
Nested_1(f) ==
    Scalar(f) \/ Part_1(f, "struct") \/ (Part_1(f, "list") /\ f.limit \in LimitNames)
Layout_1(fields) == Shaped(fields) /\ \A f \in Elements(fields) : Nested_1(f)

Part_2(f, kind) == f.kind = kind /\ Layout_1(f.fields)
Nested_2(f) ==
    Scalar(f) \/ Part_2(f, "struct") \/ (Part_2(f, "list") /\ f.limit \in LimitNames)
Layout_2(fields) == Shaped(fields) /\ \A f \in Elements(fields) : Nested_2(f)

Part_3(f, kind) == f.kind = kind /\ Layout_2(f.fields)
Nested_3(f) ==
    Scalar(f) \/ Part_3(f, "struct") \/ (Part_3(f, "list") /\ f.limit \in LimitNames)
Layout_3(fields) == Shaped(fields) /\ \A f \in Elements(fields) : Nested_3(f)

\* A layout is a sequence of its calls.
LEMMA ShapedIs ==
    ASSUME NEW s, Shaped(s)
    PROVE  /\ Len(s) \in Nat /\ DOMAIN s = 1..Len(s) /\ s = [i \in 1..Len(s) |-> s[i]]
           /\ \A i \in 1..Len(s) : s[i] \in Elements(s)
  <1> DEFINE S == Elements(s)
  <1>1. s \in Seq(S)
    BY DEF Shaped
  <1> HIDE DEF S
  <1>2. Len(s) \in Nat /\ DOMAIN s = 1..Len(s) /\ s = [i \in 1..Len(s) |-> s[i]]
    BY <1>1
  <1> QED
    BY <1>2 DEF Elements

\* A list is a function on 1..n.
LEMMA ListIs ==
    ASSUME NEW x, IsList(x)
    PROVE  /\ Len(x) \in 0..Huge /\ Len(x) \in Nat /\ DOMAIN x = 1..Len(x)
           /\ x = [k \in 1..Len(x) |-> x[k]]
  <1> DEFINE S == Elements(x)
  <1>1. x \in Seq(S) /\ Len(x) <= Huge
    BY DEF IsList
  <1> HIDE DEF S
  <1>2. Len(x) \in Nat /\ DOMAIN x = 1..Len(x) /\ x = [k \in 1..Len(x) |-> x[k]]
    BY <1>1
  <1> QED
    BY <1>1, <1>2, HugeNat

\* Parts one after the other, each a sequence of bytes.
LEMMA PartsBytes ==
    ASSUME NEW n \in Nat, NEW parts, parts = [k \in 1..n |-> parts[k]],
           \A k \in 1..n : parts[k] \in Seq(Byte)
    PROVE  parts \in Seq(Seq(Byte)) /\ Len(parts) = n /\ Concat(parts) \in Seq(Byte)
  <1> DEFINE B == Seq(Byte)
  <1>0. \A k \in 1..n : parts[k] \in B
    OBVIOUS
  <1> HIDE DEF B
  <1>1. parts \in [1..n -> B]
    BY <1>0
  <1>2. parts \in Seq(B) /\ Len(parts) = n
    BY <1>1
  <1>3. parts \in Seq(Seq(Byte))
    BY <1>2 DEF B
  <1> QED
    BY <1>2, <1>3, ConcatPlaces

\* A count and what follows it are bytes.
LEMMA LengthBytes ==
    ASSUME NEW n \in 0..Huge, NEW c \in Seq(Byte)
    PROVE  Cat(put_int(n, 4), c) \in Seq(Byte)
  <1>1. put_int(n, 4) \in Seq(Byte)
    <2>1. n \in (-Huge)..Huge
      BY HugeNat
    <2> QED
      BY <2>1, PutBytes
  <1> QED
    BY <1>1, CatJoins

-----------------------------------------------------------------------------
(***************************************************************************)
(* Layouts without parts.                                                  *)
(***************************************************************************)
Chunk_0(f, x) == put_field(LAMBDA fs, y : <<>>, f, x)
Call_0(f, bs) == [o \in 0..Len(bs) |-> get_field(LAMBDA fs, b, at, l : Read(<<>>, at), f, bs, o, limits)]
Value_0(f, x) == typed_field(LAMBDA fs, y : FALSE, f, x)
Good_0(f, x) == allowed_field(LAMBDA fs, y : TRUE, f, x)

\* The call of a string.
LEMMA StringIs_0 ==
    ASSUME NEW f, NEW x, IsString(f), NEW bs \in Seq(Byte)
    PROVE  /\ Value_0(f, x) => x \in Seq(Byte) /\ Len(x) <= Huge
           /\ Chunk_0(f, x) = Cat(put_int(Len(x), 4), x)
           /\ Call_0(f, bs) = [o \in 0..Len(bs) |-> get_string(bs, o, limits)]
           /\ Good_0(f, x) <=> Len(x) <= limits.max_string_bytes
  BY DEF IsString, Value_0, typed_field, Chunk_0, put_field, Cat, Call_0, get_field, Good_0,
         allowed_field

\* The call of a number.
LEMMA NumberIs_0 ==
    ASSUME NEW f, NEW x, IsNumber(f), NEW bs \in Seq(Byte)
    PROVE  /\ Value_0(f, x) => x \in Numbers(f)
           /\ Chunk_0(f, x) = put_int(x, Width(f))
           /\ Call_0(f, bs) = [o \in 0..Len(bs) |-> get_number(f, bs, o)]
           /\ Good_0(f, x) <=> (f.kind = "enum" => x < f.count)
  <1>1. f.kind \notin {"string", "list", "struct"}
    BY DEF IsNumber, NumberKinds
  <1> QED
    BY <1>1 DEF Value_0, typed_field, Chunk_0, put_field, Call_0, get_field, Good_0,
                allowed_field

\* One field is written in bytes.
LEMMA FieldBytes_0 ==
    ASSUME NEW f, Scalar(f), NEW x, Value_0(f, x)
    PROVE  Chunk_0(f, x) \in Seq(Byte)
  <1>0. <<>> \in Seq(Byte)
    OBVIOUS
  <1>1. CASE IsString(f)
    <2>1. x \in Seq(Byte) /\ Len(x) <= Huge /\ Chunk_0(f, x) = Cat(put_int(Len(x), 4), x)
      BY <1>0, <1>1, StringIs_0, Zenon
    <2>2. Len(x) \in 0..Huge
      BY <2>1, HugeNat
    <2> QED
      BY <2>1, <2>2, LengthBytes
  <1>2. CASE IsNumber(f)
    <2>1. x \in Numbers(f) /\ Chunk_0(f, x) = put_int(x, Width(f))
      BY <1>0, <1>2, NumberIs_0, Zenon
    <2>2. x \in (-Huge)..Huge /\ Width(f) \in {1, 2, 4, 8}
      BY <1>2, <2>1, NumberWidth, Zenon
    <2> QED
      BY <2>1, <2>2, PutBytes
  <1> QED
    BY <1>1, <1>2, Zenon DEF Scalar

\* One field is read back exactly if it is allowed.
LEMMA FieldDecodes_0 ==
    ASSUME NEW f, Scalar(f), NEW x, Value_0(f, x), NEW bs \in Seq(Byte)
    PROVE  Decodes(Call_0(f, bs), bs, Chunk_0(f, x), x, Good_0(f, x))
  <1>1. CASE IsString(f)
    <2>1. /\ x \in Seq(Byte) /\ Len(x) <= Huge
          /\ Chunk_0(f, x) = Cat(put_int(Len(x), 4), x)
          /\ Call_0(f, bs) = [o \in 0..Len(bs) |-> get_string(bs, o, limits)]
          /\ Good_0(f, x) <=> Len(x) <= limits.max_string_bytes
      BY <1>1, StringIs_0, Zenon
    <2>2. Decodes([o \in 0..Len(bs) |-> get_string(bs, o, limits)], bs,
                  Cat(put_int(Len(x), 4), x), x, Len(x) <= limits.max_string_bytes)
      BY <2>1, StringDecodes
    <2> QED
      BY <2>1, <2>2, Zenon DEF Decodes
  <1>2. CASE IsNumber(f)
    <2>1. /\ x \in Numbers(f) /\ Chunk_0(f, x) = put_int(x, Width(f))
          /\ Call_0(f, bs) = [o \in 0..Len(bs) |-> get_number(f, bs, o)]
          /\ Good_0(f, x) <=> (f.kind = "enum" => x < f.count)
      BY <1>2, NumberIs_0, Zenon
    <2>2. Decodes([o \in 0..Len(bs) |-> get_number(f, bs, o)], bs, put_int(x, Width(f)), x,
                  f.kind = "enum" => x < f.count)
      BY <1>2, <2>1, NumberDecodes
    <2> QED
      BY <2>1, <2>2, Zenon DEF Decodes
  <1> QED
    BY <1>1, <1>2, Zenon DEF Scalar

Chunks_0(fields, m) == [i \in DOMAIN fields |-> Chunk_0(fields[i], m[fields[i].name])]

\* The calls of a layout without parts.
LEMMA Layout_0_Is ==
    ASSUME NEW fields, Layout_0(fields)
    PROVE  /\ Len(fields) \in Nat /\ DOMAIN fields = 1..Len(fields)
           /\ \A i \in 1..Len(fields) : Scalar(fields[i])
  BY ShapedIs DEF Layout_0

\* A value is written in bytes.
LEMMA Bytes_0 ==
    ASSUME NEW fields, Layout_0(fields), NEW m, typed_0(fields, m)
    PROVE  /\ bytes_0(fields, m) \in Seq(Byte) /\ bytes_0(fields, m) = Concat(Chunks_0(fields, m))
           /\ Chunks_0(fields, m) \in Seq(Seq(Byte)) /\ Len(Chunks_0(fields, m)) = Len(fields)
  <1> DEFINE n == Len(fields)
             parts == Chunks_0(fields, m)
  <1>1. n \in Nat /\ DOMAIN fields = 1..n /\ \A i \in 1..n : Scalar(fields[i])
    BY Layout_0_Is
  <1>2. \A i \in DOMAIN fields : Value_0(fields[i], m[fields[i].name])
    BY DEF typed_0, typed, Value_0
  <1>3. bytes_0(fields, m) = Concat(parts)
    BY DEF bytes_0, put_fields, Chunks_0, Chunk_0
  <1>4. \A i \in 1..n : parts[i] \in Seq(Byte)
    <2>1. \A i \in 1..n : Chunk_0(fields[i], m[fields[i].name]) \in Seq(Byte)
      BY <1>1, <1>2, FieldBytes_0
    <2> QED
      BY <1>1, <2>1 DEF Chunks_0
  <1>5. parts = [i \in 1..n |-> parts[i]]
    BY <1>1 DEF Chunks_0
  <1> HIDE DEF parts, n
  <1>6. parts \in Seq(Seq(Byte)) /\ Len(parts) = n /\ Concat(parts) \in Seq(Byte)
    BY <1>1, <1>4, <1>5, PartsBytes
  <1> QED
    BY <1>3, <1>6, Zenon DEF parts, n

\* What is written with the layout is read back exactly if it is allowed.
LEMMA Decodes_0 ==
    ASSUME NEW fields, Layout_0(fields), NEW m, typed_0(fields, m), NEW bs \in Seq(Byte)
    PROVE  Decodes([o \in 0..Len(bs) |-> read_0(fields, bs, o, limits)], bs,
                   bytes_0(fields, m), m, allowed_0(fields, m))
  <1> DEFINE n == Len(fields)
             chunks == Chunks_0(fields, m)
             calls == [i \in DOMAIN fields |-> Call_0(fields[i], bs)]
             names == [i \in DOMAIN fields |-> fields[i].name]
             good == {i \in DOMAIN fields : Good_0(fields[i], m[fields[i].name])}
             all == \A i \in 1..Len(chunks) : i \in good
             call == [o \in 0..Len(bs) |-> read_0(fields, bs, o, limits)]
  <1>1. n \in Nat /\ DOMAIN fields = 1..n /\ \A i \in 1..n : Scalar(fields[i])
    BY Layout_0_Is
  <1>2. \A i \in DOMAIN fields : Value_0(fields[i], m[fields[i].name])
    BY DEF typed_0, typed, Value_0
  <1>3. chunks \in Seq(Seq(Byte)) /\ Len(chunks) = n /\ bytes_0(fields, m) = Concat(chunks)
    BY Bytes_0
  <1>4. call = [o \in 0..Len(bs) |-> InOrder(calls, names, o)]
    BY DEF read_0, get_fields, Call_0
  <1>5. Named(m, names, n)
    <2>1. m = [a \in {fields[i].name : i \in DOMAIN fields} |-> m[a]]
      BY DEF typed_0, typed
    <2>2. {fields[i].name : i \in DOMAIN fields} = {names[i] : i \in 1..n}
      BY <1>1
    <2> HIDE DEF names
    <2> QED
      BY <2>1, <2>2, Zenon DEF Named
  <1>6. Len(calls) = n
    <2>1. calls = [i \in 1..n |-> calls[i]]
      BY <1>1
    <2> HIDE DEF calls
    <2> QED
      BY <1>1, <2>1, SequenceOf
  <1>7. \A i \in 1..n : /\ chunks[i] = Chunk_0(fields[i], m[fields[i].name])
                        /\ calls[i] = Call_0(fields[i], bs) /\ names[i] = fields[i].name
                        /\ i \in good <=> Good_0(fields[i], m[fields[i].name])
    BY <1>1 DEF Chunks_0
  <1>8. allowed_0(fields, m) <=> all
    <2>1. allowed_0(fields, m) <=> \A i \in DOMAIN fields : Good_0(fields[i], m[fields[i].name])
      BY DEF allowed_0, allowed, Good_0
    <2> HIDE DEF good
    <2> QED
      BY <1>1, <1>3, <1>7, <2>1
  <1> HIDE DEF n, chunks, calls, names, good, call
  <1>9. DecodesAll(calls, bs, chunks, m, names, good)
    <2>1. ASSUME NEW i \in 1..n
          PROVE  Decodes(calls[i], bs, chunks[i], m[names[i]], i \in good)
      <3>1. Decodes(Call_0(fields[i], bs), bs, Chunk_0(fields[i], m[fields[i].name]),
                    m[fields[i].name], Good_0(fields[i], m[fields[i].name]))
        BY <1>1, <1>2, FieldDecodes_0
      <3> QED
        BY <1>7, <3>1, Zenon DEF Decodes
    <2> QED
      BY <1>3, <2>1 DEF DecodesAll
  <1>10. Decodes([o \in 0..Len(bs) |-> InOrder(calls, names, o)], bs, Concat(chunks), m, all)
    <2>1. Len(calls) = Len(chunks) /\ Named(m, names, Len(chunks))
      BY <1>3, <1>5, <1>6
    <2>2. DecodesInOrder(calls, names, bs, chunks, m, good)
      BY <1>3, <1>9, <2>1, InOrderDecodes
    <2> QED
      BY <2>2 DEF DecodesInOrder
  <1> HIDE DEF all
  <1>11. Decodes(call, bs, bytes_0(fields, m), m, allowed_0(fields, m))
    BY <1>3, <1>4, <1>8, <1>10, Zenon DEF Decodes
  <1> QED
    BY <1>11 DEF call

-----------------------------------------------------------------------------
(***************************************************************************)
(* Layouts whose parts have none.                                          *)
(***************************************************************************)
Chunk_1(f, x) == put_field(bytes_0, f, x)
Call_1(f, bs) == [o \in 0..Len(bs) |-> get_field(read_0, f, bs, o, limits)]
Value_1(f, x) == typed_field(typed_0, f, x)
Good_1(f, x) == allowed_field(allowed_0, f, x)

\* The call of a string.
LEMMA StringIs_1 ==
    ASSUME NEW f, NEW x, IsString(f), NEW bs \in Seq(Byte)
    PROVE  /\ Value_1(f, x) => x \in Seq(Byte) /\ Len(x) <= Huge
           /\ Chunk_1(f, x) = Cat(put_int(Len(x), 4), x)
           /\ Call_1(f, bs) = [o \in 0..Len(bs) |-> get_string(bs, o, limits)]
           /\ Good_1(f, x) <=> Len(x) <= limits.max_string_bytes
  BY DEF IsString, Value_1, typed_field, Chunk_1, put_field, Cat, Call_1, get_field, Good_1,
         allowed_field

\* The call of a number.
LEMMA NumberIs_1 ==
    ASSUME NEW f, NEW x, IsNumber(f), NEW bs \in Seq(Byte)
    PROVE  /\ Value_1(f, x) => x \in Numbers(f)
           /\ Chunk_1(f, x) = put_int(x, Width(f))
           /\ Call_1(f, bs) = [o \in 0..Len(bs) |-> get_number(f, bs, o)]
           /\ Good_1(f, x) <=> (f.kind = "enum" => x < f.count)
  <1>1. f.kind \notin {"string", "list", "struct"}
    BY DEF IsNumber, NumberKinds
  <1> QED
    BY <1>1 DEF Value_1, typed_field, Chunk_1, put_field, Call_1, get_field, Good_1,
                allowed_field

\* The call of a member.
LEMMA StructIs_1 ==
    ASSUME NEW f, NEW x, Part_1(f, "struct"), NEW bs \in Seq(Byte)
    PROVE  /\ Value_1(f, x) => typed_0(f.fields, x)
           /\ Chunk_1(f, x) = bytes_0(f.fields, x)
           /\ Call_1(f, bs) = [o \in 0..Len(bs) |-> read_0(f.fields, bs, o, limits)]
           /\ Good_1(f, x) <=> allowed_0(f.fields, x)
  BY DEF Part_1, Value_1, typed_field, Chunk_1, put_field, Call_1, get_field, Good_1,
         allowed_field

\* One field is written in bytes.
LEMMA FieldBytes_1 ==
    ASSUME NEW f, Nested_1(f), NEW x, Value_1(f, x)
    PROVE  Chunk_1(f, x) \in Seq(Byte)
  <1>0. <<>> \in Seq(Byte)
    OBVIOUS
  <1>1. CASE IsString(f)
    <2>1. x \in Seq(Byte) /\ Len(x) <= Huge /\ Chunk_1(f, x) = Cat(put_int(Len(x), 4), x)
      BY <1>0, <1>1, StringIs_1, Zenon
    <2>2. Len(x) \in 0..Huge
      BY <2>1, HugeNat
    <2> QED
      BY <2>1, <2>2, LengthBytes
  <1>2. CASE IsNumber(f)
    <2>1. x \in Numbers(f) /\ Chunk_1(f, x) = put_int(x, Width(f))
      BY <1>0, <1>2, NumberIs_1, Zenon
    <2>2. x \in (-Huge)..Huge /\ Width(f) \in {1, 2, 4, 8}
      BY <1>2, <2>1, NumberWidth, Zenon
    <2> QED
      BY <2>1, <2>2, PutBytes
  <1>3. CASE Part_1(f, "struct")
    <2>1. typed_0(f.fields, x) /\ Chunk_1(f, x) = bytes_0(f.fields, x) /\ Layout_0(f.fields)
      BY <1>0, <1>3, StructIs_1, Zenon DEF Part_1
    <2> QED
      BY <2>1, Bytes_0
  <1>4. CASE Part_1(f, "list")
    <2> DEFINE parts == [k \in DOMAIN x |-> bytes_0(f.fields, x[k])]
    <2>1. /\ IsList(x) /\ \A k \in DOMAIN x : typed_0(f.fields, x[k])
          /\ Chunk_1(f, x) = Cat(put_int(Len(x), 4), Concat(parts)) /\ Layout_0(f.fields)
      BY <1>4 DEF Part_1, Value_1, typed_field, Chunk_1, put_field, Cat
    <2>2. Len(x) \in 0..Huge /\ Len(x) \in Nat /\ DOMAIN x = 1..Len(x)
      BY <2>1, ListIs
    <2>3. \A k \in 1..Len(x) : parts[k] \in Seq(Byte)
      <3>1. \A k \in 1..Len(x) : bytes_0(f.fields, x[k]) \in Seq(Byte)
        BY <2>1, <2>2, Bytes_0
      <3> QED
        BY <2>2, <3>1
    <2>4. parts = [k \in 1..Len(x) |-> parts[k]]
      BY <2>2
    <2> HIDE DEF parts
    <2>5. Concat(parts) \in Seq(Byte)
      BY <2>2, <2>3, <2>4, PartsBytes
    <2> QED
      BY <2>1, <2>2, <2>5, LengthBytes
  <1> QED
    BY <1>1, <1>2, <1>3, <1>4, Zenon DEF Nested_1, Scalar

\* One field is read back exactly if it is allowed.
LEMMA FieldDecodes_1 ==
    ASSUME NEW f, Nested_1(f), NEW x, Value_1(f, x), NEW bs \in Seq(Byte)
    PROVE  Decodes(Call_1(f, bs), bs, Chunk_1(f, x), x, Good_1(f, x))
  <1>1. CASE IsString(f)
    <2>1. /\ x \in Seq(Byte) /\ Len(x) <= Huge
          /\ Chunk_1(f, x) = Cat(put_int(Len(x), 4), x)
          /\ Call_1(f, bs) = [o \in 0..Len(bs) |-> get_string(bs, o, limits)]
          /\ Good_1(f, x) <=> Len(x) <= limits.max_string_bytes
      BY <1>1, StringIs_1, Zenon
    <2>2. Decodes([o \in 0..Len(bs) |-> get_string(bs, o, limits)], bs,
                  Cat(put_int(Len(x), 4), x), x, Len(x) <= limits.max_string_bytes)
      BY <2>1, StringDecodes
    <2> QED
      BY <2>1, <2>2, Zenon DEF Decodes
  <1>2. CASE IsNumber(f)
    <2>1. /\ x \in Numbers(f) /\ Chunk_1(f, x) = put_int(x, Width(f))
          /\ Call_1(f, bs) = [o \in 0..Len(bs) |-> get_number(f, bs, o)]
          /\ Good_1(f, x) <=> (f.kind = "enum" => x < f.count)
      BY <1>2, NumberIs_1, Zenon
    <2>2. Decodes([o \in 0..Len(bs) |-> get_number(f, bs, o)], bs, put_int(x, Width(f)), x,
                  f.kind = "enum" => x < f.count)
      BY <1>2, <2>1, NumberDecodes
    <2> QED
      BY <2>1, <2>2, Zenon DEF Decodes
  <1>3. CASE Part_1(f, "struct")
    <2>1. /\ typed_0(f.fields, x) /\ Layout_0(f.fields)
          /\ Chunk_1(f, x) = bytes_0(f.fields, x)
          /\ Call_1(f, bs) = [o \in 0..Len(bs) |-> read_0(f.fields, bs, o, limits)]
          /\ Good_1(f, x) <=> allowed_0(f.fields, x)
      BY <1>3, StructIs_1, Zenon DEF Part_1
    <2>2. Decodes([o \in 0..Len(bs) |-> read_0(f.fields, bs, o, limits)], bs,
                  bytes_0(f.fields, x), x, allowed_0(f.fields, x))
      BY <2>1, Decodes_0
    <2> QED
      BY <2>1, <2>2, Zenon DEF Decodes
  <1>4. CASE Part_1(f, "list") /\ f.limit \in LimitNames
    <2> DEFINE parts == [k \in DOMAIN x |-> bytes_0(f.fields, x[k])]
               part == [a \in 0..Len(bs) |-> read_0(f.fields, bs, a, limits)]
               good == {k \in DOMAIN x : allowed_0(f.fields, x[k])}
               all == Len(x) <= limits[f.limit] /\ \A k \in 1..Len(x) : k \in good
    <2>1. /\ IsList(x) /\ \A k \in DOMAIN x : typed_0(f.fields, x[k])
          /\ Layout_0(f.fields)
          /\ Chunk_1(f, x) = Cat(put_int(Len(x), 4), Concat(parts))
          /\ Call_1(f, bs) = [o \in 0..Len(bs) |-> get_list(part, bs, o, limits[f.limit])]
          /\ Good_1(f, x) <=> Len(x) <= limits[f.limit]
                                /\ \A k \in DOMAIN x : allowed_0(f.fields, x[k])
      BY <1>4 DEF Part_1, Value_1, typed_field, Chunk_1, put_field, Cat, Call_1, get_field,
                  Good_1, allowed_field
    <2>2. /\ Len(x) \in 0..Huge /\ Len(x) \in Nat /\ DOMAIN x = 1..Len(x)
          /\ x = [k \in 1..Len(x) |-> x[k]]
      BY <2>1, ListIs
    <2>3. \A k \in 1..Len(x) : parts[k] = bytes_0(f.fields, x[k])
      BY <2>2
    <2>4. \A k \in 1..Len(x) : parts[k] \in Seq(Byte)
      <3>1. \A k \in 1..Len(x) : bytes_0(f.fields, x[k]) \in Seq(Byte)
        BY <2>1, <2>2, Bytes_0
      <3> QED
        BY <2>3, <3>1
    <2>5. parts = [k \in 1..Len(x) |-> parts[k]]
      BY <2>2
    <2>6. limits[f.limit] \in Nat
      BY <1>4, LimitIs
    <2>7. ASSUME NEW k \in 1..Len(x) PROVE Decodes(part, bs, parts[k], x[k], k \in good)
      <3>1. typed_0(f.fields, x[k]) /\ (k \in good <=> allowed_0(f.fields, x[k]))
        BY <2>1, <2>2
      <3>2. Decodes(part, bs, bytes_0(f.fields, x[k]), x[k], allowed_0(f.fields, x[k]))
        BY <2>1, <3>1, Decodes_0
      <3> HIDE DEF part, parts, good
      <3> QED
        BY <2>3, <3>1, <3>2, Zenon DEF Decodes
    <2>8. Good_1(f, x) <=> all
      BY <2>1, <2>2
    <2> HIDE DEF parts, part, good
    <2>9. parts \in Seq(Seq(Byte)) /\ Len(parts) = Len(x)
      BY <2>2, <2>4, <2>5, PartsBytes
    <2>10. Decodes([o \in 0..Len(bs) |-> get_list(part, bs, o, limits[f.limit])], bs,
                   Cat(put_int(Len(x), 4), Concat(parts)), x, all)
      <3>1. IsListOf(x, Len(x)) /\ DecodesEach(part, bs, parts, x, Len(x), good)
        BY <2>2, <2>7, Zenon DEF IsListOf, DecodesEach
      <3>2. DecodesList(part, bs, parts, x, Len(x), limits[f.limit], good)
        BY <2>2, <2>6, <2>9, <3>1, ListDecodes
      <3> QED
        BY <3>2 DEF DecodesList
    <2> HIDE DEF all
    <2> QED
      BY <2>1, <2>8, <2>10, Zenon DEF Decodes
  <1> QED
    BY <1>1, <1>2, <1>3, <1>4, Zenon DEF Nested_1, Scalar

Chunks_1(fields, m) == [i \in DOMAIN fields |-> Chunk_1(fields[i], m[fields[i].name])]

\* The calls of a layout whose parts have none.
LEMMA Layout_1_Is ==
    ASSUME NEW fields, Layout_1(fields)
    PROVE  /\ Len(fields) \in Nat /\ DOMAIN fields = 1..Len(fields)
           /\ \A i \in 1..Len(fields) : Nested_1(fields[i])
  BY ShapedIs DEF Layout_1

\* A value is written in bytes.
LEMMA Bytes_1 ==
    ASSUME NEW fields, Layout_1(fields), NEW m, typed_1(fields, m)
    PROVE  /\ bytes_1(fields, m) \in Seq(Byte) /\ bytes_1(fields, m) = Concat(Chunks_1(fields, m))
           /\ Chunks_1(fields, m) \in Seq(Seq(Byte)) /\ Len(Chunks_1(fields, m)) = Len(fields)
  <1> DEFINE n == Len(fields)
             parts == Chunks_1(fields, m)
  <1>1. n \in Nat /\ DOMAIN fields = 1..n /\ \A i \in 1..n : Nested_1(fields[i])
    BY Layout_1_Is
  <1>2. \A i \in DOMAIN fields : Value_1(fields[i], m[fields[i].name])
    BY DEF typed_1, typed, Value_1
  <1>3. bytes_1(fields, m) = Concat(parts)
    BY DEF bytes_1, put_fields, Chunks_1, Chunk_1
  <1>4. \A i \in 1..n : parts[i] \in Seq(Byte)
    <2>1. \A i \in 1..n : Chunk_1(fields[i], m[fields[i].name]) \in Seq(Byte)
      BY <1>1, <1>2, FieldBytes_1
    <2> QED
      BY <1>1, <2>1 DEF Chunks_1
  <1>5. parts = [i \in 1..n |-> parts[i]]
    BY <1>1 DEF Chunks_1
  <1> HIDE DEF parts, n
  <1>6. parts \in Seq(Seq(Byte)) /\ Len(parts) = n /\ Concat(parts) \in Seq(Byte)
    BY <1>1, <1>4, <1>5, PartsBytes
  <1> QED
    BY <1>3, <1>6, Zenon DEF parts, n

\* What is written with the layout is read back exactly if it is allowed.
LEMMA Decodes_1 ==
    ASSUME NEW fields, Layout_1(fields), NEW m, typed_1(fields, m), NEW bs \in Seq(Byte)
    PROVE  Decodes([o \in 0..Len(bs) |-> read_1(fields, bs, o, limits)], bs,
                   bytes_1(fields, m), m, allowed_1(fields, m))
  <1> DEFINE n == Len(fields)
             chunks == Chunks_1(fields, m)
             calls == [i \in DOMAIN fields |-> Call_1(fields[i], bs)]
             names == [i \in DOMAIN fields |-> fields[i].name]
             good == {i \in DOMAIN fields : Good_1(fields[i], m[fields[i].name])}
             all == \A i \in 1..Len(chunks) : i \in good
             call == [o \in 0..Len(bs) |-> read_1(fields, bs, o, limits)]
  <1>1. n \in Nat /\ DOMAIN fields = 1..n /\ \A i \in 1..n : Nested_1(fields[i])
    BY Layout_1_Is
  <1>2. \A i \in DOMAIN fields : Value_1(fields[i], m[fields[i].name])
    BY DEF typed_1, typed, Value_1
  <1>3. chunks \in Seq(Seq(Byte)) /\ Len(chunks) = n /\ bytes_1(fields, m) = Concat(chunks)
    BY Bytes_1
  <1>4. call = [o \in 0..Len(bs) |-> InOrder(calls, names, o)]
    BY DEF read_1, get_fields, Call_1
  <1>5. Named(m, names, n)
    <2>1. m = [a \in {fields[i].name : i \in DOMAIN fields} |-> m[a]]
      BY DEF typed_1, typed
    <2>2. {fields[i].name : i \in DOMAIN fields} = {names[i] : i \in 1..n}
      BY <1>1
    <2> HIDE DEF names
    <2> QED
      BY <2>1, <2>2, Zenon DEF Named
  <1>6. Len(calls) = n
    <2>1. calls = [i \in 1..n |-> calls[i]]
      BY <1>1
    <2> HIDE DEF calls
    <2> QED
      BY <1>1, <2>1, SequenceOf
  <1>7. \A i \in 1..n : /\ chunks[i] = Chunk_1(fields[i], m[fields[i].name])
                        /\ calls[i] = Call_1(fields[i], bs) /\ names[i] = fields[i].name
                        /\ i \in good <=> Good_1(fields[i], m[fields[i].name])
    BY <1>1 DEF Chunks_1
  <1>8. allowed_1(fields, m) <=> all
    <2>1. allowed_1(fields, m) <=> \A i \in DOMAIN fields : Good_1(fields[i], m[fields[i].name])
      BY DEF allowed_1, allowed, Good_1
    <2> HIDE DEF good
    <2> QED
      BY <1>1, <1>3, <1>7, <2>1
  <1> HIDE DEF n, chunks, calls, names, good, call
  <1>9. DecodesAll(calls, bs, chunks, m, names, good)
    <2>1. ASSUME NEW i \in 1..n
          PROVE  Decodes(calls[i], bs, chunks[i], m[names[i]], i \in good)
      <3>1. Decodes(Call_1(fields[i], bs), bs, Chunk_1(fields[i], m[fields[i].name]),
                    m[fields[i].name], Good_1(fields[i], m[fields[i].name]))
        BY <1>1, <1>2, FieldDecodes_1
      <3> QED
        BY <1>7, <3>1, Zenon DEF Decodes
    <2> QED
      BY <1>3, <2>1 DEF DecodesAll
  <1>10. Decodes([o \in 0..Len(bs) |-> InOrder(calls, names, o)], bs, Concat(chunks), m, all)
    <2>1. Len(calls) = Len(chunks) /\ Named(m, names, Len(chunks))
      BY <1>3, <1>5, <1>6
    <2>2. DecodesInOrder(calls, names, bs, chunks, m, good)
      BY <1>3, <1>9, <2>1, InOrderDecodes
    <2> QED
      BY <2>2 DEF DecodesInOrder
  <1> HIDE DEF all
  <1>11. Decodes(call, bs, bytes_1(fields, m), m, allowed_1(fields, m))
    BY <1>3, <1>4, <1>8, <1>10, Zenon DEF Decodes
  <1> QED
    BY <1>11 DEF call

-----------------------------------------------------------------------------
(***************************************************************************)
(* Layouts whose parts nest one deep.                                      *)
(***************************************************************************)
Chunk_2(f, x) == put_field(bytes_1, f, x)
Call_2(f, bs) == [o \in 0..Len(bs) |-> get_field(read_1, f, bs, o, limits)]
Value_2(f, x) == typed_field(typed_1, f, x)
Good_2(f, x) == allowed_field(allowed_1, f, x)

\* The call of a string.
LEMMA StringIs_2 ==
    ASSUME NEW f, NEW x, IsString(f), NEW bs \in Seq(Byte)
    PROVE  /\ Value_2(f, x) => x \in Seq(Byte) /\ Len(x) <= Huge
           /\ Chunk_2(f, x) = Cat(put_int(Len(x), 4), x)
           /\ Call_2(f, bs) = [o \in 0..Len(bs) |-> get_string(bs, o, limits)]
           /\ Good_2(f, x) <=> Len(x) <= limits.max_string_bytes
  BY DEF IsString, Value_2, typed_field, Chunk_2, put_field, Cat, Call_2, get_field, Good_2,
         allowed_field

\* The call of a number.
LEMMA NumberIs_2 ==
    ASSUME NEW f, NEW x, IsNumber(f), NEW bs \in Seq(Byte)
    PROVE  /\ Value_2(f, x) => x \in Numbers(f)
           /\ Chunk_2(f, x) = put_int(x, Width(f))
           /\ Call_2(f, bs) = [o \in 0..Len(bs) |-> get_number(f, bs, o)]
           /\ Good_2(f, x) <=> (f.kind = "enum" => x < f.count)
  <1>1. f.kind \notin {"string", "list", "struct"}
    BY DEF IsNumber, NumberKinds
  <1> QED
    BY <1>1 DEF Value_2, typed_field, Chunk_2, put_field, Call_2, get_field, Good_2,
                allowed_field

\* The call of a member.
LEMMA StructIs_2 ==
    ASSUME NEW f, NEW x, Part_2(f, "struct"), NEW bs \in Seq(Byte)
    PROVE  /\ Value_2(f, x) => typed_1(f.fields, x)
           /\ Chunk_2(f, x) = bytes_1(f.fields, x)
           /\ Call_2(f, bs) = [o \in 0..Len(bs) |-> read_1(f.fields, bs, o, limits)]
           /\ Good_2(f, x) <=> allowed_1(f.fields, x)
  BY DEF Part_2, Value_2, typed_field, Chunk_2, put_field, Call_2, get_field, Good_2,
         allowed_field

\* One field is written in bytes.
LEMMA FieldBytes_2 ==
    ASSUME NEW f, Nested_2(f), NEW x, Value_2(f, x)
    PROVE  Chunk_2(f, x) \in Seq(Byte)
  <1>0. <<>> \in Seq(Byte)
    OBVIOUS
  <1>1. CASE IsString(f)
    <2>1. x \in Seq(Byte) /\ Len(x) <= Huge /\ Chunk_2(f, x) = Cat(put_int(Len(x), 4), x)
      BY <1>0, <1>1, StringIs_2, Zenon
    <2>2. Len(x) \in 0..Huge
      BY <2>1, HugeNat
    <2> QED
      BY <2>1, <2>2, LengthBytes
  <1>2. CASE IsNumber(f)
    <2>1. x \in Numbers(f) /\ Chunk_2(f, x) = put_int(x, Width(f))
      BY <1>0, <1>2, NumberIs_2, Zenon
    <2>2. x \in (-Huge)..Huge /\ Width(f) \in {1, 2, 4, 8}
      BY <1>2, <2>1, NumberWidth, Zenon
    <2> QED
      BY <2>1, <2>2, PutBytes
  <1>3. CASE Part_2(f, "struct")
    <2>1. typed_1(f.fields, x) /\ Chunk_2(f, x) = bytes_1(f.fields, x) /\ Layout_1(f.fields)
      BY <1>0, <1>3, StructIs_2, Zenon DEF Part_2
    <2> QED
      BY <2>1, Bytes_1
  <1>4. CASE Part_2(f, "list")
    <2> DEFINE parts == [k \in DOMAIN x |-> bytes_1(f.fields, x[k])]
    <2>1. /\ IsList(x) /\ \A k \in DOMAIN x : typed_1(f.fields, x[k])
          /\ Chunk_2(f, x) = Cat(put_int(Len(x), 4), Concat(parts)) /\ Layout_1(f.fields)
      BY <1>4 DEF Part_2, Value_2, typed_field, Chunk_2, put_field, Cat
    <2>2. Len(x) \in 0..Huge /\ Len(x) \in Nat /\ DOMAIN x = 1..Len(x)
      BY <2>1, ListIs
    <2>3. \A k \in 1..Len(x) : parts[k] \in Seq(Byte)
      <3>1. \A k \in 1..Len(x) : bytes_1(f.fields, x[k]) \in Seq(Byte)
        BY <2>1, <2>2, Bytes_1
      <3> QED
        BY <2>2, <3>1
    <2>4. parts = [k \in 1..Len(x) |-> parts[k]]
      BY <2>2
    <2> HIDE DEF parts
    <2>5. Concat(parts) \in Seq(Byte)
      BY <2>2, <2>3, <2>4, PartsBytes
    <2> QED
      BY <2>1, <2>2, <2>5, LengthBytes
  <1> QED
    BY <1>1, <1>2, <1>3, <1>4, Zenon DEF Nested_2, Scalar

\* One field is read back exactly if it is allowed.
LEMMA FieldDecodes_2 ==
    ASSUME NEW f, Nested_2(f), NEW x, Value_2(f, x), NEW bs \in Seq(Byte)
    PROVE  Decodes(Call_2(f, bs), bs, Chunk_2(f, x), x, Good_2(f, x))
  <1>1. CASE IsString(f)
    <2>1. /\ x \in Seq(Byte) /\ Len(x) <= Huge
          /\ Chunk_2(f, x) = Cat(put_int(Len(x), 4), x)
          /\ Call_2(f, bs) = [o \in 0..Len(bs) |-> get_string(bs, o, limits)]
          /\ Good_2(f, x) <=> Len(x) <= limits.max_string_bytes
      BY <1>1, StringIs_2, Zenon
    <2>2. Decodes([o \in 0..Len(bs) |-> get_string(bs, o, limits)], bs,
                  Cat(put_int(Len(x), 4), x), x, Len(x) <= limits.max_string_bytes)
      BY <2>1, StringDecodes
    <2> QED
      BY <2>1, <2>2, Zenon DEF Decodes
  <1>2. CASE IsNumber(f)
    <2>1. /\ x \in Numbers(f) /\ Chunk_2(f, x) = put_int(x, Width(f))
          /\ Call_2(f, bs) = [o \in 0..Len(bs) |-> get_number(f, bs, o)]
          /\ Good_2(f, x) <=> (f.kind = "enum" => x < f.count)
      BY <1>2, NumberIs_2, Zenon
    <2>2. Decodes([o \in 0..Len(bs) |-> get_number(f, bs, o)], bs, put_int(x, Width(f)), x,
                  f.kind = "enum" => x < f.count)
      BY <1>2, <2>1, NumberDecodes
    <2> QED
      BY <2>1, <2>2, Zenon DEF Decodes
  <1>3. CASE Part_2(f, "struct")
    <2>1. /\ typed_1(f.fields, x) /\ Layout_1(f.fields)
          /\ Chunk_2(f, x) = bytes_1(f.fields, x)
          /\ Call_2(f, bs) = [o \in 0..Len(bs) |-> read_1(f.fields, bs, o, limits)]
          /\ Good_2(f, x) <=> allowed_1(f.fields, x)
      BY <1>3, StructIs_2, Zenon DEF Part_2
    <2>2. Decodes([o \in 0..Len(bs) |-> read_1(f.fields, bs, o, limits)], bs,
                  bytes_1(f.fields, x), x, allowed_1(f.fields, x))
      BY <2>1, Decodes_1
    <2> QED
      BY <2>1, <2>2, Zenon DEF Decodes
  <1>4. CASE Part_2(f, "list") /\ f.limit \in LimitNames
    <2> DEFINE parts == [k \in DOMAIN x |-> bytes_1(f.fields, x[k])]
               part == [a \in 0..Len(bs) |-> read_1(f.fields, bs, a, limits)]
               good == {k \in DOMAIN x : allowed_1(f.fields, x[k])}
               all == Len(x) <= limits[f.limit] /\ \A k \in 1..Len(x) : k \in good
    <2>1. /\ IsList(x) /\ \A k \in DOMAIN x : typed_1(f.fields, x[k])
          /\ Layout_1(f.fields)
          /\ Chunk_2(f, x) = Cat(put_int(Len(x), 4), Concat(parts))
          /\ Call_2(f, bs) = [o \in 0..Len(bs) |-> get_list(part, bs, o, limits[f.limit])]
          /\ Good_2(f, x) <=> Len(x) <= limits[f.limit]
                                /\ \A k \in DOMAIN x : allowed_1(f.fields, x[k])
      BY <1>4 DEF Part_2, Value_2, typed_field, Chunk_2, put_field, Cat, Call_2, get_field,
                  Good_2, allowed_field
    <2>2. /\ Len(x) \in 0..Huge /\ Len(x) \in Nat /\ DOMAIN x = 1..Len(x)
          /\ x = [k \in 1..Len(x) |-> x[k]]
      BY <2>1, ListIs
    <2>3. \A k \in 1..Len(x) : parts[k] = bytes_1(f.fields, x[k])
      BY <2>2
    <2>4. \A k \in 1..Len(x) : parts[k] \in Seq(Byte)
      <3>1. \A k \in 1..Len(x) : bytes_1(f.fields, x[k]) \in Seq(Byte)
        BY <2>1, <2>2, Bytes_1
      <3> QED
        BY <2>3, <3>1
    <2>5. parts = [k \in 1..Len(x) |-> parts[k]]
      BY <2>2
    <2>6. limits[f.limit] \in Nat
      BY <1>4, LimitIs
    <2>7. ASSUME NEW k \in 1..Len(x) PROVE Decodes(part, bs, parts[k], x[k], k \in good)
      <3>1. typed_1(f.fields, x[k]) /\ (k \in good <=> allowed_1(f.fields, x[k]))
        BY <2>1, <2>2
      <3>2. Decodes(part, bs, bytes_1(f.fields, x[k]), x[k], allowed_1(f.fields, x[k]))
        BY <2>1, <3>1, Decodes_1
      <3> HIDE DEF part, parts, good
      <3> QED
        BY <2>3, <3>1, <3>2, Zenon DEF Decodes
    <2>8. Good_2(f, x) <=> all
      BY <2>1, <2>2
    <2> HIDE DEF parts, part, good
    <2>9. parts \in Seq(Seq(Byte)) /\ Len(parts) = Len(x)
      BY <2>2, <2>4, <2>5, PartsBytes
    <2>10. Decodes([o \in 0..Len(bs) |-> get_list(part, bs, o, limits[f.limit])], bs,
                   Cat(put_int(Len(x), 4), Concat(parts)), x, all)
      <3>1. IsListOf(x, Len(x)) /\ DecodesEach(part, bs, parts, x, Len(x), good)
        BY <2>2, <2>7, Zenon DEF IsListOf, DecodesEach
      <3>2. DecodesList(part, bs, parts, x, Len(x), limits[f.limit], good)
        BY <2>2, <2>6, <2>9, <3>1, ListDecodes
      <3> QED
        BY <3>2 DEF DecodesList
    <2> HIDE DEF all
    <2> QED
      BY <2>1, <2>8, <2>10, Zenon DEF Decodes
  <1> QED
    BY <1>1, <1>2, <1>3, <1>4, Zenon DEF Nested_2, Scalar

Chunks_2(fields, m) == [i \in DOMAIN fields |-> Chunk_2(fields[i], m[fields[i].name])]

\* The calls of a layout whose parts nest one deep.
LEMMA Layout_2_Is ==
    ASSUME NEW fields, Layout_2(fields)
    PROVE  /\ Len(fields) \in Nat /\ DOMAIN fields = 1..Len(fields)
           /\ \A i \in 1..Len(fields) : Nested_2(fields[i])
  BY ShapedIs DEF Layout_2

\* A value is written in bytes.
LEMMA Bytes_2 ==
    ASSUME NEW fields, Layout_2(fields), NEW m, typed_2(fields, m)
    PROVE  /\ bytes_2(fields, m) \in Seq(Byte) /\ bytes_2(fields, m) = Concat(Chunks_2(fields, m))
           /\ Chunks_2(fields, m) \in Seq(Seq(Byte)) /\ Len(Chunks_2(fields, m)) = Len(fields)
  <1> DEFINE n == Len(fields)
             parts == Chunks_2(fields, m)
  <1>1. n \in Nat /\ DOMAIN fields = 1..n /\ \A i \in 1..n : Nested_2(fields[i])
    BY Layout_2_Is
  <1>2. \A i \in DOMAIN fields : Value_2(fields[i], m[fields[i].name])
    BY DEF typed_2, typed, Value_2
  <1>3. bytes_2(fields, m) = Concat(parts)
    BY DEF bytes_2, put_fields, Chunks_2, Chunk_2
  <1>4. \A i \in 1..n : parts[i] \in Seq(Byte)
    <2>1. \A i \in 1..n : Chunk_2(fields[i], m[fields[i].name]) \in Seq(Byte)
      BY <1>1, <1>2, FieldBytes_2
    <2> QED
      BY <1>1, <2>1 DEF Chunks_2
  <1>5. parts = [i \in 1..n |-> parts[i]]
    BY <1>1 DEF Chunks_2
  <1> HIDE DEF parts, n
  <1>6. parts \in Seq(Seq(Byte)) /\ Len(parts) = n /\ Concat(parts) \in Seq(Byte)
    BY <1>1, <1>4, <1>5, PartsBytes
  <1> QED
    BY <1>3, <1>6, Zenon DEF parts, n

\* What is written with the layout is read back exactly if it is allowed.
LEMMA Decodes_2 ==
    ASSUME NEW fields, Layout_2(fields), NEW m, typed_2(fields, m), NEW bs \in Seq(Byte)
    PROVE  Decodes([o \in 0..Len(bs) |-> read_2(fields, bs, o, limits)], bs,
                   bytes_2(fields, m), m, allowed_2(fields, m))
  <1> DEFINE n == Len(fields)
             chunks == Chunks_2(fields, m)
             calls == [i \in DOMAIN fields |-> Call_2(fields[i], bs)]
             names == [i \in DOMAIN fields |-> fields[i].name]
             good == {i \in DOMAIN fields : Good_2(fields[i], m[fields[i].name])}
             all == \A i \in 1..Len(chunks) : i \in good
             call == [o \in 0..Len(bs) |-> read_2(fields, bs, o, limits)]
  <1>1. n \in Nat /\ DOMAIN fields = 1..n /\ \A i \in 1..n : Nested_2(fields[i])
    BY Layout_2_Is
  <1>2. \A i \in DOMAIN fields : Value_2(fields[i], m[fields[i].name])
    BY DEF typed_2, typed, Value_2
  <1>3. chunks \in Seq(Seq(Byte)) /\ Len(chunks) = n /\ bytes_2(fields, m) = Concat(chunks)
    BY Bytes_2
  <1>4. call = [o \in 0..Len(bs) |-> InOrder(calls, names, o)]
    BY DEF read_2, get_fields, Call_2
  <1>5. Named(m, names, n)
    <2>1. m = [a \in {fields[i].name : i \in DOMAIN fields} |-> m[a]]
      BY DEF typed_2, typed
    <2>2. {fields[i].name : i \in DOMAIN fields} = {names[i] : i \in 1..n}
      BY <1>1
    <2> HIDE DEF names
    <2> QED
      BY <2>1, <2>2, Zenon DEF Named
  <1>6. Len(calls) = n
    <2>1. calls = [i \in 1..n |-> calls[i]]
      BY <1>1
    <2> HIDE DEF calls
    <2> QED
      BY <1>1, <2>1, SequenceOf
  <1>7. \A i \in 1..n : /\ chunks[i] = Chunk_2(fields[i], m[fields[i].name])
                        /\ calls[i] = Call_2(fields[i], bs) /\ names[i] = fields[i].name
                        /\ i \in good <=> Good_2(fields[i], m[fields[i].name])
    BY <1>1 DEF Chunks_2
  <1>8. allowed_2(fields, m) <=> all
    <2>1. allowed_2(fields, m) <=> \A i \in DOMAIN fields : Good_2(fields[i], m[fields[i].name])
      BY DEF allowed_2, allowed, Good_2
    <2> HIDE DEF good
    <2> QED
      BY <1>1, <1>3, <1>7, <2>1
  <1> HIDE DEF n, chunks, calls, names, good, call
  <1>9. DecodesAll(calls, bs, chunks, m, names, good)
    <2>1. ASSUME NEW i \in 1..n
          PROVE  Decodes(calls[i], bs, chunks[i], m[names[i]], i \in good)
      <3>1. Decodes(Call_2(fields[i], bs), bs, Chunk_2(fields[i], m[fields[i].name]),
                    m[fields[i].name], Good_2(fields[i], m[fields[i].name]))
        BY <1>1, <1>2, FieldDecodes_2
      <3> QED
        BY <1>7, <3>1, Zenon DEF Decodes
    <2> QED
      BY <1>3, <2>1 DEF DecodesAll
  <1>10. Decodes([o \in 0..Len(bs) |-> InOrder(calls, names, o)], bs, Concat(chunks), m, all)
    <2>1. Len(calls) = Len(chunks) /\ Named(m, names, Len(chunks))
      BY <1>3, <1>5, <1>6
    <2>2. DecodesInOrder(calls, names, bs, chunks, m, good)
      BY <1>3, <1>9, <2>1, InOrderDecodes
    <2> QED
      BY <2>2 DEF DecodesInOrder
  <1> HIDE DEF all
  <1>11. Decodes(call, bs, bytes_2(fields, m), m, allowed_2(fields, m))
    BY <1>3, <1>4, <1>8, <1>10, Zenon DEF Decodes
  <1> QED
    BY <1>11 DEF call

-----------------------------------------------------------------------------
(***************************************************************************)
(* Layouts whose parts nest two deep: every message and every record.      *)
(***************************************************************************)
Chunk_3(f, x) == put_field(bytes_2, f, x)
Call_3(f, bs) == [o \in 0..Len(bs) |-> get_field(read_2, f, bs, o, limits)]
Value_3(f, x) == typed_field(typed_2, f, x)
Good_3(f, x) == allowed_field(allowed_2, f, x)

\* The call of a string.
LEMMA StringIs_3 ==
    ASSUME NEW f, NEW x, IsString(f), NEW bs \in Seq(Byte)
    PROVE  /\ Value_3(f, x) => x \in Seq(Byte) /\ Len(x) <= Huge
           /\ Chunk_3(f, x) = Cat(put_int(Len(x), 4), x)
           /\ Call_3(f, bs) = [o \in 0..Len(bs) |-> get_string(bs, o, limits)]
           /\ Good_3(f, x) <=> Len(x) <= limits.max_string_bytes
  BY DEF IsString, Value_3, typed_field, Chunk_3, put_field, Cat, Call_3, get_field, Good_3,
         allowed_field

\* The call of a number.
LEMMA NumberIs_3 ==
    ASSUME NEW f, NEW x, IsNumber(f), NEW bs \in Seq(Byte)
    PROVE  /\ Value_3(f, x) => x \in Numbers(f)
           /\ Chunk_3(f, x) = put_int(x, Width(f))
           /\ Call_3(f, bs) = [o \in 0..Len(bs) |-> get_number(f, bs, o)]
           /\ Good_3(f, x) <=> (f.kind = "enum" => x < f.count)
  <1>1. f.kind \notin {"string", "list", "struct"}
    BY DEF IsNumber, NumberKinds
  <1> QED
    BY <1>1 DEF Value_3, typed_field, Chunk_3, put_field, Call_3, get_field, Good_3,
                allowed_field

\* The call of a member.
LEMMA StructIs_3 ==
    ASSUME NEW f, NEW x, Part_3(f, "struct"), NEW bs \in Seq(Byte)
    PROVE  /\ Value_3(f, x) => typed_2(f.fields, x)
           /\ Chunk_3(f, x) = bytes_2(f.fields, x)
           /\ Call_3(f, bs) = [o \in 0..Len(bs) |-> read_2(f.fields, bs, o, limits)]
           /\ Good_3(f, x) <=> allowed_2(f.fields, x)
  BY DEF Part_3, Value_3, typed_field, Chunk_3, put_field, Call_3, get_field, Good_3,
         allowed_field

\* One field is written in bytes.
LEMMA FieldBytes_3 ==
    ASSUME NEW f, Nested_3(f), NEW x, Value_3(f, x)
    PROVE  Chunk_3(f, x) \in Seq(Byte)
  <1>0. <<>> \in Seq(Byte)
    OBVIOUS
  <1>1. CASE IsString(f)
    <2>1. x \in Seq(Byte) /\ Len(x) <= Huge /\ Chunk_3(f, x) = Cat(put_int(Len(x), 4), x)
      BY <1>0, <1>1, StringIs_3, Zenon
    <2>2. Len(x) \in 0..Huge
      BY <2>1, HugeNat
    <2> QED
      BY <2>1, <2>2, LengthBytes
  <1>2. CASE IsNumber(f)
    <2>1. x \in Numbers(f) /\ Chunk_3(f, x) = put_int(x, Width(f))
      BY <1>0, <1>2, NumberIs_3, Zenon
    <2>2. x \in (-Huge)..Huge /\ Width(f) \in {1, 2, 4, 8}
      BY <1>2, <2>1, NumberWidth, Zenon
    <2> QED
      BY <2>1, <2>2, PutBytes
  <1>3. CASE Part_3(f, "struct")
    <2>1. typed_2(f.fields, x) /\ Chunk_3(f, x) = bytes_2(f.fields, x) /\ Layout_2(f.fields)
      BY <1>0, <1>3, StructIs_3, Zenon DEF Part_3
    <2> QED
      BY <2>1, Bytes_2
  <1>4. CASE Part_3(f, "list")
    <2> DEFINE parts == [k \in DOMAIN x |-> bytes_2(f.fields, x[k])]
    <2>1. /\ IsList(x) /\ \A k \in DOMAIN x : typed_2(f.fields, x[k])
          /\ Chunk_3(f, x) = Cat(put_int(Len(x), 4), Concat(parts)) /\ Layout_2(f.fields)
      BY <1>4 DEF Part_3, Value_3, typed_field, Chunk_3, put_field, Cat
    <2>2. Len(x) \in 0..Huge /\ Len(x) \in Nat /\ DOMAIN x = 1..Len(x)
      BY <2>1, ListIs
    <2>3. \A k \in 1..Len(x) : parts[k] \in Seq(Byte)
      <3>1. \A k \in 1..Len(x) : bytes_2(f.fields, x[k]) \in Seq(Byte)
        BY <2>1, <2>2, Bytes_2
      <3> QED
        BY <2>2, <3>1
    <2>4. parts = [k \in 1..Len(x) |-> parts[k]]
      BY <2>2
    <2> HIDE DEF parts
    <2>5. Concat(parts) \in Seq(Byte)
      BY <2>2, <2>3, <2>4, PartsBytes
    <2> QED
      BY <2>1, <2>2, <2>5, LengthBytes
  <1> QED
    BY <1>1, <1>2, <1>3, <1>4, Zenon DEF Nested_3, Scalar

\* One field is read back exactly if it is allowed.
LEMMA FieldDecodes_3 ==
    ASSUME NEW f, Nested_3(f), NEW x, Value_3(f, x), NEW bs \in Seq(Byte)
    PROVE  Decodes(Call_3(f, bs), bs, Chunk_3(f, x), x, Good_3(f, x))
  <1>1. CASE IsString(f)
    <2>1. /\ x \in Seq(Byte) /\ Len(x) <= Huge
          /\ Chunk_3(f, x) = Cat(put_int(Len(x), 4), x)
          /\ Call_3(f, bs) = [o \in 0..Len(bs) |-> get_string(bs, o, limits)]
          /\ Good_3(f, x) <=> Len(x) <= limits.max_string_bytes
      BY <1>1, StringIs_3, Zenon
    <2>2. Decodes([o \in 0..Len(bs) |-> get_string(bs, o, limits)], bs,
                  Cat(put_int(Len(x), 4), x), x, Len(x) <= limits.max_string_bytes)
      BY <2>1, StringDecodes
    <2> QED
      BY <2>1, <2>2, Zenon DEF Decodes
  <1>2. CASE IsNumber(f)
    <2>1. /\ x \in Numbers(f) /\ Chunk_3(f, x) = put_int(x, Width(f))
          /\ Call_3(f, bs) = [o \in 0..Len(bs) |-> get_number(f, bs, o)]
          /\ Good_3(f, x) <=> (f.kind = "enum" => x < f.count)
      BY <1>2, NumberIs_3, Zenon
    <2>2. Decodes([o \in 0..Len(bs) |-> get_number(f, bs, o)], bs, put_int(x, Width(f)), x,
                  f.kind = "enum" => x < f.count)
      BY <1>2, <2>1, NumberDecodes
    <2> QED
      BY <2>1, <2>2, Zenon DEF Decodes
  <1>3. CASE Part_3(f, "struct")
    <2>1. /\ typed_2(f.fields, x) /\ Layout_2(f.fields)
          /\ Chunk_3(f, x) = bytes_2(f.fields, x)
          /\ Call_3(f, bs) = [o \in 0..Len(bs) |-> read_2(f.fields, bs, o, limits)]
          /\ Good_3(f, x) <=> allowed_2(f.fields, x)
      BY <1>3, StructIs_3, Zenon DEF Part_3
    <2>2. Decodes([o \in 0..Len(bs) |-> read_2(f.fields, bs, o, limits)], bs,
                  bytes_2(f.fields, x), x, allowed_2(f.fields, x))
      BY <2>1, Decodes_2
    <2> QED
      BY <2>1, <2>2, Zenon DEF Decodes
  <1>4. CASE Part_3(f, "list") /\ f.limit \in LimitNames
    <2> DEFINE parts == [k \in DOMAIN x |-> bytes_2(f.fields, x[k])]
               part == [a \in 0..Len(bs) |-> read_2(f.fields, bs, a, limits)]
               good == {k \in DOMAIN x : allowed_2(f.fields, x[k])}
               all == Len(x) <= limits[f.limit] /\ \A k \in 1..Len(x) : k \in good
    <2>1. /\ IsList(x) /\ \A k \in DOMAIN x : typed_2(f.fields, x[k])
          /\ Layout_2(f.fields)
          /\ Chunk_3(f, x) = Cat(put_int(Len(x), 4), Concat(parts))
          /\ Call_3(f, bs) = [o \in 0..Len(bs) |-> get_list(part, bs, o, limits[f.limit])]
          /\ Good_3(f, x) <=> Len(x) <= limits[f.limit]
                                /\ \A k \in DOMAIN x : allowed_2(f.fields, x[k])
      BY <1>4 DEF Part_3, Value_3, typed_field, Chunk_3, put_field, Cat, Call_3, get_field,
                  Good_3, allowed_field
    <2>2. /\ Len(x) \in 0..Huge /\ Len(x) \in Nat /\ DOMAIN x = 1..Len(x)
          /\ x = [k \in 1..Len(x) |-> x[k]]
      BY <2>1, ListIs
    <2>3. \A k \in 1..Len(x) : parts[k] = bytes_2(f.fields, x[k])
      BY <2>2
    <2>4. \A k \in 1..Len(x) : parts[k] \in Seq(Byte)
      <3>1. \A k \in 1..Len(x) : bytes_2(f.fields, x[k]) \in Seq(Byte)
        BY <2>1, <2>2, Bytes_2
      <3> QED
        BY <2>3, <3>1
    <2>5. parts = [k \in 1..Len(x) |-> parts[k]]
      BY <2>2
    <2>6. limits[f.limit] \in Nat
      BY <1>4, LimitIs
    <2>7. ASSUME NEW k \in 1..Len(x) PROVE Decodes(part, bs, parts[k], x[k], k \in good)
      <3>1. typed_2(f.fields, x[k]) /\ (k \in good <=> allowed_2(f.fields, x[k]))
        BY <2>1, <2>2
      <3>2. Decodes(part, bs, bytes_2(f.fields, x[k]), x[k], allowed_2(f.fields, x[k]))
        BY <2>1, <3>1, Decodes_2
      <3> HIDE DEF part, parts, good
      <3> QED
        BY <2>3, <3>1, <3>2, Zenon DEF Decodes
    <2>8. Good_3(f, x) <=> all
      BY <2>1, <2>2
    <2> HIDE DEF parts, part, good
    <2>9. parts \in Seq(Seq(Byte)) /\ Len(parts) = Len(x)
      BY <2>2, <2>4, <2>5, PartsBytes
    <2>10. Decodes([o \in 0..Len(bs) |-> get_list(part, bs, o, limits[f.limit])], bs,
                   Cat(put_int(Len(x), 4), Concat(parts)), x, all)
      <3>1. IsListOf(x, Len(x)) /\ DecodesEach(part, bs, parts, x, Len(x), good)
        BY <2>2, <2>7, Zenon DEF IsListOf, DecodesEach
      <3>2. DecodesList(part, bs, parts, x, Len(x), limits[f.limit], good)
        BY <2>2, <2>6, <2>9, <3>1, ListDecodes
      <3> QED
        BY <3>2 DEF DecodesList
    <2> HIDE DEF all
    <2> QED
      BY <2>1, <2>8, <2>10, Zenon DEF Decodes
  <1> QED
    BY <1>1, <1>2, <1>3, <1>4, Zenon DEF Nested_3, Scalar

Chunks_3(fields, m) == [i \in DOMAIN fields |-> Chunk_3(fields[i], m[fields[i].name])]

\* The calls of a layout whose parts nest two deep.
LEMMA Layout_3_Is ==
    ASSUME NEW fields, Layout_3(fields)
    PROVE  /\ Len(fields) \in Nat /\ DOMAIN fields = 1..Len(fields)
           /\ \A i \in 1..Len(fields) : Nested_3(fields[i])
  BY ShapedIs DEF Layout_3

\* A value is written in bytes.
LEMMA Bytes_3 ==
    ASSUME NEW fields, Layout_3(fields), NEW m, Typed(fields, m)
    PROVE  /\ writer_bytes(fields, m) \in Seq(Byte) /\ writer_bytes(fields, m) = Concat(Chunks_3(fields, m))
           /\ Chunks_3(fields, m) \in Seq(Seq(Byte)) /\ Len(Chunks_3(fields, m)) = Len(fields)
  <1> DEFINE n == Len(fields)
             parts == Chunks_3(fields, m)
  <1>1. n \in Nat /\ DOMAIN fields = 1..n /\ \A i \in 1..n : Nested_3(fields[i])
    BY Layout_3_Is
  <1>2. \A i \in DOMAIN fields : Value_3(fields[i], m[fields[i].name])
    BY DEF Typed, typed, Value_3
  <1>3. writer_bytes(fields, m) = Concat(parts)
    BY DEF writer_bytes, put_fields, Chunks_3, Chunk_3
  <1>4. \A i \in 1..n : parts[i] \in Seq(Byte)
    <2>1. \A i \in 1..n : Chunk_3(fields[i], m[fields[i].name]) \in Seq(Byte)
      BY <1>1, <1>2, FieldBytes_3
    <2> QED
      BY <1>1, <2>1 DEF Chunks_3
  <1>5. parts = [i \in 1..n |-> parts[i]]
    BY <1>1 DEF Chunks_3
  <1> HIDE DEF parts, n
  <1>6. parts \in Seq(Seq(Byte)) /\ Len(parts) = n /\ Concat(parts) \in Seq(Byte)
    BY <1>1, <1>4, <1>5, PartsBytes
  <1> QED
    BY <1>3, <1>6, Zenon DEF parts, n

\* What is written with the layout is read back exactly if it is allowed.
LEMMA Decodes_3 ==
    ASSUME NEW fields, Layout_3(fields), NEW m, Typed(fields, m), NEW bs \in Seq(Byte)
    PROVE  Decodes([o \in 0..Len(bs) |-> read(fields, bs, o, limits)], bs,
                   writer_bytes(fields, m), m, Allowed(fields, m))
  <1> DEFINE n == Len(fields)
             chunks == Chunks_3(fields, m)
             calls == [i \in DOMAIN fields |-> Call_3(fields[i], bs)]
             names == [i \in DOMAIN fields |-> fields[i].name]
             good == {i \in DOMAIN fields : Good_3(fields[i], m[fields[i].name])}
             all == \A i \in 1..Len(chunks) : i \in good
             call == [o \in 0..Len(bs) |-> read(fields, bs, o, limits)]
  <1>1. n \in Nat /\ DOMAIN fields = 1..n /\ \A i \in 1..n : Nested_3(fields[i])
    BY Layout_3_Is
  <1>2. \A i \in DOMAIN fields : Value_3(fields[i], m[fields[i].name])
    BY DEF Typed, typed, Value_3
  <1>3. chunks \in Seq(Seq(Byte)) /\ Len(chunks) = n /\ writer_bytes(fields, m) = Concat(chunks)
    BY Bytes_3
  <1>4. call = [o \in 0..Len(bs) |-> InOrder(calls, names, o)]
    BY DEF read, get_fields, Call_3
  <1>5. Named(m, names, n)
    <2>1. m = [a \in {fields[i].name : i \in DOMAIN fields} |-> m[a]]
      BY DEF Typed, typed
    <2>2. {fields[i].name : i \in DOMAIN fields} = {names[i] : i \in 1..n}
      BY <1>1
    <2> HIDE DEF names
    <2> QED
      BY <2>1, <2>2, Zenon DEF Named
  <1>6. Len(calls) = n
    <2>1. calls = [i \in 1..n |-> calls[i]]
      BY <1>1
    <2> HIDE DEF calls
    <2> QED
      BY <1>1, <2>1, SequenceOf
  <1>7. \A i \in 1..n : /\ chunks[i] = Chunk_3(fields[i], m[fields[i].name])
                        /\ calls[i] = Call_3(fields[i], bs) /\ names[i] = fields[i].name
                        /\ i \in good <=> Good_3(fields[i], m[fields[i].name])
    BY <1>1 DEF Chunks_3
  <1>8. Allowed(fields, m) <=> all
    <2>1. Allowed(fields, m) <=> \A i \in DOMAIN fields : Good_3(fields[i], m[fields[i].name])
      BY DEF Allowed, allowed, Good_3
    <2> HIDE DEF good
    <2> QED
      BY <1>1, <1>3, <1>7, <2>1
  <1> HIDE DEF n, chunks, calls, names, good, call
  <1>9. DecodesAll(calls, bs, chunks, m, names, good)
    <2>1. ASSUME NEW i \in 1..n
          PROVE  Decodes(calls[i], bs, chunks[i], m[names[i]], i \in good)
      <3>1. Decodes(Call_3(fields[i], bs), bs, Chunk_3(fields[i], m[fields[i].name]),
                    m[fields[i].name], Good_3(fields[i], m[fields[i].name]))
        BY <1>1, <1>2, FieldDecodes_3
      <3> QED
        BY <1>7, <3>1, Zenon DEF Decodes
    <2> QED
      BY <1>3, <2>1 DEF DecodesAll
  <1>10. Decodes([o \in 0..Len(bs) |-> InOrder(calls, names, o)], bs, Concat(chunks), m, all)
    <2>1. Len(calls) = Len(chunks) /\ Named(m, names, Len(chunks))
      BY <1>3, <1>5, <1>6
    <2>2. DecodesInOrder(calls, names, bs, chunks, m, good)
      BY <1>3, <1>9, <2>1, InOrderDecodes
    <2> QED
      BY <2>2 DEF DecodesInOrder
  <1> HIDE DEF all
  <1>11. Decodes(call, bs, writer_bytes(fields, m), m, Allowed(fields, m))
    BY <1>3, <1>4, <1>8, <1>10, Zenon DEF Decodes
  <1> QED
    BY <1>11 DEF call

-----------------------------------------------------------------------------
(***************************************************************************)
(* The layouts of the messages and of the records.                         *)
(***************************************************************************)
LEMMA CatShape ==
    ASSUME NEW a, NEW b, Shaped(a), Shaped(b)
    PROVE  Shaped(a \o b) /\ \A f \in Elements(a \o b) : f \in Elements(a) \/ f \in Elements(b)
  <1> DEFINE S == Elements(a) \cup Elements(b)
             c == Cat(a, b)
  <1>1. a \in Seq(S) /\ b \in Seq(S) /\ Len(a) \in Nat /\ Len(b) \in Nat
    <2>1. a \in Seq(Elements(a)) /\ b \in Seq(Elements(b))
      BY DEF Shaped
    <2> QED
      BY <2>1
  <1>2. \A j \in 1..Len(a) : a[j] \in Elements(a)
    BY ShapedIs
  <1>3. \A j \in 1..Len(b) : b[j] \in Elements(b)
    BY ShapedIs
  <1> HIDE DEF S
  <1>4. c \in Seq(S) /\ Joined(S, a, b, c)
    BY <1>1, CatJoins
  <1> HIDE DEF c
  <1>5. /\ c \in Seq(S) /\ Len(c) = Len(a) + Len(b) /\ \A j \in 1..Len(a) : c[j] = a[j]
        /\ \A j \in 1..Len(b) : c[Len(a) + j] = b[j]
    BY <1>4, Zenon DEF Joined
  <1>6. Len(c) \in Nat /\ DOMAIN c = 1..Len(c) /\ c = [i \in 1..Len(c) |-> c[i]]
    BY <1>5
  <1>7. c \in Seq(Elements(c))
    <2>1. c \in Seq({c[i] : i \in 1..Len(c)})
      BY <1>6, SequenceOf
    <2> QED
      BY <1>6, <2>1 DEF Elements
  <1>8. ASSUME NEW i \in 1..Len(c) PROVE c[i] \in Elements(a) \/ c[i] \in Elements(b)
    <2>1. i \in 1..Len(a) \/ (i - Len(a) \in 1..Len(b) /\ Len(a) + (i - Len(a)) = i)
      BY <1>1, <1>5
    <2>2. CASE i \in 1..Len(a)
      BY <1>2, <1>5, <2>2
    <2>3. CASE i - Len(a) \in 1..Len(b) /\ Len(a) + (i - Len(a)) = i
      <3>1. c[Len(a) + (i - Len(a))] = b[i - Len(a)] /\ b[i - Len(a)] \in Elements(b)
        BY <1>3, <1>5, <2>3
      <3> QED
        BY <2>3, <3>1
    <2> QED
      BY <2>1, <2>2, <2>3
  <1> QED
    BY <1>6, <1>7, <1>8 DEF Elements, Shaped, c, Cat

\* Layouts one after the other.
LEMMA CatLayout_0 == \A a, b : Layout_0(a) /\ Layout_0(b) => Layout_0(a \o b)
  BY CatShape, Zenon DEF Layout_0

\* Layouts one after the other.
LEMMA CatLayout_1 == \A a, b : Layout_1(a) /\ Layout_1(b) => Layout_1(a \o b)
  BY CatShape, Zenon DEF Layout_1

\* Layouts one after the other.
LEMMA CatLayout_2 == \A a, b : Layout_2(a) /\ Layout_2(b) => Layout_2(a \o b)
  BY CatShape, Zenon DEF Layout_2

\* Layouts one after the other.
LEMMA CatLayout_3 == \A a, b : Layout_3(a) /\ Layout_3(b) => Layout_3(a \o b)
  BY CatShape, Zenon DEF Layout_3

\* A layout is one of the next level too.
LEMMA Wider_1 == \A s : Layout_0(s) => Layout_1(s)
  BY Zenon DEF Layout_0, Layout_1, Nested_1

\* A layout is one of the next level too.
LEMMA Wider_2 == \A s : Layout_1(s) => Layout_2(s)
  BY Wider_1, Zenon DEF Layout_1, Layout_2, Nested_1, Nested_2, Part_1, Part_2

\* A layout is one of the next level too.
LEMMA Wider_3 == \A s : Layout_2(s) => Layout_3(s)
  BY Wider_2, Zenon DEF Layout_2, Layout_3, Nested_2, Nested_3, Part_2, Part_3

\* A tuple of names.
IsTuple(names) == Len(names) \in Nat /\ DOMAIN names = 1..Len(names)

\* Calls of one kind, on numbers or strings, are a layout without parts.
LEMMA CallsLayout ==
    ASSUME NEW kind \in NumberKinds \cup {"string"}, NEW names, IsTuple(names)
    PROVE  Layout_0(Calls(kind, names))
  <1> DEFINE c == Calls(kind, names)
             n == Len(names)
  <1>1. n \in Nat /\ DOMAIN names = 1..n
    BY DEF IsTuple
  <1>2. \A i \in 1..n : c[i].kind = kind
    BY <1>1 DEF Calls
  <1>3. c = [i \in 1..n |-> c[i]]
    BY <1>1 DEF Calls
  <1> HIDE DEF c, n
  <1>4. c \in Seq({c[i] : i \in 1..n}) /\ DOMAIN c = 1..n
    BY <1>1, <1>3, SequenceOf
  <1>5. Shaped(c)
    BY <1>4 DEF Shaped, Elements
  <1>6. \A i \in 1..n : Scalar(c[i])
    <2>1. kind = "string" \/ kind \in NumberKinds
      OBVIOUS
    <2> QED
      BY <1>2, <2>1 DEF Scalar, IsString, IsNumber
  <1>7. Layout_0(c)
    BY <1>4, <1>5, <1>6 DEF Layout_0, Elements
  <1> QED
    BY <1>7 DEF c

\* The put_ calls by kind.
LEMMA Kinds ==
    ASSUME NEW names, IsTuple(names)
    PROVE  /\ Layout_0(U8(names)) /\ Layout_0(U16(names)) /\ Layout_0(U32(names))
           /\ Layout_0(U64(names)) /\ Layout_0(I64(names)) /\ Layout_0(Bool(names))
           /\ Layout_0(Str(names))
  BY CallsLayout DEF U8, U16, U32, U64, I64, Bool, Str, NumberKinds

\* One call is a layout.
LEMMA OneShape ==
    ASSUME NEW f
    PROVE  Shaped(<<f>>) /\ \A g \in Elements(<<f>>) : g = f
  BY DEF Shaped, Elements

\* An enumeration of one or two bytes is a layout.
LEMMA EnumLayout ==
    ASSUME NEW name, NEW width \in {1, 2}, NEW count \in Nat
    PROVE  Layout_0(Enum(name, width, count))
  <1> DEFINE f == [kind |-> "enum", name |-> name, width |-> width, count |-> count]
  <1>1. Scalar(f)
    BY DEF Scalar, IsNumber
  <1>2. Shaped(<<f>>) /\ \A g \in Elements(<<f>>) : g = f
    BY OneShape
  <1> HIDE DEF f
  <1>3. Layout_0(<<f>>)
    BY <1>1, <1>2, Zenon DEF Layout_0
  <1> QED
    BY <1>3, Zenon DEF Enum, f

\* A list of parts is a layout.
LEMMA ListLayout_1 ==
    ASSUME NEW name, NEW limit \in LimitNames, NEW fields, Layout_0(fields)
    PROVE  Layout_1(List(name, limit, fields))
  <1> DEFINE f == [kind |-> "list", name |-> name, limit |-> limit, fields |-> fields]
  <1>1. Nested_1(f)
    BY DEF Nested_1, Part_1
  <1>2. Shaped(<<f>>) /\ \A g \in Elements(<<f>>) : g = f
    BY OneShape
  <1> HIDE DEF f
  <1>3. Layout_1(<<f>>)
    BY <1>1, <1>2, Zenon DEF Layout_1
  <1> QED
    BY <1>3, Zenon DEF List, f

\* A member is a layout.
LEMMA StructLayout_1 ==
    ASSUME NEW name, NEW fields, Layout_0(fields)
    PROVE  Layout_1(Struct(name, fields))
  <1> DEFINE f == [kind |-> "struct", name |-> name, fields |-> fields]
  <1>1. Nested_1(f)
    BY DEF Nested_1, Part_1
  <1>2. Shaped(<<f>>) /\ \A g \in Elements(<<f>>) : g = f
    BY OneShape
  <1> HIDE DEF f
  <1>3. Layout_1(<<f>>)
    BY <1>1, <1>2, Zenon DEF Layout_1
  <1> QED
    BY <1>3, Zenon DEF Struct, f

\* A list of parts is a layout.
LEMMA ListLayout_2 ==
    ASSUME NEW name, NEW limit \in LimitNames, NEW fields, Layout_1(fields)
    PROVE  Layout_2(List(name, limit, fields))
  <1> DEFINE f == [kind |-> "list", name |-> name, limit |-> limit, fields |-> fields]
  <1>1. Nested_2(f)
    BY DEF Nested_2, Part_2
  <1>2. Shaped(<<f>>) /\ \A g \in Elements(<<f>>) : g = f
    BY OneShape
  <1> HIDE DEF f
  <1>3. Layout_2(<<f>>)
    BY <1>1, <1>2, Zenon DEF Layout_2
  <1> QED
    BY <1>3, Zenon DEF List, f

\* A member is a layout.
LEMMA StructLayout_2 ==
    ASSUME NEW name, NEW fields, Layout_1(fields)
    PROVE  Layout_2(Struct(name, fields))
  <1> DEFINE f == [kind |-> "struct", name |-> name, fields |-> fields]
  <1>1. Nested_2(f)
    BY DEF Nested_2, Part_2
  <1>2. Shaped(<<f>>) /\ \A g \in Elements(<<f>>) : g = f
    BY OneShape
  <1> HIDE DEF f
  <1>3. Layout_2(<<f>>)
    BY <1>1, <1>2, Zenon DEF Layout_2
  <1> QED
    BY <1>3, Zenon DEF Struct, f

\* A member is a layout.
LEMMA StructLayout_3 ==
    ASSUME NEW name, NEW fields, Layout_2(fields)
    PROVE  Layout_3(Struct(name, fields))
  <1> DEFINE f == [kind |-> "struct", name |-> name, fields |-> fields]
  <1>1. Nested_3(f)
    BY DEF Nested_3, Part_3
  <1>2. Shaped(<<f>>) /\ \A g \in Elements(<<f>>) : g = f
    BY OneShape
  <1> HIDE DEF f
  <1>3. Layout_3(<<f>>)
    BY <1>1, <1>2, Zenon DEF Layout_3
  <1> QED
    BY <1>3, Zenon DEF Struct, f

\* How many names the calls have.
LEMMA Tuple1 == \A a1 : IsTuple(<<a1>>)
  BY DEF IsTuple

\* Names in a row.
LEMMA Tuple2 == \A a1, a2 : IsTuple(<<a1, a2>>)
  BY DEF IsTuple

\* Names in a row.
LEMMA Tuple3 == \A a1, a2, a3 : IsTuple(<<a1, a2, a3>>)
  BY DEF IsTuple

\* Names in a row.
LEMMA Tuple4 == \A a1, a2, a3, a4 : IsTuple(<<a1, a2, a3, a4>>)
  BY DEF IsTuple

\* Names in a row.
LEMMA Tuple5 == \A a1, a2, a3, a4, a5 : IsTuple(<<a1, a2, a3, a4, a5>>)
  BY DEF IsTuple

\* Names in a row.
LEMMA Tuple6 == \A a1, a2, a3, a4, a5, a6 : IsTuple(<<a1, a2, a3, a4, a5, a6>>)
  BY DEF IsTuple

\* Names in a row.
LEMMA Tuple7 == \A a1, a2, a3, a4, a5, a6, a7 : IsTuple(<<a1, a2, a3, a4, a5, a6, a7>>)
  BY DEF IsTuple

\* Names in a row.
LEMMA Tuple8 == \A a1, a2, a3, a4, a5, a6, a7, a8 : IsTuple(<<a1, a2, a3, a4, a5, a6, a7, a8>>)
  BY DEF IsTuple

\* Names in a row.
LEMMA Tuple9 ==
    \A a1, a2, a3, a4, a5, a6, a7, a8, a9 :
        IsTuple(<<a1, a2, a3, a4, a5, a6, a7, a8, a9>>)
  BY DEF IsTuple

\* Names in a row.
LEMMA Tuple10 ==
    \A a1, a2, a3, a4, a5, a6, a7, a8, a9, a10 :
        IsTuple(<<a1, a2, a3, a4, a5, a6, a7, a8, a9, a10>>)
  BY DEF IsTuple

\* Names in a row.
LEMMA Tuple12 ==
    \A a1, a2, a3, a4, a5, a6, a7, a8, a9, a10, a11, a12 :
        IsTuple(<<a1, a2, a3, a4, a5, a6, a7, a8, a9, a10, a11, a12>>)
  BY DEF IsTuple

\* Names in a row.
LEMMA Tuple18 ==
    \A a1, a2, a3, a4, a5, a6, a7, a8, a9, a10, a11, a12, a13, a14, a15, a16, a17, a18 :
        IsTuple(<<a1, a2, a3, a4, a5, a6, a7, a8, a9, a10, a11, a12, a13, a14, a15, a16,
                  a17, a18>>)
  BY DEF IsTuple

\* Names in a row.
LEMMA Tuple42 ==
    \A a1, a2, a3, a4, a5, a6, a7, a8, a9, a10, a11, a12, a13, a14, a15, a16, a17, a18, a19,
       a20, a21, a22, a23, a24, a25, a26, a27, a28, a29, a30, a31, a32, a33, a34, a35, a36,
       a37, a38, a39, a40, a41, a42 :
        IsTuple(<<a1, a2, a3, a4, a5, a6, a7, a8, a9, a10, a11, a12, a13, a14, a15, a16,
                  a17, a18, a19, a20, a21, a22, a23, a24, a25, a26, a27, a28, a29, a30, a31,
                  a32, a33, a34, a35, a36, a37, a38, a39, a40, a41, a42>>)
  BY DEF IsTuple

\* The enumerations that are written.
LEMMA Enums ==
    \A name :
        /\ Layout_0(Enum(name, 1, 4))
        /\ Layout_0(Enum(name, 1, 7))
        /\ Layout_0(Enum(name, 1, 14))
        /\ Layout_0(Enum(name, 1, 29))
        /\ Layout_0(Enum(name, 2, 22))
  BY EnumLayout

\* The limits that lists are compared with.
LEMMA LimitsAre ==
    /\ "max_allowlist_entries" \in LimitNames
    /\ "max_capability_entries" \in LimitNames
    /\ "max_capability_entries_per_backend" \in LimitNames
    /\ "max_explanation_factors" \in LimitNames
    /\ "max_fallback_candidates" \in LimitNames
    /\ "max_model_bindings_per_backend" \in LimitNames
    /\ "max_ranked_candidates" \in LimitNames
    /\ "max_rejection_records" \in LimitNames
    /\ "max_requirement_entries" \in LimitNames
  BY DEF LimitNames

\* The same calls as layouts one level up.
LEMMA Kinds_1 ==
    ASSUME NEW names, IsTuple(names)
    PROVE  /\ Layout_1(U8(names)) /\ Layout_1(U16(names)) /\ Layout_1(U32(names))
           /\ Layout_1(U64(names)) /\ Layout_1(I64(names)) /\ Layout_1(Bool(names))
           /\ Layout_1(Str(names)) /\ Layout_0(Str(names))
  BY Kinds, Wider_1, Zenon

\* encode_hello is a layout without parts.
LEMMA encode_hello_Layout == Layout_0(encode_hello)
  BY Kinds, Tuple1, Tuple6, CatLayout_0, Zenon DEF encode_hello

\* encode_hello_ack is a layout without parts.
LEMMA encode_hello_ack_Layout == Layout_0(encode_hello_ack)
  BY Kinds, Tuple1, Tuple3, CatLayout_0, Zenon DEF encode_hello_ack

\* put_cost is a layout without parts.
LEMMA put_cost_Layout == Layout_0(put_cost)
  BY Kinds, Tuple1, Tuple2, Tuple4, Tuple6, Enums, CatLayout_0, Zenon DEF put_cost

\* put_backend is a layout whose parts nest one deep.
LEMMA put_backend_Layout == Layout_2(put_backend)
  BY Kinds, Tuple1, Tuple2, Tuple3, Tuple4, Tuple10, LimitsAre, ListLayout_2,
     StructLayout_1, Wider_1, Wider_2, CatLayout_1, CatLayout_2, put_cost_Layout, ZenonT(60) DEF
     put_backend

\* encode_backend_register is a layout whose parts nest two deep.
LEMMA encode_backend_register_Layout == Layout_3(encode_backend_register)
  BY Kinds, StructLayout_3, put_backend_Layout, Zenon DEF encode_backend_register

\* encode_backend_register_ack is a layout without parts.
LEMMA encode_backend_register_ack_Layout == Layout_0(encode_backend_register_ack)
  BY Kinds, Tuple1, Tuple2, CatLayout_0, Zenon DEF encode_backend_register_ack

\* encode_capability_publish is a layout whose parts have none.
LEMMA encode_capability_publish_Layout == Layout_1(encode_capability_publish)
  BY Kinds, Tuple1, Tuple2, Tuple5, Enums, LimitsAre, ListLayout_1, Wider_1, CatLayout_0,
     CatLayout_1, Zenon DEF encode_capability_publish

\* put_backend_evidence is a layout without parts.
LEMMA put_backend_evidence_Layout == \A states \in {3, 4, 5, 6} : Layout_0(put_backend_evidence(states))
  <1>1. \A states \in {3, 4, 5, 6} : Layout_0(Enum("state", 1, states))
    BY EnumLayout
  <1> QED
    BY <1>1, Kinds, Tuple2, Tuple5, EnumLayout, CatLayout_0, Zenon DEF put_backend_evidence

\* encode_health is a layout without parts.
LEMMA encode_health_Layout == Layout_0(encode_health)
  BY Kinds, put_backend_evidence_Layout, Zenon DEF encode_health

\* encode_availability is a layout without parts.
LEMMA encode_availability_Layout == Layout_0(encode_availability)
  BY Kinds, put_backend_evidence_Layout, Zenon DEF encode_availability

\* encode_readiness is a layout without parts.
LEMMA encode_readiness_Layout == Layout_0(encode_readiness)
  BY Kinds, put_backend_evidence_Layout, Zenon DEF encode_readiness

\* encode_residency is a layout without parts.
LEMMA encode_residency_Layout == Layout_0(encode_residency)
  BY Kinds, put_backend_evidence_Layout, Zenon DEF encode_residency

\* encode_capacity is a layout whose parts have none.
LEMMA encode_capacity_Layout == Layout_1(encode_capacity)
  BY Kinds, Tuple2, Tuple3, Tuple4, StructLayout_1, Wider_1, CatLayout_1,
     put_backend_evidence_Layout, Zenon DEF encode_capacity

\* encode_latency is a layout without parts.
LEMMA encode_latency_Layout == Layout_0(encode_latency)
  BY Kinds, Tuple1, Tuple2, Tuple3, Tuple8, CatLayout_0, Zenon DEF encode_latency

\* encode_cost is a layout without parts.
LEMMA encode_cost_Layout == Layout_0(encode_cost)
  BY Kinds, put_cost_Layout, Zenon DEF encode_cost

\* put_ids is a layout whose parts have none.
LEMMA put_ids_Layout == \A name : Layout_1(put_ids(name))
  BY Kinds, Tuple1, LimitsAre, ListLayout_1, Zenon DEF put_ids

\* put_requirements is a layout whose parts have none.
LEMMA put_requirements_Layout == Layout_1(put_requirements)
  <1> DEFINE a == List("required_capabilities", "max_requirement_entries", Str(<<"key">>) \o
                  Enum("minimum_state", 1, 7)) \o List("preferred_capabilities",
                  "max_requirement_entries", Str(<<"key">>)) \o
                  U8(<<"minimum_capability_evidence">>) \o U32(<<"min_context_tokens",
                  "max_output_tokens", "input_modalities", "output_modalities">>) \o
                  Bool(<<"structured_output", "json_schema", "tool_calling", "streaming",
                  "logprobs", "deterministic_seed">>) \o U32(<<"quality_floor">>) \o
                  put_ids("model_allowlist") \o put_ids("model_denylist") \o
                  put_ids("family_allowlist") \o put_ids("family_denylist")
             b == a \o put_ids("provider_allowlist") \o put_ids("provider_denylist") \o
                  put_ids("backend_allowlist") \o put_ids("backend_denylist") \o
                  Bool(<<"local_only", "offline_only", "remote_allowed">>) \o
                  List("required_localities", "max_allowlist_entries", Str(<<"key">>)) \o
                  List("denied_localities", "max_allowlist_entries", Str(<<"key">>)) \o
                  U8(<<"minimum_trust">>) \o Bool(<<"known_cost", "enforce_cost_ceiling">>)
                  \o Str(<<"maximum_cost.currency", "maximum_cost.basis">>)
             c == b \o I64(<<"maximum_cost.micros">>) \o U32(<<"max_latency_micros",
                  "deadline_micros">>) \o Bool(<<"slo", "available", "healthy", "ready",
                  "resident", "capacity", "reservation", "known_latency",
                  "known_compatibility">>) \o Str(<<"required_protocol">>) \o
                  U32(<<"required_protocol_version">>) \o U64(<<"affinity_model",
                  "affinity_provider", "affinity_backend">>) \o Bool(<<"same_model_family",
                  "same_provider", "same_backend", "context_locality">>) \o
                  U64(<<"sticky_family", "sticky_provider", "sticky_backend">>) \o
                  Bool(<<"allow_fallbacks">>) \o U8(<<"fallback_policy">>)
             d == c \o Bool(<<"allow_retry", "allow_reroute", "allow_model_switch",
                  "allow_provider_switch">>) \o U32(<<"max_attempts", "max_fallbacks">>)
  <1>1. put_requirements = d
    BY DEF put_requirements
  <1>2. Layout_1(a)
    BY Kinds_1, Tuple1, Tuple2, Tuple3, Tuple4, Tuple6, Tuple9, Enums, LimitsAre,
       ListLayout_1, CatLayout_0, CatLayout_1, put_ids_Layout, Zenon
  <1>3. Layout_1(b)
    <2> HIDE DEF a
    <2> QED
      BY <1>2, Kinds_1, Tuple1, Tuple2, Tuple3, Tuple4, Tuple6, Tuple9, Enums, LimitsAre,
         ListLayout_1, CatLayout_0, CatLayout_1, put_ids_Layout, Zenon
  <1>4. Layout_1(c)
    <2> HIDE DEF b
    <2> QED
      BY <1>3, Kinds_1, Tuple1, Tuple2, Tuple3, Tuple4, Tuple6, Tuple9, Enums, LimitsAre,
         ListLayout_1, CatLayout_0, CatLayout_1, put_ids_Layout, Zenon
  <1>5. Layout_1(d)
    <2> HIDE DEF c
    <2> QED
      BY <1>4, Kinds_1, Tuple1, Tuple2, Tuple3, Tuple4, Tuple6, Tuple9, Enums, LimitsAre,
         ListLayout_1, CatLayout_0, CatLayout_1, put_ids_Layout, Zenon
  <1> QED
    BY <1>1, <1>5

\* encode_route_request is a layout whose parts nest one deep.
LEMMA encode_route_request_Layout == Layout_2(encode_route_request)
  BY Kinds, Tuple2, Tuple18, StructLayout_2, Wider_1, Wider_2, CatLayout_2,
     put_requirements_Layout, Zenon DEF encode_route_request

\* put_authority is a layout without parts.
LEMMA put_authority_Layout == Layout_0(put_authority)
  BY Kinds, Tuple2, Tuple42, CatLayout_0, ZenonT(60) DEF put_authority

\* put_candidate_key is a layout without parts.
LEMMA put_candidate_key_Layout == Layout_0(put_candidate_key)
  BY Kinds, Tuple8, Zenon DEF put_candidate_key

\* put_decision is a layout whose parts nest one deep.
LEMMA put_decision_Layout == Layout_2(put_decision)
  BY Kinds, Tuple1, Tuple2, Tuple3, Tuple4, Tuple6, Enums, LimitsAre, ListLayout_1,
     ListLayout_2, StructLayout_1, Wider_1, Wider_2, CatLayout_0, CatLayout_1, CatLayout_2,
     put_authority_Layout, put_candidate_key_Layout, put_cost_Layout, ZenonT(60) DEF put_decision

\* encode_route_response is a layout whose parts nest two deep.
LEMMA encode_route_response_Layout == Layout_3(encode_route_response)
  BY Kinds, Tuple1, StructLayout_3, Wider_1, Wider_2, Wider_3, CatLayout_3, put_decision_Layout,
     Zenon DEF encode_route_response

\* encode_dispatch is a layout whose parts have none.
LEMMA encode_dispatch_Layout == Layout_1(encode_dispatch)
  BY Kinds, Tuple1, Tuple4, StructLayout_1, Wider_1, CatLayout_1, put_candidate_key_Layout, Zenon
     DEF encode_dispatch

\* encode_dispatch_result is a layout without parts.
LEMMA encode_dispatch_result_Layout == Layout_0(encode_dispatch_result)
  BY Kinds, Tuple1, Tuple2, Enums, CatLayout_0, Zenon DEF encode_dispatch_result

\* encode_error is a layout without parts.
LEMMA encode_error_Layout == Layout_0(encode_error)
  BY Kinds, Tuple1, CatLayout_0, Zenon DEF encode_error

\* encode_admin_request is a layout without parts.
LEMMA encode_admin_request_Layout == Layout_0(encode_admin_request)
  BY Kinds, Tuple1, Tuple5, Enums, CatLayout_0, Zenon DEF encode_admin_request

\* encode_admin_response is a layout without parts.
LEMMA encode_admin_response_Layout == Layout_0(encode_admin_response)
  BY Kinds, Tuple1, Tuple2, CatLayout_0, Zenon DEF encode_admin_response

\* write_meta is a layout without parts.
LEMMA write_meta_Layout == Layout_0(write_meta)
  BY Kinds, Tuple2, Tuple7, Tuple8, Tuple12, CatLayout_0, Zenon DEF write_meta

\* write_capability is a layout without parts.
LEMMA write_capability_Layout == Layout_0(write_capability)
  BY Kinds, Tuple1, Tuple2, Tuple5, Enums, CatLayout_0, Zenon DEF write_capability

\* write_profile is a layout whose parts have none.
LEMMA write_profile_Layout == Layout_1(write_profile)
  BY Kinds, Tuple2, LimitsAre, ListLayout_1, Wider_1, CatLayout_1, write_capability_Layout, Zenon
     DEF write_profile

\* write_model is a layout whose parts nest one deep.
LEMMA write_model_Layout == Layout_2(write_model)
  BY Kinds, Tuple1, Tuple2, Tuple5, StructLayout_2, Wider_1, Wider_2, CatLayout_2,
     write_profile_Layout, Zenon DEF write_model

\* write_cost is a layout without parts.
LEMMA write_cost_Layout == Layout_0(write_cost)
  BY Kinds, Tuple1, Tuple2, Tuple4, Tuple6, Enums, CatLayout_0, Zenon DEF write_cost

\* write_backend is a layout whose parts nest one deep.
LEMMA write_backend_Layout == Layout_2(write_backend)
  BY Kinds, Tuple1, Tuple2, Tuple3, Tuple10, LimitsAre, ListLayout_2, StructLayout_1,
     StructLayout_2, Wider_1, Wider_2, CatLayout_1, CatLayout_2, write_cost_Layout, write_profile_Layout,
     Zenon DEF write_backend

\* write_fenced is a layout without parts.
LEMMA write_fenced_Layout == Layout_0(write_fenced)
  BY Kinds, Tuple1, Tuple3, CatLayout_0, Zenon DEF write_fenced

\* write_candidate_key is a layout without parts.
LEMMA write_candidate_key_Layout == Layout_0(write_candidate_key)
  BY Kinds, Tuple8, Zenon DEF write_candidate_key

\* write_authority is a layout without parts.
LEMMA write_authority_Layout == Layout_0(write_authority)
  BY Kinds, Tuple2, Tuple42, CatLayout_0, ZenonT(60) DEF write_authority

\* write_route is a layout whose parts have none.
LEMMA write_route_Layout == Layout_1(write_route)
  BY Kinds, Tuple1, Tuple2, Tuple4, LimitsAre, ListLayout_1, StructLayout_1, Wider_1,
     CatLayout_1, write_authority_Layout, write_candidate_key_Layout, write_cost_Layout, Zenon DEF write_route

\* decode_hello makes the calls of encode_hello.
LEMMA encode_hello_Same == decode_hello = encode_hello
  BY DEF encode_hello, decode_hello

\* decode_hello_ack makes the calls of encode_hello_ack.
LEMMA encode_hello_ack_Same == decode_hello_ack = encode_hello_ack
  BY DEF encode_hello_ack, decode_hello_ack

\* get_cost makes the calls of put_cost.
LEMMA put_cost_Same == get_cost = put_cost
  BY DEF put_cost, get_cost

\* get_backend makes the calls of put_backend.
LEMMA put_backend_Same == get_backend = put_backend
  BY put_cost_Same, Zenon DEF put_backend, get_backend

\* decode_backend_register makes the calls of encode_backend_register.
LEMMA encode_backend_register_Same == decode_backend_register = encode_backend_register
  BY put_backend_Same, Zenon DEF encode_backend_register, decode_backend_register

\* decode_backend_register_ack makes the calls of encode_backend_register_ack.
LEMMA encode_backend_register_ack_Same == decode_backend_register_ack = encode_backend_register_ack
  BY DEF encode_backend_register_ack, decode_backend_register_ack

\* decode_capability_publish makes the calls of encode_capability_publish.
LEMMA encode_capability_publish_Same == decode_capability_publish = encode_capability_publish
  BY DEF encode_capability_publish, decode_capability_publish

\* get_backend_evidence makes the calls of put_backend_evidence.
LEMMA put_backend_evidence_Same == \A states : get_backend_evidence(states) = put_backend_evidence(states)
  BY DEF put_backend_evidence, get_backend_evidence

\* decode_health makes the calls of encode_health.
LEMMA encode_health_Same == decode_health = encode_health
  BY put_backend_evidence_Same, Zenon DEF encode_health, decode_health

\* decode_availability makes the calls of encode_availability.
LEMMA encode_availability_Same == decode_availability = encode_availability
  BY put_backend_evidence_Same, Zenon DEF encode_availability, decode_availability

\* decode_readiness makes the calls of encode_readiness.
LEMMA encode_readiness_Same == decode_readiness = encode_readiness
  BY put_backend_evidence_Same, Zenon DEF encode_readiness, decode_readiness

\* decode_residency makes the calls of encode_residency.
LEMMA encode_residency_Same == decode_residency = encode_residency
  BY put_backend_evidence_Same, Zenon DEF encode_residency, decode_residency

\* decode_capacity makes the calls of encode_capacity.
LEMMA encode_capacity_Same == decode_capacity = encode_capacity
  BY put_backend_evidence_Same, Zenon DEF encode_capacity, decode_capacity

\* decode_latency makes the calls of encode_latency.
LEMMA encode_latency_Same == decode_latency = encode_latency
  BY DEF encode_latency, decode_latency

\* decode_cost makes the calls of encode_cost.
LEMMA encode_cost_Same == decode_cost = encode_cost
  BY put_cost_Same, Zenon DEF encode_cost, decode_cost

\* get_ids makes the calls of put_ids.
LEMMA put_ids_Same == \A name : get_ids(name) = put_ids(name)
  BY DEF put_ids, get_ids

\* get_requirements makes the calls of put_requirements.
LEMMA put_requirements_Same == get_requirements = put_requirements
  BY put_ids_Same, Zenon DEF put_requirements, get_requirements

\* decode_route_request makes the calls of encode_route_request.
LEMMA encode_route_request_Same == decode_route_request = encode_route_request
  BY put_requirements_Same, Zenon DEF encode_route_request, decode_route_request

\* get_authority makes the calls of put_authority.
LEMMA put_authority_Same == get_authority = put_authority
  BY DEF put_authority, get_authority

\* get_candidate_key makes the calls of put_candidate_key.
LEMMA put_candidate_key_Same == get_candidate_key = put_candidate_key
  BY DEF put_candidate_key, get_candidate_key

\* get_decision makes the calls of put_decision.
LEMMA put_decision_Same == get_decision = put_decision
  BY put_authority_Same, put_candidate_key_Same, put_cost_Same, Zenon DEF put_decision,
     get_decision

\* decode_route_response makes the calls of encode_route_response.
LEMMA encode_route_response_Same == decode_route_response = encode_route_response
  BY put_decision_Same, Zenon DEF encode_route_response, decode_route_response

\* decode_dispatch makes the calls of encode_dispatch.
LEMMA encode_dispatch_Same == decode_dispatch = encode_dispatch
  BY put_candidate_key_Same, Zenon DEF encode_dispatch, decode_dispatch

\* decode_dispatch_result makes the calls of encode_dispatch_result.
LEMMA encode_dispatch_result_Same == decode_dispatch_result = encode_dispatch_result
  BY DEF encode_dispatch_result, decode_dispatch_result

\* decode_error makes the calls of encode_error.
LEMMA encode_error_Same == decode_error = encode_error
  BY DEF encode_error, decode_error

\* decode_admin_request makes the calls of encode_admin_request.
LEMMA encode_admin_request_Same == decode_admin_request = encode_admin_request
  BY DEF encode_admin_request, decode_admin_request

\* decode_admin_response makes the calls of encode_admin_response.
LEMMA encode_admin_response_Same == decode_admin_response = encode_admin_response
  BY DEF encode_admin_response, decode_admin_response

\* read_meta makes the calls of write_meta.
LEMMA write_meta_Same == read_meta = write_meta
  BY DEF write_meta, read_meta

\* read_capability makes the calls of write_capability.
LEMMA write_capability_Same == read_capability = write_capability
  BY DEF write_capability, read_capability

\* read_profile makes the calls of write_profile.
LEMMA write_profile_Same == read_profile = write_profile
  BY write_capability_Same, Zenon DEF write_profile, read_profile

\* read_model makes the calls of write_model.
LEMMA write_model_Same == read_model = write_model
  BY write_profile_Same, Zenon DEF write_model, read_model

\* read_cost makes the calls of write_cost.
LEMMA write_cost_Same == read_cost = write_cost
  BY DEF write_cost, read_cost

\* read_backend makes the calls of write_backend.
LEMMA write_backend_Same == read_backend = write_backend
  BY write_cost_Same, write_profile_Same, Zenon DEF write_backend, read_backend

\* read_fenced makes the calls of write_fenced.
LEMMA write_fenced_Same == read_fenced = write_fenced
  BY DEF write_fenced, read_fenced

\* read_candidate_key makes the calls of write_candidate_key.
LEMMA write_candidate_key_Same == read_candidate_key = write_candidate_key
  BY DEF write_candidate_key, read_candidate_key

\* read_authority makes the calls of write_authority.
LEMMA write_authority_Same == read_authority = write_authority
  BY DEF write_authority, read_authority

\* read_route makes the calls of write_route.
LEMMA write_route_Same == read_route = write_route
  BY write_authority_Same, write_candidate_key_Same, write_cost_Same, Zenon DEF write_route,
     read_route

\* Every message has a layout that nests at most three deep, and its reader makes the
\* calls of its writer: what nothing but the text of the two functions makes true.
THEOREM MessageLayout ==
    ASSUME NEW m \in Messages
    PROVE  Layout_3(m.put) /\ m.get = m.put
  <1>1. CASE m = Message(1, encode_hello, decode_hello)
    BY <1>1, encode_hello_Layout, encode_hello_Same, Wider_1, Wider_2, Wider_3 DEF Message
  <1>2. CASE m = Message(2, encode_hello_ack, decode_hello_ack)
    BY <1>2, encode_hello_ack_Layout, encode_hello_ack_Same, Wider_1, Wider_2, Wider_3 DEF Message
  <1>3. CASE m = Message(3, encode_backend_register, decode_backend_register)
    BY <1>3, encode_backend_register_Layout, encode_backend_register_Same DEF Message
  <1>4. CASE m = Message(4, encode_backend_register_ack, decode_backend_register_ack)
    BY <1>4, encode_backend_register_ack_Layout, encode_backend_register_ack_Same, Wider_1,
       Wider_2, Wider_3 DEF Message
  <1>5. CASE m = Message(5, encode_capability_publish, decode_capability_publish)
    BY <1>5, encode_capability_publish_Layout, encode_capability_publish_Same, Wider_2, Wider_3 DEF
       Message
  <1>6. CASE m = Message(6, encode_health, decode_health)
    BY <1>6, encode_health_Layout, encode_health_Same, Wider_1, Wider_2, Wider_3 DEF Message
  <1>7. CASE m = Message(7, encode_availability, decode_availability)
    BY <1>7, encode_availability_Layout, encode_availability_Same, Wider_1, Wider_2, Wider_3 DEF
       Message
  <1>8. CASE m = Message(8, encode_readiness, decode_readiness)
    BY <1>8, encode_readiness_Layout, encode_readiness_Same, Wider_1, Wider_2, Wider_3 DEF Message
  <1>9. CASE m = Message(9, encode_residency, decode_residency)
    BY <1>9, encode_residency_Layout, encode_residency_Same, Wider_1, Wider_2, Wider_3 DEF Message
  <1>10. CASE m = Message(10, encode_capacity, decode_capacity)
    BY <1>10, encode_capacity_Layout, encode_capacity_Same, Wider_2, Wider_3 DEF Message
  <1>11. CASE m = Message(11, encode_latency, decode_latency)
    BY <1>11, encode_latency_Layout, encode_latency_Same, Wider_1, Wider_2, Wider_3 DEF Message
  <1>12. CASE m = Message(12, encode_cost, decode_cost)
    BY <1>12, encode_cost_Layout, encode_cost_Same, Wider_1, Wider_2, Wider_3 DEF Message
  <1>13. CASE m = Message(13, encode_route_request, decode_route_request)
    BY <1>13, encode_route_request_Layout, encode_route_request_Same, Wider_3 DEF Message
  <1>14. CASE m = Message(14, encode_route_response, decode_route_response)
    BY <1>14, encode_route_response_Layout, encode_route_response_Same DEF Message
  <1>15. CASE m = Message(15, encode_dispatch, decode_dispatch)
    BY <1>15, encode_dispatch_Layout, encode_dispatch_Same, Wider_2, Wider_3 DEF Message
  <1>16. CASE m = Message(16, encode_dispatch_result, decode_dispatch_result)
    BY <1>16, encode_dispatch_result_Layout, encode_dispatch_result_Same, Wider_1, Wider_2, Wider_3
       DEF Message
  <1>17. CASE m = Message(22, encode_error, decode_error)
    BY <1>17, encode_error_Layout, encode_error_Same, Wider_1, Wider_2, Wider_3 DEF Message
  <1>18. CASE m = Message(25, encode_admin_request, decode_admin_request)
    BY <1>18, encode_admin_request_Layout, encode_admin_request_Same, Wider_1, Wider_2, Wider_3 DEF
       Message
  <1>19. CASE m = Message(26, encode_admin_response, decode_admin_response)
    BY <1>19, encode_admin_response_Layout, encode_admin_response_Same, Wider_1, Wider_2, Wider_3
       DEF Message
  <1> QED
    BY <1>1, <1>2, <1>3, <1>4, <1>5, <1>6, <1>7, <1>8, <1>9, <1>10, <1>11, <1>12, <1>13,
       <1>14, <1>15, <1>16, <1>17, <1>18, <1>19 DEF Messages

-----------------------------------------------------------------------------
(***************************************************************************)
(* Checksums.                                                              *)
(***************************************************************************)
Plus(a, b) == a + b

Summed(s, n, u) ==
    /\ u \in [0..n -> Int] /\ u[0] = 0 /\ Sum(s) = u[n]
    /\ \A i \in 1..n : u[i] = Plus(u[i - 1], s[i])

\* Sum adds one number after the other.
LEMMA SumSteps ==
    ASSUME NEW s \in Seq(Int)
    PROVE  \E u : Summed(s, Len(s), u)
  <1> DEFINE n == Len(s)
             g == [i \in 1..n |-> [v \in Int |-> Plus(v, s[i])]]
  <1>1. n \in Nat /\ 0 \in Int /\ s \in [1..n -> Int]
    OBVIOUS
  <1>2. ASSUME NEW v \in Int, NEW i \in 1..n PROVE Plus(v, s[i]) \in Int
    BY <1>1 DEF Plus
  <1>3. g \in Steps(n, Int)
    BY <1>2 DEF Steps
  <1>4. PICK f : Recursion(n, Int, 0, g, f)
    <2> HIDE DEF g, n
    <2> QED
      BY <1>1, <1>3, RecursionExists
  <1>5. f = [i \in 0..n |-> IF i = 0 THEN 0 ELSE Plus(f[i - 1], s[i])]
    <2> HIDE DEF n
    <2>1. f \in [0..n -> Int] /\ f[0] = 0 /\ \A i \in 1..n : f[i] = g[i][f[i - 1]]
      BY <1>4 DEF Recursion
    <2>2. ASSUME NEW i \in 1..n PROVE g[i][f[i - 1]] = Plus(f[i - 1], s[i])
      <3>1. f[i - 1] \in Int
        BY <1>1, <2>1
      <3> QED
        BY <3>1
    <2> HIDE DEF g
    <2>3. \A i \in 0..n : f[i] = IF i = 0 THEN 0 ELSE Plus(f[i - 1], s[i])
      BY <1>1, <2>1, <2>2
    <2> QED
      BY <2>1, <2>3
  <1> HIDE DEF g
  <1>6. PICK u : u = [i \in 0..n |-> IF i = 0 THEN 0 ELSE Plus(u[i - 1], s[i])]
                 /\ Sum(s) = u[n]
    BY <1>5 DEF Sum, Plus
  <1> HIDE DEF n
  <1>7. u[0] = 0 /\ \A i \in 1..n : u[i] = Plus(u[i - 1], s[i])
    BY <1>1, <1>6
  <1>8. \A i \in 0..n : u[i] \in Int
    <2> DEFINE T == {i \in 0..n : u[i] \in Int}
    <2>1. 0 \in T
      BY <1>1, <1>7
    <2>2. ASSUME NEW k \in 0..(n - 1), k \in T PROVE k + 1 \in T
      <3>1. k + 1 \in 1..n /\ (k + 1) - 1 = k /\ u[k] \in Int /\ k + 1 \in 0..n
        BY <1>1, <2>2
      <3>2. u[k + 1] = Plus(u[k], s[k + 1])
        BY <1>7, <3>1
      <3>3. u[k + 1] \in Int
        BY <1>2, <3>1, <3>2
      <3> QED
        BY <3>1, <3>3
    <2> HIDE DEF T
    <2>3. \A k \in 0..(n - 1) : k \in T => k + 1 \in T
      BY <2>2
    <2>4. \A k \in 0..n : k \in T
      BY <1>1, <2>1, <2>3, SetInduction
    <2> QED
      BY <2>4 DEF T
  <1>9. u \in [0..n -> Int]
    BY <1>6, <1>8
  <1>10. Summed(s, n, u)
    BY <1>6, <1>7, <1>9 DEF Summed
  <1> QED
    BY <1>10 DEF n

\* A sum of integers is one.
LEMMA SumInt == \A s \in Seq(Int) : Sum(s) \in Int
  <1> SUFFICES ASSUME NEW s \in Seq(Int) PROVE Sum(s) \in Int
    OBVIOUS
  <1>1. PICK u : Summed(s, Len(s), u)
    BY SumSteps
  <1>2. Len(s) \in 0..Len(s)
    OBVIOUS
  <1> QED
    BY <1>1, <1>2 DEF Summed

\* Two sequences that differ in one place; what changing one number does to a sum.
DiffersAt(s, t, q) ==
    /\ Len(t) = Len(s) /\ q \in 1..Len(s) /\ \A i \in 1..Len(s) : i # q => t[i] = s[i]

\* Adding d to one of two numbers adds it to their sum.
LEMMA PlusShift == \A a, b, c, d \in Int : c = Plus(a, d) => Plus(c, b) = Plus(Plus(a, b), d)
  BY DEF Plus

\* A sum, by what one of its numbers differs.
LEMMA PlusChange == \A a, b, c \in Int : Plus(a, c) = Plus(Plus(a, b), c - b)
  BY DEF Plus

\* Changing one number changes the sum by as much.
LEMMA SumChanges ==
    ASSUME NEW s \in Seq(Int), NEW t \in Seq(Int), NEW q, DiffersAt(s, t, q)
    PROVE  Sum(t) = Sum(s) + (t[q] - s[q])
  <1> DEFINE n == Len(s)
             d == t[q] - s[q]
  <1>1. n \in Nat /\ Len(t) = n /\ q \in 1..n /\ \A i \in 1..n : i # q => t[i] = s[i]
    BY DEF DiffersAt
  <1>2. \A i \in 1..n : s[i] \in Int /\ t[i] \in Int
    BY <1>1
  <1>3. d \in Int
    BY <1>1, <1>2
  <1>4. PICK u : Summed(s, n, u)
    BY SumSteps
  <1>5. PICK w : Summed(t, n, w)
    BY <1>1, SumSteps
  <1> HIDE DEF n
  <1>6. \A i \in 0..n : u[i] \in Int /\ w[i] \in Int
    BY <1>4, <1>5 DEF Summed
  <1> DEFINE T == {i \in 0..n : w[i] = IF i < q THEN u[i] ELSE Plus(u[i], d)}
  <1>7. 0 \in T
    <2>1. u[0] = 0 /\ w[0] = 0 /\ 0 < q /\ 0 \in 0..n
      BY <1>1, <1>4, <1>5 DEF Summed
    <2> QED
      BY <2>1
  <1>8. ASSUME NEW k \in 0..(n - 1), k \in T PROVE k + 1 \in T
    <2>1. k + 1 \in 1..n /\ (k + 1) - 1 = k /\ k + 1 \in 0..n /\ k \in 0..n
      BY <1>1
    <2>2. u[k + 1] = Plus(u[k], s[k + 1]) /\ w[k + 1] = Plus(w[k], t[k + 1])
      BY <1>4, <1>5, <2>1 DEF Summed
    <2>3. u[k] \in Int /\ w[k] \in Int /\ s[k + 1] \in Int /\ t[k + 1] \in Int
      BY <1>2, <1>6, <2>1
    <2>4. w[k] = IF k < q THEN u[k] ELSE Plus(u[k], d)
      BY <1>8
    <2>5. CASE k + 1 < q
      <3>1. k < q /\ k + 1 # q
        BY <1>1, <2>5
      <3>2. w[k + 1] = u[k + 1]
        BY <1>1, <2>1, <2>2, <2>4, <3>1, Zenon
      <3> QED
        BY <2>1, <2>5, <3>2
    <2>6. CASE k + 1 = q
      <3>1. k < q
        BY <2>6
      <3>2. w[k + 1] = Plus(u[k], t[k + 1]) /\ d = t[k + 1] - s[k + 1]
        BY <2>2, <2>4, <2>6, <3>1
      <3>3. w[k + 1] = Plus(u[k + 1], d)
        <4>1. Plus(u[k], t[k + 1]) = Plus(Plus(u[k], s[k + 1]), t[k + 1] - s[k + 1])
          BY <2>3, PlusChange
        <4> QED
          BY <2>2, <3>2, <4>1
      <3>4. ~(k + 1 < q)
        BY <1>1, <2>6
      <3> QED
        BY <2>1, <3>3, <3>4
    <2>7. CASE ~(k + 1 < q) /\ k + 1 # q
      <3>1. ~(k < q)
        BY <1>1, <2>7
      <3>2. w[k] = Plus(u[k], d) /\ t[k + 1] = s[k + 1]
        BY <1>1, <2>1, <2>4, <2>7, <3>1
      <3>3. w[k + 1] = Plus(u[k + 1], d)
        <4> HIDE DEF d
        <4>1. Plus(w[k], s[k + 1]) = Plus(Plus(u[k], s[k + 1]), d)
          BY <1>3, <2>3, <3>2, PlusShift
        <4> QED
          BY <2>2, <3>2, <4>1
      <3> QED
        BY <2>1, <2>7, <3>3
    <2> QED
      BY <2>5, <2>6, <2>7
  <1>9. n \in T
    <2> HIDE DEF T
    <2>1. \A k \in 0..(n - 1) : k \in T => k + 1 \in T
      BY <1>8
    <2>2. \A k \in 0..n : k \in T
      BY <1>1, <1>7, <2>1, SetInduction
    <2> QED
      BY <1>1, <2>2
  <1>10. w[n] = Plus(u[n], d)
    BY <1>1, <1>9
  <1> QED
    BY <1>4, <1>5, <1>10 DEF Summed, Plus

Cell(b, i) == 64 * (b - 1) + i
Blocks(bs) == [b \in 1..(Len(bs) \div 64 + 1) |-> Sum(Block(bs, b))]
IsBlock(bs, b, s) ==
    s \in Seq(Int) /\ Len(s) = 64 /\ \A i \in 1..64 : s[i] = Digit(bs, Cell(b, i))
IsBlocks(bs, s) ==
    /\ s \in Seq(Int) /\ Len(s) = Len(bs) \div 64 + 1 /\ Sum(s) \in Int
    /\ \A b \in 1..Len(s) : s[b] = Sum(Block(bs, b))

\* Where a byte is: the block it is in, and its place there.
LEMMA BlockCount == \A n \in Nat : n \div 64 + 1 \in Nat
  OBVIOUS

\* Every byte lies in one cell of one block.
LEMMA Place64 ==
    ASSUME NEW n \in Nat, NEW p \in 1..n
    PROVE  \E q \in 1..(n \div 64 + 1), i \in 1..64 : Cell(q, i) = p
  <1>1. PICK k : k \in Nat /\ k = p - 1 /\ k < n
    OBVIOUS
  <1>2. PICK u, v : u = k \div 64 /\ v = n \div 64
    OBVIOUS
  <1>3. u \in Nat /\ 64 * u <= k /\ k < 64 * u + 64
    BY <1>1, <1>2
  <1>4. v \in Nat /\ 64 * v <= n /\ n < 64 * v + 64
    BY <1>2
  <1>5. u <= v
    BY <1>1, <1>3, <1>4
  <1>6. u + 1 \in 1..(v + 1) /\ k - 64 * u + 1 \in 1..64
    BY <1>1, <1>3, <1>4, <1>5
  <1>7. Cell(u + 1, k - 64 * u + 1) = p
    BY <1>1, <1>3 DEF Cell
  <1> QED
    BY <1>2, <1>6, <1>7

\* And in no other.
LEMMA OnePlace ==
    ASSUME NEW c \in Nat \ {0}, NEW q \in Nat \ {0}, NEW j \in 1..64, NEW i \in 1..64,
           Cell(c, j) = Cell(q, i)
    PROVE  c = q /\ j = i
  <1>1. 64 * c + j = 64 * q + i
    BY DEF Cell
  <1>2. ~(c < q) /\ ~(q < c)
    BY <1>1
  <1>3. c = q
    BY <1>2
  <1> QED
    BY <1>1, <1>3

\* Cells are numbered from one.
LEMMA PlaceIn == \A b \in Nat \ {0} : \A i \in 1..64 : Cell(b, i) \in Nat \ {0}
  BY DEF Cell

\* A function on 1..n is a sequence.
LEMMA SeqOf == \A S : \A n \in Nat : \A s \in [1..n -> S] : s \in Seq(S) /\ Len(s) = n
  OBVIOUS

\* A digit is a number.
LEMMA DigitIn ==
    ASSUME NEW bs \in Seq(Byte), NEW k \in Nat \ {0}
    PROVE  Digit(bs, k) \in Int
  <1>1. CASE k <= Len(bs)
    <2>1. bs[k] \in Byte
      BY <1>1
    <2> QED
      BY <1>1, <2>1, ByteIs DEF Digit
  <1>2. CASE ~(k <= Len(bs))
    BY <1>2 DEF Digit
  <1> QED
    BY <1>1, <1>2

\* A block is 64 numbers.
LEMMA BlockIn ==
    ASSUME NEW bs \in Seq(Byte), NEW b \in Nat \ {0}
    PROVE  IsBlock(bs, b, Block(bs, b))
  <1> DEFINE s == Block(bs, b)
  <1>1. s = [i \in 1..64 |-> s[i]] /\ \A i \in 1..64 : s[i] = Digit(bs, Cell(b, i))
    BY DEF Block, Cell
  <1> HIDE DEF s
  <1>2. \A i \in 1..64 : Cell(b, i) \in Nat \ {0}
    BY PlaceIn
  <1>3. \A i \in 1..64 : s[i] \in Int
    <2> TAKE i \in 1..64
    <2>1. Digit(bs, Cell(b, i)) \in Int
      BY <1>2, DigitIn
    <2> QED
      BY <1>1, <2>1
  <1>4. s \in [1..64 -> Int]
    BY <1>1, <1>3
  <1>5. s \in Seq(Int) /\ Len(s) = 64
    <2>1. PICK n : n \in Nat /\ n = 64
      OBVIOUS
    <2>2. s \in [1..n -> Int]
      BY <1>4, <2>1
    <2>3. s \in Seq(Int) /\ Len(s) = n
      BY <2>1, <2>2, SeqOf
    <2> QED
      BY <2>1, <2>3
  <1>6. IsBlock(bs, b, s)
    BY <1>1, <1>5 DEF IsBlock
  <1> QED
    BY <1>6 DEF s

\* The sums of the blocks.
LEMMA BlocksIn ==
    ASSUME NEW bs \in Seq(Byte)
    PROVE  IsBlocks(bs, Blocks(bs))
  <1> DEFINE s == Blocks(bs)
             n == Len(bs) \div 64 + 1
  <1>1. n \in Nat
    <2>1. Len(bs) \in Nat
      OBVIOUS
    <2> QED
      BY <2>1, BlockCount
  <1>2. s = [b \in 1..n |-> s[b]] /\ \A b \in 1..n : s[b] = Sum(Block(bs, b))
    BY DEF Blocks
  <1> HIDE DEF s, n
  <1>3. \A b \in 1..n : s[b] \in Int
    <2> TAKE b \in 1..n
    <2>1. b \in Nat \ {0}
      BY <1>1
    <2>2. Block(bs, b) \in Seq(Int)
      BY <2>1, BlockIn DEF IsBlock
    <2>3. Sum(Block(bs, b)) \in Int
      BY <2>2, SumInt
    <2> QED
      BY <1>2, <2>3
  <1>4. s \in [1..n -> Int]
    BY <1>2, <1>3
  <1>5. s \in Seq(Int) /\ Len(s) = n
    BY <1>1, <1>4
  <1>6. Sum(s) \in Int
    BY <1>5, SumInt
  <1>7. Len(s) = Len(bs) \div 64 + 1
    BY <1>5 DEF n
  <1>8. IsBlocks(bs, s)
    BY <1>2, <1>5, <1>6, <1>7, Zenon DEF IsBlocks
  <1> QED
    BY <1>8 DEF s

\* The checksum, from the blocks.
LEMMA CrcIs == \A bs : crc32c(bs) = Sum(Blocks(bs)) % 65521
  BY SMT DEF crc32c, Blocks

\* A checksum is below 2^31.
LEMMA Remainder == \A x \in Int : x % 65521 \in Nat /\ x % 65521 < 2147483648
  BY SMT

\* A change of less than a byte changes the remainder.
LEMMA RemainderChanges ==
    \A x, d \in Int : d # 0 /\ d >= -255 /\ d <= 255 => x % 65521 # (x + d) % 65521
  BY SMT

\* A checksum fits its four bytes.
LEMMA CrcIn == \A bs \in Seq(Byte) : crc32c(bs) \in 0..Huge
  <1> SUFFICES ASSUME NEW bs \in Seq(Byte) PROVE crc32c(bs) \in 0..Huge
    OBVIOUS
  <1>1. Sum(Blocks(bs)) \in Int
    BY BlocksIn DEF IsBlocks
  <1>2. crc32c(bs) \in Nat /\ crc32c(bs) < 2147483648
    BY <1>1, CrcIs, Remainder, SMT
  <1>3. crc32c(bs) <= Huge
    BY <1>2, HugeIs, SMT
  <1> QED
    BY <1>2, <1>3, HugeNat, SMT

\* The one property of CRC-32C that the codecs use.
LEMMA CrcChanges ==
    ASSUME NEW a \in Seq(Byte), NEW b \in Seq(Byte), NEW p, DiffersAt(a, b, p), a[p] # b[p]
    PROVE  crc32c(a) # crc32c(b)
  <1> DEFINE n == Len(a) \div 64 + 1
  <1>1. Len(a) \in Nat /\ Len(b) = Len(a) /\ p \in 1..Len(a)
        /\ \A k \in 1..Len(a) : k # p => b[k] = a[k]
    BY DEF DiffersAt
  <1>2. n \in Nat
    BY <1>1, BlockCount
  <1>2a. PICK q \in 1..n, i \in 1..64 : Cell(q, i) = p
    <2>1. PICK l : l = Len(a)
      OBVIOUS
    <2>2. l \in Nat /\ p \in 1..l /\ n = l \div 64 + 1
      BY <1>1, <2>1
    <2> HIDE DEF n
    <2> QED
      BY <2>2, Place64
  <1>3. a[p] \in Int /\ b[p] \in Int /\ a[p] <= 255 /\ a[p] >= 0 /\ b[p] <= 255 /\ b[p] >= 0
    <2>1. a[p] \in Byte /\ b[p] \in Byte
      BY <1>1
    <2> QED
      BY <2>1, ByteIs
  <1> HIDE DEF n
  <1>4. ASSUME NEW k \in Nat \ {0}, k # p PROVE Digit(b, k) = Digit(a, k)
    <2>2. CASE k <= Len(a)
      <3>1. k \in 1..Len(a)
        BY <1>1, <2>2
      <3> QED
        BY <1>1, <1>4, <2>2, <3>1 DEF Digit
    <2>3. CASE ~(k <= Len(a))
      BY <1>1, <2>3 DEF Digit
    <2> QED
      BY <2>2, <2>3
  <1>0. \A c \in 1..n : c \in Nat \ {0}
    BY <1>2
  <1>5. ASSUME NEW c \in 1..n, c # q PROVE Sum(Block(b, c)) = Sum(Block(a, c))
    <2>0. IsBlock(a, c, Block(a, c)) /\ IsBlock(b, c, Block(b, c))
      BY <1>0, BlockIn
    <2>2. ASSUME NEW j \in 1..64 PROVE Block(b, c)[j] = Block(a, c)[j]
      <3>1. Cell(c, j) # p
        BY <1>0, <1>2a, <1>5, OnePlace
      <3>2. Digit(b, Cell(c, j)) = Digit(a, Cell(c, j))
        <4>1. Cell(c, j) \in Nat \ {0}
          BY <1>0, PlaceIn
        <4> QED
          BY <1>4, <3>1, <4>1
      <3> QED
        BY <2>0, <3>2, ZenonT(60) DEF IsBlock
    <2>3. /\ Block(a, c) \in Seq(Int) /\ Len(Block(a, c)) = 64
          /\ Block(b, c) \in Seq(Int) /\ Len(Block(b, c)) = 64
      BY <2>0 DEF IsBlock
    <2>4. Block(b, c) = Block(a, c)
      <3>1. PICK s : s = Block(a, c)
        OBVIOUS
      <3>2. PICK t : t = Block(b, c)
        OBVIOUS
      <3>3. s \in Seq(Int) /\ t \in Seq(Int) /\ Len(s) = Len(t)
            /\ \A j \in 1..Len(s) : s[j] = t[j]
        BY <2>2, <2>3, <3>1, <3>2
      <3>4. s = t
        BY <3>3, SameSeq
      <3> QED
        BY <3>1, <3>2, <3>4
    <2> QED
      BY <2>4
  <1>6. Sum(Block(b, q)) = Sum(Block(a, q)) + (b[p] - a[p])
    <2>0. IsBlock(a, q, Block(a, q)) /\ IsBlock(b, q, Block(b, q))
      BY <1>0, BlockIn
    <2>1. /\ Block(a, q) \in Seq(Int) /\ Len(Block(a, q)) = 64
          /\ Block(b, q) \in Seq(Int) /\ Len(Block(b, q)) = 64
          /\ \A j \in 1..64 : /\ Block(a, q)[j] = Digit(a, Cell(q, j))
                              /\ Block(b, q)[j] = Digit(b, Cell(q, j))
      BY <2>0 DEF IsBlock
    <2>2. Block(a, q)[i] = a[p] /\ Block(b, q)[i] = b[p]
      <3>1. Digit(a, p) = a[p] /\ Digit(b, p) = b[p]
        BY <1>1 DEF Digit
      <3> QED
        BY <1>2a, <2>1, <3>1
    <2>3. ASSUME NEW j \in 1..64, j # i PROVE Block(b, q)[j] = Block(a, q)[j]
      <3>1. Cell(q, j) # p
        BY <1>0, <1>2a, <2>3, OnePlace
      <3>2. Digit(b, Cell(q, j)) = Digit(a, Cell(q, j))
        <4>1. Cell(q, j) \in Nat \ {0}
          BY <1>0, PlaceIn
        <4> QED
          BY <1>4, <3>1, <4>1
      <3> QED
        BY <2>1, <3>2, ZenonT(60)
    <2>4. DiffersAt(Block(a, q), Block(b, q), i)
      BY <2>1, <2>3, Zenon DEF DiffersAt
    <2>5. Sum(Block(b, q)) = Sum(Block(a, q)) + (Block(b, q)[i] - Block(a, q)[i])
      <3>1. Block(a, q) \in Seq(Int) /\ Block(b, q) \in Seq(Int)
        BY <2>1, Zenon
      <3> QED
        BY <2>4, <3>1, SumChanges
    <2> QED
      BY <2>2, <2>5
  <1>7. /\ Blocks(a) \in Seq(Int) /\ Len(Blocks(a)) = n /\ Sum(Blocks(a)) \in Int
        /\ Blocks(b) \in Seq(Int) /\ Len(Blocks(b)) = n /\ Sum(Blocks(b)) \in Int
        /\ \A c \in 1..n : Blocks(a)[c] = Sum(Block(a, c)) /\ Blocks(b)[c] = Sum(Block(b, c))
    <2>1. IsBlocks(a, Blocks(a)) /\ IsBlocks(b, Blocks(b))
      BY BlocksIn
    <2>2. Len(a) \div 64 + 1 = n /\ Len(b) \div 64 + 1 = n
      BY <1>1 DEF n
    <2> QED
      BY <2>1, <2>2, Zenon DEF IsBlocks
  <1>9. DiffersAt(Blocks(a), Blocks(b), q)
    <2>1. \A c \in 1..n : c # q => Blocks(b)[c] = Blocks(a)[c]
      BY <1>5, <1>7, Zenon
    <2> QED
      BY <1>7, <2>1, Zenon DEF DiffersAt
  <1>10. Sum(Blocks(b)) = Sum(Blocks(a)) + (Blocks(b)[q] - Blocks(a)[q])
    BY <1>7, <1>9, SumChanges
  <1>11. Blocks(b)[q] - Blocks(a)[q] = b[p] - a[p]
    <2>1. Blocks(b)[q] = Sum(Block(a, q)) + (b[p] - a[p]) /\ Blocks(a)[q] = Sum(Block(a, q))
      BY <1>6, <1>7
    <2>2. Sum(Block(a, q)) \in Int
      <3>1. Block(a, q) \in Seq(Int)
        BY <1>0, BlockIn DEF IsBlock
      <3> QED
        BY <3>1, SumInt
    <2> QED
      BY <1>3, <2>1, <2>2
  <1>12. PICK x, d : x = Sum(Blocks(a)) /\ d = b[p] - a[p]
    OBVIOUS
  <1>13. x \in Int /\ d \in Int /\ d # 0 /\ d >= -255 /\ d <= 255 /\ Sum(Blocks(b)) = x + d
    <2>1. x \in Int /\ Sum(Blocks(b)) = x + d
      BY <1>7, <1>10, <1>11, <1>12, Zenon
    <2>2. d \in Int /\ d # 0 /\ d >= -255 /\ d <= 255
      BY <1>3, <1>12
    <2> QED
      BY <2>1, <2>2
  <1>14. x % 65521 # (x + d) % 65521
    BY <1>13, RemainderChanges, SMT
  <1> QED
    BY <1>12, <1>13, <1>14, CrcIs, SMT

-----------------------------------------------------------------------------
(***************************************************************************)
(* Frames.                                                                 *)
(***************************************************************************)
LEMMA CatIn ==
    ASSUME NEW a \in Seq(Byte), NEW b \in Seq(Byte)
    PROVE  Cat(a, b) \in Seq(Byte) /\ Len(Cat(a, b)) = Len(a) + Len(b)
  BY CatJoins DEF Joined

Sized(s, n) == s \in Seq(Byte) /\ Len(s) = n

\* Sizes add up.
LEMMA CatSize ==
    \A a, b, x, y : Sized(a, x) /\ Sized(b, y) => Sized(Cat(a, b), x + y)
  BY CatIn, Zenon DEF Sized

\* The bytes stand at their own beginning.
LEMMA AtSelf == \A bs \in Seq(Byte) : At(bs, 0, bs) /\ 0 \in 0..Len(bs)
  <1> SUFFICES ASSUME NEW bs \in Seq(Byte) PROVE At(bs, 0, bs) /\ 0 \in 0..Len(bs)
    OBVIOUS
  <1>1. PICK n : n = Len(bs)
    OBVIOUS
  <1>2. n \in Nat
    BY <1>1
  <1>3. 0 + n <= n /\ 0 \in 0..n /\ \A j \in 1..n : 0 + j = j
    BY <1>2
  <1> QED
    BY <1>1, <1>3, Zenon DEF At

\* What stands at the beginning, and what stands after it.
LEMMA FirstAndRest ==
    ASSUME NEW bs \in Seq(Byte), NEW a, NEW b, NEW x, NEW y, Sized(a, x), Sized(b, y),
           At(bs, 0, Cat(a, b))
    PROVE  At(bs, 0, a) /\ At(bs, x, b)
  <1>1. 0 \in 0..Len(bs)
    BY AtSelf
  <1>2. a \in Seq(Byte) /\ b \in Seq(Byte) /\ Len(a) = x
    BY DEF Sized
  <1>3. Split(bs, 0, a, b)
    BY <1>1, <1>2, CatAt
  <1>4. 0 + x = x
    BY <1>2
  <1> QED
    BY <1>2, <1>3, <1>4, Zenon DEF Split

\* A number that stands somewhere is read from there.
LEMMA NumberAt ==
    ASSUME NEW bs \in Seq(Byte), NEW o \in Nat, NEW v \in 0..Huge, NEW w \in {1, 2, 4, 8},
           InWidth(v, w), At(bs, o, put_int(v, w))
    PROVE  number(bs, o, w) = v /\ field(bs, o, w) = put_int(v, w)
  <1>1. v \in (-Huge)..Huge
    BY HugeNat
  <1>2. put_int(v, w) \in Seq(Byte) /\ Len(put_int(v, w)) = w
    BY <1>1, PutBytes
  <1>3. field(bs, o, w) = put_int(v, w)
    BY <1>2, FieldAt
  <1>4. get_int(put_int(v, w), FALSE) = v
    BY UnsignedBack
  <1> QED
    BY <1>3, <1>4 DEF number

\* Different numbers are written differently.
LEMMA PutDiffers ==
    ASSUME NEW x \in 0..Huge, NEW y \in 0..Huge, x # y
    PROVE  put_int(x, 4) # put_int(y, 4)
  <1>1. InWidth(x, 4) /\ InWidth(y, 4)
    <2>1. 4 # 1 /\ 4 # 2
      OBVIOUS
    <2> QED
      BY <2>1, Zenon DEF InWidth
  <1>2. get_int(put_int(x, 4), FALSE) = x /\ get_int(put_int(y, 4), FALSE) = y
    BY <1>1, UnsignedBack
  <1> QED
    BY <1>2

\* Four bytes of a number.
LEMMA PutFour ==
    ASSUME NEW x \in 0..Huge
    PROVE  Sized(put_int(x, 4), 4) /\ InWidth(x, 4)
  <1>1. x \in (-Huge)..Huge
    BY HugeNat
  <1>2. 4 # 1 /\ 4 # 2
    OBVIOUS
  <1> QED
    BY <1>1, <1>2, PutBytes, Zenon DEF InWidth, Sized

\* Two bytes of a number.
LEMMA PutTwo ==
    ASSUME NEW x \in 0..255
    PROVE  /\ Sized(put_int(x, 2), 2) /\ InWidth(x, 2) /\ x \in 0..Huge
  <1>1. x \in (-Huge)..Huge /\ x \in 0..Huge /\ x <= Word
    <2>1. 255 <= Huge /\ 255 <= Word
      BY SMT DEF Huge, Word
    <2> QED
      BY <2>1, HugeNat, WordIs
  <1>2. InWidth(x, 2)
    <2>1. 2 # 1
      OBVIOUS
    <2> QED
      BY <1>1, <2>1, Zenon DEF InWidth
  <1>3. put_int(x, 2) \in Seq(Byte) /\ Len(put_int(x, 2)) = 2
    BY <1>1, PutBytes
  <1> QED
    BY <1>1, <1>2, <1>3, Zenon DEF Sized

\* The header and the payload as encode_frame puts them together.
Covered(type, n) ==
    Cat(Cat(Cat(Cat(put_int(frame_magic, 4), put_int(protocol_version, 2)), put_int(type, 2)),
            put_int(0, 4)), put_int(n, 4))
Header3(c, x, y) == Cat(Cat(c, put_int(x, 4)), put_int(y, 4))
Frame(type, payload) ==
    Cat(Header3(Covered(type, Len(payload)), crc32c(Covered(type, Len(payload))), crc32c(payload)),
        payload)

\* encode_frame writes a Frame.
LEMMA FrameBytes == \A type, payload : put_header(type, payload) \o payload = Frame(type, payload)
  BY Zenon DEF put_header, Frame, Header3, Covered, Cat

\* What decode_frame looks at.
IsFrame(bs, type, payload) ==
    /\ bs \in Seq(Byte) /\ payload \in Seq(Byte) /\ Len(bs) = 24 + Len(payload)
    /\ field(bs, 0, 4) = put_int(frame_magic, 4)
    /\ number(bs, 4, 2) = protocol_version
    /\ number(bs, 6, 2) = type
    /\ number(bs, 12, 4) = Len(payload)
    /\ field(bs, 16, 4) = put_int(crc32c(field(bs, 0, 16)), 4)
    /\ field(bs, 20, 4) = put_int(crc32c(payload), 4)
    /\ field(bs, 24, Len(payload)) = payload

\* The fields of the header that its checksum covers.
LEMMA CoveredParts ==
    ASSUME NEW type \in 0..255, NEW n \in 0..Huge, NEW bs \in Seq(Byte),
           At(bs, 0, Covered(type, n))
    PROVE  /\ field(bs, 0, 4) = put_int(frame_magic, 4)
           /\ number(bs, 4, 2) = protocol_version
           /\ number(bs, 6, 2) = type
           /\ number(bs, 12, 4) = n
  <1>1. PICK a, b, c, d, e : /\ a = put_int(frame_magic, 4) /\ b = put_int(protocol_version, 2)
                             /\ c = put_int(type, 2) /\ d = put_int(0, 4) /\ e = put_int(n, 4)
    OBVIOUS
  <1>2. frame_magic \in 0..Huge /\ protocol_version \in 0..255 /\ 0 \in 0..Huge
    <2>1. frame_magic \in Nat /\ frame_magic <= Huge
      <3>1. frame_magic \in Nat /\ frame_magic < 2147483648
        BY SMT DEF frame_magic
      <3> QED
        BY <3>1, HugeIs, SMT
    <2>2. protocol_version \in 0..255
      BY DEF protocol_version
    <2> QED
      BY <2>1, <2>2, HugeNat
  <1>3. Sized(a, 4) /\ Sized(b, 2) /\ Sized(c, 2) /\ Sized(d, 4) /\ Sized(e, 4)
    <2>1. Sized(a, 4) /\ Sized(d, 4) /\ Sized(e, 4)
      BY <1>1, <1>2, PutFour
    <2>2. Sized(b, 2)
      BY <1>1, <1>2, PutTwo
    <2>3. Sized(c, 2)
      BY <1>1, PutTwo
    <2> QED
      BY <2>1, <2>2, <2>3
  <1>4. Sized(Cat(a, b), 6)
    <2>1. Sized(Cat(a, b), 4 + 2)
      BY <1>3, CatSize, Zenon
    <2> QED
      BY <2>1
  <1>5. Sized(Cat(Cat(a, b), c), 8)
    <2>1. Sized(Cat(Cat(a, b), c), 6 + 2)
      BY <1>3, <1>4, CatSize, Zenon
    <2> QED
      BY <2>1
  <1>6. Sized(Cat(Cat(Cat(a, b), c), d), 12)
    <2>1. Sized(Cat(Cat(Cat(a, b), c), d), 8 + 4)
      BY <1>3, <1>5, CatSize, Zenon
    <2> QED
      BY <2>1
  <1>7. At(bs, 0, Cat(Cat(Cat(Cat(a, b), c), d), e))
    BY <1>1, Zenon DEF Covered
  <1>8. At(bs, 0, Cat(Cat(Cat(a, b), c), d)) /\ At(bs, 12, e)
    BY <1>3, <1>6, <1>7, FirstAndRest
  <1>9. At(bs, 0, Cat(Cat(a, b), c))
    BY <1>3, <1>5, <1>8, FirstAndRest
  <1>10. At(bs, 0, Cat(a, b)) /\ At(bs, 6, c)
    BY <1>3, <1>4, <1>9, FirstAndRest
  <1>11. At(bs, 0, a) /\ At(bs, 4, b)
    BY <1>3, <1>10, FirstAndRest
  <1>12. field(bs, 0, 4) = put_int(frame_magic, 4)
    BY <1>1, <1>2, <1>11, NumberAt, PutFour
  <1>13. number(bs, 4, 2) = protocol_version
    BY <1>1, <1>2, <1>11, NumberAt, PutTwo
  <1>14. number(bs, 6, 2) = type
    BY <1>1, <1>10, NumberAt, PutTwo
  <1>15. number(bs, 12, 4) = n
    BY <1>1, <1>8, NumberAt, PutFour
  <1> QED
    BY <1>12, <1>13, <1>14, <1>15

\* And their size.
LEMMA CoveredIn ==
    ASSUME NEW type \in 0..255, NEW n \in 0..Huge
    PROVE  Sized(Covered(type, n), 16)
  <1>1. PICK a, b, c, d, e : /\ a = put_int(frame_magic, 4) /\ b = put_int(protocol_version, 2)
                             /\ c = put_int(type, 2) /\ d = put_int(0, 4) /\ e = put_int(n, 4)
    OBVIOUS
  <1>2. frame_magic \in 0..Huge /\ protocol_version \in 0..255 /\ 0 \in 0..Huge
    <2>1. frame_magic \in Nat /\ frame_magic <= Huge
      <3>1. frame_magic \in Nat /\ frame_magic < 2147483648
        BY SMT DEF frame_magic
      <3> QED
        BY <3>1, HugeIs, SMT
    <2>2. protocol_version \in 0..255
      BY DEF protocol_version
    <2> QED
      BY <2>1, <2>2, HugeNat
  <1>3. Sized(a, 4) /\ Sized(b, 2) /\ Sized(c, 2) /\ Sized(d, 4) /\ Sized(e, 4)
    <2>1. Sized(a, 4) /\ Sized(d, 4) /\ Sized(e, 4)
      BY <1>1, <1>2, PutFour
    <2>2. Sized(b, 2)
      BY <1>1, <1>2, PutTwo
    <2>3. Sized(c, 2)
      BY <1>1, PutTwo
    <2> QED
      BY <2>1, <2>2, <2>3
  <1>4. Sized(Cat(a, b), 6)
    <2>1. Sized(Cat(a, b), 4 + 2)
      BY <1>3, CatSize, Zenon
    <2> QED
      BY <2>1
  <1>5. Sized(Cat(Cat(a, b), c), 8)
    <2>1. Sized(Cat(Cat(a, b), c), 6 + 2)
      BY <1>3, <1>4, CatSize, Zenon
    <2> QED
      BY <2>1
  <1>6. Sized(Cat(Cat(Cat(a, b), c), d), 12)
    <2>1. Sized(Cat(Cat(Cat(a, b), c), d), 8 + 4)
      BY <1>3, <1>5, CatSize, Zenon
    <2> QED
      BY <2>1
  <1>7. Sized(Cat(Cat(Cat(Cat(a, b), c), d), e), 16)
    <2>1. Sized(Cat(Cat(Cat(Cat(a, b), c), d), e), 12 + 4)
      BY <1>3, <1>6, CatSize, Zenon
    <2> QED
      BY <2>1
  <1> QED
    BY <1>1, <1>7, Zenon DEF Covered

\* The bytes encode_frame puts together are those of a frame.
LEMMA FrameIs ==
    ASSUME NEW type \in 0..255, NEW payload \in Seq(Byte), Len(payload) <= Huge
    PROVE  IsFrame(Frame(type, payload), type, payload)
  <1>1. PICK n, k : n = Len(payload) /\ k = Covered(type, n)
    OBVIOUS
  <1>2. PICK x, y : x = crc32c(k) /\ y = crc32c(payload)
    OBVIOUS
  <1>3. PICK a, b : a = put_int(x, 4) /\ b = put_int(y, 4)
    OBVIOUS
  <1>4. PICK bs : bs = Cat(Cat(Cat(k, a), b), payload)
    OBVIOUS
  <1>5. bs = Frame(type, payload)
    BY <1>1, <1>2, <1>3, <1>4, Zenon DEF Frame, Header3
  <1>6. n \in 0..Huge /\ n \in Nat /\ Sized(payload, n)
    BY <1>1, HugeNat DEF Sized
  <1>7. Sized(k, 16)
    BY <1>1, <1>6, CoveredIn
  <1>8. x \in 0..Huge /\ y \in 0..Huge
    BY <1>2, <1>7, CrcIn DEF Sized
  <1>9. Sized(a, 4) /\ Sized(b, 4)
    BY <1>3, <1>8, PutFour
  <1>10. Sized(Cat(k, a), 20)
    <2>1. Sized(Cat(k, a), 16 + 4)
      BY <1>7, <1>9, CatSize, Zenon
    <2> QED
      BY <2>1
  <1>11. Sized(Cat(Cat(k, a), b), 24)
    <2>1. Sized(Cat(Cat(k, a), b), 20 + 4)
      BY <1>9, <1>10, CatSize, Zenon
    <2> QED
      BY <2>1
  <1>12. Sized(bs, 24 + n)
    BY <1>4, <1>6, <1>11, CatSize, Zenon
  <1>13. bs \in Seq(Byte) /\ At(bs, 0, bs) /\ Len(bs) = 24 + n
    BY <1>12, AtSelf, Zenon DEF Sized
  <1>14. At(bs, 0, Cat(Cat(k, a), b)) /\ At(bs, 24, payload)
    BY <1>4, <1>6, <1>11, <1>13, FirstAndRest
  <1>15. At(bs, 0, Cat(k, a)) /\ At(bs, 20, b)
    BY <1>9, <1>10, <1>13, <1>14, FirstAndRest
  <1>16. At(bs, 0, k) /\ At(bs, 16, a)
    BY <1>7, <1>9, <1>13, <1>15, FirstAndRest
  <1>17. /\ field(bs, 0, 4) = put_int(frame_magic, 4)
         /\ number(bs, 4, 2) = protocol_version
         /\ number(bs, 6, 2) = type
         /\ number(bs, 12, 4) = n
    <2>1. At(bs, 0, Covered(type, n))
      BY <1>1, <1>16
    <2> QED
      BY <1>6, <1>13, <2>1, CoveredParts
  <1>18. field(bs, 0, 16) = k /\ field(bs, 24, n) = payload
    <2>1. k \in Seq(Byte) /\ Len(k) = 16
      BY <1>7 DEF Sized
    <2> QED
      BY <1>1, <1>13, <1>14, <1>16, <2>1, FieldAt
  <1>19. field(bs, 16, 4) = a /\ field(bs, 20, 4) = b
    <2>1. a \in Seq(Byte) /\ Len(a) = 4 /\ b \in Seq(Byte) /\ Len(b) = 4
      BY <1>9 DEF Sized
    <2>2. field(bs, 16, Len(a)) = a
      BY <1>13, <1>16, <2>1, FieldAt
    <2>3. field(bs, 20, Len(b)) = b
      BY <1>13, <1>15, <2>1, FieldAt
    <2> QED
      BY <2>1, <2>2, <2>3, Zenon
  <1>20. IsFrame(bs, type, payload)
    BY <1>1, <1>2, <1>3, <1>13, <1>17, <1>18, <1>19, Zenon DEF IsFrame
  <1> QED
    BY <1>5, <1>20

-----------------------------------------------------------------------------
(***************************************************************************)
(* What damage does to a checksum and to what it covers.                   *)
(***************************************************************************)
LEMMA FieldSame ==
    ASSUME NEW a \in Seq(Byte), NEW b \in Seq(Byte), NEW o \in Nat, NEW w \in Nat,
           o + w <= Len(a), o + w <= Len(b), \A j \in 1..w : a[o + j] = b[o + j]
    PROVE  field(a, o, w) = field(b, o, w)
  <1>1. PICK c, d : c = field(a, o, w) /\ d = field(b, o, w)
    OBVIOUS
  <1>2. Holding(a, o, w, c) /\ Holding(b, o, w, d)
    BY <1>1, FieldHolds
  <1>3. c \in Seq(Byte) /\ d \in Seq(Byte) /\ Len(c) = Len(d) /\ \A j \in 1..Len(c) : c[j] = d[j]
    BY <1>2, Zenon DEF Holding
  <1>4. c = d
    BY <1>3, SameSeq
  <1> QED
    BY <1>1, <1>4

\* One byte is another.
Changed(a, b, p) == a \in Seq(Byte) /\ b \in Seq(Byte) /\ DiffersAt(a, b, p) /\ a[p] # b[p]

\* w bytes from o on, all there.
Held(bs, o, w) == o \in Nat /\ w \in Nat /\ o + w <= Len(bs)

\* A field keeps its value if the byte that changed lies outside.
LEMMA FieldKept ==
    ASSUME NEW a, NEW b, NEW p, Changed(a, b, p), NEW o, NEW w, Held(a, o, w),
           p \notin (o + 1)..(o + w)
    PROVE  field(b, o, w) = field(a, o, w)
  <1>1. a \in Seq(Byte) /\ b \in Seq(Byte) /\ Len(b) = Len(a) /\ o \in Nat /\ w \in Nat
        /\ o + w <= Len(a)
    BY DEF Changed, DiffersAt, Held
  <1>2. ASSUME NEW j \in 1..w PROVE b[o + j] = a[o + j]
    <2>1. PICK l : l = Len(a)
      OBVIOUS
    <2>2. l \in Nat /\ o + w <= l
      BY <1>1, <2>1
    <2>3. o + j \in 1..l /\ o + j # p
      BY <1>1, <2>2
    <2> QED
      BY <2>1, <2>3, Zenon DEF Changed, DiffersAt
  <1>3. o + w <= Len(b)
    BY <1>1
  <1> QED
    BY <1>1, <1>2, <1>3, FieldSame

\* And loses it if it lies inside.
LEMMA FieldChanged ==
    ASSUME NEW a, NEW b, NEW p, Changed(a, b, p), NEW o, NEW w, Held(a, o, w),
           p \in (o + 1)..(o + w)
    PROVE  Changed(field(a, o, w), field(b, o, w), p - o)
  <1>1. a \in Seq(Byte) /\ b \in Seq(Byte) /\ Len(b) = Len(a) /\ o \in Nat /\ w \in Nat
        /\ o + w <= Len(a) /\ o + w <= Len(b)
    BY DEF Changed, DiffersAt, Held
  <1>2. PICK c, d : c = field(a, o, w) /\ d = field(b, o, w)
    OBVIOUS
  <1>3. Holding(a, o, w, c) /\ Holding(b, o, w, d)
    BY <1>1, <1>2, FieldHolds
  <1>4. /\ c \in Seq(Byte) /\ d \in Seq(Byte) /\ Len(c) = w /\ Len(d) = w
        /\ \A j \in 1..w : c[j] = a[o + j] /\ d[j] = b[o + j]
    BY <1>3, Zenon DEF Holding
  <1>5. p - o \in 1..w /\ o + (p - o) = p
    BY <1>1
  <1>6. ASSUME NEW j \in 1..w, j # p - o PROVE d[j] = c[j]
    <2>1. PICK l : l = Len(a)
      OBVIOUS
    <2>2. l \in Nat /\ o + w <= l
      BY <1>1, <2>1
    <2>3. o + j \in 1..l /\ o + j # p
      BY <1>1, <1>5, <1>6, <2>2
    <2>4. b[o + j] = a[o + j]
      BY <2>1, <2>3, Zenon DEF Changed, DiffersAt
    <2> QED
      BY <1>4, <2>4, Zenon
  <1>7. c[p - o] # d[p - o]
    <2>1. a[p] # b[p]
      BY DEF Changed
    <2> QED
      BY <1>4, <1>5, <2>1, Zenon
  <1>8. Changed(c, d, p - o)
    BY <1>4, <1>5, <1>6, <1>7, Zenon DEF Changed, DiffersAt
  <1> QED
    BY <1>2, <1>8

\* The four bytes at c are the checksum of the w bytes at o.
Checked(bs, o, w, c) == field(bs, c, 4) = put_int(crc32c(field(bs, o, w)), 4)

\* A change in either shows.
LEMMA ChecksumCatches ==
    ASSUME NEW a, NEW b, NEW p, Changed(a, b, p), NEW o, NEW w, NEW c, Held(a, o, w),
           Held(a, c, 4), Checked(a, o, w, c),
           \A q : ~(q \in (o + 1)..(o + w) /\ q \in (c + 1)..(c + 4)),
           p \in (o + 1)..(o + w) \/ p \in (c + 1)..(c + 4)
    PROVE  ~Checked(b, o, w, c)
  <1>1. CASE p \in (o + 1)..(o + w)
    <2>1. field(b, c, 4) = field(a, c, 4)
      BY <1>1, FieldKept
    <2>2. PICK x, y : x = field(a, o, w) /\ y = field(b, o, w)
      OBVIOUS
    <2>3. Changed(x, y, p - o)
      BY <1>1, <2>2, FieldChanged
    <2>4. crc32c(x) # crc32c(y) /\ crc32c(x) \in 0..Huge /\ crc32c(y) \in 0..Huge
      BY <2>3, CrcChanges, CrcIn DEF Changed
    <2>5. put_int(crc32c(x), 4) # put_int(crc32c(y), 4)
      BY <2>4, PutDiffers
    <2> QED
      BY <2>1, <2>2, <2>5, Zenon DEF Checked
  <1>2. CASE p \in (c + 1)..(c + 4)
    <2>1. field(b, o, w) = field(a, o, w)
      BY <1>2, FieldKept
    <2>2. Changed(field(a, c, 4), field(b, c, 4), p - c)
      BY <1>2, FieldChanged
    <2>3. field(a, c, 4) # field(b, c, 4)
      BY <2>2 DEF Changed
    <2> QED
      BY <2>1, <2>3, Zenon DEF Checked
  <1> QED
    BY <1>1, <1>2

\* What decode_frame has accepted.
LEMMA FrameAccepted ==
    ASSUME NEW bs \in Seq(Byte), decode_frame(bs, limits).ok
    PROVE  /\ Len(bs) >= 24 /\ Len(bs) = 24 + number(bs, 12, 4)
           /\ Checked(bs, 0, 16, 16) /\ Checked(bs, 24, Len(bs) - 24, 20)
  <1>1. ~Refused.ok
    BY DEF Refused
  <1>2. /\ decode_header(bs, limits) /\ Len(bs) = frame_header_bytes + payload_bytes(bs)
        /\ field(bs, 20, 4) = put_int(crc32c(SubSeq(bs, frame_header_bytes + 1, Len(bs))), 4)
    BY <1>1, Zenon DEF decode_frame
  <1>3. /\ Len(bs) >= 24 /\ Len(bs) = 24 + number(bs, 12, 4)
        /\ field(bs, 16, 4) = put_int(crc32c(field(bs, 0, 16)), 4)
    BY <1>2, Zenon DEF decode_header, payload_bytes, frame_header_bytes
  <1>4. SubSeq(bs, frame_header_bytes + 1, Len(bs)) = field(bs, 24, Len(bs) - 24)
    <2>1. 24 + (Len(bs) - 24) = Len(bs)
      <3>1. Len(bs) \in Nat
        OBVIOUS
      <3> QED
        BY <3>1
    <2> QED
      BY <2>1, Zenon DEF field, frame_header_bytes
  <1> QED
    BY <1>2, <1>3, <1>4, Zenon DEF Checked

\* A frame with one byte changed is refused, wherever the byte is.
LEMMA FrameChanged ==
    ASSUME NEW a, NEW b, NEW type, NEW payload, NEW p, IsFrame(a, type, payload), Changed(a, b, p)
    PROVE  ~decode_frame(b, limits).ok
  <1>1. PICK n : n = Len(payload)
    OBVIOUS
  <1>2. n \in Nat /\ Len(a) = 24 + n /\ a \in Seq(Byte)
    BY <1>1 DEF IsFrame
  <1>3. b \in Seq(Byte) /\ Len(b) = 24 + n /\ p \in 1..(24 + n)
    BY <1>2 DEF Changed, DiffersAt
  <1>4. /\ Held(a, 0, 16) /\ Held(a, 16, 4) /\ Held(a, 24, n) /\ Held(a, 20, 4)
    BY <1>2 DEF Held
  <1>5. Checked(a, 0, 16, 16) /\ Checked(a, 24, n, 20)
    BY <1>1, Zenon DEF IsFrame, Checked
  <1> SUFFICES ASSUME decode_frame(b, limits).ok PROVE FALSE
    OBVIOUS
  <1>6. Checked(b, 0, 16, 16) /\ Checked(b, 24, n, 20)
    <2>1. Checked(b, 0, 16, 16) /\ Checked(b, 24, Len(b) - 24, 20)
      BY <1>3, FrameAccepted
    <2>2. Len(b) - 24 = n
      BY <1>2, <1>3
    <2> QED
      BY <2>1, <2>2
  <1>7. CASE p \in (0 + 1)..(0 + 16) \/ p \in (16 + 1)..(16 + 4)
    <2>1. \A q : ~(q \in (0 + 1)..(0 + 16) /\ q \in (16 + 1)..(16 + 4))
      OBVIOUS
    <2> QED
      BY <1>4, <1>5, <1>6, <1>7, <2>1, ChecksumCatches
  <1>8. CASE p \in (24 + 1)..(24 + n) \/ p \in (20 + 1)..(20 + 4)
    <2>1. \A q : ~(q \in (24 + 1)..(24 + n) /\ q \in (20 + 1)..(20 + 4))
      BY <1>2
    <2> QED
      BY <1>4, <1>5, <1>6, <1>8, <2>1, ChecksumCatches
  <1> QED
    BY <1>2, <1>3, <1>7, <1>8

\* A frame of another length is refused.
LEMMA FrameResized ==
    ASSUME NEW a, NEW type, NEW payload, IsFrame(a, type, payload), NEW b \in Seq(Byte),
           Len(b) # Len(a), \A j \in 1..Len(b) : j <= Len(a) => b[j] = a[j]
    PROVE  ~decode_frame(b, limits).ok
  <1>1. PICK n : n = Len(payload)
    OBVIOUS
  <1>2. n \in Nat /\ Len(a) = 24 + n /\ a \in Seq(Byte) /\ number(a, 12, 4) = n
    BY <1>1 DEF IsFrame
  <1> SUFFICES ASSUME decode_frame(b, limits).ok PROVE FALSE
    OBVIOUS
  <1>3. Len(b) >= 24 /\ Len(b) = 24 + number(b, 12, 4)
    BY FrameAccepted
  <1>4. field(b, 12, 4) = field(a, 12, 4)
    <2>1. PICK l : l = Len(b)
      OBVIOUS
    <2>2. l \in Nat /\ l >= 24
      BY <1>3, <2>1
    <2>3. 12 + 4 <= l /\ 12 + 4 <= Len(a)
      BY <1>2, <2>2
    <2>4. \A j \in 1..4 : b[12 + j] = a[12 + j]
      <3> TAKE j \in 1..4
      <3>1. 12 + j \in 1..l /\ 12 + j <= Len(a)
        BY <1>2, <2>2
      <3> QED
        BY <2>1, <3>1
    <2>5. PICK o, w : o = 12 /\ w = 4
      OBVIOUS
    <2>6. o \in Nat /\ w \in Nat /\ o + w <= Len(b) /\ o + w <= Len(a)
      BY <2>1, <2>3, <2>5
    <2>7. \A j \in 1..w : b[o + j] = a[o + j]
      BY <2>4, <2>5
    <2>8. field(b, o, w) = field(a, o, w)
      BY <1>2, <2>6, <2>7, FieldSame
    <2> QED
      BY <2>5, <2>8
  <1>5. number(b, 12, 4) = n
    BY <1>2, <1>4 DEF number
  <1> QED
    BY <1>2, <1>3, <1>5

\* An intact frame gives its type and its payload.
LEMMA FrameDecodes ==
    ASSUME NEW bs, NEW type, NEW payload, IsFrame(bs, type, payload), type \in 1..(MessageTypes - 1),
           Len(payload) <= limits.max_frame_payload_bytes, Len(payload) <= limits.max_payload_bytes
    PROVE  decode_frame(bs, limits) = [ok |-> TRUE, type |-> type, payload |-> payload]
  <1>1. PICK n : n = Len(payload)
    OBVIOUS
  <1>2. n \in Nat /\ Len(bs) = 24 + n
    BY <1>1 DEF IsFrame
  <1>3. SubSeq(bs, frame_header_bytes + 1, Len(bs)) = payload
    <2>1. field(bs, 24, n) = payload
      BY <1>1, Zenon DEF IsFrame
    <2> QED
      BY <1>2, <2>1, Zenon DEF field, frame_header_bytes
  <1>4. payload_bytes(bs) = n /\ number(bs, 6, 2) = type
    BY <1>1, Zenon DEF IsFrame, payload_bytes
  <1>5. Len(bs) >= frame_header_bytes /\ Len(bs) = frame_header_bytes + payload_bytes(bs)
    BY <1>2, <1>4 DEF frame_header_bytes
  <1>6. decode_header(bs, limits)
    BY <1>1, <1>4, <1>5, Zenon DEF decode_header, IsFrame
  <1>7. field(bs, 20, 4) = put_int(crc32c(payload), 4)
    BY Zenon DEF IsFrame
  <1> QED
    BY <1>3, <1>4, <1>5, <1>6, <1>7, Zenon DEF decode_frame

\* What encode_frame accepts is a frame, and decode_frame gives it back.
Framed(bs, type, payload) ==
    /\ IsFrame(bs, type, payload) /\ Len(payload) <= limits.max_payload_bytes
    /\ decode_frame(bs, limits) = [ok |-> TRUE, type |-> type, payload |-> payload]

\* encode_frame makes a frame that decode_frame takes apart again.
LEMMA FrameEncoded ==
    ASSUME NEW type, NEW payload \in Seq(Byte), encode_frame(type, payload, limits).ok
    PROVE  Framed(encode_frame(type, payload, limits).bytes, type, payload)
  <1>1. ~Refused.ok
    BY DEF Refused
  <1>2. /\ type \in 1..(MessageTypes - 1) /\ ~(Len(payload) > limits.max_frame_payload_bytes)
        /\ ~(Len(payload) > limits.max_payload_bytes)
        /\ encode_frame(type, payload, limits)
             = [ok |-> TRUE, bytes |-> put_header(type, payload) \o payload]
    BY <1>1, Zenon DEF encode_frame
  <1>3. encode_frame(type, payload, limits).bytes = Frame(type, payload)
    <2>1. encode_frame(type, payload, limits).bytes = put_header(type, payload) \o payload
      BY <1>2
    <2> QED
      BY <2>1, FrameBytes
  <1>4. /\ limits.max_frame_payload_bytes \in Nat /\ limits.max_payload_bytes \in Nat
        /\ limits.max_payload_bytes < Huge
    BY LimitIs DEF LimitNames
  <1>5. /\ Len(payload) <= limits.max_frame_payload_bytes
        /\ Len(payload) <= limits.max_payload_bytes /\ Len(payload) <= Huge
    <2>1. Len(payload) \in Nat
      OBVIOUS
    <2> QED
      BY <1>2, <1>4, <2>1, HugeNat
  <1>6. type \in 0..255
    BY <1>2 DEF MessageTypes
  <1>7. IsFrame(Frame(type, payload), type, payload)
    BY <1>5, <1>6, FrameIs
  <1>8. decode_frame(Frame(type, payload), limits) = [ok |-> TRUE, type |-> type, payload |-> payload]
    BY <1>2, <1>5, <1>7, FrameDecodes
  <1> QED
    BY <1>3, <1>5, <1>7, <1>8, Zenon DEF Framed

-----------------------------------------------------------------------------
(***************************************************************************)
(* Bytes after those a reader has read change nothing for it, so a payload *)
(* that ends early is never read to its end.                               *)
(***************************************************************************)
Prefix(a, b) ==
    /\ a \in Seq(Byte) /\ b \in Seq(Byte) /\ Len(a) <= Len(b)
    /\ \A j \in 1..Len(a) : b[j] = a[j]

\* A field that lies in the prefix.
LEMMA PrefixField ==
    ASSUME NEW a, NEW b, Prefix(a, b), NEW o, NEW w, Held(a, o, w)
    PROVE  field(b, o, w) = field(a, o, w) /\ Held(b, o, w)
  <1>1. a \in Seq(Byte) /\ b \in Seq(Byte) /\ o \in Nat /\ w \in Nat /\ o + w <= Len(a)
    BY DEF Prefix, Held
  <1>2. PICK l, k : l = Len(a) /\ k = Len(b)
    OBVIOUS
  <1>3. l \in Nat /\ k \in Nat /\ l <= k /\ o + w <= l
    BY <1>1, <1>2 DEF Prefix
  <1>4. o + w <= k
    BY <1>1, <1>3
  <1>5. ASSUME NEW j \in 1..w PROVE b[o + j] = a[o + j]
    <2>1. o + j \in 1..l
      BY <1>1, <1>3
    <2> QED
      BY <1>2, <2>1, Zenon DEF Prefix
  <1>6. field(b, o, w) = field(a, o, w)
    <2>1. o + w <= Len(b)
      BY <1>2, <1>4
    <2> QED
      BY <1>1, <1>5, <2>1, FieldSame
  <1> QED
    BY <1>1, <1>2, <1>4, <1>6, Zenon DEF Held

\* A digit is not negative.
LEMMA DigitNat ==
    ASSUME NEW bs \in Seq(Byte), NEW k \in Nat \ {0}
    PROVE  Digit(bs, k) \in Nat
  <1>1. CASE k <= Len(bs)
    <2>1. bs[k] \in Byte
      BY <1>1
    <2> QED
      BY <1>1, <2>1, ByteIs DEF Digit
  <1>2. CASE ~(k <= Len(bs))
    BY <1>2 DEF Digit
  <1> QED
    BY <1>1, <1>2

\* Bytes hold a number.
LEMMA UnsignedNat == \A c \in Seq(Byte) : Unsigned(c) \in Nat
  <1> SUFFICES ASSUME NEW c \in Seq(Byte) PROVE Unsigned(c) \in Nat
    OBVIOUS
  <1>1. Digit(c, 1) \in Nat /\ Digit(c, 2) \in Nat /\ Digit(c, 3) \in Nat /\ Digit(c, 4) \in Nat
    BY DigitNat
  <1>2. PICK x, y, z, t : x = Digit(c, 1) /\ y = Digit(c, 2) /\ z = Digit(c, 3) /\ t = Digit(c, 4)
    OBVIOUS
  <1>3. x + 256 * y + 65536 * z + 16777216 * t \in Nat
    BY <1>1, <1>2, SMTT(30)
  <1>4. Value(c) \in Nat
    BY <1>2, <1>3, SMT DEF Value
  <1>5. Unsigned(c) = Huge \/ Unsigned(c) = Value(c)
    BY SMT DEF Unsigned, Value
  <1> QED
    BY <1>4, <1>5, HugeNat

\* A field holds a number.
LEMMA NumberNat ==
    ASSUME NEW bs \in Seq(Byte), NEW o, NEW w, Held(bs, o, w)
    PROVE  number(bs, o, w) \in Nat
  <1>1. Holding(bs, o, w, field(bs, o, w))
    BY FieldHolds DEF Held
  <1>2. field(bs, o, w) \in Seq(Byte)
    BY <1>1 DEF Holding
  <1> QED
    BY <1>2, UnsignedNat DEF number, get_int

\* require() succeeds exactly if the bytes are there.
LEMMA RequireHeld ==
    ASSUME NEW bs \in Seq(Byte), NEW o \in Nat, NEW w \in Nat
    PROVE  require(bs, o, w) <=> Held(bs, o, w)
  <1>1. Len(bs) \in Nat
    OBVIOUS
  <1> QED
    BY <1>1, RoomFor DEF require, Held

\* Bytes that are there end inside.
LEMMA HeldUpTo ==
    ASSUME NEW bs \in Seq(Byte), NEW o, NEW w, Held(bs, o, w)
    PROVE  o + w \in 0..Len(bs) /\ o + w \in o..Len(bs) /\ o + w \in Nat
  <1>1. Len(bs) \in Nat
    OBVIOUS
  <1> QED
    BY <1>1 DEF Held

\* Widths are numbers.
LEMMA NumberWide == \A f : IsNumber(f) => Width(f) \in Nat
  BY DEF IsNumber, NumberKinds, Width

\* A number that was read is read again when bytes follow.
LEMMA NumberExtends ==
    ASSUME NEW f, IsNumber(f), NEW a, NEW b, Prefix(a, b)
    PROVE  Extends([o \in 0..Len(a) |-> get_number(f, a, o)],
                   [o \in 0..Len(b) |-> get_number(f, b, o)], Len(a))
  <1> DEFINE call == [o \in 0..Len(a) |-> get_number(f, a, o)]
             more == [o \in 0..Len(b) |-> get_number(f, b, o)]
  <1>1. a \in Seq(Byte) /\ b \in Seq(Byte) /\ Len(a) \in Nat /\ Len(b) \in Nat /\ Len(a) <= Len(b)
    BY DEF Prefix
  <1>2. ASSUME NEW o \in 0..Len(a), call[o].ok
        PROVE  call[o].off \in o..Len(a) /\ more[o] = call[o]
    <2>1. o \in 0..Len(b) /\ o \in Nat
      BY <1>1
    <2>2. call[o] = get_number(f, a, o) /\ more[o] = get_number(f, b, o)
      BY <2>1
    <2> HIDE DEF call, more
    <2>3. ~Failure.ok
      BY DEF Failure
    <2>4. PICK w : w = Width(f)
      OBVIOUS
    <2>5. require(a, o, w) /\ get_number(f, a, o) = Read(get_scalar(f, field(a, o, w)), o + w)
          /\ ~(f.kind = "enum" /\ get_scalar(f, field(a, o, w)) >= f.count)
      BY <1>2, <2>2, <2>3, <2>4, Zenon DEF get_number
    <2>6. w \in Nat
      BY <2>4, NumberWide
    <2>7. Held(a, o, w)
      BY <1>1, <2>1, <2>5, <2>6, RequireHeld
    <2>8. field(b, o, w) = field(a, o, w) /\ Held(b, o, w)
      BY <2>7, PrefixField
    <2>9. require(b, o, w)
      BY <1>1, <2>1, <2>6, <2>8, RequireHeld
    <2>10. get_number(f, b, o) = get_number(f, a, o)
      BY <2>4, <2>5, <2>8, <2>9, Zenon DEF get_number
    <2>11. call[o].off = o + w
      BY <2>2, <2>5 DEF Read
    <2> QED
      BY <1>1, <2>2, <2>7, <2>10, <2>11, HeldUpTo
  <1> HIDE DEF call, more
  <1>3. Extends(call, more, Len(a))
    BY <1>2 DEF Extends
  <1> QED
    BY <1>3 DEF call, more

\* So is a string.
LEMMA StringExtends ==
    ASSUME NEW a, NEW b, Prefix(a, b)
    PROVE  Extends([o \in 0..Len(a) |-> get_string(a, o, limits)],
                   [o \in 0..Len(b) |-> get_string(b, o, limits)], Len(a))
  <1> DEFINE call == [o \in 0..Len(a) |-> get_string(a, o, limits)]
             more == [o \in 0..Len(b) |-> get_string(b, o, limits)]
  <1>1. a \in Seq(Byte) /\ b \in Seq(Byte) /\ Len(a) \in Nat /\ Len(b) \in Nat /\ Len(a) <= Len(b)
    BY DEF Prefix
  <1>2. ASSUME NEW o \in 0..Len(a), call[o].ok
        PROVE  call[o].off \in o..Len(a) /\ more[o] = call[o]
    <2>1. o \in 0..Len(b) /\ o \in Nat
      BY <1>1
    <2>2. call[o] = get_string(a, o, limits) /\ more[o] = get_string(b, o, limits)
      BY <2>1
    <2> HIDE DEF call, more
    <2>3. ~Failure.ok
      BY DEF Failure
    <2>4. PICK n : n = number(a, o, 4)
      OBVIOUS
    <2>5. /\ require(a, o, 4) /\ n <= limits.max_string_bytes /\ require(a, o + 4, n)
          /\ get_string(a, o, limits) = Read(field(a, o + 4, n), o + 4 + n)
      BY <1>2, <2>2, <2>3, <2>4, Zenon DEF get_string
    <2>6. Held(a, o, 4)
      <3>1. 4 \in Nat
        OBVIOUS
      <3> QED
        BY <1>1, <2>1, <2>5, <3>1, RequireHeld, Zenon
    <2>7. n \in Nat /\ o + 4 \in Nat
      BY <1>1, <2>1, <2>4, <2>6, NumberNat
    <2>8. Held(a, o + 4, n)
      BY <1>1, <2>5, <2>7, RequireHeld
    <2>9. field(b, o, 4) = field(a, o, 4) /\ Held(b, o, 4)
      BY <2>6, PrefixField
    <2>10. field(b, o + 4, n) = field(a, o + 4, n) /\ Held(b, o + 4, n)
      BY <2>8, PrefixField
    <2>11. number(b, o, 4) = n
      BY <2>4, <2>9 DEF number
    <2>12. require(b, o, 4) /\ require(b, o + 4, n)
      <3>1. 4 \in Nat
        OBVIOUS
      <3> QED
        BY <1>1, <2>1, <2>7, <2>9, <2>10, <3>1, RequireHeld, Zenon
    <2>13. get_string(b, o, limits) = get_string(a, o, limits)
      BY <2>5, <2>10, <2>11, <2>12, Zenon DEF get_string
    <2>14. call[o].off = (o + 4) + n
      BY <2>2, <2>5 DEF Read
    <2>15. (o + 4) + n \in 0..Len(a)
      BY <1>1, <2>8, HeldUpTo
    <2>16. (o + 4) + n \in o..Len(a)
      BY <1>1, <2>1, <2>7, <2>15
    <2> QED
      BY <2>2, <2>13, <2>14, <2>16
  <1> HIDE DEF call, more
  <1>3. Extends(call, more, Len(a))
    BY <1>2 DEF Extends
  <1> QED
    BY <1>3 DEF call, more

AllExtend(calls, more, n, size) ==
    Len(calls) = n /\ Len(more) = n /\ \A i \in 1..n : Extends(calls[i], more[i], size)
GoesOn(call, more, start, size) == more = call /\ call.off \in start..size

\* So are calls one after the other.
LEMMA InOrderGoesOn ==
    ASSUME NEW calls, NEW more, NEW n \in Nat, NEW size \in Nat, AllExtend(calls, more, n, size),
           NEW names, NEW start \in 0..size, InOrder(calls, names, start).ok
    PROVE  GoesOn(InOrder(calls, names, start), InOrder(more, names, start), start, size)
  BY InOrderExtends DEF AllExtend, GoesOn

\* So is a list.
LEMMA ListExtends ==
    ASSUME NEW a, NEW b, Prefix(a, b), NEW part, NEW parts, NEW limit,
           Extends(part, parts, Len(a))
    PROVE  Extends([o \in 0..Len(a) |-> get_list(part, a, o, limit)],
                   [o \in 0..Len(b) |-> get_list(parts, b, o, limit)], Len(a))
  <1> DEFINE call == [o \in 0..Len(a) |-> get_list(part, a, o, limit)]
             more == [o \in 0..Len(b) |-> get_list(parts, b, o, limit)]
  <1>1. a \in Seq(Byte) /\ b \in Seq(Byte) /\ Len(a) \in Nat /\ Len(b) \in Nat /\ Len(a) <= Len(b)
    BY DEF Prefix
  <1>2. ASSUME NEW o \in 0..Len(a), call[o].ok
        PROVE  call[o].off \in o..Len(a) /\ more[o] = call[o]
    <2>1. o \in 0..Len(b) /\ o \in Nat
      BY <1>1
    <2>2. call[o] = get_list(part, a, o, limit) /\ more[o] = get_list(parts, b, o, limit)
      BY <2>1
    <2> HIDE DEF call, more
    <2>3. ~Failure.ok
      BY DEF Failure
    <2>4. PICK n : n = number(a, o, 4)
      OBVIOUS
    <2> DEFINE c == [k \in 1..n |-> part]
               d == [k \in 1..n |-> parts]
               names == [k \in 1..n |-> k]
    <2>5. /\ require(a, o, 4) /\ n <= limit
          /\ get_list(part, a, o, limit) = InOrder(c, names, o + 4)
      BY <1>2, <2>2, <2>3, <2>4, Zenon DEF get_list
    <2>6. Held(a, o, 4)
      <3>1. 4 \in Nat
        OBVIOUS
      <3> QED
        BY <1>1, <2>1, <2>5, <3>1, RequireHeld, Zenon
    <2>7. n \in Nat /\ o + 4 \in 0..Len(a)
      BY <1>1, <2>4, <2>6, NumberNat, HeldUpTo
    <2>8. field(b, o, 4) = field(a, o, 4) /\ Held(b, o, 4)
      BY <2>6, PrefixField
    <2>9. number(b, o, 4) = n
      BY <2>4, <2>8 DEF number
    <2>10. require(b, o, 4)
      <3>1. 4 \in Nat
        OBVIOUS
      <3> QED
        BY <1>1, <2>1, <2>8, <3>1, RequireHeld, Zenon
    <2>11. get_list(parts, b, o, limit) = InOrder(d, names, o + 4)
      BY <2>5, <2>9, <2>10, Zenon DEF get_list
    <2>12. /\ Len(c) = n /\ \A k \in 1..n : c[k] = part
           /\ Len(d) = n /\ \A k \in 1..n : d[k] = parts
      BY <2>7, Repeated
    <2> HIDE DEF c, d, names
    <2>13. \A k \in 1..n : Extends(c[k], d[k], Len(a))
      BY <2>12
    <2>14. InOrder(c, names, o + 4).ok
      BY <1>2, <2>2, <2>5
    <2>15. /\ InOrder(d, names, o + 4) = InOrder(c, names, o + 4)
           /\ InOrder(c, names, o + 4).off \in (o + 4)..Len(a)
      <3>1. AllExtend(c, d, n, Len(a))
        BY <2>12, <2>13, Zenon DEF AllExtend
      <3>2. GoesOn(InOrder(c, names, o + 4), InOrder(d, names, o + 4), o + 4, Len(a))
        BY <1>1, <2>7, <2>14, <3>1, InOrderGoesOn
      <3> QED
        BY <3>2, Zenon DEF GoesOn
    <2>16. call[o].off \in (o + 4)..Len(a) /\ more[o] = call[o]
      BY <2>2, <2>5, <2>11, <2>15, Zenon
    <2>17. PICK x, l : x = call[o].off /\ l = Len(a)
      OBVIOUS
    <2>18. x \in o..l
      BY <1>1, <2>1, <2>16, <2>17
    <2> QED
      BY <2>16, <2>17, <2>18
  <1> HIDE DEF call, more
  <1>3. Extends(call, more, Len(a))
    BY <1>2 DEF Extends
  <1> QED
    BY <1>3 DEF call, more

\* One field that was read is read again when bytes follow.
LEMMA FieldExtends_0 ==
    ASSUME NEW f, Scalar(f), NEW a, NEW b, Prefix(a, b)
    PROVE  Extends(Call_0(f, a), Call_0(f, b), Len(a))
  <1>0. a \in Seq(Byte) /\ b \in Seq(Byte)
    BY DEF Prefix
  <1>1. CASE IsString(f)
    <2>1. /\ Call_0(f, a) = [o \in 0..Len(a) |-> get_string(a, o, limits)]
          /\ Call_0(f, b) = [o \in 0..Len(b) |-> get_string(b, o, limits)]
      BY <1>0, <1>1, StringIs_0, Zenon
    <2> QED
      BY <2>1, StringExtends
  <1>2. CASE IsNumber(f)
    <2>1. /\ Call_0(f, a) = [o \in 0..Len(a) |-> get_number(f, a, o)]
          /\ Call_0(f, b) = [o \in 0..Len(b) |-> get_number(f, b, o)]
      BY <1>0, <1>2, NumberIs_0, Zenon
    <2> QED
      BY <1>2, <2>1, NumberExtends
  <1> QED
    BY <1>1, <1>2, Zenon DEF Scalar

\* So are all the fields of a layout.
LEMMA Extends_0 ==
    ASSUME NEW fields, Layout_0(fields), NEW a, NEW b, Prefix(a, b)
    PROVE  Extends([o \in 0..Len(a) |-> read_0(fields, a, o, limits)],
                   [o \in 0..Len(b) |-> read_0(fields, b, o, limits)], Len(a))
  <1> DEFINE n == Len(fields)
             call == [o \in 0..Len(a) |-> read_0(fields, a, o, limits)]
             more == [o \in 0..Len(b) |-> read_0(fields, b, o, limits)]
             c == [i \in DOMAIN fields |-> Call_0(fields[i], a)]
             d == [i \in DOMAIN fields |-> Call_0(fields[i], b)]
             names == [i \in DOMAIN fields |-> fields[i].name]
  <1>1. n \in Nat /\ DOMAIN fields = 1..n /\ \A i \in 1..n : Scalar(fields[i])
    BY Layout_0_Is
  <1>2. call = [o \in 0..Len(a) |-> InOrder(c, names, o)]
        /\ more = [o \in 0..Len(b) |-> InOrder(d, names, o)]
    BY DEF read_0, get_fields, Call_0
  <1>3. Len(c) = n /\ Len(d) = n
    <2>1. c = [i \in 1..n |-> c[i]] /\ d = [i \in 1..n |-> d[i]]
      BY <1>1
    <2> HIDE DEF c, d
    <2> QED
      BY <1>1, <2>1, SequenceOf
  <1>4. \A i \in 1..n : c[i] = Call_0(fields[i], a) /\ d[i] = Call_0(fields[i], b)
    BY <1>1
  <1> HIDE DEF n, call, more, c, d, names
  <1>5. \A i \in 1..n : Extends(c[i], d[i], Len(a))
    BY <1>1, <1>4, FieldExtends_0
  <1>6. AllExtend(c, d, n, Len(a))
    BY <1>3, <1>5, Zenon DEF AllExtend
  <1>7. Len(a) \in Nat /\ Len(b) \in Nat /\ Len(a) <= Len(b)
    BY DEF Prefix
  <1>8. ASSUME NEW o \in 0..Len(a), call[o].ok
        PROVE  call[o].off \in o..Len(a) /\ more[o] = call[o]
    <2>1. o \in 0..Len(b)
      BY <1>7
    <2>2. call[o] = InOrder(c, names, o) /\ more[o] = InOrder(d, names, o)
      BY <1>2, <2>1
    <2>3. InOrder(c, names, o).ok
      BY <1>8, <2>2
    <2>4. GoesOn(InOrder(c, names, o), InOrder(d, names, o), o, Len(a))
      BY <1>1, <1>6, <1>7, <2>3, InOrderGoesOn
    <2> QED
      BY <2>2, <2>4, Zenon DEF GoesOn
  <1>9. Extends(call, more, Len(a))
    BY <1>8, Zenon DEF Extends
  <1> QED
    BY <1>9 DEF call, more

\* One field that was read is read again when bytes follow.
LEMMA FieldExtends_1 ==
    ASSUME NEW f, Nested_1(f), NEW a, NEW b, Prefix(a, b)
    PROVE  Extends(Call_1(f, a), Call_1(f, b), Len(a))
  <1>0. a \in Seq(Byte) /\ b \in Seq(Byte)
    BY DEF Prefix
  <1>1. CASE IsString(f)
    <2>1. /\ Call_1(f, a) = [o \in 0..Len(a) |-> get_string(a, o, limits)]
          /\ Call_1(f, b) = [o \in 0..Len(b) |-> get_string(b, o, limits)]
      BY <1>0, <1>1, StringIs_1, Zenon
    <2> QED
      BY <2>1, StringExtends
  <1>2. CASE IsNumber(f)
    <2>1. /\ Call_1(f, a) = [o \in 0..Len(a) |-> get_number(f, a, o)]
          /\ Call_1(f, b) = [o \in 0..Len(b) |-> get_number(f, b, o)]
      BY <1>0, <1>2, NumberIs_1, Zenon
    <2> QED
      BY <1>2, <2>1, NumberExtends
  <1>3. CASE Part_1(f, "struct")
    <2>1. /\ Layout_0(f.fields)
          /\ Call_1(f, a) = [o \in 0..Len(a) |-> read_0(f.fields, a, o, limits)]
          /\ Call_1(f, b) = [o \in 0..Len(b) |-> read_0(f.fields, b, o, limits)]
      BY <1>0, <1>3, StructIs_1, Zenon DEF Part_1
    <2>2. Extends([o \in 0..Len(a) |-> read_0(f.fields, a, o, limits)],
                  [o \in 0..Len(b) |-> read_0(f.fields, b, o, limits)], Len(a))
      BY <2>1, Extends_0
    <2> QED
      BY <2>1, <2>2
  <1>4. CASE Part_1(f, "list")
    <2> DEFINE part == [o \in 0..Len(a) |-> read_0(f.fields, a, o, limits)]
               parts == [o \in 0..Len(b) |-> read_0(f.fields, b, o, limits)]
    <2>1. /\ Layout_0(f.fields)
          /\ Call_1(f, a) = [o \in 0..Len(a) |-> get_list(part, a, o, limits[f.limit])]
          /\ Call_1(f, b) = [o \in 0..Len(b) |-> get_list(parts, b, o, limits[f.limit])]
      BY <1>4 DEF Part_1, Call_1, get_field
    <2>2. Extends(part, parts, Len(a))
      BY <2>1, Extends_0
    <2> HIDE DEF part, parts
    <2>3. Extends([o \in 0..Len(a) |-> get_list(part, a, o, limits[f.limit])],
                  [o \in 0..Len(b) |-> get_list(parts, b, o, limits[f.limit])], Len(a))
      BY <2>2, ListExtends
    <2> QED
      BY <2>1, <2>3
  <1> QED
    BY <1>1, <1>2, <1>3, <1>4, Zenon DEF Nested_1, Scalar

\* So are all the fields of a layout.
LEMMA Extends_1 ==
    ASSUME NEW fields, Layout_1(fields), NEW a, NEW b, Prefix(a, b)
    PROVE  Extends([o \in 0..Len(a) |-> read_1(fields, a, o, limits)],
                   [o \in 0..Len(b) |-> read_1(fields, b, o, limits)], Len(a))
  <1> DEFINE n == Len(fields)
             call == [o \in 0..Len(a) |-> read_1(fields, a, o, limits)]
             more == [o \in 0..Len(b) |-> read_1(fields, b, o, limits)]
             c == [i \in DOMAIN fields |-> Call_1(fields[i], a)]
             d == [i \in DOMAIN fields |-> Call_1(fields[i], b)]
             names == [i \in DOMAIN fields |-> fields[i].name]
  <1>1. n \in Nat /\ DOMAIN fields = 1..n /\ \A i \in 1..n : Nested_1(fields[i])
    BY Layout_1_Is
  <1>2. call = [o \in 0..Len(a) |-> InOrder(c, names, o)]
        /\ more = [o \in 0..Len(b) |-> InOrder(d, names, o)]
    BY DEF read_1, get_fields, Call_1
  <1>3. Len(c) = n /\ Len(d) = n
    <2>1. c = [i \in 1..n |-> c[i]] /\ d = [i \in 1..n |-> d[i]]
      BY <1>1
    <2> HIDE DEF c, d
    <2> QED
      BY <1>1, <2>1, SequenceOf
  <1>4. \A i \in 1..n : c[i] = Call_1(fields[i], a) /\ d[i] = Call_1(fields[i], b)
    BY <1>1
  <1> HIDE DEF n, call, more, c, d, names
  <1>5. \A i \in 1..n : Extends(c[i], d[i], Len(a))
    BY <1>1, <1>4, FieldExtends_1
  <1>6. AllExtend(c, d, n, Len(a))
    BY <1>3, <1>5, Zenon DEF AllExtend
  <1>7. Len(a) \in Nat /\ Len(b) \in Nat /\ Len(a) <= Len(b)
    BY DEF Prefix
  <1>8. ASSUME NEW o \in 0..Len(a), call[o].ok
        PROVE  call[o].off \in o..Len(a) /\ more[o] = call[o]
    <2>1. o \in 0..Len(b)
      BY <1>7
    <2>2. call[o] = InOrder(c, names, o) /\ more[o] = InOrder(d, names, o)
      BY <1>2, <2>1
    <2>3. InOrder(c, names, o).ok
      BY <1>8, <2>2
    <2>4. GoesOn(InOrder(c, names, o), InOrder(d, names, o), o, Len(a))
      BY <1>1, <1>6, <1>7, <2>3, InOrderGoesOn
    <2> QED
      BY <2>2, <2>4, Zenon DEF GoesOn
  <1>9. Extends(call, more, Len(a))
    BY <1>8, Zenon DEF Extends
  <1> QED
    BY <1>9 DEF call, more

\* One field that was read is read again when bytes follow.
LEMMA FieldExtends_2 ==
    ASSUME NEW f, Nested_2(f), NEW a, NEW b, Prefix(a, b)
    PROVE  Extends(Call_2(f, a), Call_2(f, b), Len(a))
  <1>0. a \in Seq(Byte) /\ b \in Seq(Byte)
    BY DEF Prefix
  <1>1. CASE IsString(f)
    <2>1. /\ Call_2(f, a) = [o \in 0..Len(a) |-> get_string(a, o, limits)]
          /\ Call_2(f, b) = [o \in 0..Len(b) |-> get_string(b, o, limits)]
      BY <1>0, <1>1, StringIs_2, Zenon
    <2> QED
      BY <2>1, StringExtends
  <1>2. CASE IsNumber(f)
    <2>1. /\ Call_2(f, a) = [o \in 0..Len(a) |-> get_number(f, a, o)]
          /\ Call_2(f, b) = [o \in 0..Len(b) |-> get_number(f, b, o)]
      BY <1>0, <1>2, NumberIs_2, Zenon
    <2> QED
      BY <1>2, <2>1, NumberExtends
  <1>3. CASE Part_2(f, "struct")
    <2>1. /\ Layout_1(f.fields)
          /\ Call_2(f, a) = [o \in 0..Len(a) |-> read_1(f.fields, a, o, limits)]
          /\ Call_2(f, b) = [o \in 0..Len(b) |-> read_1(f.fields, b, o, limits)]
      BY <1>0, <1>3, StructIs_2, Zenon DEF Part_2
    <2>2. Extends([o \in 0..Len(a) |-> read_1(f.fields, a, o, limits)],
                  [o \in 0..Len(b) |-> read_1(f.fields, b, o, limits)], Len(a))
      BY <2>1, Extends_1
    <2> QED
      BY <2>1, <2>2
  <1>4. CASE Part_2(f, "list")
    <2> DEFINE part == [o \in 0..Len(a) |-> read_1(f.fields, a, o, limits)]
               parts == [o \in 0..Len(b) |-> read_1(f.fields, b, o, limits)]
    <2>1. /\ Layout_1(f.fields)
          /\ Call_2(f, a) = [o \in 0..Len(a) |-> get_list(part, a, o, limits[f.limit])]
          /\ Call_2(f, b) = [o \in 0..Len(b) |-> get_list(parts, b, o, limits[f.limit])]
      BY <1>4 DEF Part_2, Call_2, get_field
    <2>2. Extends(part, parts, Len(a))
      BY <2>1, Extends_1
    <2> HIDE DEF part, parts
    <2>3. Extends([o \in 0..Len(a) |-> get_list(part, a, o, limits[f.limit])],
                  [o \in 0..Len(b) |-> get_list(parts, b, o, limits[f.limit])], Len(a))
      BY <2>2, ListExtends
    <2> QED
      BY <2>1, <2>3
  <1> QED
    BY <1>1, <1>2, <1>3, <1>4, Zenon DEF Nested_2, Scalar

\* So are all the fields of a layout.
LEMMA Extends_2 ==
    ASSUME NEW fields, Layout_2(fields), NEW a, NEW b, Prefix(a, b)
    PROVE  Extends([o \in 0..Len(a) |-> read_2(fields, a, o, limits)],
                   [o \in 0..Len(b) |-> read_2(fields, b, o, limits)], Len(a))
  <1> DEFINE n == Len(fields)
             call == [o \in 0..Len(a) |-> read_2(fields, a, o, limits)]
             more == [o \in 0..Len(b) |-> read_2(fields, b, o, limits)]
             c == [i \in DOMAIN fields |-> Call_2(fields[i], a)]
             d == [i \in DOMAIN fields |-> Call_2(fields[i], b)]
             names == [i \in DOMAIN fields |-> fields[i].name]
  <1>1. n \in Nat /\ DOMAIN fields = 1..n /\ \A i \in 1..n : Nested_2(fields[i])
    BY Layout_2_Is
  <1>2. call = [o \in 0..Len(a) |-> InOrder(c, names, o)]
        /\ more = [o \in 0..Len(b) |-> InOrder(d, names, o)]
    BY DEF read_2, get_fields, Call_2
  <1>3. Len(c) = n /\ Len(d) = n
    <2>1. c = [i \in 1..n |-> c[i]] /\ d = [i \in 1..n |-> d[i]]
      BY <1>1
    <2> HIDE DEF c, d
    <2> QED
      BY <1>1, <2>1, SequenceOf
  <1>4. \A i \in 1..n : c[i] = Call_2(fields[i], a) /\ d[i] = Call_2(fields[i], b)
    BY <1>1
  <1> HIDE DEF n, call, more, c, d, names
  <1>5. \A i \in 1..n : Extends(c[i], d[i], Len(a))
    BY <1>1, <1>4, FieldExtends_2
  <1>6. AllExtend(c, d, n, Len(a))
    BY <1>3, <1>5, Zenon DEF AllExtend
  <1>7. Len(a) \in Nat /\ Len(b) \in Nat /\ Len(a) <= Len(b)
    BY DEF Prefix
  <1>8. ASSUME NEW o \in 0..Len(a), call[o].ok
        PROVE  call[o].off \in o..Len(a) /\ more[o] = call[o]
    <2>1. o \in 0..Len(b)
      BY <1>7
    <2>2. call[o] = InOrder(c, names, o) /\ more[o] = InOrder(d, names, o)
      BY <1>2, <2>1
    <2>3. InOrder(c, names, o).ok
      BY <1>8, <2>2
    <2>4. GoesOn(InOrder(c, names, o), InOrder(d, names, o), o, Len(a))
      BY <1>1, <1>6, <1>7, <2>3, InOrderGoesOn
    <2> QED
      BY <2>2, <2>4, Zenon DEF GoesOn
  <1>9. Extends(call, more, Len(a))
    BY <1>8, Zenon DEF Extends
  <1> QED
    BY <1>9 DEF call, more

\* One field that was read is read again when bytes follow.
LEMMA FieldExtends_3 ==
    ASSUME NEW f, Nested_3(f), NEW a, NEW b, Prefix(a, b)
    PROVE  Extends(Call_3(f, a), Call_3(f, b), Len(a))
  <1>0. a \in Seq(Byte) /\ b \in Seq(Byte)
    BY DEF Prefix
  <1>1. CASE IsString(f)
    <2>1. /\ Call_3(f, a) = [o \in 0..Len(a) |-> get_string(a, o, limits)]
          /\ Call_3(f, b) = [o \in 0..Len(b) |-> get_string(b, o, limits)]
      BY <1>0, <1>1, StringIs_3, Zenon
    <2> QED
      BY <2>1, StringExtends
  <1>2. CASE IsNumber(f)
    <2>1. /\ Call_3(f, a) = [o \in 0..Len(a) |-> get_number(f, a, o)]
          /\ Call_3(f, b) = [o \in 0..Len(b) |-> get_number(f, b, o)]
      BY <1>0, <1>2, NumberIs_3, Zenon
    <2> QED
      BY <1>2, <2>1, NumberExtends
  <1>3. CASE Part_3(f, "struct")
    <2>1. /\ Layout_2(f.fields)
          /\ Call_3(f, a) = [o \in 0..Len(a) |-> read_2(f.fields, a, o, limits)]
          /\ Call_3(f, b) = [o \in 0..Len(b) |-> read_2(f.fields, b, o, limits)]
      BY <1>0, <1>3, StructIs_3, Zenon DEF Part_3
    <2>2. Extends([o \in 0..Len(a) |-> read_2(f.fields, a, o, limits)],
                  [o \in 0..Len(b) |-> read_2(f.fields, b, o, limits)], Len(a))
      BY <2>1, Extends_2
    <2> QED
      BY <2>1, <2>2
  <1>4. CASE Part_3(f, "list")
    <2> DEFINE part == [o \in 0..Len(a) |-> read_2(f.fields, a, o, limits)]
               parts == [o \in 0..Len(b) |-> read_2(f.fields, b, o, limits)]
    <2>1. /\ Layout_2(f.fields)
          /\ Call_3(f, a) = [o \in 0..Len(a) |-> get_list(part, a, o, limits[f.limit])]
          /\ Call_3(f, b) = [o \in 0..Len(b) |-> get_list(parts, b, o, limits[f.limit])]
      BY <1>4 DEF Part_3, Call_3, get_field
    <2>2. Extends(part, parts, Len(a))
      BY <2>1, Extends_2
    <2> HIDE DEF part, parts
    <2>3. Extends([o \in 0..Len(a) |-> get_list(part, a, o, limits[f.limit])],
                  [o \in 0..Len(b) |-> get_list(parts, b, o, limits[f.limit])], Len(a))
      BY <2>2, ListExtends
    <2> QED
      BY <2>1, <2>3
  <1> QED
    BY <1>1, <1>2, <1>3, <1>4, Zenon DEF Nested_3, Scalar

\* So are all the fields of a layout.
LEMMA Extends_3 ==
    ASSUME NEW fields, Layout_3(fields), NEW a, NEW b, Prefix(a, b)
    PROVE  Extends([o \in 0..Len(a) |-> read(fields, a, o, limits)],
                   [o \in 0..Len(b) |-> read(fields, b, o, limits)], Len(a))
  <1> DEFINE n == Len(fields)
             call == [o \in 0..Len(a) |-> read(fields, a, o, limits)]
             more == [o \in 0..Len(b) |-> read(fields, b, o, limits)]
             c == [i \in DOMAIN fields |-> Call_3(fields[i], a)]
             d == [i \in DOMAIN fields |-> Call_3(fields[i], b)]
             names == [i \in DOMAIN fields |-> fields[i].name]
  <1>1. n \in Nat /\ DOMAIN fields = 1..n /\ \A i \in 1..n : Nested_3(fields[i])
    BY Layout_3_Is
  <1>2. call = [o \in 0..Len(a) |-> InOrder(c, names, o)]
        /\ more = [o \in 0..Len(b) |-> InOrder(d, names, o)]
    BY DEF read, get_fields, Call_3
  <1>3. Len(c) = n /\ Len(d) = n
    <2>1. c = [i \in 1..n |-> c[i]] /\ d = [i \in 1..n |-> d[i]]
      BY <1>1
    <2> HIDE DEF c, d
    <2> QED
      BY <1>1, <2>1, SequenceOf
  <1>4. \A i \in 1..n : c[i] = Call_3(fields[i], a) /\ d[i] = Call_3(fields[i], b)
    BY <1>1
  <1> HIDE DEF n, call, more, c, d, names
  <1>5. \A i \in 1..n : Extends(c[i], d[i], Len(a))
    BY <1>1, <1>4, FieldExtends_3
  <1>6. AllExtend(c, d, n, Len(a))
    BY <1>3, <1>5, Zenon DEF AllExtend
  <1>7. Len(a) \in Nat /\ Len(b) \in Nat /\ Len(a) <= Len(b)
    BY DEF Prefix
  <1>8. ASSUME NEW o \in 0..Len(a), call[o].ok
        PROVE  call[o].off \in o..Len(a) /\ more[o] = call[o]
    <2>1. o \in 0..Len(b)
      BY <1>7
    <2>2. call[o] = InOrder(c, names, o) /\ more[o] = InOrder(d, names, o)
      BY <1>2, <2>1
    <2>3. InOrder(c, names, o).ok
      BY <1>8, <2>2
    <2>4. GoesOn(InOrder(c, names, o), InOrder(d, names, o), o, Len(a))
      BY <1>1, <1>6, <1>7, <2>3, InOrderGoesOn
    <2> QED
      BY <2>2, <2>4, Zenon DEF GoesOn
  <1>9. Extends(call, more, Len(a))
    BY <1>8, Zenon DEF Extends
  <1> QED
    BY <1>9 DEF call, more

-----------------------------------------------------------------------------
(***************************************************************************)
(* Messages.                                                               *)
(***************************************************************************)
LEMMA PrefixAt ==
    ASSUME NEW a, NEW b, Prefix(a, b)
    PROVE  At(b, 0, a) /\ 0 \in 0..Len(b) /\ 0 + Len(a) = Len(a)
  <1>1. Len(a) \in Nat /\ Len(b) \in Nat /\ Len(a) <= Len(b)
    BY DEF Prefix
  <1>2. 0 + Len(a) <= Len(b) /\ 0 + Len(a) = Len(a) /\ 0 \in 0..Len(b)
    BY <1>1
  <1>3. \A j \in 1..Len(a) : 0 + j = j
    BY <1>1
  <1> QED
    BY <1>2, <1>3, Zenon DEF At, Prefix

\* Bytes are a prefix of themselves.
LEMMA PrefixSelf == \A a \in Seq(Byte) : Prefix(a, a)
  <1> SUFFICES ASSUME NEW a \in Seq(Byte) PROVE Prefix(a, a)
    OBVIOUS
  <1>1. Len(a) <= Len(a)
    OBVIOUS
  <1> QED
    BY <1>1, Zenon DEF Prefix

\* A prefix that is not the whole is shorter.
LEMMA PrefixShort ==
    ASSUME NEW a, NEW b, Prefix(a, b), a # b
    PROVE  Len(a) < Len(b)
  <1>1. a \in Seq(Byte) /\ b \in Seq(Byte) /\ Len(a) <= Len(b) /\ \A j \in 1..Len(a) : a[j] = b[j]
    BY DEF Prefix
  <1>2. Len(a) # Len(b)
    BY <1>1, SameSeq
  <1>3. Len(a) \in Nat /\ Len(b) \in Nat
    BY <1>1
  <1> QED
    BY <1>1, <1>2, <1>3

\* Where the payload of m stands first, its layout reads m and stops after it, or fails.
ReadsFirst(fields, bs, m, size) ==
    read(fields, bs, 0, limits) = Read(m, size)

\* What was written is read from the front of whatever begins with it, exactly if it is
\* allowed.
LEMMA PayloadRead ==
    ASSUME NEW fields, Layout_3(fields), NEW m, Typed(fields, m), NEW bs,
           Prefix(writer_bytes(fields, m), bs)
    PROVE  IF Allowed(fields, m) THEN ReadsFirst(fields, bs, m, Len(writer_bytes(fields, m)))
                                 ELSE ~read(fields, bs, 0, limits).ok
  <1> DEFINE call == [o \in 0..Len(bs) |-> read(fields, bs, o, limits)]
  <1>1. PICK c : c = writer_bytes(fields, m)
    OBVIOUS
  <1>2. bs \in Seq(Byte)
    BY DEF Prefix
  <1>3. Decodes(call, bs, c, m, Allowed(fields, m))
    BY <1>1, <1>2, Decodes_3
  <1>4. At(bs, 0, c) /\ 0 \in 0..Len(bs) /\ 0 + Len(c) = Len(c)
    BY <1>1, PrefixAt
  <1>5. call[0] = read(fields, bs, 0, limits)
    BY <1>4
  <1> HIDE DEF call
  <1>6. CASE Allowed(fields, m)
    <2>1. call[0] = Read(m, Len(c))
      BY <1>3, <1>4, <1>6, Zenon DEF Decodes, Reads
    <2> QED
      BY <1>1, <1>5, <1>6, <2>1, Zenon DEF ReadsFirst
  <1>7. CASE ~Allowed(fields, m)
    <2>1. ~call[0].ok
      BY <1>3, <1>4, <1>7, Zenon DEF Decodes, Refuses
    <2> QED
      BY <1>5, <1>7, <2>1
  <1> QED
    BY <1>6, <1>7

\* The payload of a message is read back exactly if the message is allowed.
LEMMA MessageDecodes ==
    ASSUME NEW fields, Layout_3(fields), NEW m, Typed(fields, m), NEW payload,
           payload = writer_bytes(fields, m), Len(payload) <= limits.max_payload_bytes
    PROVE  decode_message(fields, payload, limits)
             = IF Allowed(fields, m) THEN Read(m, Len(payload)) ELSE Failure
  <1>1. payload \in Seq(Byte)
    BY Bytes_3
  <1>2. Prefix(payload, payload)
    BY <1>1, PrefixSelf
  <1>3. IF Allowed(fields, m) THEN ReadsFirst(fields, payload, m, Len(payload))
                              ELSE ~read(fields, payload, 0, limits).ok
    BY <1>2, PayloadRead
  <1>4. CASE Allowed(fields, m)
    <2>1. read(fields, payload, 0, limits) = Read(m, Len(payload))
      BY <1>3, <1>4 DEF ReadsFirst
    <2>2. Read(m, Len(payload)).ok /\ Read(m, Len(payload)).off = Len(payload)
      BY DEF Read
    <2> QED
      BY <1>4, <2>1, <2>2, Zenon DEF decode_message, Exhausted
  <1>5. CASE ~Allowed(fields, m)
    BY <1>3, <1>5, Zenon DEF decode_message
  <1> QED
    BY <1>4, <1>5

\* A payload that ends early or goes on is refused.
LEMMA MessageResized ==
    ASSUME NEW fields, Layout_3(fields), NEW m, Typed(fields, m), NEW payload,
           payload = writer_bytes(fields, m), NEW p, p # payload,
           Prefix(p, payload) \/ Prefix(payload, p)
    PROVE  ~decode_message(fields, p, limits).ok
  <1> SUFFICES ASSUME decode_message(fields, p, limits).ok PROVE FALSE
    OBVIOUS
  <1>1. ~Failure.ok
    BY DEF Failure
  <1>2. read(fields, p, 0, limits).ok /\ read(fields, p, 0, limits).off = Len(p)
    BY <1>1, Zenon DEF decode_message, Exhausted
  <1>3. payload \in Seq(Byte) /\ p \in Seq(Byte)
    BY Bytes_3 DEF Prefix
  <1>4. Read(m, Len(payload)).off = Len(payload)
    BY DEF Read
  <1>5. CASE Prefix(payload, p)
    <2>1. Len(payload) < Len(p)
      BY <1>5, PrefixShort
    <2>2. read(fields, p, 0, limits) = Read(m, Len(payload))
      BY <1>2, <1>5, PayloadRead DEF ReadsFirst
    <2>3. Len(p) = Len(payload)
      BY <1>2, <1>4, <2>2
    <2> QED
      BY <2>1, <2>3, <1>3
  <1>6. CASE Prefix(p, payload)
    <2>1. Len(p) < Len(payload)
      BY <1>6, PrefixShort
    <2> DEFINE call == [o \in 0..Len(p) |-> read(fields, p, o, limits)]
               more == [o \in 0..Len(payload) |-> read(fields, payload, o, limits)]
    <2>2. Extends(call, more, Len(p))
      BY <1>6, Extends_3
    <2>3. 0 \in 0..Len(p) /\ 0 \in 0..Len(payload)
      BY <1>3
    <2>4. call[0] = read(fields, p, 0, limits) /\ more[0] = read(fields, payload, 0, limits)
      BY <2>3
    <2> HIDE DEF call, more
    <2>5. more[0] = call[0]
      BY <1>2, <2>2, <2>3, <2>4, Zenon DEF Extends
    <2>6. read(fields, payload, 0, limits).ok /\ read(fields, payload, 0, limits).off = Len(p)
      BY <1>2, <2>4, <2>5
    <2>7. Prefix(payload, payload)
      BY <1>3, PrefixSelf
    <2>8. read(fields, payload, 0, limits) = Read(m, Len(payload))
      BY <2>6, <2>7, PayloadRead DEF ReadsFirst
    <2>9. Len(p) = Len(payload)
      BY <1>4, <2>6, <2>8
    <2> QED
      BY <1>3, <2>1, <2>9
  <1> QED
    BY <1>5, <1>6

-----------------------------------------------------------------------------
(***************************************************************************)
(* Sorting.  A strict order on 1..n is a set of pairs.                     *)
(***************************************************************************)
StrictOrder(L, n) ==
    /\ \A i \in 1..n : <<i, i>> \notin L
    /\ \A i, j, k \in 1..n : <<i, j>> \in L /\ <<j, k>> \in L => <<i, k>> \in L
    /\ \A i, j \in 1..n : i # j => <<i, j>> \in L \/ <<j, i>> \in L

Permutation(p, n) ==
    /\ p \in [1..n -> 1..n]
    /\ \A i, j \in 1..n : i # j => p[i] # p[j]
    /\ \A k \in 1..n : \E i \in 1..n : p[i] = k

\* A bijection of 1..n, spelled out.
LEMMA PermutationIs == \A p : \A n \in Nat : p \in Bijection(1..n, 1..n) <=> Permutation(p, n)
  BY DEF Bijection, Injection, Surjection, IsInjective, Permutation

\* An injection of 1..n into itself is a permutation.
LEMMA InjectionPermutes ==
    ASSUME NEW n \in Nat, NEW r \in [1..n -> 1..n],
           \A i, j \in 1..n : i # j => r[i] # r[j]
    PROVE  Permutation(r, n)
  <1>1. r \in Injection(1..n, 1..n)
    BY DEF Injection, IsInjective
  <1>2. IsFiniteSet(1..n)
    BY FS_Interval
  <1>3. r \in Surjection(1..n, 1..n)
    BY <1>1, <1>2, FS_Injection
  <1> QED
    BY <1>3 DEF Surjection, Permutation

\* Its inverse is one.
LEMMA InversePermutes ==
    ASSUME NEW n \in Nat, NEW r, Permutation(r, n)
    PROVE  \E p : Permutation(p, n) /\ \A k \in 1..n : r[p[k]] = k
  <1> DEFINE p == [k \in 1..n |-> CHOOSE i \in 1..n : r[i] = k]
  <1>1. \A k \in 1..n : p[k] \in 1..n /\ r[p[k]] = k
    BY DEF Permutation
  <1>2. p \in [1..n -> 1..n]
    BY <1>1
  <1> HIDE DEF p
  <1>3. \A i, j \in 1..n : i # j => p[i] # p[j]
    BY <1>1
  <1>4. Permutation(p, n)
    BY <1>2, <1>3, InjectionPermutes
  <1> QED
    BY <1>1, <1>4

\* Every strict order is that of some permutation: each number goes where as many are
\* below it.
LEMMA OrderSorts ==
    ASSUME NEW n \in Nat, NEW L, StrictOrder(L, n)
    PROVE  \E p : Permutation(p, n) /\ \A i, j \in 1..n : i < j => <<p[i], p[j]>> \in L
  <1> DEFINE Below(i) == {j \in 1..n : <<j, i>> \in L}
             r == [i \in 1..n |-> Cardinality(Below(i)) + 1]
  <1>1. IsFiniteSet(1..n) /\ Cardinality(1..n) = n
    BY FS_Interval
  <1>2. ASSUME NEW i \in 1..n PROVE IsFiniteSet(Below(i)) /\ Cardinality(Below(i)) \in Nat
                                    /\ Cardinality(Below(i)) < n
    <2>1. Below(i) \in SUBSET (1..n) /\ Below(i) # 1..n
      BY DEF StrictOrder
    <2> HIDE DEF Below
    <2>2. /\ IsFiniteSet(Below(i)) /\ Cardinality(Below(i)) <= n
          /\ n = Cardinality(Below(i)) => 1..n = Below(i)
      BY <1>1, <2>1, FS_Subset
    <2>3. Cardinality(Below(i)) \in Nat
      BY <2>2, FS_CardinalityType
    <2> QED
      BY <2>1, <2>2, <2>3
  <1>3. ASSUME NEW i \in 1..n, NEW j \in 1..n, <<i, j>> \in L
        PROVE  Cardinality(Below(i)) < Cardinality(Below(j))
    <2>1. Below(i) \in SUBSET Below(j)
      BY <1>3, Zenon DEF StrictOrder
    <2>2. Below(i) # Below(j)
      <3>1. i \in Below(j) /\ i \notin Below(i)
        BY <1>3, Zenon DEF StrictOrder
      <3> QED
        BY <3>1
    <2>3. IsFiniteSet(Below(j)) /\ Cardinality(Below(i)) \in Nat /\ Cardinality(Below(j)) \in Nat
      BY <1>2
    <2> HIDE DEF Below
    <2>4. /\ Cardinality(Below(i)) <= Cardinality(Below(j))
          /\ Cardinality(Below(j)) = Cardinality(Below(i)) => Below(j) = Below(i)
      BY <2>1, <2>3, FS_Subset
    <2> QED
      BY <2>2, <2>3, <2>4
  <1>4. \A i \in 1..n : r[i] = Cardinality(Below(i)) + 1
    OBVIOUS
  <1>5. r \in [1..n -> 1..n]
    <2> HIDE DEF Below
    <2>1. \A i \in 1..n : Cardinality(Below(i)) + 1 \in 1..n
      BY <1>2
    <2> QED
      BY <2>1
  <1> HIDE DEF r, Below
  <1>6. \A i, j \in 1..n : <<i, j>> \in L => r[i] < r[j]
    <2> SUFFICES ASSUME NEW i \in 1..n, NEW j \in 1..n, <<i, j>> \in L PROVE r[i] < r[j]
      OBVIOUS
    <2>1. Cardinality(Below(i)) < Cardinality(Below(j))
      BY <1>3
    <2>2. Cardinality(Below(i)) \in Nat /\ Cardinality(Below(j)) \in Nat
      BY <1>2
    <2> QED
      BY <1>4, <2>1, <2>2
  <1>7. \A i, j \in 1..n : i # j => r[i] # r[j]
    <2> SUFFICES ASSUME NEW i \in 1..n, NEW j \in 1..n, i # j PROVE r[i] # r[j]
      OBVIOUS
    <2>1. <<i, j>> \in L \/ <<j, i>> \in L
      BY DEF StrictOrder
    <2>2. r[i] < r[j] \/ r[j] < r[i]
      BY <1>6, <2>1
    <2>3. r[i] \in Int /\ r[j] \in Int
      BY <1>5
    <2> QED
      BY <2>2, <2>3
  <1>8. PICK p : Permutation(p, n) /\ \A k \in 1..n : r[p[k]] = k
    BY <1>5, <1>7, InjectionPermutes, InversePermutes
  <1>9. ASSUME NEW i \in 1..n, NEW j \in 1..n, i < j PROVE <<p[i], p[j]>> \in L
    <2>1. p[i] \in 1..n /\ p[j] \in 1..n /\ p[i] # p[j] /\ r[p[i]] = i /\ r[p[j]] = j
      BY <1>8, <1>9, SMTT(30) DEF Permutation
    <2>2. <<p[i], p[j]>> \in L \/ <<p[j], p[i]>> \in L
      BY <2>1, Zenon DEF StrictOrder
    <2>3. <<p[j], p[i]>> \in L => j < i
      BY <1>6, <2>1
    <2> QED
      BY <1>9, <2>2, <2>3
  <1> QED
    BY <1>8, <1>9

\* A permutation that keeps the order of numbers changes nothing.
LEMMA OnlyIdentity ==
    ASSUME NEW n \in Nat, NEW p, Permutation(p, n), \A i, j \in 1..n : i < j => p[i] < p[j]
    PROVE  \A i \in 1..n : p[i] = i
  <1> DEFINE T == {i \in 1..n : p[i] # i}
  <1> SUFFICES ASSUME T # {} PROVE FALSE
    OBVIOUS
  <1>1. T \subseteq Nat
    OBVIOUS
  <1>2. PICK m \in T : \A k \in T : m <= k
    BY <1>1, LeastElement
  <1>3. m \in 1..n /\ p[m] # m /\ p[m] \in 1..n
    BY DEF Permutation
  <1>4. PICK k \in 1..n : p[k] = m
    BY <1>3 DEF Permutation
  <1>5. \A i \in 1..n : i < m => p[i] = i
    BY <1>2, <1>3
  <1>6. m < k
    <2>1. ~(k < m)
      BY <1>3, <1>4, <1>5
    <2>2. k # m
      BY <1>3, <1>4
    <2> QED
      BY <1>3, <2>1, <2>2
  <1>7. p[m] < m
    BY <1>3, <1>4, <1>6
  <1>8. p[p[m]] = p[m]
    BY <1>3, <1>5, <1>7
  <1> QED
    BY <1>3, <1>8 DEF Permutation

\* Less is a strict order on what has a number for each key.
HasKeys(a, keys) == \A k \in DOMAIN keys : a[keys[k]] \in Int
KeyTuple(keys) == Len(keys) \in Nat /\ DOMAIN keys = 1..Len(keys)

\* Less is irreflexive
LEMMA LessIrreflexive == ASSUME NEW a, NEW keys, HasKeys(a, keys) PROVE ~Less(a, a, keys)
  BY DEF HasKeys, Less

\* and transitive.
LEMMA LessTransitive ==
    ASSUME NEW a, NEW b, NEW c, NEW keys, KeyTuple(keys), HasKeys(a, keys), HasKeys(b, keys),
           HasKeys(c, keys), Less(a, b, keys), Less(b, c, keys)
    PROVE  Less(a, c, keys)
  <1>1. PICK i \in DOMAIN keys : /\ a[keys[i]] < b[keys[i]]
                                 /\ \A k \in 1..(i - 1) : a[keys[k]] = b[keys[k]]
    BY Zenon DEF Less
  <1>2. PICK j \in DOMAIN keys : /\ b[keys[j]] < c[keys[j]]
                                 /\ \A k \in 1..(j - 1) : b[keys[k]] = c[keys[k]]
    BY Zenon DEF Less
  <1>3. i \in 1..Len(keys) /\ j \in 1..Len(keys) /\ Len(keys) \in Nat
    BY DEF KeyTuple
  <1>4. \A k \in DOMAIN keys : a[keys[k]] \in Int /\ b[keys[k]] \in Int /\ c[keys[k]] \in Int
    BY DEF HasKeys
  <1>5. CASE i < j
    <2>1. i \in 1..(j - 1) /\ \A k \in 1..(i - 1) : k \in 1..(j - 1)
      BY <1>3, <1>5
    <2>2. a[keys[i]] < c[keys[i]]
      BY <1>1, <1>2, <2>1
    <2>3. \A k \in 1..(i - 1) : a[keys[k]] = c[keys[k]]
      BY <1>1, <1>2, <2>1
    <2> QED
      BY <2>2, <2>3, Zenon DEF Less
  <1>6. CASE j < i
    <2>1. j \in 1..(i - 1) /\ \A k \in 1..(j - 1) : k \in 1..(i - 1)
      BY <1>3, <1>6
    <2>2. a[keys[j]] < c[keys[j]]
      BY <1>1, <1>2, <2>1
    <2>3. \A k \in 1..(j - 1) : a[keys[k]] = c[keys[k]]
      BY <1>1, <1>2, <2>1
    <2> QED
      BY <2>2, <2>3, Zenon DEF Less
  <1>7. CASE i = j
    <2>1. a[keys[i]] < c[keys[i]]
      BY <1>1, <1>2, <1>4, <1>7
    <2>2. \A k \in 1..(i - 1) : a[keys[k]] = c[keys[k]]
      BY <1>1, <1>2, <1>7
    <2> QED
      BY <2>1, <2>2, Zenon DEF Less
  <1> QED
    BY <1>3, <1>5, <1>6, <1>7

\* A list in the order of its keys, which differ.
Ordered(t, n, keys) == \A i, j \in 1..n : i < j => Less(t[i], t[j], keys)
Keys(s, n, keys) == \A i \in 1..n : HasKeys(s[i], keys)
Apart(s, n, keys) ==
    \A i, j \in 1..n : i # j => Less(s[i], s[j], keys) \/ Less(s[j], s[i], keys)

\* Different keys, pair by pair.
LEMMA KeyedIs ==
    ASSUME NEW s, NEW n, DOMAIN s = 1..n, NEW keys
    PROVE  Keyed(s, keys) <=> Keys(s, n, keys) /\ Apart(s, n, keys)
  BY Zenon DEF Keyed, Keys, HasKeys, Apart

\* t is s in the order of the permutation p.
Rearranged(s, p, n) == [i \in 1..n |-> s[p[i]]]

\* The orders a list can be put into.
LEMMA OrdersAre ==
    ASSUME NEW n \in Nat, NEW s, DOMAIN s = 1..n, NEW t
    PROVE  t \in Orders(s) <=> \E p : Permutation(p, n) /\ t = Rearranged(s, p, n)
  <1>1. t \in Orders(s) <=> \E p \in Bijection(1..n, 1..n) : t = Rearranged(s, p, n)
    BY DEF Orders, Rearranged
  <1> QED
    BY <1>1, PermutationIs

\* There is an order in which the list is sorted.
LEMMA CanSort ==
    ASSUME NEW n \in Nat, NEW s, DOMAIN s = 1..n, NEW keys, KeyTuple(keys), Keyed(s, keys)
    PROVE  \E p : Permutation(p, n) /\ Ordered(Rearranged(s, p, n), n, keys)
  <1> DEFINE L == {e \in (1..n) \X (1..n) : Less(s[e[1]], s[e[2]], keys)}
  <1>1. Keys(s, n, keys) /\ Apart(s, n, keys)
    BY KeyedIs
  <1>2. \A i, j \in 1..n : <<i, j>> \in L <=> Less(s[i], s[j], keys)
    OBVIOUS
  <1> HIDE DEF L
  <1>3. \A i \in 1..n : HasKeys(s[i], keys)
    BY <1>1 DEF Keys
  <1>4. \A i \in 1..n : <<i, i>> \notin L
    BY <1>2, <1>3, LessIrreflexive
  <1>5. \A i, j, k \in 1..n : <<i, j>> \in L /\ <<j, k>> \in L => <<i, k>> \in L
    BY <1>2, <1>3, LessTransitive
  <1>6. \A i, j \in 1..n : i # j => <<i, j>> \in L \/ <<j, i>> \in L
    BY <1>1, <1>2, Zenon DEF Apart
  <1>7. StrictOrder(L, n)
    BY <1>4, <1>5, <1>6 DEF StrictOrder
  <1>8. PICK p : Permutation(p, n) /\ \A i, j \in 1..n : i < j => <<p[i], p[j]>> \in L
    BY <1>7, OrderSorts
  <1>9. \A i \in 1..n : p[i] \in 1..n /\ Rearranged(s, p, n)[i] = s[p[i]]
    BY <1>8 DEF Permutation, Rearranged
  <1>10. \A i, j \in 1..n : i < j => Less(Rearranged(s, p, n)[i], Rearranged(s, p, n)[j], keys)
    BY <1>2, <1>8, <1>9
  <1> QED
    BY <1>8, <1>10 DEF Ordered

\* A list whose keys are ordered is in no other order.
LEMMA OneOrder ==
    ASSUME NEW n \in Nat, NEW s, NEW keys, KeyTuple(keys), Keys(s, n, keys), Ordered(s, n, keys),
           NEW p, Permutation(p, n),
           \A i, j \in 1..n : i < j => ~Less(Rearranged(s, p, n)[j], Rearranged(s, p, n)[i], keys)
    PROVE  Rearranged(s, p, n) = [i \in 1..n |-> s[i]]
  <1>1. \A i \in 1..n : p[i] \in 1..n /\ Rearranged(s, p, n)[i] = s[p[i]]
    BY DEF Permutation, Rearranged
  <1>2. ASSUME NEW i \in 1..n, NEW j \in 1..n, i < j PROVE p[i] < p[j]
    <2>1. p[i] \in 1..n /\ p[j] \in 1..n /\ p[i] # p[j]
      BY <1>1, <1>2 DEF Permutation
    <2>2. ~Less(s[p[j]], s[p[i]], keys)
      BY <1>1, <1>2
    <2>3. ~(p[j] < p[i])
      BY <2>1, <2>2, Zenon DEF Ordered
    <2> QED
      BY <2>1, <2>3
  <1>3. \A i \in 1..n : p[i] = i
    BY <1>2, OnlyIdentity
  <1> QED
    BY <1>3 DEF Rearranged

\* What sort returns.
Sorts(s, n, keys, t) ==
    /\ Ordered(t, n, keys) /\ Keys(t, n, keys)
    /\ \E p : Permutation(p, n) /\ t = Rearranged(s, p, n)

\* std::sort on records with different keys: the one order there is.
LEMMA SortIs ==
    ASSUME NEW n \in Nat, NEW s, DOMAIN s = 1..n, NEW keys, KeyTuple(keys), Keyed(s, keys)
    PROVE  Sorts(s, n, keys, sort(s, keys))
  <1> DEFINE Best(t) == \A i, j \in 1..n : i < j => ~Less(t[j], t[i], keys)
  <1>1. Keys(s, n, keys) /\ Apart(s, n, keys)
    BY KeyedIs
  <1>2. PICK p : Permutation(p, n) /\ Ordered(Rearranged(s, p, n), n, keys)
    BY CanSort
  <1>3. PICK b : b = Rearranged(s, p, n)
    OBVIOUS
  <1>4. \A q : Permutation(q, n) => \A i \in 1..n : q[i] \in 1..n /\ Rearranged(s, q, n)[i] = s[q[i]]
    BY DEF Permutation, Rearranged
  <1>5. \A q : Permutation(q, n) => Keys(Rearranged(s, q, n), n, keys)
    BY <1>1, <1>4, Zenon DEF Keys
  <1>6. Best(b)
    <2> SUFFICES ASSUME NEW i \in 1..n, NEW j \in 1..n, i < j, Less(b[j], b[i], keys) PROVE FALSE
      OBVIOUS
    <2>1. Less(b[i], b[j], keys)
      BY <1>2, <1>3, Zenon DEF Ordered
    <2>2. HasKeys(b[i], keys) /\ HasKeys(b[j], keys)
      BY <1>2, <1>3, <1>5, Zenon DEF Keys
    <2>3. Less(b[i], b[i], keys)
      BY <2>1, <2>2, LessTransitive
    <2> QED
      BY <2>2, <2>3, LessIrreflexive
  <1>7. b \in Orders(s)
    BY <1>2, <1>3, OrdersAre
  <1>8. PICK t : t = sort(s, keys)
    OBVIOUS
  <1>9. t \in Orders(s) /\ Best(t)
    <2>1. sort(s, keys) = CHOOSE u \in Orders(s) : Best(u)
      BY Zenon DEF sort
    <2> HIDE DEF Best
    <2> QED
      BY <1>6, <1>7, <1>8, <2>1, Zenon
  <1>10. PICK q : Permutation(q, n) /\ t = Rearranged(s, q, n)
    BY <1>9, OrdersAre
  <1>11. ASSUME NEW i \in 1..n, NEW j \in 1..n, i < j PROVE Less(t[i], t[j], keys)
    <2>1. q[i] \in 1..n /\ q[j] \in 1..n /\ q[i] # q[j] /\ t[i] = s[q[i]] /\ t[j] = s[q[j]]
      <3>1. i # j
        BY <1>11
      <3> QED
        BY <1>4, <1>10, <3>1, Zenon DEF Permutation
    <2>2. Less(t[i], t[j], keys) \/ Less(t[j], t[i], keys)
      BY <1>1, <2>1, Zenon DEF Apart
    <2> QED
      BY <1>9, <1>11, <2>2
  <1> QED
    BY <1>5, <1>8, <1>10, <1>11 DEF Sorts, Ordered

\* Sorting what is sorted changes nothing.
LEMMA SortSorted ==
    ASSUME NEW n \in Nat, NEW s, s = [i \in 1..n |-> s[i]], NEW keys, KeyTuple(keys),
           Keys(s, n, keys), Ordered(s, n, keys)
    PROVE  sort(s, keys) = s
  <1>1. DOMAIN s = 1..n
    OBVIOUS
  <1>2. Apart(s, n, keys)
    <2>1. \A i, j \in 1..n : i # j => i < j \/ j < i
      OBVIOUS
    <2> QED
      BY <2>1, Zenon DEF Apart, Ordered
  <1>3. Keyed(s, keys)
    BY <1>1, <1>2, KeyedIs
  <1>4. Sorts(s, n, keys, sort(s, keys))
    BY <1>1, <1>3, SortIs
  <1>5. PICK t : t = sort(s, keys)
    OBVIOUS
  <1>6. Keys(t, n, keys) /\ Ordered(t, n, keys)
    BY <1>4, <1>5 DEF Sorts
  <1>7. PICK p : Permutation(p, n) /\ t = Rearranged(s, p, n)
    BY <1>4, <1>5 DEF Sorts
  <1>8. ASSUME NEW i \in 1..n, NEW j \in 1..n, i < j, Less(t[j], t[i], keys) PROVE FALSE
    <2>1. Less(t[i], t[j], keys)
      BY <1>6, <1>8, Zenon DEF Ordered
    <2>2. HasKeys(t[i], keys) /\ HasKeys(t[j], keys)
      BY <1>6, Zenon DEF Keys
    <2>3. Less(t[i], t[i], keys)
      BY <1>8, <2>1, <2>2, LessTransitive
    <2> QED
      BY <2>2, <2>3, LessIrreflexive
  <1>9. t = [i \in 1..n |-> s[i]]
    BY <1>7, <1>8, OneOrder
  <1> QED
    BY <1>5, <1>9

-----------------------------------------------------------------------------
(***************************************************************************)
(* The order in which records were inserted is lost in the canonical state. *)
(***************************************************************************)
LEMMA ReversedIs ==
    ASSUME NEW n \in Nat, NEW s, DOMAIN s = 1..n, Len(s) = n
    PROVE  /\ Reversed(s) = [i \in 1..n |-> s[(n + 1) - i]] /\ DOMAIN Reversed(s) = 1..n
           /\ \A i \in 1..n : (n + 1) - i \in 1..n /\ (n + 1) - ((n + 1) - i) = i
  <1>1. Reversed(s) = [i \in 1..n |-> s[(n + 1) - i]]
    BY DEF Reversed
  <1> QED
    BY <1>1

\* Turning a list round is a permutation.
LEMMA TurnPermutes ==
    ASSUME NEW n \in Nat, NEW p, Permutation(p, n)
    PROVE  Permutation([i \in 1..n |-> (n + 1) - p[i]], n)
  <1> DEFINE q == [i \in 1..n |-> (n + 1) - p[i]]
  <1>1. \A i \in 1..n : p[i] \in 1..n
    BY DEF Permutation
  <1>2. q \in [1..n -> 1..n]
    BY <1>1
  <1>3. ASSUME NEW i \in 1..n, NEW j \in 1..n, i # j PROVE q[i] # q[j]
    <2>1. p[i] # p[j] /\ p[i] \in 1..n /\ p[j] \in 1..n
      BY <1>1, <1>3 DEF Permutation
    <2> QED
      BY <2>1
  <1> HIDE DEF q
  <1>4. Permutation(q, n)
    BY <1>2, <1>3, InjectionPermutes
  <1> QED
    BY <1>4 DEF q

\* A list and its reverse can be put into the same orders,
LEMMA ReversedOrders ==
    ASSUME NEW n \in Nat, NEW s, DOMAIN s = 1..n, Len(s) = n
    PROVE  Orders(Reversed(s)) = Orders(s)
  <1> DEFINE r == Reversed(s)
             turned(p) == [i \in 1..n |-> (n + 1) - p[i]]
  <1>1. DOMAIN r = 1..n /\ \A i \in 1..n : (n + 1) - i \in 1..n /\ (n + 1) - ((n + 1) - i) = i
    BY ReversedIs
  <1>2. \A i \in 1..n : r[i] = s[(n + 1) - i]
    BY ReversedIs
  <1> HIDE DEF r
  <1>3. ASSUME NEW p, Permutation(p, n)
        PROVE  /\ Permutation(turned(p), n) /\ Rearranged(r, p, n) = Rearranged(s, turned(p), n)
               /\ Rearranged(s, p, n) = Rearranged(r, turned(p), n)
    <2>1. \A i \in 1..n : p[i] \in 1..n
      BY <1>3 DEF Permutation
    <2>2. Permutation(turned(p), n)
      BY <1>3, TurnPermutes
    <2>3. \A i \in 1..n : turned(p)[i] = (n + 1) - p[i]
      OBVIOUS
    <2> HIDE DEF turned
    <2>4. \A i \in 1..n : r[p[i]] = s[turned(p)[i]]
      BY <1>2, <2>1, <2>3
    <2>5. \A i \in 1..n : s[p[i]] = r[turned(p)[i]]
      BY <1>1, <1>2, <2>1, <2>3
    <2> QED
      BY <2>2, <2>4, <2>5, Zenon DEF Rearranged
  <1> HIDE DEF turned
  <1>4. ASSUME NEW t PROVE t \in Orders(r) <=> t \in Orders(s)
    <2>1. t \in Orders(r) <=> \E p : Permutation(p, n) /\ t = Rearranged(r, p, n)
      BY <1>1, OrdersAre
    <2>2. t \in Orders(s) <=> \E p : Permutation(p, n) /\ t = Rearranged(s, p, n)
      BY OrdersAre
    <2> QED
      BY <1>3, <2>1, <2>2, Zenon
  <1> QED
    BY <1>4, Zenon DEF r

\* and are sorted alike.
LEMMA SortReversed == ASSUME NEW s, IsList(s), NEW keys PROVE sort(Reversed(s), keys) = sort(s, keys)
  <1>1. PICK n \in Nat : DOMAIN s = 1..n /\ Len(s) = n
    BY ListIs
  <1>2. DOMAIN Reversed(s) = DOMAIN s
    BY <1>1, ReversedIs
  <1>3. Orders(Reversed(s)) = Orders(s)
    BY <1>1, ReversedOrders
  <1> QED
    BY <1>2, <1>3, Zenon DEF sort

\* A record with the fields of a state, and one with the default weights and limits.
AnyState(state) ==
    state = [meta |-> state.meta, models |-> state.models, backends |-> state.backends,
             fenced_boots |-> state.fenced_boots, routes |-> state.routes,
             weights |-> state.weights, other_limits |-> state.other_limits]
IsState(state) ==
    state = [meta |-> state.meta, models |-> state.models, backends |-> state.backends,
             fenced_boots |-> state.fenced_boots, routes |-> state.routes,
             weights |-> DefaultWeights, other_limits |-> DefaultLimits]

\* The lists of the reordered state.
LEMMA ReorderedFields ==
    ASSUME NEW state, AnyState(state)
    PROVE  /\ Reordered(state).models = Reversed(state.models)
           /\ Reordered(state).backends = Reversed(state.backends)
           /\ Reordered(state).fenced_boots = Reversed(state.fenced_boots)
           /\ Reordered(state).routes = Reversed(state.routes)
           /\ Reordered(state).meta = state.meta /\ Reordered(state).weights = state.weights
           /\ Reordered(state).other_limits = state.other_limits
  <1>1. DOMAIN state = {"meta", "models", "backends", "fenced_boots", "routes", "weights",
                        "other_limits"}
    BY DEF AnyState
  <1> QED
    BY <1>1 DEF Reordered

\* canonicalize, with its parts named.
SortBindings(b) == [b EXCEPT !.model_bindings = sort(@, binding_keys)]
BindingsSorted(bs) == [i \in DOMAIN bs |-> SortBindings(bs[i])]

Canonical(meta, models, backends, fenced_boots, routes, weights, other) ==
    [meta |-> meta, models |-> models, backends |-> BindingsSorted(backends),
     fenced_boots |-> fenced_boots, routes |-> routes, weights |-> weights,
     other_limits |-> other]

\* canonicalize, with its parts named.
LEMMA CanonicalIs ==
    \A state : canonicalize(state) =
        Canonical(state.meta, sort(state.models, model_keys), sort(state.backends, backend_keys),
                  sort(state.fenced_boots, fenced_keys), sort(state.routes, route_keys),
                  state.weights, state.other_limits)
  BY DEF canonicalize, Canonical, BindingsSorted, SortBindings

\* canonicalize forgets the order of insertion.
LEMMA CanonicalReordered ==
    ASSUME NEW state, TypedState(state)
    PROVE  canonicalize(Reordered(state)) = canonicalize(state)
  <1>1. AnyState(state)
    BY Zenon DEF TypedState, AnyState
  <1>2. IsList(state.models) /\ IsList(state.backends) /\ IsList(state.fenced_boots)
        /\ IsList(state.routes)
    BY Zenon DEF TypedState
  <1>3. /\ sort(Reordered(state).models, model_keys) = sort(state.models, model_keys)
        /\ sort(Reordered(state).backends, backend_keys) = sort(state.backends, backend_keys)
        /\ sort(Reordered(state).fenced_boots, fenced_keys) = sort(state.fenced_boots, fenced_keys)
        /\ sort(Reordered(state).routes, route_keys) = sort(state.routes, route_keys)
    BY <1>1, <1>2, ReorderedFields, SortReversed
  <1>4. /\ Reordered(state).meta = state.meta /\ Reordered(state).weights = state.weights
        /\ Reordered(state).other_limits = state.other_limits
    BY <1>1, ReorderedFields
  <1> QED
    BY <1>3, <1>4, CanonicalIs

\* What encode makes of a canonical state.
Image(canonical) ==
    IF /\ validate(canonical, limits) /\ WritersOk(canonical, limits)
       /\ Records(canonical) + 1 <= limits.max_persistence_records
       /\ persistence_header_bytes + Len(Payload(canonical)) <= limits.max_persistence_bytes
    THEN [ok |-> TRUE, bytes |-> Cat(write_header(canonical, Payload(canonical)), Payload(canonical))]
    ELSE Rejected

\* encode, with its parts named.
LEMMA EncodeIs == \A state : encode(state, limits) = Image(canonicalize(state))
  BY Zenon DEF encode, Image, Cat

\* And so does encode.
LEMMA EncodeReordered ==
    ASSUME NEW state, TypedState(state)
    PROVE  encode(Reordered(state), limits) = encode(state, limits)
  <1>1. canonicalize(Reordered(state)) = canonicalize(state)
    BY CanonicalReordered
  <1> QED
    BY <1>1, EncodeIs

-----------------------------------------------------------------------------
(***************************************************************************)
(* A canonical state is canonical.                                         *)
(***************************************************************************)
Has(fields, name) == Shaped(fields) /\ \E f \in Elements(fields) : f.name = name

\* A field of one of two layouts is one of both together.
LEMMA CatHas ==
    \A a, b, name : Shaped(a) /\ Shaped(b) /\ (Has(a, name) \/ Has(b, name)) => Has(a \o b, name)
  <1> SUFFICES ASSUME NEW a, NEW b, NEW name, Shaped(a), Shaped(b), Has(a, name) \/ Has(b, name)
               PROVE  Has(a \o b, name)
    BY Zenon
  <1>1. Shaped(a \o b)
    BY CatShape
  <1>2. PICK S : a \in Seq(S) /\ b \in Seq(S)
    <2>1. PICK A, B : a \in Seq(A) /\ b \in Seq(B)
      BY DEF Shaped
    <2>2. a \in Seq(A \cup B) /\ b \in Seq(A \cup B)
      BY <2>1
    <2> QED
      BY <2>2
  <1>3. \A i \in 1..Len(a) : i \in 1..Len(a \o b) /\ (a \o b)[i] = a[i]
    BY <1>2
  <1>4. \A i \in 1..Len(b) : Len(a) + i \in 1..Len(a \o b) /\ (a \o b)[Len(a) + i] = b[i]
    BY <1>2
  <1>5. DOMAIN a = 1..Len(a) /\ DOMAIN b = 1..Len(b) /\ DOMAIN (a \o b) = 1..Len(a \o b)
    BY <1>2
  <1>6. \A f : f \in Elements(a) \/ f \in Elements(b) => f \in Elements(a \o b)
    BY <1>3, <1>4, <1>5 DEF Elements
  <1> QED
    BY <1>1, <1>6, Zenon DEF Has

\* A layout that has a field is a layout.
LEMMA HasShaped == \A a, name : Has(a, name) => Shaped(a)
  BY Zenon DEF Has

\* A field of the first of two layouts.
LEMMA HasBefore == \A a, b, name : Has(a, name) /\ Shaped(b) => Has(a \o b, name)
  BY CatHas, HasShaped, Zenon

\* A field of the second.
LEMMA HasAfter == \A a, b, name : Shaped(a) /\ Has(b, name) => Has(a \o b, name)
  BY CatHas, HasShaped, Zenon

\* A typed value has every field of its layout.
LEMMA HasField ==
    ASSUME NEW fields, NEW name, Has(fields, name), NEW m, Typed(fields, m)
    PROVE  name \in DOMAIN m
  <1>1. m = [n \in {fields[i].name : i \in DOMAIN fields} |-> m[n]]
    BY DEF Typed, typed
  <1>2. DOMAIN m = {fields[i].name : i \in DOMAIN fields}
    BY <1>1
  <1> QED
    BY <1>2 DEF Has, Elements

\* The fields of calls of one kind.
LEMMA CallsHave ==
    ASSUME NEW kind \in NumberKinds \cup {"string"}, NEW names, IsTuple(names),
           NEW k \in 1..Len(names)
    PROVE  Has(Calls(kind, names), names[k])
  <1>1. Shaped(Calls(kind, names))
    BY CallsLayout DEF Layout_0
  <1>2. DOMAIN Calls(kind, names) = DOMAIN names /\ Calls(kind, names)[k].name = names[k]
    BY DEF Calls, IsTuple
  <1>3. Calls(kind, names)[k] \in Elements(Calls(kind, names))
    BY <1>2 DEF Elements, IsTuple
  <1> QED
    BY <1>1, <1>2, <1>3, Zenon DEF Has

\* The field of a list.
LEMMA ListHas == \A name, limit, fields : Has(List(name, limit, fields), name)
  <1> SUFFICES ASSUME NEW name, NEW limit, NEW fields PROVE Has(List(name, limit, fields), name)
    OBVIOUS
  <1> DEFINE f == [kind |-> "list", name |-> name, limit |-> limit, fields |-> fields]
  <1>1. f.name = name
    OBVIOUS
  <1>2. List(name, limit, fields) = <<f>>
    BY DEF List
  <1> HIDE DEF f
  <1>3. Shaped(<<f>>)
    BY OneShape
  <1>4. f \in Elements(<<f>>)
    BY DEF Elements
  <1> QED
    BY <1>1, <1>2, <1>3, <1>4 DEF Has

\* Layouts of every level are sequences.
LEMMA ShapedLayout ==
    /\ \A s : Layout_0(s) => Shaped(s)
    /\ \A s : Layout_1(s) => Shaped(s)
    /\ \A s : Layout_2(s) => Shaped(s)
  BY Zenon DEF Layout_0, Layout_1, Layout_2

\* The fields of a backend record that canonicalize looks at.
LEMMA BackendHas == Has(write_backend, "backend_id") /\ Has(write_backend, "model_bindings")
  <1> DEFINE ids == <<"backend_id", "backend_generation", "last_boot",
                      "last_registration_generation", "provider_id", "provider_generation",
                      "endpoint_id", "last_endpoint_generation", "trust_profile_id",
                      "trust_generation">>
             bound == U64(<<"model_id", "model_generation", "artifact_generation">>)
                      \o U32(<<"context_limit_tokens", "quality_class">>)
                      \o Struct("cost", write_cost) \o I64(<<"bound_at">>)
  <1>1. PICK a1 : a1 = U64(ids)
    OBVIOUS
  <1>2. PICK a2 : a2 = U8(<<"trust_domain">>)
    OBVIOUS
  <1>3. PICK a3 : a3 = Str(<<"locality">>)
    OBVIOUS
  <1>4. PICK a4 : a4 = U32(<<"network_distance">>)
    OBVIOUS
  <1>5. PICK a5 : a5 = U64(<<"capability_profile_id", "capability_generation">>)
    OBVIOUS
  <1>6. PICK a6 : a6 = Struct("capabilities", write_profile)
    OBVIOUS
  <1>7. PICK a7 : a7 = List("model_bindings", "max_model_bindings_per_backend", bound)
    OBVIOUS
  <1>8. PICK a8 : a8 = Bool(<<"offline_capable">>)
    OBVIOUS
  <1>9. PICK a9 : a9 = U8(<<"provenance">>)
    OBVIOUS
  <1>10. PICK a10 : a10 = I64(<<"registered_at">>)
    OBVIOUS
  <1>11. write_backend = a1 \o a2 \o a3 \o a4 \o a5 \o a6 \o a7 \o a8 \o a9 \o a10
    BY <1>1, <1>2, <1>3, <1>4, <1>5, <1>6, <1>7, <1>8, <1>9, <1>10, Zenon DEF write_backend
  <1>12. Has(a1, "backend_id")
    <2>1. IsTuple(ids)
      BY Tuple10, Zenon
    <2>2. 1 \in 1..Len(ids) /\ ids[1] = "backend_id"
      OBVIOUS
    <2> HIDE DEF ids
    <2>3. "u64" \in NumberKinds \cup {"string"}
      BY DEF NumberKinds
    <2>4. Has(Calls("u64", ids), ids[1])
      BY <2>1, <2>2, <2>3, CallsHave
    <2> QED
      BY <1>1, <2>2, <2>4 DEF U64
  <1>13. Has(a7, "model_bindings")
    BY <1>7, ListHas, Zenon
  <1>14. Shaped(a1) /\ Shaped(a7)
    BY <1>12, <1>13 DEF Has
  <1>15. /\ Shaped(a2) /\ Shaped(a3) /\ Shaped(a4) /\ Shaped(a5) /\ Shaped(a8)
         /\ Shaped(a9) /\ Shaped(a10)
    BY <1>2, <1>3, <1>4, <1>5, <1>8, <1>9, <1>10, Kinds, Tuple1, Tuple2, ShapedLayout, Zenon
  <1>16. Shaped(a6)
    <2>1. Layout_2(a6)
      BY <1>6, StructLayout_2, write_profile_Layout, Zenon
    <2> QED
      BY <2>1, ShapedLayout
  <1>17. Has(a1 \o a2 \o a3 \o a4 \o a5 \o a6, "backend_id")
    BY <1>12, <1>15, <1>16, HasBefore, Zenon
  <1>18. PICK b : b = a1 \o a2 \o a3 \o a4 \o a5 \o a6
    OBVIOUS
  <1>19. Has(b \o a7, "backend_id") /\ Has(b \o a7, "model_bindings")
    <2>1. Has(b, "backend_id") /\ Shaped(b)
      BY <1>17, <1>18 DEF Has
    <2> QED
      BY <1>13, <1>14, <2>1, HasBefore, HasAfter, Zenon
  <1>20. PICK c : c = b \o a7
    OBVIOUS
  <1>21. Has(c \o a8 \o a9 \o a10, "backend_id") /\ Has(c \o a8 \o a9 \o a10, "model_bindings")
    BY <1>15, <1>19, <1>20, HasBefore, Zenon
  <1> QED
    BY <1>11, <1>18, <1>20, <1>21

\* The keys that lists are sorted by.
LEMMA KeyTuples ==
    /\ KeyTuple(model_keys) /\ KeyTuple(backend_keys) /\ KeyTuple(binding_keys)
    /\ KeyTuple(fenced_keys) /\ KeyTuple(route_keys)
  BY DEF KeyTuple, model_keys, backend_keys, binding_keys, fenced_keys, route_keys

\* A list is sorted, and sorting it again changes nothing.
Sorted(s, keys, t) ==
    /\ t = [i \in 1..Len(s) |-> t[i]] /\ sort(t, keys) = t
    /\ Ordered(t, Len(s), keys) /\ Keys(t, Len(s), keys)
    /\ \A i \in 1..Len(s) : \E k \in 1..Len(s) : t[i] = s[k]

\* Sorting twice is sorting once.
LEMMA SortOnce ==
    ASSUME NEW s, IsList(s), NEW keys, KeyTuple(keys), Keyed(s, keys)
    PROVE  Sorted(s, keys, sort(s, keys))
  <1>1. PICK n \in Nat : n = Len(s) /\ DOMAIN s = 1..n
    BY ListIs
  <1>2. PICK t : t = sort(s, keys)
    OBVIOUS
  <1>3. Sorts(s, n, keys, t)
    BY <1>1, <1>2, SortIs
  <1>4. Ordered(t, n, keys) /\ Keys(t, n, keys)
    BY <1>3 DEF Sorts
  <1>5. PICK p : Permutation(p, n) /\ t = Rearranged(s, p, n)
    BY <1>3 DEF Sorts
  <1>6. t = [i \in 1..n |-> t[i]] /\ \A i \in 1..n : t[i] = s[p[i]]
    BY <1>5 DEF Rearranged
  <1>7. \A i \in 1..n : p[i] \in 1..n
    BY <1>5 DEF Permutation
  <1>8. sort(t, keys) = t
    BY <1>4, <1>6, SortSorted
  <1>9. \A i \in 1..n : \E k \in 1..n : t[i] = s[k]
    BY <1>6, <1>7, Zenon
  <1> QED
    BY <1>1, <1>2, <1>4, <1>6, <1>8, <1>9, Zenon DEF Sorted

\* What canonicalize does to one backend.
LEMMA SortBindingsIs ==
    ASSUME NEW b, "model_bindings" \in DOMAIN b, "backend_id" \in DOMAIN b
    PROVE  /\ SortBindings(b).backend_id = b.backend_id
           /\ SortBindings(b).model_bindings = sort(b.model_bindings, binding_keys)
           /\ DOMAIN SortBindings(b) = DOMAIN b
           /\ SortBindings(b) = [x \in DOMAIN b |-> SortBindings(b)[x]]
  <1>1. PICK v : v = sort(b.model_bindings, binding_keys)
    OBVIOUS
  <1>2. SortBindings(b) = [b EXCEPT !.model_bindings = v]
    BY <1>1, Zenon DEF SortBindings
  <1>3. "model_bindings" # "backend_id"
    OBVIOUS
  <1> QED
    BY <1>1, <1>2, <1>3

\* Writing to a field what it holds.
LEMMA ExceptSame ==
    ASSUME NEW b, b = [x \in DOMAIN b |-> b[x]], NEW v, b.model_bindings = v
    PROVE  [b EXCEPT !.model_bindings = v] = b
  OBVIOUS

\* The bindings of a backend are sorted once.
LEMMA BindingsOnce ==
    ASSUME NEW b, "model_bindings" \in DOMAIN b, "backend_id" \in DOMAIN b,
           IsList(b.model_bindings), Keyed(b.model_bindings, binding_keys)
    PROVE  SortBindings(SortBindings(b)) = SortBindings(b)
  <1>1. PICK c : c = SortBindings(b)
    OBVIOUS
  <1>2. c.model_bindings = sort(b.model_bindings, binding_keys) /\ c = [x \in DOMAIN c |-> c[x]]
    BY <1>1, SortBindingsIs
  <1>3. sort(c.model_bindings, binding_keys) = c.model_bindings
    <2>1. PICK s, t : s = b.model_bindings /\ t = sort(s, binding_keys)
      OBVIOUS
    <2>2. Sorted(s, binding_keys, t)
      BY <2>1, SortOnce, KeyTuples
    <2>3. sort(t, binding_keys) = t
      BY <2>2 DEF Sorted
    <2> QED
      BY <1>2, <2>1, <2>3
  <1>4. PICK v : v = sort(c.model_bindings, binding_keys)
    OBVIOUS
  <1>5. SortBindings(c) = c
    <2>1. SortBindings(c) = [c EXCEPT !.model_bindings = v]
      BY <1>4, Zenon DEF SortBindings
    <2>2. c.model_bindings = v
      BY <1>3, <1>4
    <2>3. [c EXCEPT !.model_bindings = v] = c
      BY <1>2, <2>2, ExceptSame
    <2> QED
      BY <2>1, <2>3
  <1> QED
    BY <1>1, <1>5

\* The two fields that sorting uses are there.
Bound(b) ==
    /\ "model_bindings" \in DOMAIN b /\ "backend_id" \in DOMAIN b
    /\ IsList(b.model_bindings) /\ Keyed(b.model_bindings, binding_keys)

\* Sorting bindings adds no field.
LEMMA SortBindingsDomain == \A b : DOMAIN SortBindings(b) = DOMAIN b
  BY DEF SortBindings

\* Sorting bindings leaves the key of a backend alone,
LEMMA BackendLess ==
    ASSUME NEW a, NEW b, NEW c, NEW d, a.backend_id = c.backend_id, b.backend_id = d.backend_id,
           Less(a, b, backend_keys)
    PROVE  Less(c, d, backend_keys)
  <1>1. DOMAIN backend_keys = {1} /\ backend_keys[1] = "backend_id"
    BY DEF backend_keys
  <1>2. a.backend_id < b.backend_id
    BY <1>1 DEF Less
  <1>3. c.backend_id < d.backend_id /\ \A k \in 1..(1 - 1) : c[backend_keys[k]] = d[backend_keys[k]]
    BY <1>2
  <1> QED
    BY <1>1, <1>3 DEF Less

\* and its being there.
LEMMA BackendHasKeys ==
    ASSUME NEW a, NEW c, a.backend_id = c.backend_id, HasKeys(a, backend_keys)
    PROVE  HasKeys(c, backend_keys)
  <1>1. DOMAIN backend_keys = {1} /\ backend_keys[1] = "backend_id"
    BY DEF backend_keys
  <1> QED
    BY <1>1 DEF HasKeys

\* Sorting backends and then their bindings, twice.
LEMMA BackendsOnce ==
    ASSUME NEW s, IsList(s), Keyed(s, backend_keys), NEW t, t = sort(s, backend_keys),
           \A i \in 1..Len(s) : Bound(t[i])
    PROVE  /\ sort(BindingsSorted(t), backend_keys) = BindingsSorted(t)
           /\ BindingsSorted(BindingsSorted(t)) = BindingsSorted(t)
  <1>1. PICK n \in Nat : n = Len(s)
    BY ListIs
  <1>2. t = [i \in 1..n |-> t[i]] /\ Ordered(t, n, backend_keys) /\ Keys(t, n, backend_keys)
    BY <1>1, SortOnce, KeyTuples, Zenon DEF Sorted
  <1>3. DOMAIN t = 1..n
    BY <1>2
  <1>4. PICK u : u = BindingsSorted(t)
    OBVIOUS
  <1>5. u = [i \in 1..n |-> SortBindings(t[i])]
    BY <1>3, <1>4 DEF BindingsSorted
  <1>6. DOMAIN u = 1..n /\ u = [i \in 1..n |-> u[i]] /\ \A i \in 1..n : u[i] = SortBindings(t[i])
    BY <1>5
  <1>7. ASSUME NEW i \in 1..n
        PROVE  u[i].backend_id = t[i].backend_id /\ SortBindings(u[i]) = u[i]
    <2>1. Bound(t[i])
      BY <1>1
    <2> QED
      BY <1>6, <2>1, SortBindingsIs, BindingsOnce DEF Bound
  <1>8. Ordered(u, n, backend_keys)
    <2> SUFFICES ASSUME NEW i \in 1..n, NEW j \in 1..n, i < j PROVE Less(u[i], u[j], backend_keys)
      BY DEF Ordered
    <2>1. Less(t[i], t[j], backend_keys)
      BY <1>2 DEF Ordered
    <2> QED
      BY <1>7, <2>1, BackendLess
  <1>9. Keys(u, n, backend_keys)
    BY <1>2, <1>7, BackendHasKeys DEF Keys
  <1>10. sort(u, backend_keys) = u
    BY <1>6, <1>8, <1>9, KeyTuples, SortSorted
  <1>11. BindingsSorted(u) = u
    <2>1. BindingsSorted(u) = [i \in 1..n |-> SortBindings(u[i])]
      BY <1>6 DEF BindingsSorted
    <2> QED
      BY <1>6, <1>7, <2>1
  <1> QED
    BY <1>4, <1>10, <1>11

\* The lists of a canonical state.
LEMMA CanonicalFields ==
    ASSUME NEW a, NEW b, NEW c, NEW d, NEW e, NEW f, NEW g, NEW s, s = Canonical(a, b, c, d, e, f, g)
    PROVE  /\ s.meta = a /\ s.models = b /\ s.backends = BindingsSorted(c) /\ s.fenced_boots = d
           /\ s.routes = e /\ s.weights = f /\ s.other_limits = g
  BY DEF Canonical

\* Which list holds the records of a kind.
LEMMA ListNames ==
    /\ Lists[2 - 1] = "models" /\ Lists[3 - 1] = "backends" /\ Lists[4 - 1] = "fenced_boots"
    /\ Lists[5 - 1] = "routes"
  BY DEF Lists

\* Which layout writes them.
LEMMA RecordLayouts ==
    /\ WriteRecord[1] = write_meta /\ WriteRecord[2] = write_model /\ WriteRecord[3] = write_backend
    /\ WriteRecord[4] = write_fenced /\ WriteRecord[5] = write_route
  <1>1. \A a, b, c, d, e : /\ <<a, b, c, d, e>>[1] = a /\ <<a, b, c, d, e>>[2] = b
                           /\ <<a, b, c, d, e>>[3] = c /\ <<a, b, c, d, e>>[4] = d
                           /\ <<a, b, c, d, e>>[5] = e
    OBVIOUS
  <1> QED
    BY <1>1, Zenon DEF WriteRecord

TypedAll(rs, fields) == IsList(rs) /\ \A i \in DOMAIN rs : Typed(fields, rs[i])

\* The lists of a typed state.
LEMMA TypedLists ==
    ASSUME NEW c, TypedRecords(c)
    PROVE  /\ Typed(write_meta, c.meta) /\ TypedAll(c.models, write_model)
           /\ TypedAll(c.backends, write_backend) /\ TypedAll(c.fenced_boots, write_fenced)
           /\ TypedAll(c.routes, write_route)
  <1>1. \A kind \in 2..5 : TypedAll(c[Lists[kind - 1]], WriteRecord[kind])
    BY Zenon DEF TypedRecords, TypedAll
  <1>2. 2 \in 2..5 /\ 3 \in 2..5 /\ 4 \in 2..5 /\ 5 \in 2..5
    OBVIOUS
  <1>3. /\ TypedAll(c[Lists[2 - 1]], WriteRecord[2]) /\ TypedAll(c[Lists[3 - 1]], WriteRecord[3])
        /\ TypedAll(c[Lists[4 - 1]], WriteRecord[4]) /\ TypedAll(c[Lists[5 - 1]], WriteRecord[5])
    BY <1>1, <1>2, Zenon
  <1>4. Typed(write_meta, c.meta)
    BY Zenon DEF TypedRecords
  <1>5. TypedAll(c.models, WriteRecord[2]) /\ TypedAll(c.backends, WriteRecord[3])
        /\ TypedAll(c.fenced_boots, WriteRecord[4]) /\ TypedAll(c.routes, WriteRecord[5])
    BY <1>3, ListNames
  <1> QED
    BY <1>4, <1>5, RecordLayouts

\* What canonicalize returns for a state that can be.
CanonicalState(c) ==
    /\ AnyState(c) /\ canonicalize(c) = c /\ TypedRecords(c) /\ canonical_text(c) \in Seq(Int)

\* RouterPersistentState::canonicalize is idempotent.
THEOREM CanonicalOnce ==
    ASSUME NEW s, TypedState(s)
    PROVE  CanonicalState(canonicalize(s))
  <1>1. PICK c : c = canonicalize(s)
    OBVIOUS
  <1>2. PICK models, backends, fenced, routes :
            /\ models = sort(s.models, model_keys) /\ backends = sort(s.backends, backend_keys)
            /\ fenced = sort(s.fenced_boots, fenced_keys) /\ routes = sort(s.routes, route_keys)
    OBVIOUS
  <1>3. PICK w, o : w = s.weights /\ o = s.other_limits
    OBVIOUS
  <1>4. c = Canonical(s.meta, models, backends, fenced, routes, w, o)
    BY <1>1, <1>2, <1>3, CanonicalIs
  <1>6. /\ c.meta = s.meta /\ c.models = models /\ c.backends = BindingsSorted(backends)
        /\ c.fenced_boots = fenced /\ c.routes = routes /\ c.weights = w
        /\ c.other_limits = o
    BY <1>4, CanonicalFields
  <1>7. AnyState(c)
    BY <1>4, <1>6 DEF Canonical, AnyState
  <1>8. TypedRecords(c) /\ canonical_text(c) \in Seq(Int)
    BY <1>1, Zenon DEF TypedState
  <1>9. /\ IsList(s.models) /\ Keyed(s.models, model_keys)
        /\ IsList(s.backends) /\ Keyed(s.backends, backend_keys)
        /\ IsList(s.fenced_boots) /\ Keyed(s.fenced_boots, fenced_keys)
        /\ IsList(s.routes) /\ Keyed(s.routes, route_keys)
        /\ \A i \in DOMAIN s.backends : IsList(s.backends[i].model_bindings)
                                        /\ Keyed(s.backends[i].model_bindings, binding_keys)
    BY Zenon DEF TypedState
  <1>10. /\ Sorted(s.models, model_keys, models) /\ Sorted(s.backends, backend_keys, backends)
         /\ Sorted(s.fenced_boots, fenced_keys, fenced) /\ Sorted(s.routes, route_keys, routes)
    BY <1>2, <1>9, SortOnce, KeyTuples
  <1>11. /\ sort(models, model_keys) = models /\ sort(fenced, fenced_keys) = fenced
         /\ sort(routes, route_keys) = routes
    BY <1>10, Zenon DEF Sorted
  <1>12. ASSUME NEW i \in 1..Len(s.backends) PROVE Bound(backends[i])
    <2>1. backends = [k \in 1..Len(s.backends) |-> backends[k]]
      BY <1>10, Zenon DEF Sorted
    <2>2. PICK k \in 1..Len(s.backends) : backends[i] = s.backends[k]
      BY <1>10, Zenon DEF Sorted
    <2>3. k \in DOMAIN s.backends
      BY <1>9, ListIs
    <2>4. IsList(backends[i].model_bindings) /\ Keyed(backends[i].model_bindings, binding_keys)
      BY <1>9, <2>2, <2>3
    <2>5. DOMAIN c.backends = 1..Len(s.backends) /\ c.backends[i] = SortBindings(backends[i])
      BY <1>6, <2>1 DEF BindingsSorted
    <2>6. Typed(write_backend, c.backends[i])
      BY <1>8, <2>5, TypedLists, Zenon DEF TypedAll
    <2>7. "backend_id" \in DOMAIN c.backends[i] /\ "model_bindings" \in DOMAIN c.backends[i]
      BY <2>6, BackendHas, HasField
    <2>8. DOMAIN c.backends[i] = DOMAIN backends[i]
      BY <2>5, SortBindingsDomain
    <2> QED
      BY <2>4, <2>7, <2>8 DEF Bound
  <1>13. /\ sort(c.backends, backend_keys) = c.backends
         /\ BindingsSorted(c.backends) = c.backends
    BY <1>2, <1>6, <1>9, <1>12, BackendsOnce
  <1>14. canonicalize(c) = Canonical(c.meta, models, c.backends, fenced, routes, w, o)
    BY <1>6, <1>11, <1>13, CanonicalIs
  <1>15. Canonical(c.meta, models, c.backends, fenced, routes, w, o) = c
    BY <1>4, <1>6, <1>13 DEF Canonical
  <1> QED
    BY <1>1, <1>7, <1>8, <1>14, <1>15 DEF CanonicalState

-----------------------------------------------------------------------------
(***************************************************************************)
(* The header of the state file.                                           *)
(***************************************************************************)
LEMMA ShaSize == \A text \in Seq(Int) : Sized(sha256(text), 32)
  <1> SUFFICES ASSUME NEW text \in Seq(Int) PROVE Sized(sha256(text), 32)
    OBVIOUS
  <1> DEFINE Terms(i) == [k \in DOMAIN text |-> (i + k) * (text[k] % 65521)]
  <1>1. PICK n \in Nat : DOMAIN text = 1..n /\ \A k \in 1..n : text[k] \in Int
    <2>1. Len(text) \in Nat /\ DOMAIN text = 1..Len(text)
      OBVIOUS
    <2>2. \A k \in 1..Len(text) : text[k] \in Int
      OBVIOUS
    <2> QED
      BY <2>1, <2>2
  <1>2. \A x \in Int : x % 65521 \in Int
    OBVIOUS
  <1>3. \A a, b \in Int : a * b \in Int
    OBVIOUS
  <1>4. ASSUME NEW i \in 1..32 PROVE Terms(i) \in Seq(Int)
    <2>1. \A k \in 1..n : i + k \in Int /\ text[k] % 65521 \in Int
      BY <1>1, <1>2
    <2>2. \A k \in 1..n : (i + k) * (text[k] % 65521) \in Int
      BY <1>3, <2>1
    <2>3. Terms(i) \in [1..n -> Int]
      BY <1>1, <2>2
    <2> HIDE DEF Terms
    <2> QED
      BY <2>3, SeqOf
  <1>5. \A x \in Int : x % 256 \in Byte
    BY DEF Byte
  <1>6. \A i \in 1..32 : Sum(Terms(i)) % 256 \in Byte
    <2> HIDE DEF Terms
    <2> QED
      BY <1>4, <1>5, SumInt
  <1>7. sha256(text) = [i \in 1..32 |-> Sum(Terms(i)) % 256]
    BY DEF sha256
  <1> HIDE DEF Terms
  <1>8. sha256(text) \in [1..32 -> Byte]
    BY <1>6, <1>7
  <1>9. PICK w : w = 32
    OBVIOUS
  <1>10. sha256(text) \in Seq(Byte) /\ Len(sha256(text)) = w
    <2>1. w \in Nat /\ sha256(text) \in [1..w -> Byte]
      BY <1>8, <1>9
    <2> QED
      BY <2>1, SeqOf
  <1> QED
    BY <1>9, <1>10 DEF Sized

\* The first eight bytes.
LEMMA MagicSize == Sized(persistence_magic, 8)
  <1>1. 77 \in Byte /\ 82 \in Byte /\ 83 \in Byte /\ 84 \in Byte /\ 65 \in Byte /\ 69 \in Byte
        /\ 0 \in Byte
    BY DEF Byte
  <1> QED
    BY <1>1 DEF Sized, persistence_magic

\* Eight bytes of a number.
LEMMA PutEight ==
    ASSUME NEW x \in 0..Huge
    PROVE  Sized(put_int(x, 8), 8) /\ InWidth(x, 8)
  <1>1. x \in (-Huge)..Huge
    BY HugeNat
  <1> QED
    BY <1>1, PutBytes DEF Sized, InWidth

\* The first 36 bytes, which the header's checksum covers.
Front(count, n, crc) ==
    Cat(Cat(Cat(Cat(Cat(Cat(persistence_magic, put_int(persistence_format_version, 4)),
                        put_int(persistence_header_bytes, 4)), put_int(0, 4)),
                put_int(count, 4)), put_int(n, 8)), put_int(crc, 4))

FrontParts(bs, count, n, crc) ==
    /\ field(bs, 0, 8) = persistence_magic
    /\ number(bs, 8, 4) = persistence_format_version
    /\ number(bs, 12, 4) = persistence_header_bytes
    /\ number(bs, 16, 4) = 0
    /\ number(bs, 20, 4) = count
    /\ number(bs, 24, 8) = n
    /\ field(bs, 32, 4) = put_int(crc, 4)

\* The part of the header that its checksum covers, field by field.
LEMMA FrontIs ==
    ASSUME NEW count \in 0..Huge, NEW n \in 0..Huge, NEW crc \in 0..Huge
    PROVE  /\ Sized(Front(count, n, crc), 36)
           /\ \A bs \in Seq(Byte) : At(bs, 0, Front(count, n, crc)) => FrontParts(bs, count, n, crc)
  <1>1. PICK a, b, c, d, e, f, g :
            /\ a = persistence_magic /\ b = put_int(persistence_format_version, 4)
            /\ c = put_int(persistence_header_bytes, 4) /\ d = put_int(0, 4)
            /\ e = put_int(count, 4) /\ f = put_int(n, 8) /\ g = put_int(crc, 4)
    OBVIOUS
  <1>2. /\ persistence_format_version \in 0..Huge /\ persistence_header_bytes \in 0..Huge
        /\ 0 \in 0..Huge
    <2>1. \A v \in {0, 1, 72} : v \in Nat /\ v < 2147483648
      BY SMT
    <2>2. \A v \in {0, 1, 72} : v \in 0..Huge
      BY <2>1, HugeIs, HugeNat
    <2> QED
      BY <2>2 DEF persistence_format_version, persistence_header_bytes
  <1>3. /\ Sized(a, 8) /\ Sized(b, 4) /\ Sized(c, 4) /\ Sized(d, 4) /\ Sized(e, 4)
        /\ Sized(f, 8) /\ Sized(g, 4)
    BY <1>1, <1>2, MagicSize, PutFour, PutEight
  <1>4. Sized(Cat(a, b), 12)
    <2>1. Sized(Cat(a, b), 8 + 4)
      BY <1>3, CatSize, Zenon
    <2> QED
      BY <2>1
  <1>5. PICK ac : ac = Cat(Cat(a, b), c)
    OBVIOUS
  <1>6. Sized(ac, 16)
    <2>1. Sized(ac, 12 + 4)
      BY <1>3, <1>4, <1>5, CatSize, Zenon
    <2> QED
      BY <2>1
  <1>7. PICK ad : ad = Cat(ac, d)
    OBVIOUS
  <1>8. Sized(ad, 20)
    <2>1. Sized(ad, 16 + 4)
      BY <1>3, <1>6, <1>7, CatSize, Zenon
    <2> QED
      BY <2>1
  <1>9. PICK ae : ae = Cat(ad, e)
    OBVIOUS
  <1>10. Sized(ae, 24)
    <2>1. Sized(ae, 20 + 4)
      BY <1>3, <1>8, <1>9, CatSize, Zenon
    <2> QED
      BY <2>1
  <1>11. PICK af : af = Cat(ae, f)
    OBVIOUS
  <1>12. Sized(af, 32)
    <2>1. Sized(af, 24 + 8)
      BY <1>3, <1>10, <1>11, CatSize, Zenon
    <2> QED
      BY <2>1
  <1>13. Front(count, n, crc) = Cat(af, g)
    BY <1>1, <1>5, <1>7, <1>9, <1>11, Zenon DEF Front
  <1>14. Sized(Cat(af, g), 36)
    <2>1. Sized(Cat(af, g), 32 + 4)
      BY <1>3, <1>12, CatSize, Zenon
    <2> QED
      BY <2>1
  <1>15. ASSUME NEW bs \in Seq(Byte), At(bs, 0, Cat(af, g)) PROVE FrontParts(bs, count, n, crc)
    <2>1. At(bs, 0, af) /\ At(bs, 32, g)
      BY <1>3, <1>12, <1>15, FirstAndRest
    <2>2. At(bs, 0, ae) /\ At(bs, 24, f)
      BY <1>3, <1>10, <1>11, <2>1, FirstAndRest
    <2>3. At(bs, 0, ad) /\ At(bs, 20, e)
      BY <1>3, <1>8, <1>9, <2>2, FirstAndRest
    <2>4. At(bs, 0, ac) /\ At(bs, 16, d)
      BY <1>3, <1>6, <1>7, <2>3, FirstAndRest
    <2>5. At(bs, 0, Cat(a, b)) /\ At(bs, 12, c)
      BY <1>3, <1>4, <1>5, <2>4, FirstAndRest
    <2>6. At(bs, 0, a) /\ At(bs, 8, b)
      BY <1>3, <2>5, FirstAndRest
    <2>7. field(bs, 0, 8) = persistence_magic
      <3>1. a \in Seq(Byte) /\ Len(a) = 8
        BY <1>3 DEF Sized
      <3> QED
        BY <1>1, <2>6, <3>1, FieldAt
    <2>8. number(bs, 8, 4) = persistence_format_version
      BY <1>1, <1>2, <2>6, NumberAt, PutFour
    <2>9. number(bs, 12, 4) = persistence_header_bytes
      BY <1>1, <1>2, <2>5, NumberAt, PutFour
    <2>10. number(bs, 16, 4) = 0
      BY <1>1, <1>2, <2>4, NumberAt, PutFour
    <2>11. number(bs, 20, 4) = count
      BY <1>1, <2>3, NumberAt, PutFour
    <2>12. number(bs, 24, 8) = n
      BY <1>1, <2>2, NumberAt, PutEight
    <2>13. field(bs, 32, 4) = put_int(crc, 4)
      BY <1>1, <2>1, NumberAt, PutFour
    <2> QED
      BY <2>7, <2>8, <2>9, <2>10, <2>11, <2>12, <2>13, Zenon DEF FrontParts
  <1> QED
    BY <1>13, <1>14, <1>15

\* What decode looks at before it looks at a record, and the digest.
IsImage(bs, count, payload, digest) ==
    /\ bs \in Seq(Byte) /\ payload \in Seq(Byte) /\ Len(bs) = 72 + Len(payload)
    /\ FrontParts(bs, count, Len(payload), crc32c(payload))
    /\ field(bs, 36, 4) = put_int(crc32c(field(bs, 0, 36)), 4)
    /\ field(bs, 40, 32) = digest
    /\ field(bs, 72, Len(payload)) = payload

Header4(front, digest, payload) ==
    Cat(Cat(Cat(front, put_int(crc32c(front), 4)), digest), payload)

\* encode writes a front, its checksum, the digest and the payload.
LEMMA HeaderBytes ==
    \A state, payload :
        Cat(write_header(state, payload), payload)
          = Header4(Front(Records(state) + 1, Len(payload), crc32c(payload)),
                    sha256(canonical_text(state)), payload)
  BY Zenon DEF write_header, Header4, Front, Cat

\* And decode finds them there.
LEMMA ImageIs ==
    ASSUME NEW count \in 0..Huge, NEW payload \in Seq(Byte), Len(payload) <= Huge, NEW digest,
           Sized(digest, 32)
    PROVE  IsImage(Header4(Front(count, Len(payload), crc32c(payload)), digest, payload),
                   count, payload, digest)
  <1>1. PICK n, y : n = Len(payload) /\ y = crc32c(payload)
    OBVIOUS
  <1>2. PICK k : k = Front(count, n, y)
    OBVIOUS
  <1>3. PICK a : a = put_int(crc32c(k), 4)
    OBVIOUS
  <1>4. PICK bs : bs = Cat(Cat(Cat(k, a), digest), payload)
    OBVIOUS
  <1>5. bs = Header4(Front(count, Len(payload), crc32c(payload)), digest, payload)
    BY <1>1, <1>2, <1>3, <1>4, Zenon DEF Header4
  <1>6. n \in 0..Huge /\ n \in Nat /\ Sized(payload, n) /\ y \in 0..Huge
    BY <1>1, HugeNat, CrcIn DEF Sized
  <1>7. Sized(k, 36)
    BY <1>2, <1>6, FrontIs
  <1>8. Sized(a, 4)
    <2>1. crc32c(k) \in 0..Huge
      BY <1>7, CrcIn DEF Sized
    <2> QED
      BY <1>3, <2>1, PutFour
  <1>9. Sized(Cat(k, a), 40)
    <2>1. Sized(Cat(k, a), 36 + 4)
      BY <1>7, <1>8, CatSize, Zenon
    <2> QED
      BY <2>1
  <1>10. PICK h : h = Cat(Cat(k, a), digest)
    OBVIOUS
  <1>11. Sized(h, 72)
    <2>1. Sized(h, 40 + 32)
      BY <1>9, <1>10, CatSize, Zenon
    <2> QED
      BY <2>1
  <1>12. Sized(bs, 72 + n)
    BY <1>4, <1>6, <1>10, <1>11, CatSize, Zenon
  <1>13. bs \in Seq(Byte) /\ At(bs, 0, bs) /\ Len(bs) = 72 + n
    BY <1>12, AtSelf, Zenon DEF Sized
  <1>14. At(bs, 0, h) /\ At(bs, 72, payload)
    BY <1>4, <1>6, <1>10, <1>11, <1>13, FirstAndRest
  <1>15. At(bs, 0, Cat(k, a)) /\ At(bs, 40, digest)
    BY <1>9, <1>10, <1>13, <1>14, FirstAndRest
  <1>16. At(bs, 0, k) /\ At(bs, 36, a)
    BY <1>7, <1>8, <1>13, <1>15, FirstAndRest
  <1>17. FrontParts(bs, count, n, y)
    BY <1>2, <1>6, <1>13, <1>16, FrontIs
  <1>18. field(bs, 0, 36) = k /\ field(bs, 72, n) = payload
    <2>1. k \in Seq(Byte) /\ Len(k) = 36
      BY <1>7 DEF Sized
    <2> QED
      BY <1>1, <1>13, <1>14, <1>16, <2>1, FieldAt
  <1>19. field(bs, 36, 4) = a /\ field(bs, 40, 32) = digest
    <2>1. a \in Seq(Byte) /\ Len(a) = 4 /\ digest \in Seq(Byte) /\ Len(digest) = 32
      BY <1>8 DEF Sized
    <2>2. field(bs, 36, Len(a)) = a
      BY <1>13, <1>16, <2>1, FieldAt
    <2>3. field(bs, 40, Len(digest)) = digest
      BY <1>13, <1>15, <2>1, FieldAt
    <2> QED
      BY <2>1, <2>2, <2>3, Zenon
  <1>20. IsImage(bs, count, payload, digest)
    BY <1>1, <1>3, <1>13, <1>17, <1>18, <1>19, Zenon DEF IsImage
  <1> QED
    BY <1>5, <1>20

\* What decode has accepted, and from what.
Content(bs) == SubSeq(bs, persistence_header_bytes + 1, Len(bs))

Accepted(bs) ==
    /\ header_accepted(bs, Content(bs), limits)
    /\ read_records(Content(bs), limits).ok
    /\ read_records(Content(bs), limits).state.meta # <<>>
    /\ read_records(Content(bs), limits).seen = number(bs, 20, 4)
    /\ validate(canonicalize(read_records(Content(bs), limits).state), limits)
    /\ field(bs, 40, 32) = sha256(canonical_text(canonicalize(read_records(Content(bs), limits).state)))

\* decode, with what it asks for named.
LEMMA DecodeIs ==
    \A bs : decode(bs, limits)
              = IF Accepted(bs)
                THEN [ok |-> TRUE, state |-> canonicalize(read_records(Content(bs), limits).state)]
                ELSE Rejected
  BY Zenon DEF decode, Accepted, Content

\* It gives nothing that was not accepted.
LEMMA DecodeAccepts == \A bs : decode(bs, limits).ok => Accepted(bs)
  <1>1. ~Rejected.ok
    BY DEF Rejected
  <1> QED
    BY <1>1, DecodeIs

\* What follows the header.
LEMMA ContentIs ==
    ASSUME NEW bs \in Seq(Byte), NEW n \in Nat, Len(bs) = 72 + n
    PROVE  Content(bs) = field(bs, 72, n)
  BY Zenon DEF Content, field, persistence_header_bytes

\* Accepted bytes have the size the header names and both checksums.
LEMMA ImageAccepted ==
    ASSUME NEW bs \in Seq(Byte), Accepted(bs)
    PROVE  /\ Len(bs) >= 72 /\ Len(bs) = 72 + number(bs, 24, 8)
           /\ Checked(bs, 0, 36, 36) /\ Checked(bs, 72, Len(bs) - 72, 32)
  <1>1. /\ Len(bs) >= 72 /\ Len(bs) = 72 + number(bs, 24, 8)
        /\ field(bs, 36, 4) = put_int(crc32c(field(bs, 0, 36)), 4)
        /\ field(bs, 32, 4) = put_int(crc32c(Content(bs)), 4)
    BY Zenon DEF Accepted, header_accepted, persistence_header_bytes
  <1>2. Content(bs) = field(bs, 72, Len(bs) - 72)
    <2>1. PICK l \in Nat : l = Len(bs)
      OBVIOUS
    <2>2. l - 72 \in Nat /\ l = 72 + (l - 72)
      BY <1>1, <2>1
    <2>3. Content(bs) = field(bs, 72, l - 72)
      BY <2>1, <2>2, ContentIs
    <2> QED
      BY <2>1, <2>3
  <1> QED
    BY <1>1, <1>2, Zenon DEF Checked

\* An image with one byte changed is refused, unless it is one of the digest.
LEMMA ImageChanged ==
    ASSUME NEW a, NEW b, NEW count, NEW payload, NEW digest, NEW p,
           IsImage(a, count, payload, digest), Changed(a, b, p), p \notin 41..72
    PROVE  ~Accepted(b)
  <1>1. PICK n : n = Len(payload)
    OBVIOUS
  <1>2. n \in Nat /\ Len(a) = 72 + n /\ a \in Seq(Byte)
    BY <1>1 DEF IsImage
  <1>3. b \in Seq(Byte) /\ Len(b) = 72 + n /\ p \in 1..(72 + n)
    BY <1>2 DEF Changed, DiffersAt
  <1>4. Held(a, 0, 36) /\ Held(a, 36, 4) /\ Held(a, 72, n) /\ Held(a, 32, 4)
    BY <1>2 DEF Held
  <1>5. Checked(a, 0, 36, 36) /\ Checked(a, 72, n, 32)
    BY <1>1, Zenon DEF IsImage, FrontParts, Checked
  <1> SUFFICES ASSUME Accepted(b) PROVE FALSE
    OBVIOUS
  <1>6. Checked(b, 0, 36, 36) /\ Checked(b, 72, n, 32)
    <2>1. Checked(b, 0, 36, 36) /\ Checked(b, 72, Len(b) - 72, 32)
      BY <1>3, ImageAccepted
    <2>2. Len(b) - 72 = n
      BY <1>2, <1>3
    <2> QED
      BY <2>1, <2>2
  <1>7. CASE p \in (0 + 1)..(0 + 36) \/ p \in (36 + 1)..(36 + 4)
    <2>1. \A q : ~(q \in (0 + 1)..(0 + 36) /\ q \in (36 + 1)..(36 + 4))
      OBVIOUS
    <2> QED
      BY <1>4, <1>5, <1>6, <1>7, <2>1, ChecksumCatches
  <1>8. CASE p \in (72 + 1)..(72 + n)
    <2>1. PICK o, c : o = 72 /\ c = 32
      OBVIOUS
    <2>2. ASSUME NEW q, q \in (o + 1)..(o + n), q \in (c + 1)..(c + 4) PROVE FALSE
      <3>1. q \in Int /\ q >= 73 /\ q <= 36
        BY <2>1, <2>2
      <3> QED
        BY <3>1
    <2>3. p \in (o + 1)..(o + n)
      BY <1>8, <2>1
    <2>4. Held(a, o, n) /\ Held(a, c, 4) /\ Checked(a, o, n, c) /\ Checked(b, o, n, c)
      BY <1>4, <1>5, <1>6, <2>1
    <2> QED
      BY <2>2, <2>3, <2>4, ChecksumCatches
  <1> QED
    BY <1>2, <1>3, <1>7, <1>8

\* The digest stands beside the payload, which a change in it leaves alone.
LEMMA DigestChanged ==
    ASSUME NEW a, NEW b, NEW count, NEW payload, NEW digest, NEW p,
           IsImage(a, count, payload, digest), Changed(a, b, p), p \in 41..72
    PROVE  Content(b) = payload /\ field(b, 40, 32) # digest
  <1>1. PICK n : n = Len(payload)
    OBVIOUS
  <1>2. n \in Nat /\ Len(a) = 72 + n /\ a \in Seq(Byte) /\ field(a, 40, 32) = digest
        /\ field(a, 72, n) = payload
    BY <1>1 DEF IsImage
  <1>3. b \in Seq(Byte) /\ Len(b) = 72 + n
    BY <1>2 DEF Changed, DiffersAt
  <1>4. PICK o, w : o = 40 /\ w = 32
    OBVIOUS
  <1>5. Held(a, o, w) /\ p \in (o + 1)..(o + w)
    BY <1>2, <1>4 DEF Held
  <1>6. Changed(field(a, o, w), field(b, o, w), p - o)
    BY <1>5, FieldChanged
  <1>7. field(b, o, w) # field(a, o, w)
    BY <1>6, Zenon DEF Changed
  <1>8. PICK q : q = 72
    OBVIOUS
  <1>9. Held(a, q, n) /\ p \notin (q + 1)..(q + n)
    BY <1>2, <1>8 DEF Held
  <1>10. field(b, q, n) = field(a, q, n)
    BY <1>9, FieldKept
  <1>11. Content(b) = field(b, 72, n)
    BY <1>2, <1>3, ContentIs
  <1> QED
    BY <1>2, <1>4, <1>7, <1>8, <1>10, <1>11

\* An image of another length is refused.
LEMMA ImageResized ==
    ASSUME NEW a, NEW count, NEW payload, NEW digest, IsImage(a, count, payload, digest),
           NEW b \in Seq(Byte), Len(b) # Len(a), \A j \in 1..Len(b) : j <= Len(a) => b[j] = a[j]
    PROVE  ~Accepted(b)
  <1>1. PICK n : n = Len(payload)
    OBVIOUS
  <1>2. n \in Nat /\ Len(a) = 72 + n /\ a \in Seq(Byte) /\ number(a, 24, 8) = n
    BY <1>1 DEF IsImage, FrontParts
  <1> SUFFICES ASSUME Accepted(b) PROVE FALSE
    OBVIOUS
  <1>3. Len(b) >= 72 /\ Len(b) = 72 + number(b, 24, 8)
    BY ImageAccepted
  <1>4. field(b, 24, 8) = field(a, 24, 8)
    <2>1. PICK l : l = Len(b)
      OBVIOUS
    <2>2. l \in Nat /\ l >= 72
      BY <1>3, <2>1
    <2>3. 24 + 8 <= l /\ 24 + 8 <= Len(a)
      BY <1>2, <2>2
    <2>4. \A j \in 1..8 : b[24 + j] = a[24 + j]
      <3> TAKE j \in 1..8
      <3>1. 24 + j \in 1..l /\ 24 + j <= Len(a)
        BY <1>2, <2>2
      <3> QED
        BY <2>1, <3>1
    <2>5. PICK o, w : o = 24 /\ w = 8
      OBVIOUS
    <2>6. o \in Nat /\ w \in Nat /\ o + w <= Len(b) /\ o + w <= Len(a)
      BY <2>1, <2>3, <2>5
    <2>7. \A j \in 1..w : b[o + j] = a[o + j]
      BY <2>4, <2>5
    <2>8. field(b, o, w) = field(a, o, w)
      BY <1>2, <2>6, <2>7, FieldSame
    <2> QED
      BY <2>5, <2>8
  <1>5. number(b, 24, 8) = n
    BY <1>2, <1>4 DEF number
  <1> QED
    BY <1>2, <1>3, <1>5

\* An intact image is accepted as far as the header goes.
LEMMA HeaderAccepted ==
    ASSUME NEW bs, NEW count, NEW payload, NEW digest, IsImage(bs, count, payload, digest),
           Len(payload) <= limits.max_payload_bytes, Len(bs) <= limits.max_persistence_bytes
    PROVE  /\ Content(bs) = payload /\ header_accepted(bs, payload, limits)
           /\ number(bs, 20, 4) = count /\ field(bs, 40, 32) = digest
  <1>1. PICK n : n = Len(payload)
    OBVIOUS
  <1>2. n \in Nat /\ Len(bs) = 72 + n /\ bs \in Seq(Byte)
    BY <1>1 DEF IsImage
  <1>3. Content(bs) = payload
    BY <1>1, <1>2, ContentIs, Zenon DEF IsImage
  <1>4. Len(bs) >= persistence_header_bytes /\ Len(bs) = persistence_header_bytes + n
    BY <1>2 DEF persistence_header_bytes
  <1>5. header_accepted(bs, payload, limits)
    BY <1>1, <1>4, Zenon DEF header_accepted, IsImage, FrontParts
  <1> QED
    BY <1>3, <1>5, Zenon DEF IsImage, FrontParts

-----------------------------------------------------------------------------
(***************************************************************************)
(* One record of the state file.                                           *)
(***************************************************************************)
LEMMA RecordLayout ==
    ASSUME NEW kind \in 1..5
    PROVE  Layout_3(WriteRecord[kind]) /\ ReadRecord[kind] = WriteRecord[kind]
  <1>1. WriteRecord = ReadRecord
    BY write_meta_Same, write_model_Same, write_backend_Same, write_fenced_Same, write_route_Same,
       Zenon DEF WriteRecord, ReadRecord
  <1>2. kind = 1 \/ kind = 2 \/ kind = 3 \/ kind = 4 \/ kind = 5
    OBVIOUS
  <1>3. /\ Layout_3(write_meta) /\ Layout_3(write_model) /\ Layout_3(write_backend)
        /\ Layout_3(write_fenced) /\ Layout_3(write_route)
    BY write_meta_Layout, write_model_Layout, write_backend_Layout, write_fenced_Layout,
       write_route_Layout, Wider_1, Wider_2, Wider_3
  <1> QED
    BY <1>1, <1>2, <1>3, RecordLayouts

Body(kind, v) == writer_bytes(WriteRecord[kind], v)

\* A record that can be written.
Writable(kind, v) ==
    kind \in 1..5 /\ Typed(WriteRecord[kind], v) /\ Len(Body(kind, v)) <= Huge

\* The bytes of a record.
LEMMA RecordIn ==
    ASSUME NEW kind, NEW v, Writable(kind, v)
    PROVE  /\ Body(kind, v) \in Seq(Byte) /\ Len(Body(kind, v)) \in 0..Huge
           /\ Sized(put_int(kind, 2), 2) /\ Sized(put_int(Len(Body(kind, v)), 4), 4)
           /\ write_record(kind, v)
                = Cat(Cat(put_int(kind, 2), put_int(Len(Body(kind, v)), 4)), Body(kind, v))
           /\ Sized(write_record(kind, v), 6 + Len(Body(kind, v)))
  <1>1. kind \in 1..5 /\ Typed(WriteRecord[kind], v) /\ Len(Body(kind, v)) <= Huge
    BY DEF Writable
  <1>2. PICK body : body = Body(kind, v)
    OBVIOUS
  <1>3. body \in Seq(Byte)
    BY <1>1, <1>2, RecordLayout, Bytes_3, Zenon DEF Body
  <1>4. Len(body) \in 0..Huge /\ Sized(body, Len(body))
    BY <1>1, <1>2, <1>3, HugeNat DEF Sized
  <1>5. Sized(put_int(kind, 2), 2) /\ Sized(put_int(Len(body), 4), 4)
    <2>1. kind \in 0..255
      BY <1>1
    <2> QED
      BY <1>4, <2>1, PutTwo, PutFour
  <1>6. write_record(kind, v) = Cat(Cat(put_int(kind, 2), put_int(Len(body), 4)), body)
    BY <1>2, Zenon DEF write_record, Cat, Body
  <1>7. Sized(Cat(put_int(kind, 2), put_int(Len(body), 4)), 6)
    <2>1. Sized(Cat(put_int(kind, 2), put_int(Len(body), 4)), 2 + 4)
      BY <1>5, CatSize, Zenon
    <2> QED
      BY <2>1
  <1>8. Sized(write_record(kind, v), 6 + Len(body))
    BY <1>4, <1>6, <1>7, CatSize, Zenon
  <1> QED
    BY <1>2, <1>3, <1>4, <1>5, <1>6, <1>8

\* What read_record finds where a record stands.
Found(payload, o, kind, v) ==
    /\ number(payload, o, 2) = kind /\ number(payload, o + 2, 4) = Len(Body(kind, v))
    /\ field(payload, o + 6, Len(Body(kind, v))) = Body(kind, v)
    /\ ~(Len(payload) - o < 6) /\ ~(Len(Body(kind, v)) > Len(payload) - o - 6)
    /\ o + 6 + Len(Body(kind, v)) = o + Len(write_record(kind, v))

\* Kind, length and body are found where the record was written.
LEMMA RecordFound ==
    ASSUME NEW kind, NEW v, Writable(kind, v), NEW payload \in Seq(Byte), NEW o \in 0..Len(payload),
           At(payload, o, write_record(kind, v))
    PROVE  Found(payload, o, kind, v)
  <1>1. PICK body, a, b : /\ body = Body(kind, v) /\ a = put_int(kind, 2)
                          /\ b = put_int(Len(body), 4)
    OBVIOUS
  <1>2. kind \in 1..5 /\ kind \in 0..255
    BY DEF Writable
  <1>3. /\ body \in Seq(Byte) /\ Len(body) \in 0..Huge /\ Sized(a, 2) /\ Sized(b, 4)
        /\ write_record(kind, v) = Cat(Cat(a, b), body)
        /\ Sized(write_record(kind, v), 6 + Len(body))
    BY <1>1, RecordIn, Zenon
  <1>4. a \in Seq(Byte) /\ Len(a) = 2 /\ b \in Seq(Byte) /\ Len(b) = 4
        /\ Len(write_record(kind, v)) = 6 + Len(body)
    BY <1>3, Zenon DEF Sized
  <1>5. Cat(a, b) \in Seq(Byte) /\ Len(Cat(a, b)) = 6
    <2>1. Cat(a, b) \in Seq(Byte) /\ Len(Cat(a, b)) = Len(a) + Len(b)
      BY <1>4, CatIn
    <2> QED
      BY <1>4, <2>1
  <1>6. Split(payload, o, Cat(a, b), body)
    BY <1>3, <1>5, CatAt
  <1>7. At(payload, o, Cat(a, b)) /\ At(payload, o + 6, body)
    BY <1>5, <1>6 DEF Split
  <1>8. Split(payload, o, a, b)
    BY <1>4, <1>7, CatAt
  <1>9. At(payload, o, a) /\ At(payload, o + 2, b)
    BY <1>4, <1>8 DEF Split
  <1>10. number(payload, o, 2) = kind
    <2>1. InWidth(kind, 2) /\ kind \in 0..Huge
      BY <1>2, PutTwo
    <2> QED
      BY <1>1, <1>9, <2>1, NumberAt
  <1>11. number(payload, o + 2, 4) = Len(body)
    <2>1. InWidth(Len(body), 4) /\ o + 2 \in Nat
      BY <1>3, PutFour
    <2> QED
      BY <1>1, <1>3, <1>9, <2>1, NumberAt
  <1>12. field(payload, o + 6, Len(body)) = body
    <2>1. o + 6 \in Nat
      OBVIOUS
    <2> QED
      BY <1>3, <1>7, <2>1, FieldAt
  <1>13. ~(Len(payload) - o < 6) /\ ~(Len(body) > Len(payload) - o - 6)
         /\ o + 6 + Len(body) = o + (6 + Len(body))
    <2>1. PICK l, k : l = Len(payload) /\ k = Len(body)
      OBVIOUS
    <2>2. l \in Nat /\ k \in Nat /\ o \in Nat
      BY <1>3, <2>1
    <2>3. o + (6 + k) <= l
      BY <1>4, <2>1 DEF At
    <2> QED
      BY <2>1, <2>2, <2>3
  <1> QED
    BY <1>1, <1>4, <1>10, <1>11, <1>12, <1>13, Zenon DEF Found

\* A record without strings, lists and enumerations is always allowed.
Plain(fields) == Shaped(fields) /\ \A f \in Elements(fields) : f.kind \in NumberKinds

\* Layouts of plain numbers,
LEMMA PlainCalls == ASSUME NEW names, IsTuple(names) PROVE Plain(U64(names)) /\ Plain(I64(names)) /\ Plain(U32(names))
  <1>1. ASSUME NEW kind \in NumberKinds PROVE Plain(Calls(kind, names))
    <2>1. Shaped(Calls(kind, names))
      BY CallsLayout DEF Layout_0
    <2>2. \A i \in DOMAIN Calls(kind, names) : Calls(kind, names)[i].kind = kind
      BY DEF Calls
    <2> QED
      BY <2>1, <2>2 DEF Plain, Elements
  <1>2. "u64" \in NumberKinds /\ "i64" \in NumberKinds /\ "u32" \in NumberKinds
    BY DEF NumberKinds
  <1> QED
    BY <1>1, <1>2 DEF U64, I64, U32

\* one after the other:
LEMMA PlainCat == \A a, b : Plain(a) /\ Plain(b) => Plain(a \o b)
  BY CatShape, Zenon DEF Plain

\* the meta record holds nothing else,
LEMMA MetaPlain == Plain(write_meta)
  <1>1. PICK a : a = <<"router_id", "router_generation", "last_router_epoch", "last_coordinator_epoch",
          "last_boot", "last_policy_generation", "last_price_generation",
          "last_budget_generation", "last_slo_generation", "last_capability_generation",
          "last_model_generation", "last_backend_generation">>
    OBVIOUS
  <1>2. PICK b : b = <<"saved_at", "last_started_at">>
    OBVIOUS
  <1>3. PICK c : c = <<"highest_identity_issued", "route_requests", "route_decisions", "dispatches",
             "route_rejections", "reroutes", "fallbacks_taken">>
    OBVIOUS
  <1>4. PICK d : d = <<"max_models", "max_backends", "max_route_history", "max_fallback_candidates",
             "max_explanation_factors", "max_string_bytes",
             "max_capability_entries_per_backend", "max_model_bindings_per_backend">>
    OBVIOUS
  <1>5. IsTuple(a) /\ IsTuple(b) /\ IsTuple(c) /\ IsTuple(d)
    BY <1>1, <1>2, <1>3, <1>4, Tuple2, Tuple7, Tuple8, Tuple12, Zenon
  <1>6. write_meta = U64(a) \o I64(b) \o U64(c) \o U32(d)
    BY <1>1, <1>2, <1>3, <1>4, Zenon DEF write_meta
  <1>7. Plain(U64(a)) /\ Plain(I64(b)) /\ Plain(U64(c)) /\ Plain(U32(d))
    BY <1>5, PlainCalls
  <1> QED
    BY <1>6, <1>7, PlainCat, Zenon

\* so that no limit or range of the reader excludes it.
LEMMA PlainAllowed == ASSUME NEW fields, Plain(fields), NEW m PROVE Allowed(fields, m)
  <1>1. ASSUME NEW i \in DOMAIN fields PROVE allowed_field(allowed_2, fields[i], m[fields[i].name])
    <2>1. fields[i].kind \in NumberKinds
      BY DEF Plain, Elements
    <2>2. /\ fields[i].kind # "string" /\ fields[i].kind # "list" /\ fields[i].kind # "struct"
          /\ fields[i].kind # "enum"
      BY <2>1 DEF NumberKinds
    <2> QED
      BY <2>2 DEF allowed_field
  <1> QED
    BY <1>1, Zenon DEF Allowed, allowed

\* One turn of the loop of decode.
Acc(off, seen, state) == [ok |-> TRUE, off |-> off, seen |-> seen, state |-> state]
Add(state, kind, v) ==
    IF kind = 1 THEN [state EXCEPT !.meta = v] ELSE [state EXCEPT ![Lists[kind - 1]] = Append(@, v)]

\* The fields of the loop's state.
LEMMA AccFields ==
    \A off, seen, state : /\ Acc(off, seen, state).ok /\ Acc(off, seen, state).off = off
                          /\ Acc(off, seen, state).seen = seen /\ Acc(off, seen, state).state = state
  BY DEF Acc

RecordAllowed(kind, v) == kind = 1 \/ Allowed(WriteRecord[kind], v)

\* One record where it was written: taken if it is allowed, else all is rejected.
LEMMA RecordTaken ==
    ASSUME NEW kind, NEW v, Writable(kind, v), NEW payload \in Seq(Byte), NEW o \in 0..Len(payload),
           At(payload, o, write_record(kind, v)), NEW seen \in Nat,
           seen + 1 <= limits.max_persistence_records, NEW state, kind = 1 => state.meta = <<>>
    PROVE  read_record(payload, Acc(o, seen, state), limits)
             = IF RecordAllowed(kind, v)
               THEN Acc(o + Len(write_record(kind, v)), seen + 1, Add(state, kind, v))
               ELSE Rejected
  <1>1. PICK acc, body, length : acc = Acc(o, seen, state) /\ body = Body(kind, v) /\ length = Len(body)
    OBVIOUS
  <1>2. acc.ok /\ acc.off = o /\ acc.seen = seen /\ acc.state = state
    BY <1>1, AccFields
  <1>3. Found(payload, o, kind, v)
    BY RecordFound
  <1>4. /\ number(payload, acc.off, 2) = kind /\ number(payload, acc.off + 2, 4) = length
        /\ field(payload, acc.off + 6, length) = body
        /\ ~(Len(payload) - acc.off < 6) /\ ~(length > Len(payload) - acc.off - 6)
        /\ acc.off + 6 + length = o + Len(write_record(kind, v))
    BY <1>1, <1>2, <1>3, Zenon DEF Found
  <1>5. ~(acc.seen + 1 > limits.max_persistence_records)
    <2>1. limits.max_persistence_records \in Nat
      BY LimitIs DEF LimitNames
    <2> QED
      BY <1>2, <2>1
  <1>6. kind \in 1..5 /\ Typed(WriteRecord[kind], v) /\ body \in Seq(Byte)
    BY <1>1, RecordIn, Zenon DEF Writable
  <1>7. PICK r : r = read(ReadRecord[kind], body, 0, limits)
    OBVIOUS
  <1>8. IF Allowed(WriteRecord[kind], v) THEN r = Read(v, length) ELSE ~r.ok
    <2>1. Prefix(body, body)
      BY <1>6, PrefixSelf
    <2>2. Layout_3(WriteRecord[kind]) /\ ReadRecord[kind] = WriteRecord[kind]
      BY <1>6, RecordLayout
    <2>3. Prefix(writer_bytes(WriteRecord[kind], v), body)
      BY <1>1, <2>1 DEF Body
    <2>4. IF Allowed(WriteRecord[kind], v)
          THEN ReadsFirst(WriteRecord[kind], body, v, Len(writer_bytes(WriteRecord[kind], v)))
          ELSE ~read(WriteRecord[kind], body, 0, limits).ok
      BY <1>6, <2>2, <2>3, PayloadRead
    <2>5. Len(writer_bytes(WriteRecord[kind], v)) = length
      BY <1>1 DEF Body
    <2> QED
      BY <1>7, <2>2, <2>4, <2>5, Zenon DEF ReadsFirst
  <1>9. kind = 1 => Allowed(WriteRecord[kind], v)
    BY RecordLayouts, MetaPlain, PlainAllowed
  <1>10. ~(kind = 1 /\ acc.state.meta # <<>>)
    BY <1>2
  <1>11. CASE Allowed(WriteRecord[kind], v)
    <2>1. r.ok /\ r.val = v /\ r.off = length
      BY <1>8, <1>11 DEF Read
    <2>2. ~(kind # 1 /\ ~(r.ok /\ Exhausted(body, r)))
      BY <1>1, <2>1 DEF Exhausted
    <2>3. read_record(payload, acc, limits)
            = [ok |-> TRUE, off |-> o + Len(write_record(kind, v)), seen |-> seen + 1,
               state |-> Add(state, kind, v)]
      <3>1. CASE kind = 1
        <4>1. Add(state, kind, v) = [state EXCEPT !.meta = v]
          BY <3>1 DEF Add
        <4> QED
          BY <1>2, <1>4, <1>5, <1>6, <1>7, <1>10, <2>1, <2>2, <3>1, <4>1, Zenon DEF read_record
      <3>2. CASE kind # 1
        <4>1. Add(state, kind, v) = [state EXCEPT ![Lists[kind - 1]] = Append(@, v)]
          BY <3>2 DEF Add
        <4> QED
          BY <1>2, <1>4, <1>5, <1>6, <1>7, <1>10, <2>1, <2>2, <3>2, <4>1, Zenon DEF read_record
      <3> QED
        BY <3>1, <3>2
    <2> QED
      BY <1>1, <1>11, <2>3 DEF RecordAllowed, Acc
  <1>12. CASE ~Allowed(WriteRecord[kind], v)
    <2>1. kind # 1 /\ ~r.ok
      BY <1>8, <1>9, <1>12
    <2>2. read_record(payload, acc, limits) = Rejected
      BY <1>4, <1>7, <2>1, Zenon DEF read_record
    <2> QED
      BY <1>1, <1>12, <2>1, <2>2 DEF RecordAllowed
  <1> QED
    BY <1>11, <1>12

-----------------------------------------------------------------------------
(***************************************************************************)
(* The records of a state, in the order they are written.                  *)
(***************************************************************************)
Rec(kind, v) == [kind |-> kind, value |-> v]
Of(kind, s) == [i \in DOMAIN s |-> Rec(kind, s[i])]

\* The fields of a tagged record.
LEMMA RecFields == \A kind, v : Rec(kind, v).kind = kind /\ Rec(kind, v).value = v
  BY DEF Rec

\* AllRecords, with its parts named.
LEMMA AllRecordsIs ==
    \A c : AllRecords(c) = Cat(Cat(Cat(Cat(<<Rec(1, c.meta)>>, Of(2, c.models)), Of(3, c.backends)),
                                   Of(4, c.fenced_boots)), Of(5, c.routes))
  <1> SUFFICES ASSUME NEW c
               PROVE  AllRecords(c)
                        = Cat(Cat(Cat(Cat(<<Rec(1, c.meta)>>, Of(2, c.models)), Of(3, c.backends)),
                                  Of(4, c.fenced_boots)), Of(5, c.routes))
    OBVIOUS
  <1>1. AllRecords(c) = Cat(Cat(Cat(Cat(<<Rec(1, c.meta)>>, Of(2, c[Lists[2 - 1]])),
                                    Of(3, c[Lists[3 - 1]])), Of(4, c[Lists[4 - 1]])),
                            Of(5, c[Lists[5 - 1]]))
    BY Zenon DEF AllRecords, Cat, Of, Rec
  <1> QED
    BY <1>1, ListNames

\* A list of n records of a kind.
OfKind(S, r, n, kind, s) == r \in Seq(S) /\ Len(r) = n /\ \A i \in 1..n : r[i] = Rec(kind, s[i])

\* The records of one list.
LEMMA OfIs ==
    ASSUME NEW s, IsList(s), NEW kind, NEW S, \A i \in DOMAIN s : Rec(kind, s[i]) \in S
    PROVE  OfKind(S, Of(kind, s), Len(s), kind, s)
  <1>1. PICK n \in Nat : n = Len(s) /\ DOMAIN s = 1..n
    BY ListIs
  <1>2. Of(kind, s) \in [1..n -> S] /\ \A i \in 1..n : Of(kind, s)[i] = Rec(kind, s[i])
    BY <1>1 DEF Of
  <1>3. Of(kind, s) \in Seq(S) /\ Len(Of(kind, s)) = n
    BY <1>2, SeqOf
  <1> QED
    BY <1>1, <1>2, <1>3 DEF OfKind

\* x is the n members of r and the m members of t.
Joins(S, r, n, t, m, x) ==
    /\ x \in Seq(S) /\ Len(x) = n + m
    /\ \A i \in 1..n : x[i] = r[i]
    /\ \A i \in 1..m : x[n + i] = t[i]

\* Records followed by others.
LEMMA JoinKept ==
    ASSUME NEW S, NEW r \in Seq(S), NEW t \in Seq(S), NEW n, NEW m, Len(r) = n, Len(t) = m
    PROVE  Joins(S, r, n, t, m, Cat(r, t))
  <1>1. Joined(S, r, t, Cat(r, t))
    BY CatJoins
  <1> QED
    BY <1>1, Zenon DEF Joined, Joins

Spots(c, r, a, b, d, e) ==
    /\ r[1] = Rec(1, c.meta)
    /\ \A i \in 1..a : r[1 + i] = Rec(2, c.models[i])
    /\ \A i \in 1..b : r[(1 + a) + i] = Rec(3, c.backends[i])
    /\ \A i \in 1..d : r[((1 + a) + b) + i] = Rec(4, c.fenced_boots[i])
    /\ \A i \in 1..e : r[(((1 + a) + b) + d) + i] = Rec(5, c.routes[i])

Counted(c, a, b, d, e) ==
    /\ a \in Nat /\ b \in Nat /\ d \in Nat /\ e \in Nat
    /\ a = Len(c.models) /\ b = Len(c.backends) /\ d = Len(c.fenced_boots) /\ e = Len(c.routes)

FourLists(c) ==
    IsList(c.models) /\ IsList(c.backends) /\ IsList(c.fenced_boots) /\ IsList(c.routes)

\* How many records there are, and which stands where.
LEMMA RecordsAre ==
    ASSUME NEW c, FourLists(c), NEW a, NEW b, NEW d, NEW e, Counted(c, a, b, d, e)
    PROVE  /\ Len(AllRecords(c)) = (((1 + a) + b) + d) + e
           /\ DOMAIN AllRecords(c) = 1..((((1 + a) + b) + d) + e)
           /\ Spots(c, AllRecords(c), a, b, d, e)
  <1> DEFINE S == {Rec(1, c.meta)} \cup {Rec(2, c.models[i]) : i \in DOMAIN c.models}
                  \cup {Rec(3, c.backends[i]) : i \in DOMAIN c.backends}
                  \cup {Rec(4, c.fenced_boots[i]) : i \in DOMAIN c.fenced_boots}
                  \cup {Rec(5, c.routes[i]) : i \in DOMAIN c.routes}
  <1>1. /\ Rec(1, c.meta) \in S
        /\ \A i \in DOMAIN c.models : Rec(2, c.models[i]) \in S
        /\ \A i \in DOMAIN c.backends : Rec(3, c.backends[i]) \in S
        /\ \A i \in DOMAIN c.fenced_boots : Rec(4, c.fenced_boots[i]) \in S
        /\ \A i \in DOMAIN c.routes : Rec(5, c.routes[i]) \in S
    OBVIOUS
  <1> HIDE DEF S
  <1>2. /\ OfKind(S, Of(2, c.models), Len(c.models), 2, c.models)
        /\ OfKind(S, Of(3, c.backends), Len(c.backends), 3, c.backends)
        /\ OfKind(S, Of(4, c.fenced_boots), Len(c.fenced_boots), 4, c.fenced_boots)
        /\ OfKind(S, Of(5, c.routes), Len(c.routes), 5, c.routes)
    BY <1>1, OfIs DEF FourLists
  <1>3. PICK r1, t2, t3, t4, t5 :
            /\ r1 = <<Rec(1, c.meta)>> /\ t2 = Of(2, c.models) /\ t3 = Of(3, c.backends)
            /\ t4 = Of(4, c.fenced_boots) /\ t5 = Of(5, c.routes)
    OBVIOUS
  <1>4. /\ OfKind(S, t2, a, 2, c.models) /\ OfKind(S, t3, b, 3, c.backends)
        /\ OfKind(S, t4, d, 4, c.fenced_boots) /\ OfKind(S, t5, e, 5, c.routes)
    BY <1>2, <1>3 DEF Counted
  <1>5. PICK n2, n3, n4 : n2 = 1 + a /\ n3 = n2 + b /\ n4 = n3 + d
    OBVIOUS
  <1>6. a \in Nat /\ b \in Nat /\ d \in Nat /\ e \in Nat
    BY DEF Counted
  <1>7. n2 \in Nat /\ n3 \in Nat /\ n4 \in Nat /\ n2 <= n3 /\ n3 <= n4 /\ 1 <= n2
    BY <1>5, <1>6
  <1>8. PICK r2, r3, r4, r5 : r2 = Cat(r1, t2) /\ r3 = Cat(r2, t3) /\ r4 = Cat(r3, t4) /\ r5 = Cat(r4, t5)
    OBVIOUS
  <1>9. AllRecords(c) = r5
    BY <1>3, <1>8, AllRecordsIs
  <1>10. r1 \in Seq(S) /\ Len(r1) = 1 /\ r1[1] = Rec(1, c.meta)
    BY <1>1, <1>3
  <1>11. /\ t2 \in Seq(S) /\ Len(t2) = a /\ t3 \in Seq(S) /\ Len(t3) = b
         /\ t4 \in Seq(S) /\ Len(t4) = d /\ t5 \in Seq(S) /\ Len(t5) = e
    BY <1>4, Zenon DEF OfKind
  <1>12. /\ r2 \in Seq(S) /\ Len(r2) = n2 /\ \A i \in 1..1 : r2[i] = r1[i]
         /\ \A i \in 1..a : r2[1 + i] = t2[i]
    <2>1. Joins(S, r1, 1, t2, a, r2)
      BY <1>8, <1>10, <1>11, JoinKept
    <2> QED
      BY <1>5, <2>1, Zenon DEF Joins
  <1>13. /\ r3 \in Seq(S) /\ Len(r3) = n3 /\ \A i \in 1..n2 : r3[i] = r2[i]
         /\ \A i \in 1..b : r3[n2 + i] = t3[i]
    <2>1. Joins(S, r2, n2, t3, b, r3)
      BY <1>8, <1>11, <1>12, JoinKept
    <2> QED
      BY <1>5, <2>1, Zenon DEF Joins
  <1>14. /\ r4 \in Seq(S) /\ Len(r4) = n4 /\ \A i \in 1..n3 : r4[i] = r3[i]
         /\ \A i \in 1..d : r4[n3 + i] = t4[i]
    <2>1. Joins(S, r3, n3, t4, d, r4)
      BY <1>8, <1>11, <1>13, JoinKept
    <2> QED
      BY <1>5, <2>1, Zenon DEF Joins
  <1>15. /\ r5 \in Seq(S) /\ Len(r5) = n4 + e /\ \A i \in 1..n4 : r5[i] = r4[i]
         /\ \A i \in 1..e : r5[n4 + i] = t5[i]
    <2>1. Joins(S, r4, n4, t5, e, r5)
      BY <1>8, <1>11, <1>14, JoinKept
    <2> QED
      BY <1>5, <2>1, Zenon DEF Joins
  <1>16. /\ \A i \in 1..n2 : r5[i] = r2[i]
         /\ \A i \in 1..n3 : r5[i] = r3[i]
    <2>1. \A i \in 1..n3 : i \in 1..n4
      BY <1>7
    <2>2. \A i \in 1..n2 : i \in 1..n3
      BY <1>7
    <2> QED
      BY <1>13, <1>14, <1>15, <2>1, <2>2
  <1>17. r5[1] = Rec(1, c.meta)
    <2>1. 1 \in 1..1 /\ 1 \in 1..n2
      BY <1>7
    <2> QED
      BY <1>10, <1>12, <1>16, <2>1
  <1>18. ASSUME NEW i \in 1..a PROVE r5[1 + i] = Rec(2, c.models[i])
    <2>1. 1 + i \in 1..n2
      BY <1>5, <1>6
    <2>2. t2[i] = Rec(2, c.models[i])
      BY <1>4, Zenon DEF OfKind
    <2> QED
      BY <1>12, <1>16, <2>1, <2>2
  <1>19. ASSUME NEW i \in 1..b PROVE r5[n2 + i] = Rec(3, c.backends[i])
    <2>1. n2 + i \in 1..n3
      BY <1>5, <1>6, <1>7
    <2>2. t3[i] = Rec(3, c.backends[i])
      BY <1>4, Zenon DEF OfKind
    <2> QED
      BY <1>13, <1>16, <2>1, <2>2
  <1>20. ASSUME NEW i \in 1..d PROVE r5[n3 + i] = Rec(4, c.fenced_boots[i])
    <2>1. n3 + i \in 1..n4
      BY <1>5, <1>6, <1>7
    <2>2. t4[i] = Rec(4, c.fenced_boots[i])
      BY <1>4, Zenon DEF OfKind
    <2> QED
      BY <1>14, <1>15, <2>1, <2>2
  <1>21. ASSUME NEW i \in 1..e PROVE r5[n4 + i] = Rec(5, c.routes[i])
    BY <1>4, <1>15, Zenon DEF OfKind
  <1>22. Spots(c, r5, a, b, d, e)
    BY <1>5, <1>17, <1>18, <1>19, <1>20, <1>21, Zenon DEF Spots
  <1>23. DOMAIN r5 = 1..(n4 + e)
    BY <1>15
  <1> QED
    BY <1>5, <1>9, <1>15, <1>22, <1>23

\* Which list a record is from.
LEMMA Where ==
    ASSUME NEW a \in Nat, NEW b \in Nat, NEW d \in Nat, NEW e \in Nat,
           NEW k \in 1..((((1 + a) + b) + d) + e)
    PROVE  \/ k = 1
           \/ \E i \in 1..a : k = 1 + i
           \/ \E i \in 1..b : k = (1 + a) + i
           \/ \E i \in 1..d : k = ((1 + a) + b) + i
           \/ \E i \in 1..e : k = (((1 + a) + b) + d) + i
  <1>1. CASE k > 1 /\ k <= 1 + a
    <2>1. k - 1 \in 1..a /\ k = 1 + (k - 1)
      BY <1>1
    <2> QED
      BY <2>1, Zenon
  <1>2. CASE k > 1 + a /\ k <= (1 + a) + b
    <2>1. k - (1 + a) \in 1..b /\ k = (1 + a) + (k - (1 + a))
      BY <1>2
    <2> QED
      BY <2>1, Zenon
  <1>3. CASE k > (1 + a) + b /\ k <= ((1 + a) + b) + d
    <2>1. k - ((1 + a) + b) \in 1..d /\ k = ((1 + a) + b) + (k - ((1 + a) + b))
      BY <1>3
    <2> QED
      BY <2>1, Zenon
  <1>4. CASE k > ((1 + a) + b) + d
    <2>1. k - (((1 + a) + b) + d) \in 1..e /\ k = (((1 + a) + b) + d) + (k - (((1 + a) + b) + d))
      BY <1>4
    <2> QED
      BY <2>1, Zenon
  <1>5. k = 1 \/ (k > 1 /\ k <= 1 + a) \/ (k > 1 + a /\ k <= (1 + a) + b)
        \/ (k > (1 + a) + b /\ k <= ((1 + a) + b) + d) \/ k > ((1 + a) + b) + d
    OBVIOUS
  <1> QED
    BY <1>1, <1>2, <1>3, <1>4, <1>5

\* The first n members of a list, none or all.
Taking(s, n) == IF n <= 0 THEN 0 ELSE IF n >= Len(s) THEN Len(s) ELSE n
First(s, n) == [i \in 1..Taking(s, n) |-> s[i]]

\* None of a list,
LEMMA FirstNone == ASSUME NEW s, NEW n \in Int, n <= 0 PROVE First(s, n) = <<>>
  <1>1. Taking(s, n) = 0
    BY DEF Taking
  <1> QED
    BY <1>1 DEF First

\* all of it,
LEMMA FirstAll == ASSUME NEW s, IsList(s), NEW n \in Int, n >= Len(s) PROVE First(s, n) = s
  <1>1. PICK l \in Nat : l = Len(s) /\ s = [i \in 1..l |-> s[i]]
    BY ListIs
  <1>2. Taking(s, n) = l
    BY <1>1 DEF Taking
  <1> QED
    BY <1>1, <1>2 DEF First

\* no more than before,
LEMMA FirstSame ==
    ASSUME NEW s, IsList(s), NEW n \in Int, n <= 0 \/ n > Len(s)
    PROVE  First(s, n) = First(s, n - 1)
  <1>1. CASE n <= 0
    <2>1. n - 1 \in Int /\ n - 1 <= 0
      BY <1>1
    <2> QED
      BY <1>1, <2>1, FirstNone
  <1>2. CASE n > Len(s)
    <2>1. PICK l \in Nat : l = Len(s)
      BY ListIs
    <2>2. n - 1 \in Int /\ n - 1 >= l /\ n >= l
      BY <1>2, <2>1
    <2> QED
      BY <2>1, <2>2, FirstAll
  <1> QED
    BY <1>1, <1>2

\* or one more.
LEMMA FirstNext ==
    ASSUME NEW s, IsList(s), NEW n \in 1..Len(s)
    PROVE  First(s, n) = Append(First(s, n - 1), s[n])
  <1>1. PICK l \in Nat : l = Len(s) /\ DOMAIN s = 1..l
    BY ListIs
  <1>2. n \in 1..l /\ n - 1 \in 0..l /\ Taking(s, n) = n /\ Taking(s, n - 1) = n - 1
    BY <1>1 DEF Taking
  <1>3. First(s, n) = [i \in 1..n |-> s[i]] /\ First(s, n - 1) = [i \in 1..(n - 1) |-> s[i]]
    BY <1>2 DEF First
  <1>4. PICK f : f = [i \in 1..(n - 1) |-> s[i]]
    OBVIOUS
  <1>5. n - 1 \in Nat /\ (n - 1) + 1 = n
    BY <1>2
  <1>6. f \in Seq({s[i] : i \in 1..n}) /\ Len(f) = n - 1
    <2>1. f \in [1..(n - 1) -> {s[i] : i \in 1..n}]
      BY <1>2, <1>4
    <2> QED
      BY <1>5, <2>1, SeqOf
  <1>7. PICK v : v = s[n]
    OBVIOUS
  <1>8. Append(f, v) = [i \in 1..n |-> s[i]]
    <2>1. PICK g : g = Append(f, v)
      OBVIOUS
    <2>2. v \in {s[i] : i \in 1..n}
      BY <1>2, <1>7
    <2>3. g \in Seq({s[i] : i \in 1..n}) /\ Len(g) = n
      BY <1>5, <1>6, <2>1, <2>2
    <2>4. g[n] = v /\ \A i \in 1..(n - 1) : g[i] = f[i]
      BY <1>5, <1>6, <2>1, <2>2
    <2>5. \A i \in 1..n : g[i] = s[i]
      <3> TAKE i \in 1..n
      <3>1. i = n \/ i \in 1..(n - 1)
        BY <1>2
      <3> QED
        BY <1>4, <1>7, <2>4, <3>1
    <2>6. g = [i \in 1..n |-> g[i]]
      BY <2>3
    <2> QED
      BY <2>1, <2>5, <2>6
  <1> QED
    BY <1>3, <1>4, <1>7, <1>8

\* The state after some of the records.
StateIs(meta, models, backends, fenced, routes) ==
    [meta |-> meta, models |-> models, backends |-> backends, fenced_boots |-> fenced,
     routes |-> routes, weights |-> DefaultWeights, other_limits |-> DefaultLimits]

\* What a record of each kind adds to the state.
LEMMA AddIs ==
    ASSUME NEW m, NEW x2, NEW x3, NEW x4, NEW x5, NEW v
    PROVE  /\ Add(StateIs(m, x2, x3, x4, x5), 1, v) = StateIs(v, x2, x3, x4, x5)
           /\ Add(StateIs(m, x2, x3, x4, x5), 2, v) = StateIs(m, Append(x2, v), x3, x4, x5)
           /\ Add(StateIs(m, x2, x3, x4, x5), 3, v) = StateIs(m, x2, Append(x3, v), x4, x5)
           /\ Add(StateIs(m, x2, x3, x4, x5), 4, v) = StateIs(m, x2, x3, Append(x4, v), x5)
           /\ Add(StateIs(m, x2, x3, x4, x5), 5, v) = StateIs(m, x2, x3, x4, Append(x5, v))
  <1>1. PICK y2, y3, y4, y5 : /\ y2 = Append(x2, v) /\ y3 = Append(x3, v) /\ y4 = Append(x4, v)
                              /\ y5 = Append(x5, v)
    OBVIOUS
  <1>2. PICK s : s = StateIs(m, x2, x3, x4, x5)
    OBVIOUS
  <1>3. s.models = x2 /\ s.backends = x3 /\ s.fenced_boots = x4 /\ s.routes = x5
    BY <1>2 DEF StateIs
  <1>4. Add(s, 1, v) = [s EXCEPT !.meta = v]
    BY DEF Add
  <1>5. Add(s, 2, v) = [s EXCEPT !.models = y2]
    <2>1. Add(s, 2, v) = [s EXCEPT ![Lists[2 - 1]] = Append(s[Lists[2 - 1]], v)]
      BY DEF Add
    <2> QED
      BY <1>1, <1>3, <2>1, ListNames
  <1>6. Add(s, 3, v) = [s EXCEPT !.backends = y3]
    <2>1. Add(s, 3, v) = [s EXCEPT ![Lists[3 - 1]] = Append(s[Lists[3 - 1]], v)]
      BY DEF Add
    <2> QED
      BY <1>1, <1>3, <2>1, ListNames
  <1>7. Add(s, 4, v) = [s EXCEPT !.fenced_boots = y4]
    <2>1. Add(s, 4, v) = [s EXCEPT ![Lists[4 - 1]] = Append(s[Lists[4 - 1]], v)]
      BY DEF Add
    <2> QED
      BY <1>1, <1>3, <2>1, ListNames
  <1>8. Add(s, 5, v) = [s EXCEPT !.routes = y5]
    <2>1. Add(s, 5, v) = [s EXCEPT ![Lists[5 - 1]] = Append(s[Lists[5 - 1]], v)]
      BY DEF Add
    <2> QED
      BY <1>1, <1>3, <2>1, ListNames
  <1>9. s = [meta |-> m, models |-> x2, backends |-> x3, fenced_boots |-> x4, routes |-> x5,
             weights |-> DefaultWeights, other_limits |-> DefaultLimits]
    BY <1>2 DEF StateIs
  <1>10. /\ [s EXCEPT !.meta = v] = StateIs(v, x2, x3, x4, x5)
         /\ [s EXCEPT !.models = y2] = StateIs(m, y2, x3, x4, x5)
         /\ [s EXCEPT !.backends = y3] = StateIs(m, x2, y3, x4, x5)
         /\ [s EXCEPT !.fenced_boots = y4] = StateIs(m, x2, x3, y4, x5)
         /\ [s EXCEPT !.routes = y5] = StateIs(m, x2, x3, x4, y5)
    BY <1>9 DEF StateIs
  <1> QED
    BY <1>1, <1>2, <1>4, <1>5, <1>6, <1>7, <1>8, <1>10

Partial(c, k, a, b, d) ==
    StateIs(IF k = 0 THEN <<>> ELSE c.meta, First(c.models, k - 1), First(c.backends, k - (1 + a)),
            First(c.fenced_boots, k - ((1 + a) + b)), First(c.routes, k - (((1 + a) + b) + d)))

\* Before the first record there is nothing,
LEMMA PartialStart ==
    ASSUME NEW c, NEW a \in Nat, NEW b \in Nat, NEW d \in Nat
    PROVE  Partial(c, 0, a, b, d) = Nothing
  <1>1. /\ 0 - 1 \in Int /\ 0 - 1 <= 0 /\ 0 - (1 + a) \in Int /\ 0 - (1 + a) <= 0
        /\ 0 - ((1 + a) + b) \in Int /\ 0 - ((1 + a) + b) <= 0
        /\ 0 - (((1 + a) + b) + d) \in Int /\ 0 - (((1 + a) + b) + d) <= 0
    OBVIOUS
  <1>2. /\ First(c.models, 0 - 1) = <<>> /\ First(c.backends, 0 - (1 + a)) = <<>>
        /\ First(c.fenced_boots, 0 - ((1 + a) + b)) = <<>>
        /\ First(c.routes, 0 - (((1 + a) + b) + d)) = <<>>
    BY <1>1, FirstNone
  <1> QED
    BY <1>2, Zenon DEF Partial, StateIs, Nothing

\* after the last the whole state.
LEMMA PartialEnd ==
    ASSUME NEW c, IsState(c), FourLists(c), NEW a, NEW b, NEW d, NEW e, Counted(c, a, b, d, e)
    PROVE  Partial(c, (((1 + a) + b) + d) + e, a, b, d) = c
  <1>1. PICK n : n = (((1 + a) + b) + d) + e
    OBVIOUS
  <1>2. a \in Nat /\ b \in Nat /\ d \in Nat /\ e \in Nat
    BY DEF Counted
  <1>3. /\ n # 0 /\ n - 1 \in Int /\ n - 1 >= a /\ n - (1 + a) \in Int /\ n - (1 + a) >= b
        /\ n - ((1 + a) + b) \in Int /\ n - ((1 + a) + b) >= d
        /\ n - (((1 + a) + b) + d) \in Int /\ n - (((1 + a) + b) + d) >= e
    BY <1>1, <1>2
  <1>4. /\ n - 1 >= Len(c.models) /\ n - (1 + a) >= Len(c.backends)
        /\ n - ((1 + a) + b) >= Len(c.fenced_boots)
        /\ n - (((1 + a) + b) + d) >= Len(c.routes)
    BY <1>3 DEF Counted
  <1>5. /\ First(c.models, n - 1) = c.models /\ First(c.backends, n - (1 + a)) = c.backends
        /\ First(c.fenced_boots, n - ((1 + a) + b)) = c.fenced_boots
        /\ First(c.routes, n - (((1 + a) + b) + d)) = c.routes
    BY <1>3, <1>4, FirstAll DEF FourLists
  <1>6. Partial(c, n, a, b, d) = StateIs(c.meta, c.models, c.backends, c.fenced_boots, c.routes)
    BY <1>3, <1>5, Zenon DEF Partial
  <1>7. StateIs(c.meta, c.models, c.backends, c.fenced_boots, c.routes) = c
    BY Zenon DEF StateIs, IsState
  <1> QED
    BY <1>1, <1>6, <1>7

\* A list of l members, after k records of which it has those after the first o.
Stays(s, k, o) == First(s, k - o) = First(s, (k - 1) - o)
Grows(s, k, o, v) == First(s, k - o) = Append(First(s, (k - 1) - o), v)

\* A list that the next record is not of,
LEMMA ListStays ==
    ASSUME NEW s, IsList(s), NEW k \in Int, NEW o \in Int, k <= o \/ k > o + Len(s)
    PROVE  Stays(s, k, o)
  <1>1. PICK l \in Nat : l = Len(s)
    BY ListIs
  <1>2. k - o \in Int /\ (k - o <= 0 \/ k - o > l) /\ (k - o) - 1 = (k - 1) - o
    BY <1>1
  <1>3. First(s, k - o) = First(s, (k - o) - 1)
    BY <1>1, <1>2, FirstSame
  <1> QED
    BY <1>2, <1>3 DEF Stays

\* and one that it is of.
LEMMA ListGrows ==
    ASSUME NEW s, IsList(s), NEW o \in Int, NEW i \in 1..Len(s)
    PROVE  Grows(s, o + i, o, s[i])
  <1>1. PICK l \in Nat : l = Len(s)
    BY ListIs
  <1>2. (o + i) - o = i /\ ((o + i) - 1) - o = i - 1
    BY <1>1
  <1>3. First(s, i) = Append(First(s, i - 1), s[i])
    BY FirstNext
  <1> QED
    BY <1>2, <1>3 DEF Grows

\* A record adds itself to its list.
LEMMA PartialNext ==
    ASSUME NEW c, FourLists(c), NEW a, NEW b, NEW d, NEW e, Counted(c, a, b, d, e), NEW r,
           Spots(c, r, a, b, d, e), NEW k \in 1..((((1 + a) + b) + d) + e)
    PROVE  Partial(c, k, a, b, d) = Add(Partial(c, k - 1, a, b, d), r[k].kind, r[k].value)
  <1>1. a \in Nat /\ b \in Nat /\ d \in Nat /\ e \in Nat
    BY DEF Counted
  <1>2. PICK o3, o4, o5 : o3 = 1 + a /\ o4 = (1 + a) + b /\ o5 = ((1 + a) + b) + d
    OBVIOUS
  <1>3. o3 \in Nat /\ o4 \in Nat /\ o5 \in Nat /\ k \in Nat /\ k >= 1 /\ k - 1 \in Nat
        /\ o3 = 1 + a /\ o4 = o3 + b /\ o5 = o4 + d
    BY <1>1, <1>2
  <1>4. /\ a = Len(c.models) /\ b = Len(c.backends) /\ d = Len(c.fenced_boots) /\ e = Len(c.routes)
    BY DEF Counted
  <1>5. IsList(c.models) /\ IsList(c.backends) /\ IsList(c.fenced_boots) /\ IsList(c.routes)
    BY DEF FourLists
  <1>6. PICK m, x2, x3, x4, x5 :
            /\ m = (IF k - 1 = 0 THEN <<>> ELSE c.meta) /\ x2 = First(c.models, (k - 1) - 1)
            /\ x3 = First(c.backends, (k - 1) - o3) /\ x4 = First(c.fenced_boots, (k - 1) - o4)
            /\ x5 = First(c.routes, (k - 1) - o5)
    OBVIOUS
  <1>7. Partial(c, k - 1, a, b, d) = StateIs(m, x2, x3, x4, x5)
    BY <1>2, <1>6, Zenon DEF Partial
  <1>8. Partial(c, k, a, b, d)
          = StateIs(c.meta, First(c.models, k - 1), First(c.backends, k - o3),
                    First(c.fenced_boots, k - o4), First(c.routes, k - o5))
    <2>1. k # 0
      BY <1>3
    <2> QED
      BY <1>2, <2>1, Zenon DEF Partial
  <1>9. k # 1 => m = c.meta
    <2>1. k # 1 => k - 1 # 0
      BY <1>3
    <2> QED
      BY <1>6, <2>1
  <1>10. CASE k = 1
    <2>1. Stays(c.models, k, 1) /\ Stays(c.backends, k, o3) /\ Stays(c.fenced_boots, k, o4)
          /\ Stays(c.routes, k, o5)
      <3>1. k <= 1 /\ k <= o3 /\ k <= o4 /\ k <= o5
        BY <1>1, <1>3, <1>10
      <3> QED
        BY <1>3, <1>5, <3>1, ListStays
    <2>2. Partial(c, k, a, b, d) = StateIs(c.meta, x2, x3, x4, x5)
      BY <1>6, <1>8, <2>1, Zenon DEF Stays
    <2>3. r[k].kind = 1 /\ r[k].value = c.meta
      BY <1>10, RecFields DEF Spots
    <2> QED
      BY <1>7, <2>2, <2>3, AddIs
  <1>11. ASSUME NEW i \in 1..a, k = 1 + i
         PROVE  Partial(c, k, a, b, d) = Add(Partial(c, k - 1, a, b, d), r[k].kind, r[k].value)
    <2>1. k <= o3 /\ k <= o4 /\ k <= o5 /\ k # 1
      BY <1>1, <1>3, <1>11
    <2>2. k <= o3 /\ k <= o4 /\ k <= o5
      BY <1>4, <2>1
    <2>3. Stays(c.backends, k, o3) /\ Stays(c.fenced_boots, k, o4) /\ Stays(c.routes, k, o5)
      <3>1. k \in Int /\ 1 \in Int /\ o3 \in Int /\ o4 \in Int /\ o5 \in Int
        BY <1>3
      <3>2. Stays(c.backends, k, o3)
        BY <1>5, <2>2, <3>1, ListStays
      <3>3. Stays(c.fenced_boots, k, o4)
        BY <1>5, <2>2, <3>1, ListStays
      <3>4. Stays(c.routes, k, o5)
        BY <1>5, <2>2, <3>1, ListStays
      <3> QED
        BY <3>2, <3>3, <3>4
    <2>4. Grows(c.models, k, 1, c.models[i])
      <3>1. i \in 1..Len(c.models) /\ 1 \in Int
        BY <1>3, <1>4, <1>11
      <3>2. Grows(c.models, 1 + i, 1, c.models[i])
        BY <1>5, <3>1, ListGrows
      <3> QED
        BY <1>11, <3>2
    <2>5. Partial(c, k, a, b, d)
            = StateIs(m, Append(x2, c.models[i]), x3, x4, x5)
      BY <1>6, <1>8, <1>9, <2>1, <2>3, <2>4, Zenon DEF Stays, Grows
    <2>6. r[k] = Rec(2, c.models[i])
      BY <1>2, <1>11, Zenon DEF Spots
    <2>7. r[k].kind = 2 /\ r[k].value = c.models[i]
      BY <2>6, RecFields
    <2> QED
      BY <1>7, <2>5, <2>7, AddIs
  <1>12. ASSUME NEW i \in 1..b, k = o3 + i
         PROVE  Partial(c, k, a, b, d) = Add(Partial(c, k - 1, a, b, d), r[k].kind, r[k].value)
    <2>1. k > 1 + a /\ k <= o4 /\ k <= o5 /\ k # 1
      BY <1>1, <1>3, <1>12
    <2>2. k > 1 + Len(c.models) /\ k <= o4 /\ k <= o5
      BY <1>4, <2>1
    <2>3. Stays(c.models, k, 1) /\ Stays(c.fenced_boots, k, o4) /\ Stays(c.routes, k, o5)
      <3>1. k \in Int /\ 1 \in Int /\ o3 \in Int /\ o4 \in Int /\ o5 \in Int
        BY <1>3
      <3>2. Stays(c.models, k, 1)
        BY <1>5, <2>2, <3>1, ListStays
      <3>3. Stays(c.fenced_boots, k, o4)
        BY <1>5, <2>2, <3>1, ListStays
      <3>4. Stays(c.routes, k, o5)
        BY <1>5, <2>2, <3>1, ListStays
      <3> QED
        BY <3>2, <3>3, <3>4
    <2>4. Grows(c.backends, k, o3, c.backends[i])
      <3>1. i \in 1..Len(c.backends) /\ o3 \in Int
        BY <1>3, <1>4, <1>12
      <3>2. Grows(c.backends, o3 + i, o3, c.backends[i])
        BY <1>5, <3>1, ListGrows
      <3> QED
        BY <1>12, <3>2
    <2>5. Partial(c, k, a, b, d)
            = StateIs(m, x2, Append(x3, c.backends[i]), x4, x5)
      BY <1>6, <1>8, <1>9, <2>1, <2>3, <2>4, Zenon DEF Stays, Grows
    <2>6. r[k] = Rec(3, c.backends[i])
      BY <1>2, <1>12, Zenon DEF Spots
    <2>7. r[k].kind = 3 /\ r[k].value = c.backends[i]
      BY <2>6, RecFields
    <2> QED
      BY <1>7, <2>5, <2>7, AddIs
  <1>13. ASSUME NEW i \in 1..d, k = o4 + i
         PROVE  Partial(c, k, a, b, d) = Add(Partial(c, k - 1, a, b, d), r[k].kind, r[k].value)
    <2>1. k > 1 + a /\ k > o3 + b /\ k <= o5 /\ k # 1
      BY <1>1, <1>3, <1>13
    <2>2. k > 1 + Len(c.models) /\ k > o3 + Len(c.backends) /\ k <= o5
      BY <1>4, <2>1
    <2>3. Stays(c.models, k, 1) /\ Stays(c.backends, k, o3) /\ Stays(c.routes, k, o5)
      <3>1. k \in Int /\ 1 \in Int /\ o3 \in Int /\ o4 \in Int /\ o5 \in Int
        BY <1>3
      <3>2. Stays(c.models, k, 1)
        BY <1>5, <2>2, <3>1, ListStays
      <3>3. Stays(c.backends, k, o3)
        BY <1>5, <2>2, <3>1, ListStays
      <3>4. Stays(c.routes, k, o5)
        BY <1>5, <2>2, <3>1, ListStays
      <3> QED
        BY <3>2, <3>3, <3>4
    <2>4. Grows(c.fenced_boots, k, o4, c.fenced_boots[i])
      <3>1. i \in 1..Len(c.fenced_boots) /\ o4 \in Int
        BY <1>3, <1>4, <1>13
      <3>2. Grows(c.fenced_boots, o4 + i, o4, c.fenced_boots[i])
        BY <1>5, <3>1, ListGrows
      <3> QED
        BY <1>13, <3>2
    <2>5. Partial(c, k, a, b, d)
            = StateIs(m, x2, x3, Append(x4, c.fenced_boots[i]), x5)
      BY <1>6, <1>8, <1>9, <2>1, <2>3, <2>4, Zenon DEF Stays, Grows
    <2>6. r[k] = Rec(4, c.fenced_boots[i])
      BY <1>2, <1>13, Zenon DEF Spots
    <2>7. r[k].kind = 4 /\ r[k].value = c.fenced_boots[i]
      BY <2>6, RecFields
    <2> QED
      BY <1>7, <2>5, <2>7, AddIs
  <1>14. ASSUME NEW i \in 1..e, k = o5 + i
         PROVE  Partial(c, k, a, b, d) = Add(Partial(c, k - 1, a, b, d), r[k].kind, r[k].value)
    <2>1. k > 1 + a /\ k > o3 + b /\ k > o4 + d /\ k # 1
      BY <1>1, <1>3, <1>14
    <2>2. k > 1 + Len(c.models) /\ k > o3 + Len(c.backends) /\ k > o4 + Len(c.fenced_boots)
      BY <1>4, <2>1
    <2>3. Stays(c.models, k, 1) /\ Stays(c.backends, k, o3) /\ Stays(c.fenced_boots, k, o4)
      <3>1. k \in Int /\ 1 \in Int /\ o3 \in Int /\ o4 \in Int /\ o5 \in Int
        BY <1>3
      <3>2. Stays(c.models, k, 1)
        BY <1>5, <2>2, <3>1, ListStays
      <3>3. Stays(c.backends, k, o3)
        BY <1>5, <2>2, <3>1, ListStays
      <3>4. Stays(c.fenced_boots, k, o4)
        BY <1>5, <2>2, <3>1, ListStays
      <3> QED
        BY <3>2, <3>3, <3>4
    <2>4. Grows(c.routes, k, o5, c.routes[i])
      <3>1. i \in 1..Len(c.routes) /\ o5 \in Int
        BY <1>3, <1>4, <1>14
      <3>2. Grows(c.routes, o5 + i, o5, c.routes[i])
        BY <1>5, <3>1, ListGrows
      <3> QED
        BY <1>14, <3>2
    <2>5. Partial(c, k, a, b, d)
            = StateIs(m, x2, x3, x4, Append(x5, c.routes[i]))
      BY <1>6, <1>8, <1>9, <2>1, <2>3, <2>4, Zenon DEF Stays, Grows
    <2>6. r[k] = Rec(5, c.routes[i])
      BY <1>2, <1>14, Zenon DEF Spots
    <2>7. r[k].kind = 5 /\ r[k].value = c.routes[i]
      BY <2>6, RecFields
    <2> QED
      BY <1>7, <2>5, <2>7, AddIs
  <1> QED
    <2>1. \/ k = 1 \/ (\E i \in 1..a : k = 1 + i) \/ (\E i \in 1..b : k = o3 + i)
          \/ (\E i \in 1..d : k = o4 + i) \/ (\E i \in 1..e : k = o5 + i)
      BY <1>1, <1>2, Where
    <2> QED
      BY <1>10, <1>11, <1>12, <1>13, <1>14, <2>1, Zenon

\* Kind and value of the record at each place.
LEMMA SpotFields ==
    ASSUME NEW c, NEW r, NEW a, NEW b, NEW d, NEW e, Spots(c, r, a, b, d, e)
    PROVE  /\ r[1].kind = 1 /\ r[1].value = c.meta
           /\ \A i \in 1..a : r[1 + i].kind = 2 /\ r[1 + i].value = c.models[i]
           /\ \A i \in 1..b : r[(1 + a) + i].kind = 3 /\ r[(1 + a) + i].value = c.backends[i]
           /\ \A i \in 1..d : /\ r[((1 + a) + b) + i].kind = 4
                             /\ r[((1 + a) + b) + i].value = c.fenced_boots[i]
           /\ \A i \in 1..e : /\ r[(((1 + a) + b) + d) + i].kind = 5
                             /\ r[(((1 + a) + b) + d) + i].value = c.routes[i]
  <1>1. /\ r[1] = Rec(1, c.meta)
        /\ \A i \in 1..a : r[1 + i] = Rec(2, c.models[i])
        /\ \A i \in 1..b : r[(1 + a) + i] = Rec(3, c.backends[i])
        /\ \A i \in 1..d : r[((1 + a) + b) + i] = Rec(4, c.fenced_boots[i])
        /\ \A i \in 1..e : r[(((1 + a) + b) + d) + i] = Rec(5, c.routes[i])
    BY Zenon DEF Spots
  <1> QED
    BY <1>1, RecFields

\* What holds of each list holds of each record, and the other way round.
LEMMA ListsTyped ==
    ASSUME NEW c, TypedRecords(c), NEW a, NEW b, NEW d, NEW e, Counted(c, a, b, d, e), NEW r,
           Spots(c, r, a, b, d, e), NEW k \in 1..((((1 + a) + b) + d) + e)
    PROVE  r[k].kind \in 1..5 /\ Typed(WriteRecord[r[k].kind], r[k].value)
  <1>1. a \in Nat /\ b \in Nat /\ d \in Nat /\ e \in Nat
    BY DEF Counted
  <1>2. /\ Typed(write_meta, c.meta) /\ TypedAll(c.models, write_model)
        /\ TypedAll(c.backends, write_backend) /\ TypedAll(c.fenced_boots, write_fenced)
        /\ TypedAll(c.routes, write_route)
    BY TypedLists
  <1>3. /\ DOMAIN c.models = 1..a /\ DOMAIN c.backends = 1..b /\ DOMAIN c.fenced_boots = 1..d
        /\ DOMAIN c.routes = 1..e
    BY <1>2, ListIs DEF TypedAll, Counted
  <1>4. /\ \A i \in 1..a : Typed(write_model, c.models[i])
        /\ \A i \in 1..b : Typed(write_backend, c.backends[i])
        /\ \A i \in 1..d : Typed(write_fenced, c.fenced_boots[i])
        /\ \A i \in 1..e : Typed(write_route, c.routes[i])
    BY <1>2, <1>3 DEF TypedAll
  <1>5. \A i \in 1..a : r[1 + i].kind = 2 /\ r[1 + i].value = c.models[i]
    BY SpotFields
  <1>6. \A i \in 1..b : r[(1 + a) + i].kind = 3 /\ r[(1 + a) + i].value = c.backends[i]
    BY SpotFields
  <1>7. \A i \in 1..d : r[((1 + a) + b) + i].kind = 4 /\ r[((1 + a) + b) + i].value = c.fenced_boots[i]
    BY SpotFields
  <1>8. \A i \in 1..e : /\ r[(((1 + a) + b) + d) + i].kind = 5
                        /\ r[(((1 + a) + b) + d) + i].value = c.routes[i]
    BY SpotFields
  <1>9. r[1].kind = 1 /\ r[1].value = c.meta
    BY SpotFields
  <1>10. CASE k = 1
    BY <1>2, <1>9, <1>10, RecordLayouts
  <1>11. CASE \E i \in 1..a : k = 1 + i
    BY <1>4, <1>5, <1>11, RecordLayouts
  <1>12. CASE \E i \in 1..b : k = (1 + a) + i
    BY <1>4, <1>6, <1>12, RecordLayouts
  <1>13. CASE \E i \in 1..d : k = ((1 + a) + b) + i
    BY <1>4, <1>7, <1>13, RecordLayouts
  <1>14. CASE \E i \in 1..e : k = (((1 + a) + b) + d) + i
    BY <1>4, <1>8, <1>14, RecordLayouts
  <1> QED
    BY <1>1, <1>10, <1>11, <1>12, <1>13, <1>14, Where

AllowedAll(rs, fields, n) == \A i \in 1..n : Allowed(fields, rs[i])

\* AllowedRecords list by list,
LEMMA AllowedLists ==
    ASSUME NEW c, FourLists(c), NEW a, NEW b, NEW d, NEW e, Counted(c, a, b, d, e)
    PROVE  AllowedRecords(c) <=> /\ AllowedAll(c.models, write_model, a)
                                 /\ AllowedAll(c.backends, write_backend, b)
                                 /\ AllowedAll(c.fenced_boots, write_fenced, d)
                                 /\ AllowedAll(c.routes, write_route, e)
  <1>1. /\ DOMAIN c.models = 1..a /\ DOMAIN c.backends = 1..b /\ DOMAIN c.fenced_boots = 1..d
        /\ DOMAIN c.routes = 1..e
    BY ListIs DEF FourLists, Counted
  <1> DEFINE P(kind) == \A i \in DOMAIN c[Lists[kind - 1]] :
                            Allowed(WriteRecord[kind], c[Lists[kind - 1]][i])
  <1>2. AllowedRecords(c) <=> \A kind \in 2..5 : P(kind)
    BY Zenon DEF AllowedRecords
  <1>3. /\ P(2) <=> AllowedAll(c.models, write_model, a)
        /\ P(3) <=> AllowedAll(c.backends, write_backend, b)
        /\ P(4) <=> AllowedAll(c.fenced_boots, write_fenced, d)
        /\ P(5) <=> AllowedAll(c.routes, write_route, e)
    BY <1>1, ListNames, RecordLayouts DEF AllowedAll
  <1> HIDE DEF P
  <1>4. \A kind \in 2..5 : kind = 2 \/ kind = 3 \/ kind = 4 \/ kind = 5
    OBVIOUS
  <1>5. 2 \in 2..5 /\ 3 \in 2..5 /\ 4 \in 2..5 /\ 5 \in 2..5
    OBVIOUS
  <1>6. (\A kind \in 2..5 : P(kind)) <=> P(2) /\ P(3) /\ P(4) /\ P(5)
    BY <1>4, <1>5
  <1> QED
    BY <1>2, <1>3, <1>6

AllRecordsAllowed(r, n) == \A k \in 1..n : RecordAllowed(r[k].kind, r[k].value)

\* and record by record.
LEMMA ListsAllowed ==
    ASSUME NEW c, FourLists(c), NEW a, NEW b, NEW d, NEW e, Counted(c, a, b, d, e), NEW r,
           Spots(c, r, a, b, d, e)
    PROVE  AllowedRecords(c) <=> AllRecordsAllowed(r, (((1 + a) + b) + d) + e)
  <1>1. a \in Nat /\ b \in Nat /\ d \in Nat /\ e \in Nat
    BY DEF Counted
  <1>2. PICK n : n = (((1 + a) + b) + d) + e
    OBVIOUS
  <1>3. AllowedRecords(c) <=> /\ AllowedAll(c.models, write_model, a)
                              /\ AllowedAll(c.backends, write_backend, b)
                              /\ AllowedAll(c.fenced_boots, write_fenced, d)
                              /\ AllowedAll(c.routes, write_route, e)
    BY AllowedLists
  <1>4. r[1].kind = 1
    BY SpotFields
  <1>5. RecordAllowed(r[1].kind, r[1].value)
    BY <1>4 DEF RecordAllowed
  <1>6. \A i \in 1..a : RecordAllowed(r[1 + i].kind, r[1 + i].value) <=> Allowed(write_model, c.models[i])
    <2> TAKE i \in 1..a
    <2>1. r[1 + i].kind = 2 /\ r[1 + i].value = c.models[i]
      BY SpotFields
    <2> QED
      BY <2>1, RecordLayouts DEF RecordAllowed
  <1>7. \A i \in 1..b : RecordAllowed(r[(1 + a) + i].kind, r[(1 + a) + i].value)
                          <=> Allowed(write_backend, c.backends[i])
    <2> TAKE i \in 1..b
    <2>1. r[(1 + a) + i].kind = 3 /\ r[(1 + a) + i].value = c.backends[i]
      BY SpotFields
    <2> QED
      BY <2>1, RecordLayouts DEF RecordAllowed
  <1>8. \A i \in 1..d : RecordAllowed(r[((1 + a) + b) + i].kind, r[((1 + a) + b) + i].value)
                          <=> Allowed(write_fenced, c.fenced_boots[i])
    <2> TAKE i \in 1..d
    <2>1. r[((1 + a) + b) + i].kind = 4 /\ r[((1 + a) + b) + i].value = c.fenced_boots[i]
      BY SpotFields
    <2> QED
      BY <2>1, RecordLayouts DEF RecordAllowed
  <1>9. \A i \in 1..e : RecordAllowed(r[(((1 + a) + b) + d) + i].kind, r[(((1 + a) + b) + d) + i].value)
                          <=> Allowed(write_route, c.routes[i])
    <2> TAKE i \in 1..e
    <2>1. r[(((1 + a) + b) + d) + i].kind = 5 /\ r[(((1 + a) + b) + d) + i].value = c.routes[i]
      BY SpotFields
    <2> QED
      BY <2>1, RecordLayouts DEF RecordAllowed
  <1>10. ASSUME AllowedRecords(c) PROVE AllRecordsAllowed(r, n)
    <2> SUFFICES ASSUME NEW k \in 1..n PROVE RecordAllowed(r[k].kind, r[k].value)
      BY DEF AllRecordsAllowed
    <2>1. /\ \A i \in 1..a : RecordAllowed(r[1 + i].kind, r[1 + i].value)
          /\ \A i \in 1..b : RecordAllowed(r[(1 + a) + i].kind, r[(1 + a) + i].value)
          /\ \A i \in 1..d : RecordAllowed(r[((1 + a) + b) + i].kind, r[((1 + a) + b) + i].value)
          /\ \A i \in 1..e : RecordAllowed(r[(((1 + a) + b) + d) + i].kind,
                                           r[(((1 + a) + b) + d) + i].value)
      BY <1>3, <1>6, <1>7, <1>8, <1>9, <1>10, Zenon DEF AllowedAll
    <2>2. \/ k = 1 \/ (\E i \in 1..a : k = 1 + i) \/ (\E i \in 1..b : k = (1 + a) + i)
          \/ (\E i \in 1..d : k = ((1 + a) + b) + i)
          \/ (\E i \in 1..e : k = (((1 + a) + b) + d) + i)
      BY <1>1, <1>2, Where
    <2> QED
      BY <1>5, <2>1, <2>2, Zenon
  <1>11. ASSUME AllRecordsAllowed(r, n) PROVE AllowedRecords(c)
    <2>1. /\ \A i \in 1..a : 1 + i \in 1..n
          /\ \A i \in 1..b : (1 + a) + i \in 1..n
          /\ \A i \in 1..d : ((1 + a) + b) + i \in 1..n
          /\ \A i \in 1..e : (((1 + a) + b) + d) + i \in 1..n
      BY <1>1, <1>2
    <2>2. /\ \A i \in 1..a : RecordAllowed(r[1 + i].kind, r[1 + i].value)
          /\ \A i \in 1..b : RecordAllowed(r[(1 + a) + i].kind, r[(1 + a) + i].value)
          /\ \A i \in 1..d : RecordAllowed(r[((1 + a) + b) + i].kind, r[((1 + a) + b) + i].value)
          /\ \A i \in 1..e : RecordAllowed(r[(((1 + a) + b) + d) + i].kind,
                                           r[(((1 + a) + b) + d) + i].value)
      BY <1>11, <2>1, Zenon DEF AllRecordsAllowed
    <2> QED
      BY <1>3, <1>6, <1>7, <1>8, <1>9, <2>2, Zenon DEF AllowedAll
  <1> QED
    BY <1>2, <1>10, <1>11

-----------------------------------------------------------------------------
(***************************************************************************)
(* All the records of the state file.                                      *)
(***************************************************************************)
\* One turn of the loop of decode.
Turn(payload, acc) ==
    IF ~acc.ok \/ acc.off >= Len(payload) THEN acc ELSE read_record(payload, acc, limits)
Turns(payload, n, u) ==
    /\ u[0] = Start /\ read_records(payload, limits) = u[n]
    /\ \A i \in 1..n : u[i] = Turn(payload, u[i - 1])

\* The turns of the loop one by one.
LEMMA RecordsSteps ==
    ASSUME NEW payload, NEW n \in Nat, n = limits.max_persistence_records + 1
    PROVE  \E u : Turns(payload, n, u)
  <1> DEFINE N(i, r) == Turn(payload, r)
             B == Start
             S == {k \in 0..n : \E f : f = [i \in 0..k |-> IF i = 0 THEN B ELSE N(i, f[i - 1])]}
  <1>0. n \in Nat
    OBVIOUS
  <1> HIDE DEF N, B
  <1>1. 0 \in S
    <2> DEFINE f == [i \in 0..0 |-> B]
    <2>1. f = [i \in 0..0 |-> IF i = 0 THEN B ELSE N(i, f[i - 1])]
      <3>1. f = [i \in 0..0 |-> f[i]] /\ \A i \in 0..0 : i = 0 /\ f[i] = B
        OBVIOUS
      <3> HIDE DEF f
      <3> QED
        BY <3>1
    <2> HIDE DEF f
    <2> QED
      BY <1>0, <2>1
  <1>2. ASSUME NEW k \in 0..(n - 1), k \in S PROVE k + 1 \in S
    <2>1. PICK f : f = [i \in 0..k |-> IF i = 0 THEN B ELSE N(i, f[i - 1])]
      BY <1>2
    <2> DEFINE h == [i \in 0..(k + 1) |-> IF i = k + 1 THEN N(k + 1, f[k]) ELSE f[i]]
    <2>2. ASSUME NEW i \in 0..(k + 1) PROVE h[i] = IF i = 0 THEN B ELSE N(i, h[i - 1])
      <3>1. CASE i = k + 1
        <4>1. h[i - 1] = f[k] /\ i # 0
          BY <3>1
        <4> QED
          BY <3>1, <4>1
      <3>2. CASE i # k + 1
        <4>1. i \in 0..k /\ h[i] = f[i]
          BY <3>2
        <4>2. CASE i = 0
          BY <2>1, <4>1, <4>2
        <4>3. CASE i # 0
          <5>1. i - 1 \in 0..(k + 1) /\ i - 1 # k + 1
            BY <4>1, <4>3
          <5>2. h[i - 1] = f[i - 1]
            BY <5>1
          <5> QED
            BY <2>1, <4>1, <4>3, <5>2
        <4> QED
          BY <4>2, <4>3
      <3> QED
        BY <3>1, <3>2
    <2>3. h = [i \in 0..(k + 1) |-> IF i = 0 THEN B ELSE N(i, h[i - 1])]
      <3>1. DOMAIN h = 0..(k + 1) /\ h = [i \in 0..(k + 1) |-> h[i]]
        OBVIOUS
      <3> HIDE DEF h
      <3> QED
        BY <2>2, <3>1
    <2> HIDE DEF h
    <2>4. k + 1 \in 0..n
      BY <1>0
    <2> QED
      BY <2>3, <2>4
  <1>3. n \in S
    <2> HIDE DEF S
    <2>1. \A k \in 0..(n - 1) : k \in S => k + 1 \in S
      BY <1>2
    <2>2. \A k \in 0..n : k \in S
      BY <1>0, <1>1, <2>1, SetInduction
    <2> QED
      BY <1>0, <2>2
  <1>4. PICK f : f = [i \in 0..n |-> IF i = 0 THEN B ELSE N(i, f[i - 1])]
    BY <1>3
  <1>5. PICK u : u = [i \in 0..n |-> IF i = 0 THEN B ELSE N(i, u[i - 1])]
                 /\ read_records(payload, limits) = u[n]
    BY <1>4, Zenon DEF read_records, Turn, N, B
  <1>6. u[0] = B /\ \A i \in 1..n : u[i] = N(i, u[i - 1])
    BY <1>0, <1>5
  <1> QED
    BY <1>5, <1>6, Zenon DEF N, B, Turns

\* A turn that changes nothing is followed by others that change nothing.
LEMMA TurnsStay ==
    ASSUME NEW payload, NEW n \in Nat, NEW u, Turns(payload, n, u), NEW k \in 0..n,
           Turn(payload, u[k]) = u[k]
    PROVE  read_records(payload, limits) = u[k]
  <1> DEFINE S == {j \in 0..(n - k) : u[k + j] = u[k]}
  <1>1. n - k \in Nat /\ k + (n - k) = n
    OBVIOUS
  <1>2. 0 \in S
    <2>1. k + 0 = k /\ 0 \in 0..(n - k)
      OBVIOUS
    <2> QED
      BY <2>1
  <1>3. ASSUME NEW j \in 0..((n - k) - 1), j \in S PROVE j + 1 \in S
    <2>1. j + 1 \in 0..(n - k) /\ k + (j + 1) \in 1..n /\ (k + (j + 1)) - 1 = k + j
      OBVIOUS
    <2>2. u[k + (j + 1)] = Turn(payload, u[k + j])
      BY <2>1 DEF Turns
    <2> QED
      BY <1>3, <2>1, <2>2
  <1> HIDE DEF S
  <1>4. \A j \in 0..(n - k) : j \in S
    BY <1>1, <1>2, <1>3, SetInduction
  <1>5. n - k \in S
    BY <1>1, <1>4
  <1>6. u[n] = u[k]
    BY <1>1, <1>5 DEF S
  <1> QED
    BY <1>6 DEF Turns

\* put_int writes as many bytes as its width, whatever the number.
LEMMA PutAny == \A v \in Nat : Sized(put_int(v, 4), 4)
  <1> SUFFICES ASSUME NEW v \in Nat PROVE Sized(put_int(v, 4), 4)
    OBVIOUS
  <1>1. put_int(v, 4) = Magnitude(v, 4)
    BY DEF put_int
  <1>2. \A i \in 1..4 : Place[i] \in Nat \ {0}
    <2>1. \A i \in 1..4 : i = 1 \/ i = 2 \/ i = 3 \/ i = 4
      OBVIOUS
    <2> QED
      BY <2>1, SMT DEF Place
  <1>3. \A x \in Nat : x % 256 \in Byte
    BY DEF Byte
  <1>4. \A x \in Nat : \A y \in Nat \ {0} : x \div y \in Nat
    OBVIOUS
  <1>5. \A i \in 1..4 : (v \div Place[i]) % 256 \in Byte
    BY <1>2, <1>3, <1>4
  <1>6. \A i \in 1..4 : ~(i > 4)
    OBVIOUS
  <1>7. Magnitude(v, 4) = [i \in 1..4 |-> (v \div Place[i]) % 256]
    BY <1>6 DEF Magnitude
  <1>8. Magnitude(v, 4) \in [1..4 -> Byte]
    BY <1>5, <1>7
  <1>9. PICK w : w = 4
    OBVIOUS
  <1>10. Magnitude(v, 4) \in Seq(Byte) /\ Len(Magnitude(v, 4)) = w
    <2>1. w \in Nat /\ Magnitude(v, 4) \in [1..w -> Byte]
      BY <1>8, <1>9
    <2> QED
      BY <2>1, SeqOf
  <1> QED
    BY <1>1, <1>9, <1>10 DEF Sized

\* Six bytes and the body.
LEMMA BodyIn ==
    ASSUME NEW kind \in 1..5, NEW v, Typed(WriteRecord[kind], v)
    PROVE  Sized(write_record(kind, v), 6 + Len(Body(kind, v))) /\ Len(Body(kind, v)) \in Nat
  <1>1. PICK body : body = Body(kind, v)
    OBVIOUS
  <1>2. body \in Seq(Byte)
    BY <1>1, RecordLayout, Bytes_3, Zenon DEF Body
  <1>3. Len(body) \in Nat /\ Sized(body, Len(body))
    BY <1>2 DEF Sized
  <1>4. Sized(put_int(kind, 2), 2) /\ Sized(put_int(Len(body), 4), 4)
    <2>1. kind \in 0..255
      OBVIOUS
    <2> QED
      BY <1>3, <2>1, PutTwo, PutAny
  <1>5. write_record(kind, v) = Cat(Cat(put_int(kind, 2), put_int(Len(body), 4)), body)
    BY <1>1, Zenon DEF write_record, Cat, Body
  <1>6. Sized(Cat(put_int(kind, 2), put_int(Len(body), 4)), 6)
    <2>1. Sized(Cat(put_int(kind, 2), put_int(Len(body), 4)), 2 + 4)
      BY <1>4, CatSize, Zenon
    <2> QED
      BY <2>1
  <1>7. Sized(write_record(kind, v), 6 + Len(body))
    BY <1>3, <1>5, <1>6, CatSize, Zenon
  <1> QED
    BY <1>1, <1>3, <1>7

\* The records r of a payload, each where it was written.
Written(payload, r, n, w) ==
    /\ payload \in Seq(Byte) /\ w \in [0..n -> Nat] /\ w[0] = 0 /\ w[n] = Len(payload)
    /\ \A k \in 1..n : /\ Writable(r[k].kind, r[k].value)
                       /\ w[k] = w[k - 1] + Len(write_record(r[k].kind, r[k].value))
                       /\ w[k - 1] \in 0..Len(payload) /\ w[k - 1] < Len(payload)
                       /\ At(payload, w[k - 1], write_record(r[k].kind, r[k].value))

\* Where each record was written.
LEMMA RecordsWritten ==
    ASSUME NEW r, NEW n \in Nat, DOMAIN r = 1..n,
           \A k \in 1..n : r[k].kind \in 1..5 /\ Typed(WriteRecord[r[k].kind], r[k].value),
           NEW payload, payload = Concat([k \in DOMAIN r |-> write_record(r[k].kind, r[k].value)]),
           Len(payload) <= Huge
    PROVE  \E w : Written(payload, r, n, w)
  <1> DEFINE parts == [k \in 1..n |-> write_record(r[k].kind, r[k].value)]
  <1>1. \A k \in 1..n : parts[k] = write_record(r[k].kind, r[k].value)
    OBVIOUS
  <1>2. parts = [k \in 1..n |-> parts[k]]
    OBVIOUS
  <1>3. payload = Concat(parts)
    OBVIOUS
  <1> HIDE DEF parts
  <1>4. \A k \in 1..n : /\ Sized(parts[k], 6 + Len(Body(r[k].kind, r[k].value)))
                        /\ Len(Body(r[k].kind, r[k].value)) \in Nat
    BY <1>1, BodyIn
  <1>5. \A k \in 1..n : parts[k] \in Seq(Byte)
    BY <1>4, Zenon DEF Sized
  <1>6. parts \in Seq(Seq(Byte)) /\ Len(parts) = n /\ payload \in Seq(Byte)
    BY <1>2, <1>3, <1>5, PartsBytes
  <1>7. PICK w : Placed(parts, w)
    BY <1>6, ConcatPlaces
  <1>8. PICK l \in Nat : l = Len(payload)
    <2>1. \A s \in Seq(Byte) : Len(s) \in Nat
      OBVIOUS
    <2> QED
      BY <1>6, <2>1, Zenon
  <1>9. w \in [0..n -> Nat] /\ w[0] = 0 /\ w[n] = l
    BY <1>3, <1>6, <1>7, <1>8, Zenon DEF Placed
  <1>10. ASSUME NEW k \in 1..n
         PROVE  /\ Writable(r[k].kind, r[k].value)
                /\ w[k] = w[k - 1] + Len(parts[k])
                /\ w[k - 1] \in 0..Len(payload) /\ w[k - 1] < Len(payload)
                /\ At(payload, w[k - 1], parts[k])
    <2>1. PICK m \in Nat : m = Len(Body(r[k].kind, r[k].value))
      BY <1>4
    <2>2. Len(parts[k]) = 6 + m
      BY <1>4, <2>1 DEF Sized
    <2>3. /\ w[k] = w[k - 1] + Len(parts[k]) /\ w[k] <= l
          /\ \A j \in 1..Len(parts[k]) : payload[w[k - 1] + j] = parts[k][j]
      BY <1>3, <1>6, <1>7, <1>8, Zenon DEF Placed
    <2>4. k - 1 \in 0..n
      OBVIOUS
    <2>5. w[k - 1] \in Nat
      BY <1>9, <2>4
    <2>6. w[k - 1] + (6 + m) <= l
      BY <2>2, <2>3
    <2>7. w[k - 1] \in 0..l /\ w[k - 1] < l /\ m <= l
      BY <2>5, <2>6
    <2>8. m <= Huge
      BY <1>8, <2>7, HugeNat
    <2>9. Writable(r[k].kind, r[k].value)
      BY <2>1, <2>8, Zenon DEF Writable
    <2>10. At(payload, w[k - 1], parts[k])
      <3>1. w[k - 1] + Len(parts[k]) <= Len(payload)
        BY <1>8, <2>2, <2>6
      <3> QED
        BY <2>3, <3>1, Zenon DEF At
    <2> QED
      BY <1>8, <2>3, <2>7, <2>9, <2>10
  <1>11. Written(payload, r, n, w)
    BY <1>1, <1>6, <1>8, <1>9, <1>10, Zenon DEF Written
  <1> QED
    BY <1>11

-----------------------------------------------------------------------------
\* What reading a payload in order rests on: where the n records r of the state c are in it.
Saved(c, r, n, a, b, d, e, payload, w) ==
    /\ FourLists(c) /\ Counted(c, a, b, d, e) /\ Spots(c, r, a, b, d, e)
    /\ n = (((1 + a) + b) + d) + e /\ Written(payload, r, n, w)
    /\ n <= limits.max_persistence_records

\* The meta record comes first and only there.
LEMMA OnlyOneMeta ==
    ASSUME NEW c, NEW r, NEW n, NEW a, NEW b, NEW d, NEW e, NEW payload, NEW w,
           Saved(c, r, n, a, b, d, e, payload, w), NEW k \in 1..n, r[k].kind = 1
    PROVE  k = 1
  <1>1. a \in Nat /\ b \in Nat /\ d \in Nat /\ e \in Nat /\ n = (((1 + a) + b) + d) + e
    BY Zenon DEF Saved, Counted
  <1>2. Spots(c, r, a, b, d, e)
    BY Zenon DEF Saved
  <1>3. /\ \A i \in 1..a : r[1 + i].kind = 2
        /\ \A i \in 1..b : r[(1 + a) + i].kind = 3
        /\ \A i \in 1..d : r[((1 + a) + b) + i].kind = 4
        /\ \A i \in 1..e : r[(((1 + a) + b) + d) + i].kind = 5
    BY <1>2, SpotFields
  <1>4. k \in 1..((((1 + a) + b) + d) + e)
    BY <1>1, Zenon
  <1>5. \/ k = 1
        \/ \E i \in 1..a : k = 1 + i
        \/ \E i \in 1..b : k = (1 + a) + i
        \/ \E i \in 1..d : k = ((1 + a) + b) + i
        \/ \E i \in 1..e : k = (((1 + a) + b) + d) + i
    BY <1>1, <1>4, Where
  <1>6. ASSUME \E i \in 1..a : k = 1 + i PROVE FALSE
    <2>1. r[k].kind = 2
      BY <1>3, <1>6, Zenon
    <2> QED
      BY <2>1
  <1>7. ASSUME \E i \in 1..b : k = (1 + a) + i PROVE FALSE
    <2>1. r[k].kind = 3
      BY <1>3, <1>7, Zenon
    <2> QED
      BY <2>1
  <1>8. ASSUME \E i \in 1..d : k = ((1 + a) + b) + i PROVE FALSE
    <2>1. r[k].kind = 4
      BY <1>3, <1>8, Zenon
    <2> QED
      BY <2>1
  <1>9. ASSUME \E i \in 1..e : k = (((1 + a) + b) + d) + i PROVE FALSE
    <2>1. r[k].kind = 5
      BY <1>3, <1>9, Zenon
    <2> QED
      BY <2>1
  <1> QED
    BY <1>5, <1>6, <1>7, <1>8, <1>9, Zenon

\* Nothing has been read of it before.
LEMMA PartialMeta == \A c, a, b, d : Partial(c, 0, a, b, d).meta = <<>>
  BY DEF Partial, StateIs

\* The numbers of a written payload.
LEMMA SavedNumbers ==
    ASSUME NEW c, NEW r, NEW n, NEW a, NEW b, NEW d, NEW e, NEW payload, NEW w,
           Saved(c, r, n, a, b, d, e, payload, w)
    PROVE  /\ n \in Nat /\ n >= 1 /\ n <= limits.max_persistence_records
           /\ payload \in Seq(Byte) /\ w[0] = 0 /\ w[n] = Len(payload)
  <1>1. a \in Nat /\ b \in Nat /\ d \in Nat /\ e \in Nat /\ n = (((1 + a) + b) + d) + e
    BY Zenon DEF Saved, Counted
  <1>2. n \in Nat /\ n >= 1
    BY <1>1
  <1> QED
    BY <1>2, Zenon DEF Saved, Written

\* The limit of records is a number.
LEMMA LimitNat == limits.max_persistence_records \in Nat
  <1>1. "max_persistence_records" \in LimitNames
    BY DEF LimitNames
  <1>2. \A x \in 0..(Huge - 1) : x \in Nat
    BY HugeNat
  <1> QED
    BY <1>1, <1>2, LimitsAssumption

\* Inside the payload a turn reads a record.
LEMMA TurnIs ==
    \A payload, off, seen, state :
        off < Len(payload) /\ off \in Nat /\ Len(payload) \in Nat =>
        Turn(payload, Acc(off, seen, state)) = read_record(payload, Acc(off, seen, state), limits)
  <1> SUFFICES ASSUME NEW payload, NEW off \in Nat, NEW seen, NEW state, Len(payload) \in Nat,
                      off < Len(payload)
               PROVE  Turn(payload, Acc(off, seen, state))
                        = read_record(payload, Acc(off, seen, state), limits)
    OBVIOUS
  <1>1. ~(off >= Len(payload))
    OBVIOUS
  <1>2. PICK acc : acc = Acc(off, seen, state)
    OBVIOUS
  <1>3. acc.ok /\ acc.off = off
    BY <1>2, AccFields, Zenon
  <1> QED
    BY <1>1, <1>2, <1>3, Zenon DEF Turn

\* One record of the payload.
LEMMA TurnTaken ==
    ASSUME NEW c, NEW r, NEW n, NEW a, NEW b, NEW d, NEW e, NEW payload, NEW w,
           Saved(c, r, n, a, b, d, e, payload, w), NEW k \in 1..n
    PROVE  Turn(payload, Acc(w[k - 1], k - 1, Partial(c, k - 1, a, b, d)))
             = IF RecordAllowed(r[k].kind, r[k].value)
               THEN Acc(w[k], k, Partial(c, k, a, b, d)) ELSE Rejected
  <1> DEFINE kind == r[k].kind
             v == r[k].value
             o == w[k - 1]
             s == Partial(c, k - 1, a, b, d)
  <1>1. n \in Nat /\ n <= limits.max_persistence_records /\ payload \in Seq(Byte)
    BY SavedNumbers, Zenon
  <1>2. /\ Writable(kind, v) /\ w[k] = o + Len(write_record(kind, v))
        /\ o \in 0..Len(payload) /\ o < Len(payload) /\ At(payload, o, write_record(kind, v))
    BY Zenon DEF Saved, Written
  <1>3. Len(payload) \in Nat /\ o \in Nat
    <2>1. \A x \in Seq(Byte) : Len(x) \in Nat
      OBVIOUS
    <2>2. Len(payload) \in Nat
      BY <1>1, <2>1, Zenon
    <2> QED
      BY <1>2, <2>2
  <1>4. k - 1 \in Nat /\ (k - 1) + 1 = k
    BY <1>1
  <1>5. (k - 1) + 1 <= limits.max_persistence_records
    BY <1>1, <1>4, LimitNat
  <1>6. kind = 1 => s.meta = <<>>
    <2>1. ASSUME kind = 1 PROVE s.meta = <<>>
      <3>1. k = 1
        BY <2>1, OnlyOneMeta, Zenon
      <3>2. k - 1 = 0
        BY <3>1
      <3> QED
        BY <3>2, PartialMeta, Zenon
    <2> QED
      BY <2>1
  <1>7. Partial(c, k, a, b, d) = Add(s, kind, v)
    <2>1. FourLists(c) /\ Counted(c, a, b, d, e) /\ Spots(c, r, a, b, d, e)
          /\ k \in 1..((((1 + a) + b) + d) + e)
      BY Zenon DEF Saved
    <2> QED
      BY <2>1, PartialNext
  <1> HIDE DEF kind, v, o, s
  <1>8. read_record(payload, Acc(o, k - 1, s), limits)
          = IF RecordAllowed(kind, v)
            THEN Acc(o + Len(write_record(kind, v)), (k - 1) + 1, Add(s, kind, v)) ELSE Rejected
    BY <1>1, <1>2, <1>4, <1>5, <1>6, RecordTaken, Zenon
  <1>9. Turn(payload, Acc(o, k - 1, s)) = read_record(payload, Acc(o, k - 1, s), limits)
    BY <1>2, <1>3, TurnIs, Zenon
  <1>10. Turn(payload, Acc(o, k - 1, s))
          = IF RecordAllowed(kind, v) THEN Acc(w[k], k, Partial(c, k, a, b, d)) ELSE Rejected
    BY <1>2, <1>4, <1>7, <1>8, <1>9, Zenon
  <1> QED
    BY <1>10, Zenon DEF kind, v, o, s

\* As long as every record is allowed, each turn takes one.
LEMMA TurnsTaken ==
    ASSUME NEW c, NEW r, NEW n, NEW a, NEW b, NEW d, NEW e, NEW payload, NEW w,
           Saved(c, r, n, a, b, d, e, payload, w), NEW m \in Nat, NEW u, Turns(payload, m, u),
           n <= m, NEW j \in 0..n, \A i \in 1..j : RecordAllowed(r[i].kind, r[i].value)
    PROVE  u[j] = Acc(w[j], j, Partial(c, j, a, b, d))
  <1> DEFINE S == {k \in 0..j : u[k] = Acc(w[k], k, Partial(c, k, a, b, d))}
  <1>1. n \in Nat /\ j \in Nat
    BY SavedNumbers
  <1>2. 0 \in S
    <2>1. Counted(c, a, b, d, e) /\ w[0] = 0
      BY SavedNumbers DEF Saved
    <2>2. Partial(c, 0, a, b, d) = Nothing
      BY <2>1, PartialStart, ZenonT(60) DEF Counted
    <2>3. u[0] = Acc(w[0], 0, Partial(c, 0, a, b, d))
      BY <2>1, <2>2, Zenon DEF Turns, Start, Acc
    <2>4. 0 \in 0..j
      BY <1>1
    <2> QED
      BY <2>3, <2>4
  <1>3. ASSUME NEW k \in 0..(j - 1), k \in S PROVE k + 1 \in S
    <2>1. k + 1 \in 1..n /\ (k + 1) - 1 = k /\ k + 1 \in 1..j /\ k + 1 \in 0..j /\ k + 1 \in 1..m
      BY <1>1
    <2>2. u[k] = Acc(w[k], k, Partial(c, k, a, b, d))
      BY <1>3
    <2>3. RecordAllowed(r[k + 1].kind, r[k + 1].value)
      BY <2>1, Zenon
    <2>4. u[k + 1] = Turn(payload, u[k])
      BY <2>1, Zenon DEF Turns
    <2>5. PICK h : h = k + 1
      OBVIOUS
    <2>6. h \in 1..n /\ h - 1 = k /\ RecordAllowed(r[h].kind, r[h].value)
      BY <2>1, <2>3, <2>5, Zenon
    <2>7. Turn(payload, Acc(w[h - 1], h - 1, Partial(c, h - 1, a, b, d)))
            = IF RecordAllowed(r[h].kind, r[h].value)
              THEN Acc(w[h], h, Partial(c, h, a, b, d)) ELSE Rejected
      BY <2>6, TurnTaken
    <2>8. u[k + 1] = Acc(w[k + 1], k + 1, Partial(c, k + 1, a, b, d))
      BY <2>2, <2>4, <2>5, <2>6, <2>7, Zenon
    <2> QED
      BY <2>1, <2>8
  <1> HIDE DEF S
  <1>4. \A k \in 0..j : k \in S
    BY <1>1, <1>2, <1>3, SetInduction
  <1>5. j \in S
    BY <1>1, <1>4
  <1> QED
    BY <1>5, Zenon DEF S

\* What the loop makes of the payload.
LEMMA RecordsTaken ==
    ASSUME NEW c, NEW r, NEW n, NEW a, NEW b, NEW d, NEW e, NEW payload, NEW w,
           Saved(c, r, n, a, b, d, e, payload, w)
    PROVE  read_records(payload, limits)
             = IF AllRecordsAllowed(r, n) THEN Acc(Len(payload), n, Partial(c, n, a, b, d))
               ELSE Rejected
  <1>1. /\ n \in Nat /\ n >= 1 /\ n <= limits.max_persistence_records
        /\ payload \in Seq(Byte) /\ w[n] = Len(payload)
    BY SavedNumbers
  <1>2. PICK m \in Nat : m = limits.max_persistence_records + 1
    BY LimitNat
  <1>3. n <= m
    BY <1>1, <1>2, LimitNat
  <1>4. PICK u : Turns(payload, m, u)
    BY <1>2, RecordsSteps
  <1>5. CASE AllRecordsAllowed(r, n)
    <2>1. n \in 0..n /\ \A i \in 1..n : RecordAllowed(r[i].kind, r[i].value)
      BY <1>1, <1>5 DEF AllRecordsAllowed
    <2>2. u[n] = Acc(w[n], n, Partial(c, n, a, b, d))
      BY <1>3, <1>4, <2>1, TurnsTaken
    <2>3. Turn(payload, u[n]) = u[n]
      <3>1. u[n].off = Len(payload)
        BY <1>1, <2>2, AccFields
      <3>2. Len(payload) >= Len(payload)
        <4>1. \A x \in Seq(Byte) : Len(x) \in Nat
          OBVIOUS
        <4>2. \A x \in Nat : x >= x
          OBVIOUS
        <4> QED
          BY <1>1, <4>1, <4>2, Zenon
      <3> QED
        BY <3>1, <3>2, Zenon DEF Turn
    <2>4. n \in 0..m
      BY <1>1, <1>3
    <2>5. read_records(payload, limits) = u[n]
      BY <1>4, <2>3, <2>4, TurnsStay, Zenon
    <2> QED
      BY <1>1, <1>5, <2>2, <2>5, Zenon
  <1>6. CASE ~AllRecordsAllowed(r, n)
    <2> DEFINE T == {k \in 1..n : ~RecordAllowed(r[k].kind, r[k].value)}
    <2>1. T \subseteq Nat /\ T # {}
      BY <1>1, <1>6 DEF AllRecordsAllowed
    <2>2. PICK k \in T : \A i \in T : k <= i
      <3> HIDE DEF T
      <3> QED
        BY <2>1, LeastElement
    <2>3. k \in 1..n /\ ~RecordAllowed(r[k].kind, r[k].value)
      OBVIOUS
    <2>4. \A i \in 1..(k - 1) : i \in 1..n /\ ~(k <= i)
      BY <1>1, <2>3
    <2>5. \A i \in 1..(k - 1) : RecordAllowed(r[i].kind, r[i].value)
      BY <2>2, <2>4
    <2> HIDE DEF T
    <2>6. PICK j : j = k - 1
      OBVIOUS
    <2>7. j \in 0..n /\ k \in 1..m /\ k \in 0..m
      BY <1>1, <1>3, <2>3, <2>6
    <2>8. u[j] = Acc(w[j], j, Partial(c, j, a, b, d))
      BY <1>3, <1>4, <2>5, <2>6, <2>7, TurnsTaken
    <2>9. Turn(payload, Acc(w[k - 1], k - 1, Partial(c, k - 1, a, b, d)))
            = IF RecordAllowed(r[k].kind, r[k].value)
              THEN Acc(w[k], k, Partial(c, k, a, b, d)) ELSE Rejected
      BY <2>3, TurnTaken, Zenon
    <2>10. u[k] = Rejected
      <3>1. u[k] = Turn(payload, u[k - 1])
        BY <1>4, <2>7, Zenon DEF Turns
      <3> QED
        BY <2>3, <2>6, <2>8, <2>9, <3>1, Zenon
    <2>11. Turn(payload, u[k]) = u[k]
      <3>1. ~Rejected.ok
        BY DEF Rejected
      <3> QED
        BY <2>10, <3>1, Zenon DEF Turn
    <2>12. read_records(payload, limits) = u[k]
      BY <1>4, <2>7, <2>11, TurnsStay, Zenon
    <2> QED
      BY <1>6, <2>10, <2>12, Zenon
  <1> QED
    BY <1>5, <1>6

-----------------------------------------------------------------------------
(***************************************************************************)
(* The state file as a whole.                                              *)
(***************************************************************************)
LEMMA MetaHas == Has(write_meta, "saved_at")
  <1>1. PICK a : a = <<"router_id", "router_generation", "last_router_epoch", "last_coordinator_epoch",
          "last_boot", "last_policy_generation", "last_price_generation",
          "last_budget_generation", "last_slo_generation", "last_capability_generation",
          "last_model_generation", "last_backend_generation">>
    OBVIOUS
  <1>2. PICK b : b = <<"saved_at", "last_started_at">>
    OBVIOUS
  <1>3. PICK c : c = <<"highest_identity_issued", "route_requests", "route_decisions", "dispatches",
             "route_rejections", "reroutes", "fallbacks_taken">>
    OBVIOUS
  <1>4. PICK d : d = <<"max_models", "max_backends", "max_route_history", "max_fallback_candidates",
             "max_explanation_factors", "max_string_bytes",
             "max_capability_entries_per_backend", "max_model_bindings_per_backend">>
    OBVIOUS
  <1>5. IsTuple(a) /\ IsTuple(b) /\ IsTuple(c) /\ IsTuple(d)
    BY <1>1, <1>2, <1>3, <1>4, Tuple2, Tuple7, Tuple8, Tuple12, Zenon
  <1>6. write_meta = U64(a) \o I64(b) \o U64(c) \o U32(d)
    BY <1>1, <1>2, <1>3, <1>4, Zenon DEF write_meta
  <1>7. Shaped(U64(a)) /\ Shaped(U64(c)) /\ Shaped(U32(d))
    BY <1>5, PlainCalls DEF Plain
  <1>8. Has(I64(b), "saved_at")
    <2>1. 1 \in 1..Len(b) /\ b[1] = "saved_at"
      BY <1>2
    <2>2. "i64" \in NumberKinds \cup {"string"}
      BY DEF NumberKinds
    <2>3. Has(Calls("i64", b), b[1])
      BY <1>5, <2>1, <2>2, CallsHave
    <2> QED
      BY <2>1, <2>3 DEF I64
  <1> QED
    BY <1>6, <1>7, <1>8, HasBefore, HasAfter, Zenon

\* so that decode sees that it was there.
LEMMA MetaWritten ==
    ASSUME NEW c, TypedRecords(c)
    PROVE  c.meta # <<>>
  <1>1. Typed(write_meta, c.meta)
    BY TypedLists
  <1>2. "saved_at" \in DOMAIN c.meta
    BY <1>1, MetaHas, HasField
  <1>3. DOMAIN <<>> = {}
    OBVIOUS
  <1> QED
    BY <1>2, <1>3

\* What decode returns for a state that can be: canonical, with the defaults.
DurableState(c) == IsState(c) /\ CanonicalState(c)

\* The parts of a canonical state.
LEMMA CanonicalLists ==
    ASSUME NEW c, DurableState(c)
    PROVE  /\ IsState(c) /\ TypedRecords(c) /\ FourLists(c) /\ canonicalize(c) = c
           /\ canonical_text(c) \in Seq(Int)
           /\ \E a, b, d, e : Counted(c, a, b, d, e)
  <1>1. IsState(c) /\ TypedRecords(c) /\ canonicalize(c) = c /\ canonical_text(c) \in Seq(Int)
    BY Zenon DEF DurableState, CanonicalState
  <1>2. /\ TypedAll(c.models, write_model) /\ TypedAll(c.backends, write_backend)
        /\ TypedAll(c.fenced_boots, write_fenced) /\ TypedAll(c.routes, write_route)
    BY <1>1, TypedLists
  <1>3. FourLists(c)
    BY <1>2, Zenon DEF TypedAll, FourLists
  <1>4. \A s : IsList(s) => Len(s) \in Nat
    BY DEF IsList
  <1>5. /\ Len(c.models) \in Nat /\ Len(c.backends) \in Nat /\ Len(c.fenced_boots) \in Nat
        /\ Len(c.routes) \in Nat
    BY <1>3, <1>4, Zenon DEF FourLists
  <1>6. Counted(c, Len(c.models), Len(c.backends), Len(c.fenced_boots), Len(c.routes))
    BY <1>5, Zenon DEF Counted
  <1> QED
    BY <1>1, <1>3, <1>6, Zenon

\* The count in the header is that of the records.
LEMMA RecordCount ==
    ASSUME NEW c, NEW a, NEW b, NEW d, NEW e, Counted(c, a, b, d, e)
    PROVE  Records(c) + 1 = (((1 + a) + b) + d) + e /\ (((1 + a) + b) + d) + e \in Nat
  <1>1. /\ a \in Nat /\ b \in Nat /\ d \in Nat /\ e \in Nat
        /\ Records(c) = a + b + d + e
    BY Zenon DEF Counted, Records
  <1> QED
    BY <1>1

\* What encode accepted: the bytes, and what the loop of decode makes of their payload.
Stored(c, bs, n, payload) ==
    /\ DurableState(c) /\ validate(c, limits)
    /\ IsImage(bs, n, payload, sha256(canonical_text(c)))
    /\ Len(bs) <= limits.max_persistence_bytes
    /\ read_records(payload, limits)
         = IF AllowedRecords(c) THEN Acc(Len(payload), n, c) ELSE Rejected

\* The payload of encode.
LEMMA PayloadIs ==
    \A c : Payload(c) = Concat([k \in DOMAIN AllRecords(c) |->
                                  write_record(AllRecords(c)[k].kind, AllRecords(c)[k].value)])
  BY Zenon DEF Payload

\* An image that keeps the limit fits the numbers of its header,
LEMMA PersistenceLimit ==
    ASSUME NEW x \in Nat, x <= limits.max_persistence_bytes
    PROVE  x <= Huge
  <1>1. "max_persistence_bytes" \in LimitNames
    BY DEF LimitNames
  <1>2. \A y \in 0..(Huge - 1) : y \in Nat /\ y <= Huge
    BY HugeNat
  <1>3. limits.max_persistence_bytes \in Nat /\ limits.max_persistence_bytes <= Huge
    BY <1>1, <1>2, LimitsAssumption
  <1> QED
    BY <1>3, HugeNat

\* and so does its count.
LEMMA RecordLimit ==
    ASSUME NEW x \in Nat, x <= limits.max_persistence_records
    PROVE  x \in 0..Huge
  <1>1. "max_persistence_records" \in LimitNames
    BY DEF LimitNames
  <1>2. \A y \in 0..(Huge - 1) : y \in Nat /\ y <= Huge
    BY HugeNat
  <1>3. limits.max_persistence_records \in Nat /\ limits.max_persistence_records <= Huge
    BY <1>1, <1>2, LimitsAssumption
  <1> QED
    BY <1>3, HugeNat

\* Records are written in bytes.
LEMMA PayloadBytes ==
    ASSUME NEW r, NEW n \in Nat, DOMAIN r = 1..n,
           \A k \in 1..n : r[k].kind \in 1..5 /\ Typed(WriteRecord[r[k].kind], r[k].value)
    PROVE  Concat([k \in DOMAIN r |-> write_record(r[k].kind, r[k].value)]) \in Seq(Byte)
  <1> DEFINE parts == [k \in 1..n |-> write_record(r[k].kind, r[k].value)]
  <1>1. \A k \in 1..n : parts[k] = write_record(r[k].kind, r[k].value)
    OBVIOUS
  <1>2. parts = [k \in 1..n |-> parts[k]]
    OBVIOUS
  <1>3. [k \in DOMAIN r |-> write_record(r[k].kind, r[k].value)] = parts
    OBVIOUS
  <1> HIDE DEF parts
  <1>4. \A k \in 1..n : Sized(parts[k], 6 + Len(Body(r[k].kind, r[k].value)))
    BY <1>1, BodyIn
  <1>5. \A k \in 1..n : parts[k] \in Seq(Byte)
    BY <1>4, Zenon DEF Sized
  <1>6. Concat(parts) \in Seq(Byte)
    BY <1>2, <1>5, PartsBytes
  <1> QED
    BY <1>3, <1>6, Zenon

\* All that encode promises of the bytes it returns.
LEMMA ImageStored ==
    ASSUME NEW c, DurableState(c), Image(c).ok
    PROVE  \E n, payload : Stored(c, Image(c).bytes, n, payload)
  <1>1. ~Rejected.ok
    BY DEF Rejected
  <1>2. /\ validate(c, limits) /\ Records(c) + 1 <= limits.max_persistence_records
        /\ persistence_header_bytes + Len(Payload(c)) <= limits.max_persistence_bytes
        /\ Image(c) = [ok |-> TRUE, bytes |-> Cat(write_header(c, Payload(c)), Payload(c))]
    BY <1>1, Zenon DEF Image
  <1>3. /\ IsState(c) /\ TypedRecords(c) /\ FourLists(c) /\ canonicalize(c) = c
        /\ canonical_text(c) \in Seq(Int)
    BY CanonicalLists
  <1>4. PICK a, b, d, e : Counted(c, a, b, d, e)
    BY CanonicalLists
  <1>5. PICK r : r = AllRecords(c)
    OBVIOUS
  <1>6. PICK n : n = (((1 + a) + b) + d) + e
    OBVIOUS
  <1>7. n \in Nat /\ Records(c) + 1 = n /\ n <= limits.max_persistence_records
    BY <1>2, <1>4, <1>6, RecordCount
  <1>8. DOMAIN r = 1..n /\ Spots(c, r, a, b, d, e)
    BY <1>3, <1>4, <1>5, <1>6, RecordsAre
  <1>9. \A k \in 1..n : r[k].kind \in 1..5 /\ Typed(WriteRecord[r[k].kind], r[k].value)
    BY <1>3, <1>4, <1>6, <1>8, ListsTyped
  <1>10. PICK payload : payload = Concat([k \in DOMAIN r |-> write_record(r[k].kind, r[k].value)])
    OBVIOUS
  <1>11. payload \in Seq(Byte)
    BY <1>7, <1>8, <1>9, <1>10, PayloadBytes
  <1>12. Payload(c) = payload
    BY <1>5, <1>10, PayloadIs, Zenon
  <1>13. PICK l \in Nat : l = Len(payload)
    <2>1. \A s \in Seq(Byte) : Len(s) \in Nat
      OBVIOUS
    <2> QED
      BY <1>11, <2>1, Zenon
  <1>14. 72 + l \in Nat /\ 72 + l <= limits.max_persistence_bytes
    BY <1>2, <1>12, <1>13 DEF persistence_header_bytes
  <1>15. 72 + l <= Huge
    BY <1>14, PersistenceLimit
  <1>16. Len(payload) <= Huge
    BY <1>13, <1>15, HugeNat
  <1>17. PICK w : Written(payload, r, n, w)
    BY <1>7, <1>8, <1>9, <1>10, <1>16, RecordsWritten
  <1>18. Saved(c, r, n, a, b, d, e, payload, w)
    BY <1>3, <1>4, <1>6, <1>7, <1>8, <1>17, Zenon DEF Saved
  <1>19. read_records(payload, limits)
           = IF AllRecordsAllowed(r, n) THEN Acc(Len(payload), n, Partial(c, n, a, b, d))
             ELSE Rejected
    BY <1>18, RecordsTaken
  <1>20. AllowedRecords(c) <=> AllRecordsAllowed(r, n)
    BY <1>3, <1>4, <1>6, <1>8, ListsAllowed
  <1>21. Partial(c, n, a, b, d) = c
    BY <1>3, <1>4, <1>6, PartialEnd
  <1>22. read_records(payload, limits)
           = IF AllowedRecords(c) THEN Acc(Len(payload), n, c) ELSE Rejected
    BY <1>19, <1>20, <1>21, Zenon
  <1>23. PICK digest : digest = sha256(canonical_text(c))
    OBVIOUS
  <1>24. Sized(digest, 32)
    BY <1>3, <1>23, ShaSize
  <1>25. n \in 0..Huge
    BY <1>7, RecordLimit
  <1>26. IsImage(Header4(Front(n, Len(payload), crc32c(payload)), digest, payload),
                 n, payload, digest)
    BY <1>11, <1>16, <1>24, <1>25, ImageIs
  <1>27. Image(c).bytes = Cat(write_header(c, payload), payload)
    BY <1>2, <1>12
  <1>28. Image(c).bytes = Header4(Front(n, Len(payload), crc32c(payload)), digest, payload)
    BY <1>7, <1>23, <1>27, HeaderBytes, Zenon
  <1>29. IsImage(Image(c).bytes, n, payload, sha256(canonical_text(c)))
    BY <1>23, <1>26, <1>28, Zenon
  <1>30. Len(Image(c).bytes) = 72 + Len(payload)
    BY <1>29, Zenon DEF IsImage
  <1>31. Len(Image(c).bytes) <= limits.max_persistence_bytes
    BY <1>13, <1>14, <1>30, Zenon
  <1>32. Stored(c, Image(c).bytes, n, payload)
    BY <1>2, <1>22, <1>29, <1>31, Zenon DEF Stored
  <1> QED
    BY <1>32, Zenon

\* A rejection is one.
LEMMA RejectedNot == ~Rejected.ok
  BY DEF Rejected

\* An image that arrived as it was written.
LEMMA ImageDecodes ==
    ASSUME NEW c, NEW bs, NEW n, NEW payload, Stored(c, bs, n, payload),
           Len(payload) <= limits.max_payload_bytes
    PROVE  decode(bs, limits)
             = IF AllowedRecords(c) THEN [ok |-> TRUE, state |-> c] ELSE Rejected
  <1>1. /\ DurableState(c) /\ validate(c, limits)
        /\ IsImage(bs, n, payload, sha256(canonical_text(c)))
        /\ Len(bs) <= limits.max_persistence_bytes
        /\ read_records(payload, limits)
             = IF AllowedRecords(c) THEN Acc(Len(payload), n, c) ELSE Rejected
    BY Zenon DEF Stored
  <1>2. /\ Content(bs) = payload /\ header_accepted(bs, payload, limits)
        /\ number(bs, 20, 4) = n /\ field(bs, 40, 32) = sha256(canonical_text(c))
    BY <1>1, HeaderAccepted
  <1>3. c.meta # <<>> /\ canonicalize(c) = c
    BY <1>1, CanonicalLists, MetaWritten
  <1>4. CASE AllowedRecords(c)
    <2>1. PICK p : p = read_records(payload, limits)
      OBVIOUS
    <2>2. p = Acc(Len(payload), n, c)
      BY <1>1, <1>4, <2>1, Zenon
    <2>3. p.ok /\ p.seen = n /\ p.state = c
      <3>1. LET q == Acc(Len(payload), n, c) IN q.ok /\ q.seen = n /\ q.state = c
        BY DEF Acc
      <3> QED
        BY <2>2, <3>1, Zenon
    <2>4. Accepted(bs)
      BY <1>1, <1>2, <1>3, <2>1, <2>3, Zenon DEF Accepted
    <2> QED
      BY <1>2, <1>3, <1>4, <2>1, <2>3, <2>4, DecodeIs, Zenon
  <1>5. CASE ~AllowedRecords(c)
    <2>1. ~read_records(payload, limits).ok
      BY <1>1, <1>5, RejectedNot, Zenon
    <2>2. ~Accepted(bs)
      BY <1>2, <2>1, Zenon DEF Accepted
    <2> QED
      BY <1>5, <2>2, DecodeIs, Zenon
  <1> QED
    BY <1>4, <1>5

\* An image one byte of which changed: the digest is computed from what was read.
LEMMA StateChanged ==
    ASSUME NEW c, NEW a, NEW n, NEW payload, Stored(c, a, n, payload), NEW b, NEW p,
           Changed(a, b, p)
    PROVE  ~decode(b, limits).ok
  <1>1. /\ DurableState(c) /\ IsImage(a, n, payload, sha256(canonical_text(c)))
        /\ read_records(payload, limits)
             = IF AllowedRecords(c) THEN Acc(Len(payload), n, c) ELSE Rejected
    BY Zenon DEF Stored
  <1>2. CASE p \notin 41..72
    BY <1>1, <1>2, ImageChanged, DecodeAccepts
  <1>3. CASE p \in 41..72
    <2>1. Content(b) = payload /\ field(b, 40, 32) # sha256(canonical_text(c))
      BY <1>1, <1>3, DigestChanged
    <2>2. canonicalize(c) = c
      BY <1>1, CanonicalLists
    <2>3. CASE AllowedRecords(c)
      <3>1. PICK q : q = read_records(payload, limits)
        OBVIOUS
      <3>2. q = Acc(Len(payload), n, c)
        BY <1>1, <2>3, <3>1, Zenon
      <3>3. q.state = c
        <4>1. Acc(Len(payload), n, c).state = c
          BY DEF Acc
        <4> QED
          BY <3>2, <4>1, Zenon
      <3>4. ~Accepted(b)
        BY <2>1, <2>2, <3>1, <3>3, Zenon DEF Accepted
      <3> QED
        BY <3>4, DecodeAccepts
    <2>4. CASE ~AllowedRecords(c)
      <3>1. ~read_records(payload, limits).ok
        BY <1>1, <2>4, RejectedNot, Zenon
      <3>2. ~Accepted(b)
        BY <2>1, <3>1, Zenon DEF Accepted
      <3> QED
        BY <3>2, DecodeAccepts
    <2> QED
      BY <2>3, <2>4
  <1> QED
    BY <1>2, <1>3

-----------------------------------------------------------------------------
(***************************************************************************)
(* The specification.  What encoding and decoding give, as functions of    *)
(* what is encoded and of the bytes.                                       *)
(***************************************************************************)
Encoding(x) ==
    IF x.kind = "message"
    THEN IF writer_ok(x.message.put, x.value, limits)
         THEN encode_frame(x.message.type, writer_bytes(x.message.put, x.value), limits)
         ELSE Refused
    ELSE encode(x.value, limits)

Reading(x, payload) ==
    IF decode_message(x.message.get, payload, limits).ok
    THEN [ok |-> TRUE, value |-> decode_message(x.message.get, payload, limits).val] ELSE Refused
Decoding(x, bs) ==
    IF x.kind = "message"
    THEN IF ~decode_frame(bs, limits).ok \/ decode_frame(bs, limits).type # x.message.type
         THEN Refused ELSE Reading(x, decode_frame(bs, limits).payload)
    ELSE IF decode(bs, limits).ok THEN [ok |-> TRUE, value |-> decode(bs, limits).state]
         ELSE Rejected

\* What Encode writes.
LEMMA EncodedIs == Encoded = Encoding(source)
  BY Zenon DEF Encoded, Encoding, EncodeMessage

\* What Decode gives.
LEMMA DecodedIs ==
    (IF source.kind = "message" THEN DecodeMessage ELSE DecodeState) = Decoding(source, bytes)
  <1>1. DecodeMessage = IF ~decode_frame(bytes, limits).ok
                           \/ decode_frame(bytes, limits).type # source.message.type
                        THEN Refused ELSE Reading(source, decode_frame(bytes, limits).payload)
    BY Zenon DEF DecodeMessage, Reading
  <1>2. DecodeState = IF decode(bytes, limits).ok
                      THEN [ok |-> TRUE, value |-> decode(bytes, limits).state] ELSE Rejected
    BY Zenon DEF DecodeState
  <1> QED
    BY <1>1, <1>2, Zenon DEF Decoding

\* A refusal is one.
LEMMA RefusedNot == ~Refused.ok /\ Refused = [ok |-> FALSE] /\ Rejected = [ok |-> FALSE]
  BY DEF Refused, Rejected

\* An outcome says whether there is one.
LEMMA DecodingOk == \A x, bs : Decoding(x, bs).ok \in BOOLEAN
  <1> SUFFICES ASSUME NEW x, NEW bs PROVE Decoding(x, bs).ok \in BOOLEAN
    OBVIOUS
  <1>1. Refused.ok \in BOOLEAN /\ Rejected.ok \in BOOLEAN
    BY DEF Refused, Rejected
  <1>2. \A v : [ok |-> TRUE, value |-> v].ok \in BOOLEAN
    OBVIOUS
  <1>3. \A payload : Reading(x, payload).ok \in BOOLEAN
    BY <1>1, <1>2, Zenon DEF Reading
  <1> QED
    BY <1>1, <1>2, <1>3, Zenon DEF Decoding

IsMessage(x) ==
    x.kind = "message" /\ x.message \in Messages /\ Typed(x.message.put, x.value)
IsDurable(x) == x.kind # "message" /\ x.kind = "state" /\ TypedState(x.value)

\* An input is a message or a state.
LEMMA TwoKinds == \A x \in Inputs : IsMessage(x) \/ IsDurable(x)
  <1>1. "state" # "message"
    OBVIOUS
  <1> QED
    BY <1>1, InputsAssumption, Zenon DEF IsMessage, IsDurable

PayloadOf(x) == writer_bytes(x.message.put, x.value)

\* An encoded message is a frame around its payload.
LEMMA MessageEncoded ==
    ASSUME NEW x, IsMessage(x), Encoding(x).ok
    PROVE  Framed(Encoding(x).bytes, x.message.type, PayloadOf(x))
  <1>1. /\ x.kind = "message" /\ x.message \in Messages /\ Typed(x.message.put, x.value)
    BY Zenon DEF IsMessage
  <1>2. Layout_3(x.message.put)
    BY <1>1, MessageLayout
  <1>3. PayloadOf(x) \in Seq(Byte)
    BY <1>1, <1>2, Bytes_3, Zenon DEF PayloadOf
  <1>4. Encoding(x) = encode_frame(x.message.type, PayloadOf(x), limits)
    BY <1>1, RefusedNot, Zenon DEF Encoding, PayloadOf
  <1>5. encode_frame(x.message.type, PayloadOf(x), limits).ok
    BY <1>4, Zenon
  <1>6. Framed(encode_frame(x.message.type, PayloadOf(x), limits).bytes, x.message.type,
               PayloadOf(x))
    BY <1>3, <1>5, FrameEncoded
  <1> QED
    BY <1>4, <1>6, Zenon

\* Of a correct frame only the payload matters.
LEMMA FramedReads ==
    ASSUME NEW x, IsMessage(x), NEW bs, NEW payload, Framed(bs, x.message.type, payload)
    PROVE  Decoding(x, bs) = Reading(x, payload)
  <1>1. decode_frame(bs, limits) = [ok |-> TRUE, type |-> x.message.type, payload |-> payload]
    BY Zenon DEF Framed
  <1>2. /\ decode_frame(bs, limits).ok /\ decode_frame(bs, limits).type = x.message.type
        /\ decode_frame(bs, limits).payload = payload
    BY <1>1
  <1> QED
    BY <1>2, Zenon DEF Decoding, IsMessage

\* A message that was carried intact.
LEMMA MessageIntact ==
    ASSUME NEW x, IsMessage(x), Encoding(x).ok
    PROVE  Decoding(x, Encoding(x).bytes)
             = IF Allowed(x.message.put, x.value) THEN [ok |-> TRUE, value |-> x.value]
               ELSE [ok |-> FALSE]
  <1>1. Framed(Encoding(x).bytes, x.message.type, PayloadOf(x))
    BY MessageEncoded
  <1>2. Decoding(x, Encoding(x).bytes) = Reading(x, PayloadOf(x))
    BY <1>1, FramedReads
  <1>3. x.message \in Messages /\ Typed(x.message.put, x.value)
    BY Zenon DEF IsMessage
  <1>4. Layout_3(x.message.put) /\ x.message.get = x.message.put
    BY <1>3, MessageLayout
  <1>5. PICK payload : payload = PayloadOf(x)
    OBVIOUS
  <1>6. payload = writer_bytes(x.message.put, x.value) /\ Len(payload) <= limits.max_payload_bytes
    BY <1>1, <1>5, Zenon DEF PayloadOf, Framed
  <1>7. decode_message(x.message.put, payload, limits)
          = IF Allowed(x.message.put, x.value) THEN Read(x.value, Len(payload)) ELSE Failure
    BY <1>3, <1>4, <1>6, MessageDecodes
  <1>8. PICK r : r = decode_message(x.message.put, payload, limits)
    OBVIOUS
  <1>9. Reading(x, payload) = IF r.ok THEN [ok |-> TRUE, value |-> r.val] ELSE Refused
    BY <1>4, <1>8, Zenon DEF Reading
  <1>10. CASE Allowed(x.message.put, x.value)
    <2>1. r = Read(x.value, Len(payload))
      BY <1>7, <1>8, <1>10, Zenon
    <2>2. r.ok /\ r.val = x.value
      BY <2>1 DEF Read
    <2> QED
      BY <1>2, <1>5, <1>9, <1>10, <2>2, Zenon
  <1>11. CASE ~Allowed(x.message.put, x.value)
    <2>1. r = Failure
      BY <1>7, <1>8, <1>11, Zenon
    <2>2. ~r.ok
      BY <2>1 DEF Failure
    <2> QED
      BY <1>2, <1>5, <1>9, <1>11, <2>2, RefusedNot, Zenon
  <1> QED
    BY <1>10, <1>11

\* A damaged frame or image.
LEMMA FrameLost ==
    ASSUME NEW x, IsMessage(x), NEW bs, ~decode_frame(bs, limits).ok
    PROVE  ~Decoding(x, bs).ok
  BY RefusedNot, Zenon DEF Decoding, IsMessage

\* And of an image that decode rejects nothing.
LEMMA ImageLost ==
    ASSUME NEW x, IsDurable(x), NEW bs, ~decode(bs, limits).ok
    PROVE  ~Decoding(x, bs).ok
  BY RejectedNot, Zenon DEF Decoding, IsDurable

\* Two states that differ in nothing the image has a field for.
Alike(s, t) ==
    /\ s.meta = t.meta /\ s.models = t.models /\ s.backends = t.backends
    /\ s.fenced_boots = t.fenced_boots /\ s.routes = t.routes

\* Their lists of records,
LEMMA AlikeLists ==
    ASSUME NEW s, NEW t, Alike(s, t)
    PROVE  \A kind \in 2..5 : s[Lists[kind - 1]] = t[Lists[kind - 1]]
  <1>1. /\ s[Lists[2 - 1]] = t[Lists[2 - 1]] /\ s[Lists[3 - 1]] = t[Lists[3 - 1]]
        /\ s[Lists[4 - 1]] = t[Lists[4 - 1]] /\ s[Lists[5 - 1]] = t[Lists[5 - 1]]
    BY ListNames DEF Alike
  <1>2. \A kind \in 2..5 : kind = 2 \/ kind = 3 \/ kind = 4 \/ kind = 5
    OBVIOUS
  <1> QED
    BY <1>1, <1>2, Zenon

\* the text of their digests, with its parts named,
Text(m, models, backends, fenced_boots, routes) ==
    LET flat(s, part(_)) == Concat([i \in DOMAIN s |-> part(s[i])])
    IN  <<m.router_id, m.router_generation, m.last_router_epoch, m.last_coordinator_epoch,
          m.last_boot, m.saved_at, m.highest_identity_issued, m.route_requests,
          m.route_decisions, m.dispatches, m.route_rejections, m.reroutes, m.fallbacks_taken>>
        \o flat(models, LAMBDA r : <<1, r.model_id, r.model_generation,
                                     r.artifact_generation, r.lifecycle>>)
        \o flat(backends, LAMBDA r : <<2, r.backend_id, r.backend_generation, r.last_boot,
                                       Len(r.model_bindings)>>)
        \o flat(fenced_boots, LAMBDA r : <<3, r.backend_id, r.backend_boot>>)
        \o flat(routes, LAMBDA r : <<4, r.decision_id>> \o r.semantic_digest)

LEMMA TextIs ==
    \A s : canonical_text(s) = Text(s.meta, s.models, s.backends, s.fenced_boots, s.routes)
  BY Zenon DEF canonical_text, Text

LEMMA AlikeText ==
    ASSUME NEW s, NEW t, Alike(s, t)
    PROVE  canonical_text(s) = canonical_text(t)
  BY TextIs, Zenon DEF Alike

\* their payloads
LEMMA AlikePayload ==
    ASSUME NEW s, NEW t, Alike(s, t)
    PROVE  Payload(s) = Payload(t)
  <1>1. AllRecords(s) = AllRecords(t)
    BY AllRecordsIs, Zenon DEF Alike
  <1> QED
    BY <1>1, PayloadIs, Zenon

\* and the limits they keep are the same,
LEMMA AlikeValid ==
    ASSUME NEW s, NEW t, Alike(s, t)
    PROVE  /\ Records(s) = Records(t)
           /\ validate(s, limits) = validate(t, limits)
           /\ WritersOk(s, limits) = WritersOk(t, limits)
           /\ AllowedRecords(s) = AllowedRecords(t)
           /\ TypedRecords(s) = TypedRecords(t)
  <1>1. \A kind \in 2..5 : s[Lists[kind - 1]] = t[Lists[kind - 1]]
    BY AlikeLists
  <1>2. Records(s) = Records(t)
    BY Zenon DEF Alike, Records
  <1>3. validate(s, limits) = validate(t, limits)
    BY <1>2, Zenon DEF Alike, validate
  <1>4. WritersOk(s, limits) = WritersOk(t, limits)
    BY <1>1, Zenon DEF WritersOk
  <1>5. AllowedRecords(s) = AllowedRecords(t)
    BY <1>1, Zenon DEF AllowedRecords
  <1>6. TypedRecords(s) = TypedRecords(t)
    BY <1>1, Zenon DEF TypedRecords, Alike
  <1> QED
    BY <1>2, <1>3, <1>4, <1>5, <1>6

\* so that encode writes the same image of both.
LEMMA AlikeImage ==
    ASSUME NEW s, NEW t, Alike(s, t)
    PROVE  Image(s) = Image(t)
  <1>1. /\ Payload(s) = Payload(t) /\ canonical_text(s) = canonical_text(t)
        /\ Records(s) = Records(t) /\ validate(s, limits) = validate(t, limits)
        /\ WritersOk(s, limits) = WritersOk(t, limits)
    BY AlikePayload, AlikeText, AlikeValid
  <1>2. write_header(s, Payload(s)) = write_header(t, Payload(t))
    BY <1>1, Zenon DEF write_header
  <1> QED
    BY <1>1, <1>2, Zenon DEF Image

\* Weights and other limits are all that Durable changes,
LEMMA DurableAlike ==
    ASSUME NEW c, AnyState(c)
    PROVE  Alike(Durable(c), c) /\ IsState(Durable(c))
  <1>1. PICK m, x2, x3, x4, x5, w, o :
             c = [meta |-> m, models |-> x2, backends |-> x3, fenced_boots |-> x4,
                  routes |-> x5, weights |-> w, other_limits |-> o]
    BY Zenon DEF AnyState
  <1>2. /\ c.meta = m /\ c.models = x2 /\ c.backends = x3 /\ c.fenced_boots = x4
        /\ c.routes = x5
    BY <1>1
  <1>3. \A n : [c EXCEPT !.weights = n]
                 = [meta |-> m, models |-> x2, backends |-> x3, fenced_boots |-> x4,
                    routes |-> x5, weights |-> n, other_limits |-> o]
    BY <1>1
  <1>4. \A v, n : [[meta |-> m, models |-> x2, backends |-> x3, fenced_boots |-> x4,
                    routes |-> x5, weights |-> v, other_limits |-> o]
                     EXCEPT !.other_limits = n]
                  = [meta |-> m, models |-> x2, backends |-> x3, fenced_boots |-> x4,
                     routes |-> x5, weights |-> v, other_limits |-> n]
    OBVIOUS
  <1>5. Durable(c) = [meta |-> m, models |-> x2, backends |-> x3, fenced_boots |-> x4,
                      routes |-> x5, weights |-> DefaultWeights,
                      other_limits |-> DefaultLimits]
    BY <1>3, <1>4, Zenon DEF Durable
  <1>6. PICK d : d = Durable(c)
    OBVIOUS
  <1>7. /\ d.meta = m /\ d.models = x2 /\ d.backends = x3 /\ d.fenced_boots = x4
        /\ d.routes = x5
    BY <1>5, <1>6
  <1>8. Alike(d, c)
    BY <1>2, <1>7, Zenon DEF Alike
  <1>9. IsState(d)
    BY <1>5, <1>6, <1>7, Zenon DEF IsState
  <1> QED
    BY <1>6, <1>8, <1>9, Zenon

\* and the state it gives is canonical like the one it was given.
LEMMA DurableCanonical ==
    ASSUME NEW c, CanonicalState(c)
    PROVE  DurableState(Durable(c))
  <1>1. PICK d : d = Durable(c)
    OBVIOUS
  <1>2. /\ AnyState(c) /\ canonicalize(c) = c /\ TypedRecords(c)
        /\ canonical_text(c) \in Seq(Int)
    BY Zenon DEF CanonicalState
  <1>3. Alike(d, c) /\ IsState(d)
    BY <1>1, <1>2, DurableAlike
  <1>4. d.weights = DefaultWeights /\ d.other_limits = DefaultLimits
    BY <1>3 DEF IsState
  <1>5. AnyState(d)
    BY <1>3, <1>4, Zenon DEF AnyState, IsState
  <1>6. TypedRecords(d) /\ canonical_text(d) \in Seq(Int)
    BY <1>2, <1>3, AlikeValid, AlikeText
  <1>7. c = Canonical(c.meta, sort(c.models, model_keys), sort(c.backends, backend_keys),
                      sort(c.fenced_boots, fenced_keys), sort(c.routes, route_keys),
                      c.weights, c.other_limits)
    BY <1>2, CanonicalIs
  <1>8. /\ sort(c.models, model_keys) = c.models
        /\ BindingsSorted(sort(c.backends, backend_keys)) = c.backends
        /\ sort(c.fenced_boots, fenced_keys) = c.fenced_boots
        /\ sort(c.routes, route_keys) = c.routes
    BY <1>7, CanonicalFields
  <1>9. canonicalize(d)
          = Canonical(c.meta, sort(c.models, model_keys), sort(c.backends, backend_keys),
                      sort(c.fenced_boots, fenced_keys), sort(c.routes, route_keys),
                      DefaultWeights, DefaultLimits)
    BY <1>3, <1>4, CanonicalIs, Zenon DEF Alike
  <1>10. canonicalize(d) = StateIs(c.meta, c.models, c.backends, c.fenced_boots, c.routes)
    BY <1>8, <1>9, Zenon DEF Canonical, StateIs
  <1>11. canonicalize(d) = d
    BY <1>3, <1>10, Zenon DEF Alike, IsState, StateIs
  <1> QED
    BY <1>1, <1>3, <1>5, <1>6, <1>11, Zenon DEF DurableState, CanonicalState

\* An encoded state is an image of its canonical form.
LEMMA StateEncoded ==
    ASSUME NEW x, IsDurable(x), Encoding(x).ok
    PROVE  \E n, payload : Stored(Durable(canonicalize(x.value)), Encoding(x).bytes, n, payload)
  <1>1. TypedState(x.value) /\ Encoding(x) = encode(x.value, limits)
    BY Zenon DEF IsDurable, Encoding
  <1>2. PICK c : c = Durable(canonicalize(x.value))
    OBVIOUS
  <1>3. DurableState(c) /\ Alike(c, canonicalize(x.value))
    BY <1>1, <1>2, CanonicalOnce, DurableCanonical, DurableAlike DEF CanonicalState
  <1>4. Encoding(x) = Image(c)
    BY <1>1, <1>3, EncodeIs, AlikeImage
  <1>5. Image(c).ok
    BY <1>4, Zenon
  <1>6. \E n, payload : Stored(c, Image(c).bytes, n, payload)
    BY <1>3, <1>5, ImageStored
  <1> QED
    BY <1>2, <1>4, <1>6, Zenon

\* What is encoded is bytes.
LEMMA InputEncoded == \A x \in Inputs : Encoding(x).ok => Encoding(x).bytes \in Seq(Byte)
  <1> SUFFICES ASSUME NEW x \in Inputs, Encoding(x).ok PROVE Encoding(x).bytes \in Seq(Byte)
    OBVIOUS
  <1>1. CASE IsMessage(x)
    BY <1>1, MessageEncoded, Zenon DEF Framed, IsFrame
  <1>2. CASE IsDurable(x)
    BY <1>2, StateEncoded, Zenon DEF Stored, IsImage
  <1> QED
    BY <1>1, <1>2, TwoKinds

\* One byte changed: nothing is read.
LEMMA InputChanged ==
    ASSUME NEW x \in Inputs, Encoding(x).ok, NEW b, NEW p, Changed(Encoding(x).bytes, b, p)
    PROVE  ~Decoding(x, b).ok
  <1>1. CASE IsMessage(x)
    <2>1. IsFrame(Encoding(x).bytes, x.message.type, PayloadOf(x))
      BY <1>1, MessageEncoded, Zenon DEF Framed
    <2>2. ~decode_frame(b, limits).ok
      BY <2>1, FrameChanged
    <2> QED
      BY <1>1, <2>2, FrameLost
  <1>2. CASE IsDurable(x)
    <2>1. PICK n, payload : Stored(Durable(canonicalize(x.value)), Encoding(x).bytes, n, payload)
      BY <1>2, StateEncoded
    <2>2. ~decode(b, limits).ok
      BY <2>1, StateChanged
    <2> QED
      BY <1>2, <2>2, ImageLost
  <1> QED
    BY <1>1, <1>2, TwoKinds

\* Bytes missing at the end, or added: nothing is read.
LEMMA InputResized ==
    ASSUME NEW x \in Inputs, Encoding(x).ok, NEW a, a = Encoding(x).bytes, NEW b \in Seq(Byte),
           Len(b) # Len(a), \A j \in 1..Len(b) : j <= Len(a) => b[j] = a[j]
    PROVE  ~Decoding(x, b).ok
  <1>1. CASE IsMessage(x)
    <2>1. IsFrame(a, x.message.type, PayloadOf(x))
      BY <1>1, MessageEncoded, Zenon DEF Framed
    <2>2. ~decode_frame(b, limits).ok
      BY <2>1, FrameResized
    <2> QED
      BY <1>1, <2>2, FrameLost
  <1>2. CASE IsDurable(x)
    <2>1. PICK n, payload : Stored(Durable(canonicalize(x.value)), a, n, payload)
      BY <1>2, StateEncoded
    <2>2. IsImage(a, n, payload, sha256(canonical_text(Durable(canonicalize(x.value)))))
      BY <2>1, Zenon DEF Stored
    <2>3. ~decode(b, limits).ok
      BY <2>2, ImageResized, DecodeAccepts
    <2> QED
      BY <1>2, <2>3, ImageLost
  <1> QED
    BY <1>1, <1>2, TwoKinds

\* A correct frame around a payload that is too short or too long.
LEMMA MessageReframed ==
    ASSUME NEW x, IsMessage(x), NEW payload, payload = PayloadOf(x), NEW p, p # payload,
           Prefix(p, payload) \/ Prefix(payload, p), encode_frame(x.message.type, p, limits).ok
    PROVE  LET bs == encode_frame(x.message.type, p, limits).bytes
           IN  bs \in Seq(Byte) /\ ~Decoding(x, bs).ok
  <1>1. p \in Seq(Byte)
    BY DEF Prefix
  <1>2. PICK bs : bs = encode_frame(x.message.type, p, limits).bytes
    OBVIOUS
  <1>3. Framed(bs, x.message.type, p)
    BY <1>1, <1>2, FrameEncoded
  <1>4. bs \in Seq(Byte)
    BY <1>3, Zenon DEF Framed, IsFrame
  <1>5. Decoding(x, bs) = Reading(x, p)
    BY <1>3, FramedReads
  <1>6. x.message \in Messages /\ Typed(x.message.put, x.value)
    BY Zenon DEF IsMessage
  <1>7. Layout_3(x.message.put) /\ x.message.get = x.message.put
    BY <1>6, MessageLayout
  <1>8. payload = writer_bytes(x.message.put, x.value)
    BY Zenon DEF PayloadOf
  <1>9. ~decode_message(x.message.put, p, limits).ok
    BY <1>6, <1>7, <1>8, MessageResized
  <1>10. ~Reading(x, p).ok
    BY <1>7, <1>9, RefusedNot, Zenon DEF Reading
  <1> QED
    BY <1>2, <1>4, <1>5, <1>10, Zenon

-----------------------------------------------------------------------------
\* What the ways of damaging the bytes do to them.
Flipped(a, p, d) == [a EXCEPT ![p] = (@ + d) % 256]

\* Flip changes one byte, and really changes it.
LEMMA FlipChanges ==
    ASSUME NEW a \in Seq(Byte), NEW p \in 1..Len(a), NEW d \in {1, 128}
    PROVE  Changed(a, Flipped(a, p, d), p)
  <1>1. PICK v : v = (a[p] + d) % 256
    OBVIOUS
  <1>2. a[p] \in Byte
    OBVIOUS
  <1>3. PICK y : y = a[p]
    OBVIOUS
  <1>4. y \in Nat /\ y <= 255
    BY <1>2, <1>3, ByteIs
  <1>5. v = (y + d) % 256 /\ (d = 1 \/ d = 128)
    BY <1>1, <1>3
  <1>6. v \in Byte /\ v # y
    <2>1. CASE d = 1
      BY <1>4, <1>5, <2>1 DEF Byte
    <2>2. CASE d = 128
      BY <1>4, <1>5, <2>2 DEF Byte
    <2> QED
      BY <1>5, <2>1, <2>2
  <1>7. PICK b : b = [a EXCEPT ![p] = v]
    OBVIOUS
  <1>8. Flipped(a, p, d) = b
    BY <1>1, <1>7 DEF Flipped
  <1>9. b \in Seq(Byte) /\ Len(b) = Len(a) /\ b[p] = v /\ \A i \in 1..Len(a) : i # p => b[i] = a[i]
    BY <1>6, <1>7
  <1>10. Changed(a, b, p)
    BY <1>3, <1>6, <1>9 DEF Changed, DiffersAt
  <1> QED
    BY <1>8, <1>10, Zenon

\* Cut leaves a prefix.
LEMMA CutPrefix ==
    ASSUME NEW a \in Seq(Byte), NEW n \in Int, n <= Len(a)
    PROVE  /\ Prefix(SubSeq(a, 1, n), a)
           /\ Len(SubSeq(a, 1, n)) = IF n >= 0 THEN n ELSE 0
  <1>1. PICK l \in Nat : l = Len(a)
    OBVIOUS
  <1>2. \A i \in 1..n : a[i] \in Byte
    BY <1>1
  <1>3. PICK s : s = SubSeq(a, 1, n)
    OBVIOUS
  <1>4. /\ s \in Seq(Byte) /\ Len(s) = IF 1 <= n THEN n - 1 + 1 ELSE 0
        /\ \A i \in 1..(n - 1 + 1) : s[i] = a[1 + i - 1]
    BY <1>2, <1>3, SubSeqProperties
  <1>5. Len(s) = IF n >= 0 THEN n ELSE 0
    BY <1>4
  <1>6. Len(s) <= Len(a)
    BY <1>1, <1>5
  <1>7. ASSUME NEW j \in 1..Len(s) PROVE a[j] = s[j]
    <2>1. j \in 1..(n - 1 + 1) /\ 1 + j - 1 = j
      BY <1>5
    <2> QED
      BY <1>4, <2>1
  <1>8. Prefix(s, a)
    BY <1>4, <1>6, <1>7, Zenon DEF Prefix
  <1> QED
    BY <1>3, <1>5, <1>8, Zenon

\* The byte that Trail adds is one.
LEMMA ZeroByte == 0 \in Byte
  BY DEF Byte

\* Trail leaves something the bytes are a prefix of.
LEMMA TrailPrefix ==
    ASSUME NEW a \in Seq(Byte)
    PROVE  Prefix(a, Append(a, 0)) /\ Len(Append(a, 0)) = Len(a) + 1
  <1>1. PICK b : b = Append(a, 0)
    OBVIOUS
  <1>2. /\ b \in Seq(Byte) /\ Len(b) = Len(a) + 1 /\ \A j \in 1..Len(a) : b[j] = a[j]
    BY <1>1, ZeroByte
  <1>3. Prefix(a, b)
    BY <1>2 DEF Prefix
  <1> QED
    BY <1>1, <1>2, <1>3, Zenon

HeaderOf(x) == IF x.kind = "message" THEN frame_header_bytes ELSE persistence_header_bytes

\* There are bytes to cut.
LEMMA InputLonger ==
    ASSUME NEW x \in Inputs, Encoding(x).ok
    PROVE  HeaderOf(x) \in Nat /\ HeaderOf(x) >= 1 /\ Len(Encoding(x).bytes) \in Nat
           /\ Len(Encoding(x).bytes) >= 1
  <1>1. HeaderOf(x) \in Nat /\ HeaderOf(x) >= 1
    BY DEF HeaderOf, frame_header_bytes, persistence_header_bytes
  <1>2. PICK a : a = Encoding(x).bytes
    OBVIOUS
  <1>3. a \in Seq(Byte)
    BY <1>2, InputEncoded
  <1>4. \A s \in Seq(Byte) : Len(s) \in Nat
    OBVIOUS
  <1>5. PICK l \in Nat : l = Len(a)
    BY <1>3, <1>4, Zenon
  <1>6. l >= 1
    <2>1. CASE IsMessage(x)
      <3>1. PICK p : p \in Seq(Byte) /\ Len(a) = 24 + Len(p)
        BY <1>2, <2>1, MessageEncoded, Zenon DEF Framed, IsFrame
      <3>2. PICK k \in Nat : k = Len(p)
        BY <3>1
      <3> QED
        BY <1>5, <3>1, <3>2
    <2>2. CASE IsDurable(x)
      <3>1. PICK p : p \in Seq(Byte) /\ Len(a) = 72 + Len(p)
        BY <1>2, <2>2, StateEncoded, Zenon DEF Stored, IsImage
      <3>2. PICK k \in Nat : k = Len(p)
        BY <3>1
      <3> QED
        BY <1>5, <3>1, <3>2
    <2> QED
      BY <2>1, <2>2, TwoKinds
  <1> QED
    BY <1>1, <1>2, <1>5, <1>6

\* What Cut leaves is refused,
LEMMA InputCut ==
    ASSUME NEW x \in Inputs, Encoding(x).ok, NEW a, a = Encoding(x).bytes,
           NEW n \in {0, HeaderOf(x) - 1, HeaderOf(x), Len(a) - 1}, n < Len(a)
    PROVE  SubSeq(a, 1, n) \in Seq(Byte) /\ ~Decoding(x, SubSeq(a, 1, n)).ok
  <1>1. a \in Seq(Byte)
    BY InputEncoded
  <1>2. PICK h, l : h = HeaderOf(x) /\ l = Len(a)
    OBVIOUS
  <1>3. h \in Nat /\ l \in Nat /\ h >= 1 /\ l >= 1
    BY <1>2, InputLonger
  <1>4. n \in Nat /\ n < l /\ n <= l /\ n # l
    BY <1>2, <1>3
  <1>5. PICK b : b = SubSeq(a, 1, n)
    OBVIOUS
  <1>6. n \in Int /\ n <= Len(a) /\ n >= 0 /\ Len(a) # n
    BY <1>2, <1>4
  <1>7. Prefix(b, a) /\ Len(b) = n
    BY <1>1, <1>5, <1>6, CutPrefix
  <1>8. b \in Seq(Byte) /\ Len(b) # Len(a) /\ \A j \in 1..Len(b) : j <= Len(a) => b[j] = a[j]
    BY <1>6, <1>7, Zenon DEF Prefix
  <1>9. ~Decoding(x, b).ok
    BY <1>8, InputResized
  <1> QED
    BY <1>5, <1>8, <1>9, Zenon

\* what Trail leaves,
LEMMA InputTrails ==
    ASSUME NEW x \in Inputs, Encoding(x).ok, NEW a, a = Encoding(x).bytes
    PROVE  Append(a, 0) \in Seq(Byte) /\ ~Decoding(x, Append(a, 0)).ok
  <1>1. a \in Seq(Byte)
    BY InputEncoded
  <1>2. PICK b : b = Append(a, 0)
    OBVIOUS
  <1>3. Prefix(a, b) /\ Len(b) = Len(a) + 1
    BY <1>1, <1>2, TrailPrefix, Zenon
  <1>4. PICK l \in Nat : l = Len(a)
    BY <1>1, InputLonger
  <1>5. Len(b) # Len(a) /\ b \in Seq(Byte)
    BY <1>3, <1>4 DEF Prefix
  <1>6. \A j \in 1..Len(b) : j <= Len(a) => j \in 1..Len(a)
    BY <1>3, <1>4
  <1>7. \A j \in 1..Len(b) : j <= Len(a) => b[j] = a[j]
    BY <1>3, <1>6, Zenon DEF Prefix
  <1>8. ~Decoding(x, b).ok
    BY <1>5, <1>7, InputResized
  <1> QED
    BY <1>2, <1>5, <1>8, Zenon

\* and what Flip leaves.
LEMMA InputFlips ==
    ASSUME NEW x \in Inputs, Encoding(x).ok, NEW a, a = Encoding(x).bytes, NEW p \in 1..Len(a),
           NEW d \in {1, 128}, NEW b, b = Flipped(a, p, d)
    PROVE  b \in Seq(Byte) /\ ~Decoding(x, b).ok
  <1>1. a \in Seq(Byte)
    BY InputEncoded
  <1>2. Changed(a, Flipped(a, p, d), p)
    BY <1>1, FlipChanges
  <1>3. Changed(a, b, p)
    BY <1>2
  <1> QED
    BY <1>3, InputChanged DEF Changed

\* The payloads that Reframe puts into a frame.
Wrong(payload) ==
    {SubSeq(payload, 1, n) : n \in {0, Len(payload) \div 2, Len(payload) - 1}}
    \cup {Append(payload, 0)}

\* The payloads of Reframe end early or go on.
LEMMA WrongPrefix ==
    ASSUME NEW payload \in Seq(Byte), NEW p \in Wrong(payload)
    PROVE  Prefix(p, payload) \/ Prefix(payload, p)
  <1>1. PICK l \in Nat : l = Len(payload)
    OBVIOUS
  <1>2. CASE p = Append(payload, 0)
    BY <1>2, TrailPrefix
  <1>3. CASE p # Append(payload, 0)
    <2>1. PICK n \in {0, Len(payload) \div 2, Len(payload) - 1} : p = SubSeq(payload, 1, n)
      BY <1>3 DEF Wrong
    <2>2. n = 0 \/ n = l \div 2 \/ n = l - 1
      BY <1>1, <2>1
    <2>3. l \div 2 \in Int /\ l \div 2 <= l
      BY <1>1
    <2>4. n \in Int /\ n <= l
      BY <1>1, <2>2, <2>3
    <2>5. n <= Len(payload)
      BY <1>1, <2>4
    <2> QED
      BY <2>1, <2>4, <2>5, CutPrefix
  <1> QED
    BY <1>2, <1>3

\* What Reframe leaves is refused.
LEMMA InputReframed ==
    ASSUME NEW x, IsMessage(x), Encoding(x).ok, NEW a, a = Encoding(x).bytes,
           NEW payload, payload = SubSeq(a, HeaderOf(x) + 1, Len(a)),
           NEW p \in Wrong(payload), p # payload, encode_frame(x.message.type, p, limits).ok
    PROVE  LET bs == encode_frame(x.message.type, p, limits).bytes
           IN  bs \in Seq(Byte) /\ ~Decoding(x, bs).ok
  <1>1. IsFrame(a, x.message.type, PayloadOf(x))
    BY MessageEncoded, Zenon DEF Framed
  <1>2. PICK q : q = PayloadOf(x)
    OBVIOUS
  <1>3. PICK n : n = Len(q)
    OBVIOUS
  <1>4. /\ q \in Seq(Byte) /\ Len(a) = 24 + n /\ field(a, 24, n) = q
    BY <1>1, <1>2, <1>3, Zenon DEF IsFrame
  <1>5. HeaderOf(x) = 24
    BY Zenon DEF HeaderOf, IsMessage, frame_header_bytes
  <1>6. payload = q
    BY <1>4, <1>5, Zenon DEF field
  <1>7. Prefix(p, payload) \/ Prefix(payload, p)
    BY <1>4, <1>6, WrongPrefix
  <1> QED
    BY <1>2, <1>6, <1>7, MessageReframed, Zenon

\* A state that was carried intact.
LEMMA StateIntact ==
    ASSUME NEW x, IsDurable(x), Encoding(x).ok,
           Len(Encoding(x).bytes) - persistence_header_bytes <= limits.max_payload_bytes
    PROVE  LET c == canonicalize(x.value)
           IN  Decoding(x, Encoding(x).bytes)
                 = IF AllowedRecords(c) THEN [ok |-> TRUE, value |-> Durable(c)]
                   ELSE [ok |-> FALSE]
  <1> SUFFICES LET c == Durable(canonicalize(x.value))
               IN  Decoding(x, Encoding(x).bytes)
                     = IF AllowedRecords(c) THEN [ok |-> TRUE, value |-> c] ELSE [ok |-> FALSE]
    <2>1. CanonicalState(canonicalize(x.value))
      BY CanonicalOnce DEF IsDurable
    <2>2. Alike(Durable(canonicalize(x.value)), canonicalize(x.value))
      BY <2>1, DurableAlike DEF CanonicalState
    <2>3. AllowedRecords(Durable(canonicalize(x.value))) = AllowedRecords(canonicalize(x.value))
      BY <2>2, AlikeValid
    <2> QED
      BY <2>3, Zenon
  <1>1. PICK c, a : c = Durable(canonicalize(x.value)) /\ a = Encoding(x).bytes
    OBVIOUS
  <1>2. PICK n, payload : Stored(c, a, n, payload)
    BY <1>1, StateEncoded
  <1>3. payload \in Seq(Byte) /\ Len(a) = 72 + Len(payload)
    BY <1>2, Zenon DEF Stored, IsImage
  <1>4. PICK l \in Nat : l = Len(payload)
    BY <1>3
  <1>5. Len(a) - persistence_header_bytes = l
    BY <1>3, <1>4 DEF persistence_header_bytes
  <1>6. Len(payload) <= limits.max_payload_bytes
    BY <1>1, <1>4, <1>5, Zenon
  <1>7. PICK r : r = decode(a, limits)
    OBVIOUS
  <1>8. r = IF AllowedRecords(c) THEN [ok |-> TRUE, state |-> c] ELSE Rejected
    BY <1>2, <1>6, <1>7, ImageDecodes
  <1>9. Decoding(x, a) = IF r.ok THEN [ok |-> TRUE, value |-> r.state] ELSE Rejected
    BY <1>7, Zenon DEF Decoding, IsDurable
  <1>10. CASE AllowedRecords(c)
    <2>1. r = [ok |-> TRUE, state |-> c]
      BY <1>8, <1>10, Zenon
    <2>2. r.ok /\ r.state = c
      BY <2>1
    <2> QED
      BY <1>1, <1>9, <1>10, <2>2, Zenon
  <1>11. CASE ~AllowedRecords(c)
    <2>1. ~r.ok
      BY <1>8, <1>11, RejectedNot, Zenon
    <2> QED
      BY <1>1, <1>9, <1>11, <2>1, RefusedNot, Zenon
  <1> QED
    BY <1>10, <1>11

-----------------------------------------------------------------------------
(***************************************************************************)
(* The inductive invariant: the bytes are those of the source as long as   *)
(* nothing happened to them, what did happen to them is refused, and the   *)
(* outcome is what decoding the bytes gives.                               *)
(***************************************************************************)
Stages == {"made", "encoded", "carried", "decoded"}
Faults == {"none", "flipped", "cut", "trailing", "reframed"}

CodecInv ==
    /\ stage \in Stages /\ fault \in Faults
    /\ source \in Inputs /\ bytes \in Seq(Byte) /\ outcome.ok \in BOOLEAN
    /\ stage \in {"made", "encoded"} => fault = "none"
    /\ stage # "made" => Encoding(source).ok
    /\ stage # "made" /\ fault = "none" => bytes = Encoding(source).bytes
    /\ fault # "none" => ~Decoding(source, bytes).ok
    /\ stage = "decoded" => outcome = Decoding(source, bytes)

\* The invariant holds at the start.
LEMMA CodecInit == Init => CodecInv
  <1> SUFFICES ASSUME Init PROVE CodecInv
    OBVIOUS
  <1>1. /\ stage = "made" /\ source \in Inputs /\ bytes = <<>> /\ fault = "none"
        /\ outcome = [ok |-> FALSE]
    BY Zenon DEF Init
  <1>2. bytes \in Seq(Byte) /\ outcome.ok \in BOOLEAN
    BY <1>1
  <1>3. stage \in Stages /\ fault \in Faults /\ stage # "decoded"
    BY <1>1 DEF Stages, Faults
  <1> QED
    BY <1>1, <1>2, <1>3, Zenon DEF CodecInv

\* Encode keeps it.
LEMMA EncodeKeeps == CodecInv /\ Encode => CodecInv'
  <1> SUFFICES ASSUME CodecInv, Encode PROVE CodecInv'
    OBVIOUS
  <1>1. /\ stage = "made" /\ Encoding(source).ok /\ stage' = "encoded"
        /\ bytes' = Encoding(source).bytes
        /\ source' = source /\ fault' = fault /\ outcome' = outcome
    BY EncodedIs DEF Encode
  <1>2. source \in Inputs /\ fault = "none" /\ outcome.ok \in BOOLEAN
    BY <1>1 DEF CodecInv
  <1>3. bytes' \in Seq(Byte)
    BY <1>1, <1>2, InputEncoded
  <1>4. /\ stage' \in Stages /\ fault' \in Faults /\ stage' # "made" /\ stage' # "decoded"
        /\ fault' = "none"
    BY <1>1, <1>2 DEF Stages, Faults
  <1> QED
    BY <1>1, <1>2, <1>3, <1>4 DEF CodecInv

\* What Carry does to the bytes.
Damaged ==
    /\ fault' \in Faults /\ fault' # "none" /\ bytes' \in Seq(Byte)
    /\ ~Decoding(source, bytes').ok

\* Before Carry the bytes are the encoding of the source.
Whole == source \in Inputs /\ Encoding(source).ok /\ bytes = Encoding(source).bytes

\* The size of the header.
LEMMA HeaderIs == Header = HeaderOf(source)
  BY Zenon DEF Header, HeaderOf

\* One byte changed,
LEMMA FlipDamages == Whole /\ Flip => Damaged
  <1> SUFFICES ASSUME Whole, Flip PROVE Damaged
    OBVIOUS
  <1>1. PICK p \in Positions, d \in {1, 128} :
            bytes' = [bytes EXCEPT ![p] = (@ + d) % 256] /\ fault' = "flipped"
    BY Zenon DEF Flip
  <1>2. p \in 1..Len(bytes)
    BY Zenon DEF Positions
  <1>3. bytes' = Flipped(bytes, p, d)
    BY <1>1, Zenon DEF Flipped
  <1>4. bytes' \in Seq(Byte) /\ ~Decoding(source, bytes').ok
    BY <1>2, <1>3, InputFlips DEF Whole
  <1>5. fault' \in Faults /\ fault' # "none"
    BY <1>1 DEF Faults
  <1> QED
    BY <1>4, <1>5, Zenon DEF Damaged

\* the end missing,
LEMMA CutDamages == Whole /\ Cut => Damaged
  <1> SUFFICES ASSUME Whole, Cut PROVE Damaged
    OBVIOUS
  <1>1. PICK n \in {0, HeaderOf(source) - 1, HeaderOf(source), Len(bytes) - 1} :
            n < Len(bytes) /\ bytes' = SubSeq(bytes, 1, n) /\ fault' = "cut"
    BY HeaderIs, Zenon DEF Cut
  <1>2. bytes' \in Seq(Byte) /\ ~Decoding(source, bytes').ok
    <2>1. SubSeq(bytes, 1, n) \in Seq(Byte) /\ ~Decoding(source, SubSeq(bytes, 1, n)).ok
      BY <1>1, InputCut, Zenon DEF Whole
    <2> QED
      BY <1>1, <2>1, Zenon
  <1>3. fault' \in Faults /\ fault' # "none"
    BY <1>1 DEF Faults
  <1> QED
    BY <1>2, <1>3, Zenon DEF Damaged

\* one byte too many,
LEMMA TrailDamages == Whole /\ Trail => Damaged
  <1> SUFFICES ASSUME Whole, Trail PROVE Damaged
    OBVIOUS
  <1>1. bytes' = Append(bytes, 0) /\ fault' = "trailing"
    BY Zenon DEF Trail
  <1>2. bytes' \in Seq(Byte) /\ ~Decoding(source, bytes').ok
    BY <1>1, InputTrails, Zenon DEF Whole
  <1>3. fault' \in Faults /\ fault' # "none"
    BY <1>1 DEF Faults
  <1> QED
    BY <1>2, <1>3, Zenon DEF Damaged

\* or a payload that its layout does not fill.
LEMMA ReframeDamages == Whole /\ Reframe => Damaged
  <1> SUFFICES ASSUME Whole, Reframe PROVE Damaged
    OBVIOUS
  <1>1. PICK payload : payload = SubSeq(bytes, HeaderOf(source) + 1, Len(bytes))
    OBVIOUS
  <1>2. source.kind = "message" /\ fault' = "reframed"
    BY Zenon DEF Reframe
  <1>3. PICK p \in Wrong(payload) \ {payload} :
            /\ encode_frame(source.message.type, p, limits).ok
            /\ bytes' = encode_frame(source.message.type, p, limits).bytes
    BY <1>1, HeaderIs, Zenon DEF Reframe, Wrong
  <1>4. IsMessage(source)
    BY <1>2, TwoKinds, Zenon DEF Whole, IsDurable
  <1>5. p \in Wrong(payload) /\ p # payload
    OBVIOUS
  <1>6. bytes' \in Seq(Byte) /\ ~Decoding(source, bytes').ok
    BY <1>1, <1>3, <1>4, <1>5, InputReframed, Zenon DEF Whole
  <1>7. fault' \in Faults /\ fault' # "none"
    BY <1>2 DEF Faults
  <1> QED
    BY <1>6, <1>7, Zenon DEF Damaged

\* Carry keeps the invariant: intact bytes are still those of the source, others are
\* refused.
LEMMA CarryKeeps == CodecInv /\ Carry => CodecInv'
  <1> SUFFICES ASSUME CodecInv, Carry PROVE CodecInv'
    OBVIOUS
  <1>1. stage = "encoded" /\ stage' = "carried" /\ source' = source /\ outcome' = outcome
    BY DEF Carry
  <1>2. /\ source \in Inputs /\ Encoding(source).ok /\ fault = "none"
        /\ bytes = Encoding(source).bytes /\ bytes \in Seq(Byte) /\ outcome.ok \in BOOLEAN
    BY <1>1 DEF CodecInv
  <1>3. Whole
    BY <1>2, Zenon DEF Whole
  <1>4. (bytes' = bytes /\ fault' = fault) \/ Damaged
    BY <1>3, FlipDamages, CutDamages, TrailDamages, ReframeDamages DEF Carry
  <1>5. stage' \in Stages /\ stage' \notin {"made", "encoded"} /\ stage' # "decoded"
    BY <1>1 DEF Stages
  <1>6. CASE bytes' = bytes /\ fault' = fault
    <2>1. fault' \in Faults /\ fault' = "none"
      BY <1>2, <1>6 DEF Faults
    <2> QED
      BY <1>1, <1>2, <1>5, <1>6, <2>1 DEF CodecInv
  <1>7. CASE Damaged
    <2>1. fault' \in Faults /\ fault' # "none" /\ bytes' \in Seq(Byte)
          /\ ~Decoding(source, bytes').ok
      BY <1>7, Zenon DEF Damaged
    <2> QED
      BY <1>1, <1>2, <1>5, <2>1 DEF CodecInv
  <1> QED
    BY <1>4, <1>6, <1>7

\* Decode keeps it.
LEMMA DecodeKeeps == CodecInv /\ Decode => CodecInv'
  <1> SUFFICES ASSUME CodecInv, Decode PROVE CodecInv'
    OBVIOUS
  <1>1. /\ stage = "carried" /\ stage' = "decoded" /\ source' = source /\ bytes' = bytes
        /\ fault' = fault /\ outcome' = Decoding(source, bytes)
    BY DecodedIs DEF Decode
  <1>2. outcome'.ok \in BOOLEAN
    BY <1>1, DecodingOk, Zenon
  <1>3. stage' \in Stages /\ stage' \notin {"made", "encoded"} /\ stage # "made"
    BY <1>1 DEF Stages
  <1>4. /\ source \in Inputs /\ bytes \in Seq(Byte) /\ fault \in Faults /\ Encoding(source).ok
        /\ (fault = "none" => bytes = Encoding(source).bytes)
        /\ (fault # "none" => ~Decoding(source, bytes).ok)
    BY <1>3 DEF CodecInv
  <1> QED
    BY <1>1, <1>2, <1>3, <1>4 DEF CodecInv

\* Encoding, carrying and decoding any of the inputs, in every way Carry can damage the
\* bytes, keeps the inductive invariant.
THEOREM CodecInvariant == Spec => []CodecInv
  <1>1. CodecInv /\ [Next]_vars => CodecInv'
    <2> SUFFICES ASSUME CodecInv, [Next]_vars PROVE CodecInv'
      OBVIOUS
    <2>1. CASE UNCHANGED vars
      BY <2>1 DEF vars, CodecInv
    <2>2. CASE Next
      BY <2>2, EncodeKeeps, CarryKeeps, DecodeKeeps DEF Next
    <2> QED
      BY <2>1, <2>2
  <1> QED
    BY CodecInit, <1>1, PTL DEF Spec

\* Encoders and decoders produce bytes and an outcome, whatever happens to the bytes between
\* them: the type invariant, for every limit and every input.
THEOREM TypeCorrect == Spec => []TypeOK
  <1>1. CodecInv => TypeOK
    <2> SUFFICES ASSUME CodecInv PROVE TypeOK
      OBVIOUS
    <2>1. bytes \in Seq(Byte)
      BY Zenon DEF CodecInv
    <2>2. \A i \in DOMAIN bytes : bytes[i] \in 0..255
      <3>1. \A S : \A s \in Seq(S) : \A i \in DOMAIN s : s[i] \in S
        OBVIOUS
      <3> QED
        BY <2>1, <3>1, Zenon DEF Byte
    <2> QED
      BY <2>2, Zenon DEF CodecInv, TypeOK, Stages, Faults
  <1> QED
    BY CodecInvariant, <1>1, PTL

\* encode_x, encode_frame, decode_frame and decode_x: a message that was carried intact is
\* read back in all its fields, exactly if it keeps the limits and ranges of the reader.
THEOREM MessagesSurvive == Spec => []MessageSurvives
  <1>1. CodecInv => MessageSurvives
    <2> SUFFICES ASSUME CodecInv, stage = "decoded", source.kind = "message", fault = "none"
                 PROVE  outcome = IF Allowed(source.message.put, source.value)
                                  THEN [ok |-> TRUE, value |-> source.value]
                                  ELSE [ok |-> FALSE]
      BY Zenon DEF MessageSurvives, Done
    <2>1. stage # "made"
      OBVIOUS
    <2>2. /\ source \in Inputs /\ Encoding(source).ok /\ bytes = Encoding(source).bytes
          /\ outcome = Decoding(source, bytes)
      BY <2>1, Zenon DEF CodecInv
    <2>3. IsMessage(source)
      BY <2>2, TwoKinds, Zenon DEF IsDurable
    <2> QED
      BY <2>2, <2>3, MessageIntact, Zenon
  <1> QED
    BY CodecInvariant, <1>1, PTL

\* RouterStateStore::encode and decode: a state, whatever its weights and limits, that encode
\* accepted and whose payload decode reads at all is read back canonical, with all that the
\* image has a field for and the default weights and other limits, exactly if its records keep
\* the ranges of the reader.
THEOREM StatesSurvive == Spec => []StateSurvives
  <1>1. CodecInv => StateSurvives
    <2> SUFFICES ASSUME CodecInv, stage = "decoded", source.kind = "state", fault = "none",
                        Len(bytes) - persistence_header_bytes <= limits.max_payload_bytes
                 PROVE  LET state == canonicalize(source.value)
                        IN  outcome = IF AllowedRecords(state)
                                      THEN [ok |-> TRUE, value |-> Durable(state)]
                                      ELSE [ok |-> FALSE]
      BY Zenon DEF StateSurvives, Done
    <2>1. stage # "made" /\ source.kind # "message"
      OBVIOUS
    <2>2. /\ source \in Inputs /\ Encoding(source).ok /\ bytes = Encoding(source).bytes
          /\ outcome = Decoding(source, bytes)
      BY <2>1, Zenon DEF CodecInv
    <2>3. IsDurable(source)
      BY <2>1, <2>2, TwoKinds, Zenon DEF IsMessage
    <2>4. Len(Encoding(source).bytes) - persistence_header_bytes <= limits.max_payload_bytes
      BY <2>2, Zenon
    <2> QED
      BY <2>2, <2>3, <2>4, StateIntact, Zenon
  <1> QED
    BY CodecInvariant, <1>1, PTL

\* decode_frame, decode_message and RouterStateStore::decode: bytes one of which changed, that
\* end early or go on, and a correct frame around such a payload, are refused.
THEOREM DamageIsRefused == Spec => []DamageRefused
  <1>1. CodecInv => DamageRefused
    BY Zenon DEF CodecInv, DamageRefused
  <1> QED
    BY CodecInvariant, <1>1, PTL

\* RouterPersistentState::canonicalize: the image of a state does not depend on the order in which its
\* records were inserted.
THEOREM ImagesDeterministic == Spec => []ImageDeterministic
  <1>1. CodecInv => ImageDeterministic
    <2> SUFFICES ASSUME CodecInv, stage = "encoded", source.kind = "state"
                 PROVE  bytes = encode(Reordered(source.value), limits).bytes
      BY Zenon DEF ImageDeterministic
    <2>1. stage # "made" /\ stage \in {"made", "encoded"} /\ source.kind # "message"
      OBVIOUS
    <2>2. source \in Inputs /\ bytes = Encoding(source).bytes
      BY <2>1, Zenon DEF CodecInv
    <2>3. IsDurable(source)
      BY <2>1, <2>2, TwoKinds, Zenon DEF IsMessage
    <2>4. TypedState(source.value) /\ Encoding(source) = encode(source.value, limits)
      BY <2>3, Zenon DEF IsDurable, Encoding
    <2> QED
      BY <2>2, <2>4, EncodeReordered
  <1> QED
    BY CodecInvariant, <1>1, PTL

=============================================================================
