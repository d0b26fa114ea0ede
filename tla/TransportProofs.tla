--------------------------- MODULE TransportProofs ---------------------------
(***************************************************************************)
(* Theorems about Transport and their proofs, for both session loops, any  *)
(* number of frames, any queue limits and any capacity of the wire.        *)
(*                                                                         *)
(* The frames of one direction are one stream of bytes.  Every step of     *)
(* either loop moves a boundary within that stream or cuts it off where    *)
(* nobody will read on.                                                    *)
(***************************************************************************)
EXTENDS Transport, LeastNumber, SequenceTheorems

-----------------------------------------------------------------------------
(***************************************************************************)
(* Bytes of frames.                                                        *)
(***************************************************************************)
\* A place in the bytes of n frames is the first or the second half of one of them.
LEMMA Halves ==
    ASSUME NEW n \in Nat, NEW j \in 1..(2 * n)
    PROVE  \E i \in 1..n : j = 2 * i - 1 \/ j = 2 * i
<1>1. (j + 1) \div 2 \in 1..n
  OBVIOUS
<1>2. j = 2 * ((j + 1) \div 2) - 1 \/ j = 2 * ((j + 1) \div 2)
  OBVIOUS
<1> QED
  BY <1>1, <1>2

\* The chunk at a place.
LEMMA PlaceInStream ==
    ASSUME NEW i \in Nat \ {0}
    PROVE  /\ ((2 * i - 1) + 1) \div 2 = i /\ 2 - ((2 * i - 1) % 2) = 1
           /\ (2 * i + 1) \div 2 = i /\ 2 - ((2 * i) % 2) = 2
  OBVIOUS

\* The bytes of a sequence of frames, place by place.
LEMMA EncodedPlaces ==
    ASSUME NEW fs \in Seq(Frames)
    PROVE  /\ Encoded(fs) \in Seq(Chunks)
           /\ Len(Encoded(fs)) = 2 * Len(fs)
           /\ \A i \in 1..Len(fs) : /\ Encoded(fs)[2 * i - 1] = <<fs[i], 1>>
                                    /\ Encoded(fs)[2 * i] = <<fs[i], 2>>
<1> DEFINE n == Len(fs)
           at(j) == encode_frame(fs[(j + 1) \div 2])[2 - (j % 2)]
<1>1. n \in Nat /\ \A i \in 1..n : fs[i] \in Frames
  BY LenProperties, ElementOfSeq
<1>2. Encoded(fs) = [j \in 1..(2 * n) |-> at(j)]
  BY DEF Encoded
<1>3. \A i \in 1..n : at(2 * i - 1) = <<fs[i], 1>> /\ at(2 * i) = <<fs[i], 2>>
  <2> SUFFICES ASSUME NEW i \in 1..n
               PROVE  at(2 * i - 1) = <<fs[i], 1>> /\ at(2 * i) = <<fs[i], 2>>
    OBVIOUS
  <2>1. encode_frame(fs[i])[1] = <<fs[i], 1>> /\ encode_frame(fs[i])[2] = <<fs[i], 2>>
    BY DEF encode_frame
  <2>2. i \in Nat \ {0}
    BY <1>1
  <2> QED
    BY <2>1, <2>2, PlaceInStream
<1> HIDE DEF at
<1>4. \A j \in 1..(2 * n) : at(j) \in Chunks
  <2> SUFFICES ASSUME NEW j \in 1..(2 * n) PROVE at(j) \in Chunks
    OBVIOUS
  <2>1. PICK i \in 1..n : j = 2 * i - 1 \/ j = 2 * i
    BY <1>1, Halves
  <2>2. <<fs[i], 1>> \in Chunks /\ <<fs[i], 2>> \in Chunks
    BY <1>1 DEF Chunks
  <2> QED
    BY <1>3, <2>1, <2>2
<1>5. [j \in 1..(2 * n) |-> at(j)] \in Seq(Chunks)
  BY <1>1, <1>4, IsASeq
<1>6. Len(Encoded(fs)) = 2 * n
  BY <1>1, <1>2, <1>5, LenProperties
<1>7. \A i \in 1..n : 2 * i - 1 \in 1..(2 * n) /\ 2 * i \in 1..(2 * n)
  BY <1>1
<1> QED
  BY <1>2, <1>3, <1>5, <1>6, <1>7

\* Two sequences of chunks are equal when their halves are.
LEMMA SameBytes ==
    ASSUME NEW a \in Seq(Chunks), NEW b \in Seq(Chunks), NEW n \in Nat,
           Len(a) = 2 * n, Len(b) = 2 * n,
           \A i \in 1..n : a[2 * i - 1] = b[2 * i - 1] /\ a[2 * i] = b[2 * i]
    PROVE  a = b
<1>1. \A j \in 1..(2 * n) : a[j] = b[j]
  BY Halves
<1> QED
  BY <1>1, SeqEqual

\* The bytes of frames one after the other.
LEMMA EncodedConcat ==
    ASSUME NEW fs \in Seq(Frames), NEW gs \in Seq(Frames)
    PROVE  Encoded(fs \o gs) = Encoded(fs) \o Encoded(gs)
<1>1. PICK hs \in Seq(Frames) : hs = fs \o gs
  BY ConcatProperties, Zenon
<1>2. /\ Len(hs) = Len(fs) + Len(gs)
      /\ \A i \in 1..(Len(fs) + Len(gs)) : hs[i] = IF i <= Len(fs) THEN fs[i] ELSE gs[i - Len(fs)]
  BY <1>1, ConcatProperties, Zenon
<1>3. PICK E \in Seq(Chunks), G \in Seq(Chunks) : E = Encoded(fs) /\ G = Encoded(gs)
  BY EncodedPlaces
<1>a. Len(E) = 2 * Len(fs) /\ Len(G) = 2 * Len(gs)
  BY <1>3, EncodedPlaces
<1>4. PICK T \in Seq(Chunks) : T = E \o G
  BY ConcatProperties, Zenon
<1>b. /\ Len(T) = Len(E) + Len(G)
      /\ \A i \in 1..(Len(E) + Len(G)) :
            T[i] = IF i <= Len(E) THEN E[i] ELSE G[i - Len(E)]
  BY <1>4, ConcatProperties, Zenon
<1>5. /\ Len(T) = 2 * Len(fs) + 2 * Len(gs)
      /\ \A i \in 1..(2 * Len(fs) + 2 * Len(gs)) :
            T[i] = IF i <= 2 * Len(fs) THEN E[i] ELSE G[i - 2 * Len(fs)]
  BY <1>a, <1>b, Zenon
<1>6. Len(fs) \in Nat /\ Len(gs) \in Nat
  BY LenProperties
<1>7. Encoded(hs) \in Seq(Chunks) /\ Len(Encoded(hs)) = 2 * (Len(fs) + Len(gs))
  BY <1>2, EncodedPlaces
<1>8. Len(T) = 2 * (Len(fs) + Len(gs))
  BY <1>5, <1>6
<1>9. \A i \in 1..(Len(fs) + Len(gs)) :
         Encoded(hs)[2 * i - 1] = T[2 * i - 1] /\ Encoded(hs)[2 * i] = T[2 * i]
  <2> SUFFICES ASSUME NEW i \in 1..(Len(fs) + Len(gs))
               PROVE  Encoded(hs)[2 * i - 1] = T[2 * i - 1] /\ Encoded(hs)[2 * i] = T[2 * i]
    OBVIOUS
  <2>1. Encoded(hs)[2 * i - 1] = <<hs[i], 1>> /\ Encoded(hs)[2 * i] = <<hs[i], 2>>
    BY <1>2, EncodedPlaces
  <2>2. CASE i <= Len(fs)
    <3>1. hs[i] = fs[i] /\ i \in 1..Len(fs)
      BY <1>2, <1>6, <2>2
    <3>2. E[2 * i - 1] = <<fs[i], 1>> /\ E[2 * i] = <<fs[i], 2>>
      BY <1>3, <3>1, EncodedPlaces
    <3>a. /\ 2 * i - 1 \in 1..(2 * Len(fs) + 2 * Len(gs)) /\ 2 * i - 1 <= 2 * Len(fs)
          /\ 2 * i \in 1..(2 * Len(fs) + 2 * Len(gs)) /\ 2 * i <= 2 * Len(fs)
      BY <1>6, <2>2
    <3>3. T[2 * i - 1] = E[2 * i - 1] /\ T[2 * i] = E[2 * i]
      BY <1>5, <3>a, Zenon
    <3> QED
      BY <2>1, <3>1, <3>2, <3>3
  <2>3. CASE ~(i <= Len(fs))
    <3>1. hs[i] = gs[i - Len(fs)] /\ i - Len(fs) \in 1..Len(gs)
      BY <1>2, <1>6, <2>3
    <3>2. PICK k \in 1..Len(gs) : k = i - Len(fs)
      BY <3>1
    <3>3. G[2 * k - 1] = <<gs[k], 1>> /\ G[2 * k] = <<gs[k], 2>>
      BY <1>3, EncodedPlaces
    <3>4. /\ 2 * i - 1 \in 1..(2 * Len(fs) + 2 * Len(gs)) /\ ~(2 * i - 1 <= 2 * Len(fs))
          /\ 2 * i \in 1..(2 * Len(fs) + 2 * Len(gs)) /\ ~(2 * i <= 2 * Len(fs))
          /\ (2 * i - 1) - 2 * Len(fs) = 2 * k - 1 /\ 2 * i - 2 * Len(fs) = 2 * k
      BY <1>6, <2>3, <3>2
    <3>5. T[2 * i - 1] = G[2 * k - 1] /\ T[2 * i] = G[2 * k]
      BY <1>5, <3>4, Zenon
    <3> QED
      BY <2>1, <3>1, <3>2, <3>3, <3>5
  <2> QED
    BY <2>2, <2>3
<1>c. PICK n \in Nat : n = Len(fs) + Len(gs)
  BY <1>6
<1>d. PICK H \in Seq(Chunks) : H = Encoded(hs)
  BY <1>7
<1>e. /\ Len(H) = 2 * n /\ Len(T) = 2 * n
      /\ \A i \in 1..n : H[2 * i - 1] = T[2 * i - 1] /\ H[2 * i] = T[2 * i]
  BY <1>7, <1>8, <1>9, <1>c, <1>d, Zenon
<1>10. Encoded(hs) = T
  BY <1>d, <1>e, SameBytes
<1> QED
  BY <1>1, <1>3, <1>4, <1>10

\* One frame, and none.
LEMMA EncodedOne ==
    ASSUME NEW f \in Frames
    PROVE  Encoded(<<f>>) = encode_frame(f) /\ encode_frame(f) \in Seq(Chunks)
<1>a. <<f>> \in Seq(Frames) /\ Len(<<f>>) = 1 /\ <<f>>[1] = f
  OBVIOUS
<1>1. PICK fs \in Seq(Frames) : fs = <<f>> /\ Len(fs) = 1 /\ fs[1] = f
  BY <1>a, Zenon
<1>2. <<f, 1>> \in Chunks /\ <<f, 2>> \in Chunks
  BY DEF Chunks
<1>3. /\ encode_frame(f) \in Seq(Chunks) /\ Len(encode_frame(f)) = 2
      /\ encode_frame(f)[1] = <<f, 1>> /\ encode_frame(f)[2] = <<f, 2>>
  BY <1>2 DEF encode_frame
<1>4. PICK E \in Seq(Chunks), F \in Seq(Chunks) : E = Encoded(fs) /\ F = encode_frame(f)
  BY <1>3, EncodedPlaces
<1>5. 1 \in 1..Len(fs) /\ 2 * 1 - 1 = 1 /\ 2 * 1 = 2
  BY <1>1
<1>6. Len(E) = 2 /\ E[2 * 1 - 1] = <<fs[1], 1>> /\ E[2 * 1] = <<fs[1], 2>>
  BY <1>1, <1>4, <1>5, EncodedPlaces
<1>b. E[1] = <<f, 1>> /\ E[2] = <<f, 2>>
  BY <1>1, <1>5, <1>6
<1>c. Len(F) = 2 /\ F[1] = <<f, 1>> /\ F[2] = <<f, 2>>
  BY <1>3, <1>4, Zenon
<1>d. Len(E) = 2 /\ \A i \in 1..2 : i = 1 \/ i = 2
  BY <1>6
<1>e. E[1] = F[1] /\ E[2] = F[2]
  BY <1>b, <1>c, Zenon
<1>7. Len(F) = Len(E) /\ \A i \in 1..Len(E) : E[i] = F[i]
  <2>1. \A i \in 1..2 : E[i] = F[i]
    BY <1>d, <1>e, Zenon
  <2> QED
    BY <1>c, <1>d, <2>1, Zenon
<1>8. E = F
  BY <1>7, SeqEqual
<1> QED
  BY <1>1, <1>3, <1>4, <1>8

LEMMA EncodedNone == Encoded(<<>>) = <<>>
<1>1. PICK fs \in Seq(Frames) : fs = <<>> /\ Len(fs) = 0
  BY EmptySeq
<1>a. Len(fs) = 0
  BY <1>1
<1>b. PICK E \in Seq(Chunks) : E = Encoded(fs) /\ Len(E) = 2 * Len(fs)
  BY EncodedPlaces, Zenon
<1>2. E = Encoded(fs) /\ Len(E) = 0
  BY <1>a, <1>b
<1>3. <<>> \in Seq(Chunks) /\ Len(<<>>) = 0
  BY EmptySeq
<1>4. E = <<>>
  BY <1>2, <1>3, SeqEqual
<1> QED
  BY <1>1, <1>2, <1>4, Zenon

-----------------------------------------------------------------------------
(***************************************************************************)
(* The stream of one direction: the frames d that were decoded, the        *)
(* buffer b, the wire w, the write in progress q and the queue o.          *)
(***************************************************************************)
Cat(a, b) == a \o b
Stream(d, b, w, q, o) == Cat(Cat(Cat(Cat(Encoded(d), b), w), q), Encoded(o))

LEMMA CatFacts ==
    ASSUME NEW a \in Seq(Chunks), NEW b \in Seq(Chunks), NEW c \in Seq(Chunks)
    PROVE  /\ Cat(a, b) \in Seq(Chunks)
           /\ Cat(Cat(a, b), c) = Cat(a, Cat(b, c))
           /\ Cat(a, <<>>) = a
<1>1. Cat(a, b) \in Seq(Chunks)
  BY ConcatProperties, Zenon DEF Cat
<1>2. Cat(Cat(a, b), c) = Cat(a, Cat(b, c))
  <2>1. (a \o b) \o c = a \o (b \o c)
    BY ConcatAssociative
  <2> QED
    BY <2>1, Zenon DEF Cat
<1>3. Cat(a, <<>>) = a
  BY ConcatEmptySeq, Zenon DEF Cat
<1> QED
  BY <1>1, <1>2, <1>3

\* A sequence cut in two is the same sequence.
LEMMA CutInTwo ==
    ASSUME NEW q \in Seq(Chunks), NEW n \in 0..Len(q)
    PROVE  /\ SubSeq(q, 1, n) \in Seq(Chunks)
           /\ SubSeq(q, n + 1, Len(q)) \in Seq(Chunks)
           /\ SubSeq(q, 1, n) \o SubSeq(q, n + 1, Len(q)) = q
<1>1. Len(q) \in Nat /\ \A i \in 1..Len(q) : q[i] \in Chunks
  BY LenProperties, ElementOfSeq
<1>2. n \in Int /\ n + 1 \in Int /\ Len(q) \in Int /\ 1 \in Int
  BY <1>1
<1>3. (\A i \in 1..n : q[i] \in Chunks) /\ (\A i \in (n + 1)..Len(q) : q[i] \in Chunks)
  BY <1>1
<1>4. SubSeq(q, 1, n) \in Seq(Chunks) /\ SubSeq(q, n + 1, Len(q)) \in Seq(Chunks)
  BY <1>2, <1>3, SubSeqProperties
<1>5. 1 \in 1..(Len(q) + 1) /\ n \in (1 - 1)..Len(q) /\ Len(q) \in n..Len(q)
  BY <1>1
<1>6. SubSeq(q, 1, n) \o SubSeq(q, n + 1, Len(q)) = SubSeq(q, 1, Len(q))
  BY <1>5, ConcatAdjacentSubSeq
<1>7. SubSeq(q, 1, Len(q)) = q
  BY SubSeqFull
<1> QED
  BY <1>4, <1>6, <1>7, Zenon

\* A boundary between two neighbours moves.
LEMMA Shift ==
    ASSUME NEW a \in Seq(Chunks), NEW b \in Seq(Chunks), NEW x \in Seq(Chunks),
           NEW y \in Seq(Chunks), NEW c, c = Cat(x, y)
    PROVE  Cat(Cat(a, Cat(b, x)), y) = Cat(Cat(a, b), c)
<1>1. Cat(a, b) \in Seq(Chunks)
  BY CatFacts
<1>2. Cat(a, Cat(b, x)) = Cat(Cat(a, b), x)
  BY CatFacts
<1>3. Cat(Cat(Cat(a, b), x), y) = Cat(Cat(a, b), Cat(x, y))
  BY <1>1, CatFacts
<1> QED
  BY <1>2, <1>3

\* ::send puts the first n chunks of the write on the wire.
LEMMA StreamWrite ==
    ASSUME NEW d \in Seq(Frames), NEW b \in Seq(Chunks), NEW w \in Seq(Chunks),
           NEW q \in Seq(Chunks), NEW o \in Seq(Frames), NEW n \in 0..Len(q)
    PROVE  Stream(d, b, Cat(w, SubSeq(q, 1, n)), SubSeq(q, n + 1, Len(q)), o)
             = Stream(d, b, w, q, o)
<1>1. PICK x \in Seq(Chunks), y \in Seq(Chunks) :
         x = SubSeq(q, 1, n) /\ y = SubSeq(q, n + 1, Len(q)) /\ q = Cat(x, y)
  BY CutInTwo, ZenonT(60) DEF Cat
<1>a. q = Cat(x, y)
  BY <1>1
<1>2. PICK E \in Seq(Chunks) : E = Encoded(d)
  BY EncodedPlaces
<1>3. Cat(E, b) \in Seq(Chunks)
  BY CatFacts
<1>4. Cat(Cat(Cat(E, b), Cat(w, x)), y) = Cat(Cat(Cat(E, b), w), q)
  BY <1>a, <1>3, Shift
<1>5. Stream(d, b, Cat(w, x), y, o) = Stream(d, b, w, q, o)
  BY <1>2, <1>4 DEF Stream
<1> QED
  BY <1>1, <1>5, Zenon

\* ::recv moves the first n chunks on the wire to the buffer.
LEMMA StreamRead ==
    ASSUME NEW d \in Seq(Frames), NEW b \in Seq(Chunks), NEW w \in Seq(Chunks),
           NEW q \in Seq(Chunks), NEW o \in Seq(Frames), NEW n \in 0..Len(w)
    PROVE  Stream(d, Cat(b, SubSeq(w, 1, n)), SubSeq(w, n + 1, Len(w)), q, o)
             = Stream(d, b, w, q, o)
<1>1. PICK x \in Seq(Chunks), y \in Seq(Chunks) :
         x = SubSeq(w, 1, n) /\ y = SubSeq(w, n + 1, Len(w)) /\ w = Cat(x, y)
  BY CutInTwo, ZenonT(60) DEF Cat
<1>a. w = Cat(x, y)
  BY <1>1
<1>2. PICK E \in Seq(Chunks) : E = Encoded(d)
  BY EncodedPlaces
<1>3. Cat(Cat(E, Cat(b, x)), y) = Cat(Cat(E, b), w)
  BY <1>a, Shift
<1>4. Stream(d, Cat(b, x), y, q, o) = Stream(d, b, w, q, o)
  BY <1>2, <1>3 DEF Stream
<1> QED
  BY <1>1, <1>4, Zenon

\* The frames fs at the front of the buffer are decoded.
LEMMA StreamDecode ==
    ASSUME NEW d \in Seq(Frames), NEW b \in Seq(Chunks), NEW w \in Seq(Chunks),
           NEW q \in Seq(Chunks), NEW o \in Seq(Frames),
           NEW fs \in Seq(Frames), NEW r \in Seq(Chunks), b = Cat(Encoded(fs), r)
    PROVE  Stream(d \o fs, r, w, q, o) = Stream(d, b, w, q, o)
<1>1. PICK E \in Seq(Chunks), F \in Seq(Chunks) : E = Encoded(d) /\ F = Encoded(fs)
  BY EncodedPlaces
<1>2. PICK D \in Seq(Frames) : D = d \o fs
  BY ConcatProperties, Zenon
<1>3. Encoded(d \o fs) = Encoded(d) \o Encoded(fs)
  BY EncodedConcat
<1>4. Encoded(D) = Cat(E, F)
  BY <1>1, <1>2, <1>3, Zenon DEF Cat
<1>5. Cat(Cat(E, F), r) = Cat(E, b)
  BY <1>1, CatFacts
<1>6. Stream(D, r, w, q, o) = Stream(d, b, w, q, o)
  BY <1>1, <1>4, <1>5 DEF Stream
<1> QED
  BY <1>2, <1>6, Zenon

\* A frame on its own is a sequence.
LEMMA Single ==
    ASSUME NEW f \in Frames
    PROVE  \E g \in Seq(Frames) : g = <<f>> /\ Encoded(g) = encode_frame(f)
<1>1. <<f>> \in Seq(Frames)
  OBVIOUS
<1> QED
  BY <1>1, EncodedOne, Zenon

\* The next frame of the queue becomes the write in progress.
LEMMA StreamNext ==
    ASSUME NEW d \in Seq(Frames), NEW b \in Seq(Chunks), NEW w \in Seq(Chunks),
           NEW o \in Seq(Frames), o # <<>>
    PROVE  Stream(d, b, w, encode_frame(Head(o)), Tail(o)) = Stream(d, b, w, <<>>, o)
<1>1. PICK f \in Frames, t \in Seq(Frames) : f = Head(o) /\ t = Tail(o)
  BY HeadTailProperties
<1>2. PICK g \in Seq(Frames) : g = <<f>> /\ Encoded(g) = encode_frame(f)
  BY Single
<1>3. o = <<f>> \o t
  BY <1>1
<1>4. PICK E \in Seq(Chunks), F \in Seq(Chunks), T \in Seq(Chunks) :
         E = Encoded(d) /\ F = encode_frame(f) /\ T = Encoded(t)
  BY EncodedPlaces, EncodedOne
<1>5. Encoded(g \o t) = Encoded(g) \o Encoded(t)
  BY EncodedConcat
<1>6. Encoded(o) = Cat(F, T)
  BY <1>2, <1>3, <1>4, <1>5, Zenon DEF Cat
<1>7. Cat(Cat(E, b), w) \in Seq(Chunks)
  BY CatFacts
<1>8. PICK A \in Seq(Chunks) : A = Cat(Cat(E, b), w)
  BY <1>7
<1>a. Cat(Cat(A, F), T) = Cat(A, Cat(F, T))
  BY CatFacts
<1>b. Cat(A, <<>>) = A
  BY CatFacts, Zenon
<1>9. Cat(Cat(A, F), T) = Cat(A, Cat(F, T)) /\ Cat(A, <<>>) = A
  BY <1>a, <1>b
<1>10. Stream(d, b, w, F, t) = Stream(d, b, w, <<>>, o)
  BY <1>4, <1>6, <1>8, <1>9 DEF Stream
<1> QED
  BY <1>1, <1>4, <1>10, Zenon

\* send() appends a frame to the queue and to the stream.
LEMMA StreamAccept ==
    ASSUME NEW d \in Seq(Frames), NEW b \in Seq(Chunks), NEW w \in Seq(Chunks),
           NEW q \in Seq(Chunks), NEW o \in Seq(Frames), NEW a \in Seq(Frames),
           NEW f \in Frames, Stream(d, b, w, q, o) = Encoded(a)
    PROVE  Stream(d, b, w, q, Append(o, f)) = Encoded(Append(a, f))
<1>1. PICK g \in Seq(Frames) : g = <<f>>
  BY Single
<1>2. Append(o, f) = o \o g /\ Append(a, f) = a \o g
  BY <1>1, AppendIsConcat
<1>3. PICK E \in Seq(Chunks), F \in Seq(Chunks), T \in Seq(Chunks), S \in Seq(Chunks) :
         E = Encoded(d) /\ F = Encoded(g) /\ T = Encoded(o) /\ S = Encoded(a)
  BY EncodedPlaces
<1>4. Cat(Cat(Cat(E, b), w), q) \in Seq(Chunks)
  <2>1. Cat(Cat(E, b), w) \in Seq(Chunks)
    BY CatFacts
  <2> QED
    BY <2>1, CatFacts
<1>5. Encoded(o \o g) = Encoded(o) \o Encoded(g) /\ Encoded(a \o g) = Encoded(a) \o Encoded(g)
  BY EncodedConcat
<1>6. PICK o2 \in Seq(Frames), a2 \in Seq(Frames) :
         /\ o2 = Append(o, f) /\ a2 = Append(a, f)
         /\ Encoded(o2) = Cat(T, F) /\ Encoded(a2) = Cat(S, F)
  <2>1. o \o g \in Seq(Frames) /\ a \o g \in Seq(Frames)
    BY ConcatProperties, Zenon
  <2> QED
    BY <1>2, <1>3, <1>5, <2>1, Zenon DEF Cat
<1>7. PICK A \in Seq(Chunks) : A = Cat(Cat(Cat(E, b), w), q)
  BY <1>4
<1>8. Cat(Cat(A, T), F) = Cat(A, Cat(T, F))
  BY CatFacts
<1>9. Cat(A, T) = S
  BY <1>3, <1>7 DEF Stream
<1>10. Stream(d, b, w, q, o2) = Encoded(a2)
  BY <1>3, <1>6, <1>7, <1>8, <1>9 DEF Stream
<1> QED
  BY <1>6, <1>10, Zenon

\* Places of two sequences put together.
LEMMA CatPlaces ==
    ASSUME NEW a \in Seq(Chunks), NEW b \in Seq(Chunks)
    PROVE  /\ Len(Cat(a, b)) = Len(a) + Len(b)
           /\ \A i \in 1..Len(a) : Cat(a, b)[i] = a[i]
           /\ \A i \in 1..Len(b) : Cat(a, b)[Len(a) + i] = b[i]
<1>1. PICK T \in Seq(Chunks) : T = Cat(a, b)
  BY CatFacts
<1>2. /\ Len(T) = Len(a) + Len(b)
      /\ \A i \in 1..(Len(a) + Len(b)) : T[i] = IF i <= Len(a) THEN a[i] ELSE b[i - Len(a)]
  BY <1>1, ConcatProperties, Zenon DEF Cat
<1>3. Len(a) \in Nat /\ Len(b) \in Nat
  BY LenProperties
<1>4. \A i \in 1..Len(a) : T[i] = a[i]
  BY <1>2, <1>3
<1>5. ASSUME NEW i \in 1..Len(b) PROVE T[Len(a) + i] = b[i]
  <2>1. /\ Len(a) + i \in 1..(Len(a) + Len(b)) /\ ~(Len(a) + i <= Len(a))
        /\ (Len(a) + i) - Len(a) = i
    BY <1>3
  <2> QED
    BY <1>2, <2>1, Zenon
<1> QED
  BY <1>1, <1>2, <1>4, <1>5, Zenon

\* What was decoded is the beginning of what was sent, and the buffer follows it.
LEMMA StreamFront ==
    ASSUME NEW d \in Seq(Frames), NEW b \in Seq(Chunks), NEW w \in Seq(Chunks),
           NEW q \in Seq(Chunks), NEW o \in Seq(Frames), NEW a \in Seq(Frames),
           Stream(d, b, w, q, o) = Encoded(a)
    PROVE  /\ 2 * Len(d) + Len(b) <= 2 * Len(a)
           /\ \A i \in 1..Len(d) : d[i] = a[i]
           /\ \A j \in 1..Len(b) : b[j] = Encoded(a)[2 * Len(d) + j]
<1>1. PICK E \in Seq(Chunks), S \in Seq(Chunks), T \in Seq(Chunks) :
         E = Encoded(d) /\ S = Encoded(a) /\ T = Encoded(o)
  BY EncodedPlaces
<1>2. PICK B \in Seq(Chunks) : B = Cat(E, b)
  BY CatFacts
<1>3. PICK R \in Seq(Chunks) : S = Cat(B, R)
  <2>1. PICK W \in Seq(Chunks) : W = Cat(B, w)
    BY CatFacts
  <2>2. Cat(q, T) \in Seq(Chunks)
    BY CatFacts
  <2>3. Cat(Cat(W, q), T) = Cat(W, Cat(q, T))
    BY CatFacts
  <2>4. Cat(Cat(B, w), Cat(q, T)) = Cat(B, Cat(w, Cat(q, T))) /\ Cat(w, Cat(q, T)) \in Seq(Chunks)
    BY <2>2, CatFacts
  <2>5. S = Cat(Cat(W, q), T)
    BY <1>1, <1>2, <2>1 DEF Stream
  <2> QED
    BY <2>1, <2>3, <2>4, <2>5
<1>4. /\ Len(E) = 2 * Len(d) /\ Len(S) = 2 * Len(a)
      /\ Len(d) \in Nat /\ Len(a) \in Nat /\ Len(b) \in Nat /\ Len(R) \in Nat
  BY <1>1, EncodedPlaces, LenProperties
<1>a. /\ Len(B) = Len(E) + Len(b)
      /\ \A j \in 1..Len(E) : B[j] = E[j]
      /\ \A j \in 1..Len(b) : B[Len(E) + j] = b[j]
  BY <1>2, CatPlaces, ZenonT(60)
<1>b. Len(S) = Len(B) + Len(R) /\ \A j \in 1..Len(B) : S[j] = B[j]
  BY <1>3, CatPlaces, ZenonT(60)
<1>5. Len(B) = 2 * Len(d) + Len(b) /\ Len(S) = 2 * Len(d) + Len(b) + Len(R)
  BY <1>4, <1>a, <1>b
<1>6. \A j \in 1..(2 * Len(d)) : B[j] = E[j]
  BY <1>4, <1>a, Zenon
<1>7. \A j \in 1..Len(b) : B[2 * Len(d) + j] = b[j]
  BY <1>4, <1>a, Zenon
<1>8. \A j \in 1..(2 * Len(d) + Len(b)) : S[j] = B[j]
  BY <1>5, <1>b, Zenon
<1>9. 2 * Len(d) + Len(b) <= 2 * Len(a)
  BY <1>4, <1>5
<1>10. ASSUME NEW i \in 1..Len(d) PROVE d[i] = a[i]
  <2>1. i \in 1..Len(a) /\ 2 * i \in 1..(2 * Len(d)) /\ 2 * i \in 1..(2 * Len(d) + Len(b))
    BY <1>4, <1>9
  <2>2. S[2 * i] = E[2 * i]
    BY <1>6, <1>8, <2>1
  <2>3. E[2 * i] = <<d[i], 2>> /\ S[2 * i] = <<a[i], 2>>
    BY <1>1, <2>1, EncodedPlaces
  <2> QED
    BY <2>2, <2>3
<1>11. ASSUME NEW j \in 1..Len(b) PROVE b[j] = S[2 * Len(d) + j]
  <2>1. 2 * Len(d) + j \in 1..(2 * Len(d) + Len(b))
    BY <1>4
  <2> QED
    BY <1>7, <1>8, <2>1
<1> QED
  BY <1>1, <1>9, <1>10, <1>11

\* The bytes of a buffer are those of the frames F, the last one perhaps in part.
Aligned(b, F) ==
    \A i \in 1..Len(F) : /\ 2 * i - 1 <= Len(b) => b[2 * i - 1] = <<F[i], 1>>
                         /\ 2 * i <= Len(b) => b[2 * i] = <<F[i], 2>>

\* The receive buffer of a stream holds the bytes of the frames that come next.
LEMMA BufferAligned ==
    ASSUME NEW d \in Seq(Frames), NEW b \in Seq(Chunks), NEW w \in Seq(Chunks),
           NEW q \in Seq(Chunks), NEW o \in Seq(Frames), NEW a \in Seq(Frames),
           Stream(d, b, w, q, o) = Encoded(a)
    PROVE  \E F \in Seq(Frames) : Len(b) <= 2 * Len(F) /\ Aligned(b, F)
<1>1. Len(d) \in Nat /\ Len(a) \in Nat /\ Len(b) \in Nat /\ \A i \in 1..Len(a) : a[i] \in Frames
  BY LenProperties, ElementOfSeq
<1>2. 2 * Len(d) + Len(b) <= 2 * Len(a)
  BY StreamFront
<1>3. \A j \in 1..Len(b) : b[j] = Encoded(a)[2 * Len(d) + j]
  BY StreamFront
<1>4. Len(d) <= Len(a)
  BY <1>1, <1>2
<1>5. PICK m \in Int, n \in Int : m = Len(d) + 1 /\ n = Len(a)
  BY <1>1
<1>6. \A i \in m..n : a[i] \in Frames
  BY <1>1, <1>5
<1>a. /\ SubSeq(a, m, n) \in Seq(Frames)
      /\ Len(SubSeq(a, m, n)) = IF m <= n THEN n - m + 1 ELSE 0
      /\ \A i \in 1..(n - m + 1) : SubSeq(a, m, n)[i] = a[m + i - 1]
  BY <1>6, SubSeqProperties
<1>7. PICK F \in Seq(Frames) :
         /\ Len(F) = IF m <= n THEN n - m + 1 ELSE 0
         /\ \A i \in 1..(n - m + 1) : F[i] = a[m + i - 1]
  BY <1>a, Zenon
<1>b. /\ n - m + 1 = Len(a) - Len(d) /\ (~(m <= n) => Len(a) - Len(d) = 0)
      /\ \A i \in 1..(Len(a) - Len(d)) : m + i - 1 = Len(d) + i
  BY <1>1, <1>4, <1>5
<1>8. Len(F) = Len(a) - Len(d) /\ \A i \in 1..(Len(a) - Len(d)) : F[i] = a[Len(d) + i]
  BY <1>7, <1>b, Zenon
<1>9. ASSUME NEW i \in 1..Len(F)
      PROVE  /\ 2 * i - 1 <= Len(b) => b[2 * i - 1] = <<F[i], 1>>
             /\ 2 * i <= Len(b) => b[2 * i] = <<F[i], 2>>
  <2>1. PICK k \in 1..Len(a) : k = Len(d) + i
    BY <1>1, <1>8
  <2>2. Encoded(a)[2 * k - 1] = <<a[k], 1>> /\ Encoded(a)[2 * k] = <<a[k], 2>>
    BY EncodedPlaces
  <2>3. F[i] = a[k]
    BY <1>1, <1>8, <2>1
  <2>4. 2 * Len(d) + (2 * i - 1) = 2 * k - 1 /\ 2 * Len(d) + 2 * i = 2 * k
    BY <1>1, <1>8, <2>1
  <2>5. ASSUME 2 * i - 1 <= Len(b) PROVE b[2 * i - 1] = <<F[i], 1>>
    <3>1. 2 * i - 1 \in 1..Len(b)
      BY <1>1, <1>8, <2>5
    <3> QED
      BY <1>3, <2>2, <2>3, <2>4, <3>1, Zenon
  <2>6. ASSUME 2 * i <= Len(b) PROVE b[2 * i] = <<F[i], 2>>
    <3>1. 2 * i \in 1..Len(b)
      BY <1>1, <1>8, <2>6
    <3> QED
      BY <1>3, <2>2, <2>3, <2>4, <3>1, Zenon
  <2> QED
    BY <2>5, <2>6
<1>10. Len(b) <= 2 * Len(F)
  BY <1>1, <1>2, <1>8
<1> QED
  BY <1>9, <1>10 DEF Aligned

-----------------------------------------------------------------------------
(***************************************************************************)
(* Decoding.                                                               *)
(***************************************************************************)
\* Decode takes k whole frames off the front of the buffer.
LEMMA DecodeParts ==
    ASSUME NEW b \in Seq(Chunks)
    PROVE  /\ Decode(b).refused \in BOOLEAN
           /\ \E k \in Nat : /\ 2 * k <= Len(b)
                             /\ Decode(b).frames = [i \in 1..k |-> b[2 * i][1]]
                             /\ Decode(b).rest = SubSeq(b, 2 * k + 1, Len(b))
<1> DEFINE bad == {i \in 1..Len(b) : b[i][1] \in Oversize /\ b[i][2] = 1}
           good == IF bad = {} THEN b ELSE SubSeq(b, 1, Min(bad) - 1)
           whole == Len(good) \div 2
<1>1. Len(b) \in Nat /\ \A i \in 1..Len(b) : b[i] \in Chunks
  BY LenProperties, ElementOfSeq
<1>2. /\ Len(good) \in Nat /\ Len(good) <= Len(b)
      /\ \A i \in 1..Len(good) : good[i] = b[i]
  <2>1. CASE bad = {}
    BY <1>1, <2>1
  <2>2. CASE bad # {}
    <3>1. PICK m \in bad : m = Min(bad)
      <4>1. bad \subseteq Nat
        BY <1>1
      <4>2. \E x \in bad : \A y \in bad : x <= y
        BY <2>2, <4>1, LeastElement
      <4> QED
        BY <4>2 DEF Min
    <3>2. m \in 1..Len(b)
      BY <3>1
    <3>3. good = SubSeq(b, 1, m - 1)
      BY <2>2, <3>1
    <3> HIDE DEF good, bad
    <3>4. PICK n \in Int : n = m - 1 /\ n \in Nat /\ n < Len(b)
      BY <1>1, <3>2
    <3>5. \A i \in 1..n : b[i] \in Chunks
      BY <1>1, <3>4
    <3>6. /\ Len(SubSeq(b, 1, n)) = IF 1 <= n THEN n - 1 + 1 ELSE 0
          /\ \A i \in 1..(n - 1 + 1) : SubSeq(b, 1, n)[i] = b[1 + i - 1]
      BY <3>5, SubSeqProperties
    <3>7. Len(good) = IF 1 <= n THEN n - 1 + 1 ELSE 0
      BY <3>3, <3>4, <3>6, Zenon
    <3>8. \A i \in 1..(n - 1 + 1) : good[i] = b[1 + i - 1]
      BY <3>3, <3>4, <3>6, Zenon
    <3>9. Len(good) = n
      BY <3>4, <3>7
    <3> QED
      BY <1>1, <3>4, <3>8, <3>9
  <2> QED
    BY <2>1, <2>2
<1> DEFINE fs == [i \in 1..whole |-> good[2 * i][1]]
           rest == SubSeq(b, 2 * whole + 1, Len(b))
           refused == bad # {}
<1>a. Decode(b) = [frames |-> fs, rest |-> rest, refused |-> refused]
  BY DEF Decode
<1>3. Decode(b).frames = fs /\ Decode(b).rest = rest /\ Decode(b).refused = refused
  <2> HIDE DEF fs, rest, refused
  <2> QED
    BY <1>a
<1> HIDE DEF bad, good
<1>4. PICK k \in Nat : k = whole /\ 2 * k <= Len(good) /\ 2 * k <= Len(b)
  BY <1>1, <1>2
<1> HIDE DEF whole
<1>5. \A i \in 1..k : good[2 * i] = b[2 * i]
  BY <1>2, <1>4
<1>6. [i \in 1..k |-> good[2 * i][1]] = [i \in 1..k |-> b[2 * i][1]]
  BY <1>5
<1>7. /\ Decode(b).frames = [i \in 1..whole |-> good[2 * i][1]]
      /\ Decode(b).rest = SubSeq(b, 2 * whole + 1, Len(b))
  BY <1>3, Zenon
<1>8. Decode(b).refused \in BOOLEAN
  BY <1>3, Zenon
<1> QED
  BY <1>4, <1>6, <1>7, <1>8, Zenon

\* Types of a decode.
LEMMA DecodeType ==
    ASSUME NEW b \in Seq(Chunks)
    PROVE  /\ Decode(b).frames \in Seq(Frames)
           /\ Decode(b).rest \in Seq(Chunks)
           /\ Decode(b).refused \in BOOLEAN
<1>1. Len(b) \in Nat /\ \A i \in 1..Len(b) : b[i] \in Chunks
  BY LenProperties, ElementOfSeq
<1>2. PICK k \in Nat : /\ 2 * k <= Len(b)
                       /\ Decode(b).frames = [i \in 1..k |-> b[2 * i][1]]
                       /\ Decode(b).rest = SubSeq(b, 2 * k + 1, Len(b))
  BY DecodeParts
<1>3. \A i \in 1..k : b[2 * i] \in Chunks
  BY <1>1, <1>2
<1>4. \A i \in 1..k : b[2 * i][1] \in Frames
  BY <1>3 DEF Chunks
<1>5. [i \in 1..k |-> b[2 * i][1]] \in Seq(Frames)
  BY <1>4, IsASeq
<1>6. 2 * k \in 0..Len(b)
  BY <1>1, <1>2
<1>7. SubSeq(b, 2 * k + 1, Len(b)) \in Seq(Chunks)
  BY <1>6, CutInTwo
<1>8. Decode(b).refused \in BOOLEAN
  BY DecodeParts
<1> QED
  BY <1>2, <1>5, <1>7, <1>8, Zenon

\* The first k frames of an aligned buffer are its first 2 * k chunks.
LEMMA FrontFrames ==
    ASSUME NEW b \in Seq(Chunks), NEW F \in Seq(Frames), Len(b) <= 2 * Len(F),
           Aligned(b, F), NEW k \in Nat, 2 * k <= Len(b), NEW fs \in Seq(Frames),
           Len(fs) = k, \A i \in 1..k : fs[i] = b[2 * i][1]
    PROVE  b = Cat(Encoded(fs), SubSeq(b, 2 * k + 1, Len(b)))
<1>1. Len(b) \in Nat /\ Len(F) \in Nat
  BY LenProperties
<1>2. 2 * k \in 0..Len(b)
  BY <1>1
<1>3. PICK x \in Seq(Chunks), y \in Seq(Chunks) :
         x = SubSeq(b, 1, 2 * k) /\ y = SubSeq(b, 2 * k + 1, Len(b)) /\ b = Cat(x, y)
  BY <1>2, CutInTwo, ZenonT(60) DEF Cat
<1>4. PICK n \in Int : n = 2 * k
  OBVIOUS
<1>5. \A i \in 1..n : b[i] \in Chunks
  BY <1>2, <1>4, ElementOfSeq
<1>6. /\ Len(SubSeq(b, 1, n)) = IF 1 <= n THEN n - 1 + 1 ELSE 0
      /\ \A i \in 1..(n - 1 + 1) : SubSeq(b, 1, n)[i] = b[1 + i - 1]
  BY <1>5, SubSeqProperties
<1>7. Len(x) = IF 1 <= n THEN n - 1 + 1 ELSE 0
  BY <1>3, <1>4, <1>6, Zenon
<1>8. \A i \in 1..(n - 1 + 1) : x[i] = b[1 + i - 1]
  BY <1>3, <1>4, <1>6, Zenon
<1>9. Len(x) = 2 * k
  BY <1>4, <1>7
<1>10. \A i \in 1..(2 * k) : x[i] = b[i]
  BY <1>4, <1>8
<1>11. PICK E \in Seq(Chunks) : E = Encoded(fs) /\ Len(E) = 2 * Len(fs)
  BY EncodedPlaces, Zenon
<1>12. \A i \in 1..k : E[2 * i - 1] = <<fs[i], 1>> /\ E[2 * i] = <<fs[i], 2>>
  BY <1>11, EncodedPlaces
<1>13. ASSUME NEW i \in 1..k
       PROVE  E[2 * i - 1] = x[2 * i - 1] /\ E[2 * i] = x[2 * i]
  <2>1. i \in 1..Len(F) /\ 2 * i - 1 <= Len(b) /\ 2 * i <= Len(b)
    BY <1>1
  <2>2. b[2 * i - 1] = <<F[i], 1>> /\ b[2 * i] = <<F[i], 2>>
    BY <2>1 DEF Aligned
  <2>3. fs[i] = F[i]
    BY <2>2
  <2>4. x[2 * i - 1] = b[2 * i - 1] /\ x[2 * i] = b[2 * i]
    BY <1>10
  <2> QED
    BY <1>12, <2>2, <2>3, <2>4
<1>14. Len(E) = 2 * k
  BY <1>11
<1>15. E = x
  BY <1>9, <1>13, <1>14, SameBytes
<1> QED
  BY <1>3, <1>11, <1>15, Zenon

\* A decode of an aligned buffer splits it.
LEMMA DecodeSplits ==
    ASSUME NEW b \in Seq(Chunks), NEW F \in Seq(Frames), Len(b) <= 2 * Len(F), Aligned(b, F)
    PROVE  b = Cat(Encoded(Decode(b).frames), Decode(b).rest)
<1>1. PICK k \in Nat : /\ 2 * k <= Len(b)
                       /\ Decode(b).frames = [i \in 1..k |-> b[2 * i][1]]
                       /\ Decode(b).rest = SubSeq(b, 2 * k + 1, Len(b))
  BY DecodeParts
<1>2. PICK fs \in Seq(Frames) : fs = Decode(b).frames
  BY DecodeType
<1>3. fs = [i \in 1..k |-> b[2 * i][1]]
  BY <1>1, <1>2
<1>4. Len(fs) = k /\ \A i \in 1..k : fs[i] = b[2 * i][1]
  BY <1>3
<1>5. b = Cat(Encoded(fs), SubSeq(b, 2 * k + 1, Len(b)))
  BY <1>1, <1>4, FrontFrames
<1> QED
  BY <1>1, <1>2, <1>5, Zenon

\* So does taking only the first frame.
LEMMA DecodeFirst ==
    ASSUME NEW b \in Seq(Chunks), NEW F \in Seq(Frames), Len(b) <= 2 * Len(F), Aligned(b, F),
           Decode(b).frames # <<>>
    PROVE  b = Cat(Encoded(<<Head(Decode(b).frames)>>), SubSeq(b, 3, Len(b)))
<1>1. PICK k \in Nat : /\ 2 * k <= Len(b)
                       /\ Decode(b).frames = [i \in 1..k |-> b[2 * i][1]]
                       /\ Decode(b).rest = SubSeq(b, 2 * k + 1, Len(b))
  BY DecodeParts
<1>2. PICK fs \in Seq(Frames) : fs = Decode(b).frames /\ fs # <<>>
  BY DecodeType
<1>3. fs = [i \in 1..k |-> b[2 * i][1]]
  BY <1>1, <1>2
<1>4. k >= 1 /\ Head(fs) = b[2 * 1][1] /\ Head(fs) \in Frames
  <2>1. Len(fs) = k /\ \A i \in 1..k : fs[i] = b[2 * i][1]
    BY <1>3
  <2>2. k # 0
    BY <1>2, <2>1
  <2>3. Head(fs) = fs[1]
    OBVIOUS
  <2>4. Head(fs) \in Frames
    BY <1>2, HeadTailProperties
  <2> QED
    BY <2>1, <2>2, <2>3, <2>4
<1>5. PICK g \in Seq(Frames) : g = <<Head(fs)>>
  BY <1>4, Single
<1>6. Len(g) = 1 /\ g[1] = b[2 * 1][1]
  BY <1>4, <1>5
<1>7. Len(g) = 1 /\ \A i \in 1..1 : g[i] = b[2 * i][1]
  BY <1>6
<1>8. 2 * 1 <= Len(b) /\ 2 * 1 + 1 = 3 /\ 1 \in Nat
  <2>1. Len(b) \in Nat
    BY LenProperties
  <2> QED
    BY <1>1, <1>4, <2>1
<1>9. b = Cat(Encoded(g), SubSeq(b, 2 * 1 + 1, Len(b)))
  BY <1>7, <1>8, FrontFrames
<1> QED
  BY <1>2, <1>5, <1>8, <1>9, Zenon

-----------------------------------------------------------------------------
(***************************************************************************)
(* Parts of the state, and what the helpers of the actions do to them.     *)
(***************************************************************************)
Sessions == [outbound : Seq(Frames), pending : Seq(Chunks),
             buffer : Seq(Chunks), inbound : Seq(Frames),
             closed : BOOLEAN, stop_requested : BOOLEAN,
             reason : Reasons, counted : BOOLEAN,
             stuck : BOOLEAN, attached : BOOLEAN]

Nets == [events : SUBSET {"read", "write", "close"},
         wake : BOOLEAN, blocked : BOOLEAN, fin : BOOLEAN]

LEMMA PeerFacts ==
    ASSUME NEW e \in Ends
    PROVE  /\ Peer(e) \in Ends /\ Peer(e) # e /\ Peer(Peer(e)) = e
           /\ \A x \in Ends : x = e \/ x = Peer(e)
<1>1. Peer("client") = "server" /\ Peer("server") = "client"
  <2>1. \E p \in Ends : p # "client"
    BY DEF Ends
  <2>2. \E p \in Ends : p # "server"
    BY DEF Ends
  <2>3. Peer("client") \in Ends /\ Peer("client") # "client"
    BY <2>1 DEF Peer
  <2>4. Peer("server") \in Ends /\ Peer("server") # "server"
    BY <2>2 DEF Peer
  <2> QED
    BY <2>3, <2>4 DEF Ends
<1> QED
  BY <1>1 DEF Ends

\* mark_closed on a session.
LEMMA MarkClosedFacts ==
    ASSUME NEW st \in Sessions, NEW r \in Reasons
    PROVE  /\ MarkClosed(st, r) \in Sessions
           /\ MarkClosed(st, r).closed
           /\ MarkClosed(st, r).outbound = st.outbound
           /\ MarkClosed(st, r).pending = st.pending
           /\ MarkClosed(st, r).buffer = st.buffer
           /\ MarkClosed(st, r).inbound = st.inbound
           /\ MarkClosed(st, r).stuck = st.stuck
           /\ st.closed => MarkClosed(st, r) = st
           /\ ~st.closed => ~MarkClosed(st, r).counted
  BY DEF MarkClosed, Sessions

\* The socket of an end is released: its peer sees the end of the stream.
LEMMA ReleaseFacts ==
    ASSUME NEW net \in [Ends -> Nets], NEW e \in Ends
    PROVE  /\ release_socket(e, net) \in [Ends -> Nets]
           /\ release_socket(e, net)[e] = net[e]
<1>1. Peer(e) \in Ends /\ Peer(e) # e
  BY PeerFacts
<1>2. PICK p \in Ends : p = Peer(e) /\ p # e
  BY <1>1
<1>3. net[p] \in Nets
  OBVIOUS
<1>4. (net[p].events \cup {"close"}) \in SUBSET {"read", "write", "close"}
  BY <1>3 DEF Nets
<1>5. [net EXCEPT ![p].fin = TRUE, ![p].events = @ \cup {"close"}] \in [Ends -> Nets]
  BY <1>3, <1>4 DEF Nets
<1>6. [net EXCEPT ![p].fin = TRUE, ![p].events = @ \cup {"close"}][e] = net[e]
  BY <1>2
<1> QED
  BY <1>2, <1>5, <1>6 DEF release_socket

\* Reading makes room; nobody is told that a socket is gone.
LEMMA DrainedFacts ==
    ASSUME sock \in [Ends -> Nets], NEW e \in Ends, NEW rest
    PROVE  /\ Drained(e, rest) \in [Ends -> Nets]
           /\ \A x \in Ends : Drained(e, rest)[x].fin = sock[x].fin
<1>1. PICK p \in Ends : p = Peer(e) /\ p # e
  BY PeerFacts
<1>2. PICK v \in SUBSET {"read", "write", "close"} :
         v = IF sock[p].blocked THEN sock[p].events \cup {"write"} ELSE sock[p].events
  BY DEF Nets
<1>a. /\ [sock EXCEPT ![p].events = v, ![p].blocked = FALSE] \in [Ends -> Nets]
      /\ \A x \in Ends : [sock EXCEPT ![p].events = v, ![p].blocked = FALSE][x].fin
                           = sock[x].fin
  BY DEF Nets
<1>b. [sock EXCEPT ![p].events = v, ![p].blocked = FALSE]
        = [sock EXCEPT ![p].events = IF sock[p].blocked THEN @ \cup {"write"} ELSE @,
                       ![p].blocked = FALSE]
  BY <1>2
<1>3. PICK net \in [Ends -> Nets] :
         /\ net = [sock EXCEPT ![p].events = IF sock[p].blocked THEN @ \cup {"write"} ELSE @,
                               ![p].blocked = FALSE]
         /\ \A x \in Ends : net[x].fin = sock[x].fin
  BY <1>a, <1>b, Zenon
<1>4. PICK u \in SUBSET {"read", "write", "close"} :
         u = IF rest = <<>> THEN net[e].events ELSE net[e].events \cup {"read"}
  BY DEF Nets
<1>5. Drained(e, rest) = [net EXCEPT ![e].events = IF rest = <<>> THEN @ ELSE @ \cup {"read"}]
  BY <1>1, <1>3 DEF Drained
<1>6. Drained(e, rest) = [net EXCEPT ![e].events = u]
  BY <1>4, <1>5
<1> QED
  BY <1>3, <1>6 DEF Nets

\* The next write of a session leaves its stream what it was.
LEMMA NextWriteFacts ==
    ASSUME NEW st \in Sessions
    PROVE  /\ NextWrite(st) \in Sessions
           /\ NextWrite(st).buffer = st.buffer
           /\ NextWrite(st).inbound = st.inbound
           /\ NextWrite(st).stuck = st.stuck
           /\ NextWrite(st).closed = st.closed
           /\ NextWrite(st).reason = st.reason
           /\ NextWrite(st).counted = st.counted
           /\ \A d \in Seq(Frames), b \in Seq(Chunks), w \in Seq(Chunks) :
                 Stream(d, b, w, NextWrite(st).pending, NextWrite(st).outbound)
                   = Stream(d, b, w, st.pending, st.outbound)
<1>1. CASE ~(st.pending = <<>> /\ st.outbound # <<>>)
  BY <1>1 DEF NextWrite
<1>2. CASE st.pending = <<>> /\ st.outbound # <<>>
  <2>1. PICK o \in Seq(Frames) : o = st.outbound
    BY DEF Sessions
  <2>2. Head(o) \in Frames /\ Tail(o) \in Seq(Frames)
    BY <1>2, <2>1, HeadTailProperties
  <2>3. PICK f \in Seq(Chunks), t \in Seq(Frames) : f = encode_frame(Head(o)) /\ t = Tail(o)
    BY <2>2, EncodedOne
  <2>4. NextWrite(st) = [st EXCEPT !.pending = f, !.outbound = t]
    BY <1>2, <2>1, <2>3 DEF NextWrite
  <2>5. /\ NextWrite(st) \in Sessions
        /\ NextWrite(st).pending = f /\ NextWrite(st).outbound = t
        /\ NextWrite(st).buffer = st.buffer
        /\ NextWrite(st).inbound = st.inbound
        /\ NextWrite(st).stuck = st.stuck
        /\ NextWrite(st).closed = st.closed
        /\ NextWrite(st).reason = st.reason
        /\ NextWrite(st).counted = st.counted
    BY <2>4 DEF Sessions
  <2>6. ASSUME NEW d \in Seq(Frames), NEW b \in Seq(Chunks), NEW w \in Seq(Chunks)
        PROVE  Stream(d, b, w, f, t) = Stream(d, b, w, <<>>, o)
    <3>1. o # <<>>
      BY <1>2, <2>1
    <3> QED
      BY <2>3, <3>1, StreamNext, ZenonT(60)
  <2>7. /\ NextWrite(st).pending = f /\ NextWrite(st).outbound = t
        /\ st.pending = <<>> /\ st.outbound = o
    BY <1>2, <2>1, <2>5
  <2>8. \A d \in Seq(Frames), b \in Seq(Chunks), w \in Seq(Chunks) :
           Stream(d, b, w, NextWrite(st).pending, NextWrite(st).outbound)
             = Stream(d, b, w, st.pending, st.outbound)
    BY <2>6, <2>7
  <2> QED
    BY <2>5, <2>8
<1> QED
  BY <1>1, <1>2

-----------------------------------------------------------------------------
(***************************************************************************)
(* The invariant.  An end is live while its session thread still reads.    *)
(***************************************************************************)
Join(a, b) == a \o b
Got(p) == Join(received[p], s[p].inbound)
Live(p) == worker[p] # "end" /\ ~s[p].stuck
Carried(e) == Stream(Got(Peer(e)), s[Peer(e)].buffer, wire[Peer(e)],
                     s[e].pending, s[e].outbound)
Intact(e) == Carried(e) = Encoded(accepted[e])
Begins(d, a) == Len(d) <= Len(a) /\ \A i \in 1..Len(d) : d[i] = a[i]

\* As long as the far end reads, everything accepted is on its way or delivered.
StreamInv == \A e \in Ends : Live(Peer(e)) => Intact(e)

\* What was delivered is the beginning of what was accepted, also after an end.
OrderInv == \A e \in Ends : Begins(Got(e), accepted[Peer(e)])

\* A socket is released only by a session thread that ends, and that closes the session.
EndInv == \A e \in Ends : /\ sock[e].fin => worker[Peer(e)] = "end"
                          /\ worker[e] = "end" => s[e].closed

\* A closed session has given its slot back, unless its queue overflowed.
SlotInv == \A e \in Ends :
              /\ closer[e] = "done" => s[e].closed
              /\ s[e].closed /\ s[e].reason # "RESOURCE_LIMIT" => ~s[e].counted

TransportInv == TypeOK /\ StreamInv /\ OrderInv /\ EndInv /\ SlotInv

TypeParts ==
    /\ platform \in Platforms
    /\ s \in [Ends -> Sessions] /\ wire \in [Ends -> Seq(Chunks)] /\ sock \in [Ends -> Nets]
    /\ worker \in [Ends -> {"wait", "drain", "recv", "decode", "end"}]
    /\ reader \in [Ends -> {"idle", "receive", "ended", "crashed"}]
    /\ closer \in [Ends -> {"no", "join", "done"}]
    /\ offered \in [Ends -> Nat]
    /\ accepted \in [Ends -> Seq(Frames)] /\ received \in [Ends -> Seq(Frames)]

LEMMA TypeByParts == TypeOK <=> TypeParts
  BY DEF TypeOK, TypeParts, Sessions, Nets

\* Frames joined.
LEMMA JoinFacts ==
    ASSUME NEW a \in Seq(Frames), NEW b \in Seq(Frames), NEW c \in Seq(Frames)
    PROVE  /\ Join(a, b) \in Seq(Frames)
           /\ Join(Join(a, b), c) = Join(a, Join(b, c))
<1>1. Join(a, b) \in Seq(Frames)
  BY ConcatProperties, Zenon DEF Join
<1>2. (a \o b) \o c = a \o (b \o c)
  BY ConcatAssociative
<1> QED
  BY <1>1, <1>2, Zenon DEF Join

\* The reader takes the first frame of the queue.
LEMMA JoinTaken ==
    ASSUME NEW a \in Seq(Frames), NEW b \in Seq(Frames), b # <<>>
    PROVE  Join(Append(a, Head(b)), Tail(b)) = Join(a, b)
<1>1. PICK f \in Frames, t \in Seq(Frames) : f = Head(b) /\ t = Tail(b)
  BY HeadTailProperties
<1>2. PICK g \in Seq(Frames) : g = <<f>>
  BY Single
<1>3. b = <<f>> \o t
  BY <1>1
<1>4. Append(a, f) = a \o g
  BY <1>2, AppendIsConcat
<1>5. Join(Join(a, g), t) = Join(a, Join(g, t))
  BY JoinFacts
<1> QED
  BY <1>1, <1>2, <1>3, <1>4, <1>5, Zenon DEF Join

\* A sequence that begins another still begins it when that one grows.
LEMMA BeginsGrows ==
    ASSUME NEW d \in Seq(Frames), NEW a \in Seq(Frames), NEW f \in Frames, Begins(d, a)
    PROVE  Begins(d, Append(a, f))
<1>1. Len(d) \in Nat /\ Len(a) \in Nat
  BY LenProperties
<1>2. Len(Append(a, f)) = Len(a) + 1 /\ \A i \in 1..Len(a) : Append(a, f)[i] = a[i]
  BY AppendProperties
<1>3. Len(d) <= Len(a) /\ \A i \in 1..Len(d) : d[i] = a[i]
  BY DEF Begins
<1> QED
  BY <1>1, <1>2, <1>3 DEF Begins

\* Begins is IsPrefix.
LEMMA BeginsIsPrefix ==
    ASSUME NEW d \in Seq(Frames), NEW a \in Seq(Frames), Begins(d, a)
    PROVE  IsPrefix(d, a)
<1>1. Len(d) \in Nat /\ Len(a) \in Nat /\ Len(d) <= Len(a)
      /\ \A i \in 1..Len(d) : d[i] = a[i] /\ d[i] \in Frames /\ a[i] \in Frames
  BY LenProperties, ElementOfSeq DEF Begins
<1>2. PICK n \in Int : n = Len(d) /\ n \in Nat
  BY <1>1
<1>3. \A i \in 1..n : d[i] \in Frames /\ a[i] \in Frames /\ d[i] = a[i]
  BY <1>1, <1>2
<1>4. /\ SubSeq(d, 1, n) \in Seq(Frames)
      /\ Len(SubSeq(d, 1, n)) = IF 1 <= n THEN n - 1 + 1 ELSE 0
      /\ \A i \in 1..(n - 1 + 1) : SubSeq(d, 1, n)[i] = d[1 + i - 1]
  BY <1>3, SubSeqProperties
<1>5. /\ SubSeq(a, 1, n) \in Seq(Frames)
      /\ Len(SubSeq(a, 1, n)) = IF 1 <= n THEN n - 1 + 1 ELSE 0
      /\ \A i \in 1..(n - 1 + 1) : SubSeq(a, 1, n)[i] = a[1 + i - 1]
  BY <1>3, SubSeqProperties
<1>6. PICK x \in Seq(Frames), y \in Seq(Frames) :
         /\ x = SubSeq(d, 1, n) /\ y = SubSeq(a, 1, n)
         /\ Len(x) = IF 1 <= n THEN n - 1 + 1 ELSE 0
         /\ Len(y) = IF 1 <= n THEN n - 1 + 1 ELSE 0
         /\ \A i \in 1..(n - 1 + 1) : x[i] = d[1 + i - 1] /\ y[i] = a[1 + i - 1]
  BY <1>4, <1>5, Zenon
<1>7. /\ Len(x) = IF 1 <= n THEN n - 1 + 1 ELSE 0
      /\ Len(y) = IF 1 <= n THEN n - 1 + 1 ELSE 0
      /\ \A i \in 1..(n - 1 + 1) : x[i] = d[1 + i - 1] /\ y[i] = a[1 + i - 1]
  BY <1>6, Zenon
<1>8. Len(x) = n /\ Len(y) = n /\ \A i \in 1..n : x[i] = y[i]
  BY <1>2, <1>3, <1>7
<1>9. x = y
  BY <1>8, SeqEqual
<1> QED
  BY <1>1, <1>2, <1>6, <1>9, Zenon DEF IsPrefix

\* k frames move from the front of the buffer to the queue.
LEMMA StreamQueue ==
    ASSUME NEW r \in Seq(Frames), NEW n \in Seq(Frames),
           NEW w \in Seq(Chunks), NEW q \in Seq(Chunks), NEW o \in Seq(Frames),
           NEW fs \in Seq(Frames), NEW rest \in Seq(Chunks)
    PROVE  Stream(Join(r, Join(n, fs)), rest, w, q, o)
             = Stream(Join(r, n), Cat(Encoded(fs), rest), w, q, o)
<1>a. PICK b \in Seq(Chunks) : b = Cat(Encoded(fs), rest)
  BY EncodedPlaces, CatFacts
<1>1. PICK d \in Seq(Frames) : d = Join(r, n)
  BY JoinFacts
<1>2. Join(d, fs) = Join(r, Join(n, fs))
  BY <1>1, JoinFacts
<1>3. Stream(d \o fs, rest, w, q, o) = Stream(d, b, w, q, o)
  BY <1>a, StreamDecode
<1>4. Stream(Join(d, fs), rest, w, q, o) = Stream(d, b, w, q, o)
  BY <1>3, Zenon DEF Join
<1> QED
  BY <1>1, <1>2, <1>4, <1>a

\* What a stream begins with was accepted first.
LEMMA StreamBegins ==
    ASSUME NEW d \in Seq(Frames), NEW b \in Seq(Chunks), NEW w \in Seq(Chunks),
           NEW q \in Seq(Chunks), NEW o \in Seq(Frames), NEW a \in Seq(Frames),
           Stream(d, b, w, q, o) = Encoded(a)
    PROVE  Begins(d, a)
<1>1. 2 * Len(d) + Len(b) <= 2 * Len(a) /\ \A i \in 1..Len(d) : d[i] = a[i]
  BY StreamFront
<1>2. Len(d) \in Nat /\ Len(b) \in Nat /\ Len(a) \in Nat
  BY LenProperties
<1> QED
  BY <1>1, <1>2 DEF Begins

-----------------------------------------------------------------------------
(***************************************************************************)
(* What a step of the end x keeps: the stream it sends, the stream it      *)
(* reads, the order of what it delivers, and what its closing means.       *)
(***************************************************************************)
Outgoing(x) == Live(Peer(x)) /\ Intact(x) => Intact(x)'
Incoming(x) == Live(x) /\ Intact(Peer(x)) /\ Live(x)' => Intact(Peer(x))'
Ordered(x) == (Live(x) => Intact(Peer(x))) /\ Begins(Got(x), accepted[Peer(x)])
                 => Begins(Got(x), accepted[Peer(x)])'

OtherEndKept(x) ==
    /\ s'[Peer(x)] = s[Peer(x)] /\ worker'[Peer(x)] = worker[Peer(x)]
    /\ closer'[Peer(x)] = closer[Peer(x)] /\ received'[Peer(x)] = received[Peer(x)]
    /\ accepted'[Peer(x)] = accepted[Peer(x)]

ClosingKept(x) ==
    /\ worker[x] = "end" => worker'[x] = "end"
    /\ s[x].stuck => s'[x].stuck
    /\ worker'[x] = "end" => s'[x].closed
    /\ sock'[x].fin => sock[x].fin
    /\ sock'[Peer(x)].fin => sock[Peer(x)].fin \/ worker'[x] = "end"
    /\ closer'[x] = "done" => s'[x].closed
    /\ s'[x].closed /\ s'[x].reason # "RESOURCE_LIMIT" => ~s'[x].counted

AcceptedGrows(x) ==
    accepted'[x] = accepted[x] \/ \E f \in Frames : accepted'[x] = Append(accepted[x], f)

StepOf(x) ==
    /\ TypeParts' /\ OtherEndKept(x) /\ AcceptedGrows(x)
    /\ Outgoing(x) /\ Incoming(x) /\ Ordered(x) /\ ClosingKept(x)

LEMMA StepKeepsInv ==
    ASSUME TransportInv, NEW x \in Ends, StepOf(x)
    PROVE  TransportInv'
<1>1. PICK p \in Ends : p = Peer(x) /\ p # x /\ Peer(p) = x /\ \A e \in Ends : e = x \/ e = p
  BY PeerFacts
<1>2. TypeOK' /\ TypeOK
  BY DEF StepOf, TransportInv, TypeParts, TypeOK, Sessions, Nets
<1>3. /\ s'[p] = s[p] /\ worker'[p] = worker[p] /\ closer'[p] = closer[p]
      /\ received'[p] = received[p] /\ accepted'[p] = accepted[p]
  BY <1>1 DEF StepOf, OtherEndKept
<1>4. ClosingKept(x)
  BY DEF StepOf
<1>5. (Live(p)' <=> Live(p)) /\ (Live(x)' => Live(x)) /\ Got(p)' = Got(p)
  BY <1>3, <1>4 DEF Live, Got, ClosingKept
<1>6. (Live(p) => Intact(x)) /\ (Live(x) => Intact(p))
  BY <1>1 DEF TransportInv, StreamInv
<1>7. (Live(p)' => Intact(x)') /\ (Live(x)' => Intact(p)')
  BY <1>1, <1>5, <1>6 DEF StepOf, Outgoing, Incoming
<1>8. StreamInv'
  BY <1>1, <1>7 DEF StreamInv
<1>9. Begins(Got(x), accepted[p]) /\ Begins(Got(p), accepted[x])
  BY <1>1 DEF TransportInv, OrderInv
<1>10. Begins(Got(x), accepted[p])'
  BY <1>1, <1>6, <1>9 DEF StepOf, Ordered
<1>11. Begins(Got(p), accepted[x])'
  <2>1. received[p] \in Seq(Frames) /\ s[p].inbound \in Seq(Frames) /\ accepted[x] \in Seq(Frames)
    BY <1>2, TypeByParts DEF TypeParts, Sessions
  <2>2. PICK d \in Seq(Frames), a \in Seq(Frames) : d = Got(p) /\ a = accepted[x]
    BY <2>1, JoinFacts DEF Got
  <2>3. Begins(d, a) /\ \A f \in Frames : Begins(d, Append(a, f))
    BY <1>9, <2>2, BeginsGrows
  <2>4. accepted'[x] = a \/ \E f \in Frames : accepted'[x] = Append(a, f)
    BY <2>2 DEF StepOf, AcceptedGrows
  <2>5. Begins(d, accepted'[x])
    BY <2>3, <2>4
  <2>6. Begins(Got(p)', accepted'[x])
    BY <1>5, <2>2, <2>5
  <2> QED
    BY <2>6
<1>12. OrderInv'
  BY <1>1, <1>10, <1>11 DEF OrderInv
<1>13. /\ sock[x].fin => worker[p] = "end"
       /\ sock[p].fin => worker[x] = "end"
       /\ worker[p] = "end" => s[p].closed
  BY <1>1 DEF TransportInv, EndInv
<1>14. /\ (sock'[x].fin => worker'[p] = "end") /\ (sock'[p].fin => worker'[x] = "end")
       /\ (worker'[p] = "end" => s'[p].closed) /\ (worker'[x] = "end" => s'[x].closed)
  BY <1>1, <1>3, <1>4, <1>13 DEF ClosingKept
<1>15. EndInv'
  BY <1>1, <1>14 DEF EndInv
<1>16. /\ closer[p] = "done" => s[p].closed
       /\ s[p].closed /\ s[p].reason # "RESOURCE_LIMIT" => ~s[p].counted
  BY DEF TransportInv, SlotInv
<1>17. SlotInv'
  BY <1>1, <1>3, <1>4, <1>16 DEF SlotInv, ClosingKept
<1> QED
  BY <1>2, <1>8, <1>12, <1>15, <1>17 DEF TransportInv

\* A step that sends nothing leaves the outgoing stream alone.
LEMMA OutgoingSame ==
    ASSUME NEW x \in Ends, OtherEndKept(x), wire'[Peer(x)] = wire[Peer(x)],
           s'[x].pending = s[x].pending, s'[x].outbound = s[x].outbound,
           accepted'[x] = accepted[x]
    PROVE  Outgoing(x) /\ AcceptedGrows(x)
  BY DEF OtherEndKept, Outgoing, AcceptedGrows, Intact, Carried, Got

\* A step that reads nothing, or after which nobody reads, leaves the incoming one.
LEMMA IncomingSame ==
    ASSUME NEW x \in Ends, OtherEndKept(x),
           s'[x].inbound = s[x].inbound, received'[x] = received[x],
           Live(x)' => s'[x].buffer = s[x].buffer /\ wire'[x] = wire[x]
    PROVE  Incoming(x) /\ Ordered(x)
<1>1. Peer(Peer(x)) = x
  BY PeerFacts
<1>2. Got(x)' = Got(x)
  BY DEF Got
<1>3. Ordered(x)
  BY <1>2 DEF Ordered, OtherEndKept, Begins
<1>4. Incoming(x)
  BY <1>1, <1>2 DEF OtherEndKept, Incoming, Intact, Carried
<1> QED
  BY <1>3, <1>4

-----------------------------------------------------------------------------
(***************************************************************************)
(* The program's side.                                                     *)
(***************************************************************************)
\* Types and closing of an end before a step.
LEMMA Before ==
    ASSUME TransportInv, NEW x \in Ends
    PROVE  /\ TypeParts
           /\ Peer(x) \in Ends /\ Peer(x) # x /\ Peer(Peer(x)) = x
           /\ s[x] \in Sessions /\ s[Peer(x)] \in Sessions
           /\ worker[x] = "end" => s[x].closed
           /\ sock[x].fin => worker[Peer(x)] = "end"
           /\ closer[x] = "done" => s[x].closed
           /\ s[x].closed /\ s[x].reason # "RESOURCE_LIMIT" => ~s[x].counted
<1>1. TypeParts
  BY TypeByParts DEF TransportInv
<1>2. Peer(x) \in Ends /\ Peer(x) # x /\ Peer(Peer(x)) = x
  BY PeerFacts
<1>3. s[x] \in Sessions /\ s[Peer(x)] \in Sessions
  BY <1>1, <1>2 DEF TypeParts
<1>4. /\ worker[x] = "end" => s[x].closed
      /\ sock[x].fin => worker[Peer(x)] = "end"
  BY DEF TransportInv, EndInv
<1>5. /\ closer[x] = "done" => s[x].closed
      /\ s[x].closed /\ s[x].reason # "RESOURCE_LIMIT" => ~s[x].counted
  BY DEF TransportInv, SlotInv
<1> QED
  BY <1>1, <1>2, <1>3, <1>4, <1>5

LEMMA SendStep ==
    ASSUME TransportInv, NEW x \in Ends, send(x)
    PROVE  StepOf(x)
<1>1. PICK p \in Ends : p = Peer(x) /\ p # x /\ Peer(p) = x
  BY PeerFacts
<1>2. /\ TypeParts /\ s[x] \in Sessions
      /\ worker[x] = "end" => s[x].closed
      /\ closer[x] = "done" => s[x].closed
      /\ s[x].closed /\ s[x].reason # "RESOURCE_LIMIT" => ~s[x].counted
  BY Before
<1>3. PICK f \in Frames : f = offered[x] + 1
  BY <1>2, TransportAssumption DEF TypeParts, send, Frames
<1>4. /\ offered' = [offered EXCEPT ![x] = @ + 1]
      /\ UNCHANGED <<platform, wire, worker, reader, closer, received>>
  BY DEF send
<1>5. CASE UNCHANGED <<s, sock, accepted>>
  <2>1. TypeParts'
    BY <1>2, <1>4, <1>5 DEF TypeParts
  <2>2. OtherEndKept(x)
    BY <1>4, <1>5 DEF OtherEndKept
  <2>3. ClosingKept(x)
    BY <1>2, <1>4, <1>5 DEF ClosingKept
  <2>4. Outgoing(x) /\ AcceptedGrows(x)
    BY <1>4, <1>5, <2>2, OutgoingSame
  <2>5. Incoming(x) /\ Ordered(x)
    BY <1>4, <1>5, <2>2, IncomingSame
  <2> QED
    BY <2>1, <2>2, <2>3, <2>4, <2>5 DEF StepOf
<1>6. CASE /\ s' = [s EXCEPT ![x].outbound = Append(@, f)]
           /\ sock' = [sock EXCEPT ![x].wake = TRUE]
           /\ accepted' = [accepted EXCEPT ![x] = Append(@, f)]
  <2>1. PICK o \in Seq(Frames), a \in Seq(Frames) :
           o = Append(s[x].outbound, f) /\ a = Append(accepted[x], f)
    BY <1>2, AppendProperties DEF TypeParts, Sessions
  <2>2. /\ s' = [s EXCEPT ![x].outbound = o] /\ accepted' = [accepted EXCEPT ![x] = a]
    BY <1>6, <2>1
  <2>3. /\ s' \in [Ends -> Sessions] /\ s'[p] = s[p]
        /\ s'[x] = [s[x] EXCEPT !.outbound = o]
    BY <1>1, <1>2, <2>2 DEF TypeParts, Sessions
  <2>a. sock \in [Ends -> Nets] /\ sock' = [sock EXCEPT ![x].wake = TRUE]
    BY <1>2, <1>6 DEF TypeParts
  <2>4. sock' \in [Ends -> Nets] /\ sock'[x].fin = sock[x].fin /\ sock'[p] = sock[p]
    BY <1>1, <2>a DEF Nets
  <2>5. accepted' \in [Ends -> Seq(Frames)] /\ accepted'[x] = a /\ accepted'[p] = accepted[p]
    BY <1>1, <1>2, <2>2 DEF TypeParts
  <2>6. offered' \in [Ends -> Nat]
    BY <1>2, <1>4 DEF TypeParts
  <2>7. TypeParts'
    BY <1>2, <1>4, <2>3, <2>4, <2>5, <2>6 DEF TypeParts
  <2>8. /\ s'[x].outbound = o /\ s'[x].pending = s[x].pending /\ s'[x].buffer = s[x].buffer
        /\ s'[x].inbound = s[x].inbound /\ s'[x].closed = s[x].closed
        /\ s'[x].stuck = s[x].stuck /\ s'[x].reason = s[x].reason
        /\ s'[x].counted = s[x].counted
    BY <1>2, <2>3 DEF Sessions
  <2>9. OtherEndKept(x)
    BY <1>1, <1>4, <2>3, <2>5 DEF OtherEndKept
  <2>10. ClosingKept(x)
    BY <1>1, <1>2, <1>4, <2>4, <2>8 DEF ClosingKept
  <2>11. Incoming(x) /\ Ordered(x)
    BY <1>4, <2>8, <2>9, IncomingSame
  <2>12. AcceptedGrows(x)
    BY <2>1, <2>5 DEF AcceptedGrows
  <2>13. Outgoing(x)
    <3>1. SUFFICES ASSUME Intact(x) PROVE Intact(x)'
      BY DEF Outgoing
    <3>2. received[p] \in Seq(Frames) /\ s[p] \in Sessions /\ wire[p] \in Seq(Chunks)
          /\ accepted[x] \in Seq(Frames)
      BY <1>2 DEF TypeParts
    <3>3. s[p].inbound \in Seq(Frames) /\ s[p].buffer \in Seq(Chunks)
          /\ s[x].pending \in Seq(Chunks) /\ s[x].outbound \in Seq(Frames)
      BY <1>2, <3>2 DEF Sessions
    <3>4. Got(p) \in Seq(Frames)
      BY <3>2, <3>3, JoinFacts DEF Got
    <3>5. Stream(Got(p), s[p].buffer, wire[p], s[x].pending, s[x].outbound) = Encoded(accepted[x])
      BY <1>1, <3>1 DEF Intact, Carried
    <3>6. Stream(Got(p), s[p].buffer, wire[p], s[x].pending, Append(s[x].outbound, f))
            = Encoded(Append(accepted[x], f))
      BY <3>2, <3>3, <3>4, <3>5, StreamAccept, SMTT(60)
    <3>7. Got(p)' = Got(p)
      BY <1>4, <2>3 DEF Got
    <3>8. Stream(Got(p), s[p].buffer, wire[p], s[x].pending, o) = Encoded(a)
      BY <2>1, <3>6, Zenon
    <3>9. Carried(x)' = Stream(Got(p)', s'[p].buffer, wire'[p], s'[x].pending, s'[x].outbound)
      BY <1>1 DEF Carried
    <3> QED
      BY <1>4, <2>3, <2>5, <2>8, <3>7, <3>8, <3>9 DEF Intact
  <2> QED
    BY <2>7, <2>9, <2>10, <2>11, <2>12, <2>13 DEF StepOf
<1> QED
  BY <1>3, <1>5, <1>6 DEF send

\* A step that changes neither streams nor closing.
LEMMA QuietStep ==
    ASSUME TransportInv, NEW x \in Ends, TypeParts', OtherEndKept(x),
           wire'[Peer(x)] = wire[Peer(x)], Live(x)' => wire'[x] = wire[x],
           s'[x].pending = s[x].pending, s'[x].outbound = s[x].outbound,
           s'[x].buffer = s[x].buffer, s'[x].inbound = s[x].inbound,
           accepted'[x] = accepted[x], received'[x] = received[x], ClosingKept(x)
    PROVE  StepOf(x)
<1>1. Outgoing(x) /\ AcceptedGrows(x)
  BY OutgoingSame
<1>2. Incoming(x) /\ Ordered(x)
  BY IncomingSame
<1> QED
  BY <1>1, <1>2 DEF StepOf

LEMMA ReaderStep ==
    ASSUME TransportInv, NEW x \in Ends, receive_begin(x) \/ receive_after_reset(x)
    PROVE  StepOf(x)
<1>1. /\ TypeParts /\ s[x] \in Sessions
      /\ worker[x] = "end" => s[x].closed
      /\ closer[x] = "done" => s[x].closed
      /\ s[x].closed /\ s[x].reason # "RESOURCE_LIMIT" => ~s[x].counted
  BY Before
<1>2. UNCHANGED <<platform, s, wire, sock, worker, closer, offered, accepted, received>>
  BY DEF receive_begin, receive_after_reset
<1>3. reader' \in [Ends -> {"idle", "receive", "ended", "crashed"}]
  BY <1>1 DEF TypeParts, receive_begin, receive_after_reset
<1>4. TypeParts'
  BY <1>1, <1>2, <1>3 DEF TypeParts
<1>5. OtherEndKept(x) /\ ClosingKept(x)
  BY <1>1, <1>2 DEF OtherEndKept, ClosingKept
<1> QED
  BY <1>2, <1>4, <1>5, QuietStep

LEMMA ReceiveStep ==
    ASSUME TransportInv, NEW x \in Ends, receive_end(x)
    PROVE  StepOf(x)
<1>1. PICK p \in Ends : p = Peer(x) /\ p # x /\ Peer(p) = x
  BY PeerFacts
<1>2. /\ TypeParts /\ s[x] \in Sessions
      /\ worker[x] = "end" => s[x].closed
      /\ closer[x] = "done" => s[x].closed
      /\ s[x].closed /\ s[x].reason # "RESOURCE_LIMIT" => ~s[x].counted
  BY Before
<1>3. UNCHANGED <<platform, wire, sock, worker, closer, offered, accepted>>
  BY DEF receive_end
<1>4. CASE s[x].inbound = <<>>
  <2>1. UNCHANGED <<s, received>> /\ reader' = [reader EXCEPT ![x] = "ended"]
    BY <1>4 DEF receive_end
  <2>2. TypeParts'
    BY <1>2, <1>3, <2>1 DEF TypeParts
  <2>3. OtherEndKept(x) /\ ClosingKept(x)
    BY <1>2, <1>3, <2>1 DEF OtherEndKept, ClosingKept
  <2> QED
    BY <1>3, <2>1, <2>2, <2>3, QuietStep
<1>5. CASE s[x].inbound # <<>>
  <2>1. /\ reader' = [reader EXCEPT ![x] = "idle"]
        /\ received' = [received EXCEPT ![x] = Append(@, Head(s[x].inbound))]
        /\ s' = [s EXCEPT ![x].inbound = Tail(@)]
    BY <1>5 DEF receive_end
  <2>2. PICK r \in Seq(Frames), n \in Seq(Frames) :
           r = received[x] /\ n = s[x].inbound /\ n # <<>>
    BY <1>2, <1>5 DEF TypeParts, Sessions
  <2>3. Head(n) \in Frames /\ Tail(n) \in Seq(Frames)
    BY <2>2, HeadTailProperties
  <2>4. PICK r2 \in Seq(Frames), n2 \in Seq(Frames) : r2 = Append(r, Head(n)) /\ n2 = Tail(n)
    BY <2>3, AppendProperties
  <2>5. received' = [received EXCEPT ![x] = r2] /\ s' = [s EXCEPT ![x].inbound = n2]
    BY <2>1, <2>2, <2>4
  <2>6. /\ s' \in [Ends -> Sessions] /\ s'[p] = s[p]
        /\ s'[x] = [s[x] EXCEPT !.inbound = n2]
    BY <1>1, <1>2, <2>5 DEF TypeParts, Sessions
  <2>7. /\ received' \in [Ends -> Seq(Frames)] /\ received'[x] = r2
        /\ received'[p] = received[p]
    BY <1>1, <1>2, <2>5 DEF TypeParts
  <2>8. TypeParts'
    BY <1>2, <1>3, <2>1, <2>6, <2>7 DEF TypeParts
  <2>9. /\ s'[x].outbound = s[x].outbound /\ s'[x].pending = s[x].pending
        /\ s'[x].buffer = s[x].buffer /\ s'[x].inbound = n2
        /\ s'[x].closed = s[x].closed /\ s'[x].stuck = s[x].stuck
        /\ s'[x].reason = s[x].reason /\ s'[x].counted = s[x].counted
    BY <1>2, <2>6 DEF Sessions
  <2>10. OtherEndKept(x)
    BY <1>1, <1>3, <2>6, <2>7 DEF OtherEndKept
  <2>11. ClosingKept(x)
    BY <1>2, <1>3, <2>9 DEF ClosingKept
  <2>12. Outgoing(x) /\ AcceptedGrows(x)
    BY <1>3, <2>9, <2>10, OutgoingSame
  <2>13. Got(x)' = Got(x)
    <3>1. Join(Append(r, Head(n)), Tail(n)) = Join(r, n)
      BY <2>2, JoinTaken
    <3>2. Join(r2, n2) = Join(r, n)
      BY <2>4, <3>1, Zenon
    <3>3. Got(x)' = Join(received'[x], s'[x].inbound)
      BY DEF Got
    <3>4. Got(x) = Join(r, n)
      BY <2>2 DEF Got
    <3> QED
      BY <2>7, <2>9, <3>2, <3>3, <3>4
  <2>14. Ordered(x)
    BY <1>3, <2>13 DEF Ordered, Begins
  <2>15. Incoming(x)
    BY <1>1, <1>3, <2>6, <2>9, <2>13 DEF Incoming, Intact, Carried
  <2> QED
    BY <2>8, <2>10, <2>11, <2>12, <2>14, <2>15 DEF StepOf
<1> QED
  BY <1>4, <1>5

LEMMA CloseBeginStep ==
    ASSUME TransportInv, NEW x \in Ends, close_begin(x)
    PROVE  StepOf(x)
<1>1. PICK p \in Ends : p = Peer(x) /\ p # x /\ Peer(p) = x
  BY PeerFacts
<1>2. /\ TypeParts /\ s[x] \in Sessions
      /\ worker[x] = "end" => s[x].closed
      /\ closer[x] = "done" => s[x].closed
      /\ s[x].closed /\ s[x].reason # "RESOURCE_LIMIT" => ~s[x].counted
  BY Before
<1>3. UNCHANGED <<platform, wire, worker, reader, offered, accepted, received>>
  BY DEF close_begin
<1>4. s \in [Ends -> Sessions] /\ s' = [s EXCEPT ![x].stop_requested = TRUE]
  BY <1>2 DEF close_begin, TypeParts
<1>5. /\ s' \in [Ends -> Sessions] /\ s'[p] = s[p]
      /\ s'[x] = [s[x] EXCEPT !.stop_requested = TRUE]
  <2>1. PICK st \in Sessions : st = [s[x] EXCEPT !.stop_requested = TRUE]
    BY <1>2 DEF Sessions
  <2>2. s' = [s EXCEPT ![x] = st]
    BY <1>4, <2>1
  <2>3. /\ [s EXCEPT ![x] = st] \in [Ends -> Sessions]
        /\ [s EXCEPT ![x] = st][x] = st /\ [s EXCEPT ![x] = st][p] = s[p]
    BY <1>1, <1>4
  <2> QED
    BY <2>1, <2>2, <2>3, Zenon
<1>6. /\ s'[x].outbound = s[x].outbound /\ s'[x].pending = s[x].pending
      /\ s'[x].buffer = s[x].buffer /\ s'[x].inbound = s[x].inbound
      /\ s'[x].closed = s[x].closed /\ s'[x].stuck = s[x].stuck
      /\ s'[x].reason = s[x].reason /\ s'[x].counted = s[x].counted
  BY <1>2, <1>5 DEF Sessions
<1>7. sock \in [Ends -> Nets] /\ sock' = [sock EXCEPT ![x].wake = TRUE]
  BY <1>2 DEF close_begin, TypeParts
<1>8. sock' \in [Ends -> Nets] /\ sock'[x].fin = sock[x].fin /\ sock'[p] = sock[p]
  BY <1>1, <1>7 DEF Nets
<1>9. /\ closer' \in [Ends -> {"no", "join", "done"}]
      /\ closer'[x] = "join" /\ closer'[p] = closer[p]
  BY <1>1, <1>2 DEF close_begin, TypeParts
<1>10. TypeParts'
  BY <1>2, <1>3, <1>5, <1>8, <1>9 DEF TypeParts
<1>11. OtherEndKept(x)
  BY <1>1, <1>3, <1>5, <1>9 DEF OtherEndKept
<1>12. ClosingKept(x)
  BY <1>1, <1>2, <1>3, <1>6, <1>8, <1>9 DEF ClosingKept
<1> QED
  BY <1>3, <1>6, <1>10, <1>11, <1>12, QuietStep

\* A session that is marked closed, with its socket released and its thread ended.
LEMMA ClosedFacts ==
    ASSUME TransportInv, NEW x \in Ends, NEW r \in Reasons, NEW st \in Sessions,
           st = MarkClosed(s[x], r)
    PROVE  /\ st.closed
           /\ st.outbound = s[x].outbound /\ st.pending = s[x].pending
           /\ st.buffer = s[x].buffer /\ st.inbound = s[x].inbound
           /\ st.stuck = s[x].stuck
           /\ st.reason # "RESOURCE_LIMIT" => ~st.counted
<1>1. /\ s[x] \in Sessions
      /\ s[x].closed /\ s[x].reason # "RESOURCE_LIMIT" => ~s[x].counted
  BY Before
<1>2. /\ st.closed
      /\ st.outbound = s[x].outbound /\ st.pending = s[x].pending
      /\ st.buffer = s[x].buffer /\ st.inbound = s[x].inbound
      /\ st.stuck = s[x].stuck
      /\ s[x].closed => st = s[x]
      /\ ~s[x].closed => ~st.counted
  BY <1>1, MarkClosedFacts
<1>3. st.reason # "RESOURCE_LIMIT" => ~st.counted
  BY <1>1, <1>2
<1> QED
  BY <1>2, <1>3

LEMMA MarkClosedStep ==
    ASSUME TransportInv, NEW x \in Ends, NEW r \in Reasons, mark_closed(x, r),
           UNCHANGED <<platform, reader, closer, offered, accepted, received>>
    PROVE  StepOf(x)
<1>1. PICK p \in Ends : p = Peer(x) /\ p # x /\ Peer(p) = x
  BY PeerFacts
<1>2. /\ TypeParts /\ s[x] \in Sessions
      /\ closer[x] = "done" => s[x].closed
  BY Before
<1>3. PICK st \in Sessions : st = MarkClosed(s[x], r)
  BY <1>2, MarkClosedFacts
<1>4. /\ st.closed
      /\ st.outbound = s[x].outbound /\ st.pending = s[x].pending
      /\ st.buffer = s[x].buffer /\ st.inbound = s[x].inbound
      /\ st.stuck = s[x].stuck
      /\ st.reason # "RESOURCE_LIMIT" => ~st.counted
  BY <1>3, ClosedFacts
<1>5. s' = [s EXCEPT ![x] = st]
  BY <1>3 DEF mark_closed
<1>6. s' \in [Ends -> Sessions] /\ s'[x] = st /\ s'[p] = s[p]
  BY <1>1, <1>2, <1>5 DEF TypeParts
<1>7. /\ sock' \in [Ends -> Nets] /\ sock'[x] = sock[x]
  BY <1>2, ReleaseFacts DEF TypeParts, mark_closed
<1>8. /\ worker' \in [Ends -> {"wait", "drain", "recv", "decode", "end"}]
      /\ worker'[x] = "end" /\ worker'[p] = worker[p]
  BY <1>1, <1>2 DEF TypeParts, mark_closed
<1>9. wire' \in [Ends -> Seq(Chunks)] /\ wire'[p] = wire[p]
  BY <1>1, <1>2 DEF TypeParts, mark_closed
<1>10. TypeParts'
  BY <1>2, <1>6, <1>7, <1>8, <1>9 DEF TypeParts
<1>11. OtherEndKept(x)
  BY <1>1, <1>6, <1>8 DEF OtherEndKept
<1>12. ClosingKept(x)
  BY <1>2, <1>4, <1>6, <1>7, <1>8 DEF ClosingKept
<1>13. ~Live(x)'
  BY <1>8 DEF Live
<1> QED
  BY <1>1, <1>4, <1>6, <1>9, <1>10, <1>11, <1>12, <1>13, QuietStep

LEMMA CloseEndStep ==
    ASSUME TransportInv, NEW x \in Ends, close_end(x)
    PROVE  StepOf(x)
<1>1. PICK p \in Ends : p = Peer(x) /\ p # x /\ Peer(p) = x
  BY PeerFacts
<1>2. TypeParts /\ s[x] \in Sessions /\ "LOCAL_CLOSE" \in Reasons
  BY Before DEF Reasons
<1>3. PICK st \in Sessions : st = MarkClosed(s[x], "LOCAL_CLOSE")
  BY <1>2, MarkClosedFacts
<1>4. /\ st.closed
      /\ st.outbound = s[x].outbound /\ st.pending = s[x].pending
      /\ st.buffer = s[x].buffer /\ st.inbound = s[x].inbound
      /\ st.stuck = s[x].stuck
      /\ st.reason # "RESOURCE_LIMIT" => ~st.counted
  BY <1>2, <1>3, ClosedFacts
<1>5. PICK st2 \in Sessions : st2 = [st EXCEPT !.attached = FALSE]
  BY DEF Sessions
<1>6. /\ st2.closed = st.closed /\ st2.outbound = st.outbound /\ st2.pending = st.pending
      /\ st2.buffer = st.buffer /\ st2.inbound = st.inbound /\ st2.stuck = st.stuck
      /\ st2.reason = st.reason /\ st2.counted = st.counted
  BY <1>5 DEF Sessions
<1>7. s' = [s EXCEPT ![x] = st2]
  BY <1>3, <1>5 DEF close_end
<1>8. s' \in [Ends -> Sessions] /\ s'[x] = st2 /\ s'[p] = s[p]
  BY <1>1, <1>2, <1>7 DEF TypeParts
<1>9. sock' \in [Ends -> Nets] /\ sock'[x] = sock[x]
  BY <1>2, ReleaseFacts DEF TypeParts, close_end
<1>10. UNCHANGED <<platform, worker, reader, offered, accepted, received>> /\ worker[x] = "end"
  BY DEF close_end
<1>11. wire' \in [Ends -> Seq(Chunks)] /\ wire'[p] = wire[p]
  BY <1>1, <1>2 DEF TypeParts, close_end
<1>12. closer' \in [Ends -> {"no", "join", "done"}] /\ closer'[p] = closer[p]
  BY <1>1, <1>2 DEF TypeParts, close_end
<1>13. TypeParts'
  BY <1>2, <1>8, <1>9, <1>10, <1>11, <1>12 DEF TypeParts
<1>14. OtherEndKept(x)
  BY <1>1, <1>8, <1>10, <1>12 DEF OtherEndKept
<1>15. ClosingKept(x)
  BY <1>2, <1>4, <1>6, <1>8, <1>9, <1>10 DEF ClosingKept
<1>16. ~Live(x)'
  BY <1>10 DEF Live
<1> QED
  BY <1>1, <1>4, <1>6, <1>8, <1>10, <1>11, <1>13, <1>14, <1>15, <1>16, QuietStep

-----------------------------------------------------------------------------
(***************************************************************************)
(* The session thread.                                                     *)
(***************************************************************************)
\* The thread moves on and leaves session and wire as they are.
LEMMA MovesOn ==
    ASSUME TransportInv, NEW x \in Ends, UNCHANGED <<s, wire>>,
           UNCHANGED <<platform, reader, closer, offered, accepted, received>>,
           sock' \in [Ends -> Nets], \A e \in Ends : sock'[e].fin = sock[e].fin,
           worker[x] # "end",
           NEW pc \in {"wait", "drain", "recv", "decode"}, worker' = [worker EXCEPT ![x] = pc]
    PROVE  StepOf(x)
<1>1. PICK p \in Ends : p = Peer(x) /\ p # x /\ Peer(p) = x
  BY PeerFacts
<1>2. /\ TypeParts /\ s[x] \in Sessions
      /\ closer[x] = "done" => s[x].closed
      /\ s[x].closed /\ s[x].reason # "RESOURCE_LIMIT" => ~s[x].counted
  BY Before
<1>3. /\ worker' \in [Ends -> {"wait", "drain", "recv", "decode", "end"}]
      /\ worker'[x] = pc /\ worker'[p] = worker[p]
  BY <1>1, <1>2 DEF TypeParts
<1>4. TypeParts'
  BY <1>2, <1>3 DEF TypeParts
<1>5. OtherEndKept(x)
  BY <1>1, <1>3 DEF OtherEndKept
<1>6. sock'[x].fin = sock[x].fin /\ sock'[p].fin = sock[p].fin
  BY <1>1
<1>7. ClosingKept(x)
  BY <1>1, <1>2, <1>3, <1>6 DEF ClosingKept
<1> QED
  BY <1>4, <1>5, <1>7, QuietStep

LEMMA WaitStep ==
    ASSUME TransportInv, NEW x \in Ends, windows_wait(x)
    PROVE  StepOf(x)
<1>1. TypeParts /\ "PEER_CLOSED" \in Reasons /\ "LOCAL_CLOSE" \in Reasons
  BY Before DEF Reasons
<1>2. /\ UNCHANGED <<platform, reader, closer, offered, accepted, received>>
      /\ worker[x] # "end"
  BY DEF windows_wait
<1>3. CASE mark_closed(x, "PEER_CLOSED") \/ mark_closed(x, "LOCAL_CLOSE")
  BY <1>1, <1>2, <1>3, MarkClosedStep
<1>4. CASE /\ sock' = [sock EXCEPT ![x].events = {}] \/ sock' = [sock EXCEPT ![x].wake = FALSE]
           /\ worker' = [worker EXCEPT ![x] = "drain"]
           /\ UNCHANGED <<s, wire>>
  <2>1. sock \in [Ends -> Nets]
    BY <1>1 DEF TypeParts
  <2>2. sock' \in [Ends -> Nets] /\ \A e \in Ends : sock'[e].fin = sock[e].fin
    <3>1. CASE sock' = [sock EXCEPT ![x].events = {}]
      BY <2>1, <3>1 DEF Nets
    <3>2. CASE sock' = [sock EXCEPT ![x].wake = FALSE]
      BY <2>1, <3>2 DEF Nets
    <3> QED
      BY <1>4, <3>1, <3>2
  <2>3. worker' = [worker EXCEPT ![x] = "drain"] /\ UNCHANGED <<s, wire>>
    BY <1>4
  <2>4. PICK pc \in {"wait", "drain", "recv", "decode"} : pc = "drain"
    OBVIOUS
  <2>5. worker' = [worker EXCEPT ![x] = pc]
    BY <2>3, <2>4
  <2> QED
    BY <1>2, <2>2, <2>3, <2>5, MovesOn
<1> QED
  BY <1>3, <1>4 DEF windows_wait

\* The thread writes: only the split of its outgoing stream changes.
LEMMA WriterStep ==
    ASSUME TransportInv, NEW x \in Ends, worker[x] # "end",
           NEW st \in Sessions, s' = [s EXCEPT ![x] = st],
           st.buffer = s[x].buffer, st.inbound = s[x].inbound, st.stuck = s[x].stuck,
           st.closed = s[x].closed, st.reason = s[x].reason, st.counted = s[x].counted,
           wire' \in [Ends -> Seq(Chunks)], wire'[x] = wire[x],
           sock' \in [Ends -> Nets], \A e \in Ends : sock'[e].fin = sock[e].fin,
           NEW pc \in {"wait", "drain", "recv", "decode"}, worker' = [worker EXCEPT ![x] = pc],
           UNCHANGED <<platform, reader, closer, offered, accepted, received>>,
           Live(Peer(x)) => Stream(Got(Peer(x)), s[Peer(x)].buffer, wire'[Peer(x)],
                                   st.pending, st.outbound) = Carried(x)
    PROVE  StepOf(x)
<1>1. PICK p \in Ends : p = Peer(x) /\ p # x /\ Peer(p) = x
  BY PeerFacts
<1>2. /\ TypeParts /\ s[x] \in Sessions
      /\ closer[x] = "done" => s[x].closed
      /\ s[x].closed /\ s[x].reason # "RESOURCE_LIMIT" => ~s[x].counted
  BY Before
<1>3. s' \in [Ends -> Sessions] /\ s'[x] = st /\ s'[p] = s[p]
  BY <1>1, <1>2 DEF TypeParts
<1>4. /\ worker' \in [Ends -> {"wait", "drain", "recv", "decode", "end"}]
      /\ worker'[x] = pc /\ worker'[p] = worker[p]
  BY <1>1, <1>2 DEF TypeParts
<1>5. TypeParts'
  BY <1>2, <1>3, <1>4 DEF TypeParts
<1>6. OtherEndKept(x)
  BY <1>1, <1>3, <1>4 DEF OtherEndKept
<1>7. sock'[x].fin = sock[x].fin /\ sock'[p].fin = sock[p].fin
  BY <1>1
<1>8. ClosingKept(x)
  BY <1>1, <1>2, <1>3, <1>4, <1>7 DEF ClosingKept
<1>9. Incoming(x) /\ Ordered(x)
  BY <1>3, <1>6, IncomingSame
<1>10. AcceptedGrows(x)
  BY DEF AcceptedGrows
<1>11. Outgoing(x)
  <2>1. SUFFICES ASSUME Live(p), Carried(x) = Encoded(accepted[x])
                 PROVE  Carried(x)' = Encoded(accepted[x])'
    BY <1>1 DEF Outgoing, Intact
  <2>2. Got(p)' = Got(p)
    BY <1>3 DEF Got
  <2>3. Carried(x)' = Stream(Got(p)', s'[p].buffer, wire'[p], s'[x].pending, s'[x].outbound)
    BY <1>1 DEF Carried
  <2>4. Carried(x)' = Carried(x)
    BY <1>1, <1>3, <2>1, <2>2, <2>3
  <2> QED
    BY <2>1, <2>4
<1> QED
  BY <1>5, <1>6, <1>8, <1>9, <1>10, <1>11 DEF StepOf

\* Streams of an end are typed.
LEMMA StreamTypes ==
    ASSUME TransportInv, NEW x \in Ends
    PROVE  /\ received[x] \in Seq(Frames) /\ s[x].inbound \in Seq(Frames)
           /\ Got(x) \in Seq(Frames) /\ s[x].buffer \in Seq(Chunks)
           /\ wire[x] \in Seq(Chunks) /\ accepted[x] \in Seq(Frames)
           /\ s[x].pending \in Seq(Chunks) /\ s[x].outbound \in Seq(Frames)
<1>1. TypeParts /\ s[x] \in Sessions
  BY Before
<1>2. received[x] \in Seq(Frames) /\ wire[x] \in Seq(Chunks) /\ accepted[x] \in Seq(Frames)
  BY <1>1 DEF TypeParts
<1>3. /\ s[x].inbound \in Seq(Frames) /\ s[x].buffer \in Seq(Chunks)
      /\ s[x].pending \in Seq(Chunks) /\ s[x].outbound \in Seq(Frames)
  BY <1>1 DEF Sessions
<1>4. Got(x) \in Seq(Frames)
  BY <1>2, <1>3, JoinFacts DEF Got
<1> QED
  BY <1>2, <1>3, <1>4

\* The next frame becomes the write in progress, and nothing is written.
LEMMA NextOnlyStep ==
    ASSUME TransportInv, NEW x \in Ends, worker[x] # "end",
           s' = [s EXCEPT ![x] = NextWrite(@)], UNCHANGED wire,
           sock' \in [Ends -> Nets], \A e \in Ends : sock'[e].fin = sock[e].fin,
           NEW pc \in {"wait", "drain", "recv", "decode"}, worker' = [worker EXCEPT ![x] = pc],
           UNCHANGED <<platform, reader, closer, offered, accepted, received>>
    PROVE  StepOf(x)
<1>1. PICK p \in Ends : p = Peer(x) /\ p # x /\ Peer(p) = x
  BY PeerFacts
<1>2. TypeParts /\ s[x] \in Sessions
  BY Before
<1>3. PICK st \in Sessions : st = NextWrite(s[x])
  BY <1>2, NextWriteFacts
<1>4. /\ st.buffer = s[x].buffer /\ st.inbound = s[x].inbound /\ st.stuck = s[x].stuck
      /\ st.closed = s[x].closed /\ st.reason = s[x].reason /\ st.counted = s[x].counted
      /\ \A d \in Seq(Frames), b \in Seq(Chunks), w \in Seq(Chunks) :
            Stream(d, b, w, st.pending, st.outbound) = Stream(d, b, w, s[x].pending, s[x].outbound)
  BY <1>2, <1>3, NextWriteFacts
<1>5. Got(p) \in Seq(Frames) /\ s[p].buffer \in Seq(Chunks) /\ wire[p] \in Seq(Chunks)
  BY StreamTypes
<1>6. Stream(Got(Peer(x)), s[Peer(x)].buffer, wire'[Peer(x)], st.pending, st.outbound) = Carried(x)
  BY <1>1, <1>4, <1>5 DEF Carried
<1>7. s' = [s EXCEPT ![x] = st]
  BY <1>3
<1>8. wire' \in [Ends -> Seq(Chunks)] /\ wire'[x] = wire[x]
  BY <1>2 DEF TypeParts
<1> QED
  BY <1>4, <1>6, <1>7, <1>8, WriterStep

\* ::send takes n chunks of the write in progress.
LEMMA WriteStep ==
    ASSUME TransportInv, NEW x \in Ends, worker[x] \in {"wait", "drain", "recv", "decode"},
           NEW n \in Writes(x), Write(x, n), UNCHANGED worker,
           UNCHANGED <<platform, reader, closer, offered, accepted, received>>
    PROVE  StepOf(x)
<1>1. PICK p \in Ends : p = Peer(x) /\ p # x /\ Peer(p) = x
  BY PeerFacts
<1>2. TypeParts /\ s[x] \in Sessions /\ (sock[x].fin => worker[p] = "end")
  BY <1>1, Before
<1>3. PICK w \in Sessions : w = NextWrite(s[x])
  BY <1>2, NextWriteFacts
<1>4. /\ w.buffer = s[x].buffer /\ w.inbound = s[x].inbound /\ w.stuck = s[x].stuck
      /\ w.closed = s[x].closed /\ w.reason = s[x].reason /\ w.counted = s[x].counted
      /\ \A d \in Seq(Frames), b \in Seq(Chunks), u \in Seq(Chunks) :
            Stream(d, b, u, w.pending, w.outbound) = Stream(d, b, u, s[x].pending, s[x].outbound)
  BY <1>2, <1>3, NextWriteFacts
<1>5. PICK q \in Seq(Chunks), o \in Seq(Frames) : q = w.pending /\ o = w.outbound
  BY DEF Sessions
<1>6. n \in 1..Len(q) /\ n \in 0..Len(q)
  <2>1. n \in 1..Len(w.pending)
    BY <1>3 DEF Writes
  <2>2. Len(q) \in Nat
    BY LenProperties
  <2> QED
    BY <1>5, <2>1, <2>2
<1>7. PICK y \in Seq(Chunks), z \in Seq(Chunks) :
         y = SubSeq(q, 1, n) /\ z = SubSeq(q, n + 1, Len(q))
  BY <1>6, CutInTwo, Zenon
<1>8. PICK st \in Sessions : st = [w EXCEPT !.pending = z]
  BY DEF Sessions
<1>9. /\ st.buffer = w.buffer /\ st.inbound = w.inbound /\ st.stuck = w.stuck
      /\ st.closed = w.closed /\ st.reason = w.reason /\ st.counted = w.counted
      /\ st.pending = z /\ st.outbound = o
  BY <1>5, <1>8 DEF Sessions
<1>10. s' = [s EXCEPT ![x] = st]
  <2>1. s' = [s EXCEPT ![x] = [w EXCEPT !.pending = SubSeq(w.pending, n + 1, Len(w.pending))]]
    BY <1>3 DEF Write
  <2>2. SubSeq(w.pending, n + 1, Len(w.pending)) = z
    BY <1>5, <1>7, Zenon
  <2> QED
    BY <1>8, <2>1, <2>2
<1>11. PICK pc \in {"wait", "drain", "recv", "decode"} : worker' = [worker EXCEPT ![x] = pc]
  BY <1>2 DEF TypeParts
<1>12. worker[x] # "end"
  OBVIOUS
<1>13. /\ st.buffer = s[x].buffer /\ st.inbound = s[x].inbound /\ st.stuck = s[x].stuck
       /\ st.closed = s[x].closed /\ st.reason = s[x].reason /\ st.counted = s[x].counted
  BY <1>4, <1>9
<1>14. wire \in [Ends -> Seq(Chunks)] /\ sock \in [Ends -> Nets]
  BY <1>2 DEF TypeParts
<1>15. CASE sock[x].fin
  <2>1. UNCHANGED <<wire, sock>>
    BY <1>15 DEF Write
  <2>2. ~Live(Peer(x))
    BY <1>1, <1>2, <1>15 DEF Live
  <2>3. /\ wire' \in [Ends -> Seq(Chunks)] /\ wire'[x] = wire[x]
        /\ sock' \in [Ends -> Nets] /\ \A e \in Ends : sock'[e].fin = sock[e].fin
    BY <1>14, <2>1
  <2> QED
    BY <1>10, <1>11, <1>12, <1>13, <2>2, <2>3, WriterStep
<1>16. CASE ~sock[x].fin
  <2>1. wire' = [wire EXCEPT ![p] = Cat(@, y)]
    <3>1. wire' = [wire EXCEPT ![p] = @ \o SubSeq(w.pending, 1, n)]
      BY <1>1, <1>3, <1>16 DEF Write
    <3>2. SubSeq(w.pending, 1, n) = y
      BY <1>5, <1>7, Zenon
    <3> QED
      BY <3>1, <3>2, Zenon DEF Cat
  <2>2. PICK u \in Seq(Chunks) : u = Cat(wire[p], y)
    BY <1>14, CatFacts
  <2>3. wire' = [wire EXCEPT ![p] = u]
    BY <2>1, <2>2
  <2>4. wire' \in [Ends -> Seq(Chunks)] /\ wire'[x] = wire[x] /\ wire'[p] = u
    BY <1>1, <1>14, <2>3
  <2>5. sock' = [sock EXCEPT ![p].events = @ \cup {"read"}]
    BY <1>1, <1>16 DEF Write
  <2>6. PICK v \in SUBSET {"read", "write", "close"} : v = sock[p].events \cup {"read"}
    BY <1>14 DEF Nets
  <2>7. sock' = [sock EXCEPT ![p].events = v]
    BY <2>5, <2>6
  <2>8. sock' \in [Ends -> Nets] /\ \A e \in Ends : sock'[e].fin = sock[e].fin
    <3>a. PICK old \in Nets : old = sock[p]
      BY <1>14
    <3>b. PICK net \in Nets : net = [old EXCEPT !.events = v]
      BY DEF Nets
    <3>c. net.fin = old.fin
      BY <3>b DEF Nets
    <3>1. net = [sock[p] EXCEPT !.events = v] /\ net.fin = sock[p].fin
      BY <3>a, <3>b, <3>c, Zenon
    <3>2. sock' = [sock EXCEPT ![p] = net]
      BY <1>14, <2>7, <3>1
    <3> QED
      BY <1>14, <3>1, <3>2
  <2>9. Got(p) \in Seq(Frames) /\ s[p].buffer \in Seq(Chunks) /\ wire[p] \in Seq(Chunks)
    BY StreamTypes
  <2>10. Stream(Got(p), s[p].buffer, Cat(wire[p], SubSeq(q, 1, n)), SubSeq(q, n + 1, Len(q)), o)
           = Stream(Got(p), s[p].buffer, wire[p], q, o)
    BY <1>6, <2>9, StreamWrite
  <2>11. Stream(Got(p), s[p].buffer, u, z, o) = Stream(Got(p), s[p].buffer, wire[p], q, o)
    BY <1>7, <2>2, <2>10, Zenon
  <2>12. Stream(Got(p), s[p].buffer, wire[p], q, o)
           = Stream(Got(p), s[p].buffer, wire[p], s[x].pending, s[x].outbound)
    BY <1>4, <1>5, <2>9
  <2>13. Stream(Got(Peer(x)), s[Peer(x)].buffer, wire'[Peer(x)], st.pending, st.outbound)
           = Carried(x)
    BY <1>1, <1>9, <2>4, <2>11, <2>12 DEF Carried
  <2> QED
    BY <1>10, <1>11, <1>12, <1>13, <2>4, <2>8, <2>13, WriterStep
<1> QED
  BY <1>15, <1>16

LEMMA DrainStep ==
    ASSUME TransportInv, NEW x \in Ends, windows_drain(x) \/ posix_drain(x)
    PROVE  StepOf(x)
<1>1. TypeParts /\ "TRANSPORT_ERROR" \in Reasons
  BY Before DEF Reasons
<1>2. /\ UNCHANGED <<platform, reader, closer, offered, accepted, received>>
      /\ worker[x] = "drain" /\ worker[x] # "end"
  BY DEF windows_drain, posix_drain
<1>3. sock \in [Ends -> Nets]
  BY <1>1 DEF TypeParts
<1>4. ASSUME NEW pc \in {"wait", "drain", "recv", "decode"}, worker' = [worker EXCEPT ![x] = pc],
             UNCHANGED <<s, wire, sock>>
      PROVE  StepOf(x)
  <2>1. sock' \in [Ends -> Nets] /\ \A e \in Ends : sock'[e].fin = sock[e].fin
    BY <1>3, <1>4
  <2> QED
    BY <1>2, <1>4, <2>1, MovesOn
<1>5. ASSUME NEW n \in Writes(x), Write(x, n), UNCHANGED worker
      PROVE  StepOf(x)
  <2>1. worker[x] \in {"wait", "drain", "recv", "decode"}
    BY <1>2
  <2> QED
    BY <1>2, <1>5, <2>1, WriteStep
<1>6. ASSUME NEW pc \in {"wait", "drain", "recv", "decode"}, worker' = [worker EXCEPT ![x] = pc],
             s' = [s EXCEPT ![x] = NextWrite(@)], UNCHANGED wire,
             sock' = sock \/ sock' = [sock EXCEPT ![x].blocked = TRUE]
      PROVE  StepOf(x)
  <2>1. sock' \in [Ends -> Nets] /\ \A e \in Ends : sock'[e].fin = sock[e].fin
    <3>1. CASE sock' = sock
      BY <1>3, <3>1
    <3>2. CASE sock' = [sock EXCEPT ![x].blocked = TRUE]
      BY <1>3, <3>2 DEF Nets
    <3> QED
      BY <1>6, <3>1, <3>2
  <2> QED
    BY <1>2, <1>6, <2>1, NextOnlyStep
<1>7. CASE mark_closed(x, "TRANSPORT_ERROR")
  BY <1>1, <1>2, <1>7, MarkClosedStep
<1>8. CASE windows_drain(x)
  BY <1>4, <1>5, <1>6, <1>7, <1>8 DEF windows_drain
<1>9. CASE posix_drain(x)
  BY <1>4, <1>5, <1>6, <1>9 DEF posix_drain
<1> QED
  BY <1>8, <1>9

\* The thread reads: the chunks b2 it has and w2 it leaves continue what is queued.
LEMMA ReadStep ==
    ASSUME TransportInv, NEW x \in Ends, Live(x),
           NEW st \in Sessions, s' = [s EXCEPT ![x] = st],
           st.pending = s[x].pending, st.outbound = s[x].outbound,
           wire' \in [Ends -> Seq(Chunks)], wire'[Peer(x)] = wire[Peer(x)],
           sock' \in [Ends -> Nets],
           NEW pc \in {"wait", "drain", "recv", "decode", "end"},
           worker' = [worker EXCEPT ![x] = pc],
           UNCHANGED <<platform, reader, closer, offered, accepted, received>>,
           ClosingKept(x),
           NEW b2 \in Seq(Chunks), NEW w2 \in Seq(Chunks),
           Stream(Join(received[x], st.inbound), b2, w2, s[Peer(x)].pending, s[Peer(x)].outbound)
             = Carried(Peer(x)),
           Live(x)' => st.buffer = b2 /\ wire'[x] = w2
    PROVE  StepOf(x)
<1>1. PICK p \in Ends : p = Peer(x) /\ p # x /\ Peer(p) = x
  BY PeerFacts
<1>2. TypeParts /\ s[x] \in Sessions
  BY Before
<1>3. s' \in [Ends -> Sessions] /\ s'[x] = st /\ s'[p] = s[p]
  BY <1>1, <1>2 DEF TypeParts
<1>4. /\ worker' \in [Ends -> {"wait", "drain", "recv", "decode", "end"}]
      /\ worker'[x] = pc /\ worker'[p] = worker[p]
  BY <1>1, <1>2 DEF TypeParts
<1>5. TypeParts'
  BY <1>2, <1>3, <1>4 DEF TypeParts
<1>6. OtherEndKept(x)
  BY <1>1, <1>3, <1>4 DEF OtherEndKept
<1>7. Outgoing(x) /\ AcceptedGrows(x)
  BY <1>3, <1>6, OutgoingSame
<1>8. Got(x)' = Join(received[x], st.inbound)
  BY <1>3 DEF Got
<1>9. Carried(p) = Encoded(accepted[p])
  BY <1>1 DEF TransportInv, StreamInv, Intact
<1>10. PICK d \in Seq(Frames) : d = Join(received[x], st.inbound)
  <2>1. received[x] \in Seq(Frames) /\ st.inbound \in Seq(Frames)
    BY <1>2 DEF TypeParts, Sessions
  <2> QED
    BY <2>1, JoinFacts
<1>11. /\ s[p].pending \in Seq(Chunks) /\ s[p].outbound \in Seq(Frames)
       /\ accepted[p] \in Seq(Frames)
  BY StreamTypes
<1>12. Stream(d, b2, w2, s[p].pending, s[p].outbound) = Encoded(accepted[p])
  BY <1>1, <1>9, <1>10
<1>13. Begins(d, accepted[p])
  <2>1. PICK q \in Seq(Chunks), o \in Seq(Frames), a \in Seq(Frames) :
           q = s[p].pending /\ o = s[p].outbound /\ a = accepted[p]
    BY <1>11, Zenon
  <2>2. Stream(d, b2, w2, q, o) = Encoded(a)
    BY <1>12, <2>1, Zenon
  <2>3. Begins(d, a)
    BY <2>2, StreamBegins, Zenon
  <2> QED
    BY <2>1, <2>3, Zenon
<1>14. Ordered(x)
  <2>1. Begins(Got(x)', accepted'[p])
    BY <1>8, <1>10, <1>13
  <2> QED
    BY <1>1, <2>1 DEF Ordered, Begins
<1>15. Incoming(x)
  <2>1. SUFFICES ASSUME Live(x)' PROVE Carried(p)' = Encoded(accepted[p])'
    BY <1>1 DEF Incoming, Intact
  <2>2. Carried(p)' = Stream(Got(x)', s'[x].buffer, wire'[x], s'[p].pending, s'[p].outbound)
    BY <1>1 DEF Carried
  <2>3. Carried(p)' = Stream(d, b2, w2, s[p].pending, s[p].outbound)
    BY <1>3, <1>8, <1>10, <2>1, <2>2
  <2> QED
    BY <1>12, <2>3
<1> QED
  BY <1>5, <1>6, <1>7, <1>14, <1>15 DEF StepOf

\* What a live end has read is aligned.
LEMMA ReadAligned ==
    ASSUME TransportInv, NEW x \in Ends, Live(x), NEW n \in 0..Len(wire[x])
    PROVE  LET b2 == Cat(s[x].buffer, SubSeq(wire[x], 1, n))
               w2 == SubSeq(wire[x], n + 1, Len(wire[x]))
           IN  /\ b2 \in Seq(Chunks) /\ w2 \in Seq(Chunks)
               /\ Stream(Got(x), b2, w2, s[Peer(x)].pending, s[Peer(x)].outbound)
                    = Carried(Peer(x))
               /\ \E F \in Seq(Frames) : Len(b2) <= 2 * Len(F) /\ Aligned(b2, F)
<1>1. PICK p \in Ends : p = Peer(x) /\ p # x /\ Peer(p) = x
  BY PeerFacts
<1>2. /\ Got(x) \in Seq(Frames) /\ s[x].buffer \in Seq(Chunks) /\ wire[x] \in Seq(Chunks)
      /\ s[p].pending \in Seq(Chunks) /\ s[p].outbound \in Seq(Frames)
      /\ accepted[p] \in Seq(Frames)
  BY StreamTypes
<1>3. SubSeq(wire[x], 1, n) \in Seq(Chunks) /\ SubSeq(wire[x], n + 1, Len(wire[x])) \in Seq(Chunks)
  BY <1>2, CutInTwo
<1>4. PICK b2 \in Seq(Chunks), w2 \in Seq(Chunks) :
         /\ b2 = Cat(s[x].buffer, SubSeq(wire[x], 1, n))
         /\ w2 = SubSeq(wire[x], n + 1, Len(wire[x]))
  BY <1>2, <1>3, CatFacts
<1>5. Stream(Got(x), Cat(s[x].buffer, SubSeq(wire[x], 1, n)),
             SubSeq(wire[x], n + 1, Len(wire[x])), s[p].pending, s[p].outbound)
        = Stream(Got(x), s[x].buffer, wire[x], s[p].pending, s[p].outbound)
  BY <1>2, StreamRead
<1>6. Stream(Got(x), s[x].buffer, wire[x], s[p].pending, s[p].outbound) = Carried(p)
  BY <1>1 DEF Carried
<1>7. Stream(Got(x), b2, w2, s[p].pending, s[p].outbound) = Carried(p)
  BY <1>4, <1>5, <1>6, Zenon
<1>8. Carried(p) = Encoded(accepted[p])
  BY <1>1 DEF TransportInv, StreamInv, Intact
<1>9. Stream(Got(x), b2, w2, s[p].pending, s[p].outbound) = Encoded(accepted[p])
  BY <1>7, <1>8
<1>10. \E F \in Seq(Frames) : Len(b2) <= 2 * Len(F) /\ Aligned(b2, F)
  BY <1>2, <1>9, BufferAligned
<1> QED
  BY <1>1, <1>4, <1>7, <1>10, Zenon

LEMMA PollStep ==
    ASSUME TransportInv, NEW x \in Ends, posix_poll(x)
    PROVE  StepOf(x)
<1>1. PICK p \in Ends : p = Peer(x) /\ p # x /\ Peer(p) = x
  BY PeerFacts
<1>2. /\ TypeParts /\ s[x] \in Sessions /\ "PEER_CLOSED" \in Reasons
      /\ closer[x] = "done" => s[x].closed
      /\ s[x].closed /\ s[x].reason # "RESOURCE_LIMIT" => ~s[x].counted
  BY Before DEF Reasons
<1>3. /\ UNCHANGED <<platform, reader, closer, offered, accepted, received>>
      /\ worker[x] = "wait" /\ ~s[x].stuck
  BY DEF posix_poll
<1>4. Live(x)
  BY <1>3 DEF Live
<1>5. CASE mark_closed(x, "PEER_CLOSED")
  BY <1>2, <1>3, <1>5, MarkClosedStep
<1>6. ASSUME NEW n \in 0..Len(wire[x]),
             s' = [s EXCEPT ![x].buffer = @ \o SubSeq(wire[x], 1, n)],
             wire' = [wire EXCEPT ![x] = SubSeq(@, n + 1, Len(@))],
             sock' = [sock EXCEPT ![x].wake = FALSE],
             NEW pc \in {"drain", "decode"}, worker' = [worker EXCEPT ![x] = pc]
      PROVE  StepOf(x)
  <2>1. PICK b2 \in Seq(Chunks), w2 \in Seq(Chunks) :
           /\ b2 = Cat(s[x].buffer, SubSeq(wire[x], 1, n))
           /\ w2 = SubSeq(wire[x], n + 1, Len(wire[x]))
           /\ Stream(Got(x), b2, w2, s[Peer(x)].pending, s[Peer(x)].outbound) = Carried(Peer(x))
    BY <1>4, ReadAligned, Zenon
  <2>2. b2 = s[x].buffer \o SubSeq(wire[x], 1, n)
    BY <2>1, Zenon DEF Cat
  <2>3. s' = [s EXCEPT ![x].buffer = b2]
    BY <1>6, <2>2, Zenon
  <2>4. PICK st \in Sessions : st = [s[x] EXCEPT !.buffer = b2]
    BY <1>2 DEF Sessions
  <2>5. /\ st.outbound = s[x].outbound /\ st.pending = s[x].pending
        /\ st.buffer = b2 /\ st.inbound = s[x].inbound
        /\ st.closed = s[x].closed /\ st.stuck = s[x].stuck
        /\ st.reason = s[x].reason /\ st.counted = s[x].counted
    BY <1>2, <2>4 DEF Sessions
  <2>6. s' = [s EXCEPT ![x] = st]
    BY <1>2, <2>3, <2>4 DEF TypeParts
  <2>7. wire' = [wire EXCEPT ![x] = w2]
    BY <1>6, <2>1, Zenon
  <2>8. wire' \in [Ends -> Seq(Chunks)] /\ wire'[x] = w2 /\ wire'[Peer(x)] = wire[Peer(x)]
    BY <1>1, <1>2, <2>7 DEF TypeParts
  <2>9. sock \in [Ends -> Nets]
    BY <1>2 DEF TypeParts
  <2>10. sock' \in [Ends -> Nets] /\ sock'[x].fin = sock[x].fin /\ sock'[p] = sock[p]
    BY <1>1, <1>6, <2>9 DEF Nets
  <2>11. worker'[x] = pc /\ s'[x] = st
    BY <1>2, <1>6, <2>6 DEF TypeParts
  <2>12. ClosingKept(x)
    BY <1>1, <1>2, <1>3, <2>5, <2>10, <2>11 DEF ClosingKept
  <2>13. Join(received[x], st.inbound) = Got(x)
    BY <2>5 DEF Got
  <2>14. Stream(Join(received[x], st.inbound), b2, w2, s[Peer(x)].pending, s[Peer(x)].outbound)
           = Carried(Peer(x))
    BY <2>1, <2>13, Zenon
  <2>15. PICK pc2 \in {"wait", "drain", "recv", "decode", "end"} :
            worker' = [worker EXCEPT ![x] = pc2]
    BY <1>6
  <2> QED
    BY <1>3, <1>4, <2>5, <2>6, <2>8, <2>10, <2>12, <2>14, <2>15, ReadStep
<1> QED
  BY <1>5, <1>6 DEF posix_poll

\* The mutex is locked twice and never released: nothing but `stuck' changes.
LEMMA StuckStep ==
    ASSUME TransportInv, NEW x \in Ends, worker[x] # "end",
           s' = [s EXCEPT ![x].stuck = TRUE], UNCHANGED worker,
           wire' \in [Ends -> Seq(Chunks)], wire'[Peer(x)] = wire[Peer(x)],
           sock' \in [Ends -> Nets], \A e \in Ends : sock'[e].fin = sock[e].fin,
           UNCHANGED <<platform, reader, closer, offered, accepted, received>>
    PROVE  StepOf(x)
<1>1. PICK p \in Ends : p = Peer(x) /\ p # x /\ Peer(p) = x
  BY PeerFacts
<1>2. /\ TypeParts /\ s[x] \in Sessions
      /\ closer[x] = "done" => s[x].closed
      /\ s[x].closed /\ s[x].reason # "RESOURCE_LIMIT" => ~s[x].counted
  BY Before
<1>3. PICK st \in Sessions : st = [s[x] EXCEPT !.stuck = TRUE]
  BY <1>2 DEF Sessions
<1>4. /\ st.outbound = s[x].outbound /\ st.pending = s[x].pending
      /\ st.buffer = s[x].buffer /\ st.inbound = s[x].inbound
      /\ st.closed = s[x].closed /\ st.stuck
      /\ st.reason = s[x].reason /\ st.counted = s[x].counted
  BY <1>2, <1>3 DEF Sessions
<1>5. s' = [s EXCEPT ![x] = st]
  BY <1>2, <1>3 DEF TypeParts
<1>a. /\ [s EXCEPT ![x] = st] \in [Ends -> Sessions]
      /\ [s EXCEPT ![x] = st][x] = st /\ [s EXCEPT ![x] = st][p] = s[p]
  BY <1>1, <1>2 DEF TypeParts
<1>6. s' \in [Ends -> Sessions] /\ s'[x] = st /\ s'[p] = s[p]
  BY <1>5, <1>a, Zenon
<1>7. TypeParts'
  BY <1>2, <1>6 DEF TypeParts
<1>8. OtherEndKept(x)
  BY <1>1, <1>6 DEF OtherEndKept
<1>9. sock'[x].fin = sock[x].fin /\ sock'[p].fin = sock[p].fin
  BY <1>1
<1>10. ClosingKept(x)
  BY <1>1, <1>2, <1>4, <1>6, <1>9 DEF ClosingKept
<1>11. Live(x)' => wire'[x] = wire[x]
  BY <1>4, <1>6 DEF Live
<1>12. /\ s'[x].pending = s[x].pending /\ s'[x].outbound = s[x].outbound
       /\ s'[x].buffer = s[x].buffer /\ s'[x].inbound = s[x].inbound
  BY <1>4, <1>6
<1>13. accepted'[x] = accepted[x] /\ received'[x] = received[x]
  OBVIOUS
<1> QED
  BY <1>7, <1>8, <1>10, <1>11, <1>12, <1>13, QuietStep

LEMMA DecodeStep ==
    ASSUME TransportInv, NEW x \in Ends, posix_decode(x)
    PROVE  StepOf(x)
<1>1. PICK p \in Ends : p = Peer(x) /\ p # x /\ Peer(p) = x
  BY PeerFacts
<1>2. /\ TypeParts /\ s[x] \in Sessions
      /\ closer[x] = "done" => s[x].closed
      /\ s[x].closed /\ s[x].reason # "RESOURCE_LIMIT" => ~s[x].counted
  BY Before
<1>3. /\ UNCHANGED <<platform, reader, closer, offered, accepted, received>>
      /\ UNCHANGED <<wire, sock>>
      /\ worker[x] = "decode" /\ worker[x] # "end" /\ ~s[x].stuck /\ platform # "windows"
  BY DEF posix_decode
<1>4. Live(x)
  BY <1>3 DEF Live
<1>5. wire \in [Ends -> Seq(Chunks)] /\ sock \in [Ends -> Nets]
  BY <1>2 DEF TypeParts
<1>6. /\ wire' \in [Ends -> Seq(Chunks)] /\ wire'[x] = wire[x] /\ wire'[Peer(x)] = wire[Peer(x)]
      /\ sock' \in [Ends -> Nets] /\ \A e \in Ends : sock'[e].fin = sock[e].fin
  BY <1>3, <1>5
<1>7. CASE UNCHANGED s /\ worker' = [worker EXCEPT ![x] = "wait"]
  <2>1. PICK pc \in {"wait", "drain", "recv", "decode"} : pc = "wait"
    OBVIOUS
  <2>2. UNCHANGED <<s, wire>> /\ worker' = [worker EXCEPT ![x] = pc]
    BY <1>3, <1>7, <2>1
  <2> QED
    BY <1>3, <1>6, <2>2, MovesOn
<1>8. CASE Relock(x, s[x])
  <2>1. s' = [s EXCEPT ![x].stuck = TRUE] /\ UNCHANGED worker
    BY <1>3, <1>8 DEF Relock
  <2> QED
    BY <1>3, <1>6, <2>1, StuckStep
<1>9. CASE /\ Decode(s[x].buffer).frames # <<>>
           /\ s' = [s EXCEPT ![x].inbound = Append(@, Head(Decode(s[x].buffer).frames)),
                             ![x].buffer = SubSeq(@, 3, Len(@))]
           /\ UNCHANGED worker
  <2>1. /\ Got(x) \in Seq(Frames) /\ s[x].buffer \in Seq(Chunks) /\ wire[x] \in Seq(Chunks)
        /\ received[x] \in Seq(Frames) /\ s[x].inbound \in Seq(Frames)
        /\ s[p].pending \in Seq(Chunks) /\ s[p].outbound \in Seq(Frames)
        /\ accepted[p] \in Seq(Frames)
    BY StreamTypes
  <2>2. PICK b \in Seq(Chunks), n \in Seq(Frames), r \in Seq(Frames) :
           b = s[x].buffer /\ n = s[x].inbound /\ r = received[x]
    BY <2>1
  <2>3. PICK fs \in Seq(Frames) : fs = Decode(b).frames /\ fs # <<>>
    BY <1>9, <2>2, DecodeType
  <2>4. PICK h \in Frames : h = Head(fs)
    BY <2>3, HeadTailProperties
  <2>5. PICK g \in Seq(Frames) : g = <<h>>
    BY Single
  <2>6. Stream(Got(x), b, wire[x], s[p].pending, s[p].outbound) = Carried(p)
    BY <1>1, <2>2 DEF Carried
  <2>7. Stream(Got(x), b, wire[x], s[p].pending, s[p].outbound) = Encoded(accepted[p])
    BY <1>1, <1>4, <2>6 DEF TransportInv, StreamInv, Intact
  <2>8. PICK F \in Seq(Frames) : Len(b) <= 2 * Len(F) /\ Aligned(b, F)
    BY <2>1, <2>7, BufferAligned
  <2>9. b = Cat(Encoded(<<Head(Decode(b).frames)>>), SubSeq(b, 3, Len(b)))
    BY <2>3, <2>8, DecodeFirst
  <2>10. PICK rest \in Seq(Chunks) : rest = SubSeq(b, 3, Len(b))
    <3>1. Len(b) \in Nat
      BY LenProperties
    <3>2. \A i \in 3..Len(b) : b[i] \in Chunks
      BY <3>1, ElementOfSeq
    <3>3. 3 \in Int /\ Len(b) \in Int
      BY <3>1
    <3> QED
      BY <3>2, <3>3, SubSeqProperties
  <2>11. b = Cat(Encoded(g), rest)
    BY <2>3, <2>4, <2>5, <2>9, <2>10, Zenon
  <2>a. PICK w \in Seq(Chunks), q \in Seq(Chunks), o \in Seq(Frames) :
           w = wire[x] /\ q = s[p].pending /\ o = s[p].outbound
    BY <2>1
  <2>b. Stream(Join(r, Join(n, g)), rest, w, q, o)
          = Stream(Join(r, n), Cat(Encoded(g), rest), w, q, o)
    BY StreamQueue, SMTT(60)
  <2>12. Stream(Join(r, Join(n, g)), rest, wire[x], s[p].pending, s[p].outbound)
           = Stream(Join(r, n), b, wire[x], s[p].pending, s[p].outbound)
    BY <2>11, <2>a, <2>b, Zenon
  <2>13. PICK n2 \in Seq(Frames) : n2 = Append(n, h) /\ n2 = Join(n, g)
    <3>1. Append(n, h) \in Seq(Frames)
      BY AppendProperties
    <3>2. Append(n, h) = n \o <<h>>
      BY AppendIsConcat
    <3> QED
      BY <2>5, <3>1, <3>2, Zenon DEF Join
  <2>14. s' = [s EXCEPT ![x].inbound = n2, ![x].buffer = rest]
    <3>1. Append(s[x].inbound, Head(Decode(s[x].buffer).frames)) = n2
      BY <2>2, <2>3, <2>4, <2>13, Zenon
    <3>2. SubSeq(s[x].buffer, 3, Len(s[x].buffer)) = rest
      BY <2>2, <2>10, Zenon
    <3>3. s' = [s EXCEPT ![x].inbound = Append(s[x].inbound, Head(Decode(s[x].buffer).frames)),
                         ![x].buffer = SubSeq(s[x].buffer, 3, Len(s[x].buffer))]
      BY <1>9
    <3> QED
      BY <3>1, <3>2, <3>3, Zenon
  <2>15. PICK st \in Sessions : st = [s[x] EXCEPT !.inbound = n2, !.buffer = rest]
    BY <1>2 DEF Sessions
  <2>16. /\ st.outbound = s[x].outbound /\ st.pending = s[x].pending
         /\ st.buffer = rest /\ st.inbound = n2
         /\ st.closed = s[x].closed /\ st.stuck = s[x].stuck
         /\ st.reason = s[x].reason /\ st.counted = s[x].counted
    BY <1>2, <2>15 DEF Sessions
  <2>17. s' = [s EXCEPT ![x] = st]
    BY <1>2, <2>14, <2>15 DEF TypeParts
  <2>18. s'[x] = st
    BY <1>2, <2>17 DEF TypeParts
  <2>19. sock'[x].fin = sock[x].fin /\ sock'[p].fin = sock[p].fin
    BY <1>1, <1>6
  <2>20. ClosingKept(x)
    BY <1>1, <1>2, <1>3, <1>9, <2>16, <2>18, <2>19 DEF ClosingKept
  <2>21. Stream(Join(received[x], st.inbound), rest, wire[x], s[Peer(x)].pending,
                s[Peer(x)].outbound) = Carried(Peer(x))
    <3>1. Got(x) = Join(r, n)
      BY <2>2 DEF Got
    <3>2. Stream(Join(r, n2), rest, wire[x], s[p].pending, s[p].outbound) = Carried(p)
      BY <2>6, <2>12, <2>13, <3>1, Zenon
    <3> QED
      BY <1>1, <2>2, <2>16, <3>2
  <2>22. PICK pc \in {"wait", "drain", "recv", "decode", "end"} :
            worker' = [worker EXCEPT ![x] = pc]
    BY <1>2, <1>9 DEF TypeParts
  <2> QED
    BY <1>3, <1>4, <1>6, <2>1, <2>16, <2>17, <2>20, <2>21, <2>22, ReadStep
<1> QED
  BY <1>7, <1>8, <1>9 DEF posix_decode

\* A read and the decode that follows it: what is queued continues what was queued.
LEMMA ReadAndDecode ==
    ASSUME TransportInv, NEW x \in Ends, Live(x), NEW n \in 0..Len(wire[x]),
           NEW d, d = Decode(s[x].buffer \o SubSeq(wire[x], 1, n))
    PROVE  /\ d.frames \in Seq(Frames) /\ d.rest \in Seq(Chunks)
           /\ SubSeq(wire[x], n + 1, Len(wire[x])) \in Seq(Chunks)
           /\ s[x].inbound \o d.frames \in Seq(Frames)
           /\ Stream(Join(received[x], s[x].inbound \o d.frames), d.rest,
                     SubSeq(wire[x], n + 1, Len(wire[x])),
                     s[Peer(x)].pending, s[Peer(x)].outbound) = Carried(Peer(x))
<1>1. PICK p \in Ends : p = Peer(x) /\ p # x /\ Peer(p) = x
  BY PeerFacts
<1>2. PICK b2 \in Seq(Chunks), w2 \in Seq(Chunks) :
         /\ b2 = Cat(s[x].buffer, SubSeq(wire[x], 1, n))
         /\ w2 = SubSeq(wire[x], n + 1, Len(wire[x]))
         /\ Stream(Got(x), b2, w2, s[Peer(x)].pending, s[Peer(x)].outbound) = Carried(Peer(x))
         /\ \E F \in Seq(Frames) : Len(b2) <= 2 * Len(F) /\ Aligned(b2, F)
  BY ReadAligned, Zenon
<1>3. d = Decode(b2)
  BY <1>2, Zenon DEF Cat
<1>4. PICK fs \in Seq(Frames), rest \in Seq(Chunks) :
         fs = Decode(b2).frames /\ rest = Decode(b2).rest
  BY DecodeType
<1>5. d.frames = fs /\ d.rest = rest
  BY <1>3, <1>4, Zenon
<1>6. \E F \in Seq(Frames) : Len(b2) <= 2 * Len(F) /\ Aligned(b2, F)
  BY <1>2, Zenon
<1>7. b2 = Cat(Encoded(Decode(b2).frames), Decode(b2).rest)
  BY <1>6, DecodeSplits
<1>8. b2 = Cat(Encoded(fs), rest)
  BY <1>4, <1>7, Zenon
<1>9. PICK r \in Seq(Frames), m \in Seq(Frames), q \in Seq(Chunks), o \in Seq(Frames) :
         r = received[x] /\ m = s[x].inbound /\ q = s[p].pending /\ o = s[p].outbound
  BY StreamTypes
<1>10. Stream(Join(r, Join(m, fs)), rest, w2, q, o)
         = Stream(Join(r, m), Cat(Encoded(fs), rest), w2, q, o)
  BY StreamQueue
<1>11. Got(x) = Join(r, m)
  BY <1>9 DEF Got
<1>12. Stream(Join(r, m), b2, w2, q, o) = Carried(p)
  BY <1>1, <1>2, <1>9, <1>11, Zenon
<1>13. Stream(Join(r, Join(m, fs)), rest, w2, q, o) = Carried(p)
  BY <1>8, <1>10, <1>12, Zenon
<1>14. PICK m2 \in Seq(Frames) : m2 = Join(m, fs)
  BY JoinFacts
<1>15. s[x].inbound \o d.frames = m2
  BY <1>5, <1>9, <1>14, Zenon DEF Join
<1>16. Stream(Join(received[x], m2), d.rest, w2, s[Peer(x)].pending, s[Peer(x)].outbound)
         = Carried(Peer(x))
  BY <1>1, <1>5, <1>9, <1>13, <1>14, Zenon
<1> QED
  BY <1>2, <1>5, <1>15, <1>16, Zenon

LEMMA RecvStep ==
    ASSUME TransportInv, NEW x \in Ends, windows_recv(x)
    PROVE  StepOf(x)
<1>1. PICK p \in Ends : p = Peer(x) /\ p # x /\ Peer(p) = x
  BY PeerFacts
<1>2. /\ TypeParts /\ s[x] \in Sessions
      /\ closer[x] = "done" => s[x].closed
      /\ s[x].closed /\ s[x].reason # "RESOURCE_LIMIT" => ~s[x].counted
  BY Before
<1>3. /\ UNCHANGED <<platform, reader, closer, offered, accepted, received>>
      /\ worker[x] = "recv" /\ worker[x] # "end" /\ ~s[x].stuck
      /\ "PEER_CLOSED" \in Reasons /\ "PROTOCOL_ERROR" \in Reasons
      /\ "RESOURCE_LIMIT" \in Reasons
  BY DEF windows_recv, Reasons
<1>4. Live(x)
  BY <1>3 DEF Live
<1>5. s \in [Ends -> Sessions] /\ wire \in [Ends -> Seq(Chunks)] /\ sock \in [Ends -> Nets]
  BY <1>2 DEF TypeParts
<1>6. CASE mark_closed(x, "PEER_CLOSED")
  BY <1>3, <1>6, MarkClosedStep
<1>7. CASE worker' = [worker EXCEPT ![x] = "wait"] /\ UNCHANGED <<s, wire, sock>>
  <2>1. PICK pc \in {"wait", "drain", "recv", "decode"} : pc = "wait"
    OBVIOUS
  <2>2. UNCHANGED <<s, wire>> /\ worker' = [worker EXCEPT ![x] = pc]
    BY <1>7, <2>1
  <2>3. sock' \in [Ends -> Nets] /\ \A e \in Ends : sock'[e].fin = sock[e].fin
    BY <1>5, <1>7
  <2> QED
    BY <1>3, <2>2, <2>3, MovesOn
<1>8. ASSUME NEW st \in Sessions
      PROVE  /\ [s EXCEPT ![x] = st] \in [Ends -> Sessions]
             /\ [s EXCEPT ![x] = st][x] = st
  BY <1>5
<1>9. ASSUME NEW w \in Seq(Chunks)
       PROVE  /\ [wire EXCEPT ![x] = w] \in [Ends -> Seq(Chunks)]
              /\ [wire EXCEPT ![x] = w][x] = w
              /\ [wire EXCEPT ![x] = w][Peer(x)] = wire[Peer(x)]
  BY <1>1, <1>5
<1>10. ASSUME NEW pc \in {"wait", "drain", "recv", "decode", "end"}
       PROVE  [worker EXCEPT ![x] = pc][x] = pc
  BY <1>2 DEF TypeParts
\* The queue would overflow.
<1>11. ASSUME NEW rest \in Seq(Chunks), NEW read \in Sessions,
              read.outbound = s[x].outbound, read.pending = s[x].pending,
              read.inbound = s[x].inbound, read.stuck = s[x].stuck,
              Relock(x, [read EXCEPT !.closed = TRUE, !.reason = "RESOURCE_LIMIT"]),
              wire' = [wire EXCEPT ![x] = rest], sock' = Drained(x, rest)
       PROVE  StepOf(x)
  <2>1. wire' \in [Ends -> Seq(Chunks)] /\ wire'[Peer(x)] = wire[Peer(x)]
    BY <1>9, <1>11, Zenon
  <2>2. sock' \in [Ends -> Nets] /\ \A e \in Ends : sock'[e].fin = sock[e].fin
    BY <1>5, <1>11, DrainedFacts
  <2>3. CASE s' = [s EXCEPT ![x].stuck = TRUE] /\ UNCHANGED worker
    BY <1>3, <2>1, <2>2, <2>3, StuckStep
  <2>4. CASE /\ s' = [s EXCEPT ![x] = [read EXCEPT !.closed = TRUE, !.reason = "RESOURCE_LIMIT"]]
             /\ worker' = [worker EXCEPT ![x] = "end"]
    <3>1. PICK st \in Sessions : st = [read EXCEPT !.closed = TRUE, !.reason = "RESOURCE_LIMIT"]
      BY <1>3 DEF Sessions
    <3>2. /\ st.outbound = s[x].outbound /\ st.pending = s[x].pending
          /\ st.inbound = s[x].inbound /\ st.stuck = s[x].stuck
          /\ st.closed /\ st.reason = "RESOURCE_LIMIT"
      BY <1>11, <3>1 DEF Sessions
    <3>3. s' = [s EXCEPT ![x] = st]
      BY <2>4, <3>1, Zenon
    <3>4. s'[x] = st
      BY <1>8, <3>3, Zenon
    <3>5. PICK pc \in {"wait", "drain", "recv", "decode", "end"} : pc = "end"
      OBVIOUS
    <3>6. worker' = [worker EXCEPT ![x] = pc]
      BY <2>4, <3>5, Zenon
    <3>7. worker'[x] = "end"
      BY <1>10, <3>5, <3>6, Zenon
    <3>8. sock'[x].fin = sock[x].fin /\ sock'[Peer(x)].fin = sock[Peer(x)].fin
      BY <1>1, <2>2
    <3>9. ClosingKept(x)
      BY <3>2, <3>4, <3>7, <3>8, <1>3 DEF ClosingKept
    <3>10. PICK b2 \in Seq(Chunks), w2 \in Seq(Chunks) : b2 = s[x].buffer /\ w2 = wire[x]
      BY <1>2, <1>5 DEF Sessions
    <3>11. Join(received[x], st.inbound) = Got(x)
      BY <3>2 DEF Got
    <3>12. Stream(Join(received[x], st.inbound), b2, w2, s[Peer(x)].pending,
                  s[Peer(x)].outbound) = Carried(Peer(x))
      BY <1>1, <3>10, <3>11, Zenon DEF Carried
    <3>13. ~Live(x)'
      BY <3>7 DEF Live
    <3> QED
      BY <1>3, <1>4, <2>1, <2>2, <3>2, <3>3, <3>6, <3>9, <3>12, <3>13, ReadStep
  <2> QED
    BY <1>11, <2>3, <2>4 DEF Relock
\* Everything is queued and the loop goes on, or the session ends at a refused frame.
<1>12. ASSUME NEW rest \in Seq(Chunks), NEW queued \in Sessions,
              queued.outbound = s[x].outbound, queued.pending = s[x].pending,
              queued.stuck = s[x].stuck, queued.closed = s[x].closed,
              queued.reason = s[x].reason, queued.counted = s[x].counted,
              Stream(Join(received[x], queued.inbound), queued.buffer, rest,
                     s[Peer(x)].pending, s[Peer(x)].outbound) = Carried(Peer(x)),
              s' = [s EXCEPT ![x] = queued], wire' = [wire EXCEPT ![x] = rest],
              sock' = Drained(x, rest), UNCHANGED worker
       PROVE  StepOf(x)
  <2>1. wire' \in [Ends -> Seq(Chunks)] /\ wire'[x] = rest /\ wire'[Peer(x)] = wire[Peer(x)]
    BY <1>9, <1>12, Zenon
  <2>2. sock' \in [Ends -> Nets] /\ \A e \in Ends : sock'[e].fin = sock[e].fin
    BY <1>5, <1>12, DrainedFacts
  <2>3. s'[x] = queued
    BY <1>8, <1>12, Zenon
  <2>4. sock'[x].fin = sock[x].fin /\ sock'[Peer(x)].fin = sock[Peer(x)].fin
    BY <1>1, <2>2
  <2>5. ClosingKept(x)
    BY <1>2, <1>3, <1>12, <2>3, <2>4 DEF ClosingKept
  <2>6. PICK pc \in {"wait", "drain", "recv", "decode", "end"} : worker' = [worker EXCEPT ![x] = pc]
    BY <1>2, <1>12 DEF TypeParts
  <2>7. PICK b2 \in Seq(Chunks) : b2 = queued.buffer
    BY DEF Sessions
  <2>8. Stream(Join(received[x], queued.inbound), b2, rest,
               s[Peer(x)].pending, s[Peer(x)].outbound) = Carried(Peer(x))
    BY <1>12, <2>7, Zenon
  <2> QED
    BY <1>3, <1>4, <1>12, <2>1, <2>2, <2>5, <2>6, <2>7, <2>8, ReadStep
<1>13. ASSUME NEW rest \in Seq(Chunks), NEW queued \in Sessions,
              queued.outbound = s[x].outbound, queued.pending = s[x].pending,
              queued.stuck = s[x].stuck, queued.closed = s[x].closed,
              queued.reason = s[x].reason, queued.counted = s[x].counted,
              Stream(Join(received[x], queued.inbound), queued.buffer, rest,
                     s[Peer(x)].pending, s[Peer(x)].outbound) = Carried(Peer(x)),
              s' = [s EXCEPT ![x] = MarkClosed(queued, "PROTOCOL_ERROR")],
              wire' = [wire EXCEPT ![x] = <<>>],
              sock' = release_socket(x, Drained(x, rest)),
              worker' = [worker EXCEPT ![x] = "end"]
       PROVE  StepOf(x)
  <2>1. PICK none \in Seq(Chunks) : none = <<>>
    BY EmptySeq
  <2>2. wire' \in [Ends -> Seq(Chunks)] /\ wire'[Peer(x)] = wire[Peer(x)]
    BY <1>9, <1>13, <2>1, Zenon
  <2>3. PICK net \in [Ends -> Nets] : net = Drained(x, rest) /\ net[x].fin = sock[x].fin
    BY <1>5, DrainedFacts
  <2>4. sock' \in [Ends -> Nets] /\ sock'[x] = net[x]
    BY <1>13, <2>3, ReleaseFacts
  <2>5. PICK st \in Sessions : st = MarkClosed(queued, "PROTOCOL_ERROR")
    BY <1>3, MarkClosedFacts
  <2>6. /\ st.closed /\ st.outbound = queued.outbound /\ st.pending = queued.pending
        /\ st.buffer = queued.buffer /\ st.inbound = queued.inbound
        /\ st.stuck = queued.stuck
        /\ queued.closed => st = queued
        /\ ~queued.closed => ~st.counted
    BY <1>3, <2>5, MarkClosedFacts
  <2>7. s' = [s EXCEPT ![x] = st]
    BY <1>13, <2>5, Zenon
  <2>8. s'[x] = st
    BY <1>8, <2>7, Zenon
  <2>9. PICK pc \in {"wait", "drain", "recv", "decode", "end"} : pc = "end"
    OBVIOUS
  <2>10. worker' = [worker EXCEPT ![x] = pc]
    BY <1>13, <2>9, Zenon
  <2>11. worker'[x] = "end"
    BY <1>10, <2>9, <2>10, Zenon
  <2>12. st.reason # "RESOURCE_LIMIT" => ~st.counted
    BY <1>2, <1>13, <2>6
  <2>13. ClosingKept(x)
    BY <1>13, <2>3, <2>4, <2>6, <2>8, <2>11, <2>12 DEF ClosingKept
  <2>14. PICK b2 \in Seq(Chunks) : b2 = queued.buffer
    BY DEF Sessions
  <2>15. Stream(Join(received[x], st.inbound), b2, rest,
                s[Peer(x)].pending, s[Peer(x)].outbound) = Carried(Peer(x))
    BY <1>13, <2>6, <2>14, Zenon
  <2>16. ~Live(x)'
    BY <2>11 DEF Live
  <2>17. st.pending = s[x].pending /\ st.outbound = s[x].outbound
    BY <1>13, <2>6
  <2> QED
    BY <1>3, <1>4, <2>2, <2>4, <2>7, <2>10, <2>13, <2>15, <2>16, <2>17, ReadStep
<1>14. ASSUME NEW n \in 1..Len(wire[x]), NEW rest, NEW d, NEW read, NEW queued,
              rest = SubSeq(wire[x], n + 1, Len(wire[x])),
              d = Decode(s[x].buffer \o SubSeq(wire[x], 1, n)),
              read = [s[x] EXCEPT !.buffer = d.rest],
              queued = [read EXCEPT !.inbound = @ \o d.frames],
              \/ /\ Relock(x, [read EXCEPT !.closed = TRUE, !.reason = "RESOURCE_LIMIT"])
                 /\ wire' = [wire EXCEPT ![x] = rest]
                 /\ sock' = Drained(x, rest)
              \/ /\ s' = [s EXCEPT ![x] = queued]
                 /\ wire' = [wire EXCEPT ![x] = rest]
                 /\ sock' = Drained(x, rest)
                 /\ UNCHANGED worker
              \/ /\ s' = [s EXCEPT ![x] = MarkClosed(queued, "PROTOCOL_ERROR")]
                 /\ wire' = [wire EXCEPT ![x] = <<>>]
                 /\ sock' = release_socket(x, Drained(x, rest))
                 /\ worker' = [worker EXCEPT ![x] = "end"]
       PROVE  StepOf(x)
  <2>1. /\ rest \in Seq(Chunks) /\ read \in Sessions /\ queued \in Sessions
        /\ read.outbound = s[x].outbound /\ read.pending = s[x].pending
        /\ read.inbound = s[x].inbound /\ read.stuck = s[x].stuck
        /\ queued.outbound = s[x].outbound /\ queued.pending = s[x].pending
        /\ queued.stuck = s[x].stuck /\ queued.closed = s[x].closed
        /\ queued.reason = s[x].reason /\ queued.counted = s[x].counted
        /\ Stream(Join(received[x], queued.inbound), queued.buffer, rest,
                  s[Peer(x)].pending, s[Peer(x)].outbound) = Carried(Peer(x))
    <3>a. /\ rest = SubSeq(wire[x], n + 1, Len(wire[x]))
          /\ d = Decode(s[x].buffer \o SubSeq(wire[x], 1, n))
          /\ read = [s[x] EXCEPT !.buffer = d.rest]
          /\ queued = [read EXCEPT !.inbound = @ \o d.frames]
      BY <1>14
    <3>1. n \in 0..Len(wire[x])
      OBVIOUS
    <3>2. PICK f2 \in Seq(Chunks), m2 \in Seq(Frames), w2 \in Seq(Chunks) :
             /\ f2 = d.rest /\ m2 = s[x].inbound \o d.frames /\ w2 = rest
             /\ Stream(Join(received[x], m2), f2, w2, s[Peer(x)].pending, s[Peer(x)].outbound)
                  = Carried(Peer(x))
      BY <1>4, <3>a, <3>1, ReadAndDecode, Zenon
    <3>3. read = [s[x] EXCEPT !.buffer = f2]
      BY <3>a, <3>2, Zenon
    <3>4. /\ read \in Sessions /\ read.outbound = s[x].outbound /\ read.pending = s[x].pending
          /\ read.inbound = s[x].inbound /\ read.stuck = s[x].stuck /\ read.buffer = f2
          /\ read.closed = s[x].closed /\ read.reason = s[x].reason
          /\ read.counted = s[x].counted
      BY <1>2, <3>3 DEF Sessions
    <3>5. queued = [read EXCEPT !.inbound = m2]
      BY <3>a, <3>2, <3>4, Zenon
    <3>6. /\ queued \in Sessions /\ queued.outbound = read.outbound
          /\ queued.pending = read.pending /\ queued.stuck = read.stuck
          /\ queued.closed = read.closed /\ queued.reason = read.reason
          /\ queued.counted = read.counted /\ queued.buffer = f2 /\ queued.inbound = m2
      BY <3>4, <3>5 DEF Sessions
    <3>7. rest \in Seq(Chunks)
      BY <3>2
    <3>8. Stream(Join(received[x], queued.inbound), queued.buffer, rest,
                 s[Peer(x)].pending, s[Peer(x)].outbound) = Carried(Peer(x))
      BY <3>2, <3>6, Zenon
    <3> QED
      BY <3>4, <3>6, <3>7, <3>8, Zenon
  <2>2. CASE /\ Relock(x, [read EXCEPT !.closed = TRUE, !.reason = "RESOURCE_LIMIT"])
             /\ wire' = [wire EXCEPT ![x] = rest]
             /\ sock' = Drained(x, rest)
    BY <1>11, <2>1, <2>2, Zenon
  <2>3. CASE /\ s' = [s EXCEPT ![x] = queued]
             /\ wire' = [wire EXCEPT ![x] = rest]
             /\ sock' = Drained(x, rest)
             /\ UNCHANGED worker
    BY <1>12, <2>1, <2>3, Zenon
  <2>4. CASE /\ s' = [s EXCEPT ![x] = MarkClosed(queued, "PROTOCOL_ERROR")]
             /\ wire' = [wire EXCEPT ![x] = <<>>]
             /\ sock' = release_socket(x, Drained(x, rest))
             /\ worker' = [worker EXCEPT ![x] = "end"]
    BY <1>13, <2>1, <2>4, Zenon
  <2> QED
    BY <1>14, <2>2, <2>3, <2>4, Zenon
<1>15. ASSUME NEW n \in 1..Len(wire[x]),
              LET rest == SubSeq(wire[x], n + 1, Len(wire[x]))
                  d == Decode(s[x].buffer \o SubSeq(wire[x], 1, n))
                  read == [s[x] EXCEPT !.buffer = d.rest]
                  queued == [read EXCEPT !.inbound = @ \o d.frames]
              IN  \/ /\ Relock(x, [read EXCEPT !.closed = TRUE, !.reason = "RESOURCE_LIMIT"])
                     /\ wire' = [wire EXCEPT ![x] = rest]
                     /\ sock' = Drained(x, rest)
                  \/ /\ s' = [s EXCEPT ![x] = queued]
                     /\ wire' = [wire EXCEPT ![x] = rest]
                     /\ sock' = Drained(x, rest)
                     /\ UNCHANGED worker
                  \/ /\ s' = [s EXCEPT ![x] = MarkClosed(queued, "PROTOCOL_ERROR")]
                     /\ wire' = [wire EXCEPT ![x] = <<>>]
                     /\ sock' = release_socket(x, Drained(x, rest))
                     /\ worker' = [worker EXCEPT ![x] = "end"]
       PROVE  StepOf(x)
  BY <1>14, <1>15
<1> QED
  BY <1>6, <1>7, <1>15 DEF windows_recv

-----------------------------------------------------------------------------
(***************************************************************************)
(* The invariant holds.                                                    *)
(***************************************************************************)
LEMMA StreamOfNothing == Stream(<<>>, <<>>, <<>>, <<>>, <<>>) = Encoded(<<>>)
<1>1. PICK c \in Seq(Chunks) : c = <<>>
  BY EmptySeq
<1>2. Cat(c, c) = c
  BY <1>1, ConcatEmptySeq DEF Cat
<1> QED
  BY <1>1, <1>2, EncodedNone, Zenon DEF Stream

LEMMA InitInv == Init => TransportInv
<1> SUFFICES ASSUME Init PROVE TransportInv
  OBVIOUS
<1>1. <<>> \in Seq(Frames) /\ <<>> \in Seq(Chunks) /\ "NONE" \in Reasons
  BY EmptySeq DEF Reasons
<1>2. /\ s = [e \in Ends |->
                [outbound |-> <<>>, pending |-> <<>>, buffer |-> <<>>, inbound |-> <<>>,
                 closed |-> FALSE, stop_requested |-> FALSE, reason |-> "NONE",
                 counted |-> e = "server", stuck |-> FALSE, attached |-> TRUE]]
      /\ sock = [e \in Ends |-> [events |-> {"write"}, wake |-> FALSE,
                                 blocked |-> FALSE, fin |-> FALSE]]
  BY DEF Init
<1>3. s \in [Ends -> Sessions] /\ sock \in [Ends -> Nets]
  BY <1>1, <1>2 DEF Sessions, Nets
<1>4. TypeParts
  BY <1>1, <1>3 DEF Init, TypeParts
<1>5. TypeOK
  BY <1>4, TypeByParts
<1>6. ASSUME NEW e \in Ends
      PROVE  /\ s[e].outbound = <<>> /\ s[e].pending = <<>> /\ s[e].buffer = <<>>
             /\ s[e].inbound = <<>> /\ ~s[e].closed /\ ~s[e].stuck
             /\ wire[e] = <<>> /\ received[e] = <<>> /\ accepted[e] = <<>>
             /\ ~sock[e].fin /\ worker[e] # "end" /\ closer[e] # "done"
  BY <1>2 DEF Init
<1>7. ASSUME NEW e \in Ends PROVE Got(e) = <<>>
  <2>1. Got(e) = Join(<<>>, <<>>)
    BY <1>6 DEF Got
  <2>2. Join(<<>>, <<>>) = <<>>
    BY <1>1, ConcatEmptySeq DEF Join
  <2> QED
    BY <2>1, <2>2
<1>8. StreamInv
  <2>1. SUFFICES ASSUME NEW e \in Ends PROVE Intact(e)
    BY DEF StreamInv
  <2>2. Peer(e) \in Ends
    BY PeerFacts
  <2>3. Carried(e) = Stream(<<>>, <<>>, <<>>, <<>>, <<>>)
    BY <1>6, <1>7, <2>2 DEF Carried
  <2> QED
    BY <1>6, <2>3, StreamOfNothing DEF Intact
<1>9. OrderInv
  <2>1. SUFFICES ASSUME NEW e \in Ends PROVE Begins(Got(e), accepted[Peer(e)])
    BY DEF OrderInv
  <2>2. Got(e) = <<>> /\ accepted[Peer(e)] = <<>>
    BY <1>6, <1>7, PeerFacts
  <2>3. Begins(<<>>, <<>>)
    BY DEF Begins
  <2> QED
    BY <2>2, <2>3
<1>10. EndInv /\ SlotInv
  BY <1>6 DEF EndInv, SlotInv
<1> QED
  BY <1>5, <1>8, <1>9, <1>10 DEF TransportInv

LEMMA NextKeepsInv == TransportInv /\ [Next]_vars => TransportInv'
<1> SUFFICES ASSUME TransportInv, [Next]_vars PROVE TransportInv'
  OBVIOUS
<1>1. ASSUME NEW e \in Ends, send(e) PROVE StepOf(e)
  BY <1>1, SendStep
<1>2. ASSUME NEW e \in Ends, receive_begin(e) PROVE StepOf(e)
  BY <1>2, ReaderStep
<1>3. ASSUME NEW e \in Ends, receive_end(e) PROVE StepOf(e)
  BY <1>3, ReceiveStep
<1>4. ASSUME NEW e \in Ends, receive_after_reset(e) PROVE StepOf(e)
  BY <1>4, ReaderStep
<1>5. ASSUME NEW e \in Ends, close_begin(e) PROVE StepOf(e)
  BY <1>5, CloseBeginStep
<1>6. ASSUME NEW e \in Ends, close_end(e) PROVE StepOf(e)
  BY <1>6, CloseEndStep
<1>7. ASSUME NEW e \in Ends, windows_wait(e) PROVE StepOf(e)
  BY <1>7, WaitStep
<1>8. ASSUME NEW e \in Ends, windows_drain(e) PROVE StepOf(e)
  BY <1>8, DrainStep
<1>9. ASSUME NEW e \in Ends, windows_recv(e) PROVE StepOf(e)
  BY <1>9, RecvStep
<1>10. ASSUME NEW e \in Ends, posix_poll(e) PROVE StepOf(e)
  BY <1>10, PollStep
<1>11. ASSUME NEW e \in Ends, posix_drain(e) PROVE StepOf(e)
  BY <1>11, DrainStep
<1>12. ASSUME NEW e \in Ends, posix_decode(e) PROVE StepOf(e)
  BY <1>12, DecodeStep
<1>13. CASE Next
  <2>1. \E e \in Ends : StepOf(e)
    BY <1>1, <1>2, <1>3, <1>4, <1>5, <1>6, <1>7, <1>8, <1>9, <1>10, <1>11, <1>12, <1>13
    DEF Next, session_loop
  <2> QED
    BY <2>1, StepKeepsInv
<1>14. CASE UNCHANGED vars
  BY <1>14 DEF vars, TransportInv, TypeOK, StreamInv, OrderInv, EndInv, SlotInv,
               Live, Intact, Carried, Got
<1> QED
  BY <1>13, <1>14

LEMMA Invariance == Spec => []TransportInv
<1>1. Init => TransportInv
  BY InitInv
<1>2. TransportInv /\ [Next]_vars => TransportInv'
  BY NextKeepsInv
<1> QED
  BY <1>1, <1>2, PTL DEF Spec

-----------------------------------------------------------------------------
(***************************************************************************)
(* What follows from it.                                                   *)
(***************************************************************************)
\* The state of a connection keeps its types: a decode of whatever a partial read left in
\* the buffer only ever yields frames, and what it leaves is again chunks of frames.
THEOREM TypeCorrect == Spec => []TypeOK
<1>1. TransportInv => TypeOK
  BY DEF TransportInv
<1> QED
  BY <1>1, Invariance, PTL

LEMMA InvConserves == TransportInv => FramesConserved
<1> SUFFICES ASSUME TransportInv, NEW e \in Ends,
                    ~s[e].closed, ~s[Peer(e)].closed, ~s[Peer(e)].stuck
             PROVE  Encoded(received[Peer(e)] \o s[Peer(e)].inbound) \o s[Peer(e)].buffer
                      \o wire[Peer(e)] \o s[e].pending \o Encoded(s[e].outbound)
                        = Encoded(accepted[e])
  BY DEF FramesConserved
<1>1. Peer(e) \in Ends
  BY PeerFacts
<1>2. Live(Peer(e))
  BY <1>1 DEF TransportInv, EndInv, Live
<1>3. Intact(e)
  BY <1>2 DEF TransportInv, StreamInv
<1> QED
  BY <1>3 DEF Intact, Carried, Stream, Cat, Got, Join

\* While neither end has closed, every accepted frame is on its way exactly once, in
\* order and whole, wherever the writes, reads and decodes of either session loop cut it.
THEOREM FramesStayConserved == Spec => []FramesConserved
<1>1. TransportInv => FramesConserved
  BY InvConserves
<1> QED
  BY <1>1, Invariance, PTL

LEMMA InvOrders == TransportInv => DeliveredInOrder
<1> SUFFICES ASSUME TransportInv, NEW e \in Ends
             PROVE  IsPrefix(received[Peer(e)] \o s[Peer(e)].inbound, accepted[e])
  BY DEF DeliveredInOrder
<1>1. PICK p \in Ends : p = Peer(e) /\ Peer(p) = e
  BY PeerFacts
<1>2. Begins(Got(p), accepted[e])
  BY <1>1 DEF TransportInv, OrderInv
<1>3. PICK d \in Seq(Frames), a \in Seq(Frames) : d = Got(p) /\ a = accepted[e]
  BY <1>1, StreamTypes
<1>4. IsPrefix(d, a)
  BY <1>2, <1>3, BeginsIsPrefix
<1>5. d = received[Peer(e)] \o s[Peer(e)].inbound
  BY <1>1, <1>3, Zenon DEF Got, Join
<1> QED
  BY <1>3, <1>4, <1>5, Zenon

\* Whatever closes and whenever, receive() hands out a prefix of what send() accepted.
THEOREM DeliveryInOrder == Spec => []DeliveredInOrder
<1>1. TransportInv => DeliveredInOrder
  BY InvOrders
<1> QED
  BY <1>1, Invariance, PTL

\* A close() that has returned has given the listener its slot back, whoever called
\* mark_closed first, unless the receive queue overflowed.
THEOREM SlotReleased == Spec => []ClosedReleasesSlot
<1>1. TransportInv => ClosedReleasesSlot
  BY DEF TransportInv, SlotInv, ClosedReleasesSlot
<1> QED
  BY <1>1, Invariance, PTL

=============================================================================
