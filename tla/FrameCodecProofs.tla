-------------------------- MODULE FrameCodecProofs --------------------------
(***************************************************************************)
(* The codec, for bytes, fields and thresholds of every size: what was     *)
(* encoded comes out of the decoder, in order and once, however the bytes  *)
(* were cut, and what decoding leaves behind is less than a frame.         *)
(*                                                                         *)
(* ReadNetwork and NextFrames are defined by recursion.  That a recursion  *)
(* over bytes has a solution, and what it computes, is shown by looking at *)
(* the least number for which it would not be so.                          *)
(***************************************************************************)
EXTENDS FrameCodec, SequenceTheorems, FiniteSetTheorems, WellFoundedInduction, TLAPS

LEMMA BaseIsNat == Base \in Nat /\ Base > 1
BY CodecAssumption

LEMMA LeastNumber ==
    ASSUME NEW S, S \subseteq Nat, S # {}
    PROVE  \E n \in S : \A m \in S : n <= m
<1> DEFINE R == OpToRel(<, Nat)
<1>1. IsWellFoundedOn(R, Nat)
    BY NatLessThanWellFounded
<1>2. \A m, n \in Nat : <<m, n>> \in R <=> m < n
    BY DEF OpToRel
<1> HIDE DEF R
<1>3. PICK n \in S : \A m \in S : ~(<<m, n>> \in R)
    BY <1>1, WFMin
<1>4. \A m \in S : ~(m < n)
    BY <1>2, <1>3
<1>5. \A m \in S : m \in Nat /\ n \in Nat
    OBVIOUS
<1>6. \A m \in S : n <= m
    BY <1>4, <1>5
<1> QED  BY <1>6

\* One step of a recursion: done at d, or the value at a smaller place.
Step(done, base, succ, comb, f, d) ==
    IF d \in done THEN base[d] ELSE comb[<<d, f[succ[d]]>>]

\* A function that solves the recursion below rank n.
Solves(D, T, rank, done, base, succ, comb, n, g) ==
    LET Dn == {d \in D : rank[d] < n}
    IN  g \in [Dn -> T] /\ \A d \in Dn : g[d] = Step(done, base, succ, comb, g, d)

HasSolution(D, T, done, base, succ, comb) ==
    \E f \in [D -> T] : \A d \in D : f[d] = Step(done, base, succ, comb, f, d)

\* Every step goes to a smaller rank.
Descends(D, rank, done, succ) ==
    \A d \in D : d \notin done => rank[succ[d]] < rank[d]

\* A recursion that goes to a smaller rank in each step has a solution.
LEMMA RecursionHasSolution ==
    ASSUME NEW D, NEW T, NEW rank \in [D -> Nat], NEW done, NEW base \in [D -> T],
           NEW succ \in [D -> D], NEW comb \in [D \X T -> T],
           Descends(D, rank, done, succ)
    PROVE  HasSolution(D, T, done, base, succ, comb)
<1> DEFINE Dn(n) == {d \in D : rank[d] < n}
           Sol(n, g) == Solves(D, T, rank, done, base, succ, comb, n, g)
           St(f, d) == Step(done, base, succ, comb, f, d)
<1>0. \A d \in D : d \notin done => rank[succ[d]] < rank[d]
    BY DEF Descends
<1>1. \A n \in Nat : \E g : Sol(n, g)
    <2> SUFFICES ASSUME NEW k \in Nat, ~\E g : Sol(k, g)  PROVE FALSE
        OBVIOUS
    <2> DEFINE Bad == {n \in Nat : ~\E g : Sol(n, g)}
    <2>1. PICK n \in Bad : \A m \in Bad : n <= m
        <3>1. Bad \subseteq Nat /\ Bad # {}
            OBVIOUS
        <3> HIDE DEF Bad
        <3> QED  BY <3>1, LeastNumber
    <2>2. n \in Nat /\ ~\E g : Sol(n, g)
        BY <2>1
    <2>3. CASE n = 0
        <3>1. Dn(0) = {}
            OBVIOUS
        <3>2. Sol(0, [d \in {} |-> d])
            BY <3>1 DEF Solves
        <3> QED  BY <2>2, <2>3, <3>2
    <2>4. CASE n # 0
        <3>1. n - 1 \in Nat /\ n - 1 \notin Bad
            BY <2>1, <2>2, <2>4
        <3>2. PICK g : Sol(n - 1, g)
            BY <3>1
        <3> DEFINE h == [d \in Dn(n) |-> St(g, d)]
        <3>3. \A d \in Dn(n) : d \notin done => succ[d] \in Dn(n - 1) /\ succ[d] \in Dn(n)
            BY <1>0, <2>2
        <3>4. g \in [Dn(n - 1) -> T] /\ \A d \in Dn(n - 1) : g[d] = St(g, d)
            BY <3>2 DEF Solves
        <3>5. \A d \in Dn(n) : St(g, d) \in T
            BY <3>3, <3>4 DEF Step
        <3>6. h \in [Dn(n) -> T]
            BY <3>5
        <3>7. \A d \in Dn(n - 1) : h[d] = g[d]
            BY <2>2, <3>4
        <3>8. \A d \in Dn(n) : h[d] = St(h, d)
            <4> SUFFICES ASSUME NEW d \in Dn(n)  PROVE St(g, d) = St(h, d)
                OBVIOUS
            <4> QED  BY <3>3, <3>7 DEF Step
        <3>9. Sol(n, h)
            BY <3>6, <3>8 DEF Solves
        <3> QED  BY <2>2, <3>9
    <2> QED  BY <2>3, <2>4
<1>2. ASSUME NEW m \in Nat, NEW n \in Nat, NEW g, NEW h, Sol(m, g), Sol(n, h)
      PROVE  \A d \in Dn(m) \cap Dn(n) : g[d] = h[d]
    <2> DEFINE Off == {d \in Dn(m) \cap Dn(n) : g[d] # h[d]}
               Bad == {rank[d] : d \in Off}
    <2> SUFFICES ASSUME Off # {}  PROVE FALSE
        OBVIOUS
    <2>1. PICK r \in Bad : \A s \in Bad : r <= s
        <3>1. Bad \subseteq Nat /\ Bad # {}
            OBVIOUS
        <3> HIDE DEF Bad
        <3> QED  BY <3>1, LeastNumber
    <2>2. PICK d \in Off : r = rank[d]
        BY <2>1
    <2>3. g[d] = St(g, d) /\ h[d] = St(h, d)
        BY <1>2 DEF Solves
    <2>4. d \notin done
        BY <2>3 DEF Step
    <2>5. succ[d] \in Dn(m) \cap Dn(n) /\ rank[succ[d]] < r
        BY <1>0, <2>2, <2>4
    <2>6. succ[d] \notin Off
        <3>1. rank[succ[d]] \in Nat /\ r \in Nat
            BY <2>2
        <3>2. ~(r <= rank[succ[d]])
            BY <2>5, <3>1
        <3> QED  BY <2>1, <3>2
    <2>7. g[succ[d]] = h[succ[d]]
        BY <2>5, <2>6
    <2>8. St(g, d) = St(h, d)
        BY <2>4, <2>7 DEF Step
    <2> QED  BY <2>2, <2>3, <2>8
<1> DEFINE G(n) == CHOOSE g : Sol(n, g)
           f == [d \in D |-> G(rank[d] + 1)[d]]
<1>3. \A n \in Nat : Sol(n, G(n))
    BY <1>1
<1> HIDE DEF G, Sol
<1>4. \A d \in D : d \in Dn(rank[d] + 1) /\ rank[d] + 1 \in Nat
    OBVIOUS
<1>5. \A n \in Nat : G(n) \in [Dn(n) -> T] /\ \A d \in Dn(n) : G(n)[d] = St(G(n), d)
    BY <1>3 DEF Solves, Sol
<1>6. f \in [D -> T]
    BY <1>4, <1>5
<1>7. ASSUME NEW d \in D  PROVE  f[d] = St(f, d)
    <2>1. f[d] = St(G(rank[d] + 1), d)
        BY <1>4, <1>5
    <2>2. CASE d \in done
        BY <2>1, <2>2 DEF Step
    <2>3. CASE d \notin done
        <3>1. succ[d] \in Dn(rank[d] + 1) \cap Dn(rank[succ[d]] + 1)
            BY <1>0, <1>4, <2>3
        <3>2. G(rank[d] + 1)[succ[d]] = G(rank[succ[d]] + 1)[succ[d]]
            BY <1>2, <1>3, <1>4, <3>1
        <3>3. f[succ[d]] = G(rank[succ[d]] + 1)[succ[d]]
            OBVIOUS
        <3> QED  BY <2>1, <2>3, <3>2, <3>3 DEF Step
    <2> QED  BY <2>2, <2>3
<1> QED  BY <1>6, <1>7 DEF HasSolution

-----------------------------------------------------------------------------
(* ReadNetwork.                                                            *)

\* A nonempty set of places in a sequence has a greatest one.
LEMMA MaxOfPlaces ==
    ASSUME NEW n \in Nat, NEW t \in SUBSET (1 .. n), t # {}
    PROVE  Max(t) \in t /\ \A i \in t : Max(t) >= i
<1> DEFINE S == {n - i : i \in t}
<1>1. S \subseteq Nat /\ S # {}
    <2>1. \A i \in t : n - i \in Nat
        OBVIOUS
    <2> QED  BY <2>1
<1>2. PICK m \in S : \A k \in S : m <= k
    <2> HIDE DEF S
    <2> QED  BY <1>1, LeastNumber
<1>3. PICK x \in t : m = n - x
    BY <1>2
<1>4. \A i \in t : n - x <= n - i
    BY <1>2, <1>3
<1>5. \A i \in t : x >= i
    BY <1>4
<1> QED  BY <1>5 DEF Max

\* Whoever reads the bytes in their order, as the shifts of ReadNetworkUint32
\* do, has the value of those read so far.
Reads(v, s) ==
    /\ v \in [0 .. Len(s) -> Nat]
    /\ v[0] = 0
    /\ \A k \in 1 .. Len(s) : v[k] = v[k - 1] * Base + s[k]

LEMMA ReadNetworkReads ==
    ASSUME NEW s \in Seq(0 .. Base - 1)
    PROVE  \E v : Reads(v, s) /\ ReadNetwork(s) = v[Len(s)]
<1> DEFINE D == SUBSET (1 .. Len(s))
           iter == CHOOSE g : g = [t \in SUBSET DOMAIN s |->
                     IF t = {} THEN 0 ELSE g[t \ {Max(t)}] * Base + s[Max(t)]]
           Def(g) == [t \in D |-> IF t = {} THEN 0
                                  ELSE g[t \ {Max(t)}] * Base + s[Max(t)]]
<1>1. ReadNetwork(s) = iter[DOMAIN s]
    BY DEF ReadNetwork, FoldLeft, MapThenFoldSet
<1>2. DOMAIN s = 1 .. Len(s) /\ Len(s) \in Nat /\ \A k \in 1 .. Len(s) : s[k] \in Nat
    BY CodecAssumption
<1>3. \A t \in D : t # {} => Max(t) \in t /\ \A i \in t : Max(t) >= i
    BY <1>2, MaxOfPlaces
<1>4. \E g \in [D -> Nat] : g = Def(g)
    <2> DEFINE rank == [t \in D |-> Cardinality(t)]
               done == {{}}
               base == [t \in D |-> 0]
               succ == [t \in D |-> t \ {Max(t)}]
               comb == [p \in D \X Nat |->
                          IF p[1] = {} THEN 0 ELSE p[2] * Base + s[Max(p[1])]]
    <2>1. \A t \in D : IsFiniteSet(t)
        <3>1. IsFiniteSet(1 .. Len(s))
            BY <1>2, FS_Interval
        <3> QED  BY <3>1, FS_Subset
    <2>2. rank \in [D -> Nat]
        BY <2>1, FS_CardinalityType
    <2>3. base \in [D -> Nat] /\ succ \in [D -> D]
        OBVIOUS
    <2>4. comb \in [D \X Nat -> Nat]
        <3> SUFFICES ASSUME NEW t \in D, NEW n \in Nat, t # {}
                     PROVE  n * Base + s[Max(t)] \in Nat
            OBVIOUS
        <3>1. s[Max(t)] \in Nat
            BY <1>2, <1>3
        <3> QED  BY <3>1, BaseIsNat
    <2>5. Descends(D, rank, done, succ)
        <3> SUFFICES ASSUME NEW t \in D, t # {}
                     PROVE  Cardinality(t \ {Max(t)}) < Cardinality(t)
            BY <2>3 DEF Descends
        <3>1. IsFiniteSet(t) /\ Max(t) \in t
            BY <1>3, <2>1
        <3>2. Cardinality(t) \in Nat /\ Cardinality(t \ {Max(t)}) = Cardinality(t) - 1
            BY <3>1, FS_RemoveElement, FS_CardinalityType
        <3> QED  BY <3>2
    <2>6. PICK g \in [D -> Nat] : \A t \in D : g[t] = Step(done, base, succ, comb, g, t)
        <3>1. HasSolution(D, Nat, done, base, succ, comb)
            <4> HIDE DEF D, rank, done, base, succ, comb
            <4> QED  BY <2>2, <2>3, <2>4, <2>5, RecursionHasSolution
        <3> HIDE DEF D, done, base, succ, comb
        <3> QED  BY <3>1 DEF HasSolution
    <2>7. \A t \in D : g[t] = IF t = {} THEN 0 ELSE g[t \ {Max(t)}] * Base + s[Max(t)]
        BY <2>3, <2>6 DEF Step
    <2>8. g = Def(g)
        BY <2>7
    <2> QED  BY <2>8
<1>5. iter = Def(iter)
    BY <1>2, <1>4
<1> HIDE DEF iter
<1> DEFINE v == [k \in 0 .. Len(s) |-> iter[1 .. k]]
<1>6. iter[{}] = 0
    BY <1>5
<1>7. ASSUME NEW k \in 1 .. Len(s)
      PROVE  iter[1 .. k] = iter[1 .. k - 1] * Base + s[k]
    <2>1. 1 .. k \in D /\ 1 .. k # {}
        <3>1. \A i \in 1 .. k : i \in 1 .. Len(s)
            BY <1>2
        <3>2. 1 \in 1 .. k
            BY <1>2
        <3> QED  BY <3>1, <3>2
    <2>2. Max(1 .. k) = k
        <3>1. Max(1 .. k) \in 1 .. k /\ \A i \in 1 .. k : Max(1 .. k) >= i
            BY <1>3, <2>1
        <3> QED  BY <3>1
    <2>3. (1 .. k) \ {k} = 1 .. k - 1
        OBVIOUS
    <2> HIDE DEF D
    <2>4. iter[1 .. k] = iter[(1 .. k) \ {Max(1 .. k)}] * Base + s[Max(1 .. k)]
        BY <1>5, <2>1
    <2> QED  BY <2>2, <2>3, <2>4
<1>8. \A k \in 0 .. Len(s) : iter[1 .. k] \in Nat
    <2> DEFINE Bad == {k \in 0 .. Len(s) : iter[1 .. k] \notin Nat}
    <2> SUFFICES ASSUME Bad # {}  PROVE FALSE
        OBVIOUS
    <2>1. Bad \subseteq Nat
        OBVIOUS
    <2>2. PICK k \in Bad : \A j \in Bad : k <= j
        <3> HIDE DEF Bad
        <3> QED  BY <2>1, LeastNumber
    <2>3. k # 0
        <3>1. 1 .. 0 = {}
            OBVIOUS
        <3> QED  BY <1>6, <3>1
    <2>4. k \in 1 .. Len(s) /\ k - 1 \in 0 .. Len(s)
        BY <1>2, <2>3
    <2>5. iter[1 .. k - 1] \in Nat
        <3>1. ~(k <= k - 1)
            BY <2>4
        <3> QED  BY <2>2, <2>4, <3>1
    <2>6. iter[1 .. k] = iter[1 .. k - 1] * Base + s[k]
        BY <1>7, <2>4
    <2>7. iter[1 .. k] \in Nat
        <3>1. s[k] \in Nat
            BY <1>2, <2>4
        <3>2. \A n \in Nat, b \in Nat : n * Base + b \in Nat
            BY BaseIsNat
        <3> QED  BY <2>5, <2>6, <3>1, <3>2
    <2> QED  BY <2>7
<1>9. Reads(v, s)
    <2>1. v \in [0 .. Len(s) -> Nat]
        BY <1>8
    <2>2. v[0] = 0
        <3>1. 1 .. 0 = {} /\ 0 \in 0 .. Len(s)
            BY <1>2
        <3> QED  BY <1>6, <3>1
    <2>3. \A k \in 1 .. Len(s) : v[k] = v[k - 1] * Base + s[k]
        <3> SUFFICES ASSUME NEW k \in 1 .. Len(s)  PROVE v[k] = v[k - 1] * Base + s[k]
            OBVIOUS
        <3>1. k \in 0 .. Len(s) /\ k - 1 \in 0 .. Len(s)
            BY <1>2
        <3> QED  BY <1>7, <3>1
    <2> QED  BY <2>1, <2>2, <2>3 DEF Reads
<1>10. ReadNetwork(s) = v[Len(s)]
    BY <1>1, <1>2
<1> QED  BY <1>9, <1>10

\* The value of a field is a number.
LEMMA ReadNetworkType ==
    ASSUME NEW s \in Seq(0 .. Base - 1)
    PROVE  ReadNetwork(s) \in Nat
<1>1. PICK v : Reads(v, s) /\ ReadNetwork(s) = v[Len(s)]
    BY ReadNetworkReads
<1>2. Len(s) \in 0 .. Len(s)
    OBVIOUS
<1> QED  BY <1>1, <1>2 DEF Reads

-----------------------------------------------------------------------------
(* Bytes and frames.                                                       *)

\* A part of a sequence of bytes.
LEMMA PartOfBytes ==
    ASSUME NEW s \in Bytes, NEW m \in 1 .. Len(s) + 1, NEW n \in m - 1 .. Len(s)
    PROVE  /\ SubSeq(s, m, n) \in Bytes
           /\ Len(SubSeq(s, m, n)) = n - m + 1
<1> s \in Seq(0 .. Base - 1) /\ Len(s) \in Nat
    BY LenProperties DEF Bytes
<1>1. m \in Int /\ n \in Int
    OBVIOUS
<1>2. \A i \in m .. n : s[i] \in 0 .. Base - 1
    <2>1. \A i \in 1 .. Len(s) : s[i] \in 0 .. Base - 1
        BY ElementOfSeq
    <2>2. \A i \in m .. n : i \in 1 .. Len(s)
        BY <1>1
    <2> QED  BY <2>1, <2>2
<1>3. /\ SubSeq(s, m, n) \in Seq(0 .. Base - 1)
      /\ Len(SubSeq(s, m, n)) = IF m <= n THEN n - m + 1 ELSE 0
    BY <1>1, <1>2, SubSeqProperties
<1> QED  BY <1>1, <1>3 DEF Bytes

\* ValuesOf is what its recursive definition says.
LEMMA ValuesOfUnfolds ==
    ASSUME NEW n \in Nat
    PROVE  ValuesOf[n] = IF n = 0 THEN 1 ELSE Base * ValuesOf[n - 1]
<1> DEFINE Def(g, x) == IF x = 0 THEN 1 ELSE Base * g[x - 1]
           rank == [x \in Nat |-> x]
           done == {0}
           base == [x \in Nat |-> 1]
           succ == [x \in Nat |-> IF x = 0 THEN 0 ELSE x - 1]
           comb == [p \in Nat \X Nat |-> Base * p[2]]
<1>1. rank \in [Nat -> Nat] /\ base \in [Nat -> Nat] /\ succ \in [Nat -> Nat]
    OBVIOUS
<1>2. comb \in [Nat \X Nat -> Nat]
    BY CodecAssumption
<1>3. Descends(Nat, rank, done, succ)
    BY DEF Descends
<1>4. HasSolution(Nat, Nat, done, base, succ, comb)
    <2> HIDE DEF rank, done, base, succ, comb
    <2> QED  BY <1>1, <1>2, <1>3, RecursionHasSolution
<1>5. PICK g \in [Nat -> Nat] : \A x \in Nat : g[x] = Step(done, base, succ, comb, g, x)
    BY <1>4 DEF HasSolution
<1>6. \A x \in Nat : g[x] = Def(g, x)
    <2> SUFFICES ASSUME NEW x \in Nat  PROVE g[x] = Def(g, x)
        OBVIOUS
    <2>1. CASE x = 0
        BY <1>5, <2>1 DEF Step
    <2>2. CASE x # 0
        <3>1. x \notin done /\ succ[x] = x - 1 /\ x - 1 \in Nat
            BY <2>2
        <3>2. comb[<<x, g[x - 1]>>] = Base * g[x - 1]
            BY <3>1
        <3> HIDE DEF done, succ, comb
        <3> QED  BY <1>5, <2>2, <3>1, <3>2 DEF Step
    <2> QED  BY <2>1, <2>2
<1>7. g = [x \in Nat |-> Def(g, x)]
    <2> HIDE DEF Def
    <2> QED  BY <1>6
<1>8. ValuesOf = CHOOSE f : f = [x \in Nat |-> Def(f, x)]
    BY DEF ValuesOf
<1>9. ValuesOf = [x \in Nat |-> Def(ValuesOf, x)]
    <2> HIDE DEF Def
    <2> QED  BY <1>7, <1>8
<1> QED  BY <1>9

LEMMA ValuesOfType ==
    ASSUME NEW k \in Nat
    PROVE  ValuesOf[k] \in Nat /\ ValuesOf[k] > 0
<1> DEFINE Bad == {n \in Nat : ~(ValuesOf[n] \in Nat /\ ValuesOf[n] > 0)}
<1> SUFFICES ASSUME Bad # {}  PROVE FALSE
    OBVIOUS
<1>1. PICK n \in Bad : \A m \in Bad : n <= m
    <2>1. Bad \subseteq Nat
        OBVIOUS
    <2> HIDE DEF Bad
    <2> QED  BY <2>1, LeastNumber
<1>2. n \in Nat /\ ~(ValuesOf[n] \in Nat /\ ValuesOf[n] > 0)
    BY <1>1
<1>3. n # 0
    BY <1>2, ValuesOfUnfolds
<1>4. n - 1 \in Nat /\ n - 1 \notin Bad
    BY <1>1, <1>2, <1>3
<1>5. ValuesOf[n - 1] \in Nat /\ ValuesOf[n - 1] > 0
    BY <1>4
<1>6. ValuesOf[n] = Base * ValuesOf[n - 1]
    BY <1>2, <1>3, ValuesOfUnfolds
<1>7. \A v \in Nat : v > 0 => Base * v \in Nat /\ Base * v > 0
    BY CodecAssumption
<1> QED  BY <1>2, <1>5, <1>6, <1>7

\* An encoded frame is a sequence of bytes.
LEMMA NetworkBytesType ==
    ASSUME NEW v \in Nat
    PROVE  NetworkBytes(v) \in Bytes /\ Len(NetworkBytes(v)) = FieldSize
<1>1. \A k \in 1 .. FieldSize : (v \div ValuesOf[FieldSize - k]) % Base \in 0 .. Base - 1
    <2> SUFFICES ASSUME NEW k \in 1 .. FieldSize
                 PROVE  (v \div ValuesOf[FieldSize - k]) % Base \in 0 .. Base - 1
        OBVIOUS
    <2>1. ValuesOf[FieldSize - k] \in Nat /\ ValuesOf[FieldSize - k] > 0
        BY CodecAssumption, ValuesOfType
    <2>2. v \div ValuesOf[FieldSize - k] \in Nat
        BY <2>1
    <2> QED  BY <2>2, CodecAssumption
<1> QED  BY <1>1, CodecAssumption DEF NetworkBytes, Bytes

LEMMA EncodedIsBytes ==
    ASSUME NEW m \in [id : Nat, payload : Bytes]
    PROVE  /\ EncodeFrame(m) \in Bytes
           /\ Len(EncodeFrame(m)) = FieldSize + FieldSize + Len(m.payload)
<1>1. Len(m.payload) \in Nat /\ m.id \in Nat /\ m.payload \in Bytes
    BY DEF Bytes
<1>2. /\ NetworkBytes(Len(m.payload)) \in Bytes /\ NetworkBytes(m.id) \in Bytes
      /\ Len(NetworkBytes(Len(m.payload))) = FieldSize /\ Len(NetworkBytes(m.id)) = FieldSize
    BY <1>1, NetworkBytesType
<1>3. FieldSize \in Nat
    BY CodecAssumption
<1> DEFINE size == NetworkBytes(Len(m.payload))
           id == NetworkBytes(m.id)
<1> HIDE DEF size, id
<1>4. size \o id \in Bytes /\ Len(size \o id) = FieldSize + FieldSize
    <2>1. /\ size \in Seq(0 .. Base - 1) /\ id \in Seq(0 .. Base - 1)
          /\ Len(size) = FieldSize /\ Len(id) = FieldSize
        BY <1>2 DEF Bytes, size, id
    <2>2. size \o id \in Seq(0 .. Base - 1) /\ Len(size \o id) = Len(size) + Len(id)
        BY <2>1, ConcatProperties
    <2> QED  BY <2>1, <2>2 DEF Bytes
<1>5. EncodeFrame(m) = (size \o id) \o m.payload
    BY DEF EncodeFrame, size, id
<1> DEFINE header == size \o id
<1>6. /\ header \in Seq(0 .. Base - 1) /\ Len(header) = FieldSize + FieldSize
      /\ m.payload \in Seq(0 .. Base - 1)
    BY <1>1, <1>4 DEF Bytes
<1> HIDE DEF header
<1>7. /\ header \o m.payload \in Seq(0 .. Base - 1)
      /\ Len(header \o m.payload) = Len(header) + Len(m.payload)
    BY <1>6, ConcatProperties
<1>8. EncodeFrame(m) = header \o m.payload
    BY <1>5 DEF header
<1> QED  BY <1>6, <1>7, <1>8 DEF Bytes

-----------------------------------------------------------------------------
(* A field that was written is read.                                       *)

LEMMA Multiples ==
    ASSUME NEW m \in Nat, NEW c \in Nat, NEW d \in Nat, c < d
    PROVE  m * c + m <= m * d /\ m * c \in Nat /\ m * d \in Nat
<1>1. d - c - 1 \in Nat
    OBVIOUS
<1>2. m * (d - c - 1) \in Nat
    BY <1>1
<1>3. m * (d - c - 1) = m * d - m * c - m
    BY <1>1
<1>4. m * c \in Nat /\ m * d \in Nat
    OBVIOUS
<1> QED  BY <1>2, <1>3, <1>4

LEMMA Quotient ==
    ASSUME NEW m \in Nat, m > 0, NEW c \in Nat, NEW s \in 0 .. m - 1, NEW v \in Nat,
           v = m * c + s
    PROVE  v \div m = c
<1> DEFINE d == v \div m
           u == v % m
<1>1. d \in Nat /\ u \in 0 .. m - 1 /\ v = m * d + u
    OBVIOUS
<1> HIDE DEF d, u
<1>2. CASE c < d
    <2>1. m * c + m <= m * d /\ m * c \in Nat /\ m * d \in Nat
        BY <1>1, <1>2, Multiples
    <2> QED  BY <1>1, <2>1
<1>3. CASE d < c
    <2>1. m * d + m <= m * c /\ m * c \in Nat /\ m * d \in Nat
        BY <1>1, <1>3, Multiples
    <2> QED  BY <1>1, <2>1
<1>4. CASE c = d
    BY <1>4 DEF d
<1> QED  BY <1>1, <1>2, <1>3, <1>4

\* One more digit of a number.
LEMMA NextDigit ==
    ASSUME NEW v \in Nat, NEW q \in Nat, q > 0, NEW b \in Nat, b > 1
    PROVE  v \div q = (v \div (b * q)) * b + ((v \div q) % b)
<1> DEFINE a == v \div q
           t == v % q
           c == a \div b
           r == a % b
<1> SUFFICES a = (v \div (b * q)) * b + r
    OBVIOUS
<1>1. v = q * a + t /\ t \in 0 .. q - 1 /\ a \in Nat
    OBVIOUS
<1>2. a = b * c + r /\ r \in 0 .. b - 1 /\ c \in Nat
    BY <1>1
<1> HIDE DEF a, t, c, r
<1>3. v = (b * q) * c + (q * r + t)
    <2>1. v = q * (b * c + r) + t
        BY <1>1, <1>2
    <2>2. q * (b * c + r) = (b * q) * c + q * r
        BY <1>1, <1>2
    <2>3. (b * q) * c \in Nat /\ q * r \in Nat
        BY <1>1, <1>2
    <2> QED  BY <1>1, <2>1, <2>2, <2>3
<1>4. q * r + t \in 0 .. b * q - 1
    <2>1. q * r + q <= q * b /\ q * r \in Nat /\ q * b \in Nat
        BY <1>2, Multiples
    <2>2. q * b = b * q
        OBVIOUS
    <2> QED  BY <1>1, <2>1, <2>2
<1>5. b * q \in Nat /\ b * q > 0
    OBVIOUS
<1> DEFINE m == b * q
           s == q * r + t
<1> HIDE DEF m, s
<1>6. v = m * c + s /\ s \in 0 .. m - 1 /\ m \in Nat /\ m > 0
    BY <1>3, <1>4, <1>5 DEF m, s
<1>7. v \div m = c
    BY <1>2, <1>6, Quotient
<1>8. a = (v \div m) * b + r
    BY <1>2, <1>7
<1> QED  BY <1>8 DEF m

\* ReadNetworkUint32 undoes AppendNetworkUint32.
LEMMA FieldRoundTrip ==
    ASSUME NEW v \in Nat, v < ValuesOf[FieldSize]
    PROVE  ReadNetwork(NetworkBytes(v)) = v
<1> DEFINE s == NetworkBytes(v)
           Digits(k) == v \div ValuesOf[FieldSize - k]
<1>1. s \in Bytes /\ Len(s) = FieldSize /\ FieldSize \in Nat
    BY NetworkBytesType, CodecAssumption
<1>2. \A k \in 1 .. FieldSize : s[k] = Digits(k) % Base
    BY DEF NetworkBytes
<1> HIDE DEF s, Digits
<1>3. PICK w : Reads(w, s) /\ ReadNetwork(s) = w[Len(s)]
    BY <1>1, ReadNetworkReads DEF Bytes
<1>4. \A k \in 1 .. FieldSize : w[k] = w[k - 1] * Base + (Digits(k) % Base)
    <2>1. \A k \in 1 .. FieldSize : w[k] = w[k - 1] * Base + s[k]
        BY <1>1, <1>3 DEF Reads
    <2> QED  BY <1>2, <2>1
<1>5. w[0] = 0
    BY <1>3 DEF Reads
<1> USE DEF Digits
<1>6. Digits(0) = 0
    <2>1. ValuesOf[FieldSize] \in Nat /\ ValuesOf[FieldSize] > 0
        BY <1>1, ValuesOfType
    <2>2. v \div ValuesOf[FieldSize] = 0
        <3>1. v = ValuesOf[FieldSize] * 0 + v /\ v \in 0 .. ValuesOf[FieldSize] - 1
            BY <2>1
        <3> QED  BY <2>1, <3>1, Quotient
    <2>3. FieldSize - 0 = FieldSize
        BY <1>1
    <2> QED  BY <2>2, <2>3
<1>7. ASSUME NEW k \in 1 .. FieldSize
      PROVE  Digits(k) = Digits(k - 1) * Base + (Digits(k) % Base)
    <2> DEFINE j == FieldSize - k
               q == ValuesOf[j]
    <2>1. j \in Nat /\ FieldSize - (k - 1) = j + 1 /\ j + 1 # 0 /\ j + 1 - 1 = j
        BY <1>1
    <2>2. q \in Nat /\ q > 0
        BY <2>1, ValuesOfType
    <2>3. ValuesOf[FieldSize - (k - 1)] = Base * q
        BY <2>1, ValuesOfUnfolds
    <2> HIDE DEF q
    <2>4. v \div q = (v \div (Base * q)) * Base + ((v \div q) % Base)
        BY <2>2, NextDigit, CodecAssumption
    <2> QED  BY <2>3, <2>4 DEF q
<1>8. \A k \in 0 .. FieldSize : w[k] = Digits(k)
    <2> HIDE DEF Digits
    <2> DEFINE Bad == {k \in 0 .. FieldSize : w[k] # Digits(k)}
    <2> SUFFICES ASSUME Bad # {}  PROVE FALSE
        OBVIOUS
    <2>1. PICK k \in Bad : \A j \in Bad : k <= j
        <3>1. Bad \subseteq Nat
            OBVIOUS
        <3> HIDE DEF Bad
        <3> QED  BY <3>1, LeastNumber
    <2>2. k # 0
        BY <1>5, <1>6
    <2>3. k \in 1 .. FieldSize /\ k - 1 \in 0 .. FieldSize /\ ~(k <= k - 1)
        BY <1>1, <2>2
    <2>4. w[k - 1] = Digits(k - 1)
        BY <2>1, <2>3
    <2>5. w[k] = Digits(k)
        BY <1>4, <1>7, <2>3, <2>4
    <2> QED  BY <2>5
<1>9. Digits(FieldSize) = v
    <2>1. FieldSize - FieldSize = 0 /\ ValuesOf[0] = 1
        BY <1>1, ValuesOfUnfolds
    <2>2. v \div 1 = v
        OBVIOUS
    <2> QED  BY <2>1, <2>2
<1>10. FieldSize \in 0 .. FieldSize
    BY <1>1
<1> HIDE DEF Digits
<1> QED  BY <1>1, <1>3, <1>8, <1>9, <1>10 DEF s

-----------------------------------------------------------------------------
(* The decoder.                                                            *)

DecodedFrames == [id : KnownIds, payload : Bytes]

Results ==
    [status : {"failed", "more", "ready"}, decoder : Decoders, frames : Seq(DecodedFrames)]

\* The offset is one of the buffer.
InBounds(d) == d \in Decoders /\ d.read_offset <= Len(d.buffer)

LEMMA DecoderTypes ==
    ASSUME NEW d \in Decoders
    PROVE  /\ d.buffer \in Bytes /\ d.read_offset \in Nat /\ d.failed \in BOOLEAN
           /\ Len(d.buffer) \in Nat
           /\ BufferedBytes(d) = Len(d.buffer) - d.read_offset
           /\ BufferedBytes(d) \in Int
BY DEF Decoders, Bytes, BufferedBytes

LEMMA Sizes ==
    /\ FieldSize \in Nat /\ FieldSize > 0
    /\ FrameHeaderSize = FieldSize + FieldSize /\ FrameHeaderSize \in Nat /\ FrameHeaderSize > 0
    /\ MaxPayloadSize \in Nat
    /\ MaxFrameSize = FrameHeaderSize + MaxPayloadSize /\ MaxFrameSize \in Nat
    /\ CompactAt \in Nat
<1>1. MaxPayloadSize \in Nat
    BY CodecAssumption
<1> QED  BY <1>1, CodecAssumption DEF FrameHeaderSize, MaxFrameSize

\* A part of what is buffered.
LEMMA BufferedPart ==
    ASSUME NEW d, InBounds(d), NEW i \in Nat, NEW j \in Nat,
           1 <= i, i <= j + 1, j <= BufferedBytes(d)
    PROVE  Buffered(d, i, j) \in Bytes /\ Len(Buffered(d, i, j)) = j - i + 1
<1> DEFINE m == d.read_offset + i
           n == d.read_offset + j
<1>1. /\ d.buffer \in Bytes /\ d.read_offset \in Nat /\ Len(d.buffer) \in Nat
      /\ BufferedBytes(d) = Len(d.buffer) - d.read_offset
    BY DecoderTypes DEF InBounds
<1>2. m \in 1 .. Len(d.buffer) + 1 /\ n \in m - 1 .. Len(d.buffer) /\ n - m + 1 = j - i + 1
    <2>1. d.read_offset + j <= Len(d.buffer)
        BY <1>1
    <2>2. m \in Nat /\ n \in Nat /\ 1 <= m /\ m - 1 <= n /\ n <= Len(d.buffer)
        BY <1>1, <2>1
    <2>3. m <= Len(d.buffer) + 1
        BY <1>1, <2>1
    <2>4. n - m + 1 = j - i + 1
        BY <1>1
    <2> HIDE DEF m, n
    <2> QED  BY <1>1, <2>2, <2>3, <2>4
<1> HIDE DEF m, n
<1>3. SubSeq(d.buffer, m, n) \in Bytes /\ Len(SubSeq(d.buffer, m, n)) = n - m + 1
    BY <1>1, <1>2, PartOfBytes
<1> QED  BY <1>2, <1>3 DEF Buffered, m, n

\* Compact leaves what is still to be decoded, and no long part before it
\* that is larger.
LEMMA CompactKeepsBuffered ==
    ASSUME NEW d, InBounds(d)
    PROVE  LET k == Compact(d)
           IN  /\ InBounds(k)
               /\ BufferedBytes(k) = BufferedBytes(d)
               /\ k.failed = d.failed
               /\ k.read_offset = 0 \/ k.read_offset < CompactAt
                    \/ k.read_offset < BufferedBytes(k)
               /\ Buffered(k, 1, BufferedBytes(k)) = Buffered(d, 1, BufferedBytes(d))
<1> DEFINE b == Buffered(d, 1, BufferedBytes(d))
           k == [d EXCEPT !.buffer = b, !.read_offset = 0]
<1>1. /\ d \in Decoders /\ d.buffer \in Bytes /\ d.read_offset \in Nat /\ Len(d.buffer) \in Nat
      /\ BufferedBytes(d) = Len(d.buffer) - d.read_offset
      /\ d.read_offset <= Len(d.buffer)
    BY DecoderTypes DEF InBounds
<1>2. b \in Bytes /\ Len(b) = BufferedBytes(d)
    BY <1>1, BufferedPart
<1>3. /\ k \in Decoders /\ k.buffer = b /\ k.read_offset = 0 /\ k.failed = d.failed
    BY <1>1, <1>2 DEF Decoders
<1> HIDE DEF k
<1>4. InBounds(k) /\ BufferedBytes(k) = BufferedBytes(d)
    BY <1>1, <1>2, <1>3 DEF InBounds, BufferedBytes
<1>5. Buffered(k, 1, BufferedBytes(k)) = b
    <2>1. Buffered(k, 1, BufferedBytes(k)) = SubSeq(b, 0 + 1, 0 + Len(b))
        BY <1>2, <1>3, <1>4 DEF Buffered
    <2>2. 0 + 1 = 1 /\ 0 + Len(b) = Len(b)
        BY <1>1, <1>2
    <2> QED  BY <1>2, <2>1, <2>2, SubSeqFull DEF Bytes
<1>6. CASE \/ d.read_offset = Len(d.buffer)
           \/ /\ d.read_offset >= CompactAt
              /\ 2 * d.read_offset >= Len(d.buffer)
    <2>1. Compact(d) = k
        BY <1>6 DEF Compact, k
    <2> QED  BY <1>3, <1>4, <1>5, <2>1 DEF b
<1>7. CASE ~ \/ d.read_offset = Len(d.buffer)
             \/ /\ d.read_offset >= CompactAt
                /\ 2 * d.read_offset >= Len(d.buffer)
    <2>1. Compact(d) = d
        BY <1>7 DEF Compact
    <2>2. d.read_offset < CompactAt \/ d.read_offset < BufferedBytes(d)
        BY <1>1, <1>7, Sizes
    <2> QED  BY <2>1, <2>2
<1> QED  BY <1>6, <1>7

\* The fields of a header that has arrived.
SizeField(d) == ReadNetwork(Buffered(d, 1, FieldSize))
IdField(d) == ReadNetwork(Buffered(d, FieldSize + 1, FrameHeaderSize))

LEMMA HeaderFields ==
    ASSUME NEW d, InBounds(d), BufferedBytes(d) >= FrameHeaderSize
    PROVE  SizeField(d) \in Nat /\ IdField(d) \in Nat
<1>1. Buffered(d, 1, FieldSize) \in Bytes
    <2>1. FieldSize <= BufferedBytes(d)
        BY Sizes, DecoderTypes DEF InBounds
    <2> QED  BY <2>1, Sizes, BufferedPart
<1>2. Buffered(d, FieldSize + 1, FrameHeaderSize) \in Bytes
    <2>1. /\ FieldSize + 1 \in Nat /\ 1 <= FieldSize + 1
          /\ FieldSize + 1 <= FrameHeaderSize + 1
        BY Sizes
    <2>2. FrameHeaderSize <= BufferedBytes(d)
        BY Sizes, DecoderTypes DEF InBounds
    <2> QED  BY <2>1, <2>2, Sizes, BufferedPart
<1> QED  BY <1>1, <1>2, ReadNetworkType DEF SizeField, IdField, Bytes

\* The four ways in which Next returns.
FailsBefore(d, n) == d.failed /\ n = [status |-> "failed", decoder |-> d, frames |-> <<>>]

FailsNow(d, n) ==
    /\ ~d.failed
    /\ n = [status |-> "failed", decoder |-> [d EXCEPT !.failed = TRUE], frames |-> <<>>]

NeedsMore(d, n) ==
    /\ ~d.failed
    /\ BufferedBytes(d) < MaxFrameSize
    /\ n = [status |-> "more", decoder |-> d, frames |-> <<>>]

HasFrame(d, n) ==
    LET frame == FrameHeaderSize + SizeField(d)
    IN  /\ ~d.failed
        /\ SizeField(d) \in 0 .. MaxPayloadSize
        /\ IdField(d) \in KnownIds
        /\ frame <= BufferedBytes(d)
        /\ n = [status |-> "ready",
                decoder |-> Compact([d EXCEPT !.read_offset = @ + frame]),
                frames |-> <<[id |-> IdField(d),
                              payload |-> Buffered(d, FrameHeaderSize + 1, frame)]>>]

LEMMA NextFrameCases ==
    ASSUME NEW d \in Decoders
    PROVE  LET n == NextFrame(d)
           IN  FailsBefore(d, n) \/ FailsNow(d, n) \/ NeedsMore(d, n) \/ HasFrame(d, n)
<1> DEFINE n == NextFrame(d)
           frame == FrameHeaderSize + SizeField(d)
<1>1. CASE d.failed
    BY <1>1 DEF NextFrame, FailsBefore
<1>2. CASE ~d.failed /\ BufferedBytes(d) < FrameHeaderSize
    <2>1. n = [status |-> "more", decoder |-> d, frames |-> <<>>]
        BY <1>2 DEF NextFrame
    <2>2. BufferedBytes(d) < MaxFrameSize
        BY <1>2, Sizes, DecoderTypes
    <2> QED  BY <1>2, <2>1, <2>2 DEF NeedsMore
<1>3. CASE ~d.failed /\ ~(BufferedBytes(d) < FrameHeaderSize)
    <2>1. n = IF SizeField(d) > MaxPayloadSize \/ IdField(d) \notin KnownIds
              THEN [status |-> "failed", decoder |-> [d EXCEPT !.failed = TRUE],
                    frames |-> <<>>]
              ELSE IF BufferedBytes(d) < frame
              THEN [status |-> "more", decoder |-> d, frames |-> <<>>]
              ELSE [status |-> "ready",
                    decoder |-> Compact([d EXCEPT !.read_offset = @ + frame]),
                    frames |-> <<[id |-> IdField(d),
                                  payload |-> Buffered(d, FrameHeaderSize + 1, frame)]>>]
        BY <1>3 DEF NextFrame, SizeField, IdField
    <2>2. BufferedBytes(d) >= FrameHeaderSize /\ InBounds(d)
        BY <1>3, Sizes, DecoderTypes DEF InBounds
    <2>3. SizeField(d) \in Nat
        BY <2>2, HeaderFields
    <2>4. CASE SizeField(d) > MaxPayloadSize \/ IdField(d) \notin KnownIds
        BY <1>3, <2>1, <2>4 DEF FailsNow
    <2>5. CASE /\ ~(SizeField(d) > MaxPayloadSize \/ IdField(d) \notin KnownIds)
               /\ BufferedBytes(d) < frame
        <3>1. BufferedBytes(d) < MaxFrameSize
            BY <2>3, <2>5, Sizes, DecoderTypes
        <3> HIDE DEF frame
        <3> QED  BY <1>3, <2>1, <2>5, <3>1 DEF NeedsMore
    <2>6. CASE /\ ~(SizeField(d) > MaxPayloadSize \/ IdField(d) \notin KnownIds)
               /\ ~(BufferedBytes(d) < frame)
        <3>1. SizeField(d) \in 0 .. MaxPayloadSize /\ IdField(d) \in KnownIds
            BY <2>3, <2>6, Sizes
        <3>2. frame <= BufferedBytes(d)
            BY <2>3, <2>6, Sizes, DecoderTypes
        <3>3. n = [status |-> "ready",
                   decoder |-> Compact([d EXCEPT !.read_offset = @ + frame]),
                   frames |-> <<[id |-> IdField(d),
                                 payload |-> Buffered(d, FrameHeaderSize + 1, frame)]>>]
            BY <2>1, <2>6
        <3> QED  BY <1>3, <3>1, <3>2, <3>3 DEF HasFrame
    <2> QED  BY <2>4, <2>5, <2>6
<1> HIDE DEF n
<1> QED  BY <1>1, <1>2, <1>3

\* A decoded frame is taken from the buffer.
Taken(d, n) ==
    /\ InBounds(d) /\ InBounds(n.decoder)
    /\ BufferedBytes(n.decoder) < BufferedBytes(d)
    /\ ~n.decoder.failed
    /\ n.decoder.read_offset = 0 \/ n.decoder.read_offset < CompactAt
         \/ n.decoder.read_offset < BufferedBytes(n.decoder)

LEMMA FrameTaken ==
    ASSUME NEW d \in Decoders, NEW n, HasFrame(d, n)
    PROVE  n \in Results /\ n.status = "ready" /\ Taken(d, n)
<1> DEFINE frame == FrameHeaderSize + SizeField(d)
           e == [d EXCEPT !.read_offset = @ + frame]
           payload == Buffered(d, FrameHeaderSize + 1, frame)
<1>1. frame \in Nat /\ FrameHeaderSize <= frame /\ frame > 0 /\ frame <= BufferedBytes(d)
    BY Sizes DEF HasFrame
<1>2. /\ n.status = "ready" /\ n.decoder = Compact(e)
      /\ n = [status |-> "ready", decoder |-> Compact(e),
              frames |-> <<[id |-> IdField(d), payload |-> payload]>>]
      /\ ~d.failed /\ IdField(d) \in KnownIds
    BY DEF HasFrame
<1> HIDE DEF frame
<1>3. /\ d.buffer \in Bytes /\ d.read_offset \in Nat /\ Len(d.buffer) \in Nat
      /\ BufferedBytes(d) = Len(d.buffer) - d.read_offset
    BY DecoderTypes
<1>4. InBounds(d)
    BY <1>1, <1>3 DEF InBounds
<1>5. /\ e \in Decoders /\ e.buffer = d.buffer /\ e.read_offset = d.read_offset + frame
      /\ e.failed = d.failed
    BY <1>1, <1>3 DEF Decoders
<1> HIDE DEF e
<1>6. InBounds(e) /\ BufferedBytes(e) = BufferedBytes(d) - frame
    BY <1>1, <1>3, <1>5 DEF InBounds, BufferedBytes
<1>7. payload \in Bytes
    <2>1. /\ FrameHeaderSize + 1 \in Nat /\ 1 <= FrameHeaderSize + 1
          /\ FrameHeaderSize + 1 <= frame + 1
        BY <1>1, Sizes
    <2> QED  BY <1>1, <1>4, <2>1, BufferedPart
<1> HIDE DEF payload
<1> DEFINE k == Compact(e)
<1>8. /\ InBounds(k)
      /\ BufferedBytes(k) = BufferedBytes(e)
      /\ k.failed = e.failed
      /\ k.read_offset = 0 \/ k.read_offset < CompactAt
           \/ k.read_offset < BufferedBytes(k)
    BY <1>6, CompactKeepsBuffered
<1> HIDE DEF k
<1>9. Taken(d, n)
    <2>1. BufferedBytes(k) < BufferedBytes(d)
        BY <1>1, <1>3, <1>6, <1>8
    <2> QED  BY <1>2, <1>4, <1>5, <1>8, <2>1 DEF Taken, k
<1>10. <<[id |-> IdField(d), payload |-> payload]>> \in Seq(DecodedFrames)
    BY <1>2, <1>7 DEF DecodedFrames
<1>11. n \in Results
    BY <1>2, <1>8, <1>10 DEF Results, InBounds, k
<1> QED  BY <1>2, <1>9, <1>11

LEMMA NextFrameType ==
    ASSUME NEW d \in Decoders
    PROVE  NextFrame(d) \in Results
<1> DEFINE n == NextFrame(d)
           e == [d EXCEPT !.failed = TRUE]
<1> SUFFICES n \in Results
    OBVIOUS
<1>1. FailsBefore(d, n) \/ FailsNow(d, n) \/ NeedsMore(d, n) \/ HasFrame(d, n)
    BY NextFrameCases
<1> HIDE DEF n
<1>2. e \in Decoders
    BY DEF Decoders
<1>3. <<>> \in Seq(DecodedFrames)
    OBVIOUS
<1> HIDE DEF e
<1>4. CASE FailsBefore(d, n)
    BY <1>3, <1>4 DEF FailsBefore, Results
<1>5. CASE FailsNow(d, n)
    BY <1>2, <1>3, <1>5 DEF FailsNow, Results, e
<1>6. CASE NeedsMore(d, n)
    BY <1>3, <1>6 DEF NeedsMore, Results
<1>7. CASE HasFrame(d, n)
    BY <1>7, FrameTaken
<1> QED  BY <1>1, <1>4, <1>5, <1>6, <1>7

\* Only a decoded frame has Next called again.
LEMMA ReadyIsTaken ==
    ASSUME NEW d \in Decoders, NextFrame(d).status = "ready"
    PROVE  HasFrame(d, NextFrame(d)) /\ Taken(d, NextFrame(d))
<1> DEFINE n == NextFrame(d)
<1>1. FailsBefore(d, n) \/ FailsNow(d, n) \/ NeedsMore(d, n) \/ HasFrame(d, n)
    BY NextFrameCases
<1>2. n.status = "ready"
    OBVIOUS
<1> HIDE DEF n
<1>3. HasFrame(d, n)
    BY <1>1, <1>2 DEF FailsBefore, FailsNow, NeedsMore
<1> QED  BY <1>3, FrameTaken DEF n

\* A result whose frames come after others.
After(frames, r) == [r EXCEPT !.frames = frames \o @]

LEMMA AfterType ==
    ASSUME NEW r \in Results, NEW frames \in Seq(DecodedFrames)
    PROVE  /\ After(frames, r) \in Results
           /\ After(frames, r).status = r.status
           /\ After(frames, r).decoder = r.decoder
           /\ After(frames, r).frames = frames \o r.frames
<1>1. frames \o r.frames \in Seq(DecodedFrames)
    BY DEF Results
<1> QED  BY <1>1 DEF After, Results

\* Next is called until it has nothing to give: NextFrames is what its
\* recursive definition says, since every call takes bytes from the buffer.
LEMMA NextFramesUnfolds ==
    ASSUME NEW d \in Decoders
    PROVE  NextFrames[d] =
             IF NextFrame(d).status # "ready" THEN NextFrame(d)
             ELSE After(NextFrame(d).frames, NextFrames[NextFrame(d).decoder])
<1> DEFINE Def(g, x) ==
             IF NextFrame(x).status # "ready" THEN NextFrame(x)
             ELSE After(NextFrame(x).frames, g[NextFrame(x).decoder])
           rank == [x \in Decoders |-> IF InBounds(x) THEN BufferedBytes(x) ELSE 0]
           done == {x \in Decoders : NextFrame(x).status # "ready"}
           base == [x \in Decoders |-> NextFrame(x)]
           succ == [x \in Decoders |-> NextFrame(x).decoder]
           comb == [p \in Decoders \X Results |-> After(NextFrame(p[1]).frames, p[2])]
<1>1. rank \in [Decoders -> Nat]
    <2> SUFFICES ASSUME NEW x \in Decoders, InBounds(x)  PROVE BufferedBytes(x) \in Nat
        OBVIOUS
    <2> QED  BY DecoderTypes DEF InBounds
<1>2. \A x \in Decoders :
        /\ NextFrame(x) \in Results
        /\ NextFrame(x).decoder \in Decoders
        /\ NextFrame(x).frames \in Seq(DecodedFrames)
    BY NextFrameType DEF Results
<1>3. base \in [Decoders -> Results] /\ succ \in [Decoders -> Decoders]
    BY <1>2
<1>4. comb \in [Decoders \X Results -> Results]
    <2> SUFFICES ASSUME NEW x \in Decoders, NEW r \in Results
                 PROVE  After(NextFrame(x).frames, r) \in Results
        OBVIOUS
    <2> QED  BY <1>2, AfterType
<1>5. Descends(Decoders, rank, done, succ)
    <2> SUFFICES ASSUME NEW x \in Decoders, NextFrame(x).status = "ready"
                 PROVE  rank[NextFrame(x).decoder] < rank[x]
        BY <1>3 DEF Descends
    <2>1. Taken(x, NextFrame(x))
        BY ReadyIsTaken
    <2> QED  BY <1>2, <2>1 DEF Taken
<1>6. HasSolution(Decoders, Results, done, base, succ, comb)
    <2> HIDE DEF rank, done, base, succ, comb
    <2> QED  BY <1>1, <1>3, <1>4, <1>5, RecursionHasSolution
<1>7. PICK g \in [Decoders -> Results] :
        \A x \in Decoders : g[x] = Step(done, base, succ, comb, g, x)
    BY <1>6 DEF HasSolution
<1>8. \A x \in Decoders : g[x] = Def(g, x)
    <2> SUFFICES ASSUME NEW x \in Decoders  PROVE g[x] = Def(g, x)
        OBVIOUS
    <2>1. CASE NextFrame(x).status # "ready"
        BY <1>7, <2>1 DEF Step
    <2>2. CASE NextFrame(x).status = "ready"
        <3>1. x \notin done /\ succ[x] = NextFrame(x).decoder
            BY <2>2
        <3>2. g[succ[x]] \in Results
            BY <1>2, <3>1
        <3>3. comb[<<x, g[succ[x]]>>] = After(NextFrame(x).frames, g[succ[x]])
            BY <3>2
        <3> HIDE DEF done, succ, comb
        <3> QED  BY <1>7, <2>2, <3>1, <3>3 DEF Step
    <2> QED  BY <2>1, <2>2
<1>9. g = [x \in Decoders |-> Def(g, x)]
    <2> HIDE DEF Def
    <2> QED  BY <1>8
<1>10. NextFrames = CHOOSE f : f = [x \in Decoders |-> Def(f, x)]
    BY DEF NextFrames, After
<1>11. NextFrames = [x \in Decoders |-> Def(NextFrames, x)]
    <2> HIDE DEF Def
    <2> QED  BY <1>9, <1>10
<1> QED  BY <1>11

\* What has been decoded and is still in front of the buffer is short, or
\* shorter than what is still to be decoded.
OffsetBounded(d) ==
    d.read_offset < CompactAt \/ d.read_offset < MaxFrameSize
        \/ d.read_offset < BufferedBytes(d)

\* What a loop of calls of Next leaves: a decoder that has failed, or one with
\* less than a frame.
Exhausted(r) ==
    /\ r \in Results
    /\ InBounds(r.decoder)
    /\ r.status \in {"failed", "more"}
    /\ r.status = "more" =>
         /\ BufferedBytes(r.decoder) < MaxFrameSize
         /\ r.decoder.read_offset < CompactAt \/ r.decoder.read_offset < MaxFrameSize

LEMMA NextFramesExhausts ==
    ASSUME NEW c, InBounds(c), OffsetBounded(c)
    PROVE  Exhausted(NextFrames[c])
<1> DEFINE Off == {d \in Decoders : /\ InBounds(d) /\ OffsetBounded(d)
                                    /\ ~Exhausted(NextFrames[d])}
           Bad == {BufferedBytes(d) : d \in Off}
<1> SUFFICES ASSUME Off # {}  PROVE FALSE
    BY DEF InBounds
<1>1. Bad \subseteq Nat /\ Bad # {}
    <2>1. \A d \in Off : BufferedBytes(d) \in Nat
        BY DecoderTypes DEF InBounds
    <2> QED  BY <2>1
<1>2. PICK k \in Bad : \A j \in Bad : k <= j
    <2> HIDE DEF Bad
    <2> QED  BY <1>1, LeastNumber
<1>3. PICK d \in Off : k = BufferedBytes(d)
    BY <1>2
<1> DEFINE n == NextFrame(d)
<1>4. /\ d \in Decoders /\ InBounds(d) /\ OffsetBounded(d) /\ ~Exhausted(NextFrames[d])
      /\ d.read_offset \in Nat /\ BufferedBytes(d) \in Nat
    BY <1>1, <1>3, DecoderTypes
<1>5. n \in Results
    BY <1>4, NextFrameType
<1>6. FailsBefore(d, n) \/ FailsNow(d, n) \/ NeedsMore(d, n) \/ HasFrame(d, n)
    BY <1>4, NextFrameCases
<1>7. NextFrames[d] = IF n.status # "ready" THEN n
                      ELSE After(n.frames, NextFrames[n.decoder])
    BY <1>4, NextFramesUnfolds
<1> HIDE DEF n
<1>8. CASE FailsBefore(d, n)
    <2>1. n.status = "failed" /\ n.decoder = d
        BY <1>8 DEF FailsBefore
    <2> QED  BY <1>4, <1>5, <1>7, <2>1 DEF Exhausted
<1>9. CASE FailsNow(d, n)
    <2>1. n.status = "failed" /\ n.decoder = [d EXCEPT !.failed = TRUE]
        BY <1>9 DEF FailsNow
    <2>2. n.decoder.buffer = d.buffer /\ n.decoder.read_offset = d.read_offset
        BY <1>4, <2>1 DEF Decoders
    <2>3. InBounds(n.decoder)
        BY <1>4, <1>5, <2>2 DEF InBounds, Results
    <2> QED  BY <1>4, <1>5, <1>7, <2>1, <2>3 DEF Exhausted
<1>10. CASE NeedsMore(d, n)
    <2>1. n.status = "more" /\ n.decoder = d /\ BufferedBytes(d) < MaxFrameSize
        BY <1>10 DEF NeedsMore
    <2>2. d.read_offset < CompactAt \/ d.read_offset < MaxFrameSize
        BY <1>4, <2>1, Sizes DEF OffsetBounded
    <2> QED  BY <1>4, <1>5, <1>7, <2>1, <2>2 DEF Exhausted
<1>11. CASE HasFrame(d, n)
    <2> DEFINE e == n.decoder
               r == NextFrames[e]
    <2>1. n.status = "ready" /\ Taken(d, n)
        BY <1>4, <1>11, FrameTaken
    <2>2. /\ e \in Decoders /\ InBounds(e) /\ BufferedBytes(e) < k
          /\ BufferedBytes(e) \in Nat
        <3>1. InBounds(e) /\ BufferedBytes(e) < BufferedBytes(d)
            BY <2>1 DEF Taken
        <3> HIDE DEF e
        <3> QED  BY <1>3, <3>1, DecoderTypes DEF InBounds
    <2>3. OffsetBounded(e)
        <3>1. 0 < MaxFrameSize
            BY Sizes
        <3> QED  BY <2>1, <3>1 DEF Taken, OffsetBounded
    <2>4. Exhausted(r)
        <3>1. e \notin Off
            <4>1. ~(k <= BufferedBytes(e))
                BY <1>3, <1>4, <2>2
            <4> QED  BY <1>2, <4>1
        <3> QED  BY <2>2, <2>3, <3>1
    <2>5. n.frames \in Seq(DecodedFrames)
        BY <1>5 DEF Results
    <2> HIDE DEF r
    <2>6. NextFrames[d] = After(n.frames, r)
        BY <1>7, <2>1 DEF r
    <2>7. /\ After(n.frames, r) \in Results
          /\ After(n.frames, r).status = r.status
          /\ After(n.frames, r).decoder = r.decoder
        BY <2>4, <2>5, AfterType DEF Exhausted
    <2>8. Exhausted(After(n.frames, r))
        BY <2>4, <2>7 DEF Exhausted
    <2> QED  BY <1>4, <2>6, <2>8
<1> QED  BY <1>6, <1>8, <1>9, <1>10, <1>11

-----------------------------------------------------------------------------
(* What was encoded is decoded.                                            *)

Messages == [id : Nat, payload : Bytes]

\* What is still to be decoded.
Unread(d) == Buffered(d, 1, BufferedBytes(d))

Same(x, y, u, v) == x = u /\ y = v

LEMMA BytesJoin ==
    ASSUME NEW x \in Bytes, NEW y \in Bytes
    PROVE  x \o y \in Bytes /\ Len(x \o y) = Len(x) + Len(y)
BY ConcatProperties DEF Bytes

\* How three sequences are joined does not matter.  The name keeps a step from
\* being asked about all the sequences in sight.
Associate(x, y, z) == (x \o y) \o z = x \o (y \o z)

LEMMA Associates ==
    ASSUME NEW S, NEW x \in Seq(S), NEW y \in Seq(S), NEW z \in Seq(S)
    PROVE  Associate(x, y, z)
BY ConcatAssociative DEF Associate

LEMMA BytesAssociate ==
    ASSUME NEW x \in Bytes, NEW y \in Bytes, NEW z \in Bytes
    PROVE  Associate(x, y, z)
BY Associates DEF Bytes

\* Two ways to cut the same bytes at the same place.
LEMMA CutAtSamePlace ==
    ASSUME NEW x \in Bytes, NEW y \in Bytes, NEW u \in Bytes, NEW v \in Bytes,
           x \o y = u \o v, Len(x) = Len(u)
    PROVE  Same(x, y, u, v)
<1> DEFINE S == 0 .. Base - 1
<1> x \in Seq(S) /\ y \in Seq(S) /\ u \in Seq(S) /\ v \in Seq(S)
    BY DEF Bytes
<1> HIDE DEF S
<1>1. \A i \in 1 .. Len(x) + Len(y) : (x \o y)[i] = IF i <= Len(x) THEN x[i] ELSE y[i - Len(x)]
    BY ConcatProperties
<1>2. \A i \in 1 .. Len(u) + Len(v) : (u \o v)[i] = IF i <= Len(u) THEN u[i] ELSE v[i - Len(u)]
    BY ConcatProperties
<1>3. Len(x) \in Nat /\ Len(y) \in Nat /\ Len(v) \in Nat
    BY LenProperties
<1>4. \A i \in 1 .. Len(x) : x[i] = u[i]
    <2> SUFFICES ASSUME NEW i \in 1 .. Len(x)  PROVE x[i] = u[i]
        OBVIOUS
    <2>1. i \in 1 .. Len(x) + Len(y) /\ i \in 1 .. Len(u) + Len(v) /\ i <= Len(x)
        BY <1>3
    <2>2. (x \o y)[i] = x[i]
        BY <1>1, <2>1
    <2>3. (u \o v)[i] = u[i]
        BY <1>2, <2>1
    <2> QED  BY <2>2, <2>3
<1>5. x = u
    BY <1>4, SeqEqual
<1>6. Len(y) = Len(v)
    <2>1. Len(x \o y) = Len(x) + Len(y) /\ Len(u \o v) = Len(u) + Len(v)
        BY ConcatProperties
    <2> QED  BY <1>3, <2>1
<1>7. \A i \in 1 .. Len(y) : y[i] = v[i]
    <2> SUFFICES ASSUME NEW i \in 1 .. Len(y)  PROVE y[i] = v[i]
        OBVIOUS
    <2> DEFINE j == Len(x) + i
    <2>1. /\ j \in 1 .. Len(x) + Len(y) /\ j \in 1 .. Len(u) + Len(v) /\ ~(j <= Len(x))
          /\ j - Len(x) = i
        BY <1>3, <1>6
    <2> HIDE DEF j
    <2>2. (x \o y)[j] = y[i]
        BY <1>1, <2>1
    <2>3. (u \o v)[j] = v[i]
        BY <1>2, <2>1
    <2> QED  BY <2>2, <2>3
<1>8. y = v
    BY <1>6, <1>7, SeqEqual
<1> QED  BY <1>5, <1>8 DEF Same

\* Two parts of the buffer that make up one.
Adjoin(d, i, k, j) == Buffered(d, i, k) \o Buffered(d, k + 1, j) = Buffered(d, i, j)

LEMMA BufferedSplits ==
    ASSUME NEW d, InBounds(d), NEW i \in Nat, NEW k \in Nat, NEW j \in Nat,
           1 <= i, i <= k + 1, k <= j, j <= BufferedBytes(d)
    PROVE  Adjoin(d, i, k, j)
<1> DEFINE o == d.read_offset
           s == d.buffer
<1>1. s \in Bytes /\ o \in Nat /\ Len(s) \in Nat /\ BufferedBytes(d) = Len(s) - o
    BY DecoderTypes DEF InBounds
<1> HIDE DEF o, s
<1>2. o + j <= Len(s)
    BY <1>1
<1>3. /\ o + i \in 1 .. Len(s) + 1 /\ o + k \in (o + i) - 1 .. Len(s)
      /\ o + j \in o + k .. Len(s)
    BY <1>1, <1>2
<1>4. SubSeq(s, o + i, o + k) \o SubSeq(s, (o + k) + 1, o + j) = SubSeq(s, o + i, o + j)
    BY <1>1, <1>3, ConcatAdjacentSubSeq DEF Bytes
<1>5. (o + k) + 1 = o + (k + 1)
    BY <1>1
<1> QED  BY <1>4, <1>5 DEF Adjoin, Buffered, o, s

LEMMA UnreadIsBytes ==
    ASSUME NEW d, InBounds(d)
    PROVE  Unread(d) \in Bytes /\ Len(Unread(d)) = BufferedBytes(d) /\ BufferedBytes(d) \in Nat
<1>1. BufferedBytes(d) \in Nat
    BY DecoderTypes DEF InBounds
<1> QED  BY <1>1, BufferedPart DEF Unread

\* When a frame is taken from the buffer, the header, the payload and the rest
\* are what was in it, one after the other.
LEMMA FrameIsCutOff ==
    ASSUME NEW d, InBounds(d), NEW n, HasFrame(d, n)
    PROVE  LET a == Buffered(d, 1, FieldSize)
               b == Buffered(d, FieldSize + 1, FrameHeaderSize)
               p == n.frames[1].payload
           IN  /\ a \in Bytes /\ Len(a) = FieldSize
               /\ b \in Bytes /\ Len(b) = FieldSize
               /\ p \in Bytes /\ Len(p) = SizeField(d)
               /\ Unread(n.decoder) \in Bytes
               /\ Unread(d) = a \o (b \o (p \o Unread(n.decoder)))
               /\ n.frames = <<[id |-> IdField(d), payload |-> p]>>
<1> DEFINE L == BufferedBytes(d)
           H == FrameHeaderSize
           F == FieldSize
           frame == H + SizeField(d)
           e == [d EXCEPT !.read_offset = @ + frame]
           k == n.decoder
           a == Buffered(d, 1, F)
           b == Buffered(d, F + 1, H)
           p == Buffered(d, H + 1, frame)
           r == Buffered(d, frame + 1, L)
<1>1. d \in Decoders
    BY DEF InBounds
<1>2. /\ F \in Nat /\ H \in Nat /\ frame \in Nat /\ L \in Nat
      /\ F <= H /\ H <= frame /\ frame <= L /\ H = F + F /\ SizeField(d) \in Nat
    BY Sizes, UnreadIsBytes DEF HasFrame
<1>3. n.frames = <<[id |-> IdField(d), payload |-> p]>> /\ n.frames[1].payload = p
    BY DEF HasFrame
<1>4. k = Compact(e)
    BY DEF HasFrame
<1> HIDE DEF L, H, F, frame, k, p
<1>5. /\ e \in Decoders /\ e.buffer = d.buffer /\ e.read_offset = d.read_offset + frame
    BY <1>1, <1>2, DecoderTypes DEF Decoders
<1> HIDE DEF e
<1>6. InBounds(e) /\ BufferedBytes(e) = L - frame
    BY <1>1, <1>2, <1>5, DecoderTypes DEF InBounds, BufferedBytes, L
<1>7. Unread(k) = Unread(e) /\ InBounds(k)
    BY <1>4, <1>6, CompactKeepsBuffered DEF Unread
<1>8. Unread(e) = r
    <2>1. /\ e.read_offset + 1 = d.read_offset + (frame + 1)
          /\ e.read_offset + BufferedBytes(e) = d.read_offset + L
        BY <1>1, <1>2, <1>5, <1>6, DecoderTypes
    <2> QED  BY <1>5, <2>1 DEF Unread, Buffered
<1>9. a \in Bytes /\ Len(a) = F
    <2>1. F - 1 + 1 = F /\ 1 \in Nat /\ 1 <= 1 /\ 1 <= F + 1 /\ F <= L
        BY <1>2
    <2> QED  BY <1>2, <2>1, BufferedPart DEF L
<1>10. b \in Bytes /\ Len(b) = F
    <2>1. /\ H - (F + 1) + 1 = F /\ F + 1 \in Nat /\ 1 <= F + 1 /\ F + 1 <= H + 1
          /\ H <= L
        BY <1>2
    <2> QED  BY <1>2, <2>1, BufferedPart DEF L
<1>11. p \in Bytes /\ Len(p) = SizeField(d)
    <2>1. frame - (H + 1) + 1 = SizeField(d) /\ H + 1 \in Nat /\ 1 <= H + 1 /\ H + 1 <= frame + 1
        BY <1>2 DEF frame
    <2> QED  BY <1>2, <2>1, BufferedPart DEF L, p
<1>12. Unread(k) \in Bytes
    BY <1>7, UnreadIsBytes
<1>13. Unread(d) = a \o Buffered(d, F + 1, L)
    <2>1. 1 \in Nat /\ 1 <= 1 /\ 1 <= F + 1 /\ F <= L /\ L <= L
        BY <1>2
    <2>2. Adjoin(d, 1, F, L)
        BY <1>2, <2>1, BufferedSplits DEF L
    <2> QED  BY <2>2 DEF Adjoin, L, Unread
<1>14. Buffered(d, F + 1, L) = b \o Buffered(d, H + 1, L)
    <2>1. F + 1 \in Nat /\ 1 <= F + 1 /\ F + 1 <= H + 1 /\ H <= L /\ L <= L
        BY <1>2
    <2>2. Adjoin(d, F + 1, H, L)
        BY <1>2, <2>1, BufferedSplits DEF L
    <2> QED  BY <2>2 DEF Adjoin
<1>15. Buffered(d, H + 1, L) = p \o r
    <2>1. H + 1 \in Nat /\ 1 <= H + 1 /\ H + 1 <= frame + 1 /\ frame <= L /\ L <= L
        BY <1>2
    <2>2. Adjoin(d, H + 1, frame, L)
        BY <1>2, <2>1, BufferedSplits DEF L
    <2> QED  BY <2>2 DEF Adjoin, p
<1>16. Unread(d) = a \o (b \o (p \o Unread(k)))
    BY <1>7, <1>8, <1>13, <1>14, <1>15
<1> QED
    BY <1>3, <1>9, <1>10, <1>11, <1>12, <1>16 DEF F, H, k

\* A message that a header can describe.
Fits(m) == m.id < ValuesOf[FieldSize] /\ Len(m.payload) < ValuesOf[FieldSize]

\* With these bytes behind it, what is still to be decoded starts with some
\* bytes, or is all of them.
Starts(d, tail, first, more) == Unread(d) \o tail = first \o more
Continues(d, tail, bytes) == Unread(d) \o tail = bytes

\* When the bytes that are left, and those still to come, begin with the
\* encoding of a message, the frame that Next finds is that message.
LEMMA DecodesFirst ==
    ASSUME NEW d, InBounds(d), NEW n, HasFrame(d, n), NEW m \in Messages, Fits(m),
           NEW tail \in Bytes, NEW more \in Bytes,
           Starts(d, tail, EncodeFrame(m), more)
    PROVE  /\ CanEncode(m)
           /\ n.frames = <<m>>
           /\ Continues(n.decoder, tail, more)
<1>0. Unread(d) \o tail = EncodeFrame(m) \o more
    BY DEF Starts
<1> DEFINE a == Buffered(d, 1, FieldSize)
           b == Buffered(d, FieldSize + 1, FrameHeaderSize)
           p == n.frames[1].payload
           r == Unread(n.decoder)
           na == NetworkBytes(Len(m.payload))
           nb == NetworkBytes(m.id)
<1>1. /\ a \in Bytes /\ Len(a) = FieldSize
      /\ b \in Bytes /\ Len(b) = FieldSize
      /\ p \in Bytes /\ Len(p) = SizeField(d)
      /\ r \in Bytes
      /\ Unread(d) = a \o (b \o (p \o r))
      /\ n.frames = <<[id |-> IdField(d), payload |-> p]>>
    BY FrameIsCutOff
<1>2. m.id \in Nat /\ m.payload \in Bytes /\ Len(m.payload) \in Nat
    BY DEF Messages, Bytes
<1>3. na \in Bytes /\ Len(na) = FieldSize /\ nb \in Bytes /\ Len(nb) = FieldSize
    BY <1>2, NetworkBytesType
<1>4. EncodeFrame(m) = (na \o nb) \o m.payload
    BY DEF EncodeFrame
<1>5. SizeField(d) = ReadNetwork(a) /\ IdField(d) = ReadNetwork(b)
    BY DEF SizeField, IdField
<1>6. ReadNetwork(na) = Len(m.payload) /\ ReadNetwork(nb) = m.id
    BY <1>2, FieldRoundTrip DEF Fits
<1> HIDE DEF a, b, p, r, na, nb
<1>8. Unread(d) \o tail = a \o (b \o (p \o (r \o tail)))
    <2>1. p \o r \in Bytes /\ b \o (p \o r) \in Bytes
        BY <1>1, BytesJoin
    <2> DEFINE x == p \o r
               y == b \o x
    <2>2. x \in Bytes /\ y \in Bytes
        BY <2>1
    <2>3. (a \o y) \o tail = a \o (y \o tail)
        <3>1. a \in Bytes /\ y \in Bytes /\ tail \in Bytes
            BY <1>1, <2>2
        <3> HIDE DEF y
        <3>2. Associate(a, y, tail)
            BY <3>1, BytesAssociate
        <3> QED  BY <3>2 DEF Associate
    <2>4. (b \o x) \o tail = b \o (x \o tail)
        <3> HIDE DEF x
        <3>1. Associate(b, x, tail)
            BY <1>1, <2>2, BytesAssociate
        <3> QED  BY <3>1 DEF Associate
    <2>5. (p \o r) \o tail = p \o (r \o tail)
        <3>1. Associate(p, r, tail)
            BY <1>1, BytesAssociate
        <3> QED  BY <3>1 DEF Associate
    <2> QED  BY <1>1, <2>3, <2>4, <2>5
<1>9. EncodeFrame(m) \o more = na \o (nb \o (m.payload \o more))
    <2>1. na \o nb \in Bytes /\ m.payload \o more \in Bytes
        BY <1>2, <1>3, BytesJoin
    <2>2. ((na \o nb) \o m.payload) \o more = (na \o nb) \o (m.payload \o more)
        <3>1. Associate(na \o nb, m.payload, more)
            BY <1>2, <2>1, BytesAssociate
        <3> QED  BY <3>1 DEF Associate
    <2>3. (na \o nb) \o (m.payload \o more) = na \o (nb \o (m.payload \o more))
        <3>1. Associate(na, nb, m.payload \o more)
            BY <1>3, <2>1, BytesAssociate
        <3> QED  BY <3>1 DEF Associate
    <2> QED  BY <1>4, <2>2, <2>3
<1>10. /\ r \o tail \in Bytes /\ p \o (r \o tail) \in Bytes /\ b \o (p \o (r \o tail)) \in Bytes
       /\ m.payload \o more \in Bytes /\ nb \o (m.payload \o more) \in Bytes
    BY <1>1, <1>2, <1>3, BytesJoin
<1> DEFINE y1 == b \o (p \o (r \o tail))
           v1 == nb \o (m.payload \o more)
           y2 == p \o (r \o tail)
           v2 == m.payload \o more
<1>11. a = na /\ y1 = v1
    <2>1. a \o y1 = na \o v1
        BY <1>0, <1>8, <1>9
    <2> HIDE DEF y1, v1
    <2>2. Same(a, y1, na, v1)
        BY <1>1, <1>3, <1>10, <2>1, CutAtSamePlace DEF y1, v1
    <2> QED  BY <2>2 DEF Same
<1>12. b = nb /\ y2 = v2
    <2>1. b \o y2 = nb \o v2
        BY <1>11
    <2> HIDE DEF y2, v2
    <2>2. Same(b, y2, nb, v2)
        BY <1>1, <1>3, <1>10, <2>1, CutAtSamePlace DEF y2, v2
    <2> QED  BY <2>2 DEF Same
<1>13. Len(p) = Len(m.payload) /\ SizeField(d) = Len(m.payload) /\ IdField(d) = m.id
    BY <1>1, <1>5, <1>6, <1>11, <1>12
<1>14. p = m.payload /\ r \o tail = more
    <2> DEFINE w == r \o tail
    <2>1. p \o w = m.payload \o more
        BY <1>12
    <2> HIDE DEF w
    <2>2. Same(p, w, m.payload, more)
        BY <1>1, <1>2, <1>10, <1>13, <2>1, CutAtSamePlace DEF w
    <2> QED  BY <2>2 DEF Same, w
<1>15. m = [id |-> m.id, payload |-> m.payload]
    BY DEF Messages
<1>16. n.frames = <<m>>
    BY <1>1, <1>13, <1>14, <1>15
<1>17. CanEncode(m)
    BY <1>13 DEF HasFrame, CanEncode
<1> QED  BY <1>14, <1>16, <1>17 DEF r, Continues

\* The bytes of a sequence of messages.
Encoded[messages \in Seq(Messages)] ==
    IF messages = <<>> THEN <<>>
    ELSE EncodeFrame(Head(messages)) \o Encoded[Tail(messages)]

LEMMA EncodedUnfolds ==
    ASSUME NEW s \in Seq(Messages)
    PROVE  Encoded[s] = IF s = <<>> THEN <<>> ELSE EncodeFrame(Head(s)) \o Encoded[Tail(s)]
<1> DEFINE D == Seq(Messages)
           Def(g, x) == IF x = <<>> THEN <<>> ELSE EncodeFrame(Head(x)) \o g[Tail(x)]
           rank == [x \in D |-> Len(x)]
           done == {<<>>}
           base == [x \in D |-> <<>>]
           succ == [x \in D |-> IF x = <<>> THEN x ELSE Tail(x)]
           comb == [p \in D \X Bytes |-> IF p[1] = <<>> THEN <<>>
                                         ELSE EncodeFrame(Head(p[1])) \o p[2]]
<1>1. \A x \in D : x # <<>> => /\ Head(x) \in Messages /\ Tail(x) \in D
                               /\ Len(Tail(x)) = Len(x) - 1 /\ Len(x) \in Nat
    <2> SUFFICES ASSUME NEW x \in D, x # <<>>
                 PROVE  /\ Head(x) \in Messages /\ Tail(x) \in D
                        /\ Len(Tail(x)) = Len(x) - 1 /\ Len(x) \in Nat
        OBVIOUS
    <2> QED  BY HeadTailProperties, LenProperties
<1>2. rank \in [D -> Nat] /\ base \in [D -> Bytes] /\ succ \in [D -> D]
    <2>1. \A x \in D : Len(x) \in Nat
        BY LenProperties
    <2>2. <<>> \in Bytes
        BY DEF Bytes
    <2> HIDE DEF D
    <2> QED  BY <1>1, <2>1, <2>2
<1>3. comb \in [D \X Bytes -> Bytes]
    <2> SUFFICES ASSUME NEW x \in D, NEW y \in Bytes
                 PROVE  (IF x = <<>> THEN <<>> ELSE EncodeFrame(Head(x)) \o y) \in Bytes
        OBVIOUS
    <2>1. <<>> \in Bytes
        BY DEF Bytes
    <2>2. ASSUME x # <<>>  PROVE EncodeFrame(Head(x)) \o y \in Bytes
        <3>1. EncodeFrame(Head(x)) \in Bytes
            BY <1>1, <2>2, EncodedIsBytes DEF Messages
        <3> QED  BY <3>1, BytesJoin
    <2> QED  BY <2>1, <2>2
<1>4. Descends(D, rank, done, succ)
    <2> SUFFICES ASSUME NEW x \in D, x # <<>>  PROVE rank[succ[x]] < rank[x]
        BY DEF Descends
    <2>1. succ[x] = Tail(x) /\ Tail(x) \in D
        BY <1>1
    <2>2. rank[Tail(x)] = Len(Tail(x)) /\ rank[x] = Len(x)
        BY <2>1
    <2> QED  BY <1>1, <2>1, <2>2
<1>5. HasSolution(D, Bytes, done, base, succ, comb)
    <2> HIDE DEF D, rank, done, base, succ, comb
    <2> QED  BY <1>2, <1>3, <1>4, RecursionHasSolution
<1>6. PICK g \in [D -> Bytes] : \A x \in D : g[x] = Step(done, base, succ, comb, g, x)
    <2> HIDE DEF D, done, base, succ, comb
    <2> QED  BY <1>5 DEF HasSolution
<1>7. \A x \in D : g[x] = Def(g, x)
    <2> SUFFICES ASSUME NEW x \in D  PROVE g[x] = Def(g, x)
        OBVIOUS
    <2>1. CASE x = <<>>
        BY <1>6, <2>1 DEF Step
    <2>2. CASE x # <<>>
        <3>1. x \notin done /\ succ[x] = Tail(x) /\ Tail(x) \in D
            BY <1>1, <2>2
        <3>2. g[Tail(x)] \in Bytes
            BY <1>6, <3>1
        <3>3. comb[<<x, g[Tail(x)]>>] = EncodeFrame(Head(x)) \o g[Tail(x)]
            BY <2>2, <3>2
        <3> HIDE DEF D, done, succ, comb
        <3> QED  BY <1>6, <2>2, <3>1, <3>3 DEF Step
    <2> QED  BY <2>1, <2>2
<1>8. g = [x \in D |-> Def(g, x)]
    <2> HIDE DEF D, Def
    <2> QED  BY <1>6, <1>7
<1>9. Encoded = CHOOSE f : f = [x \in D |-> Def(f, x)]
    BY DEF Encoded
<1>10. Encoded = [x \in D |-> Def(Encoded, x)]
    <2> HIDE DEF D, Def
    <2> QED  BY <1>8, <1>9
<1> QED  BY <1>10

LEMMA EncodedType ==
    ASSUME NEW t \in Seq(Messages)
    PROVE  Encoded[t] \in Bytes
<1> DEFINE Off == {s \in Seq(Messages) : Encoded[s] \notin Bytes}
           Bad == {Len(s) : s \in Off}
<1> SUFFICES ASSUME Off # {}  PROVE FALSE
    OBVIOUS
<1>1. PICK k \in Bad : \A j \in Bad : k <= j
    <2>1. Bad \subseteq Nat /\ Bad # {}
        BY LenProperties
    <2> HIDE DEF Bad
    <2> QED  BY <2>1, LeastNumber
<1>2. PICK s \in Off : k = Len(s)
    BY <1>1
<1>3. s \in Seq(Messages) /\ Encoded[s] \notin Bytes
    BY <1>2
<1>4. s # <<>>
    BY <1>3, EncodedUnfolds DEF Bytes
<1>5. /\ Head(s) \in Messages /\ Tail(s) \in Seq(Messages)
      /\ Len(Tail(s)) = Len(s) - 1 /\ Len(s) \in Nat
    BY <1>3, <1>4, HeadTailProperties, LenProperties
<1>6. Encoded[Tail(s)] \in Bytes
    <2>1. ~(k <= Len(Tail(s)))
        BY <1>2, <1>5
    <2> QED  BY <1>1, <1>5, <2>1
<1>7. EncodeFrame(Head(s)) \in Bytes
    BY <1>5, EncodedIsBytes DEF Messages
<1>8. Encoded[s] = EncodeFrame(Head(s)) \o Encoded[Tail(s)]
    BY <1>3, <1>4, EncodedUnfolds
<1> QED  BY <1>3, <1>6, <1>7, <1>8, BytesJoin

\* One more message is sent after the others.
LEMMA EncodedAppend ==
    ASSUME NEW t \in Seq(Messages), NEW m \in Messages
    PROVE  Encoded[Append(t, m)] = Encoded[t] \o EncodeFrame(m)
<1> DEFINE Holds(s) == Encoded[Append(s, m)] = Encoded[s] \o EncodeFrame(m)
           Off == {s \in Seq(Messages) : ~Holds(s)}
           Bad == {Len(s) : s \in Off}
<1> SUFFICES ASSUME Off # {}  PROVE FALSE
    OBVIOUS
<1>1. PICK k \in Bad : \A j \in Bad : k <= j
    <2>1. Bad \subseteq Nat /\ Bad # {}
        <3> HIDE DEF Holds
        <3>1. \A s \in Off : Len(s) \in Nat
            BY LenProperties
        <3> QED  BY <3>1
    <2> HIDE DEF Bad
    <2> QED  BY <2>1, LeastNumber
<1>2. PICK s \in Off : k = Len(s)
    BY <1>1
<1>3. s \in Seq(Messages) /\ ~Holds(s)
    BY <1>2
<1>4. EncodeFrame(m) \in Bytes
    BY EncodedIsBytes DEF Messages
<1>5. Append(s, m) \in Seq(Messages) /\ Append(s, m) # <<>>
    BY <1>3, AppendProperties
<1>6. Encoded[Append(s, m)] = EncodeFrame(Head(Append(s, m))) \o Encoded[Tail(Append(s, m))]
    BY <1>5, EncodedUnfolds
<1>7. CASE s = <<>>
    <2>1. Head(Append(s, m)) = m /\ Tail(Append(s, m)) = <<>>
        BY <1>3, <1>7, HeadTailAppend
    <2>2. <<>> \in Seq(Messages)
        OBVIOUS
    <2>3. Encoded[<<>>] = <<>>
        BY <2>2, EncodedUnfolds
    <2>4. EncodeFrame(m) \o <<>> = EncodeFrame(m) /\ <<>> \o EncodeFrame(m) = EncodeFrame(m)
        BY <1>4, ConcatEmptySeq DEF Bytes
    <2> QED  BY <1>3, <1>6, <1>7, <2>1, <2>3, <2>4
<1>8. CASE s # <<>>
    <2>1. Head(Append(s, m)) = Head(s) /\ Tail(Append(s, m)) = Append(Tail(s), m)
        BY <1>3, <1>8, HeadTailAppend
    <2>2. /\ Head(s) \in Messages /\ Tail(s) \in Seq(Messages)
          /\ Len(Tail(s)) = Len(s) - 1 /\ Len(s) \in Nat
        BY <1>3, <1>8, HeadTailProperties, LenProperties
    <2>3. Holds(Tail(s))
        <3>1. ~(k <= Len(Tail(s)))
            BY <1>2, <2>2
        <3> QED  BY <1>1, <2>2, <3>1
    <2>4. EncodeFrame(Head(s)) \in Bytes /\ Encoded[Tail(s)] \in Bytes
        BY <2>2, EncodedIsBytes, EncodedType DEF Messages
    <2>5. Encoded[s] = EncodeFrame(Head(s)) \o Encoded[Tail(s)]
        BY <1>3, <1>8, EncodedUnfolds
    <2>6. EncodeFrame(Head(s)) \o (Encoded[Tail(s)] \o EncodeFrame(m)) =
            (EncodeFrame(Head(s)) \o Encoded[Tail(s)]) \o EncodeFrame(m)
        <3>1. Associate(EncodeFrame(Head(s)), Encoded[Tail(s)], EncodeFrame(m))
            BY <1>4, <2>4, BytesAssociate
        <3> QED  BY <3>1 DEF Associate
    <2> QED  BY <1>3, <1>6, <2>1, <2>3, <2>5, <2>6
<1> QED  BY <1>7, <1>8

-----------------------------------------------------------------------------
(* What was encoded is decoded: a loop of calls of Next.                   *)

\* The messages EncodeFrame takes.
Whole == {m \in Messages : CanEncode(m)}

LEMMA WholeFits ==
    ASSUME NEW m \in Whole
    PROVE  m \in Messages /\ Fits(m) /\ CanEncode(m)
<1>1. m \in Messages /\ CanEncode(m)
    BY DEF Whole
<1>2. m.id \in KnownIds /\ Len(m.payload) <= MaxPayloadSize /\ Len(m.payload) \in Nat
    BY <1>1 DEF CanEncode, Messages, Bytes
<1>3. PICK v \in Nat : v = ValuesOf[FieldSize]
    BY ValuesOfType, CodecAssumption
<1>4. m.id < v /\ Len(m.payload) < v
    <2>1. KnownIds \subseteq 0 .. v - 1 /\ MaxPayloadSize \in 1 .. v - 1
        BY <1>3, CodecAssumption
    <2>2. m.id \in 0 .. v - 1
        BY <1>2, <2>1
    <2>3. m.id < v
        BY <1>3, <2>2
    <2>4. Len(m.payload) < v
        BY <1>2, <1>3, <2>1
    <2> QED  BY <2>3, <2>4
<1> QED  BY <1>1, <1>3, <1>4 DEF Fits

LEMMA WholeAreMessages ==
    ASSUME NEW s \in Seq(Whole)
    PROVE  s \in Seq(Messages)
<1>1. Whole \subseteq Messages
    BY DEF Whole
<1> QED  BY <1>1

LEMMA HeadAndTail ==
    ASSUME NEW S, NEW s \in Seq(S), s # <<>>
    PROVE  Head(s) \in S /\ Tail(s) \in Seq(S) /\ s = <<Head(s)>> \o Tail(s)
<1>1. Len(s) \in Nat \ {0}
    BY EmptySeq
<1>2. 1 \in 1 .. Len(s) /\ Len(s) \in 1 .. Len(s)
    BY <1>1
<1>3. SubSeq(s, 1, Len(s)) = <<s[1]>> \o SubSeq(s, 1 + 1, Len(s))
    BY <1>2, SubSeqRecursiveFirst
<1>4. SubSeq(s, 1, Len(s)) = s /\ Tail(s) = SubSeq(s, 2, Len(s)) /\ Head(s) = s[1]
    BY SubSeqFull, TailIsSubSeq
<1>5. Head(s) \in S /\ Tail(s) \in Seq(S)
    BY HeadTailProperties
<1> QED  BY <1>3, <1>4, <1>5

\* Bytes at which the decoder stops: none, or a message it will refuse.
StopsAt(end) ==
    \/ end = <<>>
    \/ \E bad \in Messages, more \in Bytes :
         Fits(bad) /\ ~CanEncode(bad) /\ end = EncodeFrame(bad) \o more

\* These messages and what comes after them are what is still to be decoded.
Holds(d, tail, messages, end) == Continues(d, tail, Encoded[messages] \o end)

\* The first of the messages were handed over, and the others are left.
HandsOver(r, tail, messages, end) ==
    \E rest \in Seq(Whole) : messages = r.frames \o rest /\ Holds(r.decoder, tail, rest, end)

\* One call of Next that finds a frame.
LEMMA HandsOverFirst ==
    ASSUME NEW d, InBounds(d), NEW n, HasFrame(d, n), NEW s \in Seq(Whole),
           NEW tail \in Bytes, NEW end \in Bytes, StopsAt(end), Holds(d, tail, s, end)
    PROVE  s # <<>> /\ n.frames = <<Head(s)>> /\ Holds(n.decoder, tail, Tail(s), end)
<1>1. Unread(d) \in Bytes /\ Len(Unread(d)) = BufferedBytes(d) /\ BufferedBytes(d) \in Nat
    BY UnreadIsBytes
<1>2. BufferedBytes(d) > 0
    BY <1>1, Sizes DEF HasFrame
<1>3. CASE s = <<>>
    <2> DEFINE u == Unread(d)
    <2>1. <<>> \in Seq(Messages)
        OBVIOUS
    <2>2. Encoded[s] = <<>>
        BY <1>3, <2>1, EncodedUnfolds
    <2>3. <<>> \o end = end
        BY ConcatEmptySeq DEF Bytes
    <2>4. u \o tail = end
        BY <2>2, <2>3 DEF Holds, Continues
    <2>5. Len(u) > 0 /\ u \in Bytes
        BY <1>1, <1>2
    <2> HIDE DEF u
    <2>6. end # <<>>
        <3>1. Len(u \o tail) = Len(u) + Len(tail)
            BY <2>5, BytesJoin
        <3>2. Len(u) \in Nat /\ Len(tail) \in Nat
            BY <2>5 DEF Bytes
        <3>3. Len(end) > 0
            BY <2>4, <2>5, <3>1, <3>2
        <3>4. Len(<<>>) = 0
            OBVIOUS
        <3> QED  BY <3>3, <3>4
    <2>7. PICK bad \in Messages, more \in Bytes :
            Fits(bad) /\ ~CanEncode(bad) /\ end = EncodeFrame(bad) \o more
        BY <2>6 DEF StopsAt
    <2>8. Starts(d, tail, EncodeFrame(bad), more)
        BY <2>4, <2>7 DEF Starts, u
    <2>9. CanEncode(bad)
        BY <2>7, <2>8, DecodesFirst
    <2> QED  BY <2>7, <2>9
<1>4. CASE s # <<>>
    <2> DEFINE m == Head(s)
               e == Encoded[Tail(s)]
               more == e \o end
    <2>1. m \in Whole /\ Tail(s) \in Seq(Whole)
        BY <1>4, HeadAndTail
    <2>2. m \in Messages /\ Fits(m)
        BY <2>1, WholeFits
    <2>3. e \in Bytes
        BY <2>1, WholeAreMessages, EncodedType
    <2>4. Encoded[s] = EncodeFrame(m) \o e
        BY <1>4, WholeAreMessages, EncodedUnfolds
    <2>5. EncodeFrame(m) \in Bytes
        BY <2>2, EncodedIsBytes DEF Messages
    <2> DEFINE f == EncodeFrame(m)
    <2>6. f \in Bytes /\ Encoded[s] = f \o e
        BY <2>4, <2>5
    <2> HIDE DEF e, f
    <2>7. more \in Bytes /\ (f \o e) \o end = f \o more
        <3>1. Associate(f, e, end)
            BY <2>3, <2>6, BytesAssociate
        <3> QED  BY <2>3, <2>6, <3>1, BytesJoin DEF Associate
    <2>8. Unread(d) \o tail = f \o more
        BY <2>6, <2>7 DEF Holds, Continues
    <2> HIDE DEF more, m
    <2>9. Starts(d, tail, EncodeFrame(m), more)
        BY <2>8 DEF Starts, f
    <2>10. n.frames = <<m>> /\ Continues(n.decoder, tail, more)
        BY <2>2, <2>7, <2>9, DecodesFirst
    <2> QED  BY <1>4, <2>10 DEF m, more, e, Holds
<1> QED  BY <1>3, <1>4

\* When messages were encoded and their bytes have arrived, cut anywhere, the
\* loop hands over the first of them, whole and in order, and what it leaves
\* are the bytes of the others.
LEMMA DecodesMany ==
    ASSUME NEW c, InBounds(c), OffsetBounded(c), NEW tail \in Bytes, NEW end \in Bytes,
           StopsAt(end), NEW messages \in Seq(Whole), Holds(c, tail, messages, end)
    PROVE  HandsOver(NextFrames[c], tail, messages, end)
<1> DEFINE Fails(d) == \E s \in Seq(Whole) : /\ Holds(d, tail, s, end)
                                             /\ ~HandsOver(NextFrames[d], tail, s, end)
           Off == {d \in Decoders : InBounds(d) /\ OffsetBounded(d) /\ Fails(d)}
           Bad == {BufferedBytes(d) : d \in Off}
<1> SUFFICES ASSUME Off # {}  PROVE FALSE
    BY DEF InBounds
<1>1. Bad \subseteq Nat /\ Bad # {}
    <2> HIDE DEF Fails
    <2>1. \A d \in Off : BufferedBytes(d) \in Nat
        BY DecoderTypes DEF InBounds
    <2> QED  BY <2>1
<1>2. PICK k \in Bad : \A j \in Bad : k <= j
    <2> HIDE DEF Bad
    <2> QED  BY <1>1, LeastNumber
<1>3. PICK d \in Off : k = BufferedBytes(d)
    BY <1>2
<1> DEFINE n == NextFrame(d)
<1>4. /\ d \in Decoders /\ InBounds(d) /\ OffsetBounded(d) /\ BufferedBytes(d) \in Nat
    <2> HIDE DEF Fails
    <2> QED  BY <1>1, <1>3, DecoderTypes
<1>5. PICK s \in Seq(Whole) : Holds(d, tail, s, end) /\ ~HandsOver(NextFrames[d], tail, s, end)
    BY <1>3
<1>6. n \in Results
    BY <1>4, NextFrameType
<1>7. FailsBefore(d, n) \/ FailsNow(d, n) \/ NeedsMore(d, n) \/ HasFrame(d, n)
    BY <1>4, NextFrameCases
<1>8. NextFrames[d] = IF n.status # "ready" THEN n
                      ELSE After(n.frames, NextFrames[n.decoder])
    BY <1>4, NextFramesUnfolds
<1> HIDE DEF n
<1>9. CASE FailsBefore(d, n) \/ FailsNow(d, n) \/ NeedsMore(d, n)
    <2>1. /\ n.frames = <<>> /\ n.status # "ready"
          /\ n.decoder = d \/ n.decoder = [d EXCEPT !.failed = TRUE]
        <3>1. ASSUME FailsBefore(d, n)
              PROVE  n.frames = <<>> /\ n.status = "failed" /\ n.decoder = d
            BY <3>1 DEF FailsBefore
        <3>2. ASSUME FailsNow(d, n)
              PROVE  n.frames = <<>> /\ n.status = "failed" /\ n.decoder = [d EXCEPT !.failed = TRUE]
            BY <3>2 DEF FailsNow
        <3>3. ASSUME NeedsMore(d, n)
              PROVE  n.frames = <<>> /\ n.status = "more" /\ n.decoder = d
            BY <3>3 DEF NeedsMore
        <3> QED  BY <1>9, <3>1, <3>2, <3>3
    <2>2. Unread(n.decoder) = Unread(d)
        <3>1. n.decoder.buffer = d.buffer /\ n.decoder.read_offset = d.read_offset
            BY <1>4, <2>1 DEF Decoders
        <3> QED  BY <3>1 DEF Unread, Buffered, BufferedBytes
    <2>3. s = n.frames \o s
        BY <2>1, ConcatEmptySeq
    <2>4. Holds(n.decoder, tail, s, end)
        BY <1>5, <2>2 DEF Holds, Continues
    <2>5. HandsOver(n, tail, s, end)
        BY <2>3, <2>4 DEF HandsOver
    <2> QED  BY <1>5, <1>8, <2>1, <2>5
<1>10. CASE HasFrame(d, n)
    <2> DEFINE e == n.decoder
               r == NextFrames[e]
               t == Tail(s)
    <2>1. s # <<>> /\ n.frames = <<Head(s)>> /\ Holds(e, tail, t, end)
        BY <1>4, <1>5, <1>10, HandsOverFirst
    <2>2. t \in Seq(Whole) /\ s = <<Head(s)>> \o t
        BY <2>1, HeadAndTail
    <2>3. n.status = "ready" /\ Taken(d, n)
        BY <1>4, <1>10, FrameTaken
    <2>4. /\ e \in Decoders /\ InBounds(e) /\ BufferedBytes(e) < k
          /\ BufferedBytes(e) \in Nat
        <3>1. InBounds(e) /\ BufferedBytes(e) < BufferedBytes(d) /\ k = BufferedBytes(d)
            <4> HIDE DEF Off
            <4> QED  BY <1>3, <2>3 DEF Taken
        <3>2. e \in Decoders /\ BufferedBytes(e) \in Nat
            BY <3>1, DecoderTypes DEF InBounds
        <3> QED  BY <3>1, <3>2
    <2>5. OffsetBounded(e)
        <3>1. 0 < MaxFrameSize
            BY Sizes
        <3> QED  BY <2>3, <3>1 DEF Taken, OffsetBounded
    <2>6. e \notin Off
        <3>1. ~(k <= BufferedBytes(e))
            BY <1>3, <1>4, <2>4
        <3> HIDE DEF Fails
        <3> QED  BY <1>2, <3>1
    <2>7. HandsOver(r, tail, t, end)
        BY <2>1, <2>2, <2>4, <2>5, <2>6
    <2>8. r \in Results
        BY <2>4, <2>5, NextFramesExhausts DEF Exhausted
    <2> HIDE DEF e, r, t
    <2>9. PICK rest \in Seq(Whole) : t = r.frames \o rest /\ Holds(r.decoder, tail, rest, end)
        BY <2>7 DEF HandsOver
    <2>10. n.frames \in Seq(DecodedFrames)
        BY <1>6 DEF Results
    <2>11. NextFrames[d] = After(n.frames, r)
        BY <1>8, <2>3 DEF r, e
    <2>12. /\ After(n.frames, r).decoder = r.decoder
           /\ After(n.frames, r).frames = n.frames \o r.frames
        BY <2>8, <2>10, AfterType
    <2>13. s = (n.frames \o r.frames) \o rest
        <3> DEFINE A == DecodedFrames \cup Whole
        <3>1. n.frames \in Seq(A) /\ r.frames \in Seq(A) /\ rest \in Seq(A)
            <4>1. DecodedFrames \subseteq A /\ Whole \subseteq A
                OBVIOUS
            <4>2. r.frames \in Seq(DecodedFrames)
                BY <2>8 DEF Results
            <4> HIDE DEF A
            <4> QED  BY <2>9, <2>10, <4>1, <4>2
        <3>2. (n.frames \o r.frames) \o rest = n.frames \o (r.frames \o rest)
            <4> DEFINE x == n.frames
                       y == r.frames
            <4>1. x \in Seq(A) /\ y \in Seq(A) /\ rest \in Seq(A)
                BY <3>1
            <4> HIDE DEF A, x, y, Off, Bad, Fails
            <4>2. (x \o y) \o rest = x \o (y \o rest)
                <5>1. Associate(x, y, rest)
                    BY <4>1, Associates
                <5> QED  BY <5>1 DEF Associate
            <4> QED  BY <4>2 DEF x, y
        <3> QED  BY <2>1, <2>2, <2>9, <3>2
    <2>14. HandsOver(NextFrames[d], tail, s, end)
        BY <2>9, <2>11, <2>12, <2>13 DEF HandsOver
    <2> QED  BY <1>5, <2>14
<1> QED  BY <1>7, <1>9, <1>10
=============================================================================
