-------------------------- MODULE InitCacheProofs --------------------------
(***************************************************************************)
(* Proofs about the init-frame cache: for any routes, publishers, payloads *)
(* and caps, entries and trackers go together, the caps on entries and on  *)
(* bytes hold, a frame costs no other connection its cached routes, a      *)
(* refused one costs nobody anything, and no keyframe outlives its video   *)
(* configuration.                                                          *)
(*                                                                         *)
(* The bytes are sums over the routes and the tracks: the first section    *)
(* proves what is used of sums by induction over subsets, which follows    *)
(* from the well-foundedness of strict inclusion on finite sets.           *)
(***************************************************************************)
EXTENDS InitCache, ListProofs, FiniteSetTheorems

-----------------------------------------------------------------------------
(***************************************************************************)
(* Sums.                                                                   *)
(***************************************************************************)
\* Induction over the subsets of a finite set, for a set of good ones.
LEMMA SubsetInduction ==
    ASSUME NEW D, IsFiniteSet(D), NEW G,
           \A S \in SUBSET D : (\A T \in SUBSET D : T \subseteq S /\ T # S => T \in G) => S \in G
    PROVE  \A S \in SUBSET D : S \in G
<1> DEFINE bad == (SUBSET D) \ G
<1> SUFFICES ASSUME bad # {} PROVE FALSE
  OBVIOUS
<1>1. IsWellFoundedOn(StrictSubsetOrdering(D), SUBSET D)
  <2>1. FiniteSubsetsOf(D) = SUBSET D
    BY FS_FiniteSubsetsOfFinite
  <2>2. IsWellFoundedOn(StrictSubsetOrdering(D), FiniteSubsetsOf(D))
    BY FS_StrictSubsetOrderingWellFounded
  <2> QED BY <2>1, <2>2
<1>2. bad \subseteq SUBSET D
  OBVIOUS
<1>3. \E S \in bad : \A T \in bad : ~(<<T, S>> \in StrictSubsetOrdering(D))
  <2> HIDE DEF bad
  <2> QED BY <1>1, <1>2, WFMin
<1>4. PICK S \in bad : \A T \in bad : ~(<<T, S>> \in StrictSubsetOrdering(D))
  BY <1>3
<1>5. \A T \in SUBSET D : T \subseteq S /\ T # S => T \in G
  BY <1>4 DEF StrictSubsetOrdering
<1> QED BY <1>5

\* What the sums over the subsets of S are.
IsSum(g, f, S) ==
    g = [T \in SUBSET S |->
            IF T = {} THEN 0 ELSE f[CHOOSE x \in T : TRUE] + g[T \ {CHOOSE x \in T : TRUE}]]

\* A sum is what the one function on the subsets of S gives for S itself.
LEMMA SumUnfold ==
    ASSUME NEW f, NEW S
    PROVE  SumFunctionOnSet(f, S) = (CHOOSE g : IsSum(g, f, S))[S]
BY DEF SumFunctionOnSet, FoldFunctionOnSet, MapThenFoldSet, IsSum

\* Two such functions, on a set and on a subset of it, agree on the subset.
LEMMA SumUnique ==
    ASSUME NEW D, IsFiniteSet(D), NEW f, NEW S \in SUBSET D, NEW U \in SUBSET S,
           NEW g, IsSum(g, f, S), NEW h, IsSum(h, f, U)
    PROVE  g[U] = h[U]
<1> DEFINE G == {T \in SUBSET U : g[T] = h[T]}
<1>1. IsFiniteSet(U)
  BY FS_Subset
<1>2. ASSUME NEW T \in SUBSET U,
             \A V \in SUBSET U : V \subseteq T /\ V # T => V \in G
      PROVE  T \in G
  <2> DEFINE x == CHOOSE y \in T : TRUE
  <2>1. T \in SUBSET S
    OBVIOUS
  <2>2. g[T] = IF T = {} THEN 0 ELSE f[x] + g[T \ {x}]
    BY <2>1 DEF IsSum
  <2>3. h[T] = IF T = {} THEN 0 ELSE f[x] + h[T \ {x}]
    BY DEF IsSum
  <2>4. CASE T = {}
    BY <2>2, <2>3, <2>4
  <2>5. CASE T # {}
    <3>1. x \in T
      BY <2>5
    <3>2. T \ {x} \in G
      <4> HIDE DEF x, G
      <4> QED BY <3>1, <1>2
    <3> QED BY <3>2, <2>2, <2>3, <2>5
  <2> QED BY <2>4, <2>5
<1>3. \A T \in SUBSET U : T \in G
  <2> HIDE DEF G
  <2> QED BY <1>1, <1>2, SubsetInduction
<1> QED BY <1>3

\* There is one for every finite set: it is put together from the sums over
\* the smaller subsets.
LEMMA SumExists ==
    ASSUME NEW D, IsFiniteSet(D), NEW f, NEW S \in SUBSET D
    PROVE  \E g : IsSum(g, f, S)
<1> DEFINE G == {T \in SUBSET D : \E g : IsSum(g, f, T)}
<1> DEFINE Sum(T) == (CHOOSE g : IsSum(g, f, T))[T]
<1>1. ASSUME NEW T \in SUBSET D,
             \A V \in SUBSET D : V \subseteq T /\ V # T => V \in G
      PROVE  T \in G
  <2> DEFINE x(V) == CHOOSE y \in V : TRUE
  <2> DEFINE h == [V \in SUBSET T |-> IF V = {} THEN 0 ELSE f[x(V)] + Sum(V \ {x(V)})]
  <2>1. ASSUME NEW V \in SUBSET T, V # T PROVE h[V] = Sum(V)
    <3> DEFINE g == CHOOSE g : IsSum(g, f, V)
    <3>1. IsSum(g, f, V)
      BY <1>1, <2>1
    <3>2. g[V] = IF V = {} THEN 0 ELSE f[x(V)] + g[V \ {x(V)}]
      <4> HIDE DEF g
      <4> QED BY <3>1 DEF IsSum
    <3>3. CASE V = {}
      BY <3>2, <3>3
    <3>4. CASE V # {}
      <4> DEFINE W == V \ {x(V)}
      <4>1. x(V) \in V
        BY <3>4
      <4>2. W \in SUBSET V /\ W # T /\ W \in SUBSET D /\ V \in SUBSET D
        BY <4>1, <2>1
      <4>3. IsSum(CHOOSE k : IsSum(k, f, W), f, W)
        BY <4>2, <1>1
      <4>4. g[W] = Sum(W)
        <5> HIDE DEF g, W
        <5> QED BY <4>2, <4>3, <3>1, SumUnique
      <4>5. h[V] = f[x(V)] + Sum(W)
        BY <3>4
      <4> QED BY <4>4, <4>5, <3>2, <3>4
    <3> QED BY <3>3, <3>4
  <2>2. h = [V \in SUBSET T |-> IF V = {} THEN 0 ELSE f[x(V)] + h[V \ {x(V)}]]
    <3>1. ASSUME NEW V \in SUBSET T, V # {} PROVE h[V \ {x(V)}] = Sum(V \ {x(V)})
      <4>1. x(V) \in V
        BY <3>1
      <4>2. V \ {x(V)} \in SUBSET T /\ V \ {x(V)} # T
        BY <4>1
      <4> HIDE DEF x, Sum, h
      <4> QED BY <4>2, <2>1
    <3> HIDE DEF x, Sum
    <3> QED BY <3>1, ZenonT(30)
  <2>3. IsSum(h, f, T)
    BY <2>2 DEF IsSum
  <2> HIDE DEF h
  <2> QED BY <2>3
<1>2. \A T \in SUBSET D : T \in G
  <2> HIDE DEF G
  <2> QED BY <1>1, SubsetInduction
<1> QED BY <1>2

\* The sum over nothing.
LEMMA SumEmpty ==
    ASSUME NEW f
    PROVE  SumFunctionOnSet(f, {}) = 0
<1>1. PICK g : IsSum(g, f, {})
  BY FS_EmptySet, SumExists
<1>2. IsSum(CHOOSE h : IsSum(h, f, {}), f, {})
  BY <1>1
<1> QED BY <1>2, SumUnfold DEF IsSum

\* The sum with any one element taken out: the order does not matter.
LEMMA SumRemove ==
    ASSUME NEW D, IsFiniteSet(D), NEW f \in [D -> Nat]
    PROVE  \A S \in SUBSET D :
             /\ SumFunctionOnSet(f, S) \in Nat
             /\ \A y \in S :
                  SumFunctionOnSet(f, S) = f[y] + SumFunctionOnSet(f, S \ {y})
<1> DEFINE Sum(T) == SumFunctionOnSet(f, T)
<1> DEFINE x(T) == CHOOSE y \in T : TRUE
<1>1. ASSUME NEW T \in SUBSET D, T # {}
      PROVE  x(T) \in T /\ Sum(T) = f[x(T)] + Sum(T \ {x(T)})
  <2> DEFINE g == CHOOSE h : IsSum(h, f, T)
  <2> DEFINE W == T \ {x(T)}
  <2>1. IsSum(g, f, T)
    BY SumExists
  <2>2. x(T) \in T
    BY <1>1
  <2>3. IsSum(CHOOSE k : IsSum(k, f, W), f, W)
    <3>1. W \in SUBSET D
      OBVIOUS
    <3> HIDE DEF W
    <3> QED BY <3>1, SumExists
  <2>4. g[W] = Sum(W)
    <3>1. W \in SUBSET T
      OBVIOUS
    <3> HIDE DEF g, W
    <3> QED BY <3>1, <2>1, <2>3, SumUnique, SumUnfold
  <2>5. g[T] = f[x(T)] + g[W]
    <3> HIDE DEF g
    <3> QED BY <2>1, <1>1 DEF IsSum
  <2>6. Sum(T) = g[T]
    BY SumUnfold
  <2> QED BY <2>2, <2>4, <2>5, <2>6
<1> HIDE DEF Sum, x
<1> DEFINE G == {S \in SUBSET D : Sum(S) \in Nat /\ \A y \in S : Sum(S) = f[y] + Sum(S \ {y})}
<1>2. ASSUME NEW S \in SUBSET D,
             \A T \in SUBSET D : T \subseteq S /\ T # S => T \in G
      PROVE  S \in G
  <2>1. CASE S = {}
    BY <2>1, SumEmpty DEF Sum
  <2>2. CASE S # {}
    <3> DEFINE c == x(S)
    <3>1. c \in S /\ Sum(S) = f[c] + Sum(S \ {c})
      BY <2>2, <1>1
    <3> HIDE DEF c
    <3>2. S \ {c} \in G
      BY <3>1, <1>2
    <3>3. f[c] \in Nat /\ Sum(S \ {c}) \in Nat
      BY <3>1, <3>2
    <3>4. Sum(S) \in Nat
      BY <3>1, <3>3
    <3>5. ASSUME NEW y \in S PROVE Sum(S) = f[y] + Sum(S \ {y})
      <4>1. CASE y = c
        BY <4>1, <3>1
      <4>2. CASE y # c
        <5> DEFINE R == S \ {c, y}
        <5>1. y \in S \ {c} /\ (S \ {c}) \ {y} = R
          BY <4>2
        <5>2. Sum(S \ {c}) = f[y] + Sum(R)
          BY <5>1, <3>2
        <5>3. S \ {y} \in G
          BY <3>5, <1>2
        <5>4. c \in S \ {y} /\ (S \ {y}) \ {c} = R
          BY <4>2, <3>1
        <5>5. Sum(S \ {y}) = f[c] + Sum(R)
          BY <5>3, <5>4
        <5>6. R \in G
          <6>1. R \subseteq S /\ R # S /\ R \in SUBSET D
            BY <3>1
          <6> HIDE DEF R, G
          <6> QED BY <6>1, <1>2
        <5>7. f[c] \in Nat /\ f[y] \in Nat /\ Sum(R) \in Nat
          BY <5>6, <3>1
        <5> HIDE DEF R, G
        <5> QED BY <5>2, <5>5, <5>7, <3>1
      <4> QED BY <4>1, <4>2
    <3> QED BY <3>4, <3>5
  <2> QED BY <2>1, <2>2
<1>3. \A S \in SUBSET D : S \in G
  <2> HIDE DEF G
  <2> QED BY <1>2, SubsetInduction
<1> QED BY <1>3 DEF Sum

\* A sum grows with its summands.
LEMMA SumMonotone ==
    ASSUME NEW D, IsFiniteSet(D), NEW f \in [D -> Nat], NEW g \in [D -> Nat],
           NEW S \in SUBSET D, \A x \in S : f[x] <= g[x]
    PROVE  SumFunctionOnSet(f, S) <= SumFunctionOnSet(g, S)
<1> DEFINE F(T) == SumFunctionOnSet(f, T)
<1> DEFINE H(T) == SumFunctionOnSet(g, T)
<1>0. \A T \in SUBSET D : /\ F(T) \in Nat /\ H(T) \in Nat
                         /\ \A y \in T : F(T) = f[y] + F(T \ {y}) /\ H(T) = g[y] + H(T \ {y})
  BY SumRemove
<1>00. F({}) = 0 /\ H({}) = 0
  BY SumEmpty
<1> HIDE DEF F, H
<1> DEFINE G == {T \in SUBSET D : T \subseteq S => F(T) <= H(T)}
<1>1. ASSUME NEW T \in SUBSET D,
             \A V \in SUBSET D : V \subseteq T /\ V # T => V \in G
      PROVE  T \in G
  <2> SUFFICES ASSUME T \subseteq S PROVE F(T) <= H(T)
    OBVIOUS
  <2>1. CASE T = {}
    BY <2>1, <1>00
  <2>2. CASE T # {}
    <3>1. PICK y \in T : TRUE
      BY <2>2
    <3>2. T \ {y} \in G
      BY <3>1, <1>1
    <3>3. F(T \ {y}) <= H(T \ {y})
      BY <3>2
    <3>4. F(T \ {y}) \in Nat /\ H(T \ {y}) \in Nat /\ f[y] \in Nat /\ g[y] \in Nat /\ f[y] <= g[y]
      BY <1>0
    <3>5. F(T) = f[y] + F(T \ {y}) /\ H(T) = g[y] + H(T \ {y})
      BY <1>0
    <3> HIDE DEF G
    <3> QED BY <3>3, <3>4, <3>5
  <2> QED BY <2>1, <2>2
<1>2. \A T \in SUBSET D : T \in G
  <2> HIDE DEF G
  <2> QED BY <1>1, SubsetInduction
<1> QED BY <1>2 DEF F, H

\* A sum of zeros.
LEMMA SumOfZeros ==
    ASSUME NEW D, IsFiniteSet(D), NEW f \in [D -> Nat], NEW S \in SUBSET D,
           \A x \in S : f[x] = 0
    PROVE  SumFunctionOnSet(f, S) = 0
<1> DEFINE F(T) == SumFunctionOnSet(f, T)
<1>0. \A T \in SUBSET D : /\ F(T) \in Nat
                         /\ \A y \in T : F(T) = f[y] + F(T \ {y})
  BY SumRemove
<1>00. F({}) = 0
  BY SumEmpty
<1> HIDE DEF F
<1> DEFINE G == {T \in SUBSET D : T \subseteq S => F(T) = 0}
<1>1. ASSUME NEW T \in SUBSET D,
             \A V \in SUBSET D : V \subseteq T /\ V # T => V \in G
      PROVE  T \in G
  <2> SUFFICES ASSUME T \subseteq S PROVE F(T) = 0
    OBVIOUS
  <2>1. CASE T = {}
    BY <2>1, <1>00
  <2>2. CASE T # {}
    <3>1. PICK y \in T : TRUE
      BY <2>2
    <3>2. T \ {y} \in G
      BY <3>1, <1>1
    <3>3. F(T \ {y}) = 0 /\ F(T) = f[y] + F(T \ {y}) /\ f[y] = 0
      BY <3>2, <1>0
    <3> HIDE DEF G
    <3> QED BY <3>3
  <2> QED BY <2>1, <2>2
<1>2. \A T \in SUBSET D : T \in G
  <2> HIDE DEF G
  <2> QED BY <1>1, SubsetInduction
<1> QED BY <1>2 DEF F

\* It depends on nothing but the summands.
LEMMA SumCongruent ==
    ASSUME NEW D, IsFiniteSet(D), NEW f \in [D -> Nat], NEW g \in [D -> Nat],
           NEW S \in SUBSET D, \A x \in S : f[x] = g[x]
    PROVE  SumFunctionOnSet(f, S) = SumFunctionOnSet(g, S)
<1>1. \A x \in S : f[x] <= g[x] /\ g[x] <= f[x]
  OBVIOUS
<1>2. SumFunctionOnSet(f, S) \in Nat /\ SumFunctionOnSet(g, S) \in Nat
  BY SumRemove
<1>3. SumFunctionOnSet(f, S) <= SumFunctionOnSet(g, S)
  BY <1>1, SumMonotone
<1>4. SumFunctionOnSet(g, S) <= SumFunctionOnSet(f, S)
  BY <1>1, SumMonotone
<1> QED BY <1>2, <1>3, <1>4

\* The summands of a subset and those of the rest.
LEMMA SumSplit ==
    ASSUME NEW D, IsFiniteSet(D), NEW f \in [D -> Nat],
           NEW S \in SUBSET D, NEW U \in SUBSET S
    PROVE  SumFunctionOnSet(f, S) = SumFunctionOnSet(f, U) + SumFunctionOnSet(f, S \ U)
<1> DEFINE F(T) == SumFunctionOnSet(f, T)
<1>0. \A T \in SUBSET D : /\ F(T) \in Nat
                         /\ \A y \in T : F(T) = f[y] + F(T \ {y})
  BY SumRemove
<1>00. F({}) = 0
  BY SumEmpty
<1> HIDE DEF F
<1> DEFINE G == {T \in SUBSET D : T \subseteq S => F(S) = F(T) + F(S \ T)}
<1>1. ASSUME NEW T \in SUBSET D,
             \A V \in SUBSET D : V \subseteq T /\ V # T => V \in G
      PROVE  T \in G
  <2> SUFFICES ASSUME T \subseteq S PROVE F(S) = F(T) + F(S \ T)
    OBVIOUS
  <2>1. CASE T = {}
    <3>1. S \ T = S
      BY <2>1
    <3>2. F(S) \in Nat
      BY <1>0
    <3> HIDE DEF G
    <3> QED BY <2>1, <1>00, <3>1, <3>2
  <2>2. CASE T # {}
    <3>1. PICK y \in T : TRUE
      BY <2>2
    <3>2. T \ {y} \in G
      BY <3>1, <1>1
    <3>3. F(S) = F(T \ {y}) + F(S \ (T \ {y}))
      BY <3>2
    <3>4. y \in S \ (T \ {y}) /\ (S \ (T \ {y})) \ {y} = S \ T
      OBVIOUS
    <3>5. F(S \ (T \ {y})) = f[y] + F(S \ T)
      BY <1>0, <3>4
    <3>6. F(T) = f[y] + F(T \ {y})
      BY <1>0
    <3>7. f[y] \in Nat /\ F(S \ T) \in Nat /\ F(T \ {y}) \in Nat
      BY <1>0
    <3> HIDE DEF G
    <3> QED BY <3>3, <3>5, <3>6, <3>7
  <2> QED BY <2>1, <2>2
<1>2. \A T \in SUBSET D : T \in G
  <2> HIDE DEF G
  <2> QED BY <1>1, SubsetInduction
<1> QED BY <1>2 DEF F

-----------------------------------------------------------------------------
(***************************************************************************)
(* The bytes of an entry.                                                  *)
(***************************************************************************)
\* What the proofs use of the assumption on the constants, piece by piece.
LEMMA Caps == max_stream_cache_bytes \in Nat /\ MAX_STREAM_CACHE_ENTRIES \in Nat
BY InitCacheAssumption

LEMMA FiniteNames == IsFiniteSet(Route) /\ IsFiniteSet(Track)
BY InitCacheAssumption

LEMMA NoneDistinct == None \notin StreamCache
BY InitCacheAssumption

LEMMA KeyBytesNat == KeyBytes \in [Route -> Nat]
BY InitCacheAssumption

\* A field takes a number of bytes.
LEMMA FieldBytes == \A x \in Field : Bytes(x) \in Nat
BY InitCacheAssumption DEF Field, Bytes

\* The parts of a medium's headers.
LEMMA TrackFunction ==
    ASSUME NEW h \in Headers
    PROVE  /\ h.combined \in Field
           /\ h.track \in [Track -> Field]
           /\ [t \in Track |-> Bytes(h.track[t])] \in [Track -> Nat]
BY FieldBytes DEF Headers

HeaderBytes(h) == Bytes(h.combined) + TrackBytes(h, Track)

\* Some of the tracks take no more bytes than all of them.
LEMMA TrackBytesNat ==
    ASSUME NEW h \in Headers, NEW tracks \in SUBSET Track
    PROVE  TrackBytes(h, tracks) \in Nat /\ TrackBytes(h, tracks) <= TrackBytes(h, Track)
<1> DEFINE f == [t \in Track |-> Bytes(h.track[t])]
<1>1. f \in [Track -> Nat] /\ IsFiniteSet(Track)
  BY TrackFunction, FiniteNames
<1>2. /\ SumFunctionOnSet(f, tracks) \in Nat
      /\ SumFunctionOnSet(f, Track) \in Nat
      /\ SumFunctionOnSet(f, Track \ tracks) \in Nat
  <2> HIDE DEF f
  <2> QED BY <1>1, SumRemove
<1>3. SumFunctionOnSet(f, Track)
        = SumFunctionOnSet(f, tracks) + SumFunctionOnSet(f, Track \ tracks)
  <2> HIDE DEF f
  <2> QED BY <1>1, SumSplit
<1>4. TrackBytes(h, tracks) = SumFunctionOnSet(f, tracks)
      /\ TrackBytes(h, Track) = SumFunctionOnSet(f, Track)
  BY DEF TrackBytes
<1> HIDE DEF f
<1> QED BY <1>2, <1>3, <1>4

\* Headers take a number of bytes.
LEMMA HeaderBytesNat ==
    ASSUME NEW h \in Headers
    PROVE  HeaderBytes(h) \in Nat
BY TrackBytesNat, TrackFunction, FieldBytes DEF HeaderBytes

\* No headers take no bytes.
LEMMA NoHeadersEmpty ==
    /\ NoHeaders \in Headers
    /\ \A tracks \in SUBSET Track : TrackBytes(NoHeaders, tracks) = 0
    /\ HeaderBytes(NoHeaders) = 0
<1>1. NoHeaders \in Headers
  BY DEF NoHeaders, Headers, Field
<1>2. ASSUME NEW tracks \in SUBSET Track PROVE TrackBytes(NoHeaders, tracks) = 0
  <2> DEFINE f == [t \in Track |-> Bytes(NoHeaders.track[t])]
  <2>1. f \in [Track -> Nat] /\ IsFiniteSet(Track)
    BY <1>1, TrackFunction, FiniteNames
  <2>2. \A t \in Track : f[t] = 0
    BY DEF NoHeaders, Bytes
  <2>3. SumFunctionOnSet(f, tracks) = 0
    <3> HIDE DEF f
    <3> QED BY <2>1, <2>2, SumOfZeros
  <2> QED BY <2>3 DEF TrackBytes
<1>3. Bytes(NoHeaders.combined) = 0
  BY DEF NoHeaders, Bytes
<1> QED BY <1>1, <1>2, <1>3 DEF HeaderBytes

\* One track's slot, set to another field.
LEMMA SlotBytes ==
    ASSUME NEW h \in Headers, NEW g \in Headers, NEW t \in Track,
           \A u \in Track \ {t} : g.track[u] = h.track[u]
    PROVE  /\ TrackBytes(g, Track) + Bytes(h.track[t]) = TrackBytes(h, Track) + Bytes(g.track[t])
           /\ TrackBytes(h, {t}) = Bytes(h.track[t])
<1> DEFINE a == [u \in Track |-> Bytes(h.track[u])]
<1> DEFINE b == [u \in Track |-> Bytes(g.track[u])]
<1>1. a \in [Track -> Nat] /\ b \in [Track -> Nat] /\ IsFiniteSet(Track)
  BY TrackFunction, FiniteNames
<1>2. a[t] = Bytes(h.track[t]) /\ b[t] = Bytes(g.track[t])
  OBVIOUS
<1>3. \A u \in Track \ {t} : b[u] = a[u]
  OBVIOUS
<1>4. TrackBytes(h, Track) = SumFunctionOnSet(a, Track)
      /\ TrackBytes(g, Track) = SumFunctionOnSet(b, Track)
      /\ TrackBytes(h, {t}) = SumFunctionOnSet(a, {t})
  BY DEF TrackBytes
<1> HIDE DEF a, b
<1>5. SumFunctionOnSet(a, Track) = a[t] + SumFunctionOnSet(a, Track \ {t})
      /\ SumFunctionOnSet(b, Track) = b[t] + SumFunctionOnSet(b, Track \ {t})
      /\ SumFunctionOnSet(a, Track \ {t}) \in Nat
      /\ SumFunctionOnSet(b, Track \ {t}) \in Nat
  BY <1>1, SumRemove
<1>6. SumFunctionOnSet(a, Track \ {t}) = SumFunctionOnSet(b, Track \ {t})
  BY <1>1, <1>3, SumCongruent
<1>7. SumFunctionOnSet(a, {t}) = a[t] + SumFunctionOnSet(a, {t} \ {t})
  BY <1>1, SumRemove
<1>8. SumFunctionOnSet(a, {t} \ {t}) = 0
  <2>1. {t} \ {t} = {}
    OBVIOUS
  <2> QED BY <2>1, SumEmpty
<1>9. a[t] \in Nat /\ b[t] \in Nat
  BY <1>1
<1>10. SumFunctionOnSet(a, {t}) = a[t]
  BY <1>7, <1>8, <1>9
<1> QED BY <1>2, <1>4, <1>5, <1>6, <1>9, <1>10

\* A frame for one track names a track.
LEMMA SingleTrack ==
    ASSUME NEW tracks \in SUBSET Track, Single(tracks)
    PROVE  \E t \in Track : tracks = {t}
<1>1. IsFiniteSet(tracks)
  BY FiniteNames, FS_Subset
<1> QED BY <1>1, FS_Singleton DEF Single

\* Storing a header accounts for what it replaces; dropping one adds nothing.
LEMMA HeadersStored ==
    ASSUME NEW h \in Headers, NEW f, f.tracks \in SUBSET Track, f.body \in Payload
    PROVE  /\ SetHeaders(h, f) \in Headers
           /\ SetHeaders(h, f) # NoHeaders
           /\ ReplacedBytes(h, f) \in Nat
           /\ ReplacedBytes(h, f) <= HeaderBytes(h)
           /\ HeaderBytes(SetHeaders(h, f)) + ReplacedBytes(h, f) = HeaderBytes(h) + f.body.len
           /\ DropHeaders(h, f) \in Headers
           /\ HeaderBytes(DropHeaders(h, f)) <= HeaderBytes(h)
<1> DEFINE s == SetHeaders(h, f)
<1> DEFINE d == DropHeaders(h, f)
<1>1. f.body \in Field /\ f.body # None /\ Bytes(f.body) = f.body.len /\ f.body.len \in Nat
      /\ None \in Field /\ Bytes(None) = 0
  BY InitCacheAssumption DEF Field, Bytes
<1>2. s \in Headers /\ d \in Headers
  BY <1>1, NoHeadersEmpty, TrackFunction DEF SetHeaders, DropHeaders, Headers, NoHeaders
<1>3. /\ h.combined \in Field /\ Bytes(h.combined) \in Nat
      /\ TrackBytes(h, Track) \in Nat /\ TrackBytes(s, Track) \in Nat /\ TrackBytes(d, Track) \in Nat
  BY <1>2, TrackFunction, FieldBytes, TrackBytesNat
<1>4. CASE Single(f.tracks)
  <2>1. PICK t \in Track : f.tracks = {t}
    BY <1>4, SingleTrack
  <2>2. /\ s.combined = None /\ d.combined = None
        /\ s.track[t] = f.body /\ d.track[t] = None
        /\ \A u \in Track \ {t} : s.track[u] = h.track[u] /\ d.track[u] = h.track[u]
    BY <1>4, <2>1 DEF SetHeaders, DropHeaders
  <2>3. ReplacedBytes(h, f) = Bytes(h.combined) + TrackBytes(h, {t})
    BY <1>4, <2>1 DEF ReplacedBytes
  <2>4. Bytes(h.track[t]) \in Nat
    BY TrackFunction, FieldBytes
  <2>5. s # NoHeaders
    BY <2>2, <1>1 DEF NoHeaders
  <2> HIDE DEF s, d
  <2>6. TrackBytes(s, Track) + Bytes(h.track[t]) = TrackBytes(h, Track) + Bytes(s.track[t])
        /\ TrackBytes(h, {t}) = Bytes(h.track[t])
    BY <1>2, <2>2, SlotBytes
  <2>7. TrackBytes(d, Track) + Bytes(h.track[t]) = TrackBytes(h, Track) + Bytes(d.track[t])
    BY <1>2, <2>2, SlotBytes
  <2>8. TrackBytes(h, {t}) <= TrackBytes(h, Track)
    BY TrackBytesNat
  <2>9. HeaderBytes(s) = TrackBytes(s, Track) /\ HeaderBytes(d) = TrackBytes(d, Track)
        /\ HeaderBytes(h) = Bytes(h.combined) + TrackBytes(h, Track)
    BY <2>2, <1>1, <1>3 DEF HeaderBytes
  <2>10. Bytes(s.track[t]) = f.body.len /\ Bytes(d.track[t]) = 0
    BY <2>2, <1>1
  <2>11. /\ ReplacedBytes(h, f) \in Nat
         /\ ReplacedBytes(h, f) <= HeaderBytes(h)
         /\ HeaderBytes(s) + ReplacedBytes(h, f) = HeaderBytes(h) + f.body.len
         /\ HeaderBytes(d) <= HeaderBytes(h)
    BY <1>1, <1>3, <2>3, <2>4, <2>6, <2>7, <2>8, <2>9, <2>10
  <2> QED BY <2>11, <2>5, <1>2 DEF s, d
<1>5. CASE ~Single(f.tracks)
  <2>1. s = [NoHeaders EXCEPT !.combined = f.body] /\ d = NoHeaders
    BY <1>5 DEF SetHeaders, DropHeaders
  <2>2. ReplacedBytes(h, f) = HeaderBytes(h)
    BY <1>5 DEF ReplacedBytes, HeaderBytes
  <2>3. s.combined = f.body /\ s.track = NoHeaders.track
    BY <2>1 DEF NoHeaders
  <2>4. TrackBytes(s, Track) = TrackBytes(NoHeaders, Track)
    BY <2>3 DEF TrackBytes
  <2>5. s # NoHeaders
    BY <2>3, <1>1 DEF NoHeaders
  <2>6. HeaderBytes(s) = f.body.len
    BY <2>3, <2>4, <1>1, NoHeadersEmpty DEF HeaderBytes
  <2>7. HeaderBytes(h) \in Nat
    BY HeaderBytesNat
  <2>8. HeaderBytes(d) = 0
    BY <2>1, NoHeadersEmpty
  <2> HIDE DEF s, d
  <2>9. /\ ReplacedBytes(h, f) \in Nat
        /\ ReplacedBytes(h, f) <= HeaderBytes(h)
        /\ HeaderBytes(s) + ReplacedBytes(h, f) = HeaderBytes(h) + f.body.len
        /\ HeaderBytes(d) <= HeaderBytes(h)
    BY <2>2, <2>6, <2>7, <2>8, <1>1
  <2> QED BY <2>9, <2>5, <1>2 DEF s, d
<1> QED BY <1>4, <1>5

\* The bytes of an entry, medium by medium.
LEMMA EntryBytesNat ==
    ASSUME NEW r \in Route, NEW c \in StreamCache
    PROVE  /\ KeyBytes[r] \in Nat
           /\ Bytes(c.metadata) \in Nat /\ Bytes(c.last_keyframe) \in Nat
           /\ HeaderBytes(c.video) \in Nat /\ HeaderBytes(c.audio) \in Nat
           /\ EntryBytes(r, c) = KeyBytes[r] + Bytes(c.metadata) + Bytes(c.last_keyframe)
                                 + HeaderBytes(c.video) + HeaderBytes(c.audio)
           /\ EntryBytes(r, c) \in Nat
<1>1. /\ c.video \in Headers /\ c.audio \in Headers
      /\ c.metadata \in Field /\ c.last_keyframe \in Field
  BY DEF StreamCache
<1>2. KeyBytes[r] \in Nat
  BY KeyBytesNat
<1>3. Bytes(c.metadata) \in Nat /\ Bytes(c.last_keyframe) \in Nat
  BY <1>1, FieldBytes
<1>4. /\ Bytes(c.video.combined) \in Nat /\ TrackBytes(c.video, Track) \in Nat
      /\ Bytes(c.audio.combined) \in Nat /\ TrackBytes(c.audio, Track) \in Nat
  BY <1>1, TrackFunction, FieldBytes, TrackBytesNat
<1>5. /\ HeaderBytes(c.video) = Bytes(c.video.combined) + TrackBytes(c.video, Track)
      /\ HeaderBytes(c.audio) = Bytes(c.audio.combined) + TrackBytes(c.audio, Track)
  BY DEF HeaderBytes
<1> QED BY <1>2, <1>3, <1>4, <1>5 DEF EntryBytes

\* An entry that holds nothing takes the bytes of its key.
LEMMA EmptyEntry ==
    /\ EmptyStreamCache \in StreamCache
    /\ \A r \in Route : EntryBytes(r, EmptyStreamCache) = KeyBytes[r]
<1>1. EmptyStreamCache \in StreamCache
  BY NoHeadersEmpty DEF EmptyStreamCache, StreamCache, Field
<1>2. ASSUME NEW r \in Route PROVE EntryBytes(r, EmptyStreamCache) = KeyBytes[r]
  <2> DEFINE c == EmptyStreamCache
  <2>1. /\ c.video = NoHeaders /\ c.audio = NoHeaders /\ c.metadata = None /\ c.last_keyframe = None
    BY DEF EmptyStreamCache
  <2>2. Bytes(None) = 0
    BY DEF Bytes
  <2> HIDE DEF c
  <2> QED BY <1>1, <2>1, <2>2, NoHeadersEmpty, EntryBytesNat DEF c
<1> QED BY <1>1, <1>2

\* The parts of a frame.
LEMMA FrameParts ==
    ASSUME NEW f \in Frame
    PROVE  /\ f.tracks \in SUBSET Track /\ f.body \in Payload /\ f.body.len \in Nat
           /\ f.body \in Field /\ f.body # None /\ Bytes(f.body) = f.body.len
           /\ f.kind \in {"video header", "audio header", "metadata", "keyframe", "live"}
<1>1. f.tracks \in SUBSET Track /\ f.body \in Payload
      /\ f.kind \in {"video header", "audio header", "metadata", "keyframe", "live"}
  BY DEF Frame
<1> QED BY <1>1, InitCacheAssumption DEF Field, Bytes

\* The very video configuration that is cached leaves the headers as they are.
LEMMA UnchangedHeaders ==
    ASSUME NEW c \in StreamCache, NEW f \in Frame, VideoHeaderUnchanged(c, f)
    PROVE  SetHeaders(c.video, f) = c.video
<1>1. c.video \in Headers
  BY DEF StreamCache
<1>2. CASE Single(f.tracks)
  <2>1. c.video.combined = None /\ \A t \in f.tracks : c.video.track[t] = f.body
    BY <1>2 DEF VideoHeaderUnchanged
  <2>2. c.video.track = [t \in Track |-> IF t \in f.tracks THEN f.body ELSE c.video.track[t]]
    BY <2>1, <1>1 DEF Headers
  <2>3. c.video = [combined |-> c.video.combined, track |-> c.video.track]
    BY <1>1 DEF Headers
  <2> QED BY <1>2, <2>1, <2>2, <2>3 DEF SetHeaders
<1>3. CASE ~Single(f.tracks)
  BY <1>3 DEF VideoHeaderUnchanged, SetHeaders
<1> QED BY <1>2, <1>3

\* Storing a frame in an entry costs its length less what it replaces.
LEMMA FrameStored ==
    ASSUME NEW r \in Route, NEW c \in StreamCache, NEW f \in Frame, f.kind # "live"
    PROVE  /\ Updated(c, f) \in StreamCache
           /\ Updated(c, f) # EmptyStreamCache
           /\ Updated(c, f).video # c.video => Updated(c, f).last_keyframe = None
           /\ ExistingFieldBytes(c, f) \in Nat
           /\ ExistingFieldBytes(c, f) + KeyBytes[r] <= EntryBytes(r, c)
           /\ EntryBytes(r, Updated(c, f)) + ExistingFieldBytes(c, f)
                = EntryBytes(r, c) + f.body.len
<1> DEFINE u == Updated(c, f)
<1> DEFINE x == ExistingFieldBytes(c, f)
<1>1. /\ f.tracks \in SUBSET Track /\ f.body \in Payload /\ f.body.len \in Nat
      /\ f.body \in Field /\ f.body # None /\ Bytes(f.body) = f.body.len
      /\ None \in Field /\ Bytes(None) = 0
  BY FrameParts DEF Field, Bytes
<1>2. /\ c.video \in Headers /\ c.audio \in Headers
      /\ c.metadata \in Field /\ c.last_keyframe \in Field
      /\ c = [video |-> c.video, audio |-> c.audio, metadata |-> c.metadata,
              last_keyframe |-> c.last_keyframe]
  BY DEF StreamCache
<1>3. /\ KeyBytes[r] \in Nat
      /\ Bytes(c.metadata) \in Nat /\ Bytes(c.last_keyframe) \in Nat
      /\ HeaderBytes(c.video) \in Nat /\ HeaderBytes(c.audio) \in Nat
      /\ EntryBytes(r, c) = KeyBytes[r] + Bytes(c.metadata) + Bytes(c.last_keyframe)
                            + HeaderBytes(c.video) + HeaderBytes(c.audio)
  BY EntryBytesNat
<1> DEFINE Accounted ==
      /\ x \in Nat
      /\ x + KeyBytes[r] <= EntryBytes(r, c)
      /\ EntryBytes(r, u) + x = EntryBytes(r, c) + f.body.len
<1> DEFINE Stored ==
      /\ u \in StreamCache
      /\ u # EmptyStreamCache
      /\ u.video # c.video => u.last_keyframe = None
<1>4. CASE f.kind = "metadata"
  <2>1. x = Bytes(c.metadata)
    BY <1>4 DEF ExistingFieldBytes
  <2>2. u = [c EXCEPT !.metadata = f.body]
    BY <1>4 DEF Updated
  <2>3. /\ u.video = c.video /\ u.audio = c.audio /\ u.last_keyframe = c.last_keyframe
        /\ u.metadata = f.body
    BY <2>2, <1>2
  <2>4. Stored
    BY <2>2, <2>3, <1>1, <1>2 DEF StreamCache, EmptyStreamCache
  <2>5. EntryBytes(r, u) = KeyBytes[r] + f.body.len + Bytes(c.last_keyframe)
                           + HeaderBytes(c.video) + HeaderBytes(c.audio)
    <3> HIDE DEF u
    <3> QED BY <2>3, <2>4, <1>1, EntryBytesNat
  <2>6. Accounted
    <3> HIDE DEF u, x
    <3> QED BY <2>1, <2>5, <1>1, <1>3
  <2> QED BY <2>4, <2>6
<1>5. CASE f.kind = "keyframe"
  <2>1. x = Bytes(c.last_keyframe)
    BY <1>5 DEF ExistingFieldBytes
  <2>2. u = [c EXCEPT !.last_keyframe = f.body]
    BY <1>5 DEF Updated
  <2>3. /\ u.video = c.video /\ u.audio = c.audio /\ u.last_keyframe = f.body
        /\ u.metadata = c.metadata
    BY <2>2, <1>2
  <2>4. Stored
    BY <2>2, <2>3, <1>1, <1>2 DEF StreamCache, EmptyStreamCache
  <2>5. EntryBytes(r, u) = KeyBytes[r] + Bytes(c.metadata) + f.body.len
                           + HeaderBytes(c.video) + HeaderBytes(c.audio)
    <3> HIDE DEF u
    <3> QED BY <2>3, <2>4, <1>1, EntryBytesNat
  <2>6. Accounted
    <3> HIDE DEF u, x
    <3> QED BY <2>1, <2>5, <1>1, <1>3
  <2> QED BY <2>4, <2>6
<1>6. CASE f.kind = "audio header"
  <2> DEFINE s == SetHeaders(c.audio, f)
  <2> DEFINE y == ReplacedBytes(c.audio, f)
  <2>1. x = y
    BY <1>6 DEF ExistingFieldBytes
  <2>2. u = [c EXCEPT !.audio = s]
    BY <1>6 DEF Updated
  <2>3. /\ u.video = c.video /\ u.audio = s /\ u.last_keyframe = c.last_keyframe
        /\ u.metadata = c.metadata
    BY <2>2, <1>2
  <2>4. /\ s \in Headers /\ s # NoHeaders /\ y \in Nat /\ y <= HeaderBytes(c.audio)
        /\ HeaderBytes(s) + y = HeaderBytes(c.audio) + f.body.len
    BY <1>1, <1>2, HeadersStored
  <2> HIDE DEF s, y
  <2>5. Stored
    BY <2>2, <2>3, <2>4, <1>1, <1>2 DEF StreamCache, EmptyStreamCache
  <2>6. EntryBytes(r, u) = KeyBytes[r] + Bytes(c.metadata) + Bytes(c.last_keyframe)
                           + HeaderBytes(c.video) + HeaderBytes(s)
    <3> HIDE DEF u
    <3> QED BY <2>3, <2>5, EntryBytesNat
  <2>7. HeaderBytes(s) \in Nat
    BY <2>4, HeaderBytesNat
  <2>8. Accounted
    <3> HIDE DEF u, x
    <3> QED BY <2>1, <2>4, <2>6, <2>7, <1>1, <1>3
  <2> QED BY <2>5, <2>8
<1>7. CASE f.kind = "video header"
  <2> DEFINE s == SetHeaders(c.video, f)
  <2> DEFINE y == ReplacedBytes(c.video, f)
  <2> DEFINE k == IF VideoHeaderUnchanged(c, f) THEN c.last_keyframe ELSE None
  <2>1. x = y + IF VideoHeaderUnchanged(c, f) THEN 0 ELSE Bytes(c.last_keyframe)
    BY <1>7 DEF ExistingFieldBytes
  <2>2. u = [c EXCEPT !.video = s, !.last_keyframe = k]
    BY <1>7 DEF Updated
  <2>3. /\ u.video = s /\ u.audio = c.audio /\ u.last_keyframe = k
        /\ u.metadata = c.metadata
    BY <2>2, <1>2
  <2>4. /\ s \in Headers /\ s # NoHeaders /\ y \in Nat /\ y <= HeaderBytes(c.video)
        /\ HeaderBytes(s) + y = HeaderBytes(c.video) + f.body.len
    BY <1>1, <1>2, HeadersStored
  <2>5. s # c.video => ~VideoHeaderUnchanged(c, f)
    BY UnchangedHeaders
  <2> HIDE DEF s, y
  <2>6. k \in Field
    BY <1>1, <1>2
  <2>7. s # c.video => k = None
    BY <2>5
  <2>8. Bytes(c.last_keyframe) = Bytes(k)
          + IF VideoHeaderUnchanged(c, f) THEN 0 ELSE Bytes(c.last_keyframe)
    BY <1>1, <1>3
  <2>9. (IF VideoHeaderUnchanged(c, f) THEN 0 ELSE Bytes(c.last_keyframe)) \in Nat
    BY <1>3
  <2> HIDE DEF k
  <2>10. Stored
    <3>1. u \in StreamCache
      BY <2>2, <2>4, <2>6, <1>2 DEF StreamCache
    <3>2. EmptyStreamCache.video = NoHeaders
      BY DEF EmptyStreamCache
    <3> HIDE DEF u
    <3> QED BY <3>1, <3>2, <2>3, <2>4, <2>7
  <2>11. EntryBytes(r, u) = KeyBytes[r] + Bytes(c.metadata) + Bytes(k)
                            + HeaderBytes(s) + HeaderBytes(c.audio)
    <3> HIDE DEF u
    <3> QED BY <2>3, <2>10, EntryBytesNat
  <2>12. HeaderBytes(s) \in Nat /\ Bytes(k) \in Nat
    BY <2>4, <2>6, HeaderBytesNat, FieldBytes
  <2>13. Accounted
    <3> DEFINE z == IF VideoHeaderUnchanged(c, f) THEN 0 ELSE Bytes(c.last_keyframe)
    <3> HIDE DEF u, x, z
    <3>1. x = y + z /\ Bytes(c.last_keyframe) = Bytes(k) + z /\ z \in Nat
      BY <2>1, <2>8, <2>9 DEF z
    <3> QED BY <3>1, <2>4, <2>11, <2>12, <1>1, <1>3
  <2> QED BY <2>10, <2>13
<1>8. f.kind \in {"video header", "audio header", "metadata", "keyframe"}
  BY FrameParts
<1> QED BY <1>4, <1>5, <1>6, <1>7, <1>8

\* An oversized payload only takes fields away.
LEMMA FrameOutdated ==
    ASSUME NEW r \in Route, NEW c \in StreamCache, NEW f \in Frame, f.kind # "live"
    PROVE  /\ Outdated(c, f) \in StreamCache
           /\ Outdated(c, f).video # c.video => Outdated(c, f).last_keyframe = None
           /\ EntryBytes(r, Outdated(c, f)) <= EntryBytes(r, c)
<1> DEFINE u == Outdated(c, f)
<1>1. /\ f.tracks \in SUBSET Track /\ f.body \in Payload
      /\ None \in Field /\ Bytes(None) = 0
  BY FrameParts DEF Field, Bytes
<1>2. /\ c.video \in Headers /\ c.audio \in Headers
      /\ c.metadata \in Field /\ c.last_keyframe \in Field
      /\ c = [video |-> c.video, audio |-> c.audio, metadata |-> c.metadata,
              last_keyframe |-> c.last_keyframe]
  BY DEF StreamCache
<1>3. /\ DropHeaders(c.audio, f) \in Headers
      /\ HeaderBytes(DropHeaders(c.audio, f)) <= HeaderBytes(c.audio)
      /\ DropHeaders(c.video, f) \in Headers
      /\ HeaderBytes(DropHeaders(c.video, f)) <= HeaderBytes(c.video)
  BY <1>1, <1>2, HeadersStored
<1>4. /\ u \in StreamCache
      /\ u.video = c.video \/ u.last_keyframe = None
      /\ u.metadata = c.metadata
      /\ u.last_keyframe = c.last_keyframe \/ u.last_keyframe = None
      /\ HeaderBytes(u.audio) <= HeaderBytes(c.audio)
      /\ HeaderBytes(u.video) <= HeaderBytes(c.video)
  <2>0. HeaderBytes(c.audio) \in Nat /\ HeaderBytes(c.video) \in Nat
    BY EntryBytesNat
  <2>1. CASE f.kind = "metadata"
    <3>1. u = c
      BY <2>1 DEF Outdated
    <3> QED BY <3>1, <2>0
  <2>2. CASE f.kind = "keyframe"
    <3>1. u = [c EXCEPT !.last_keyframe = None]
      BY <2>2 DEF Outdated
    <3>2. u \in StreamCache
      BY <3>1, <1>1, <1>2 DEF StreamCache
    <3>3. /\ u.video = c.video /\ u.audio = c.audio /\ u.metadata = c.metadata
          /\ u.last_keyframe = None
      BY <3>1, <1>2
    <3> QED BY <3>2, <3>3, <2>0
  <2>3. CASE f.kind = "audio header"
    <3>1. u = [c EXCEPT !.audio = DropHeaders(c.audio, f)]
      BY <2>3 DEF Outdated
    <3>2. u \in StreamCache
      BY <3>1, <1>2, <1>3 DEF StreamCache
    <3>3. /\ u.video = c.video /\ u.audio = DropHeaders(c.audio, f)
          /\ u.metadata = c.metadata /\ u.last_keyframe = c.last_keyframe
      BY <3>1, <1>2
    <3> QED BY <3>2, <3>3, <2>0, <1>3
  <2>4. CASE f.kind = "video header"
    <3>1. u = [c EXCEPT !.video = DropHeaders(c.video, f), !.last_keyframe = None]
      BY <2>4 DEF Outdated
    <3>2. u \in StreamCache
      BY <3>1, <1>1, <1>2, <1>3 DEF StreamCache
    <3>3. /\ u.video = DropHeaders(c.video, f) /\ u.audio = c.audio
          /\ u.metadata = c.metadata /\ u.last_keyframe = None
      BY <3>1, <1>2
    <3> QED BY <3>2, <3>3, <2>0, <1>3
  <2>5. f.kind \in {"video header", "audio header", "metadata", "keyframe"}
    BY FrameParts
  <2> QED BY <2>1, <2>2, <2>3, <2>4, <2>5
<1>5. /\ KeyBytes[r] \in Nat
      /\ Bytes(c.metadata) \in Nat /\ Bytes(c.last_keyframe) \in Nat
      /\ HeaderBytes(c.video) \in Nat /\ HeaderBytes(c.audio) \in Nat
      /\ EntryBytes(r, c) = KeyBytes[r] + Bytes(c.metadata) + Bytes(c.last_keyframe)
                            + HeaderBytes(c.video) + HeaderBytes(c.audio)
  BY EntryBytesNat
<1> HIDE DEF u
<1>6. /\ HeaderBytes(u.video) \in Nat /\ HeaderBytes(u.audio) \in Nat
      /\ EntryBytes(r, u) = KeyBytes[r] + Bytes(u.metadata) + Bytes(u.last_keyframe)
                            + HeaderBytes(u.video) + HeaderBytes(u.audio)
  BY <1>4, EntryBytesNat
<1>7. Bytes(u.last_keyframe) \in Nat /\ Bytes(u.last_keyframe) <= Bytes(c.last_keyframe)
  BY <1>1, <1>4, <1>5
<1>8. Bytes(u.metadata) = Bytes(c.metadata)
  BY <1>4
<1>9. EntryBytes(r, u) <= EntryBytes(r, c)
  BY <1>4, <1>5, <1>6, <1>7, <1>8
<1> QED BY <1>4, <1>9 DEF u

-----------------------------------------------------------------------------
(***************************************************************************)
(* Storages, and what eviction takes from them.                            *)
(***************************************************************************)
Storages ==
    [cache : [Route -> StreamCache \cup {None}], keys : [Publisher -> Seq(Route)]]

\* An entry lives exactly as long as some publisher tracks its route.
Linked(st) ==
    \A r \in Route : st.cache[r] # None <=> \E p \in Publisher : r \in Tracks(st, p)

\* What the cache is between two operations: its entries have trackers and
\* hold something, and the caps on entries and on bytes are kept.
Sound(st) ==
    /\ st \in Storages
    /\ Linked(st)
    /\ \A r \in Route : st.cache[r] # EmptyStreamCache
    /\ Cardinality(Cached(st)) <= MAX_STREAM_CACHE_ENTRIES
    /\ StreamCacheBytes(st) <= max_stream_cache_bytes

\* The bytes each route takes are numbers.
LEMMA SizesNat ==
    ASSUME NEW st \in Storages
    PROVE  /\ Sizes(st) \in [Route -> Nat]
           /\ \A r \in Route :
                Sizes(st)[r] = IF st.cache[r] = None THEN 0 ELSE EntryBytes(r, st.cache[r])
<1>1. ASSUME NEW r \in Route
      PROVE  (IF st.cache[r] = None THEN 0 ELSE EntryBytes(r, st.cache[r])) \in Nat
  <2>1. st.cache[r] = None \/ st.cache[r] \in StreamCache
    BY DEF Storages
  <2> QED BY <2>1, EntryBytesNat
<1> QED BY <1>1 DEF Sizes

\* What a publisher tracks are routes.
LEMMA TracksRoutes ==
    ASSUME NEW st \in Storages, NEW p \in Publisher
    PROVE  Tracks(st, p) \in SUBSET Route
BY DEF Tracks, Elements, Storages

\* Storage t is st after the routes V were evicted.
Evicted(st, t, V) ==
    /\ st \in Storages /\ t \in Storages
    /\ \A k \in Route : t.cache[k] = IF k \in V THEN None ELSE st.cache[k]
    /\ \A q \in Publisher : Tracks(t, q) = Tracks(st, q) \ V

\* Evict evicts.
LEMMA EvictEvicts ==
    ASSUME NEW st \in Storages, NEW V \in SUBSET Route
    PROVE  Evicted(st, Evict(st, V), V)
<1> DEFINE t == Evict(st, V)
<1>1. \A q \in Publisher : st.keys[q] \in Seq(Route)
  BY DEF Storages
<1>2. \A q \in Publisher : /\ Without(st.keys[q], V) \in Seq(Route)
                           /\ Elements(Without(st.keys[q], V)) = Elements(st.keys[q]) \ V
  BY <1>1, WithoutElements
<1>3. /\ t.cache = [k \in Route |-> IF k \in V THEN None ELSE st.cache[k]]
      /\ t.keys = [q \in Publisher |-> Without(st.keys[q], V)]
  BY DEF Evict
<1>4. t \in Storages
  BY <1>2 DEF Evict, Storages
<1> QED BY <1>2, <1>3, <1>4 DEF Evicted, Tracks

\* Evicting nothing.
LEMMA EvictedNothing ==
    ASSUME NEW st \in Storages
    PROVE  Evicted(st, st, {})
BY DEF Evicted

\* Evicting in two rounds.
LEMMA EvictedMore ==
    ASSUME NEW st, NEW t, NEW u, NEW V, NEW W, Evicted(st, t, V), Evicted(t, u, W)
    PROVE  Evicted(st, u, V \cup W)
<1>1. st \in Storages /\ u \in Storages
  BY DEF Evicted
<1>2. \A k \in Route : u.cache[k] = IF k \in V \cup W THEN None ELSE st.cache[k]
  BY DEF Evicted
<1>3. \A q \in Publisher : Tracks(u, q) = Tracks(st, q) \ (V \cup W)
  BY DEF Evicted
<1> QED BY <1>1, <1>2, <1>3 DEF Evicted

\* Eviction frees the bytes of what it evicts.
LEMMA EvictedBytes ==
    ASSUME NEW st, NEW t, NEW V \in SUBSET Route, Evicted(st, t, V)
    PROVE  /\ StreamCacheBytes(st) \in Nat /\ StreamCacheBytes(t) \in Nat
           /\ SumFunctionOnSet(Sizes(st), V) \in Nat
           /\ StreamCacheBytes(st) = SumFunctionOnSet(Sizes(st), V) + StreamCacheBytes(t)
<1> DEFINE a == Sizes(st)
<1> DEFINE b == Sizes(t)
<1>1. IsFiniteSet(Route)
  BY FiniteNames
<1>2. st \in Storages /\ t \in Storages
  BY DEF Evicted
<1>3. a \in [Route -> Nat] /\ b \in [Route -> Nat]
  BY <1>2, SizesNat
<1>4. \A k \in V : b[k] = 0
  BY <1>2, SizesNat DEF Evicted
<1>5. \A k \in Route \ V : b[k] = a[k]
  <2> SUFFICES ASSUME NEW k \in Route \ V PROVE b[k] = a[k]
    OBVIOUS
  <2>1. t.cache[k] = st.cache[k]
    BY DEF Evicted
  <2> QED BY <2>1, <1>2, SizesNat
<1> HIDE DEF a, b
<1>6. SumFunctionOnSet(a, Route) = SumFunctionOnSet(a, V) + SumFunctionOnSet(a, Route \ V)
  BY <1>1, <1>3, SumSplit
<1>7. SumFunctionOnSet(b, Route) = SumFunctionOnSet(b, V) + SumFunctionOnSet(b, Route \ V)
  BY <1>1, <1>3, SumSplit
<1>8. SumFunctionOnSet(b, V) = 0
  BY <1>1, <1>3, <1>4, SumOfZeros
<1>9. SumFunctionOnSet(a, Route \ V) = SumFunctionOnSet(b, Route \ V)
  BY <1>1, <1>3, <1>5, SumCongruent
<1>10. /\ SumFunctionOnSet(a, V) \in Nat /\ SumFunctionOnSet(a, Route \ V) \in Nat
       /\ SumFunctionOnSet(a, Route) \in Nat /\ SumFunctionOnSet(b, Route) \in Nat
  BY <1>1, <1>3, SumRemove
<1> QED BY <1>6, <1>7, <1>8, <1>9, <1>10 DEF StreamCacheBytes, a, b

\* Eviction takes an entry together with all its trackers.
LEMMA LinkedEvicted ==
    ASSUME NEW st, NEW t, NEW V, Evicted(st, t, V), Linked(st)
    PROVE  Linked(t)
BY DEF Linked, Evicted

\* What stays cached.
LEMMA CachedEvicted ==
    ASSUME NEW st, NEW t, NEW V, Evicted(st, t, V)
    PROVE  /\ Cached(t) = Cached(st) \ V
           /\ IsFiniteSet(Cached(st)) /\ Cardinality(Cached(st)) \in Nat
           /\ Cardinality(Cached(t)) \in Nat
           /\ Cardinality(Cached(t)) <= Cardinality(Cached(st))
<1>1. Cached(t) = Cached(st) \ V
  BY DEF Cached, Evicted
<1>2. IsFiniteSet(Cached(st)) /\ IsFiniteSet(Cached(t))
  BY FiniteNames, FS_Subset DEF Cached
<1> QED BY <1>1, <1>2, FS_Subset, FS_CardinalityType

\* Evicting a cached route makes room for another entry.
LEMMA EvictedOne ==
    ASSUME NEW st, NEW t, NEW k \in Cached(st), Evicted(st, t, {k})
    PROVE  Cardinality(Cached(t)) = Cardinality(Cached(st)) - 1
BY CachedEvicted, FS_RemoveElement

\* Routes that publisher p may evict to store a frame of route r: of one
\* publisher each, which is p or an external one.
Harmless(st, p, r, V) ==
    /\ V \subseteq Route \ {r}
    /\ \A k \in V : \E q \in {p} \cup External :
          k \in Tracks(st, q) /\ ~CoTracked(st, q, k)

\* Routes that are harmless after harmless evictions were so before.
LEMMA HarmlessMore ==
    ASSUME NEW st, NEW t, NEW p \in Publisher, NEW r, NEW V, NEW W,
           Evicted(st, t, V), Harmless(st, p, r, V), Harmless(t, p, r, W)
    PROVE  Harmless(st, p, r, V \cup W)
<1>1. ASSUME NEW k \in W
      PROVE  \E q \in {p} \cup External : k \in Tracks(st, q) /\ ~CoTracked(st, q, k)
  <2>1. PICK q \in {p} \cup External : k \in Tracks(t, q) /\ ~CoTracked(t, q, k)
    BY DEF Harmless
  <2>2. q \in Publisher
    BY DEF Publisher
  <2>3. k \in Tracks(st, q) /\ k \notin V
    BY <2>1, <2>2 DEF Evicted
  <2>4. ~CoTracked(st, q, k)
    BY <2>1, <2>3 DEF CoTracked, Evicted
  <2> QED BY <2>3, <2>4
<1> QED BY <1>1 DEF Harmless

\* What p may evict of its own.
Own(st, p, r) == {k \in Tracks(st, p) : k # r /\ ~CoTracked(st, p, k)}

\* OwnVictims lists what p may evict of its own.
LEMMA OwnVictimsOwn ==
    ASSUME NEW st \in Storages, NEW p \in Publisher, NEW r
    PROVE  /\ OwnVictims(st, p, r) \in Seq(Route)
           /\ Elements(OwnVictims(st, p, r)) = Own(st, p, r)
<1> DEFINE gone == {k \in Route : k = r \/ CoTracked(st, p, k)}
<1>1. st.keys[p] \in Seq(Route)
  BY DEF Storages
<1>2. /\ Without(st.keys[p], gone) \in Seq(Route)
      /\ Elements(Without(st.keys[p], gone)) = Elements(st.keys[p]) \ gone
  <2> HIDE DEF gone
  <2> QED BY <1>1, WithoutElements
<1>3. OwnVictims(st, p, r) = Without(st.keys[p], gone)
  BY DEF OwnVictims
<1>4. Elements(st.keys[p]) \ gone = Own(st, p, r)
  BY TracksRoutes DEF Own, Tracks
<1> QED BY <1>2, <1>3, <1>4

\* A publisher's own victims are harmless.
LEMMA OwnHarmless ==
    ASSUME NEW st \in Storages, NEW p \in Publisher, NEW r
    PROVE  \A V \in SUBSET Own(st, p, r) : Harmless(st, p, r, V)
BY TracksRoutes DEF Own, Harmless

\* The oldest route of a list is one of it.
LEMMA HeadOfRoutes ==
    ASSUME NEW keys \in Seq(Route), keys # <<>>
    PROVE  Head(keys) \in Elements(keys)
<1>1. Len(keys) \in Nat /\ Len(keys) > 0 /\ DOMAIN keys = 1 .. Len(keys)
  OBVIOUS
<1>2. Head(keys) = keys[1] /\ 1 \in DOMAIN keys
  BY <1>1
<1> QED BY <1>2 DEF Elements

\* The oldest routes of a list are of it.
LEMMA PrefixOfRoutes ==
    ASSUME NEW keys \in Seq(Route), NEW n \in 0 .. Len(keys)
    PROVE  Elements(SubSeq(keys, 1, n)) \subseteq Elements(keys)
<1> DEFINE s == SubSeq(keys, 1, n)
<1>1. DOMAIN s = 1 .. n /\ \A i \in 1 .. n : s[i] = keys[i]
  OBVIOUS
<1>2. 1 .. n \subseteq DOMAIN keys
  OBVIOUS
<1> HIDE DEF s
<1>3. Elements(s) \subseteq Elements(keys)
  BY <1>1, <1>2 DEF Elements
<1> QED BY <1>3 DEF s

\* So are those of external publishers.
LEMMA ExternalHarmless ==
    ASSUME NEW st \in Storages, NEW p \in Publisher, NEW r
    PROVE  \A V \in SUBSET ExternalVictims(st, r) : Harmless(st, p, r, V)
BY DEF ExternalVictims, Harmless

\* The next victim is harmless.
LEMMA VictimHarmless ==
    ASSUME NEW st \in Storages, NEW p \in Publisher, NEW r, NEW k \in Victims(st, p, r)
    PROVE  Harmless(st, p, r, {k})
<1>1. CASE OwnVictims(st, p, r) # <<>>
  <2>1. k = Head(OwnVictims(st, p, r))
    BY <1>1 DEF Victims
  <2>2. k \in Own(st, p, r)
    BY <2>1, <1>1, OwnVictimsOwn, HeadOfRoutes
  <2> QED BY <2>2, OwnHarmless
<1>2. CASE OwnVictims(st, p, r) = <<>>
  <2>1. k \in ExternalVictims(st, r)
    BY <1>2 DEF Victims
  <2> QED BY <2>1, ExternalHarmless
<1> QED BY <1>1, <1>2

\* So is all the byte loop evicts.
LEMMA LoopHarmless ==
    ASSUME NEW st \in Storages, NEW p \in Publisher, NEW r, NEW V \in LoopVictims(st, p, r)
    PROVE  Harmless(st, p, r, V)
<1> DEFINE own == OwnVictims(st, p, r)
<1>1. own \in Seq(Route) /\ Elements(own) = Own(st, p, r)
  BY OwnVictimsOwn
<1>2. \/ \E n \in 0 .. Len(own) : V = Elements(SubSeq(own, 1, n))
      \/ \E E \in SUBSET ExternalVictims(st, r) : V = Elements(own) \cup E
  BY DEF LoopVictims
<1> HIDE DEF own
<1>3. CASE \E n \in 0 .. Len(own) : V = Elements(SubSeq(own, 1, n))
  <2>1. V \subseteq Own(st, p, r)
    BY <1>1, <1>3, PrefixOfRoutes
  <2> QED BY <2>1, OwnHarmless
<1>4. CASE \E E \in SUBSET ExternalVictims(st, r) : V = Elements(own) \cup E
  <2>1. PICK E \in SUBSET ExternalVictims(st, r) : V = Own(st, p, r) \cup E
    BY <1>1, <1>4
  <2>2. Harmless(st, p, r, Own(st, p, r)) /\ Harmless(st, p, r, E)
    BY OwnHarmless, ExternalHarmless
  <2> QED BY <2>1, <2>2 DEF Harmless
<1> QED BY <1>2, <1>3, <1>4

\* What is harmless to evict is cached.
LEMMA HarmlessCached ==
    ASSUME NEW st, Linked(st), NEW p \in Publisher, NEW r, NEW V, Harmless(st, p, r, V)
    PROVE  V \subseteq Cached(st)
BY DEF Harmless, Linked, Cached, Publisher

-----------------------------------------------------------------------------
(***************************************************************************)
(* reserve_stream_cache_storage.                                           *)
(***************************************************************************)
\* What a reservation of p for route r may do: it evicts harmless routes, and
\* where it stands there is room for the frame.
Reserved(st, p, r, incoming, existing, o) ==
    /\ \E V \in SUBSET Route : Evicted(st, o.st, V) /\ Harmless(st, p, r, V)
    /\ o.ok => /\ ProjectedTotal(o.st, r, incoming, existing) <= max_stream_cache_bytes
               /\ st.cache[r] # None \/ Cardinality(Cached(o.st)) < MAX_STREAM_CACHE_ENTRIES

\* The cap on routes per publisher: a refusal leaves the storage as it is.
LEMMA FirstStep ==
    ASSUME NEW st, Sound(st), NEW p \in Publisher, NEW r \in Route
    PROVE  LET o == UnderPublisherCap(st, p, r)
           IN  /\ o.ok \in BOOLEAN
               /\ ~o.ok => o.st = st
               /\ \/ o.st = st
                  \/ \E k \in Cached(st) : /\ Evicted(st, o.st, {k})
                                           /\ Harmless(st, p, r, {k})
<1> DEFINE own == OwnVictims(st, p, r)
<1> DEFINE o == UnderPublisherCap(st, p, r)
<1>1. st \in Storages /\ Linked(st)
  BY DEF Sound
<1>2. CASE st.cache[r] # None \/ Len(st.keys[p]) < MAX_STREAM_CACHE_KEYS_PER_PUBLISHER
  <2>1. o = [ok |-> TRUE, st |-> st]
    BY <1>2 DEF UnderPublisherCap, Outcome
  <2> QED BY <2>1
<1>3. CASE ~(st.cache[r] # None \/ Len(st.keys[p]) < MAX_STREAM_CACHE_KEYS_PER_PUBLISHER)
           /\ own = <<>>
  <2>1. o = [ok |-> FALSE, st |-> st]
    BY <1>3 DEF UnderPublisherCap, Outcome
  <2> QED BY <2>1
<1>4. CASE ~(st.cache[r] # None \/ Len(st.keys[p]) < MAX_STREAM_CACHE_KEYS_PER_PUBLISHER)
           /\ own # <<>>
  <2> DEFINE k == Head(own)
  <2>1. o = [ok |-> TRUE, st |-> Evict(st, {k})]
    BY <1>4 DEF UnderPublisherCap, Outcome
  <2>2. k \in Own(st, p, r)
    BY <1>1, <1>4, OwnVictimsOwn, HeadOfRoutes
  <2> HIDE DEF k, own
  <2>3. Harmless(st, p, r, {k})
    BY <1>1, <2>2, OwnHarmless
  <2>4. k \in Cached(st) /\ k \in Route
    BY <1>1, <2>3, HarmlessCached DEF Harmless
  <2>5. Evicted(st, Evict(st, {k}), {k})
    BY <1>1, <2>4, EvictEvicts
  <2> HIDE DEF o
  <2> QED BY <2>1, <2>3, <2>4, <2>5 DEF o
<1> QED BY <1>2, <1>3, <1>4, ZenonT(30)

\* The cap on entries: it is refused only where it is exceeded.
LEMMA SecondStep ==
    ASSUME NEW st \in Storages, Linked(st), NEW p \in Publisher, NEW r \in Route,
           Cardinality(Cached(st)) <= MAX_STREAM_CACHE_ENTRIES,
           NEW o \in UnderEntryCap(st, p, r)
    PROVE  /\ o.ok \in BOOLEAN
           /\ \E V \in SUBSET Route : Evicted(st, o.st, V) /\ Harmless(st, p, r, V)
           /\ o.ok => \/ st.cache[r] # None
                      \/ Cardinality(Cached(o.st)) < MAX_STREAM_CACHE_ENTRIES
           /\ ~o.ok => /\ o.st = st /\ st.cache[r] = None
                       /\ ~(Cardinality(Cached(st)) < MAX_STREAM_CACHE_ENTRIES)
<1>0. Evicted(st, st, {}) /\ Harmless(st, p, r, {})
  BY EvictedNothing DEF Harmless
<1>1. CASE st.cache[r] # None \/ Cardinality(Cached(st)) < MAX_STREAM_CACHE_ENTRIES
  <2>1. o = [ok |-> TRUE, st |-> st]
    BY <1>1 DEF UnderEntryCap, Outcome
  <2> QED BY <2>1, <1>0, <1>1
<1>2. CASE ~(st.cache[r] # None \/ Cardinality(Cached(st)) < MAX_STREAM_CACHE_ENTRIES)
           /\ Victims(st, p, r) = {}
  <2>1. o = [ok |-> FALSE, st |-> st]
    BY <1>2 DEF UnderEntryCap, Outcome
  <2> QED BY <2>1, <1>0, <1>2
<1>3. CASE ~(st.cache[r] # None \/ Cardinality(Cached(st)) < MAX_STREAM_CACHE_ENTRIES)
           /\ Victims(st, p, r) # {}
  <2>1. PICK k \in Victims(st, p, r) : o = [ok |-> TRUE, st |-> Evict(st, {k})]
    BY <1>3 DEF UnderEntryCap, Outcome
  <2>2. Harmless(st, p, r, {k})
    BY VictimHarmless
  <2>3. k \in Cached(st) /\ k \in Route
    BY <2>2, HarmlessCached DEF Harmless
  <2>4. Evicted(st, Evict(st, {k}), {k})
    BY <2>3, EvictEvicts
  <2>5. Cardinality(Cached(Evict(st, {k}))) = Cardinality(Cached(st)) - 1
    BY <2>3, <2>4, EvictedOne
  <2>6. Cardinality(Cached(st)) \in Nat /\ MAX_STREAM_CACHE_ENTRIES \in Nat
    BY <2>4, CachedEvicted, Caps
  <2>7. Cardinality(Cached(Evict(st, {k}))) < MAX_STREAM_CACHE_ENTRIES
    BY <2>5, <2>6
  <2> QED BY <2>1, <2>2, <2>3, <2>4, <2>7
<1> QED BY <1>1, <1>2, <1>3

\* The total a reservation counts with, when other routes have been evicted:
\* the subtraction of the replaced bytes does not saturate.
LEMMA ProjectedEvicted ==
    ASSUME NEW st, NEW t, NEW r \in Route, NEW V, r \notin V,
           Evicted(st, t, V), NEW incoming \in Nat, NEW existing \in Nat,
           existing <= Sizes(st)[r]
    PROVE  /\ StreamCacheBytes(t) \in Nat /\ existing <= StreamCacheBytes(t)
           /\ NewKeyBytes(st, r) \in Nat
           /\ ProjectedTotal(t, r, incoming, existing)
                = StreamCacheBytes(t) + incoming + NewKeyBytes(st, r) - existing
<1>1. st \in Storages /\ t \in Storages /\ t.cache[r] = st.cache[r]
  BY DEF Evicted
<1>2. Sizes(t) \in [Route -> Nat] /\ Sizes(t)[r] = Sizes(st)[r]
  BY <1>1, SizesNat
<1>3. /\ SumFunctionOnSet(Sizes(t), Route) = Sizes(t)[r] + SumFunctionOnSet(Sizes(t), Route \ {r})
      /\ SumFunctionOnSet(Sizes(t), Route) \in Nat
      /\ SumFunctionOnSet(Sizes(t), Route \ {r}) \in Nat
  BY <1>2, FiniteNames, SumRemove
<1>4. Sizes(t)[r] \in Nat
  BY <1>2
<1>5. StreamCacheBytes(t) \in Nat /\ existing <= StreamCacheBytes(t)
  BY <1>2, <1>3, <1>4 DEF StreamCacheBytes
<1>6. NewKeyBytes(t, r) = NewKeyBytes(st, r) /\ NewKeyBytes(st, r) \in Nat
  BY <1>1, KeyBytesNat DEF NewKeyBytes
<1>7. ProjectedTotal(t, r, incoming, existing)
        = Minus(StreamCacheBytes(t) + incoming + NewKeyBytes(st, r), existing)
  BY <1>6 DEF ProjectedTotal
<1> QED BY <1>5, <1>6, <1>7 DEF Minus

\* The byte loop: it gives up only with every victim of p's own gone.
LEMMA ThirdStep ==
    ASSUME NEW st \in Storages, NEW p \in Publisher, NEW r \in Route,
           NEW incoming, NEW existing,
           NEW o \in UnderByteCap(st, p, r, incoming, existing)
    PROVE  /\ \E V \in SUBSET Route : Evicted(st, o.st, V) /\ Harmless(st, p, r, V)
           /\ o.ok => ProjectedTotal(o.st, r, incoming, existing) <= max_stream_cache_bytes
           /\ ~o.ok => \E V \in SUBSET Route :
                          /\ Own(st, p, r) \subseteq V /\ r \notin V
                          /\ Evicted(st, o.st, V)
                          /\ ~(ProjectedTotal(o.st, r, incoming, existing)
                                   <= max_stream_cache_bytes)
<1> DEFINE Fits(V) == ProjectedTotal(Evict(st, V), r, incoming, existing)
                          <= max_stream_cache_bytes
<1> DEFINE all == Elements(OwnVictims(st, p, r)) \cup ExternalVictims(st, r)
<1>1. CASE Fits({})
  <2>1. o = [ok |-> TRUE, st |-> st]
    BY <1>1 DEF UnderByteCap, Outcome
  <2>2. Evict(st, {}).cache = st.cache
    BY DEF Evict, Storages
  <2>3. ProjectedTotal(Evict(st, {}), r, incoming, existing)
          = ProjectedTotal(st, r, incoming, existing)
    BY <2>2 DEF ProjectedTotal, StreamCacheBytes, Sizes, NewKeyBytes
  <2>4. Evicted(st, st, {}) /\ Harmless(st, p, r, {})
    BY EvictedNothing DEF Harmless
  <2>5. ProjectedTotal(st, r, incoming, existing) <= max_stream_cache_bytes
    BY <1>1, <2>3
  <2> QED BY <2>1, <2>4, <2>5
<1>2. CASE ~Fits({})
  <2>1. PICK V \in LoopVictims(st, p, r) :
          /\ o = [ok |-> Fits(V), st |-> Evict(st, V)]
          /\ Fits(V) \/ V = all
    BY <1>2 DEF UnderByteCap, Outcome
  <2>2. Harmless(st, p, r, V)
    BY LoopHarmless
  <2>3. V \in SUBSET Route /\ r \notin V
    BY <2>2 DEF Harmless
  <2>4. Evicted(st, Evict(st, V), V)
    BY <2>3, EvictEvicts
  <2>5. o.st = Evict(st, V) /\ o.ok = Fits(V)
    BY <2>1
  <2>6. V = all => Own(st, p, r) \subseteq V
    BY OwnVictimsOwn
  <2> HIDE DEF all
  <2> QED BY <2>1, <2>2, <2>3, <2>4, <2>5, <2>6
<1> QED BY <1>1, <1>2

\* Every route p may evict of its own, and of a local publisher no other,
\* counts as freeable.
LEMMA FreeableOwn ==
    ASSUME NEW st \in Storages, Linked(st), NEW p \in Local, NEW r \in Route
    PROVE  FreeableBytes(st, r, p) = SumFunctionOnSet(Sizes(st), Own(st, p, r))
<1> DEFINE freeable == {k \in Cached(st) \ {r} :
                          /\ ~CoTracked(st, p, k)
                          /\ \E q \in {p} \cup External : k \in Tracks(st, q)}
<1>1. p \in Publisher /\ p \notin External /\ External \subseteq Publisher
  BY InitCacheAssumption DEF Publisher
<1>2. ASSUME NEW k \in freeable PROVE k \in Own(st, p, r)
  <2>1. PICK q \in {p} \cup External : k \in Tracks(st, q)
    OBVIOUS
  <2>2. q = p
    BY <1>1, <2>1 DEF CoTracked
  <2> QED BY <2>1, <2>2 DEF Own
<1>3. ASSUME NEW k \in Own(st, p, r) PROVE k \in freeable
  <2>1. k \in Route
    BY <1>1, TracksRoutes DEF Own
  <2>2. k \in Cached(st)
    BY <1>1, <2>1 DEF Linked, Cached, Own
  <2> QED BY <2>2 DEF Own
<1>4. freeable = Own(st, p, r)
  BY <1>2, <1>3
<1> QED BY <1>4 DEF FreeableBytes

\* A local publisher's reservation that was not refused at the outset finds
\* room once all its own victims are gone.
LEMMA OwnSuffice ==
    ASSUME NEW st, NEW t, Sound(st), NEW p \in Local, NEW r \in Route,
           NEW V \in SUBSET Route, r \notin V, Own(st, p, r) \subseteq V, Evicted(st, t, V),
           NEW incoming \in Nat, NEW existing \in Nat, existing <= Sizes(st)[r],
           ~CannotFit(st, p, r, incoming, existing)
    PROVE  ProjectedTotal(t, r, incoming, existing) <= max_stream_cache_bytes
<1>4. /\ StreamCacheBytes(t) \in Nat /\ existing <= StreamCacheBytes(t)
      /\ NewKeyBytes(st, r) \in Nat
      /\ ProjectedTotal(t, r, incoming, existing)
           = StreamCacheBytes(t) + incoming + NewKeyBytes(st, r) - existing
  BY ProjectedEvicted
<1> DEFINE total == ProjectedTotal(st, r, incoming, existing)
<1> DEFINE own == SumFunctionOnSet(Sizes(st), Own(st, p, r))
<1> DEFINE gone == SumFunctionOnSet(Sizes(st), V)
<1>1. st \in Storages /\ Linked(st) /\ max_stream_cache_bytes \in Nat
  BY Caps DEF Sound
<1>2. Evicted(st, st, {})
  BY <1>1, EvictedNothing
<1>3. /\ StreamCacheBytes(st) \in Nat /\ existing <= StreamCacheBytes(st)
      /\ NewKeyBytes(st, r) \in Nat
      /\ total = StreamCacheBytes(st) + incoming + NewKeyBytes(st, r) - existing
  BY <1>2, ProjectedEvicted
<1>5. StreamCacheBytes(st) = gone + StreamCacheBytes(t) /\ gone \in Nat
  BY EvictedBytes
<1>6. own \in Nat /\ own <= gone
  <2>1. Sizes(st) \in [Route -> Nat] /\ IsFiniteSet(Route)
    BY <1>1, SizesNat, FiniteNames
  <2>2. gone = own + SumFunctionOnSet(Sizes(st), V \ Own(st, p, r))
    BY <2>1, SumSplit
  <2>3. own \in Nat /\ SumFunctionOnSet(Sizes(st), V \ Own(st, p, r)) \in Nat
    <3>1. Own(st, p, r) \in SUBSET Route /\ V \ Own(st, p, r) \in SUBSET Route
      OBVIOUS
    <3> QED BY <2>1, <3>1, SumRemove
  <2> HIDE DEF own, gone
  <2> QED BY <2>2, <2>3
<1>7. FreeableBytes(st, r, p) = own
  BY <1>1, FreeableOwn
<1>8. ~(total > max_stream_cache_bytes /\ Minus(total, own) > max_stream_cache_bytes)
  BY <1>7 DEF CannotFit
<1> HIDE DEF total, own, gone
<1>9. total \in Nat
  BY <1>3
<1>10. total <= max_stream_cache_bytes \/ total - own <= max_stream_cache_bytes
  BY <1>1, <1>6, <1>8, <1>9 DEF Minus
<1> QED BY <1>1, <1>3, <1>4, <1>5, <1>6, <1>9, <1>10

\* A reservation evicts harmless routes; where it stands there is room, and
\* a connection's that fails has evicted nothing.
LEMMA ReserveOutcome ==
    ASSUME NEW st, Sound(st), NEW p \in Publisher, NEW r \in Route,
           NEW incoming \in Nat, NEW existing \in Nat, existing <= Sizes(st)[r],
           NEW o \in Reserve(st, p, r, incoming, existing)
    PROVE  /\ Reserved(st, p, r, incoming, existing, o)
           /\ p \in Local /\ ~o.ok => o.st = st
<1> DEFINE first == UnderPublisherCap(st, p, r)
<1> DEFINE second == IF first.ok THEN UnderEntryCap(first.st, p, r) ELSE {first}
<1>1. st \in Storages /\ Linked(st) /\ Cardinality(Cached(st)) <= MAX_STREAM_CACHE_ENTRIES
  BY DEF Sound
<1>2. Evicted(st, st, {}) /\ Harmless(st, p, r, {})
  BY <1>1, EvictedNothing DEF Harmless
<1>3. CASE CannotFit(st, p, r, incoming, existing)
  <2>1. o = [ok |-> FALSE, st |-> st]
    BY <1>3 DEF Reserve, Outcome
  <2> QED BY <2>1, <1>2 DEF Reserved
<1>4. CASE ~CannotFit(st, p, r, incoming, existing)
  <2>1. \E m \in second : o \in IF m.ok THEN UnderByteCap(m.st, p, r, incoming, existing) ELSE {m}
    BY <1>4 DEF Reserve
  <2>2. /\ first.ok \in BOOLEAN
        /\ ~first.ok => first.st = st
        /\ \/ first.st = st
           \/ \E k \in Cached(st) : Evicted(st, first.st, {k}) /\ Harmless(st, p, r, {k})
    BY FirstStep
  <2>3. PICK m \in second : o \in IF m.ok THEN UnderByteCap(m.st, p, r, incoming, existing) ELSE {m}
    BY <2>1
  <2> HIDE DEF first
  <2>4. CASE ~first.ok
    <3>1. m = first /\ o = first
      BY <2>3, <2>4
    <3> QED BY <3>1, <2>2, <2>4, <1>2 DEF Reserved
  <2>5. CASE first.ok
    <3> DEFINE s == first.st
    <3>1. m \in UnderEntryCap(s, p, r)
      BY <2>3, <2>5
    <3>2. PICK V \in SUBSET Route : Evicted(st, s, V) /\ Harmless(st, p, r, V)
      BY <1>2, <2>2 DEF Cached
    <3>3. s \in Storages /\ Linked(s) /\ r \notin V /\ s.cache[r] = st.cache[r]
      BY <1>1, <3>2, LinkedEvicted DEF Evicted, Harmless
    <3>4. Cardinality(Cached(s)) <= MAX_STREAM_CACHE_ENTRIES
      BY <1>1, <3>2, CachedEvicted, Caps
    <3>5. s # st => Cardinality(Cached(s)) < MAX_STREAM_CACHE_ENTRIES
      <4> SUFFICES ASSUME s # st PROVE Cardinality(Cached(s)) < MAX_STREAM_CACHE_ENTRIES
        OBVIOUS
      <4>1. PICK k \in Cached(st) : Evicted(st, s, {k})
        BY <2>2
      <4>2. Cardinality(Cached(s)) = Cardinality(Cached(st)) - 1
            /\ Cardinality(Cached(st)) \in Nat
        BY <4>1, EvictedOne, CachedEvicted
      <4> QED BY <4>2, <1>1, Caps
    <3> HIDE DEF s
    <3>6. /\ m.ok \in BOOLEAN
          /\ \E W \in SUBSET Route : Evicted(s, m.st, W) /\ Harmless(s, p, r, W)
          /\ m.ok => \/ s.cache[r] # None
                     \/ Cardinality(Cached(m.st)) < MAX_STREAM_CACHE_ENTRIES
          /\ ~m.ok => /\ m.st = s /\ s.cache[r] = None
                      /\ ~(Cardinality(Cached(s)) < MAX_STREAM_CACHE_ENTRIES)
      BY <3>1, <3>3, <3>4, SecondStep
    <3>7. PICK W \in SUBSET Route : Evicted(s, m.st, W) /\ Harmless(s, p, r, W)
      BY <3>6
    <3>8. Evicted(st, m.st, V \cup W) /\ Harmless(st, p, r, V \cup W)
      BY <3>2, <3>7, EvictedMore, HarmlessMore
    <3>9. CASE ~m.ok
      <4>1. o = m /\ m.st = st
        BY <2>3, <3>5, <3>6, <3>9
      <4> QED BY <4>1, <3>9, <1>2 DEF Reserved
    <3>10. CASE m.ok
      <4> DEFINE t == m.st
      <4>1. o \in UnderByteCap(t, p, r, incoming, existing)
        BY <2>3, <3>10
      <4>2. t \in Storages
        BY <3>8 DEF Evicted
      <4>3. /\ \E X \in SUBSET Route : Evicted(t, o.st, X) /\ Harmless(t, p, r, X)
            /\ o.ok => ProjectedTotal(o.st, r, incoming, existing) <= max_stream_cache_bytes
            /\ ~o.ok => \E X \in SUBSET Route :
                          /\ Own(t, p, r) \subseteq X /\ r \notin X
                          /\ Evicted(t, o.st, X)
                          /\ ~(ProjectedTotal(o.st, r, incoming, existing)
                                   <= max_stream_cache_bytes)
        BY <4>1, <4>2, ThirdStep
      <4> HIDE DEF t
      <4>4. PICK X \in SUBSET Route : Evicted(t, o.st, X) /\ Harmless(t, p, r, X)
        BY <4>3
      <4>5. Evicted(st, o.st, (V \cup W) \cup X) /\ Harmless(st, p, r, (V \cup W) \cup X)
        BY <3>8, <4>4, EvictedMore, HarmlessMore DEF t
      <4>6. st.cache[r] # None \/ Cardinality(Cached(o.st)) < MAX_STREAM_CACHE_ENTRIES
        <5>1. /\ Cardinality(Cached(t)) \in Nat /\ Cardinality(Cached(o.st)) \in Nat
              /\ Cardinality(Cached(o.st)) <= Cardinality(Cached(t))
          BY <4>4, CachedEvicted
        <5>2. st.cache[r] # None \/ Cardinality(Cached(t)) < MAX_STREAM_CACHE_ENTRIES
          BY <3>3, <3>6, <3>10 DEF t
        <5>3. CASE st.cache[r] # None
          BY <5>3
        <5>4. CASE Cardinality(Cached(t)) < MAX_STREAM_CACHE_ENTRIES
          BY <5>1, <5>4, Caps
        <5> QED BY <5>2, <5>3, <5>4
      <4>7. Reserved(st, p, r, incoming, existing, o)
        <5>1. (V \cup W) \cup X \in SUBSET Route
          OBVIOUS
        <5> QED BY <5>1, <4>3, <4>5, <4>6 DEF Reserved
      <4>8. ASSUME p \in Local, ~o.ok PROVE FALSE
        <5>1. PICK Y \in SUBSET Route :
                /\ Own(t, p, r) \subseteq Y /\ r \notin Y
                /\ Evicted(t, o.st, Y)
                /\ ~(ProjectedTotal(o.st, r, incoming, existing) <= max_stream_cache_bytes)
          BY <4>3, <4>8
        <5> DEFINE gone == (V \cup W) \cup Y
        <5>2. Evicted(st, o.st, gone)
          BY <3>8, <5>1, EvictedMore DEF t
        <5>3. gone \in SUBSET Route /\ r \notin gone
          BY <3>8, <5>1 DEF Harmless
        <5>4. Own(st, p, r) \subseteq gone
          <6> SUFFICES ASSUME NEW k \in Own(st, p, r), k \notin V \cup W PROVE k \in Y
            OBVIOUS
          <6>1. \A q \in Publisher : Tracks(t, q) = Tracks(st, q) \ (V \cup W)
            BY <3>8 DEF Evicted, t
          <6>2. k \in Own(t, p, r)
            BY <6>1 DEF Own, CoTracked
          <6> QED BY <6>2, <5>1
        <5> HIDE DEF gone
        <5>5. ProjectedTotal(o.st, r, incoming, existing) <= max_stream_cache_bytes
          BY <4>8, <5>2, <5>3, <5>4, <1>4, OwnSuffice
        <5> QED BY <5>1, <5>5
      <4> QED BY <4>7, <4>8
    <3> QED BY <3>6, <3>9, <3>10
  <2> QED BY <2>2, <2>4, <2>5
<1> QED BY <1>3, <1>4

-----------------------------------------------------------------------------
(***************************************************************************)
(* The operations.                                                         *)
(***************************************************************************)
\* Entries that went, or lost bytes but not all they held, cost nothing.
LEMMA SoundShrunk ==
    ASSUME NEW st, Sound(st), NEW t \in Storages, Linked(t),
           \A k \in Route :
              \/ t.cache[k] = None
              \/ t.cache[k] = st.cache[k]
              \/ /\ st.cache[k] # None
                 /\ t.cache[k] # EmptyStreamCache
                 /\ EntryBytes(k, t.cache[k]) <= EntryBytes(k, st.cache[k])
    PROVE  Sound(t)
<1>1. st \in Storages
  BY DEF Sound
<1>2. \A k \in Route : t.cache[k] # EmptyStreamCache
  BY EmptyEntry, NoneDistinct DEF Sound
<1>3. Cardinality(Cached(t)) <= MAX_STREAM_CACHE_ENTRIES
  <2>1. Cached(t) \subseteq Cached(st)
    BY DEF Cached
  <2>2. IsFiniteSet(Cached(st))
    BY FiniteNames, FS_Subset DEF Cached
  <2>3. /\ Cardinality(Cached(t)) \in Nat /\ Cardinality(Cached(st)) \in Nat
        /\ Cardinality(Cached(t)) <= Cardinality(Cached(st))
    BY <2>1, <2>2, FS_Subset, FS_CardinalityType
  <2>4. Cardinality(Cached(st)) <= MAX_STREAM_CACHE_ENTRIES
    BY DEF Sound
  <2> QED BY <2>3, <2>4, Caps
<1>4. StreamCacheBytes(t) <= max_stream_cache_bytes
  <2>1. Sizes(st) \in [Route -> Nat] /\ Sizes(t) \in [Route -> Nat] /\ IsFiniteSet(Route)
    BY <1>1, SizesNat, FiniteNames
  <2>2. ASSUME NEW k \in Route PROVE Sizes(t)[k] <= Sizes(st)[k]
    <3>1. Sizes(t)[k] \in Nat /\ Sizes(st)[k] \in Nat
      BY <2>1
    <3>2. Sizes(t)[k] = IF t.cache[k] = None THEN 0 ELSE EntryBytes(k, t.cache[k])
      BY SizesNat
    <3>3. Sizes(st)[k] = IF st.cache[k] = None THEN 0 ELSE EntryBytes(k, st.cache[k])
      BY <1>1, SizesNat
    <3> QED BY <3>1, <3>2, <3>3
  <2>3. SumFunctionOnSet(Sizes(t), Route) <= SumFunctionOnSet(Sizes(st), Route)
    BY <2>1, <2>2, SumMonotone
  <2>4. SumFunctionOnSet(Sizes(t), Route) \in Nat /\ SumFunctionOnSet(Sizes(st), Route) \in Nat
    BY <2>1, SumRemove
  <2>5. SumFunctionOnSet(Sizes(st), Route) <= max_stream_cache_bytes
    BY DEF Sound, StreamCacheBytes
  <2>6. SumFunctionOnSet(Sizes(t), Route) <= max_stream_cache_bytes
    BY <2>3, <2>4, <2>5, Caps
  <2> QED BY <2>6 DEF StreamCacheBytes
<1> QED BY <1>2, <1>3, <1>4 DEF Sound

\* Eviction keeps the cache sound.
LEMMA SoundEvicted ==
    ASSUME NEW st, Sound(st), NEW t, NEW V, Evicted(st, t, V)
    PROVE  Sound(t)
<1>1. t \in Storages /\ \A k \in Route : t.cache[k] = None \/ t.cache[k] = st.cache[k]
  BY DEF Evicted
<1>2. Linked(t)
  BY LinkedEvicted DEF Sound
<1> QED BY <1>1, <1>2, SoundShrunk

\* A keyframe goes with the video configuration it was cached under.
KeyframeGoes(st, t) ==
    \A r \in Route :
        /\ st.cache[r] # None
        /\ t.cache[r] # None
        /\ t.cache[r].video # st.cache[r].video
        => t.cache[r].last_keyframe = None

\* What other connections track besides r keeps its entry.
PeersKeep(st, t, p, r) ==
    \A q \in Local \ {p} : \A k \in Tracks(st, q) \ {r} : t.cache[k] = st.cache[k]

\* Eviction keeps no keyframe under another configuration.
LEMMA EvictedKeeps ==
    ASSUME NEW st, NEW t, NEW V, Evicted(st, t, V)
    PROVE  KeyframeGoes(st, t)
BY DEF KeyframeGoes, Evicted

\* Harmless evictions cost other connections nothing.
LEMMA HarmlessKeeps ==
    ASSUME NEW st, NEW t, NEW V, Evicted(st, t, V), NEW p \in Publisher, NEW r,
           Harmless(st, p, r, V)
    PROVE  PeersKeep(st, t, p, r)
<1> SUFFICES ASSUME NEW q \in Local \ {p}, NEW k \in Tracks(st, q) \ {r}
             PROVE  t.cache[k] = st.cache[k]
  BY DEF PeersKeep
<1>1. q \in Publisher /\ q \notin External /\ st \in Storages
  BY InitCacheAssumption DEF Publisher, Evicted
<1>2. k \in Route
  BY <1>1, TracksRoutes
<1>3. k \notin V
  BY <1>1 DEF Harmless, CoTracked
<1> QED BY <1>2, <1>3 DEF Evicted

\* Storage t with an entry for route r of publisher p.
Stored(t, p, r, c) == [TrackKey(t, p, r) EXCEPT !.cache[r] = c]

\* Storing an entry tracks its route, and changes no other.
LEMMA StoredTracks ==
    ASSUME NEW t \in Storages, NEW p \in Publisher, NEW r \in Route, NEW c \in StreamCache
    PROVE  /\ Stored(t, p, r, c) \in Storages
           /\ Stored(t, p, r, c).cache[r] = c
           /\ \A k \in Route \ {r} : Stored(t, p, r, c).cache[k] = t.cache[k]
           /\ \A q \in Publisher \ {p} : Tracks(Stored(t, p, r, c), q) = Tracks(t, q)
           /\ Tracks(Stored(t, p, r, c), p) = Tracks(t, p) \cup {r}
<1> DEFINE u == Stored(t, p, r, c)
<1>1. /\ t = [cache |-> t.cache, keys |-> t.keys]
      /\ t.cache \in [Route -> StreamCache \cup {None}]
      /\ t.keys \in [Publisher -> Seq(Route)]
  BY DEF Storages
<1> DEFINE s == TrackKey(t, p, r)
<1>2. /\ s = [cache |-> t.cache, keys |-> s.keys]
      /\ s.keys \in [Publisher -> Seq(Route)]
      /\ \A q \in Publisher \ {p} : s.keys[q] = t.keys[q]
      /\ Elements(s.keys[p]) = Elements(t.keys[p]) \cup {r}
  <2>1. CASE r \in Tracks(t, p)
    <3>1. s = t
      BY <2>1 DEF TrackKey
    <3> QED BY <1>1, <2>1, <3>1 DEF Tracks
  <2>2. CASE r \notin Tracks(t, p)
    <3> DEFINE more == Append(t.keys[p], r)
    <3>1. s = [t EXCEPT !.keys[p] = more]
      BY <2>2 DEF TrackKey
    <3>2. more \in Seq(Route) /\ Elements(more) = Elements(t.keys[p]) \cup {r}
      BY <1>1, ElementsAppend
    <3> HIDE DEF more, s
    <3>3. s = [cache |-> t.cache, keys |-> [t.keys EXCEPT ![p] = more]]
      BY <1>1, <3>1
    <3>4. s.keys = [t.keys EXCEPT ![p] = more]
      BY <3>3
    <3>5. /\ s.keys \in [Publisher -> Seq(Route)] /\ s.keys[p] = more
          /\ \A q \in Publisher \ {p} : s.keys[q] = t.keys[q]
      BY <1>1, <3>2, <3>4
    <3> QED BY <3>2, <3>3, <3>5
  <2> QED BY <2>1, <2>2
<1>3. PICK keys \in [Publisher -> Seq(Route)] :
         /\ s = [cache |-> t.cache, keys |-> keys]
         /\ \A q \in Publisher \ {p} : keys[q] = t.keys[q]
         /\ Elements(keys[p]) = Elements(t.keys[p]) \cup {r}
  <2> HIDE DEF s
  <2> QED BY <1>2, Zenon
<1> DEFINE cache == [t.cache EXCEPT ![r] = c]
<1>4. u = [cache |-> cache, keys |-> keys]
  <2>1. u = [s EXCEPT !.cache[r] = c]
    BY DEF Stored
  <2> HIDE DEF s, u
  <2> QED BY <2>1, <1>3
<1>5. /\ cache \in [Route -> StreamCache \cup {None}]
      /\ cache[r] = c /\ \A k \in Route \ {r} : cache[k] = t.cache[k]
  BY <1>1
<1> HIDE DEF cache, s, u
<1>6. u \in Storages
  BY <1>3, <1>4, <1>5 DEF Storages
<1>7. u.cache = cache /\ u.keys = keys
  BY <1>4
<1> QED BY <1>3, <1>5, <1>6, <1>7 DEF Tracks, u

\* The bytes of a storage after one entry was set.
LEMMA StoredBytes ==
    ASSUME NEW t \in Storages, NEW u \in Storages, NEW r \in Route,
           \A k \in Route \ {r} : u.cache[k] = t.cache[k]
    PROVE  /\ Sizes(t)[r] \in Nat /\ Sizes(u)[r] \in Nat
           /\ StreamCacheBytes(t) \in Nat /\ StreamCacheBytes(u) \in Nat
           /\ StreamCacheBytes(u) + Sizes(t)[r] = StreamCacheBytes(t) + Sizes(u)[r]
<1> DEFINE a == Sizes(t)
<1> DEFINE b == Sizes(u)
<1>1. a \in [Route -> Nat] /\ b \in [Route -> Nat] /\ IsFiniteSet(Route)
  BY SizesNat, FiniteNames
<1>2. \A k \in Route \ {r} : a[k] = b[k]
  BY SizesNat
<1> HIDE DEF a, b
<1>3. /\ SumFunctionOnSet(a, Route) = a[r] + SumFunctionOnSet(a, Route \ {r})
      /\ SumFunctionOnSet(b, Route) = b[r] + SumFunctionOnSet(b, Route \ {r})
      /\ SumFunctionOnSet(a, Route) \in Nat /\ SumFunctionOnSet(b, Route) \in Nat
      /\ SumFunctionOnSet(a, Route \ {r}) \in Nat /\ SumFunctionOnSet(b, Route \ {r}) \in Nat
  BY <1>1, SumRemove
<1>4. SumFunctionOnSet(a, Route \ {r}) = SumFunctionOnSet(b, Route \ {r})
  BY <1>1, <1>2, SumCongruent
<1>5. a[r] \in Nat /\ b[r] \in Nat
  BY <1>1
<1> QED BY <1>3, <1>4, <1>5 DEF StreamCacheBytes, a, b

\* What the entry of a route is taken to replace is part of its bytes.
LEMMA ExistingInEntry ==
    ASSUME NEW st \in Storages, NEW r \in Route, NEW f \in Frame, f.kind # "live"
    PROVE  /\ EntryOf(st, r) \in StreamCache
           /\ ExistingFieldBytes(EntryOf(st, r), f) \in Nat
           /\ ExistingFieldBytes(EntryOf(st, r), f) <= Sizes(st)[r]
           /\ Sizes(st)[r] \in Nat /\ NewKeyBytes(st, r) \in Nat
           /\ Sizes(st)[r] + NewKeyBytes(st, r) = EntryBytes(r, EntryOf(st, r))
<1> DEFINE c == EntryOf(st, r)
<1>1. c \in StreamCache
  BY EmptyEntry DEF EntryOf, Storages
<1>2. /\ ExistingFieldBytes(c, f) \in Nat
      /\ ExistingFieldBytes(c, f) + KeyBytes[r] <= EntryBytes(r, c)
      /\ KeyBytes[r] \in Nat /\ EntryBytes(r, c) \in Nat
  BY <1>1, FrameStored, EntryBytesNat
<1>3. Sizes(st)[r] = IF st.cache[r] = None THEN 0 ELSE EntryBytes(r, st.cache[r])
  BY SizesNat
<1>4. CASE st.cache[r] = None
  <2>1. c = EmptyStreamCache /\ NewKeyBytes(st, r) = KeyBytes[r] /\ Sizes(st)[r] = 0
    BY <1>3, <1>4 DEF EntryOf, NewKeyBytes
  <2>2. EntryBytes(r, c) = KeyBytes[r]
    BY <2>1, EmptyEntry
  <2> HIDE DEF c
  <2>3. ExistingFieldBytes(c, f) <= 0
    BY <1>2, <2>2
  <2>4. /\ ExistingFieldBytes(c, f) <= Sizes(st)[r]
        /\ Sizes(st)[r] \in Nat /\ NewKeyBytes(st, r) \in Nat
    BY <1>2, <2>1, <2>3
  <2>5. Sizes(st)[r] + NewKeyBytes(st, r) = EntryBytes(r, c)
    BY <1>2, <2>1, <2>2
  <2> QED BY <1>1, <1>2, <2>4, <2>5 DEF c
<1>5. CASE st.cache[r] # None
  <2>1. c = st.cache[r] /\ NewKeyBytes(st, r) = 0 /\ Sizes(st)[r] = EntryBytes(r, c)
    BY <1>3, <1>5 DEF EntryOf, NewKeyBytes
  <2> HIDE DEF c
  <2>2. ExistingFieldBytes(c, f) <= EntryBytes(r, c)
    BY <1>2
  <2>3. /\ Sizes(st)[r] \in Nat /\ NewKeyBytes(st, r) \in Nat
        /\ Sizes(st)[r] + NewKeyBytes(st, r) = EntryBytes(r, c)
    BY <1>2, <2>1
  <2> QED BY <1>1, <1>2, <2>1, <2>2, <2>3 DEF c
<1> QED BY <1>4, <1>5

\* Storing a frame, or refusing it.
LEMMA StoreStep ==
    ASSUME NEW st, Sound(st), NEW p \in Publisher, NEW r \in Route,
           NEW f \in Frame, f.kind # "live",
           NEW o \in Reserve(st, p, r, f.body.len, ExistingFieldBytes(EntryOf(st, r), f))
    PROVE  LET u == StoreFrame(o, p, r, f)
           IN  Sound(u) /\ KeyframeGoes(st, u) /\ PeersKeep(st, u, p, r)
<1> DEFINE incoming == f.body.len
<1> DEFINE c == EntryOf(st, r)
<1> DEFINE existing == ExistingFieldBytes(c, f)
<1> DEFINE t == o.st
<1> DEFINE u == StoreFrame(o, p, r, f)
<1>1. st \in Storages /\ incoming \in Nat
  BY FrameParts DEF Sound
<1>2. /\ c \in StreamCache /\ existing \in Nat /\ existing <= Sizes(st)[r]
      /\ Sizes(st)[r] \in Nat /\ NewKeyBytes(st, r) \in Nat
      /\ Sizes(st)[r] + NewKeyBytes(st, r) = EntryBytes(r, c)
  BY <1>1, ExistingInEntry
<1>3. Reserved(st, p, r, incoming, existing, o)
  <2> HIDE DEF incoming, existing
  <2>1. o \in Reserve(st, p, r, incoming, existing)
    BY DEF incoming, existing
  <2> QED BY <1>1, <1>2, <2>1, ReserveOutcome
<1>4. PICK V \in SUBSET Route : Evicted(st, t, V) /\ Harmless(st, p, r, V)
  BY <1>3 DEF Reserved
<1>5. t \in Storages /\ Linked(t) /\ r \notin V /\ t.cache[r] = st.cache[r] /\ Sound(t)
  <2> HIDE DEF t
  <2>1. Linked(t) /\ Sound(t)
    BY <1>4, SoundEvicted DEF Sound
  <2>2. r \notin V
    BY <1>4 DEF Harmless
  <2>3. t \in Storages /\ t.cache[r] = st.cache[r]
    BY <1>4, <2>2 DEF Evicted
  <2> QED BY <2>1, <2>2, <2>3
<1>6. CASE ~o.ok
  <2>1. u = t
    BY <1>6 DEF StoreFrame
  <2> HIDE DEF t, u
  <2>2. Sound(u) /\ KeyframeGoes(st, u) /\ PeersKeep(st, u, p, r)
    BY <2>1, <1>4, <1>5, EvictedKeeps, HarmlessKeeps
  <2> QED BY <2>2 DEF u
<1>7. CASE o.ok
  <2> DEFINE d == Updated(c, f)
  <2>1. EntryOf(t, r) = c
    BY <1>5 DEF EntryOf
  <2>2. u = Stored(t, p, r, d)
    BY <1>7, <2>1 DEF StoreFrame, Stored
  <2>3. /\ d \in StreamCache /\ d # EmptyStreamCache
        /\ d.video # c.video => d.last_keyframe = None
        /\ EntryBytes(r, d) + existing = EntryBytes(r, c) + incoming
    BY <1>2, FrameStored
  <2>4. /\ ProjectedTotal(t, r, incoming, existing) <= max_stream_cache_bytes
        /\ st.cache[r] # None \/ Cardinality(Cached(t)) < MAX_STREAM_CACHE_ENTRIES
    BY <1>3, <1>7 DEF Reserved
  <2> HIDE DEF incoming, existing, t, u, d, c
  <2>5. /\ u \in Storages /\ u.cache[r] = d
        /\ \A k \in Route \ {r} : u.cache[k] = t.cache[k]
        /\ \A q \in Publisher \ {p} : Tracks(u, q) = Tracks(t, q)
        /\ Tracks(u, p) = Tracks(t, p) \cup {r}
    BY <1>5, <2>2, <2>3, StoredTracks
  <2>6. d # None
    BY <2>3, NoneDistinct
  <2>7. Linked(u)
    <3> SUFFICES ASSUME NEW k \in Route
                 PROVE  u.cache[k] # None <=> \E q \in Publisher : k \in Tracks(u, q)
      BY DEF Linked
    <3>1. CASE k = r
      BY <3>1, <2>5, <2>6
    <3>2. CASE k # r
      <4>1. u.cache[k] = t.cache[k] /\ \A q \in Publisher : k \in Tracks(u, q) <=> k \in Tracks(t, q)
        BY <3>2, <2>5
      <4> QED BY <4>1, <1>5 DEF Linked
    <3> QED BY <3>1, <3>2
  <2>8. \A k \in Route : u.cache[k] # EmptyStreamCache
    BY <2>3, <2>5, <1>5 DEF Sound
  <2>9. Cardinality(Cached(u)) <= MAX_STREAM_CACHE_ENTRIES
    <3>1. Cached(u) = Cached(t) \cup {r}
      BY <2>5, <2>6 DEF Cached
    <3>2. IsFiniteSet(Cached(t)) /\ Cardinality(Cached(t)) \in Nat
          /\ Cardinality(Cached(t)) <= MAX_STREAM_CACHE_ENTRIES
      BY <1>5, FiniteNames, FS_Subset, FS_CardinalityType DEF Cached, Sound
    <3>3. CASE st.cache[r] # None
      <4>1. r \in Cached(t)
        BY <3>3, <1>5 DEF Cached
      <4>2. Cached(u) = Cached(t)
        BY <4>1, <3>1
      <4> QED BY <4>2, <3>2
    <3>4. CASE st.cache[r] = None
      <4>1. Cardinality(Cached(t)) < MAX_STREAM_CACHE_ENTRIES
        BY <3>4, <2>4
      <4>2. r \notin Cached(t)
        BY <3>4, <1>5 DEF Cached
      <4>3. Cardinality(Cached(t) \cup {r}) = Cardinality(Cached(t)) + 1
        BY <4>2, <3>2, FS_AddElement
      <4> QED BY <4>1, <4>3, <3>1, <3>2, Caps
    <3> QED BY <3>3, <3>4
  <2>10. StreamCacheBytes(u) <= max_stream_cache_bytes
    <3>1. /\ Sizes(t)[r] \in Nat /\ Sizes(u)[r] \in Nat
          /\ StreamCacheBytes(t) \in Nat /\ StreamCacheBytes(u) \in Nat
          /\ StreamCacheBytes(u) + Sizes(t)[r] = StreamCacheBytes(t) + Sizes(u)[r]
      BY <1>5, <2>5, StoredBytes
    <3>2. Sizes(t)[r] = Sizes(st)[r]
      BY <1>1, <1>5, SizesNat
    <3>3. Sizes(u)[r] = EntryBytes(r, d)
      BY <2>5, <2>6, SizesNat
    <3>4. /\ existing <= StreamCacheBytes(t)
          /\ ProjectedTotal(t, r, incoming, existing)
               = StreamCacheBytes(t) + incoming + NewKeyBytes(st, r) - existing
      <4>1. Evicted(st, t, V) /\ r \notin V
        BY <1>4, <1>5
      <4>2. incoming \in Nat /\ existing \in Nat /\ existing <= Sizes(st)[r]
        BY <1>1, <1>2
      <4> QED BY <4>1, <4>2, ProjectedEvicted
    <3>5. EntryBytes(r, d) \in Nat /\ EntryBytes(r, c) \in Nat
      BY <2>3, <1>2, EntryBytesNat
    <3>6. StreamCacheBytes(u) = ProjectedTotal(t, r, incoming, existing)
      <4>1. StreamCacheBytes(u) + Sizes(st)[r] = StreamCacheBytes(t) + EntryBytes(r, d)
        BY <3>1, <3>2, <3>3, Zenon
      <4>2. EntryBytes(r, d) + existing = Sizes(st)[r] + NewKeyBytes(st, r) + incoming
        BY <1>2, <2>3, Zenon
      <4>3. /\ StreamCacheBytes(u) \in Nat /\ StreamCacheBytes(t) \in Nat
            /\ Sizes(st)[r] \in Nat /\ NewKeyBytes(st, r) \in Nat
            /\ incoming \in Nat /\ existing \in Nat
        BY <3>1, <1>1, <1>2, Zenon
      <4>4. StreamCacheBytes(u)
              = StreamCacheBytes(t) + incoming + NewKeyBytes(st, r) - existing
        BY <3>5, <4>1, <4>2, <4>3
      <4> QED BY <3>4, <4>4, Zenon
    <3> QED BY <3>6, <2>4, Zenon
  <2>11. Sound(u)
    BY <2>5, <2>7, <2>8, <2>9, <2>10 DEF Sound
  <2>12. KeyframeGoes(st, u)
    <3> SUFFICES ASSUME NEW k \in Route, st.cache[k] # None, u.cache[k] # None,
                        u.cache[k].video # st.cache[k].video
                 PROVE  u.cache[k].last_keyframe = None
      BY DEF KeyframeGoes
    <3>1. CASE k = r
      <4>1. c = st.cache[k]
        BY <3>1 DEF c, EntryOf
      <4> QED BY <3>1, <4>1, <2>3, <2>5
    <3>2. CASE k # r
      BY <3>2, <2>5, <1>4 DEF Evicted
    <3> QED BY <3>1, <3>2
  <2>13. PeersKeep(st, u, p, r)
    <3>1. PeersKeep(st, t, p, r)
      BY <1>4, HarmlessKeeps
    <3>2. \A q \in Local : Tracks(st, q) \subseteq Route
      BY <1>1, TracksRoutes DEF Publisher
    <3> QED BY <3>1, <3>2, <2>5 DEF PeersKeep
  <2> QED BY <2>11, <2>12, <2>13 DEF u
<1> QED BY <1>3, <1>6, <1>7

\* A payload over its size cap.
LEMMA OversizedStep ==
    ASSUME NEW st, Sound(st), NEW r \in Route, NEW f \in Frame, f.kind # "live"
    PROVE  LET u == CacheOversized(st, r, f)
           IN  /\ Sound(u) /\ KeyframeGoes(st, u)
               /\ \A k \in Route \ {r} : u.cache[k] = st.cache[k]
<1> DEFINE u == CacheOversized(st, r, f)
<1> DEFINE c == Outdated(st.cache[r], f)
<1>1. st \in Storages /\ Linked(st)
  BY DEF Sound
<1>2. CASE st.cache[r] = None
  <2>1. u = st
    BY <1>2 DEF CacheOversized
  <2> QED BY <2>1 DEF KeyframeGoes
<1>3. CASE st.cache[r] # None /\ c = EmptyStreamCache
  <2>1. u = Evict(st, {r})
    BY <1>3 DEF CacheOversized
  <2>2. Evicted(st, u, {r})
    BY <1>1, <2>1, EvictEvicts
  <2> HIDE DEF u
  <2>3. Sound(u) /\ KeyframeGoes(st, u) /\ \A k \in Route \ {r} : u.cache[k] = st.cache[k]
    BY <2>2, SoundEvicted, EvictedKeeps DEF Evicted
  <2> QED BY <2>3 DEF u
<1>4. CASE st.cache[r] # None /\ c # EmptyStreamCache
  <2>1. u = [st EXCEPT !.cache[r] = c]
    BY <1>4 DEF CacheOversized
  <2>2. st.cache[r] \in StreamCache
    BY <1>1, <1>4 DEF Storages
  <2>3. /\ c \in StreamCache
        /\ c.video # st.cache[r].video => c.last_keyframe = None
        /\ EntryBytes(r, c) <= EntryBytes(r, st.cache[r])
    BY <2>2, FrameOutdated
  <2>4. c # None
    BY <2>3, NoneDistinct
  <2> DEFINE cache == [st.cache EXCEPT ![r] = c]
  <2> HIDE DEF c, u
  <2>5. /\ st = [cache |-> st.cache, keys |-> st.keys]
        /\ st.cache \in [Route -> StreamCache \cup {None}]
        /\ st.keys \in [Publisher -> Seq(Route)]
    BY <1>1 DEF Storages
  <2>6. u = [cache |-> cache, keys |-> st.keys]
    BY <2>1, <2>5, ZenonT(30)
  <2>7. /\ cache \in [Route -> StreamCache \cup {None}]
        /\ cache[r] = c /\ \A k \in Route \ {r} : cache[k] = st.cache[k]
    BY <2>3, <2>5
  <2> HIDE DEF cache
  <2>8. u \in Storages /\ u.cache = cache /\ \A q \in Publisher : Tracks(u, q) = Tracks(st, q)
    BY <2>5, <2>6, <2>7 DEF Storages, Tracks
  <2>9. Linked(u)
    BY <1>1, <1>4, <2>4, <2>7, <2>8 DEF Linked
  <2>10. Sound(u)
    BY <1>4, <2>3, <2>7, <2>8, <2>9, SoundShrunk
  <2>11. KeyframeGoes(st, u)
    BY <2>3, <2>7, <2>8 DEF KeyframeGoes
  <2> QED BY <2>7, <2>8, <2>10, <2>11 DEF u
<1> QED BY <1>2, <1>3, <1>4

\* A frame: whatever cache_relay_frame does with it.
LEMMA FrameStep ==
    ASSUME NEW st, Sound(st), NEW p \in Publisher, NEW r \in Route, NEW f \in Frames,
           NEW u \in CacheRelayFrame(st, p, r, f)
    PROVE  Sound(u) /\ KeyframeGoes(st, u) /\ PeersKeep(st, u, p, r)
<1>1. f \in Frame /\ st \in Storages
  BY InitCacheAssumption DEF Sound
<1>2. CASE f.kind = "live"
  <2>1. u = st
    BY <1>2 DEF CacheRelayFrame
  <2> QED BY <2>1 DEF KeyframeGoes, PeersKeep
<1>3. CASE f.kind # "live" /\ f.body.len > SizeCap(f)
  <2>1. u = CacheOversized(st, r, f)
    BY <1>3 DEF CacheRelayFrame
  <2>2. Sound(u) /\ KeyframeGoes(st, u) /\ \A k \in Route \ {r} : u.cache[k] = st.cache[k]
    BY <1>1, <1>3, <2>1, OversizedStep
  <2>3. \A q \in Local : Tracks(st, q) \subseteq Route
    BY <1>1, TracksRoutes DEF Publisher
  <2> QED BY <2>2, <2>3 DEF PeersKeep
<1>4. CASE f.kind # "live" /\ ~(f.body.len > SizeCap(f))
  <2>1. PICK o \in Reserve(st, p, r, f.body.len, ExistingFieldBytes(EntryOf(st, r), f)) :
          u = StoreFrame(o, p, r, f)
    BY <1>4 DEF CacheRelayFrame
  <2> QED BY <1>1, <1>4, <2>1, StoreStep
<1> QED BY <1>2, <1>3, <1>4

\* A publisher lets go of a route.
LEMMA UntrackStep ==
    ASSUME NEW st, Sound(st), NEW p \in Publisher, NEW r \in Route
    PROVE  Sound(Untrack(st, p, r)) /\ KeyframeGoes(st, Untrack(st, p, r))
<1> DEFINE u == Untrack(st, p, r)
<1> DEFINE rest == Without(st.keys[p], {r})
<1> DEFINE keys == [st.keys EXCEPT ![p] = rest]
<1> DEFINE cache == IF r \notin Tracks(st, p) \/ CoTracked(st, p, r) THEN st.cache
                    ELSE [st.cache EXCEPT ![r] = None]
<1>1. /\ st = [cache |-> st.cache, keys |-> st.keys]
      /\ st.cache \in [Route -> StreamCache \cup {None}]
      /\ st.keys \in [Publisher -> Seq(Route)]
      /\ Linked(st)
  BY DEF Sound, Storages
<1>2. rest \in Seq(Route) /\ Elements(rest) = Elements(st.keys[p]) \ {r}
  BY <1>1, WithoutElements
<1>3. u = [cache |-> cache, keys |-> keys]
  <2> DEFINE left == [st EXCEPT !.keys[p] = rest]
  <2>1. u = IF r \notin Tracks(st, p) \/ CoTracked(st, p, r) THEN left
            ELSE [left EXCEPT !.cache[r] = None]
    BY DEF Untrack
  <2> HIDE DEF rest, u
  <2>2. left = [cache |-> st.cache, keys |-> keys]
    BY <1>1
  <2> HIDE DEF left, keys
  <2> QED BY <2>1, <2>2
<1>4. keys \in [Publisher -> Seq(Route)] /\ keys[p] = rest
      /\ \A q \in Publisher \ {p} : keys[q] = st.keys[q]
  <2> HIDE DEF rest
  <2> QED BY <1>1, <1>2
<1>5. /\ cache \in [Route -> StreamCache \cup {None}]
      /\ \A k \in Route \ {r} : cache[k] = st.cache[k]
      /\ cache[r] = IF r \notin Tracks(st, p) \/ CoTracked(st, p, r) THEN st.cache[r] ELSE None
  BY <1>1
<1> HIDE DEF u, rest, keys, cache
<1>6. u \in Storages /\ u.cache = cache /\ u.keys = keys
  BY <1>3, <1>4, <1>5 DEF Storages
<1>7. /\ \A q \in Publisher \ {p} : Tracks(u, q) = Tracks(st, q)
      /\ Tracks(u, p) = Tracks(st, p) \ {r}
  BY <1>2, <1>4, <1>6 DEF Tracks
<1>8. Linked(u)
  <2> SUFFICES ASSUME NEW k \in Route
               PROVE  u.cache[k] # None <=> \E q \in Publisher : k \in Tracks(u, q)
    BY DEF Linked
  <2>1. CASE k # r
    BY <2>1, <1>1, <1>5, <1>6, <1>7 DEF Linked
  <2>2. CASE k = r
    BY <2>2, <1>1, <1>5, <1>6, <1>7 DEF Linked, CoTracked
  <2> QED BY <2>1, <2>2
<1>9. \A k \in Route : u.cache[k] = None \/ u.cache[k] = st.cache[k]
  BY <1>5, <1>6
<1>10. Sound(u)
  BY <1>6, <1>8, <1>9, SoundShrunk
<1>11. KeyframeGoes(st, u)
  BY <1>9 DEF KeyframeGoes
<1> QED BY <1>10, <1>11 DEF u

\* The storage once publisher p is gone.
Removed(st, p) ==
    [cache |-> [r \in Route |-> IF r \in Tracks(st, p) /\ ~CoTracked(st, p, r)
                                THEN None ELSE st.cache[r]],
     keys |-> [st.keys EXCEPT ![p] = <<>>]]

\* A publisher is removed with all it tracks.
LEMMA RemoveStep ==
    ASSUME NEW st, Sound(st), NEW p \in Publisher
    PROVE  Sound(Removed(st, p)) /\ KeyframeGoes(st, Removed(st, p))
<1> DEFINE u == Removed(st, p)
<1>1. /\ st.cache \in [Route -> StreamCache \cup {None}]
      /\ st.keys \in [Publisher -> Seq(Route)]
      /\ Linked(st)
  BY DEF Sound, Storages
<1>2. /\ \A k \in Route : u.cache[k] = IF k \in Tracks(st, p) /\ ~CoTracked(st, p, k)
                                       THEN None ELSE st.cache[k]
      /\ u.keys = [st.keys EXCEPT ![p] = <<>>]
  BY DEF Removed
<1>3. u \in Storages
  BY <1>1 DEF Removed, Storages
<1> HIDE DEF u
<1>4. \A q \in Publisher \ {p} : Tracks(u, q) = Tracks(st, q)
  BY <1>1, <1>2 DEF Tracks
<1>5. Tracks(u, p) = {}
  BY <1>1, <1>2 DEF Tracks, Elements
<1>6. Linked(u)
  BY <1>1, <1>2, <1>4, <1>5 DEF Linked, CoTracked
<1>7. \A k \in Route : u.cache[k] = None \/ u.cache[k] = st.cache[k]
  BY <1>2
<1>8. Sound(u)
  BY <1>3, <1>6, <1>7, SoundShrunk
<1>9. KeyframeGoes(st, u)
  BY <1>7 DEF KeyframeGoes
<1> QED BY <1>8, <1>9 DEF u

-----------------------------------------------------------------------------
(***************************************************************************)
(* The inductive invariant, and what follows from it.                      *)
(***************************************************************************)
SoundCache == Sound(Storage)

\* The next storage.
LEMMA BecomesStorage ==
    ASSUME NEW st \in Storages, Becomes(st)
    PROVE  Storage' = st
<1>1. st = [cache |-> st.cache, keys |-> st.keys]
  BY DEF Storages
<1> QED BY <1>1 DEF Becomes, Storage

\* The empty cache is sound.
LEMMA InitSound == CacheInit => SoundCache
<1> SUFFICES ASSUME CacheInit PROVE Sound(Storage)
  BY DEF SoundCache
<1>1. /\ Storage.cache = [r \in Route |-> None]
      /\ Storage.keys = [p \in Publisher |-> <<>>]
  BY DEF CacheInit, Storage
<1>2. Storage \in Storages
  BY DEF CacheInit, Storage, Storages
<1>3. Linked(Storage)
  BY <1>1 DEF Linked, Tracks, Elements
<1>4. \A r \in Route : Storage.cache[r] # EmptyStreamCache
  BY <1>1, EmptyEntry, NoneDistinct
<1>5. Cardinality(Cached(Storage)) <= MAX_STREAM_CACHE_ENTRIES
  <2>1. Cached(Storage) = {}
    BY <1>1 DEF Cached
  <2> QED BY <2>1, FS_EmptySet, Caps
<1>6. StreamCacheBytes(Storage) <= max_stream_cache_bytes
  <2>1. Sizes(Storage) \in [Route -> Nat] /\ \A r \in Route : Sizes(Storage)[r] = 0
    BY <1>1, <1>2, SizesNat
  <2>2. StreamCacheBytes(Storage) = 0
    BY <2>1, FiniteNames, SumOfZeros DEF StreamCacheBytes
  <2> QED BY <2>2, Caps
<1> QED BY <1>2, <1>3, <1>4, <1>5, <1>6 DEF Sound

\* Every operation keeps it so.
LEMMA NextSound ==
    ASSUME SoundCache, CacheNext
    PROVE  SoundCache' /\ KeyframeGoes(Storage, Storage')
<1>1. Sound(Storage)
  BY DEF SoundCache
<1>2. ASSUME NEW st, Becomes(st), Sound(st), KeyframeGoes(Storage, st)
      PROVE  SoundCache' /\ KeyframeGoes(Storage, Storage')
  <2>1. Storage' = st
    BY <1>2, BecomesStorage DEF Sound
  <2>2. SoundCache' = Sound(Storage')
    BY DEF SoundCache, Sound, Linked, Tracks, Cached, CoTracked, StreamCacheBytes, Sizes
  <2> QED BY <2>1, <2>2, <1>2
<1>3. PICK p \in Publisher :
         \/ RemovePublisher(p)
         \/ \E r \in Route : Abandon(p, r) \/ \E f \in Frames : Cache(p, r, f)
  BY DEF CacheNext
<1>4. CASE RemovePublisher(p)
  <2>1. Becomes(Removed(Storage, p))
    BY <1>4 DEF RemovePublisher, Removed, Storage
  <2> QED BY <1>1, <1>2, <2>1, RemoveStep
<1>5. ASSUME NEW r \in Route, Abandon(p, r)
      PROVE  SoundCache' /\ KeyframeGoes(Storage, Storage')
  <2>1. Becomes(Untrack(Storage, p, r))
    BY <1>5 DEF Abandon
  <2> QED BY <1>1, <1>2, <2>1, UntrackStep
<1>6. ASSUME NEW r \in Route, NEW f \in Frames, Cache(p, r, f)
      PROVE  SoundCache' /\ KeyframeGoes(Storage, Storage')
  <2>1. PICK st \in CacheRelayFrame(Storage, p, r, f) : Becomes(st)
    BY <1>6 DEF Cache
  <2> QED BY <1>1, <1>2, <2>1, FrameStep
<1> QED BY <1>3, <1>4, <1>5, <1>6

\* What a sound cache guarantees.
LEMMA SoundImplies == SoundCache => WithinByteCap /\ EntriesTracked /\ PeersKept
<1> SUFFICES ASSUME Sound(Storage) PROVE WithinByteCap /\ EntriesTracked /\ PeersKept
  BY DEF SoundCache
<1>1. WithinByteCap
  BY DEF Sound, WithinByteCap
<1>2. Storage.cache = stream_cache
  BY DEF Storage
<1>3. EntriesTracked
  <2>1. Storage.cache \in [Route -> StreamCache \cup {None}] /\ Linked(Storage)
        /\ \A r \in Route : Storage.cache[r] # EmptyStreamCache
    BY DEF Sound, Storages
  <2> QED BY <1>2, <2>1 DEF EntriesTracked, Linked
<1>4. Local \subseteq Publisher
  BY DEF Publisher
<1>5. RefusalEvictsNothing
  <2> SUFFICES ASSUME NEW p \in Local, NEW r \in Route, NEW f \in Frames, Cacheable(f),
                      NEW o \in Reservation(p, r, f)
               PROVE  o.ok \/ o.st = Storage
    BY DEF RefusalEvictsNothing
  <2> DEFINE x == ExistingFieldBytes(EntryOf(Storage, r), f)
  <2>1. f \in Frame /\ f.kind # "live" /\ Storage \in Storages /\ f.body.len \in Nat
    BY InitCacheAssumption, FrameParts DEF Cacheable, Sound
  <2>2. x \in Nat /\ x <= Sizes(Storage)[r]
    BY <2>1, ExistingInEntry
  <2>3. o \in Reserve(Storage, p, r, f.body.len, x)
    BY DEF Reservation
  <2> DEFINE n == f.body.len
  <2>4. o \in Reserve(Storage, p, r, n, x) /\ n \in Nat /\ p \in Publisher
    BY <1>4, <2>1, <2>3
  <2> HIDE DEF x, n
  <2>5. ~o.ok => o.st = Storage
    BY <2>2, <2>4, ReserveOutcome
  <2> QED BY <2>5
<1>6. ASSUME NEW p \in Local, NEW r \in Route, NEW f \in Frames,
             NEW st \in CacheRelayFrame(Storage, p, r, f),
             NEW q \in Local \ {p}, NEW k \in Tracks(Storage, q) \ {r}
      PROVE  st.cache[k] = stream_cache[k]
  BY <1>2, <1>4, FrameStep DEF PeersKeep
<1> QED BY <1>1, <1>3, <1>5, <1>6 DEF PeersKept

\* The cache is sound in every reachable state: every entry is tracked and
\* holds something, and both caps are kept.
THEOREM AlwaysSound == CacheSpec => []SoundCache
<1>1. CacheInit => SoundCache
  BY InitSound
<1>2. SoundCache /\ [CacheNext]_cacheVars => SoundCache'
  <2> SUFFICES ASSUME SoundCache, [CacheNext]_cacheVars PROVE SoundCache'
    OBVIOUS
  <2>1. CASE CacheNext
    BY <2>1, NextSound
  <2>2. CASE UNCHANGED cacheVars
    BY <2>2 DEF cacheVars, SoundCache, Storage, Sound, Linked, Tracks, Cached, StreamCacheBytes, Sizes
  <2> QED BY <2>1, <2>2
<1> QED BY <1>1, <1>2, PTL DEF CacheSpec

\* Whatever is replaced, discarded or evicted on the way, the bytes cached
\* stay within max_stream_cache_bytes.
THEOREM AlwaysWithinByteCap == CacheSpec => []WithinByteCap
BY AlwaysSound, SoundImplies, PTL

\* An entry lives exactly as long as some publisher tracks its route, and is
\* never empty.
THEOREM EntriesAlwaysTracked == CacheSpec => []EntriesTracked
BY AlwaysSound, SoundImplies, PTL

\* A refused frame of a connection evicts nothing, and a stored one nothing
\* that another connection tracks.
THEOREM PeersAlwaysKept == CacheSpec => []PeersKept
BY AlwaysSound, SoundImplies, PTL

\* No step keeps a keyframe across a change of its video configuration.
THEOREM KeyframeAlwaysDiscarded == CacheSpec => KeyframeDiscarded
<1> DEFINE Discard == \A r \in Route :
      /\ stream_cache[r] # None
      /\ stream_cache'[r] # None
      /\ stream_cache'[r].video # stream_cache[r].video
      => stream_cache'[r].last_keyframe = None
<1>1. SoundCache /\ [CacheNext]_cacheVars => [Discard]_cacheVars
  <2> SUFFICES ASSUME SoundCache, CacheNext PROVE Discard
    OBVIOUS
  <2>1. KeyframeGoes(Storage, Storage')
    BY NextSound
  <2>2. Storage.cache = stream_cache /\ Storage'.cache = stream_cache'
    BY DEF Storage
  <2> QED BY <2>1, <2>2 DEF KeyframeGoes
<1>2. KeyframeDiscarded <=> [][Discard]_cacheVars
  BY DEF KeyframeDiscarded
<1> HIDE DEF Discard
<1> QED BY <1>1, <1>2, AlwaysSound, PTL DEF CacheSpec
=============================================================================
