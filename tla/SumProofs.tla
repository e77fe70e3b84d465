----------------------------- MODULE SumProofs -----------------------------
(***************************************************************************)
(* Facts about finite sets of integers, their least and greatest elements, *)
(* and about SumFunctionOnSet, the sum of a function over a finite set: the *)
(* sizes of transactions and the paddings are such sums.  The library      *)
(* defines it by recursion over the subsets, an element chosen and taken   *)
(* out at a time.  Each fact is proved for a smallest set that would be an *)
(* exception to it.                                                        *)
(***************************************************************************)
EXTENDS FiniteSetsExt, FiniteSetTheorems, WellFoundedInduction, TLAPS

-----------------------------------------------------------------------------
(* Finite sets                                                              *)

(* Among finite sets there is one that contains no other.                   *)
LEMMA SmallestSet ==
    ASSUME NEW T, T # {}, \A s \in T : IsFiniteSet(s)
    PROVE  \E s \in T : \A t \in T : t \subseteq s => t = s
  <1> DEFINE R == StrictSubsetOrdering(UNION T)
             F == FiniteSubsetsOf(UNION T)
  <1>1. T \subseteq F
    BY DEF FiniteSubsetsOf
  <1>2. IsWellFoundedOn(R, F)
    BY FS_StrictSubsetOrderingWellFounded
  <1>3. \E s \in T : \A t \in T : ~ (<< t, s >> \in R)
    <2> HIDE DEF R, F
    <2> QED
      BY <1>1, <1>2, WFMin
  <1> QED
    BY <1>3 DEF StrictSubsetOrdering

LEMMA Least ==
    ASSUME NEW S, S \subseteq Int, IsFiniteSet(S), S # {}
    PROVE  \E i \in S : \A j \in S : i <= j
  <1> DEFINE Upto(i) == {k \in S : k <= i}
             T == {Upto(i) : i \in S}
  <1>1. T # {} /\ \A s \in T : IsFiniteSet(s)
    <2>1. \A i \in S : IsFiniteSet(Upto(i))
      BY FS_Subset
    <2> QED
      BY <2>1
  <1>2. PICK s \in T : \A t \in T : t \subseteq s => t = s
    <2> HIDE DEF T
    <2> QED
      BY <1>1, SmallestSet
  <1>3. PICK i \in S : s = Upto(i)
    OBVIOUS
  <1>4. ASSUME NEW j \in S, ~ (i <= j) PROVE FALSE
    <2>1. i \in Int /\ j \in Int /\ j < i
      BY <1>4
    <2>2. Upto(j) \subseteq Upto(i) /\ i \in Upto(i) /\ i \notin Upto(j)
      <3>1. \A k \in S : k <= j => k <= i
        BY <2>1
      <3>2. i <= i
        BY <2>1
      <3> QED
        BY <1>4, <2>1, <3>1, <3>2
    <2>3. Upto(j) \in T
      OBVIOUS
    <2> QED
      BY <1>2, <1>3, <2>2, <2>3
  <1> QED
    BY <1>4

(* Some element has the greatest value.                                     *)
LEMMA Greatest ==
    ASSUME NEW S, IsFiniteSet(S), S # {}, NEW f, \A i \in S : f[i] \in Int
    PROVE  \E i \in S : \A j \in S : f[j] <= f[i]
  <1> DEFINE From(i) == {k \in S : f[i] <= f[k]}
             T == {From(i) : i \in S}
  <1>1. T # {} /\ \A s \in T : IsFiniteSet(s)
    <2>1. \A i \in S : IsFiniteSet(From(i))
      BY FS_Subset
    <2> QED
      BY <2>1
  <1>2. PICK s \in T : \A t \in T : t \subseteq s => t = s
    <2> HIDE DEF T
    <2> QED
      BY <1>1, SmallestSet
  <1>3. PICK i \in S : s = From(i)
    OBVIOUS
  <1>4. ASSUME NEW j \in S, ~ (f[j] <= f[i]) PROVE FALSE
    <2>1. f[i] \in Int /\ f[j] \in Int /\ f[i] < f[j]
      BY <1>4
    <2>2. From(j) \subseteq From(i) /\ i \in From(i) /\ i \notin From(j)
      <3>1. \A k \in S : f[j] <= f[k] => f[i] <= f[k]
        BY <2>1
      <3>2. f[i] <= f[i]
        BY <2>1
      <3> QED
        BY <1>4, <2>1, <3>1, <3>2
    <2>3. From(j) \in T
      OBVIOUS
    <2> QED
      BY <1>2, <1>3, <2>2, <2>3
  <1> QED
    BY <1>4

LEMMA MinIsLeast ==
    ASSUME NEW S, S \subseteq Int, IsFiniteSet(S), S # {}
    PROVE  Min(S) \in S /\ \A j \in S : Min(S) <= j
  BY Least DEF Min

LEMMA MaxIsGreatest ==
    ASSUME NEW S, S \subseteq Int, IsFiniteSet(S), S # {}
    PROVE  Max(S) \in S /\ \A j \in S : j <= Max(S)
  <1> DEFINE f == [i \in S |-> i]
  <1>1. \A i \in S : f[i] = i /\ f[i] \in Int
    OBVIOUS
  <1> HIDE DEF f
  <1>2. PICK i \in S : \A j \in S : f[j] <= f[i]
    BY <1>1, Greatest
  <1>3. \A j \in S : i >= j
    BY <1>1, <1>2
  <1> QED
    BY <1>3 DEF Max

-----------------------------------------------------------------------------
(* The recursion of the sum                                                 *)

Chosen(s) == CHOOSE x \in s : TRUE

SumStep(f, g, s) == IF s = {} THEN 0 ELSE f[Chosen(s)] + g[s \ {Chosen(s)}]

(* g sums f over the subsets of S.                                          *)
Sums(f, g, S) == g = [s \in SUBSET S |-> SumStep(f, g, s)]

LEMMA SumIsChosen ==
    ASSUME NEW f, NEW S
    PROVE  SumFunctionOnSet(f, S) = (CHOOSE g : Sums(f, g, S))[S]
  BY DEF SumFunctionOnSet, FoldFunctionOnSet, MapThenFoldSet, Sums, SumStep, Chosen

LEMMA ChosenIsIn ==
    ASSUME NEW s, s # {}
    PROVE  Chosen(s) \in s
  BY DEF Chosen

LEMMA SumsAt ==
    ASSUME NEW f, NEW g, NEW S, Sums(f, g, S), NEW s \in SUBSET S
    PROVE  g[s] = SumStep(f, g, s)
  <1> DEFINE h(t) == SumStep(f, g, t)
  <1>1. g = [t \in SUBSET S |-> h(t)]
    BY DEF Sums
  <1> HIDE DEF h
  <1>2. g[s] = h(s)
    BY <1>1
  <1> QED
    BY <1>2 DEF h

(* Two sums agree where both are defined.                                   *)
LEMMA SumsAgree ==
    ASSUME NEW f, NEW g, NEW h, NEW S, NEW T, Sums(f, g, S), Sums(f, h, T),
           NEW u, u \subseteq S, u \subseteq T, IsFiniteSet(u)
    PROVE  g[u] = h[u]
  <1> DEFINE X == {s \in SUBSET u : g[s] # h[s]}
  <1>1. SUFFICES ASSUME X # {} PROVE FALSE
    <2>1. u \in SUBSET u
      OBVIOUS
    <2> QED
      BY <1>1, <2>1
  <1>2. \A s \in X : IsFiniteSet(s)
    BY FS_Subset
  <1>3. PICK s \in X : \A t \in X : t \subseteq s => t = s
    <2> HIDE DEF X
    <2> QED
      BY <1>1, <1>2, SmallestSet
  <1>4. s \subseteq u /\ g[s] # h[s]
    OBVIOUS
  <1>5. g[s] = SumStep(f, g, s) /\ h[s] = SumStep(f, h, s)
    BY <1>4, SumsAt
  <1>6. CASE s = {}
    BY <1>4, <1>5, <1>6 DEF SumStep
  <1>7. CASE s # {}
    <2> DEFINE t == s \ {Chosen(s)}
    <2>1. Chosen(s) \in s
      BY <1>7, ChosenIsIn
    <2>2. t \subseteq s /\ t # s /\ t \in SUBSET u
      BY <1>4, <2>1
    <2>3. t \notin X
      BY <1>3, <2>2
    <2>4. g[t] = h[t]
      BY <2>2, <2>3
    <2> QED
      BY <1>4, <1>5, <1>7, <2>4 DEF SumStep
  <1> QED
    BY <1>6, <1>7

(* There is a sum over every finite set.                                    *)
LEMMA SumsExist ==
    ASSUME NEW f, NEW S, IsFiniteSet(S)
    PROVE  \E g : Sums(f, g, S)
  <1> DEFINE X == {s \in SUBSET S : ~ \E g : Sums(f, g, s)}
  <1>1. SUFFICES ASSUME X # {} PROVE FALSE
    <2>1. S \in SUBSET S
      OBVIOUS
    <2> QED
      BY <1>1, <2>1
  <1>2. \A s \in X : IsFiniteSet(s)
    BY FS_Subset
  <1>3. PICK s \in X : \A t \in X : t \subseteq s => t = s
    <2> HIDE DEF X
    <2> QED
      BY <1>1, <1>2, SmallestSet
  <1>4. s \subseteq S /\ (~ \E g : Sums(f, g, s)) /\ IsFiniteSet(s)
    BY <1>2
  <1> DEFINE G(t) == (CHOOSE g : Sums(f, g, t))
             G1   == [t \in SUBSET s |-> G(t)[t]]
             H    == [t \in SUBSET s |-> SumStep(f, G1, t)]
  <1>5. ASSUME NEW t \in SUBSET s, t # s PROVE Sums(f, G(t), t) /\ IsFiniteSet(t)
    <2>1. t \in SUBSET S /\ t \notin X
      BY <1>3, <1>4, <1>5
    <2>2. \E g : Sums(f, g, t)
      BY <2>1
    <2>3. Sums(f, G(t), t)
      BY <2>2
    <2>4. IsFiniteSet(t)
      BY <1>4, FS_Subset
    <2> QED
      BY <2>3, <2>4
  <1>6. ASSUME NEW t \in SUBSET s, t # s PROVE H[t] = G(t)[t]
    <2>1. G(t)[t] = SumStep(f, G(t), t)
      BY <1>5, <1>6, SumsAt
    <2>2. H[t] = SumStep(f, G1, t)
      OBVIOUS
    <2>3. CASE t = {}
      BY <2>1, <2>2, <2>3 DEF SumStep
    <2>4. CASE t # {}
      <3> DEFINE u == t \ {Chosen(t)}
      <3>1. Chosen(t) \in t
        BY <2>4, ChosenIsIn
      <3>2. u \in SUBSET s /\ u # s /\ u \subseteq t /\ u \subseteq u
        BY <3>1
      <3>3. Sums(f, G(u), u) /\ IsFiniteSet(u) /\ Sums(f, G(t), t)
        BY <3>2, <1>5, <1>6
      <3>4. G1[u] = G(u)[u]
        BY <3>2
      <3> HIDE DEF G, G1, u
      <3>5. G(t)[u] = G(u)[u]
        BY <3>2, <3>3, SumsAgree
      <3>6. SumStep(f, G1, t) = f[Chosen(t)] + G1[u] /\ SumStep(f, G(t), t) = f[Chosen(t)] + G(t)[u]
        BY <2>4 DEF SumStep, u
      <3> QED
        BY <2>1, <2>2, <3>4, <3>5, <3>6
    <2> QED
      BY <2>3, <2>4
  <1>7. ASSUME NEW t \in SUBSET s PROVE H[t] = SumStep(f, H, t)
    <2>1. H[t] = SumStep(f, G1, t)
      OBVIOUS
    <2>2. CASE t = {}
      BY <2>1, <2>2 DEF SumStep
    <2>3. CASE t # {}
      <3> DEFINE u == t \ {Chosen(t)}
      <3>1. Chosen(t) \in t
        BY <2>3, ChosenIsIn
      <3>2. u \in SUBSET s /\ u # s
        BY <3>1
      <3>3. H[u] = G(u)[u] /\ G1[u] = G(u)[u]
        BY <3>2, <1>6
      <3> HIDE DEF H, G, G1
      <3> QED
        BY <2>1, <2>3, <3>3 DEF SumStep
    <2> QED
      BY <2>2, <2>3
  <1>8. Sums(f, H, s)
    <2>1. H = [t \in SUBSET s |-> H[t]]
      OBVIOUS
    <2> HIDE DEF H
    <2>2. [t \in SUBSET s |-> H[t]] = [t \in SUBSET s |-> SumStep(f, H, t)]
      BY <1>7
    <2> QED
      BY <2>1, <2>2 DEF Sums
  <1> QED
    BY <1>4, <1>8

LEMMA SumsChosen ==
    ASSUME NEW f, NEW S, IsFiniteSet(S)
    PROVE  \E g : Sums(f, g, S) /\ g[S] = SumFunctionOnSet(f, S)
  <1> DEFINE g == CHOOSE g : Sums(f, g, S)
  <1>1. Sums(f, g, S)
    BY SumsExist
  <1>2. g[S] = SumFunctionOnSet(f, S)
    BY SumIsChosen
  <1> QED
    BY <1>1, <1>2

LEMMA SumOfNone ==
    ASSUME NEW f
    PROVE  SumFunctionOnSet(f, {}) = 0
  <1>1. IsFiniteSet({})
    BY FS_EmptySet
  <1>2. PICK g : Sums(f, g, {}) /\ g[{}] = SumFunctionOnSet(f, {})
    BY <1>1, SumsChosen
  <1>3. g[{}] = SumStep(f, g, {})
    BY <1>2, SumsAt
  <1> QED
    BY <1>2, <1>3 DEF SumStep

LEMMA SumOfChosen ==
    ASSUME NEW f, NEW S, IsFiniteSet(S), S # {}
    PROVE  SumFunctionOnSet(f, S) = f[Chosen(S)] + SumFunctionOnSet(f, S \ {Chosen(S)})
  <1> DEFINE u == S \ {Chosen(S)}
  <1>1. IsFiniteSet(u) /\ u \subseteq S
    BY FS_Subset
  <1>2. PICK g : Sums(f, g, S) /\ g[S] = SumFunctionOnSet(f, S)
    BY SumsChosen
  <1>3. PICK h : Sums(f, h, u) /\ h[u] = SumFunctionOnSet(f, u)
    BY <1>1, SumsChosen
  <1>4. g[u] = h[u]
    <2> HIDE DEF u
    <2> QED
      BY <1>1, <1>2, <1>3, SumsAgree
  <1>5. g[S] = SumStep(f, g, S)
    BY <1>2, SumsAt
  <1> QED
    BY <1>2, <1>3, <1>4, <1>5 DEF SumStep

-----------------------------------------------------------------------------
(* What sums of integers do                                                 *)

IntOn(f, S) == \A i \in S : f[i] \in Int

(* A smallest subset that fails, if S does.                                 *)
LEMMA SmallestFailing ==
    ASSUME NEW S, IsFiniteSet(S), NEW Good, S \notin Good
    PROVE  \E s \in SUBSET S : /\ s \notin Good
                              /\ IsFiniteSet(s)
                              /\ \A t \in SUBSET s : t # s => t \in Good
  <1> DEFINE X == {s \in SUBSET S : s \notin Good}
  <1>1. X # {}
    <2>1. S \in SUBSET S
      OBVIOUS
    <2> QED
      BY <2>1
  <1>2. \A s \in X : IsFiniteSet(s)
    BY FS_Subset
  <1>3. PICK s \in X : \A t \in X : t \subseteq s => t = s
    <2> HIDE DEF X
    <2> QED
      BY <1>1, <1>2, SmallestSet
  <1>4. \A t \in SUBSET s : t # s => t \in Good
    BY <1>3
  <1> QED
    BY <1>2, <1>4

LEMMA SumIsInt ==
    ASSUME NEW f, NEW S, IsFiniteSet(S), IntOn(f, S)
    PROVE  SumFunctionOnSet(f, S) \in Int
  <1> DEFINE Good == {s \in SUBSET S : SumFunctionOnSet(f, s) \in Int}
  <1>1. SUFFICES ASSUME S \notin Good PROVE FALSE
    BY <1>1
  <1>2. PICK s \in SUBSET S : /\ s \notin Good
                              /\ IsFiniteSet(s)
                              /\ \A t \in SUBSET s : t # s => t \in Good
    <2> HIDE DEF Good
    <2> QED
      BY <1>1, SmallestFailing
  <1>3. s # {}
    <2>1. {} \in Good
      BY SumOfNone
    <2> HIDE DEF Good
    <2> QED
      BY <1>2, <2>1
  <1> DEFINE t == s \ {Chosen(s)}
  <1>4. Chosen(s) \in s
    BY <1>3, ChosenIsIn
  <1>5. SumFunctionOnSet(f, t) \in Int
    BY <1>2, <1>4
  <1>6. f[Chosen(s)] \in Int
    BY <1>4 DEF IntOn
  <1>7. SumFunctionOnSet(f, s) = f[Chosen(s)] + SumFunctionOnSet(f, t)
    BY <1>2, <1>3, SumOfChosen
  <1> QED
    BY <1>2, <1>5, <1>6, <1>7

(* It does not matter which element is taken out.                           *)
LEMMA SumWithout ==
    ASSUME NEW f, NEW S, IsFiniteSet(S), IntOn(f, S), NEW x \in S
    PROVE  SumFunctionOnSet(f, S) = f[x] + SumFunctionOnSet(f, S \ {x})
  <1> DEFINE Good == {s \in SUBSET S : \A y \in s :
                        SumFunctionOnSet(f, s) = f[y] + SumFunctionOnSet(f, s \ {y})}
  <1>1. SUFFICES ASSUME S \notin Good PROVE FALSE
    BY <1>1
  <1>2. PICK s \in SUBSET S : /\ s \notin Good
                              /\ IsFiniteSet(s)
                              /\ \A t \in SUBSET s : t # s => t \in Good
    <2> HIDE DEF Good
    <2> QED
      BY <1>1, SmallestFailing
  <1>3. PICK y \in s : SumFunctionOnSet(f, s) # f[y] + SumFunctionOnSet(f, s \ {y})
    BY <1>2
  <1> DEFINE c == Chosen(s)
             u == s \ {c}
             v == s \ {y}
             w == u \ {y}
  <1>4. c \in s
    BY ChosenIsIn
  <1>5. SumFunctionOnSet(f, s) = f[c] + SumFunctionOnSet(f, u)
    BY <1>2, SumOfChosen
  <1>6. y # c
    BY <1>3, <1>5
  <1>7. SumFunctionOnSet(f, u) = f[y] + SumFunctionOnSet(f, w)
    <2>1. u \in Good /\ y \in u
      BY <1>2, <1>4, <1>6
    <2> QED
      BY <2>1
  <1>8. SumFunctionOnSet(f, v) = f[c] + SumFunctionOnSet(f, w)
    <2>1. v \in Good /\ c \in v /\ v \ {c} = w
      BY <1>2, <1>4, <1>6
    <2> HIDE DEF c, w
    <2> QED
      BY <2>1
  <1>9. IsFiniteSet(w) /\ IntOn(f, w) /\ f[c] \in Int /\ f[y] \in Int
    BY <1>2, <1>4, FS_Subset DEF IntOn
  <1>10. SumFunctionOnSet(f, w) \in Int
    BY <1>9, SumIsInt
  <1> HIDE DEF c, u, v, w
  <1> QED
    BY <1>3, <1>5, <1>7, <1>8, <1>9, <1>10 DEF v

(* Nothing but the values at the elements matters.                          *)
LEMMA SameSum ==
    ASSUME NEW f, NEW g, NEW S, IsFiniteSet(S), \A i \in S : f[i] = g[i]
    PROVE  SumFunctionOnSet(f, S) = SumFunctionOnSet(g, S)
  <1> DEFINE Good == {s \in SUBSET S : SumFunctionOnSet(f, s) = SumFunctionOnSet(g, s)}
  <1>1. SUFFICES ASSUME S \notin Good PROVE FALSE
    BY <1>1
  <1>2. PICK s \in SUBSET S : /\ s \notin Good
                              /\ IsFiniteSet(s)
                              /\ \A t \in SUBSET s : t # s => t \in Good
    <2> HIDE DEF Good
    <2> QED
      BY <1>1, SmallestFailing
  <1>3. s # {}
    <2>1. {} \in Good
      BY SumOfNone
    <2> HIDE DEF Good
    <2> QED
      BY <1>2, <2>1
  <1> DEFINE c == Chosen(s)
             u == s \ {c}
  <1>4. c \in s /\ f[c] = g[c]
    BY <1>3, ChosenIsIn
  <1>5. SumFunctionOnSet(f, u) = SumFunctionOnSet(g, u)
    BY <1>2, <1>4
  <1>6. /\ SumFunctionOnSet(f, s) = f[c] + SumFunctionOnSet(f, u)
        /\ SumFunctionOnSet(g, s) = g[c] + SumFunctionOnSet(g, u)
    BY <1>2, <1>3, SumOfChosen
  <1> QED
    BY <1>2, <1>4, <1>5, <1>6

LEMMA SumOfOne ==
    ASSUME NEW f, NEW x, f[x] \in Int
    PROVE  SumFunctionOnSet(f, {x}) = f[x]
  <1>1. IsFiniteSet({x}) /\ IntOn(f, {x})
    BY FS_Singleton DEF IntOn
  <1>2. {x} \ {x} = {}
    OBVIOUS
  <1>3. SumFunctionOnSet(f, {x}) = f[x] + SumFunctionOnSet(f, {})
    BY <1>1, <1>2, SumWithout
  <1> QED
    BY <1>3, SumOfNone

LEMMA SumIsLeq ==
    ASSUME NEW f, NEW g, NEW S, IsFiniteSet(S), IntOn(f, S), IntOn(g, S),
           \A i \in S : f[i] <= g[i]
    PROVE  SumFunctionOnSet(f, S) <= SumFunctionOnSet(g, S)
  <1> DEFINE Good == {s \in SUBSET S : SumFunctionOnSet(f, s) <= SumFunctionOnSet(g, s)}
  <1>1. SUFFICES ASSUME S \notin Good PROVE FALSE
    BY <1>1
  <1>2. PICK s \in SUBSET S : /\ s \notin Good
                              /\ IsFiniteSet(s)
                              /\ \A t \in SUBSET s : t # s => t \in Good
    <2> HIDE DEF Good
    <2> QED
      BY <1>1, SmallestFailing
  <1>3. s # {}
    <2>1. {} \in Good
      BY SumOfNone
    <2> HIDE DEF Good
    <2> QED
      BY <1>2, <2>1
  <1> DEFINE c == Chosen(s)
             u == s \ {c}
  <1>4. c \in s /\ f[c] <= g[c] /\ f[c] \in Int /\ g[c] \in Int
    BY <1>3, ChosenIsIn DEF IntOn
  <1>5. SumFunctionOnSet(f, u) <= SumFunctionOnSet(g, u)
    BY <1>2, <1>4
  <1>6. /\ SumFunctionOnSet(f, s) = f[c] + SumFunctionOnSet(f, u)
        /\ SumFunctionOnSet(g, s) = g[c] + SumFunctionOnSet(g, u)
    BY <1>2, <1>3, SumOfChosen
  <1>7. IsFiniteSet(u) /\ IntOn(f, u) /\ IntOn(g, u)
    BY <1>2, FS_Subset DEF IntOn
  <1>8. SumFunctionOnSet(f, u) \in Int /\ SumFunctionOnSet(g, u) \in Int
    BY <1>7, SumIsInt
  <1>9. ~ (SumFunctionOnSet(f, s) <= SumFunctionOnSet(g, s))
    BY <1>2
  <1> HIDE DEF c, u, Good
  <1> QED
    BY <1>4, <1>5, <1>6, <1>8, <1>9

LEMMA SumIsNat ==
    ASSUME NEW f, NEW S, IsFiniteSet(S), \A i \in S : f[i] \in Nat
    PROVE  SumFunctionOnSet(f, S) \in Nat
  <1> DEFINE Good == {s \in SUBSET S : SumFunctionOnSet(f, s) \in Nat}
  <1>1. SUFFICES ASSUME S \notin Good PROVE FALSE
    BY <1>1
  <1>2. PICK s \in SUBSET S : /\ s \notin Good
                              /\ IsFiniteSet(s)
                              /\ \A t \in SUBSET s : t # s => t \in Good
    <2> HIDE DEF Good
    <2> QED
      BY <1>1, SmallestFailing
  <1>3. s # {}
    <2>1. {} \in Good
      BY SumOfNone
    <2> HIDE DEF Good
    <2> QED
      BY <1>2, <2>1
  <1> DEFINE t == s \ {Chosen(s)}
  <1>4. Chosen(s) \in s
    BY <1>3, ChosenIsIn
  <1>5. SumFunctionOnSet(f, t) \in Nat
    BY <1>2, <1>4
  <1>6. f[Chosen(s)] \in Nat
    BY <1>4
  <1>7. SumFunctionOnSet(f, s) = f[Chosen(s)] + SumFunctionOnSet(f, t)
    BY <1>2, <1>3, SumOfChosen
  <1> QED
    BY <1>2, <1>5, <1>6, <1>7

(* Two functions are summed as one.                                         *)
LEMMA SumOfSums ==
    ASSUME NEW f, NEW g, NEW h, NEW S, IsFiniteSet(S), IntOn(f, S), IntOn(g, S),
           \A i \in S : h[i] = f[i] + g[i]
    PROVE  SumFunctionOnSet(h, S) = SumFunctionOnSet(f, S) + SumFunctionOnSet(g, S)
  <1> DEFINE Good == {s \in SUBSET S :
                        SumFunctionOnSet(h, s) = SumFunctionOnSet(f, s) + SumFunctionOnSet(g, s)}
  <1>1. SUFFICES ASSUME S \notin Good PROVE FALSE
    BY <1>1
  <1>2. PICK s \in SUBSET S : /\ s \notin Good
                              /\ IsFiniteSet(s)
                              /\ \A t \in SUBSET s : t # s => t \in Good
    <2> HIDE DEF Good
    <2> QED
      BY <1>1, SmallestFailing
  <1>3. s # {}
    <2>1. {} \in Good
      BY SumOfNone
    <2> HIDE DEF Good
    <2> QED
      BY <1>2, <2>1
  <1> DEFINE c == Chosen(s)
             u == s \ {c}
  <1>4. c \in s /\ h[c] = f[c] + g[c] /\ f[c] \in Int /\ g[c] \in Int
    BY <1>3, ChosenIsIn DEF IntOn
  <1>5. SumFunctionOnSet(h, u) = SumFunctionOnSet(f, u) + SumFunctionOnSet(g, u)
    BY <1>2, <1>4
  <1>6. /\ SumFunctionOnSet(f, s) = f[c] + SumFunctionOnSet(f, u)
        /\ SumFunctionOnSet(g, s) = g[c] + SumFunctionOnSet(g, u)
        /\ SumFunctionOnSet(h, s) = h[c] + SumFunctionOnSet(h, u)
    BY <1>2, <1>3, SumOfChosen
  <1>7. IsFiniteSet(u) /\ IntOn(f, u) /\ IntOn(g, u)
    BY <1>2, FS_Subset DEF IntOn
  <1>8. SumFunctionOnSet(f, u) \in Int /\ SumFunctionOnSet(g, u) \in Int
    BY <1>7, SumIsInt
  <1>9. SumFunctionOnSet(h, s) # SumFunctionOnSet(f, s) + SumFunctionOnSet(g, s)
    BY <1>2
  <1> HIDE DEF c, u, Good
  <1> QED
    BY <1>4, <1>5, <1>6, <1>8, <1>9

(* All but one of the summands are zero.                                    *)
LEMMA SumOfTheOne ==
    ASSUME NEW f, NEW S, IsFiniteSet(S), NEW x \in S, f[x] \in Int,
           \A y \in S : y # x => f[y] = 0
    PROVE  SumFunctionOnSet(f, S) = f[x]
  <1> DEFINE R == S \ {x}
  <1>1. IsFiniteSet(R) /\ IntOn(f, R) /\ IntOn(f, S)
    BY FS_Subset DEF IntOn
  <1>2. \A y \in R : f[y] = f[y] + f[y]
    OBVIOUS
  <1>3. SumFunctionOnSet(f, S) = f[x] + SumFunctionOnSet(f, R)
    BY <1>1, SumWithout
  <1> HIDE DEF R
  <1>4. SumFunctionOnSet(f, R) = SumFunctionOnSet(f, R) + SumFunctionOnSet(f, R)
    BY <1>1, <1>2, SumOfSums
  <1>5. SumFunctionOnSet(f, R) \in Int
    BY <1>1, SumIsInt
  <1> QED
    BY <1>3, <1>4, <1>5, SMTT(30)

LEMMA SumOfUnion ==
    ASSUME NEW f, NEW A, NEW B, IsFiniteSet(A), IsFiniteSet(B), A \cap B = {},
           IntOn(f, A), IntOn(f, B)
    PROVE  SumFunctionOnSet(f, A \cup B) = SumFunctionOnSet(f, A) + SumFunctionOnSet(f, B)
  <1> DEFINE Good == {s \in SUBSET A :
                 SumFunctionOnSet(f, s \cup B) = SumFunctionOnSet(f, s) + SumFunctionOnSet(f, B)}
  <1>1. SUFFICES ASSUME A \notin Good PROVE FALSE
    BY <1>1
  <1>2. PICK s \in SUBSET A : /\ s \notin Good
                              /\ IsFiniteSet(s)
                              /\ \A t \in SUBSET s : t # s => t \in Good
    <2> HIDE DEF Good
    <2> QED
      BY <1>1, SmallestFailing
  <1>3. SumFunctionOnSet(f, B) \in Int
    BY SumIsInt
  <1>4. s # {}
    <2>1. {} \cup B = B
      OBVIOUS
    <2>2. 0 + SumFunctionOnSet(f, B) = SumFunctionOnSet(f, B)
      BY <1>3
    <2>3. {} \in Good
      BY <2>1, <2>2, SumOfNone
    <2> HIDE DEF Good
    <2> QED
      BY <1>2, <2>3
  <1>5. PICK c : c \in s
    BY <1>4
  <1> DEFINE u == s \ {c}
  <1>6. f[c] \in Int /\ IntOn(f, s) /\ IntOn(f, s \cup B) /\ IntOn(f, u)
    BY <1>5 DEF IntOn
  <1>7. IsFiniteSet(s \cup B) /\ IsFiniteSet(u)
    BY <1>2, FS_Union, FS_Subset
  <1>8. (s \cup B) \ {c} = u \cup B /\ c \in s \cup B
    BY <1>5
  <1>9. /\ SumFunctionOnSet(f, s) = f[c] + SumFunctionOnSet(f, u)
        /\ SumFunctionOnSet(f, s \cup B) = f[c] + SumFunctionOnSet(f, u \cup B)
    BY <1>2, <1>5, <1>6, <1>7, <1>8, SumWithout
  <1>10. SumFunctionOnSet(f, u \cup B) = SumFunctionOnSet(f, u) + SumFunctionOnSet(f, B)
    BY <1>2, <1>5
  <1>11. SumFunctionOnSet(f, u) \in Int
    BY <1>6, <1>7, SumIsInt
  <1>12. SumFunctionOnSet(f, s \cup B) # SumFunctionOnSet(f, s) + SumFunctionOnSet(f, B)
    BY <1>2
  <1> HIDE DEF u, Good
  <1> QED
    BY <1>3, <1>6, <1>9, <1>10, <1>11, <1>12

-----------------------------------------------------------------------------
(* Sums of sums, and sums in another order                                  *)

(* A set is summed part by part.  p gives the part of each d \in D.         *)
LEMMA SumByParts ==
    ASSUME NEW f, NEW h, NEW p, NEW D, IsFiniteSet(D),
           \A d \in D : IsFiniteSet(p[d]) /\ IntOn(f, p[d]) /\ h[d] = SumFunctionOnSet(f, p[d]),
           \A d, e \in D : d # e => p[d] \cap p[e] = {}
    PROVE  SumFunctionOnSet(f, UNION {p[d] : d \in D}) = SumFunctionOnSet(h, D)
  <1> DEFINE U(s) == UNION {p[d] : d \in s}
             Good == {s \in SUBSET D : /\ IsFiniteSet(U(s))
                                       /\ SumFunctionOnSet(f, U(s)) = SumFunctionOnSet(h, s)}
  <1>1. SUFFICES ASSUME D \notin Good PROVE FALSE
    BY <1>1
  <1>2. PICK s \in SUBSET D : /\ s \notin Good
                              /\ IsFiniteSet(s)
                              /\ \A t \in SUBSET s : t # s => t \in Good
    <2> HIDE DEF Good
    <2> QED
      BY <1>1, SmallestFailing
  <1>3. s # {}
    <2>1. U({}) = {}
      OBVIOUS
    <2> QED
      BY <2>1, <1>2, SumOfNone, FS_EmptySet
  <1>4. PICK c : c \in s
    BY <1>3
  <1> DEFINE u == s \ {c}
  <1>5. IsFiniteSet(p[c]) /\ IntOn(f, p[c]) /\ h[c] = SumFunctionOnSet(f, p[c])
    BY <1>4
  <1>6. U(s) = p[c] \cup U(u)
    BY <1>4
  <1>7. p[c] \cap U(u) = {}
    BY <1>4
  <1>8. IsFiniteSet(U(u)) /\ SumFunctionOnSet(f, U(u)) = SumFunctionOnSet(h, u)
    BY <1>2, <1>4
  <1>9. IntOn(f, U(u))
    BY DEF IntOn
  <1>10. SumFunctionOnSet(f, U(s)) = SumFunctionOnSet(f, p[c]) + SumFunctionOnSet(f, U(u))
    <2> DEFINE V == U(u)
               W == U(s)
    <2>1. W = p[c] \cup V /\ p[c] \cap V = {} /\ IsFiniteSet(V) /\ IntOn(f, V)
      BY <1>6, <1>7, <1>8, <1>9
    <2> HIDE DEF V, W
    <2>2. SumFunctionOnSet(f, W) = SumFunctionOnSet(f, p[c]) + SumFunctionOnSet(f, V)
      BY <1>5, <2>1, SumOfUnion
    <2> QED
      BY <2>2 DEF V, W
  <1>11. IntOn(h, s)
    BY SumIsInt DEF IntOn
  <1>12. SumFunctionOnSet(h, s) = h[c] + SumFunctionOnSet(h, u)
    BY <1>2, <1>4, <1>11, SumWithout
  <1>13. IsFiniteSet(U(s))
    <2> DEFINE V == U(u)
    <2>1. U(s) = p[c] \cup V /\ IsFiniteSet(V)
      BY <1>6, <1>8
    <2> HIDE DEF V
    <2>2. IsFiniteSet(p[c] \cup V)
      BY <1>5, <2>1, FS_Union
    <2> QED
      BY <2>1, <2>2
  <1> QED
    BY <1>2, <1>5, <1>8, <1>10, <1>12, <1>13

(* b takes the elements of A one to one to those of B.                      *)
LEMMA SumElsewhere ==
    ASSUME NEW f, NEW g, NEW b, NEW A, IsFiniteSet(A), IntOn(g, A),
           \A i \in A : f[b[i]] = g[i],
           \A i, j \in A : b[i] = b[j] => i = j
    PROVE  SumFunctionOnSet(f, {b[i] : i \in A}) = SumFunctionOnSet(g, A)
  <1> DEFINE p == [i \in A |-> {b[i]}]
  <1>1. \A i \in A : IsFiniteSet(p[i]) /\ IntOn(f, p[i]) /\ g[i] = SumFunctionOnSet(f, p[i])
    <2> SUFFICES ASSUME NEW i \in A
                 PROVE  IsFiniteSet(p[i]) /\ IntOn(f, p[i]) /\ g[i] = SumFunctionOnSet(f, p[i])
      OBVIOUS
    <2>1. p[i] = {b[i]} /\ f[b[i]] = g[i] /\ f[b[i]] \in Int
      BY DEF IntOn
    <2>2. SumFunctionOnSet(f, {b[i]}) = f[b[i]]
      BY <2>1, SumOfOne
    <2> QED
      BY <2>1, <2>2, FS_Singleton DEF IntOn
  <1>2. \A i, j \in A : i # j => p[i] \cap p[j] = {}
    OBVIOUS
  <1>3. UNION {p[i] : i \in A} = {b[i] : i \in A}
    OBVIOUS
  <1> HIDE DEF p
  <1>4. SumFunctionOnSet(f, UNION {p[i] : i \in A}) = SumFunctionOnSet(g, A)
    BY <1>1, <1>2, SumByParts
  <1> QED
    BY <1>3, <1>4
=============================================================================
