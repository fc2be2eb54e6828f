-------------------------- MODULE OptimizerProofs --------------------------
(***************************************************************************)
(* Proofs about the allocation optimizer and the lists it and the other    *)
(* services read page by page: sums over finite sets, then Allocator, for  *)
(* any candidates, inputs, chunks and passes, OptimizerRun, for any        *)
(* deployments, lists and limits and whatever reads fail or answer in      *)
(* part, and Pages, for any table, page size and cap and whatever rows     *)
(* come and go between two pages.                                          *)
(*                                                                         *)
(* The library's induction theorems take an operator as a parameter, which *)
(* the provers cannot instantiate: what is proved by induction here is     *)
(* proved of a minimal counterexample (MinimalSet).                        *)
(***************************************************************************)
EXTENDS Allocator, OptimizerRun, Pages, FiniteSetTheorems, WellFoundedInduction, TLAPS

(* A short name, that proofs may keep closed. *)
Sum(f, S) == SumFunctionOnSet(f, S)

(* it[s] is the sum over s as SumFunctionOnSet takes it apart. *)
Iterates(it, f, S) ==
  it = [s \in SUBSET S |->
          IF s = {} THEN 0
          ELSE f[CHOOSE x \in s : TRUE] + it[s \ {CHOOSE x \in s : TRUE}]]

Iter(f, S) == CHOOSE it : Iterates(it, f, S)

LEMMA SumIsIter ==
  ASSUME NEW f, NEW S
  PROVE  SumFunctionOnSet(f, S) = Iter(f, S)[S]
BY DEF SumFunctionOnSet, FoldFunctionOnSet, MapThenFoldSet, Iter, Iterates

(* Induction over finite sets, as the existence of a minimal member. *)
LEMMA MinimalSet ==
  ASSUME NEW Dom, IsFiniteSet(Dom), NEW T, T \subseteq SUBSET Dom, T # {}
  PROVE  \E s \in T : \A t \in T : t \subseteq s => t = s
<1>1. T \subseteq FiniteSubsetsOf(Dom)
  BY FS_Subset DEF FiniteSubsetsOf
<1>2. IsWellFoundedOn(StrictSubsetOrdering(Dom), FiniteSubsetsOf(Dom))
  BY FS_StrictSubsetOrderingWellFounded
<1>3. PICK s \in T : \A t \in T : <<t, s>> \notin StrictSubsetOrdering(Dom)
  BY <1>1, <1>2, WFMin
<1>4. \A t \in T : t \subseteq s /\ t # s => <<t, s>> \in StrictSubsetOrdering(Dom)
  BY DEF StrictSubsetOrdering
<1>5. \A t \in T : t \subseteq s => t = s
  BY <1>3, <1>4
<1> QED
  BY <1>5

LEMMA IterUnique ==
  ASSUME NEW Dom, IsFiniteSet(Dom), NEW f, NEW g, NEW h, NEW E, Dom \subseteq E,
         Iterates(g, f, Dom), Iterates(h, f, E)
  PROVE  \A s \in SUBSET Dom : g[s] = h[s]
<1> DEFINE T == {s \in SUBSET Dom : g[s] # h[s]}
<1>1. SUFFICES ASSUME T # {} PROVE FALSE
  OBVIOUS
<1>2. T \subseteq SUBSET Dom
  OBVIOUS
<1>3. PICK s \in T : \A t \in T : t \subseteq s => t = s
  <2> HIDE DEF T
  <2> QED
    BY <1>1, <1>2, MinimalSet
<1> DEFINE x == CHOOSE x \in s : TRUE
<1>4. s \in SUBSET Dom /\ s \in SUBSET E /\ g[s] # h[s]
  OBVIOUS
<1>5. /\ g[s] = IF s = {} THEN 0 ELSE f[x] + g[s \ {x}]
      /\ h[s] = IF s = {} THEN 0 ELSE f[x] + h[s \ {x}]
  BY <1>4 DEF Iterates
<1>6. s # {} /\ x \in s
  BY <1>4, <1>5
<1>7. s \ {x} \in SUBSET Dom /\ s \ {x} # s /\ s \ {x} \subseteq s
  BY <1>4, <1>6
<1>8. s \ {x} \notin T
  BY <1>3, <1>7
<1>9. g[s \ {x}] = h[s \ {x}]
  BY <1>7, <1>8
<1> HIDE DEF x, T
<1> QED
  BY <1>4, <1>5, <1>9

LEMMA IterExists ==
  ASSUME NEW Dom, IsFiniteSet(Dom), NEW f
  PROVE  Iterates(Iter(f, Dom), f, Dom)
<1> DEFINE T == {s \in SUBSET Dom : ~Iterates(Iter(f, s), f, s)}
<1>1. SUFFICES ASSUME T # {} PROVE FALSE
  OBVIOUS
<1>2. T \subseteq SUBSET Dom
  OBVIOUS
<1>3. PICK s \in T : \A t \in T : t \subseteq s => t = s
  <2> HIDE DEF T
  <2> QED
    BY <1>1, <1>2, MinimalSet
<1>4. s \in SUBSET Dom /\ IsFiniteSet(s)
  BY FS_Subset
<1>5. \A t \in SUBSET s : t # s => Iterates(Iter(f, t), f, t)
  BY <1>3, <1>4
<1> DEFINE c(t) == CHOOSE x \in t : TRUE
           rest(t) == t \ {c(t)}
           val(t) == IF t = s THEN IF s = {} THEN 0 ELSE f[c(s)] + Iter(f, rest(s))[rest(s)]
                     ELSE Iter(f, t)[t]
           h == [t \in SUBSET s |-> val(t)]
<1>6. \A t \in SUBSET s : t # {} => c(t) \in t /\ rest(t) \in SUBSET t /\ rest(t) # t /\ rest(t) \in SUBSET s /\ rest(t) # s
  OBVIOUS
<1>7. ASSUME NEW t \in SUBSET s
      PROVE  h[t] = IF t = {} THEN 0 ELSE f[c(t)] + h[rest(t)]
  <2>1. CASE t = {} 
    <3>1. CASE s = {}
      BY <2>1, <3>1
    <3>2. CASE s # {}
      <4>1. Iterates(Iter(f, t), f, t)
        BY <1>5, <2>1, <3>2
      <4>2. Iter(f, t)[t] = 0
        BY <2>1, <4>1 DEF Iterates
      <4> QED
        BY <2>1, <3>2, <4>2
    <3> QED
      BY <3>1, <3>2
  <2>2. CASE t # {} /\ t = s
    <3>1. h[t] = f[c(s)] + Iter(f, rest(s))[rest(s)]
      BY <2>2
    <3>2. h[rest(t)] = Iter(f, rest(s))[rest(s)]
      BY <2>2, <1>6
    <3> QED
      BY <2>2, <3>1, <3>2
  <2>3. CASE t # {} /\ t # s
    <3>1. Iterates(Iter(f, t), f, t) /\ Iterates(Iter(f, rest(t)), f, rest(t))
      BY <1>5, <1>6, <2>3
    <3>2. IsFiniteSet(rest(t))
      BY <1>4, <1>6, <2>3, FS_Subset
    <3>3. Iter(f, rest(t))[rest(t)] = Iter(f, t)[rest(t)]
      <4>1. \A u \in SUBSET rest(t) : Iter(f, rest(t))[u] = Iter(f, t)[u]
        <5> HIDE DEF rest, c, val, h
        <5> QED
          BY <1>6, <2>3, <3>1, <3>2, IterUnique
      <4> QED
        BY <4>1
    <3>4. Iter(f, t)[t] = f[c(t)] + Iter(f, t)[rest(t)]
      BY <2>3, <3>1 DEF Iterates
    <3>5. h[t] = Iter(f, t)[t] /\ h[rest(t)] = Iter(f, rest(t))[rest(t)]
      BY <1>6, <2>3
    <3> HIDE DEF h, c, rest, val
    <3> QED
      BY <2>3, <3>3, <3>4, <3>5
  <2> QED
    BY <2>1, <2>2, <2>3
<1>8. Iterates(h, f, s)
  <2>1. h = [t \in SUBSET s |-> h[t]]
    OBVIOUS
  <2> HIDE DEF h
  <2> QED
    BY <2>1, <1>7 DEF Iterates
<1>9. Iterates(Iter(f, s), f, s)
  <2> HIDE DEF h
  <2> QED
    BY <1>8 DEF Iter
<1> QED
  BY <1>9

(* The sum over a finite set, taken apart at the element it chooses. *)
LEMMA SumChosen ==
  ASSUME NEW f, NEW S, IsFiniteSet(S)
  PROVE  SumFunctionOnSet(f, S) =
           IF S = {} THEN 0
           ELSE f[CHOOSE x \in S : TRUE] + SumFunctionOnSet(f, S \ {CHOOSE x \in S : TRUE})
<1> DEFINE x == CHOOSE x \in S : TRUE
<1>1. Iterates(Iter(f, S), f, S)
  BY IterExists
<1>2. Iter(f, S)[S] = IF S = {} THEN 0 ELSE f[x] + Iter(f, S)[S \ {x}]
  BY <1>1 DEF Iterates
<1>3. IsFiniteSet(S \ {x}) /\ S \ {x} \subseteq S
  BY FS_Subset
<1>4. Iterates(Iter(f, S \ {x}), f, S \ {x})
  BY <1>3, IterExists
<1>5. \A u \in SUBSET (S \ {x}) : Iter(f, S \ {x})[u] = Iter(f, S)[u]
  <2> HIDE DEF x
  <2> QED
    BY <1>1, <1>3, <1>4, IterUnique
<1>6. Iter(f, S \ {x})[S \ {x}] = Iter(f, S)[S \ {x}]
  BY <1>5
<1> HIDE DEF x
<1>7. SumFunctionOnSet(f, S) = IF S = {} THEN 0 ELSE f[x] + SumFunctionOnSet(f, S \ {x})
  BY <1>2, <1>6, SumIsIter
<1> QED
  BY <1>7 DEF x

(* ... and at any element: the order does not matter. *)
LEMMA SumStep ==
  ASSUME NEW f, NEW Dom, IsFiniteSet(Dom), \A x \in Dom : f[x] \in Int
  PROVE  \A S \in SUBSET Dom : /\ SumFunctionOnSet(f, S) \in Int
                             /\ \A x \in S : SumFunctionOnSet(f, S) = f[x] + SumFunctionOnSet(f, S \ {x})
<1> DEFINE Good(S) == /\ Sum(f, S) \in Int
                      /\ \A x \in S : Sum(f, S) = f[x] + Sum(f, S \ {x})
           T == {S \in SUBSET Dom : ~Good(S)}
<1>1. SUFFICES ASSUME T # {} PROVE FALSE
  BY DEF Sum
<1>2. T \subseteq SUBSET Dom
  OBVIOUS
<1>3. PICK S \in T : \A t \in T : t \subseteq S => t = S
  <2> HIDE DEF T
  <2> QED
    BY <1>1, <1>2, MinimalSet
<1>4. S \in SUBSET Dom /\ IsFiniteSet(S) /\ ~Good(S)
  BY FS_Subset
<1>5. \A t \in SUBSET S : t # S => Good(t)
  BY <1>3, <1>4
<1> HIDE DEF T
<1> DEFINE y == CHOOSE x \in S : TRUE
<1>6. Sum(f, S) = IF S = {} THEN 0 ELSE f[y] + Sum(f, S \ {y})
  BY <1>4, SumChosen DEF Sum
<1>7. CASE S = {}
  BY <1>4, <1>6, <1>7
<1>8. CASE S # {}
  <2>1. y \in S /\ f[y] \in Int
    BY <1>4, <1>8
  <2> HIDE DEF y
  <2>2. S \ {y} \in SUBSET S /\ S \ {y} # S
    BY <2>1
  <2>3. Sum(f, S \ {y}) \in Int
    BY <2>2, <1>5
  <2>4. ASSUME NEW x \in S, x # y
        PROVE  Sum(f, S) = f[x] + Sum(f, S \ {x})
    <3>1. x \in S \ {y} /\ y \in S \ {x} /\ S \ {x} \in SUBSET S /\ S \ {x} # S
      BY <2>1, <2>4
    <3>2. Sum(f, S \ {y}) = f[x] + Sum(f, (S \ {y}) \ {x})
      BY <1>5, <2>2, <3>1
    <3>3. Sum(f, S \ {x}) = f[y] + Sum(f, (S \ {x}) \ {y})
      BY <1>5, <3>1
    <3>4. (S \ {x}) \ {y} = (S \ {y}) \ {x}
      OBVIOUS
    <3>5. Sum(f, (S \ {y}) \ {x}) \in Int
      <4>1. (S \ {y}) \ {x} \in SUBSET S /\ (S \ {y}) \ {x} # S
        BY <2>1
      <4> QED
        BY <4>1, <1>5
    <3>6. f[x] \in Int /\ f[y] \in Int
      BY <1>4, <2>1
    <3>7. Sum(f, S) = f[y] + Sum(f, S \ {y})
      BY <1>6, <1>8
    <3>8. Sum(f, (S \ {x}) \ {y}) = Sum(f, (S \ {y}) \ {x})
      BY <3>4
    <3> HIDE DEF Good
    <3> QED
      BY <3>2, <3>3, <3>5, <3>6, <3>7, <3>8
  <2>5. Sum(f, S) \in Int
    BY <1>6, <1>8, <2>1, <2>3
  <2>6. \A x \in S : Sum(f, S) = f[x] + Sum(f, S \ {x})
    BY <1>6, <1>8, <2>4
  <2> QED
    BY <1>4, <2>5, <2>6
<1> QED
  BY <1>7, <1>8

LEMMA SumEmpty == ASSUME NEW f PROVE SumFunctionOnSet(f, {}) = 0
BY SumChosen, FS_EmptySet

LEMMA SumOfZeros ==
  ASSUME NEW f, NEW Dom, IsFiniteSet(Dom), \A x \in Dom : f[x] = 0
  PROVE  SumFunctionOnSet(f, Dom) = 0
<1> DEFINE T == {S \in SUBSET Dom : Sum(f, S) # 0}
<1>1. SUFFICES ASSUME T # {} PROVE FALSE
  BY DEF Sum
<1>2. T \subseteq SUBSET Dom
  OBVIOUS
<1>3. PICK S \in T : \A t \in T : t \subseteq S => t = S
  <2> HIDE DEF T
  <2> QED
    BY <1>1, <1>2, MinimalSet
<1>4. S \in SUBSET Dom /\ Sum(f, S) # 0
  OBVIOUS
<1>5. PICK x \in S : TRUE
  BY <1>4, SumEmpty DEF Sum
<1>6. S \ {x} \in SUBSET Dom /\ Sum(f, S \ {x}) = 0
  BY <1>3, <1>4, <1>5
<1>7. Sum(f, S) = f[x] + Sum(f, S \ {x}) /\ f[x] = 0
  BY <1>4, <1>5, SumStep DEF Sum
<1> QED
  BY <1>4, <1>6, <1>7

(* Sums of two functions, term by term. *)
LEMMA SumMonotone ==
  ASSUME NEW f, NEW g, NEW Dom, IsFiniteSet(Dom),
         \A x \in Dom : f[x] \in Int /\ g[x] \in Int /\ f[x] <= g[x]
  PROVE  SumFunctionOnSet(f, Dom) <= SumFunctionOnSet(g, Dom)
<1> DEFINE T == {S \in SUBSET Dom : ~(Sum(f, S) <= Sum(g, S))}
<1>1. SUFFICES ASSUME T # {} PROVE FALSE
  BY DEF Sum
<1>2. T \subseteq SUBSET Dom
  OBVIOUS
<1>3. PICK S \in T : \A t \in T : t \subseteq S => t = S
  <2> HIDE DEF T
  <2> QED
    BY <1>1, <1>2, MinimalSet
<1>4. S \in SUBSET Dom /\ ~(Sum(f, S) <= Sum(g, S))
  OBVIOUS
<1>5. S # {}
  BY <1>4, SumEmpty DEF Sum
<1>6. PICK x \in S : TRUE
  BY <1>5
<1>7. Sum(f, S \ {x}) <= Sum(g, S \ {x})
  BY <1>3, <1>4, <1>6
<1>8. S \ {x} \in SUBSET Dom
  BY <1>4
<1>9. /\ Sum(f, S) = f[x] + Sum(f, S \ {x}) /\ Sum(f, S \ {x}) \in Int
      /\ Sum(g, S) = g[x] + Sum(g, S \ {x}) /\ Sum(g, S \ {x}) \in Int
      /\ f[x] \in Int /\ g[x] \in Int /\ f[x] <= g[x]
  BY <1>4, <1>6, <1>8, SumStep DEF Sum
<1> QED
  BY <1>4, <1>7, <1>9

(* A sum over two parts. *)
LEMMA SumSplit ==
  ASSUME NEW f, NEW Dom, IsFiniteSet(Dom), NEW E, E \subseteq Dom, \A x \in Dom : f[x] \in Int
  PROVE  SumFunctionOnSet(f, Dom) = SumFunctionOnSet(f, E) + SumFunctionOnSet(f, Dom \ E)
<1> DEFINE T == {S \in SUBSET Dom : Sum(f, S) # Sum(f, S \cap E) + Sum(f, S \ E)}
<1>1. SUFFICES ASSUME T # {} PROVE FALSE
  <2>1. Dom \cap E = E
    OBVIOUS
  <2> QED
    BY <2>1 DEF Sum
<1>2. T \subseteq SUBSET Dom
  OBVIOUS
<1>3. PICK S \in T : \A t \in T : t \subseteq S => t = S
  <2> HIDE DEF T
  <2> QED
    BY <1>1, <1>2, MinimalSet
<1>4. S \in SUBSET Dom /\ Sum(f, S) # Sum(f, S \cap E) + Sum(f, S \ E)
  OBVIOUS
<1>5. S # {}
  <2>1. ASSUME S = {} PROVE Sum(f, S) = Sum(f, S \cap E) + Sum(f, S \ E)
    <3>1. S \cap E = {} /\ S \ E = {}
      BY <2>1
    <3> QED
      BY <2>1, <3>1, SumEmpty DEF Sum
  <2> QED
    BY <1>4, <2>1
<1>6. PICK x \in S : TRUE
  BY <1>5
<1> DEFINE Rest == S \ {x}
<1>7. Sum(f, Rest) = Sum(f, Rest \cap E) + Sum(f, Rest \ E)
  BY <1>3, <1>4, <1>6
<1>8. Rest \in SUBSET Dom /\ f[x] \in Int
  BY <1>4
<1>9. Sum(f, S) = f[x] + Sum(f, Rest)
  BY <1>4, <1>6, SumStep DEF Sum
<1>10. Sum(f, Rest \cap E) \in Int /\ Sum(f, Rest \ E) \in Int
  <2>1. Rest \cap E \in SUBSET Dom /\ Rest \ E \in SUBSET Dom
    BY <1>8
  <2> QED
    BY <2>1, SumStep DEF Sum
<1>11. CASE x \in E
  <2>1. Rest \ E = S \ E /\ Rest \cap E = (S \cap E) \ {x} /\ x \in S \cap E /\ S \cap E \in SUBSET Dom
    BY <1>4, <1>6, <1>11
  <2>2. Sum(f, S \cap E) = f[x] + Sum(f, Rest \cap E)
    BY <2>1, SumStep DEF Sum
  <2>3. Sum(f, Rest \ E) = Sum(f, S \ E)
    BY <2>1
  <2> HIDE DEF Rest, T
  <2>4. Sum(f, S) = Sum(f, S \cap E) + Sum(f, S \ E)
    BY <1>7, <1>8, <1>9, <1>10, <2>2, <2>3
  <2> QED
    BY <1>4, <2>4
<1>12. CASE x \notin E
  <2>1. Rest \cap E = S \cap E /\ Rest \ E = (S \ E) \ {x} /\ x \in S \ E /\ S \ E \in SUBSET Dom
    BY <1>4, <1>6, <1>12
  <2>2. Sum(f, S \ E) = f[x] + Sum(f, Rest \ E)
    BY <2>1, SumStep DEF Sum
  <2>3. Sum(f, Rest \cap E) = Sum(f, S \cap E)
    BY <2>1
  <2> HIDE DEF Rest, T
  <2>4. Sum(f, S) = Sum(f, S \cap E) + Sum(f, S \ E)
    BY <1>7, <1>8, <1>9, <1>10, <2>2, <2>3
  <2> QED
    BY <1>4, <2>4
<1> QED
  BY <1>11, <1>12

(* Sums of functions that agree, and of functions that differ in one place. *)
LEMMA SumSame ==
  ASSUME NEW f, NEW g, NEW Dom, IsFiniteSet(Dom), \A x \in Dom : f[x] \in Int /\ g[x] = f[x]
  PROVE  SumFunctionOnSet(g, Dom) = SumFunctionOnSet(f, Dom)
<1>1. SumFunctionOnSet(f, Dom) <= SumFunctionOnSet(g, Dom) /\ SumFunctionOnSet(g, Dom) <= SumFunctionOnSet(f, Dom)
  BY SumMonotone
<1>2. SumFunctionOnSet(f, Dom) \in Int /\ SumFunctionOnSet(g, Dom) \in Int
  BY SumStep
<1> QED
  BY <1>1, <1>2

LEMMA SumUpdate ==
  ASSUME NEW Dom, IsFiniteSet(Dom), NEW f \in [Dom -> Int], NEW x \in Dom, NEW v \in Int
  PROVE  /\ SumFunction(f) \in Int
         /\ SumFunction([f EXCEPT ![x] = v]) = SumFunction(f) - f[x] + v
<1> DEFINE g == [f EXCEPT ![x] = v]
<1>1. DOMAIN f = Dom /\ DOMAIN g = Dom /\ g \in [Dom -> Int] /\ g[x] = v /\ \A y \in Dom \ {x} : g[y] = f[y]
  OBVIOUS
<1>2. IsFiniteSet(Dom \ {x}) /\ Dom \ {x} \in SUBSET Dom
  BY FS_Subset
<1> HIDE DEF g
<1>3. /\ SumFunctionOnSet(f, Dom) = f[x] + SumFunctionOnSet(f, Dom \ {x})
      /\ SumFunctionOnSet(f, Dom) \in Int /\ SumFunctionOnSet(f, Dom \ {x}) \in Int
  BY <1>2, SumStep
<1>4. SumFunctionOnSet(g, Dom) = g[x] + SumFunctionOnSet(g, Dom \ {x})
  BY <1>1, <1>2, SumStep
<1>5. SumFunctionOnSet(g, Dom \ {x}) = SumFunctionOnSet(f, Dom \ {x})
  BY <1>1, <1>2, SumSame
<1>6. f[x] \in Int
  OBVIOUS
<1>7. SumFunction(f) = SumFunctionOnSet(f, Dom) /\ SumFunction(g) = SumFunctionOnSet(g, Dom)
  BY <1>1 DEF SumFunction
<1>8. SumFunction(f) \in Int /\ SumFunction(g) = SumFunction(f) - f[x] + v
  BY <1>1, <1>3, <1>4, <1>5, <1>6, <1>7
<1> QED
  BY <1>8 DEF g

(* A sum may be taken over the indices of what it sums.                    *)
LEMMA SumImage ==
  ASSUME NEW Dom, IsFiniteSet(Dom), NEW E, IsFiniteSet(E), NEW h \in [Dom -> E],
         \A x, y \in Dom : h[x] = h[y] => x = y,
         NEW f, \A e \in E : f[e] \in Int,
         NEW g, \A x \in Dom : g[x] = f[h[x]]
  PROVE  SumFunctionOnSet(g, Dom) = SumFunctionOnSet(f, {h[x] : x \in Dom})
<1> DEFINE Image(S) == {h[x] : x \in S}
           T == {S \in SUBSET Dom : Sum(g, S) # Sum(f, Image(S))}
<1>1. SUFFICES ASSUME T # {} PROVE FALSE
  BY DEF Sum
<1>2. T \subseteq SUBSET Dom
  OBVIOUS
<1>3. PICK S \in T : \A t \in T : t \subseteq S => t = S
  <2> HIDE DEF T
  <2> QED
    BY <1>1, <1>2, MinimalSet
<1>4. S \in SUBSET Dom /\ Sum(g, S) # Sum(f, Image(S))
  OBVIOUS
<1>5. S # {}
  <2>1. ASSUME S = {} PROVE Sum(g, S) = Sum(f, Image(S))
    <3>1. Image(S) = {}
      BY <2>1
    <3> QED
      BY <2>1, <3>1, SumEmpty DEF Sum
  <2> QED
    BY <1>4, <2>1
<1>6. PICK x \in S : TRUE
  BY <1>5
<1>7. S \ {x} \in SUBSET Dom /\ S \ {x} # S /\ S \ {x} \subseteq S
  BY <1>4, <1>6
<1>8. Sum(g, S \ {x}) = Sum(f, Image(S \ {x}))
  BY <1>3, <1>7
<1>9. \A y \in Dom : g[y] \in Int
  OBVIOUS
<1>10. Sum(g, S) = g[x] + Sum(g, S \ {x})
  BY <1>4, <1>6, <1>9, SumStep DEF Sum
<1>11. Image(S) \in SUBSET E /\ h[x] \in Image(S)
  BY <1>4, <1>6
<1>12. Sum(f, Image(S)) = f[h[x]] + Sum(f, Image(S) \ {h[x]})
  <2> HIDE DEF Image
  <2> QED
    BY <1>11, SumStep DEF Sum
<1>13. Image(S) \ {h[x]} = Image(S \ {x})
  BY <1>4, <1>6
<1>14. Sum(f, Image(S) \ {h[x]}) = Sum(f, Image(S \ {x}))
  BY <1>13
<1>15. g[x] = f[h[x]]
  BY <1>4, <1>6
<1> HIDE DEF T, Image
<1> QED
  BY <1>4, <1>8, <1>10, <1>12, <1>14, <1>15

(* What is at most, or at least, v times a weight term by term is so in    *)
(* the sum.                                                                *)
LEMMA SumScaled ==
  ASSUME NEW Dom, IsFiniteSet(Dom), NEW w, NEW p, NEW v \in Int,
         \A x \in Dom : w[x] \in Int /\ p[x] \in Int
  PROVE  /\ (\A x \in Dom : p[x] <= v * w[x]) => SumFunctionOnSet(p, Dom) <= v * SumFunctionOnSet(w, Dom)
         /\ (\A x \in Dom : v * w[x] <= p[x]) => v * SumFunctionOnSet(w, Dom) <= SumFunctionOnSet(p, Dom)
<1> DEFINE Good(S) ==
             /\ (\A x \in S : p[x] <= v * w[x]) => Sum(p, S) <= v * Sum(w, S)
             /\ (\A x \in S : v * w[x] <= p[x]) => v * Sum(w, S) <= Sum(p, S)
           T == {S \in SUBSET Dom : ~Good(S)}
<1>1. SUFFICES ASSUME T # {} PROVE FALSE
  BY DEF Sum
<1>2. T \subseteq SUBSET Dom
  OBVIOUS
<1>3. PICK S \in T : \A t \in T : t \subseteq S => t = S
  <2> HIDE DEF T
  <2> QED
    BY <1>1, <1>2, MinimalSet
<1>4. S \in SUBSET Dom /\ ~Good(S)
  OBVIOUS
<1>5. S # {}
  <2>1. ASSUME S = {} PROVE Good(S)
    <3>1. Sum(p, S) = 0 /\ Sum(w, S) = 0
      BY <2>1, SumEmpty DEF Sum
    <3>2. v * Sum(w, S) = 0
      BY <3>1
    <3> QED
      BY <3>1, <3>2
  <2> QED
    BY <1>4, <2>1
<1>6. PICK x \in S : TRUE
  BY <1>5
<1> DEFINE rest == S \ {x}
<1>7. rest \in SUBSET Dom /\ rest # S /\ rest \subseteq S
  BY <1>4, <1>6
<1>8. Good(rest)
  <2> HIDE DEF Good, rest
  <2> QED
    BY <1>3, <1>7
<1>9. /\ Sum(p, S) = p[x] + Sum(p, rest) /\ Sum(w, S) = w[x] + Sum(w, rest)
  BY <1>4, <1>6, SumStep DEF Sum
<1>10. Sum(p, rest) \in Int /\ Sum(w, rest) \in Int /\ p[x] \in Int /\ w[x] \in Int
  <2>1. Sum(p, rest) \in Int /\ Sum(w, rest) \in Int
    <3> HIDE DEF rest
    <3> QED
      BY <1>7, SumStep DEF Sum
  <2> QED
    BY <2>1, <1>4, <1>6
<1>11. v * Sum(w, S) = v * w[x] + v * Sum(w, rest)
  BY <1>9, <1>10
<1>12. v * w[x] \in Int /\ v * Sum(w, rest) \in Int
  BY <1>10
<1> HIDE DEF T, rest
<1>13. (\A y \in S : p[y] <= v * w[y]) => Sum(p, S) <= v * Sum(w, S)
  <2> SUFFICES ASSUME \A y \in S : p[y] <= v * w[y] PROVE Sum(p, S) <= v * Sum(w, S)
    OBVIOUS
  <2>1. p[x] <= v * w[x] /\ Sum(p, rest) <= v * Sum(w, rest)
    BY <1>6, <1>7, <1>8
  <2> QED
    BY <2>1, <1>9, <1>10, <1>11, <1>12
<1>14. (\A y \in S : v * w[y] <= p[y]) => v * Sum(w, S) <= Sum(p, S)
  <2> SUFFICES ASSUME \A y \in S : v * w[y] <= p[y] PROVE v * Sum(w, S) <= Sum(p, S)
    OBVIOUS
  <2>1. v * w[x] <= p[x] /\ v * Sum(w, rest) <= Sum(p, rest)
    BY <1>6, <1>7, <1>8
  <2> QED
    BY <2>1, <1>9, <1>10, <1>11, <1>12
<1> QED
  BY <1>4, <1>13, <1>14

LEMMA SumPositive ==
  ASSUME NEW Dom, IsFiniteSet(Dom), NEW w, \A x \in Dom : w[x] \in Nat \ {0}, Dom # {}
  PROVE  SumFunctionOnSet(w, Dom) \in Nat \ {0}
<1>1. PICK x \in Dom : TRUE
  OBVIOUS
<1>2. \A y \in Dom : w[y] \in Int
  OBVIOUS
<1>3. Dom \ {x} \in SUBSET Dom /\ Dom \in SUBSET Dom /\ IsFiniteSet(Dom \ {x})
  BY FS_Subset
<1>4. Sum(w, Dom) = w[x] + Sum(w, Dom \ {x}) /\ Sum(w, Dom \ {x}) \in Int
  BY <1>1, <1>2, <1>3, SumStep DEF Sum
<1> DEFINE none == [y \in Dom \ {x} |-> 0]
<1>5. \A y \in Dom \ {x} : none[y] = 0 /\ none[y] \in Int /\ w[y] \in Int /\ none[y] <= w[y]
  OBVIOUS
<1> HIDE DEF none
<1>6. Sum(none, Dom \ {x}) = 0
  BY <1>3, <1>5, SumOfZeros DEF Sum
<1>7. Sum(none, Dom \ {x}) <= Sum(w, Dom \ {x})
  BY <1>3, <1>5, SumMonotone DEF Sum
<1>8. Sum(w, Dom) \in Nat \ {0}
  BY <1>1, <1>4, <1>6, <1>7
<1> QED
  BY <1>8 DEF Sum

(* A finite set has members where an integer function is least and most.   *)
LEMMA Extremes ==
  ASSUME NEW Dom, IsFiniteSet(Dom), Dom # {}, NEW f, \A x \in Dom : f[x] \in Int
  PROVE  /\ \E x \in Dom : \A y \in Dom : f[y] <= f[x]
         /\ \E x \in Dom : \A y \in Dom : f[x] <= f[y]
<1> DEFINE Good(S) == /\ \E x \in S : \A y \in S : f[y] <= f[x]
                      /\ \E x \in S : \A y \in S : f[x] <= f[y]
           T == {S \in SUBSET Dom : S # {} /\ ~Good(S)}
<1>1. SUFFICES ASSUME T # {} PROVE FALSE
  OBVIOUS
<1>2. T \subseteq SUBSET Dom
  OBVIOUS
<1>3. PICK S \in T : \A t \in T : t \subseteq S => t = S
  <2> HIDE DEF T
  <2> QED
    BY <1>1, <1>2, MinimalSet
<1>4. S \in SUBSET Dom /\ S # {} /\ ~Good(S)
  OBVIOUS
<1>5. PICK x \in S : TRUE
  BY <1>4
<1>6. \A y \in S : f[y] \in Int
  BY <1>4
<1>7. CASE S = {x}
  BY <1>4, <1>6, <1>7
<1>8. CASE S # {x}
  <2>1. S \ {x} \in SUBSET Dom /\ S \ {x} # {} /\ S \ {x} # S /\ S \ {x} \subseteq S
    BY <1>4, <1>5, <1>8
  <2>2. Good(S \ {x})
    <3> HIDE DEF Good
    <3> QED
      BY <1>3, <2>1
  <2>3. PICK a \in S \ {x} : \A y \in S \ {x} : f[y] <= f[a]
    BY <2>2
  <2>4. PICK b \in S \ {x} : \A y \in S \ {x} : f[b] <= f[y]
    BY <2>2
  <2>5. \E m \in S : \A y \in S : f[y] <= f[m]
    BY <1>5, <1>6, <2>3
  <2>6. \E m \in S : \A y \in S : f[m] <= f[y]
    BY <1>5, <1>6, <2>4
  <2> QED
    BY <1>4, <2>5, <2>6
<1> QED
  BY <1>7, <1>8

-----------------------------------------------------------------------------
(* The placement of the stake: Allocator. *)

(* What occupies a slot: a seat, stake, or a seat lost to a floor. *)
Taken == PreSeated \cup {i \in 1 .. N : allocations[i] > 0 \/ i \in rejected}

Seated == Cardinality(Taken) <= slotsUsed /\ slotsUsed <= slots

SlotInv ==
  /\ phase # "done" => Seated
  /\ Seated \/ \A i \in 1 .. N : allocations[i] = 0

Funded ==
  /\ phase # "done" => ~NothingToDo
  /\ \A i \in 1 .. N : allocations[i] > 0 => i \in Pick /\ TotalSignal # 0

FloorInv ==
  /\ phase = "floor" => \A j \in 1 .. N : j < index /\ allocations[j] > 0 => ClearsFloors(j)
  /\ phase # "done" => pass < ReflowPasses

Inputs ==
  /\ cand \in [1 .. N -> Candidate]
  /\ available \in Nat /\ slots \in Nat
  /\ floors \in Floor

AllocInv ==
  /\ TypeOK /\ Inputs /\ SlotInv /\ Funded /\ CapsRespected /\ RejectedStayOut
  /\ FloorInv /\ FloorsHoldWithinPasses

-----------------------------------------------------------------------------
LEMMA DivNat ==
  ASSUME NEW a \in Nat, NEW b \in Nat \ {0}
  PROVE  a \div b \in Nat
OBVIOUS

LEMMA Figures ==
  ASSUME Inputs
  PROVE  /\ \A i \in 1 .. N : Cap(i) \in Nat /\ D(i) \in Nat
         /\ TotalSignal # 0 => \A i \in 1 .. N : R(i) \in Nat
         /\ ChunkSize \in Nat /\ ChunkSize >= 1
<1>1. ASSUME NEW i \in 1 .. N
      PROVE  /\ cand[i].signal \in Nat /\ cand[i].staked \in Nat /\ cand[i].current \in Nat
             /\ cand[i].risky \in BOOLEAN
  BY AllocatorAssumption DEF Inputs
<1>2. ASSUME NEW i \in 1 .. N PROVE Cap(i) \in Nat
  <2> DEFINE pct == IF cand[i].risky THEN RiskyCapPct ELSE CapPct
  <2>1. pct \in Nat /\ TotalStake \in Nat
    BY AllocatorAssumption
  <2>2. TotalStake * pct \in Nat
    BY <2>1
  <2> HIDE DEF pct
  <2>3. (TotalStake * pct) \div 100 \in Nat
    BY <2>2
  <2> QED
    BY <2>3 DEF Cap, pct
<1>3. ASSUME NEW i \in 1 .. N PROVE D(i) \in Nat
  BY <1>1 DEF D, Most
<1>4. ASSUME TotalSignal # 0, NEW i \in 1 .. N PROVE R(i) \in Nat
  <2>1. cand[i].signal * IssuancePerYear \in Nat
    BY <1>1, AllocatorAssumption
  <2>2. TotalSignal \in Nat \ {0}
    BY <1>4, AllocatorAssumption
  <2> QED
    BY <2>1, <2>2, DivNat DEF R
<1>5. ChunkSize \in Nat /\ ChunkSize >= 1
  <2>1. available \div Chunks \in Nat
    BY DivNat, AllocatorAssumption DEF Inputs
  <2> QED
    BY <2>1 DEF ChunkSize, Most
<1> QED
  BY <1>2, <1>3, <1>4, <1>5

LEMMA MarginalNat ==
  ASSUME NEW r \in Nat, NEW d \in Nat, NEW a \in Nat, NEW w \in BOOLEAN
  PROVE  Marginal(r, d, a, w) \in Nat
<1>1. CASE d # 0
  <2>1. d + a \in Nat \ {0}
    BY <1>1
  <2>2. (d + a) * (d + a) \in Nat \ {0} /\ r * d * MarginalScale \in Nat
    BY <2>1, AllocatorAssumption
  <2>3. (r * d * MarginalScale) \div ((d + a) * (d + a)) \in Nat
    BY <2>2, DivNat
  <2> QED
    BY <2>3, AllocatorAssumption DEF Marginal
<1>2. CASE d = 0
  BY <1>2, AllocatorAssumption DEF Marginal
<1> QED
  BY <1>1, <1>2

LEMMA DivBounds ==
  ASSUME NEW a \in Nat, NEW b \in Nat \ {0}
  PROVE  (a \div b) * b <= a /\ a < (a \div b) * b + b
OBVIOUS

(* What is divided by more, is less. *)
LEMMA DivAntitone ==
  ASSUME NEW a \in Nat, NEW p \in Nat \ {0}, NEW q \in Nat, p <= q
  PROVE  a \div q <= a \div p
<1> DEFINE u == a \div q
           v == a \div p
<1>1. q \in Nat \ {0}
  OBVIOUS
<1>2. u \in Nat /\ v \in Nat
  BY <1>1, DivNat
<1>3. u * q <= a /\ a < v * p + p
  BY <1>1, DivBounds
<1> HIDE DEF u, v
<1>4. u * p <= u * q
  BY <1>2
<1>5. u * p < (v + 1) * p
  BY <1>2, <1>3, <1>4
<1>6. u < v + 1
  BY <1>2, <1>5
<1>7. u <= v
  BY <1>2, <1>6
<1> QED
  BY <1>7 DEF u, v

LEMMA SquareMonotone ==
  ASSUME NEW a \in Nat, NEW b \in Nat, a <= b
  PROVE  a * a <= b * b
<1>1. a * a <= a * b /\ a * b <= b * b
  OBVIOUS
<1> QED
  BY <1>1

(* A pick's marginal falls as its stake grows, the sentinel included. *)
LEMMA MarginalAntitone ==
  ASSUME NEW r \in Nat, NEW d \in Nat, NEW a \in Nat, NEW b \in Nat, a <= b, NEW w \in BOOLEAN,
         r * MarginalScale <= MaxMarginal
  PROVE  Marginal(r, d, b, w) <= Marginal(r, d, a, w)
<1>0. MaxMarginal \in Nat /\ MarginalScale \in Nat
  BY AllocatorAssumption
<1>1. CASE r = 0 \/ d = 0
  BY <1>0, <1>1 DEF Marginal
<1>2. CASE r # 0 /\ d # 0
  <2> DEFINE x == r * d * MarginalScale
             p == (d + a) * (d + a)
             q == (d + b) * (d + b)
  <2>1. x \in Nat
    BY <1>0
  <2>2. p \in Nat \ {0} /\ q \in Nat \ {0} /\ p <= q
    <3>1. d + a \in Nat \ {0} /\ d + b \in Nat \ {0} /\ d + a <= d + b
      BY <1>2
    <3> QED
      BY <3>1, SquareMonotone
  <2>3. /\ Marginal(r, d, a, w) = IF a = 0 /\ w THEN MaxMarginal ELSE x \div p
        /\ Marginal(r, d, b, w) = IF b = 0 /\ w THEN MaxMarginal ELSE x \div q
    BY <1>2 DEF Marginal
  <2>4. x \div q <= r * MarginalScale
    <3> DEFINE u == x \div q
               m == r * MarginalScale
    <3>1. u \in Nat /\ m \in Nat
      BY <1>0, <2>1, <2>2, DivNat
    <3>2. u * q <= x
      BY <2>1, <2>2, DivBounds
    <3>3. x = m * d
      BY <1>0
    <3>4. d <= q
      <4>1. d * 1 <= (d + b) * (d + b)
        <5>1. d + b \in Nat /\ 1 <= d + b /\ d <= d + b
          BY <1>2
        <5>2. (d + b) * 1 <= (d + b) * (d + b)
          BY <5>1
        <5> QED
          BY <5>1, <5>2
      <4> QED
        BY <4>1
    <3> HIDE DEF u, m, x, q
    <3>5. u * d <= u * q
      BY <2>2, <3>1, <3>4
    <3>6. u * d <= m * d
      BY <2>1, <2>2, <3>1, <3>2, <3>3, <3>5
    <3>7. u <= m
      BY <1>2, <3>1, <3>6
    <3> QED
      BY <3>7 DEF u, m
  <2>5. x \div q <= x \div p
    <3> HIDE DEF x, p, q
    <3> QED
      BY <2>1, <2>2, DivAntitone
  <2>6. x \div q \in Nat /\ x \div p \in Nat /\ r * MarginalScale \in Nat
    BY <1>0, <2>1, <2>2, DivNat
  <2> HIDE DEF x, p, q
  <2> QED
    BY <1>0, <2>3, <2>4, <2>5, <2>6
<1> QED
  BY <1>1, <1>2

LEMMA SomeCandidates ==
  ASSUME NEW S, S \subseteq 1 .. N
  PROVE  IsFiniteSet(S) /\ Cardinality(S) \in Nat
<1>1. IsFiniteSet(1 .. N)
  BY FS_Interval, AllocatorAssumption
<1>2. IsFiniteSet(S)
  BY <1>1, FS_Subset
<1> QED
  BY <1>2, FS_CardinalityType

LEMMA ScoreNat ==
  ASSUME Inputs, TotalSignal # 0, NEW i \in Current
  PROVE  i \in Nat /\ Score(i) \in Nat
<1>1. i \in 1 .. N /\ cand[i].current \in Nat
  BY AllocatorAssumption DEF Inputs, Current, Pick
<1>2. R(i) \in Nat /\ D(i) \in Nat
  BY <1>1, Figures
<1> DEFINE r == R(i)
           d == D(i)
           a == cand[i].current
<1>3. Score(i) = Marginal(r, d, a, FALSE)
  BY DEF Score
<1>4. r \in Nat /\ d \in Nat /\ a \in Nat /\ FALSE \in BOOLEAN
  BY <1>1, <1>2
<1> HIDE DEF r, d, a
<1>5. Marginal(r, d, a, FALSE) \in Nat
  BY <1>4, MarginalNat
<1>6. Score(i) \in Nat
  BY <1>3, <1>5
<1>7. i \in Nat
  BY <1>1, AllocatorAssumption
<1> QED
  BY <1>6, <1>7

(* The currents are strictly and totally ordered by what they earn. *)
LEMMA EarnsMoreOrder ==
  ASSUME Inputs, TotalSignal # 0, NEW i \in Current, NEW j \in Current
  PROVE  /\ ~EarnsMore(i, i)
         /\ i # j => EarnsMore(i, j) \/ EarnsMore(j, i)
         /\ \A k \in Current : EarnsMore(k, i) /\ EarnsMore(i, j) => EarnsMore(k, j)
<1>1. \A k \in Current : k \in Nat /\ Score(k) \in Nat
  BY ScoreNat
<1> QED
  BY <1>1 DEF EarnsMore

(* The seats are at most the currents, and at most the slots: the rank of  *)
(* a current among the others is different for each of them.               *)
LEMMA SeatsAreFew ==
  ASSUME Inputs, TotalSignal # 0
  PROVE  /\ IsFiniteSet(PreSeated) /\ PreSeated \subseteq 1 .. N
         /\ Cardinality(PreSeated) <= Least(Cardinality(Current), slots)
<1> DEFINE Ahead(i) == {j \in Current : EarnsMore(j, i)}
           rank == [i \in PreSeated |-> Cardinality(Ahead(i))]
<1>1. Current \subseteq 1 .. N /\ PreSeated \subseteq Current
  BY DEF Current, Pick, PreSeated
<1>2. IsFiniteSet(Current) /\ IsFiniteSet(PreSeated) /\ Cardinality(PreSeated) <= Cardinality(Current)
  BY <1>1, SomeCandidates, FS_Subset
<1>3. \A i \in Current : IsFiniteSet(Ahead(i)) /\ Cardinality(Ahead(i)) \in Nat
  <2>1. \A i \in Current : Ahead(i) \subseteq 1 .. N
    BY <1>1
  <2> HIDE DEF Ahead
  <2> QED
    BY <2>1, SomeCandidates
<1>4. ASSUME NEW i \in Current, NEW j \in Current, EarnsMore(i, j)
      PROVE  Cardinality(Ahead(i)) < Cardinality(Ahead(j))
  <2>1. Ahead(i) \subseteq Ahead(j) /\ i \in Ahead(j) /\ i \notin Ahead(i)
    BY <1>4, EarnsMoreOrder
  <2> DEFINE A == Ahead(i)
             B == Ahead(j)
  <2>2. /\ IsFiniteSet(B) /\ A \subseteq B /\ A # B
        /\ Cardinality(A) \in Nat /\ Cardinality(B) \in Nat
    BY <1>3, <2>1
  <2> HIDE DEF A, B
  <2>3. Cardinality(A) <= Cardinality(B) /\ Cardinality(A) # Cardinality(B)
    BY <2>2, FS_Subset
  <2>4. Cardinality(A) < Cardinality(B)
    BY <2>2, <2>3
  <2> QED
    BY <2>4 DEF A, B
<1>6. rank \in Injection(PreSeated, 0 .. slots - 1)
  <2>1. \A i \in PreSeated : rank[i] \in Nat /\ rank[i] < slots
    BY <1>1, <1>3 DEF PreSeated
  <2>2. \A i \in PreSeated : rank[i] \in 0 .. slots - 1
    BY <2>1 DEF Inputs
  <2>3. \A i, j \in PreSeated : rank[i] = rank[j] => i = j
    <3> SUFFICES ASSUME NEW i \in PreSeated, NEW j \in PreSeated, i # j
                 PROVE  rank[i] # rank[j]
      OBVIOUS
    <3>1. i \in Current /\ j \in Current
      BY <1>1
    <3>2. rank[i] = Cardinality(Ahead(i)) /\ rank[j] = Cardinality(Ahead(j))
      OBVIOUS
    <3>3. Cardinality(Ahead(i)) \in Nat /\ Cardinality(Ahead(j)) \in Nat
      BY <1>3, <3>1
    <3>4. \/ Cardinality(Ahead(i)) < Cardinality(Ahead(j))
          \/ Cardinality(Ahead(j)) < Cardinality(Ahead(i))
      <4>1. CASE EarnsMore(i, j)
        BY <1>4, <3>1, <4>1
      <4>2. CASE EarnsMore(j, i)
        BY <1>4, <3>1, <4>2
      <4> QED
        BY EarnsMoreOrder, <3>1, <4>1, <4>2
    <3> HIDE DEF rank, Ahead
    <3> QED
      BY <3>2, <3>3, <3>4
  <2>4. rank \in [PreSeated -> 0 .. slots - 1]
    BY <2>2
  <2> QED
    BY <2>3, <2>4 DEF Injection, IsInjective
<1>7. Cardinality(PreSeated) <= slots
  <2>1. IsFiniteSet(0 .. slots - 1) /\ Cardinality(0 .. slots - 1) = slots
    BY FS_Interval DEF Inputs
  <2> HIDE DEF rank
  <2> QED
    BY <1>6, <2>1, FS_Injection
<1> QED
  BY <1>1, <1>2, <1>7 DEF Least

-----------------------------------------------------------------------------
LEMMA SlotsFollow ==
  ASSUME Inputs, TypeOK, SlotInv, Funded
  PROVE  SlotsRespected
<1> DEFINE Held == {i \in 1 .. N : allocations[i] > 0}
<1>1. CASE \A i \in 1 .. N : allocations[i] = 0
  <2>1. Held = {}
    BY <1>1
  <2> QED
    BY <2>1, FS_EmptySet DEF SlotsRespected, Inputs
<1>2. CASE Seated /\ ~\A i \in 1 .. N : allocations[i] = 0
  <2>1. TotalSignal # 0
    BY <1>2 DEF Funded, TypeOK
  <2>2. IsFiniteSet(Taken)
    <3>1. Taken \subseteq 1 .. N
      BY <2>1, SeatsAreFew DEF Taken
    <3> QED
      BY <3>1, SomeCandidates
  <2>3. Cardinality(Held) <= Cardinality(Taken)
    <3>1. Held \in SUBSET Taken
      BY DEF Taken
    <3> HIDE DEF Held
    <3> QED
      BY <2>2, <3>1, FS_Subset
  <2>4. Cardinality(Taken) \in Nat /\ Cardinality(Held) \in Nat
    <3>1. Held \subseteq 1 .. N
      OBVIOUS
    <3> QED
      BY <2>2, <3>1, SomeCandidates, FS_CardinalityType
  <2> QED
    BY <1>2, <2>3, <2>4 DEF Seated, SlotsRespected, TypeOK
<1> QED
  BY <1>1, <1>2 DEF SlotInv

-----------------------------------------------------------------------------
LEMMA InitInv == Init => AllocInv
<1> SUFFICES ASSUME Init PROVE AllocInv
  OBVIOUS
<1>1. Inputs
  BY AllocatorAssumption DEF Init, Inputs, Most
<1>2. NothingToDo \in BOOLEAN
  BY DEF NothingToDo
<1>3. Cardinality(Current) \in Nat
  BY SomeCandidates DEF Current, Pick
<1>4. TypeOK
  BY <1>1, <1>3, AllocatorAssumption DEF Init, Inputs, TypeOK, Least
<1>5. SlotInv
  <2>1. ASSUME phase # "done" PROVE Seated
    <3>1. TotalSignal # 0 /\ ~NothingToDo
      BY <2>1 DEF Init, NothingToDo
    <3>2. Taken = PreSeated
      BY DEF Taken, Init
    <3>3. Cardinality(PreSeated) <= slotsUsed
      BY <1>1, <3>1, SeatsAreFew DEF Init
    <3>4. slotsUsed <= slots
      BY <1>1, <1>3, <3>1 DEF Init, Least, Inputs
    <3> QED
      BY <3>2, <3>3, <3>4 DEF Seated
  <2> QED
    BY <2>1 DEF SlotInv, Init
<1>6. Funded /\ RejectedStayOut /\ FloorInv
  BY AllocatorAssumption DEF Init, Funded, RejectedStayOut, FloorInv
<1>7. CapsRespected
  BY <1>1, Figures DEF CapsRespected, Init
<1>8. FloorsHoldWithinPasses
  BY DEF Init, FloorsHoldWithinPasses
<1> QED
  BY <1>1, <1>4, <1>5, <1>6, <1>7, <1>8 DEF AllocInv

(* What is computed from the inputs alone. *)
LEMMA InputsStay ==
  ASSUME UNCHANGED input
  PROVE  /\ PreSeated' = PreSeated /\ Pick' = Pick /\ NothingToDo' = NothingToDo
         /\ \A i : R(i)' = R(i) /\ D(i)' = D(i) /\ Cap(i)' = Cap(i)
         /\ Inputs' = Inputs
BY DEF input, PreSeated, Current, EarnsMore, Score, Pick, NothingToDo, R, D, Cap, Inputs,
       Marginal

(* The chunk that the greedy loop hands out. *)
LEMMA AmountFits ==
  ASSUME AllocInv, NEW i \in 1 .. N, MayGrow(i), remaining > 0
  PROVE  /\ Amount(i) \in Nat /\ Amount(i) <= remaining
         /\ allocations[i] + Amount(i) <= Cap(i)
         /\ Amount(i) > 0
<1>1. Cap(i) \in Nat /\ ChunkSize \in Nat /\ ChunkSize >= 1
  BY Figures DEF AllocInv
<1>2. allocations[i] \in Nat /\ remaining \in Nat /\ allocations[i] < Cap(i)
  BY DEF AllocInv, TypeOK, MayGrow
<1> QED
  BY <1>1, <1>2 DEF Amount, Least

LEMMA GiveChunkInv ==
  ASSUME AllocInv, NEW i \in 1 .. N, GiveChunk(i)
  PROVE  AllocInv'
<1>0. /\ UNCHANGED input /\ phase' = phase /\ phase \in {"fill", "reflow"}
      /\ UNCHANGED <<pass, index, reflowBudget, rejected>>
      /\ MayGrow(i) /\ remaining > 0
  BY DEF GiveChunk, Best, floorPass
<1>1. /\ Amount(i) \in Nat /\ Amount(i) <= remaining /\ Amount(i) > 0
      /\ allocations[i] + Amount(i) <= Cap(i)
  BY <1>0, AmountFits
<1>2. allocations \in [1 .. N -> Nat] /\ remaining \in Nat /\ slotsUsed \in Nat /\ slots \in Nat
      /\ i \in Pick /\ i \notin rejected
      /\ (allocations[i] = 0 /\ i \notin PreSeated => slotsUsed < slots)
  BY <1>0 DEF AllocInv, TypeOK, MayGrow
<1> DEFINE x == Amount(i)
<1>3. /\ allocations' = [allocations EXCEPT ![i] = allocations[i] + x]
      /\ remaining' = remaining - x /\ iter' = iter + 1
      /\ slotsUsed' = slotsUsed + (IF allocations[i] = 0 /\ i \notin PreSeated THEN 1 ELSE 0)
  BY DEF GiveChunk
<1>4. x \in Nat /\ x <= remaining /\ x > 0 /\ allocations[i] + x <= Cap(i)
  BY <1>1
<1> HIDE DEF x
<1>5. TypeOK'
  BY <1>0, <1>2, <1>3, <1>4 DEF AllocInv, TypeOK, input
<1>6. Inputs' /\ PreSeated' = PreSeated /\ Pick' = Pick /\ (\A j : Cap(j)' = Cap(j))
      /\ NothingToDo' = NothingToDo
  BY <1>0, InputsStay DEF AllocInv
<1>7. CapsRespected'
  BY <1>2, <1>3, <1>4, <1>6 DEF AllocInv, CapsRespected
<1>8. RejectedStayOut'
  BY <1>0, <1>2, <1>3, <1>4 DEF AllocInv, RejectedStayOut, TypeOK
<1>9. TotalSignal # 0
  BY <1>0 DEF AllocInv, Funded, NothingToDo
<1>10. Funded'
  BY <1>0, <1>2, <1>3, <1>4, <1>6, <1>9 DEF AllocInv, Funded
<1>11. SlotInv'
  <2>1. Seated /\ IsFiniteSet(Taken) /\ Cardinality(Taken) \in Nat
    <3>1. Taken \subseteq 1 .. N
      BY <1>9, SeatsAreFew DEF Taken, AllocInv
    <3> QED
      BY <1>0, <3>1, SomeCandidates DEF AllocInv, SlotInv
  <2>2. Taken' = Taken \cup {i}
    BY <1>0, <1>2, <1>3, <1>4, <1>6 DEF Taken
  <2>3. Cardinality(Taken') = IF i \in Taken THEN Cardinality(Taken) ELSE Cardinality(Taken) + 1
    BY <2>1, <2>2, FS_AddElement
  <2>4. i \in Taken <=> i \in PreSeated \/ allocations[i] > 0
    BY <1>2 DEF Taken
  <2>5. slots' = slots
    BY <1>0 DEF input
  <2>6. Cardinality(Taken') <= slotsUsed' /\ slotsUsed' <= slots
    BY <1>2, <1>3, <2>1, <2>3, <2>4 DEF Seated
  <2> QED
    BY <2>5, <2>6 DEF SlotInv, Seated
<1>12. FloorInv' /\ FloorsHoldWithinPasses'
  BY <1>0 DEF AllocInv, FloorInv, FloorsHoldWithinPasses
<1> QED
  BY <1>5, <1>6, <1>7, <1>8, <1>10, <1>11, <1>12 DEF AllocInv

(* The steps that leave the plan as it is. *)
LEMMA PlanStays ==
  ASSUME AllocInv, UNCHANGED <<input, allocations, slotsUsed, rejected>>,
         phase = "done" => phase' = "done", TypeOK', FloorInv', FloorsHoldWithinPasses'
  PROVE  AllocInv'
<1>1. Inputs' /\ PreSeated' = PreSeated /\ Pick' = Pick /\ (\A j : Cap(j)' = Cap(j))
      /\ NothingToDo' = NothingToDo
  BY InputsStay DEF AllocInv
<1>2. CapsRespected' /\ RejectedStayOut' /\ Funded'
  BY <1>1 DEF AllocInv, CapsRespected, RejectedStayOut, Funded
<1>3. Taken' = Taken /\ slots' = slots
  BY <1>1 DEF Taken, input
<1>4. SlotInv'
  BY <1>3 DEF AllocInv, SlotInv, Seated
<1> QED
  BY <1>1, <1>2, <1>4 DEF AllocInv

(* A pick with stake that is not below its floor clears it. *)
LEMMA NotBelowClears ==
  ASSUME AllocInv, NEW i \in 1 .. N, allocations[i] > 0, ~BelowFloor(i)
  PROVE  ClearsFloors(i)
<1>1. i \in Pick /\ i \notin rejected
  BY DEF AllocInv, Funded, RejectedStayOut
<1>2. Reward(i) \in Nat
  <2>1. R(i) \in Nat /\ D(i) \in Nat /\ allocations[i] \in Nat
    BY Figures DEF AllocInv, Funded, TypeOK
  <2>2. R(i) * allocations[i] \in Nat /\ D(i) + allocations[i] \in Nat \ {0}
    BY <2>1
  <2> QED
    BY <2>2, DivNat DEF Reward
<1>3. floors.gas \in Nat /\ floors.rewards \in Nat /\ cand[i].current \in Nat
  BY AllocatorAssumption DEF AllocInv, Inputs
<1>4. Reward(i) >= Threshold(i)
  <2>1. Threshold(i) \in Nat
    BY <1>3 DEF Threshold, Most
  <2> QED
    BY <1>1, <1>2, <2>1 DEF BelowFloor
<1> DEFINE w == Reward(i)
           g == floors.gas
           r == floors.rewards
<1>5. /\ w >= (IF cand[i].current > 0 THEN g ELSE IF g > r THEN g ELSE r)
      /\ w \in Nat /\ g \in Nat /\ r \in Nat
  BY <1>2, <1>3, <1>4 DEF Threshold, Most
<1> HIDE DEF w, g, r
<1>6. w >= g /\ (cand[i].current = 0 => w >= r)
  BY <1>3, <1>5
<1> QED
  BY <1>6 DEF ClearsFloors, w, g, r

(* What a step that keeps the inputs and a pick's stake keeps of it. *)
LEMMA ClearsStays ==
  ASSUME UNCHANGED input, NEW j \in 1 .. N, allocations'[j] = allocations[j]
  PROVE  ClearsFloors(j)' <=> ClearsFloors(j)
<1>1. R(j)' = R(j) /\ D(j)' = D(j) /\ cand' = cand /\ floors' = floors
  BY InputsStay DEF input
<1> QED
  BY <1>1 DEF ClearsFloors, Reward

LEMMA KeepFloorInv ==
  ASSUME AllocInv, NEW i \in 1 .. N, CheckFloor(i), ~BelowFloor(i)
  PROVE  AllocInv'
<1>1. /\ UNCHANGED <<input, phase, pass, iter, remaining, slotsUsed, reflowBudget, rejected, allocations>>
      /\ phase = "floor" /\ index = i /\ index' = index + 1
  BY DEF CheckFloor
<1>2. TypeOK'
  BY <1>1, AllocatorAssumption DEF AllocInv, TypeOK, input
<1>3. FloorInv'
  <2>1. \A j \in 1 .. N : j < index /\ allocations[j] > 0 => ClearsFloors(j)
    BY <1>1 DEF AllocInv, FloorInv
  <2>2. \A j \in 1 .. N : j < index' /\ allocations[j] > 0 => ClearsFloors(j)
    BY <1>1, <2>1, NotBelowClears, AllocatorAssumption
  <2>3. \A j \in 1 .. N : ClearsFloors(j)' <=> ClearsFloors(j)
    BY <1>1, ClearsStays
  <2> QED
    BY <1>1, <2>2, <2>3 DEF AllocInv, FloorInv
<1>4. FloorsHoldWithinPasses'
  BY <1>1 DEF FloorsHoldWithinPasses
<1> QED
  BY <1>1, <1>2, <1>3, <1>4, PlanStays

(* A dropped pick keeps its seat: what is taken stays the same. *)
LEMMA DropInv ==
  ASSUME AllocInv, NEW i \in 1 .. N, CheckFloor(i), BelowFloor(i)
  PROVE  AllocInv'
<1>1. /\ UNCHANGED <<input, phase, pass, iter, remaining, slotsUsed>>
      /\ phase = "floor" /\ index = i /\ index' = index + 1
      /\ reflowBudget' = reflowBudget + allocations[i]
      /\ rejected' = rejected \cup {i}
      /\ allocations' = [allocations EXCEPT ![i] = 0]
  BY DEF CheckFloor, Drop
<1>2. allocations \in [1 .. N -> Nat] /\ allocations[i] > 0 /\ i \notin rejected
  BY DEF AllocInv, TypeOK, BelowFloor
<1>3. Inputs' /\ PreSeated' = PreSeated /\ Pick' = Pick /\ (\A j : Cap(j)' = Cap(j))
      /\ NothingToDo' = NothingToDo
  BY <1>1, InputsStay DEF AllocInv
<1>4. TypeOK'
  BY <1>1, <1>2, AllocatorAssumption DEF AllocInv, TypeOK, input
<1>5. CapsRespected'
  <2>1. \A j \in 1 .. N : allocations'[j] <= allocations[j] /\ allocations'[j] \in Nat
    BY <1>1, <1>2
  <2>2. \A j \in 1 .. N : Cap(j) \in Nat /\ allocations[j] <= Cap(j)
    BY Figures DEF AllocInv, CapsRespected
  <2>3. \A j \in 1 .. N : allocations'[j] <= Cap(j)
    BY <1>2, <2>1, <2>2
  <2> QED
    BY <1>3, <2>3 DEF CapsRespected
<1>6. RejectedStayOut'
  BY <1>1, <1>2 DEF AllocInv, RejectedStayOut, TypeOK
<1>7. Funded'
  BY <1>1, <1>2, <1>3 DEF AllocInv, Funded
<1>8. SlotInv'
  <2>1. Taken' = Taken
    BY <1>1, <1>2, <1>3 DEF Taken
  <2>2. Seated /\ slots' = slots
    BY <1>1 DEF AllocInv, SlotInv, input
  <2> QED
    BY <1>1, <2>1, <2>2 DEF SlotInv, Seated
<1>9. FloorInv'
  <2>1. \A j \in 1 .. N : j < index /\ allocations[j] > 0 => ClearsFloors(j)
    BY <1>1 DEF AllocInv, FloorInv
  <2>2. ASSUME NEW j \in 1 .. N, j < index', allocations'[j] > 0
        PROVE  ClearsFloors(j)'
    <3>1. j # i /\ allocations'[j] = allocations[j]
      BY <1>1, <1>2, <2>2
    <3>2. j < index
      BY <1>1, <2>2, <3>1, AllocatorAssumption
    <3>3. ClearsFloors(j)
      BY <2>1, <2>2, <3>1, <3>2
    <3> QED
      BY <1>1, <3>1, <3>3, ClearsStays
  <2> QED
    BY <1>1, <2>2 DEF AllocInv, FloorInv
<1>10. FloorsHoldWithinPasses'
  BY <1>1 DEF FloorsHoldWithinPasses
<1> QED
  BY <1>3, <1>4, <1>5, <1>6, <1>7, <1>8, <1>9, <1>10 DEF AllocInv

LEMMA EndFillInv == ASSUME AllocInv, EndFill PROVE AllocInv'
<1>1. /\ UNCHANGED <<input, pass, iter, remaining, allocations, slotsUsed, rejected>>
      /\ phase = "fill" /\ floors' = floors
      /\ \/ phase' = "floor" /\ index' = 1 /\ reflowBudget' = 0
         \/ phase' = "done" /\ UNCHANGED floorPass /\ ~(floors.gas > 0) /\ ~(floors.rewards > 0)
  BY DEF EndFill, StartFloorPass, Stop, input
<1>2. TypeOK'
  <2>1. phase' \in {"floor", "done"}
    BY <1>1
  <2>2. index' \in 1 .. N + 1 /\ reflowBudget' \in Nat
    BY <1>1, AllocatorAssumption DEF AllocInv, TypeOK, floorPass
  <2> QED
    BY <1>1, <2>1, <2>2 DEF AllocInv, TypeOK, input
<1>3. FloorInv'
  <2>1. pass < ReflowPasses
    BY <1>1 DEF AllocInv, FloorInv
  <2> QED
    BY <1>1, <2>1, AllocatorAssumption DEF FloorInv
<1>4. FloorsHoldWithinPasses'
  <2>1. ASSUME phase' = "done" PROVE floors = [gas |-> 0, rewards |-> 0]
    <3>1. floors \in [gas : Nat, rewards : Nat]
      BY AllocatorAssumption DEF AllocInv, Inputs
    <3> QED
      BY <1>1, <2>1, <3>1
  <2> QED
    BY <1>1, <2>1 DEF FloorsHoldWithinPasses
<1> QED
  BY <1>1, <1>2, <1>3, <1>4, PlanStays

LEMMA EndFloorPassInv == ASSUME AllocInv, EndFloorPass PROVE AllocInv'
<1>1. /\ UNCHANGED <<input, pass, index, allocations, slotsUsed, rejected>>
      /\ phase = "floor" /\ index = N + 1 /\ reflowBudget' = 0
      /\ \/ phase' = "done" /\ UNCHANGED <<iter, remaining>>
         \/ phase' = "reflow" /\ iter' = 0 /\ remaining' = reflowBudget
  BY DEF EndFloorPass
<1>2. TypeOK'
  BY <1>1 DEF AllocInv, TypeOK, input
<1>3. FloorInv'
  BY <1>1 DEF AllocInv, FloorInv
<1>4. FloorsHoldWithinPasses'
  <2>1. \A j \in 1 .. N : allocations[j] > 0 => ClearsFloors(j)
    BY <1>1, AllocatorAssumption DEF AllocInv, FloorInv
  <2>2. \A j \in 1 .. N : ClearsFloors(j)' <=> ClearsFloors(j)
    BY <1>1, ClearsStays
  <2> QED
    BY <1>1, <2>1, <2>2 DEF FloorsHoldWithinPasses
<1> QED
  BY <1>1, <1>2, <1>3, <1>4, PlanStays

LEMMA EndReflowInv == ASSUME AllocInv, EndReflow PROVE AllocInv'
<1>1. /\ UNCHANGED <<input, iter, remaining, allocations, slotsUsed, rejected>>
      /\ phase = "reflow" /\ pass' = pass + 1
      /\ \/ phase' = "floor" /\ index' = 1 /\ reflowBudget' = 0 /\ pass + 1 < ReflowPasses
         \/ phase' = "done" /\ UNCHANGED floorPass /\ ~(pass + 1 < ReflowPasses)
  BY DEF EndReflow, StartFloorPass, Stop
<1>2. pass \in 0 .. ReflowPasses /\ pass < ReflowPasses
  BY <1>1 DEF AllocInv, FloorInv, TypeOK
<1>3. TypeOK'
  <2>1. pass' \in 0 .. ReflowPasses
    BY <1>1, <1>2, AllocatorAssumption
  <2>2. phase' \in {"floor", "done"}
    BY <1>1
  <2>3. index' \in 1 .. N + 1 /\ reflowBudget' \in Nat
    BY <1>1, AllocatorAssumption DEF AllocInv, TypeOK, floorPass
  <2> QED
    BY <1>1, <2>1, <2>2, <2>3 DEF AllocInv, TypeOK, input
<1>4. FloorInv'
  BY <1>1, <1>2, AllocatorAssumption DEF FloorInv
<1>5. FloorsHoldWithinPasses'
  BY <1>1, <1>2 DEF FloorsHoldWithinPasses
<1> QED
  BY <1>1, <1>3, <1>4, <1>5, PlanStays

LEMMA StutterInv == ASSUME AllocInv, UNCHANGED vars PROVE AllocInv'
<1>1. UNCHANGED <<input, phase, pass, iter, remaining, floorPass, allocations, slotsUsed, rejected>>
  BY DEF vars
<1>2. TypeOK'
  BY <1>1 DEF AllocInv, TypeOK, input, floorPass
<1>3. \A j \in 1 .. N : ClearsFloors(j)' <=> ClearsFloors(j)
  BY <1>1, ClearsStays
<1>4. FloorInv' /\ FloorsHoldWithinPasses'
  BY <1>1, <1>3 DEF AllocInv, FloorInv, FloorsHoldWithinPasses, floorPass, input
<1> QED
  BY <1>1, <1>2, <1>4, PlanStays

LEMMA NextInv == AllocInv /\ [Next]_vars => AllocInv'
<1> SUFFICES ASSUME AllocInv, [Next]_vars PROVE AllocInv'
  OBVIOUS
<1>1. ASSUME NEW i \in 1 .. N, GiveChunk(i) PROVE AllocInv'
  BY <1>1, GiveChunkInv
<1>2. ASSUME NEW i \in 1 .. N, CheckFloor(i) PROVE AllocInv'
  BY <1>2, KeepFloorInv, DropInv
<1>3. CASE EndFill \/ EndFloorPass \/ EndReflow
  BY <1>3, EndFillInv, EndFloorPassInv, EndReflowInv
<1>4. CASE UNCHANGED vars
  BY <1>4, StutterInv
<1> QED
  BY <1>1, <1>2, <1>3, <1>4 DEF Next, Step, Finished

-----------------------------------------------------------------------------
(* The stake that is placed, with what is left and what is taken back.     *)
LEMMA PlacedSum ==
  ASSUME AllocInv
  PROVE  SumFunction(allocations) \in Int
<1>1. IsFiniteSet(1 .. N) /\ allocations \in [1 .. N -> Int]
  BY FS_Interval, AllocatorAssumption DEF AllocInv, TypeOK
<1>2. \A i \in 1 .. N : allocations[i] \in Int
  BY <1>1
<1> QED
  BY <1>1, <1>2, SumStep DEF SumFunction

LEMMA PlacedUpdate ==
  ASSUME AllocInv, NEW i \in 1 .. N, NEW v \in Int
  PROVE  SumFunction([allocations EXCEPT ![i] = v]) = SumFunction(allocations) - allocations[i] + v
<1>1. IsFiniteSet(1 .. N) /\ allocations \in [1 .. N -> Int]
  BY FS_Interval, AllocatorAssumption DEF AllocInv, TypeOK
<1> QED
  BY <1>1, SumUpdate

LEMMA BudgetInit == Init => BudgetRespected
<1> SUFFICES ASSUME Init PROVE BudgetRespected
  OBVIOUS
<1>1. IsFiniteSet(1 .. N) /\ DOMAIN allocations = 1 .. N /\ \A i \in 1 .. N : allocations[i] = 0
  BY FS_Interval, AllocatorAssumption DEF Init
<1>2. SumFunction(allocations) = 0
  BY <1>1, SumOfZeros DEF SumFunction
<1>3. available \in Nat /\ remaining = available /\ reflowBudget = 0
  BY AllocatorAssumption DEF Init
<1> QED
  BY <1>2, <1>3 DEF BudgetRespected

LEMMA BudgetNext == AllocInv /\ BudgetRespected /\ [Next]_vars => BudgetRespected'
<1> SUFFICES ASSUME AllocInv, BudgetRespected, [Next]_vars PROVE BudgetRespected'
  OBVIOUS
<1> DEFINE s == SumFunction(allocations)
<1>0. /\ s \in Int /\ remaining \in Nat /\ reflowBudget \in Nat /\ available \in Nat
      /\ s + remaining + reflowBudget <= available
  BY PlacedSum DEF AllocInv, TypeOK, BudgetRespected
<1>1. ASSUME NEW i \in 1 .. N, GiveChunk(i) PROVE BudgetRespected'
  <2>1. /\ MayGrow(i) /\ remaining > 0 /\ available' = available /\ reflowBudget' = reflowBudget
        /\ allocations' = [allocations EXCEPT ![i] = allocations[i] + Amount(i)]
        /\ remaining' = remaining - Amount(i)
    BY <1>1 DEF GiveChunk, Best, input, floorPass
  <2>2. Amount(i) \in Nat /\ allocations[i] \in Nat
    BY <2>1, AmountFits DEF AllocInv, TypeOK
  <2> DEFINE v == allocations[i] + Amount(i)
  <2>3. v \in Int /\ allocations' = [allocations EXCEPT ![i] = v]
    BY <2>1, <2>2
  <2> HIDE DEF v
  <2>4. SumFunction([allocations EXCEPT ![i] = v]) = SumFunction(allocations) - allocations[i] + v
    BY <2>3, PlacedUpdate
  <2>5. SumFunction(allocations') = s - allocations[i] + v
    BY <2>3, <2>4
  <2> HIDE DEF s
  <2>6. SumFunction(allocations') = s + Amount(i)
    BY <1>0, <2>2, <2>5 DEF v
  <2> QED
    BY <1>0, <2>1, <2>2, <2>6 DEF BudgetRespected
<1>2. ASSUME NEW i \in 1 .. N, CheckFloor(i) PROVE BudgetRespected'
  <2>1. available' = available /\ remaining' = remaining
    BY <1>2 DEF CheckFloor, input
  <2>2. CASE ~BelowFloor(i)
    BY <1>2, <2>1, <2>2 DEF CheckFloor, BudgetRespected
  <2>3. CASE BelowFloor(i)
    <3>1. /\ reflowBudget' = reflowBudget + allocations[i]
          /\ allocations' = [allocations EXCEPT ![i] = 0]
      BY <1>2, <2>3 DEF CheckFloor, Drop
    <3> DEFINE v == 0
    <3>2. v \in Int /\ v = 0 /\ allocations' = [allocations EXCEPT ![i] = v]
      BY <3>1
    <3> HIDE DEF v
    <3>3. SumFunction([allocations EXCEPT ![i] = v]) = SumFunction(allocations) - allocations[i] + v
      BY <3>2, PlacedUpdate
    <3>4. SumFunction(allocations') = s - allocations[i] + v
      BY <3>2, <3>3
    <3>5. allocations[i] \in Nat
      BY DEF AllocInv, TypeOK
    <3> HIDE DEF s
    <3> QED
      BY <1>0, <2>1, <3>1, <3>2, <3>4, <3>5 DEF BudgetRespected
  <2> QED
    BY <2>2, <2>3
<1>3. CASE EndFill \/ EndReflow \/ EndFloorPass
  <2>1. available' = available /\ allocations' = allocations
    BY <1>3 DEF EndFill, EndReflow, EndFloorPass, input
  <2>2. \/ remaining' = remaining /\ (reflowBudget' = 0 \/ reflowBudget' = reflowBudget)
        \/ remaining' = reflowBudget /\ reflowBudget' = 0
    BY <1>3 DEF EndFill, EndReflow, EndFloorPass, StartFloorPass, Stop, floorPass
  <2>3. SumFunction(allocations') = s
    BY <2>1
  <2> HIDE DEF s
  <2> QED
    BY <1>0, <2>1, <2>2, <2>3 DEF BudgetRespected
<1>4. CASE UNCHANGED vars
  BY <1>4 DEF vars, input, floorPass, BudgetRespected
<1> QED
  BY <1>1, <1>2, <1>3, <1>4 DEF Next, Step, Finished

-----------------------------------------------------------------------------
(* The figures that a pick's marginal is computed from, while it is filled.*)
LEMMA PickFigures ==
  ASSUME AllocInv, phase # "done", NEW i \in 1 .. N
  PROVE  /\ R(i) \in Nat /\ D(i) \in Nat /\ allocations[i] \in Nat /\ Whitelisted(i) \in BOOLEAN
         /\ R(i) * MarginalScale <= MaxMarginal
<1>1. TotalSignal # 0
  BY DEF AllocInv, Funded, NothingToDo
<1>2. cand[i] \in Candidate
  BY DEF AllocInv, Inputs
<1>3. R(i) * MarginalScale <= MaxMarginal
  BY <1>1, <1>2, SentinelAssumption DEF R
<1> QED
  BY <1>1, <1>3, Figures DEF AllocInv, TypeOK, Whitelisted

LEMMA EqualizedInit == Init => Equalized
<1> SUFFICES ASSUME Init, NEW i \in 1 .. N, allocations[i] > 0 PROVE FALSE
  BY DEF Equalized
<1> QED
  BY DEF Init

LEMMA EqualizedGiveChunk ==
  ASSUME AllocInv, AllocInv', Equalized, NEW i \in 1 .. N, GiveChunk(i)
  PROVE  Equalized'
<1>0. SUFFICES ASSUME phase' = "fill", NEW k \in 1 .. N, NEW j \in 1 .. N,
                      allocations'[k] > 0, MayGrow(j)'
               PROVE  Marginal(R(k), D(k), Most(0, allocations'[k] - ChunkSize), Whitelisted(k))
                        >= Marginal(R(j), D(j), allocations'[j], Whitelisted(j))
  <2>1. cand' = cand /\ available' = available
    BY DEF GiveChunk, input
  <2> QED
    BY <2>1 DEF Equalized, MarginalOf, R, D, Whitelisted, ChunkSize, Marginal
<1>1. /\ UNCHANGED input /\ phase = "fill" /\ rejected' = rejected
      /\ Best(i) /\ MayGrow(i) /\ remaining > 0
      /\ allocations' = [allocations EXCEPT ![i] = allocations[i] + Amount(i)]
      /\ slotsUsed' = slotsUsed + (IF allocations[i] = 0 /\ i \notin PreSeated THEN 1 ELSE 0)
  BY <1>0 DEF GiveChunk, Best
<1>2. Amount(i) \in Nat /\ Amount(i) <= ChunkSize /\ ChunkSize \in Nat
  <2>1. /\ ChunkSize \in Nat /\ Cap(i) \in Nat /\ allocations[i] \in Nat /\ remaining \in Nat
        /\ Amount(i) \in Nat
    BY <1>1, Figures, AmountFits DEF AllocInv, TypeOK
  <2> QED
    BY <2>1 DEF Amount, Least
<1> DEFINE m(l, a) == Marginal(R(l), D(l), a, Whitelisted(l))
           back(l, a) == Most(0, a - ChunkSize)
<1>3. \A l \in 1 .. N, a, b \in Nat : a <= b => m(l, b) <= m(l, a)
  <2> SUFFICES ASSUME NEW l \in 1 .. N, NEW a \in Nat, NEW b \in Nat, a <= b
               PROVE  m(l, b) <= m(l, a)
    OBVIOUS
  <2>1. phase # "done"
    BY <1>1
  <2>2. R(l) \in Nat /\ D(l) \in Nat /\ Whitelisted(l) \in BOOLEAN /\ R(l) * MarginalScale <= MaxMarginal
    BY <2>1, PickFigures
  <2> QED
    BY <2>2, MarginalAntitone
<1>4. \A l \in 1 .. N, a \in Nat : m(l, a) \in Nat
  <2> SUFFICES ASSUME NEW l \in 1 .. N, NEW a \in Nat PROVE m(l, a) \in Nat
    OBVIOUS
  <2>1. phase # "done"
    BY <1>1
  <2>2. R(l) \in Nat /\ D(l) \in Nat /\ Whitelisted(l) \in BOOLEAN
    BY <2>1, PickFigures
  <2> QED
    BY <2>2, MarginalNat
<1>5. /\ \A l \in 1 .. N : allocations[l] \in Nat /\ allocations'[l] \in Nat
      /\ \A l \in 1 .. N \ {i} : allocations'[l] = allocations[l]
      /\ allocations'[i] = allocations[i] + Amount(i)
  BY <1>1, <1>2 DEF AllocInv, TypeOK
<1>6. \A l \in 1 .. N : MarginalOf(l) = m(l, allocations[l])
  BY DEF MarginalOf
<1>7. MayGrow(j)
  <2>1. CASE j = i
    BY <1>1, <2>1
  <2>2. CASE j # i
    <3>1. allocations'[j] = allocations[j]
      BY <1>5, <2>2
    <3>2. PreSeated' = PreSeated /\ Pick' = Pick /\ Cap(j)' = Cap(j) /\ slots' = slots /\ cand' = cand
      BY <1>1, InputsStay DEF input
    <3>3. MarginalOf(j)' = MarginalOf(j)
      BY <3>1, <3>2 DEF MarginalOf, Marginal, R, D, Whitelisted
    <3>4. slotsUsed' >= slotsUsed /\ slotsUsed \in Nat /\ slotsUsed' \in Nat /\ slots \in Nat
      BY <1>1 DEF AllocInv, TypeOK
    <3>5. /\ j \in Pick \ rejected /\ allocations[j] < Cap(j) /\ MarginalOf(j) > 0
          /\ (allocations[j] = 0 /\ j \notin PreSeated => slotsUsed' < slots)
      BY <1>0, <1>1, <3>1, <3>2, <3>3 DEF MayGrow
    <3> QED
      BY <3>4, <3>5 DEF MayGrow
  <2> QED
    BY <2>1, <2>2
(* What the receiver of the chunk last had, is what the argmax looked at.  *)
<1>8. m(j, allocations[j]) <= m(i, allocations[i])
  <2>1. MarginalOf(j) < MarginalOf(i) \/ MarginalOf(j) = MarginalOf(i)
    BY <1>1, <1>7 DEF Best
  <2>2. m(i, allocations[i]) \in Nat /\ m(j, allocations[j]) \in Nat
    BY <1>4, <1>5
  <2> HIDE DEF m
  <2> QED
    BY <1>6, <2>1, <2>2
<1>9. m(j, allocations'[j]) <= m(j, allocations[j])
  <2>1. allocations[j] <= allocations'[j]
    BY <1>2, <1>5
  <2> HIDE DEF m
  <2> QED
    BY <1>3, <1>5, <2>1
<1>10. m(k, back(k, allocations'[k])) >= m(j, allocations[j])
  <2>1. CASE k = i
    <3>1. back(i, allocations'[i]) \in Nat /\ back(i, allocations'[i]) <= allocations[i]
      BY <1>2, <1>5 DEF Most
    <3>2. m(i, allocations[i]) <= m(i, back(i, allocations'[i]))
      <4> HIDE DEF m, back
      <4> QED
        BY <1>3, <1>5, <3>1
    <3>3. /\ m(i, back(i, allocations'[i])) \in Nat /\ m(i, allocations[i]) \in Nat
          /\ m(j, allocations[j]) \in Nat
      <4> HIDE DEF m, back
      <4> QED
        BY <1>4, <1>5, <3>1
    <3> HIDE DEF m, back
    <3> QED
      BY <1>8, <2>1, <3>2, <3>3
  <2>2. CASE k # i
    <3>1. allocations'[k] = allocations[k]
      BY <1>5, <2>2
    <3>2. m(k, back(k, allocations[k])) >= MarginalOf(j)
      BY <1>0, <1>1, <1>7, <3>1 DEF Equalized
    <3> QED
      BY <1>6, <3>1, <3>2
  <2> QED
    BY <2>1, <2>2
<1>11. back(k, allocations'[k]) \in Nat
  BY <1>2, <1>5 DEF Most
<1>12. /\ m(k, back(k, allocations'[k])) \in Nat /\ m(j, allocations[j]) \in Nat
       /\ m(j, allocations'[j]) \in Nat
  <2> HIDE DEF m, back
  <2> QED
    BY <1>4, <1>5, <1>11
<1>13. m(k, back(k, allocations'[k])) >= m(j, allocations'[j])
  <2> HIDE DEF m, back
  <2> QED
    BY <1>9, <1>10, <1>12
<1> QED
  BY <1>13

LEMMA EqualizedNext == AllocInv /\ AllocInv' /\ Equalized /\ [Next]_vars => Equalized'
<1> SUFFICES ASSUME AllocInv, AllocInv', Equalized, [Next]_vars PROVE Equalized'
  OBVIOUS
<1>1. ASSUME NEW i \in 1 .. N, GiveChunk(i) PROVE Equalized'
  BY <1>1, EqualizedGiveChunk
<1>2. CASE (\E i \in 1 .. N : CheckFloor(i)) \/ EndFill \/ EndReflow \/ EndFloorPass
  <2>1. phase' # "fill"
    BY <1>2 DEF CheckFloor, EndFill, EndReflow, EndFloorPass, StartFloorPass, Stop
  <2> QED
    BY <2>1 DEF Equalized
<1>3. CASE UNCHANGED vars
  <2>1. UNCHANGED <<input, phase, allocations, slotsUsed, rejected>>
    BY <1>3 DEF vars
  <2>2. cand' = cand /\ available' = available /\ slots' = slots /\ PreSeated' = PreSeated /\ Pick' = Pick
    BY <2>1, InputsStay DEF input
  <2>3. ChunkSize' = ChunkSize
    BY <2>2 DEF ChunkSize
  <2>4. \A j : MarginalOf(j)' = MarginalOf(j)
    BY <2>1, <2>2 DEF MarginalOf, Marginal, R, D, Whitelisted
  <2>5. \A j : MayGrow(j)' <=> MayGrow(j)
    BY <2>1, <2>2, <2>4 DEF MayGrow, Cap
  <2> QED
    BY <2>1, <2>2, <2>3, <2>4, <2>5 DEF Equalized, Marginal, R, D, Whitelisted
<1> QED
  BY <1>1, <1>2, <1>3 DEF Next, Step, Finished

-----------------------------------------------------------------------------
(* AllocInv is an invariant. *)
THEOREM AllocatorInvariance == Spec => []AllocInv
BY InitInv, NextInv, PTL DEF Spec

(* Amounts are never negative and phases are those of the code. *)
THEOREM AllocatorTypeCorrect == Spec => []TypeOK
<1>1. AllocInv => TypeOK
  BY DEF AllocInv
<1> QED
  BY <1>1, AllocatorInvariance, PTL

(* The two greedy loops never grow an allocation past its cap. *)
THEOREM CapsHold == Spec => []CapsRespected
<1>1. AllocInv => CapsRespected
  BY DEF AllocInv
<1> QED
  BY <1>1, AllocatorInvariance, PTL

(* The plan fits the slots, whatever was seated, claimed or dropped. *)
THEOREM SlotsHold == Spec => []SlotsRespected
<1>1. AllocInv => SlotsRespected
  BY SlotsFollow DEF AllocInv
<1> QED
  BY <1>1, AllocatorInvariance, PTL

(* A deployment dropped by a floor gets no stake from a later pass. *)
THEOREM RejectedNeverReturn == Spec => []RejectedStayOut
<1>1. AllocInv => RejectedStayOut
  BY DEF AllocInv
<1> QED
  BY <1>1, AllocatorInvariance, PTL

(* A plan made in fewer passes than the bound clears the floors. *)
THEOREM FloorsHoldWhenPassesSuffice == Spec => []FloorsHoldWithinPasses
<1>1. AllocInv => FloorsHoldWithinPasses
  BY DEF AllocInv
<1> QED
  BY <1>1, AllocatorInvariance, PTL

(* Nothing is placed twice or made up, through fill, drops and reflow. *)
THEOREM BudgetHolds == Spec => []BudgetRespected
<1>1. Init => AllocInv /\ BudgetRespected
  BY InitInv, BudgetInit
<1>2. (AllocInv /\ BudgetRespected) /\ [Next]_vars => (AllocInv /\ BudgetRespected)'
  BY NextInv, BudgetNext
<1> QED
  BY <1>1, <1>2, PTL DEF Spec

(* What OptimizerRun's Placement takes from Allocator.                     *)
PlanIsPlacement ==
  LET placed == {i \in 1 .. N : allocations[i] > 0}
  IN  /\ placed \subseteq Pick
      /\ Cardinality(placed) <= slots
      /\ SumFunction(allocations) <= available

(* Every plan, at every moment, is a placement as the run assumes it: only *)
(* picks, within the slots, within the stake.                              *)
THEOREM PlansArePlacements == Spec => []PlanIsPlacement
<1>1. AllocInv /\ BudgetRespected => PlanIsPlacement
  <2> SUFFICES ASSUME AllocInv, BudgetRespected PROVE PlanIsPlacement
    OBVIOUS
  <2>1. SumFunction(allocations) <= available
    <3> DEFINE s == SumFunction(allocations)
    <3>1. /\ s \in Int /\ remaining \in Nat /\ reflowBudget \in Nat /\ available \in Nat
          /\ s + remaining + reflowBudget <= available
      BY PlacedSum DEF AllocInv, TypeOK, BudgetRespected
    <3> HIDE DEF s
    <3>2. s <= available
      BY <3>1
    <3> QED
      BY <3>2 DEF s
  <2>2. SlotsRespected /\ {i \in 1 .. N : allocations[i] > 0} \subseteq Pick
    BY SlotsFollow DEF AllocInv, Funded
  <2> QED
    BY <2>1, <2>2 DEF PlanIsPlacement, SlotsRespected
<1> QED
  BY <1>1, AllocatorInvariance, BudgetHolds, PTL

(* Water-filling: no pick that could grow has a better marginal than one   *)
(* with stake had before its last chunk.                                   *)
THEOREM StakeIsEqualized == Spec => []Equalized
<1>1. Init => AllocInv /\ Equalized
  BY InitInv, EqualizedInit
<1>2. (AllocInv /\ Equalized) /\ [Next]_vars => (AllocInv /\ Equalized)'
  BY NextInv, EqualizedNext
<1> QED
  BY <1>1, <1>2, PTL DEF Spec

-----------------------------------------------------------------------------
(* The run: OptimizerRun. *)

(* What each stage has not filled in yet. *)
StagesInv ==
  /\ pc = "gather" => bulk = {} /\ \A d \in Deployment : held[d] = 0
  /\ pc \in {"gather", "status", "fallback"} => asked = {} /\ recovered = {}
  /\ pc # "done" => hydrated = {} /\ \A d \in Deployment : actions[d] = "none" /\ proposed[d] = 0

(* What has been reported when the last stage begins. *)
ReportedInv ==
  /\ pc \in {"status", "fallback", "decide"} /\ ~params => "params" \in errors
  /\ pc = "decide" /\ MissingStatus # {} => "statuses missing" \in warnings

RunInv ==
  /\ RunTypeOK /\ StagesInv /\ ReportedInv
  /\ ActionsReachProposal /\ AllocationsAreFit /\ CurrentsAskedFirst
  /\ ClosesAreExplained /\ NoPlanAfterAbort

-----------------------------------------------------------------------------
(* The amounts of an input are stakes. *)
LEMMA FactStakes ==
  ASSUME RunInv
  PROVE  \A d \in Deployment : fact[d].active \subseteq Nat /\ held[d] \in Nat
<1>1. \A d \in Deployment : fact[d] \in FactRecord
  BY RunAssumption DEF RunInv, RunTypeOK
<1>2. \A d \in Deployment : fact[d].active \subseteq Nat
  BY <1>1 DEF FactRecord
<1> QED
  BY <1>2 DEF RunInv, RunTypeOK

LEMMA RunInitInv == RunInit => RunInv
<1> SUFFICES ASSUME RunInit PROVE RunInv
  OBVIOUS
<1>1. RunTypeOK
  BY RunAssumption DEF RunInit, RunTypeOK, Source, Note
<1>2. StagesInv /\ ReportedInv /\ CurrentsAskedFirst /\ NoPlanAfterAbort
  BY DEF RunInit, StagesInv, ReportedInv, CurrentsAskedFirst, NoPlanAfterAbort
<1>3. ActionsReachProposal /\ AllocationsAreFit /\ ClosesAreExplained
  BY DEF RunInit, ActionsReachProposal, AllocationsAreFit, ClosesAreExplained
<1> QED
  BY <1>1, <1>2, <1>3 DEF RunInv

(* Steps that do not end in a result. *)
LEMMA NoResultYet ==
  ASSUME RunInv, UNCHANGED <<given, plan>>, pc # "done", pc' # "done"
  PROVE  (ActionsReachProposal /\ AllocationsAreFit /\ ClosesAreExplained /\ NoPlanAfterAbort)'
<1>1. \A d \in Deployment : actions'[d] = "none"
  BY DEF RunInv, StagesInv, plan
<1> QED
  BY <1>1 DEF ActionsReachProposal, AllocationsAreFit, ClosesAreExplained, NoPlanAfterAbort

LEMMA AbortInv == ASSUME RunInv, Abort \/ Throw PROVE RunInv'
<1>1. /\ UNCHANGED <<given, gathered, statuses, asked, recovered, hydrated, errors, warnings, plan>>
      /\ pc # "done" /\ pc' # "done" /\ pc' \in {pc, "thrown"} /\ aborted' \in BOOLEAN
  BY DEF Abort, Throw, RunInv, RunTypeOK
<1>2. currents' = currents /\ Candidates' = Candidates /\ Tracked' = Tracked /\ ToHydrate' = ToHydrate
      /\ MissingStatus' = MissingStatus
  BY <1>1 DEF given, gathered, statuses, Candidates, Listed, currents, Tracked, ToHydrate, MissingStatus
<1>3. RunTypeOK'
  BY <1>1, <1>2 DEF RunInv, RunTypeOK, given, gathered, statuses, plan
<1>4. StagesInv' /\ ReportedInv'
  BY <1>1, <1>2 DEF RunInv, StagesInv, ReportedInv, gathered, statuses, plan
<1>5. CurrentsAskedFirst'
  BY <1>1, <1>2 DEF RunInv, CurrentsAskedFirst, gathered
<1> QED
  BY <1>1, <1>3, <1>4, <1>5, NoResultYet DEF RunInv

LEMMA NoIndexerInv == ASSUME RunInv, GatherNoIndexer PROVE RunInv'
<1>1. /\ UNCHANGED <<given, aborted, gathered, statuses, asked, recovered, hydrated, plan>>
      /\ pc = "gather" /\ pc' = "done" /\ ~aborted
      /\ errors' \subseteq {"indexer"} /\ warnings' = {"no indexer"}
  BY DEF GatherNoIndexer, GoesOn
<1>2. /\ held' = held /\ asked' = {}
      /\ \A d \in Deployment : actions'[d] = "none" /\ proposed'[d] = 0 /\ held'[d] = 0
      /\ currents' = {}
  <2>1. held' = held /\ asked' = {}
        /\ \A d \in Deployment : actions'[d] = "none" /\ proposed'[d] = 0 /\ held'[d] = 0
    BY <1>1 DEF RunInv, StagesInv, gathered, plan
  <2>2. \A d \in Deployment : ~(held'[d] > 0)
    BY <2>1
  <2> QED
    BY <2>1, <2>2 DEF currents
<1>3. Candidates' = Candidates /\ Tracked' = Tracked /\ ToHydrate' = ToHydrate
      /\ MissingStatus' = MissingStatus
  BY <1>1 DEF given, gathered, statuses, Candidates, Listed, currents, Tracked, ToHydrate, MissingStatus
<1>4. RunTypeOK'
  BY <1>1, <1>3 DEF RunInv, RunTypeOK, given, gathered, statuses, plan, Source, Note
<1>5. StagesInv' /\ ReportedInv' /\ CurrentsAskedFirst'
  BY <1>1, <1>2 DEF StagesInv, ReportedInv, CurrentsAskedFirst
<1>6. ActionsReachProposal' /\ AllocationsAreFit' /\ ClosesAreExplained' /\ NoPlanAfterAbort'
  BY <1>1, <1>2 DEF ActionsReachProposal, AllocationsAreFit, ClosesAreExplained, NoPlanAfterAbort,
                    Turns
<1> QED
  BY <1>4, <1>5, <1>6 DEF RunInv

LEMMA GatherInv ==
  ASSUME RunInv, NEW failed \in SUBSET {"active", "signalled", "params"},
         NEW largest \in Shown, NEW high \in SUBSET Deployment,
         Gather(failed, largest, high)
  PROVE  RunInv'
<1>1. /\ UNCHANGED <<given, aborted, statuses, asked, recovered, hydrated, warnings, plan>>
      /\ pc = "gather" /\ pc' = "status" /\ errors' = failed
      /\ params' \in BOOLEAN /\ (~params' => "params" \in failed)
      /\ held' = largest /\ signalled' \subseteq Deployment
  BY DEF Gather
<1>2. bulk = {} /\ asked = {} /\ recovered = {} /\ hydrated = {}
  BY <1>1 DEF RunInv, StagesInv
<1>3. /\ held' \in [Deployment -> Nat]
      /\ \A d \in Deployment : held'[d] \in fact[d].active \cup {0}
  <2>1. \A d \in Deployment : fact[d].active \subseteq Nat
    BY FactStakes
  <2>2. /\ largest \in [Deployment -> {0} \cup UNION {fact[d].active : d \in Deployment}]
        /\ \A d \in Deployment : largest[d] \in fact[d].active \cup {0}
    BY DEF Shown
  <2> QED
    BY <1>1, <2>1, <2>2
<1>4. RunTypeOK'
  BY <1>1, <1>2, <1>3 DEF RunInv, RunTypeOK, given, statuses, plan, Source
<1>5. StagesInv' /\ ReportedInv' /\ CurrentsAskedFirst'
  BY <1>1, <1>2 DEF RunInv, StagesInv, ReportedInv, CurrentsAskedFirst, plan
<1> QED
  BY <1>1, <1>4, <1>5, NoResultYet DEF RunInv

LEMMA ReadStatusesInv ==
  ASSUME RunInv, NEW failed \in SUBSET {"statuses", "epochs"}, NEW got \in SUBSET Deployment,
         NEW rows \in SUBSET Chain, ReadStatuses(failed, got, rows)
  PROVE  RunInv'
<1>1. /\ UNCHANGED <<given, aborted, gathered, asked, recovered, hydrated, plan>>
      /\ pc = "status" /\ bulk' = got /\ got \subseteq Tracked
      /\ starts' = rows
      /\ errors' = errors \cup (failed \ {"epochs"}) /\ warnings' = warnings \cup (failed \cap {"epochs"})
      /\ pc' = (IF Candidates \subseteq got THEN "decide" ELSE "fallback")
  BY DEF ReadStatuses, Blamed
<1>2. asked = {} /\ recovered = {} /\ hydrated = {}
  BY <1>1 DEF RunInv, StagesInv
<1>3. Tracked' = Tracked /\ Candidates' = Candidates
  BY <1>1 DEF given, gathered, Tracked, Candidates, Listed, currents
<1>4. RunTypeOK'
  BY <1>1, <1>2, <1>3 DEF RunInv, RunTypeOK, given, gathered, plan, Source, Note
<1>5. StagesInv' /\ CurrentsAskedFirst'
  BY <1>1, <1>2 DEF RunInv, StagesInv, CurrentsAskedFirst, plan
<1>6. ReportedInv'
  BY <1>1, <1>3 DEF RunInv, ReportedInv, gathered, MissingStatus
<1> QED
  BY <1>1, <1>4, <1>5, <1>6, NoResultYet DEF RunInv

LEMMA FallbackInv ==
  ASSUME RunInv, NEW targets \in SUBSET Deployment, NEW got \in SUBSET Deployment,
         Fallback(targets, got)
  PROVE  RunInv'
<1>1. /\ UNCHANGED <<given, aborted, gathered, statuses, hydrated, errors, plan>>
      /\ pc = "fallback" /\ pc' = "decide" /\ asked' = targets /\ recovered' = got
      /\ targets \subseteq MissingStatus /\ got \subseteq targets \cap Tracked
      /\ \A d \in targets, e \in MissingStatus \ targets : Rank(d) <= Rank(e)
      /\ warnings' = warnings \cup {"statuses missing"}
  BY DEF Fallback, Slice
<1>2. currents' = currents /\ Candidates' = Candidates /\ Tracked' = Tracked /\ ToHydrate' = ToHydrate
      /\ MissingStatus' = MissingStatus
  BY <1>1 DEF given, gathered, statuses, Candidates, Listed, currents, Tracked, ToHydrate, MissingStatus
<1>3. RunTypeOK'
  BY <1>1, <1>2 DEF RunInv, RunTypeOK, given, gathered, statuses, plan, Note
<1>4. StagesInv' /\ ReportedInv'
  BY <1>1, <1>2 DEF RunInv, StagesInv, ReportedInv, gathered, statuses, plan
<1>5. CurrentsAskedFirst'
  <2>1. ASSUME NEW d \in targets, d \notin currents, NEW e \in MissingStatus \cap currents,
               e \notin targets
        PROVE  FALSE
    <3>1. Rank(d) <= Rank(e)
      BY <1>1, <2>1
    <3>2. Rank(e) = 1 /\ (Rank(d) = 2 \/ Rank(d) = 3)
      BY <2>1 DEF Rank
    <3> QED
      BY <3>1, <3>2
  <2> QED
    BY <1>1, <1>2, <2>1 DEF CurrentsAskedFirst, gathered
<1> QED
  BY <1>1, <1>3, <1>4, <1>5, NoResultYet DEF RunInv

-----------------------------------------------------------------------------
(* What the filter lets through is fit to be allocated to. *)
LEMMA PicksAreFit ==
  ASSUME RunInv, pc = "decide", NEW read, NEW d \in Picks(read)
  PROVE  /\ "black" \notin fact[d].lists
         /\ fact[d].denied => "white" \in fact[d].lists
         /\ \/ fact[d].status = "ready"
            \/ fact[d].status \in {"behind", "blockless"} /\ fact[d].chain \notin starts
               /\ (starts = {} \/ "chain unmatched" \in GateNotes(read))
            \/ fact[d].status = "blockless" /\ "no latest block" \in GateNotes(read)
<1>1. d \in Deployment /\ Admitted(d, read) /\ Known(d, read)
  BY DEF Picks, Optimizable
<1>2. fact[d] \in FactRecord
  BY <1>1, RunAssumption DEF RunInv, RunTypeOK
<1>3. fact[d].status \in {"none", "unhealthy", "paused", "never", "behind", "blockless", "ready"}
  BY <1>2 DEF FactRecord
<1>4. fact[d].status # "none"
  BY <1>1 DEF Admitted, ReachesGate, Healthy, HasStatus, RunInv, RunTypeOK, Tracked
<1>5. fact[d].status \notin {"unhealthy", "paused", "never"}
  BY <1>1 DEF Admitted, ReachesGate, Healthy, Paused
<1>6. /\ fact[d].chain \notin starts => starts = {} \/ "chain unmatched" \in GateNotes(read)
      /\ fact[d].chain \in starts /\ fact[d].status = "blockless" => "no latest block" \in GateNotes(read)
  BY <1>1 DEF Admitted, GateNotes
<1>7. fact[d].status = "behind" => fact[d].chain \notin starts
  BY <1>1 DEF Admitted
<1> QED
  BY <1>1, <1>3, <1>4, <1>5, <1>6, <1>7 DEF Admitted, ReachesGate, Known, Listed

(* A fit allocation that is no pick lacks a status or its lookup. *)
LEMMA WhyNotPicked ==
  ASSUME RunInv, pc = "decide", NEW read \in SUBSET ToHydrate, NEW failed \in SUBSET ToHydrate,
         ReportLookups(read, failed), NEW d \in currents, Fit(d), d \notin Picks(read)
  PROVE  \/ ~HasStatus(d) /\ "statuses missing" \in warnings'
         \/ ~Known(d, read) /\ ("deployment" \in errors' \/ "deployment null" \in warnings')
<1>1. d \in Candidates /\ d \notin Listed("black") /\ d \notin Listed("frozen") /\ d \in Deployment
      /\ (fact[d].denied => d \in Listed("white"))
      /\ fact[d].status = "ready" /\ fact[d].signal # "none"
  BY DEF Fit, Candidates, Listed, currents
<1>2. CASE ~HasStatus(d)
  <2>1. d \in MissingStatus
    BY <1>1, <1>2 DEF HasStatus, MissingStatus
  <2>2. "statuses missing" \in warnings
    BY <2>1 DEF RunInv, ReportedInv
  <2> QED
    BY <1>2, <2>2 DEF ReportLookups
<1>3. CASE ~Known(d, read)
  <2>1. d \in ToHydrate /\ d \notin read
    BY <1>1, <1>3 DEF Known, ToHydrate
  <2> QED
    BY <1>3, <2>1 DEF ReportLookups
<1>4. CASE HasStatus(d) /\ Known(d, read)
  BY <1>1, <1>4 DEF Picks, Optimizable, Admitted, ReachesGate, Healthy, Paused
<1> QED
  BY <1>2, <1>3, <1>4

LEMMA DecideInv ==
  ASSUME RunInv, NEW read \in SUBSET Deployment, NEW failed \in SUBSET Deployment,
         NEW p \in [Deployment -> Stakes], Decide(read, failed, p)
  PROVE  RunInv'
<1>1. /\ UNCHANGED <<given, aborted, gathered, statuses, asked, recovered>>
      /\ pc = "decide" /\ pc' = "done" /\ ~aborted
      /\ read \subseteq ToHydrate /\ failed \subseteq ToHydrate
      /\ hydrated' = read /\ ReportLookups(read, failed)
      /\ proposed' = [d \in Deployment |-> IF d \in Frozen THEN held[d] ELSE p[d]]
      /\ actions' = [d \in Deployment |-> Diff(d, p[d])]
  BY DEF Decide, GoesOn, Propose
<1>2. currents' = currents /\ Candidates' = Candidates /\ Tracked' = Tracked /\ ToHydrate' = ToHydrate
      /\ MissingStatus' = MissingStatus
  BY <1>1 DEF given, gathered, statuses, Candidates, Listed, currents, Tracked, ToHydrate, MissingStatus
<1>3. /\ \A d \in Deployment : p[d] \in Nat /\ (p[d] > 0 => d \in Picks(read))
      /\ ~params => \A d \in Deployment : p[d] = 0
  <2>1. \A d \in Deployment : p[d] \in Nat
    BY RunAssumption
  <2>2. {d \in Deployment : p[d] > 0} \subseteq Picks(read)
        /\ (~params => {d \in Deployment : p[d] > 0} = {})
    BY DEF Decide, Placement
  <2> QED
    BY <2>1, <2>2
<1>4. \A d \in Deployment : held[d] \in Nat /\ (d \in currents <=> held[d] > 0)
  BY FactStakes DEF currents
<1>5. RunTypeOK'
  <2>1. proposed' \in [Deployment -> Nat]
    BY <1>1, <1>3, <1>4
  <2>2. actions' \in [Deployment -> {"none", "allocate", "unallocate", "reallocate"}]
    BY <1>1 DEF Diff
  <2>3. errors' \subseteq Source /\ warnings' \subseteq Note
    BY <1>1 DEF ReportLookups, GateNotes, RunInv, RunTypeOK, Source, Note
  <2> QED
    BY <1>1, <1>2, <2>1, <2>2, <2>3 DEF RunInv, RunTypeOK, given, gathered, statuses
<1>6. StagesInv' /\ ReportedInv' /\ NoPlanAfterAbort'
  BY <1>1 DEF StagesInv, ReportedInv, NoPlanAfterAbort
<1>7. CurrentsAskedFirst'
  BY <1>1, <1>2 DEF RunInv, CurrentsAskedFirst, gathered
<1>8. ActionsReachProposal'
  <2> SUFFICES ASSUME NEW d \in Deployment
               PROVE  Turns(actions'[d], held[d], proposed'[d])
    BY <1>1 DEF ActionsReachProposal, Turns, gathered
  <2>2. p[d] \in Nat /\ held[d] \in Nat /\ (d \in currents <=> held[d] > 0)
        /\ (d \in Listed("frozen") => p[d] = 0)
    BY <1>3, <1>4 DEF Picks, Optimizable
  <2>3. /\ proposed'[d] = (IF d \in Frozen THEN held[d] ELSE p[d])
        /\ actions'[d] = Diff(d, p[d])
    BY <1>1
  <2>4. d \in Frozen <=> d \in currents /\ d \in Listed("frozen")
    BY DEF Frozen
  <2>5. CASE d \in Listed("frozen")
    BY <2>2, <2>3, <2>4, <2>5 DEF Diff, Turns
  <2>6. CASE d \notin Listed("frozen") /\ d \notin currents
    BY <2>2, <2>3, <2>4, <2>6 DEF Diff, Turns
  <2>7. CASE d \notin Listed("frozen") /\ d \in currents
    BY <2>2, <2>3, <2>4, <2>7 DEF Diff, Turns
  <2> QED
    BY <2>5, <2>6, <2>7
<1>9. AllocationsAreFit'
  <2> SUFFICES ASSUME NEW d \in Deployment, actions'[d] \in {"allocate", "reallocate"}
               PROVE  /\ "black" \notin fact[d].lists
                      /\ fact[d].denied => "white" \in fact[d].lists
                      /\ \/ fact[d].status = "ready"
                         \/ /\ fact[d].status \in {"behind", "blockless"}
                            /\ fact[d].chain \notin starts
                            /\ starts = {} \/ "chain unmatched" \in warnings'
                         \/ fact[d].status = "blockless" /\ "no latest block" \in warnings'
    BY <1>1 DEF AllocationsAreFit, GateStoodOpen, given, statuses
  <2>1. d \in Picks(read)
    BY <1>1, <1>3 DEF Diff
  <2>2. GateNotes(read) \subseteq warnings'
    BY <1>1 DEF ReportLookups
  <2> QED
    BY <1>1, <2>1, <2>2, PicksAreFit
<1>10. ClosesAreExplained'
  <2>1. /\ params' = params /\ held' = held /\ currents' = currents /\ fact' = fact
        /\ \A d : Fit(d)' <=> Fit(d)
        /\ \A d : HasStatus(d)' <=> HasStatus(d)
        /\ \A d : Known(d, hydrated)' <=> Known(d, read)
    BY <1>1 DEF given, gathered, statuses, Fit, HasStatus, Known, currents
  <2>2. Picks(hydrated)' = Picks(read)
    BY <1>1, <1>2 DEF given, gathered, statuses, Picks, Optimizable, Admitted, ReachesGate,
                Known, Healthy, Paused, HasStatus, Listed
  <2>3. params \/ ("params" \in errors' /\ "empty plan" \in warnings')
    BY <1>1 DEF RunInv, ReportedInv, ReportLookups
  <2>4. ASSUME NEW d \in currents, Fit(d), params, d \notin Picks(read)
        PROVE  \/ ~HasStatus(d) /\ "statuses missing" \in warnings'
               \/ ~Known(d, read) /\ ("deployment" \in errors' \/ "deployment null" \in warnings')
    BY <1>1, <2>4, WhyNotPicked
  <2> QED
    BY <2>1, <2>2, <2>3, <2>4 DEF ClosesAreExplained
<1> QED
  BY <1>5, <1>6, <1>7, <1>8, <1>9, <1>10 DEF RunInv

LEMMA RunStutterInv == ASSUME RunInv, UNCHANGED runVars PROVE RunInv'
<1>1. UNCHANGED <<given, pc, aborted, gathered, statuses, asked, recovered, hydrated, errors, warnings,
                  plan>>
  BY DEF runVars
<1>2. currents' = currents /\ Candidates' = Candidates /\ Tracked' = Tracked /\ ToHydrate' = ToHydrate
      /\ MissingStatus' = MissingStatus
  BY <1>1 DEF given, gathered, statuses, Candidates, Listed, currents, Tracked, ToHydrate, MissingStatus
<1>3. /\ \A d : HasStatus(d)' <=> HasStatus(d)
      /\ \A d : Fit(d)' <=> Fit(d)
      /\ \A d : Known(d, hydrated)' <=> Known(d, hydrated)
      /\ currents' = currents /\ \A d : GateStoodOpen(d)' <=> GateStoodOpen(d)
      /\ Picks(hydrated)' = Picks(hydrated)
  BY <1>1, <1>2 DEF given, gathered, statuses, HasStatus, Fit, Known, Picks, Optimizable,
                    Admitted, ReachesGate, Healthy, Paused, Listed, currents, GateStoodOpen
<1>4. RunTypeOK' /\ StagesInv' /\ ReportedInv'
  BY <1>1, <1>2 DEF RunInv, RunTypeOK, StagesInv, ReportedInv, given, gathered, statuses, plan
<1>5. ActionsReachProposal' /\ CurrentsAskedFirst' /\ NoPlanAfterAbort'
  BY <1>1, <1>2, <1>3 DEF RunInv, ActionsReachProposal, Turns, CurrentsAskedFirst, NoPlanAfterAbort,
                          gathered, plan
<1>6. AllocationsAreFit' /\ ClosesAreExplained'
  BY <1>1, <1>3 DEF RunInv, AllocationsAreFit, ClosesAreExplained, given, gathered, plan
<1> QED
  BY <1>4, <1>5, <1>6 DEF RunInv

LEMMA RunNextInv == RunInv /\ [RunNext]_runVars => RunInv'
BY AbortInv, NoIndexerInv, GatherInv, ReadStatusesInv, FallbackInv, DecideInv, RunStutterInv
   DEF RunNext, RunFinished

-----------------------------------------------------------------------------
(* RunInv is an invariant. *)
THEOREM RunInvariance == RunSpec => []RunInv
BY RunInitInv, RunNextInv, PTL DEF RunSpec

(* The run's sets stay within what it was given. *)
THEOREM RunTypeCorrect == RunSpec => []RunTypeOK
<1>1. RunInv => RunTypeOK
  BY DEF RunInv
<1> QED
  BY <1>1, RunInvariance, PTL

(* The actions turn what was seen into what is proposed. *)
THEOREM DiffIsExact == RunSpec => []ActionsReachProposal
<1>1. RunInv => ActionsReachProposal
  BY DEF RunInv
<1> QED
  BY <1>1, RunInvariance, PTL

(* Stake is only sent to deployments that may earn with it. *)
THEOREM StakeGoesToTheFit == RunSpec => []AllocationsAreFit
<1>1. RunInv => AllocationsAreFit
  BY DEF RunInv
<1> QED
  BY <1>1, RunInvariance, PTL

(* Missing statuses of current allocations are asked for first. *)
THEOREM CurrentsComeFirst == RunSpec => []CurrentsAskedFirst
<1>1. RunInv => CurrentsAskedFirst
  BY DEF RunInv
<1> QED
  BY <1>1, RunInvariance, PTL

(* A fit allocation is closed unconsidered only with the cause reported. *)
THEOREM ClosesCarryTheirCause == RunSpec => []ClosesAreExplained
<1>1. RunInv => ClosesAreExplained
  BY DEF RunInv
<1> QED
  BY <1>1, RunInvariance, PTL

(* No plan is returned to a caller that has given up. *)
THEOREM AbortedRunsThrow == RunSpec => []NoPlanAfterAbort
<1>1. RunInv => NoPlanAfterAbort
  BY DEF RunInv
<1> QED
  BY <1>1, RunInvariance, PTL

-----------------------------------------------------------------------------
(* What the proposal of a decision is made of: the frozen allocations, and *)
(* a placement that gives nothing to them.                                 *)
LEMMA StakeOfDeployments ==
  ASSUME RunInv
  PROVE  /\ IsFiniteSet(Deployment) /\ Frozen \subseteq Deployment
         /\ \A d \in Deployment : held[d] \in Nat
         /\ FrozenStake \in Int
         /\ IsFiniteSet(Frozen) /\ Cardinality(Frozen) \in Nat
<1>1. \A d \in Deployment : held[d] \in Nat
  BY FactStakes
<1>2. IsFiniteSet(Deployment) /\ Frozen \subseteq Deployment
  BY RunAssumption DEF Frozen, Listed
<1>3. IsFiniteSet(Frozen) /\ Cardinality(Frozen) \in Nat
  BY <1>2, FS_Subset, FS_CardinalityType
<1>4. FrozenStake \in Int
  <2>1. \A d \in Deployment : held[d] \in Int
    BY <1>1
  <2>2. SumFunctionOnSet(held, Frozen) \in Int
    BY <1>2, <2>1, SumStep
  <2> QED
    BY <2>2 DEF FrozenStake
<1> QED
  BY <1>1, <1>2, <1>3, <1>4

LEMMA NothingForFrozen ==
  ASSUME RunInv, NEW p \in [Deployment -> Stakes], NEW read, Placement(p, read)
  PROVE  \A d \in Deployment : p[d] \in Nat /\ (d \in Frozen => p[d] = 0)
<1>1. \A d \in Deployment : p[d] \in Nat
  BY RunAssumption
<1>2. {d \in Deployment : p[d] > 0} \subseteq Picks(read)
  BY DEF Placement
<1>3. \A d \in Deployment : p[d] > 0 => d \notin Frozen
  BY <1>2 DEF Picks, Optimizable, Frozen
<1> QED
  BY <1>1, <1>3

LEMMA ProposalSum ==
  ASSUME RunInv, NEW p \in [Deployment -> Stakes], NEW read, Placement(p, read)
  PROVE  /\ SumFunction(Propose(p)) = FrozenStake + SumFunction(p)
         /\ SumFunction(p) \in Int /\ SumFunction(Propose(p)) \in Int
<1> DEFINE f == held
           g == Propose(p)
           Rest == Deployment \ Frozen
<1>1. /\ IsFiniteSet(Deployment) /\ Frozen \subseteq Deployment /\ IsFiniteSet(Frozen)
      /\ IsFiniteSet(Rest) /\ Rest \subseteq Deployment
      /\ \A d \in Deployment : p[d] \in Nat /\ (d \in Frozen => p[d] = 0)
  BY StakeOfDeployments, NothingForFrozen, FS_Subset
<1>2. /\ \A d \in Deployment : f[d] \in Int /\ g[d] \in Int
      /\ \A d \in Frozen : g[d] = f[d]
      /\ \A d \in Rest : g[d] = p[d]
      /\ DOMAIN g = Deployment /\ DOMAIN p = Deployment
  BY <1>1, StakeOfDeployments DEF Propose
<1> HIDE DEF f, g, Rest
<1>3. SumFunctionOnSet(g, Frozen) = SumFunctionOnSet(f, Frozen)
  BY <1>1, <1>2, SumSame
<1>4. SumFunctionOnSet(g, Rest) = SumFunctionOnSet(p, Rest)
  BY <1>1, <1>2, SumSame
<1>5. SumFunctionOnSet(p, Frozen) = 0
  BY <1>1, SumOfZeros
<1>6. SumFunctionOnSet(g, Deployment) = SumFunctionOnSet(g, Frozen) + SumFunctionOnSet(g, Rest)
  BY <1>1, <1>2, SumSplit DEF Rest
<1>7. SumFunctionOnSet(p, Deployment) = SumFunctionOnSet(p, Frozen) + SumFunctionOnSet(p, Rest)
  <2>1. \A d \in Deployment : p[d] \in Int
    BY <1>1
  <2> QED
    BY <1>1, <2>1, SumSplit DEF Rest
<1>8. /\ SumFunctionOnSet(g, Deployment) \in Int /\ SumFunctionOnSet(p, Deployment) \in Int
      /\ SumFunctionOnSet(g, Rest) \in Int
  BY <1>1, <1>2, SumStep
<1>9. SumFunction(g) = SumFunctionOnSet(g, Deployment) /\ SumFunction(p) = SumFunctionOnSet(p, Deployment)
  BY <1>2 DEF SumFunction
<1>10. SumFunctionOnSet(f, Frozen) = FrozenStake
  BY DEF f, FrozenStake
<1>11. /\ SumFunction(g) = FrozenStake + SumFunction(p)
       /\ SumFunction(p) \in Int /\ SumFunction(g) \in Int
  BY <1>3, <1>4, <1>5, <1>6, <1>7, <1>8, <1>9, <1>10
<1> QED
  BY <1>11 DEF g

LEMMA ProposalCount ==
  ASSUME RunInv, NEW p \in [Deployment -> Stakes], NEW read, Placement(p, read)
  PROVE  LET taken == Cardinality({d \in Deployment : Propose(p)[d] > 0})
         IN  taken <= seats \/ taken <= Cardinality(Frozen)
<1> DEFINE Held == {d \in Deployment : Propose(p)[d] > 0}
           Placed == {d \in Deployment : p[d] > 0}
<1>1. Held \subseteq Frozen \cup Placed /\ Placed \subseteq Deployment /\ Held \subseteq Deployment
  BY DEF Propose
<1>2. Cardinality(Placed) <= Slots
  BY DEF Placement
<1> HIDE DEF Held, Placed
<1>3. IsFiniteSet(Frozen) /\ IsFiniteSet(Placed) /\ IsFiniteSet(Held)
  BY <1>1, StakeOfDeployments, FS_Subset
<1>4. /\ Cardinality(Frozen) \in Nat /\ Cardinality(Placed) \in Nat /\ Cardinality(Held) \in Nat
      /\ Cardinality(Frozen \cap Placed) \in Nat
  <2>1. IsFiniteSet(Frozen \cap Placed)
    BY <1>3, FS_Subset
  <2> QED
    BY <1>3, <2>1, FS_CardinalityType
<1>5. /\ IsFiniteSet(Frozen \cup Placed)
      /\ Cardinality(Frozen \cup Placed) = Cardinality(Frozen) + Cardinality(Placed) - Cardinality(Frozen \cap Placed)
  BY <1>3, FS_Union
<1>6. Cardinality(Held) <= Cardinality(Frozen \cup Placed)
  BY <1>1, <1>5, FS_Subset
<1>7. seats \in Nat
  BY DEF RunInv, RunTypeOK
<1>8. Cardinality(Held) <= seats \/ Cardinality(Held) <= Cardinality(Frozen)
  BY <1>2, <1>4, <1>5, <1>6, <1>7 DEF Slots
<1> QED
  BY <1>8 DEF Held

FitsInv == StakeFits /\ SlotsFit

LEMMA FitsInit == RunInit => FitsInv
BY DEF RunInit, FitsInv, StakeFits, SlotsFit

LEMMA FitsNoIndexer == ASSUME RunInv, GatherNoIndexer PROVE FitsInv'
<1>1. proposed' = proposed /\ fact' = fact /\ held' = held /\ currents' = {} /\ seats' = seats
      /\ proposed \in [Deployment -> Nat] /\ \A d \in Deployment : proposed[d] = 0
  <2>1. /\ proposed' = proposed /\ fact' = fact /\ held' = held /\ seats' = seats
        /\ proposed \in [Deployment -> Nat]
        /\ \A d \in Deployment : proposed[d] = 0 /\ held'[d] = 0
    BY DEF GatherNoIndexer, RunInv, RunTypeOK, StagesInv, given, gathered, plan
  <2>2. \A d \in Deployment : ~(held'[d] > 0)
    BY <2>1
  <2> QED
    BY <2>1, <2>2 DEF currents
<1>2. IsFiniteSet(Deployment) /\ DOMAIN proposed = Deployment
  BY <1>1, RunAssumption
<1>3. SumFunction(proposed) = 0
  BY <1>1, <1>2, SumOfZeros DEF SumFunction
<1>4. Frozen' = {}
  BY <1>1 DEF Frozen
<1>5. FrozenStake' = 0
  BY <1>4, SumEmpty DEF FrozenStake
<1>6. StakeFits'
  BY <1>1, <1>3, <1>5, RunAssumption DEF StakeFits
<1>7. {d \in Deployment : proposed'[d] > 0} = {}
  BY <1>1
<1>8. seats \in Nat
  BY DEF RunInv, RunTypeOK
<1>9. SlotsFit'
  BY <1>1, <1>7, <1>8, FS_EmptySet DEF SlotsFit
<1> QED
  BY <1>6, <1>9 DEF FitsInv

LEMMA FitsDecide ==
  ASSUME RunInv, NEW read \in SUBSET Deployment, NEW failed \in SUBSET Deployment,
         NEW p \in [Deployment -> Stakes], Decide(read, failed, p)
  PROVE  FitsInv'
<1>1. /\ fact' = fact /\ held' = held /\ currents' = currents /\ seats' = seats
      /\ Placement(p, read) /\ proposed' = Propose(p)
  BY DEF Decide, given, gathered, currents
<1>2. Frozen' = Frozen /\ FrozenStake' = FrozenStake
  BY <1>1 DEF Frozen, FrozenStake, Listed
<1>3. /\ SumFunction(proposed') = FrozenStake + SumFunction(p)
      /\ SumFunction(p) \in Int /\ FrozenStake \in Int /\ Capacity \in Nat
  BY <1>1, ProposalSum, StakeOfDeployments, RunAssumption
<1>4. SumFunction(p) <= Available
  BY <1>1 DEF Placement
<1>5. SumFunction(proposed') <= (IF FrozenStake > Capacity THEN FrozenStake ELSE Capacity)
  BY <1>3, <1>4 DEF Available
<1>6. LET taken == Cardinality({d \in Deployment : proposed'[d] > 0})
      IN  taken <= seats \/ taken <= Cardinality(Frozen)
  BY <1>1, ProposalCount
<1> QED
  BY <1>1, <1>2, <1>5, <1>6 DEF FitsInv, StakeFits, SlotsFit

LEMMA FitsNext == RunInv /\ FitsInv /\ [RunNext]_runVars => FitsInv'
<1> SUFFICES ASSUME RunInv, FitsInv, [RunNext]_runVars PROVE FitsInv'
  OBVIOUS
<1>1. CASE \/ Abort \/ Throw
           \/ \E failed \in SUBSET {"active", "signalled", "params"}, largest \in Shown,
                high \in SUBSET Deployment : Gather(failed, largest, high)
           \/ \E failed \in SUBSET {"statuses", "epochs"}, got \in SUBSET Deployment,
                rows \in SUBSET Chain : ReadStatuses(failed, got, rows)
           \/ \E targets, got \in SUBSET Deployment : Fallback(targets, got)
  <2>1. pc' # "done"
    BY <1>1 DEF Abort, Throw, Gather, ReadStatuses, Fallback
  <2> QED
    BY <2>1 DEF FitsInv, StakeFits, SlotsFit
<1>2. CASE GatherNoIndexer
  BY <1>2, FitsNoIndexer
<1>3. ASSUME NEW read \in SUBSET Deployment, NEW failed \in SUBSET Deployment,
             NEW p \in [Deployment -> Stakes], Decide(read, failed, p)
      PROVE  FitsInv'
  BY <1>3, FitsDecide
<1>4. CASE UNCHANGED runVars
  <2>1. /\ fact' = fact /\ held' = held /\ currents' = currents /\ seats' = seats
        /\ pc' = pc /\ proposed' = proposed
    BY <1>4 DEF runVars, given, gathered, plan, currents
  <2>2. Frozen' = Frozen /\ FrozenStake' = FrozenStake
    BY <2>1 DEF Frozen, FrozenStake, Listed
  <2> QED
    BY <2>1, <2>2 DEF FitsInv, StakeFits, SlotsFit
<1> QED
  BY <1>1, <1>2, <1>3, <1>4 DEF RunNext, RunFinished

LEMMA FitsInvariance == RunSpec => []FitsInv
<1>1. RunInit => RunInv /\ FitsInv
  BY RunInitInv, FitsInit
<1>2. (RunInv /\ FitsInv) /\ [RunNext]_runVars => (RunInv /\ FitsInv)'
  BY RunNextInv, FitsNext
<1> QED
  BY <1>1, <1>2, PTL DEF RunSpec

(* The proposal, frozen allocations included, fits the indexer's stake.    *)
THEOREM ProposalFitsTheStake == RunSpec => []StakeFits
<1>1. FitsInv => StakeFits
  BY DEF FitsInv
<1> QED
  BY <1>1, FitsInvariance, PTL

(* ... and its slots, unless more are frozen than there are slots.         *)
THEOREM ProposalFitsTheSlots == RunSpec => []SlotsFit
<1>1. FitsInv => SlotsFit
  BY DEF FitsInv
<1> QED
  BY <1>1, FitsInvariance, PTL

-----------------------------------------------------------------------------
(* The run over the allocator.  OptimizerRun.Decide takes any Placement;   *)
(* the code takes what optimize returns for the candidates it was given.   *)

(* who: the deployment that each candidate stands for.  optimize is given  *)
(* the run's stake and slots, what it may pick earns something in the run, *)
(* and without the network parameters nothing does (issuance is zero).     *)
GivenTheRun(who, read) ==
  /\ who \in Injection(1 .. N, Deployment)
  /\ available = Available /\ slots = Slots
  /\ \A i \in Pick : who[i] \in Picks(read)
  /\ ~params => Pick = {}

(* The allocations by deployment instead of by number. *)
Carried(who) ==
  [d \in Deployment |->
     IF \E i \in 1 .. N : who[i] = d
     THEN allocations[CHOOSE i \in 1 .. N : who[i] = d]
     ELSE 0]

(* However the candidates are numbered, what is placed is a Placement.     *)
PlanFitsTheRun ==
  \A who \in [1 .. N -> Deployment], read \in SUBSET Deployment :
    GivenTheRun(who, read) =>
      /\ Carried(who) \in [Deployment -> Nat]
      /\ Placement(Carried(who), read)

LEMMA CarriedAmounts ==
  ASSUME AllocInv, NEW who \in [1 .. N -> Deployment], IsInjective(who)
  PROVE  /\ Carried(who) \in [Deployment -> Nat]
         /\ \A i \in 1 .. N : Carried(who)[who[i]] = allocations[i]
         /\ \A d \in Deployment \ {who[i] : i \in 1 .. N} : Carried(who)[d] = 0
<1>1. allocations \in [1 .. N -> Nat]
  BY DEF AllocInv, TypeOK
<1>2. \A i, j \in 1 .. N : who[i] = who[j] => i = j
  BY DEF IsInjective
<1>3. ASSUME NEW d \in Deployment PROVE Carried(who)[d] \in Nat
  <2>1. CASE \E i \in 1 .. N : who[i] = d
    <3>1. (CHOOSE i \in 1 .. N : who[i] = d) \in 1 .. N
      BY <2>1
    <3> QED
      BY <1>1, <2>1, <3>1 DEF Carried
  <2>2. CASE ~\E i \in 1 .. N : who[i] = d
    BY <2>2 DEF Carried
  <2> QED
    BY <2>1, <2>2
<1>4. ASSUME NEW i \in 1 .. N PROVE Carried(who)[who[i]] = allocations[i]
  <2>1. (CHOOSE j \in 1 .. N : who[j] = who[i]) = i
    BY <1>2
  <2>2. who[i] \in Deployment /\ \E j \in 1 .. N : who[j] = who[i]
    OBVIOUS
  <2> QED
    BY <2>1, <2>2 DEF Carried
<1>5. ASSUME NEW d \in Deployment \ {who[i] : i \in 1 .. N} PROVE Carried(who)[d] = 0
  BY DEF Carried
<1>6. Carried(who) = [d \in Deployment |-> Carried(who)[d]]
  BY DEF Carried
<1>7. Carried(who) \in [Deployment -> Nat]
  BY <1>3, <1>6
<1> QED
  BY <1>4, <1>5, <1>7

LEMMA CarriedSum ==
  ASSUME AllocInv, NEW who \in [1 .. N -> Deployment], IsInjective(who)
  PROVE  SumFunction(Carried(who)) = SumFunction(allocations)
<1> DEFINE c == Carried(who)
           E == {who[i] : i \in 1 .. N}
<1>1. /\ c \in [Deployment -> Nat]
      /\ \A i \in 1 .. N : c[who[i]] = allocations[i]
      /\ \A d \in Deployment \ E : c[d] = 0
  BY CarriedAmounts
<1>2. IsFiniteSet(Deployment) /\ IsFiniteSet(1 .. N) /\ E \subseteq Deployment /\ IsFiniteSet(Deployment \ E)
  <2>1. IsFiniteSet(1 .. N)
    BY FS_Interval, AllocatorAssumption
  <2> QED
    BY <2>1, FS_Subset, RunAssumption
<1>3. allocations \in [1 .. N -> Nat]
  BY DEF AllocInv, TypeOK
<1>4. DOMAIN c = Deployment /\ DOMAIN allocations = 1 .. N
  BY <1>1, <1>3
<1>5. SumFunctionOnSet(allocations, 1 .. N) = SumFunctionOnSet(c, E)
  <2>1. \A i, j \in 1 .. N : who[i] = who[j] => i = j
    BY DEF IsInjective
  <2>2. \A d \in Deployment : c[d] \in Int
    BY <1>1
  <2>3. \A i \in 1 .. N : allocations[i] = c[who[i]]
    BY <1>1
  <2> DEFINE Dom == 1 .. N
             h == who
             placed == allocations
  <2>4. IsFiniteSet(Dom) /\ IsFiniteSet(Deployment)
    BY <1>2
  <2>5. h \in [Dom -> Deployment]
    OBVIOUS
  <2>6. \A x, y \in Dom : h[x] = h[y] => x = y
    BY <2>1
  <2>7. \A x \in Dom : placed[x] = c[h[x]]
    BY <2>3
  <2> HIDE DEF c, Dom, E, placed, h
  <2>8. SumFunctionOnSet(placed, Dom) = SumFunctionOnSet(c, {h[x] : x \in Dom})
    BY <2>2, <2>4, <2>5, <2>6, <2>7, SumImage
  <2> QED
    BY <2>8 DEF Dom, E, placed, h
<1>6. /\ SumFunctionOnSet(c, Deployment) = SumFunctionOnSet(c, E) + SumFunctionOnSet(c, Deployment \ E)
      /\ SumFunctionOnSet(c, E) \in Int
  <2>1. \A d \in Deployment : c[d] \in Int
    BY <1>1
  <2> HIDE DEF c, E
  <2>2. SumFunctionOnSet(c, E) \in Int
    BY <1>2, <2>1, SumStep
  <2> QED
    BY <1>2, <2>1, <2>2, SumSplit
<1>7. SumFunctionOnSet(c, Deployment \ E) = 0
  <2> HIDE DEF c, E
  <2> QED
    BY <1>1, <1>2, SumOfZeros
<1> HIDE DEF c, E
<1>8. SumFunctionOnSet(c, Deployment) = SumFunctionOnSet(allocations, 1 .. N)
  BY <1>5, <1>6, <1>7
<1> QED
  BY <1>4, <1>8 DEF SumFunction, c

LEMMA CarriedSeats ==
  ASSUME AllocInv, NEW who \in [1 .. N -> Deployment], IsInjective(who)
  PROVE  LET placed == {d \in Deployment : Carried(who)[d] > 0}
             funded == {i \in 1 .. N : allocations[i] > 0}
         IN  /\ \A d \in placed : \E i \in funded : who[i] = d
             /\ Cardinality(placed) <= Cardinality(funded)
<1> DEFINE placed == {d \in Deployment : Carried(who)[d] > 0}
           funded == {i \in 1 .. N : allocations[i] > 0}
           number == [d \in placed |-> CHOOSE i \in funded : who[i] = d]
<1>1. ASSUME NEW d \in placed PROVE \E i \in funded : who[i] = d
  <2>1. d \in {who[i] : i \in 1 .. N}
    <3>1. SUFFICES ASSUME d \notin {who[i] : i \in 1 .. N} PROVE FALSE
      OBVIOUS
    <3>2. d \in Deployment /\ Carried(who)[d] > 0
      OBVIOUS
    <3>3. d \in Deployment \ {who[i] : i \in 1 .. N}
      BY <3>1, <3>2
    <3>4. Carried(who)[d] = 0
      BY <3>3, CarriedAmounts
    <3> QED
      BY <3>2, <3>4
  <2>2. PICK i \in 1 .. N : who[i] = d
    BY <2>1
  <2>3. Carried(who)[d] = allocations[i]
    BY <2>2, CarriedAmounts
  <2> QED
    BY <2>2, <2>3
<1>2. IsFiniteSet(funded) /\ IsFiniteSet(placed)
  <2>1. IsFiniteSet(1 .. N) /\ IsFiniteSet(Deployment)
    BY FS_Interval, AllocatorAssumption, RunAssumption
  <2>2. funded \subseteq 1 .. N /\ placed \subseteq Deployment
    OBVIOUS
  <2> HIDE DEF funded, placed
  <2> QED
    BY <2>1, <2>2, FS_Subset
<1>3. number \in Injection(placed, funded)
  <2> HIDE DEF placed, funded
  <2>1. \A d \in placed : number[d] \in funded /\ who[number[d]] = d
    BY <1>1
  <2>2. number \in [placed -> funded]
    BY <2>1
  <2> HIDE DEF number
  <2>3. IsInjective(number)
    BY <2>1, <2>2 DEF IsInjective
  <2> QED
    BY <2>2, <2>3 DEF Injection
<1>4. Cardinality(placed) <= Cardinality(funded)
  <2> HIDE DEF placed, funded, number
  <2> QED
    BY <1>2, <1>3, FS_Injection
<1> QED
  BY <1>1, <1>4

(* Whatever optimize has placed, at every moment of it and so when it      *)
(* returns, is one of the placements that a step Decide of the run takes,  *)
(* however its candidates are numbered: what is proved of a run is true of *)
(* a run over the allocator.                                               *)
THEOREM PlansFitTheRun == Spec => []PlanFitsTheRun
<1>1. AllocInv /\ PlanIsPlacement => PlanFitsTheRun
  <2> SUFFICES ASSUME AllocInv, PlanIsPlacement,
                      NEW who \in [1 .. N -> Deployment], NEW read \in SUBSET Deployment,
                      GivenTheRun(who, read)
               PROVE  Carried(who) \in [Deployment -> Nat] /\ Placement(Carried(who), read)
    BY DEF PlanFitsTheRun
  <2> DEFINE placed == {d \in Deployment : Carried(who)[d] > 0}
             funded == {i \in 1 .. N : allocations[i] > 0}
  <2>1. IsInjective(who)
    BY DEF GivenTheRun, Injection
  <2>2. /\ Carried(who) \in [Deployment -> Nat]
        /\ SumFunction(Carried(who)) = SumFunction(allocations)
    BY <2>1, CarriedAmounts, CarriedSum
  <2>3. /\ \A d \in placed : \E i \in funded : who[i] = d
        /\ Cardinality(placed) <= Cardinality(funded)
    BY <2>1, CarriedSeats
  <2>4. /\ funded \subseteq Pick /\ Cardinality(funded) <= slots
        /\ SumFunction(allocations) <= available
    BY DEF PlanIsPlacement
  <2>5. IsFiniteSet(1 .. N) /\ IsFiniteSet(Deployment)
    BY FS_Interval, AllocatorAssumption, RunAssumption
  <2>6. Cardinality(placed) \in Nat /\ Cardinality(funded) \in Nat /\ slots \in Nat
    <3>1. funded \subseteq 1 .. N /\ placed \subseteq Deployment
      OBVIOUS
    <3>2. IsFiniteSet(funded) /\ IsFiniteSet(placed)
      <4> HIDE DEF funded, placed
      <4> QED
        BY <2>5, <3>1, FS_Subset
    <3>3. slots \in Nat
      BY DEF AllocInv, TypeOK
    <3> HIDE DEF funded, placed
    <3> QED
      BY <3>2, <3>3, FS_CardinalityType
  <2>7. placed \subseteq Picks(read) /\ (~params => placed = {})
    <3> HIDE DEF placed, funded
    <3> QED
      BY <2>3, <2>4 DEF GivenTheRun
  <2>8. Cardinality(placed) <= Slots /\ SumFunction(Carried(who)) <= Available
    <3> HIDE DEF placed, funded
    <3>1. slots = Slots /\ available = Available
      BY DEF GivenTheRun
    <3>2. Cardinality(placed) <= slots
      BY <2>3, <2>4, <2>6
    <3> QED
      BY <2>2, <2>4, <3>1, <3>2
  <2> QED
    BY <2>2, <2>7, <2>8 DEF Placement
<1> QED
  BY <1>1, AllocatorInvariance, PlansArePlacements, PTL

-----------------------------------------------------------------------------
(***************************************************************************)
(* Pages: the orders.                                                      *)
(***************************************************************************)
IsTotalOn(S, before) ==
  /\ \A i \in S : <<i, i>> \notin before
  /\ \A i, j, k \in S : <<i, j>> \in before /\ <<j, k>> \in before => <<i, k>> \in before
  /\ \A i, j \in S : i # j => <<i, j>> \in before \/ <<j, i>> \in before

Ahead(S, before, i) == {j \in S : <<j, i>> \in before}

LEMMA RankIncreases ==
  ASSUME NEW S, NEW before, IsFiniteSet(S), IsTotalOn(S, before),
         NEW i \in S, NEW j \in S, <<i, j>> \in before
  PROVE  Cardinality(Ahead(S, before, i)) < Cardinality(Ahead(S, before, j))
<1> DEFINE A == Ahead(S, before, i)
           B == Ahead(S, before, j)
<1>1. A \subseteq B /\ i \in B /\ i \notin A /\ B \in SUBSET S
  BY DEF Ahead, IsTotalOn
<1> HIDE DEF A, B
<1>2. IsFiniteSet(B)
  BY <1>1, FS_Subset
<1>3. IsFiniteSet(A) /\ Cardinality(A) <= Cardinality(B) /\ Cardinality(A) # Cardinality(B)
  BY <1>1, <1>2, FS_Subset
<1>4. Cardinality(A) \in Nat /\ Cardinality(B) \in Nat
  BY <1>2, <1>3, FS_CardinalityType
<1>5. Cardinality(A) < Cardinality(B)
  BY <1>3, <1>4
<1> QED
  BY <1>5 DEF A, B

(* What Ordered lists: every member once, in the order.                    *)
LEMMA OrderedLists ==
  ASSUME NEW S, NEW before, IsFiniteSet(S), IsTotalOn(S, before)
  PROVE  LET o == Ordered(S, before) IN
         /\ o \in Seq(S) /\ Len(o) = Cardinality(S) /\ Cardinality(S) \in Nat
         /\ \A n \in 1 .. Len(o) : o[n] \in S
         /\ \A m, n \in 1 .. Len(o) : m < n => <<o[m], o[n]>> \in before
         /\ \A i \in S : \E n \in 1 .. Len(o) : o[n] = i
<1> DEFINE o == Ordered(S, before)
           c == Cardinality(S)
           rank == [i \in S |-> Cardinality(Ahead(S, before, i))]
<1>1. c \in Nat
  BY FS_CardinalityType
<1>2. \A i \in S : rank[i] \in 0 .. c - 1
  <2> SUFFICES ASSUME NEW i \in S PROVE rank[i] \in 0 .. c - 1
    OBVIOUS
  <2> DEFINE A == Ahead(S, before, i)
  <2>1. A \in SUBSET S /\ i \notin A
    BY DEF Ahead, IsTotalOn
  <2> HIDE DEF A
  <2>2. IsFiniteSet(A) /\ Cardinality(A) <= c /\ Cardinality(A) # c
    BY <2>1, FS_Subset
  <2>3. Cardinality(A) \in Nat
    BY <2>2, FS_CardinalityType
  <2>4. Cardinality(A) \in 0 .. c - 1
    BY <1>1, <2>2, <2>3
  <2> QED
    BY <2>4 DEF A
<1>3. \A i, j \in S : <<i, j>> \in before => rank[i] < rank[j]
  BY RankIncreases
<1>4. \A i, j \in S : rank[i] = rank[j] => i = j
  <2> SUFFICES ASSUME NEW i \in S, NEW j \in S, rank[i] = rank[j], i # j PROVE FALSE
    OBVIOUS
  <2>1. <<i, j>> \in before \/ <<j, i>> \in before
    BY DEF IsTotalOn
  <2> HIDE DEF rank
  <2>2. rank[i] < rank[j] \/ rank[j] < rank[i]
    BY <2>1, <1>3
  <2>3. rank[i] \in Int /\ rank[i] = rank[j]
    BY <1>2
  <2> QED
    BY <2>2, <2>3
<1>5. rank \in [S -> 0 .. c - 1]
  <2>1. rank = [i \in S |-> rank[i]]
    OBVIOUS
  <2> HIDE DEF rank
  <2> QED
    BY <2>1, <1>2
<1>6. rank \in Injection(S, 0 .. c - 1)
  <2> HIDE DEF rank
  <2> QED
    BY <1>4, <1>5 DEF Injection, IsInjective
<1>7. IsFiniteSet(0 .. c - 1) /\ Cardinality(0 .. c - 1) = c
  BY <1>1, FS_Interval
<1>8. rank \in Surjection(S, 0 .. c - 1)
  <2> HIDE DEF rank
  <2> QED
    BY <1>6, <1>7, FS_Injection
<1>9. \A r \in 0 .. c - 1 : \E i \in S : rank[i] = r
  <2> HIDE DEF rank
  <2> QED
    BY <1>8 DEF Surjection
<1>10. DOMAIN o = 1 .. c
  BY DEF Ordered
<1>11. \A n \in 1 .. c : o[n] \in S /\ rank[o[n]] = n - 1
  <2> SUFFICES ASSUME NEW n \in 1 .. c PROVE o[n] \in S /\ rank[o[n]] = n - 1
    OBVIOUS
  <2>1. o[n] = CHOOSE i \in S : Cardinality(Ahead(S, before, i)) = n - 1
    BY DEF Ordered, Ahead
  <2>2. n - 1 \in 0 .. c - 1
    BY <1>1
  <2>3. \E i \in S : Cardinality(Ahead(S, before, i)) = n - 1
    BY <1>9, <2>2
  <2>4. o[n] \in S /\ Cardinality(Ahead(S, before, o[n])) = n - 1
    <3> HIDE DEF o
    <3> QED
      BY <2>1, <2>3
  <2> QED
    BY <2>4
<1>12. o \in [1 .. c -> S]
  BY <1>11 DEF Ordered
<1> HIDE DEF rank, o, c
<1>13. o \in Seq(S) /\ Len(o) = c
  BY <1>1, <1>12
<1>14. ASSUME NEW m \in 1 .. c, NEW n \in 1 .. c, m < n PROVE <<o[m], o[n]>> \in before
  <2>1. o[m] \in S /\ o[n] \in S /\ rank[o[m]] = m - 1 /\ rank[o[n]] = n - 1
    BY <1>11
  <2>2. o[m] # o[n] /\ ~(<<o[n], o[m]>> \in before)
    BY <2>1, <1>3, <1>14, <1>1
  <2> QED
    BY <2>1, <2>2 DEF IsTotalOn
<1>15. ASSUME NEW i \in S PROVE \E n \in 1 .. c : o[n] = i
  <2>1. rank[i] + 1 \in 1 .. c
    BY <1>1, <1>2
  <2>2. o[rank[i] + 1] \in S /\ rank[o[rank[i] + 1]] = rank[i]
    BY <2>1, <1>11, <1>2
  <2> QED
    BY <2>1, <2>2, <1>4
<1>16. /\ o \in Seq(S) /\ Len(o) = Cardinality(S) /\ Cardinality(S) \in Nat
       /\ \A n \in 1 .. Len(o) : o[n] \in S
       /\ \A m, n \in 1 .. Len(o) : m < n => <<o[m], o[n]>> \in before
       /\ \A i \in S : \E n \in 1 .. Len(o) : o[n] = i
  BY <1>1, <1>11, <1>13, <1>14, <1>15 DEF c
<1> QED
  BY <1>16 DEF o

LEMMA OrdersAreTotal ==
  ASSUME NEW S \in SUBSET Row
  PROVE  IsFiniteSet(S) /\ IsTotalOn(S, ById) /\ IsTotalOn(S, ByPlace)
<1>1. IsFiniteSet(S)
  BY PagesAssumption, FS_Subset
<1>2. \A i, j \in Row : /\ <<i, j>> \in ById <=> i < j
                        /\ <<i, j>> \in ByPlace <=> Place[i] < Place[j]
  BY DEF ById, ByPlace
<1>3. \A i \in S : i \in Row /\ i \in Int /\ Place[i] \in Int
  BY PagesAssumption
<1>4. \A i, j \in S : Place[i] = Place[j] => i = j
  BY PagesAssumption
<1>5. IsTotalOn(S, ById)
  BY <1>2, <1>3 DEF IsTotalOn
<1>6. IsTotalOn(S, ByPlace)
  BY <1>2, <1>3, <1>4 DEF IsTotalOn
<1> QED
  BY <1>1, <1>5, <1>6

LEMMA FirstIs ==
  ASSUME NEW D1, NEW s \in Seq(D1), NEW k \in Nat
  PROVE  /\ First(s, k) \in Seq(D1)
         /\ Len(First(s, k)) = (IF Len(s) < k THEN Len(s) ELSE k)
         /\ \A n \in 1 .. Len(First(s, k)) : n \in 1 .. Len(s) /\ First(s, k)[n] = s[n]
BY DEF First

(* Pages: what a page has.                                                 *)
Ascends(s) == \A m, n \in 1 .. Len(s) : m < n => s[m] < s[n]

LEMMA CursorPageIs ==
  ASSUME table \subseteq Row, NEW last \in Nat
  PROVE  LET batch == CursorPage(last) IN
         /\ batch \in Seq(Row) /\ Len(batch) <= PageSize
         /\ \A n \in 1 .. Len(batch) : batch[n] \in table /\ batch[n] > last
         /\ Ascends(batch)
         /\ \A i \in table :
              i > last /\ (Len(batch) < PageSize \/ i <= batch[Len(batch)])
                => \E n \in 1 .. Len(batch) : batch[n] = i
<1> DEFINE S == {i \in table : i > last}
           o == Ordered(S, ById)
           batch == CursorPage(last)
<1>1. S \in SUBSET Row
  OBVIOUS
<1>2. /\ o \in Seq(S) /\ Len(o) = Cardinality(S) /\ Cardinality(S) \in Nat
      /\ \A n \in 1 .. Len(o) : o[n] \in S
      /\ \A m, n \in 1 .. Len(o) : m < n => <<o[m], o[n]>> \in ById
      /\ \A i \in S : \E n \in 1 .. Len(o) : o[n] = i
  <2> HIDE DEF S
  <2>1. IsFiniteSet(S) /\ IsTotalOn(S, ById)
    BY <1>1, OrdersAreTotal
  <2> QED
    BY <2>1, OrderedLists
<1>3. \A n \in 1 .. Len(o) : o[n] \in table /\ o[n] > last /\ o[n] \in Nat
  <2> HIDE DEF o
  <2> QED
    BY <1>2, PagesAssumption
<1>4. \A m, n \in 1 .. Len(o) : m < n => o[m] < o[n]
  <2> HIDE DEF o, S
  <2> QED
    BY <1>2, <1>3 DEF ById
<1>5. \A i \in table : i > last => \E n \in 1 .. Len(o) : o[n] = i
  <2> HIDE DEF o
  <2> QED
    BY <1>2
<1>6. PageSize \in Nat \ {0}
  BY PagesAssumption
<1>7. o \in Seq(Row)
  <2> HIDE DEF o
  <2> QED
    BY <1>2
<1>8. /\ batch \in Seq(Row) /\ Len(batch) = (IF Len(o) < PageSize THEN Len(o) ELSE PageSize)
      /\ \A n \in 1 .. Len(batch) : n \in 1 .. Len(o) /\ batch[n] = o[n]
  <2>1. batch = First(o, PageSize)
    BY DEF CursorPage
  <2> HIDE DEF batch, o
  <2> QED
    BY <2>1, <1>6, <1>7, FirstIs
<1>9. Len(o) \in Nat
  BY <1>2
<1> HIDE DEF batch, o, S
<1>10. Ascends(batch)
  BY <1>4, <1>8 DEF Ascends
<1>11. ASSUME NEW i \in table, i > last, Len(batch) < PageSize \/ i <= batch[Len(batch)]
       PROVE  \E n \in 1 .. Len(batch) : batch[n] = i
  <2>1. PICK n \in 1 .. Len(o) : o[n] = i
    BY <1>5, <1>11
  <2>2. CASE Len(batch) < PageSize
    BY <2>1, <2>2, <1>6, <1>8, <1>9
  <2>3. CASE ~(Len(batch) < PageSize)
    <3>1. Len(batch) = PageSize /\ Len(batch) \in 1 .. Len(o) /\ i <= o[Len(batch)]
      BY <2>3, <1>6, <1>8, <1>9, <1>11
    <3>2. ~(Len(batch) < n)
      BY <3>1, <2>1, <1>3, <1>4
    <3> QED
      BY <3>1, <3>2, <2>1, <1>8
  <2> QED
    BY <2>2, <2>3
<1>12. /\ batch \in Seq(Row) /\ Len(batch) <= PageSize
       /\ \A n \in 1 .. Len(batch) : batch[n] \in table /\ batch[n] > last
       /\ Ascends(batch)
       /\ \A i \in table :
            i > last /\ (Len(batch) < PageSize \/ i <= batch[Len(batch)])
              => \E n \in 1 .. Len(batch) : batch[n] = i
  BY <1>3, <1>6, <1>8, <1>9, <1>10, <1>11
<1> QED
  BY <1>12 DEF batch

LEMMA SkipPageIs ==
  ASSUME table \subseteq Row, NEW page \in Nat
  PROVE  LET o == Ordered(table, ByPlace)
             batch == SkipPage(page) IN
         /\ batch \in Seq(Row) /\ Len(batch) <= PageSize
         /\ page * PageSize <= Len(o) =>
              /\ \A n \in 1 .. Len(batch) : /\ page * PageSize + n \in 1 .. Len(o)
                                            /\ batch[n] = o[page * PageSize + n]
              /\ Len(batch) < PageSize => page * PageSize + Len(batch) = Len(o)
<1> DEFINE o == Ordered(table, ByPlace)
           batch == SkipPage(page)
           from == page * PageSize
           rest == SubSeq(o, from + 1, Len(o))
<1>1. o \in Seq(Row) /\ Len(o) \in Nat
  <2>1. o \in Seq(table)
    BY OrdersAreTotal, OrderedLists
  <2> HIDE DEF o
  <2> QED
    BY <2>1
<1>2. PageSize \in Nat \ {0}
  BY PagesAssumption
<1>3. from \in Nat
  BY <1>2
<1>4. batch = First(rest, PageSize)
  BY DEF SkipPage
<1> HIDE DEF o, batch, from
<1>5. /\ rest \in Seq(Row)
      /\ from <= Len(o) => Len(rest) = Len(o) - from /\ \A n \in 1 .. Len(rest) : rest[n] = o[from + n]
  BY <1>1, <1>3
<1> HIDE DEF rest
<1>6. /\ batch \in Seq(Row)
      /\ Len(batch) = (IF Len(rest) < PageSize THEN Len(rest) ELSE PageSize)
      /\ \A n \in 1 .. Len(batch) : n \in 1 .. Len(rest) /\ batch[n] = rest[n]
  BY <1>2, <1>4, <1>5, FirstIs
<1>7. Len(rest) \in Nat
  BY <1>5
<1>8. /\ batch \in Seq(Row) /\ Len(batch) <= PageSize
      /\ from <= Len(o) =>
           /\ \A n \in 1 .. Len(batch) : from + n \in 1 .. Len(o) /\ batch[n] = o[from + n]
           /\ Len(batch) < PageSize => from + Len(batch) = Len(o)
  BY <1>1, <1>2, <1>3, <1>5, <1>6, <1>7
<1> QED
  BY <1>8 DEF batch, o, from

(***************************************************************************)
(* Pages: the scans.  While pages are asked for, what a scan by cursor has *)
(* read ascends up to its cursor and lacks no row below it that stayed;    *)
(* a scan by skip of a table at rest has a beginning of its order.         *)
(***************************************************************************)
Reading == scan.pc = "asking" \/ Complete

PagesFill ==
  scan.pc \in {"idle", "asking"} =>
    /\ Len(scan.rows) = scan.page * PageSize
    /\ scan.pc = "idle" => scan.page = 0
    /\ scan.page = 0 => scan.last = 0

CursorRead ==
  scan.mode = "cursor" /\ Reading =>
    /\ Ascends(scan.rows)
    /\ scan.pc = "asking" /\ scan.page # 0 => scan.rows[Len(scan.rows)] = scan.last
    /\ \A i \in stayed :
         \/ scan.pc = "asking" /\ i > scan.last
         \/ \E n \in 1 .. Len(scan.rows) : scan.rows[n] = i
    /\ moves = 0 => \A n \in 1 .. Len(scan.rows) : scan.rows[n] \in table

SkipRead ==
  scan.mode = "skip" /\ Reading /\ moves = 0 =>
    LET o == Ordered(table, ByPlace) IN
    /\ Len(scan.rows) <= Len(o)
    /\ \A n \in 1 .. Len(scan.rows) : scan.rows[n] = o[n]
    /\ Complete => Len(scan.rows) = Len(o)

ScanInv ==
  /\ ScanTypeOK /\ PagesFill /\ CursorRead /\ SkipRead
  /\ moves = 0 => stayed = table

LEMMA ScanInitInv == ScanInit => ScanInv
<1> SUFFICES ASSUME ScanInit PROVE ScanInv
  OBVIOUS
<1>1. PageSize \in Nat \ {0} /\ MaxPages \in Nat \ {0} /\ MaxChanges \in Nat
  BY PagesAssumption
<1>2. ScanTypeOK
  <2>1. <<>> \in Seq(Row) /\ 0 \in 0 .. MaxPages - 1 /\ 0 \in 0 .. MaxChanges
    BY <1>1
  <2> QED
    BY <2>1 DEF ScanInit, ScanTypeOK, Modes
<1>3. PagesFill
  BY <1>1 DEF ScanInit, PagesFill
<1>4. CursorRead /\ SkipRead /\ (moves = 0 => stayed = table)
  BY DEF ScanInit, CursorRead, SkipRead, Reading, Complete
<1> QED
  BY <1>2, <1>3, <1>4 DEF ScanInv

LEMMA BeginInv ==
  ASSUME ScanInv, NEW mode \in Modes, Begin(mode)
  PROVE  ScanInv'
<1>1. /\ scan.pc = "idle" /\ scan' = [scan EXCEPT !.pc = "asking", !.mode = mode]
      /\ stayed' = table /\ table' = table /\ scanAborted' = scanAborted /\ moves' = moves
      /\ scan \in [pc : {"idle", "asking", "done", "failed"}, mode : Modes,
                   page : 0 .. MaxPages - 1, last : Row \cup {0}, rows : Seq(Row),
                   truncated : BOOLEAN]
      /\ table \subseteq Row
  BY DEF Begin, ScanInv, ScanTypeOK
<1>2. PageSize \in Nat \ {0} /\ Row \subseteq Nat \ {0}
  BY PagesAssumption
<1>3. scan.page = 0 /\ scan.last = 0 /\ Len(scan.rows) = scan.page * PageSize
  BY <1>1 DEF ScanInv, PagesFill
<1>4. Len(scan.rows) = 0 /\ scan.rows \in Seq(Row)
  BY <1>1, <1>2, <1>3
<1>5. ScanTypeOK'
  BY <1>1 DEF ScanInv, ScanTypeOK
<1>6. PagesFill'
  BY <1>1, <1>3 DEF PagesFill
<1>7. scan'.rows = scan.rows /\ scan'.pc = "asking" /\ scan'.page = 0 /\ scan'.last = 0 /\ Len(scan'.rows) = 0
  BY <1>1, <1>3, <1>4
<1>8. CursorRead'
  <2>1. Ascends(scan'.rows)
    BY <1>7 DEF Ascends
  <2>2. \A i \in stayed' : i > scan'.last
    BY <1>1, <1>2, <1>7
  <2> QED
    BY <1>7, <2>1, <2>2 DEF CursorRead
<1>9. SkipRead'
  <2> DEFINE o == Ordered(table, ByPlace)
  <2>1. Len(o) \in Nat
    BY <1>1, OrdersAreTotal, OrderedLists
  <2>2. o' = o
    BY <1>1 DEF Ordered, ByPlace
  <2>3. ~Complete'
    BY <1>7 DEF Complete
  <2> HIDE DEF o
  <2>4. Len(scan'.rows) <= Len(o') /\ \A n \in 1 .. Len(scan'.rows) : scan'.rows[n] = o'[n]
    BY <1>7, <2>1, <2>2
  <2> QED
    BY <2>3, <2>4 DEF SkipRead, o
<1> QED
  BY <1>1, <1>5, <1>6, <1>8, <1>9 DEF ScanInv

LEMMA PageFailsInv == ASSUME ScanInv, PageFails PROVE ScanInv'
<1>1. /\ scan' = [scan EXCEPT !.pc = "failed", !.rows = <<>>]
      /\ table' = table /\ scanAborted' = scanAborted /\ stayed' = stayed /\ moves' = moves
  BY DEF PageFails
<1>2. ScanTypeOK'
  <2>1. <<>> \in Seq(Row)
    OBVIOUS
  <2> QED
    BY <1>1, <2>1 DEF ScanInv, ScanTypeOK
<1>3. scan'.pc = "failed"
  BY <1>1 DEF ScanInv, ScanTypeOK
<1> QED
  BY <1>1, <1>2, <1>3 DEF ScanInv, PagesFill, CursorRead, SkipRead, Reading, Complete

LEMMA AbortScanInv == ASSUME ScanInv, AbortScan PROVE ScanInv'
<1>1. scan' = scan /\ table' = table /\ scanAborted' = TRUE /\ stayed' = stayed /\ moves' = moves
  BY DEF AbortScan
<1>2. ScanTypeOK'
  BY <1>1 DEF ScanInv, ScanTypeOK
<1>3. PagesFill' /\ CursorRead' /\ (moves' = 0 => stayed' = table')
  BY <1>1 DEF ScanInv, PagesFill, CursorRead, Reading, Complete
<1>4. SkipRead'
  <2>1. Ordered(table, ByPlace)' = Ordered(table, ByPlace)
    BY <1>1 DEF Ordered, ByPlace
  <2> QED
    BY <1>1, <2>1 DEF ScanInv, SkipRead, Reading, Complete
<1> QED
  BY <1>2, <1>3, <1>4 DEF ScanInv

LEMMA TableChangesInv == ASSUME ScanInv, NEW i \in Row, TableChanges(i) PROVE ScanInv'
<1>1. /\ scan.pc = "asking" /\ moves < MaxChanges /\ scan' = scan /\ scanAborted' = scanAborted
      /\ table' = (IF i \in table THEN table \ {i} ELSE table \cup {i})
      /\ stayed' = stayed \ {i} /\ moves' = moves + 1
  BY DEF TableChanges
<1>2. moves \in Nat /\ MaxChanges \in Nat /\ moves' # 0
  BY <1>1, PagesAssumption DEF ScanInv, ScanTypeOK
<1>3. ScanTypeOK'
  BY <1>1, <1>2 DEF ScanInv, ScanTypeOK
<1>4. PagesFill' /\ SkipRead' /\ (moves' = 0 => stayed' = table')
  BY <1>1, <1>2 DEF ScanInv, PagesFill, SkipRead
<1>5. CursorRead'
  BY <1>1, <1>2 DEF ScanInv, CursorRead, Reading, Complete
<1> QED
  BY <1>3, <1>4, <1>5 DEF ScanInv

(* What a scan has once a page is added to it.                             *)
LEMMA Extended ==
  ASSUME NEW s \in Seq(Row), NEW b \in Seq(Row), NEW t, t = s \o b
  PROVE  /\ t \in Seq(Row) /\ Len(t) = Len(s) + Len(b) /\ Len(s) \in Nat /\ Len(b) \in Nat
         /\ \A n \in 1 .. Len(s) : n \in 1 .. Len(t) /\ t[n] = s[n]
         /\ \A n \in 1 .. Len(b) : Len(s) + n \in 1 .. Len(t) /\ t[Len(s) + n] = b[n]
         /\ \A n \in 1 .. Len(t) : \/ n \in 1 .. Len(s) /\ t[n] = s[n]
                                   \/ n - Len(s) \in 1 .. Len(b) /\ t[n] = b[n - Len(s)]
OBVIOUS

LEMMA CursorExtends ==
  ASSUME ScanInv, scan.pc = "asking", scan.mode = "cursor",
         NEW t, t = scan.rows \o CursorPage(scan.last), NEW b, b = CursorPage(scan.last)
  PROVE  /\ Ascends(t) /\ b \in Seq(Row) /\ Len(b) <= PageSize
         /\ \A i \in stayed : \/ \E n \in 1 .. Len(t) : t[n] = i
                              \/ Len(b) = PageSize /\ i > b[Len(b)]
         /\ moves = 0 => \A n \in 1 .. Len(t) : t[n] \in table
<1> DEFINE s == scan.rows
           last == scan.last
<1>1. /\ table \subseteq Row /\ stayed \subseteq table /\ Row \subseteq Nat \ {0}
      /\ s \in Seq(Row) /\ last \in Nat /\ PageSize \in Nat \ {0}
      /\ \A n \in 1 .. Len(s) : s[n] \in Nat
  <2>1. /\ s \in Seq(Row) /\ last \in Row \cup {0} /\ table \subseteq Row /\ stayed \subseteq table
    BY DEF ScanInv, ScanTypeOK
  <2> HIDE DEF s, last
  <2>2. Row \subseteq Nat \ {0} /\ PageSize \in Nat \ {0}
    BY PagesAssumption
  <2>3. \A n \in 1 .. Len(s) : s[n] \in Row
    BY <2>1
  <2>4. last \in Nat /\ \A i \in Row : i \in Nat
    BY <2>1, <2>2
  <2>5. \A n \in 1 .. Len(s) : s[n] \in Nat
    BY <2>3, <2>4
  <2> QED
    BY <2>1, <2>2, <2>4, <2>5
<1>2. Reading
  BY DEF Reading
<1>3. /\ Ascends(s)
      /\ scan.page # 0 => s[Len(s)] = last
      /\ \A i \in stayed : i > last \/ \E n \in 1 .. Len(s) : s[n] = i
      /\ moves = 0 => \A n \in 1 .. Len(s) : s[n] \in table
  BY <1>2 DEF ScanInv, CursorRead
<1>4. \A n \in 1 .. Len(s) : s[n] <= last
  <2>1. CASE scan.page = 0
    <3>1. Len(s) = scan.page * PageSize
      BY DEF ScanInv, PagesFill
    <3>2. Len(s) = 0
      BY <2>1, <3>1, <1>1
    <3> QED
      BY <3>2
  <2>2. CASE scan.page # 0
    <3> HIDE DEF s, last
    <3>1. s[Len(s)] = last /\ Len(s) \in Nat
      BY <1>1, <1>3, <2>2
    <3> QED
      BY <3>1, <1>1, <1>3 DEF Ascends
  <2> QED
    BY <2>1, <2>2
<1>5. /\ b \in Seq(Row) /\ Len(b) <= PageSize
      /\ \A n \in 1 .. Len(b) : b[n] \in table /\ b[n] > last
      /\ Ascends(b)
      /\ \A i \in table :
           i > last /\ (Len(b) < PageSize \/ i <= b[Len(b)]) => \E n \in 1 .. Len(b) : b[n] = i
  BY <1>1, CursorPageIs
<1> HIDE DEF s, last
<1>6. t = s \o b
  BY DEF s, last
<1>7. /\ t \in Seq(Row) /\ Len(t) = Len(s) + Len(b) /\ Len(s) \in Nat /\ Len(b) \in Nat
      /\ \A n \in 1 .. Len(s) : n \in 1 .. Len(t) /\ t[n] = s[n]
      /\ \A n \in 1 .. Len(b) : Len(s) + n \in 1 .. Len(t) /\ t[Len(s) + n] = b[n]
      /\ \A n \in 1 .. Len(t) : \/ n \in 1 .. Len(s) /\ t[n] = s[n]
                                \/ n - Len(s) \in 1 .. Len(b) /\ t[n] = b[n - Len(s)]
  BY <1>1, <1>5, <1>6, Extended
<1>8. \A n \in 1 .. Len(s) : s[n] \in Nat
  BY <1>1
<1>9. \A n \in 1 .. Len(b) : b[n] \in Nat
  BY <1>1, <1>5
<1>10. Ascends(t)
  <2> SUFFICES ASSUME NEW m \in 1 .. Len(t), NEW n \in 1 .. Len(t), m < n PROVE t[m] < t[n]
    BY DEF Ascends
  <2>1. CASE n \in 1 .. Len(s)
    <3>1. m \in 1 .. Len(s)
      BY <2>1, <1>7
    <3> QED
      BY <2>1, <3>1, <1>3, <1>7 DEF Ascends
  <2>2. CASE m \in 1 .. Len(s) /\ n \notin 1 .. Len(s)
    <3>1. t[m] <= last /\ t[m] \in Nat
      BY <2>2, <1>4, <1>7, <1>8
    <3>2. t[n] > last /\ t[n] \in Nat
      <4>1. n - Len(s) \in 1 .. Len(b) /\ t[n] = b[n - Len(s)]
        BY <2>2, <1>7
      <4> QED
        BY <4>1, <1>5, <1>9
    <3> QED
      BY <3>1, <3>2, <1>1
  <2>3. CASE m \notin 1 .. Len(s) /\ n \notin 1 .. Len(s)
    <3>1. m - Len(s) \in 1 .. Len(b) /\ n - Len(s) \in 1 .. Len(b) /\ m - Len(s) < n - Len(s)
      BY <2>3, <1>7
    <3>2. t[m] = b[m - Len(s)] /\ t[n] = b[n - Len(s)]
      BY <2>3, <1>7
    <3>3. b[m - Len(s)] < b[n - Len(s)]
      BY <3>1, <1>5 DEF Ascends
    <3> QED
      BY <3>2, <3>3
  <2> QED
    BY <2>1, <2>2, <2>3, <1>7
<1>11. ASSUME NEW i \in stayed
       PROVE  (\E n \in 1 .. Len(t) : t[n] = i) \/ (Len(b) = PageSize /\ i > b[Len(b)])
  <2>0. i \in table /\ i \in Nat
    BY <1>1
  <2>1. CASE \E n \in 1 .. Len(s) : s[n] = i
    BY <2>1, <1>7
  <2>2. CASE i > last /\ ~(Len(b) = PageSize /\ i > b[Len(b)])
    <3>1. Len(b) < PageSize \/ i <= b[Len(b)]
      <4>1. CASE Len(b) = PageSize
        <5>1. Len(b) \in 1 .. Len(b)
          BY <4>1, <1>1, <1>7
        <5>2. b[Len(b)] \in Nat
          BY <5>1, <1>9
        <5> QED
          BY <4>1, <5>2, <2>0, <2>2
      <4>2. CASE Len(b) # PageSize
        BY <4>2, <1>1, <1>5, <1>7
      <4> QED
        BY <4>1, <4>2
    <3>2. \E n \in 1 .. Len(b) : b[n] = i
      BY <2>0, <2>2, <3>1, <1>5
    <3>3. PICK n \in 1 .. Len(b) : b[n] = i
      BY <3>2
    <3>4. Len(s) + n \in 1 .. Len(t) /\ t[Len(s) + n] = i
      BY <3>3, <1>7
    <3> QED
      BY <3>4
  <2> QED
    BY <2>1, <2>2, <1>3
<1>12. ASSUME moves = 0, NEW n \in 1 .. Len(t) PROVE t[n] \in table
  <2>1. CASE n \in 1 .. Len(s) /\ t[n] = s[n]
    BY <2>1, <1>3, <1>12
  <2>2. CASE n - Len(s) \in 1 .. Len(b) /\ t[n] = b[n - Len(s)]
    BY <2>2, <1>5
  <2> QED
    BY <2>1, <2>2, <1>7
<1> QED
  BY <1>5, <1>10, <1>11, <1>12

LEMMA SkipExtends ==
  ASSUME ScanInv, scan.pc = "asking", scan.mode = "skip", moves = 0,
         NEW b, b = SkipPage(scan.page)
  PROVE  LET t == scan.rows \o b
             o == Ordered(table, ByPlace) IN
         /\ Len(t) <= Len(o) /\ \A n \in 1 .. Len(t) : t[n] = o[n]
         /\ Len(b) < PageSize => Len(t) = Len(o)
<1> DEFINE s == scan.rows
           from == scan.page * PageSize
           t == s \o b
           o == Ordered(table, ByPlace)
<1>1. /\ s \in Seq(Row) /\ scan.page \in Nat /\ table \subseteq Row /\ PageSize \in Nat
      /\ Len(s) = from /\ from \in Nat
  <2>1. s \in Seq(Row) /\ scan.page \in 0 .. MaxPages - 1 /\ table \subseteq Row
    BY DEF ScanInv, ScanTypeOK
  <2>2. PageSize \in Nat /\ MaxPages \in Nat
    BY PagesAssumption
  <2>3. Len(s) = from
    BY DEF ScanInv, PagesFill
  <2>4. Len(s) \in Nat
    BY <2>1
  <2> HIDE DEF s, from
  <2> QED
    BY <2>1, <2>2, <2>3, <2>4
<1>2. Len(s) <= Len(o) /\ \A n \in 1 .. Len(s) : s[n] = o[n]
  BY DEF ScanInv, SkipRead, Reading
<1>3. /\ b \in Seq(Row) /\ Len(b) <= PageSize
      /\ from <= Len(o) =>
           /\ \A n \in 1 .. Len(b) : from + n \in 1 .. Len(o) /\ b[n] = o[from + n]
           /\ Len(b) < PageSize => from + Len(b) = Len(o)
  <2>1. table \subseteq Row /\ scan.page \in Nat
    BY <1>1
  <2> QED
    BY <2>1, SkipPageIs
<1>4. Len(o) \in Nat
  <2>1. IsFiniteSet(table) /\ IsTotalOn(table, ByPlace)
    BY <1>1, OrdersAreTotal
  <2> QED
    BY <2>1, OrderedLists
<1>5. t = s \o b
  OBVIOUS
<1> HIDE DEF s, from, t, o
<1>6. /\ t \in Seq(Row) /\ Len(t) = Len(s) + Len(b) /\ Len(s) \in Nat /\ Len(b) \in Nat
      /\ \A n \in 1 .. Len(t) : \/ n \in 1 .. Len(s) /\ t[n] = s[n]
                                \/ n - Len(s) \in 1 .. Len(b) /\ t[n] = b[n - Len(s)]
  <2>1. s \in Seq(Row) /\ b \in Seq(Row)
    BY <1>1, <1>3
  <2> QED
    BY <2>1, <1>5, Extended
<1>7. \A n \in 1 .. Len(b) : from + n \in 1 .. Len(o) /\ b[n] = o[from + n]
  BY <1>1, <1>2, <1>3
<1>8. ASSUME NEW n \in 1 .. Len(t) PROVE t[n] = o[n]
  <2>1. CASE n \in 1 .. Len(s) /\ t[n] = s[n]
    BY <2>1, <1>2
  <2>2. CASE n - Len(s) \in 1 .. Len(b) /\ t[n] = b[n - Len(s)]
    <3>1. b[n - Len(s)] = o[from + (n - Len(s))]
      BY <2>2, <1>7
    <3>2. from + (n - Len(s)) = n
      BY <1>1, <1>6
    <3> QED
      BY <2>2, <3>1, <3>2
  <2> QED
    BY <2>1, <2>2, <1>6
<1>9. Len(t) <= Len(o)
  <2>1. CASE Len(b) = 0
    BY <2>1, <1>2, <1>6
  <2>2. CASE Len(b) # 0
    <3>1. Len(b) \in 1 .. Len(b)
      BY <2>2, <1>6
    <3>2. from + Len(b) \in 1 .. Len(o)
      BY <3>1, <1>7
    <3> QED
      BY <3>2, <1>1, <1>4, <1>6
  <2> QED
    BY <2>1, <2>2
<1>10. Len(b) < PageSize => Len(t) = Len(o)
  BY <1>1, <1>2, <1>3, <1>6
<1> QED
  BY <1>8, <1>9, <1>10 DEF s, t, o

(* A page is the next one, or one that a gateway repeats.                  *)
LEMMA BatchIs ==
  ASSUME ScanInv, scan.pc = "asking", NEW b \in Batches
  PROVE  /\ b \in Seq(Row) /\ Len(b) <= PageSize
         /\ Len(b) = PageSize => b[Len(b)] \in Row
         /\ scan.mode = "skip" => b = SkipPage(scan.page)
         /\ scan.mode = "cursor" => \/ b = CursorPage(scan.last)
                                    \/ Len(b) = PageSize /\ b[Len(b)] = scan.last
<1> DEFINE s == scan.rows
<1>1. /\ s \in Seq(Row) /\ scan.last \in Row \cup {0} /\ scan.page \in 0 .. MaxPages - 1
      /\ table \subseteq Row /\ scan.mode \in {"skip", "cursor"}
  BY DEF ScanInv, ScanTypeOK, Modes
<1>2. PageSize \in Nat \ {0} /\ MaxPages \in Nat /\ \A i \in Row : i \in Nat
  BY PagesAssumption
<1>3. scan.last \in Nat /\ scan.page \in Nat
  BY <1>1, <1>2
<1>4. CASE scan.mode = "skip"
  <2>1. b = SkipPage(scan.page)
    BY <1>4 DEF Batches
  <2>2. b \in Seq(Row) /\ Len(b) <= PageSize
    BY <1>1, <1>3, <2>1, SkipPageIs
  <2>3. Len(b) = PageSize => b[Len(b)] \in Row
    BY <1>2, <2>2
  <2> QED
    BY <1>4, <2>1, <2>2, <2>3
<1>5. CASE scan.mode = "cursor" /\ b = CursorPage(scan.last)
  <2>1. b \in Seq(Row) /\ Len(b) <= PageSize
    BY <1>1, <1>3, <1>5, CursorPageIs
  <2>2. Len(b) = PageSize => b[Len(b)] \in Row
    BY <1>2, <2>1
  <2> QED
    BY <1>5, <2>1, <2>2
<1>6. CASE scan.mode = "cursor" /\ b # CursorPage(scan.last)
  <2>1. scan.page # 0 /\ b = SubSeq(s, Len(s) - PageSize + 1, Len(s))
    BY <1>6 DEF Batches
  <2>2. Len(s) = scan.page * PageSize
    BY DEF ScanInv, PagesFill
  <2>3. s[Len(s)] = scan.last
    BY <1>6, <2>1 DEF ScanInv, CursorRead, Reading
  <2> HIDE DEF s
  <2>4. Len(s) >= PageSize /\ Len(s) \in Nat
    <3> DEFINE k == scan.page
    <3>1. k \in Nat \ {0} /\ Len(s) = k * PageSize
      BY <1>3, <2>1, <2>2
    <3> HIDE DEF k
    <3>2. k = (k - 1) + 1 /\ k - 1 \in Nat
      BY <3>1
    <3>3. k * PageSize = (k - 1) * PageSize + PageSize /\ (k - 1) * PageSize \in Nat
      BY <3>2, <1>2
    <3> QED
      BY <3>1, <3>3, <1>2
  <2>5. /\ b \in Seq(Row) /\ Len(b) = PageSize
        /\ b[PageSize] = s[Len(s) - PageSize + PageSize]
    BY <1>1, <1>2, <2>1, <2>4
  <2>6. Len(s) - PageSize + PageSize = Len(s)
    BY <1>2, <2>4
  <2>7. b[Len(b)] = scan.last
    BY <2>3, <2>5, <2>6
  <2>8. b[Len(b)] \in Row
    BY <1>2, <2>5
  <2> QED
    BY <1>2, <1>6, <2>5, <2>7, <2>8
<1> QED
  BY <1>1, <1>4, <1>5, <1>6

LEMMA PageArrivesInv == ASSUME ScanInv, PageArrives PROVE ScanInv'
<1>1. PICK b \in Batches :
        LET rows == scan.rows \o b
            tail == b[Len(b)] IN
        IF Ends(b) THEN Return(rows, FALSE)
        ELSE IF (scan.mode = "cursor" /\ tail = scan.last) \/ AtCap
             THEN Return(rows, TRUE)
             ELSE AskNext(rows, IF scan.mode = "cursor" THEN tail ELSE 0)
  BY DEF PageArrives
<1>2. /\ scan.pc = "asking" /\ table' = table /\ scanAborted' = scanAborted
      /\ stayed' = stayed /\ moves' = moves
  BY DEF PageArrives
<1>3. /\ b \in Seq(Row) /\ Len(b) <= PageSize
      /\ Len(b) = PageSize => b[Len(b)] \in Row
      /\ scan.mode = "skip" => b = SkipPage(scan.page)
      /\ scan.mode = "cursor" => \/ b = CursorPage(scan.last)
                                 \/ Len(b) = PageSize /\ b[Len(b)] = scan.last
  BY <1>2, BatchIs
<1> DEFINE t == scan.rows \o b
           Scans == [pc : {"idle", "asking", "done", "failed"}, mode : Modes,
                     page : 0 .. MaxPages - 1, last : Row \cup {0}, rows : Seq(Row),
                     truncated : BOOLEAN]
<1>4. /\ scan \in Scans /\ scan.rows \in Seq(Row) /\ scan.page \in 0 .. MaxPages - 1
      /\ scan.mode \in {"skip", "cursor"} /\ scan.last \in Row \cup {0}
      /\ table \subseteq Row
  BY DEF ScanInv, ScanTypeOK, Modes
<1>5. PageSize \in Nat \ {0} /\ MaxPages \in Nat \ {0} /\ Row \subseteq Nat \ {0}
  BY PagesAssumption
<1>6. t \in Seq(Row) /\ Len(t) = Len(scan.rows) + Len(b) /\ Len(b) \in Nat /\ Len(scan.rows) \in Nat
  BY <1>3, <1>4
<1>7. Ends(b) <=> Len(b) < PageSize
  BY DEF Ends
<1>8. ScanTypeOK' /\ (moves' = 0 => stayed' = table') =>
        (PagesFill' /\ CursorRead' /\ SkipRead' => ScanInv')
  BY DEF ScanInv
<1>9. moves' = 0 => stayed' = table'
  BY <1>2 DEF ScanInv
<1>10. Ordered(table, ByPlace)' = Ordered(table, ByPlace)
  BY <1>2 DEF Ordered, ByPlace
<1>11. scan.mode = "skip" /\ moves = 0 =>
         /\ Len(t) <= Len(Ordered(table, ByPlace))
         /\ \A n \in 1 .. Len(t) : t[n] = Ordered(table, ByPlace)[n]
         /\ Len(b) < PageSize => Len(t) = Len(Ordered(table, ByPlace))
  <2> SUFFICES ASSUME scan.mode = "skip", moves = 0
               PROVE  /\ Len(t) <= Len(Ordered(table, ByPlace))
                      /\ \A n \in 1 .. Len(t) : t[n] = Ordered(table, ByPlace)[n]
                      /\ Len(b) < PageSize => Len(t) = Len(Ordered(table, ByPlace))
    OBVIOUS
  <2>1. scan.pc = "asking" /\ b = SkipPage(scan.page)
    BY <1>2, <1>3
  <2> QED
    BY <2>1, SkipExtends
<1>12. scan.mode = "cursor" /\ b = CursorPage(scan.last) =>
         /\ Ascends(t)
         /\ \A i \in stayed : \/ \E n \in 1 .. Len(t) : t[n] = i
                              \/ Len(b) = PageSize /\ i > b[Len(b)]
         /\ moves = 0 => \A n \in 1 .. Len(t) : t[n] \in table
  BY <1>2, CursorExtends
<1>13. t = scan.rows \o b
  OBVIOUS
<1> HIDE DEF t, Scans
<1>14. \A end \in BOOLEAN : Return(t, end) =>
         /\ scan' \in Scans /\ scan'.pc = "done" /\ scan'.mode = scan.mode
         /\ scan'.rows = t /\ scan'.truncated = end
  BY <1>4, <1>6 DEF Return, Scans
<1>15. ScanTypeOK' <=> scan' \in Scans
  BY <1>2 DEF ScanInv, ScanTypeOK, Scans
<1>16. CASE Ends(b)
  <2>1. Return(t, FALSE)
    BY <1>1, <1>13, <1>16
  <2>2. /\ scan' \in Scans /\ scan'.pc = "done" /\ scan'.mode = scan.mode
        /\ scan'.rows = t /\ scan'.truncated = FALSE /\ Len(b) < PageSize
    BY <1>7, <1>14, <1>16, <2>1
  <2>3. Complete' /\ Reading' /\ scan'.pc # "asking"
    BY <2>2 DEF Complete, Reading
  <2>4. PagesFill'
    BY <2>2 DEF PagesFill
  <2>5. ASSUME scan'.mode = "cursor" PROVE CursorRead'
    <3>1. b = CursorPage(scan.last)
      BY <1>3, <1>5, <1>6, <2>2, <2>5
    <3>2. /\ Ascends(t)
          /\ \A i \in stayed : \E n \in 1 .. Len(t) : t[n] = i
          /\ moves = 0 => \A n \in 1 .. Len(t) : t[n] \in table
      <4>1. scan.mode = "cursor" /\ ~(Len(b) = PageSize)
        BY <1>5, <1>6, <2>2, <2>5
      <4> QED
        BY <1>12, <3>1, <4>1
    <3> QED
      BY <1>2, <2>2, <2>3, <3>2 DEF CursorRead
  <2>6. CursorRead'
    BY <2>5 DEF CursorRead
  <2>7. SkipRead'
    BY <1>2, <1>10, <1>11, <2>2, <2>3 DEF SkipRead
  <2> QED
    BY <1>8, <1>9, <1>15, <2>2, <2>4, <2>6, <2>7
<1>17. CASE ~Ends(b) /\ ((scan.mode = "cursor" /\ b[Len(b)] = scan.last) \/ AtCap)
  <2>1. Return(t, TRUE)
    BY <1>1, <1>13, <1>17
  <2>2. scan' \in Scans /\ scan'.pc = "done" /\ scan'.truncated = TRUE
    BY <1>14, <2>1
  <2>3. ~Complete' /\ ~Reading'
    BY <2>2 DEF Complete, Reading
  <2>4. PagesFill' /\ CursorRead' /\ SkipRead'
    BY <2>2, <2>3 DEF PagesFill, CursorRead, SkipRead
  <2> QED
    BY <1>8, <1>9, <1>15, <2>2, <2>4
<1>18. CASE ~Ends(b) /\ ~((scan.mode = "cursor" /\ b[Len(b)] = scan.last) \/ AtCap)
  <2> DEFINE last == IF scan.mode = "cursor" THEN b[Len(b)] ELSE 0
  <2>1. AskNext(t, last)
    BY <1>1, <1>13, <1>18
  <2>2. Len(b) = PageSize /\ last \in Row \cup {0} /\ scan.page + 1 \in 0 .. MaxPages - 1
    <3>1. Len(b) = PageSize
      BY <1>3, <1>5, <1>6, <1>7, <1>18
    <3>2. scan.page + 1 \in 0 .. MaxPages - 1
      BY <1>4, <1>5, <1>18 DEF AtCap
    <3> QED
      BY <1>3, <3>1, <3>2
  <2>3. scan.mode = "cursor" => last = b[Len(b)]
    OBVIOUS
  <2> HIDE DEF last
  <2>4. CASE scanAborted
    <3>0. <<>> \in Seq(Row)
      OBVIOUS
    <3>1. scan' = [scan EXCEPT !.pc = "failed", !.rows = <<>>]
      BY <2>1, <2>4 DEF AskNext
    <3>2. scan' \in Scans /\ scan'.pc = "failed"
      BY <1>4, <3>0, <3>1 DEF Scans
    <3>3. PagesFill' /\ CursorRead' /\ SkipRead'
      BY <3>2 DEF PagesFill, CursorRead, SkipRead, Reading, Complete
    <3> QED
      BY <1>8, <1>9, <1>15, <3>2, <3>3
  <2>5. CASE ~scanAborted
    <3>1. scan' = [scan EXCEPT !.page = scan.page + 1, !.last = last, !.rows = t]
      BY <2>1, <2>5 DEF AskNext
    <3>2. /\ scan' \in Scans /\ scan'.pc = "asking" /\ scan'.mode = scan.mode
          /\ scan'.page = scan.page + 1 /\ scan'.last = last /\ scan'.rows = t
      BY <1>2, <1>4, <1>6, <2>2, <3>1 DEF Scans
    <3>3. Reading' /\ ~Complete'
      BY <3>2 DEF Complete, Reading
    <3>4. PagesFill'
      <4>1. Len(scan.rows) = scan.page * PageSize
        BY <1>2 DEF ScanInv, PagesFill
      <4>2. (scan.page + 1) * PageSize = scan.page * PageSize + PageSize
        BY <1>4, <1>5
      <4>3. scan.page + 1 # 0
        BY <1>4
      <4>4. Len(t) = (scan.page + 1) * PageSize
        BY <1>6, <2>2, <4>1, <4>2
      <4> QED
        BY <3>2, <4>3, <4>4 DEF PagesFill
    <3>5. ASSUME scan'.mode = "cursor" PROVE CursorRead'
      <4>1. b[Len(b)] # scan.last /\ b = CursorPage(scan.last) /\ last = b[Len(b)]
        BY <1>3, <1>18, <2>3, <3>2, <3>5
      <4>2. /\ Ascends(t)
            /\ \A i \in stayed : i > last \/ \E n \in 1 .. Len(t) : t[n] = i
            /\ moves = 0 => \A n \in 1 .. Len(t) : t[n] \in table
        BY <1>12, <3>2, <3>5, <4>1
      <4>3. t[Len(t)] = last
        <5>1. scan.rows \in Seq(Row) /\ b \in Seq(Row) /\ Len(b) \in 1 .. Len(b)
          BY <1>3, <1>4, <1>5, <1>6, <2>2
        <5>2. t[Len(scan.rows) + Len(b)] = b[Len(b)]
          BY <5>1, <1>13, Extended
        <5> QED
          BY <5>2, <4>1, <1>6
      <4> QED
        BY <1>2, <3>2, <3>3, <4>2, <4>3 DEF CursorRead
    <3>6. CursorRead'
      BY <3>5 DEF CursorRead
    <3>7. SkipRead'
      BY <1>2, <1>10, <1>11, <3>2, <3>3 DEF SkipRead
    <3> QED
      BY <1>8, <1>9, <1>15, <3>2, <3>4, <3>6, <3>7
  <2> QED
    BY <2>4, <2>5
<1> QED
  BY <1>16, <1>17, <1>18

LEMMA ScanInvariance == ScanSpec => []ScanInv
<1>1. ScanInv /\ [ScanNext]_scanVars => ScanInv'
  <2> SUFFICES ASSUME ScanInv, [ScanNext]_scanVars PROVE ScanInv'
    OBVIOUS
  <2>1. CASE UNCHANGED scanVars
    <3>1. scan' = scan /\ table' = table /\ scanAborted' = scanAborted /\ stayed' = stayed /\ moves' = moves
      BY <2>1 DEF scanVars
    <3>2. Ordered(table, ByPlace)' = Ordered(table, ByPlace)
      BY <3>1 DEF Ordered, ByPlace
    <3>3. ScanTypeOK' /\ PagesFill' /\ CursorRead' /\ (moves' = 0 => stayed' = table')
      BY <3>1 DEF ScanInv, ScanTypeOK, PagesFill, CursorRead, Reading, Complete
    <3>4. SkipRead'
      BY <3>1, <3>2 DEF ScanInv, SkipRead, Reading, Complete
    <3> QED
      BY <3>3, <3>4 DEF ScanInv
  <2>2. ASSUME NEW mode \in Modes, Begin(mode) PROVE ScanInv'
    BY <2>2, BeginInv
  <2>3. CASE PageArrives
    BY <2>3, PageArrivesInv
  <2>4. CASE PageFails
    BY <2>4, PageFailsInv
  <2>5. CASE AbortScan
    BY <2>5, AbortScanInv
  <2>6. ASSUME NEW i \in Row, TableChanges(i) PROVE ScanInv'
    BY <2>6, TableChangesInv
  <2> QED
    BY <2>1, <2>2, <2>3, <2>4, <2>5, <2>6 DEF ScanNext
<1> QED
  BY <1>1, ScanInitInv, PTL DEF ScanSpec

(* What is kept of a scan has its type, and no scan asks past its cap.     *)
THEOREM ScanTypeCorrect == ScanSpec => []ScanTypeOK
<1>1. ScanInv => ScanTypeOK
  BY DEF ScanInv
<1> QED
  BY <1>1, ScanInvariance, PTL

LEMMA AscendsOnce ==
  ASSUME NEW s \in Seq(Row), Ascends(s)
  PROVE  \A m, n \in 1 .. Len(s) : s[m] = s[n] => m = n
<1>1. \A n \in 1 .. Len(s) : s[n] \in Nat
  <2>1. \A n \in 1 .. Len(s) : s[n] \in Row
    OBVIOUS
  <2>2. \A i \in Row : i \in Nat
    BY PagesAssumption
  <2> QED
    BY <2>1, <2>2
<1>2. Len(s) \in Nat
  OBVIOUS
<1> QED
  BY <1>1, <1>2 DEF Ascends

LEMMA CursorCovers ==
  ASSUME ScanInv, Complete, scan.mode = "cursor"
  PROVE  /\ scan.rows \in Seq(Row) /\ DOMAIN scan.rows = 1 .. Len(scan.rows)
         /\ \A i \in stayed : \E n \in DOMAIN scan.rows : scan.rows[n] = i
         /\ \A m, n \in DOMAIN scan.rows : scan.rows[m] = scan.rows[n] => m = n
         /\ moves = 0 => \A n \in DOMAIN scan.rows : scan.rows[n] \in table
<1>1. scan.rows \in Seq(Row)
  BY DEF ScanInv, ScanTypeOK
<1>2. DOMAIN scan.rows = 1 .. Len(scan.rows)
  BY <1>1
<1>3. Reading /\ scan.pc # "asking"
  BY DEF Reading, Complete
<1>4. /\ Ascends(scan.rows)
      /\ \A i \in stayed : \E n \in 1 .. Len(scan.rows) : scan.rows[n] = i
      /\ moves = 0 => \A n \in 1 .. Len(scan.rows) : scan.rows[n] \in table
  BY <1>3 DEF ScanInv, CursorRead
<1>5. \A m, n \in 1 .. Len(scan.rows) : scan.rows[m] = scan.rows[n] => m = n
  BY <1>1, <1>4, AscendsOnce
<1> QED
  BY <1>1, <1>2, <1>4, <1>5

(* However many rows come and go between the pages, an unmarked scan by    *)
(* cursor has every row that stayed, and none twice.                       *)
THEOREM CursorsMissNothing == ScanSpec => []CursorNoGapsNoDuplicates
<1>1. ScanInv => CursorNoGapsNoDuplicates
  BY CursorCovers DEF CursorNoGapsNoDuplicates, Has
<1> QED
  BY <1>1, ScanInvariance, PTL

LEMMA TableRead ==
  ASSUME ScanInv, Complete, moves = 0
  PROVE  /\ scan.rows \in Seq(Row) /\ DOMAIN scan.rows = 1 .. Len(scan.rows)
         /\ {scan.rows[n] : n \in DOMAIN scan.rows} = table
         /\ \A m, n \in DOMAIN scan.rows : scan.rows[m] = scan.rows[n] => m = n
<1> DEFINE s == scan.rows
<1>1. /\ s \in Seq(Row) /\ table \subseteq Row /\ stayed = table
      /\ scan.mode \in {"skip", "cursor"}
  BY DEF ScanInv, ScanTypeOK, Modes
<1>2. DOMAIN s = 1 .. Len(s)
  BY <1>1
<1>3. CASE scan.mode = "cursor"
  BY <1>1, <1>2, <1>3, CursorCovers
<1>4. CASE scan.mode = "skip"
  <2> DEFINE o == Ordered(table, ByPlace)
  <2>1. /\ Len(s) = Len(o) /\ \A n \in 1 .. Len(s) : s[n] = o[n]
    BY <1>4 DEF ScanInv, SkipRead, Reading
  <2>2. IsFiniteSet(table) /\ IsTotalOn(table, ByPlace)
    BY <1>1, OrdersAreTotal
  <2>3. /\ o \in Seq(table) /\ Len(o) \in Nat
        /\ \A n \in 1 .. Len(o) : o[n] \in table
        /\ \A m, n \in 1 .. Len(o) : m < n => <<o[m], o[n]>> \in ByPlace
        /\ \A i \in table : \E n \in 1 .. Len(o) : o[n] = i
    BY <2>2, OrderedLists
  <2> HIDE DEF s, o
  <2>4. \A i \in table : <<i, i>> \notin ByPlace
    BY <2>2 DEF IsTotalOn
  <2>5. \A m, n \in 1 .. Len(o) : o[m] = o[n] => m = n
    <3> SUFFICES ASSUME NEW m \in 1 .. Len(o), NEW n \in 1 .. Len(o), o[m] = o[n], m # n PROVE FALSE
      OBVIOUS
    <3>1. m < n \/ n < m
      OBVIOUS
    <3> QED
      BY <3>1, <2>3, <2>4
  <2>6. {s[n] : n \in DOMAIN s} = table
    BY <1>2, <2>1, <2>3
  <2>7. \A m, n \in DOMAIN s : s[m] = s[n] => m = n
    BY <1>2, <2>1, <2>5
  <2> QED
    BY <1>1, <1>2, <2>6, <2>7 DEF s
<1> QED
  BY <1>1, <1>3, <1>4

(* An unmarked scan of a table at rest, by skip or by cursor, is the table.*)
THEOREM StillTablesAreRead == ScanSpec => []StillTableIsRead
<1>1. ASSUME ScanInv, Complete, moves = 0
      PROVE  Len(scan.rows) = Cardinality(table)
  <2> DEFINE s == scan.rows
  <2>1. /\ s \in Seq(Row) /\ DOMAIN s = 1 .. Len(s)
        /\ {s[n] : n \in DOMAIN s} = table
        /\ \A m, n \in DOMAIN s : s[m] = s[n] => m = n
    BY <1>1, TableRead
  <2> HIDE DEF s
  <2>2. Len(s) \in Nat
    BY <2>1
  <2>3. s \in [1 .. Len(s) -> table]
    BY <2>1
  <2>4. s \in Bijection(1 .. Len(s), table)
    BY <2>1, <2>3 DEF Bijection, Injection, Surjection, IsInjective
  <2>5. Cardinality(table) = Len(s)
    BY <2>2, <2>4, FS_CountingElements DEF ExistsBijection
  <2> QED
    BY <2>5 DEF s
<1>2. ScanInv => StillTableIsRead
  BY <1>1, TableRead DEF StillTableIsRead
<1> QED
  BY <1>2, ScanInvariance, PTL

(***************************************************************************)
(* Pages: what is made of the rows.                                        *)
(***************************************************************************)
(* A weighted mean of the values of the rows that have one lies between    *)
(* them, unless a row that weighs lacks a value.                           *)
LEMMA MeanLies ==
  ASSUME NEW rows \in Seq(Row), Measured(rows) # {}
  PROVE  /\ \E n \in Measured(rows) : Mean(rows) <= Value(rows[n])
         /\ Measured(rows) = Weighing(rows) => \E n \in Measured(rows) : Value(rows[n]) <= Mean(rows)
<1> DEFINE M == Measured(rows)
           W == Weighing(rows)
           w == [n \in DOMAIN rows |-> Weight[rows[n]]]
           p == [n \in DOMAIN rows |-> Weight[rows[n]] * Value(rows[n])]
           val == [n \in M |-> Value(rows[n])]
<1>1. DOMAIN rows = 1 .. Len(rows) /\ Len(rows) \in Nat /\ \A n \in DOMAIN rows : rows[n] \in Row
  OBVIOUS
<1>2. M \subseteq W /\ W \subseteq DOMAIN rows /\ M # {}
  BY DEF Measured, Weighing
<1>3. IsFiniteSet(DOMAIN rows)
  BY <1>1, FS_Interval
<1>4. IsFiniteSet(W) /\ IsFiniteSet(M) /\ W # {}
  BY <1>2, <1>3, FS_Subset
<1>5. \A n \in W : w[n] \in Nat \ {0} /\ w[n] \in Int
  <2> SUFFICES ASSUME NEW n \in W PROVE w[n] \in Nat \ {0} /\ w[n] \in Int
    OBVIOUS
  <2>1. n \in DOMAIN rows /\ Weight[rows[n]] > 0 /\ rows[n] \in Row
    BY <1>1 DEF Weighing
  <2>2. Weight[rows[n]] \in Int
    BY <2>1, PagesAssumption
  <2>3. w[n] = Weight[rows[n]]
    BY <2>1
  <2> QED
    BY <2>1, <2>2, <2>3
<1>6. \A n \in M : /\ val[n] \in Nat /\ val[n] = Value(rows[n])
                   /\ p[n] = w[n] * val[n] /\ p[n] \in Int
  <2> SUFFICES ASSUME NEW n \in M
               PROVE  /\ val[n] \in Nat /\ val[n] = Value(rows[n])
                      /\ p[n] = w[n] * val[n] /\ p[n] \in Int
    OBVIOUS
  <2>1. n \in DOMAIN rows /\ rows[n] \in Row /\ Metric[rows[n]] # None /\ w[n] \in Int
    BY <1>1, <1>2, <1>5 DEF Measured
  <2>2. Value(rows[n]) \in Nat
    <3>1. Metric[rows[n]] \in Int
      BY <2>1, PagesAssumption
    <3> QED
      BY <3>1 DEF Value
  <2>3. val[n] = Value(rows[n]) /\ p[n] = w[n] * val[n]
    BY <2>1
  <2>4. w[n] * Value(rows[n]) \in Int
    BY <2>1, <2>2
  <2> QED
    BY <2>2, <2>3, <2>4
<1>7. Mean(rows) = SumFunctionOnSet(p, M) \div SumFunctionOnSet(w, W)
  BY DEF Mean, Weighted
<1> HIDE DEF M, W, w, p, val
<1> DEFINE top == SumFunctionOnSet(p, M)
           bottom == SumFunctionOnSet(w, W)
<1>8. bottom \in Nat \ {0}
  BY <1>4, <1>5, SumPositive
<1>9. top \in Int /\ SumFunctionOnSet(w, M) \in Int
  <2>1. \A n \in M : p[n] \in Int /\ w[n] \in Int
    BY <1>2, <1>5, <1>6
  <2>2. M \in SUBSET M
    OBVIOUS
  <2> QED
    BY <2>1, <2>2, <1>4, SumStep
<1>10. \A n \in M : w[n] \in Int /\ p[n] \in Int /\ w[n] \in Nat
  BY <1>2, <1>5, <1>6
<1>11. SumFunctionOnSet(w, M) <= bottom
  <2>1. IsFiniteSet(W \ M) /\ \A n \in W \ M : w[n] \in Nat \ {0}
    BY <1>4, <1>5, FS_Subset
  <2>2. SumFunctionOnSet(w, W \ M) \in Nat
    <3>1. CASE W \ M = {}
      <4>1. SumFunctionOnSet(w, W \ M) = SumFunctionOnSet(w, {})
        BY <3>1
      <4> QED
        BY <4>1, SumEmpty
    <3>2. CASE W \ M # {}
      <4> DEFINE rest == W \ M
      <4>1. IsFiniteSet(rest) /\ rest # {} /\ \A n \in rest : w[n] \in Nat \ {0}
        BY <2>1, <3>2
      <4> HIDE DEF rest
      <4>2. SumFunctionOnSet(w, rest) \in Nat
        BY <4>1, SumPositive
      <4> QED
        BY <4>2 DEF rest
    <3> QED
      BY <3>1, <3>2
  <2>3. SumFunctionOnSet(w, W) = SumFunctionOnSet(w, M) + SumFunctionOnSet(w, W \ M)
    BY <1>2, <1>4, <1>5, SumSplit
  <2> QED
    BY <2>2, <2>3, <1>9
<1>12. \E n \in M : Mean(rows) <= val[n]
  <2>1. PICK n \in M : \A k \in M : val[k] <= val[n]
    <3>1. IsFiniteSet(M) /\ M # {} /\ \A n \in M : val[n] \in Int
      BY <1>2, <1>4, <1>6
    <3> QED
      BY <3>1, Extremes
  <2> DEFINE v == val[n]
             middle == SumFunctionOnSet(w, M)
  <2>2. v \in Nat /\ v \in Int
    BY <2>1, <1>6
  <2>3. \A k \in M : p[k] <= v * w[k]
    <3> SUFFICES ASSUME NEW k \in M PROVE p[k] <= v * w[k]
      OBVIOUS
    <3>1. p[k] = w[k] * val[k] /\ val[k] \in Nat /\ w[k] \in Nat /\ val[k] <= v
      BY <1>6, <1>10, <2>1
    <3> HIDE DEF v
    <3>2. v - val[k] \in Nat
      BY <3>1, <2>2
    <3>3. w[k] * (v - val[k]) \in Nat
      BY <3>1, <3>2
    <3>4. v * w[k] = w[k] * val[k] + w[k] * (v - val[k])
      BY <3>1, <2>2
    <3>5. w[k] * val[k] \in Nat
      BY <3>1
    <3> QED
      BY <3>1, <3>3, <3>4, <3>5
  <2> HIDE DEF v
  <2>4. top <= v * middle
    BY <1>4, <1>10, <2>2, <2>3, SumScaled
  <2> HIDE DEF top, bottom, middle
  <2>5. v * middle <= v * bottom
    <3>1. bottom - middle \in Nat
      BY <1>8, <1>9, <1>11 DEF middle
    <3>2. v * (bottom - middle) \in Nat
      BY <3>1, <2>2
    <3>3. v * bottom = v * middle + v * (bottom - middle)
      BY <1>8, <1>9, <2>2 DEF middle
    <3>4. v * middle \in Int
      BY <1>9, <2>2 DEF middle
    <3> QED
      BY <3>2, <3>3, <3>4
  <2>6. top <= v * bottom
    <3>1. v * middle \in Int /\ v * bottom \in Int
      BY <1>8, <1>9, <2>2 DEF middle
    <3> QED
      BY <1>9, <2>4, <2>5, <3>1
  <2>7. top \div bottom <= v
    <3>1. top \div bottom \in Int /\ top = bottom * (top \div bottom) + (top % bottom) /\ top % bottom \in 0 .. bottom - 1
      BY <1>8, <1>9
    <3> DEFINE q == top \div bottom
               r == top % bottom
    <3>2. q \in Int /\ r \in Nat /\ top = bottom * q + r
      BY <3>1, <1>8
    <3> HIDE DEF q, r
    <3>3. SUFFICES ASSUME q >= v + 1 PROVE FALSE
      BY <3>2, <2>2 DEF q
    <3>4. q - (v + 1) \in Nat
      BY <3>2, <3>3, <2>2
    <3>5. bottom * (q - (v + 1)) \in Nat
      BY <3>4, <1>8
    <3>6. bottom * q = v * bottom + bottom + bottom * (q - (v + 1))
      BY <3>2, <1>8, <2>2
    <3>7. v * bottom \in Int /\ bottom * q \in Int
      BY <3>2, <1>8, <2>2
    <3> QED
      BY <3>2, <3>5, <3>6, <3>7, <2>6, <1>8, <1>9
  <2>8. Mean(rows) <= val[n]
    BY <1>7, <2>7 DEF top, bottom, v
  <2> QED
    BY <2>8
<1>13. ASSUME M = W PROVE \E n \in M : val[n] <= Mean(rows)
  <2>1. PICK n \in M : \A k \in M : val[n] <= val[k]
    <3>1. IsFiniteSet(M) /\ M # {} /\ \A n \in M : val[n] \in Int
      BY <1>2, <1>4, <1>6
    <3> QED
      BY <3>1, Extremes
  <2> DEFINE v == val[n]
  <2>2. v \in Nat /\ v \in Int
    BY <2>1, <1>6
  <2>3. \A k \in M : v * w[k] <= p[k]
    <3> SUFFICES ASSUME NEW k \in M PROVE v * w[k] <= p[k]
      OBVIOUS
    <3>1. p[k] = w[k] * val[k] /\ val[k] \in Nat /\ w[k] \in Nat /\ v <= val[k]
      BY <1>6, <1>10, <2>1
    <3> HIDE DEF v
    <3>2. val[k] - v \in Nat
      BY <3>1, <2>2
    <3>3. w[k] * (val[k] - v) \in Nat
      BY <3>1, <3>2
    <3>4. w[k] * val[k] = v * w[k] + w[k] * (val[k] - v)
      BY <3>1, <2>2
    <3>5. v * w[k] \in Nat
      BY <3>1, <2>2
    <3> QED
      BY <3>1, <3>3, <3>4, <3>5
  <2> HIDE DEF v
  <2>4. v * SumFunctionOnSet(w, M) <= top
    BY <1>4, <1>10, <2>2, <2>3, SumScaled
  <2>5. v * bottom <= top
    <3>1. SumFunctionOnSet(w, M) = bottom
      BY <1>13
    <3> QED
      BY <2>4, <3>1
  <2> HIDE DEF top, bottom
  <2>6. v <= top \div bottom
    <3>1. top \div bottom \in Int /\ top = bottom * (top \div bottom) + (top % bottom) /\ top % bottom \in 0 .. bottom - 1
      BY <1>8, <1>9
    <3> DEFINE q == top \div bottom
               r == top % bottom
    <3>2. q \in Int /\ r \in Nat /\ r < bottom /\ top = bottom * q + r
      BY <3>1, <1>8
    <3> HIDE DEF q, r
    <3>3. SUFFICES ASSUME q + 1 <= v PROVE FALSE
      BY <3>2, <2>2 DEF q
    <3>4. v - (q + 1) \in Nat
      BY <3>2, <3>3, <2>2
    <3>5. bottom * (v - (q + 1)) \in Nat
      BY <3>4, <1>8
    <3>6. v * bottom = bottom * q + bottom + bottom * (v - (q + 1))
      BY <3>2, <1>8, <2>2
    <3>7. v * bottom \in Int /\ bottom * q \in Int
      BY <3>2, <1>8, <2>2
    <3> QED
      BY <3>2, <3>5, <3>6, <3>7, <2>5, <1>8, <1>9
  <2>7. val[n] <= Mean(rows)
    BY <1>7, <2>6 DEF top, bottom, v
  <2> QED
    BY <2>7
<1>14. /\ \E n \in M : Mean(rows) <= Value(rows[n])
       /\ M = W => \E n \in M : Value(rows[n]) <= Mean(rows)
  BY <1>6, <1>12, <1>13
<1> QED
  BY <1>14 DEF M, W

(* Whatever was read, a mean an indexer is told lies between the values of *)
(* its rows.                                                               *)
THEOREM MeansAreBetween == ScanSpec => []MeanIsBetween
<1>1. ScanInv => scan.rows \in Seq(Row)
  BY DEF ScanInv, ScanTypeOK
<1>2. ScanInv => MeanIsBetween
  BY <1>1, MeanLies DEF MeanIsBetween
<1> QED
  BY <1>2, ScanInvariance, PTL

(* The volumes of the rows read are the totals of the table.               *)
Total(d) == SumFunctionOnSet(Volume, {i \in table : Owner[i] = d})

LEMMA VolumesAreTotals ==
  ASSUME ScanInv, NEW rows \in Seq(Row), {rows[n] : n \in DOMAIN rows} = table,
         \A m, n \in DOMAIN rows : rows[m] = rows[n] => m = n
  PROVE  \A d : VolumeOf(rows, d) = Total(d) /\ VolumeOf(rows, d) \in Int
<1> SUFFICES ASSUME NEW d PROVE VolumeOf(rows, d) = Total(d) /\ VolumeOf(rows, d) \in Int
  OBVIOUS
<1> DEFINE A == {n \in DOMAIN rows : Owner[rows[n]] = d}
           h == [n \in A |-> rows[n]]
           g == [n \in DOMAIN rows |-> Volume[rows[n]]]
<1>1. DOMAIN rows = 1 .. Len(rows) /\ Len(rows) \in Nat /\ \A n \in DOMAIN rows : rows[n] \in Row
  OBVIOUS
<1>2. IsFiniteSet(DOMAIN rows)
  BY <1>1, FS_Interval
<1>3. IsFiniteSet(A) /\ A \in SUBSET DOMAIN rows
  BY <1>2, FS_Subset
<1>4. IsFiniteSet(Row) /\ \A i \in Row : Volume[i] \in Int
  BY PagesAssumption
<1>5. \A n \in A : h[n] = rows[n] /\ h[n] \in Row /\ g[n] = Volume[h[n]] /\ g[n] \in Int
  BY <1>1, <1>4
<1>6. h \in [A -> Row]
  BY <1>1
<1>7. {h[n] : n \in A} = {i \in table : Owner[i] = d}
  <2>1. ASSUME NEW i \in table, Owner[i] = d PROVE i \in {h[n] : n \in A}
    <3>1. PICK n \in DOMAIN rows : rows[n] = i
      OBVIOUS
    <3>2. n \in A /\ h[n] = i
      BY <2>1, <3>1
    <3> QED
      BY <3>2
  <2>2. ASSUME NEW n \in A PROVE h[n] \in table /\ Owner[h[n]] = d
    OBVIOUS
  <2> HIDE DEF h, A
  <2> QED
    BY <2>1, <2>2
<1>8. \A m, n \in A : h[m] = h[n] => m = n
  BY <1>3, <1>5
<1>9. VolumeOf(rows, d) = SumFunctionOnSet(g, A)
  BY DEF VolumeOf
<1> HIDE DEF A, h, g
<1>10. SumFunctionOnSet(g, A) = SumFunctionOnSet(Volume, {h[n] : n \in A})
  <2>1. \A n \in A : g[n] = Volume[h[n]]
    BY <1>5
  <2>2. IsFiniteSet(A) /\ IsFiniteSet(Row) /\ \A i \in Row : Volume[i] \in Int
    BY <1>3, <1>4
  <2> QED
    BY <1>6, <1>8, <2>1, <2>2, SumImage
<1>11. SumFunctionOnSet(Volume, {h[n] : n \in A}) = Total(d)
  BY <1>7 DEF Total
<1>12. SumFunctionOnSet(g, A) \in Int
  <2>1. A \in SUBSET A /\ \A n \in A : g[n] \in Int
    BY <1>5
  <2> QED
    BY <2>1, <1>3, SumStep
<1> QED
  BY <1>9, <1>10, <1>11, <1>12

LEMMA SeenIs ==
  ASSUME NEW rows \in Seq(Row), NEW d \in Owners(rows)
  PROVE  Seen(rows, d) \in Nat /\ Seen(rows, d) \in DOMAIN rows /\ Owner[rows[Seen(rows, d)]] = d
<1> DEFINE A == {n \in DOMAIN rows : Owner[rows[n]] = d}
           id == [n \in A |-> n]
<1>1. DOMAIN rows = 1 .. Len(rows) /\ Len(rows) \in Nat
  OBVIOUS
<1>2. IsFiniteSet(DOMAIN rows)
  BY <1>1, FS_Interval
<1>3. IsFiniteSet(A)
  <2>1. A \in SUBSET DOMAIN rows
    OBVIOUS
  <2> HIDE DEF A
  <2> QED
    BY <1>2, <2>1, FS_Subset
<1>4. A # {}
  BY DEF Owners
<1>5. PICK n \in A : \A m \in A : n <= m
  <2>1. \A x \in A : id[x] \in Int /\ id[x] = x
    BY <1>1
  <2> HIDE DEF A, id
  <2>2. \E x \in A : \A y \in A : id[x] <= id[y]
    BY <1>3, <1>4, <2>1, Extremes
  <2> QED
    BY <2>1, <2>2
<1>6. \A m \in 1 .. n - 1 : Owner[rows[m]] # d
  BY <1>1, <1>5
<1>7. n \in DOMAIN rows /\ Owner[rows[n]] = d
  OBVIOUS
<1>8. Seen(rows, d) \in DOMAIN rows /\ Owner[rows[Seen(rows, d)]] = d
  BY <1>6, <1>7 DEF Seen
<1> QED
  BY <1>1, <1>8

LEMMA VolumeOrderIsTotal ==
  ASSUME NEW rows \in Seq(Row), \A d : VolumeOf(rows, d) \in Int
  PROVE  IsFiniteSet(Owners(rows)) /\ IsTotalOn(Owners(rows), ByVolume(rows))
<1> DEFINE O == Owners(rows)
           vol == [d \in O |-> VolumeOf(rows, d)]
           at == [d \in O |-> Seen(rows, d)]
<1>1. \A d \in O : /\ vol[d] \in Int /\ vol[d] = VolumeOf(rows, d)
                   /\ at[d] \in Nat /\ at[d] = Seen(rows, d) /\ Owner[rows[at[d]]] = d
  BY SeenIs
<1>2. IsFiniteSet(O)
  <2> DEFINE B == {n \in DOMAIN rows : Owner[rows[n]] # None}
             own == [n \in B |-> Owner[rows[n]]]
  <2>1. DOMAIN rows = 1 .. Len(rows) /\ Len(rows) \in Nat
    OBVIOUS
  <2>2. IsFiniteSet(DOMAIN rows)
    BY <2>1, FS_Interval
  <2>3. IsFiniteSet(B)
    <3>1. B \in SUBSET DOMAIN rows
      OBVIOUS
    <3> HIDE DEF B
    <3> QED
      BY <2>2, <3>1, FS_Subset
  <2>4. own \in [B -> O] /\ \A d \in O : \E n \in B : own[n] = d
    BY DEF Owners
  <2>5. own \in Surjection(B, O)
    <3> HIDE DEF own, B, O
    <3> QED
      BY <2>4 DEF Surjection
  <2> HIDE DEF own, B, O
  <2> QED
    BY <2>3, <2>5, FS_Surjection
<1>3. \A d, e \in O : <<d, e>> \in ByVolume(rows) <=> vol[d] > vol[e] \/ (vol[d] = vol[e] /\ at[d] < at[e])
  <2> SUFFICES ASSUME NEW d \in O, NEW e \in O
               PROVE  <<d, e>> \in ByVolume(rows) <=> vol[d] > vol[e] \/ (vol[d] = vol[e] /\ at[d] < at[e])
    OBVIOUS
  <2>1. <<d, e>> \in ByVolume(rows) <=>
          \/ VolumeOf(rows, d) > VolumeOf(rows, e)
          \/ VolumeOf(rows, d) = VolumeOf(rows, e) /\ Seen(rows, d) < Seen(rows, e)
    BY DEF ByVolume
  <2> HIDE DEF vol, at, O
  <2> QED
    BY <1>1, <2>1
<1> HIDE DEF O, vol, at
<1>4. \A d, e \in O : at[d] = at[e] => d = e
  BY <1>1
<1>5. IsTotalOn(O, ByVolume(rows))
  <2>1. \A d \in O : vol[d] \in Int /\ at[d] \in Int
    BY <1>1
  <2> QED
    BY <1>3, <1>4, <2>1 DEF IsTotalOn
<1> QED
  BY <1>2, <1>5 DEF O

(* The ranking of an unmarked scan by cursor of a table at rest is what    *)
(* the table has: no deployment left out of it has more queries than one   *)
(* in it, the larger come first, and it is as long as it may be.           *)
THEOREM RankingsAreTop == ScanSpec => []RankingIsTop
<1>1. ASSUME ScanInv, Complete, moves = 0
      PROVE  LET top == Ranked(scan.rows)
                 listed == {top[n] : n \in DOMAIN top}
                 all == {Owner[i] : i \in table} \ {None} IN
             /\ Len(top) = IF Cardinality(all) < Limit THEN Cardinality(all) ELSE Limit
             /\ \A d \in listed, e \in all \ listed : Total(d) >= Total(e)
             /\ \A m, n \in DOMAIN top : m < n => Total(top[m]) >= Total(top[n])
  <2> DEFINE rows == scan.rows
             all == {Owner[i] : i \in table} \ {None}
             o == Ordered(Owners(rows), ByVolume(rows))
             top == Ranked(rows)
             listed == {top[n] : n \in DOMAIN top}
  <2>1. /\ rows \in Seq(Row) /\ {rows[n] : n \in DOMAIN rows} = table
        /\ \A m, n \in DOMAIN rows : rows[m] = rows[n] => m = n
    BY <1>1, TableRead
  <2>2. Owners(rows) = all
    <3> HIDE DEF rows
    <3> QED
      BY <2>1 DEF Owners
  <2> HIDE DEF rows
  <2>3. \A d : VolumeOf(rows, d) = Total(d) /\ VolumeOf(rows, d) \in Int
    BY <1>1, <2>1, VolumesAreTotals
  <2>4. IsFiniteSet(Owners(rows)) /\ IsTotalOn(Owners(rows), ByVolume(rows))
    BY <2>1, <2>3, VolumeOrderIsTotal
  <2>5. /\ o \in Seq(Owners(rows)) /\ Len(o) = Cardinality(Owners(rows)) /\ Len(o) \in Nat
        /\ \A n \in 1 .. Len(o) : o[n] \in Owners(rows)
        /\ \A m, n \in 1 .. Len(o) : m < n => <<o[m], o[n]>> \in ByVolume(rows)
        /\ \A d \in Owners(rows) : \E n \in 1 .. Len(o) : o[n] = d
    BY <2>4, OrderedLists
  <2>6. top = First(o, Limit)
    BY DEF Ranked
  <2> HIDE DEF o, top, all
  <2>7. Limit \in Nat
    BY PagesAssumption
  <2>8. /\ top \in Seq(Owners(rows))
        /\ Len(top) = (IF Len(o) < Limit THEN Len(o) ELSE Limit)
        /\ \A n \in 1 .. Len(top) : n \in 1 .. Len(o) /\ top[n] = o[n]
    BY <2>5, <2>6, <2>7, FirstIs
  <2>9. DOMAIN top = 1 .. Len(top) /\ Len(top) \in Nat
    BY <2>8
  <2>10. \A m, n \in 1 .. Len(o) : m < n => Total(o[m]) >= Total(o[n])
    <3> SUFFICES ASSUME NEW m \in 1 .. Len(o), NEW n \in 1 .. Len(o), m < n
                 PROVE  Total(o[m]) >= Total(o[n])
      OBVIOUS
    <3>1. <<o[m], o[n]>> \in ByVolume(rows)
      BY <2>5
    <3>2. \/ VolumeOf(rows, o[m]) > VolumeOf(rows, o[n])
          \/ VolumeOf(rows, o[m]) = VolumeOf(rows, o[n])
      BY <3>1 DEF ByVolume
    <3> QED
      BY <2>3, <3>2
  <2>11. Len(top) = IF Cardinality(all) < Limit THEN Cardinality(all) ELSE Limit
    BY <2>2, <2>5, <2>8
  <2>12. ASSUME NEW d \in listed, NEW e \in all \ listed PROVE Total(d) >= Total(e)
    <3>1. PICK m \in 1 .. Len(top) : top[m] = d
      BY <2>9
    <3>2. PICK n \in 1 .. Len(o) : o[n] = e
      BY <2>2, <2>5
    <3>3. n \notin 1 .. Len(top)
      <4>1. ASSUME n \in 1 .. Len(top) PROVE FALSE
        <5>1. top[n] = e /\ n \in DOMAIN top
          BY <2>8, <2>9, <3>2, <4>1
        <5> QED
          BY <5>1
      <4> QED
        BY <4>1
    <3>4. m \in 1 .. Len(o) /\ o[m] = d /\ m < n
      BY <2>8, <2>9, <3>1, <3>2, <3>3
    <3> QED
      BY <2>10, <3>2, <3>4
  <2>13. \A m, n \in DOMAIN top : m < n => Total(top[m]) >= Total(top[n])
    BY <2>8, <2>9, <2>10
  <2>14. /\ Len(top) = IF Cardinality(all) < Limit THEN Cardinality(all) ELSE Limit
         /\ \A d \in listed, e \in all \ listed : Total(d) >= Total(e)
         /\ \A m, n \in DOMAIN top : m < n => Total(top[m]) >= Total(top[n])
    BY <2>11, <2>12, <2>13
  <2> QED
    BY <2>14 DEF rows, all, top
<1>2. ScanInv => RankingIsTop
  BY <1>1 DEF RankingIsTop, Total
<1> QED
  BY <1>2, ScanInvariance, PTL
=============================================================================
