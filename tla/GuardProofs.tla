------------------------------ MODULE GuardProofs ------------------------------
(***************************************************************************)
(* The two guards of the sink.  First the memory accounting behind          *)
(* applyBackpressure, for any number of workers.  What the workers hold is  *)
(* a sum that the library folds over a finite set, so the facts about sums  *)
(* come before those about the sink: a sum is unchanged where the summands  *)
(* are, and moves by one summand where one does.  Then the watchdog that    *)
(* restarts a sink which commits nothing.                                   *)
(***************************************************************************)
EXTENDS SinkMemory, CommitWatchdog, FiniteSetTheorems, TLAPS

\* A non-empty set of naturals has a least element.
LEMMA LeastExists ==
  ASSUME NEW S \in SUBSET Nat, S # {}
  PROVE  \E x \in S : \A y \in S : x <= y
<1> DEFINE R == {p \in Nat \X Nat : p[1] < p[2]}
<1>1. IsWellFoundedOn(R, Nat)
  <2>1. R = OpToRel(<, Nat)
    BY Zenon DEF OpToRel
  <2> QED BY <2>1, NatLessThanWellFounded, Zenon
<1>2. PICK x \in S : \A y \in S : ~(<<y, x>> \in R)
  BY <1>1, WFMin, Zenon
<1>3. ASSUME NEW y \in S PROVE x <= y
  <2>1. <<y, x>> \in Nat \X Nat /\ <<y, x>>[1] = y /\ <<y, x>>[2] = x
    BY Zenon
  <2>2. ~(y < x)
    BY <1>2, <2>1, Zenon
  <2> QED BY <2>2
<1> QED BY <1>3, Zenon

\* Induction over the naturals, for a set of them.
LEMMA EveryNatural ==
  ASSUME NEW H \in SUBSET Nat, 0 \in H, \A n \in H : n + 1 \in H
  PROVE  H = Nat
<1> SUFFICES ASSUME Nat \ H # {} PROVE FALSE
  BY Zenon
<1>1. PICK n \in Nat \ H : \A m \in Nat \ H : n <= m
  BY LeastExists, Zenon
<1>2. n - 1 \in Nat /\ n - 1 \in H
  BY <1>1
<1> QED BY <1>1, <1>2

\* What holds of a set whenever it holds of the set without any one of its
\* elements holds of every subset of a finite set.
LEMMA SubsetInduction ==
  ASSUME NEW D, IsFiniteSet(D), NEW G \in SUBSET (SUBSET D),
         \A s \in SUBSET D : (\A x \in s : s \ {x} \in G) => s \in G
  PROVE  G = SUBSET D
<1> DEFINE Bad == {n \in Nat : \E s \in SUBSET D : s \notin G /\ Cardinality(s) = n}
<1>1. \A s \in SUBSET D : IsFiniteSet(s) /\ Cardinality(s) \in Nat
  BY FS_Subset, FS_CardinalityType, Zenon
<1>2. SUFFICES ASSUME Bad # {} PROVE FALSE
  BY <1>1
<1>3. PICK n \in Bad : \A m \in Bad : n <= m
  <2>1. Bad \in SUBSET Nat
    BY Zenon
  <2> HIDE DEF Bad
  <2> QED BY <1>2, <2>1, LeastExists, Zenon
<1>4. PICK s \in SUBSET D : s \notin G /\ Cardinality(s) = n
  BY Zenon
<1>5. ASSUME NEW x \in s PROVE s \ {x} \in G
  <2>1. s \ {x} \in SUBSET D /\ Cardinality(s \ {x}) = n - 1
    BY <1>1, <1>4, FS_RemoveElement, Zenon
  <2>2. n - 1 \in Nat
    BY <1>1, <2>1
  <2>3. n - 1 \notin Bad
    BY <1>3, <2>2
  <2> QED BY <2>1, <2>2, <2>3, Zenon
<1> QED BY <1>4, <1>5, Zenon
-------------------------------------------------------------------------------
\* The fold of the library, as a function on the subsets of the domain.

\* The element the library's fold takes next.
First(s) == CHOOSE x \in s : TRUE

\* g is the sum of f over every subset of D, taken element by element.
IsSums(g, f, D) ==
  g = [s \in SUBSET D |-> IF s = {} THEN 0 ELSE f[First(s)] + g[s \ {First(s)}]]

\* That function.
Sums(f, D) == CHOOSE g : IsSums(g, f, D)

\* Total is the value of that function on the whole domain.
LEMMA TotalIsSums == ASSUME NEW f PROVE Total(f) = Sums(f, DOMAIN f)[DOMAIN f]
BY Zenon DEF Total, Sums, IsSums, First, FoldFunction, FoldFunctionOnSet, MapThenFoldSet

\* It is an element.
LEMMA FirstIn == ASSUME NEW s, s # {} PROVE First(s) \in s
BY Zenon DEF First

\* The function exists: it does on the sets of up to n elements, for every n.
LEMMA SumsExist ==
  ASSUME NEW D, IsFiniteSet(D), NEW f
  PROVE  IsSums(Sums(f, D), f, D)
<1> DEFINE Sub(n) == {s \in SUBSET D : Cardinality(s) <= n}
           Partial(g, n) == g = [s \in Sub(n) |-> IF s = {} THEN 0
                                                  ELSE f[First(s)] + g[s \ {First(s)}]]
           Have == {n \in Nat : \E g : Partial(g, n)}
<1>1. \A s \in SUBSET D : IsFiniteSet(s) /\ Cardinality(s) \in Nat
      /\ (Cardinality(s) = 0 <=> s = {})
  BY FS_Subset, FS_CardinalityType, FS_EmptySet, Zenon
<1>2. \A s \in SUBSET D : s # {} => /\ s \ {First(s)} \in SUBSET D
                                    /\ Cardinality(s \ {First(s)}) = Cardinality(s) - 1
  BY <1>1, FirstIn, FS_RemoveElement, Zenon
<1>3. \E g : Partial(g, 0)
  <2> DEFINE g == [s \in Sub(0) |-> 0]
  <2>1. \A s \in Sub(0) : s = {}
    BY <1>1
  <2>2. Partial(g, 0)
    BY <2>1, Zenon
  <2> QED BY <2>2, Zenon
<1>4. ASSUME NEW n \in Nat, NEW g, Partial(g, n) PROVE \E h : Partial(h, n + 1)
  <2> DEFINE h == [s \in Sub(n + 1) |-> IF s = {} THEN 0
                                         ELSE f[First(s)] + g[s \ {First(s)}]]
  <2>1. \A s \in Sub(n) : s \in Sub(n + 1)
    BY <1>1
  <2>2. \A s \in Sub(n) : g[s] = IF s = {} THEN 0 ELSE f[First(s)] + g[s \ {First(s)}]
    BY <1>4, Zenon
  <2>3. \A s \in Sub(n) : h[s] = g[s]
    BY <2>1, <2>2, Zenon
  <2>4. \A s \in Sub(n + 1) : s # {} => s \ {First(s)} \in Sub(n)
    BY <1>1, <1>2
  <2>5. \A s \in Sub(n + 1) : h[s] = IF s = {} THEN 0 ELSE f[First(s)] + h[s \ {First(s)}]
    BY <2>3, <2>4, Zenon
  <2>6. h = [s \in Sub(n + 1) |-> h[s]]
    BY Zenon
  <2> HIDE DEF h
  <2>7. Partial(h, n + 1)
    BY <2>5, <2>6, Zenon
  <2> QED BY <2>7, Zenon
<1>5. Have = Nat
  <2>1. Have \in SUBSET Nat /\ 0 \in Have /\ \A n \in Have : n + 1 \in Have
    <3>1. \A n \in Nat : (\E g : Partial(g, n)) => \E h : Partial(h, n + 1)
      BY <1>4, Zenon
    <3> HIDE DEF Partial
    <3> QED BY <1>3, <3>1
  <2> HIDE DEF Have
  <2> QED BY <2>1, EveryNatural, Zenon
<1>6. PICK g : Partial(g, Cardinality(D))
  BY <1>1, <1>5, Zenon
<1>7. Sub(Cardinality(D)) = SUBSET D
  BY FS_Subset, Zenon
<1>8. IsSums(g, f, D)
  BY <1>6, <1>7, Zenon DEF IsSums
<1> QED BY <1>8, Zenon DEF Sums

\* f has integer values on D, which is finite.
Summable(f, D) == IsFiniteSet(D) /\ \A x \in D : f[x] \in Int

\* The sum over a set is its first element's value and the sum over the rest.
LEMMA SumsStep ==
  ASSUME NEW D, IsFiniteSet(D), NEW f
  PROVE  /\ Sums(f, D)[{}] = 0
         /\ \A s \in SUBSET D :
              s # {} => Sums(f, D)[s] = f[First(s)] + Sums(f, D)[s \ {First(s)}]
<1> DEFINE g == Sums(f, D)
<1>1. IsSums(g, f, D)
  BY SumsExist, Zenon
<1> HIDE DEF g
<1>2. \A s \in SUBSET D : g[s] = IF s = {} THEN 0 ELSE f[First(s)] + g[s \ {First(s)}]
  BY <1>1, Zenon DEF IsSums
<1> QED BY <1>2, Zenon DEF g

\* Sums of integers are integers, and the order of summation does not matter.
LEMMA SumsInt ==
  ASSUME NEW D, NEW f, Summable(f, D)
  PROVE  \A s \in SUBSET D : Sums(f, D)[s] \in Int
<1> DEFINE g == Sums(f, D)
           G == {s \in SUBSET D : g[s] \in Int}
<1>1. /\ g[{}] = 0
      /\ \A s \in SUBSET D : s # {} => g[s] = f[First(s)] + g[s \ {First(s)}]
  BY SumsStep, Zenon DEF Summable
<1> HIDE DEF g
<1>2. ASSUME NEW s \in SUBSET D, \A x \in s : s \ {x} \in G PROVE s \in G
  <2>1. CASE s = {}
    BY <1>1, <2>1
  <2>2. CASE s # {}
    <3>1. First(s) \in s
      BY <2>2, FirstIn, Zenon
    <3>2. f[First(s)] \in Int /\ g[s \ {First(s)}] \in Int
      BY <1>2, <3>1, Zenon DEF Summable
    <3>3. g[s] = f[First(s)] + g[s \ {First(s)}]
      BY <1>1, <2>2, Zenon
    <3> QED BY <3>2, <3>3
  <2> QED BY <2>1, <2>2, Zenon
<1>3. G = SUBSET D
  <2>1. G \in SUBSET (SUBSET D)
    BY Zenon
  <2> HIDE DEF G
  <2> QED BY <1>2, <2>1, SubsetInduction, Zenon DEF Summable
<1> QED BY <1>3, Zenon DEF g

\* Any element may be taken first.
LEMMA SumsAny ==
  ASSUME NEW D, NEW f, Summable(f, D)
  PROVE  /\ Sums(f, D)[{}] = 0
         /\ \A s \in SUBSET D : \A y \in s : Sums(f, D)[s] = f[y] + Sums(f, D)[s \ {y}]
<1> DEFINE g == Sums(f, D)
           G == {s \in SUBSET D : \A y \in s : g[s] = f[y] + g[s \ {y}]}
<1>1. /\ g[{}] = 0
      /\ \A s \in SUBSET D : s # {} => g[s] = f[First(s)] + g[s \ {First(s)}]
  BY SumsStep, Zenon DEF Summable
<1>2. \A s \in SUBSET D : g[s] \in Int
  BY SumsInt, Zenon
<1> HIDE DEF g
<1>3. ASSUME NEW s \in SUBSET D, \A x \in s : s \ {x} \in G PROVE s \in G
  <2> SUFFICES ASSUME NEW y \in s PROVE g[s] = f[y] + g[s \ {y}]
    BY Zenon
  <2> DEFINE x == First(s)
  <2>1. x \in s /\ g[s] = f[x] + g[s \ {x}]
    BY <1>1, FirstIn, Zenon
  <2> HIDE DEF x
  <2>2. CASE x # y
    <3>1. g[s \ {x}] = f[y] + g[(s \ {x}) \ {y}]
      BY <1>3, <2>1, <2>2, Zenon
    <3>2. g[s \ {y}] = f[x] + g[(s \ {y}) \ {x}]
      BY <1>3, <2>1, <2>2, Zenon
    <3>3. (s \ {x}) \ {y} = (s \ {y}) \ {x} /\ (s \ {x}) \ {y} \in SUBSET D
      BY Zenon
    <3>4. f[x] \in Int /\ f[y] \in Int /\ g[(s \ {x}) \ {y}] \in Int
      BY <1>2, <2>1, <3>3, Zenon DEF Summable
    <3>5. \A a, b, c \in Int : a + (b + c) = b + (a + c)
      OBVIOUS
    <3>6. f[x] + (f[y] + g[(s \ {x}) \ {y}]) = f[y] + (f[x] + g[(s \ {x}) \ {y}])
      BY <3>4, <3>5, Zenon
    <3> QED BY <2>1, <3>1, <3>2, <3>3, <3>6, Zenon
  <2> QED BY <2>1, <2>2, Zenon
<1>4. G = SUBSET D
  <2>1. G \in SUBSET (SUBSET D)
    BY Zenon
  <2> HIDE DEF G
  <2> QED BY <1>3, <2>1, SubsetInduction, Zenon DEF Summable
<1>5. g[{}] = 0
  BY <1>1, Zenon
<1> QED BY <1>4, <1>5, Zenon DEF g

\* The values of f on S are those of h at the places to maps S to, one to one.
Matches(f, S, h, to) ==
  /\ \A x, y \in S : to[x] = to[y] => x = y
  /\ \A x \in S : f[x] = h[to[x]]

\* Sums over sets that correspond one to one are equal.
LEMMA SumsMatch ==
  ASSUME NEW D, NEW f, Summable(f, D), NEW E, NEW h, Summable(h, E),
         NEW S \in SUBSET D, NEW to \in [S -> E], Matches(f, S, h, to)
  PROVE  Sums(f, D)[S] = Sums(h, E)[{to[x] : x \in S}]
<1> DEFINE Image(s) == {to[x] : x \in s}
           G == {s \in SUBSET S : Sums(f, D)[s] = Sums(h, E)[Image(s)]}
<1>1. IsFiniteSet(S)
  BY FS_Subset, Zenon DEF Summable
<1>4. /\ Sums(f, D)[{}] = 0
      /\ \A s \in SUBSET D : \A y \in s : Sums(f, D)[s] = f[y] + Sums(f, D)[s \ {y}]
  BY SumsAny
<1>5. /\ Sums(h, E)[{}] = 0
      /\ \A s \in SUBSET E : \A y \in s : Sums(h, E)[s] = h[y] + Sums(h, E)[s \ {y}]
  BY SumsAny
<1>2. ASSUME NEW s \in SUBSET S, \A x \in s : s \ {x} \in G PROVE s \in G
  <2>1. CASE s = {}
    <3>1. Image(s) = {}
      BY <2>1, Zenon
    <3>2. Sums(f, D)[s] = 0 /\ Sums(h, E)[Image(s)] = 0
      BY <2>1, <3>1, <1>4, <1>5, Zenon
    <3> QED BY <3>2, Zenon
  <2>2. CASE s # {}
    <3>1. PICK x \in s : TRUE
      BY <2>2, Zenon
    <3>2. Sums(f, D)[s] = f[x] + Sums(f, D)[s \ {x}]
      BY <1>4, Zenon
    <3>3. to[x] \in Image(s) /\ Image(s) \in SUBSET E
      BY Zenon
    <3>4. Sums(h, E)[Image(s)] = h[to[x]] + Sums(h, E)[Image(s) \ {to[x]}]
      <4> HIDE DEF Image
      <4> QED BY <3>3, <1>5, Zenon
    <3>5. Image(s) \ {to[x]} = Image(s \ {x}) /\ f[x] = h[to[x]]
      BY DEF Matches
    <3>6. Sums(f, D)[s \ {x}] = Sums(h, E)[Image(s \ {x})]
      BY <1>2, Zenon
    <3> QED BY <3>2, <3>4, <3>5, <3>6, Zenon
  <2> QED BY <2>1, <2>2, Zenon
<1>3. G = SUBSET S
  <2>1. G \in SUBSET (SUBSET S)
    BY Zenon
  <2> HIDE DEF G
  <2> QED BY <1>1, <1>2, <2>1, SubsetInduction, Zenon
<1> QED BY <1>3, Zenon

\* Sums over the same set of functions that agree on it are equal.
LEMMA SumsAgree ==
  ASSUME NEW D, NEW f, Summable(f, D), NEW E, NEW h, Summable(h, E),
         NEW S \in SUBSET D, S \in SUBSET E, \A x \in S : f[x] = h[x]
  PROVE  Sums(f, D)[S] = Sums(h, E)[S]
<1> DEFINE to == [x \in S |-> x]
<1>1. /\ to \in [S -> E] /\ Matches(f, S, h, to)
      /\ {to[x] : x \in S} = S
  BY Zenon DEF Matches
<1> HIDE DEF to
<1>2. Sums(f, D)[S] = Sums(h, E)[{to[x] : x \in S}]
  BY <1>1, SumsMatch
<1> QED BY <1>1, <1>2, Zenon
-------------------------------------------------------------------------------
\* What the steps of the sink do to a Total.

\* A total of integers is an integer.
LEMMA TotalInt ==
  ASSUME NEW D, IsFiniteSet(D), NEW f \in [D -> Int]
  PROVE  Total(f) \in Int /\ Total(f) = Sums(f, D)[D] /\ Summable(f, D)
<1>1. DOMAIN f = D /\ Summable(f, D)
  BY Zenon DEF Summable
<1> QED BY <1>1, TotalIsSums, SumsInt, Zenon

\* Nothing adds up to nothing.
LEMMA TotalZero ==
  ASSUME NEW D, IsFiniteSet(D), NEW f \in [D -> Int], \A x \in D : f[x] = 0
  PROVE  Total(f) = 0
<1> DEFINE g == Sums(f, D)
           G == {s \in SUBSET D : g[s] = 0}
<1>1. Total(f) = g[D] /\ Summable(f, D)
  BY TotalInt, Zenon
<1>2. g[{}] = 0 /\ \A s \in SUBSET D : \A x \in s : g[s] = f[x] + g[s \ {x}]
  BY <1>1, SumsAny
<1> HIDE DEF g
<1>3. ASSUME NEW s \in SUBSET D, \A x \in s : s \ {x} \in G PROVE s \in G
  <2>1. CASE s = {}
    BY <1>2, <2>1, Zenon
  <2>2. CASE s # {}
    <3>1. PICK x \in s : TRUE
      BY <2>2, Zenon
    <3>2. g[s] = f[x] + g[s \ {x}] /\ g[s \ {x}] = 0 /\ f[x] = 0
      BY <1>2, <1>3, Zenon
    <3> QED BY <3>2
  <2> QED BY <2>1, <2>2, Zenon
<1>4. G = SUBSET D
  <2>1. G \in SUBSET (SUBSET D)
    BY Zenon
  <2> HIDE DEF G
  <2> QED BY <1>3, <2>1, SubsetInduction, Zenon
<1> QED BY <1>1, <1>4, Zenon

\* One value of a function changes.
LEMMA TotalUpdate ==
  ASSUME NEW D, IsFiniteSet(D), NEW f \in [D -> Int], NEW w \in D, NEW v \in Int
  PROVE  Total([f EXCEPT ![w] = v]) = Total(f) - f[w] + v
<1> DEFINE h == [f EXCEPT ![w] = v]
           r == Sums(f, D)[D \ {w}]
<1>1. h \in [D -> Int] /\ h[w] = v /\ \A x \in D \ {w} : f[x] = h[x]
  BY Zenon
<1> HIDE DEF h
<1>2. /\ Total(f) = Sums(f, D)[D] /\ Summable(f, D)
      /\ Total(h) = Sums(h, D)[D] /\ Summable(h, D)
  BY <1>1, TotalInt, Zenon
<1>3. Total(f) = f[w] + r
  BY <1>2, SumsAny
<1>4. Total(h) = v + Sums(h, D)[D \ {w}]
  BY <1>1, <1>2, SumsAny
<1>5. Sums(h, D)[D \ {w}] = r
  BY <1>1, <1>2, SumsAgree
<1>6. r \in Int
  BY <1>2, SumsInt, Zenon
<1> HIDE DEF r
<1>7. f[w] \in Int
  BY Zenon
<1> QED BY <1>3, <1>4, <1>5, <1>6, <1>7 DEF h

\* A sequence of integers is a function to the integers.
LEMMA SeqIsFunction == ASSUME NEW s \in Seq(Int) PROVE s \in [1 .. Len(s) -> Int]
OBVIOUS

\* A bundle joins the queue.
LEMMA TotalAppend ==
  ASSUME NEW s \in Seq(Int), NEW v \in Int
  PROVE  Total(Append(s, v)) = Total(s) + v
<1> DEFINE n == Len(s)
           h == Append(s, v)
           D == 1 .. n
           E == 1 .. n + 1
<1>1. n \in Nat /\ s \in [D -> Int]
  OBVIOUS
<1>2. h \in Seq(Int) /\ Len(h) = n + 1 /\ h[n + 1] = v /\ \A i \in D : s[i] = h[i]
  OBVIOUS
<1>3. h \in [E -> Int]
  <2> HIDE DEF h
  <2> QED BY <1>2, SeqIsFunction, Zenon
<1>4. IsFiniteSet(D) /\ IsFiniteSet(E)
  BY <1>1, FS_Interval
<1>5. D = E \ {n + 1} /\ D \in SUBSET E /\ n + 1 \in E
  BY <1>1
<1> HIDE DEF D, E, h, n
<1>6. /\ Total(s) = Sums(s, D)[D] /\ Summable(s, D) /\ Total(s) \in Int
      /\ Total(h) = Sums(h, E)[E] /\ Summable(h, E)
  BY <1>1, <1>3, <1>4, TotalInt, Zenon
<1>7. Total(h) = v + Sums(h, E)[D]
  <2>1. \A x \in E : Sums(h, E)[E] = h[x] + Sums(h, E)[E \ {x}]
    BY <1>6, SumsAny
  <2>2. Sums(h, E)[E] = h[n + 1] + Sums(h, E)[E \ {n + 1}]
    BY <1>5, <2>1, Zenon
  <2> QED BY <1>2, <1>5, <1>6, <2>2, Zenon
<1>8. Sums(s, D)[D] = Sums(h, E)[D]
  BY <1>2, <1>5, <1>6, SumsAgree
<1> QED BY <1>6, <1>7, <1>8 DEF h

\* A worker takes the first bundle of the queue.
LEMMA TotalTail ==
  ASSUME NEW s \in Seq(Int), s # <<>>
  PROVE  Total(Tail(s)) = Total(s) - Head(s)
<1> DEFINE n == Len(s)
           t == Tail(s)
           D == 1 .. n - 1
           E == 1 .. n
           to == [i \in D |-> i + 1]
<1>1. n \in Nat \ {0} /\ s \in [E -> Int] /\ Head(s) = s[1] /\ s[1] \in Int
  OBVIOUS
<1>2. t \in Seq(Int) /\ Len(t) = n - 1
  BY <1>1
<1>3. t \in [D -> Int] /\ \A i \in D : t[i] = s[i + 1]
  <2>1. \A i \in D : t[i] = s[i + 1]
    BY <1>1
  <2> HIDE DEF t
  <2> QED BY <1>2, <2>1, SeqIsFunction, Zenon
<1>4. IsFiniteSet(D) /\ IsFiniteSet(E)
  BY <1>1, FS_Interval
<1>5. 1 \in E /\ \A i \in D : i \in Int /\ i + 1 \in E \ {1}
  BY <1>1
<1>6. \A j \in E \ {1} : j - 1 \in D /\ (j - 1) + 1 = j
  BY <1>1
<1> HIDE DEF n, t, D, E
<1>7. /\ to \in [D -> E]
      /\ \A i \in D : to[i] = i + 1
  BY <1>5, Zenon
<1> HIDE DEF to
<1>8. Matches(t, D, s, to)
  BY <1>3, <1>5, <1>7 DEF Matches
<1>9. {to[i] : i \in D} = E \ {1}
  BY <1>5, <1>6, <1>7
<1>10. /\ Total(s) = Sums(s, E)[E] /\ Summable(s, E) /\ Total(s) \in Int
       /\ Total(t) = Sums(t, D)[D] /\ Summable(t, D) /\ Total(t) \in Int
  BY <1>1, <1>3, <1>4, TotalInt, Zenon
<1>11. Sums(t, D)[D] = Sums(s, E)[{to[i] : i \in D}]
  <2>1. D \in SUBSET D
    BY Zenon
  <2> QED BY <2>1, <1>7, <1>8, <1>10, SumsMatch
<1>12. Total(s) = s[1] + Sums(s, E)[E \ {1}]
  BY <1>5, <1>10, SumsAny
<1>13. Total(s) = s[1] + Total(t)
  BY <1>9, <1>10, <1>11, <1>12, Zenon
<1> QED BY <1>1, <1>10, <1>13 DEF t
-------------------------------------------------------------------------------
\* What each worker still has in the tally.
Held == [w \in Worker |-> IF released[w] THEN 0 ELSE busy[w]]

\* Run returns to its select only under the ceiling, and adds at most one message
\* to what is there before it looks again.
Checked ==
  ~ctxDone =>
    /\ buffer + inflight < MaxBufferedBytes + Largest
    /\ (run = "select" \/ (run = "tally" /\ then = "select"))
         => buffer + inflight < MaxBufferedBytes

\* The inductive invariant of the accounting.
MemInv ==
  /\ TypeOK
  /\ TallyExact
  /\ \A w \in Worker : released[w] => busy[w] > 0
  /\ Checked

\* applyDefaults leaves a positive ceiling, and some message is the largest.
LEMMA Limits ==
  /\ MaxBufferedBytes \in Nat \ {0} /\ TokenCap \in Nat
  /\ Largest \in Nat \ {0} /\ \A size \in Footprint : size \in Nat \ {0} /\ size <= Largest
<1>1. Largest \in Footprint /\ \A size \in Footprint : size <= Largest
  BY MemoryAssumption, Zenon DEF Largest
<1>2. TokenCap \in Nat
  BY MemoryAssumption, FS_CardinalityType, Zenon DEF TokenCap
<1>3. MaxBufferedBytes \in Nat \ {0}
  <2>1. ASSUME NEW share \in Int
        PROVE  (IF share < 3 * MaxBytesPerFlush THEN 3 * MaxBytesPerFlush ELSE share) \in Nat \ {0}
    BY MemoryAssumption
  <2>2. (IF PodSinks > 1 THEN (4 * MaxBytesPerFlush) \div PodSinks
           ELSE 4 * MaxBytesPerFlush) \in Int
    BY MemoryAssumption
  <2> QED BY <2>1, <2>2, Zenon DEF MaxBufferedBytes
<1> QED BY <1>1, <1>2, <1>3, MemoryAssumption, Zenon

\* The footprints in the queue and with the workers are numbers.
LEMMA QueuedTotals ==
  ASSUME TypeOK
  PROVE  /\ jobs \in Seq(Int) /\ Total(jobs) \in Int
         /\ Held \in [Worker -> Int] /\ Total(Held) \in Int
         /\ Queued = Total(jobs) + Total(Held)
<1>1. jobs \in Seq(Int) /\ Held \in [Worker -> Int]
  BY DEF TypeOK, Held
<1>2. IsFiniteSet(1 .. Len(jobs)) /\ jobs \in [1 .. Len(jobs) -> Int]
  BY <1>1, FS_Interval, SeqIsFunction
<1> QED BY <1>1, <1>2, TotalInt, MemoryAssumption, Zenon DEF Queued, Held

\* It holds of an empty sink.
LEMMA MemInit == Init => MemInv
<1> SUFFICES ASSUME Init PROVE MemInv
  BY Zenon
<1>1. TypeOK
  <2>1. jobs \in Seq(Nat \ {0})
    BY DEF Init
  <2>2. 0 \in 0 .. TokenCap /\ 0 \in 0 .. MaxMessages
    BY Limits, MemoryAssumption
  <2>3. busy \in [Worker -> Nat] /\ released \in [Worker -> BOOLEAN]
    BY Zenon DEF Init
  <2>4. buffer \in Nat /\ inflight \in Int /\ flushed \in 0 .. TokenCap
        /\ received \in 0 .. MaxMessages
    BY <2>2 DEF Init
  <2>5. /\ run \in {"select", "ready", "tally", "pressure", "wait"}
        /\ then \in {"select", "pressure", "wait"} /\ ctxDone \in BOOLEAN
    BY Zenon DEF Init
  <2> QED BY <2>1, <2>3, <2>4, <2>5, Zenon DEF TypeOK
<1>2. Total(jobs) = 0
  <2>1. DOMAIN jobs = {} /\ IsFiniteSet({}) /\ Summable(jobs, {})
    BY FS_EmptySet DEF Init, Summable
  <2> QED BY <2>1, SumsAny, TotalIsSums, Zenon
<1>3. Total(Held) = 0
  <2>1. \A w \in Worker : Held[w] = 0
    BY Zenon DEF Init, Held
  <2>2. Held \in [Worker -> Int]
    BY <1>1, QueuedTotals, Zenon
  <2> QED BY <2>1, <2>2, MemoryAssumption, TotalZero, Zenon
<1>4. Queued = 0
  BY <1>1, <1>2, <1>3, QueuedTotals
<1>5. TallyExact /\ Checked
  BY <1>4, Limits DEF Init, TallyExact, Checked
<1> QED BY <1>1, <1>5, Zenon DEF MemInv, Init

\* A step of Run that leaves the queue and the workers alone.
LEMMA QueuedSame ==
  ASSUME UNCHANGED <<jobs, busy, released>> PROVE Queued' = Queued
BY Zenon DEF Queued

\* enqueue sends the buffer: it is in the queue and not yet in the tally.
LEMMA SendKeeps ==
  ASSUME MemInv, run # "tally", NEW label \in {"select", "pressure", "wait"}, Send(label),
         label = "select" => run = "select"
  PROVE  MemInv'
<1>1. /\ buffer > 0 /\ jobs' = Append(jobs, buffer) /\ run' = "tally" /\ then' = label
      /\ UNCHANGED <<ctxDone, buffer, busy, released, inflight, flushed, received>>
  BY Zenon DEF Send
<1>2. TypeOK /\ buffer \in Nat \ {0} /\ inflight \in Int
  BY <1>1 DEF MemInv, TypeOK
<1>3. jobs' \in Seq(Nat \ {0})
  BY <1>1, <1>2 DEF TypeOK
<1>4. TypeOK'
  BY <1>1, <1>2, <1>3, Zenon DEF TypeOK
<1>5. Held' = Held
  BY <1>1, Zenon DEF Held
<1>6. Total(jobs') = Total(jobs) + buffer
  BY <1>1, <1>2, QueuedTotals, TotalAppend
<1>7. Queued' = Total(jobs') + Total(Held')
  BY <1>5, <1>1, Zenon DEF Queued, Held
<1>8. Queued = Total(jobs) + Total(Held) /\ Total(jobs) \in Int /\ Total(Held) \in Int
  BY <1>2, QueuedTotals, Zenon
<1>9. inflight = Queued
  BY <1>8 DEF MemInv, TallyExact
<1>10. TallyExact'
  BY <1>1, <1>2, <1>5, <1>6, <1>7, <1>8, <1>9 DEF TallyExact
<1>11. Checked'
  BY <1>1, Zenon DEF MemInv, Checked
<1> QED BY <1>1, <1>4, <1>10, <1>11, Zenon DEF MemInv

\* The other steps of Run.
LEMMA RunKeeps ==
  ASSUME MemInv, RunStep \/ Cancel
  PROVE  MemInv'
<1>1. /\ buffer \in Nat /\ inflight \in Int /\ MaxBufferedBytes \in Nat /\ Largest \in Nat
      /\ received \in 0 .. MaxMessages /\ MaxMessages \in Nat
      /\ Queued \in Int /\ flushed \in 0 .. TokenCap /\ TokenCap \in Nat
  BY Limits, QueuedTotals, MemoryAssumption DEF MemInv, TypeOK
<1>2. ASSUME NEW size \in Footprint, Receive(size) PROVE MemInv'
  <2>1. /\ run = "select" /\ run' = "ready" /\ buffer' = buffer + size
        /\ received' = received + 1 /\ received < MaxMessages
        /\ UNCHANGED <<then, ctxDone, jobs, busy, released, inflight, flushed>>
    BY <1>2, Zenon DEF Receive
  <2>2. size \in Nat /\ size <= Largest
    BY Limits, Zenon
  <2>3. TypeOK'
    BY <1>1, <2>1, <2>2 DEF MemInv, TypeOK
  <2>4. TallyExact'
    BY <2>1, QueuedSame, Zenon DEF MemInv, TallyExact
  <2>5. Checked'
    BY <1>1, <2>1, <2>2 DEF MemInv, Checked
  <2> QED BY <2>1, <2>3, <2>4, <2>5, Zenon DEF MemInv
<1>3. CASE Tally
  <2>1. /\ run = "tally" /\ run' = then /\ inflight' = inflight + buffer /\ buffer' = 0
        /\ then \in {"select", "pressure", "wait"}
        /\ UNCHANGED <<then, ctxDone, jobs, busy, released, flushed, received>>
    BY <1>3, Zenon DEF Tally, MemInv, TypeOK
  <2>2. TypeOK'
    BY <1>1, <2>1 DEF MemInv, TypeOK
  <2>3. TallyExact'
    BY <1>1, <2>1, QueuedSame DEF MemInv, TallyExact
  <2>4. Checked'
    BY <1>1, <2>1 DEF MemInv, Checked
  <2> QED BY <2>1, <2>2, <2>3, <2>4, Zenon DEF MemInv
<1>4. CASE FlushReady
  <2>1. CASE Send("pressure")
    BY <1>4, <2>1, SendKeeps, Zenon DEF FlushReady
  <2>2. CASE ~Send("pressure")
    <3>1. /\ run = "ready" /\ run' = "pressure"
          /\ UNCHANGED <<then, ctxDone, buffer, jobs, busy, released, inflight, flushed, received>>
      BY <1>4, <2>2, Zenon DEF FlushReady
    <3>2. TallyExact'
      BY <3>1, QueuedSame, Zenon DEF MemInv, TallyExact
    <3> QED BY <3>1, <3>2, Zenon DEF MemInv, TypeOK, Checked
  <2> QED BY <2>1, <2>2, Zenon
<1>5. CASE RunTick
  BY <1>5, SendKeeps, Zenon DEF RunTick
<1>6. CASE Pressure
  <2>1. CASE Send("wait")
    BY <1>6, <2>1, SendKeeps, Zenon DEF Pressure
  <2>2. CASE ~Send("wait")
    <3>1. /\ run = "pressure" /\ run' \in {"select", "wait"} /\ (run' = "select" => UnderCeiling)
          /\ UNCHANGED <<then, ctxDone, buffer, jobs, busy, released, inflight, flushed, received>>
      BY <1>6, <2>2, Zenon DEF Pressure
    <3>2. TallyExact'
      BY <3>1, QueuedSame, Zenon DEF MemInv, TallyExact
    <3>3. Checked'
      BY <3>1, Zenon DEF MemInv, Checked, UnderCeiling
    <3>4. TypeOK'
      BY <3>1, Zenon DEF MemInv, TypeOK
    <3> QED BY <3>1, <3>2, <3>3, <3>4, Zenon DEF MemInv
  <2> QED BY <2>1, <2>2, Zenon
<1>7. CASE Wait
  <2>1. /\ run = "wait" /\ run' \in {"pressure", "select"} /\ (run' = "select" => ctxDone)
        /\ flushed' \in 0 .. TokenCap
        /\ UNCHANGED <<then, ctxDone, buffer, jobs, busy, released, inflight, received>>
    BY <1>1, <1>7 DEF Wait
  <2>2. TallyExact'
    BY <2>1, QueuedSame, Zenon DEF MemInv, TallyExact
  <2>3. TypeOK' /\ Checked'
    BY <2>1, Zenon DEF MemInv, TypeOK, Checked
  <2> QED BY <2>1, <2>2, <2>3, Zenon DEF MemInv
<1>8. CASE Cancel
  <2>1. TallyExact'
    BY <1>8, QueuedSame, Zenon DEF Cancel, MemInv, TallyExact
  <2> QED BY <1>8, <2>1, Zenon DEF Cancel, MemInv, TypeOK, Checked
<1> QED BY <1>2, <1>3, <1>4, <1>5, <1>6, <1>7, <1>8, Zenon DEF RunStep

\* A worker takes a bundle: it moves from the queue to the worker.
LEMMA TakeKeeps ==
  ASSUME MemInv, NEW w \in Worker, TakeJob(w)
  PROVE  MemInv'
<1>1. /\ busy[w] = 0 /\ jobs # <<>> /\ jobs' = Tail(jobs)
      /\ busy' = [busy EXCEPT ![w] = Head(jobs)]
      /\ UNCHANGED <<run, then, ctxDone, buffer, released, inflight, flushed, received>>
  BY Zenon DEF TakeJob
<1>2. TypeOK /\ Head(jobs) \in Nat \ {0} /\ Tail(jobs) \in Seq(Nat \ {0}) /\ buffer \in Nat
  BY <1>1 DEF MemInv, TypeOK
<1>3. ~released[w]
  BY <1>1 DEF MemInv
<1>4. TypeOK'
  BY <1>1, <1>2, Zenon DEF TypeOK
<1>5. Held' = [Held EXCEPT ![w] = Head(jobs)] /\ Held[w] = 0
  BY <1>1, <1>2, <1>3, Zenon DEF Held, TypeOK
<1>6. /\ Queued = Total(jobs) + Total(Held) /\ Total(jobs) \in Int /\ Total(Held) \in Int
      /\ jobs \in Seq(Int) /\ Held \in [Worker -> Int]
  BY <1>2, QueuedTotals, Zenon
<1>7. Queued' = Total(jobs') + Total(Held')
  BY Zenon DEF Queued, Held
<1>8. Total(jobs') = Total(jobs) - Head(jobs)
  BY <1>1, <1>6, TotalTail, Zenon
<1>9. Total(Held') = Total(Held) - 0 + Head(jobs)
  <2>1. IsFiniteSet(Worker) /\ Head(jobs) \in Int
    BY <1>2, MemoryAssumption
  <2>2. Total([Held EXCEPT ![w] = Head(jobs)]) = Total(Held) - Held[w] + Head(jobs)
    BY <1>6, <2>1, TotalUpdate, Zenon
  <2> QED BY <1>5, <2>2, Zenon
<1>10. Queued' = Queued
  BY <1>2, <1>6, <1>7, <1>8, <1>9
<1>11. TallyExact'
  BY <1>1, <1>10, Zenon DEF MemInv, TallyExact
<1>12. Checked' /\ \A v \in Worker : released'[v] => busy'[v] > 0
  BY <1>1, <1>2, <1>3, Zenon DEF MemInv, Checked, TypeOK
<1> QED BY <1>4, <1>11, <1>12, Zenon DEF MemInv

\* A bundle is done with: it leaves the tally, and then the worker is free.
LEMMA DoneKeeps ==
  ASSUME MemInv, NEW w \in Worker, FlushDone(w)
  PROVE  MemInv'
<1>1. /\ TypeOK /\ buffer \in Nat /\ inflight \in Int /\ busy[w] \in Nat
      /\ TokenCap \in Nat /\ flushed \in 0 .. TokenCap /\ released[w] \in BOOLEAN
  BY Limits, Zenon DEF MemInv, TypeOK
<1>2. /\ Queued = Total(jobs) + Total(Held) /\ Total(jobs) \in Int /\ Total(Held) \in Int
      /\ Held \in [Worker -> Int]
  BY <1>1, QueuedTotals, Zenon
<1>3. Queued' = Total(jobs') + Total(Held')
  BY Zenon DEF Queued, Held
<1>4. CASE /\ busy[w] > 0 /\ ~released[w] /\ inflight' = inflight - busy[w]
           /\ released' = [released EXCEPT ![w] = TRUE]
           /\ UNCHANGED <<run, then, ctxDone, buffer, jobs, busy, flushed, received>>
  <2>1. TypeOK'
    BY <1>1, <1>4 DEF TypeOK
  <2>2. Held' = [Held EXCEPT ![w] = 0] /\ Held[w] = busy[w]
    BY <1>1, <1>4, Zenon DEF Held, TypeOK
  <2>3. Total(Held') = Total(Held) - busy[w] + 0
    <3>1. IsFiniteSet(Worker) /\ 0 \in Int
      BY MemoryAssumption
    <3>2. Total([Held EXCEPT ![w] = 0]) = Total(Held) - Held[w] + 0
      BY <1>2, <3>1, TotalUpdate, Zenon
    <3> QED BY <2>2, <3>2, Zenon
  <2>4. Queued' = Queued - busy[w]
    BY <1>1, <1>2, <1>3, <1>4, <2>3
  <2>5. Queued \in Int
    BY <1>2
  <2>6. TallyExact'
    BY <1>1, <1>4, <2>4, <2>5 DEF MemInv, TallyExact
  <2>7. Checked'
    BY <1>1, <1>4, Limits DEF MemInv, Checked
  <2>8. \A v \in Worker : released'[v] => busy'[v] > 0
    BY <1>1, <1>4, Zenon DEF MemInv, TypeOK
  <2> QED BY <2>1, <2>6, <2>7, <2>8, Zenon DEF MemInv
<1>5. CASE /\ released[w]
           /\ flushed' = IF flushed < TokenCap THEN flushed + 1 ELSE flushed
           /\ busy' = [busy EXCEPT ![w] = 0]
           /\ released' = [released EXCEPT ![w] = FALSE]
           /\ UNCHANGED <<run, then, ctxDone, buffer, jobs, inflight, received>>
  <2>1. flushed' \in 0 .. TokenCap
    BY <1>1, <1>5
  <2>2. TypeOK'
    BY <1>1, <1>5, <2>1, Zenon DEF TypeOK
  <2>3. Held' = Held
    BY <1>1, <1>5, Zenon DEF Held, TypeOK
  <2>4. Queued' = Queued
    BY <1>2, <1>3, <1>5, <2>3, Zenon
  <2>5. TallyExact' /\ Checked'
    BY <1>5, <2>4, Zenon DEF MemInv, TallyExact, Checked
  <2>6. \A v \in Worker : released'[v] => busy'[v] > 0
    BY <1>1, <1>5, Zenon DEF MemInv, TypeOK
  <2> QED BY <2>2, <2>5, <2>6, Zenon DEF MemInv
<1> QED BY <1>4, <1>5, Zenon DEF FlushDone

\* Every step keeps it.
LEMMA MemNext == MemInv /\ [Next]_vars => MemInv'
<1>1. ASSUME MemInv, UNCHANGED vars PROVE MemInv'
  <2>1. TallyExact'
    BY <1>1, QueuedSame, Zenon DEF vars, MemInv, TallyExact
  <2> QED BY <1>1, <2>1, Zenon DEF vars, MemInv, TypeOK, Checked
<1> QED BY <1>1, RunKeeps, TakeKeeps, DoneKeeps, Zenon DEF Next, Work

\* The variables of the sink's memory keep their types: the flushed channel in
\* particular never holds more tokens than it has room for.
THEOREM TypeCorrect == Spec => []TypeOK
<1>1. MemInv => TypeOK
  BY Zenon DEF MemInv
<1> QED BY <1>1, MemInit, MemNext, PTL DEF Spec

\* inflight is what the queue and the workers hold, up to the bundle enqueue has
\* just sent, for any number of workers, any queue and any footprints.
THEOREM TallyIsExact == Spec => []TallyExact
<1>1. MemInv => TallyExact
  BY Zenon DEF MemInv
<1> QED BY <1>1, MemInit, MemNext, PTL DEF Spec

\* applyBackpressure bounds what the sink holds by the ceiling and one message.
THEOREM BackpressureHolds == Spec => []CeilingHolds
<1>1. MemInv => CeilingHolds
  <2> SUFFICES ASSUME MemInv PROVE CeilingHolds
    BY Zenon
  <2>1. Queued \in Int /\ buffer \in Nat /\ inflight \in Int
    BY QueuedTotals DEF MemInv, TypeOK
  <2>2. Resident = buffer + inflight
    BY <2>1 DEF MemInv, TallyExact, Resident
  <2> QED BY <2>2, Zenon DEF MemInv, Checked, CeilingHolds
<1> QED BY <1>1, MemInit, MemNext, PTL DEF Spec
-------------------------------------------------------------------------------
(***************************************************************************)
(* The watchdog's promise for any number of workers, any window and any     *)
(* scheduling delay.  The inductive invariant adds to StreakIsRecent what   *)
(* each worker's private copies may still be worth: a commit that has yet   *)
(* to clear the streak is recent, and a loaded streak is as good as the     *)
(* shared one unless something was committed since.                         *)
(***************************************************************************)

\* A worker about to clear the streak committed at most now[w] ago.
CommitIsFresh(w) == Clearing(w) => sinceCommit <= now[w]

\* The streak a worker compares is no older than the last commit, up to MaxLag,
\* unless that commit is as young as the comparison.
LoadIsGood(w) ==
  pc[w] = "compare" =>
    first[w] <= sinceCommit + MaxLag \/ sinceCommit <= MaxLag + now[w]

\* The inductive invariant of the watchdog.
WatchdogInv ==
  /\ WatchdogTypeOK
  /\ StreakIsRecent
  /\ \A w \in Flusher : CommitIsFresh(w) /\ LoadIsGood(w)

\* A saturating age stays an age, and moves with the clock.
LEMMA OlderAge ==
  ASSUME NEW a \in Ages
  PROVE  /\ Older(a) \in Ages
         /\ Older(a) # None
         /\ a <= Older(a) /\ Older(a) <= a + 1
         /\ Older(a) = a + 1 \/ Older(a) = Horizon
BY WatchdogAssumption DEF Ages, Older, None, Horizon

\* The age of nothing does not move.
LEMMA OlderNone == Older(None) = None
BY DEF Older

\* The initial state, with nothing failing, satisfies the invariant.
LEMMA WatchdogStarts == WatchdogInit => WatchdogInv
<1> SUFFICES ASSUME WatchdogInit PROVE WatchdogInv
  OBVIOUS
<1> USE WatchdogAssumption DEF WatchdogInit
<1>1. 0 \in Ages /\ 0 \in 0 .. MaxLag
  BY DEF Ages, Horizon
<1>2. WatchdogTypeOK
  BY <1>1, Zenon DEF WatchdogTypeOK
<1>3. StreakIsRecent
  BY DEF StreakIsRecent
<1>4. \A w \in Flusher : CommitIsFresh(w) /\ LoadIsGood(w)
  BY Zenon DEF CommitIsFresh, LoadIsGood, Clearing
<1> QED BY <1>2, <1>3, <1>4 DEF WatchdogInv

\* A step of one worker's flush preserves the invariant.
LEMMA FlushKeeps ==
  ASSUME WatchdogInv, NEW w \in Flusher, Flush(w)
  PROVE  WatchdogInv'
<1> USE WatchdogAssumption DEF WatchdogInv, WatchdogTypeOK, StreakIsRecent, CommitIsFresh, LoadIsGood,
          Clearing, Ages, Horizon, None, Goto
<1>1. CASE FlushCommits(w)
  BY <1>1 DEF FlushCommits
<1>2. CASE FlushFails(w)
  BY <1>2 DEF FlushFails
<1>3. CASE LoadFirst(w)
  <2>1. WatchdogTypeOK'
    BY <1>3 DEF LoadFirst
  <2>2. StreakIsRecent' /\ \A v \in Flusher : CommitIsFresh(v)'
    BY <1>3 DEF LoadFirst
  <2>3. ASSUME NEW v \in Flusher PROVE LoadIsGood(v)'
    <3>1. CASE v # w
      BY <3>1, <1>3 DEF LoadFirst
    <3>2. CASE v = w /\ \E u \in Flusher : Clearing(u)
      BY <3>2, <1>3 DEF LoadFirst
    <3>3. CASE v = w /\ \A u \in Flusher : ~Clearing(u)
      BY <3>3, <1>3 DEF LoadFirst
    <3> QED BY <3>1, <3>2, <3>3
  <2> QED BY <2>1, <2>2, <2>3, Zenon
<1>4. CASE SwapFirst(w)
  BY <1>4 DEF SwapFirst
<1>5. CASE CompareFirst(w)
  <2>1. fatal' \in BOOLEAN
    BY ONLY WatchdogTypeOK, <1>5, Zenon DEF CompareFirst, WatchdogTypeOK
  <2> QED BY <1>5, <2>1 DEF CompareFirst
<1>6. CASE IsolateCommits(w)
  BY <1>6 DEF IsolateCommits
<1>7. CASE IsolateEnds(w)
  BY <1>7 DEF IsolateEnds
<1>8. CASE ClearStreak(w)
  BY <1>8 DEF ClearStreak
<1> QED BY <1>1, <1>2, <1>3, <1>4, <1>5, <1>6, <1>7, <1>8 DEF Flush, Record

\* So does the passing of time.
LEMMA TickKeeps ==
  ASSUME WatchdogInv, Tick
  PROVE  WatchdogInv'
<1> USE WatchdogAssumption DEF WatchdogInv, WatchdogTypeOK
<1>1. WatchdogTypeOK'
  BY OlderAge, OlderNone DEF Tick, Urgent, Recording, Clearing
<1>2. sinceCommit <= Horizon /\ sinceCommit \in Nat /\ Horizon \in Nat
  BY DEF Ages, Horizon
<1>3. StreakIsRecent'
  BY <1>2, OlderAge, OlderNone DEF Tick, StreakIsRecent, Clearing, Ages, Horizon, None
<1>4. ASSUME NEW w \in Flusher PROVE CommitIsFresh(w)'
  BY <1>2, OlderAge DEF Tick, CommitIsFresh, Clearing, Urgent, Ages, Horizon
<1>5. ASSUME NEW w \in Flusher PROVE LoadIsGood(w)'
  <2> SUFFICES ASSUME pc[w] = "compare"
               PROVE  LoadIsGood(w)'
    BY DEF Tick, LoadIsGood
  <2>1. first[w] \in Ages /\ first'[w] = Older(first[w]) /\ now'[w] = now[w] + 1
    BY DEF Tick, Urgent, Recording
  <2> QED
    BY <1>2, <2>1, OlderAge DEF Tick, LoadIsGood, Ages, Horizon
<1> QED BY <1>1, <1>3, <1>4, <1>5

\* Every step preserves the invariant.
LEMMA WatchdogKeeps == WatchdogInv /\ [WatchdogNext]_watchdogVars => WatchdogInv'
<1> SUFFICES ASSUME WatchdogInv, [WatchdogNext]_watchdogVars PROVE WatchdogInv'
  OBVIOUS
<1>1. CASE \E w \in Flusher : Flush(w)
  BY <1>1, FlushKeeps
<1>2. CASE Tick
  BY <1>2, TickKeeps
<1>3. CASE Break
  BY <1>3 DEF Break, WatchdogInv, WatchdogTypeOK, StreakIsRecent, CommitIsFresh, LoadIsGood, Clearing
<1>4. CASE RunFatal
  BY <1>4, Zenon DEF RunFatal, WatchdogInv, WatchdogTypeOK, StreakIsRecent, CommitIsFresh, LoadIsGood, Clearing
<1>5. CASE Restart
  <2>0. 0 \in 0 .. MaxLag
    BY WatchdogAssumption
  <2>1. WatchdogTypeOK'
    BY <2>0, <1>5, Zenon DEF Restart, WatchdogInv, WatchdogTypeOK
  <2>2. StreakIsRecent' /\ \A w \in Flusher : CommitIsFresh(w)' /\ LoadIsGood(w)'
    BY <1>5 DEF Restart, StreakIsRecent, CommitIsFresh, LoadIsGood, Clearing
  <2> QED BY <2>1, <2>2 DEF WatchdogInv
<1>6. CASE UNCHANGED watchdogVars
  BY <1>6 DEF watchdogVars, WatchdogInv, WatchdogTypeOK, StreakIsRecent, CommitIsFresh, LoadIsGood, Clearing
<1> QED BY <1>1, <1>2, <1>3, <1>4, <1>5, <1>6 DEF WatchdogNext

\* The type invariant of the watchdog, recordCommitFailure's clock copies included.
THEOREM WatchdogTypeCorrect == WatchdogSpec => []WatchdogTypeOK
BY WatchdogStarts, WatchdogKeeps, PTL DEF WatchdogSpec, WatchdogInv

\* The streak is as recent as the last commit, for any number of workers racing
\* through recordCommitFailure and commitFailFirst.Store(0).
THEOREM StreakRecent == WatchdogSpec => []StreakIsRecent
BY WatchdogStarts, WatchdogKeeps, PTL DEF WatchdogSpec, WatchdogInv

\* Only a comparison in recordCommitFailure posts, and it posts only when the
\* streak it loaded spans the window.
LEMMA PostStep ==
  ASSUME WatchdogInv, [WatchdogNext]_watchdogVars, fatal', ~fatal
  PROVE  sinceCommit >= Window - MaxLag \/ sinceCommit <= 2 * MaxLag
<1>1. PICK w \in Flusher : CompareFirst(w) /\ Spans(w)
  BY Zenon DEF WatchdogNext, Flush, Record, FlushCommits, FlushFails, LoadFirst, SwapFirst,
         CompareFirst, IsolateCommits, IsolateEnds, ClearStreak, Break, RunFatal,
         Restart, Tick, watchdogVars
<1>2. now[w] \in 0 .. MaxLag /\ first[w] \in Ages /\ sinceCommit \in Nat
  BY <1>1, WatchdogAssumption DEF WatchdogInv, WatchdogTypeOK, CompareFirst, Ages, Horizon
<1>3. first[w] <= sinceCommit + MaxLag \/ sinceCommit <= MaxLag + now[w]
  BY <1>1 DEF WatchdogInv, LoadIsGood, CompareFirst
<1> QED BY <1>1, <1>2, <1>3, WatchdogAssumption DEF Spans, Ages, Horizon

\* A fatal post is justified: nothing was committed for the window, up to the
\* delay between two statements.
THEOREM PostsAreJustified == WatchdogSpec => FatalMeansStarved
<1>1. WatchdogSpec => []WatchdogInv
  BY WatchdogStarts, WatchdogKeeps, PTL DEF WatchdogSpec
<1>2. WatchdogInv /\ [WatchdogNext]_watchdogVars =>
        [fatal' /\ ~fatal =>
           sinceCommit >= Window - MaxLag \/ sinceCommit <= 2 * MaxLag]_watchdogVars
  BY PostStep
<1> QED BY <1>1, <1>2, PTL DEF WatchdogSpec, FatalMeansStarved
===============================================================================
