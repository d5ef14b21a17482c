-------------------------- MODULE TokenLedgerLemmas -------------------------
(***************************************************************************)
(* What a transfer does to balances and what crediting and debiting do to  *)
(* their sum, for every set of holders; and that the sums the models       *)
(* compute over finite sets are sums.                                      *)
(***************************************************************************)
EXTENDS TokenLedger, Functions, FiniteSetTheorems, TLAPS

-----------------------------------------------------------------------------
(* Sums *)

\* A part of a sum is at most the total, and two parts together are too.
LEMMA PartsWithinTotal ==
    ASSUME NEW D, NEW f \in [D -> Nat], NEW total \in Nat, SumsTo(f, total)
    PROVE /\ \A x \in D : f[x] <= total
          /\ \A x, y \in D : x # y => f[x] + f[y] <= total
<1>. PICK g \in [SUBSET D -> Nat] :
        /\ g[{}] = 0
        /\ g[D] = total
        /\ \A T \in SUBSET D : \A x \in D \ T : g[T \cup {x}] = g[T] + f[x]
  BY DOMAIN f = D DEF SumsTo
<1>1. ASSUME NEW x \in D PROVE g[D] = g[D \ {x}] + f[x] /\ g[D \ {x}] \in Nat
  <2>1. D \ {x} \in SUBSET D /\ x \in D \ (D \ {x}) /\ (D \ {x}) \cup {x} = D
    OBVIOUS
  <2>. QED  BY <2>1
<1>2. ASSUME NEW x \in D, NEW y \in D, x # y
      PROVE g[D \ {x}] = g[(D \ {x}) \ {y}] + f[y] /\ g[(D \ {x}) \ {y}] \in Nat
  <2>. DEFINE T == (D \ {x}) \ {y}
  <2>1. T \in SUBSET D /\ y \in D \ T /\ T \cup {y} = D \ {x}
    BY <1>2
  <2>. HIDE DEF T
  <2>2. g[T \cup {y}] = g[T] + f[y] /\ g[T] \in Nat
    BY <2>1
  <2>. QED  BY <2>1, <2>2 DEF T
<1>3. ASSUME NEW x \in D PROVE f[x] <= total
  <2>1. total = g[D \ {x}] + f[x] /\ g[D \ {x}] \in Nat
    BY <1>1
  <2>. QED  BY <2>1
<1>4. ASSUME NEW x \in D, NEW y \in D, x # y PROVE f[x] + f[y] <= total
  <2>1. total = g[D \ {x}] + f[x]
    BY <1>1
  <2>2. g[D \ {x}] = g[(D \ {x}) \ {y}] + f[y] /\ g[(D \ {x}) \ {y}] \in Nat
    BY <1>2, <1>4
  <2>. QED  BY <2>1, <2>2
<1>. QED  BY <1>3, <1>4

\* Nothing adds up to nothing.
LEMMA SumOfNothing == ASSUME NEW D PROVE SumsTo([x \in D |-> 0], 0)
<1>. DEFINE f == [x \in D |-> 0]
            g == [T \in SUBSET D |-> 0]
<1>1. DOMAIN f = D
  OBVIOUS
<1>2. g \in [SUBSET D -> Nat]
  OBVIOUS
<1>3. g[{}] = 0 /\ g[D] = 0
  BY {} \in SUBSET D, D \in SUBSET D
<1>4. ASSUME NEW T \in SUBSET D, NEW y \in D \ T PROVE g[T \cup {y}] = g[T] + f[y]
  BY T \cup {y} \in SUBSET D
<1>. HIDE DEF f, g
<1>5. SumsTo(f, 0)
  BY <1>1, <1>2, <1>3, <1>4 DEF SumsTo
<1>. QED  BY <1>5 DEF f

\* Crediting one part raises the total by as much.
LEMMA SumCredited ==
    ASSUME NEW D, NEW f \in [D -> Nat], NEW total \in Nat, SumsTo(f, total),
           NEW x \in D, NEW n \in Nat
    PROVE SumsTo([f EXCEPT ![x] = f[x] + n], total + n)
<1>. PICK g \in [SUBSET D -> Nat] :
        /\ g[{}] = 0
        /\ g[D] = total
        /\ \A T \in SUBSET D : \A y \in D \ T : g[T \cup {y}] = g[T] + f[y]
  BY DOMAIN f = D DEF SumsTo
<1>. DEFINE h == [f EXCEPT ![x] = f[x] + n]
            k == [T \in SUBSET D |-> IF x \in T THEN g[T] + n ELSE g[T]]
<1>1. DOMAIN h = D
  OBVIOUS
<1>2. k \in [SUBSET D -> Nat]
  OBVIOUS
<1>3. k[{}] = 0 /\ k[D] = total + n
  BY {} \in SUBSET D, D \in SUBSET D
<1>4. ASSUME NEW T \in SUBSET D, NEW y \in D \ T PROVE k[T \cup {y}] = k[T] + h[y]
  <2>1. T \cup {y} \in SUBSET D /\ g[T \cup {y}] = g[T] + f[y] /\ g[T] \in Nat
    OBVIOUS
  <2>2. CASE y = x
    <3>1. k[T \cup {y}] = g[T \cup {y}] + n /\ k[T] = g[T] /\ h[y] = f[y] + n
      BY <2>1, <2>2
    <3>. QED  BY <3>1, <2>1
  <2>3. CASE y # x
    <3>1. h[y] = f[y] /\ (x \in T \cup {y} <=> x \in T)
      BY <2>3
    <3>. QED  BY <3>1, <2>1
  <2>. QED  BY <2>2, <2>3
<1>. HIDE DEF h, k
<1>5. SumsTo(h, total + n)
  BY <1>1, <1>2, <1>3, <1>4 DEF SumsTo
<1>. QED  BY <1>5 DEF h

\* Debiting one part lowers the total by as much.
LEMMA SumDebited ==
    ASSUME NEW D, NEW f \in [D -> Nat], NEW total \in Nat, SumsTo(f, total),
           NEW x \in D, NEW n \in Nat, n <= f[x]
    PROVE SumsTo([f EXCEPT ![x] = f[x] - n], total - n)
<1>. PICK g \in [SUBSET D -> Nat] :
        /\ g[{}] = 0
        /\ g[D] = total
        /\ \A T \in SUBSET D : \A y \in D \ T : g[T \cup {y}] = g[T] + f[y]
  BY DOMAIN f = D DEF SumsTo
<1>. DEFINE h == [f EXCEPT ![x] = f[x] - n]
            k == [T \in SUBSET D |-> IF x \in T THEN g[T] - n ELSE g[T]]
<1>1. DOMAIN h = D
  OBVIOUS
<1>2. k \in [SUBSET D -> Nat]
  <2>. SUFFICES ASSUME NEW T \in SUBSET D, x \in T PROVE g[T] - n \in Nat
    OBVIOUS
  <2>1. T \ {x} \in SUBSET D /\ x \in D \ (T \ {x}) /\ (T \ {x}) \cup {x} = T
    OBVIOUS
  <2>2. g[T] = g[T \ {x}] + f[x] /\ g[T \ {x}] \in Nat
    BY <2>1
  <2>. QED  BY <2>2
<1>3. k[{}] = 0 /\ k[D] = total - n
  BY {} \in SUBSET D, D \in SUBSET D
<1>4. ASSUME NEW T \in SUBSET D, NEW y \in D \ T PROVE k[T \cup {y}] = k[T] + h[y]
  <2>1. T \cup {y} \in SUBSET D /\ g[T \cup {y}] = g[T] + f[y] /\ g[T] \in Nat
    OBVIOUS
  <2>2. CASE y = x
    <3>1. k[T \cup {y}] = g[T \cup {y}] - n /\ k[T] = g[T] /\ h[y] = f[y] - n
      BY <2>1, <2>2
    <3>. QED  BY <3>1, <2>1
  <2>3. CASE y # x
    <3>1. h[y] = f[y] /\ (x \in T \cup {y} <=> x \in T)
      BY <2>3
    <3>. QED  BY <3>1, <2>1
  <2>. QED  BY <2>2, <2>3
<1>. HIDE DEF h, k
<1>5. SumsTo(h, total - n)
  BY <1>1, <1>2, <1>3, <1>4 DEF SumsTo
<1>. QED  BY <1>5 DEF h

-----------------------------------------------------------------------------
(* Sums over finite sets *)

\* What holds of a set once it holds of its strict subsets holds of every finite
\* set.  B is the set of the subsets it holds of: an induction that takes no
\* operator as a parameter.
LEMMA SubsetInduction ==
    ASSUME NEW D, IsFiniteSet(D), NEW B,
           \A T \in SUBSET D : (\A U \in SUBSET T : U # T => U \in B) => T \in B
    PROVE \A T \in SUBSET D : T \in B
<1>. SUFFICES ASSUME NEW T0 \in SUBSET D, T0 \notin B PROVE FALSE
  OBVIOUS
<1>. DEFINE Bad == (SUBSET D) \ B
<1>1. IsWellFoundedOn(StrictSubsetOrdering(D), SUBSET D)
  <2>1. FiniteSubsetsOf(D) = SUBSET D
    BY FS_FiniteSubsetsOfFinite
  <2>2. IsWellFoundedOn(StrictSubsetOrdering(D), FiniteSubsetsOf(D))
    BY FS_StrictSubsetOrderingWellFounded
  <2>. QED  BY <2>1, <2>2, Zenon
<1>2. PICK T \in Bad : \A U \in Bad : <<U, T>> \notin StrictSubsetOrdering(D)
  <2>1. Bad \subseteq SUBSET D /\ Bad # {}
    OBVIOUS
  <2>. HIDE DEF Bad
  <2>. QED  BY <1>1, <2>1, WFMin
<1>3. \A U \in SUBSET T : U # T => U \in B
  <2>. SUFFICES ASSUME NEW U \in SUBSET T, U # T, U \notin B PROVE FALSE
    OBVIOUS
  <2>1. U \in Bad /\ <<U, T>> \in (SUBSET D) \X (SUBSET D)
    OBVIOUS
  <2>2. <<U, T>> \in StrictSubsetOrdering(D)
    BY <2>1 DEF StrictSubsetOrdering
  <2>. QED  BY <1>2, <2>1, <2>2
<1>. QED  BY <1>3

\* g is the sum of f over every subset of D, whichever element is added last.
Sums(f, D, g) ==
    /\ g \in [SUBSET D -> Nat]
    /\ g[{}] = 0
    /\ \A T \in SUBSET D : \A x \in D \ T : g[T \cup {x}] = g[T] + f[x]

\* Every finite part of a function to the naturals has sums.
LEMMA SumsExist ==
    ASSUME NEW D, IsFiniteSet(D), NEW f, \A x \in D : f[x] \in Nat
    PROVE \E g : Sums(f, D, g)
<1>. DEFINE B == { T \in SUBSET D : \E g : Sums(f, T, g) }
<1>1. ASSUME NEW T \in SUBSET D, \A U \in SUBSET T : U # T => U \in B PROVE T \in B
  <2>1. CASE T = {}
    <3>1. Sums(f, T, [U \in SUBSET T |-> 0])
      BY <2>1 DEF Sums
    <3>. QED  BY <3>1
  <2>2. CASE T # {}
    <3>1. PICK y \in T : TRUE
      BY <2>2
    <3>2. PICK g : Sums(f, T \ {y}, g)
      BY <1>1, <3>1
    <3>. DEFINE h == [U \in SUBSET T |-> IF y \in U THEN g[U \ {y}] + f[y] ELSE g[U]]
    <3>3. /\ f[y] \in Nat /\ g[{}] = 0
          /\ \A U \in SUBSET T : y \notin U => g[U] \in Nat
          /\ \A U \in SUBSET T : g[U \ {y}] \in Nat
      <4>1. g \in [SUBSET (T \ {y}) -> Nat] /\ g[{}] = 0
        BY <3>2 DEF Sums
      <4>2. \A U \in SUBSET T : U \ {y} \in SUBSET (T \ {y})
        OBVIOUS
      <4>3. \A U \in SUBSET T : y \notin U => U \in SUBSET (T \ {y})
        OBVIOUS
      <4>. QED  BY <4>1, <4>2, <4>3
    <3>4. h \in [SUBSET T -> Nat] /\ h[{}] = 0
      BY <3>3, {} \in SUBSET T
    <3>5. ASSUME NEW U \in SUBSET T, NEW x \in T \ U PROVE h[U \cup {x}] = h[U] + f[x]
      <4>1. U \cup {x} \in SUBSET T /\ f[x] \in Nat
        OBVIOUS
      <4>2. CASE x = y
        <5>1. h[U \cup {x}] = g[(U \cup {x}) \ {y}] + f[y] /\ h[U] = g[U]
          BY <4>1, <4>2
        <5>2. (U \cup {x}) \ {y} = U
          BY <4>2
        <5>. QED  BY <4>2, <5>1, <5>2
      <4>3. CASE x # y /\ y \in U
        <5>1. h[U \cup {x}] = g[(U \cup {x}) \ {y}] + f[y] /\ h[U] = g[U \ {y}] + f[y]
          BY <4>1, <4>3
        <5>2. (U \cup {x}) \ {y} = (U \ {y}) \cup {x}
          BY <4>3
        <5>3. U \ {y} \in SUBSET (T \ {y}) /\ x \in (T \ {y}) \ (U \ {y})
          BY <4>3
        <5>4. g[(U \ {y}) \cup {x}] = g[U \ {y}] + f[x]
          BY <3>2, <5>3 DEF Sums
        <5>5. g[U \ {y}] \in Nat /\ f[y] \in Nat
          BY <3>3
        <5>6. h[U \cup {x}] = (g[U \ {y}] + f[x]) + f[y]
          BY <5>1, <5>2, <5>4
        <5>. QED  BY <4>1, <5>1, <5>5, <5>6
      <4>4. CASE x # y /\ y \notin U
        <5>1. h[U \cup {x}] = g[U \cup {x}] /\ h[U] = g[U]
          BY <4>1, <4>4
        <5>2. U \in SUBSET (T \ {y}) /\ x \in (T \ {y}) \ U
          BY <4>4
        <5>3. g[U \cup {x}] = g[U] + f[x]
          BY <3>2, <5>2 DEF Sums
        <5>. QED  BY <5>1, <5>3
      <4>. QED  BY <4>2, <4>3, <4>4
    <3>. HIDE DEF h
    <3>6. Sums(f, T, h)
      BY <3>4, <3>5 DEF Sums
    <3>. QED  BY <3>6
  <2>. QED  BY <2>1, <2>2
<1>. HIDE DEF B
<1>2. D \in B
  BY <1>1, SubsetInduction
<1>. QED  BY <1>2 DEF B

\* The fold the models sum with is the one that takes the elements in the order
\* CHOOSE gives them.
LEMMA FoldIsSum ==
    ASSUME NEW D, IsFiniteSet(D), NEW f, \A x \in D : f[x] \in Nat,
           NEW g, Sums(f, D, g)
    PROVE SumFunctionOnSet(f, D) = g[D]
<1>. DEFINE Chosen(s) == CHOOSE x \in s : TRUE
            Folds(k) == k = [s \in SUBSET D |-> IF s = {} THEN 0
                                ELSE f[Chosen(s)] + k[s \ {Chosen(s)}]]
            fold == CHOOSE k : Folds(k)
<1>1. SumFunctionOnSet(f, D) = fold[D]
  BY Zenon DEF SumFunctionOnSet, FoldFunctionOnSet, MapThenFoldSet
<1>2. g \in [SUBSET D -> Nat] /\ g[{}] = 0
  BY DEF Sums
<1>. HIDE DEF Chosen
<1>3. ASSUME NEW s \in SUBSET D, s # {}
      PROVE /\ s \ {Chosen(s)} \in SUBSET D /\ s \ {Chosen(s)} # s
            /\ g[s] = f[Chosen(s)] + g[s \ {Chosen(s)}]
  <2>1. Chosen(s) \in s
    BY <1>3 DEF Chosen
  <2>. DEFINE x == Chosen(s)
              T == s \ {x}
  <2>. HIDE DEF x
  <2>2. T \in SUBSET D /\ T # s /\ x \in D \ T /\ T \cup {x} = s
    BY <2>1 DEF x
  <2>. HIDE DEF T
  <2>3. g[s] = g[T] + f[x]
    <3>1. g[T \cup {x}] = g[T] + f[x]
      BY <2>2 DEF Sums
    <3>. QED  BY <2>2, <3>1
  <2>4. g[T] \in Nat /\ f[x] \in Nat
    BY <1>2, <2>2
  <2>5. f[x] + g[T] = g[T] + f[x]
    BY <2>4
  <2>. QED  BY <2>2, <2>3, <2>5 DEF T, x
<1>4. Folds([s \in SUBSET D |-> g[s]])
  BY <1>2, <1>3
<1>5. Folds(fold)
  <2>. HIDE DEF Folds
  <2>. QED  BY <1>4
<1>. HIDE DEF fold
<1>6. \A T \in SUBSET D : fold[T] = g[T]
  <2>. DEFINE B == { T \in SUBSET D : fold[T] = g[T] }
  <2>1. ASSUME NEW T \in SUBSET D, \A U \in SUBSET T : U # T => U \in B PROVE T \in B
    <3>1. CASE T = {}
      BY <1>2, <1>5, <3>1
    <3>2. CASE T # {}
      <4>1. fold[T] = f[Chosen(T)] + fold[T \ {Chosen(T)}]
        BY <1>5, <3>2
      <4>2. fold[T \ {Chosen(T)}] = g[T \ {Chosen(T)}]
        BY <1>3, <2>1, <3>2
      <4>. QED  BY <1>3, <3>2, <4>1, <4>2
    <3>. QED  BY <3>1, <3>2
  <2>. HIDE DEF B
  <2>2. \A T \in SUBSET D : T \in B
    BY <2>1, SubsetInduction
  <2>. QED  BY <2>2 DEF B
<1>. QED  BY <1>1, <1>6

-----------------------------------------------------------------------------
(* The sums the models compute *)

\* One g holds the sum over every part of a finite D.
LEMMA SumsFound ==
    ASSUME NEW D, IsFiniteSet(D), NEW f, \A x \in D : f[x] \in Nat, NEW g, Sums(f, D, g)
    PROVE \A S \in SUBSET D : SumFunctionOnSet(f, S) = g[S]
<1>. SUFFICES ASSUME NEW S \in SUBSET D PROVE SumFunctionOnSet(f, S) = g[S]
  OBVIOUS
<1>. DEFINE h == [T \in SUBSET S |-> g[T]]
<1>1. IsFiniteSet(S) /\ \A x \in S : f[x] \in Nat
  BY FS_Subset
<1>2. Sums(f, S, h)
  <2>1. h \in [SUBSET S -> Nat] /\ h[{}] = 0
    BY DEF Sums
  <2>2. ASSUME NEW T \in SUBSET S, NEW x \in S \ T PROVE h[T \cup {x}] = h[T] + f[x]
    <3>1. g[T \cup {x}] = g[T] + f[x]
      BY T \in SUBSET D, x \in D \ T DEF Sums
    <3>. QED  BY <3>1, T \cup {x} \in SUBSET S
  <2>. HIDE DEF h
  <2>. QED  BY <2>1, <2>2 DEF Sums
<1>3. SumFunctionOnSet(f, S) = h[S]
  <2>. HIDE DEF h
  <2>. QED  BY <1>1, <1>2, FoldIsSum
<1>. QED  BY <1>3, S \in SUBSET S

\* A sum is natural, and any element may be taken out of it first.
LEMMA SumWithout ==
    ASSUME NEW D, IsFiniteSet(D), NEW f, \A x \in D : f[x] \in Nat
    PROVE /\ SumFunctionOnSet(f, D) \in Nat
          /\ \A x \in D : /\ SumFunctionOnSet(f, D \ {x}) \in Nat
                          /\ SumFunctionOnSet(f, D) = SumFunctionOnSet(f, D \ {x}) + f[x]
<1>1. PICK g : Sums(f, D, g)
  BY SumsExist
<1>2. \A S \in SUBSET D : SumFunctionOnSet(f, S) = g[S] /\ g[S] \in Nat
  <2>1. \A S \in SUBSET D : SumFunctionOnSet(f, S) = g[S]
    BY <1>1, SumsFound
  <2>2. \A S \in SUBSET D : g[S] \in Nat
    BY <1>1 DEF Sums
  <2>. QED  BY <2>1, <2>2
<1>3. ASSUME NEW x \in D PROVE g[D] = g[D \ {x}] + f[x]
  <2>1. D \ {x} \in SUBSET D /\ x \in D \ (D \ {x}) /\ (D \ {x}) \cup {x} = D
    OBVIOUS
  <2>. QED  BY <1>1, <2>1 DEF Sums
<1>4. D \in SUBSET D /\ \A x \in D : D \ {x} \in SUBSET D
  OBVIOUS
<1>. QED  BY <1>2, <1>3, <1>4

\* Values outside the set do not count.
LEMMA SumCongruent ==
    ASSUME NEW D, IsFiniteSet(D), NEW f, \A x \in D : f[x] \in Nat,
           NEW h, \A x \in D : h[x] = f[x]
    PROVE SumFunctionOnSet(h, D) = SumFunctionOnSet(f, D)
<1>1. PICK g : Sums(f, D, g)
  BY SumsExist
<1>2. Sums(h, D, g)
  BY <1>1 DEF Sums
<1>3. SumFunctionOnSet(f, D) = g[D] /\ SumFunctionOnSet(h, D) = g[D]
  BY <1>1, <1>2, FoldIsSum
<1>. QED  BY <1>3

LEMMA SumOfZeros ==
    ASSUME NEW D, IsFiniteSet(D), NEW f, \A x \in D : f[x] = 0
    PROVE SumFunctionOnSet(f, D) = 0
<1>. DEFINE g == [T \in SUBSET D |-> 0]
<1>1. Sums(f, D, g)
  BY DEF Sums
<1>2. g[D] = 0 /\ \A x \in D : f[x] \in Nat
  OBVIOUS
<1>. HIDE DEF g
<1>. QED  BY <1>1, <1>2, FoldIsSum

\* One value changes, and the sum with it.
LEMMA SumChanged ==
    ASSUME NEW D, IsFiniteSet(D), NEW f, \A x \in D : f[x] \in Nat,
           NEW s \in D, NEW h, h[s] \in Nat, \A x \in D \ {s} : h[x] = f[x]
    PROVE /\ SumFunctionOnSet(f, D) \in Nat /\ SumFunctionOnSet(h, D) \in Nat
          /\ SumFunctionOnSet(h, D) + f[s] = SumFunctionOnSet(f, D) + h[s]
<1>. DEFINE T == D \ {s}
            F == SumFunctionOnSet(f, T)
            H == SumFunctionOnSet(h, T)
<1>1. IsFiniteSet(T) /\ \A x \in D : h[x] \in Nat
  BY FS_Subset
<1>2. H = F
  BY <1>1, SumCongruent
<1>3. /\ SumFunctionOnSet(f, D) = F + f[s] /\ F \in Nat
      /\ SumFunctionOnSet(h, D) = H + h[s] /\ H \in Nat
  BY <1>1, SumWithout
<1>4. f[s] \in Nat
  OBVIOUS
<1>. HIDE DEF F, H
<1>. QED  BY <1>2, <1>3, <1>4

\* For a finite domain, SumsTo says what the sum is.
LEMMA SumsToIsSum ==
    ASSUME NEW D, IsFiniteSet(D), NEW f \in [D -> Nat], NEW total, SumsTo(f, total)
    PROVE SumFunction(f) = total
<1>1. PICK g : Sums(f, D, g) /\ g[D] = total
  BY DOMAIN f = D DEF SumsTo, Sums
<1>2. SumFunctionOnSet(f, D) = total
  BY <1>1, FoldIsSum
<1>. QED  BY <1>2, DOMAIN f = D DEF SumFunction

-----------------------------------------------------------------------------
(* Transfers *)

\* A transfer that can be paid leaves natural balances, and moves n from one
\* holder to another one.
LEMMA MovedBalances ==
    ASSUME NEW H, NEW bal \in [H -> Nat], NEW from \in H, NEW to \in H, NEW n \in Nat,
           CanPay(bal, from, n)
    PROVE /\ Moved(bal, from, to, n) \in [H -> Nat]
          /\ from = to => Moved(bal, from, to, n) = bal
          /\ from # to => /\ Moved(bal, from, to, n)[from] = bal[from] - n
                          /\ Moved(bal, from, to, n)[to] = bal[to] + n
          /\ \A h \in H \ {from, to} : Moved(bal, from, to, n)[h] = bal[h]
<1>. DEFINE paid == [bal EXCEPT ![from] = bal[from] - n]
<1>1. paid \in [H -> Nat]
  BY DEF CanPay
<1>2. Moved(bal, from, to, n) = [paid EXCEPT ![to] = paid[to] + n]
  BY DEF Moved
<1>3. CASE from = to
  BY <1>2, <1>3
<1>4. CASE from # to
  BY <1>1, <1>2, <1>4
<1>. QED  BY <1>3, <1>4
=============================================================================
