----------------------------- MODULE SumProofs ------------------------------
(***************************************************************************)
(* Sums of a function's values over a finite set of arguments, as          *)
(* SumFunctionOnSet of the community modules defines them: by a recursion  *)
(* that takes the elements in the order CHOOSE gives them.  The lemmas say *)
(* that the order does not matter and what a sum becomes when a value      *)
(* changes or an element is added, which is what the proofs about          *)
(* balances, supplies and collateral need.                                 *)
(*                                                                         *)
(* The library's induction theorems take a predicate as parameter.  The    *)
(* inductions here use WFMin instead: a set of counterexamples that is not *)
(* empty has a smallest one.                                               *)
(***************************************************************************)
EXTENDS FiniteSetTheorems, SequenceTheorems, TLAPS

\* A nonempty set of subsets of a finite set has a member that contains no
\* other member: induction over finite sets.
LEMMA SmallestSubset ==
    ASSUME NEW S, IsFiniteSet(S), NEW B, B # {}, \A s \in B : s \subseteq S
    PROVE  \E s \in B : \A t \in B : t \subseteq s => t = s
<1>1. IsWellFoundedOn(StrictSubsetOrdering(S), FiniteSubsetsOf(S))
    BY FS_StrictSubsetOrderingWellFounded
<1>2. IsWellFoundedOn(StrictSubsetOrdering(S), SUBSET S)
    BY <1>1, FS_FiniteSubsetsOfFinite
<1>3. PICK s \in B : \A t \in B : <<t, s>> \notin StrictSubsetOrdering(S)
    <2>1. B \subseteq SUBSET S
        OBVIOUS
    <2> QED
        BY <1>2, <2>1, WFMin
<1>4. \A t \in B : t \subseteq s => t = s
    BY <1>3 DEF StrictSubsetOrdering
<1> QED
    BY <1>4

-----------------------------------------------------------------------------
\* The recursion the library sums with.

Pick(s) == CHOOSE x \in s : TRUE

Unfolded(f, g, s) == IF s = {} THEN 0 ELSE f[Pick(s)] + g[s \ {Pick(s)}]

Iterates(f, S, g) == g = [s \in SUBSET S |-> Unfolded(f, g, s)]

Iteration(f, S) == CHOOSE g : Iterates(f, S, g)

\* SumFunctionOnSet is that recursion.
LEMMA SumIsIteration ==
    ASSUME NEW f, NEW S
    PROVE  SumFunctionOnSet(f, S) = Iteration(f, S)[S]
BY DEF SumFunctionOnSet, FoldFunctionOnSet, MapThenFoldSet, Iteration, Iterates, Unfolded, Pick

LEMMA PickIn == ASSUME NEW s, s # {} PROVE Pick(s) \in s
BY DEF Pick

\* Two iterations over different sets agree where both are defined.
LEMMA IterationsAgree ==
    ASSUME NEW f, NEW S, IsFiniteSet(S), NEW T, S \subseteq T,
           NEW g, NEW h, Iterates(f, S, g), Iterates(f, T, h)
    PROVE  \A s \in SUBSET S : g[s] = h[s]
<1> DEFINE B == {s \in SUBSET S : g[s] # h[s]}
<1> SUFFICES ASSUME B # {} PROVE FALSE
    OBVIOUS
<1>1. PICK s \in B : \A t \in B : t \subseteq s => t = s
    <2>1. \A s \in B : s \subseteq S
        OBVIOUS
    <2> HIDE DEF B
    <2> QED
        BY <2>1, SmallestSubset
<1>2. g[s] = Unfolded(f, g, s) /\ h[s] = Unfolded(f, h, s)
    BY DEF Iterates
<1>3. s # {}
    BY <1>2 DEF Unfolded
<1>4. g[s \ {Pick(s)}] = h[s \ {Pick(s)}]
    BY <1>1, <1>3, PickIn
<1> QED
    BY <1>2, <1>4 DEF Unfolded

\* There is an iteration over every finite set.
LEMMA IterationExists ==
    ASSUME NEW f, NEW S, IsFiniteSet(S)
    PROVE  \E g : Iterates(f, S, g)
<1> DEFINE B == {s \in SUBSET S : ~ \E g : Iterates(f, s, g)}
<1> SUFFICES ASSUME B # {} PROVE FALSE
    OBVIOUS
<1>1. PICK T \in B : \A t \in B : t \subseteq T => t = T
    <2>1. \A s \in B : s \subseteq S
        OBVIOUS
    <2> HIDE DEF B
    <2> QED
        BY <2>1, SmallestSubset
<1> DEFINE V(s) == Iteration(f, s)[s]
           g == [s \in SUBSET T |->
                    IF s = {} THEN 0 ELSE f[Pick(s)] + V(s \ {Pick(s)})]
<1>2. ASSUME NEW u \in SUBSET T, u # T PROVE Iterates(f, u, Iteration(f, u))
    <2>1. \E h : Iterates(f, u, h)
        BY <1>1, <1>2
    <2> QED
        BY <2>1 DEF Iteration
<1>3. ASSUME NEW u \in SUBSET T, u # T PROVE g[u] = V(u)
    <2>1. V(u) = Unfolded(f, Iteration(f, u), u)
        BY <1>2, <1>3 DEF Iterates
    <2>2. CASE u = {}
        BY <2>1, <2>2 DEF Unfolded
    <2>3. CASE u # {}
        <3> DEFINE w == u \ {Pick(u)}
        <3>1. w \in SUBSET T /\ w # T /\ w \subseteq u
            BY <1>3
        <3>2. Iterates(f, w, Iteration(f, w)) /\ Iterates(f, u, Iteration(f, u))
            BY <1>2, <1>3, <3>1
        <3>3. IsFiniteSet(w)
            BY FS_Subset
        <3>4. Iteration(f, w)[w] = Iteration(f, u)[w]
            <4> HIDE DEF w
            <4> QED BY <3>1, <3>2, <3>3, IterationsAgree
        <3>5. g[u] = f[Pick(u)] + V(w)
            BY <2>3
        <3>6. V(u) = f[Pick(u)] + Iteration(f, u)[w]
            BY <2>1, <2>3 DEF Unfolded
        <3> QED
            BY <3>4, <3>5, <3>6
    <2> QED
        BY <2>2, <2>3
<1>4. ASSUME NEW s \in SUBSET T PROVE g[s] = Unfolded(f, g, s)
    <2>1. CASE s = {}
        BY <2>1 DEF Unfolded
    <2>2. CASE s # {}
        <3>1. s \ {Pick(s)} \in SUBSET T /\ s \ {Pick(s)} # T
            BY <2>2, PickIn
        <3>2. g[s \ {Pick(s)}] = V(s \ {Pick(s)})
            BY <1>3, <3>1
        <3> QED
            BY <2>2, <3>2 DEF Unfolded
    <2> QED
        BY <2>1, <2>2
<1>5. Iterates(f, T, g)
    BY <1>4 DEF Iterates
<1> QED
    BY <1>1, <1>5

-----------------------------------------------------------------------------
\* What SumFunctionOnSet is for a finite set, by one step of the recursion.

LEMMA SumEmpty == \A f : SumFunctionOnSet(f, {}) = 0
<1> TAKE f
<1>1. Iterates(f, {}, Iteration(f, {}))
    BY IterationExists, FS_EmptySet DEF Iteration
<1> QED
    BY <1>1, SumIsIteration DEF Iterates, Unfolded

LEMMA SumUnfolds ==
    ASSUME NEW f, NEW S, IsFiniteSet(S), S # {}
    PROVE  SumFunctionOnSet(f, S) = f[Pick(S)] + SumFunctionOnSet(f, S \ {Pick(S)})
<1> DEFINE U == S \ {Pick(S)}
<1>1. IsFiniteSet(U) /\ U \subseteq S
    BY FS_Subset
<1>2. Iterates(f, S, Iteration(f, S)) /\ Iterates(f, U, Iteration(f, U))
    <2> HIDE DEF U
    <2> QED
        BY <1>1, IterationExists DEF Iteration
<1>3. Iteration(f, S)[U] = Iteration(f, U)[U]
    <2> HIDE DEF U
    <2> QED
        BY <1>1, <1>2, IterationsAgree
<1>4. Iteration(f, S)[S] = f[Pick(S)] + Iteration(f, S)[U]
    BY <1>2 DEF Iterates, Unfolded
<1> QED
    BY <1>3, <1>4, SumIsIteration

\* Sums of integers are integers.
LEMMA SumIsInt ==
    ASSUME NEW f, NEW S, IsFiniteSet(S), \A x \in S : f[x] \in Int
    PROVE  SumFunctionOnSet(f, S) \in Int
<1> DEFINE B == {s \in SUBSET S : SumFunctionOnSet(f, s) \notin Int}
<1> SUFFICES ASSUME B # {} PROVE FALSE
    OBVIOUS
<1>1. PICK s \in B : \A t \in B : t \subseteq s => t = s
    <2>1. \A s \in B : s \subseteq S
        OBVIOUS
    <2> HIDE DEF B
    <2> QED
        BY <2>1, SmallestSubset
<1>2. s # {}
    BY SumEmpty
<1>3. Pick(s) \in s
    BY <1>2, PickIn
<1>4. SumFunctionOnSet(f, s \ {Pick(s)}) \in Int
    BY <1>1, <1>3
<1>5. IsFiniteSet(s)
    BY FS_Subset
<1>6. SumFunctionOnSet(f, s) = f[Pick(s)] + SumFunctionOnSet(f, s \ {Pick(s)})
    BY <1>2, <1>5, SumUnfolds
<1> QED
    BY <1>3, <1>4, <1>6

\* The sum does not depend on the order: any element may come first.
LEMMA SumRemove ==
    ASSUME NEW f, NEW S, IsFiniteSet(S), \A x \in S : f[x] \in Int, NEW z \in S
    PROVE  SumFunctionOnSet(f, S) = f[z] + SumFunctionOnSet(f, S \ {z})
<1> DEFINE B == {s \in SUBSET S : \E y \in s :
                    SumFunctionOnSet(f, s) # f[y] + SumFunctionOnSet(f, s \ {y})}
<1> SUFFICES ASSUME B # {} PROVE FALSE
    OBVIOUS
<1>1. PICK s \in B : \A t \in B : t \subseteq s => t = s
    <2>1. \A s \in B : s \subseteq S
        OBVIOUS
    <2> HIDE DEF B
    <2> QED
        BY <2>1, SmallestSubset
<1>2. PICK y \in s : SumFunctionOnSet(f, s) # f[y] + SumFunctionOnSet(f, s \ {y})
    OBVIOUS
<1> DEFINE x == Pick(s)
<1>3. x \in s
    BY PickIn
<1>4. IsFiniteSet(s) /\ IsFiniteSet(s \ {x}) /\ IsFiniteSet(s \ {y}) /\ IsFiniteSet(s \ {x, y})
    <2>1. IsFiniteSet(s)
        BY FS_Subset
    <2>2. /\ s \ {x} \in SUBSET s
          /\ s \ {y} \in SUBSET s
          /\ s \ {x, y} \in SUBSET s
        OBVIOUS
    <2> HIDE DEF x
    <2> QED
        BY <2>1, <2>2, FS_Subset
<1>5. SumFunctionOnSet(f, s) = f[x] + SumFunctionOnSet(f, s \ {x})
    BY <1>4, SumUnfolds
<1> HIDE DEF x
<1>6. x # y
    BY <1>2, <1>5
<1>7. SumFunctionOnSet(f, s \ {x}) = f[y] + SumFunctionOnSet(f, s \ {x, y})
    <2>1. s \ {x} \notin B /\ y \in s \ {x} /\ s \ {x} \in SUBSET S
        BY <1>1, <1>3, <1>6
    <2>2. (s \ {x}) \ {y} = s \ {x, y}
        OBVIOUS
    <2> QED
        BY <2>1, <2>2
<1>8. SumFunctionOnSet(f, s \ {y}) = f[x] + SumFunctionOnSet(f, s \ {x, y})
    <2>1. s \ {y} \notin B /\ x \in s \ {y} /\ s \ {y} \in SUBSET S
        BY <1>1, <1>3, <1>6
    <2>2. (s \ {y}) \ {x} = s \ {x, y}
        OBVIOUS
    <2> QED
        BY <2>1, <2>2
<1>9. f[x] \in Int /\ f[y] \in Int /\ SumFunctionOnSet(f, s \ {x, y}) \in Int
    <2>1. \A a \in s \ {x, y} : f[a] \in Int
        OBVIOUS
    <2> QED
        BY <1>3, <1>4, <2>1, SumIsInt
<1> QED
    BY <1>2, <1>5, <1>7, <1>8, <1>9

\* Functions that agree on a set have the same sum over it.
LEMMA SumSame ==
    ASSUME NEW f, NEW g, NEW S, IsFiniteSet(S), \A x \in S : f[x] = g[x]
    PROVE  SumFunctionOnSet(f, S) = SumFunctionOnSet(g, S)
<1> DEFINE B == {s \in SUBSET S : SumFunctionOnSet(f, s) # SumFunctionOnSet(g, s)}
<1> SUFFICES ASSUME B # {} PROVE FALSE
    OBVIOUS
<1>1. PICK s \in B : \A t \in B : t \subseteq s => t = s
    <2>1. \A s \in B : s \subseteq S
        OBVIOUS
    <2> HIDE DEF B
    <2> QED
        BY <2>1, SmallestSubset
<1>2. s # {}
    BY SumEmpty
<1>3. Pick(s) \in s
    BY <1>2, PickIn
<1>4. SumFunctionOnSet(f, s \ {Pick(s)}) = SumFunctionOnSet(g, s \ {Pick(s)})
    BY <1>1, <1>3
<1>5. IsFiniteSet(s)
    BY FS_Subset
<1>6. /\ SumFunctionOnSet(f, s) = f[Pick(s)] + SumFunctionOnSet(f, s \ {Pick(s)})
      /\ SumFunctionOnSet(g, s) = g[Pick(s)] + SumFunctionOnSet(g, s \ {Pick(s)})
    BY <1>2, <1>5, SumUnfolds
<1> QED
    BY <1>3, <1>4, <1>6

-----------------------------------------------------------------------------
\* What becomes of a sum.

\* One value changes.
LEMMA SumChange ==
    ASSUME NEW f, NEW g, NEW S, IsFiniteSet(S), NEW z \in S,
           \A x \in S : f[x] \in Int /\ g[x] \in Int,
           \A x \in S \ {z} : f[x] = g[x]
    PROVE  SumFunctionOnSet(g, S) = SumFunctionOnSet(f, S) - f[z] + g[z]
<1>1. IsFiniteSet(S \ {z})
    BY FS_RemoveElement
<1>2. SumFunctionOnSet(f, S \ {z}) = SumFunctionOnSet(g, S \ {z})
    BY <1>1, SumSame
<1>3. SumFunctionOnSet(f, S) = f[z] + SumFunctionOnSet(f, S \ {z})
    BY SumRemove
<1>4. SumFunctionOnSet(g, S) = g[z] + SumFunctionOnSet(g, S \ {z})
    BY SumRemove
<1>5. SumFunctionOnSet(f, S \ {z}) \in Int
    BY <1>1, SumIsInt
<1> QED
    BY <1>2, <1>3, <1>4, <1>5

\* An element is added.
LEMMA SumAdd ==
    ASSUME NEW f, NEW S, IsFiniteSet(S), NEW z, z \notin S,
           \A x \in S \cup {z} : f[x] \in Int
    PROVE  SumFunctionOnSet(f, S \cup {z}) = SumFunctionOnSet(f, S) + f[z]
<1>1. IsFiniteSet(S \cup {z})
    BY FS_AddElement
<1>2. (S \cup {z}) \ {z} = S
    OBVIOUS
<1>3. SumFunctionOnSet(f, S \cup {z}) = f[z] + SumFunctionOnSet(f, (S \cup {z}) \ {z})
    <2> DEFINE T == S \cup {z}
    <2>1. IsFiniteSet(T) /\ z \in T /\ \A x \in T : f[x] \in Int
        BY <1>1
    <2> HIDE DEF T
    <2>2. SumFunctionOnSet(f, T) = f[z] + SumFunctionOnSet(f, T \ {z})
        BY <2>1, SumRemove
    <2> QED
        BY <2>2 DEF T
<1>4. SumFunctionOnSet(f, S \cup {z}) = f[z] + SumFunctionOnSet(f, S)
    BY <1>2, <1>3, Zenon
<1>5. SumFunctionOnSet(f, S) \in Int /\ f[z] \in Int
    BY SumIsInt
<1> QED
    BY <1>4, <1>5

\* Sums of natural numbers are natural numbers.
LEMMA SumIsNat ==
    ASSUME NEW f, NEW S, IsFiniteSet(S), \A x \in S : f[x] \in Nat
    PROVE  SumFunctionOnSet(f, S) \in Nat
<1> DEFINE B == {s \in SUBSET S : SumFunctionOnSet(f, s) \notin Nat}
<1> SUFFICES ASSUME B # {} PROVE FALSE
    OBVIOUS
<1>1. PICK s \in B : \A t \in B : t \subseteq s => t = s
    <2>1. \A s \in B : s \subseteq S
        OBVIOUS
    <2> HIDE DEF B
    <2> QED
        BY <2>1, SmallestSubset
<1>2. s # {}
    BY SumEmpty
<1>3. Pick(s) \in s
    BY <1>2, PickIn
<1>4. SumFunctionOnSet(f, s \ {Pick(s)}) \in Nat
    BY <1>1, <1>3
<1>5. IsFiniteSet(s)
    BY FS_Subset
<1>6. SumFunctionOnSet(f, s) = f[Pick(s)] + SumFunctionOnSet(f, s \ {Pick(s)})
    BY <1>2, <1>5, SumUnfolds
<1> QED
    BY <1>3, <1>4, <1>6

\* No summand exceeds a sum of natural numbers, nor do two.
LEMMA SumAtLeast ==
    ASSUME NEW f, NEW S, IsFiniteSet(S), \A x \in S : f[x] \in Nat, NEW z \in S
    PROVE  /\ f[z] <= SumFunctionOnSet(f, S)
           /\ \A y \in S \ {z} : f[y] + f[z] <= SumFunctionOnSet(f, S)
<1>1. IsFiniteSet(S \ {z})
    BY FS_RemoveElement
<1>2. SumFunctionOnSet(f, S \ {z}) \in Nat
    BY <1>1, SumIsNat
<1>3. SumFunctionOnSet(f, S) = f[z] + SumFunctionOnSet(f, S \ {z})
    BY SumRemove
<1>4. ASSUME NEW y \in S \ {z} PROVE f[y] <= SumFunctionOnSet(f, S \ {z})
    <2> DEFINE T == S \ {z}
    <2>1. IsFiniteSet(T) /\ \A x \in T : f[x] \in Nat
        BY <1>1
    <2>2. IsFiniteSet(T \ {y})
        BY <1>1, FS_RemoveElement
    <2>3. \A x \in T \ {y} : f[x] \in Nat
        OBVIOUS
    <2>4. y \in T
        BY <1>4
    <2> HIDE DEF T
    <2>5. SumFunctionOnSet(f, T) = f[y] + SumFunctionOnSet(f, T \ {y})
        BY <2>1, <2>4, SumRemove
    <2>6. SumFunctionOnSet(f, T \ {y}) \in Nat
        BY <2>2, <2>3, SumIsNat
    <2>7. f[y] <= SumFunctionOnSet(f, T)
        BY <2>1, <2>4, <2>5, <2>6
    <2> QED
        BY <2>7 DEF T
<1> QED
    BY <1>2, <1>3, <1>4

\* Fewer natural numbers have no larger sum.
LEMMA SumSubset ==
    ASSUME NEW f, NEW S, IsFiniteSet(S), \A x \in S : f[x] \in Nat, NEW T, T \subseteq S
    PROVE  SumFunctionOnSet(f, T) <= SumFunctionOnSet(f, S)
<1> DEFINE B == {s \in SUBSET S :
                    ~ SumFunctionOnSet(f, s \cap T) <= SumFunctionOnSet(f, s)}
<1>1. CASE B # {}
    <2>1. PICK s \in B : \A t \in B : t \subseteq s => t = s
        <3>1. B # {} /\ \A s \in B : s \subseteq S
            BY <1>1
        <3> HIDE DEF B
        <3> QED
            BY <3>1, SmallestSubset
    <2>2. s # {}
        BY SumEmpty
    <2> DEFINE x == Pick(s)
               u == s \ {x}
    <2>3. x \in s
        BY <2>2, PickIn
    <2>4. /\ IsFiniteSet(s) /\ IsFiniteSet(s \cap T) /\ IsFiniteSet(u) /\ IsFiniteSet(u \cap T)
        <3>1. /\ s \in SUBSET S /\ s \cap T \in SUBSET S
              /\ u \in SUBSET S /\ u \cap T \in SUBSET S
            OBVIOUS
        <3> HIDE DEF u
        <3> QED
            BY <3>1, FS_Subset
    <2>5. SumFunctionOnSet(f, s) = f[x] + SumFunctionOnSet(f, u)
        BY <2>2, <2>4, SumUnfolds
    <2> HIDE DEF x
    <2>6. SumFunctionOnSet(f, u \cap T) <= SumFunctionOnSet(f, u)
        BY <2>1, <2>3
    <2>7. f[x] \in Nat
        BY <2>3
    <2>8. SumFunctionOnSet(f, u) \in Nat /\ SumFunctionOnSet(f, u \cap T) \in Nat
        <3>1. \A y \in u : f[y] \in Nat
            OBVIOUS
        <3>2. \A y \in u \cap T : f[y] \in Nat
            OBVIOUS
        <3> HIDE DEF u
        <3> QED
            BY <2>4, <3>1, <3>2, SumIsNat
    <2>9. CASE x \in T
        <3>1. (s \cap T) \ {x} = u \cap T /\ x \in s \cap T
            BY <2>3, <2>9
        <3>2. \A y \in s \cap T : f[y] \in Int
            OBVIOUS
        <3> DEFINE w == s \cap T
        <3>3. IsFiniteSet(w) /\ x \in w /\ \A y \in w : f[y] \in Int
            BY <2>4, <3>1, <3>2
        <3> HIDE DEF w
        <3>4. SumFunctionOnSet(f, w) = f[x] + SumFunctionOnSet(f, w \ {x})
            BY <3>3, SumRemove
        <3>5. SumFunctionOnSet(f, w) = f[x] + SumFunctionOnSet(f, u \cap T)
            BY <3>1, <3>4 DEF w
        <3>6. SumFunctionOnSet(f, w) <= SumFunctionOnSet(f, s)
            BY <2>5, <2>6, <2>7, <2>8, <3>5
        <3> QED
            BY <3>6 DEF w
    <2>10. CASE x \notin T
        <3>1. s \cap T = u \cap T
            BY <2>10
        <3>2. SumFunctionOnSet(f, u \cap T) <= SumFunctionOnSet(f, s)
            BY <2>5, <2>6, <2>7, <2>8
        <3> QED
            BY <3>1, <3>2
    <2> QED
        BY <2>9, <2>10
<1>2. CASE B = {}
    <2>1. S \cap T = T
        OBVIOUS
    <2>2. SumFunctionOnSet(f, S \cap T) <= SumFunctionOnSet(f, S)
        BY <1>2
    <2> QED
        BY <2>1, <2>2
<1> QED
    BY <1>1, <1>2

\* A sum of zeros is zero.
LEMMA SumZero ==
    ASSUME NEW f, NEW S, IsFiniteSet(S), \A x \in S : f[x] = 0
    PROVE  SumFunctionOnSet(f, S) = 0
<1> DEFINE B == {s \in SUBSET S : SumFunctionOnSet(f, s) # 0}
<1> SUFFICES ASSUME B # {} PROVE FALSE
    OBVIOUS
<1>1. PICK s \in B : \A t \in B : t \subseteq s => t = s
    <2>1. \A s \in B : s \subseteq S
        OBVIOUS
    <2> HIDE DEF B
    <2> QED
        BY <2>1, SmallestSubset
<1>2. s # {}
    BY SumEmpty
<1>3. Pick(s) \in s
    BY <1>2, PickIn
<1>4. SumFunctionOnSet(f, s \ {Pick(s)}) = 0
    BY <1>1, <1>3
<1>5. IsFiniteSet(s)
    BY FS_Subset
<1>6. SumFunctionOnSet(f, s) = f[Pick(s)] + SumFunctionOnSet(f, s \ {Pick(s)})
    BY <1>2, <1>5, SumUnfolds
<1> QED
    BY <1>3, <1>4, <1>6

-----------------------------------------------------------------------------
\* The forms in which balances change.

LEMMA SumIncreased ==
    ASSUME NEW S, IsFiniteSet(S), NEW f \in [S -> Int], NEW a \in S, NEW v \in Int
    PROVE  SumFunctionOnSet([f EXCEPT ![a] = @ + v], S) = SumFunctionOnSet(f, S) + v
<1> DEFINE g == [f EXCEPT ![a] = @ + v]
<1>1. /\ \A x \in S : f[x] \in Int /\ g[x] \in Int
      /\ \A x \in S \ {a} : f[x] = g[x]
      /\ g[a] = f[a] + v
    OBVIOUS
<1> HIDE DEF g
<1>2. SumFunctionOnSet(g, S) = SumFunctionOnSet(f, S) - f[a] + g[a]
    BY <1>1, SumChange
<1>3. SumFunctionOnSet(f, S) \in Int
    BY SumIsInt
<1> QED
    BY <1>1, <1>2, <1>3 DEF g

LEMMA SumDecreased ==
    ASSUME NEW S, IsFiniteSet(S), NEW f \in [S -> Int], NEW a \in S, NEW v \in Int
    PROVE  SumFunctionOnSet([f EXCEPT ![a] = @ - v], S) = SumFunctionOnSet(f, S) - v
<1> DEFINE g == [f EXCEPT ![a] = @ - v]
<1>1. /\ \A x \in S : f[x] \in Int /\ g[x] \in Int
      /\ \A x \in S \ {a} : f[x] = g[x]
      /\ g[a] = f[a] - v
    OBVIOUS
<1> HIDE DEF g
<1>2. SumFunctionOnSet(g, S) = SumFunctionOnSet(f, S) - f[a] + g[a]
    BY <1>1, SumChange
<1>3. SumFunctionOnSet(f, S) \in Int
    BY SumIsInt
<1> QED
    BY <1>1, <1>2, <1>3 DEF g

\* A payment, also one to oneself.
LEMMA SumPaid ==
    ASSUME NEW S, IsFiniteSet(S), NEW f \in [S -> Int],
           NEW a \in S, NEW b \in S, NEW v \in Int
    PROVE  SumFunctionOnSet([[f EXCEPT ![a] = @ - v] EXCEPT ![b] = @ + v], S)
             = SumFunctionOnSet(f, S)
<1> DEFINE g == [f EXCEPT ![a] = @ - v]
<1>1. g \in [S -> Int]
    OBVIOUS
<1>2. SumFunctionOnSet(g, S) = SumFunctionOnSet(f, S) - v
    BY SumDecreased
<1>3. SumFunctionOnSet([g EXCEPT ![b] = @ + v], S) = SumFunctionOnSet(g, S) + v
    <2> HIDE DEF g
    <2> QED
        BY <1>1, SumIncreased
<1>4. SumFunctionOnSet(f, S) \in Int
    BY SumIsInt
<1> QED
    BY <1>2, <1>3, <1>4

-----------------------------------------------------------------------------
\* Sums over the elements of a sequence.

LEMMA SumUpTo ==
    ASSUME NEW f, NEW n \in Nat, \A i \in 1 .. n + 1 : f[i] \in Int
    PROVE  /\ SumFunctionOnSet(f, 1 .. n) \in Int
           /\ SumFunctionOnSet(f, 1 .. n + 1) = SumFunctionOnSet(f, 1 .. n) + f[n + 1]
<1> DEFINE S == 1 .. n
           z == n + 1
           T == 1 .. n + 1
<1>1. T = S \cup {z} /\ z \notin S /\ \A i \in T : f[i] \in Int
    OBVIOUS
<1>2. IsFiniteSet(S)
    BY FS_Interval
<1> HIDE DEF S, T, z
<1>3. SumFunctionOnSet(f, S \cup {z}) = SumFunctionOnSet(f, S) + f[z]
    BY <1>1, <1>2, SumAdd
<1>4. SumFunctionOnSet(f, S) \in Int
    <2>1. \A i \in S : f[i] \in Int
        BY <1>1
    <2> QED
        BY <1>2, <2>1, SumIsInt
<1> QED
    BY <1>1, <1>3, <1>4 DEF S, T, z

LEMMA SumSequenceIsInt == ASSUME NEW w \in Seq(Int) PROVE SumFunctionOnSet(w, DOMAIN w) \in Int
<1>1. DOMAIN w = 1 .. Len(w) /\ Len(w) \in Nat /\ \A i \in DOMAIN w : w[i] \in Int
    BY LenProperties, ElementOfSeq
<1>2. IsFiniteSet(DOMAIN w)
    BY <1>1, FS_Interval
<1> QED
    BY <1>1, <1>2, SumIsInt

\* An element is added at the end.
LEMMA SumAppend ==
    ASSUME NEW w \in Seq(Int), NEW x \in Int
    PROVE  LET v == Append(w, x)
           IN  SumFunctionOnSet(v, DOMAIN v) = SumFunctionOnSet(w, DOMAIN w) + x
<1> DEFINE v == Append(w, x)
           n == Len(w)
<1>1. /\ n \in Nat /\ DOMAIN w = 1 .. n /\ DOMAIN v = 1 .. n + 1
      /\ \A i \in 1 .. n : v[i] = w[i] /\ v[i] \in Int
      /\ v[n + 1] = x
    BY LenProperties, ElementOfSeq, AppendProperties
<1> HIDE DEF v, n
<1>2. IsFiniteSet(1 .. n)
    BY <1>1, FS_Interval
<1>3. SumFunctionOnSet(v, 1 .. n) = SumFunctionOnSet(w, 1 .. n)
    BY <1>1, <1>2, SumSame
<1>4. \A i \in 1 .. n + 1 : v[i] \in Int
    BY <1>1
<1>5. SumFunctionOnSet(v, 1 .. n + 1) = SumFunctionOnSet(v, 1 .. n) + v[n + 1]
    BY <1>1, <1>4, SumUpTo
<1>6. SumFunctionOnSet(v, DOMAIN v) = SumFunctionOnSet(w, DOMAIN w) + x
    BY <1>1, <1>3, <1>5
<1> QED
    BY <1>6 DEF v

\* Functions whose values are the same, one place apart.
LEMMA SumShifted ==
    ASSUME NEW n \in Nat, NEW w, NEW v, v[1] \in Int,
           \A i \in 1 .. n : w[i] \in Int /\ v[i + 1] = w[i]
    PROVE  SumFunctionOnSet(v, 1 .. n + 1) = v[1] + SumFunctionOnSet(w, 1 .. n)
<1> DEFINE Shifted(i) == SumFunctionOnSet(v, 1 .. i + 1) = v[1] + SumFunctionOnSet(w, 1 .. i)
           B == {s \in SUBSET (1 .. n) : \E i \in 0 .. n : s = 1 .. i /\ ~Shifted(i)}
<1>1. ASSUME B # {} PROVE FALSE
    <2>1. PICK s \in B : \A t \in B : t \subseteq s => t = s
        <3>1. IsFiniteSet(1 .. n) /\ \A s \in B : s \subseteq 1 .. n
            BY FS_Interval
        <3> HIDE DEF B
        <3> QED
            BY <1>1, <3>1, SmallestSubset
    <2>2. PICK i \in 0 .. n : s = 1 .. i /\ ~Shifted(i)
        OBVIOUS
    <2>3. \A j \in 1 .. n + 1 : v[j] \in Int
        <3> SUFFICES ASSUME NEW j \in 1 .. n + 1, j # 1 PROVE v[j] \in Int
            OBVIOUS
        <3>1. j - 1 \in 1 .. n /\ (j - 1) + 1 = j
            OBVIOUS
        <3> QED
            BY <3>1
    <2>4. CASE i = 0
        <3>1. 1 .. i = {}
            BY <2>4
        <3>2. SumFunctionOnSet(v, 1 .. i + 1) = SumFunctionOnSet(v, 1 .. i) + v[i + 1]
            BY <2>3, SumUpTo
        <3>3. i + 1 = 1
            BY <2>4
        <3> QED
            BY <2>2, <3>1, <3>2, <3>3, SumEmpty
    <2>5. CASE i # 0
        <3> DEFINE j == i - 1
        <3>1. j \in 0 .. n /\ j \in Nat /\ i \in Nat /\ i = j + 1 /\ i \in 1 .. n
            BY <2>5
        <3>2. Shifted(j)
            <4>1. 1 .. j \subseteq s /\ 1 .. j # s /\ 1 .. j \subseteq 1 .. n
                BY <2>2, <3>1
            <4>2. 1 .. j \notin B
                BY <2>1, <4>1
            <4> HIDE DEF j
            <4> QED
                BY <3>1, <4>1, <4>2
        <3> HIDE DEF j, B
        <3>3. /\ SumFunctionOnSet(w, 1 .. j) \in Int
              /\ SumFunctionOnSet(w, 1 .. j + 1) = SumFunctionOnSet(w, 1 .. j) + w[j + 1]
            <4>1. \A y \in 1 .. j + 1 : w[y] \in Int
                BY <3>1
            <4> QED
                BY <3>1, <4>1, SumUpTo
        <3>4. SumFunctionOnSet(v, 1 .. i + 1) = SumFunctionOnSet(v, 1 .. i) + v[i + 1]
            <4>1. \A y \in 1 .. i + 1 : v[y] \in Int
                BY <2>3, <3>1
            <4> QED
                BY <3>1, <4>1, SumUpTo
        <3>5. v[i + 1] = w[i] /\ w[i] \in Int
            BY <3>1
        <3> QED
            BY <2>2, <3>1, <3>2, <3>3, <3>4, <3>5
    <2> QED
        BY <2>2, <2>4, <2>5
<1>2. ASSUME ~Shifted(n) PROVE FALSE
    <2>1. 1 .. n \in B
        BY <1>2
    <2> QED
        BY <1>1, <2>1
<1> QED
    BY <1>2

\* An element is added at the front.
LEMMA SumCons ==
    ASSUME NEW w \in Seq(Int), NEW x \in Int
    PROVE  LET v == <<x>> \o w
           IN  SumFunctionOnSet(v, DOMAIN v) = x + SumFunctionOnSet(w, DOMAIN w)
<1> DEFINE v == <<x>> \o w
           n == Len(w)
<1>1. /\ n \in Nat /\ DOMAIN w = 1 .. n /\ DOMAIN v = 1 .. n + 1
      /\ v[1] = x
      /\ \A i \in 1 .. n : w[i] \in Int /\ v[i + 1] = w[i]
    BY LenProperties, ElementOfSeq, ConcatProperties
<1> HIDE DEF v, n
<1>2. SumFunctionOnSet(v, 1 .. n + 1) = v[1] + SumFunctionOnSet(w, 1 .. n)
    BY <1>1, SumShifted
<1> QED
    BY <1>1, <1>2 DEF v

\* One sequence after the other.
LEMMA SumConcat ==
    ASSUME NEW w \in Seq(Int), NEW v \in Seq(Int)
    PROVE  LET u == w \o v
           IN  SumFunctionOnSet(u, DOMAIN u)
                 = SumFunctionOnSet(w, DOMAIN w) + SumFunctionOnSet(v, DOMAIN v)
<1> DEFINE u == w \o v
           n == Len(w)
           m == Len(v)
<1>1. /\ n \in Nat /\ m \in Nat
      /\ DOMAIN w = 1 .. n /\ DOMAIN v = 1 .. m /\ DOMAIN u = 1 .. n + m
      /\ \A i \in 1 .. n : w[i] \in Int /\ u[i] = w[i]
      /\ \A i \in 1 .. m : v[i] \in Int /\ u[n + i] = v[i]
    BY LenProperties, ElementOfSeq, ConcatProperties
<1> HIDE DEF u, n, m
<1> DEFINE Joined(i) == SumFunctionOnSet(u, 1 .. n + i)
                          = SumFunctionOnSet(w, 1 .. n) + SumFunctionOnSet(v, 1 .. i)
           B == {s \in SUBSET (1 .. m) : \E i \in 0 .. m : s = 1 .. i /\ ~Joined(i)}
<1>2. IsFiniteSet(1 .. n) /\ IsFiniteSet(1 .. m)
    BY <1>1, FS_Interval
<1>3. SumFunctionOnSet(w, 1 .. n) \in Int
    BY <1>1, <1>2, SumIsInt
<1>4. ASSUME B # {} PROVE FALSE
    <2>1. PICK s \in B : \A t \in B : t \subseteq s => t = s
        <3> DEFINE M == 1 .. m
        <3>1. IsFiniteSet(M) /\ \A s \in B : s \subseteq M
            BY <1>2
        <3> HIDE DEF B, M
        <3> QED
            BY <1>4, <3>1, SmallestSubset
    <2>2. PICK i \in 0 .. m : s = 1 .. i /\ ~Joined(i)
        OBVIOUS
    <2>3. CASE i = 0
        <3>1. 1 .. i = {} /\ n + i = n
            BY <1>1, <2>3
        <3>2. SumFunctionOnSet(u, 1 .. n) = SumFunctionOnSet(w, 1 .. n)
            BY <1>1, <1>2, SumSame
        <3> QED
            BY <1>3, <2>2, <3>1, <3>2, SumEmpty
    <2>4. CASE i # 0
        <3> DEFINE j == i - 1
        <3>1. j \in 0 .. m /\ j \in Nat /\ i = j + 1 /\ i \in 1 .. m
            BY <1>1, <2>4
        <3>2. Joined(j)
            <4>1. 1 .. j \subseteq s /\ 1 .. j # s /\ 1 .. j \subseteq 1 .. m
                BY <1>1, <2>2, <3>1
            <4>2. 1 .. j \notin B
                BY <2>1, <4>1
            <4> HIDE DEF j
            <4> QED
                BY <3>1, <4>1, <4>2
        <3> HIDE DEF j, B
        <3>3. /\ SumFunctionOnSet(v, 1 .. j) \in Int
              /\ SumFunctionOnSet(v, 1 .. j + 1) = SumFunctionOnSet(v, 1 .. j) + v[j + 1]
            <4>1. \A y \in 1 .. j + 1 : v[y] \in Int
                BY <1>1, <3>1
            <4> QED
                BY <3>1, <4>1, SumUpTo
        <3>4. SumFunctionOnSet(u, 1 .. (n + j) + 1)
                = SumFunctionOnSet(u, 1 .. n + j) + u[(n + j) + 1]
            <4>1. ASSUME NEW y \in 1 .. (n + j) + 1 PROVE u[y] \in Int
                <5>1. CASE y <= n
                    BY <1>1, <3>1, <5>1
                <5>2. CASE ~ y <= n
                    <6>1. y - n \in 1 .. m /\ n + (y - n) = y
                        BY <1>1, <3>1, <5>2
                    <6> QED
                        BY <1>1, <6>1
                <5> QED
                    BY <5>1, <5>2
            <4>2. n + j \in Nat
                BY <1>1, <3>1
            <4> QED
                BY <4>1, <4>2, SumUpTo
        <3>5. (n + j) + 1 = n + i /\ u[n + i] = v[i] /\ v[i] \in Int
            BY <1>1, <3>1
        <3> QED
            BY <1>3, <2>2, <3>1, <3>2, <3>3, <3>4, <3>5
    <2> QED
        BY <2>2, <2>3, <2>4
<1>5. ASSUME ~Joined(m) PROVE FALSE
    <2>1. 1 .. m \in B
        BY <1>1, <1>5
    <2> QED
        BY <1>4, <2>1
<1>6. SumFunctionOnSet(u, DOMAIN u)
        = SumFunctionOnSet(w, DOMAIN w) + SumFunctionOnSet(v, DOMAIN v)
    BY <1>1, <1>5
<1> QED
    BY <1>6 DEF u

=============================================================================
