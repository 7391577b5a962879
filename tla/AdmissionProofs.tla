--------------------------- MODULE AdmissionProofs ---------------------------
(***************************************************************************)
(* Theorems about Admission, for any limits, requests, commands and days:  *)
(* the types, that the quota is exact, what a window and a second admit,   *)
(* and that the totals agree and no day is over-counted.                   *)
(***************************************************************************)
EXTENDS Admission, FiniteSetTheorems, TLAPS

-----------------------------------------------------------------------------
(* Sums over finite sets.                                                  *)

\* The sum of f over a set.
Total(f, S) == MapThenSumSet(LAMBDA x : f[x], S)

Iterates(f, S, g) ==
  g = [s \in SUBSET S |-> IF s = {} THEN 0
                          ELSE LET x == CHOOSE y \in s : TRUE IN f[x] + g[s \ {x}]]

LEMMA TotalIterates ==
  ASSUME NEW f, NEW S
  PROVE  Total(f, S) = (CHOOSE g : Iterates(f, S, g))[S]
  BY DEF Total, MapThenSumSet, MapThenFoldSet, Iterates

LEMMA SumFn ==
  ASSUME NEW f
  PROVE  SumFunction(f) = Total(f, DOMAIN f)
  BY DEF Total, MapThenSumSet, MapThenFoldSet, SumFunction, SumFunctionOnSet, FoldFunctionOnSet

\* Induction over the subsets of a finite set.
LEMMA Smaller ==
  ASSUME NEW S, IsFiniteSet(S), NEW T,
         \A A \in SUBSET S : (\A B \in SUBSET A : B # A => B \in T) => A \in T
  PROVE  S \in T
<1> SUFFICES ASSUME S \notin T PROVE FALSE
  OBVIOUS
<1>0. PICK U : U = {A \in SUBSET S : A \notin T}
  OBVIOUS
<1>1. IsWellFoundedOn(StrictSubsetOrdering(S), SUBSET S)
  <2>1. FiniteSubsetsOf(S) = SUBSET S
    BY FS_FiniteSubsetsOfFinite
  <2>2. IsWellFoundedOn(StrictSubsetOrdering(S), FiniteSubsetsOf(S))
    BY FS_StrictSubsetOrderingWellFounded
  <2> QED
    BY <2>1, <2>2
<1>2. U \subseteq SUBSET S /\ U # {}
  BY <1>0
<1>3. PICK A \in U : \A B \in U : <<B, A>> \notin StrictSubsetOrdering(S)
  BY <1>1, <1>2, WFMin
<1>4. A \in SUBSET S /\ A \notin T
  BY <1>0, <1>3
<1>5. ASSUME NEW B \in SUBSET A, B # A PROVE B \in T
  <2>1. B \in SUBSET S /\ B \notin U
    BY <1>3, <1>4, <1>5 DEF StrictSubsetOrdering
  <2> QED
    BY <1>0, <2>1
<1> QED
  BY <1>4, <1>5

LEMMA Growing ==
  ASSUME NEW S, IsFiniteSet(S), NEW T, {} \in T,
         \A A \in SUBSET S : \A x \in S \ A : A \in T => A \cup {x} \in T
  PROVE  S \in T
<1>1. ASSUME NEW A \in SUBSET S, \A B \in SUBSET A : B # A => B \in T PROVE A \in T
  <2>1. CASE A = {}
    BY <2>1
  <2>2. ASSUME NEW x \in A PROVE A \in T
    <3>1. A \ {x} \in SUBSET A /\ A \ {x} # A /\ A = (A \ {x}) \cup {x} /\ x \in S \ (A \ {x})
      OBVIOUS
    <3>2. A \ {x} \in T /\ A \ {x} \in SUBSET S
      BY <1>1, <3>1
    <3>3. (A \ {x}) \cup {x} \in T
      BY <3>1, <3>2
    <3> QED
      BY <3>1, <3>3
  <2> QED
    BY <2>1, <2>2
<1> QED
  BY <1>1, Smaller

\* A sum that may be taken in any order.
Sums(f, S, g) ==
  /\ g \in [SUBSET S -> Nat] /\ g[{}] = 0
  /\ \A s \in SUBSET S : \A x \in s : g[s] = f[x] + g[s \ {x}]

LEMMA SumsExist ==
  ASSUME NEW S, IsFiniteSet(S), NEW f, \A x \in S : f[x] \in Nat
  PROVE  \E g : Sums(f, S, g)
<1>0. PICK T : T = {A \in SUBSET S : \E g : Sums(f, A, g)}
  OBVIOUS
<1>1. {} \in T
  <2>1. Sums(f, {}, [s \in SUBSET {} |-> 0])
    BY DEF Sums
  <2> QED
    BY <1>0, <2>1
<1>2. ASSUME NEW A \in SUBSET S, NEW x \in S \ A, A \in T PROVE A \cup {x} \in T
  <2>1. PICK g : Sums(f, A, g)
    BY <1>0, <1>2
  <2>2. PICK h : h = [s \in SUBSET (A \cup {x}) |-> IF x \in s THEN f[x] + g[s \ {x}] ELSE g[s]]
    OBVIOUS
  <2>3. \A s \in SUBSET (A \cup {x}) : s \ {x} \in SUBSET A /\ g[s \ {x}] \in Nat /\ (x \notin s => g[s] \in Nat)
    BY <2>1 DEF Sums
  <2>4. h \in [SUBSET (A \cup {x}) -> Nat] /\ h[{}] = 0
    BY <2>1, <2>2, <2>3 DEF Sums
  <2>5. ASSUME NEW s \in SUBSET (A \cup {x}), NEW y \in s PROVE h[s] = f[y] + h[s \ {y}]
    <3>1. CASE x \notin s
      <4>1. s \in SUBSET A /\ s \ {y} \in SUBSET A /\ x \notin s \ {y}
        BY <3>1
      <4>2. h[s] = g[s] /\ h[s \ {y}] = g[s \ {y}]
        BY <2>2, <3>1, <4>1
      <4> QED
        BY <2>1, <4>1, <4>2 DEF Sums
    <3>2. CASE y = x
      <4>1. s \ {x} \in SUBSET A /\ x \notin s \ {x}
        OBVIOUS
      <4> QED
        BY <2>2, <3>2, <4>1
    <3>3. CASE x \in s /\ y # x
      <4>1. /\ s \ {x} \in SUBSET A /\ y \in s \ {x} /\ x \in s \ {y} /\ s \ {y} \in SUBSET (A \cup {x})
            /\ (s \ {x}) \ {y} = (s \ {y}) \ {x} /\ y \in S
        BY <3>3
      <4>2. g[s \ {x}] = f[y] + g[(s \ {y}) \ {x}]
        BY <2>1, <4>1 DEF Sums
      <4>3. h[s] = f[x] + g[s \ {x}] /\ h[s \ {y}] = f[x] + g[(s \ {y}) \ {x}]
        BY <2>2, <3>3, <4>1
      <4>4. f[x] \in Nat /\ f[y] \in Nat /\ g[(s \ {y}) \ {x}] \in Nat
        BY <2>3, <4>1
      <4> QED
        BY <4>2, <4>3, <4>4
    <3> QED
      BY <3>1, <3>2, <3>3
  <2>6. Sums(f, A \cup {x}, h)
    BY <2>4, <2>5 DEF Sums
  <2> QED
    BY <1>0, <2>6
<1> QED
  BY <1>0, <1>1, <1>2, Growing

\* Two functions that take off elements in some order of their own agree.
LEMMA TotalSums ==
  ASSUME NEW S, IsFiniteSet(S), NEW f, NEW g, Sums(f, S, g)
  PROVE  Total(f, S) = g[S]
<1>1. Iterates(f, S, g)
  <2>1. g = [s \in SUBSET S |-> g[s]]
    BY DEF Sums
  <2>2. ASSUME NEW s \in SUBSET S
        PROVE  g[s] = IF s = {} THEN 0 ELSE LET x == CHOOSE y \in s : TRUE IN f[x] + g[s \ {x}]
    <3>1. CASE s = {}
      BY <3>1 DEF Sums
    <3>2. CASE s # {}
      <4>1. (CHOOSE y \in s : TRUE) \in s
        BY <3>2
      <4> QED
        BY <3>2, <4>1 DEF Sums
    <3> QED
      BY <3>1, <3>2
  <2> QED
    BY <2>1, <2>2 DEF Iterates
<1>2. PICK h : h = CHOOSE i : Iterates(f, S, i)
  OBVIOUS
<1>3. Iterates(f, S, h)
  BY <1>1, <1>2
<1>4. ASSUME NEW s \in SUBSET S, \A t \in SUBSET s : t # s => h[t] = g[t] PROVE h[s] = g[s]
  <2>1. CASE s = {}
    BY <1>3, <2>1 DEF Iterates, Sums
  <2>2. CASE s # {}
    <3>1. PICK x : x = CHOOSE y \in s : TRUE
      OBVIOUS
    <3>2. x \in s /\ s \ {x} \in SUBSET s /\ s \ {x} # s
      BY <2>2, <3>1
    <3>3. h[s] = f[x] + h[s \ {x}]
      BY <1>3, <2>2, <3>1 DEF Iterates
    <3> QED
      BY <1>4, <3>2, <3>3 DEF Sums
  <2> QED
    BY <2>1, <2>2
<1>5. PICK T : T = {s \in SUBSET S : h[s] = g[s]}
  OBVIOUS
<1>6. S \in T
  BY <1>4, <1>5, Smaller
<1> QED
  BY <1>2, <1>5, <1>6, TotalIterates

LEMMA TotalTakes ==
  ASSUME NEW S, IsFiniteSet(S), NEW f, \A x \in S : f[x] \in Nat
  PROVE  /\ Total(f, S) \in Nat /\ Total(f, {}) = 0
         /\ \A s \in SUBSET S : \A x \in s : Total(f, s) = f[x] + Total(f, s \ {x})
<1>1. PICK g : Sums(f, S, g)
  BY SumsExist
<1>2. ASSUME NEW s \in SUBSET S PROVE Total(f, s) = g[s]
  <2>1. IsFiniteSet(s)
    BY FS_Subset
  <2>2. PICK h : h = [t \in SUBSET s |-> g[t]]
    OBVIOUS
  <2>3. Sums(f, s, h)
    BY <1>1, <2>2 DEF Sums
  <2> QED
    BY <2>1, <2>2, <2>3, TotalSums
<1>3. \A s \in SUBSET S : \A x \in s : s \ {x} \in SUBSET S
  OBVIOUS
<1>4. {} \in SUBSET S /\ S \in SUBSET S
  OBVIOUS
<1> QED
  BY <1>1, <1>2, <1>3, <1>4 DEF Sums

LEMMA TotalAdds ==
  ASSUME NEW S, IsFiniteSet(S), NEW f, \A x \in S : f[x] \in Nat
  PROVE  \A A \in SUBSET S : \A x \in S \ A : Total(f, A \cup {x}) = f[x] + Total(f, A)
<1> SUFFICES ASSUME NEW A \in SUBSET S, NEW x \in S \ A PROVE Total(f, A \cup {x}) = f[x] + Total(f, A)
  OBVIOUS
<1>1. A \cup {x} \in SUBSET S /\ (A \cup {x}) \ {x} = A /\ x \in A \cup {x}
  OBVIOUS
<1> QED
  BY <1>1, TotalTakes

LEMMA TotalSame ==
  ASSUME NEW S, IsFiniteSet(S), NEW f, NEW g, \A x \in S : f[x] \in Nat /\ g[x] = f[x]
  PROVE  Total(g, S) = Total(f, S)
<1>1. PICK T : T = {A \in SUBSET S : Total(g, A) = Total(f, A)}
  OBVIOUS
<1>2. {} \in T
  BY <1>1, TotalTakes
<1>3. \A A \in SUBSET S : \A x \in S \ A : A \in T => A \cup {x} \in T
  BY <1>1, TotalAdds
<1> QED
  BY <1>1, <1>2, <1>3, Growing

LEMMA TotalSplits ==
  ASSUME NEW A, IsFiniteSet(A), NEW B, IsFiniteSet(B), A \cap B = {}, NEW f, \A x \in A \cup B : f[x] \in Nat
  PROVE  Total(f, A \cup B) = Total(f, A) + Total(f, B)
<1>1. PICK T : T = {C \in SUBSET B : Total(f, A \cup C) = Total(f, A) + Total(f, C)}
  OBVIOUS
<1>2. {} \in T
  BY <1>1, TotalTakes
<1>3. ASSUME NEW C \in SUBSET B, NEW x \in B \ C, C \in T PROVE C \cup {x} \in T
  <2>1. IsFiniteSet(A \cup B)
    BY FS_Union
  <2>2. A \cup C \in SUBSET (A \cup B) /\ x \in (A \cup B) \ (A \cup C) /\ A \cup (C \cup {x}) = (A \cup C) \cup {x}
    OBVIOUS
  <2>3. Total(f, A \cup (C \cup {x})) = f[x] + Total(f, A \cup C)
    BY <2>1, <2>2, TotalAdds
  <2>4. Total(f, C \cup {x}) = f[x] + Total(f, C)
    BY TotalAdds
  <2>5. f[x] \in Nat /\ Total(f, A) \in Nat /\ Total(f, C) \in Nat
    BY FS_Subset, TotalTakes
  <2> QED
    BY <1>1, <1>3, <2>3, <2>4, <2>5
<1> QED
  BY <1>1, <1>2, <1>3, Growing

\* One more at one place.
LEMMA TotalGrows ==
  ASSUME NEW S, IsFiniteSet(S), NEW f, NEW g, NEW x \in S, \A y \in S : f[y] \in Nat,
         g[x] = f[x] + 1, \A y \in S \ {x} : g[y] = f[y]
  PROVE  Total(g, S) = Total(f, S) + 1
<1>1. IsFiniteSet(S \ {x}) /\ S = (S \ {x}) \cup {x} /\ x \in S \ (S \ {x}) /\ S \ {x} \in SUBSET S
  BY FS_RemoveElement
<1>2. Total(g, S \ {x}) = Total(f, S \ {x})
  BY <1>1, TotalSame
<1>3. \A y \in S : g[y] \in Nat
  OBVIOUS
<1>4. Total(f, S) = f[x] + Total(f, S \ {x}) /\ Total(g, S) = g[x] + Total(g, S \ {x})
  <2>1. S \in SUBSET S
    OBVIOUS
  <2> QED
    BY <1>3, <2>1, TotalTakes
<1>5. Total(f, S \ {x}) \in Nat /\ f[x] \in Nat
  BY <1>1, TotalTakes
<1> QED
  BY <1>2, <1>4, <1>5

LEMMA TotalNone ==
  ASSUME NEW S, IsFiniteSet(S), NEW f, \A x \in S : f[x] = 0
  PROVE  Total(f, S) = 0
<1>1. PICK T : T = {A \in SUBSET S : Total(f, A) = 0}
  OBVIOUS
<1>2. {} \in T
  BY <1>1, TotalTakes
<1>3. \A A \in SUBSET S : \A x \in S \ A : A \in T => A \cup {x} \in T
  BY <1>1, TotalAdds
<1> QED
  BY <1>1, <1>2, <1>3, Growing

-----------------------------------------------------------------------------
(* What a span of ticks admits.                                            *)

Ticks(t, u) == (t..u) \cap (0..MaxTime)

LEMMA AdmittedIsTotal ==
  \A t, u : /\ Admitted(t, u) = Total(admitted, Ticks(t, u))
            /\ Admitted(t, u)' = Total(admitted', Ticks(t, u))
<1>1. \A t, u : Admitted(t, u) = Total(admitted, Ticks(t, u))
  BY DEF Admitted, Total, Ticks
<1>2. \A t, u : Admitted(t, u)' = Total(admitted', Ticks(t, u))
  BY DEF Admitted, Total, Ticks, MapThenSumSet, MapThenFoldSet
<1> QED
  BY <1>1, <1>2

LEMMA TicksFinite ==
  ASSUME NEW t \in Int, NEW u \in Int
  PROVE  IsFiniteSet(Ticks(t, u)) /\ Ticks(t, u) \in SUBSET (0..MaxTime)
  BY LimitsAssumption, FS_Interval, FS_Subset DEF Ticks

LEMMA AdmittedNat ==
  ASSUME NEW f \in [0..MaxTime -> Nat], NEW t \in Int, NEW u \in Int
  PROVE  Total(f, Ticks(t, u)) \in Nat
<1>1. \A x \in Ticks(t, u) : f[x] \in Nat
  BY TicksFinite
<1> QED
  BY <1>1, TicksFinite, TotalTakes

LEMMA Cut2 ==
  ASSUME NEW f \in [0..MaxTime -> Nat], NEW t \in Int, NEW m \in Int, NEW u \in Int, t =< m, m =< u + 1
  PROVE  Total(f, Ticks(t, u)) = Total(f, Ticks(t, m - 1)) + Total(f, Ticks(m, u))
<1>1. PICK A, B : A = Ticks(t, m - 1) /\ B = Ticks(m, u)
  OBVIOUS
<1>2. IsFiniteSet(A) /\ IsFiniteSet(B)
  BY <1>1, TicksFinite
<1>3. Ticks(t, u) = A \cup B /\ A \cap B = {}
  BY <1>1 DEF Ticks
<1>4. \A x \in A \cup B : f[x] \in Nat
  BY <1>1 DEF Ticks
<1>5. Total(f, A \cup B) = Total(f, A) + Total(f, B)
  BY <1>2, <1>3, <1>4, TotalSplits
<1> QED
  BY <1>1, <1>3, <1>5

\* A shorter span admits no more.
LEMMA Within ==
  ASSUME NEW f \in [0..MaxTime -> Nat], NEW s \in Int, NEW t \in Int, NEW u \in Int, NEW v \in Int,
         s =< t, u =< v
  PROVE  Total(f, Ticks(t, u)) =< Total(f, Ticks(s, v))
<1>1. PICK A, B : A = Ticks(t, u) /\ B = Ticks(s, v) \ A
  OBVIOUS
<1>2. IsFiniteSet(A) /\ IsFiniteSet(B)
  BY <1>1, TicksFinite, FS_Difference
<1>3. Ticks(s, v) = A \cup B /\ A \cap B = {}
  BY <1>1 DEF Ticks
<1>4. \A x \in A \cup B : f[x] \in Nat
  BY <1>3 DEF Ticks
<1>5. Total(f, A \cup B) = Total(f, A) + Total(f, B)
  BY <1>2, <1>3, <1>4, TotalSplits
<1>6. Total(f, A) \in Nat /\ Total(f, B) \in Nat
  BY <1>2, <1>4, TotalTakes
<1>7. Total(f, A) =< Total(f, A \cup B)
  BY <1>5, <1>6
<1> QED
  BY <1>1, <1>3, <1>7

LEMMA Nothing ==
  ASSUME NEW f \in [0..MaxTime -> Nat], NEW t \in Int, NEW u \in Int,
         \A x \in 0..MaxTime : x >= t /\ x =< u => f[x] = 0
  PROVE  Total(f, Ticks(t, u)) = 0
<1>1. \A x \in Ticks(t, u) : f[x] = 0
  BY DEF Ticks
<1> QED
  BY <1>1, TicksFinite, TotalNone

LEMMA Alike ==
  ASSUME NEW f \in [0..MaxTime -> Nat], NEW g, NEW t \in Int, NEW u \in Int,
         \A x \in 0..MaxTime : x >= t /\ x =< u => g[x] = f[x]
  PROVE  Total(g, Ticks(t, u)) = Total(f, Ticks(t, u))
<1>1. \A x \in Ticks(t, u) : f[x] \in Nat /\ g[x] = f[x]
  BY DEF Ticks
<1> QED
  BY <1>1, TicksFinite, TotalSame

More(f, n, g) == g = [f EXCEPT ![n] = @ + 1]

LEMMA OneMore ==
  ASSUME NEW f \in [0..MaxTime -> Nat], NEW n \in 0..MaxTime, NEW t \in Int, NEW u \in Int, t =< n, n =< u,
         NEW g, More(f, n, g)
  PROVE  Total(g, Ticks(t, u)) = Total(f, Ticks(t, u)) + 1
<1>2. n \in Ticks(t, u) /\ \A x \in Ticks(t, u) : x \in 0..MaxTime
  BY DEF Ticks
<1>3. g[n] = f[n] + 1 /\ \A x \in Ticks(t, u) \ {n} : g[x] = f[x]
  BY <1>2 DEF More
<1>4. \A x \in Ticks(t, u) : f[x] \in Nat
  BY <1>2
<1> QED
  BY <1>2, <1>3, <1>4, TicksFinite, TotalGrows

-----------------------------------------------------------------------------
(* The window (ratelimit.go:57-70).                                        *)

\* Up to tick n, with a window of count c since w: the calls allowed in the window are
\* those counted, up to the limit; those of less than a second before it fit in one
\* window; none is allowed later than a second after its beginning, or than n.
Fits(f, n, w, c) ==
  /\ \A x \in 0..MaxTime : x > n \/ (rpsLimit > 0 /\ x >= w + Second) => f[x] = 0
  /\ rpsLimit > 0 =>
       /\ Total(f, Ticks(w, n)) = IF c <= rpsLimit THEN c ELSE rpsLimit
       /\ \A t \in Int : t > w - Second => Total(f, Ticks(t, w - 1)) =< rpsLimit
       /\ \A t \in Int : Total(f, Ticks(t, t + Second - 1)) =< 2 * rpsLimit

WindowInv == Fits(admitted, now, windowStart, windowCount)

LEMMA WindowInit == Init => WindowInv
<1> SUFFICES ASSUME Init PROVE WindowInv
  OBVIOUS
<1>1. admitted \in [0..MaxTime -> Nat] /\ \A x \in 0..MaxTime : admitted[x] = 0
  BY DEF Init
<1>2. \A t, u \in Int : Total(admitted, Ticks(t, u)) = 0
  BY <1>1, Nothing
<1>3. now = 0 /\ windowStart = 0 /\ windowCount = 0
  BY DEF Init
<1>4. \A t \in Int : t + Second - 1 \in Int
  BY LimitsAssumption
<1> QED
  BY <1>1, <1>2, <1>3, <1>4, LimitsAssumption DEF WindowInv, Fits

LEMMA WindowTick == TypeOK /\ WindowInv /\ Tick => WindowInv'
<1> SUFFICES ASSUME TypeOK, WindowInv, Tick PROVE WindowInv'
  OBVIOUS
<1>1. PICK f, n, w, c : f = admitted /\ n = now /\ w = windowStart /\ c = windowCount
  OBVIOUS
<1>2. n \in 0..MaxTime /\ n + 1 \in 0..MaxTime /\ w \in 0..n /\ f \in [0..MaxTime -> Nat] /\ c \in Nat
  BY <1>1, LimitsAssumption DEF Tick, TypeOK
<1>3. Fits(f, n, w, c)
  BY <1>1 DEF WindowInv
<1>4. Total(f, Ticks(w, n + 1)) = Total(f, Ticks(w, n))
  <2>1. Total(f, Ticks(w, n + 1)) = Total(f, Ticks(w, n)) + Total(f, Ticks(n + 1, n + 1))
    <3>1. w \in Int /\ n + 1 \in Int /\ w =< n + 1 /\ n + 1 =< (n + 1) + 1 /\ (n + 1) - 1 = n
      BY <1>2
    <3> QED
      BY <1>2, <3>1, Cut2
  <2>2. Total(f, Ticks(n + 1, n + 1)) = 0
    <3>1. \A x \in 0..MaxTime : x >= n + 1 /\ x =< n + 1 => f[x] = 0
      BY <1>2, <1>3 DEF Fits
    <3>2. n + 1 \in Int
      BY <1>2
    <3> QED
      BY <1>2, <3>1, <3>2, Nothing
  <2>3. Total(f, Ticks(w, n)) \in Nat
    BY <1>2, AdmittedNat
  <2> QED
    BY <2>1, <2>2, <2>3
<1>5. Fits(f, n + 1, w, c)
  BY <1>2, <1>3, <1>4 DEF Fits
<1> QED
  BY <1>1, <1>5 DEF WindowInv, Tick

\* A second that reaches into the window straddles at most this one and what came before.
LEMMA Straddles ==
  ASSUME NEW g \in [0..MaxTime -> Nat], NEW n \in Nat, NEW w \in 0..n, rpsLimit > 0,
         \A x \in 0..MaxTime : x > n => g[x] = 0,
         Total(g, Ticks(w, n)) =< rpsLimit,
         \A t \in Int : t > w - Second => Total(g, Ticks(t, w - 1)) =< rpsLimit,
         NEW t \in Int, n =< t + Second - 1
  PROVE  Total(g, Ticks(t, t + Second - 1)) =< 2 * rpsLimit
<1>1. PICK u : u = t + Second - 1
  OBVIOUS
<1>2. u \in Int /\ w \in Int /\ n =< u /\ w =< n /\ n \in Int /\ rpsLimit \in Nat
  BY <1>1, LimitsAssumption
<1>3. Total(g, Ticks(w, u)) =< rpsLimit
  <2>1. Total(g, Ticks(n + 1, u)) = 0
    <3>1. n + 1 \in Int /\ \A x \in 0..MaxTime : x >= n + 1 /\ x =< u => g[x] = 0
      OBVIOUS
    <3> QED
      BY <1>2, <3>1, Nothing
  <2>2. Total(g, Ticks(w, u)) = Total(g, Ticks(w, n)) + Total(g, Ticks(n + 1, u))
    <3>1. n + 1 \in Int /\ w =< n + 1 /\ n + 1 =< u + 1 /\ (n + 1) - 1 = n
      BY <1>2
    <3> QED
      BY <1>2, <3>1, Cut2
  <2>3. Total(g, Ticks(w, n)) \in Nat
    BY <1>2, AdmittedNat
  <2> QED
    BY <2>1, <2>2, <2>3
<1>4. CASE t >= w
  <2>1. Total(g, Ticks(t, u)) =< Total(g, Ticks(w, u))
    BY <1>2, <1>4, Within
  <2>2. Total(g, Ticks(t, u)) \in Nat /\ Total(g, Ticks(w, u)) \in Nat
    BY <1>2, AdmittedNat
  <2> QED
    BY <1>1, <1>2, <1>3, <2>1, <2>2
<1>5. CASE t < w
  <2>1. t > w - Second
    BY <1>1, <1>2, LimitsAssumption
  <2>2. Total(g, Ticks(t, w - 1)) =< rpsLimit
    BY <2>1
  <2>3. Total(g, Ticks(t, u)) = Total(g, Ticks(t, w - 1)) + Total(g, Ticks(w, u))
    <3>1. t =< w /\ w =< u + 1
      BY <1>2, <1>5
    <3> QED
      BY <1>2, <3>1, Cut2
  <2>4. Total(g, Ticks(t, w - 1)) \in Nat /\ Total(g, Ticks(w, u)) \in Nat
    <3>1. w - 1 \in Int
      BY <1>2
    <3> QED
      BY <1>2, <3>1, AdmittedNat
  <2> QED
    BY <1>1, <1>2, <1>3, <2>2, <2>3, <2>4
<1> QED
  BY <1>2, <1>4, <1>5

\* One call more at n keeps to the limits if the window has room for it.
Room(f, n, w, c) ==
  /\ n < w + Second
  /\ \A x \in 0..MaxTime : x > n \/ x >= w + Second => f[x] = 0
  /\ Total(f, Ticks(w, n)) = c - 1
  /\ \A t \in Int : t > w - Second => Total(f, Ticks(t, w - 1)) =< rpsLimit
  /\ \A t \in Int : Total(f, Ticks(t, t + Second - 1)) =< 2 * rpsLimit

LEMMA OneFits ==
  ASSUME NEW f \in [0..MaxTime -> Nat], NEW n \in 0..MaxTime, NEW w \in 0..n, NEW c \in 1..rpsLimit,
         NEW g, More(f, n, g),
         Room(f, n, w, c)
  PROVE  Fits(g, n, w, c)
<1>1. /\ n \in Nat /\ n \in Int /\ w \in Int /\ c \in Int /\ w =< n
      /\ rpsLimit > 0 /\ rpsLimit \in Nat /\ Second \in Nat
  BY LimitsAssumption
<1>2. g \in [0..MaxTime -> Nat] /\ \A x \in 0..MaxTime : x # n => g[x] = f[x]
  BY DEF More
<1>3. \A x \in 0..MaxTime : x > n \/ x >= w + Second => x # n
  BY <1>1 DEF Room
<1>4. \A x \in 0..MaxTime : x > n \/ x >= w + Second => g[x] = 0
  BY <1>2, <1>3 DEF Room
<1>5. Total(g, Ticks(w, n)) = c
  <2>1. Total(g, Ticks(w, n)) = Total(f, Ticks(w, n)) + 1
    BY <1>1, OneMore
  <2> QED
    BY <1>1, <2>1 DEF Room
<1>6. ASSUME NEW t \in Int, t > w - Second PROVE Total(g, Ticks(t, w - 1)) =< rpsLimit
  <2>1. w - 1 \in Int /\ \A x \in 0..MaxTime : x >= t /\ x =< w - 1 => x # n
    BY <1>1
  <2>2. \A x \in 0..MaxTime : x >= t /\ x =< w - 1 => g[x] = f[x]
    BY <1>2, <2>1
  <2>3. Total(g, Ticks(t, w - 1)) = Total(f, Ticks(t, w - 1))
    BY <2>1, <2>2, Alike
  <2> QED
    BY <1>6, <2>3 DEF Room
<1>7. ASSUME NEW t \in Int PROVE Total(g, Ticks(t, t + Second - 1)) =< 2 * rpsLimit
  <2>1. CASE n >= t /\ n =< t + Second - 1
    <3>1. Total(g, Ticks(w, n)) =< rpsLimit /\ \A x \in 0..MaxTime : x > n => g[x] = 0
      BY <1>1, <1>4, <1>5
    <3> QED
      BY <1>1, <1>2, <1>6, <2>1, <3>1, Straddles
  <2>2. CASE ~(n >= t /\ n =< t + Second - 1)
    <3>1. PICK u : u = t + Second - 1
      OBVIOUS
    <3>2. u \in Int /\ \A x \in 0..MaxTime : x >= t /\ x =< u => x # n
      BY <1>1, <2>2, <3>1
    <3>3. \A x \in 0..MaxTime : x >= t /\ x =< u => g[x] = f[x]
      BY <1>2, <3>2
    <3>4. Total(g, Ticks(t, u)) = Total(f, Ticks(t, u))
      BY <3>2, <3>3, Alike
    <3> QED
      BY <3>1, <3>4 DEF Room
  <2> QED
    BY <2>1, <2>2
<1> QED
  BY <1>1, <1>4, <1>5, <1>6, <1>7 DEF Fits

LEMMA WindowCheck ==
  ASSUME TypeOK, WindowInv, NEW r \in Request, CheckWindow(r)
  PROVE  WindowInv'
<1>1. PICK f, n, w, c : f = admitted /\ n = now /\ w = windowStart /\ c = windowCount
  OBVIOUS
<1>2. /\ n \in 0..MaxTime /\ w \in 0..n /\ c \in Nat /\ f \in [0..MaxTime -> Nat]
      /\ n \in Int /\ w \in Int /\ w =< n /\ rpsLimit \in Nat /\ Second \in Nat \ {0}
  BY <1>1, LimitsAssumption DEF TypeOK
<1>3. Fits(f, n, w, c) /\ now' = n
  BY <1>1 DEF WindowInv, CheckWindow
<1>4. PICK g : g = [f EXCEPT ![n] = @ + 1]
  OBVIOUS
<1>5. \A x \in 0..MaxTime : x # n => g[x] = f[x]
  BY <1>2, <1>4
<1>6. CASE rpsLimit = 0
  <2>1. admitted' = g /\ windowStart' = w /\ windowCount' = c
    BY <1>1, <1>4, <1>6 DEF CheckWindow
  <2>2. \A x \in 0..MaxTime : x > n => g[x] = 0
    BY <1>2, <1>3, <1>5 DEF Fits
  <2> QED
    BY <1>3, <1>6, <2>1, <2>2 DEF WindowInv, Fits
<1>7. CASE rpsLimit > 0 /\ n >= w + Second
  <2>1. windowStart' = n /\ windowCount' = 1
    BY <1>1, <1>2, <1>7 DEF CheckWindow, Expired, NextCount
  <2>2. admitted' = g
    BY <1>1, <1>2, <1>4, <1>7, <2>1 DEF CheckWindow
  <2>3. Total(f, Ticks(n, n)) = 0
    <3>1. \A x \in 0..MaxTime : x >= n /\ x =< n => f[x] = 0
      BY <1>2, <1>3, <1>7 DEF Fits
    <3> QED
      BY <1>2, <3>1, Nothing
  <2>4. ASSUME NEW t \in Int, t > n - Second PROVE Total(f, Ticks(t, n - 1)) =< rpsLimit
    <3>1. n - 1 \in Int /\ w =< t /\ n - 1 =< n
      BY <1>2, <1>7, <2>4
    <3>2. Total(f, Ticks(t, n - 1)) =< Total(f, Ticks(w, n))
      BY <1>2, <3>1, Within
    <3>3. Total(f, Ticks(w, n)) =< rpsLimit
      <4>1. Total(f, Ticks(w, n)) = IF c <= rpsLimit THEN c ELSE rpsLimit
        BY <1>3, <1>7 DEF Fits
      <4> QED
        BY <1>2, <4>1
    <3>4. Total(f, Ticks(t, n - 1)) \in Nat /\ Total(f, Ticks(w, n)) \in Nat
      BY <1>2, <3>1, AdmittedNat
    <3> QED
      BY <1>2, <3>2, <3>3, <3>4
  <2>5. Room(f, n, n, 1)
    <3>1. n < n + Second /\ \A x \in 0..MaxTime : x > n \/ x >= n + Second => x > n
      BY <1>2
    <3>2. \A x \in 0..MaxTime : x > n => f[x] = 0
      BY <1>3 DEF Fits
    <3>3. \A t \in Int : Total(f, Ticks(t, t + Second - 1)) =< 2 * rpsLimit
      BY <1>3, <1>7 DEF Fits
    <3> QED
      BY <2>3, <2>4, <3>1, <3>2, <3>3 DEF Room
  <2>6. Fits(g, n, n, 1)
    <3>1. n \in 0..n /\ 1 \in 1..rpsLimit
      BY <1>2, <1>7
    <3>2. More(f, n, g)
      BY <1>4 DEF More
    <3> QED
      BY <1>2, <2>5, <3>1, <3>2, OneFits
  <2> QED
    BY <1>3, <2>1, <2>2, <2>6 DEF WindowInv
<1>8. CASE rpsLimit > 0 /\ n < w + Second /\ c < rpsLimit
  <2>1. windowStart' = w /\ windowCount' = c + 1
    BY <1>1, <1>2, <1>8 DEF CheckWindow, Expired, NextCount
  <2>2. admitted' = g
    BY <1>1, <1>2, <1>4, <1>8, <2>1 DEF CheckWindow
  <2>3. Room(f, n, w, c + 1)
    <3>1. Total(f, Ticks(w, n)) = c /\ c = (c + 1) - 1
      BY <1>2, <1>3, <1>8 DEF Fits
    <3> QED
      BY <1>3, <1>8, <3>1 DEF Room, Fits
  <2>4. c + 1 \in 1..rpsLimit /\ More(f, n, g)
    BY <1>2, <1>4, <1>8 DEF More
  <2>5. Fits(g, n, w, c + 1)
    BY <1>2, <2>3, <2>4, OneFits
  <2> QED
    BY <1>3, <2>1, <2>2, <2>5 DEF WindowInv
<1>9. CASE rpsLimit > 0 /\ n < w + Second /\ c >= rpsLimit
  <2>1. windowStart' = w /\ windowCount' = c + 1
    BY <1>1, <1>2, <1>9 DEF CheckWindow, Expired, NextCount
  <2>2. admitted' = f
    BY <1>1, <1>2, <1>9, <2>1 DEF CheckWindow
  <2>3. Fits(f, n, w, c + 1)
    BY <1>2, <1>3, <1>9 DEF Fits
  <2> QED
    BY <1>3, <2>1, <2>2, <2>3 DEF WindowInv
<1> QED
  BY <1>2, <1>6, <1>7, <1>8, <1>9

\* Every call that the second check rejects finds a full window.
LEMMA RejectedFull ==
  ASSUME TypeOK, WindowInv, NEW r \in Request, CheckWindow(r), admitted' = admitted
  PROVE  Admitted(now - Second + 1, now) >= rpsLimit
<1>1. PICK f, n, w, c : f = admitted /\ n = now /\ w = windowStart /\ c = windowCount
  OBVIOUS
<1>2. /\ n \in 0..MaxTime /\ w \in 0..n /\ c \in Nat /\ f \in [0..MaxTime -> Nat]
      /\ n \in Int /\ w \in Int /\ rpsLimit \in Nat /\ Second \in Nat \ {0}
      /\ n - Second + 1 \in Int
  BY <1>1, LimitsAssumption DEF TypeOK
<1>3. Fits(f, n, w, c)
  BY <1>1 DEF WindowInv
<1>4. rpsLimit > 0 /\ windowCount' > rpsLimit
  <2>1. [f EXCEPT ![n] = @ + 1] # f
    BY <1>2
  <2> QED
    BY <1>1, <1>2, <2>1 DEF CheckWindow
<1>5. n - w < Second /\ c >= rpsLimit
  BY <1>1, <1>2, <1>4 DEF CheckWindow, Expired, NextCount
<1>6. Total(f, Ticks(w, n)) = rpsLimit
  BY <1>2, <1>3, <1>4, <1>5 DEF Fits
<1>7. Total(f, Ticks(w, n)) =< Total(f, Ticks(n - Second + 1, n))
  <2>1. n - Second + 1 =< w /\ n =< n
    BY <1>2, <1>5
  <2> QED
    BY <1>2, <2>1, Within
<1>8. Total(f, Ticks(n - Second + 1, n)) \in Nat
  BY <1>2, AdmittedNat
<1> QED
  BY <1>1, <1>2, <1>6, <1>7, <1>8, AdmittedIsTotal

-----------------------------------------------------------------------------
(* The totals (metrics.go).                                                *)

Recording == {r \in Request : step[r] # "idle"}

\* A goroutine records a command, and each Record that is not under way has counted one.
TotalsInv ==
  /\ totalRequests = Total(byCommand, Command) + Cardinality(Recording)
  /\ \A r \in Request : step[r] # "idle" => command[r] \in Command

LEMMA TotalsAre ==
  ASSUME CountersOK
  PROVE  TotalsAgree <=> totalRequests = Total(byCommand, Command) + Cardinality(Recording)
<1>1. DOMAIN byCommand = Command
  BY DEF CountersOK, M!TypeOK
<1>2. SumFunction(byCommand) = Total(byCommand, Command)
  BY <1>1, SumFn
<1>3. M!SumFunction(byCommand) = SumFunction(byCommand)
  BY DEF M!SumFunction, SumFunction, M!SumFunctionOnSet, SumFunctionOnSet, M!FoldFunctionOnSet, FoldFunctionOnSet,
     M!MapThenFoldSet, MapThenFoldSet
<1>4. M!Cardinality(Recording) = Cardinality(Recording)
  BY DEF M!Cardinality, Cardinality, M!IsFiniteSet, IsFiniteSet
<1> QED
  BY <1>2, <1>3, <1>4 DEF TotalsAgree, M!TotalsAgree, Recording

LEMMA RecordingFinite == IsFiniteSet(Recording) /\ Cardinality(Recording) \in Nat
  BY LimitsAssumption, FS_Subset, FS_CardinalityType DEF Recording

LEMMA TotalsStep ==
  ASSUME CountersOK, CountersOK', TotalsInv, NEW r \in Request,
         (\E c \in Command : M!Begin(r, c)) \/ M!ReadDay(r) \/ M!Count(r)
  PROVE  TotalsInv'
<1> USE DEF CountersOK, M!TypeOK
<1>1. totalRequests = Total(byCommand, Command) + Cardinality(Recording)
  BY DEF TotalsInv
<1>2. SUFFICES totalRequests' = Total(byCommand', Command) + Cardinality(Recording')
               /\ \A q \in Request : step'[q] # "idle" => command'[q] \in Command
  BY DEF TotalsInv
<1>3. ASSUME NEW c \in Command, M!Begin(r, c)
      PROVE  totalRequests' = Total(byCommand', Command) + Cardinality(Recording')
             /\ \A q \in Request : step'[q] # "idle" => command'[q] \in Command
  <2>1. Recording' = Recording \cup {r} /\ r \notin Recording
    BY <1>3 DEF M!Begin, Recording
  <2>2. Cardinality(Recording') = Cardinality(Recording) + 1
    BY <2>1, RecordingFinite, FS_AddElement
  <2>3. totalRequests' = totalRequests + 1 /\ byCommand' = byCommand
    BY <1>3 DEF M!Begin
  <2>4. \A q \in Request : step'[q] # "idle" => command'[q] \in Command
    BY <1>3 DEF M!Begin, TotalsInv
  <2>5. Total(byCommand, Command) \in Nat
    BY CommandsAssumption, TotalTakes
  <2> QED
    BY <1>1, <2>2, <2>3, <2>4, <2>5, RecordingFinite
<1>4. CASE M!ReadDay(r)
  <2>1. Recording' = Recording /\ \A q \in Request : step'[q] # "idle" => step[q] # "idle"
    BY <1>4 DEF M!ReadDay, Recording
  <2> QED
    BY <1>1, <1>4, <2>1 DEF M!ReadDay, TotalsInv
<1>5. CASE M!Count(r)
  <2>1. Recording' = Recording \ {r} /\ r \in Recording
    BY <1>5 DEF M!Count, Recording
  <2>2. Cardinality(Recording') = Cardinality(Recording) - 1
    BY <2>1, RecordingFinite, FS_RemoveElement
  <2>3. PICK c \in Command : c = command[r]
    BY <1>5 DEF M!Count, TotalsInv
  <2>4. byCommand' = [byCommand EXCEPT ![c] = @ + 1] /\ totalRequests' = totalRequests
    BY <1>5, <2>3, Zenon DEF M!Count, M!Counted
  <2>5. Total(byCommand', Command) = Total(byCommand, Command) + 1
    <3>1. PICK f, g : f = byCommand /\ g = byCommand'
      OBVIOUS
    <3>2. /\ \A b \in Command : f[b] \in Nat
          /\ g[c] = f[c] + 1 /\ \A b \in Command \ {c} : g[b] = f[b]
      BY <2>4, <3>1
    <3>3. Total(g, Command) = Total(f, Command) + 1
      BY <3>2, CommandsAssumption, TotalGrows
    <3> QED
      BY <3>1, <3>3
  <2>6. \A q \in Request : step'[q] # "idle" => command'[q] \in Command
    BY <1>5 DEF M!Count, TotalsInv
  <2>7. Total(byCommand, Command) \in Nat
    BY CommandsAssumption, TotalTakes
  <2> QED
    BY <1>1, <2>2, <2>4, <2>5, <2>6, <2>7, RecordingFinite
<1> QED
  BY <1>3, <1>4, <1>5

-----------------------------------------------------------------------------
(* The path of a request: the types, the quota and the days.               *)

\* The quota's counter says how many calls passed it, however the goroutines
\* interleave: all of them up to the limit, and then no more.
QuotaCounted ==
  quotaLimit > 0 =>
    /\ passed = IF requestCount <= quotaLimit THEN requestCount ELSE quotaLimit
    /\ overQuota > 0 => requestCount > quotaLimit

AInv == CountersOK /\ QuotaCounted /\ NoOvercount

USE LimitsAssumption, CommandsAssumption

LEMMA InitAInv == AdmissionInit => AInv
  BY DEF AdmissionInit, Init, M!Init, AInv, CountersOK, TypeOK, M!TypeOK, QuotaCounted,
         NoOvercount, M!NoOvercount

\* Steps of the limiter leave the metrics alone, and the other way round.
LEMMA LimiterStep ==
  ASSUME AInv, NEW r \in Request, CountQuota(r) \/ CheckWindow(r)
  PROVE  TypeOK' /\ QuotaCounted'
<1> USE DEF AInv, CountersOK, TypeOK, QuotaCounted
<1>1. CASE CountQuota(r)
  <2>1. calls' \in 0..MaxRequests /\ requestCount' \in Nat /\ passed' \in Nat /\ overQuota' \in Nat
    BY <1>1 DEF CountQuota
  <2>2. pc' \in [Request -> {"idle", "window"}]
    BY <1>1 DEF CountQuota
  <2>3. QuotaCounted'
    BY <1>1 DEF CountQuota, IsOverQuota
  <2> QED
    BY <1>1, <2>1, <2>2, <2>3 DEF CountQuota
<1>2. CASE CheckWindow(r)
  <2>1. windowStart' \in 0..now' /\ windowCount' \in Nat
    BY <1>2 DEF CheckWindow, Expired, NextCount
  <2>2. admitted' \in [0..MaxTime -> Nat]
    BY <1>2 DEF CheckWindow
  <2> QED
    BY <1>2, <2>1, <2>2 DEF CheckWindow
<1> QED
  BY <1>1, <1>2

LEMMA LimiterTick == AInv /\ Tick => TypeOK' /\ QuotaCounted'
  BY DEF AInv, CountersOK, TypeOK, QuotaCounted, Tick

LEMMA MetricsStep ==
  ASSUME AInv, NEW r \in Request,
         (\E c \in Command : M!Begin(r, c)) \/ M!ReadDay(r) \/ M!Count(r)
  PROVE  (M!TypeOK)' /\ NoOvercount'
<1> USE DEF AInv, CountersOK, M!TypeOK, NoOvercount, M!NoOvercount
<1>1. ASSUME NEW c \in Command, M!Begin(r, c) PROVE (M!TypeOK)' /\ NoOvercount'
  BY <1>1 DEF M!Begin
<1>2. CASE M!ReadDay(r)
  BY <1>2 DEF M!ReadDay
<1>3. CASE M!Count(r)
  <2>1. byCommand' \in [Command -> Nat]
    <3>1. byCommand' = [b \in Command |-> IF b = command[r] THEN byCommand[b] + 1 ELSE byCommand[b]]
      BY <1>3, Zenon DEF M!Count, M!Counted
    <3> QED
      BY <3>1
  <2>2. todayCount' \in Nat /\ todayCount' <= recordedFor'[today']
    BY <1>3 DEF M!Count, M!CountOn
  <2>3. recordedFor' \in [0..MaxDay -> Nat] /\ day[r] \in 0..MaxDay
    BY <1>3 DEF M!Count
  <2>4. /\ step' \in [Request -> {"idle", "day", "lock"}]
        /\ command' \in [Request -> Command \cup {None}]
    BY <1>3 DEF M!Count
  <2>5. UNCHANGED <<clock, totalRequests, day>> /\ today' = day[r]
    BY <1>3 DEF M!Count
  <2> QED
    BY <2>1, <2>2, <2>3, <2>4, <2>5
<1> QED
  BY <1>1, <1>2, <1>3

LEMMA MidnightStep == AInv /\ M!Midnight => (M!TypeOK)' /\ NoOvercount'
  BY DEF AInv, CountersOK, M!TypeOK, NoOvercount, M!NoOvercount, M!Midnight

\* The inductive invariant of the request path (rest.go, ratelimit.go, metrics.go).
THEOREM AdmissionInductive == AdmissionSpec => []AInv
<1>1. AInv /\ [AdmissionNext]_admission => AInv'
  <2> SUFFICES ASSUME AInv, [AdmissionNext]_admission PROVE AInv'
    OBVIOUS
  <2> USE DEF AInv, CountersOK
  <2>1. ASSUME NEW r \in Request, Arrive(r) PROVE AInv'
    <3>1. TypeOK' /\ QuotaCounted'
      BY <2>1, LimiterStep DEF Arrive
    <3> QED
      BY <2>1, <3>1 DEF Arrive, counters, M!TypeOK, NoOvercount, M!NoOvercount
  <2>2. ASSUME NEW r \in Request, Admit(r) PROVE AInv'
    <3>1. TypeOK' /\ QuotaCounted'
      BY <2>2, LimiterStep DEF Admit
    <3>2. todo' \in [Request -> Seq(Command)]
      BY <2>2 DEF Admit
    <3> QED
      BY <2>2, <3>1, <3>2 DEF Admit, counters, M!TypeOK, NoOvercount, M!NoOvercount
  <2>3. ASSUME NEW r \in Request, Count(r) PROVE AInv'
    <3>1. TypeOK' /\ QuotaCounted'
      BY <2>3 DEF Count, vars, TypeOK, QuotaCounted
    <3>2. CASE todo[r] # <<>> /\ M!Begin(r, Head(todo[r])) /\ todo' = [todo EXCEPT ![r] = Tail(@)]
      <4>1. Head(todo[r]) \in Command /\ Tail(todo[r]) \in Seq(Command)
        BY <3>2
      <4>2. (M!TypeOK)' /\ NoOvercount'
        BY <3>2, <4>1, MetricsStep
      <4> QED
        BY <3>1, <3>2, <4>1, <4>2
    <3>3. CASE (M!ReadDay(r) \/ M!Count(r)) /\ UNCHANGED todo
      <4>1. (M!TypeOK)' /\ NoOvercount'
        BY <3>3, MetricsStep
      <4> QED
        BY <3>1, <3>3, <4>1
    <3> QED
      BY <2>3, <3>2, <3>3 DEF Count
  <2>4. CASE Pass
    <3>1. CASE Tick /\ UNCHANGED <<counters, todo>>
      <4>1. TypeOK' /\ QuotaCounted'
        BY <3>1, LimiterTick
      <4> QED
        BY <3>1, <4>1 DEF counters, M!TypeOK, NoOvercount, M!NoOvercount
    <3>2. CASE M!Midnight /\ UNCHANGED <<vars, todo>>
      <4>1. (M!TypeOK)' /\ NoOvercount'
        BY <3>2, MidnightStep
      <4> QED
        BY <3>2, <4>1 DEF vars, TypeOK, QuotaCounted
    <3> QED
      BY <2>4, <3>1, <3>2 DEF Pass
  <2>5. CASE UNCHANGED admission
    BY <2>5 DEF admission, vars, counters, TypeOK, M!TypeOK, QuotaCounted, NoOvercount, M!NoOvercount
  <2> QED
    BY <2>1, <2>2, <2>3, <2>4, <2>5 DEF AdmissionNext
<1> QED
  BY InitAInv, <1>1, PTL DEF AdmissionSpec

\* Every counter and every goroutine's state keeps its type (ratelimit.go, metrics.go).
THEOREM CountersTyped == AdmissionSpec => []CountersOK
<1>1. AInv => CountersOK
  BY DEF AInv
<1> QED
  BY <1>1, AdmissionInductive, PTL

\* However many goroutines are in Allow, exactly quotaLimit calls pass before the
\* first is rejected (ratelimit.go:50-55).
THEOREM QuotaIsExact == AdmissionSpec => []QuotaExact
<1>1. AInv => QuotaExact
  BY DEF AInv, CountersOK, TypeOK, QuotaCounted, QuotaExact
<1> QED
  BY <1>1, AdmissionInductive, PTL

\* No interleaving around midnight counts a request for a day it was not of
\* (metrics.go:36-46).
THEOREM NoDayOvercounted == AdmissionSpec => []NoOvercount
<1>1. AInv => NoOvercount
  BY DEF AInv
<1> QED
  BY <1>1, AdmissionInductive, PTL

-----------------------------------------------------------------------------
(* The window and the totals on the path of a request.                     *)

LEMMA WindowKept ==
  ASSUME WindowInv, UNCHANGED <<admitted, now, windowStart, windowCount>>
  PROVE  WindowInv'
  BY DEF WindowInv

\* What a window and a second may admit, in every state (ratelimit.go:57-70).
THEOREM WindowInductive == AdmissionSpec => []WindowInv
<1>1. AdmissionInit => WindowInv
  BY WindowInit DEF AdmissionInit
<1>2. TypeOK /\ WindowInv /\ [AdmissionNext]_admission => WindowInv'
  <2> SUFFICES ASSUME TypeOK, WindowInv, [AdmissionNext]_admission PROVE WindowInv'
    OBVIOUS
  <2>1. ASSUME NEW r \in Request, Arrive(r) PROVE WindowInv'
    BY <2>1, WindowKept DEF Arrive, CountQuota
  <2>2. ASSUME NEW r \in Request, Admit(r) PROVE WindowInv'
    BY <2>2, WindowCheck DEF Admit
  <2>3. ASSUME NEW r \in Request, Count(r) PROVE WindowInv'
    BY <2>3, WindowKept DEF Count, vars
  <2>4. CASE Pass
    <3>1. CASE Tick /\ UNCHANGED <<counters, todo>>
      BY <3>1, WindowTick
    <3>2. CASE M!Midnight /\ UNCHANGED <<vars, todo>>
      BY <3>2, WindowKept DEF vars
    <3> QED
      BY <2>4, <3>1, <3>2 DEF Pass
  <2>5. CASE UNCHANGED admission
    BY <2>5, WindowKept DEF admission, vars
  <2> QED
    BY <2>1, <2>2, <2>3, <2>4, <2>5 DEF AdmissionNext
<1>3. CountersOK => TypeOK
  BY DEF CountersOK
<1> QED
  BY <1>1, <1>2, <1>3, CountersTyped, PTL DEF AdmissionSpec

\* No window admits more than rpsLimit calls, and no second, wherever it begins, more
\* than twice as many (ratelimit.go:57-70).
THEOREM BurstsAreBounded == AdmissionSpec => []BurstBounded
<1>1. TypeOK /\ WindowInv => BurstBounded
  <2> SUFFICES ASSUME TypeOK, WindowInv, rpsLimit > 0 PROVE BurstBounded
    BY DEF BurstBounded
  <2>1. Fits(admitted, now, windowStart, windowCount)
    BY DEF WindowInv
  <2>2. windowCount \in Nat /\ \A t \in 0..now : t \in Int
    BY DEF TypeOK
  <2>3. Total(admitted, Ticks(windowStart, now)) =< rpsLimit
    <3>1. Total(admitted, Ticks(windowStart, now)) = IF windowCount <= rpsLimit THEN windowCount ELSE rpsLimit
      BY <2>1 DEF Fits
    <3> QED
      BY <2>2, <3>1, LimitsAssumption
  <2>4. \A t \in 0..now : Total(admitted, Ticks(t, t + Second - 1)) =< 2 * rpsLimit
    BY <2>1, <2>2 DEF Fits
  <2> QED
    BY <2>3, <2>4, AdmittedIsTotal DEF BurstBounded
<1>2. CountersOK => TypeOK
  BY DEF CountersOK
<1> QED
  BY <1>1, <1>2, WindowInductive, CountersTyped, PTL

\* No step rejects a call for its rate unless the last second admitted rpsLimit of them
\* (ratelimit.go:60-69).
THEOREM RejectedOnlyWhenFull == AdmissionSpec => RejectedWhenFull
<1>1. ASSUME TypeOK, WindowInv, [AdmissionNext]_admission, NEW r \in Request,
             pc[r] = "window", pc'[r] = "idle", admitted' = admitted
      PROVE  Admitted(now - Second + 1, now) >= rpsLimit
  <2>1. ASSUME NEW q \in Request, Arrive(q) PROVE FALSE
    <3>1. pc[q] = "idle" /\ (pc' = pc \/ pc' = [pc EXCEPT ![q] = "window"])
      BY <2>1 DEF Arrive, CountQuota
    <3> QED
      BY <1>1, <3>1 DEF TypeOK
  <2>2. ASSUME NEW q \in Request, Admit(q) PROVE CheckWindow(r)
    <3>1. CheckWindow(q) /\ pc' = [pc EXCEPT ![q] = "idle"]
      BY <2>2 DEF Admit, CheckWindow
    <3>2. q = r
      BY <1>1, <3>1 DEF TypeOK
    <3> QED
      BY <3>1, <3>2
  <2>3. ASSUME NEW q \in Request, Count(q) PROVE FALSE
    BY <1>1, <2>3 DEF Count, vars
  <2>4. CASE Pass
    BY <1>1, <2>4 DEF Pass, Tick, vars
  <2>5. CASE UNCHANGED admission
    BY <1>1, <2>5 DEF admission, vars
  <2> QED
    BY <1>1, <2>1, <2>2, <2>3, <2>4, <2>5, RejectedFull DEF AdmissionNext
<1>2. TypeOK /\ WindowInv /\ [AdmissionNext]_admission =>
        [\A r \in Request :
           pc[r] = "window" /\ pc'[r] = "idle" /\ admitted' = admitted =>
             Admitted(now - Second + 1, now) >= rpsLimit]_vars
  BY <1>1
<1>3. CountersOK => TypeOK
  BY DEF CountersOK
<1> QED
  BY <1>2, <1>3, WindowInductive, CountersTyped, PTL DEF AdmissionSpec, RejectedWhenFull

\* What every command's counter and the calls under way add up to (metrics.go:32-56).
THEOREM TotalsInductive == AdmissionSpec => []TotalsInv
<1>1. AdmissionInit => TotalsInv
  <2> SUFFICES ASSUME AdmissionInit PROVE TotalsInv
    OBVIOUS
  <2>1. totalRequests = 0 /\ (\A c \in Command : byCommand[c] = 0) /\ Recording = {}
    BY DEF AdmissionInit, M!Init, Recording
  <2>2. Total(byCommand, Command) = 0
    BY <2>1, CommandsAssumption, TotalNone
  <2>3. Cardinality(Recording) = 0
    BY <2>1, FS_EmptySet
  <2> QED
    BY <2>1, <2>2, <2>3 DEF TotalsInv, Recording
<1>2. CountersOK /\ CountersOK' /\ TotalsInv /\ [AdmissionNext]_admission => TotalsInv'
  <2> SUFFICES ASSUME CountersOK, CountersOK', TotalsInv, [AdmissionNext]_admission PROVE TotalsInv'
    OBVIOUS
  <2>1. ASSUME UNCHANGED counters PROVE TotalsInv'
    BY <2>1 DEF counters, TotalsInv, Recording
  <2>2. ASSUME NEW r \in Request, Arrive(r) \/ Admit(r) PROVE TotalsInv'
    BY <2>1, <2>2 DEF Arrive, Admit
  <2>3. ASSUME NEW r \in Request, Count(r) PROVE TotalsInv'
    <3>1. CASE todo[r] # <<>> /\ M!Begin(r, Head(todo[r]))
      <4>1. Head(todo[r]) \in Command
        BY <3>1 DEF CountersOK
      <4> QED
        BY <3>1, <4>1, TotalsStep
    <3> QED
      BY <2>3, <3>1, TotalsStep DEF Count
  <2>4. CASE Pass
    <3>1. CASE Tick /\ UNCHANGED <<counters, todo>>
      BY <2>1, <3>1
    <3>2. CASE M!Midnight
      BY <3>2 DEF M!Midnight, TotalsInv, Recording
    <3> QED
      BY <2>4, <3>1, <3>2 DEF Pass
  <2>5. CASE UNCHANGED admission
    BY <2>1, <2>5 DEF admission
  <2> QED
    BY <2>2, <2>3, <2>4, <2>5 DEF AdmissionNext
<1> QED
  BY <1>1, <1>2, CountersTyped, PTL DEF AdmissionSpec

\* The total is what the commands add up to, but for the calls under way
\* (metrics.go:32-56).
THEOREM TotalsDoAgree == AdmissionSpec => []TotalsAgree
<1>1. CountersOK /\ TotalsInv => TotalsAgree
  BY TotalsAre DEF TotalsInv
<1> QED
  BY <1>1, TotalsInductive, CountersTyped, PTL
=============================================================================
