--------------------------- MODULE AiCreditsProofs ---------------------------
(***************************************************************************)
(* Proofs about AiCredits for every set of actors, bookings and grants,     *)
(* every price, quota and allowance and every waiting time: types, limits,  *)
(* the finality of bookings and of expiry, the credit contract, and the     *)
(* balance of both books with what follows from it.  Total is a fold, so    *)
(* the module opens with what a sum over a finite set is.                   *)
(***************************************************************************)
EXTENDS AiCredits, FiniteSetTheorems, TLAPS

-----------------------------------------------------------------------------
(* Sums over finite sets. *)

\* The element the fold takes next, and the equation its recursive function solves.
First(s) == CHOOSE x \in s : TRUE
StepOf(g, f, s) == IF s = {} THEN 0 ELSE f[First(s)] + g[s \ {First(s)}]
IsSum(g, f, S) == g = [s \in SUBSET S |-> StepOf(g, f, s)]

\* Induction over the naturals, stated for a set: the library's induction theorems
\* take an operator as parameter, its least-element theorem takes sets.
LEMMA CountingUp ==
    ASSUME NEW P \in SUBSET Nat, 0 \in P, \A n \in P : n + 1 \in P
    PROVE  Nat \subseteq P
<1> SUFFICES ASSUME Nat \ P # {} PROVE FALSE
  OBVIOUS
<1> DEFINE Q == Nat \ P
<1>1. PICK n \in Q : \A m \in Q : <<m, n>> \notin OpToRel(<, Nat)
  BY NatLessThanWellFounded, WFMin, Q \subseteq Nat, Zenon
<1>2. n \in Nat /\ n # 0
  OBVIOUS
<1>3. n - 1 \in Nat /\ n - 1 < n
  BY <1>2
<1>4. <<n - 1, n>> \in OpToRel(<, Nat)
  BY <1>2, <1>3, SMT DEF OpToRel
<1>5. n - 1 \in P
  BY <1>1, <1>3, <1>4
<1>6. n \in P
  BY <1>2, <1>3, <1>5
<1> QED BY <1>6

\* Subsets of a finite set, and what taking the next element leaves of them.
LEMMA FirstRemoved ==
    ASSUME NEW S, IsFiniteSet(S), NEW s \in SUBSET S
    PROVE  /\ IsFiniteSet(s) /\ Cardinality(s) \in Nat /\ Cardinality(s) <= Cardinality(S)
           /\ s # {} => /\ First(s) \in s
                        /\ s \ {First(s)} \in SUBSET S
                        /\ Cardinality(s \ {First(s)}) = Cardinality(s) - 1
           /\ Cardinality(s) = 0 <=> s = {}
BY FS_Subset, FS_CardinalityType, FS_RemoveElement, FS_EmptySet DEF First

\* One step of the fold yields a number.
LEMMA StepType ==
    ASSUME NEW S, IsFiniteSet(S), NEW f, \A x \in S : f[x] \in Int,
           NEW g \in [SUBSET S -> Int], NEW s \in SUBSET S
    PROVE  StepOf(g, f, s) \in Int
<1>1. CASE s = {}
  BY <1>1 DEF StepOf
<1>2. CASE s # {}
  <2>1. First(s) \in s /\ s \ {First(s)} \in SUBSET S
    BY <1>2, FirstRemoved
  <2> QED BY <1>2, <2>1 DEF StepOf
<1> QED BY <1>1, <1>2

\* The recursive function exists: by induction on the size of the sets it is right for.
LEMMA SumsExist ==
    ASSUME NEW S, IsFiniteSet(S), NEW f, \A x \in S : f[x] \in Int
    PROVE  \E g \in [SUBSET S -> Int] : IsSum(g, f, S)
<1> DEFINE Good(g, n) == \A s \in SUBSET S : Cardinality(s) <= n => g[s] = StepOf(g, f, s)
           P == {n \in Nat : \E g \in [SUBSET S -> Int] : Good(g, n)}
<1>1. 0 \in P
  <2> DEFINE z == [s \in SUBSET S |-> 0]
  <2>1. z \in [SUBSET S -> Int] OBVIOUS
  <2>2. ASSUME NEW s \in SUBSET S, Cardinality(s) <= 0 PROVE z[s] = StepOf(z, f, s)
    <3>1. Cardinality(s) \in Nat /\ (Cardinality(s) = 0 <=> s = {})
      BY FirstRemoved
    <3>2. s = {}
      BY <2>2, <3>1
    <3> QED BY <3>2 DEF StepOf
  <2> QED BY <2>1, <2>2
<1>2. ASSUME NEW n \in P PROVE n + 1 \in P
  <2>1. PICK g \in [SUBSET S -> Int] : Good(g, n)
    OBVIOUS
  <2> DEFINE h == [s \in SUBSET S |-> StepOf(g, f, s)]
  <2>2. h \in [SUBSET S -> Int]
    BY StepType
  <2>3. ASSUME NEW s \in SUBSET S, Cardinality(s) <= n + 1 PROVE h[s] = StepOf(h, f, s)
    <3>1. CASE s = {}
      BY <3>1 DEF StepOf
    <3>2. CASE s # {}
      <4> DEFINE r == s \ {First(s)}
      <4>1. r \in SUBSET S /\ Cardinality(r) <= n
        BY FirstRemoved, <2>3, <3>2
      <4>2. g[r] = h[r]
        BY <2>1, <4>1
      <4>3. h[s] = f[First(s)] + g[r]
        BY <3>2 DEF StepOf
      <4>4. StepOf(h, f, s) = f[First(s)] + h[r]
        BY <3>2 DEF StepOf
      <4> QED BY <4>2, <4>3, <4>4
    <3> QED BY <3>1, <3>2
  <2>4. Good(h, n + 1)
    BY <2>3
  <2>5. \E k \in [SUBSET S -> Int] : Good(k, n + 1)
    <3> HIDE DEF h, Good
    <3> QED BY <2>2, <2>4
  <2>6. n + 1 \in Nat
    OBVIOUS
  <2> QED BY <2>5, <2>6
<1>3. Cardinality(S) \in P
  <2>1. P \subseteq Nat
    OBVIOUS
  <2> HIDE DEF P
  <2>2. Nat \subseteq P
    BY <1>1, <1>2, <2>1, CountingUp
  <2> QED BY <2>2, FirstRemoved
<1>4. PICK g \in [SUBSET S -> Int] : Good(g, Cardinality(S))
  BY <1>3
<1>5. IsSum(g, f, S)
  BY <1>4, FirstRemoved DEF IsSum
<1> QED BY <1>5

\* Its value at a set.
LEMMA SumAt ==
    ASSUME NEW S, NEW f, NEW g, IsSum(g, f, S), NEW s \in SUBSET S
    PROVE  g[s] = StepOf(g, f, s)
<1> DEFINE h == [t \in SUBSET S |-> StepOf(g, f, t)]
<1>1. g = h
  BY DEF IsSum
<1>2. h[s] = StepOf(g, f, s)
  OBVIOUS
<1> HIDE DEF h
<1> QED BY <1>1, <1>2

\* There is only one such function, whatever set it is defined on.
LEMMA SumsAgree ==
    ASSUME NEW S, IsFiniteSet(S), NEW T \in SUBSET S, NEW f, \A x \in S : f[x] \in Int,
           NEW g, IsSum(g, f, S), NEW h, IsSum(h, f, T)
    PROVE  \A s \in SUBSET T : g[s] = h[s]
<1> DEFINE P == {n \in Nat : \A s \in SUBSET T : Cardinality(s) = n => g[s] = h[s]}
<1>1. 0 \in P
  <2> SUFFICES ASSUME NEW s \in SUBSET T, Cardinality(s) = 0 PROVE g[s] = h[s]
    OBVIOUS
  <2>1. s = {} /\ s \in SUBSET S
    BY FirstRemoved
  <2> QED BY <2>1, SumAt DEF StepOf
<1>2. ASSUME NEW n \in P PROVE n + 1 \in P
  <2> SUFFICES ASSUME NEW s \in SUBSET T, Cardinality(s) = n + 1 PROVE g[s] = h[s]
    OBVIOUS
  <2> DEFINE r == s \ {First(s)}
  <2>1. s # {} /\ r \in SUBSET T /\ r \in SUBSET S /\ Cardinality(r) = n
    BY FirstRemoved
  <2>2. g[r] = h[r]
    BY <2>1
  <2>3. g[s] = StepOf(g, f, s) /\ h[s] = StepOf(h, f, s)
    BY SumAt
  <2> QED BY <2>1, <2>2, <2>3 DEF StepOf
<1>3. Nat \subseteq P
  <2>1. P \subseteq Nat
    OBVIOUS
  <2> HIDE DEF P
  <2> QED BY <1>1, <1>2, <2>1, CountingUp
<1> QED BY <1>3, FirstRemoved

\* Total is the value of that function.
LEMMA TotalIsSum ==
    ASSUME NEW S, IsFiniteSet(S), NEW f, \A x \in S : f[x] \in Int
    PROVE  \E g \in [SUBSET S -> Int] : IsSum(g, f, S) /\ Total(f, S) = g[S]
<1>1. Total(f, S) = (CHOOSE g : IsSum(g, f, S))[S]
  BY DEF Total, MapThenSumSet, MapThenFoldSet, First, IsSum, StepOf
<1>2. IsSum(CHOOSE g : IsSum(g, f, S), f, S)
  BY SumsExist
<1>3. PICK g \in [SUBSET S -> Int] : IsSum(g, f, S)
  BY SumsExist
<1>4. (CHOOSE h : IsSum(h, f, S))[S] = g[S]
  BY <1>2, <1>3, SumsAgree
<1> QED BY <1>1, <1>3, <1>4

\* Nothing adds up to zero.
LEMMA TotalEmpty == ASSUME NEW f PROVE Total(f, {}) = 0
BY TotalIsSum, FS_EmptySet DEF IsSum, StepOf

\* A sum of integers is an integer.
LEMMA TotalType ==
    ASSUME NEW S, IsFiniteSet(S), NEW f, \A x \in S : f[x] \in Int
    PROVE  Total(f, S) \in Int
<1>1. PICK g \in [SUBSET S -> Int] : Total(f, S) = g[S]
  BY TotalIsSum
<1> QED BY <1>1

\* A sum without the element the fold takes first.
LEMMA TotalFirst ==
    ASSUME NEW S, IsFiniteSet(S), S # {}, NEW f, \A x \in S : f[x] \in Int
    PROVE  First(S) \in S /\ Total(f, S) = f[First(S)] + Total(f, S \ {First(S)})
<1> DEFINE T == S \ {First(S)}
<1>1. First(S) \in S /\ IsFiniteSet(T) /\ T \in SUBSET S
  BY FS_RemoveElement DEF First
<1>2. PICK g \in [SUBSET S -> Int] : IsSum(g, f, S) /\ Total(f, S) = g[S]
  BY TotalIsSum
<1>3. PICK h \in [SUBSET T -> Int] : IsSum(h, f, T) /\ Total(f, T) = h[T]
  BY TotalIsSum, <1>1
<1>4. g[T] = h[T]
  BY <1>1, <1>2, <1>3, SumsAgree
<1>5. g[S] = f[First(S)] + g[T]
  BY <1>2 DEF IsSum, StepOf
<1> QED BY <1>1, <1>2, <1>3, <1>4, <1>5

\* A sum without any one of its elements: the order of the fold does not matter.
LEMMA TotalRemove ==
    ASSUME NEW S, IsFiniteSet(S), NEW f, \A x \in S : f[x] \in Int, NEW x \in S
    PROVE  Total(f, S) = f[x] + Total(f, S \ {x})
<1> DEFINE P == {n \in Nat : \A T \in SUBSET S : Cardinality(T) = n =>
                    \A y \in T : Total(f, T) = f[y] + Total(f, T \ {y})}
<1>1. 0 \in P
  BY FirstRemoved
<1>2. ASSUME NEW n \in P PROVE n + 1 \in P
  <2> SUFFICES ASSUME NEW T \in SUBSET S, Cardinality(T) = n + 1, NEW y \in T
               PROVE  Total(f, T) = f[y] + Total(f, T \ {y})
    OBVIOUS
  <2> DEFINE z == First(T)
             Y == T \ {y}
             Z == T \ {z}
             R == T \ {y, z}
  <2>1. IsFiniteSet(T) /\ T # {}
    BY FirstRemoved
  <2>2. z \in T /\ Total(f, T) = f[z] + Total(f, Z)
    BY <2>1, TotalFirst
  <2>3. CASE y = z
    BY <2>2, <2>3
  <2>4. CASE y # z
    <3>1. Cardinality(Y) = n /\ Cardinality(Z) = n /\ Y \in SUBSET S /\ Z \in SUBSET S
      <4>1. Cardinality(Y) = (n + 1) - 1 /\ Cardinality(Z) = (n + 1) - 1
        BY <2>1, <2>2, FS_RemoveElement, Zenon
      <4> QED BY <4>1
    <3>2. Y \ {z} = R /\ Z \ {y} = R /\ z \in Y /\ y \in Z
      BY <2>2, <2>4
    <3>3. Total(f, Z) = f[y] + Total(f, R) /\ Total(f, Y) = f[z] + Total(f, R)
      BY <3>1, <3>2
    <3>4. IsFiniteSet(R) /\ Total(f, R) \in Int /\ f[y] \in Int /\ f[z] \in Int
      BY FS_Subset, TotalType, <2>2
    <3> QED BY <2>2, <3>3, <3>4
  <2> QED BY <2>3, <2>4
<1>3. Nat \subseteq P
  <2>1. P \subseteq Nat
    OBVIOUS
  <2> HIDE DEF P
  <2> QED BY <1>1, <1>2, <2>1, CountingUp
<1> QED BY <1>3, FirstRemoved

\* A sum with one element more.
LEMMA TotalAdd ==
    ASSUME NEW S, IsFiniteSet(S), NEW x, x \notin S, NEW f, \A y \in S \cup {x} : f[y] \in Int
    PROVE  Total(f, S \cup {x}) = f[x] + Total(f, S)
<1>1. IsFiniteSet(S \cup {x}) /\ (S \cup {x}) \ {x} = S
  BY FS_AddElement
<1> QED BY <1>1, TotalRemove

\* Sums over equal summands are equal: the two functions need not be.
LEMMA TotalSame ==
    ASSUME NEW S, IsFiniteSet(S), NEW f, NEW h, \A x \in S : f[x] = h[x] /\ f[x] \in Int
    PROVE  Total(f, S) = Total(h, S)
<1>1. PICK g \in [SUBSET S -> Int] : IsSum(g, f, S) /\ Total(f, S) = g[S]
  BY TotalIsSum
<1>2. ASSUME NEW s \in SUBSET S PROVE StepOf(g, f, s) = StepOf(g, h, s)
  <2>1. s # {} => First(s) \in S
    BY FirstRemoved
  <2> QED BY <2>1 DEF StepOf
<1>3. IsSum(g, h, S)
  BY <1>1, <1>2 DEF IsSum
<1>4. PICK k \in [SUBSET S -> Int] : IsSum(k, h, S) /\ Total(h, S) = k[S]
  BY TotalIsSum
<1>5. g[S] = k[S]
  BY <1>3, <1>4, SumsAgree
<1> QED BY <1>1, <1>4, <1>5

\* Induction over the subsets of a finite set.
LEMMA SubsetsGrow ==
    ASSUME NEW S, IsFiniteSet(S), NEW G \in SUBSET SUBSET S, {} \in G,
           \A T \in G : \A x \in S \ T : T \cup {x} \in G
    PROVE  S \in G
<1> DEFINE P == {n \in Nat : \A T \in SUBSET S : Cardinality(T) = n => T \in G}
<1>1. 0 \in P
  BY FirstRemoved
<1>2. ASSUME NEW n \in P PROVE n + 1 \in P
  <2> SUFFICES ASSUME NEW T \in SUBSET S, Cardinality(T) = n + 1 PROVE T \in G
    OBVIOUS
  <2> DEFINE r == T \ {First(T)}
  <2>1. T # {} /\ First(T) \in T /\ r \in SUBSET S /\ Cardinality(r) = n
    BY FirstRemoved
  <2>2. r \in G
    BY <2>1
  <2>3. T = r \cup {First(T)} /\ First(T) \in S \ r
    BY <2>1
  <2> HIDE DEF r
  <2> QED BY <2>2, <2>3
<1>3. Nat \subseteq P
  <2>1. P \subseteq Nat
    OBVIOUS
  <2> HIDE DEF P
  <2> QED BY <1>1, <1>2, <2>1, CountingUp
<1> QED BY <1>3, FirstRemoved

\* A sum of naturals is a natural.
LEMMA TotalNat ==
    ASSUME NEW S, IsFiniteSet(S), NEW f, \A x \in S : f[x] \in Nat
    PROVE  Total(f, S) \in Nat
<1> DEFINE G == {T \in SUBSET S : Total(f, T) \in Nat}
<1>1. {} \in G
  BY TotalEmpty
<1>2. ASSUME NEW T \in G, NEW x \in S \ T PROVE T \cup {x} \in G
  <2>1. IsFiniteSet(T) BY FS_Subset
  <2>2. Total(f, T \cup {x}) = f[x] + Total(f, T)
    <3>1. x \notin T /\ \A y \in T \cup {x} : f[y] \in Int
      OBVIOUS
    <3> QED BY <2>1, <3>1, TotalAdd
  <2>3. Total(f, T) \in Nat /\ f[x] \in Nat OBVIOUS
  <2> QED BY <2>2, <2>3
<1>3. G \in SUBSET SUBSET S OBVIOUS
<1> HIDE DEF G
<1>4. S \in G
  BY <1>1, <1>2, <1>3, SubsetsGrow
<1> QED BY <1>4 DEF G

\* No summand exceeds the sum.
LEMMA TotalAtLeast ==
    ASSUME NEW S, IsFiniteSet(S), NEW f, \A x \in S : f[x] \in Nat, NEW x \in S
    PROVE  f[x] <= Total(f, S)
<1>1. Total(f, S) = f[x] + Total(f, S \ {x})
  BY TotalRemove
<1>2. IsFiniteSet(S \ {x}) BY FS_RemoveElement
<1>3. Total(f, S \ {x}) \in Nat
  BY <1>2, TotalNat
<1> QED BY <1>1, <1>3

\* A sum of zeros.
LEMMA TotalZero ==
    ASSUME NEW S, IsFiniteSet(S), NEW f, \A x \in S : f[x] = 0
    PROVE  Total(f, S) = 0
<1> DEFINE G == {T \in SUBSET S : Total(f, T) = 0}
<1>1. {} \in G BY TotalEmpty
<1>2. ASSUME NEW T \in G, NEW x \in S \ T PROVE T \cup {x} \in G
  <2>1. IsFiniteSet(T) /\ x \notin T /\ \A y \in T \cup {x} : f[y] \in Int BY FS_Subset
  <2>2. Total(f, T \cup {x}) = f[x] + Total(f, T) BY <2>1, TotalAdd
  <2>3. QED BY <2>2
<1>3. G \in SUBSET SUBSET S OBVIOUS
<1> HIDE DEF G
<1>4. S \in G BY <1>1, <1>2, <1>3, SubsetsGrow
<1>5. QED BY <1>4 DEF G

\* What one summand that leaves the set, enters it or does neither makes of a sum.
LEMMA TotalMoves ==
    ASSUME NEW D, IsFiniteSet(D), NEW S \in SUBSET D, NEW T \in SUBSET D, NEW x \in D,
           NEW f \in [D -> Nat], NEW g \in [D -> Nat],
           \A y \in D \ {x} : g[y] = f[y] /\ (y \in T <=> y \in S)
    PROVE  Total(g, T) = Total(f, S) + (IF x \in T THEN g[x] ELSE 0)
                                     - (IF x \in S THEN f[x] ELSE 0)
<1> DEFINE R == S \ {x}
<1>1. /\ IsFiniteSet(S) /\ IsFiniteSet(T) /\ IsFiniteSet(R)
      /\ R = T \ {x} /\ R \in SUBSET D
  BY FS_Subset
<1>2. Total(f, R) = Total(g, R) /\ Total(f, R) \in Nat
  BY <1>1, TotalSame, TotalNat
<1>3. Total(f, S) = (IF x \in S THEN f[x] ELSE 0) + Total(f, R)
  <2>1. x \in S => Total(f, S) = f[x] + Total(f, R) BY <1>1, TotalRemove
  <2>2. CASE x \in S BY <2>1, <2>2
  <2>3. CASE x \notin S
    <3>1. R = S BY <2>3
    <3> HIDE DEF R
    <3>2. QED BY <1>2, <2>3, <3>1
  <2>4. QED BY <2>2, <2>3
<1>4. Total(g, T) = (IF x \in T THEN g[x] ELSE 0) + Total(g, R)
  <2>1. x \in T => Total(g, T) = g[x] + Total(g, R) BY <1>1, TotalRemove
  <2>2. CASE x \in T BY <2>1, <2>2
  <2>3. CASE x \notin T
    <3>1. R = T BY <1>1, <2>3
    <3> HIDE DEF R
    <3>2. QED BY <1>2, <2>3, <3>1
  <2>4. QED BY <2>2, <2>3
<1>5. f[x] \in Nat /\ g[x] \in Nat OBVIOUS
<1> HIDE DEF R
<1>6. QED BY <1>2, <1>3, <1>4, <1>5

-----------------------------------------------------------------------------
(* The invariant of types and limits. *)

\* A booking that exists was made for a month of the calendar.
BookingsHaveMonths ==
    \A b \in Bookings : bookings[b].status # "NONE" => bookings[b].month \in Months

\* The inductive invariant.
IInv == TypeOK /\ LimitsHold /\ BookingsHaveMonths

-----------------------------------------------------------------------------
\* Batches no transaction has overdrawn.
Sound(alloc) ==
    /\ alloc \in [AllocIds -> Batch]
    /\ \A a \in AllocIds : Available(alloc[a]) >= 0

\* What the two sweeps leave alone in a batch.
SameDraws(new, old) ==
    /\ new.reserved = old.reserved
    /\ new.settled = old.settled
    /\ new.released = old.released

\* Sweeping expired batches keeps them sound and can only take credits away.
LEMMA ExpireSweep ==
    ASSUME NEW alloc, Sound(alloc), NEW now \in Int
    PROVE  /\ Sound(Expire(alloc, now))
           /\ \A a \in AllocIds :
                /\ SameDraws(Expire(alloc, now)[a], alloc[a])
                /\ Expire(alloc, now)[a].amount = alloc[a].amount
                /\ Expire(alloc, now)[a].expiresAt = alloc[a].expiresAt
                /\ Available(Expire(alloc, now)[a]) <= Available(alloc[a])
<1> DEFINE new == Expire(alloc, now)
<1>1. ASSUME NEW a \in AllocIds, alloc[a].expiresAt <= now /\ Available(alloc[a]) > 0
      PROVE  /\ new[a] \in Batch
             /\ Available(new[a]) = 0
             /\ SameDraws(new[a], alloc[a])
             /\ new[a].amount = alloc[a].amount
             /\ new[a].expiresAt = alloc[a].expiresAt
  <2>1. alloc[a] \in Batch BY DEF Sound
  <2>2. new[a] = [alloc[a] EXCEPT !.expired = @ + Available(alloc[a])]
    BY <1>1 DEF Expire
  <2>3. QED BY <1>1, <2>1, <2>2 DEF Batch, Available, SameDraws
<1>2. ASSUME NEW a \in AllocIds, ~ (alloc[a].expiresAt <= now /\ Available(alloc[a]) > 0)
      PROVE  new[a] = alloc[a]
  BY <1>2 DEF Expire
<1>3. new = [a \in AllocIds |-> new[a]] BY DEF Expire
<1>4. \A a \in AllocIds : new[a] \in Batch /\ Available(new[a]) >= 0
  BY <1>1, <1>2 DEF Sound
<1>5. Sound(new) BY <1>3, <1>4 DEF Sound
<1>6. ASSUME NEW a \in AllocIds
      PROVE  /\ SameDraws(new[a], alloc[a])
             /\ new[a].amount = alloc[a].amount
             /\ new[a].expiresAt = alloc[a].expiresAt
             /\ Available(new[a]) <= Available(alloc[a])
  <2>1. Available(alloc[a]) \in Nat BY DEF Sound, Batch, Available
  <2>2. QED BY <1>1, <1>2, <2>1 DEF SameDraws
<1>7. QED BY <1>5, <1>6

\* A batch starts with all its credits available.
LEMMA NewBatchSound ==
    ASSUME NEW amount \in Nat, NEW from \in Int, NEW until \in Int
    PROVE  NewBatch(amount, from, until) \in Batch /\ Available(NewBatch(amount, from, until)) = amount
BY DEF NewBatch, Batch, Available

\* Adding the allowance of a month keeps batches sound and touches no batch
\* that is already there.
LEMMA AllowanceInsert ==
    ASSUME NEW alloc, Sound(alloc), NEW month \in Months
    PROVE  /\ Sound(WithAllowance(alloc, month))
           /\ \A a \in AllocIds : alloc[a].amount > 0 =>
                 WithAllowance(alloc, month)[a] = alloc[a]
<1> DEFINE row == NewBatch(Allowance, (month - 1) * MonthLength, month * MonthLength)
<1>1. month \in AllocIds /\ month \in Int /\ MonthLength \in Int /\ Allowance \in Nat
  BY CreditsAssumption DEF AllocIds
<1>2. row \in Batch /\ Available(row) = Allowance
  <2>1. (month - 1) * MonthLength \in Int /\ month * MonthLength \in Int BY <1>1
  <2>2. QED BY <1>1, <2>1, NewBatchSound
<1>3. CASE alloc[month].amount = 0
  <2>1. WithAllowance(alloc, month) = [alloc EXCEPT ![month] = row]
    BY <1>3 DEF WithAllowance
  <2> HIDE DEF row
  <2>2. QED BY <1>1, <1>2, <1>3, <2>1 DEF Sound
<1>4. CASE alloc[month].amount # 0
  BY <1>4 DEF WithAllowance
<1>5. QED BY <1>3, <1>4

\* Drawing from sound batches, for a reservation or a charge, keeps them sound
\* and only touches batches that had not expired at the instant now.
LEMMA DrawsAreCovered ==
    ASSUME NEW alloc, Sound(alloc), NEW now \in Int, NEW units \in Nat,
           NEW take \in Draws(alloc, now, units)
    PROVE  /\ take \in [AllocIds -> Nat]
           /\ \A a \in AllocIds :
                /\ take[a] <= Available(alloc[a])
                /\ take[a] > 0 => alloc[a].expiresAt > now
<1>1. /\ take \in [AllocIds -> 0 .. units]
      /\ \A a \in AllocIds : take[a] > 0 =>
            a \in Usable(alloc, now) /\ take[a] <= Available(alloc[a])
  BY DEF Draws
<1>2. QED BY <1>1 DEF Sound, Usable

\* Settling moves what was drawn between two counters and frees nothing.
LEMMA ConsumedBatch ==
    ASSUME NEW batch \in Batch, NEW drawn \in Nat, batch.reserved >= drawn
    PROVE  /\ Consume(batch, drawn) \in Batch
           /\ Available(Consume(batch, drawn)) = Available(batch)
<1>1. batch.reserved - drawn \in Nat /\ batch.settled + drawn \in Nat BY DEF Batch
<1>2. Consume(batch, drawn) \in Batch BY <1>1, Zenon DEF Batch, Consume
<1>3. Available(Consume(batch, drawn)) = Available(batch) BY DEF Batch, Available, Consume
<1>4. QED BY <1>2, <1>3

\* Releasing frees what was drawn, unless the batch has expired.
LEMMA GivenBackBatch ==
    ASSUME NEW batch \in Batch, NEW drawn \in Nat, batch.reserved >= drawn, NEW now \in Int
    PROVE  /\ GiveBack(batch, drawn, now) \in Batch
           /\ Available(GiveBack(batch, drawn, now))
                = Available(batch) + IF batch.expiresAt <= now THEN 0 ELSE drawn
<1> DEFINE lapsed == IF batch.expiresAt <= now THEN drawn ELSE 0
<1>1. /\ batch.reserved - drawn \in Nat /\ batch.released + drawn \in Nat
      /\ lapsed \in Nat /\ batch.expired + lapsed \in Nat
  BY DEF Batch
<1>2. GiveBack(batch, drawn, now) =
        [batch EXCEPT !.reserved = @ - drawn, !.released = @ + drawn, !.expired = @ + lapsed]
  BY DEF GiveBack
<1>3. lapsed = IF batch.expiresAt <= now THEN drawn ELSE 0 OBVIOUS
<1> HIDE DEF lapsed
<1>4. GiveBack(batch, drawn, now) \in Batch BY <1>1, <1>2, Zenon DEF Batch
<1>5. Available(GiveBack(batch, drawn, now)) = Available(batch) + drawn - lapsed
  BY <1>1, <1>2 DEF Batch, Available
<1>6. Available(batch) \in Int BY DEF Batch, Available
<1>7. QED BY <1>1, <1>3, <1>4, <1>5, <1>6

-----------------------------------------------------------------------------
\* The invariant by component, which is how the steps are proved.
Usage == [reserved : Nat, settled : Nat, released : Nat]
UsageSound(u) ==
    /\ u \in [Actors -> [Months -> Usage]]
    /\ \A x \in Actors, m \in Months : u[x][m].reserved + u[x][m].settled <= Quota[x]

BookingsSound(booked) ==
    /\ booked \in [Bookings -> Booking]
    /\ \A b \in Bookings : booked[b].status # "NONE" => booked[b].month \in Months

LinksSound(drawn) == drawn \in [Bookings -> [AllocIds -> Nat]]

LEMMA Components ==
    IInv <=> /\ clock \in Nat
             /\ Sound(allocations)
             /\ BookingsSound(bookings)
             /\ LinksSound(links)
             /\ UsageSound(usage)
BY DEF IInv, TypeOK, LimitsHold, BookingsHaveMonths, Sound, BookingsSound, LinksSound,
       UsageSound, Usage

LEMMA ComponentsNext ==
    IInv' <=> /\ clock' \in Nat
              /\ Sound(allocations')
              /\ BookingsSound(bookings')
              /\ LinksSound(links')
              /\ UsageSound(usage')
BY DEF IInv, TypeOK, LimitsHold, BookingsHaveMonths, Sound, BookingsSound, LinksSound,
       UsageSound, Usage

\* Owners are actors, and quotas and months are numbers.
LEMMA Owners ==
    /\ \A b \in Bookings : Owner[b] \in Actors
    /\ \A x \in Actors : Quota[x] \in Nat
    /\ Months \subseteq Nat
    /\ Invocations \subseteq Bookings /\ Sessions \subseteq Bookings
    /\ MaxWait \in Nat
BY CreditsAssumption DEF Bookings

\* An instant a transaction may have started at is a number.
LEMMA StartedIsNat ==
    ASSUME clock \in Nat, NEW now \in Started
    PROVE  now \in Nat /\ now <= clock /\ clock - now <= MaxWait
BY DEF Started

\* A booking may be replaced by one for a month of the calendar.
LEMMA BookingUpdate ==
    ASSUME NEW booked, BookingsSound(booked), NEW b \in Bookings,
           NEW new \in Booking, new.status # "NONE" => new.month \in Months
    PROVE  BookingsSound([booked EXCEPT ![b] = new])
BY DEF BookingsSound

\* A usage row may be replaced by one within the actor's quota.
LEMMA UsageUpdate ==
    ASSUME NEW u, UsageSound(u), NEW x \in Actors, NEW m \in Months,
           NEW new \in Usage, new.reserved + new.settled <= Quota[x]
    PROVE  UsageSound([u EXCEPT ![x][m] = new])
<1> DEFINE v == [u EXCEPT ![x][m] = new]
<1>1. v = [u EXCEPT ![x] = [u[x] EXCEPT ![m] = new]] OBVIOUS
<1>2. u[x] \in [Months -> Usage] BY DEF UsageSound
<1>3. [u[x] EXCEPT ![m] = new] \in [Months -> Usage] BY <1>2
<1>4. v \in [Actors -> [Months -> Usage]] BY <1>1, <1>3 DEF UsageSound
<1>5. ASSUME NEW y \in Actors, NEW n \in Months
      PROVE  v[y][n].reserved + v[y][n].settled <= Quota[y]
  <2>1. v[y][n] = IF y = x /\ n = m THEN new ELSE u[y][n]
    BY <1>1, <1>2 DEF UsageSound
  <2>2. QED BY <2>1 DEF UsageSound
<1>6. QED BY <1>4, <1>5 DEF UsageSound

-----------------------------------------------------------------------------
(* Every action preserves the invariant. *)

LEMMA TickInv == IInv /\ Tick => IInv'
BY Components, ComponentsNext DEF Tick

LEMMA EnsureInv ==
    ASSUME IInv, NEW m \in Months, EnsureMonthlyAllowance(m)
    PROVE  IInv'
BY Components, ComponentsNext, AllowanceInsert DEF EnsureMonthlyAllowance

LEMMA BalanceInv ==
    ASSUME IInv, NEW now \in Started, GetGroupCreditBalance(now)
    PROVE  IInv'
<1>1. now \in Int BY Components, StartedIsNat
<1>2. Sound(allocations') BY <1>1, Components, ExpireSweep DEF GetGroupCreditBalance
<1>3. QED BY <1>2, Components, ComponentsNext DEF GetGroupCreditBalance

LEMMA GrantInv ==
    ASSUME IInv, NEW now \in Started, NEW g \in Grants, GrantCredits(g, now)
    PROVE  IInv'
<1> DEFINE row == NewBatch(GrantAmount, now, now + GrantLife)
<1>1. row \in Batch /\ Available(row) = GrantAmount /\ GrantAmount \in Nat
  <2>1. now \in Int /\ now + GrantLife \in Int /\ GrantAmount \in Nat
    BY Components, StartedIsNat, CreditsAssumption
  <2>2. QED BY <2>1, NewBatchSound
<1>2. allocations' = [allocations EXCEPT ![g] = row] /\ g \in AllocIds
  BY DEF GrantCredits, AllocIds
<1> HIDE DEF row
<1>3. Sound(allocations') BY <1>1, <1>2, Components DEF Sound
<1>4. QED BY <1>3, Components, ComponentsNext DEF GrantCredits

\* The batches a reservation or a voice charge draws from.
LEMMA DrawableSound ==
    ASSUME IInv, NEW now \in Started, NEW month \in Months
    PROVE  Sound(Expire(WithAllowance(allocations, month), now))
<1>1. now \in Int /\ Sound(allocations) BY Components, StartedIsNat
<1>2. Sound(WithAllowance(allocations, month)) BY <1>1, AllowanceInsert
<1>3. QED BY <1>1, <1>2, ExpireSweep

LEMMA ReserveInv ==
    ASSUME IInv, NEW now \in Started, NEW month \in Months, NEW i \in Invocations,
           NEW units \in Prices, ReserveCredits(i, month, units, now)
    PROVE  IInv'
<1> DEFINE alloc == Expire(WithAllowance(allocations, month), now)
<1>1. PICK take \in Draws(alloc, now, units) :
        /\ allocations' = [a \in AllocIds |-> [alloc[a] EXCEPT !.reserved = @ + take[a]]]
        /\ links' = [links EXCEPT ![i] = take]
  BY DEF ReserveCredits
<1>2. now \in Int /\ units \in Nat /\ i \in Bookings /\ Owner[i] \in Actors
  BY Components, StartedIsNat, Owners, CreditsAssumption
<1>3. Sound(alloc) BY DrawableSound
<1>4. take \in [AllocIds -> Nat] /\ \A a \in AllocIds : take[a] <= Available(alloc[a])
  BY <1>2, <1>3, DrawsAreCovered
<1>5. Sound(allocations')
  <2> HIDE DEF alloc
  <2>1. ASSUME NEW a \in AllocIds
        PROVE  allocations'[a] \in Batch /\ Available(allocations'[a]) >= 0
    <3>1. alloc[a] \in Batch /\ take[a] \in Nat /\ take[a] <= Available(alloc[a])
      BY <1>3, <1>4 DEF Sound
    <3>2. allocations'[a] = [alloc[a] EXCEPT !.reserved = @ + take[a]] BY <1>1
    <3>3. QED BY <3>1, <3>2 DEF Batch, Available
  <2>2. QED BY <1>1, <2>1 DEF Sound
<1>6. LinksSound(links') BY <1>1, <1>2, <1>4, Components DEF LinksSound
<1>7. BookingsSound(bookings')
  <2> DEFINE new == [status |-> "RESERVED", units |-> units, month |-> month]
  <2>1. new \in Booking /\ new.month \in Months BY <1>2 DEF Booking, Statuses
  <2>2. bookings' = [bookings EXCEPT ![i] = new] BY DEF ReserveCredits
  <2> HIDE DEF new
  <2>3. QED BY <1>2, <2>1, <2>2, BookingUpdate, Components
<1>8. UsageSound(usage')
  <2> DEFINE x == Owner[i]
             old == usage[x][month]
             new == [old EXCEPT !.reserved = @ + units]
  <2>1. usage' = [usage EXCEPT ![x][month] = new] BY DEF ReserveCredits
  <2>2. old \in Usage /\ Quota[x] \in Nat
    BY <1>2, Owners, Components DEF UsageSound
  <2>3. old.reserved + old.settled + units <= Quota[x]
    BY DEF ReserveCredits, WithinQuota
  <2>4. new \in Usage /\ new.reserved + new.settled <= Quota[x]
    <3> HIDE DEF old
    <3>1. QED BY <1>2, <2>2, <2>3 DEF Usage
  <2> HIDE DEF new
  <2>5. QED BY <1>2, <2>1, <2>4, UsageUpdate, Components
<1>9. QED BY <1>5, <1>6, <1>7, <1>8, Components, ComponentsNext DEF ReserveCredits

\* A reservation's units move from reserved to settled or released.
LEMMA ClosingUsage ==
    ASSUME IInv, NEW i \in Invocations, bookings[i].status = "RESERVED", Accountable(i),
           NEW new \in Usage,
           new.reserved = usage[Owner[i]][bookings[i].month].reserved - bookings[i].units,
           new.settled <= usage[Owner[i]][bookings[i].month].settled + bookings[i].units,
           usage' = [usage EXCEPT ![Owner[i]][bookings[i].month] = new]
    PROVE  UsageSound(usage')
<1> DEFINE x == Owner[i]
           m == bookings[i].month
<1>1. x \in Actors /\ m \in Months /\ bookings[i].units \in Nat /\ Quota[x] \in Nat
  BY Owners, Components DEF BookingsSound, Booking
<1>2. usage[x][m] \in Usage /\ usage[x][m].reserved + usage[x][m].settled <= Quota[x]
  BY <1>1, Components DEF UsageSound
<1>3. new.reserved + new.settled <= Quota[x] BY <1>1, <1>2 DEF Usage
<1>4. QED BY <1>1, <1>3, UsageUpdate, Components

\* A booking that closes keeps its units and its month.
LEMMA ClosingBooking ==
    ASSUME IInv, NEW i \in Invocations, bookings[i].status = "RESERVED",
           NEW status \in {"SETTLED", "RELEASED"},
           bookings' = [bookings EXCEPT ![i].status = status]
    PROVE  BookingsSound(bookings')
<1> DEFINE new == [bookings[i] EXCEPT !.status = status]
<1>1. i \in Bookings /\ bookings[i] \in Booking /\ bookings[i].month \in Months
  BY Owners, Components DEF BookingsSound
<1>2. new \in Booking /\ new.month \in Months BY <1>1 DEF Booking, Statuses
<1>3. bookings' = [bookings EXCEPT ![i] = new] OBVIOUS
<1>4. BookingsSound([bookings EXCEPT ![i] = new])
  <2> HIDE DEF new
  <2>1. QED BY <1>1, <1>2, BookingUpdate, Components
<1>5. QED BY <1>3, <1>4

LEMMA SettleInv ==
    ASSUME IInv, NEW i \in Invocations, SettleCredits(i)
    PROVE  IInv'
<1>1. bookings[i].status = "RESERVED" /\ Accountable(i) /\ i \in Bookings
  BY Owners DEF SettleCredits, Open
<1>2. Sound(allocations')
  <2>1. ASSUME NEW a \in AllocIds
        PROVE  allocations'[a] \in Batch /\ Available(allocations'[a]) >= 0
    <3>1. /\ allocations[a] \in Batch /\ Available(allocations[a]) >= 0
          /\ links[i][a] \in Nat /\ allocations[a].reserved >= links[i][a]
      BY <1>1, Components DEF Sound, LinksSound, Accountable
    <3>2. allocations'[a] = Consume(allocations[a], links[i][a]) BY DEF SettleCredits
    <3>3. QED BY <3>1, <3>2, ConsumedBatch
  <2>2. QED BY <2>1 DEF Sound, SettleCredits
<1>3. BookingsSound(bookings') BY <1>1, ClosingBooking DEF SettleCredits
<1>4. UsageSound(usage')
  <2> DEFINE old == usage[Owner[i]][bookings[i].month]
             new == Consume(old, bookings[i].units)
  <2>1. old \in Usage /\ bookings[i].units \in Nat /\ old.reserved >= bookings[i].units
    BY <1>1, Owners, Components DEF UsageSound, BookingsSound, Booking, Accountable, MonthBooked
  <2>2. usage' = [usage EXCEPT ![Owner[i]][bookings[i].month] = new]
    BY DEF SettleCredits, MonthBooked
  <2>3. /\ new \in Usage /\ new.reserved = old.reserved - bookings[i].units
        /\ new.settled = old.settled + bookings[i].units
    <3> HIDE DEF old
    <3>1. /\ old.reserved - bookings[i].units \in Nat
          /\ old.settled + bookings[i].units \in Nat
      BY <2>1 DEF Usage
    <3>2. new \in Usage BY <2>1, <3>1, Zenon DEF Usage, Consume
    <3>3. QED BY <2>1, <3>2 DEF Usage, Consume
  <2> HIDE DEF new
  <2>4. new.settled <= old.settled + bookings[i].units BY <2>1, <2>3 DEF Usage
  <2>5. QED BY <1>1, <2>2, <2>3, <2>4, ClosingUsage
<1>5. QED BY <1>2, <1>3, <1>4, Components, ComponentsNext DEF SettleCredits

LEMMA ReleaseInv ==
    ASSUME IInv, NEW now \in Started, NEW i \in Invocations, ReleaseCredits(i, now)
    PROVE  IInv'
<1> DEFINE alloc == Expire(allocations, now)
<1>1. now \in Int /\ i \in Bookings BY Components, StartedIsNat, Owners
<1>2. /\ Sound(alloc)
      /\ \A a \in AllocIds : alloc[a].reserved = allocations[a].reserved
  BY <1>1, Components, ExpireSweep DEF SameDraws
<1> HIDE DEF alloc
<1>3. CASE bookings[i].status = "RELEASED"
  BY <1>2, <1>3, Components, ComponentsNext DEF Open, ReleaseCredits, alloc
<1>4. CASE bookings[i].status # "RELEASED"
  <2>1. bookings[i].status = "RESERVED" /\ Accountable(i) BY <1>4 DEF ReleaseCredits, Open
  <2>2. Sound(allocations')
    <3>1. ASSUME NEW a \in AllocIds
          PROVE  allocations'[a] \in Batch /\ Available(allocations'[a]) >= 0
      <4>1. /\ alloc[a] \in Batch /\ Available(alloc[a]) >= 0
            /\ links[i][a] \in Nat /\ alloc[a].reserved >= links[i][a]
        BY <1>1, <1>2, <2>1, Components DEF Sound, LinksSound, Accountable
      <4>2. allocations'[a] = GiveBack(alloc[a], links[i][a], now)
        BY <1>4 DEF ReleaseCredits, alloc
      <4>3. Available(alloc[a]) \in Int BY <4>1 DEF Batch, Available
      <4>4. QED BY <1>1, <4>1, <4>2, <4>3, GivenBackBatch
    <3>2. QED BY <1>4, <3>1 DEF Sound, ReleaseCredits
  <2>3. BookingsSound(bookings') BY <1>4, <2>1, ClosingBooking DEF ReleaseCredits
  <2>4. UsageSound(usage')
    <3> DEFINE old == usage[Owner[i]][bookings[i].month]
               new == [old EXCEPT !.reserved = @ - bookings[i].units,
                                  !.released = @ + bookings[i].units]
    <3>1. old \in Usage /\ bookings[i].units \in Nat /\ old.reserved >= bookings[i].units
      BY <1>1, <2>1, Owners, Components DEF UsageSound, BookingsSound, Booking, Accountable, MonthBooked
    <3>2. usage' = [usage EXCEPT ![Owner[i]][bookings[i].month] = new]
      BY <1>4 DEF ReleaseCredits, MonthBooked
    <3>3. /\ new \in Usage /\ new.reserved = old.reserved - bookings[i].units
          /\ new.settled <= old.settled + bookings[i].units
      <4> HIDE DEF old
      <4>1. /\ old.reserved - bookings[i].units \in Nat
            /\ old.released + bookings[i].units \in Nat
        BY <3>1 DEF Usage
      <4>2. new \in Usage BY <3>1, <4>1, Zenon DEF Usage
      <4>3. QED BY <3>1, <4>2 DEF Usage
    <3> HIDE DEF new
    <3>4. QED BY <2>1, <3>2, <3>3, ClosingUsage
  <2>5. QED BY <1>4, <2>2, <2>3, <2>4, Components, ComponentsNext DEF ReleaseCredits
<1>5. QED BY <1>3, <1>4

LEMMA ChargeInv ==
    ASSUME IInv, NEW now \in Started, NEW month \in Months, NEW s \in Sessions,
           NEW units \in VoicePrices, ChargeVoiceSession(s, month, units, now)
    PROVE  IInv'
<1> DEFINE alloc == Expire(WithAllowance(allocations, month), now)
<1>1. now \in Int /\ units \in Nat /\ s \in Bookings /\ Owner[s] \in Actors
  BY Components, StartedIsNat, Owners, CreditsAssumption
<1>2. BookingsSound(bookings')
  <2> DEFINE new == [status |-> "SETTLED", units |-> units, month |-> month]
  <2>1. new \in Booking /\ new.month \in Months BY <1>1 DEF Booking, Statuses
  <2>2. bookings' = [bookings EXCEPT ![s] = new] BY DEF ChargeVoiceSession
  <2> HIDE DEF new
  <2>3. QED BY <1>1, <2>1, <2>2, BookingUpdate, Components
<1>3. CASE units = 0
  BY <1>2, <1>3, Components, ComponentsNext DEF ChargeVoiceSession
<1>4. CASE units # 0
  <2>1. PICK take \in Draws(alloc, now, units) :
          /\ allocations' = [a \in AllocIds |-> [alloc[a] EXCEPT !.settled = @ + take[a]]]
          /\ links' = [links EXCEPT ![s] = take]
    BY <1>4 DEF ChargeVoiceSession
  <2>2. Sound(alloc) BY DrawableSound
  <2>3. take \in [AllocIds -> Nat] /\ \A a \in AllocIds : take[a] <= Available(alloc[a])
    BY <1>1, <2>2, DrawsAreCovered
  <2>4. Sound(allocations')
    <3> HIDE DEF alloc
    <3>1. ASSUME NEW a \in AllocIds
          PROVE  allocations'[a] \in Batch /\ Available(allocations'[a]) >= 0
      <4>1. alloc[a] \in Batch /\ take[a] \in Nat /\ take[a] <= Available(alloc[a])
        BY <2>2, <2>3 DEF Sound
      <4>2. allocations'[a] = [alloc[a] EXCEPT !.settled = @ + take[a]] BY <2>1
      <4>3. QED BY <4>1, <4>2 DEF Batch, Available
    <3>2. QED BY <2>1, <3>1 DEF Sound
  <2>5. LinksSound(links') BY <1>1, <2>1, <2>3, Components DEF LinksSound
  <2>6. UsageSound(usage')
    <3> DEFINE x == Owner[s]
               old == usage[x][month]
               new == [old EXCEPT !.settled = @ + units]
    <3>1. usage' = [usage EXCEPT ![x][month] = new] BY <1>4 DEF ChargeVoiceSession
    <3>2. old \in Usage /\ Quota[x] \in Nat
      BY <1>1, Owners, Components DEF UsageSound
    <3>3. old.reserved + old.settled + units <= Quota[x]
      BY <1>4 DEF ChargeVoiceSession, WithinQuota
    <3>4. new \in Usage /\ new.reserved + new.settled <= Quota[x]
      <4> HIDE DEF old
      <4>1. QED BY <1>1, <3>2, <3>3 DEF Usage
    <3> HIDE DEF new
    <3>5. QED BY <1>1, <3>1, <3>4, UsageUpdate, Components
  <2>7. QED BY <1>2, <2>4, <2>5, <2>6, Components, ComponentsNext DEF ChargeVoiceSession
<1>5. QED BY <1>3, <1>4

LEMMA InitInv == Init => IInv
<1> SUFFICES ASSUME Init PROVE IInv OBVIOUS
<1>1. Sound(allocations)
  <2>1. NoBatch \in Batch /\ Available(NoBatch) = 0
    BY DEF NoBatch, NewBatch, Batch, Available
  <2>2. QED BY <2>1 DEF Init, Sound
<1>2. BookingsSound(bookings) BY DEF Init, BookingsSound, NoBooking, Booking, Statuses
<1>3. LinksSound(links) BY DEF Init, LinksSound
<1>4. UsageSound(usage) BY Owners DEF Init, UsageSound, NoUsage, Usage
<1>5. QED BY <1>1, <1>2, <1>3, <1>4, Components DEF Init

LEMMA NextInv == IInv /\ [Next]_vars => IInv'
<1> SUFFICES ASSUME IInv, [Next]_vars PROVE IInv' OBVIOUS
<1>1. CASE Tick BY <1>1, TickInv
<1>2. ASSUME NEW m \in RequestedMonths(clock), EnsureMonthlyAllowance(m) PROVE IInv'
  BY <1>2, EnsureInv DEF RequestedMonths
<1>3. ASSUME NEW now \in Started, GetGroupCreditBalance(now) PROVE IInv'
  BY <1>3, BalanceInv
<1>4. ASSUME NEW now \in Started, NEW g \in Grants, GrantCredits(g, now) PROVE IInv'
  BY <1>4, GrantInv
<1>5. ASSUME NEW now \in Started, NEW i \in Invocations, ReleaseCredits(i, now) PROVE IInv'
  BY <1>5, ReleaseInv
<1>6. ASSUME NEW now \in Started, NEW m \in RequestedMonths(now), NEW i \in Invocations,
             NEW u \in Prices, ReserveCredits(i, m, u, now)
      PROVE  IInv'
  BY <1>6, ReserveInv DEF RequestedMonths
<1>7. ASSUME NEW now \in Started, NEW m \in EndedMonths(now), NEW s \in Sessions,
             NEW u \in VoicePrices, ChargeVoiceSession(s, m, u, now)
      PROVE  IInv'
  BY <1>7, ChargeInv DEF EndedMonths
<1>8. ASSUME NEW i \in Invocations, SettleCredits(i) PROVE IInv'
  BY <1>8, SettleInv
<1>9. CASE UNCHANGED vars
  BY <1>9, Components, ComponentsNext DEF vars
<1>10. QED BY <1>1, <1>2, <1>3, <1>4, <1>5, <1>6, <1>7, <1>8, <1>9 DEF Next

\* The ledger's invariant holds in every reachable state.
THEOREM LedgerInvariant == Spec => []IInv
BY InitInv, NextInv, PTL DEF Spec

\* The tables only ever hold what their columns and checks admit.
THEOREM LedgerTypes == Spec => []TypeOK
<1>1. IInv => TypeOK BY DEF IInv
<1>2. QED BY <1>1, LedgerInvariant, PTL

\* No batch is drawn beyond its credits and no actor goes beyond a monthly quota,
\* whatever races and however long transactions wait for the policy lock.
THEOREM LedgerLimits == Spec => []LimitsHold
<1>1. IInv => LimitsHold BY DEF IInv
<1>2. QED BY <1>1, LedgerInvariant, PTL

-----------------------------------------------------------------------------
(* Expired batches stay shut. *)

\* The batch is there, and whoever drew on it in time has come through the lock.
Lapsed(a) == allocations[a].amount > 0 /\ allocations[a].expiresAt + MaxWait <= clock

\* Neither credits to spend nor credits in use have grown.
Shut(new, old) ==
    /\ Available(new) <= Available(old)
    /\ new.reserved <= old.reserved
    /\ new.reserved + new.settled <= old.reserved + old.settled

\* Batches are numbers throughout.
LEMMA BatchNumbers ==
    ASSUME NEW batch \in Batch
    PROVE  /\ Available(batch) \in Int /\ batch.reserved \in Nat /\ batch.settled \in Nat
           /\ batch.expiresAt \in Int
BY DEF Batch, Available

\* Any transaction still running sees a lapsed batch as expired.
LEMMA LapsedIsExpired ==
    ASSUME IInv, NEW a \in AllocIds, Lapsed(a), NEW now \in Started
    PROVE  allocations[a].expiresAt <= now
<1>1. now \in Nat /\ clock - now <= MaxWait /\ clock \in Nat /\ MaxWait \in Nat
  BY Components, StartedIsNat, Owners
<1>2. allocations[a].expiresAt \in Int BY Components, BatchNumbers DEF Sound
<1>3. QED BY <1>1, <1>2 DEF Lapsed

\* A reservation or a charge takes nothing from it.
LEMMA NothingDrawnFromLapsed ==
    ASSUME IInv, NEW a \in AllocIds, Lapsed(a), NEW now \in Started, NEW month \in Months,
           NEW units \in Nat,
           NEW take \in Draws(Expire(WithAllowance(allocations, month), now), now, units)
    PROVE  /\ take[a] = 0
           /\ Expire(WithAllowance(allocations, month), now)[a] \in Batch
           /\ Shut(Expire(WithAllowance(allocations, month), now)[a], allocations[a])
<1> DEFINE ensured == WithAllowance(allocations, month)
           alloc == Expire(ensured, now)
<1>1. now \in Int /\ Sound(allocations) BY Components, StartedIsNat
<1>2. Sound(ensured) /\ ensured[a] = allocations[a]
  BY <1>1, AllowanceInsert DEF Lapsed
<1>3. /\ Sound(alloc)
      /\ SameDraws(alloc[a], ensured[a])
      /\ alloc[a].expiresAt = ensured[a].expiresAt
      /\ Available(alloc[a]) <= Available(ensured[a])
  BY <1>1, <1>2, ExpireSweep
<1>4. take \in [AllocIds -> Nat] /\ (take[a] > 0 => alloc[a].expiresAt > now)
  BY <1>1, <1>3, DrawsAreCovered
<1>5. allocations[a].expiresAt <= now BY LapsedIsExpired
<1>6. allocations[a] \in Batch /\ alloc[a] \in Batch BY <1>1, <1>3 DEF Sound
<1> HIDE DEF ensured, alloc
<1>7. take[a] = 0 BY <1>1, <1>2, <1>3, <1>4, <1>5, <1>6, BatchNumbers
<1>8. Shut(alloc[a], allocations[a])
  BY <1>2, <1>3, <1>6, BatchNumbers DEF Shut, SameDraws
<1>9. QED BY <1>6, <1>7, <1>8 DEF alloc, ensured

LEMMA ShutStep ==
    ASSUME IInv, [Next]_vars, NEW a \in AllocIds, Lapsed(a)
    PROVE  Shut(allocations'[a], allocations[a])
<1>1. allocations[a] \in Batch /\ Sound(allocations) BY Components DEF Sound
<1>2. Shut(allocations[a], allocations[a]) BY <1>1, BatchNumbers DEF Shut
<1>3. CASE Tick \/ UNCHANGED vars BY <1>2, <1>3 DEF Tick, vars
<1>4. ASSUME NEW m \in RequestedMonths(clock), EnsureMonthlyAllowance(m)
      PROVE  Shut(allocations'[a], allocations[a])
  <2>1. m \in Months BY DEF RequestedMonths
  <2>2. allocations'[a] = allocations[a]
    BY <1>1, <1>4, <2>1, AllowanceInsert DEF EnsureMonthlyAllowance, Lapsed
  <2>3. QED BY <1>2, <2>2
<1>5. ASSUME NEW now \in Started
      PROVE  /\ Shut(Expire(allocations, now)[a], allocations[a])
             /\ Expire(allocations, now)[a] \in Batch
             /\ Expire(allocations, now)[a].expiresAt <= now
             /\ Expire(allocations, now)[a].reserved = allocations[a].reserved
  <2> DEFINE swept == Expire(allocations, now)
  <2>1. now \in Int BY Components, StartedIsNat
  <2>2. /\ Sound(swept) /\ SameDraws(swept[a], allocations[a])
        /\ swept[a].expiresAt = allocations[a].expiresAt
        /\ Available(swept[a]) <= Available(allocations[a])
    BY <1>1, <2>1, ExpireSweep
  <2>3. allocations[a].expiresAt <= now BY LapsedIsExpired
  <2> HIDE DEF swept
  <2>4. swept[a] \in Batch BY <2>2 DEF Sound
  <2>5. Shut(swept[a], allocations[a]) BY <1>1, <2>2, BatchNumbers DEF Shut, SameDraws
  <2>6. QED BY <2>2, <2>3, <2>4, <2>5 DEF swept, SameDraws
<1>6. ASSUME NEW now \in Started, GetGroupCreditBalance(now)
      PROVE  Shut(allocations'[a], allocations[a])
  BY <1>5, <1>6 DEF GetGroupCreditBalance
<1>7. ASSUME NEW now \in Started, NEW g \in Grants, GrantCredits(g, now)
      PROVE  Shut(allocations'[a], allocations[a])
  <2>1. g # a BY <1>7 DEF GrantCredits, Lapsed
  <2>2. allocations'[a] = allocations[a] BY <1>1, <1>7, <2>1 DEF GrantCredits, Sound
  <2>3. QED BY <1>2, <2>2
<1>8. ASSUME NEW i \in Invocations, SettleCredits(i)
      PROVE  Shut(allocations'[a], allocations[a])
  <2>1. links[i][a] \in Nat /\ allocations[a].reserved >= links[i][a]
    BY <1>8, Owners, Components DEF LinksSound, SettleCredits, Accountable
  <2>2. allocations'[a] = Consume(allocations[a], links[i][a]) BY <1>8 DEF SettleCredits
  <2>3. /\ allocations'[a].reserved = allocations[a].reserved - links[i][a]
        /\ allocations'[a].settled = allocations[a].settled + links[i][a]
    BY <1>1, <2>2 DEF Batch, Consume
  <2>4. Available(allocations'[a]) = Available(allocations[a])
    BY <1>1, <2>1, <2>2, ConsumedBatch
  <2>5. QED BY <1>1, <2>1, <2>3, <2>4, BatchNumbers DEF Shut
<1>9. ASSUME NEW now \in Started, NEW i \in Invocations, ReleaseCredits(i, now)
      PROVE  Shut(allocations'[a], allocations[a])
  <2> DEFINE swept == Expire(allocations, now)[a]
  <2>1. /\ Shut(swept, allocations[a]) /\ swept \in Batch /\ swept.expiresAt <= now
        /\ swept.reserved = allocations[a].reserved
    BY <1>5
  <2>2. now \in Int BY Components, StartedIsNat
  <2>3. CASE bookings[i].status = "RELEASED" BY <1>9, <2>1, <2>3 DEF Open, ReleaseCredits
  <2>4. CASE bookings[i].status # "RELEASED"
    <3>1. links[i][a] \in Nat /\ allocations[a].reserved >= links[i][a]
      BY <1>9, <2>4, Owners, Components DEF LinksSound, ReleaseCredits, Accountable
    <3>2. allocations'[a] = GiveBack(swept, links[i][a], now)
      BY <1>9, <2>4 DEF ReleaseCredits
    <3> HIDE DEF swept
    <3>3. Available(allocations'[a]) = Available(swept) + 0
      BY <2>1, <2>2, <3>1, <3>2, GivenBackBatch
    <3>4. /\ allocations'[a].reserved = swept.reserved - links[i][a]
          /\ allocations'[a].settled = swept.settled
      BY <2>1, <3>2 DEF Batch, GiveBack
    <3>5. QED BY <1>1, <2>1, <3>1, <3>3, <3>4, BatchNumbers DEF Shut
  <2>5. QED BY <2>3, <2>4
<1>10. ASSUME NEW now \in Started, NEW m \in RequestedMonths(now), NEW i \in Invocations,
              NEW u \in Prices, ReserveCredits(i, m, u, now)
       PROVE  Shut(allocations'[a], allocations[a])
  <2> DEFINE alloc == Expire(WithAllowance(allocations, m), now)
  <2>1. m \in Months /\ u \in Nat BY CreditsAssumption DEF RequestedMonths
  <2>2. PICK take \in Draws(alloc, now, u) :
          allocations' = [b \in AllocIds |-> [alloc[b] EXCEPT !.reserved = @ + take[b]]]
    BY <1>10 DEF ReserveCredits
  <2>3. take[a] = 0 /\ alloc[a] \in Batch /\ Shut(alloc[a], allocations[a])
    BY <2>1, NothingDrawnFromLapsed
  <2> HIDE DEF alloc
  <2>4. allocations'[a] = [alloc[a] EXCEPT !.reserved = @ + 0] BY <2>2, <2>3
  <2>5. QED BY <1>1, <2>3, <2>4 DEF Shut, Batch, Available
<1>11. ASSUME NEW now \in Started, NEW m \in EndedMonths(now), NEW s \in Sessions,
              NEW u \in VoicePrices, ChargeVoiceSession(s, m, u, now)
       PROVE  Shut(allocations'[a], allocations[a])
  <2> DEFINE alloc == Expire(WithAllowance(allocations, m), now)
  <2>1. m \in Months /\ u \in Nat BY CreditsAssumption DEF EndedMonths
  <2>2. CASE u = 0 BY <1>2, <1>11, <2>1, <2>2 DEF ChargeVoiceSession
  <2>3. CASE u # 0
    <3>1. PICK take \in Draws(alloc, now, u) :
            allocations' = [b \in AllocIds |-> [alloc[b] EXCEPT !.settled = @ + take[b]]]
      BY <1>11, <2>3 DEF ChargeVoiceSession
    <3>2. take[a] = 0 /\ alloc[a] \in Batch /\ Shut(alloc[a], allocations[a])
      BY <2>1, NothingDrawnFromLapsed
    <3> HIDE DEF alloc
    <3>3. allocations'[a] = [alloc[a] EXCEPT !.settled = @ + 0] BY <3>1, <3>2
    <3>4. QED BY <1>1, <3>2, <3>3 DEF Shut, Batch, Available
  <2>4. QED BY <2>2, <2>3
<1>12. QED
  BY <1>3, <1>4, <1>6, <1>7, <1>8, <1>9, <1>10, <1>11 DEF Next

\* Once every transaction that began before its expiry has come through the lock,
\* a batch never again has more to spend or more in use, releases included.
THEOREM ExpiryIsFinal == Spec => ExpiredBatchesStayShut
<1>1. IInv /\ [Next]_vars =>
        \A a \in AllocIds :
          allocations[a].amount > 0 /\ allocations[a].expiresAt + MaxWait <= clock =>
              /\ Available(allocations'[a]) <= Available(allocations[a])
              /\ allocations'[a].reserved <= allocations[a].reserved
              /\ allocations'[a].reserved + allocations'[a].settled
                    <= allocations[a].reserved + allocations[a].settled
  BY ShutStep DEF Lapsed, Shut
<1>2. QED BY <1>1, LedgerInvariant, PTL DEF Spec, ExpiredBatchesStayShut

-----------------------------------------------------------------------------
(* The books balance. *)

\* What a booking draws adds up to its units, and a booking not yet made draws
\* nothing: the part of the books that no counter shows.
LinksExplained ==
    \A b \in Bookings :
        /\ Total(links[b], AllocIds) = bookings[b].units
        /\ bookings[b].status = "NONE" =>
              bookings[b].units = 0 /\ \A a \in AllocIds : links[b][a] = 0

\* A row that is not yet there has given nothing back: inserting it loses no count.
AbsentRowsAreBlank == \A a \in AllocIds : allocations[a].amount = 0 => allocations[a].released = 0

\* The invariant the counters need beside the one of types and limits.
Books == BooksBalance /\ LinksExplained /\ AbsentRowsAreBlank

\* What a step does to the bookings: booking i, and no other, takes a new status.
Moves(i, old, new) ==
    /\ bookings[i].status = old /\ bookings'[i].status = new
    /\ \A b \in Bookings \ {i} : bookings'[b] = bookings[b] /\ links'[b] = links[b]

If(c, n) == IF c THEN n ELSE 0

\* What is drawn from a batch moves with the booking.
LEMMA DrawnMoves ==
    ASSUME IInv, IInv', NEW i \in Bookings, NEW old, NEW new, Moves(i, old, new),
           NEW a \in AllocIds, NEW status
    PROVE  /\ DrawnFrom(a, status)' = DrawnFrom(a, status) + If(status = new, links'[i][a])
                                                           - If(status = old, links[i][a])
           /\ DrawnFrom(a, status) \in Nat
<1> DEFINE f == [b \in Bookings |-> links[b][a]]
           g == [b \in Bookings |-> links'[b][a]]
           S == {b \in Bookings : bookings[b].status = status}
           T == {b \in Bookings : bookings'[b].status = status}
<1>1. f \in [Bookings -> Nat] /\ g \in [Bookings -> Nat]
  BY Components, ComponentsNext DEF LinksSound
<1>2. IsFiniteSet(Bookings) /\ S \in SUBSET Bookings /\ T \in SUBSET Bookings /\ IsFiniteSet(S)
  BY CreditsAssumption, FS_Subset
<1>3. \A b \in Bookings \ {i} : g[b] = f[b] /\ (b \in T <=> b \in S) BY DEF Moves
<1>4. (i \in T <=> status = new) /\ (i \in S <=> status = old) BY DEF Moves
<1>5. f[i] = links[i][a] /\ g[i] = links'[i][a] OBVIOUS
<1>6. DrawnFrom(a, status) = Total(f, S) /\ DrawnFrom(a, status)' = Total(g, T)
  BY DEF DrawnFrom
<1>7. Total(f, S) \in Nat
  <2>1. \A b \in S : f[b] \in Nat BY <1>1
  <2> HIDE DEF f, S
  <2>2. QED BY <1>2, <2>1, TotalNat
<1> HIDE DEF f, g, S, T
<1>8. Total(g, T) = Total(f, S) + (IF i \in T THEN g[i] ELSE 0) - (IF i \in S THEN f[i] ELSE 0)
  BY <1>1, <1>2, <1>3, TotalMoves
<1>9. QED BY <1>4, <1>5, <1>6, <1>7, <1>8 DEF If

\* So does what its actor has booked in its month.
LEMMA BookedMoves ==
    ASSUME IInv, IInv', NEW i \in Bookings, NEW old, NEW new, Moves(i, old, new),
           NEW x \in Actors, NEW m \in Months, NEW status
    PROVE  /\ BookedBy(x, m, status)' = BookedBy(x, m, status)
                + If(status = new /\ x = Owner[i] /\ m = bookings'[i].month, bookings'[i].units)
                - If(status = old /\ x = Owner[i] /\ m = bookings[i].month, bookings[i].units)
           /\ BookedBy(x, m, status) \in Nat
<1> DEFINE f == [b \in Bookings |-> bookings[b].units]
           g == [b \in Bookings |-> bookings'[b].units]
           S == {b \in Bookings : Owner[b] = x /\ bookings[b].month = m
                                              /\ bookings[b].status = status}
           T == {b \in Bookings : Owner[b] = x /\ bookings'[b].month = m
                                              /\ bookings'[b].status = status}
<1>1. f \in [Bookings -> Nat] /\ g \in [Bookings -> Nat]
  BY Components, ComponentsNext DEF BookingsSound, Booking
<1>2. IsFiniteSet(Bookings) /\ S \in SUBSET Bookings /\ T \in SUBSET Bookings /\ IsFiniteSet(S)
  BY CreditsAssumption, FS_Subset
<1>3. \A b \in Bookings \ {i} : g[b] = f[b] /\ (b \in T <=> b \in S) BY DEF Moves
<1>4. /\ i \in T <=> status = new /\ x = Owner[i] /\ m = bookings'[i].month
      /\ i \in S <=> status = old /\ x = Owner[i] /\ m = bookings[i].month
  BY DEF Moves
<1>5. f[i] = bookings[i].units /\ g[i] = bookings'[i].units OBVIOUS
<1>6. BookedBy(x, m, status) = Total(f, S) /\ BookedBy(x, m, status)' = Total(g, T)
  BY DEF BookedBy
<1>7. Total(f, S) \in Nat
  <2>1. \A b \in S : f[b] \in Nat BY <1>1
  <2> HIDE DEF f, S
  <2>2. QED BY <1>2, <2>1, TotalNat
<1> HIDE DEF f, g, S, T
<1>8. Total(g, T) = Total(f, S) + (IF i \in T THEN g[i] ELSE 0) - (IF i \in S THEN f[i] ELSE 0)
  BY <1>1, <1>2, <1>3, TotalMoves
<1>9. QED BY <1>4, <1>5, <1>6, <1>7, <1>8 DEF If

\* The counters follow a booking from one status to the next.
Follows(i, old, new) ==
    /\ \A a \in AllocIds :
        /\ allocations'[a].reserved = allocations[a].reserved
             + If("RESERVED" = new, links'[i][a]) - If("RESERVED" = old, links[i][a])
        /\ allocations'[a].settled = allocations[a].settled
             + If("SETTLED" = new, links'[i][a]) - If("SETTLED" = old, links[i][a])
        /\ allocations'[a].released = allocations[a].released
             + If("RELEASED" = new, links'[i][a]) - If("RELEASED" = old, links[i][a])
    /\ \A x \in Actors, m \in Months :
        /\ usage'[x][m].reserved = usage[x][m].reserved
             + If("RESERVED" = new /\ x = Owner[i] /\ m = bookings'[i].month, bookings'[i].units)
             - If("RESERVED" = old /\ x = Owner[i] /\ m = bookings[i].month, bookings[i].units)
        /\ usage'[x][m].settled = usage[x][m].settled
             + If("SETTLED" = new /\ x = Owner[i] /\ m = bookings'[i].month, bookings'[i].units)
             - If("SETTLED" = old /\ x = Owner[i] /\ m = bookings[i].month, bookings[i].units)
        /\ usage'[x][m].released = usage[x][m].released
             + If("RELEASED" = new /\ x = Owner[i] /\ m = bookings'[i].month, bookings'[i].units)
             - If("RELEASED" = old /\ x = Owner[i] /\ m = bookings[i].month, bookings[i].units)

\* Then both books stay balanced.
LEMMA BalanceKept ==
    ASSUME IInv, IInv', BooksBalance, NEW i \in Bookings, NEW old, NEW new,
           Moves(i, old, new), Follows(i, old, new)
    PROVE  BooksBalance'
<1>1. ASSUME NEW a \in AllocIds
      PROVE  /\ allocations'[a].reserved = DrawnFrom(a, "RESERVED")'
             /\ allocations'[a].settled = DrawnFrom(a, "SETTLED")'
             /\ allocations'[a].released = DrawnFrom(a, "RELEASED")'
  <2>1. /\ allocations[a].reserved = DrawnFrom(a, "RESERVED")
        /\ allocations[a].settled = DrawnFrom(a, "SETTLED")
        /\ allocations[a].released = DrawnFrom(a, "RELEASED")
    BY DEF BooksBalance, LedgerBalances
  <2>2. QED BY <2>1, DrawnMoves DEF Follows
<1>2. ASSUME NEW x \in Actors, NEW m \in Months
      PROVE  /\ usage'[x][m].reserved = BookedBy(x, m, "RESERVED")'
             /\ usage'[x][m].settled = BookedBy(x, m, "SETTLED")'
             /\ usage'[x][m].released = BookedBy(x, m, "RELEASED")'
  <2>1. /\ usage[x][m].reserved = BookedBy(x, m, "RESERVED")
        /\ usage[x][m].settled = BookedBy(x, m, "SETTLED")
        /\ usage[x][m].released = BookedBy(x, m, "RELEASED")
    BY DEF BooksBalance, UsageMatchesBookings
  <2>2. QED BY <2>1, BookedMoves DEF Follows
<1>3. QED BY <1>1, <1>2 DEF BooksBalance, LedgerBalances, UsageMatchesBookings


\* A step that leaves the bookings and every counter alone keeps the balance.
LEMMA BalanceUntouched ==
    ASSUME BooksBalance, UNCHANGED <<bookings, links, usage>>,
           \A a \in AllocIds : SameDraws(allocations'[a], allocations[a])
    PROVE  BooksBalance'
<1>1. \A a \in AllocIds, status \in Statuses : DrawnFrom(a, status)' = DrawnFrom(a, status)
  BY DEF DrawnFrom
<1>2. \A x \in Actors, m \in Months, status \in Statuses :
        BookedBy(x, m, status)' = BookedBy(x, m, status)
  BY DEF BookedBy
<1>3. \A a \in AllocIds :
        /\ allocations'[a].reserved = DrawnFrom(a, "RESERVED")'
        /\ allocations'[a].settled = DrawnFrom(a, "SETTLED")'
        /\ allocations'[a].released = DrawnFrom(a, "RELEASED")'
  BY <1>1 DEF BooksBalance, LedgerBalances, SameDraws, Statuses
<1>4. \A x \in Actors, m \in Months :
        /\ usage'[x][m].reserved = BookedBy(x, m, "RESERVED")'
        /\ usage'[x][m].settled = BookedBy(x, m, "SETTLED")'
        /\ usage'[x][m].released = BookedBy(x, m, "RELEASED")'
  BY <1>2 DEF BooksBalance, UsageMatchesBookings, Statuses
<1>5. QED BY <1>3, <1>4 DEF BooksBalance, LedgerBalances, UsageMatchesBookings

\* A row that is not yet there has blank counters.
LEMMA BlankRow ==
    ASSUME IInv, AbsentRowsAreBlank, NEW a \in AllocIds, allocations[a].amount = 0
    PROVE  /\ allocations[a].reserved = 0 /\ allocations[a].settled = 0
           /\ allocations[a].released = 0
<1>1. allocations[a] \in Batch /\ Available(allocations[a]) >= 0 BY Components DEF Sound
<1>2. QED BY <1>1 DEF Batch, Available, AbsentRowsAreBlank

\* Adding the allowance of a month changes no counter of draws and removes no row.
LEMMA AllowanceCounters ==
    ASSUME IInv, AbsentRowsAreBlank, NEW month \in Months, NEW a \in AllocIds
    PROVE  /\ SameDraws(WithAllowance(allocations, month)[a], allocations[a])
           /\ WithAllowance(allocations, month)[a].amount = 0 =>
                 allocations[a].amount = 0
<1> DEFINE row == NewBatch(Allowance, (month - 1) * MonthLength, month * MonthLength)
<1>1. /\ row.reserved = 0 /\ row.settled = 0 /\ row.released = 0
      /\ row.amount = Allowance /\ Allowance # 0
  BY CreditsAssumption DEF NewBatch
<1>2. /\ month \in AllocIds
      /\ allocations \in [AllocIds -> Batch]
  BY Components DEF Sound, AllocIds
<1>3. WithAllowance(allocations, month)[a] =
        IF a = month /\ allocations[month].amount = 0 THEN row ELSE allocations[a]
  BY <1>2 DEF WithAllowance
<1> HIDE DEF row
<1>4. QED BY <1>1, <1>3, BlankRow DEF SameDraws

LEMMA BooksOfTick == ASSUME Books, Tick PROVE Books'
<1>1. BooksBalance' BY BalanceUntouched DEF Tick, SameDraws, Books
<1>2. QED BY <1>1 DEF Tick, Books, LinksExplained, AbsentRowsAreBlank

LEMMA BooksOfEnsure ==
    ASSUME IInv, Books, NEW m \in Months, EnsureMonthlyAllowance(m)
    PROVE  Books'
<1>1. \A a \in AllocIds : /\ SameDraws(allocations'[a], allocations[a])
                          /\ allocations'[a].amount = 0 => allocations[a].amount = 0
  BY AllowanceCounters DEF EnsureMonthlyAllowance, Books
<1>2. BooksBalance' BY <1>1, BalanceUntouched DEF EnsureMonthlyAllowance, Books
<1>3. AbsentRowsAreBlank' BY <1>1 DEF Books, AbsentRowsAreBlank, SameDraws
<1>4. QED BY <1>2, <1>3 DEF Books, LinksExplained, EnsureMonthlyAllowance

LEMMA BooksOfBalance ==
    ASSUME IInv, Books, NEW now \in Started, GetGroupCreditBalance(now)
    PROVE  Books'
<1>1. \A a \in AllocIds : /\ SameDraws(allocations'[a], allocations[a])
                          /\ allocations'[a].amount = allocations[a].amount
  BY Components, StartedIsNat, ExpireSweep DEF GetGroupCreditBalance
<1>2. BooksBalance' BY <1>1, BalanceUntouched DEF GetGroupCreditBalance, Books
<1>3. AbsentRowsAreBlank' BY <1>1 DEF Books, AbsentRowsAreBlank, SameDraws
<1>4. QED BY <1>2, <1>3 DEF Books, LinksExplained, GetGroupCreditBalance

LEMMA BooksOfGrant ==
    ASSUME IInv, Books, NEW now \in Started, NEW g \in Grants, GrantCredits(g, now)
    PROVE  Books'
<1> DEFINE row == NewBatch(GrantAmount, now, now + GrantLife)
<1>1. /\ row.reserved = 0 /\ row.settled = 0 /\ row.released = 0
      /\ row.amount = GrantAmount /\ GrantAmount # 0
  BY CreditsAssumption DEF NewBatch
<1>2. g \in AllocIds /\ allocations \in [AllocIds -> Batch]
  BY Components DEF Sound, AllocIds
<1>3. \A a \in AllocIds : allocations'[a] = IF a = g THEN row ELSE allocations[a]
  BY <1>2 DEF GrantCredits
<1>4. allocations[g].amount = 0 BY DEF GrantCredits
<1> HIDE DEF row
<1>5. \A a \in AllocIds : /\ SameDraws(allocations'[a], allocations[a])
                          /\ allocations'[a].amount = 0 => allocations[a].amount = 0
  BY <1>1, <1>2, <1>3, <1>4, BlankRow DEF SameDraws, Books
<1>6. BooksBalance' BY <1>5, BalanceUntouched DEF GrantCredits, Books
<1>7. AbsentRowsAreBlank' BY <1>5 DEF Books, AbsentRowsAreBlank, SameDraws
<1>8. QED BY <1>6, <1>7 DEF Books, LinksExplained, GrantCredits

\* The batches a reservation or a charge draws from: the counters of the rows.
LEMMA DrawableCounters ==
    ASSUME IInv, AbsentRowsAreBlank, NEW now \in Started, NEW month \in Months, NEW a \in AllocIds
    PROVE  LET alloc == Expire(WithAllowance(allocations, month), now)
           IN  /\ alloc[a] \in Batch
               /\ SameDraws(alloc[a], allocations[a])
               /\ alloc[a].amount = 0 => allocations[a].amount = 0
<1> DEFINE ensured == WithAllowance(allocations, month)
           alloc == Expire(ensured, now)
<1>1. now \in Int /\ Sound(allocations) BY Components, StartedIsNat
<1>2. Sound(ensured) BY <1>1, AllowanceInsert
<1>3. SameDraws(ensured[a], allocations[a]) /\ (ensured[a].amount = 0 => allocations[a].amount = 0)
  BY AllowanceCounters
<1> HIDE DEF ensured
<1>4. Sound(alloc) /\ SameDraws(alloc[a], ensured[a]) /\ alloc[a].amount = ensured[a].amount
  BY <1>1, <1>2, ExpireSweep
<1> HIDE DEF alloc
<1>5. alloc[a] \in Batch /\ SameDraws(alloc[a], allocations[a])
      /\ (alloc[a].amount = 0 => allocations[a].amount = 0)
  BY <1>3, <1>4 DEF SameDraws, Sound
<1>6. QED BY <1>5 DEF alloc, ensured

\* A draw adds up to the units asked for.
LEMMA DrawTotal ==
    ASSUME NEW alloc, NEW now, NEW units \in Nat, NEW take \in Draws(alloc, now, units)
    PROVE  Total(take, AllocIds) = units /\ take \in [AllocIds -> Nat]
<1>1. Total(take, AllocIds) = units /\ take \in [AllocIds -> 0 .. units] BY DEF Draws
<1>2. QED BY <1>1

\* A booking that takes its draw, or keeps the one it has, stays explained.
LEMMA ExplainedKept ==
    ASSUME LinksExplained, NEW i \in Bookings, NEW old, NEW new, Moves(i, old, new),
           new # "NONE", Total(links'[i], AllocIds) = bookings'[i].units
    PROVE  LinksExplained'
BY DEF LinksExplained, Moves

LEMMA BooksOfReserve ==
    ASSUME IInv, IInv', Books, NEW now \in Started, NEW month \in Months, NEW i \in Invocations,
           NEW units \in Prices, ReserveCredits(i, month, units, now)
    PROVE  Books'
<1> DEFINE alloc == Expire(WithAllowance(allocations, month), now)
<1>1. PICK take \in Draws(alloc, now, units) :
        /\ allocations' = [a \in AllocIds |-> [alloc[a] EXCEPT !.reserved = @ + take[a]]]
        /\ links' = [links EXCEPT ![i] = take]
  BY DEF ReserveCredits
<1>2. units \in Nat /\ i \in Bookings /\ Owner[i] \in Actors
  BY Owners, CreditsAssumption
<1>3. Total(take, AllocIds) = units /\ take \in [AllocIds -> Nat]
  BY <1>2, DrawTotal
<1>4. ASSUME NEW a \in AllocIds
      PROVE  /\ alloc[a] \in Batch
             /\ SameDraws(alloc[a], allocations[a])
             /\ alloc[a].amount = 0 => allocations[a].amount = 0
  BY DrawableCounters DEF Books
<1> HIDE DEF alloc
<1>5. /\ bookings \in [Bookings -> Booking] /\ links \in [Bookings -> [AllocIds -> Nat]]
      /\ usage \in [Actors -> [Months -> Usage]]
  BY Components DEF BookingsSound, LinksSound, UsageSound
<1>6. /\ bookings[i].status = "NONE"
      /\ bookings' = [bookings EXCEPT ![i] =
            [status |-> "RESERVED", units |-> units, month |-> month]]
      /\ usage' = [usage EXCEPT ![Owner[i]][month].reserved = @ + units]
  BY DEF ReserveCredits, Unbooked
<1>7. /\ bookings'[i] = [status |-> "RESERVED", units |-> units, month |-> month]
      /\ links'[i] = take
  BY <1>1, <1>2, <1>5, <1>6
<1>8. Moves(i, "NONE", "RESERVED")
  BY <1>1, <1>5, <1>6, <1>7 DEF Moves
<1>9. ASSUME NEW a \in AllocIds
      PROVE  /\ allocations'[a].reserved = allocations[a].reserved + take[a]
             /\ allocations'[a].settled = allocations[a].settled
             /\ allocations'[a].released = allocations[a].released
             /\ allocations'[a].amount = alloc[a].amount
             /\ allocations[a] \in Batch
  <2>1. allocations'[a] = [alloc[a] EXCEPT !.reserved = @ + take[a]] BY <1>1
  <2>2. allocations[a] \in Batch BY Components DEF Sound
  <2>3. QED BY <1>4, <2>1, <2>2 DEF SameDraws, Batch
<1>10. ASSUME NEW x \in Actors, NEW m \in Months
       PROVE  /\ usage'[x][m].reserved = usage[x][m].reserved
                    + If(x = Owner[i] /\ m = month, units)
              /\ usage'[x][m].settled = usage[x][m].settled
              /\ usage'[x][m].released = usage[x][m].released
              /\ usage[x][m] \in Usage
  <2>1. usage[x][m] \in Usage BY <1>5
  <2>2. usage'[x][m] = IF x = Owner[i] /\ m = month
                       THEN [usage[x][m] EXCEPT !.reserved = @ + units] ELSE usage[x][m]
    BY <1>2, <1>5, <1>6
  <2>3. QED BY <1>2, <2>1, <2>2 DEF If, Usage
<1>11. Follows(i, "NONE", "RESERVED")
  <2>1. ASSUME NEW a \in AllocIds
        PROVE  /\ allocations'[a].reserved = allocations[a].reserved
                    + If("RESERVED" = "RESERVED", links'[i][a]) - If("RESERVED" = "NONE", links[i][a])
               /\ allocations'[a].settled = allocations[a].settled
                    + If("SETTLED" = "RESERVED", links'[i][a]) - If("SETTLED" = "NONE", links[i][a])
               /\ allocations'[a].released = allocations[a].released
                    + If("RELEASED" = "RESERVED", links'[i][a]) - If("RELEASED" = "NONE", links[i][a])
    BY <1>3, <1>7, <1>9 DEF If, Batch
  <2>2. bookings'[i].month = month /\ bookings'[i].units = units BY <1>7
  <2>3. QED BY <1>2, <1>10, <2>1, <2>2 DEF Follows, If, Usage
<1>12. BooksBalance' BY <1>2, <1>8, <1>11, BalanceKept DEF Books
<1>13. LinksExplained' BY <1>2, <1>3, <1>7, <1>8, ExplainedKept DEF Books
<1>14. AbsentRowsAreBlank' BY <1>4, <1>9 DEF Books, AbsentRowsAreBlank
<1>15. QED BY <1>12, <1>13, <1>14 DEF Books

\* A booking that closes: only its status changes, and its links stay.
LEMMA Closing ==
    ASSUME IInv, LinksExplained, NEW i \in Invocations, bookings[i].status = "RESERVED",
           NEW status \in {"SETTLED", "RELEASED"},
           bookings' = [bookings EXCEPT ![i].status = status], links' = links
    PROVE  /\ i \in Bookings /\ Owner[i] \in Actors
           /\ bookings[i].month \in Months /\ bookings[i].units \in Nat
           /\ links[i] \in [AllocIds -> Nat]
           /\ bookings'[i].month = bookings[i].month /\ bookings'[i].units = bookings[i].units
           /\ links'[i] = links[i]
           /\ Moves(i, "RESERVED", status)
           /\ LinksExplained'
<1>1. /\ bookings \in [Bookings -> Booking] /\ links \in [Bookings -> [AllocIds -> Nat]]
      /\ i \in Bookings /\ Owner[i] \in Actors /\ bookings[i].month \in Months
  BY Components, Owners DEF BookingsSound, LinksSound
<1>2. bookings[i] \in Booking BY <1>1
<1>3. bookings'[i] = [bookings[i] EXCEPT !.status = status] BY <1>1
<1>4. /\ bookings'[i].month = bookings[i].month /\ bookings'[i].units = bookings[i].units
      /\ bookings'[i].status = status /\ bookings[i].units \in Nat
  BY <1>2, <1>3 DEF Booking
<1>5. Moves(i, "RESERVED", status) BY <1>1, <1>4 DEF Moves
<1>6. Total(links'[i], AllocIds) = bookings'[i].units BY <1>1, <1>4 DEF LinksExplained
<1>7. LinksExplained' BY <1>1, <1>5, <1>6, ExplainedKept
<1>8. QED BY <1>1, <1>4, <1>5, <1>7

LEMMA BooksOfSettle ==
    ASSUME IInv, IInv', Books, NEW i \in Invocations, SettleCredits(i)
    PROVE  Books'
<1> DEFINE m0 == bookings[i].month
           u0 == bookings[i].units
<1>1. /\ bookings[i].status = "RESERVED" /\ Accountable(i)
      /\ bookings' = [bookings EXCEPT ![i].status = "SETTLED"] /\ links' = links
      /\ allocations' = [a \in AllocIds |-> Consume(allocations[a], links[i][a])]
      /\ usage' = [usage EXCEPT ![Owner[i]][m0] = Consume(usage[Owner[i]][m0], u0)]
  BY DEF SettleCredits, Open, MonthBooked
<1>2. /\ i \in Bookings /\ Owner[i] \in Actors /\ m0 \in Months /\ u0 \in Nat
      /\ links[i] \in [AllocIds -> Nat]
      /\ bookings'[i].month = m0 /\ bookings'[i].units = u0 /\ links'[i] = links[i]
      /\ Moves(i, "RESERVED", "SETTLED") /\ LinksExplained'
  BY <1>1, Closing DEF Books
<1> HIDE DEF m0, u0
<1>3. ASSUME NEW a \in AllocIds
      PROVE  /\ allocations'[a].reserved = allocations[a].reserved - links[i][a]
             /\ allocations'[a].settled = allocations[a].settled + links[i][a]
             /\ allocations'[a].released = allocations[a].released
             /\ allocations'[a].amount = allocations[a].amount
             /\ allocations[a] \in Batch
  <2>1. allocations'[a] = Consume(allocations[a], links[i][a]) BY <1>1
  <2>2. allocations[a] \in Batch BY Components DEF Sound
  <2>3. QED BY <2>1, <2>2 DEF Consume, Batch
<1>4. ASSUME NEW x \in Actors, NEW m \in Months
      PROVE  /\ usage'[x][m].reserved = usage[x][m].reserved - If(x = Owner[i] /\ m = m0, u0)
             /\ usage'[x][m].settled = usage[x][m].settled + If(x = Owner[i] /\ m = m0, u0)
             /\ usage'[x][m].released = usage[x][m].released
             /\ usage[x][m] \in Usage
  <2>1. usage \in [Actors -> [Months -> Usage]] BY Components DEF UsageSound
  <2>2. usage[x][m] \in Usage BY <2>1
  <2>3. usage'[x][m] = IF x = Owner[i] /\ m = m0
                       THEN Consume(usage[x][m], u0) ELSE usage[x][m]
    BY <1>1, <1>2, <2>1
  <2>4. QED BY <1>2, <2>2, <2>3 DEF If, Usage, Consume
<1>5. Follows(i, "RESERVED", "SETTLED")
  <2>1. ASSUME NEW a \in AllocIds
        PROVE  /\ allocations'[a].reserved = allocations[a].reserved
                    + If("RESERVED" = "SETTLED", links'[i][a]) - If("RESERVED" = "RESERVED", links[i][a])
               /\ allocations'[a].settled = allocations[a].settled
                    + If("SETTLED" = "SETTLED", links'[i][a]) - If("SETTLED" = "RESERVED", links[i][a])
               /\ allocations'[a].released = allocations[a].released
                    + If("RELEASED" = "SETTLED", links'[i][a]) - If("RELEASED" = "RESERVED", links[i][a])
    BY <1>2, <1>3 DEF If, Batch
  <2>2. QED BY <1>2, <1>4, <2>1 DEF Follows, If, Usage, m0, u0
<1>6. BooksBalance' BY <1>2, <1>5, BalanceKept DEF Books
<1>7. AbsentRowsAreBlank' BY <1>3 DEF Books, AbsentRowsAreBlank
<1>8. QED BY <1>2, <1>6, <1>7 DEF Books

LEMMA BooksOfRelease ==
    ASSUME IInv, IInv', Books, NEW now \in Started, NEW i \in Invocations, ReleaseCredits(i, now)
    PROVE  Books'
<1> DEFINE alloc == Expire(allocations, now)
           m0 == bookings[i].month
           u0 == bookings[i].units
<1>1. ASSUME NEW a \in AllocIds
      PROVE  /\ alloc[a] \in Batch /\ SameDraws(alloc[a], allocations[a])
             /\ alloc[a].amount = allocations[a].amount
  BY Components, StartedIsNat, ExpireSweep DEF Sound
<1>2. CASE bookings[i].status = "RELEASED"
  <2>1. allocations' = alloc /\ UNCHANGED <<bookings, links, usage>>
    BY <1>2 DEF ReleaseCredits, Open
  <2> HIDE DEF alloc
  <2>2. BooksBalance' BY <1>1, <2>1, BalanceUntouched DEF Books
  <2>3. AbsentRowsAreBlank' BY <1>1, <2>1 DEF Books, AbsentRowsAreBlank, SameDraws
  <2>4. QED BY <2>1, <2>2, <2>3 DEF Books, LinksExplained
<1>3. CASE bookings[i].status # "RELEASED"
  <2>1. /\ bookings[i].status = "RESERVED" /\ Accountable(i)
        /\ bookings' = [bookings EXCEPT ![i].status = "RELEASED"] /\ links' = links
        /\ allocations' = [a \in AllocIds |-> GiveBack(alloc[a], links[i][a], now)]
        /\ usage' = [usage EXCEPT ![Owner[i]][m0] =
              [usage[Owner[i]][m0] EXCEPT !.reserved = @ - u0, !.released = @ + u0]]
    BY <1>3 DEF ReleaseCredits, Open, MonthBooked
  <2>2. /\ i \in Bookings /\ Owner[i] \in Actors /\ m0 \in Months /\ u0 \in Nat
        /\ links[i] \in [AllocIds -> Nat]
        /\ bookings'[i].month = m0 /\ bookings'[i].units = u0 /\ links'[i] = links[i]
        /\ Moves(i, "RESERVED", "RELEASED") /\ LinksExplained'
    BY <2>1, Closing DEF Books
  <2> HIDE DEF m0, u0, alloc
  <2>3. ASSUME NEW a \in AllocIds
        PROVE  /\ allocations'[a].reserved = allocations[a].reserved - links[i][a]
               /\ allocations'[a].settled = allocations[a].settled
               /\ allocations'[a].released = allocations[a].released + links[i][a]
               /\ allocations'[a].amount = allocations[a].amount
               /\ allocations[a] \in Batch
    <3>1. allocations'[a] = GiveBack(alloc[a], links[i][a], now) BY <2>1
    <3>2. allocations[a] \in Batch BY Components DEF Sound
    <3>3. /\ allocations'[a].reserved = alloc[a].reserved - links[i][a]
          /\ allocations'[a].settled = alloc[a].settled
          /\ allocations'[a].released = alloc[a].released + links[i][a]
          /\ allocations'[a].amount = alloc[a].amount
      BY <1>1, <3>1 DEF GiveBack, Batch
    <3>4. QED BY <1>1, <3>2, <3>3 DEF SameDraws
  <2>4. ASSUME NEW x \in Actors, NEW m \in Months
        PROVE  /\ usage'[x][m].reserved = usage[x][m].reserved - If(x = Owner[i] /\ m = m0, u0)
               /\ usage'[x][m].settled = usage[x][m].settled
               /\ usage'[x][m].released = usage[x][m].released + If(x = Owner[i] /\ m = m0, u0)
               /\ usage[x][m] \in Usage
    <3>1. usage \in [Actors -> [Months -> Usage]] BY Components DEF UsageSound
    <3>2. usage[x][m] \in Usage BY <3>1
    <3>3. usage'[x][m] = IF x = Owner[i] /\ m = m0
              THEN [usage[x][m] EXCEPT !.reserved = @ - u0, !.released = @ + u0]
              ELSE usage[x][m]
      <4> DEFINE row == [usage[Owner[i]][m0] EXCEPT !.reserved = @ - u0, !.released = @ + u0]
      <4>1. usage' = [usage EXCEPT ![Owner[i]][m0] = row] BY <2>1
      <4> HIDE DEF row
      <4>2. usage'[x][m] = IF x = Owner[i] /\ m = m0 THEN row ELSE usage[x][m]
        BY <2>2, <3>1, <4>1
      <4>3. QED BY <4>2 DEF row
    <3>4. QED BY <2>2, <3>2, <3>3 DEF If, Usage
  <2>5. Follows(i, "RESERVED", "RELEASED")
    <3>1. ASSUME NEW a \in AllocIds
          PROVE  /\ allocations'[a].reserved = allocations[a].reserved
                      + If("RESERVED" = "RELEASED", links'[i][a]) - If("RESERVED" = "RESERVED", links[i][a])
                 /\ allocations'[a].settled = allocations[a].settled
                      + If("SETTLED" = "RELEASED", links'[i][a]) - If("SETTLED" = "RESERVED", links[i][a])
                 /\ allocations'[a].released = allocations[a].released
                      + If("RELEASED" = "RELEASED", links'[i][a]) - If("RELEASED" = "RESERVED", links[i][a])
      BY <2>2, <2>3 DEF If, Batch
    <3>2. QED BY <2>2, <2>4, <3>1 DEF Follows, If, Usage, m0, u0
  <2>6. BooksBalance' BY <2>2, <2>5, BalanceKept DEF Books
  <2>7. AbsentRowsAreBlank'
    <3> SUFFICES ASSUME NEW a \in AllocIds, allocations'[a].amount = 0
                 PROVE  allocations'[a].released = 0
      BY DEF AbsentRowsAreBlank
    <3>1. allocations[a].reserved = 0 /\ allocations[a].released = 0
      BY <2>3, BlankRow DEF Books
    <3>2. allocations[a].reserved >= links[i][a] /\ links[i][a] \in Nat
      BY <2>1, <2>2 DEF Accountable
    <3>3. QED BY <2>3, <3>1, <3>2
  <2>8. QED BY <2>2, <2>6, <2>7 DEF Books
<1>4. QED BY <1>2, <1>3

LEMMA BooksOfCharge ==
    ASSUME IInv, IInv', Books, NEW now \in Started, NEW month \in Months, NEW s \in Sessions,
           NEW units \in VoicePrices, ChargeVoiceSession(s, month, units, now)
    PROVE  Books'
<1> DEFINE alloc == Expire(WithAllowance(allocations, month), now)
           new == [status |-> "SETTLED", units |-> units, month |-> month]
<1>1. units \in Nat /\ s \in Bookings /\ Owner[s] \in Actors
  BY Owners, CreditsAssumption
<1>2. /\ bookings \in [Bookings -> Booking] /\ links \in [Bookings -> [AllocIds -> Nat]]
      /\ usage \in [Actors -> [Months -> Usage]] /\ allocations \in [AllocIds -> Batch]
  BY Components DEF BookingsSound, LinksSound, UsageSound, Sound
<1>3. /\ bookings[s].status = "NONE" /\ bookings' = [bookings EXCEPT ![s] = new]
  BY DEF ChargeVoiceSession, Unbooked
<1>4. bookings'[s].status = "SETTLED" /\ bookings'[s].units = units /\ bookings'[s].month = month
  BY <1>1, <1>2, <1>3
<1>5. CASE units = 0
  <2>1. UNCHANGED <<allocations, links, usage>> BY <1>5 DEF ChargeVoiceSession
  <2>2. Moves(s, "NONE", "SETTLED") BY <1>2, <1>3, <1>4, <2>1 DEF Moves
  <2>3. bookings[s].units = 0 /\ \A a \in AllocIds : links'[s][a] = 0
    BY <1>1, <1>3, <2>1 DEF Books, LinksExplained
  <2>4. Follows(s, "NONE", "SETTLED")
    <3>1. ASSUME NEW a \in AllocIds
          PROVE  allocations[a] \in Batch /\ allocations'[a] = allocations[a] /\ links'[s][a] = 0
      BY <1>2, <2>1, <2>3
    <3>2. ASSUME NEW x \in Actors, NEW m \in Months
          PROVE  usage[x][m] \in Usage /\ usage'[x][m] = usage[x][m]
      BY <1>2, <2>1
    <3>3. QED BY <1>4, <1>5, <3>1, <3>2 DEF Follows, If, Batch, Usage
  <2>5. BooksBalance' BY <1>1, <2>2, <2>4, BalanceKept DEF Books
  <2>6. Total(links'[s], AllocIds) = bookings'[s].units
    BY <1>1, <1>4, <1>5, <2>1, <2>3 DEF Books, LinksExplained
  <2>7. LinksExplained' BY <1>1, <2>2, <2>6, ExplainedKept DEF Books
  <2>8. QED BY <2>1, <2>5, <2>7 DEF Books, AbsentRowsAreBlank
<1>6. CASE units # 0
  <2>1. PICK take \in Draws(alloc, now, units) :
          /\ allocations' = [a \in AllocIds |-> [alloc[a] EXCEPT !.settled = @ + take[a]]]
          /\ links' = [links EXCEPT ![s] = take]
    BY <1>6 DEF ChargeVoiceSession
  <2>2. usage' = [usage EXCEPT ![Owner[s]][month].settled = @ + units]
    BY <1>6 DEF ChargeVoiceSession
  <2>3. Total(take, AllocIds) = units /\ take \in [AllocIds -> Nat]
    BY <1>1, DrawTotal
  <2>4. ASSUME NEW a \in AllocIds
        PROVE  /\ alloc[a] \in Batch
               /\ SameDraws(alloc[a], allocations[a])
               /\ alloc[a].amount = 0 => allocations[a].amount = 0
    BY DrawableCounters DEF Books
  <2> HIDE DEF alloc, new
  <2>5. links'[s] = take BY <1>1, <1>2, <2>1
  <2>6. Moves(s, "NONE", "SETTLED") BY <1>2, <1>3, <1>4, <2>1 DEF Moves
  <2>7. ASSUME NEW a \in AllocIds
        PROVE  /\ allocations'[a].reserved = allocations[a].reserved
               /\ allocations'[a].settled = allocations[a].settled + take[a]
               /\ allocations'[a].released = allocations[a].released
               /\ allocations'[a].amount = alloc[a].amount
               /\ allocations[a] \in Batch
    <3>1. allocations'[a] = [alloc[a] EXCEPT !.settled = @ + take[a]] BY <2>1
    <3>2. QED BY <1>2, <2>4, <3>1 DEF SameDraws, Batch
  <2>8. ASSUME NEW x \in Actors, NEW m \in Months
        PROVE  /\ usage'[x][m].reserved = usage[x][m].reserved
               /\ usage'[x][m].settled = usage[x][m].settled
                    + If(x = Owner[s] /\ m = month, units)
               /\ usage'[x][m].released = usage[x][m].released
               /\ usage[x][m] \in Usage
    <3>1. usage[x][m] \in Usage BY <1>2
    <3>2. usage'[x][m] = IF x = Owner[s] /\ m = month
                         THEN [usage[x][m] EXCEPT !.settled = @ + units] ELSE usage[x][m]
      BY <1>1, <1>2, <2>2
    <3>3. QED BY <1>1, <3>1, <3>2 DEF If, Usage
  <2>9. Follows(s, "NONE", "SETTLED")
    <3>1. ASSUME NEW a \in AllocIds
          PROVE  /\ allocations'[a].reserved = allocations[a].reserved
                      + If("RESERVED" = "SETTLED", links'[s][a]) - If("RESERVED" = "NONE", links[s][a])
                 /\ allocations'[a].settled = allocations[a].settled
                      + If("SETTLED" = "SETTLED", links'[s][a]) - If("SETTLED" = "NONE", links[s][a])
                 /\ allocations'[a].released = allocations[a].released
                      + If("RELEASED" = "SETTLED", links'[s][a]) - If("RELEASED" = "NONE", links[s][a])
      BY <2>3, <2>5, <2>7 DEF If, Batch
    <3>2. QED BY <1>1, <1>4, <2>8, <3>1 DEF Follows, If, Usage
  <2>10. BooksBalance' BY <1>1, <2>6, <2>9, BalanceKept DEF Books
  <2>11. LinksExplained' BY <1>1, <1>4, <2>3, <2>5, <2>6, ExplainedKept DEF Books
  <2>12. AbsentRowsAreBlank' BY <2>4, <2>7 DEF Books, AbsentRowsAreBlank
  <2>13. QED BY <2>10, <2>11, <2>12 DEF Books
<1>7. QED BY <1>5, <1>6

LEMMA BooksInit == Init => Books
<1> SUFFICES ASSUME Init PROVE Books OBVIOUS
<1>1. IsFiniteSet(AllocIds) BY CreditsAssumption
<1>2. ASSUME NEW b \in Bookings
      PROVE  /\ Total(links[b], AllocIds) = bookings[b].units
             /\ bookings[b].units = 0 /\ \A a \in AllocIds : links[b][a] = 0
  <2>1. bookings[b].units = 0 /\ \A a \in AllocIds : links[b][a] = 0
    BY DEF Init, NoBooking
  <2>2. Total(links[b], AllocIds) = 0 BY <1>1, <2>1, TotalZero
  <2>3. QED BY <2>1, <2>2
<1>3. LinksExplained BY <1>2 DEF LinksExplained
<1>4. AbsentRowsAreBlank BY DEF Init, AbsentRowsAreBlank, NoBatch, NewBatch
<1>5. \A a \in AllocIds, status \in {"RESERVED", "SETTLED", "RELEASED"} : DrawnFrom(a, status) = 0
  <2> SUFFICES ASSUME NEW a \in AllocIds, NEW status \in {"RESERVED", "SETTLED", "RELEASED"}
               PROVE  DrawnFrom(a, status) = 0
    OBVIOUS
  <2>1. {b \in Bookings : bookings[b].status = status} = {} BY DEF Init, NoBooking
  <2>2. QED BY <2>1, TotalEmpty DEF DrawnFrom
<1>6. \A x \in Actors, m \in Months, status \in {"RESERVED", "SETTLED", "RELEASED"} :
        BookedBy(x, m, status) = 0
  <2> SUFFICES ASSUME NEW x \in Actors, NEW m \in Months,
                      NEW status \in {"RESERVED", "SETTLED", "RELEASED"}
               PROVE  BookedBy(x, m, status) = 0
    OBVIOUS
  <2>1. {b \in Bookings : Owner[b] = x /\ bookings[b].month = m /\ bookings[b].status = status} = {}
    BY DEF Init, NoBooking
  <2>2. QED BY <2>1, TotalEmpty DEF BookedBy
<1>7. LedgerBalances BY <1>5 DEF LedgerBalances, Init, NoBatch, NewBatch
<1>8. UsageMatchesBookings BY <1>6 DEF UsageMatchesBookings, Init, NoUsage
<1>9. QED BY <1>3, <1>4, <1>7, <1>8 DEF Books, BooksBalance

LEMMA BooksNext == IInv /\ IInv' /\ Books /\ [Next]_vars => Books'
<1> SUFFICES ASSUME IInv, IInv', Books, [Next]_vars PROVE Books' OBVIOUS
<1>1. CASE Tick BY <1>1, BooksOfTick
<1>2. ASSUME NEW m \in RequestedMonths(clock), EnsureMonthlyAllowance(m) PROVE Books'
  BY <1>2, BooksOfEnsure DEF RequestedMonths
<1>3. ASSUME NEW now \in Started, GetGroupCreditBalance(now) PROVE Books'
  BY <1>3, BooksOfBalance
<1>4. ASSUME NEW now \in Started, NEW g \in Grants, GrantCredits(g, now) PROVE Books'
  BY <1>4, BooksOfGrant
<1>5. ASSUME NEW now \in Started, NEW i \in Invocations, ReleaseCredits(i, now) PROVE Books'
  BY <1>5, BooksOfRelease
<1>6. ASSUME NEW now \in Started, NEW m \in RequestedMonths(now), NEW i \in Invocations,
             NEW u \in Prices, ReserveCredits(i, m, u, now)
      PROVE  Books'
  BY <1>6, BooksOfReserve DEF RequestedMonths
<1>7. ASSUME NEW now \in Started, NEW m \in EndedMonths(now), NEW s \in Sessions,
             NEW u \in VoicePrices, ChargeVoiceSession(s, m, u, now)
      PROVE  Books'
  BY <1>7, BooksOfCharge DEF EndedMonths
<1>8. ASSUME NEW i \in Invocations, SettleCredits(i) PROVE Books'
  BY <1>8, BooksOfSettle
<1>9. CASE UNCHANGED vars
  <2>1. BooksBalance' BY <1>9, BalanceUntouched DEF vars, SameDraws, Books
  <2>2. QED BY <1>9, <2>1 DEF vars, Books, LinksExplained, AbsentRowsAreBlank
<1>10. QED BY <1>1, <1>2, <1>3, <1>4, <1>5, <1>6, <1>7, <1>8, <1>9 DEF Next

\* The counters, the links and the units of the bookings agree in every state.
THEOREM LedgerBooks == Spec => []Books
BY InitInv, NextInv, BooksInit, BooksNext, PTL DEF Spec

\* Both books balance: reserve, settle, release, voice charges and sweeps lose or
\* invent no credit, in whatever order and with whatever clocks they run.
THEOREM LedgerBalance == Spec => []BooksBalance
<1>1. Books => BooksBalance BY DEF Books
<1>2. QED BY <1>1, LedgerBooks, PTL

\* Balanced books are what the state checks of settle and release ask for: a
\* reservation is covered by the counters of its actor and of its batches.
LEMMA BalancedIsAccountable == IInv /\ Books => OpenReservationsCanClose
<1> SUFFICES ASSUME IInv, Books, NEW i \in Invocations, bookings[i].status = "RESERVED"
             PROVE  Accountable(i)
  BY DEF OpenReservationsCanClose
<1> DEFINE x == Owner[i]
           m == bookings[i].month
<1>1. /\ i \in Bookings /\ x \in Actors /\ m \in Months /\ IsFiniteSet(Bookings)
      /\ bookings \in [Bookings -> Booking] /\ links \in [Bookings -> [AllocIds -> Nat]]
  BY Components, Owners, CreditsAssumption DEF BookingsSound, LinksSound
<1>2. usage[x][m].reserved >= bookings[i].units
  <2> DEFINE f == [b \in Bookings |-> bookings[b].units]
             S == {b \in Bookings : Owner[b] = x /\ bookings[b].month = m
                                    /\ bookings[b].status = "RESERVED"}
  <2>1. usage[x][m].reserved = Total(f, S)
    BY <1>1 DEF Books, BooksBalance, UsageMatchesBookings, BookedBy
  <2>2. IsFiniteSet(S) /\ i \in S /\ f[i] = bookings[i].units BY <1>1, FS_Subset
  <2>3. \A b \in S : f[b] \in Nat BY <1>1 DEF Booking
  <2> HIDE DEF f, S
  <2>4. f[i] <= Total(f, S) BY <2>2, <2>3, TotalAtLeast
  <2>5. Total(f, S) \in Nat BY <2>2, <2>3, TotalNat
  <2>6. QED BY <2>1, <2>2, <2>3, <2>4, <2>5
<1>3. ASSUME NEW a \in AllocIds PROVE allocations[a].reserved >= links[i][a]
  <2> DEFINE f == [b \in Bookings |-> links[b][a]]
             S == {b \in Bookings : bookings[b].status = "RESERVED"}
  <2>1. allocations[a].reserved = Total(f, S)
    BY DEF Books, BooksBalance, LedgerBalances, DrawnFrom
  <2>2. IsFiniteSet(S) /\ i \in S /\ f[i] = links[i][a] BY <1>1, FS_Subset
  <2>3. \A b \in S : f[b] \in Nat BY <1>1
  <2> HIDE DEF f, S
  <2>4. f[i] <= Total(f, S) BY <2>2, <2>3, TotalAtLeast
  <2>5. Total(f, S) \in Nat BY <2>2, <2>3, TotalNat
  <2>6. QED BY <2>1, <2>2, <2>3, <2>4, <2>5
<1>4. Total(links[i], AllocIds) = bookings[i].units BY <1>1 DEF Books, LinksExplained
<1>5. QED BY <1>2, <1>3, <1>4 DEF Accountable, MonthBooked

\* No open reservation gets stuck: settle and release never raise a state error.
THEOREM ReservationsCanClose == Spec => []OpenReservationsCanClose
BY BalancedIsAccountable, LedgerInvariant, LedgerBooks, PTL

\* What the limits come to: the credits that bookings draw from a batch are never
\* more than it holds, and what an actor's bookings of a month cost is never more
\* than the actor's quota.
WithinMeans ==
    /\ \A a \in AllocIds :
          DrawnFrom(a, "RESERVED") + DrawnFrom(a, "SETTLED") <= allocations[a].amount
    /\ \A x \in Actors, m \in Months :
          BookedBy(x, m, "RESERVED") + BookedBy(x, m, "SETTLED") <= Quota[x]

\* Bookings never cost more than there is, nor more than their actor may spend.
THEOREM BookingsWithinMeans == Spec => []WithinMeans
<1>1. IInv /\ Books => WithinMeans
  <2> SUFFICES ASSUME IInv, Books PROVE WithinMeans OBVIOUS
  <2>1. ASSUME NEW a \in AllocIds
        PROVE  allocations[a].reserved + allocations[a].settled <= allocations[a].amount
    <3>1. allocations[a] \in Batch /\ Available(allocations[a]) >= 0
      BY Components DEF Sound
    <3>2. QED BY <3>1 DEF Batch, Available
  <2>2. ASSUME NEW x \in Actors, NEW m \in Months
        PROVE  usage[x][m].reserved + usage[x][m].settled <= Quota[x]
    BY Components DEF UsageSound
  <2>3. QED
    BY <2>1, <2>2 DEF WithinMeans, Books, BooksBalance, LedgerBalances, UsageMatchesBookings
<1>2. QED BY <1>1, LedgerInvariant, LedgerBooks, PTL

-----------------------------------------------------------------------------
(* Credits that expire sooner are drawn first. *)

\* More of a batch is in use after the step.
DrawnOn(new, old) == new.reserved + new.settled > old.reserved + old.settled

\* A step that draws on a batch leaves nothing in one that expires sooner.
FirstOut ==
    \A a, b \in AllocIds :
        /\ DrawnOn(allocations'[a], allocations[a])
        /\ allocations'[b].expiresAt < allocations'[a].expiresAt
        /\ allocations'[b].expiresAt > clock
        => Available(allocations'[b]) = 0

\* A step that raises no counter draws on nothing.
LEMMA NoDraw ==
    ASSUME IInv,
           \A a \in AllocIds : SameDraws(allocations'[a], allocations[a])
    PROVE  FirstOut
<1>1. \A a \in AllocIds : allocations[a] \in Batch BY Components DEF Sound
<1>2. QED BY <1>1 DEF FirstOut, DrawnOn, SameDraws, Batch

\* The draw itself, from the swept batches alloc into the counters of new.
LEMMA DrawInOrder ==
    ASSUME NEW alloc, Sound(alloc), NEW now \in Int, now <= clock, clock \in Int,
           NEW units \in Nat, NEW take \in Draws(alloc, now, units),
           NEW a \in AllocIds, NEW b \in AllocIds, take[a] > 0,
           alloc[b].expiresAt < alloc[a].expiresAt, alloc[b].expiresAt > clock
    PROVE  take[b] = Available(alloc[b])
<1>1. alloc[b] \in Batch /\ alloc[a] \in Batch /\ Available(alloc[b]) >= 0 BY DEF Sound
<1>2. /\ take \in [AllocIds -> Nat] /\ take[b] <= Available(alloc[b])
  BY DrawsAreCovered
<1>3. b \in Usable(alloc, now) => take[b] = Available(alloc[b])
  BY DEF Draws, DrawnBefore
<1>4. CASE Available(alloc[b]) > 0
  <2>1. alloc[b].expiresAt > now BY <1>1, BatchNumbers
  <2>2. QED BY <1>3, <1>4, <2>1 DEF Usable
<1>5. CASE ~ (Available(alloc[b]) > 0)
  BY <1>1, <1>2, <1>5, BatchNumbers
<1>6. QED BY <1>4, <1>5

LEMMA FirstOutStep ==
    ASSUME IInv, Books, [Next]_vars
    PROVE  FirstOut
<1>1. Sound(allocations) /\ clock \in Nat BY Components
<1>2. CASE Tick \/ UNCHANGED vars BY <1>2, NoDraw DEF Tick, vars, SameDraws
<1>3. ASSUME NEW m \in RequestedMonths(clock), EnsureMonthlyAllowance(m) PROVE FirstOut
  BY <1>3, NoDraw, AllowanceCounters DEF EnsureMonthlyAllowance, RequestedMonths, Books
<1>4. ASSUME NEW now \in Started, GetGroupCreditBalance(now) PROVE FirstOut
  BY <1>1, <1>4, NoDraw, StartedIsNat, ExpireSweep DEF GetGroupCreditBalance
<1>5. ASSUME NEW now \in Started, NEW g \in Grants, GrantCredits(g, now) PROVE FirstOut
  <2>1. allocations[g].reserved = 0 /\ allocations[g].settled = 0 /\ allocations[g].released = 0
    BY <1>5, BlankRow DEF GrantCredits, Books, AllocIds
  <2>2. \A a \in AllocIds : allocations'[a] =
          IF a = g THEN NewBatch(GrantAmount, now, now + GrantLife) ELSE allocations[a]
    BY <1>1, <1>5 DEF GrantCredits, Sound, AllocIds
  <2>3. \A a \in AllocIds : SameDraws(allocations'[a], allocations[a])
    BY <2>1, <2>2 DEF SameDraws, NewBatch
  <2>4. QED BY <2>3, NoDraw
<1>6. ASSUME NEW i \in Invocations, SettleCredits(i) PROVE FirstOut
  <2>1. ASSUME NEW a \in AllocIds PROVE ~ DrawnOn(allocations'[a], allocations[a])
    <3>1. allocations[a] \in Batch /\ links[i][a] \in Nat
      BY <1>1, Owners, Components DEF Sound, LinksSound
    <3>2. allocations'[a] = Consume(allocations[a], links[i][a]) BY <1>6 DEF SettleCredits
    <3>3. QED BY <3>1, <3>2 DEF DrawnOn, Consume, Batch
  <2>2. QED BY <2>1 DEF FirstOut
<1>7. ASSUME NEW now \in Started, NEW i \in Invocations, ReleaseCredits(i, now) PROVE FirstOut
  <2> DEFINE alloc == Expire(allocations, now)
  <2>1. ASSUME NEW a \in AllocIds
        PROVE  alloc[a] \in Batch /\ SameDraws(alloc[a], allocations[a])
    BY <1>1, StartedIsNat, ExpireSweep DEF Sound
  <2>2. CASE bookings[i].status = "RELEASED"
    BY <1>7, <2>1, <2>2, NoDraw DEF ReleaseCredits, Open
  <2>3. CASE bookings[i].status # "RELEASED"
    <3>1. ASSUME NEW a \in AllocIds PROVE ~ DrawnOn(allocations'[a], allocations[a])
      <4>1. links[i][a] \in Nat BY Owners, Components DEF LinksSound
      <4>2. allocations'[a] = GiveBack(alloc[a], links[i][a], now)
        BY <1>7, <2>3 DEF ReleaseCredits
      <4> HIDE DEF alloc
      <4>3. /\ allocations'[a].reserved = alloc[a].reserved - links[i][a]
            /\ allocations'[a].settled = alloc[a].settled
        BY <2>1, <4>2 DEF GiveBack, Batch
      <4>4. QED BY <2>1, <4>1, <4>3 DEF DrawnOn, SameDraws, Batch
    <3>2. QED BY <3>1 DEF FirstOut
  <2>4. QED BY <2>2, <2>3
<1>8. ASSUME NEW now \in Started, NEW m \in RequestedMonths(now), NEW i \in Invocations,
             NEW u \in Prices, ReserveCredits(i, m, u, now)
      PROVE  FirstOut
  <2> DEFINE alloc == Expire(WithAllowance(allocations, m), now)
  <2>1. m \in Months /\ u \in Nat /\ now \in Int /\ now <= clock
    BY <1>1, StartedIsNat, CreditsAssumption DEF RequestedMonths
  <2>2. PICK take \in Draws(alloc, now, u) :
          allocations' = [b \in AllocIds |-> [alloc[b] EXCEPT !.reserved = @ + take[b]]]
    BY <1>8 DEF ReserveCredits
  <2>3. Sound(alloc) /\ \A a \in AllocIds : SameDraws(alloc[a], allocations[a])
    BY <2>1, DrawableSound, DrawableCounters DEF Books
  <2> HIDE DEF alloc
  <2>4. take \in [AllocIds -> Nat] BY <2>1, <2>3, DrawsAreCovered
  <2>5. ASSUME NEW a \in AllocIds
        PROVE  /\ allocations'[a].expiresAt = alloc[a].expiresAt
               /\ Available(allocations'[a]) = Available(alloc[a]) - take[a]
               /\ DrawnOn(allocations'[a], allocations[a]) => take[a] > 0
               /\ Available(alloc[a]) \in Int
    <3>1. allocations'[a] = [alloc[a] EXCEPT !.reserved = @ + take[a]] BY <2>2
    <3>2. alloc[a] \in Batch /\ SameDraws(alloc[a], allocations[a]) /\ take[a] \in Nat
      BY <2>3, <2>4 DEF Sound
    <3>3. QED BY <3>1, <3>2 DEF Batch, Available, DrawnOn, SameDraws
  <2>6. SUFFICES ASSUME NEW a \in AllocIds, NEW b \in AllocIds,
                        DrawnOn(allocations'[a], allocations[a]),
                        allocations'[b].expiresAt < allocations'[a].expiresAt,
                        allocations'[b].expiresAt > clock
                 PROVE  Available(allocations'[b]) = 0
    BY DEF FirstOut
  <2>7. take[b] = Available(alloc[b]) BY <1>1, <2>1, <2>3, <2>5, <2>6, DrawInOrder
  <2>8. QED BY <2>5, <2>7
<1>9. ASSUME NEW now \in Started, NEW m \in EndedMonths(now), NEW s \in Sessions,
             NEW u \in VoicePrices, ChargeVoiceSession(s, m, u, now)
      PROVE  FirstOut
  <2> DEFINE alloc == Expire(WithAllowance(allocations, m), now)
  <2>1. m \in Months /\ u \in Nat /\ now \in Int /\ now <= clock
    BY <1>1, StartedIsNat, CreditsAssumption DEF EndedMonths
  <2>2. CASE u = 0 BY <1>9, <2>1, <2>2, NoDraw DEF ChargeVoiceSession, SameDraws
  <2>3. CASE u # 0
    <3>1. PICK take \in Draws(alloc, now, u) :
            allocations' = [b \in AllocIds |-> [alloc[b] EXCEPT !.settled = @ + take[b]]]
      BY <1>9, <2>3 DEF ChargeVoiceSession
    <3>2. Sound(alloc) /\ \A a \in AllocIds : SameDraws(alloc[a], allocations[a])
      BY <2>1, DrawableSound, DrawableCounters DEF Books
    <3> HIDE DEF alloc
    <3>3. take \in [AllocIds -> Nat] BY <2>1, <3>2, DrawsAreCovered
    <3>4. ASSUME NEW a \in AllocIds
          PROVE  /\ allocations'[a].expiresAt = alloc[a].expiresAt
                 /\ Available(allocations'[a]) = Available(alloc[a]) - take[a]
                 /\ DrawnOn(allocations'[a], allocations[a]) => take[a] > 0
                 /\ Available(alloc[a]) \in Int
      <4>1. allocations'[a] = [alloc[a] EXCEPT !.settled = @ + take[a]] BY <3>1
      <4>2. alloc[a] \in Batch /\ SameDraws(alloc[a], allocations[a]) /\ take[a] \in Nat
        BY <3>2, <3>3 DEF Sound
      <4>3. QED BY <4>1, <4>2 DEF Batch, Available, DrawnOn, SameDraws
    <3>5. SUFFICES ASSUME NEW a \in AllocIds, NEW b \in AllocIds,
                          DrawnOn(allocations'[a], allocations[a]),
                          allocations'[b].expiresAt < allocations'[a].expiresAt,
                          allocations'[b].expiresAt > clock
                   PROVE  Available(allocations'[b]) = 0
      BY DEF FirstOut
    <3>6. take[b] = Available(alloc[b]) BY <1>1, <2>1, <3>2, <3>4, <3>5, DrawInOrder
    <3>7. QED BY <3>4, <3>6
  <2>4. QED BY <2>2, <2>3
<1>10. QED BY <1>2, <1>3, <1>4, <1>5, <1>6, <1>7, <1>8, <1>9 DEF Next

\* No credit lapses needlessly: a batch is drawn on only when the ones that expire
\* sooner, and that the same transaction could use, are empty.
THEOREM SoonestFirst == Spec => SoonestExpiryFirst
<1>1. IInv /\ Books /\ [Next]_vars =>
        \A a, b \in AllocIds :
          /\ allocations'[a].reserved + allocations'[a].settled
                > allocations[a].reserved + allocations[a].settled
          /\ allocations'[b].expiresAt < allocations'[a].expiresAt
          /\ allocations'[b].expiresAt > clock
          => Available(allocations'[b]) = 0
  BY FirstOutStep DEF FirstOut, DrawnOn
<1>2. QED BY <1>1, LedgerInvariant, LedgerBooks, PTL DEF Spec, SoonestExpiryFirst

-----------------------------------------------------------------------------
(* Bookings follow the credit contract. *)

\* What a step may do to the bookings: one of them makes a legal move, or none does.
BookingMove ==
    \/ bookings' = bookings
    \/ \E b \in Bookings, new \in Booking :
          /\ bookings' = [bookings EXCEPT ![b] = new]
          /\ \/ bookings[b].status = "NONE" /\ new.status = "RESERVED"
             \/ bookings[b].status = "NONE" /\ new.status = "SETTLED" /\ b \in Sessions
             \/ bookings[b].status = "RESERVED" /\ new.status \in {"SETTLED", "RELEASED"}

LEMMA BookingMoveStep ==
    ASSUME IInv, [Next]_vars
    PROVE  BookingMove
<1>1. /\ bookings \in [Bookings -> Booking]
      /\ Invocations \subseteq Bookings /\ Sessions \subseteq Bookings
  BY Components, Owners DEF BookingsSound
<1>2. CASE Tick \/ UNCHANGED vars BY <1>2 DEF Tick, vars, BookingMove
<1>3. ASSUME NEW m \in RequestedMonths(clock), EnsureMonthlyAllowance(m)
      PROVE  BookingMove
  BY <1>3 DEF EnsureMonthlyAllowance, BookingMove
<1>4. ASSUME NEW now \in Started, GetGroupCreditBalance(now) PROVE BookingMove
  BY <1>4 DEF GetGroupCreditBalance, BookingMove
<1>5. ASSUME NEW now \in Started, NEW g \in Grants, GrantCredits(g, now) PROVE BookingMove
  BY <1>5 DEF GrantCredits, BookingMove
<1>6. ASSUME NEW i \in Invocations, NEW status \in {"SETTLED", "RELEASED"},
             bookings[i].status = "RESERVED",
             bookings' = [bookings EXCEPT ![i].status = status]
      PROVE  BookingMove
  <2> DEFINE new == [bookings[i] EXCEPT !.status = status]
  <2>1. new \in Booking /\ new.status = status BY <1>1 DEF Booking, Statuses
  <2>2. bookings' = [bookings EXCEPT ![i] = new] BY <1>6
  <2> HIDE DEF new
  <2>3. QED BY <1>1, <1>6, <2>1, <2>2 DEF BookingMove
<1>7. ASSUME NEW i \in Invocations, SettleCredits(i) PROVE BookingMove
  BY <1>6, <1>7 DEF SettleCredits, Open
<1>8. ASSUME NEW now \in Started, NEW i \in Invocations, ReleaseCredits(i, now)
      PROVE  BookingMove
  <2>1. CASE bookings[i].status = "RELEASED"
    BY <1>8, <2>1 DEF Open, ReleaseCredits, BookingMove
  <2>2. CASE bookings[i].status # "RELEASED" BY <1>6, <1>8, <2>2 DEF ReleaseCredits, Open
  <2>3. QED BY <2>1, <2>2
<1>9. ASSUME NEW b \in Bookings, NEW units \in Nat, NEW m \in Months,
             NEW status \in {"RESERVED", "SETTLED"},
             bookings[b].status = "NONE", status = "SETTLED" => b \in Sessions,
             bookings' = [bookings EXCEPT ![b] =
                            [status |-> status, units |-> units, month |-> m]]
      PROVE  BookingMove
  <2> DEFINE new == [status |-> status, units |-> units, month |-> m]
  <2>1. new \in Booking /\ new.status = status BY DEF Booking, Statuses
  <2>2. bookings' = [bookings EXCEPT ![b] = new] BY <1>9
  <2> HIDE DEF new
  <2>3. QED BY <1>9, <2>1, <2>2 DEF BookingMove
<1>10. ASSUME NEW now \in Started, NEW m \in RequestedMonths(now), NEW i \in Invocations,
              NEW u \in Prices, ReserveCredits(i, m, u, now)
       PROVE  BookingMove
  <2>1. m \in Months /\ u \in Nat BY CreditsAssumption DEF RequestedMonths
  <2>2. /\ bookings[i].status = "NONE"
        /\ bookings' = [bookings EXCEPT ![i] =
                           [status |-> "RESERVED", units |-> u, month |-> m]]
    BY <1>10 DEF ReserveCredits, Unbooked
  <2>3. QED BY <1>1, <1>9, <2>1, <2>2
<1>11. ASSUME NEW now \in Started, NEW m \in EndedMonths(now), NEW s \in Sessions,
              NEW u \in VoicePrices, ChargeVoiceSession(s, m, u, now)
       PROVE  BookingMove
  <2>1. m \in Months /\ u \in Nat BY CreditsAssumption DEF EndedMonths
  <2>2. /\ bookings[s].status = "NONE"
        /\ bookings' = [bookings EXCEPT ![s] =
                           [status |-> "SETTLED", units |-> u, month |-> m]]
    BY <1>11 DEF ChargeVoiceSession, Unbooked
  <2>3. QED BY <1>1, <1>9, <2>1, <2>2
<1>12. QED
  BY <1>2, <1>3, <1>4, <1>5, <1>7, <1>8, <1>10, <1>11 DEF Next

\* The ledger implements the credit contract: every step is one move of one
\* booking, or no move at all.
THEOREM LedgerKeepsContract == Spec => KeepsCreditContract
<1> DEFINE credit == [b \in Bookings |-> bookings[b].status]
<1>1. Init => Contract!Init
  BY DEF Init, Contract!Init, Contract!States, NoBooking
<1>2. IInv /\ [Next]_vars => [Contract!Next]_credit
  <2> SUFFICES ASSUME IInv, [Next]_vars PROVE [Contract!Next]_credit OBVIOUS
  <2>1. BookingMove BY BookingMoveStep
  <2>2. bookings \in [Bookings -> Booking] BY Components DEF BookingsSound
  <2>3. CASE bookings' = bookings BY <2>3
  <2>4. ASSUME NEW b \in Bookings, NEW new \in Booking,
               bookings' = [bookings EXCEPT ![b] = new],
               \/ bookings[b].status = "NONE" /\ new.status = "RESERVED"
               \/ bookings[b].status = "NONE" /\ new.status = "SETTLED" /\ b \in Sessions
               \/ bookings[b].status = "RESERVED" /\ new.status \in {"SETTLED", "RELEASED"}
        PROVE  Contract!Next
    <3>1. credit' = [credit EXCEPT ![b] = new.status] BY <2>2, <2>4
    <3>2. credit[b] = bookings[b].status OBVIOUS
    <3>3. QED
      BY <2>4, <3>1, <3>2 DEF Contract!Next, Contract!Reserve, Contract!Settle,
         Contract!Release, Contract!Charge, Contract!Move
  <2>5. QED BY <2>1, <2>3, <2>4 DEF BookingMove
<1>3. QED
  BY <1>1, <1>2, LedgerInvariant, PTL DEF Spec, KeepsCreditContract, Contract!Spec
=============================================================================
